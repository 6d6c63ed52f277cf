------------------------------ MODULE HubQueue ------------------------------
(***************************************************************************)
(* The hub upload path: syncFindings and drainQueue (hub-sync/index.js),   *)
(* the retrying HTTP client (hub-sync/client.js) and the SQLite offline    *)
(* queue they share (hub-sync/queue.js).                                   *)
(*                                                                         *)
(* A session is a process that runs these functions: the worker with       *)
(* auto-upload on, or one /arcanon:sync command.  Each SQL statement is a  *)
(* step and each HTTP attempt is a step, since every other session may run *)
(* in between.  A payload is the number of the sync that built it, and a   *)
(* row's next_attempt_at is the time left until it is due: how long a row  *)
(* has been overdue is not kept, so a drain with more due rows than Limit  *)
(* takes any of them.                                                      *)
(***************************************************************************)
EXTENDS Integers, Sequences, FiniteSets

CONSTANTS
  Sessions,        \* processes that sync
  Keys,            \* (repo_name, commit_sha) pairs, the queue's dedup key
  Dests,           \* (hub_url, org_id) pairs a sync may be bound to
  NoDest,          \* the NULL destination of rows written before binding
  NoKey,           \* the key of a slot with no row
  MaxAttempts,     \* MAX_ATTEMPTS: drains that may fail before a row is dead
  RetryAttempts,   \* RETRY_ATTEMPTS: HTTP attempts of one uploadScan call
  RetrySchedule,   \* RETRY_SCHEDULE_SECONDS, in ticks
  Limit,           \* rows one drain takes
  MaxSyncs,        \* bound on the number of syncs
  MaxFailures      \* bound on killed processes and failures of the disk

ASSUME ConstantsAssumption ==
  /\ NoDest \notin Dests
  /\ NoKey \notin Keys
  /\ MaxAttempts \in Nat \ {0}
  /\ RetryAttempts \in Nat \ {0}
  /\ RetrySchedule \in Seq(Nat \ {0})
  /\ Len(RetrySchedule) > 0
  /\ Limit \in Nat \ {0}
  /\ MaxSyncs \in Nat
  /\ MaxFailures \in Nat

VARIABLES
  uploads,    \* the uploads table: a row per id, status "none" when absent
  nextId,     \* AUTOINCREMENT: the id the next insert gets
  origin,     \* what each sync was asked to send, and where
  nsyncs,     \* how many syncs there have been
  hub,        \* the payload the hub holds per destination and key, 0 if none
  pc,         \* where each session is
  work,       \* the snapshot rows the session's drain has yet to upload
  job,        \* what the session is uploading: id 0 for a direct upload
  tries,      \* the HTTP attempt the session is on
  seen,       \* the attempts it read before marking a failure
  answer,     \* what the hub last answered the session
  report,     \* the drain's counters
  failures    \* killed processes and failures of the disk so far

vars == <<uploads, nextId, origin, nsyncs, hub, pc, work, job, tries, seen,
          answer, report, failures>>

table == <<uploads, nextId>>
asked == <<origin, nsyncs>>
call  == <<job, tries, seen, answer>>

-----------------------------------------------------------------------------

Syncs   == 1 .. MaxSyncs
Ids     == 1 .. (MaxSyncs + 1)
Status  == {"none", "pending", "dead", "held"}

Row == [status : Status, key : Keys \cup {NoKey}, body : Syncs \cup {0},
        dest : Dests \cup {NoDest}, attempts : Nat, wait : Nat]

NoRow == [status |-> "none", key |-> NoKey, body |-> 0, dest |-> NoDest,
          attempts |-> 0, wait |-> 0]

Job == [id : Ids \cup {0}, key : Keys \cup {NoKey}, body : Syncs \cup {0},
        dest : Dests \cup {NoDest}]

NoJob == [id |-> 0, key |-> NoKey, body |-> 0, dest |-> NoDest]

Origin == [key : Keys \cup {NoKey}, dest : Dests \cup {NoDest}]

NoReport == [succeeded |-> 0, failed |-> 0, dead |-> 0]

PCs == {"closed", "idle", "posting", "enqueue", "pruned", "draining",
        "delete", "failed", "refused", "markFailed", "markRefused"}

(* The session is about to run a statement that takes SQLite's write lock. *)
Writing == {"enqueue", "delete", "markFailed", "markRefused"}

(* The queue is opened with no busy timeout, so a write may throw when     *)
(* another session is writing.                                             *)
Contended(s) ==
  pc[s] \in Writing /\ \E t \in Sessions \ {s} : pc[t] \in Writing

(* A statement throws for that reason, or because the disk is full or      *)
(* fails.                                                                  *)
Throws(s) ==
  \/ Contended(s) /\ UNCHANGED failures
  \/ failures < MaxFailures /\ failures' = failures + 1

nextAttemptAt(attempt) ==
  RetrySchedule[IF attempt < Len(RetrySchedule)
                THEN attempt ELSE Len(RetrySchedule)]

Pending(id) == uploads[id].status = "pending"

Due == {id \in Ids : Pending(id) /\ uploads[id].wait = 0}

Snapshot(id) == [id |-> id, key |-> uploads[id].key,
                 body |-> uploads[id].body, dest |-> uploads[id].dest]

Goto(s, label) == pc' = [pc EXCEPT ![s] = label]

(* The upload's locals go out of scope.                                    *)
Done(s, label) ==
  /\ Goto(s, label)
  /\ job' = [job EXCEPT ![s] = NoJob]
  /\ tries' = [tries EXCEPT ![s] = 1]
  /\ seen' = [seen EXCEPT ![s] = 0]
  /\ answer' = [answer EXCEPT ![s] = "none"]

Answer(s, a) == answer' = [answer EXCEPT ![s] = a]

CountSucceeded(s) == report' = [report EXCEPT ![s].succeeded = @ + 1]
CountFailed(s)    == report' = [report EXCEPT ![s].failed = @ + 1]
CountDead(s)      == report' = [report EXCEPT ![s].dead = @ + 1]

-----------------------------------------------------------------------------

(* A database left by an older release may hold a pending row that names   *)
(* no destination.                                                         *)
LegacyRow(k) == [status |-> "pending", key |-> k, body |-> 0, dest |-> NoDest,
                 attempts |-> 0, wait |-> 0]

Init ==
  /\ \/ uploads = [id \in Ids |-> NoRow] /\ nextId = 1
     \/ /\ \E k \in Keys : uploads = [id \in Ids |->
             IF id = 1 THEN LegacyRow(k) ELSE NoRow]
        /\ nextId = 2
  /\ origin = [b \in Syncs |-> [key |-> NoKey, dest |-> NoDest]]
  /\ nsyncs = 0
  /\ hub = [d \in Dests |-> [k \in Keys |-> 0]]
  /\ pc = [s \in Sessions |-> "closed"]
  /\ work = [s \in Sessions |-> {}]
  /\ job = [s \in Sessions |-> NoJob]
  /\ tries = [s \in Sessions |-> 1]
  /\ seen = [s \in Sessions |-> 0]
  /\ answer = [s \in Sessions |-> "none"]
  /\ report = [s \in Sessions |-> NoReport]
  /\ failures = 0

(* openQueueDb runs migrateQueueSchema: pending rows without a destination *)
(* are quarantined.  The code opens the queue in the first call that needs *)
(* it; nobody sees a row before.  An opening that throws changes nothing   *)
(* and the next call tries again; what its caller loses, EnqueueThrew has. *)
OpenQueue(s) ==
  /\ pc[s] = "closed"
  /\ Goto(s, "idle")
  /\ uploads' = [id \in Ids |->
                   IF Pending(id) /\ uploads[id].dest = NoDest
                   THEN [uploads[id] EXCEPT !.status = "held"]
                   ELSE uploads[id]]
  /\ UNCHANGED <<nextId, asked, hub, work, call, report, failures>>

(* syncFindings: build the payload, resolve the destination in force now,  *)
(* and start uploading.                                                    *)
BeginUpload(s, k, d) ==
  /\ pc[s] = "idle"
  /\ nsyncs < MaxSyncs
  /\ nsyncs' = nsyncs + 1
  /\ origin' = [origin EXCEPT ![nsyncs + 1] = [key |-> k, dest |-> d]]
  /\ job' = [job EXCEPT ![s] =
               [id |-> 0, key |-> k, body |-> nsyncs + 1, dest |-> d]]
  /\ tries' = [tries EXCEPT ![s] = 1]
  /\ Goto(s, "posting")
  /\ UNCHANGED <<table, hub, work, seen, answer, report, failures>>

(* The hub takes a payload once per (org, repo, commit): 202 the first     *)
(* time, 409 afterwards.                                                   *)
Receive(j) ==
  hub' = IF hub[j.dest][j.key] = 0
         THEN [hub EXCEPT ![j.dest][j.key] = j.body]
         ELSE hub

(* 202 or 409 came back: a direct upload is done, a queued row is deleted  *)
(* next.                                                                   *)
PostAccepted(s) ==
  /\ pc[s] = "posting"
  /\ Receive(job[s])
  /\ \/ job[s].id = 0 /\ Done(s, "idle")
     \/ job[s].id # 0 /\ Goto(s, "delete") /\ Answer(s, "accepted")
        /\ UNCHANGED <<job, tries, seen>>
  /\ UNCHANGED <<table, asked, work, report, failures>>

(* Fault: one attempt too many.                                            *)
RetryOrGiveUp_OffByOne(s) ==
  \/ /\ tries[s] <= RetryAttempts
     /\ tries' = [tries EXCEPT ![s] = @ + 1]
     /\ UNCHANGED <<pc, answer>>
  \/ /\ tries[s] > RetryAttempts
     /\ Goto(s, IF job[s].id = 0 THEN "enqueue" ELSE "failed")
     /\ Answer(s, "retriable")
     /\ UNCHANGED tries

(* Fault: the attempts are counted from one again and again.               *)
RetryOrGiveUp_Forever(s) ==
  /\ tries' = [tries EXCEPT ![s] = IF @ = RetryAttempts THEN 1 ELSE @ + 1]
  /\ UNCHANGED <<pc, answer>>

(* Another attempt while there are some left; then a direct upload is      *)
(* enqueued and a queued row is marked.                                    *)
RetryOrGiveUp(s) ==
  \/ /\ tries[s] < RetryAttempts
     /\ tries' = [tries EXCEPT ![s] = @ + 1]
     /\ UNCHANGED <<pc, answer>>
  \/ /\ tries[s] = RetryAttempts
     /\ Goto(s, IF job[s].id = 0 THEN "enqueue" ELSE "failed")
     /\ Answer(s, "retriable")
     /\ UNCHANGED tries

(* A network error, a timeout, 429 or 5xx: the hub did not take it.        *)
PostRetriable(s) ==
  /\ pc[s] = "posting"
  /\ RetryOrGiveUp(s)
  /\ UNCHANGED <<table, asked, hub, work, job, seen, report, failures>>

(* The hub took it but the response was lost, a network error here.        *)
PostResponseLost(s) ==
  /\ pc[s] = "posting"
  /\ Receive(job[s])
  /\ RetryOrGiveUp(s)
  /\ UNCHANGED <<table, asked, work, job, seen, report, failures>>

(* Any other 4xx, or a payload over the limit: no retry.  A direct upload  *)
(* reports the error, a queued row is marked dead.                         *)
PostRefused(s) ==
  /\ pc[s] = "posting"
  /\ \/ job[s].id = 0 /\ Done(s, "idle")
     \/ job[s].id # 0 /\ Goto(s, "refused") /\ Answer(s, "refused")
        /\ UNCHANGED <<job, tries, seen>>
  /\ UNCHANGED <<table, asked, hub, work, report, failures>>

(* Fault: the insert has no conflict clause.                               *)
SameKeyPending_None(k) == {}

SameKeyPending(k) == {id \in Ids : Pending(id) /\ uploads[id].key = k}

(* Fault: the upsert replaces the payload and not the destination.         *)
Enqueue_KeepsDestination(s) ==
  /\ pc[s] = "enqueue"
  /\ LET j    == job[s]
         same == SameKeyPending(j.key)
     IN  \/ /\ same = {}
            /\ uploads' = [uploads EXCEPT ![nextId] =
                 [status |-> "pending", key |-> j.key, body |-> j.body,
                  dest |-> j.dest, attempts |-> 0,
                  wait |-> nextAttemptAt(1)]]
            /\ nextId' = nextId + 1
         \/ /\ same # {}
            /\ uploads' = [id \in Ids |->
                 IF id \in same
                 THEN [uploads[id] EXCEPT !.body = j.body,
                                          !.wait = nextAttemptAt(1)]
                 ELSE uploads[id]]
            /\ UNCHANGED nextId
  /\ Done(s, "idle")
  /\ UNCHANGED <<asked, hub, work, report, failures>>

(* enqueueUpload: the pending row of the same key takes the new payload,   *)
(* destination and due time but keeps its attempts; otherwise insert.      *)
Enqueue(s) ==
  /\ pc[s] = "enqueue"
  /\ LET j    == job[s]
         same == SameKeyPending(j.key)
     IN  \/ /\ same = {}
            /\ uploads' = [uploads EXCEPT ![nextId] =
                 [status |-> "pending", key |-> j.key, body |-> j.body,
                  dest |-> j.dest, attempts |-> 0,
                  wait |-> nextAttemptAt(1)]]
            /\ nextId' = nextId + 1
         \/ /\ same # {}
            /\ uploads' = [id \in Ids |->
                 IF id \in same
                 THEN [uploads[id] EXCEPT !.body = j.body, !.dest = j.dest,
                                          !.wait = nextAttemptAt(1)]
                 ELSE uploads[id]]
            /\ UNCHANGED nextId
  /\ Done(s, "idle")
  /\ UNCHANGED <<asked, hub, work, report, failures>>

(* The insert threw: the error is logged and the payload is not queued.    *)
EnqueueThrew(s) ==
  /\ pc[s] = "enqueue"
  /\ Throws(s)
  /\ Done(s, "idle")
  /\ UNCHANGED <<table, asked, hub, work, report>>

(* cmdSync with --prune-dead.                                              *)
PruneDead(s) ==
  /\ pc[s] = "idle"
  /\ uploads' = [id \in Ids |-> IF uploads[id].status = "dead"
                                THEN NoRow ELSE uploads[id]]
  /\ Goto(s, "pruned")
  /\ UNCHANGED <<nextId, asked, hub, work, call, report, failures>>

(* drainQueue starts from a snapshot of at most Limit due rows.            *)
ListDue(s) ==
  /\ pc[s] \in {"idle", "pruned"}
  /\ \E batch \in SUBSET Due :
       /\ Cardinality(batch) <= Limit
       /\ batch = Due \/ Cardinality(batch) = Limit
       /\ work' = [work EXCEPT ![s] = {Snapshot(id) : id \in batch}]
  /\ report' = [report EXCEPT ![s] = NoReport]
  /\ Goto(s, "draining")
  /\ UNCHANGED <<table, asked, hub, call, failures>>

TakeRow(s) ==
  /\ pc[s] = "draining"
  /\ \E j \in work[s] :
       /\ work' = [work EXCEPT ![s] = @ \ {j}]
       /\ job' = [job EXCEPT ![s] = j]
  /\ tries' = [tries EXCEPT ![s] = 1]
  /\ Goto(s, "posting")
  /\ UNCHANGED <<table, asked, hub, seen, answer, report, failures>>

FinishDrain(s) ==
  /\ pc[s] = "draining"
  /\ work[s] = {}
  /\ Goto(s, "idle")
  /\ report' = [report EXCEPT ![s] = NoReport]
  /\ UNCHANGED <<table, asked, hub, work, call, failures>>

(* deleteUpload: by id, whatever the row holds now.                        *)
DeleteDelivered(s) ==
  /\ pc[s] = "delete"
  /\ uploads' = [uploads EXCEPT ![job[s].id] = NoRow]
  /\ CountSucceeded(s)
  /\ Done(s, "draining")
  /\ UNCHANGED <<nextId, asked, hub, work, failures>>

(* The delete threw inside the try: not a HubError, so the catch block     *)
(* treats it as a refusal.                                                 *)
DeleteThrew(s) ==
  /\ pc[s] = "delete"
  /\ Throws(s)
  /\ Goto(s, "refused")
  /\ UNCHANGED <<table, asked, hub, work, call, report>>

(* markUploadFailure and markUploadDead first read the row's attempts; a   *)
(* row that is gone is counted and left.                                   *)
ReadAttempts(s) ==
  /\ pc[s] \in {"failed", "refused"}
  /\ LET row == uploads[job[s].id] IN
       \/ /\ row.status # "none"
          /\ seen' = [seen EXCEPT ![s] = row.attempts]
          /\ Goto(s, IF pc[s] = "failed" THEN "markFailed" ELSE "markRefused")
          /\ UNCHANGED <<job, tries, answer, report>>
       \/ /\ row.status = "none"
          /\ IF pc[s] = "failed" THEN CountFailed(s) ELSE CountDead(s)
          /\ Done(s, "draining")
  /\ UNCHANGED <<table, asked, hub, work, failures>>

(* An UPDATE of a row that is gone changes nothing.                        *)
UpdateRow(id, row) ==
  uploads' = IF uploads[id].status = "none" THEN uploads
             ELSE [uploads EXCEPT ![id] = row]

(* What markUploadFailure writes once it is time to, after n failures.     *)
Failure(s, n, limit, status) ==
  /\ pc[s] = "markFailed"
  /\ LET id  == job[s].id
         row == uploads[id]
     IN  IF n >= limit
         THEN /\ UpdateRow(id, [row EXCEPT !.status = "dead", !.attempts = n,
                                           !.wait = 0])
              /\ CountDead(s)
         ELSE /\ UpdateRow(id, [row EXCEPT !.status = status, !.attempts = n,
                                           !.wait = nextAttemptAt(n + 1)])
              /\ CountFailed(s)
  /\ Done(s, "draining")
  /\ UNCHANGED <<nextId, asked, hub, work, failures>>

(* Fault: dead one failure too late.                                       *)
MarkFailed_OffByOne(s) ==
  Failure(s, seen[s] + 1, MaxAttempts + 1, uploads[job[s].id].status)

(* Fault: the failure is not counted.                                      *)
MarkFailed_NotCounted(s) ==
  Failure(s, seen[s], MaxAttempts, uploads[job[s].id].status)

(* Fault: the row is rescheduled whatever became of it in between.         *)
MarkFailed_Revives(s) ==
  Failure(s, seen[s] + 1, MaxAttempts, "pending")

(* markUploadFailure: back off, or dead once the attempts are used up.     *)
MarkFailed(s) ==
  /\ pc[s] = "markFailed"
  /\ LET id  == job[s].id
         n   == seen[s] + 1
         row == uploads[id]
     IN  IF n >= MaxAttempts
         THEN /\ UpdateRow(id, [row EXCEPT !.status = "dead", !.attempts = n,
                                           !.wait = 0])
              /\ CountDead(s)
         ELSE /\ UpdateRow(id, [row EXCEPT !.attempts = n,
                                           !.wait = nextAttemptAt(n + 1)])
              /\ CountFailed(s)
  /\ Done(s, "draining")
  /\ UNCHANGED <<nextId, asked, hub, work, failures>>

(* Fault: a refused row is deleted.                                        *)
MarkRefused_Deletes(s) ==
  /\ pc[s] = "markRefused"
  /\ uploads' = [uploads EXCEPT ![job[s].id] = NoRow]
  /\ CountDead(s)
  /\ Done(s, "draining")
  /\ UNCHANGED <<nextId, asked, hub, work, failures>>

(* markUploadDead: dead at once.                                           *)
MarkRefused(s) ==
  /\ pc[s] = "markRefused"
  /\ UpdateRow(job[s].id, [uploads[job[s].id] EXCEPT !.status = "dead",
                             !.attempts = seen[s] + 1, !.wait = 0])
  /\ CountDead(s)
  /\ Done(s, "draining")
  /\ UNCHANGED <<nextId, asked, hub, work, failures>>

(* The SELECT or the UPDATE threw in the catch block: drainQueue rejects   *)
(* and the rest of the batch is left as it was.                            *)
MarkThrew(s) ==
  /\ pc[s] \in {"failed", "refused", "markFailed", "markRefused"}
  /\ Throws(s)
  /\ work' = [work EXCEPT ![s] = {}]
  /\ Done(s, "idle")
  /\ report' = [report EXCEPT ![s] = NoReport]
  /\ UNCHANGED <<table, asked, hub>>

(* The process is killed; a new one starts from the file.                  *)
Crash(s) ==
  /\ pc[s] # "closed"
  /\ failures < MaxFailures
  /\ failures' = failures + 1
  /\ Done(s, "closed")
  /\ work' = [work EXCEPT ![s] = {}]
  /\ report' = [report EXCEPT ![s] = NoReport]
  /\ UNCHANGED <<table, asked, hub>>

(* Time passes for the rows that are not due yet.                          *)
Tick ==
  /\ \E id \in Ids : uploads[id].wait > 0
  /\ uploads' = [id \in Ids |-> IF uploads[id].wait > 0
                                THEN [uploads[id] EXCEPT !.wait = @ - 1]
                                ELSE uploads[id]]
  /\ UNCHANGED <<nextId, asked, hub, pc, work, call, report, failures>>

(* What a session does once it has started an upload or a drain.           *)
Post(s) ==
  \/ PostAccepted(s)
  \/ PostRetriable(s)
  \/ PostResponseLost(s)
  \/ PostRefused(s)

Settle(s) ==
  \/ Enqueue(s)
  \/ EnqueueThrew(s)
  \/ DeleteDelivered(s)
  \/ DeleteThrew(s)
  \/ ReadAttempts(s)
  \/ MarkFailed(s)
  \/ MarkRefused(s)
  \/ MarkThrew(s)

DrainLoop(s) ==
  \/ TakeRow(s)
  \/ FinishDrain(s)

Next ==
  \/ \E s \in Sessions :
       \/ OpenQueue(s)
       \/ \E k \in Keys, d \in Dests : BeginUpload(s, k, d)
       \/ Post(s)
       \/ Settle(s)
       \/ PruneDead(s)
       \/ ListDue(s)
       \/ DrainLoop(s)
       \/ Crash(s)
  \/ Tick

Spec == Init /\ [][Next]_vars

(* A started upload or drain goes on: every HTTP attempt ends (the client  *)
(* aborts one without an answer after 30s, fetch one whose body stalls)    *)
(* and nothing in the code waits for another session.  Time passes.        *)
Fairness ==
  /\ \A s \in Sessions : WF_vars(OpenQueue(s))
  /\ \A s \in Sessions : WF_vars(Post(s) \/ Settle(s) \/ DrainLoop(s))
  /\ \A s \in Sessions : WF_vars(pc[s] = "pruned" /\ ListDue(s))
  /\ WF_vars(Tick)

FairSpec == Spec /\ Fairness

(* On top of that the user keeps running /arcanon:sync: only a drain ever  *)
(* uploads a queued row, nothing in the code starts one by itself.         *)
SyncingSpec == FairSpec /\ \A s \in Sessions : WF_vars(ListDue(s))

=============================================================================
