--------------------------- MODULE HubQueueProofs ---------------------------
(***************************************************************************)
(* Proofs about the offline queue, and that it implements Outbox, for any  *)
(* sessions, keys, destinations, retry limits and schedule.                *)
(***************************************************************************)
EXTENDS HubQueueRefinement, TLAPS

(* The payload of a sync that has happened, addressed as that sync asked.  *)
Sent(r) == AsAsked(r) /\ r.body <= nsyncs

SentRows ==
  \A id \in Ids : Pending(id) =>
    \/ Sent(uploads[id])
    \/ uploads[id].dest = NoDest /\ \A s \in Sessions : pc[s] = "closed"

SentJobs ==
  \A s \in Sessions :
    /\ \A j \in work[s] : Sent(j)
    /\ pc[s] \in {"posting", "enqueue"} => Sent(job[s])

SentHub ==
  \A d \in Dests, k \in Keys : hub[d][k] # 0 =>
    /\ hub[d][k] <= nsyncs
    /\ origin[hub[d][k]] = [key |-> k, dest |-> d]

(* AUTOINCREMENT never hands out an id that a row already has.             *)
IdsFresh == \A id \in Ids : id >= nextId => uploads[id].status = "none"

(* NeverRetargeted alone is not inductive: the hub gets what a session     *)
(* holds, which came from a row, which came from a sync.                   *)
IInv == TypeOK /\ SentRows /\ SentJobs /\ SentHub /\ IdsFresh

(* A drain only ever settles a row it listed.                              *)
SettlingRow == {"delete", "failed", "refused", "markFailed", "markRefused"}

JobIds ==
  \A s \in Sessions :
    /\ \A j \in work[s] : j.id \in Ids
    /\ pc[s] \in SettlingRow => job[s].id \in Ids

(* Every delay of the schedule is a number of ticks.                       *)
LEMMA NextAttemptType ==
  ASSUME NEW n \in Nat, n > 0
  PROVE  nextAttemptAt(n) \in Nat
  BY ConstantsAssumption DEF nextAttemptAt

(* The initial database, empty or left by an older release, satisfies the  *)
(* invariant.                                                              *)
LEMMA InitIInv == Init => IInv
<1> SUFFICES ASSUME Init PROVE IInv
  OBVIOUS
<1> USE ConstantsAssumption
<1>1. NoRow \in Row /\ \A k \in Keys : LegacyRow(k) \in Row
  BY DEF NoRow, LegacyRow, Row, Status
<1>2. nextId \in {1, 2} /\ uploads \in [Ids -> Row]
  BY <1>1 DEF Init
<1>3. TypeOK
  BY <1>2 DEF Init, TypeOK, Origin, Syncs, PCs, Job, NoJob, Ids, NoReport
<1>4. SentRows
  BY DEF Init, SentRows, Pending, NoRow, LegacyRow
<1>5. IdsFresh
  BY DEF Init, IdsFresh, NoRow, LegacyRow, Ids
<1>6. SentJobs /\ SentHub
  BY DEF Init, SentJobs, SentHub
<1> QED
  BY <1>3, <1>4, <1>5, <1>6 DEF IInv

(* Rewriting some fields of a row gives a row.                             *)
LEMMA RowUpdates ==
  ASSUME NEW row \in Row
  PROVE  /\ \A st \in Status : [row EXCEPT !.status = st] \in Row
         /\ \A st \in Status, n \in Nat, w \in Nat :
              [row EXCEPT !.status = st, !.attempts = n, !.wait = w] \in Row
         /\ \A n \in Nat, w \in Nat :
              [row EXCEPT !.attempts = n, !.wait = w] \in Row
         /\ \A w \in Nat : [row EXCEPT !.wait = w] \in Row
         /\ \A b \in Syncs, d \in Dests, w \in Nat :
              [row EXCEPT !.body = b, !.dest = d, !.wait = w] \in Row
  BY DEF Row

(* Opening the queue quarantines every row without a destination.          *)
LEMMA OpenQueueIInv ==
  ASSUME IInv, NEW s \in Sessions, OpenQueue(s)
  PROVE  IInv'
<1>1. uploads' \in [Ids -> Row]
  <2>1. uploads \in [Ids -> Row] /\ "held" \in Status
    BY DEF IInv, TypeOK, Status
  <2>2. \A id \in Ids : [uploads[id] EXCEPT !.status = "held"] \in Row
    BY <2>1, RowUpdates
  <2> QED
    BY <2>1, <2>2 DEF OpenQueue
<1>2. TypeOK'
  BY <1>1 DEF IInv, TypeOK, PCs, OpenQueue, Goto, asked, call
<1>3. SentRows'
  <2> SUFFICES ASSUME NEW id \in Ids, Pending(id)'
               PROVE  Sent(uploads[id])'
    BY DEF SentRows
  <2>1. uploads[id] \in Row /\ Pending(id) /\ uploads[id].dest # NoDest
    BY DEF IInv, TypeOK, OpenQueue, Pending, Row
  <2>2. uploads'[id] = uploads[id]
    BY <2>1 DEF OpenQueue
  <2> QED
    BY <2>1, <2>2 DEF IInv, SentRows, Sent, AsAsked, OpenQueue, asked
<1>4. SentJobs'
  BY DEF IInv, TypeOK, SentJobs, Sent, AsAsked, OpenQueue, Goto, asked, call
<1>5. SentHub'
  BY DEF IInv, SentHub, OpenQueue, asked
<1>6. IdsFresh'
  BY DEF IInv, TypeOK, Row, IdsFresh, OpenQueue, Pending
<1> QED
  BY <1>2, <1>3, <1>4, <1>5, <1>6 DEF IInv

(* A new sync takes a number no row, session or hub slot refers to yet.    *)
LEMMA BeginUploadIInv ==
  ASSUME IInv, NEW s \in Sessions, NEW k \in Keys, NEW d \in Dests,
         BeginUpload(s, k, d)
  PROVE  IInv'
<1> USE ConstantsAssumption DEF IInv, BeginUpload, Goto, table
<1>1. /\ nsyncs + 1 \in Syncs
      /\ origin'[nsyncs + 1] = [key |-> k, dest |-> d]
      /\ \A b \in Syncs : b <= nsyncs => origin'[b] = origin[b]
  BY DEF TypeOK, Syncs
<1>2. TypeOK'
  <2>1. [key |-> k, dest |-> d] \in Origin
    BY DEF Origin
  <2>2. [id |-> 0, key |-> k, body |-> nsyncs + 1, dest |-> d] \in Job
    BY <1>1 DEF Job
  <2>3. origin' \in [Syncs -> Origin] /\ job' \in [Sessions -> Job]
    BY <2>1, <2>2 DEF TypeOK
  <2> QED
    BY <2>3 DEF TypeOK, PCs, Syncs
<1>3. \A r : Sent(r) => Sent(r)'
  BY <1>1 DEF Sent, AsAsked, TypeOK, Syncs
<1>4. SentRows'
  BY <1>3 DEF SentRows, Pending, TypeOK
<1>5. SentJobs'
  BY <1>1, <1>3, SMTT(30) DEF SentJobs, Sent, AsAsked, TypeOK, PCs, Syncs
<1>6. SentHub'
  BY <1>1 DEF SentHub, TypeOK, Syncs
<1>7. IdsFresh'
  BY DEF IdsFresh
<1> QED
  BY <1>2, <1>4, <1>5, <1>6, <1>7

(* What the hub receives is addressed to it.                               *)
LEMMA ReceiveSent ==
  ASSUME IInv, NEW s \in Sessions, pc[s] = "posting", Receive(job[s]),
         UNCHANGED asked
  PROVE  SentHub' /\ hub' \in [Dests -> [Keys -> Syncs \cup {0}]]
<1>4. nsyncs' = nsyncs /\ origin' = origin
  BY DEF asked
<1> USE DEF IInv, Receive, asked
<1>1. Sent(job[s])
  BY DEF SentJobs
<1>2. hub' \in [Dests -> [Keys -> Syncs \cup {0}]]
  BY <1>1 DEF TypeOK, Sent, AsAsked
<1>3. SentHub'
  <2>4. ASSUME NEW d \in Dests, NEW k \in Keys, hub'[d][k] # 0
        PROVE  /\ hub'[d][k] <= nsyncs
               /\ origin[hub'[d][k]] = [key |-> k, dest |-> d]
    <3>1. CASE hub'[d][k] = hub[d][k]
      BY <2>4, <3>1 DEF SentHub
    <3>2. CASE hub'[d][k] # hub[d][k]
      <4>1. d = job[s].dest /\ k = job[s].key /\ hub'[d][k] = job[s].body
        BY <1>1, <3>2 DEF TypeOK, Sent, AsAsked
      <4>2. origin[job[s].body] \in Origin
        BY <1>1 DEF TypeOK, Sent, AsAsked
      <4> QED
        BY <1>1, <4>1, <4>2 DEF Sent, AsAsked, Origin
    <3> QED
      BY <3>1, <3>2
  <2> QED
    BY ONLY <1>4, <2>4 DEF SentHub
<1> QED
  BY <1>2, <1>3

(* An HTTP attempt changes what the hub holds and nothing else the         *)
(* invariant speaks of.                                                    *)
LEMMA PostIInv ==
  ASSUME IInv, NEW s \in Sessions, Post(s)
  PROVE  IInv'
<1> USE ConstantsAssumption DEF IInv
<1>1. SentHub' /\ hub' \in [Dests -> [Keys -> Syncs \cup {0}]]
  <2>1. CASE Receive(job[s])
    BY <2>1, ReceiveSent DEF Post, PostAccepted, PostRetriable,
       PostResponseLost, PostRefused, asked
  <2>2. CASE UNCHANGED hub
    BY <2>2 DEF Post, PostAccepted, PostRetriable, PostResponseLost,
       PostRefused, asked, SentHub, TypeOK
  <2> QED
    BY <2>1, <2>2 DEF Post, PostAccepted, PostRetriable, PostResponseLost,
       PostRefused
<1>2. /\ pc[s] = "posting"
      /\ UNCHANGED <<uploads, nextId, origin, nsyncs, work, report, failures>>
  BY DEF Post, PostAccepted, PostRetriable, PostResponseLost, PostRefused,
         table, asked
<1>3. \/ UNCHANGED <<pc, job, seen, answer>> /\ tries[s] < RetryAttempts
           /\ tries' = [tries EXCEPT ![s] = @ + 1]
      \/ /\ \E l \in {"enqueue", "delete", "refused", "failed"} :
               pc' = [pc EXCEPT ![s] = l]
         /\ UNCHANGED <<job, seen, tries>>
         /\ \E a \in {"accepted", "retriable", "refused"} :
              answer' = [answer EXCEPT ![s] = a]
      \/ Done(s, "idle")
  BY DEF Post, PostAccepted, PostRetriable, PostResponseLost, PostRefused,
         RetryOrGiveUp, Goto, Answer
<1>4. TypeOK'
  <2>1. NoJob \in Job
    BY DEF Job, NoJob
  <2>2. pc' \in [Sessions -> PCs]
    BY <1>3 DEF TypeOK, PCs, Done, Goto
  <2>3. job' \in [Sessions -> Job]
    BY <1>3, <2>1 DEF TypeOK, Done
  <2>5. tries' \in [Sessions -> 1 .. RetryAttempts]
    <3>1. tries \in [Sessions -> 1 .. RetryAttempts] /\ RetryAttempts \in Nat \ {0}
      BY DEF TypeOK
    <3>2. \/ tries[s] < RetryAttempts /\ tries' = [tries EXCEPT ![s] = @ + 1]
          \/ tries' = tries
          \/ tries' = [tries EXCEPT ![s] = 1]
      BY <1>3 DEF Done
    <3>3. tries[s] \in 1 .. RetryAttempts
      BY <3>1
    <3>4. tries[s] < RetryAttempts => tries[s] + 1 \in 1 .. RetryAttempts
      BY <3>1, <3>3
    <3>5. 1 \in 1 .. RetryAttempts
      BY <3>1
    <3> HIDE DEF IInv
    <3> QED
      BY ONLY <3>1, <3>2, <3>4, <3>5
  <2>6. seen' \in [Sessions -> Nat]
    <3>1. seen' = seen \/ seen' = [seen EXCEPT ![s] = 0]
      BY <1>3 DEF Done
    <3> QED
      BY <3>1, SMTT(30) DEF TypeOK
  <2>4. answer' \in [Sessions -> {"none", "accepted", "retriable", "refused"}]
    BY <1>3 DEF TypeOK, Done
  <2> QED
    BY <1>1, <1>2, <2>2, <2>3, <2>4, <2>5, <2>6 DEF TypeOK
<1>5. SentRows' /\ IdsFresh'
  BY <1>2, <1>3 DEF SentRows, IdsFresh, Pending, Sent, AsAsked, TypeOK, Done, Goto
<1>6. SentJobs'
  <2> SUFFICES ASSUME NEW t \in Sessions
               PROVE  /\ \A j \in work'[t] : Sent(j)'
                      /\ pc'[t] \in {"posting", "enqueue"} => Sent(job[t])' 
    BY DEF SentJobs
  <2>1. \A r : Sent(r) => Sent(r)'
    BY <1>2 DEF Sent, AsAsked
  <2>2. pc'[t] \in {"posting", "enqueue"} =>
          pc[t] \in {"posting", "enqueue"} /\ job'[t] = job[t]
    BY <1>2, <1>3 DEF TypeOK, Done, Goto
  <2>3. \A j \in work[t] : Sent(j)
    BY DEF SentJobs
  <2>4. pc[t] \in {"posting", "enqueue"} => Sent(job[t])
    BY DEF SentJobs
  <2>5. pc'[t] \in {"posting", "enqueue"} => Sent(job[t])'
    BY <1>2, <2>2, <2>4 DEF Sent, AsAsked
  <2> QED
    BY <1>2, <2>1, <2>3, <2>5
<1> QED
  BY <1>1, <1>4, <1>5, <1>6

(* A queued payload is the one the session was sending.                    *)
LEMMA EnqueueIInv ==
  ASSUME IInv, NEW s \in Sessions, Enqueue(s)
  PROVE  IInv'
<1> DEFINE j == job[s]
<1>1. /\ Sent(j) /\ j.body \in Syncs /\ j.dest \in Dests /\ j.key \in Keys
      /\ nextAttemptAt(1) \in Nat
  <2>1. Sent(j)
    BY DEF IInv, SentJobs, Enqueue
  <2>2. nextAttemptAt(1) \in Nat
    BY NextAttemptType
  <2> QED
    BY <2>1, <2>2 DEF Sent, AsAsked
<1>2. UNCHANGED <<origin, nsyncs, hub, work, report, failures>> /\ Done(s, "idle")
  BY DEF Enqueue, asked
<1>3. \/ /\ uploads' = [uploads EXCEPT ![nextId] =
                 [status |-> "pending", key |-> j.key, body |-> j.body,
                  dest |-> j.dest, attempts |-> 0,
                  wait |-> nextAttemptAt(1)]]
          /\ nextId' = nextId + 1
      \/ /\ uploads' = [id \in Ids |->
                 IF id \in SameKeyPending(j.key)
                 THEN [uploads[id] EXCEPT !.body = j.body, !.dest = j.dest,
                                          !.wait = nextAttemptAt(1)]
                 ELSE uploads[id]]
          /\ nextId' = nextId
  BY DEF Enqueue
<1>4. uploads' \in [Ids -> Row]
  <2>1. [status |-> "pending", key |-> j.key, body |-> j.body,
         dest |-> j.dest, attempts |-> 0, wait |-> nextAttemptAt(1)] \in Row
    BY <1>1 DEF Row, Status
  <2>2. \A id \in Ids :
          [uploads[id] EXCEPT !.body = j.body, !.dest = j.dest,
                              !.wait = nextAttemptAt(1)] \in Row
    BY <1>1, RowUpdates DEF IInv, TypeOK
  <2>3. uploads \in [Ids -> Row]
    BY DEF IInv, TypeOK
  <2> QED
    BY <1>3, <2>1, <2>2, <2>3
<1>5. TypeOK'
  <2>1. nextId' \in Nat \ {0}
    <3>1. nextId' = nextId \/ nextId' = nextId + 1
      BY <1>3
    <3> QED
      BY <3>1 DEF IInv, TypeOK
  <2>2. NoJob \in Job /\ "idle" \in PCs /\ 1 \in 1 .. RetryAttempts
    BY ConstantsAssumption DEF NoJob, Job, PCs
  <2> QED
    BY <1>2, <1>4, <2>1, <2>2 DEF IInv, TypeOK, Done, Goto
<1>6. \A r : Sent(r) => Sent(r)'
  BY <1>2 DEF Sent, AsAsked
<1>7. SentRows'
  <2> SUFFICES ASSUME NEW id \in Ids, Pending(id)'
               PROVE  Sent(uploads[id])'
    BY DEF SentRows
  <2>1. uploads[id] \in Row
    BY DEF IInv, TypeOK
  <2>2. CASE uploads'[id] = uploads[id]
    <3>1. Pending(id) /\ pc[s] # "closed"
      BY <2>2 DEF Pending, Enqueue
    <3>2. Sent(uploads[id])
      BY <3>1 DEF IInv, SentRows
    <3> QED
      BY <1>2, <2>2, <3>2 DEF Sent, AsAsked
  <2>3. CASE uploads'[id] # uploads[id]
    <3>1. uploads \in [Ids -> Row]
      BY DEF IInv, TypeOK
    <3>2. \/ uploads'[id] = [status |-> "pending", key |-> j.key,
                             body |-> j.body, dest |-> j.dest,
                             attempts |-> 0, wait |-> nextAttemptAt(1)]
          \/ /\ id \in SameKeyPending(j.key)
             /\ uploads'[id] = [uploads[id] EXCEPT !.body = j.body,
                                  !.dest = j.dest, !.wait = nextAttemptAt(1)]
      BY <1>3, <2>3, <3>1
    <3>3. id \in SameKeyPending(j.key) => uploads[id].key = j.key
      BY DEF SameKeyPending
    <3>4. /\ uploads'[id].body = j.body /\ uploads'[id].dest = j.dest
          /\ uploads'[id].key = j.key
      <4> HIDE DEF j
      <4>1. CASE uploads'[id] = [status |-> "pending", key |-> j.key,
                                 body |-> j.body, dest |-> j.dest,
                                 attempts |-> 0, wait |-> nextAttemptAt(1)]
        BY <4>1
      <4>2. CASE /\ id \in SameKeyPending(j.key)
                 /\ uploads'[id] = [uploads[id] EXCEPT !.body = j.body,
                                      !.dest = j.dest, !.wait = nextAttemptAt(1)]
        BY <2>1, <3>3, <4>2 DEF Row
      <4> QED
        BY <3>2, <4>1, <4>2
    <3> QED
      BY <1>1, <1>2, <3>4 DEF Sent, AsAsked
  <2> QED
    BY <2>2, <2>3
<1>8. SentJobs'
  BY <1>2, <1>6 DEF IInv, TypeOK, SentJobs, Done, Goto
<1>9. SentHub'
  BY <1>2 DEF IInv, SentHub
<1>10. IdsFresh'
  <2> SUFFICES ASSUME NEW id \in Ids, id >= nextId'
               PROVE  uploads'[id].status = "none"
    BY DEF IdsFresh
  <2>1. id \in Nat /\ nextId \in Nat /\ uploads \in [Ids -> Row]
    BY ConstantsAssumption DEF IInv, TypeOK, Ids
  <2>2. nextId' = nextId \/ nextId' = nextId + 1
    BY <1>3
  <2>3. id >= nextId /\ uploads[id].status = "none"
    BY <2>1, <2>2 DEF IInv, IdsFresh
  <2>4. uploads'[id] = uploads[id]
    <3>1. id \notin SameKeyPending(j.key)
      BY <2>3 DEF SameKeyPending, Pending
    <3>2. CASE nextId' = nextId
      <4>1. nextId' # nextId + 1
        BY <2>1, <3>2
      <4> QED
        BY <1>3, <3>1, <4>1
    <3>3. CASE nextId' = nextId + 1
      <4>1. id # nextId /\ nextId' # nextId
        BY <2>1, <3>3
      <4> QED
        BY <1>3, <2>1, <4>1
    <3> QED
      BY <2>2, <3>2, <3>3
  <2> QED
    BY <2>3, <2>4
<1> QED
  BY <1>5, <1>7, <1>8, <1>9, <1>10 DEF IInv

(* The locals of a finished call have their types.                         *)
LEMMA DoneTypes ==
  ASSUME TypeOK, NEW s \in Sessions, NEW l \in PCs, Done(s, l)
  PROVE  /\ pc' \in [Sessions -> PCs]
         /\ job' \in [Sessions -> Job]
         /\ tries' \in [Sessions -> 1 .. RetryAttempts]
         /\ seen' \in [Sessions -> Nat]
         /\ answer' \in [Sessions -> {"none", "accepted", "retriable", "refused"}]
<1>1. NoJob \in Job /\ 1 \in 1 .. RetryAttempts
  BY ConstantsAssumption DEF NoJob, Job
<1> QED
  BY <1>1 DEF TypeOK, Done, Goto

(* A step that neither starts an upload nor lists rows keeps the invariant *)
(* when no row becomes pending or changes its payload.                     *)
RowsShrink ==
  \A id \in Ids :
    /\ Pending(id)' => /\ Pending(id)
                       /\ uploads'[id].key = uploads[id].key
                       /\ uploads'[id].body = uploads[id].body
                       /\ uploads'[id].dest = uploads[id].dest
    /\ uploads[id].status = "none" => uploads'[id].status = "none"

SessionsShrink ==
  \A t \in Sessions :
    /\ work'[t] \subseteq work[t]
    /\ pc'[t] \in {"posting", "enqueue"} => pc'[t] = pc[t] /\ job'[t] = job[t]

LEMMA ShrinkIInv ==
  ASSUME IInv, UNCHANGED <<nextId, origin, nsyncs, hub>>,
         RowsShrink, SessionsShrink,
         pc' = pc \/ \E t \in Sessions : pc[t] # "closed"
  PROVE  SentRows' /\ SentJobs' /\ SentHub' /\ IdsFresh'
<1>1. SentRows'
  <2> SUFFICES ASSUME NEW id \in Ids, Pending(id)'
               PROVE  \/ Sent(uploads[id])'
                      \/ uploads'[id].dest = NoDest /\ \A t \in Sessions : pc'[t] = "closed"
    BY DEF SentRows
  <2>1. /\ Pending(id)
        /\ uploads'[id].key = uploads[id].key
        /\ uploads'[id].body = uploads[id].body
        /\ uploads'[id].dest = uploads[id].dest
    BY DEF RowsShrink
  <2>2. CASE Sent(uploads[id])
    BY <2>1, <2>2 DEF Sent, AsAsked
  <2>3. CASE uploads[id].dest = NoDest /\ \A t \in Sessions : pc[t] = "closed"
    BY <2>1, <2>3
  <2> QED
    BY <2>1, <2>2, <2>3 DEF IInv, SentRows
<1>2. SentJobs'
  BY DEF IInv, SentJobs, SessionsShrink, Sent, AsAsked
<1>3. SentHub'
  BY DEF IInv, SentHub
<1>4. IdsFresh'
  BY DEF IInv, IdsFresh, RowsShrink
<1> QED
  BY <1>1, <1>2, <1>3, <1>4

(* The counters of a drain count.                                          *)
LEMMA CountTypes ==
  ASSUME TypeOK, NEW s \in Sessions,
         \/ CountSucceeded(s) \/ CountFailed(s) \/ CountDead(s)
         \/ report' = [report EXCEPT ![s] = NoReport] \/ UNCHANGED report
  PROVE  report' \in [Sessions -> [succeeded : Nat, failed : Nat, dead : Nat]]
<1> DEFINE Rep == [succeeded : Nat, failed : Nat, dead : Nat]
<1>1. NoReport \in Rep
  BY DEF NoReport
<1>2. report \in [Sessions -> Rep]
  BY DEF TypeOK
<1>3. /\ [report[s] EXCEPT !.succeeded = @ + 1] \in Rep
      /\ [report[s] EXCEPT !.failed = @ + 1] \in Rep
      /\ [report[s] EXCEPT !.dead = @ + 1] \in Rep
  BY <1>2
<1> QED
  BY <1>1, <1>2, <1>3 DEF CountSucceeded, CountFailed, CountDead

(* Writing a row the session has read back.                                *)
LEMMA UpdateRowShrinks ==
  ASSUME TypeOK, NEW id \in Ids \cup {0}, NEW st \in {uploads[id].status, "dead"},
         NEW n \in Nat, NEW w \in Nat,
         UpdateRow(id, [uploads[id] EXCEPT !.status = st, !.attempts = n,
                                           !.wait = w])
  PROVE  RowsShrink /\ uploads' \in [Ids -> Row]
<1> DEFINE row == [uploads[id] EXCEPT !.status = st, !.attempts = n, !.wait = w]
<1>1. uploads \in [Ids -> Row]
  BY DEF TypeOK
<1>2. CASE UNCHANGED uploads
  BY <1>1, <1>2 DEF RowsShrink, Pending
<1>3. CASE id \in Ids /\ uploads[id].status # "none" /\ uploads' = [uploads EXCEPT ![id] = row]
  <2>1. uploads[id] \in Row /\ st \in Status
    BY <1>1, <1>3 DEF Row, Status
  <2>2. row \in Row
    BY <2>1, RowUpdates
  <2>3. /\ row.key = uploads[id].key /\ row.body = uploads[id].body
        /\ row.dest = uploads[id].dest
        /\ row.status = "pending" => uploads[id].status = "pending"
    BY <2>1 DEF Row
  <2> HIDE DEF row
  <2>4. uploads' \in [Ids -> Row]
    BY <1>1, <1>3, <2>2
  <2>5. \A i \in Ids : uploads'[i] = IF i = id THEN row ELSE uploads[i]
    BY <1>1, <1>3
  <2> QED
    BY <1>1, <1>3, <2>3, <2>4, <2>5 DEF RowsShrink, Pending
<1>4. CASE id \notin Ids /\ uploads' = [uploads EXCEPT ![id] = row]
  <2>1. uploads' = uploads
    BY <1>1, <1>4
  <2> QED
    BY <1>2, <2>1
<1> QED
  BY <1>2, <1>3, <1>4 DEF UpdateRow

(* A statement that throws is counted at most. *)
LEMMA ThrowsType ==
  ASSUME IInv, NEW s \in Sessions, Throws(s)
  PROVE  failures' \in Nat
  BY DEF Throws, IInv, TypeOK

(* What a session does once the HTTP exchange is over.                     *)
LEMMA SettleIInv ==
  ASSUME IInv, JobIds, NEW s \in Sessions, Settle(s)
  PROVE  IInv'
<1>1. CASE Enqueue(s)
  BY <1>1, EnqueueIInv
<1> USE DEF IInv
<1>2. CASE EnqueueThrew(s)
  <2>1. /\ UNCHANGED <<uploads, nextId, origin, nsyncs, hub, work, report>>
        /\ failures' \in Nat /\ Done(s, "idle") /\ pc[s] = "enqueue"
    BY <1>2, ThrowsType DEF EnqueueThrew, table, asked
  <2>2. RowsShrink /\ SessionsShrink
    BY <2>1 DEF RowsShrink, SessionsShrink, Pending, Done, Goto, TypeOK
  <2>3. TypeOK'
    BY <2>1, DoneTypes DEF TypeOK, PCs
  <2> QED
    BY <2>1, <2>2, <2>3, ShrinkIInv
<1>3. CASE DeleteDelivered(s)
  <2>1. /\ UNCHANGED <<nextId, origin, nsyncs, hub, work, failures>>
        /\ Done(s, "draining") /\ pc[s] = "delete" /\ CountSucceeded(s)
        /\ uploads' = [uploads EXCEPT ![job[s].id] = NoRow]
    BY <1>3 DEF DeleteDelivered, asked
  <2>2. NoRow \in Row /\ NoRow.status = "none" /\ uploads \in [Ids -> Row]
    BY DEF NoRow, Row, Status, TypeOK
  <2>3. RowsShrink /\ uploads' \in [Ids -> Row]
    BY <2>1, <2>2 DEF RowsShrink, Pending
  <2>4. SessionsShrink
    BY <2>1 DEF SessionsShrink, Done, Goto, TypeOK
  <2>5. TypeOK'
    <3>1. report' \in [Sessions -> [succeeded : Nat, failed : Nat, dead : Nat]]
      BY <2>1, CountTypes
    <3> QED
      BY <2>1, <2>3, <3>1, DoneTypes DEF TypeOK, PCs
  <2> QED
    BY <2>1, <2>3, <2>4, <2>5, ShrinkIInv
<1>4. CASE DeleteThrew(s)
  <2>1. /\ UNCHANGED <<uploads, nextId, origin, nsyncs, hub, work, job, tries,
                       seen, answer, report>>
        /\ failures' \in Nat
        /\ pc' = [pc EXCEPT ![s] = "refused"] /\ pc[s] = "delete"
    BY <1>4, ThrowsType DEF DeleteThrew, table, asked, call, Goto
  <2>2. RowsShrink /\ SessionsShrink
    BY <2>1 DEF RowsShrink, SessionsShrink, Pending, TypeOK
  <2>3. TypeOK'
    BY <2>1 DEF TypeOK, PCs
  <2> QED
    BY <2>1, <2>2, <2>3, ShrinkIInv
<1>5. CASE ReadAttempts(s)
  <2>1. /\ UNCHANGED <<uploads, nextId, origin, nsyncs, hub, work, failures>>
        /\ pc[s] \in {"failed", "refused"}
    BY <1>5 DEF ReadAttempts, table, asked
  <2>2. CASE /\ uploads[job[s].id].status # "none"
             /\ seen' = [seen EXCEPT ![s] = uploads[job[s].id].attempts]
             /\ \E l \in {"markFailed", "markRefused"} : pc' = [pc EXCEPT ![s] = l]
             /\ UNCHANGED <<job, tries, answer, report>>
    <3>1. RowsShrink /\ SessionsShrink
      BY <2>1, <2>2 DEF RowsShrink, SessionsShrink, Pending, TypeOK
    <3>2. seen' \in [Sessions -> Nat]
      BY <2>1, <2>2 DEF TypeOK, Row, JobIds, SettlingRow
    <3>3. TypeOK'
      BY <2>1, <2>2, <3>2 DEF TypeOK, PCs
    <3> QED
      BY <2>1, <3>1, <3>3, ShrinkIInv
  <2>3. CASE Done(s, "draining") /\ (CountFailed(s) \/ CountDead(s))
    <3>1. RowsShrink /\ SessionsShrink
      BY <2>1, <2>3 DEF RowsShrink, SessionsShrink, Pending, Done, Goto, TypeOK
    <3>2. report' \in [Sessions -> [succeeded : Nat, failed : Nat, dead : Nat]]
      BY <2>3, CountTypes
    <3>3. TypeOK'
      BY <2>1, <2>3, <3>2, DoneTypes DEF TypeOK, PCs
    <3> QED
      BY <2>1, <3>1, <3>3, ShrinkIInv
  <2> QED
    BY <1>5, <2>2, <2>3 DEF ReadAttempts, Goto
<1>6. CASE MarkFailed(s)
  <2> DEFINE n == seen[s] + 1
  <2>1. /\ UNCHANGED <<nextId, origin, nsyncs, hub, work, failures>>
        /\ Done(s, "draining") /\ pc[s] = "markFailed"
        /\ CountFailed(s) \/ CountDead(s)
    BY <1>6 DEF MarkFailed, asked
  <2>2. /\ n \in Nat /\ nextAttemptAt(n + 1) \in Nat
        /\ job[s].id \in Ids /\ 0 \in Nat
    BY <2>1, NextAttemptType DEF TypeOK, JobIds, SettlingRow
  <2>3. \E st \in {uploads[job[s].id].status, "dead"}, w \in Nat :
           UpdateRow(job[s].id, [uploads[job[s].id] EXCEPT !.status = st,
                                   !.attempts = n, !.wait = w])
    <3>1. CASE n >= MaxAttempts
      BY <1>6, <2>2, <3>1 DEF MarkFailed
    <3>2. CASE ~(n >= MaxAttempts)
      <4>1. UpdateRow(job[s].id, [uploads[job[s].id] EXCEPT !.attempts = n,
                                    !.wait = nextAttemptAt(n + 1)])
        BY <1>6, <3>2 DEF MarkFailed
      <4>2. [uploads[job[s].id] EXCEPT !.attempts = n, !.wait = nextAttemptAt(n + 1)]
              = [uploads[job[s].id] EXCEPT !.status = uploads[job[s].id].status,
                   !.attempts = n, !.wait = nextAttemptAt(n + 1)]
        BY <2>2 DEF TypeOK, Row
      <4> QED
        BY <2>2, <4>1, <4>2
    <3> QED
      BY <3>1, <3>2
  <2> HIDE DEF n
  <2>4. RowsShrink /\ uploads' \in [Ids -> Row]
    BY <2>2, <2>3, UpdateRowShrinks
  <2>5. SessionsShrink
    BY <2>1 DEF SessionsShrink, Done, Goto, TypeOK
  <2>6. TypeOK'
    <3>1. report' \in [Sessions -> [succeeded : Nat, failed : Nat, dead : Nat]]
      BY <2>1, CountTypes
    <3> QED
      BY <2>1, <2>4, <3>1, DoneTypes DEF TypeOK, PCs
  <2> QED
    BY <2>1, <2>4, <2>5, <2>6, ShrinkIInv
<1>7. CASE MarkRefused(s)
  <2>1. /\ UNCHANGED <<nextId, origin, nsyncs, hub, work, failures>>
        /\ Done(s, "draining") /\ pc[s] = "markRefused" /\ CountDead(s)
        /\ UpdateRow(job[s].id, [uploads[job[s].id] EXCEPT !.status = "dead",
                                   !.attempts = seen[s] + 1, !.wait = 0])
    BY <1>7 DEF MarkRefused, asked
  <2>2. seen[s] + 1 \in Nat /\ job[s].id \in Ids /\ 0 \in Nat
    BY <2>1 DEF TypeOK, JobIds, SettlingRow
  <2>3. RowsShrink /\ uploads' \in [Ids -> Row]
    BY <2>1, <2>2, UpdateRowShrinks
  <2>4. SessionsShrink
    BY <2>1 DEF SessionsShrink, Done, Goto, TypeOK
  <2>5. TypeOK'
    <3>1. report' \in [Sessions -> [succeeded : Nat, failed : Nat, dead : Nat]]
      BY <2>1, CountTypes
    <3> QED
      BY <2>1, <2>3, <3>1, DoneTypes DEF TypeOK, PCs
  <2> QED
    BY <2>1, <2>3, <2>4, <2>5, ShrinkIInv
<1>8. CASE MarkThrew(s)
  <2>1. /\ UNCHANGED <<uploads, nextId, origin, nsyncs, hub>>
        /\ failures' \in Nat /\ Done(s, "idle")
        /\ pc[s] \in {"failed", "refused", "markFailed", "markRefused"}
        /\ work' = [work EXCEPT ![s] = {}]
        /\ report' = [report EXCEPT ![s] = NoReport]
    BY <1>8, ThrowsType DEF MarkThrew, table, asked
  <2>2. RowsShrink /\ SessionsShrink
    BY <2>1 DEF RowsShrink, SessionsShrink, Pending, Done, Goto, TypeOK
  <2>3. TypeOK'
    <3>1. report' \in [Sessions -> [succeeded : Nat, failed : Nat, dead : Nat]]
      BY <2>1, CountTypes
    <3>2. work' \in [Sessions -> SUBSET Job]
      BY <2>1 DEF TypeOK
    <3> QED
      BY <2>1, <3>1, <3>2, DoneTypes DEF TypeOK, PCs
  <2> QED
    BY <2>1, <2>2, <2>3, ShrinkIInv
<1> QED
  BY <1>1, <1>2, <1>3, <1>4, <1>5, <1>6, <1>7, <1>8 DEF Settle

(* The steps of a drain between two uploads.                               *)
LEMMA DrainIInv ==
  ASSUME IInv, NEW s \in Sessions,
         PruneDead(s) \/ ListDue(s) \/ DrainLoop(s)
  PROVE  IInv'
<1> USE DEF IInv
<1>1. CASE PruneDead(s)
  <2>1. /\ UNCHANGED <<nextId, origin, nsyncs, hub, work, job, tries, seen,
                       answer, report, failures>>
        /\ pc' = [pc EXCEPT ![s] = "pruned"] /\ pc[s] = "idle"
        /\ uploads' = [id \in Ids |-> IF uploads[id].status = "dead"
                                      THEN NoRow ELSE uploads[id]]
    BY <1>1 DEF PruneDead, asked, call, Goto
  <2>2. NoRow \in Row /\ NoRow.status = "none" /\ uploads \in [Ids -> Row]
    BY DEF NoRow, Row, Status, TypeOK
  <2>3. RowsShrink /\ uploads' \in [Ids -> Row]
    BY <2>1, <2>2 DEF RowsShrink, Pending
  <2>4. SessionsShrink
    BY <2>1 DEF SessionsShrink, TypeOK
  <2>5. TypeOK'
    BY <2>1, <2>3 DEF TypeOK, PCs
  <2> QED
    BY <2>1, <2>3, <2>4, <2>5, ShrinkIInv
<1>2. CASE ListDue(s)
  <2>1. /\ UNCHANGED <<uploads, nextId, origin, nsyncs, hub, job, tries, seen,
                       answer, failures>>
        /\ pc' = [pc EXCEPT ![s] = "draining"] /\ pc[s] \in {"idle", "pruned"}
        /\ report' = [report EXCEPT ![s] = NoReport]
    BY <1>2 DEF ListDue, table, asked, call, Goto
  <2>2. PICK batch \in SUBSET Due :
          work' = [work EXCEPT ![s] = {Snapshot(id) : id \in batch}]
    BY <1>2 DEF ListDue
  <2>3. \A id \in Due : Snapshot(id) \in Job /\ Sent(Snapshot(id))
    <3> SUFFICES ASSUME NEW id \in Due
                 PROVE  Snapshot(id) \in Job /\ Sent(Snapshot(id))
      OBVIOUS
    <3>1. id \in Ids /\ uploads[id] \in Row /\ Sent(uploads[id])
      BY <2>1 DEF Due, SentRows, TypeOK
    <3> QED
      BY <3>1 DEF Snapshot, Job, Row, Sent, AsAsked
  <2>4. TypeOK'
    <3>1. work' \in [Sessions -> SUBSET Job]
      BY <2>2, <2>3 DEF TypeOK
    <3>2. report' \in [Sessions -> [succeeded : Nat, failed : Nat, dead : Nat]]
      BY <2>1, CountTypes
    <3> QED
      BY <2>1, <3>1, <3>2 DEF TypeOK, PCs
  <2>5. SentRows' /\ SentHub' /\ IdsFresh'
    BY <2>1 DEF SentRows, SentHub, IdsFresh, Pending, Sent, AsAsked, TypeOK
  <2>6. SentJobs'
    <3> SUFFICES ASSUME NEW t \in Sessions
                 PROVE  /\ \A j \in work'[t] : Sent(j)
                        /\ pc'[t] \in {"posting", "enqueue"} => Sent(job[t])
      BY <2>1 DEF SentJobs, Sent, AsAsked
    <3>1. pc'[t] \in {"posting", "enqueue"} => Sent(job[t])
      BY <2>1 DEF TypeOK, SentJobs
    <3>2. work'[t] = work[t] \/ work'[t] = {Snapshot(id) : id \in batch}
      BY <2>2 DEF TypeOK
    <3> QED
      BY <2>3, <3>1, <3>2 DEF SentJobs
  <2> QED
    BY <2>4, <2>5, <2>6
<1>3. CASE TakeRow(s)
  <2>1. /\ UNCHANGED <<uploads, nextId, origin, nsyncs, hub, seen, answer,
                       report, failures>>
        /\ pc' = [pc EXCEPT ![s] = "posting"] /\ pc[s] = "draining"
        /\ tries' = [tries EXCEPT ![s] = 1]
    BY <1>3 DEF TakeRow, table, asked, Goto
  <2>2. PICK j \in work[s] :
          /\ work' = [work EXCEPT ![s] = @ \ {j}]
          /\ job' = [job EXCEPT ![s] = j]
    BY <1>3 DEF TakeRow
  <2>3. j \in Job /\ Sent(j)
    BY <2>2 DEF TypeOK, SentJobs
  <2>4. TypeOK'
    <3>1. work' \in [Sessions -> SUBSET Job] /\ job' \in [Sessions -> Job]
      BY <2>2, <2>3 DEF TypeOK
    <3>2. tries' \in [Sessions -> 1 .. RetryAttempts]
      BY <2>1, ConstantsAssumption DEF TypeOK
    <3> QED
      BY <2>1, <3>1, <3>2 DEF TypeOK, PCs
  <2>5. SentRows' /\ SentHub' /\ IdsFresh'
    BY <2>1 DEF SentRows, SentHub, IdsFresh, Pending, Sent, AsAsked, TypeOK
  <2>6. SentJobs'
    BY <2>1, <2>2, <2>3 DEF SentJobs, Sent, AsAsked, TypeOK
  <2> QED
    BY <2>4, <2>5, <2>6
<1>4. CASE FinishDrain(s)
  <2>1. /\ UNCHANGED <<uploads, nextId, origin, nsyncs, hub, work, job, tries,
                       seen, answer, failures>>
        /\ pc' = [pc EXCEPT ![s] = "idle"] /\ pc[s] = "draining"
        /\ report' = [report EXCEPT ![s] = NoReport]
    BY <1>4 DEF FinishDrain, table, asked, call, Goto
  <2>2. RowsShrink /\ SessionsShrink
    BY <2>1 DEF RowsShrink, SessionsShrink, Pending, TypeOK
  <2>3. TypeOK'
    <3>1. report' \in [Sessions -> [succeeded : Nat, failed : Nat, dead : Nat]]
      BY <2>1, CountTypes
    <3> QED
      BY <2>1, <3>1 DEF TypeOK, PCs
  <2> QED
    BY <2>1, <2>2, <2>3, ShrinkIInv
<1> QED
  BY <1>1, <1>2, <1>3, <1>4 DEF DrainLoop

(* A killed process leaves the file as it was.                             *)
LEMMA CrashIInv ==
  ASSUME IInv, NEW s \in Sessions, Crash(s)
  PROVE  IInv'
<1> USE DEF IInv
<1>1. /\ UNCHANGED <<uploads, nextId, origin, nsyncs, hub>>
      /\ Done(s, "closed") /\ pc[s] # "closed"
      /\ work' = [work EXCEPT ![s] = {}]
      /\ report' = [report EXCEPT ![s] = NoReport] /\ failures' = failures + 1
  BY DEF Crash, table, asked
<1>2. RowsShrink /\ SessionsShrink
  BY <1>1 DEF RowsShrink, SessionsShrink, Pending, Done, Goto, TypeOK
<1>3. TypeOK'
  <2>1. report' \in [Sessions -> [succeeded : Nat, failed : Nat, dead : Nat]]
    BY <1>1, CountTypes
  <2>2. work' \in [Sessions -> SUBSET Job] /\ failures' \in Nat
    BY <1>1 DEF TypeOK
  <2> QED
    BY <1>1, <2>1, <2>2, DoneTypes DEF TypeOK, PCs
<1> QED
  BY <1>1, <1>2, <1>3, ShrinkIInv

(* Time changes how long rows still wait.                                  *)
LEMMA TickIInv ==
  ASSUME IInv, Tick
  PROVE  IInv'
<1> USE DEF IInv
<1>1. /\ UNCHANGED <<nextId, origin, nsyncs, hub, pc, work, job, tries, seen,
                     answer, report, failures>>
      /\ uploads' = [id \in Ids |-> IF uploads[id].wait > 0
                                THEN [uploads[id] EXCEPT !.wait = @ - 1]
                                ELSE uploads[id]]
  BY DEF Tick, asked, call
<1>2. \A id \in Ids :
        /\ uploads'[id] \in Row
        /\ uploads'[id].status = uploads[id].status
        /\ uploads'[id].key = uploads[id].key
        /\ uploads'[id].body = uploads[id].body
        /\ uploads'[id].dest = uploads[id].dest
  <2> SUFFICES ASSUME NEW id \in Ids
               PROVE  /\ uploads'[id] \in Row
                      /\ uploads'[id].status = uploads[id].status
                      /\ uploads'[id].key = uploads[id].key
                      /\ uploads'[id].body = uploads[id].body
                      /\ uploads'[id].dest = uploads[id].dest
    OBVIOUS
  <2>1. uploads[id] \in Row
    BY DEF TypeOK
  <2>2. CASE uploads[id].wait > 0
    <3>1. uploads'[id] = [uploads[id] EXCEPT !.wait = @ - 1]
      BY <1>1, <2>2
    <3>2. uploads[id].wait - 1 \in Nat
      BY <2>1, <2>2 DEF Row
    <3> QED
      BY <2>1, <3>1, <3>2 DEF Row
  <2>3. CASE ~(uploads[id].wait > 0)
    BY <1>1, <2>1, <2>3
  <2> QED
    BY <2>2, <2>3
<1>3. uploads' \in [Ids -> Row] /\ RowsShrink /\ SessionsShrink
  BY <1>1, <1>2 DEF RowsShrink, SessionsShrink, Pending
<1>4. TypeOK'
  BY <1>1, <1>3 DEF TypeOK
<1> QED
  BY <1>1, <1>3, <1>4, ShrinkIInv

(* A session comes to settle a row only from uploading one it listed.      *)
LEMMA JobIdsNext ==
  ASSUME TypeOK, JobIds, [Next]_vars
  PROVE  JobIds'
<1>1. CASE UNCHANGED vars
  BY <1>1 DEF JobIds, vars
<1>2. ASSUME NEW s \in Sessions,
             \/ OpenQueue(s) \/ \E k \in Keys, d \in Dests : BeginUpload(s, k, d)
             \/ PruneDead(s) \/ FinishDrain(s) \/ Crash(s)
      PROVE  JobIds'
  BY <1>2, ZenonT(30) DEF JobIds, TypeOK, SettlingRow, OpenQueue, BeginUpload, PruneDead,
         FinishDrain, Crash, Done, Goto, table, asked, call
<1>3. ASSUME NEW s \in Sessions, Post(s)
      PROVE  JobIds'
  <2>1. UNCHANGED work /\ job[s] \in Job
    BY <1>3 DEF Post, PostAccepted, PostRetriable, PostResponseLost,
           PostRefused, TypeOK
  <2>2. job[s].id \in Ids \cup {0}
    BY <2>1 DEF Job
  <2>3. \/ pc' = pc /\ job' = job
        \/ Done(s, "idle")
        \/ /\ job[s].id # 0 /\ job' = job
           /\ \E l \in SettlingRow : pc' = [pc EXCEPT ![s] = l]
        \/ pc' = [pc EXCEPT ![s] = "enqueue"] /\ job' = job
    BY <1>3 DEF Post, PostAccepted, PostRetriable, PostResponseLost,
           PostRefused, RetryOrGiveUp, Goto, SettlingRow
  <2> QED
    BY <2>1, <2>2, <2>3 DEF JobIds, SettlingRow, TypeOK, Done, Goto
<1>4. ASSUME NEW s \in Sessions, Settle(s)
      PROVE  JobIds'
  <2>1. \/ UNCHANGED work
        \/ work' = [work EXCEPT ![s] = {}]
    BY <1>4 DEF Settle, Enqueue, EnqueueThrew, DeleteDelivered, DeleteThrew,
           ReadAttempts, MarkFailed, MarkRefused, MarkThrew
  <2>2. \/ \E l \in {"idle", "draining"} : Done(s, l)
        \/ /\ pc[s] \in SettlingRow /\ job' = job
           /\ \E l \in SettlingRow : pc' = [pc EXCEPT ![s] = l]
    BY <1>4 DEF Settle, Enqueue, EnqueueThrew, DeleteDelivered, DeleteThrew,
           ReadAttempts, MarkFailed, MarkRefused, MarkThrew, Goto, SettlingRow,
           call
  <2> QED
    BY <2>1, <2>2 DEF JobIds, SettlingRow, TypeOK, Done, Goto
<1>5. ASSUME NEW s \in Sessions, ListDue(s)
      PROVE  JobIds'
  <2>1. PICK batch \in SUBSET Due :
          work' = [work EXCEPT ![s] = {Snapshot(id) : id \in batch}]
    BY <1>5 DEF ListDue
  <2>2. pc' = [pc EXCEPT ![s] = "draining"] /\ job' = job
    BY <1>5 DEF ListDue, Goto, call
  <2>3. \A id \in batch : Snapshot(id).id \in Ids
    BY DEF Due, Snapshot
  <2> QED
    BY <2>1, <2>2, <2>3 DEF JobIds, SettlingRow, TypeOK
<1>6. ASSUME NEW s \in Sessions, TakeRow(s)
      PROVE  JobIds'
  BY <1>6 DEF JobIds, TypeOK, SettlingRow, TakeRow, Goto
<1>7. CASE Tick
  BY <1>7 DEF JobIds, Tick, call
<1> QED
  BY <1>1, <1>2, <1>3, <1>4, <1>5, <1>6, <1>7 DEF Next, DrainLoop

(* The invariant is inductive.                                             *)
LEMMA NextIInv ==
  ASSUME IInv, JobIds, [Next]_vars
  PROVE  IInv'
<1>1. CASE UNCHANGED vars
  BY <1>1 DEF IInv, vars, TypeOK, SentRows, SentJobs, SentHub, IdsFresh,
         Pending, Sent, AsAsked
<1>2. CASE Next
  BY <1>2, OpenQueueIInv, BeginUploadIInv, PostIInv, SettleIInv, DrainIInv,
     CrashIInv, TickIInv DEF Next
<1> QED
  BY <1>1, <1>2

LEMMA Inductive == Spec => [](IInv /\ JobIds)
<1>1. Init => IInv /\ JobIds
  BY InitIInv DEF Init, JobIds, SettlingRow
<1>2. IInv /\ JobIds /\ [Next]_vars => (IInv /\ JobIds)'
  BY NextIInv, JobIdsNext DEF IInv
<1> QED
  BY <1>1, <1>2, PTL DEF Spec

(* Every variable keeps its type.                                          *)
THEOREM TypeCorrect == Spec => []TypeOK
<1>1. IInv => TypeOK
  BY DEF IInv
<1> QED
  BY <1>1, Inductive, PTL

(* However sessions interleave, crash and replace one another's rows, the  *)
(* hub never holds a payload at a destination its sync did not name.       *)
THEOREM TenantBinding == Spec => []NeverRetargeted
<1>1. IInv => NeverRetargeted
  BY DEF IInv, SentHub, NeverRetargeted
<1> QED
  BY <1>1, Inductive, PTL

(* Queued rows name the destination that their payload was built for, also *)
(* after a session has replaced payload and destination.                   *)
THEOREM BoundDestinations == Spec => []RowsBound
<1>1. IInv => RowsBound
  BY DEF IInv, SentRows, Sent, RowsBound
<1> QED
  BY <1>1, Inductive, PTL

(* What a session has listed and what it is about to send or to queue goes *)
(* where its sync asked, whatever the others have made of the row since.   *)
THEOREM BoundUploads == Spec => []JobsBound
<1>1. IInv => JobsBound
  BY DEF IInv, SentJobs, Sent, JobsBound
<1> QED
  BY <1>1, Inductive, PTL

-----------------------------------------------------------------------------

(* Apart from an enqueue, no step makes a row pending, moves it to another *)
(* key, or leaves it pending with its attempts used up.                    *)
RowsKept ==
  \A id \in Ids : Pending(id)' =>
    /\ Pending(id)
    /\ uploads'[id].key = uploads[id].key
    /\ \/ uploads'[id].attempts = uploads[id].attempts
       \/ uploads'[id].attempts < MaxAttempts

LEMMA KeptOrEnqueued ==
  ASSUME IInv, JobIds, [Next]_vars
  PROVE  RowsKept \/ \E s \in Sessions : Enqueue(s)
<1>1. uploads \in [Ids -> Row]
  BY DEF IInv, TypeOK
<1>2. CASE UNCHANGED uploads
  BY <1>2 DEF RowsKept, Pending
<1>3. ASSUME NEW s \in Sessions, OpenQueue(s)
      PROVE  RowsKept
  <2> SUFFICES ASSUME NEW id \in Ids, Pending(id)'
               PROVE  Pending(id) /\ uploads'[id] = uploads[id]
    BY DEF RowsKept
  <2>1. uploads[id] \in Row
    BY <1>1
  <2> QED
    BY <1>3, <2>1 DEF OpenQueue, Pending, Row
<1>4. ASSUME NEW s \in Sessions, DeleteDelivered(s) \/ PruneDead(s)
      PROVE  RowsKept
  <2>1. NoRow.status = "none"
    BY DEF NoRow
  <2> QED
    BY <1>1, <1>4, <2>1 DEF RowsKept, Pending, DeleteDelivered, PruneDead
<1>5. ASSUME NEW s \in Sessions, MarkFailed(s)
      PROVE  RowsKept
  <2> DEFINE i == job[s].id
  <2>1. i \in Ids
    BY <1>5 DEF JobIds, SettlingRow, MarkFailed
  <2>2. uploads[i] \in Row
    BY <1>1, <2>1
  <2>3. CASE UNCHANGED uploads
    BY <2>3 DEF RowsKept, Pending
  <2>4. CASE /\ seen[s] + 1 >= MaxAttempts
             /\ uploads' = [uploads EXCEPT ![i] =
                  [uploads[i] EXCEPT !.status = "dead", !.attempts = seen[s] + 1,
                                     !.wait = 0]]
    BY <1>1, <2>1, <2>2, <2>4 DEF RowsKept, Pending, Row
  <2>5. CASE /\ ~(seen[s] + 1 >= MaxAttempts)
             /\ uploads' = [uploads EXCEPT ![i] =
                  [uploads[i] EXCEPT !.attempts = seen[s] + 1,
                                     !.wait = nextAttemptAt(seen[s] + 1 + 1)]]
    <3>1. seen[s] + 1 < MaxAttempts
      BY <2>5, ConstantsAssumption DEF IInv, TypeOK
    <3> QED
      BY <1>1, <2>1, <2>2, <2>5, <3>1 DEF RowsKept, Pending, Row
  <2> QED
    BY <1>5, <2>3, <2>4, <2>5 DEF MarkFailed, UpdateRow
<1>6. ASSUME NEW s \in Sessions, MarkRefused(s)
      PROVE  RowsKept
  <2> DEFINE i == job[s].id
  <2>1. i \in Ids
    BY <1>6 DEF JobIds, SettlingRow, MarkRefused
  <2>2. uploads[i] \in Row
    BY <1>1, <2>1
  <2>3. CASE UNCHANGED uploads
    BY <2>3 DEF RowsKept, Pending
  <2>4. CASE uploads' = [uploads EXCEPT ![i] =
                  [uploads[i] EXCEPT !.status = "dead", !.attempts = seen[s] + 1,
                                     !.wait = 0]]
    BY <1>1, <2>1, <2>2, <2>4 DEF RowsKept, Pending, Row
  <2> QED
    BY <1>6, <2>3, <2>4 DEF MarkRefused, UpdateRow
<1>7. CASE Tick
  <2> SUFFICES ASSUME NEW id \in Ids
               PROVE  /\ uploads'[id].status = uploads[id].status
                      /\ uploads'[id].key = uploads[id].key
                      /\ uploads'[id].attempts = uploads[id].attempts
    BY DEF RowsKept, Pending
  <2>1. uploads[id] \in Row
    BY <1>1
  <2> QED
    BY <1>7, <2>1 DEF Tick, Row
<1>8. ASSUME NEW s \in Sessions,
             \/ \E k \in Keys, d \in Dests : BeginUpload(s, k, d)
             \/ Post(s) \/ ListDue(s) \/ DrainLoop(s) \/ Crash(s)
             \/ EnqueueThrew(s) \/ DeleteThrew(s) \/ ReadAttempts(s) \/ MarkThrew(s)
      PROVE  UNCHANGED uploads
  BY <1>8 DEF BeginUpload, Post, PostAccepted, PostRetriable, PostResponseLost,
         PostRefused, ListDue, DrainLoop, TakeRow, FinishDrain, Crash,
         EnqueueThrew, DeleteThrew, ReadAttempts, MarkThrew, table
<1>9. UNCHANGED vars => UNCHANGED uploads
  BY DEF vars
<1> QED
  BY <1>2, <1>3, <1>4, <1>5, <1>6, <1>7, <1>8, <1>9 DEF Next, Settle

(* What an enqueue does to the rows.                                       *)
LEMMA EnqueueRows ==
  ASSUME IInv, NEW s \in Sessions, Enqueue(s)
  PROVE  \A id \in Ids : Pending(id)' =>
           \/ /\ Pending(id)
              /\ uploads'[id].key = uploads[id].key
              /\ uploads'[id].attempts = uploads[id].attempts
           \/ /\ uploads[id].status = "none" /\ id = nextId
              /\ uploads'[id].key = job[s].key /\ uploads'[id].attempts = 0
              /\ \A i \in Ids \ {id} : uploads'[i] = uploads[i]
              /\ \A i \in Ids : Pending(i) => uploads[i].key # job[s].key
<1>1. uploads \in [Ids -> Row] /\ nextId \in Nat /\ Ids \subseteq Nat
  BY ConstantsAssumption DEF IInv, TypeOK, Ids
<1>2. CASE /\ SameKeyPending(job[s].key) = {}
           /\ uploads' = [uploads EXCEPT ![nextId] =
                 [status |-> "pending", key |-> job[s].key, body |-> job[s].body,
                  dest |-> job[s].dest, attempts |-> 0,
                  wait |-> nextAttemptAt(1)]]
  <2>1. \A i \in Ids : Pending(i) => uploads[i].key # job[s].key
    BY <1>2 DEF SameKeyPending
  <2>2. nextId \in Ids => uploads[nextId].status = "none"
    BY <1>1 DEF IInv, IdsFresh
  <2>3. ASSUME NEW id \in Ids, id # nextId
        PROVE  uploads'[id] = uploads[id]
    BY <1>1, <1>2, <2>3
  <2>4. nextId \in Ids => uploads'[nextId].key = job[s].key /\ uploads'[nextId].attempts = 0
    BY <1>1, <1>2
  <2> QED
    BY <2>1, <2>2, <2>3, <2>4 DEF Pending
<1>3. CASE uploads' = [id \in Ids |->
                 IF id \in SameKeyPending(job[s].key)
                 THEN [uploads[id] EXCEPT !.body = job[s].body,
                         !.dest = job[s].dest, !.wait = nextAttemptAt(1)]
                 ELSE uploads[id]]
  <2> SUFFICES ASSUME NEW id \in Ids, Pending(id)'
               PROVE  /\ Pending(id)
                      /\ uploads'[id].key = uploads[id].key
                      /\ uploads'[id].attempts = uploads[id].attempts
    OBVIOUS
  <2>1. uploads[id] \in Row
    BY <1>1
  <2> QED
    BY <1>3, <2>1 DEF SameKeyPending, Pending, Row
<1> QED
  BY <1>2, <1>3 DEF Enqueue

(* MAX_ATTEMPTS failures end a row, also when several drains count at once *)
(* from what each of them read before.                                     *)
THEOREM AttemptsBounded == Spec => []PendingHasAttemptsLeft
<1>1. Init => PendingHasAttemptsLeft
  BY ConstantsAssumption DEF Init, PendingHasAttemptsLeft, Pending, NoRow, LegacyRow
<1>2. ASSUME IInv, JobIds, PendingHasAttemptsLeft, [Next]_vars
      PROVE  PendingHasAttemptsLeft'
  <2>1. CASE RowsKept
    BY <1>2, <2>1 DEF RowsKept, PendingHasAttemptsLeft
  <2>2. ASSUME NEW s \in Sessions, Enqueue(s)
        PROVE  PendingHasAttemptsLeft'
    BY <1>2, <2>2, EnqueueRows, ConstantsAssumption DEF PendingHasAttemptsLeft
  <2> QED
    BY <1>2, <2>1, <2>2, KeptOrEnqueued
<1> QED
  BY <1>1, <1>2, Inductive, PTL DEF Spec

(* There is never a second pending row for a repository and commit, so the *)
(* upsert's conflict clause always has at most one row to update.          *)
THEOREM PendingUnique == Spec => []OnePendingPerKey
<1>1. Init => OnePendingPerKey
  BY DEF Init, OnePendingPerKey, Pending, NoRow
<1>2. ASSUME IInv, JobIds, OnePendingPerKey, [Next]_vars
      PROVE  OnePendingPerKey'
  <2>1. CASE RowsKept
    BY <1>2, <2>1 DEF RowsKept, OnePendingPerKey
  <2>2. ASSUME NEW s \in Sessions, Enqueue(s)
        PROVE  OnePendingPerKey'
    BY <1>2, <2>2, EnqueueRows DEF OnePendingPerKey, Pending
  <2> QED
    BY <1>2, <2>1, <2>2, KeptOrEnqueued
<1> QED
  BY <1>1, <1>2, Inductive, PTL DEF Spec

(* A dead or quarantined row never becomes pending again, although the     *)
(* sessions that listed it earlier still write to it.                      *)
THEOREM RetiredForGood == Spec => RetiredRowsStay
<1>1. ASSUME IInv, JobIds, [Next]_vars
      PROVE  [\A id \in Ids : uploads[id].status \in {"dead", "held"} =>
                ~ Pending(id)']_vars
  <2>1. CASE RowsKept
    BY <2>1 DEF RowsKept, Pending
  <2>2. ASSUME NEW s \in Sessions, Enqueue(s)
        PROVE  \A id \in Ids : uploads[id].status \in {"dead", "held"} =>
                 ~ Pending(id)'
    BY <1>1, <2>2, EnqueueRows DEF Pending
  <2> QED
    BY <1>1, <2>1, <2>2, KeptOrEnqueued
<1> QED
  BY <1>1, Inductive, PTL DEF Spec, RetiredRowsStay

-----------------------------------------------------------------------------
(* HubQueue implements Outbox.                                             *)

(* A job taken from the queue names its row: as long as the row is there,  *)
(* it is one of the job's own key.                                         *)
OfItsRow(j) ==
  j.id \in Ids =>
    /\ j.id < nextId
    /\ uploads[j.id].status # "none" => uploads[j.id].key = j.key

JobsOfRows ==
  \A s \in Sessions :
    /\ \A j \in work[s] : OfItsRow(j)
    /\ pc[s] \in {"posting", "delete"} => OfItsRow(job[s])

(* Who is about to delete a row has delivered its key.                     *)
Delivered(j) == Sent(j) /\ hub[j.dest][j.key] # 0

DeletesDelivered == \A s \in Sessions : pc[s] = "delete" => Delivered(job[s])

(* A slot without a row is empty.                                          *)
AbsentRows == \A id \in Ids : uploads[id].status = "none" => uploads[id] = NoRow

(* What the mapping of a step rests on, besides what is proved of HubQueue *)
(* alone.                                                                  *)
RInv == JobsOfRows /\ DeletesDelivered /\ AbsentRows

-----------------------------------------------------------------------------
(* What no step does to the table and to the hub.                          *)

RowsGoOn ==
  /\ nextId' \in Nat /\ nextId' >= nextId
  /\ \A id \in Ids :
       /\ uploads'[id].status = "none" =>
            uploads'[id] = NoRow \/ uploads'[id] = uploads[id]
       /\ id < nextId /\ uploads'[id].status # "none" =>
            /\ uploads[id].status # "none"
            /\ uploads'[id].key = uploads[id].key

HubKeeps ==
  \A d \in Dests, k \in Keys : hub[d][k] # 0 => hub'[d][k] = hub[d][k]

(* Steps that neither insert nor delete.                                   *)
RowsStay ==
  \A id \in Ids :
    /\ uploads'[id].key = uploads[id].key
    /\ \/ uploads'[id] = uploads[id]
       \/ uploads[id].status # "none" /\ uploads'[id].status # "none"

LEMMA RowsStayGoOn ==
  ASSUME TypeOK, RowsStay, UNCHANGED nextId
  PROVE  RowsGoOn
<1>1. nextId' \in Nat /\ nextId' >= nextId
  BY DEF TypeOK
<1>2. ASSUME NEW id \in Ids
      PROVE  /\ uploads'[id].status = "none" => uploads'[id] = uploads[id]
             /\ uploads'[id].status # "none" => uploads[id].status # "none"
             /\ uploads'[id].key = uploads[id].key
  BY DEF RowsStay
<1> QED
  BY <1>1, <1>2 DEF RowsGoOn

(* Rewriting the row an UPDATE names keeps its key.                        *)
LEMMA UpdateRowGoesOn ==
  ASSUME TypeOK, NEW id \in Ids, NEW st \in {uploads[id].status, "dead"},
         NEW n \in Nat, NEW w \in Nat, UNCHANGED nextId,
         UpdateRow(id, [uploads[id] EXCEPT !.status = st, !.attempts = n,
                                           !.wait = w])
  PROVE  RowsGoOn
<1> DEFINE row == [uploads[id] EXCEPT !.status = st, !.attempts = n, !.wait = w]
<1>1. uploads \in [Ids -> Row] /\ nextId \in Nat
  BY DEF TypeOK
<1>2. CASE UNCHANGED uploads
  BY <1>1, <1>2 DEF RowsGoOn
<1>3. CASE uploads[id].status # "none" /\ uploads' = [uploads EXCEPT ![id] = row]
  <2>1. row.key = uploads[id].key /\ row.status # "none"
    BY <1>1, <1>3 DEF Row
  <2>2. \A i \in Ids : uploads'[i] = IF i = id THEN row ELSE uploads[i]
    BY <1>1, <1>3
  <2> HIDE DEF row
  <2> QED
    BY <1>1, <1>3, <2>1, <2>2 DEF RowsGoOn
<1> QED
  BY <1>2, <1>3 DEF UpdateRow

(* What a drain writes to the row it settles.                              *)
LEMMA MarkWrites ==
  ASSUME IInv, JobIds, NEW s \in Sessions, MarkFailed(s) \/ MarkRefused(s)
  PROVE  /\ job[s].id \in Ids /\ UNCHANGED nextId
         /\ \E st \in {uploads[job[s].id].status, "dead"}, n \in Nat, w \in Nat :
              UpdateRow(job[s].id,
                [uploads[job[s].id] EXCEPT !.status = st, !.attempts = n,
                                           !.wait = w])
<1> DEFINE i == job[s].id
           n == seen[s] + 1
<1>1. i \in Ids /\ UNCHANGED nextId
  BY DEF JobIds, SettlingRow, MarkFailed, MarkRefused
<1>2. /\ n \in Nat /\ nextAttemptAt(n + 1) \in Nat
      /\ uploads[i] \in Row
  BY <1>1, NextAttemptType DEF IInv, TypeOK
<1>3. [uploads[i] EXCEPT !.attempts = n, !.wait = nextAttemptAt(n + 1)]
        = [uploads[i] EXCEPT !.status = uploads[i].status,
             !.attempts = n, !.wait = nextAttemptAt(n + 1)]
  BY <1>2 DEF Row
<1>4. \/ UpdateRow(i, [uploads[i] EXCEPT !.status = "dead", !.attempts = n,
                                         !.wait = 0])
      \/ UpdateRow(i, [uploads[i] EXCEPT !.attempts = n,
                                         !.wait = nextAttemptAt(n + 1)])
  BY DEF MarkFailed, MarkRefused
<1>5. 0 \in Nat
  OBVIOUS
<1> HIDE DEF i, n
<1> QED
  BY <1>1, <1>2, <1>3, <1>4, <1>5 DEF i

LEMMA RowsGoOnNext ==
  ASSUME IInv, JobIds, RInv, [Next]_vars
  PROVE  RowsGoOn
<1>1. /\ uploads \in [Ids -> Row] /\ nextId \in Nat /\ Ids \subseteq Nat
      /\ NoRow.status = "none"
  BY ConstantsAssumption DEF IInv, TypeOK, Ids, NoRow
<1>2. CASE UNCHANGED <<uploads, nextId>>
  BY <1>1, <1>2 DEF RowsGoOn
<1>3. ASSUME NEW s \in Sessions, OpenQueue(s)
      PROVE  RowsGoOn
  <2>1. ASSUME NEW id \in Ids
        PROVE  /\ uploads'[id].key = uploads[id].key
               /\ \/ uploads'[id] = uploads[id]
                  \/ uploads[id].status # "none" /\ uploads'[id].status # "none"
    <3>1. uploads[id] \in Row
      BY <1>1
    <3> QED
      BY <1>3, <3>1 DEF OpenQueue, Pending, Row
  <2>2. RowsStay /\ UNCHANGED nextId
    BY <1>3, <2>1 DEF RowsStay, OpenQueue
  <2> QED
    BY <2>2, RowsStayGoOn DEF IInv
<1>4. ASSUME NEW s \in Sessions, DeleteDelivered(s) \/ PruneDead(s)
      PROVE  RowsGoOn
  <2>1. \A id \in Ids : uploads'[id] = NoRow \/ uploads'[id] = uploads[id]
    BY <1>1, <1>4 DEF DeleteDelivered, PruneDead
  <2>2. nextId' = nextId
    BY <1>4 DEF DeleteDelivered, PruneDead
  <2>3. \A id \in Ids : uploads'[id].status # "none" => uploads'[id] = uploads[id]
    BY <1>1, <2>1
  <2>4. nextId' \in Nat /\ nextId' >= nextId
    BY <1>1, <2>2
  <2> HIDE DEF NoRow
  <2> QED
    BY <2>1, <2>3, <2>4 DEF RowsGoOn
<1>5. ASSUME NEW s \in Sessions, MarkFailed(s) \/ MarkRefused(s)
      PROVE  RowsGoOn
  BY <1>5, MarkWrites, UpdateRowGoesOn DEF IInv
<1>6. ASSUME NEW s \in Sessions, Enqueue(s)
      PROVE  RowsGoOn
  <2>1. CASE /\ uploads' = [uploads EXCEPT ![nextId] =
                 [status |-> "pending", key |-> job[s].key, body |-> job[s].body,
                  dest |-> job[s].dest, attempts |-> 0,
                  wait |-> nextAttemptAt(1)]]
             /\ nextId' = nextId + 1
    <3>1. \A id \in Ids : id # nextId => uploads'[id] = uploads[id]
      BY <1>1, <2>1
    <3>2. nextId \in Ids => uploads'[nextId].status = "pending"
      BY <1>1, <2>1
    <3> QED
      BY <1>1, <2>1, <3>1, <3>2 DEF RowsGoOn
  <2>2. CASE /\ uploads' = [id \in Ids |->
                 IF id \in SameKeyPending(job[s].key)
                 THEN [uploads[id] EXCEPT !.body = job[s].body,
                         !.dest = job[s].dest, !.wait = nextAttemptAt(1)]
                 ELSE uploads[id]]
             /\ UNCHANGED nextId
    <3>1. ASSUME NEW id \in Ids
          PROVE  /\ uploads'[id].key = uploads[id].key
                 /\ \/ uploads'[id] = uploads[id]
                    \/ uploads[id].status # "none" /\ uploads'[id].status # "none"
      <4>1. uploads[id] \in Row
        BY <1>1
      <4> QED
        BY <2>2, <4>1 DEF SameKeyPending, Pending, Row
    <3>2. RowsStay
      BY <3>1 DEF RowsStay
    <3> QED
      BY <2>2, <3>2, RowsStayGoOn DEF IInv
  <2> QED
    BY <1>6, <2>1, <2>2 DEF Enqueue
<1>7. CASE Tick
  <2>1. ASSUME NEW id \in Ids
        PROVE  /\ uploads'[id].key = uploads[id].key
               /\ \/ uploads'[id] = uploads[id]
                  \/ uploads[id].status # "none" /\ uploads'[id].status # "none"
    <3>1. uploads[id] \in Row
      BY <1>1
    <3>2. uploads[id].status = "none" => uploads[id].wait = 0
      BY DEF RInv, AbsentRows, NoRow
    <3> QED
      BY <1>7, <3>1, <3>2 DEF Tick, Row
  <2>2. RowsStay /\ UNCHANGED nextId
    BY <1>7, <2>1 DEF RowsStay, Tick
  <2> QED
    BY <2>2, RowsStayGoOn DEF IInv
<1>8. ASSUME NEW s \in Sessions,
             \/ \E k \in Keys, d \in Dests : BeginUpload(s, k, d)
             \/ Post(s) \/ ListDue(s) \/ DrainLoop(s) \/ Crash(s)
             \/ EnqueueThrew(s) \/ DeleteThrew(s) \/ ReadAttempts(s) \/ MarkThrew(s)
      PROVE  UNCHANGED <<uploads, nextId>>
  BY <1>8 DEF BeginUpload, Post, PostAccepted, PostRetriable, PostResponseLost,
         PostRefused, ListDue, DrainLoop, TakeRow, FinishDrain, Crash,
         EnqueueThrew, DeleteThrew, ReadAttempts, MarkThrew, table
<1>9. UNCHANGED vars => UNCHANGED <<uploads, nextId>>
  BY DEF vars
<1> QED
  BY <1>2, <1>3, <1>4, <1>5, <1>6, <1>7, <1>8, <1>9 DEF Next, Settle

(* The hub changes its mind about nothing.                                 *)
LEMMA HubKeepsNext ==
  ASSUME IInv, [Next]_vars
  PROVE  HubKeeps
<1>1. hub \in [Dests -> [Keys -> Syncs \cup {0}]]
  BY DEF IInv, TypeOK
<1>2. CASE UNCHANGED hub
  BY <1>2 DEF HubKeeps
<1>3. ASSUME NEW s \in Sessions, Receive(job[s])
      PROVE  HubKeeps
  <2> DEFINE j == job[s]
  <2>1. CASE hub[j.dest][j.key] = 0 /\ hub' = [hub EXCEPT ![j.dest][j.key] = j.body]
    <3> SUFFICES ASSUME NEW d \in Dests, NEW k \in Keys, hub[d][k] # 0
                 PROVE  hub'[d][k] = hub[d][k]
      BY DEF HubKeeps
    <3>1. d # j.dest \/ k # j.key
      BY <2>1
    <3> HIDE DEF j
    <3> QED
      BY <1>1, <2>1, <3>1
  <2> QED
    BY <1>2, <1>3, <2>1 DEF Receive
<1> QED
  BY <1>2, <1>3, ZenonT(30) DEF Next, vars, OpenQueue, BeginUpload, Post, PostAccepted,
     PostRetriable, PostResponseLost, PostRefused, Settle, Enqueue,
     EnqueueThrew, DeleteDelivered, DeleteThrew, ReadAttempts, MarkFailed,
     MarkRefused, MarkThrew, PruneDead, ListDue, DrainLoop, TakeRow,
     FinishDrain, Crash, Tick

(* What is true of a job stays true while others work.                     *)
LEMMA OfItsRowKept ==
  ASSUME TypeOK, RowsGoOn, NEW j, OfItsRow(j)
  PROVE  OfItsRow(j)'
<1>1. nextId \in Nat /\ nextId' >= nextId /\ nextId' \in Int
  BY DEF TypeOK, RowsGoOn
<1>2. ASSUME j.id \in Ids
      PROVE  /\ j.id < nextId'
             /\ uploads'[j.id].status # "none" => uploads'[j.id].key = j.key
  BY <1>1, <1>2, ConstantsAssumption DEF OfItsRow, RowsGoOn, Ids
<1> QED
  BY <1>2 DEF OfItsRow

(* What was asked for stays asked for.                                     *)
LEMMA SentKept ==
  ASSUME IInv, JobIds, [Next]_vars, NEW j, Sent(j)
  PROVE  Sent(j)'
<1>1. nsyncs' >= nsyncs /\ \A b \in Syncs : b <= nsyncs => origin'[b] = origin[b]
  <2>1. CASE UNCHANGED asked
    BY <2>1 DEF asked, IInv, TypeOK
  <2>2. ASSUME NEW s \in Sessions, NEW k \in Keys, NEW d \in Dests,
               BeginUpload(s, k, d)
        PROVE  nsyncs' >= nsyncs /\ \A b \in Syncs : b <= nsyncs => origin'[b] = origin[b]
    BY <2>2, ConstantsAssumption DEF BeginUpload, IInv, TypeOK, Syncs
  <2> QED
    BY <2>1, <2>2 DEF Next, vars, OpenQueue, Post, PostAccepted,
     PostRetriable, PostResponseLost, PostRefused, Settle, Enqueue,
     EnqueueThrew, DeleteDelivered, DeleteThrew, ReadAttempts, MarkFailed,
     MarkRefused, MarkThrew, PruneDead, ListDue, DrainLoop, TakeRow,
     FinishDrain, Crash, Tick, asked
<1>2. j.body \in Syncs /\ j.body \in Nat /\ j.body <= nsyncs /\ nsyncs \in Nat
  BY ConstantsAssumption DEF Sent, AsAsked, IInv, TypeOK, Syncs
<1>3. j.body <= nsyncs'
  <2>1. nsyncs' \in Nat
    BY NextIInv DEF IInv, TypeOK
  <2> QED
    BY <1>1, <1>2, <2>1
<1> QED
  BY <1>1, <1>2, <1>3 DEF Sent, AsAsked

LEMMA DeliveredKept ==
  ASSUME IInv, JobIds, [Next]_vars, NEW j, Delivered(j)
  PROVE  Delivered(j)'
BY HubKeepsNext, SentKept DEF Delivered, HubKeeps, Sent, AsAsked

(* Where the jobs of the next state come from.                             *)
JobsGoOn ==
  \A t \in Sessions :
    /\ \/ work'[t] \subseteq work[t]
       \/ \E batch \in SUBSET Due : work'[t] = {Snapshot(id) : id \in batch}
    /\ pc'[t] = "posting" => \/ job'[t] = job[t] /\ pc[t] = "posting"
                             \/ job'[t].id = 0
                             \/ job'[t] \in work[t]
    /\ pc'[t] = "delete" => /\ job'[t] = job[t]
                            /\ \/ pc[t] = "delete"
                               \/ /\ pc[t] = "posting"
                                  /\ Receive(job[t])

LEMMA JobsGoOnNext ==
  ASSUME TypeOK, [Next]_vars
  PROVE  JobsGoOn
<1> USE DEF TypeOK
<1>1. CASE UNCHANGED vars
  BY <1>1 DEF JobsGoOn, vars
<1>2. CASE Tick
  BY <1>2 DEF JobsGoOn, Tick, call
<1>3. ASSUME NEW s \in Sessions, Post(s)
      PROVE  JobsGoOn
  <2>1. /\ UNCHANGED work /\ pc[s] = "posting"
        /\ \/ UNCHANGED <<pc, job>>
           \/ Done(s, "idle")
           \/ pc' = [pc EXCEPT ![s] = "delete"] /\ Receive(job[s]) /\ UNCHANGED job
           \/ /\ \E l \in {"enqueue", "failed", "refused"} : pc' = [pc EXCEPT ![s] = l]
              /\ UNCHANGED job
    BY <1>3 DEF Post, PostAccepted, PostRetriable, PostResponseLost,
       PostRefused, RetryOrGiveUp, Goto
  <2> QED
    BY <2>1 DEF JobsGoOn, Done, Goto
<1>4. ASSUME NEW s \in Sessions, ListDue(s)
      PROVE  JobsGoOn
  BY <1>4 DEF JobsGoOn, ListDue, Goto, call
<1>5. ASSUME NEW s \in Sessions, TakeRow(s)
      PROVE  JobsGoOn
  BY <1>5 DEF JobsGoOn, TakeRow, Goto
<1>6. ASSUME NEW s \in Sessions, NEW k \in Keys, NEW d \in Dests,
             BeginUpload(s, k, d)
      PROVE  JobsGoOn
  BY <1>6 DEF JobsGoOn, BeginUpload, Goto
<1>7. ASSUME NEW s \in Sessions,
             Settle(s) \/ OpenQueue(s) \/ PruneDead(s) \/ FinishDrain(s) \/ Crash(s)
      PROVE  JobsGoOn
  <2>1. UNCHANGED work \/ work' = [work EXCEPT ![s] = {}]
    BY <1>7 DEF Settle, Enqueue, EnqueueThrew, DeleteDelivered, DeleteThrew,
       ReadAttempts, MarkFailed, MarkRefused, MarkThrew, OpenQueue, PruneDead,
       FinishDrain, Crash
  <2>2. \E l \in PCs \ {"posting", "delete"} :
          \/ Done(s, l)
          \/ pc' = [pc EXCEPT ![s] = l] /\ UNCHANGED job
    BY <1>7 DEF Settle, Enqueue, EnqueueThrew, DeleteDelivered, DeleteThrew,
       ReadAttempts, MarkFailed, MarkRefused, MarkThrew, OpenQueue, PruneDead,
       FinishDrain, Crash, Goto, PCs, call
  <2> QED
    BY <2>1, <2>2 DEF JobsGoOn, Done, Goto
<1> QED
  BY <1>1, <1>2, <1>3, <1>4, <1>5, <1>6, <1>7 DEF Next, DrainLoop

LEMMA RInvNext ==
  ASSUME IInv, JobIds, RInv, [Next]_vars
  PROVE  RInv'
<1>1. RowsGoOn /\ HubKeeps /\ JobsGoOn
  BY RowsGoOnNext, HubKeepsNext, JobsGoOnNext DEF IInv
<1>2. \A j : OfItsRow(j) => OfItsRow(j)'
  BY <1>1, OfItsRowKept DEF IInv
<1>3. \A id \in Due : OfItsRow(Snapshot(id))
  BY ConstantsAssumption DEF IInv, TypeOK, IdsFresh, Ids, OfItsRow, Snapshot, Due, Pending
<1>4. JobsOfRows'
  <2> SUFFICES ASSUME NEW t \in Sessions
               PROVE  /\ \A j \in work'[t] : OfItsRow(j)'
                      /\ pc'[t] \in {"posting", "delete"} => OfItsRow(job[t])'
    BY DEF JobsOfRows
  <2>1. \A j \in work[t] : OfItsRow(j)'
    BY <1>2 DEF RInv, JobsOfRows
  <2>2. \A j \in work'[t] : OfItsRow(j)'
    BY <1>1, <1>2, <1>3, <2>1 DEF JobsGoOn
  <2>3. pc[t] \in {"posting", "delete"} /\ job'[t] = job[t] => OfItsRow(job[t])'
    BY <1>2 DEF RInv, JobsOfRows, OfItsRow
  <2>4. job'[t].id = 0 => OfItsRow(job[t])'
    BY DEF OfItsRow, Ids
  <2>5. job'[t] \in work[t] => OfItsRow(job[t])'
    BY <2>1 DEF OfItsRow
  <2> QED
    BY <1>1, <2>2, <2>3, <2>4, <2>5 DEF JobsGoOn
<1>5. DeletesDelivered'
  <2> SUFFICES ASSUME NEW t \in Sessions, pc'[t] = "delete"
               PROVE  Delivered(job[t])'
    BY DEF DeletesDelivered
  <2>1. job'[t] = job[t]
    BY <1>1 DEF JobsGoOn
  <2>2. CASE pc[t] = "delete"
    <3>1. \A j : j = job[t] => Delivered(j)'
      BY <2>2, DeliveredKept DEF RInv, DeletesDelivered
    <3> QED
      BY <2>1, <3>1 DEF Delivered, Sent, AsAsked
  <2>3. CASE pc[t] = "posting" /\ Receive(job[t])
    <3>1. Sent(job[t]) /\ hub \in [Dests -> [Keys -> Syncs \cup {0}]]
      BY <2>3 DEF IInv, SentJobs, TypeOK
    <3>4. /\ job[t].dest \in Dests /\ job[t].key \in Keys
          /\ job[t].body # 0
      BY <3>1 DEF Sent, AsAsked, Syncs
    <3>2. hub'[job[t].dest][job[t].key] # 0
      <4> DEFINE x == job[t].dest
                 k == job[t].key
                 b == job[t].body
      <4>1. \/ hub' = hub /\ hub[x][k] # 0
            \/ hub' = [hub EXCEPT ![x][k] = b]
        BY <2>3 DEF Receive
      <4> HIDE DEF x, k, b
      <4>2. x \in Dests /\ k \in Keys /\ b # 0
        BY <3>4 DEF x, k, b
      <4>3. hub'[x][k] # 0
        BY <3>1, <4>1, <4>2
      <4> QED
        BY <4>3 DEF x, k
    <3>3. \A j : j = job[t] => Sent(j)'
      BY <3>1, SentKept
    <3> QED
      BY <2>1, <3>2, <3>3 DEF Delivered, Sent, AsAsked
  <2> QED
    BY <1>1, <2>2, <2>3 DEF JobsGoOn
<1>6. AbsentRows'
  BY <1>1 DEF RowsGoOn, RInv, AbsentRows, NoRow
<1> QED
  BY <1>4, <1>5, <1>6 DEF RInv

LEMMA RefinementInductive == Spec => [](IInv /\ JobIds /\ OnePendingPerKey /\ RInv)
<1>1. Init => RInv
  BY DEF Init, RInv, JobsOfRows, DeletesDelivered, AbsentRows, LegacyRow
<1>2. IInv /\ JobIds /\ RInv /\ [Next]_vars => RInv'
  BY RInvNext
<1> QED
  BY <1>1, <1>2, Inductive, PendingUnique, PTL DEF Spec

-----------------------------------------------------------------------------
(* The mapping.                                                            *)

(* What a session did not have, and no pending row had, is not live.       *)
LEMMA NothingNewLive ==
  ASSUME \A t \in Sessions, b \in Syncs : b \in Carried(t)' => b \in LivePayloads,
         \A id \in Ids, b \in Syncs :
           Pending(id)' /\ uploads'[id].body = b => b \in LivePayloads
  PROVE  Promise!NothingRevives
<1>1. \A b \in LivePayloads' : b \in LivePayloads
  BY DEF LivePayloads
<1> QED
  BY <1>1 DEF Promise!NothingRevives

(* A step after which no session carries more than before.                 *)
CarriesOn ==
  \A t \in Sessions :
    /\ work'[t] \subseteq work[t]
    /\ pc'[t] \in {"posting", "enqueue"} =>
         /\ pc[t] \in {"posting", "enqueue"}
         /\ job'[t] = job[t]

LEMMA CarriesOnLive ==
  ASSUME CarriesOn, RowsShrink
  PROVE  Promise!NothingRevives
<1>1. ASSUME NEW t \in Sessions
      PROVE  Carried(t)' \subseteq Carried(t)
  BY DEF CarriesOn, Carried
<1>2. \A t \in Sessions, b \in Syncs : b \in Carried(t)' => b \in LivePayloads
  BY <1>1 DEF LivePayloads
<1>3. \A id \in Ids, b \in Syncs :
        Pending(id)' /\ uploads'[id].body = b => b \in LivePayloads
  BY DEF RowsShrink, LivePayloads
<1> QED
  BY <1>2, <1>3, NothingNewLive

(* The slots see of a row what it is for, not when it is due.              *)
LEMMA SlotsUnchanged ==
  ASSUME \A id \in Ids : AsSlot(uploads'[id]) = AsSlot(uploads[id])
  PROVE  RowSlots' = RowSlots
BY DEF RowSlots

LEMMA SameSlot ==
  ASSUME NEW row, NEW q, row.key = q.key, row.body = q.body, row.dest = q.dest,
         row.status = q.status
  PROVE  AsSlot(row) = AsSlot(q)
BY DEF AsSlot

LEMMA RetiredSlot ==
  ASSUME NEW old, NEW new, old.status = "pending", new.status \in {"dead", "held"},
         new.key = old.key, new.body = old.body, new.dest = old.dest
  PROVE  AsSlot(new) = [AsSlot(old) EXCEPT !.status = "retired"]
<1>1. SlotStatus(new.status) = "retired"
  BY DEF SlotStatus
<1>2. AsSlot(new) = [status |-> "retired", key |-> old.key,
                     body |-> old.body, dest |-> old.dest]
  BY <1>1 DEF AsSlot
<1> QED
  BY <1>2 DEF AsSlot

LEMMA NoRowEmpty == AsSlot(NoRow) = Promise!Empty
BY DEF AsSlot, SlotStatus, NoRow, Promise!Empty

(* The slots of pending and of retired rows.                               *)
LEMMA SlotsOf ==
  ASSUME TypeOK
  PROVE  /\ Promise!Waiting = {id \in Ids : Pending(id)}
         /\ Promise!Retired = {id \in Ids : uploads[id].status \in {"dead", "held"}}
<1>1. \A id \in Ids : uploads[id].status \in Status
  BY DEF TypeOK, Row
<1>2. \A id \in Ids : RowSlots[id].status = SlotStatus(uploads[id].status)
  BY DEF RowSlots, AsSlot
<1> QED
  BY <1>1, <1>2 DEF Promise!Waiting, Promise!Retired, SlotStatus, Status, Pending

(* Nothing that the outbox knows of changes, but for what was carried.     *)
LEMMA LoseStep ==
  ASSUME UNCHANGED <<RowSlots, nsyncs, origin, hub>>, Promise!NothingRevives
  PROVE  Promise!OutboxNext
BY DEF Promise!OutboxNext, Promise!Lose

LEMMA RetireStep ==
  ASSUME TypeOK, NEW I \in SUBSET Ids, \A id \in I : Pending(id),
         \A id \in I : AsSlot(uploads'[id]) =
                         [AsSlot(uploads[id]) EXCEPT !.status = "retired"],
         \A id \in Ids \ I : AsSlot(uploads'[id]) = AsSlot(uploads[id]),
         UNCHANGED <<nsyncs, origin, hub>>, Promise!NothingRevives
  PROVE  Promise!OutboxNext
<1>1. I \subseteq Promise!Waiting
  BY SlotsOf
<1>2. RowSlots' = [i \in Ids |-> IF i \in I
                                 THEN [RowSlots[i] EXCEPT !.status = "retired"]
                                 ELSE RowSlots[i]]
  BY DEF RowSlots
<1> QED
  BY <1>1, <1>2 DEF Promise!OutboxNext, Promise!Retire

LEMMA DiscardStep ==
  ASSUME TypeOK, NEW I \in SUBSET Ids,
         \A id \in I : uploads[id].status \in {"dead", "held"},
         uploads' = [id \in Ids |-> IF id \in I THEN NoRow ELSE uploads[id]],
         UNCHANGED <<nsyncs, origin, hub>>, Promise!NothingRevives
  PROVE  Promise!OutboxNext
<1>1. I \subseteq Promise!Retired
  BY SlotsOf
<1>2. RowSlots' = [i \in Ids |-> IF i \in I THEN Promise!Empty ELSE RowSlots[i]]
  BY NoRowEmpty DEF RowSlots
<1> QED
  BY <1>1, <1>2 DEF Promise!OutboxNext, Promise!Discard

LEMMA ClearStep ==
  ASSUME TypeOK, NEW i \in Ids, Pending(i),
         \E d \in Dests : hub[d][uploads[i].key] # 0,
         uploads' = [uploads EXCEPT ![i] = NoRow],
         UNCHANGED <<nsyncs, origin, hub>>, Promise!NothingRevives
  PROVE  Promise!OutboxNext
<1>1. i \in Promise!Waiting
  BY SlotsOf
<1>2. RowSlots[i].key = uploads[i].key
  BY DEF RowSlots, AsSlot
<1>3. RowSlots' = [RowSlots EXCEPT ![i] = Promise!Empty]
  <2>1. uploads \in [Ids -> Row]
    BY DEF TypeOK
  <2> QED
    BY <2>1, NoRowEmpty DEF RowSlots
<1>4. Promise!Clear(i)
  BY <1>1, <1>2, <1>3 DEF Promise!Clear
<1> QED
  BY <1>4 DEF Promise!OutboxNext

(* The hub receives what a session carries.                                *)
LEMMA DeliverStep ==
  ASSUME IInv, NEW s \in Sessions, pc[s] = "posting", Receive(job[s]),
         UNCHANGED <<RowSlots, nsyncs, origin>>, Promise!NothingRevives
  PROVE  Promise!OutboxNext
<1> DEFINE b == job[s].body
<1>1. Sent(job[s])
  BY DEF IInv, SentJobs
<1>2. b \in LivePayloads
  BY <1>1 DEF LivePayloads, Carried, Sent, AsAsked
<1>3. Promise!Deliver(b)
  BY <1>1, <1>2 DEF Promise!Deliver, Receive, Sent, AsAsked
<1> QED
  BY <1>2, <1>3 DEF Promise!OutboxNext

LEMMA AskStep ==
  ASSUME IInv, NEW s \in Sessions, NEW k \in Keys, NEW d \in Dests,
         BeginUpload(s, k, d)
  PROVE  Promise!OutboxNext
<1>1. UNCHANGED <<uploads, hub, work>> /\ pc[s] = "idle"
  BY DEF BeginUpload, table
<1>2. RowSlots' = RowSlots
  BY <1>1 DEF RowSlots
<1>3. /\ \A t \in Sessions \ {s} : pc'[t] = pc[t] /\ job'[t] = job[t]
      /\ pc'[s] = "posting" /\ job'[s].body = nsyncs + 1
  BY DEF IInv, TypeOK, BeginUpload, Goto
<1>4. \A t \in Sessions \ {s} : Carried(t)' = Carried(t)
  BY <1>1, <1>3 DEF Carried
<1>5. Carried(s)' = Carried(s) \cup {nsyncs + 1}
  BY <1>1, <1>3 DEF Carried
<1>6. LivePayloads' = LivePayloads \cup {nsyncs + 1}
  <2>1. nsyncs + 1 \in Syncs
    BY ConstantsAssumption DEF BeginUpload, IInv, TypeOK, Syncs
  <2>2. \A b : (\E t \in Sessions : b \in Carried(t)') <=>
                b = nsyncs + 1 \/ \E t \in Sessions : b \in Carried(t)
    BY <1>4, <1>5
  <2> QED
    BY <1>1, <2>1, <2>2 DEF LivePayloads, Pending
<1>7. Promise!Ask(k, d)
  BY <1>1, <1>2, <1>6 DEF Promise!Ask, BeginUpload
<1> QED
  BY <1>7 DEF Promise!OutboxNext

(* Opening the queue retires the rows without a destination.               *)
LEMMA OpenQueueStep ==
  ASSUME IInv, NEW s \in Sessions, OpenQueue(s)
  PROVE  Promise!OutboxNext
<1> DEFINE I == {id \in Ids : Pending(id) /\ uploads[id].dest = NoDest}
<1>1. ASSUME NEW id \in I
      PROVE  /\ uploads[id] \in Row /\ uploads[id].status = "pending"
             /\ uploads'[id] = [uploads[id] EXCEPT !.status = "held"]
  BY DEF OpenQueue, Pending, IInv, TypeOK
<1>2. ASSUME NEW id \in I
      PROVE  AsSlot(uploads'[id]) =
               [AsSlot(uploads[id]) EXCEPT !.status = "retired"]
  <2>1. /\ uploads'[id].status = "held" /\ uploads[id].status = "pending"
        /\ uploads'[id].key = uploads[id].key
        /\ uploads'[id].body = uploads[id].body
        /\ uploads'[id].dest = uploads[id].dest
    BY <1>1 DEF Row
  <2> QED
    BY <2>1, RetiredSlot
<1>3. \A id \in Ids \ I : uploads'[id] = uploads[id]
  BY DEF OpenQueue
<1>4. \A id \in I : ~Pending(id)'
  BY <1>1 DEF Pending, Row
<1>5. RowsShrink
  BY <1>1, <1>3, <1>4 DEF RowsShrink, Pending, Row
<1>6. CarriesOn
  BY DEF CarriesOn, OpenQueue, Goto, call, IInv, TypeOK
<1>7. UNCHANGED <<nsyncs, origin, hub>>
  BY DEF OpenQueue, asked
<1>8. Promise!NothingRevives
  BY <1>5, <1>6, CarriesOnLive
<1>9. \A id \in I : Pending(id)
  OBVIOUS
<1>10. \A id \in Ids \ I : AsSlot(uploads'[id]) = AsSlot(uploads[id])
  BY <1>3
<1>11. I \in SUBSET Ids
  OBVIOUS
<1> HIDE DEF I
<1> QED
  BY <1>2, <1>7, <1>8, <1>9, <1>10, <1>11, RetireStep DEF IInv

(* An HTTP attempt reaches the hub with what the session carries, or not.  *)
LEMMA PostStep ==
  ASSUME IInv, NEW s \in Sessions, Post(s)
  PROVE  Promise!OutboxNext
<1>1. /\ UNCHANGED <<uploads, nsyncs, origin, work>> /\ pc[s] = "posting"
      /\ Receive(job[s]) \/ UNCHANGED hub
      /\ \/ UNCHANGED <<pc, job>>
         \/ Done(s, "idle")
         \/ /\ \E l \in {"delete", "enqueue", "failed", "refused"} :
                  pc' = [pc EXCEPT ![s] = l]
            /\ UNCHANGED job
  BY DEF Post, PostAccepted, PostRetriable, PostResponseLost, PostRefused,
     RetryOrGiveUp, Goto, table, asked
<1>2. CarriesOn
  BY <1>1 DEF CarriesOn, Done, Goto, IInv, TypeOK
<1>3. RowsShrink /\ RowSlots' = RowSlots
  BY <1>1 DEF RowsShrink, RowSlots, Pending
<1>4. Promise!NothingRevives
  BY <1>2, <1>3, CarriesOnLive
<1> QED
  BY <1>1, <1>3, <1>4, DeliverStep, LoseStep

(* An enqueue puts what the session carries in the slot of its commit.     *)
LEMMA EnqueueStep ==
  ASSUME IInv, OnePendingPerKey, NEW s \in Sessions, Enqueue(s)
  PROVE  Promise!OutboxNext
<1> DEFINE j == job[s]
           b == job[s].body
<1>0. /\ uploads \in [Ids -> Row] /\ nextId \in Nat /\ Ids \subseteq Nat
  BY ConstantsAssumption DEF IInv, TypeOK, Ids
<1>00. pc[s] = "enqueue" /\ Sent(j)
  BY DEF Enqueue, IInv, SentJobs
<1>1. /\ pc[s] = "enqueue" /\ Sent(j) /\ Done(s, "idle")
      /\ UNCHANGED <<nsyncs, origin, hub, work>>
      /\ uploads \in [Ids -> Row] /\ nextId \in Nat /\ Ids \subseteq Nat
  BY <1>0, <1>00 DEF Enqueue, asked
<1>2. b \in Syncs /\ b \in LivePayloads
  BY <1>1 DEF LivePayloads, Carried, Sent, AsAsked
<1>3. /\ Promise!Letter(b) = [status |-> "waiting", key |-> j.key, body |-> b,
                              dest |-> j.dest]
      /\ origin[b].key = j.key
  BY <1>1 DEF Promise!Letter, Sent, AsAsked
<1>4. Promise!WaitingFor(origin[b].key) = SameKeyPending(j.key)
  <2>1. \A id \in Ids : RowSlots[id].key = uploads[id].key
    BY DEF RowSlots, AsSlot
  <2>2. Promise!Waiting = {id \in Ids : Pending(id)}
    BY SlotsOf DEF IInv
  <2> QED
    BY <1>3, <2>1, <2>2 DEF Promise!WaitingFor, SameKeyPending
<1>5. CarriesOn
  BY <1>1 DEF CarriesOn, Done, Goto, IInv, TypeOK
<1>6. \A t \in Sessions, c \in Syncs : c \in Carried(t)' => c \in LivePayloads
  BY <1>5 DEF CarriesOn, Carried, LivePayloads
<1>7. CASE /\ SameKeyPending(j.key) = {}
           /\ uploads' = [uploads EXCEPT ![nextId] =
                 [status |-> "pending", key |-> j.key, body |-> j.body,
                  dest |-> j.dest, attempts |-> 0,
                  wait |-> nextAttemptAt(1)]]
  <2> DEFINE row == [status |-> "pending", key |-> j.key, body |-> j.body,
                     dest |-> j.dest, attempts |-> 0, wait |-> nextAttemptAt(1)]
  <2>1. AsSlot(row) = Promise!Letter(b) /\ row.body = b
    BY <1>3 DEF AsSlot, SlotStatus
  <2>2. uploads' = [uploads EXCEPT ![nextId] = row]
    BY <1>7
  <2> HIDE DEF row
  <2>3. \A id \in Ids, c \in Syncs :
          Pending(id)' /\ uploads'[id].body = c => c \in LivePayloads
    BY <1>1, <1>2, <2>1, <2>2 DEF Pending, LivePayloads
  <2>4. Promise!NothingRevives
    BY <1>6, <2>3, NothingNewLive
  <2>5. CASE nextId \notin Ids
    <3>1. uploads' = uploads
      BY <1>1, <2>2, <2>5
    <3>2. RowSlots' = RowSlots
      BY <3>1 DEF RowSlots
    <3> QED
      BY <1>1, <2>4, <3>2, LoseStep
  <2>6. CASE nextId \in Ids
    <3>1. RowSlots[nextId].status = "empty"
      BY <1>1, <2>6 DEF IInv, IdsFresh, RowSlots, AsSlot, SlotStatus
    <3>2. RowSlots' = [RowSlots EXCEPT ![nextId] = Promise!Letter(b)]
      BY <1>1, <2>1, <2>2, <2>6 DEF RowSlots
    <3>3. Promise!Put(b)
      BY <1>1, <1>2, <1>4, <1>7, <2>4, <2>6, <3>1, <3>2 DEF Promise!Put
    <3> QED
      BY <1>2, <3>3 DEF Promise!OutboxNext
  <2> QED
    BY <2>5, <2>6
<1>8. CASE /\ SameKeyPending(j.key) # {}
           /\ uploads' = [id \in Ids |->
                 IF id \in SameKeyPending(j.key)
                 THEN [uploads[id] EXCEPT !.body = j.body, !.dest = j.dest,
                                          !.wait = nextAttemptAt(1)]
                 ELSE uploads[id]]
  <2>1. PICK i \in Ids : SameKeyPending(j.key) = {i}
    BY <1>8 DEF SameKeyPending, OnePendingPerKey
  <2> DEFINE row == [uploads[i] EXCEPT !.body = j.body, !.dest = j.dest,
                                       !.wait = nextAttemptAt(1)]
  <2>2. AsSlot(row) = Promise!Letter(b) /\ row.body = b
    <3>1. uploads[i] \in Row /\ uploads[i].status = "pending" /\ uploads[i].key = j.key
      BY <1>1, <2>1 DEF SameKeyPending, Pending
    <3> QED
      BY <1>3, <3>1 DEF AsSlot, SlotStatus, Row
  <2>3. uploads' = [uploads EXCEPT ![i] = row]
    BY <1>1, <1>8, <2>1
  <2> HIDE DEF row
  <2>4. \A id \in Ids, c \in Syncs :
          Pending(id)' /\ uploads'[id].body = c => c \in LivePayloads
    BY <1>1, <1>2, <2>2, <2>3 DEF Pending, LivePayloads
  <2>5. Promise!NothingRevives
    BY <1>6, <2>4, NothingNewLive
  <2>6. RowSlots' = [RowSlots EXCEPT ![i] = Promise!Letter(b)]
    BY <1>1, <2>2, <2>3 DEF RowSlots
  <2>7. Promise!Put(b)
    BY <1>1, <1>2, <1>4, <2>1, <2>5, <2>6 DEF Promise!Put
  <2> QED
    BY <1>2, <2>7 DEF Promise!OutboxNext
<1> QED
  BY <1>7, <1>8 DEF Enqueue

(* The delete empties the slot of a row that was delivered, or given up by *)
(* another session meanwhile.                                              *)
LEMMA DeleteStep ==
  ASSUME IInv, JobIds, RInv, NEW s \in Sessions, DeleteDelivered(s)
  PROVE  Promise!OutboxNext
<1> DEFINE i == job[s].id
<1>1. /\ i \in Ids /\ uploads \in [Ids -> Row]
      /\ uploads' = [uploads EXCEPT ![i] = NoRow]
      /\ UNCHANGED <<nsyncs, origin, hub, work>>
      /\ pc[s] = "delete" /\ Done(s, "draining")
  BY DEF DeleteDelivered, JobIds, SettlingRow, IInv, TypeOK, asked
<1>2. CarriesOn /\ RowsShrink
  BY <1>1 DEF CarriesOn, RowsShrink, Done, Goto, Pending, NoRow, IInv, TypeOK
<1>3. Promise!NothingRevives
  BY <1>2, CarriesOnLive
<1>4. CASE Pending(i)
  <2>1. uploads[i].key = job[s].key
    BY <1>1, <1>4 DEF RInv, JobsOfRows, OfItsRow, Pending
  <2>2. \E d \in Dests : hub[d][uploads[i].key] # 0
    BY <1>1, <2>1 DEF RInv, DeletesDelivered, Delivered, Sent, AsAsked
  <2> HIDE DEF i
  <2> QED
    BY <1>1, <1>3, <1>4, <2>2, ClearStep DEF IInv
<1>5. CASE uploads[i].status \in {"dead", "held"}
  <2>1. uploads' = [id \in Ids |-> IF id \in {i} THEN NoRow ELSE uploads[id]]
    BY <1>1
  <2>2. {i} \in SUBSET Ids /\ \A id \in {i} : uploads[id].status \in {"dead", "held"}
    BY <1>1, <1>5
  <2> QED
    BY <1>1, <1>3, <2>1, <2>2, DiscardStep DEF IInv
<1>6. CASE uploads[i].status = "none"
  <2>1. uploads' = uploads
    BY <1>1, <1>6 DEF RInv, AbsentRows
  <2>2. RowSlots' = RowSlots
    BY <2>1 DEF RowSlots
  <2> QED
    BY <1>1, <1>3, <2>2, LoseStep
<1> QED
  BY <1>1, <1>4, <1>5, <1>6 DEF Pending, Row, Status

(* Marking a row gives its slot up, or counts what the outbox does not     *)
(* know of.                                                                *)
LEMMA MarkStep ==
  ASSUME IInv, JobIds, NEW s \in Sessions, MarkFailed(s) \/ MarkRefused(s)
  PROVE  Promise!OutboxNext
<1> DEFINE i == job[s].id
<1>1. PICK st \in {uploads[i].status, "dead"}, n \in Nat, w \in Nat :
        UpdateRow(i, [uploads[i] EXCEPT !.status = st, !.attempts = n, !.wait = w])
  BY MarkWrites
<1>2. /\ i \in Ids /\ uploads \in [Ids -> Row]
      /\ UNCHANGED <<nsyncs, origin, hub, work>>
      /\ pc[s] \in {"markFailed", "markRefused"} /\ Done(s, "draining")
  BY MarkWrites DEF MarkFailed, MarkRefused, IInv, TypeOK, asked
<1>3. CarriesOn
  BY <1>2 DEF CarriesOn, Done, Goto, IInv, TypeOK
<1> HIDE DEF i
<1>4. RowsShrink
  BY <1>1, <1>2, UpdateRowShrinks DEF IInv
<1>5. Promise!NothingRevives
  BY <1>3, <1>4, CarriesOnLive
<1> DEFINE row == [uploads[i] EXCEPT !.status = st, !.attempts = n, !.wait = w]
<1>6. /\ row.key = uploads[i].key /\ row.body = uploads[i].body
      /\ row.dest = uploads[i].dest /\ row.status = st
      /\ uploads[i].status \in Status
  BY <1>2 DEF Row
<1>7. \/ UNCHANGED uploads
      \/ uploads[i].status # "none" /\ uploads' = [uploads EXCEPT ![i] = row]
  BY <1>1 DEF UpdateRow
<1> HIDE DEF row
<1>8. CASE Pending(i) /\ st = "dead" /\ uploads' = [uploads EXCEPT ![i] = row]
  <2> DEFINE I == {i}
  <2>1. \A id \in I : AsSlot(uploads'[id]) =
                         [AsSlot(uploads[id]) EXCEPT !.status = "retired"]
    BY <1>2, <1>6, <1>8, RetiredSlot DEF Pending
  <2>2. \A id \in Ids \ I : AsSlot(uploads'[id]) = AsSlot(uploads[id])
    BY <1>2, <1>8
  <2>3. I \in SUBSET Ids /\ \A id \in I : Pending(id)
    BY <1>2, <1>8
  <2>4. TypeOK /\ UNCHANGED <<nsyncs, origin, hub>>
    BY <1>2 DEF IInv
  <2> HIDE DEF I
  <2> QED
    BY <1>5, <2>1, <2>2, <2>3, <2>4, RetireStep
<1>9. CASE UNCHANGED uploads \/ ~(Pending(i) /\ st = "dead")
  <2>1. AsSlot(uploads'[i]) = AsSlot(uploads[i])
    BY <1>2, <1>6, <1>7, <1>9 DEF AsSlot, SlotStatus, Pending, Status
  <2>2. \A id \in Ids : AsSlot(uploads'[id]) = AsSlot(uploads[id])
    BY <1>2, <1>7, <2>1
  <2> QED
    BY <1>2, <1>5, <2>2, SlotsUnchanged, LoseStep
<1> QED
  BY <1>7, <1>8, <1>9

LEMMA PruneDeadStep ==
  ASSUME IInv, NEW s \in Sessions, PruneDead(s)
  PROVE  Promise!OutboxNext
<1> DEFINE I == {id \in Ids : uploads[id].status = "dead"}
<1>1. /\ uploads' = [id \in Ids |-> IF id \in I THEN NoRow ELSE uploads[id]]
      /\ UNCHANGED <<nsyncs, origin, hub>>
  BY DEF PruneDead, asked
<1>2. CarriesOn
  BY DEF CarriesOn, PruneDead, Goto, call, IInv, TypeOK
<1>3. RowsShrink
  BY <1>1 DEF RowsShrink, Pending, NoRow
<1>4. Promise!NothingRevives
  BY <1>2, <1>3, CarriesOnLive
<1>5. I \in SUBSET Ids /\ \A id \in I : uploads[id].status \in {"dead", "held"}
  OBVIOUS
<1> HIDE DEF I
<1> QED
  BY <1>1, <1>4, <1>5, DiscardStep DEF IInv

(* A drain carries what is pending.                                        *)
LEMMA ListDueStep ==
  ASSUME IInv, NEW s \in Sessions, ListDue(s)
  PROVE  Promise!OutboxNext
<1>1. /\ UNCHANGED <<uploads, nsyncs, origin, hub, job>>
      /\ pc' = [pc EXCEPT ![s] = "draining"]
  BY DEF ListDue, table, asked, call, Goto
<1>2. PICK batch \in SUBSET Due :
        work' = [work EXCEPT ![s] = {Snapshot(id) : id \in batch}]
  BY DEF ListDue
<1>3. ASSUME NEW t \in Sessions, NEW b \in Syncs, b \in Carried(t)'
      PROVE  b \in LivePayloads
  <2>1. CASE t = s
    <3>1. b \in {j.body : j \in work'[s]}
      BY <1>1, <1>3, <2>1 DEF Carried, IInv, TypeOK
    <3>2. PICK id \in batch : b = Snapshot(id).body
      BY <1>2, <3>1 DEF IInv, TypeOK
    <3>3. id \in Ids /\ Pending(id) /\ uploads[id].body = b
      BY <3>2 DEF Due, Snapshot
    <3> QED
      BY <3>3 DEF LivePayloads
  <2>2. CASE t # s
    <3>1. b \in Carried(t)
      BY <1>1, <1>2, <1>3, <2>2 DEF Carried, IInv, TypeOK
    <3> QED
      BY <3>1 DEF LivePayloads
  <2> QED
    BY <2>1, <2>2
<1>4. \A id \in Ids, b \in Syncs :
        Pending(id)' /\ uploads'[id].body = b => b \in LivePayloads
  BY <1>1 DEF Pending, LivePayloads
<1>5. RowSlots' = RowSlots
  BY <1>1 DEF RowSlots
<1> QED
  BY <1>1, <1>3, <1>4, <1>5, NothingNewLive, LoseStep

LEMMA TakeRowStep ==
  ASSUME IInv, NEW s \in Sessions, TakeRow(s)
  PROVE  Promise!OutboxNext
<1>1. /\ UNCHANGED <<uploads, nsyncs, origin, hub>>
      /\ pc' = [pc EXCEPT ![s] = "posting"]
  BY DEF TakeRow, table, asked, Goto
<1>2. PICK j \in work[s] : /\ work' = [work EXCEPT ![s] = @ \ {j}]
                           /\ job' = [job EXCEPT ![s] = j]
  BY DEF TakeRow
<1>3. ASSUME NEW t \in Sessions
      PROVE  Carried(t)' \subseteq Carried(t)
  BY <1>1, <1>2 DEF Carried, IInv, TypeOK
<1>4. \A t \in Sessions, b \in Syncs : b \in Carried(t)' => b \in LivePayloads
  BY <1>3 DEF LivePayloads
<1>5. \A id \in Ids, b \in Syncs :
        Pending(id)' /\ uploads'[id].body = b => b \in LivePayloads
  BY <1>1 DEF Pending, LivePayloads
<1>6. RowSlots' = RowSlots
  BY <1>1 DEF RowSlots
<1> QED
  BY <1>1, <1>4, <1>5, <1>6, NothingNewLive, LoseStep

(* The steps that touch neither rows nor hub and carry on at most.         *)
LEMMA GiveUpStep ==
  ASSUME IInv, NEW s \in Sessions,
         \/ EnqueueThrew(s) \/ DeleteThrew(s) \/ ReadAttempts(s) \/ MarkThrew(s)
         \/ FinishDrain(s) \/ Crash(s)
  PROVE  Promise!OutboxNext
<1>1. UNCHANGED <<uploads, nsyncs, origin, hub>>
  BY DEF EnqueueThrew, DeleteThrew, ReadAttempts, MarkThrew, FinishDrain,
     Crash, table, asked
<1>2. UNCHANGED work \/ work' = [work EXCEPT ![s] = {}]
  BY DEF EnqueueThrew, DeleteThrew, ReadAttempts, MarkThrew, FinishDrain, Crash
<1>3. \E l \in PCs \ {"posting", "enqueue"} :
        Done(s, l) \/ (pc' = [pc EXCEPT ![s] = l] /\ UNCHANGED job)
  BY DEF EnqueueThrew, DeleteThrew, ReadAttempts, MarkThrew, FinishDrain, Crash,
     Goto, PCs, call
<1>4. CarriesOn
  BY <1>2, <1>3 DEF CarriesOn, Done, Goto, IInv, TypeOK
<1>5. RowsShrink /\ RowSlots' = RowSlots
  BY <1>1 DEF RowsShrink, RowSlots, Pending
<1> QED
  BY <1>1, <1>4, <1>5, CarriesOnLive, LoseStep

LEMMA TickStep ==
  ASSUME IInv, Tick
  PROVE  Promise!OutboxNext
<1>1. UNCHANGED <<nsyncs, origin, hub, pc, work, job>>
  BY DEF Tick, asked, call
<1>2. ASSUME NEW id \in Ids
      PROVE  /\ uploads'[id].status = uploads[id].status
             /\ uploads'[id].key = uploads[id].key
             /\ uploads'[id].body = uploads[id].body
             /\ uploads'[id].dest = uploads[id].dest
  <2>1. uploads[id] \in Row
    BY DEF IInv, TypeOK
  <2> QED
    BY <2>1 DEF Tick, Row
<1>3. CarriesOn /\ RowsShrink
  BY <1>1, <1>2 DEF CarriesOn, RowsShrink, Pending
<1>4. RowSlots' = RowSlots
  BY <1>2, SameSlot, SlotsUnchanged
<1> QED
  BY <1>1, <1>3, <1>4, CarriesOnLive, LoseStep

LEMMA StutterStep ==
  ASSUME UNCHANGED vars
  PROVE  UNCHANGED Promise!outboxVars
BY DEF vars, Promise!outboxVars, RowSlots, LivePayloads, Carried, Pending

(* An empty queue is an outbox without letters; a row an older release     *)
(* left is one without an address.                                         *)
LEMMA InitMaps == Init => Promise!Init
<1> SUFFICES ASSUME Init PROVE Promise!Init
  OBVIOUS
<1>1. LivePayloads = {}
  BY DEF Init, LivePayloads, Carried, Pending, NoRow, LegacyRow, Syncs
<1>2. \/ RowSlots = [i \in Ids |-> Promise!Empty]
      \/ \E i \in Ids, k \in Keys :
           RowSlots = [j \in Ids |->
             IF j = i THEN [Promise!Empty EXCEPT !.status = "waiting", !.key = k]
             ELSE Promise!Empty]
  <2>1. CASE uploads = [id \in Ids |-> NoRow]
    BY <2>1, NoRowEmpty DEF RowSlots
  <2>2. ASSUME NEW k \in Keys,
               uploads = [id \in Ids |-> IF id = 1 THEN LegacyRow(k) ELSE NoRow]
        PROVE  RowSlots = [j \in Ids |->
                 IF j = 1 THEN [Promise!Empty EXCEPT !.status = "waiting", !.key = k]
                 ELSE Promise!Empty]
    <3> DEFINE Legacy == [Promise!Empty EXCEPT !.status = "waiting", !.key = k]
    <3>1. AsSlot(LegacyRow(k)) = Legacy
      <4> DEFINE Slot == [status : {"empty", "waiting"}, key : {NoKey, k},
                          body : {0}, dest : {NoDest}]
      <4>1. SlotStatus("pending") = "waiting"
        BY DEF SlotStatus
      <4>2. /\ AsSlot(LegacyRow(k)) \in Slot
            /\ AsSlot(LegacyRow(k)).status = "waiting" /\ AsSlot(LegacyRow(k)).key = k
        BY <4>1 DEF AsSlot, LegacyRow
      <4>3. Promise!Empty \in Slot
        BY DEF Promise!Empty
      <4>4. Legacy \in Slot /\ Legacy.status = "waiting" /\ Legacy.key = k
        BY <4>3
      <4>5. \A x, y \in Slot : x.status = y.status /\ x.key = y.key => x = y
        OBVIOUS
      <4> QED
        BY <4>2, <4>4, <4>5
    <3> HIDE DEF Legacy
    <3>2. ASSUME NEW j \in Ids
          PROVE  AsSlot(uploads[j]) = IF j = 1 THEN Legacy ELSE Promise!Empty
      BY <2>2, <3>1, NoRowEmpty
    <3>3. RowSlots = [j \in Ids |-> IF j = 1 THEN Legacy ELSE Promise!Empty]
      BY <3>2 DEF RowSlots
    <3> QED
      BY <3>3 DEF Legacy
  <2>3. 1 \in Ids
    BY ConstantsAssumption DEF Ids
  <2> QED
    BY <2>1, <2>2, <2>3 DEF Init
<1> QED
  BY <1>1, <1>2 DEF Init, Promise!Init, Promise!Payloads, Syncs

(* HubQueue implements Outbox: for any number of sessions, with every HTTP *)
(* exchange, statement and crash in any order, a payload reaches the hub   *)
(* at its own address or nowhere, waits in one slot of its commit, leaves  *)
(* it only delivered or given up, and is never revived.                    *)
THEOREM QueueImplementsOutbox == Spec => ImplementsOutbox
<1>1. Init => Promise!Init
  BY InitMaps
<1>2. ASSUME IInv, JobIds, OnePendingPerKey, RInv, [Next]_vars
      PROVE  [Promise!OutboxNext]_(Promise!outboxVars)
  BY <1>2, OpenQueueStep, AskStep, PostStep, EnqueueStep, DeleteStep, MarkStep,
     PruneDeadStep, ListDueStep, TakeRowStep, GiveUpStep, TickStep, StutterStep
     DEF Next, Settle, DrainLoop
<1> QED
  BY <1>1, <1>2, RefinementInductive, PTL DEF Spec, ImplementsOutbox, Promise!OutboxSpec

-----------------------------------------------------------------------------
(* With one session a row is removed only after delivery.                  *)

OneSession == \A s, t \in Sessions : s = t

(* Nobody has replaced what the session listed.                            *)
AsRow(j) ==
  j.id \in Ids /\ uploads[j.id].status # "none" => uploads[j.id].dest = j.dest

(* What is listed is gone when the session may enqueue.                    *)
NothingListed ==
  \A s \in Sessions :
    \/ pc[s] \in {"idle", "closed", "pruned", "enqueue"}
    \/ pc[s] = "posting" /\ job[s].id = 0
    => work[s] = {}

ListedAsRows ==
  \A s \in Sessions :
    /\ \A j \in work[s] : AsRow(j)
    /\ pc[s] \in {"posting", "delete"} => AsRow(job[s])

AInv == NothingListed /\ ListedAsRows

(* A row stays where it goes to, and a pending row stays.                  *)
DestsStay ==
  \A id \in Ids : uploads[id].status # "none" /\ uploads'[id].status # "none" =>
    uploads'[id].dest = uploads[id].dest

QueuedStays == \A id \in Ids : Pending(id) => uploads'[id].status # "none"

LEMMA RewritingStays ==
  ASSUME TypeOK, NEW i \in Ids, NEW st \in {uploads[i].status, "dead"},
         NEW n \in Nat, NEW w \in Nat,
         UpdateRow(i, [uploads[i] EXCEPT !.status = st, !.attempts = n,
                                         !.wait = w])
  PROVE  DestsStay /\ QueuedStays
<1> DEFINE row == [uploads[i] EXCEPT !.status = st, !.attempts = n, !.wait = w]
<1>1. uploads \in [Ids -> Row]
  BY DEF TypeOK
<1>2. CASE UNCHANGED uploads
  BY <1>2 DEF DestsStay, QueuedStays, Pending
<1>3. CASE uploads[i].status # "none" /\ uploads' = [uploads EXCEPT ![i] = row]
  <2>1. row.dest = uploads[i].dest /\ row.status # "none"
    BY <1>1, <1>3 DEF Row
  <2>2. \A k \in Ids : uploads'[k] = IF k = i THEN row ELSE uploads[k]
    BY <1>1, <1>3
  <2> HIDE DEF row
  <2> QED
    BY <2>1, <2>2 DEF DestsStay, QueuedStays, Pending
<1> QED
  BY <1>2, <1>3 DEF UpdateRow

(* Only an enqueue readdresses a row, only a delete removes a pending one. *)
LEMMA RowsStayQueued ==
  ASSUME IInv, JobIds, [Next]_vars
  PROVE  /\ DestsStay \/ \E s \in Sessions : Enqueue(s)
         /\ QueuedStays \/ \E s \in Sessions : DeleteDelivered(s)
<1>1. uploads \in [Ids -> Row] /\ NoRow.status = "none"
  BY DEF IInv, TypeOK, NoRow
<1>2. CASE UNCHANGED uploads
  BY <1>2 DEF DestsStay, QueuedStays, Pending
<1>3. ASSUME NEW s \in Sessions, OpenQueue(s)
      PROVE  DestsStay /\ QueuedStays
  <2> SUFFICES ASSUME NEW id \in Ids
               PROVE  /\ uploads'[id].dest = uploads[id].dest
                      /\ Pending(id) => uploads'[id].status # "none"
    BY DEF DestsStay, QueuedStays
  <2>1. uploads[id] \in Row
    BY <1>1
  <2> QED
    BY <1>3, <2>1 DEF OpenQueue, Pending, Row
<1>4. ASSUME NEW s \in Sessions, DeleteDelivered(s) \/ PruneDead(s)
      PROVE  DestsStay
  <2>1. \A id \in Ids : uploads'[id] = NoRow \/ uploads'[id] = uploads[id]
    BY <1>1, <1>4 DEF DeleteDelivered, PruneDead
  <2> HIDE DEF NoRow
  <2> QED
    BY <1>1, <2>1 DEF DestsStay
<1>5. ASSUME NEW s \in Sessions, PruneDead(s)
      PROVE  QueuedStays
  BY <1>5 DEF PruneDead, QueuedStays, Pending
<1>6. ASSUME NEW s \in Sessions, MarkFailed(s) \/ MarkRefused(s)
      PROVE  DestsStay /\ QueuedStays
  BY <1>6, MarkWrites, RewritingStays DEF IInv
<1>7. ASSUME NEW s \in Sessions, Enqueue(s)
      PROVE  QueuedStays
  <2>1. CASE uploads' = [uploads EXCEPT ![nextId] =
                 [status |-> "pending", key |-> job[s].key, body |-> job[s].body,
                  dest |-> job[s].dest, attempts |-> 0,
                  wait |-> nextAttemptAt(1)]]
    <3>1. \A id \in Ids : id # nextId => uploads'[id] = uploads[id]
      BY <1>1, <2>1
    <3>2. nextId \in Ids => uploads'[nextId].status = "pending"
      BY <1>1, <2>1
    <3> QED
      BY <3>1, <3>2 DEF QueuedStays, Pending
  <2>2. CASE uploads' = [id \in Ids |->
                 IF id \in SameKeyPending(job[s].key)
                 THEN [uploads[id] EXCEPT !.body = job[s].body,
                         !.dest = job[s].dest, !.wait = nextAttemptAt(1)]
                 ELSE uploads[id]]
    <3> SUFFICES ASSUME NEW id \in Ids
                 PROVE  uploads'[id].status = uploads[id].status
      BY DEF QueuedStays, Pending
    <3>1. uploads[id] \in Row
      BY <1>1
    <3> QED
      BY <2>2, <3>1 DEF Row
  <2> QED
    BY <1>7, <2>1, <2>2 DEF Enqueue
<1>8. CASE Tick
  <2> SUFFICES ASSUME NEW id \in Ids
               PROVE  /\ uploads'[id].dest = uploads[id].dest
                      /\ uploads'[id].status = uploads[id].status
    BY DEF DestsStay, QueuedStays, Pending
  <2>1. uploads[id] \in Row
    BY <1>1
  <2> QED
    BY <1>8, <2>1 DEF Tick, Row
<1>9. ASSUME NEW s \in Sessions,
             \/ \E k \in Keys, d \in Dests : BeginUpload(s, k, d)
             \/ Post(s) \/ ListDue(s) \/ DrainLoop(s) \/ Crash(s)
             \/ EnqueueThrew(s) \/ DeleteThrew(s) \/ ReadAttempts(s) \/ MarkThrew(s)
      PROVE  UNCHANGED uploads
  BY <1>9 DEF BeginUpload, Post, PostAccepted, PostRetriable, PostResponseLost,
         PostRefused, ListDue, DrainLoop, TakeRow, FinishDrain, Crash,
         EnqueueThrew, DeleteThrew, ReadAttempts, MarkThrew, table
<1>10. UNCHANGED vars => UNCHANGED uploads
  BY DEF vars
<1> QED
  BY <1>2, <1>3, <1>4, <1>5, <1>6, <1>7, <1>8, <1>9, <1>10 DEF Next, Settle

(* A session comes to where it may enqueue with nothing listed.            *)
LEMMA NothingListedNext ==
  ASSUME TypeOK, JobIds, NothingListed, [Next]_vars
  PROVE  NothingListed'
<1> USE DEF TypeOK, NothingListed
<1>1. CASE UNCHANGED <<pc, work, job>>
  BY <1>1
<1>2. ASSUME NEW s \in Sessions, OpenQueue(s) \/ PruneDead(s)
      PROVE  NothingListed'
  BY <1>2 DEF OpenQueue, PruneDead, Goto, call
<1>3. ASSUME NEW s \in Sessions, NEW k \in Keys, NEW d \in Dests,
             BeginUpload(s, k, d)
      PROVE  NothingListed'
  BY <1>3 DEF BeginUpload, Goto
<1>4. ASSUME NEW s \in Sessions, Post(s)
      PROVE  NothingListed'
  <2>1. /\ UNCHANGED work /\ pc[s] = "posting"
        /\ \/ UNCHANGED <<pc, job>>
           \/ job[s].id = 0 /\ \E l \in {"idle", "enqueue"} : pc' = [pc EXCEPT ![s] = l]
           \/ \E l \in {"delete", "failed", "refused"} : pc' = [pc EXCEPT ![s] = l]
        /\ UNCHANGED job \/ job' = [job EXCEPT ![s] = NoJob]
    BY <1>4 DEF Post, PostAccepted, PostRetriable, PostResponseLost,
       PostRefused, RetryOrGiveUp, Goto, Done
  <2> QED
    BY <2>1
<1>5. ASSUME NEW s \in Sessions, ListDue(s) \/ DeleteThrew(s)
      PROVE  NothingListed'
  BY <1>5 DEF ListDue, DeleteThrew, Goto, call
<1>6. ASSUME NEW s \in Sessions, TakeRow(s)
      PROVE  NothingListed'
  <2>1. 0 \notin Ids
    BY DEF Ids
  <2> QED
    BY <1>6, <2>1 DEF TakeRow, Goto, JobIds
<1>7. ASSUME NEW s \in Sessions, FinishDrain(s)
      PROVE  NothingListed'
  BY <1>7 DEF FinishDrain, Goto, call
<1>8. ASSUME NEW s \in Sessions, Enqueue(s) \/ EnqueueThrew(s)
      PROVE  NothingListed'
  BY <1>8 DEF Enqueue, EnqueueThrew, Done, Goto
<1>9. ASSUME NEW s \in Sessions, MarkThrew(s) \/ Crash(s)
      PROVE  NothingListed'
  BY <1>9 DEF MarkThrew, Crash, Done, Goto
<1>10. ASSUME NEW s \in Sessions,
              \/ DeleteDelivered(s) \/ MarkFailed(s) \/ MarkRefused(s)
              \/ ReadAttempts(s)
       PROVE  NothingListed'
  <2>1. /\ UNCHANGED work
        /\ \E l \in {"draining", "markFailed", "markRefused"} :
             pc' = [pc EXCEPT ![s] = l]
        /\ \A t \in Sessions \ {s} : job'[t] = job[t]
    BY <1>10 DEF DeleteDelivered, MarkFailed, MarkRefused, ReadAttempts, Done, Goto
  <2> QED
    BY <2>1
<1>11. UNCHANGED vars \/ Tick => UNCHANGED <<pc, work, job>>
  BY DEF vars, Tick, call
<1> QED
  BY <1>1, <1>2, <1>3, <1>4, <1>5, <1>6, <1>7, <1>8, <1>9, <1>10, <1>11
     DEF Next, Settle, DrainLoop

(* What is listed is of the row as long as nobody else enqueues.           *)
LEMMA AsRowKept ==
  ASSUME TypeOK, RowsGoOn, DestsStay, NEW j, OfItsRow(j), AsRow(j)
  PROVE  AsRow(j)'
<1> SUFFICES ASSUME j.id \in Ids, uploads'[j.id].status # "none"
             PROVE  uploads'[j.id].dest = j.dest
  BY DEF AsRow
<1>1. uploads[j.id].status # "none"
  BY DEF OfItsRow, RowsGoOn
<1> QED
  BY <1>1 DEF AsRow, DestsStay

LEMMA ListedAsRowsNext ==
  ASSUME IInv, JobIds, RInv, AInv, OneSession, [Next]_vars
  PROVE  ListedAsRows'
<1> SUFFICES ASSUME NEW t \in Sessions
             PROVE  /\ \A j \in work'[t] : AsRow(j)'
                    /\ pc'[t] \in {"posting", "delete"} => AsRow(job[t])'
  BY DEF ListedAsRows
<1>1. RowsGoOn /\ JobsGoOn
  BY RowsGoOnNext, JobsGoOnNext DEF IInv
<1>2. ASSUME NEW s \in Sessions, Enqueue(s)
      PROVE  /\ work'[t] = {}
             /\ pc'[t] \notin {"posting", "delete"}
  <2>1. s = t
    BY DEF OneSession
  <2>2. work[t] = {}
    BY <1>2, <2>1 DEF AInv, NothingListed, Enqueue
  <2> QED
    BY <1>2, <2>1, <2>2 DEF Enqueue, Done, Goto, IInv, TypeOK
<1>3. CASE DestsStay
  <2>1. \A j : OfItsRow(j) /\ AsRow(j) => AsRow(j)'
    BY <1>1, <1>3, AsRowKept DEF IInv
  <2>2. \A j \in work[t] : AsRow(j)'
    BY <2>1 DEF RInv, JobsOfRows, AInv, ListedAsRows
  <2>3. \A id \in Due : OfItsRow(Snapshot(id)) /\ AsRow(Snapshot(id))
    BY ConstantsAssumption DEF IInv, TypeOK, IdsFresh, Ids, OfItsRow, AsRow,
       Snapshot, Due, Pending
  <2>4. \A j \in work'[t] : AsRow(j)'
    BY <1>1, <2>1, <2>2, <2>3 DEF JobsGoOn
  <2>5. pc[t] \in {"posting", "delete"} /\ job'[t] = job[t] => AsRow(job[t])'
    <3>1. pc[t] \in {"posting", "delete"} => OfItsRow(job[t]) /\ AsRow(job[t])
      BY DEF RInv, JobsOfRows, AInv, ListedAsRows
    <3>2. \A j : j = job[t] /\ OfItsRow(j) /\ AsRow(j) => AsRow(j)'
      BY <2>1
    <3> QED
      BY <3>1, <3>2 DEF AsRow
  <2>6. job'[t].id = 0 => AsRow(job[t])'
    BY DEF AsRow, Ids
  <2>7. job'[t] \in work[t] => AsRow(job[t])'
    BY <2>2 DEF AsRow
  <2> QED
    BY <1>1, <2>4, <2>5, <2>6, <2>7 DEF JobsGoOn
<1> QED
  BY <1>2, <1>3, RowsStayQueued

(* A row that is deleted has the repository and commit, and goes where     *)
(* the session has delivered it.                                           *)
LEMMA DeletedIsDelivered ==
  ASSUME IInv, JobIds, RInv, AInv, NEW s \in Sessions, DeleteDelivered(s),
         NEW id \in Ids, Pending(id), uploads'[id].status = "none"
  PROVE  hub[uploads[id].dest][uploads[id].key] # 0
<1>1. id = job[s].id
  BY DEF DeleteDelivered, IInv, TypeOK, Pending
<1>2. pc[s] = "delete" /\ uploads[id].status # "none"
  BY DEF DeleteDelivered, Pending
<1>3. OfItsRow(job[s]) /\ AsRow(job[s]) /\ Delivered(job[s])
  BY <1>2 DEF RInv, JobsOfRows, DeletesDelivered, AInv, ListedAsRows
<1>4. uploads[id].key = job[s].key /\ uploads[id].dest = job[s].dest
  BY <1>1, <1>2, <1>3 DEF OfItsRow, AsRow
<1> QED
  BY <1>3, <1>4 DEF Delivered

(* A session that is alone removes a pending row only after the hub took   *)
(* its commit at the row's own destination.                                *)
THEOREM DeliveredFirst == OneSession => (Spec => RemovedOnlyIfDelivered)
<1> SUFFICES ASSUME OneSession PROVE Spec => RemovedOnlyIfDelivered
  OBVIOUS
<1> DEFINE First ==
      \A id \in Ids : Pending(id) /\ uploads'[id].status = "none" =>
        hub[uploads[id].dest][uploads[id].key] # 0
<1>1. Init => AInv
  BY DEF Init, AInv, NothingListed, ListedAsRows
<1>2. IInv /\ JobIds /\ RInv /\ AInv /\ [Next]_vars => AInv'
  BY NothingListedNext, ListedAsRowsNext DEF AInv, IInv
<1>3. ASSUME IInv, JobIds, RInv, AInv, [Next]_vars
      PROVE  [First]_vars
  <2>1. CASE QueuedStays
    BY <2>1 DEF QueuedStays
  <2>2. ASSUME NEW s \in Sessions, DeleteDelivered(s)
        PROVE  First
    BY <1>3, <2>2, DeletedIsDelivered
  <2> QED
    BY <1>3, <2>1, <2>2, RowsStayQueued
<1> QED
  BY <1>1, <1>2, <1>3, RefinementInductive, PTL DEF Spec, RemovedOnlyIfDelivered

=============================================================================
