---------------------------- MODULE HubQueueProps ----------------------------
(***************************************************************************)
(* What the offline queue must keep true, whatever the sessions, the       *)
(* network and the hub do.                                                 *)
(***************************************************************************)
EXTENDS HubQueue

(* The variables have their types.                                         *)
TypeOK ==
  /\ uploads \in [Ids -> Row]
  /\ nextId \in Nat \ {0}
  /\ origin \in [Syncs -> Origin]
  /\ nsyncs \in 0 .. MaxSyncs
  /\ hub \in [Dests -> [Keys -> Syncs \cup {0}]]
  /\ pc \in [Sessions -> PCs]
  /\ work \in [Sessions -> SUBSET Job]
  /\ job \in [Sessions -> Job]
  /\ tries \in [Sessions -> 1 .. RetryAttempts]
  /\ seen \in [Sessions -> Nat]
  /\ answer \in [Sessions -> {"none", "accepted", "retriable", "refused"}]
  /\ report \in [Sessions -> [succeeded : Nat, failed : Nat, dead : Nat]]
  /\ failures \in Nat

(* A payload with its key and destination as its sync asked for them.      *)
AsAsked(r) ==
  /\ r.body \in Syncs
  /\ r.key = origin[r.body].key
  /\ r.dest = origin[r.body].dest
  /\ r.key \in Keys
  /\ r.dest \in Dests

(* A pending row names the destination its payload was built for: the      *)
(* upsert changes payload and destination together or not at all.  Only a  *)
(* row from before destinations were stored has none, until some session   *)
(* opens the queue.                                                        *)
RowsBound ==
  \A id \in Ids : Pending(id) =>
    \/ AsAsked(uploads[id])
    \/ /\ uploads[id].dest = NoDest
       /\ \A s \in Sessions : pc[s] = "closed"

(* Whatever a session is about to send goes where its sync asked, also     *)
(* when the row has been replaced since the drain listed it.               *)
JobsBound ==
  \A s \in Sessions :
    /\ \A j \in work[s] : AsAsked(j)
    /\ pc[s] \in {"posting", "enqueue"} => AsAsked(job[s])

(* No payload ever reaches an organisation its sync did not name: the hub  *)
(* holds nothing but what was addressed to it.                             *)
NeverRetargeted ==
  \A d \in Dests, k \in Keys :
    hub[d][k] # 0 => origin[hub[d][k]] = [key |-> k, dest |-> d]

(* One pending row per repository and commit, which the partial unique     *)
(* index demands: otherwise an upsert would throw.                         *)
OnePendingPerKey ==
  \A i, j \in Ids :
    Pending(i) /\ Pending(j) /\ uploads[i].key = uploads[j].key => i = j

(* A pending row has drains left, even when several sessions count         *)
(* failures of the same row at once: MAX_ATTEMPTS failures end it.         *)
PendingHasAttemptsLeft ==
  \A id \in Ids : Pending(id) => uploads[id].attempts < MaxAttempts

(* A dead or quarantined row never comes back: a session that listed it    *)
(* before still updates it, and must not make it pending again.            *)
RetiredRowsStay ==
  [][\A id \in Ids : uploads[id].status \in {"dead", "held"} =>
       ~ Pending(id)']_vars

(* A pending row disappears only after the hub took a payload of its       *)
(* repository and commit at the row's own destination.                     *)
RemovedOnlyIfDelivered ==
  [][\A id \in Ids : Pending(id) /\ uploads'[id].status = "none" =>
       hub[uploads[id].dest][uploads[id].key] # 0]_vars

Resting(s) == pc[s] \in {"idle", "closed"}

(* A started upload or drain ends, whatever the hub answers.               *)
OperationsEnd == \A s \in Sessions : ~Resting(s) ~> Resting(s)

(* A queued payload does not linger: while the user keeps syncing, every   *)
(* pending row is delivered or given up.                                   *)
PendingResolved == \A id \in Ids : Pending(id) ~> ~ Pending(id)

=============================================================================
