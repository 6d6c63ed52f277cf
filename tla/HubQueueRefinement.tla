------------------------- MODULE HubQueueRefinement -------------------------
(***************************************************************************)
(* HubQueue implements Outbox: the rows of the uploads table are the       *)
(* slots, dead and quarantined ones alike are retired, and a payload is    *)
(* live while a pending row holds it or a session could still send or      *)
(* queue it.                                                               *)
(***************************************************************************)
EXTENDS HubQueueProps

SlotStatus(status) ==
  CASE status = "none"    -> "empty"
    [] status = "pending" -> "waiting"
    [] OTHER              -> "retired"

AsSlot(row) == [status |-> SlotStatus(row.status), key |-> row.key,
                body |-> row.body, dest |-> row.dest]

RowSlots == [id \in Ids |-> AsSlot(uploads[id])]

(* What the session has listed and not yet taken up, and what it is about  *)
(* to send or to queue.                                                    *)
Carried(s) ==
  {j.body : j \in work[s]} \cup
  (IF pc[s] \in {"posting", "enqueue"} THEN {job[s].body} ELSE {})

LivePayloads ==
  {b \in Syncs :
     \/ \E s \in Sessions : b \in Carried(s)
     \/ \E id \in Ids : Pending(id) /\ uploads[id].body = b}

Promise == INSTANCE Outbox WITH
  Slots     <- Ids,
  Addresses <- Dests,
  NoAddress <- NoDest,
  MaxAsked  <- MaxSyncs,
  slots     <- RowSlots,
  asked     <- nsyncs,
  address   <- origin,
  live      <- LivePayloads

(* Every behaviour of the sessions, whatever they do to each other's rows  *)
(* between two statements, is one that the outbox promises.                *)
ImplementsOutbox == Promise!OutboxSpec

=============================================================================
