------------------------------- MODULE Outbox -------------------------------
(***************************************************************************)
(* What the hub queue promises to those who sync, without its sessions,    *)
(* statements, HTTP attempts, counters and clocks: a payload is addressed  *)
(* once, when it is asked for; it waits in a slot of its own commit or is  *)
(* carried by whoever is sending it; it reaches the hub at its own address *)
(* or nowhere; and what is given up never comes back.                      *)
(*                                                                         *)
(* HubQueueRefinement shows that HubQueue implements this specification.   *)
(***************************************************************************)
EXTENDS Naturals

CONSTANTS
  Slots,        \* places for a queued payload
  Keys,         \* commits, of which the hub takes one payload each
  Addresses,    \* where a payload can be bound for
  NoAddress,    \* the address of a payload queued before there were any
  NoKey,        \* the key of an empty slot
  MaxAsked      \* bound on the payloads asked for

VARIABLES
  slots,     \* what each slot holds
  asked,     \* how many payloads have been asked for
  address,   \* the commit and the address each was asked for
  hub,       \* the payload the hub holds per address and commit, 0 if none
  live       \* the payloads that may still reach the hub

outboxVars == <<slots, asked, address, hub, live>>

-----------------------------------------------------------------------------

Payloads == 1 .. MaxAsked

Empty == [status |-> "empty", key |-> NoKey, body |-> 0, dest |-> NoAddress]

Letter(b) == [status |-> "waiting", key |-> address[b].key, body |-> b,
              dest |-> address[b].dest]

Waiting == {i \in Slots : slots[i].status = "waiting"}
Retired == {i \in Slots : slots[i].status = "retired"}

WaitingFor(k) == {i \in Waiting : slots[i].key = k}

(* Whatever happens, a payload that is no longer carried stays lost.       *)
NothingRevives == live' \subseteq live

(* At most one slot holds a payload that names no address.                 *)
Init ==
  /\ \/ slots = [i \in Slots |-> Empty]
     \/ \E i \in Slots, k \in Keys :
          slots = [j \in Slots |->
                     IF j = i THEN [Empty EXCEPT !.status = "waiting",
                                                 !.key = k]
                     ELSE Empty]
  /\ asked = 0
  /\ address = [b \in Payloads |-> [key |-> NoKey, dest |-> NoAddress]]
  /\ hub = [d \in Addresses |-> [k \in Keys |-> 0]]
  /\ live = {}

(* A payload is built for a commit and an address, for good.               *)
Ask(k, d) ==
  /\ asked < MaxAsked
  /\ asked' = asked + 1
  /\ address' = [address EXCEPT ![asked + 1] = [key |-> k, dest |-> d]]
  /\ live' = live \cup {asked + 1}
  /\ UNCHANGED <<slots, hub>>

(* The hub takes a live payload at its own address, unless it already has  *)
(* one of that commit there.                                               *)
Deliver(b) ==
  /\ b \in live
  /\ LET d == address[b].dest
         k == address[b].key
     IN  hub' = IF hub[d][k] = 0 THEN [hub EXCEPT ![d][k] = b] ELSE hub
  /\ NothingRevives
  /\ UNCHANGED <<slots, asked, address>>

(* A live payload takes the slot in which its commit is waiting, address   *)
(* and all, or else an empty one.                                          *)
Put(b) ==
  /\ b \in live
  /\ \E i \in Slots :
       /\ \/ WaitingFor(address[b].key) = {i}
          \/ WaitingFor(address[b].key) = {} /\ slots[i].status = "empty"
       /\ slots' = [slots EXCEPT ![i] = Letter(b)]
  /\ NothingRevives
  /\ UNCHANGED <<asked, address, hub>>

(* A waiting slot is cleared only once the hub has its commit, at some     *)
(* address: not necessarily the slot's own, since the letter in it may     *)
(* have been replaced on the way.                                          *)
Clear(i) ==
  /\ i \in Waiting
  /\ \E d \in Addresses : hub[d][slots[i].key] # 0
  /\ slots' = [slots EXCEPT ![i] = Empty]
  /\ NothingRevives
  /\ UNCHANGED <<asked, address, hub>>

(* Waiting slots are given up; what they hold is kept to be looked at.     *)
Retire(I) ==
  /\ I \subseteq Waiting
  /\ slots' = [i \in Slots |-> IF i \in I
                               THEN [slots[i] EXCEPT !.status = "retired"]
                               ELSE slots[i]]
  /\ NothingRevives
  /\ UNCHANGED <<asked, address, hub>>

(* Slots that were given up are emptied.                                   *)
Discard(I) ==
  /\ I \subseteq Retired
  /\ slots' = [i \in Slots |-> IF i \in I THEN Empty ELSE slots[i]]
  /\ NothingRevives
  /\ UNCHANGED <<asked, address, hub>>

(* Those who carried a payload give it up, or are killed.                  *)
Lose ==
  /\ NothingRevives
  /\ UNCHANGED <<slots, asked, address, hub>>

OutboxNext ==
  \/ \E k \in Keys, d \in Addresses : Ask(k, d)
  \/ \E b \in live : Deliver(b) \/ Put(b)
  \/ \E i \in Slots : Clear(i)
  \/ \E I \in SUBSET Slots : Retire(I) \/ Discard(I)
  \/ Lose

OutboxSpec == Init /\ [][OutboxNext]_outboxVars

=============================================================================
