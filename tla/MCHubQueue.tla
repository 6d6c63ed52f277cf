----------------------------- MODULE MCHubQueue -----------------------------
(***************************************************************************)
(* Values for the constants of HubQueue that a configuration file cannot   *)
(* write down.                                                             *)
(***************************************************************************)
EXTENDS HubQueueRefinement, TLC

CONSTANTS s1, s2, k1, k2, o1, o2

MCSchedule == <<1, 2, 2>>

MCShortSchedule == <<1>>

SessionSymmetry == Permutations(Sessions)

=============================================================================
