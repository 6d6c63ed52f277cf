---------------------------- MODULE ScanRunProps ----------------------------
(***************************************************************************)
(* What runs of scanRepos must keep true, whatever commits, processes and  *)
(* agents do.                                                              *)
(***************************************************************************)
EXTENDS ScanRun

Task ==
  [phase : {"todo", "agent", "read", "found", "clean", "done"},
   mode : {"full", "incremental"}, modified : SUBSET Files,
   skipped : SUBSET Files, gone : SUBSET Files, read : Tree, head : 0 .. MaxCommits + 1,
   tries : {1, 2}]

(* The variables have their types.                                         *)
TypeOK ==
  /\ commits \in [Repos -> Seq(Tree)]
  /\ ncommits \in 0 .. MaxCommits
  /\ examined \in [Repos -> Tree]
  /\ \A r \in Repos : state[r] \in 0 .. Latest(r)
  /\ lock \in Procs \cup {NoFile, Torn, Stale}
  /\ opened \in SUBSET Procs
  /\ pc \in [Procs -> {"idle", "exists", "read", "unlink", "open", "write",
                       "scanning"}]
  /\ full \in [Procs -> BOOLEAN]
  /\ task \in [Procs -> [Repos -> Task]]
  /\ left \in [Repos -> SUBSET Files]
  /\ crashes \in Nat

Current(r, f) == examined[r][f] = TreeAt(r, Latest(r))[f]

(* Where HEAD differs from last_scanned_commit, which the next diff shows  *)
(* as changed, deleted or renamed, and what a scan under way is about to   *)
(* remove.                                                                 *)
Due(r) ==
  {f \in Files : TreeAt(r, state[r])[f] # TreeAt(r, Latest(r))[f]}
    \cup UNION {task[p][r].gone : p \in {q \in Procs : task[q][r].phase = "clean"}}

(* No change is lost without a trace: where HEAD differs from what was     *)
(* examined, the next diff from last_scanned_commit shows it, whatever     *)
(* runs failed, overlapped or were killed.  The exceptions, until the file *)
(* changes again or a full scan: the new name of a renamed file, which no  *)
(* scan of that diff gives to the agent, and a file whose clean-up did not *)
(* finish.                                                                 *)
ChangesNotLost ==
  \A r \in Repos : state[r] # Never =>
    \A f \in Files : Current(r, f) \/ f \in Due(r) \cup left[r]

(* The map and the history it was made from, at any time.                  *)
RunOK == TypeOK /\ ChangesNotLost

(* A run is refused only while another one scans: neither one that ended   *)
(* or failed nor one that was killed keeps the project locked.             *)
RefusedOnlyByScan ==
  [][\A p \in Procs : Refused(p) => \E q \in Procs \ {p} : pc[q] = "scanning"]_vars

(* A project does not stay locked: a user who keeps trying gets to scan,   *)
(* also after a crash; and a run ends, also when agents throw and other    *)
(* runs race it for the lock.                                              *)
LockRecovers ==
  /\ []<>(\E p \in Procs : pc[p] = "scanning")
  /\ \A p \in Procs : pc[p] # "idle" ~> pc[p] = "idle"

=============================================================================
