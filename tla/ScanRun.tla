------------------------------- MODULE ScanRun -------------------------------
(***************************************************************************)
(* scanRepos (scan/manager.js): one run scans the linked repositories.  It *)
(* takes the project's lock file, decides for each repository whether and  *)
(* what to scan, has an agent read the files, stores what the agent found  *)
(* with the commit it belongs to, and removes the lock.                    *)
(*                                                                         *)
(* Runs of several processes and the commits of the developers interleave. *)
(* A repository is its list of commits, a commit the content of each file; *)
(* contents are numbered by the commit that wrote them.  Of the impact map *)
(* the model keeps which content of each file was examined last; ScanStore *)
(* has the tables and what a scan leaves in them.  Enrichment, search      *)
(* index, hub upload and snapshot, which follow the storing and do not     *)
(* touch this state, are left out.                                         *)
(***************************************************************************)
EXTENDS Integers, Sequences

CONSTANTS
  Procs,          \* processes that run scanRepos, by their PID
  Repos,          \* the repositories of the project
  Files,          \* source files that define services
  FullOptions,    \* the values of options.full in use
  Quiet,          \* nobody commits while a run is under way
  MaxCommits,     \* bound on the commits after the first ones
  MaxCrashes      \* bound on the number of killed processes

ASSUME ConstantsAssumption ==
  /\ Procs \cap {"no file", "torn", "stale"} = {}
  /\ FullOptions \subseteq BOOLEAN
  /\ Quiet \in BOOLEAN
  /\ MaxCommits \in Nat
  /\ MaxCrashes \in Nat

VARIABLES
  commits,     \* the commits of each repository, the last one is HEAD
  ncommits,    \* commits so far
  examined,    \* the content of each file that the stored scans looked at last
  state,       \* repo_state.last_scanned_commit
  lock,        \* the lock file: the PID in it, or Stale, Torn or NoFile
  opened,      \* processes that have the present lock file open for writing
  pc,          \* where each run is
  full,        \* its options.full
  task,        \* its work on each repository
  left,        \* files that may stay wrong in the map: the new name of a
               \* renamed one, passed over by the scan of that diff, or left
               \* over by a clean-up that did not finish
  crashes      \* killed processes so far

vars == <<commits, ncommits, examined, state, lock, opened, pc, full, task,
          left, crashes>>

-----------------------------------------------------------------------------

NoFile == "no file"
Torn   == "torn"       \* created or truncated, and not yet written
Stale  == "stale"      \* written by a process that was killed

Absent  == 0           \* the content of a file that does not exist
Content == 0 .. MaxCommits + 1
Tree    == [Files -> Content]

Never == 0             \* the commit of a repository that was never scanned

Latest(r)    == Len(commits[r])
TreeAt(r, c) == commits[r][c]

(* git diff --name-status a b.  Deleted files and the old names of renamed *)
(* ones, and added files and the new names of renamed ones:                *)
Gone(a, b) == {f \in Files : a[f] # Absent /\ b[f] = Absent}
New(a, b)  == {f \in Files : a[f] = Absent /\ b[f] # Absent}

(* Any pairs of them may be taken for renames.  Their contents need not be *)
(* the same; how alike they are, git and its settings decide.              *)
Renames(a, b) ==
  {m \in SUBSET (Gone(a, b) \X New(a, b)) :
     \A x, y \in m : x[1] = y[1] <=> x[2] = y[2]}

(* What is told to the agent: changed and added files, and not the new     *)
(* names of renamed ones, whatever has become of their contents.           *)
NewNames(m) == {x[2] : x \in m}

Modified(a, b, m) == {f \in Files : b[f] \notin {Absent, a[f]}} \ NewNames(m)

Todo == [phase |-> "todo", mode |-> "full", modified |-> {}, skipped |-> {},
         gone |-> {}, read |-> [f \in Files |-> Absent], head |-> Never,
         tries |-> 1]

(* Every repository starts with one file; which one does not matter.       *)
First == CHOOSE f \in Files : TRUE

Init ==
  /\ commits = [r \in Repos |->
       <<[f \in Files |-> IF f = First THEN 1 ELSE Absent]>>]
  /\ ncommits = 0
  /\ examined = [r \in Repos |-> [f \in Files |-> Absent]]
  /\ state = [r \in Repos |-> Never]
  /\ lock = NoFile
  /\ opened = {}
  /\ pc = [p \in Procs |-> "idle"]
  /\ full = [p \in Procs |-> FALSE]
  /\ task = [p \in Procs |-> [r \in Repos |-> Todo]]
  /\ left = [r \in Repos |-> {}]
  /\ crashes = 0

git   == <<commits, ncommits>>
file  == <<lock, opened>>
store == <<examined, state, left>>

Goto(p, label) == pc' = [pc EXCEPT ![p] = label]

End(p) == Goto(p, "idle") /\ full' = [full EXCEPT ![p] = FALSE]

Set(p, r, t) == task' = [task EXCEPT ![p][r] = t]

-----------------------------------------------------------------------------
(* The developers.                                                         *)

Busy == \E p \in Procs : pc[p] = "scanning"

(* A commit may do anything to any of the files: leave it, put back what   *)
(* it was, remove it or write it anew.  A rename removes one file and      *)
(* writes another.                                                         *)
Commit(r, tree) ==
  /\ Quiet => ~Busy
  /\ ncommits < MaxCommits
  /\ \A f \in Files :
       \/ tree[f] \in {Absent, ncommits + 2}
       \/ \E c \in 1 .. Latest(r) : tree[f] = TreeAt(r, c)[f]
  /\ commits' = [commits EXCEPT ![r] = Append(@, tree)]
  /\ ncommits' = ncommits + 1
  /\ UNCHANGED <<store, file, pc, full, task, crashes>>

-----------------------------------------------------------------------------
(* acquireScanLock: four calls to the file system.                         *)

Start(p) ==
  /\ pc[p] = "idle"
  /\ \E b \in FullOptions : full' = [full EXCEPT ![p] = b]
  /\ Goto(p, "exists")
  /\ UNCHANGED <<git, store, file, task, crashes>>

(* existsSync.                                                             *)
LockExists(p) ==
  /\ pc[p] = "exists"
  /\ Goto(p, IF lock = NoFile THEN "open" ELSE "read")
  /\ UNCHANGED <<git, store, file, full, task, crashes>>

(* readFileSync, and kill(pid, 0) of the PID it holds: the run is refused. *)
Refused(p) ==
  /\ pc[p] = "read"
  /\ lock \in Procs
  /\ End(p)
  /\ UNCHANGED <<git, store, file, task, crashes>>

(* Fault: a lock is respected whether its process runs or not.             *)
LockStale_Refused(p) ==
  /\ pc[p] = "read"
  /\ lock \notin Procs
  /\ Goto(p, IF lock = Stale THEN "idle" ELSE "unlink")
  /\ UNCHANGED <<git, store, file, full, task, crashes>>

(* The process is gone, or the file cannot be parsed or has vanished.      *)
LockStale(p) ==
  /\ pc[p] = "read"
  /\ lock \notin Procs
  /\ Goto(p, "unlink")
  /\ UNCHANGED <<git, store, file, full, task, crashes>>

(* unlinkSync removes whatever is there by now.                            *)
Unlink(p) ==
  /\ pc[p] = "unlink"
  /\ lock' = NoFile
  /\ opened' = {}
  /\ Goto(p, "open")
  /\ UNCHANGED <<git, store, full, task, crashes>>

(* writeFileSync creates or truncates the file, then writes to what it     *)
(* opened, which may have been unlinked meanwhile.                         *)
OpenLock(p) ==
  /\ pc[p] = "open"
  /\ lock' = Torn
  /\ opened' = opened \cup {p}
  /\ Goto(p, "write")
  /\ UNCHANGED <<git, store, full, task, crashes>>

WriteLock(p) ==
  /\ pc[p] = "write"
  /\ lock' = IF p \in opened THEN p ELSE lock
  /\ opened' = opened \ {p}
  /\ Goto(p, "scanning")
  /\ UNCHANGED <<git, store, full, task, crashes>>

-----------------------------------------------------------------------------
(* Phase A, scanOneRepo for the repositories side by side.  How many at a  *)
(* time, options.concurrency, limits the order and nothing else.           *)

(* A diff that tells the agent of nothing ends it, and moves no commit.    *)
Told(a, b, m) ==
  IF Modified(a, b, m) = {}
  THEN [Todo EXCEPT !.phase = "done"]
  ELSE [Todo EXCEPT !.phase = "agent", !.mode = "incremental",
                    !.modified = Modified(a, b, m), !.skipped = NewNames(m),
                    !.gone = Gone(a, b)]

Decided(p, r) ==
  IF full[p] \/ state[r] = Never
  THEN {[Todo EXCEPT !.phase = "agent"]}
  ELSE LET a == TreeAt(r, state[r])
           b == TreeAt(r, Latest(r))
       IN  {Told(a, b, m) : m \in Renames(a, b)}

(* buildScanContext: full, skip, no-op or incremental.                     *)
Decide(p, r) ==
  /\ pc[p] = "scanning"
  /\ task[p][r].phase = "todo"
  /\ \E t \in Decided(p, r) : Set(p, r, t)
  /\ UNCHANGED <<git, store, file, pc, full, crashes>>

(* The agent reads the working tree.                                       *)
AgentReads(p, r) ==
  /\ pc[p] = "scanning"
  /\ task[p][r].phase = "agent"
  /\ Set(p, r, [task[p][r] EXCEPT !.phase = "read",
                                  !.read = TreeAt(r, Latest(r))])
  /\ UNCHANGED <<git, store, file, pc, full, crashes>>

(* Fault: it is asked again and again.                                     *)
AgentThrew_Forever(p, r) ==
  /\ pc[p] = "scanning"
  /\ task[p][r].phase = "read"
  /\ Set(p, r, [task[p][r] EXCEPT !.phase = "agent", !.tries = 2])
  /\ UNCHANGED <<git, store, file, pc, full, crashes>>

(* Fault: one attempt too many.                                            *)
AgentThrew_OffByOne(p, r) ==
  /\ pc[p] = "scanning"
  /\ task[p][r].phase = "read"
  /\ Set(p, r, IF task[p][r].tries \in {1, 2}
               THEN [task[p][r] EXCEPT !.phase = "agent", !.tries = @ + 1]
               ELSE [Todo EXCEPT !.phase = "done"])
  /\ UNCHANGED <<git, store, file, pc, full, crashes>>

(* It throws: once more, then the repository is passed over.               *)
AgentThrew(p, r) ==
  /\ pc[p] = "scanning"
  /\ task[p][r].phase = "read"
  /\ Set(p, r, IF task[p][r].tries = 1
               THEN [task[p][r] EXCEPT !.phase = "agent", !.tries = 2]
               ELSE [Todo EXCEPT !.phase = "done"])
  /\ UNCHANGED <<git, store, file, pc, full, crashes>>

(* Its answer does not validate: the repository is passed over.            *)
AnswerInvalid(p, r) ==
  /\ pc[p] = "scanning"
  /\ task[p][r].phase = "read"
  /\ Set(p, r, [Todo EXCEPT !.phase = "done"])
  /\ UNCHANGED <<git, store, file, pc, full, crashes>>

(* The answer is taken with the HEAD of that moment.                       *)
Answer(p, r) ==
  /\ pc[p] = "scanning"
  /\ task[p][r].phase = "read"
  /\ Set(p, r, [task[p][r] EXCEPT !.phase = "found", !.head = Latest(r),
                                  !.tries = 1])
  /\ UNCHANGED <<git, store, file, pc, full, crashes>>

-----------------------------------------------------------------------------
(* Phase B: when every agent has answered, one repository after another.   *)

PhaseB(p) ==
  /\ pc[p] = "scanning"
  /\ \A r \in Repos : task[p][r].phase \in {"found", "clean", "done"}

Idle(p) == \A r \in Repos : task[p][r].phase # "clean"

(* What has been examined when the scan is stored.                         *)
Learned(t, r) ==
  IF t.mode = "full" THEN t.read
  ELSE [f \in Files |->
          IF f \in t.modified THEN t.read[f] ELSE examined[r][f]]

(* persistScanResult commits findings and last_scanned_commit together.    *)
Save(p, r) ==
  /\ PhaseB(p) /\ Idle(p)
  /\ task[p][r].phase = "found"
  /\ examined' = [examined EXCEPT ![r] = Learned(task[p][r], r)]
  /\ state' = [state EXCEPT ![r] = task[p][r].head]
  /\ left' = [left EXCEPT ![r] = IF task[p][r].mode = "full" THEN {}
                                 ELSE (@ \ task[p][r].modified)
                                        \cup task[p][r].skipped]
  /\ Set(p, r, [Todo EXCEPT !.phase = "clean", !.gone = task[p][r].gone])
  /\ UNCHANGED <<git, file, pc, full, crashes>>

(* Fault: last_scanned_commit is written outside the transaction.          *)
SaveThrew_KeepsCommit(p, r) ==
  /\ PhaseB(p) /\ Idle(p)
  /\ task[p][r].phase = "found"
  /\ state' = [state EXCEPT ![r] = task[p][r].head]
  /\ Set(p, r, [Todo EXCEPT !.phase = "done"])
  /\ UNCHANGED <<git, examined, left, file, pc, full, crashes>>

(* It throws and is rolled back: the other repositories go on.             *)
SaveThrew(p, r) ==
  /\ PhaseB(p) /\ Idle(p)
  /\ task[p][r].phase = "found"
  /\ Set(p, r, [Todo EXCEPT !.phase = "done"])
  /\ UNCHANGED <<git, store, file, pc, full, crashes>>

(* _deleteDeletedFileFindings, after the commit.                           *)
Clean(p, r) ==
  /\ task[p][r].phase = "clean"
  /\ examined' = [examined EXCEPT ![r] =
       [f \in Files |-> IF f \in task[p][r].gone THEN Absent ELSE @[f]]]
  /\ left' = [left EXCEPT ![r] = @ \ task[p][r].gone]
  /\ Set(p, r, [Todo EXCEPT !.phase = "done"])
  /\ UNCHANGED <<git, state, file, pc, full, crashes>>

(* It throws: scanRepos takes the whole scan for failed.                   *)
CleanThrew(p, r) ==
  /\ task[p][r].phase = "clean"
  /\ task[p][r].gone # {}
  /\ left' = [left EXCEPT ![r] = @ \cup task[p][r].gone]
  /\ Set(p, r, [Todo EXCEPT !.phase = "done"])
  /\ UNCHANGED <<git, examined, state, file, pc, full, crashes>>

(* Fault: the lock is not removed.                                         *)
Release_Forgets(p) ==
  /\ pc[p] = "scanning"
  /\ \A r \in Repos : task[p][r].phase = "done"
  /\ task' = [task EXCEPT ![p] = [r \in Repos |-> Todo]]
  /\ End(p)
  /\ UNCHANGED <<git, store, file, crashes>>

(* finally releaseScanLock: it removes whatever lock file is there.        *)
Release(p) ==
  /\ pc[p] = "scanning"
  /\ \A r \in Repos : task[p][r].phase = "done"
  /\ lock' = NoFile
  /\ opened' = {}
  /\ task' = [task EXCEPT ![p] = [r \in Repos |-> Todo]]
  /\ End(p)
  /\ UNCHANGED <<git, store, crashes>>

(* The process is killed and leaves its lock, with a PID that is not given *)
(* to another program.                                                     *)
Crash(p) ==
  /\ pc[p] # "idle"
  /\ crashes < MaxCrashes
  /\ crashes' = crashes + 1
  /\ lock' = IF lock = p THEN Stale ELSE lock
  /\ opened' = opened \ {p}
  /\ left' = [r \in Repos |->
       left[r] \cup (IF task[p][r].phase = "clean" THEN task[p][r].gone ELSE {})]
  /\ task' = [task EXCEPT ![p] = [r \in Repos |-> Todo]]
  /\ End(p)
  /\ UNCHANGED <<git, examined, state>>

-----------------------------------------------------------------------------

Acquire(p) ==
  \/ LockExists(p)
  \/ Refused(p)
  \/ LockStale(p)
  \/ Unlink(p)
  \/ OpenLock(p)
  \/ WriteLock(p)

Work(p, r) ==
  \/ Decide(p, r)
  \/ AgentReads(p, r)
  \/ AgentThrew(p, r)
  \/ AnswerInvalid(p, r)
  \/ Answer(p, r)
  \/ Save(p, r)
  \/ SaveThrew(p, r)
  \/ Clean(p, r)
  \/ CleanThrew(p, r)

Step(p) ==
  \/ Acquire(p)
  \/ \E r \in Repos : Work(p, r)
  \/ Release(p)

Develop == \E r \in Repos, tree \in Tree : Commit(r, tree)

Next ==
  \/ Develop
  \/ \E p \in Procs : Start(p) \/ Step(p) \/ Crash(p)

Spec == Init /\ [][Next]_vars

(* A run goes on: file system and database calls return, and so does an    *)
(* agent.  The user scans again and again.                                 *)
Fairness ==
  /\ \A p \in Procs : WF_vars(Step(p))
  /\ \A p \in Procs : WF_vars(Start(p))

FairSpec == Spec /\ Fairness

=============================================================================
