---------------------------- MODULE ScanRunProofs ----------------------------
(***************************************************************************)
(* What is proved of scanRepos, for any repositories, files and processes, *)
(* and any number of commits, runs and crashes.                            *)
(***************************************************************************)
EXTENDS ScanRunProps, SequenceTheorems, TLAPS

-----------------------------------------------------------------------------
(* The inductive invariant, first what holds whenever anybody commits.     *)

(* A run that has the lock file is one that scans.                         *)
LockHeld == lock \in Procs => pc[lock] = "scanning"

(* Commits are counted, and number the contents they write.                *)
Numbered ==
  /\ state \in [Repos -> Nat]
  /\ \A r \in Repos :
       /\ Latest(r) \in 1 .. ncommits + 1
       /\ \A c \in 1 .. Latest(r), f \in Files : TreeAt(r, c)[f] <= ncommits + 1

Working(t) == t.phase \in {"agent", "read", "found"}

(* A run takes what it found with a commit that exists.                    *)
HeadsKnown ==
  \A p \in Procs, r \in Repos :
    task[p][r].phase = "found" => task[p][r].head \in 1 .. Latest(r)

WorkWhileScanning ==
  \A p \in Procs : pc[p] # "scanning" => \A r \in Repos : task[p][r] = Todo

Steady == TypeOK /\ LockHeld /\ Numbered /\ HeadsKnown /\ WorkWhileScanning

(* Then what holds if nobody commits while a run is under way.             *)

Newest(r) == TreeAt(r, Latest(r))
Base(r) == TreeAt(r, state[r])

CleaningUp(r) ==
  UNION {task[p][r].gone : p \in {q \in Procs : task[q][r].phase = "clean"}}

(* What was examined is what last_scanned_commit has.                      *)
BaseExamined ==
  \A r \in Repos : state[r] # Never =>
    \A f \in Files : examined[r][f] = Base(r)[f] \/ f \in left[r] \cup CleaningUp(r)

(* A task is about HEAD, and knows where it differs from what is examined. *)
TaskOK(t, r) ==
  /\ t.phase \in {"read", "found"} => t.read = Newest(r)
  /\ t.phase = "found" => t.head = Latest(r)
  /\ Working(t) /\ t.mode = "incremental" =>
       /\ state[r] # Never
       /\ \A f \in Files :
            Base(r)[f] # Newest(r)[f] => f \in t.modified \cup t.skipped \cup t.gone
  /\ Working(t) \/ t.phase = "clean" => \A f \in t.gone : Newest(r)[f] = Absent
  /\ t.phase = "clean" => state[r] = Latest(r)

Followed ==
  /\ BaseExamined
  /\ \A p \in Procs, r \in Repos : TaskOK(task[p][r], r)

-----------------------------------------------------------------------------
(* Values.                                                                 *)

LEMMA Bounds == MaxCommits \in Nat /\ MaxCrashes \in Nat
BY ConstantsAssumption, Zenon

LEMMA Markers == NoFile \notin Procs /\ Torn \notin Procs /\ Stale \notin Procs
<1>1. Procs \cap {"no file", "torn", "stale"} = {}
  BY ConstantsAssumption, Zenon
<1> QED
  BY <1>1 DEF NoFile, Torn, Stale

LEMMA TodoTask == Todo \in Task /\ ~Working(Todo) /\ Todo.phase = "todo"
<1>1. Todo.read \in Tree
  BY Bounds DEF Todo, Tree, Content, Absent
<1> QED
  BY <1>1, Bounds DEF Todo, Task, Never, Working

LEMMA TreeValues ==
  ASSUME NEW t \in Tree
  PROVE  \A f \in Files : t[f] \in Nat /\ t[f] <= MaxCommits + 1
BY Bounds DEF Tree, Content

LEMMA Trees ==
  ASSUME TypeOK, Numbered, NEW r \in Repos
  PROVE  /\ commits[r] \in Seq(Tree) /\ Latest(r) \in Nat /\ Latest(r) >= 1
         /\ ncommits \in Nat /\ ncommits <= MaxCommits
         /\ \A c \in 1 .. Latest(r) : TreeAt(r, c) \in Tree
         /\ Newest(r) \in Tree
         /\ \A f \in Files : Newest(r)[f] \in Nat /\ Newest(r)[f] <= ncommits + 1
         /\ state[r] # Never => state[r] \in 1 .. Latest(r) /\ Base(r) \in Tree
<1>1. commits[r] \in Seq(Tree) /\ Latest(r) \in Nat
  BY DEF TypeOK, Latest
<1>2. ncommits \in Nat /\ ncommits <= MaxCommits
  BY Bounds DEF TypeOK
<1>3. Latest(r) >= 1
  BY <1>1, <1>2 DEF Numbered
<1>4. \A c \in 1 .. Latest(r) : TreeAt(r, c) \in Tree
  BY <1>1 DEF Latest, TreeAt
<1>5. Newest(r) \in Tree
  BY <1>1, <1>3, <1>4 DEF Newest
<1>6. \A f \in Files : Newest(r)[f] \in Nat /\ Newest(r)[f] <= ncommits + 1
  BY <1>1, <1>3, <1>5, TreeValues DEF Numbered, Newest
<1>7. state[r] # Never => state[r] \in 1 .. Latest(r)
  BY <1>1 DEF TypeOK, Never
<1> QED
  BY <1>1, <1>2, <1>3, <1>4, <1>5, <1>6, <1>7 DEF Base

LEMMA TaskSet ==
  ASSUME TypeOK, NEW p \in Procs, NEW r \in Repos, NEW t \in Task, Set(p, r, t)
  PROVE  /\ task' \in [Procs -> [Repos -> Task]]
         /\ task'[p][r] = t
         /\ \A q \in Procs, s \in Repos : q # p \/ s # r => task'[q][s] = task[q][s]
BY DEF TypeOK, Set

-----------------------------------------------------------------------------
(* A commit.                                                               *)

LEMMA Committed ==
  ASSUME TypeOK, Numbered, NEW r \in Repos, NEW tree \in Tree, Commit(r, tree)
  PROVE  /\ commits' \in [Repos -> Seq(Tree)]
         /\ \A q \in Repos \ {r} : commits'[q] = commits[q]
         /\ Latest(r)' = Latest(r) + 1 /\ Newest(r)' = tree
         /\ \A c \in 1 .. Latest(r) : TreeAt(r, c)' = TreeAt(r, c)
         /\ ncommits' = ncommits + 1 /\ ncommits' \in 0 .. MaxCommits
         /\ \A f \in Files : tree[f] <= ncommits + 2
<1>1. commits[r] \in Seq(Tree) /\ ncommits \in Nat /\ Len(commits[r]) \in Nat
  BY Trees
<1>2. /\ commits' = [commits EXCEPT ![r] = Append(@, tree)]
      /\ ncommits' = ncommits + 1 /\ ncommits < MaxCommits
  BY DEF Commit
<1>3. commits'[r] = Append(commits[r], tree)
  BY <1>2 DEF TypeOK
<1>4. /\ Append(commits[r], tree) \in Seq(Tree)
      /\ Len(Append(commits[r], tree)) = Len(commits[r]) + 1
      /\ \A c \in 1 .. Len(commits[r]) : Append(commits[r], tree)[c] = commits[r][c]
      /\ Append(commits[r], tree)[Len(commits[r]) + 1] = tree
  BY <1>1, AppendProperties
<1>5. commits' \in [Repos -> Seq(Tree)] /\ \A q \in Repos \ {r} : commits'[q] = commits[q]
  BY <1>2, <1>4 DEF TypeOK
<1>6. ncommits' \in 0 .. MaxCommits
  BY <1>1, <1>2, Bounds
<1>7. ASSUME NEW f \in Files
      PROVE  tree[f] <= ncommits + 2
  <2>1. \A c \in 1 .. Latest(r) : TreeAt(r, c)[f] <= ncommits + 1 /\ TreeAt(r, c)[f] \in Nat
    BY Trees, TreeValues DEF Numbered
  <2>2. \/ tree[f] \in {Absent, ncommits + 2}
        \/ \E c \in 1 .. Latest(r) : tree[f] = TreeAt(r, c)[f]
    BY DEF Commit
  <2> QED
    BY <1>1, <2>1, <2>2 DEF Absent
<1> QED
  BY <1>2, <1>3, <1>4, <1>5, <1>6, <1>7 DEF Latest, Newest, TreeAt

LEMMA DevelopSteady ==
  ASSUME Steady, Develop
  PROVE  Steady'
<1>1. PICK r \in Repos, tree \in Tree : Commit(r, tree)
  BY DEF Develop
<1>2. /\ commits' \in [Repos -> Seq(Tree)]
      /\ \A q \in Repos \ {r} : commits'[q] = commits[q]
      /\ Latest(r)' = Latest(r) + 1 /\ Newest(r)' = tree
      /\ \A c \in 1 .. Latest(r) : TreeAt(r, c)' = TreeAt(r, c)
      /\ ncommits' = ncommits + 1 /\ ncommits' \in 0 .. MaxCommits
      /\ \A f \in Files : tree[f] <= ncommits + 2
  BY <1>1, Committed DEF Steady
<1>3. UNCHANGED <<examined, state, left, lock, opened, pc, full, task, crashes>>
  BY <1>1 DEF Commit, file, store
<1>4. /\ \A q \in Repos : Latest(q) \in Nat /\ Latest(q) >= 1 /\ Latest(q) <= Latest(q)'
      /\ ncommits \in Nat
      /\ \A q \in Repos \ {r} : Latest(q)' = Latest(q)
      /\ \A q \in Repos \ {r}, c \in Nat : TreeAt(q, c)' = TreeAt(q, c)
  <2>1. /\ \A q \in Repos : Latest(q) \in Nat /\ Latest(q) >= 1
        /\ ncommits \in Nat
    BY Trees DEF Steady
  <2>2. \A q \in Repos \ {r} : Latest(q)' = Latest(q)
    BY <1>2 DEF Latest
  <2> QED
    BY <1>2, <2>1, <2>2 DEF TreeAt
<1>5. TypeOK'
  <2>1. \A q \in Repos : state'[q] \in 0 .. Latest(q)'
    BY <1>3, <1>4 DEF Steady, TypeOK, Latest
  <2> QED
    BY <1>1, <1>2, <1>3, <2>1 DEF Steady, TypeOK
<1>6. Numbered'
  <2>1. ASSUME NEW q \in Repos
        PROVE  /\ Latest(q)' \in 1 .. ncommits' + 1
               /\ \A c \in 1 .. Latest(q)', f \in Files :
                    TreeAt(q, c)'[f] <= ncommits' + 1
    <3>1. /\ Latest(q) \in 1 .. ncommits + 1
          /\ \A c \in 1 .. Latest(q), f \in Files :
               TreeAt(q, c)[f] \in Nat /\ TreeAt(q, c)[f] <= ncommits + 1
      BY Trees, TreeValues DEF Steady, Numbered
    <3>2. CASE q # r
      BY <1>2, <1>4, <3>1, <3>2
    <3>3. CASE q = r
      <4>1. commits'[r][Len(commits'[r])] = tree
        BY <1>2 DEF Newest, TreeAt, Latest
      <4>2. ASSUME NEW c \in 1 .. Latest(r)', NEW f \in Files
            PROVE  TreeAt(r, c)'[f] <= ncommits' + 1
        <5>1. CASE c \in 1 .. Latest(r)
          BY <1>2, <1>4, <3>1, <3>3, <5>1
        <5>2. CASE c = Latest(r)'
          BY <1>1, <1>2, <1>4, <4>1, <5>2 DEF TreeAt, Latest
        <5> QED
          BY <1>2, <1>4, <5>1, <5>2
      <4> QED
        BY <1>2, <1>4, <3>1, <3>3, <4>2
    <3> QED
      BY <3>2, <3>3
  <2> QED
    BY <1>3, <2>1 DEF Steady, Numbered
<1>7. LockHeld' /\ WorkWhileScanning'
  BY <1>3 DEF Steady, LockHeld, WorkWhileScanning
<1>8. HeadsKnown'
  BY <1>3, <1>4 DEF Steady, HeadsKnown, Latest
<1> QED
  BY <1>5, <1>6, <1>7, <1>8 DEF Steady

-----------------------------------------------------------------------------
(* A step of a run on a repository, by the task that it leaves.            *)

LEMMA ScanningWorks ==
  ASSUME Steady, NEW p \in Procs, NEW r \in Repos, task[p][r].phase # "todo"
  PROVE  pc[p] = "scanning"
BY TodoTask DEF Steady, WorkWhileScanning

LEMMA WorkSteady ==
  ASSUME Steady, NEW p \in Procs, NEW r \in Repos, NEW t \in Task,
         pc[p] = "scanning", Set(p, r, t),
         t.phase = "found" => t.head \in 1 .. Latest(r),
         UNCHANGED <<git, file, pc, full, crashes>>,
         examined' \in [Repos -> Tree], left' \in [Repos -> SUBSET Files],
         state' \in [Repos -> Nat], \A s \in Repos : state'[s] \in 0 .. Latest(s)
  PROVE  Steady'
<1>1. /\ task' \in [Procs -> [Repos -> Task]] /\ task'[p][r] = t
      /\ \A q \in Procs, s \in Repos : q # p \/ s # r => task'[q][s] = task[q][s]
  BY TaskSet DEF Steady
<1>2. UNCHANGED <<commits, ncommits, lock, opened, pc, full, crashes>>
  BY DEF git, file
<1>3. TypeOK'
  BY <1>1, <1>2 DEF Steady, TypeOK, Latest
<1>4. Numbered'
  BY <1>2 DEF Steady, Numbered, Latest, TreeAt
<1>5. HeadsKnown'
  BY <1>1, <1>2 DEF Steady, HeadsKnown, Latest
<1>6. LockHeld' /\ WorkWhileScanning'
  BY <1>1, <1>2 DEF Steady, LockHeld, WorkWhileScanning
<1> QED
  BY <1>3, <1>4, <1>5, <1>6 DEF Steady

(* The tasks that the steps of phase A leave.                              *)
LEMMA PhaseASteps ==
  ASSUME Steady, NEW p \in Procs, NEW r \in Repos,
         \/ Decide(p, r) \/ AgentReads(p, r) \/ AgentThrew(p, r)
         \/ AnswerInvalid(p, r) \/ Answer(p, r) \/ SaveThrew(p, r)
  PROVE  \E t \in Task :
           /\ pc[p] = "scanning" /\ Set(p, r, t)
           /\ UNCHANGED <<git, store, file, pc, full, crashes>>
           /\ task[p][r].phase # "clean" /\ t.phase # "clean"
           /\ t.phase = "found" => t.head = Latest(r)
           /\ \/ ~Working(t)
              \/ t \in Decided(p, r)
              \/ /\ Working(task[p][r]) /\ t.mode = task[p][r].mode
                 /\ t.modified = task[p][r].modified
                 /\ t.skipped = task[p][r].skipped /\ t.gone = task[p][r].gone
                 /\ \/ t.phase = "agent"
                    \/ t.phase = "read" /\ t.read = Newest(r)
                    \/ t.phase = "found" /\ t.read = task[p][r].read
                       /\ task[p][r].phase = "read"
<1>1. /\ task[p][r] \in Task /\ Latest(r) \in Nat /\ Newest(r) \in Tree
      /\ Latest(r) \in 0 .. MaxCommits + 1 /\ Newest(r) = TreeAt(r, Latest(r))
  BY Trees, Bounds DEF Steady, TypeOK, Numbered, Newest
<1>2. CASE Decide(p, r)
  <2>1. \A a, b : \A m \in Renames(a, b) :
          NewNames(m) \subseteq Files /\ Modified(a, b, m) \subseteq Files
    BY DEF Renames, NewNames, New, Modified
  <2>2. \A t \in Decided(p, r) : t \in Task /\ t.phase \notin {"clean", "found"}
    <3>1. ASSUME NEW a, NEW b, NEW m \in Renames(a, b)
          PROVE  /\ Told(a, b, m) \in Task
                 /\ Told(a, b, m).phase \notin {"clean", "found"}
      <4>1. NewNames(m) \subseteq Files /\ Modified(a, b, m) \subseteq Files
        BY <2>1
      <4>2. Gone(a, b) \subseteq Files
        BY DEF Gone
      <4>3. Todo \in Task
        BY TodoTask
      <4>4. [Todo EXCEPT !.phase = "done"] \in Task
        BY <4>3 DEF Task
      <4>5. [Todo EXCEPT !.phase = "agent", !.mode = "incremental",
                         !.modified = Modified(a, b, m), !.skipped = NewNames(m),
                         !.gone = Gone(a, b)] \in Task
        BY <4>1, <4>2, <4>3 DEF Task
      <4>6. Told(a, b, m) \in Task
        BY <4>4, <4>5 DEF Told
      <4>7. Told(a, b, m).phase \in {"done", "agent"}
        BY DEF Told, Todo
      <4> QED
        BY <4>6, <4>7
    <3>2. LET t == [Todo EXCEPT !.phase = "agent"]
          IN  t \in Task /\ t.phase = "agent"
      BY TodoTask DEF Task
    <3>3. CASE full[p] \/ state[r] = Never
      <4>1. Decided(p, r) = {[Todo EXCEPT !.phase = "agent"]}
        BY <3>3, Zenon DEF Decided
      <4> QED
        BY <4>1, <3>2
    <3>4. CASE ~(full[p] \/ state[r] = Never)
      <4> DEFINE a == TreeAt(r, state[r])
      <4> DEFINE b == TreeAt(r, Latest(r))
      <4>1. Decided(p, r) = {Told(a, b, m) : m \in Renames(a, b)}
        BY <3>4, Zenon DEF Decided
      <4>2. ASSUME NEW t \in Decided(p, r)
            PROVE  t \in Task /\ t.phase \notin {"clean", "found"}
        <5>1. PICK m \in Renames(a, b) : t = Told(a, b, m)
          BY <4>1, Zenon
        <5> QED
          BY <5>1, <3>1, Zenon
      <4> QED
        BY <4>2
    <3> QED
      BY <3>3, <3>4
  <2>3. PICK t \in Decided(p, r) : Set(p, r, t)
    BY <1>2, Zenon DEF Decide
  <2>4. /\ pc[p] = "scanning" /\ task[p][r].phase = "todo"
        /\ UNCHANGED <<git, store, file, pc, full, crashes>>
    BY <1>2 DEF Decide
  <2>5. t \in Task /\ t.phase \notin {"clean", "found"}
    BY <2>2
  <2>6. task[p][r].phase # "clean" /\ t.phase # "clean" /\ t.phase # "found"
    BY <2>4, <2>5
  <2> QED
    BY <2>3, <2>4, <2>5, <2>6, Zenon
<1>3. CASE AgentReads(p, r)
  <2> DEFINE t == [task[p][r] EXCEPT !.phase = "read", !.read = TreeAt(r, Latest(r))]
  <2>1. /\ t \in Task /\ t.phase = "read" /\ t.read = Newest(r)
        /\ t.mode = task[p][r].mode /\ t.modified = task[p][r].modified
        /\ t.skipped = task[p][r].skipped /\ t.gone = task[p][r].gone
    BY <1>1 DEF Task
  <2> HIDE DEF t
  <2>2. pc[p] = "scanning" /\ Set(p, r, t) /\ task[p][r].phase = "agent"
    BY <1>3 DEF AgentReads, t
  <2> QED
    BY <1>3, <2>1, <2>2 DEF AgentReads, Working
<1>4. CASE AgentThrew(p, r)
  <2> DEFINE t == IF task[p][r].tries = 1
                  THEN [task[p][r] EXCEPT !.phase = "agent", !.tries = 2]
                  ELSE [Todo EXCEPT !.phase = "done"]
  <2>1. /\ t \in Task
        /\ \/ t.phase = "done"
           \/ /\ t.phase = "agent" /\ t.mode = task[p][r].mode
              /\ t.modified = task[p][r].modified
                 /\ t.skipped = task[p][r].skipped /\ t.gone = task[p][r].gone
    BY <1>1, TodoTask DEF Task
  <2> HIDE DEF t
  <2>2. pc[p] = "scanning" /\ Set(p, r, t) /\ task[p][r].phase = "read"
    BY <1>4 DEF AgentThrew, t
  <2> QED
    BY <1>4, <2>1, <2>2 DEF AgentThrew, Working
<1>5. CASE AnswerInvalid(p, r) \/ SaveThrew(p, r)
  <2> DEFINE t == [Todo EXCEPT !.phase = "done"]
  <2>1. t \in Task /\ t.phase = "done"
    BY TodoTask DEF Task
  <2> HIDE DEF t
  <2>2. /\ pc[p] = "scanning" /\ Set(p, r, t)
        /\ task[p][r].phase \in {"read", "found"}
    BY <1>5 DEF AnswerInvalid, SaveThrew, PhaseB, t
  <2>3. UNCHANGED <<git, store, file, pc, full, crashes>>
    BY <1>5 DEF AnswerInvalid, SaveThrew
  <2> QED
    BY <2>1, <2>2, <2>3 DEF Working
<1>6. CASE Answer(p, r)
  <2> DEFINE t == [task[p][r] EXCEPT !.phase = "found", !.head = Latest(r), !.tries = 1]
  <2>1. /\ t \in Task /\ t.phase = "found" /\ t.head = Latest(r)
        /\ t.read = task[p][r].read
        /\ t.mode = task[p][r].mode /\ t.modified = task[p][r].modified
        /\ t.skipped = task[p][r].skipped /\ t.gone = task[p][r].gone
    BY <1>1 DEF Task
  <2> HIDE DEF t
  <2>2. pc[p] = "scanning" /\ Set(p, r, t) /\ task[p][r].phase = "read"
    BY <1>6 DEF Answer, t
  <2> QED
    BY <1>6, <2>1, <2>2 DEF Answer, Working
<1> QED
  BY <1>2, <1>3, <1>4, <1>5, <1>6

LEMMA SaveSteps ==
  ASSUME Steady, NEW p \in Procs, NEW r \in Repos,
         Save(p, r) \/ Clean(p, r) \/ CleanThrew(p, r)
  PROVE  /\ pc[p] = "scanning"
         /\ UNCHANGED <<git, file, pc, full, crashes>>
         /\ examined' \in [Repos -> Tree] /\ left' \in [Repos -> SUBSET Files]
         /\ state' \in [Repos -> Nat] /\ \A s \in Repos : state'[s] \in 0 .. Latest(s)
         /\ \E t \in Task :
              /\ Set(p, r, t) /\ ~Working(t)
              /\ IF Save(p, r) THEN t.phase = "clean" /\ t.gone = task[p][r].gone
                 ELSE t.phase = "done"
<1>1. /\ task[p][r] \in Task /\ examined \in [Repos -> Tree]
      /\ left \in [Repos -> SUBSET Files] /\ state \in [Repos -> Nat]
      /\ Latest(r) \in Nat /\ \A s \in Repos : state[s] \in 0 .. Latest(s)
  BY Trees DEF Steady, TypeOK, Numbered
<1>2. pc[p] = "scanning"
  BY ScanningWorks DEF Save, PhaseB, Clean, CleanThrew
<1>3. ASSUME Save(p, r)
      PROVE  /\ examined' \in [Repos -> Tree] /\ left' \in [Repos -> SUBSET Files]
             /\ state' \in [Repos -> Nat] /\ \A s \in Repos : state'[s] \in 0 .. Latest(s)
             /\ \E t \in Task :
                  /\ Set(p, r, t) /\ ~Working(t)
                  /\ t.phase = "clean" /\ t.gone = task[p][r].gone
  <2>1. Learned(task[p][r], r) \in Tree
    BY <1>1 DEF Learned, Task, Tree
  <2>2. examined' \in [Repos -> Tree]
    BY <1>1, <1>3, <2>1 DEF Save
  <2>3. left' \in [Repos -> SUBSET Files]
    BY <1>1, <1>3 DEF Save, Task
  <2>4. task[p][r].head \in 1 .. Latest(r)
    BY <1>3 DEF Save, Steady, HeadsKnown
  <2>5. state' \in [Repos -> Nat] /\ \A s \in Repos : state'[s] \in 0 .. Latest(s)
    BY <1>1, <1>3, <2>4 DEF Save
  <2> DEFINE t == [Todo EXCEPT !.phase = "clean", !.gone = task[p][r].gone]
  <2>6. /\ t \in Task /\ t.phase = "clean" /\ t.gone = task[p][r].gone
        /\ Set(p, r, t)
    BY <1>1, <1>3, TodoTask DEF Save, Task
  <2> HIDE DEF t
  <2> QED
    BY <2>2, <2>3, <2>5, <2>6 DEF Working
<1>4. ASSUME Clean(p, r) \/ CleanThrew(p, r)
      PROVE  /\ examined' \in [Repos -> Tree] /\ left' \in [Repos -> SUBSET Files]
             /\ state' = state
             /\ \E t \in Task : Set(p, r, t) /\ ~Working(t) /\ t.phase = "done"
  <2>1. [f \in Files |-> IF f \in task[p][r].gone THEN Absent ELSE examined[r][f]] \in Tree
    BY <1>1, Bounds DEF Tree, Content, Absent
  <2>2. examined' \in [Repos -> Tree]
    BY <1>1, <1>4, <2>1 DEF Clean, CleanThrew
  <2>3. left' \in [Repos -> SUBSET Files]
    BY <1>1, <1>4 DEF Clean, CleanThrew, Task
  <2> DEFINE t == [Todo EXCEPT !.phase = "done"]
  <2>4. t \in Task /\ t.phase = "done" /\ Set(p, r, t)
    BY <1>4, TodoTask DEF Clean, CleanThrew, Task
  <2> HIDE DEF t
  <2> QED
    BY <1>4, <2>2, <2>3, <2>4 DEF Clean, CleanThrew, Working
<1>5. UNCHANGED <<git, file, pc, full, crashes>>
  BY DEF Save, Clean, CleanThrew
<1> QED
  BY <1>1, <1>2, <1>3, <1>4, <1>5

(* A step of a run on the lock file, which leaves history and map alone.   *)
LEMMA LockSteady ==
  ASSUME Steady, NEW p \in Procs, Start(p) \/ Acquire(p)
  PROVE  Steady' /\ UNCHANGED <<git, store, task>>
<1>1. /\ UNCHANGED <<git, store, task, crashes>>
      /\ pc[p] # "scanning" /\ full' \in [Procs -> BOOLEAN]
      /\ opened' \in SUBSET Procs
      /\ \E l \in {"idle", "exists", "read", "unlink", "open", "write", "scanning"} :
           /\ pc' = [pc EXCEPT ![p] = l]
           /\ \/ lock' \in {lock, NoFile, Torn} /\ (lock' \in Procs => lock' = lock)
              \/ lock' = p /\ l = "scanning"
  <2>1. TypeOK
    BY DEF Steady
  <2>2. CASE Start(p)
    <3>1. PICK b \in FullOptions : full' = [full EXCEPT ![p] = b]
      BY <2>2 DEF Start
    <3>2. b \in BOOLEAN
      BY ConstantsAssumption, Zenon
    <3>3. full' \in [Procs -> BOOLEAN]
      BY <2>1, <3>1, <3>2 DEF TypeOK
    <3> QED
      BY <2>1, <2>2, <3>3 DEF Start, Goto, TypeOK, git, store, file
  <2>3. CASE Acquire(p)
    BY <2>1, <2>3, Markers DEF Acquire, LockExists, Refused, LockStale, Unlink,
       OpenLock, WriteLock, Goto, End, TypeOK, git, store, file
  <2> QED
    BY <2>2, <2>3
<1>2. pc' \in [Procs -> {"idle", "exists", "read", "unlink", "open", "write", "scanning"}]
  BY <1>1 DEF Steady, TypeOK
<1>3. UNCHANGED <<commits, ncommits, examined, state, left, task, crashes>>
  BY <1>1 DEF git, store
<1>4. TypeOK'
  BY <1>1, <1>2, <1>3 DEF Steady, TypeOK, Latest
<1>5. Numbered' /\ HeadsKnown'
  BY <1>3 DEF Steady, Numbered, HeadsKnown, Latest, TreeAt
<1>6. LockHeld'
  BY <1>1, Markers DEF Steady, TypeOK, LockHeld
<1>7. WorkWhileScanning'
  BY <1>1, <1>3 DEF Steady, TypeOK, WorkWhileScanning
<1> QED
  BY <1>1, <1>4, <1>5, <1>6, <1>7 DEF Steady

(* A run ends, by itself or killed.                                        *)
LEMMA EndSteady ==
  ASSUME Steady, NEW p \in Procs, Release(p) \/ Crash(p)
  PROVE  /\ Steady' /\ UNCHANGED <<git, examined, state>>
         /\ \A r \in Repos : task'[p][r] = Todo
         /\ \A q \in Procs \ {p} : task'[q] = task[q]
<1>1. /\ UNCHANGED <<git, examined, state>>
      /\ task' = [task EXCEPT ![p] = [r \in Repos |-> Todo]]
      /\ pc' = [pc EXCEPT ![p] = "idle"] /\ full' = [full EXCEPT ![p] = FALSE]
      /\ opened' \subseteq opened
  BY DEF Release, Crash, End, Goto, store
<1>2. lock' \in {lock, NoFile, Stale} /\ (lock' \in Procs => lock' # p /\ lock' = lock)
  BY Markers DEF Release, Crash
<1>3. crashes' \in Nat
  BY DEF Release, Crash, Steady, TypeOK
<1>4. left' \in [Repos -> SUBSET Files]
  <2>1. CASE Release(p)
    BY <2>1 DEF Release, store, Steady, TypeOK
  <2>2. CASE Crash(p)
    <3>1. \A r \in Repos : left[r] \subseteq Files /\ task[p][r].gone \subseteq Files
      BY DEF Steady, TypeOK, Task
    <3> QED
      BY <2>2, <3>1 DEF Crash
  <2> QED
    BY <2>1, <2>2
<1>5. /\ task' \in [Procs -> [Repos -> Task]]
      /\ \A r \in Repos : task'[p][r] = Todo
      /\ \A q \in Procs \ {p} : task'[q] = task[q]
  BY <1>1, TodoTask DEF Steady, TypeOK
<1>6. UNCHANGED <<commits, ncommits>>
  BY <1>1 DEF git
<1>7. TypeOK'
  BY <1>1, <1>2, <1>3, <1>4, <1>5, <1>6 DEF Steady, TypeOK, Latest
<1>8. Numbered'
  BY <1>1, <1>6 DEF Steady, Numbered, Latest, TreeAt
<1>9. HeadsKnown'
  BY <1>5, <1>6, TodoTask DEF Steady, HeadsKnown, Latest
<1>10. LockHeld'
  BY <1>1, <1>2 DEF Steady, TypeOK, LockHeld
<1>11. WorkWhileScanning'
  BY <1>1, <1>5 DEF Steady, TypeOK, WorkWhileScanning
<1> QED
  BY <1>1, <1>5, <1>7, <1>8, <1>9, <1>10, <1>11 DEF Steady

LEMMA InitSteady == Init => Steady
<1> SUFFICES ASSUME Init PROVE Steady
  OBVIOUS
<1> DEFINE tree == [f \in Files |-> IF f = First THEN 1 ELSE Absent]
<1>1. tree \in Tree /\ \A f \in Files : tree[f] <= 1
  BY Bounds DEF Tree, Content, Absent
<1>2. /\ commits = [r \in Repos |-> <<tree>>] /\ ncommits = 0
      /\ state = [r \in Repos |-> Never]
  BY DEF Init
<1> HIDE DEF tree
<1>3. \A r \in Repos : commits[r] = <<tree>> /\ Latest(r) = 1
  BY <1>2 DEF Latest
<1>4. <<tree>> \in Seq(Tree)
  BY <1>1
<1>5. [f \in Files |-> Absent] \in Tree
  BY Bounds DEF Tree, Content, Absent
<1>6. TypeOK
  <2>1. commits \in [Repos -> Seq(Tree)] /\ ncommits \in 0 .. MaxCommits
    BY <1>2, <1>4, Bounds
  <2>2. \A r \in Repos : state[r] \in 0 .. Latest(r)
    BY <1>2, <1>3 DEF Never
  <2>3. /\ examined \in [Repos -> Tree] /\ task \in [Procs -> [Repos -> Task]]
        /\ left \in [Repos -> SUBSET Files]
    BY <1>5, TodoTask DEF Init
  <2>4. /\ lock = NoFile /\ opened = {} /\ crashes = 0
        /\ pc = [p \in Procs |-> "idle"] /\ full = [p \in Procs |-> FALSE]
    BY DEF Init
  <2> QED
    BY <2>1, <2>2, <2>3, <2>4 DEF TypeOK
<1>7. Numbered
  BY <1>1, <1>2, <1>3 DEF Numbered, TreeAt, Never
<1>8. HeadsKnown /\ LockHeld /\ WorkWhileScanning
  BY TodoTask, Markers DEF Init, HeadsKnown, LockHeld, WorkWhileScanning
<1> QED
  BY <1>6, <1>7, <1>8 DEF Steady

LEMMA SteadyNext ==
  ASSUME Steady, [Next]_vars
  PROVE  Steady'
<1>1. ASSUME NEW p \in Procs, NEW r \in Repos, Work(p, r)
      PROVE  Steady'
  <2>1. CASE Save(p, r) \/ Clean(p, r) \/ CleanThrew(p, r)
    <3>1. PICK t \in Task : Set(p, r, t) /\ t.phase # "found"
      BY <2>1, SaveSteps
    <3> QED
      BY <2>1, <3>1, SaveSteps, WorkSteady
  <2>2. CASE \/ Decide(p, r) \/ AgentReads(p, r) \/ AgentThrew(p, r)
             \/ AnswerInvalid(p, r) \/ Answer(p, r) \/ SaveThrew(p, r)
    <3>1. PICK t \in Task :
            /\ pc[p] = "scanning" /\ Set(p, r, t)
            /\ UNCHANGED <<git, store, file, pc, full, crashes>>
            /\ t.phase = "found" => t.head = Latest(r)
      BY <2>2, PhaseASteps
    <3>2. Latest(r) \in 1 .. Latest(r)
      BY Trees DEF Steady
    <3> QED
      BY <3>1, <3>2, WorkSteady DEF store, Steady, TypeOK, Numbered
  <2> QED
    BY <1>1, <2>1, <2>2 DEF Work
<1>2. CASE UNCHANGED vars
  BY <1>2 DEF vars, Steady, TypeOK, LockHeld, Numbered, HeadsKnown,
     WorkWhileScanning, Latest, TreeAt
<1> QED
  BY <1>1, <1>2, DevelopSteady, LockSteady, EndSteady DEF Next, Step

LEMMA Steadiness == Spec => []Steady
<1> QED
  BY InitSteady, SteadyNext, PTL DEF Spec

(* A run is refused only because another one scans: no run that ended,     *)
(* failed or was killed keeps the project locked.                          *)
THEOREM RefusedByScan == Spec => RefusedOnlyByScan
<1>1. Steady => \A p \in Procs : Refused(p) =>
                  \E q \in Procs \ {p} : pc[q] = "scanning"
  BY DEF Steady, LockHeld, Refused
<1> QED
  BY <1>1, Steadiness, PTL DEF RefusedOnlyByScan

(* History, map, lock and tasks have their types, whoever commits when.    *)
THEOREM WellTyped == Spec => []TypeOK
<1> QED
  BY Steadiness, PTL DEF Steady

-----------------------------------------------------------------------------
(* If nobody commits while a run is under way.                             *)

LEMMA CleaningUpHas ==
  ASSUME NEW r \in Repos, NEW f
  PROVE  /\ f \in CleaningUp(r) <=>
              \E p \in Procs : task[p][r].phase = "clean" /\ f \in task[p][r].gone
         /\ f \in CleaningUp(r)' <=>
              \E p \in Procs : task'[p][r].phase = "clean" /\ f \in task'[p][r].gone
BY DEF CleaningUp

LEMMA TodoOK ==
  ASSUME NEW r \in Repos
  PROVE  TaskOK(Todo, r) /\ TaskOK(Todo, r)'
BY TodoTask DEF TaskOK, Working

LEMMA InitFollowed == Init => Followed
<1> SUFFICES ASSUME Init PROVE Followed
  OBVIOUS
<1>1. /\ commits = [r \in Repos |-> <<[f \in Files |-> IF f = First THEN 1 ELSE Absent]>>]
      /\ state = [r \in Repos |-> Never]
      /\ task = [p \in Procs |-> [r \in Repos |-> Todo]]
  BY DEF Init
<1>4. BaseExamined
  BY <1>1 DEF BaseExamined
<1>5. \A p \in Procs, r \in Repos : TaskOK(task[p][r], r)
  BY <1>1, TodoOK
<1> QED
  BY <1>4, <1>5 DEF Followed

LEMMA DevelopFollowed ==
  ASSUME Quiet, Steady, Followed, Develop
  PROVE  Followed'
<1>1. PICK r \in Repos, tree \in Tree : Commit(r, tree)
  BY DEF Develop
<1>2. /\ \A q \in Repos \ {r} : commits'[q] = commits[q]
      /\ \A c \in 1 .. Latest(r) : TreeAt(r, c)' = TreeAt(r, c)
  BY <1>1, Committed DEF Steady
<1>3. UNCHANGED <<examined, state, left, task>>
  BY <1>1 DEF Commit, store
<1>4. \A p \in Procs, q \in Repos : task[p][q] = Todo
  BY <1>1 DEF Commit, Busy, Steady, WorkWhileScanning
<1>5. \A q \in Repos : state[q] # Never => Base(q)' = Base(q)
  <2>1. \A q \in Repos \ {r} : Base(q)' = Base(q)
    BY <1>2, <1>3 DEF Base, TreeAt
  <2>2. state[r] # Never => Base(r)' = Base(r)
    BY <1>2, <1>3, Trees DEF Steady, Base, TreeAt
  <2> QED
    BY <2>1, <2>2
<1>6. BaseExamined'
  <2> SUFFICES ASSUME NEW q \in Repos, state[q] # Never, NEW f \in Files
               PROVE  examined[q][f] = Base(q)'[f] \/ f \in left[q]
    BY <1>3 DEF BaseExamined
  <2>1. examined[q][f] = Base(q)[f] \/ f \in left[q] \cup CleaningUp(q)
    BY DEF Followed, BaseExamined
  <2>2. f \notin CleaningUp(q)
    BY <1>4, CleaningUpHas, TodoTask
  <2> QED
    BY <1>5, <2>1, <2>2
<1>7. \A p \in Procs, q \in Repos : TaskOK(task[p][q], q)'
  BY <1>3, <1>4, TodoOK
<1> QED
  BY <1>6, <1>7 DEF Followed

(* Steps that change no history and do not store anything.                 *)
LEMMA NothingStored ==
  ASSUME Followed, UNCHANGED <<git, examined, state>>,
         \A r \in Repos : /\ left[r] \subseteq left'[r]
                          /\ CleaningUp(r) \subseteq left'[r] \cup CleaningUp(r)',
         \A p \in Procs, r \in Repos : TaskOK(task'[p][r], r)
  PROVE  Followed'
<1>1. UNCHANGED <<commits, examined, state>>
  BY DEF git
<1>3. \A r \in Repos : Newest(r)' = Newest(r) /\ Base(r)' = Base(r) /\ Latest(r)' = Latest(r)
  BY <1>1 DEF Newest, Base, TreeAt, Latest
<1>4. BaseExamined'
  <2> SUFFICES ASSUME NEW r \in Repos, state[r] # Never, NEW f \in Files
               PROVE  examined[r][f] = Base(r)[f] \/ f \in left'[r] \cup CleaningUp(r)'
    BY <1>1, <1>3 DEF BaseExamined
  <2> QED
    BY DEF Followed, BaseExamined
<1>6. \A p \in Procs, r \in Repos : TaskOK(task[p][r], r)'
  BY <1>1, <1>3 DEF TaskOK
<1> QED
  BY <1>4, <1>6 DEF Followed

LEMMA PhaseAFollowed ==
  ASSUME Steady, Followed, NEW p \in Procs, NEW r \in Repos,
         \/ Decide(p, r) \/ AgentReads(p, r) \/ AgentThrew(p, r)
         \/ AnswerInvalid(p, r) \/ Answer(p, r) \/ SaveThrew(p, r)
  PROVE  Followed'
<1>1. PICK t \in Task :
        /\ pc[p] = "scanning" /\ Set(p, r, t)
        /\ UNCHANGED <<git, store, file, pc, full, crashes>>
        /\ task[p][r].phase # "clean" /\ t.phase # "clean"
        /\ t.phase = "found" => t.head = Latest(r)
        /\ \/ ~Working(t)
           \/ t \in Decided(p, r)
           \/ /\ Working(task[p][r]) /\ t.mode = task[p][r].mode
              /\ t.modified = task[p][r].modified
                 /\ t.skipped = task[p][r].skipped /\ t.gone = task[p][r].gone
              /\ \/ t.phase = "agent"
                 \/ t.phase = "read" /\ t.read = Newest(r)
                 \/ t.phase = "found" /\ t.read = task[p][r].read
                    /\ task[p][r].phase = "read"
  BY PhaseASteps
<1>2. /\ task'[p][r] = t
      /\ \A q \in Procs, s \in Repos : q # p \/ s # r => task'[q][s] = task[q][s]
  BY <1>1, TaskSet DEF Steady
<1>3. TaskOK(task[p][r], r)
  BY DEF Followed
<1>4. TaskOK(t, r)
  <2>1. CASE ~Working(t)
    BY <1>1, <2>1 DEF TaskOK, Working
  <2>2. CASE t \in Decided(p, r)
    <3>1. CASE t = [Todo EXCEPT !.phase = "agent"]
      BY <3>1 DEF TaskOK, Todo, Working
    <3>2. ASSUME state[r] # Never, NEW m \in Renames(Base(r), Newest(r)),
                 t = Told(Base(r), Newest(r), m)
          PROVE  TaskOK(t, r)
      <4>1. \/ ~Working(t) /\ t.phase = "done"
            \/ /\ t.phase = "agent" /\ t.gone = Gone(Base(r), Newest(r))
               /\ t.modified = Modified(Base(r), Newest(r), m)
               /\ t.skipped = NewNames(m)
        BY <3>2 DEF Told, Todo, Working
      <4> QED
        BY <3>2, <4>1 DEF TaskOK, Working, Modified, Gone
    <3> QED
      BY <2>2, <3>1, <3>2 DEF Decided, Base, Newest
  <2>3. CASE /\ Working(task[p][r]) /\ t.mode = task[p][r].mode
             /\ t.modified = task[p][r].modified
                 /\ t.skipped = task[p][r].skipped /\ t.gone = task[p][r].gone
             /\ \/ t.phase = "agent"
                \/ t.phase = "read" /\ t.read = Newest(r)
                \/ t.phase = "found" /\ t.read = task[p][r].read
                   /\ task[p][r].phase = "read"
    BY <1>1, <1>3, <2>3 DEF TaskOK, Working
  <2> QED
    BY <1>1, <2>1, <2>2, <2>3
<1>5. \A q \in Procs, s \in Repos : TaskOK(task'[q][s], s)
  BY <1>2, <1>4 DEF Followed
<1>6. \A s \in Repos : CleaningUp(s) \subseteq CleaningUp(s)'
  BY <1>1, <1>2, CleaningUpHas
<1> QED
  BY <1>1, <1>5, <1>6, NothingStored DEF store

LEMMA SaveFollowed ==
  ASSUME Steady, Followed, NEW p \in Procs, NEW r \in Repos, Save(p, r)
  PROVE  Followed'
<1> DEFINE t == task[p][r]
           H == Newest(r)
<1>1. PICK u \in Task :
        Set(p, r, u) /\ ~Working(u) /\ u.phase = "clean" /\ u.gone = t.gone
  BY SaveSteps
<1>2. /\ task'[p][r] = u
      /\ \A q \in Procs, s \in Repos : q # p \/ s # r => task'[q][s] = task[q][s]
  BY <1>1, TaskSet DEF Steady
<1>3. /\ t \in Task /\ t.phase = "found" /\ TaskOK(t, r)
      /\ examined \in [Repos -> Tree] /\ left \in [Repos -> SUBSET Files]
      /\ state \in [Repos -> Nat]
  BY DEF Save, Followed, Steady, TypeOK, Numbered
<1>4. /\ t.read = H /\ t.head = Latest(r)
      /\ \A f \in t.gone : H[f] = Absent
      /\ t.mode = "incremental" =>
           /\ state[r] # Never
           /\ \A f \in Files :
                Base(r)[f] # H[f] => f \in t.modified \cup t.skipped \cup t.gone
  BY <1>3 DEF TaskOK, Working
<1>5. /\ UNCHANGED commits
      /\ examined' = [examined EXCEPT ![r] = Learned(t, r)]
      /\ state' = [state EXCEPT ![r] = Latest(r)]
      /\ left' = [left EXCEPT ![r] = IF t.mode = "full" THEN {}
                                        ELSE (@ \ t.modified) \cup t.skipped]
  BY <1>4 DEF Save, git
<1>6. /\ \A s \in Repos : Newest(s)' = Newest(s) /\ Latest(s)' = Latest(s)
      /\ \A s \in Repos \ {r} : /\ Base(s)' = Base(s) /\ state'[s] = state[s]
                               /\ examined'[s] = examined[s] /\ left'[s] = left[s]
      /\ state'[r] = Latest(r) /\ Base(r)' = H /\ state'[r] # Never
      /\ examined'[r] = Learned(t, r)
      /\ left'[r] = IF t.mode = "full" THEN {}
                     ELSE (left[r] \ t.modified) \cup t.skipped
  <2>1. Latest(r) # Never
    BY Trees DEF Steady, Never
  <2>2. state'[r] = Latest(r) /\ \A s \in Repos \ {r} : state'[s] = state[s]
    BY <1>3, <1>5
  <2>3. \A s \in Repos : Newest(s)' = Newest(s) /\ Latest(s)' = Latest(s)
    BY <1>5 DEF Newest, TreeAt, Latest
  <2>4. Base(r)' = H
    BY <1>5, <2>2 DEF Base, Newest, TreeAt
  <2>5. \A s \in Repos \ {r} : Base(s)' = Base(s)
    BY <1>5, <2>2 DEF Base, TreeAt
  <2> QED
    BY <1>3, <1>5, <2>1, <2>2, <2>3, <2>4, <2>5
<1> HIDE DEF t, H
<1>7. \A s \in Repos : CleaningUp(s) \subseteq CleaningUp(s)'
  <2>1. task[p][r].phase # "clean"
    BY <1>3 DEF t
  <2> QED
    BY <1>2, <2>1, CleaningUpHas
<1>8. ASSUME NEW f \in Files
      PROVE  Learned(t, r)[f] = H[f] \/ f \in left'[r] \cup CleaningUp(r)'
  <2>1. CASE t.mode = "full"
    BY <1>4, <2>1 DEF Learned
  <2>2. CASE t.mode = "incremental" /\ f \in t.modified
    BY <1>4, <2>2 DEF Learned
  <2>3. CASE t.mode = "incremental" /\ f \notin t.modified
    <3>1. Learned(t, r)[f] = examined[r][f] /\ state[r] # Never
      BY <1>4, <2>3 DEF Learned
    <3>2. left'[r] = (left[r] \ t.modified) \cup t.skipped
      BY <1>6, <2>3
    <3>3. examined[r][f] = Base(r)[f] \/ f \in left'[r] \cup CleaningUp(r)'
      BY <1>7, <2>3, <3>1, <3>2 DEF Followed, BaseExamined
    <3>4. CASE Base(r)[f] = H[f]
      BY <3>1, <3>3, <3>4
    <3>5. CASE f \in t.skipped
      BY <3>2, <3>5
    <3>6. CASE f \in t.gone
      BY <1>1, <1>2, <3>6, CleaningUpHas
    <3> QED
      BY <1>4, <2>3, <3>4, <3>5, <3>6
  <2> QED
    BY <1>3, <2>1, <2>2, <2>3 DEF Task
<1>10. BaseExamined'
  <2> SUFFICES ASSUME NEW s \in Repos, state'[s] # Never, NEW f \in Files
               PROVE  examined'[s][f] = Base(s)'[f] \/ f \in left'[s] \cup CleaningUp(s)'
    BY DEF BaseExamined
  <2>1. CASE s = r
    BY <1>6, <1>8, <2>1
  <2>2. CASE s # r
    BY <1>6, <1>7, <2>2 DEF Followed, BaseExamined
  <2> QED
    BY <2>1, <2>2
<1>12. ASSUME NEW q \in Procs, NEW s \in Repos PROVE TaskOK(task[q][s], s)'
  <2>1. TaskOK(task[q][s], s)
    BY DEF Followed
  <2>2. CASE s # r
    BY <1>2, <1>6, <2>1, <2>2 DEF TaskOK
  <2>3. CASE s = r /\ q # p
    BY <1>2, <1>6, <2>1, <2>3 DEF TaskOK, H
  <2>4. CASE s = r /\ q = p
    BY <1>1, <1>2, <1>4, <1>6, <2>4 DEF TaskOK, Working, H
  <2> QED
    BY <2>2, <2>3, <2>4
<1> QED
  BY <1>10, <1>12 DEF Followed

LEMMA CleanFollowed ==
  ASSUME Steady, Followed, NEW p \in Procs, NEW r \in Repos,
         Clean(p, r) \/ CleanThrew(p, r)
  PROVE  Followed'
<1> DEFINE t == task[p][r]
<1>1. PICK u \in Task : Set(p, r, u) /\ ~Working(u) /\ u.phase # "clean"
  <2>1. ~Save(p, r)
    BY DEF Save, Clean, CleanThrew
  <2> QED
    BY <2>1, SaveSteps
<1>2. /\ task'[p][r] = u
      /\ \A q \in Procs, s \in Repos : q # p \/ s # r => task'[q][s] = task[q][s]
  BY <1>1, TaskSet DEF Steady
<1>3. /\ t.phase = "clean" /\ TaskOK(t, r)
      /\ examined \in [Repos -> Tree] /\ left \in [Repos -> SUBSET Files]
  BY DEF Clean, CleanThrew, Followed, Steady, TypeOK
<1>4. state[r] = Latest(r) /\ \A f \in t.gone : Base(r)[f] = Absent
  BY <1>3 DEF TaskOK, Base, Newest
<1>5. UNCHANGED <<git, state>>
  BY DEF Clean, CleanThrew
<1>6. \A q \in Procs, s \in Repos : TaskOK(task[q][s], s)'
  <2>1. TaskOK(u, r)
    BY <1>1 DEF TaskOK, Working
  <2>2. \A q \in Procs, s \in Repos : TaskOK(task[q][s], s)
    BY DEF Followed
  <2> QED
    BY <1>2, <1>5, <2>1, <2>2 DEF TaskOK, git, Newest, Base, Latest, TreeAt
<1>7. /\ \A s \in Repos \ {r} : CleaningUp(s) \subseteq CleaningUp(s)'
      /\ CleaningUp(r) \subseteq CleaningUp(r)' \cup t.gone
  BY <1>2, CleaningUpHas
<1>8. CASE CleanThrew(p, r)
  <2>1. /\ UNCHANGED examined
        /\ left' = [left EXCEPT ![r] = @ \cup t.gone]
    BY <1>8 DEF CleanThrew
  <2>2. ASSUME NEW s \in Repos
        PROVE  /\ left[s] \subseteq left'[s]
               /\ CleaningUp(s) \subseteq left'[s] \cup CleaningUp(s)'
    BY <1>3, <1>7, <2>1
  <2>3. \A q \in Procs, s \in Repos : TaskOK(task'[q][s], s)
    BY <1>1, <1>2 DEF Followed, TaskOK, Working
  <2> QED
    BY <1>5, <2>1, <2>2, <2>3, NothingStored
<1>9. CASE Clean(p, r)
  <2>1. /\ UNCHANGED <<commits, state>>
        /\ left' = [left EXCEPT ![r] = @ \ t.gone]
        /\ examined' = [examined EXCEPT ![r] =
             [f \in Files |-> IF f \in t.gone THEN Absent ELSE @[f]]]
    BY <1>9 DEF Clean, git
  <2>2. \A s \in Repos : Newest(s)' = Newest(s) /\ Base(s)' = Base(s)
    BY <2>1 DEF Newest, Base, TreeAt, Latest
  <2>4. BaseExamined'
    <3> SUFFICES ASSUME NEW s \in Repos, state[s] # Never, NEW f \in Files
                 PROVE  examined'[s][f] = Base(s)[f] \/ f \in left'[s] \cup CleaningUp(s)'
      BY <2>1, <2>2 DEF BaseExamined
    <3>1. examined[s][f] = Base(s)[f] \/ f \in left[s] \cup CleaningUp(s)
      BY DEF Followed, BaseExamined
    <3>2. CASE s # r
      BY <1>3, <1>7, <2>1, <3>1, <3>2
    <3>3. CASE s = r /\ f \in t.gone
      BY <1>3, <1>4, <2>1, <3>3
    <3>4. CASE s = r /\ f \notin t.gone
      BY <1>3, <1>7, <2>1, <3>1, <3>4
    <3> QED
      BY <3>2, <3>3, <3>4
  <2> QED
    BY <1>6, <2>4 DEF Followed
<1> QED
  BY <1>8, <1>9

LEMMA EndFollowed ==
  ASSUME Steady, Followed, NEW p \in Procs, Release(p) \/ Crash(p)
  PROVE  Followed'
<1>1. /\ UNCHANGED <<git, examined, state>>
      /\ \A r \in Repos : task'[p][r] = Todo
      /\ \A q \in Procs \ {p} : task'[q] = task[q]
  BY EndSteady
<1>2. ASSUME NEW r \in Repos
      PROVE  /\ left[r] \subseteq left'[r]
             /\ task[p][r].phase = "clean" => task[p][r].gone \subseteq left'[r]
  <2>1. CASE Release(p)
    BY <2>1 DEF Release, store
  <2>2. CASE Crash(p)
    BY <2>2 DEF Crash
  <2> QED
    BY <2>1, <2>2
<1>3. ASSUME NEW r \in Repos
      PROVE  CleaningUp(r) \subseteq left'[r] \cup CleaningUp(r)'
  BY <1>1, <1>2, CleaningUpHas
<1>4. \A q \in Procs, r \in Repos : TaskOK(task'[q][r], r)
  BY <1>1, TodoOK DEF Followed
<1> QED
  BY <1>1, <1>2, <1>3, <1>4, NothingStored

LEMMA FollowedNext ==
  ASSUME Quiet, Steady, Followed, [Next]_vars
  PROVE  Followed'
<1>1. ASSUME NEW p \in Procs, NEW r \in Repos, Work(p, r)
      PROVE  Followed'
  BY <1>1, PhaseAFollowed, SaveFollowed, CleanFollowed DEF Work
<1>2. ASSUME UNCHANGED <<git, store, task>>
      PROVE  Followed'
  BY <1>2 DEF git, store, Followed, BaseExamined, TaskOK,
     CleaningUp, Newest, Base, TreeAt, Latest
<1>3. CASE UNCHANGED vars
  BY <1>2, <1>3 DEF vars, git, store
<1>4. ASSUME NEW p \in Procs, Start(p) \/ Acquire(p)
      PROVE  Followed'
  BY <1>2, <1>4, LockSteady
<1> QED
  BY <1>1, <1>3, <1>4, DevelopFollowed, EndFollowed DEF Next, Step

LEMMA NotLost ==
  ASSUME Steady, Followed
  PROVE  ChangesNotLost
<1> SUFFICES ASSUME NEW r \in Repos, state[r] # Never, NEW f \in Files
             PROVE  Current(r, f) \/ f \in Due(r) \cup left[r]
  BY DEF ChangesNotLost
<1> DEFINE a == Base(r)
           b == Newest(r)
<1>1. /\ Current(r, f) <=> examined[r][f] = b[f]
      /\ a[f] # b[f] \/ f \in CleaningUp(r) => f \in Due(r)
  BY DEF Current, Newest, Due, Base, CleaningUp
<1>2. examined[r][f] = a[f] \/ f \in left[r] \cup CleaningUp(r)
  BY DEF Followed, BaseExamined
<1> QED
  BY <1>1, <1>2

(* If nobody commits while a run is under way, no change is ever lost,     *)
(* whatever runs overlap, fail or are killed.                              *)
THEOREM NothingLost == Quiet => (Spec => []RunOK)
<1> SUFFICES ASSUME Quiet PROVE Spec => []RunOK
  OBVIOUS
<1>1. Init => Followed
  BY InitFollowed
<1>2. Steady /\ Followed /\ [Next]_vars => Followed'
  BY FollowedNext
<1>3. Steady /\ Followed => RunOK
  BY NotLost DEF Steady, RunOK
<1> QED
  BY <1>1, <1>2, <1>3, Steadiness, PTL DEF Spec

=============================================================================
