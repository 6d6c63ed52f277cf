------------------------ MODULE WorkerLifecycleProofs ------------------------
(***************************************************************************)
(* What is proved of the worker and the scripts around it, for any number  *)
(* of process ids, versions and faults.                                    *)
(***************************************************************************)
EXTENDS WorkerLifecycleProps, TLAPS

-----------------------------------------------------------------------------
(* The inductive invariant, first what holds for any number of scripts.    *)

(* A stop starts nothing, and a script that asks has read a process id.    *)
InKind(s) ==
  /\ pc[s] \in {"ask", "unlink", "clean", "spawn", "record"} => kind[s] \notin Stops
  /\ pc[s] = "ask" => pid[s] # NoPid

Typed == TypeOK /\ \A s \in Scripts : InKind(s)

(* Then what holds when scripts do not overlap.  A worker that lives is    *)
(* the one in worker.pid, or what the script has in hand, and there is     *)
(* none between the end of the old one and the start of the next.          *)
Handed(s) ==
  \A w \in Workers : Alive(w) =>
    /\ pc[s] \in {"idle", "look", "cat", "probe", "ask", "term", "wait", "record"}
    /\ pc[s] # "record" => pidFile = w
    /\ pc[s] \in {"probe", "ask", "term", "wait", "record"} => pid[s] = w

PortKnown == \A w \in Workers : Serving(w) => portFile

OneScript == \E s \in Scripts : Scripts = {s}

Known == PortKnown /\ \A s \in Scripts : Handed(s)

-----------------------------------------------------------------------------
(* Types.                                                                  *)

Phases == {"dead", "spawned", "starting", "listening", "serving", "closing",
           "draining"}

LEMMA Bounds == MaxVersion \in Nat \ {0} /\ MaxFaults \in Nat /\ NoPid \notin Workers
BY ConstantsAssumption DEF NoPid

LEMMA PhaseSet ==
  ASSUME TypeOK, NEW w \in Workers, NEW ph, SetPhase(w, ph)
  PROVE  /\ phase' = [phase EXCEPT ![w] = ph]
         /\ phase'[w] = ph
         /\ \A v \in Workers : v # w => phase'[v] = phase[v]
         /\ ph \in Phases => phase' \in [Workers -> Phases]
BY DEF TypeOK, SetPhase, Phases

LEMMA WasTerminated ==
  ASSUME TypeOK, NEW w \in Workers
  PROVE  /\ Terminated(w) \in {"dead", "closing", "draining"}
         /\ Terminated(w) # "dead" => Alive(w)
BY DEF Terminated, Alive

LEMMA Went ==
  ASSUME TypeOK, NEW s \in Scripts, NEW label, Goto(s, label)
  PROVE  /\ pc'[s] = label
         /\ \A t \in Scripts : t # s => pc'[t] = pc[t]
BY DEF TypeOK, Goto

LEMMA Exited ==
  ASSUME TypeOK, NEW s \in Scripts, Exit(s)
  PROVE  /\ pc' = [pc EXCEPT ![s] = "idle"]
         /\ kind' \in [Scripts -> Kinds] /\ root' \in [Scripts -> Versions]
         /\ pid' \in [Scripts -> Workers \cup {NoPid}]
         /\ pc'[s] = "idle"
         /\ \A t \in Scripts : t # s =>
              pc'[t] = pc[t] /\ kind'[t] = kind[t] /\ pid'[t] = pid[t]
BY Bounds DEF TypeOK, Exit, Goto, Kinds, Versions

LEMMA TypedWork ==
  ASSUME Typed, NEW w \in Workers, Work(w) \/ Fault(w)
  PROVE  Typed'
<1> USE DEF Typed
<1>1. ASSUME NEW ph \in Phases, SetPhase(w, ph),
             UNCHANGED <<installed, version, scripts, taken>>,
             pidFile' \in Workers \cup {NoPid}, portFile' \in BOOLEAN,
             faults' \in 0 .. MaxFaults
      PROVE  Typed'
  BY <1>1, PhaseSet DEF TypeOK, InKind, scripts, Phases
<1>2. faults \in 0 .. MaxFaults /\ pidFile \in Workers \cup {NoPid} /\ portFile \in BOOLEAN
  BY DEF TypeOK
<1>3. faults < MaxFaults => faults + 1 \in 0 .. MaxFaults
  BY <1>2, Bounds
<1>4. Terminated(w) \in Phases
  BY WasTerminated DEF Phases
<1>5. CASE WritePid(w)
  <2>1. SetPhase(w, "starting")
    BY <1>5 DEF WritePid
  <2> QED
    BY <1>1, <1>2, <1>5, <2>1 DEF WritePid, Phases
<1>6. CASE Listen(w) \/ ListenThrew(w) \/ Unbind(w)
  BY <1>1, <1>2, <1>6 DEF Listen, ListenThrew, Unbind, Phases, files
<1>7. CASE WritePort(w) \/ Shutdown(w)
  BY <1>1, <1>2, <1>7 DEF WritePort, Shutdown, Phases
<1>8. CASE Killed(w)
  BY <1>1, <1>2, <1>3, <1>8 DEF Killed, Phases, files
<1>9. CASE Signalled(w)
  BY <1>1, <1>2, <1>3, <1>4, <1>9 DEF Signalled, files
<1> QED
  BY <1>5, <1>6, <1>7, <1>8, <1>9 DEF Work, Fault

(* A script that goes on, and what it may set.                             *)
LEMMA TypedGoes ==
  ASSUME Typed, NEW s \in Scripts,
         pc' \in [Scripts -> {"idle", "look", "cat", "probe", "ask", "term", "wait",
                              "remove", "unlink", "clean", "spawn", "record"}],
         kind' \in [Scripts -> Kinds], root' \in [Scripts -> Versions],
         pid' \in [Scripts -> Workers \cup {NoPid}],
         \A t \in Scripts : t # s =>
           pc'[t] = pc[t] /\ kind'[t] = kind[t] /\ pid'[t] = pid[t],
         pc'[s] \in {"ask", "term", "wait", "record"} => pid'[s] # NoPid,
         pc'[s] \in {"ask", "unlink", "clean", "spawn", "record"} => kind'[s] \notin Stops,
         pidFile' \in Workers \cup {NoPid}, portFile' \in BOOLEAN,
         phase' \in [Workers -> Phases], version' \in [Workers -> Versions],
         UNCHANGED <<installed, taken, faults>>
  PROVE  Typed'
<1>1. \A t \in Scripts : pc'[t] \in {"term", "wait", "record"} => pid'[t] # NoPid
  BY DEF Typed, TypeOK
<1>2. \A t \in Scripts : InKind(t)'
  BY DEF Typed, TypeOK, InKind
<1> QED
  BY <1>1, <1>2 DEF Typed, TypeOK, Phases

(* The values of one script's step.                                        *)
LEMMA Values ==
  ASSUME Typed
  PROVE  /\ pidFile \in Workers \cup {NoPid} /\ portFile \in BOOLEAN
         /\ phase \in [Workers -> Phases] /\ version \in [Workers -> Versions]
         /\ kind \in [Scripts -> Kinds] /\ root \in [Scripts -> Versions]
         /\ pid \in [Scripts -> Workers \cup {NoPid}]
         /\ installed \in Versions
BY DEF Typed, TypeOK, Phases

LEMMA TypedLook ==
  ASSUME Typed, NEW s \in Scripts,
         \/ Begin(s) \/ PidFileMissing(s) \/ PidFileExists(s) \/ ReadPid(s)
         \/ Stale(s) \/ Running(s) \/ VersionDiffers(s) \/ VersionTaken(s)
  PROVE  Typed'
<1> USE Values DEF Typed, TypeOK
<1>1. CASE Begin(s)
  BY <1>1, TypedGoes DEF Begin, Goto, files, procs
<1>2. CASE PidFileMissing(s)
  <2>1. CASE kind[s] \in Stops
    BY <1>2, <2>1, Exited, TypedGoes DEF PidFileMissing, files, procs
  <2>2. CASE kind[s] \notin Stops
    BY <1>2, <2>2, TypedGoes DEF PidFileMissing, Goto, files, procs
  <2> QED
    BY <2>1, <2>2
<1>3. CASE PidFileExists(s)
  BY <1>3, TypedGoes DEF PidFileExists, Goto, files, procs
<1>4. CASE ReadPid(s)
  <2>1. CASE pidFile = NoPid /\ kind[s] = "stop"
    BY <1>4, <2>1, Exited, TypedGoes DEF ReadPid, files, procs
  <2>2. CASE ~(pidFile = NoPid /\ kind[s] = "stop")
    BY <1>4, <2>2, TypedGoes DEF ReadPid, Goto, files, procs
  <2> QED
    BY <2>1, <2>2
<1>5. CASE Stale(s)
  BY <1>5, TypedGoes DEF Stale, Goto, files, procs
<1>6. CASE Running(s)
  <2>1. pid[s] # NoPid
    BY <1>6, Bounds DEF Running, Alive
  <2> QED
    BY <1>6, <2>1, TypedGoes DEF Running, Goto, files, procs
<1>7. CASE VersionDiffers(s)
  <2>1. pid[s] # NoPid
    BY <1>7 DEF VersionDiffers, InKind
  <2> QED
    BY <1>7, <2>1, TypedGoes DEF VersionDiffers, Goto, files, procs
<1>8. CASE VersionTaken(s)
  BY <1>8, Exited, TypedGoes DEF VersionTaken, files, procs
<1> QED
  BY <1>1, <1>2, <1>3, <1>4, <1>5, <1>6, <1>7, <1>8

LEMMA TypedEnd ==
  ASSUME Typed, NEW s \in Scripts,
         Term(s) \/ KillForce(s) \/ Remove(s) \/ Unlink(s)
  PROVE  Typed'
<1> USE Values DEF Typed, TypeOK
<1>1. CASE Term(s)
  <2>1. pid[s] \in Workers
    BY <1>1 DEF Term
  <2>2. phase' \in [Workers -> Phases]
    BY <1>1, <2>1, PhaseSet, WasTerminated DEF Term, Phases
  <2>3. CASE ~Alive(pid[s]) /\ kind[s] = "stop"
    BY <1>1, <2>2, <2>3, Exited, TypedGoes DEF Term, files
  <2>4. CASE ~(~Alive(pid[s]) /\ kind[s] = "stop")
    BY <1>1, <2>2, <2>4, TypedGoes DEF Term, Goto, files
  <2> QED
    BY <2>3, <2>4
<1>2. CASE KillForce(s)
  <2>1. pid[s] \in Workers
    BY <1>2 DEF KillForce
  <2>2. phase' \in [Workers -> Phases]
    BY <1>2, <2>1, PhaseSet DEF KillForce, Phases
  <2> QED
    BY <1>2, <2>2, TypedGoes DEF KillForce, Goto, files
<1>3. CASE Remove(s)
  <2>1. CASE kind[s] \in Stops
    BY <1>3, <2>1, Exited, TypedGoes, ZenonT(30) DEF Remove, procs
  <2>2. CASE kind[s] \notin Stops
    BY <1>3, <2>2, TypedGoes, ZenonT(30) DEF Remove, Goto, procs
  <2> QED
    BY <2>1, <2>2
<1>4. CASE Unlink(s)
  <2>1. kind[s] \notin Stops
    BY <1>4 DEF Unlink, InKind
  <2> QED
    BY <1>4, <2>1, TypedGoes DEF Unlink, Goto, procs
<1> QED
  BY <1>1, <1>2, <1>3, <1>4

(* The process id the system gives out.                                    *)
NewWorker == CHOOSE w \in Workers : Free(w)

LEMMA Spawned ==
  ASSUME Typed, NEW s \in Scripts, Spawn(s)
  PROVE  /\ NewWorker \in Workers /\ ~Alive(NewWorker)
         /\ SetPhase(NewWorker, "spawned")
         /\ version' = [version EXCEPT ![NewWorker] = root[s]]
         /\ pid' = [pid EXCEPT ![s] = NewWorker]
BY DEF Spawn, NewWorker, Free

LEMMA TypedStart ==
  ASSUME Typed, NEW s \in Scripts,
         StartBackground(s) \/ WritePortFirst(s) \/ Spawn(s) \/ RecordPid(s)
  PROVE  Typed'
<1> USE Values DEF Typed, TypeOK
<1>1. CASE StartBackground(s)
  BY <1>1, TypedGoes DEF StartBackground, Goto, files, procs, Kinds
<1>2. CASE WritePortFirst(s)
  BY <1>2, TypedGoes DEF WritePortFirst, Goto, procs, Stops
<1>3. CASE Spawn(s)
  <2>1. NewWorker \in Workers \ {NoPid}
    BY <1>3, Spawned, Bounds
  <2>2. phase' \in [Workers -> Phases] /\ version' \in [Workers -> Versions]
    BY <1>3, <2>1, Spawned, PhaseSet DEF Phases
  <2>3. kind[s] \notin Stops
    BY <1>3 DEF Spawn, InKind
  <2>4. pid' = [pid EXCEPT ![s] = NewWorker]
    BY <1>3, Spawned
  <2>5. UNCHANGED <<installed, files, kind, root, taken, faults>> /\ Goto(s, "record")
    BY <1>3 DEF Spawn
  <2> HIDE DEF NewWorker
  <2> QED
    BY <2>1, <2>2, <2>3, <2>4, <2>5, TypedGoes DEF Goto, files
<1>4. CASE RecordPid(s)
  BY <1>4, Exited, TypedGoes DEF RecordPid, procs
<1> QED
  BY <1>1, <1>2, <1>3, <1>4

LEMMA TypedNext ==
  ASSUME Typed, [Next]_vars
  PROVE  Typed'
<1>1. CASE Upgrade
  <2>1. installed' \in Versions
    BY <1>1, Bounds DEF Upgrade, Typed, TypeOK, Versions
  <2> QED
    BY <1>1, <2>1 DEF Upgrade, Typed, TypeOK, InKind, files, procs, scripts
<1>2. CASE PortTaken \/ PortReturned
  <2>1. faults \in 0 .. MaxFaults
    BY DEF Typed, TypeOK
  <2>2. faults' \in 0 .. MaxFaults
    BY <1>2, <2>1, Bounds DEF PortTaken, PortReturned
  <2>3. taken' \in BOOLEAN
    BY <1>2, Zenon DEF PortTaken, PortReturned
  <2> QED
    BY <1>2, <2>2, <2>3 DEF PortTaken, PortReturned, Typed, TypeOK, InKind, files, procs, scripts
<1>3. CASE UNCHANGED vars
  BY <1>3 DEF vars, Typed, TypeOK, InKind, files, procs, scripts, Versions
<1> QED
  BY <1>1, <1>2, <1>3, TypedWork, TypedLook, TypedEnd, TypedStart DEF Next, Step

LEMMA TypedInit == Init => Typed
<1>1. 1 \in Versions /\ 0 \in 0 .. MaxFaults
  BY Bounds DEF Versions
<1>2. Init => portFile \in BOOLEAN /\ taken \in BOOLEAN
  BY Zenon DEF Init
<1>3. Init => /\ kind \in [Scripts -> Kinds]
              /\ pid \in [Scripts -> Workers \cup {NoPid}]
              /\ pidFile \in Workers \cup {NoPid}
  BY DEF Init, Kinds
<1>4. Init => /\ installed \in Versions /\ faults \in 0 .. MaxFaults
              /\ version \in [Workers -> Versions]
              /\ root \in [Scripts -> Versions]
  BY <1>1 DEF Init
<1>5. Init => /\ phase \in [Workers -> Phases]
              /\ \A s \in Scripts : pc[s] = "idle"
              /\ pc \in [Scripts -> {"idle", "look", "cat", "probe", "ask", "term",
                         "wait", "remove", "unlink", "clean", "spawn", "record"}]
  BY DEF Init, Phases
<1> QED
  BY <1>2, <1>3, <1>4, <1>5 DEF Typed, TypeOK, InKind, Phases

LEMMA Typing == Spec => []Typed
BY TypedInit, TypedNext, PTL DEF Spec

(* The variables have their types, whatever scripts run side by side.      *)
THEOREM WellTyped == Spec => []TypeOK
<1>1. Typed => TypeOK
  BY DEF Typed
<1> QED
  BY <1>1, Typing, PTL

-----------------------------------------------------------------------------
(* The worker that lives.                                                  *)

LEMMA Only ==
  ASSUME Known, NEW s \in Scripts, NEW w \in Workers, NEW v \in Workers,
         Alive(v), Alive(w)
  PROVE  v = w
BY DEF Known, Handed

(* What a step of a worker does: the phases of the others stay.            *)
LEMMA KnownWork ==
  ASSUME OneScript, Typed, Known, NEW w \in Workers, Work(w) \/ Fault(w)
  PROVE  Known'
<1> PICK s \in Scripts : Scripts = {s}
  BY DEF OneScript
<1>1. ASSUME NEW ph \in Phases, SetPhase(w, ph), Alive(w),
             UNCHANGED scripts,
             ph # "dead" => pidFile' \in {pidFile, w},
             ph # "dead" => (portFile => portFile'),
             ph = "serving" => portFile'
      PROVE  Known'
  <2>1. \A v \in Workers : Alive(v) => v = w
    BY <1>1, Only
  <2>2. /\ phase'[w] = ph
        /\ \A v \in Workers : v # w => phase[v] = "dead" /\ phase'[v] = "dead"
    BY <1>1, <2>1, PhaseSet DEF Typed, Alive
  <2>3. \A v \in Workers : Alive(v)' => v = w /\ ph # "dead"
    BY <2>2 DEF Alive
  <2>4. Handed(s)'
    BY <1>1, <2>3 DEF Known, Handed, scripts
  <2>5. PortKnown'
    BY <1>1, <2>2 DEF PortKnown, Serving
  <2> QED
    BY <2>4, <2>5 DEF Known
<1>2. CASE WritePid(w)
  BY <1>1, <1>2 DEF WritePid, Phases, Alive
<1>3. CASE Listen(w) \/ ListenThrew(w)
  BY <1>1, <1>3 DEF Listen, ListenThrew, Phases, Alive, files
<1>4. CASE WritePort(w)
  BY <1>1, <1>4 DEF WritePort, Phases, Alive
<1>5. CASE Unbind(w) \/ Shutdown(w)
  BY <1>1, <1>5 DEF Unbind, Shutdown, Phases, Alive, files
<1>6. CASE Killed(w)
  BY <1>1, <1>6 DEF Killed, Phases, files
<1>7. CASE Signalled(w)
  BY <1>1, <1>7, WasTerminated DEF Signalled, Phases, Typed, files
<1> QED
  BY <1>2, <1>3, <1>4, <1>5, <1>6, <1>7 DEF Work, Fault

(* What the script does without touching a process.                        *)
LEMMA KnownLook ==
  ASSUME OneScript, Typed, Known, NEW s \in Scripts,
         \/ Begin(s) \/ PidFileMissing(s) \/ PidFileExists(s) \/ ReadPid(s)
         \/ Stale(s) \/ Running(s) \/ VersionDiffers(s) \/ VersionTaken(s)
         \/ Remove(s) \/ Unlink(s) \/ StartBackground(s) \/ WritePortFirst(s)
         \/ RecordPid(s)
  PROVE  Known'
<1>1. Scripts = {s}
  BY DEF OneScript
<1>2. Handed(s) /\ PortKnown /\ TypeOK /\ InKind(s)
  BY DEF Known, Typed
<1>3. UNCHANGED procs
  BY DEF Begin, PidFileMissing, PidFileExists, ReadPid, Stale, Running, VersionDiffers,
     VersionTaken, Remove, Unlink, StartBackground, WritePortFirst, RecordPid
<1>4. \A w \in Workers : (Alive(w)' <=> Alive(w)) /\ (Serving(w)' <=> Serving(w))
  BY <1>3 DEF procs, Alive, Serving
<1>5. ASSUME Handed(s)', portFile' = portFile \/ portFile' = TRUE
      PROVE  Known'
  <2>1. PortKnown'
    BY <1>2, <1>4, <1>5 DEF PortKnown
  <2> QED
    BY <1>1, <1>5, <2>1 DEF Known
<1>6. CASE Begin(s) \/ PidFileExists(s)
  <2>1. pc[s] \in {"idle", "look"} /\ pc'[s] \in {"look", "cat"} /\ UNCHANGED files
    BY <1>2, <1>6, Went DEF Begin, PidFileExists
  <2> QED
    BY <1>2, <1>4, <1>5, <2>1 DEF Handed, files
<1>7. CASE PidFileMissing(s)
  <2>1. \A w \in Workers : ~Alive(w)
    BY <1>2, <1>7, Bounds DEF Handed, PidFileMissing
  <2> QED
    BY <1>4, <1>5, <1>7, <2>1 DEF Handed, PidFileMissing, files
<1>8. CASE ReadPid(s)
  <2>1. CASE pidFile = NoPid
    <3>1. \A w \in Workers : ~Alive(w)
      BY <1>2, <1>8, <2>1, Bounds DEF Handed, ReadPid
    <3> QED
      BY <1>4, <1>5, <1>8, <3>1 DEF Handed, ReadPid, files
  <2>2. CASE pidFile # NoPid
    <3>1. pid'[s] = pidFile /\ pc'[s] = "probe" /\ UNCHANGED files
      BY <1>2, <1>8, <2>2 DEF ReadPid, Goto, TypeOK
    <3> QED
      BY <1>2, <1>4, <1>5, <1>8, <3>1 DEF Handed, ReadPid, files
  <2> QED
    BY <2>1, <2>2
<1>9. CASE Stale(s)
  <2>1. \A w \in Workers : ~Alive(w)
    BY <1>2, <1>9 DEF Handed, Stale
  <2> QED
    BY <1>4, <1>5, <1>9, <2>1 DEF Handed, Stale, files
<1>10. CASE Running(s) \/ VersionDiffers(s)
  <2>1. pc'[s] \in {"term", "ask"} /\ pc[s] \in {"probe", "ask"} /\ UNCHANGED <<files, pid>>
    BY <1>2, <1>10, Went DEF Running, VersionDiffers
  <2> QED
    BY <1>2, <1>4, <1>5, <2>1 DEF Handed, files
<1>11. CASE VersionTaken(s)
  <2>1. pc'[s] = "idle" /\ pc[s] = "ask" /\ UNCHANGED files
    BY <1>2, <1>11, Exited DEF VersionTaken
  <2> QED
    BY <1>2, <1>4, <1>5, <2>1 DEF Handed, files
<1>12. CASE \/ Remove(s) \/ Unlink(s) \/ StartBackground(s) \/ WritePortFirst(s)
  <2>1. pc[s] \in {"remove", "unlink", "clean"}
    BY <1>12 DEF Remove, Unlink, StartBackground, WritePortFirst
  <2>2. \A w \in Workers : ~Alive(w)
    BY <1>2, <2>1 DEF Handed
  <2>3. Handed(s)' /\ PortKnown'
    BY <1>2, <1>4, <2>2 DEF Handed, PortKnown, Serving, Alive
  <2> QED
    BY <1>1, <2>3 DEF Known
<1>13. CASE RecordPid(s)
  <2>1. pc'[s] = "idle" /\ pc[s] = "record" /\ pidFile' = pid[s] /\ portFile' = portFile
    BY <1>2, <1>13, Exited DEF RecordPid
  <2> QED
    BY <1>2, <1>4, <1>5, <2>1 DEF Handed
<1> QED
  BY <1>6, <1>7, <1>8, <1>9, <1>10, <1>11, <1>12, <1>13

(* It ends the worker that it has read of, or starts one.                  *)
LEMMA KnownEnd ==
  ASSUME OneScript, Typed, Known, NEW s \in Scripts, Term(s) \/ KillForce(s)
  PROVE  Known'
<1>1. Scripts = {s}
  BY DEF OneScript
<1>2. Handed(s) /\ PortKnown /\ TypeOK
  BY DEF Known, Typed
<1>3. /\ pc[s] \in {"term", "wait"} /\ pid[s] \in Workers /\ UNCHANGED files
  BY <1>2 DEF Term, KillForce, TypeOK
<1>4. \A w \in Workers : Alive(w) => w = pid[s]
  BY <1>2, <1>3 DEF Handed
<1>5. CASE ~Alive(pid[s])
  <2>1. UNCHANGED phase
    BY <1>5 DEF Term, KillForce
  <2>2. \A w \in Workers : ~Alive(w)' /\ ~Serving(w)'
    BY <1>4, <1>5, <2>1 DEF Alive, Serving
  <2> QED
    BY <1>1, <2>2 DEF Known, Handed, PortKnown
<1>6. CASE Alive(pid[s]) /\ KillForce(s)
  <2>1. SetPhase(pid[s], "dead")
    BY <1>6 DEF KillForce
  <2>2. \A w \in Workers : ~Alive(w)' /\ ~Serving(w)'
    BY <1>2, <1>3, <1>4, <2>1, PhaseSet DEF Alive, Serving
  <2> QED
    BY <1>1, <2>2 DEF Known, Handed, PortKnown
<1>7. CASE Alive(pid[s]) /\ Term(s)
  <2>1. SetPhase(pid[s], Terminated(pid[s])) /\ UNCHANGED pid /\ Goto(s, "wait")
    BY <1>7 DEF Term
  <2>2. pc'[s] = "wait"
    BY <1>2, <2>1, Went
  <2>3. \A w \in Workers : (Alive(w)' => Alive(w)) /\ ~Serving(w)'
    BY <1>2, <1>3, <1>4, <1>7, <2>1, PhaseSet, WasTerminated DEF Alive, Serving
  <2> QED
    BY <1>1, <1>2, <1>3, <2>1, <2>2, <2>3 DEF Known, Handed, PortKnown, files
<1> QED
  BY <1>5, <1>6, <1>7

LEMMA KnownSpawn ==
  ASSUME OneScript, Typed, Known, NEW s \in Scripts, Spawn(s)
  PROVE  Known'
<1>1. Scripts = {s}
  BY DEF OneScript
<1>2. \A w \in Workers : ~Alive(w)
  BY DEF Known, Handed, Spawn
<1>3. \A w \in Workers : /\ Alive(w)' => w = NewWorker
                         /\ ~Serving(w)'
  BY <1>2, Spawned, PhaseSet DEF Typed, Alive, Serving
<1>4. pc'[s] = "record" /\ pid'[s] = NewWorker
  <2>1. pid' = [pid EXCEPT ![s] = NewWorker] /\ Goto(s, "record")
    BY Spawned DEF Spawn
  <2> QED
    BY <2>1, Went DEF Typed, TypeOK
<1> QED
  BY <1>1, <1>3, <1>4 DEF Known, Handed, PortKnown

LEMMA KnownNext ==
  ASSUME OneScript, Typed, Known, [Next]_vars
  PROVE  Known'
<1>1. CASE Upgrade \/ PortTaken \/ PortReturned \/ UNCHANGED vars
  <2>1. UNCHANGED <<files, procs, scripts>>
    BY <1>1 DEF Upgrade, PortTaken, PortReturned, vars
  <2> QED
    BY <2>1 DEF Known, Handed, PortKnown, Serving, Alive, files, procs, scripts
<1> QED
  BY <1>1, KnownWork, KnownLook, KnownEnd, KnownSpawn DEF Next, Step

LEMMA KnownInit == Init => Known
BY DEF Init, Known, Handed, PortKnown, Serving, Alive

LEMMA AllKnown == OneScript => (Spec => [](Typed /\ Known))
<1> SUFFICES ASSUME OneScript PROVE Spec => [](Typed /\ Known)
  OBVIOUS
<1>1. Typed /\ Known /\ [Next]_vars => Known'
  BY KnownNext
<1> QED
  BY <1>1, KnownInit, Typing, PTL DEF Spec

(* When scripts do not overlap there is one worker at most, its files name *)
(* it, and no other is started while it lives: whatever is killed, shuts   *)
(* down late, loses the port or is upgraded.                               *)
THEOREM WorkerIsKnown == OneScript => (Spec => []OneWorkerKnown)
<1> SUFFICES ASSUME OneScript PROVE Spec => []OneWorkerKnown
  OBVIOUS
<1>1. Typed /\ Known => OneWorkerKnown
  <2> SUFFICES ASSUME Typed, Known PROVE MutexBoundary /\ Reachable
    BY DEF OneWorkerKnown, Typed
  <2>1. MutexBoundary
    BY DEF Known, Handed, MutexBoundary, Spawning
  <2>2. Reachable
    BY DEF OneScript, Known, Handed, PortKnown, Reachable, Settled
  <2> QED
    BY <2>1, <2>2
<1> QED
  BY <1>1, AllKnown, PTL

(* When scripts do not overlap, no worker is left where a stop ends.       *)
THEOREM StopEndsAll == OneScript => (Spec => StopLeavesNone)
<1> SUFFICES ASSUME OneScript PROVE Spec => StopLeavesNone
  OBVIOUS
<1> DEFINE Left ==
      \A s \in Scripts : pc[s] # "idle" /\ pc'[s] = "idle" /\ kind[s] \in Stops
        => \A w \in Workers : ~Alive(w)
<1>1. Typed /\ Known /\ [Next]_vars => [Left]_vars
  <2> SUFFICES ASSUME Typed, Known, Next, NEW s \in Scripts,
                      pc[s] # "idle", pc'[s] = "idle", kind[s] \in Stops,
                      NEW w \in Workers
               PROVE  ~Alive(w)
    OBVIOUS
  <2>1. Handed(s) /\ InKind(s) /\ TypeOK
    BY DEF Known, Typed
  <2>2. Step(s)
    <3>1. \A t \in Scripts : t = s
      BY DEF OneScript
    <3> QED
      BY <3>1 DEF Next, Begin, Work, WritePid, Listen, ListenThrew, WritePort, Unbind,
         Shutdown, Fault, Killed, Signalled, Upgrade, PortTaken, PortReturned, scripts
  <2> QED
    <3>1. CASE PidFileMissing(s)
      BY <2>1, <3>1, Bounds DEF PidFileMissing, Handed
    <3>2. CASE ReadPid(s)
      <4>1. pidFile = NoPid
        BY <2>1, <3>2, Went DEF ReadPid
      <4> QED
        BY <2>1, <3>2, <4>1, Bounds DEF ReadPid, Handed
    <3>3. CASE Term(s)
      <4>1. ~Alive(pid[s])
        BY <2>1, <3>3, Went DEF Term
      <4> QED
        BY <2>1, <3>3, <4>1 DEF Term, Handed
    <3>4. CASE Remove(s)
      BY <2>1, <3>4 DEF Remove, Handed
    <3>5. CASE VersionTaken(s) \/ RecordPid(s)
      BY <2>1, <3>5 DEF VersionTaken, RecordPid, InKind
    <3>6. CASE \/ PidFileExists(s) \/ Stale(s) \/ Running(s) \/ VersionDiffers(s)
               \/ KillForce(s) \/ Unlink(s) \/ StartBackground(s)
               \/ WritePortFirst(s) \/ Spawn(s)
      <4>1. \A label : label # "idle" => ~Goto(s, label)
        BY <2>1, Went
      <4> QED
        BY <3>6, <4>1 DEF PidFileExists, Stale, Running, VersionDiffers, KillForce, Unlink,
           StartBackground, WritePortFirst, Spawn
    <3> QED
      BY <2>2, <3>1, <3>2, <3>3, <3>4, <3>5, <3>6 DEF Step
<1> QED
  BY <1>1, AllKnown, PTL DEF Spec, StopLeavesNone

=============================================================================
