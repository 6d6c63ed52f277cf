--------------------------- MODULE WorkerLifecycle ---------------------------
(***************************************************************************)
(* The background worker and the scripts that start, replace and stop it.  *)
(* They share two files: worker.pid names the worker, worker.port says     *)
(* where it listens.  All use one port, so one worker at a time can listen *)
(* and another one that tries ends.                                        *)
(*                                                                         *)
(* A script is a run of the prompt hook (session-start.sh, which calls     *)
(* restart_worker_if_stale), of worker-start.sh, of worker-stop.sh, or of  *)
(* update.sh --kill.  A step is one access to a file or a process.  A PID  *)
(* is that of one process for as long as a file or a script remembers it.  *)
(***************************************************************************)
EXTENDS Naturals

CONSTANTS
  Scripts,        \* scripts that run at the same time, at most
  Workers,        \* process ids for workers
  MaxVersion,     \* bound on the versions of the plugin that get installed
  MaxFaults       \* bound on what others do to the workers and the port

ASSUME ConstantsAssumption ==
  /\ "no pid" \notin Workers
  /\ MaxVersion \in Nat \ {0}
  /\ MaxFaults \in Nat

VARIABLES
  installed,   \* the version in package.json
  pidFile,     \* worker.pid: a process id, or NoPid when there is no file
  portFile,    \* worker.port exists
  phase,       \* of each process
  version,     \* the version each process was started from
  pc,          \* where each script is
  kind,        \* what it runs
  root,        \* the version it was installed with
  pid,         \* the process id it read, or got when it started a worker
  taken,       \* another program listens on the port
  faults       \* what others have done so far

procs   == <<phase, version>>
files   == <<pidFile, portFile>>
scripts == <<pc, kind, root, pid>>
vars    == <<installed, files, procs, scripts, taken, faults>>

NoPid == "no pid"

Versions == 1 .. MaxVersion

Alive(w) == w \in Workers /\ phase[w] # "dead"

(* Who has the port.                                                       *)
Bound(w) == phase[w] \in {"listening", "serving", "closing"}

PortFree == ~taken /\ ~ \E w \in Workers : Bound(w)

Serving(w) == phase[w] = "serving"

Init ==
  /\ installed = 1
  /\ pidFile = NoPid
  /\ portFile = FALSE
  /\ phase = [w \in Workers |-> "dead"]
  /\ version = [w \in Workers |-> 1]
  /\ pc = [s \in Scripts |-> "idle"]
  /\ kind = [s \in Scripts |-> "prompt"]
  /\ root = [s \in Scripts |-> 1]
  /\ pid = [s \in Scripts |-> NoPid]
  /\ taken = FALSE
  /\ faults = 0

SetPhase(w, ph) == phase' = [phase EXCEPT ![w] = ph]

Goto(s, label) == pc' = [pc EXCEPT ![s] = label]

(* The script ends; its variables go with it.                              *)
Exit(s) ==
  /\ Goto(s, "idle")
  /\ pid' = [pid EXCEPT ![s] = NoPid]
  /\ kind' = [kind EXCEPT ![s] = "prompt"]
  /\ root' = [root EXCEPT ![s] = 1]

-----------------------------------------------------------------------------
(* The worker, index.js.                                                   *)

WritePid(w) ==
  /\ phase[w] = "spawned"
  /\ pidFile' = w
  /\ SetPhase(w, "starting")
  /\ UNCHANGED <<installed, portFile, version, scripts, taken, faults>>

Listen(w) ==
  /\ phase[w] = "starting"
  /\ PortFree
  /\ SetPhase(w, "listening")
  /\ UNCHANGED <<installed, files, version, scripts, taken, faults>>

(* EADDRINUSE: the import fails, the process ends, its PID stays behind.   *)
ListenThrew(w) ==
  /\ phase[w] = "starting"
  /\ ~PortFree
  /\ SetPhase(w, "dead")
  /\ UNCHANGED <<installed, files, version, scripts, taken, faults>>

(* The port file, and handlers for the signals from now on.                *)
WritePort(w) ==
  /\ phase[w] = "listening"
  /\ portFile' = TRUE
  /\ SetPhase(w, "serving")
  /\ UNCHANGED <<installed, pidFile, version, scripts, taken, faults>>

(* What SIGTERM leads to: before there is a handler, the end.              *)
Terminated(w) ==
  CASE phase[w] = "serving" -> "closing"
    [] phase[w] \in {"closing", "draining"} -> phase[w]
    [] OTHER -> "dead"

(* app.close: requests are turned away, then the port is free.             *)
Unbind(w) ==
  /\ phase[w] = "closing"
  /\ SetPhase(w, "draining")
  /\ UNCHANGED <<installed, files, version, scripts, taken, faults>>

(* The last request has ended: both files go, whoever they belong to.      *)
Shutdown(w) ==
  /\ phase[w] = "draining"
  /\ pidFile' = NoPid
  /\ portFile' = FALSE
  /\ SetPhase(w, "dead")
  /\ UNCHANGED <<installed, version, scripts, taken, faults>>

Killed(w) ==
  /\ Alive(w)
  /\ faults < MaxFaults
  /\ faults' = faults + 1
  /\ SetPhase(w, "dead")
  /\ UNCHANGED <<installed, files, version, scripts, taken>>

(* SIGTERM, SIGINT or SIGHUP of somebody else.                             *)
Signalled(w) ==
  /\ Alive(w)
  /\ faults < MaxFaults
  /\ faults' = faults + 1
  /\ SetPhase(w, Terminated(w))
  /\ UNCHANGED <<installed, files, version, scripts, taken>>

(* Another program takes the port for a while.                             *)
PortTaken ==
  /\ PortFree
  /\ faults < MaxFaults
  /\ faults' = faults + 1
  /\ taken' = TRUE
  /\ UNCHANGED <<installed, files, procs, scripts>>

PortReturned ==
  /\ taken
  /\ taken' = FALSE
  /\ UNCHANGED <<installed, files, procs, scripts, faults>>

(* A new version of the plugin is installed.                               *)
Upgrade ==
  /\ installed < MaxVersion
  /\ installed' = installed + 1
  /\ UNCHANGED <<files, procs, scripts, taken, faults>>

-----------------------------------------------------------------------------
(* A script looks for the worker: should_restart_worker, and the first     *)
(* lines of worker-stop.sh and of update.sh --kill.                        *)

Stops == {"stop", "kill"}
Kinds == {"prompt", "start"} \cup Stops

Begin(s) ==
  /\ pc[s] = "idle"
  /\ \E k \in Kinds : kind' = [kind EXCEPT ![s] = k]
  /\ root' = [root EXCEPT ![s] = installed]
  /\ Goto(s, "look")
  /\ UNCHANGED <<installed, files, procs, pid, taken, faults>>

(* [[ -f worker.pid ]]                                                     *)
PidFileMissing(s) ==
  /\ pc[s] = "look"
  /\ pidFile = NoPid
  /\ IF kind[s] \in Stops THEN Exit(s)
     ELSE Goto(s, "clean") /\ UNCHANGED <<pid, kind, root>>
  /\ UNCHANGED <<installed, files, procs, taken, faults>>

PidFileExists(s) ==
  /\ pc[s] = "look"
  /\ pidFile # NoPid
  /\ Goto(s, "cat")
  /\ UNCHANGED <<installed, files, procs, kind, root, pid, taken, faults>>

(* The file may be gone by now: worker-stop.sh gives up.                   *)
ReadPid(s) ==
  /\ pc[s] = "cat"
  /\ IF pidFile = NoPid /\ kind[s] = "stop" THEN Exit(s)
     ELSE /\ pid' = [pid EXCEPT ![s] = pidFile]
          /\ Goto(s, "probe")
          /\ UNCHANGED <<kind, root>>
  /\ UNCHANGED <<installed, files, procs, taken, faults>>

(* Fault: a PID in the file is taken for a running worker.                 *)
Stale_Trusted(s) ==
  /\ pc[s] = "probe"
  /\ ~Alive(pid[s])
  /\ Goto(s, IF kind[s] \in Stops THEN "remove" ELSE "ask")
  /\ UNCHANGED <<installed, files, procs, kind, root, pid, taken, faults>>

(* kill -0 fails.                                                          *)
Stale(s) ==
  /\ pc[s] = "probe"
  /\ ~Alive(pid[s])
  /\ Goto(s, IF kind[s] \in Stops THEN "remove" ELSE "unlink")
  /\ UNCHANGED <<installed, files, procs, kind, root, pid, taken, faults>>

Running(s) ==
  /\ pc[s] = "probe"
  /\ Alive(pid[s])
  /\ Goto(s, IF kind[s] \in Stops THEN "term" ELSE "ask")
  /\ UNCHANGED <<installed, files, procs, kind, root, pid, taken, faults>>

(* Fault: no answer is taken for another version.                          *)
Mismatch_NoAnswer(s) ==
  ~ \E w \in Workers : Serving(w) /\ portFile /\ version[w] = root[s]

(* Fault: an older worker is good enough.                                  *)
Mismatch_OnlyNewer(s) ==
  \E w \in Workers : Serving(w) /\ portFile /\ version[w] > root[s]

(* GET /api/version on the port in the file is answered by whoever listens *)
(* there.                                                                  *)
Mismatch(s) == \E w \in Workers : Serving(w) /\ portFile /\ version[w] # root[s]

VersionDiffers(s) ==
  /\ pc[s] = "ask"
  /\ Mismatch(s)
  /\ Goto(s, "term")
  /\ UNCHANGED <<installed, files, procs, kind, root, pid, taken, faults>>

(* The same version, or no answer within a second.                         *)
VersionTaken(s) ==
  /\ pc[s] = "ask"
  /\ Exit(s)
  /\ UNCHANGED <<installed, files, procs, taken, faults>>

-----------------------------------------------------------------------------
(* It ends the process it has read of.                                     *)

(* Fault: it does not wait for the process to end.                         *)
Term_NoWait(s) ==
  /\ pc[s] = "term"
  /\ IF Alive(pid[s])
     THEN SetPhase(pid[s], Terminated(pid[s])) ELSE UNCHANGED phase
  /\ Goto(s, "remove")
  /\ UNCHANGED <<installed, files, version, kind, root, pid, taken, faults>>

(* kill.  On a process that has just ended it fails: worker-stop.sh gives  *)
(* up, the others go on.                                                   *)
Term(s) ==
  /\ pc[s] = "term"
  /\ IF Alive(pid[s])
     THEN SetPhase(pid[s], Terminated(pid[s])) ELSE UNCHANGED phase
  /\ IF ~Alive(pid[s]) /\ kind[s] = "stop" THEN Exit(s)
     ELSE Goto(s, "wait") /\ UNCHANGED <<kind, root, pid>>
  /\ UNCHANGED <<installed, files, version, taken, faults>>

(* Fault: it waits, and no more.                                           *)
KillForce_Never(s) ==
  /\ pc[s] = "wait"
  /\ Goto(s, "remove")
  /\ UNCHANGED <<installed, files, procs, kind, root, pid, taken, faults>>

(* It has ended, or is made to: after one second, or five.                 *)
KillForce(s) ==
  /\ pc[s] = "wait"
  /\ IF Alive(pid[s]) THEN SetPhase(pid[s], "dead") ELSE UNCHANGED phase
  /\ Goto(s, "remove")
  /\ UNCHANGED <<installed, files, version, kind, root, pid, taken, faults>>

(* rm -f of both files.                                                    *)
Remove(s) ==
  /\ pc[s] = "remove"
  /\ pidFile' = NoPid
  /\ portFile' = FALSE
  /\ IF kind[s] \in Stops THEN Exit(s)
     ELSE Goto(s, "clean") /\ UNCHANGED <<kind, root, pid>>
  /\ UNCHANGED <<installed, procs, taken, faults>>

(* rm -f of a stale worker.pid.                                            *)
Unlink(s) ==
  /\ pc[s] = "unlink"
  /\ pidFile' = NoPid
  /\ Goto(s, "clean")
  /\ UNCHANGED <<installed, portFile, procs, kind, root, pid, taken, faults>>

-----------------------------------------------------------------------------
(* It starts a worker.                                                     *)

(* Fault: the hook runs itself again.                                      *)
StartBackground_Again(s) ==
  /\ pc[s] = "clean"
  /\ kind[s] = "prompt"
  /\ pid' = [pid EXCEPT ![s] = NoPid]
  /\ Goto(s, "look")
  /\ UNCHANGED <<installed, files, procs, kind, root, taken, faults>>

(* The prompt hook runs worker-start.sh, which looks again.                *)
StartBackground(s) ==
  /\ pc[s] = "clean"
  /\ kind[s] = "prompt"
  /\ kind' = [kind EXCEPT ![s] = "start"]
  /\ pid' = [pid EXCEPT ![s] = NoPid]
  /\ Goto(s, "look")
  /\ UNCHANGED <<installed, files, procs, root, taken, faults>>

WritePortFirst(s) ==
  /\ pc[s] = "clean"
  /\ kind[s] = "start"
  /\ portFile' = TRUE
  /\ pid' = [pid EXCEPT ![s] = NoPid]
  /\ Goto(s, "spawn")
  /\ UNCHANGED <<installed, pidFile, procs, kind, root, taken, faults>>

Free(w) == ~Alive(w) /\ w # pidFile /\ \A s \in Scripts : w # pid[s]

(* Fault: the process id of the worker is not kept.                        *)
Spawn_NoPid(s) ==
  /\ pc[s] = "spawn"
  /\ \E w \in Workers : Free(w)
  /\ LET w == CHOOSE x \in Workers : Free(x)
     IN  /\ SetPhase(w, "spawned")
         /\ version' = [version EXCEPT ![w] = root[s]]
  /\ Goto(s, "record")
  /\ UNCHANGED <<installed, files, kind, root, pid, taken, faults>>

(* The system gives out a process id that nobody remembers.                *)
Spawn(s) ==
  /\ pc[s] = "spawn"
  /\ \E w \in Workers : Free(w)
  /\ LET w == CHOOSE x \in Workers : Free(x)
     IN  /\ SetPhase(w, "spawned")
         /\ version' = [version EXCEPT ![w] = root[s]]
         /\ pid' = [pid EXCEPT ![s] = w]
  /\ Goto(s, "record")
  /\ UNCHANGED <<installed, files, kind, root, taken, faults>>

(* echo $! > worker.pid, which the worker writes too.                      *)
RecordPid(s) ==
  /\ pc[s] = "record"
  /\ pidFile' = pid[s]
  /\ Exit(s)
  /\ UNCHANGED <<installed, portFile, procs, taken, faults>>

-----------------------------------------------------------------------------

Step(s) ==
  \/ PidFileMissing(s) \/ PidFileExists(s) \/ ReadPid(s)
  \/ Stale(s) \/ Running(s)
  \/ VersionDiffers(s) \/ VersionTaken(s)
  \/ Term(s) \/ KillForce(s) \/ Remove(s) \/ Unlink(s)
  \/ StartBackground(s) \/ WritePortFirst(s) \/ Spawn(s) \/ RecordPid(s)

Work(w) ==
  \/ WritePid(w) \/ Listen(w) \/ ListenThrew(w) \/ WritePort(w)
  \/ Unbind(w) \/ Shutdown(w)

Fault(w) == Killed(w) \/ Signalled(w)

Next ==
  \/ \E s \in Scripts : Begin(s) \/ Step(s)
  \/ \E w \in Workers : Work(w) \/ Fault(w)
  \/ Upgrade
  \/ PortTaken \/ PortReturned

Spec == Init /\ [][Next]_vars

(* Scripts and workers go on, and requests end.  The prompt hook runs with *)
(* every prompt.  A worker that serves does not let every question for its *)
(* version time out.                                                       *)
Fairness ==
  /\ \A s \in Scripts :
       WF_vars(Begin(s)) /\ WF_vars(Step(s)) /\ SF_vars(VersionDiffers(s))
  /\ \A w \in Workers : WF_vars(Work(w))

FairSpec == Spec /\ Fairness

=============================================================================
