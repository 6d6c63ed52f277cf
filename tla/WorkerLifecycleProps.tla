------------------------ MODULE WorkerLifecycleProps -------------------------
(***************************************************************************)
(* What the scripts around the worker must keep true.                      *)
(***************************************************************************)
EXTENDS WorkerLifecycle

(* The variables have their types.                                         *)
TypeOK ==
  /\ installed \in Versions
  /\ pidFile \in Workers \cup {NoPid}
  /\ portFile \in BOOLEAN
  /\ phase \in [Workers -> {"dead", "spawned", "starting", "listening",
                            "serving", "closing", "draining"}]
  /\ version \in [Workers -> Versions]
  /\ pc \in [Scripts -> {"idle", "look", "cat", "probe", "ask", "term", "wait",
                         "remove", "unlink", "clean", "spawn", "record"}]
  /\ kind \in [Scripts -> Kinds]
  /\ root \in [Scripts -> Versions]
  /\ pid \in [Scripts -> Workers \cup {NoPid}]
  /\ \A s \in Scripts : pc[s] \in {"term", "wait", "record"} => pid[s] # NoPid
  /\ taken \in BOOLEAN
  /\ faults \in 0 .. MaxFaults

Spawning(s) == pc[s] \in {"spawn", "record"}

(* A worker is started only when no other one is active (worker-start.sh:  *)
(* "all new logic below this point runs only when no worker is active").   *)
MutexBoundary ==
  \A s \in Scripts : Spawning(s) => \A w \in Workers : Alive(w) => w = pid[s]

Settled == \A s \in Scripts : pc[s] = "idle"

(* A worker that lives can be found and stopped: worker.pid names it, and  *)
(* worker.port is there while it serves.  Neither a killed worker nor one  *)
(* that shuts down late takes the files of its successor.                  *)
Reachable ==
  Settled => \A w \in Workers : /\ Alive(w) => pidFile = w
                                /\ Serving(w) => portFile

(* One worker at most, and its files name it.                              *)
OneWorkerKnown == TypeOK /\ MutexBoundary /\ Reachable

(* When a stop ends, no worker is left.                                    *)
StopLeavesNone ==
  [][\A s \in Scripts :
       pc[s] # "idle" /\ pc'[s] = "idle" /\ kind[s] \in Stops
         => \A w \in Workers : ~Alive(w)]_vars

Stopping == \E s \in Scripts : pc[s] # "idle" /\ kind[s] \in Stops

(* With prompts going on, no stops and the port free, a worker of the      *)
(* installed version serves again and its port can be found, whatever was  *)
(* killed, could not listen or was upgraded before.                        *)
Recovers ==
  <>[](~Stopping /\ ~taken) =>
    []<>(portFile /\ \E w \in Workers : Serving(w) /\ version[w] = installed)

=============================================================================
