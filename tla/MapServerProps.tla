--------------------------- MODULE MapServerProps ---------------------------
(***************************************************************************)
(* What those who ask about a map may rely on.                             *)
(***************************************************************************)
EXTENDS MapServer

(* The variables have their types.                                         *)
TypeOK ==
  /\ server \in Servers
  /\ disk \in [Projects -> 1 .. MaxFiles \cup {NoFile}]
  /\ Len(rows) <= MaxFiles
  /\ \A i \in DOMAIN rows :
       rows[i] \in [repos : SUBSET Repos, scanned : BOOLEAN]
  /\ pool \subseteq Handle /\ \A e \in pool : e.file \in DOMAIN rows
  /\ list # NoList => list.value \subseteq Projects /\ list.age \in 0 .. ListTTL
  /\ sinceSweep \in 0 .. SweepEvery
  /\ unchanged \in 0 .. ListTTL

(* "A given DB file can have at most one QueryEngine, no matter which      *)
(* entry point opened it" (db/pool.js:9): root in any spelling, hash or    *)
(* name of a repository.                                                   *)
OneEngine == \A e, f \in pool : e.file = f.file => e = f

(* A handle nobody asks for is closed after IDLE_TTL_MS and one sweep, also *)
(* when the pool is searched for repositories all the time.                *)
IdleClosed == \A e \in pool : e.idle <= IdleTTL + SweepEvery

(* Asking again never prolongs the life of a cached list of projects: it   *)
(* is as old as the last change of the databases, or true.                 *)
ListFresh ==
  list # NoList /\ list.age < unchanged => list.value = ListProjectsInternal

(* What pool.js promises of its two caches: one open handle per file, none *)
(* kept for long without need, no list older than its time to live.        *)
PoolOK == TypeOK /\ OneEngine /\ IdleClosed /\ ListFresh

Denied(status) == status \in {"404", "503"}

(* The pooled handle of a project is of a file that was removed since.     *)
Outlived(p) == \E e \in pool : e.key = <<p>> /\ e.file # disk[p]

(* Who asks the worker by root or hash never gets a handle that the sweep  *)
(* has closed. If the project has a database and no handle has outlived    *)
(* the one before it, the present database answers, or opening it threw:   *)
(* it is told that there is none only if it threw, and that there is no    *)
(* scan only if the present one has none that completed.                   *)
MappedIsFound ==
  [][LET by == reply'.request.by
         p  == IF by.kind = "root" THEN by.root.path ELSE by.path
     IN  reply'.request.what \in Routes \ {"verify"} /\ by.kind # "none" =>
           /\ reply'.status = "500" =>
                reply'.request.what \in {"impact", "service"}
           /\ Exists(p) /\ ~Outlived(p) =>
                \/ reply'.threw
                \/ /\ reply'.file = disk[p]
                   /\ Denied(reply'.status) => ~rows[disk[p]].scanned]_vars

(* Who names a repository to a tool gets a database that has it, and       *)
(* no_scan_data only if none has, as long as no handle is open on a file   *)
(* that was removed.                                                       *)
NamedIsFound ==
  [][LET by == reply'.request.by
     IN  /\ reply'.request.what \in Tools /\ by.kind = "name"
         /\ \A e \in pool : \E p \in Projects : disk[p] = e.file
         => IF reply'.file # NoFile THEN HasRepo(reply'.file, by.name)
            ELSE reply'.threw \/ Holding(by.name) = {}]_vars

=============================================================================
