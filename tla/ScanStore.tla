------------------------------ MODULE ScanStore ------------------------------
(***************************************************************************)
(* The impact map and the one pipeline that writes it: persistScanResult   *)
(* (scan/scan-service.js) with the QueryEngine methods it calls            *)
(* (db/query-engine.js) and the operator overrides it applies              *)
(* (scan/overrides.js).                                                    *)
(*                                                                         *)
(* A table is a set of rows.  db is what is committed and tx the working   *)
(* copy of the one transaction SQLite lets write at a time.  A row id is   *)
(* opaque: it is the scan that inserted the row with the row's key, so a   *)
(* row deleted and inserted again has another id, as AUTOINCREMENT makes   *)
(* it.  A DELETE or REPLACE that would orphan a child row throws, because  *)
(* foreign keys are enforced.                                              *)
(*                                                                         *)
(* The satellites are the services that have rows in exposed_endpoints or  *)
(* actor_connections, which a scan wipes for its repository and inserts    *)
(* again from what it found.  A connection whose evidence is not in its    *)
(* file is not persisted: it counts as not reported.                       *)
(***************************************************************************)
EXTENDS Integers, Sequences, FiniteSets

CONSTANTS
  Repos,          \* linked repositories
  Names,          \* service names
  Files,          \* source files that define services
  NoPath,         \* the path of a clean-up that has selected none
  Routes,         \* (protocol, method, path) of a connection with both set
  NullRoute,      \* a connection whose method or path is NULL
  Findings,       \* what an agent may report of a repository
  Modes,          \* the scan modes in use, among "full" and "incremental"
  Scanners,       \* processes that persist scans of this project
  MaxScan,        \* bound on scan_versions.id
  MaxOverrides,   \* bound on the number of staged overrides
  MaxCrashes      \* bound on the number of killed processes

Found == [services : SUBSET [name : Names, file : Files],
          connections : SUBSET [source : Names, target : Names,
                                route : Routes \cup {NullRoute},
                                schema : BOOLEAN]]

NoWriter == "none"

ASSUME ConstantsAssumption ==
  /\ Repos # {}
  /\ NoWriter \notin Scanners
  /\ NoPath \notin Files
  /\ NullRoute \notin Routes
  /\ Findings \subseteq Found
  /\ \A f \in Findings :
       /\ IsFiniteSet(f.services)
       /\ \A a, b \in f.services : a.name = b.name => a = b
  /\ Modes \subseteq {"full", "incremental"}
  /\ MaxScan \in Nat
  /\ MaxOverrides \in Nat
  /\ MaxCrashes \in Nat

VARIABLES
  db,        \* the committed tables
  tx,        \* the tables as the open transaction sees them
  writer,    \* the process whose transaction is open, or NoWriter
  pc,        \* where each process is in persistScanResult
  scan,      \* the arguments of its call and the version it was given
  handled,   \* the overrides the open transaction has been through
  doomed,    \* the services whose connections the clean-up has yet to delete
  outcome,   \* how the process's last scan ended
  gone,      \* files that scans of a repository were told are gone
  crashes    \* killed processes so far

vars == <<db, tx, writer, pc, scan, handled, doomed, outcome, gone, crashes>>

-----------------------------------------------------------------------------

NoScan    == 0     \* a NULL scan_version_id
Abandoned == 1     \* a scan an older release began and never completed

ScanId    == Nat
ServiceId == [scan : ScanId, repo : Repos, name : Names]
Service   == [id : ServiceId, repo : Repos, name : Names, file : Files,
              scan : ScanId]

Edge       == [source : ServiceId, target : ServiceId,
               route : Routes \cup {NullRoute}]
Connection == [id : [scan : ScanId, edge : Edge], edge : Edge, scan : ScanId]

(* What /arcanon:correct stages: by connection id, or by the service id the *)
(* given name resolved to.                                                  *)
Override ==
  [action : {"delete"}, target : [scan : ScanId, edge : Edge], applied : ScanId]
  \cup
  [action : {"update"}, target : [scan : ScanId, edge : Edge], name : Names,
   applied : ScanId]
  \cup
  [action : {"rename"}, target : ServiceId, name : Names, applied : ScanId]
  \cup
  [action : {"set-base-path"}, target : ServiceId, applied : ScanId]

NoFindings == [services |-> {}, connections |-> {}]

NoCall == [repo |-> CHOOSE r \in Repos : TRUE, mode |-> "full",
           found |-> NoFindings, gone |-> {}, path |-> NoPath,
           version |-> NoScan]

Ids(rows) == {row.id : row \in rows}

ServicesOf(d, r) == {s \in d.services : s.repo = r}

(* Fault: the target is not looked at.                                     *)
Touching_SourceOnly(d, ids) == {c \in d.connections : c.edge.source \in ids}

Touching(d, ids) ==
  {c \in d.connections : c.edge.source \in ids \/ c.edge.target \in ids}

(* Deleting these connections would orphan schema rows.                    *)
HaveSchemas(d, conns) == Ids(conns) \cap d.schemas # {}

(* DELETE FROM services, with the cascades of its satellite tables.        *)
DropServices(d, rows) ==
  [d EXCEPT !.services = @ \ rows, !.satellites = @ \ Ids(rows)]

DropConnections(d, conns) == [d EXCEPT !.connections = @ \ conns]

-----------------------------------------------------------------------------
(* The statements of the write transaction, on the tables d.               *)

(* cleanupAbandonedScanVersions compares ISO timestamps as strings, so an  *)
(* abandoned scan goes when it is from an earlier day (aged), and only     *)
(* while no row refers to it.                                              *)
CleanupAbandoned(d, r, aged) ==
  LET used == \/ \E s \in d.services : s.scan = Abandoned
              \/ \E c \in d.connections : c.scan = Abandoned
  IN  [d EXCEPT !.abandoned = IF aged /\ ~used THEN @ \ {r} ELSE @]

(* beginScan inserts the scan_versions row.                                *)
NewVersion(d) == [d EXCEPT !.nextScan = @ + 1]

(* Fault: an incremental scan leaves the versions alone.                   *)
Restamp_Nothing(d, r, v) == d

(* _restampExistingRows: the rows of the latest completed scan move to v.  *)
Restamp(d, r, v) ==
  LET prev  == d.completed[r]
      local == Ids(ServicesOf(d, r))
  IN  IF prev = NoScan THEN d
      ELSE [d EXCEPT
        !.services = {IF s.repo = r /\ s.scan = prev
                      THEN [s EXCEPT !.scan = v] ELSE s : s \in @},
        !.connections = {IF c.edge.source \in local /\ c.scan = prev
                         THEN [c EXCEPT !.scan = v] ELSE c : c \in @}]

(* Fault: an existing row keeps its source_file.                           *)
Upserted_KeepsFile(d, r, v, f) ==
  LET same == {s \in ServicesOf(d, r) : s.name = f.name}
  IN  IF same = {}
      THEN [id |-> [scan |-> v, repo |-> r, name |-> f.name],
            repo |-> r, name |-> f.name, file |-> f.file, scan |-> v]
      ELSE [(CHOOSE s \in same : TRUE) EXCEPT !.scan = v]

(* Fault: source_file is not persisted.                                    *)
Upserted_NoFile(d, r, v, f) ==
  [id |-> [scan |-> v, repo |-> r, name |-> f.name],
   repo |-> r, name |-> f.name, file |-> NoPath, scan |-> v]

(* upsertService keeps the id of the row with this repository and name.    *)
Upserted(d, r, v, f) ==
  LET same == {s \in ServicesOf(d, r) : s.name = f.name}
  IN  [id |-> IF same = {} THEN [scan |-> v, repo |-> r, name |-> f.name]
              ELSE (CHOOSE s \in same : TRUE).id,
       repo |-> r, name |-> f.name, file |-> f.file, scan |-> v]

UpsertServices(d, r, v, found) ==
  [d EXCEPT !.services =
     {s \in @ : ~(s.repo = r /\ \E f \in found : f.name = s.name)}
       \cup {Upserted(d, r, v, f) : f \in found}]

(* _resolveServiceId: the repository's own service of that name, otherwise *)
(* the first row of that name in any repository.                           *)
Resolve(d, r, n) ==
  LET all   == {s \in d.services : s.name = n}
      local == {s \in all : s.repo = r}
  IN  IF local # {} THEN local
      ELSE {s \in all : \A t \in all : s.id.scan <= t.id.scan}

Edges(d, r, c) ==
  {[source |-> s.id, target |-> t.id, route |-> c.route] :
     s \in Resolve(d, r, c.source), t \in Resolve(d, r, c.target)}

EdgesOf(d, r, conns) == UNION {Edges(d, r, c) : c \in conns}

Inserted(v, edges) ==
  {[id |-> [scan |-> v, edge |-> e], edge |-> e, scan |-> v] : e \in edges}

(* INSERT OR REPLACE finds its row by the dedup index, which no NULL       *)
(* matches.                                                                *)
Replaced(d, edges) ==
  {c \in d.connections : c.edge \in edges /\ c.edge.route # NullRoute}

UpsertConnections(d, r, v, conns) ==
  LET edges == EdgesOf(d, r, conns)
      typed == EdgesOf(d, r, {c \in conns : c.schema})
  IN  [d EXCEPT !.connections = (@ \ Replaced(d, edges)) \cup Inserted(v, edges),
                !.schemas = @ \cup Ids(Inserted(v, typed))]

(* The satellite tables are wiped for the repository, whatever the mode.   *)
RefreshSatellites(d, r, found) ==
  LET named == {s \in ServicesOf(d, r) : \E f \in found : f.name = s.name}
  IN  [d EXCEPT !.satellites = (@ \ Ids(ServicesOf(d, r))) \cup Ids(named)]

(* The commit the scan looked at, known by the scan.                       *)
SetRepoState(d, r, v) == [d EXCEPT !.state[r] = v]

(* Fault: a row without a version is not stale.                            *)
Stale_SkipsNull(d, r, v) ==
  {s \in ServicesOf(d, r) : s.scan # v /\ s.scan # NoScan}

(* Fault: the stale rows of every repository go.                           *)
Stale_AnyRepo(d, r, v) == {s \in d.services : s.scan # v}

(* endScan: what did not get the new version is stale.                     *)
Stale(d, r, v) == {s \in ServicesOf(d, r) : s.scan # v}

DropStaleSchemas(d, r, v) ==
  LET local == Ids(ServicesOf(d, r))
  IN  [d EXCEPT !.schemas =
         @ \ Ids({c \in d.connections : c.edge.source \in local /\ c.scan # v})]

DropStaleRows(d, r, v) ==
  LET stale == Stale(d, r, v)
  IN  DropServices(DropConnections(d, Touching(d, Ids(stale))), stale)

(* One override: the tables it leaves.                                     *)
Rename(d, o) ==
  [d EXCEPT !.services = {IF s.id = o.target THEN [s EXCEPT !.name = o.name]
                          ELSE s : s \in @}]

(* An update from /arcanon:correct carries service names, not the ids that *)
(* _applyOne looks for, so it changes nothing.                             *)
Applied(d, o) ==
  CASE o.action = "delete" ->
         DropConnections(d, {c \in d.connections : c.id = o.target})
    [] o.action = "rename" -> Rename(d, o)
    [] OTHER -> d

(* The statement throws: a schema row refers to the connection, or the     *)
(* repository has another service of the new name.                         *)
OverrideThrows(d, o) ==
  \/ o.action = "delete" /\ o.target \in d.schemas
  \/ /\ o.action = "rename"
     /\ \E s, t \in d.services :
          s.id = o.target /\ t.id # o.target /\ t.repo = s.repo /\ t.name = o.name

Stamp(d, i, v) == [d EXCEPT !.overrides[i].applied = v]

(* Fault: overrides that were applied before are applied again.            *)
PendingOverrides_All(d) == 1 .. Len(d.overrides)

PendingOverrides(d) ==
  {i \in 1 .. Len(d.overrides) : d.overrides[i].applied = NoScan}

-----------------------------------------------------------------------------

EmptyDb ==
  [services |-> {}, connections |-> {}, schemas |-> {}, satellites |-> {},
   completed |-> [r \in Repos |-> NoScan], abandoned |-> {},
   nextScan |-> 2, overrides |-> <<>>, state |-> [r \in Repos |-> NoScan]]

(* A database an older release left may hold a service without a version,  *)
(* or one of a scan it began and never completed.                          *)
LegacyDb(r, n, f, v) ==
  [EmptyDb EXCEPT
    !.services = {[id |-> [scan |-> NoScan, repo |-> r, name |-> n],
                   repo |-> r, name |-> n, file |-> f, scan |-> v]},
    !.abandoned = IF v = Abandoned THEN {r} ELSE {}]

LegacyDbs ==
  {LegacyDb(r, n, f, v) :
     r \in Repos, n \in Names, f \in Files, v \in {NoScan, Abandoned}}

Init ==
  /\ db \in {EmptyDb} \cup LegacyDbs
  /\ tx = db
  /\ writer = NoWriter
  /\ pc = [p \in Scanners |-> "idle"]
  /\ scan = [p \in Scanners |-> NoCall]
  /\ handled = {}
  /\ doomed = [p \in Scanners |-> {}]
  /\ outcome = [p \in Scanners |-> "none"]
  /\ gone = [r \in Repos |-> {}]
  /\ crashes = 0

Goto(p, label) == pc' = [pc EXCEPT ![p] = label]

(* Files are told gone only to an incremental scan, whatever its agent     *)
(* reports of them.                                                        *)
MayBeGone(mode) == IF mode = "full" THEN {{}} ELSE SUBSET Files

(* Fault: a full scan re-stamps too.                                       *)
BeginScan_AlwaysRestamps(p, r, mode, found, lost) ==
  /\ pc[p] = "idle"
  /\ writer = NoWriter
  /\ db.nextScan <= MaxScan
  /\ lost \in MayBeGone(mode)
  /\ scan' = [scan EXCEPT ![p] =
       [repo |-> r, mode |-> mode, found |-> found, gone |-> lost,
        path |-> NoPath, version |-> db.nextScan]]
  /\ tx' = Restamp(NewVersion(db), r, db.nextScan)
  /\ writer' = p
  /\ handled' = {}
  /\ Goto(p, "begun")
  /\ UNCHANGED <<db, doomed, outcome, gone, crashes>>

(* persistScanResult opens the transaction: beginScan and the re-stamp.    *)
BeginScan(p, r, mode, found, lost) ==
  /\ pc[p] = "idle"
  /\ writer = NoWriter
  /\ db.nextScan <= MaxScan
  /\ lost \in MayBeGone(mode)
  /\ scan' = [scan EXCEPT ![p] =
       [repo |-> r, mode |-> mode, found |-> found, gone |-> lost,
        path |-> NoPath, version |-> db.nextScan]]
  /\ \E aged \in BOOLEAN :
       LET d == NewVersion(CleanupAbandoned(db, r, aged))
       IN  tx' = IF mode = "incremental" THEN Restamp(d, r, db.nextScan) ELSE d
  /\ writer' = p
  /\ handled' = {}
  /\ Goto(p, "begun")
  /\ UNCHANGED <<db, doomed, outcome, gone, crashes>>

(* ROLLBACK: the working copy is forgotten.                                *)
Rollback ==
  /\ writer' = NoWriter
  /\ tx' = db
  /\ handled' = {}
  /\ UNCHANGED <<db, gone>>

Failed(p) ==
  /\ Goto(p, "idle")
  /\ outcome' = [outcome EXCEPT ![p] = "failed"]

(* persistFindings, with the commit recorded in repo_state.                *)
PersistFindings(p) ==
  /\ pc[p] = "begun"
  /\ LET r == scan[p].repo
         v == scan[p].version
         f == scan[p].found
         d == UpsertServices(tx, r, v, f.services)
     IN  /\ ~HaveSchemas(d, Replaced(d, EdgesOf(d, r, f.connections)))
         /\ tx' = SetRepoState(
                     RefreshSatellites(UpsertConnections(d, r, v, f.connections),
                                       r, f.services), r, v)
  /\ Goto(p, "persisted")
  /\ UNCHANGED <<db, writer, scan, handled, doomed, outcome, gone, crashes>>

(* INSERT OR REPLACE of a connection that has schema rows throws.          *)
PersistThrew(p) ==
  /\ pc[p] = "begun"
  /\ LET r == scan[p].repo
         d == UpsertServices(tx, r, scan[p].version, scan[p].found.services)
     IN  HaveSchemas(d, Replaced(d, EdgesOf(d, r, scan[p].found.connections)))
  /\ Rollback
  /\ Failed(p)
  /\ UNCHANGED <<scan, doomed, crashes>>

(* Fault: an override that throws is stamped.                              *)
ApplyOverride_StampsAnyway(p) ==
  /\ pc[p] = "persisted"
  /\ \E i \in PendingOverrides(tx) \ handled :
       /\ \A j \in PendingOverrides(tx) \ handled : i <= j
       /\ handled' = handled \cup {i}
       /\ LET o == tx.overrides[i]
          IN  tx' = Stamp(IF OverrideThrows(tx, o) THEN tx ELSE Applied(tx, o),
                          i, scan[p].version)
  /\ UNCHANGED <<db, writer, pc, scan, doomed, outcome, gone, crashes>>

(* applyPendingOverridesSync takes the next one, of whatever repository.   *)
(* One that throws stays pending; one that finds no row is stamped.        *)
ApplyOverride(p) ==
  /\ pc[p] = "persisted"
  /\ \E i \in PendingOverrides(tx) \ handled :
       /\ \A j \in PendingOverrides(tx) \ handled : i <= j
       /\ handled' = handled \cup {i}
       /\ LET o == tx.overrides[i]
          IN  tx' = IF OverrideThrows(tx, o) THEN tx
                    ELSE Stamp(Applied(tx, o), i, scan[p].version)
  /\ UNCHANGED <<db, writer, pc, scan, doomed, outcome, gone, crashes>>

OverridesDone == PendingOverrides(tx) \subseteq handled

Closed(p) == DropStaleSchemas(tx, scan[p].repo, scan[p].version)

StaleHaveSchemas(p) ==
  HaveSchemas(Closed(p),
    Touching(tx, Ids(Stale(tx, scan[p].repo, scan[p].version))))

(* endScan and COMMIT.                                                     *)
EndScan(p) ==
  /\ pc[p] = "persisted"
  /\ OverridesDone
  /\ ~StaleHaveSchemas(p)
  /\ LET r == scan[p].repo
         v == scan[p].version
         d == [DropStaleRows(Closed(p), r, v) EXCEPT !.completed[r] = v]
     IN  /\ db' = d
         /\ tx' = d
         /\ gone' = [gone EXCEPT ![r] =
              (@ \ {f.file : f \in scan[p].found.services}) \cup scan[p].gone]
  /\ writer' = NoWriter
  /\ handled' = {}
  /\ Goto(p, "cleaning")
  /\ UNCHANGED <<scan, doomed, outcome, crashes>>

(* A connection of another repository into a stale service has schemas.    *)
EndScanThrew(p) ==
  /\ pc[p] = "persisted"
  /\ OverridesDone
  /\ StaleHaveSchemas(p)
  /\ Rollback
  /\ Failed(p)
  /\ UNCHANGED <<scan, doomed, crashes>>

-----------------------------------------------------------------------------
(* _deleteDeletedFileFindings, after the commit: each statement commits    *)
(* by itself and other processes' transactions come in between.            *)

Commit(d) == db' = d /\ tx' = d

DoomedBy(p, f) == {s \in ServicesOf(db, scan[p].repo) : s.file = f}

(* SELECT the services of the next path that is gone.                      *)
SelectGone(p) ==
  /\ pc[p] = "cleaning"
  /\ \E f \in scan[p].gone :
       /\ scan' = [scan EXCEPT ![p].gone = @ \ {f}, ![p].path = f]
       /\ doomed' = [doomed EXCEPT ![p] = Ids(DoomedBy(p, f))]
  /\ Goto(p, "dropping")
  /\ UNCHANGED <<db, tx, writer, handled, outcome, gone, crashes>>

(* DELETE the connections of one of them.                                  *)
DropConnectionsOf(p) ==
  /\ pc[p] = "dropping"
  /\ writer = NoWriter
  /\ \E id \in doomed[p] :
       /\ ~HaveSchemas(db, Touching(db, {id}))
       /\ Commit(DropConnections(db, Touching(db, {id})))
       /\ doomed' = [doomed EXCEPT ![p] = @ \ {id}]
  /\ UNCHANGED <<writer, pc, scan, handled, outcome, gone, crashes>>

(* DELETE the services, those that now have the path.                      *)
DropServicesOf(p) ==
  /\ pc[p] = "dropping"
  /\ writer = NoWriter
  /\ doomed[p] = {}
  /\ Touching(db, Ids(DoomedBy(p, scan[p].path))) = {}
  /\ Commit(DropServices(db, DoomedBy(p, scan[p].path)))
  /\ Goto(p, "cleaning")
  /\ UNCHANGED <<writer, scan, handled, doomed, outcome, gone, crashes>>

(* A DELETE throws, on a foreign key or because another process kept the   *)
(* write lock: the call fails although its transaction is committed.       *)
CleanUpThrew(p) ==
  /\ pc[p] = "dropping"
  /\ \/ writer # NoWriter
     \/ \E id \in doomed[p] : HaveSchemas(db, Touching(db, {id}))
     \/ /\ doomed[p] = {}
        /\ Touching(db, Ids(DoomedBy(p, scan[p].path))) # {}
  /\ doomed' = [doomed EXCEPT ![p] = {}]
  /\ Failed(p)
  /\ UNCHANGED <<db, tx, writer, scan, handled, gone, crashes>>

(* Fault: it returns without the clean-up.                                 *)
Return_Early(p) ==
  /\ pc[p] = "cleaning"
  /\ outcome' = [outcome EXCEPT ![p] = "saved"]
  /\ Goto(p, "idle")
  /\ UNCHANGED <<db, tx, writer, scan, handled, doomed, gone, crashes>>

(* persistScanResult returns the version.                                  *)
Return(p) ==
  /\ pc[p] = "cleaning"
  /\ scan[p].gone = {}
  /\ outcome' = [outcome EXCEPT ![p] = "saved"]
  /\ Goto(p, "idle")
  /\ UNCHANGED <<db, tx, writer, scan, handled, doomed, gone, crashes>>

-----------------------------------------------------------------------------

(* What /arcanon:correct may insert.  An update names the new target.      *)
Staged ==
  [action : {"delete"}, target : Ids(db.connections), applied : {NoScan}]
  \cup
  [action : {"update"}, target : Ids(db.connections), name : Names,
   applied : {NoScan}]
  \cup
  [action : {"rename"}, target : Ids(db.services), name : Names,
   applied : {NoScan}]
  \cup
  [action : {"set-base-path"}, target : Ids(db.services), applied : {NoScan}]

(* resolveServiceTarget refuses a name that several repositories use.      *)
Unambiguous(o) ==
  o.target \in Ids(db.services) =>
    \A s, t \in db.services : s.id = o.target /\ t.name = s.name => t = s

Correct(o) ==
  /\ writer = NoWriter
  /\ Len(db.overrides) < MaxOverrides
  /\ Unambiguous(o)
  /\ Commit([db EXCEPT !.overrides = Append(@, o)])
  /\ UNCHANGED <<writer, pc, scan, handled, doomed, outcome, gone, crashes>>

(* The process is killed; SQLite rolls its open transaction back.          *)
Crash(p) ==
  /\ pc[p] # "idle"
  /\ crashes < MaxCrashes
  /\ crashes' = crashes + 1
  /\ IF writer = p THEN writer' = NoWriter /\ tx' = db /\ handled' = {}
     ELSE UNCHANGED <<writer, tx, handled>>
  /\ doomed' = [doomed EXCEPT ![p] = {}]
  /\ outcome' = [outcome EXCEPT ![p] = "none"]
  /\ Goto(p, "idle")
  /\ UNCHANGED <<db, scan, gone>>

Transaction(p) ==
  \/ PersistFindings(p)
  \/ PersistThrew(p)
  \/ ApplyOverride(p)
  \/ EndScan(p)
  \/ EndScanThrew(p)

CleanUp(p) ==
  \/ SelectGone(p)
  \/ DropConnectionsOf(p)
  \/ DropServicesOf(p)
  \/ CleanUpThrew(p)
  \/ Return(p)

Next ==
  \/ \E p \in Scanners :
       \/ \E r \in Repos, mode \in Modes, f \in Findings, lost \in SUBSET Files :
            BeginScan(p, r, mode, f, lost)
       \/ Transaction(p)
       \/ CleanUp(p)
       \/ Crash(p)
  \/ \E o \in Staged : Correct(o)

Spec == Init /\ [][Next]_vars

=============================================================================
