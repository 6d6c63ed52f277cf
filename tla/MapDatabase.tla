----------------------------- MODULE MapDatabase -----------------------------
(***************************************************************************)
(* Opening the map database of a project (db/database.js) and bringing it  *)
(* up to date (db/migrations/): a process loads the migrations, opens the  *)
(* file, reads the version it is at and applies what is missing, each      *)
(* migration in a transaction of its own.  Several processes do so at      *)
(* once, and any of them may be killed between two transactions.           *)
(*                                                                         *)
(* Of the schema the model has what each migration adds, as names; of the  *)
(* rows what the five migrations that rewrite rows tell apart.             *)
(***************************************************************************)
EXTENDS Integers, FiniteSets, FiniteSetsExt

CONSTANTS
  Openers,        \* processes that open the database
  Legacy,         \* the databases that older releases may have left
  Unloadable,     \* which migrations may fail to load in a process
  NullMethod,     \* the method of an endpoint that has none
  NullRoute,      \* protocol, method and path of a connection that lacks one
  NoSymbol,       \* source_symbol is NULL
  MaxCrashes      \* bound on the number of killed processes

VARIABLES
  db,             \* the committed database
  pc,             \* where each opener is
  loaded,         \* the migrations its process has loaded
  seen,           \* the version it has read
  crashes         \* killed processes so far

vars == <<db, pc, loaded, seen, crashes>>

-----------------------------------------------------------------------------
(* What a migration does to the schema: it adds what must not be there     *)
(* yet, or the statement throws, and ensures what may be there already.    *)

Adds(names)         == [adds |-> names, ensures |-> {}]
Ensures(names)      == [adds |-> {}, ensures |-> names]
AddsToo(new, names) == [adds |-> new, ensures |-> names]

InitialSchema ==
  Ensures({"repos", "services", "connections", "schemas", "fields",
           "map_versions", "repo_state", "connections_fts", "services_fts",
           "fields_fts"})
ServiceType        == Adds({"services.type"})
ExposedEndpoints   == Ensures({"exposed_endpoints"})
DedupConstraints   == Adds({"uq_services_repo_name", "services.canonical_name"})
ScanVersions       == AddsToo({"services.scan_version_id",
                               "connections.scan_version_id"},
                              {"scan_versions"})
DedupRepos         == Adds({"uq_repos_path"})
ExposeKind         == Adds({"exposed_endpoints.kind", "uq_exposed_endpoints"})
ActorsMetadata     == Ensures({"connections.crossing", "actors",
                               "actor_connections", "node_metadata"})
Confidence         == Ensures({"connections.confidence", "connections.evidence",
                               "services.owner", "services.auth_mechanism",
                               "services.db_backend", "schemas.scan_version_id",
                               "fields.scan_version_id"})
Dependencies       == Ensures({"service_dependencies"})
BoundaryEntry      == Ensures({"services.boundary_entry"})
PathTemplate       == Ensures({"connections.path_template",
                               "uq_connections_dedup"})
BasePath           == Ensures({"services.base_path"})
QualityScore       == Ensures({"scan_versions.quality_score"})
EnrichmentLog      == Ensures({"enrichment_log"})
ScanOverrides      == Ensures({"scan_overrides"})
ActorsLabel        == Ensures({"actors.label"})
ProtocolRaw        == Ensures({"connections.protocol_raw"})
ActorProtocolRaw   == Ensures({"actor_connections.protocol_raw"})
KindRepos          == Ensures({"map_versions.kind", "map_versions.repos_json"})
Symbols            == Ensures({"connections.source_symbol",
                               "connections.target_symbol"})
SourceFile         == Ensures({"services.source_file"})
PerfIndexes        == Ensures({"idx_connections_target_service_id",
                               "idx_connections_scan_version_id",
                               "idx_services_scan_version_id"})

(* There is no migration 12.                                               *)
Versions == (1 .. 24) \ {12}

Change(v) ==
  CASE v = 1  -> InitialSchema     [] v = 2  -> ServiceType
    [] v = 3  -> ExposedEndpoints  [] v = 4  -> DedupConstraints
    [] v = 5  -> ScanVersions      [] v = 6  -> DedupRepos
    [] v = 7  -> ExposeKind        [] v = 8  -> ActorsMetadata
    [] v = 9  -> Confidence        [] v = 10 -> Dependencies
    [] v = 11 -> BoundaryEntry     [] v = 13 -> PathTemplate
    [] v = 14 -> BasePath          [] v = 15 -> QualityScore
    [] v = 16 -> EnrichmentLog     [] v = 17 -> ScanOverrides
    [] v = 18 -> ActorsLabel       [] v = 19 -> ProtocolRaw
    [] v = 20 -> ActorProtocolRaw  [] v = 21 -> KindRepos
    [] v = 22 -> Symbols           [] v = 23 -> SourceFile
    [] v = 24 -> PerfIndexes

NamesOf(v) == Change(v).adds \cup Change(v).ensures

-----------------------------------------------------------------------------
(* The rows.  Of duplicates the row with the largest id survives, and what *)
(* points to the others is made to point to it.                            *)

Same(r, q, columns) == \A f \in columns : r[f] = q[f]

Survivor(rows, columns, id) ==
  LET row == CHOOSE r \in rows : r.id = id
  IN  Max({r.id : r \in {x \in rows : Same(x, row, columns)}})

ServiceKey == {"repo", "name"}
PathKey    == {"path"}
EdgeKey    == {"source", "target", "route"}

(* The second half of 006 repeats what 004 does.                           *)
DedupServices_KeepsEndpoints(d) ==
  LET To(id) == Survivor(d.services, ServiceKey, id)
  IN  [d EXCEPT
        !.services    = {s \in @ : s.id = To(s.id)},
        !.connections = {[c EXCEPT !.source = To(@), !.target = To(@)] : c \in @},
        !.endpoints   = {e \in @ : e.service = To(e.service)}]

DedupServices(d) ==
  LET To(id) == Survivor(d.services, ServiceKey, id)
  IN  [d EXCEPT
        !.services    = {s \in @ : s.id = To(s.id)},
        !.connections = {[c EXCEPT !.source = To(@), !.target = To(@)] : c \in @},
        !.endpoints   = {[e EXCEPT !.service = To(@)] : e \in @}]

MergeRepos(d) ==
  LET To(id) == Survivor(d.repos, PathKey, id)
  IN  [d EXCEPT
        !.services = {[s EXCEPT !.repo = To(@)] : s \in @},
        !.states   = {r \in @ : r = To(r)},
        !.repos    = {r \in @ : r.id = To(r.id)}]

(* Rows of scans that took signatures for paths are removed.               *)
PurgeMalformed(d) ==
  [d EXCEPT !.endpoints = {e \in @ : e.method # NullMethod \/ e.slash}]

CollapseConnections(d) ==
  LET To(id) == Survivor(d.connections, EdgeKey, id)
  IN  [d EXCEPT
        !.schemas     = {[s EXCEPT !.connection = To(@)] : s \in @},
        !.connections = {c \in @ : c.id = To(c.id)}]

(* "path:symbol" is split where what precedes the colon has an extension   *)
(* and what follows it no slash.                                           *)
SplitSymbols(d) ==
  [d EXCEPT !.connections =
     {IF c.file = "a.ts:f" THEN [c EXCEPT !.file = "a.ts", !.symbol = "f"]
                           ELSE c : c \in @}]

(* The rows after the statements of a migration that rewrite them.         *)
Rewritten(v, d) ==
  CASE v = 4  -> {DedupServices(d)}
    [] v = 6  -> {DedupServices(merged) : merged \in {MergeRepos(d)}}
    [] v = 7  -> {PurgeMalformed(d)}
    [] v = 13 /\ "uq_connections_dedup" \notin d.names -> {CollapseConnections(d)}
    [] v = 22 /\ "connections.source_symbol" \notin d.names -> {SplitSymbols(d)}
    [] OTHER  -> {d}

Recorded(v, d) ==
  [d EXCEPT !.names = @ \cup NamesOf(v), !.versions = @ \cup {v}]

-----------------------------------------------------------------------------
(* What SQLite checks.  NULLs are distinct in a unique constraint; the     *)
(* index of migration 7 compares them as equal.                            *)

Ids(rows) == {r.id : r \in rows}

ForeignKeys(d) ==
  /\ \A s \in d.services : s.repo \in Ids(d.repos)
  /\ \A c \in d.connections : {c.source, c.target} \subseteq Ids(d.services)
  /\ \A e \in d.endpoints : e.service \in Ids(d.services)
  /\ \A s \in d.schemas : s.connection \in Ids(d.connections)
  /\ d.states \subseteq Ids(d.repos)
  /\ \A s \in d.scans : s.repo \in Ids(d.repos)

SameEndpoint(d, e, f) ==
  /\ e.service = f.service /\ e.method = f.method /\ e.path = f.path
  /\ e.method # NullMethod \/ "uq_exposed_endpoints" \in d.names

UniqueKeys(d) ==
  /\ \A e, f \in d.endpoints : SameEndpoint(d, e, f) => e = f
  /\ "uq_services_repo_name" \in d.names =>
       \A s, t \in d.services : Same(s, t, ServiceKey) => s = t
  /\ "uq_repos_path" \in d.names =>
       \A r, q \in d.repos : Same(r, q, PathKey) => r = q
  /\ "uq_connections_dedup" \in d.names =>
       \A c, e \in d.connections :
         Same(c, e, EdgeKey) /\ c.route # NullRoute => c = e

Consistent(d) == ForeignKeys(d) /\ UniqueKeys(d)

(* What the transaction of a migration commits: nothing if a statement of  *)
(* it throws, because it creates what is there, breaks a constraint, or    *)
(* was recorded by another process.                                        *)
Up(v, d) ==
  {new \in {Recorded(v, rows) : rows \in Rewritten(v, d)} :
     /\ Change(v).adds \cap d.names = {}
     /\ v \notin d.versions
     /\ Consistent(new)}

ConstantsAssumption ==
  /\ \A d \in Legacy : Consistent(d) /\ d.versions \subseteq Versions
  /\ \A u \in Unloadable : u \subseteq Versions
  /\ MaxCrashes \in Nat

ASSUME ConstantsAssumption

-----------------------------------------------------------------------------

Init ==
  /\ db \in Legacy
  /\ pc = [p \in Openers |-> "closed"]
  /\ loaded = [p \in Openers |-> {}]
  /\ seen = [p \in Openers |-> 0]
  /\ crashes = 0

Goto(p, label) == pc' = [pc EXCEPT ![p] = label]

(* Loading happens once per process: a file that cannot be imported is     *)
(* reported and left out.                                                  *)
Load(p) ==
  /\ pc[p] = "closed" /\ loaded[p] = {}
  /\ \E u \in Unloadable : loaded' = [loaded EXCEPT ![p] = Versions \ u]
  /\ UNCHANGED <<db, pc, seen, crashes>>

CurrentVersion_Count(d) == Cardinality(d.versions)
CurrentVersion_NoRow(d) == IF d.versions = {} THEN -1 ELSE Max(d.versions)
CurrentVersion(d) == IF d.versions = {} THEN 0 ELSE Max(d.versions)

(* openDb up to the version that runMigrations reads, outside of any       *)
(* transaction.                                                            *)
Open(p) ==
  /\ pc[p] = "closed" /\ loaded[p] # {}
  /\ Goto(p, "migrating")
  /\ seen' = [seen EXCEPT ![p] = CurrentVersion(db)]
  /\ UNCHANGED <<db, loaded, crashes>>

Pending_OffByOne(p) == {v \in loaded[p] : v > seen[p] + 1}
Pending(p) == {v \in loaded[p] : v > seen[p]}

Contended(p) == \E q \in Openers \ {p} : pc[q] = "migrating"

(* One pass of the loop: the transaction of the next migration commits.    *)
Migrate(p) ==
  /\ pc[p] = "migrating" /\ Pending(p) # {}
  /\ db' \in Up(Min(Pending(p)), db)
  /\ seen' = [seen EXCEPT ![p] = Min(Pending(p))]
  /\ UNCHANGED <<pc, loaded, crashes>>

(* It throws, for what is in the database or because another process       *)
(* writes, and is rolled back; openDb throws.                              *)
MigrateThrew(p) ==
  /\ pc[p] = "migrating" /\ Pending(p) # {}
  /\ Up(Min(Pending(p)), db) = {} \/ Contended(p)
  /\ Goto(p, "closed")
  /\ UNCHANGED <<db, loaded, seen, crashes>>

Opened(p) ==
  /\ pc[p] = "migrating" /\ Pending(p) = {}
  /\ Goto(p, "open")
  /\ UNCHANGED <<db, loaded, seen, crashes>>

Close(p) ==
  /\ pc[p] = "open"
  /\ Goto(p, "closed")
  /\ UNCHANGED <<db, loaded, seen, crashes>>

(* A kill; SQLite rolls the open transaction back.                         *)
Crash(p) ==
  /\ loaded[p] # {} /\ crashes < MaxCrashes
  /\ Goto(p, "closed")
  /\ loaded' = [loaded EXCEPT ![p] = {}]
  /\ crashes' = crashes + 1
  /\ UNCHANGED <<db, seen>>

Progress(p) == Load(p) \/ Open(p) \/ Migrate(p) \/ Opened(p)

Next ==
  \E p \in Openers : Progress(p) \/ MigrateThrew(p) \/ Close(p) \/ Crash(p)

Spec == Init /\ [][Next]_vars

(* Processes keep opening databases, and a loop that can go on does; that  *)
(* a transaction which could commit is not refused for ever is strong.     *)
FairSpec ==
  /\ Spec
  /\ \A p \in Openers :
       WF_vars(Load(p)) /\ WF_vars(Open(p)) /\ SF_vars(Migrate(p) \/ Opened(p))

=============================================================================
