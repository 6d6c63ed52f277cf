------------------------------- MODULE ScanTail -------------------------------
(***************************************************************************)
(* What a scan run does after the agents have answered (scanRepos phase B  *)
(* in scan/manager.js): repository after repository it persists the        *)
(* findings, writes the enrichment rows of the services and brings their   *)
(* dependency rows up to date, and replaces the records of the vector      *)
(* search (server/chroma.js).  At the end it takes a snapshot of the       *)
(* database and retires the oldest ones (db/database.js).  Every step is   *)
(* its own transaction or call, most failures are logged and passed over,  *)
(* and the process may be killed between any two.                          *)
(*                                                                         *)
(* How persistScanResult works inside is in ScanStore: here it is one step *)
(* with its result.  The upload to the hub between the last repository and *)
(* the snapshot is in HubQueue; it changes none of this state.             *)
(***************************************************************************)
EXTENDS MapDiff

CONSTANTS
  Repos,         \* linked repositories
  Names,         \* service names
  RepoSets,      \* the sets of repositories that are scanned together
  Findings,      \* what an agent may report, by repository
  Trees,         \* what may have a manifest and an owner: sets of names
  Overrides,     \* what an operator may have staged
  Removals,      \* what the files that are gone defined: sets of names
  Modes,         \* the scan modes, "full" and "incremental"
  Commits,       \* commits of the repositories
  Runners,       \* processes that scan this project
  HistoryLimit,  \* impact-map.history-limit
  MaxScan,       \* bound on scan_versions.id
  Legacy,        \* how many snapshots an older release may have left
  MaxFailures    \* bound on the failed steps and killed processes together

(* What a scan tells two calls apart by.                                   *)
Spoken(c) == <<c.source, c.target, Spellings[c.token]>>

ASSUME ConstantsAssumption ==
  /\ RepoSets \subseteq (SUBSET Repos) \ {{}}
  /\ Trees \cup Removals \subseteq SUBSET Names
  /\ Modes \subseteq {"full", "incremental"}
  /\ NotFound \notin Repos
  /\ \A r \in Repos : \A f \in Findings[r] :
       /\ \A s, t \in f.services : s.name = t.name => s = t
       /\ \A c, e \in f.calls : Spoken(c) = Spoken(e) => c = e
  /\ Legacy \cup {HistoryLimit, MaxScan, MaxFailures} \subseteq Nat

VARIABLES
  db,           \* the tables of the map that these steps read or write
  records,      \* what the vector store has, by repository and service
  chroma,       \* whether the process found the vector store at its start
  mapVersions,  \* the rows of map_versions
  files,        \* the snapshot files and what is in them
  serial,       \* snapshots begun so far; they name the files and the rows
  run,          \* where each process is, and with what
  seen,         \* the services of a repository that have a manifest and an
                \* owner, as its last scan saw them
  reported,     \* the names under which that scan reported services
  clean,        \* repositories whose last tail went through without a fault
  synced,       \* repositories whose last tail deleted the old records
  failures      \* failed steps and killed processes so far

vars == <<db, records, chroma, mapVersions, files, serial, run, seen,
          reported, clean, synced, failures>>

-----------------------------------------------------------------------------
(* The write of one repository's findings, by its result.                  *)

ServicesOf(d, r) == {s \in d.services : s.repo = r}
Self(s) == [repo |-> s.repo, name |-> s.name]
Selves(rows) == {Self(s) : s \in rows}

VersionsOf(d, r) == {s.id : s \in {t \in d.scans : t.repo = r}}

LatestOf(d, r) ==
  IF VersionsOf(d, r) = {} THEN NotFound ELSE Newest(VersionsOf(d, r))

(* Fault: an incremental scan leaves the other rows' versions alone.       *)
Restamped_Nothing(d, r, v) == d

(* An incremental scan moves the rows of the latest scan to its version:   *)
(* the services of the repository and the calls that these make.           *)
Restamped(d, r, v) ==
  LET prev == LatestOf(d, r)
  IN  [d EXCEPT
         !.services = {IF s.repo = r /\ s.scan = prev
                       THEN [s EXCEPT !.scan = v] ELSE s : s \in @},
         !.calls = {IF c.source.repo = r /\ c.scan = prev
                    THEN [c EXCEPT !.scan = v] ELSE c : c \in @}]

Without(d, gone) ==
  LET ids == Selves(gone)
  IN  [d EXCEPT !.services = @ \ gone,
                !.calls    = {c \in @ : {c.source, c.target} \cap ids = {}},
                !.deps     = {x \in @ : Self(x) \notin ids},
                !.metadata = {x \in @ : Self(x) \notin ids}]

Upserted(d, r, found, v) ==
  [d EXCEPT !.services =
     {s \in @ : ~(s.repo = r /\ \E f \in found.services : f.name = s.name)}
     \cup {[repo |-> r, name |-> f.name, type |-> f.type, scan |-> v] :
             f \in found.services}]

(* _resolveServiceId: the repository's own service of that name, or else   *)
(* the first that any repository has.                                      *)
Resolved(d, r, n) ==
  LET own == [repo |-> r, name |-> n]
  IN  IF own \in Selves(d.services) THEN own
      ELSE CHOOSE i \in Selves(d.services) : i.name = n

(* A call is dropped when no repository has its source or its target.      *)
(* told is a history: since the last full scan of the source's repository, *)
(* before it, or elsewhere, when the source is a service of a repository   *)
(* that did not report the call.                                           *)
NewCalls(d, r, found, v) ==
  {[source |-> Resolved(d, r, f.source), target |-> Resolved(d, r, f.target),
    token |-> f.token, sure |-> f.sure, scan |-> v,
    told |-> IF Resolved(d, r, f.source).repo = r
             THEN "since" ELSE "elsewhere"] :
     f \in {g \in found.calls :
              {g.source, g.target} \subseteq {s.name : s \in d.services}}}

(* What the dedup index tells calls apart by.                              *)
Called(c) == <<c.source, c.target, Spellings[c.token]>>

(* A call that was reported replaces the row of the same call, whichever   *)
(* repository's scan wrote it.                                             *)
Reported(d, r, new, mode) ==
  LET older == {c \in d.calls : ~\E e \in new : Called(c) = Called(e)}
  IN  [d EXCEPT !.calls = new \cup
         {IF mode = "full" /\ c.source.repo = r /\ c.told = "since"
          THEN [c EXCEPT !.told = "before"] ELSE c : c \in older}]

(* persistFindings: the services, and with these the calls.                *)
WithServices(d, r, found, mode, v) ==
  Upserted(IF mode = "full" THEN d ELSE Restamped(d, r, v), r, found, v)

CallsWritten(d, r, found, mode, v) ==
  NewCalls(WithServices(d, r, found, mode, v), r, found, v)

Written(d, r, found, mode, v) ==
  Reported(WithServices(d, r, found, mode, v), r,
           CallsWritten(d, r, found, mode, v), mode)

-----------------------------------------------------------------------------
(* The operator's overrides, of whichever repository, which the same       *)
(* transaction applies (scan/overrides.js): a service is deleted or        *)
(* renamed, a call is cut or moved to other services.  A base path is no   *)
(* part of this state.  Rows have ids, and so a renamed service takes its  *)
(* calls, its dependencies and its enrichment along.  /arcanon:correct     *)
(* stages no deletion of a service and no move that has an effect; the     *)
(* scan applies them to whoever does.                                      *)

NoOverride == [does |-> "nothing"]

(* The rows of services, or of what belongs to services.                   *)
Carried(rows, o) ==
  CASE o.does = "delete" -> {x \in rows : Self(x) # o.service}
    [] o.does = "rename" ->
         {IF Self(x) = o.service THEN [x EXCEPT !.name = o.name] ELSE x :
            x \in rows}
    [] OTHER -> rows

Renamed(i, o) == IF i = o.service THEN [i EXCEPT !.name = o.name] ELSE i

MovedTo(c, o) ==
  [c EXCEPT !.source = o.source, !.target = o.target,
            !.told = IF o.source.repo = c.source.repo THEN @ ELSE "elsewhere"]

CarriedCalls(calls, o) ==
  CASE o.does = "delete" ->
         {c \in calls : o.service \notin {c.source, c.target}}
    [] o.does = "rename" ->
         {[c EXCEPT !.source = Renamed(@, o), !.target = Renamed(@, o)] :
            c \in calls}
    [] o.does = "cut"  -> {c \in calls : Called(c) # o.call}
    [] o.does = "move" -> {IF Called(c) = o.call THEN MovedTo(c, o) ELSE c :
                             c \in calls}
    [] OTHER -> calls

Overridden(d, o) ==
  [d EXCEPT !.services = Carried(@, o), !.calls = CarriedCalls(@, o),
            !.deps = Carried(@, o), !.metadata = Carried(@, o)]

(* Names of a repository's services, followed through an override.         *)
NamesAfter(names, r, o) ==
  {i.name : i \in Carried({[repo |-> r, name |-> n] : n \in names}, o)}

(* The override has an effect.  It was staged for a row that was there     *)
(* before the scan, and a call that is reported again has a new row; one   *)
(* that would break a key throws, and that is logged.                      *)
Takes(o, before, d, new) ==
  LET known == Selves(before.services) \cap Selves(d.services)
      keys  == {Called(c) : c \in d.calls}
  IN  CASE o.does = "delete" -> o.service \in known
        [] o.does = "rename" ->
             /\ o.service \in known
             /\ [o.service EXCEPT !.name = o.name] \notin Selves(d.services)
        [] o.does = "cut" -> o.call \in keys \ {Called(e) : e \in new}
        [] o.does = "move" ->
             /\ o.call \in keys \ {Called(e) : e \in new}
             /\ {o.source, o.target} \subseteq Selves(d.services)
             /\ <<o.source, o.target, o.call[3]>> \notin keys
        [] OTHER -> o = NoOverride

(* The tables when the transaction commits: the services that did not get  *)
(* the version are stale, and their calls go with them.  A call between    *)
(* services that stay keeps its row, with an older version.                *)
Committed(d, r, commit, v) ==
  LET ended == Without(d, {s \in ServicesOf(d, r) : s.scan # v})
  IN  [ended EXCEPT !.scans = @ \cup {[id |-> v, repo |-> r]},
                    !.state[r] = commit]

-----------------------------------------------------------------------------

NoFindings == [services |-> {}, calls |-> {}]

NoRun == [pc |-> "idle", set |-> {}, todo |-> {}, covered |-> <<>>,
          repo |-> NotFound, found |-> NoFindings, left |-> {},
          file |-> NotFound]

EmptyDb ==
  [services |-> {}, calls |-> {}, deps |-> {}, metadata |-> {}, scans |-> {},
   state |-> [r \in Repos |-> NotFound]]

(* The copy has every table; the ones that a comparison reads are kept.    *)
Copy(d) == [services |-> d.services, calls |-> d.calls]

(* Snapshots of an older release have nothing in their rows about the      *)
(* repositories.                                                           *)
Init ==
  /\ db = EmptyDb
  /\ records = {}
  /\ chroma \in [Runners -> BOOLEAN]
  /\ serial \in Legacy
  /\ mapVersions =
       {[id |-> n, file |-> n, repos |-> NoRepos] : n \in 1 .. serial}
  /\ files = [n \in 1 .. serial |-> Copy(EmptyDb)]
  /\ run = [p \in Runners |-> NoRun]
  /\ seen = [r \in Repos |-> {}]
  /\ reported = [r \in Repos |-> {}]
  /\ clean = {}
  /\ synced = {}
  /\ failures = 0

At(p, label) == run[p].pc = label

Goto(p, label) == run' = [run EXCEPT ![p].pc = label]

LastScan == <<seen, reported>>
History == <<LastScan, clean, synced, failures>>
Snapshots == <<mapVersions, files, serial>>

(* The step of repository r is passed over after a failure.                *)
Fails(r) ==
  /\ failures < MaxFailures
  /\ failures' = failures + 1
  /\ clean' = clean \ {r}

NextVersion == 1 + Cardinality(db.scans)

(* acquireScanLock, whose file is named after the exact set, with every    *)
(* agent's answer at hand; a repository without an answer is passed over.  *)
BeginRun(p, set, answered) ==
  /\ At(p, "idle")
  /\ ~\E q \in Runners : run[q].set = set
  /\ answered # {} /\ answered \subseteq set
  /\ NextVersion + Cardinality(answered) - 1 <= MaxScan
  /\ run' = [run EXCEPT ![p] =
       [NoRun EXCEPT !.pc = "write", !.set = set, !.todo = answered]]
  /\ UNCHANGED <<db, records, chroma, Snapshots, History>>

(* The next repository's findings are persisted, with one staged override  *)
(* at most.  Files that are gone take their services with them after the   *)
(* commit, reported or not, file after file; when that throws (torn), some *)
(* of them are gone, the scan has committed and the run counts it as       *)
(* failed.                                                                 *)
PersistScanResult(p, r, found, mode, commit, tree, o, gone, torn) ==
  LET v     == NextVersion
      wrote == Written(db, r, found, mode, v)
      ended == Committed(Overridden(wrote, o), r, commit, v)
      lost  == {s \in ServicesOf(ended, r) : s.name \in gone}
      todo  == run[p].todo \ {r}
      given == [q \in DOMAIN run[p].covered \cup {r} |->
                  IF q = r THEN v ELSE run[p].covered[q]]
  IN
  /\ At(p, "write")
  /\ r \in run[p].todo
  /\ v <= MaxScan
  /\ Takes(o, db, wrote, CallsWritten(db, r, found, mode, v))
  /\ mode = "full" => gone = {} /\ ~torn
  /\ db' = Without(ended, lost)
  /\ run' = [q \in Runners |->
       IF q # p THEN [run[q] EXCEPT !.left = NamesAfter(@, run[q].repo, o)]
       ELSE IF torn THEN [run[p] EXCEPT !.todo = todo]
       ELSE [run[p] EXCEPT !.pc = "wipe", !.todo = todo, !.repo = r,
                           !.found = found, !.covered = given]]
  /\ seen' = [q \in Repos |->
       IF q = r THEN tree \cap {s.name : s \in ServicesOf(db', r)}
       ELSE NamesAfter(seen[q], q, o)]
  /\ reported' = [reported EXCEPT ![r] = {f.name : f \in found.services}]
  /\ IF torn THEN Fails(r)
     ELSE clean' = clean \cup {r} /\ UNCHANGED failures
  /\ synced' = synced \ {r}
  /\ UNCHANGED <<records, chroma, Snapshots>>

(* The transaction was rolled back: nothing of the repository changes.     *)
PersistThrew(p, r) ==
  /\ At(p, "write")
  /\ r \in run[p].todo
  /\ failures < MaxFailures
  /\ failures' = failures + 1
  /\ run' = [run EXCEPT ![p].todo = @ \ {r}]
  /\ UNCHANGED <<db, records, chroma, Snapshots, LastScan, clean, synced>>

-----------------------------------------------------------------------------
(* Enrichment and dependencies of the repository just written.             *)

Enriching(p, tables) ==
  /\ run' = [run EXCEPT
       ![p].pc = "enrich",
       ![p].left = {s.name : s \in ServicesOf(db, run[p].repo)}]
  /\ db' = tables

OfOthers(rows, r) == {x \in rows : x.repo # r}

(* Fault: old keys stay.                                                   *)
WipeMetadata_Skipped(p) ==
  /\ At(p, "wipe")
  /\ Enriching(p, db)
  /\ UNCHANGED <<records, chroma, Snapshots, History>>

(* node_metadata has no version: all the repository's rows go first.       *)
WipeMetadata(p) ==
  /\ At(p, "wipe")
  /\ Enriching(p, [db EXCEPT !.metadata = OfOthers(@, run[p].repo)])
  /\ UNCHANGED <<records, chroma, Snapshots, History>>

WipeThrew(p) ==
  /\ At(p, "wipe")
  /\ Fails(run[p].repo)
  /\ Enriching(p, db)
  /\ UNCHANGED <<records, chroma, Snapshots, LastScan, synced>>

(* upsertDependency and INSERT OR REPLACE: one row for the key.            *)
Put(rows, r, n, v) ==
  {x \in rows : ~(x.repo = r /\ x.name = n)}
  \cup {[repo |-> r, name |-> n, scan |-> v]}

(* What the enrichers and the collector find of a service.                 *)
Enriched(d, p, n) ==
  LET r == run[p].repo
      v == run[p].covered[r]
  IN  IF n \notin seen[r] THEN d
      ELSE [d EXCEPT !.metadata = Put(@, r, n, v), !.deps = Put(@, r, n, v)]

(* runEnrichmentPass, collectDependencies and its upserts, service after   *)
(* service as the table lists them.                                        *)
EnrichService(p) ==
  /\ At(p, "enrich")
  /\ run[p].left # {}
  /\ LET n == CHOOSE m \in run[p].left : TRUE
     IN  /\ db' = Enriched(db, p, n)
         /\ run' = [run EXCEPT ![p].left = @ \ {n}]
  /\ UNCHANGED <<records, chroma, Snapshots, History>>

(* An enricher and the collector throw: the service is passed over.        *)
CollectorThrew(p) ==
  /\ At(p, "enrich")
  /\ run[p].left # {}
  /\ run' = [run EXCEPT ![p].left = @ \ {CHOOSE m \in run[p].left : TRUE}]
  /\ Fails(run[p].repo)
  /\ UNCHANGED <<db, records, chroma, Snapshots, LastScan, synced>>

(* Fault: only rows without a version are stale.                           *)
StaleDeps_NullOnly(p) == {}

StaleDeps(p) ==
  {x \in db.deps : /\ x.repo = run[p].repo
                   /\ x.scan # run[p].covered[run[p].repo]}

SweepDependencies(p) ==
  /\ At(p, "enrich")
  /\ run[p].left = {}
  /\ db' = [db EXCEPT !.deps = @ \ StaleDeps(p)]
  /\ Goto(p, "delete")
  /\ UNCHANGED <<records, chroma, Snapshots, History>>

SweepThrew(p) ==
  /\ At(p, "enrich")
  /\ run[p].left = {}
  /\ Goto(p, "delete")
  /\ Fails(run[p].repo)
  /\ UNCHANGED <<db, records, chroma, Snapshots, LastScan, synced>>

-----------------------------------------------------------------------------
(* syncFindingsToChroma: delete the repository's records, add the          *)
(* reported services.  It never throws.                                    *)

NextRepo(p) ==
  run' = [run EXCEPT ![p] = [@ EXCEPT !.pc = "write", !.repo = NotFound,
                                      !.found = NoFindings]]

ChromaUnavailable(p) ==
  /\ At(p, "delete")
  /\ ~chroma[p]
  /\ NextRepo(p)
  /\ UNCHANGED <<db, records, chroma, Snapshots, History>>

(* Fault: the records of services that are no longer reported stay.        *)
DeleteRepoRecords_Nothing(p) ==
  /\ At(p, "delete")
  /\ chroma[p]
  /\ Goto(p, "upsert")
  /\ synced' = synced \cup {run[p].repo}
  /\ UNCHANGED <<db, records, chroma, Snapshots, LastScan, clean, failures>>

DeleteRepoRecords(p) ==
  /\ At(p, "delete")
  /\ chroma[p]
  /\ Goto(p, "upsert")
  /\ records' = OfOthers(records, run[p].repo)
  /\ synced' = synced \cup {run[p].repo}
  /\ UNCHANGED <<db, chroma, Snapshots, LastScan, clean, failures>>

DeleteThrew(p) ==
  /\ At(p, "delete")
  /\ chroma[p]
  /\ Goto(p, "upsert")
  /\ Fails(run[p].repo)
  /\ UNCHANGED <<db, records, chroma, Snapshots, LastScan, synced>>

SyncFindings(p) ==
  /\ At(p, "upsert")
  /\ records' = records \cup
       {[repo |-> run[p].repo, name |-> f.name] : f \in run[p].found.services}
  /\ NextRepo(p)
  /\ UNCHANGED <<db, chroma, Snapshots, History>>

SyncThrew(p) ==
  /\ At(p, "upsert")
  /\ NextRepo(p)
  /\ Fails(run[p].repo)
  /\ UNCHANGED <<db, records, chroma, Snapshots, LastScan, synced>>

-----------------------------------------------------------------------------
(* createSnapshot, when the run has persisted something.                   *)

EndRun(p) == run' = [run EXCEPT ![p] = NoRun]

NothingWritten(p) ==
  /\ At(p, "write")
  /\ run[p].todo = {}
  /\ run[p].covered = <<>>
  /\ EndRun(p)
  /\ UNCHANGED <<db, records, chroma, Snapshots, History>>

VacuumInto(p) ==
  /\ At(p, "write")
  /\ run[p].todo = {}
  /\ run[p].covered # <<>>
  /\ serial' = serial + 1
  /\ files' = [n \in DOMAIN files \cup {serial'} |->
                 IF n = serial' THEN Copy(db) ELSE files[n]]
  /\ run' = [run EXCEPT ![p].pc = "insert", ![p].file = serial']
  /\ UNCHANGED <<db, records, chroma, mapVersions, History>>

(* VACUUM INTO fails, on a full disk for one; the scan stays committed.    *)
VacuumThrew(p) ==
  /\ At(p, "write")
  /\ run[p].todo = {}
  /\ run[p].covered # <<>>
  /\ failures < MaxFailures
  /\ failures' = failures + 1
  /\ EndRun(p)
  /\ UNCHANGED <<db, records, chroma, Snapshots, LastScan, clean, synced>>

(* repos_json: the repositories that were written, with their versions.    *)
Covered(p) == run[p].covered

InsertVersion(p) ==
  /\ At(p, "insert")
  /\ mapVersions' = mapVersions \cup
       {[id |-> run[p].file, file |-> run[p].file, repos |-> Covered(p)]}
  /\ Goto(p, "retain")
  /\ UNCHANGED <<db, records, chroma, files, serial, History>>

(* The INSERT, or the DELETE of a retired row, throws.                     *)
SnapshotThrew(p) ==
  /\ At(p, "insert") \/ At(p, "row")
  /\ failures < MaxFailures
  /\ failures' = failures + 1
  /\ EndRun(p)
  /\ UNCHANGED <<db, records, chroma, Snapshots, LastScan, clean, synced>>

(* Fault: the newest row beyond the limit stays as well.                   *)
Beyond_OneMore(rows) ==
  {x \in rows : Cardinality({y \in rows : y.id > x.id}) >= HistoryLimit + 1}

(* The rows that retention removes.                                        *)
Beyond(rows) ==
  {x \in rows : Cardinality({y \in rows : y.id > x.id}) >= HistoryLimit}

(* The newest of them goes first.                                          *)
ToDelete(p) == RowAt(mapVersions, Newest({x.id : x \in Beyond(mapVersions)}))

(* Fault: the file stays.                                                  *)
UnlinkSnapshot_Skipped(p) ==
  /\ At(p, "retain")
  /\ Beyond(mapVersions) # {}
  /\ Goto(p, "row")
  /\ UNCHANGED <<db, records, chroma, Snapshots, History>>

UnlinkSnapshot(p) ==
  /\ At(p, "retain")
  /\ Beyond(mapVersions) # {}
  /\ files' = [n \in DOMAIN files \ {ToDelete(p).file} |-> files[n]]
  /\ Goto(p, "row")
  /\ UNCHANGED <<db, records, chroma, mapVersions, serial, History>>

(* An error of the unlink is ignored and the row goes all the same.        *)
UnlinkThrew(p) ==
  /\ At(p, "retain")
  /\ Beyond(mapVersions) # {}
  /\ failures < MaxFailures
  /\ failures' = failures + 1
  /\ Goto(p, "row")
  /\ UNCHANGED <<db, records, chroma, Snapshots, LastScan, clean, synced>>

DeleteVersion(p) ==
  /\ At(p, "row")
  /\ mapVersions' = mapVersions \ {ToDelete(p)}
  /\ Goto(p, "retain")
  /\ UNCHANGED <<db, records, chroma, files, serial, History>>

SnapshotDone(p) ==
  /\ At(p, "retain")
  /\ Beyond(mapVersions) = {}
  /\ EndRun(p)
  /\ UNCHANGED <<db, records, chroma, Snapshots, History>>

-----------------------------------------------------------------------------

(* The process is killed.  Its lock is stale and keeps nobody out; the     *)
(* next process looks for the vector store again.                          *)
Crash(p) ==
  /\ ~At(p, "idle")
  /\ failures < MaxFailures
  /\ failures' = failures + 1
  /\ clean' = clean \ {run[p].repo}
  /\ EndRun(p)
  /\ chroma' \in [Runners -> BOOLEAN]
  /\ \A q \in Runners \ {p} : chroma'[q] = chroma[q]
  /\ UNCHANGED <<db, records, Snapshots, LastScan, synced>>

PersistStep(p) ==
  \/ \E r \in run[p].todo :
       \/ \E found \in Findings[r], mode \in Modes, commit \in Commits,
             tree \in Trees, o \in Overrides, gone \in Removals,
             torn \in BOOLEAN :
            PersistScanResult(p, r, found, mode, commit, tree, o, gone, torn)
       \/ PersistThrew(p, r)

EnrichStep(p) ==
  \/ WipeMetadata(p) \/ WipeThrew(p)
  \/ EnrichService(p) \/ CollectorThrew(p)
  \/ SweepDependencies(p) \/ SweepThrew(p)

ChromaStep(p) ==
  \/ ChromaUnavailable(p)
  \/ DeleteRepoRecords(p) \/ DeleteThrew(p)
  \/ SyncFindings(p) \/ SyncThrew(p)

CreateSnapshot(p) ==
  \/ NothingWritten(p)
  \/ VacuumInto(p) \/ VacuumThrew(p)
  \/ InsertVersion(p) \/ SnapshotThrew(p)
  \/ UnlinkSnapshot(p) \/ UnlinkThrew(p)
  \/ DeleteVersion(p) \/ SnapshotDone(p)

Next ==
  \E p \in Runners :
    \/ \E set \in RepoSets : \E answered \in SUBSET set :
         BeginRun(p, set, answered)
    \/ PersistStep(p)
    \/ EnrichStep(p)
    \/ ChromaStep(p)
    \/ CreateSnapshot(p)
    \/ Crash(p)

Spec == Init /\ [][Next]_vars

=============================================================================
