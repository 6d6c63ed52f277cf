# Arcanon, modelled and proved

Arcanon is a Claude Code plugin. It has an agent scan the repositories of a
project for services and the connections between them, keeps the result in a
SQLite database per project (the impact map), answers questions about it over
HTTP and MCP, and sends scans to a shared service, Arcanon Hub. The code lives
in `src/plugins/arcanon/`; paths below are relative to it, and `worker/` is the
Node program that does the work.

This directory holds TLA+ models of the parts that keep state, TLC
configurations that check them, and TLAPS proofs about them.

## The system

Several processes work on the same files and databases: a long-lived worker
(`worker/index.js`: HTTP server, database pool), one MCP server per editor
session, short-lived `hub.sh` commands (`worker/cli/hub.js`), and hooks. They
share `~/.arcanon`: the map databases, the upload queue, PID, port and lock
files. Nothing but SQLite and a few lock files orders them.

| Part | State | Operations | What makes it correct |
|---|---|---|---|
| Upload queue (`worker/hub-sync/queue.js`, `index.js`, `client.js`) | rows with payload, destination, attempts, due time, status | direct upload with retries, enqueue (an upsert), drain, failure, give up, delete, prune | a payload goes only to the organisation it was synced to; leaves the queue only delivered or given up; one pending row per commit; bounded attempts |
| Scan persistence (`worker/scan/scan-service.js`, `worker/db/query-engine.js`) | services, connections, schemas, satellites, scan versions, repository state | one transaction per scan, then the clean-up of deleted files | a completed scan leaves exactly what it should; an incremental one keeps what it did not look at; other repositories stay; constraints hold; a failed scan changes nothing |
| Findings contract (`worker/scan/contract.js`) | none | find the JSON in an agent's answer, refuse, drop, warn, normalise | what it lets through can be stored |
| Overrides (`worker/scan/overrides.js`, `cmdCorrect`) | `scan_overrides` | stage, apply within a scan | each takes effect once, in the scan that stamps it |
| Scan manager (`worker/scan/manager.js`) | scan lock, git head, last scanned commit | lock, choose full or incremental, run the agent, store | one scan at a time; no change of the code is missed |
| Scan tail (`manager.js`, `worker/db/database.js`, `worker/server/chroma.js`) | metadata, dependencies, snapshots, search records | wipe, enrich, sweep, snapshot, retire, replace records | the satellites belong to the last scan; the history is bounded; a failure of one step spoils nothing else |
| Diff and drift (`worker/diff/`, `worker/cli/drift-local.js`) | none | load two versions, identify, compare | exactly what became different is reported |
| Worker life cycle (`worker/index.js`, `scripts/worker-*.sh`, `lib/worker-restart.sh`) | processes, PID file, port file | start, stop, restart on a version change | at most one worker; the files name it; no other process is killed |
| Database pool (`worker/db/pool.js`) | open handles, last use, cached list of projects | get by root, hash or name, idle sweep, close all | one handle per file; a handle in use is open; no list older than its time |
| Database (`worker/db/database.js`, `migrations/`) | schema version, rows of older releases | load migrations, open, migrate | whoever opens finds the whole schema; merging duplicates loses nothing |
| Queries (rest of `query-engine.js`, `worker/mcp/server.js`) | the map, the full-text index | impact, graph, pages, mismatches, changed files, search, owners | traversals are reachability; pages add up; what is shown of a name belongs to it |
| HTTP and MCP servers (`worker/server/http.js`, `worker/mcp/server.js`) | none of their own | routes, tools | who asks for a mapped project gets it |
| Enrichment parsers, hub payload, evidence, credentials | none | parse, build, trim, look up | size limits, no secrets |
| UI, hooks, installation | none or browser state | render, install | |

How they meet: a `/arcanon:map` or `/arcanon:rescan` command, the HTTP route
`POST /scan` and `scanRepos` all end in `persistScanResult`, which applies the
staged overrides within its transaction. `/arcanon:upload` and `/arcanon:sync`
read the map, build a payload and hand it to the queue; what cannot be sent at
once is drained by any later sync.

What is hard about it: the processes interleave at every statement that is not
in a transaction, and at every await; any of them may be killed; the hub may
accept a payload whose answer is lost; git moves while an agent runs. Each such
place is listed with its line under `hazards` in `PROJECT.json`.

## Modules

| Module | What it is |
|---|---|
| `Outbox` | what the queue promises, without processes, attempts or clocks |
| `HubQueue` | the queue, the processes that upload and drain, the hub they talk to |
| `HubQueueProps`, `HubQueueRefinement` | its properties; the mapping under which it implements `Outbox` |
| `HubQueueProofs` | its theorems, and that it implements `Outbox` |
| `ScanStore`, `ScanStoreProps` | `persistScanResult` with all it calls, overrides, clean-up |
| `FindingsContract` | from the text of an agent to the findings that are stored |
| `ScanRun`, `ScanRunProps` | `scanRepos`: lock file, choice of mode, agent, storing, against git |
| `ScanTail`, `ScanTailProps` | the rest of `scanRepos`: metadata, dependencies, search records, snapshots |
| `MapDiff` | the comparison engine, `/arcanon:diff` and `/arcanon:drift` |
| `MapDatabase`, `MapDatabaseProps` | opening and migrating a map |
| `MapServer`, `MapServerProps` | the pool and the two servers that answer from it |
| `ServiceGraph`, `MapAnswers`, `ServiceGraphProps` | the map as it is read, and the answers |
| `WorkerLifecycle`, `WorkerLifecycleProps` | the worker, its PID and port files, the scripts that start and stop it |
| `ScanStoreProofs`, `ScanRunProofs`, `ScanTailProofs`, `MapDatabaseProofs`, `MapServerProofs`, `ServiceGraphProofs`, `WorkerLifecycleProofs` | the theorems of these modules |
| `MC...` | instances for TLC |

Composition: `MCScanStore` extends `FindingsContract`, so that every scan of the
store takes its findings through the validator; `ScanTail` extends `MapDiff`, so
that a drift is asked of the snapshots that runs really leave; `MapAnswers`
extends `ServiceGraph`; `HubQueueRefinement` instantiates `Outbox`. `ScanTail`
takes `persistScanResult` as one step, of which `ScanStore` has the inside.

An operator `X_Something` before an operator `X` is a faulty variant of `X`:
substituted for `X`, it must break a property. They are not part of the model.

### HubQueue

`uploads` is the table, a function from row ids to rows; `NoRow` is a free id.
A payload is the number of the sync that built it, and `origin` remembers what
each sync was asked for; `hub` is what the hub holds per destination and commit.
Each session (a `hub.sh` process) runs one command at a time: `pc` is where it
stands, `work` the rows its drain has listed, `job` the payload in its hands,
`answer` what the last POST came to, `seen` the attempts it read.

| Actions | Code |
|---|---|
| `OpenQueue` | `openQueueDb`: schema, and the quarantine of rows without destination; the code opens in the first call that needs the queue, and the step may be taken at that moment |
| `BeginUpload`, `Post...`, `RetryOrGiveUp` | `syncFindings`, `uploadScan` and its retry loop |
| `Enqueue`, `EnqueueThrew` | `enqueueUpload`: the upsert on the partial index |
| `ListDue`, `TakeRow`, `FinishDrain` | `drainQueue` |
| `DeleteDelivered`, `DeleteThrew` | `deleteUpload`, and its exception caught as a refusal |
| `ReadAttempts`, `UpdateRow`, `MarkFailed` | `markUploadFailure`, two statements and no transaction |
| `MarkRefused` | `markUploadDead` |
| `MarkThrew` | a write that throws out of the drain |
| `PruneDead`, `Tick`, `Crash` | `pruneDead`, the clock, a kill |

Each statement is one step, as SQLite makes it; everything between two
statements, or before and after an await, may be interleaved. Any write may
throw (`Throws`): because another session writes, as the queue is opened
without a busy timeout, or because the disk is full or fails, up to
`MaxFailures` times, which also bounds the kills. An opening that throws
changes nothing and the next call tries again; what the caller loses by it is
what `EnqueueThrew` has. Not modelled, since no state
reaches them: the drain's branches for a row without a destination (opening
the queue quarantines them) and for a body that does not parse.

### Outbox

Slots that are empty, waiting or retired; what the hub holds; and `live`, the
payloads that may still reach it. `Ask` addresses a payload for good, `Deliver`
takes it to the hub at that address, `Put` replaces the waiting slot of its
commit or takes an empty one, `Clear` empties a waiting slot when the hub has
its commit, `Retire` and `Discard` are giving up and pruning, `Lose` is whatever
makes a sender forget. No action makes a payload live again.

`HubQueueRefinement` maps rows to slots (dead and held rows are retired) and
calls a payload live while a pending row holds it, a drain has listed it or a
session is about to post or queue it. `Clear` asks for the hub to have the
commit at some address only: that is what two sessions keep, and one session
keeps more (`RemovedOnlyIfDelivered`). The abstract specification has no
fairness: that waiting payloads leave is `PendingResolved`, under the fairness
of the queue.

### ScanStore

`db` is what is committed, `tx` the working copy of the open transaction,
`writer` its process: SQLite lets one write at a time. Tables are sets of rows.
A row's id is the version that inserted it with its key, so a row that was
deleted and inserted again has another id.

| Actions | Code |
|---|---|
| `BeginScan` | `beginScan`, the clean-up of abandoned versions, `_restampExistingRows` |
| `PersistFindings`, `PersistThrew` | `persistFindings` and `setRepoState`; a foreign key rolls it back |
| `ApplyOverride` | `applyPendingOverridesSync`, one override per step |
| `EndScan`, `EndScanThrew` | `endScan` and COMMIT; a foreign key rolls it back |
| `SelectGone`, `DropConnectionsOf`, `DropServicesOf`, `CleanUpThrew`, `Return` | `_deleteDeletedFileFindings`, statement by statement, outside the transaction |
| `Correct` | `cmdCorrect` |
| `Crash` | a kill; an open transaction is rolled back |

The steps within the transaction are seen by no other process, so a
statement-by-statement split of them would add states and no behaviour; they
are split where the code may throw or loops. Scanning in mode `incremental` is
a parameter of `persistScanResult`: in this repository `scanRepos` passes it,
and the commands and `POST /scan` pass `full`. A connection that the evidence
check drops counts as not reported. `/arcanon:correct` cannot stage a deletion
of a service. An override that sets a base path is only stamped here. A
`BeginScan` that waits for the lock longer than its timeout throws and changes
nothing; it is the action not being taken. The clean-up deletes by path
(`MayBeGone` is any set of paths that git may call deleted or renamed from): it
does not look at what the scan reported, and a service that was reported in
such a path goes as well.

### FindingsContract

The text of an agent is a record of what the parser can find in it: blocks, and
in each an object with services, connections, schemas and warnings to come.
`ValidateFindings` refuses, drops, warns and normalises in the order of
`validateFindings`; `ParseAgentOutput` is the choice of the block; `Reported` is
what `persistFindings` reads of the result. Names and files are model values, a
file reference a path and a symbol. The instances of `MCScanStore` are agents
that answer well, loosely, with a service of an unknown type whose call is kept,
or with what is refused.

### ScanRun

`commits` is a repository's history, `state` its `last_scanned_commit`, and
`examined` says which content of each file the stored scans looked at last.
`left` are the files the map may be wrong about without a scan being due: the new
name of a renamed file, until it changes, and what an unfinished clean-up left.
A commit may do anything to the files. The diff of two trees is deleted, added
and changed files; any pairing of deleted with added files may be taken for
renames (`Renames`), whether or not the contents are alike, since git takes a
file that was renamed and edited for one. The agent is told of the others
(`Told`), never of a new name.
`lock` is the lock file; `opened` are the processes whose `writeFileSync` is
between opening and writing it, so that a reader may find it empty, and a
writer may write to a file that was unlinked meanwhile. `task` is a run's work
on each repository.

| Actions | Code |
|---|---|
| `Commit` | the developers |
| `LockExists`, `Refused`, `LockStale`, `Unlink`, `OpenLock`, `WriteLock` | `acquireScanLock`, one file-system call each |
| `Decide` | `buildScanContext`, `getChangedFiles`, skip and no-op of `scanOneRepo` |
| `AgentReads`, `AgentThrew`, `AnswerInvalid`, `Answer` | the agent, its one retry, validation, `getCurrentHead` |
| `Save`, `SaveThrew`, `Clean`, `CleanThrew` | `persistScanResult`, commit and clean-up |
| `Release`, `Crash` | `releaseScanLock` in `finally`; a kill |

`scanRepos` is the pipeline the package exports; within the repository only its
tests call it. A PID left in a lock is not given to another program (if it were,
the lock would hold until that program ends). History is not rewritten: after a
rewrite `git diff` fails, and with it every incremental scan. An incremental
scan re-stamps the services of a changed file that no longer defines them, so
`examined` says what was looked at, not that the map is exact.

### ScanTail and MapDiff

`db` has the tables the tail reads or writes, `records` what the vector store
has, `mapVersions` and `files` the snapshots, `run` where each process is.
`seen`, `reported`, `clean`, `synced` and the `told` of a call are histories:
which services the last scan left with a manifest, under which names it reported
services, whose tail went through, whose old records are gone, and whether a
call was reported since the last full scan of its repository, before it, or
elsewhere (by another repository's scan, or put there by an override).

`PersistScanResult` is what a scan's transaction and clean-up leave, in the
order of the code: `Restamped` in an incremental scan, `Written` with the
services and the calls, whose ends are resolved in any repository as
`_resolveServiceId` does (`Resolved`), one staged override at most
(`Overridden`, if it `Takes`), `Committed` with what `endScan` deletes, and then
the services of files that are gone, whether or not the scan reported them. A
clean-up that throws has removed some of them, and the run goes on with the
next repository (`torn`).

| Actions | Code |
|---|---|
| `BeginRun` | `acquireScanLock` with the agents' answers at hand |
| `PersistScanResult`, `PersistThrew` | one repository's `persistScanResult`, by its result |
| `WipeMetadata`, `WipeThrew` | `clearNodeMetadata` and its caught error |
| `EnrichService`, `CollectorThrew` | `runEnrichmentPass`, `collectDependencies` and its upserts, service by service |
| `SweepDependencies`, `SweepThrew` | the stale sweep of `service_dependencies` |
| `ChromaUnavailable`, `DeleteRepoRecords`, `DeleteThrew`, `SyncFindings`, `SyncThrew` | `syncFindingsToChroma` |
| `NothingWritten`, `VacuumInto`, `VacuumThrew`, `InsertVersion`, `SnapshotThrew`, `UnlinkSnapshot`, `UnlinkThrew` and what follows | `createSnapshot`: file, row, retention file by file |
| `Crash` | a kill |

`MapDiff` has no state: `DiffScanVersions` is the engine, `ResolveScanSelector`
with `CmdDiff` is `/arcanon:diff`, `RunDrift` is `/arcanon:drift` with its
fall-back to the live database. `DriftExact` asks for every drift in every
state, the middle of a run included. The hub upload in the tail is `HubQueue`.
Overrides are staged in `ScanStore`; here any that `_applyOne` handles may be
pending when a scan comes to them, also the deletion of a service and the move
of a call, which `/arcanon:correct` does not stage. Two snapshots within one
millisecond, which would have one file name, are not modelled.

### MapDatabase

`db` has the versions applied, the names of what the schema has (tables, columns,
indexes) and the rows that five migrations rewrite. `Change(v)` is what migration
v adds, `Rewritten` what it does to the rows: merging services and repositories
(004, 006), purging malformed endpoints (007), collapsing connections that
differ in their templates only (013), splitting a symbol off a file (022).

| Actions | Code |
|---|---|
| `Load` | the dynamic import of the migrations, some of which may fail |
| `Open` | `openDb` up to the reading of `MAX(version)` |
| `Migrate`, `MigrateThrew` | one migration in its transaction; a unique or foreign key, or another writer, makes it throw |
| `Opened`, `Close`, `Crash` | the handle is there; the process ends or is killed |

The run starts from databases of versions 0, 1, 3, 5 and 6 with rows that were
doubled in the ways these releases allowed.

### MapServer

One process, the worker or an MCP server, that finds a handle and uses it
without an await in between, so that a request is one step. `disk` says which
file is the database of each project, `rows` what a file has, `pool` the handles,
`list` the cached list of projects.

| Actions | Code |
|---|---|
| `Get`, `GetProjects`, `PostScan` | the routes of `server/http.js`, by how they find the engine and what they answer |
| `CallTool`, `CallScan` | the tools of `mcp/server.js`, through `resolveDb` |
| `SweepIdleEntries`, `CloseAll`, `Tick` | the idle sweep, shutdown, the clock |
| `Map`, `RemoveMap` | other processes and users |

`GetQueryEngine`, `GetQueryEngineByHash` and `GetQueryEngineByRepo` are the three
ways to a handle, `ListProjects` the cached list.

### ServiceGraph and MapAnswers

`connections` and `exposed` are tables, `index` the entries of the full-text
index, and the row id of a connection grows whenever it is replaced. Services,
owners and actors are constants; services of one name in two repositories are
among them. `UpsertConnection` and `ExposeEndpoint` are the statements of the
scan; they build every small map, and the answers are operators asked of each.

| Operators | Code |
|---|---|
| `TransitiveImpact`, `QueryImpact`, `QueryGraph` | the recursive queries of `query-engine.js` and of the MCP tools |
| `DetectMismatches`, `IsExposed`, `StripBasePath`, `CanonicalizePath` | `detectMismatches` with what it compares |
| `GraphSummary`, `WholeGraph`, `GraphPage` | `getGraph` whole, in pages and summed up |
| `DirectImpact`, `QueryDirect`, `QueryChanged` | one-hop impact, and the impact of changed files |
| `QuerySearch`, `FtsHits`, `LikeHits` | the two tiers of search that production reaches |
| `OwnersNamed`, `Enrich...` | what the answers say of a service, found by name |

A path or a file is the sequence of its words. `connections_fts` matches whole
words; LIKE also finds a text that begins or ends within a word, for which
`Parts` says which term stands where in which longer word (`Holds`, `Places`).
A query whose words have blanks between them is answered by the index, also
when it finds nothing; one with a slash, a dot or a hyphen makes FTS5 throw and
is answered by LIKE (`QuerySearch`). LIMIT and OFFSET without ORDER BY are taken
to count in the order of ids. The delete trigger of the index is an operation no
action has: connections are replaced here, and REPLACE does not fire it.

### WorkerLifecycle

`phase` is where each worker process is, `pidFile` and `portFile` what is on
disk, `pc`, `kind`, `root` and `pid` the scripts that run: the prompt hook, a
start, a stop or an `update.sh --kill`, the version it belongs to and the
process id it has read.

| Actions | Code |
|---|---|
| `WritePid`, `Listen`, `ListenThrew`, `WritePort` | `worker/index.js` from its start; a worker that finds the port taken ends |
| `Unbind`, `Shutdown` | `shutdown`; the two removals are one step, as nothing lies between them |
| `PidFileMissing`, `PidFileExists`, `ReadPid`, `Stale`, `Running` | the tests at the head of every script |
| `VersionDiffers`, `VersionTaken` | the version check of `should_restart_worker` |
| `Term`, `KillForce`, `Remove`, `Unlink` | how a script ends a worker and removes its files |
| `StartBackground`, `WritePortFirst`, `Spawn`, `RecordPid` | the hook's call of `worker-start.sh`, and its second half |
| `Killed`, `Signalled`, `PortTaken`, `PortReturned`, `Upgrade` | what others do |

A script that begins belongs to the installed version; sessions that keep an
older one, and would restart the worker back and forth, are not modelled. All
versions use one port and live in directories of their own, so that a worker
answers with the version it was started from. A process id is given out
again when no file and no script remembers it. That `worker_running` fails is
no condition of a start here: a start may begin at any time.

## Runs

Every run finishes within about three minutes on two cores.

| Run | Instance | Shows |
|---|---|---|
| `queue_two` | 2 sessions, 1 commit, 2 organisations, 2 syncs, 2 attempts, 1 disk failure or kill | types, binding of rows, jobs and hub to what was asked, one pending row per commit, bounded attempts, retired rows stay retired; every step is one of the abstract outbox |
| `queue_one` | 1 session, 2 commits, 2 organisations, 2 syncs, 2 attempts of 2 tries, back-off up to 2 ticks, 1 disk failure or kill | a row is removed only after delivery; commands end; every pending row is resolved |
| `store_one` | 1 process, 2 repositories, 2 services, 2 files, 2 scans of either mode, 1 override, 1 crash, new or legacy database | types, constraints and currency of rows, exactness of full scans, other repositories' services kept, overrides stamped once, and a deletion takes effect unless the scan itself reports the call again |
| `store_two` | 2 processes, 1 repository, 3 scans | the same of the tables while clean-ups and transactions interleave; incremental scans keep |
| `store_clean` | 1 process, 2 repositories, 3 scans, no schemas, no crash | files that are gone have no services; of what was reported only that is gone which was reported in such a file |
| `store_fk` | 1 process, 1 repository, connections with schemas, 2 full scans | violated: the first scan completes, the second throws in `persistFindings` on a foreign key |
| `run_two` | 2 processes, 1 repository, 3 files, 1 commit between runs that changes any of them, 1 crash | what differs from what was examined is due, but for the new names of renamed files and unfinished clean-ups; only a scan refuses a run, runs end and the lock recovers |
| `history` | 1 runner, 2 repositories of which a run may write one or both, 3 scans with or without an override and gone files, a call across repositories, history of 2 after 2 older snapshots, 1 failure or kill | a drift reports what changed; the history is bounded and its files match its rows; metadata and dependencies follow the last scan, search records what it reported |
| `migrate` | 2 openers, 13 databases of older releases and an empty one, 1 kill | whoever opens finds the whole schema; no migration loses anything; a database without blocking duplicates is opened again and again |
| `ask_maps` | either server, 2 projects (one repository; two, one of the same name), 2 files | one handle per file, none idle for long, no stale list; a mapped project, and a named repository, is found |
| `reads` | 5 services (2 of one name), calls in a ring with chords, 4 rows | traversals are bounded reachability, mismatches exact, pages add up, searches, changes and names answered right |
| `worker_one` | 1 script at a time, 3 process ids, 2 upgrades, 3 times a worker is killed or signalled or the port taken | one worker at a time, which its files name; a stop leaves none; a worker of the installed version serves again |

The bounds: `Limit` rows per drain (the code's 50 is cut to 1 so that rows
remain for a later drain); `MaxAttempts` and `RetryAttempts` (5 and 3 in the
code) stay at least 2 where a property depends on reaching them; `RetrySchedule`
has a short and a longer entry; two syncs are the least that can replace a row
in flight, and two sessions the least that race; `MaxScan` counts version ids
from 2 (0 is NULL, 1 a version an older release abandoned), so 4 allows three
scans: one to build, one to change, one to see the change's effect.
`MaxCrashes`, `MaxFailures`, `MaxFaults` and `MaxOverrides` bound rare events,
`MaxVersion` and `MaxCommits` what developers do. Three process ids are a
worker, its successor and one that worker.pid still names. In the store runs
deadlock is not checked, because after the last scan nothing is left to do; in
the queue a drain is always possible and deadlock is checked. The full map of
`reads`, and the last scan of `history`, end their behaviours likewise.

`history`: three scans are two runs of which one writes both repositories, the
least for a drift; a limit of two with two snapshots from before makes
retention remove files and rows of either kind; one failure of any step, or one
kill, at any place; each scan meets one pending override at most (one that
deletes a service, renames one or moves a call to the other repository), and
files that are gone may take a service along that the scan reported. `run_two`:
with three files a commit can rename one and add another, so that there is
something to tell the agent and something it is not told; the theorem has any
number of commits. `migrate`: every migration that rewrites rows meets rows it
rewrites; two openers are the least that collide. `ask_maps`:
`IdleTTL`, `SweepEvery` and `ListTTL` are 1, 1 and 2 ticks (10 minutes, 5 minutes
and 30 seconds in the code): no condition compares one with another, and each is
long enough to be reached from below and passed; two files let a project
be mapped, removed and mapped again. States that differ in the last reply only
are one (`VIEW`): no action reads it, and the two properties about it are
properties of steps, which are checked on every step. `reads`: the caps
`MaxDepth` and `GraphDepth` (7 and 5 in the code) are shorter than the ring,
so that cuts happen; four rows, index entries counted, let a call be stored,
replaced and found beside another; five services allow a cycle longer than the
cap and two services of one name at its ends.

### Fairness

`FairSpec` of the queue has weak fairness of each session's next step: a
session that runs a command takes its next step, since a POST is aborted
after 30 seconds (the reading of an answer's body is bounded only by the
timeout of Node's fetch) and SQLite calls return. `SyncingSpec` adds that the
user keeps running sync, which nothing in the code guarantees: `PendingResolved`
says what that buys. Nothing is assumed of the hub; it may fail for ever. The
clock's fairness is that time passes. `persistScanResult` is synchronous
code, and nothing is said of its end. `FairSpec` of
`ScanRun` lets every run go on (agents answer or throw) and the user start
another whenever none runs in a process. `FairSpec` of `WorkerLifecycle` lets
scripts and workers go on, requests end so that a closing worker closes, and
scripts begin again and again, as the hook does with every prompt. Its one
strong fairness says that a worker which serves does not let every question for
its version time out: the script waits a second for a local answer. `FairSpec`
of `MapDatabase` has openers that keep trying; its strong fairness, of
`Migrate` and `Opened`, says that two processes do not collide for ever, since
each attempt lasts milliseconds and a user is behind it. `ScanStore`, `MapServer`,
`ServiceGraph` and `ScanTail` promise no liveness and assume no fairness.

## Divergences

Places where the code does not do what a text of the repository says, or what
seems meant. `store_fk` is the run that shows one of them; the others were met
while modelling, and where a property is named, checking it in the instance
that is described shows them as well.

The queue. A drain deletes a row by its id after an await
(`worker/hub-sync/index.js:193`), although another session may have replaced its
payload meanwhile: in the instance of `queue_two`, `RemovedOnlyIfDelivered` is
violated. Re-syncing a queued commit changes the row's destination, which the
comment at `worker/hub-sync/queue.js:131` calls immutable. A delete that throws
after an accepted upload makes the row dead (`index.js:203`), and two drains may
both count one row dead (`:199`).

The store. A connection with schemas cannot be replaced, so that the second scan
of it fails as a whole (`store_fk`). An incremental scan wipes the endpoints of
services it did not look at (`worker/db/query-engine.js:2526`), while
`worker/scan/scan-service.e2e.test.js:288` says that unchanged services are
preserved: `UnreportedKeepEndpoints`, in an instance of one repository,
`PlainFindings` and both modes. The clean-up of a gone file throws on the
foreign key of a schema after the commit (`worker/scan/scan-service.js:202`),
and the service stays. A connection without method or path gets a second row at
every scan (`query-engine.js:517`: NULLs are distinct in the dedup index). A
full scan keeps unreported connections between surviving services although
`commands/map.md:133` says it rebuilds from scratch; a scan deletes connections
of other repositories into services it drops, which `docs/commands.md` excludes
for rescans. An override deleting a connection with schemas is never consumed,
an override updating a connection changes nothing, because it is staged with
names where ids are read (`worker/cli/hub.js:1879`,
`worker/scan/overrides.js:212`), and a deleted connection returns with the next
scan under another id. An override "wins" by `worker/scan/overrides.js:10-12`;
but a scan that reports the connection again has replaced its row before the
override is applied, so that the override, stamped all the same, deletes nothing
and the call stays (`DeletionsYieldOnlyToReports` says that nothing else stays).
A service that an incremental scan reports in a path that git calls deleted or
renamed from is deleted after the commit (`worker/scan/scan-service.js:183`).

Findings. A service that is dropped with a warning keeps its connections, which
may attach to a service of that name in another repository
(`worker/scan/contract.js:195`); a fenced block that does not parse is not tried
another way.

Runs. The head that is stored is read after the agent ran
(`worker/scan/manager.js:820`), so that a commit in between is stored as
scanned: `ChangesNotLost` in the instance of `run_two` with `Quiet = FALSE`. Two
runs that look for the scan lock before either has written it both scan, and so
do two runs over sets of repositories that overlap, each with a lock of its own
(`:548`), although `:661` says that concurrent scans are rejected; with two such
runners `DriftExact` is violated. A repository whose changes are deletions or
renames only is never cleaned up (`:718`), and a file under a new name is not
given to the agent (`:380`), nor is what was edited in it in the same range of
commits.

After a run. `/arcanon:diff` compares two versions within the live database,
where every row has only the latest version that saw it, so that nearly all is
"added" (`worker/cli/hub.js:1651`), while `commands/diff.md:2` promises "Compare
two scan versions. Shows services/connections added, removed, or modified":
`DiffReports` in `ScanTailProps`, in the instance of `history`. An incremental
scan deletes all the search records of a repository and adds those of the
changed files (`worker/server/chroma.js:301`); the records have the names that
the agent reported (`manager.js:1099`), also when an override of the same scan
renamed or deleted the service. A call whose source is found only in another
repository is attached to that one's service with this scan's version
(`query-engine.js:2641`); the next incremental scan does not restamp it
(`scan-service.js:157`), and drift reports it as removed though nobody looked at
it: `DriftExact` says nothing of the connections of a repository with such calls
(`Strangers`). Dependencies of a service whose collector failed are swept with
the stale ones (`manager.js:1016`). A history limit of 0 deletes the snapshot
just made. A drift over a missing snapshot file creates an empty database and
fails on it (`worker/cli/drift-local.js:361`).

Opening. Migrations 004 and 006 point endpoints of merged services at the one
that stays, under a unique key they may break; 006 leaves `scan_versions` behind;
007 fails on doubled endpoints without a method: such a database never opens
(`OnlyContentionStops` in the instance of `migrate`). A migration that could not
be imported (`worker/db/database.js:61`) is passed over, and never applied once a
later one was.

Answering. `GET /impact` and `GET /service` call methods that do not exist and
answer 500 (`worker/server/http.js:672`, `:690`). A project root outside the
data directory is refused by the tools (`worker/mcp/server.js:113`).
`impact_scan` posts neither project nor findings (`:1273`). `impact_query` drops
the `truncated` mark (`:1343`), and the mark is also set when nothing was cut;
its path column has no outer commas, so that a service may be among its own
impact. The `connection_count` of a changed-files answer is that of the first
file. A base path with a template variable is never stripped from a call: it is
compared as it was reported with a path whose variables were renamed
(`query-engine.js:2289`), so that the call counts as a mismatch. Two services of
one name share metadata and actors in answers by name, while the graph keeps
them apart. A page past the last one has all connections. Search answers from
the full-text index without trying the other tier when the index has nothing:
"item" finds nothing in "/items", where LIKE would (`worker/mcp/server.js:502`).
The handle of a database that was removed or replaced answers as long as it is
asked often enough (`worker/db/pool.js:189`), and may say that there is no scan
while the present database has one.

Scripts. Two starts that look for `worker.pid` before either has written it both
start a worker (`scripts/worker-start.sh:36`), although `:28` says "MUTEX
BOUNDARY: all new logic below this point runs only when no worker is active":
`MutexBoundary` with two scripts. A stop that overlaps a start may remove the
port file of the new worker, which then runs where nobody finds it
(`scripts/worker-stop.sh:54`). `scripts/update.sh:38` looks for `scan.lock`, a
name the scan manager never uses.

## Proofs

Eight modules hold theorems. They are about every value of the constants that
the named assumptions admit (`ConstantsAssumption` of each module: what kind of
values they are, never how many), and about any number of steps. A condition
that a theorem needs beyond these is its antecedent and is listed here; the
instances that TLC checks satisfy it.

| Theorem | States | Of |
|---|---|---|
| `HubQueueProofs!TypeCorrect` | `TypeOK` | |
| `TenantBinding`, `BoundDestinations`, `BoundUploads` | `NeverRetargeted`, `RowsBound`, `JobsBound` | |
| `AttemptsBounded`, `PendingUnique`, `RetiredForGood` | `PendingHasAttemptsLeft`, `OnePendingPerKey`, `RetiredRowsStay` | |
| `QueueImplementsOutbox` | `ImplementsOutbox` | |
| `DeliveredFirst` | `RemovedOnlyIfDelivered` | one session (`OneSession`) |
| `ScanStoreProofs!MapSound` | `TablesSound` | |
| `OthersKept`, `IncrementalKept`, `FullScansExact` | `OtherServicesKept`, `IncrementalKeeps`, `FullScanExact` | |
| `StampedOnce`, `DeletionsTake` | `StampedOnceAtCommit`, `DeletionsYieldOnlyToReports` | |
| `ReportedStay` | `ReportedSurvives` | one process persists scans (`Alone`) |
| `GoneFilesGo` | `GoneFilesHaveNoServices` | the same, it is not killed, and no finding has a schema (`Undisturbed`) |
| `ScanRunProofs!RefusedByScan` | `RefusedOnlyByScan` | |
| `NothingLost` | `RunOK` | nobody commits during a run (`Quiet`) |
| `ScanTailProofs!TailsComplete` | `TailComplete` | runs one after another, or of sets that share no repository (`Apart`) |
| `HistoryIsBounded` | `HistoryBounded` | one run at a time (`OneRunner`), no longer history at the start |
| `DriftIsExact` | `DriftExact` | the same, and a history of two or more |
| `MapServerProofs!PoolSafe`, `MappedAnswered` | `PoolOK`, `MappedIsFound` | |
| `NamedAnswered` | `NamedIsFound` | no project lies where repositories of another have their common parent (`ProjectsApart`) |
| `WorkerLifecycleProofs!WorkerIsKnown`, `StopEndsAll` | `OneWorkerKnown`, `StopLeavesNone` | one script at a time (`OneScript`) |
| `MapDatabaseProofs!OpenedIsComplete` | `SchemaOK` | every migration loads (`AllLoad`), databases a release left (`Released`) |
| `MigrationsKeep` | `NothingLost` | rows have primary keys (`Keyed`) |
| `ServiceGraphProofs!TraversalsAreExact`, `PagesAddUp` | `TraversalsExact`, `PagesCover` | |
| `MismatchesAreExact` | `MismatchesExact` | no base path has a template variable (`PlainBases`) |
| `AnswersAreExact` | `AnswersExact` | |

Each antecedent is where the code needs it, and the divergences above say what
happens without it: a second session replaces a row in flight, a commit during a
run is stored as scanned, two scripts start two workers, two runners take each
other's snapshots away, a migration that could not be imported leaves a gap, a
base path with a variable is never stripped. With a history of one, a drift that
is asked while retention runs meets a row whose file is gone. `ProjectsApart`
is about `getQueryEngineByRepo`, which derives a project's root from its
repositories.

The proofs share one shape: an inductive invariant, checked by TLC on the run's
instance before it was proved, one lemma for each group of actions, and a
theorem that it always holds; the listed theorems follow from it, properties of
steps with a case for each action that could break them.

### The queue

That the hub holds only what it was asked to is not inductive. A payload
reaches the hub from a job, a job comes from a drain's list or from a sync, a
list from rows, a row from an enqueue, which takes it from a job. `IInv`
therefore says it of all of these at once: rows, listed rows, jobs and hub
(`SentRows`, `SentJobs`, `SentHub`), together with the types, with `origin`
never changing for a sync that exists, and with a row's absence of a
destination being confined to the time before a session has opened the queue.
`JobIds` adds that a job names a row that exists or existed. The other
invariants come from one lemma, `KeptOrEnqueued`: a step either keeps the rows
(no row becomes pending, changes its key, or stays pending with its attempts
used up) or is an enqueue, whose effect `EnqueueRows` describes.

That the queue implements `Outbox` needs `RInv` besides: what a session holds
is what some row or sync has (`JobsOfRows`), the hub has the commit of a job
that is about to be deleted (`DeletesDelivered`), and a free id holds nothing
(`AbsentRows`). The step simulation has one lemma for each action of `Outbox`
that a step of the queue may be.

`DeliveredFirst` is about one session, and adds `AInv`: what that session has
listed, posts or deletes is what the table still says, since nobody else can
have replaced it.

### The store

`ScanStoreProofs!IInv` has two halves. `Committed` is about the tables that all
see: keys, no row of a scan that is still to come, every service of the last
completed scan of its repository, no row that an override deleted.
`TransactionSound` is about the open transaction beside them: the other
repositories' services are those committed (`Others`), overrides are as they
were or stamped by this scan (`OverridesOf`), an incremental scan has moved
every service of the last one along (`MovedOn`), and after `PersistFindings`
each finding has its row, under its name or one of an override (`Written`).
`OneWriter` ties the two together: there is no transaction without its
process. A clean-up between two transactions changes neither half, which is
why the theorems hold for any number of processes.

The clean-up itself is not one transaction, and what it promises holds only if
nobody writes between its statements (`Alone`) and none of them throws or is the
last (`Undisturbed`). `ReportedInv` says that from its commit until it returns
the files in which a scan reported services have them, but for those it was told
are gone, and that what it has yet to clean up after is among these. `CleanInv`
says that a service of a gone file is one the clean-up has yet to remove
(`YetToGo`) or, in an open transaction, one that was found again (`FoundAgain`),
and that a service about to be deleted has no connection left or will lose it
first (`Released`), so that no foreign key stops the deletion.

### Runs

`ScanRunProofs` has two invariants. `Steady` holds whatever developers do: the
lock belongs to a process that scans, commits and contents are numbered, a task
is of a running scan. `Followed`, for `Quiet`, is why no change is lost: what was
examined is what `last_scanned_commit` has, but for the files in `left` and
those a clean-up is about (`BaseExamined`), and a task holds the whole
difference between that commit and HEAD: each file of it is given to the agent,
or skipped as a new name, or gone (`TaskOK`). Nothing is assumed of what git
takes for a rename.

### After a run

`ScanTailProofs` has three invariants, each on top of the one before. `TInv`
says of the tables that a scan's services, calls and dependencies carry its
version and that a call says truly since when it is known (`TablesOK`), of the
runs that they hold different repositories, that what a scan saw are services
that are there (`FramesOK`), and of every repository whose last tail went
through that it is settled, or that the run that is at its tail has made the
progress its label says (`SettledAs`, `ProgressAs`). The transaction goes
through states in which a scan's rows are written and the older ones are still
there (`InScan`): `OverrideHarmless` shows that an override keeps them,
whichever repository it is of, and `ScanLeaves` what is there at the end. That
rows and the names they are compared with follow an override together is
`TailFollows`. `HInv` counts: what is over the limit and what has lost its file
or row is no more than failed steps, with the exceptions of a snapshot half made
or half removed (`MatchesCounted`). `DInv` says that a row without a file is one
that is being retired, and that a snapshot says of each repository what its row
says (`FilesSound`); a drift is then exact because the calls of a version are
those told since the last full scan, when there are none from elsewhere.
`ConstantsAssumption` has two facts the code ensures: the findings of a scan
name each service once (`persistFindings` upserts by name), and 0 is no
repository.

### Servers, databases, scripts

`MapServerProofs!IInv`: a file is the database of one project (`DiskSound`), a
handle is open and alone for its file and key (`SoundPool`), the list no older
than it may be. `MapDatabaseProofs!IInv`: a version that is recorded has all its
names, and so have all before it (`Migrated`); what an opener has read is still
there (`SeenIsThere`). That no migration loses anything is a lemma about each
rewriting statement: of duplicates one survives (`SurvivorIsOne`), and ids that
are redirected keep what they stand for (`Carries`). It holds of any database
whose rows have keys and satisfy the foreign keys (`Sound`), which every
statement keeps, whatever other migrations a process could load.
`WorkerLifecycleProofs`: a worker that lives is the one in
`worker.pid` or the one that the script has in hand, by the script's label
(`Handed`), and a worker that serves has a port file (`PortKnown`).

### Answers

The rows of `ServiceGraph` are canonical and the index has the words of each
(`IInv`); the rest is about operators, for any map. Traversals are compared with
distances: `ServiceGraphProofs` shows that the levels of the recursive query are
the sets of services at each distance, that a shortest walk exists when any
does, and by the pigeonhole principle that none is longer than the number of
services. Where an induction over numbers would be natural, the proofs take the
least number of a set instead: the library's induction theorems have an operator
as a parameter.

### Only model-checked

- Liveness (`OperationsEnd`, `PendingResolved`, `LockRecovers`,
  `Recovers`, `CleanOpens`): fairness and ENABLED are out of the prover's reach.
- What `FindingsContract` computes is checked through the runs of the store,
  which take every finding through it.

## Plan

What is left to state: an abstract map in which a scan is one step, that
`ScanStore` implements and that `ScanRun` and `ScanTail` use in place of their own
one-step scan.

## Not modelled

| What | Why |
|---|---|
| The drift tools of the MCP server (versions, types, OpenAPI) | they parse manifests and sources afresh at each call and compare text; they read no state of the program |
| Parsers of the enrichment passes, code owners, discovery, agent prompts | matching of text in source files; what they find is an input of `ScanTail` and `MapAnswers` |
| Hub payload, evidence excerpts | formatting and trimming of one map into one JSON text; a payload is a model value |
| Credentials, identity, login | look-ups in files and environment; the destination they give is an input of `HubQueue` |
| `StmtCache`, the stand-alone `search()` with its vector tier | no production path reaches them |
| `status`, `verify`, listings, rendering | they format what is stored |
| Graph user interface | browser rendering; its one race (two quick changes of project, `worker/ui/modules/project-switcher.js:53`) needs a model of the page's requests only, and no text says which answer must win |
| Installation, cache pruning, release scripts | shell glue without shared state |

Hazards that were seen and that no property covers: versions of abandoned scans
are compared as texts of two formats, so that those of the same day are never
old enough (`query-engine.js:1533`; the model lets them be cleaned up or not); the
update guard that looks for a lock nobody writes (`scripts/update.sh:38`; a kill
during a scan is the crash of `ScanStore` and `ScanTail`); a PID that belongs to
another program by the time it is signalled (`scripts/worker-stop.sh:26`; a
process id of the model stays that of one process while a file or script
remembers it); sessions of two versions that restart each other's worker
(`lib/worker-restart.sh:70`; all sessions of the model use the installed version).
