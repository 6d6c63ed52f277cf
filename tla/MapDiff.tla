------------------------------- MODULE MapDiff --------------------------------
(***************************************************************************)
(* How two states of the map are compared: the engine                      *)
(* (diff/scan-version-diff.js), /arcanon:diff, which compares two scans of *)
(* the live database (cli/hub.js with diff/resolve-scan.js), and           *)
(* /arcanon:drift, which compares the snapshots of two runs                *)
(* (cli/drift-local.js).                                                   *)
(*                                                                         *)
(* A database is a record of tables, and a table is a set of rows.  A      *)
(* service has one field that is compared (type) and a connection one      *)
(* (sure); the other fields are treated the same.  A connection names the  *)
(* repository and the name of both its services, which the loader's join   *)
(* finds by id.  The token is what protocol_raw holds, as it was reported; *)
(* two spellings of one protocol are one key.                              *)
(***************************************************************************)
EXTENDS Integers, FiniteSets

Newest(S) == CHOOSE x \in S : \A y \in S : y <= x

(* The n-th greatest of a set of numbers, counted from 0.                  *)
Nth(S, n) == CHOOSE x \in S : Cardinality({y \in S : y > x}) = n

-----------------------------------------------------------------------------
(* The engine.                                                             *)

Spellings == [nats |-> "nats", NATS |-> "nats", http |-> "http"]

(* Fault: every row of the repositories the scan wrote is loaded.          *)
LoadServices_AnyScan(d, v) == d.services

LoadServices(d, v) == {s \in d.services : s.scan = v}

LoadConnections(d, v) == {c \in d.calls : c.scan = v}

ServiceKey(s) == <<s.repo, s.name>>

(* Fault: the token is compared as it was reported.                        *)
ConnectionKey_Verbatim(c) == <<c.source, c.target, c.token>>

(* The names of the services, the token trimmed and in lower case, and the *)
(* route.                                                                  *)
ConnectionKey(c) == <<c.source.name, c.target.name, Spellings[c.token]>>

ServiceMap(rows) ==
  [k \in {ServiceKey(s) : s \in rows} |->
     (CHOOSE s \in rows : ServiceKey(s) = k).type]

ConnectionMap(rows) ==
  [k \in {ConnectionKey(c) : c \in rows} |->
     (CHOOSE c \in rows : ConnectionKey(c) = k).sure]

DiffSet(before, after) ==
  [added    |-> DOMAIN after \ DOMAIN before,
   removed  |-> DOMAIN before \ DOMAIN after,
   modified |-> {k \in DOMAIN before \cap DOMAIN after : before[k] # after[k]}]

NoChange == [added |-> {}, removed |-> {}, modified |-> {}]

EmptyResult ==
  [same_scan |-> TRUE, services |-> NoChange, connections |-> NoChange]

(* d and e are the databases, same whether they are one handle.            *)
DiffScanVersions(same, d, e, v, w) ==
  IF same /\ v = w THEN EmptyResult
  ELSE [same_scan   |-> FALSE,
        services    |-> DiffSet(ServiceMap(LoadServices(d, v)),
                                ServiceMap(LoadServices(e, w))),
        connections |-> DiffSet(ConnectionMap(LoadConnections(d, v)),
                                ConnectionMap(LoadConnections(e, w)))]

-----------------------------------------------------------------------------
(* /arcanon:diff.  A selector is a scan id, HEAD~n, a date or a branch;    *)
(* dates are counted in completed scans, which complete in the order of    *)
(* their ids, and git has resolved a branch to the commit it is at.        *)

NotFound == 0

CompletedIds(d) == {s.id : s \in d.scans}

ById(d, n) == IF n \in CompletedIds(d) THEN n ELSE NotFound

(* Scans of every repository are counted together.                         *)
Head(d, n) ==
  IF n < Cardinality(CompletedIds(d)) THEN Nth(CompletedIds(d), n)
  ELSE NotFound

OnOrBefore(d, date) ==
  LET ids == {n \in CompletedIds(d) : n <= date}
  IN  IF ids = {} THEN NotFound ELSE Newest(ids)

AtCommit(d, commit) ==
  LET ids == {s.id : s \in {t \in d.scans : d.state[t.repo] = commit}}
  IN  IF ids = {} THEN NotFound ELSE Newest(ids)

ResolveScanSelector(d, selector) ==
  CASE selector.kind = "id"     -> ById(d, selector.arg)
    [] selector.kind = "head"   -> Head(d, selector.arg)
    [] selector.kind = "date"   -> OnOrBefore(d, selector.arg)
    [] selector.kind = "branch" -> AtCommit(d, selector.arg)

(* The command compares two scans of one handle on the live database.      *)
CmdDiff(d, a, b) ==
  LET v == ResolveScanSelector(d, a)
      w == ResolveScanSelector(d, b)
  IN  IF NotFound \in {v, w} THEN [answer |-> "usage error"]
      ELSE [answer |-> "diff", from |-> v, to |-> w,
            result |-> DiffScanVersions(TRUE, d, d, v, w)]

-----------------------------------------------------------------------------
(* /arcanon:drift.  A row of map_versions has an id that grows with its    *)
(* created_at, the name of its file and, unless an older release wrote it, *)
(* repos: the version each covered repository was given.                   *)

MaxShown == 10    \* the newest rows that are looked at
NoRepos  == <<>>
NoFrom == 0

(* Without repos_json: the two newest scans in the live database, of       *)
(* whichever repositories they are, and a service is its name.             *)
ServicesForVersion(d, v) ==
  LET rows == LoadServices(d, v)
  IN  [n \in {s.name : s \in rows} |->
         (CHOOSE s \in rows : s.name = n).type]

ConnectionsForVersion(d, v) == ConnectionMap(LoadConnections(d, v))

ListVersions(d) == CompletedIds(d)

RunLiveDbFallback(d) ==
  IF Cardinality(ListVersions(d)) < 2 THEN [answer |-> "one scan"]
  ELSE LET w == Head(d, 0)
           v == Head(d, 1)
       IN  [answer |-> "live", from |-> v, to |-> w,
            services    |-> DiffSet(ServicesForVersion(d, v),
                                    ServicesForVersion(d, w)),
            connections |-> DiffSet(ConnectionsForVersion(d, v),
                                    ConnectionsForVersion(d, w))]

SnapshotRows(rows) ==
  {r \in rows : Cardinality({s \in rows : s.id > r.id}) < MaxShown}

RowAt(rows, id) == CHOOSE r \in rows : r.id = id

(* The snapshot that --from names, if it is among those looked at.         *)
FromRow(rows, from) ==
  LET ids == {r.id : r \in rows}
  IN  RowAt(rows, IF from \in ids THEN from ELSE Nth(ids, 1))

(* The repositories that both runs wrote.                                  *)
SharedRepos(from, to) == DOMAIN from.repos \cap DOMAIN to.repos

(* A repository's versions in the two files.  Opening a file that is not   *)
(* there makes an empty database, and the first query throws.              *)
DriftOf(files, from, to, repo) ==
  DiffScanVersions(FALSE, files[from.file], files[to.file],
                   from.repos[repo], to.repos[repo])

Compared(files, from, to) ==
  CASE SharedRepos(from, to) = {} -> [answer |-> "nothing shared"]
    [] /\ SharedRepos(from, to) # {}
       /\ ~({from.file, to.file} \subseteq DOMAIN files) -> [answer |-> "throws"]
    [] OTHER ->
       [answer |-> "diff", from |-> from, to |-> to,
        repos |-> [r \in SharedRepos(from, to) |-> DriftOf(files, from, to, r)]]

RunDrift(d, mapVersions, files, flag) ==
  LET rows == SnapshotRows(mapVersions)
      to   == RowAt(rows, Newest({r.id : r \in rows}))
  IN  CASE Cardinality(rows) < 2 -> [answer |-> "run it twice"]
        [] Cardinality(rows) >= 2 /\ to.repos = NoRepos -> RunLiveDbFallback(d)
        [] OTHER -> Compared(files, FromRow(rows, flag), to)

=============================================================================
