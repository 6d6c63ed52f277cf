------------------------------ MODULE MapServer ------------------------------
(***************************************************************************)
(* A process that answers questions about the maps of several projects:    *)
(* the worker (server/http.js) or the MCP server of a session              *)
(* (mcp/server.js).  It opens a project's database when it is first asked  *)
(* for, keeps the handle in a pool (db/pool.js) and closes it when nobody  *)
(* asked for a while.  Other processes map projects, and users remove      *)
(* their databases, meanwhile.                                             *)
(*                                                                         *)
(* Both servers find the handle and use it without an await in between, so *)
(* a request is one step, and the sweep runs between requests only.        *)
(* A path is the sequence of its directories; a project is named by its    *)
(* root, which stands for the hash of it, too.                             *)
(***************************************************************************)
EXTENDS Integers, Sequences, FiniteSets, SequencesExt, FiniteSetsExt

CONSTANTS
  Projects,       \* roots of the projects that may be mapped
  ReposOf,        \* the repositories of each of them
  Spellings,      \* ways to write a path: plainly, with a slash at its end
  Cwd,            \* ARCANON_PROJECT_ROOT, or where the session runs
  DataDir,        \* ~/.arcanon/projects
  Routes,         \* the routes of the worker that are asked
  Tools,          \* the tools of the MCP server that are called
  Servers,        \* the servers of this instance: "worker", "mcp"
  IdleTTL,        \* IDLE_TTL_MS, in ticks
  SweepEvery,     \* ticks from one sweep to the next
  ListTTL,        \* LIST_PROJECTS_TTL_MS, in ticks
  MaxFiles,       \* bound on the databases ever created
  NoFile,         \* a project without a database
  NoEngine,       \* null in place of a query engine
  NoList,         \* no cached list of projects
  None            \* a parameter that is not given

VARIABLES
  server,         \* which of the two this process is
  disk,           \* the file that is the database of each project
  rows,           \* what each file ever created holds, also once removed
  pool,           \* the pooled handles
  list,           \* _listProjectsCache
  sinceSweep,     \* ticks since the last sweep
  unchanged,      \* ticks since a database appeared, grew or was removed
  reply           \* what this step answered, if it is a request

vars == <<server, disk, rows, pool, list, sinceSweep, unchanged, reply>>

-----------------------------------------------------------------------------
(* Paths.                                                                  *)

Repos == UNION {ReposOf[p] : p \in Projects}
Names == {Last(r) : r \in Repos}
Roots == {[path |-> p, as |-> s] : p \in Projects, s \in Spellings}

(* path.resolve drops how a path was spelled.                              *)
Key_AsSpelled(root) == <<root.path, root.as>>
Key(root) == <<root.path>>

CommonParent(paths) ==
  IF Cardinality(paths) = 1 THEN Front(CHOOSE p \in paths : TRUE)
                            ELSE LongestCommonPrefix(paths)

-----------------------------------------------------------------------------
(* The pool.  An entry is a handle: the file it was opened on, whether it  *)
(* is still open, and the ticks since it was last asked for.               *)

Exists(p) == disk[p] # NoFile

Entry(key, p) ==
  [key |-> key, file |-> disk[p], open |-> TRUE, idle |-> 0]

Handle == [key : {<<p>> : p \in Projects}, file : 1 .. MaxFiles,
           open : BOOLEAN, idle : Nat]

Touched(entries, e) == (entries \ {e}) \cup {[e EXCEPT !.idle = 0]}

(* What a lookup makes of the pool, and what it returns: an engine, null,  *)
(* or null because opening the file threw.                                 *)
Found(entries, e) == [pool |-> entries, engine |-> e, threw |-> FALSE]
Miss(entries)     == Found(entries, NoEngine)

Opening(entries, key, p) ==
  {Found(entries \cup {Entry(key, p)}, Entry(key, p)),
   [Miss(entries) EXCEPT !.threw = TRUE]}

Cached(entries, key) == {e \in entries : e.key = key}

GetQueryEngine(entries, root) ==
  IF Cached(entries, Key(root)) # {}
  THEN {Found(Touched(entries, e), e) : e \in Cached(entries, Key(root))}
  ELSE IF root.path \in Projects /\ Exists(root.path)
       THEN Opening(entries, Key(root), root.path)
       ELSE {Miss(entries)}

(* Fault: only what is open already is found.                              *)
GetQueryEngineByHash_PoolOnly(entries, p) ==
  IF Cached(entries, <<p>>) # {} /\ Exists(p)
  THEN {Found(Touched(entries, e), e) : e \in Cached(entries, <<p>>)}
  ELSE {Miss(entries)}

(* The cache is looked at only if the file exists.                         *)
GetQueryEngineByHash(entries, p) ==
  IF ~Exists(p) THEN {Miss(entries)}
  ELSE IF Cached(entries, <<p>>) # {}
       THEN {Found(Touched(entries, e), e) : e \in Cached(entries, <<p>>)}
       ELSE Opening(entries, <<p>>, p)

HasRepo(file, name) == \E r \in rows[file].repos : Last(r) = name

Holding(name) ==
  {p \in Projects : Exists(p) /\ HasRepo(disk[p], name)}

(* The root is guessed from the repositories; if no database belongs to    *)
(* the guess, the one that was found is opened by its hash.                *)
GuessedRoot(p) == [path |-> CommonParent(rows[disk[p]].repos),
                   as |-> CHOOSE s \in Spellings : TRUE]

OrByHash(by, p) ==
  IF by.engine # NoEngine THEN {by} ELSE GetQueryEngineByHash(by.pool, p)

OpenMatch_RootOnly(entries, p) == GetQueryEngine(entries, GuessedRoot(p))
OpenMatch(entries, p) ==
  UNION {OrByHash(by, p) : by \in GetQueryEngine(entries, GuessedRoot(p))}

(* Pooled handles come first and are not touched; of several databases     *)
(* that have the repository, the first in the directory is taken.          *)
GetQueryEngineByRepo(entries, name) ==
  LET having == {e \in entries : e.open /\ HasRepo(e.file, name)}
  IN  IF having # {} THEN {Found(entries, e) : e \in having}
      ELSE IF Holding(name) = {} THEN {Miss(entries)}
           ELSE UNION {OpenMatch(entries, p) : p \in Holding(name)}

-----------------------------------------------------------------------------
(* The list of projects.                                                   *)

Shown(p) ==
  /\ Exists(p) /\ rows[disk[p]].scanned
  /\ CommonParent(rows[disk[p]].repos) # <<>>
  /\ Head(CommonParent(rows[disk[p]].repos)) # "tmp"

ListProjectsInternal == {p \in Projects : Shown(p)}

(* The cached value, or a new one; the time stamp is that of the reading.  *)
ListProjects_Sliding ==
  IF list # NoList /\ list.age < ListTTL
  THEN [list EXCEPT !.age = 0] ELSE [value |-> ListProjectsInternal, age |-> 0]

ListProjects ==
  IF list # NoList /\ list.age < ListTTL
  THEN list ELSE [value |-> ListProjectsInternal, age |-> 0]

-----------------------------------------------------------------------------

(* Each of these finds its database and asks it.                           *)
ImpactTools ==
  {"impact_query", "impact_changed", "impact_graph", "impact_search"}
DriftTools == {"drift_versions", "drift_types", "drift_openapi"}

ConstantsAssumption ==
  /\ \A p \in Projects : ReposOf[p] # {} /\ p # <<>>
  /\ Routes \subseteq {"quality", "freshness", "verify", "graph", "impact",
                       "service", "versions"}
  /\ Tools \subseteq ImpactTools \cup DriftTools \cup {"impact_audit_log"}
  /\ {IdleTTL, SweepEvery, ListTTL, MaxFiles} \subseteq Nat \ {0}
  /\ NoFile \notin 1 .. MaxFiles /\ NoEngine \notin Handle
  /\ None \notin Routes \cup Tools

ASSUME ConstantsAssumption

Asked(what, by) == [what |-> what, by |-> by]
Reply(q, status, found) ==
  [request |-> q, status |-> status, threw |-> found.threw,
   file |-> IF found.engine = NoEngine THEN NoFile ELSE found.engine.file]

NoReply == Reply(Asked(None, None), None, Miss({}))

Init ==
  /\ server \in Servers
  /\ disk = [p \in Projects |-> NoFile]
  /\ rows = <<>>
  /\ pool = {} /\ list = NoList
  /\ sinceSweep = 0 /\ unchanged = 0
  /\ reply = NoReply

Holds(repos, complete) == [repos |-> repos, scanned |-> complete]

Added(file, repos, complete) ==
  [rows EXCEPT ![file] = Holds(@.repos \cup repos, @.scanned \/ complete)]

(* Another process maps some repositories of a project.  A scan that       *)
(* failed leaves the rows of the repositories, and no completed scan.      *)
Map(p, repos, complete) ==
  /\ IF Exists(p)
     THEN /\ rows' = Added(disk[p], repos, complete)
          /\ UNCHANGED disk
     ELSE /\ Len(rows) < MaxFiles
          /\ rows' = Append(rows, Holds(repos, complete))
          /\ disk' = [disk EXCEPT ![p] = Len(rows) + 1]
  /\ unchanged' = 0
  /\ reply' = NoReply
  /\ UNCHANGED <<server, pool, list, sinceSweep>>

(* docs/getting-started.md has users remove ~/.arcanon; handles to removed *)
(* files go on working.                                                    *)
RemoveMap(p) ==
  /\ Exists(p)
  /\ disk' = [disk EXCEPT ![p] = NoFile]
  /\ unchanged' = 0
  /\ reply' = NoReply
  /\ UNCHANGED <<server, rows, pool, list, sinceSweep>>

Tick ==
  /\ sinceSweep < SweepEvery
  /\ sinceSweep' = sinceSweep + 1
  /\ unchanged' = Min({unchanged + 1, ListTTL})
  /\ pool' = {[e EXCEPT !.idle = @ + 1] : e \in pool}
  /\ list' = IF list = NoList THEN NoList
             ELSE [list EXCEPT !.age = Min({@ + 1, ListTTL})]
  /\ reply' = NoReply
  /\ UNCHANGED <<server, disk, rows>>

Expired_Late(e) == e.idle > IdleTTL + SweepEvery
Expired(e) == e.idle > IdleTTL

Swept_Closed(entries) ==
  {IF Expired(e) THEN [e EXCEPT !.open = FALSE, !.idle = 0] ELSE e :
     e \in entries}
Swept(entries) == {e \in entries : ~Expired(e)}

SweepIdleEntries ==
  /\ sinceSweep = SweepEvery
  /\ sinceSweep' = 0
  /\ pool' = Swept(pool)
  /\ list' = IF pool' # pool THEN NoList ELSE list
  /\ reply' = NoReply
  /\ UNCHANGED <<server, disk, rows, unchanged>>

(* The end of the worker, and the start of the next one.                   *)
CloseAll ==
  /\ server = "worker" /\ pool # {}
  /\ pool' = {} /\ list' = NoList
  /\ sinceSweep' = 0
  /\ reply' = NoReply
  /\ UNCHANGED <<server, disk, rows, unchanged>>

-----------------------------------------------------------------------------
(* The statuses each route of the worker may answer with.  The engine has  *)
(* neither getImpact nor getService, and both routes fail.                 *)

Completed(e) ==
  IF ~e.open THEN {"500"}
  ELSE IF rows[e.file].scanned THEN {"200"} ELSE {"503"}

ScanQuality(by, e) ==
  IF e # NoEngine THEN Completed(e)
  ELSE IF by.kind = "root" THEN {"404"} ELSE {"503"}

ScanFreshness(by, e) == ScanQuality(by, e)

(* It needs the root, to find the files, and may be given a connection.    *)
Verify(by, e) ==
  IF by.kind # "root" THEN {"400"}
  ELSE IF e = NoEngine THEN {"404"}
  ELSE IF e.open THEN {"200", "400", "404"} ELSE {"400", "500"}

Graph(e) ==
  IF e = NoEngine THEN {"503"} ELSE IF e.open THEN {"200"} ELSE {"500"}

MapVersions(e) == Graph(e)

Impact(e) == IF e = NoEngine THEN {"503"} ELSE {"400", "500"}

Service(e) == IF e = NoEngine THEN {"503"} ELSE {"500"}

Statuses(route, by, e) ==
  CASE route = "quality"   -> ScanQuality(by, e)
    [] route = "freshness" -> ScanFreshness(by, e)
    [] route = "verify"    -> Verify(by, e)
    [] route = "graph"     -> Graph(e)
    [] route = "versions"  -> MapVersions(e)
    [] route = "impact"    -> Impact(e)
    [] route = "service"   -> Service(e)

(* ?project=, ?hash= or neither.                                           *)
Questions ==
  [kind : {"root"}, root : Roots] \cup [kind : {"hash"}, path : Projects]
    \cup {[kind |-> "none"]}

GetQE(by) ==
  CASE by.kind = "root" -> GetQueryEngine(pool, by.root)
    [] by.kind = "hash" -> GetQueryEngineByHash(pool, by.path)
    [] OTHER -> {Miss(pool)}

Get(route, by) ==
  /\ server = "worker"
  /\ \E found \in GetQE(by) :
       /\ pool' = found.pool
       /\ \E status \in Statuses(route, by, found.engine) :
            reply' = Reply(Asked(route, by), status, found)
  /\ UNCHANGED <<server, disk, rows, list, sinceSweep, unchanged>>

GetProjects ==
  /\ server = "worker"
  /\ list' = ListProjects
  /\ reply' = Reply(Asked("projects", None), "200", Miss(pool))
  /\ UNCHANGED <<server, disk, rows, pool, sinceSweep, unchanged>>

(* POST /scan takes a project, never a hash.  The row of the repository is *)
(* written before the scan, and stays if that throws.                      *)
PostScan(by, repo, valid) ==
  /\ server = "worker"
  /\ \E found \in GetQE(by) :
       LET e == found.engine
           Answered(status) == reply' = Reply(Asked("scan", by), status, found)
       IN  /\ pool' = found.pool
           /\ \/ e = NoEngine /\ Answered("503") /\ UNCHANGED rows
              \/ e # NoEngine /\ ~valid /\ Answered("400") /\ UNCHANGED rows
              \/ /\ e # NoEngine /\ valid /\ e.open /\ Answered("200")
                 /\ rows' = Added(e.file, {repo}, TRUE)
              \/ /\ e # NoEngine /\ valid /\ Answered("500")
                 /\ rows' \in {rows, Added(e.file, {repo}, FALSE)}
  /\ unchanged' = IF rows' # rows THEN 0 ELSE unchanged
  /\ UNCHANGED <<server, disk, list, sinceSweep>>

-----------------------------------------------------------------------------
(* The tools of the MCP server.                                            *)

ToolQuestions ==
  [kind : {"root"}, root : Roots] \cup [kind : {"hash"}, path : Projects]
    \cup [kind : {"name"}, name : Names] \cup {[kind |-> "none"]}

(* An absolute path is looked up only inside of the data directory, where  *)
(* no project has its root.                                                *)
ResolveDb(by) ==
  CASE by.kind = "none" -> GetQueryEngine(pool, Cwd)
    [] by.kind = "root" -> IF IsPrefix(DataDir, by.root.path)
                           THEN GetQueryEngine(pool, by.root)
                           ELSE {Miss(pool)}
    [] by.kind = "hash" -> GetQueryEngineByHash(pool, by.path)
    [] by.kind = "name" -> GetQueryEngineByRepo(pool, by.name)

(* Without a project and without a database most tools answer nothing      *)
(* found, the audit log no_scan_data.                                      *)
ToolStatus(tool, by, e) ==
  IF e # NoEngine THEN IF e.open THEN "ok" ELSE "error"
  ELSE IF by.kind # "none" \/ tool = "impact_audit_log" THEN "no_scan_data"
  ELSE "empty"

CallTool(tool, by) ==
  /\ server = "mcp"
  /\ \E found \in ResolveDb(by) :
       /\ pool' = found.pool
       /\ reply' = Reply(Asked(tool, by),
                         ToolStatus(tool, by, found.engine), found)
  /\ UNCHANGED <<server, disk, rows, list, sinceSweep, unchanged>>

(* impact_scan asks the worker, if it answers, to scan a repository of no  *)
(* project, which it refuses.                                              *)
CallScan ==
  /\ server = "mcp"
  /\ \E status \in {"unavailable", "error"} :
       reply' = Reply(Asked("impact_scan", None), status, Miss(pool))
  /\ UNCHANGED <<server, disk, rows, pool, list, sinceSweep, unchanged>>

-----------------------------------------------------------------------------

Others ==
  \E p \in Projects :
    \/ RemoveMap(p)
    \/ \E r \in (SUBSET ReposOf[p]) \ {{}}, complete \in BOOLEAN :
         Map(p, r, complete)

Request ==
  \/ GetProjects \/ CallScan
  \/ \E route \in Routes, by \in Questions : Get(route, by)
  \/ \E root \in Roots, valid \in BOOLEAN : \E repo \in ReposOf[root.path] :
       PostScan([kind |-> "root", root |-> root], repo, valid)
  \/ \E repo \in Repos : PostScan([kind |-> "none"], repo, TRUE)
  \/ \E tool \in Tools, by \in ToolQuestions : CallTool(tool, by)

Next == Others \/ Tick \/ SweepIdleEntries \/ CloseAll \/ Request

Spec == Init /\ [][Next]_vars

=============================================================================
