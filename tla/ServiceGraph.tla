---------------------------- MODULE ServiceGraph ----------------------------
(***************************************************************************)
(* The read side of one impact map: what worker/db/query-engine.js and     *)
(* worker/mcp/server.js answer about the services, connections and exposed *)
(* endpoints that the scans stored.                                        *)
(*                                                                         *)
(*  - the impact of a service, computed twice in the code: by the CTEs of  *)
(*    the QueryEngine and by the one of the MCP tool, whose visited path   *)
(*    is delimited differently;                                            *)
(*  - the subgraph around a service (queryGraph);                          *)
(*  - the whole graph, its summary and its pages (getGraph);               *)
(*  - the calls that no exposed endpoint answers (detectMismatches).       *)
(*                                                                         *)
(* MapAnswers adds the questions about files, words and owners. The map    *)
(* changes row by row, as the transactions of ScanStore write it, and      *)
(* every question is asked in every state. A path or a file is the         *)
(* sequence of its words; a template variable is a member of Variables.    *)
(***************************************************************************)
EXTENDS Naturals, FiniteSets, Sequences, SequencesExt, FiniteSetsExt

CONSTANTS Count,      \* services have the row ids 1 .. Count
          NameOf,     \* their names: unique in a repository only
          ScanOf,     \* scan_version_id of each service, 0 for NULL
          BaseOf,     \* base_path of each service, <<>> for none and for "/"
          Calls,      \* the connections a scan may report
          Endpoints,  \* the endpoints a scan may report as exposed
          Terms,      \* words of paths and files, protocols, methods
          Variables,  \* path segments that are template variables
          MaxDepth,   \* MAX_TRANSITIVE_DEPTH and maxDepth: 7 in the code
          GraphDepth, \* the cap of queryGraph: 5 in the code
          MaxRows     \* bound: rows written to the two tables and the index

Services == 1 .. Count
Directions == {"downstream", "upstream"}
NullMethod == "null"
NullPath == <<"null">>
Blank == "_"

Buckets == {"rest", "grpc", "events", "db", "internal", "sdk",
            "k8s", "tf", "helm", "import"}

(* The columns of the two tables that the answers read; nth tells rows of  *)
(* one dedup key apart, and is 0 in what an agent reports.                 *)
ConnectionRow ==
  [source : Services, target : Services, protocol : Terms, method : Terms,
   path : Seq(Terms), file : Seq(Terms), handler : Seq(Terms), nth : Nat]

EndpointRow == [service : Services, method : Terms, path : Seq(Terms)]

ASSUME ConstantsAssumption ==
  /\ Count \in Nat /\ MaxDepth \in Nat \ {0} /\ GraphDepth \in Nat \ {0}
  /\ MaxRows \in Nat
  /\ Buckets \cup {"other", "null", Blank} \subseteq Terms
  /\ Calls \subseteq ConnectionRow /\ \A c \in Calls : c.nth = 0
  /\ Endpoints \subseteq EndpointRow
  /\ Variables \subseteq Terms \ {"null"}
  /\ NameOf \in [Services -> Terms]
  /\ ScanOf \in [Services -> Nat]
  /\ BaseOf \in [Services -> Seq(Terms)]

VARIABLES connections,  \* the set of rows of connections
          exposed,      \* the set of rows of exposed_endpoints
          index         \* the entries of connections_fts

vars == <<connections, exposed, index>>

(***************************************************************************)
(* Normalisation.                                                          *)
(***************************************************************************)

(* PROTOCOL_ALIASES: the tokens an agent may report, and their bucket. *)
Aliases == [kafka |-> "events", nats |-> "events", sse |-> "events",
            postgres |-> "db", redis |-> "db",
            graphql |-> "rest", http |-> "rest"]

CanonicalProtocol(token) ==
  IF token \in Buckets THEN token
  ELSE IF token \in DOMAIN Aliases THEN Aliases[token] ELSE "other"

CanonicalizePath(p) ==
  [i \in DOMAIN p |-> IF p[i] \in Variables THEN Blank ELSE p[i]]

(* The set of paths that stripping the base path leaves: none or one. *)
StripBasePath(p, base) ==
  IF base # <<>> /\ IsPrefix(base, p)
  THEN {SubSeq(p, Len(base) + 1, Len(p))} ELSE {}

(***************************************************************************)
(* Impact: who is reached from a service along the connections.            *)
(***************************************************************************)

Neighbours(i, direction) ==
  IF direction = "downstream"
  THEN {c.target : c \in {k \in connections : k.source = i}}
  ELSE {c.source : c \in {k \in connections : k.target = i}}

(* ',root,...,last,': every service of the walk is between two commas. *)
Delimited(p) == ToSet(p)

(* 'root,...,last': LIKE '%,x,%' finds neither the first nor the last. *)
Undelimited(p) == {p[i] : i \in 2 .. Len(p) - 1}

Seen(p, padded) == IF padded THEN Delimited(p) ELSE Undelimited(p)

(* The rows of a recursive CTE: walks of at most MaxDepth steps that never *)
(* go to a service which is found in the path column.                      *)
Walks(s, direction, padded) ==
  LET w[n \in 1 .. MaxDepth] ==
        IF n = 1 THEN {<<s, t>> : t \in Neighbours(s, direction)}
        ELSE UNION {{Append(p, t) :
                       t \in Neighbours(Last(p), direction)
                                 \ Seen(p, padded)} :
                    p \in w[n - 1]}
  IN  UNION {w[n] : n \in 1 .. MaxDepth}

Rows(walks) == {[id |-> Last(p), depth |-> Len(p) - 1] : p \in walks}

TransitiveImpact_EveryDepth(s, direction) ==
  Rows(Walks(s, direction, TRUE))

(* transitiveImpact: one row per service, at its least depth. *)
TransitiveImpact(s, direction) ==
  LET rows == Rows(Walks(s, direction, TRUE))
  IN  {r \in rows : \A q \in rows : q.id = r.id => r.depth <= q.depth}

(* The row that SELECT ... WHERE name = ? returns first. *)
Named(n) == Min({i \in Services : NameOf[i] = n})

QueryImpact_Late(n, direction) ==
  LET rows == Rows(Walks(Named(n), direction, FALSE))
  IN  [results |-> rows,
       truncated |-> \E r \in rows : r.depth > MaxDepth]

(* queryImpact with transitive: a row per depth, not per service. *)
QueryImpact(n, direction) ==
  LET rows == Rows(Walks(Named(n), direction, FALSE))
  IN  [results |-> rows,
       truncated |-> \E r \in rows : r.depth >= MaxDepth]

(***************************************************************************)
(* queryGraph: the subgraph around a service.                              *)
(***************************************************************************)

Traversal(s, direction, depth) ==
  LET t[n \in 1 .. depth] ==
        IF n = 1 THEN Neighbours(s, direction)
        ELSE t[n - 1] \cup UNION {Neighbours(i, direction) : i \in t[n - 1]}
  IN  t[depth]

EdgesAmong_TargetsOnly(ids) ==
  {<<NameOf[c.source], NameOf[c.target]>> :
     c \in {k \in connections : k.target \in ids}}

(* One edge per pair of names among the services reached and the root. *)
EdgesAmong(ids) ==
  {<<NameOf[c.source], NameOf[c.target]>> :
     c \in {k \in connections : k.source \in ids /\ k.target \in ids}}

QueryGraph(n, depth, directions) ==
  LET root == Named(n)
      Reached(d) == Traversal(root, d, Min({depth, GraphDepth}))
  IN  [nodes |-> (UNION {Reached(d) : d \in directions}) \ {root},
       edges |-> UNION {EdgesAmong({root} \cup Reached(d)) :
                          d \in directions}]

(***************************************************************************)
(* detectMismatches.                                                       *)
(***************************************************************************)

EndpointsOf(s) == {e \in exposed : e.service = s}

(* Only calls over HTTP or gRPC, with a path, to a service that exposes. *)
Candidates ==
  {c \in connections : /\ c.protocol \in {"rest", "grpc"}
                       /\ c.path # NullPath
                       /\ EndpointsOf(c.target) # {}}

IsExposed_AsStored(c, p) ==
  \E e \in EndpointsOf(c.target) :
    /\ e.path = p
    /\ \/ c.method = NullMethod
       \/ e.method \in {c.method, NullMethod}

(* A method that is missing on either side matches every method. *)
IsExposed(c, p) ==
  \E e \in EndpointsOf(c.target) :
    /\ CanonicalizePath(e.path) = CanonicalizePath(p)
    /\ \/ c.method = NullMethod
       \/ e.method \in {c.method, NullMethod}

DetectMismatches ==
  {c \in Candidates :
     /\ ~IsExposed(c, c.path)
     /\ \A p \in StripBasePath(c.path, BaseOf[c.target]) : ~IsExposed(c, p)}

(***************************************************************************)
(* getGraph.                                                               *)
(***************************************************************************)

LatestScan(ids) == Max({0} \cup {ScanOf[i] : i \in ids})

GraphSummary ==
  [services |-> Count, connections |-> Cardinality(connections),
   latest |-> LatestScan(Services)]

(* The protocol is canonicalised on the way out; protocol_raw is not. *)
Shown(c) == [source |-> c.source, target |-> c.target,
             protocol |-> CanonicalProtocol(c.protocol)]

WholeGraph ==
  [services |-> Services, connections |-> connections,
   shown |-> {Shown(c) : c \in connections},
   mismatches |-> DetectMismatches, latest |-> LatestScan(Services)]

GraphPage_SourceOnly(limit, offset) ==
  LET page  == {i \in Services : i > offset /\ i <= offset + limit}
      names == {NameOf[i] : i \in page}
  IN  [services |-> page,
       connections |-> {c \in connections : NameOf[c.source] \in names},
       truncated |-> offset + Cardinality(page) < Count,
       mismatches |-> DetectMismatches,
       latest |-> LatestScan(page)]

(* LIMIT and OFFSET; the connections are chosen by the services' names, *)
(* and are all of them when the page is empty.                          *)
GraphPage(limit, offset) ==
  LET page  == {i \in Services : i > offset /\ i <= offset + limit}
      names == {NameOf[i] : i \in page}
  IN  [services |-> page,
       connections |->
         {c \in connections : \/ page = {}
                              \/ NameOf[c.source] \in names
                              \/ NameOf[c.target] \in names},
       truncated |-> offset + Cardinality(page) < Count,
       mismatches |-> DetectMismatches,
       latest |-> LatestScan(page)]

(***************************************************************************)
(* The map grows.                                                          *)
(***************************************************************************)

(* A row id: the dedup key and which row of that key it is, 0 for a call *)
(* that is not stored.                                                   *)
Key(c)   == <<c.source, c.target, c.protocol, c.method, c.path>>
RowId(c) == <<Key(c), c.nth>>

(* What the full text index holds of a row: the words of its path, its     *)
(* protocol and its files. A blanked variable is no word.                  *)
Words(c) == (IF c.path = NullPath THEN {} ELSE ToSet(c.path) \ {Blank})
              \cup {c.protocol} \cup ToSet(c.file) \cup ToSet(c.handler)

Entry(c) == [row |-> RowId(c), words |-> Words(c)]

Room == Cardinality(index) + Cardinality(exposed) < MaxRows

Init == connections = {} /\ exposed = {} /\ index = {}

(* What is stored of a call: a canonical path and protocol. *)
Stored(call) == [call EXCEPT !.protocol = CanonicalProtocol(@),
                             !.path = CanonicalizePath(@)]

(* INSERT OR REPLACE finds its row by the dedup index, which no NULL *)
(* matches.                                                          *)
Replaced(call) == {c \in connections : /\ Key(c) = Key(call)
                                       /\ c.method # NullMethod
                                       /\ c.path # NullPath}

(* Fault: the id of a deleted row is given again. *)
NextRow_Reused(call) ==
  1 + Max({0} \cup {c.nth : c \in {k \in connections \ Replaced(call) :
                                     Key(k) = Key(call)}})

(* AUTOINCREMENT: an id that any trace is left of is not given again. *)
NextRow(call) ==
  1 + Max({0} \cup {e.row[2] : e \in {k \in index : k.row[1] = Key(call)}})

(* The insert trigger indexes the row; a REPLACE fires no delete trigger,  *)
(* so that the entry of the row it replaced stays in the index. A DELETE   *)
(* fires it, and leaves the map as if the row had never been: it is not an *)
(* action here.                                                            *)
UpsertConnection(call) ==
  LET stored == Stored(call)
      row    == [stored EXCEPT !.nth = NextRow(stored)]
  IN  /\ Room
      /\ connections' = (connections \ Replaced(stored)) \cup {row}
      /\ index' = index \cup {Entry(row)}
      /\ UNCHANGED exposed

(* The endpoints are stored as the agent wrote them. *)
ExposeEndpoint(e) ==
  /\ Room
  /\ exposed' = exposed \cup {e}
  /\ UNCHANGED <<connections, index>>

Next == \/ \E call \in Calls : UpsertConnection(call)
        \/ \E e \in Endpoints : ExposeEndpoint(e)

Spec == Init /\ [][Next]_vars
=============================================================================
