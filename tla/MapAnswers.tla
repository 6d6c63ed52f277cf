----------------------------- MODULE MapAnswers -----------------------------
(***************************************************************************)
(* The answers of the MCP tools that go beyond the graph itself: the       *)
(* direct neighbours of a service, the services that changed files affect, *)
(* the search for a word, and the owners and external systems that the     *)
(* replies are annotated with.                                             *)
(*                                                                         *)
(* The graph page reads owners and external systems by service id          *)
(* (getGraph); the tools read them by service name (enrich*Result).        *)
(***************************************************************************)
EXTENDS ServiceGraph

CONSTANTS Parts,      \* <<w, v, p>>: w stands in the longer word v, at place p
          OwnerOf,    \* node_metadata: the owner of each service, or NoOwner
          ActorEdges, \* actor_connections: calls to external systems
          NoOwner     \* no enricher found an owner

ASSUME AnswersAssumption ==
  /\ Parts \subseteq Terms \X Terms \X {"start", "middle", "end"}
  /\ DOMAIN OwnerOf = Services
  /\ \A a \in ActorEdges : a.service \in Services

(* Where the k-th word of a query may stand within a longer word: nothing  *)
(* but the last may have letters after it, nothing but the first before.   *)
Places(q, k) ==
  {p \in {"start", "middle", "end"} : /\ p # "end" => k = Len(q)
                                     /\ p # "start" => k = 1}

(* LIKE '%q%': q is a substring of the text. What stands between the words *)
(* is left out.                                                            *)
Holds(text, q) ==
  \E i \in 0 .. Len(text) - Len(q) : \A k \in DOMAIN q :
    \/ q[k] = text[i + k]
    \/ \E p \in Places(q, k) : <<q[k], text[i + k], p>> \in Parts

PathHolds(c, q) == c.path # NullPath /\ Holds(c.path, q)

(***************************************************************************)
(* One hop: directImpact and queryImpact without transitive.               *)
(***************************************************************************)

DirectImpact(s, direction) ==
  IF direction = "downstream" THEN {c \in connections : c.source = s}
  ELSE {c \in connections : c.target = s}

FarEnd(c, direction) == IF direction = "downstream" THEN c.target ELSE c.source

(* One row per connection, only those whose path holds the endpoint. *)
QueryDirect(n, direction, endpoint) ==
  {[service |-> NameOf[FarEnd(c, direction)], connection |-> c] :
     c \in {k \in DirectImpact(Named(n), direction) :
              endpoint = <<>> \/ PathHolds(k, endpoint)}}

(***************************************************************************)
(* queryChanged: the services that changed files affect.                   *)
(***************************************************************************)

InFile(c, f) == Holds(c.file, f) \/ Holds(c.handler, f)

(* A service of that name and a connection that it is an end of. *)
IsUse(use, n) ==
  NameOf[use[1]] = n /\ use[1] \in {use[2].source, use[2].target}

(* SELECT s.name, COUNT(c.id) ... GROUP BY s.name for one file. *)
CountIn(f, n) ==
  Cardinality({u \in Services \X connections :
                 IsUse(u, n) /\ InFile(u[2], f)})

(* Fault: only the files that make the call are looked at. *)
QueryChanged_CallersOnly(files) ==
  LET Hits(n) == {i \in DOMAIN files :
                    \E c \in connections : /\ Holds(c.file, files[i])
                                           /\ n = NameOf[c.source]}
  IN  {[service |-> n, count |-> CountIn(files[Min(Hits(n))], n)] :
         n \in {m \in ToSet(NameOf) : Hits(m) # {}}}

(* The files are those that git lists, none when git fails or the range is *)
(* refused. Each service counts its connections in the first of them that  *)
(* has any.                                                                *)
QueryChanged(files) ==
  LET Hits(n) == {i \in DOMAIN files : CountIn(files[i], n) > 0}
  IN  {[service |-> n, count |-> CountIn(files[Min(Hits(n))], n)] :
         n \in {m \in ToSet(NameOf) : Hits(m) # {}}}

(***************************************************************************)
(* querySearch.                                                            *)
(***************************************************************************)

(* connections_fts MATCH, joined with the rows that are there: all of the  *)
(* words, each a whole word of one of the columns.                         *)
FtsHits(q) ==
  {c \in connections :
     \E e \in index : e.row = RowId(c) /\ ToSet(q) \subseteq e.words}

LikeHits(q) == {c \in connections : PathHolds(c, q) \/ Holds(c.file, q)}

(* Words with blanks between them are an FTS5 query, and its answer stands *)
(* though it may be empty. With a slash, a dot or a hyphen between them it *)
(* throws, and LIKE answers. Operators, phrases and wildcards are not      *)
(* asked for. The process of the tools connects to no ChromaDB, so its     *)
(* tier is left out, and so is the limit.                                  *)
QuerySearch(q, blanks) ==
  IF blanks THEN [results |-> FtsHits(q), mode |-> "fts5"]
  ELSE [results |-> LikeHits(q), mode |-> "sql_fallback"]

(***************************************************************************)
(* Owners and external systems.                                            *)
(***************************************************************************)

(* getGraph: by service id. *)
GraphOwner(s) == OwnerOf[s]

(* An edge to an external system keeps its protocol as the agent wrote it  *)
(* in raw, and rows of an older release in protocol.                       *)
GraphActors(s) ==
  {[actor |-> a.actor, protocol |-> CanonicalProtocol(a.protocol),
    raw |-> IF a.raw = "" THEN a.protocol ELSE a.raw] :
     a \in {b \in ActorEdges : b.service = s}}

(* Fault: the rows of every service are merged. *)
OwnersNamed_Any(n) ==
  LET found == {OwnerOf[s] : s \in Services} \ {NoOwner}
  IN  IF found = {} THEN {NoOwner} ELSE found

(* The tools: by name. Of the services that share it the row read last     *)
(* wins, in no order the query asks for.                                   *)
OwnersNamed(n) ==
  LET found == {OwnerOf[s] : s \in {t \in Services : NameOf[t] = n}}
                 \ {NoOwner}
  IN  IF found = {} THEN {NoOwner} ELSE found

(* The results only: what queryImpact says of a cut is dropped. *)
EnrichImpactResult(results) ==
  {[row |-> r, owners |-> OwnersNamed(NameOf[r.id])] : r \in results}

EnrichAffectedResult(affected) ==
  {[row |-> r, owners |-> OwnersNamed(r.service)] : r \in affected}

(* The external systems the source of a hit calls, as stored. *)
EnrichSearchResult(hits) ==
  {[row |-> c,
    actors |-> {[actor |-> a.actor, protocol |-> a.protocol] :
                  a \in {b \in ActorEdges :
                           NameOf[b.service] = NameOf[c.source]}}] :
     c \in hits}
=============================================================================
