-------------------------- MODULE ServiceGraphProps --------------------------
(***************************************************************************)
(* What the answers about one impact map promise.                          *)
(***************************************************************************)
EXTENDS MapAnswers

CONSTANTS Changes,  \* the lists of changed files that git may report
          Queries   \* the words that are searched for

ASSUME QuestionsAssumption ==
  Changes \subseteq Seq(Seq(Terms)) /\ Queries \subseteq Seq(Terms)

(* The services at the end of a walk of exactly n connections. *)
After(s, direction, n) ==
  LET f[k \in 0 .. n] ==
        IF k = 0 THEN {s}
        ELSE UNION {Neighbours(i, direction) : i \in f[k - 1]}
  IN  f[n]

(* The length of the shortest walk, 0 when there is none in the cap. *)
Distance(s, t, direction) ==
  LET ns == {n \in 1 .. MaxDepth : t \in After(s, direction, n)}
  IN  IF ns = {} THEN 0 ELSE Min(ns)

Opposite(d) == IF d = "downstream" THEN "upstream" ELSE "downstream"

Found(rows) == {r.id : r \in rows}

(* The impact of the QueryEngine holds every other service that can be     *)
(* reached within the depth cap, once, at its distance, and t is impacted  *)
(* by s in one direction exactly if s is by t in the other.                *)
ImpactExact ==
  \A s \in Services, d \in Directions :
    LET rows == TransitiveImpact(s, d) IN
      /\ \A t \in Services \ {s} :
           {r.depth : r \in {q \in rows : q.id = t}}
             = {Distance(s, t, d)} \ {0}
      /\ \A t \in Found(rows) \ {s} :
           s \in Found(TransitiveImpact(t, Opposite(d)))
      /\ {FarEnd(c, d) : c \in DirectImpact(s, d)} \ {s}
           = {r.id : r \in {q \in rows : q.depth = 1}} \ {s}

(* The tool of the MCP server, whose CTE sees less of its path, still      *)
(* names the same services, the root aside, with the same least depth, and *)
(* its one-hop answer those at depth one; and when something reachable is  *)
(* missing it says that it was cut off.                                    *)
ToolAgrees ==
  \A n \in {NameOf[i] : i \in Services}, d \in Directions :
    LET reply == QueryImpact(n, d)
        s     == Named(n)
        Least(t) == Min({r.depth : r \in {q \in reply.results : q.id = t}})
    IN  /\ {r \in TransitiveImpact(s, d) : r.id # s}
             = {[id |-> t, depth |-> Least(t)] :
                  t \in Found(reply.results) \ {s}}
        /\ {r.service : r \in QueryDirect(n, d, <<>>)}
             = {NameOf[r.id] : r \in {q \in reply.results : q.depth = 1}}
        /\ (UNION {After(s, d, k) : k \in 1 .. Count})
             \subseteq Found(reply.results) \cup {s} \/ reply.truncated

(* The edges of a subgraph only name its nodes and its root, and in one    *)
(* direction every node hangs on the root by them: folding the edges by    *)
(* the names of their ends loses no node.                                  *)
SubgraphLinked ==
  \A n \in {NameOf[i] : i \in Services}, depth \in 1 .. GraphDepth + 1,
     d \in Directions :
    LET g == QueryGraph(n, depth, {d})
        names == {NameOf[i] : i \in g.nodes} \cup {n}
        Out(x) == IF d = "downstream"
                  THEN {e[2] : e \in {k \in g.edges : k[1] = x}}
                  ELSE {e[1] : e \in {k \in g.edges : k[2] = x}}
        grown[k \in 0 .. Count] ==
          IF k = 0 THEN {n}
          ELSE grown[k - 1] \cup UNION {Out(x) : x \in grown[k - 1]}
    IN  /\ \A e \in g.edges : e[1] \in names /\ e[2] \in names
        /\ names \subseteq grown[Count]

(* The three traversals of the code, held against one definition of        *)
(* reachability: the depth-capped CTEs of query-engine.js and of the MCP   *)
(* tools, whose visited lists, caps and joins differ, and queryGraph.      *)
TraversalsExact == ImpactExact /\ ToolAgrees /\ SubgraphLinked

(* Two routes that differ in the names of their variables only. *)
SameRoute(p, q) ==
  /\ Len(p) = Len(q)
  /\ \A i \in DOMAIN p :
       \/ p[i] = q[i]
       \/ {p[i], q[i]} \subseteq Variables \cup {Blank}

(* The endpoint serves the call: below the base path of the service or as  *)
(* the agent wrote it, whatever the template variables are called.         *)
Serves(e, c) ==
  /\ e.service = c.target
  /\ e.method = c.method \/ NullMethod \in {e.method, c.method}
  /\ \/ SameRoute(e.path, c.path)
     \/ /\ BaseOf[c.target] # <<>>
        /\ SameRoute(BaseOf[c.target] \o e.path, c.path)

(* detectMismatches reports exactly the HTTP and gRPC calls to a service   *)
(* with known endpoints that none of them serves: blanking the variables   *)
(* on one side when the row is stored and on the other when it is read,    *)
(* and stripping the base path, hide no missing endpoint and invent none.  *)
MismatchesExact ==
  DetectMismatches =
    {c \in connections :
       /\ CanonicalProtocol(c.protocol) \in {"rest", "grpc"}
       /\ c.path # NullPath
       /\ \E e \in exposed : e.service = c.target
       /\ ~\E e \in exposed : Serves(e, c)}

(* The pages of one size up to the first that is not truncated. *)
Pages(limit) ==
  {GraphPage(limit, k * limit) :
     k \in {j \in 0 .. Count :
              \A i \in 0 .. j - 1 : GraphPage(limit, i * limit).truncated}}

(* A reader of the pages sees what a reader of the whole graph sees: every *)
(* service on one page, every connection on a page that holds one of its   *)
(* ends, the newest scan; and the summary counts the same.                 *)
PagesCover ==
  LET all == WholeGraph IN
    /\ GraphSummary = [services |-> Cardinality(all.services),
                       connections |-> Cardinality(all.connections),
                       latest |-> all.latest]
    /\ \A limit \in 1 .. Count :
         LET pages == Pages(limit) IN
           /\ UNION {p.services : p \in pages} = all.services
           /\ \A i \in all.services :
                Cardinality({p \in pages : i \in p.services}) = 1
           /\ UNION {p.connections : p \in pages} = all.connections
           /\ \A p \in pages, c \in all.connections :
                {c.source, c.target} \cap p.services # {}
                  => c \in p.connections
           /\ all.latest \in {p.latest : p \in pages}

(* Words are found exactly where a row now has all of them as whole words, *)
(* although the index still has the rows that were replaced. That tier     *)
(* never finds in a path or a calling file what LIKE would miss; LIKE,     *)
(* which also sees parts of words, may find what it misses.                *)
SearchExact ==
  \A q \in Queries :
    LET byWords == QuerySearch(q, TRUE).results
        byPath  == QuerySearch(q, FALSE).results
    IN  /\ byWords = {c \in connections : ToSet(q) \subseteq Words(c)}
        /\ Len(q) = 1 =>
             {c \in byWords : \/ c.path # NullPath /\ q[1] \in ToSet(c.path)
                              \/ q[1] \in ToSet(c.file)} \subseteq byPath

(* Changed files affect both ends of every connection that names one of    *)
(* them, in whatever order git lists the files; the count is that of the   *)
(* first file, so never more than all, and all for a single file.          *)
ChangedExact ==
  \A files \in Changes :
    LET reply   == QueryChanged(files)
        touched == {c \in connections : \E f \in ToSet(files) : InFile(c, f)}
        Uses(n) == Cardinality({u \in Services \X touched : IsUse(u, n)})
        Affected(r) == {a.service : a \in r}
    IN  /\ Affected(reply) = {NameOf[s] : s \in UNION {{c.source, c.target} :
                                                       c \in touched}}
        /\ Affected(QueryChanged(Reverse(files))) = Affected(reply)
        /\ \A a \in reply : /\ a.count \in 1 .. Uses(a.service)
                             /\ Len(files) = 1 => a.count = Uses(a.service)

(* What the tools say of a name is what the graph shows of a service of    *)
(* that name; when the name is unique, it is all that the graph shows.     *)
AnnotationsAgree ==
  LET Bearers(n) == {s \in Services : NameOf[s] = n}
      Agree(n, owners) ==
        \/ owners = {NoOwner} /\ \A s \in Bearers(n) : GraphOwner(s) = NoOwner
        \/ owners \subseteq {GraphOwner(s) : s \in Bearers(n)} \ {NoOwner}
  IN  /\ \A s \in Services, d \in Directions :
           \A a \in EnrichImpactResult(QueryImpact(NameOf[s], d).results) :
             Agree(NameOf[a.row.id], a.owners)
      /\ \A files \in Changes :
           \A a \in EnrichAffectedResult(QueryChanged(files)) :
             Agree(a.row.service, a.owners)
      /\ \A q \in Queries, blanks \in BOOLEAN :
           \A a \in EnrichSearchResult(QuerySearch(q, blanks).results) :
             {[actor |-> k.actor, protocol |-> CanonicalProtocol(k.protocol)] :
                k \in a.actors}
               = {[actor |-> g.actor, protocol |-> g.protocol] :
                    g \in UNION {GraphActors(s) :
                                   s \in Bearers(NameOf[a.row.source])}}

(* The answers of the tools about files, words, owners and externals.      *)
AnswersExact == SearchExact /\ ChangedExact /\ AnnotationsAgree
=============================================================================
