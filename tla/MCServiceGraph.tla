--------------------------- MODULE MCServiceGraph ---------------------------
(***************************************************************************)
(* Five services, two of which share a name in different repositories, and *)
(* calls that differ in protocol, method and path.                         *)
(***************************************************************************)
EXTENDS ServiceGraphProps

Call(s, t, protocol, method, path, file, handler) ==
  [source |-> s, target |-> t, protocol |-> protocol, method |-> method,
   path |-> path, file |-> file, handler |-> handler, nth |-> 0]

MCNameOf == <<"web", "api", "db", "api", "job">>
MCScanOf == <<2, 1, 3, 0, 1>>
MCBaseOf == <<<<>>, <<"v1">>, <<>>, <<>>, <<>>>>
MCTerms == STRING
MCVariables == {"{id}", "{user}"}

(* A ring that may be walked both ways, two chords, one of them between   *)
(* the services that share a name, and a service that calls itself.       *)
Links == {<<s, t>> \in (1 .. 5) \X (1 .. 5) : t - s \in {1, -1, 4, -4}}
           \cup {<<1, 3>>, <<3, 1>>, <<2, 4>>, <<4, 2>>, <<3, 3>>}

Topology == {Call(l[1], l[2], "sdk", NullMethod, NullPath, <<>>, <<>>) :
               l \in Links}

(* Calls of the web service to the one that has a base path; the first is *)
(* reported again after its file was renamed.                             *)
Requests ==
  {Call(1, 2, "http", "GET", <<"v1", "items", "{id}">>,
        <<"src", "cart">>, <<>>),
   Call(1, 2, "http", "GET", <<"v1", "items", "{id}">>,
        <<"src", "shop">>, <<>>),
   Call(1, 2, "rest", "POST", <<"items", "{user}">>,
        <<"src", "cart">>, <<"api", "items">>),
   Call(1, 2, "graphql", NullMethod, <<"v1">>, <<>>, <<>>),
   Call(1, 2, "kafka", NullMethod, <<"items", "{id}">>, <<>>, <<"shop">>)}

MCCalls == Topology \cup Requests

MCEndpoints ==
  {[service |-> 2, method |-> "GET", path |-> <<"items", "{user}">>],
   [service |-> 2, method |-> NullMethod, path |-> <<"v1", "items", "{id}">>],
   [service |-> 2, method |-> "POST", path |-> <<"items", "{id}">>],
   [service |-> 2, method |-> "POST", path |-> <<>>]}

MCChanges == {<<<<"src", "cart">>>>, <<<<"shop">>>>,
              <<<<"items">>, <<"cart">>>>, <<<<"cart">>, <<"shop">>>>}

(* A part of "items", and the end of one word with the start of the next. *)
MCParts == {<<"item", "items", "start">>, <<"s", "items", "end">>,
            <<"rc", "src", "end">>, <<"sh", "shop", "start">>,
            <<"art", "cart", "end">>}

MCQueries == {<<"items">>, <<"item">>, <<"rc", "sh">>, <<"shop", "items">>,
              <<"cart">>, <<"shop">>, <<"events">>, <<"sdk">>,
              <<"v1", "items">>, <<"src", "shop">>, <<"api", "items">>}

MCOwnerOf == <<"ann", "bob", "none", "cid", "none">>

MCActorEdges ==
  {[service |-> 1, actor |-> "mail", protocol |-> "rest", raw |-> "http"],
   [service |-> 1, actor |-> "bus", protocol |-> "nats", raw |-> ""],
   [service |-> 4, actor |-> "bus", protocol |-> "events", raw |-> "kafka"]}
=============================================================================
