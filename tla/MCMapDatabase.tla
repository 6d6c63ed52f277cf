---------------------------- MODULE MCMapDatabase ----------------------------
(* Instances of the map database for TLC.                                  *)
EXTENDS MapDatabaseProps

CONSTANTS p1, p2, a, b, api, web, get

At(v) == {w \in Versions : w <= v}

Database(v, repos, services, connections, schemas, endpoints, scans) ==
  [versions |-> At(v), names |-> UNION {NamesOf(w) : w \in At(v)},
   repos |-> repos, services |-> services, connections |-> connections,
   schemas |-> schemas, endpoints |-> endpoints,
   states |-> Ids(repos), scans |-> scans]

Repo(i, path)       == [id |-> i, path |-> path]
Service(i, r, n)    == [id |-> i, repo |-> r, name |-> n]
Call(i, route, f)   == [id |-> i, source |-> 1, target |-> 2, route |-> route,
                        file |-> f, symbol |-> NoSymbol]
Endpoint(i, s, m, slash) ==
  [id |-> i, service |-> s, method |-> m, path |-> slash, slash |-> slash]

Empty == [Database(0, {}, {}, {}, {}, {}, {}) EXCEPT !.names = {}]

OneRepoEach == {Repo(1, a), Repo(2, b)}
RepoTwice   == {Repo(1, a), Repo(2, a)}
Distinct    == {Service(1, 1, api), Service(2, 2, web)}
SameName    == {Service(1, 1, api), Service(2, 2, api)}
Twice       == {Service(1, 1, api), Service(2, 1, web), Service(3, 1, web)}
TwoSplit    == {Call(1, get, "a.ts:f"), Call(2, NullRoute, "http:c.ts")}
Doubled(r)  == {Call(1, r, "a.ts"), Call(2, r, "a.ts:f")}
Schema      == {[id |-> 1, name |-> "Req", connection |-> 1]}
Shared      == {Endpoint(1, 1, get, TRUE), Endpoint(2, 2, get, TRUE)}
Malformed   == {Endpoint(1, 1, NullMethod, TRUE), Endpoint(2, 2, NullMethod, FALSE)}
Webhooks    == {Endpoint(1, 1, NullMethod, TRUE), Endpoint(2, 1, NullMethod, TRUE)}

(* Repositories scanned twice, services scanned twice, and what hangs on   *)
(* them.                                                                   *)
MCLegacy ==
  {Empty} \cup
  {d \in
     {Database(1, OneRepoEach, Twice, c, Schema, {}, {}) :
        c \in {TwoSplit, Doubled(get), Doubled(NullRoute)}} \cup
     {Database(3, r, s, Doubled(get), Schema, Malformed, {}) :
        r \in {OneRepoEach, RepoTwice}, s \in {SameName, Twice}} \cup
     {Database(3, RepoTwice, SameName, Doubled(get), Schema, Shared, {})} \cup
     {Database(v, RepoTwice, SameName, TwoSplit, Schema, e, {[id |-> 1, repo |-> n]}) :
        v \in {5, 6}, e \in {Shared, Malformed, Webhooks}, n \in {1, 2}} \cup
     {Database(6, OneRepoEach, Distinct, TwoSplit, Schema, Webhooks, {})} :
   Consistent(d)}

=============================================================================
