-------------------------- MODULE MapDatabaseProofs --------------------------
(***************************************************************************)
(* What is proved of opening the database of a project, for any number of  *)
(* processes, any databases of older releases and any number of crashes.   *)
(***************************************************************************)
EXTENDS MapDatabaseProps, NaturalsInduction, WellFoundedInduction, TLAPS

-----------------------------------------------------------------------------
(* The inductive invariant.                                                *)

UpTo(n) == {v \in Versions : v <= n}

AllNames == UNION {NamesOf(v) : v \in Versions}

Columns == {"versions", "names", "repos", "services", "connections", "schemas",
            "endpoints", "states", "scans"}

(* Migrations are applied in their order, and each leaves what it adds.    *)
Migrated(d) ==
  /\ DOMAIN d = Columns
  /\ \E n \in Versions \cup {0} : d.versions = UpTo(n)
  /\ d.names \subseteq AllNames
  /\ \A v \in d.versions : NamesOf(v) \subseteq d.names

(* Every process loads all migrations.                                     *)
AllLoad == Unloadable \subseteq {{}}

(* Every database was left by a release, or between two migrations of one. *)
Released == \A d \in Legacy : Migrated(d)

(* What a process has read or written is in the database.                  *)
SeenIsThere(p) ==
  pc[p] # "closed" =>
    /\ loaded[p] = Versions
    /\ seen[p] \in db.versions \cup {0}
    /\ pc[p] = "open" => db.versions = Versions

IInv ==
  /\ TypeOK
  /\ Migrated(db)
  /\ \A p \in Openers : loaded[p] \in {{}, Versions} /\ SeenIsThere(p)

-----------------------------------------------------------------------------
(* Versions.                                                               *)

LEMMA Bound == MaxCrashes \in Nat
BY ConstantsAssumption, Zenon DEF ConstantsAssumption

LEMMA NextVersion ==
  ASSUME NEW n \in Versions \cup {0}, UpTo(n) # Versions
  PROVE  LET m == Min({v \in Versions : v > n})
         IN  m \in Versions /\ UpTo(m) = UpTo(n) \cup {m}
<1> DEFINE S == {v \in Versions : v > n}
           m == IF n = 11 THEN 13 ELSE n + 1
<1>1. n \in 0 .. 23
  BY DEF Versions, UpTo
<1>2. m \in S
  BY <1>1 DEF Versions
<1>3. \A v \in S : m <= v
  BY <1>1 DEF Versions
<1>4. Min(S) \in S /\ \A v \in S : Min(S) <= v
  BY <1>2, <1>3 DEF Min
<1>5. Min(S) = m
  BY <1>2, <1>3, <1>4 DEF Versions
<1>6. UpTo(m) = UpTo(n) \cup {m}
  BY <1>1 DEF UpTo, Versions
<1> QED
  BY <1>2, <1>5, <1>6

LEMMA LastVersion ==
  ASSUME NEW n \in Versions, NEW S, S = UpTo(n)
  PROVE  Max(S) = n
<1>1. n \in S /\ \A v \in S : n >= v
  BY DEF UpTo, Versions
<1>2. Max(S) \in S /\ \A v \in S : Max(S) >= v
  BY <1>1 DEF Max
<1> QED
  BY <1>1, <1>2 DEF UpTo, Versions

LEMMA VersionSeen ==
  ASSUME NEW d, Migrated(d)
  PROVE  /\ CurrentVersion(d) \in d.versions \cup {0}
         /\ d.versions = UpTo(CurrentVersion(d))
<1>1. PICK n \in Versions \cup {0} : d.versions = UpTo(n)
  BY DEF Migrated
<1>2. UpTo(0) = {} /\ (n # 0 => n \in UpTo(n))
  BY DEF UpTo, Versions
<1>3. CASE n = 0
  BY <1>1, <1>2, <1>3 DEF CurrentVersion
<1>4. CASE n # 0
  BY <1>1, <1>2, <1>4, LastVersion DEF CurrentVersion
<1> QED
  BY <1>3, <1>4

-----------------------------------------------------------------------------
(* Migrations rewrite rows and add names.                                  *)

LEMMA ServicesRewritten ==
  ASSUME NEW d, DOMAIN d = Columns
  PROVE  LET e == DedupServices(d)
         IN  DOMAIN e = Columns /\ e.names = d.names /\ e.versions = d.versions
BY DEF DedupServices, Columns

LEMMA ReposRewritten ==
  ASSUME NEW d, DOMAIN d = Columns
  PROVE  LET e == MergeRepos(d)
         IN  DOMAIN e = Columns /\ e.names = d.names /\ e.versions = d.versions
BY DEF MergeRepos, Columns

LEMMA ConnectionsRewritten ==
  ASSUME NEW d, DOMAIN d = Columns
  PROVE  LET e == CollapseConnections(d)
         IN  DOMAIN e = Columns /\ e.names = d.names /\ e.versions = d.versions
BY DEF CollapseConnections, Columns

LEMMA EndpointsRewritten ==
  ASSUME NEW d, DOMAIN d = Columns
  PROVE  LET e == PurgeMalformed(d)
         IN  DOMAIN e = Columns /\ e.names = d.names /\ e.versions = d.versions
BY DEF PurgeMalformed, Columns

LEMMA SymbolsRewritten ==
  ASSUME NEW d, DOMAIN d = Columns
  PROVE  LET e == SplitSymbols(d)
         IN  DOMAIN e = Columns /\ e.names = d.names /\ e.versions = d.versions
BY DEF SplitSymbols, Columns

LEMMA RowsRewritten ==
  ASSUME NEW d, DOMAIN d = Columns, NEW v \in Versions, NEW e \in Rewritten(v, d)
  PROVE  DOMAIN e = Columns /\ e.names = d.names /\ e.versions = d.versions
<1>1. CASE v = 4
  BY <1>1, ServicesRewritten DEF Rewritten
<1>2. CASE v = 6
  <2>1. e = DedupServices(MergeRepos(d))
    BY <1>2 DEF Rewritten
  <2> QED
    BY <2>1, ServicesRewritten, ReposRewritten
<1>3. CASE v = 7
  BY <1>3, EndpointsRewritten DEF Rewritten
<1>4. CASE v = 13 /\ "uq_connections_dedup" \notin d.names
  BY <1>4, ConnectionsRewritten DEF Rewritten
<1>5. CASE v = 22 /\ "connections.source_symbol" \notin d.names
  BY <1>5, SymbolsRewritten DEF Rewritten
<1>6. CASE /\ v # 4 /\ v # 6 /\ v # 7
           /\ v = 13 => "uq_connections_dedup" \in d.names
           /\ v = 22 => "connections.source_symbol" \in d.names
  BY <1>6 DEF Rewritten
<1> QED
  BY <1>1, <1>2, <1>3, <1>4, <1>5, <1>6

(* The next migration.                                                     *)
LEMMA Applied ==
  ASSUME NEW d, Migrated(d), NEW n \in d.versions \cup {0}, NEW m \in Versions,
         UpTo(m) = UpTo(n) \cup {m}, NEW new \in Up(m, d)
  PROVE  /\ Migrated(new) /\ m \in new.versions
         /\ d.versions \subseteq new.versions
<1>1. PICK e \in Rewritten(m, d) : new = Recorded(m, e)
  BY DEF Up
<1>2. DOMAIN e = Columns /\ e.names = d.names /\ e.versions = d.versions
  BY RowsRewritten DEF Migrated
<1>3. /\ DOMAIN new = Columns
      /\ new.names = d.names \cup NamesOf(m) /\ new.versions = d.versions \cup {m}
  BY <1>1, <1>2 DEF Recorded, Columns
<1>4. PICK k \in Versions \cup {0} : d.versions = UpTo(k)
  BY DEF Migrated
<1>5. m \notin d.versions
  BY DEF Up
<1>6. n = k
  <2>1. n \in Nat /\ k \in Nat /\ m \in Nat /\ n <= k /\ k < m
    BY <1>4, <1>5 DEF UpTo, Versions
  <2>2. k # 0 => k \in UpTo(m)
    BY <2>1 DEF UpTo
  <2>3. k # 0 => k \in UpTo(n)
    BY <2>1, <2>2
  <2> QED
    BY <2>1, <2>3 DEF UpTo
<1>7. new.versions = UpTo(m)
  BY <1>3, <1>4, <1>6
<1>8. new.names \subseteq AllNames /\ \A v \in new.versions : NamesOf(v) \subseteq new.names
  BY <1>3 DEF Migrated, AllNames
<1> QED
  BY <1>3, <1>7, <1>8 DEF Migrated

-----------------------------------------------------------------------------
(* The steps.                                                              *)

LEMMA TypedInit ==
  ASSUME Released, Init
  PROVE  IInv
<1>1. Migrated(db)
  BY DEF Released, Init
<1>2. TypeOK
  BY <1>1, Bound DEF Init, TypeOK, Migrated, UpTo, AllNames
<1> QED
  BY <1>1, <1>2 DEF Init, IInv, SeenIsThere

(* A process that goes on beside a database that stays.                    *)
LEMMA Goes ==
  ASSUME IInv, NEW p \in Openers, UNCHANGED db,
         NEW label \in {"closed", "migrating", "open"}, Goto(p, label) \/ UNCHANGED pc,
         loaded' \in [Openers -> SUBSET Versions], seen' \in [Openers -> Versions \cup {0}],
         crashes' \in 0 .. MaxCrashes,
         \A q \in Openers \ {p} : loaded'[q] = loaded[q] /\ seen'[q] = seen[q],
         loaded'[p] \in {{}, Versions},
         SeenIsThere(p)'
  PROVE  IInv'
<1>1. TypeOK'
  BY DEF IInv, TypeOK, Goto
<1>2. \A q \in Openers \ {p} : pc'[q] = pc[q]
  BY DEF IInv, TypeOK, Goto
<1>3. \A q \in Openers : loaded'[q] \in {{}, Versions} /\ SeenIsThere(q)'
  BY <1>2 DEF IInv, SeenIsThere
<1> QED
  BY <1>1, <1>3 DEF IInv, Migrated

LEMMA IInvNext ==
  ASSUME AllLoad, IInv, [Next]_vars
  PROVE  IInv'
<1>1. /\ pc \in [Openers -> {"closed", "migrating", "open"}]
      /\ loaded \in [Openers -> SUBSET Versions] /\ seen \in [Openers -> Versions \cup {0}]
      /\ crashes \in 0 .. MaxCrashes
      /\ \A p \in Openers : loaded[p] \in {{}, Versions} /\ SeenIsThere(p)
  BY DEF IInv, TypeOK
<1>2. ASSUME NEW p \in Openers, Load(p)
      PROVE  IInv'
  <2>1. loaded' = [loaded EXCEPT ![p] = Versions]
    BY <1>2 DEF Load, AllLoad
  <2>2. SeenIsThere(p)'
    BY <1>2 DEF Load, SeenIsThere
  <2> QED
    BY <1>1, <1>2, <2>1, <2>2, Goes DEF Load
<1>3. ASSUME NEW p \in Openers, Open(p)
      PROVE  IInv'
  <2>1. CurrentVersion(db) \in db.versions \cup {0} /\ db.versions \subseteq Versions
    BY VersionSeen DEF IInv, TypeOK
  <2>2. SeenIsThere(p)'
    BY <1>1, <1>3, <2>1 DEF Open, Goto, SeenIsThere
  <2> QED
    BY <1>1, <1>3, <2>1, <2>2, Goes DEF Open
<1>4. ASSUME NEW p \in Openers, Migrate(p)
      PROVE  IInv'
  <2> DEFINE n == seen[p]
             m == Min(Pending(p))
  <2>1. n \in db.versions \cup {0} /\ loaded[p] = Versions /\ pc[p] = "migrating"
    BY <1>1, <1>4 DEF Migrate, SeenIsThere
  <2>2. Pending(p) = {v \in Versions : v > n}
    BY <2>1 DEF Pending
  <2>3. n \in Versions \cup {0} /\ UpTo(n) # Versions
    BY <1>1, <1>4, <2>2 DEF Migrate, UpTo, Versions
  <2>4. m \in Versions /\ UpTo(m) = UpTo(n) \cup {m}
    BY <2>2, <2>3, NextVersion
  <2>5. db' \in Up(m, db) /\ seen' = [seen EXCEPT ![p] = m] /\ UNCHANGED <<pc, loaded, crashes>>
    BY <1>4 DEF Migrate
  <2> HIDE DEF n, m
  <2>6. Migrated(db') /\ m \in db'.versions /\ db.versions \subseteq db'.versions
    BY <2>1, <2>4, <2>5, Applied DEF IInv
  <2>7. db'.versions \subseteq Versions
    BY <2>6 DEF Migrated, UpTo
  <2>8. TypeOK'
    BY <1>1, <2>4, <2>5, <2>6, <2>7 DEF TypeOK, Migrated, AllNames
  <2>9. \A q \in Openers : SeenIsThere(q)'
    BY <1>1, <2>1, <2>5, <2>6, <2>7 DEF SeenIsThere
  <2> QED
    BY <1>1, <2>5, <2>6, <2>8, <2>9 DEF IInv, Migrated
<1>5. ASSUME NEW p \in Openers, Opened(p)
      PROVE  IInv'
  <2>1. /\ Goto(p, "open") /\ UNCHANGED <<db, loaded, seen, crashes>>
        /\ loaded[p] = Versions /\ seen[p] \in db.versions \cup {0}
    BY <1>1, <1>5 DEF Opened, SeenIsThere
  <2>2. \A v \in Versions : v <= seen[p]
    BY <1>1, <1>5, <2>1 DEF Opened, Pending, Versions
  <2>3. PICK k \in Versions \cup {0} : db.versions = UpTo(k)
    BY DEF IInv, Migrated
  <2>4. db.versions = Versions
    BY <1>1, <2>1, <2>2, <2>3 DEF UpTo, Versions
  <2>5. SeenIsThere(p)'
    BY <2>1, <2>4 DEF SeenIsThere
  <2> QED
    BY <1>1, <2>1, <2>5, Goes
<1>6. ASSUME NEW p \in Openers, MigrateThrew(p) \/ Close(p)
      PROVE  IInv'
  <2>1. Goto(p, "closed") /\ UNCHANGED <<db, loaded, seen, crashes>>
    BY <1>6 DEF MigrateThrew, Close
  <2>2. SeenIsThere(p)'
    BY <1>1, <2>1 DEF Goto, SeenIsThere
  <2> QED
    BY <1>1, <2>1, <2>2, Goes
<1>7. ASSUME NEW p \in Openers, Crash(p)
      PROVE  IInv'
  <2>1. crashes' \in 0 .. MaxCrashes
    BY <1>1, <1>7, Bound DEF Crash
  <2>2. SeenIsThere(p)'
    BY <1>1, <1>7 DEF Crash, Goto, SeenIsThere
  <2> QED
    BY <1>1, <1>7, <2>1, <2>2, Goes DEF Crash
<1>8. CASE UNCHANGED vars
  BY <1>8 DEF vars, IInv, TypeOK, Migrated, SeenIsThere
<1> QED
  BY <1>2, <1>3, <1>4, <1>5, <1>6, <1>7, <1>8 DEF Next, Progress

(* If every process loads all migrations, one that has its handle finds    *)
(* every table, column and index, whatever the others do or leave undone.  *)
THEOREM OpenedIsComplete == AllLoad /\ Released => (Spec => []SchemaOK)
<1> SUFFICES ASSUME AllLoad, Released PROVE Spec => []SchemaOK
  OBVIOUS
<1>1. Init => IInv
  BY TypedInit
<1>2. IInv /\ [Next]_vars => IInv'
  BY IInvNext
<1>3. IInv => SchemaOK
  BY DEF IInv, SeenIsThere, Migrated, SchemaOK, OpenIsComplete
<1> QED
  BY <1>1, <1>2, <1>3, PTL DEF Spec

-----------------------------------------------------------------------------
(* What the rows of a database are: INTEGER PRIMARY KEYs, and the columns  *)
(* that the migrations rewrite or compare.                                 *)

Numbered(rows) ==
  /\ \A r, q \in rows : r.id = q.id => r = q
  /\ \E m \in Nat : Ids(rows) \subseteq 0 .. m

IsRepo(r)    == r = [id |-> r.id, path |-> r.path]
IsService(s) == s = [id |-> s.id, repo |-> s.repo, name |-> s.name]
IsCall(c)    == c = [id |-> c.id, source |-> c.source, target |-> c.target,
                     route |-> c.route, file |-> c.file, symbol |-> c.symbol]
IsSchema(s)  == s = [id |-> s.id, name |-> s.name, connection |-> s.connection]
IsExposed(e) == e = [id |-> e.id, service |-> e.service, method |-> e.method,
                     path |-> e.path, slash |-> e.slash]

Keyed(d) ==
  /\ DOMAIN d = Columns
  /\ Numbered(d.repos) /\ Numbered(d.services) /\ Numbered(d.connections)
  /\ \A r \in d.repos : IsRepo(r)
  /\ \A s \in d.services : IsService(s)
  /\ \A c \in d.connections : IsCall(c)
  /\ \A s \in d.schemas : IsSchema(s)
  /\ \A e \in d.endpoints : IsExposed(e)

(* The foreign keys that the rewriting statements follow.                  *)
Linked(d) ==
  /\ \A s \in d.services : s.repo \in Ids(d.repos)
  /\ \A c \in d.connections : c.source \in Ids(d.services) /\ c.target \in Ids(d.services)
  /\ \A s \in d.schemas : s.connection \in Ids(d.connections)
  /\ \A e \in d.endpoints : e.service \in Ids(d.services)

Sound(d) == Keyed(d) /\ Linked(d)

-----------------------------------------------------------------------------
(* Natural numbers.                                                        *)

Less == {p \in Nat \X Nat : p[1] < p[2]}

LEMMA LessWellFounded == IsWellFoundedOn(Less, Nat)
<1>1. OpToRel(<, Nat) = Less
  BY Zenon DEF OpToRel, Less
<1> QED
  BY <1>1, NatLessThanWellFounded, Zenon

LEMMA InLess ==
  ASSUME NEW m \in Nat, NEW n \in Nat, n < m
  PROVE  <<n, m>> \in Less
<1> DEFINE p == <<n, m>>
<1>1. p \in Nat \X Nat /\ p[1] = n /\ p[2] = m
  OBVIOUS
<1> HIDE DEF p
<1>2. p \in Less
  BY <1>1, SMT DEF Less
<1> QED
  BY <1>2 DEF p

LEMMA Greatest ==
  ASSUME NEW m \in Nat, NEW S, S # {}, S \subseteq 0 .. m
  PROVE  Max(S) \in S
<1> DEFINE T == {m - n : n \in S}
<1>1. T \in SUBSET Nat /\ T # {}
  <2>1. \A n \in S : n \in Nat /\ m - n \in Nat
    OBVIOUS
  <2> QED
    BY <2>1, Zenon
<1>2. PICK t \in T : \A n \in T : ~(<<n, t>> \in Less)
  <2> HIDE DEF T
  <2> QED
    BY <1>1, LessWellFounded, WFMin, Zenon
<1>3. \A n \in T : n \in Nat /\ t \in Nat /\ ~(n < t)
  BY <1>1, <1>2, InLess
<1>4. PICK g \in S : t = m - g
  OBVIOUS
<1>5. \A n \in S : g >= n
  <2> SUFFICES ASSUME NEW n \in S PROVE g >= n
    OBVIOUS
  <2>1. m - n \in T
    OBVIOUS
  <2>2. ~(m - n < m - g)
    BY <1>3, <1>4, <2>1
  <2> QED
    BY <2>2
<1> QED
  BY <1>4, <1>5 DEF Max

-----------------------------------------------------------------------------
(* Of duplicate rows one survives, and it is one of them.                  *)

LEMMA RowById ==
  ASSUME NEW rows, Numbered(rows), NEW r \in rows
  PROVE  (CHOOSE q \in rows : q.id = r.id) = r
BY DEF Numbered

LEMMA SurvivorIsOne ==
  ASSUME NEW rows, Numbered(rows), NEW columns, NEW r \in rows
  PROVE  \E q \in rows :
           /\ q.id = Survivor(rows, columns, r.id)
           /\ Same(q, r, columns)
           /\ Survivor(rows, columns, q.id) = q.id
<1> DEFINE class(row) == {x.id : x \in {y \in rows : Same(y, row, columns)}}
<1>1. ASSUME NEW x \in rows
      PROVE  Survivor(rows, columns, x.id) = Max(class(x))
  <2>1. (CHOOSE q \in rows : q.id = x.id) = x
    BY RowById
  <2> QED
    BY <2>1, Zenon DEF Survivor
<1>2. PICK m \in Nat : Ids(rows) \subseteq 0 .. m
  BY DEF Numbered
<1>3. r.id \in class(r)
  BY DEF Same
<1>4. class(r) \subseteq 0 .. m
  BY <1>2 DEF Ids
<1>5. Max(class(r)) \in class(r)
  <2> HIDE DEF class
  <2> QED
    BY <1>2, <1>3, <1>4, Greatest
<1>6. PICK q \in rows : Same(q, r, columns) /\ q.id = Max(class(r))
  BY <1>5
<1>7. \A y \in rows : Same(y, q, columns) <=> Same(y, r, columns)
  BY <1>6 DEF Same
<1>8. class(q) = class(r)
  BY <1>7
<1> QED
  BY <1>1, <1>6, <1>8

(* Rows that are rewritten one by one keep their ids.                      *)
LEMMA NumberedImage ==
  ASSUME NEW rows, NEW new, Numbered(rows), NEW G, new = {G[r] : r \in rows},
         \A r \in rows : G[r].id = r.id
  PROVE  Numbered(new) /\ Ids(new) = Ids(rows)
<1>1. Ids(new) = Ids(rows)
  BY DEF Ids
<1>2. ASSUME NEW x \in new, NEW y \in new, x.id = y.id
      PROVE  x = y
  <2>1. PICK r \in rows : x = G[r]
    OBVIOUS
  <2>2. PICK q \in rows : y = G[q]
    OBVIOUS
  <2>3. r = q
    BY <1>2, <2>1, <2>2 DEF Numbered
  <2> QED
    BY <2>1, <2>2, <2>3
<1> QED
  BY <1>1, <1>2 DEF Numbered

-----------------------------------------------------------------------------
(* When one database says what another does.                               *)

LEMMA NameIs ==
  ASSUME NEW d, Numbered(d.services), Numbered(d.repos),
         NEW s \in d.services, NEW r \in d.repos, r.id = s.repo
  PROVE  NameOf(d, s.id) = <<r.path, s.name>>
<1>1. (CHOOSE q \in d.services : q.id = s.id) = s
  BY RowById
<1>2. (CHOOSE q \in d.repos : q.id = s.repo) = r
  BY RowById
<1> QED
  BY <1>1, <1>2 DEF NameOf, PathOf

(* S and C say what became of the ids of services and connections.         *)
CallBecomes(k, c, S, C) ==
  /\ k.id = C[c.id] /\ k.route = c.route
  /\ k.source = S[c.source] /\ k.target = S[c.target]

SchemaBecomes(t, s, C) == t.name = s.name /\ t.connection = C[s.connection]

WellFormed(d) == {e \in d.endpoints : e.method # NullMethod \/ e.slash}

EndpointBecomes(f, e, S) ==
  f.service = S[e.service] /\ f.method = e.method /\ f.path = e.path

Carries(d, e, S, C) ==
  /\ {r.path : r \in e.repos} = {r.path : r \in d.repos}
  /\ \A s \in d.services : /\ S[s.id] \in Ids(e.services)
                           /\ NameOf(e, S[s.id]) = NameOf(d, s.id)
  /\ \A t \in e.services : \E s \in d.services : t.id = S[s.id]
  /\ \A c \in d.connections : \E k \in e.connections : CallBecomes(k, c, S, C)
  /\ \A k \in e.connections : \E c \in d.connections : CallBecomes(k, c, S, C)
  /\ \A s \in d.schemas : \E t \in e.schemas : SchemaBecomes(t, s, C)
  /\ \A t \in e.schemas : \E s \in d.schemas : SchemaBecomes(t, s, C)
  /\ \A x \in WellFormed(d) : \E y \in WellFormed(e) : EndpointBecomes(y, x, S)
  /\ \A y \in WellFormed(e) : \E x \in WellFormed(d) : EndpointBecomes(y, x, S)

LEMMA CarriedIsSaid ==
  ASSUME NEW d, NEW e, NEW S, NEW C, Linked(d), Numbered(d.connections),
         Numbered(e.connections), Carries(d, e, S, C)
  PROVE  Said(e) = Said(d)
<1>1. \A id \in Ids(d.services) : NameOf(e, S[id]) = NameOf(d, id)
  BY DEF Carries, Ids
<1>2. {r.path : r \in e.repos} = {r.path : r \in d.repos}
  BY DEF Carries
<1>3. {NameOf(e, s.id) : s \in e.services} = {NameOf(d, s.id) : s \in d.services}
  <2>1. ASSUME NEW t \in e.services
        PROVE  \E s \in d.services : NameOf(e, t.id) = NameOf(d, s.id)
    BY DEF Carries
  <2>2. ASSUME NEW s \in d.services
        PROVE  \E t \in e.services : NameOf(e, t.id) = NameOf(d, s.id)
    BY DEF Carries, Ids
  <2> QED
    BY <2>1, <2>2
<1>4. \A c \in d.connections, k \in e.connections :
        CallBecomes(k, c, S, C) => SaidBy(e, k) = SaidBy(d, c)
  BY <1>1 DEF CallBecomes, SaidBy, Linked
<1>5. {SaidBy(e, c) : c \in e.connections} = {SaidBy(d, c) : c \in d.connections}
  <2>1. ASSUME NEW k \in e.connections
        PROVE  \E c \in d.connections : SaidBy(e, k) = SaidBy(d, c)
    BY <1>4 DEF Carries
  <2>2. ASSUME NEW c \in d.connections
        PROVE  \E k \in e.connections : SaidBy(e, k) = SaidBy(d, c)
    BY <1>4 DEF Carries
  <2> QED
    BY <2>1, <2>2
<1> DEFINE Of(b, s) == SaidBy(b, CHOOSE c \in b.connections : c.id = s.connection)
<1>6. ASSUME NEW s \in d.schemas, NEW t \in e.schemas, SchemaBecomes(t, s, C)
      PROVE  t.name = s.name /\ Of(e, t) = Of(d, s)
  <2>1. PICK c \in d.connections : c.id = s.connection
    BY DEF Linked, Ids
  <2>2. PICK k \in e.connections : CallBecomes(k, c, S, C)
    BY DEF Carries
  <2>3. k.id = t.connection
    BY <1>6, <2>1, <2>2 DEF CallBecomes, SchemaBecomes
  <2>4. (CHOOSE x \in d.connections : x.id = s.connection) = c
    BY <2>1, RowById
  <2>5. (CHOOSE x \in e.connections : x.id = t.connection) = k
    BY <2>3, RowById
  <2> QED
    BY <1>4, <1>6, <2>2, <2>4, <2>5 DEF SchemaBecomes
<1>7. {<<s.name, Of(e, s)>> : s \in e.schemas} = {<<s.name, Of(d, s)>> : s \in d.schemas}
  <2>1. ASSUME NEW t \in e.schemas
        PROVE  \E s \in d.schemas : t.name = s.name /\ Of(e, t) = Of(d, s)
    BY <1>6 DEF Carries
  <2>2. ASSUME NEW s \in d.schemas
        PROVE  \E t \in e.schemas : t.name = s.name /\ Of(e, t) = Of(d, s)
    BY <1>6 DEF Carries
  <2> HIDE DEF Of
  <2> QED
    BY <2>1, <2>2
<1>8. {<<NameOf(e, x.service), x.method, x.path>> : x \in WellFormed(e)}
        = {<<NameOf(d, x.service), x.method, x.path>> : x \in WellFormed(d)}
  <2>1. ASSUME NEW x \in WellFormed(d), NEW y \in WellFormed(e), EndpointBecomes(y, x, S)
        PROVE  /\ NameOf(e, y.service) = NameOf(d, x.service)
               /\ y.method = x.method /\ y.path = x.path
    BY <1>1, <2>1 DEF EndpointBecomes, Linked, WellFormed
  <2>2. ASSUME NEW y \in WellFormed(e)
        PROVE  \E x \in WellFormed(d) :
                 /\ NameOf(e, y.service) = NameOf(d, x.service)
                 /\ y.method = x.method /\ y.path = x.path
    BY <2>1 DEF Carries
  <2>3. ASSUME NEW x \in WellFormed(d)
        PROVE  \E y \in WellFormed(e) :
                 /\ NameOf(e, y.service) = NameOf(d, x.service)
                 /\ y.method = x.method /\ y.path = x.path
    BY <2>1 DEF Carries
  <2> QED
    BY <2>2, <2>3
<1> QED
  BY <1>2, <1>3, <1>5, <1>7, <1>8 DEF Said, WellFormed

Keeps(d, e) == Sound(e) /\ Said(e) = Said(d)

-----------------------------------------------------------------------------
(* The migrations that rewrite rows.                                       *)

LEMMA SameNames ==
  ASSUME NEW d, NEW e, e.services = d.services, e.repos = d.repos, NEW id
  PROVE  NameOf(e, id) = NameOf(d, id)
BY DEF NameOf, PathOf

(* Where services and connections keep their ids.                          *)
Unmoved(rows) == [id \in Ids(rows) |-> id]

LEMMA PurgeKeeps ==
  ASSUME NEW d, Sound(d)
  PROVE  Keeps(d, PurgeMalformed(d))
<1> DEFINE e == PurgeMalformed(d)
           S == Unmoved(d.services)
           C == Unmoved(d.connections)
<1>1. /\ DOMAIN e = Columns /\ e.repos = d.repos /\ e.services = d.services
      /\ e.connections = d.connections /\ e.schemas = d.schemas
      /\ e.endpoints = WellFormed(d)
  BY DEF Sound, Keyed, Columns, PurgeMalformed, WellFormed
<1> HIDE DEF e
<1>2. Sound(e)
  BY <1>1 DEF Sound, Keyed, Linked, WellFormed
<1>3. \A id : NameOf(e, id) = NameOf(d, id)
  BY <1>1, SameNames
<1>4. /\ \A id \in Ids(d.services) : S[id] = id
      /\ \A id \in Ids(d.connections) : C[id] = id
  BY DEF Unmoved
<1> HIDE DEF S, C
<1>5. WellFormed(e) = WellFormed(d)
  BY <1>1 DEF WellFormed
<1>6. Carries(d, e, S, C)
  BY <1>1, <1>3, <1>4, <1>5 DEF Carries, CallBecomes, SchemaBecomes,
     EndpointBecomes, Sound, Linked, Ids, WellFormed
<1> QED
  BY <1>2, <1>6, CarriedIsSaid DEF Keeps, Sound, Keyed, e

LEMMA SplitKeeps ==
  ASSUME NEW d, Sound(d)
  PROVE  Keeps(d, SplitSymbols(d))
<1> DEFINE e == SplitSymbols(d)
           S == Unmoved(d.services)
           C == Unmoved(d.connections)
           split(c) == IF c.file = "a.ts:f" THEN [c EXCEPT !.file = "a.ts", !.symbol = "f"]
                       ELSE c
<1>1. /\ DOMAIN e = Columns /\ e.repos = d.repos /\ e.services = d.services
      /\ e.connections = {split(c) : c \in d.connections} /\ e.schemas = d.schemas
      /\ e.endpoints = d.endpoints
  BY DEF Sound, Keyed, Columns, SplitSymbols
<1>2. ASSUME NEW c \in d.connections
      PROVE  /\ split(c).id = c.id /\ split(c).route = c.route
             /\ split(c).source = c.source /\ split(c).target = c.target
             /\ IsCall(split(c))
  <2>1. IsCall(c)
    BY DEF Sound, Keyed
  <2> QED
    BY <2>1 DEF IsCall
<1> HIDE DEF e, split
<1>3. Numbered(e.connections) /\ Ids(e.connections) = Ids(d.connections)
  <2> DEFINE G == [c \in d.connections |-> split(c)]
  <2>1. e.connections = {G[c] : c \in d.connections} /\ \A c \in d.connections : G[c].id = c.id
    BY <1>1, <1>2
  <2> HIDE DEF G
  <2> QED
    BY <2>1, NumberedImage DEF Sound, Keyed
<1>4. Numbered(e.connections)
  BY <1>3
<1>5. Sound(e)
  BY <1>1, <1>2, <1>3, <1>4 DEF Sound, Keyed, Linked
<1>6. \A id : NameOf(e, id) = NameOf(d, id)
  BY <1>1, SameNames
<1>7. /\ \A id \in Ids(d.services) : S[id] = id
      /\ \A id \in Ids(d.connections) : C[id] = id
  BY DEF Unmoved
<1> HIDE DEF S, C
<1>8. WellFormed(e) = WellFormed(d)
  BY <1>1 DEF WellFormed
<1>9. \A c \in d.connections : CallBecomes(split(c), c, S, C)
  BY <1>2, <1>7 DEF CallBecomes, Sound, Linked, Ids
<1>10. Carries(d, e, S, C)
  BY <1>1, <1>6, <1>7, <1>8, <1>9 DEF Carries, SchemaBecomes,
     EndpointBecomes, Sound, Linked, Ids, WellFormed
<1> QED
  BY <1>4, <1>5, <1>10, CarriedIsSaid DEF Keeps, Sound, Keyed, e

LEMMA CollapseKeeps ==
  ASSUME NEW d, Sound(d)
  PROVE  Keeps(d, CollapseConnections(d))
<1> DEFINE e == CollapseConnections(d)
           S == Unmoved(d.services)
           To(id) == Survivor(d.connections, EdgeKey, id)
           C == [id \in Ids(d.connections) |-> To(id)]
           moved(s) == [s EXCEPT !.connection = To(@)]
<1>1. /\ DOMAIN e = Columns /\ e.repos = d.repos /\ e.services = d.services
      /\ e.connections = {c \in d.connections : c.id = To(c.id)}
      /\ e.schemas = {moved(s) : s \in d.schemas}
      /\ e.endpoints = d.endpoints
  BY DEF Sound, Keyed, Columns, CollapseConnections
<1>2. ASSUME NEW s \in d.schemas
      PROVE  /\ moved(s).name = s.name /\ moved(s).connection = C[s.connection]
             /\ IsSchema(moved(s))
  <2>1. IsSchema(s) /\ s.connection \in Ids(d.connections)
    BY DEF Sound, Keyed, Linked
  <2> HIDE DEF To
  <2> QED
    BY <2>1 DEF IsSchema
<1>3. ASSUME NEW c \in d.connections
      PROVE  \E k \in d.connections :
               /\ k.id = To(c.id) /\ To(k.id) = k.id
               /\ k.source = c.source /\ k.target = c.target /\ k.route = c.route
  <2>1. PICK k \in d.connections :
          k.id = To(c.id) /\ Same(k, c, EdgeKey) /\ To(k.id) = k.id
    BY SurvivorIsOne DEF Sound, Keyed
  <2> HIDE DEF To
  <2> QED
    BY <2>1 DEF Same, EdgeKey
<1>4. \A id \in Ids(d.connections) : C[id] = To(id)
  OBVIOUS
<1> HIDE DEF e, To, moved, C
<1>5. \A id \in Ids(d.connections) : C[id] \in Ids(e.connections)
  BY <1>1, <1>3, <1>4 DEF Ids
<1>6. Numbered(e.connections)
  BY <1>1 DEF Sound, Keyed, Numbered, Ids
<1>7. Keyed(e)
  BY <1>1, <1>2, <1>6 DEF Sound, Keyed
<1>8. Linked(e)
  BY <1>1, <1>2, <1>5 DEF Sound, Linked
<1>9. \A id : NameOf(e, id) = NameOf(d, id)
  BY <1>1, SameNames
<1>10. \A id \in Ids(d.services) : S[id] = id
  BY DEF Unmoved
<1> HIDE DEF S
<1>11. WellFormed(e) = WellFormed(d)
  BY <1>1 DEF WellFormed
<1>12. /\ \A c \in d.connections : \E k \in e.connections : CallBecomes(k, c, S, C)
       /\ \A k \in e.connections : \E c \in d.connections : CallBecomes(k, c, S, C)
  <2>1. \A c \in d.connections : /\ C[c.id] = To(c.id)
                                 /\ S[c.source] = c.source /\ S[c.target] = c.target
    BY <1>4, <1>10 DEF Sound, Linked, Ids
  <2>2. \A k \in e.connections : CallBecomes(k, k, S, C)
    BY <1>1, <2>1 DEF CallBecomes
  <2>3. \A c \in d.connections : \E k \in e.connections : CallBecomes(k, c, S, C)
    BY <1>1, <1>3, <2>1 DEF CallBecomes
  <2> QED
    BY <1>1, <2>2, <2>3
<1>13. /\ \A s \in d.schemas : \E t \in e.schemas : SchemaBecomes(t, s, C)
       /\ \A t \in e.schemas : \E s \in d.schemas : SchemaBecomes(t, s, C)
  BY <1>1, <1>2 DEF SchemaBecomes
<1>14. \A x \in WellFormed(d) : EndpointBecomes(x, x, S)
  BY <1>10 DEF EndpointBecomes, WellFormed, Sound, Linked
<1>15. /\ \A s \in d.services : /\ S[s.id] \in Ids(e.services)
                                /\ NameOf(e, S[s.id]) = NameOf(d, s.id)
       /\ \A t \in e.services : \E s \in d.services : t.id = S[s.id]
  BY <1>1, <1>9, <1>10 DEF Ids
<1>16. Carries(d, e, S, C)
  BY <1>1, <1>11, <1>12, <1>13, <1>14, <1>15 DEF Carries
<1> QED
  BY <1>6, <1>7, <1>8, <1>16, CarriedIsSaid DEF Keeps, Sound, Keyed, e

LEMMA MergeKeeps ==
  ASSUME NEW d, Sound(d)
  PROVE  Keeps(d, MergeRepos(d))
<1> DEFINE e == MergeRepos(d)
           S == Unmoved(d.services)
           C == Unmoved(d.connections)
           To(id) == Survivor(d.repos, PathKey, id)
           moved(s) == [s EXCEPT !.repo = To(@)]
<1>1. /\ DOMAIN e = Columns /\ e.repos = {r \in d.repos : r.id = To(r.id)}
      /\ e.services = {moved(s) : s \in d.services}
      /\ e.connections = d.connections /\ e.schemas = d.schemas
      /\ e.endpoints = d.endpoints
  BY DEF Sound, Keyed, Columns, MergeRepos
<1>2. ASSUME NEW s \in d.services
      PROVE  /\ moved(s).id = s.id /\ moved(s).name = s.name
             /\ moved(s).repo = To(s.repo) /\ IsService(moved(s))
  <2>1. IsService(s)
    BY DEF Sound, Keyed
  <2> HIDE DEF To
  <2> QED
    BY <2>1 DEF IsService
<1>3. ASSUME NEW r \in d.repos
      PROVE  \E q \in d.repos :
               q.id = To(r.id) /\ To(q.id) = q.id /\ q.path = r.path
  <2>1. PICK q \in d.repos :
          q.id = To(r.id) /\ Same(q, r, PathKey) /\ To(q.id) = q.id
    BY SurvivorIsOne DEF Sound, Keyed
  <2> HIDE DEF To
  <2> QED
    BY <2>1 DEF Same, PathKey
<1> HIDE DEF e, To, moved
<1>4. Ids(e.services) = Ids(d.services)
  BY <1>1, <1>2 DEF Ids
<1>5. Numbered(e.repos) /\ Numbered(e.services)
  <2>1. Numbered(e.repos)
    BY <1>1 DEF Sound, Keyed, Numbered, Ids
  <2> DEFINE G == [s \in d.services |-> moved(s)]
  <2>2. e.services = {G[s] : s \in d.services} /\ \A s \in d.services : G[s].id = s.id
    BY <1>1, <1>2
  <2> HIDE DEF G
  <2>3. Numbered(e.services)
    BY <2>2, NumberedImage DEF Sound, Keyed
  <2> QED
    BY <2>1, <2>3
<1>6. Keyed(e)
  BY <1>1, <1>2, <1>5 DEF Sound, Keyed
<1>7. Linked(e)
  <2>1. \A id \in Ids(d.repos) : To(id) \in Ids(e.repos)
    BY <1>1, <1>3 DEF Ids
  <2>2. \A s \in e.services : s.repo \in Ids(e.repos)
    BY <1>1, <1>2, <2>1 DEF Sound, Linked
  <2>3. /\ \A c \in e.connections : c.source \in Ids(e.services) /\ c.target \in Ids(e.services)
        /\ \A s \in e.schemas : s.connection \in Ids(e.connections)
        /\ \A x \in e.endpoints : x.service \in Ids(e.services)
    BY <1>1, <1>4 DEF Sound, Linked
  <2> QED
    BY <2>2, <2>3 DEF Linked
<1>8. ASSUME NEW s \in d.services
      PROVE  NameOf(e, s.id) = NameOf(d, s.id)
  <2>1. PICK r \in d.repos : r.id = s.repo
    BY DEF Sound, Linked, Ids
  <2>2. PICK q \in d.repos : q.id = To(r.id) /\ To(q.id) = q.id /\ q.path = r.path
    BY <1>3
  <2>3. q \in e.repos /\ moved(s) \in e.services
    BY <1>1, <2>2
  <2>4. NameOf(e, moved(s).id) = <<q.path, moved(s).name>>
    BY <1>2, <1>5, <2>1, <2>2, <2>3, NameIs
  <2>5. NameOf(d, s.id) = <<r.path, s.name>>
    BY <2>1, NameIs DEF Sound, Keyed
  <2> QED
    BY <1>2, <2>2, <2>4, <2>5
<1>9. /\ \A id \in Ids(d.services) : S[id] = id
      /\ \A id \in Ids(d.connections) : C[id] = id
  BY DEF Unmoved
<1> HIDE DEF S, C
<1>10. WellFormed(e) = WellFormed(d)
  BY <1>1 DEF WellFormed
<1>11. {r.path : r \in e.repos} = {r.path : r \in d.repos}
  BY <1>1, <1>3
<1>12. \A s \in d.services : /\ S[s.id] \in Ids(e.services)
                             /\ NameOf(e, S[s.id]) = NameOf(d, s.id)
  BY <1>4, <1>8, <1>9 DEF Ids
<1>13. \A t \in e.services : \E s \in d.services : t.id = S[s.id]
  <2> SUFFICES ASSUME NEW t \in e.services
               PROVE  \E s \in d.services : t.id = S[s.id]
    OBVIOUS
  <2>1. PICK s \in d.services : t = moved(s)
    BY <1>1
  <2> QED
    BY <1>2, <1>9, <2>1 DEF Ids
<1>14. /\ \A c \in d.connections : CallBecomes(c, c, S, C)
       /\ \A s \in d.schemas : SchemaBecomes(s, s, C)
       /\ \A x \in WellFormed(d) : EndpointBecomes(x, x, S)
  BY <1>9 DEF CallBecomes, SchemaBecomes, EndpointBecomes, WellFormed, Sound, Linked, Ids
<1>15. Carries(d, e, S, C)
  BY <1>1, <1>10, <1>11, <1>12, <1>13, <1>14 DEF Carries
<1> QED
  BY <1>6, <1>7, <1>15, CarriedIsSaid DEF Keeps, Sound, Keyed, e

LEMMA DedupKeeps ==
  ASSUME NEW d, Sound(d)
  PROVE  Keeps(d, DedupServices(d))
<1> DEFINE e == DedupServices(d)
           C == Unmoved(d.connections)
           To(id) == Survivor(d.services, ServiceKey, id)
           S == [id \in Ids(d.services) |-> To(id)]
           call(c) == [c EXCEPT !.source = To(@), !.target = To(@)]
           exposed(x) == [x EXCEPT !.service = To(@)]
<1>1. /\ DOMAIN e = Columns /\ e.repos = d.repos
      /\ e.services = {s \in d.services : s.id = To(s.id)}
      /\ e.connections = {call(c) : c \in d.connections} /\ e.schemas = d.schemas
      /\ e.endpoints = {exposed(x) : x \in d.endpoints}
  BY DEF Sound, Keyed, Columns, DedupServices
<1>2. ASSUME NEW c \in d.connections
      PROVE  /\ call(c).id = c.id /\ call(c).route = c.route
             /\ call(c).source = To(c.source) /\ call(c).target = To(c.target)
             /\ IsCall(call(c))
  <2>1. c = [id |-> c.id, source |-> c.source, target |-> c.target,
             route |-> c.route, file |-> c.file, symbol |-> c.symbol]
    BY DEF Sound, Keyed, IsCall
  <2> HIDE DEF To
  <2>2. call(c) = [id |-> c.id, source |-> To(c.source), target |-> To(c.target),
                   route |-> c.route, file |-> c.file, symbol |-> c.symbol]
    <3> DEFINE m == [c EXCEPT !.source = To(c.source)]
    <3>1. /\ m = [id |-> c.id, source |-> To(c.source), target |-> c.target,
                  route |-> c.route, file |-> c.file, symbol |-> c.symbol]
          /\ m.target = c.target
      BY <2>1
    <3>2. call(c) = [m EXCEPT !.target = To(m.target)]
      BY <2>1
    <3> HIDE DEF m, call
    <3> QED
      BY <3>1, <3>2
  <2> HIDE DEF call
  <2> QED
    BY <2>2 DEF IsCall
<1>3. ASSUME NEW x \in d.endpoints
      PROVE  /\ exposed(x).service = To(x.service) /\ exposed(x).method = x.method
             /\ exposed(x).path = x.path /\ exposed(x).slash = x.slash
             /\ IsExposed(exposed(x))
  <2>1. IsExposed(x)
    BY DEF Sound, Keyed
  <2> HIDE DEF To
  <2> QED
    BY <2>1 DEF IsExposed
<1>4. ASSUME NEW s \in d.services
      PROVE  \E t \in d.services :
               /\ t.id = To(s.id) /\ To(t.id) = t.id
               /\ t.repo = s.repo /\ t.name = s.name
  <2>1. PICK t \in d.services :
          t.id = To(s.id) /\ Same(t, s, ServiceKey) /\ To(t.id) = t.id
    BY SurvivorIsOne DEF Sound, Keyed
  <2> HIDE DEF To
  <2> QED
    BY <2>1 DEF Same, ServiceKey
<1>5. \A id \in Ids(d.services) : S[id] = To(id)
  OBVIOUS
<1> HIDE DEF e, To, call, exposed, S
<1>6. Ids(e.connections) = Ids(d.connections)
  BY <1>1, <1>2 DEF Ids
<1>7. Numbered(e.services) /\ Numbered(e.connections)
  <2>1. Numbered(e.services)
    BY <1>1 DEF Sound, Keyed, Numbered, Ids
  <2> DEFINE G == [c \in d.connections |-> call(c)]
  <2>2. e.connections = {G[c] : c \in d.connections} /\ \A c \in d.connections : G[c].id = c.id
    BY <1>1, <1>2
  <2> HIDE DEF G
  <2>3. Numbered(e.connections)
    BY <2>2, NumberedImage DEF Sound, Keyed
  <2> QED
    BY <2>1, <2>3
<1>8. Keyed(e)
  BY <1>1, <1>2, <1>3, <1>7 DEF Sound, Keyed
<1>9. \A id \in Ids(d.services) : To(id) \in Ids(e.services)
  BY <1>1, <1>4 DEF Ids
<1>10. Linked(e)
  <2>1. \A s \in e.services : s.repo \in Ids(e.repos)
    BY <1>1 DEF Sound, Linked
  <2>2. \A c \in e.connections : c.source \in Ids(e.services) /\ c.target \in Ids(e.services)
    BY <1>1, <1>2, <1>9 DEF Sound, Linked
  <2>3. \A s \in e.schemas : s.connection \in Ids(e.connections)
    BY <1>1, <1>6 DEF Sound, Linked
  <2>4. \A x \in e.endpoints : x.service \in Ids(e.services)
    BY <1>1, <1>3, <1>9 DEF Sound, Linked
  <2> QED
    BY <2>1, <2>2, <2>3, <2>4 DEF Linked
<1>11. ASSUME NEW s \in d.services
       PROVE  /\ S[s.id] \in Ids(e.services)
              /\ NameOf(e, S[s.id]) = NameOf(d, s.id)
  <2>1. PICK r \in d.repos : r.id = s.repo
    BY DEF Sound, Linked, Ids
  <2>2. PICK t \in d.services : /\ t.id = To(s.id) /\ To(t.id) = t.id
                                /\ t.repo = s.repo /\ t.name = s.name
    BY <1>4
  <2>3. t \in e.services /\ r \in e.repos /\ s.id \in Ids(d.services)
    BY <1>1, <2>2 DEF Ids
  <2>4. NameOf(e, t.id) = <<r.path, t.name>>
    BY <1>8, <2>1, <2>2, <2>3, NameIs DEF Keyed
  <2>5. NameOf(d, s.id) = <<r.path, s.name>>
    BY <2>1, NameIs DEF Sound, Keyed
  <2>6. S[s.id] = t.id
    BY <1>5, <2>2, <2>3
  <2> QED
    BY <2>2, <2>3, <2>4, <2>5, <2>6 DEF Ids
<1>12. \A t \in e.services : \E s \in d.services : t.id = S[s.id]
  BY <1>1, <1>5 DEF Ids
<1>13. \A id \in Ids(d.connections) : C[id] = id
  BY DEF Unmoved
<1> HIDE DEF C
<1>14. \A c \in d.connections : CallBecomes(call(c), c, S, C)
  BY <1>2, <1>5, <1>13 DEF CallBecomes, Sound, Linked, Ids
<1>15. \A x \in d.endpoints :
         /\ EndpointBecomes(exposed(x), x, S)
         /\ exposed(x) \in WellFormed(e) <=> x \in WellFormed(d)
  BY <1>1, <1>3, <1>5 DEF EndpointBecomes, WellFormed, Sound, Linked
<1>16. /\ \A x \in WellFormed(d) : \E y \in WellFormed(e) : EndpointBecomes(y, x, S)
       /\ \A y \in WellFormed(e) : \E x \in WellFormed(d) : EndpointBecomes(y, x, S)
  BY <1>1, <1>15 DEF WellFormed
<1>17. /\ \A s \in d.schemas : \E t \in e.schemas : SchemaBecomes(t, s, C)
       /\ \A t \in e.schemas : \E s \in d.schemas : SchemaBecomes(t, s, C)
  BY <1>1, <1>13 DEF SchemaBecomes, Sound, Linked
<1>18. Carries(d, e, S, C)
  BY <1>1, <1>11, <1>12, <1>14, <1>16, <1>17 DEF Carries
<1> QED
  BY <1>7, <1>8, <1>10, <1>18, CarriedIsSaid DEF Keeps, Sound, Keyed, e

LEMMA RewritingKeeps ==
  ASSUME NEW v, NEW d, Sound(d), NEW e \in Rewritten(v, d)
  PROVE  Keeps(d, e)
<1>1. CASE v = 4
  BY <1>1, DedupKeeps DEF Rewritten
<1>2. CASE v = 6
  <2>1. e = DedupServices(MergeRepos(d))
    BY <1>2 DEF Rewritten
  <2> QED
    BY <2>1, DedupKeeps, MergeKeeps DEF Keeps
<1>3. CASE v = 7
  BY <1>3, PurgeKeeps DEF Rewritten
<1>4. CASE v = 13 /\ "uq_connections_dedup" \notin d.names
  BY <1>4, CollapseKeeps DEF Rewritten
<1>5. CASE v = 22 /\ "connections.source_symbol" \notin d.names
  BY <1>5, SplitKeeps DEF Rewritten
<1>6. CASE /\ v # 4 /\ v # 6 /\ v # 7
           /\ v = 13 => "uq_connections_dedup" \in d.names
           /\ v = 22 => "connections.source_symbol" \in d.names
  BY <1>6 DEF Rewritten, Keeps
<1> QED
  BY <1>1, <1>2, <1>3, <1>4, <1>5, <1>6

(* Recording a migration changes no row.                                   *)
LEMMA RecordingKeeps ==
  ASSUME NEW v, NEW d, Sound(d)
  PROVE  Keeps(d, Recorded(v, d))
<1> DEFINE e == Recorded(v, d)
<1>1. /\ DOMAIN e = Columns /\ e.repos = d.repos /\ e.services = d.services
      /\ e.connections = d.connections /\ e.schemas = d.schemas
      /\ e.endpoints = d.endpoints
  BY DEF Sound, Keyed, Columns, Recorded
<1> HIDE DEF e
<1>2. Sound(e)
  BY <1>1 DEF Sound, Keyed, Linked
<1>3. \A id : NameOf(e, id) = NameOf(d, id)
  BY <1>1, SameNames
<1>4. Said(e) = Said(d)
  <2> DEFINE S == Unmoved(d.services)
             C == Unmoved(d.connections)
  <2>1. /\ \A id \in Ids(d.services) : S[id] = id
        /\ \A id \in Ids(d.connections) : C[id] = id
    BY DEF Unmoved
  <2> HIDE DEF S, C
  <2>2. Carries(d, e, S, C)
    BY <1>1, <1>3, <2>1 DEF Carries, CallBecomes, SchemaBecomes,
       EndpointBecomes, Sound, Linked, Ids, WellFormed
  <2> QED
    BY <1>2, <2>2, CarriedIsSaid DEF Sound, Keyed
<1> QED
  BY <1>2, <1>4 DEF Keeps, e

LEMMA MigrationKeeps ==
  ASSUME NEW v, NEW d, Sound(d), NEW new \in Up(v, d)
  PROVE  Keeps(d, new)
<1>1. PICK e \in Rewritten(v, d) : new = Recorded(v, e)
  BY DEF Up
<1>2. Keeps(d, e)
  BY RewritingKeeps
<1>3. Keeps(e, new)
  BY <1>1, <1>2, RecordingKeeps DEF Keeps
<1> QED
  BY <1>2, <1>3 DEF Keeps

(* Whatever migrations a process has, and whoever else migrates or dies:   *)
(* the map says after each what it said before, if its rows have keys.     *)
THEOREM MigrationsKeep == (\A d \in Legacy : Keyed(d)) => (Spec => NothingLost)
<1> SUFFICES ASSUME \A d \in Legacy : Keyed(d) PROVE Spec => NothingLost
  OBVIOUS
<1>1. Init => Sound(db)
  BY ConstantsAssumption DEF ConstantsAssumption, Consistent, ForeignKeys, Init, Sound, Linked
<1>2. ASSUME Sound(db), [Next]_vars
      PROVE  db' = db \/ Keeps(db, db')
  <2>1. ASSUME NEW p \in Openers, Migrate(p)
        PROVE  Keeps(db, db')
    BY <1>2, <2>1, MigrationKeeps DEF Migrate
  <2>2. ASSUME NEW p \in Openers,
               \/ Load(p) \/ Open(p) \/ Opened(p) \/ MigrateThrew(p) \/ Close(p)
               \/ Crash(p)
        PROVE  db' = db
    BY <2>2 DEF Load, Open, Opened, MigrateThrew, Close, Crash
  <2> QED
    BY <1>2, <2>1, <2>2 DEF Next, Progress, vars
<1>3. Sound(db) /\ [Next]_vars => Sound(db)'
  BY <1>2 DEF Keeps
<1>4. Sound(db) /\ [Next]_vars => [db' # db => Said(db') = Said(db)]_vars
  BY <1>2 DEF Keeps
<1> QED
  BY <1>1, <1>3, <1>4, PTL DEF Spec, NothingLost

=============================================================================
