--------------------------- MODULE ScanStoreProofs ---------------------------
(***************************************************************************)
(* What is proved of the map's write pipeline, for any repositories,       *)
(* findings, scanners and overrides, and any number of scans and crashes.  *)
(***************************************************************************)
EXTENDS ScanStoreProps, FiniteSetTheorems, SequenceTheorems, TLAPS

-----------------------------------------------------------------------------
(* What holds of one copy of the tables.                                   *)

(* The foreign keys.                                                       *)
References(d) ==
  /\ \A c \in d.connections :
       c.edge.source \in Ids(d.services) /\ c.edge.target \in Ids(d.services)
  /\ d.schemas \subseteq Ids(d.connections)
  /\ d.satellites \subseteq Ids(d.services)

(* The unique keys of services.                                            *)
OneRow(d) ==
  \A s, t \in d.services :
    s.id = t.id \/ (s.repo = t.repo /\ s.name = t.name) => s = t

SoundTables(d) == d \in Tables /\ References(d) /\ OneRow(d)

(* No row was inserted by the scan n or a later one.                       *)
RowsBefore(d, n) ==
  /\ \A s \in d.services : s.id.scan < n
  /\ \A c \in d.connections : c.id.scan < n

DeletedGone(d) ==
  \A i \in 1 .. Len(d.overrides) :
    d.overrides[i].action = "delete" /\ d.overrides[i].applied # NoScan =>
      d.overrides[i].target \notin Ids(d.connections)

-----------------------------------------------------------------------------
(* The inductive invariant.  Scan versions number everything: the next one *)
(* is above all that the committed tables name.                            *)

Committed(d) ==
  /\ SoundTables(d) /\ RowsBefore(d, d.nextScan) /\ DeletedGone(d)
  /\ d.nextScan > Abandoned
  /\ \A r \in Repos : d.completed[r] < d.nextScan
  /\ \A s \in d.services :
       /\ s.scan < d.nextScan
       /\ d.completed[s.repo] # NoScan => s.scan = d.completed[s.repo]
  /\ \A i \in 1 .. Len(d.overrides) :
       d.overrides[i].action = "delete" =>
         d.overrides[i].target.scan < d.nextScan

(* One process has the write lock.                                         *)
OneWriter ==
  /\ \A p \in Scanners : pc[p] \in {"begun", "persisted"} <=> writer = p
  /\ writer = NoWriter => tx = db
  /\ \A p \in Scanners : writer = p =>
       scan[p].found \in Findings /\ scan[p].version = db.nextScan

(* An override that this transaction has stamped.                          *)
StampedBy(v, i) ==
  /\ db.overrides[i].applied = NoScan
  /\ tx.overrides[i] = [db.overrides[i] EXCEPT !.applied = v]

RenamedIn(v, id) ==
  \E i \in 1 .. Len(db.overrides) : StampedBy(v, i) /\ db.overrides[i].target = id

(* The open transaction beside the committed tables.                       *)
Others(p) ==
  \A q \in Repos \ {scan[p].repo} :
    /\ Ids(ServicesOf(tx, q)) = Ids(ServicesOf(db, q))
    /\ \A s \in ServicesOf(tx, q) : \E t \in db.services :
         t.id = s.id /\ t.repo = s.repo /\ t.scan = s.scan
    /\ \A s \in ServicesOf(db, q) :
         s \in tx.services \/ RenamedIn(scan[p].version, s.id)

OverridesOf(p) ==
  /\ Len(tx.overrides) = Len(db.overrides)
  /\ \A i \in 1 .. Len(db.overrides) :
       tx.overrides[i] = db.overrides[i] \/ StampedBy(scan[p].version, i)

(* An incremental scan has moved what the last scan left to its version.   *)
MovedOn(p) ==
  scan[p].mode = "incremental" /\ db.completed[scan[p].repo] # NoScan =>
    \A s \in ServicesOf(db, scan[p].repo) : \E t \in tx.services :
      t.id = s.id /\ t.repo = s.repo /\ t.scan = scan[p].version

(* A full scan gives its version to what it finds alone.                   *)
NotYet(p) ==
  scan[p].mode = "full" =>
    \A s \in ServicesOf(tx, scan[p].repo) : s.scan # scan[p].version

Written(p) ==
  \E row \in [scan[p].found.services -> Ids(tx.services)] :
    /\ \A e, f \in scan[p].found.services : row[e] = row[f] => e = f
    /\ \A f \in scan[p].found.services : \E s \in tx.services :
         /\ s.id = row[f] /\ s.repo = scan[p].repo /\ s.scan = scan[p].version
         /\ s.file = f.file
         /\ s.name = f.name \/ RenamedIn(scan[p].version, s.id)
    /\ scan[p].mode = "full" =>
         \A s \in ServicesOf(tx, scan[p].repo) :
           s.scan = scan[p].version => \E f \in scan[p].found.services : s.id = row[f]

TransactionSound(p) ==
  /\ SoundTables(tx) /\ RowsBefore(tx, tx.nextScan) /\ DeletedGone(tx)
  /\ tx.nextScan = db.nextScan + 1 /\ tx.completed = db.completed
  /\ Others(p) /\ OverridesOf(p) /\ MovedOn(p)
  /\ pc[p] = "begun" => RowsBefore(tx, db.nextScan) /\ NotYet(p)
  /\ pc[p] = "persisted" => Written(p)

IInv ==
  /\ TypeOK /\ Committed(db) /\ OneWriter
  /\ \A p \in Scanners : writer = p => TransactionSound(p)

-----------------------------------------------------------------------------
(* The statements of the transaction, on any copy of the tables.           *)

LEMMA TablesFields ==
  ASSUME NEW d \in Tables
  PROVE  /\ d.services \subseteq Service /\ d.connections \subseteq Connection
         /\ d.schemas \subseteq [scan : ScanId, edge : Edge]
         /\ d.satellites \subseteq ServiceId /\ d.completed \in [Repos -> ScanId]
         /\ d.abandoned \subseteq Repos /\ d.nextScan \in Nat
         /\ d.overrides \in Seq(Override) /\ d.state \in [Repos -> ScanId]
BY DEF Tables, ScanId

(* Tables with the same services and connections but for their versions.   *)
LEMMA SoundByIds ==
  ASSUME NEW d, SoundTables(d), NEW e \in Tables,
         Ids(e.services) = Ids(d.services), Ids(e.connections) = Ids(d.connections),
         e.schemas = d.schemas, e.satellites = d.satellites,
         \A s \in e.services : \E t \in d.services :
           s.id = t.id /\ s.repo = t.repo /\ s.name = t.name,
         \A s, t \in e.services : s.id = t.id => s = t,
         \A c \in e.connections : \E b \in d.connections : c.edge = b.edge
  PROVE  SoundTables(e)
<1>1. References(e)
  BY DEF SoundTables, References
<1>2. OneRow(e)
  BY DEF SoundTables, OneRow
<1> QED
  BY <1>1, <1>2 DEF SoundTables

LEMMA IdsHave ==
  ASSUME NEW rows, NEW id
  PROVE  id \in Ids(rows) <=> \E row \in rows : row.id = id
BY DEF Ids

(* Opening a transaction: the version is taken.                            *)
LEMMA TakeVersion ==
  ASSUME NEW d \in Tables, NEW r \in Repos, NEW aged \in BOOLEAN, NEW e,
         e = NewVersion(CleanupAbandoned(d, r, aged))
  PROVE  /\ e \in Tables /\ e.nextScan = d.nextScan + 1
         /\ e.services = d.services /\ e.connections = d.connections
         /\ e.schemas = d.schemas /\ e.satellites = d.satellites
         /\ e.completed = d.completed /\ e.overrides = d.overrides
<1> DEFINE c == CleanupAbandoned(d, r, aged)
<1>1. PICK a \in SUBSET Repos : c = [d EXCEPT !.abandoned = a]
  BY TablesFields DEF CleanupAbandoned
<1>2. /\ c \in Tables /\ c.nextScan = d.nextScan
      /\ c.services = d.services /\ c.connections = d.connections
      /\ c.schemas = d.schemas /\ c.satellites = d.satellites
      /\ c.completed = d.completed /\ c.overrides = d.overrides
  BY <1>1 DEF Tables
<1> HIDE DEF c
<1>3. c.nextScan + 1 \in ScanId
  BY <1>2, TablesFields DEF ScanId
<1>4. e = [c EXCEPT !.nextScan = c.nextScan + 1]
  BY DEF c, NewVersion
<1> QED
  BY <1>2, <1>3, <1>4 DEF Tables

(* Re-stamping moves rows of the last completed scan to another version.   *)
LEMMA Restamping ==
  ASSUME NEW d, SoundTables(d), NEW r \in Repos, NEW v \in Nat, NEW e,
         e = Restamp(d, r, v)
  PROVE  /\ SoundTables(e) /\ e.nextScan = d.nextScan
         /\ e.completed = d.completed /\ e.overrides = d.overrides
         /\ Ids(e.services) = Ids(d.services)
         /\ Ids(e.connections) = Ids(d.connections)
         /\ \A s \in e.services : s.repo # r => s \in d.services
         /\ \A s \in d.services : s.repo # r => s \in e.services
         /\ d.completed[r] # NoScan =>
              \A s \in d.services : s.repo = r /\ s.scan = d.completed[r] =>
                \E t \in e.services : t.id = s.id /\ t.repo = r /\ t.scan = v
<1> DEFINE prev == d.completed[r]
           local == Ids(ServicesOf(d, r))
           S(s) == IF s.repo = r /\ s.scan = prev THEN [s EXCEPT !.scan = v] ELSE s
           C(c) == IF c.edge.source \in local /\ c.scan = prev
                   THEN [c EXCEPT !.scan = v] ELSE c
<1>0. d \in Tables
  BY DEF SoundTables
<1>1. CASE prev = NoScan
  BY <1>1 DEF Restamp
<1>2. CASE prev # NoScan
  <2>1. e = [d EXCEPT !.services = {S(s) : s \in @},
                      !.connections = {C(c) : c \in @}]
    BY <1>2 DEF Restamp
  <2>2. \A s \in d.services :
          /\ S(s) \in Service /\ S(s).id = s.id /\ S(s).repo = s.repo
          /\ S(s).name = s.name
          /\ s.repo # r => S(s) = s
          /\ s.repo = r /\ s.scan = prev => S(s).scan = v
    BY <1>0, TablesFields DEF Service, ScanId
  <2>3. \A c \in d.connections :
          C(c) \in Connection /\ C(c).id = c.id /\ C(c).edge = c.edge
    BY <1>0, TablesFields DEF Connection, ScanId
  <2> HIDE DEF S, C
  <2>4. {S(s) : s \in d.services} \subseteq Service
    BY <2>2
  <2>5. {C(c) : c \in d.connections} \subseteq Connection
    BY <2>3
  <2>6. /\ e \in Tables /\ e.services = {S(s) : s \in d.services}
        /\ e.connections = {C(c) : c \in d.connections}
        /\ e.schemas = d.schemas /\ e.satellites = d.satellites
        /\ e.nextScan = d.nextScan /\ e.completed = d.completed
        /\ e.overrides = d.overrides
    BY <1>0, <2>1, <2>4, <2>5 DEF Tables
  <2>7. Ids(e.services) = Ids(d.services)
    BY <2>2, <2>6 DEF Ids
  <2>8. Ids(e.connections) = Ids(d.connections)
    BY <2>3, <2>6 DEF Ids
  <2>9. ASSUME NEW s \in e.services
        PROVE  /\ \E t \in d.services :
                    s.id = t.id /\ s.repo = t.repo /\ s.name = t.name
               /\ s.repo # r => s \in d.services
    <3>1. PICK t \in d.services : s = S(t)
      BY <2>6
    <3> QED
      BY <2>2, <3>1
  <2>12. \A c \in e.connections : \E b \in d.connections : c.edge = b.edge
    BY <2>3, <2>6
  <2>10. \A s, t \in e.services : s.id = t.id => s = t
    BY <2>2, <2>6 DEF SoundTables, OneRow
  <2>11. SoundTables(e)
    BY <2>6, <2>7, <2>8, <2>9, <2>10, <2>12, SoundByIds
  <2>13. ASSUME NEW s \in d.services, s.repo # r PROVE s \in e.services
    BY <2>2, <2>6, <2>13
  <2>14. \A s \in d.services : s.repo = r /\ s.scan = prev =>
           S(s) \in e.services /\ S(s).id = s.id /\ S(s).repo = r /\ S(s).scan = v
    BY <2>2, <2>6
  <2> QED
    BY <2>6, <2>7, <2>8, <2>9, <2>11, <2>13, <2>14
<1> QED
  BY <1>1, <1>2

(* What a scan found gets rows of its version: new ones, or those that its *)
(* repository has under these names.                                       *)
LEMMA UpsertedRow ==
  ASSUME NEW d \in Tables, NEW r \in Repos, NEW v \in Nat,
         NEW f \in [name : Names, file : Files]
  PROVE  LET u == Upserted(d, r, v, f)
         IN  /\ u \in Service /\ u.repo = r /\ u.name = f.name
             /\ u.file = f.file /\ u.scan = v
             /\ \/ \E s \in d.services : s.repo = r /\ s.name = f.name /\ s.id = u.id
                \/ /\ \A s \in d.services : ~(s.repo = r /\ s.name = f.name)
                   /\ u.id.scan = v /\ u.id.name = f.name
<1> DEFINE same == {s \in ServicesOf(d, r) : s.name = f.name}
           new == [scan |-> v, repo |-> r, name |-> f.name]
           id == IF same = {} THEN new ELSE (CHOOSE s \in same : TRUE).id
<1>1. new \in ServiceId /\ new.scan = v /\ new.name = f.name
  BY DEF ServiceId, ScanId
<1>2. same # {} => (CHOOSE s \in same : TRUE) \in same
  OBVIOUS
<1>3. \A s \in same : s \in d.services /\ s.repo = r /\ s.name = f.name /\ s.id \in ServiceId
  BY TablesFields DEF ServicesOf, Service
<1>4. id \in ServiceId
  BY <1>1, <1>2, <1>3
<1>5. \/ \E s \in d.services : s.repo = r /\ s.name = f.name /\ s.id = id
      \/ /\ \A s \in d.services : ~(s.repo = r /\ s.name = f.name)
         /\ id.scan = v /\ id.name = f.name
  <2>1. CASE same = {}
    BY <1>1, <2>1 DEF ServicesOf
  <2>2. CASE same # {}
    BY <1>2, <1>3, <2>2
  <2> QED
    BY <2>1, <2>2
<1>6. Upserted(d, r, v, f) =
        [id |-> id, repo |-> r, name |-> f.name, file |-> f.file, scan |-> v]
  BY DEF Upserted
<1> HIDE DEF id
<1>7. Upserted(d, r, v, f) \in Service
  BY <1>4, <1>6 DEF Service, ScanId
<1> QED
  BY <1>5, <1>6, <1>7

(* Reported services have one name each.                                   *)
OneName(found) == \A e, f \in found : e.name = f.name => e = f

LEMMA Upserting ==
  ASSUME NEW d, SoundTables(d), NEW r \in Repos, NEW v \in Nat, RowsBefore(d, v),
         NEW found \in SUBSET [name : Names, file : Files], OneName(found),
         NEW e, e = UpsertServices(d, r, v, found)
  PROVE  /\ SoundTables(e) /\ RowsBefore(e, v + 1)
         /\ e.nextScan = d.nextScan /\ e.connections = d.connections
         /\ e.schemas = d.schemas /\ e.satellites = d.satellites
         /\ e.completed = d.completed /\ e.overrides = d.overrides
         /\ Ids(d.services) \subseteq Ids(e.services)
         /\ \A s : s.repo # r => (s \in e.services <=> s \in d.services)
         /\ \A s \in e.services : s.repo = r => s \in d.services \/ s.scan = v
         /\ \A s \in d.services : s.repo = r /\ s \notin e.services =>
              \E t \in e.services : t.id = s.id /\ t.repo = r /\ t.scan = v
         /\ \A s \in e.services : s \notin d.services =>
              \E f \in found : s = Upserted(d, r, v, f)
         /\ \A f \in found : Upserted(d, r, v, f) \in e.services
<1> DEFINE U(f) == Upserted(d, r, v, f)
           kept == {s \in d.services : ~(s.repo = r /\ \E f \in found : f.name = s.name)}
<1>1. d \in Tables /\ d.services \subseteq Service /\ d.connections \subseteq Connection
  BY TablesFields DEF SoundTables
<1>2. ASSUME NEW f \in found
      PROVE  /\ U(f) \in Service /\ U(f).repo = r /\ U(f).name = f.name
             /\ U(f).scan = v
             /\ \/ \E s \in d.services : s.repo = r /\ s.name = f.name /\ s.id = U(f).id
                \/ /\ \A s \in d.services : ~(s.repo = r /\ s.name = f.name)
                   /\ U(f).id.scan = v /\ U(f).id.name = f.name
  BY <1>1, UpsertedRow
<1> HIDE DEF U
<1>3. /\ e \in Tables /\ e.services = kept \cup {U(f) : f \in found}
      /\ e.nextScan = d.nextScan /\ e.connections = d.connections
      /\ e.schemas = d.schemas /\ e.satellites = d.satellites
      /\ e.completed = d.completed /\ e.overrides = d.overrides
  <2>1. e = [d EXCEPT !.services = kept \cup {U(f) : f \in found}]
    BY DEF UpsertServices, U
  <2>2. kept \cup {U(f) : f \in found} \subseteq Service
    BY <1>1, <1>2
  <2> QED
    BY <1>1, <2>1, <2>2 DEF Tables
<1>4. ASSUME NEW s \in d.services, s \notin kept
      PROVE  \E f \in found : U(f).id = s.id /\ s.repo = r
  <2>1. PICK f \in found : f.name = s.name /\ s.repo = r
    BY <1>4
  <2> QED
    BY <1>2, <2>1 DEF SoundTables, OneRow
<1>5. OneRow(e)
  <2>1. ASSUME NEW f \in found, NEW s \in kept
        PROVE  U(f).id # s.id /\ ~(s.repo = U(f).repo /\ s.name = U(f).name)
    <3>1. ~(s.repo = r /\ s.name = f.name)
      OBVIOUS
    <3>2. s.id.scan # v
      BY <1>1 DEF RowsBefore, Service, ServiceId, ScanId
    <3> QED
      BY <1>2, <3>1, <3>2 DEF SoundTables, OneRow
  <2>2. ASSUME NEW f \in found, NEW g \in found,
               U(f).id = U(g).id \/ U(f).name = U(g).name
        PROVE  f = g
    <3>1. \A s \in d.services : s.id.scan # v
      BY <1>1 DEF RowsBefore, Service, ServiceId, ScanId
    <3>2. f.name = g.name
      BY <1>2, <2>2, <3>1 DEF SoundTables, OneRow
    <3> QED
      BY <3>2 DEF OneName
  <2>3. \A s, t \in kept : s.id = t.id \/ (s.repo = t.repo /\ s.name = t.name) => s = t
    BY DEF SoundTables, OneRow
  <2> QED
    BY <1>3, <2>1, <2>2, <2>3 DEF OneRow
<1>6. Ids(d.services) \subseteq Ids(e.services)
  BY <1>3, <1>4 DEF Ids
<1>7. References(e)
  BY <1>3, <1>6 DEF SoundTables, References
<1>8. RowsBefore(e, v + 1)
  <2>1. \A s \in d.services : s.id.scan < v + 1
    BY <1>1 DEF RowsBefore, Service, ServiceId, ScanId
  <2>2. \A f \in found : U(f).id.scan < v + 1
    BY <1>2, <2>1
  <2>3. \A c \in d.connections : c.id.scan < v + 1
    BY <1>1 DEF RowsBefore, Connection, ScanId
  <2> QED
    BY <1>3, <2>1, <2>2, <2>3 DEF RowsBefore
<1>9. \A s : s.repo # r => (s \in e.services <=> s \in d.services)
  BY <1>2, <1>3
<1>10. \A s \in e.services : s.repo = r => s \in d.services \/ s.scan = v
  BY <1>2, <1>3
<1>11. \A s \in d.services : s.repo = r /\ s \notin e.services =>
         \E t \in e.services : t.id = s.id /\ t.repo = r /\ t.scan = v
  BY <1>2, <1>3, <1>4
<1>12. /\ \A s \in e.services : s \notin d.services => \E f \in found : s = U(f)
       /\ \A f \in found : U(f) \in e.services
  BY <1>3
<1> QED
  BY <1>3, <1>5, <1>6, <1>7, <1>8, <1>9, <1>10, <1>11, <1>12 DEF SoundTables, U

(* A reported connection joins services that are in the tables.            *)
LEMMA EdgesFound ==
  ASSUME NEW d \in Tables, NEW r \in Repos,
         NEW conns \in SUBSET [source : Names, target : Names,
                              route : Routes \cup {NullRoute}, schema : BOOLEAN],
         NEW e \in EdgesOf(d, r, conns)
  PROVE  e \in Edge /\ e.source \in Ids(d.services) /\ e.target \in Ids(d.services)
<1>1. PICK c \in conns : e \in Edges(d, r, c)
  BY DEF EdgesOf
<1>2. /\ Resolve(d, r, c.source) \subseteq d.services
      /\ Resolve(d, r, c.target) \subseteq d.services
  BY DEF Resolve
<1>3. PICK s \in d.services, t \in d.services :
        e = [source |-> s.id, target |-> t.id, route |-> c.route]
  BY <1>1, <1>2 DEF Edges
<1>4. s.id \in ServiceId /\ t.id \in ServiceId
  BY TablesFields DEF Service
<1> QED
  BY <1>3, <1>4 DEF Edge, Ids

LEMMA Connecting ==
  ASSUME NEW d, SoundTables(d), NEW r \in Repos, NEW v \in Nat, RowsBefore(d, v + 1),
         NEW conns \in SUBSET [source : Names, target : Names,
                              route : Routes \cup {NullRoute}, schema : BOOLEAN],
         ~HaveSchemas(d, Replaced(d, EdgesOf(d, r, conns))),
         NEW e, e = UpsertConnections(d, r, v, conns)
  PROVE  /\ SoundTables(e) /\ RowsBefore(e, v + 1)
         /\ e.nextScan = d.nextScan /\ e.services = d.services
         /\ e.completed = d.completed /\ e.overrides = d.overrides
         /\ \A id \in Ids(e.connections) : id \in Ids(d.connections) \/ id.scan = v
<1> DEFINE edges == EdgesOf(d, r, conns)
           typed == EdgesOf(d, r, {c \in conns : c.schema})
           old == Replaced(d, edges)
           new == Inserted(v, edges)
           newTyped == Inserted(v, typed)
<1>0. d \in Tables
  BY DEF SoundTables
<1>1. /\ d.services \subseteq Service /\ d.connections \subseteq Connection
      /\ d.schemas \subseteq [scan : ScanId, edge : Edge]
  BY <1>0, TablesFields
<1>2. \A x \in edges :
        x \in Edge /\ x.source \in Ids(d.services) /\ x.target \in Ids(d.services)
  BY <1>0, EdgesFound
<1>3. typed \subseteq edges
  BY DEF EdgesOf
<1>4. /\ new \subseteq Connection
      /\ \A c \in new : c.edge \in edges /\ c.id.scan = v
      /\ newTyped \subseteq new
  <2> HIDE DEF edges, typed
  <2> QED
    BY <1>2, <1>3 DEF Inserted, Connection, ScanId
<1>5. old \subseteq d.connections /\ Ids(old) \cap d.schemas = {}
  BY DEF Replaced, HaveSchemas
<1>6. e = [d EXCEPT !.connections = (@ \ old) \cup new,
                    !.schemas = @ \cup Ids(newTyped)]
  BY DEF UpsertConnections
<1> HIDE DEF edges, typed, old, new, newTyped
<1>7. Ids(newTyped) \subseteq [scan : ScanId, edge : Edge]
  BY <1>4 DEF Ids, Connection
<1>8. /\ e \in Tables /\ e.connections = (d.connections \ old) \cup new
      /\ e.schemas = d.schemas \cup Ids(newTyped)
      /\ e.satellites = d.satellites
      /\ e.nextScan = d.nextScan /\ e.services = d.services
      /\ e.completed = d.completed /\ e.overrides = d.overrides
  BY <1>0, <1>1, <1>4, <1>6, <1>7, ZenonT(30) DEF Tables
<1>9. References(e)
  <2>1. \A c \in e.connections :
          c.edge.source \in Ids(e.services) /\ c.edge.target \in Ids(e.services)
    BY <1>2, <1>4, <1>8 DEF SoundTables, References
  <2>2. d.schemas \subseteq Ids(e.connections)
    BY <1>5, <1>8 DEF SoundTables, References, Ids
  <2>3. Ids(newTyped) \subseteq Ids(e.connections)
    BY <1>4, <1>8 DEF Ids
  <2> QED
    BY <1>8, <2>1, <2>2, <2>3 DEF SoundTables, References
<1>10. OneRow(e)
  BY <1>8 DEF SoundTables, OneRow
<1>11. RowsBefore(e, v + 1)
  BY <1>4, <1>8 DEF RowsBefore
<1>12. \A id \in Ids(e.connections) : id \in Ids(d.connections) \/ id.scan = v
  BY <1>4, <1>8 DEF Ids
<1> QED
  BY <1>8, <1>9, <1>10, <1>11, <1>12 DEF SoundTables

LEMMA Refreshing ==
  ASSUME NEW d, SoundTables(d), NEW r \in Repos, NEW found, NEW v \in Nat, NEW e,
         e = SetRepoState(RefreshSatellites(d, r, found), r, v)
  PROVE  /\ SoundTables(e)
         /\ e.nextScan = d.nextScan /\ e.services = d.services
         /\ e.connections = d.connections
         /\ e.completed = d.completed /\ e.overrides = d.overrides
<1>0. d \in Tables /\ d.services \subseteq Service
  BY TablesFields DEF SoundTables
<1>1. PICK ids \in SUBSET Ids(d.services) :
        RefreshSatellites(d, r, found) =
          [d EXCEPT !.satellites = (d.satellites \ Ids(ServicesOf(d, r))) \cup ids]
  BY DEF RefreshSatellites, Ids, ServicesOf
<1>2. ids \subseteq ServiceId
  BY <1>0, <1>1 DEF Ids, Service
<1> DEFINE sat == (d.satellites \ Ids(ServicesOf(d, r))) \cup ids
           c == [d EXCEPT !.satellites = sat]
<1>3. sat \subseteq ServiceId /\ sat \subseteq Ids(d.services)
  BY <1>0, <1>1, <1>2, TablesFields DEF SoundTables, References
<1> HIDE DEF sat
<1>4. /\ c \in Tables /\ c.satellites = sat /\ c.nextScan = d.nextScan
      /\ c.services = d.services /\ c.connections = d.connections
      /\ c.completed = d.completed /\ c.overrides = d.overrides
      /\ c.schemas = d.schemas /\ c.state \in [Repos -> ScanId]
  BY <1>0, <1>3, TablesFields DEF Tables
<1>5. e = [c EXCEPT !.state[r] = v]
  BY <1>1 DEF sat, SetRepoState
<1> HIDE DEF c
<1>6. [c.state EXCEPT ![r] = v] \in [Repos -> ScanId]
  BY <1>4 DEF ScanId
<1>7. e = [c EXCEPT !.state = [c.state EXCEPT ![r] = v]]
  BY <1>4, <1>5 DEF Tables
<1>8. /\ e \in Tables /\ e.satellites = sat /\ e.nextScan = d.nextScan
      /\ e.services = d.services /\ e.connections = d.connections
      /\ e.completed = d.completed /\ e.overrides = d.overrides
      /\ e.schemas = d.schemas
  BY <1>4, <1>6, <1>7 DEF Tables
<1> QED
  BY <1>3, <1>8 DEF SoundTables, References, OneRow

(* What an override does, if it does not throw.                            *)
LEMMA Renaming ==
  ASSUME NEW d, SoundTables(d), NEW o \in Override, o.action = "rename",
         ~OverrideThrows(d, o), NEW e, e = Rename(d, o)
  PROVE  /\ SoundTables(e) /\ e.nextScan = d.nextScan
         /\ e.completed = d.completed /\ e.overrides = d.overrides
         /\ e.connections = d.connections
         /\ Ids(e.services) = Ids(d.services)
         /\ \A s \in e.services : \E t \in d.services :
              /\ t.id = s.id /\ t.repo = s.repo /\ t.file = s.file /\ t.scan = s.scan
              /\ s = t \/ s.id = o.target
         /\ \A t \in d.services : \E s \in e.services :
              /\ t.id = s.id /\ t.repo = s.repo /\ t.file = s.file /\ t.scan = s.scan
              /\ s = t \/ s.id = o.target
<1> DEFINE S(s) == IF s.id = o.target THEN [s EXCEPT !.name = o.name] ELSE s
<1>1. d \in Tables /\ d.services \subseteq Service /\ o.name \in Names
  BY TablesFields DEF SoundTables, Override
<1>2. \A s \in d.services :
        /\ S(s) \in Service /\ S(s).id = s.id /\ S(s).repo = s.repo
        /\ S(s).file = s.file /\ S(s).scan = s.scan
        /\ S(s) = s \/ s.id = o.target
        /\ s.id # o.target => S(s).name = s.name
        /\ s.id = o.target => S(s).name = o.name
  BY <1>1 DEF Service
<1>3. \A s, t \in d.services :
        s.id = o.target /\ t.id # o.target /\ t.repo = s.repo => t.name # o.name
  BY DEF OverrideThrows
<1>4. e = [d EXCEPT !.services = {S(s) : s \in @}]
  BY DEF Rename
<1> HIDE DEF S
<1>5. {S(s) : s \in d.services} \subseteq Service
  BY <1>2
<1>6. /\ e \in Tables /\ e.services = {S(s) : s \in d.services}
      /\ e.connections = d.connections /\ e.schemas = d.schemas
      /\ e.satellites = d.satellites /\ e.nextScan = d.nextScan
      /\ e.completed = d.completed /\ e.overrides = d.overrides
  BY <1>1, <1>4, <1>5 DEF Tables
<1>7. Ids(e.services) = Ids(d.services)
  BY <1>2, <1>6 DEF Ids
<1>8. OneRow(e)
  <2>1. ASSUME NEW s \in d.services, NEW t \in d.services,
               S(s).id = S(t).id \/ (S(s).repo = S(t).repo /\ S(s).name = S(t).name)
        PROVE  s = t
    <3>1. CASE s.id = t.id
      BY <3>1 DEF SoundTables, OneRow
    <3>2. CASE s.id # t.id /\ s.repo = t.repo /\ S(s).name = S(t).name
      BY <1>2, <1>3, <3>2 DEF SoundTables, OneRow
    <3> QED
      BY <1>2, <2>1, <3>1, <3>2
  <2> QED
    BY <1>6, <2>1 DEF OneRow
<1>9. References(e)
  BY <1>6, <1>7 DEF SoundTables, References
<1>10. ASSUME NEW s \in e.services
       PROVE  \E t \in d.services :
                /\ t.id = s.id /\ t.repo = s.repo /\ t.file = s.file /\ t.scan = s.scan
                /\ s = t \/ s.id = o.target
  <2>1. PICK t \in d.services : s = S(t)
    BY <1>6
  <2> QED
    BY <1>2, <2>1
<1>11. ASSUME NEW t \in d.services
       PROVE  \E s \in e.services :
                /\ t.id = s.id /\ t.repo = s.repo /\ t.file = s.file /\ t.scan = s.scan
                /\ s = t \/ s.id = o.target
  <2>1. S(t) \in e.services
    BY <1>6
  <2> QED
    BY <1>2, <2>1
<1> QED
  BY <1>6, <1>7, <1>8, <1>9, <1>10, <1>11 DEF SoundTables

LEMMA Deleting ==
  ASSUME NEW d, SoundTables(d), NEW conns \in SUBSET d.connections,
         ~HaveSchemas(d, conns), NEW e, e = DropConnections(d, conns)
  PROVE  /\ SoundTables(e) /\ e.nextScan = d.nextScan
         /\ e.completed = d.completed /\ e.overrides = d.overrides
         /\ e.services = d.services /\ e.connections = d.connections \ conns
         /\ e.schemas = d.schemas /\ e.satellites = d.satellites
<1>1. d \in Tables /\ d.connections \subseteq Connection
  BY TablesFields DEF SoundTables
<1>2. /\ e \in Tables /\ e.services = d.services
      /\ e.connections = d.connections \ conns /\ e.schemas = d.schemas
      /\ e.satellites = d.satellites /\ e.nextScan = d.nextScan
      /\ e.completed = d.completed /\ e.overrides = d.overrides
  BY <1>1 DEF DropConnections, Tables
<1>3. d.schemas \subseteq Ids(e.connections)
  BY <1>2 DEF SoundTables, References, HaveSchemas, Ids
<1> QED
  BY <1>2, <1>3 DEF SoundTables, References, OneRow

(* Stamping an override.                                                   *)
LEMMA Stamping ==
  ASSUME NEW d, SoundTables(d), NEW i \in 1 .. Len(d.overrides), NEW v \in Nat,
         NEW e, e = Stamp(d, i, v)
  PROVE  /\ SoundTables(e) /\ e.nextScan = d.nextScan
         /\ e.completed = d.completed /\ e.services = d.services
         /\ e.connections = d.connections
         /\ Len(e.overrides) = Len(d.overrides)
         /\ e.overrides[i] = [d.overrides[i] EXCEPT !.applied = v]
         /\ \A j \in 1 .. Len(d.overrides) : j # i => e.overrides[j] = d.overrides[j]
<1> DEFINE o == d.overrides[i]
           n == [o EXCEPT !.applied = v]
<1>1. d \in Tables /\ d.overrides \in Seq(Override) /\ o \in Override
  BY TablesFields DEF SoundTables
<1>2. n \in Override
  BY <1>1 DEF Override, ScanId
<1>3. e = [d EXCEPT !.overrides = [d.overrides EXCEPT ![i] = n]]
  BY <1>1 DEF Stamp, Tables
<1> HIDE DEF n
<1>4. /\ [d.overrides EXCEPT ![i] = n] \in Seq(Override)
      /\ Len([d.overrides EXCEPT ![i] = n]) = Len(d.overrides)
      /\ [d.overrides EXCEPT ![i] = n][i] = n
      /\ \A j \in 1 .. Len(d.overrides) :
           j # i => [d.overrides EXCEPT ![i] = n][j] = d.overrides[j]
  BY <1>1, <1>2, ExceptSeq
<1>5. /\ e \in Tables /\ e.services = d.services
      /\ e.connections = d.connections /\ e.schemas = d.schemas
      /\ e.satellites = d.satellites /\ e.nextScan = d.nextScan
      /\ e.completed = d.completed
      /\ e.overrides = [d.overrides EXCEPT ![i] = n]
  BY <1>1, <1>3, <1>4 DEF Tables
<1> QED
  BY <1>4, <1>5 DEF SoundTables, References, OneRow, n

LEMMA Applying ==
  ASSUME NEW d, SoundTables(d), DeletedGone(d), NEW i \in 1 .. Len(d.overrides),
         NEW v \in Nat, ~OverrideThrows(d, d.overrides[i]),
         NEW e, e = Stamp(Applied(d, d.overrides[i]), i, v)
  PROVE  /\ SoundTables(e) /\ DeletedGone(e) /\ e.nextScan = d.nextScan
         /\ e.completed = d.completed /\ e.connections \subseteq d.connections
         /\ Ids(e.services) = Ids(d.services)
         /\ \A s \in e.services : \E t \in d.services :
              /\ t.id = s.id /\ t.repo = s.repo /\ t.file = s.file /\ t.scan = s.scan
              /\ s = t \/ s.id = d.overrides[i].target
         /\ \A t \in d.services : \E s \in e.services :
              /\ t.id = s.id /\ t.repo = s.repo /\ t.file = s.file /\ t.scan = s.scan
              /\ s = t \/ s.id = d.overrides[i].target
         /\ Len(e.overrides) = Len(d.overrides)
         /\ e.overrides[i] = [d.overrides[i] EXCEPT !.applied = v]
         /\ \A j \in 1 .. Len(d.overrides) : j # i => e.overrides[j] = d.overrides[j]
<1> DEFINE o == d.overrides[i]
           c == Applied(d, o)
           dead == {x \in d.connections : x.id = o.target}
<1>1. o \in Override
  BY TablesFields DEF SoundTables
<1>2. /\ SoundTables(c) /\ c.nextScan = d.nextScan
      /\ c.completed = d.completed /\ c.connections \subseteq d.connections
      /\ c.overrides = d.overrides
      /\ o.action = "delete" => o.target \notin Ids(c.connections)
      /\ Ids(c.services) = Ids(d.services)
      /\ \A s \in c.services : \E t \in d.services :
           /\ t.id = s.id /\ t.repo = s.repo /\ t.file = s.file /\ t.scan = s.scan
           /\ s = t \/ s.id = o.target
      /\ \A t \in d.services : \E s \in c.services :
           /\ t.id = s.id /\ t.repo = s.repo /\ t.file = s.file /\ t.scan = s.scan
           /\ s = t \/ s.id = o.target
  <2>1. CASE o.action = "delete"
    <3>1. c = DropConnections(d, dead)
      BY <2>1 DEF Applied
    <3>2. ~HaveSchemas(d, dead)
      BY <2>1 DEF OverrideThrows, HaveSchemas, Ids
    <3> HIDE DEF c
    <3>3. o.target \notin Ids(d.connections \ dead)
      BY DEF Ids
    <3> HIDE DEF dead
    <3>4. dead \in SUBSET d.connections
      BY DEF dead
    <3>5. /\ SoundTables(c) /\ c.nextScan = d.nextScan
          /\ c.completed = d.completed /\ c.overrides = d.overrides
          /\ c.services = d.services /\ c.connections = d.connections \ dead
      BY <3>1, <3>2, <3>4, Deleting
    <3> QED
      BY <3>3, <3>5
  <2>2. CASE o.action = "rename"
    <3>1. c = Rename(d, o)
      BY <2>2 DEF Applied
    <3> HIDE DEF c, o
    <3> QED
      BY <1>1, <2>2, <3>1, Renaming, SMTT(30) DEF o
  <2>3. CASE o.action \notin {"delete", "rename"}
    <3>1. c = d
      BY <2>3 DEF Applied
    <3> HIDE DEF c
    <3> QED
      BY <2>3, <3>1
  <2> QED
    BY <2>1, <2>2, <2>3
<1> HIDE DEF c
<1>3. /\ SoundTables(e) /\ e.nextScan = c.nextScan
      /\ e.completed = c.completed /\ e.services = c.services
      /\ e.connections = c.connections
      /\ Len(e.overrides) = Len(c.overrides)
      /\ e.overrides[i] = [c.overrides[i] EXCEPT !.applied = v]
      /\ \A j \in 1 .. Len(c.overrides) : j # i => e.overrides[j] = c.overrides[j]
  <2>1. e = Stamp(c, i, v)
    BY DEF c
  <2> QED
    BY <1>2, <2>1, Stamping, SMTT(30)
<1>4. DeletedGone(e)
  <2>1. Ids(e.connections) \subseteq Ids(d.connections)
    BY <1>2, <1>3 DEF Ids
  <2>2. e.overrides[i].action = o.action /\ e.overrides[i].target = o.target
    BY <1>1, <1>2, <1>3 DEF Override
  <2>3. ASSUME NEW j \in 1 .. Len(e.overrides), e.overrides[j].action = "delete",
               e.overrides[j].applied # NoScan
        PROVE  e.overrides[j].target \notin Ids(e.connections)
    <3>1. CASE j = i
      BY <1>2, <1>3, <2>2, <2>3, <3>1
    <3>2. CASE j # i
      BY <1>2, <1>3, <2>1, <2>3, <3>2 DEF DeletedGone
    <3> QED
      BY <3>1, <3>2
  <2> QED
    BY <2>3 DEF DeletedGone
<1> QED
  BY <1>2, <1>3, <1>4

(* Deleting services that no connection touches.                           *)
LEMMA DroppingServices ==
  ASSUME NEW d, SoundTables(d), NEW rows \in SUBSET d.services,
         Touching(d, Ids(rows)) = {}, NEW e, e = DropServices(d, rows)
  PROVE  /\ SoundTables(e) /\ e.nextScan = d.nextScan
         /\ e.completed = d.completed /\ e.overrides = d.overrides
         /\ e.services = d.services \ rows /\ e.connections = d.connections
<1>1. d \in Tables /\ d.services \subseteq Service /\ d.satellites \subseteq ServiceId
  BY TablesFields DEF SoundTables
<1>2. /\ e \in Tables /\ e.services = d.services \ rows
      /\ e.connections = d.connections /\ e.schemas = d.schemas
      /\ e.satellites = d.satellites \ Ids(rows) /\ e.nextScan = d.nextScan
      /\ e.completed = d.completed /\ e.overrides = d.overrides
  BY <1>1 DEF DropServices, Tables
<1>3. Ids(d.services) \ Ids(rows) \subseteq Ids(e.services)
  BY <1>2 DEF Ids
<1>4. \A c \in d.connections :
        c.edge.source \notin Ids(rows) /\ c.edge.target \notin Ids(rows)
  BY DEF Touching
<1>5. References(e)
  BY <1>2, <1>3, <1>4 DEF SoundTables, References
<1>6. OneRow(e)
  BY <1>2 DEF SoundTables, OneRow
<1> QED
  BY <1>2, <1>5, <1>6 DEF SoundTables

(* endScan: the stale services of the repository go, with all that refers  *)
(* to them.                                                                *)
LEMMA Closing ==
  ASSUME NEW d, SoundTables(d), NEW r \in Repos, NEW v \in Nat,
         ~HaveSchemas(DropStaleSchemas(d, r, v), Touching(d, Ids(Stale(d, r, v)))),
         NEW e, e = DropStaleRows(DropStaleSchemas(d, r, v), r, v)
  PROVE  /\ SoundTables(e) /\ e.nextScan = d.nextScan
         /\ e.completed = d.completed /\ e.overrides = d.overrides
         /\ e.services = d.services \ Stale(d, r, v)
         /\ e.connections \subseteq d.connections
<1> DEFINE c == DropStaleSchemas(d, r, v)
           stale == Stale(d, r, v)
           conns == Touching(d, Ids(stale))
           b == DropConnections(c, conns)
<1>1. d \in Tables /\ d.schemas \subseteq [scan : ScanId, edge : Edge]
  BY TablesFields DEF SoundTables
<1>2. /\ c \in Tables /\ c.services = d.services
      /\ c.connections = d.connections /\ c.schemas \subseteq d.schemas
      /\ c.satellites = d.satellites /\ c.nextScan = d.nextScan
      /\ c.completed = d.completed /\ c.overrides = d.overrides
  BY <1>1 DEF DropStaleSchemas, Tables
<1>3. SoundTables(c)
  BY <1>2 DEF SoundTables, References, OneRow
<1>4. stale = Stale(c, r, v) /\ conns = Touching(c, Ids(stale))
  BY <1>2 DEF Stale, ServicesOf, Touching
<1>5. e = DropServices(b, stale)
  BY <1>4 DEF DropStaleRows
<1>6. stale \subseteq d.services /\ conns \subseteq d.connections
  BY DEF Stale, ServicesOf, Touching
<1>7. ~HaveSchemas(c, conns)
  OBVIOUS
<1> HIDE DEF c, stale
<1>8. Touching(c, Ids(stale)) \in SUBSET c.connections
  BY DEF Touching
<1> HIDE DEF conns
<1>9. /\ SoundTables(b) /\ b.nextScan = d.nextScan
      /\ b.completed = d.completed /\ b.overrides = d.overrides
      /\ b.services = d.services /\ b.connections = d.connections \ conns
  BY <1>2, <1>3, <1>4, <1>7, <1>8, Deleting
<1> HIDE DEF b
<1>10. Touching(b, Ids(stale)) = {}
  BY <1>2, <1>4, <1>9 DEF Touching
<1>11. stale \in SUBSET b.services
  BY <1>6, <1>9
<1>12. /\ SoundTables(e) /\ e.nextScan = b.nextScan
       /\ e.completed = b.completed /\ e.overrides = b.overrides
       /\ e.services = b.services \ stale /\ e.connections = b.connections
  BY <1>5, <1>9, <1>10, <1>11, DroppingServices
<1>13. e.services = d.services \ stale /\ e.connections \subseteq d.connections
  BY <1>9, <1>12
<1> QED
  BY <1>9, <1>12, <1>13 DEF stale

(* A statement that only removes rows leaves committed tables sound.       *)
LEMMA Removing ==
  ASSUME NEW d, Committed(d), NEW e, SoundTables(e),
         e.services \subseteq d.services, e.connections \subseteq d.connections,
         e.nextScan = d.nextScan, e.completed = d.completed,
         e.overrides = d.overrides
  PROVE  Committed(e)
<1>1. RowsBefore(e, e.nextScan)
  BY DEF Committed, RowsBefore
<1>2. DeletedGone(e)
  BY DEF Committed, DeletedGone, Ids
<1> QED
  BY <1>1, <1>2 DEF Committed

(* So does an override that /arcanon:correct stages.                       *)
LEMMA Staging ==
  ASSUME NEW d, Committed(d), NEW o \in Override, o.applied = NoScan,
         o.action = "delete" => o.target.scan < d.nextScan,
         NEW e, e = [d EXCEPT !.overrides = Append(@, o)]
  PROVE  Committed(e)
<1>1. d \in Tables /\ d.overrides \in Seq(Override) /\ Len(d.overrides) \in Nat
  BY TablesFields DEF Committed, SoundTables
<1>2. /\ Append(d.overrides, o) \in Seq(Override)
      /\ Len(Append(d.overrides, o)) = Len(d.overrides) + 1
      /\ \A i \in 1 .. Len(d.overrides) : Append(d.overrides, o)[i] = d.overrides[i]
      /\ Append(d.overrides, o)[Len(d.overrides) + 1] = o
  BY <1>1, AppendProperties
<1>3. /\ e \in Tables /\ e.services = d.services
      /\ e.connections = d.connections /\ e.schemas = d.schemas
      /\ e.satellites = d.satellites /\ e.nextScan = d.nextScan
      /\ e.completed = d.completed /\ e.overrides = Append(d.overrides, o)
  BY <1>1, <1>2 DEF Tables
<1>4. SoundTables(e)
  BY <1>3 DEF Committed, SoundTables, References, OneRow
<1>5. \A i \in 1 .. Len(e.overrides) :
        \/ i \in 1 .. Len(d.overrides) /\ e.overrides[i] = d.overrides[i]
        \/ e.overrides[i] = o
  BY <1>1, <1>2, <1>3
<1>6. DeletedGone(e)
  BY <1>3, <1>5 DEF Committed, DeletedGone
<1>7. \A i \in 1 .. Len(e.overrides) :
        e.overrides[i].action = "delete" => e.overrides[i].target.scan < e.nextScan
  BY <1>3, <1>5 DEF Committed
<1> QED
  BY <1>3, <1>4, <1>6, <1>7 DEF Committed, RowsBefore

-----------------------------------------------------------------------------
(* The invariant holds at first.                                           *)

LEMMA InitialTables ==
  ASSUME NEW d \in {EmptyDb} \cup LegacyDbs
  PROVE  d \in Tables /\ Committed(d)
<1> DEFINE Fresh(e) ==
             /\ e \in Tables /\ e.connections = {} /\ e.schemas = {}
             /\ e.satellites = {} /\ e.completed = [r \in Repos |-> NoScan]
             /\ e.nextScan = 2 /\ Len(e.overrides) = 0
           Few(S) ==
             /\ \A s, t \in S : s = t
             /\ \A s \in S : s.id.scan = NoScan /\ s.scan < 2
<1>1. Fresh(EmptyDb) /\ EmptyDb.services = {}
  <2>1. <<>> \in Seq(Override) /\ Len(<<>>) = 0
    OBVIOUS
  <2> QED
    BY <2>1 DEF EmptyDb, Tables, ScanId, NoScan
<1>2. Fresh(d) /\ Few(d.services)
  <2>1. CASE d = EmptyDb
    BY <1>1, <2>1
  <2>2. CASE d \in LegacyDbs
    <3>1. PICK r \in Repos, n \in Names, f \in Files, v \in {NoScan, Abandoned} :
            d = LegacyDb(r, n, f, v)
      BY <2>2 DEF LegacyDbs
    <3> DEFINE s == [id |-> [scan |-> NoScan, repo |-> r, name |-> n],
                     repo |-> r, name |-> n, file |-> f, scan |-> v]
               A == IF v = Abandoned THEN {r} ELSE {}
    <3>2. s \in Service /\ s.id.scan = NoScan /\ s.scan < 2
      BY DEF Service, ServiceId, ScanId, NoScan, Abandoned
    <3>3. A \subseteq Repos
      OBVIOUS
    <3>4. d = [EmptyDb EXCEPT !.services = {s}, !.abandoned = A]
      BY <3>1 DEF LegacyDb
    <3> HIDE DEF s, A
    <3>5. Fresh(d) /\ d.services = {s}
      BY <1>1, <3>2, <3>3, <3>4 DEF Tables
    <3> QED
      BY <3>2, <3>5
  <2> QED
    BY <2>1, <2>2
<1>3. d.services \subseteq Service /\ d.overrides \in Seq(Override)
  BY <1>2, TablesFields
<1>4. SoundTables(d)
  BY <1>2 DEF SoundTables, References, OneRow
<1>5. RowsBefore(d, 2)
  BY <1>2 DEF RowsBefore, NoScan
<1>6. DeletedGone(d)
  BY <1>2 DEF DeletedGone
<1>7. \A s \in d.services : d.completed[s.repo] = NoScan
  BY <1>2, <1>3 DEF Service
<1> QED
  BY <1>2, <1>4, <1>5, <1>6, <1>7 DEF Committed, NoScan, Abandoned

LEMMA InitSound == Init => IInv
<1> SUFFICES ASSUME Init PROVE IInv
  OBVIOUS
<1>1. db \in Tables /\ Committed(db) /\ tx = db
  BY InitialTables DEF Init
<1>2. NoCall \in Call
  <2>1. (CHOOSE r \in Repos : TRUE) \in Repos
    BY ConstantsAssumption
  <2>2. NoFindings \in Found
    BY DEF NoFindings, Found
  <2> QED
    BY <2>1, <2>2 DEF NoCall, Call, ScanId, NoScan
<1>3. TypeOK
  BY <1>1, <1>2 DEF Init, TypeOK
<1>4. OneWriter /\ \A p \in Scanners : writer # p
  BY <1>1, ConstantsAssumption DEF Init, OneWriter
<1> QED
  BY <1>1, <1>3, <1>4 DEF IInv

-----------------------------------------------------------------------------
(* Each step keeps it.                                                     *)

LEMMA BeginStep ==
  ASSUME IInv, NEW p \in Scanners, NEW r \in Repos, NEW mode \in Modes,
         NEW f \in Findings, NEW lost \in SUBSET Files,
         BeginScan(p, r, mode, f, lost)
  PROVE  IInv'
<1> DEFINE v == db.nextScan
<1>1. /\ db \in Tables /\ SoundTables(db) /\ v \in Nat /\ Committed(db)
      /\ db' = db /\ writer = NoWriter /\ writer' = p
  BY TablesFields DEF IInv, TypeOK, Committed, SoundTables, BeginScan
<1>2. PICK aged \in BOOLEAN :
        LET d == NewVersion(CleanupAbandoned(db, r, aged))
        IN  tx' = IF mode = "incremental" THEN Restamp(d, r, v) ELSE d
  BY DEF BeginScan
<1> DEFINE d == NewVersion(CleanupAbandoned(db, r, aged))
<1>3. tx' = IF mode = "incremental" THEN Restamp(d, r, v) ELSE d
  BY <1>2
<1>4. d = NewVersion(CleanupAbandoned(db, r, aged))
  OBVIOUS
<1> HIDE DEF d
<1>5. /\ d \in Tables /\ d.nextScan = v + 1
      /\ d.services = db.services /\ d.connections = db.connections
      /\ d.schemas = db.schemas /\ d.satellites = db.satellites
      /\ d.completed = db.completed /\ d.overrides = db.overrides
  BY <1>1, <1>4, TakeVersion
<1>6. SoundTables(d)
  BY <1>1, <1>5 DEF SoundTables, References, OneRow
<1>7. /\ SoundTables(tx') /\ tx'.nextScan = v + 1
      /\ tx'.completed = db.completed /\ tx'.overrides = db.overrides
      /\ Ids(tx'.services) = Ids(db.services)
      /\ Ids(tx'.connections) = Ids(db.connections)
      /\ \A s \in tx'.services : s.repo # r => s \in db.services
      /\ \A s \in db.services : s.repo # r => s \in tx'.services
      /\ mode = "full" => tx'.services = db.services
      /\ mode = "incremental" /\ db.completed[r] # NoScan =>
           \A s \in db.services : s.repo = r /\ s.scan = db.completed[r] =>
             \E t \in tx'.services : t.id = s.id /\ t.repo = r /\ t.scan = v
  <2>1. CASE mode = "incremental"
    <3>1. tx' = Restamp(d, r, v)
      BY <1>3, <2>1
    <3>2. /\ SoundTables(tx') /\ tx'.nextScan = d.nextScan
          /\ tx'.completed = d.completed /\ tx'.overrides = d.overrides
          /\ Ids(tx'.services) = Ids(d.services)
          /\ Ids(tx'.connections) = Ids(d.connections)
          /\ \A s \in tx'.services : s.repo # r => s \in d.services
          /\ \A s \in d.services : s.repo # r => s \in tx'.services
          /\ d.completed[r] # NoScan =>
               \A s \in d.services : s.repo = r /\ s.scan = d.completed[r] =>
                 \E t \in tx'.services : t.id = s.id /\ t.repo = r /\ t.scan = v
      BY <1>1, <1>6, <3>1, Restamping
    <3> QED
      BY <1>5, <2>1, <3>2
  <2>2. CASE mode # "incremental"
    <3>1. tx' = d
      BY <1>3, <2>2
    <3> QED
      BY <1>5, <1>6, <2>2, <3>1
  <2> QED
    BY <2>1, <2>2
<1>8. /\ scan' = [scan EXCEPT ![p] =
            [repo |-> r, mode |-> mode, found |-> f, gone |-> lost,
             path |-> NoPath, version |-> v]]
      /\ [repo |-> r, mode |-> mode, found |-> f, gone |-> lost,
          path |-> NoPath, version |-> v] \in Call
  BY <1>1, ConstantsAssumption DEF BeginScan, Call, ScanId
<1>9. /\ scan' \in [Scanners -> Call]
      /\ scan'[p].repo = r /\ scan'[p].mode = mode /\ scan'[p].found = f
      /\ scan'[p].version = v
  BY <1>8 DEF IInv, TypeOK
<1>10. /\ pc' = [pc EXCEPT ![p] = "begun"] /\ pc'[p] = "begun"
       /\ \A q \in Scanners \ {p} : pc'[q] = pc[q]
  BY DEF BeginScan, Goto, IInv, TypeOK
<1>11. TypeOK'
  BY <1>1, <1>7, <1>9, <1>10 DEF IInv, TypeOK, BeginScan, SoundTables
<1>12. OneWriter'
  BY <1>1, <1>9, <1>10, ConstantsAssumption DEF IInv, OneWriter
<1>13. RowsBefore(tx', v) /\ RowsBefore(tx', tx'.nextScan)
  <2>1. /\ tx'.services \subseteq Service /\ tx'.connections \subseteq Connection
    BY <1>7, TablesFields DEF SoundTables
  <2>2. ASSUME NEW s \in tx'.services PROVE s.id.scan < v /\ s.id.scan < v + 1
    <3>1. PICK t \in db.services : t.id = s.id
      BY <1>7 DEF Ids
    <3> QED
      BY <1>1, <2>1, <3>1 DEF Committed, RowsBefore, Service, ServiceId, ScanId
  <2>3. ASSUME NEW c \in tx'.connections PROVE c.id.scan < v /\ c.id.scan < v + 1
    <3>1. PICK b \in db.connections : b.id = c.id
      BY <1>7 DEF Ids
    <3> QED
      BY <1>1, <2>1, <3>1 DEF Committed, RowsBefore, Connection, ScanId
  <2> QED
    BY <1>7, <2>2, <2>3 DEF RowsBefore
<1>14. DeletedGone(tx')
  BY <1>1, <1>7 DEF Committed, DeletedGone
<1>15. Others(p)'
  <2> SUFFICES ASSUME NEW q \in Repos \ {r}
               PROVE  /\ Ids(ServicesOf(tx', q)) = Ids(ServicesOf(db, q))
                      /\ \A s \in ServicesOf(tx', q) : \E t \in db.services :
                           t.id = s.id /\ t.repo = s.repo /\ t.scan = s.scan
                      /\ \A s \in ServicesOf(db, q) : s \in tx'.services
    BY <1>1, <1>9 DEF Others
  <2>1. ServicesOf(tx', q) = ServicesOf(db, q)
    BY <1>7 DEF ServicesOf
  <2> QED
    BY <2>1 DEF ServicesOf
<1>16. OverridesOf(p)'
  BY <1>1, <1>7 DEF OverridesOf
<1>17. MovedOn(p)'
  <2> SUFFICES ASSUME mode = "incremental", db.completed[r] # NoScan,
                      NEW s \in ServicesOf(db, r)
               PROVE  \E t \in tx'.services :
                        t.id = s.id /\ t.repo = s.repo /\ t.scan = v
    BY <1>1, <1>9 DEF MovedOn
  <2>1. s \in db.services /\ s.repo = r /\ s.scan = db.completed[r]
    BY <1>1 DEF ServicesOf, Committed
  <2> QED
    BY <1>7, <2>1
<1>18. NotYet(p)'
  <2> SUFFICES ASSUME mode = "full", NEW s \in tx'.services PROVE s.scan # v
    BY <1>9 DEF NotYet, ServicesOf
  <2>1. s \in db.services /\ s.scan < v
    BY <1>1, <1>7 DEF Committed
  <2> QED
    BY <1>1, <2>1
<1>19. TransactionSound(p)'
  BY <1>1, <1>7, <1>10, <1>13, <1>14, <1>15, <1>16, <1>17, <1>18 DEF TransactionSound
<1>20. \A q \in Scanners : writer' = q => TransactionSound(q)'
  BY <1>1, <1>19
<1> QED
  BY <1>1, <1>11, <1>12, <1>20 DEF IInv

(* The process whose transaction is open.                                  *)
LEMMA WriterKnown ==
  ASSUME IInv, NEW p \in Scanners, pc[p] \in {"begun", "persisted"}
  PROVE  /\ writer = p /\ TransactionSound(p)
         /\ scan[p] \in Call /\ scan[p].repo \in Repos
         /\ scan[p].mode \in {"full", "incremental"}
         /\ scan[p].found \in Findings /\ scan[p].version = db.nextScan
         /\ db.nextScan \in Nat /\ db.nextScan > Abandoned
         /\ \A q \in Scanners : writer = q => q = p
         /\ \A q \in Scanners \ {p} : pc[q] \notin {"begun", "persisted"}
<1>1. writer = p
  BY DEF IInv, OneWriter
<1>2. db.nextScan \in Nat
  BY TablesFields DEF IInv, TypeOK
<1> QED
  BY <1>1, <1>2 DEF IInv, OneWriter, TypeOK, Call, Committed

LEMMA PersistStep ==
  ASSUME IInv, NEW p \in Scanners, PersistFindings(p)
  PROVE  IInv'
<1> DEFINE r == scan[p].repo
           v == scan[p].version
           services == scan[p].found.services
           conns == scan[p].found.connections
           d == UpsertServices(tx, r, v, services)
           e == UpsertConnections(d, r, v, conns)
<1>1. /\ pc[p] = "begun" /\ writer = p /\ TransactionSound(p)
      /\ r \in Repos /\ scan[p].found \in Findings /\ v = db.nextScan
      /\ v \in Nat /\ v # NoScan
      /\ \A q \in Scanners : writer = q => q = p
  BY WriterKnown DEF PersistFindings, Abandoned, NoScan
<1>2. /\ services \in SUBSET [name : Names, file : Files] /\ OneName(services)
      /\ conns \in SUBSET [source : Names, target : Names,
                           route : Routes \cup {NullRoute}, schema : BOOLEAN]
  BY <1>1, ConstantsAssumption DEF Found, OneName
<1>3. /\ ~HaveSchemas(d, Replaced(d, EdgesOf(d, r, conns)))
      /\ tx' = SetRepoState(RefreshSatellites(e, r, services), r, v)
  BY DEF PersistFindings
<1>4. d = UpsertServices(tx, r, v, services) /\ e = UpsertConnections(d, r, v, conns)
  OBVIOUS
<1> HIDE DEF r, v, services, conns, d, e
<1>5. /\ SoundTables(tx) /\ RowsBefore(tx, v) /\ NotYet(p) /\ Others(p)
      /\ OverridesOf(p) /\ MovedOn(p) /\ DeletedGone(tx)
      /\ tx.nextScan = db.nextScan + 1 /\ tx.completed = db.completed
  BY <1>1 DEF TransactionSound
<1>6. /\ SoundTables(d) /\ RowsBefore(d, v + 1)
      /\ d.nextScan = tx.nextScan /\ d.connections = tx.connections
      /\ d.completed = tx.completed /\ d.overrides = tx.overrides
      /\ \A s : s.repo # r => (s \in d.services <=> s \in tx.services)
      /\ \A s \in tx.services : s.repo = r /\ s \notin d.services =>
           \E t \in d.services : t.id = s.id /\ t.repo = r /\ t.scan = v
      /\ \A s \in d.services : s \notin tx.services =>
           \E f \in services : s = Upserted(tx, r, v, f)
      /\ \A f \in services : Upserted(tx, r, v, f) \in d.services
  BY <1>1, <1>2, <1>4, <1>5, Upserting
<1>7. /\ SoundTables(e) /\ RowsBefore(e, v + 1)
      /\ e.nextScan = d.nextScan /\ e.services = d.services
      /\ e.completed = d.completed /\ e.overrides = d.overrides
      /\ \A id \in Ids(e.connections) : id \in Ids(d.connections) \/ id.scan = v
  BY <1>1, <1>2, <1>3, <1>4, <1>6, Connecting
<1>8. /\ SoundTables(tx') /\ tx'.nextScan = e.nextScan
      /\ tx'.services = e.services /\ tx'.connections = e.connections
      /\ tx'.completed = e.completed /\ tx'.overrides = e.overrides
  BY <1>1, <1>3, <1>7, Refreshing
<1>9. /\ UNCHANGED <<db, writer, scan, handled, doomed, outcome, gone, crashes>>
      /\ pc' = [pc EXCEPT ![p] = "persisted"] /\ pc'[p] = "persisted"
      /\ \A q \in Scanners \ {p} : pc'[q] = pc[q]
  BY DEF PersistFindings, Goto, IInv, TypeOK
<1>10. TypeOK'
  BY <1>8, <1>9 DEF IInv, TypeOK, SoundTables
<1>11. OneWriter'
  BY <1>1, <1>9, ConstantsAssumption DEF IInv, OneWriter
<1>12. RowsBefore(tx', tx'.nextScan)
  BY <1>1, <1>5, <1>6, <1>7, <1>8 DEF RowsBefore
<1>13. DeletedGone(tx')
  <2> SUFFICES ASSUME NEW i \in 1 .. Len(tx.overrides),
                      tx.overrides[i].action = "delete",
                      tx.overrides[i].applied # NoScan
               PROVE  tx.overrides[i].target \notin Ids(tx'.connections)
    BY <1>6, <1>7, <1>8 DEF DeletedGone
  <2>1. tx.overrides[i].target \notin Ids(tx.connections)
    BY <1>5 DEF DeletedGone
  <2>2. tx.overrides[i].target.scan # v
    <3>1. /\ i \in 1 .. Len(db.overrides) /\ db.overrides \in Seq(Override)
          /\ db.overrides[i] \in Override
      BY <1>5, TablesFields DEF OverridesOf, IInv, TypeOK
    <3>2. /\ db.overrides[i].action = tx.overrides[i].action
          /\ db.overrides[i].target = tx.overrides[i].target
      BY <1>5, <3>1 DEF OverridesOf, StampedBy, Override
    <3>3. db.overrides[i].target.scan < v
      BY <1>1, <3>1, <3>2 DEF IInv, Committed
    <3>4. db.overrides[i].target.scan \in Nat
      BY <3>1 DEF Override, ServiceId, ScanId
    <3> QED
      BY <1>1, <3>2, <3>3, <3>4
  <2> QED
    BY <1>6, <1>7, <1>8, <2>1, <2>2
<1>14. Others(p)'
  <2> SUFFICES ASSUME NEW q \in Repos \ {r}
               PROVE  /\ Ids(ServicesOf(tx', q)) = Ids(ServicesOf(db, q))
                      /\ \A s \in ServicesOf(tx', q) : \E t \in db.services :
                           t.id = s.id /\ t.repo = s.repo /\ t.scan = s.scan
                      /\ \A s \in ServicesOf(db, q) :
                           s \in tx'.services \/ RenamedIn(v, s.id)'
    BY <1>9 DEF Others, r, v
  <2>1. ServicesOf(tx', q) = ServicesOf(tx, q)
    BY <1>6, <1>7, <1>8 DEF ServicesOf
  <2>2. \A id : RenamedIn(v, id) => RenamedIn(v, id)'
    BY <1>6, <1>7, <1>8, <1>9 DEF RenamedIn, StampedBy, v
  <2>3. \A s \in ServicesOf(db, q) : s \in ServicesOf(tx', q) \/ RenamedIn(v, s.id)
    BY <1>5, <2>1 DEF Others, ServicesOf, r, v
  <2> QED
    BY <1>5, <2>1, <2>2, <2>3 DEF Others, ServicesOf, r
<1>15. OverridesOf(p)'
  BY <1>5, <1>6, <1>7, <1>8, <1>9 DEF OverridesOf, StampedBy
<1>16. MovedOn(p)'
  <2> SUFFICES ASSUME scan[p].mode = "incremental", db.completed[r] # NoScan,
                      NEW s \in ServicesOf(db, r)
               PROVE  \E t \in d.services :
                        t.id = s.id /\ t.repo = s.repo /\ t.scan = v
    BY <1>7, <1>8, <1>9 DEF MovedOn, r, v
  <2>1. PICK t \in tx.services : t.id = s.id /\ t.repo = s.repo /\ t.scan = v
    BY <1>5 DEF MovedOn, r, v
  <2>2. s.repo = r
    BY DEF ServicesOf
  <2> QED
    BY <1>6, <2>1, <2>2
<1>17. Written(p)'
  <2> DEFINE row == [f \in services |-> Upserted(tx, r, v, f).id]
             U(f) == Upserted(tx, r, v, f)
  <2>1. tx \in Tables
    BY <1>5 DEF SoundTables
  <2>2. ASSUME NEW f \in services
        PROVE  /\ U(f) \in tx'.services /\ row[f] = U(f).id /\ U(f).repo = r
               /\ U(f).name = f.name /\ U(f).file = f.file /\ U(f).scan = v
    BY <1>1, <1>2, <1>6, <1>7, <1>8, <2>1, UpsertedRow
  <2>3. row \in [services -> Ids(tx'.services)]
    BY <2>2 DEF Ids
  <2> HIDE DEF row, U
  <2>4. ASSUME NEW f \in services, NEW g \in services, row[f] = row[g] PROVE f = g
    <3>1. f.name = g.name
      BY <1>8, <2>2, <2>4 DEF SoundTables, OneRow
    <3> QED
      BY <1>2, <3>1 DEF OneName
  <2>5. ASSUME scan[p].mode = "full", NEW s \in ServicesOf(tx', r), s.scan = v
        PROVE  \E f \in services : s.id = row[f]
    <3>1. s \notin tx.services
      BY <1>5, <2>5 DEF NotYet, ServicesOf, r, v
    <3>2. PICK f \in services : s = U(f)
      BY <1>6, <1>7, <1>8, <3>1 DEF ServicesOf, U
    <3> QED
      BY <2>2, <3>2
  <2> QED
    BY <1>9, <2>2, <2>3, <2>4, <2>5 DEF Written, r, v, services
<1>18. TransactionSound(p)'
  BY <1>5, <1>6, <1>7, <1>8, <1>9, <1>12, <1>13, <1>14, <1>15, <1>16, <1>17
     DEF TransactionSound
<1> QED
  BY <1>1, <1>9, <1>10, <1>11, <1>18 DEF IInv

LEMMA OverrideStep ==
  ASSUME IInv, NEW p \in Scanners, ApplyOverride(p)
  PROVE  IInv'
<1> DEFINE r == scan[p].repo
           v == scan[p].version
           services == scan[p].found.services
<1>1. /\ pc[p] = "persisted" /\ writer = p /\ TransactionSound(p)
      /\ r \in Repos /\ v = db.nextScan /\ v \in Nat /\ v # NoScan
      /\ \A q \in Scanners : writer = q => q = p
  BY WriterKnown DEF ApplyOverride, Abandoned, NoScan
<1>2. UNCHANGED <<db, writer, pc, scan, doomed, outcome, gone, crashes>>
  BY DEF ApplyOverride
<1>3. PICK i \in PendingOverrides(tx) :
        /\ handled' = handled \cup {i}
        /\ tx' = IF OverrideThrows(tx, tx.overrides[i]) THEN tx
                 ELSE Stamp(Applied(tx, tx.overrides[i]), i, v)
  BY DEF ApplyOverride
<1>4. /\ SoundTables(tx) /\ RowsBefore(tx, tx.nextScan) /\ DeletedGone(tx)
      /\ tx.nextScan = db.nextScan + 1 /\ tx.completed = db.completed
      /\ Others(p) /\ OverridesOf(p) /\ MovedOn(p) /\ Written(p)
  BY <1>1 DEF TransactionSound
<1>5. i \in 1 .. Len(tx.overrides) /\ i \in Nat /\ tx.overrides[i].applied = NoScan
  BY DEF PendingOverrides
<1> HIDE DEF r, v, services
<1>6. /\ i \in 1 .. Len(db.overrides) /\ tx.overrides[i] = db.overrides[i]
      /\ db.overrides[i].applied = NoScan
  <2>1. i \in 1 .. Len(db.overrides) /\ db.overrides[i] \in Override
    BY <1>4, <1>5, TablesFields DEF OverridesOf, IInv, TypeOK
  <2>2. [db.overrides[i] EXCEPT !.applied = v].applied = v
    BY <2>1 DEF Override
  <2> QED
    BY <1>1, <1>4, <1>5, <2>1, <2>2 DEF OverridesOf, StampedBy, v
<1>7. OneWriter'
  BY <1>1, <1>2, ConstantsAssumption DEF IInv, OneWriter
<1>8. CASE tx' = tx
  <2>1. TypeOK'
    BY <1>2, <1>3, <1>5, <1>8 DEF IInv, TypeOK
  <2>2. TransactionSound(p)'
    BY <1>1, <1>2, <1>8 DEF TransactionSound, SoundTables, References, OneRow,
         RowsBefore, DeletedGone, Others, OverridesOf, MovedOn, NotYet, Written,
         RenamedIn, StampedBy
  <2> QED
    BY <1>1, <1>2, <1>7, <2>1, <2>2 DEF IInv
<1>9. CASE ~OverrideThrows(tx, tx.overrides[i])
  <2>1. /\ SoundTables(tx') /\ DeletedGone(tx') /\ tx'.nextScan = tx.nextScan
        /\ tx'.completed = tx.completed /\ tx'.connections \subseteq tx.connections
        /\ Ids(tx'.services) = Ids(tx.services)
        /\ \A s \in tx'.services : \E t \in tx.services :
             /\ t.id = s.id /\ t.repo = s.repo /\ t.file = s.file /\ t.scan = s.scan
             /\ s = t \/ s.id = tx.overrides[i].target
        /\ \A t \in tx.services : \E s \in tx'.services :
             /\ t.id = s.id /\ t.repo = s.repo /\ t.file = s.file /\ t.scan = s.scan
             /\ s = t \/ s.id = tx.overrides[i].target
        /\ Len(tx'.overrides) = Len(tx.overrides)
        /\ tx'.overrides[i] = [tx.overrides[i] EXCEPT !.applied = v]
        /\ \A j \in 1 .. Len(tx.overrides) : j # i => tx'.overrides[j] = tx.overrides[j]
    BY <1>1, <1>3, <1>4, <1>5, <1>9, Applying, SMTT(30)
  <2>2. TypeOK'
    BY <1>2, <1>3, <1>5, <2>1 DEF IInv, TypeOK, SoundTables
  <2>3. StampedBy(v, i)'
    BY <1>2, <1>6, <2>1 DEF StampedBy, v
  <2>4. ASSUME NEW j \in 1 .. Len(db.overrides), StampedBy(v, j)
        PROVE  StampedBy(v, j)'
    <3>1. CASE j = i
      BY <2>3, <3>1
    <3>2. CASE j # i
      BY <1>2, <1>4, <2>1, <2>4, <3>2 DEF StampedBy, OverridesOf, v
    <3> QED
      BY <3>1, <3>2
  <2>5. /\ \A id : RenamedIn(v, id) => RenamedIn(v, id)'
        /\ \A id : id = tx.overrides[i].target => RenamedIn(v, id)'
    BY <1>2, <1>6, <2>3, <2>4 DEF RenamedIn
  <2>6. RowsBefore(tx', tx'.nextScan)
    <3>1. ASSUME NEW s \in tx'.services PROVE s.id.scan < tx.nextScan
      BY <1>4, <2>1 DEF RowsBefore
    <3> QED
      BY <1>4, <2>1, <3>1 DEF RowsBefore
  <2>7. Others(p)'
    <3> SUFFICES ASSUME NEW q \in Repos \ {r}
                 PROVE  /\ Ids(ServicesOf(tx', q)) = Ids(ServicesOf(db, q))
                        /\ \A s \in ServicesOf(tx', q) : \E t \in db.services :
                             t.id = s.id /\ t.repo = s.repo /\ t.scan = s.scan
                        /\ \A s \in ServicesOf(db, q) :
                             s \in tx'.services \/ RenamedIn(v, s.id)'
      BY <1>2 DEF Others, r, v
    <3>1. /\ Ids(ServicesOf(tx, q)) = Ids(ServicesOf(db, q))
          /\ \A s \in ServicesOf(tx, q) : \E t \in db.services :
               t.id = s.id /\ t.repo = s.repo /\ t.scan = s.scan
          /\ \A s \in ServicesOf(db, q) : s \in tx.services \/ RenamedIn(v, s.id)
      BY <1>4 DEF Others, r, v
    <3>2. Ids(ServicesOf(tx', q)) = Ids(ServicesOf(tx, q))
      <4>1. Ids(ServicesOf(tx', q)) \subseteq Ids(ServicesOf(tx, q))
        BY <2>1 DEF Ids, ServicesOf
      <4>2. Ids(ServicesOf(tx, q)) \subseteq Ids(ServicesOf(tx', q))
        BY <2>1 DEF Ids, ServicesOf
      <4> QED
        BY <4>1, <4>2
    <3>3. ASSUME NEW s \in ServicesOf(tx', q)
          PROVE  \E t \in db.services :
                   t.id = s.id /\ t.repo = s.repo /\ t.scan = s.scan
      <4>1. PICK t \in ServicesOf(tx, q) :
              t.id = s.id /\ t.repo = s.repo /\ t.scan = s.scan
        BY <2>1 DEF ServicesOf
      <4> QED
        BY <3>1, <4>1
    <3>4. ASSUME NEW s \in ServicesOf(db, q)
          PROVE  s \in tx'.services \/ RenamedIn(v, s.id)'
      <4>1. CASE RenamedIn(v, s.id)
        BY <2>5, <4>1
      <4>2. CASE s \in tx.services
        BY <2>1, <2>5, <4>2
      <4> QED
        BY <3>1, <4>1, <4>2
    <3> QED
      BY <3>1, <3>2, <3>3, <3>4
  <2>8. OverridesOf(p)'
    <3> SUFFICES /\ Len(tx'.overrides) = Len(db.overrides)
                 /\ \A j \in 1 .. Len(db.overrides) :
                      tx'.overrides[j] = db.overrides[j] \/ StampedBy(v, j)'
      BY <1>2 DEF OverridesOf, v
    <3>1. ASSUME NEW j \in 1 .. Len(db.overrides)
          PROVE  tx'.overrides[j] = db.overrides[j] \/ StampedBy(v, j)'
      <4>1. tx.overrides[j] = db.overrides[j] \/ StampedBy(v, j)
        BY <1>4 DEF OverridesOf, v
      <4>2. CASE j = i
        BY <2>3, <4>2
      <4>3. CASE j # i
        BY <1>4, <2>1, <2>4, <4>1, <4>3 DEF OverridesOf
      <4> QED
        BY <4>2, <4>3
    <3> QED
      BY <1>4, <2>1, <3>1 DEF OverridesOf
  <2>9. MovedOn(p)'
    <3> SUFFICES ASSUME scan[p].mode = "incremental", db.completed[r] # NoScan,
                        NEW s \in ServicesOf(db, r)
                 PROVE  \E t \in tx'.services :
                          t.id = s.id /\ t.repo = s.repo /\ t.scan = v
      BY <1>2 DEF MovedOn, r, v
    <3>1. PICK t \in tx.services : t.id = s.id /\ t.repo = s.repo /\ t.scan = v
      BY <1>4 DEF MovedOn, r, v
    <3>2. PICK u \in tx'.services : t.id = u.id /\ t.repo = u.repo /\ t.scan = u.scan
      BY <2>1
    <3> QED
      BY <3>1, <3>2
  <2>10. Written(p)'
    <3>1. PICK row \in [services -> Ids(tx.services)] :
            /\ \A e, f \in services : row[e] = row[f] => e = f
            /\ \A f \in services : \E s \in tx.services :
                 /\ s.id = row[f] /\ s.repo = r /\ s.scan = v /\ s.file = f.file
                 /\ s.name = f.name \/ RenamedIn(v, s.id)
            /\ scan[p].mode = "full" =>
                 \A s \in ServicesOf(tx, r) :
                   s.scan = v => \E f \in services : s.id = row[f]
      BY <1>4 DEF Written, r, v, services
    <3>2. ASSUME NEW f \in services
          PROVE  \E s \in tx'.services :
                   /\ s.id = row[f] /\ s.repo = r /\ s.scan = v /\ s.file = f.file
                   /\ s.name = f.name \/ RenamedIn(v, s.id)'
      <4>1. PICK t \in tx.services :
              /\ t.id = row[f] /\ t.repo = r /\ t.scan = v /\ t.file = f.file
              /\ t.name = f.name \/ RenamedIn(v, t.id)
        BY <3>1
      <4>2. PICK s \in tx'.services :
              /\ t.id = s.id /\ t.repo = s.repo /\ t.file = s.file /\ t.scan = s.scan
              /\ s = t \/ s.id = tx.overrides[i].target
        BY <2>1
      <4> QED
        BY <2>5, <4>1, <4>2
    <3>3. ASSUME scan[p].mode = "full", NEW s \in ServicesOf(tx', r), s.scan = v
          PROVE  \E f \in services : s.id = row[f]
      <4>1. PICK t \in ServicesOf(tx, r) : t.id = s.id /\ t.scan = s.scan
        BY <2>1 DEF ServicesOf
      <4> QED
        BY <3>1, <3>3, <4>1
    <3>4. row \in [services -> Ids(tx'.services)]
      BY <2>1
    <3> QED
      BY <1>2, <3>1, <3>2, <3>3, <3>4 DEF Written, r, v, services
  <2>11. TransactionSound(p)'
    BY <1>1, <1>2, <1>4, <2>1, <2>6, <2>7, <2>8, <2>9, <2>10 DEF TransactionSound
  <2> QED
    BY <1>1, <1>2, <1>7, <2>2, <2>11 DEF IInv
<1> QED
  BY <1>3, <1>8, <1>9

(* The tables that endScan commits.                                        *)
LEMMA Committing ==
  ASSUME IInv, NEW p \in Scanners, EndScan(p)
  PROVE  /\ db' \in Tables /\ tx' = db' /\ Committed(db')
         /\ db'.overrides = tx.overrides
         /\ db'.services = tx.services \ Stale(tx, scan[p].repo, scan[p].version)
         /\ db'.completed = [db.completed EXCEPT ![scan[p].repo] = scan[p].version]
<1> DEFINE r == scan[p].repo
           v == scan[p].version
           c == DropStaleRows(DropStaleSchemas(tx, r, v), r, v)
<1>1. /\ pc[p] = "persisted" /\ writer = p /\ TransactionSound(p)
      /\ r \in Repos /\ v = db.nextScan /\ v \in Nat /\ v # NoScan /\ v > Abandoned
      /\ \A q \in Scanners : writer = q => q = p
  BY WriterKnown DEF EndScan, Abandoned, NoScan
<1>2. /\ SoundTables(tx) /\ RowsBefore(tx, tx.nextScan) /\ DeletedGone(tx)
      /\ tx.nextScan = db.nextScan + 1 /\ tx.completed = db.completed
      /\ Others(p) /\ OverridesOf(p)
  BY <1>1 DEF TransactionSound
<1>3. /\ ~HaveSchemas(DropStaleSchemas(tx, r, v), Touching(tx, Ids(Stale(tx, r, v))))
      /\ db' = [c EXCEPT !.completed[r] = v] /\ tx' = db'
  BY DEF EndScan, StaleHaveSchemas, Closed
<1>4. c = DropStaleRows(DropStaleSchemas(tx, r, v), r, v)
  OBVIOUS
<1> HIDE DEF r, v, c
<1>5. /\ SoundTables(c) /\ c.nextScan = tx.nextScan
      /\ c.completed = tx.completed /\ c.overrides = tx.overrides
      /\ c.services = tx.services \ Stale(tx, r, v)
      /\ c.connections \subseteq tx.connections
  BY <1>1, <1>2, <1>3, <1>4, Closing
<1>6. /\ db.completed \in [Repos -> ScanId] /\ db.overrides \in Seq(Override)
      /\ tx.services \subseteq Service /\ db.services \subseteq Service
      /\ db.nextScan \in Nat
  BY TablesFields DEF IInv, TypeOK
<1> DEFINE completed == [db.completed EXCEPT ![r] = v]
<1>7. completed \in [Repos -> ScanId]
  BY <1>1, <1>6 DEF ScanId
<1>8. db' = [c EXCEPT !.completed = completed]
  BY <1>2, <1>3, <1>5 DEF SoundTables, Tables
<1> HIDE DEF completed
<1>9. /\ db' \in Tables /\ db'.services = c.services
      /\ db'.connections = c.connections /\ db'.schemas = c.schemas
      /\ db'.satellites = c.satellites /\ db'.nextScan = c.nextScan
      /\ db'.completed = completed /\ db'.overrides = c.overrides
  BY <1>5, <1>7, <1>8 DEF SoundTables, Tables
<1>10. SoundTables(db')
  BY <1>5, <1>9 DEF SoundTables, References, OneRow
<1>11. RowsBefore(db', db'.nextScan) /\ DeletedGone(db')
  <2>1. RowsBefore(db', db'.nextScan)
    BY <1>2, <1>5, <1>9 DEF RowsBefore
  <2>2. DeletedGone(db')
    BY <1>2, <1>5, <1>9 DEF DeletedGone, Ids
  <2> QED
    BY <2>1, <2>2
<1>12. ASSUME NEW q \in Repos PROVE db'.completed[q] < db'.nextScan
  <2>1. db.completed[q] < db.nextScan /\ db.completed[q] \in Nat
    BY <1>6 DEF IInv, Committed, ScanId
  <2> QED
    BY <1>1, <1>2, <1>5, <1>6, <1>9, <2>1 DEF completed
<1>13. ASSUME NEW s \in db'.services
       PROVE  /\ s.scan < db'.nextScan
              /\ db'.completed[s.repo] # NoScan => s.scan = db'.completed[s.repo]
  <2>1. s \in tx.services /\ s \in Service /\ s.repo \in Repos
    BY <1>5, <1>6, <1>9 DEF Service
  <2>2. CASE s.repo = r
    <3>1. s.scan = v
      BY <1>5, <1>9, <2>1, <2>2 DEF Stale, ServicesOf
    <3> QED
      BY <1>1, <1>2, <1>5, <1>6, <1>9, <2>2, <3>1 DEF completed
  <2>3. CASE s.repo # r
    <3>1. PICK t \in db.services : t.id = s.id /\ t.repo = s.repo /\ t.scan = s.scan
      BY <1>2, <2>1, <2>3 DEF Others, ServicesOf, r
    <3>2. /\ t.scan < db.nextScan
          /\ db.completed[t.repo] # NoScan => t.scan = db.completed[t.repo]
      BY DEF IInv, Committed
    <3>3. db'.completed[s.repo] = db.completed[s.repo]
      BY <1>6, <1>9, <2>1, <2>3 DEF completed
    <3>4. t.scan \in Nat
      BY <1>6 DEF Service, ScanId
    <3> QED
      BY <1>1, <1>2, <1>5, <1>9, <3>1, <3>2, <3>3, <3>4
  <2> QED
    BY <2>2, <2>3
<1>14. ASSUME NEW i \in 1 .. Len(db'.overrides), db'.overrides[i].action = "delete"
       PROVE  db'.overrides[i].target.scan < db'.nextScan
  <2>1. /\ i \in 1 .. Len(db.overrides) /\ db.overrides[i] \in Override
        /\ db'.overrides[i] = tx.overrides[i]
    BY <1>2, <1>5, <1>6, <1>9 DEF OverridesOf
  <2>2. /\ db.overrides[i].action = db'.overrides[i].action
        /\ db.overrides[i].target = db'.overrides[i].target
    BY <1>2, <2>1 DEF OverridesOf, StampedBy, Override
  <2>3. db.overrides[i].target.scan < db.nextScan
    BY <1>14, <2>1, <2>2 DEF IInv, Committed
  <2>4. db.overrides[i].target.scan \in Nat
    BY <2>1 DEF Override, ServiceId, ScanId
  <2> QED
    BY <1>2, <1>5, <1>6, <1>9, <2>2, <2>3, <2>4
<1>15. db'.nextScan > Abandoned
  BY <1>1, <1>2, <1>5, <1>9 DEF Abandoned
<1>16. Committed(db')
  BY <1>10, <1>11, <1>12, <1>13, <1>14, <1>15 DEF Committed
<1> QED
  BY <1>3, <1>5, <1>9, <1>16 DEF r, v, completed

LEMMA EndStep ==
  ASSUME IInv, NEW p \in Scanners, EndScan(p)
  PROVE  IInv'
<1>1. db' \in Tables /\ tx' = db' /\ Committed(db')
  BY Committing
<1>2. /\ UNCHANGED <<scan, doomed, outcome, crashes>>
      /\ writer' = NoWriter /\ handled' = {}
      /\ pc' = [pc EXCEPT ![p] = "cleaning"]
      /\ gone' = [gone EXCEPT ![scan[p].repo] =
           (@ \ {f.file : f \in scan[p].found.services}) \cup scan[p].gone]
  BY DEF EndScan, Goto
<1>3. \A q \in Scanners \ {p} : pc[q] \notin {"begun", "persisted"}
  BY WriterKnown DEF EndScan
<1>4. gone' \in [Repos -> SUBSET Files]
  <2>1. scan[p].repo \in Repos /\ scan[p].gone \subseteq Files
    BY DEF IInv, TypeOK, Call
  <2> QED
    BY <1>2, <2>1 DEF IInv, TypeOK
<1>5. TypeOK'
  BY <1>1, <1>2, <1>4 DEF IInv, TypeOK
<1>6. OneWriter'
  BY <1>1, <1>2, <1>3, ConstantsAssumption DEF IInv, TypeOK, OneWriter
<1> QED
  BY <1>1, <1>2, <1>5, <1>6, ConstantsAssumption DEF IInv

(* A step by which the open transaction, if any, is rolled back.           *)
LEMMA RollbackStep ==
  ASSUME IInv, NEW p \in Scanners, pc[p] \in {"begun", "persisted"},
         Rollback, Failed(p), UNCHANGED <<scan, doomed, crashes>>
  PROVE  IInv'
<1>1. \A q \in Scanners \ {p} : pc[q] \notin {"begun", "persisted"}
  BY WriterKnown
<1>2. TypeOK'
  BY DEF IInv, TypeOK, Rollback, Failed, Goto
<1>3. OneWriter'
  BY <1>1, ConstantsAssumption DEF IInv, TypeOK, OneWriter, Rollback, Failed, Goto
<1> QED
  BY <1>2, <1>3, ConstantsAssumption DEF IInv, Rollback

(* A step that leaves the transaction that is open alone.                  *)
LEMMA AsideStep ==
  ASSUME IInv, TypeOK', Committed(db'), NEW p \in Scanners,
         UNCHANGED writer, UNCHANGED handled,
         pc[p] \notin {"begun", "persisted"}, pc'[p] \notin {"begun", "persisted"},
         \A q \in Scanners \ {p} : pc'[q] = pc[q] /\ scan'[q] = scan[q],
         \/ UNCHANGED <<db, tx>>
         \/ writer = NoWriter /\ tx' = db'
  PROVE  IInv'
<1>1. writer # p
  BY DEF IInv, OneWriter
<1>2. CASE writer \in Scanners
  <2>1. UNCHANGED <<db, tx>>
    BY <1>2, ConstantsAssumption
  <2>2. TransactionSound(writer)
    BY <1>2 DEF IInv
  <2>3. scan'[writer] = scan[writer] /\ pc'[writer] = pc[writer]
    BY <1>1, <1>2
  <2>4. OneWriter'
    BY <1>1, <1>2, <2>1, <2>3, ConstantsAssumption DEF IInv, OneWriter
  <2>5. TransactionSound(writer)'
    BY <2>1, <2>2, <2>3 DEF TransactionSound, SoundTables, References, OneRow,
         RowsBefore, DeletedGone, Others, OverridesOf, MovedOn, NotYet, Written,
         RenamedIn, StampedBy
  <2> QED
    BY <2>4, <2>5 DEF IInv
<1>3. CASE writer \notin Scanners
  BY <1>1, <1>3 DEF IInv, OneWriter
<1> QED
  BY <1>2, <1>3

LEMMA CleanUpStep ==
  ASSUME IInv, NEW p \in Scanners, CleanUp(p)
  PROVE  IInv'
<1>0. /\ db \in Tables /\ Committed(db) /\ SoundTables(db)
      /\ db.services \subseteq Service /\ scan[p] \in Call
  BY TablesFields DEF IInv, TypeOK, Committed
<1>1. CASE SelectGone(p)
  <2>1. PICK f \in scan[p].gone :
          /\ scan' = [scan EXCEPT ![p].gone = @ \ {f}, ![p].path = f]
          /\ doomed' = [doomed EXCEPT ![p] = Ids(DoomedBy(p, f))]
    BY <1>1 DEF SelectGone
  <2>2. scan' \in [Scanners -> Call] /\ \A q \in Scanners \ {p} : scan'[q] = scan[q]
    <3>1. f \in Files /\ scan[p].gone \ {f} \subseteq Files
      BY <1>0 DEF Call
    <3>2. [scan[p] EXCEPT !.gone = @ \ {f}, !.path = f] \in Call
      BY <1>0, <3>1 DEF Call
    <3>3. scan' = [scan EXCEPT ![p] = [scan[p] EXCEPT !.gone = @ \ {f}, !.path = f]]
      BY <2>1 DEF IInv, TypeOK
    <3> QED
      BY <3>2, <3>3 DEF IInv, TypeOK
  <2>3. Ids(DoomedBy(p, f)) \subseteq ServiceId
    BY <1>0 DEF DoomedBy, ServicesOf, Ids, Service
  <2>4. TypeOK'
    BY <1>1, <2>1, <2>2, <2>3 DEF IInv, TypeOK, SelectGone, Goto
  <2> QED
    BY <1>0, <1>1, <2>2, <2>4, AsideStep DEF IInv, TypeOK, SelectGone, Goto
<1>2. CASE DropConnectionsOf(p)
  <2>1. PICK id \in doomed[p] :
          /\ ~HaveSchemas(db, Touching(db, {id}))
          /\ db' = DropConnections(db, Touching(db, {id})) /\ tx' = db'
          /\ doomed' = [doomed EXCEPT ![p] = @ \ {id}]
    BY <1>2 DEF DropConnectionsOf, Commit
  <2> DEFINE conns == Touching(db, {id})
  <2>2. /\ conns \in SUBSET db.connections /\ ~HaveSchemas(db, conns)
        /\ db' = DropConnections(db, conns)
    BY <2>1 DEF Touching
  <2> HIDE DEF conns
  <2>3. /\ SoundTables(db') /\ db'.nextScan = db.nextScan
        /\ db'.completed = db.completed /\ db'.overrides = db.overrides
        /\ db'.services \subseteq db.services
        /\ db'.connections \subseteq db.connections
    BY <1>0, <2>2, Deleting
  <2>4. Committed(db')
    BY <1>0, <2>3, Removing
  <2>5. TypeOK'
    BY <1>2, <2>1, <2>3 DEF IInv, TypeOK, DropConnectionsOf, SoundTables
  <2> QED
    BY <1>2, <2>1, <2>4, <2>5, AsideStep DEF DropConnectionsOf
<1>3. CASE DropServicesOf(p)
  <2>1. /\ db' = DropServices(db, DoomedBy(p, scan[p].path)) /\ tx' = db'
        /\ Touching(db, Ids(DoomedBy(p, scan[p].path))) = {}
    BY <1>3 DEF DropServicesOf, Commit
  <2>2. DoomedBy(p, scan[p].path) \in SUBSET db.services
    BY DEF DoomedBy, ServicesOf
  <2>3. /\ SoundTables(db') /\ db'.nextScan = db.nextScan
        /\ db'.completed = db.completed /\ db'.overrides = db.overrides
        /\ db'.services \subseteq db.services
        /\ db'.connections \subseteq db.connections
    BY <1>0, <2>1, <2>2, DroppingServices
  <2>4. Committed(db')
    BY <1>0, <2>3, Removing
  <2>5. TypeOK'
    BY <1>3, <2>1, <2>3 DEF IInv, TypeOK, DropServicesOf, SoundTables, Goto
  <2> QED
    BY <1>3, <2>1, <2>4, <2>5, AsideStep DEF IInv, TypeOK, DropServicesOf, Goto
<1>4. CASE CleanUpThrew(p)
  <2>1. TypeOK'
    BY <1>4 DEF IInv, TypeOK, CleanUpThrew, Failed, Goto
  <2> QED
    BY <1>0, <1>4, <2>1, AsideStep DEF IInv, TypeOK, CleanUpThrew, Failed, Goto
<1>5. CASE Return(p)
  <2>1. TypeOK'
    BY <1>5 DEF IInv, TypeOK, Return, Goto
  <2> QED
    BY <1>0, <1>5, <2>1, AsideStep DEF IInv, TypeOK, Return, Goto
<1> QED
  BY <1>1, <1>2, <1>3, <1>4, <1>5 DEF CleanUp

LEMMA CorrectStep ==
  ASSUME IInv, NEW o \in Staged, Correct(o)
  PROVE  IInv'
<1>1. /\ writer = NoWriter /\ tx' = db'
      /\ db' = [db EXCEPT !.overrides = Append(@, o)]
      /\ UNCHANGED <<writer, pc, scan, handled, doomed, outcome, gone, crashes>>
  BY DEF Correct, Commit
<1>2. /\ Committed(db) /\ SoundTables(db) /\ db.services \subseteq Service
      /\ db.connections \subseteq Connection /\ RowsBefore(db, db.nextScan)
  BY TablesFields DEF IInv, TypeOK, Committed
<1>3. /\ \A id \in Ids(db.services) : id \in ServiceId
      /\ \A id \in Ids(db.connections) :
           id \in [scan : ScanId, edge : Edge] /\ id.scan < db.nextScan
  BY <1>2 DEF Ids, Service, Connection, RowsBefore
<1>4. /\ o \in Override /\ o.applied = NoScan
      /\ o.action = "delete" => o.target.scan < db.nextScan
  <2>1. CASE o \in [action : {"delete"}, target : Ids(db.connections),
                    applied : {NoScan}]
    BY <1>3, <2>1 DEF Override, ScanId, NoScan
  <2>2. CASE o \in [action : {"update"}, target : Ids(db.connections), name : Names,
                    applied : {NoScan}]
    BY <1>3, <2>2 DEF Override, ScanId, NoScan
  <2>3. CASE o \in [action : {"rename"}, target : Ids(db.services), name : Names,
                    applied : {NoScan}]
    BY <1>3, <2>3 DEF Override, ScanId, NoScan
  <2>4. CASE o \in [action : {"set-base-path"}, target : Ids(db.services),
                    applied : {NoScan}]
    BY <1>3, <2>4 DEF Override, ScanId, NoScan
  <2> QED
    BY <2>1, <2>2, <2>3, <2>4 DEF Staged
<1>5. Committed(db')
  BY <1>1, <1>2, <1>4, Staging
<1>6. db' \in Tables
  BY <1>5 DEF Committed, SoundTables
<1>7. TypeOK'
  BY <1>1, <1>6 DEF IInv, TypeOK
<1>8. OneWriter' /\ \A p \in Scanners : writer' # p
  BY <1>1, ConstantsAssumption DEF IInv, OneWriter
<1> QED
  BY <1>5, <1>7, <1>8 DEF IInv

LEMMA CrashStep ==
  ASSUME IInv, NEW p \in Scanners, Crash(p)
  PROVE  IInv'
<1>1. /\ pc' = [pc EXCEPT ![p] = "idle"] /\ crashes' = crashes + 1
      /\ doomed' = [doomed EXCEPT ![p] = {}]
      /\ outcome' = [outcome EXCEPT ![p] = "none"]
      /\ UNCHANGED <<db, scan, gone>>
  BY DEF Crash, Goto
<1>2. CASE writer = p
  <2>1. writer' = NoWriter /\ tx' = db /\ handled' = {}
    BY <1>2 DEF Crash
  <2>2. TypeOK'
    BY <1>1, <2>1 DEF IInv, TypeOK
  <2>3. OneWriter'
    BY <1>1, <1>2, <2>1, ConstantsAssumption DEF IInv, TypeOK, OneWriter
  <2> QED
    BY <1>1, <2>1, <2>2, <2>3, ConstantsAssumption DEF IInv
<1>3. CASE writer # p
  <2>1. UNCHANGED <<writer, tx, handled>>
    BY <1>3 DEF Crash
  <2>2. TypeOK'
    BY <1>1, <2>1 DEF IInv, TypeOK
  <2>3. /\ pc[p] \notin {"begun", "persisted"} /\ pc'[p] = "idle"
        /\ \A q \in Scanners \ {p} : pc'[q] = pc[q]
    BY <1>1, <1>3 DEF IInv, TypeOK, OneWriter
  <2> QED
    BY <1>1, <2>1, <2>2, <2>3, AsideStep DEF IInv
<1> QED
  BY <1>2, <1>3

LEMMA InvNext ==
  ASSUME IInv, [Next]_vars
  PROVE  IInv'
<1>1. ASSUME NEW p \in Scanners,
             \E r \in Repos, mode \in Modes, f \in Findings, lost \in SUBSET Files :
               BeginScan(p, r, mode, f, lost)
      PROVE  IInv'
  BY <1>1, BeginStep
<1>2. ASSUME NEW p \in Scanners, Transaction(p)
      PROVE  IInv'
  <2>1. CASE PersistThrew(p)
    BY <2>1, RollbackStep DEF PersistThrew
  <2>2. CASE EndScanThrew(p)
    BY <2>2, RollbackStep DEF EndScanThrew
  <2> QED
    BY <1>2, <2>1, <2>2, PersistStep, OverrideStep, EndStep DEF Transaction
<1>3. CASE UNCHANGED vars
  BY <1>3, SMTT(30) DEF vars, IInv, TypeOK, Committed, OneWriter, TransactionSound,
     SoundTables, References, OneRow, RowsBefore, DeletedGone, Others,
     OverridesOf, MovedOn, NotYet, Written, RenamedIn, StampedBy
<1> QED
  BY <1>1, <1>2, <1>3, CleanUpStep, CrashStep, CorrectStep DEF Next

LEMMA Invariance == Spec => []IInv
<1> QED
  BY InitSound, InvNext, PTL DEF Spec

-----------------------------------------------------------------------------
(* What follows for the committed tables.                                  *)

(* Between any two statements of any process the committed tables satisfy  *)
(* their foreign keys and unique indexes, and every service is of the      *)
(* latest completed scan of its repository.                                *)
THEOREM MapSound == Spec => []TablesSound
<1>1. IInv => TablesSound
  BY DEF IInv, Committed, SoundTables, References, OneRow, TablesSound,
     ConstraintsHold, ServicesCurrent
<1> QED
  BY <1>1, Invariance, PTL

-----------------------------------------------------------------------------
(* What follows for each commit.                                           *)

LEMMA StampsShow ==
  ASSUME IInv, NEW p \in Scanners, EndScan(p), NEW s,
         RenamedIn(scan[p].version, s.id)
  PROVE  RenamedBy(scan[p].version, s)
<1>1. PICK i \in 1 .. Len(db.overrides) :
        StampedBy(scan[p].version, i) /\ db.overrides[i].target = s.id
  BY DEF RenamedIn
<1>2. db.overrides[i] \in Override
  BY TablesFields DEF IInv, TypeOK
<1>3. Stamped(i, scan[p].version)
  BY <1>1, <1>2, Committing DEF StampedBy, Stamped, Override
<1> QED
  BY <1>1, <1>3 DEF RenamedBy

(* A scan of one repository leaves the services of the others as they are, *)
(* but for the names that overrides it applied give them.                  *)
THEOREM OthersKept == Spec => OtherServicesKept
<1> DEFINE Kept ==
      \A p \in Scanners : EndScan(p) =>
        \A q \in Repos \ {scan[p].repo} :
          /\ Ids(ServicesOf(db', q)) = Ids(ServicesOf(db, q))
          /\ \A s \in ServicesOf(db, q) :
               s \in db'.services \/ RenamedBy(scan[p].version, s)
<1>1. ASSUME IInv PROVE Kept
  <2> SUFFICES ASSUME NEW p \in Scanners, EndScan(p),
                      NEW q \in Repos \ {scan[p].repo}
               PROVE  /\ Ids(ServicesOf(db', q)) = Ids(ServicesOf(db, q))
                      /\ \A s \in ServicesOf(db, q) :
                           s \in db'.services \/ RenamedBy(scan[p].version, s)
    OBVIOUS
  <2>1. Others(p)
    BY <1>1, WriterKnown DEF EndScan, TransactionSound
  <2>2. ServicesOf(db', q) = ServicesOf(tx, q)
    BY <1>1, Committing DEF ServicesOf, Stale
  <2>3. ASSUME NEW s \in ServicesOf(db, q)
        PROVE  s \in db'.services \/ RenamedBy(scan[p].version, s)
    <3>1. CASE RenamedIn(scan[p].version, s.id)
      BY <1>1, <3>1, StampsShow
    <3>2. CASE s \in tx.services
      BY <2>2, <3>2 DEF ServicesOf
    <3> QED
      BY <2>1, <3>1, <3>2 DEF Others
  <2> QED
    BY <2>1, <2>2, <2>3 DEF Others
<1> QED
  BY <1>1, Invariance, PTL DEF OtherServicesKept

(* A scan that looked at the changed files only removes no service that a  *)
(* completed scan left.                                                    *)
THEOREM IncrementalKept == Spec => IncrementalKeeps
<1> DEFINE Kept ==
      \A p \in Scanners : EndScan(p) /\ scan[p].mode = "incremental" =>
        \A s \in ServicesOf(db, scan[p].repo) :
          db.completed[s.repo] # NoScan => s.id \in Ids(db'.services)
<1>1. ASSUME IInv PROVE Kept
  <2> SUFFICES ASSUME NEW p \in Scanners, EndScan(p),
                      scan[p].mode = "incremental",
                      NEW s \in ServicesOf(db, scan[p].repo),
                      db.completed[s.repo] # NoScan
               PROVE  s.id \in Ids(db'.services)
    OBVIOUS
  <2>1. MovedOn(p)
    BY <1>1, WriterKnown DEF EndScan, TransactionSound
  <2>2. PICK t \in tx.services :
          t.id = s.id /\ t.repo = s.repo /\ t.scan = scan[p].version
    BY <2>1 DEF MovedOn, ServicesOf
  <2>3. t \in db'.services
    BY <1>1, <2>2, Committing DEF Stale
  <2> QED
    BY <2>2, <2>3 DEF Ids
<1> QED
  BY <1>1, Invariance, PTL DEF IncrementalKeeps

(* A full scan leaves exactly what it reported: one service for each it    *)
(* found, in the file it was found in, under the name it was found under   *)
(* or the one an override that this scan applied gave it.                  *)
THEOREM FullScansExact == Spec => FullScanExact
<1> DEFINE Exact ==
      \A p \in Scanners : EndScan(p) /\ scan[p].mode = "full" =>
        LET after == ServicesOf(db', scan[p].repo)
            found == scan[p].found.services
        IN  /\ Cardinality(after) = Cardinality(found)
            /\ \A f \in found : \E s \in after :
                 /\ s.file = f.file
                 /\ s.name = f.name \/ RenamedBy(scan[p].version, s)
<1>1. ASSUME IInv PROVE Exact
  <2> SUFFICES ASSUME NEW p \in Scanners, EndScan(p), scan[p].mode = "full"
               PROVE  LET after == ServicesOf(db', scan[p].repo)
                          found == scan[p].found.services
                      IN  /\ Cardinality(after) = Cardinality(found)
                          /\ \A f \in found : \E s \in after :
                               /\ s.file = f.file
                               /\ s.name = f.name \/ RenamedBy(scan[p].version, s)
    OBVIOUS
  <2> DEFINE r == scan[p].repo
             v == scan[p].version
             found == scan[p].found.services
             after == ServicesOf(db', r)
  <2>1. /\ Written(p) /\ SoundTables(tx) /\ IsFiniteSet(found)
    BY <1>1, WriterKnown, ConstantsAssumption DEF EndScan, TransactionSound
  <2>2. \A s : s \in after <=> s \in tx.services /\ s.repo = r /\ s.scan = v
    BY <1>1, Committing DEF ServicesOf, Stale
  <2>3. \A s : RenamedIn(v, s.id) => RenamedBy(v, s)
    BY <1>1, StampsShow
  <2> HIDE DEF r, v, found, after
  <2>4. PICK row \in [found -> Ids(tx.services)] :
          /\ \A e, f \in found : row[e] = row[f] => e = f
          /\ \A f \in found : \E s \in tx.services :
               /\ s.id = row[f] /\ s.repo = r /\ s.scan = v /\ s.file = f.file
               /\ s.name = f.name \/ RenamedIn(v, s.id)
          /\ \A s \in ServicesOf(tx, r) : s.scan = v => \E f \in found : s.id = row[f]
    BY <2>1 DEF Written, r, v, found
  <2> DEFINE service == [f \in found |-> CHOOSE s \in after : s.id = row[f]]
  <2>5. ASSUME NEW f \in found
        PROVE  /\ service[f] \in after /\ service[f].id = row[f]
               /\ service[f].file = f.file
               /\ service[f].name = f.name \/ RenamedBy(v, service[f])
    <3>1. PICK s \in tx.services :
            /\ s.id = row[f] /\ s.repo = r /\ s.scan = v /\ s.file = f.file
            /\ s.name = f.name \/ RenamedIn(v, s.id)
      BY <2>4
    <3>2. service[f] \in after /\ service[f].id = row[f]
      BY <2>2, <3>1
    <3>3. service[f] = s
      BY <2>1, <2>2, <3>1, <3>2 DEF SoundTables, OneRow
    <3> QED
      BY <2>3, <3>1, <3>2, <3>3
  <2>6. service \in [found -> after]
    BY <2>5
  <2> HIDE DEF service
  <2>7. \A e, f \in found : service[e] = service[f] => e = f
    BY <2>4, <2>5
  <2>8. ASSUME NEW s \in after PROVE \E f \in found : service[f] = s
    <3>1. PICK f \in found : s.id = row[f]
      BY <2>2, <2>4 DEF ServicesOf
    <3>2. service[f] = s
      BY <2>1, <2>2, <2>5, <3>1 DEF SoundTables, OneRow
    <3> QED
      BY <3>2
  <2>9. ExistsBijection(found, after)
    <3>1. service \in Injection(found, after)
      BY <2>6, <2>7 DEF Injection, IsInjective
    <3>2. service \in Surjection(found, after)
      BY <2>6, <2>8 DEF Surjection
    <3> QED
      BY <3>1, <3>2 DEF ExistsBijection, Bijection
  <2>10. Cardinality(after) = Cardinality(found)
    BY <2>1, <2>9, FS_Bijection
  <2>11. \A f \in found : \E s \in after :
           s.file = f.file /\ (s.name = f.name \/ RenamedBy(v, s))
    BY <2>5
  <2> QED
    BY <2>10, <2>11 DEF r, v, found, after
<1> QED
  BY <1>1, Invariance, PTL DEF FullScanExact

(* An override is stamped once, by the scan that completes in that step: a *)
(* scan that is rolled back or killed leaves it pending.                   *)
THEOREM StampedOnce == Spec => StampedOnceAtCommit
<1> DEFINE Once ==
      \A i \in 1 .. Len(db.overrides) :
        db'.overrides[i] # db.overrides[i] =>
          /\ db.overrides[i].applied = NoScan
          /\ \E r \in Repos :
               /\ db'.completed[r] # db.completed[r]
               /\ db'.overrides[i].applied = db'.completed[r]
<1>1. ASSUME IInv, NEW p \in Scanners, EndScan(p) PROVE Once
  <2> SUFFICES ASSUME NEW i \in 1 .. Len(db.overrides),
                      db'.overrides[i] # db.overrides[i]
               PROVE  /\ db.overrides[i].applied = NoScan
                      /\ \E r \in Repos :
                           /\ db'.completed[r] # db.completed[r]
                           /\ db'.overrides[i].applied = db'.completed[r]
    OBVIOUS
  <2> DEFINE v == scan[p].version
             r == scan[p].repo
  <2>1. OverridesOf(p) /\ r \in Repos /\ v = db.nextScan
    BY <1>1, WriterKnown DEF EndScan, TransactionSound
  <2>2. /\ db'.overrides = tx.overrides
        /\ db'.completed = [db.completed EXCEPT ![r] = v]
    BY <1>1, Committing
  <2>3. /\ db.overrides[i] \in Override /\ db.completed \in [Repos -> ScanId]
        /\ db.nextScan \in Nat
    BY <1>1, TablesFields DEF IInv, TypeOK
  <2>4. StampedBy(v, i)
    BY <2>1, <2>2 DEF OverridesOf
  <2>5. /\ db.overrides[i].applied = NoScan /\ db'.overrides[i].applied = v
    BY <2>2, <2>3, <2>4 DEF StampedBy, Override
  <2>6. db.completed[r] < db.nextScan /\ db.completed[r] \in Nat
    BY <1>1, <2>1, <2>3 DEF IInv, Committed, ScanId
  <2>7. db'.completed[r] = v /\ db'.completed[r] # db.completed[r]
    BY <2>1, <2>2, <2>3, <2>6
  <2> QED
    BY <2>1, <2>5, <2>7
<1>2. ASSUME IInv, NEW o, Correct(o) PROVE Once
  <2>1. db' = [db EXCEPT !.overrides = Append(@, o)]
    BY <1>2 DEF Correct, Commit
  <2>2. db \in Tables /\ db.overrides \in Seq(Override)
    BY <1>2, TablesFields DEF IInv, TypeOK
  <2>3. db'.overrides = Append(db.overrides, o)
    BY <2>1, <2>2 DEF Tables
  <2>4. \A i \in 1 .. Len(db.overrides) : db'.overrides[i] = db.overrides[i]
    BY <2>2, <2>3
  <2> QED
    BY <2>4
<1>3. ASSUME IInv, NEW p \in Scanners,
             DropConnectionsOf(p) \/ DropServicesOf(p)
      PROVE  Once
  <2>1. db \in Tables
    BY <1>3 DEF IInv, TypeOK
  <2>2. db'.overrides = db.overrides
    BY <1>3, <2>1 DEF DropConnectionsOf, DropServicesOf, Commit, DropConnections,
       DropServices, Tables
  <2> QED
    BY <2>2
<1>4. ASSUME db' = db PROVE Once
  BY <1>4
<1>5. ASSUME IInv, [Next]_vars PROVE Once
  <2>1. ASSUME NEW p \in Scanners, Transaction(p) PROVE Once
    <3>1. EndScan(p) \/ db' = db
      BY <2>1 DEF Transaction, PersistFindings, PersistThrew, ApplyOverride,
         EndScanThrew, Rollback
    <3> QED
      BY <1>1, <1>4, <1>5, <3>1
  <2>2. ASSUME NEW p \in Scanners, CleanUp(p) PROVE Once
    <3>1. DropConnectionsOf(p) \/ DropServicesOf(p) \/ db' = db
      BY <2>2 DEF CleanUp, SelectGone, CleanUpThrew, Return
    <3> QED
      BY <1>3, <1>4, <1>5, <3>1
  <2>3. ASSUME NEW p \in Scanners, Crash(p) PROVE Once
    BY <1>4, <2>3 DEF Crash
  <2>4. ASSUME NEW p \in Scanners,
               \E r \in Repos, mode \in Modes, f \in Findings,
                  lost \in SUBSET Files : BeginScan(p, r, mode, f, lost)
        PROVE  Once
    BY <1>4, <2>4 DEF BeginScan
  <2>5. CASE UNCHANGED vars
    BY <1>4, <2>5 DEF vars
  <2> HIDE DEF Once
  <2> QED
    BY <1>2, <1>5, <2>1, <2>2, <2>3, <2>4, <2>5 DEF Next
<1> QED
  BY <1>5, Invariance, PTL DEF Spec, StampedOnceAtCommit

-----------------------------------------------------------------------------
(* The deletions that operators stage.                                     *)

Repeats(i, r, d) ==
  /\ d.overrides[i].action = "delete"
  /\ r.edge = d.overrides[i].target.edge /\ r.edge.route # NullRoute

(* A call with a method and a path has one row.                            *)
OneCall(d) ==
  /\ \A c \in d.connections : c.id.edge = c.edge
  /\ \A b, c \in Ids(d.connections) :
       b.edge = c.edge /\ b.edge.route # NullRoute => b = c

(* As long as a deletion is pending, the call has the row that it names.   *)
PendingNames(d) ==
  \A i \in PendingOverrides(d) : \A id \in Ids(d.connections) :
    Repeats(i, id, d) => id = d.overrides[i].target

(* In the open transaction the call may have a row of this scan instead;   *)
(* a deletion that threw still names the row that it failed to delete.     *)
DeletionsSo(p) ==
  \A i \in PendingOverrides(db) : \A id \in Ids(tx.connections) :
    Repeats(i, id, db) =>
      /\ id = db.overrides[i].target \/ id.scan = scan[p].version
      /\ i \in handled \cap PendingOverrides(tx) => id = db.overrides[i].target

DeletionInv ==
  /\ IInv /\ OneCall(db) /\ PendingNames(db)
  /\ \A p \in Scanners : writer = p =>
       /\ OneCall(tx)
       /\ pc[p] = "begun" =>
            handled = {} /\ tx.overrides = db.overrides /\ PendingNames(tx)
       /\ pc[p] = "persisted" => DeletionsSo(p)

(* Rows that go leave both facts as they are.                              *)
LEMMA FewerCalls ==
  ASSUME NEW d, NEW e, e.connections \subseteq d.connections, OneCall(d)
  PROVE  /\ OneCall(e)
         /\ e.overrides = d.overrides /\ PendingNames(d) => PendingNames(e)
<1>1. Ids(e.connections) \subseteq Ids(d.connections)
  BY DEF Ids
<1> QED
  BY <1>1 DEF OneCall, PendingNames, PendingOverrides, Repeats

LEMMA RestampCalls ==
  ASSUME NEW d, SoundTables(d), OneCall(d), NEW r \in Repos, NEW v \in Nat, NEW e,
         e = Restamp(d, r, v)
  PROVE  OneCall(e)
<1> DEFINE prev == d.completed[r]
           local == Ids(ServicesOf(d, r))
           S(s) == IF s.repo = r /\ s.scan = prev THEN [s EXCEPT !.scan = v] ELSE s
           C(c) == IF c.edge.source \in local /\ c.scan = prev
                   THEN [c EXCEPT !.scan = v] ELSE c
<1>1. Ids(e.connections) = Ids(d.connections)
  BY Restamping
<1>2. ASSUME prev # NoScan PROVE \A c \in e.connections : c.id.edge = c.edge
  <2>1. e = [d EXCEPT !.services = {S(s) : s \in @},
                      !.connections = {C(c) : c \in @}]
    BY <1>2 DEF Restamp
  <2>2. d \in Tables /\ d.connections \subseteq Connection
    BY TablesFields DEF SoundTables
  <2>3. \A c \in d.connections : C(c).id = c.id /\ C(c).edge = c.edge
    BY <2>2 DEF Connection
  <2> HIDE DEF S, C
  <2>4. e.connections = {C(c) : c \in d.connections}
    BY <2>1, <2>2 DEF Tables
  <2> QED
    BY <2>3, <2>4 DEF OneCall
<1>3. CASE prev = NoScan
  BY <1>3 DEF Restamp
<1> QED
  BY <1>1, <1>2, <1>3 DEF OneCall

(* A call that is reported again is replaced.                              *)
LEMMA ConnectCalls ==
  ASSUME NEW d, SoundTables(d), OneCall(d), NEW r \in Repos, NEW v \in Nat,
         NEW conns \in SUBSET [source : Names, target : Names,
                              route : Routes \cup {NullRoute}, schema : BOOLEAN],
         NEW e, e = UpsertConnections(d, r, v, conns)
  PROVE  /\ OneCall(e)
         /\ \A id \in Ids(e.connections) : id \in Ids(d.connections) \/ id.scan = v
<1> DEFINE edges == EdgesOf(d, r, conns)
           new == Inserted(v, edges)
           old == Replaced(d, edges)
<1>1. e.connections = (d.connections \ old) \cup new
  BY DEF UpsertConnections, SoundTables, Tables
<1>2. \A c \in new :
        /\ c.edge \in edges /\ c.id = [scan |-> v, edge |-> c.edge]
        /\ c.id.edge = c.edge /\ c.id.scan = v
  BY DEF Inserted
<1>3. \A c \in d.connections :
        c.edge \in edges /\ c.edge.route # NullRoute => c \in old
  BY DEF Replaced
<1> HIDE DEF edges, new, old
<1>4. \A c \in e.connections : c.id.edge = c.edge
  BY <1>1, <1>2 DEF OneCall
<1>5. ASSUME NEW b \in e.connections, NEW c \in e.connections,
             b.id.edge = c.id.edge, b.id.edge.route # NullRoute
      PROVE  b.id = c.id
  <2>1. b.edge = c.edge /\ b.edge.route # NullRoute
    BY <1>4, <1>5
  <2>2. CASE b \in new /\ c \in new
    BY <1>2, <2>1, <2>2
  <2>3. CASE b \in d.connections \ old /\ c \in d.connections \ old
    BY <1>5, <2>3 DEF OneCall, Ids
  <2>4. ~(b \in new /\ c \in d.connections \ old)
    BY <1>2, <1>3, <2>1
  <2>5. ~(c \in new /\ b \in d.connections \ old)
    BY <1>2, <1>3, <2>1
  <2> QED
    BY <1>1, <2>2, <2>3, <2>4, <2>5
<1>6. ASSUME NEW id \in Ids(e.connections)
      PROVE  id \in Ids(d.connections) \/ id.scan = v
  <2>1. PICK c \in e.connections : id = c.id
    BY DEF Ids
  <2>2. CASE c \in new
    BY <1>2, <2>1, <2>2
  <2>3. CASE c \in d.connections
    BY <2>1, <2>3 DEF Ids
  <2> QED
    BY <1>1, <2>2, <2>3
<1> QED
  BY <1>4, <1>5, <1>6 DEF OneCall, Ids

LEMMA DeletionsBegin ==
  ASSUME DeletionInv, NEW p \in Scanners, NEW r \in Repos, NEW mode \in Modes,
         NEW f \in Findings, NEW lost \in SUBSET Files,
         BeginScan(p, r, mode, f, lost)
  PROVE  OneCall(tx') /\ tx'.overrides = db.overrides /\ PendingNames(tx')
<1> DEFINE v == db.nextScan
<1>1. PICK aged \in BOOLEAN :
        LET d == NewVersion(CleanupAbandoned(db, r, aged))
        IN  tx' = IF mode = "incremental" THEN Restamp(d, r, v) ELSE d
  BY DEF BeginScan
<1> DEFINE d == NewVersion(CleanupAbandoned(db, r, aged))
<1>2. /\ db \in Tables /\ SoundTables(db) /\ v \in Nat /\ OneCall(db) /\ PendingNames(db)
  BY TablesFields DEF DeletionInv, IInv, TypeOK, Committed
<1>3. tx' = IF mode = "incremental" THEN Restamp(d, r, v) ELSE d
  BY <1>1
<1>4. d = NewVersion(CleanupAbandoned(db, r, aged))
  OBVIOUS
<1> HIDE DEF d
<1>5. /\ d \in Tables /\ d.services = db.services /\ d.connections = db.connections
      /\ d.schemas = db.schemas /\ d.satellites = db.satellites
      /\ d.overrides = db.overrides
  BY <1>2, <1>4, TakeVersion
<1>6. SoundTables(d) /\ OneCall(d)
  BY <1>2, <1>5 DEF SoundTables, References, OneRow, OneCall
<1>7. /\ Ids(tx'.connections) = Ids(db.connections) /\ tx'.overrides = db.overrides
      /\ OneCall(tx')
  <2>1. CASE mode = "incremental"
    <3>1. tx' = Restamp(d, r, v)
      BY <1>3, <2>1
    <3> QED
      BY <1>2, <1>5, <1>6, <3>1, Restamping, RestampCalls
  <2>2. CASE mode # "incremental"
    BY <1>3, <1>5, <1>6, <2>2
  <2> QED
    BY <2>1, <2>2
<1> QED
  BY <1>2, <1>7 DEF PendingNames, PendingOverrides, Repeats

LEMMA DeletionsPersist ==
  ASSUME DeletionInv, NEW p \in Scanners, PersistFindings(p)
  PROVE  OneCall(tx') /\ DeletionsSo(p)'
<1> DEFINE r == scan[p].repo
           v == scan[p].version
           services == scan[p].found.services
           conns == scan[p].found.connections
           d == UpsertServices(tx, r, v, services)
           e == UpsertConnections(d, r, v, conns)
<1>1. /\ pc[p] = "begun" /\ writer = p /\ TransactionSound(p)
      /\ r \in Repos /\ scan[p].found \in Findings /\ v = db.nextScan
      /\ v \in Nat /\ OneCall(tx) /\ PendingNames(tx) /\ tx.overrides = db.overrides
  BY WriterKnown DEF PersistFindings, DeletionInv
<1>2. /\ services \in SUBSET [name : Names, file : Files] /\ OneName(services)
      /\ conns \in SUBSET [source : Names, target : Names,
                           route : Routes \cup {NullRoute}, schema : BOOLEAN]
  BY <1>1, ConstantsAssumption DEF Found, OneName
<1>3. /\ ~HaveSchemas(d, Replaced(d, EdgesOf(d, r, conns)))
      /\ tx' = SetRepoState(RefreshSatellites(e, r, services), r, v)
      /\ UNCHANGED <<db, scan, handled>>
  BY DEF PersistFindings
<1>4. d = UpsertServices(tx, r, v, services) /\ e = UpsertConnections(d, r, v, conns)
  OBVIOUS
<1> HIDE DEF r, v, services, conns, d, e
<1>5. SoundTables(tx) /\ RowsBefore(tx, v) /\ NotYet(p)
  BY <1>1 DEF TransactionSound
<1>6. /\ SoundTables(d) /\ RowsBefore(d, v + 1) /\ d.connections = tx.connections
      /\ d.overrides = tx.overrides
  BY <1>1, <1>2, <1>4, <1>5, Upserting
<1>7. OneCall(d)
  BY <1>1, <1>6 DEF OneCall
<1>8. /\ SoundTables(e) /\ e.overrides = d.overrides
  BY <1>1, <1>2, <1>3, <1>4, <1>6, Connecting
<1>9. /\ OneCall(e)
      /\ \A id \in Ids(e.connections) : id \in Ids(d.connections) \/ id.scan = v
  BY <1>1, <1>2, <1>4, <1>6, <1>7, ConnectCalls
<1>10. tx'.connections = e.connections /\ tx'.overrides = e.overrides
  BY <1>1, <1>3, <1>8, Refreshing
<1>11. OneCall(tx')
  BY <1>9, <1>10 DEF OneCall
<1>12. handled = {}
  BY <1>1 DEF DeletionInv
<1> QED
  BY <1>1, <1>3, <1>6, <1>9, <1>10, <1>11, <1>12
  DEF DeletionsSo, PendingNames, PendingOverrides, Repeats, v

LEMMA DeletionsOverride ==
  ASSUME DeletionInv, NEW p \in Scanners, ApplyOverride(p)
  PROVE  OneCall(tx') /\ DeletionsSo(p)'
<1> DEFINE v == scan[p].version
<1>1. /\ pc[p] = "persisted" /\ writer = p /\ TransactionSound(p)
      /\ v = db.nextScan /\ v \in Nat /\ v # NoScan
      /\ OneCall(tx) /\ DeletionsSo(p)
  BY WriterKnown DEF ApplyOverride, Abandoned, NoScan, DeletionInv
<1>2. UNCHANGED <<db, writer, pc, scan>>
  BY DEF ApplyOverride
<1>3. PICK i \in PendingOverrides(tx) :
        /\ handled' = handled \cup {i}
        /\ tx' = IF OverrideThrows(tx, tx.overrides[i]) THEN tx
                 ELSE Stamp(Applied(tx, tx.overrides[i]), i, v)
  BY DEF ApplyOverride
<1>4. SoundTables(tx) /\ DeletedGone(tx) /\ OverridesOf(p)
  BY <1>1 DEF TransactionSound
<1>5. i \in 1 .. Len(tx.overrides) /\ tx.overrides[i].applied = NoScan
  BY DEF PendingOverrides
<1> HIDE DEF v
<1>6. tx.overrides[i] = db.overrides[i] /\ db.overrides[i] \in Override
  <2>1. i \in 1 .. Len(db.overrides) /\ db.overrides[i] \in Override
    BY <1>4, <1>5, TablesFields DEF OverridesOf, DeletionInv, IInv, TypeOK
  <2>2. [db.overrides[i] EXCEPT !.applied = v].applied = v
    BY <2>1 DEF Override
  <2> QED
    BY <1>1, <1>4, <1>5, <2>1, <2>2 DEF OverridesOf, StampedBy, v
<1>7. CASE OverrideThrows(tx, tx.overrides[i])
  <2>1. tx' = tx
    BY <1>3, <1>7
  <2>2. ASSUME NEW id \in Ids(tx.connections), Repeats(i, id, db)
        PROVE  id = db.overrides[i].target
    <3>1. db.overrides[i].target \in Ids(tx.connections)
      BY <1>4, <1>6, <1>7, <2>2 DEF OverrideThrows, Repeats, SoundTables, References
    <3> QED
      BY <1>1, <2>2, <3>1 DEF OneCall, Repeats
  <2> QED
    BY <1>1, <1>2, <1>3, <2>1, <2>2 DEF DeletionsSo, OneCall, PendingOverrides, Repeats
<1>8. CASE ~OverrideThrows(tx, tx.overrides[i])
  <2>1. /\ tx'.connections \subseteq tx.connections
        /\ Len(tx'.overrides) = Len(tx.overrides)
        /\ tx'.overrides[i] = [tx.overrides[i] EXCEPT !.applied = v]
        /\ \A j \in 1 .. Len(tx.overrides) : j # i => tx'.overrides[j] = tx.overrides[j]
    BY <1>1, <1>3, <1>4, <1>5, <1>8, Applying, SMTT(30)
  <2>2. tx'.overrides[i].applied # NoScan
    BY <1>1, <1>6, <2>1 DEF Override
  <2>3. PendingOverrides(tx') \subseteq PendingOverrides(tx) \ {i}
    BY <2>1, <2>2 DEF PendingOverrides
  <2>4. Ids(tx'.connections) \subseteq Ids(tx.connections)
    BY <2>1 DEF Ids
  <2>5. OneCall(tx')
    BY <1>1, <2>1, FewerCalls
  <2> QED
    BY <1>1, <1>2, <1>3, <2>3, <2>4, <2>5 DEF DeletionsSo, PendingOverrides, Repeats
<1> QED
  BY <1>7, <1>8

LEMMA DeletionsCommit ==
  ASSUME DeletionInv, NEW p \in Scanners, EndScan(p)
  PROVE  /\ OneCall(db') /\ PendingNames(db') /\ writer' = NoWriter
         /\ \A i \in PendingOverrides(db) : \A c \in db'.connections :
              db'.overrides[i].applied # NoScan /\ Repeats(i, c, db) =>
                c.id.scan = scan[p].version
<1> DEFINE r == scan[p].repo
           v == scan[p].version
           e == DropStaleRows(DropStaleSchemas(tx, r, v), r, v)
<1>1. /\ pc[p] = "persisted" /\ writer = p /\ TransactionSound(p) /\ r \in Repos
      /\ v \in Nat /\ v = db.nextScan /\ OneCall(tx) /\ DeletionsSo(p)
      /\ db \in Tables
  BY WriterKnown DEF EndScan, DeletionInv, IInv, TypeOK
<1>2. SoundTables(tx) /\ DeletedGone(tx) /\ OverridesOf(p)
  BY <1>1 DEF TransactionSound
<1>3. /\ PendingOverrides(tx) \subseteq handled /\ writer' = NoWriter
      /\ ~HaveSchemas(DropStaleSchemas(tx, r, v), Touching(tx, Ids(Stale(tx, r, v))))
      /\ db' = [e EXCEPT !.completed[r] = v]
  BY DEF EndScan, OverridesDone, StaleHaveSchemas, Closed
<1>4. e = DropStaleRows(DropStaleSchemas(tx, r, v), r, v)
  OBVIOUS
<1> HIDE DEF r, v, e
<1>5. SoundTables(e) /\ e.overrides = tx.overrides /\ e.connections \subseteq tx.connections
  BY <1>1, <1>2, <1>3, <1>4, Closing
<1>6. db'.connections \subseteq tx.connections /\ db'.overrides = tx.overrides
  BY <1>3, <1>5 DEF SoundTables, Tables
<1>7. OneCall(db')
  BY <1>1, <1>6, FewerCalls
<1>8. ASSUME NEW i \in PendingOverrides(db)
      PROVE  /\ i \in 1 .. Len(tx.overrides)
             /\ tx.overrides[i].action = db.overrides[i].action
             /\ tx.overrides[i].target = db.overrides[i].target
  <2>1. i \in 1 .. Len(db.overrides) /\ db.overrides[i] \in Override
    BY <1>1, TablesFields DEF PendingOverrides
  <2> QED
    BY <1>2, <2>1 DEF OverridesOf, StampedBy, Override
<1>9. PendingOverrides(tx) \subseteq PendingOverrides(db)
  <2> SUFFICES ASSUME NEW i \in PendingOverrides(tx) PROVE db.overrides[i].applied = NoScan
    BY <1>2 DEF PendingOverrides, OverridesOf
  <2> QED
    BY <1>2 DEF PendingOverrides, OverridesOf, StampedBy
<1>10. Ids(db'.connections) \subseteq Ids(tx.connections)
  BY <1>6 DEF Ids
<1>11. PendingNames(db')
  <2> SUFFICES ASSUME NEW i \in PendingOverrides(db'), NEW id \in Ids(db'.connections),
                      Repeats(i, id, db')
               PROVE  id = db'.overrides[i].target
    BY DEF PendingNames
  <2>1. i \in PendingOverrides(tx) /\ i \in PendingOverrides(db) /\ i \in handled
    BY <1>3, <1>6, <1>9 DEF PendingOverrides
  <2>2. Repeats(i, id, db) /\ db'.overrides[i].target = db.overrides[i].target
    BY <1>6, <1>8, <2>1 DEF Repeats
  <2> QED
    BY <1>1, <1>10, <2>1, <2>2 DEF DeletionsSo
<1>12. ASSUME NEW i \in PendingOverrides(db), NEW c \in db'.connections,
              db'.overrides[i].applied # NoScan, Repeats(i, c, db)
       PROVE  c.id.scan = scan[p].version
  <2>1. c \in tx.connections /\ c.id \in Ids(tx.connections)
    BY <1>6 DEF Ids
  <2>2. c.id.edge = c.edge
    BY <1>1, <2>1 DEF OneCall
  <2>3. Repeats(i, c.id, db)
    BY <1>12, <2>2 DEF Repeats
  <2>4. db.overrides[i].target \notin Ids(tx.connections)
    BY <1>2, <1>6, <1>8, <1>12 DEF DeletedGone, Repeats
  <2> QED
    BY <1>1, <2>1, <2>3, <2>4 DEF DeletionsSo
<1> QED
  BY <1>3, <1>7, <1>11, <1>12

(* A step of another process leaves the open transaction alone.            *)
LEMMA DeletionsAside ==
  ASSUME DeletionInv, IInv', UNCHANGED <<writer, handled>>, OneCall(db'), PendingNames(db'),
         \A q \in Scanners : writer = q => pc'[q] = pc[q] /\ scan'[q] = scan[q],
         UNCHANGED <<db, tx>> \/ writer = NoWriter
  PROVE  DeletionInv'
<1>1. CASE writer \in Scanners
  <2>1. UNCHANGED <<db, tx>> /\ pc'[writer] = pc[writer] /\ scan'[writer] = scan[writer]
    BY <1>1, ConstantsAssumption
  <2> QED
    BY <1>1, <2>1 DEF DeletionInv, OneCall, PendingNames, PendingOverrides, DeletionsSo,
       Repeats
<1>2. CASE writer \notin Scanners
  BY <1>2 DEF DeletionInv
<1> QED
  BY <1>1, <1>2

LEMMA DeletionsCorrect ==
  ASSUME DeletionInv, NEW o \in Staged, Correct(o)
  PROVE  OneCall(db') /\ PendingNames(db')
<1>1. db' = [db EXCEPT !.overrides = Append(@, o)]
  BY DEF Correct, Commit
<1>2. /\ db \in Tables /\ db.overrides \in Seq(Override) /\ Len(db.overrides) \in Nat
      /\ OneCall(db) /\ PendingNames(db)
  BY TablesFields DEF DeletionInv, IInv, TypeOK
<1>3. db'.connections = db.connections /\ db'.overrides = Append(db.overrides, o)
  BY <1>1, <1>2 DEF Tables
<1>4. /\ Len(Append(db.overrides, o)) = Len(db.overrides) + 1
      /\ \A i \in 1 .. Len(db.overrides) : Append(db.overrides, o)[i] = db.overrides[i]
      /\ Append(db.overrides, o)[Len(db.overrides) + 1] = o
  BY <1>2, AppendProperties
<1>5. o.action = "delete" => o.target \in Ids(db.connections)
  BY DEF Staged
<1>6. ASSUME NEW i \in PendingOverrides(db'), NEW id \in Ids(db.connections),
             Repeats(i, id, db')
      PROVE  id = db'.overrides[i].target
  <2>1. CASE i \in 1 .. Len(db.overrides)
    <3>1. db'.overrides[i] = db.overrides[i] /\ i \in PendingOverrides(db)
      BY <1>3, <1>4, <2>1 DEF PendingOverrides
    <3> QED
      BY <1>2, <1>6, <3>1 DEF PendingNames, Repeats
  <2>2. CASE i = Len(db.overrides) + 1
    <3>1. db'.overrides[i] = o
      BY <1>3, <1>4, <2>2
    <3> QED
      BY <1>2, <1>5, <1>6, <3>1 DEF OneCall, Repeats
  <2> QED
    BY <1>2, <1>3, <1>4, <2>1, <2>2 DEF PendingOverrides
<1> QED
  BY <1>2, <1>3, <1>6 DEF OneCall, PendingNames

LEMMA DeletionsNext ==
  ASSUME DeletionInv, [Next]_vars
  PROVE  DeletionInv'
<1>0. /\ IInv /\ OneCall(db) /\ PendingNames(db) /\ db \in Tables
      /\ pc \in [Scanners -> {"idle", "begun", "persisted", "cleaning", "dropping"}]
      /\ scan \in [Scanners -> Call]
  BY DEF DeletionInv, IInv, TypeOK
<1>1. IInv'
  BY <1>0, InvNext
<1>2. ASSUME NEW p \in Scanners, \E r \in Repos, mode \in Modes, f \in Findings,
               lost \in SUBSET Files : BeginScan(p, r, mode, f, lost)
      PROVE  DeletionInv'
  <2>1. OneCall(tx') /\ tx'.overrides = db.overrides /\ PendingNames(tx')
    BY <1>2, DeletionsBegin
  <2>2. db' = db /\ writer' = p /\ handled' = {} /\ pc'[p] = "begun"
    BY <1>0, <1>2 DEF BeginScan, Goto
  <2> QED
    BY <1>0, <1>1, <2>1, <2>2, ConstantsAssumption DEF DeletionInv, OneCall, PendingNames,
       PendingOverrides, Repeats
<1>3. ASSUME NEW p \in Scanners, PersistFindings(p) \/ ApplyOverride(p)
      PROVE  DeletionInv'
  <2>1. OneCall(tx') /\ DeletionsSo(p)'
    BY <1>3, DeletionsPersist, DeletionsOverride
  <2>2. /\ db' = db /\ writer' = writer /\ pc'[p] = "persisted"
        /\ pc[p] \in {"begun", "persisted"}
    BY <1>0, <1>3 DEF PersistFindings, ApplyOverride, Goto
  <2>3. writer = p
    BY <1>0, <2>2, WriterKnown
  <2> QED
    BY <1>0, <1>1, <2>1, <2>2, <2>3 DEF DeletionInv, OneCall, PendingNames,
       PendingOverrides, Repeats
<1>4. ASSUME NEW p \in Scanners, EndScan(p) PROVE DeletionInv'
  BY <1>1, <1>4, DeletionsCommit, ConstantsAssumption DEF DeletionInv
<1>5. ASSUME writer' = NoWriter, db' = db PROVE DeletionInv'
  BY <1>0, <1>1, <1>5, ConstantsAssumption DEF DeletionInv, OneCall, PendingNames,
     PendingOverrides, Repeats
<1>6. ASSUME NEW p \in Scanners, CleanUp(p) PROVE DeletionInv'
  <2>1. pc[p] \in {"cleaning", "dropping"} /\ writer # p
    BY <1>0, <1>6 DEF CleanUp, SelectGone, DropConnectionsOf, DropServicesOf, CleanUpThrew,
       Return, IInv, OneWriter
  <2>2. /\ \A q \in Scanners \ {p} : pc'[q] = pc[q] /\ scan'[q] = scan[q]
        /\ UNCHANGED <<writer, handled>>
    BY <1>0, <1>6 DEF CleanUp, SelectGone, DropConnectionsOf, DropServicesOf, CleanUpThrew,
       Return, Goto, Failed
  <2>3. db'.connections \subseteq db.connections /\ db'.overrides = db.overrides
    <3>1. CASE SelectGone(p) \/ CleanUpThrew(p) \/ Return(p)
      BY <3>1 DEF SelectGone, CleanUpThrew, Return
    <3>2. CASE DropConnectionsOf(p)
      BY <1>0, <3>2 DEF DropConnectionsOf, Commit, DropConnections, Tables
    <3>3. CASE DropServicesOf(p)
      BY <1>0, <3>3 DEF DropServicesOf, Commit, DropServices, Tables
    <3> QED
      BY <1>6, <3>1, <3>2, <3>3 DEF CleanUp
  <2>4. UNCHANGED <<db, tx>> \/ writer = NoWriter
    BY <1>6 DEF CleanUp, SelectGone, DropConnectionsOf, DropServicesOf, CleanUpThrew, Return
  <2>5. OneCall(db') /\ PendingNames(db')
    BY <1>0, <2>3, FewerCalls
  <2> QED
    BY <1>1, <2>1, <2>2, <2>4, <2>5, DeletionsAside
<1>7. ASSUME NEW p \in Scanners, Crash(p) PROVE DeletionInv'
  <2>1. CASE writer = p
    BY <1>5, <1>7, <2>1 DEF Crash
  <2>2. CASE writer # p
    <3>1. /\ UNCHANGED <<db, tx, writer, handled, scan>>
          /\ \A q \in Scanners \ {p} : pc'[q] = pc[q]
      BY <1>0, <1>7, <2>2 DEF Crash, Goto
    <3> QED
      BY <1>0, <1>1, <2>2, <3>1, DeletionsAside DEF OneCall, PendingNames,
         PendingOverrides, Repeats
  <2> QED
    BY <2>1, <2>2
<1>8. ASSUME NEW o \in Staged, Correct(o) PROVE DeletionInv'
  BY <1>1, <1>8, DeletionsCorrect, DeletionsAside DEF Correct
<1>9. CASE UNCHANGED vars
  BY <1>0, <1>1, <1>9, DeletionsAside DEF vars, OneCall, PendingNames, PendingOverrides,
     Repeats
<1>10. ASSUME NEW p \in Scanners, Transaction(p) PROVE DeletionInv'
  <2>1. CASE PersistThrew(p) \/ EndScanThrew(p)
    BY <1>5, <2>1 DEF PersistThrew, EndScanThrew, Rollback
  <2> QED
    BY <1>3, <1>4, <1>10, <2>1 DEF Transaction
<1> QED
  BY <1>2, <1>6, <1>7, <1>8, <1>9, <1>10 DEF Next

(* A deletion that is stamped leaves the call in the map only where the    *)
(* scan that stamped it had reported the call again: without such a report *)
(* the call is gone.                                                       *)
THEOREM DeletionsTake == Spec => DeletionsYieldOnlyToReports
<1> DEFINE Taken ==
      \A p \in Scanners : EndScan(p) =>
        \A i \in 1 .. Len(db.overrides) :
          LET o == db.overrides[i]
          IN  Stamped(i, scan[p].version) /\ o.action = "delete" =>
                \A c \in db'.connections :
                  c.edge = o.target.edge /\ c.edge.route # NullRoute =>
                    c.id.scan = scan[p].version
<1>1. Init => DeletionInv
  <2> SUFFICES ASSUME Init PROVE DeletionInv
    OBVIOUS
  <2>1. db.connections = {}
    <3>1. CASE db = EmptyDb
      BY <3>1 DEF EmptyDb
    <3>2. CASE db \in LegacyDbs
      <4>1. PICK r \in Repos, n \in Names, f \in Files, v \in {NoScan, Abandoned} :
              db = LegacyDb(r, n, f, v)
        BY <3>2 DEF LegacyDbs
      <4>2. EmptyDb.connections = {}
        BY DEF EmptyDb
      <4> QED
        BY <4>1, <4>2 DEF LegacyDb, EmptyDb
    <3> QED
      BY <3>1, <3>2 DEF Init
  <2> QED
    BY <2>1, InitSound, ConstantsAssumption
    DEF Init, DeletionInv, OneCall, PendingNames, Ids
<1>2. DeletionInv /\ [Next]_vars => DeletionInv'
  BY DeletionsNext
<1>3. DeletionInv => Taken
  <2> SUFFICES ASSUME DeletionInv, NEW p \in Scanners, EndScan(p),
                      NEW i \in 1 .. Len(db.overrides), Stamped(i, scan[p].version),
                      db.overrides[i].action = "delete", NEW c \in db'.connections,
                      c.edge = db.overrides[i].target.edge, c.edge.route # NullRoute
               PROVE  c.id.scan = scan[p].version
    OBVIOUS
  <2>1. scan[p].version # NoScan
    BY WriterKnown DEF EndScan, DeletionInv, Abandoned, NoScan
  <2>2. i \in PendingOverrides(db) /\ db'.overrides[i].applied # NoScan
    BY <2>1 DEF Stamped, PendingOverrides
  <2> QED
    BY <2>2, DeletionsCommit DEF Repeats
<1> QED
  BY <1>1, <1>2, <1>3, PTL DEF Spec, DeletionsYieldOnlyToReports

-----------------------------------------------------------------------------
(* The clean-up of gone files, when one process at a time persists scans.  *)

Alone == \A p, q \in Scanners : p = q

(* No finding has a schema.                                                *)
Plain == \A f \in Findings : \A c \in f.connections : ~c.schema

FilesOf(found) == {f.file : f \in found.services}

CleaningUp(p) == pc[p] \in {"cleaning", "dropping"}

(* What a scan reported in files that are not gone is in the committed     *)
(* tables until it returns: what it has yet to clean up after is gone.     *)
StillThere(p) ==
  CleaningUp(p) =>
    /\ scan[p].gone \subseteq gone[scan[p].repo]
    /\ pc[p] = "dropping" => scan[p].path \in gone[scan[p].repo]
    /\ \A f \in scan[p].found.services :
         f.file \notin gone[scan[p].repo] =>
           \E s \in ServicesOf(db, scan[p].repo) : s.file = f.file

ReportedInv == IInv /\ \A p \in Scanners : StillThere(p)

(* A service of a gone file is one that the clean-up has yet to remove.    *)
YetToGo(p, s) ==
  /\ CleaningUp(p) /\ s.repo = scan[p].repo
  /\ s.file \in scan[p].gone \/ (pc[p] = "dropping" /\ s.file = scan[p].path)

(* In an open transaction, one of a gone file was found again.             *)
FoundAgain(p) ==
  \A s \in tx.services : s.file \in gone[s.repo] =>
    s.repo = scan[p].repo /\ s.file \in FilesOf(scan[p].found)

(* What is about to be deleted is not referred to, or will not be.         *)
Released(p) ==
  \A s \in DoomedBy(p, scan[p].path) :
    s.id \in doomed[p] \/ Touching(db, {s.id}) = {}

CleanInv ==
  /\ IInv /\ db.schemas = {} /\ tx.schemas = {}
  /\ \A s \in db.services : s.file \in gone[s.repo] =>
       \E p \in Scanners : YetToGo(p, s)
  /\ \A p \in Scanners :
       /\ writer = p => FoundAgain(p)
       /\ pc[p] = "dropping" => Released(p)

LEMMA ReportedNext ==
  ASSUME Alone, ReportedInv, [Next]_vars
  PROVE  ReportedInv'
<1> USE DEF CleaningUp
<1>0. /\ IInv /\ \A p \in Scanners : StillThere(p)
      /\ pc \in [Scanners -> {"idle", "begun", "persisted", "cleaning", "dropping"}]
      /\ scan \in [Scanners -> Call] /\ db \in Tables
  BY DEF ReportedInv, IInv, TypeOK
<1>1. IInv'
  BY <1>0, InvNext
<1>2. ASSUME NEW p \in Scanners, StillThere(p)'
      PROVE  \A q \in Scanners : StillThere(q)'
  BY <1>2 DEF Alone
<1>3. ASSUME NEW p \in Scanners, pc' = [pc EXCEPT ![p] = "idle"]
      PROVE  StillThere(p)'
  BY <1>0, <1>3 DEF StillThere
<1>4. ASSUME NEW p \in Scanners, UNCHANGED <<pc, scan, gone>>,
             db'.services = db.services
      PROVE  StillThere(p)'
  BY <1>0, <1>4 DEF StillThere, ServicesOf
<1>5. ASSUME NEW p \in Scanners,
             \E r \in Repos, mode \in Modes, f \in Findings, lost \in SUBSET Files :
               BeginScan(p, r, mode, f, lost)
      PROVE  StillThere(p)'
  <2>1. PICK r \in Repos, mode \in Modes, f \in Findings, lost \in SUBSET Files :
          BeginScan(p, r, mode, f, lost)
    BY <1>5
  <2>2. pc'[p] = "begun"
    BY <1>0, <2>1 DEF BeginScan, Goto
  <2> QED
    BY <2>2 DEF StillThere
<1>6. ASSUME NEW p \in Scanners, Transaction(p) PROVE StillThere(p)'
  <2>1. CASE PersistFindings(p)
    BY <1>0, <2>1 DEF PersistFindings, StillThere, Goto
  <2>2. CASE PersistThrew(p) \/ EndScanThrew(p)
    BY <1>3, <2>2 DEF PersistThrew, EndScanThrew, Failed, Goto
  <2>3. CASE ApplyOverride(p)
    BY <1>4, <2>3 DEF ApplyOverride
  <2>4. CASE EndScan(p)
    <3>1. /\ pc[p] = "persisted" /\ pc'[p] = "cleaning" /\ scan' = scan
      BY <1>0, <2>4 DEF EndScan, Goto
    <3>2. Written(p)
      BY <1>0, <3>1, WriterKnown DEF TransactionSound
    <3>3. db'.services = tx.services \ Stale(tx, scan[p].repo, scan[p].version)
      BY <1>0, <2>4, Committing
    <3>4. ASSUME NEW f \in scan[p].found.services
          PROVE  \E s \in ServicesOf(db', scan[p].repo) : s.file = f.file
      <4>1. PICK s \in tx.services :
              s.repo = scan[p].repo /\ s.scan = scan[p].version /\ s.file = f.file
        BY <3>2 DEF Written
      <4>2. s \in ServicesOf(db', scan[p].repo)
        BY <3>3, <4>1 DEF Stale, ServicesOf
      <4> QED
        BY <4>1, <4>2
    <3>5. scan[p].repo \in Repos /\ gone \in [Repos -> SUBSET Files]
      BY <1>0 DEF IInv, TypeOK, Call
    <3>6. scan[p].gone \subseteq gone'[scan[p].repo]
      BY <2>4, <3>5 DEF EndScan
    <3> QED
      BY <1>0, <3>1, <3>4, <3>6 DEF StillThere
  <2> QED
    BY <1>6, <2>1, <2>2, <2>3, <2>4 DEF Transaction
<1>7. ASSUME NEW p \in Scanners, CleanUp(p) PROVE StillThere(p)'
  <2>1. CASE SelectGone(p)
    <3>1. PICK f \in scan[p].gone :
            scan' = [scan EXCEPT ![p].gone = @ \ {f}, ![p].path = f]
      BY <2>1 DEF SelectGone
    <3>2. /\ scan'[p].gone = scan[p].gone \ {f} /\ scan'[p].path = f
          /\ scan'[p].found = scan[p].found /\ scan'[p].repo = scan[p].repo
      BY <1>0, <3>1 DEF Call
    <3> QED
      BY <1>0, <2>1, <3>2 DEF SelectGone, StillThere, Goto
  <2>2. CASE DropConnectionsOf(p)
    <3>1. db'.services = db.services
      BY <1>0, <2>2 DEF DropConnectionsOf, Commit, DropConnections, Tables
    <3> QED
      BY <1>4, <2>2, <3>1 DEF DropConnectionsOf
  <2>3. CASE DropServicesOf(p)
    <3>1. /\ db'.services = db.services \ DoomedBy(p, scan[p].path)
          /\ pc[p] = "dropping" /\ pc'[p] = "cleaning" /\ scan' = scan
      BY <1>0, <2>3 DEF DropServicesOf, Commit, DropServices, Tables, Goto
    <3>2. ASSUME NEW f \in scan[p].found.services, f.file \notin gone[scan[p].repo]
          PROVE  \E s \in ServicesOf(db', scan[p].repo) : s.file = f.file
      <4>1. PICK s \in ServicesOf(db, scan[p].repo) : s.file = f.file
        BY <1>0, <3>1, <3>2 DEF StillThere
      <4>2. s.file # scan[p].path
        BY <1>0, <3>1, <3>2, <4>1 DEF StillThere
      <4> QED
        BY <3>1, <4>1, <4>2 DEF ServicesOf, DoomedBy
    <3>3. gone' = gone
      BY <2>3 DEF DropServicesOf
    <3> QED
      BY <1>0, <3>1, <3>2, <3>3 DEF StillThere
  <2>4. CASE CleanUpThrew(p) \/ Return(p)
    BY <1>3, <2>4 DEF CleanUpThrew, Return, Failed, Goto
  <2> QED
    BY <1>7, <2>1, <2>2, <2>3, <2>4 DEF CleanUp
<1>8. ASSUME NEW p \in Scanners, Crash(p) PROVE StillThere(p)'
  BY <1>3, <1>8 DEF Crash, Goto
<1>9. ASSUME NEW o \in Staged, Correct(o), NEW p \in Scanners PROVE StillThere(p)'
  <2>1. db'.services = db.services
    BY <1>0, <1>9 DEF Correct, Commit, Tables
  <2> QED
    BY <1>4, <1>9, <2>1 DEF Correct
<1>10. ASSUME UNCHANGED vars, NEW p \in Scanners PROVE StillThere(p)'
  BY <1>4, <1>10 DEF vars
<1> QED
  BY <1>1, <1>2, <1>5, <1>6, <1>7, <1>8, <1>9, <1>10 DEF Next, ReportedInv

(* With one scanner, what a scan reported is in the map when it returns,   *)
(* unless it reported it in a file it was told is gone: the clean-up       *)
(* removes services by their file alone, and nothing else.                 *)
THEOREM ReportedStay == Alone => (Spec => ReportedSurvives)
<1> SUFFICES ASSUME Alone PROVE Spec => ReportedSurvives
  OBVIOUS
<1> DEFINE Kept ==
      \A p \in Scanners : Return(p) =>
        \A f \in scan[p].found.services :
          f.file \notin gone[scan[p].repo] =>
            \E s \in ServicesOf(db, scan[p].repo) : s.file = f.file
<1>1. Init => ReportedInv
  BY InitSound DEF Init, ReportedInv, StillThere, CleaningUp
<1>2. ReportedInv /\ [Next]_vars => ReportedInv'
  BY ReportedNext
<1>3. ReportedInv => Kept
  BY DEF ReportedInv, StillThere, CleaningUp, Return
<1> QED
  BY <1>1, <1>2, <1>3, PTL DEF Spec, ReportedSurvives

(* Every service of e is in the repository and file of one of d.           *)
Homed(e, d) ==
  \A s \in e.services : \E t \in d.services : t.repo = s.repo /\ t.file = s.file

LEMMA RestampHomes ==
  ASSUME NEW d \in Tables, NEW r \in Repos, NEW v \in Nat, NEW e,
         e = Restamp(d, r, v)
  PROVE  Homed(e, d) /\ e.schemas = d.schemas
<1> DEFINE prev == d.completed[r]
           local == Ids(ServicesOf(d, r))
           S(s) == IF s.repo = r /\ s.scan = prev THEN [s EXCEPT !.scan = v] ELSE s
           C(c) == IF c.edge.source \in local /\ c.scan = prev
                   THEN [c EXCEPT !.scan = v] ELSE c
<1>1. CASE prev = NoScan
  BY <1>1 DEF Restamp, Homed
<1>2. CASE prev # NoScan
  <2>1. e = [d EXCEPT !.services = {S(s) : s \in @},
                      !.connections = {C(c) : c \in @}]
    BY <1>2 DEF Restamp
  <2>2. \A s \in d.services : S(s).repo = s.repo /\ S(s).file = s.file
    BY TablesFields DEF Service
  <2> HIDE DEF S, C
  <2>3. e.services = {S(s) : s \in d.services} /\ e.schemas = d.schemas
    BY <2>1 DEF Tables
  <2> QED
    BY <2>2, <2>3 DEF Homed
<1> QED
  BY <1>1, <1>2

(* What a begun transaction holds.                                         *)
LEMMA BegunHomes ==
  ASSUME IInv, NEW p \in Scanners, NEW r \in Repos, NEW mode \in Modes,
         NEW f \in Findings, NEW lost \in SUBSET Files,
         BeginScan(p, r, mode, f, lost)
  PROVE  Homed(tx', db) /\ tx'.schemas = db.schemas
<1>1. db \in Tables /\ db.nextScan \in Nat
  BY TablesFields DEF IInv, TypeOK
<1>2. PICK aged \in BOOLEAN :
        tx' = IF mode = "incremental"
              THEN Restamp(NewVersion(CleanupAbandoned(db, r, aged)), r, db.nextScan)
              ELSE NewVersion(CleanupAbandoned(db, r, aged))
  BY DEF BeginScan
<1> DEFINE d == NewVersion(CleanupAbandoned(db, r, aged))
<1>3. d \in Tables /\ d.services = db.services /\ d.schemas = db.schemas
  BY <1>1, TakeVersion
<1>4. CASE mode = "incremental"
  <2>1. tx' = Restamp(d, r, db.nextScan)
    BY <1>2, <1>4
  <2> HIDE DEF d
  <2>2. Homed(tx', d) /\ tx'.schemas = d.schemas
    BY <1>1, <1>3, <2>1, RestampHomes
  <2> QED
    BY <1>3, <2>2 DEF Homed
<1>5. CASE mode # "incremental"
  BY <1>2, <1>3, <1>5 DEF Homed
<1> QED
  BY <1>4, <1>5

(* What persistFindings adds.                                              *)
LEMMA PersistedHomes ==
  ASSUME IInv, NEW p \in Scanners, PersistFindings(p)
  PROVE  /\ \A s \in tx'.services :
              \/ s \in tx.services
              \/ s.repo = scan[p].repo /\ s.file \in FilesOf(scan[p].found)
         /\ Plain /\ tx.schemas = {} => tx'.schemas = {}
<1> DEFINE r == scan[p].repo
           v == scan[p].version
           found == scan[p].found
           d == UpsertServices(tx, r, v, found.services)
           c == UpsertConnections(d, r, v, found.connections)
           g == RefreshSatellites(c, r, found.services)
<1>1. /\ pc[p] = "begun" /\ TransactionSound(p) /\ r \in Repos
      /\ v = db.nextScan /\ v \in Nat /\ found \in Findings
  BY WriterKnown DEF PersistFindings
<1>2. /\ found.services \in SUBSET [name : Names, file : Files]
      /\ found.connections \in SUBSET [source : Names, target : Names,
            route : Routes \cup {NullRoute}, schema : BOOLEAN]
      /\ OneName(found.services)
  BY <1>1, ConstantsAssumption DEF Found, OneName
<1>3. SoundTables(tx) /\ RowsBefore(tx, v)
  BY <1>1 DEF TransactionSound
<1>4. /\ ~HaveSchemas(d, Replaced(d, EdgesOf(d, r, found.connections)))
      /\ tx' = SetRepoState(g, r, v)
  BY DEF PersistFindings
<1>5. /\ d = UpsertServices(tx, r, v, found.services)
      /\ c = UpsertConnections(d, r, v, found.connections)
      /\ g = RefreshSatellites(c, r, found.services)
  OBVIOUS
<1> HIDE DEF r, v, found, d, c, g
<1>6. /\ SoundTables(d) /\ RowsBefore(d, v + 1) /\ d.schemas = tx.schemas
      /\ \A s \in d.services : s \notin tx.services =>
           \E f \in found.services : s = Upserted(tx, r, v, f)
  BY <1>1, <1>2, <1>3, <1>5, Upserting
<1>7. SoundTables(c) /\ c.services = d.services
  BY <1>1, <1>2, <1>4, <1>5, <1>6, Connecting
<1>8. tx'.services = c.services
  BY <1>1, <1>4, <1>5, <1>7, Refreshing
<1>9. tx'.schemas = c.schemas
  BY <1>4, <1>5, <1>7 DEF SoundTables, Tables, SetRepoState, RefreshSatellites
<1>10. ASSUME NEW s \in tx'.services, s \notin tx.services
       PROVE  s.repo = r /\ s.file \in FilesOf(found)
  <2>1. PICK f \in found.services : s = Upserted(tx, r, v, f)
    BY <1>6, <1>7, <1>8, <1>10
  <2>2. s.repo = r /\ s.file = f.file
    BY <1>1, <1>2, <1>3, <2>1, UpsertedRow DEF SoundTables
  <2> QED
    BY <2>2 DEF FilesOf
<1>11. ASSUME Plain, tx.schemas = {} PROVE tx'.schemas = {}
  <2>1. {x \in found.connections : x.schema} = {}
    BY <1>1, <1>11 DEF Plain
  <2>2. EdgesOf(d, r, {}) = {}
    BY DEF EdgesOf
  <2>3. Ids(Inserted(v, {})) = {}
    BY DEF Ids, Inserted
  <2>4. c.schemas = d.schemas
    BY <1>5, <1>6, <2>1, <2>2, <2>3 DEF UpsertConnections, SoundTables, Tables
  <2> QED
    BY <1>6, <1>9, <1>11, <2>4
<1> QED
  BY <1>10, <1>11 DEF r, found

(* An override moves no service to another repository or file.             *)
LEMMA AppliedHomes ==
  ASSUME IInv, NEW p \in Scanners, ApplyOverride(p)
  PROVE  Homed(tx', tx) /\ tx'.schemas = tx.schemas
<1> DEFINE v == scan[p].version
<1>1. PICK i \in PendingOverrides(tx) :
        tx' = IF OverrideThrows(tx, tx.overrides[i]) THEN tx
              ELSE Stamp(Applied(tx, tx.overrides[i]), i, v)
  BY DEF ApplyOverride
<1>2. i \in 1 .. Len(tx.overrides) /\ i \in Nat /\ tx \in Tables
  BY DEF PendingOverrides, IInv, TypeOK
<1>3. /\ SoundTables(tx) /\ DeletedGone(tx) /\ v \in Nat /\ v = db.nextScan
      /\ tx.nextScan = db.nextScan + 1
  BY WriterKnown DEF ApplyOverride, TransactionSound
<1> HIDE DEF v
<1>4. CASE OverrideThrows(tx, tx.overrides[i])
  BY <1>1, <1>4 DEF Homed
<1>5. CASE ~OverrideThrows(tx, tx.overrides[i])
  <2>1. tx' = Stamp(Applied(tx, tx.overrides[i]), i, v)
    BY <1>1, <1>5
  <2>2. /\ SoundTables(tx') /\ DeletedGone(tx') /\ tx'.nextScan = tx.nextScan
        /\ tx'.completed = tx.completed /\ tx'.connections \subseteq tx.connections
        /\ Ids(tx'.services) = Ids(tx.services)
        /\ \A s \in tx'.services : \E t \in tx.services :
             /\ t.id = s.id /\ t.repo = s.repo /\ t.file = s.file /\ t.scan = s.scan
             /\ s = t \/ s.id = tx.overrides[i].target
        /\ \A t \in tx.services : \E s \in tx'.services :
             /\ t.id = s.id /\ t.repo = s.repo /\ t.file = s.file /\ t.scan = s.scan
             /\ s = t \/ s.id = tx.overrides[i].target
        /\ Len(tx'.overrides) = Len(tx.overrides)
        /\ tx'.overrides[i] = [tx.overrides[i] EXCEPT !.applied = v]
        /\ \A j \in 1 .. Len(tx.overrides) : j # i => tx'.overrides[j] = tx.overrides[j]
    BY <1>2, <1>3, <1>5, <2>1, Applying, SMTT(30)
  <2>3. tx.overrides[i] \in Override
    BY <1>2, TablesFields
  <2>4. tx'.schemas = tx.schemas
    BY <1>2, <2>1 DEF Tables, Stamp, Applied, Rename, DropConnections
  <2> QED
    BY <2>2, <2>4 DEF Homed
<1> QED
  BY <1>4, <1>5

(* endScan adds no schema.                                                 *)
LEMMA ClosedSchemas ==
  ASSUME IInv, NEW p \in Scanners, EndScan(p)
  PROVE  db'.schemas \subseteq tx.schemas
<1>1. tx \in Tables
  BY DEF IInv, TypeOK
<1>2. Closed(p) \in Tables /\ Closed(p).schemas \subseteq tx.schemas
  BY <1>1, TablesFields DEF Closed, DropStaleSchemas, Tables
<1>3. \A d \in Tables :
        DropStaleRows(d, scan[p].repo, scan[p].version).schemas = d.schemas
  BY DEF DropStaleRows, DropServices, DropConnections, Tables
<1>4. \A d : [d EXCEPT !.completed[scan[p].repo] = scan[p].version].schemas = d.schemas
  OBVIOUS
<1>5. db'.schemas = Closed(p).schemas
  BY <1>2, <1>3, <1>4 DEF EndScan
<1> QED
  BY <1>2, <1>5

(* What the clean-up needs of the constants: one scanner, which is never   *)
(* killed, and no schema that refers to what it deletes.                   *)
Undisturbed == Alone /\ Plain /\ MaxCrashes = 0

LEMMA CleanFacts ==
  ASSUME Undisturbed, CleanInv, NEW p \in Scanners
  PROVE  /\ IInv /\ db.schemas = {} /\ tx.schemas = {} /\ db \in Tables
         /\ pc \in [Scanners -> {"idle", "begun", "persisted", "cleaning", "dropping"}]
         /\ scan \in [Scanners -> Call] /\ gone \in [Repos -> SUBSET Files]
         /\ doomed \in [Scanners -> SUBSET ServiceId]
         /\ \A q \in Scanners : q = p
         /\ \A s \in db.services : s.file \in gone[s.repo] => YetToGo(p, s)
         /\ writer = p => FoundAgain(p)
         /\ pc[p] = "dropping" => Released(p)
         /\ ~CleaningUp(p) => \A s \in db.services : s.file \notin gone[s.repo]
         /\ pc[p] \notin {"begun", "persisted"} => writer = NoWriter /\ tx = db
<1>1. \A q \in Scanners : q = p
  BY DEF Undisturbed, Alone
<1>2. /\ IInv /\ db.schemas = {} /\ tx.schemas = {} /\ db \in Tables
      /\ pc \in [Scanners -> {"idle", "begun", "persisted", "cleaning", "dropping"}]
      /\ scan \in [Scanners -> Call] /\ gone \in [Repos -> SUBSET Files]
      /\ doomed \in [Scanners -> SUBSET ServiceId]
  BY DEF CleanInv, IInv, TypeOK
<1>3. /\ \A s \in db.services : s.file \in gone[s.repo] => YetToGo(p, s)
      /\ writer = p => FoundAgain(p)
      /\ pc[p] = "dropping" => Released(p)
  BY <1>1 DEF CleanInv
<1>4. ~CleaningUp(p) => \A s \in db.services : s.file \notin gone[s.repo]
  BY <1>3 DEF YetToGo
<1>5. pc[p] \notin {"begun", "persisted"} => writer = NoWriter /\ tx = db
  BY <1>1, <1>2 DEF IInv, TypeOK, OneWriter
<1> QED
  BY <1>1, <1>2, <1>3, <1>4, <1>5

(* What is left to show of a step, for the one scanner.                    *)
CleanOf(p) ==
  /\ db.schemas = {} /\ tx.schemas = {}
  /\ \A s \in db.services : s.file \in gone[s.repo] => YetToGo(p, s)
  /\ writer = p => FoundAgain(p)
  /\ pc[p] = "dropping" => Released(p)

LEMMA CleanTransaction ==
  ASSUME Undisturbed, CleanInv, NEW p \in Scanners, Transaction(p)
  PROVE  CleanOf(p)'
<1>1. /\ IInv /\ db.schemas = {} /\ tx.schemas = {} /\ db \in Tables
      /\ pc \in [Scanners -> {"idle", "begun", "persisted", "cleaning", "dropping"}]
      /\ gone \in [Repos -> SUBSET Files]
      /\ writer = p => FoundAgain(p)
  BY CleanFacts
<1>2. pc[p] \in {"begun", "persisted"} /\ writer = p
  BY <1>1, WriterKnown DEF Transaction, PersistFindings, PersistThrew, ApplyOverride,
     EndScan, EndScanThrew
<1>3. \A s \in db.services : s.file \notin gone[s.repo]
  BY <1>2, CleanFacts DEF CleaningUp
<1>4. CASE PersistFindings(p)
  <2>1. UNCHANGED <<db, scan, gone>> /\ pc'[p] = "persisted"
    BY <1>1, <1>4 DEF PersistFindings, Goto
  <2>2. tx'.schemas = {}
    BY <1>1, <1>4, PersistedHomes DEF Undisturbed
  <2>3. FoundAgain(p)'
    BY <1>1, <1>2, <1>4, <2>1, PersistedHomes DEF FoundAgain
  <2> QED
    BY <1>1, <1>3, <2>1, <2>2, <2>3 DEF CleanOf
<1>5. CASE PersistThrew(p) \/ EndScanThrew(p)
  <2>1. /\ UNCHANGED <<db, gone>> /\ tx' = db /\ writer' = NoWriter
        /\ pc'[p] = "idle"
    BY <1>1, <1>5 DEF PersistThrew, EndScanThrew, Rollback, Failed, Goto
  <2> QED
    BY <1>1, <1>3, <2>1, ConstantsAssumption DEF CleanOf
<1>6. CASE ApplyOverride(p)
  <2>1. UNCHANGED <<db, scan, gone, pc>>
    BY <1>6 DEF ApplyOverride
  <2>2. Homed(tx', tx) /\ tx'.schemas = {}
    BY <1>1, <1>6, AppliedHomes
  <2>3. FoundAgain(p)'
    BY <1>1, <1>2, <2>1, <2>2 DEF FoundAgain, Homed
  <2> QED
    BY <1>1, <1>2, <1>3, <2>1, <2>2, <2>3 DEF CleanOf
<1>7. CASE EndScan(p)
  <2> DEFINE r == scan[p].repo
  <2>1. /\ tx' = db' /\ db'.services \subseteq tx.services
        /\ db'.schemas = {} /\ writer' = NoWriter /\ scan' = scan
        /\ pc'[p] = "cleaning"
        /\ gone' = [gone EXCEPT ![r] =
             (@ \ FilesOf(scan[p].found)) \cup scan[p].gone]
    BY <1>1, <1>7, Committing, ClosedSchemas DEF EndScan, Goto, FilesOf
  <2>2. ASSUME NEW s \in db'.services, s.file \in gone'[s.repo]
        PROVE  YetToGo(p, s)'
    <3>1. s \in tx.services
      BY <2>1
    <3>2. s.file \in gone[s.repo] => s.repo = r /\ s.file \in FilesOf(scan[p].found)
      BY <1>1, <1>2, <3>1 DEF FoundAgain
    <3>3. CASE s.repo # r
      BY <1>1, <2>1, <2>2, <3>2, <3>3
    <3>4. CASE s.repo = r
      <4>1. r \in Repos
        BY <1>1, <1>2, WriterKnown
      <4>2. s.file \in scan[p].gone
        BY <1>1, <2>1, <2>2, <3>2, <3>4, <4>1
      <4> QED
        BY <2>1, <3>4, <4>2 DEF YetToGo, CleaningUp
    <3> QED
      BY <3>3, <3>4
  <2> QED
    BY <2>1, <2>2, ConstantsAssumption DEF CleanOf
<1> QED
  BY <1>4, <1>5, <1>6, <1>7 DEF Transaction

LEMMA CleanCleanUp ==
  ASSUME Undisturbed, CleanInv, NEW p \in Scanners, CleanUp(p)
  PROVE  CleanOf(p)'
<1> DEFINE r == scan[p].repo
           path == scan[p].path
<1>1. /\ IInv /\ db.schemas = {} /\ tx.schemas = {} /\ db \in Tables
      /\ pc \in [Scanners -> {"idle", "begun", "persisted", "cleaning", "dropping"}]
      /\ scan \in [Scanners -> Call] /\ doomed \in [Scanners -> SUBSET ServiceId]
      /\ \A s \in db.services : s.file \in gone[s.repo] => YetToGo(p, s)
      /\ pc[p] = "dropping" => Released(p)
  BY CleanFacts
<1>2. pc[p] \in {"cleaning", "dropping"} /\ writer = NoWriter /\ tx = db
  BY CleanFacts DEF CleanUp, SelectGone, DropConnectionsOf, DropServicesOf,
     CleanUpThrew, Return
<1>3. \A conns : ~HaveSchemas(db, conns)
  BY <1>1 DEF HaveSchemas
<1>4. CASE SelectGone(p)
  <2>1. /\ UNCHANGED <<db, tx, writer, gone>> /\ pc[p] = "cleaning"
        /\ pc'[p] = "dropping"
    BY <1>1, <1>4 DEF SelectGone, Goto
  <2>2. PICK f \in scan[p].gone :
          /\ scan' = [scan EXCEPT ![p].gone = @ \ {f}, ![p].path = f]
          /\ doomed' = [doomed EXCEPT ![p] = Ids(DoomedBy(p, f))]
    BY <1>4 DEF SelectGone
  <2>3. /\ scan'[p].gone = scan[p].gone \ {f} /\ scan'[p].path = f
        /\ scan'[p].repo = r /\ doomed'[p] = Ids(DoomedBy(p, f))
    BY <1>1, <2>2 DEF Call
  <2>4. ASSUME NEW s \in db'.services, s.file \in gone'[s.repo]
        PROVE  YetToGo(p, s)'
    BY <1>1, <2>1, <2>3, <2>4 DEF YetToGo, CleaningUp
  <2>5. Released(p)'
    <3>1. \A s \in DoomedBy(p, scan[p].path)' : s \in DoomedBy(p, f)
      BY <2>1, <2>3 DEF DoomedBy, ServicesOf
    <3>2. \A s \in DoomedBy(p, f) : s.id \in doomed'[p]
      BY <2>3 DEF Ids
    <3> QED
      BY <3>1, <3>2 DEF Released
  <2> QED
    BY <1>1, <1>2, <2>1, <2>4, <2>5, ConstantsAssumption DEF CleanOf
<1>5. CASE DropConnectionsOf(p)
  <2>1. PICK id \in doomed[p] :
          /\ db' = DropConnections(db, Touching(db, {id})) /\ tx' = db'
          /\ doomed' = [doomed EXCEPT ![p] = @ \ {id}]
    BY <1>5 DEF DropConnectionsOf, Commit
  <2>2. /\ UNCHANGED <<writer, pc, scan, gone>> /\ pc[p] = "dropping"
        /\ doomed'[p] = doomed[p] \ {id}
    BY <1>1, <1>5, <2>1 DEF DropConnectionsOf
  <2>3. /\ db'.services = db.services /\ db'.schemas = {}
        /\ db'.connections = db.connections \ Touching(db, {id})
    BY <1>1, <2>1 DEF DropConnections, Tables
  <2>4. Released(p)'
    <3>1. ASSUME NEW s \in DoomedBy(p, path)
          PROVE  s.id \in doomed'[p] \/ Touching(db', {s.id}) = {}
      <4>1. s.id \in doomed[p] \/ Touching(db, {s.id}) = {}
        BY <1>1, <2>2 DEF Released
      <4>2. Touching(db', {id}) = {}
        BY <2>3 DEF Touching
      <4>3. Touching(db', {s.id}) \subseteq Touching(db, {s.id})
        BY <2>3 DEF Touching
      <4> QED
        BY <2>2, <4>1, <4>2, <4>3
    <3>2. DoomedBy(p, scan[p].path)' = DoomedBy(p, path)
      BY <2>2, <2>3 DEF DoomedBy, ServicesOf
    <3> QED
      BY <3>1, <3>2 DEF Released
  <2>5. ASSUME NEW s \in db'.services, s.file \in gone'[s.repo]
        PROVE  YetToGo(p, s)'
    BY <1>1, <2>2, <2>3, <2>5 DEF YetToGo, CleaningUp
  <2> QED
    BY <1>2, <2>1, <2>2, <2>3, <2>4, <2>5, ConstantsAssumption DEF CleanOf
<1>6. CASE DropServicesOf(p)
  <2>1. /\ db' = DropServices(db, DoomedBy(p, path)) /\ tx' = db'
        /\ UNCHANGED <<writer, scan, gone>>
        /\ pc[p] = "dropping" /\ pc'[p] = "cleaning"
    BY <1>1, <1>6 DEF DropServicesOf, Commit, Goto
  <2>2. db'.services = db.services \ DoomedBy(p, path) /\ db'.schemas = {}
    BY <1>1, <2>1 DEF DropServices, Tables
  <2>3. ASSUME NEW s \in db'.services, s.file \in gone'[s.repo]
        PROVE  YetToGo(p, s)'
    <3>1. /\ s.repo = r
          /\ s.file \in scan[p].gone \/ s.file = path
      BY <1>1, <2>1, <2>2, <2>3 DEF YetToGo
    <3>2. s.file # path
      BY <2>2, <3>1 DEF DoomedBy, ServicesOf
    <3> QED
      BY <2>1, <3>1, <3>2 DEF YetToGo, CleaningUp
  <2> QED
    BY <1>2, <2>1, <2>2, <2>3, ConstantsAssumption DEF CleanOf
<1>7. ~CleanUpThrew(p)
  <2> SUFFICES ASSUME CleanUpThrew(p) PROVE FALSE
    OBVIOUS
  <2>1. /\ pc[p] = "dropping" /\ doomed[p] = {}
        /\ Touching(db, Ids(DoomedBy(p, path))) # {}
    BY <1>2, <1>3 DEF CleanUpThrew
  <2>2. PICK s \in DoomedBy(p, path) : Touching(db, {s.id}) # {}
    BY <2>1 DEF Touching, Ids
  <2> QED
    BY <1>1, <2>1, <2>2 DEF Released
<1>8. CASE Return(p)
  <2>1. /\ UNCHANGED <<db, tx, writer, gone>> /\ pc'[p] = "idle"
        /\ pc[p] = "cleaning" /\ scan[p].gone = {}
    BY <1>1, <1>8 DEF Return, Goto
  <2>2. \A s \in db.services : s.file \notin gone[s.repo]
    BY <1>1, <2>1 DEF YetToGo
  <2> QED
    BY <1>1, <1>2, <2>1, <2>2, ConstantsAssumption DEF CleanOf
<1> QED
  BY <1>4, <1>5, <1>6, <1>7, <1>8 DEF CleanUp

LEMMA CleanNext ==
  ASSUME Undisturbed, CleanInv, [Next]_vars
  PROVE  CleanInv'
<1>0. IInv /\ \A p \in Scanners : CleanOf(p)
  BY CleanFacts DEF CleanInv, CleanOf
<1>1. IInv'
  BY <1>0, InvNext
<1>2. ASSUME NEW p \in Scanners, CleanOf(p)' PROVE CleanInv'
  BY <1>1, <1>2 DEF CleanInv, CleanOf, Undisturbed, Alone
<1>3. ASSUME NEW p \in Scanners,
             \E r \in Repos, mode \in Modes, f \in Findings, lost \in SUBSET Files :
               BeginScan(p, r, mode, f, lost)
      PROVE  CleanOf(p)'
  <2>1. PICK r \in Repos, mode \in Modes, f \in Findings, lost \in SUBSET Files :
          BeginScan(p, r, mode, f, lost)
    BY <1>3
  <2>2. /\ pc[p] = "idle" /\ pc'[p] = "begun" /\ UNCHANGED <<db, gone>>
    BY <2>1, CleanFacts DEF BeginScan, Goto
  <2>3. \A s \in db.services : s.file \notin gone[s.repo]
    BY <2>2, CleanFacts DEF CleaningUp
  <2>4. Homed(tx', db) /\ tx'.schemas = {} /\ db.schemas = {}
    BY <1>0, <2>1, BegunHomes DEF CleanInv
  <2>5. FoundAgain(p)'
    BY <2>2, <2>3, <2>4 DEF Homed, FoundAgain
  <2> QED
    BY <2>2, <2>3, <2>4, <2>5 DEF CleanOf
<1>4. ASSUME NEW p \in Scanners, Crash(p) PROVE FALSE
  BY <1>0, <1>4 DEF Crash, Undisturbed, IInv, TypeOK
<1>5. ASSUME NEW o \in Staged, Correct(o) PROVE CleanInv'
  <2>1. /\ db' = [db EXCEPT !.overrides = Append(@, o)] /\ tx' = db'
        /\ writer = NoWriter
        /\ UNCHANGED <<writer, pc, scan, handled, doomed, outcome, gone, crashes>>
    BY <1>5 DEF Correct, Commit
  <2>2. /\ db'.services = db.services /\ db'.connections = db.connections
        /\ db'.schemas = db.schemas
    BY <1>0, <2>1 DEF IInv, TypeOK, Tables
  <2>3. ASSUME NEW p \in Scanners PROVE Released(p) => Released(p)'
    BY <2>1, <2>2 DEF Released, DoomedBy, ServicesOf, Touching
  <2>4. \A p \in Scanners : \A s : YetToGo(p, s) => YetToGo(p, s)'
    BY <2>1 DEF YetToGo, CleaningUp
  <2> QED
    BY <1>1, <2>1, <2>2, <2>3, <2>4, ConstantsAssumption DEF CleanInv
<1>6. CASE UNCHANGED vars
  BY <1>1, <1>6 DEF vars, CleanInv, YetToGo, CleaningUp, FoundAgain, Released,
     DoomedBy, ServicesOf, Touching
<1> QED
  BY <1>2, <1>3, <1>4, <1>5, <1>6, CleanTransaction, CleanCleanUp DEF Next

(* With one scanner that is not killed, and no schema in its way, the      *)
(* clean-up leaves no service of a file that is known to be gone, however  *)
(* many files go and come back, and whatever is renamed in between.        *)
THEOREM GoneFilesGo == Undisturbed => (Spec => []GoneFilesHaveNoServices)
<1> SUFFICES ASSUME Undisturbed PROVE Spec => []GoneFilesHaveNoServices
  OBVIOUS
<1>1. ASSUME Init PROVE CleanInv
  <2>1. db.schemas = {} /\ tx.schemas = {}
    <3>1. EmptyDb.schemas = {}
      BY DEF EmptyDb
    <3>2. \A r, n, f, v : LegacyDb(r, n, f, v).schemas = {}
      BY DEF LegacyDb, EmptyDb
    <3> QED
      BY <1>1, <3>1, <3>2 DEF Init, LegacyDbs
  <2>2. \A s \in db.services : s.repo \in Repos
    BY <1>1, InitSound, TablesFields DEF IInv, TypeOK, Service
  <2> QED
    BY <1>1, <2>1, <2>2, InitSound, ConstantsAssumption DEF Init, CleanInv
<1>2. CleanInv /\ [Next]_vars => CleanInv'
  BY CleanNext
<1>3. CleanInv => GoneFilesHaveNoServices
  BY DEF CleanInv, GoneFilesHaveNoServices, YetToGo, CleaningUp
<1> QED
  BY <1>1, <1>2, <1>3, PTL DEF Spec

=============================================================================
