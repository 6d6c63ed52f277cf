--------------------------- MODULE MapServerProofs ---------------------------
(***************************************************************************)
(* What is proved of the servers, for any projects, any paths of their     *)
(* repositories, any routes and tools, and any times to live.              *)
(***************************************************************************)
EXTENDS MapServerProps, SequenceTheorems, TLAPS

-----------------------------------------------------------------------------
(* The inductive invariant.                                                *)

Contents == [repos : SUBSET Repos, scanned : BOOLEAN]

(* A project's database is a file that was created, and of that project    *)
(* alone.                                                                  *)
DiskSound ==
  /\ rows \in Seq(Contents)
  /\ \A p \in Projects : Exists(p) => disk[p] \in DOMAIN rows
  /\ \A p, q \in Projects : Exists(p) /\ disk[p] = disk[q] => p = q

(* A handle is open, one of its project and one of its file, and carries   *)
(* the key of the project that the file belongs to.                        *)
Live(e) ==
  /\ e.file \in DOMAIN rows /\ e.open
  /\ e.idle <= IdleTTL + sinceSweep

SoundPool(entries) ==
  /\ entries \subseteq Handle
  /\ \A e \in entries : Live(e)
  /\ \A e, f \in entries : e.key = f.key \/ e.file = f.file => e = f
  /\ \A e \in entries, p \in Projects : disk[p] = e.file => e.key = <<p>>

IInv == TypeOK /\ DiskSound /\ SoundPool(pool) /\ ListFresh

-----------------------------------------------------------------------------
(* What a lookup returns, and what it makes of the pool.                   *)

Sound(found) ==
  /\ SoundPool(found.pool)
  /\ \/ found.engine = NoEngine
     \/ /\ found.engine \in Handle /\ Live(found.engine)
        /\ \A p \in Projects :
             disk[p] = found.engine.file => found.engine.key = <<p>>

LEMMA HandleFacts ==
  ASSUME NEW e \in Handle
  PROVE  /\ e.file \in 1 .. MaxFiles /\ e.open \in BOOLEAN /\ e.idle \in Nat
         /\ e.file # NoFile /\ e # NoEngine
         /\ e.key \in {<<p>> : p \in Projects}
BY ConstantsAssumption DEF ConstantsAssumption, Handle

LEMMA FilesCreated ==
  ASSUME IInv
  PROVE  /\ DOMAIN rows = 1 .. Len(rows) /\ Len(rows) \in Nat
         /\ DOMAIN rows \subseteq 1 .. MaxFiles /\ NoFile \notin DOMAIN rows
<1>1. Len(rows) \in Nat /\ DOMAIN rows = 1 .. Len(rows) /\ Len(rows) <= MaxFiles
  BY DEF IInv, DiskSound, TypeOK
<1>2. MaxFiles \in Nat /\ NoFile \notin 1 .. MaxFiles
  BY ConstantsAssumption DEF ConstantsAssumption
<1> QED
  BY <1>1, <1>2

LEMMA TouchKeeps ==
  ASSUME IInv, NEW entries, SoundPool(entries), NEW e \in entries
  PROVE  Sound(Found(Touched(entries, e), e))
<1> DEFINE t == [e EXCEPT !.idle = 0]
<1>1. e \in Handle /\ Live(e) /\ sinceSweep \in Nat /\ IdleTTL \in Nat
  BY ConstantsAssumption DEF SoundPool, IInv, TypeOK, ConstantsAssumption
<1>2. t \in Handle /\ t.key = e.key /\ t.file = e.file /\ t.open = e.open /\ t.idle = 0
  BY <1>1 DEF Handle
<1>3. Live(t)
  BY <1>1, <1>2 DEF Live
<1> HIDE DEF t
<1>4. SoundPool((entries \ {e}) \cup {t})
  BY <1>2, <1>3 DEF SoundPool
<1>5. \A p \in Projects : disk[p] = e.file => e.key = <<p>>
  BY DEF SoundPool
<1> DEFINE found == Found(Touched(entries, e), e)
<1>6. found.engine = e /\ SoundPool(found.pool)
  BY <1>4 DEF Touched, Found, t
<1> HIDE DEF found
<1>7. Sound(found)
  BY <1>1, <1>5, <1>6 DEF Sound
<1> QED
  BY <1>7 DEF found

LEMMA MissKeeps ==
  ASSUME NEW entries, SoundPool(entries)
  PROVE  Sound(Miss(entries)) /\ Sound([Miss(entries) EXCEPT !.threw = TRUE])
BY DEF Miss, Found, Sound

(* Opening the database of a project that has no handle yet.               *)
LEMMA OpeningKeeps ==
  ASSUME IInv, NEW entries, SoundPool(entries), NEW p \in Projects, Exists(p),
         Cached(entries, <<p>>) = {}
  PROVE  \A found \in Opening(entries, <<p>>, p) : Sound(found)
<1> DEFINE n == Entry(<<p>>, p)
<1>1. disk[p] \in DOMAIN rows /\ disk[p] \in 1 .. MaxFiles
  BY FilesCreated DEF IInv, DiskSound
<1>2. n \in Handle /\ n.key = <<p>> /\ n.file = disk[p] /\ n.open /\ n.idle = 0
  BY <1>1 DEF Entry, Handle
<1>3. Live(n)
  BY <1>1, <1>2, ConstantsAssumption DEF Live, IInv, TypeOK, ConstantsAssumption
<1>4. \A e \in entries : e.key # <<p>> /\ e.file # disk[p]
  BY DEF Cached, SoundPool
<1>5. \A q \in Projects : disk[q] = disk[p] => q = p
  BY DEF IInv, DiskSound
<1> HIDE DEF n
<1>6. SoundPool(entries \cup {n})
  BY <1>2, <1>3, <1>4, <1>5 DEF SoundPool
<1> DEFINE found == Found(entries \cup {n}, n)
<1>7. found.engine = n /\ SoundPool(found.pool)
  BY <1>6 DEF Found
<1>8. \A q \in Projects : disk[q] = n.file => n.key = <<q>>
  BY <1>2, <1>5
<1> HIDE DEF found
<1>9. Sound(found)
  BY <1>2, <1>3, <1>7, <1>8 DEF Sound
<1> QED
  BY <1>9, MissKeeps DEF Opening, n, found

LEMMA ByRootKeeps ==
  ASSUME IInv, NEW entries, SoundPool(entries), NEW root
  PROVE  \A found \in GetQueryEngine(entries, root) : Sound(found)
<1>1. CASE Cached(entries, Key(root)) # {}
  BY <1>1, TouchKeeps DEF GetQueryEngine, Cached
<1>2. CASE /\ Cached(entries, Key(root)) = {}
           /\ root.path \in Projects /\ Exists(root.path)
  BY <1>2, OpeningKeeps DEF GetQueryEngine, Key
<1>3. CASE /\ Cached(entries, Key(root)) = {}
           /\ ~(root.path \in Projects /\ Exists(root.path))
  BY <1>3, MissKeeps DEF GetQueryEngine
<1> QED
  BY <1>1, <1>2, <1>3

LEMMA ByHashKeeps ==
  ASSUME IInv, NEW entries, SoundPool(entries), NEW p \in Projects
  PROVE  \A found \in GetQueryEngineByHash(entries, p) : Sound(found)
<1>1. CASE ~Exists(p)
  BY <1>1, MissKeeps DEF GetQueryEngineByHash
<1>2. CASE Exists(p) /\ Cached(entries, <<p>>) # {}
  BY <1>2, TouchKeeps DEF GetQueryEngineByHash, Cached
<1>3. CASE Exists(p) /\ Cached(entries, <<p>>) = {}
  BY <1>3, OpeningKeeps DEF GetQueryEngineByHash
<1> QED
  BY <1>1, <1>2, <1>3

LEMMA OpenMatchKeeps ==
  ASSUME IInv, NEW entries, SoundPool(entries), NEW p \in Projects
  PROVE  \A found \in OpenMatch(entries, p) : Sound(found)
<1>1. ASSUME NEW by \in GetQueryEngine(entries, GuessedRoot(p))
      PROVE  \A found \in OrByHash(by, p) : Sound(found)
  <2>1. Sound(by)
    BY ByRootKeeps
  <2> QED
    BY <2>1, ByHashKeeps DEF OrByHash, Sound
<1> QED
  BY <1>1 DEF OpenMatch

LEMMA ByNameKeeps ==
  ASSUME IInv, NEW entries, SoundPool(entries), NEW name
  PROVE  \A found \in GetQueryEngineByRepo(entries, name) : Sound(found)
<1> DEFINE having == {e \in entries : e.open /\ HasRepo(e.file, name)}
<1>1. \A e \in having : Sound(Found(entries, e))
  BY DEF Found, Sound, SoundPool
<1>2. \A p \in Holding(name) : \A found \in OpenMatch(entries, p) : Sound(found)
  BY OpenMatchKeeps DEF Holding
<1>3. CASE having # {}
  BY <1>1, <1>3 DEF GetQueryEngineByRepo
<1>4. CASE having = {}
  BY <1>2, <1>4, MissKeeps DEF GetQueryEngineByRepo
<1> QED
  BY <1>3, <1>4

LEMMA GetQEKeeps ==
  ASSUME IInv, NEW by, by.kind = "hash" => by.path \in Projects
  PROVE  \A found \in GetQE(by) : Sound(found)
BY ByRootKeeps, ByHashKeeps, MissKeeps DEF GetQE, IInv

LEMMA ResolveDbKeeps ==
  ASSUME IInv, NEW by, by.kind \in {"none", "root", "hash", "name"},
         by.kind = "hash" => by.path \in Projects
  PROVE  \A found \in ResolveDb(by) : Sound(found)
<1>1. SoundPool(pool)
  BY DEF IInv
<1> QED
  BY <1>1, ByRootKeeps, ByHashKeeps, ByNameKeeps, MissKeeps DEF ResolveDb

-----------------------------------------------------------------------------
(* Every step preserves the invariant.                                     *)

LEMMA MinOfTwo ==
  ASSUME NEW m \in Nat, NEW n \in Nat
  PROVE  Min({m, n}) \in Nat /\ Min({m, n}) = IF m <= n THEN m ELSE n
<1>1. \E x \in {m, n} : \A y \in {m, n} : x <= y
  OBVIOUS
<1> QED
  BY <1>1 DEF Min

(* The pool stays sound when files appear, grow and are removed.           *)
LEMMA PoolStays ==
  ASSUME IInv, SoundPool(pool'), UNCHANGED sinceSweep,
         DOMAIN rows \subseteq DOMAIN rows',
         \A p \in Projects : disk'[p] = disk[p] \/ disk'[p] \notin DOMAIN rows
  PROVE  SoundPool(pool)'
<1>1. \A e \in pool' : e.file \in DOMAIN rows
  BY DEF SoundPool, Live
<1>2. pool' \subseteq Handle /\ \A e \in pool' : Live(e)'
  BY DEF SoundPool, Live
<1>3. \A e, f \in pool' : e.key = f.key \/ e.file = f.file => e = f
  BY DEF SoundPool
<1>4. \A e \in pool', p \in Projects : disk'[p] = e.file => e.key = <<p>>
  BY <1>1 DEF SoundPool
<1> QED
  BY <1>2, <1>3, <1>4 DEF SoundPool

LEMMA AddedType ==
  ASSUME IInv, NEW f \in DOMAIN rows, NEW R \in SUBSET Repos, NEW b \in BOOLEAN
  PROVE  Added(f, R, b) \in Seq(Contents) /\ Len(Added(f, R, b)) = Len(rows)
<1>1. rows \in Seq(Contents) /\ f \in 1 .. Len(rows) /\ rows[f] \in Contents
  BY FilesCreated DEF IInv, DiskSound
<1>2. Holds(rows[f].repos \cup R, rows[f].scanned \/ b) \in Contents
  BY <1>1 DEF Contents, Holds
<1> QED
  BY <1>1, <1>2, ExceptSeq DEF Added

LEMMA ListedStays ==
  ASSUME UNCHANGED <<disk, rows>>
  PROVE  ListProjectsInternal' = ListProjectsInternal
BY DEF ListProjectsInternal, Shown, Exists

(* A request: the pool is what the lookup left, and a scan may have added  *)
(* to a file.                                                              *)
LEMMA AnswerKeeps ==
  ASSUME IInv, SoundPool(pool'), UNCHANGED <<server, disk, list, sinceSweep>>,
         \/ UNCHANGED <<rows, unchanged>>
         \/ /\ rows' \in Seq(Contents) /\ Len(rows') = Len(rows)
            /\ unchanged' = 0
  PROVE  IInv'
<1>1. rows' \in Seq(Contents) /\ DOMAIN rows' = DOMAIN rows /\ Len(rows') = Len(rows)
  BY FilesCreated DEF IInv, DiskSound
<1>2. SoundPool(pool)'
  BY <1>1, PoolStays
<1>3. DiskSound'
  BY <1>1 DEF IInv, DiskSound, Exists
<1>4. \A i \in DOMAIN rows' : rows'[i] \in Contents
  BY <1>1
<1>5. unchanged' \in 0 .. ListTTL /\ ListTTL \in Nat
  BY ConstantsAssumption DEF ConstantsAssumption, IInv, TypeOK
<1>6. TypeOK'
  BY <1>1, <1>2, <1>4, <1>5 DEF IInv, TypeOK, SoundPool, Live, Contents
<1>7. ListFresh'
  <2>1. CASE UNCHANGED <<rows, unchanged>>
    BY <2>1, ListedStays DEF IInv, ListFresh
  <2>2. CASE unchanged' = 0
    BY <2>2, <1>6 DEF ListFresh, TypeOK
  <2> QED
    BY <2>1, <2>2
<1> QED
  BY <1>2, <1>3, <1>6, <1>7 DEF IInv

LEMMA GetKeeps ==
  ASSUME IInv, NEW route, NEW by \in Questions, Get(route, by)
  PROVE  IInv'
<1>1. by.kind = "hash" => by.path \in Projects
  BY DEF Questions
<1>2. PICK found \in GetQE(by) : pool' = found.pool
  BY DEF Get
<1>3. SoundPool(pool')
  BY <1>1, <1>2, GetQEKeeps DEF Sound
<1> QED
  BY <1>3, AnswerKeeps DEF Get

LEMMA PostScanKeeps ==
  ASSUME IInv, NEW by, by.kind \in {"root", "none"}, NEW repo \in Repos,
         NEW valid \in BOOLEAN, PostScan(by, repo, valid)
  PROVE  IInv'
<1>1. PICK found \in GetQE(by) :
        /\ pool' = found.pool
        /\ \/ rows' = rows
           \/ /\ found.engine # NoEngine
              /\ \E b \in BOOLEAN : rows' = Added(found.engine.file, {repo}, b)
  BY DEF PostScan
<1>2. Sound(found)
  BY GetQEKeeps
<1>3. SoundPool(pool')
  BY <1>1, <1>2 DEF Sound
<1>4. CASE rows' = rows
  BY <1>3, <1>4, AnswerKeeps DEF PostScan
<1>5. CASE rows' # rows
  <2>1. found.engine.file \in DOMAIN rows
    BY <1>1, <1>2, <1>5 DEF Sound, Live
  <2>2. rows' \in Seq(Contents) /\ Len(rows') = Len(rows)
    BY <1>1, <1>5, <2>1, AddedType
  <2> QED
    BY <1>3, <1>5, <2>2, AnswerKeeps DEF PostScan
<1> QED
  BY <1>4, <1>5

LEMMA CallToolKeeps ==
  ASSUME IInv, NEW tool, NEW by \in ToolQuestions, CallTool(tool, by)
  PROVE  IInv'
<1>1. /\ by.kind \in {"none", "root", "hash", "name"}
      /\ by.kind = "hash" => by.path \in Projects
  BY DEF ToolQuestions
<1>2. PICK found \in ResolveDb(by) : pool' = found.pool
  BY DEF CallTool
<1>3. SoundPool(pool')
  BY <1>1, <1>2, ResolveDbKeeps DEF Sound
<1> QED
  BY <1>3, AnswerKeeps DEF CallTool

LEMMA GetProjectsKeeps ==
  ASSUME IInv, GetProjects
  PROVE  IInv'
<1>1. UNCHANGED <<server, disk, rows, pool, sinceSweep, unchanged>>
  BY DEF GetProjects
<1>2. \/ list' = list
      \/ list' = [value |-> ListProjectsInternal, age |-> 0]
  BY DEF GetProjects, ListProjects
<1>3. ListProjectsInternal \subseteq Projects /\ ListTTL \in Nat
  BY ConstantsAssumption DEF ListProjectsInternal, ConstantsAssumption
<1>4. TypeOK'
  BY <1>1, <1>2, <1>3 DEF IInv, TypeOK
<1>5. ListFresh'
  BY <1>1, <1>2, ListedStays DEF IInv, ListFresh
<1>6. DiskSound' /\ SoundPool(pool)'
  BY <1>1 DEF IInv, DiskSound, Exists, SoundPool, Live
<1> QED
  BY <1>4, <1>5, <1>6 DEF IInv

LEMMA MapKeeps ==
  ASSUME IInv, NEW p \in Projects, NEW R \in SUBSET ReposOf[p],
         NEW b \in BOOLEAN, Map(p, R, b)
  PROVE  IInv'
<1>1. R \in SUBSET Repos
  BY DEF Repos
<1>2. SoundPool(pool') /\ UNCHANGED <<server, pool, list, sinceSweep>>
  BY DEF Map, IInv
<1>3. CASE Exists(p)
  <2>1. Added(disk[p], R, b) \in Seq(Contents) /\ Len(Added(disk[p], R, b)) = Len(rows)
    BY <1>1, <1>3, AddedType DEF IInv, DiskSound
  <2> QED
    BY <1>2, <1>3, <2>1, AnswerKeeps DEF Map
<1>4. CASE ~Exists(p)
  <2> DEFINE n == Len(rows) + 1
             c == Holds(R, b)
  <2>1. /\ Len(rows) < MaxFiles /\ rows' = Append(rows, c)
        /\ disk' = [disk EXCEPT ![p] = n] /\ unchanged' = 0
    BY <1>4 DEF Map
  <2>2. c \in Contents
    BY <1>1 DEF Contents, Holds
  <2>3. /\ rows' \in Seq(Contents) /\ Len(rows') = n /\ DOMAIN rows' = 1 .. n
        /\ n \in 1 .. MaxFiles /\ n \notin DOMAIN rows
        /\ DOMAIN rows \subseteq DOMAIN rows'
    BY <2>1, <2>2, FilesCreated, ConstantsAssumption
       DEF IInv, DiskSound, ConstantsAssumption
  <2> HIDE DEF n, c
  <2>4. disk \in [Projects -> 1 .. MaxFiles \cup {NoFile}]
    BY DEF IInv, TypeOK
  <2>5. SoundPool(pool)'
    BY <1>2, <2>1, <2>3, <2>4, PoolStays
  <2>6. DiskSound'
    <3>1. \A q \in Projects : disk[q] # NoFile => disk[q] \in DOMAIN rows
      BY DEF IInv, DiskSound, Exists
    <3>2. n # NoFile
      BY <2>3, FilesCreated, ConstantsAssumption DEF ConstantsAssumption
    <3> QED
      BY <2>1, <2>3, <2>4, <3>1, <3>2 DEF IInv, DiskSound, Exists
  <2>7. TypeOK'
    <3>1. \A i \in DOMAIN rows' : rows'[i] \in Contents
      BY <2>3
    <3>2. 0 \in 0 .. ListTTL /\ MaxFiles \in Nat
      BY ConstantsAssumption DEF ConstantsAssumption
    <3>3. disk' \in [Projects -> 1 .. MaxFiles \cup {NoFile}]
      BY <2>1, <2>3, <2>4
    <3>4. Len(rows') <= MaxFiles
      BY <2>3, <3>2
    <3> QED
      BY <1>2, <2>1, <2>5, <3>1, <3>2, <3>3, <3>4
         DEF IInv, TypeOK, SoundPool, Live, Contents
  <2>8. ListFresh'
    BY <1>2, <2>1, <2>7 DEF ListFresh, TypeOK
  <2> QED
    BY <2>5, <2>6, <2>7, <2>8 DEF IInv
<1> QED
  BY <1>3, <1>4

LEMMA RemoveMapKeeps ==
  ASSUME IInv, NEW p \in Projects, RemoveMap(p)
  PROVE  IInv'
<1>1. /\ disk' = [disk EXCEPT ![p] = NoFile] /\ unchanged' = 0
      /\ UNCHANGED <<server, rows, pool, list, sinceSweep>>
      /\ disk \in [Projects -> 1 .. MaxFiles \cup {NoFile}]
  BY DEF RemoveMap, IInv, TypeOK
<1>2. NoFile \notin DOMAIN rows /\ ListTTL \in Nat
  BY FilesCreated, ConstantsAssumption DEF ConstantsAssumption
<1>3. SoundPool(pool')
  BY <1>1 DEF IInv
<1>4. SoundPool(pool)'
  BY <1>1, <1>2, <1>3, PoolStays
<1>5. DiskSound'
  BY <1>1 DEF IInv, DiskSound, Exists
<1>6. TypeOK'
  BY <1>1, <1>2 DEF IInv, TypeOK
<1>7. ListFresh'
  BY <1>1, <1>6 DEF ListFresh, TypeOK
<1> QED
  BY <1>4, <1>5, <1>6, <1>7 DEF IInv

LEMMA TickKeeps ==
  ASSUME IInv, Tick
  PROVE  IInv'
<1> DEFINE Older(e) == [e EXCEPT !.idle = @ + 1]
<1>1. /\ sinceSweep' = sinceSweep + 1 /\ sinceSweep < SweepEvery
      /\ UNCHANGED <<server, disk, rows>>
      /\ {IdleTTL, SweepEvery, ListTTL} \subseteq Nat /\ sinceSweep \in Nat
      /\ unchanged \in 0 .. ListTTL
  BY ConstantsAssumption DEF Tick, ConstantsAssumption, IInv, TypeOK
<1>2. pool' = {Older(e) : e \in pool}
  BY DEF Tick
<1>3. ASSUME NEW e \in pool
      PROVE  /\ Older(e) \in Handle /\ Older(e).key = e.key
             /\ Older(e).file = e.file /\ Older(e).open = e.open
             /\ Older(e).idle = e.idle + 1
  BY DEF IInv, SoundPool, Handle
<1> HIDE DEF Older
<1>4. ASSUME NEW e \in pool
      PROVE  /\ Older(e).file \in DOMAIN rows' /\ Older(e).open
             /\ Older(e).idle <= IdleTTL + sinceSweep'
  <2>1. /\ e.file \in DOMAIN rows /\ e.open /\ e.idle <= IdleTTL + sinceSweep
        /\ e.idle \in Nat
    BY HandleFacts DEF IInv, SoundPool, Live
  <2>2. e.idle + 1 <= IdleTTL + sinceSweep'
    BY <1>1, <2>1
  <2> QED
    BY <1>1, <1>3, <2>1, <2>2
<1>5. SoundPool(pool)'
  <2>1. pool' \subseteq Handle /\ \A x \in pool' : Live(x)'
    BY <1>2, <1>3, <1>4 DEF Live
  <2>2. \A x, y \in pool' : x.key = y.key \/ x.file = y.file => x = y
    BY <1>2, <1>3 DEF IInv, SoundPool
  <2>3. \A x \in pool', p \in Projects : disk'[p] = x.file => x.key = <<p>>
    BY <1>1, <1>2, <1>3 DEF IInv, SoundPool
  <2> QED
    BY <2>1, <2>2, <2>3 DEF SoundPool
<1>6. unchanged' = IF unchanged + 1 <= ListTTL THEN unchanged + 1 ELSE ListTTL
  BY <1>1, MinOfTwo DEF Tick
<1>7. \/ list' = NoList
      \/ /\ list # NoList /\ list'.value = list.value
         /\ list'.age = IF list.age + 1 <= ListTTL THEN list.age + 1 ELSE ListTTL
  <2>1. CASE list = NoList
    BY <2>1 DEF Tick
  <2>2. CASE list # NoList
    <3>1. list.age \in Nat
      BY <2>2 DEF IInv, TypeOK
    <3>2. list' = [list EXCEPT !.age = Min({list.age + 1, ListTTL})]
      BY <2>2 DEF Tick
    <3> QED
      BY <1>1, <2>2, <3>1, <3>2, MinOfTwo
  <2> QED
    BY <2>1, <2>2
<1>8. TypeOK'
  BY <1>1, <1>5, <1>6, <1>7 DEF IInv, TypeOK, SoundPool, Live
<1>9. ListFresh'
  BY <1>1, <1>6, <1>7, ListedStays DEF IInv, TypeOK, ListFresh
<1>10. DiskSound'
  BY <1>1 DEF IInv, DiskSound, Exists
<1> QED
  BY <1>5, <1>8, <1>9, <1>10 DEF IInv

(* Closing handles, all of them or those that nobody asked for.            *)
LEMMA ClosingKeeps ==
  ASSUME IInv, SweepIdleEntries \/ CloseAll
  PROVE  IInv'
<1>1. /\ UNCHANGED <<server, disk, rows, unchanged>> /\ sinceSweep' = 0
      /\ pool' \subseteq pool /\ list' \in {list, NoList}
      /\ {IdleTTL, SweepEvery} \subseteq Nat
  BY ConstantsAssumption DEF SweepIdleEntries, CloseAll, Swept, ConstantsAssumption
<1>2. \A e \in pool' : e.idle <= IdleTTL
  <2>1. \A e \in pool : e.idle \in Nat
    BY HandleFacts DEF IInv, SoundPool
  <2> QED
    BY <1>1, <2>1 DEF SweepIdleEntries, CloseAll, Swept, Expired
<1>3. SoundPool(pool)'
  <2>1. \A e \in pool' : Live(e)'
    BY <1>1, <1>2 DEF Live, IInv, SoundPool
  <2> QED
    BY <1>1, <2>1 DEF SoundPool, IInv
<1>4. DiskSound' /\ TypeOK'
  BY <1>1 DEF IInv, DiskSound, Exists, TypeOK
<1>5. ListFresh'
  BY <1>1, ListedStays DEF IInv, ListFresh
<1> QED
  BY <1>3, <1>4, <1>5 DEF IInv

LEMMA InitSound == Init => IInv
<1> SUFFICES ASSUME Init PROVE IInv
  OBVIOUS
<1>1. {ListTTL, SweepEvery, MaxFiles} \subseteq Nat
  BY ConstantsAssumption DEF ConstantsAssumption
<1>2. TypeOK
  BY <1>1 DEF Init, TypeOK
<1>3. DiskSound /\ SoundPool(pool) /\ ListFresh
  BY DEF Init, DiskSound, Exists, SoundPool, ListFresh
<1> QED
  BY <1>2, <1>3 DEF IInv

LEMMA NextKeeps == IInv /\ [Next]_vars => IInv'
<1> SUFFICES ASSUME IInv, [Next]_vars PROVE IInv'
  OBVIOUS
<1>1. CASE Others
  BY <1>1, MapKeeps, RemoveMapKeeps DEF Others
<1>2. CASE Tick
  BY <1>2, TickKeeps
<1>3. CASE SweepIdleEntries \/ CloseAll
  BY <1>3, ClosingKeeps
<1>4. CASE Request
  <2>1. CASE GetProjects
    BY <2>1, GetProjectsKeeps
  <2>2. CASE CallScan
    <3>1. SoundPool(pool')
      BY <2>2 DEF CallScan, IInv
    <3> QED
      BY <2>2, <3>1, AnswerKeeps DEF CallScan
  <2>3. CASE \E route \in Routes, by \in Questions : Get(route, by)
    BY <2>3, GetKeeps
  <2>4. ASSUME NEW root \in Roots, NEW valid \in BOOLEAN,
               NEW repo \in ReposOf[root.path],
               PostScan([kind |-> "root", root |-> root], repo, valid)
        PROVE  IInv'
    <3>1. repo \in Repos
      BY DEF Repos, Roots
    <3> QED
      BY <2>4, <3>1, PostScanKeeps
  <2>5. ASSUME NEW repo \in Repos, PostScan([kind |-> "none"], repo, TRUE)
        PROVE  IInv'
    <3> DEFINE by == [kind |-> "none"]
               valid == TRUE
    <3>1. by.kind \in {"root", "none"} /\ valid \in BOOLEAN
      OBVIOUS
    <3>2. PostScan(by, repo, valid)
      BY <2>5
    <3> HIDE DEF by, valid
    <3> QED
      BY <3>1, <3>2, PostScanKeeps
  <2>6. CASE \E tool \in Tools, by \in ToolQuestions : CallTool(tool, by)
    BY <2>6, CallToolKeeps
  <2> QED
    BY <1>4, <2>1, <2>2, <2>3, <2>4, <2>5, <2>6 DEF Request
<1>5. CASE UNCHANGED vars
  <2>1. SoundPool(pool') /\ UNCHANGED <<server, disk, list, sinceSweep, rows, unchanged>>
    BY <1>5 DEF vars, IInv
  <2> QED
    BY <2>1, AnswerKeeps
<1> QED
  BY <1>1, <1>2, <1>3, <1>4, <1>5 DEF Next

LEMMA Inductive == Spec => []IInv
<1> QED
  BY InitSound, NextKeeps, PTL DEF Spec

(* The worker and the MCP server keep one open handle per database file,   *)
(* whichever way it was asked for, close what nobody asks for, and never   *)
(* repeat a list of projects past its time to live.                        *)
THEOREM PoolSafe == Spec => []PoolOK
<1>1. IInv => PoolOK
  <2> SUFFICES ASSUME IInv PROVE PoolOK
    OBVIOUS
  <2>1. OneEngine
    BY DEF OneEngine, IInv, SoundPool
  <2>2. IdleClosed
    <3>1. /\ sinceSweep \in Nat /\ sinceSweep <= SweepEvery
          /\ IdleTTL \in Nat /\ SweepEvery \in Nat
      BY ConstantsAssumption DEF ConstantsAssumption, IInv, TypeOK
    <3>2. \A e \in pool : e.idle \in Nat /\ e.idle <= IdleTTL + sinceSweep
      BY HandleFacts DEF IInv, SoundPool, Live
    <3> QED
      BY <3>1, <3>2 DEF IdleClosed
  <2> QED
    BY <2>1, <2>2 DEF PoolOK, IInv
<1> QED
  BY <1>1, Inductive, PTL

-----------------------------------------------------------------------------
(* Who asks is answered.                                                   *)

LEMMA Opened ==
  ASSUME NEW entries, NEW key, NEW p, NEW found \in Opening(entries, key, p)
  PROVE  \/ /\ found.engine = Entry(key, p) /\ found.engine.key = key
            /\ found.engine.file = disk[p]
         \/ found.engine = NoEngine /\ found.threw
<1>1. CASE found = Found(entries \cup {Entry(key, p)}, Entry(key, p))
  BY <1>1 DEF Found, Entry
<1>2. CASE found = [Miss(entries) EXCEPT !.threw = TRUE]
  BY <1>2 DEF Miss, Found
<1> QED
  BY <1>1, <1>2 DEF Opening

LEMMA EntryIsHandle ==
  ASSUME IInv, NEW p \in Projects, Exists(p)
  PROVE  Entry(<<p>>, p) \in Handle /\ Entry(<<p>>, p) # NoEngine
<1>1. disk[p] \in 1 .. MaxFiles
  BY FilesCreated DEF IInv, DiskSound
<1> QED
  BY <1>1, HandleFacts DEF Entry, Handle

LEMMA Missed == \A entries : Miss(entries).engine = NoEngine
BY DEF Miss, Found

LEMMA RootFound ==
  ASSUME IInv, NEW root, NEW found \in GetQueryEngine(pool, root)
  PROVE  /\ found.engine # NoEngine =>
              /\ found.engine.key = <<root.path>>
              /\ found.engine \in pool \/ found.engine.file = disk[root.path]
         /\ found.engine = NoEngine =>
              \/ root.path \notin Projects \/ ~Exists(root.path) \/ found.threw
<1>1. CASE Cached(pool, Key(root)) # {}
  <2>1. PICK e \in pool : e.key = <<root.path>> /\ found.engine = e
    BY <1>1 DEF GetQueryEngine, Cached, Key, Found
  <2>2. e # NoEngine
    BY <2>1, HandleFacts DEF IInv, SoundPool
  <2> QED
    BY <2>1, <2>2
<1>2. CASE /\ Cached(pool, Key(root)) = {}
           /\ root.path \in Projects /\ Exists(root.path)
  <2>1. found \in Opening(pool, <<root.path>>, root.path)
    BY <1>2 DEF GetQueryEngine, Key
  <2> QED
    BY <1>2, <2>1, Opened, EntryIsHandle
<1>3. CASE /\ Cached(pool, Key(root)) = {}
           /\ root.path \notin Projects \/ ~Exists(root.path)
  BY <1>3, Missed DEF GetQueryEngine
<1> QED
  BY <1>1, <1>2, <1>3

LEMMA HashFound ==
  ASSUME IInv, NEW p \in Projects, NEW found \in GetQueryEngineByHash(pool, p)
  PROVE  /\ found.engine # NoEngine =>
              /\ found.engine.key = <<p>>
              /\ found.engine \in pool \/ found.engine.file = disk[p]
         /\ found.engine = NoEngine => ~Exists(p) \/ found.threw
<1>1. CASE Exists(p) /\ Cached(pool, <<p>>) # {}
  <2>1. PICK e \in pool : e.key = <<p>> /\ found.engine = e
    BY <1>1 DEF GetQueryEngineByHash, Cached, Found
  <2>2. e # NoEngine
    BY <2>1, HandleFacts DEF IInv, SoundPool
  <2> QED
    BY <2>1, <2>2
<1>2. CASE Exists(p) /\ Cached(pool, <<p>>) = {}
  <2>1. found \in Opening(pool, <<p>>, p)
    BY <1>2 DEF GetQueryEngineByHash
  <2> QED
    BY <1>2, <2>1, Opened, EntryIsHandle
<1>3. CASE ~Exists(p)
  BY <1>3, Missed DEF GetQueryEngineByHash
<1> QED
  BY <1>1, <1>2, <1>3

(* What a route says of the engine that was found.                         *)
LEMMA RouteAnswers ==
  ASSUME NEW route \in Routes \ {"verify"}, NEW by, NEW e,
         e = NoEngine \/ (e \in Handle /\ e.open),
         NEW status \in Statuses(route, by, e)
  PROVE  /\ status = "500" => route \in {"impact", "service"}
         /\ Denied(status) => e = NoEngine \/ ~rows[e.file].scanned
<1>1. route \in {"quality", "freshness", "graph", "impact", "service", "versions"}
  BY ConstantsAssumption DEF ConstantsAssumption
<1>2. CASE route \in {"quality", "freshness"}
  <2>1. Statuses(route, by, e) = ScanQuality(by, e)
    BY <1>2 DEF Statuses, ScanFreshness
  <2>2. CASE e = NoEngine
    BY <2>1, <2>2 DEF ScanQuality, Denied
  <2>3. CASE e # NoEngine
    <3>1. status \in Completed(e)
      BY <2>1, <2>3 DEF ScanQuality
    <3> QED
      BY <2>3, <3>1 DEF Completed, Denied
  <2> QED
    BY <2>2, <2>3
<1>3. CASE route \in {"graph", "versions"}
  <2>1. Statuses(route, by, e) = Graph(e)
    BY <1>3 DEF Statuses, MapVersions
  <2> QED
    BY <2>1 DEF Graph, Denied
<1>4. CASE route \in {"impact", "service"}
  <2>1. \/ Statuses(route, by, e) = Impact(e)
        \/ Statuses(route, by, e) = Service(e)
    BY <1>4 DEF Statuses
  <2> QED
    BY <1>4, <2>1 DEF Impact, Service, Denied
<1> QED
  BY <1>1, <1>2, <1>3, <1>4

(* What the request of a step asked for.                                   *)
LEMMA OthersAskNothing ==
  ASSUME Others \/ Tick \/ SweepIdleEntries \/ CloseAll
  PROVE  reply'.request.what \notin Routes \cup Tools
<1>1. reply' = NoReply
  BY DEF Others, Map, RemoveMap, Tick, SweepIdleEntries, CloseAll
<1> QED
  BY <1>1, ConstantsAssumption DEF NoReply, Reply, Asked, ConstantsAssumption

LEMMA RoutesAndTools ==
  /\ Routes \cap Tools = {}
  /\ {"projects", "scan", "impact_scan"} \cap (Routes \cup Tools) = {}
BY ConstantsAssumption DEF ConstantsAssumption, ImpactTools, DriftTools

(* Who asks the worker by root or by hash never gets a handle that was     *)
(* closed meanwhile, and while no handle of the project has outlived its   *)
(* file is answered by the present database, unless opening that throws.   *)
THEOREM MappedAnswered == Spec => MappedIsFound
<1> DEFINE by == reply'.request.by
           p  == IF by.kind = "root" THEN by.root.path ELSE by.path
           Answered ==
             reply'.request.what \in Routes \ {"verify"} /\ by.kind # "none" =>
               /\ reply'.status = "500" =>
                    reply'.request.what \in {"impact", "service"}
               /\ Exists(p) /\ ~Outlived(p) =>
                    \/ reply'.threw
                    \/ /\ reply'.file = disk[p]
                       /\ Denied(reply'.status) => ~rows[disk[p]].scanned
<1>1. ASSUME IInv, NEW route \in Routes, NEW q \in Questions, Get(route, q)
      PROVE  Answered
  <2> SUFFICES ASSUME route # "verify", q.kind # "none"
               PROVE  Answered
    BY <1>1 DEF Get, Reply, Asked
  <2>0. PICK found \in GetQE(q) :
          \E status \in Statuses(route, q, found.engine) :
            reply' = Reply(Asked(route, q), status, found)
    BY <1>1 DEF Get
  <2>1. PICK status \in Statuses(route, q, found.engine) :
          reply' = Reply(Asked(route, q), status, found)
    BY <2>0
  <2>2. /\ reply'.request.what = route /\ by = q /\ reply'.status = status
        /\ reply'.threw = found.threw
        /\ found.engine # NoEngine => reply'.file = found.engine.file
    BY <2>1 DEF Reply, Asked
  <2>3. \/ found.engine = NoEngine
        \/ found.engine \in Handle /\ found.engine.open
    BY <1>1, GetQEKeeps DEF Questions, Sound, Live
  <2>4. /\ found.engine = NoEngine => ~Exists(p) \/ found.threw
        /\ found.engine # NoEngine =>
             /\ found.engine.key = <<p>>
             /\ found.engine \in pool \/ found.engine.file = disk[p]
    <3>1. CASE q.kind = "root"
      <4>1. q.root.path \in Projects
        BY <3>1 DEF Questions, Roots
      <4>2. found \in GetQueryEngine(pool, q.root)
        BY <3>1 DEF GetQE
      <4> QED
        BY <1>1, <2>2, <3>1, <4>1, <4>2, RootFound
    <3>2. CASE q.kind = "hash"
      <4>1. q.path \in Projects
        BY <3>2 DEF Questions
      <4>2. found \in GetQueryEngineByHash(pool, q.path)
        BY <3>2 DEF GetQE
      <4> QED
        BY <1>1, <2>2, <3>2, <4>1, <4>2, HashFound
    <3> QED
      BY <3>1, <3>2 DEF Questions
  <2>5. /\ status = "500" => route \in {"impact", "service"}
        /\ Denied(status) =>
             found.engine = NoEngine \/ ~rows[found.engine.file].scanned
    BY <2>3, RouteAnswers
  <2>6. found.engine # NoEngine => found.engine.file = disk[p] \/ Outlived(p)
    BY <2>4 DEF Outlived
  <2> QED
    BY <2>2, <2>4, <2>5, <2>6
<1>2. ASSUME IInv, Next PROVE Answered
  <2>1. CASE Others \/ Tick \/ SweepIdleEntries \/ CloseAll
    BY <2>1, OthersAskNothing
  <2>2. CASE Request
    <3>1. CASE GetProjects
      BY <3>1, RoutesAndTools DEF GetProjects, Reply, Asked
    <3>2. CASE CallScan
      BY <3>2, RoutesAndTools DEF CallScan, Reply, Asked
    <3>3. CASE \E route \in Routes, q \in Questions : Get(route, q)
      BY <1>1, <1>2, <3>3
    <3>4. ASSUME NEW q, NEW repo, NEW valid \in BOOLEAN,
                 PostScan(q, repo, valid)
          PROVE  Answered
      <4>1. PICK found \in GetQE(q) :
              \E status : reply' = Reply(Asked("scan", q), status, found)
        BY <3>4 DEF PostScan
      <4>2. reply'.request.what = "scan"
        BY <4>1 DEF Reply, Asked
      <4> QED
        BY <4>2, RoutesAndTools
    <3>5. CASE \E tool \in Tools, q \in ToolQuestions : CallTool(tool, q)
      BY <3>5, RoutesAndTools DEF CallTool, Reply, Asked
    <3> HIDE DEF Answered
    <3> QED
      BY <2>2, <3>1, <3>2, <3>3, <3>4, <3>5 DEF Request
  <2> QED
    BY <1>2, <2>1, <2>2 DEF Next
<1>3. IInv /\ [Next]_vars => [Answered]_vars
  BY <1>2
<1> QED
  BY <1>3, Inductive, PTL DEF Spec, MappedIsFound

-----------------------------------------------------------------------------
(* Repositories by name.  The pool is searched for the root that the       *)
(* repositories of a database seem to have, which must not be the root of  *)
(* another project.                                                        *)

ProjectsApart ==
  \A p, q \in Projects : \A R \in SUBSET ReposOf[p] :
    R # {} /\ CommonParent(R) = q => p = q

(* A database holds repositories of the project that it belongs to.        *)
OwnRepos ==
  \A p \in Projects : Exists(p) => /\ rows[disk[p]].repos \subseteq ReposOf[p]
                                  /\ rows[disk[p]].repos # {}

LEMMA OwnReposStay ==
  ASSUME IInv, OwnRepos,
         \A p \in Projects : disk'[p] = NoFile \/ disk'[p] = disk[p], UNCHANGED rows
  PROVE  OwnRepos'
BY DEF OwnRepos, Exists

LEMMA OwnReposAdded ==
  ASSUME IInv, OwnRepos, UNCHANGED disk, NEW f \in DOMAIN rows, NEW b \in BOOLEAN,
         NEW R, rows' = Added(f, R, b),
         \A p \in Projects : disk[p] = f => R \subseteq ReposOf[p]
  PROVE  OwnRepos'
<1>1. rows'[f].repos = rows[f].repos \cup R
  BY DEF Added, Holds, IInv, DiskSound
<1>2. \A g \in DOMAIN rows \ {f} : rows'[g] = rows[g]
  BY DEF Added, IInv, DiskSound
<1>3. ASSUME NEW p \in Projects, Exists(p)
      PROVE  /\ rows'[disk[p]].repos \subseteq ReposOf[p]
             /\ rows'[disk[p]].repos # {}
  <2>1. /\ disk[p] \in DOMAIN rows /\ rows[disk[p]].repos \subseteq ReposOf[p]
        /\ rows[disk[p]].repos # {}
    BY <1>3 DEF IInv, DiskSound, OwnRepos
  <2> QED
    BY <1>1, <1>2, <2>1
<1> QED
  BY <1>3 DEF OwnRepos, Exists

LEMMA OwnReposNext == IInv /\ OwnRepos /\ [Next]_vars => OwnRepos'
<1> SUFFICES ASSUME IInv, OwnRepos, [Next]_vars PROVE OwnRepos'
  OBVIOUS
<1>1. ASSUME NEW p \in Projects, NEW R \in (SUBSET ReposOf[p]) \ {{}},
             NEW b \in BOOLEAN, Map(p, R, b)
      PROVE  OwnRepos'
  <2>1. CASE Exists(p)
    <3>1. disk[p] \in DOMAIN rows /\ \A q \in Projects : disk[q] = disk[p] => q = p
      BY <2>1 DEF IInv, DiskSound, Exists
    <3> QED
      BY <1>1, <2>1, <3>1, OwnReposAdded DEF Map
  <2>2. CASE ~Exists(p)
    <3> DEFINE n == Len(rows) + 1
    <3>1. rows' = Append(rows, Holds(R, b)) /\ disk' = [disk EXCEPT ![p] = n]
      BY <1>1, <2>2 DEF Map
    <3>2. /\ rows'[n] = Holds(R, b) /\ \A f \in DOMAIN rows : rows'[f] = rows[f]
          /\ n \notin DOMAIN rows
      BY <3>1, FilesCreated DEF IInv, DiskSound
    <3> HIDE DEF n
    <3>3. ASSUME NEW q \in Projects, disk'[q] # NoFile
          PROVE  /\ rows'[disk'[q]].repos \subseteq ReposOf[q]
                 /\ rows'[disk'[q]].repos # {}
      <4>1. CASE q = p
        <5>1. disk'[q] = n
          BY <3>1, <4>1 DEF IInv, TypeOK
        <5>2. rows'[n].repos = R
          BY <3>2 DEF Holds
        <5> QED
          BY <4>1, <5>1, <5>2
      <4>2. CASE q # p
        <5>1. disk'[q] = disk[q] /\ disk[q] \in DOMAIN rows
          BY <3>1, <3>3, <4>2 DEF IInv, TypeOK, DiskSound, Exists
        <5> QED
          BY <3>2, <3>3, <5>1 DEF OwnRepos, Exists
      <4> QED
        BY <4>1, <4>2
    <3> QED
      BY <3>3 DEF OwnRepos, Exists
  <2> QED
    BY <2>1, <2>2
<1>2. ASSUME NEW p \in Projects, RemoveMap(p)
      PROVE  OwnRepos'
  BY <1>2, OwnReposStay DEF RemoveMap, IInv, TypeOK
<1>3. ASSUME NEW root \in Roots, NEW repo \in ReposOf[root.path],
             NEW valid \in BOOLEAN,
             PostScan([kind |-> "root", root |-> root], repo, valid)
      PROVE  OwnRepos'
  <2> DEFINE by == [kind |-> "root", root |-> root]
  <2>1. by.kind = "root" /\ by.root = root /\ PostScan(by, repo, valid)
    BY <1>3
  <2> HIDE DEF by
  <2>2. GetQE(by) = GetQueryEngine(pool, root)
    BY <2>1 DEF GetQE
  <2>3. PICK found \in GetQueryEngine(pool, root) :
          \/ rows' = rows
          \/ /\ found.engine # NoEngine
             /\ \E b \in BOOLEAN : rows' = Added(found.engine.file, {repo}, b)
    BY <2>1, <2>2 DEF PostScan
  <2>4. UNCHANGED disk
    BY <2>1 DEF PostScan
  <2>5. CASE rows' = rows
    BY <2>4, <2>5, OwnReposStay
  <2>6. CASE rows' # rows
    <3>1. PICK b \in BOOLEAN : rows' = Added(found.engine.file, {repo}, b)
      BY <2>3, <2>6
    <3>2. Sound(found) /\ found.engine # NoEngine
      BY <2>3, <2>6, ByRootKeeps DEF IInv
    <3>3. /\ found.engine.file \in DOMAIN rows
          /\ \A p \in Projects : disk[p] = found.engine.file => root.path = p
      BY <3>2, RootFound DEF Sound, Live
    <3>4. \A p \in Projects :
            disk[p] = found.engine.file => {repo} \subseteq ReposOf[p]
      BY <3>3
    <3> QED
      BY <2>4, <3>1, <3>3, <3>4, OwnReposAdded
  <2> QED
    BY <2>5, <2>6
<1>4. ASSUME NEW repo \in Repos, PostScan([kind |-> "none"], repo, TRUE)
      PROVE  OwnRepos'
  <2> DEFINE by == [kind |-> "none"]
             valid == TRUE
  <2>1. by.kind = "none" /\ PostScan(by, repo, valid)
    BY <1>4
  <2> HIDE DEF by, valid
  <2>2. GetQE(by) = {Miss(pool)}
    BY <2>1 DEF GetQE
  <2>3. rows' = rows /\ UNCHANGED disk
    BY <2>1, <2>2, Missed DEF PostScan
  <2> QED
    BY <2>3, OwnReposStay
<1>5. CASE UNCHANGED <<disk, rows>>
  BY <1>5, OwnReposStay
<1>6. \/ UNCHANGED <<disk, rows>> \/ Others
      \/ \E root \in Roots, valid \in BOOLEAN : \E repo \in ReposOf[root.path] :
           PostScan([kind |-> "root", root |-> root], repo, valid)
      \/ \E repo \in Repos : PostScan([kind |-> "none"], repo, TRUE)
  BY DEF Next, Request, Tick, SweepIdleEntries, CloseAll, GetProjects, CallScan,
     Get, CallTool, vars
<1> QED
  BY <1>1, <1>2, <1>3, <1>4, <1>5, <1>6 DEF Others

LEMMA InductiveByName == Spec => [](IInv /\ OwnRepos)
<1>1. Init => OwnRepos
  BY DEF Init, OwnRepos, Exists
<1> QED
  BY <1>1, Inductive, OwnReposNext, PTL DEF Spec

(* Of a database that the search by name found on disk, what is opened is  *)
(* that database.                                                          *)
LEMMA MatchHasRepo ==
  ASSUME ProjectsApart, IInv, OwnRepos, NEW name, NEW p \in Holding(name),
         \A e \in pool : \E q \in Projects : disk[q] = e.file,
         \A e \in pool : ~HasRepo(e.file, name),
         NEW found \in OpenMatch(pool, p)
  PROVE  /\ found.engine # NoEngine => HasRepo(found.engine.file, name)
         /\ found.engine = NoEngine => found.threw
<1>1. p \in Projects /\ Exists(p) /\ HasRepo(disk[p], name)
  BY DEF Holding
<1>2. Cached(pool, <<p>>) = {}
  <2>1. ASSUME NEW e \in pool, e.key = <<p>> PROVE FALSE
    <3>1. PICK q \in Projects : disk[q] = e.file
      OBVIOUS
    <3>2. e.key = <<q>>
      BY <3>1 DEF IInv, SoundPool
    <3> QED
      BY <1>1, <2>1, <3>1, <3>2
  <2> QED
    BY <2>1 DEF Cached
<1>3. GuessedRoot(p).path \in Projects => GuessedRoot(p).path = p
  BY <1>1 DEF GuessedRoot, ProjectsApart, OwnRepos
<1>4. Cached(pool, <<GuessedRoot(p).path>>) = {}
  <2>1. ASSUME NEW e \in pool, e.key = <<GuessedRoot(p).path>> PROVE FALSE
    <3>1. e.key \in {<<q>> : q \in Projects}
      BY HandleFacts DEF IInv, SoundPool
    <3>2. e.key = <<p>>
      BY <1>3, <2>1, <3>1
    <3> QED
      BY <1>2, <2>1, <3>2 DEF Cached
  <2> QED
    BY <2>1 DEF Cached
<1>5. \A open \in Opening(pool, <<p>>, p) :
        /\ open.engine # NoEngine => HasRepo(open.engine.file, name)
        /\ open.engine = NoEngine => open.threw
  BY <1>1, Opened, EntryIsHandle
<1>6. GetQueryEngineByHash(pool, p) = Opening(pool, <<p>>, p)
  BY <1>1, <1>2 DEF GetQueryEngineByHash
<1>7. PICK by \in GetQueryEngine(pool, GuessedRoot(p)) : found \in OrByHash(by, p)
  BY DEF OpenMatch
<1>8. by \in Opening(pool, <<p>>, p) \/ by = Miss(pool)
  BY <1>3, <1>4, <1>7 DEF GetQueryEngine, Key
<1>9. CASE by.engine # NoEngine
  BY <1>5, <1>7, <1>8, <1>9, Missed DEF OrByHash
<1>10. CASE by.engine = NoEngine
  <2>1. by.pool = pool
    <3>1. ASSUME by = Found(pool \cup {Entry(<<p>>, p)}, Entry(<<p>>, p))
          PROVE  FALSE
      BY <1>1, <1>10, <3>1, EntryIsHandle DEF Found
    <3> QED
      BY <1>8, <3>1 DEF Opening, Miss, Found
  <2> QED
    BY <1>5, <1>6, <1>7, <1>10, <2>1 DEF OrByHash
<1> QED
  BY <1>9, <1>10

(* Who names a repository to a tool gets a database that has it, wherever  *)
(* one exists, if no project lies where the repositories of another seem   *)
(* to have their root.                                                     *)
THEOREM NamedAnswered == ProjectsApart => (Spec => NamedIsFound)
<1> SUFFICES ASSUME ProjectsApart PROVE Spec => NamedIsFound
  OBVIOUS
<1> DEFINE by == reply'.request.by
           Answered ==
             /\ reply'.request.what \in Tools /\ by.kind = "name"
             /\ \A e \in pool : \E p \in Projects : disk[p] = e.file
             => IF reply'.file # NoFile THEN HasRepo(reply'.file, by.name)
                ELSE reply'.threw \/ Holding(by.name) = {}
<1>1. ASSUME IInv, OwnRepos, NEW tool, NEW q \in ToolQuestions, CallTool(tool, q)
      PROVE  Answered
  <2>1. PICK found \in ResolveDb(q) :
          reply' = Reply(Asked(tool, q), ToolStatus(tool, q, found.engine), found)
    BY <1>1 DEF CallTool
  <2>2. /\ by = q /\ reply'.threw = found.threw
        /\ found.engine # NoEngine => reply'.file = found.engine.file
        /\ found.engine = NoEngine => reply'.file = NoFile
    BY <2>1 DEF Reply, Asked
  <2>6. found.engine # NoEngine => reply'.file # NoFile
    <3>1. Sound(found)
      BY <1>1, <2>1, ResolveDbKeeps DEF ToolQuestions
    <3> QED
      BY <2>2, <3>1, HandleFacts DEF Sound
  <2> SUFFICES ASSUME q.kind = "name",
                      \A e \in pool : \E p \in Projects : disk[p] = e.file
               PROVE  IF reply'.file # NoFile THEN HasRepo(reply'.file, q.name)
                      ELSE reply'.threw \/ Holding(q.name) = {}
    BY <2>2
  <2>3. found \in GetQueryEngineByRepo(pool, q.name)
    BY <2>1 DEF ResolveDb
  <2>4. CASE \E e \in pool : HasRepo(e.file, q.name)
    <3>1. PICK e \in pool : HasRepo(e.file, q.name) /\ found = Found(pool, e)
      BY <1>1, <2>3, <2>4 DEF GetQueryEngineByRepo, IInv, SoundPool, Live
    <3>2. e # NoEngine /\ found.engine = e
      BY <1>1, <3>1, HandleFacts DEF IInv, SoundPool, Found
    <3> QED
      BY <2>2, <2>6, <3>1, <3>2
  <2>5. CASE \A e \in pool : ~HasRepo(e.file, q.name)
    <3>1. CASE Holding(q.name) = {}
      <4>1. found = Miss(pool)
        BY <2>3, <2>5, <3>1 DEF GetQueryEngineByRepo
      <4> QED
        BY <2>2, <3>1, <4>1, Missed
    <3>2. CASE Holding(q.name) # {}
      <4>1. PICK p \in Holding(q.name) : found \in OpenMatch(pool, p)
        BY <2>3, <2>5, <3>2 DEF GetQueryEngineByRepo
      <4>2. /\ found.engine # NoEngine => HasRepo(found.engine.file, q.name)
            /\ found.engine = NoEngine => found.threw
        BY <1>1, <2>5, <4>1, MatchHasRepo
      <4> QED
        BY <2>2, <2>6, <4>2
    <3> QED
      BY <3>1, <3>2
  <2> QED
    BY <2>4, <2>5
<1>2. ASSUME IInv, OwnRepos, Next PROVE Answered
  <2>1. CASE Others \/ Tick \/ SweepIdleEntries \/ CloseAll
    BY <2>1, OthersAskNothing
  <2>2. CASE Request
    <3>1. CASE GetProjects
      BY <3>1, RoutesAndTools DEF GetProjects, Reply, Asked
    <3>2. CASE CallScan
      BY <3>2, RoutesAndTools DEF CallScan, Reply, Asked
    <3>3. CASE \E route \in Routes, q \in Questions : Get(route, q)
      BY <3>3, RoutesAndTools DEF Get, Reply, Asked
    <3>4. ASSUME NEW q, NEW repo, NEW valid \in BOOLEAN,
                 PostScan(q, repo, valid)
          PROVE  Answered
      <4>1. PICK found \in GetQE(q) :
              \E status : reply' = Reply(Asked("scan", q), status, found)
        BY <3>4 DEF PostScan
      <4>2. reply'.request.what = "scan"
        BY <4>1 DEF Reply, Asked
      <4> QED
        BY <4>2, RoutesAndTools
    <3>5. CASE \E tool \in Tools, q \in ToolQuestions : CallTool(tool, q)
      BY <1>1, <1>2, <3>5
    <3> HIDE DEF Answered
    <3> QED
      BY <2>2, <3>1, <3>2, <3>3, <3>4, <3>5 DEF Request
  <2> QED
    BY <1>2, <2>1, <2>2 DEF Next
<1>3. IInv /\ OwnRepos /\ [Next]_vars => [Answered]_vars
  BY <1>2
<1> QED
  BY <1>3, InductiveByName, PTL DEF Spec, NamedIsFound

=============================================================================
