---------------------------- MODULE ScanTailProofs ----------------------------
(***************************************************************************)
(* What is proved of the tail of a scan run, for any repositories,         *)
(* findings, trees, overrides, removals, history limit, snapshots of an    *)
(* older release, failures and kills.                                      *)
(***************************************************************************)
EXTENDS ScanTailProps, FiniteSetTheorems, FunctionTheorems,
        NaturalsInduction, WellFoundedInduction, TLAPS

(* Processes scan one after another.  A history is kept in order by whoever *)
(* has the only run.                                                       *)
OneRunner == \A p, q \in Runners : p = q

(* The locks keep two runs from one repository: there is one run, or none  *)
(* of the sets that are scanned together shares a repository with another. *)
Apart ==
  OneRunner \/ \A S, T \in RepoSets : S \cap T # {} => S = T

-----------------------------------------------------------------------------
(* The tables.                                                             *)

IsService(s) ==
  s = [repo |-> s.repo, name |-> s.name, type |-> s.type, scan |-> s.scan]

IsCall(c) ==
  c = [source |-> c.source, target |-> c.target, token |-> c.token,
       sure |-> c.sure, scan |-> c.scan, told |-> c.told]

(* A dependency or an enrichment row. *)
IsRowed(x) == x = [repo |-> x.repo, name |-> x.name, scan |-> x.scan]

IsTables(d) ==
  d = [services |-> d.services, calls |-> d.calls, deps |-> d.deps,
       metadata |-> d.metadata, scans |-> d.scans, state |-> d.state]

ScanRow(v, r) == [id |-> v, repo |-> r]

(* Scans are numbered one after another. *)
ScansNumbered(d) ==
  /\ IsFiniteSet(d.scans)
  /\ \A s \in d.scans : /\ s = ScanRow(s.id, s.repo)
                        /\ s.id \in 1 .. Cardinality(d.scans)
                        /\ \A t \in d.scans : t.id = s.id => t = s

(* Two rows of one name are one row. *)
OneRow(services) ==
  \A s, t \in services : s.repo = t.repo /\ s.name = t.name => s = t

(* A service has the version of its repository's latest scan. *)
ServiceCurrent(d, s) ==
  ScanRow(s.scan, s.repo) \in d.scans /\ s.scan = LatestOf(d, s.repo)

(* So has a call exactly if a scan since the last full one reported it,    *)
(* except for those that are attached to another repository's service.     *)
CallCurrent(d, c) ==
  c.told # "elsewhere" =>
    /\ ScanRow(c.scan, c.source.repo) \in d.scans
    /\ c.scan = LatestOf(d, c.source.repo) <=> c.told = "since"

ServicesCurrent(d) ==
  /\ OneRow(d.services)
  /\ \A s \in d.services :
       IsService(s) /\ s.repo \in Repos /\ ServiceCurrent(d, s)

CallsCurrent(d) == \A c \in d.calls : IsCall(c) /\ CallCurrent(d, c)

(* No dependency is of a scan that is still to come. *)
DepsOfScans(d) ==
  /\ \A x \in d.deps : IsRowed(x) /\ x.scan \in 1 .. Cardinality(d.scans)
  /\ \A x \in d.metadata : IsRowed(x)

TablesOK(d) ==
  /\ IsTables(d) /\ ScansNumbered(d)
  /\ ServicesCurrent(d) /\ CallsCurrent(d) /\ DepsOfScans(d)

NamesOf(services) == {s.name : s \in services}

-----------------------------------------------------------------------------
(* The runs.                                                               *)

TailLabels == {"wipe", "enrich", "delete", "upsert"}
SnapshotLabels == {"insert", "retain", "row"}

IsRun(x) ==
  x = [pc |-> x.pc, set |-> x.set, todo |-> x.todo, covered |-> x.covered,
       repo |-> x.repo, found |-> x.found, left |-> x.left, file |-> x.file]

(* Where a run is and what it has in hand go together. *)
RunShape(x) ==
  /\ IsRun(x)
  /\ x.pc \in {"idle", "write"} \cup TailLabels \cup SnapshotLabels
  /\ x.pc = "idle" => x = NoRun
  /\ x.pc # "idle" => x.set \in RepoSets
  /\ x.todo \subseteq x.set /\ DOMAIN x.covered \subseteq x.set
  /\ x.todo \cap DOMAIN x.covered = {}
  /\ x.pc \in TailLabels => x.repo \in DOMAIN x.covered
  /\ x.pc \notin TailLabels => x.repo = NotFound

RunsShaped ==
  /\ run = [p \in Runners |-> run[p]]
  /\ \A p \in Runners : RunShape(run[p])

(* Two runs hold different repositories, and what a run has written is the *)
(* latest of its repository until the run ends.                            *)
RunsApart ==
  \A p, q \in Runners : p # q => run[p].set \cap run[q].set = {}

CoveredLatest ==
  \A p \in Runners : \A r \in DOMAIN run[p].covered :
    /\ run[p].covered[r] = LatestOf(db, r)
    /\ ScanRow(run[p].covered[r], r) \in db.scans

-----------------------------------------------------------------------------
(* The satellites of a repository's services.                              *)

Rowed(r, names, v) == {[repo |-> r, name |-> n, scan |-> v] : n \in names}

(* deps, metadata and stored are the rows of the repository, v is its      *)
(* latest scan, has what that scan saw and said what it reported; old are  *)
(* the repositories whose old records went.                                *)
SettledAs(r, deps, metadata, stored, v, has, old, said) ==
  /\ deps = Rowed(r, has, v)
  /\ metadata = Rowed(r, has, v)
  /\ r \in old => NamesOf(stored) = said

(* What the tail of repository r has brought about so far in a run x;      *)
(* names are those of the repository's services.                           *)
ProgressAs(x, r, deps, metadata, stored, names, v, has, old, said) ==
  LET mine == {y \in deps : y.scan = v}
  IN  /\ NamesOf(x.found.services) = said
      /\ x.pc = "wipe" => mine = {}
      /\ x.pc = "enrich" =>
           /\ x.left \subseteq names
           /\ mine = Rowed(r, has \ x.left, v)
           /\ metadata = Rowed(r, has \ x.left, v)
      /\ x.pc \in {"delete", "upsert"} =>
           deps = Rowed(r, has, v) /\ metadata = Rowed(r, has, v)
      /\ x.pc # "upsert" => r \notin old
      /\ x.pc = "upsert" => r \in old /\ stored = {}

Settled(r) ==
  SettledAs(r, RowsOf(db.deps, r), RowsOf(db.metadata, r), RowsOf(records, r),
            LatestOf(db, r), seen[r], synced, reported[r])

Progress(p, r) ==
  ProgressAs(run[p], r, RowsOf(db.deps, r), RowsOf(db.metadata, r),
             RowsOf(records, r), NamesOf(ServicesOf(db, r)), LatestOf(db, r),
             seen[r], synced, reported[r])

TailSound(r) ==
  r \in clean =>
    /\ (\A p \in Runners : run[p].repo # r) => Settled(r)
    /\ \A p \in Runners : run[p].repo = r => Progress(p, r)

TailsSound == \A r \in Repos : TailSound(r)

(* What a scan saw are services that are there.                            *)
FramesOK ==
  /\ DOMAIN seen = Repos /\ DOMAIN reported = Repos /\ clean \subseteq Repos
  /\ \A r \in Repos : seen[r] \subseteq NamesOf(ServicesOf(db, r))

RunsOK ==
  TablesOK(db) /\ RunsShaped /\ RunsApart /\ CoveredLatest /\ FramesOK

TInv == RunsOK /\ TailsSound

-----------------------------------------------------------------------------
(* The history of snapshots.                                               *)

IsRow(x) == x = [id |-> x.id, file |-> x.file, repos |-> x.repos] /\ x.file = x.id

HistoryShape ==
  /\ serial \in Nat /\ failures \in Nat /\ IsFiniteSet(mapVersions)
  /\ DOMAIN files \subseteq 1 .. serial
  /\ files = [n \in DOMAIN files |-> files[n]]
  /\ \A x \in mapVersions : /\ IsRow(x) /\ x.id \in 1 .. serial
                            /\ \A y \in mapVersions : y.id = x.id => y = x

(* The snapshot whose row is to be inserted has its file and no row yet.   *)
Inserting ==
  \A p \in Runners : At(p, "insert") =>
    /\ run[p].file \in DOMAIN files
    /\ \A x \in mapVersions : x.id # run[p].file

Retiring == \A p \in Runners : At(p, "row") => Beyond(mapVersions) # {}

(* What became of a file that no row has, or of a row without one.         *)
Unmatched == Cardinality(Orphans) + Cardinality(Dangling)

RowsBounded ==
  \/ Cardinality(mapVersions) <= HistoryLimit + failures
  \/ /\ \E p \in Runners : At(p, "retain") \/ At(p, "row")
     /\ Cardinality(mapVersions) <= HistoryLimit + failures + 1

MatchesCounted ==
  /\ (\A p \in Runners : ~At(p, "insert") /\ ~At(p, "row")) => Unmatched <= failures
  /\ \A p \in Runners :
       /\ At(p, "insert") => Unmatched <= failures + 1
       /\ At(p, "row") =>
            Unmatched <= IF ToDelete(p).file \in DOMAIN files THEN failures - 1
                         ELSE failures + 1

HInv == HistoryShape /\ Inserting /\ Retiring /\ RowsBounded /\ MatchesCounted

(* Only a row that is being retired has lost its file.                     *)
DanglingBeyond == Dangling \subseteq Beyond(mapVersions)

(* A file says of a repository what its row says. *)
Sound(f, r, v) ==
  /\ \A s \in f.services :
       /\ s.scan = v <=> s.repo = r
       /\ \A t \in f.services : t.repo = s.repo /\ t.name = s.name => t = s
  /\ \A c \in f.calls : c.told # "elsewhere" =>
       (c.scan = v <=> c.source.repo = r /\ c.told = "since")

FilesSound ==
  /\ \A x \in mapVersions : x.file \in DOMAIN files =>
       \A r \in DOMAIN x.repos : Sound(files[x.file], r, x.repos[r])
  /\ \A p \in Runners : At(p, "insert") =>
       \A r \in DOMAIN run[p].covered :
         Sound(files[run[p].file], r, run[p].covered[r])

DInv == DanglingBeyond /\ FilesSound

-----------------------------------------------------------------------------
(* Rows and versions.                                                      *)

LEMMA Constant ==
  /\ RepoSets \subseteq SUBSET Repos /\ {} \notin RepoSets
  /\ Modes \subseteq {"full", "incremental"} /\ NotFound \notin Repos
  /\ \A r \in Repos : \A f \in Findings[r] : \A s, t \in f.services :
       s.name = t.name => s = t
  /\ HistoryLimit \in Nat /\ MaxScan \in Nat /\ MaxFailures \in Nat
  /\ Legacy \subseteq Nat
BY ConstantsAssumption

LEMMA RowFields ==
  /\ \A r, n, t, v : LET s == [repo |-> r, name |-> n, type |-> t, scan |-> v]
                     IN  /\ s.repo = r /\ s.name = n /\ s.type = t /\ s.scan = v
                         /\ IsService(s)
  /\ \A s : IsService(s) => \A v : LET t == [s EXCEPT !.scan = v]
              IN  /\ t.repo = s.repo /\ t.name = s.name /\ t.type = s.type
                  /\ t.scan = v /\ IsService(t)
  /\ \A c : IsCall(c) => \A v : LET e == [c EXCEPT !.scan = v]
              IN  /\ e.source = c.source /\ e.told = c.told
                  /\ e.scan = v /\ IsCall(e)
  /\ \A c : IsCall(c) => \A t : LET e == [c EXCEPT !.told = t]
              IN  /\ e.source = c.source /\ e.scan = c.scan
                  /\ e.told = t /\ IsCall(e)
<1>1. ASSUME NEW r, NEW n, NEW t, NEW v
      PROVE  LET s == [repo |-> r, name |-> n, type |-> t, scan |-> v]
             IN  /\ s.repo = r /\ s.name = n /\ s.type = t /\ s.scan = v
                 /\ IsService(s)
  BY DEF IsService
<1>2. ASSUME NEW s, IsService(s), NEW v
      PROVE  LET t == [s EXCEPT !.scan = v]
             IN  /\ t.repo = s.repo /\ t.name = s.name /\ t.type = s.type
                 /\ t.scan = v /\ IsService(t)
  BY <1>2 DEF IsService
<1>3. ASSUME NEW c, IsCall(c), NEW v
      PROVE  LET e == [c EXCEPT !.scan = v]
             IN  /\ e.source = c.source /\ e.told = c.told
                 /\ e.scan = v /\ IsCall(e)
  BY <1>3 DEF IsCall
<1>4. ASSUME NEW c, IsCall(c), NEW t
      PROVE  LET e == [c EXCEPT !.told = t]
             IN  /\ e.source = c.source /\ e.scan = c.scan
                 /\ e.told = t /\ IsCall(e)
  BY <1>4 DEF IsCall
<1> QED
  BY <1>1, <1>2, <1>3, <1>4

(* A set of numbers has one greatest. *)
LEMMA NewestIs ==
  ASSUME NEW S \in SUBSET Int, NEW n \in S, \A m \in S : m <= n
  PROVE  Newest(S) = n
<1>1. Newest(S) \in S /\ \A m \in S : m <= Newest(S)
  BY DEF Newest
<1>2. Newest(S) <= n /\ n <= Newest(S) /\ Newest(S) \in Int /\ n \in Int
  BY <1>1
<1> QED
  BY <1>2

(* The next scan has the version after all others.                         *)
Follows(w, d, r, v) ==
  /\ v \in Nat /\ ScansNumbered(w) /\ Cardinality(w.scans) = v
  /\ ScanRow(v, r) \in w.scans /\ d.scans \subseteq w.scans
  /\ \A s \in d.scans : s.id \in 1 .. v - 1
  /\ LatestOf(w, r) = v
  /\ \A q : q # r => LatestOf(w, q) = LatestOf(d, q)

LEMMA NextScan ==
  ASSUME NEW d, NEW w, NEW r, NEW v, ScansNumbered(d),
         v = 1 + Cardinality(d.scans), w.scans = d.scans \cup {ScanRow(v, r)}
  PROVE  Follows(w, d, r, v)
<1> DEFINE new == ScanRow(v, r)
<1>1. new.id = v /\ new.repo = r /\ new = ScanRow(new.id, new.repo)
  BY DEF ScanRow
<1>2. Cardinality(d.scans) \in Nat /\ IsFiniteSet(d.scans)
  BY FS_CardinalityType DEF ScansNumbered
<1>3. v \in Nat /\ \A s \in d.scans : s.id \in 1 .. v - 1 /\ s.id # v
  BY <1>2 DEF ScansNumbered
<1>4. new \notin d.scans
  BY <1>1, <1>3
<1> HIDE DEF new
<1>5. w.scans = d.scans \cup {new}
  BY DEF new
<1>6. IsFiniteSet(w.scans) /\ Cardinality(w.scans) = v
  <2>1. IsFiniteSet(d.scans \cup {new})
    BY <1>2, FS_AddElement
  <2>2. Cardinality(d.scans \cup {new}) = Cardinality(d.scans) + 1
    BY <1>2, <1>4, FS_AddElement
  <2>3. IsFiniteSet(w.scans) /\ Cardinality(w.scans) = Cardinality(d.scans) + 1
    BY <1>5, <2>1, <2>2, Zenon
  <2>4. Cardinality(d.scans) + 1 = v
    BY <1>2
  <2> QED
    BY <2>3, <2>4
<1>7. ScansNumbered(w)
  <2>1. ASSUME NEW s \in w.scans
        PROVE  /\ s = ScanRow(s.id, s.repo) /\ s.id \in 1 .. v
               /\ \A t \in w.scans : t.id = s.id => t = s
    <3>1. CASE s \in d.scans
      BY <1>1, <1>3, <1>5, <3>1 DEF ScansNumbered
    <3>2. CASE s = new
      BY <1>1, <1>3, <1>5, <3>2, <1>2
    <3> QED
      BY <1>5, <2>1, <3>1, <3>2
  <2> QED
    BY <1>6, <2>1 DEF ScansNumbered
<1>8. VersionsOf(w, r) = VersionsOf(d, r) \cup {v}
  BY <1>1, <1>5 DEF VersionsOf
<1>9. \A q : q # r => VersionsOf(w, q) = VersionsOf(d, q)
  BY <1>1, <1>5 DEF VersionsOf
<1>10. LatestOf(w, r) = v
  <2>1. VersionsOf(w, r) \in SUBSET Int /\ v \in VersionsOf(w, r)
        /\ \A n \in VersionsOf(w, r) : n <= v
    BY <1>3, <1>8 DEF VersionsOf
  <2>2. Newest(VersionsOf(w, r)) = v
    BY <2>1, NewestIs
  <2> QED
    BY <2>1, <2>2 DEF LatestOf
<1>11. \A q : q # r => LatestOf(w, q) = LatestOf(d, q)
  BY <1>9 DEF LatestOf
<1> QED
  BY <1>3, <1>5, <1>6, <1>7, <1>10, <1>11 DEF new, Follows

OneReport(found) ==
  \A f, g \in found.services : f.name = g.name => f = g

(* The services of the tables u after a scan of r has written its own: the *)
(* others are as they were, and a call has at most got the version.        *)
WithServicesAs(u, d, r, mode, v) ==
  /\ u = [d EXCEPT !.services = u.services, !.calls = u.calls]
  /\ OneRow(u.services)
  /\ \A s \in u.services : /\ IsService(s) /\ s.repo \in Repos
                           /\ s.repo # r => s \in d.services
  /\ \A s \in d.services : s.repo # r => s \in u.services
  /\ \A c \in u.calls : \E o \in d.calls :
       c = IF mode # "full" /\ o.source.repo = r /\ o.scan = LatestOf(d, r)
           THEN [o EXCEPT !.scan = v] ELSE o

LEMMA BeforeServices ==
  ASSUME NEW d, NEW r, NEW mode, NEW v, NEW b, TablesOK(d),
         b = IF mode = "full" THEN d ELSE Restamped(d, r, v)
  PROVE  WithServicesAs(b, d, r, mode, v)
<1>0. IsTables(d) /\ ServicesCurrent(d)
  BY DEF TablesOK
<1>1. CASE mode = "full"
  <2>1. b = d /\ d = [d EXCEPT !.services = d.services, !.calls = d.calls]
    BY <1>0, <1>1 DEF IsTables
  <2> QED
    BY <1>0, <1>1, <2>1 DEF WithServicesAs, ServicesCurrent
<1>2. CASE mode # "full"
  <2> DEFINE prev == LatestOf(d, r)
             S(s) == IF s.repo = r /\ s.scan = prev
                     THEN [s EXCEPT !.scan = v] ELSE s
             C(c) == IF c.source.repo = r /\ c.scan = prev
                     THEN [c EXCEPT !.scan = v] ELSE c
  <2>1. b = [d EXCEPT !.services = {S(s) : s \in d.services},
                      !.calls = {C(c) : c \in d.calls}]
    BY <1>2 DEF Restamped
  <2>2. b.services = {S(s) : s \in d.services} /\ b.calls = {C(c) : c \in d.calls}
        /\ b = [d EXCEPT !.services = b.services, !.calls = b.calls]
    BY <1>0, <2>1 DEF IsTables
  <2>3. ASSUME NEW s \in d.services
        PROVE  /\ S(s).repo = s.repo /\ S(s).name = s.name /\ IsService(S(s))
               /\ s.repo # r => S(s) = s
               /\ s.repo \in Repos
    <3>1. IsService(s) /\ s.repo \in Repos
      BY <1>0, <2>3 DEF ServicesCurrent
    <3>2. LET t == [s EXCEPT !.scan = v]
          IN t.repo = s.repo /\ t.name = s.name /\ t.scan = v /\ IsService(t)
      BY <3>1, RowFields
    <3> QED
      BY <3>1, <3>2
  <2>4. \A c \in d.calls :
          C(c) = IF mode # "full" /\ c.source.repo = r /\ c.scan = LatestOf(d, r)
                 THEN [c EXCEPT !.scan = v] ELSE c
    BY <1>2
  <2> HIDE DEF S, C
  <2>5. OneRow(b.services)
    <3>1. OneRow(d.services)
      BY <1>0 DEF ServicesCurrent
    <3> SUFFICES ASSUME NEW s \in b.services, NEW t \in b.services,
                        s.repo = t.repo, s.name = t.name
                 PROVE  s = t
      BY DEF OneRow
    <3>2. PICK o \in d.services : s = S(o)
      BY <2>2
    <3>3. PICK q \in d.services : t = S(q)
      BY <2>2
    <3>4. o.repo = q.repo /\ o.name = q.name
      BY <2>3, <3>2, <3>3
    <3> QED
      BY <3>1, <3>2, <3>3, <3>4 DEF OneRow
  <2>6. ASSUME NEW s \in b.services
        PROVE  IsService(s) /\ s.repo \in Repos /\ (s.repo # r => s \in d.services)
    <3>1. PICK o \in d.services : s = S(o)
      BY <2>2
    <3> QED
      BY <2>3, <3>1
  <2>7. \A s \in d.services : s.repo # r => s \in b.services
    BY <2>2, <2>3
  <2>8. ASSUME NEW c \in b.calls
        PROVE  \E o \in d.calls :
                 c = IF mode # "full" /\ o.source.repo = r
                        /\ o.scan = LatestOf(d, r)
                     THEN [o EXCEPT !.scan = v] ELSE o
    <3>1. PICK o \in d.calls : c = C(o)
      BY <2>2
    <3> QED
      BY <2>4, <3>1
  <2> QED
    BY <2>2, <2>5, <2>6, <2>7, <2>8 DEF WithServicesAs
<1> QED
  BY <1>1, <1>2

LEMMA ServicesWritten ==
  ASSUME NEW d, TablesOK(d), NEW r \in Repos, NEW found, OneReport(found),
         NEW mode, NEW v
  PROVE  WithServicesAs(WithServices(d, r, found, mode, v), d, r, mode, v)
<1> DEFINE b == IF mode = "full" THEN d ELSE Restamped(d, r, v)
           u == WithServices(d, r, found, mode, v)
           Row(f) == [repo |-> r, name |-> f.name, type |-> f.type, scan |-> v]
           kept == {s \in b.services :
                      ~(s.repo = r /\ \E f \in found.services : f.name = s.name)}
           US == kept \cup {Row(f) : f \in found.services}
<1>1. WithServicesAs(b, d, r, mode, v)
  BY BeforeServices
<1>2. u = [b EXCEPT !.services = US]
  BY DEF WithServices, Upserted
<1> HIDE DEF u, b
<1>3. \A f : /\ Row(f).repo = r /\ Row(f).name = f.name /\ IsService(Row(f))
  BY DEF IsService
<1>4. \A s : s \in US <=> s \in kept \/ \E f \in found.services : s = Row(f)
  OBVIOUS
<1>5. \A s \in kept : s \in b.services
  OBVIOUS
<1>6. \A s \in b.services : s.repo # r => s \in kept
  OBVIOUS
<1>7. \A s \in kept : s.repo = r => \A f \in found.services : s.name # f.name
  OBVIOUS
<1> HIDE DEF US, kept, Row
<1>8. /\ u.services = US /\ u.calls = b.calls
      /\ u = [d EXCEPT !.services = u.services, !.calls = u.calls]
  <2>1. IsTables(d) /\ b = [d EXCEPT !.services = b.services, !.calls = b.calls]
    BY <1>1 DEF TablesOK, WithServicesAs
  <2> QED
    BY <1>2, <2>1 DEF IsTables
<1>9. OneRow(US)
  <2> SUFFICES ASSUME NEW s \in US, NEW t \in US, s.repo = t.repo, s.name = t.name
               PROVE  s = t
    BY DEF OneRow
  <2>1. CASE s \in kept /\ t \in kept
    BY <1>1, <1>5, <2>1 DEF OneRow, WithServicesAs
  <2>2. ASSUME NEW f \in found.services, s = Row(f), t \in kept
        PROVE  FALSE
    BY <1>3, <1>7, <2>2
  <2>3. ASSUME NEW f \in found.services, t = Row(f), s \in kept
        PROVE  FALSE
    BY <1>3, <1>7, <2>3
  <2>4. ASSUME NEW f \in found.services, NEW g \in found.services,
               s = Row(f), t = Row(g)
        PROVE  s = t
    BY <1>3, <2>4 DEF OneReport
  <2> QED
    BY <1>4, <2>1, <2>2, <2>3, <2>4
<1>10. ASSUME NEW s \in US
       PROVE  IsService(s) /\ s.repo \in Repos /\ (s.repo # r => s \in d.services)
  <2>1. CASE s \in kept
    BY <1>1, <1>5, <2>1 DEF WithServicesAs
  <2>2. CASE \E f \in found.services : s = Row(f)
    BY <1>3, <2>2
  <2> QED
    BY <1>4, <2>1, <2>2
<1>11. \A s \in d.services : s.repo # r => s \in US
  BY <1>1, <1>4, <1>6 DEF WithServicesAs
<1>12. \A c \in u.calls : \E o \in d.calls :
         c = IF mode # "full" /\ o.source.repo = r /\ o.scan = LatestOf(d, r)
             THEN [o EXCEPT !.scan = v] ELSE o
  BY <1>1, <1>8 DEF WithServicesAs
<1> QED
  BY <1>8, <1>9, <1>10, <1>11, <1>12 DEF WithServicesAs, u

(* In the middle of the transaction of a scan of r, whose version v is not *)
(* among the scans yet.                                                    *)
CallInScan(d, c, r, v) ==
  c.told # "elsewhere" =>
    IF c.source.repo # r THEN CallCurrent(d, c)
    ELSE /\ c.scan = v <=> c.told = "since"
         /\ c.scan = v \/ ScanRow(c.scan, r) \in d.scans

InScan(w, d, r, v) ==
  /\ IsTables(w) /\ w.scans = d.scans /\ DepsOfScans(w) /\ OneRow(w.services)
  /\ \A s \in w.services : /\ IsService(s) /\ s.repo \in Repos
                           /\ s.repo # r => ServiceCurrent(d, s)
  /\ \A c \in w.calls : IsCall(c) /\ CallInScan(d, c, r, v)

(* No scan has the version of the next one. *)
LEMMA VersionNew ==
  ASSUME NEW d, ScansNumbered(d)
  PROVE  \A n, q : ScanRow(n, q) \in d.scans => n # 1 + Cardinality(d.scans)
<1>1. Cardinality(d.scans) \in Nat /\ \A s \in d.scans : s.id # 1 + Cardinality(d.scans)
  BY FS_CardinalityType DEF ScansNumbered
<1> QED
  BY <1>1 DEF ScanRow

(* What persistFindings writes.                                            *)
LEMMA FindingsWritten ==
  ASSUME NEW d, TablesOK(d), NEW r \in Repos, NEW found, OneReport(found),
         NEW mode, NEW v, v = 1 + Cardinality(d.scans)
  PROVE  LET w == Written(d, r, found, mode, v)
         IN  /\ InScan(w, d, r, v)
             /\ w.deps = d.deps /\ w.metadata = d.metadata
             /\ \A s : s.repo # r => (s \in w.services <=> s \in d.services)
<1> DEFINE u == WithServices(d, r, found, mode, v)
           new == CallsWritten(d, r, found, mode, v)
           w == Written(d, r, found, mode, v)
           older == {c \in u.calls : ~\E e \in new : Called(c) = Called(e)}
           Aged(c) == IF mode = "full" /\ c.source.repo = r /\ c.told = "since"
                      THEN [c EXCEPT !.told = "before"] ELSE c
           UC == new \cup {Aged(c) : c \in older}
<1>0. IsTables(d) /\ ScansNumbered(d) /\ ServicesCurrent(d) /\ CallsCurrent(d)
      /\ DepsOfScans(d)
  BY DEF TablesOK
<1>1. \A n, q : ScanRow(n, q) \in d.scans => n # v
  BY <1>0, VersionNew
<1>2. WithServicesAs(u, d, r, mode, v)
  BY ServicesWritten
<1>3. w = [u EXCEPT !.calls = UC]
  BY DEF Written, Reported
<1>4. ASSUME NEW c \in new
      PROVE  /\ IsCall(c) /\ c.scan = v
             /\ c.told # "elsewhere" => c.source.repo = r /\ c.told = "since"
  <2>1. PICK f \in found.calls :
          c = [source |-> Resolved(u, r, f.source),
               target |-> Resolved(u, r, f.target), token |-> f.token,
               sure |-> f.sure, scan |-> v,
               told |-> IF Resolved(u, r, f.source).repo = r
                        THEN "since" ELSE "elsewhere"]
    BY DEF CallsWritten, NewCalls
  <2> QED
    BY <2>1 DEF IsCall
<1>5. \A c \in UC : c \in new \/ \E o \in u.calls : c = Aged(o)
  OBVIOUS
<1>a. \A c : Aged(c) = IF mode = "full" /\ c.source.repo = r /\ c.told = "since"
                      THEN [c EXCEPT !.told = "before"] ELSE c
  OBVIOUS
<1> HIDE DEF u, new, w, UC, Aged
<1>6. /\ IsTables(w) /\ w.services = u.services /\ w.calls = UC
      /\ w.deps = d.deps /\ w.metadata = d.metadata /\ w.scans = d.scans
  <2>1. u = [d EXCEPT !.services = u.services, !.calls = u.calls]
    BY <1>2 DEF WithServicesAs
  <2> QED
    BY <1>0, <1>3, <2>1 DEF IsTables
<1>7. DepsOfScans(w)
  BY <1>0, <1>6 DEF DepsOfScans
<1>8. ASSUME NEW s \in w.services
      PROVE  /\ IsService(s) /\ s.repo \in Repos
             /\ s.repo # r => ServiceCurrent(d, s)
  BY <1>0, <1>2, <1>6 DEF WithServicesAs, ServicesCurrent
<1>9. ASSUME NEW c \in w.calls
      PROVE  IsCall(c) /\ CallInScan(d, c, r, v)
  <2>1. CASE c \in new
    BY <1>4, <2>1 DEF CallInScan
  <2>2. ASSUME NEW o \in u.calls, c = Aged(o)
        PROVE  IsCall(c) /\ CallInScan(d, c, r, v)
    <3>1. PICK e \in d.calls :
            o = IF mode # "full" /\ e.source.repo = r /\ e.scan = LatestOf(d, r)
                THEN [e EXCEPT !.scan = v] ELSE e
      BY <1>2 DEF WithServicesAs
    <3>2. IsCall(e) /\ CallCurrent(d, e)
      BY <1>0 DEF CallsCurrent
    <3>3. /\ IsCall(o) /\ o.source = e.source /\ o.told = e.told
          /\ o.scan = IF mode # "full" /\ e.source.repo = r
                         /\ e.scan = LatestOf(d, r) THEN v ELSE e.scan
      BY <3>1, <3>2, RowFields
    <3>4. /\ IsCall(c) /\ c.source = o.source /\ c.scan = o.scan
          /\ c.told = IF mode = "full" /\ o.source.repo = r /\ o.told = "since"
                      THEN "before" ELSE o.told
      <4>1. CASE mode = "full" /\ o.source.repo = r /\ o.told = "since"
        <5>1. c = [o EXCEPT !.told = "before"]
          BY <1>a, <2>2, <4>1
        <5> QED
          BY <3>3, <4>1, <5>1, RowFields
      <4>2. CASE ~(mode = "full" /\ o.source.repo = r /\ o.told = "since")
        BY <1>a, <2>2, <3>3, <4>2
      <4> QED
        BY <4>1, <4>2
    <3>5. CASE e.told = "elsewhere"
      BY <3>3, <3>4, <3>5 DEF CallInScan
    <3>6. CASE e.told # "elsewhere" /\ e.source.repo # r
      BY <3>2, <3>3, <3>4, <3>6 DEF CallInScan, CallCurrent
    <3>7. CASE e.told # "elsewhere" /\ e.source.repo = r
      <4>1. /\ ScanRow(e.scan, r) \in d.scans
            /\ e.scan = LatestOf(d, r) <=> e.told = "since"
        BY <3>2, <3>7 DEF CallCurrent
      <4>2. e.scan # v
        BY <1>1, <4>1
      <4>3. CASE mode = "full"
        BY <3>3, <3>4, <3>7, <4>1, <4>2, <4>3 DEF CallInScan
      <4>4. CASE mode # "full"
        BY <3>3, <3>4, <3>7, <4>1, <4>2, <4>4 DEF CallInScan
      <4> QED
        BY <4>3, <4>4
    <3> QED
      BY <3>5, <3>6, <3>7
  <2> QED
    BY <1>5, <1>6, <2>1, <2>2
<1>10. InScan(w, d, r, v)
  BY <1>2, <1>6, <1>7, <1>8, <1>9 DEF InScan, WithServicesAs
<1>11. \A s : s.repo # r => (s \in w.services <=> s \in d.services)
  BY <1>2, <1>6 DEF WithServicesAs
<1> QED
  BY <1>6, <1>10, <1>11 DEF w

-----------------------------------------------------------------------------
(* What an override makes of rows.                                         *)

Id(r, n) == [repo |-> r, name |-> n]

Stays(i, o) == ~(o.does = "delete" /\ i = o.service)

Followed(x, o) ==
  IF o.does = "rename" /\ Self(x) = o.service THEN [x EXCEPT !.name = o.name] ELSE x

NameAfter(r, n, o) ==
  IF o.does = "rename" /\ Id(r, n) = o.service THEN o.name ELSE n

LEMMA CarriedIs ==
  ASSUME NEW rows, NEW o
  PROVE  \A y : y \in Carried(rows, o) <=>
           \E x \in rows : Stays(Self(x), o) /\ y = Followed(x, o)
<1>1. CASE o.does = "delete"
  <2>1. Carried(rows, o) = {x \in rows : Self(x) # o.service}
    BY <1>1 DEF Carried
  <2>2. \A x : Followed(x, o) = x /\ (Stays(Self(x), o) <=> Self(x) # o.service)
    BY <1>1 DEF Followed, Stays
  <2> QED
    BY <2>1, <2>2
<1>2. CASE o.does = "rename"
  <2>1. Carried(rows, o) =
          {IF Self(x) = o.service THEN [x EXCEPT !.name = o.name] ELSE x : x \in rows}
    BY <1>2 DEF Carried
  <2>2. Carried(rows, o) = {Followed(x, o) : x \in rows}
    BY <1>2, <2>1 DEF Followed
  <2>3. \A x : Stays(Self(x), o)
    BY <1>2 DEF Stays
  <2> QED
    BY <2>2, <2>3
<1>3. CASE o.does # "delete" /\ o.does # "rename"
  <2>1. Carried(rows, o) = rows
    BY <1>3 DEF Carried
  <2>2. \A x : Followed(x, o) = x /\ Stays(Self(x), o)
    BY <1>3 DEF Followed, Stays
  <2> QED
    BY <2>1, <2>2
<1> QED
  BY <1>1, <1>2, <1>3

LEMMA SelfOf ==
  /\ \A r, n : Self(Id(r, n)) = Id(r, n) /\ Id(r, n).repo = r /\ Id(r, n).name = n
  /\ \A x : Self(x) = Id(x.repo, x.name)
BY DEF Self, Id

LEMMA IdFollowed ==
  ASSUME NEW r, NEW n, NEW o
  PROVE  Followed(Id(r, n), o).name = NameAfter(r, n, o)
<1>1. Self(Id(r, n)) = Id(r, n)
  BY SelfOf
<1>2. [Id(r, n) EXCEPT !.name = o.name].name = o.name /\ Id(r, n).name = n
  BY DEF Id
<1> QED
  BY <1>1, <1>2 DEF Followed, NameAfter

(* A row keeps its repository and its version. *)
LEMMA RowFollowed ==
  ASSUME NEW x, NEW o, IsRowed(x)
  PROVE  LET y == Followed(x, o)
         IN  /\ IsRowed(y) /\ y.repo = x.repo /\ y.scan = x.scan
             /\ y.name = NameAfter(x.repo, x.name, o)
<1>1. /\ IsRowed([x EXCEPT !.name = o.name])
      /\ [x EXCEPT !.name = o.name].repo = x.repo
      /\ [x EXCEPT !.name = o.name].scan = x.scan
      /\ [x EXCEPT !.name = o.name].name = o.name
  BY DEF IsRowed
<1> QED
  BY <1>1, SelfOf DEF Followed, NameAfter

LEMMA ServiceFollowed ==
  ASSUME NEW x, NEW o, IsService(x)
  PROVE  LET y == Followed(x, o)
         IN  /\ IsService(y) /\ y.repo = x.repo /\ y.scan = x.scan
             /\ y.name = NameAfter(x.repo, x.name, o)
<1>1. /\ IsService([x EXCEPT !.name = o.name])
      /\ [x EXCEPT !.name = o.name].repo = x.repo
      /\ [x EXCEPT !.name = o.name].scan = x.scan
      /\ [x EXCEPT !.name = o.name].name = o.name
  BY DEF IsService
<1> QED
  BY <1>1, SelfOf DEF Followed, NameAfter

LEMMA NamesAre ==
  ASSUME NEW names, NEW r, NEW o
  PROVE  \A m : m \in NamesAfter(names, r, o) <=>
           \E n \in names : Stays(Id(r, n), o) /\ m = NameAfter(r, n, o)
<1> DEFINE rows == {Id(r, n) : n \in names}
<1>1. NamesAfter(names, r, o) = {i.name : i \in Carried(rows, o)}
  BY DEF NamesAfter, Id
<1>2. \A y : y \in Carried(rows, o) <=>
        \E x \in rows : Stays(Self(x), o) /\ y = Followed(x, o)
  BY CarriedIs
<1>3. \A y : y \in Carried(rows, o) <=>
        \E n \in names : Stays(Id(r, n), o) /\ y = Followed(Id(r, n), o)
  BY <1>2, SelfOf
<1> HIDE DEF rows
<1> QED
  BY <1>1, <1>3, IdFollowed

(* The rows of a repository are carried by themselves. *)
LEMMA RowsCarried ==
  ASSUME NEW rows, \A x \in rows : IsRowed(x), NEW q, NEW o
  PROVE  RowsOf(Carried(rows, o), q) = Carried(RowsOf(rows, q), o)
<1>1. \A y : y \in Carried(rows, o) <=>
        \E x \in rows : Stays(Self(x), o) /\ y = Followed(x, o)
  BY CarriedIs
<1>2. \A y : y \in Carried(RowsOf(rows, q), o) <=>
        \E x \in RowsOf(rows, q) : Stays(Self(x), o) /\ y = Followed(x, o)
  BY CarriedIs
<1>3. \A x \in rows : Followed(x, o).repo = x.repo
  BY RowFollowed
<1>4. \A y : y \in RowsOf(Carried(rows, o), q) <=> y \in Carried(RowsOf(rows, q), o)
  BY <1>1, <1>2, <1>3 DEF RowsOf
<1> QED
  BY <1>4

(* Those of one version too. *)
OfVersion(rows, v) == {x \in rows : x.scan = v}

LEMMA VersionCarried ==
  ASSUME NEW rows, \A x \in rows : IsRowed(x), NEW v, NEW o
  PROVE  OfVersion(Carried(rows, o), v) = Carried(OfVersion(rows, v), o)
<1>1. \A y : y \in Carried(rows, o) <=>
        \E x \in rows : Stays(Self(x), o) /\ y = Followed(x, o)
  BY CarriedIs
<1>2. \A y : y \in Carried(OfVersion(rows, v), o) <=>
        \E x \in OfVersion(rows, v) : Stays(Self(x), o) /\ y = Followed(x, o)
  BY CarriedIs
<1>3. \A x \in rows : Followed(x, o).scan = x.scan
  BY RowFollowed
<1>4. \A y : y \in OfVersion(Carried(rows, o), v) <=>
             y \in Carried(OfVersion(rows, v), o)
  BY <1>1, <1>2, <1>3 DEF OfVersion
<1> QED
  BY <1>4

LEMMA NamedCarried ==
  ASSUME NEW q, NEW names, NEW v, NEW o
  PROVE  Carried(Rowed(q, names, v), o) = Rowed(q, NamesAfter(names, q, o), v)
<1> DEFINE Row(n) == [repo |-> q, name |-> n, scan |-> v]
<1>1. \A y : y \in Carried(Rowed(q, names, v), o) <=>
        \E x \in Rowed(q, names, v) : Stays(Self(x), o) /\ y = Followed(x, o)
  BY CarriedIs
<1>2. \A N : \A x : x \in Rowed(q, N, v) <=> \E n \in N : x = Row(n)
  BY DEF Rowed
<1>3. \A n : /\ Self(Row(n)) = Id(q, n)
             /\ Followed(Row(n), o) = Row(NameAfter(q, n, o))
  <2> TAKE n
  <2>1. /\ Self(Row(n)) = Id(q, n)
        /\ [Row(n) EXCEPT !.name = o.name] = Row(o.name)
    BY DEF Self, Id
  <2> QED
    BY <2>1 DEF Followed, NameAfter
<1>4. \A m : m \in NamesAfter(names, q, o) <=>
        \E n \in names : Stays(Id(q, n), o) /\ m = NameAfter(q, n, o)
  BY NamesAre
<1> HIDE DEF Row
<1>5. \A y : y \in Carried(Rowed(q, names, v), o) <=>
              y \in Rowed(q, NamesAfter(names, q, o), v)
  BY <1>1, <1>2, <1>3, <1>4
<1> QED
  BY <1>5

(* A new name that no service has.                                         *)
NameFree(names, r, o) ==
  o.does = "rename" /\ o.service.repo = r => o.name \notin names

LEMMA NameOnce ==
  ASSUME NEW r, NEW o, NEW names, NameFree(names, r, o),
         NEW n \in names, NEW m \in names, NameAfter(r, n, o) = NameAfter(r, m, o)
  PROVE  n = m
<1>1. \A k \in names : o.does = "rename" /\ Id(r, k) = o.service =>
        o.name \notin names /\ \A l : Id(r, l) = o.service => l = k
  BY SelfOf DEF NameFree
<1> QED
  BY <1>1 DEF NameAfter

LEMMA NamesLess ==
  ASSUME NEW r, NEW o, NEW names, NameFree(names, r, o),
         NEW S \in SUBSET names, NEW L \in SUBSET names
  PROVE  /\ NamesAfter(S \ L, r, o) = NamesAfter(S, r, o) \ NamesAfter(L, r, o)
         /\ NamesAfter(S, r, o) \subseteq NamesAfter(names, r, o)
<1>1. \A N : \A m : m \in NamesAfter(N, r, o) <=>
        \E n \in N : Stays(Id(r, n), o) /\ m = NameAfter(r, n, o)
  BY NamesAre
<1>2. \A n, m \in names : NameAfter(r, n, o) = NameAfter(r, m, o) => n = m
  BY NameOnce
<1>3. \A m : m \in NamesAfter(S \ L, r, o) <=>
             m \in NamesAfter(S, r, o) \ NamesAfter(L, r, o)
  BY <1>1, <1>2
<1> QED
  BY <1>1, <1>3

-----------------------------------------------------------------------------
(* The transaction of a scan.                                              *)

(* A call keeps its version; told of the same repository's services it     *)
(* stays with them.                                                        *)
LEMMA CallFollowed ==
  ASSUME NEW calls, \A c \in calls : IsCall(c), NEW o,
         o.does = "rename" => o.service = Id(o.service.repo, o.service.name),
         NEW e \in CarriedCalls(calls, o)
  PROVE  \E c \in calls :
           /\ IsCall(e) /\ e.scan = c.scan
           /\ e.told # "elsewhere" =>
                e.told = c.told /\ e.source.repo = c.source.repo
<1>1. CASE e \in calls
  BY <1>1
<1>2. CASE o.does = "delete"
  BY <1>1, <1>2 DEF CarriedCalls
<1>3. CASE o.does = "rename"
  <2>1. CarriedCalls(calls, o) =
          {[c EXCEPT !.source = Renamed(@, o), !.target = Renamed(@, o)] : c \in calls}
    BY <1>3 DEF CarriedCalls
  <2>2. PICK c \in calls :
          e = [c EXCEPT !.source = Renamed(@, o), !.target = Renamed(@, o)]
    BY <2>1
  <2>3. \A i : Renamed(i, o).repo = i.repo
    <3>1. [Id(o.service.repo, o.service.name) EXCEPT !.name = o.name].repo
            = o.service.repo
      BY DEF Id
    <3> QED
      BY <1>3, <3>1 DEF Renamed
  <2>4. PICK s, t : s = Renamed(c.source, o) /\ t = Renamed(c.target, o)
    OBVIOUS
  <2>5. e = [c EXCEPT !.source = s, !.target = t]
    BY <2>2, <2>4 DEF IsCall
  <2>6. IsCall(e) /\ e.scan = c.scan /\ e.told = c.told /\ e.source = s
    <3>1. IsCall(c)
      OBVIOUS
    <3> QED
      BY <2>5, <3>1 DEF IsCall
  <2> QED
    BY <2>3, <2>4, <2>6
<1>4. CASE o.does = "cut"
  BY <1>1, <1>4 DEF CarriedCalls
<1>5. CASE o.does = "move"
  <2>1. CarriedCalls(calls, o) =
          {IF Called(c) = o.call THEN MovedTo(c, o) ELSE c : c \in calls}
    BY <1>5 DEF CarriedCalls
  <2>2. PICK c \in calls : e = IF Called(c) = o.call THEN MovedTo(c, o) ELSE c
    BY <2>1
  <2>3. CASE e = MovedTo(c, o)
    <3>1. PICK t : t = IF o.source.repo = c.source.repo THEN c.told ELSE "elsewhere"
      OBVIOUS
    <3>2. e = [c EXCEPT !.source = o.source, !.target = o.target, !.told = t]
      BY <2>3, <3>1 DEF MovedTo, IsCall
    <3>3. IsCall(e) /\ e.scan = c.scan /\ e.told = t /\ e.source = o.source
      <4>1. IsCall(c)
        OBVIOUS
      <4> QED
        BY <3>2, <4>1 DEF IsCall
    <3> QED
      BY <3>1, <3>3
  <2> QED
    BY <1>1, <2>2, <2>3
<1>6. CASE o.does \notin {"delete", "rename", "cut", "move"}
  BY <1>1, <1>6 DEF CarriedCalls
<1> QED
  BY <1>2, <1>3, <1>4, <1>5, <1>6

(* The staged override does not disturb what the scan wrote.               *)
LEMMA OverrideHarmless ==
  ASSUME NEW d, NEW w, NEW r, NEW v, InScan(w, d, r, v),
         NEW o, NEW before, NEW new, Takes(o, before, w, new)
  PROVE  LET e == Overridden(w, o)
         IN  /\ InScan(e, d, r, v)
             /\ e.services = Carried(w.services, o)
             /\ e.deps = Carried(w.deps, o)
             /\ e.metadata = Carried(w.metadata, o)
             /\ \A q : NameFree(NamesOf(ServicesOf(w, q)), q, o)
<1> DEFINE e == Overridden(w, o)
<1>1. /\ IsTables(w) /\ w.scans = d.scans /\ DepsOfScans(w) /\ OneRow(w.services)
      /\ \A s \in w.services : /\ IsService(s) /\ s.repo \in Repos
                               /\ s.repo # r => ServiceCurrent(d, s)
      /\ \A c \in w.calls : IsCall(c) /\ CallInScan(d, c, r, v)
  BY DEF InScan
<1>2. ASSUME o.does = "rename"
      PROVE  /\ o.service = Id(o.service.repo, o.service.name)
             /\ Id(o.service.repo, o.name) \notin Selves(w.services)
  <2>1. /\ o.service \in Selves(w.services)
        /\ [o.service EXCEPT !.name = o.name] \notin Selves(w.services)
    BY <1>2 DEF Takes
  <2>2. o.service = Id(o.service.repo, o.service.name)
    BY <2>1, SelfOf DEF Selves
  <2>3. [Id(o.service.repo, o.service.name) EXCEPT !.name = o.name]
          = Id(o.service.repo, o.name)
    BY DEF Id
  <2> QED
    BY <2>1, <2>2, <2>3
<1>3. ASSUME NEW q
      PROVE  NameFree(NamesOf(ServicesOf(w, q)), q, o)
  <2> SUFFICES ASSUME o.does = "rename", o.service.repo = q,
                      NEW s \in w.services, s.repo = q, s.name = o.name
               PROVE  FALSE
    BY DEF NameFree, NamesOf, ServicesOf
  <2>1. Self(s) = Id(q, o.name)
    BY SelfOf
  <2> QED
    BY <1>2, <2>1 DEF Selves
<1>4. e = [w EXCEPT !.services = Carried(w.services, o),
                    !.calls = CarriedCalls(w.calls, o),
                    !.deps = Carried(w.deps, o),
                    !.metadata = Carried(w.metadata, o)]
  BY <1>1 DEF Overridden, IsTables
<1>5. /\ IsTables(e) /\ e.scans = d.scans
      /\ e.services = Carried(w.services, o) /\ e.calls = CarriedCalls(w.calls, o)
      /\ e.deps = Carried(w.deps, o) /\ e.metadata = Carried(w.metadata, o)
  <2> HIDE DEF e
  <2> QED
    BY <1>1, <1>4 DEF IsTables
<1> HIDE DEF e
<1>6. DepsOfScans(e)
  <2>1. ASSUME NEW x \in e.deps
        PROVE  IsRowed(x) /\ x.scan \in 1 .. Cardinality(e.scans)
    <3>1. PICK y \in w.deps : x = Followed(y, o)
      BY <1>5, CarriedIs
    <3>2. IsRowed(y) /\ y.scan \in 1 .. Cardinality(e.scans)
      BY <1>1, <1>5 DEF DepsOfScans
    <3> QED
      BY <3>1, <3>2, RowFollowed
  <2>2. ASSUME NEW x \in e.metadata
        PROVE  IsRowed(x)
    <3>1. PICK y \in w.metadata : x = Followed(y, o)
      BY <1>5, CarriedIs
    <3> QED
      BY <1>1, <3>1, RowFollowed DEF DepsOfScans
  <2> QED
    BY <2>1, <2>2 DEF DepsOfScans
<1>7. ASSUME NEW s \in e.services
      PROVE  \E t \in w.services :
               /\ IsService(s) /\ s.repo = t.repo /\ s.scan = t.scan
               /\ s = Followed(t, o) /\ s.name = NameAfter(t.repo, t.name, o)
  <2>1. PICK t \in w.services : s = Followed(t, o)
    BY <1>5, CarriedIs
  <2> QED
    BY <1>1, <2>1, ServiceFollowed
<1>8. OneRow(e.services)
  <2> SUFFICES ASSUME NEW s \in e.services, NEW t \in e.services,
                      s.repo = t.repo, s.name = t.name
               PROVE  s = t
    BY DEF OneRow
  <2>1. PICK x \in w.services : /\ s.repo = x.repo /\ s = Followed(x, o)
                                /\ s.name = NameAfter(x.repo, x.name, o)
    BY <1>7
  <2>2. PICK y \in w.services : /\ t.repo = y.repo /\ t = Followed(y, o)
                                /\ t.name = NameAfter(y.repo, y.name, o)
    BY <1>7
  <2>3. /\ x.name \in NamesOf(ServicesOf(w, x.repo))
        /\ y.name \in NamesOf(ServicesOf(w, x.repo))
    BY <2>1, <2>2 DEF NamesOf, ServicesOf
  <2>4. x.name = y.name
    <3>1. PICK q : q = x.repo
      OBVIOUS
    <3>2. NameFree(NamesOf(ServicesOf(w, q)), q, o)
      BY <1>3
    <3>3. y.repo = q /\ NameAfter(q, x.name, o) = NameAfter(q, y.name, o)
      BY <2>1, <2>2, <3>1
    <3> QED
      BY <2>3, <3>1, <3>2, <3>3, NameOnce
  <2> QED
    BY <1>1, <2>1, <2>2, <2>4 DEF OneRow
<1>9. ASSUME NEW s \in e.services
      PROVE  /\ IsService(s) /\ s.repo \in Repos
             /\ s.repo # r => ServiceCurrent(d, s)
  BY <1>1, <1>7 DEF ServiceCurrent
<1>10. ASSUME NEW c \in e.calls
       PROVE  IsCall(c) /\ CallInScan(d, c, r, v)
  <2>1. PICK b \in w.calls :
          /\ IsCall(c) /\ c.scan = b.scan
          /\ c.told # "elsewhere" => c.told = b.told /\ c.source.repo = b.source.repo
    BY <1>1, <1>2, <1>5, CallFollowed
  <2> QED
    BY <1>1, <2>1 DEF CallInScan, CallCurrent
<1>11. InScan(e, d, r, v)
  BY <1>5, <1>6, <1>8, <1>9, <1>10 DEF InScan
<1> QED
  BY <1>3, <1>5, <1>11 DEF e

LeavesOthers(w, d, r) ==
  \A q : q # r => /\ ServicesOf(w, q) = ServicesOf(d, q)
                  /\ RowsOf(w.deps, q) = RowsOf(d.deps, q)
                  /\ RowsOf(w.metadata, q) = RowsOf(d.metadata, q)

(* What is left when services of a repository go.                          *)
LEMMA Left ==
  ASSUME NEW d, IsTables(d), NEW r \in Repos, NEW gone,
         \A s \in gone : s.repo = r
  PROVE  LET w == Without(d, gone)
         IN  /\ IsTables(w) /\ w.scans = d.scans
             /\ w.services = d.services \ gone /\ w.calls \subseteq d.calls
             /\ w.deps \subseteq d.deps /\ w.metadata \subseteq d.metadata
             /\ LeavesOthers(w, d, r)
<1> DEFINE w == Without(d, gone)
           ids == Selves(gone)
           C == {c \in d.calls : {c.source, c.target} \cap ids = {}}
           D == {x \in d.deps : Self(x) \notin ids}
           M == {x \in d.metadata : Self(x) \notin ids}
<1>1. w = [d EXCEPT !.services = @ \ gone, !.calls = C, !.deps = D, !.metadata = M]
  BY DEF Without
<1>2. \A x : x.repo # r => Self(x) \notin ids
  BY SelfOf DEF Selves
<1> HIDE DEF w, ids
<1>3. /\ C \subseteq d.calls /\ D \subseteq d.deps /\ M \subseteq d.metadata
      /\ \A q : q # r => /\ RowsOf(D, q) = RowsOf(d.deps, q)
                         /\ RowsOf(M, q) = RowsOf(d.metadata, q)
  BY <1>2 DEF RowsOf
<1> HIDE DEF C, D, M
<1>4. /\ IsTables(w) /\ w.scans = d.scans
      /\ w.services = d.services \ gone /\ w.calls = C /\ w.deps = D
      /\ w.metadata = M
  BY <1>1 DEF IsTables
<1>5. \A q : q # r => ServicesOf(w, q) = ServicesOf(d, q)
  BY <1>4 DEF ServicesOf
<1> QED
  BY <1>3, <1>4, <1>5 DEF w, LeavesOthers

(* The clean-up after the transaction leaves the tables in order.          *)
LEMMA CleanedUp ==
  ASSUME NEW d, TablesOK(d), NEW r \in Repos, NEW gone,
         \A s \in gone : s.repo = r
  PROVE  TablesOK(Without(d, gone))
<1> DEFINE w == Without(d, gone)
<1>0. IsTables(d) /\ ScansNumbered(d) /\ ServicesCurrent(d) /\ CallsCurrent(d)
      /\ DepsOfScans(d)
  BY DEF TablesOK
<1>1. /\ IsTables(w) /\ w.scans = d.scans
      /\ w.services = d.services \ gone /\ w.calls \subseteq d.calls
      /\ w.deps \subseteq d.deps /\ w.metadata \subseteq d.metadata
  BY <1>0, Left
<1> HIDE DEF w
<1>2. \A q : LatestOf(w, q) = LatestOf(d, q)
  BY <1>1 DEF LatestOf, VersionsOf
<1>3. ScansNumbered(w) /\ DepsOfScans(w)
  BY <1>0, <1>1 DEF ScansNumbered, DepsOfScans
<1>4. ServicesCurrent(w) /\ CallsCurrent(w)
  BY <1>0, <1>1, <1>2 DEF ServicesCurrent, OneRow, ServiceCurrent, CallsCurrent,
                          CallCurrent
<1> QED
  BY <1>1, <1>3, <1>4 DEF TablesOK, w

LEMMA ScanCommitted ==
  ASSUME NEW d, TablesOK(d), NEW r \in Repos, NEW v, v = 1 + Cardinality(d.scans),
         NEW w, InScan(w, d, r, v), NEW commit
  PROVE  LET e == Committed(w, r, commit, v)
         IN  /\ TablesOK(e) /\ Follows(e, d, r, v)
             /\ e.deps \subseteq w.deps
             /\ LeavesOthers(e, w, r)
<1> DEFINE stale == {s \in ServicesOf(w, r) : s.scan # v}
           b == Without(w, stale)
           e == Committed(w, r, commit, v)
<1>0. ScansNumbered(d)
  BY DEF TablesOK
<1>1. /\ IsTables(w) /\ w.scans = d.scans /\ DepsOfScans(w) /\ OneRow(w.services)
      /\ \A s \in w.services : /\ IsService(s) /\ s.repo \in Repos
                               /\ s.repo # r => ServiceCurrent(d, s)
      /\ \A c \in w.calls : IsCall(c) /\ CallInScan(d, c, r, v)
  BY DEF InScan
<1>2. \A s : s \in stale <=> s \in w.services /\ s.repo = r /\ s.scan # v
  BY DEF ServicesOf
<1>3. e = [b EXCEPT !.scans = @ \cup {ScanRow(v, r)}, !.state[r] = commit]
  BY DEF Committed, ScanRow
<1> HIDE DEF stale
<1>4. /\ IsTables(b) /\ b.scans = d.scans
      /\ b.services = w.services \ stale /\ b.calls \subseteq w.calls
      /\ b.deps \subseteq w.deps /\ b.metadata \subseteq w.metadata
      /\ LeavesOthers(b, w, r)
  BY <1>1, <1>2, Left
<1> HIDE DEF b, e
<1>5. /\ IsTables(e) /\ e.scans = d.scans \cup {ScanRow(v, r)}
      /\ e.services = b.services /\ e.calls = b.calls /\ e.deps = b.deps
      /\ e.metadata = b.metadata
  BY <1>3, <1>4 DEF IsTables
<1>6. Follows(e, d, r, v)
  BY <1>0, <1>5, NextScan
<1>7. /\ v \in Nat /\ ScansNumbered(e) /\ Cardinality(e.scans) = v
      /\ ScanRow(v, r) \in e.scans /\ d.scans \subseteq e.scans
      /\ LatestOf(e, r) = v
      /\ \A q : q # r => LatestOf(e, q) = LatestOf(d, q)
  BY <1>6 DEF Follows
<1>8. ServicesCurrent(e)
  <2>1. OneRow(e.services)
    BY <1>1, <1>4, <1>5 DEF OneRow
  <2>2. ASSUME NEW s \in e.services
        PROVE  IsService(s) /\ s.repo \in Repos /\ ServiceCurrent(e, s)
    <3>1. s \in w.services /\ (s.repo = r => s.scan = v)
      BY <1>2, <1>4, <1>5
    <3>2. CASE s.repo = r
      BY <1>1, <1>7, <3>1, <3>2 DEF ServiceCurrent
    <3>3. CASE s.repo # r
      BY <1>1, <1>7, <3>1, <3>3 DEF ServiceCurrent
    <3> QED
      BY <3>2, <3>3
  <2> QED
    BY <2>1, <2>2 DEF ServicesCurrent
<1>9. CallsCurrent(e)
  <2> SUFFICES ASSUME NEW c \in e.calls
               PROVE  IsCall(c) /\ CallCurrent(e, c)
    BY DEF CallsCurrent
  <2>1. IsCall(c) /\ CallInScan(d, c, r, v)
    BY <1>1, <1>4, <1>5
  <2>2. CASE c.source.repo = r
    BY <1>7, <2>1, <2>2 DEF CallCurrent, CallInScan
  <2>3. CASE c.source.repo # r
    BY <1>7, <2>1, <2>3 DEF CallCurrent, CallInScan
  <2> QED
    BY <2>2, <2>3
<1>10. DepsOfScans(e)
  <2>1. Cardinality(d.scans) \in Nat
    BY <1>0, FS_CardinalityType DEF ScansNumbered
  <2> QED
    BY <1>1, <1>4, <1>5, <1>7, <2>1 DEF DepsOfScans
<1>11. \A q : ServicesOf(e, q) = ServicesOf(b, q)
  BY <1>5 DEF ServicesOf
<1> QED
  BY <1>4, <1>5, <1>6, <1>7, <1>8, <1>9, <1>10, <1>11 DEF TablesOK, LeavesOthers, e

(* What a scan of r leaves behind, and what an override makes of the rest. *)
ScanLeaves(x, d, r, v, o) ==
  /\ TablesOK(x) /\ Follows(x, d, r, v)
  /\ \A y \in x.deps : y.scan \in 1 .. Cardinality(d.scans)
  /\ \A q : q # r =>
       /\ NameFree(NamesOf(ServicesOf(d, q)), q, o)
       /\ NamesOf(ServicesOf(x, q)) = NamesAfter(NamesOf(ServicesOf(d, q)), q, o)
       /\ RowsOf(x.deps, q) = Carried(RowsOf(d.deps, q), o)
       /\ RowsOf(x.metadata, q) = Carried(RowsOf(d.metadata, q), o)

LEMMA ScanWrites ==
  ASSUME NEW d, TablesOK(d), NEW r \in Repos, NEW found, OneReport(found),
         NEW mode, NEW v, v = 1 + Cardinality(d.scans), NEW commit, NEW o,
         Takes(o, d, Written(d, r, found, mode, v),
               CallsWritten(d, r, found, mode, v)),
         NEW gone, \A s \in gone : s.repo = r
  PROVE  ScanLeaves(Without(Committed(Overridden(Written(d, r, found, mode, v), o),
                                      r, commit, v), gone), d, r, v, o)
<1> DEFINE w == Written(d, r, found, mode, v)
           e == Committed(Overridden(w, o), r, commit, v)
           x == Without(e, gone)
           k == Overridden(w, o)
<1>1. /\ InScan(w, d, r, v)
      /\ w.deps = d.deps /\ w.metadata = d.metadata
      /\ \A s : s.repo # r => (s \in w.services <=> s \in d.services)
  BY FindingsWritten
<1>a. Takes(o, d, w, CallsWritten(d, r, found, mode, v))
  OBVIOUS
<1> HIDE DEF w
<1>2. /\ InScan(k, d, r, v)
      /\ k.services = Carried(w.services, o)
      /\ k.deps = Carried(w.deps, o)
      /\ k.metadata = Carried(w.metadata, o)
      /\ \A q : NameFree(NamesOf(ServicesOf(w, q)), q, o)
  BY <1>1, <1>a, OverrideHarmless
<1> HIDE DEF k, e, x
<1>3. TablesOK(e) /\ Follows(e, d, r, v) /\ e.deps \subseteq k.deps
      /\ LeavesOthers(e, k, r)
  <2>1. e = Committed(k, r, commit, v)
    BY DEF k, e
  <2> QED
    BY <1>2, <2>1, ScanCommitted
<1>4. TablesOK(x)
  BY <1>3, CleanedUp DEF x
<1>5. x.scans = e.scans /\ x.deps \subseteq e.deps /\ LeavesOthers(x, e, r)
  BY <1>3, Left DEF TablesOK, x
<1>6. Follows(x, d, r, v)
  <2>1. ScansNumbered(x) /\ \A q : LatestOf(x, q) = LatestOf(e, q)
    BY <1>4, <1>5 DEF TablesOK, LatestOf, VersionsOf
  <2> QED
    BY <1>3, <1>5, <2>1 DEF Follows
<1>7. \A y \in x.deps : y.scan \in 1 .. Cardinality(d.scans)
  <2>1. \A y \in k.deps : y.scan \in 1 .. Cardinality(d.scans)
    BY <1>2 DEF InScan, DepsOfScans
  <2> QED
    BY <1>3, <1>5, <2>1
<1>8. ASSUME NEW q, q # r
      PROVE  /\ NameFree(NamesOf(ServicesOf(d, q)), q, o)
             /\ NamesOf(ServicesOf(x, q)) =
                  NamesAfter(NamesOf(ServicesOf(d, q)), q, o)
             /\ RowsOf(x.deps, q) = Carried(RowsOf(d.deps, q), o)
             /\ RowsOf(x.metadata, q) = Carried(RowsOf(d.metadata, q), o)
  <2>1. ServicesOf(w, q) = ServicesOf(d, q)
    BY <1>1, <1>8 DEF ServicesOf
  <2>2. /\ ServicesOf(x, q) = ServicesOf(k, q)
        /\ RowsOf(x.deps, q) = RowsOf(k.deps, q)
        /\ RowsOf(x.metadata, q) = RowsOf(k.metadata, q)
    BY <1>3, <1>5, <1>8 DEF LeavesOthers
  <2>3. /\ RowsOf(k.deps, q) = Carried(RowsOf(d.deps, q), o)
        /\ RowsOf(k.metadata, q) = Carried(RowsOf(d.metadata, q), o)
    BY <1>1, <1>2, RowsCarried DEF TablesOK, DepsOfScans
  <2>4. NamesOf(ServicesOf(k, q)) = NamesAfter(NamesOf(ServicesOf(w, q)), q, o)
    <3>1. \A s \in w.services : IsService(s)
      BY <1>1 DEF InScan
    <3>2. \A s : s \in k.services <=>
            \E t \in w.services : Stays(Self(t), o) /\ s = Followed(t, o)
      BY <1>2, CarriedIs
    <3>3. \A t \in w.services : /\ Self(t) = Id(t.repo, t.name)
                                /\ Followed(t, o).repo = t.repo
                                /\ Followed(t, o).name = NameAfter(t.repo, t.name, o)
      BY <3>1, ServiceFollowed, SelfOf
    <3>4. \A m : m \in NamesAfter(NamesOf(ServicesOf(w, q)), q, o) <=>
            \E n \in NamesOf(ServicesOf(w, q)) :
              Stays(Id(q, n), o) /\ m = NameAfter(q, n, o)
      BY NamesAre
    <3>5. \A m : m \in NamesOf(ServicesOf(k, q)) <=>
            \E t \in w.services : /\ t.repo = q /\ Stays(Id(q, t.name), o)
                                  /\ m = NameAfter(q, t.name, o)
      BY <3>2, <3>3 DEF NamesOf, ServicesOf
    <3>6. \A m : m \in NamesAfter(NamesOf(ServicesOf(w, q)), q, o) <=>
            \E t \in w.services : /\ t.repo = q /\ Stays(Id(q, t.name), o)
                                  /\ m = NameAfter(q, t.name, o)
      BY <3>4 DEF NamesOf, ServicesOf
    <3> QED
      BY <3>5, <3>6
  <2> QED
    BY <1>2, <2>1, <2>2, <2>3, <2>4
<1> QED
  BY <1>4, <1>6, <1>7, <1>8 DEF ScanLeaves, w, e, x

-----------------------------------------------------------------------------
(* Every run and every table stays in order.                               *)

(* Process p goes on with x in hand, the others with what they had.        *)
Moves(p, x) ==
  /\ run' = [q \in Runners |-> run'[q]]
  /\ run'[p] = x
  /\ \A q \in Runners : q # p => run'[q] = run[q]

LEMMA Moved ==
  ASSUME NEW p \in Runners, NEW x, run = [q \in Runners |-> run[q]],
         run' = [run EXCEPT ![p] = x]
  PROVE  Moves(p, x)
BY DEF Moves

(* What a run that goes on has in hand, when it is not writing. *)
LEMMA RunGoesOn ==
  ASSUME RunsShaped, RunsApart, CoveredLatest, NEW p \in Runners, NEW x,
         Moves(p, x), RunShape(x), x.set \in {run[p].set, {}},
         \A r \in DOMAIN x.covered : /\ r \in DOMAIN run[p].covered
                                     /\ x.covered[r] = run[p].covered[r],
         db'.scans = db.scans
  PROVE  RunsShaped' /\ RunsApart' /\ CoveredLatest'
<1>1. \A r : LatestOf(db, r)' = LatestOf(db, r)
  BY DEF LatestOf, VersionsOf
<1>2. RunsShaped'
  BY DEF RunsShaped, Moves
<1>3. RunsApart'
  BY DEF RunsApart, Moves
<1>4. CoveredLatest'
  BY <1>1 DEF CoveredLatest, Moves
<1> QED
  BY <1>2, <1>3, <1>4

(* The enrichment and dependency rows are written under known versions.    *)
LEMMA SameMap ==
  ASSUME NEW d, TablesOK(d), NEW e, IsTables(e), e.services = d.services,
         e.calls = d.calls, e.scans = d.scans,
         \A x \in e.deps :
           x \in d.deps \/ (IsRowed(x) /\ x.scan \in 1 .. Cardinality(d.scans)),
         \A x \in e.metadata : x \in d.metadata \/ IsRowed(x)
  PROVE  TablesOK(e)
<1>1. \A r : LatestOf(e, r) = LatestOf(d, r)
  BY DEF LatestOf, VersionsOf
<1>2. ScansNumbered(e)
  BY DEF TablesOK, ScansNumbered
<1>3. ServicesCurrent(e)
  BY <1>1 DEF TablesOK, ServicesCurrent, ServiceCurrent
<1>4. CallsCurrent(e)
  BY <1>1 DEF TablesOK, CallsCurrent, CallCurrent
<1>5. DepsOfScans(e)
  BY DEF TablesOK, DepsOfScans
<1> QED
  BY <1>2, <1>3, <1>4, <1>5 DEF TablesOK

LEMMA NoRunShape == RunShape(NoRun) /\ NoRun.set = {} /\ NoRun.covered = <<>>
                    /\ NoRun.repo = NotFound /\ NoRun.pc = "idle"
BY DEF RunShape, NoRun, IsRun, TailLabels, SnapshotLabels

LEMMA RunsInit == Init => RunsOK
<1> SUFFICES ASSUME Init
             PROVE  RunsOK
  OBVIOUS
<1>1. run = [p \in Runners |-> NoRun] /\ \A p \in Runners : run[p] = NoRun
  BY DEF Init
<1>2. RunsShaped /\ RunsApart /\ CoveredLatest
  BY <1>1, NoRunShape DEF RunsShaped, RunsApart, CoveredLatest
<1>3. db = EmptyDb
  BY DEF Init
<1>4. /\ db.services = {} /\ db.calls = {} /\ db.deps = {} /\ db.scans = {}
      /\ db.metadata = {} /\ IsTables(db)
  BY <1>3 DEF EmptyDb, IsTables
<1>5. ScansNumbered(db)
  BY <1>4, FS_EmptySet DEF ScansNumbered
<1>6. TablesOK(db)
  BY <1>4, <1>5 DEF TablesOK, ServicesCurrent, OneRow, CallsCurrent, DepsOfScans
<1>7. FramesOK
  <2>1. \A r \in Repos : seen[r] = {}
    BY DEF Init
  <2> QED
    BY <2>1 DEF Init, FramesOK
<1> QED
  BY <1>2, <1>6, <1>7 DEF RunsOK

(* A run begins with repositories that no other run holds.                 *)
LEMMA RunBegins ==
  ASSUME Apart, RunsOK, NEW p \in Runners, NEW set \in RepoSets,
         NEW answered \in SUBSET set, BeginRun(p, set, answered)
  PROVE  RunsOK' /\ run'[p].repo = NotFound /\ run[p].repo = NotFound
<1> DEFINE x == [NoRun EXCEPT !.pc = "write", !.set = set, !.todo = answered]
<1>1. RunsShaped /\ RunsApart /\ CoveredLatest /\ TablesOK(db) /\ FramesOK
  BY DEF RunsOK
<1>2. Moves(p, x)
  BY <1>1, Moved DEF BeginRun, RunsShaped
<1>3. RunShape(x) /\ x.set = set /\ DOMAIN x.covered = {} /\ x.repo = NotFound
  <2>1. /\ IsRun(x) /\ x.set = set /\ x.todo = answered /\ x.covered = <<>>
        /\ x.repo = NotFound /\ x.pc = "write"
    <3>1. IsRun(NoRun) /\ NoRun.covered = <<>> /\ NoRun.repo = NotFound
      BY DEF NoRun, IsRun
    <3>2. x = [NoRun EXCEPT !.pc = "write", !.set = set, !.todo = answered]
      OBVIOUS
    <3> HIDE DEF x
    <3> QED
      BY <3>1, <3>2 DEF IsRun
  <2>2. DOMAIN x.covered = {}
    BY <2>1
  <2> QED
    BY <2>1, <2>2 DEF RunShape, TailLabels, SnapshotLabels
<1> HIDE DEF x
<1>4. RunsShaped'
  BY <1>1, <1>2, <1>3 DEF RunsShaped, Moves
<1>5. \A q \in Runners : q # p => run[q].set \cap set = {}
  <2>1. CASE OneRunner
    BY <2>1 DEF OneRunner
  <2>2. CASE \A S, T \in RepoSets : S \cap T # {} => S = T
    <3>1. ASSUME NEW q \in Runners, run[q].set \cap set # {}
          PROVE  FALSE
      <4>1. RunShape(run[q])
        BY <1>1 DEF RunsShaped
      <4>2. run[q].pc # "idle"
        BY <3>1, <4>1, NoRunShape DEF RunShape
      <4>3. run[q].set \in RepoSets
        BY <4>1, <4>2 DEF RunShape
      <4>4. run[q].set = set
        BY <2>2, <3>1, <4>3
      <4> QED
        BY <4>4 DEF BeginRun
    <3> QED
      BY <3>1
  <2> QED
    BY <2>1, <2>2 DEF Apart
<1>6. RunsApart'
  BY <1>1, <1>2, <1>3, <1>5 DEF RunsApart, Moves
<1>7. CoveredLatest'
  <2>1. db' = db
    BY DEF BeginRun
  <2>2. \A r : LatestOf(db, r)' = LatestOf(db, r)
    BY <2>1
  <2> QED
    BY <1>1, <1>2, <1>3, <2>1, <2>2 DEF CoveredLatest, Moves
<1>8. TablesOK(db)' /\ FramesOK'
  BY <1>1 DEF BeginRun, FramesOK, History, LastScan
<1>9. run[p].repo = NotFound
  BY <1>1, NoRunShape DEF RunsShaped, RunShape, BeginRun, At
<1> QED
  BY <1>2, <1>3, <1>4, <1>6, <1>7, <1>8, <1>9 DEF RunsOK, Moves

(* What another run has in hand follows the override. *)
Shifted(x, o) == [x EXCEPT !.left = NamesAfter(x.left, x.repo, o)]

LEMMA ShiftedRun ==
  ASSUME NEW x, RunShape(x), NEW o
  PROVE  LET y == Shifted(x, o)
         IN  /\ RunShape(y) /\ y.set = x.set /\ y.covered = x.covered
             /\ y.repo = x.repo /\ y.pc = x.pc /\ y.found = x.found
             /\ y.file = x.file /\ y.left = NamesAfter(x.left, x.repo, o)
<1> DEFINE y == Shifted(x, o)
<1>1. IsRun(x)
  BY DEF RunShape
<1>2. PICK left : left = NamesAfter(x.left, x.repo, o)
  OBVIOUS
<1>3. y = [x EXCEPT !.left = left]
  BY <1>2 DEF Shifted
<1> HIDE DEF y
<1>4. /\ IsRun(y) /\ y.set = x.set /\ y.covered = x.covered /\ y.todo = x.todo
      /\ y.repo = x.repo /\ y.pc = x.pc /\ y.found = x.found
      /\ y.file = x.file /\ y.left = left
  BY <1>1, <1>3 DEF IsRun
<1>5. x.pc = "idle" => y = NoRun
  <2>1. ASSUME x.pc = "idle"
        PROVE  y = x
    <3>1. x.left = {}
      BY <2>1 DEF RunShape, NoRun
    <3>2. \A m : m \notin NamesAfter({}, x.repo, o)
      BY NamesAre
    <3>3. left = x.left
      BY <1>2, <3>1, <3>2
    <3> QED
      BY <1>1, <1>3, <3>3 DEF IsRun
  <2> QED
    BY <2>1 DEF RunShape
<1>6. RunShape(y)
  BY <1>4, <1>5 DEF RunShape
<1> QED
  BY <1>2, <1>4, <1>6 DEF y

(* A run writes a repository that it alone holds.                          *)
LEMMA RunWrites ==
  ASSUME RunsOK, NEW p \in Runners, NEW r \in run[p].todo,
         NEW found \in Findings[r], NEW mode, NEW commit, NEW tree, NEW o,
         NEW gone, NEW torn,
         PersistScanResult(p, r, found, mode, commit, tree, o, gone, torn)
  PROVE  /\ RunsOK' /\ r \in Repos /\ r \in run[p].set /\ run[p].repo = NotFound
         /\ Follows(db', db, r, NextVersion)
         /\ \A y \in db'.deps : y.scan \in 1 .. Cardinality(db.scans)
         /\ \A q : q # r =>
              /\ NameFree(NamesOf(ServicesOf(db, q)), q, o)
              /\ NamesOf(ServicesOf(db', q)) =
                   NamesAfter(NamesOf(ServicesOf(db, q)), q, o)
              /\ RowsOf(db'.deps, q) = Carried(RowsOf(db.deps, q), o)
              /\ RowsOf(db'.metadata, q) = Carried(RowsOf(db.metadata, q), o)
         /\ \A q \in Runners : q # p => run'[q] = Shifted(run[q], o)
         /\ torn => run'[p].repo = NotFound
         /\ ~torn => /\ run'[p].repo = r /\ run'[p].pc = "wipe"
                     /\ run'[p].found = found
<1> DEFINE v == NextVersion
           cov == run[p].covered
           newcov == [q \in DOMAIN cov \cup {r} |-> IF q = r THEN v ELSE cov[q]]
           wrote == Written(db, r, found, mode, v)
           ended == Committed(Overridden(wrote, o), r, commit, v)
           lost == {s \in ServicesOf(ended, r) : s.name \in gone}
           todo == run[p].todo \ {r}
           x == IF torn THEN [run[p] EXCEPT !.todo = todo]
                ELSE [run[p] EXCEPT !.pc = "wipe", !.todo = todo, !.repo = r,
                                    !.found = found, !.covered = newcov]
<1>1. RunsShaped /\ RunsApart /\ CoveredLatest /\ TablesOK(db) /\ FramesOK
  BY DEF RunsOK
<1>2. /\ run' = [q \in Runners |->
                   IF q # p THEN [run[q] EXCEPT !.left = NamesAfter(@, run[q].repo, o)]
                   ELSE x]
      /\ db' = Without(ended, lost)
      /\ run[p].pc = "write"
      /\ Takes(o, db, wrote, CallsWritten(db, r, found, mode, v))
  <2>1. run' = [q \in Runners |->
                   IF q # p THEN [run[q] EXCEPT !.left = NamesAfter(@, run[q].repo, o)]
                   ELSE x]
    BY DEF PersistScanResult
  <2>2. db' = Without(ended, lost)
    BY DEF PersistScanResult
  <2>3. /\ run[p].pc = "write"
        /\ Takes(o, db, wrote, CallsWritten(db, r, found, mode, v))
    BY DEF PersistScanResult, At
  <2> HIDE DEF x, wrote, lost, ended
  <2> QED
    BY <2>1, <2>2, <2>3
<1>3. RunShape(run[p]) /\ run[p].set \in RepoSets /\ run[p].repo = NotFound
  BY <1>1, <1>2 DEF RunsShaped, RunShape, TailLabels
<1>4. r \in Repos /\ r \in run[p].set /\ r \notin DOMAIN cov /\ NotFound \notin Repos
  BY <1>3, Constant DEF RunShape
<1>5. OneReport(found)
  BY <1>4, Constant DEF OneReport
<1>6. v = 1 + Cardinality(db.scans)
  BY DEF NextVersion
<1>7. \A s \in lost : s.repo = r
  BY DEF ServicesOf
<1>8. wrote = Written(db, r, found, mode, v)
      /\ ended = Committed(Overridden(wrote, o), r, commit, v)
  OBVIOUS
<1> HIDE DEF v, wrote, ended, lost, x
<1>9. /\ TablesOK(db') /\ Follows(db', db, r, v)
      /\ \A y \in db'.deps : y.scan \in 1 .. Cardinality(db.scans)
      /\ \A q : q # r =>
           /\ NameFree(NamesOf(ServicesOf(db, q)), q, o)
           /\ NamesOf(ServicesOf(db', q)) =
                NamesAfter(NamesOf(ServicesOf(db, q)), q, o)
           /\ RowsOf(db'.deps, q) = Carried(RowsOf(db.deps, q), o)
           /\ RowsOf(db'.metadata, q) = Carried(RowsOf(db.metadata, q), o)
  <2>1. TablesOK(db) /\ r \in Repos /\ OneReport(found) /\ v = 1 + Cardinality(db.scans)
    BY <1>1, <1>4, <1>5, <1>6
  <2>2. Takes(o, db, wrote, CallsWritten(db, r, found, mode, v))
        /\ db' = Without(ended, lost)
    BY <1>2
  <2>3. ScanLeaves(Without(ended, lost), db, r, v, o)
    BY <1>7, <1>8, <2>1, <2>2, ScanWrites
  <2> QED
    BY <2>2, <2>3 DEF ScanLeaves
<1>10. /\ IsRun(x) /\ x.set = run[p].set /\ x.todo = run[p].todo \ {r}
       /\ torn => x.covered = cov /\ x.pc = "write" /\ x.repo = NotFound
       /\ ~torn => /\ x.covered = newcov /\ x.pc = "wipe" /\ x.repo = r
                   /\ x.found = found
  <2>1. IsRun(run[p])
    BY <1>3 DEF RunShape
  <2> HIDE DEF newcov
  <2>2. CASE torn
    <3>1. x = [run[p] EXCEPT !.todo = todo]
      BY <2>2 DEF x
    <3> QED
      BY <1>2, <1>3, <2>1, <2>2, <3>1 DEF IsRun
  <2>3. CASE ~torn
    <3>1. x = [run[p] EXCEPT !.pc = "wipe", !.todo = todo, !.repo = r,
                             !.found = found, !.covered = newcov]
      BY <2>3 DEF x
    <3> QED
      BY <1>2, <1>3, <2>1, <2>3, <3>1 DEF IsRun
  <2> QED
    BY <2>2, <2>3
<1>11. RunShape(x)
  <2>1. /\ x.todo \subseteq x.set /\ DOMAIN x.covered \subseteq x.set
        /\ x.todo \cap DOMAIN x.covered = {} /\ x.set \in RepoSets
    BY <1>3, <1>4, <1>10 DEF RunShape
  <2> QED
    BY <1>10, <2>1 DEF RunShape, TailLabels, SnapshotLabels
<1>12. run'[p] = x /\ \A q \in Runners : q # p => run'[q] = Shifted(run[q], o)
  BY <1>2 DEF Shifted
<1>13. run' = [q \in Runners |-> run'[q]]
  BY <1>2
<1>14. ASSUME NEW q \in Runners, q # p
       PROVE  /\ RunShape(run'[q]) /\ run'[q].set = run[q].set
              /\ run'[q].covered = run[q].covered
  <2>1. RunShape(run[q]) /\ run'[q] = Shifted(run[q], o)
    BY <1>1, <1>12, <1>14 DEF RunsShaped
  <2> QED
    BY <2>1, ShiftedRun
<1>15. RunsShaped' /\ RunsApart'
  BY <1>1, <1>10, <1>11, <1>12, <1>13, <1>14 DEF RunsShaped, RunsApart
<1>16. CoveredLatest'
  <2> SUFFICES ASSUME NEW q \in Runners, NEW s \in DOMAIN run'[q].covered
               PROVE  /\ run'[q].covered[s] = LatestOf(db', s)
                      /\ ScanRow(run'[q].covered[s], s) \in db'.scans
    BY DEF CoveredLatest
  <2>1. CASE q = p /\ s = r
    BY <1>4, <1>9, <1>10, <1>12, <2>1 DEF Follows
  <2>2. CASE ~(q = p /\ s = r)
    <3>1. s \in DOMAIN run[q].covered /\ run'[q].covered[s] = run[q].covered[s]
      BY <1>10, <1>12, <1>14, <2>2
    <3>2. s # r
      BY <1>1, <1>4, <2>2, <3>1 DEF RunsApart, RunsShaped, RunShape
    <3>3. run[q].covered[s] = LatestOf(db, s) /\ ScanRow(run[q].covered[s], s) \in db.scans
      BY <1>1, <3>1 DEF CoveredLatest
    <3> QED
      BY <1>9, <3>1, <3>2, <3>3 DEF Follows
  <2> QED
    BY <2>1, <2>2
<1>17. FramesOK'
  <2>1. /\ seen' = [q \in Repos |->
             IF q = r THEN tree \cap {s.name : s \in ServicesOf(db', r)}
             ELSE NamesAfter(seen[q], q, o)]
        /\ reported' = [reported EXCEPT ![r] = {f.name : f \in found.services}]
    BY DEF PersistScanResult
  <2>2. clean' \subseteq clean \cup {r}
    BY DEF PersistScanResult, Fails
  <2>3. ASSUME NEW q \in Repos
        PROVE  seen'[q] \subseteq NamesOf(ServicesOf(db', q))
    <3>1. CASE q = r
      BY <2>1, <3>1 DEF NamesOf
    <3>2. CASE q # r
      <4>1. seen[q] \subseteq NamesOf(ServicesOf(db, q))
        BY <1>1 DEF FramesOK
      <4>2. /\ NameFree(NamesOf(ServicesOf(db, q)), q, o)
            /\ NamesOf(ServicesOf(db', q)) =
                 NamesAfter(NamesOf(ServicesOf(db, q)), q, o)
        BY <1>9, <3>2
      <4>3. NamesAfter(seen[q], q, o)
              \subseteq NamesAfter(NamesOf(ServicesOf(db, q)), q, o)
        BY <4>1, <4>2, NamesLess
      <4> QED
        BY <2>1, <3>2, <4>2, <4>3
    <3> QED
      BY <3>1, <3>2
  <2> QED
    BY <1>1, <1>4, <2>1, <2>2, <2>3 DEF FramesOK
<1>18. RunsOK'
  BY <1>9, <1>15, <1>16, <1>17 DEF RunsOK
<1> QED
  BY <1>3, <1>4, <1>9, <1>10, <1>12, <1>18 DEF v

-----------------------------------------------------------------------------
(* The tail of one repository, and what the others see of it.              *)

(* A step that is about other repositories. *)
SameFor(r) ==
  /\ RowsOf(db.deps, r)' = RowsOf(db.deps, r)
  /\ RowsOf(db.metadata, r)' = RowsOf(db.metadata, r)
  /\ RowsOf(records, r)' = RowsOf(records, r)
  /\ ServicesOf(db, r)' = ServicesOf(db, r)
  /\ LatestOf(db, r)' = LatestOf(db, r)
  /\ seen'[r] = seen[r] /\ reported'[r] = reported[r]
  /\ r \in synced' <=> r \in synced
  /\ r \in clean' => r \in clean

LEMMA TailKept ==
  ASSUME NEW r \in Repos, TailSound(r), NEW p \in Runners, SameFor(r),
         \A q \in Runners : q # p => run'[q] = run[q],
         run[p].repo # r, run'[p].repo # r
  PROVE  TailSound(r)'
<1> SUFFICES ASSUME r \in clean'
             PROVE  /\ (\A q \in Runners : run'[q].repo # r) => Settled(r)'
                    /\ \A q \in Runners : run'[q].repo = r => Progress(q, r)'
  BY DEF TailSound
<1>1. r \in clean
  BY DEF SameFor
<1>2. Settled(r) => Settled(r)'
  BY DEF SameFor, Settled, SettledAs
<1>3. ASSUME \A q \in Runners : run'[q].repo # r
      PROVE  Settled(r)'
  <2>1. \A q \in Runners : run[q].repo # r
    BY <1>3
  <2>2. Settled(r)
    BY <1>1, <2>1 DEF TailSound
  <2> QED
    BY <1>2, <2>2
<1>4. ASSUME NEW q \in Runners, run'[q].repo = r
      PROVE  Progress(q, r)'
  <2>1. q # p /\ run'[q] = run[q] /\ run[q].repo = r
    BY <1>4
  <2>2. Progress(q, r)
    BY <1>1, <2>1 DEF TailSound
  <2> QED
    BY <2>1, <2>2 DEF Progress, ProgressAs, SameFor
<1> QED
  BY <1>3, <1>4

(* A run in the tail of a repository is alone with it. *)
LEMMA TailHolds ==
  ASSUME RunsOK, NEW p \in Runners, run[p].pc \in TailLabels
  PROVE  LET r == run[p].repo
         IN  /\ r \in Repos /\ r # NotFound
             /\ run[p].covered[r] = LatestOf(db, r)
             /\ LatestOf(db, r) \in 1 .. Cardinality(db.scans)
             /\ \A q \in Runners : q # p => run[q].repo # r
<1> DEFINE r == run[p].repo
<1>1. RunsShaped /\ RunsApart /\ CoveredLatest /\ ScansNumbered(db)
  BY DEF RunsOK, TablesOK
<1>2. RunShape(run[p]) /\ run[p].set \in RepoSets /\ r \in DOMAIN run[p].covered
  BY <1>1 DEF RunsShaped, RunShape, TailLabels
<1>3. r \in run[p].set /\ r \in Repos /\ r # NotFound
  BY <1>2, Constant DEF RunShape
<1>4. run[p].covered[r] = LatestOf(db, r) /\ ScanRow(LatestOf(db, r), r) \in db.scans
  BY <1>1, <1>2 DEF CoveredLatest
<1>5. LatestOf(db, r) \in 1 .. Cardinality(db.scans)
  <2>1. ScanRow(LatestOf(db, r), r).id \in 1 .. Cardinality(db.scans)
    BY <1>1, <1>4 DEF ScansNumbered
  <2> QED
    BY <2>1 DEF ScanRow
<1>6. ASSUME NEW q \in Runners, q # p, run[q].repo = r
      PROVE  FALSE
  <2>1. RunShape(run[q])
    BY <1>1 DEF RunsShaped
  <2>2. r \in run[q].set
    BY <1>3, <1>6, <2>1 DEF RunShape
  <2> QED
    BY <1>1, <1>3, <1>6, <2>2 DEF RunsApart
<1> QED
  BY <1>3, <1>4, <1>5, <1>6

(* A step of the tail leaves the runs and the tables in order.             *)
LEMMA TailRuns ==
  ASSUME RunsOK, NEW p \in Runners, run[p].pc \in TailLabels,
         NEW x, Moves(p, x), IsRun(x), x.set = run[p].set,
         x.todo = run[p].todo, x.covered = run[p].covered,
         \/ x.pc \in TailLabels /\ x.repo = run[p].repo
         \/ x.pc = "write" /\ x.repo = NotFound,
         TablesOK(db'), db'.scans = db.scans, FramesOK'
  PROVE  RunsOK'
<1>1. RunsShaped /\ RunsApart /\ CoveredLatest
  BY DEF RunsOK
<1>2. RunShape(run[p])
  BY <1>1 DEF RunsShaped
<1>3. RunShape(x)
  BY <1>2 DEF RunShape, TailLabels, SnapshotLabels
<1>4. RunsShaped' /\ RunsApart' /\ CoveredLatest'
  BY <1>1, <1>3, RunGoesOn
<1> QED
  BY <1>4 DEF RunsOK

LEMMA SameTables ==
  ASSUME NEW r, db'.services = db.services, db'.scans = db.scans,
         RowsOf(db'.deps, r) = RowsOf(db.deps, r),
         RowsOf(db'.metadata, r) = RowsOf(db.metadata, r),
         RowsOf(records', r) = RowsOf(records, r),
         seen'[r] = seen[r], reported'[r] = reported[r],
         r \in synced' <=> r \in synced, r \in clean' => r \in clean
  PROVE  SameFor(r)
<1>1. ServicesOf(db, r)' = ServicesOf(db, r) /\ LatestOf(db, r)' = LatestOf(db, r)
  BY DEF ServicesOf, LatestOf, VersionsOf
<1> QED
  BY <1>1 DEF SameFor

(* The repository of a run is alone in its tail. *)
LEMMA TailOfRun ==
  ASSUME NEW p \in Runners, NEW r, run'[p].repo = r,
         \A q \in Runners : q # p => run'[q].repo # r,
         r \in clean' => Progress(p, r)'
  PROVE  TailSound(r)'
BY DEF TailSound

(* The enrichment rows of the repository go; those of others stay.         *)
LEMMA StepWipes ==
  ASSUME TInv, NEW p \in Runners, WipeMetadata(p) \/ WipeThrew(p)
  PROVE  TInv'
<1>0. PICK r : r = run[p].repo
  OBVIOUS
<1> DEFINE names == NamesOf(ServicesOf(db, r))
           x == [run[p] EXCEPT !.pc = "enrich", !.left = names]
<1>1. RunsOK /\ TablesOK(db) /\ RunsShaped /\ FramesOK /\ TailsSound
  BY DEF TInv, RunsOK
<1>2. run[p].pc = "wipe" /\ run[p].pc \in TailLabels /\ RunShape(run[p])
  BY <1>1 DEF WipeMetadata, WipeThrew, At, TailLabels, RunsShaped
<1>3. /\ r \in Repos /\ \A q \in Runners : q # p => run[q].repo # r
  BY <1>0, <1>1, <1>2, TailHolds
<1>4. Moves(p, x)
  <2>1. run' = [run EXCEPT ![p] = x]
    <3>1. run' = [run EXCEPT ![p].pc = "enrich", ![p].left = names]
      BY <1>0 DEF WipeMetadata, WipeThrew, Enriching, NamesOf
    <3> HIDE DEF names
    <3>2. run = [q \in Runners |-> run[q]]
      BY <1>1 DEF RunsShaped
    <3> QED
      BY <3>1, <3>2
  <2> QED
    BY <1>1, <2>1, Moved DEF RunsShaped
<1>5. /\ IsRun(x) /\ x.set = run[p].set /\ x.todo = run[p].todo
      /\ x.covered = run[p].covered /\ x.repo = r /\ x.pc = "enrich"
      /\ x.left = names /\ x.found = run[p].found
  <2>1. x = [run[p] EXCEPT !.pc = "enrich", !.left = names]
    OBVIOUS
  <2> HIDE DEF x, names
  <2> QED
    BY <1>0, <1>2, <2>1 DEF RunShape, IsRun
<1> HIDE DEF x
<1>6. /\ IsTables(db') /\ db'.services = db.services /\ db'.calls = db.calls
      /\ db'.scans = db.scans /\ db'.deps = db.deps
      /\ WipeMetadata(p) => db'.metadata = OfOthers(db.metadata, r)
      /\ WipeThrew(p) => db'.metadata = db.metadata
  BY <1>0, <1>1 DEF WipeMetadata, WipeThrew, Enriching, TablesOK, IsTables
<1>7. TablesOK(db')
  <2>1. \A y \in db'.metadata : y \in db.metadata
    BY <1>6 DEF OfOthers
  <2> QED
    BY <1>1, <1>6, <2>1, SameMap
<1>8. /\ records' = records /\ LastScan' = LastScan /\ synced' = synced
      /\ WipeMetadata(p) => clean' = clean
      /\ WipeThrew(p) => clean' = clean \ {r}
  BY <1>0 DEF WipeMetadata, WipeThrew, Fails, History
<1>9. RunsOK'
  <2>1. FramesOK'
    BY <1>1, <1>6, <1>8 DEF FramesOK, LastScan, ServicesOf
  <2> QED
    BY <1>0, <1>1, <1>2, <1>4, <1>5, <1>6, <1>7, <2>1, TailRuns DEF TailLabels
<1>10. \A q \in Runners : q # p => run'[q] = run[q]
  BY <1>4 DEF Moves
<1>11. ASSUME NEW q \in Repos, q # r
       PROVE  TailSound(q)'
  <2>1. RowsOf(OfOthers(db.metadata, r), q) = RowsOf(db.metadata, q)
    BY <1>11 DEF RowsOf, OfOthers
  <2>2. SameFor(q)
    BY <1>6, <1>8, <2>1, SameTables DEF LastScan
  <2>3. run'[p].repo # q
    BY <1>4, <1>5, <1>11 DEF Moves
  <2> QED
    BY <1>0, <1>1, <1>10, <1>11, <2>2, <2>3, TailKept DEF TailsSound
<1>12. TailSound(r)'
  <2>1. ASSUME r \in clean'
        PROVE  Progress(p, r)'
    <3>1. WipeMetadata(p) /\ r \in clean /\ Progress(p, r)
      BY <1>0, <1>1, <1>3, <1>8, <2>1 DEF TailsSound, TailSound
    <3>2. ServicesOf(db, r)' = ServicesOf(db, r) /\ LatestOf(db, r)' = LatestOf(db, r)
      BY <1>6 DEF ServicesOf, LatestOf, VersionsOf
    <3>3. RowsOf(db.metadata, r)' = {}
      BY <1>6, <3>1 DEF RowsOf, OfOthers
    <3>4. seen[r] \ x.left = {}
      BY <1>1, <1>3, <1>5 DEF FramesOK
    <3>5. \A v : Rowed(r, {}, v) = {}
      BY DEF Rowed
    <3>7. ProgressAs(x, r, RowsOf(db.deps, r), {}, RowsOf(records, r), names,
                     LatestOf(db, r), seen[r], synced, reported[r])
      <4> HIDE DEF names
      <4> QED
        BY <1>2, <1>5, <3>1, <3>4, <3>5 DEF Progress, ProgressAs, names
    <3> QED
      BY <1>4, <1>6, <1>8, <3>2, <3>3, <3>7 DEF Progress, Moves, LastScan
  <2>2. run'[p].repo = r
    BY <1>4, <1>5 DEF Moves
  <2> QED
    BY <1>3, <1>10, <2>1, <2>2, TailOfRun
<1> QED
  BY <1>9, <1>11, <1>12 DEF TInv, TailsSound

(* One more service has its rows.                                          *)
LEMMA PutOwn ==
  ASSUME NEW rows, NEW r, NEW n, NEW v
  PROVE  RowsOf(Put(rows, r, n, v), r) =
           {x \in RowsOf(rows, r) : x.name # n} \cup Rowed(r, {n}, v)
BY DEF RowsOf, Put, Rowed

LEMMA PutOther ==
  ASSUME NEW rows, NEW r, NEW n, NEW v, NEW w, w # r
  PROVE  RowsOf(Put(rows, r, n, v), w) = RowsOf(rows, w)
BY DEF RowsOf, Put

LEMMA RowedScan ==
  ASSUME NEW r, NEW v, NEW N
  PROVE  \A y \in Rowed(r, N, v) : y.name \in N /\ y.scan = v /\ y.repo = r
BY DEF Rowed

LEMMA StepEnriches ==
  ASSUME TInv, NEW p \in Runners, EnrichService(p) \/ CollectorThrew(p)
  PROVE  TInv'
<1>0. PICK r : r = run[p].repo
  OBVIOUS
<1>n. PICK n : n = CHOOSE m \in run[p].left : TRUE
  OBVIOUS
<1> DEFINE names == NamesOf(ServicesOf(db, r))
           v == LatestOf(db, r)
           x == [run[p] EXCEPT !.left = run[p].left \ {n}]
<1>1. RunsOK /\ TablesOK(db) /\ RunsShaped /\ FramesOK /\ TailsSound
  BY DEF TInv, RunsOK
<1>2. /\ run[p].pc = "enrich" /\ run[p].pc \in TailLabels /\ RunShape(run[p])
      /\ n \in run[p].left
  BY <1>1, <1>n DEF EnrichService, CollectorThrew, At, TailLabels, RunsShaped
<1>3. /\ r \in Repos /\ \A q \in Runners : q # p => run[q].repo # r
      /\ run[p].covered[r] = v /\ v \in 1 .. Cardinality(db.scans)
  BY <1>0, <1>1, <1>2, TailHolds
<1>4. Moves(p, x)
  <2>1. run' = [run EXCEPT ![p] = x]
    <3>1. run' = [run EXCEPT ![p].left = @ \ {n}]
      BY <1>n DEF EnrichService, CollectorThrew
    <3>2. run = [q \in Runners |-> run[q]]
      BY <1>1 DEF RunsShaped
    <3> QED
      BY <3>1, <3>2
  <2> QED
    BY <1>1, <2>1, Moved DEF RunsShaped
<1>5. /\ IsRun(x) /\ x.set = run[p].set /\ x.todo = run[p].todo
      /\ x.covered = run[p].covered /\ x.repo = r /\ x.pc = "enrich"
      /\ x.left = run[p].left \ {n} /\ x.found = run[p].found
  <2>1. x = [run[p] EXCEPT !.left = run[p].left \ {n}]
    OBVIOUS
  <2> HIDE DEF x
  <2> QED
    BY <1>0, <1>2, <2>1 DEF RunShape, IsRun
<1> HIDE DEF x, v
<1>6. /\ IsTables(db') /\ db'.services = db.services /\ db'.calls = db.calls
      /\ db'.scans = db.scans
      /\ \/ db'.deps = db.deps /\ db'.metadata = db.metadata
         \/ db'.deps = Put(db.deps, r, n, v) /\ db'.metadata = Put(db.metadata, r, n, v)
      /\ EnrichService(p) /\ n \notin seen[r] =>
           db'.deps = db.deps /\ db'.metadata = db.metadata
      /\ EnrichService(p) /\ n \in seen[r] =>
           db'.deps = Put(db.deps, r, n, v) /\ db'.metadata = Put(db.metadata, r, n, v)
  <2>0. IsTables(db)
    BY <1>1 DEF TablesOK
  <2>1. CASE EnrichService(p)
    <3>1. db' = Enriched(db, p, n)
      BY <1>n, <2>1 DEF EnrichService
    <3>2. CASE n \notin seen[r]
      BY <1>0, <2>0, <3>1, <3>2 DEF Enriched
    <3>3. CASE n \in seen[r]
      <4>1. db' = [db EXCEPT !.metadata = Put(@, r, n, v), !.deps = Put(@, r, n, v)]
        BY <1>0, <1>3, <3>1, <3>3 DEF Enriched
      <4> QED
        BY <2>0, <3>3, <4>1 DEF IsTables
    <3> QED
      BY <3>2, <3>3
  <2>2. CASE CollectorThrew(p) /\ ~EnrichService(p)
    BY <2>0, <2>2 DEF CollectorThrew
  <2> QED
    BY <2>1, <2>2
<1>7. TablesOK(db')
  <2>1. ASSUME NEW rows, NEW y \in Put(rows, r, n, v)
        PROVE  y \in rows \/ (IsRowed(y) /\ y.scan = v)
    <3>1. y \in rows \/ y = [repo |-> r, name |-> n, scan |-> v]
      BY DEF Put
    <3> QED
      BY <3>1 DEF IsRowed
  <2>2. /\ \A y \in db'.deps :
             y \in db.deps \/ (IsRowed(y) /\ y.scan \in 1 .. Cardinality(db.scans))
        /\ \A y \in db'.metadata : y \in db.metadata \/ IsRowed(y)
    <3>1. CASE db'.deps = db.deps /\ db'.metadata = db.metadata
      BY <3>1
    <3>2. CASE db'.deps = Put(db.deps, r, n, v) /\ db'.metadata = Put(db.metadata, r, n, v)
      BY <1>3, <2>1, <3>2
    <3> QED
      BY <1>6, <3>1, <3>2
  <2> QED
    BY <1>1, <1>6, <2>2, SameMap
<1>8. /\ records' = records /\ LastScan' = LastScan /\ synced' = synced
      /\ EnrichService(p) => clean' = clean
      /\ CollectorThrew(p) => clean' = clean \ {r}
  BY <1>0 DEF EnrichService, CollectorThrew, Fails, History
<1>9. RunsOK'
  <2>1. FramesOK'
    BY <1>1, <1>6, <1>8 DEF FramesOK, LastScan, ServicesOf
  <2> QED
    BY <1>0, <1>1, <1>2, <1>4, <1>5, <1>6, <1>7, <2>1, TailRuns DEF TailLabels
<1>10. \A q \in Runners : q # p => run'[q] = run[q]
  BY <1>4 DEF Moves
<1>11. ASSUME NEW q \in Repos, q # r
       PROVE  TailSound(q)'
  <2>1. RowsOf(db'.deps, q) = RowsOf(db.deps, q)
        /\ RowsOf(db'.metadata, q) = RowsOf(db.metadata, q)
    BY <1>6, <1>11, PutOther
  <2>2. SameFor(q)
    BY <1>6, <1>8, <2>1, SameTables DEF LastScan
  <2>3. run'[p].repo # q
    BY <1>4, <1>5, <1>11 DEF Moves
  <2> QED
    BY <1>0, <1>1, <1>10, <1>11, <2>2, <2>3, TailKept DEF TailsSound
<1>12. TailSound(r)'
  <2>1. ASSUME r \in clean'
        PROVE  Progress(p, r)'
    <3>1. EnrichService(p) /\ r \in clean /\ Progress(p, r)
      BY <1>0, <1>1, <1>3, <1>8, <2>1 DEF TailsSound, TailSound
    <3>2. ServicesOf(db, r)' = ServicesOf(db, r) /\ LatestOf(db, r)' = v
      BY <1>6 DEF ServicesOf, LatestOf, VersionsOf, v
    <3> DEFINE done == seen[r] \ run[p].left
               after == seen[r] \ x.left
               D == RowsOf(db.deps, r)
               E == RowsOf(db'.deps, r)
               mine == {y \in D : y.scan = v}
               here == {y \in E : y.scan = v}
               M == RowsOf(db.metadata, r)
               N == RowsOf(db'.metadata, r)
    <3>3. /\ run[p].left \subseteq names
          /\ NamesOf(run[p].found.services) = reported[r]
          /\ mine = Rowed(r, done, v) /\ M = Rowed(r, done, v)
          /\ r \notin synced
      <4> HIDE DEF names
      <4> QED
        BY <1>2, <3>1 DEF Progress, ProgressAs, names, v
    <3> HIDE DEF names, D, E, M, N
    <3>5. here = Rowed(r, after, v) /\ N = Rowed(r, after, v)
      <4>1. CASE n \notin seen[r]
        <5>1. after = done
          BY <1>5, <4>1
        <5>2. E = D /\ N = M
          BY <1>6, <3>1, <3>3, <4>1 DEF D, E, M, N
        <5> QED
          BY <3>3, <5>1, <5>2
      <4>2. CASE n \in seen[r]
        <5>1. after = (done \ {n}) \cup {n}
          BY <1>2, <1>5, <4>2
        <5>2. /\ E = {y \in D : y.name # n} \cup Rowed(r, {n}, v)
              /\ N = {y \in M : y.name # n} \cup Rowed(r, {n}, v)
          <6>1. /\ db'.deps = Put(db.deps, r, n, v)
                /\ db'.metadata = Put(db.metadata, r, n, v)
            BY <1>6, <3>1, <3>3, <4>2
          <6>2. E = {y \in D : y.name # n} \cup Rowed(r, {n}, v)
            BY <6>1, PutOwn DEF D, E
          <6>3. N = {y \in M : y.name # n} \cup Rowed(r, {n}, v)
            BY <6>1, PutOwn DEF M, N
          <6> QED
            BY <6>2, <6>3
        <5> HIDE DEF after, done
        <5>3. N = Rowed(r, after, v)
          BY <3>3, <5>1, <5>2 DEF Rowed
        <5>4. \A y \in Rowed(r, {n}, v) : y.scan = v
          BY RowedScan
        <5>5. here = {y \in mine : y.name # n} \cup Rowed(r, {n}, v)
          BY <5>2, <5>4
        <5> HIDE DEF mine, here
        <5>6. here = Rowed(r, after, v)
          BY <3>3, <5>1, <5>5 DEF Rowed
        <5> QED
          BY <5>3, <5>6
      <4> QED
        BY <4>1, <4>2
    <3>6. x.left \subseteq names
      BY <1>5, <3>3
    <3>7. ProgressAs(x, r, E, N, RowsOf(records, r), names, v, seen[r], synced, reported[r])
      BY <1>5, <3>3, <3>5, <3>6 DEF ProgressAs
    <3> QED
      BY <1>4, <1>6, <1>8, <3>2, <3>7 DEF Progress, Moves, LastScan, E, N, names
  <2>2. run'[p].repo = r
    BY <1>4, <1>5 DEF Moves
  <2> QED
    BY <1>3, <1>10, <2>1, <2>2, TailOfRun
<1> QED
  BY <1>9, <1>11, <1>12 DEF TInv, TailsSound

(* The dependencies of older scans go.                                     *)
LEMMA StepSweeps ==
  ASSUME TInv, NEW p \in Runners, SweepDependencies(p) \/ SweepThrew(p)
  PROVE  TInv'
<1>0. PICK r : r = run[p].repo
  OBVIOUS
<1> DEFINE names == NamesOf(ServicesOf(db, r))
           v == LatestOf(db, r)
           x == [run[p] EXCEPT !.pc = "delete"]
           fresh == {y \in db.deps : ~(y.repo = r /\ y.scan # v)}
<1>1. RunsOK /\ TablesOK(db) /\ RunsShaped /\ FramesOK /\ TailsSound
  BY DEF TInv, RunsOK
<1>2. /\ run[p].pc = "enrich" /\ run[p].pc \in TailLabels /\ RunShape(run[p])
      /\ run[p].left = {}
  BY <1>1 DEF SweepDependencies, SweepThrew, At, TailLabels, RunsShaped
<1>3. /\ r \in Repos /\ \A q \in Runners : q # p => run[q].repo # r
      /\ run[p].covered[r] = v
  BY <1>0, <1>1, <1>2, TailHolds
<1>4. Moves(p, x)
  <2>1. run' = [run EXCEPT ![p].pc = "delete"]
    BY DEF SweepDependencies, SweepThrew, Goto
  <2>2. run = [q \in Runners |-> run[q]]
    BY <1>1 DEF RunsShaped
  <2>3. run' = [run EXCEPT ![p] = x]
    BY <2>1, <2>2
  <2> QED
    BY <2>2, <2>3, Moved
<1>5. /\ IsRun(x) /\ x.set = run[p].set /\ x.todo = run[p].todo
      /\ x.covered = run[p].covered /\ x.repo = r /\ x.pc = "delete"
      /\ x.left = {} /\ x.found = run[p].found
  <2>1. x = [run[p] EXCEPT !.pc = "delete"]
    OBVIOUS
  <2> HIDE DEF x
  <2> QED
    BY <1>0, <1>2, <2>1 DEF RunShape, IsRun
<1> HIDE DEF x, v
<1>6. /\ IsTables(db') /\ db'.services = db.services /\ db'.calls = db.calls
      /\ db'.scans = db.scans /\ db'.metadata = db.metadata
      /\ db'.deps \in {fresh, db.deps}
      /\ SweepDependencies(p) => db'.deps = fresh
  <2>0. IsTables(db)
    BY <1>1 DEF TablesOK
  <2>1. db.deps \ StaleDeps(p) = fresh
    BY <1>0, <1>3 DEF StaleDeps
  <2> HIDE DEF fresh
  <2>2. CASE SweepDependencies(p)
    <3>1. db' = [db EXCEPT !.deps = fresh]
      BY <2>1, <2>2 DEF SweepDependencies
    <3> QED
      BY <2>0, <2>2, <3>1 DEF IsTables
  <2>3. CASE SweepThrew(p) /\ ~SweepDependencies(p)
    BY <2>0, <2>3 DEF SweepThrew
  <2> QED
    BY <2>2, <2>3
<1>7. TablesOK(db')
  <2>1. \A y \in db'.deps : y \in db.deps
    BY <1>6
  <2> QED
    BY <1>1, <1>6, <2>1, SameMap
<1>8. /\ records' = records /\ LastScan' = LastScan /\ synced' = synced
      /\ SweepDependencies(p) => clean' = clean
      /\ SweepThrew(p) => clean' = clean \ {r}
  BY <1>0 DEF SweepDependencies, SweepThrew, Fails, History
<1>9. RunsOK'
  <2>1. FramesOK'
    BY <1>1, <1>6, <1>8 DEF FramesOK, LastScan, ServicesOf
  <2> QED
    BY <1>0, <1>1, <1>2, <1>4, <1>5, <1>6, <1>7, <2>1, TailRuns DEF TailLabels
<1>10. \A q \in Runners : q # p => run'[q] = run[q]
  BY <1>4 DEF Moves
<1>11. ASSUME NEW q \in Repos, q # r
       PROVE  TailSound(q)'
  <2>1. RowsOf(db'.deps, q) = RowsOf(db.deps, q)
        /\ RowsOf(db'.metadata, q) = RowsOf(db.metadata, q)
    BY <1>6, <1>11 DEF RowsOf
  <2>2. SameFor(q)
    BY <1>6, <1>8, <2>1, SameTables DEF LastScan
  <2>3. run'[p].repo # q
    BY <1>4, <1>5, <1>11 DEF Moves
  <2> QED
    BY <1>0, <1>1, <1>10, <1>11, <2>2, <2>3, TailKept DEF TailsSound
<1>12. TailSound(r)'
  <2>1. ASSUME r \in clean'
        PROVE  Progress(p, r)'
    <3>1. SweepDependencies(p) /\ r \in clean /\ Progress(p, r)
      BY <1>0, <1>1, <1>3, <1>8, <2>1 DEF TailsSound, TailSound
    <3>2. ServicesOf(db, r)' = ServicesOf(db, r) /\ LatestOf(db, r)' = v
      BY <1>6 DEF ServicesOf, LatestOf, VersionsOf, v
    <3> DEFINE D == RowsOf(db.deps, r)
               E == RowsOf(db'.deps, r)
               M == RowsOf(db.metadata, r)
               mine == {y \in D : y.scan = v}
    <3>3. E = mine
      BY <1>6, <3>1 DEF RowsOf
    <3> HIDE DEF D, E, M
    <3>4. ProgressAs(run[p], r, D, M, RowsOf(records, r), names, v, seen[r], synced, reported[r])
      BY <3>1 DEF Progress, D, M, v
    <3> HIDE DEF names
    <3>5. seen[r] \ run[p].left = seen[r]
      BY <1>2
    <3>6. /\ NamesOf(run[p].found.services) = reported[r]
          /\ mine = Rowed(r, seen[r], v) /\ M = Rowed(r, seen[r], v)
          /\ r \notin synced
      BY <1>2, <3>4, <3>5 DEF ProgressAs
    <3>7. ProgressAs(x, r, E, M, RowsOf(records, r), names, v, seen[r], synced, reported[r])
      BY <1>5, <3>3, <3>6 DEF ProgressAs
    <3> QED
      BY <1>4, <1>6, <1>8, <3>2, <3>7 DEF Progress, Moves, LastScan, E, M, names
  <2>2. run'[p].repo = r
    BY <1>4, <1>5 DEF Moves
  <2> QED
    BY <1>3, <1>10, <2>1, <2>2, TailOfRun
<1> QED
  BY <1>9, <1>11, <1>12 DEF TInv, TailsSound

(* The repository's old records go.                                        *)
LEMMA StepDeletes ==
  ASSUME TInv, NEW p \in Runners, DeleteRepoRecords(p) \/ DeleteThrew(p)
  PROVE  TInv'
<1>0. PICK r : r = run[p].repo
  OBVIOUS
<1> DEFINE x == [run[p] EXCEPT !.pc = "upsert"]
<1>1. RunsOK /\ TablesOK(db) /\ RunsShaped /\ FramesOK /\ TailsSound
  BY DEF TInv, RunsOK
<1>2. run[p].pc = "delete" /\ run[p].pc \in TailLabels /\ RunShape(run[p])
  BY <1>1 DEF DeleteRepoRecords, DeleteThrew, At, TailLabels, RunsShaped
<1>3. r \in Repos /\ \A q \in Runners : q # p => run[q].repo # r
  BY <1>0, <1>1, <1>2, TailHolds
<1>4. Moves(p, x)
  <2>1. run' = [run EXCEPT ![p].pc = "upsert"]
    BY DEF DeleteRepoRecords, DeleteThrew, Goto
  <2>2. run = [q \in Runners |-> run[q]]
    BY <1>1 DEF RunsShaped
  <2>3. run' = [run EXCEPT ![p] = x]
    BY <2>1, <2>2
  <2> QED
    BY <2>2, <2>3, Moved
<1>5. /\ IsRun(x) /\ x.set = run[p].set /\ x.todo = run[p].todo
      /\ x.covered = run[p].covered /\ x.repo = r /\ x.pc = "upsert"
      /\ x.left = run[p].left /\ x.found = run[p].found
  <2>1. x = [run[p] EXCEPT !.pc = "upsert"]
    OBVIOUS
  <2> HIDE DEF x
  <2> QED
    BY <1>0, <1>2, <2>1 DEF RunShape, IsRun
<1> HIDE DEF x
<1>6. db' = db /\ LastScan' = LastScan
  BY DEF DeleteRepoRecords, DeleteThrew
<1>7. /\ \A q : q # r => (q \in synced' <=> q \in synced)
      /\ DeleteRepoRecords(p) => /\ clean' = clean /\ r \in synced'
                                 /\ records' = OfOthers(records, r)
      /\ DeleteThrew(p) => clean' = clean \ {r} /\ records' = records
  BY <1>0, <1>1, <1>3 DEF DeleteRepoRecords, DeleteThrew, Fails, FramesOK
<1>8. DeleteRepoRecords(p) \/ DeleteThrew(p)
  OBVIOUS
<1>9. RunsOK'
  <2>1. FramesOK'
    BY <1>1, <1>6, <1>7, <1>8 DEF FramesOK, LastScan, ServicesOf
  <2> QED
    BY <1>0, <1>1, <1>2, <1>4, <1>5, <1>6, <2>1, TailRuns DEF TailLabels
<1>10. \A q \in Runners : q # p => run'[q] = run[q]
  BY <1>4 DEF Moves
<1>11. ASSUME NEW q \in Repos, q # r
       PROVE  TailSound(q)'
  <2>1. RowsOf(records', q) = RowsOf(records, q) /\ (q \in synced' <=> q \in synced)
        /\ (q \in clean' => q \in clean)
    BY <1>7, <1>8, <1>11 DEF RowsOf, OfOthers
  <2>2. SameFor(q)
    BY <1>6, <2>1, SameTables DEF LastScan
  <2>3. run'[p].repo # q
    BY <1>4, <1>5, <1>11 DEF Moves
  <2> QED
    BY <1>0, <1>1, <1>10, <1>11, <2>2, <2>3, TailKept DEF TailsSound
<1>12. TailSound(r)'
  <2>1. ASSUME r \in clean'
        PROVE  Progress(p, r)'
    <3>1. DeleteRepoRecords(p) /\ r \in clean /\ Progress(p, r)
      BY <1>0, <1>1, <1>3, <1>7, <1>8, <2>1 DEF TailsSound, TailSound
    <3> DEFINE names == NamesOf(ServicesOf(db, r))
               v == LatestOf(db, r)
               D == RowsOf(db.deps, r)
               M == RowsOf(db.metadata, r)
    <3>2. ProgressAs(run[p], r, D, M, RowsOf(records, r), names, v, seen[r], synced, reported[r])
      BY <3>1 DEF Progress
    <3> HIDE DEF D, M, names, v
    <3>3. ProgressAs(x, r, D, M, {}, names, v, seen[r], synced', reported[r])
      BY <1>2, <1>5, <1>7, <3>1, <3>2 DEF ProgressAs
    <3>4. RowsOf(records', r) = {}
      BY <1>7, <3>1 DEF RowsOf, OfOthers
    <3> QED
      BY <1>4, <1>6, <1>7, <3>1, <3>3, <3>4 DEF Progress, Moves, LastScan, D, M, names, v
  <2>2. run'[p].repo = r
    BY <1>4, <1>5 DEF Moves
  <2> QED
    BY <1>3, <1>10, <2>1, <2>2, TailOfRun
<1> QED
  BY <1>9, <1>11, <1>12 DEF TInv, TailsSound

LEMMA RecordNames ==
  ASSUME NEW r, NEW S
  PROVE  NamesOf({[repo |-> r, name |-> f.name] : f \in S}) = NamesOf(S)
<1> DEFINE R == {[repo |-> r, name |-> f.name] : f \in S}
<1>1. ASSUME NEW f \in S
      PROVE  \E y \in R : y.name = f.name
  <2>1. [repo |-> r, name |-> f.name] \in R
    OBVIOUS
  <2> HIDE DEF R
  <2>2. [repo |-> r, name |-> f.name].name = f.name
    OBVIOUS
  <2> QED
    BY <2>1, <2>2
<1>2. \A y \in R : \E f \in S : y.name = f.name
  OBVIOUS
<1> HIDE DEF R
<1>3. NamesOf(R) = NamesOf(S)
  BY <1>1, <1>2 DEF NamesOf
<1> QED
  BY <1>3 DEF R

(* The records of the services that were reported, or none, and on to the  *)
(* next repository.                                                        *)
LEMMA StepSyncs ==
  ASSUME TInv, NEW p \in Runners,
         ChromaUnavailable(p) \/ SyncFindings(p) \/ SyncThrew(p)
  PROVE  TInv'
<1>0. PICK r : r = run[p].repo
  OBVIOUS
<1> DEFINE x == [run[p] EXCEPT !.pc = "write", !.repo = NotFound,
                               !.found = NoFindings]
<1>1. RunsOK /\ TablesOK(db) /\ RunsShaped /\ FramesOK /\ TailsSound
  BY DEF TInv, RunsOK
<1>2. run[p].pc \in TailLabels /\ RunShape(run[p])
  BY <1>1 DEF ChromaUnavailable, SyncFindings, SyncThrew, At, TailLabels, RunsShaped
<1>3. r \in Repos /\ r # NotFound /\ \A q \in Runners : q # p => run[q].repo # r
  BY <1>0, <1>1, <1>2, TailHolds
<1>4. Moves(p, x)
  <2>1. run' = [run EXCEPT ![p] = x]
    BY DEF ChromaUnavailable, SyncFindings, SyncThrew, NextRepo
  <2> QED
    BY <1>1, <2>1, Moved DEF RunsShaped
<1>5. /\ IsRun(x) /\ x.set = run[p].set /\ x.todo = run[p].todo
      /\ x.covered = run[p].covered /\ x.repo = NotFound /\ x.pc = "write"
  <2>1. x = [run[p] EXCEPT !.pc = "write", !.repo = NotFound,
                           !.found = NoFindings]
    OBVIOUS
  <2> HIDE DEF x
  <2> QED
    BY <1>2, <2>1 DEF RunShape, IsRun
<1> HIDE DEF x
<1>6. db' = db /\ LastScan' = LastScan /\ synced' = synced
  BY DEF ChromaUnavailable, SyncFindings, SyncThrew, History
<1>7. /\ ChromaUnavailable(p) => clean' = clean /\ records' = records
      /\ SyncThrew(p) => clean' = clean \ {r} /\ records' = records
      /\ SyncFindings(p) =>
           /\ clean' = clean
           /\ records' = records \cup
                {[repo |-> r, name |-> f.name] : f \in run[p].found.services}
  BY <1>0 DEF ChromaUnavailable, SyncFindings, SyncThrew, Fails, History
<1>8. ChromaUnavailable(p) \/ SyncFindings(p) \/ SyncThrew(p)
  OBVIOUS
<1>9. RunsOK'
  <2>1. FramesOK'
    BY <1>1, <1>6, <1>7, <1>8 DEF FramesOK, LastScan, ServicesOf
  <2> QED
    BY <1>0, <1>1, <1>2, <1>4, <1>5, <1>6, <2>1, TailRuns DEF TailLabels
<1>10. run'[p].repo = NotFound /\ \A q \in Runners : q # p => run'[q] = run[q]
  BY <1>4, <1>5 DEF Moves
<1>11. ASSUME NEW q \in Repos, q # r
       PROVE  TailSound(q)'
  <2>1. RowsOf(records', q) = RowsOf(records, q) /\ (q \in clean' => q \in clean)
    <3>1. \A R : {y \in records \cup {[repo |-> r, name |-> f.name] : f \in R} :
                    y.repo = q} = {y \in records : y.repo = q}
      BY <1>11
    <3> QED
      BY <1>7, <1>8, <3>1 DEF RowsOf
  <2>2. SameFor(q)
    BY <1>6, <2>1, SameTables DEF LastScan
  <2>3. run'[p].repo # q
    BY <1>10, Constant
  <2> QED
    BY <1>0, <1>1, <1>10, <1>11, <2>2, <2>3, TailKept DEF TailsSound
<1>12. TailSound(r)'
  <2>1. ASSUME r \in clean'
        PROVE  Settled(r)'
    <3>1. /\ ChromaUnavailable(p) \/ SyncFindings(p)
          /\ r \in clean /\ Progress(p, r)
      BY <1>0, <1>1, <1>3, <1>7, <1>8, <2>1 DEF TailsSound, TailSound
    <3> DEFINE names == NamesOf(ServicesOf(db, r))
               v == LatestOf(db, r)
               D == RowsOf(db.deps, r)
               M == RowsOf(db.metadata, r)
               R == RowsOf(records, r)
    <3>2. ProgressAs(run[p], r, D, M, R, names, v, seen[r], synced, reported[r])
      BY <3>1 DEF Progress
    <3> HIDE DEF D, M, R, names, v
    <3>3. CASE ChromaUnavailable(p)
      <4>1. run[p].pc = "delete"
        BY <3>3 DEF ChromaUnavailable, At
      <4>2. SettledAs(r, D, M, R, v, seen[r], synced, reported[r])
        BY <3>2, <4>1 DEF ProgressAs, SettledAs
      <4>3. records' = records
        BY <1>7, <3>3
      <4> QED
        BY <1>6, <4>2, <4>3 DEF Settled, SettledAs, LastScan, D, M, R, v
    <3>4. CASE SyncFindings(p)
      <4>1. run[p].pc = "upsert"
        BY <3>4 DEF SyncFindings, At
      <4>2. R = {}
        BY <3>2, <4>1 DEF ProgressAs
      <4>3. NamesOf(RowsOf(records', r)) = NamesOf(run[p].found.services)
        <5>1. records' = records \cup
                {[repo |-> r, name |-> f.name] : f \in run[p].found.services}
          BY <1>7, <3>4
        <5>2. RowsOf(records', r) =
                {[repo |-> r, name |-> f.name] : f \in run[p].found.services}
          BY <4>2, <5>1 DEF RowsOf, R
        <5>3. \A S : NamesOf({[repo |-> r, name |-> f.name] : f \in S}) = NamesOf(S)
          BY RecordNames
        <5> QED
          BY <5>2, <5>3
      <4>4. SettledAs(r, D, M, RowsOf(records', r), v, seen[r], synced, reported[r])
        BY <3>2, <4>1, <4>3 DEF ProgressAs, SettledAs
      <4> QED
        BY <1>6, <4>4 DEF Settled, SettledAs, LastScan, D, M, v
    <3> QED
      BY <3>1, <3>3, <3>4
  <2>2. \A q \in Runners : run'[q].repo # r
    BY <1>3, <1>10
  <2> QED
    BY <2>1, <2>2 DEF TailSound
<1> QED
  BY <1>9, <1>11, <1>12 DEF TInv, TailsSound

(* An override leaves what the tail of another repository has brought      *)
(* about: rows and names follow it together.                               *)
LEMMA TailFollows ==
  ASSUME RunsOK, NEW r \in Repos, TailSound(r), NEW p \in Runners, NEW o,
         NameFree(NamesOf(ServicesOf(db, r)), r, o),
         NamesOf(ServicesOf(db', r)) = NamesAfter(NamesOf(ServicesOf(db, r)), r, o),
         RowsOf(db'.deps, r) = Carried(RowsOf(db.deps, r), o),
         RowsOf(db'.metadata, r) = Carried(RowsOf(db.metadata, r), o),
         LatestOf(db', r) = LatestOf(db, r), records' = records,
         seen'[r] = NamesAfter(seen[r], r, o), reported'[r] = reported[r],
         r \in synced' <=> r \in synced, r \in clean' => r \in clean,
         \A q \in Runners : q # p => run'[q] = Shifted(run[q], o),
         run[p].repo # r, run'[p].repo # r
  PROVE  TailSound(r)'
<1> SUFFICES ASSUME r \in clean'
             PROVE  /\ (\A q \in Runners : run'[q].repo # r) => Settled(r)'
                    /\ \A q \in Runners : run'[q].repo = r => Progress(q, r)'
  BY DEF TailSound
<1>1. r \in clean
  OBVIOUS
<1> DEFINE names == NamesOf(ServicesOf(db, r))
           v == LatestOf(db, r)
           D == RowsOf(db.deps, r)
           M == RowsOf(db.metadata, r)
           R == RowsOf(records, r)
           nA == NamesAfter(names, r, o)
           sA == NamesAfter(seen[r], r, o)
<1>2. \A N, w : Carried(Rowed(r, N, w), o) = Rowed(r, NamesAfter(N, r, o), w)
  BY NamedCarried
<1>3. \A q \in Runners : q # p =>
        /\ run'[q].repo = run[q].repo /\ run'[q].pc = run[q].pc
        /\ run'[q].found = run[q].found
        /\ run'[q].left = NamesAfter(run[q].left, run[q].repo, o)
  BY ShiftedRun DEF RunsOK, RunsShaped
<1>4. seen[r] \subseteq names
  BY DEF RunsOK, FramesOK
<1>5. OfVersion(Carried(D, o), v) = Carried(OfVersion(D, v), o)
  <2>1. \A x \in D : IsRowed(x)
    BY DEF RunsOK, TablesOK, DepsOfScans, RowsOf
  <2> HIDE DEF D, v
  <2> QED
    BY <2>1, VersionCarried
<1>6. ASSUME NEW L, L \subseteq names
      PROVE  /\ NamesAfter(seen[r] \ L, r, o) = sA \ NamesAfter(L, r, o)
             /\ NamesAfter(L, r, o) \subseteq nA
  <2>1. NameFree(names, r, o) /\ seen[r] \in SUBSET names /\ L \in SUBSET names
    BY <1>4, <1>6
  <2> HIDE DEF names
  <2>2. NamesAfter(seen[r] \ L, r, o) = NamesAfter(seen[r], r, o) \ NamesAfter(L, r, o)
    BY <2>1, NamesLess
  <2>3. NamesAfter(L, r, o) \subseteq NamesAfter(names, r, o)
    BY <2>1, NamesLess
  <2> QED
    BY <2>2, <2>3
<1> HIDE DEF names, v, D, M, R, nA, sA
<1>7. ASSUME \A q \in Runners : run'[q].repo # r
      PROVE  Settled(r)'
  <2>1. \A q \in Runners : run[q].repo # r
    BY <1>3, <1>7
  <2>2. SettledAs(r, D, M, R, v, seen[r], synced, reported[r])
    BY <1>1, <2>1 DEF TailSound, Settled, D, M, R, v
  <2>3. SettledAs(r, Carried(D, o), Carried(M, o), R, v, sA, synced', reported[r])
    BY <1>2, <2>2 DEF SettledAs, sA
  <2> QED
    BY <2>3 DEF Settled, D, M, R, v, sA
<1>8. ASSUME NEW q \in Runners, run'[q].repo = r
      PROVE  Progress(q, r)'
  <2>1. q # p /\ run[q].repo = r
    BY <1>3, <1>8
  <2>2. ProgressAs(run[q], r, D, M, R, names, v, seen[r], synced, reported[r])
    BY <1>1, <2>1 DEF TailSound, Progress, D, M, R, v, names
  <2> DEFINE mine == OfVersion(D, v)
             here == OfVersion(Carried(D, o), v)
             left == run[q].left
  <2>3. here = Carried(mine, o)
    BY <1>5
  <2>4. /\ run'[q].pc = run[q].pc /\ run'[q].found = run[q].found
        /\ run'[q].left = NamesAfter(left, r, o)
    BY <1>3, <2>1
  <2>5. run[q].pc = "wipe" => here = {}
    <3>1. \A y : y \notin Carried({}, o)
      BY CarriedIs
    <3> QED
      BY <2>2, <2>3, <3>1 DEF ProgressAs, OfVersion
  <2>6. run[q].pc = "enrich" =>
          /\ run'[q].left \subseteq nA
          /\ here = Rowed(r, sA \ run'[q].left, v)
          /\ Carried(M, o) = Rowed(r, sA \ run'[q].left, v)
    <3> SUFFICES ASSUME run[q].pc = "enrich"
                 PROVE  /\ run'[q].left \subseteq nA
                        /\ here = Rowed(r, sA \ run'[q].left, v)
                        /\ Carried(M, o) = Rowed(r, sA \ run'[q].left, v)
      OBVIOUS
    <3>1. /\ left \subseteq names /\ mine = Rowed(r, seen[r] \ left, v)
          /\ M = Rowed(r, seen[r] \ left, v)
      BY <2>2 DEF ProgressAs, OfVersion
    <3> HIDE DEF mine, here, left
    <3>2. /\ NamesAfter(seen[r] \ left, r, o) = sA \ run'[q].left
          /\ run'[q].left \subseteq nA
      BY <1>6, <2>4, <3>1
    <3> QED
      BY <1>2, <2>3, <3>1, <3>2
  <2>7. run[q].pc \in {"delete", "upsert"} =>
          Carried(D, o) = Rowed(r, sA, v) /\ Carried(M, o) = Rowed(r, sA, v)
    BY <1>2, <2>2 DEF ProgressAs, sA
  <2>8. ProgressAs(run'[q], r, Carried(D, o), Carried(M, o), R, nA, v, sA,
                   synced', reported[r])
    BY <2>2, <2>4, <2>5, <2>6, <2>7 DEF ProgressAs, OfVersion
  <2> QED
    BY <2>8 DEF Progress, D, M, R, v, sA, nA, names
<1> QED
  BY <1>7, <1>8

(* A scan was persisted: its repository's tail starts anew.                *)
LEMMA StepPersists ==
  ASSUME TInv, NEW p \in Runners, NEW r \in run[p].todo,
         NEW found \in Findings[r], NEW mode, NEW commit, NEW tree, NEW o,
         NEW gone, NEW torn,
         PersistScanResult(p, r, found, mode, commit, tree, o, gone, torn)
  PROVE  TInv'
<1> DEFINE v == NextVersion
<1>1. RunsOK /\ TablesOK(db) /\ RunsShaped /\ RunsApart /\ FramesOK /\ TailsSound
  BY DEF TInv, RunsOK
<1>2. /\ RunsOK' /\ r \in Repos /\ r \in run[p].set /\ run[p].repo = NotFound
      /\ Follows(db', db, r, NextVersion)
      /\ \A y \in db'.deps : y.scan \in 1 .. Cardinality(db.scans)
      /\ \A q : q # r =>
           /\ NameFree(NamesOf(ServicesOf(db, q)), q, o)
           /\ NamesOf(ServicesOf(db', q)) =
                NamesAfter(NamesOf(ServicesOf(db, q)), q, o)
           /\ RowsOf(db'.deps, q) = Carried(RowsOf(db.deps, q), o)
           /\ RowsOf(db'.metadata, q) = Carried(RowsOf(db.metadata, q), o)
      /\ \A q \in Runners : q # p => run'[q] = Shifted(run[q], o)
      /\ torn => run'[p].repo = NotFound
      /\ ~torn => /\ run'[p].repo = r /\ run'[p].pc = "wipe"
                  /\ run'[p].found = found
  BY <1>1, RunWrites
<1>3. /\ records' = records
      /\ \A q \in Repos : q # r =>
           /\ seen'[q] = NamesAfter(seen[q], q, o) /\ reported'[q] = reported[q]
           /\ q \in synced' <=> q \in synced
      /\ reported'[r] = NamesOf(found.services) /\ r \notin synced'
      /\ torn => clean' = clean \ {r}
      /\ ~torn => clean' = clean \cup {r}
  BY <1>1, <1>2 DEF PersistScanResult, Fails, FramesOK, NamesOf
<1>4. Follows(db', db, r, v)
  BY <1>2
<1> HIDE DEF v
<1>5. \A q \in Runners : q # p => run[q].repo # r /\ run'[q].repo # r
  <2>1. ASSUME NEW q \in Runners, q # p
        PROVE  run[q].repo # r /\ run'[q].repo # r
    <3>1. RunShape(run[q]) /\ r # NotFound
      BY <1>1, <1>2, Constant DEF RunsShaped
    <3>2. run[q].repo # r
      <4>1. run[q].repo = r => r \in run[q].set
        BY <3>1 DEF RunShape
      <4> QED
        BY <1>1, <1>2, <2>1, <4>1 DEF RunsApart
    <3>3. run'[q].repo = run[q].repo
      BY <1>2, <2>1, <3>1, ShiftedRun
    <3> QED
      BY <3>2, <3>3
  <2> QED
    BY <2>1
<1>6. ASSUME NEW q \in Repos, q # r
      PROVE  TailSound(q)'
  <2>1. LatestOf(db', q) = LatestOf(db, q)
    BY <1>4, <1>6 DEF Follows
  <2>2. run[p].repo # q /\ run'[p].repo # q
    BY <1>2, <1>6, Constant
  <2>3. q \in clean' => q \in clean
    BY <1>3, <1>6
  <2>4. /\ NameFree(NamesOf(ServicesOf(db, q)), q, o)
        /\ NamesOf(ServicesOf(db', q)) = NamesAfter(NamesOf(ServicesOf(db, q)), q, o)
        /\ RowsOf(db'.deps, q) = Carried(RowsOf(db.deps, q), o)
        /\ RowsOf(db'.metadata, q) = Carried(RowsOf(db.metadata, q), o)
        /\ seen'[q] = NamesAfter(seen[q], q, o) /\ reported'[q] = reported[q]
        /\ q \in synced' <=> q \in synced
    BY <1>2, <1>3, <1>6
  <2>5. TailSound(q)
    BY <1>1 DEF TailsSound
  <2> QED
    BY <1>1, <1>2, <1>3, <2>1, <2>2, <2>3, <2>4, <2>5, TailFollows
<1>7. TailSound(r)'
  <2>1. CASE torn
    BY <1>3, <2>1 DEF TailSound
  <2>2. CASE ~torn
    <3>1. {y \in RowsOf(db'.deps, r) : y.scan = LatestOf(db', r)} = {}
      <4>1. LatestOf(db', r) = 1 + Cardinality(db.scans)
            /\ Cardinality(db.scans) \in Nat
        BY <1>1, <1>4, FS_CardinalityType
           DEF Follows, v, NextVersion, TablesOK, ScansNumbered
      <4> QED
        BY <1>2, <4>1 DEF RowsOf
    <3>2. Progress(p, r)'
      BY <1>2, <1>3, <2>2, <3>1 DEF Progress, ProgressAs
    <3> QED
      BY <1>2, <1>5, <2>2, <3>2, TailOfRun
  <2> QED
    BY <2>1, <2>2
<1> QED
  BY <1>2, <1>6, <1>7 DEF TInv, TailsSound

(* Everything else: a run moves on without a repository in hand, or ends.  *)
LEMMA StepElsewhere ==
  ASSUME TInv, NEW p \in Runners, NEW x, run' = [run EXCEPT ![p] = x],
         RunShape(x), x.repo = NotFound, x.set \in {run[p].set, {}},
         x.covered \in {run[p].covered, <<>>},
         db' = db, records' = records, LastScan' = LastScan, synced' = synced,
         clean' \in {clean, clean \ {run[p].repo}},
         run[p].repo = NotFound \/ run[p].repo \notin clean'
  PROVE  TInv'
<1>1. RunsOK /\ TablesOK(db) /\ FramesOK /\ TailsSound
      /\ RunsShaped /\ RunsApart /\ CoveredLatest
  BY DEF TInv, RunsOK
<1>2. Moves(p, x)
  BY <1>1, Moved DEF RunsShaped
<1>3. RunsOK'
  <2>1. FramesOK'
    BY <1>1 DEF FramesOK, LastScan, ServicesOf
  <2>2. \A r \in DOMAIN x.covered : /\ r \in DOMAIN run[p].covered
                                    /\ x.covered[r] = run[p].covered[r]
    <3>1. DOMAIN <<>> = {}
      OBVIOUS
    <3> QED
      BY <3>1
  <2>3. RunsShaped' /\ RunsApart' /\ CoveredLatest'
    BY <1>1, <1>2, <2>2, RunGoesOn
  <2> QED
    BY <1>1, <2>1, <2>3 DEF RunsOK
<1>4. ASSUME NEW r \in Repos
      PROVE  TailSound(r)'
  <2>1. CASE run[p].repo = r
    <3>1. r \notin clean'
      BY <1>4, <2>1, Constant
    <3> QED
      BY <3>1 DEF TailSound
  <2>2. CASE run[p].repo # r
    <3>1. SameFor(r)
      <4>1. r \in clean' => r \in clean
        OBVIOUS
      <4> QED
        BY <4>1, SameTables DEF LastScan
    <3>2. run'[p].repo # r /\ \A q \in Runners : q # p => run'[q] = run[q]
      BY <1>2, Constant DEF Moves
    <3> QED
      BY <1>1, <1>4, <2>2, <3>1, <3>2, TailKept DEF TailsSound
  <2> QED
    BY <2>1, <2>2
<1> QED
  BY <1>3, <1>4 DEF TInv, TailsSound

LEMMA StepEnds ==
  ASSUME TInv, NEW p \in Runners,
         \/ \E r \in run[p].todo : PersistThrew(p, r)
         \/ CreateSnapshot(p)
         \/ Crash(p)
  PROVE  TInv'
<1>1. RunsShaped /\ run = [q \in Runners |-> run[q]]
  BY DEF TInv, RunsOK, RunsShaped
<1>2. RunShape(run[p]) /\ IsRun(run[p])
  BY <1>1 DEF RunsShaped, RunShape
<1>3. ASSUME NEW r \in run[p].todo, PersistThrew(p, r)
      PROVE  TInv'
  <2>1. PICK x : x = [run[p] EXCEPT !.todo = run[p].todo \ {r}]
    OBVIOUS
  <2>2. run' = [run EXCEPT ![p] = x]
    <3>1. run' = [run EXCEPT ![p].todo = @ \ {r}]
      BY <1>3 DEF PersistThrew
    <3> QED
      BY <1>1, <2>1, <3>1
  <2>3. /\ IsRun(x) /\ x.set = run[p].set /\ x.todo = run[p].todo \ {r}
        /\ x.covered = run[p].covered /\ x.repo = run[p].repo /\ x.pc = run[p].pc
    BY <1>2, <2>1 DEF IsRun
  <2>4. run[p].pc = "write" /\ run[p].repo = NotFound
    BY <1>2, <1>3 DEF PersistThrew, At, RunShape, TailLabels
  <2>5. RunShape(x)
    BY <1>2, <2>3, <2>4 DEF RunShape, TailLabels, SnapshotLabels
  <2>6. db' = db /\ records' = records /\ LastScan' = LastScan /\ synced' = synced
        /\ clean' = clean
    BY <1>3 DEF PersistThrew
  <2> QED
    BY <2>2, <2>3, <2>4, <2>5, <2>6, StepElsewhere
<1>4. ASSUME run' = [run EXCEPT ![p] = NoRun],
             db' = db, records' = records, LastScan' = LastScan, synced' = synced,
             \/ clean' = clean /\ run[p].repo = NotFound
             \/ clean' = clean \ {run[p].repo}
      PROVE  TInv'
  BY <1>4, NoRunShape, StepElsewhere
<1>5. ASSUME run[p].pc \in {"write", "insert", "retain", "row"},
             NEW x, run' = [run EXCEPT ![p] = x],
             IsRun(x), x.set = run[p].set, x.todo = run[p].todo,
             x.covered = run[p].covered, x.repo = run[p].repo,
             x.pc \in SnapshotLabels,
             db' = db, records' = records, LastScan' = LastScan, synced' = synced,
             clean' = clean
      PROVE  TInv'
  <2>1. run[p].repo = NotFound
    BY <1>2, <1>5 DEF RunShape, TailLabels
  <2>2. RunShape(x)
    BY <1>2, <1>5, <2>1 DEF RunShape, TailLabels, SnapshotLabels
  <2> QED
    BY <1>5, <2>1, <2>2, StepElsewhere
<1>6. CASE Crash(p)
  BY <1>4, <1>6 DEF Crash, EndRun
<1>7. CASE NothingWritten(p) \/ VacuumThrew(p) \/ SnapshotThrew(p) \/ SnapshotDone(p)
  <2>1. run[p].repo = NotFound
    BY <1>2, <1>7 DEF NothingWritten, VacuumThrew, SnapshotThrew, SnapshotDone,
                      At, RunShape, TailLabels
  <2>2. /\ run' = [run EXCEPT ![p] = NoRun]
        /\ db' = db /\ records' = records /\ LastScan' = LastScan /\ synced' = synced
        /\ clean' = clean
    BY <1>7 DEF NothingWritten, VacuumThrew, SnapshotThrew, SnapshotDone, EndRun,
                History
  <2> QED
    BY <1>4, <2>1, <2>2
<1>8. CASE VacuumInto(p)
  <2>1. PICK x : x = [run[p] EXCEPT !.pc = "insert", !.file = serial']
    OBVIOUS
  <2>2. run' = [run EXCEPT ![p].pc = "insert", ![p].file = serial']
        /\ run[p].pc = "write"
    BY <1>8 DEF VacuumInto, At
  <2>3. run' = [run EXCEPT ![p] = x]
    BY <1>1, <2>1, <2>2
  <2>4. /\ IsRun(x) /\ x.set = run[p].set /\ x.todo = run[p].todo
        /\ x.covered = run[p].covered /\ x.repo = run[p].repo
        /\ x.pc \in SnapshotLabels
    BY <1>2, <2>1 DEF IsRun, SnapshotLabels
  <2>5. /\ db' = db /\ records' = records /\ LastScan' = LastScan /\ synced' = synced
        /\ clean' = clean
    BY <1>8 DEF VacuumInto, History
  <2> QED
    BY <1>5, <2>2, <2>3, <2>4, <2>5
<1>9. CASE InsertVersion(p) \/ UnlinkSnapshot(p) \/ UnlinkThrew(p) \/ DeleteVersion(p)
  <2>1. PICK label \in SnapshotLabels : run' = [run EXCEPT ![p].pc = label]
    BY <1>9 DEF InsertVersion, UnlinkSnapshot, UnlinkThrew, DeleteVersion, Goto,
                SnapshotLabels
  <2>2. PICK x : x = [run[p] EXCEPT !.pc = label]
    OBVIOUS
  <2>3. run' = [run EXCEPT ![p] = x]
    BY <1>1, <2>1, <2>2
  <2>4. /\ IsRun(x) /\ x.set = run[p].set /\ x.todo = run[p].todo
        /\ x.covered = run[p].covered /\ x.repo = run[p].repo
        /\ x.pc \in SnapshotLabels
    BY <1>2, <2>1, <2>2 DEF IsRun
  <2>5. run[p].pc \in {"write", "insert", "retain", "row"}
    BY <1>9 DEF InsertVersion, UnlinkSnapshot, UnlinkThrew, DeleteVersion, At
  <2>6. /\ db' = db /\ records' = records /\ LastScan' = LastScan /\ synced' = synced
        /\ clean' = clean
    BY <1>9 DEF InsertVersion, UnlinkSnapshot, UnlinkThrew, DeleteVersion, History
  <2> QED
    BY <1>5, <2>3, <2>4, <2>5, <2>6
<1> QED
  BY <1>3, <1>6, <1>7, <1>8, <1>9 DEF CreateSnapshot

LEMMA StepBegins ==
  ASSUME Apart, TInv, NEW p \in Runners, NEW set \in RepoSets,
         NEW answered \in SUBSET set, BeginRun(p, set, answered)
  PROVE  TInv'
<1>1. RunsOK /\ RunsShaped /\ TailsSound
  BY DEF TInv, RunsOK
<1>2. RunsOK' /\ run'[p].repo = NotFound /\ run[p].repo = NotFound
  BY <1>1, RunBegins
<1>3. \A q \in Runners : q # p => run'[q] = run[q]
  BY <1>1 DEF BeginRun, RunsShaped
<1>4. db' = db /\ records' = records /\ LastScan' = LastScan /\ synced' = synced
      /\ clean' = clean
  BY DEF BeginRun, History
<1>5. ASSUME NEW r \in Repos
      PROVE  TailSound(r)'
  <2>1. SameFor(r)
    BY <1>4, SameTables DEF LastScan
  <2> QED
    BY <1>1, <1>2, <1>3, <2>1, TailKept, Constant DEF TailsSound
<1> QED
  BY <1>2, <1>5 DEF TInv, TailsSound

(* Nothing happens. *)
LEMMA TailStutter ==
  ASSUME TInv, UNCHANGED vars
  PROVE  TInv'
<1>1. /\ db' = db /\ records' = records /\ run' = run /\ seen' = seen
      /\ reported' = reported /\ clean' = clean /\ synced' = synced
  BY DEF vars
<1>2. RunsOK'
  <2>1. TablesOK(db)' /\ RunsShaped'
    BY <1>1 DEF TInv, RunsOK, RunsShaped
  <2>2. RunsApart' /\ FramesOK'
    BY <1>1 DEF TInv, RunsOK, RunsApart, FramesOK, ServicesOf
  <2>3. CoveredLatest'
    BY <1>1 DEF TInv, RunsOK, CoveredLatest, LatestOf, VersionsOf
  <2> QED
    BY <2>1, <2>2, <2>3 DEF RunsOK
<1>3. ASSUME NEW r \in Repos
      PROVE  TailSound(r)'
  <2>1. /\ Settled(r) => Settled(r)'
        /\ \A p \in Runners : Progress(p, r) => Progress(p, r)'
    BY <1>1 DEF Settled, SettledAs, Progress, ProgressAs, RowsOf, ServicesOf,
                LatestOf, VersionsOf
  <2> QED
    BY <1>1, <1>3, <2>1 DEF TInv, TailsSound, TailSound
<1> QED
  BY <1>2, <1>3 DEF TInv, TailsSound

LEMMA TailInit == Init => TInv
<1> SUFFICES ASSUME Init
             PROVE  TInv
  OBVIOUS
<1>1. RunsOK /\ clean = {}
  BY RunsInit DEF Init
<1> QED
  BY <1>1 DEF TInv, TailsSound, TailSound

LEMMA TailStep == Apart /\ TInv /\ [Next]_vars => TInv'
<1> SUFFICES ASSUME Apart, TInv, [Next]_vars
             PROVE  TInv'
  OBVIOUS
<1>1. CASE UNCHANGED vars
  BY <1>1, TailStutter
<1>2. ASSUME NEW p \in Runners, NEW set \in RepoSets,
             NEW answered \in SUBSET set, BeginRun(p, set, answered)
      PROVE  TInv'
  BY <1>2, StepBegins
<1>3. ASSUME NEW p \in Runners, PersistStep(p)
      PROVE  TInv'
  BY <1>3, StepPersists, StepEnds DEF PersistStep
<1>4. ASSUME NEW p \in Runners, EnrichStep(p)
      PROVE  TInv'
  BY <1>4, StepWipes, StepEnriches, StepSweeps DEF EnrichStep
<1>5. ASSUME NEW p \in Runners, ChromaStep(p)
      PROVE  TInv'
  BY <1>5, StepDeletes, StepSyncs DEF ChromaStep
<1>6. ASSUME NEW p \in Runners, CreateSnapshot(p) \/ Crash(p)
      PROVE  TInv'
  BY <1>6, StepEnds
<1> QED
  BY <1>1, <1>2, <1>3, <1>4, <1>5, <1>6 DEF Next

(* A tail that went through has left what TailComplete asks for.           *)
LEMMA TailHas == TInv => TailComplete
<1> SUFFICES ASSUME TInv, NEW r \in clean, \A p \in Runners : run[p].repo # r
             PROVE  /\ RowsOf(db.deps, r) = AsSeen(r)
                    /\ RowsOf(db.metadata, r) = AsSeen(r)
                    /\ r \in synced =>
                         {x.name : x \in RowsOf(records, r)} = reported[r]
  BY DEF TailComplete
<1>1. Settled(r)
  BY DEF TInv, RunsOK, FramesOK, TailsSound, TailSound
<1>2. AsSeen(r) = Rowed(r, seen[r], LatestOf(db, r))
  BY DEF AsSeen, Rowed
<1> QED
  BY <1>1, <1>2 DEF Settled, SettledAs, NamesOf

(* However the tails of several runs interleave, fail and are killed, and  *)
(* whatever the overrides applied meanwhile do to other repositories, a    *)
(* tail that went through has left its repository's dependency and         *)
(* enrichment rows as its scan saw the services, and the records of those  *)
(* that the scan reported (scanRepos phase B, applyPendingOverridesSync).  *)
THEOREM TailsComplete == Apart => (Spec => []TailComplete)
<1> SUFFICES ASSUME Apart
             PROVE  Spec => []TailComplete
  OBVIOUS
<1>1. Init => TInv
  BY TailInit
<1>2. TInv /\ [Next]_vars => TInv'
  BY TailStep
<1>3. TInv => TailComplete
  BY TailHas
<1> QED
  BY <1>1, <1>2, <1>3, PTL DEF Spec

-----------------------------------------------------------------------------
(* Sets of numbers and of rows.  The library's induction theorems have an  *)
(* operator as a parameter; that each set of numbers has a least one       *)
(* serves as well.                                                         *)

Less == {p \in Nat \X Nat : p[1] < p[2]}

LEMMA LessWellFounded == IsWellFoundedOn(Less, Nat)
<1>1. OpToRel(<, Nat) = Less
  BY Zenon DEF OpToRel, Less
<1> QED
  BY <1>1, NatLessThanWellFounded, Zenon

LEMMA InLess ==
  ASSUME NEW m \in Nat, NEW n \in Nat, n < m
  PROVE  <<n, m>> \in Less
<1> DEFINE p == <<n, m>>
<1>1. p \in Nat \X Nat /\ p[1] = n /\ p[2] = m
  OBVIOUS
<1> HIDE DEF p
<1>2. p \in Less
  BY <1>1, SMT DEF Less
<1> QED
  BY <1>2 DEF p

LEMMA Least ==
  ASSUME NEW S \in SUBSET Nat, S # {}
  PROVE  \E m \in S : \A n \in S : m <= n
<1>1. PICK m \in S : \A n \in S : ~(<<n, m>> \in Less)
  BY LessWellFounded, WFMin, Zenon
<1>2. \A n \in S : n \in Nat /\ m \in Nat /\ ~(n < m)
  BY <1>1, InLess
<1> QED
  BY <1>2

(* The greatest of a bounded set is the least of its bounds. *)
LEMMA NewestOf ==
  ASSUME NEW b \in Nat, NEW S \in SUBSET (1 .. b), S # {}
  PROVE  Newest(S) \in S /\ \A n \in S : n <= Newest(S)
<1> DEFINE U == {k \in Nat : \A n \in S : n <= k}
<1>1. PICK k \in U : \A j \in U : k <= j
  <2>1. b \in U /\ U \in SUBSET Nat
    OBVIOUS
  <2> HIDE DEF U
  <2> QED
    BY <2>1, Least
<1>2. k \in Nat /\ \A n \in S : n <= k
  BY <1>1
<1>3. k \in S
  <2>1. ASSUME k \notin S
        PROVE  FALSE
    <3>1. \A n \in S : n \in Nat /\ n >= 1 /\ n <= k - 1
      BY <1>2, <2>1
    <3>n. PICK n : n \in S
      OBVIOUS
    <3>2. k - 1 \in Nat
      BY <1>2, <3>1, <3>n
    <3>3. k - 1 \in U
      BY <3>1, <3>2
    <3>4. k <= k - 1
      BY <1>1, <3>3
    <3> QED
      BY <1>2, <3>4
  <2> QED
    BY <2>1
<1>4. S \in SUBSET Int
  OBVIOUS
<1> HIDE DEF U
<1>5. Newest(S) = k
  BY <1>2, <1>3, <1>4, NewestIs
<1> QED
  BY <1>2, <1>3, <1>5

(* Rows with ids of their own, from 1 to b.                                *)
Numbered(rows, b) ==
  /\ IsFiniteSet(rows)
  /\ \A x \in rows : /\ x.id \in 1 .. b
                     /\ \A y \in rows : y.id = x.id => y = x

(* When nothing is beyond the limit, the limit holds: all others are newer *)
(* than the oldest row.                                                    *)
LEMMA LimitHolds ==
  ASSUME NEW b \in Nat, NEW rows, Numbered(rows, b), Beyond(rows) = {}
  PROVE  Cardinality(rows) <= HistoryLimit
<1>1. IsFiniteSet(rows) /\ Cardinality(rows) \in Nat /\ HistoryLimit \in Nat
  BY FS_CardinalityType, Constant DEF Numbered
<1>2. CASE rows = {}
  BY <1>1, <1>2, FS_EmptySet
<1>3. CASE rows # {}
  <2> DEFINE ids == {x.id : x \in rows}
  <2>1. ids \in SUBSET Nat /\ ids # {}
    BY <1>3 DEF Numbered
  <2>2. PICK m \in ids : \A n \in ids : m <= n
    <3> HIDE DEF ids
    <3> QED
      BY <2>1, Least
  <2>3. PICK o \in rows : o.id = m
    OBVIOUS
  <2>4. {y \in rows : y.id > o.id} = rows \ {o}
    <3>1. \A y \in rows : /\ y.id \in Nat /\ o.id \in Nat /\ o.id <= y.id
                          /\ y.id = o.id => y = o
      BY <2>2, <2>3 DEF Numbered
    <3> QED
      BY <3>1
  <2>5. Cardinality(rows \ {o}) = Cardinality(rows) - 1
    BY <1>1, <2>3, FS_RemoveElement
  <2>6. ~(Cardinality({y \in rows : y.id > o.id}) >= HistoryLimit)
    BY <2>3 DEF Beyond
  <2>7. ~(Cardinality(rows \ {o}) >= HistoryLimit)
    BY <2>4, <2>6
  <2> QED
    BY <1>1, <2>5, <2>7
<1> QED
  BY <1>2, <1>3

(* What retention takes next is one of the rows beyond the limit.          *)
LEMMA NextRetired ==
  ASSUME NEW b \in Nat, Numbered(mapVersions, b), Beyond(mapVersions) # {}, NEW p
  PROVE  /\ ToDelete(p) \in Beyond(mapVersions) /\ ToDelete(p) \in mapVersions
         /\ \A x \in Beyond(mapVersions) : x.id <= ToDelete(p).id
<1> DEFINE ids == {x.id : x \in Beyond(mapVersions)}
<1>1. Beyond(mapVersions) \subseteq mapVersions
  BY DEF Beyond
<1>2. ids \in SUBSET (1 .. b) /\ ids # {}
  BY <1>1 DEF Numbered
<1>3. Newest(ids) \in ids /\ \A n \in ids : n <= Newest(ids)
  <2> HIDE DEF ids
  <2> QED
    BY <1>2, NewestOf
<1>4. PICK x \in Beyond(mapVersions) : x.id = Newest(ids)
  BY <1>3
<1>5. ToDelete(p) \in mapVersions /\ ToDelete(p).id = Newest(ids)
  <2>1. ToDelete(p) = CHOOSE r \in mapVersions : r.id = Newest(ids)
    BY DEF ToDelete, RowAt
  <2> HIDE DEF ids
  <2> QED
    BY <1>1, <1>4, <2>1
<1>6. ToDelete(p) = x
  BY <1>1, <1>4, <1>5 DEF Numbered
<1> QED
  BY <1>1, <1>3, <1>4, <1>6

-----------------------------------------------------------------------------
(* The history is kept by one run.                                         *)

HistorySame == mapVersions' = mapVersions /\ files' = files /\ serial' = serial

LEMMA RowsNumbered == HistoryShape => Numbered(mapVersions, serial)
BY DEF HistoryShape, Numbered

LEMMA UnmatchedNumber ==
  HistoryShape =>
    /\ IsFiniteSet(Orphans) /\ IsFiniteSet(Dangling)
    /\ Cardinality(Orphans) \in Nat /\ Cardinality(Dangling) \in Nat
    /\ Cardinality(mapVersions) \in Nat
<1> SUFFICES ASSUME HistoryShape
             PROVE  /\ IsFiniteSet(Orphans) /\ IsFiniteSet(Dangling)
                    /\ Cardinality(Orphans) \in Nat /\ Cardinality(Dangling) \in Nat
                    /\ Cardinality(mapVersions) \in Nat
  OBVIOUS
<1>1. IsFiniteSet(1 .. serial)
  <2>1. serial \in Int /\ 1 \in Int
    BY DEF HistoryShape
  <2> QED
    BY <2>1, FS_Interval
<1>2. Orphans \in SUBSET (1 .. serial) /\ Dangling \in SUBSET mapVersions
  BY DEF HistoryShape, Orphans, Dangling
<1>3. IsFiniteSet(Orphans) /\ IsFiniteSet(Dangling) /\ IsFiniteSet(mapVersions)
  BY <1>1, <1>2, FS_Subset DEF HistoryShape
<1> QED
  BY <1>3, FS_CardinalityType

(* The one run is elsewhere before and after, and the history stays.       *)
LEMMA HistoryKept ==
  ASSUME OneRunner, HInv, NEW p \in Runners, HistorySame,
         run[p].pc \notin SnapshotLabels, run'[p].pc \notin SnapshotLabels,
         failures' \in {failures, failures + 1}
  PROVE  HInv'
<1>1. HistoryShape'
  BY DEF HInv, HistoryShape, HistorySame, IsRow
<1>2. \A q \in Runners : q = p
  BY DEF OneRunner
<1>3. failures \in Nat /\ failures' \in Nat /\ failures <= failures'
      /\ Cardinality(mapVersions) \in Nat /\ HistoryLimit \in Nat
  BY UnmatchedNumber, Constant DEF HInv, HistoryShape
<1>4. Unmatched \in Nat
  BY UnmatchedNumber DEF HInv, Unmatched
<1>5. Unmatched' = Unmatched /\ mapVersions' = mapVersions
  BY DEF HistorySame, Unmatched, Orphans, Dangling
<1>6. Inserting' /\ Retiring'
  BY <1>2 DEF Inserting, Retiring, At, SnapshotLabels
<1>7. Cardinality(mapVersions) <= HistoryLimit + failures
  BY <1>2 DEF HInv, RowsBounded, At, SnapshotLabels
<1>8. RowsBounded'
  BY <1>3, <1>5, <1>7 DEF RowsBounded
<1>9. Unmatched <= failures
  BY <1>2 DEF HInv, MatchesCounted, At, SnapshotLabels
<1>10. Unmatched' <= failures'
  BY <1>3, <1>4, <1>5, <1>9
<1>11. MatchesCounted'
  BY <1>2, <1>10 DEF MatchesCounted, At, SnapshotLabels
<1> QED
  BY <1>1, <1>6, <1>8, <1>11 DEF HInv

(* The one run gives up where it is, and nothing of the history changes.   *)
LEMMA HistoryGivenUp ==
  ASSUME OneRunner, HInv, NEW p \in Runners, HistorySame,
         run'[p].pc \notin SnapshotLabels, failures' = failures + 1
  PROVE  HInv'
<1>1. HistoryShape'
  BY DEF HInv, HistoryShape, HistorySame, IsRow
<1>2. \A q \in Runners : q = p
  BY DEF OneRunner
<1>3. failures \in Nat /\ Cardinality(mapVersions) \in Nat /\ HistoryLimit \in Nat
  BY UnmatchedNumber, Constant DEF HInv, HistoryShape
<1>4. Unmatched \in Nat
  BY UnmatchedNumber DEF HInv, Unmatched
<1>5. Unmatched' = Unmatched /\ mapVersions' = mapVersions
  BY DEF HistorySame, Unmatched, Orphans, Dangling
<1>6. Inserting' /\ Retiring'
  BY <1>2 DEF Inserting, Retiring, At, SnapshotLabels
<1>7. Cardinality(mapVersions) <= HistoryLimit + failures + 1
  BY <1>3 DEF HInv, RowsBounded
<1>8. RowsBounded'
  BY <1>3, <1>5, <1>7 DEF RowsBounded
<1>9. Unmatched <= failures + 1
  <2>1. CASE At(p, "insert") \/ At(p, "row")
    BY <1>3, <1>4, <2>1 DEF HInv, MatchesCounted
  <2>2. CASE ~At(p, "insert") /\ ~At(p, "row")
    BY <1>2, <1>3, <1>4, <2>2 DEF HInv, MatchesCounted
  <2> QED
    BY <2>1, <2>2
<1>10. MatchesCounted'
  BY <1>2, <1>5, <1>9 DEF MatchesCounted, At, SnapshotLabels
<1> QED
  BY <1>1, <1>6, <1>8, <1>10 DEF HInv

LEMMA HistoryVacuums ==
  ASSUME OneRunner, RunsShaped, HInv, NEW p \in Runners, VacuumInto(p)
  PROVE  HInv'
<1>1. \A q \in Runners : q = p
  BY DEF OneRunner
<1>2. /\ run[p].pc = "write" /\ run'[p].pc = "insert" /\ run'[p].file = serial'
      /\ serial' = serial + 1 /\ mapVersions' = mapVersions
      /\ failures' = failures
      /\ files' = [n \in DOMAIN files \cup {serial'} |->
                     IF n = serial' THEN Copy(db) ELSE files[n]]
  <2>1. run' = [run EXCEPT ![p].pc = "insert", ![p].file = serial']
        /\ run[p].pc = "write"
    BY DEF VacuumInto, At
  <2>2. run = [q \in Runners |-> run[q]] /\ IsRun(run[p])
    BY DEF RunsShaped, RunShape
  <2>3. run'[p].pc = "insert" /\ run'[p].file = serial'
    BY <2>1, <2>2 DEF IsRun
  <2> QED
    BY <2>1, <2>3 DEF VacuumInto, History
<1>3. HistoryShape
  BY DEF HInv
<1>4. serial \in Nat /\ serial' \in Nat /\ serial' \notin 1 .. serial
      /\ 1 .. serial \subseteq 1 .. serial' /\ serial' \in 1 .. serial'
  BY <1>2, <1>3 DEF HistoryShape
<1>5. DOMAIN files' = DOMAIN files \cup {serial'}
  BY <1>2
<1>6. HistoryShape'
  <2>1. files' = [n \in DOMAIN files' |-> files'[n]]
    BY <1>2, <1>5
  <2>2. DOMAIN files' \subseteq 1 .. serial'
    BY <1>3, <1>4, <1>5 DEF HistoryShape
  <2>3. \A x \in mapVersions' : /\ IsRow(x) /\ x.id \in 1 .. serial'
                                /\ \A y \in mapVersions' : y.id = x.id => y = x
    BY <1>2, <1>3, <1>4 DEF HistoryShape
  <2> QED
    BY <1>2, <1>3, <1>4, <2>1, <2>2, <2>3 DEF HistoryShape, IsRow
<1>7. \A x \in mapVersions : x.file # serial' /\ x.id # serial'
  BY <1>3, <1>4 DEF HistoryShape, IsRow
<1>8. Inserting'
  BY <1>1, <1>2, <1>5, <1>7 DEF Inserting, At
<1>9. Retiring' /\ RowsBounded'
  BY <1>1, <1>2 DEF Retiring, RowsBounded, At, HInv
<1>10. Orphans' = Orphans \cup {serial'} /\ Dangling' = Dangling
  BY <1>2, <1>5, <1>7 DEF Orphans, Dangling
<1>11. serial' \notin Orphans
  BY <1>3, <1>4 DEF Orphans, HistoryShape
<1>12. Cardinality(Orphans') = Cardinality(Orphans) + 1
  BY <1>3, <1>10, <1>11, UnmatchedNumber, FS_AddElement
<1>13. Unmatched <= failures
  BY <1>1, <1>2 DEF HInv, MatchesCounted, At
<1>14. Unmatched' <= failures' + 1
  <2>1. Cardinality(Orphans) \in Nat /\ Cardinality(Dangling) \in Nat /\ failures \in Nat
    BY <1>3, UnmatchedNumber DEF HistoryShape
  <2> QED
    BY <1>2, <1>10, <1>12, <1>13, <2>1 DEF Unmatched
<1>15. MatchesCounted'
  BY <1>1, <1>2, <1>14 DEF MatchesCounted, At
<1> QED
  BY <1>6, <1>8, <1>9, <1>15 DEF HInv

LEMMA HistoryInserts ==
  ASSUME OneRunner, RunsShaped, HInv, NEW p \in Runners, InsertVersion(p)
  PROVE  HInv'
<1> DEFINE row == [id |-> run[p].file, file |-> run[p].file, repos |-> Covered(p)]
<1>1. \A q \in Runners : q = p
  BY DEF OneRunner
<1>2. /\ run[p].pc = "insert" /\ run'[p].pc = "retain"
      /\ serial' = serial /\ files' = files /\ failures' = failures
      /\ mapVersions' = mapVersions \cup {row}
  <2>1. run' = [run EXCEPT ![p].pc = "retain"]
    BY DEF InsertVersion, Goto
  <2>2. run = [q \in Runners |-> run[q]] /\ IsRun(run[p])
    BY DEF RunsShaped, RunShape
  <2>3. run'[p].pc = "retain"
    BY <2>1, <2>2 DEF IsRun
  <2> QED
    BY <2>3 DEF InsertVersion, History, At
<1>3. HistoryShape
  BY DEF HInv
<1>4. /\ IsRow(row) /\ row.id = run[p].file /\ row.file = run[p].file
      /\ run[p].file \in DOMAIN files /\ run[p].file \in 1 .. serial
      /\ \A x \in mapVersions : x.id # run[p].file /\ x.file # run[p].file
  BY <1>2, <1>3 DEF HInv, Inserting, At, HistoryShape, IsRow
<1> HIDE DEF row
<1>5. row \notin mapVersions
  BY <1>4
<1>6. IsFiniteSet(mapVersions') /\ Cardinality(mapVersions') = Cardinality(mapVersions) + 1
  <2>1. IsFiniteSet(mapVersions)
    BY <1>3 DEF HistoryShape
  <2> QED
    BY <1>2, <1>5, <2>1, FS_AddElement
<1>7. HistoryShape'
  <2>1. \A x \in mapVersions' : /\ IsRow(x) /\ x.id \in 1 .. serial'
                                /\ \A y \in mapVersions' : y.id = x.id => y = x
    BY <1>2, <1>3, <1>4 DEF HistoryShape
  <2> QED
    BY <1>2, <1>3, <1>6, <2>1 DEF HistoryShape, IsRow
<1>8. Inserting' /\ Retiring'
  BY <1>1, <1>2 DEF Inserting, Retiring, At
<1>9. RowsBounded'
  <2>1. Cardinality(mapVersions) <= HistoryLimit + failures
    BY <1>1, <1>2 DEF HInv, RowsBounded, At
  <2>2. Cardinality(mapVersions') <= HistoryLimit + failures' + 1
    BY <1>2, <1>3, <1>6, <2>1, UnmatchedNumber, Constant DEF HistoryShape
  <2> QED
    BY <1>2, <2>2 DEF RowsBounded, At
<1>10. Orphans' = Orphans \ {run[p].file} /\ Dangling' = Dangling
  BY <1>2, <1>4 DEF Orphans, Dangling
<1>11. run[p].file \in Orphans
  BY <1>4 DEF Orphans
<1>12. Cardinality(Orphans') = Cardinality(Orphans) - 1
  BY <1>3, <1>10, <1>11, UnmatchedNumber, FS_RemoveElement
<1>13. Unmatched <= failures + 1
  BY <1>1, <1>2 DEF HInv, MatchesCounted, At
<1>14. Unmatched' <= failures'
  <2>1. Cardinality(Orphans) \in Nat /\ Cardinality(Dangling) \in Nat /\ failures \in Nat
    BY <1>3, UnmatchedNumber DEF HistoryShape
  <2> QED
    BY <1>2, <1>10, <1>12, <1>13, <2>1 DEF Unmatched
<1>15. MatchesCounted'
  BY <1>1, <1>2, <1>14 DEF MatchesCounted, At
<1> QED
  BY <1>7, <1>8, <1>9, <1>15 DEF HInv

(* The file of the row that goes next goes first, if it is there.          *)
LEMMA HistoryUnlinks ==
  ASSUME OneRunner, RunsShaped, HInv, NEW p \in Runners,
         UnlinkSnapshot(p) \/ UnlinkThrew(p)
  PROVE  HInv'
<1>0. PICK t : t = ToDelete(p)
  OBVIOUS
<1>1. \A q \in Runners : q = p /\ ToDelete(q) = t
  BY <1>0 DEF OneRunner
<1>2. /\ run[p].pc = "retain" /\ run'[p].pc = "row" /\ Beyond(mapVersions) # {}
      /\ serial' = serial /\ mapVersions' = mapVersions
      /\ UnlinkSnapshot(p) =>
           /\ failures' = failures
           /\ files' = [n \in DOMAIN files \ {t.file} |-> files[n]]
      /\ UnlinkThrew(p) => failures' = failures + 1 /\ files' = files
  <2>1. run' = [run EXCEPT ![p].pc = "row"]
    BY DEF UnlinkSnapshot, UnlinkThrew, Goto
  <2>2. run = [q \in Runners |-> run[q]] /\ IsRun(run[p])
    BY DEF RunsShaped, RunShape
  <2>3. run'[p].pc = "row"
    BY <2>1, <2>2 DEF IsRun
  <2> QED
    BY <1>0, <2>3 DEF UnlinkSnapshot, UnlinkThrew, History, Snapshots, At
<1>3. HistoryShape /\ Numbered(mapVersions, serial) /\ failures \in Nat /\ serial \in Nat
  BY RowsNumbered DEF HInv, HistoryShape
<1>4. t \in Beyond(mapVersions) /\ t \in mapVersions
  BY <1>0, <1>2, <1>3, NextRetired
<1>5. \A x \in mapVersions : x.file = t.file => x = t
  BY <1>3, <1>4 DEF HistoryShape, IsRow
<1>6. \A q : ToDelete(q)' = t
  BY <1>0, <1>2 DEF ToDelete
<1>7. Retiring' /\ Inserting'
  BY <1>1, <1>2 DEF Retiring, Inserting, At
<1>8. Cardinality(mapVersions) \in Nat /\ HistoryLimit \in Nat
      /\ Cardinality(Orphans) \in Nat /\ Cardinality(Dangling) \in Nat
      /\ IsFiniteSet(Dangling)
  BY <1>3, UnmatchedNumber, Constant
<1>9. Cardinality(mapVersions) <= HistoryLimit + failures + 1
  BY <1>3, <1>8 DEF HInv, RowsBounded
<1>10. failures' \in Nat /\ failures <= failures' /\ failures' <= failures + 1
  BY <1>2, <1>3
<1>11. RowsBounded'
  <2>1. Cardinality(mapVersions') <= HistoryLimit + failures' + 1
    BY <1>2, <1>3, <1>8, <1>9, <1>10
  <2> QED
    BY <1>2, <2>1 DEF RowsBounded, At
<1>12. Unmatched <= failures
  BY <1>1, <1>2 DEF HInv, MatchesCounted, At
<1>13. DOMAIN files' \subseteq DOMAIN files /\ files' = [n \in DOMAIN files' |-> files'[n]]
  BY <1>2, <1>3 DEF HistoryShape
<1>14. HistoryShape'
  BY <1>2, <1>3, <1>10, <1>13 DEF HistoryShape, IsRow
<1>15. Unmatched' <= IF t.file \in DOMAIN files' THEN failures' - 1 ELSE failures' + 1
  <2>1. CASE UnlinkThrew(p)
    <3>1. Unmatched' = Unmatched
      BY <1>2, <2>1 DEF Unmatched, Orphans, Dangling
    <3>2. Unmatched \in Nat
      BY <1>8 DEF Unmatched
    <3> QED
      BY <1>2, <1>3, <1>12, <2>1, <3>1, <3>2
  <2>2. CASE UnlinkSnapshot(p) /\ t.file \notin DOMAIN files
    <3>1. DOMAIN files' = DOMAIN files
      BY <1>2, <2>2
    <3>2. Unmatched' = Unmatched
      BY <1>2, <3>1 DEF Unmatched, Orphans, Dangling
    <3>3. Unmatched \in Nat
      BY <1>8 DEF Unmatched
    <3> QED
      BY <1>2, <1>3, <1>12, <2>2, <3>1, <3>2, <3>3
  <2>3. CASE UnlinkSnapshot(p) /\ t.file \in DOMAIN files
    <3>1. DOMAIN files' = DOMAIN files \ {t.file}
      BY <1>2, <2>3
    <3>2. Orphans' = Orphans
      BY <1>2, <1>4, <3>1 DEF Orphans
    <3>3. Dangling' = Dangling \cup {t} /\ t \notin Dangling
      BY <1>2, <1>4, <1>5, <2>3, <3>1 DEF Dangling
    <3>4. Cardinality(Dangling') = Cardinality(Dangling) + 1
      BY <1>8, <3>3, FS_AddElement
    <3>5. Unmatched' = Unmatched + 1
      BY <1>8, <3>2, <3>4 DEF Unmatched
    <3>6. Unmatched \in Nat
      BY <1>8 DEF Unmatched
    <3> QED
      BY <1>2, <1>3, <1>12, <2>3, <3>1, <3>5, <3>6
  <2> QED
    BY <2>1, <2>2, <2>3
<1>16. MatchesCounted'
  BY <1>1, <1>2, <1>6, <1>15 DEF MatchesCounted, At
<1> QED
  BY <1>7, <1>11, <1>14, <1>16 DEF HInv

(* Then its row goes. *)
LEMMA HistoryDeletes ==
  ASSUME OneRunner, RunsShaped, HInv, NEW p \in Runners, DeleteVersion(p)
  PROVE  HInv'
<1>0. PICK t : t = ToDelete(p)
  OBVIOUS
<1>1. \A q \in Runners : q = p /\ ToDelete(q) = t
  BY <1>0 DEF OneRunner
<1>2. /\ run[p].pc = "row" /\ run'[p].pc = "retain"
      /\ serial' = serial /\ files' = files /\ failures' = failures
      /\ mapVersions' = mapVersions \ {t}
  <2>1. run' = [run EXCEPT ![p].pc = "retain"]
    BY DEF DeleteVersion, Goto
  <2>2. run = [q \in Runners |-> run[q]] /\ IsRun(run[p])
    BY DEF RunsShaped, RunShape
  <2>3. run'[p].pc = "retain"
    BY <2>1, <2>2 DEF IsRun
  <2> QED
    BY <1>0, <2>3 DEF DeleteVersion, History, At
<1>3. HistoryShape /\ Numbered(mapVersions, serial) /\ failures \in Nat /\ serial \in Nat
      /\ IsFiniteSet(mapVersions)
  BY RowsNumbered DEF HInv, HistoryShape
<1>4. t \in mapVersions
  <2>1. Beyond(mapVersions) # {}
    BY <1>2 DEF HInv, Retiring, At
  <2> QED
    BY <1>0, <1>3, <2>1, NextRetired
<1>5. \A x \in mapVersions : x.file = t.file => x = t
  BY <1>3, <1>4 DEF HistoryShape, IsRow
<1>6. /\ Cardinality(mapVersions) \in Nat /\ HistoryLimit \in Nat
      /\ Cardinality(Orphans) \in Nat /\ Cardinality(Dangling) \in Nat
      /\ IsFiniteSet(Dangling) /\ IsFiniteSet(Orphans)
  BY <1>3, UnmatchedNumber, Constant
<1>7. IsFiniteSet(mapVersions') /\ Cardinality(mapVersions') = Cardinality(mapVersions) - 1
  BY <1>2, <1>3, <1>4, FS_RemoveElement
<1>8. HistoryShape'
  BY <1>2, <1>3, <1>7 DEF HistoryShape, IsRow
<1>9. Retiring' /\ Inserting'
  BY <1>1, <1>2 DEF Retiring, Inserting, At
<1>10. RowsBounded'
  <2>1. Cardinality(mapVersions) <= HistoryLimit + failures + 1
    BY <1>3, <1>6 DEF HInv, RowsBounded
  <2>2. Cardinality(mapVersions') <= HistoryLimit + failures' + 1
    BY <1>2, <1>3, <1>6, <1>7, <2>1
  <2> QED
    BY <1>2, <2>2 DEF RowsBounded, At
<1>11. Unmatched <= IF t.file \in DOMAIN files THEN failures - 1 ELSE failures + 1
  BY <1>1, <1>2 DEF HInv, MatchesCounted, At
<1>12. Unmatched' <= failures'
  <2>1. CASE t.file \in DOMAIN files
    <3>1. Orphans' = Orphans \cup {t.file} /\ t.file \notin Orphans
      BY <1>2, <1>4, <1>5, <2>1 DEF Orphans
    <3>2. Dangling' = Dangling
      BY <1>2, <1>5, <2>1 DEF Dangling
    <3>3. Cardinality(Orphans') = Cardinality(Orphans) + 1
      BY <1>6, <3>1, FS_AddElement
    <3> QED
      BY <1>2, <1>3, <1>6, <1>11, <2>1, <3>2, <3>3 DEF Unmatched
  <2>2. CASE t.file \notin DOMAIN files
    <3>1. Orphans' = Orphans
      BY <1>2, <1>5, <2>2 DEF Orphans
    <3>2. Dangling' = Dangling \ {t} /\ t \in Dangling
      BY <1>2, <1>4, <2>2 DEF Dangling
    <3>3. Cardinality(Dangling') = Cardinality(Dangling) - 1
      BY <1>6, <3>2, FS_RemoveElement
    <3> QED
      BY <1>2, <1>3, <1>6, <1>11, <2>2, <3>1, <3>3 DEF Unmatched
  <2> QED
    BY <2>1, <2>2
<1>13. MatchesCounted'
  BY <1>1, <1>2, <1>12 DEF MatchesCounted, At
<1> QED
  BY <1>8, <1>9, <1>10, <1>13 DEF HInv

LEMMA HistoryDone ==
  ASSUME OneRunner, RunsShaped, HInv, NEW p \in Runners, SnapshotDone(p)
  PROVE  HInv'
<1>1. \A q \in Runners : q = p
  BY DEF OneRunner
<1>2. /\ run[p].pc = "retain" /\ run'[p].pc = "idle" /\ Beyond(mapVersions) = {}
      /\ HistorySame /\ failures' = failures
  BY NoRunShape DEF SnapshotDone, EndRun, At, RunsShaped, HistorySame, Snapshots, History
<1>3. HistoryShape /\ Numbered(mapVersions, serial) /\ failures \in Nat /\ serial \in Nat
  BY RowsNumbered DEF HInv, HistoryShape
<1>4. HistoryShape'
  BY <1>2, <1>3 DEF HistoryShape, HistorySame, IsRow
<1>5. Retiring' /\ Inserting'
  BY <1>1, <1>2 DEF Retiring, Inserting, At
<1>6. RowsBounded'
  <2>1. Cardinality(mapVersions) <= HistoryLimit
    BY <1>2, <1>3, LimitHolds
  <2>2. Cardinality(mapVersions') <= HistoryLimit + failures'
    BY <1>2, <1>3, <2>1, UnmatchedNumber, Constant DEF HistorySame
  <2> QED
    BY <2>2 DEF RowsBounded
<1>7. Unmatched <= failures
  BY <1>1, <1>2 DEF HInv, MatchesCounted, At
<1>8. Unmatched' = Unmatched
  BY <1>2 DEF HistorySame, Unmatched, Orphans, Dangling
<1>9. MatchesCounted'
  BY <1>1, <1>2, <1>7, <1>8 DEF MatchesCounted, At
<1> QED
  BY <1>4, <1>5, <1>6, <1>9 DEF HInv

LEMMA HistoryInit ==
  ASSUME \A n \in Legacy : n <= HistoryLimit, Init
  PROVE  HInv
<1> DEFINE Row(n) == [id |-> n, file |-> n, repos |-> NoRepos]
           f == [n \in 1 .. serial |-> Row(n)]
<1>1. /\ serial \in Nat /\ serial <= HistoryLimit /\ failures = 0
      /\ mapVersions = {Row(n) : n \in 1 .. serial}
      /\ files = [n \in 1 .. serial |-> Copy(EmptyDb)]
      /\ \A p \in Runners : run[p] = NoRun
  BY Constant DEF Init
<1>2. \A n : Row(n).id = n /\ Row(n).file = n /\ IsRow(Row(n))
  BY DEF IsRow
<1> HIDE DEF Row
<1>3. /\ \A x \in mapVersions : x.id \in 1 .. serial /\ x = Row(x.id)
      /\ \A n \in 1 .. serial : Row(n) \in mapVersions
  BY <1>1, <1>2
<1>4. IsFiniteSet(mapVersions) /\ Cardinality(mapVersions) = serial
  <2>1. f \in Bijection(1 .. serial, mapVersions)
    <3>1. f \in [1 .. serial -> mapVersions]
      BY <1>3
    <3>2. \A m, n \in 1 .. serial : f[m] = f[n] => m = n
      BY <1>2
    <3>3. \A x \in mapVersions : \E n \in 1 .. serial : f[n] = x
      BY <1>3
    <3> HIDE DEF f
    <3> QED
      BY <3>1, <3>2, <3>3 DEF Bijection, Injection, Surjection, IsInjective
  <2>2. ExistsBijection(1 .. serial, mapVersions)
    BY <2>1 DEF ExistsBijection
  <2>3. 1 \in Int /\ serial \in Int
    BY <1>1
  <2>4. IsFiniteSet(1 .. serial) /\ Cardinality(1 .. serial) = IF 1 > serial THEN 0 ELSE serial - 1 + 1
    BY <2>3, FS_Interval
  <2>5. Cardinality(1 .. serial) = serial
    BY <1>1, <2>4
  <2> QED
    BY <2>2, <2>4, <2>5, FS_Bijection
<1>5. DOMAIN files = 1 .. serial /\ files = [n \in DOMAIN files |-> files[n]]
  BY <1>1
<1>6. HistoryShape
  BY <1>1, <1>2, <1>3, <1>4, <1>5 DEF HistoryShape
<1>7. Inserting /\ Retiring
  BY <1>1 DEF Inserting, Retiring, At, NoRun
<1>8. RowsBounded
  BY <1>1, <1>4, Constant DEF RowsBounded
<1>9. Orphans = {} /\ Dangling = {}
  <2>1. \A x \in mapVersions : x.file \in DOMAIN files
    BY <1>2, <1>3, <1>5
  <2>2. \A n \in DOMAIN files : \E x \in mapVersions : x.file = n
    BY <1>2, <1>3, <1>5
  <2> QED
    BY <2>1, <2>2 DEF Orphans, Dangling
<1>10. Unmatched = 0
  BY <1>9, FS_EmptySet DEF Unmatched
<1>11. MatchesCounted
  BY <1>1, <1>10 DEF MatchesCounted, At, NoRun
<1> QED
  BY <1>6, <1>7, <1>8, <1>11 DEF HInv

(* A step that is not of createSnapshot leaves the history alone, and the  *)
(* run on either side of it is elsewhere.                                  *)
OutsideHistory(p) ==
  /\ HistorySame /\ failures' \in {failures, failures + 1}
  /\ run[p].pc \notin SnapshotLabels /\ run'[p].pc \notin SnapshotLabels

LEMMA StepOutside ==
  ASSUME RunsShaped, failures \in Nat, NEW p \in Runners,
         \/ \E set \in RepoSets : \E answered \in SUBSET set :
              BeginRun(p, set, answered)
         \/ PersistStep(p) \/ EnrichStep(p) \/ ChromaStep(p) \/ NothingWritten(p)
  PROVE  OutsideHistory(p)
<1>0. run = [q \in Runners |-> run[q]] /\ IsRun(run[p])
  BY DEF RunsShaped, RunShape
<1>1. ASSUME NEW set \in RepoSets, NEW answered \in SUBSET set,
             BeginRun(p, set, answered)
      PROVE  OutsideHistory(p)
  <2>1. run[p].pc = "idle" /\ run'[p].pc = "write"
    BY <1>0, <1>1 DEF BeginRun, At, NoRun
  <2>2. HistorySame /\ failures' = failures
    BY <1>1 DEF BeginRun, HistorySame, Snapshots, History
  <2> QED
    BY <2>1, <2>2 DEF SnapshotLabels, OutsideHistory
<1>2. ASSUME NEW r \in run[p].todo, NEW found \in Findings[r], NEW mode,
             NEW commit, NEW tree, NEW o, NEW gone, NEW torn,
             PersistScanResult(p, r, found, mode, commit, tree, o, gone, torn)
      PROVE  OutsideHistory(p)
  <2>1. run[p].pc = "write" /\ run'[p].pc \in {"write", "wipe"}
    <3>1. run[p].pc = "write"
      BY <1>2 DEF PersistScanResult, At
    <3>2. PICK todo, given :
            run'[p] = IF torn THEN [run[p] EXCEPT !.todo = todo]
                      ELSE [run[p] EXCEPT !.pc = "wipe", !.todo = todo,
                              !.repo = r, !.found = found, !.covered = given]
      BY <1>2, Zenon DEF PersistScanResult
    <3> QED
      BY <1>0, <3>1, <3>2 DEF IsRun
  <2>2. HistorySame /\ failures' \in {failures, failures + 1}
    BY <1>2 DEF PersistScanResult, HistorySame, Snapshots, Fails
  <2> QED
    BY <2>1, <2>2 DEF SnapshotLabels, OutsideHistory
<1>3. ASSUME NEW r \in run[p].todo, PersistThrew(p, r)
      PROVE  OutsideHistory(p)
  <2>1. run[p].pc = "write" /\ run'[p].pc = "write"
    BY <1>0, <1>3 DEF PersistThrew, At, IsRun
  <2>2. HistorySame /\ failures' = failures + 1
    BY <1>3 DEF PersistThrew, HistorySame, Snapshots
  <2> QED
    BY <2>1, <2>2 DEF SnapshotLabels, OutsideHistory
<1>4. CASE EnrichStep(p)
  <2>1. run[p].pc \in {"wipe", "enrich"} /\ run'[p].pc \in {"enrich", "delete"}
    <3>1. CASE WipeMetadata(p) \/ WipeThrew(p)
      BY <1>0, <3>1 DEF WipeMetadata, WipeThrew, Enriching, At, IsRun
    <3>2. CASE EnrichService(p) \/ CollectorThrew(p)
      BY <1>0, <3>2 DEF EnrichService, CollectorThrew, At, IsRun
    <3>3. CASE SweepDependencies(p) \/ SweepThrew(p)
      BY <1>0, <3>3 DEF SweepDependencies, SweepThrew, Goto, At, IsRun
    <3> QED
      BY <1>4, <3>1, <3>2, <3>3 DEF EnrichStep
  <2>2. HistorySame /\ failures' \in {failures, failures + 1}
    BY <1>4 DEF EnrichStep, WipeMetadata, WipeThrew, EnrichService, CollectorThrew,
                SweepDependencies, SweepThrew, HistorySame, Snapshots, Fails, History
  <2> QED
    BY <2>1, <2>2 DEF SnapshotLabels, OutsideHistory
<1>5. CASE ChromaStep(p)
  <2>1. run[p].pc \in {"delete", "upsert"} /\ run'[p].pc \in {"upsert", "write"}
    <3>1. CASE DeleteRepoRecords(p) \/ DeleteThrew(p)
      BY <1>0, <3>1 DEF DeleteRepoRecords, DeleteThrew, Goto, At, IsRun
    <3>2. CASE ChromaUnavailable(p) \/ SyncFindings(p) \/ SyncThrew(p)
      BY <1>0, <3>2 DEF ChromaUnavailable, SyncFindings, SyncThrew, NextRepo, At, IsRun
    <3> QED
      BY <1>5, <3>1, <3>2 DEF ChromaStep
  <2>2. HistorySame /\ failures' \in {failures, failures + 1}
    BY <1>5 DEF ChromaStep, ChromaUnavailable, DeleteRepoRecords, DeleteThrew,
                SyncFindings, SyncThrew, HistorySame, Snapshots, Fails, History
  <2> QED
    BY <2>1, <2>2 DEF SnapshotLabels, OutsideHistory
<1>6. CASE NothingWritten(p)
  <2>1. run[p].pc = "write" /\ run'[p].pc = "idle"
    BY <1>0, <1>6, NoRunShape DEF NothingWritten, EndRun, At
  <2>2. HistorySame /\ failures' = failures
    BY <1>6 DEF NothingWritten, HistorySame, Snapshots, History
  <2> QED
    BY <2>1, <2>2 DEF SnapshotLabels, OutsideHistory
<1> QED
  BY <1>1, <1>2, <1>3, <1>4, <1>5, <1>6 DEF PersistStep

(* A run that gives up leaves the history as it is. *)
LEMMA StepGivenUp ==
  ASSUME RunsShaped, NEW p \in Runners,
         VacuumThrew(p) \/ SnapshotThrew(p) \/ Crash(p)
  PROVE  HistorySame /\ failures' = failures + 1 /\ run'[p].pc = "idle"
<1>1. run'[p].pc = "idle"
  BY NoRunShape DEF VacuumThrew, SnapshotThrew, Crash, EndRun, RunsShaped
<1>2. HistorySame /\ failures' = failures + 1
  BY DEF VacuumThrew, SnapshotThrew, Crash, HistorySame, Snapshots
<1> QED
  BY <1>1, <1>2

LEMMA HistoryStep ==
  OneRunner /\ RunsShaped /\ HInv /\ [Next]_vars => HInv'
<1> SUFFICES ASSUME OneRunner, RunsShaped, HInv, [Next]_vars
             PROVE  HInv'
  OBVIOUS
<1>1. CASE UNCHANGED vars
  <2>1. HistoryShape' /\ Inserting'
    BY <1>1 DEF vars, HInv, HistoryShape, Inserting, At, IsRow
  <2>2. Retiring' /\ RowsBounded'
    BY <1>1 DEF vars, HInv, Retiring, RowsBounded, At
  <2>3. Unmatched' = Unmatched /\ \A p : ToDelete(p)' = ToDelete(p)
    BY <1>1 DEF vars, Unmatched, Orphans, Dangling, ToDelete
  <2>4. MatchesCounted'
    BY <1>1, <2>3 DEF vars, HInv, MatchesCounted, At
  <2> QED
    BY <2>1, <2>2, <2>4 DEF HInv
<1>2. ASSUME NEW p \in Runners, OutsideHistory(p)
      PROVE  HInv'
  BY <1>2, HistoryKept DEF OutsideHistory
<1>3. ASSUME NEW p \in Runners, VacuumThrew(p) \/ SnapshotThrew(p) \/ Crash(p)
      PROVE  HInv'
  BY <1>3, StepGivenUp, HistoryGivenUp DEF SnapshotLabels
<1>4. failures \in Nat
  BY DEF HInv, HistoryShape
<1>5. ASSUME NEW p \in Runners, CreateSnapshot(p)
      PROVE  HInv'
  BY <1>2, <1>3, <1>4, <1>5, StepOutside, HistoryVacuums, HistoryInserts,
     HistoryUnlinks, HistoryDeletes, HistoryDone DEF CreateSnapshot
<1> QED
  BY <1>1, <1>2, <1>3, <1>4, <1>5, StepOutside DEF Next

(* Between runs the history is no longer than its limit, and rows and      *)
(* files match, up to one exception for each failure or kill               *)
(* (createSnapshot).                                                       *)
THEOREM HistoryIsBounded ==
  OneRunner /\ (\A n \in Legacy : n <= HistoryLimit) =>
    (Spec => []HistoryBounded)
<1> SUFFICES ASSUME OneRunner, \A n \in Legacy : n <= HistoryLimit
             PROVE  Spec => []HistoryBounded
  OBVIOUS
<1>1. Apart
  BY DEF Apart
<1>2. Init => TInv /\ HInv
  BY TailInit, HistoryInit
<1>3. TInv /\ HInv /\ [Next]_vars => (TInv /\ HInv)'
  BY <1>1, TailStep, HistoryStep DEF TInv, RunsOK
<1>4. TInv /\ HInv => HistoryBounded
  <2> SUFFICES ASSUME HInv, Idle
               PROVE  /\ Cardinality(mapVersions) <= HistoryLimit + failures
                      /\ Cardinality(Orphans) + Cardinality(Dangling) <= failures
    BY DEF HistoryBounded
  <2>1. \A p \in Runners : run[p].pc = "idle"
    BY DEF Idle, At
  <2> QED
    BY <2>1 DEF HInv, RowsBounded, MatchesCounted, Unmatched, At
<1> QED
  BY <1>2, <1>3, <1>4, PTL DEF Spec

-----------------------------------------------------------------------------
(* The files of the snapshots say what their rows say.                     *)

LEMMA BeyondGrows ==
  ASSUME NEW rows, IsFiniteSet(rows), NEW some \in SUBSET rows
  PROVE  Beyond(some) \subseteq Beyond(rows)
<1> SUFFICES ASSUME NEW x \in Beyond(some)
             PROVE  x \in Beyond(rows)
  OBVIOUS
<1> DEFINE S == {y \in some : y.id > x.id}
           T == {y \in rows : y.id > x.id}
<1>1. S \in SUBSET T /\ T \in SUBSET rows
  OBVIOUS
<1>2. x \in rows /\ Cardinality(S) >= HistoryLimit
  BY DEF Beyond
<1> HIDE DEF S, T
<1>3. IsFiniteSet(T)
  BY <1>1, FS_Subset
<1>4. IsFiniteSet(S) /\ Cardinality(S) <= Cardinality(T)
  BY <1>1, <1>3, FS_Subset
<1>5. Cardinality(S) \in Nat /\ Cardinality(T) \in Nat /\ HistoryLimit \in Nat
  BY <1>3, <1>4, FS_CardinalityType, Constant
<1>6. Cardinality(T) >= HistoryLimit
  BY <1>2, <1>4, <1>5
<1> QED
  BY <1>2, <1>6 DEF Beyond, T

(* When the newest row beyond the limit goes, the older ones stay beyond.  *)
LEMMA BeyondStays ==
  ASSUME NEW b \in Nat, NEW rows, Numbered(rows, b), NEW t \in Beyond(rows),
         NEW x \in Beyond(rows), x # t, x.id <= t.id
  PROVE  x \in Beyond(rows \ {t})
<1> DEFINE S == {y \in rows : y.id > t.id}
           T == {y \in rows \ {t} : y.id > x.id}
<1>1. x \in rows /\ t \in rows /\ Cardinality(S) >= HistoryLimit
  BY DEF Beyond
<1>2. S \in SUBSET T /\ T \in SUBSET rows
  <2>1. \A y \in rows : y.id \in Nat /\ x.id \in Nat /\ t.id \in Nat
    BY <1>1 DEF Numbered
  <2> QED
    BY <2>1
<1> HIDE DEF S, T
<1>3. IsFiniteSet(T)
  BY <1>2, FS_Subset DEF Numbered
<1>4. IsFiniteSet(S) /\ Cardinality(S) <= Cardinality(T)
  BY <1>2, <1>3, FS_Subset
<1>5. Cardinality(S) \in Nat /\ Cardinality(T) \in Nat /\ HistoryLimit \in Nat
  BY <1>3, <1>4, FS_CardinalityType, Constant
<1>6. Cardinality(T) >= HistoryLimit
  BY <1>1, <1>4, <1>5
<1> QED
  BY <1>1, <1>6 DEF Beyond, T

(* A copy of the tables says of a repository what its latest scan says.    *)
LEMMA CopySound ==
  ASSUME NEW d, TablesOK(d), NEW r, NEW v, v = LatestOf(d, r), ScanRow(v, r) \in d.scans
  PROVE  Sound(Copy(d), r, v)
<1>1. Copy(d).services = d.services /\ Copy(d).calls = d.calls
  BY DEF Copy
<1>2. \A q : ScanRow(v, q) \in d.scans => q = r
  <2>1. ASSUME NEW q, ScanRow(v, q) \in d.scans
        PROVE  q = r
    <3>1. ScanRow(v, q).id = v /\ ScanRow(v, r).id = v
          /\ ScanRow(v, q).repo = q /\ ScanRow(v, r).repo = r
      BY DEF ScanRow
    <3>2. ScanRow(v, q) = ScanRow(v, r)
      BY <2>1, <3>1 DEF TablesOK, ScansNumbered
    <3> QED
      BY <3>1, <3>2
  <2> QED
    BY <2>1
<1>3. ASSUME NEW s \in d.services
      PROVE  /\ s.scan = v <=> s.repo = r
             /\ \A t \in d.services : t.repo = s.repo /\ t.name = s.name => t = s
  <2>1. /\ ScanRow(s.scan, s.repo) \in d.scans /\ s.scan = LatestOf(d, s.repo)
        /\ \A t \in d.services : t.repo = s.repo /\ t.name = s.name => t = s
    BY DEF TablesOK, ServicesCurrent, ServiceCurrent, OneRow
  <2> QED
    BY <1>2, <2>1
<1>4. ASSUME NEW c \in d.calls, c.told # "elsewhere"
      PROVE  c.scan = v <=> c.source.repo = r /\ c.told = "since"
  <2>1. /\ ScanRow(c.scan, c.source.repo) \in d.scans
        /\ c.scan = LatestOf(d, c.source.repo) <=> c.told = "since"
    BY <1>4 DEF TablesOK, CallsCurrent, CallCurrent
  <2> QED
    BY <1>2, <2>1
<1> QED
  BY <1>1, <1>3, <1>4 DEF Sound

LEMMA DriftInit ==
  ASSUME Init
  PROVE  DInv
<1>1. /\ \A x \in mapVersions : x.file \in DOMAIN files /\ DOMAIN x.repos = {}
      /\ \A p \in Runners : run[p].pc = "idle"
  <2>1. DOMAIN NoRepos = {}
    BY DEF NoRepos
  <2>2. \A p \in Runners : run[p].pc = "idle"
    BY DEF Init, NoRun
  <2>3. \A x \in mapVersions : x.file \in DOMAIN files /\ x.repos = NoRepos
    BY DEF Init
  <2> QED
    BY <2>1, <2>2, <2>3
<1>2. DanglingBeyond
  BY <1>1 DEF DanglingBeyond, Dangling
<1> QED
  BY <1>1, <1>2 DEF DInv, FilesSound, At

(* Nothing of the history changes, and no row is about to be inserted.     *)
LEMMA DriftKept ==
  ASSUME OneRunner, DInv, NEW p \in Runners, HistorySame, run'[p].pc # "insert"
  PROVE  DInv'
<1>1. \A q \in Runners : q = p
  BY DEF OneRunner
<1>2. DanglingBeyond'
  BY DEF DInv, DanglingBeyond, Dangling, HistorySame
<1>3. FilesSound'
  BY <1>1 DEF DInv, FilesSound, HistorySame, At
<1> QED
  BY <1>2, <1>3 DEF DInv

LEMMA DriftVacuums ==
  ASSUME OneRunner, RunsOK, HInv, DInv, NEW p \in Runners, VacuumInto(p)
  PROVE  DInv'
<1>1. \A q \in Runners : q = p
  BY DEF OneRunner
<1>2. /\ run'[p].file = serial' /\ run'[p].covered = run[p].covered
      /\ serial' = serial + 1 /\ mapVersions' = mapVersions
      /\ files' = [n \in DOMAIN files \cup {serial'} |->
                     IF n = serial' THEN Copy(db) ELSE files[n]]
  <2>1. run' = [run EXCEPT ![p].pc = "insert", ![p].file = serial']
    BY DEF VacuumInto
  <2>2. run = [q \in Runners |-> run[q]] /\ IsRun(run[p])
    BY DEF RunsOK, RunsShaped, RunShape
  <2>3. run'[p].file = serial' /\ run'[p].covered = run[p].covered
    BY <2>1, <2>2 DEF IsRun
  <2> QED
    BY <2>3 DEF VacuumInto
<1>3. \A x \in mapVersions : x.file # serial'
  <2>1. serial' \notin 1 .. serial
    BY <1>2 DEF HInv, HistoryShape
  <2> QED
    BY <2>1 DEF HInv, HistoryShape, IsRow
<1>4. DanglingBeyond'
  BY <1>2, <1>3 DEF DInv, DanglingBeyond, Dangling
<1>5. \A x \in mapVersions : x.file \in DOMAIN files' =>
        x.file \in DOMAIN files /\ files'[x.file] = files[x.file]
  BY <1>2, <1>3
<1>6. \A r \in DOMAIN run[p].covered : Sound(Copy(db), r, run[p].covered[r])
  BY CopySound DEF RunsOK, CoveredLatest
<1>7. files'[serial'] = Copy(db)
  BY <1>2
<1>8. FilesSound'
  BY <1>1, <1>2, <1>5, <1>6, <1>7 DEF DInv, FilesSound
<1> QED
  BY <1>4, <1>8 DEF DInv

LEMMA DriftInserts ==
  ASSUME OneRunner, RunsShaped, HInv, DInv, NEW p \in Runners, InsertVersion(p)
  PROVE  DInv'
<1> DEFINE row == [id |-> run[p].file, file |-> run[p].file, repos |-> Covered(p)]
<1>1. \A q \in Runners : q = p
  BY DEF OneRunner
<1>2. /\ run[p].pc = "insert" /\ run'[p].pc = "retain"
      /\ files' = files /\ mapVersions' = mapVersions \cup {row}
  <2>1. run' = [run EXCEPT ![p].pc = "retain"]
    BY DEF InsertVersion, Goto
  <2>2. run = [q \in Runners |-> run[q]] /\ IsRun(run[p])
    BY DEF RunsShaped, RunShape
  <2>3. run'[p].pc = "retain"
    BY <2>1, <2>2 DEF IsRun
  <2> QED
    BY <2>3 DEF InsertVersion, At
<1>3. /\ row.file = run[p].file /\ row.repos = run[p].covered
      /\ row.file \in DOMAIN files
  BY <1>2 DEF HInv, Inserting, At, Covered
<1>4. \A r \in DOMAIN row.repos : Sound(files[row.file], r, row.repos[r])
  BY <1>2, <1>3 DEF DInv, FilesSound, At
<1> HIDE DEF row
<1>5. IsFiniteSet(mapVersions')
  BY <1>2, FS_AddElement DEF HInv, HistoryShape
<1>6. Beyond(mapVersions) \subseteq Beyond(mapVersions')
  <2>1. PICK new : new = mapVersions'
    OBVIOUS
  <2>2. IsFiniteSet(new) /\ mapVersions \in SUBSET new
    BY <1>2, <1>5, <2>1
  <2>3. Beyond(mapVersions) \subseteq Beyond(new)
    BY <2>2, BeyondGrows
  <2> QED
    BY <2>1, <2>3
<1>7. Dangling' = Dangling
  BY <1>2, <1>3 DEF Dangling
<1>8. Beyond(mapVersions)' = Beyond(mapVersions')
  BY DEF Beyond
<1>9. DanglingBeyond'
  BY <1>6, <1>7, <1>8 DEF DInv, DanglingBeyond
<1>10. FilesSound'
  BY <1>1, <1>2, <1>4 DEF DInv, FilesSound, At
<1> QED
  BY <1>9, <1>10 DEF DInv

LEMMA DriftUnlinks ==
  ASSUME OneRunner, RunsShaped, HInv, DInv, NEW p \in Runners,
         UnlinkSnapshot(p) \/ UnlinkThrew(p)
  PROVE  DInv'
<1>0. PICK t : t = ToDelete(p)
  OBVIOUS
<1>1. \A q \in Runners : q = p
  BY DEF OneRunner
<1>2. /\ run'[p].pc = "row" /\ Beyond(mapVersions) # {}
      /\ mapVersions' = mapVersions
      /\ \/ files' = files
         \/ files' = [n \in DOMAIN files \ {t.file} |-> files[n]]
  <2>1. run' = [run EXCEPT ![p].pc = "row"]
    BY DEF UnlinkSnapshot, UnlinkThrew, Goto
  <2>2. run = [q \in Runners |-> run[q]] /\ IsRun(run[p])
    BY DEF RunsShaped, RunShape
  <2>3. run'[p].pc = "row"
    BY <2>1, <2>2 DEF IsRun
  <2> QED
    BY <1>0, <2>3 DEF UnlinkSnapshot, UnlinkThrew, Snapshots
<1>3. HistoryShape /\ Numbered(mapVersions, serial) /\ serial \in Nat
  BY RowsNumbered DEF HInv, HistoryShape
<1>4. t \in Beyond(mapVersions) /\ t \in mapVersions
  BY <1>0, <1>2, <1>3, NextRetired
<1>5. \A x \in mapVersions : x.file = t.file => x = t
  BY <1>3, <1>4 DEF HistoryShape, IsRow
<1>6. \A x \in mapVersions :
        /\ x.file \in DOMAIN files' =>
             x.file \in DOMAIN files /\ files'[x.file] = files[x.file]
        /\ x.file \notin DOMAIN files' => x.file \notin DOMAIN files \/ x = t
  BY <1>2, <1>5
<1>7. DanglingBeyond'
  BY <1>2, <1>4, <1>6 DEF DInv, DanglingBeyond, Dangling
<1>8. FilesSound'
  BY <1>1, <1>2, <1>6 DEF DInv, FilesSound, At
<1> QED
  BY <1>7, <1>8 DEF DInv

LEMMA DriftDeletes ==
  ASSUME OneRunner, RunsShaped, HInv, DInv, NEW p \in Runners, DeleteVersion(p)
  PROVE  DInv'
<1>0. PICK t : t = ToDelete(p)
  OBVIOUS
<1>1. \A q \in Runners : q = p
  BY DEF OneRunner
<1>2. /\ run[p].pc = "row" /\ run'[p].pc = "retain"
      /\ files' = files /\ mapVersions' = mapVersions \ {t}
  <2>1. run' = [run EXCEPT ![p].pc = "retain"]
    BY DEF DeleteVersion, Goto
  <2>2. run = [q \in Runners |-> run[q]] /\ IsRun(run[p])
    BY DEF RunsShaped, RunShape
  <2>3. run'[p].pc = "retain"
    BY <2>1, <2>2 DEF IsRun
  <2> QED
    BY <1>0, <2>3 DEF DeleteVersion, At
<1>3. HistoryShape /\ Numbered(mapVersions, serial) /\ serial \in Nat
  BY RowsNumbered DEF HInv, HistoryShape
<1>4. /\ t \in Beyond(mapVersions)
      /\ \A x \in Beyond(mapVersions) : x.id <= t.id
  <2>1. Beyond(mapVersions) # {}
    BY <1>2 DEF HInv, Retiring, At
  <2> QED
    BY <1>0, <1>3, <2>1, NextRetired
<1>5. \A x \in Beyond(mapVersions) : x # t => x \in Beyond(mapVersions \ {t})
  BY <1>3, <1>4, BeyondStays
<1>6. Beyond(mapVersions)' = Beyond(mapVersions \ {t})
  BY <1>2 DEF Beyond
<1>7. Dangling' = Dangling \ {t}
  BY <1>2 DEF Dangling
<1>8. DanglingBeyond'
  BY <1>5, <1>6, <1>7 DEF DInv, DanglingBeyond
<1>9. FilesSound'
  BY <1>1, <1>2 DEF DInv, FilesSound, At
<1> QED
  BY <1>8, <1>9 DEF DInv

LEMMA DriftStep ==
  OneRunner /\ RunsOK /\ HInv /\ DInv /\ [Next]_vars => DInv'
<1> SUFFICES ASSUME OneRunner, RunsOK, HInv, DInv, [Next]_vars
             PROVE  DInv'
  OBVIOUS
<1>0. RunsShaped /\ failures \in Nat
  BY DEF RunsOK, HInv, HistoryShape
<1>1. CASE UNCHANGED vars
  <2>1. DanglingBeyond'
    BY <1>1 DEF vars, DInv, DanglingBeyond, Dangling
  <2>2. FilesSound'
    BY <1>1 DEF vars, DInv, FilesSound, At
  <2> QED
    BY <2>1, <2>2 DEF DInv
<1>2. ASSUME NEW p \in Runners, OutsideHistory(p)
      PROVE  DInv'
  BY <1>2, DriftKept DEF OutsideHistory, SnapshotLabels
<1>3. ASSUME NEW p \in Runners, VacuumThrew(p) \/ SnapshotThrew(p) \/ Crash(p)
      PROVE  DInv'
  <2>1. HistorySame /\ run'[p].pc = "idle"
    BY <1>0, <1>3, StepGivenUp
  <2> QED
    BY <2>1, DriftKept
<1>4. ASSUME NEW p \in Runners, SnapshotDone(p)
      PROVE  DInv'
  <2>1. HistorySame /\ run'[p].pc = "idle"
    BY <1>0, <1>4, NoRunShape DEF SnapshotDone, EndRun, RunsShaped, HistorySame, Snapshots
  <2> QED
    BY <2>1, DriftKept
<1>5. ASSUME NEW p \in Runners, CreateSnapshot(p)
      PROVE  DInv'
  BY <1>0, <1>2, <1>3, <1>4, <1>5, StepOutside, DriftVacuums, DriftInserts,
     DriftUnlinks, DriftDeletes DEF CreateSnapshot
<1> QED
  BY <1>0, <1>1, <1>2, <1>3, <1>5, StepOutside DEF Next

-----------------------------------------------------------------------------
(* What a drift compares.                                                  *)

(* The rows of a repository's version are the repository's services, each  *)
(* under its name.                                                         *)
NamedAs(m, a, r) ==
  /\ DOMAIN m = {<<r, n>> : n \in DOMAIN a}
  /\ \A n \in DOMAIN a : m[<<r, n>>] = a[n]

LEMMA ServicesNamed ==
  ASSUME NEW f, NEW r, NEW v, Sound(f, r, v)
  PROVE  NamedAs(ServiceMap(LoadServices(f, v)), ServicesAre(f, r), r)
<1> DEFINE rows == ServicesOf(f, r)
           m == ServiceMap(rows)
           a == ServicesAre(f, r)
<1>1. LoadServices(f, v) = rows
  BY DEF Sound, LoadServices, ServicesOf
<1>2. \A s \in rows : /\ s.repo = r /\ ServiceKey(s) = <<r, s.name>>
                      /\ \A t \in rows : t.name = s.name => t = s
  BY DEF Sound, ServicesOf, ServiceKey
<1>3. DOMAIN m = {ServiceKey(s) : s \in rows} /\ DOMAIN a = {s.name : s \in rows}
  BY DEF ServiceMap, ServicesAre
<1>4. ASSUME NEW s \in rows
      PROVE  m[<<r, s.name>>] = s.type /\ a[s.name] = s.type
  <2>1. (CHOOSE t \in rows : ServiceKey(t) = ServiceKey(s)) = s
    <3>1. \A t \in rows : ServiceKey(t) = ServiceKey(s) => t = s
      BY <1>2
    <3> HIDE DEF rows
    <3> QED
      BY <3>1
  <2>2. (CHOOSE t \in rows : t.name = s.name) = s
    <3>1. \A t \in rows : t.name = s.name => t = s
      BY <1>2
    <3> HIDE DEF rows
    <3> QED
      BY <3>1
  <2>3. m[ServiceKey(s)] = s.type
    <3>1. ServiceKey(s) \in {ServiceKey(t) : t \in rows}
      OBVIOUS
    <3> HIDE DEF rows
    <3> QED
      BY <2>1, <3>1 DEF ServiceMap
  <2>4. a[s.name] = s.type
    BY <2>2 DEF ServicesAre
  <2> QED
    BY <1>2, <2>3, <2>4
<1> HIDE DEF rows, m, a
<1>5. NamedAs(m, a, r)
  BY <1>2, <1>3, <1>4 DEF NamedAs
<1> QED
  BY <1>1, <1>5 DEF m, a

LEMMA NamedDiff ==
  ASSUME NEW m, NEW n, NEW a, NEW b, NEW r, NamedAs(m, a, r), NamedAs(n, b, r)
  PROVE  DiffSet(m, n) = Named(DiffSet(a, b), r)
<1> DEFINE change == DiffSet(a, b)
<1>1. \A x, y : <<r, x>> = <<r, y>> => x = y
  OBVIOUS
<1>2. /\ change.added = DOMAIN b \ DOMAIN a
      /\ change.removed = DOMAIN a \ DOMAIN b
      /\ change.modified = {k \in DOMAIN a \cap DOMAIN b : a[k] # b[k]}
  BY DEF DiffSet
<1> HIDE DEF change
<1>3. DOMAIN n \ DOMAIN m = {<<r, x>> : x \in change.added}
  BY <1>1, <1>2 DEF NamedAs
<1>4. DOMAIN m \ DOMAIN n = {<<r, x>> : x \in change.removed}
  BY <1>1, <1>2 DEF NamedAs
<1>5. {k \in DOMAIN m \cap DOMAIN n : m[k] # n[k]}
        = {<<r, x>> : x \in change.modified}
  BY <1>1, <1>2 DEF NamedAs
<1> QED
  BY <1>3, <1>4, <1>5 DEF DiffSet, Named, change

LEMMA CallsNamed ==
  ASSUME NEW f, NEW r, NEW v, Sound(f, r, v), Strangers(f, r, v) = {}
  PROVE  ConnectionMap(LoadConnections(f, v)) = CallsAre(f, r)
<1>1. LoadConnections(f, v)
        = {c \in f.calls : c.source.repo = r /\ c.told = "since"}
  <2>1. ASSUME NEW c \in f.calls
        PROVE  c.scan = v <=> c.source.repo = r /\ c.told = "since"
    <3>1. CASE c.told = "elsewhere"
      BY <3>1 DEF Strangers
    <3>2. CASE c.told # "elsewhere"
      BY <3>2 DEF Sound
    <3> QED
      BY <3>1, <3>2
  <2> QED
    BY <2>1 DEF LoadConnections
<1> QED
  BY <1>1 DEF ConnectionMap, CallsAre, ConnectionKey

(* The newest of the rows that are looked at is the newest of all.         *)
LEMMA NewestShown ==
  ASSUME NEW b \in Nat, Numbered(mapVersions, b), mapVersions # {},
         NEW to, LET rows == SnapshotRows(mapVersions)
                 IN  to = RowAt(rows, Newest({x.id : x \in rows}))
  PROVE  /\ to \in SnapshotRows(mapVersions)
         /\ \A y \in mapVersions : y.id <= to.id
<1> DEFINE rows == SnapshotRows(mapVersions)
           all == {x.id : x \in mapVersions}
           ids == {x.id : x \in rows}
<1>1. all \in SUBSET (1 .. b) /\ all # {} /\ ids \in SUBSET all
  BY DEF Numbered, SnapshotRows
<1>2. PICK top \in mapVersions : top.id = Newest(all) /\ \A n \in all : n <= top.id
  <2>1. Newest(all) \in all /\ \A n \in all : n <= Newest(all)
    <3> HIDE DEF all
    <3> QED
      BY <1>1, NewestOf
  <2> QED
    BY <2>1
<1>3. top \in rows
  <2>1. \A y \in mapVersions : y.id \in Nat /\ top.id \in Nat /\ y.id <= top.id
    <3>1. \A y \in mapVersions : y.id \in all
      OBVIOUS
    <3>2. \A n \in all : n \in Nat
      BY <1>1
    <3> HIDE DEF all
    <3> QED
      BY <1>2, <3>1, <3>2
  <2>2. {y \in mapVersions : y.id > top.id} = {}
    BY <2>1
  <2>3. Cardinality({y \in mapVersions : y.id > top.id}) = 0
    BY <2>2, FS_EmptySet
  <2> QED
    BY <2>3 DEF SnapshotRows, MaxShown
<1>4. top.id \in ids /\ \A n \in ids : n <= top.id
  BY <1>1, <1>2, <1>3
<1>5. Newest(ids) = top.id
  <2>1. ids \in SUBSET Int
    BY <1>1
  <2> HIDE DEF ids
  <2> QED
    BY <1>4, <2>1, NewestIs
<1>6. to = RowAt(rows, top.id)
  BY <1>5
<1> HIDE DEF rows, all, ids
<1>7. to \in rows /\ to.id = top.id
  BY <1>3, <1>6 DEF RowAt
<1> QED
  BY <1>2, <1>7 DEF rows, all

(* Of two rows and more one comes after the newest. *)
LEMMA SecondShown ==
  ASSUME NEW b \in Nat, NEW ids \in SUBSET (1 .. b), NEW m \in ids, NEW n \in ids, m # n
  PROVE  Nth(ids, 1) \in ids /\ Cardinality({y \in ids : y > Nth(ids, 1)}) = 1
<1> DEFINE top == Newest(ids)
           rest == ids \ {top}
           next == Newest(rest)
<1>1. top \in ids /\ \A x \in ids : x <= top
  <2> HIDE DEF top
  <2> QED
    BY NewestOf DEF top
<1>2. next \in rest /\ \A x \in rest : x <= next
  <2>1. rest \in SUBSET (1 .. b) /\ rest # {}
    <3> HIDE DEF top
    <3>1. m \in rest \/ n \in rest
      OBVIOUS
    <3>2. rest \in SUBSET ids
      OBVIOUS
    <3> HIDE DEF rest
    <3> QED
      BY <3>1, <3>2
  <2> HIDE DEF rest
  <2> QED
    BY <2>1, NewestOf
<1> HIDE DEF top, next
<1>3. {y \in ids : y > next} = {top}
  <2>1. \A x \in ids : x \in Nat
    OBVIOUS
  <2>2. next \in Nat /\ top \in Nat /\ next # top /\ next <= top
    BY <1>1, <1>2, <2>1
  <2>3. \A x \in ids : x > next => x = top
    BY <1>2, <2>1, <2>2
  <2>4. top > next
    BY <2>2
  <2> QED
    BY <1>1, <2>3, <2>4
<1>4. next \in ids /\ Cardinality({y \in ids : y > next}) = 1
  BY <1>2, <1>3, FS_Singleton
<1> QED
  BY <1>4 DEF Nth

LEMMA FromShown ==
  ASSUME NEW b \in Nat, Numbered(mapVersions, b), HistoryLimit >= 2,
         NEW flag \in Flags, NEW from,
         Cardinality(SnapshotRows(mapVersions)) >= 2,
         from = FromRow(SnapshotRows(mapVersions), flag)
  PROVE  from \in mapVersions /\ from \notin Beyond(mapVersions)
<1> DEFINE rows == SnapshotRows(mapVersions)
           ids == {x.id : x \in rows}
<1>1. /\ rows \in SUBSET mapVersions /\ ids \in SUBSET (1 .. b)
      /\ \A x, y \in rows : x.id = y.id => x = y
      /\ \A x \in mapVersions : x.id \in Nat /\ x.id # 0
  <2>1. rows \in SUBSET mapVersions
    BY DEF SnapshotRows
  <2>2. \A x \in mapVersions : x.id \in 1 .. b /\ x.id \in Nat /\ x.id # 0
    BY DEF Numbered
  <2> HIDE DEF rows
  <2> QED
    BY <2>1, <2>2 DEF Numbered
<1>2. IsFiniteSet(rows) /\ IsFiniteSet(mapVersions)
  BY <1>1, FS_Subset DEF Numbered
<1>3. from = RowAt(rows, IF flag \in ids THEN flag ELSE Nth(ids, 1))
  BY DEF FromRow
<1>4. CASE flag \in ids
  <2>1. PICK x \in rows : x.id = flag
    BY <1>4
  <2>2. from = x
    <3>1. from = CHOOSE r \in rows : r.id = flag
      BY <1>3, <1>4 DEF RowAt
    <3> HIDE DEF rows, ids
    <3> QED
      BY <1>1, <2>1, <3>1
  <2>3. flag # NoFrom
    BY <1>1, <2>1 DEF NoFrom
  <2>4. PICK y \in mapVersions \ Beyond(mapVersions) : y.id = flag
    BY <2>3 DEF Flags
  <2>5. x = y
    BY <1>1, <2>1, <2>4 DEF Numbered
  <2> QED
    BY <2>2, <2>4, <2>5
<1>5. CASE flag \notin ids
  <2> DEFINE k == Nth(ids, 1)
             newer == {y \in mapVersions : y.id > k}
             above == {y \in ids : y > k}
  <2>1. PICK x, y \in rows : x # y
    <3>0. Cardinality(rows) >= 2
      OBVIOUS
    <3> HIDE DEF rows
    <3>1. \A x : rows # {x}
      BY <3>0, FS_Singleton
    <3>2. rows # {}
      BY <3>0, FS_EmptySet
    <3> QED
      BY <3>1, <3>2
  <2>2. x.id \in ids /\ y.id \in ids /\ x.id # y.id
    BY <1>1, <2>1
  <2>3. k \in ids /\ Cardinality(above) = 1
    <3> HIDE DEF ids
    <3> QED
      BY <1>1, <2>2, SecondShown
  <2>4. PICK z \in rows : z.id = k
    BY <2>3
  <2>5. from = z
    <3>1. from = CHOOSE r \in rows : r.id = k
      BY <1>3, <1>5 DEF RowAt
    <3> HIDE DEF rows, ids, k
    <3> QED
      BY <1>1, <2>4, <3>1
  <2>6. \A u \in newer : u \in rows
    <3>1. ASSUME NEW u \in newer
          PROVE  u \in rows
      <4> DEFINE S == {s \in mapVersions : s.id > u.id}
      <4>1. S \in SUBSET newer
        <5>1. k \in Nat /\ u.id \in Nat /\ u.id > k
          <6> HIDE DEF k
          <6> QED
            BY <1>1, <2>4
        <5>2. \A s \in mapVersions : s.id \in Nat
          BY <1>1
        <5> HIDE DEF k
        <5> QED
          BY <5>1, <5>2
      <4>2. IsFiniteSet(newer) /\ IsFiniteSet(S)
        BY <1>2, <4>1, FS_Subset
      <4>3. Cardinality(S) <= Cardinality(newer)
        <5> HIDE DEF newer, S
        <5> QED
          BY <4>1, <4>2, FS_Subset
      <4>4. Cardinality(newer) < MaxShown
        BY <2>4 DEF SnapshotRows
      <4>5. Cardinality(S) \in Nat /\ Cardinality(newer) \in Nat
        BY <4>2, FS_CardinalityType
      <4>6. Cardinality(S) < MaxShown
        <5> HIDE DEF newer, S
        <5> QED
          BY <4>3, <4>4, <4>5 DEF MaxShown
      <4> QED
        BY <4>6 DEF SnapshotRows
    <3> QED
      BY <3>1
  <2>7. PICK a : above = {a}
    <3>1. IsFiniteSet(above)
      <4>1. IsFiniteSet(1 .. b)
        BY FS_Interval
      <4>2. above \in SUBSET (1 .. b)
        BY <1>1
      <4> HIDE DEF above
      <4> QED
        BY <4>1, <4>2, FS_Subset
    <3> HIDE DEF above
    <3> QED
      BY <2>3, <3>1, FS_Singleton
  <2>8. \A u \in newer : u.id = a
    <3>1. \A u \in newer : u.id \in above
      BY <2>6
    <3> HIDE DEF above
    <3> QED
      BY <2>7, <3>1
  <2>9. PICK w \in rows : w.id = a
    BY <2>7
  <2>10. newer \in SUBSET {w}
    BY <1>1, <2>6, <2>8, <2>9
  <2>11. Cardinality(newer) <= 1
    <3>1. IsFiniteSet({w}) /\ Cardinality({w}) = 1
      BY FS_Singleton
    <3> HIDE DEF newer
    <3> QED
      BY <2>10, <3>1, FS_Subset
  <2>12. ~(Cardinality(newer) >= HistoryLimit)
    <3>1. IsFiniteSet(newer)
      BY <1>2, FS_Subset
    <3>2. Cardinality(newer) \in Nat /\ HistoryLimit \in Nat
      BY <3>1, FS_CardinalityType, Constant
    <3> HIDE DEF newer
    <3> QED
      BY <2>11, <3>2
  <2> QED
    BY <1>1, <2>4, <2>5, <2>12 DEF Beyond
<1> QED
  BY <1>4, <1>5

(* The newest snapshot and the one it is compared with both have their     *)
(* files, the retention of another run included.                           *)
LEMMA FilesShown ==
  ASSUME HInv, DInv, HistoryLimit >= 2, NEW flag \in Flags, NEW from, NEW to,
         Cardinality(SnapshotRows(mapVersions)) >= 2,
         from = FromRow(SnapshotRows(mapVersions), flag),
         LET rows == SnapshotRows(mapVersions)
         IN  to = RowAt(rows, Newest({x.id : x \in rows}))
  PROVE  /\ from \in mapVersions /\ to \in mapVersions
         /\ from.file \in DOMAIN files /\ to.file \in DOMAIN files
<1>1. serial \in Nat /\ Numbered(mapVersions, serial)
  BY RowsNumbered DEF HInv, HistoryShape
<1>2. from \in mapVersions /\ from \notin Beyond(mapVersions)
  BY <1>1, FromShown
<1>3. /\ to \in SnapshotRows(mapVersions)
      /\ \A y \in mapVersions : y.id <= to.id
  BY <1>1, <1>2, NewestShown
<1>4. to \in mapVersions
  BY <1>3 DEF SnapshotRows
<1>5. to \notin Beyond(mapVersions)
  <2>1. \A y \in mapVersions : y.id \in Nat /\ to.id \in Nat /\ y.id <= to.id
    BY <1>1, <1>3, <1>4 DEF Numbered
  <2>2. {y \in mapVersions : y.id > to.id} = {}
    BY <2>1
  <2>3. Cardinality({y \in mapVersions : y.id > to.id}) = 0
    BY <2>2, FS_EmptySet
  <2>4. ~(0 >= HistoryLimit)
    BY Constant
  <2> QED
    BY <2>3, <2>4 DEF Beyond
<1> QED
  BY <1>2, <1>4, <1>5 DEF DInv, DanglingBeyond, Dangling

LEMMA AnswerOf == \A a : [answer |-> a].answer = a
OBVIOUS

LEMMA DriftSays ==
  ASSUME HInv, DInv, HistoryLimit >= 2, NEW flag \in Flags, NEW drift,
         drift = Drift(flag)
  PROVE  /\ drift.answer # "throws"
         /\ drift.answer = "diff" =>
              \A r \in DOMAIN drift.repos :
                LET before == files[drift.from.file]
                    after  == files[drift.to.file]
                IN  /\ drift.repos[r].services =
                         Named(DiffSet(ServicesAre(before, r),
                                       ServicesAre(after, r)), r)
                    /\ Strangers(before, r, drift.from.repos[r])
                         \cup Strangers(after, r, drift.to.repos[r]) = {} =>
                         drift.repos[r].connections =
                           DiffSet(CallsAre(before, r), CallsAre(after, r))
<1> DEFINE rows == SnapshotRows(mapVersions)
<1>0. PICK from, to : /\ from = FromRow(rows, flag)
                      /\ to = RowAt(rows, Newest({x.id : x \in rows}))
  OBVIOUS
<1>1. drift = CASE Cardinality(rows) < 2 -> [answer |-> "run it twice"]
                [] Cardinality(rows) >= 2 /\ to.repos = NoRepos -> RunLiveDbFallback(db)
                [] OTHER -> Compared(files, from, to)
  BY <1>0 DEF Drift, RunDrift
<1> HIDE DEF rows
<1>2. IsFiniteSet(rows) /\ Cardinality(rows) \in Nat
  <2>1. rows \in SUBSET mapVersions
    BY DEF rows, SnapshotRows
  <2>2. IsFiniteSet(rows)
    BY <2>1, FS_Subset DEF HInv, HistoryShape
  <2> QED
    BY <2>2, FS_CardinalityType
<1>3. CASE Cardinality(rows) < 2
  <2>1. ~(Cardinality(rows) >= 2)
    BY <1>2, <1>3
  <2>2. drift = [answer |-> "run it twice"]
    BY <1>1, <1>3, <2>1, Zenon
  <2>3. drift.answer = "run it twice"
    BY <2>2, AnswerOf, Zenon
  <2> QED
    BY <2>3, Zenon
<1>4. CASE Cardinality(rows) >= 2 /\ to.repos = NoRepos
  <2>0. ~(Cardinality(rows) < 2)
    BY <1>2, <1>4
  <2>1. drift = RunLiveDbFallback(db)
    BY <1>1, <1>4, <2>0, Zenon
  <2>2. drift.answer = "one scan" \/ drift.answer = "live"
    <3>1. CASE Cardinality(ListVersions(db)) < 2
      <4>1. drift = [answer |-> "one scan"]
        BY <2>1, <3>1, Zenon DEF RunLiveDbFallback
      <4> QED
        BY <4>1, AnswerOf, Zenon
    <3>2. CASE ~(Cardinality(ListVersions(db)) < 2)
      <4>1. \E v, w, s, c : drift = [answer |-> "live", from |-> v, to |-> w,
                                    services |-> s, connections |-> c]
        BY <2>1, <3>2, Zenon DEF RunLiveDbFallback
      <4>2. drift.answer = "live"
        BY <4>1
      <4> QED
        BY <4>2, Zenon
    <3> QED
      BY <3>1, <3>2
  <2> QED
    BY <2>2, Zenon
<1>5. CASE Cardinality(rows) >= 2 /\ to.repos # NoRepos
  <2>1. /\ from \in mapVersions /\ to \in mapVersions
        /\ from.file \in DOMAIN files /\ to.file \in DOMAIN files
    BY <1>0, <1>5, FilesShown DEF rows
  <2>0. ~(Cardinality(rows) < 2)
    BY <1>2, <1>5
  <2>2. drift = Compared(files, from, to)
    BY <1>1, <1>5, <2>0, Zenon
  <2>3. CASE SharedRepos(from, to) = {}
    <3>1. drift = [answer |-> "nothing shared"]
      BY <2>2, <2>3, Zenon DEF Compared
    <3>2. drift.answer = "nothing shared"
      BY <3>1, AnswerOf, Zenon
    <3> QED
      BY <3>2, Zenon
  <2>4. CASE SharedRepos(from, to) # {}
    <3>1. drift = [answer |-> "diff", from |-> from, to |-> to,
                   repos |-> [r \in SharedRepos(from, to) |->
                                DriftOf(files, from, to, r)]]
      BY <2>1, <2>2, <2>4 DEF Compared
    <3>2. /\ drift.answer = "diff" /\ drift.from = from /\ drift.to = to
          /\ DOMAIN drift.repos = SharedRepos(from, to)
          /\ \A r \in SharedRepos(from, to) :
               drift.repos[r] = DriftOf(files, from, to, r)
      BY <3>1
    <3>3. ASSUME NEW r \in SharedRepos(from, to)
          PROVE  LET before == files[from.file]
                     after  == files[to.file]
                 IN  /\ drift.repos[r].services =
                          Named(DiffSet(ServicesAre(before, r),
                                        ServicesAre(after, r)), r)
                     /\ Strangers(before, r, from.repos[r])
                          \cup Strangers(after, r, to.repos[r]) = {} =>
                          drift.repos[r].connections =
                            DiffSet(CallsAre(before, r), CallsAre(after, r))
      <4> DEFINE f == files[from.file]
                 g == files[to.file]
                 v == from.repos[r]
                 w == to.repos[r]
                 was == ServiceMap(LoadServices(f, v))
                 is == ServiceMap(LoadServices(g, w))
                 had == ConnectionMap(LoadConnections(f, v))
                 has == ConnectionMap(LoadConnections(g, w))
      <4>1. Sound(f, r, v) /\ Sound(g, r, w)
        BY <2>1 DEF SharedRepos, DInv, FilesSound
      <4>2. drift.repos[r] = [same_scan |-> FALSE, services |-> DiffSet(was, is),
                              connections |-> DiffSet(had, has)]
        BY <3>2 DEF DriftOf, DiffScanVersions
      <4> HIDE DEF f, g, v, w
      <4>3. Strangers(f, r, v) \cup Strangers(g, r, w) = {} =>
              had = CallsAre(f, r) /\ has = CallsAre(g, r)
        BY <4>1, CallsNamed
      <4>4. NamedAs(was, ServicesAre(f, r), r) /\ NamedAs(is, ServicesAre(g, r), r)
        BY <4>1, ServicesNamed
      <4> HIDE DEF was, is, had, has
      <4>5. DiffSet(was, is) = Named(DiffSet(ServicesAre(f, r), ServicesAre(g, r)), r)
        BY <4>4, NamedDiff
      <4> QED
        BY <4>2, <4>3, <4>5 DEF f, g, v, w
    <3> QED
      BY <3>2, <3>3
  <2> QED
    BY <2>3, <2>4
<1> QED
  BY <1>2, <1>3, <1>4, <1>5

(* A drift finds its snapshots at any moment and reports of the            *)
(* repositories that both runs wrote exactly what became different; of     *)
(* connections, when none is attached to another repository's service      *)
(* (runDrift, diffScanVersions, _resolveServiceId).                        *)
THEOREM DriftIsExact ==
  OneRunner /\ HistoryLimit >= 2 /\ (\A n \in Legacy : n <= HistoryLimit) =>
    (Spec => []DriftExact)
<1> SUFFICES ASSUME OneRunner, HistoryLimit >= 2, \A n \in Legacy : n <= HistoryLimit
             PROVE  Spec => []DriftExact
  OBVIOUS
<1>1. Apart
  BY DEF Apart
<1>2. Init => TInv /\ HInv /\ DInv
  BY TailInit, HistoryInit, DriftInit
<1>3. TInv /\ HInv /\ DInv /\ [Next]_vars => (TInv /\ HInv /\ DInv)'
  BY <1>1, TailStep, HistoryStep, DriftStep DEF TInv, RunsOK
<1>4. TInv /\ HInv /\ DInv => DriftExact
  <2> SUFFICES ASSUME HInv, DInv, NEW flag \in Flags, NEW drift, drift = Drift(flag)
               PROVE  /\ drift.answer # "throws"
                      /\ drift.answer = "diff" =>
                           \A r \in DOMAIN drift.repos :
                             LET before == files[drift.from.file]
                                 after  == files[drift.to.file]
                             IN  /\ drift.repos[r].services =
                                      Named(DiffSet(ServicesAre(before, r),
                                                    ServicesAre(after, r)), r)
                                 /\ Strangers(before, r, drift.from.repos[r])
                                      \cup Strangers(after, r, drift.to.repos[r])
                                      = {} =>
                                      drift.repos[r].connections =
                                        DiffSet(CallsAre(before, r),
                                                CallsAre(after, r))
    BY DEF DriftExact
  <2> QED
    BY DriftSays
<1> QED
  BY <1>2, <1>3, <1>4, PTL DEF Spec

=============================================================================
