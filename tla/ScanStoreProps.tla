--------------------------- MODULE ScanStoreProps ---------------------------
(***************************************************************************)
(* What the impact map must keep true across scans, overrides, crashes and *)
(* processes that persist side by side.                                    *)
(***************************************************************************)
EXTENDS ScanStore

Tables ==
  [services : SUBSET Service, connections : SUBSET Connection,
   schemas : SUBSET [scan : ScanId, edge : Edge],
   satellites : SUBSET ServiceId, completed : [Repos -> ScanId],
   abandoned : SUBSET Repos, nextScan : ScanId, overrides : Seq(Override),
   state : [Repos -> ScanId]]

Call ==
  [repo : Repos, mode : {"full", "incremental"}, found : Found,
   gone : SUBSET Files, path : Files \cup {NoPath}, version : ScanId]

(* The variables have their types.                                         *)
TypeOK ==
  /\ db \in Tables
  /\ tx \in Tables
  /\ writer \in Scanners \cup {NoWriter}
  /\ pc \in [Scanners -> {"idle", "begun", "persisted", "cleaning", "dropping"}]
  /\ scan \in [Scanners -> Call]
  /\ handled \in SUBSET Nat
  /\ doomed \in [Scanners -> SUBSET ServiceId]
  /\ outcome \in [Scanners -> {"none", "saved", "failed"}]
  /\ gone \in [Repos -> SUBSET Files]
  /\ crashes \in Nat

(* Foreign keys and unique indexes hold in the committed tables: every     *)
(* statement that would break one throws or is preceded by what avoids it. *)
ConstraintsHold ==
  /\ \A c \in db.connections :
       {c.edge.source, c.edge.target} \subseteq Ids(db.services)
  /\ db.schemas \subseteq Ids(db.connections)
  /\ db.satellites \subseteq Ids(db.services)
  /\ \A s, t \in db.services :
       s.id = t.id \/ (s.repo = t.repo /\ s.name = t.name) => s = t

(* A service in the map carries the version of its repository's latest     *)
(* completed scan: what that scan did not report was removed (full) or     *)
(* moved to its version (incremental), also after rolled back scans.       *)
ServicesCurrent ==
  \A s \in db.services :
    db.completed[s.repo] # NoScan => s.scan = db.completed[s.repo]

(* The committed tables between any two statements of any process.         *)
TablesSound == TypeOK /\ ConstraintsHold /\ ServicesCurrent

Stamped(i, v) ==
  /\ db.overrides[i].applied = NoScan
  /\ db'.overrides[i].applied = v

RenamedBy(v, s) ==
  \E i \in 1 .. Len(db.overrides) : Stamped(i, v) /\ db.overrides[i].target = s.id

(* A full scan leaves exactly the services it reported, in the files it    *)
(* reported, under their names unless an override it applied renamed one.  *)
FullScanExact ==
  [][\A p \in Scanners : EndScan(p) /\ scan[p].mode = "full" =>
       LET after == ServicesOf(db', scan[p].repo)
           found == scan[p].found.services
       IN  /\ Cardinality(after) = Cardinality(found)
           /\ \A f \in found : \E s \in after :
                /\ s.file = f.file
                /\ s.name = f.name \/ RenamedBy(scan[p].version, s)]_vars

(* An incremental scan removes no service that a completed scan left: its  *)
(* agent looked at the changed files only.  The clean-up after the commit  *)
(* is what removes services.                                               *)
IncrementalKeeps ==
  [][\A p \in Scanners : EndScan(p) /\ scan[p].mode = "incremental" =>
       \A s \in ServicesOf(db, scan[p].repo) :
         db.completed[s.repo] # NoScan => s.id \in Ids(db'.services)]_vars

(* A scan of one repository neither adds nor removes services of another,  *)
(* and changes nothing of theirs but a name an override asked for.         *)
OtherServicesKept ==
  [][\A p \in Scanners : EndScan(p) =>
       \A q \in Repos \ {scan[p].repo} :
         /\ Ids(ServicesOf(db', q)) = Ids(ServicesOf(db, q))
         /\ \A s \in ServicesOf(db, q) :
              s \in db'.services \/ RenamedBy(scan[p].version, s)]_vars

(* An override is stamped at most once, by a scan that completes in the    *)
(* same step: a rolled back scan leaves it pending.                        *)
StampedOnceAtCommit ==
  [][\A i \in 1 .. Len(db.overrides) :
       db'.overrides[i] # db.overrides[i] =>
         /\ db.overrides[i].applied = NoScan
         /\ \E r \in Repos :
              /\ db'.completed[r] # db.completed[r]
              /\ db'.overrides[i].applied = db'.completed[r]]_vars

(* A deletion that a completing scan stamps takes the call out of the map, *)
(* unless this very scan reported the call again: then the call is there   *)
(* under a new id, which the override does not name.                       *)
DeletionsYieldOnlyToReports ==
  [][\A p \in Scanners : EndScan(p) =>
       \A i \in 1 .. Len(db.overrides) :
         LET o == db.overrides[i]
         IN  Stamped(i, scan[p].version) /\ o.action = "delete" =>
               \A c \in db'.connections :
                 c.edge = o.target.edge /\ c.edge.route # NullRoute =>
                   c.id.scan = scan[p].version]_vars

(* With one process that is not killed: when a scan has returned, every    *)
(* service it reported is in the map, also one that moved out of a file    *)
(* that is gone. Only what it reported in a file it was told is gone, the  *)
(* clean-up has removed.                                                   *)
ReportedSurvives ==
  [][\A p \in Scanners : Return(p) =>
       \A f \in scan[p].found.services :
         f.file \notin gone[scan[p].repo] =>
           \E s \in ServicesOf(db, scan[p].repo) : s.file = f.file]_vars

(* Between scans no service of a file that is known to be gone is left.    *)
GoneFilesHaveNoServices ==
  (\A p \in Scanners : pc[p] = "idle") =>
    \A s \in db.services : s.file \notin gone[s.repo]

-----------------------------------------------------------------------------
(* What comments and docs say, and the code does not do.                   *)

(* Child rows are deleted before the connections they refer to, so that    *)
(* what a scan reports, for the first time or again, can be stored.        *)
ReportsCanBeStored == [][\A p \in Scanners : ~PersistThrew(p)]_vars

(* An incremental scan leaves the services it did not report with the      *)
(* endpoints they had.                                                     *)
UnreportedKeepEndpoints ==
  [][\A p \in Scanners : EndScan(p) /\ scan[p].mode = "incremental" =>
       \A s \in ServicesOf(db, scan[p].repo) :
         /\ s.id \in db.satellites
         /\ \A f \in scan[p].found.services : f.name # s.name
         => s.id \in db'.satellites]_vars

=============================================================================
