---------------------------- MODULE ScanTailProps -----------------------------
(***************************************************************************)
(* What the tail of a scan run promises to those who read its results:     *)
(* the drift between two snapshots, the history they are kept in, and the  *)
(* tables and records that follow the services.                            *)
(***************************************************************************)
EXTENDS ScanTail

(* What a copy of the map says of a repository: its services, and the      *)
(* calls that its scans since the last full one have reported.             *)
ServicesAre(d, r) ==
  [n \in {s.name : s \in ServicesOf(d, r)} |->
     (CHOOSE s \in ServicesOf(d, r) : s.name = n).type]

CallsAre(d, r) ==
  LET told == {c \in d.calls : c.source.repo = r /\ c.told = "since"}
      key(c) == <<c.source.name, c.target.name, Spellings[c.token]>>
  IN  [k \in {key(c) : c \in told} |->
         (CHOOSE c \in told : key(c) = k).sure]

(* Calls of one repository's services that a scan of another reported, or  *)
(* that an operator moved there: those of r's services, and those of       *)
(* others that have r's version v.                                         *)
Strangers(d, r, v) ==
  {c \in d.calls : c.told = "elsewhere" /\ (c.source.repo = r \/ c.scan = v)}

Named(change, r) ==
  [added    |-> {<<r, n>> : n \in change.added},
   removed  |-> {<<r, n>> : n \in change.removed},
   modified |-> {<<r, n>> : n \in change.modified}]

Idle == \A p \in Runners : At(p, "idle")

Drift(flag) == RunDrift(db, mapVersions, files, flag)

(* The --from values: none, or a snapshot that is not being retired.       *)
Flags == {NoFrom} \cup {x.id : x \in mapVersions \ Beyond(mapVersions)}

(* At any moment, the middle of another run included, /arcanon:drift finds *)
(* the snapshots it is asked for and reports of every repository that both *)
(* runs wrote exactly what became different: what an incremental scan did  *)
(* not look at is not reported, nor is a protocol that was spelled         *)
(* otherwise, nor the other repositories in the files; overrides of any    *)
(* repository are applied meanwhile.  Of connections this is said when     *)
(* none of the repository's has another repository's version: such a one   *)
(* is not restamped and is reported as removed though nobody looked at it  *)
(* (runDrift, diffScanVersions, _restampExistingRows, _resolveServiceId).  *)
DriftExact ==
  \A drift \in {Drift(flag) : flag \in Flags} :
    /\ drift.answer # "throws"
    /\ drift.answer = "diff" =>
         \A r \in DOMAIN drift.repos :
           LET before == files[drift.from.file]
               after  == files[drift.to.file]
           IN  /\ drift.repos[r].services =
                    Named(DiffSet(ServicesAre(before, r),
                                  ServicesAre(after, r)), r)
               /\ Strangers(before, r, drift.from.repos[r])
                    \cup Strangers(after, r, drift.to.repos[r]) = {} =>
                    drift.repos[r].connections =
                      DiffSet(CallsAre(before, r), CallsAre(after, r))

Orphans  == DOMAIN files \ {x.file : x \in mapVersions}
Dangling == {x \in mapVersions : x.file \notin DOMAIN files}

(* Between runs the history holds no more rows than the limit, and every   *)
(* file has its row and every row its file; each failed step and each kill *)
(* accounts for one exception at most, so nothing piles up                 *)
(* (createSnapshot).                                                       *)
HistoryBounded ==
  Idle =>
    /\ Cardinality(mapVersions) <= HistoryLimit + failures
    /\ Cardinality(Orphans) + Cardinality(Dangling) <= failures

RowsOf(rows, r) == {x \in rows : x.repo = r}

AsSeen(r) ==
  {[repo |-> r, name |-> n, scan |-> LatestOf(db, r)] : n \in seen[r]}

(* When the tail of a repository's last scan went through, the dependency  *)
(* and enrichment rows are those of its services as that scan saw them and *)
(* no older ones, whatever earlier scans left behind and whatever other    *)
(* runs do with an override of one of its services meanwhile.  When it     *)
(* also deleted the old records of the vector store, the records are those *)
(* of the services that this scan reported, under the names it reported,   *)
(* and no others (enrichment and syncFindingsToChroma in scanRepos).       *)
TailComplete ==
  \A r \in clean :
    (\A p \in Runners : run[p].repo # r) =>
      /\ RowsOf(db.deps, r) = AsSeen(r)
      /\ RowsOf(db.metadata, r) = AsSeen(r)
      /\ r \in synced => {x.name : x \in RowsOf(records, r)} = reported[r]

Selectors ==
  [kind : {"id", "date"}, arg : 1 .. MaxScan]
  \cup [kind : {"head"}, arg : 0 .. MaxScan]
  \cup [kind : {"branch"}, arg : Commits]

(* /arcanon:diff of the two versions that a drift compares, however they   *)
(* are selected, reports what the drift reports (commands/diff.md:2:       *)
(* "Compare two scan versions. Shows services/connections added, removed,  *)
(* or modified").                                                          *)
DiffReports ==
  \A drift \in {Drift(NoFrom)} : drift.answer = "diff" =>
    \A r \in DOMAIN drift.repos :
      \A diff \in {CmdDiff(db, a, b) : a \in Selectors, b \in Selectors} :
        /\ diff.answer = "diff"
        /\ diff.from = drift.from.repos[r]
        /\ diff.to = drift.to.repos[r]
        => diff.result = drift.repos[r]

=============================================================================
