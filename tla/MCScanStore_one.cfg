\* One process, two repositories, both modes, an override and a crash.
SPECIFICATION Spec
CONSTANTS
  r1 = r1  r2 = r2  api = api  web = web  f1 = f1  f2 = f2
  get = get  p1 = p1  p2 = p2
  NullRoute = NullRoute
  Malformed = Malformed  Absent = Absent  Null = Null
  Unparseable = Unparseable
  NoPath = NoPath
  Repos = {r1, r2}
  Names = {api, web}
  Files = {f1, f2}
  Routes = {get}
  Findings <- TypedFindings
  Modes = {"full", "incremental"}
  Scanners = {p1}
  MaxScan = 3
  MaxOverrides = 1
  MaxCrashes = 1
INVARIANTS TablesSound
PROPERTIES FullScanExact OtherServicesKept StampedOnceAtCommit
  DeletionsYieldOnlyToReports
\* The scans are bounded: after the last one nothing happens.
CHECK_DEADLOCK FALSE
