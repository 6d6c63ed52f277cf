\* A connection with schemas, scanned twice.
SPECIFICATION Spec
CONSTANTS
  r1 = r1  r2 = r2  api = api  web = web  f1 = f1  f2 = f2
  get = get  p1 = p1  p2 = p2
  NullRoute = NullRoute
  Malformed = Malformed  Absent = Absent  Null = Null
  Unparseable = Unparseable
  NoPath = NoPath
  Repos = {r1}
  Names = {api, web}
  Files = {f1, f2}
  Routes = {get}
  Findings <- TypedFindings
  Modes = {"full"}
  Scanners = {p1}
  MaxScan = 3
  MaxOverrides = 0
  MaxCrashes = 0
PROPERTIES ReportsCanBeStored
\* The scans are bounded: after the last one nothing happens.
CHECK_DEADLOCK FALSE
