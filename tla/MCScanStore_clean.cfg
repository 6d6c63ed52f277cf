\* The clean-up of gone files after undisturbed scans without schemas.
SPECIFICATION Spec
CONSTANTS
  r1 = r1  r2 = r2  api = api  web = web  f1 = f1  f2 = f2
  get = get  p1 = p1  p2 = p2
  NullRoute = NullRoute
  Malformed = Malformed  Absent = Absent  Null = Null
  Unparseable = Unparseable
  NoPath = NoPath
  Repos = {r1, r2}
  Names = {api, web}
  Files = {f1, f2}
  Routes = {get}
  Findings <- PlainFindings
  Modes = {"full", "incremental"}
  Scanners = {p1}
  MaxScan = 4
  MaxOverrides = 0
  MaxCrashes = 0
INVARIANTS GoneFilesHaveNoServices
PROPERTIES ReportedSurvives
\* The scans are bounded: after the last one nothing happens.
CHECK_DEADLOCK FALSE
