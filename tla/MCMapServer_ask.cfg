\* Either server, asked in every way, while others map and remove projects.
SPECIFICATION Spec
CONSTANTS
  Projects <- MCProjects
  ReposOf <- MCReposOf
  Spellings = {"plain", "slash"}
  Cwd <- MCCwd
  DataDir <- MCDataDir
  Routes = {"quality", "verify", "graph", "impact", "service"}
  Tools = {"impact_query", "impact_audit_log"}
  Servers = {"worker", "mcp"}
  IdleTTL = 1
  SweepEvery = 1
  ListTTL = 2
  MaxFiles = 2
  NoFile = NoFile
  NoEngine = NoEngine
  NoList = NoList
  None = None
VIEW View
INVARIANT PoolOK
PROPERTIES MappedIsFound NamedIsFound
