\* Two processes that open a new or an old database side by side.
SPECIFICATION FairSpec
CONSTANTS
  p1 = p1  p2 = p2  a = a  b = b  api = api  web = web  get = get
  Openers = {p1, p2}
  Legacy <- MCLegacy
  Unloadable = {{}}
  NullMethod = NullMethod
  NullRoute = NullRoute
  NoSymbol = NoSymbol
  MaxCrashes = 1
INVARIANT SchemaOK
PROPERTIES NothingLost CleanOpens
