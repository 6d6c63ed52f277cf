\* Every map of up to four rows, asked every question.
SPECIFICATION Spec
CONSTANTS
  Count = 5
  NameOf <- MCNameOf
  ScanOf <- MCScanOf
  BaseOf <- MCBaseOf
  Calls <- MCCalls
  Endpoints <- MCEndpoints
  Terms <- MCTerms
  Variables <- MCVariables
  MaxDepth = 3
  GraphDepth = 2
  MaxRows = 4
  Parts <- MCParts
  OwnerOf <- MCOwnerOf
  ActorEdges <- MCActorEdges
  NoOwner = "none"
  Changes <- MCChanges
  Queries <- MCQueries
INVARIANTS TraversalsExact MismatchesExact PagesCover AnswersExact
\* The map is full when MaxRows is reached.
CHECK_DEADLOCK FALSE
