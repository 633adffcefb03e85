SPECIFICATION ServerSpec
CONSTANTS
  Actor = {system, alice}
  System = system
  alice = alice
  Root = Root
  Docs = Docs
  SeedId = {Docs}
  NoParent = NoParent
  IdLimit = 16
  MaxId = 1
  GrantableRoles = {2}
  MaxSaved = 0
  MovesKeepTree = TRUE
  ta = ta
  tb = tb
  Token = {ta, tb}
  TokenActor <- MCTokenActor
  HashActor <- MCHashActor
  DefaultActor = system
  Reject = FALSE
  Total = {2}
  MaxChunk = 2
  MaxUploads = 0
  UnknownLength = FALSE
  Hangups = TRUE
  MaxBytes = 5
  MaxClauses = 3
  MaxWords = 2
  MaxFiles = 3
INVARIANTS Acyclic ViewsAgree
PROPERTIES DeleteTerminates
