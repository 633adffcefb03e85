SPECIFICATION ServerSpec
CONSTANTS
  Actor = {system, alice}
  System = system
  alice = alice
  Root = Root
  Docs = Docs
  SeedId = {}
  NoParent = NoParent
  IdLimit = 16
  MaxId = 2
  GrantableRoles = {}
  MaxSaved = 0
  MovesKeepTree = TRUE
  ta = ta
  tb = tb
  Token = {ta, tb}
  TokenActor <- MCTokenActor
  HashActor <- MCHashActor
  DefaultActor = system
  Reject = FALSE
  Total = {2}
  MaxChunk = 2
  MaxUploads = 1
  UnknownLength = FALSE
  Hangups = TRUE
  MaxBytes = 5
  MaxClauses = 3
  MaxWords = 2
  MaxFiles = 3
INVARIANTS OneFilePerUpload UploadWhole RequestsUnderstood SeedsExact
PROPERTIES UploadEnds
