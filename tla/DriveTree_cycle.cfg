SPECIFICATION FairSpec
CONSTANTS
  Actor = {system}
  System = system
  Root = Root
  Docs = Docs
  SeedId <- MCSeedId
  NoParent = NoParent
  IdLimit = 16
  MaxId = 2
  GrantableRoles = {}
  MaxSaved = 0
  MovesKeepTree = FALSE
PROPERTIES DeleteTerminates
