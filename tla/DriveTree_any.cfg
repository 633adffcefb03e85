SPECIFICATION Spec
CONSTANTS
  Actor = {system}
  System = system
  Root = Root
  Docs = Docs
  SeedId <- MCSeedId
  NoParent = NoParent
  IdLimit = 16
  MaxId = 2
  GrantableRoles = {3}
  MaxSaved = 2
  MovesKeepTree = FALSE
INVARIANTS TypeOK NoOrphans ContentOwned FreshIds
PROPERTIES DeleteExact
