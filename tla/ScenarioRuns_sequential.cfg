SPECIFICATION Spec
CONSTANTS
  NoSession = NoSession
  ServiceDefault <- MCServiceDefault
  Req = {r1, r2, r3}
  MaxInFlight = 1
  Scenarios <- AllKinds
  RefusedActions <- MCRefused
  Fires <- MCFires
  StartConfig <- MCStartConfig
  MaxCrashes = 1
  TornWrites = FALSE
  MayDisconnect = TRUE
  Torn = Torn
  Nil = Nil
SYMMETRY ReqSymmetry
INVARIANTS ReplaysMatch OwnFaultsOnly
