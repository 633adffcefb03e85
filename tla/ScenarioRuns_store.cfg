SPECIFICATION Spec
CONSTANTS
  NoSession = NoSession
  ServiceDefault <- MCServiceDefault
  Req = {r1, r2, r3}
  MaxInFlight = 3
  Scenarios <- ShortOnly
  RefusedActions <- MCRefused
  Fires <- MCFires
  StartConfig <- MCStartConfig
  MaxCrashes = 1
  TornWrites = FALSE
  MayDisconnect = TRUE
  Torn = Torn
  Nil = Nil
SYMMETRY ReqSymmetry
INVARIANTS TypeOK AnsweredRunsKept AnsweredRunsListed
