SPECIFICATION Spec
CONSTANTS
  NoSession = NoSession
  ServiceDefault <- MCServiceDefault
  Req = {r1, r2, r3, r4, r5}
  MaxInFlight = 1
  Configs <- MCConfigs
  Free = Free
  Nil = Nil
  MayDisconnect = TRUE
SYMMETRY ReqSymmetry
PROPERTIES ImplementsContract
