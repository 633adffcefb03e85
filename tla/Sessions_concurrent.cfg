SPECIFICATION Spec
CONSTANTS
  NoSession = NoSession
  ServiceDefault <- MCServiceDefault
  Req = {r1, r2, r3, r4}
  MaxInFlight = 3
  Configs <- MCConfigs
  Free = Free
  Nil = Nil
  MayDisconnect = TRUE
SYMMETRY ReqSymmetry
INVARIANTS TypeOK EffectsLogged LogNumbered FrozenOwnEvents
PROPERTIES EndedIsFinal
