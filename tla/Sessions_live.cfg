SPECIFICATION FairSpec
CONSTANTS
  NoSession = NoSession
  ServiceDefault <- MCServiceDefault
  Req = {r1, r2, r3}
  MaxInFlight = 3
  Configs <- MCConfigs
  Free = Free
  Nil = Nil
  MayDisconnect = TRUE
PROPERTIES EveryRequestAnswered
