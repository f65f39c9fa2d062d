CONSTANTS
  h1 = h1  h2 = h2  u1 = u1  u2 = u2
  Hosts = {h1, h2}
  Users = {u1, u2}
  MaxConns = 6
  MaxCrashes = 1
  NoConn = NoConn
  Free = Free
SPECIFICATION FairSpec
INVARIANTS TypeOK SettledExcludes
PROPERTIES SettledForGood EveryConnectReturns TableSettles
