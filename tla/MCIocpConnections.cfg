SPECIFICATION FairSpec
CONSTANTS
  Tokens = {t1, t2}
  NoToken = NoToken
  MaxCallbacks = 1
INVARIANTS PermitsBalance PoolPartition OnlineExact
PROPERTIES ClosedTokenReturns ImplementsPool
CHECK_DEADLOCK FALSE
