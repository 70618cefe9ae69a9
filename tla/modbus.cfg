SPECIFICATION FairSpec
CONSTANTS
  MaxReconn = 2
  TidModulus = 4
  MaxBacklog = 3
  MaxReg = 2
  Fcodes = {"known", "unknown"}
INVARIANT TypeOK
INVARIANT ReadIsFresh
INVARIANT SuccessDrains
PROPERTY BacklogStays
PROPERTY RetriesRunOut
PROPERTY CommandReturns
PROPERTY ImplementsDeviceRead
