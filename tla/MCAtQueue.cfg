SPECIFICATION FairSpec
CONSTANTS
  Ids = {t1, t2, t3}
  Scripts <- MCScripts
  InitScript <- MCInit
  PingScript <- MCPing
  MaxInbox = 2
  None = None
INVARIANTS
  SerialInv
  CountersMatch
  NeverIdleWithWork
PROPERTIES
  OrderKept
  AdvanceNeedsResult
  SerialPromise
  HeadResolvesWhenQuiet
