SPECIFICATION FairSpec
CONSTANTS
  Sms = {m1}
  Ussd = {u1}
  Slots = {i1}
  Configs <- MCConfigs
  Refuses <- MCRefuses
  Tolerated <- MCTolerated
  MaxTasks = 2
  MaxInbox = 1
  None = None
INVARIANTS ReadyMeansTold MessageNeedsFormat 
PROPERTIES DeletesOnlyRead ReportsHonest BecomesReady
