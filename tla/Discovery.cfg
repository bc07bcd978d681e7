SPECIFICATION Spec
CONSTANTS
  Slots = {1, 2}
  Fds = {0, 1}
  Closed = Closed
  Hung = Hung
  NoLock = NoLock
  Foreign = Foreign
  None = None
  Faults = TRUE
  Devs <- MCTwo
  Want <- MCWant
  Modems <- MCModems
  Listers = {"cli"}
  Budgets <- MCBudgets
INVARIANTS GivenBack Answered
PROPERTY RoundEnds
CHECK_DEADLOCK FALSE
