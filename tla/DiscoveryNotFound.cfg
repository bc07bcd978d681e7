SPECIFICATION Spec
CONSTANTS
  Slots = {1, 2}
  Fds = {0, 1, 2}
  Closed = Closed
  Hung = Hung
  NoLock = NoLock
  Foreign = Foreign
  None = None
  Faults = FALSE
  Devs <- MCTwo
  Want <- MCWant
  Modems <- MCModems
  Listers = {}
  Budgets <- MCQuiet
PROPERTY ModemFound
CHECK_DEADLOCK FALSE
