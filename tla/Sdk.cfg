SPECIFICATION Spec
CONSTANTS
  Callers = {"c1", "c2", "c3"}
  Listener = "c2"
  Sizes = {1, 2, 3, 6}
  LineLens = {0, 4}
  MaxAsked = 3
  MaxLines = 2
  NULL = NULL
  Users = {"u1", "u2"}
  Ids = {1, 2}
  MaxOps = 4
  Registrars = {"r1", "r2"}
  Real = "s0"
  Serials = {"s0", "s1", "s2"}
  MaxDevices = 3
  MaxTries = 4
  Parts <- MCParts
INVARIANTS BufferSafe   
PROPERTY CallReturns
CHECK_DEADLOCK FALSE
