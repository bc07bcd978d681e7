SPECIFICATION ReadSpec
CONSTANTS
  Size = 16
  Kinds = {"creg", "prompt", "cmgr", "clcc", "cssi", "cmgs", "long"}
  Texts <- MCTexts
  MaxFrames = 2
  Tails = {0, 9}
INVARIANTS Framed Resynchronised
PROPERTIES AllIsRead
CHECK_DEADLOCK FALSE
