SPECIFICATION FairSpec
CONSTANTS
  Devices <- MCDevices
  Threads = {"t1", "t2"}
  Kinds = {"group"}
  Values = {1, 2}
  Attrs <- MCAttrs
  Resources <- MCGroup
  MAXDONGLEDEVICES = 3
  MaxMoves = 1
  None = None
INVARIANT Rotation
PROPERTY NoStarvation
