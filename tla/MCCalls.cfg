SPECIFICATION Spec
CONSTANTS
  Ids = {c1, c2}
  MaxIdx = 2
  Opts = {"none", "conf"}
  MaxTasks = 2
  MaxInbox = 1
  None = None
  sys = sys
SYMMETRY Symmetry
INVARIANTS
  
  CountsMatch
  AudioOnlyInCall
  OrphanTold
  EndAnnounced
PROPERTIES
  HangupKept
