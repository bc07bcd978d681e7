SPECIFICATION FairSpec
CONSTANTS
  Events = {"stopped", "removed", "started"}
  Whens = {"now"}
  Configs = {"absent", "removed", "stopped", "started"}
  Changes = {FALSE}
  Unloads = FALSE
  Uses = {"call"}
  None = None
PROPERTIES
  StopHonoured
  ComesBack
