SPECIFICATION FairSpec
CONSTANTS
  Events = {}
  Whens = {}
  Configs = {}
  Changes = {}
  Unloads = TRUE
  Uses = {"call", "in_sms"}
  None = None
PROPERTIES
  UnloadEnds
