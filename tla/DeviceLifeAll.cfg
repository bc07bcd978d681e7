SPECIFICATION Spec
CONSTANTS
  Events = {"stopped", "restarted", "removed", "started"}
  Whens = {"now", "gracefully", "convenient"}
  Configs = {}
  Changes = {}
  Unloads = FALSE
  Uses = {"call", "in_sms", "out_sms"}
  None = None
INVARIANTS
  ServedAsShown
  FreedUnused
PROPERTIES
  GracefulSparesCalls
