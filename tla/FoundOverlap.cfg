SPECIFICATION FileSpec
CONSTANTS
  s1 = s1
  s2 = s2
  Session = {s1, s2}
  NoSession = NoSession
  MaxItems = 1
  MaxReceipts = 2
  LEASE_SECONDS = 1
  Kinds = {"rename", "copy"}
  AutoRename = FALSE
  Overlap = TRUE
  MaxFaults = 0
  MaxOthers = 0

INVARIANTS
  RolledBackMovedNothing
CHECK_DEADLOCK FALSE
