SPECIFICATION FileFairSpec
CONSTANTS
  s1 = s1
  s2 = s2
  Session = {s1, s2}
  NoSession = NoSession
  MaxItems = 1
  MaxReceipts = 1
  LEASE_SECONDS = 1
  Kinds = {"rename"}
  AutoRename = FALSE
  Overlap = FALSE
  MaxFaults = 1
  MaxOthers = 0

PROPERTIES
  NothingStaysApplying
CHECK_DEADLOCK FALSE
