SPECIFICATION FileFairSpec
CONSTANTS
  s1 = s1
  s2 = s2
  Session = {s1, s2}
  NoSession = NoSession
  MaxItems = 1
  MaxReceipts = 2
  LEASE_SECONDS = 1
  Kinds = {"rename", "copy"}
  AutoRename = TRUE
  Overlap = FALSE
  MaxFaults = 2
  MaxOthers = 1
INVARIANTS
  DocumentIsKept
  SettledAgreesWithDisk
  FinishedLeavesNoTemporary
PROPERTIES
  OthersFilesAreUntouched
  FilingIsAtomic
  ApplyingIsLeft
CHECK_DEADLOCK FALSE
