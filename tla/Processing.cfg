SPECIFICATION ProcessingFairSpec
CONSTANTS
  me = me
  Session = {me}
  NoSession = NoSession
  MaxItems = 2
  MaxReceipts = 0
  LEASE_SECONDS = 1
  MaxCommands = 1
  MaxTroubles = 1
INVARIANTS
  ReadAfresh
PROPERTIES
  OneLane
  ReadingEventuallyEnds
  
  
