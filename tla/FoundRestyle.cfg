SPECIFICATION ProcessingSpec
CONSTANTS
  me = me
  Session = {me}
  NoSession = NoSession
  MaxItems = 2
  MaxReceipts = 0
  LEASE_SECONDS = 1
  MaxCommands = 3
  MaxTroubles = 0
PROPERTIES
  TypedNameStands
