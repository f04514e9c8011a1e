SPECIFICATION FairSpec
CONSTANTS
  m1 = m1
  m2 = m2
  m3 = m3
  Machine = {m1, m2}
  NoMachine = NoMachine
  CLAIM_LEASE = 1
  CLAIM_RENEW_THRESHOLD = 1
  Ahead <- Clocks
  MaxAhead = 1
  Placeholders = {}
  MaxTroubles = 0
PROPERTIES
  LoserStops
CHECK_DEADLOCK FALSE
