SPECIFICATION Spec
CONSTANTS
  m1 = m1
  m2 = m2
  m3 = m3
  Machine = {m1, m2}
  NoMachine = NoMachine
  CLAIM_LEASE = 2
  CLAIM_RENEW_THRESHOLD = 2
  Ahead <- Clocks
  MaxAhead = 1
  Placeholders = {m1}
  MaxTroubles = 1
PROPERTIES
  TakenOverOnlyInSilence
CHECK_DEADLOCK FALSE
