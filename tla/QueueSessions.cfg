SPECIFICATION HFairSpec
CONSTANTS
  Session = {s1, s2}
  NoSession = NoSession
  MaxItems = 1
  MaxReceipts = 2
  LEASE_SECONDS = 1
INVARIANTS
  TypeOK
  OwnedRowsAreActive
  NoThirdAttempt
  UnfinishedReceiptIsNewest
  ActiveReceiptIsTheOperation
  EmptyApplyingCanBeResolved
PROPERTIES
  WorkIsLostOnlyInSilence
  FinishedReceiptsAreFinal
  StrandedWorkIsRequeued
