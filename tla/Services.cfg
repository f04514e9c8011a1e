SPECIFICATION Spec
CONSTANTS
  Part = {"worker", "extraction", "server", "download", "admission", "ledgers", "analysis"}
  Request = {"r"}
  NoRequest = "none"
  MaxCalls = 2
  MaxCancels = 1
  MaxCrashes = 1
  MaxPages = 3
  MaxChunks = 2
  MaxCells = 4
  Row = {0, 1, 2, 3}
  Column = {0, 1}
  MAX_SHEET_ROWS = 2
  MAX_SHEET_COLS = 1
  CELLS_BEFORE_PRUNE = 3
  MAX_SPAWN_ATTEMPTS = 2
  MaxServers = 2
  MaxAnalyses = 1
  MaxRestarts = 1
  MaxSetups = 1
  MaxSaves = 1
  MaxDeaths = 1
  Pieces = 3
  Ahead = 2
  MaxAttempts = 3
  MaxTroubles = 3
  Account = {"a", "b"}
  NoAccount = "nobody"
  MaxRevisions = 2
  MaxCommands = 3
  MaxMishaps = 1
  Machine = {"m", "n"}
  Document = {"d", "e"}
  Name = {"x", "y"}
  Nothing = "nothing"
  MaxFilings = 2
  MaxLosses = 1
  None = "absent"
  Sources <- Documents
  Replies <- ReplyTo
INVARIANTS
  WorkerIsFreeOnceItAnswered
  OneDocumentIsRead
  SnapshotIsOneVersion
  DocumentIsWhatWasRead
  ServersAreAccountedFor
  InstalledIsVerified
  InvalidIsMendedByTheNext
  AdmittedIsItsUploaders
  DisconnectedAdmitsNothing
  AdmittedUnderOneSetup
  OnceProtectedIsNeverLocal
  DescribedIsFiled
  RepeatedIsFiled
  BillIsFromItsIssuer
  ReadyKeepsTheReply
PROPERTIES
  ExtractReturns
  JoinReturns
CHECK_DEADLOCK FALSE
