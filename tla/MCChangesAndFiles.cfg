SPECIFICATION MCSpec
\* A terminated change, or a bound that is used up, has no next step.
CHECK_DEADLOCK FALSE
CONSTANTS
  Incidents = {1}
  MaxApprovals = 2
  MaxChanges = 2
  MaxDeployments = 1
  MaxRevision = 2
  Required = 1
  MaxAnswers = 1
  MaxCoders = 1

  Folders = {"home", "docs"}
  Desks = {"home"}
  Names = {"a", "manifest.json"}
  MaxVersions = 2
  MaxBatches = 1
  MaxItems = 2
  MaxJobs = 2

  AutoActions = {"filesystem_scanner"}
  UserApprovalActions = {"file_move"}
  SupervisedDeletes = {"file_delete"}
  SupervisedBulk = {"bulk_delete"}
  OtherActions = {}
  Computers = {"laptop", "desktop"}
  TrashBatches = {"b1"}
  UndoRequests = {"r1", "r2"}
  NoComputer = "none"

  Sessions = {"s1", "s2"}
  MaxEntries = 5
  LegacyEntries = 1
INVARIANTS
  MCTypeOK
  AwaitingHasPending
  WorkIsApproved
  OneChangePerIncident
  ArtifactWasChecked
  
  
  DeletesOnlyDuplicates
  
  
  BrokenOnlyByStaleReads
