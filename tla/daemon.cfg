SPECIFICATION FairSpec
CONSTANTS
  Runs = {1}
  Files = {1, 2}
  WorkerIds = {w1}
  NoWorker = NoWorker
  MaxAttempts = 3
  FastLaneMax = 1
  Procs = {daemon}
  WorkerIdOf <- OneId
  Shas = {shaA, shaB}
  Content <- Twins
  NoSha = NoSha
  Rejected = {}
  Conditions = {"same"}
  ConditionOf <- SameConditions
  FolderOf <- AnyFile
  NoJob = NoJob
  NoDraft = NoDraft
  Nobody = Nobody
  Old = {}
  FaultsHappen = TRUE
  MaxCrashes = 2
  MaxAborts = 2
  shaA = shaA  shaB = shaB  daemon = daemon  cli = cli  w1 = w1
INVARIANTS TypeOK DoneHasResult ClaimIsAccounted SavedMeansClosed RateCoversRun CompletedIsComplete AttemptsBounded
PROPERTIES ResultsAreFinal ImplementsLedger JobSettles RunClosesUnlessCrashed
