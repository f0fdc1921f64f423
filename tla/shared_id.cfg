SPECIFICATION Spec
CONSTANTS
  Runs = {1}
  Files = {1, 2}
  WorkerIds = {w1}
  NoWorker = NoWorker
  MaxAttempts = 2
  FastLaneMax = 1
  Procs = {daemon, cli}
  WorkerIdOf <- SharedId
  Shas = {shaA, shaB}
  Content <- Distinct
  NoSha = NoSha
  Rejected = {}
  Conditions = {"same"}
  ConditionOf <- SameConditions
  FolderOf <- AnyFile
  NoJob = NoJob
  NoDraft = NoDraft
  Nobody = Nobody
  Old = {}
  FaultsHappen = TRUE
  MaxCrashes = 0
  MaxAborts = 1
  shaA = shaA  shaB = shaB  daemon = daemon  cli = cli  w1 = w1
INVARIANTS ClaimIsAccounted SomebodyCloses
PROPERTIES ResultsAreFinal
