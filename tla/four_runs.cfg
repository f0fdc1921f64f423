SPECIFICATION Spec
CONSTANTS
  Runs = {1, 2, 3, 4}
  Files = {1, 2}
  WorkerIds = {w1}
  NoWorker = NoWorker
  MaxAttempts = 1
  FastLaneMax = 1
  Procs = {daemon}
  WorkerIdOf <- OneId
  Shas = {shaA, shaB}
  Content <- Distinct
  NoSha = NoSha
  Rejected = {}
  Conditions = {"same", "other"}
  ConditionOf <- FirstDiffers
  FolderOf <- FirstIsLarge
  NoJob = NoJob
  NoDraft = NoDraft
  Nobody = Nobody
  Old = {1}
  FaultsHappen = FALSE
  MaxCrashes = 0
  MaxAborts = 0
  shaA = shaA  shaB = shaB  daemon = daemon  cli = cli  w1 = w1
INVARIANTS CacheIsSound
PROPERTIES ServedInOrder
