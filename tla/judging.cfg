SPECIFICATION Spec
CONSTANTS
  Ids = {"C1", "C2", "C3", "C4", "C9"}
  Criteria <- Rubric
  Weight <- Weights
  MustHave = {"C1", "C2"}
  Replies <- AllReplies
  MaxRetries = 2
  High = 75  Mid = 55  Low = 35
  TiesUp = {37, 87}
  None = None
INVARIANTS
  TypeOK JudgedOnce NothingUnsupportedIsRanked SilenceMeansSound OnlyReportsAreCached
  LosingNeverHelps
PROPERTIES NoSignalIsLost EveryScreeningEnds
