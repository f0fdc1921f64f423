SPECIFICATION Spec
CONSTANTS
  Actors = {alice, bob}
  Reviewers = {alice}
  Given = {eng}
  References = {eng, ops}
  Contents = {c1, c2}
  MaxVersion <- TwoForEng
  RunIds = {r1}
  None = None
  Sessions = {s1}
  MaxCalls = 4
  Lines = {l1, l2}
  Unfit = Unfit
  eng = eng  ops = ops
INVARIANT SaidDoneIsDone
