SPECIFICATION FairSpec
CONSTANTS
  Attempts = {d1, d2, d3}
  Threads = {t1, t2, t3}
  Processes = {api, term}
  ProcOf <- TwoAndOne
  Gated = {api}
  None = None
  api = api  term = term  t1 = t1  t2 = t2  t3 = t3
INVARIANTS TypeOK AllOrNothing OnlyWriter
PROPERTIES ImplementsLog LockComesFree CallsEnd
