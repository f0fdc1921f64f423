SPECIFICATION Spec
CONSTANTS
  Runs = {run1, run2}
  Shas = {shaA}
  Purgers = {api, cli}
  NoSha = NoSha
  NoPlace = NoPlace
  run1 = run1  run2 = run2  shaA = shaA  api = api  cli = cli
SYMMETRY Symmetry
INVARIANTS TypeOK TracesAreFindable PurgeIsThorough
PROPERTIES NothingBlankIsFiled
