SPECIFICATION Spec
CONSTANTS
  MaxFileBytes = 3
  MaxPages = 2
  MaxDecompressedBytes = 4
  MaxCompressionRatio = 2
  MaxZipEntries = 2
  Allowed = {"pdf", "docx"}
  Suffixes = {"pdf", "docx", "txt"}
  Docs <- Samples
  Runs = {r1, r2}
  Rubrics = {h1, h2}
  None = None
  Arrivals <- Later
  MaxChanges = 1
  MaxReplacements = 1
SYMMETRY Alike
INVARIANTS VerdictIsRight RecordsAreTrue
