\* Two documents, one disputed, and a chapter in two batches; two pauses, faults or stops.
SPECIFICATION FairSpec
CONSTANTS
  Items = {1, 2, 3}
  Disputed = {1}
  Checked = {0, 3}
  BatchSize = 2
  Targets = {"absent", "legacy", "runtime"}
  MaxSnapshots = 2
  MaxMishaps = 2
INVARIANTS LedgerTruthful CutoverTakesTheImport
PROPERTIES ImportCompletes
CHECK_DEADLOCK FALSE
