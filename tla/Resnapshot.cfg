\* A target that exists, one failed batch and a second snapshot.
SPECIFICATION Spec
CONSTANTS
  Items = {1, 2, 3}
  Disputed = {1}
  Checked = {0, 3}
  BatchSize = 2
  Targets = {"legacy"}
  MaxSnapshots = 2
  MaxMishaps = 1
INVARIANTS RollbackBoundaryKept
CHECK_DEADLOCK FALSE
