\* Two chapters finalized while two calls of the worker run.
SPECIFICATION Spec
CONSTANTS
  w1 = w1  w2 = w2
  Workers = {w1, w2}
  Limits = {2}
  MaxChapters = 2
  MaxAppends = 1
  MaxMishaps = 1
INVARIANTS OneHolder DoneMeansVisible SnapshotListsItsChapters
SYMMETRY AnyOrder
