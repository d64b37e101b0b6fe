SPECIFICATION PipelineFairSpec
CONSTANTS
  b1 = b1
  Books = {b1}
  Callers = {"studio", "agent"}
  Scores = {0, 84, 86, 90}
  MaxReviewIterations = 2
  MaxDrafts = 3
  MaxEdits = 1
  MaxFaults = 2
  MaxCalls = 3
INVARIANTS DraftsLandWhereWritten ReportedMeansFinalized KeepsUnbeatenVersion
PROPERTIES BookComesFree ImplementsWriteCall
CHECK_DEADLOCK FALSE
