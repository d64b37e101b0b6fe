SPECIFICATION Spec
CONSTANTS
  b1 = b1  b2 = b2
  Books = {b1, b2}
  Callers = {"daemon", "studio"}
  MaxConcurrentBooks = 2
  ChaptersPerCycle = 2
  MaxChaptersPerDay = 1
  MaxAuditRetries = 2
  PauseAfter = 3
  MaxEvents = 1
  MaxChapters = 2
  MaxCalls = 1
SYMMETRY AnyBook
INVARIANTS DailyCapBounded CountedMeansFinalized OneLoopPerBook StopsSoon PausesInTime
PROPERTIES PausedBooksRest
CHECK_DEADLOCK FALSE
