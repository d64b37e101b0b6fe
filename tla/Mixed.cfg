\* Chapters, operator events and imported rows together, with partial replays.
SPECIFICATION Spec
CONSTANTS
  k1 = k1  k2 = k2  k3 = k3  k4 = k4
  a1 = a1  a2 = a2  d1 = d1  j1 = j1
  Keys = {k1, k2, k3}
  CreateKeys = {k3}
  CommitKeys = {k1, k2}
  OperatorKeys = {k2, k3}
  ReplayKeys = {j1}
  Artifacts = {a1, a2}
  Diffs = {d1}
  Names = {"facts", "timeline"}
  Touches <- MCTouches
  ChapterDerived = {"timeline"}
  Silent = {a1}
  ReplayScopes <- AllScopes
  ReplayBounds <- Prefixes
  Origins = {"absent", "unwritten", "unmanifested", "imported"}
  MaxRevision = 4
  NoArtifact = NoArtifact  NoEvent = NoEvent  NoKey = NoKey
INVARIANTS
  ManifestChain
  CommitMatchesManifest
  LogMatchesManifests
  KeysSpentOnce
  OutboxMatchesManifests
  AuditTrailLegal
  RetryReturnsCounts
PROPERTIES
  FinalizedIsFinal
  ImplementsLedger
CHECK_DEADLOCK FALSE
