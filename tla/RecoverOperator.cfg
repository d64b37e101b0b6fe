\* One operator append and one chapter that is recovered; no replay, no import.
SPECIFICATION Spec
CONSTANTS
  k1 = k1  k2 = k2  k3 = k3  k4 = k4
  a1 = a1  a2 = a2  d1 = d1  j1 = j1
  Keys = {k1, k2, k3}
  CreateKeys = {k3}
  CommitKeys = {k1, k2}
  OperatorKeys = {k2, k3}
  ReplayKeys = {}
  Artifacts = {a1, a2}
  Diffs = {d1}
  Names = {"facts", "timeline"}
  Touches <- MCTouches
  ChapterDerived = {"timeline"}
  Silent = {}
  ReplayScopes <- AllScopes
  ReplayBounds <- WholeLog
  Origins = {"absent"}
  MaxRevision = 4
  NoArtifact = NoArtifact  NoEvent = NoEvent  NoKey = NoKey
INVARIANTS
  StateMatchesManifest
CHECK_DEADLOCK FALSE
