\* Chapters alone: every row comes from a finalized chapter and every replay
\* reduces the whole log; the payloads of a1 leave the chapter to the reducer.
SPECIFICATION Spec
CONSTANTS
  k1 = k1  k2 = k2  k3 = k3  k4 = k4
  a1 = a1  a2 = a2  d1 = d1  j1 = j1
  Keys = {k1, k2, k3, k4}
  CreateKeys = {k4}
  CommitKeys = {k1, k2, k3}
  OperatorKeys = {}
  ReplayKeys = {j1}
  Artifacts = {a1, a2}
  Diffs = {}
  Names = {"facts", "timeline"}
  Touches <- TouchesOfArtifacts
  ChapterDerived = {"timeline"}
  Silent = {a1}
  ReplayScopes <- AllScopes
  ReplayBounds <- WholeLog
  Origins = {"absent"}
  MaxRevision = 3
  NoArtifact = NoArtifact  NoEvent = NoEvent  NoKey = NoKey
INVARIANTS
  ChaptersContiguous
  StateMatchesManifest
  ProjectionFollowsLog
  CheckpointsTruthful
  ReplayAgrees
CHECK_DEADLOCK FALSE
