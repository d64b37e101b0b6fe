-------------------------- MODULE MCChapterCommit --------------------------
(* Small instances of ChapterCommit: two or three commit keys, one or two  *)
(* operator keys, one explicit and one chapter-derived projection.         *)
EXTENDS ChapterCommit, TLC

CONSTANTS k1, k2, k3, k4, a1, a2, d1, j1

MCTouches == (a1 :> {"facts", "timeline"}) @@ (a2 :> {"facts"}) @@ (d1 :> {"facts"})

TouchesOfArtifacts == (a1 :> {"facts", "timeline"}) @@ (a2 :> {"facts"})

AllScopes == {AllNames, {"facts"}}
WholeLog == {<<0, MaxRevision>>}
Prefixes == {<<0, MaxRevision>>, <<0, 1>>}
=============================================================================
