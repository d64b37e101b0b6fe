---------------------------- MODULE ReviewCycle ----------------------------
(***************************************************************************)
(* runChapterReviewCycle (pipeline/chapter-review-cycle.ts): assess the    *)
(* draft, repair and assess again while that helps, and choose the version *)
(* that is kept.  The cycle is a function of what the auditor and the      *)
(* deterministic checks say of each version: a chain of assessments, the   *)
(* first of the draft, the next of each repair.  A chain that ends early   *)
(* is a reviser that produced nothing new.                                 *)
(***************************************************************************)
EXTENDS Naturals, Sequences

CONSTANTS
  Scores,             \* overall scores the auditor gives
  MaxReviewIterations \* writingReviewRetries

ASSUME ReviewAssumption == Scores \subseteq Nat /\ MaxReviewIterations \in Nat

PassScore == 85
Epsilon == 3

(* passed: the audit's verdict, denied by a blocked word or a critical     *)
(* post-write issue whatever the score; inRange: within the hard length    *)
(* range.  An audit that cannot be parsed has no score.                    *)
Assessments ==
  [score : Scores, passed : BOOLEAN, inRange : BOOLEAN, parsed : {TRUE}]
  \cup [score : {0}, passed : {FALSE}, inRange : BOOLEAN, parsed : {FALSE}]

Chains == UNION {[1 .. n -> Assessments] : n \in 1 .. MaxReviewIterations + 1}

IsPassed(a) == a.passed /\ a.score >= PassScore /\ a.inRange

Improves(a, b) == b.score >= a.score + Epsilon

(* Whether the loop goes on from the k-th version to a repair of it.       *)
GoesOn(c, k) ==
  /\ ~IsPassed(c[k])
  /\ IF k = 1 THEN c[1].parsed ELSE Improves(c[k - 1], c[k])

(* The number of versions that were assessed.                              *)
Assessed(c) ==
  CHOOSE n \in 1 .. Len(c) :
    /\ \A k \in 1 .. n - 1 : GoesOn(c, k)
    /\ n = Len(c) \/ ~GoesOn(c, n)

(* The version the loop ends with: the last one if it passed or improved.  *)
Current(c) ==
  LET n == Assessed(c) IN
  IF n = 1 \/ IsPassed(c[n]) \/ Improves(c[n - 1], c[n]) THEN n ELSE n - 1

(* The reduce over the snapshots: a later version wins when it alone is in *)
(* range, or clearly scores more.                                          *)
Wins(a, b) == IF a.inRange # b.inRange THEN a.inRange ELSE Improves(b, a)

Best(c) ==
  LET best[k \in 1 .. Assessed(c)] ==
        IF k = 1 THEN 1
        ELSE IF Wins(c[k], c[best[k - 1]]) THEN k ELSE best[k - 1]
  IN best[Assessed(c)]

(* Mutation: only the score brings an earlier version back.                *)
RestoresOnScore(c) == Best(c) # Current(c) /\ Improves(c[Current(c)], c[Best(c)])

(* shouldRestoreBestSnapshot                                               *)
Restores(c) ==
  LET a == c[Best(c)]  b == c[Current(c)] IN
  Best(c) # Current(c) /\ ((a.inRange /\ ~b.inRange) \/ Improves(b, a))

Final(c) == IF Restores(c) THEN Best(c) ELSE Current(c)

(* What the runner makes of it: auditResult.passed decides the status, and *)
(* a revised text is shown to the Runtime first.  normalized: the draft's  *)
(* length was normalized before it was audited.  beaten: some version that *)
(* was assessed wins over the one that is kept.                            *)
Outcome(c, normalized) ==
  LET kept == c[Final(c)]
      seen == {c[k] : k \in 1 .. Assessed(c)}
  IN [passed |-> kept.passed,
      revised |-> Assessed(c) > 1 /\ (Final(c) # 1 \/ normalized),
      beaten |-> \E a \in seen : Wins(a, kept)]

Outcomes ==
  [passed : BOOLEAN, revised : BOOLEAN, beaten : BOOLEAN]
    \cap {Outcome(c, normalized) : c \in Chains, normalized \in BOOLEAN}
=============================================================================
