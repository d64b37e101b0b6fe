---------------------------- MODULE StoryLedger ----------------------------
(***************************************************************************)
(* What the Runtime promises of a project: a book that only ever gains     *)
(* its next chapter, and a history of accepted commands in which each      *)
(* idempotency key appears at most once and each command has a revision    *)
(* of its own, above every earlier one.  Nothing is ever withdrawn.        *)
(***************************************************************************)
EXTENDS Naturals, Sequences

CONSTANTS Keys, Artifacts, Diffs

VARIABLES
  book,      \* the finalized artifacts, chapter by chapter
  history,   \* accepted commands: their key, payload and revision
  head       \* the project revision

story == <<book, history, head>>

Spent == {h.key : h \in history}

Accept(k, payload) ==
  /\ k \notin Spent
  /\ head' > head
  /\ history' = history \cup {[key |-> k, payload |-> payload, revision |-> head']}

PublishChapter(k, a) == Accept(k, a) /\ book' = Append(book, a)

ApplyDiff(k, d) == Accept(k, d) /\ book' = book

LedgerInit == book = << >> /\ history = {} /\ head \in Nat

LedgerNext ==
  \/ \E k \in Keys, a \in Artifacts : PublishChapter(k, a)
  \/ \E k \in Keys, d \in Diffs : ApplyDiff(k, d)

LedgerSpec == LedgerInit /\ [][LedgerNext]_story
=============================================================================
