----------------------------- MODULE WriteCall -----------------------------
(***************************************************************************)
(* What a caller of PipelineRunner.writeNextChapter may count on, whatever *)
(* happens inside: calls for one book exclude each other; a call that      *)
(* returns a chapter has put its own text at the end of the book, once; a  *)
(* call that throws may have put it there all the same, before or after it *)
(* threw; finalized chapters never change.  ChapterPipeline implements it, *)
(* and Scheduler is built on it.                                           *)
(***************************************************************************)
EXTENDS Naturals, Sequences

CONSTANTS
  Books,
  Callers  \* the scheduler and the interactive callers of one process

VARIABLES
  chapters, \* the finalized chapters of each book
  calls     \* by book and caller; chapter is the number it is known to have

callVars == <<chapters, calls>>

Flows == Books \X Callers
BookOf(f) == f[1]
CallerOf(f) == f[2]

Texts == [caller : Callers, passed : BOOLEAN]

Idle == [at |-> "idle", chapter |-> 0]

CallInit ==
  /\ chapters = [b \in Books |-> << >>]
  /\ calls = [f \in Flows |-> Idle]

Ask(f) ==
  /\ calls[f].at \in {"idle", "done", "failed"}
  /\ calls' = [calls EXCEPT ![f] = [at |-> "asked", chapter |-> 0]]
  /\ UNCHANGED chapters

Busy(b) == \E c \in Callers : calls[<<b, c>>].at = "writing"

(* The book lock is taken, or the call fails with BOOK_BUSY.               *)
Enter(f) ==
  /\ calls[f].at = "asked"
  /\ calls' = [calls EXCEPT ![f].at = IF Busy(BookOf(f)) THEN "failed" ELSE "writing"]
  /\ UNCHANGED chapters

Grow(b, text) == chapters' = [chapters EXCEPT ![b] = Append(@, text)]

OwnText(f, passed) == [caller |-> CallerOf(f), passed |-> passed]

(* The Runtime finalizes the text; the caller has no answer yet.           *)
Publish(f, passed) ==
  /\ calls[f].at = "writing" /\ calls[f].chapter = 0
  /\ Grow(BookOf(f), OwnText(f, passed))
  /\ calls' = [calls EXCEPT ![f].chapter = Len(chapters[BookOf(f)]) + 1]

(* The call returns the chapter it has, or the one it adds now.            *)
Succeed(f, passed) ==
  /\ calls[f].at = "writing"
  /\ IF calls[f].chapter # 0
     THEN calls' = [calls EXCEPT ![f].at = "done"] /\ UNCHANGED chapters
     ELSE /\ Grow(BookOf(f), OwnText(f, passed))
          /\ calls' = [calls EXCEPT ![f] = [at |-> "done",
                                            chapter |-> Len(chapters[BookOf(f)]) + 1]]

(* The call throws; the commit may just have been executed.                *)
Fail(f) ==
  /\ calls[f].at = "writing"
  /\ calls' = [calls EXCEPT ![f] = [at |-> "failed", chapter |-> 0]]
  /\ \/ UNCHANGED chapters
     \/ calls[f].chapter = 0 /\ \E p \in BOOLEAN : Grow(BookOf(f), OwnText(f, p))

(* The commit of a call that threw is executed late.                       *)
Surface(b, text) == Grow(b, text) /\ UNCHANGED calls

Ends(f) == Enter(f) \/ Fail(f) \/ \E p \in BOOLEAN : Succeed(f, p)

CallNext ==
  \/ \E f \in Flows : Ask(f) \/ Ends(f) \/ \E p \in BOOLEAN : Publish(f, p)
  \/ \E b \in Books, text \in Texts : Surface(b, text)

CallSpec == CallInit /\ [][CallNext]_callVars
=============================================================================
