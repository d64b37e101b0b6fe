-------------------------- MODULE ChapterPipeline --------------------------
(***************************************************************************)
(* One call of PipelineRunner.writeNextChapter (pipeline/runner.ts) from   *)
(* the book lock to StoryRuntimeChapterPersistence.persist                 *)
(* (pipeline/chapter-persistence-port.ts), against the Runtime's project:  *)
(* a revision and the finalized chapters.  Each request is a step; a       *)
(* request can fail, and the answer of a commit can be lost while the      *)
(* Runtime has executed it, executes it later, or never gets it.           *)
(*                                                                         *)
(* A chapter's text is a draft, numbered in the order of writing: the      *)
(* idempotency key of a commit is the book, the chapter number and the     *)
(* hash of the text.  Review is one step, its outcome any that ReviewCycle  *)
(* has.  The book lock is the one slot a process has for a book, whose     *)
(* exclusion BookLock shows.                                               *)
(***************************************************************************)
EXTENDS ReviewCycle, FiniteSets

CONSTANTS
  Books,
  Callers,     \* the scheduler and the interactive callers
  MaxDrafts,   \* bound on texts written
  MaxEdits,    \* bound on operator edits of a Runtime project
  MaxFaults,   \* bound on failed or unanswered requests
  MaxCalls     \* bound on interactive calls

Nobody == "nobody"

ASSUME PipelineAssumption ==
  /\ {MaxDrafts, MaxEdits, MaxFaults, MaxCalls} \subseteq Nat
  /\ Nobody \notin Callers

VARIABLES
  books,   \* the Runtime's projects: revision and finalized drafts
  drafts,  \* the texts written so far
  wire,    \* drafts whose commit the Runtime has yet to execute, unawaited
  lock,    \* processBookLocks: book -> the caller that holds it
  flows,   \* the calls of writeNextChapter, by book and caller
  faults, edits, calls

pipelineVars == <<books, drafts, wire, lock, flows, faults, edits, calls>>

Flows == Books \X Callers

NoReview == [passed |-> FALSE, revised |-> FALSE, beaten |-> FALSE]

(* bound is the revision the context was read at, review the outcome of    *)
(* the review of the text at hand; tries counts commits.                   *)
NoFlow == [pc |-> "idle", chapter |-> 0, bound |-> 0, draft |-> 0,
           review |-> NoReview, tries |-> 0]

PipelineInit ==
  /\ books = [b \in Books |-> [revision |-> 1, chapters |-> << >>]]
  /\ drafts = << >> /\ wire = {}
  /\ lock = [b \in Books |-> Nobody]
  /\ flows = [f \in Flows |-> NoFlow]
  /\ faults = 0 /\ edits = 0 /\ calls = 0

BookOf(f) == f[1]
CallerOf(f) == f[2]
At(f, pc) == flows[f].pc = pc
Goes(f, pc) == flows' = [flows EXCEPT ![f].pc = pc]
Fault == faults < MaxFaults /\ faults' = faults + 1
Latest(b) == Len(books[b].chapters)
Revision(b) == books[b].revision
DraftOf(f) == drafts[flows[f].draft]

(* The finally of writeNextChapter: the lock is released on every way out. *)
Returns(f, pc) ==
  /\ flows' = [flows EXCEPT ![f] = IF pc = "done" THEN [@ EXCEPT !.pc = pc]
                                   ELSE [NoFlow EXCEPT !.pc = pc]]
  /\ lock' = [lock EXCEPT ![BookOf(f)] = IF @ = CallerOf(f) THEN Nobody ELSE @]

----------------------------------------------------------------------------
(* writeNextChapter, up to the draft                                       *)

(* Mutation: the slot of the book is not looked at.                        *)
AlwaysFree(b) == TRUE

IsFree(b) == lock[b] = Nobody

(* BookWriteLockError when the book is being written.                      *)
TakeLock(f) ==
  /\ At(f, "locking")
  /\ IF IsFree(BookOf(f))
     THEN lock' = [lock EXCEPT ![BookOf(f)] = CallerOf(f)] /\ Goes(f, "reading")
     ELSE Goes(f, "failed") /\ UNCHANGED lock
  /\ UNCHANGED <<books, drafts, wire, faults, edits, calls>>

ReadStatus(f) ==
  /\ At(f, "reading")
  /\ flows' = [flows EXCEPT ![f] = [@ EXCEPT !.pc = "assembling",
                 !.chapter = Latest(BookOf(f)) + 1, !.bound = Revision(BookOf(f))]]
  /\ UNCHANGED <<books, drafts, wire, lock, faults, edits, calls>>

(* Mutation: a conflict is retried with the revision that is gone.         *)
WaitsForRevision(f) ==
  /\ At(f, "assembling") /\ Revision(BookOf(f)) = flows[f].bound
  /\ Goes(f, "drafting") /\ UNCHANGED lock
  /\ UNCHANGED <<books, drafts, wire, faults, edits, calls>>

(* The recent chapters and the composer's context, each with the revision  *)
(* expected: a conflict if the project has moved.                          *)
AssembleContext(f) ==
  /\ At(f, "assembling")
  /\ IF Revision(BookOf(f)) = flows[f].bound
     THEN Goes(f, "drafting") /\ UNCHANGED lock
     ELSE Returns(f, "failed")
  /\ UNCHANGED <<books, drafts, wire, faults, edits, calls>>

(* The writer and the review cycle produce a text; expected is 0 until the *)
(* text is to be persisted.                                                *)
WriteDraft(f, review) ==
  /\ At(f, "drafting") /\ Len(drafts) < MaxDrafts
  /\ drafts' = Append(drafts, [book |-> BookOf(f), chapter |-> flows[f].chapter,
                               caller |-> CallerOf(f), passed |-> review.passed,
                               expected |-> 0])
  /\ flows' = [flows EXCEPT ![f] = [@ EXCEPT !.pc = "drafted", !.review = review,
                                             !.draft = Len(drafts')]]
  /\ UNCHANGED <<books, wire, lock, faults, edits, calls>>

(* The model fails, the text is empty, or the operation is aborted.        *)
WriteFails(f) ==
  /\ At(f, "drafting") \/ At(f, "drafted")
  /\ Returns(f, "failed")
  /\ UNCHANGED <<books, drafts, wire, faults, edits, calls>>

(* A revised text is first validated against the bound revision.           *)
ValidateRevision(f) ==
  /\ At(f, "drafted")
  /\ IF flows[f].review.revised /\ Revision(BookOf(f)) # flows[f].bound
     THEN Returns(f, "failed")
     ELSE /\ flows' = [flows EXCEPT ![f].pc = "persisting", ![f].review = NoReview]
          /\ UNCHANGED lock
  /\ UNCHANGED <<books, drafts, wire, faults, edits, calls>>

----------------------------------------------------------------------------
(* persist                                                                 *)

(* The status is read again; the requests that follow expect its revision. *)
BindPersistence(f) ==
  /\ At(f, "persisting")
  /\ drafts' = [drafts EXCEPT ![flows[f].draft].expected = Revision(BookOf(f))]
  /\ Goes(f, "reviewing")
  /\ UNCHANGED <<books, wire, lock, faults, edits, calls>>

(* Mutation: the Runtime compares revisions only.                          *)
RevisionIsCurrent(d) == Revision(d.book) = d.expected

(* What the Runtime demands of prepare, validate and commit.               *)
Acceptable(d) == Revision(d.book) = d.expected /\ d.chapter = Latest(d.book) + 1

(* validateReviews: only a text that failed its review can be blocked.     *)
ValidateReviews(f) ==
  /\ At(f, "reviewing")
  /\ \/ Revision(BookOf(f)) = DraftOf(f).expected /\ Goes(f, "preparing") /\ UNCHANGED lock
     \/ /\ ~DraftOf(f).passed \/ Revision(BookOf(f)) # DraftOf(f).expected
        /\ Returns(f, "failed")
  /\ UNCHANGED <<books, drafts, wire, faults, edits, calls>>

PrepareAndValidate(f, from, to) ==
  /\ At(f, from)
  /\ IF Acceptable(DraftOf(f)) THEN Goes(f, to) /\ UNCHANGED lock
     ELSE Returns(f, "failed")
  /\ UNCHANGED <<books, drafts, wire, faults, edits, calls>>

Prepare(f) == PrepareAndValidate(f, "preparing", "validating")
Validate(f) == PrepareAndValidate(f, "validating", "committing")

RequestFails(f) ==
  /\ flows[f].pc \in {"reading", "assembling", "persisting", "reviewing", "preparing",
                      "validating"}
  /\ Fault
  /\ Returns(f, "failed")
  /\ UNCHANGED <<books, drafts, wire, edits, calls>>

Finalized(b) == {books[b].chapters[n] : n \in 1 .. Latest(b)}

Known(i) == i \in Finalized(drafts[i].book)

(* A commit is finalized once; a known key is answered again.              *)
Publish(i) ==
  LET b == drafts[i].book IN
  IF ~Known(i) /\ Acceptable(drafts[i])
  THEN [books EXCEPT ![b] = [revision |-> @.revision + 1,
                             chapters |-> Append(@.chapters, i)]]
  ELSE books

(* Mutation: a second commit that fails is taken for a replay.             *)
TakenForReplay(f) == flows[f].tries = 1

CommitSucceeds(f) == Known(flows[f].draft) \/ Acceptable(DraftOf(f))

CommitChapter(f) ==
  /\ At(f, "committing")
  /\ books' = Publish(flows[f].draft)
  /\ Returns(f, IF CommitSucceeds(f) THEN "done" ELSE "failed")
  /\ UNCHANGED <<drafts, wire, faults, edits, calls>>

Resends(f) == flows[f].tries = 0

(* "unavailable": the Runtime has executed the commit, will, or never will.*)
CommitUnanswered(f) ==
  /\ At(f, "committing") /\ Fault
  /\ \/ books' = Publish(flows[f].draft) /\ UNCHANGED wire
     \/ wire' = wire \cup {flows[f].draft} /\ UNCHANGED books
     \/ UNCHANGED <<books, wire>>
  /\ IF Resends(f)
     THEN flows' = [flows EXCEPT ![f].tries = @ + 1] /\ UNCHANGED lock
     ELSE Returns(f, "failed")
  /\ UNCHANGED <<drafts, edits, calls>>

----------------------------------------------------------------------------
(* The Runtime by itself, and the operator                                 *)

ExecuteLate(i) ==
  /\ i \in wire
  /\ wire' = wire \ {i}
  /\ books' = Publish(i)
  /\ UNCHANGED <<drafts, lock, flows, faults, edits, calls>>

OperatorEdit(b) ==
  /\ edits < MaxEdits
  /\ edits' = edits + 1
  /\ books' = [books EXCEPT ![b].revision = @ + 1]
  /\ UNCHANGED <<drafts, wire, lock, flows, faults, calls>>

Begin(f) == flows' = [flows EXCEPT ![f] = [NoFlow EXCEPT !.pc = "locking"]]

(* Studio, the CLI or the agent asks for the next chapter.                 *)
InteractiveCall(f) ==
  /\ CallerOf(f) # "daemon" /\ calls < MaxCalls
  /\ flows[f].pc \in {"idle", "done", "failed"}
  /\ Begin(f)
  /\ calls' = calls + 1
  /\ UNCHANGED <<books, drafts, wire, lock, faults, edits>>

FlowStep(f) ==
  \/ TakeLock(f) \/ ReadStatus(f) \/ AssembleContext(f)
  \/ \E review \in Outcomes : WriteDraft(f, review)
  \/ WriteFails(f) \/ ValidateRevision(f)
  \/ BindPersistence(f) \/ ValidateReviews(f) \/ Prepare(f) \/ Validate(f)
  \/ CommitChapter(f)

PipelineNext ==
  \/ \E f \in Flows : FlowStep(f) \/ RequestFails(f) \/ CommitUnanswered(f)
                      \/ InteractiveCall(f)
  \/ \E i \in 1 .. Len(drafts) : ExecuteLate(i)
  \/ \E b \in Books : OperatorEdit(b)

PipelineSpec == PipelineInit /\ [][PipelineNext]_pipelineVars

(* Requests and model calls end: they have timeouts.                       *)
PipelineFairSpec == PipelineSpec /\ \A f \in Flows : WF_pipelineVars(FlowStep(f))

----------------------------------------------------------------------------
Pcs == {"idle", "locking", "reading", "assembling", "drafting", "drafted", "persisting",
        "reviewing", "preparing", "validating", "committing", "done", "failed"}

(* A text never becomes another chapter than the one it was written for,   *)
(* nor the same chapter twice, although persist reads the status anew, the *)
(* commit is sent again and a commit can be executed after its caller was  *)
(* told that it failed.                                                    *)
DraftsLandWhereWritten ==
  \A b \in Books : \A n \in 1 .. Latest(b) :
    LET d == drafts[books[b].chapters[n]] IN d.book = b /\ d.chapter = n

(* A call that reports a chapter has it in the Runtime, its own text under *)
(* the number it was written for.                                          *)
ReportedMeansFinalized ==
  \A f \in Flows : At(f, "done") =>
    /\ flows[f].chapter \in 1 .. Latest(BookOf(f))
    /\ books[BookOf(f)].chapters[flows[f].chapter] = flows[f].draft

(* Review keeps no version that another one it saw clearly beats: none is  *)
(* in range when the kept one is not, and none in the same range scores an *)
(* epsilon more, however the loop, the reduce and the restore interact.    *)
KeepsUnbeatenVersion == \A f \in Flows : ~flows[f].review.beaten

(* A book that is being written comes free again: every way out of the     *)
(* call, conflict, failure or success, releases the lock.                  *)
BookComesFree == \A b \in Books : lock[b] # Nobody ~> lock[b] = Nobody

(* The call as its caller sees it.                                         *)
Seen(f) ==
  LET r == flows[f] IN
  [at |-> CASE r.pc = "locking" -> "asked"
            [] r.pc \in {"idle", "done", "failed"} -> r.pc
            [] OTHER -> "writing",
   chapter |-> IF r.draft # 0 /\ Known(r.draft) THEN r.chapter ELSE 0]

Chapters(b) ==
  [n \in 1 .. Latest(b) |-> LET d == drafts[books[b].chapters[n]]
                            IN [caller |-> d.caller, passed |-> d.passed]]

Call == INSTANCE WriteCall WITH chapters <- [b \in Books |-> Chapters(b)],
                                calls <- [f \in Flows |-> Seen(f)]

(* writeNextChapter keeps its promises: exclusion per book, a chapter for  *)
(* every call that returns one, and no other change of a book.             *)
ImplementsWriteCall == Call!CallSpec
=============================================================================
