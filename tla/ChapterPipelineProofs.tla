----------------------- MODULE ChapterPipelineProofs -----------------------
(***************************************************************************)
(* Theorems about ChapterPipeline for any books, callers and bounds: a     *)
(* text never becomes another chapter than the one it was written for, and *)
(* a call that reports a chapter has it.  Both follow from one inductive   *)
(* invariant, which says whose draft each call carries.  On it rests the    *)
(* second part: the pipeline implements WriteCall.  The third is about what *)
(* a review is, a function of the assessments: it keeps no version that    *)
(* another one it assessed wins over.                                      *)
(***************************************************************************)
EXTENDS ChapterPipeline, SequenceTheorems, WellFoundedInduction, TLAPS

Reviews == Outcomes \cup {NoReview}

FlowRecords == [pc : Pcs, chapter : Nat, bound : Nat, draft : Nat,
                review : Reviews, tries : Nat]
DraftRecords == [book : Books, chapter : Nat, caller : Callers,
                 passed : {r.passed : r \in Reviews}, expected : Nat]

(* Before and after the draft of a call exists.                            *)
Early == {"idle", "locking", "reading", "assembling", "drafting", "failed"}
Late == {"drafted", "persisting", "reviewing", "preparing", "validating", "committing",
         "done"}

Shapes ==
  /\ books \in [Books -> [revision : Nat, chapters : Seq(Nat)]]
  /\ drafts \in Seq(DraftRecords)
  /\ flows \in [Flows -> FlowRecords]
  /\ wire \subseteq 1 .. Len(drafts)

(* A call carries no draft, or its own, written for its book and chapter.  *)
Carries(f) ==
  /\ flows[f].pc \in Early => flows[f].draft = 0
  /\ flows[f].pc \in Late => /\ flows[f].draft \in 1 .. Len(drafts)
                             /\ DraftOf(f).book = BookOf(f)
                             /\ DraftOf(f).caller = CallerOf(f)
                             /\ DraftOf(f).chapter = flows[f].chapter

OwnDrafts ==
  /\ \A f \in Flows : Carries(f)
  /\ \A f, g \in Flows : f # g /\ flows[f].draft # 0 => flows[f].draft # flows[g].draft

(* The n-th chapter of a book is a draft written as chapter n of the book. *)
InPlace ==
  \A b \in Books : \A n \in 1 .. Len(books[b].chapters) :
    /\ books[b].chapters[n] \in 1 .. Len(drafts)
    /\ drafts[books[b].chapters[n]].book = b
    /\ drafts[books[b].chapters[n]].chapter = n

DataInv == Shapes /\ OwnDrafts /\ InPlace /\ ReportedMeansFinalized

----------------------------------------------------------------------------
(* Facts about the shapes                                                  *)

LEMMA NoFlowShape ==
  ASSUME NEW pc \in Pcs
  PROVE  /\ [NoFlow EXCEPT !.pc = pc] \in FlowRecords
         /\ [NoFlow EXCEPT !.pc = pc].pc = pc
         /\ [NoFlow EXCEPT !.pc = pc].draft = 0
         /\ [NoFlow EXCEPT !.pc = pc].chapter = 0
  BY DEF NoFlow, FlowRecords, Reviews

LEMMA EarlyLate ==
  /\ \A pc \in Pcs : (pc \in Early) <=> (pc \notin Late)
  /\ Early \subseteq Pcs /\ Late \subseteq Pcs
  BY DEF Early, Late, Pcs

LEMMA FlowPairs ==
  ASSUME NEW f \in Flows
  PROVE  BookOf(f) \in Books /\ CallerOf(f) \in Callers /\ f = <<BookOf(f), CallerOf(f)>>
  BY DEF Flows, BookOf, CallerOf

(* A draft that a book has is known in that book only, at its own number.  *)
LEMMA KnownInPlace ==
  ASSUME Shapes, InPlace, NEW i \in 1 .. Len(drafts), Known(i)
  PROVE  /\ drafts[i].book \in Books
         /\ drafts[i].chapter \in 1 .. Len(books[drafts[i].book].chapters)
         /\ books[drafts[i].book].chapters[drafts[i].chapter] = i
<1> DEFINE b == drafts[i].book
<1>1. drafts[i] \in DraftRecords
  BY DEF Shapes
<1>2. b \in Books
  BY <1>1 DEF DraftRecords
<1>3. PICK n \in 1 .. Len(books[b].chapters) : books[b].chapters[n] = i
  BY DEF Known, Finalized, Latest
<1>4. drafts[i].chapter = n
  BY <1>2, <1>3 DEF InPlace
<1> QED
  BY <1>2, <1>3, <1>4

----------------------------------------------------------------------------
(* Steps of a call that touch neither the drafts nor the books             *)

(* What a step may do to the books: finalized chapters stay, in place.      *)
BooksGrow ==
  /\ books' \in [Books -> [revision : Nat, chapters : Seq(Nat)]]
  /\ InPlace'
  /\ \A b \in Books : \A n \in 1 .. Len(books[b].chapters) :
       /\ n \in 1 .. Len(books'[b].chapters)
       /\ books'[b].chapters[n] = books[b].chapters[n]

LEMMA StandStill ==
  ASSUME DataInv, UNCHANGED <<books, drafts>>
  PROVE  BooksGrow
<1>1. books \in [Books -> [revision : Nat, chapters : Seq(Nat)]]
  BY DEF DataInv, Shapes
<1>2. InPlace'
  BY DEF DataInv, InPlace
<1> QED
  BY <1>1, <1>2 DEF BooksGrow

(* One call goes to another record, while the books may grow.              *)
LEMMA CallMoves ==
  ASSUME NEW f \in Flows, NEW new \in FlowRecords, DataInv, BooksGrow,
         flows' = [flows EXCEPT ![f] = new], drafts' = drafts, wire' \subseteq 1 .. Len(drafts),
         new.draft = flows[f].draft \/ new.draft = 0,
         new.pc \in Early => new.draft = 0,
         new.pc \in Late => /\ flows[f].pc \in Late /\ new.draft = flows[f].draft
                            /\ new.chapter = flows[f].chapter,
         new.pc = "done" => /\ new.chapter \in 1 .. Len(books'[BookOf(f)].chapters)
                            /\ books'[BookOf(f)].chapters[new.chapter] = new.draft
  PROVE  DataInv'
<1>1. flows \in [Flows -> FlowRecords] /\ \A g \in Flows : g # f => flows'[g] = flows[g]
  BY DEF DataInv, Shapes
<1>2. flows'[f] = new
  BY <1>1
<1>3. Shapes'
  BY <1>1 DEF DataInv, Shapes, BooksGrow
<1>4. OwnDrafts'
  <2>1. \A g \in Flows : Carries(g)'
    BY <1>1, <1>2 DEF DataInv, OwnDrafts, Carries, DraftOf
  <2>2. \A g, h \in Flows : g # h /\ flows'[g].draft # 0 => flows'[g].draft # flows'[h].draft
    BY <1>1, <1>2 DEF DataInv, OwnDrafts
  <2> QED
    BY <2>1, <2>2 DEF OwnDrafts
<1>5. ReportedMeansFinalized'
  <2> SUFFICES ASSUME NEW g \in Flows, flows'[g].pc = "done"
               PROVE  /\ flows'[g].chapter \in 1 .. Len(books'[BookOf(g)].chapters)
                      /\ books'[BookOf(g)].chapters[flows'[g].chapter] = flows'[g].draft
    BY DEF ReportedMeansFinalized, At, Latest
  <2>1. CASE g = f
    BY <2>1, <1>2
  <2>2. CASE g # f
    <3>1. flows'[g] = flows[g] /\ BookOf(g) \in Books
      BY <2>2, <1>1, FlowPairs
    <3>2. /\ flows[g].chapter \in 1 .. Len(books[BookOf(g)].chapters)
          /\ books[BookOf(g)].chapters[flows[g].chapter] = flows[g].draft
      BY <3>1 DEF DataInv, ReportedMeansFinalized, At, Latest
    <3> QED
      BY <3>1, <3>2 DEF BooksGrow
  <2> QED
    BY <2>1, <2>2
<1> QED
  BY <1>3, <1>4, <1>5 DEF DataInv, BooksGrow

LEMMA FlowMoves ==
  ASSUME NEW f \in Flows, NEW new \in FlowRecords, DataInv,
         flows' = [flows EXCEPT ![f] = new], UNCHANGED <<books, drafts, wire>>,
         new.draft = flows[f].draft \/ new.draft = 0,
         new.pc \in Early => new.draft = 0,
         new.pc \in Late => /\ flows[f].pc \in Late /\ new.draft = flows[f].draft
                            /\ new.chapter = flows[f].chapter,
         new.pc # "done"
  PROVE  DataInv'
<1>1. BooksGrow /\ wire' \subseteq 1 .. Len(drafts)
  BY StandStill DEF DataInv, Shapes
<1> QED
  BY <1>1, CallMoves

LEMMA GoesKeeps ==
  ASSUME NEW f \in Flows, NEW pc \in Pcs, DataInv, Goes(f, pc), UNCHANGED <<books, drafts, wire>>,
         (flows[f].pc \in Early /\ pc \in Early) \/ (flows[f].pc \in Late /\ pc \in Late \ {"done"})
  PROVE  DataInv'
<1> DEFINE new == [flows[f] EXCEPT !.pc = pc]
<1>1. flows[f] \in FlowRecords /\ Carries(f)
  BY DEF DataInv, Shapes, OwnDrafts
<1>2. new \in FlowRecords /\ new.pc = pc /\ new.draft = flows[f].draft
                         /\ new.chapter = flows[f].chapter
  BY <1>1 DEF FlowRecords
<1>3. flows' = [flows EXCEPT ![f] = new]
  BY DEF Goes, DataInv, Shapes
<1>4. pc \in Early => new.draft = 0
  BY <1>1, <1>2, EarlyLate DEF Carries
<1>5. pc # "done" /\ (pc \in Late => flows[f].pc \in Late)
  BY EarlyLate DEF Early
<1> HIDE DEF new
<1> QED
  BY <1>2, <1>3, <1>4, <1>5, FlowMoves

LEMMA FailsKeeps ==
  ASSUME NEW f \in Flows, DataInv, Returns(f, "failed"), UNCHANGED <<books, drafts, wire>>
  PROVE  DataInv'
<1> DEFINE new == [NoFlow EXCEPT !.pc = "failed"]
<1>1. "failed" \in Pcs /\ "failed" \in Early /\ "failed" \notin Late
  BY DEF Pcs, Early, Late
<1>2. new \in FlowRecords /\ new.pc = "failed" /\ new.draft = 0
  BY <1>1, NoFlowShape
<1>3. flows' = [flows EXCEPT ![f] = new]
  BY DEF Returns
<1> HIDE DEF new
<1> QED
  BY <1>1, <1>2, <1>3, FlowMoves
LEMMA BeginKeeps ==
  ASSUME NEW f \in Flows, DataInv, Begin(f), UNCHANGED <<books, drafts, wire>>
  PROVE  DataInv'
<1> DEFINE new == [NoFlow EXCEPT !.pc = "locking"]
<1>1. "locking" \in Pcs /\ "locking" \notin Late
  BY DEF Pcs, Late
<1>2. new \in FlowRecords /\ new.pc = "locking" /\ new.draft = 0
  BY <1>1, NoFlowShape
<1>3. flows' = [flows EXCEPT ![f] = new]
  BY DEF Begin
<1> HIDE DEF new
<1> QED
  BY <1>1, <1>2, <1>3, FlowMoves

LEMMA ReadStatusKeeps ==
  ASSUME NEW f \in Flows, DataInv, ReadStatus(f)
  PROVE  DataInv'
<1> DEFINE new == [flows[f] EXCEPT !.pc = "assembling", !.chapter = Latest(BookOf(f)) + 1,
                                   !.bound = Revision(BookOf(f))]
<1>1. /\ flows[f] \in FlowRecords /\ Carries(f) /\ flows[f].pc = "reading"
      /\ BookOf(f) \in Books
  BY FlowPairs DEF DataInv, Shapes, OwnDrafts, ReadStatus, At
<1>2. Latest(BookOf(f)) + 1 \in Nat /\ Revision(BookOf(f)) \in Nat
  BY <1>1 DEF DataInv, Shapes, Latest, Revision
<1>3. flows[f].draft = 0
  BY <1>1 DEF Carries, Early
<1>4. new \in FlowRecords /\ new.pc = "assembling" /\ new.draft = 0
  BY <1>1, <1>2, <1>3 DEF FlowRecords, Pcs
<1>5. flows' = [flows EXCEPT ![f] = new] /\ UNCHANGED <<books, drafts, wire>>
  BY DEF ReadStatus
<1>6. "assembling" \notin Late
  BY DEF Late
<1> HIDE DEF new
<1> QED
  BY <1>4, <1>5, <1>6, FlowMoves

LEMMA ValidateRevisionKeeps ==
  ASSUME NEW f \in Flows, DataInv, ValidateRevision(f)
  PROVE  DataInv'
<1>1. UNCHANGED <<books, drafts, wire>>
  BY DEF ValidateRevision
<1>2. CASE Returns(f, "failed")
  BY <1>1, <1>2, FailsKeeps
<1>3. CASE flows' = [flows EXCEPT ![f].pc = "persisting", ![f].review = NoReview]
  <2> DEFINE new == [flows[f] EXCEPT !.pc = "persisting", !.review = NoReview]
  <2>1. flows[f] \in FlowRecords /\ flows[f].pc = "drafted"
    BY DEF DataInv, Shapes, ValidateRevision, At
  <2>2. /\ new \in FlowRecords /\ new.pc = "persisting" /\ new.draft = flows[f].draft
        /\ new.chapter = flows[f].chapter
    BY <2>1 DEF FlowRecords, Pcs, Reviews
  <2>3. flows' = [flows EXCEPT ![f] = new]
    BY <1>3 DEF DataInv, Shapes
  <2>4. flows[f].pc \in Late /\ "persisting" \notin Early
    BY <2>1 DEF Late, Early
  <2> HIDE DEF new
  <2> QED
    BY <1>1, <2>2, <2>3, <2>4, FlowMoves
<1> QED
  BY <1>2, <1>3 DEF ValidateRevision

----------------------------------------------------------------------------
(* Steps that touch the drafts                                             *)

(* A new draft is the last one, and nobody else's.                         *)
LEMMA WriteDraftKeeps ==
  ASSUME NEW f \in Flows, NEW review \in Outcomes, DataInv, WriteDraft(f, review)
  PROVE  DataInv'
<1> DEFINE text == [book |-> BookOf(f), chapter |-> flows[f].chapter,
                    caller |-> CallerOf(f), passed |-> review.passed,
                    expected |-> 0]
           n == Len(drafts) + 1
           new == [flows[f] EXCEPT !.pc = "drafted", !.review = review, !.draft = n]
<1>1. /\ flows \in [Flows -> FlowRecords] /\ flows[f] \in FlowRecords
      /\ drafts \in Seq(DraftRecords) /\ BookOf(f) \in Books /\ CallerOf(f) \in Callers
      /\ UNCHANGED <<books, wire>>
  BY FlowPairs DEF DataInv, Shapes, WriteDraft
<1>2. text \in DraftRecords
  BY <1>1 DEF DraftRecords, FlowRecords, Reviews
<1>3. drafts' = Append(drafts, text)
  BY DEF WriteDraft
<1>4. /\ drafts' \in Seq(DraftRecords) /\ Len(drafts') = n /\ Len(drafts) \in Nat
      /\ drafts'[n] = text
      /\ \A i \in 1 .. Len(drafts) : drafts'[i] = drafts[i]
  BY <1>1, <1>2, <1>3
<1>5. flows' = [flows EXCEPT ![f] = new]
  BY <1>4 DEF WriteDraft
<1>6. /\ new \in FlowRecords /\ new.pc = "drafted" /\ new.draft = n
      /\ new.chapter = flows[f].chapter
  <2>1. n \in Nat /\ review \in Reviews /\ "drafted" \in Pcs
    BY <1>4 DEF Reviews, Pcs
  <2> HIDE DEF n
  <2> QED
    BY <1>1, <2>1 DEF FlowRecords
<1>7. text.book = BookOf(f) /\ text.caller = CallerOf(f) /\ text.chapter = flows[f].chapter
  OBVIOUS
<1>8. \A g \in Flows : flows[g].draft \in 0 .. Len(drafts)
  <2> SUFFICES ASSUME NEW g \in Flows PROVE flows[g].draft \in 0 .. Len(drafts)
    OBVIOUS
  <2>1. Carries(g) /\ flows[g].pc \in Pcs
    BY <1>1 DEF DataInv, OwnDrafts, FlowRecords
  <2> QED
    BY <1>4, <2>1, EarlyLate DEF Carries
<1> HIDE DEF new, text
<1>9. flows'[f] = new /\ \A g \in Flows : g # f => flows'[g] = flows[g]
  BY <1>1, <1>5
<1>10. Shapes'
  <2>1. flows' \in [Flows -> FlowRecords]
    BY <1>1, <1>5, <1>6
  <2>2. wire' \subseteq 1 .. Len(drafts')
    BY <1>1, <1>4 DEF DataInv, Shapes
  <2> QED
    BY <1>1, <1>4, <2>1, <2>2 DEF DataInv, Shapes
<1>11. \A g \in Flows : Carries(g)'
  <2> SUFFICES ASSUME NEW g \in Flows PROVE Carries(g)'
    OBVIOUS
  <2>1. CASE g = f
    <3>1. "drafted" \notin Early
      BY DEF Early
    <3> QED
      BY <2>1, <3>1, <1>4, <1>6, <1>7, <1>9 DEF Carries, DraftOf
  <2>2. CASE g # f
    <3>1. Carries(g) /\ flows'[g] = flows[g]
      BY <2>2, <1>9 DEF DataInv, OwnDrafts
    <3> QED
      BY <3>1, <1>4 DEF Carries, DraftOf
  <2> QED
    BY <2>1, <2>2
<1>12. \A g, h \in Flows : g # h /\ flows'[g].draft # 0 => flows'[g].draft # flows'[h].draft
  <2> SUFFICES ASSUME NEW g \in Flows, NEW h \in Flows, g # h, flows'[g].draft # 0
               PROVE  flows'[g].draft # flows'[h].draft
    OBVIOUS
  <2>1. CASE g = f
    BY <2>1, <1>4, <1>6, <1>8, <1>9
  <2>2. CASE h = f
    BY <2>2, <1>4, <1>6, <1>8, <1>9
  <2>3. CASE g # f /\ h # f
    BY <2>3, <1>9 DEF DataInv, OwnDrafts
  <2> QED
    BY <2>1, <2>2, <2>3
<1>13. InPlace'
  BY <1>1, <1>4 DEF DataInv, InPlace
<1>14. ReportedMeansFinalized'
  <2>1. new.pc # "done"
    BY <1>6
  <2> QED
    BY <2>1, <1>1, <1>9 DEF DataInv, ReportedMeansFinalized, At, Latest
<1> QED
  BY <1>10, <1>11, <1>12, <1>13, <1>14 DEF DataInv, OwnDrafts

(* Binding a draft to a revision leaves what it was written for.           *)
LEMMA BindKeeps ==
  ASSUME NEW f \in Flows, DataInv, BindPersistence(f)
  PROVE  DataInv'
<1> DEFINE d == flows[f].draft
           text == [drafts[d] EXCEPT !.expected = Revision(BookOf(f))]
           new == [flows[f] EXCEPT !.pc = "reviewing"]
<1>1. /\ flows \in [Flows -> FlowRecords] /\ flows[f] \in FlowRecords
      /\ drafts \in Seq(DraftRecords) /\ flows[f].pc = "persisting"
      /\ UNCHANGED <<books, wire>> /\ BookOf(f) \in Books
  BY FlowPairs DEF DataInv, Shapes, BindPersistence, At
<1>2. d \in 1 .. Len(drafts) /\ drafts[d] \in DraftRecords
  BY <1>1 DEF DataInv, OwnDrafts, Carries, Late
<1>3. Revision(BookOf(f)) \in Nat
  BY <1>1 DEF DataInv, Shapes, Revision
<1>4. /\ text \in DraftRecords /\ text.book = drafts[d].book
      /\ text.chapter = drafts[d].chapter /\ text.caller = drafts[d].caller
      /\ text.passed = drafts[d].passed
  BY <1>2, <1>3 DEF DraftRecords
<1>5. drafts' = [drafts EXCEPT ![d] = text]
  BY <1>1, <1>2 DEF BindPersistence
<1>6. flows' = [flows EXCEPT ![f] = new]
  BY <1>1 DEF BindPersistence, Goes
<1>7. /\ new \in FlowRecords /\ new.pc = "reviewing" /\ new.draft = d
      /\ new.chapter = flows[f].chapter
  BY <1>1 DEF FlowRecords, Pcs
<1> HIDE DEF new, text, d
<1>8. /\ drafts' \in Seq(DraftRecords) /\ Len(drafts') = Len(drafts)
      /\ \A i \in 1 .. Len(drafts) : drafts'[i] = IF i = d THEN text ELSE drafts[i]
  BY <1>1, <1>2, <1>4, <1>5
<1>9. \A i \in 1 .. Len(drafts) :
        /\ drafts'[i].book = drafts[i].book /\ drafts'[i].chapter = drafts[i].chapter
        /\ drafts'[i].caller = drafts[i].caller
  BY <1>4, <1>8
<1>10. flows'[f] = new /\ \A g \in Flows : g # f => flows'[g] = flows[g]
  BY <1>1, <1>6
<1>11. Shapes'
  BY <1>1, <1>6, <1>7, <1>8 DEF DataInv, Shapes
<1>12. \A g \in Flows : Carries(g)'
  <2> SUFFICES ASSUME NEW g \in Flows PROVE Carries(g)'
    OBVIOUS
  <2>1. Carries(g) /\ flows'[g].draft = flows[g].draft /\ flows'[g].chapter = flows[g].chapter
    BY <1>7, <1>10 DEF DataInv, OwnDrafts, d
  <2>2. flows'[g].pc = flows[g].pc \/ (flows'[g].pc \in Late \ Early /\ flows[g].pc \in Late)
    BY <1>1, <1>7, <1>10 DEF Late, Early
  <2> QED
    BY <2>1, <2>2, <1>8, <1>9 DEF Carries, DraftOf
<1>13. \A g, h \in Flows : g # h /\ flows'[g].draft # 0 => flows'[g].draft # flows'[h].draft
  BY <1>7, <1>10 DEF DataInv, OwnDrafts, d
<1>14. InPlace'
  BY <1>1, <1>8, <1>9 DEF DataInv, InPlace
<1>15. ReportedMeansFinalized'
  BY <1>1, <1>7, <1>10 DEF DataInv, ReportedMeansFinalized, At, Latest
<1> QED
  BY <1>11, <1>12, <1>13, <1>14, <1>15 DEF DataInv, OwnDrafts

----------------------------------------------------------------------------
(* Steps that may publish                                                  *)

(* A commit that is executed puts its draft in place, or changes nothing.  *)
LEMMA AppendFacts ==
  ASSUME NEW s \in Seq(Nat), NEW i \in Nat
  PROVE  /\ Append(s, i) \in Seq(Nat) /\ Len(Append(s, i)) = Len(s) + 1
         /\ Append(s, i)[Len(s) + 1] = i
         /\ \A n \in 1 .. Len(s) : Append(s, i)[n] = s[n]
  OBVIOUS

LEMMA PublishGrows ==
  ASSUME DataInv, NEW i \in 1 .. Len(drafts), books' = Publish(i), drafts' = drafts
  PROVE  /\ BooksGrow
         /\ Known(i) \/ Acceptable(drafts[i]) =>
              /\ drafts[i].chapter \in 1 .. Len(books'[drafts[i].book].chapters)
              /\ books'[drafts[i].book].chapters[drafts[i].chapter] = i
<1> DEFINE b == drafts[i].book
           l == Len(books[b].chapters)
           grown == [revision |-> books[b].revision + 1, chapters |-> Append(books[b].chapters, i)]
<1>1. drafts[i] \in DraftRecords /\ books \in [Books -> [revision : Nat, chapters : Seq(Nat)]]
  BY DEF DataInv, Shapes
<1>2. b \in Books /\ books[b].chapters \in Seq(Nat) /\ books[b].revision \in Nat
  BY <1>1 DEF DraftRecords
<1>3. CASE Known(i) \/ ~Acceptable(drafts[i])
  <2>1. books' = books
    BY <1>3 DEF Publish
  <2>2. BooksGrow
    BY <2>1, StandStill
  <2> QED
    BY <2>1, <2>2, <1>3, KnownInPlace DEF DataInv
<1>4. CASE ~Known(i) /\ Acceptable(drafts[i])
  <2>1. drafts[i].chapter = l + 1 /\ l \in Nat
    BY <1>2, <1>4 DEF Acceptable, Latest
  <2>2. books' = [books EXCEPT ![b] = grown]
    BY <1>1, <1>2, <1>4 DEF Publish
  <2>3. i \in Nat
    OBVIOUS
  <2>4. grown \in [revision : Nat, chapters : Seq(Nat)]
    BY <1>2, <2>3
  <2>5. /\ grown.chapters = Append(books[b].chapters, i) /\ Len(grown.chapters) = l + 1
        /\ grown.chapters[l + 1] = i
        /\ \A n \in 1 .. l : grown.chapters[n] = books[b].chapters[n]
    <3>1. grown.chapters = Append(books[b].chapters, i)
      OBVIOUS
    <3> HIDE DEF grown
    <3> QED
      BY <3>1, <1>2, <2>3, AppendFacts
  <2> HIDE DEF grown
  <2>6. books'[b] = grown /\ \A c \in Books : c # b => books'[c] = books[c]
    BY <1>1, <1>2, <2>2
  <2>7. books' \in [Books -> [revision : Nat, chapters : Seq(Nat)]]
    BY <1>1, <2>2, <2>4
  <2>8. InPlace'
    <3> SUFFICES ASSUME NEW c \in Books, NEW n \in 1 .. Len(books'[c].chapters)
                 PROVE  /\ books'[c].chapters[n] \in 1 .. Len(drafts)
                        /\ drafts[books'[c].chapters[n]].book = c
                        /\ drafts[books'[c].chapters[n]].chapter = n
      BY DEF InPlace
    <3>1. CASE c # b
      BY <3>1, <2>6 DEF DataInv, InPlace
    <3>2. CASE c = b
      <4>1. books'[c].chapters = grown.chapters /\ n \in 1 .. l + 1
        BY <3>2, <2>5, <2>6
      <4>2. CASE n \in 1 .. l
        <5>1. /\ books[b].chapters[n] \in 1 .. Len(drafts)
              /\ drafts[books[b].chapters[n]].book = b
              /\ drafts[books[b].chapters[n]].chapter = n
          BY <4>2, <1>2 DEF DataInv, InPlace
        <5> QED
          BY <5>1, <4>1, <4>2, <2>5, <3>2
      <4>3. CASE n = l + 1
        BY <4>1, <4>3, <2>1, <2>5, <3>2
      <4> QED
        BY <4>1, <4>2, <4>3, <2>1
    <3> QED
      BY <3>1, <3>2
  <2>9. \A c \in Books : \A n \in 1 .. Len(books[c].chapters) :
          /\ n \in 1 .. Len(books'[c].chapters)
          /\ books'[c].chapters[n] = books[c].chapters[n]
    <3> SUFFICES ASSUME NEW c \in Books, NEW n \in 1 .. Len(books[c].chapters)
                 PROVE  /\ n \in 1 .. Len(books'[c].chapters)
                        /\ books'[c].chapters[n] = books[c].chapters[n]
      OBVIOUS
    <3>1. CASE c # b
      BY <3>1, <2>6
    <3>2. CASE c = b
      <4>1. books'[c].chapters = grown.chapters /\ books[c].chapters = books[b].chapters
        BY <3>2, <2>6
      <4>2. n \in 1 .. l
        BY <4>1
      <4>3. grown.chapters[n] = books[b].chapters[n] /\ Len(grown.chapters) = l + 1
        BY <4>2, <2>5
      <4> QED
        BY <4>1, <4>2, <4>3, <2>1
    <3> QED
      BY <3>1, <3>2
  <2> QED
    BY <2>1, <2>5, <2>6, <2>7, <2>8, <2>9 DEF BooksGrow
<1> QED
  BY <1>3, <1>4

LEMMA CommitKeeps ==
  ASSUME NEW f \in Flows, DataInv, CommitChapter(f)
  PROVE  DataInv'
<1> DEFINE i == flows[f].draft
<1>1. /\ flows[f] \in FlowRecords /\ flows[f].pc = "committing" /\ Carries(f)
      /\ UNCHANGED <<drafts, wire>> /\ books' = Publish(i) /\ BookOf(f) \in Books
  BY FlowPairs DEF DataInv, Shapes, OwnDrafts, CommitChapter, At
<1>2. /\ i \in 1 .. Len(drafts) /\ drafts[i].book = BookOf(f)
      /\ drafts[i].chapter = flows[f].chapter
  BY <1>1 DEF Carries, Late, DraftOf
<1>3. CASE CommitSucceeds(f)
  <2> DEFINE new == [flows[f] EXCEPT !.pc = "done"]
  <2>1. /\ new \in FlowRecords /\ new.pc = "done" /\ new.draft = i
        /\ new.chapter = flows[f].chapter
    BY <1>1 DEF FlowRecords, Pcs
  <2>2. flows' = [flows EXCEPT ![f] = new]
    BY <1>3 DEF CommitChapter, Returns, DataInv, Shapes
  <2>3. Known(i) \/ Acceptable(drafts[i])
    BY <1>3 DEF CommitSucceeds, DraftOf
  <2>4. "done" \notin Early /\ "committing" \in Late
    BY DEF Early, Late
  <2>5. wire' \subseteq 1 .. Len(drafts)
    BY <1>1 DEF DataInv, Shapes
  <2>6. /\ BooksGrow
        /\ flows[f].chapter \in 1 .. Len(books'[BookOf(f)].chapters)
        /\ books'[BookOf(f)].chapters[flows[f].chapter] = i
    BY <1>1, <1>2, <2>3, PublishGrows
  <2> HIDE DEF new, i
  <2>7. /\ new.draft = flows[f].draft /\ flows[f].pc \in Late
        /\ new.pc \in Early => new.draft = 0
    BY <1>1, <2>1, <2>4 DEF i
  <2> QED
    BY <1>1, <2>1, <2>2, <2>5, <2>6, <2>7, CallMoves
<1>4. CASE ~CommitSucceeds(f)
  <2>1. books' = books
    BY <1>1, <1>4 DEF Publish, CommitSucceeds, DraftOf
  <2>2. Returns(f, "failed")
    BY <1>4 DEF CommitChapter
  <2> QED
    BY <2>1, <2>2, <1>1, FailsKeeps
<1> QED
  BY <1>3, <1>4

LEMMA UnansweredKeeps ==
  ASSUME NEW f \in Flows, DataInv, CommitUnanswered(f)
  PROVE  DataInv'
<1> DEFINE i == flows[f].draft
<1>1. /\ flows[f] \in FlowRecords /\ flows[f].pc = "committing" /\ Carries(f)
      /\ drafts' = drafts
  BY DEF DataInv, Shapes, OwnDrafts, CommitUnanswered, At
<1>2. i \in 1 .. Len(drafts) /\ wire \subseteq 1 .. Len(drafts)
  BY <1>1 DEF Carries, Late, DataInv, Shapes
<1>3. BooksGrow /\ wire' \subseteq 1 .. Len(drafts)
  <2>1. CASE books' = Publish(i) /\ UNCHANGED wire
    BY <2>1, <1>1, <1>2, PublishGrows
  <2>2. CASE wire' = wire \cup {i} /\ UNCHANGED books
    BY <2>2, <1>1, <1>2, StandStill
  <2>3. CASE UNCHANGED <<books, wire>>
    BY <2>3, <1>1, <1>2, StandStill
  <2> QED
    BY <2>1, <2>2, <2>3 DEF CommitUnanswered
<1>4. CASE Resends(f)
  <2> DEFINE new == [flows[f] EXCEPT !.tries = @ + 1]
  <2>1. /\ new \in FlowRecords /\ new.pc = "committing" /\ new.draft = i
        /\ new.chapter = flows[f].chapter
    BY <1>1 DEF FlowRecords
  <2>2. flows' = [flows EXCEPT ![f] = new]
    BY <1>4 DEF CommitUnanswered, DataInv, Shapes
  <2>3. "committing" \notin Early /\ "committing" \in Late
    BY DEF Early, Late
  <2> HIDE DEF new
  <2> QED
    BY <1>1, <1>3, <2>1, <2>2, <2>3, CallMoves
<1>5. CASE ~Resends(f)
  <2> DEFINE new == [NoFlow EXCEPT !.pc = "failed"]
  <2>1. "failed" \in Pcs /\ "failed" \notin Late
    BY DEF Pcs, Late
  <2>2. new \in FlowRecords /\ new.pc = "failed" /\ new.draft = 0
    BY <2>1, NoFlowShape
  <2>3. flows' = [flows EXCEPT ![f] = new]
    BY <1>5 DEF CommitUnanswered, Returns
  <2> HIDE DEF new
  <2> QED
    BY <1>1, <1>3, <2>1, <2>2, <2>3, CallMoves
<1> QED
  BY <1>4, <1>5

(* A step of the Runtime by itself leaves the calls alone.                 *)
LEMMA RuntimeMoves ==
  ASSUME DataInv, BooksGrow, UNCHANGED <<drafts, flows>>, wire' \subseteq 1 .. Len(drafts)
  PROVE  DataInv'
<1>1. Shapes'
  BY DEF DataInv, Shapes, BooksGrow
<1>2. OwnDrafts'
  BY DEF DataInv, OwnDrafts, Carries, DraftOf
<1>3. ReportedMeansFinalized'
  <2> SUFFICES ASSUME NEW g \in Flows, flows[g].pc = "done"
               PROVE  /\ flows[g].chapter \in 1 .. Len(books'[BookOf(g)].chapters)
                      /\ books'[BookOf(g)].chapters[flows[g].chapter] = flows[g].draft
    BY DEF ReportedMeansFinalized, At, Latest
  <2>1. /\ flows[g].chapter \in 1 .. Len(books[BookOf(g)].chapters) /\ BookOf(g) \in Books
        /\ books[BookOf(g)].chapters[flows[g].chapter] = flows[g].draft
    BY FlowPairs DEF DataInv, ReportedMeansFinalized, At, Latest
  <2> QED
    BY <2>1 DEF BooksGrow
<1> QED
  BY <1>1, <1>2, <1>3 DEF DataInv, BooksGrow

LEMMA ExecuteLateKeeps ==
  ASSUME NEW i \in 1 .. Len(drafts), DataInv, ExecuteLate(i)
  PROVE  DataInv'
<1>1. BooksGrow /\ UNCHANGED <<drafts, flows>>
  BY PublishGrows DEF ExecuteLate
<1>2. wire' \subseteq 1 .. Len(drafts)
  BY DEF ExecuteLate, DataInv, Shapes
<1> QED
  BY <1>1, <1>2, RuntimeMoves

LEMMA RevisionMoves ==
  ASSUME NEW r \in [revision : Nat, chapters : Seq(Nat)]
  PROVE  /\ [r EXCEPT !.revision = @ + 1] \in [revision : Nat, chapters : Seq(Nat)]
         /\ [r EXCEPT !.revision = @ + 1].chapters = r.chapters
<1>1. r.revision + 1 \in Nat
  OBVIOUS
<1> QED
  BY <1>1

LEMMA OperatorEditKeeps ==
  ASSUME NEW b \in Books, DataInv, OperatorEdit(b)
  PROVE  DataInv'
<1> DEFINE new == [books[b] EXCEPT !.revision = @ + 1]
<1>1. /\ books \in [Books -> [revision : Nat, chapters : Seq(Nat)]]
      /\ UNCHANGED <<drafts, wire, flows>>
  BY DEF DataInv, Shapes, OperatorEdit
<1>2. new \in [revision : Nat, chapters : Seq(Nat)] /\ new.chapters = books[b].chapters
  <2>1. books[b] \in [revision : Nat, chapters : Seq(Nat)]
    BY <1>1
  <2> QED
    BY <2>1, RevisionMoves
<1>3. books' = [books EXCEPT ![b] = new]
  BY <1>1 DEF OperatorEdit
<1> HIDE DEF new
<1>4. /\ books' \in [Books -> [revision : Nat, chapters : Seq(Nat)]]
      /\ \A c \in Books : books'[c].chapters = books[c].chapters
  BY <1>1, <1>2, <1>3
<1>5. InPlace'
  BY <1>1, <1>4 DEF DataInv, InPlace
<1>6. BooksGrow
  BY <1>4, <1>5 DEF BooksGrow
<1>7. wire' \subseteq 1 .. Len(drafts)
  BY <1>1 DEF DataInv, Shapes
<1> QED
  BY <1>1, <1>6, <1>7, RuntimeMoves

----------------------------------------------------------------------------
(* The invariant                                                           *)

LEMMA InitHolds == PipelineInit => DataInv
<1> SUFFICES ASSUME PipelineInit PROVE DataInv
  OBVIOUS
<1>1. NoFlow \in FlowRecords /\ NoFlow.pc = "idle" /\ NoFlow.draft = 0
  BY DEF NoFlow, FlowRecords, Pcs, Reviews
<1>2. \A f \in Flows : flows[f] = NoFlow
  BY DEF PipelineInit
<1>3. \A b \in Books : books[b].chapters = << >> /\ books[b].revision = 1
  BY DEF PipelineInit
<1>4. Shapes
  BY <1>1 DEF PipelineInit, Shapes
<1>5. OwnDrafts
  BY <1>1, <1>2 DEF OwnDrafts, Carries, Early, Late
<1>6. InPlace
  BY <1>3 DEF InPlace
<1>7. ReportedMeansFinalized
  BY <1>1, <1>2 DEF ReportedMeansFinalized, At
<1> QED
  BY <1>4, <1>5, <1>6, <1>7 DEF DataInv

LEMMA FlowStepKeeps ==
  ASSUME NEW f \in Flows, DataInv, FlowStep(f)
  PROVE  DataInv'
<1>1. CASE TakeLock(f)
  <2>1. flows[f].pc = "locking" /\ UNCHANGED <<books, drafts, wire>>
    BY <1>1 DEF TakeLock, At
  <2>2. \E pc \in {"reading", "failed"} : Goes(f, pc)
    BY <1>1 DEF TakeLock
  <2>3. {"reading", "failed", "locking"} \subseteq Early \cap Pcs
    BY DEF Early, Pcs
  <2> QED
    BY <2>1, <2>2, <2>3, GoesKeeps
<1>2. CASE ReadStatus(f)
  BY <1>2, ReadStatusKeeps
<1>3. CASE AssembleContext(f)
  <2>1. flows[f].pc = "assembling" /\ UNCHANGED <<books, drafts, wire>>
    BY <1>3 DEF AssembleContext, At
  <2>2. Goes(f, "drafting") \/ Returns(f, "failed")
    BY <1>3 DEF AssembleContext
  <2>3. {"drafting", "assembling"} \subseteq Early \cap Pcs
    BY DEF Early, Pcs
  <2> QED
    BY <2>1, <2>2, <2>3, GoesKeeps, FailsKeeps
<1>4. CASE \E review \in Outcomes : WriteDraft(f, review)
  BY <1>4, WriteDraftKeeps
<1>5. CASE WriteFails(f)
  BY <1>5, FailsKeeps DEF WriteFails
<1>6. CASE ValidateRevision(f)
  BY <1>6, ValidateRevisionKeeps
<1>7. CASE BindPersistence(f)
  BY <1>7, BindKeeps
<1>8. CASE ValidateReviews(f) \/ Prepare(f) \/ Validate(f)
  <2>1. UNCHANGED <<books, drafts, wire>>
    BY <1>8 DEF ValidateReviews, Prepare, Validate, PrepareAndValidate
  <2>2. \/ Returns(f, "failed")
        \/ /\ flows[f].pc \in {"reviewing", "preparing", "validating"}
           /\ \E pc \in {"preparing", "validating", "committing"} : Goes(f, pc)
    BY <1>8 DEF ValidateReviews, Prepare, Validate, PrepareAndValidate, At
  <2>3. {"reviewing", "preparing", "validating", "committing"} \subseteq (Late \ {"done"}) \cap Pcs
    BY DEF Late, Pcs
  <2> QED
    BY <2>1, <2>2, <2>3, GoesKeeps, FailsKeeps
<1>9. CASE CommitChapter(f)
  BY <1>9, CommitKeeps
<1> QED
  BY <1>1, <1>2, <1>3, <1>4, <1>5, <1>6, <1>7, <1>8, <1>9 DEF FlowStep

LEMMA NextKeeps ==
  ASSUME DataInv, [PipelineNext]_pipelineVars
  PROVE  DataInv'
<1>1. CASE \E f \in Flows : FlowStep(f)
  BY <1>1, FlowStepKeeps
<1>2. CASE \E f \in Flows : RequestFails(f)
  BY <1>2, FailsKeeps DEF RequestFails
<1>3. CASE \E f \in Flows : CommitUnanswered(f)
  BY <1>3, UnansweredKeeps
<1>4. CASE \E f \in Flows : InteractiveCall(f)
  BY <1>4, BeginKeeps DEF InteractiveCall
<1>5. CASE \E i \in 1 .. Len(drafts) : ExecuteLate(i)
  BY <1>5, ExecuteLateKeeps
<1>6. CASE \E b \in Books : OperatorEdit(b)
  BY <1>6, OperatorEditKeeps
<1>7. CASE UNCHANGED pipelineVars
  <2>1. UNCHANGED <<books, drafts, wire, flows>>
    BY <1>7 DEF pipelineVars
  <2>2. BooksGrow /\ wire' \subseteq 1 .. Len(drafts)
    BY <2>1, StandStill DEF DataInv, Shapes
  <2> QED
    BY <2>1, <2>2, RuntimeMoves
<1> QED
  BY <1>1, <1>2, <1>3, <1>4, <1>5, <1>6, <1>7 DEF PipelineNext

LEMMA Inductive == PipelineSpec => []DataInv
  BY InitHolds, NextKeeps, PTL DEF PipelineSpec

(* persist reads the status anew, the commit is sent twice and may be      *)
(* executed after the call threw: still no text becomes another chapter    *)
(* than the one it was written for, whatever the books, callers and faults.*)
THEOREM LandsWhereWritten == PipelineSpec => []DraftsLandWhereWritten
<1>1. DataInv => DraftsLandWhereWritten
  BY DEF DataInv, InPlace, DraftsLandWhereWritten, Latest
<1> QED
  BY <1>1, Inductive, PTL

(* A chapter that writeNextChapter returns is in the Runtime, its own text *)
(* under its own number.                                                   *)
THEOREM ReportsWhatIsFinalized == PipelineSpec => []ReportedMeansFinalized
<1>1. DataInv => ReportedMeansFinalized
  BY DEF DataInv
<1> QED
  BY <1>1, Inductive, PTL

----------------------------------------------------------------------------
(***************************************************************************)
(* ChapterPipeline implements WriteCall for any books, callers and bounds. *)
(* DataInv says whose draft a call carries; LockInv says who holds a book: *)
(* with both, every step is one of WriteCall or changes nothing of it.     *)
(***************************************************************************)
Writing == {"reading", "assembling", "drafting", "drafted", "persisting", "reviewing",
            "preparing", "validating", "committing"}

LockInv ==
  /\ lock \in [Books -> Callers \cup {Nobody}]
  /\ \A f \in Flows : flows[f].pc \in Writing <=> lock[BookOf(f)] = CallerOf(f)

(* The Runtime has the draft a call carries, under its number.             *)
Owns(f) ==
  /\ flows[f].draft # 0
  /\ flows[f].chapter \in 1 .. Len(books[BookOf(f)].chapters)
  /\ books[BookOf(f)].chapters[flows[f].chapter] = flows[f].draft

AtOf(pc) == CASE pc = "locking" -> "asked"
              [] pc \in {"idle", "done", "failed"} -> pc
              [] OTHER -> "writing"

(* What WriteCall's variables stand for.                                   *)
AllChapters == [b \in Books |-> Chapters(b)]
AllCalls == [f \in Flows |-> Seen(f)]

USE PipelineAssumption

----------------------------------------------------------------------------
(* The lock                                                                *)

LEMMA SameBookOtherCaller ==
  ASSUME NEW f \in Flows, NEW g \in Flows, f # g, BookOf(f) = BookOf(g)
  PROVE  CallerOf(f) # CallerOf(g)
  BY FlowPairs

LEMMA LockKept ==
  ASSUME DataInv, LockInv, NEW f \in Flows, lock' = lock,
         flows' \in [Flows -> FlowRecords], \A g \in Flows : g # f => flows'[g] = flows[g],
         flows'[f].pc \in Writing <=> flows[f].pc \in Writing
  PROVE  LockInv'
  BY DEF LockInv

LEMMA LockReturned ==
  ASSUME DataInv, LockInv, NEW f \in Flows, NEW pc \in {"done", "failed"}, Returns(f, pc)
  PROVE  LockInv'
<1>1. /\ flows \in [Flows -> FlowRecords] /\ BookOf(f) \in Books /\ CallerOf(f) \in Callers
      /\ \A g \in Flows : g # f => flows'[g] = flows[g]
  BY FlowPairs DEF DataInv, Shapes, Returns
<1>2. flows'[f].pc = pc /\ pc \notin Writing
  <2>1. \A r \in FlowRecords : [r EXCEPT !.pc = pc].pc = pc
    BY DEF FlowRecords
  <2>2. [NoFlow EXCEPT !.pc = pc].pc = pc
    BY DEF NoFlow
  <2> QED
    BY <2>1, <2>2, <1>1 DEF Returns, Writing
<1>3. /\ lock' \in [Books -> Callers \cup {Nobody}]
      /\ lock'[BookOf(f)] # CallerOf(f)
      /\ \A b \in Books : lock'[b] # lock[b] => b = BookOf(f) /\ lock[b] = CallerOf(f)
                                                /\ lock'[b] = Nobody
  BY <1>1 DEF LockInv, Returns
<1>4. ASSUME NEW g \in Flows
      PROVE  flows'[g].pc \in Writing <=> lock'[BookOf(g)] = CallerOf(g)
  <2>1. CASE g = f
    BY <2>1, <1>2, <1>3
  <2>2. CASE g # f
    <3>1. flows'[g] = flows[g] /\ BookOf(g) \in Books /\ CallerOf(g) \in Callers
      BY <2>2, <1>1, FlowPairs
    <3> QED
      BY <3>1, <2>2, <1>3, SameBookOtherCaller DEF LockInv
  <2> QED
    BY <2>1, <2>2
<1> QED
  BY <1>3, <1>4 DEF LockInv

LEMMA LockTaken ==
  ASSUME DataInv, LockInv, NEW f \in Flows, TakeLock(f)
  PROVE  LockInv'
<1>1. /\ flows \in [Flows -> FlowRecords] /\ BookOf(f) \in Books /\ CallerOf(f) \in Callers
      /\ flows[f] \in FlowRecords /\ flows[f].pc = "locking"
  BY FlowPairs DEF DataInv, Shapes, TakeLock, At
<1>2. ASSUME NEW pc \in Pcs, Goes(f, pc)
      PROVE  flows'[f].pc = pc /\ \A g \in Flows : g # f => flows'[g] = flows[g]
  BY <1>1, <1>2 DEF Goes, FlowRecords
<1>3. CASE ~IsFree(BookOf(f))
  <2>1. Goes(f, "failed") /\ lock' = lock /\ "failed" \in Pcs
    BY <1>3 DEF TakeLock, Pcs
  <2> QED
    BY <2>1, <1>1, <1>2 DEF LockInv, Writing
<1>4. CASE IsFree(BookOf(f))
  <2>1. /\ Goes(f, "reading") /\ "reading" \in Pcs /\ lock[BookOf(f)] = Nobody
        /\ lock' = [lock EXCEPT ![BookOf(f)] = CallerOf(f)]
    BY <1>4 DEF TakeLock, Pcs, IsFree
  <2>2. ASSUME NEW g \in Flows
        PROVE  flows'[g].pc \in Writing <=> lock'[BookOf(g)] = CallerOf(g)
    <3>1. CASE g = f
      BY <3>1, <2>1, <1>1, <1>2 DEF LockInv, Writing
    <3>2. CASE g # f
      <4>1. flows'[g] = flows[g] /\ BookOf(g) \in Books /\ CallerOf(g) \in Callers
        BY <3>2, <2>1, <1>2, FlowPairs
      <4> QED
        BY <4>1, <3>2, <2>1, <1>1, SameBookOtherCaller DEF LockInv
    <3> QED
      BY <3>1, <3>2
  <2> QED
    BY <2>1, <2>2, <1>1 DEF LockInv
<1> QED
  BY <1>3, <1>4

(* What a call does between the lock and its end: it goes on, with the lock*)
(* in hand, or returns.                                                    *)
Proceeds(f) ==
  /\ lock' = lock /\ flows[f].pc \in Writing
  /\ \E new \in FlowRecords : new.pc \in Writing /\ flows' = [flows EXCEPT ![f] = new]

LEMMA ReadersProceed ==
  ASSUME DataInv, DataInv', NEW f \in Flows,
         \/ ReadStatus(f) \/ AssembleContext(f) \/ \E r \in Outcomes : WriteDraft(f, r)
         \/ WriteFails(f) \/ ValidateRevision(f) \/ BindPersistence(f) \/ ValidateReviews(f)
         \/ Prepare(f) \/ Validate(f) \/ RequestFails(f) \/ CommitUnanswered(f)
         \/ CommitChapter(f)
  PROVE  /\ flows[f].pc \in Writing
         /\ Proceeds(f) \/ \E pc \in {"done", "failed"} : Returns(f, pc)
<1>1. /\ flows \in [Flows -> FlowRecords] /\ flows[f] \in FlowRecords
      /\ flows' \in [Flows -> FlowRecords] /\ flows'[f] \in FlowRecords
  BY DEF DataInv, Shapes
<1>2. flows[f].pc \in Writing
  BY DEF ReadStatus, AssembleContext, WriteDraft, WriteFails, ValidateRevision, BindPersistence,
     ValidateReviews, Prepare, Validate, PrepareAndValidate, RequestFails, CommitUnanswered,
     CommitChapter, At, Writing
<1>3. ASSUME NEW new, new.pc \in Writing, flows' = [flows EXCEPT ![f] = new], lock' = lock
      PROVE  Proceeds(f)
  <2>1. new \in FlowRecords
    BY <1>1, <1>3
  <2> QED
    BY <2>1, <1>2, <1>3 DEF Proceeds
<1>4. ASSUME NEW pc \in Writing, Goes(f, pc), lock' = lock
      PROVE  Proceeds(f)
  <2> DEFINE new == [flows[f] EXCEPT !.pc = pc]
  <2>1. new.pc = pc
    BY <1>1 DEF FlowRecords
  <2>2. flows' = [flows EXCEPT ![f] = new]
    BY <1>1, <1>4 DEF Goes
  <2> HIDE DEF new
  <2> QED
    BY <2>1, <2>2, <1>3, <1>4
<1>5. {"drafting", "preparing", "validating", "committing", "reviewing"} \subseteq Writing
  BY DEF Writing
<1>6. CASE ReadStatus(f)
  <2> DEFINE new == [flows[f] EXCEPT !.pc = "assembling", !.chapter = Latest(BookOf(f)) + 1,
                                     !.bound = Revision(BookOf(f))]
  <2>1. new.pc = "assembling" /\ "assembling" \in Writing
    BY <1>1 DEF FlowRecords, Writing
  <2>2. flows' = [flows EXCEPT ![f] = new] /\ lock' = lock
    BY <1>6 DEF ReadStatus
  <2> HIDE DEF new
  <2> QED
    BY <2>1, <2>2, <1>2, <1>3
<1>7. CASE \E r \in Outcomes : WriteDraft(f, r)
  <2> PICK r \in Outcomes : WriteDraft(f, r)
    BY <1>7
  <2> DEFINE new == [flows[f] EXCEPT !.pc = "drafted", !.review = r, !.draft = Len(drafts')]
  <2>1. new.pc = "drafted" /\ "drafted" \in Writing
    BY <1>1 DEF FlowRecords, Writing
  <2>2. flows' = [flows EXCEPT ![f] = new] /\ lock' = lock
    BY DEF WriteDraft
  <2> HIDE DEF new
  <2> QED
    BY <2>1, <2>2, <1>2, <1>3
<1>8. CASE ValidateRevision(f)
  <2> DEFINE new == [flows[f] EXCEPT !.pc = "persisting", !.review = NoReview]
  <2>1. new.pc = "persisting" /\ "persisting" \in Writing
    BY <1>1 DEF FlowRecords, Writing
  <2>2. Returns(f, "failed") \/ (flows' = [flows EXCEPT ![f] = new] /\ lock' = lock)
    BY <1>1, <1>8 DEF ValidateRevision
  <2> HIDE DEF new
  <2> QED
    BY <2>1, <2>2, <1>2, <1>3
<1>9. CASE CommitUnanswered(f)
  <2> DEFINE new == [flows[f] EXCEPT !.tries = @ + 1]
  <2>1. new.pc \in Writing
    BY <1>1, <1>2 DEF FlowRecords
  <2>2. Returns(f, "failed") \/ (flows' = [flows EXCEPT ![f] = new] /\ lock' = lock)
    BY <1>1, <1>9 DEF CommitUnanswered
  <2> HIDE DEF new
  <2> QED
    BY <2>1, <2>2, <1>2, <1>3
<1>10. CASE \/ AssembleContext(f) \/ WriteFails(f) \/ BindPersistence(f) \/ ValidateReviews(f)
            \/ Prepare(f) \/ Validate(f) \/ RequestFails(f) \/ CommitChapter(f)
  <2>1. \/ \E pc \in {"done", "failed"} : Returns(f, pc)
        \/ lock' = lock /\ \E pc \in {"drafting", "preparing", "validating", "committing",
                                      "reviewing"} : Goes(f, pc)
    BY <1>10 DEF AssembleContext, WriteFails, BindPersistence, ValidateReviews, Prepare,
       Validate, PrepareAndValidate, RequestFails, CommitChapter
  <2> QED
    BY <2>1, <1>2, <1>4, <1>5
<1> QED
  BY <1>6, <1>7, <1>8, <1>9, <1>10

LEMMA LockNext ==
  ASSUME DataInv, DataInv', LockInv, [PipelineNext]_pipelineVars
  PROVE  LockInv'
<1>1. ASSUME NEW f \in Flows, Proceeds(f) \/ \E pc \in {"done", "failed"} : Returns(f, pc)
      PROVE  LockInv'
  <2>1. CASE Proceeds(f)
    <3>1. PICK new \in FlowRecords : new.pc \in Writing /\ flows' = [flows EXCEPT ![f] = new]
      BY <2>1 DEF Proceeds
    <3>2. /\ flows' \in [Flows -> FlowRecords] /\ flows'[f] = new
          /\ \A g \in Flows : g # f => flows'[g] = flows[g]
      BY <3>1 DEF DataInv, Shapes
    <3>3. (flows'[f].pc \in Writing <=> flows[f].pc \in Writing) /\ lock' = lock
      BY <2>1, <3>1, <3>2 DEF Proceeds
    <3> QED
      BY <3>2, <3>3 DEF LockInv
  <2>2. ASSUME NEW pc \in {"done", "failed"}, Returns(f, pc)
        PROVE  LockInv'
    BY <2>2, LockReturned
  <2> QED
    BY <2>1, <2>2, <1>1
<1>2. ASSUME NEW f \in Flows, FlowStep(f) \/ RequestFails(f) \/ CommitUnanswered(f)
      PROVE  LockInv'
  BY <1>1, <1>2, ReadersProceed, LockTaken DEF FlowStep
<1>3. ASSUME NEW f \in Flows, InteractiveCall(f)
      PROVE  LockInv'
  <2>1. /\ flows'[f] = [NoFlow EXCEPT !.pc = "locking"] /\ lock' = lock
        /\ \A g \in Flows : g # f => flows'[g] = flows[g]
        /\ flows' \in [Flows -> FlowRecords]
    BY <1>3 DEF InteractiveCall, Begin, DataInv, Shapes
  <2>2. "locking" \notin Writing /\ flows[f].pc \notin Writing /\ "locking" \in Pcs
    BY <1>3 DEF Writing, InteractiveCall, Pcs
  <2>3. flows'[f].pc = "locking"
    BY <2>1, <2>2, NoFlowShape
  <2> QED
    BY <2>1, <2>2, <2>3, LockKept
<1>4. ASSUME UNCHANGED <<lock, flows>>
      PROVE  LockInv'
  BY <1>4 DEF LockInv
<1>5. CASE \/ \E i \in 1 .. Len(drafts) : ExecuteLate(i)
           \/ \E b \in Books : OperatorEdit(b)
           \/ UNCHANGED pipelineVars
  BY <1>4, <1>5 DEF ExecuteLate, OperatorEdit, pipelineVars
<1> QED
  BY <1>2, <1>3, <1>5 DEF PipelineNext

----------------------------------------------------------------------------
(* What WriteCall sees                                                     *)

LEMMA Verdicts == \A r \in Reviews : r.passed \in BOOLEAN
<1>1. Outcomes \subseteq [passed : BOOLEAN, revised : BOOLEAN, beaten : BOOLEAN]
  BY DEF Outcomes
<1>2. \A r \in Outcomes : r.passed \in BOOLEAN
  BY <1>1
<1>3. NoReview.passed \in BOOLEAN
  BY DEF NoReview
<1> QED
  BY <1>2, <1>3 DEF Reviews

LEMMA DraftFacts ==
  ASSUME DataInv, NEW i \in 1 .. Len(drafts)
  PROVE  /\ drafts[i].book \in Books /\ drafts[i].caller \in Callers
         /\ drafts[i].passed \in BOOLEAN
<1>1. drafts[i] \in DraftRecords
  BY DEF DataInv, Shapes
<1> QED
  BY <1>1, Verdicts DEF DraftRecords

(* A call carries the one draft it owns, or none.                          *)
LEMMA Carried ==
  ASSUME DataInv, NEW f \in Flows, flows[f].draft # 0
  PROVE  /\ flows[f].pc \in Late /\ flows[f].draft \in 1 .. Len(drafts)
         /\ DraftOf(f).book = BookOf(f) /\ DraftOf(f).caller = CallerOf(f)
         /\ DraftOf(f).chapter = flows[f].chapter
<1>1. Carries(f) /\ flows[f].pc \in Pcs
  BY DEF DataInv, OwnDrafts, Shapes, FlowRecords
<1> QED
  BY <1>1, EarlyLate DEF Carries

LEMMA KnownIsOwned ==
  ASSUME DataInv, NEW f \in Flows, flows[f].draft # 0
  PROVE  Known(flows[f].draft) <=> Owns(f)
<1>1. /\ flows[f].draft \in 1 .. Len(drafts) /\ drafts[flows[f].draft].book = BookOf(f)
      /\ drafts[flows[f].draft].chapter = flows[f].chapter
  BY Carried DEF DraftOf
<1>2. Known(flows[f].draft) => Owns(f)
  BY <1>1, KnownInPlace DEF DataInv, Owns
<1>3. Owns(f) => Known(flows[f].draft)
  BY <1>1 DEF Owns, Known, Finalized, Latest
<1> QED
  BY <1>2, <1>3

LEMMA SeenIs ==
  DataInv => \A f \in Flows :
    Seen(f) = [at |-> AtOf(flows[f].pc), chapter |-> IF Owns(f) THEN flows[f].chapter ELSE 0]
<1> SUFFICES ASSUME DataInv, NEW f \in Flows
             PROVE  Seen(f) = [at |-> AtOf(flows[f].pc),
                               chapter |-> IF Owns(f) THEN flows[f].chapter ELSE 0]
  OBVIOUS
<1>1. (flows[f].draft # 0 /\ Known(flows[f].draft)) <=> Owns(f)
  BY KnownIsOwned DEF Owns
<1> QED
  BY <1>1 DEF Seen, AtOf

LEMMA SeenNow ==
  ASSUME DataInv, DataInv'
  PROVE  \A f \in Flows :
           /\ AllCalls[f] = [at |-> AtOf(flows[f].pc),
                             chapter |-> IF Owns(f) THEN flows[f].chapter ELSE 0]
           /\ AllCalls'[f] = [at |-> AtOf(flows'[f].pc),
                              chapter |-> IF Owns(f)' THEN flows'[f].chapter ELSE 0]
<1>1. (DataInv => \A f \in Flows :
        Seen(f) = [at |-> AtOf(flows[f].pc),
                   chapter |-> IF Owns(f) THEN flows[f].chapter ELSE 0])'
  BY SeenIs, PTL
<1> QED
  BY <1>1, SeenIs DEF AllCalls

----------------------------------------------------------------------------
(* Steps of WriteCall, in these terms                                      *)

LEMMA OneCall ==
  ASSUME NEW f \in Flows, NEW r, AllCalls'[f] = r,
         \A g \in Flows : g # f => AllCalls'[g] = AllCalls[g]
  PROVE  AllCalls' = [AllCalls EXCEPT ![f] = r]
  BY DEF AllCalls

LEMMA NoCall ==
  ASSUME \A g \in Flows : AllCalls'[g] = AllCalls[g]
  PROVE  AllCalls' = AllCalls
  BY DEF AllCalls

Grown(b, caller, passed) ==
  AllChapters' = [AllChapters EXCEPT ![b] = Append(@, [caller |-> caller, passed |-> passed])]

LEMMA IsAsk ==
  ASSUME NEW f \in Flows, AllCalls[f].at \in {"idle", "done", "failed"},
         AllCalls' = [AllCalls EXCEPT ![f] = [at |-> "asked", chapter |-> 0]],
         AllChapters' = AllChapters
  PROVE  Call!CallNext
<1>1. Call!Ask(f)
  BY DEF Call!Ask, AllCalls, AllChapters
<1> QED
  BY <1>1 DEF Call!CallNext, Call!Flows, Flows

LEMMA IsEnter ==
  ASSUME NEW f \in Flows, AllCalls[f] = [at |-> "asked", chapter |-> 0],
         NEW at, at = IF \E c \in Callers : AllCalls[<<BookOf(f), c>>].at = "writing"
                      THEN "failed" ELSE "writing",
         AllCalls' = [AllCalls EXCEPT ![f] = [at |-> at, chapter |-> 0]],
         AllChapters' = AllChapters
  PROVE  Call!CallNext
<1>1. [AllCalls[f] EXCEPT !.at = at] = [at |-> at, chapter |-> 0]
  OBVIOUS
<1>2. AllCalls' = [AllCalls EXCEPT ![f].at = at]
  BY <1>1 DEF AllCalls
<1>3. Call!Enter(f)
  BY <1>2 DEF Call!Enter, Call!Busy, Call!BookOf, BookOf, AllCalls, AllChapters
<1> QED
  BY <1>3 DEF Call!CallNext, Call!Ends, Call!Flows, Flows

LEMMA IsFail ==
  ASSUME NEW f \in Flows, AllCalls[f].at = "writing",
         AllCalls' = [AllCalls EXCEPT ![f] = [at |-> "failed", chapter |-> 0]],
         \/ AllChapters' = AllChapters
         \/ AllCalls[f].chapter = 0 /\ \E p \in BOOLEAN : Grown(BookOf(f), CallerOf(f), p)
  PROVE  Call!CallNext
<1>1. Call!Fail(f)
  BY DEF Call!Fail, Call!Grow, Call!OwnText, Call!BookOf, Call!CallerOf, BookOf, CallerOf, Grown,
         AllCalls, AllChapters
<1> QED
  BY <1>1 DEF Call!CallNext, Call!Ends, Call!Flows, Flows

LEMMA IsSucceed ==
  ASSUME NEW f \in Flows, NEW n \in Nat \ {0}, NEW p \in BOOLEAN,
         AllCalls' = [AllCalls EXCEPT ![f] = [at |-> "done", chapter |-> n]],
         \/ AllCalls[f] = [at |-> "writing", chapter |-> n] /\ AllChapters' = AllChapters
         \/ /\ AllCalls[f] = [at |-> "writing", chapter |-> 0]
            /\ Grown(BookOf(f), CallerOf(f), p) /\ n = Len(AllChapters[BookOf(f)]) + 1
  PROVE  Call!CallNext
<1>1. CASE AllCalls[f] = [at |-> "writing", chapter |-> n] /\ AllChapters' = AllChapters
  <2>1. [AllCalls[f] EXCEPT !.at = "done"] = [at |-> "done", chapter |-> n]
    BY <1>1
  <2>2. AllCalls' = [AllCalls EXCEPT ![f].at = "done"]
    BY <2>1 DEF AllCalls
  <2>3. Call!Succeed(f, p)
    BY <1>1, <2>2 DEF Call!Succeed, AllCalls, AllChapters
  <2> QED
    BY <2>3 DEF Call!CallNext, Call!Ends, Call!Flows, Flows
<1>2. CASE /\ AllCalls[f] = [at |-> "writing", chapter |-> 0]
           /\ Grown(BookOf(f), CallerOf(f), p) /\ n = Len(AllChapters[BookOf(f)]) + 1
  <2>1. Call!Succeed(f, p)
    BY <1>2 DEF Call!Succeed, Call!Grow, Call!OwnText, Call!BookOf, Call!CallerOf, BookOf,
       CallerOf, Grown, AllCalls, AllChapters
  <2> QED
    BY <2>1 DEF Call!CallNext, Call!Ends, Call!Flows, Flows
<1> QED
  BY <1>1, <1>2

LEMMA IsPublish ==
  ASSUME NEW f \in Flows, NEW n \in Nat \ {0}, NEW p \in BOOLEAN,
         AllCalls[f] = [at |-> "writing", chapter |-> 0],
         AllCalls' = [AllCalls EXCEPT ![f] = [at |-> "writing", chapter |-> n]],
         Grown(BookOf(f), CallerOf(f), p), n = Len(AllChapters[BookOf(f)]) + 1
  PROVE  Call!CallNext
<1>1. [AllCalls[f] EXCEPT !.chapter = n] = [at |-> "writing", chapter |-> n]
  OBVIOUS
<1>2. AllCalls' = [AllCalls EXCEPT ![f].chapter = n]
  BY <1>1 DEF AllCalls
<1>3. Call!Publish(f, p)
  BY <1>2 DEF Call!Publish, Call!Grow, Call!OwnText, Call!BookOf, Call!CallerOf, BookOf,
     CallerOf, Grown, AllCalls, AllChapters
<1> QED
  BY <1>3 DEF Call!CallNext, Call!Flows, Flows

LEMMA IsSurface ==
  ASSUME NEW b \in Books, NEW caller \in Callers, NEW p \in BOOLEAN,
         AllCalls' = AllCalls, Grown(b, caller, p)
  PROVE  Call!CallNext
<1>1. Call!Surface(b, [caller |-> caller, passed |-> p])
  BY DEF Call!Surface, Call!Grow, Grown, AllCalls, AllChapters
<1>2. [caller |-> caller, passed |-> p] \in Call!Texts
  BY DEF Call!Texts
<1> QED
  BY <1>1, <1>2 DEF Call!CallNext

----------------------------------------------------------------------------
(* Steps of ChapterPipeline                                                *)

Stays == AllChapters' = AllChapters /\ AllCalls' = AllCalls

TextsKept ==
  \A i \in 1 .. Len(drafts) : /\ drafts'[i].caller = drafts[i].caller
                              /\ drafts'[i].passed = drafts[i].passed

LEMMA ChaptersStay ==
  ASSUME DataInv, UNCHANGED books, TextsKept
  PROVE  AllChapters' = AllChapters
<1> SUFFICES ASSUME NEW b \in Books PROVE Chapters(b)' = Chapters(b)
  BY DEF AllChapters
<1>1. \A n \in 1 .. Len(books[b].chapters) : books[b].chapters[n] \in 1 .. Len(drafts)
  BY DEF DataInv, InPlace
<1> QED
  BY <1>1 DEF Chapters, Latest, TextsKept

(* Steps a caller does not see: a draft is nobody's chapter yet.           *)
LEMMA QuietStep ==
  ASSUME DataInv, DataInv', UNCHANGED books, TextsKept,
         \A g \in Flows :
           /\ AtOf(flows'[g].pc) = AtOf(flows[g].pc)
           /\ \/ flows'[g].draft = flows[g].draft /\ flows'[g].chapter = flows[g].chapter
              \/ flows[g].draft = 0 /\ flows'[g].draft \notin 1 .. Len(drafts)
  PROVE  Stays
<1>1. AllChapters' = AllChapters
  BY ChaptersStay
<1>2. ASSUME NEW g \in Flows
      PROVE  AllCalls'[g] = AllCalls[g]
  <2>1. CASE flows'[g].draft = flows[g].draft /\ flows'[g].chapter = flows[g].chapter
    <3>1. Owns(g)' <=> Owns(g)
      BY <2>1 DEF Owns
    <3> QED
      BY <2>1, <3>1, SeenNow
  <2>2. CASE flows[g].draft = 0 /\ flows'[g].draft \notin 1 .. Len(drafts)
    <3>1. ~Owns(g)
      BY <2>2 DEF Owns
    <3>2. BookOf(g) \in Books
      BY FlowPairs
    <3>3. ~Owns(g)'
      BY <2>2, <3>2 DEF DataInv, InPlace, Owns
    <3> QED
      BY <3>1, <3>3, SeenNow
  <2> QED
    BY <2>1, <2>2
<1> QED
  BY <1>1, <1>2, NoCall DEF Stays

LEMMA AppendIs ==
  ASSUME NEW S, NEW l \in Nat, NEW s \in [1 .. l -> S], NEW e \in S
  PROVE  /\ Len(s) = l
         /\ Append(s, e) = [n \in 1 .. l + 1 |-> IF n = l + 1 THEN e ELSE s[n]]
<1>1. s \in Seq(S)
  BY SeqDef
<1>2. Len(s) = l
  BY <1>1, LenProperties
<1>3. /\ Append(s, e) \in Seq(S) /\ Len(Append(s, e)) = l + 1 /\ Append(s, e)[l + 1] = e
      /\ \A n \in 1 .. l : Append(s, e)[n] = s[n]
  BY <1>1, <1>2, AppendProperties
<1>4. Append(s, e) \in [1 .. l + 1 -> S]
  BY <1>3, LenProperties
<1>5. \A n \in 1 .. l + 1 : n # l + 1 => n \in 1 .. l
  OBVIOUS
<1> HIDE <1>1
<1> QED
  BY <1>2, <1>3, <1>4, <1>5

TextRecords == [caller : Callers, passed : BOOLEAN]
TextOf(i) == [caller |-> drafts[i].caller, passed |-> drafts[i].passed]

LEMMA ChaptersAre ==
  ASSUME DataInv, NEW b \in Books
  PROVE  /\ Chapters(b) = [n \in 1 .. Len(books[b].chapters) |-> TextOf(books[b].chapters[n])]
         /\ Chapters(b) \in [1 .. Len(books[b].chapters) -> TextRecords]
<1>1. \A n \in 1 .. Len(books[b].chapters) : TextOf(books[b].chapters[n]) \in TextRecords
  BY DraftFacts DEF DataInv, InPlace, TextOf, TextRecords
<1>2. Chapters(b) = [n \in 1 .. Len(books[b].chapters) |-> TextOf(books[b].chapters[n])]
  BY DEF Chapters, Latest, TextOf
<1> QED
  BY <1>1, <1>2

(* The draft i has just become a chapter of its book.                      *)
Appears(i) ==
  /\ ~Known(i)
  /\ Grown(drafts[i].book, drafts[i].caller, drafts[i].passed)
  /\ drafts[i].chapter = Len(AllChapters[drafts[i].book]) + 1
  /\ drafts[i].chapter \in Nat \ {0}
  /\ \A g \in Flows :
       flows'[g].draft = flows[g].draft /\ flows'[g].chapter = flows[g].chapter =>
         (Owns(g)' <=> Owns(g) \/ flows[g].draft = i)

LEMMA CommitAppears ==
  ASSUME DataInv, DataInv', NEW i \in 1 .. Len(drafts), books' = Publish(i), drafts' = drafts,
         ~Known(i), Acceptable(drafts[i])
  PROVE  Appears(i)
<1> PICK b \in Books : b = drafts[i].book
  BY DraftFacts
<1>0. /\ books \in [Books -> [revision : Nat, chapters : Seq(Nat)]]
      /\ books[b].chapters \in Seq(Nat) /\ i \in Nat
  BY DEF DataInv, Shapes
<1> PICK l \in Nat : l = Len(books[b].chapters)
  BY <1>0
<1>c. l \in Nat /\ \A n \in 1 .. l + 1 : n \in 1 .. l \/ n = l + 1
  OBVIOUS
<1>1. /\ b \in Books /\ books \in [Books -> [revision : Nat, chapters : Seq(Nat)]]
      /\ books[b].chapters \in Seq(Nat) /\ l \in Nat /\ i \in Nat
  BY <1>0
<1>2. books' = [books EXCEPT ![b] = [revision |-> @.revision + 1,
                                    chapters |-> Append(@.chapters, i)]]
  BY DEF Publish
<1>3. /\ books'[b].chapters = Append(books[b].chapters, i)
      /\ \A c \in Books : c # b => books'[c] = books[c]
  BY <1>1, <1>2
<1>4. drafts[i].chapter = l + 1
  BY DEF Acceptable, Latest
<1>5. /\ Len(books'[b].chapters) = l + 1 /\ books'[b].chapters[l + 1] = i
      /\ \A n \in 1 .. l : books'[b].chapters[n] = books[b].chapters[n]
  BY <1>1, <1>3, AppendFacts
<1>6. /\ Grown(b, drafts[i].caller, drafts[i].passed)
      /\ Len(AllChapters[b]) = l
  <2> DEFINE then == [n \in 1 .. l + 1 |-> IF n = l + 1 THEN TextOf(i) ELSE Chapters(b)[n]]
  <2>1. /\ Chapters(b) = [n \in 1 .. l |-> TextOf(books[b].chapters[n])]
        /\ Chapters(b) \in [1 .. l -> TextRecords] /\ TextOf(i) \in TextRecords
    BY <1>1, ChaptersAre, DraftFacts DEF TextOf, TextRecords
  <2>2. Append(Chapters(b), TextOf(i)) = then /\ Len(Chapters(b)) = l
    <3>1. \A s \in [1 .. l -> TextRecords], e \in TextRecords :
            /\ Len(s) = l
            /\ Append(s, e) = [n \in 1 .. l + 1 |-> IF n = l + 1 THEN e ELSE s[n]]
      BY <1>c, AppendIs
    <3> QED
      BY <2>1, <3>1
  <2>3. Chapters(b)' = [n \in 1 .. l + 1 |-> TextOf(books'[b].chapters[n])]
    BY <1>5 DEF Chapters, Latest, TextOf
  <2>4. \A n \in 1 .. l + 1 : TextOf(books'[b].chapters[n]) = then[n]
    <3> SUFFICES ASSUME NEW n \in 1 .. l + 1 PROVE TextOf(books'[b].chapters[n]) = then[n]
      OBVIOUS
    <3>1. CASE n = l + 1
      BY <3>1, <1>5
    <3>2. CASE n # l + 1
      <4>1. n \in 1 .. l
        BY <3>2
      <4>2. books'[b].chapters[n] = books[b].chapters[n]
        BY <4>1, <1>5
      <4>3. Chapters(b)[n] = TextOf(books[b].chapters[n])
        BY <4>1, <2>1
      <4> QED
        BY <4>2, <4>3, <3>2
    <3> QED
      BY <3>1, <3>2
  <2>5. Chapters(b)' = then
    BY <2>3, <2>4
  <2>6. \A c \in Books : c # b => Chapters(c)' = Chapters(c)
    BY <1>3 DEF Chapters, Latest
  <2> HIDE DEF then
  <2>7. AllChapters[b] = Chapters(b) /\ AllChapters = [c \in Books |-> Chapters(c)]
        /\ AllChapters' = [c \in Books |-> Chapters(c)']
    BY <1>1 DEF AllChapters
  <2>8. Chapters(b)' = Append(AllChapters[b], TextOf(i))
    BY <2>2, <2>5, <2>7
  <2>9. AllChapters' = [AllChapters EXCEPT ![b] = Append(@, TextOf(i))]
    BY <2>6, <2>7, <2>8
  <2> QED
    BY <2>2, <2>7, <2>9 DEF Grown, TextOf
<1>8. ASSUME NEW g \in Flows, flows'[g].draft = flows[g].draft,
             flows'[g].chapter = flows[g].chapter
      PROVE  Owns(g)' <=> Owns(g) \/ flows[g].draft = i
  <2>1. CASE BookOf(g) # b
    <3>1. BookOf(g) \in Books /\ books'[BookOf(g)] = books[BookOf(g)]
      BY <2>1, <1>3, FlowPairs
    <3>2. flows[g].draft # i
      BY <2>1, Carried DEF DraftOf
    <3> QED
      BY <3>1, <3>2, <1>8 DEF Owns
  <2>2. CASE BookOf(g) = b
    <3>1. flows[g].draft = i => flows[g].chapter = l + 1
      BY <1>4, Carried DEF DraftOf
    <3>2. flows[g].draft = i => flows[g].draft # 0
      BY <1>1
    <3>4. 1 .. l \subseteq 1 .. l + 1 /\ l + 1 \in 1 .. l + 1
      BY <1>1
    <3>5. /\ Owns(g) <=> /\ flows[g].draft # 0 /\ flows[g].chapter \in 1 .. l
                         /\ books[b].chapters[flows[g].chapter] = flows[g].draft
          /\ Owns(g)' <=> /\ flows[g].draft # 0 /\ flows[g].chapter \in 1 .. l + 1
                          /\ books'[b].chapters[flows[g].chapter] = flows[g].draft
      BY <2>2, <1>5, <1>8 DEF Owns
    <3> QED
      BY <3>1, <3>2, <1>c, <3>4, <3>5, <1>5
  <2> QED
    BY <2>1, <2>2
<1>9. drafts[i].chapter \in Nat \ {0}
  BY <1>1, <1>4
<1> QED
  BY <1>4, <1>6, <1>8, <1>9 DEF Appears

LEMMA Ownership ==
  ASSUME DataInv, NEW f \in Flows, NEW g \in Flows, g # f, flows[f].draft # 0
  PROVE  flows[g].draft # flows[f].draft
  BY DEF DataInv, OwnDrafts

LEMMA SeenSame ==
  ASSUME DataInv, DataInv', NEW g \in Flows, flows'[g].pc = flows[g].pc,
         flows'[g].chapter = flows[g].chapter, Owns(g)' <=> Owns(g)
  PROVE  AllCalls'[g] = AllCalls[g]
<1>1. /\ AllCalls[g] = [at |-> AtOf(flows[g].pc),
                        chapter |-> IF Owns(g) THEN flows[g].chapter ELSE 0]
      /\ AllCalls'[g] = [at |-> AtOf(flows'[g].pc),
                         chapter |-> IF Owns(g)' THEN flows'[g].chapter ELSE 0]
  BY SeenNow
<1> QED
  BY <1>1

LEMMA SeenAt ==
  ASSUME DataInv, NEW f \in Flows
  PROVE  AllCalls[f].at = AtOf(flows[f].pc)
<1>1. AllCalls[f] = [at |-> AtOf(flows[f].pc),
                     chapter |-> IF Owns(f) THEN flows[f].chapter ELSE 0]
  BY SeenIs DEF AllCalls
<1> QED
  BY <1>1

LEMMA WritingSeen ==
  /\ \A pc \in Writing : AtOf(pc) = "writing"
  /\ \A pc \in {"done", "failed", "idle"} : AtOf(pc) = pc
  /\ AtOf("locking") = "asked"
  BY DEF Writing, AtOf

(* A call throws; the draft it carries may have become a chapter.          *)
LEMMA FailStep ==
  ASSUME DataInv, DataInv', NEW f \in Flows, flows[f].pc \in Writing, Returns(f, "failed"),
         drafts' = drafts,
         books' = books \/ (flows[f].draft # 0 /\ books' = Publish(flows[f].draft))
  PROVE  Call!CallNext
<1>1. /\ flows \in [Flows -> FlowRecords] /\ flows'[f] = [NoFlow EXCEPT !.pc = "failed"]
      /\ \A g \in Flows : g # f => flows'[g] = flows[g]
  BY DEF DataInv, Shapes, Returns
<1>2. flows'[f].pc = "failed" /\ flows'[f].draft = 0 /\ "failed" \in Pcs
  BY <1>1, NoFlowShape DEF Pcs
<1>3. /\ AllCalls[f].at = "writing" /\ (~Owns(f) => AllCalls[f].chapter = 0)
      /\ AllCalls'[f] = [at |-> "failed", chapter |-> 0]
  <2>1. ~Owns(f)'
    BY <1>2 DEF Owns
  <2>2. /\ AllCalls[f] = [at |-> AtOf(flows[f].pc),
                          chapter |-> IF Owns(f) THEN flows[f].chapter ELSE 0]
        /\ AllCalls'[f] = [at |-> AtOf(flows'[f].pc),
                           chapter |-> IF Owns(f)' THEN flows'[f].chapter ELSE 0]
    BY SeenNow
  <2>3. AtOf(flows[f].pc) = "writing" /\ AtOf("failed") = "failed"
    BY WritingSeen
  <2> QED
    BY <2>1, <2>2, <2>3, <1>2
<1>4. ASSUME \A g \in Flows : g # f => (Owns(g)' <=> Owns(g)),
             \/ AllChapters' = AllChapters
             \/ ~Owns(f) /\ \E p \in BOOLEAN : Grown(BookOf(f), CallerOf(f), p)
      PROVE  Call!CallNext
  <2>1. \A g \in Flows : g # f => AllCalls'[g] = AllCalls[g]
    BY <1>1, <1>4, SeenSame
  <2>2. AllCalls' = [AllCalls EXCEPT ![f] = [at |-> "failed", chapter |-> 0]]
    BY <1>3, <2>1, OneCall
  <2> QED
    BY <1>3, <1>4, <2>2, IsFail
<1>5. CASE books' = books
  <2>1. AllChapters' = AllChapters
    BY <1>5, ChaptersStay DEF TextsKept
  <2>2. \A g \in Flows : g # f => (Owns(g)' <=> Owns(g))
    BY <1>1, <1>5 DEF Owns
  <2> QED
    BY <2>1, <2>2, <1>4
<1>6. CASE flows[f].draft # 0 /\ books' = Publish(flows[f].draft) /\ books' # books
  <2>1. /\ flows[f].draft \in 1 .. Len(drafts) /\ drafts[flows[f].draft].book = BookOf(f)
        /\ drafts[flows[f].draft].caller = CallerOf(f)
    BY <1>6, Carried DEF DraftOf
  <2>2. ~Known(flows[f].draft) /\ Acceptable(drafts[flows[f].draft])
    BY <1>6 DEF Publish
  <2>3. Appears(flows[f].draft)
    BY <1>6, <2>1, <2>2, CommitAppears
  <2>4. \A g \in Flows : g # f => (Owns(g)' <=> Owns(g))
    BY <1>1, <1>6, <2>3, Ownership DEF Appears
  <2>5. ~Owns(f)
    BY <1>6, <2>2, KnownIsOwned
  <2>6. \E p \in BOOLEAN : Grown(BookOf(f), CallerOf(f), p)
    BY <2>1, <2>3, DraftFacts DEF Appears
  <2> QED
    BY <2>4, <2>5, <2>6, <1>4
<1> QED
  BY <1>5, <1>6

(* The Runtime executes a commit while its caller waits for another answer,*)
(* or has stopped waiting.                                                 *)
LEMMA PublishStep ==
  ASSUME DataInv, DataInv', NEW i \in 1 .. Len(drafts), books' = Publish(i), drafts' = drafts,
         \A g \in Flows : /\ flows'[g].pc = flows[g].pc /\ flows'[g].draft = flows[g].draft
                          /\ flows'[g].chapter = flows[g].chapter
  PROVE  Call!CallNext \/ Stays
<1>1. CASE Known(i) \/ ~Acceptable(drafts[i])
  <2>1. books' = books
    BY <1>1 DEF Publish
  <2> QED
    BY <2>1, QuietStep DEF TextsKept
<1>2. CASE ~Known(i) /\ Acceptable(drafts[i])
  <2>1. Appears(i)
    BY <1>2, CommitAppears
  <2>2. ASSUME NEW g \in Flows, flows[g].draft # i
        PROVE  AllCalls'[g] = AllCalls[g]
    BY <2>1, <2>2, SeenSame DEF Appears
  <2>3. CASE \E f \in Flows : flows[f].draft = i
    <3> PICK f \in Flows : flows[f].draft = i
      BY <2>3
    <3>1. /\ flows[f].pc \in Late /\ drafts[i].book = BookOf(f)
          /\ drafts[i].caller = CallerOf(f) /\ drafts[i].chapter = flows[f].chapter
      BY Carried DEF DraftOf
    <3>2. ~Owns(f)
      BY <1>2, KnownIsOwned
    <3>3. flows[f].pc # "done"
      BY <3>2 DEF DataInv, ReportedMeansFinalized, At, Latest, Owns
    <3>4. flows[f].pc \in Writing
      BY <3>1, <3>3 DEF Late, Writing
    <3>5. Owns(f)'
      BY <2>1 DEF Appears
    <3>6. /\ AllCalls[f] = [at |-> "writing", chapter |-> 0]
          /\ AllCalls'[f] = [at |-> "writing", chapter |-> drafts[i].chapter]
      BY <3>1, <3>2, <3>4, <3>5, SeenNow, WritingSeen
    <3>7. \A g \in Flows : g # f => AllCalls'[g] = AllCalls[g]
      BY <2>2, Ownership
    <3>8. AllCalls' = [AllCalls EXCEPT ![f] = [at |-> "writing", chapter |-> drafts[i].chapter]]
      BY <3>6, <3>7, OneCall
    <3>9. drafts[i].passed \in BOOLEAN
      BY DraftFacts
    <3> QED
      BY <2>1, <3>1, <3>6, <3>8, <3>9, IsPublish DEF Appears
  <2>4. CASE ~\E f \in Flows : flows[f].draft = i
    <3>1. AllCalls' = AllCalls
      BY <2>2, <2>4, NoCall
    <3> QED
      BY <2>1, <3>1, DraftFacts, IsSurface DEF Appears
  <2> QED
    BY <2>3, <2>4
<1> QED
  BY <1>1, <1>2

LEMMA CommitStep ==
  ASSUME DataInv, DataInv', NEW f \in Flows, CommitChapter(f)
  PROVE  Call!CallNext
<1> DEFINE i == flows[f].draft
<1>1. /\ flows[f] \in FlowRecords /\ flows \in [Flows -> FlowRecords]
      /\ flows[f].pc = "committing" /\ "committing" \in Late /\ drafts' = drafts
      /\ books' = Publish(i) /\ flows[f].pc \in Writing
  BY DEF DataInv, Shapes, CommitChapter, At, Late, Writing
<1>2. i # 0 /\ i \in 1 .. Len(drafts)
  BY <1>1 DEF DataInv, OwnDrafts, Carries
<1>3. /\ drafts[i].book = BookOf(f) /\ drafts[i].caller = CallerOf(f)
      /\ drafts[i].chapter = flows[f].chapter
  BY <1>2, Carried DEF DraftOf
<1>4. CASE ~CommitSucceeds(f)
  BY <1>1, <1>2, <1>4, FailStep DEF CommitChapter
<1>5. CASE CommitSucceeds(f)
  <2> DEFINE new == [flows[f] EXCEPT !.pc = "done"]
  <2>1. new.pc = "done" /\ new.draft = i /\ new.chapter = flows[f].chapter
    BY <1>1 DEF FlowRecords
  <2>2. flows' = [flows EXCEPT ![f] = new]
    BY <1>1, <1>5 DEF CommitChapter, Returns
  <2> HIDE DEF new
  <2>3. /\ flows'[f].pc = "done" /\ flows'[f].draft = i
        /\ flows'[f].chapter = flows[f].chapter
        /\ \A g \in Flows : g # f => flows'[g] = flows[g]
    BY <1>1, <2>1, <2>2
  <2>4. flows[f].chapter \in Nat /\ drafts[i].passed \in BOOLEAN
    BY <1>1, <1>2, DraftFacts DEF FlowRecords
  <2>5. ASSUME \A g \in Flows : g # f => (Owns(g)' <=> Owns(g)), Owns(f)'
        PROVE  AllCalls' = [AllCalls EXCEPT ![f] = [at |-> "done", chapter |-> flows[f].chapter]]
    <3>1. \A g \in Flows : g # f => AllCalls'[g] = AllCalls[g]
      BY <2>3, <2>5, SeenNow
    <3>2. AllCalls'[f] = [at |-> "done", chapter |-> flows[f].chapter]
      BY <2>3, <2>5, SeenNow, WritingSeen
    <3> QED
      BY <3>1, <3>2, OneCall
  <2>6. CASE Known(i)
    <3>1. books' = books /\ Owns(f)
      BY <1>1, <1>2, <2>6, KnownIsOwned DEF Publish
    <3>2. Owns(f)' /\ \A g \in Flows : g # f => (Owns(g)' <=> Owns(g))
      BY <2>3, <3>1 DEF Owns
    <3>3. AllChapters' = AllChapters
      BY <1>1, <3>1, ChaptersStay DEF TextsKept
    <3>4. AllCalls[f] = [at |-> "writing", chapter |-> flows[f].chapter]
      BY <1>1, <3>1, SeenNow, WritingSeen
    <3>5. flows[f].chapter # 0
      BY <2>4, <3>1 DEF Owns
    <3> QED
      BY <2>4, <2>5, <3>2, <3>3, <3>4, <3>5, IsSucceed
  <2>7. CASE ~Known(i)
    <3>1. Appears(i)
      BY <1>1, <1>2, <1>5, <2>7, CommitAppears DEF CommitSucceeds, DraftOf
    <3>2. ~Owns(f)
      BY <1>2, <2>7, KnownIsOwned
    <3>3. Owns(f)' /\ \A g \in Flows : g # f => (Owns(g)' <=> Owns(g))
      BY <1>2, <2>3, <3>1, Ownership DEF Appears
    <3>4. AllCalls[f] = [at |-> "writing", chapter |-> 0]
      BY <1>1, <3>2, SeenNow, WritingSeen
    <3> QED
      BY <1>3, <2>4, <2>5, <3>1, <3>3, <3>4, IsSucceed DEF Appears
  <2> QED
    BY <2>6, <2>7
<1> QED
  BY <1>4, <1>5

(* The lock is free exactly when no call for the book is writing.          *)
LEMMA BusyIsLocked ==
  ASSUME DataInv, DataInv', LockInv, NEW b \in Books
  PROVE  (\E c \in Callers : AllCalls[<<b, c>>].at = "writing") <=> ~IsFree(b)
<1>1. ASSUME NEW c \in Callers
      PROVE  AllCalls[<<b, c>>].at = "writing" <=> lock[b] = c
  <2> DEFINE f == <<b, c>>
  <2>1. f \in Flows /\ BookOf(f) = b /\ CallerOf(f) = c
    BY DEF Flows, BookOf, CallerOf
  <2> HIDE DEF f
  <2>2. flows[f].pc \in Pcs /\ (flows[f].pc \in Writing <=> lock[b] = c)
    BY <2>1 DEF DataInv, Shapes, FlowRecords, LockInv
  <2>3. AllCalls[f].at = AtOf(flows[f].pc)
    BY <2>1, SeenAt
  <2>4. \A pc \in Pcs : AtOf(pc) = "writing" <=> pc \in Writing
    BY DEF AtOf, Writing, Pcs
  <2> QED
    BY <2>2, <2>3, <2>4 DEF f
<1>2. lock[b] \in Callers \cup {Nobody} /\ Nobody \notin Callers
  BY DEF LockInv
<1> QED
  BY <1>1, <1>2 DEF IsFree

LEMMA TakeStep ==
  ASSUME DataInv, DataInv', LockInv, NEW f \in Flows, TakeLock(f)
  PROVE  Call!CallNext
<1> DEFINE pc == IF IsFree(BookOf(f)) THEN "reading" ELSE "failed"
<1>1. /\ Goes(f, pc) /\ flows[f].pc = "locking" /\ UNCHANGED <<books, drafts>>
      /\ flows \in [Flows -> FlowRecords] /\ flows[f] \in FlowRecords /\ BookOf(f) \in Books
  BY FlowPairs DEF TakeLock, At, DataInv, Shapes
<1>2. /\ flows'[f].pc = pc /\ flows'[f].draft = flows[f].draft
      /\ \A g \in Flows : g # f => flows'[g] = flows[g]
  <2> HIDE DEF pc
  <2> QED
    BY <1>1 DEF Goes, FlowRecords
<1>3. flows[f].draft = 0
  BY <1>1 DEF DataInv, OwnDrafts, Carries, Early
<1>4. ~Owns(f) /\ ~Owns(f)'
  BY <1>2, <1>3 DEF Owns
<1>5. \A g \in Flows : g # f => AllCalls'[g] = AllCalls[g]
  <2> SUFFICES ASSUME NEW g \in Flows, g # f PROVE AllCalls'[g] = AllCalls[g]
    OBVIOUS
  <2>1. Owns(g)' <=> Owns(g)
    BY <1>1, <1>2 DEF Owns
  <2> QED
    BY <2>1, <1>2, SeenSame
<1>6. AllCalls[f] = [at |-> "asked", chapter |-> 0]
  BY <1>1, <1>4, SeenNow, WritingSeen
<1>7. AllCalls'[f] = [at |-> AtOf(pc), chapter |-> 0]
  BY <1>2, <1>4, SeenNow
<1>8. AtOf(pc) = IF \E c \in Callers : AllCalls[<<BookOf(f), c>>].at = "writing"
                 THEN "failed" ELSE "writing"
  <2>1. AtOf("reading") = "writing" /\ AtOf("failed") = "failed"
    BY DEF AtOf
  <2> QED
    BY <2>1, <1>1, BusyIsLocked
<1>9. AllChapters' = AllChapters
  BY <1>1, ChaptersStay DEF TextsKept
<1> HIDE DEF pc
<1>10. AllCalls' = [AllCalls EXCEPT ![f] = [at |-> AtOf(pc), chapter |-> 0]]
  BY <1>5, <1>7, OneCall
<1> QED
  BY <1>6, <1>8, <1>9, <1>10, IsEnter

LEMMA AskStep ==
  ASSUME DataInv, DataInv', NEW f \in Flows, InteractiveCall(f)
  PROVE  Call!CallNext
<1>1. /\ flows'[f] = [NoFlow EXCEPT !.pc = "locking"] /\ UNCHANGED <<books, drafts>>
      /\ flows[f].pc \in {"idle", "done", "failed"}
      /\ \A g \in Flows : g # f => flows'[g] = flows[g]
  BY DEF InteractiveCall, Begin, DataInv, Shapes
<1>2. flows'[f].pc = "locking" /\ flows'[f].draft = 0
  <2>1. "locking" \in Pcs
    BY DEF Pcs
  <2> QED
    BY <2>1, <1>1, NoFlowShape
<1>3. ~Owns(f)'
  BY <1>2 DEF Owns
<1>4. AllCalls'[f] = [at |-> "asked", chapter |-> 0]
  BY <1>2, <1>3, SeenNow, WritingSeen
<1>5. AllCalls[f].at \in {"idle", "done", "failed"}
  <2>1. AllCalls[f].at = AtOf(flows[f].pc)
    BY SeenAt
  <2> QED
    BY <2>1, <1>1, WritingSeen
<1>6. \A g \in Flows : g # f => AllCalls'[g] = AllCalls[g]
  <2> SUFFICES ASSUME NEW g \in Flows, g # f PROVE AllCalls'[g] = AllCalls[g]
    OBVIOUS
  <2>1. Owns(g)' <=> Owns(g)
    BY <1>1 DEF Owns
  <2> QED
    BY <2>1, <1>1, SeenSame
<1>7. AllCalls' = [AllCalls EXCEPT ![f] = [at |-> "asked", chapter |-> 0]]
  BY <1>4, <1>6, OneCall
<1>8. AllChapters' = AllChapters
  BY <1>1, ChaptersStay DEF TextsKept
<1> QED
  BY <1>5, <1>7, <1>8, IsAsk

(* A call that goes on with its draft, or gets it now, is seen to write.   *)
LEMMA ProceedStep ==
  ASSUME DataInv, DataInv', NEW f \in Flows, Proceeds(f), UNCHANGED books, TextsKept,
         \/ flows'[f].draft = flows[f].draft /\ flows'[f].chapter = flows[f].chapter
         \/ flows[f].draft = 0 /\ flows'[f].draft \notin 1 .. Len(drafts)
  PROVE  Stays
<1>1. PICK new \in FlowRecords : new.pc \in Writing /\ flows' = [flows EXCEPT ![f] = new]
  BY DEF Proceeds
<1>2. /\ flows'[f] = new /\ flows[f].pc \in Writing
      /\ \A g \in Flows : g # f => flows'[g] = flows[g]
  BY <1>1 DEF Proceeds, DataInv, Shapes
<1>3. \A g \in Flows : AtOf(flows'[g].pc) = AtOf(flows[g].pc)
  BY <1>1, <1>2, WritingSeen
<1> QED
  BY <1>2, <1>3, QuietStep

LEMMA QuietReaders ==
  ASSUME DataInv, DataInv', NEW f \in Flows, Proceeds(f),
         \/ ReadStatus(f) \/ AssembleContext(f) \/ \E r \in Outcomes : WriteDraft(f, r)
         \/ WriteFails(f) \/ ValidateRevision(f) \/ BindPersistence(f) \/ ValidateReviews(f)
         \/ Prepare(f) \/ Validate(f) \/ RequestFails(f)
  PROVE  Stays
<1>1. /\ flows \in [Flows -> FlowRecords] /\ flows[f] \in FlowRecords
      /\ drafts \in Seq(DraftRecords) /\ Carries(f)
  BY DEF DataInv, Shapes, OwnDrafts
<1>2. ASSUME NEW pc, Goes(f, pc)
      PROVE  flows'[f].draft = flows[f].draft /\ flows'[f].chapter = flows[f].chapter
  BY <1>1, <1>2 DEF Goes, FlowRecords
<1>3. ASSUME NEW pc \in {"done", "failed"}, Returns(f, pc)
      PROVE  FALSE
  <2>1. flows'[f].pc = pc
    <3>1. [NoFlow EXCEPT !.pc = pc].pc = pc /\ [flows[f] EXCEPT !.pc = pc].pc = pc
      BY <1>1 DEF NoFlow, FlowRecords
    <3> QED
      BY <3>1, <1>1, <1>3 DEF Returns
  <2> QED
    BY <2>1, <1>1 DEF Proceeds, Writing
<1>4. CASE ReadStatus(f)
  <2>1. flows[f].draft = 0 /\ UNCHANGED <<books, drafts>>
    BY <1>1, <1>4 DEF ReadStatus, At, Carries, Early
  <2>2. flows'[f].draft = flows[f].draft
    BY <1>1, <1>4 DEF ReadStatus, FlowRecords
  <2> QED
    BY <2>1, <2>2, ProceedStep DEF TextsKept
<1>5. CASE \E r \in Outcomes : WriteDraft(f, r)
  <2> PICK r \in Outcomes : WriteDraft(f, r)
    BY <1>5
  <2>1. PICK text : drafts' = Append(drafts, text)
    BY DEF WriteDraft
  <2>2. /\ Len(drafts') = Len(drafts) + 1 /\ Len(drafts) \in Nat
        /\ \A i \in 1 .. Len(drafts) : drafts'[i] = drafts[i]
    BY <1>1, <2>1
  <2>3. flows[f].draft = 0 /\ flows'[f].draft = Len(drafts) + 1 /\ UNCHANGED books
    BY <1>1, <2>2 DEF WriteDraft, At, Carries, Early, FlowRecords
  <2> QED
    BY <2>2, <2>3, ProceedStep DEF TextsKept
<1>6. CASE ValidateRevision(f)
  <2>1. flows' = [flows EXCEPT ![f].pc = "persisting", ![f].review = NoReview]
    BY <1>3, <1>6 DEF ValidateRevision
  <2>2. flows'[f].draft = flows[f].draft /\ flows'[f].chapter = flows[f].chapter
    BY <1>1, <2>1 DEF FlowRecords
  <2> QED
    BY <2>2, <1>6, ProceedStep DEF ValidateRevision, TextsKept
<1>7. CASE BindPersistence(f)
  <2>1. flows[f].draft \in 1 .. Len(drafts) /\ UNCHANGED books
    BY <1>1, <1>7 DEF BindPersistence, At, Carries, Late
  <2>2. TextsKept
    <3> SUFFICES ASSUME NEW i \in 1 .. Len(drafts)
                 PROVE  drafts'[i].caller = drafts[i].caller /\ drafts'[i].passed = drafts[i].passed
      BY DEF TextsKept
    <3>1. drafts' = [drafts EXCEPT ![flows[f].draft] =
                       [@ EXCEPT !.expected = Revision(BookOf(f))]]
      BY <1>7 DEF BindPersistence
    <3>2. drafts[i] \in DraftRecords /\ (drafts'[i] = drafts[i]
            \/ drafts'[i] = [drafts[i] EXCEPT !.expected = Revision(BookOf(f))])
      BY <1>1, <2>1, <3>1
    <3> QED
      BY <3>2 DEF DraftRecords
  <2> QED
    BY <2>1, <2>2, <1>2, <1>7, ProceedStep DEF BindPersistence
<1>8. CASE \/ AssembleContext(f) \/ WriteFails(f) \/ ValidateReviews(f) \/ Prepare(f)
           \/ Validate(f) \/ RequestFails(f)
  <2>1. UNCHANGED <<books, drafts>> /\ \E pc \in Pcs : Goes(f, pc) \/ Returns(f, "failed")
    BY <1>8 DEF AssembleContext, WriteFails, ValidateReviews, Prepare, Validate,
       PrepareAndValidate, RequestFails, Pcs
  <2> QED
    BY <2>1, <1>2, <1>3, ProceedStep DEF TextsKept
<1> QED
  BY <1>4, <1>5, <1>6, <1>7, <1>8

LEMMA ReadersFail ==
  ASSUME DataInv, NEW f \in Flows, NEW pc \in {"done", "failed"}, Returns(f, pc),
         \/ ReadStatus(f) \/ AssembleContext(f) \/ \E r \in Outcomes : WriteDraft(f, r)
         \/ WriteFails(f) \/ ValidateRevision(f) \/ BindPersistence(f) \/ ValidateReviews(f)
         \/ Prepare(f) \/ Validate(f) \/ RequestFails(f)
  PROVE  UNCHANGED <<books, drafts>> /\ Returns(f, "failed")
<1>1. flows \in [Flows -> FlowRecords] /\ flows[f] \in FlowRecords
  BY DEF DataInv, Shapes
<1>2. flows'[f].pc = pc
  <2>1. [NoFlow EXCEPT !.pc = pc].pc = pc /\ [flows[f] EXCEPT !.pc = pc].pc = pc
    BY <1>1 DEF NoFlow, FlowRecords
  <2> QED
    BY <2>1, <1>1 DEF Returns
<1>3. ASSUME NEW x \in Writing, Goes(f, x)
      PROVE  FALSE
  <2>1. flows'[f].pc = x
    BY <1>1, <1>3 DEF Goes, FlowRecords
  <2> QED
    BY <2>1, <1>2 DEF Writing
<1>4. {"drafting", "preparing", "validating", "committing", "reviewing"} \subseteq Writing
  BY DEF Writing
<1>5. CASE ReadStatus(f)
  BY <1>1, <1>2, <1>5 DEF ReadStatus, FlowRecords
<1>6. CASE \E r \in Outcomes : WriteDraft(f, r)
  <2> PICK r \in Outcomes : WriteDraft(f, r)
    BY <1>6
  <2>1. flows'[f] = [flows[f] EXCEPT !.pc = "drafted", !.review = r, !.draft = Len(drafts')]
    BY <1>1 DEF WriteDraft
  <2>2. flows'[f].pc = "drafted"
    BY <1>1, <2>1 DEF FlowRecords
  <2> QED
    BY <2>2, <1>2
<1>7. CASE BindPersistence(f)
  BY <1>3, <1>4, <1>7 DEF BindPersistence
<1>8. CASE ValidateRevision(f)
  <2>1. ~(flows' = [flows EXCEPT ![f].pc = "persisting", ![f].review = NoReview])
    BY <1>1, <1>2 DEF FlowRecords
  <2> QED
    BY <2>1, <1>8 DEF ValidateRevision
<1>9. CASE \/ AssembleContext(f) \/ WriteFails(f) \/ ValidateReviews(f) \/ Prepare(f)
           \/ Validate(f) \/ RequestFails(f)
  <2>1. /\ UNCHANGED <<books, drafts>>
        /\ \/ Returns(f, "failed")
           \/ \E x \in {"drafting", "preparing", "validating", "committing"} : Goes(f, x)
    BY <1>9 DEF AssembleContext, WriteFails, ValidateReviews, Prepare, Validate,
       PrepareAndValidate, RequestFails
  <2> QED
    BY <2>1, <1>3, <1>4
<1> QED
  BY <1>5, <1>6, <1>7, <1>8, <1>9

LEMMA ReadersStep ==
  ASSUME DataInv, DataInv', NEW f \in Flows,
         \/ ReadStatus(f) \/ AssembleContext(f) \/ \E r \in Outcomes : WriteDraft(f, r)
         \/ WriteFails(f) \/ ValidateRevision(f) \/ BindPersistence(f) \/ ValidateReviews(f)
         \/ Prepare(f) \/ Validate(f) \/ RequestFails(f)
  PROVE  Call!CallNext \/ Stays
<1>1. CASE Proceeds(f)
  BY <1>1, QuietReaders
<1>2. CASE ~Proceeds(f)
  <2>1. flows[f].pc \in Writing /\ \E pc \in {"done", "failed"} : Returns(f, pc)
    BY <1>2, ReadersProceed
  <2>3. UNCHANGED <<books, drafts>> /\ Returns(f, "failed")
    BY <2>1, ReadersFail
  <2> QED
    BY <2>1, <2>3, FailStep
<1> QED
  BY <1>1, <1>2

LEMMA UnansweredStep ==
  ASSUME DataInv, DataInv', NEW f \in Flows, CommitUnanswered(f)
  PROVE  Call!CallNext \/ Stays
<1>1. /\ flows \in [Flows -> FlowRecords] /\ flows[f] \in FlowRecords
      /\ flows[f].pc = "committing" /\ flows[f].pc \in Writing /\ drafts' = drafts
      /\ flows[f].draft # 0 /\ flows[f].draft \in 1 .. Len(drafts)
  BY DEF DataInv, Shapes, OwnDrafts, Carries, CommitUnanswered, At, Late, Writing
<1>2. books' = books \/ books' = Publish(flows[f].draft)
  BY DEF CommitUnanswered
<1>3. CASE Resends(f)
  <2> DEFINE new == [flows[f] EXCEPT !.tries = @ + 1]
  <2>1. /\ new.pc = flows[f].pc /\ new.draft = flows[f].draft
        /\ new.chapter = flows[f].chapter
    BY <1>1 DEF FlowRecords
  <2>2. flows' = [flows EXCEPT ![f] = new]
    BY <1>1, <1>3 DEF CommitUnanswered
  <2> HIDE DEF new
  <2>3. \A g \in Flows : /\ flows'[g].pc = flows[g].pc /\ flows'[g].draft = flows[g].draft
                         /\ flows'[g].chapter = flows[g].chapter
    BY <1>1, <2>1, <2>2
  <2>4. CASE books' = Publish(flows[f].draft)
    BY <1>1, <2>3, <2>4, PublishStep
  <2>5. CASE books' = books
    BY <1>1, <2>3, <2>5, QuietStep DEF TextsKept
  <2> QED
    BY <1>2, <2>4, <2>5
<1>4. CASE ~Resends(f)
  <2>1. Returns(f, "failed")
    BY <1>4 DEF CommitUnanswered
  <2> QED
    BY <1>1, <1>2, <2>1, FailStep
<1> QED
  BY <1>3, <1>4

LEMMA EditStep ==
  ASSUME DataInv, DataInv', NEW b \in Books, OperatorEdit(b)
  PROVE  Stays
<1>1. /\ UNCHANGED <<drafts, flows>> /\ books \in [Books -> [revision : Nat, chapters : Seq(Nat)]]
      /\ books' = [books EXCEPT ![b].revision = @ + 1]
  BY DEF OperatorEdit, DataInv, Shapes
<1>2. \A c \in Books : books'[c].chapters = books[c].chapters
  <2> SUFFICES ASSUME NEW c \in Books PROVE books'[c].chapters = books[c].chapters
    OBVIOUS
  <2>1. CASE c = b
    <3>1. books'[b] = [books[b] EXCEPT !.revision = @ + 1]
      BY <1>1
    <3> QED
      BY <2>1, <3>1, <1>1, RevisionMoves
  <2>2. CASE c # b
    BY <2>2, <1>1
  <2> QED
    BY <2>1, <2>2
<1>3. AllChapters' = AllChapters
  BY <1>1, <1>2 DEF AllChapters, Chapters, Latest
<1>4. ASSUME NEW g \in Flows
      PROVE  AllCalls'[g] = AllCalls[g]
  <2>1. BookOf(g) \in Books
    BY FlowPairs
  <2>2. Owns(g)' <=> Owns(g)
    BY <2>1, <1>1, <1>2 DEF Owns
  <2> QED
    BY <2>2, <1>1, SeenSame
<1> QED
  BY <1>3, <1>4, NoCall DEF Stays

LEMMA StepsMap ==
  ASSUME DataInv, DataInv', LockInv, [PipelineNext]_pipelineVars
  PROVE  [Call!CallNext]_(Call!callVars)
<1>1. ASSUME Stays
      PROVE  UNCHANGED Call!callVars
  BY <1>1 DEF Stays, AllChapters, AllCalls, Call!callVars
<1>2. ASSUME NEW f \in Flows, FlowStep(f) \/ RequestFails(f)
      PROVE  Call!CallNext \/ Stays
  BY <1>2, TakeStep, CommitStep, ReadersStep DEF FlowStep
<1>3. CASE \E f \in Flows : CommitUnanswered(f)
  BY <1>1, <1>3, UnansweredStep
<1>4. CASE \E f \in Flows : InteractiveCall(f)
  BY <1>4, AskStep
<1>5. CASE \E i \in 1 .. Len(drafts) : ExecuteLate(i)
  BY <1>1, <1>5, PublishStep DEF ExecuteLate
<1>6. CASE \E b \in Books : OperatorEdit(b)
  BY <1>1, <1>6, EditStep
<1>7. CASE UNCHANGED pipelineVars
  BY <1>1, <1>7, QuietStep DEF pipelineVars, TextsKept
<1> QED
  BY <1>1, <1>2, <1>3, <1>4, <1>5, <1>6, <1>7 DEF PipelineNext

LEMMA StartsMap == PipelineInit => LockInv /\ Call!CallInit
<1> SUFFICES ASSUME PipelineInit PROVE LockInv /\ Call!CallInit
  OBVIOUS
<1>1. \A f \in Flows : flows[f] = NoFlow /\ BookOf(f) \in Books /\ CallerOf(f) \in Callers
  BY FlowPairs DEF PipelineInit
<1>2. LockInv
  BY <1>1 DEF PipelineInit, LockInv, NoFlow, Writing
<1>3. \A b \in Books : Chapters(b) = << >>
  BY DEF PipelineInit, Chapters, Latest
<1>4. \A f \in Flows : Seen(f) = [at |-> "idle", chapter |-> 0]
  BY <1>1 DEF Seen, NoFlow
<1>5. Call!CallInit
  BY <1>3, <1>4 DEF Call!CallInit, Call!Idle, Call!Flows, Flows
<1> QED
  BY <1>2, <1>5

(* Whatever happens inside it, writeNextChapter is a WriteCall: calls for  *)
(* one book exclude each other, a call that returns a chapter has added it *)
(* once, a call that throws may have added it, and nothing else changes.   *)
THEOREM Refinement == PipelineSpec => ImplementsWriteCall
<1>1. PipelineSpec => [](DataInv /\ LockInv)
  BY InitHolds, NextKeeps, StartsMap, LockNext, PTL DEF PipelineSpec
<1>2. DataInv /\ DataInv' /\ LockInv /\ [PipelineNext]_pipelineVars
        => [Call!CallNext]_(Call!callVars)
  BY StepsMap
<1> QED
  BY <1>1, <1>2, StartsMap, PTL DEF PipelineSpec, ImplementsWriteCall, Call!CallSpec

----------------------------------------------------------------------------
(***************************************************************************)
(* What a review keeps.  The reduce over the snapshots is a recursive      *)
(* function of a chain of any length: what it returns is shown by the      *)
(* least place where the claim would fail.                                 *)
(***************************************************************************)
(* A set of numbers that is not empty has a least one.                     *)
LEMMA LeastNumber ==
  ASSUME NEW S \in SUBSET Nat, S # {}
  PROVE  \E n \in S : \A k \in S : n <= k
<1>1. PICK n \in S : \A k \in S : ~ (<<k, n>> \in OpToRel(<, Nat))
  BY NatLessThanWellFounded, WFMin
<1>2. \A k \in S : k \in Nat /\ n \in Nat /\ ~ (k < n)
  BY <1>1 DEF OpToRel
<1> QED
  BY <1>2

LEMMA AssessmentShape ==
  ASSUME NEW a \in Assessments
  PROVE  a.score \in Nat /\ a.inRange \in BOOLEAN
<1>1. CASE a \in [score : Scores, passed : BOOLEAN, inRange : BOOLEAN, parsed : {TRUE}]
  BY <1>1, ReviewAssumption
<1>2. CASE a \in [score : {0}, passed : {FALSE}, inRange : BOOLEAN, parsed : {FALSE}]
  BY <1>2
<1> QED
  BY <1>1, <1>2 DEF Assessments

LEMMA ChainShape ==
  ASSUME NEW c \in Chains
  PROVE  /\ Len(c) \in Nat \ {0}
         /\ \A k \in 1 .. Len(c) : /\ c[k] \in Assessments /\ c[k].score \in Nat
                                   /\ c[k].inRange \in BOOLEAN
<1>1. PICK n \in 1 .. MaxReviewIterations + 1 : c \in [1 .. n -> Assessments]
  BY DEF Chains
<1>2. n \in Nat \ {0}
  BY ReviewAssumption
<1>3. c \in Seq(Assessments) /\ Len(c) = n
  BY <1>1, <1>2, SeqDef, LenProperties
<1> QED
  BY <1>1, <1>2, <1>3, AssessmentShape

(* The loop of the cycle ends, at the first version it does not go on from.*)
LEMMA AssessedIs ==
  ASSUME NEW c \in Chains
  PROVE  /\ Assessed(c) \in 1 .. Len(c)
         /\ \A k \in 1 .. Assessed(c) - 1 : GoesOn(c, k)
         /\ Assessed(c) = Len(c) \/ ~ GoesOn(c, Assessed(c))
<1> DEFINE Ends == {n \in 1 .. Len(c) : n = Len(c) \/ ~ GoesOn(c, n)}
<1>1. Len(c) \in Nat \ {0}
  BY ChainShape
<1>2. Ends \in SUBSET Nat /\ Ends # {}
  BY <1>1
<1>3. PICK n \in Ends : \A k \in Ends : n <= k
  <2> HIDE DEF Ends
  <2> QED
    BY <1>2, LeastNumber
<1>4. n \in 1 .. Len(c) /\ (n = Len(c) \/ ~ GoesOn(c, n))
  OBVIOUS
<1>5. \A k \in 1 .. n - 1 : GoesOn(c, k)
  <2> SUFFICES ASSUME NEW k \in 1 .. n - 1, ~ GoesOn(c, k) PROVE FALSE
    OBVIOUS
  <2>1. k \in 1 .. Len(c) /\ ~ (n <= k)
    BY <1>1, <1>4
  <2> QED
    BY <1>3, <2>1
<1> QED
  BY <1>4, <1>5 DEF Assessed

(* The reduce over the first n snapshots.                                  *)
Reduces(c, n, best) ==
  best = [k \in 1 .. n |-> IF k = 1 THEN 1
                           ELSE IF Wins(c[k], c[best[k - 1]]) THEN k ELSE best[k - 1]]

LEMMA ReduceExists ==
  ASSUME NEW c, NEW n \in Nat
  PROVE  \E best : Reduces(c, n, best)
<1> DEFINE Bad == {m \in Nat : ~ \E best : Reduces(c, m, best)}
<1>1. \E best : Reduces(c, 0, best)
  <2>1. Reduces(c, 0, [k \in 1 .. 0 |-> 1])
    BY DEF Reduces
  <2> QED
    BY <2>1
<1>2. ASSUME NEW m \in Nat, NEW old, Reduces(c, m, old)
      PROVE  \E best : Reduces(c, m + 1, best)
  <2> DEFINE new == [k \in 1 .. m + 1 |->
                       IF k <= m THEN old[k]
                       ELSE IF k = 1 THEN 1
                       ELSE IF Wins(c[k], c[old[k - 1]]) THEN k ELSE old[k - 1]]
             next == [k \in 1 .. m + 1 |-> IF k = 1 THEN 1
                           ELSE IF Wins(c[k], c[new[k - 1]]) THEN k ELSE new[k - 1]]
  <2>1. \A k \in 1 .. m : /\ k \in 1 .. m + 1 /\ new[k] = old[k]
                          /\ old[k] = IF k = 1 THEN 1
                                      ELSE IF Wins(c[k], c[old[k - 1]]) THEN k ELSE old[k - 1]
    BY <1>2 DEF Reduces
  <2>2. \A k \in 1 .. m + 1 :
          new[k] = IF k = 1 THEN 1
                   ELSE IF Wins(c[k], c[new[k - 1]]) THEN k ELSE new[k - 1]
    <3> SUFFICES ASSUME NEW k \in 1 .. m + 1
                 PROVE  new[k] = IF k = 1 THEN 1
                          ELSE IF Wins(c[k], c[new[k - 1]]) THEN k ELSE new[k - 1]
      OBVIOUS
    <3>1. new[k] = IF k = 1 THEN 1
                   ELSE IF Wins(c[k], c[old[k - 1]]) THEN k ELSE old[k - 1]
      <4>1. CASE k <= m
        <5>1. k \in 1 .. m
          BY <4>1
        <5> HIDE DEF new
        <5> QED
          BY <2>1, <5>1
      <4>2. CASE ~ (k <= m)
        BY <4>2
      <4> QED
        BY <4>1, <4>2
    <3>2. k # 1 => k - 1 \in 1 .. m
      OBVIOUS
    <3> HIDE DEF new
    <3>3. k # 1 => new[k - 1] = old[k - 1]
      BY <2>1, <3>2
    <3> QED
      BY <3>1, <3>3
  <2>3. new = next
    <3>1. new = [k \in 1 .. m + 1 |-> new[k]]
      OBVIOUS
    <3> HIDE DEF new
    <3> QED
      BY <2>2, <3>1
  <2> HIDE DEF new
  <2> QED
    BY <2>3 DEF Reduces
<1>3. Bad = {}
  <2> SUFFICES ASSUME Bad # {} PROVE FALSE
    OBVIOUS
  <2>1. PICK m \in Bad : \A k \in Bad : m <= k
    <3>1. Bad \in SUBSET Nat
      OBVIOUS
    <3> HIDE DEF Bad
    <3> QED
      BY <3>1, LeastNumber
  <2>2. m \in Nat /\ m # 0
    BY <1>1
  <2>3. m - 1 \in Nat /\ m - 1 + 1 = m /\ ~ (m <= m - 1)
    BY <2>2
  <2>4. m - 1 \notin Bad
    BY <2>1, <2>3
  <2>5. \E best : Reduces(c, m - 1, best)
    BY <2>3, <2>4
  <2>6. \E best : Reduces(c, m - 1 + 1, best)
    BY <1>2, <2>3, <2>5
  <2> QED
    BY <2>3, <2>6
<1> QED
  BY <1>3

LEMMA BestReduces ==
  ASSUME NEW c \in Chains
  PROVE  \E best : Reduces(c, Assessed(c), best) /\ Best(c) = best[Assessed(c)]
<1>1. Assessed(c) \in Nat
  BY AssessedIs, ChainShape
<1>2. PICK n : n = Assessed(c)
  OBVIOUS
<1>3. \E best : Reduces(c, n, best)
  BY <1>1, <1>2, ReduceExists
<1> DEFINE chosen == CHOOSE best : Reduces(c, n, best)
<1>4. Reduces(c, n, chosen)
  BY <1>3
<1>5. Best(c) = chosen[n]
  BY <1>2 DEF Best, Reduces
<1> QED
  BY <1>2, <1>4, <1>5

(* Before the last version that is assessed, each scores more than all     *)
(* before it: the loop goes on from a repair only when it improved.        *)
LEMMA ScoresRise ==
  ASSUME NEW c \in Chains, NEW i \in 1 .. Assessed(c) - 1
  PROVE  \A k \in 1 .. Assessed(c) - 1 : i < k => c[i].score + Epsilon <= c[k].score
<1> DEFINE Bad == {k \in 1 .. Assessed(c) - 1 : i < k /\ ~ (c[i].score + Epsilon <= c[k].score)}
<1>1. /\ Assessed(c) \in Nat /\ Assessed(c) <= Len(c) /\ Len(c) \in Nat
      /\ \A k \in 1 .. Len(c) : c[k].score \in Nat
  BY AssessedIs, ChainShape
<1>2. ASSUME NEW k \in 1 .. Assessed(c) - 1, k # 1
      PROVE  c[k - 1].score + Epsilon <= c[k].score
  <2>1. GoesOn(c, k)
    BY AssessedIs
  <2>2. k \in 1 .. Len(c) /\ k - 1 \in 1 .. Len(c)
    BY <1>1, <1>2
  <2> QED
    BY <1>1, <1>2, <2>1, <2>2 DEF GoesOn, Improves, Epsilon
<1>3. Bad = {}
  <2> SUFFICES ASSUME Bad # {} PROVE FALSE
    OBVIOUS
  <2>1. PICK k \in Bad : \A h \in Bad : k <= h
    <3>1. Bad \in SUBSET Nat
      BY <1>1
    <3> HIDE DEF Bad
    <3> QED
      BY <3>1, LeastNumber
  <2>2. k \in 1 .. Assessed(c) - 1 /\ i < k /\ ~ (c[i].score + Epsilon <= c[k].score)
    OBVIOUS
  <2>3. /\ k # 1 /\ k - 1 \in 1 .. Assessed(c) - 1 /\ ~ (k <= k - 1)
        /\ i \in 1 .. Len(c) /\ k \in 1 .. Len(c) /\ k - 1 \in 1 .. Len(c)
        /\ i = k - 1 \/ i < k - 1
    BY <1>1, <2>2
  <2>4. c[k - 1].score + Epsilon <= c[k].score
    BY <1>2, <2>3
  <2>5. k - 1 \notin Bad
    BY <2>1, <2>3
  <2>6. i = k - 1 \/ c[i].score + Epsilon <= c[k - 1].score
    BY <2>3, <2>5
  <2>7. CASE i = k - 1
    BY <2>2, <2>4, <2>7
  <2>8. CASE c[i].score + Epsilon <= c[k - 1].score
    <3>1. c[i].score \in Nat /\ c[k - 1].score \in Nat /\ c[k].score \in Nat
      BY <1>1, <2>3
    <3>2. c[i].score + 3 <= c[k - 1].score /\ c[k - 1].score + 3 <= c[k].score
      BY <2>4, <2>8 DEF Epsilon
    <3>3. c[i].score + 3 <= c[k].score
      BY <3>1, <3>2
    <3> QED
      BY <2>2, <3>3 DEF Epsilon
  <2> QED
    BY <2>6, <2>7, <2>8
<1> QED
  BY <1>3

LEMMA WinsIs ==
  ASSUME NEW a \in Assessments, NEW b \in Assessments
  PROVE  Wins(a, b) <=> \/ a.inRange /\ ~ b.inRange
                        \/ a.inRange = b.inRange /\ b.score + 3 <= a.score
<1>1. /\ a.score \in Nat /\ b.score \in Nat /\ a.inRange \in BOOLEAN /\ b.inRange \in BOOLEAN
  BY AssessmentShape
<1>2. Improves(b, a) <=> b.score + 3 <= a.score
  BY <1>1 DEF Improves, Epsilon
<1> QED
  BY <1>1, <1>2 DEF Wins

(* b is in range if one of the first k versions is, and none of the same   *)
(* range scores more.                                                      *)
Tops(c, b, k) ==
  /\ b \in 1 .. k
  /\ \A i \in 1 .. k : /\ c[i].inRange => c[b].inRange
                       /\ c[i].inRange = c[b].inRange => c[i].score <= c[b].score

(* While the scores rise, the reduce finds a version that tops the others. *)
LEMMA ReduceTops ==
  ASSUME NEW c \in Chains, NEW best, Reduces(c, Assessed(c), best)
  PROVE  \A k \in 1 .. Assessed(c) - 1 : Tops(c, best[k], k)
<1> DEFINE Bad == {k \in 1 .. Assessed(c) - 1 : ~ Tops(c, best[k], k)}
<1>1. /\ Assessed(c) \in Nat /\ Assessed(c) <= Len(c) /\ Len(c) \in Nat
      /\ \A k \in 1 .. Len(c) : c[k] \in Assessments /\ c[k].score \in Nat /\ c[k].inRange \in BOOLEAN
  BY AssessedIs, ChainShape
<1>2. \A k \in 1 .. Assessed(c) :
        best[k] = IF k = 1 THEN 1 ELSE IF Wins(c[k], c[best[k - 1]]) THEN k ELSE best[k - 1]
  BY DEF Reduces
<1>3. Bad = {}
  <2> SUFFICES ASSUME Bad # {} PROVE FALSE
    OBVIOUS
  <2>1. PICK k \in Bad : \A h \in Bad : k <= h
    <3>1. Bad \in SUBSET Nat
      BY <1>1
    <3> HIDE DEF Bad
    <3> QED
      BY <3>1, LeastNumber
  <2>2. k \in 1 .. Assessed(c) - 1 /\ ~ Tops(c, best[k], k) /\ k \in 1 .. Assessed(c) /\ k \in 1 .. Len(c)
    BY <1>1
  <2>3. k # 1
    <3> SUFFICES ASSUME k = 1 PROVE FALSE
      OBVIOUS
    <3>1. best[k] = 1
      BY <1>2, <2>2
    <3>2. \A i \in 1 .. 1 : i = 1
      OBVIOUS
    <3>3. 1 \in 1 .. 1 /\ c[1].score <= c[1].score
      BY <1>1, <2>2
    <3>4. Tops(c, best[k], k)
      BY <3>1, <3>2, <3>3 DEF Tops
    <3> QED
      BY <2>2, <3>4
  <2>0. PICK b : b = best[k - 1]
    OBVIOUS
  <2>4. k - 1 \in 1 .. Assessed(c) - 1 /\ ~ (k <= k - 1)
    BY <1>1, <2>2, <2>3
  <2>5. Tops(c, b, k - 1)
    BY <2>0, <2>1, <2>4
  <2>6. best[k] = IF Wins(c[k], c[b]) THEN k ELSE b
    BY <1>2, <2>0, <2>2, <2>3
  <2>7. b \in 1 .. k - 1 /\ b \in 1 .. Len(c) /\ b \in 1 .. Assessed(c) - 1 /\ b < k
    BY <1>1, <2>2, <2>5 DEF Tops
  <2>8. ASSUME NEW i \in 1 .. k - 1
        PROVE  /\ i \in 1 .. Len(c) /\ c[i].score + 3 <= c[k].score /\ c[i].score <= c[k].score
               /\ c[i].inRange => c[b].inRange
               /\ c[i].inRange = c[b].inRange => c[i].score <= c[b].score
    <3>1. i \in 1 .. Assessed(c) - 1 /\ i < k /\ i \in 1 .. Len(c)
      BY <1>1, <2>2
    <3>2. c[i].score + 3 <= c[k].score
      BY <2>2, <3>1, ScoresRise DEF Epsilon
    <3>3. c[i].score <= c[k].score
      BY <1>1, <2>2, <3>1, <3>2
    <3> QED
      BY <2>5, <3>1, <3>2, <3>3 DEF Tops
  <2>9. Wins(c[k], c[b]) <=> (c[k].inRange \/ ~ c[b].inRange)
    <3>1. c[b].score + 3 <= c[k].score
      BY <2>7, <2>8
    <3> QED
      BY <1>1, <2>2, <2>7, <3>1, WinsIs
  <2>10. \A i \in 1 .. k : i \in 1 .. k - 1 \/ i = k
    BY <2>2
  <2>11. CASE Wins(c[k], c[b])
    <3>1. best[k] = k
      BY <2>6, <2>11
    <3>2. \A i \in 1 .. k - 1 : c[i].inRange => c[k].inRange
      BY <2>8, <2>9, <2>11
    <3>3. Tops(c, k, k)
      BY <1>1, <2>2, <2>8, <2>10, <3>2 DEF Tops
    <3> QED
      BY <2>2, <3>1, <3>3
  <2>12. CASE ~ Wins(c[k], c[b])
    <3>1. best[k] = b
      BY <2>6, <2>12
    <3>2. ~ c[k].inRange /\ c[b].inRange
      BY <2>9, <2>12
    <3>3. b \in 1 .. k
      BY <2>7
    <3>4. Tops(c, b, k)
      BY <1>1, <2>2, <2>7, <2>8, <2>10, <3>2, <3>3 DEF Tops
    <3> QED
      BY <2>2, <3>1, <3>4
  <2> QED
    BY <2>11, <2>12
<1> QED
  BY <1>3

(* The version that is kept is beaten by none that was assessed.           *)
LEMMA KeptUnbeaten ==
  ASSUME NEW c \in Chains, NEW k \in 1 .. Assessed(c)
  PROVE  ~ Wins(c[k], c[Final(c)])
<1>1. PICK n : n = Assessed(c)
  OBVIOUS
<1>2. /\ n \in Nat \ {0} /\ n <= Len(c) /\ Len(c) \in Nat /\ k \in 1 .. n
      /\ \A i \in 1 .. n : c[i] \in Assessments /\ c[i].score \in Nat /\ c[i].inRange \in BOOLEAN
  BY <1>1, AssessedIs, ChainShape
<1>3. PICK best : Reduces(c, n, best) /\ Best(c) = best[n]
  BY <1>1, BestReduces
<1>4. best[n] = IF n = 1 THEN 1 ELSE IF Wins(c[n], c[best[n - 1]]) THEN n ELSE best[n - 1]
  BY <1>2, <1>3 DEF Reduces
<1>5. Current(c) = IF n = 1 \/ IsPassed(c[n]) \/ Improves(c[n - 1], c[n]) THEN n ELSE n - 1
  BY <1>1 DEF Current
<1>6. CASE n = 1
  <2>1. Best(c) = 1 /\ Current(c) = 1 /\ k = 1
    BY <1>2, <1>3, <1>4, <1>5, <1>6
  <2>2. Final(c) = 1
    BY <2>1 DEF Final
  <2>3. ~ (c[1].score + 3 <= c[1].score) /\ 1 \in 1 .. n
    BY <1>2
  <2> QED
    BY <1>2, <2>1, <2>2, <2>3, WinsIs
<1>7. CASE n # 1
  <2>1. PICK m : m = best[n - 1]
    OBVIOUS
  <2>2. n - 1 \in 1 .. n - 1 /\ n - 1 \in 1 .. n /\ n \in 1 .. n /\ n - 1 < n
    BY <1>2, <1>7
  <2>3. Tops(c, m, n - 1)
    BY <1>1, <1>3, <2>1, <2>2, ReduceTops
  <2>4. m \in 1 .. n - 1 /\ m \in 1 .. n
    BY <1>2, <2>3 DEF Tops
  <2>5. Best(c) = IF Wins(c[n], c[m]) THEN n ELSE m
    BY <1>3, <1>4, <1>7, <2>1
  <2>6. ASSUME NEW i \in 1 .. n - 1
        PROVE  /\ i \in 1 .. n
               /\ c[i].inRange => c[m].inRange
               /\ c[i].inRange = c[m].inRange => c[i].score <= c[m].score
               /\ c[i].score <= c[n - 1].score
    <3>1. i \in 1 .. n
      BY <1>2
    <3>2. i = n - 1 \/ c[i].score + 3 <= c[n - 1].score
      <4>1. i # n - 1 => i < n - 1
        BY <1>2
      <4> QED
        BY <1>1, <2>2, <4>1, ScoresRise DEF Epsilon
    <3>3. c[i].score <= c[n - 1].score
      BY <1>2, <2>2, <3>1, <3>2
    <3> QED
      BY <2>3, <3>1, <3>3 DEF Tops
  <2>7. k = n \/ k \in 1 .. n - 1
    BY <1>2
  <2>8. ~ Wins(c[k], c[Best(c)])
    <3>1. CASE Wins(c[n], c[m])
      <4>1. Best(c) = n
        BY <2>5, <3>1
      <4>2. \/ c[n].inRange /\ ~ c[m].inRange
            \/ c[n].inRange = c[m].inRange /\ c[m].score + 3 <= c[n].score
        BY <1>2, <2>2, <2>4, <3>1, WinsIs
      <4>3. ~ (c[k].score + 3 <= c[k].score)
        BY <1>2
      <4>4. CASE k = n
        BY <1>2, <4>1, <4>3, <4>4, WinsIs
      <4>5. CASE k \in 1 .. n - 1
        <5>1. c[k].inRange => c[n].inRange
          BY <1>2, <2>2, <2>4, <2>6, <4>2, <4>5
        <5>2. c[k].inRange = c[n].inRange => ~ (c[n].score + 3 <= c[k].score)
          <6> SUFFICES ASSUME c[k].inRange = c[n].inRange PROVE ~ (c[n].score + 3 <= c[k].score)
            OBVIOUS
          <6>1. c[k].inRange = c[m].inRange /\ c[m].score + 3 <= c[n].score
            BY <1>2, <2>2, <2>4, <2>6, <4>2, <4>5
          <6>2. c[k].score <= c[m].score
            BY <2>6, <4>5, <6>1
          <6>3. c[k].score \in Nat /\ c[m].score \in Nat /\ c[n].score \in Nat
            BY <1>2, <2>2, <2>4
          <6> QED
            BY <6>1, <6>2, <6>3
        <5> QED
          BY <1>2, <2>2, <4>1, <5>1, <5>2, WinsIs
      <4> QED
        BY <2>7, <4>4, <4>5
    <3>2. CASE ~ Wins(c[n], c[m])
      <4>1. Best(c) = m
        BY <2>5, <3>2
      <4>2. CASE k = n
        BY <3>2, <4>1, <4>2
      <4>3. CASE k \in 1 .. n - 1
        <5>1. c[k].inRange = c[m].inRange => ~ (c[m].score + 3 <= c[k].score)
          BY <1>2, <2>4, <2>6, <4>3
        <5>2. c[k].inRange => c[m].inRange
          BY <2>6, <4>3
        <5> QED
          BY <1>2, <2>4, <4>1, <5>1, <5>2, WinsIs
      <4> QED
        BY <2>7, <4>2, <4>3
    <3> QED
      BY <3>1, <3>2
  <2>9. Best(c) \in 1 .. n /\ Current(c) \in 1 .. n
    BY <1>5, <2>2, <2>4, <2>5
  <2>10. CASE Final(c) = Best(c)
    BY <2>8, <2>10
  <2>11. CASE Final(c) # Best(c)
    <3>1. Final(c) = Current(c) /\ ~ Restores(c) /\ Best(c) # Current(c)
      BY <2>11 DEF Final
    <3>2. PICK x, y : x = Best(c) /\ y = Current(c)
      OBVIOUS
    <3>3. /\ x \in 1 .. n /\ y \in 1 .. n /\ x # y
          /\ c[x].inRange => c[y].inRange
          /\ ~ (c[y].score + 3 <= c[x].score)
      BY <1>2, <2>9, <3>1, <3>2 DEF Restores, Improves, Epsilon
    <3>4. ~ Wins(c[k], c[x])
      BY <2>8, <3>2
    <3> SUFFICES ASSUME Wins(c[k], c[y]) PROVE FALSE
      BY <3>1, <3>2
    <3>5. \/ c[k].inRange /\ ~ c[y].inRange
          \/ c[k].inRange = c[y].inRange /\ c[y].score + 3 <= c[k].score
      BY <1>2, <3>3, WinsIs
    <3>6. /\ c[k].inRange => c[x].inRange
          /\ c[k].inRange = c[x].inRange => ~ (c[x].score + 3 <= c[k].score)
      BY <1>2, <3>3, <3>4, WinsIs
    <3>7. c[k].inRange = c[y].inRange /\ c[y].score + 3 <= c[k].score
      BY <3>3, <3>5, <3>6
    <3>8. k # y
      BY <1>2, <3>7
    <3>9. CASE y = n
      <4>1. k \in 1 .. n - 1 /\ x = m /\ ~ Wins(c[n], c[m])
        BY <2>5, <2>7, <3>2, <3>3, <3>8, <3>9
      <4>2. c[k].score <= c[n - 1].score
        BY <2>6, <4>1
      <4>3. CASE Improves(c[n - 1], c[n])
        <5>1. c[n - 1].score + 3 <= c[n].score
          BY <1>2, <2>2, <4>3 DEF Improves, Epsilon
        <5>2. c[k].score \in Nat /\ c[n - 1].score \in Nat /\ c[n].score \in Nat
          BY <1>2, <2>2
        <5>3. c[n].score + 3 <= c[k].score
          BY <3>7, <3>9
        <5> QED
          BY <4>2, <5>1, <5>2, <5>3
      <4>4. CASE IsPassed(c[n])
        <5>1. c[k].inRange /\ c[m].inRange
          BY <1>2, <2>2, <2>6, <3>7, <3>9, <4>1, <4>4 DEF IsPassed
        <5>2. c[k].inRange = c[m].inRange
          BY <1>2, <2>4, <5>1
        <5>3. c[k].score <= c[m].score
          BY <2>6, <4>1, <5>2
        <5> QED
          BY <1>2, <2>4, <3>3, <3>7, <4>1, <5>3
      <4> QED
        BY <1>2, <1>5, <1>7, <3>2, <3>9, <4>3, <4>4
    <3>10. CASE y = n - 1
      <4>1. ~ Improves(c[n - 1], c[n])
        BY <1>2, <1>5, <1>7, <3>2, <3>10
      <4>2. ~ (c[n - 1].score + 3 <= c[n].score)
        BY <1>2, <2>2, <4>1 DEF Improves, Epsilon
      <4>3. k # n
        BY <3>7, <3>10, <4>2
      <4>4. c[k].score <= c[n - 1].score
        BY <2>6, <2>7, <4>3
      <4> QED
        BY <1>2, <2>2, <3>7, <3>10, <4>4
    <3> QED
      BY <1>5, <3>2, <3>9, <3>10
  <2> QED
    BY <2>10, <2>11
<1> QED
  BY <1>6, <1>7

LEMMA NoOutcomeBeaten == \A outcome \in Outcomes : outcome.beaten = FALSE
<1> SUFFICES ASSUME NEW outcome \in Outcomes PROVE outcome.beaten = FALSE
  OBVIOUS
<1>0. PICK c \in Chains, normalized \in BOOLEAN : outcome = Outcome(c, normalized)
  BY DEF Outcomes
<1>1. ~ \E a \in {c[k] : k \in 1 .. Assessed(c)} : Wins(a, c[Final(c)])
  BY KeptUnbeaten
<1> QED
  BY <1>0, <1>1 DEF Outcome

(* For every list of assessments, as long as the retries allow: the text   *)
(* a call goes on with after its review (finalText of the review cycle) is *)
(* beaten by no version the cycle assessed.                                *)
THEOREM KeepsUnbeaten == PipelineSpec => []KeepsUnbeatenVersion
<1>1. ASSUME DataInv PROVE KeepsUnbeatenVersion
  <2>1. \A f \in Flows : flows[f].review \in Outcomes \cup {NoReview}
    BY <1>1 DEF DataInv, Shapes, FlowRecords, Reviews
  <2>2. NoReview.beaten = FALSE
    BY DEF NoReview
  <2> QED
    BY <2>1, <2>2, NoOutcomeBeaten DEF KeepsUnbeatenVersion
<1> QED
  BY <1>1, Inductive, PTL
=============================================================================
