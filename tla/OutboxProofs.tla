---------------------------- MODULE OutboxProofs ----------------------------
(***************************************************************************)
(* Theorems about Outbox for any number of concurrent calls, limits and    *)
(* rows: who may execute a row, what a row that is done says, and what a   *)
(* snapshot file shows.                                                    *)
(***************************************************************************)
EXTENDS Outbox, SequenceTheorems, WellFoundedInduction, TLAPS

Topics == {"markdown.export", "search.index", "snapshot.create"}
Statuses == {"pending", "processing", "done", "failed", "cleared"}
Row == [topic : Topics, chapter : Nat, revision : Nat, status : Statuses]

Project == [head : Nat, latest : Nat]
Phases == {"idle", "claiming", "executing", "reading", "succeeded", "raised"}
CallShape == [phase : Phases, row : Nat, after : Nat, left : Nat, failed : BOOLEAN,
              named : Nat, seen : Project]

(* The head of the project counts its chapters and its operator appends.   *)
Counts ==
  /\ head \in Nat /\ chapters \in Nat /\ mishaps \in Nat
  /\ chapters <= MaxChapters /\ chapters <= head /\ head <= chapters + MaxAppends

(* A row is of a revision that was published.                              *)
RowsOK == rows \in Seq(Row) /\ \A i \in Ids : rows[i].revision \in 1 .. head

CallsOK == calls \in [Workers -> CallShape]

FilesOK ==
  /\ exported \cup indexed \subseteq 1 .. chapters
  /\ snapshots \in [1 .. MaxHead -> [project : Project, commits : Nat]]

Shapes == Counts /\ RowsOK /\ CallsOK /\ FilesOK

(* A call that holds a row has it in the table.                            *)
Busy == Phases \ {"idle", "claiming"}
RowsExist == \A w \in Workers : calls[w].phase \in Busy => calls[w].row \in Ids

(* Between its two reads a snapshot has seen the revision of its row, and  *)
(* no more chapters than there are.                                        *)
ReadsAreRecent ==
  \A w \in Workers : calls[w].phase = "reading" =>
    /\ RowOf(w).topic = "snapshot.create"
    /\ RowOf(w).revision <= calls[w].seen.head
    /\ calls[w].seen.latest <= chapters

(* What a call is about to mark done is visible.                           *)
EffectsAreVisible == \A w \in Workers : calls[w].phase = "succeeded" => Visible(RowOf(w))

IndInv ==
  /\ Shapes /\ RowsExist /\ OneHolder /\ ReadsAreRecent /\ EffectsAreVisible
  /\ DoneMeansVisible /\ SnapshotListsItsChapters

----------------------------------------------------------------------------
LEMMA RowFacts ==
  ASSUME Shapes
  PROVE  /\ Len(rows) \in Nat
         /\ \A i \in Ids : rows[i] \in Row /\ rows[i].revision \in 1 .. MaxHead
         /\ MaxHead \in Nat /\ head <= MaxHead
<1>1. Len(rows) \in Nat /\ \A i \in Ids : rows[i] \in Row
  BY LenProperties, ElementOfSeq DEF Shapes, RowsOK, Ids
<1>2. MaxHead \in Nat /\ head <= MaxHead
  BY OutboxAssumption DEF Shapes, Counts, MaxHead
<1> QED
  BY <1>1, <1>2 DEF Shapes, RowsOK, Counts, Row

LEMMA HeldIsBusy ==
  ASSUME CallsOK, NEW w \in Workers, NEW i, Holds(w, i)
  PROVE  calls[w].phase \in Busy /\ calls[w].row = i
BY DEF CallsOK, CallShape, Holds, Busy

(* What is visible stays so when files are added, and a snapshot is only   *)
(* replaced by one that is recent enough.                                  *)
LEMMA VisibleStays ==
  ASSUME NEW r \in Row, Visible(r),
         exported \subseteq exported', indexed \subseteq indexed',
         snapshots'[r.revision] = snapshots[r.revision]
           \/ snapshots'[r.revision].project.head >= r.revision
  PROVE  Visible(r)'
BY DEF Visible, Row, Topics

(* A step of the writers: rows are added, and nothing else changes.        *)
LEMMA RowsAppear ==
  ASSUME IndInv, Counts', head <= head', chapters <= chapters',
         NEW new \in Seq(Row), rows' = rows \o new,
         \A i \in 1 .. Len(new) : new[i].status = "pending" /\ new[i].revision \in 1 .. head',
         UNCHANGED <<calls, effects>>
  PROVE  IndInv'
<1>1. rows \in Seq(Row) /\ Len(rows) \in Nat /\ Len(new) \in Nat
  BY LenProperties DEF IndInv, Shapes, RowsOK
<1>2. /\ rows' \in Seq(Row) /\ Len(rows') = Len(rows) + Len(new)
      /\ \A i \in 1 .. Len(rows) : rows'[i] = rows[i]
      /\ \A i \in 1 .. Len(rows') : i \notin 1 .. Len(rows) => rows'[i] = new[i - Len(rows)]
  BY <1>1, ConcatProperties
<1>3. Ids = 1 .. Len(rows) /\ Ids' = 1 .. Len(rows')
  BY DEF Ids
<1>4. \A i \in Ids' : \/ i \in Ids /\ rows'[i] = rows[i]
                      \/ rows'[i].status = "pending" /\ rows'[i].revision \in 1 .. head'
  BY <1>1, <1>2, <1>3
<1>5. Ids \subseteq Ids' /\ \A i \in Ids : rows'[i] = rows[i]
  BY <1>1, <1>2, <1>3
<1>6. calls' = calls /\ exported' = exported /\ indexed' = indexed /\ snapshots' = snapshots
  BY DEF effects
<1>7. Shapes'
  <2>1. RowsOK'
    <3>1. \A i \in Ids : rows[i].revision \in 1 .. head
      BY DEF IndInv, Shapes, RowsOK
    <3>2. 1 .. head \subseteq 1 .. head'
      BY DEF IndInv, Shapes, Counts
    <3> QED
      BY <1>2, <1>4, <3>1, <3>2 DEF RowsOK
  <2>2. CallsOK' /\ FilesOK'
    BY <1>6 DEF IndInv, Shapes, CallsOK, FilesOK, Counts, MaxHead
  <2> QED
    BY <2>1, <2>2 DEF Shapes
<1>8. RowsExist'
  BY <1>5, <1>6 DEF IndInv, RowsExist
<1>9. \A w \in Workers : calls[w].phase \in Busy => calls[w].row \in Ids /\ RowOf(w)' = RowOf(w)
  BY <1>5, <1>6 DEF IndInv, RowsExist, RowOf
<1>10. OneHolder'
  <2>1. \A w \in Workers, i \in Ids' : Holds(w, i)' => i \in Ids /\ Holds(w, i)
    BY <1>6, <1>9, HeldIsBusy DEF IndInv, Shapes, Holds
  <2> QED
    BY <1>5, <2>1 DEF IndInv, OneHolder
<1>11. ReadsAreRecent'
  <2> SUFFICES ASSUME NEW w \in Workers, calls[w].phase = "reading"
               PROVE  /\ RowOf(w)'.topic = "snapshot.create"
                      /\ RowOf(w)'.revision <= calls[w].seen.head
                      /\ calls[w].seen.latest <= chapters'
    BY <1>6 DEF ReadsAreRecent
  <2>1. RowOf(w)' = RowOf(w)
    BY <1>9 DEF Busy, Phases
  <2>2. calls[w].seen.latest \in Nat /\ chapters \in Nat /\ chapters' \in Nat
    BY DEF IndInv, Shapes, CallsOK, CallShape, Project, Counts
  <2> QED
    BY <2>1, <2>2 DEF IndInv, ReadsAreRecent
<1>12. \A r \in Row : Visible(r)' = Visible(r)
  BY <1>6 DEF Visible
<1>13. \A i \in Ids : rows[i] \in Row
  BY RowFacts DEF IndInv
<1>14. EffectsAreVisible'
  BY <1>6, <1>9, <1>12, <1>13 DEF IndInv, EffectsAreVisible, Busy, Phases, RowOf, RowsExist
<1>15. DoneMeansVisible'
  <2>1. 1 .. chapters \subseteq 1 .. chapters'
    BY DEF IndInv, Shapes, Counts
  <2> QED
    BY <1>4, <1>6, <1>12, <1>13, <2>1 DEF IndInv, DoneMeansVisible
<1>16. SnapshotListsItsChapters'
  BY <1>6 DEF IndInv, SnapshotListsItsChapters, MaxHead
<1> QED
  BY <1>7, <1>8, <1>10, <1>11, <1>14, <1>15, <1>16 DEF IndInv

(* A step of one call that leaves the rows alone: it lets go of its row or *)
(* keeps it, and adds files or replaces a snapshot by a recent one.        *)
LEMMA CallMoves ==
  ASSUME IndInv, NEW w \in Workers, NEW new \in CallShape,
         calls' = [calls EXCEPT ![w] = new],
         UNCHANGED <<head, chapters, rows>>, mishaps' \in Nat,
         FilesOK', SnapshotListsItsChapters',
         exported \subseteq exported', indexed \subseteq indexed',
         \A r \in 1 .. MaxHead :
           snapshots'[r] = snapshots[r] \/ snapshots'[r].project.head >= r,
         new.phase \in Busy => calls[w].phase \in Busy /\ new.row = calls[w].row,
         new.phase = "reading" => /\ RowOf(w).topic = "snapshot.create"
                                  /\ RowOf(w).revision <= new.seen.head
                                  /\ new.seen.latest <= chapters,
         new.phase = "succeeded" => Visible(RowOf(w))'
  PROVE  IndInv'
<1>1. calls \in [Workers -> CallShape]
  BY DEF IndInv, Shapes, CallsOK
<1>2. calls'[w] = new /\ \A x \in Workers : x # w => calls'[x] = calls[x]
  BY <1>1
<1>3. Shapes'
  BY <1>1 DEF IndInv, Shapes, Counts, RowsOK, CallsOK, Ids
<1>4. rows' = rows /\ Ids' = Ids
  BY DEF Ids
<1>5. RowsExist'
  BY <1>2, <1>4 DEF IndInv, RowsExist
<1>6. \A x \in Workers, i \in Ids : Holds(x, i)' => Holds(x, i)
  <2> SUFFICES ASSUME NEW i \in Ids, Holds(w, i)' PROVE Holds(w, i)
    BY <1>2 DEF Holds
  <2>1. new.phase \in Busy /\ new.row = i
    BY <1>2 DEF Holds, CallShape, Busy
  <2> QED
    BY <2>1 DEF Holds, Busy
<1>7. OneHolder'
  BY <1>4, <1>6 DEF IndInv, OneHolder
<1>8. "reading" \in Busy /\ "succeeded" \in Busy
  BY DEF Busy, Phases
<1>9. ReadsAreRecent'
  BY <1>2, <1>4, <1>8 DEF IndInv, ReadsAreRecent, RowOf
<1>10. \A i \in Ids : rows[i] \in Row /\ rows[i].revision \in 1 .. MaxHead
  BY RowFacts DEF IndInv
<1>11. \A i \in Ids : Visible(rows[i]) => Visible(rows[i])'
  BY <1>4, <1>10, VisibleStays
<1>12. EffectsAreVisible'
  <2> SUFFICES ASSUME NEW x \in Workers, x # w, calls[x].phase = "succeeded"
               PROVE  Visible(RowOf(x))'
    BY <1>2 DEF EffectsAreVisible
  <2>1. calls[x].row \in Ids /\ Visible(rows[calls[x].row])
    BY <1>8 DEF IndInv, RowsExist, EffectsAreVisible, RowOf
  <2> QED
    BY <1>2, <1>11, <2>1 DEF RowOf
<1>13. DoneMeansVisible'
  BY <1>4, <1>11 DEF IndInv, DoneMeansVisible, FilesOK
<1> QED
  BY <1>3, <1>5, <1>7, <1>9, <1>12, <1>13 DEF IndInv

(* A step that changes the status of rows: a row is only held by one call, *)
(* which sees it in processing, and only a visible row becomes done.       *)
LEMMA RowsChange ==
  ASSUME IndInv, rows' \in Seq(Row), Len(rows') = Len(rows),
         \A i \in Ids : /\ rows'[i].topic = rows[i].topic
                        /\ rows'[i].chapter = rows[i].chapter
                        /\ rows'[i].revision = rows[i].revision,
         \A i \in Ids : rows'[i].status = "done" => rows[i].status = "done" \/ Visible(rows[i]),
         UNCHANGED <<head, chapters, effects>>, mishaps' \in Nat, CallsOK',
         \A x \in Workers : calls'[x].phase \in Busy =>
           calls'[x].row \in Ids /\ rows'[calls'[x].row].status = "processing",
         \A x, y \in Workers : (calls'[x].phase \in Busy /\ calls'[y].phase \in Busy
                                /\ calls'[x].row = calls'[y].row) => x = y,
         \A x \in Workers : calls'[x].phase \in {"reading", "succeeded"} => calls'[x] = calls[x]
  PROVE  IndInv'
<1>1. Ids' = Ids
  BY DEF Ids
<1>2. exported' = exported /\ indexed' = indexed /\ snapshots' = snapshots
  BY DEF effects
<1>3. Shapes'
  BY <1>1, <1>2 DEF IndInv, Shapes, Counts, RowsOK, FilesOK, MaxHead
<1>4. RowsExist'
  BY <1>1 DEF RowsExist
<1>5. OneHolder'
  <2>1. \A x \in Workers, i \in Ids : Holds(x, i)' => calls'[x].phase \in Busy /\ calls'[x].row = i
    BY DEF Holds, CallsOK, CallShape, Busy
  <2> QED
    BY <1>1, <2>1 DEF OneHolder
<1>6. \A x \in Workers : calls'[x].phase \in {"reading", "succeeded"} =>
        /\ calls[x].phase = calls'[x].phase /\ calls[x].row \in Ids
        /\ RowOf(x)'.topic = RowOf(x).topic /\ RowOf(x)'.chapter = RowOf(x).chapter
        /\ RowOf(x)'.revision = RowOf(x).revision
  BY DEF IndInv, RowsExist, RowOf, Busy, Phases
<1>7. ReadsAreRecent'
  BY <1>6 DEF IndInv, ReadsAreRecent
<1>8. EffectsAreVisible'
  <2> SUFFICES ASSUME NEW x \in Workers, calls'[x].phase = "succeeded"
               PROVE  Visible(RowOf(x))'
    BY DEF EffectsAreVisible
  <2>1. Visible(RowOf(x)) /\ RowOf(x).topic \in Topics
    BY <1>6, RowFacts DEF IndInv, EffectsAreVisible, RowOf, Row
  <2>2. /\ RowOf(x)'.topic = RowOf(x).topic /\ RowOf(x)'.chapter = RowOf(x).chapter
        /\ RowOf(x)'.revision = RowOf(x).revision
    BY <1>6
  <2>3. CASE RowOf(x).topic = "markdown.export"
    BY <1>2, <2>1, <2>2, <2>3 DEF Visible
  <2>4. CASE RowOf(x).topic = "search.index"
    BY <1>2, <2>1, <2>2, <2>4 DEF Visible
  <2>5. CASE RowOf(x).topic = "snapshot.create"
    BY <1>2, <2>1, <2>2, <2>5 DEF Visible
  <2> QED
    BY <2>1, <2>3, <2>4, <2>5 DEF Topics
<1>9. \A i \in Ids : Visible(rows[i]) => Visible(rows[i])'
  BY <1>2 DEF Visible
<1>10. DoneMeansVisible'
  BY <1>1, <1>2, <1>9 DEF IndInv, DoneMeansVisible
<1>11. SnapshotListsItsChapters'
  BY <1>2 DEF IndInv, SnapshotListsItsChapters, MaxHead
<1> QED
  BY <1>3, <1>4, <1>5, <1>7, <1>8, <1>10, <1>11 DEF IndInv

LEMMA BusyRows ==
  ASSUME IndInv
  PROVE  /\ \A x \in Workers : calls[x].phase \in Busy =>
              calls[x].row \in Ids /\ rows[calls[x].row].status = "processing"
         /\ \A x, y \in Workers : (calls[x].phase \in Busy /\ calls[y].phase \in Busy
                                   /\ calls[x].row = calls[y].row) => x = y
<1>1. \A x \in Workers : calls[x].phase \in Busy =>
        calls[x].row \in Ids /\ Holds(x, calls[x].row)
  BY DEF IndInv, RowsExist, Holds, Busy
<1>2. \A x, y \in Workers : (calls[x].phase \in Busy /\ calls[y].phase \in Busy
                             /\ calls[x].row = calls[y].row) => x = y
  <2> SUFFICES ASSUME NEW x \in Workers, NEW y \in Workers, calls[x].phase \in Busy,
                      calls[y].phase \in Busy, calls[x].row = calls[y].row
               PROVE  x = y
    OBVIOUS
  <2>1. calls[x].row \in Ids /\ Holds(x, calls[x].row) /\ Holds(y, calls[x].row)
    BY <1>1
  <2> QED
    BY <2>1 DEF IndInv, OneHolder
<1> QED
  BY <1>1, <1>2 DEF IndInv, OneHolder

LEMMA StatusChange ==
  ASSUME rows \in Seq(Row), NEW i \in Ids, NEW st \in Statuses,
         rows' = [rows EXCEPT ![i].status = st]
  PROVE  /\ rows' \in Seq(Row) /\ Len(rows') = Len(rows)
         /\ \A j \in Ids : /\ j # i => rows'[j] = rows[j]
                           /\ rows'[j].topic = rows[j].topic /\ rows'[j].chapter = rows[j].chapter
                           /\ rows'[j].revision = rows[j].revision
         /\ rows'[i].status = st
<1> DEFINE e == [rows[i] EXCEPT !.status = st]
<1>1. i \in 1 .. Len(rows) /\ Ids = 1 .. Len(rows) /\ rows[i] \in Row
  BY ElementOfSeq DEF Ids
<1>2. /\ e \in Row /\ e.status = st /\ e.topic = rows[i].topic
      /\ e.chapter = rows[i].chapter /\ e.revision = rows[i].revision
  BY <1>1 DEF Row
<1>3. rows' = [rows EXCEPT ![i] = e]
  BY <1>1
<1> HIDE DEF e
<1>4. /\ rows' \in Seq(Row) /\ Len(rows') = Len(rows)
      /\ \A j \in 1 .. Len(rows) : rows'[j] = IF j = i THEN e ELSE rows[j]
  BY <1>1, <1>2, <1>3, ExceptSeq
<1> QED
  BY <1>1, <1>2, <1>4

(* A set of row numbers that is not empty has a least one.                 *)
LEMMA LeastRow ==
  ASSUME NEW n \in Nat, NEW S \in SUBSET (1 .. n), S # {}
  PROVE  \E j \in S : \A k \in S : j <= k
<1>1. S \subseteq Nat
  OBVIOUS
<1>2. \E j \in S : \A k \in S : ~ (<<k, j>> \in OpToRel(<, Nat))
  BY <1>1, NatLessThanWellFounded, WFMin
<1>3. \A j, k \in Nat : k < j => <<k, j>> \in OpToRel(<, Nat)
  BY DEF OpToRel
<1>4. \E j \in S : \A k \in S : ~ (k < j)
  BY <1>1, <1>2, <1>3
<1> QED
  BY <1>1, <1>4

----------------------------------------------------------------------------
LEMMA FinalizeStep ==
  ASSUME IndInv, FinalizeChapter
  PROVE  IndInv'
<1> DEFINE new == << Pending("markdown.export", chapters', head'),
                     Pending("search.index", chapters', head'),
                     Pending("snapshot.create", chapters', head') >>
<1>1. /\ chapters < MaxChapters /\ chapters' = chapters + 1 /\ head' = head + 1
      /\ rows' = rows \o new /\ UNCHANGED <<calls, effects, mishaps>>
  BY DEF FinalizeChapter
<1>2. Counts' /\ head <= head' /\ chapters <= chapters' /\ head' \in Nat /\ chapters' \in Nat
      /\ head' \in 1 .. head'
  BY <1>1, OutboxAssumption DEF IndInv, Shapes, Counts
<1>3. \A t \in Topics : /\ Pending(t, chapters', head') \in Row
                        /\ Pending(t, chapters', head').status = "pending"
                        /\ Pending(t, chapters', head').revision = head'
  BY <1>2 DEF Pending, Row, Statuses
<1>4. \A t \in {"markdown.export", "search.index", "snapshot.create"} : t \in Topics
  BY DEF Topics
<1>5. /\ new \in Seq(Row) /\ Len(new) = 3
      /\ \A i \in 1 .. 3 : new[i].status = "pending" /\ new[i].revision = head'
  BY <1>3, <1>4
<1> HIDE DEF new
<1> QED
  BY <1>1, <1>2, <1>5, RowsAppear

LEMMA AppendStep ==
  ASSUME IndInv, AppendOperatorEvents
  PROVE  IndInv'
<1> DEFINE new == << Pending("search.index", 0, head') >>
<1>1. /\ head - chapters < MaxAppends /\ head' = head + 1
      /\ rows' = Append(rows, Pending("search.index", 0, head'))
      /\ UNCHANGED <<chapters, calls, effects, mishaps>>
  BY DEF AppendOperatorEvents
<1>2. Counts' /\ head <= head' /\ chapters <= chapters' /\ head' \in Nat /\ head' \in 1 .. head'
  BY <1>1, OutboxAssumption DEF IndInv, Shapes, Counts
<1>3. Pending("search.index", 0, head') \in Row
  BY <1>2 DEF Pending, Row, Statuses, Topics
<1>4. /\ new \in Seq(Row) /\ Len(new) = 1
      /\ \A i \in 1 .. 1 : new[i].status = "pending" /\ new[i].revision = head'
  BY <1>3 DEF Pending
<1>5. rows' = rows \o new
  BY <1>1, <1>3, AppendIsConcat DEF IndInv, Shapes, RowsOK
<1> HIDE DEF new
<1> QED
  BY <1>1, <1>2, <1>4, <1>5, RowsAppear

(* What a call may do without touching rows or files.                      *)
LEMMA QuietCall ==
  ASSUME IndInv, NEW w \in Workers, NEW new \in CallShape,
         calls' = [calls EXCEPT ![w] = new],
         UNCHANGED <<head, chapters, rows, effects>>, mishaps' \in Nat,
         new.phase \in Busy => calls[w].phase \in Busy /\ new.row = calls[w].row,
         new.phase = "reading" => /\ RowOf(w).topic = "snapshot.create"
                                  /\ RowOf(w).revision <= new.seen.head
                                  /\ new.seen.latest <= chapters,
         new.phase # "succeeded"
  PROVE  IndInv'
<1>1. /\ exported \subseteq exported' /\ indexed \subseteq indexed'
      /\ \A r \in 1 .. MaxHead : snapshots'[r] = snapshots[r]
  BY DEF effects
<1>2. FilesOK' /\ SnapshotListsItsChapters'
  BY DEF effects, IndInv, Shapes, FilesOK, SnapshotListsItsChapters, MaxHead
<1> QED
  BY <1>1, <1>2, CallMoves

LEMMA IdleShape == Idle \in CallShape /\ Idle.phase = "idle"
BY DEF Idle, NoProject, CallShape, Phases, Project

LEMMA RunStep ==
  ASSUME IndInv, NEW w \in Workers, NEW limit \in Nat, NEW retry \in BOOLEAN, NEW id \in Nat,
         Call(w, limit, retry, id), UNCHANGED <<head, chapters, rows, effects>>, mishaps' \in Nat
  PROVE  IndInv'
<1> DEFINE new == [Idle EXCEPT !.phase = "claiming", !.left = limit, !.failed = retry,
                               !.named = id]
<1>1. new \in CallShape /\ new.phase = "claiming" /\ calls' = [calls EXCEPT ![w] = new]
  BY DEF Call, Idle, NoProject, CallShape, Phases, Project
<1>2. "claiming" \notin Busy
  BY DEF Busy
<1> HIDE DEF new
<1> QED
  BY <1>1, <1>2, QuietCall

LEMMA LeaveStep ==
  ASSUME IndInv, NEW w \in Workers, calls' = [calls EXCEPT ![w] = Idle],
         UNCHANGED <<head, chapters, rows, effects>>, mishaps' \in Nat
  PROVE  IndInv'
<1>1. "idle" \notin Busy
  BY DEF Busy
<1> QED
  BY <1>1, IdleShape, QuietCall

LEMMA ReadProjectStep ==
  ASSUME IndInv, NEW w \in Workers, ReadProject(w)
  PROVE  IndInv'
<1> DEFINE new == [calls[w] EXCEPT !.phase = "reading",
                                   !.seen = [head |-> head, latest |-> chapters]]
<1>1. calls[w] \in CallShape /\ calls[w].phase = "executing" /\ head \in Nat /\ chapters \in Nat
      /\ mishaps \in Nat
  BY DEF IndInv, Shapes, CallsOK, Counts, ReadProject
<1>2. /\ new \in CallShape /\ new.phase = "reading" /\ new.row = calls[w].row
      /\ new.seen.head = head /\ new.seen.latest = chapters
  BY <1>1 DEF CallShape, Phases, Project
<1>3. calls' = [calls EXCEPT ![w] = new]
      /\ UNCHANGED <<head, chapters, rows, effects, mishaps>>
  BY <1>1 DEF ReadProject, IndInv, Shapes, CallsOK
<1>4. "executing" \in Busy
  BY DEF Busy, Phases
<1>5. RowOf(w).topic = "snapshot.create" /\ RowOf(w).revision \in 1 .. head
  BY <1>1, <1>4 DEF ReadProject, IndInv, RowsExist, Shapes, RowsOK, RowOf
<1>6. RowOf(w).revision <= new.seen.head /\ new.seen.latest <= chapters
  BY <1>1, <1>2, <1>5
<1> HIDE DEF new
<1> QED
  BY <1>1, <1>2, <1>3, <1>4, <1>5, <1>6, QuietCall

LEMMA RaiseStep ==
  ASSUME IndInv, NEW w \in Workers, ExecuteRaises(w) \/ Faults(w)
  PROVE  IndInv'
<1>1. calls[w] \in CallShape /\ calls[w].phase \in Busy /\ mishaps \in Nat
  BY DEF IndInv, Shapes, CallsOK, Counts, ExecuteRaises, Faults, Busy, Phases
<1>2. PICK new \in CallShape : /\ calls' = [calls EXCEPT ![w] = new]
                               /\ new.phase = "raised" /\ new.row = calls[w].row
  <2>1. CASE ExecuteRaises(w)
    <3> DEFINE new == [calls[w] EXCEPT !.phase = "raised"]
    <3>1. new \in CallShape /\ new.phase = "raised" /\ new.row = calls[w].row
      BY <1>1 DEF CallShape, Phases
    <3>2. calls' = [calls EXCEPT ![w] = new]
      BY <2>1 DEF ExecuteRaises, IndInv, Shapes, CallsOK
    <3> QED
      BY <3>1, <3>2
  <2>2. CASE Faults(w)
    <3> DEFINE new == [calls[w] EXCEPT !.phase = "raised", !.seen = NoProject]
    <3>1. new \in CallShape /\ new.phase = "raised" /\ new.row = calls[w].row
      BY <1>1 DEF CallShape, Phases, NoProject, Project
    <3>2. calls' = [calls EXCEPT ![w] = new]
      BY <2>2 DEF Faults, IndInv, Shapes, CallsOK
    <3> QED
      BY <3>1, <3>2
  <2> QED
    BY <2>1, <2>2
<1>3. UNCHANGED <<head, chapters, rows, effects>> /\ mishaps' \in Nat
  BY <1>1 DEF ExecuteRaises, Faults
<1> QED
  BY <1>1, <1>2, <1>3, QuietCall

LEMMA ExecuteStep ==
  ASSUME IndInv, NEW w \in Workers, Execute(w)
  PROVE  IndInv'
<1> DEFINE new == [calls[w] EXCEPT !.phase = "succeeded"]
<1>1. calls[w] \in CallShape /\ calls[w].phase = "executing" /\ mishaps \in Nat
  BY DEF IndInv, Shapes, CallsOK, Counts, Execute
<1>2. new \in CallShape /\ new.phase = "succeeded" /\ new.row = calls[w].row
  BY <1>1 DEF CallShape, Phases
<1>3. /\ calls' = [calls EXCEPT ![w] = new]
      /\ UNCHANGED <<head, chapters, rows, snapshots, mishaps>>
  BY <1>1 DEF Execute, IndInv, Shapes, CallsOK
<1>4. "executing" \in Busy
  BY DEF Busy, Phases
<1>5. calls[w].row \in Ids /\ RowOf(w) \in Row
  BY <1>1, <1>4, RowFacts DEF IndInv, RowsExist, RowOf
<1>6. RowOf(w).topic # "snapshot.create" /\ RowOf(w).chapter \in 1 .. chapters
  BY DEF Execute, Deliverable
<1>7. /\ exported' = IF RowOf(w).topic = "markdown.export"
                     THEN exported \cup {RowOf(w).chapter} ELSE exported
      /\ indexed' = IF RowOf(w).topic = "search.index"
                    THEN indexed \cup {RowOf(w).chapter} ELSE indexed
  BY DEF Execute
<1>8. FilesOK' /\ SnapshotListsItsChapters'
  BY <1>3, <1>6, <1>7 DEF IndInv, Shapes, FilesOK, SnapshotListsItsChapters, MaxHead
<1>9. rows[calls[w].row]' = rows[calls[w].row] /\ RowOf(w)' = RowOf(w)
  BY <1>1, <1>2, <1>3 DEF RowOf, IndInv, Shapes, CallsOK
<1>10. Visible(RowOf(w))'
  <2>1. RowOf(w).topic \in {"markdown.export", "search.index"}
    BY <1>5, <1>6 DEF Row, Topics
  <2>2. RowOf(w).topic = "markdown.export" => RowOf(w).chapter \in exported'
    BY <1>7
  <2>3. RowOf(w).topic = "search.index" => RowOf(w).chapter \in indexed'
    BY <1>7
  <2>4. CASE RowOf(w).topic = "markdown.export"
    BY <1>9, <2>2, <2>4 DEF Visible
  <2>5. CASE RowOf(w).topic = "search.index"
    BY <1>9, <2>3, <2>5 DEF Visible
  <2> QED
    BY <2>1, <2>4, <2>5
<1>11. exported \subseteq exported' /\ indexed \subseteq indexed'
  BY <1>7
<1> HIDE DEF new
<1> QED
  BY <1>1, <1>2, <1>3, <1>4, <1>8, <1>10, <1>11, CallMoves

(* A snapshot is as recent as its row, and its commits are read after the  *)
(* project.                                                                *)
LEMMA WriteSnapshotStep ==
  ASSUME IndInv, NEW w \in Workers, WriteSnapshot(w)
  PROVE  IndInv'
<1> DEFINE new == [calls[w] EXCEPT !.phase = "succeeded", !.seen = NoProject]
           shown == [project |-> calls[w].seen, commits |-> chapters]
           rev == RowOf(w).revision
<1>1. calls[w] \in CallShape /\ calls[w].phase = "reading" /\ mishaps \in Nat /\ chapters \in Nat
  BY DEF IndInv, Shapes, CallsOK, Counts, WriteSnapshot
<1>2. new \in CallShape /\ new.phase = "succeeded" /\ new.row = calls[w].row
  BY <1>1 DEF CallShape, Phases, NoProject, Project
<1>3. /\ calls' = [calls EXCEPT ![w] = new]
      /\ snapshots' = [snapshots EXCEPT ![rev] = shown]
      /\ UNCHANGED <<head, chapters, rows, exported, indexed, mishaps>>
  BY <1>1 DEF WriteSnapshot, Shown, IndInv, Shapes, CallsOK
<1>4. "reading" \in Busy
  BY DEF Busy, Phases
<1>5. /\ calls[w].row \in Ids /\ RowOf(w).topic = "snapshot.create"
      /\ rev \in 1 .. MaxHead /\ rev <= calls[w].seen.head
      /\ calls[w].seen \in Project /\ calls[w].seen.latest <= chapters
  BY <1>1, <1>4, RowFacts DEF IndInv, RowsExist, ReadsAreRecent, RowOf, CallShape
<1>6. shown \in [project : Project, commits : Nat] /\ shown.project.head >= rev
      /\ shown.project.latest <= shown.commits
  BY <1>1, <1>5 DEF Project
<1>7. RowOf(w)' = RowOf(w)
  BY <1>1, <1>2, <1>3 DEF RowOf, IndInv, Shapes, CallsOK
<1> HIDE DEF new, shown
<1>8. snapshots \in [1 .. MaxHead -> [project : Project, commits : Nat]]
  BY DEF IndInv, Shapes, FilesOK
<1>9. snapshots'[rev] = shown /\ \A r \in 1 .. MaxHead : r # rev => snapshots'[r] = snapshots[r]
  BY <1>3, <1>5, <1>8
<1>10. FilesOK'
  BY <1>3, <1>5, <1>6, <1>8 DEF IndInv, Shapes, FilesOK, MaxHead
<1>11. SnapshotListsItsChapters'
  BY <1>6, <1>9 DEF IndInv, SnapshotListsItsChapters, MaxHead
<1>12. Visible(RowOf(w))'
  BY <1>5, <1>6, <1>7, <1>9 DEF Visible
<1>13. \A r \in 1 .. MaxHead : snapshots'[r] = snapshots[r] \/ snapshots'[r].project.head >= r
  BY <1>6, <1>9
<1> QED
  BY <1>1, <1>2, <1>3, <1>4, <1>10, <1>11, <1>12, <1>13, CallMoves

(* A claimed row was held by nobody.                                       *)
LEMMA ClaimStep ==
  ASSUME IndInv, NEW w \in Workers, Claim(w)
  PROVE  IndInv'
<1> DEFINE i == First(Claimable(w))
           new == [calls[w] EXCEPT !.phase = "executing", !.row = i, !.after = i, !.left = @ - 1]
<1>1. calls[w] \in CallShape /\ calls[w].left > 0 /\ mishaps \in Nat /\ rows \in Seq(Row)
      /\ Len(rows) \in Nat /\ \A j \in Ids : rows[j] \in Row
  BY RowFacts DEF IndInv, Shapes, CallsOK, Counts, RowsOK, Claim, MayClaim
<1>2. i \in Ids /\ rows[i].status \in {"pending", "failed"}
  <2>1. Claimable(w) # {} /\ Claimable(w) \subseteq 1 .. Len(rows)
    BY DEF Claim, Claimable, Ids
  <2>2. \E j \in Claimable(w) : \A k \in Claimable(w) : j <= k
    BY <1>1, <2>1, LeastRow
  <2>3. i \in Claimable(w)
    BY <2>2 DEF First
  <2> QED
    BY <2>3 DEF Claimable
<1>3. /\ rows' = [rows EXCEPT ![i].status = "processing"]
      /\ UNCHANGED <<head, chapters, effects, mishaps>>
  BY DEF Claim
<1> HIDE DEF i
<1>4. new \in CallShape /\ new.phase = "executing" /\ new.row = i
  <2>1. i \in Nat /\ calls[w].left - 1 \in Nat
    BY <1>1, <1>2 DEF CallShape, Ids
  <2> QED
    BY <1>1, <2>1 DEF CallShape, Phases
<1>5. calls' = [calls EXCEPT ![w] = new]
  BY <1>1 DEF Claim, i, IndInv, Shapes, CallsOK
<1> HIDE DEF new
<1>6. /\ rows' \in Seq(Row) /\ Len(rows') = Len(rows)
      /\ \A j \in Ids : /\ j # i => rows'[j] = rows[j]
                        /\ rows'[j].topic = rows[j].topic /\ rows'[j].chapter = rows[j].chapter
                        /\ rows'[j].revision = rows[j].revision
      /\ rows'[i].status = "processing"
  BY <1>1, <1>2, <1>3, StatusChange DEF Statuses
<1>7. CallsOK' /\ calls'[w] = new /\ \A x \in Workers : x # w => calls'[x] = calls[x]
  BY <1>4, <1>5 DEF IndInv, Shapes, CallsOK
<1>8. \A x \in Workers : calls[x].phase \in Busy =>
        calls[x].row \in Ids /\ calls[x].row # i /\ rows[calls[x].row].status = "processing"
  BY <1>2, BusyRows
<1>9. \A x, y \in Workers : (calls'[x].phase \in Busy /\ calls'[y].phase \in Busy
                             /\ calls'[x].row = calls'[y].row) => x = y
  <2> SUFFICES ASSUME NEW x \in Workers, NEW y \in Workers, calls'[x].phase \in Busy,
                      calls'[y].phase \in Busy, calls'[x].row = calls'[y].row
               PROVE  x = y
    OBVIOUS
  <2>1. CASE x = w
    BY <1>4, <1>7, <1>8, <2>1
  <2>2. CASE y = w
    BY <1>4, <1>7, <1>8, <2>2
  <2>3. CASE x # w /\ y # w
    BY <1>7, <2>3, BusyRows
  <2> QED
    BY <2>1, <2>2, <2>3
<1>10. \A x \in Workers : calls'[x].phase \in Busy =>
         calls'[x].row \in Ids /\ rows'[calls'[x].row].status = "processing"
  BY <1>2, <1>4, <1>6, <1>7, <1>8
<1>11. \A j \in Ids : rows'[j].status = "done" => rows[j].status = "done"
  BY <1>6
<1>12. \A x \in Workers : calls'[x].phase \in {"reading", "succeeded"} => calls'[x] = calls[x]
  BY <1>4, <1>7
<1> QED
  BY <1>1, <1>3, <1>6, <1>7, <1>9, <1>10, <1>11, <1>12, RowsChange

(* A row becomes done only by a call that made its effect visible.         *)
LEMMA FinishStep ==
  ASSUME IndInv, NEW w \in Workers, Finish(w)
  PROVE  IndInv'
<1> DEFINE i == calls[w].row
           st == IF calls[w].phase = "succeeded" THEN "done" ELSE "failed"
           new == [calls[w] EXCEPT !.phase = "claiming", !.row = 0]
<1>1. calls[w] \in CallShape /\ calls[w].phase \in {"succeeded", "raised"} /\ mishaps \in Nat
      /\ rows \in Seq(Row) /\ \A j \in Ids : rows[j] \in Row
  BY RowFacts DEF IndInv, Shapes, CallsOK, Counts, RowsOK, Finish
<1>2. calls[w].phase \in Busy /\ "claiming" \notin Busy
  BY <1>1 DEF Busy, Phases
<1>3. i \in Ids
  BY <1>2 DEF IndInv, RowsExist
<1>4. /\ rows' = [rows EXCEPT ![i].status = st]
      /\ calls' = [calls EXCEPT ![w] = new]
      /\ UNCHANGED <<head, chapters, effects, mishaps>>
  BY <1>1 DEF Finish, IndInv, Shapes, CallsOK
<1>5. new \in CallShape /\ new.phase = "claiming"
  BY <1>1 DEF CallShape, Phases
<1>6. st \in Statuses /\ (st = "done" => Visible(rows[i]))
  BY DEF Statuses, IndInv, EffectsAreVisible, RowOf
<1> HIDE DEF new, st
<1>7. /\ rows' \in Seq(Row) /\ Len(rows') = Len(rows)
      /\ \A j \in Ids : /\ j # i => rows'[j] = rows[j]
                        /\ rows'[j].topic = rows[j].topic /\ rows'[j].chapter = rows[j].chapter
                        /\ rows'[j].revision = rows[j].revision
      /\ rows'[i].status = st
  BY <1>1, <1>3, <1>4, <1>6, StatusChange
<1>8. CallsOK' /\ calls'[w] = new /\ \A x \in Workers : x # w => calls'[x] = calls[x]
  BY <1>4, <1>5 DEF IndInv, Shapes, CallsOK
<1>9. \A x \in Workers : calls'[x].phase \in Busy => x # w
  BY <1>2, <1>5, <1>8
<1>10. \A x \in Workers : x # w /\ calls[x].phase \in Busy =>
         calls[x].row \in Ids /\ calls[x].row # i /\ rows[calls[x].row].status = "processing"
  BY <1>2, BusyRows
<1>11. \A x, y \in Workers : (calls'[x].phase \in Busy /\ calls'[y].phase \in Busy
                              /\ calls'[x].row = calls'[y].row) => x = y
  <2> SUFFICES ASSUME NEW x \in Workers, NEW y \in Workers, calls'[x].phase \in Busy,
                      calls'[y].phase \in Busy, calls'[x].row = calls'[y].row
               PROVE  x = y
    OBVIOUS
  <2>1. calls'[x] = calls[x] /\ calls'[y] = calls[y]
    BY <1>8, <1>9
  <2> QED
    BY <2>1, BusyRows
<1>12. \A x \in Workers : calls'[x].phase \in Busy =>
         calls'[x].row \in Ids /\ rows'[calls'[x].row].status = "processing"
  BY <1>7, <1>8, <1>9, <1>10
<1>13. \A j \in Ids : rows'[j].status = "done" => rows[j].status = "done" \/ Visible(rows[j])
  BY <1>6, <1>7
<1>14. \A x \in Workers : calls'[x].phase \in {"reading", "succeeded"} => calls'[x] = calls[x]
  BY <1>5, <1>8
<1> QED
  BY <1>1, <1>4, <1>7, <1>8, <1>11, <1>12, <1>13, <1>14, RowsChange

LEMMA ClearStep ==
  ASSUME IndInv, ClearRetryQueue
  PROVE  IndInv'
<1> DEFINE new(i) == IF rows[i].status = "failed" THEN [rows[i] EXCEPT !.status = "cleared"]
                     ELSE rows[i]
<1>1. rows \in Seq(Row) /\ Len(rows) \in Nat /\ mishaps \in Nat /\ \A i \in Ids : rows[i] \in Row
  BY RowFacts DEF IndInv, Shapes, Counts, RowsOK
<1>2. /\ rows' = [i \in 1 .. Len(rows) |-> new(i)]
      /\ UNCHANGED <<head, chapters, calls, effects>> /\ mishaps' \in Nat
  BY <1>1 DEF ClearRetryQueue, Ids
<1>3. \A i \in Ids : /\ new(i) \in Row /\ new(i).topic = rows[i].topic
                     /\ new(i).chapter = rows[i].chapter /\ new(i).revision = rows[i].revision
                     /\ rows[i].status # "failed" => new(i) = rows[i]
                     /\ rows[i].status = "failed" => new(i).status = "cleared"
  BY <1>1 DEF Row, Statuses
<1> HIDE DEF new
<1>4. rows' \in [1 .. Len(rows) -> Row] /\ \A i \in Ids : rows'[i] = new(i)
  BY <1>2, <1>3 DEF Ids
<1>5. rows' \in Seq(Row) /\ Len(rows') = Len(rows)
  BY <1>1, <1>4
<1>6. /\ \A i \in Ids : rows'[i].status = "done" => rows[i].status = "done"
      /\ \A i \in Ids : rows[i].status = "processing" => rows'[i].status = "processing"
  BY <1>3, <1>4
<1>7. CallsOK'
  BY <1>2 DEF IndInv, Shapes, CallsOK
<1>8. \A x \in Workers : calls'[x].phase \in Busy =>
        calls'[x].row \in Ids /\ rows'[calls'[x].row].status = "processing"
  BY <1>2, <1>6, BusyRows
<1>9. \A x, y \in Workers : (calls'[x].phase \in Busy /\ calls'[y].phase \in Busy
                             /\ calls'[x].row = calls'[y].row) => x = y
  BY <1>2, BusyRows
<1> QED
  BY <1>2, <1>3, <1>4, <1>5, <1>6, <1>7, <1>8, <1>9, RowsChange

LEMMA Inductive == Spec => []IndInv
<1>1. Init => IndInv
  <2> SUFFICES ASSUME Init PROVE IndInv
    OBVIOUS
  <2>1. Ids = {} /\ rows \in Seq(Row)
    BY EmptySeq DEF Init, Ids
  <2>2. calls \in [Workers -> CallShape] /\ \A w \in Workers : calls[w].phase = "idle"
    BY IdleShape DEF Init
  <2>3. NoFile \in [project : Project, commits : Nat] /\ NoFile.project.latest <= NoFile.commits
    BY DEF NoFile, NoProject, Project
  <2>4. Counts
    BY OutboxAssumption DEF Init, Counts
  <2>5. FilesOK
    BY <2>3 DEF Init, FilesOK
  <2>6. SnapshotListsItsChapters
    BY <2>3 DEF Init, SnapshotListsItsChapters
  <2>7. RowsExist /\ ReadsAreRecent /\ EffectsAreVisible
    BY <2>2 DEF RowsExist, ReadsAreRecent, EffectsAreVisible, Busy
  <2>8. OneHolder /\ DoneMeansVisible
    BY <2>1, <2>5 DEF OneHolder, DoneMeansVisible, FilesOK
  <2> QED
    BY <2>1, <2>2, <2>4, <2>5, <2>6, <2>7, <2>8 DEF IndInv, Shapes, RowsOK, CallsOK
<1>2. IndInv /\ [Next]_vars => IndInv'
  <2> SUFFICES ASSUME IndInv, [Next]_vars PROVE IndInv'
    OBVIOUS
  <2>1. mishaps \in Nat /\ \A i \in Ids : i \in Nat
    BY DEF IndInv, Shapes, Counts, Ids
  <2>2. CASE UNCHANGED vars
    BY <2>2 DEF vars, effects, IndInv, Shapes, Counts, RowsOK, CallsOK, FilesOK, RowsExist,
         OneHolder, Holds, ReadsAreRecent, EffectsAreVisible, DoneMeansVisible, Visible, RowOf,
         SnapshotListsItsChapters, Ids, MaxHead
  <2>3. ASSUME NEW w \in Workers, NEW n \in Limits, NEW b \in BOOLEAN, Run(w, n, b) PROVE IndInv'
    <3>1. n \in Nat
      BY OutboxAssumption
    <3> QED
      BY <2>1, <2>3, <3>1, RunStep DEF Run
  <2>4. ASSUME NEW w \in Workers, NEW id \in Ids, RetryOutboxItem(w, id) PROVE IndInv'
    <3>1. /\ Call(w, 1, TRUE, id) /\ mishaps' = mishaps + 1
          /\ UNCHANGED <<head, chapters, rows, effects>>
      BY <2>4 DEF RetryOutboxItem
    <3>2. id \in Nat /\ mishaps' \in Nat /\ 1 \in Nat /\ TRUE \in BOOLEAN
      BY <2>1, <3>1
    <3> QED
      BY <3>1, <3>2, RunStep
  <2>5. ASSUME NEW w \in Workers, Return(w) \/ Crash(w) PROVE IndInv'
    BY <2>1, <2>5, LeaveStep DEF Return, Crash
  <2> QED
    BY <2>2, <2>3, <2>4, <2>5, FinalizeStep, AppendStep, ClaimStep, ExecuteStep, ReadProjectStep,
       WriteSnapshotStep, RaiseStep, FinishStep, ClearStep DEF Next
<1> QED
  BY <1>1, <1>2, PTL DEF Spec

(* A row is executed by one call at a time, for any number of concurrent   *)
(* calls, retries, crashes and faults.                                     *)
THEOREM HoldersExclude == Spec => []OneHolder
BY Inductive, PTL DEF IndInv

(* A row is done only when its effect is visible, and nothing is visible   *)
(* of a chapter that does not exist.                                       *)
THEOREM DoneIsVisible == Spec => []DoneMeansVisible
BY Inductive, PTL DEF IndInv

(* A snapshot lists every chapter that its project row counts, though the  *)
(* two are read in two statements.                                         *)
THEOREM SnapshotsListChapters == Spec => []SnapshotListsItsChapters
BY Inductive, PTL DEF IndInv
=============================================================================
