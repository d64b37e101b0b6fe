------------------------------- MODULE Outbox -------------------------------
(***************************************************************************)
(* The outbox worker (outbox.py) over the rows that the authority writer   *)
(* enqueues, and the two Studio recovery operations on them                *)
(* (observability.py).  A call of run() claims rows one after another; the *)
(* claim, the side effect and the finish are three steps, each its own     *)
(* transaction or file operation, and a stop of the process can fall       *)
(* between any two.                                                        *)
(*                                                                         *)
(* Rows are numbered in the order of their outbox_id.  A side effect is    *)
(* abstracted to what it makes visible: which chapters are exported and    *)
(* indexed, and which project row and commits a snapshot file shows; these *)
(* are read by two statements, each in a transaction of its own.           *)
(***************************************************************************)
EXTENDS Naturals, Sequences, FiniteSets

CONSTANTS
  Workers,      \* concurrent calls of run()
  Limits,       \* OutboxRunRequest.limit
  MaxChapters,  \* bound on finalized chapters
  MaxAppends,   \* bound on operator appends
  MaxMishaps    \* bound on locked files, stopped processes and Studio jobs

ASSUME OutboxAssumption ==
  /\ Limits \subseteq Nat \ {0}
  /\ {MaxChapters, MaxAppends, MaxMishaps} \subseteq Nat

VARIABLES
  head,      \* projects.revision
  chapters,  \* finalized chapters
  rows,      \* the outbox table, by outbox_id
  calls,     \* the local state of each call of run()
  exported,  \* chapters with a Markdown file
  indexed,   \* chapters in retrieval_documents
  snapshots, \* revision -> what the file named after it shows
  mishaps    \* faults, crashes and Studio jobs so far

vars == <<head, chapters, rows, calls, exported, indexed, snapshots, mishaps>>

effects == <<exported, indexed, snapshots>>

MaxHead == MaxChapters + MaxAppends
Ids == 1 .. Len(rows)

NoProject == [head |-> 0, latest |-> 0]
NoFile == [project |-> NoProject, commits |-> 0]

(* after, left and failed are the loop's after_id, what is left of limit,   *)
(* and retry_failed; named is the row a Studio retry was asked for.        *)
Idle == [phase |-> "idle", row |-> 0, after |-> 0, left |-> 0, failed |-> FALSE,
         named |-> 0, seen |-> NoProject]

Init ==
  /\ head = 0 /\ chapters = 0 /\ rows = << >>
  /\ calls = [w \in Workers |-> Idle]
  /\ exported = {} /\ indexed = {}
  /\ snapshots = [r \in 1 .. MaxHead |-> NoFile]
  /\ mishaps = 0

----------------------------------------------------------------------------
(* The writers' side: rows appear in the transaction that publishes.       *)

Pending(topic, chapter, rev) ==
  [topic |-> topic, chapter |-> chapter, revision |-> rev,
   status |-> "pending"]

FinalizeChapter ==
  /\ chapters < MaxChapters
  /\ chapters' = chapters + 1 /\ head' = head + 1
  /\ rows' = rows \o << Pending("markdown.export", chapters', head'),
                        Pending("search.index", chapters', head'),
                        Pending("snapshot.create", chapters', head') >>
  /\ UNCHANGED <<calls, effects, mishaps>>

(* The payload of an operator append names no chapter; the worker reads 0. *)
AppendOperatorEvents ==
  /\ head - chapters < MaxAppends
  /\ head' = head + 1
  /\ rows' = Append(rows, Pending("search.index", 0, head'))
  /\ UNCHANGED <<chapters, calls, effects, mishaps>>

----------------------------------------------------------------------------
(* The worker's side.                                                      *)

Call(w, limit, retryFailed, id) ==
  calls' = [calls EXCEPT ![w] = [Idle EXCEPT !.phase = "claiming", !.left = limit,
                                             !.failed = retryFailed, !.named = id]]

Run(w, limit, retryFailed) ==
  /\ calls[w].phase = "idle"
  /\ Call(w, limit, retryFailed, 0)
  /\ UNCHANGED <<head, chapters, rows, effects, mishaps>>

(* retry_outbox_item: looks at the named row, then calls run with limit 1. *)
RetryOutboxItem(w, id) ==
  /\ calls[w].phase = "idle"
  /\ mishaps < MaxMishaps
  /\ rows[id].status \in {"pending", "failed"}
  /\ Call(w, 1, TRUE, id)
  /\ mishaps' = mishaps + 1
  /\ UNCHANGED <<head, chapters, rows, effects>>

(* Mutations: a row some call is working on can be claimed; failed rows    *)
(* are never claimed again.                                                *)
ClaimableProcessing(w) ==
  {i \in Ids : i > calls[w].after /\ rows[i].status \in {"pending", "processing"}}

ClaimablePending(w) == {i \in Ids : i > calls[w].after /\ rows[i].status = "pending"}

Claimable(w) ==
  {i \in Ids : /\ i > calls[w].after
               /\ rows[i].status = "pending"
                    \/ (calls[w].failed /\ rows[i].status = "failed")}

First(S) == CHOOSE i \in S : \A j \in S : i <= j

MayClaim(w) == calls[w].phase = "claiming" /\ calls[w].left > 0

Claim(w) ==
  /\ MayClaim(w) /\ Claimable(w) # {}
  /\ LET i == First(Claimable(w))
     IN /\ rows' = [rows EXCEPT ![i].status = "processing"]
        /\ calls' = [calls EXCEPT ![w].phase = "executing", ![w].row = i,
                                  ![w].after = i, ![w].left = @ - 1]
  /\ UNCHANGED <<head, chapters, effects, mishaps>>

Return(w) ==
  /\ calls[w].phase = "claiming"
  /\ calls[w].left = 0 \/ Claimable(w) = {}
  /\ calls' = [calls EXCEPT ![w] = Idle]
  /\ UNCHANGED <<head, chapters, rows, effects, mishaps>>

RowOf(w) == rows[calls[w].row]

(* Mutation: any chapter can be exported or indexed.                       *)
AlwaysDeliverable(r) == r.topic # "snapshot.create"

(* Markdown and search need the finalized chapter the row names.           *)
Deliverable(r) == r.topic # "snapshot.create" /\ r.chapter \in 1 .. chapters

Execute(w) ==
  /\ calls[w].phase = "executing"
  /\ Deliverable(RowOf(w))
  /\ exported' = IF RowOf(w).topic = "markdown.export"
                 THEN exported \cup {RowOf(w).chapter} ELSE exported
  /\ indexed' = IF RowOf(w).topic = "search.index"
                THEN indexed \cup {RowOf(w).chapter} ELSE indexed
  /\ calls' = [calls EXCEPT ![w].phase = "succeeded"]
  /\ UNCHANGED <<head, chapters, rows, snapshots, mishaps>>

(* _export_snapshot: the project row first, then the finalized commits.    *)
ReadProject(w) ==
  /\ calls[w].phase = "executing"
  /\ RowOf(w).topic = "snapshot.create"
  /\ calls' = [calls EXCEPT ![w].phase = "reading",
                            ![w].seen = [head |-> head, latest |-> chapters]]
  /\ UNCHANGED <<head, chapters, rows, effects, mishaps>>

(* Mutation: the file shows the chapters of the project row alone.         *)
ShownEarlier(w) == [project |-> [head |-> head, latest |-> chapters],
                    commits |-> calls[w].seen.latest]

Shown(w) == [project |-> calls[w].seen, commits |-> chapters]

WriteSnapshot(w) ==
  /\ calls[w].phase = "reading"
  /\ snapshots' = [snapshots EXCEPT ![RowOf(w).revision] = Shown(w)]
  /\ calls' = [calls EXCEPT ![w].phase = "succeeded", ![w].seen = NoProject]
  /\ UNCHANGED <<head, chapters, rows, exported, indexed, mishaps>>

ExecuteRaises(w) ==
  /\ calls[w].phase = "executing"
  /\ RowOf(w).topic # "snapshot.create" /\ ~Deliverable(RowOf(w))
  /\ calls' = [calls EXCEPT ![w].phase = "raised"]
  /\ UNCHANGED <<head, chapters, rows, effects, mishaps>>

(* The file system or the database refuses, before the effect or when the  *)
(* row is to be marked done.                                               *)
Faults(w) ==
  /\ calls[w].phase \in {"executing", "reading", "succeeded"}
  /\ mishaps < MaxMishaps
  /\ mishaps' = mishaps + 1
  /\ calls' = [calls EXCEPT ![w].phase = "raised", ![w].seen = NoProject]
  /\ UNCHANGED <<head, chapters, rows, effects>>

Finish(w) ==
  LET i == calls[w].row IN
  /\ calls[w].phase \in {"succeeded", "raised"}
  /\ rows' = [rows EXCEPT
       ![i].status = IF calls[w].phase = "succeeded" THEN "done" ELSE "failed"]
  /\ calls' = [calls EXCEPT ![w].phase = "claiming", ![w].row = 0]
  /\ UNCHANGED <<head, chapters, effects, mishaps>>

(* The process stops, or a claim or finish finds the database locked.      *)
Crash(w) ==
  /\ calls[w].phase # "idle"
  /\ mishaps < MaxMishaps
  /\ mishaps' = mishaps + 1
  /\ calls' = [calls EXCEPT ![w] = Idle]
  /\ UNCHANGED <<head, chapters, rows, effects>>

(* Studio's clear_retry_queue deletes the failed rows.                     *)
ClearRetryQueue ==
  /\ mishaps < MaxMishaps
  /\ mishaps' = mishaps + 1
  /\ \E i \in Ids : rows[i].status = "failed"
  /\ rows' = [i \in Ids |-> IF rows[i].status = "failed"
                            THEN [rows[i] EXCEPT !.status = "cleared"] ELSE rows[i]]
  /\ UNCHANGED <<head, chapters, calls, effects>>

----------------------------------------------------------------------------
Worker(w) ==
  \/ Claim(w) \/ Return(w) \/ Execute(w) \/ ReadProject(w) \/ WriteSnapshot(w)
  \/ ExecuteRaises(w) \/ Finish(w)

Next ==
  \/ FinalizeChapter
  \/ AppendOperatorEvents
  \/ \E w \in Workers, n \in Limits, b \in BOOLEAN : Run(w, n, b)
  \/ \E w \in Workers, id \in Ids : RetryOutboxItem(w, id)
  \/ \E w \in Workers : Claim(w)
  \/ \E w \in Workers : Return(w)
  \/ \E w \in Workers : Execute(w)
  \/ \E w \in Workers : ReadProject(w)
  \/ \E w \in Workers : WriteSnapshot(w)
  \/ \E w \in Workers : ExecuteRaises(w)
  \/ \E w \in Workers : Faults(w)
  \/ \E w \in Workers : Finish(w)
  \/ \E w \in Workers : Crash(w)
  \/ ClearRetryQueue

(* A running call goes on until it returns, and the operator of            *)
(* failure-recovery.md reruns the worker with retry_failed, its default,   *)
(* again and again, whatever other calls are made in between.              *)
Fairness ==
  /\ \A w \in Workers : WF_vars(Worker(w))
  /\ SF_vars(\E w \in Workers, n \in Limits : Run(w, n, TRUE))

Spec == Init /\ [][Next]_vars
FairSpec == Spec /\ Fairness

----------------------------------------------------------------------------
Holds(w, i) == calls[w].phase \notin {"idle", "claiming"} /\ calls[w].row = i

(* A row is executed by one call at a time: whoever holds a row sees it in *)
(* 'processing', and no two concurrent calls hold the same row, though the *)
(* claim and the finish are separate transactions.                         *)
OneHolder ==
  /\ \A w \in Workers, i \in Ids : Holds(w, i) => rows[i].status = "processing"
  /\ \A w, x \in Workers, i \in Ids : Holds(w, i) /\ Holds(x, i) => w = x

Visible(r) ==
  CASE r.topic = "markdown.export" -> r.chapter \in exported
    [] r.topic = "search.index"    -> r.chapter \in indexed
    [] r.topic = "snapshot.create" -> snapshots[r.revision].project.head >= r.revision

(* A row is only ever marked done once its side effect is visible, and a   *)
(* snapshot is then no older than the revision it is named after; nothing  *)
(* becomes visible of a chapter that does not exist.                       *)
DoneMeansVisible ==
  /\ \A i \in Ids : rows[i].status = "done" => Visible(rows[i])
  /\ exported \cup indexed \subseteq 1 .. chapters

(* A snapshot file lists the commit of every chapter its project row       *)
(* counts, though chapters are finalized between the two reads.            *)
SnapshotListsItsChapters ==
  \A r \in 1 .. MaxHead : snapshots[r].project.latest <= snapshots[r].commits

(* The row of a call that was cut short.                                   *)
Orphaned(i) == rows[i].status = "processing" /\ \A w \in Workers : ~Holds(w, i)

(* The operator rows ahead of it that can only fail, as many as a rerun     *)
(* claims: each rerun starts again at the first of them.                   *)
Starved(i) ==
  LET Failing == {j \in 1 .. i - 1 : /\ rows[j].chapter = 0 /\ rows[j].status # "cleared"
                                     /\ ~Orphaned(j)}
  IN \E n \in Limits : n <= Cardinality(Failing)

(* Every side effect of a chapter is delivered in the end, past faults and *)
(* concurrent calls, unless an operator clears its row, the call that held *)
(* it was cut short, or it stays behind more undeliverable operator rows   *)
(* than a rerun gets past.                                                 *)
ChapterEffectsSettle ==
  \A i \in 1 .. 3 * MaxChapters + MaxAppends :
    (i \in Ids /\ rows[i].chapter > 0)
       ~> \/ i \in Ids /\ (rows[i].status \in {"done", "cleared"} \/ Orphaned(i))
          \/ [](i \in Ids /\ Starved(i))
=============================================================================
