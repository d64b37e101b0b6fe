-------------------------- MODULE SchedulerProofs --------------------------
(***************************************************************************)
(* Theorems about Scheduler for any books, callers, cap and concurrency:   *)
(* the daily cap is overshot by less than the number of concurrent books,  *)
(* no book is in two loops of the daemon, a stopped daemon begins at most  *)
(* two more chapters of a book, and a paused book is left alone but for    *)
(* the retry of a loop that had its failures cleared.                      *)
(***************************************************************************)
EXTENDS Scheduler, FiniteSetTheorems, TLAPS

Places == {"out", "checking", "cooling", "writing", "judging", "rejudging", "notifying",
           "ending", "backoff", "retrying"}
JobRecords == [at : Places, done : Nat, n : Nat]
CallRecords == [at : {"idle", "asked", "writing", "done", "failed"}, chapter : Nat]

(* The books with a loop, and those whose loop may yet count a chapter     *)
(* without looking at the cap again.                                       *)
Inside == {b \in Books : jobs[b].at # "out"}
Active == {b \in Books : jobs[b].at \notin {"out", "checking"}}

Shapes ==
  /\ jobs \in [Books -> JobRecords]
  /\ failures \in [Books -> Nat]
  /\ count \in Nat
  /\ chapters \in [Books -> Seq(Texts)]
  /\ calls \in [Flows -> CallRecords]

(* Loops exist in a writing cycle only, no more than may be concurrent;    *)
(* each active one was let through the check by an earlier count.          *)
CapInv ==
  /\ cycle # "writing" => \A b \in Books : jobs[b].at = "out"
  /\ Cardinality(Inside) <= MaxConcurrentBooks
  /\ count + Cardinality(Active) < MaxChaptersPerDay + MaxConcurrentBooks

LoopInv == Shapes /\ CapInv /\ OneLoopPerBook

(* Nothing runs before start(): the first cycle meets no other.            *)
Fresh == phase = "new" => cycle = "none" /\ timer = FALSE

USE SchedulerAssumption

----------------------------------------------------------------------------
(* Facts about the shapes and the sets                                     *)

LEMMA OutShape == Out \in JobRecords /\ Out.at = "out" /\ "checking" \in Places
  BY DEF Out, JobRecords, Places

LEMMA CheckingShape ==
  ASSUME NEW n \in Nat
  PROVE  /\ [Out EXCEPT !.at = "checking", !.done = n] \in JobRecords
         /\ [Out EXCEPT !.at = "checking", !.done = n].at = "checking"
  BY DEF Out, JobRecords, Places

LEMMA OwnFlows ==
  /\ \A b \in Books : FlowOf(b) \in Flows
  /\ \A b, c \in Books : FlowOf(b) = FlowOf(c) => b = c
  /\ \A f \in Flows : BookOf(f) \in Books /\ CallerOf(f) \in Callers
  /\ \A b \in Books : CallerOf(FlowOf(b)) = "daemon"
  BY DEF FlowOf, Flows, BookOf, CallerOf

LEMMA SetsFinite ==
  /\ IsFiniteSet(Inside) /\ Cardinality(Inside) \in Nat
  /\ IsFiniteSet(Active) /\ Cardinality(Active) \in Nat
<1>1. Inside \subseteq Books /\ Active \subseteq Books
  BY DEF Inside, Active
<1> QED
  BY <1>1, FS_Subset, FS_CardinalityType

(* Where every loop stands decides both sets.                              *)
LEMMA SameJobs ==
  ASSUME CapInv, UNCHANGED <<cycle, jobs, count>>
  PROVE  CapInv'
<1>1. Inside' = Inside /\ Active' = Active
  BY DEF Inside, Active
<1> QED
  BY <1>1 DEF CapInv

----------------------------------------------------------------------------
(* A step of one loop                                                      *)

(* A loop that becomes active has just seen the cap unreached; one that    *)
(* counts a chapter is active no more.                                     *)
LEMMA JobMoves ==
  ASSUME NEW b \in Books, NEW new \in JobRecords, Shapes, CapInv,
         jobs' = [jobs EXCEPT ![b] = new], UNCHANGED cycle, jobs[b].at # "out",
         \/ new.at \in {"out", "checking"} /\ count' = count
         \/ new.at = "checking" /\ b \in Active /\ count' = count + 1
         \/ b \in Active /\ new.at \notin {"out", "checking"} /\ count' = count
         \/ count < MaxChaptersPerDay /\ count' = count
  PROVE  CapInv'
<1>1. jobs'[b] = new /\ \A c \in Books : c # b => jobs'[c] = jobs[c]
  BY DEF Shapes
<1>2. cycle = "writing" /\ cycle' = "writing"
  BY DEF CapInv
<1>3. Inside' \subseteq Inside /\ b \in Inside
  BY <1>1 DEF Inside
<1>4. /\ Cardinality(Inside') <= Cardinality(Inside) /\ Cardinality(Inside') \in Nat
      /\ Cardinality(Inside) \in Nat /\ IsFiniteSet(Inside')
  BY <1>3, SetsFinite, FS_Subset, FS_CardinalityType
<1>5. Cardinality(Inside') <= MaxConcurrentBooks
  BY <1>4 DEF CapInv
<1>6. /\ Active' \subseteq Inside' /\ Cardinality(Active') <= Cardinality(Inside')
      /\ Cardinality(Active') \in Nat /\ Cardinality(Active) \in Nat
  <2>1. Active' \subseteq Inside'
    BY DEF Active, Inside
  <2> QED
    BY <2>1, <1>4, SetsFinite, FS_Subset, FS_CardinalityType
<1>7. count' + Cardinality(Active') < MaxChaptersPerDay + MaxConcurrentBooks
  <2>0. /\ count + Cardinality(Active) < MaxChaptersPerDay + MaxConcurrentBooks
        /\ count \in Nat /\ MaxChaptersPerDay \in Nat /\ MaxConcurrentBooks \in Nat
    BY SchedulerAssumption DEF CapInv, Shapes
  <2>1. CASE new.at \in {"out", "checking"} /\ count' = count
    <3>1. Active' \subseteq Active
      BY <2>1, <1>1 DEF Active
    <3>2. Cardinality(Active') <= Cardinality(Active)
      BY <3>1, SetsFinite, FS_Subset
    <3> QED
      BY <2>0, <2>1, <3>2, <1>6
  <2>2. CASE new.at = "checking" /\ b \in Active /\ count' = count + 1
    <3>1. Active' = Active \ {b}
      BY <2>2, <1>1 DEF Active
    <3>2. Cardinality(Active') = Cardinality(Active) - 1
      BY <2>2, <3>1, SetsFinite, FS_RemoveElement
    <3> QED
      BY <2>0, <2>2, <3>2, <1>6
  <2>3. CASE b \in Active /\ new.at \notin {"out", "checking"} /\ count' = count
    <3>1. Active' = Active
      BY <2>3, <1>1 DEF Active
    <3> QED
      BY <2>3, <3>1 DEF CapInv
  <2>4. CASE count < MaxChaptersPerDay /\ count' = count
    BY <2>0, <2>4, <1>5, <1>6, <1>4
  <2> QED
    BY <2>1, <2>2, <2>3, <2>4
<1> QED
  BY <1>2, <1>5, <1>7 DEF CapInv

----------------------------------------------------------------------------
(* Steps of the calls                                                      *)

LEMMA RecordMoves ==
  ASSUME NEW r \in CallRecords, NEW at \in {"idle", "asked", "writing", "done", "failed"}
  PROVE  [r EXCEPT !.at = at] \in CallRecords /\ [r EXCEPT !.at = at].at = at
  BY DEF CallRecords

LEMMA GrowsInShape ==
  ASSUME Shapes, NEW f \in Flows, NEW passed \in BOOLEAN,
         Grow(BookOf(f), OwnText(f, passed))
  PROVE  chapters' \in [Books -> Seq(Texts)]
<1>1. BookOf(f) \in Books /\ CallerOf(f) \in Callers
  BY OwnFlows
<1>2. OwnText(f, passed) \in Texts
  BY <1>1 DEF OwnText, Texts
<1>3. chapters \in [Books -> Seq(Texts)]
  BY DEF Shapes
<1>4. chapters' = [chapters EXCEPT ![BookOf(f)] = Append(@, OwnText(f, passed))]
  BY DEF Grow
<1>5. Append(chapters[BookOf(f)], OwnText(f, passed)) \in Seq(Texts)
  BY <1>1, <1>2, <1>3
<1> QED
  BY <1>1, <1>3, <1>4, <1>5

(* A call in progress stays in progress until its caller looks at it.      *)
LEMMA CallsEnd ==
  ASSUME Shapes, NEW f \in Flows, Ends(f)
  PROVE  /\ calls' \in [Flows -> CallRecords] /\ chapters' \in [Books -> Seq(Texts)]
         /\ \A g \in Flows : calls'[g].at = "idle" <=> calls[g].at = "idle"
<1>1. /\ calls \in [Flows -> CallRecords] /\ calls[f] \in CallRecords
      /\ chapters \in [Books -> Seq(Texts)] /\ BookOf(f) \in Books
  BY OwnFlows DEF Shapes
<1>2. ASSUME NEW r \in CallRecords, calls' = [calls EXCEPT ![f] = r], r.at # "idle",
             calls[f].at # "idle"
      PROVE  /\ calls' \in [Flows -> CallRecords]
             /\ \A g \in Flows : calls'[g].at = "idle" <=> calls[g].at = "idle"
  BY <1>1, <1>2
<1>3. CASE Enter(f)
  <2> DEFINE r == [calls[f] EXCEPT !.at = IF Busy(BookOf(f)) THEN "failed" ELSE "writing"]
  <2>1. r \in CallRecords /\ r.at # "idle"
    BY <1>1, RecordMoves
  <2>2. calls' = [calls EXCEPT ![f] = r] /\ calls[f].at # "idle" /\ chapters' = chapters
    BY <1>1, <1>3 DEF Enter
  <2> HIDE DEF r
  <2> QED
    BY <1>1, <1>2, <2>1, <2>2
<1>4. CASE Fail(f)
  <2>1. [at |-> "failed", chapter |-> 0] \in CallRecords
    BY DEF CallRecords
  <2>2. chapters' \in [Books -> Seq(Texts)]
    BY <1>1, <1>4, GrowsInShape DEF Fail
  <2> QED
    BY <1>2, <1>4, <2>1, <2>2 DEF Fail
<1>5. CASE \E passed \in BOOLEAN : Succeed(f, passed)
  <2> PICK passed \in BOOLEAN : Succeed(f, passed)
    BY <1>5
  <2>1. CASE calls[f].chapter # 0
    <3> DEFINE r == [calls[f] EXCEPT !.at = "done"]
    <3>1. r \in CallRecords /\ r.at # "idle"
      BY <1>1, RecordMoves
    <3>2. calls' = [calls EXCEPT ![f] = r] /\ calls[f].at # "idle" /\ chapters' = chapters
      BY <1>1, <2>1 DEF Succeed
    <3> HIDE DEF r
    <3> QED
      BY <1>1, <1>2, <3>1, <3>2
  <2>2. CASE calls[f].chapter = 0
    <3> DEFINE r == [at |-> "done", chapter |-> Len(chapters[BookOf(f)]) + 1]
    <3>1. r \in CallRecords /\ r.at # "idle"
      BY <1>1 DEF CallRecords
    <3>2. calls' = [calls EXCEPT ![f] = r] /\ calls[f].at # "idle"
      BY <2>2 DEF Succeed
    <3>3. chapters' \in [Books -> Seq(Texts)]
      BY <2>2, GrowsInShape DEF Succeed
    <3> HIDE DEF r
    <3> QED
      BY <1>2, <3>1, <3>2, <3>3
  <2> QED
    BY <2>1, <2>2
<1> QED
  BY <1>3, <1>4, <1>5 DEF Ends

LEMMA CallBegins ==
  ASSUME Shapes, NEW f \in Flows, Ask(f)
  PROVE  /\ calls' \in [Flows -> CallRecords] /\ chapters' \in [Books -> Seq(Texts)]
         /\ calls'[f].at # "idle"
         /\ \A g \in Flows : g # f => calls'[g] = calls[g]
<1>1. [at |-> "asked", chapter |-> 0] \in CallRecords
  BY DEF CallRecords
<1> QED
  BY <1>1 DEF Shapes, Ask

LEMMA CallIsConsumed ==
  ASSUME Shapes, NEW b \in Books, Consumed(b)
  PROVE  /\ calls' \in [Flows -> CallRecords] /\ chapters' \in [Books -> Seq(Texts)]
         /\ calls'[FlowOf(b)].at = "idle"
         /\ \A g \in Flows : g # FlowOf(b) => calls'[g] = calls[g]
<1>1. Idle \in CallRecords /\ Idle.at = "idle"
  BY DEF CallRecords, Idle
<1> QED
  BY <1>1, OwnFlows DEF Shapes, Consumed

(* Nothing but calls moves, and none of the daemon's begins or is consumed.*)
LEMMA CallsMove ==
  ASSUME LoopInv, UNCHANGED <<cycle, jobs, count, failures>>,
         calls' \in [Flows -> CallRecords], chapters' \in [Books -> Seq(Texts)],
         \A b \in Books : calls'[FlowOf(b)].at = "idle" <=> calls[FlowOf(b)].at = "idle"
  PROVE  LoopInv'
<1>1. CapInv'
  BY SameJobs DEF LoopInv
<1>2. Shapes' /\ OneLoopPerBook'
  BY DEF LoopInv, Shapes, OneLoopPerBook
<1> QED
  BY <1>1, <1>2 DEF LoopInv

(* A loop moves, and its call with it.                                     *)
LEMMA LoopMoves ==
  ASSUME LoopInv, NEW b \in Books, NEW new \in JobRecords, CapInv',
         jobs' = [jobs EXCEPT ![b] = new],
         calls' \in [Flows -> CallRecords], chapters' \in [Books -> Seq(Texts)],
         failures' \in [Books -> Nat], count' \in Nat,
         \A g \in Flows : g # FlowOf(b) => calls'[g] = calls[g],
         calls'[FlowOf(b)].at # "idle" <=> new.at \in {"writing", "retrying"}
  PROVE  LoopInv'
<1>1. jobs \in [Books -> JobRecords]
  BY DEF LoopInv, Shapes
<1>2. jobs'[b] = new /\ \A c \in Books : c # b => jobs'[c] = jobs[c]
  BY <1>1
<1>3. Shapes'
  BY <1>1 DEF Shapes
<1>4. OneLoopPerBook'
  <2> SUFFICES ASSUME NEW c \in Books
               PROVE  calls'[FlowOf(c)].at # "idle" <=> jobs'[c].at \in {"writing", "retrying"}
    BY DEF OneLoopPerBook, FlowOf
  <2>1. CASE c = b
    BY <2>1, <1>2
  <2>2. CASE c # b
    <3>1. FlowOf(c) \in Flows /\ FlowOf(c) # FlowOf(b)
      BY <2>2, OwnFlows
    <3> QED
      BY <2>2, <3>1, <1>2 DEF LoopInv, OneLoopPerBook
  <2> QED
    BY <2>1, <2>2
<1> QED
  BY <1>3, <1>4 DEF LoopInv

----------------------------------------------------------------------------
(* Steps of a loop                                                         *)

LEMMA JobFacts ==
  ASSUME LoopInv, NEW b \in Books
  PROVE  /\ jobs \in [Books -> JobRecords] /\ jobs[b] \in JobRecords
         /\ \A at \in Places : /\ [jobs[b] EXCEPT !.at = at] \in JobRecords
                               /\ [jobs[b] EXCEPT !.at = at].at = at
         /\ FlowOf(b) \in Flows /\ failures[b] \in Nat /\ count \in Nat
         /\ calls[FlowOf(b)].at # "idle" <=> jobs[b].at \in {"writing", "retrying"}
<1>1. jobs \in [Books -> JobRecords] /\ failures \in [Books -> Nat] /\ count \in Nat
  BY DEF LoopInv, Shapes
<1>2. jobs[b] \in JobRecords /\ failures[b] \in Nat
  BY <1>1
<1>3. \A at \in Places : /\ [jobs[b] EXCEPT !.at = at] \in JobRecords
                         /\ [jobs[b] EXCEPT !.at = at].at = at
  BY <1>2 DEF JobRecords
<1>4. FlowOf(b) \in Flows
  BY OwnFlows
<1>5. calls[FlowOf(b)].at # "idle" <=> jobs[b].at \in {"writing", "retrying"}
  BY DEF LoopInv, OneLoopPerBook
<1> QED
  BY <1>1, <1>2, <1>3, <1>4, <1>5

(* A step that leaves the calls, the counts and the failures alone.        *)
LEMMA LoopWalks ==
  ASSUME LoopInv, NEW b \in Books, NEW new \in JobRecords,
         jobs' = [jobs EXCEPT ![b] = new],
         UNCHANGED <<calls, chapters, cycle, count, failures>>,
         jobs[b].at \notin {"out", "writing", "retrying"},
         new.at \notin {"writing", "retrying"},
         new.at = "out" \/ b \in Active \/ count < MaxChaptersPerDay
  PROVE  LoopInv'
<1>1. CapInv'
  BY JobMoves DEF LoopInv
<1>2. calls'[FlowOf(b)].at = "idle"
  BY JobFacts
<1>3. /\ calls' \in [Flows -> CallRecords] /\ chapters' \in [Books -> Seq(Texts)]
      /\ failures' \in [Books -> Nat] /\ count' \in Nat
  BY DEF LoopInv, Shapes
<1> QED
  BY <1>1, <1>2, <1>3, LoopMoves

LEMMA CapOpen ==
  ASSUME NEW b \in Books, LoopInv, ~LeavesLoop(b)
  PROVE  count < MaxChaptersPerDay
  BY DEF LeavesLoop, IsDailyCapReached, LoopInv, Shapes

LEMMA BeginsKeep ==
  ASSUME LoopInv, NEW b \in Books, NEW at \in {"writing", "retrying"}, WriteOneChapter(b, at),
         jobs[b].at # "out", b \in Active \/ count < MaxChaptersPerDay
  PROVE  LoopInv'
<1> DEFINE new == [jobs[b] EXCEPT !.at = at]
<1>1. at \in Places
  BY DEF Places
<1>2. new \in JobRecords /\ new.at = at
  BY <1>1, JobFacts
<1>3. jobs' = [jobs EXCEPT ![b] = new] /\ UNCHANGED <<cycle, count, failures>>
  BY JobFacts DEF WriteOneChapter, cycleVars, gateVars
<1> HIDE DEF new
<1>4. CapInv'
  BY <1>2, <1>3, JobMoves DEF LoopInv
<1>5. /\ calls' \in [Flows -> CallRecords] /\ chapters' \in [Books -> Seq(Texts)]
      /\ calls'[FlowOf(b)].at # "idle"
      /\ \A g \in Flows : g # FlowOf(b) => calls'[g] = calls[g]
  BY CallBegins, OwnFlows DEF WriteOneChapter, LoopInv
<1>6. failures' \in [Books -> Nat] /\ count' \in Nat
  BY <1>3 DEF LoopInv, Shapes
<1> QED
  BY <1>2, <1>3, <1>4, <1>5, <1>6, LoopMoves

LEMMA ReadyKeeps ==
  ASSUME LoopInv, NEW b \in Books, ChapterReady(b)
  PROVE  LoopInv'
<1> DEFINE new == [Out EXCEPT !.at = "checking", !.done = jobs[b].done + 1]
<1>1. jobs[b] \in JobRecords /\ jobs[b].at \in {"writing", "retrying"}
  BY JobFacts DEF ChapterReady
<1>2. new \in JobRecords /\ new.at = "checking"
  <2>1. jobs[b].done + 1 \in Nat
    BY <1>1 DEF JobRecords
  <2> QED
    BY <2>1, CheckingShape
<1>3. /\ jobs' = [jobs EXCEPT ![b] = new] /\ count' = count + 1 /\ UNCHANGED cycle
      /\ failures' = [failures EXCEPT ![b] = 0]
  BY DEF ChapterReady, cycleVars
<1> HIDE DEF new
<1>4. b \in Active
  BY <1>1 DEF Active
<1>5. CapInv'
  BY <1>1, <1>2, <1>3, <1>4, JobMoves DEF LoopInv
<1>6. /\ calls' \in [Flows -> CallRecords] /\ chapters' \in [Books -> Seq(Texts)]
      /\ calls'[FlowOf(b)].at = "idle"
      /\ \A g \in Flows : g # FlowOf(b) => calls'[g] = calls[g]
  BY CallIsConsumed DEF ChapterReady, LoopInv
<1>7. failures' \in [Books -> Nat] /\ count' \in Nat
  BY <1>3 DEF LoopInv, Shapes
<1> QED
  BY <1>2, <1>3, <1>5, <1>6, <1>7, LoopMoves

LEMMA FailedKeeps ==
  ASSUME LoopInv, NEW b \in Books, ChapterFailed(b)
  PROVE  LoopInv'
<1> DEFINE at == IF jobs[b].at = "writing" THEN "judging" ELSE "rejudging"
           new == [jobs[b] EXCEPT !.n = failures[b] + 1, !.at = at]
<1>1. /\ jobs[b] \in JobRecords /\ jobs[b].at \in {"writing", "retrying"}
      /\ jobs \in [Books -> JobRecords] /\ failures[b] + 1 \in Nat
  BY JobFacts DEF ChapterFailed
<1>2. at \in Places /\ at \notin {"out", "checking", "writing", "retrying"}
  BY DEF Places
<1>3. new \in JobRecords /\ new.at = at
  BY <1>1, <1>2 DEF JobRecords
<1>4. /\ jobs' = [jobs EXCEPT ![b] = new] /\ UNCHANGED <<cycle, count>>
      /\ failures' = [failures EXCEPT ![b] = @ + 1]
  BY <1>1 DEF ChapterFailed, cycleVars
<1> HIDE DEF new, at
<1>5. b \in Active
  BY <1>1 DEF Active
<1>6. CapInv'
  BY <1>1, <1>2, <1>3, <1>4, <1>5, JobMoves DEF LoopInv
<1>7. /\ calls' \in [Flows -> CallRecords] /\ chapters' \in [Books -> Seq(Texts)]
      /\ calls'[FlowOf(b)].at = "idle"
      /\ \A g \in Flows : g # FlowOf(b) => calls'[g] = calls[g]
  BY CallIsConsumed DEF ChapterFailed, LoopInv
<1>8. failures' \in [Books -> Nat] /\ count' \in Nat
  BY <1>4 DEF LoopInv, Shapes
<1> QED
  BY <1>2, <1>3, <1>4, <1>6, <1>7, <1>8, LoopMoves

LEMMA JobKeeps ==
  ASSUME LoopInv, NEW b \in Books, JobStep(b)
  PROVE  LoopInv'
<1>1. CASE LeaveLoop(b)
  BY <1>1, OutShape, LoopWalks DEF LeaveLoop, callVars, cycleVars, gateVars
<1>2. CASE BeginChapter(b)
  <2>1. jobs[b].at = "checking" /\ WriteOneChapter(b, "writing") /\ count < MaxChaptersPerDay
    BY <1>2, CapOpen DEF BeginChapter
  <2> QED
    BY <2>1, BeginsKeep
<1>3. CASE CoolDown(b)
  <2> DEFINE new == [jobs[b] EXCEPT !.at = "cooling"]
  <2>1. jobs[b].at = "checking" /\ count < MaxChaptersPerDay
    BY <1>3, CapOpen DEF CoolDown
  <2>2. "cooling" \in Places
    BY DEF Places
  <2>3. new \in JobRecords /\ new.at = "cooling"
    BY <2>2, JobFacts
  <2>4. jobs' = [jobs EXCEPT ![b] = new] /\ UNCHANGED <<calls, chapters, cycle, count, failures>>
    BY <1>3, JobFacts DEF CoolDown, callVars, cycleVars, gateVars
  <2> HIDE DEF new
  <2> QED
    BY <2>1, <2>3, <2>4, LoopWalks
<1>4. CASE WakeUp(b)
  <2>1. \/ jobs[b].at = "cooling" /\ WriteOneChapter(b, "writing")
        \/ jobs[b].at = "backoff" /\ WriteOneChapter(b, "retrying")
    BY <1>4 DEF WakeUp
  <2>2. b \in Active /\ jobs[b].at # "out"
    BY <2>1 DEF Active
  <2> QED
    BY <2>1, <2>2, BeginsKeep
<1>5. CASE ChapterReady(b)
  BY <1>5, ReadyKeeps
<1>6. CASE ChapterFailed(b)
  BY <1>6, FailedKeeps
<1>7. CASE Judge(b)
  <2> DEFINE at == IF jobs[b].at = "judging" THEN "notifying" ELSE "ending"
             new == [jobs[b] EXCEPT !.at = at]
  <2>1. jobs[b].at \in {"judging", "rejudging"}
    BY <1>7 DEF Judge
  <2>2. at \in Places /\ at \notin {"writing", "retrying"}
    BY DEF Places
  <2>3. new \in JobRecords /\ new.at = at
    BY <2>2, JobFacts
  <2>4. jobs' = [jobs EXCEPT ![b] = new] /\ UNCHANGED <<calls, chapters, cycle, count, failures>>
    BY <1>7, JobFacts DEF Judge, callVars, cycleVars
  <2>5. b \in Active
    BY <2>1 DEF Active
  <2> HIDE DEF new, at
  <2> QED
    BY <2>1, <2>2, <2>3, <2>4, <2>5, LoopWalks
<1>8. CASE BackOff(b)
  <2>1. /\ jobs[b].at \in {"notifying", "ending"} /\ b \in Active
        /\ UNCHANGED <<calls, chapters, cycle, count, failures>>
    BY <1>8 DEF BackOff, Active, callVars, cycleVars, gateVars
  <2>2. CASE jobs' = [jobs EXCEPT ![b] = Out]
    BY <2>1, <2>2, OutShape, LoopWalks
  <2>3. CASE jobs' = [jobs EXCEPT ![b].at = "backoff", ![b].n = 0]
    <3> DEFINE new == [jobs[b] EXCEPT !.at = "backoff", !.n = 0]
    <3>1. jobs[b] \in JobRecords
      BY JobFacts
    <3>2. new \in JobRecords /\ new.at = "backoff"
      BY <3>1 DEF JobRecords, Places
    <3>3. jobs' = [jobs EXCEPT ![b] = new]
      BY <2>3, JobFacts
    <3> HIDE DEF new
    <3> QED
      BY <2>1, <3>2, <3>3, LoopWalks
  <2> QED
    BY <2>2, <2>3, <1>8 DEF BackOff
<1> QED
  BY <1>1, <1>2, <1>3, <1>4, <1>5, <1>6, <1>7, <1>8 DEF JobStep

----------------------------------------------------------------------------
(* The daemon itself                                                       *)

(* The books that are listed are the only ones with a loop.                *)
LEMMA ListingKeeps ==
  ASSUME LoopInv, NEW books \in SUBSET Books, ListBooks(books)
  PROVE  LoopInv'
<1>1. /\ cycle = "listing" /\ Cardinality(books) <= MaxConcurrentBooks /\ cycle' = "writing"
      /\ jobs' = [b \in Books |-> IF b \in books THEN [Out EXCEPT !.at = "checking"] ELSE jobs[b]]
      /\ UNCHANGED <<calls, chapters, count, failures>>
  BY DEF ListBooks, callVars, gateVars
<1>2. /\ [Out EXCEPT !.at = "checking"] \in JobRecords
      /\ [Out EXCEPT !.at = "checking"].at = "checking"
  BY DEF Out, JobRecords, Places
<1>3. \A b \in Books : jobs[b] \in JobRecords /\ jobs[b].at = "out"
  BY <1>1 DEF LoopInv, Shapes, CapInv
<1>4. /\ jobs' \in [Books -> JobRecords]
      /\ \A b \in Books : jobs'[b].at = IF b \in books THEN "checking" ELSE "out"
  BY <1>1, <1>2, <1>3
<1>5. Inside' = books /\ Active' = {} /\ Active = {}
  BY <1>3, <1>4 DEF Inside, Active
<1>6. CapInv'
  BY <1>1, <1>5 DEF CapInv, LoopInv
<1>7. OneLoopPerBook'
  <2> SUFFICES ASSUME NEW b \in Books
               PROVE  calls'[FlowOf(b)].at # "idle" <=> jobs'[b].at \in {"writing", "retrying"}
    BY DEF OneLoopPerBook, FlowOf
  <2>1. calls[FlowOf(b)].at = "idle"
    BY <1>3, JobFacts
  <2>2. jobs'[b].at \in {"checking", "out"}
    BY <1>4
  <2> QED
    BY <2>1, <2>2, <1>1
<1> QED
  BY <1>1, <1>4, <1>6, <1>7 DEF LoopInv, Shapes

(* Steps that move neither loops nor calls nor counts.                     *)
LEMMA DaemonKeeps ==
  ASSUME LoopInv, UNCHANGED <<jobs, count, failures, calls, chapters>>,
         cycle' = "writing" \/ \A b \in Books : jobs[b].at = "out"
  PROVE  LoopInv'
<1>1. Inside' = Inside /\ Active' = Active
  BY DEF Inside, Active
<1>2. CapInv'
  BY <1>1 DEF LoopInv, CapInv
<1>3. Shapes' /\ OneLoopPerBook'
  BY DEF LoopInv, Shapes, OneLoopPerBook
<1> QED
  BY <1>2, <1>3 DEF LoopInv

LEMMA MidnightKeeps ==
  ASSUME LoopInv, Midnight
  PROVE  LoopInv'
<1>1. count' = 0 /\ UNCHANGED <<jobs, failures, calls, chapters, cycle>>
  BY DEF Midnight, callVars, cycleVars, gateVars
<1>2. Inside' = Inside /\ Active' = Active
  BY <1>1 DEF Inside, Active
<1>3. Cardinality(Active) <= Cardinality(Inside)
  <2>1. Active \subseteq Inside
    BY DEF Active, Inside
  <2> QED
    BY <2>1, SetsFinite, FS_Subset
<1>4. CapInv'
  BY <1>1, <1>2, <1>3, SetsFinite DEF LoopInv, CapInv
<1>5. Shapes' /\ OneLoopPerBook'
  BY <1>1 DEF LoopInv, Shapes, OneLoopPerBook
<1> QED
  BY <1>4, <1>5 DEF LoopInv

LEMMA ResumeKeeps ==
  ASSUME LoopInv, NEW b \in Books, ResumeBook(b)
  PROVE  LoopInv'
<1>1. /\ UNCHANGED <<jobs, count, calls, chapters, cycle>>
      /\ failures' = [failures EXCEPT ![b] = 0]
  BY DEF ResumeBook, callVars, cycleVars
<1>2. CapInv'
  BY <1>1, SameJobs DEF LoopInv
<1>3. Shapes' /\ OneLoopPerBook'
  BY <1>1 DEF LoopInv, Shapes, OneLoopPerBook
<1> QED
  BY <1>2, <1>3 DEF LoopInv

LEMMA LoopInit == Init => LoopInv
<1> SUFFICES ASSUME Init PROVE LoopInv
  OBVIOUS
<1>1. \A b \in Books : jobs[b] = Out
  BY DEF Init
<1>2. Inside = {} /\ Active = {}
  BY <1>1, OutShape DEF Inside, Active
<1>3. Cardinality({}) = 0
  BY FS_EmptySet
<1>4. CapInv
  BY <1>1, <1>2, <1>3, OutShape DEF Init, CapInv
<1>5. \A b \in Books : chapters[b] = << >>
  BY DEF Init, CallInit
<1>6. Idle \in CallRecords /\ Idle.at = "idle"
  BY DEF Idle, CallRecords
<1>7. Shapes
  BY <1>6, OutShape DEF Init, CallInit, Shapes
<1>8. OneLoopPerBook
  BY <1>1, <1>6, OutShape, OwnFlows DEF Init, CallInit, OneLoopPerBook
<1> QED
  BY <1>4, <1>7, <1>8 DEF LoopInv

LEMMA FreshNext ==
  ASSUME Fresh, [Next]_vars
  PROVE  Fresh'
<1>1. ASSUME UNCHANGED <<phase, cycle, timer>>
      PROVE  Fresh'
  BY <1>1 DEF Fresh
<1>2. CASE \E f \in Flows : CallStep(f) \/ InteractiveCall(f)
  BY <1>2, <1>1 DEF CallStep, InteractiveCall, daemonVars, cycleVars
<1>3. CASE Start \/ Stop \/ Tick \/ ListingFails \/ CycleEnds
  BY <1>3 DEF Fresh, Start, Stop, Tick, ListingFails, CycleEnds
<1>4. CASE Midnight
  BY <1>4, <1>1 DEF Midnight, cycleVars
<1>5. CASE \E books \in SUBSET (Books \ paused) : ListBooks(books)
  BY <1>5 DEF Fresh, ListBooks
<1>6. CASE \E b \in Books : ResumeBook(b)
  BY <1>6, <1>1 DEF ResumeBook, cycleVars
<1>7. CASE \E b \in Books : JobStep(b)
  BY <1>7, <1>1 DEF JobStep, LeaveLoop, BeginChapter, CoolDown, WakeUp, WriteOneChapter,
     ChapterReady, ChapterFailed, Judge, BackOff, cycleVars
<1>8. CASE UNCHANGED vars
  BY <1>8, <1>1 DEF vars, daemonVars, cycleVars
<1> QED
  BY <1>2, <1>3, <1>4, <1>5, <1>6, <1>7, <1>8 DEF Next

LEMMA LoopNext ==
  ASSUME LoopInv, Fresh, [Next]_vars
  PROVE  LoopInv'
<1>1. CASE \E f \in Flows : CallStep(f)
  <2> PICK f \in Flows : CallStep(f)
    BY <1>1
  <2>1. UNCHANGED <<cycle, jobs, count, failures>> /\ Ends(f)
    BY DEF CallStep, daemonVars, cycleVars, gateVars
  <2> QED
    BY <2>1, CallsEnd, OwnFlows, CallsMove DEF LoopInv
<1>2. CASE \E f \in Flows : InteractiveCall(f)
  <2> PICK f \in Flows : InteractiveCall(f)
    BY <1>2
  <2>1. UNCHANGED <<cycle, jobs, count, failures>> /\ Ask(f) /\ CallerOf(f) # "daemon"
    BY DEF InteractiveCall, daemonVars, cycleVars, gateVars
  <2>2. \A b \in Books : FlowOf(b) \in Flows /\ FlowOf(b) # f
    BY <2>1, OwnFlows
  <2> QED
    BY <2>1, <2>2, CallBegins, CallsMove DEF LoopInv
<1>3. CASE Start \/ Stop \/ Tick \/ ListingFails \/ CycleEnds
  <2>1. UNCHANGED <<jobs, count, failures, calls, chapters>>
    BY <1>3 DEF Start, Stop, Tick, ListingFails, CycleEnds, callVars, gateVars
  <2>2. cycle' = cycle \/ cycle # "writing" \/ \A b \in Books : jobs[b].at = "out"
    BY <1>3, OutShape DEF Fresh, Start, Stop, Tick, ListingFails, CycleEnds, TriggerWriteCycle
  <2>3. cycle' = "writing" \/ \A b \in Books : jobs[b].at = "out"
    BY <2>2 DEF LoopInv, CapInv
  <2> QED
    BY <2>1, <2>3, DaemonKeeps
<1>4. CASE Midnight
  BY <1>4, MidnightKeeps
<1>5. CASE \E books \in SUBSET (Books \ paused) : ListBooks(books)
  BY <1>5, ListingKeeps
<1>6. CASE \E b \in Books : JobStep(b)
  BY <1>6, JobKeeps
<1>7. CASE \E b \in Books : ResumeBook(b)
  BY <1>7, ResumeKeeps
<1>8. CASE UNCHANGED vars
  <2>1. UNCHANGED <<jobs, count, failures, calls, chapters, cycle>>
    BY <1>8 DEF vars, daemonVars, callVars, cycleVars, gateVars
  <2> QED
    BY <2>1, DaemonKeeps DEF LoopInv, CapInv
<1> QED
  BY <1>1, <1>2, <1>3, <1>4, <1>5, <1>6, <1>7, <1>8 DEF Next

LEMMA LoopAlways == Spec => []LoopInv
<1>1. Init => Fresh
  BY DEF Init, Fresh
<1> QED
  BY <1>1, FreshNext, LoopInit, LoopNext, PTL DEF Spec

(* The scheduler looks at the cap before a chapter and counts it after,    *)
(* with any number of books in parallel: it never writes as many chapters  *)
(* too many as there may be concurrent books.                              *)
THEOREM CapHolds == Spec => []DailyCapBounded
<1>1. LoopInv => DailyCapBounded
  BY SetsFinite DEF LoopInv, Shapes, CapInv, DailyCapBounded
<1> QED
  BY <1>1, LoopAlways, PTL

(* A call of the daemon in progress is the one its loop waits for: cycles  *)
(* that are skipped, fail or end never leave two loops on one book.        *)
THEOREM LoopsExclude == Spec => []OneLoopPerBook
<1>1. LoopInv => OneLoopPerBook
  BY DEF LoopInv
<1> QED
  BY <1>1, LoopAlways, PTL

----------------------------------------------------------------------------
(* Stopping and pausing, book by book                                      *)

(* What a loop at this place may have begun since stop(): the check before *)
(* a chapter ends it, a sleep does not.                                    *)
Allowance(at) ==
  IF at = "cooling" THEN 0
  ELSE IF at \in {"writing", "judging", "notifying", "backoff"} THEN 1 ELSE 2

StopInv(b) ==
  /\ begun[b] \in Nat /\ begun[b] <= Allowance(jobs[b].at)
  /\ phase \in {"new", "running"} => begun[b] = 0

Gate == IF PauseAfter > MaxAuditRetries THEN PauseAfter ELSE MaxAuditRetries + 1

(* The number a loop judges is the one it counted, unless the failures were *)
(* cleared since.  The loop that pauses its book is past the failures that *)
(* are retried, or goes on with none: it makes at most its retry, and      *)
(* leaves at the next check.                                               *)
GateInv(b) ==
  /\ jobs[b].at \in {"judging", "rejudging"} => failures[b] \in {jobs[b].n, 0}
  /\ b \in paused => /\ jobs[b].at \notin {"cooling", "writing", "judging"}
                     /\ jobs[b].at = "notifying" => \/ failures[b] > MaxAuditRetries
                                                    \/ failures[b] = 0
                     /\ jobs[b].at \in {"backoff", "retrying", "checking"} => failures[b] = 0
  /\ b \notin paused => failures[b] < Gate \/ jobs[b].at \in {"judging", "rejudging"}

PausedAreBooks == paused \subseteq Books

BookInv == begun \in [Books -> Nat] /\ \A b \in Books : StopInv(b) /\ GateInv(b)

LEMMA SameBook ==
  ASSUME NEW b \in Books, StopInv(b), GateInv(b), phase' = phase, begun'[b] = begun[b],
         jobs'[b] = jobs[b], failures'[b] = failures[b], b \in paused' <=> b \in paused
  PROVE  StopInv(b)' /\ GateInv(b)'
  BY DEF StopInv, GateInv

(* Only the books of one loop change.                                      *)
LEMMA OneBook ==
  ASSUME BookInv, NEW b \in Books, StopInv(b)', GateInv(b)', phase' = phase,
         begun' \in [Books -> Nat],
         \A c \in Books : c # b => /\ begun'[c] = begun[c] /\ jobs'[c] = jobs[c]
                                   /\ failures'[c] = failures[c]
                                   /\ c \in paused' <=> c \in paused
  PROVE  BookInv'
<1>1. \A c \in Books : c # b => StopInv(c)' /\ GateInv(c)'
  BY SameBook DEF BookInv
<1> QED
  BY <1>1 DEF BookInv

LEMMA Started ==
  ASSUME LoopInv, Fresh, NEW b \in Books, jobs[b].at # "out"
  PROVE  phase # "new"
  BY DEF LoopInv, CapInv, Fresh

(* A chapter is begun behind the check or behind a sleep; of a paused book *)
(* as a retry only, with its failures cleared.                             *)
LEMMA BeginsBook ==
  ASSUME LoopInv, Fresh, BookInv, NEW b \in Books, NEW at \in {"writing", "retrying"},
         WriteOneChapter(b, at), b \in paused => at = "retrying" /\ failures[b] = 0,
         \/ at = "writing" /\ jobs[b].at = "checking" /\ Running
         \/ at = "writing" /\ jobs[b].at = "cooling"
         \/ at = "retrying" /\ jobs[b].at = "backoff"
  PROVE  BookInv'
<1>1. /\ jobs' = [jobs EXCEPT ![b].at = at] /\ UNCHANGED <<phase, failures, paused>>
      /\ begun' = IF Running THEN begun ELSE [begun EXCEPT ![b] = @ + 1]
  BY DEF WriteOneChapter, gateVars
<1>2. /\ jobs'[b].at = at /\ \A c \in Books : c # b => jobs'[c] = jobs[c]
      /\ jobs[b].at \in Places
  BY <1>1, JobFacts DEF JobRecords
<1>3. /\ begun \in [Books -> Nat] /\ begun[b] \in Nat /\ begun[b] <= Allowance(jobs[b].at)
      /\ phase \in {"new", "running"} => begun[b] = 0
  BY DEF BookInv, StopInv
<1>4. /\ begun' \in [Books -> Nat] /\ \A c \in Books : c # b => begun'[c] = begun[c]
      /\ begun'[b] = IF Running THEN begun[b] ELSE begun[b] + 1
  BY <1>1, <1>3
<1>5. b \notin paused => failures[b] < Gate
  BY DEF BookInv, GateInv
<1>6. phase # "new"
  BY Started
<1>7. StopInv(b)'
  <2>1. CASE jobs[b].at = "checking" /\ Running /\ at = "writing"
    BY <2>1, <1>1, <1>2, <1>3, <1>4 DEF StopInv, Allowance, Running
  <2>2. CASE jobs[b].at = "cooling" /\ at = "writing"
    <3>1. begun[b] = 0 /\ begun'[b] \in {0, 1}
      BY <2>2, <1>3, <1>4 DEF Allowance
    <3>2. phase' \in {"new", "running"} => begun'[b] = 0
      BY <3>1, <1>1, <1>3, <1>4, <1>6 DEF Running
    <3> QED
      BY <3>1, <3>2, <2>2, <1>1, <1>2 DEF StopInv, Allowance
  <2>3. CASE jobs[b].at = "backoff" /\ at = "retrying"
    <3>1. begun[b] \in {0, 1} /\ begun'[b] \in {0, 1, 2}
      BY <2>3, <1>3, <1>4 DEF Allowance
    <3>2. phase' \in {"new", "running"} => begun'[b] = 0
      BY <3>1, <1>1, <1>3, <1>4, <1>6 DEF Running
    <3> QED
      BY <3>1, <3>2, <2>3, <1>1, <1>2 DEF StopInv, Allowance
  <2> QED
    BY <2>1, <2>2, <2>3
<1>8. GateInv(b)'
  BY <1>1, <1>2, <1>5 DEF GateInv, Gate
<1> QED
  BY <1>1, <1>2, <1>4, <1>7, <1>8, OneBook

(* Any other step of a loop begins no chapter.                             *)
LEMMA WalksBook ==
  ASSUME LoopInv, BookInv, NEW b \in Books, NEW new \in JobRecords,
         jobs' = [jobs EXCEPT ![b] = new], UNCHANGED <<phase, begun>>,
         \A c \in Books : c # b => failures'[c] = failures[c],
         \A c \in Books : c # b => (c \in paused' <=> c \in paused),
         begun[b] <= Allowance(new.at), GateInv(b)'
  PROVE  BookInv'
<1>1. jobs'[b] = new /\ \A c \in Books : c # b => jobs'[c] = jobs[c]
  BY JobFacts
<1>2. begun' \in [Books -> Nat] /\ StopInv(b)'
  BY <1>1 DEF BookInv, StopInv
<1> QED
  BY <1>1, <1>2, OneBook

LEMMA JobBook ==
  ASSUME LoopInv, Fresh, BookInv, NEW b \in Books, JobStep(b)
  PROVE  BookInv'
<1>1. /\ jobs[b] \in JobRecords /\ jobs[b].at \in Places /\ jobs[b].done \in Nat
      /\ failures \in [Books -> Nat] /\ failures[b] \in Nat
  BY JobFacts DEF JobRecords, LoopInv, Shapes
<1>2. /\ begun[b] \in Nat /\ begun[b] <= Allowance(jobs[b].at) /\ GateInv(b)
      /\ phase \in {"new", "running"} => begun[b] = 0
  BY DEF BookInv, StopInv
<1>3. \A at \in Places : Allowance(at) \in 0 .. 2
  BY DEF Allowance
<1>4. begun[b] <= 2
  BY <1>1, <1>2, <1>3
<1>5. CASE LeaveLoop(b)
  <2>1. jobs' = [jobs EXCEPT ![b] = Out] /\ UNCHANGED <<phase, begun, failures, paused>>
        /\ jobs[b].at = "checking"
    BY <1>5 DEF LeaveLoop, gateVars
  <2>2. jobs'[b] = Out /\ Out.at = "out" /\ begun[b] <= Allowance(Out.at)
    BY <2>1, <1>4, JobFacts, OutShape DEF Allowance
  <2>3. GateInv(b)'
    BY <2>1, <2>2, <1>2 DEF GateInv
  <2> QED
    BY <2>1, <2>2, <2>3, OutShape, WalksBook
<1>6. CASE BeginChapter(b)
  BY <1>6, BeginsBook DEF BeginChapter, LeavesLoop
<1>7. CASE CoolDown(b)
  <2> DEFINE new == [jobs[b] EXCEPT !.at = "cooling"]
  <2>1. /\ jobs' = [jobs EXCEPT ![b] = new] /\ UNCHANGED <<phase, begun, failures, paused>>
        /\ jobs[b].at = "checking" /\ Running /\ b \notin paused
    BY <1>7, JobFacts DEF CoolDown, LeavesLoop, gateVars
  <2>2. "cooling" \in Places
    BY DEF Places
  <2>3. new \in JobRecords /\ new.at = "cooling"
    BY <2>2, JobFacts
  <2> HIDE DEF new
  <2>4. begun[b] <= Allowance(new.at)
    BY <2>1, <2>3, <1>2 DEF Allowance, Running
  <2>5. GateInv(b)'
    <3>1. jobs'[b] = new
      BY <2>1, JobFacts
    <3> QED
      BY <2>1, <2>3, <3>1, <1>2 DEF GateInv
  <2> QED
    BY <2>1, <2>3, <2>4, <2>5, WalksBook
<1>8. CASE WakeUp(b)
  BY <1>2, <1>8, BeginsBook DEF WakeUp, GateInv
<1>9. CASE ChapterReady(b)
  <2> DEFINE new == [Out EXCEPT !.at = "checking", !.done = jobs[b].done + 1]
  <2>1. /\ jobs' = [jobs EXCEPT ![b] = new] /\ UNCHANGED <<phase, begun, paused>>
        /\ failures' = [failures EXCEPT ![b] = 0] /\ jobs[b].at \in {"writing", "retrying"}
    BY <1>9 DEF ChapterReady
  <2>2. new \in JobRecords /\ new.at = "checking"
    <3>1. jobs[b].done + 1 \in Nat
      BY <1>1
    <3> QED
      BY <3>1, CheckingShape
  <2> HIDE DEF new
  <2>3. begun[b] <= Allowance(new.at)
    BY <2>2, <1>4 DEF Allowance
  <2>4. /\ jobs'[b] = new /\ failures'[b] = 0
        /\ \A c \in Books : c # b => failures'[c] = failures[c]
    BY <2>1, <1>1, JobFacts
  <2>5. GateInv(b)'
    BY <2>1, <2>2, <2>4, <1>2, SchedulerAssumption DEF GateInv, Gate
  <2> QED
    BY <2>1, <2>2, <2>3, <2>4, <2>5, WalksBook
<1>10. CASE ChapterFailed(b)
  <2> DEFINE at == IF jobs[b].at = "writing" THEN "judging" ELSE "rejudging"
             new == [jobs[b] EXCEPT !.n = failures[b] + 1, !.at = at]
  <2>1. /\ jobs' = [jobs EXCEPT ![b] = new] /\ UNCHANGED <<phase, begun, paused>>
        /\ failures' = [failures EXCEPT ![b] = @ + 1] /\ jobs[b].at \in {"writing", "retrying"}
    BY <1>1, <1>10, JobFacts DEF ChapterFailed
  <2>2. new \in JobRecords /\ new.at = at /\ new.n = failures[b] + 1
    <3>1. at \in Places /\ failures[b] + 1 \in Nat
      BY <1>1 DEF Places
    <3> QED
      BY <1>1, <3>1 DEF JobRecords
  <2>3. at \in {"judging", "rejudging"} /\ (at = "judging" <=> jobs[b].at = "writing")
    OBVIOUS
  <2> HIDE DEF new, at
  <2>4. begun[b] <= Allowance(new.at)
    BY <2>1, <2>2, <2>3, <1>2, <1>4 DEF Allowance
  <2>5. /\ jobs'[b] = new /\ failures'[b] = failures[b] + 1
        /\ \A c \in Books : c # b => failures'[c] = failures[c]
    BY <2>1, <1>1, JobFacts
  <2>6. GateInv(b)'
    BY <2>1, <2>2, <2>3, <2>5, <1>2 DEF GateInv
  <2> QED
    BY <2>1, <2>2, <2>4, <2>5, <2>6, WalksBook
<1>11. CASE Judge(b)
  <2> DEFINE at == IF jobs[b].at = "judging" THEN "notifying" ELSE "ending"
             new == [jobs[b] EXCEPT !.at = at]
  <2>1. /\ jobs' = [jobs EXCEPT ![b] = new] /\ UNCHANGED <<phase, begun, failures>>
        /\ jobs[b].at \in {"judging", "rejudging"}
        /\ paused' = IF Pauses(jobs[b].n) THEN paused \cup {b} ELSE paused
    BY <1>11, JobFacts DEF Judge
  <2>2. at \in Places /\ at \in {"notifying", "ending"}
        /\ (at = "notifying" <=> jobs[b].at = "judging")
    BY <2>1 DEF Places
  <2>3. new \in JobRecords /\ new.at = at
    BY <2>2, JobFacts
  <2> HIDE DEF new, at
  <2>4. begun[b] <= Allowance(new.at)
    BY <2>1, <2>2, <2>3, <1>2, <1>4 DEF Allowance
  <2>5. jobs'[b] = new
    BY <2>1, JobFacts
  <2>6. failures[b] \in {jobs[b].n, 0} /\ (b \in paused => at = "ending")
    BY <2>1, <2>2, <1>2 DEF GateInv
  <2>7. GateInv(b)'
    <3>1. CASE Pauses(jobs[b].n)
      BY <3>1, <2>1, <2>2, <2>3, <2>5, <2>6, <1>1, SchedulerAssumption
      DEF GateInv, Pauses, WithinRetries
    <3>2. CASE ~Pauses(jobs[b].n)
      <4>1. failures[b] < Gate
        <5>1. CASE failures[b] = 0
          BY <5>1, SchedulerAssumption DEF Gate
        <5>2. CASE failures[b] = jobs[b].n
          BY <3>2, <5>2, <1>1, SchedulerAssumption DEF Pauses, WithinRetries, Gate
        <5> QED
          BY <2>6, <5>1, <5>2
      <4> QED
        BY <3>2, <4>1, <2>1, <2>2, <2>3, <2>5, <2>6 DEF GateInv
    <3> QED
      BY <3>1, <3>2
  <2> QED
    BY <2>1, <2>3, <2>4, <2>7, WalksBook
<1>12. CASE BackOff(b)
  <2>1. /\ jobs[b].at \in {"notifying", "ending"} /\ UNCHANGED <<phase, begun, failures, paused>>
    BY <1>12 DEF BackOff, gateVars
  <2>2. CASE jobs' = [jobs EXCEPT ![b] = Out]
    <3>1. jobs'[b] = Out /\ Out.at = "out" /\ begun[b] <= Allowance(Out.at)
      BY <2>2, <1>4, JobFacts, OutShape DEF Allowance
    <3>2. GateInv(b)'
      BY <2>1, <3>1, <1>2 DEF GateInv
    <3> QED
      BY <2>1, <2>2, <3>1, <3>2, OutShape, WalksBook
  <2>3. CASE /\ jobs' = [jobs EXCEPT ![b].at = "backoff", ![b].n = 0]
             /\ jobs[b].at = "notifying" /\ WithinRetries(failures[b])
    <3> DEFINE new == [jobs[b] EXCEPT !.at = "backoff", !.n = 0]
    <3>1. new \in JobRecords /\ new.at = "backoff"
      BY <1>1 DEF JobRecords, Places
    <3>2. jobs' = [jobs EXCEPT ![b] = new]
      BY <2>3, JobFacts
    <3> HIDE DEF new
    <3>3. jobs'[b] = new /\ begun[b] <= Allowance(new.at)
      BY <2>3, <3>1, <3>2, <1>2, JobFacts DEF Allowance
    <3>4. b \in paused => failures[b] = 0
      BY <2>3, <1>1, <1>2, SchedulerAssumption DEF GateInv, WithinRetries
    <3>5. GateInv(b)'
      BY <2>1, <3>1, <3>3, <3>4, <1>2 DEF GateInv
    <3> QED
      BY <2>1, <3>1, <3>2, <3>3, <3>5, WalksBook
  <2> QED
    BY <2>2, <2>3, <1>12 DEF BackOff, Retries
<1> QED
  BY <1>5, <1>6, <1>7, <1>8, <1>9, <1>10, <1>11, <1>12 DEF JobStep

LEMMA ListedBook ==
  ASSUME LoopInv, BookInv, NEW books \in SUBSET (Books \ paused), ListBooks(books)
  PROVE  BookInv'
<1>1. /\ cycle = "listing" /\ UNCHANGED <<phase, begun, failures, paused>>
      /\ jobs' = [b \in Books |-> IF b \in books THEN [Out EXCEPT !.at = "checking"] ELSE jobs[b]]
  BY DEF ListBooks, gateVars
<1>2. [Out EXCEPT !.at = "checking"].at = "checking"
  BY DEF Out
<1>3. ASSUME NEW b \in Books PROVE StopInv(b)' /\ GateInv(b)'
  <2>1. StopInv(b) /\ GateInv(b)
    BY DEF BookInv
  <2>2. CASE b \in books
    <3>1. jobs[b].at = "out" /\ jobs'[b].at = "checking" /\ b \notin paused
      BY <2>2, <1>1, <1>2 DEF LoopInv, CapInv
    <3> QED
      BY <3>1, <2>1, <1>1 DEF StopInv, GateInv, Allowance
  <2>3. CASE b \notin books
    <3>1. jobs'[b] = jobs[b]
      BY <2>3, <1>1
    <3> QED
      BY <3>1, <2>1, <1>1 DEF StopInv, GateInv
  <2> QED
    BY <2>2, <2>3
<1> QED
  BY <1>1, <1>3 DEF BookInv

LEMMA ResumedBook ==
  ASSUME LoopInv, BookInv, NEW b \in Books, ResumeBook(b)
  PROVE  BookInv'
<1>1. /\ UNCHANGED <<phase, begun, jobs>> /\ paused' = paused \ {b}
      /\ failures' = [failures EXCEPT ![b] = 0] /\ failures \in [Books -> Nat]
  BY DEF ResumeBook, LoopInv, Shapes
<1>2. failures'[b] = 0 /\ \A c \in Books : c # b => failures'[c] = failures[c]
  BY <1>1
<1>3. StopInv(b)' /\ GateInv(b)'
  BY <1>1, <1>2, SchedulerAssumption DEF BookInv, StopInv, GateInv, Gate
<1> QED
  BY <1>1, <1>2, <1>3, OneBook DEF BookInv

(* start() and stop() find every loop with its allowance unspent.          *)
LEMMA PhaseMoves ==
  ASSUME BookInv, UNCHANGED <<begun, jobs, failures, paused>>,
         phase' \in {"new", "running"} => phase \in {"new", "running"}
  PROVE  BookInv'
  BY DEF BookInv, StopInv, GateInv

LEMMA BookNext ==
  ASSUME LoopInv, Fresh, BookInv, [Next]_vars
  PROVE  BookInv'
<1>1. CASE \E f \in Flows : CallStep(f) \/ InteractiveCall(f)
  BY <1>1, PhaseMoves DEF CallStep, InteractiveCall, daemonVars, gateVars
<1>2. CASE Start \/ Stop \/ Tick \/ ListingFails \/ CycleEnds \/ Midnight
  BY <1>2, PhaseMoves DEF Start, Stop, Tick, ListingFails, CycleEnds, Midnight, gateVars
<1>3. CASE \E books \in SUBSET (Books \ paused) : ListBooks(books)
  BY <1>3, ListedBook
<1>4. CASE \E b \in Books : JobStep(b)
  BY <1>4, JobBook
<1>5. CASE \E b \in Books : ResumeBook(b)
  BY <1>5, ResumedBook
<1>6. CASE UNCHANGED vars
  BY <1>6, PhaseMoves DEF vars, daemonVars, gateVars
<1> QED
  BY <1>1, <1>2, <1>3, <1>4, <1>5, <1>6 DEF Next

LEMMA BookInit == Init => BookInv
<1> SUFFICES ASSUME Init PROVE BookInv
  OBVIOUS
<1>1. ASSUME NEW b \in Books PROVE StopInv(b) /\ GateInv(b)
  <2>1. jobs[b].at = "out" /\ failures[b] = 0 /\ begun[b] = 0 /\ paused = {}
    BY OutShape DEF Init
  <2> QED
    BY <2>1, SchedulerAssumption DEF StopInv, GateInv, Allowance, Gate
<1> QED
  BY <1>1 DEF Init, BookInv

LEMMA BookAlways == Spec => [](LoopInv /\ Fresh /\ BookInv)
<1>1. Init => Fresh
  BY DEF Init, Fresh
<1> QED
  BY <1>1, FreshNext, LoopInit, LoopNext, BookInit, BookNext, PTL DEF Spec

(* A daemon that was stopped begins at most one more chapter of each book, *)
(* and its retry, with loops of any length asleep when stop() is called.   *)
THEOREM StopIsSoon == Spec => []StopsSoon
<1>1. ASSUME LoopInv, BookInv, NEW b \in Books PROVE begun[b] <= 2
  <2>1. begun[b] \in Nat /\ begun[b] <= Allowance(jobs[b].at)
    BY <1>1 DEF BookInv, StopInv
  <2>2. Allowance(jobs[b].at) \in 0 .. 2
    BY DEF Allowance
  <2> QED
    BY <2>1, <2>2
<1>2. LoopInv /\ BookInv => StopsSoon
  BY <1>1 DEF StopsSoon
<1> QED
  BY <1>2, BookAlways, PTL

(* A book whose failures reach the gate is paused, or about to be, for any *)
(* number of retries and any gate.                                         *)
THEOREM PauseIsInTime == Spec => []PausesInTime
<1>1. BookInv => PausesInTime
  BY DEF BookInv, GateInv, PausesInTime, Gate
<1> QED
  BY <1>1, BookAlways, PTL

(* The only chapter the daemon begins of a paused book is the retry of a   *)
(* loop whose failures were cleared before it paused the book.             *)
THEOREM PausedRest == Spec => PausedBooksRest
<1> DEFINE Rest == \A b \in paused :
                     (calls[FlowOf(b)].at = "idle" /\ calls'[FlowOf(b)].at # "idle")
                     => jobs[b].at = "backoff" /\ failures[b] = 0
           Inv == LoopInv /\ Fresh /\ BookInv /\ PausedAreBooks
<1>1. ASSUME Inv, [Next]_vars PROVE Rest
  <2> SUFFICES ASSUME NEW b \in paused, calls[FlowOf(b)].at = "idle",
                      ~(jobs[b].at = "backoff" /\ failures[b] = 0)
               PROVE  calls'[FlowOf(b)].at = "idle"
    BY DEF FlowOf
  <2>1. b \in Books /\ FlowOf(b) \in Flows /\ CallerOf(FlowOf(b)) = "daemon"
    BY <1>1, OwnFlows DEF PausedAreBooks
  <2>2. jobs[b].at \notin {"cooling", "backoff"}
    BY <1>1, <2>1 DEF BookInv, GateInv
  <2>3. CASE UNCHANGED calls
    BY <2>3 DEF FlowOf
  <2>4. CASE \E f \in Flows : CallStep(f)
    BY <1>1, <2>1, <2>4, CallsEnd DEF CallStep, LoopInv
  <2>5. CASE \E f \in Flows : InteractiveCall(f)
    <3>1. PICK f \in Flows : Ask(f) /\ CallerOf(f) # "daemon"
      BY <2>5 DEF InteractiveCall
    <3>2. f # FlowOf(b)
      BY <2>1, <3>1
    <3> QED
      BY <1>1, <2>1, <3>1, <3>2, CallBegins DEF LoopInv
  <2>6. CASE \E c \in Books : JobStep(c)
    <3> PICK c \in Books : JobStep(c)
      BY <2>6
    <3>1. FlowOf(c) \in Flows /\ (c # b => FlowOf(c) # FlowOf(b))
      BY <2>1, OwnFlows
    <3>2. ASSUME NEW at \in {"writing", "retrying"}, WriteOneChapter(c, at), c # b
          PROVE  calls'[FlowOf(b)].at = "idle"
      BY <1>1, <2>1, <3>1, <3>2, CallBegins DEF WriteOneChapter, LoopInv
    <3>3. CASE LeaveLoop(c) \/ CoolDown(c) \/ Judge(c) \/ BackOff(c)
      BY <2>3, <3>3 DEF LeaveLoop, CoolDown, Judge, BackOff, callVars
    <3>4. CASE BeginChapter(c) \/ WakeUp(c)
      <4>1. c # b
        BY <2>2, <3>4 DEF BeginChapter, LeavesLoop, WakeUp
      <4> QED
        BY <3>2, <3>4, <4>1 DEF BeginChapter, WakeUp
    <3>5. CASE ChapterReady(c) \/ ChapterFailed(c)
      <4>1. Consumed(c)
        BY <3>5 DEF ChapterReady, ChapterFailed
      <4> QED
        BY <1>1, <2>1, <3>1, <4>1, CallIsConsumed DEF LoopInv
    <3> QED
      BY <3>3, <3>4, <3>5 DEF JobStep
  <2>7. CASE \/ Start \/ Stop \/ Tick \/ ListingFails \/ CycleEnds \/ Midnight
             \/ \E books \in SUBSET (Books \ paused) : ListBooks(books)
             \/ \E c \in Books : ResumeBook(c)
    BY <2>3, <2>7 DEF Start, Stop, Tick, ListingFails, CycleEnds, Midnight, ListBooks,
       ResumeBook, callVars
  <2> QED
    BY <1>1, <2>3, <2>4, <2>5, <2>6, <2>7 DEF Next, vars, callVars
<1>2. Init => PausedAreBooks
  BY DEF Init, PausedAreBooks
<1>3. ASSUME PausedAreBooks, [Next]_vars PROVE PausedAreBooks'
  <2> USE DEF PausedAreBooks
  <2>1. CASE \E c \in Books : JobStep(c)
    BY <1>3, <2>1 DEF JobStep, LeaveLoop, BeginChapter, CoolDown, WakeUp, WriteOneChapter,
       ChapterReady, ChapterFailed, Judge, BackOff, gateVars
  <2>2. CASE \E f \in Flows : CallStep(f) \/ InteractiveCall(f)
    BY <1>3, <2>2 DEF CallStep, InteractiveCall, daemonVars, gateVars
  <2>3. CASE \/ Start \/ Stop \/ Tick \/ ListingFails \/ CycleEnds \/ Midnight
             \/ \E books \in SUBSET (Books \ paused) : ListBooks(books)
             \/ \E c \in Books : ResumeBook(c)
    BY <1>3, <2>3 DEF Start, Stop, Tick, ListingFails, CycleEnds, Midnight, ListBooks, ResumeBook,
       gateVars
  <2>4. CASE UNCHANGED vars
    BY <1>3, <2>4 DEF vars, daemonVars, gateVars
  <2> QED
    BY <1>3, <2>1, <2>2, <2>3, <2>4 DEF Next
<1>4. Spec => []PausedAreBooks
  BY <1>2, <1>3, PTL DEF Spec
<1> QED
  BY <1>1, <1>4, BookAlways, PTL DEF Spec, PausedBooksRest

----------------------------------------------------------------------------
(* What is counted exists                                                  *)

(* The books whose passed chapter is not counted yet, and the passed       *)
(* chapters of the daemon.                                                 *)
Owed == {b \in Books : Ready(b)}
PassedIn(texts) == {n \in 1 .. Len(texts) : texts[n] = [caller |-> "daemon", passed |-> TRUE]}
CreditOf(all) == UNION {{b} \X PassedIn(all[b]) : b \in Books}

(* A call knows no chapter before it ends; one that returned names a        *)
(* chapter of the daemon.                                                  *)
Answered(b) ==
  /\ calls[FlowOf(b)].at = "done" =>
       /\ calls[FlowOf(b)].chapter \in 1 .. Len(chapters[b])
       /\ chapters[b][calls[FlowOf(b)].chapter].caller = "daemon"
  /\ calls[FlowOf(b)].at \in {"asked", "writing"} => calls[FlowOf(b)].chapter = 0

(* What is counted and what is owed were finalized, each for itself.       *)
CountInv ==
  /\ \A b \in Books : Answered(b)
  /\ count + Cardinality(Owed) <= Cardinality(CreditOf(chapters))

(* A finalized chapter stays where it is.                                  *)
ChaptersStay ==
  \A b \in Books :
    /\ Len(chapters[b]) <= Len(chapters'[b])
    /\ \A n \in 1 .. Len(chapters[b]) : chapters'[b][n] = chapters[b][n]

LEMMA OwedFinite ==
  /\ IsFiniteSet(Owed) /\ Cardinality(Owed) \in Nat
  /\ Owed \subseteq Books
<1>1. Owed \in SUBSET Books
  BY DEF Owed
<1> QED
  BY <1>1, FS_Subset, FS_CardinalityType

LEMMA CreditMember ==
  ASSUME NEW all, NEW b \in Books, NEW n
  PROVE  <<b, n>> \in CreditOf(all) <=> n \in PassedIn(all[b])
BY DEF CreditOf

LEMMA CreditFinite ==
  ASSUME NEW all \in [Books -> Seq(Texts)]
  PROVE  IsFiniteSet(CreditOf(all)) /\ Cardinality(CreditOf(all)) \in Nat
<1> DEFINE parts == {{b} \X PassedIn(all[b]) : b \in Books}
           f == [b \in Books |-> {b} \X PassedIn(all[b])]
<1>1. IsFiniteSet(parts)
  <2>1. f \in Surjection(Books, parts)
    BY DEF Surjection
  <2> HIDE DEF f, parts
  <2> QED
    BY <2>1, FS_Surjection
<1>2. ASSUME NEW b \in Books PROVE IsFiniteSet({b} \X PassedIn(all[b]))
  <2>1. Len(all[b]) \in Int
    OBVIOUS
  <2>2. IsFiniteSet(1 .. Len(all[b]))
    BY <2>1, FS_Interval
  <2>3. PassedIn(all[b]) \in SUBSET (1 .. Len(all[b]))
    BY DEF PassedIn
  <2>4. IsFiniteSet(PassedIn(all[b])) /\ IsFiniteSet({b})
    BY <2>2, <2>3, FS_Subset, FS_Singleton
  <2> QED
    BY <2>4, FS_Product
<1>3. \A part \in parts : IsFiniteSet(part)
  BY <1>2
<1>4. CreditOf(all) = UNION parts
  BY DEF CreditOf
<1> HIDE DEF parts
<1> QED
  BY <1>1, <1>3, <1>4, FS_UNION, FS_CardinalityType

(* Credit is never taken back.                                             *)
LEMMA CreditStays ==
  ASSUME Shapes, Shapes', ChaptersStay
  PROVE  CreditOf(chapters) \subseteq CreditOf(chapters')
<1>1. ASSUME NEW b \in Books PROVE PassedIn(chapters[b]) \subseteq PassedIn(chapters'[b])
  <2> SUFFICES ASSUME NEW n \in PassedIn(chapters[b]) PROVE n \in PassedIn(chapters'[b])
    OBVIOUS
  <2>1. n \in 1 .. Len(chapters[b]) /\ chapters[b][n] = [caller |-> "daemon", passed |-> TRUE]
    BY DEF PassedIn
  <2>2. /\ Len(chapters[b]) \in Nat /\ Len(chapters'[b]) \in Nat
        /\ Len(chapters[b]) <= Len(chapters'[b])
    BY DEF ChaptersStay, Shapes
  <2>3. chapters'[b][n] = chapters[b][n]
    BY <2>1 DEF ChaptersStay
  <2> QED
    BY <2>1, <2>2, <2>3 DEF PassedIn
<1> QED
  BY <1>1 DEF CreditOf

(* A book whose call does not move is owed what it was.                    *)
LEMMA AnswerStays ==
  ASSUME Shapes, Shapes', ChaptersStay, NEW b \in Books, Answered(b),
         calls'[FlowOf(b)] = calls[FlowOf(b)]
  PROVE  Answered(b)' /\ (Ready(b)' <=> Ready(b))
<1> DEFINE n == calls[FlowOf(b)].chapter
<1>1. /\ Len(chapters[b]) \in Nat /\ Len(chapters'[b]) \in Nat
      /\ Len(chapters[b]) <= Len(chapters'[b])
  BY DEF Shapes, ChaptersStay
<1>2. CASE calls[FlowOf(b)].at = "done"
  <2>1. n \in 1 .. Len(chapters[b]) /\ chapters[b][n].caller = "daemon"
    BY <1>2 DEF Answered
  <2> HIDE DEF n
  <2>2. chapters'[b][n] = chapters[b][n]
    BY <2>1 DEF ChaptersStay
  <2>3. n \in 1 .. Len(chapters'[b])
    BY <1>1, <2>1
  <2> QED
    BY <1>2, <2>1, <2>2, <2>3 DEF n, Answered, Ready, Returned
<1>3. CASE calls[FlowOf(b)].at # "done"
  BY <1>3 DEF Answered, Ready, Returned
<1> QED
  BY <1>2, <1>3

(* A step that owes nothing new and counts nothing.                        *)
LEMMA NothingOwed ==
  ASSUME Shapes, Shapes', CountInv, ChaptersStay, count' <= count,
         \A b \in Books : Answered(b)' /\ (Ready(b)' => Ready(b))
  PROVE  CountInv'
<1>1. Owed' \in SUBSET Owed
  BY DEF Owed
<1>2. Cardinality(Owed') <= Cardinality(Owed) /\ Cardinality(Owed') \in Nat
  BY <1>1, OwedFinite, FS_Subset, FS_CardinalityType
<1>3. Cardinality(CreditOf(chapters)) <= Cardinality(CreditOf(chapters'))
  <2>1. IsFiniteSet(CreditOf(chapters'))
    BY CreditFinite DEF Shapes
  <2>2. CreditOf(chapters) \in SUBSET CreditOf(chapters')
    BY CreditStays
  <2> QED
    BY <2>1, <2>2, FS_Subset
<1>4. /\ Cardinality(CreditOf(chapters)) \in Nat /\ Cardinality(CreditOf(chapters')) \in Nat
      /\ count \in Nat /\ count' \in Nat
  BY CreditFinite DEF Shapes
<1>5. count + Cardinality(Owed) <= Cardinality(CreditOf(chapters))
  BY DEF CountInv
<1>6. count' + Cardinality(Owed') <= Cardinality(CreditOf(chapters'))
  BY <1>2, <1>3, <1>4, <1>5, OwedFinite
<1> QED
  BY <1>6 DEF CountInv

LEMMA GrowsByOne ==
  ASSUME Shapes, NEW b \in Books, NEW text \in Texts, Grow(b, text)
  PROVE  /\ ChaptersStay
         /\ Len(chapters'[b]) = Len(chapters[b]) + 1
         /\ chapters'[b][Len(chapters[b]) + 1] = text
<1>1. chapters \in [Books -> Seq(Texts)] /\ chapters[b] \in Seq(Texts)
  BY DEF Shapes
<1>2. /\ chapters'[b] = Append(chapters[b], text)
      /\ \A c \in Books : c # b => chapters'[c] = chapters[c]
  BY <1>1 DEF Grow
<1>3. /\ Len(chapters'[b]) = Len(chapters[b]) + 1
      /\ chapters'[b][Len(chapters[b]) + 1] = text
      /\ \A n \in 1 .. Len(chapters[b]) : chapters'[b][n] = chapters[b][n]
  BY <1>1, <1>2
<1>4. \A c \in Books : Len(chapters[c]) \in Nat
  BY <1>1
<1>5. ASSUME NEW c \in Books
      PROVE  /\ Len(chapters[c]) <= Len(chapters'[c])
             /\ \A n \in 1 .. Len(chapters[c]) : chapters'[c][n] = chapters[c][n]
  <2>1. CASE c = b
    BY <1>3, <1>4, <2>1
  <2>2. CASE c # b
    BY <1>2, <1>4, <2>2
  <2> QED
    BY <2>1, <2>2
<1> QED
  BY <1>3, <1>5 DEF ChaptersStay

LEMMA OneMoreOwed ==
  ASSUME NEW c \in Nat, NEW was \in Nat, NEW is \in Nat, NEW had \in Nat, NEW has \in Nat,
         is <= was + 1, had + 1 <= has, c + was <= had
  PROVE  c + is <= has
OBVIOUS

(* The one step that owes: a call returns a passed chapter, and adds it.   *)
LEMMA OwesOne ==
  ASSUME Shapes, Shapes', CountInv, ChaptersStay, count' = count, NEW b \in Books,
         Len(chapters'[b]) = Len(chapters[b]) + 1,
         chapters'[b][Len(chapters[b]) + 1] = [caller |-> "daemon", passed |-> TRUE],
         \A c \in Books : Answered(c)' /\ (Ready(c)' => Ready(c) \/ c = b)
  PROVE  CountInv'
<1> DEFINE old == CreditOf(chapters)
           new == CreditOf(chapters')
           p == <<b, Len(chapters[b]) + 1>>
<1>1. IsFiniteSet(old) /\ IsFiniteSet(new) /\ Cardinality(old) \in Nat /\ Cardinality(new) \in Nat
  BY CreditFinite DEF Shapes
<1>2. Len(chapters[b]) \in Nat
  BY DEF Shapes
<1>3. p \notin old
  <2>1. Len(chapters[b]) + 1 \notin PassedIn(chapters[b])
    BY <1>2 DEF PassedIn
  <2> QED
    BY <2>1, CreditMember
<1>4. p \in new
  <2>1. Len(chapters[b]) + 1 \in PassedIn(chapters'[b])
    BY <1>2 DEF PassedIn
  <2> QED
    BY <2>1, CreditMember
<1>5. old \subseteq new
  BY CreditStays
<1> HIDE DEF old, new, p
<1>6. Cardinality(old) + 1 <= Cardinality(new)
  <2>1. Cardinality(old \cup {p}) = Cardinality(old) + 1
    BY <1>1, <1>3, FS_AddElement
  <2>2. old \cup {p} \in SUBSET new
    BY <1>4, <1>5
  <2> QED
    BY <1>1, <2>1, <2>2, FS_Subset
<1>7. Cardinality(Owed') <= Cardinality(Owed) + 1 /\ Cardinality(Owed') \in Nat
  <2>1. IsFiniteSet(Owed \cup {b}) /\ Cardinality(Owed \cup {b}) <= Cardinality(Owed) + 1
    <3> DEFINE set == Owed
    <3>1. IsFiniteSet(set) /\ Cardinality(set) \in Nat
      BY OwedFinite
    <3> HIDE DEF set
    <3>2. /\ IsFiniteSet(set \cup {b})
          /\ Cardinality(set \cup {b}) = IF b \in set THEN Cardinality(set) ELSE Cardinality(set) + 1
      BY <3>1, FS_AddElement
    <3>3. IsFiniteSet(set \cup {b}) /\ Cardinality(set \cup {b}) <= Cardinality(set) + 1
      BY <3>1, <3>2
    <3> QED
      BY <3>3 DEF set
  <2>2. Owed' \in SUBSET (Owed \cup {b})
    BY DEF Owed
  <2>3. IsFiniteSet(Owed') /\ Cardinality(Owed') <= Cardinality(Owed \cup {b})
    BY <2>1, <2>2, FS_Subset
  <2>4. Cardinality(Owed') \in Nat /\ Cardinality(Owed \cup {b}) \in Nat
    BY <2>1, <2>3, FS_CardinalityType
  <2> QED
    BY <2>1, <2>3, <2>4, OwedFinite
<1>8. count + Cardinality(Owed) <= Cardinality(old) /\ count \in Nat
  BY DEF CountInv, Shapes, old
<1>9. count' + Cardinality(Owed') <= Cardinality(new)
  <2> DEFINE was == Cardinality(Owed)
             is == Cardinality(Owed')
             had == Cardinality(old)
             has == Cardinality(new)
  <2>1. /\ was \in Nat /\ is \in Nat /\ had \in Nat /\ has \in Nat
        /\ count \in Nat /\ count' = count
    BY <1>1, <1>7, <1>8, OwedFinite
  <2>2. is <= was + 1 /\ had + 1 <= has /\ count + was <= had
    BY <1>6, <1>7, <1>8
  <2> HIDE DEF was, is, had, has
  <2>3. count' + is <= has
    BY <2>1, <2>2, OneMoreOwed
  <2> QED
    BY <2>3 DEF is, has
<1> QED
  BY <1>9 DEF CountInv, new

(* A call moves on.                                                        *)
LEMMA CallCounts ==
  ASSUME Shapes, Shapes', CountInv, NEW f \in Flows, Ends(f), count' = count
  PROVE  CountInv'
<1>1. /\ calls \in [Flows -> CallRecords] /\ BookOf(f) \in Books /\ CallerOf(f) \in Callers
      /\ \A b \in Books : FlowOf(b) \in Flows /\ (FlowOf(b) = f => b = BookOf(f))
      /\ \A b \in Books : FlowOf(b) = f => CallerOf(f) = "daemon"
  BY OwnFlows DEF Shapes, FlowOf, BookOf, CallerOf
<1>0. count' <= count
  BY DEF Shapes
<1>2. \A g \in Flows : g # f => calls'[g] = calls[g]
  BY <1>1 DEF Ends, Enter, Fail, Succeed
<1>3. \A passed \in BOOLEAN : OwnText(f, passed) \in Texts
  BY <1>1 DEF OwnText, Texts
<1>4. ChaptersStay
  <2>1. CASE UNCHANGED chapters
    BY <2>1 DEF ChaptersStay, Shapes
  <2>2. CASE \E passed \in BOOLEAN : Grow(BookOf(f), OwnText(f, passed))
    BY <1>1, <1>3, <2>2, GrowsByOne
  <2> QED
    BY <2>1, <2>2 DEF Ends, Enter, Fail, Succeed
<1>5. \A b \in Books : FlowOf(b) # f => Answered(b)' /\ (Ready(b)' <=> Ready(b))
  BY <1>1, <1>2, <1>4, AnswerStays DEF CountInv
<1>6. ASSUME NEW b \in Books, FlowOf(b) = f PROVE CountInv'
  <2>1. calls[f].at \in {"asked", "writing"} => calls[f].chapter = 0
    BY <1>6 DEF CountInv, Answered
  <2>2. ASSUME calls'[f].at \in {"failed", "writing"}, calls'[f].chapter = 0 PROVE CountInv'
    <3>1. Answered(b)' /\ ~Ready(b)'
      BY <1>6, <2>2 DEF Answered, Ready, Returned
    <3>2. \A c \in Books : c # b => FlowOf(c) # f
      BY <1>1, <1>6
    <3>3. \A c \in Books : Answered(c)' /\ (Ready(c)' => Ready(c))
      BY <1>5, <3>1, <3>2
    <3> QED
      BY <1>0, <1>4, <3>3, NothingOwed
  <2>3. CASE Enter(f)
    <3>1. calls'[f] = [calls[f] EXCEPT !.at = IF Busy(BookOf(f)) THEN "failed" ELSE "writing"]
      BY <1>1, <2>3 DEF Enter
    <3>2. calls[f] \in CallRecords /\ calls[f].chapter = 0
      BY <1>1, <2>1, <2>3 DEF Enter
    <3>3. calls'[f].at \in {"failed", "writing"} /\ calls'[f].chapter = 0
      BY <3>1, <3>2 DEF CallRecords
    <3> QED
      BY <2>2, <3>3
  <2>4. CASE Fail(f)
    <3>1. calls'[f].at \in {"failed", "writing"} /\ calls'[f].chapter = 0
      BY <1>1, <2>4 DEF Fail
    <3> QED
      BY <2>2, <3>1
  <2>5. ASSUME NEW passed \in BOOLEAN, Succeed(f, passed) PROVE CountInv'
    <3> DEFINE n == Len(chapters[b]) + 1
    <3>1. /\ Grow(b, OwnText(f, passed))
          /\ calls'[f] = [at |-> "done", chapter |-> n]
      BY <1>1, <1>6, <2>1, <2>5 DEF Succeed
    <3>2. /\ Len(chapters'[b]) = n /\ n \in Nat /\ n \in 1 .. n
          /\ chapters'[b][n] = [caller |-> "daemon", passed |-> passed]
      <4>1. Len(chapters[b]) \in Nat
        BY DEF Shapes
      <4>2. OwnText(f, passed) = [caller |-> "daemon", passed |-> passed]
        BY <1>1, <1>6 DEF OwnText
      <4> QED
        BY <1>3, <3>1, <4>1, <4>2, GrowsByOne
    <3> HIDE DEF n
    <3>3. Answered(b)' /\ (Ready(b)' <=> passed)
      BY <1>6, <3>1, <3>2 DEF Answered, Ready, Returned
    <3>4. \A c \in Books : c # b => FlowOf(c) # f
      BY <1>1, <1>6
    <3>5. CASE passed
      <4>1. chapters'[b][Len(chapters[b]) + 1] = [caller |-> "daemon", passed |-> TRUE]
        BY <3>2, <3>5 DEF n
      <4>2. Len(chapters'[b]) = Len(chapters[b]) + 1
        BY <3>2 DEF n
      <4>3. \A c \in Books : Answered(c)' /\ (Ready(c)' => Ready(c) \/ c = b)
        BY <1>5, <3>3, <3>4
      <4> QED
        BY <1>4, <4>1, <4>2, <4>3, OwesOne
    <3>6. CASE ~passed
      <4>1. \A c \in Books : Answered(c)' /\ (Ready(c)' => Ready(c))
        BY <1>5, <3>3, <3>4, <3>6
      <4> QED
        BY <1>0, <1>4, <4>1, NothingOwed
    <3> QED
      BY <3>5, <3>6
  <2> QED
    BY <2>3, <2>4, <2>5 DEF Ends
<1>7. CASE \A b \in Books : FlowOf(b) # f
  BY <1>0, <1>4, <1>5, <1>7, NothingOwed
<1> QED
  BY <1>6, <1>7

(* Calls of the daemon are made or looked at; no chapter moves.            *)
LEMMA CallsTurn ==
  ASSUME Shapes, Shapes', CountInv, chapters' = chapters, count' <= count,
         \A b \in Books : \/ calls'[FlowOf(b)] = calls[FlowOf(b)]
                          \/ calls'[FlowOf(b)].at \in {"idle", "asked"}
                               /\ calls'[FlowOf(b)].chapter = 0
  PROVE  CountInv'
<1>1. ChaptersStay
  BY DEF ChaptersStay, Shapes
<1>2. ASSUME NEW b \in Books PROVE Answered(b)' /\ (Ready(b)' => Ready(b))
  <2>1. CASE calls'[FlowOf(b)] = calls[FlowOf(b)]
    BY <1>1, <2>1, AnswerStays DEF CountInv
  <2>2. CASE calls'[FlowOf(b)].at \in {"idle", "asked"} /\ calls'[FlowOf(b)].chapter = 0
    BY <2>2 DEF Answered, Ready, Returned
  <2> QED
    BY <2>1, <2>2
<1> QED
  BY <1>1, <1>2, NothingOwed

(* A chapter is counted, and owed no more.                                 *)
LEMMA ReadyCounts ==
  ASSUME LoopInv, CountInv, NEW b \in Books, ChapterReady(b)
  PROVE  CountInv'
<1>1. /\ Shapes /\ count' = count + 1 /\ count \in Nat /\ chapters' = chapters
      /\ calls' = [calls EXCEPT ![FlowOf(b)] = Idle] /\ FlowOf(b) \in Flows
      /\ calls \in [Flows -> CallRecords] /\ b \in Owed
  BY OwnFlows DEF LoopInv, Shapes, ChapterReady, Consumed, Owed
<1>2. \A c \in Books : c # b => calls'[FlowOf(c)] = calls[FlowOf(c)]
  BY <1>1, OwnFlows
<1>3. calls'[FlowOf(b)].at = "idle"
  BY <1>1 DEF Idle
<1>4. ASSUME NEW c \in Books
      PROVE  Answered(c)' /\ (c \in Owed' <=> c \in Owed /\ c # b)
  BY <1>1, <1>2, <1>3 DEF CountInv, Answered, Owed, Ready, Returned
<1>5. Owed' = Owed \ {b}
  <2>1. Owed \subseteq Books /\ Owed' \subseteq Books
    BY DEF Owed
  <2> QED
    BY <1>4, <2>1
<1>6. Cardinality(Owed') = Cardinality(Owed) - 1
  <2> DEFINE set == Owed
  <2>1. IsFiniteSet(set) /\ b \in set
    BY <1>1, OwedFinite
  <2> HIDE DEF set
  <2>2. Cardinality(set \ {b}) = Cardinality(set) - 1
    BY <2>1, FS_RemoveElement
  <2> QED
    BY <1>5, <2>2 DEF set
<1>7. count + Cardinality(Owed) <= Cardinality(CreditOf(chapters))
  BY DEF CountInv
<1>8. count' + Cardinality(Owed') <= Cardinality(CreditOf(chapters'))
  <2>1. Cardinality(CreditOf(chapters')) = Cardinality(CreditOf(chapters))
    BY <1>1
  <2> QED
    BY <1>1, <1>6, <1>7, <2>1, OwedFinite
<1> QED
  BY <1>4, <1>8 DEF CountInv

LEMMA CountNext ==
  ASSUME LoopInv, LoopInv', CountInv, [Next]_vars
  PROVE  CountInv'
<1>0. Shapes /\ Shapes' /\ count \in Nat /\ calls \in [Flows -> CallRecords]
  BY DEF LoopInv, Shapes
<1>1. ASSUME UNCHANGED <<calls, chapters, count>> PROVE CountInv'
  BY <1>0, <1>1, CallsTurn
<1>2. CASE \E f \in Flows : CallStep(f)
  BY <1>0, <1>2, CallCounts DEF CallStep, daemonVars
<1>3. ASSUME NEW f \in Flows, Ask(f), count' = count PROVE CountInv'
  <2>1. chapters' = chapters /\ calls' = [calls EXCEPT ![f] = [at |-> "asked", chapter |-> 0]]
    BY <1>3 DEF Ask
  <2>2. ASSUME NEW b \in Books
        PROVE  \/ calls'[FlowOf(b)] = calls[FlowOf(b)]
               \/ calls'[FlowOf(b)].at \in {"idle", "asked"} /\ calls'[FlowOf(b)].chapter = 0
    BY <1>0, <2>1, OwnFlows
  <2>3. count' <= count
    BY <1>0, <1>3
  <2> QED
    BY <1>0, <2>1, <2>2, <2>3, CallsTurn
<1>4. CASE \E f \in Flows : InteractiveCall(f)
  BY <1>3, <1>4 DEF InteractiveCall, daemonVars
<1>5. CASE \E b \in Books : JobStep(b)
  <2> PICK b \in Books : JobStep(b)
    BY <1>5
  <2>1. CASE LeaveLoop(b) \/ CoolDown(b) \/ Judge(b) \/ BackOff(b)
    BY <1>1, <2>1 DEF LeaveLoop, CoolDown, Judge, BackOff, callVars
  <2>2. CASE BeginChapter(b) \/ WakeUp(b)
    <3>1. Ask(FlowOf(b)) /\ count' = count
      BY <2>2 DEF BeginChapter, WakeUp, WriteOneChapter
    <3> QED
      BY <1>3, <3>1, OwnFlows
  <2>3. CASE ChapterReady(b)
    BY <2>3, ReadyCounts
  <2>4. CASE ChapterFailed(b)
    <3>1. /\ chapters' = chapters /\ count' = count
          /\ calls' = [calls EXCEPT ![FlowOf(b)] = Idle]
      BY <2>4 DEF ChapterFailed, Consumed
    <3>2. ASSUME NEW c \in Books
          PROVE  \/ calls'[FlowOf(c)] = calls[FlowOf(c)]
                 \/ calls'[FlowOf(c)].at \in {"idle", "asked"}
                      /\ calls'[FlowOf(c)].chapter = 0
      BY <1>0, <3>1, OwnFlows DEF Idle
    <3>3. count' <= count
      BY <1>0, <3>1
    <3> QED
      BY <1>0, <3>1, <3>2, <3>3, CallsTurn
  <2> QED
    BY <2>1, <2>2, <2>3, <2>4 DEF JobStep
<1>6. CASE Midnight
  BY <1>0, <1>6, CallsTurn DEF Midnight, callVars
<1>7. CASE \/ Start \/ Stop \/ Tick \/ ListingFails \/ CycleEnds
           \/ \E books \in SUBSET (Books \ paused) : ListBooks(books)
           \/ \E b \in Books : ResumeBook(b)
  BY <1>1, <1>7 DEF Start, Stop, Tick, ListingFails, CycleEnds, ListBooks, ResumeBook, callVars
<1>8. CASE UNCHANGED vars
  BY <1>1, <1>8 DEF vars, callVars, daemonVars
<1> QED
  BY <1>2, <1>4, <1>5, <1>6, <1>7, <1>8 DEF Next

LEMMA CountInit ==
  ASSUME Init
  PROVE  CountInv
<1>1. \A b \in Books : calls[FlowOf(b)] = Idle
  BY OwnFlows DEF Init, CallInit
<1>2. (\A b \in Books : Answered(b)) /\ Owed = {}
  BY <1>1 DEF Answered, Owed, Ready, Returned, Idle
<1>3. Cardinality(CreditOf(chapters)) \in Nat
  BY LoopInit, CreditFinite DEF LoopInv, Shapes
<1>4. count = 0 /\ Cardinality(Owed) = 0
  BY <1>2, FS_EmptySet DEF Init
<1>5. count + Cardinality(Owed) <= Cardinality(CreditOf(chapters))
  BY <1>3, <1>4
<1> QED
  BY <1>2, <1>5 DEF CountInv

(* The daemon counts no chapter the Runtime did not finalize as passed for  *)
(* it, and none twice, whatever fails, retries or is paused in between and *)
(* whoever else writes the books.                                          *)
THEOREM CountIsEarned == Spec => []CountedMeansFinalized
<1>1. LoopInv /\ CountInv => CountedMeansFinalized
  <2> SUFFICES ASSUME LoopInv, CountInv PROVE CountedMeansFinalized
    OBVIOUS
  <2>1. /\ count \in Nat /\ Cardinality(CreditOf(chapters)) \in Nat
        /\ count + Cardinality(Owed) <= Cardinality(CreditOf(chapters))
    BY CreditFinite DEF LoopInv, Shapes, CountInv
  <2>2. count <= Cardinality(CreditOf(chapters))
    BY <2>1, OwedFinite
  <2> QED
    BY <2>2 DEF CountedMeansFinalized, CreditOf, PassedIn
<1> QED
  BY <1>1, LoopAlways, CountInit, CountNext, PTL DEF Spec
=============================================================================
