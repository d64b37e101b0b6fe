----------------------------- MODULE Scheduler -----------------------------
(***************************************************************************)
(* One Scheduler of the daemon (pipeline/scheduler.ts) over WriteCall:     *)
(* write cycles in which the books are processed in parallel, the daily    *)
(* cap, cooldown and retry sleeps (both switched on), the quality gate     *)
(* that pauses a book, and stop() and resumeBook() at any moment, while    *)
(* other callers of the process write the same books.  Studio and the CLI  *)
(* build a new Scheduler for every start; the loops of a stopped one that  *)
(* still run are among the other callers.                                  *)
(***************************************************************************)
EXTENDS WriteCall, FiniteSets

CONSTANTS
  MaxConcurrentBooks,
  ChaptersPerCycle,
  MaxChaptersPerDay,
  MaxAuditRetries,
  PauseAfter,   \* pauseAfterConsecutiveFailures
  MaxEvents,    \* bound on calls of resumeBook() and changes of the date
  MaxChapters,  \* bound on the chapters of a book
  MaxCalls      \* bound on interactive calls

ASSUME SchedulerAssumption ==
  /\ "daemon" \in Callers /\ IsFiniteSet(Books)
  /\ {MaxConcurrentBooks, ChaptersPerCycle, MaxChaptersPerDay} \subseteq Nat \ {0}
  /\ {MaxAuditRetries, PauseAfter} \subseteq Nat
  /\ {MaxEvents, MaxChapters, MaxCalls} \subseteq Nat

VARIABLES
  phase,     \* of the Scheduler: new, running, stopped
  starting,  \* start() waits for the first cycle
  timer,     \* the write-cycle interval timer is set
  cycle,     \* writeCycleInFlight: none, or reading the books, or writing
  jobs,      \* processBook, per book
  count,     \* today's dailyChapterCount
  failures,  \* consecutiveFailures
  paused,    \* pausedBooks
  begun,     \* chapters the daemon began since it was stopped, per book
  events, asked

cycleVars == <<starting, timer, cycle>>
gateVars == <<failures, paused>>
daemonVars == <<phase, cycleVars, jobs, count, gateVars, begun, events>>
vars == <<callVars, daemonVars, asked>>

(* done: chapters of this cycle; n: the failures handleAuditFailure counted.*)
Out == [at |-> "out", done |-> 0, n |-> 0]
FlowOf(b) == <<b, "daemon">>

Init ==
  /\ CallInit
  /\ phase = "new" /\ starting = FALSE /\ timer = FALSE /\ cycle = "none"
  /\ jobs = [b \in Books |-> Out]
  /\ count = 0
  /\ failures = [b \in Books |-> 0] /\ paused = {}
  /\ begun = [b \in Books |-> 0]
  /\ events = 0 /\ asked = 0

IsDailyCapReached == count >= MaxChaptersPerDay

(* runWriteCycle, up to its first await.                                   *)
RunWriteCycle == cycle' = IF IsDailyCapReached THEN "writing" ELSE "listing"

Start ==
  /\ phase = "new"
  /\ phase' = "running" /\ starting' = TRUE
  /\ RunWriteCycle
  /\ UNCHANGED <<callVars, asked, timer, jobs, count, gateVars, begun, events>>

Stop ==
  /\ phase = "running"
  /\ phase' = "stopped" /\ timer' = FALSE
  /\ UNCHANGED <<callVars, asked, starting, cycle, jobs, count, gateVars, begun, events>>

(* Mutation: no guard against a cycle in flight.                           *)
AlwaysTriggers == RunWriteCycle

TriggerWriteCycle == cycle = "none" /\ RunWriteCycle

Tick ==
  /\ timer
  /\ TriggerWriteCycle
  /\ UNCHANGED <<callVars, asked, phase, starting, timer, jobs, count, gateVars, begun,
                 events>>

(* The books that are active and not paused, as many as run concurrently.  *)
ListBooks(books) ==
  /\ cycle = "listing" /\ Cardinality(books) <= MaxConcurrentBooks
  /\ cycle' = "writing"
  /\ jobs' = [b \in Books |-> IF b \in books THEN [Out EXCEPT !.at = "checking"] ELSE jobs[b]]
  /\ UNCHANGED <<callVars, asked, phase, starting, timer, count, gateVars, begun, events>>

(* A book.json cannot be read: the cycle rejects.  A start() that waits    *)
(* for it rejects as well, and its caller stops the daemon.                *)
ListingFails ==
  /\ cycle = "listing"
  /\ cycle' = "none" /\ starting' = FALSE
  /\ phase' = IF starting THEN "stopped" ELSE phase
  /\ UNCHANGED <<callVars, asked, timer, jobs, count, gateVars, begun, events>>

(* An operator resumes a book, whether or not it is paused.                *)
ResumeBook(b) ==
  /\ events < MaxEvents
  /\ events' = events + 1
  /\ paused' = paused \ {b} /\ failures' = [failures EXCEPT ![b] = 0]
  /\ UNCHANGED <<callVars, asked, phase, cycleVars, jobs, count, begun>>

(* The count is kept by date.                                              *)
Midnight ==
  /\ events < MaxEvents
  /\ events' = events + 1
  /\ count' = 0
  /\ UNCHANGED <<callVars, asked, phase, cycleVars, jobs, gateVars, begun>>

----------------------------------------------------------------------------
(* processBook                                                             *)

Running == phase = "running"

WriteOneChapter(b, at) ==
  /\ Ask(FlowOf(b))
  /\ jobs' = [jobs EXCEPT ![b].at = at]
  /\ begun' = IF Running THEN begun ELSE [begun EXCEPT ![b] = @ + 1]
  /\ UNCHANGED <<asked, phase, cycleVars, count, gateVars, events>>

(* Mutation: the loop does not look at the daily cap.                      *)
LeavesUncapped(b) ==
  jobs[b].done = ChaptersPerCycle \/ ~Running \/ b \in paused

(* Mutation: the loop does not look at running.                            *)
LeavesUnstopped(b) ==
  jobs[b].done = ChaptersPerCycle \/ IsDailyCapReached \/ b \in paused

LeavesLoop(b) ==
  jobs[b].done = ChaptersPerCycle \/ ~Running \/ IsDailyCapReached \/ b \in paused

LeaveLoop(b) ==
  /\ jobs[b].at = "checking" /\ LeavesLoop(b)
  /\ jobs' = [jobs EXCEPT ![b] = Out]
  /\ UNCHANGED <<callVars, asked, phase, cycleVars, count, gateVars, begun, events>>

(* The first chapter of a cycle needs no cooldown.                         *)
BeginChapter(b) ==
  /\ jobs[b].at = "checking" /\ ~LeavesLoop(b) /\ jobs[b].done = 0
  /\ WriteOneChapter(b, "writing")

CoolDown(b) ==
  /\ jobs[b].at = "checking" /\ ~LeavesLoop(b) /\ jobs[b].done > 0
  /\ jobs' = [jobs EXCEPT ![b].at = "cooling"]
  /\ UNCHANGED <<callVars, asked, phase, cycleVars, count, gateVars, begun, events>>

(* Nothing is checked again after a sleep.                                 *)
WakeUp(b) ==
  \/ jobs[b].at = "cooling" /\ WriteOneChapter(b, "writing")
  \/ jobs[b].at = "backoff" /\ WriteOneChapter(b, "retrying")

(* Whether the call returned, and whether its chapter is ready-for-review. *)
Returned(b) == calls[FlowOf(b)].at = "done"

(* Mutation: a chapter that failed its audit counts as well.               *)
ReturnedAtAll(b) == Returned(b)

Ready(b) == Returned(b) /\ chapters[b][calls[FlowOf(b)].chapter].passed

(* The daemon has looked at the result of its call.                        *)
Consumed(b) == calls' = [calls EXCEPT ![FlowOf(b)] = Idle] /\ UNCHANGED <<chapters, asked>>

ChapterReady(b) ==
  /\ jobs[b].at \in {"writing", "retrying"}
  /\ Ready(b)
  /\ failures' = [failures EXCEPT ![b] = 0]
  /\ count' = count + 1
  /\ jobs' = [jobs EXCEPT ![b] = [Out EXCEPT !.at = "checking", !.done = jobs[b].done + 1]]
  /\ Consumed(b)
  /\ UNCHANGED <<phase, cycleVars, paused, begun, events>>

(* An audit failure, or any error of the call: handleAuditFailure counts   *)
(* it, and awaits the diagnostic alerts.                                   *)
ChapterFailed(b) ==
  /\ jobs[b].at \in {"writing", "retrying"}
  /\ calls[FlowOf(b)].at = "failed" \/ (Returned(b) /\ ~Ready(b))
  /\ failures' = [failures EXCEPT ![b] = @ + 1]
  /\ jobs' = [jobs EXCEPT ![b].n = failures[b] + 1,
                          ![b].at = IF @ = "writing" THEN "judging" ELSE "rejudging"]
  /\ Consumed(b)
  /\ UNCHANGED <<phase, cycleVars, count, paused, begun, events>>

(* Mutation: a failure is retried once more before the book is paused.     *)
RetriesOnceMore(n) == n <= MaxAuditRetries + 1

WithinRetries(n) == n <= MaxAuditRetries

Pauses(n) == ~WithinRetries(n) /\ n >= PauseAfter

(* It pauses the book, and awaits the notifications.                       *)
Judge(b) ==
  /\ jobs[b].at \in {"judging", "rejudging"}
  /\ paused' = IF Pauses(jobs[b].n) THEN paused \cup {b} ELSE paused
  /\ jobs' = [jobs EXCEPT ![b].at = IF @ = "judging" THEN "notifying" ELSE "ending"]
  /\ UNCHANGED <<callVars, asked, phase, cycleVars, count, failures, begun, events>>

(* Mutation: the first failure of a cycle is always retried.               *)
RetriesFirst(b) == jobs[b].at = "notifying"

(* One retry, if the number of failures read now allows it.                *)
Retries(b) == jobs[b].at = "notifying" /\ WithinRetries(failures[b])

(* It follows a sleep.                                                     *)
BackOff(b) ==
  /\ jobs[b].at \in {"notifying", "ending"}
  /\ jobs' = IF Retries(b)
             THEN [jobs EXCEPT ![b].at = "backoff", ![b].n = 0]
             ELSE [jobs EXCEPT ![b] = Out]
  /\ UNCHANGED <<callVars, asked, phase, cycleVars, count, gateVars, begun, events>>

(* The cycle's promise settles; start() goes on to set its timers, whether *)
(* or not stop() was called meanwhile.                                     *)
CycleEnds ==
  /\ cycle = "writing" /\ \A b \in Books : jobs[b] = Out
  /\ cycle' = "none"
  /\ timer' = (timer \/ starting) /\ starting' = FALSE
  /\ UNCHANGED <<callVars, asked, phase, jobs, count, gateVars, begun, events>>

JobStep(b) == LeaveLoop(b) \/ BeginChapter(b) \/ CoolDown(b) \/ WakeUp(b)
              \/ ChapterReady(b) \/ ChapterFailed(b) \/ Judge(b) \/ BackOff(b)

(* The calls go on by themselves; interactive ones are made at any time.   *)
(* Publish and Surface are left out: nobody here reads the chapters before *)
(* a call ends, and a late commit only adds chapters that nobody counts.   *)
CallStep(f) ==
  /\ Len(chapters[BookOf(f)]) < MaxChapters \/ UNCHANGED chapters
  /\ Ends(f)
  /\ UNCHANGED <<daemonVars, asked>>

InteractiveCall(f) ==
  /\ CallerOf(f) # "daemon" /\ asked < MaxCalls
  /\ asked' = asked + 1
  /\ Ask(f)
  /\ UNCHANGED daemonVars

Next ==
  \/ \E f \in Flows : CallStep(f) \/ InteractiveCall(f)
  \/ Start \/ Stop \/ Tick \/ ListingFails \/ CycleEnds \/ Midnight
  \/ \E books \in SUBSET (Books \ paused) : ListBooks(books)
  \/ \E b \in Books : JobStep(b) \/ ResumeBook(b)

Spec == Init /\ [][Next]_vars

----------------------------------------------------------------------------
(* The daily cap is looked at before a chapter and counted after it, while *)
(* the books are written in parallel: the overshoot stays below the number *)
(* of concurrent books, however cycles, sleeps, failures and dates fall.   *)
DailyCapBounded == count < MaxChaptersPerDay + MaxConcurrentBooks

(* What is counted exists: a chapter is counted only if the Runtime        *)
(* finalized a passed text of the daemon, and none is counted twice.       *)
CountedMeansFinalized ==
  LET Written(b) == {n \in 1 .. Len(chapters[b]) :
                       chapters[b][n] = [caller |-> "daemon", passed |-> TRUE]}
  IN count <= Cardinality(UNION {{b} \X Written(b) : b \in Books})

(* No book is in two loops: a call of the daemon in progress is always the *)
(* one its loop waits for, through stops, failures and ticks.              *)
OneLoopPerBook ==
  \A b \in Books :
    calls[FlowOf(b)].at # "idle" <=> jobs[b].at \in {"writing", "retrying"}

(* stop() is not waited for by sleeping loops, but each of them begins at  *)
(* most one chapter and its retry afterwards.                              *)
StopsSoon == \A b \in Books : begun[b] <= 2

(* A book whose failures reach the gate is paused before anything else     *)
(* happens to it: no second loop over the book runs behind the first one.  *)
PausesInTime ==
  \A b \in Books \ paused :
    \/ failures[b] < IF PauseAfter > MaxAuditRetries THEN PauseAfter ELSE MaxAuditRetries + 1
    \/ jobs[b].at \in {"judging", "rejudging"}

(* The daemon begins a chapter of a paused book in one case only: as the   *)
(* retry of a loop whose book was resumed, and its failures cleared, while *)
(* they were being judged, and was paused after that.                      *)
PausedBooksRest ==
  [][\A b \in paused :
       (calls[FlowOf(b)].at = "idle" /\ calls'[FlowOf(b)].at # "idle")
       => jobs[b].at = "backoff" /\ failures[b] = 0]_vars
=============================================================================
