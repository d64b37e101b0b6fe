--------------------------- MODULE BookLockProofs ---------------------------
(***************************************************************************)
(* Theorems about BookLock for any processes, writers, tokens and bounds:  *)
(* the shape of its state, that two writers of one process never hold the  *)
(* book together, and that no two writers of any process do until a file   *)
(* is judged stale.                                                        *)
(***************************************************************************)
EXTENDS BookLock, FiniteSetTheorems, TLAPS

(* The writers whose acquisition is in the map of their process.           *)
Owning == {"creating", "writing", "reading", "comparing", "removing", "holding"}

(* The map names the writer that is acquiring or holding.                  *)
SlotNamesOwner ==
  \A t \in Tasks : tasks[t].pc \in Owning =>
    tasks[t].token # None /\ slot[ProcOf[t]] = tasks[t].token

(* No two writers have the same token.                                     *)
TokensDiffer ==
  \A s, t \in Tasks : tasks[s].token # None /\ s # t => tasks[s].token # tasks[t].token

IndInv == TypeOK /\ SlotNamesOwner /\ TokensDiffer

(* What may change from the task's own steps: the shape of one task.       *)
TaskShape == [pc : Steps, token : Tokens \cup {None}, seen : Tokens \cup {None},
              tries : 0 .. MaxTries - 1]

LEMMA IdleShape == Idle \in TaskShape
  BY BookLockAssumption DEF Idle, TaskShape, Steps

LEMMA NoFileShape ==
  NoFile \in [token : Tokens \cup {None}, pid : Procs \cup {None},
              written : BOOLEAN, old : BOOLEAN]
  BY DEF NoFile

(* A writer that gives up, or tries again, keeps the types and the map.    *)
LEMMA FailKeeps ==
  ASSUME NEW t \in Tasks, IndInv, Fail(t)
  PROVE  /\ slot' \in [Procs -> Tokens \cup {None}]
         /\ tasks' \in [Tasks -> TaskShape]
         /\ SlotNamesOwner' /\ TokensDiffer'
<1> USE BookLockAssumption
<1>1. /\ slot \in [Procs -> Tokens \cup {None}]
      /\ tasks \in [Tasks -> TaskShape]
      /\ ProcOf[t] \in Procs
  BY DEF IndInv, TypeOK, TaskShape
<1>2. /\ slot' = [slot EXCEPT ![ProcOf[t]] = IF @ = tasks[t].token THEN None ELSE @]
      /\ tasks' = [tasks EXCEPT ![t] = Idle]
  BY DEF Fail, Vacate
<1>3. slot' \in [Procs -> Tokens \cup {None}] /\ tasks' \in [Tasks -> TaskShape]
  BY <1>1, <1>2, IdleShape
<1>4. \A s \in Tasks : s # t => tasks'[s] = tasks[s]
  BY <1>1, <1>2
<1>5. tasks'[t] = Idle /\ tasks'[t].pc = "idle" /\ tasks'[t].token = None
  BY <1>1, <1>2 DEF Idle
<1>6. SlotNamesOwner'
  <2> SUFFICES ASSUME NEW s \in Tasks, tasks'[s].pc \in Owning
               PROVE  tasks'[s].token # None /\ slot'[ProcOf[s]] = tasks'[s].token
    BY DEF SlotNamesOwner
  <2>1. s # t
    BY <1>5 DEF Owning
  <2>2. tasks[s].token # None /\ slot[ProcOf[s]] = tasks[s].token
    BY <2>1, <1>4 DEF IndInv, SlotNamesOwner
  <2>3. tasks[s].token # tasks[t].token
    BY <2>1, <2>2 DEF IndInv, TokensDiffer
  <2>4. slot'[ProcOf[s]] = slot[ProcOf[s]]
    BY <2>2, <2>3, <1>1, <1>2
  <2> QED
    BY <2>1, <2>2, <2>4, <1>4
<1>7. TokensDiffer'
  BY <1>4, <1>5 DEF IndInv, TokensDiffer
<1> QED
  BY <1>3, <1>6, <1>7

(* A step that only moves one task on, within its acquisition or out of    *)
(* it, and leaves the map alone.                                           *)
LEMMA MoveKeeps ==
  ASSUME NEW t \in Tasks, NEW new \in TaskShape, IndInv,
         tasks' = [tasks EXCEPT ![t] = new], UNCHANGED slot,
         new.token = tasks[t].token \/ new = Idle,
         new.pc \in Owning => tasks[t].pc \in Owning
  PROVE  /\ slot' \in [Procs -> Tokens \cup {None}]
         /\ tasks' \in [Tasks -> TaskShape]
         /\ SlotNamesOwner' /\ TokensDiffer'
<1>1. tasks \in [Tasks -> TaskShape]
  BY DEF IndInv, TypeOK, TaskShape
<1>2. \A s \in Tasks : s # t => tasks'[s] = tasks[s]
  BY <1>1
<1>3. tasks'[t] = new
  BY <1>1
<1>4. Idle.token = None /\ Idle.pc \notin Owning
  BY DEF Idle, Owning
<1>5. SlotNamesOwner'
  BY <1>2, <1>3, <1>4 DEF IndInv, SlotNamesOwner
<1>6. TokensDiffer'
  BY <1>2, <1>3, <1>4 DEF IndInv, TokensDiffer
<1> QED
  BY <1>1, <1>5, <1>6 DEF IndInv, TypeOK

LEMMA GoesKeeps ==
  ASSUME NEW t \in Tasks, NEW pc \in Steps, IndInv, Goes(t, pc), UNCHANGED slot,
         pc \in Owning => tasks[t].pc \in Owning
  PROVE  /\ slot' \in [Procs -> Tokens \cup {None}]
         /\ tasks' \in [Tasks -> TaskShape]
         /\ SlotNamesOwner' /\ TokensDiffer'
<1> DEFINE new == [tasks[t] EXCEPT !.pc = pc]
<1>1. tasks \in [Tasks -> TaskShape]
  BY DEF IndInv, TypeOK, TaskShape
<1>2. new \in TaskShape /\ new.token = tasks[t].token /\ new.pc = pc
  BY <1>1 DEF TaskShape
<1>3. tasks' = [tasks EXCEPT ![t] = new]
  BY <1>1 DEF Goes
<1> HIDE DEF new
<1> QED
  BY <1>2, <1>3, MoveKeeps

LEMMA TryAgainKeeps ==
  ASSUME NEW t \in Tasks, IndInv, TryAgain(t), tasks[t].pc \in Owning
  PROVE  /\ slot' \in [Procs -> Tokens \cup {None}]
         /\ tasks' \in [Tasks -> TaskShape]
         /\ SlotNamesOwner' /\ TokensDiffer'
<1>1. CASE tasks[t].tries + 1 = MaxTries
  BY <1>1, FailKeeps DEF TryAgain
<1>2. CASE tasks[t].tries + 1 # MaxTries
  <2> DEFINE new == [tasks[t] EXCEPT !.pc = "creating", !.seen = None, !.tries = @ + 1]
  <2>1. tasks \in [Tasks -> TaskShape]
    BY DEF IndInv, TypeOK, TaskShape
  <2>2. tasks[t].tries \in 0 .. MaxTries - 1
    BY <2>1 DEF TaskShape
  <2>3. tasks[t].tries + 1 \in 0 .. MaxTries - 1
    BY <1>2, <2>2, BookLockAssumption
  <2>4. new \in TaskShape /\ new.token = tasks[t].token
    BY <2>1, <2>3 DEF TaskShape, Steps
  <2>5. tasks' = [tasks EXCEPT ![t] = new] /\ UNCHANGED slot
    BY <1>2, <2>1 DEF TryAgain
  <2> HIDE DEF new
  <2> QED
    BY <2>4, <2>5, MoveKeeps
<1> QED
  BY <1>1, <1>2

(* The rest of the state keeps its shape in every step.                    *)
RestOK ==
  /\ file \in [token : Tokens \cup {None}, pid : Procs \cup {None},
               written : BOOLEAN, old : BOOLEAN]
  /\ alive \subseteq Procs
  /\ recovered \in BOOLEAN /\ mishaps \in 0 .. MaxMishaps

LEMMA MishapCounts ==
  ASSUME mishaps \in 0 .. MaxMishaps, Mishap
  PROVE  mishaps' \in 0 .. MaxMishaps
  BY BookLockAssumption DEF Mishap

LEMMA RestKeeps ==
  ASSUME IndInv, [Next]_vars
  PROVE  RestOK'
<1> USE BookLockAssumption DEF RestOK
<1>1. RestOK /\ tasks \in [Tasks -> TaskShape]
  BY DEF IndInv, TypeOK, TaskShape
<1>2. CASE UNCHANGED vars
  BY <1>1, <1>2 DEF vars
<1>3. ASSUME NEW t \in Tasks, Acquire(t) PROVE RestOK'
  BY <1>1, <1>3 DEF Acquire
<1>4. ASSUME NEW t \in Tasks, CreateFile(t) PROVE RestOK'
  <2>1. tasks[t].token \in Tokens \cup {None}
    BY <1>1 DEF TaskShape
  <2>2. file' = file \/ file' = [NoFile EXCEPT !.token = tasks[t].token]
    BY <1>4 DEF CreateFile
  <2> QED
    BY <1>1, <1>4, <2>1, <2>2 DEF CreateFile, NoFile
<1>5. ASSUME NEW t \in Tasks, WriteMetadata(t) PROVE RestOK'
  BY <1>1, <1>5 DEF WriteMetadata
<1>6. ASSUME NEW t \in Tasks, WriteFails(t) PROVE RestOK'
  BY <1>1, <1>6, NoFileShape DEF WriteFails, Mishap
<1>7. ASSUME NEW t \in Tasks, ReadLock(t) PROVE RestOK'
  BY <1>1, <1>7 DEF ReadLock
<1>8. ASSUME NEW t \in Tasks, CompareLock(t) \/ Release(t) \/ CheckOwner(t) PROVE RestOK'
  BY <1>1, <1>8 DEF CompareLock, Release, CheckOwner
<1>9. ASSUME NEW t \in Tasks, RemoveStale(t) \/ UnlinkOwn(t) PROVE RestOK'
  BY <1>1, <1>9, NoFileShape DEF RemoveStale, UnlinkOwn
<1>10. ASSUME NEW t \in Tasks, Heartbeat(t) PROVE RestOK'
  <2>1. file' = [file EXCEPT !.old = FALSE] /\ UNCHANGED <<alive, recovered, mishaps>>
    BY <1>10 DEF Heartbeat
  <2> QED
    BY <1>1, <2>1
<1>11. ASSUME LeaseRunsOut PROVE RestOK'
  <2>1. file' = [file EXCEPT !.old = TRUE] /\ UNCHANGED <<alive, recovered>> /\ Mishap
    BY <1>11 DEF LeaseRunsOut
  <2>2. mishaps' \in 0 .. MaxMishaps
    BY <1>1, <2>1, MishapCounts
  <2> QED
    BY <1>1, <2>1, <2>2
<1>12. ASSUME NEW p \in Procs, Crash(p) PROVE RestOK'
  <2>1. alive' = alive \ {p} /\ UNCHANGED <<file, recovered>> /\ Mishap
    BY <1>12 DEF Crash
  <2>2. mishaps' \in 0 .. MaxMishaps
    BY <1>1, <2>1, MishapCounts
  <2> QED
    BY <1>1, <2>1, <2>2
<1>13. ASSUME NEW p \in Procs, Start(p) PROVE RestOK'
  BY <1>1, <1>13 DEF Start
<1> HIDE BookLockAssumption DEF RestOK
<1> QED
  BY <1>2, <1>3, <1>4, <1>5, <1>6, <1>7, <1>8, <1>9, <1>10, <1>11, <1>12, <1>13
  DEF Next, Works

(* What the proof says of the map and the writers after a step.            *)
WritersOK ==
  /\ slot \in [Procs -> Tokens \cup {None}]
  /\ tasks \in [Tasks -> TaskShape]
  /\ SlotNamesOwner /\ TokensDiffer

(* A reservation takes a fresh token and an empty place in the map.        *)
LEMMA AcquireKeeps ==
  ASSUME NEW t \in Tasks, IndInv, Acquire(t)
  PROVE  WritersOK'
<1> USE BookLockAssumption
<1> DEFINE k == CHOOSE k \in Tokens : k \notin TokensInUse
<1>1. /\ slot \in [Procs -> Tokens \cup {None}]
      /\ tasks \in [Tasks -> TaskShape]
      /\ ProcOf \in [Tasks -> Procs]
  BY DEF IndInv, TypeOK, TaskShape
<1>2. k \in Tokens /\ k \notin TokensInUse
  BY DEF Acquire
<1>3. k # None /\ \A s \in Tasks : tasks[s].token # k
  BY <1>2 DEF TokensInUse
<1>4. slot[ProcOf[t]] = None /\ slot' = [slot EXCEPT ![ProcOf[t]] = k]
  BY DEF Acquire, Reserve
<1> DEFINE new == [Idle EXCEPT !.pc = "creating", !.token = k]
<1>5. tasks' = [tasks EXCEPT ![t] = new]
  BY DEF Acquire
<1>6. new \in TaskShape /\ new.token = k
  BY <1>2, IdleShape DEF Idle, TaskShape, Steps
<1> HIDE DEF k, new
<1>7. \A s \in Tasks : s # t => tasks'[s] = tasks[s]
  BY <1>1, <1>5
<1>8. tasks'[t] = new
  BY <1>1, <1>5
<1>9. SlotNamesOwner'
  <2> SUFFICES ASSUME NEW s \in Tasks, tasks'[s].pc \in Owning
               PROVE  tasks'[s].token # None /\ slot'[ProcOf[s]] = tasks'[s].token
    BY DEF SlotNamesOwner
  <2>1. CASE s = t
    BY <2>1, <1>1, <1>3, <1>4, <1>6, <1>8
  <2>2. CASE s # t
    <3>1. tasks[s].token # None /\ slot[ProcOf[s]] = tasks[s].token
      BY <2>2, <1>7 DEF IndInv, SlotNamesOwner
    <3>2. ProcOf[s] # ProcOf[t]
      BY <3>1, <1>4
    <3> QED
      BY <2>2, <3>1, <3>2, <1>1, <1>4, <1>7
  <2> QED
    BY <2>1, <2>2
<1>10. TokensDiffer'
  BY <1>3, <1>6, <1>7, <1>8 DEF IndInv, TokensDiffer
<1>11. slot' \in [Procs -> Tokens \cup {None}] /\ tasks' \in [Tasks -> TaskShape]
  BY <1>1, <1>2, <1>4, <1>5, <1>6
<1> QED
  BY <1>9, <1>10, <1>11 DEF WritersOK

(* A release vacates the map and leaves the acquisition's steps.           *)
LEMMA ReleaseKeeps ==
  ASSUME NEW t \in Tasks, IndInv, Release(t)
  PROVE  WritersOK'
<1> USE BookLockAssumption
<1>1. /\ slot \in [Procs -> Tokens \cup {None}]
      /\ tasks \in [Tasks -> TaskShape]
      /\ ProcOf \in [Tasks -> Procs]
  BY DEF IndInv, TypeOK, TaskShape
<1>2. /\ slot' = [slot EXCEPT ![ProcOf[t]] = IF @ = tasks[t].token THEN None ELSE @]
      /\ tasks' = [tasks EXCEPT ![t].pc = "releasing"]
  BY DEF Release, Vacate, Goes
<1>3. slot' \in [Procs -> Tokens \cup {None}]
  BY <1>1, <1>2
<1>4. tasks' \in [Tasks -> TaskShape]
  BY <1>1, <1>2 DEF TaskShape, Steps
<1>5. \A s \in Tasks : s # t => tasks'[s] = tasks[s]
  BY <1>1, <1>2
<1>6. tasks'[t].pc = "releasing" /\ tasks'[t].token = tasks[t].token
  BY <1>1, <1>2 DEF TaskShape
<1>7. SlotNamesOwner'
  <2> SUFFICES ASSUME NEW s \in Tasks, tasks'[s].pc \in Owning
               PROVE  tasks'[s].token # None /\ slot'[ProcOf[s]] = tasks'[s].token
    BY DEF SlotNamesOwner
  <2>1. s # t
    BY <1>6 DEF Owning
  <2>2. tasks[s].token # None /\ slot[ProcOf[s]] = tasks[s].token
    BY <2>1, <1>5 DEF IndInv, SlotNamesOwner
  <2>3. tasks[s].token # tasks[t].token
    BY <2>1, <2>2 DEF IndInv, TokensDiffer
  <2>4. slot'[ProcOf[s]] = slot[ProcOf[s]]
    BY <2>2, <2>3, <1>1, <1>2
  <2> QED
    BY <2>1, <2>2, <2>4, <1>5
<1>8. TokensDiffer'
  BY <1>5, <1>6 DEF IndInv, TokensDiffer
<1> QED
  BY <1>3, <1>4, <1>7, <1>8 DEF WritersOK
(* A crash empties the map of its process and its writers with it.         *)
LEMMA CrashKeeps ==
  ASSUME NEW p \in Procs, IndInv, Crash(p)
  PROVE  WritersOK'
<1>1. /\ slot \in [Procs -> Tokens \cup {None}]
      /\ tasks \in [Tasks -> TaskShape]
      /\ ProcOf \in [Tasks -> Procs]
  BY BookLockAssumption DEF IndInv, TypeOK, TaskShape
<1>2. /\ slot' = [slot EXCEPT ![p] = None]
      /\ tasks' = [t \in Tasks |-> IF ProcOf[t] = p THEN Idle ELSE tasks[t]]
  BY DEF Crash
<1>3. slot' \in [Procs -> Tokens \cup {None}] /\ tasks' \in [Tasks -> TaskShape]
  BY <1>1, <1>2, IdleShape
<1>4. \A t \in Tasks : tasks'[t] = Idle \/ (ProcOf[t] # p /\ tasks'[t] = tasks[t])
  BY <1>2
<1>5. Idle.token = None /\ Idle.pc \notin Owning
  BY DEF Idle, Owning
<1>6. SlotNamesOwner'
  BY <1>1, <1>2, <1>4, <1>5 DEF IndInv, SlotNamesOwner
<1>7. TokensDiffer'
  BY <1>4, <1>5 DEF IndInv, TokensDiffer
<1> QED
  BY <1>3, <1>6, <1>7 DEF WritersOK

(* A heartbeat only clears what others have read.                          *)
LEMMA HeartbeatKeeps ==
  ASSUME NEW t \in Tasks, IndInv, Heartbeat(t)
  PROVE  WritersOK'
<1>1. tasks \in [Tasks -> TaskShape]
  BY DEF IndInv, TypeOK, TaskShape
<1>2. /\ tasks' = [u \in Tasks |-> IF tasks[u].seen = file.token
                                   THEN [tasks[u] EXCEPT !.seen = None] ELSE tasks[u]]
      /\ UNCHANGED slot
  BY DEF Heartbeat
<1>3. ASSUME NEW u \in Tasks
      PROVE  /\ tasks'[u] \in TaskShape
             /\ tasks'[u].pc = tasks[u].pc /\ tasks'[u].token = tasks[u].token
  BY <1>1, <1>2 DEF TaskShape
<1>4. tasks' \in [Tasks -> TaskShape]
  BY <1>2, <1>3
<1>5. SlotNamesOwner' /\ TokensDiffer'
  BY <1>2, <1>3 DEF IndInv, SlotNamesOwner, TokensDiffer
<1> QED
  BY <1>2, <1>4, <1>5 DEF WritersOK, IndInv, TypeOK

LEMMA WritersKeep ==
  ASSUME IndInv, [Next]_vars
  PROVE  WritersOK'
<1>1. CASE UNCHANGED vars
  BY <1>1 DEF vars, IndInv, TypeOK, TaskShape, WritersOK, SlotNamesOwner, TokensDiffer
<1>2. ASSUME NEW t \in Tasks, CreateFile(t) PROVE WritersOK'
  <2>1. tasks[t].pc \in Owning /\ UNCHANGED slot
    BY <1>2 DEF CreateFile, At, Owning
  <2>2. Goes(t, "writing") \/ Goes(t, "reading")
    BY <1>2 DEF CreateFile
  <2> QED
    BY <2>1, <2>2, GoesKeeps DEF WritersOK, Steps
<1>3. ASSUME NEW t \in Tasks, WriteMetadata(t) PROVE WritersOK'
  <2>1. tasks[t].pc \in Owning /\ UNCHANGED slot /\ Goes(t, "holding")
    BY <1>3 DEF WriteMetadata, At, Owning
  <2> QED
    BY <2>1, GoesKeeps DEF WritersOK, Steps
<1>4. ASSUME NEW t \in Tasks, WriteFails(t) PROVE WritersOK'
  BY <1>4, FailKeeps DEF WriteFails, WritersOK
<1>5. ASSUME NEW t \in Tasks, ReadLock(t) PROVE WritersOK'
  <2>1. tasks[t].pc \in Owning
    BY <1>5 DEF ReadLock, At, Owning
  <2>2. CASE TryAgain(t)
    BY <2>1, <2>2, TryAgainKeeps DEF WritersOK
  <2>3. CASE Fail(t)
    BY <2>3, FailKeeps DEF WritersOK
  <2>4. CASE /\ tasks' = [tasks EXCEPT ![t].pc = "comparing", ![t].seen = file.token]
             /\ UNCHANGED slot
    <3> DEFINE new == [tasks[t] EXCEPT !.pc = "comparing", !.seen = file.token]
    <3>1. tasks \in [Tasks -> TaskShape] /\ file.token \in Tokens \cup {None}
      BY DEF IndInv, TypeOK, TaskShape
    <3>2. new \in TaskShape /\ new.token = tasks[t].token
      BY <3>1 DEF TaskShape, Steps
    <3>3. tasks' = [tasks EXCEPT ![t] = new]
      BY <2>4, <3>1
    <3> HIDE DEF new
    <3> QED
      BY <2>1, <2>4, <3>2, <3>3, MoveKeeps DEF WritersOK
  <2> QED
    BY <1>5, <2>2, <2>3, <2>4 DEF ReadLock
<1>6. ASSUME NEW t \in Tasks, CompareLock(t) PROVE WritersOK'
  <2>1. tasks[t].pc \in Owning
    BY <1>6 DEF CompareLock, At, Owning
  <2>2. TryAgain(t) \/ (Goes(t, "removing") /\ UNCHANGED slot)
    BY <1>6 DEF CompareLock
  <2> QED
    BY <2>1, <2>2, TryAgainKeeps, GoesKeeps DEF WritersOK, Steps
<1>7. ASSUME NEW t \in Tasks, RemoveStale(t) PROVE WritersOK'
  BY <1>7, TryAgainKeeps DEF RemoveStale, At, Owning, WritersOK
<1>8. ASSUME NEW t \in Tasks, CheckOwner(t) PROVE WritersOK'
  <2>1. UNCHANGED slot /\ (Goes(t, "unlinking") \/ tasks' = [tasks EXCEPT ![t] = Idle])
    BY <1>8 DEF CheckOwner
  <2>2. "unlinking" \in Steps /\ "unlinking" \notin Owning /\ Idle.pc \notin Owning
    BY DEF Steps, Owning, Idle
  <2> QED
    BY <2>1, <2>2, IdleShape, GoesKeeps, MoveKeeps DEF WritersOK
<1>9. ASSUME NEW t \in Tasks, UnlinkOwn(t) PROVE WritersOK'
  <2>1. UNCHANGED slot /\ tasks' = [tasks EXCEPT ![t] = Idle] /\ Idle.pc \notin Owning
    BY <1>9 DEF UnlinkOwn, Idle, Owning
  <2> QED
    BY <2>1, IdleShape, MoveKeeps DEF WritersOK
<1>10. CASE LeaseRunsOut \/ \E p \in Procs : Start(p)
  BY <1>10 DEF LeaseRunsOut, Start, IndInv, TypeOK, TaskShape, WritersOK, SlotNamesOwner,
               TokensDiffer
<1> QED
  BY <1>1, <1>2, <1>3, <1>4, <1>5, <1>6, <1>7, <1>8, <1>9, <1>10,
     AcquireKeeps, ReleaseKeeps, CrashKeeps, HeartbeatKeeps DEF Next, Works

LEMMA Inductive == Spec => []IndInv
<1>1. Init => IndInv
  <2> SUFFICES ASSUME Init PROVE IndInv
    OBVIOUS
  <2>1. \A t \in Tasks : tasks[t] = Idle
    BY DEF Init
  <2>2. Idle.token = None /\ Idle.pc \notin Owning
    BY DEF Idle, Owning
  <2>3. SlotNamesOwner /\ TokensDiffer
    BY <2>1, <2>2 DEF SlotNamesOwner, TokensDiffer
  <2>4. tasks \in [Tasks -> TaskShape]
    BY IdleShape DEF Init
  <2>5. mishaps \in 0 .. MaxMishaps
    BY BookLockAssumption DEF Init
  <2>6. /\ slot \in [Procs -> Tokens \cup {None}]
        /\ alive \subseteq Procs /\ recovered \in BOOLEAN
    BY DEF Init
  <2> QED
    BY <2>3, <2>4, <2>5, <2>6, NoFileShape DEF Init, IndInv, TypeOK, TaskShape
<1>2. IndInv /\ [Next]_vars => IndInv'
  BY RestKeeps, WritersKeep DEF IndInv, TypeOK, TaskShape, RestOK, WritersOK
<1> QED
  BY <1>1, <1>2, PTL DEF Spec

(* The state of the lock keeps its shape, for any processes and writers.   *)
THEOREM TypeCorrect == Spec => []TypeOK
BY Inductive, PTL DEF IndInv

(* Two writers of one process never hold the book together, whatever other *)
(* processes, crashes and expired leases do to the file.                   *)
THEOREM Exclusion == Spec => []OneWriterPerProcess
<1>1. IndInv => OneWriterPerProcess
  BY DEF IndInv, SlotNamesOwner, TokensDiffer, OneWriterPerProcess, Holders, At, Owning
<1> QED
  BY <1>1, Inductive, PTL

----------------------------------------------------------------------------
(* Between processes: the file, as long as no writer has judged one stale. *)

(* A writer at work has a token.                                           *)
WritersHaveTokens == \A t \in Tasks : tasks[t].pc # "idle" => tasks[t].token # None

(* Nobody takes a file over, and each writer that has made a file, or has  *)
(* just checked it, finds its own in place.                                *)
FileIsOwn ==
  ~recovered =>
    \A t \in Tasks :
      /\ tasks[t].pc \notin {"comparing", "removing"}
      /\ tasks[t].pc \in {"writing", "holding", "unlinking"} => file.token = tasks[t].token
      /\ tasks[t].pc = "holding" => file.written

FileInv == WritersHaveTokens /\ FileIsOwn

Makers == {"writing", "holding", "unlinking"}

(* A step of one writer keeps the invariant if the file it leaves is its   *)
(* own where it must be, and the file of no other writer changes.          *)
LEMMA OwnStep ==
  ASSUME FileInv, NEW t \in Tasks,
         \A s \in Tasks : s # t => tasks'[s] = tasks[s],
         tasks'[t].pc = "idle" \/ tasks'[t].token # None,
         recovered => recovered',
         ~recovered' => /\ tasks'[t].pc \notin {"comparing", "removing"}
                        /\ tasks'[t].pc \in Makers => file'.token = tasks'[t].token
                        /\ tasks'[t].pc = "holding" => file'.written,
         \A s \in Tasks : ~recovered /\ s # t /\ tasks[s].pc \in Makers =>
           file'.token = file.token /\ (file.written => file'.written)
  PROVE  FileInv'
<1>1. WritersHaveTokens'
  BY DEF FileInv, WritersHaveTokens
<1>2. FileIsOwn'
  BY DEF FileInv, FileIsOwn, Makers
<1> QED
  BY <1>1, <1>2 DEF FileInv

(* A writer of a file other than the one that is there would share the     *)
(* token of whoever made that one.                                         *)
LEMMA OneMaker ==
  ASSUME IndInv, FileInv, ~recovered,
         NEW s \in Tasks, NEW t \in Tasks, tasks[s].pc \in Makers, tasks[t].pc \in Makers
  PROVE  s = t /\ file # NoFile
<1>1. file.token = tasks[s].token /\ file.token = tasks[t].token /\ tasks[s].token # None
  BY DEF FileInv, FileIsOwn, WritersHaveTokens, Makers
<1>2. NoFile.token = None
  BY DEF NoFile
<1>3. s = t
  BY <1>1 DEF IndInv, TokensDiffer
<1> QED
  BY <1>1, <1>2, <1>3

(* Where a writer is after it gave up or tried again.                      *)
LEMMA BackToCreating ==
  ASSUME IndInv, FileInv, NEW t \in Tasks, TryAgain(t) \/ Fail(t), tasks[t].pc # "idle"
  PROVE  /\ \A s \in Tasks : s # t => tasks'[s] = tasks[s]
         /\ tasks'[t].pc = "idle" \/ (tasks'[t].pc = "creating" /\ tasks'[t].token # None)
<1>1. tasks \in [Tasks -> TaskShape] /\ tasks[t].token # None
  BY DEF IndInv, TypeOK, TaskShape, FileInv, WritersHaveTokens
<1>2. CASE tasks' = [tasks EXCEPT ![t] = Idle]
  BY <1>1, <1>2 DEF Idle
<1>3. CASE tasks' = [tasks EXCEPT ![t].pc = "creating", ![t].seen = None, ![t].tries = @ + 1]
  BY <1>1, <1>3 DEF TaskShape
<1> QED
  BY <1>2, <1>3 DEF TryAgain, Fail

LEMMA GoesTo ==
  ASSUME IndInv, FileInv, NEW t \in Tasks, NEW pc, Goes(t, pc), tasks[t].pc # "idle"
  PROVE  /\ \A s \in Tasks : s # t => tasks'[s] = tasks[s]
         /\ tasks'[t].pc = pc /\ tasks'[t].token = tasks[t].token /\ tasks'[t].token # None
<1>1. tasks \in [Tasks -> TaskShape] /\ tasks[t].token # None
  BY DEF IndInv, TypeOK, TaskShape, FileInv, WritersHaveTokens
<1> QED
  BY <1>1 DEF Goes, TaskShape

LEMMA FileKeeps ==
  ASSUME IndInv, FileInv, [Next]_vars
  PROVE  FileInv'
<1> USE DEF At, Makers
<1>1. tasks \in [Tasks -> TaskShape]
  BY DEF IndInv, TypeOK, TaskShape
<1>2. CASE UNCHANGED vars
  BY <1>2 DEF vars, FileInv, FileIsOwn, WritersHaveTokens
<1>3. ASSUME NEW t \in Tasks, Acquire(t) PROVE FileInv'
  <2> DEFINE k == CHOOSE k \in Tokens : k \notin TokensInUse
  <2>1. k \in Tokens /\ tasks' = [tasks EXCEPT ![t] = [Idle EXCEPT !.pc = "creating", !.token = k]]
        /\ UNCHANGED <<file, recovered>>
    BY <1>3 DEF Acquire
  <2>2. tasks'[t].pc = "creating" /\ tasks'[t].token = k /\ k # None
    BY <1>1, <2>1, BookLockAssumption DEF Idle
  <2>3. \A s \in Tasks : s # t => tasks'[s] = tasks[s]
    BY <1>1, <2>1
  <2> HIDE DEF k
  <2> QED
    BY <2>1, <2>2, <2>3, OwnStep
<1>4. ASSUME NEW t \in Tasks, CreateFile(t) PROVE FileInv'
  <2>1. CASE file = NoFile
    <3>1. file' = [NoFile EXCEPT !.token = tasks[t].token] /\ Goes(t, "writing")
          /\ UNCHANGED recovered /\ tasks[t].pc # "idle"
      BY <1>4, <2>1 DEF CreateFile
    <3>2. file'.token = tasks[t].token
      BY <3>1 DEF NoFile
    <3>3. \A s \in Tasks : ~recovered => tasks[s].pc \notin Makers
      BY <2>1, OneMaker
    <3>4. /\ \A s \in Tasks : s # t => tasks'[s] = tasks[s]
          /\ tasks'[t].pc = "writing" /\ tasks'[t].token = tasks[t].token /\ tasks'[t].token # None
      BY <3>1, GoesTo
    <3> QED
      BY <3>1, <3>2, <3>3, <3>4, OwnStep
  <2>2. CASE file # NoFile
    <3>1. Goes(t, "reading") /\ UNCHANGED <<file, recovered>> /\ tasks[t].pc # "idle"
      BY <1>4, <2>2 DEF CreateFile
    <3>2. /\ \A s \in Tasks : s # t => tasks'[s] = tasks[s]
          /\ tasks'[t].pc = "reading" /\ tasks'[t].token # None
      BY <3>1, GoesTo
    <3> QED
      BY <3>1, <3>2, OwnStep
  <2> QED
    BY <2>1, <2>2
<1>5. ASSUME NEW t \in Tasks, WriteMetadata(t) PROVE FileInv'
  <2>1. Goes(t, "holding") /\ UNCHANGED recovered /\ tasks[t].pc = "writing"
    BY <1>5 DEF WriteMetadata
  <2>2. /\ \A s \in Tasks : s # t => tasks'[s] = tasks[s]
        /\ tasks'[t].pc = "holding" /\ tasks'[t].token = tasks[t].token /\ tasks'[t].token # None
    BY <2>1, GoesTo
  <2>3. ~recovered => file.token = tasks[t].token
    BY <2>1 DEF FileInv, FileIsOwn
  <2>4. file'.token = file.token /\ (file.token = tasks[t].token \/ file.written => file'.written)
    BY <1>5 DEF WriteMetadata, IndInv, TypeOK
  <2> QED
    BY <2>1, <2>2, <2>3, <2>4, OwnStep
<1>6. ASSUME NEW t \in Tasks, WriteFails(t) PROVE FileInv'
  <2>1. Fail(t) /\ UNCHANGED recovered /\ tasks[t].pc = "writing"
    BY <1>6 DEF WriteFails
  <2>2. /\ \A s \in Tasks : s # t => tasks'[s] = tasks[s]
        /\ tasks'[t].pc = "idle" \/ (tasks'[t].pc = "creating" /\ tasks'[t].token # None)
    BY <2>1, BackToCreating
  <2>3. \A s \in Tasks : ~recovered /\ s # t => tasks[s].pc \notin Makers
    BY <2>1, OneMaker
  <2> QED
    BY <2>1, <2>2, <2>3, OwnStep
<1>7. ASSUME NEW t \in Tasks, ReadLock(t) PROVE FileInv'
  <2>1. tasks[t].pc # "idle" /\ UNCHANGED file
    BY <1>7 DEF ReadLock
  <2>2. CASE (TryAgain(t) \/ Fail(t)) /\ UNCHANGED recovered
    <3>1. /\ \A s \in Tasks : s # t => tasks'[s] = tasks[s]
          /\ tasks'[t].pc = "idle" \/ (tasks'[t].pc = "creating" /\ tasks'[t].token # None)
      BY <2>1, <2>2, BackToCreating
    <3> QED
      BY <2>1, <2>2, <3>1, OwnStep
  <2>3. CASE /\ tasks' = [tasks EXCEPT ![t].pc = "comparing", ![t].seen = file.token]
             /\ recovered'
    <3>1. \A s \in Tasks : tasks'[s].pc # "idle" => tasks'[s].token # None
      BY <1>1, <2>1, <2>3 DEF FileInv, WritersHaveTokens, TaskShape
    <3> QED
      BY <2>3, <3>1 DEF FileInv, FileIsOwn, WritersHaveTokens
  <2> QED
    BY <1>7, <2>2, <2>3 DEF ReadLock
<1>8. ASSUME NEW t \in Tasks, CompareLock(t) PROVE FileInv'
  <2>1. tasks[t].pc = "comparing" /\ UNCHANGED <<file, recovered>>
    BY <1>8 DEF CompareLock
  <2>2. recovered
    BY <2>1 DEF FileInv, FileIsOwn
  <2>3. CASE Goes(t, "removing")
    <3>1. /\ \A s \in Tasks : s # t => tasks'[s] = tasks[s]
          /\ tasks'[t].token # None
      BY <2>1, <2>3, GoesTo
    <3> QED
      BY <2>1, <2>2, <3>1, OwnStep
  <2>4. CASE TryAgain(t)
    <3>1. /\ \A s \in Tasks : s # t => tasks'[s] = tasks[s]
          /\ tasks'[t].pc = "idle" \/ tasks'[t].token # None
      BY <2>1, <2>4, BackToCreating
    <3> QED
      BY <2>1, <2>2, <3>1, OwnStep
  <2> QED
    BY <1>8, <2>3, <2>4 DEF CompareLock
<1>9. ASSUME NEW t \in Tasks, RemoveStale(t) PROVE FileInv'
  <2>1. tasks[t].pc = "removing" /\ TryAgain(t) /\ UNCHANGED recovered
    BY <1>9 DEF RemoveStale
  <2>2. recovered
    BY <2>1 DEF FileInv, FileIsOwn
  <2>3. /\ \A s \in Tasks : s # t => tasks'[s] = tasks[s]
        /\ tasks'[t].pc = "idle" \/ tasks'[t].token # None
    BY <2>1, BackToCreating
  <2> QED
    BY <2>1, <2>2, <2>3, OwnStep
<1>10. ASSUME NEW t \in Tasks, Release(t) PROVE FileInv'
  <2>1. tasks[t].pc = "holding" /\ Goes(t, "releasing") /\ UNCHANGED <<file, recovered>>
    BY <1>10 DEF Release
  <2>2. /\ \A s \in Tasks : s # t => tasks'[s] = tasks[s]
        /\ tasks'[t].pc = "releasing" /\ tasks'[t].token # None
    BY <2>1, GoesTo
  <2> QED
    BY <2>1, <2>2, OwnStep
<1>11. ASSUME NEW t \in Tasks, CheckOwner(t) PROVE FileInv'
  <2>1. tasks[t].pc = "releasing" /\ UNCHANGED <<file, recovered>>
    BY <1>11 DEF CheckOwner
  <2>2. CASE Goes(t, "unlinking") /\ OwnFile(t)
    <3>1. /\ \A s \in Tasks : s # t => tasks'[s] = tasks[s]
          /\ tasks'[t].pc = "unlinking" /\ tasks'[t].token = tasks[t].token /\ tasks'[t].token # None
      BY <2>1, <2>2, GoesTo
    <3> QED
      BY <2>1, <2>2, <3>1, OwnStep DEF OwnFile
  <2>3. CASE tasks' = [tasks EXCEPT ![t] = Idle]
    <3>1. tasks'[t].pc = "idle" /\ \A s \in Tasks : s # t => tasks'[s] = tasks[s]
      BY <1>1, <2>3 DEF Idle
    <3> QED
      BY <2>1, <3>1, OwnStep
  <2> QED
    BY <1>11, <2>2, <2>3 DEF CheckOwner
<1>12. ASSUME NEW t \in Tasks, UnlinkOwn(t) PROVE FileInv'
  <2>1. tasks[t].pc = "unlinking" /\ UNCHANGED recovered /\ tasks' = [tasks EXCEPT ![t] = Idle]
    BY <1>12 DEF UnlinkOwn
  <2>2. tasks'[t].pc = "idle" /\ \A s \in Tasks : s # t => tasks'[s] = tasks[s]
    BY <1>1, <2>1 DEF Idle
  <2>3. \A s \in Tasks : ~recovered /\ s # t => tasks[s].pc \notin Makers
    BY <2>1, OneMaker
  <2> QED
    BY <2>1, <2>2, <2>3, OwnStep
<1>13. ASSUME NEW t \in Tasks, Heartbeat(t) PROVE FileInv'
  <2>1. /\ file' = [file EXCEPT !.old = FALSE] /\ UNCHANGED recovered
        /\ tasks' = [u \in Tasks |-> IF tasks[u].seen = file.token
                                     THEN [tasks[u] EXCEPT !.seen = None] ELSE tasks[u]]
    BY <1>13 DEF Heartbeat
  <2>2. \A u \in Tasks : tasks'[u].pc = tasks[u].pc /\ tasks'[u].token = tasks[u].token
    BY <1>1, <2>1 DEF TaskShape
  <2>3. file'.token = file.token /\ file'.written = file.written
    BY <2>1 DEF IndInv, TypeOK
  <2> QED
    BY <2>1, <2>2, <2>3 DEF FileInv, FileIsOwn, WritersHaveTokens
<1>14. ASSUME LeaseRunsOut PROVE FileInv'
  <2>1. file' = [file EXCEPT !.old = TRUE] /\ UNCHANGED <<tasks, recovered>>
    BY <1>14 DEF LeaseRunsOut
  <2>2. file'.token = file.token /\ file'.written = file.written
    BY <2>1 DEF IndInv, TypeOK
  <2> QED
    BY <2>1, <2>2 DEF FileInv, FileIsOwn, WritersHaveTokens
<1>15. ASSUME NEW p \in Procs, Crash(p) PROVE FileInv'
  <2>1. /\ tasks' = [t \in Tasks |-> IF ProcOf[t] = p THEN Idle ELSE tasks[t]]
        /\ UNCHANGED <<file, recovered>>
    BY <1>15 DEF Crash
  <2>2. \A t \in Tasks : tasks'[t].pc = "idle" \/ tasks'[t] = tasks[t]
    BY <2>1 DEF Idle
  <2> QED
    BY <2>1, <2>2 DEF FileInv, FileIsOwn, WritersHaveTokens
<1>16. ASSUME NEW p \in Procs, Start(p) PROVE FileInv'
  BY <1>16 DEF Start, FileInv, FileIsOwn, WritersHaveTokens
<1> QED
  BY <1>2, <1>3, <1>4, <1>5, <1>6, <1>7, <1>8, <1>9, <1>10, <1>11, <1>12, <1>13, <1>14,
     <1>15, <1>16 DEF Next, Works

(* Until a writer judges a file stale, whoever holds the book is the maker *)
(* of the file that is there, so that no other writer of any process holds *)
(* it, for any processes, writers, crashes and failures of the file system.*)
THEOREM HoldersFile == Spec => []HolderOwnsFile
<1>1. Init => FileInv
  BY DEF Init, Idle, FileInv, FileIsOwn, WritersHaveTokens
<1>2. IndInv /\ FileInv /\ [Next]_vars => FileInv'
  BY FileKeeps
<1>3. IndInv /\ FileInv => HolderOwnsFile
  <2> SUFFICES ASSUME IndInv, FileInv, ~recovered PROVE HolderOwnsFile
    BY DEF HolderOwnsFile
  <2>1. \A t \in Holders : file.token = tasks[t].token /\ file.written
    BY DEF Holders, At, FileInv, FileIsOwn
  <2>2. \A s, t \in Holders : s = t
    BY OneMaker DEF Holders, At, Makers
  <2>3. Cardinality(Holders) <= 1
    <3>1. CASE Holders = {}
      BY <3>1, FS_EmptySet
    <3>2. CASE Holders # {}
      <4> PICK t \in Holders : TRUE
        BY <3>2
      <4>1. Holders = {t}
        BY <2>2
      <4> QED
        BY <4>1, FS_Singleton
    <3> QED
      BY <3>1, <3>2
  <2> QED
    BY <2>1, <2>3 DEF HolderOwnsFile
<1> QED
  BY <1>1, <1>2, <1>3, Inductive, PTL DEF Spec
=============================================================================
