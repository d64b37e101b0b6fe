------------------------------ MODULE BookLock ------------------------------
(***************************************************************************)
(* The write lock of one book (state/manager.ts): a map in each process    *)
(* (processBookLocks) in front of the file .write.lock that all processes  *)
(* share.  Every await is a step of its own: the exclusive open, the write *)
(* of the metadata, the read of an existing file, the comparison and the   *)
(* unlink of a stale one, and the read and unlink of a release.            *)
(*                                                                         *)
(* A file is known by the token of the acquisition that created it.  Two   *)
(* contents of one file differ only in the heartbeat: a heartbeat makes    *)
(* every earlier reading of the file differ from it, so it clears "seen".  *)
(***************************************************************************)
EXTENDS Naturals, FiniteSets

CONSTANTS
  Procs,      \* process ids
  Tasks,      \* writers: a StateManager call each
  ProcOf,     \* the process a task runs in
  Tokens,     \* randomUUID
  None,       \* no token, no process
  MaxTries,   \* attempts of one acquisition (4 in the code)
  MaxMishaps  \* bound on crashes, stalls and failed writes

ASSUME BookLockAssumption ==
  /\ ProcOf \in [Tasks -> Procs]
  /\ None \notin Tokens \cup Procs
  /\ MaxTries \in Nat \ {0} /\ MaxMishaps \in Nat

VARIABLES
  file,      \* .write.lock
  slot,      \* processBookLocks: process -> token of the owner
  tasks,     \* the local state of each writer
  alive,     \* the processes that run
  recovered, \* whether any writer ever judged a file stale
  mishaps

vars == <<file, slot, tasks, alive, recovered, mishaps>>

Idle == [pc |-> "idle", token |-> None, seen |-> None, tries |-> 0]

(* written: the metadata is in it; old: its heartbeat is beyond the lease. *)
NoFile == [token |-> None, pid |-> None, written |-> FALSE, old |-> FALSE]

Init ==
  /\ file = NoFile
  /\ slot = [p \in Procs |-> None]
  /\ tasks = [t \in Tasks |-> Idle]
  /\ alive = Procs
  /\ recovered = FALSE /\ mishaps = 0

At(t, pc) == tasks[t].pc = pc
Goes(t, pc) == tasks' = [tasks EXCEPT ![t].pc = pc]
Mishap == mishaps < MaxMishaps /\ mishaps' = mishaps + 1

TokensInUse == {file.token} \cup {tasks[t].token : t \in Tasks}
                            \cup {tasks[t].seen : t \in Tasks}

----------------------------------------------------------------------------
(* acquireBookLock                                                         *)

(* Mutation: the slot is only consulted, never reserved before an await.   *)
ReservesLate(t, k) == slot[ProcOf[t]] = None /\ slot' = slot

(* The reservation of the slot is synchronous.                             *)
Reserve(t, k) == /\ slot[ProcOf[t]] = None
                 /\ slot' = [slot EXCEPT ![ProcOf[t]] = k]

Acquire(t) ==
  /\ At(t, "idle") /\ ProcOf[t] \in alive
  /\ Tokens \ TokensInUse # {}
  /\ LET k == CHOOSE k \in Tokens : k \notin TokensInUse
     IN /\ Reserve(t, k)
        /\ tasks' = [tasks EXCEPT ![t] = [Idle EXCEPT !.pc = "creating", !.token = k]]
  /\ UNCHANGED <<file, alive, recovered, mishaps>>

(* The map entry goes only if it is still this acquisition's.              *)
Vacate(t) == slot' = [slot EXCEPT ![ProcOf[t]] = IF @ = tasks[t].token THEN None ELSE @]

(* BookWriteLockError, or an error of the file system.                     *)
Fail(t) == Vacate(t) /\ tasks' = [tasks EXCEPT ![t] = Idle]

TryAgain(t) ==
  IF tasks[t].tries + 1 = MaxTries
  THEN Fail(t)
  ELSE /\ tasks' = [tasks EXCEPT ![t].pc = "creating", ![t].seen = None,
                                 ![t].tries = @ + 1]
       /\ UNCHANGED slot

(* Mutation: the file is replaced if it exists (open with "w").            *)
OverwritesFile(t) ==
  /\ At(t, "creating")
  /\ file' = [NoFile EXCEPT !.token = tasks[t].token]
  /\ Goes(t, "writing")
  /\ UNCHANGED <<slot, alive, recovered, mishaps>>

(* open(wx)                                                                *)
CreateFile(t) ==
  /\ At(t, "creating")
  /\ IF file = NoFile
     THEN file' = [NoFile EXCEPT !.token = tasks[t].token] /\ Goes(t, "writing")
     ELSE UNCHANGED file /\ Goes(t, "reading")
  /\ UNCHANGED <<slot, alive, recovered, mishaps>>

(* The write goes to the file that was opened, even if it was unlinked.    *)
WriteMetadata(t) ==
  /\ At(t, "writing")
  /\ file' = IF file.token = tasks[t].token
             THEN [file EXCEPT !.written = TRUE, !.pid = ProcOf[t]] ELSE file
  /\ Goes(t, "holding")
  /\ UNCHANGED <<slot, alive, recovered, mishaps>>

WriteFails(t) ==
  /\ At(t, "writing") /\ Mishap
  /\ file' = NoFile
  /\ Fail(t)
  /\ UNCHANGED <<alive, recovered>>

(* Mutation: a file is stale only when its lease has run out.              *)
StaleByLeaseOnly(t) == file.written /\ file.old

(* isStaleLock: an empty file has neither a process id nor a lease.        *)
IsStaleLock(t) ==
  /\ file.written
  /\ file.pid = ProcOf[t] \/ file.pid \notin alive \/ file.old

ReadLock(t) ==
  /\ At(t, "reading")
  /\ IF file = NoFile
     THEN TryAgain(t) /\ UNCHANGED recovered
     ELSE IF IsStaleLock(t)
     THEN /\ tasks' = [tasks EXCEPT ![t].pc = "comparing", ![t].seen = file.token]
          /\ recovered' = TRUE /\ UNCHANGED slot
     ELSE Fail(t) /\ UNCHANGED recovered
  /\ UNCHANGED <<file, alive, mishaps>>

(* removeStaleLock: is it still what was read, then unlink by name.        *)
CompareLock(t) ==
  /\ At(t, "comparing")
  /\ IF file # NoFile /\ file.token = tasks[t].seen
     THEN Goes(t, "removing") /\ UNCHANGED slot
     ELSE TryAgain(t)
  /\ UNCHANGED <<file, alive, recovered, mishaps>>

RemoveStale(t) ==
  /\ At(t, "removing")
  /\ file' = NoFile
  /\ TryAgain(t)
  /\ UNCHANGED <<alive, recovered, mishaps>>

----------------------------------------------------------------------------
(* The heartbeat and the release of a held lock                            *)

(* startLockHeartbeat: token checked, heartbeatAt rewritten in place.      *)
Heartbeat(t) ==
  /\ At(t, "holding") /\ slot[ProcOf[t]] = tasks[t].token
  /\ file.token = tasks[t].token /\ file.written
  /\ file' = [file EXCEPT !.old = FALSE]
  /\ tasks' = [u \in Tasks |-> IF tasks[u].seen = file.token
                               THEN [tasks[u] EXCEPT !.seen = None] ELSE tasks[u]]
  /\ UNCHANGED <<slot, alive, recovered, mishaps>>

(* No heartbeat for longer than the lease: a stalled or a dead holder.     *)
LeaseRunsOut ==
  /\ file.written /\ ~file.old /\ Mishap
  /\ file' = [file EXCEPT !.old = TRUE]
  /\ UNCHANGED <<slot, tasks, alive, recovered>>

(* The slot is vacated before the file is looked at.                       *)
Release(t) ==
  /\ At(t, "holding")
  /\ Vacate(t) /\ Goes(t, "releasing")
  /\ UNCHANGED <<file, alive, recovered, mishaps>>

OwnFile(t) == file.token = tasks[t].token /\ file.written

CheckOwner(t) ==
  /\ At(t, "releasing")
  /\ IF OwnFile(t) THEN Goes(t, "unlinking")
     ELSE tasks' = [tasks EXCEPT ![t] = Idle]
  /\ UNCHANGED <<file, slot, alive, recovered, mishaps>>

UnlinkOwn(t) ==
  /\ At(t, "unlinking")
  /\ file' = NoFile
  /\ tasks' = [tasks EXCEPT ![t] = Idle]
  /\ UNCHANGED <<slot, alive, recovered, mishaps>>

----------------------------------------------------------------------------
(* The operating system                                                    *)

Crash(p) ==
  /\ p \in alive /\ Mishap
  /\ alive' = alive \ {p}
  /\ slot' = [slot EXCEPT ![p] = None]
  /\ tasks' = [t \in Tasks |-> IF ProcOf[t] = p THEN Idle ELSE tasks[t]]
  /\ UNCHANGED <<file, recovered>>

(* A process id can be used again.                                         *)
Start(p) ==
  /\ p \notin alive
  /\ alive' = alive \cup {p}
  /\ UNCHANGED <<file, slot, tasks, recovered, mishaps>>

Works(t) == \/ CreateFile(t) \/ WriteMetadata(t) \/ ReadLock(t)
            \/ CompareLock(t) \/ RemoveStale(t)
            \/ Release(t) \/ CheckOwner(t) \/ UnlinkOwn(t)

Next ==
  \/ \E t \in Tasks : Acquire(t) \/ Works(t) \/ WriteFails(t) \/ Heartbeat(t)
  \/ LeaseRunsOut
  \/ \E p \in Procs : Crash(p) \/ Start(p)

Spec == Init /\ [][Next]_vars

(* Node runs what is ready; writes end; writers keep asking for the book.  *)
Fairness ==
  /\ \A t \in Tasks : WF_vars(Acquire(t)) /\ WF_vars(Works(t))
  /\ \A p \in Procs : WF_vars(Start(p))

FairSpec == Spec /\ Fairness

----------------------------------------------------------------------------
Holders == {t \in Tasks : At(t, "holding")}

Steps == {"idle", "creating", "writing", "reading", "comparing", "removing",
          "holding", "releasing", "unlinking"}

(* The variables keep their shape. *)
TypeOK ==
  /\ file \in [token : Tokens \cup {None}, pid : Procs \cup {None},
               written : BOOLEAN, old : BOOLEAN]
  /\ slot \in [Procs -> Tokens \cup {None}]
  /\ tasks \in [Tasks -> [pc : Steps, token : Tokens \cup {None},
                          seen : Tokens \cup {None}, tries : 0 .. MaxTries - 1]]
  /\ alive \subseteq Procs
  /\ recovered \in BOOLEAN /\ mishaps \in 0 .. MaxMishaps

(* Two writers of one process never hold the book together, whatever       *)
(* happens to the file: the slot is reserved before the first await of     *)
(* acquireBookLock and vacated only by its owner.                          *)
OneWriterPerProcess ==
  \A s, t \in Holders : ProcOf[s] = ProcOf[t] => s = t

(* As long as no writer has judged a file stale, a held book is covered by *)
(* its holder's own file, so no writer of any process can hold it too: the *)
(* exclusive open and the checked release suffice by themselves.           *)
HolderOwnsFile ==
  ~recovered => /\ \A t \in Holders : file.token = tasks[t].token /\ file.written
                /\ Cardinality(Holders) <= 1

(* At most one writer of any process holds the book.                       *)
OneWriter == Cardinality(Holders) <= 1

(* The lock of a process that stopped does not stay: writers that keep     *)
(* asking for the book remove it, without waiting for the lease.           *)
DeadLocksRecover ==
  \A k \in Tokens :
    (file.token = k /\ file.written /\ file.pid \notin alive) ~> (file.token # k)
=============================================================================
