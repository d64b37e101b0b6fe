---------------------------- MODULE MigrationJob ----------------------------
(***************************************************************************)
(* One legacy import job on one target project (migration_jobs.py): scan,  *)
(* decisions, target snapshot, import in batches with a ledger, pause and  *)
(* resume, verification by replay, cutover to Runtime authority, rollback. *)
(*                                                                         *)
(* The client is the migration wizard of the Studio                        *)
(* (LegacyMigrationWizard.tsx): it sends one request at a time, except     *)
(* that a pause or a rollback may run beside an import, which is a request *)
(* that goes on in the background.  Every request and every batch is a     *)
(* thread's work on the shared database; the process may stop between any  *)
(* two steps.                                                              *)
(*                                                                         *)
(* An item of the canonical form is a number, in the order of import.  The *)
(* rows of the target are the items it shows; item 0 stands for what the   *)
(* target held before the job.                                             *)
(***************************************************************************)
EXTENDS Naturals, FiniteSets

CONSTANTS
  Items,        \* the items that the scan maps, in the order of import
  Disputed,     \* those that a blocking conflict lets a decision leave out
  Checked,      \* those that the replay hash or the body coverage sees
  BatchSize,    \* items to a transaction (100 in the code)
  Targets,      \* the target before the job: absent, legacy or runtime
  MaxSnapshots, \* bound on target snapshots
  MaxMishaps    \* bound on pauses, failed batches and stopped processes

ASSUME MigrationAssumption ==
  /\ Items \subseteq Nat \ {0} /\ IsFiniteSet(Items)
  /\ Disputed \subseteq Items /\ Checked \subseteq Items \cup {0}
  /\ BatchSize \in Nat \ {0}
  /\ Targets \subseteq {"absent", "legacy", "runtime"}
  /\ {MaxSnapshots, MaxMishaps} \subseteq Nat

VARIABLES
  target,  \* projects.authority_mode, or absent
  rows,    \* the items that the target's tables show
  ledger,  \* migration_import_ledger
  job,     \* the row of migration_jobs
  backup,  \* the file target-before-import.sqlite3
  import,  \* the import request in flight: its phase and what is left to do
  undo,    \* the rollback request in flight
  mishaps

database == <<target, rows, ledger, job>>
requests == <<import, undo>>
vars == <<database, backup, requests, mishaps>>

(* open: a blocking conflict has no decision; dropped: the items that the  *)
(* decisions leave out; confirmed: cutover_confirmed.                      *)
NewJob == [stage |-> "DISCOVERED", resume |-> "none", open |-> FALSE, dropped |-> {},
           snapshot |-> [kind |-> "none", id |-> 0], confirmed |-> FALSE]

NoImport == [phase |-> "idle", todo |-> {}]

Init ==
  /\ target \in Targets
  /\ rows = IF target = "absent" THEN {} ELSE {0}
  /\ ledger = {}
  /\ job = NewJob
  /\ backup = [id |-> 0, target |-> target, rows |-> rows, ledger |-> ledger, job |-> job]
  /\ import = NoImport /\ undo = "idle"
  /\ mishaps = 0

Wanted == Items \ job.dropped

Importing == import.phase # "idle"

(* The wizard's next request waits for the one before, imports included.   *)
Alone == ~Importing /\ undo = "idle"

Mishap == mishaps < MaxMishaps /\ mishaps' = mishaps + 1

Stage(s) == job' = [job EXCEPT !.stage = s]

----------------------------------------------------------------------------
(* Up to the snapshot                                                      *)

(* Earlier decisions stay in decisions_json, but the conflicts found again *)
(* carry none.                                                             *)
Scan ==
  /\ Alone
  /\ job.stage \in {"DISCOVERED", "AWAITING_DECISIONS", "READY", "FAILED"}
  /\ job' = [job EXCEPT !.open = Disputed # {},
                        !.stage = IF Disputed # {} THEN "AWAITING_DECISIONS" ELSE "READY"]
  /\ UNCHANGED <<target, rows, ledger, backup, requests, mishaps>>

Decide ==
  /\ Alone
  /\ job.stage \in {"AWAITING_DECISIONS", "READY"}
  /\ \E dropped \in SUBSET Disputed :
       job' = [job EXCEPT !.open = FALSE, !.dropped = dropped, !.stage = "READY"]
  /\ UNCHANGED <<target, rows, ledger, backup, requests, mishaps>>

(* An absent target needs no file; otherwise the whole database is copied  *)
(* over the job's earlier copy.                                            *)
Snapshot ==
  /\ Alone
  /\ job.stage = "READY" /\ ~job.open
  /\ IF target = "absent"
     THEN /\ job' = [job EXCEPT !.snapshot = [kind |-> "empty", id |-> 0]]
          /\ UNCHANGED backup
     ELSE /\ backup.id < MaxSnapshots
          /\ backup' = [id |-> backup.id + 1, target |-> target, rows |-> rows,
                        ledger |-> ledger, job |-> job]
          /\ job' = [job EXCEPT !.snapshot = [kind |-> "backup", id |-> backup'.id]]
  /\ UNCHANGED <<target, rows, ledger, requests, mishaps>>

----------------------------------------------------------------------------
(* The import request                                                      *)

ImportBegin ==
  /\ Alone
  /\ job.stage \in {"READY", "PAUSED", "FAILED", "IMPORTING", "VERIFYING"}
  /\ ~job.open
  /\ job.snapshot.kind # "none"
  /\ import' = [import EXCEPT !.phase = "begun"]
  /\ UNCHANGED <<database, backup, undo, mishaps>>

(* _update writes the stage whatever it has become since it was looked at. *)
ImportStart ==
  /\ import.phase = "begun"
  /\ Stage("IMPORTING")
  /\ import' = [phase |-> "batch", todo |-> Wanted]
  /\ UNCHANGED <<target, rows, ledger, backup, undo, mishaps>>

Batch == {i \in import.todo : Cardinality({k \in import.todo : k <= i}) <= BatchSize}

(* TARGET_ALREADY_RUNTIME                                                  *)
(* Mutation: an item of the ledger is inserted again, which its key refuses.*)
RefusesRepeats == target = "runtime" \/ Batch \cap ledger # {}
Refuses == target = "runtime"

(* One transaction: the project if it is missing, the rows of the items    *)
(* that the ledger does not list, and their ledger entries.                *)
ImportBatch ==
  /\ import.phase = "batch" /\ ~Refuses
  /\ target' = "legacy"
  /\ rows' = rows \cup (Batch \ ledger)
  /\ ledger' = ledger \cup Batch
  /\ import' = [phase |-> "marked", todo |-> import.todo \ Batch]
  /\ UNCHANGED <<job, backup, undo, mishaps>>

(* The loop stops at the last batch or at a stage that is paused.          *)
ImportLook ==
  /\ import.phase = "marked"
  /\ import' = [import EXCEPT !.phase =
                  IF job.stage = "PAUSED" \/ import.todo = {} THEN "looped" ELSE "batch"]
  /\ UNCHANGED <<database, backup, undo, mishaps>>

(* import_job looks for a pause a second time.                             *)
ImportLookAgain ==
  /\ import.phase = "looped"
  /\ import' = IF job.stage = "PAUSED" THEN NoImport ELSE [import EXCEPT !.phase = "ending"]
  /\ UNCHANGED <<database, backup, undo, mishaps>>

ImportEnd ==
  /\ import.phase = "ending"
  /\ Stage("VERIFYING")
  /\ import' = NoImport
  /\ UNCHANGED <<target, rows, ledger, backup, undo, mishaps>>

(* A batch that is refused, or a locked database.                          *)
ImportFails ==
  /\ import.phase \in {"batch", "marked", "looped", "ending"}
  /\ \/ import.phase = "batch" /\ Refuses /\ UNCHANGED mishaps
     \/ Mishap
  /\ Stage("FAILED")
  /\ import' = NoImport
  /\ UNCHANGED <<target, rows, ledger, backup, undo>>

----------------------------------------------------------------------------
(* Pause and resume                                                        *)

Pause ==
  /\ undo = "idle"
  /\ job.stage \notin {"COMPLETED", "ROLLED_BACK"}
  /\ Mishap
  /\ job' = [job EXCEPT !.resume = job.stage, !.stage = "PAUSED"]
  /\ UNCHANGED <<target, rows, ledger, backup, requests>>

(* resume_stage is empty after a pause of a paused job was resumed once.   *)
ResumeStage == IF job.resume = "none" THEN "READY" ELSE job.resume

Resume ==
  /\ Alone
  /\ job.stage = "PAUSED"
  /\ job' = [job EXCEPT !.stage = ResumeStage, !.resume = "none"]
  /\ UNCHANGED <<target, rows, ledger, backup, requests, mishaps>>

----------------------------------------------------------------------------
(* Verification, cutover and rollback                                      *)

(* The effective items, replayed over the snapshot into a fresh database.  *)
Replay == Wanted \cup IF job.snapshot.kind = "backup" THEN backup.rows ELSE {}

(* Mutation: what the target holds is compared with what is in the ledger. *)
VerifiedByLedger == ~job.open /\ ledger \cap Checked \subseteq rows
Verified == ~job.open /\ rows \cap Checked = Replay \cap Checked

Verify ==
  /\ Alone
  /\ job.stage \in {"VERIFYING", "FAILED"}
  /\ Stage(IF Verified THEN "COMPLETED" ELSE "FAILED")
  /\ UNCHANGED <<target, rows, ledger, backup, requests, mishaps>>

Cutover ==
  /\ Alone
  /\ job.stage = "COMPLETED" /\ target # "absent"
  /\ target' = "runtime"
  /\ job' = [job EXCEPT !.confirmed = TRUE]
  /\ UNCHANGED <<rows, ledger, backup, requests, mishaps>>

RollbackBegin ==
  /\ undo = "idle"
  /\ ~job.confirmed
  /\ \/ job.snapshot.kind = "empty" /\ undo' = "remove"
     \/ job.snapshot.kind = "backup" /\ job.snapshot.id = backup.id /\ undo' = "restore"
  /\ UNCHANGED <<database, backup, import, mishaps>>

(* Mutation: the target goes, what the ledger says of it stays.            *)
RemoveRowsOnly ==
  /\ undo = "remove" /\ undo' = "mark"
  /\ IF target = "legacy" THEN target' = "absent" /\ rows' = {} ELSE UNCHANGED <<target, rows>>
  /\ UNCHANGED <<ledger, job, backup, import, mishaps>>

(* DELETE ... WHERE authority_mode='legacy', and the job's ledger.         *)
RollbackRemove ==
  /\ undo = "remove" /\ undo' = "mark"
  /\ IF target = "legacy" THEN target' = "absent" /\ rows' = {} ELSE UNCHANGED <<target, rows>>
  /\ ledger' = {}
  /\ UNCHANGED <<job, backup, import, mishaps>>

(* The copy replaces the whole database, the job's own row included.       *)
RollbackRestore ==
  /\ undo = "restore" /\ undo' = "mark"
  /\ target' = backup.target /\ rows' = backup.rows
  /\ ledger' = backup.ledger /\ job' = backup.job
  /\ UNCHANGED <<backup, import, mishaps>>

RollbackMark ==
  /\ undo = "mark" /\ undo' = "idle"
  /\ Stage("ROLLED_BACK")
  /\ UNCHANGED <<target, rows, ledger, backup, import, mishaps>>

(* Every request in flight is gone; the database is as the last            *)
(* transaction left it.                                                    *)
Crash ==
  /\ ~Alone
  /\ Mishap
  /\ import' = NoImport /\ undo' = "idle"
  /\ UNCHANGED <<database, backup>>

ImportSteps == ImportStart \/ ImportBatch \/ ImportLook \/ ImportLookAgain \/ ImportEnd
                 \/ ImportFails
RollbackSteps == RollbackRemove \/ RollbackRestore \/ RollbackMark

Next ==
  \/ Scan \/ Decide \/ Snapshot \/ ImportBegin \/ ImportSteps \/ Pause \/ Resume
  \/ Verify \/ Cutover \/ RollbackBegin \/ RollbackSteps \/ Crash

Spec == Init /\ [][Next]_vars

(* A request in flight goes on; an operator whose job is not finished      *)
(* keeps sending each request that the job waits for.                      *)
Fairness ==
  /\ WF_vars(ImportSteps) /\ WF_vars(RollbackSteps)
  /\ SF_vars(Scan) /\ SF_vars(Decide) /\ SF_vars(Snapshot) /\ SF_vars(Resume)
  /\ SF_vars(ImportBegin) /\ SF_vars(Verify)

FairSpec == Spec /\ Fairness

----------------------------------------------------------------------------
(* Properties                                                              *)

Stages == {"DISCOVERED", "AWAITING_DECISIONS", "READY", "IMPORTING", "PAUSED", "FAILED",
           "VERIFYING", "COMPLETED", "ROLLED_BACK"}

Modes == {"absent", "legacy", "runtime"}

Pausable == Stages \ {"COMPLETED", "ROLLED_BACK"}

Jobs == [stage : Stages, resume : Pausable \cup {"none"}, open : BOOLEAN,
         dropped : SUBSET Disputed,
         snapshot : [kind : {"none", "empty", "backup"}, id : Nat], confirmed : BOOLEAN]

(* The shape of the state: every stage is one that a request knows, and no *)
(* job is resumed into a stage that ends it.                               *)
TypeOK ==
  /\ target \in Modes /\ rows \subseteq Items \cup {0} /\ ledger \subseteq Items
  /\ job \in Jobs
  /\ backup \in [id : Nat, target : Modes, rows : SUBSET (Items \cup {0}),
                 ledger : SUBSET Items, job : Jobs]
  /\ import \in [phase : {"idle", "begun", "batch", "marked", "looped", "ending"},
                 todo : SUBSET Items]
  /\ undo \in {"idle", "remove", "restore", "mark"}
  /\ mishaps \in Nat

(* What the ledger lists is in the target, so that a resumed import skips  *)
(* nothing that is missing: through crashes, pauses, and rollbacks that    *)
(* delete or restore while an import is writing batches.                   *)
LedgerTruthful == ledger \subseteq rows

(* A project is handed to the Runtime only with every item of the source   *)
(* that the decisions keep and verification sees, whatever failed, was     *)
(* paused or was rolled back on the way.                                   *)
CutoverTakesTheImport ==
  job.confirmed => target = "runtime" /\ Wanted \cap Checked \subseteq rows

(* The snapshot that a rollback would restore shows nothing that the job   *)
(* has imported.                                                           *)
RollbackBoundaryKept == job.snapshot.kind = "backup" => backup.rows \subseteq {0}

(* An import that runs under a snapshot gets the job completed, through    *)
(* pauses, failed batches and stops, unless the job is rolled back, the    *)
(* target is a Runtime project, or the decisions were changed to leave out *)
(* what was already imported.                                              *)
ImportCompletes ==
  Importing /\ job.snapshot.kind # "none"
    ~> \/ job.stage \in {"COMPLETED", "ROLLED_BACK"}
       \/ undo # "idle"
       \/ target = "runtime"
       \/ rows \cap job.dropped # {}
=============================================================================
