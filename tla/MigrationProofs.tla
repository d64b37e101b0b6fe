--------------------------- MODULE MigrationProofs ---------------------------
(***************************************************************************)
(* Theorems about MigrationJob for any items, decisions, batch size and    *)
(* bounds: the shape of its state, that the ledger never lists an item the *)
(* target does not show, and that a cutover takes every item that the      *)
(* decisions keep and verification sees.                                   *)
(***************************************************************************)
EXTENDS MigrationJob, TLAPS

(* The same of the database and of its copy.                               *)
LedgersTruthful == LedgerTruthful /\ backup.ledger \subseteq backup.rows

(* A completed job has no import in flight, and its target, unless a       *)
(* rollback has removed it, shows what verification found there.           *)
CompletedIsVerified ==
  job.stage = "COMPLETED" =>
    /\ ~Importing
    /\ target # "absent" => Wanted \cap Checked \subseteq rows

(* After a cutover no request is in flight and none may start.             *)
CutoverIsFinal ==
  job.confirmed => job.stage = "COMPLETED" /\ Alone /\ target = "runtime"

(* The copy was taken of a job that was not completed.                     *)
CopyIsEarlier == backup.job.stage # "COMPLETED" /\ ~backup.job.confirmed

IndInv == TypeOK /\ LedgersTruthful /\ CompletedIsVerified /\ CutoverIsFinal /\ CopyIsEarlier

(* A batch is a part of what the import has left to do.                    *)
LEMMA BatchOfItems ==
  ASSUME TypeOK
  PROVE  Batch \subseteq Items /\ Batch \subseteq import.todo
  BY DEF Batch, TypeOK

LEMMA InitInv == Init => IndInv
<1> SUFFICES ASSUME Init PROVE IndInv
  OBVIOUS
<1> USE MigrationAssumption DEF Init
<1>1. NewJob \in Jobs /\ NewJob.stage = "DISCOVERED" /\ NewJob.confirmed = FALSE
  BY DEF NewJob, Jobs, Stages
<1>2. TypeOK
  BY <1>1 DEF TypeOK, Modes, NoImport
<1>3. LedgersTruthful
  BY DEF LedgersTruthful, LedgerTruthful
<1>4. CompletedIsVerified /\ CutoverIsFinal /\ CopyIsEarlier
  BY <1>1 DEF CompletedIsVerified, CutoverIsFinal, CopyIsEarlier
<1> QED
  BY <1>2, <1>3, <1>4 DEF IndInv

(* A request that only writes the job's row, of a job that is not cut over,*)
(* keeps the invariant if it does not complete the job.                    *)
LEMMA RowOnly ==
  ASSUME IndInv, job' \in Jobs, job'.stage # "COMPLETED", ~job'.confirmed,
         UNCHANGED <<target, rows, ledger, backup>>,
         import' \in [phase : {"idle", "begun", "batch", "marked", "looped", "ending"},
                      todo : SUBSET Items],
         undo' \in {"idle", "remove", "restore", "mark"}, mishaps' \in Nat
  PROVE  IndInv'
<1>1. TypeOK'
  BY DEF IndInv, TypeOK
<1>2. LedgersTruthful' /\ CopyIsEarlier'
  BY DEF IndInv, LedgersTruthful, LedgerTruthful, CopyIsEarlier
<1>3. CompletedIsVerified' /\ CutoverIsFinal'
  BY DEF CompletedIsVerified, CutoverIsFinal
<1> QED
  BY <1>1, <1>2, <1>3 DEF IndInv

(* A request that moves on without writing to the database, and that no    *)
(* completed job has, keeps the invariant.                                 *)
LEMMA RequestOnly ==
  ASSUME IndInv, UNCHANGED <<database, backup>>,
         ~job.confirmed, job.stage = "COMPLETED" => ~Importing',
         import' \in [phase : {"idle", "begun", "batch", "marked", "looped", "ending"},
                      todo : SUBSET Items],
         undo' \in {"idle", "remove", "restore", "mark"}, mishaps' \in Nat
  PROVE  IndInv'
<1> USE DEF database
<1>1. TypeOK'
  BY DEF IndInv, TypeOK
<1>2. LedgersTruthful' /\ CopyIsEarlier'
  BY DEF IndInv, LedgersTruthful, LedgerTruthful, CopyIsEarlier
<1>3. CompletedIsVerified' /\ CutoverIsFinal'
  BY DEF IndInv, CompletedIsVerified, CutoverIsFinal, Wanted
<1> QED
  BY <1>1, <1>2, <1>3 DEF IndInv

LEMMA PreparingKeeps ==
  ASSUME IndInv, Scan \/ Decide \/ Snapshot
  PROVE  IndInv'
<1> USE MigrationAssumption
<1>1. TypeOK /\ job \in Jobs
  BY DEF IndInv, TypeOK
<1>2. job.stage # "COMPLETED" /\ ~job.confirmed
  BY DEF IndInv, CutoverIsFinal, Scan, Decide, Snapshot
<1>3. CASE Scan
  <2>1. job' \in Jobs /\ job'.stage # "COMPLETED" /\ ~job'.confirmed
    BY <1>1, <1>2, <1>3 DEF Scan, Jobs, Stages
  <2> QED
    BY <1>1, <1>3, <2>1, RowOnly DEF Scan, requests, TypeOK
<1>4. CASE Decide
  <2>1. job' \in Jobs /\ job'.stage # "COMPLETED" /\ ~job'.confirmed
    BY <1>1, <1>2, <1>4 DEF Decide, Jobs, Stages
  <2> QED
    BY <1>1, <1>4, <2>1, RowOnly DEF Decide, requests, TypeOK
<1>5. CASE Snapshot /\ target = "absent"
  <2>1. job' \in Jobs /\ job'.stage # "COMPLETED" /\ ~job'.confirmed
    BY <1>1, <1>2, <1>5 DEF Snapshot, Jobs, Stages
  <2> QED
    BY <1>1, <1>5, <2>1, RowOnly DEF Snapshot, requests, TypeOK
<1>6. CASE Snapshot /\ target # "absent"
  <2>1. /\ backup' = [id |-> backup.id + 1, target |-> target, rows |-> rows,
                      ledger |-> ledger, job |-> job]
        /\ job' = [job EXCEPT !.snapshot = [kind |-> "backup", id |-> backup'.id]]
        /\ UNCHANGED <<target, rows, ledger, requests, mishaps>>
    BY <1>6 DEF Snapshot
  <2>2. backup.id + 1 \in Nat /\ backup'.id = backup.id + 1
    BY <1>1, <2>1 DEF TypeOK
  <2>3. job' \in Jobs /\ job'.stage # "COMPLETED" /\ ~job'.confirmed
    BY <1>1, <1>2, <2>1, <2>2 DEF Jobs
  <2>4. TypeOK'
    BY <1>1, <2>1, <2>2, <2>3 DEF TypeOK, requests
  <2>5. LedgersTruthful' /\ CopyIsEarlier'
    BY <1>2, <2>1 DEF IndInv, LedgersTruthful, LedgerTruthful, CopyIsEarlier
  <2>6. CompletedIsVerified' /\ CutoverIsFinal'
    BY <2>3 DEF CompletedIsVerified, CutoverIsFinal
  <2> QED
    BY <2>4, <2>5, <2>6 DEF IndInv
<1> QED
  BY <1>3, <1>4, <1>5, <1>6

LEMMA ImportKeeps ==
  ASSUME IndInv, ImportBegin \/ ImportSteps
  PROVE  IndInv'
<1> USE MigrationAssumption
<1>1. TypeOK /\ job \in Jobs
  BY DEF IndInv, TypeOK
<1>2. job.stage # "COMPLETED" /\ ~job.confirmed
  BY DEF IndInv, CutoverIsFinal, CompletedIsVerified, Alone, Importing, ImportBegin,
         ImportSteps, ImportStart, ImportBatch, ImportLook, ImportLookAgain, ImportEnd,
         ImportFails
<1>3. mishaps' \in Nat
  BY <1>1 DEF TypeOK, Mishap, ImportBegin, ImportSteps, ImportStart, ImportBatch, ImportLook,
              ImportLookAgain, ImportEnd, ImportFails
<1>4. CASE ImportBegin
  <2>1. import' \in [phase : {"begun"}, todo : SUBSET Items]
    BY <1>1, <1>4 DEF ImportBegin, TypeOK
  <2> QED
    BY <1>1, <1>2, <1>3, <1>4, <2>1, RequestOnly DEF ImportBegin, TypeOK
<1>5. CASE ImportStart
  <2>1. job' \in Jobs /\ job'.stage # "COMPLETED" /\ ~job'.confirmed
    BY <1>1, <1>2, <1>5 DEF ImportStart, Stage, Jobs, Stages
  <2>2. import' \in [phase : {"batch"}, todo : SUBSET Items]
    BY <1>5 DEF ImportStart, Wanted
  <2> QED
    BY <1>1, <1>3, <1>5, <2>1, <2>2, RowOnly DEF ImportStart, TypeOK
<1>6. CASE ImportBatch
  <2>1. Batch \subseteq Items /\ Batch \subseteq import.todo
    BY <1>1, BatchOfItems
  <2>2. TypeOK'
    BY <1>1, <1>3, <1>6, <2>1 DEF ImportBatch, TypeOK, Modes
  <2>3. LedgersTruthful' /\ CopyIsEarlier'
    BY <1>6 DEF ImportBatch, IndInv, LedgersTruthful, LedgerTruthful, CopyIsEarlier
  <2>4. CompletedIsVerified' /\ CutoverIsFinal'
    BY <1>2, <1>6 DEF ImportBatch, CompletedIsVerified, CutoverIsFinal
  <2> QED
    BY <2>2, <2>3, <2>4 DEF IndInv
<1>7. CASE ImportLook
  <2>1. import' \in [phase : {"looped", "batch"}, todo : SUBSET Items]
    BY <1>1, <1>7 DEF ImportLook, TypeOK
  <2> QED
    BY <1>1, <1>2, <1>3, <1>7, <2>1, RequestOnly DEF ImportLook, TypeOK
<1>8. CASE ImportLookAgain
  <2>1. import' \in [phase : {"idle", "ending"}, todo : SUBSET Items]
    BY <1>1, <1>8 DEF ImportLookAgain, TypeOK, NoImport
  <2> QED
    BY <1>1, <1>2, <1>3, <1>8, <2>1, RequestOnly DEF ImportLookAgain, TypeOK
<1>9. CASE ImportEnd \/ ImportFails
  <2>1. job' \in Jobs /\ job'.stage # "COMPLETED" /\ ~job'.confirmed
    BY <1>1, <1>2, <1>9 DEF ImportEnd, ImportFails, Stage, Jobs, Stages
  <2>2. import' \in [phase : {"idle"}, todo : SUBSET Items]
    BY <1>9 DEF ImportEnd, ImportFails, NoImport
  <2> QED
    BY <1>1, <1>3, <1>9, <2>1, <2>2, RowOnly DEF ImportEnd, ImportFails, TypeOK
<1> QED
  BY <1>4, <1>5, <1>6, <1>7, <1>8, <1>9 DEF ImportSteps

LEMMA PauseKeeps ==
  ASSUME IndInv, Pause \/ Resume
  PROVE  IndInv'
<1>1. TypeOK /\ job \in Jobs
  BY DEF IndInv, TypeOK
<1>2. job.stage # "COMPLETED" /\ ~job.confirmed
  BY DEF IndInv, CutoverIsFinal, Pause, Resume
<1>3. CASE Pause
  <2>1. job' \in Jobs /\ job'.stage # "COMPLETED" /\ ~job'.confirmed
    BY <1>1, <1>2, <1>3 DEF Pause, Jobs, Pausable, Stages
  <2>2. mishaps' \in Nat
    BY <1>1, <1>3 DEF Pause, Mishap, TypeOK
  <2> QED
    BY <1>1, <1>3, <2>1, <2>2, RowOnly DEF Pause, requests, TypeOK
<1>4. CASE Resume
  <2>1. job' \in Jobs /\ job'.stage # "COMPLETED" /\ ~job'.confirmed
    BY <1>1, <1>2, <1>4 DEF Resume, ResumeStage, Jobs, Pausable, Stages
  <2> QED
    BY <1>1, <1>4, <2>1, RowOnly DEF Resume, requests, TypeOK
<1> QED
  BY <1>3, <1>4

(* Verification completes a job only whose target shows what it checked.   *)
LEMMA VerifyKeeps ==
  ASSUME IndInv, Verify
  PROVE  IndInv'
<1> USE MigrationAssumption
<1>1. TypeOK /\ job \in Jobs /\ ~job.confirmed
  BY DEF IndInv, TypeOK, CutoverIsFinal, Verify
<1>2. /\ UNCHANGED <<target, rows, ledger, backup, import, undo, mishaps>>
      /\ job' = [job EXCEPT !.stage = IF Verified THEN "COMPLETED" ELSE "FAILED"]
      /\ ~Importing
  BY DEF Verify, Stage, requests, Alone
<1>3. job' \in Jobs /\ job'.dropped = job.dropped /\ ~job'.confirmed
  BY <1>1, <1>2 DEF Jobs, Stages
<1>4. TypeOK'
  BY <1>1, <1>2, <1>3 DEF TypeOK
<1>5. LedgersTruthful' /\ CopyIsEarlier' /\ CutoverIsFinal'
  BY <1>2, <1>3 DEF IndInv, LedgersTruthful, LedgerTruthful, CopyIsEarlier, CutoverIsFinal
<1>6. CompletedIsVerified'
  <2> SUFFICES ASSUME job'.stage = "COMPLETED"
               PROVE  ~Importing' /\ (Wanted \cap Checked \subseteq rows)'
    BY DEF CompletedIsVerified
  <2>1. Verified
    BY <1>1, <1>2 DEF Jobs
  <2>2. Wanted \cap Checked \subseteq rows
    BY <2>1 DEF Verified, Replay
  <2> QED
    BY <1>2, <1>3, <2>2 DEF Importing, Wanted
<1> QED
  BY <1>4, <1>5, <1>6 DEF IndInv

LEMMA CutoverKeeps ==
  ASSUME IndInv, Cutover
  PROVE  IndInv'
<1>1. TypeOK /\ job \in Jobs
  BY DEF IndInv, TypeOK
<1>2. job' \in Jobs /\ job'.dropped = job.dropped /\ job'.stage = "COMPLETED"
  BY <1>1 DEF Cutover, Jobs
<1>3. /\ target' = "runtime" /\ target # "absent"
      /\ UNCHANGED <<rows, ledger, backup, import, undo, mishaps>>
      /\ Alone /\ job.stage = "COMPLETED"
  BY DEF Cutover, requests
<1>4. TypeOK'
  BY <1>1, <1>2, <1>3 DEF TypeOK, Modes
<1>5. LedgersTruthful' /\ CopyIsEarlier'
  BY <1>3 DEF IndInv, LedgersTruthful, LedgerTruthful, CopyIsEarlier
<1>6. CompletedIsVerified'
  BY <1>2, <1>3 DEF IndInv, CompletedIsVerified, Importing, Wanted
<1>7. CutoverIsFinal'
  BY <1>2, <1>3 DEF CutoverIsFinal, Alone, Importing
<1> QED
  BY <1>4, <1>5, <1>6, <1>7 DEF IndInv

(* A rollback in flight is of a job that is not cut over.                  *)
LEMMA RollbackKeeps ==
  ASSUME IndInv, RollbackBegin \/ RollbackSteps
  PROVE  IndInv'
<1>1. TypeOK /\ job \in Jobs
  BY DEF IndInv, TypeOK
<1>2. ~job.confirmed
  BY DEF IndInv, CutoverIsFinal, Alone, RollbackBegin, RollbackSteps, RollbackRemove,
         RollbackRestore, RollbackMark
<1>3. CASE RollbackBegin
  <2>1. job.stage = "COMPLETED" => ~Importing'
    BY <1>3 DEF RollbackBegin, IndInv, CompletedIsVerified, Importing
  <2>2. undo' \in {"remove", "restore"} /\ UNCHANGED <<database, backup, import, mishaps>>
    BY <1>3 DEF RollbackBegin
  <2> QED
    BY <1>1, <1>2, <2>1, <2>2, RequestOnly DEF TypeOK
<1>4. CASE RollbackRemove
  <2>1. TypeOK'
    BY <1>1, <1>4 DEF RollbackRemove, TypeOK, Modes
  <2>2. LedgersTruthful' /\ CopyIsEarlier'
    BY <1>4 DEF RollbackRemove, IndInv, LedgersTruthful, LedgerTruthful, CopyIsEarlier
  <2>3. CompletedIsVerified'
    BY <1>4 DEF RollbackRemove, IndInv, CompletedIsVerified, Importing, Wanted
  <2>4. CutoverIsFinal'
    BY <1>2, <1>4 DEF RollbackRemove, CutoverIsFinal
  <2> QED
    BY <2>1, <2>2, <2>3, <2>4 DEF IndInv
<1>5. CASE RollbackRestore
  <2>1. TypeOK'
    BY <1>1, <1>5 DEF RollbackRestore, TypeOK
  <2>2. LedgersTruthful' /\ CopyIsEarlier'
    BY <1>5 DEF RollbackRestore, IndInv, LedgersTruthful, LedgerTruthful, CopyIsEarlier
  <2>3. CompletedIsVerified' /\ CutoverIsFinal'
    BY <1>5 DEF RollbackRestore, IndInv, CopyIsEarlier, CompletedIsVerified, CutoverIsFinal
  <2> QED
    BY <2>1, <2>2, <2>3 DEF IndInv
<1>6. CASE RollbackMark
  <2>1. job' \in Jobs /\ job'.stage # "COMPLETED" /\ ~job'.confirmed
    BY <1>1, <1>2, <1>6 DEF RollbackMark, Stage, Jobs, Stages
  <2> QED
    BY <1>1, <1>6, <2>1, RowOnly DEF RollbackMark, TypeOK
<1> QED
  BY <1>3, <1>4, <1>5, <1>6 DEF RollbackSteps

LEMMA CrashKeeps ==
  ASSUME IndInv, Crash
  PROVE  IndInv'
<1>1. TypeOK /\ ~job.confirmed
  BY DEF IndInv, CutoverIsFinal, Crash
<1>2. /\ UNCHANGED <<database, backup>> /\ undo' = "idle" /\ import' = NoImport
      /\ mishaps' \in Nat
  BY <1>1 DEF Crash, Mishap, TypeOK
<1>3. import' \in [phase : {"idle"}, todo : SUBSET Items] /\ ~Importing'
  BY <1>2 DEF NoImport, Importing
<1> QED
  BY <1>1, <1>2, <1>3, RequestOnly

LEMMA NextInv == IndInv /\ [Next]_vars => IndInv'
<1> SUFFICES ASSUME IndInv, [Next]_vars PROVE IndInv'
  OBVIOUS
<1>1. CASE UNCHANGED vars
  BY <1>1 DEF vars, database, requests, IndInv, TypeOK, LedgersTruthful, LedgerTruthful,
              CompletedIsVerified, CutoverIsFinal, CopyIsEarlier, Alone, Importing, Wanted
<1> QED
  BY <1>1, PreparingKeeps, ImportKeeps, PauseKeeps, VerifyKeeps, CutoverKeeps, RollbackKeeps,
     CrashKeeps DEF Next

(* Every reachable state has the declared shape; no job is resumed into a  *)
(* stage that ends it.                                                     *)
THEOREM TypeCorrect == Spec => []TypeOK
<1>1. IndInv => TypeOK
  BY DEF IndInv
<1> QED
  BY <1>1, InitInv, NextInv, PTL DEF Spec

(* A resumed import never skips an item that the target lacks, whatever    *)
(* ran beside it or stopped it.                                            *)
THEOREM LedgerHolds == Spec => []LedgerTruthful
<1>1. IndInv => LedgerTruthful
  BY DEF IndInv, LedgersTruthful
<1> QED
  BY <1>1, InitInv, NextInv, PTL DEF Spec

(* A cutover takes every item that the decisions keep and verification     *)
(* sees.                                                                   *)
THEOREM CutoverHolds == Spec => []CutoverTakesTheImport
<1>1. IndInv => CutoverTakesTheImport
  BY DEF IndInv, CutoverIsFinal, CompletedIsVerified, CutoverTakesTheImport
<1> QED
  BY <1>1, InitInv, NextInv, PTL DEF Spec
=============================================================================
