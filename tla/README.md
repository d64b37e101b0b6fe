# Verification of the Story Runtime and the InkOS writing path

TLA+ models, TLC configurations and TLAPS proofs for the two programs of this
repository that decide what a story *is*: the Python Story Runtime
(`src/hybrid/story-runtime/src/story_runtime/`, written `story_runtime/` below),
which owns the authority database, and the part of the TypeScript InkOS
(`src/inkos/packages/`) that writes chapters and hands them to it.

## 1. The system

InkOS writes chapters with language-model agents and hands each finished chapter
to the Runtime over HTTP. The Runtime keeps everything in one SQLite database, in
autocommit mode; writers open `BEGIN IMMEDIATE`, so SQLite serialises them. A
chapter passes `prepare`, `validate` and `commit`; the commit appends events,
reduces them into projections, publishes an immutable revision manifest, moves the
project's revision and enqueues side effects, all in one transaction. A worker
executes the side effects later. Operators may append events, replay projections,
recover a commit, retry or clear side effects. On the InkOS side a chapter is
asked for by the daemon's scheduler, by Studio, by the CLI or by an agent's turn;
each call takes the lock of the book, reads the Runtime's status, writes and
reviews a text, and persists it. The agent's turns are recorded in a transcript.

| Component | State | Operations | Interacts with | What makes it correct |
| --- | --- | --- | --- | --- |
| Chapter commit service (`chapter_commits.py`) | `projects`, `chapter_commits`, `commit_transitions`, `story_events`, six projections, checkpoints, `idempotency_ledger`, `replay_jobs` | create, prepare, validate, commit, append / typed diff, recover (two transactions), replay | allocator (inside its transaction), outbox (rows) | one finalized commit per chapter, in order; a key buys one revision; terminal commits never change; projections are those of the log |
| Revision allocator (`revision_manifests.py`) | `project_revisions`, `projects.revision` | execute, bootstrap boundary, initial manifest | called by the service and by cutover | one gapless chain with one root; manifests list exactly the log |
| Outbox worker (`outbox.py`) | `outbox`, Markdown files, search documents, snapshot files | run: claim, execute, finish | rows enqueued by the service; reads finalized chapters | one executor per row; done means visible; everything is delivered in the end |
| Studio recovery (`observability.py`) | `recovery_jobs`, `recovery_audit` | preview, execute, cancel; six operations on the tables above | writes commit rows by itself, runs the worker | legal edges, no revival |
| Review service (`reviews.py`) | artifacts, findings, decisions, `review_operations` | validate, decide, validate revision | gate in `commit()` | no commit past a blocking or stale review |
| Legacy import (`migration_jobs.py`) | `migration_jobs`, import ledger, target rows, snapshot file | create, scan, decide, snapshot, import, verify, pause, resume, cutover, rollback | bootstrap manifest at cutover; driven by the wizard of the Studio | every item once; a ledger that claims nothing missing; nothing handed over that was not verified; an import that ends |
| Read side, doctor, snapshots, API, CLI | none of their own, or files | queries, copies | read everything | section 8 |
| InkOS book lock (`state/manager.ts`) | lock file, slot per process, heartbeats | acquire, refresh, take over, release | every writer of a book | exclusion; a dead writer's lock goes away |
| InkOS writing pipeline (`pipeline/runner.ts`, `chapter-review-cycle.ts`) | local variables of `writeNextChapter` | lock, read, assemble, write, review, persist | lock, Runtime, agents | the call does what it reports, and nothing else |
| InkOS persistence port (`chapter-persistence-port.ts`) | local variables of `persist()` | status, reviews, prepare, validate, commit, one retry | Runtime client | a text lands once, under its own number |
| InkOS scheduler (`pipeline/scheduler.ts`) | cycle in flight, daily count, failure counts, paused books | start, stop, tick, write cycle, retry, pause, resume | pipeline; Studio's daemon routes | cap and pause respected, stop takes effect |
| InkOS agent sessions (`agent/agent-session.ts`, `interaction/session-transcript*.ts`) | transcript file, cached agent, queue of turns | turn, posted request, create, evict, delete, restore | Studio routes | order, wholeness, no memory of failed turns |
| InkOS sidecar manager (`story-runtime/process-manager.ts`) | child, pid file, timers, restart count | start, handshake, exit, restart, stop | the Runtime process | section 8 |
| InkOS local projections, play, film, translation, pages | files, React state | section 8 | | |

The behaviours that are hard: lifecycles of one chapter racing each other and
operator appends; requests with a stale base revision; commits that are answered
late, never, or executed after their caller gave up; the gap between the two
transactions of `recover()`; a worker stopping between claim and finish; partial
replays; Studio writing beside the service; projects older than manifests; a lock
file that is read, compared and unlinked in separate steps; loops that sleep
through a stop or a pause; several writers appending to one transcript while
processes restart. `PROJECT.json` lists each at its line with the properties that
cover it, or why none does.

## 2. Modules

| Module | Contents |
| --- | --- |
| `ChapterCommit`, `MCChapterCommit` | commit service and allocator for one project: state, one action per operation, properties, inductive invariant, refinement mapping |
| `StoryLedger` | what the service promises: a book that only gains its next chapter, a history in which every key appears at most once |
| `ChapterCommitSafety`, `ChapterCommitLog` | types, manifests, commits, keys and chapter order; on top of it event log, audit trail, finality, that the service implements `StoryLedger`, side effects, retried answers, and the projections where chapters alone write |
| `Outbox`, `MCOutbox`, `OutboxProofs` | the worker over the rows the writers enqueue, and Studio's two operations on them |
| `MigrationJob`, `MCMigration`, `MigrationProofs` | one import job on one target: the job row, the ledger, the target, the snapshot file, an import and a rollback in flight |
| `BookLock`, `MCBookLock`, `BookLockProofs` | the lock of one book: slots of the processes, lock file, writers, crashes |
| `WriteCall` | what a caller of `writeNextChapter` may count on |
| `ReviewCycle` | the review cycle as a function of what the auditor says of each version |
| `ChapterPipeline`, `MCPipeline` | the call from the lock to the answer of the Runtime; EXTENDS `ReviewCycle`; implements `WriteCall` |
| `ChapterPipelineProofs` | where texts land and what is reported; the refinement; what a review keeps |
| `Scheduler`, `MCScheduler`, `SchedulerProofs` | the daemon and interactive callers; EXTENDS `WriteCall`, so it is composed with the promise that the pipeline is shown to keep |
| `AgentSession`, `MCSession`, `AgentSessionProofs` | one agent session: transcript, cached agent, turns, posts, restarts |

### ChapterCommit

| Action | Code |
| --- | --- |
| `CreateProject` | `create_project` with `create_initial_manifest` |
| `Prepare`, `ValidateAccept`, `ValidateReject` | `prepare`; `validate` without and with blocking issues |
| `Commit` = `FinalizeChapter` | the transaction of `commit`, with `Allocate` and `Boundary` for the allocator's `execute` and `_ensure_lineage` |
| `AppendOperatorEvents` | `append_operator_events`, and `apply_typed_diff`, which ends in it |
| `RecoverAbort`, `RecoverReset`, `RecoverResume`, `RecoverGiveUp` | `recover`: abort; first transaction; the commit of the second; the second refused or answered from the row |
| `StudioAbort` | `abort_prepared_commit` of Studio |
| `ReplayVerify`, `ReplayApply` | `replay`, with and without `verify_only` (Studio's `replay_core_projection` is the second) |
| `Crash` | the process stops between the two transactions of `recover` |

A request that the code refuses or answers from what is stored rolls back, and is
a stuttering step. The states inside a transaction (PERSISTING, COMMITTED,
PROJECTING) appear in the audit trail only, as in the code: `Walk` appends the
four edges of a commit at once after checking each against `Allowed`.

A key stands for the idempotency key and for the commit id derived from it. A
payload is a model value with the set of projections its events touch, at most one
event each. A projection is the set of rows its events reduce to; upserts of the
same aggregate are a function of the same events in the same order, so two equal
sets of events reduce to equal tables, and the only thing a reducer adds is the
chapter it derives when the payload does not state it (`SilentAbout`, from
`ChapterDerived` and `Silent`): the port sends such payloads when it resolves or
defers a thread (`chapter-persistence-port.ts:118-124`). A sha256 over tables is the
content of the tables. Sequence bounds of a replay are bounds on the revision of the
events. Whether validation passes is a free choice for every payload. The initial
states are the origins a project has: absent; created before the manifest migration
and still unwritten; imported before it; cut over since, with its bootstrap
manifest. An import is represented by its projection rows; imports that bring
finalized chapters are left out.

### Outbox

`Run`, `Claim`, `Execute` / `ReadProject` / `WriteSnapshot` / `ExecuteRaises`,
`Finish` and `Return` are the steps of one call of `run`; `calls` holds its local
variables. `Faults` is a refusal of the file system or of SQLite that the handler of
`run` catches, also when it hits `_finish(.., "done", ..)`. `Crash` is the process
stopping, or an error that leaves `run`. The writers are reduced to the rows they
enqueue and the counters the worker reads. A deleted row is kept with status
`cleared` so that row numbers stay. An operator's row names no chapter, so it fails
each time it is executed, and each rerun starts again at the first row that is
claimable: `Starved` says when a row lies behind as many of these as a call may
claim.

### MigrationJob

| Action | Code (`migration_jobs.py`, class `LegacyMigrationService`) |
| --- | --- |
| `Scan`, `Decide`, `Snapshot` | `scan` from its first stage check to its last `_update`; `decide` for all open conflicts; `snapshot` with `_create_verified_snapshot` |
| `ImportBegin`, `ImportStart` | `import_job`: the checks on the row it read; the `_update` to IMPORTING |
| `ImportBatch`, `ImportLook` | the loop of `_import_cir`: one transaction for target, rows and ledger; the look at the stage after it |
| `ImportLookAgain`, `ImportEnd`, `ImportFails` | `import_job` after the loop: the second look, VERIFYING, or the handler that writes FAILED |
| `Pause`, `Resume` | `pause`, `resume` with `resume_stage` |
| `Verify`, `Cutover` | `verify` with the replay over the snapshot; `cutover` |
| `RollbackBegin`, `RollbackRemove` / `RollbackRestore`, `RollbackMark` | `rollback`: its checks; the deletion of a new target with its ledger, or the copy of the whole database back over itself, the job's row included; the `_update` to ROLLED_BACK |
| `Crash` | the process stops with requests in flight |

An item is a number in the order of import, and a target is the set of items its
tables show; item 0 is what it held before the job. `_import_item` inserts rows
that exist already without effect, so sets say enough; two items that share a key in
the target (`migration_jobs.py:880-903`), of which the second would be lost, are
left out. `Disputed` items hang on a
blocking conflict, which a decision may settle by leaving them out, and a decision
may be changed while the job is READY. `Checked` are the items that verification
sees: `projection_hash` and the coverage of bodies look at projections and
chapters, and at no retrieval document, review or imported event. `_update` writes
a stage whatever the row has become since it was read, as the code does. The
client is the wizard: `Alone` is its rule that the next request waits for the one
before, and that an import goes on in the background with only a pause or a
rollback beside it. `scan` writes three more stages on its way; a stop between
them leaves a stage from which only `scan` goes on, as from DISCOVERED, so the
model starts `scan` and ends it in one step.

### BookLock

| Action | Code (`state/manager.ts`) |
| --- | --- |
| `Acquire` | the synchronous part of `acquireBookLock`: the slot in `processBookLocks` is looked at and reserved |
| `CreateFile`, `WriteMetadata`, `WriteFails` | `open(.., "wx")`, the write, its failure with the removal of the file and of the slot |
| `ReadLock`, `CompareLock`, `RemoveStale` | the read of an existing file with `isStaleLock`; `removeStaleLock`: read again and compare, unlink |
| `TryAgain`, `Fail` | the loop over attempts; `BookWriteLockError` |
| `Heartbeat`, `LeaseRunsOut` | `startLockHeartbeat`; a heartbeat that did not run for a lease |
| `Release`, `CheckOwner`, `UnlinkOwn` | the returned release function |
| `Crash`, `Start` | the process |

Each `await` ends a step. A file is known by the token of the acquisition that
made it. Reading and comparing use the text of the file, which a heartbeat changes:
a heartbeat therefore clears what others have `seen`. The heartbeat's own read and
write are one step. The pid of a stopped process is not given to another program.

### ReviewCycle, ChapterPipeline, WriteCall

`ReviewCycle` takes the whole chain of assessments at once: `Assessed`, `Current`,
`Best`, `Restores` and `Final` are the loop, its result, the reduce over the
snapshots and `shouldRestoreBestSnapshot`. `Outcomes` is what they can yield over
every chain; the pipeline picks one per text.

| Action | Code (`runner.ts`, `chapter-persistence-port.ts`) |
| --- | --- |
| `TakeLock`, `Returns` | `writeNextChapter`: the lock, and its release in `finally` |
| `ReadStatus`, `AssembleContext` | the status that fixes chapter and revision; the requests that expect this revision |
| `WriteDraft`, `WriteFails` | writer and review cycle; an error or an abort |
| `ValidateRevision` | a revised text is shown to the Runtime under the bound revision |
| `BindPersistence`, `ValidateReviews`, `Prepare`, `Validate` | `persist` up to the commit |
| `CommitChapter`, `CommitUnanswered`, `ExecuteLate` | the commit answered; unanswered (executed, still on its way, or lost) with the one resend; executed when nobody waits any more |
| `RequestFails` | any other request without an answer |
| `InteractiveCall`, `OperatorEdit` | a caller; another client of the Runtime |

The Runtime appears as what `ChapterCommit` shows it to be: a sequence of finalized
chapters, a revision, and keys answered once. A text stands for its idempotency
key, which the port derives from book, chapter and text. The book lock appears as
the slot of the process (`OneWriterPerProcess` of `BookLock`).

`WriteCall` keeps of all this four states of a call and the books. A call may
publish before it returns, may return without having been seen to publish, may
throw although its text was or is being finalized, and a commit may surface after
its caller was told of a failure.

### Scheduler

| Action | Code (`pipeline/scheduler.ts`) |
| --- | --- |
| `Start`, `Stop`, `Tick` | `start`, `stop`, `triggerWriteCycle` from the interval |
| `ListBooks`, `ListingFails` | `runWriteCycle`: active books that are not paused, up to the number of concurrent ones; an unreadable book |
| `LeaveLoop`, `BeginChapter`, `CoolDown`, `WakeUp` | the loop of `processBook` with its cooldown |
| `ChapterReady`, `ChapterFailed` | `writeOneChapter` after its call ended, and `handleAuditFailure` up to its first await |
| `Judge` | `handleAuditFailure` after the alerts, which pauses the book if the number it counted (`n`) is past the gate; it then awaits the notifications |
| `BackOff` | back in `processBook`, where the counter is read again and decides on the one retry |
| `CycleEnds` | the promise of the cycle settles; `start` sets its timers |
| `ResumeBook`, `Midnight` | `resumeBook`, which anyone may call for any book at any moment, paused or not; the date |
| `CallStep`, `InteractiveCall` | `WriteCall` |

Time is abstracted: an interval, a cooldown and a backoff may end at any moment.

### AgentSession

`Ask`, `Begin`, `Compare`, `Restore`, `ReadSequence` are `runAgentSession` up to
the request; `BeginAppend` / `EndAppend` are an append in two steps (read and
number; write), for a turn and for the routes of Studio alike, and the turn's
bookkeeping (cache, last committed seq, queue) goes with the append it awaited.
`FailAppend` is an append that rejects (a full disk, a missing directory) with any
part of its lines written, the last one whole or torn; `FailsTo` says where its job
goes on: a turn whose message or commit cannot be written reaches the `catch` of
`runAgentSessionUnlocked`, which appends `request_failed` once more, and when that
fails too the turn ends `unrecorded` and leaves the agent in the cache, since
`agentCache.delete` is not reached. `Restart` stops the process with any prefix of
the append in progress written. The next append glues its first event to a torn
line, and neither can be read.
A request's messages are one event. The memory of the agent gains a message before
its append, as the listener of the agent library is awaited after the message was
taken. An append that is cut exactly before its last newline, or that rejects
although all of it was written, is not among the leftovers. Reads of the transcript
are taken to succeed: `readTranscriptEvents` makes an empty transcript of any error
of a read (`session-transcript.ts:28-32`), after which an append would number from
1 again.

## 3. Properties

| Module | Properties |
| --- | --- |
| `ChapterCommit` | `ManifestChain`, `CommitMatchesManifest`, `ChaptersContiguous`, `LogMatchesManifests`, `KeysSpentOnce`, `OutboxMatchesManifests`, `AuditTrailLegal`, `RetryReturnsCounts`; where only chapters write and replays cover the whole log, `StateMatchesManifest`, `ProjectionFollowsLog`, `CheckpointsTruthful` (all three up to the chapters that no payload states) and `ReplayAgrees`; action property `FinalizedIsFinal`; refinement `ImplementsLedger` |
| `Outbox` | `OneHolder`, `DoneMeansVisible`, `SnapshotListsItsChapters`; liveness `ChapterEffectsSettle` |
| `MigrationJob` | `LedgerTruthful`, `CutoverTakesTheImport`; liveness `ImportCompletes` |
| `BookLock` | `OneWriterPerProcess`, `HolderOwnsFile`; liveness `DeadLocksRecover` |
| `ChapterPipeline` | `DraftsLandWhereWritten`, `ReportedMeansFinalized`, `KeepsUnbeatenVersion`; liveness `BookComesFree`; refinement `ImplementsWriteCall` |
| `Scheduler` | `DailyCapBounded`, `CountedMeansFinalized`, `OneLoopPerBook`, `StopsSoon`, `PausesInTime`; action property `PausedBooksRest` |
| `AgentSession` | `TypeOK`; `TranscriptInOrder`, `CommittedIsWhole`, `NoFailedMemory`; liveness `TurnsEnd` |

The shape of the state is `TypeOK`, or `Shapes` in the proof modules of the pipeline
and the scheduler. It is a theorem (section 6), and only `session` checks it as
well, where it says of each running turn that it heads the queue.

What some of them say is weaker than one would wish, because the code is:
`HolderOwnsFile` holds until a stale file is judged (`recovered`) and no longer,
since the take-over compares and unlinks in two steps; `DailyCapBounded` allows an
overshoot below the number of concurrent books; `StopsSoon` allows a chapter and
its retry after `stop()`; `CommittedIsWhole` excludes deletes, because an append in
progress outlives them; `KeepsUnbeatenVersion` speaks of range and score and not of
the audit's verdict, which no comparison of the cycle looks at;
`PausedBooksRest` excepts the retry of a loop whose book was resumed while its
failure was being judged; `ChapterEffectsSettle` excuses a row that stays behind as
many undeliverable operator rows as a rerun claims; `NoFailedMemory` excepts a
failure that could not itself be recorded, and `CommittedIsWhole` a line that
another append that failed has torn; `ReplayAgrees` allows a mismatch if the log
has an event that leaves its chapter to the reducer; section 5 describes each.
`CutoverTakesTheImport` is about the items that verification sees, and
`ImportCompletes` excuses a job whose target is being rolled back or is a Runtime
project, and one whose decisions were changed to leave out what was already
imported, since nothing takes an imported item away again and verification then
fails for ever.

## 4. Runs and bounds

| Run | Instance | States | Shows |
| --- | --- | --- | --- |
| `chapter_only` | 3 commit keys, 2 payloads, one of them silent, 3 revisions, 1 replay job; native project | 147,151 | three lifecycles race for the same chapters, with aborts, recovery, crashes and full replays |
| `mixed` | 2 commit keys, one of them also offered to operator appends; 1 diff; partial replays; all four origins; 4 revisions | 204,191 | what must survive recovery and key reuse, whatever the projections show |
| `outbox_safety` | 2 calls, 2 chapters, 1 append, limit 2, 1 mishap | 965,193 | concurrent claims, torn reads, crashes |
| `outbox_delivery` | 2 calls, 1 chapter, 2 appends, limit 2, 1 mishap | 299,379 | delivery under fairness, and when rows starve |
| `book_lock` | 2 writers in one process, 1 in another, 7 tokens, 2 attempts, 1 mishap | 122,828 | exclusion and recovery of the lock |
| `pipeline` | 1 book, 2 callers, 3 calls, 3 texts, 4 scores, 2 repairs, 1 edit, 2 faults | 321,376 | late and lost commits, conflicts, two callers |
| `scheduler` | 2 books, the daemon and 1 other caller; cap 1, 2 chapters a cycle, 2 retries, gate 3 | 3,482,695 | parallel loops, stop, pause, resume, date |
| `session` | 2 turns, 1 post or creation, 2 failed appends, deletes or restarts | 586,342 | the transcript and the memory of the agent |
| `migration` | 3 items, 1 disputed, 1 not seen by verification besides it, batches of 2, all three targets, 2 snapshots, 2 mishaps | 91,907 | batches against pauses, stops and rollbacks |
| `recover_operator`, `book_lock_race`, `migration_resnapshot` | the smallest instance that shows each | | section 5 |

Why these bounds let the interesting cases happen. `ChapterCommit`: two payloads
tell whose events a row came from; two keys race for a chapter and a third goes on
to the next one; three revisions let a commit prepared at one revision be finalized
two revisions later; a key in both `CommitKeys` and `OperatorKeys` is reused across
operations; the bounds `<<0, 1>>` cut the log in the middle; `MaxRevision` bounds
the run. `Outbox`: a limit of 2 is smaller than the three rows of a chapter, so
calls stop half way, and two appends are as many rows as a call claims, so that the
rows of a chapter may come before, between or behind them; `MaxMishaps` bounds
faults, crashes and Studio jobs together. `BookLock`: two writers of one process and
one of another are the smallest set in which slot and file matter separately; a
token can be used again once nobody knows it, so seven are never used up; two
attempts are enough to lose a race and win the next (four in the code); `MaxMishaps`
bounds crashes, stalls and failed writes. `ChapterPipeline`: three texts let one
chapter be written twice and another follow; the scores 0, 84, 86, 90 lie below the
pass mark, one and two epsilons apart, and two repairs (`MaxReviewIterations`) make
chains of three; two faults exhaust the resend of a commit; one edit suffices for
each stale revision; `MaxDrafts`, `MaxCalls`, `MaxEdits` and `MaxFaults` name the
bounds. `Scheduler`: two concurrent books reach the overshoot of the cap; two
retries and a gate of three are the defaults of the code (`maxAuditRetries`,
`pauseAfterConsecutiveFailures`) and let a book fail in a first call, in its retry
and in the next cycle before it is paused; one event is enough to resume it between
the count and the pause; `MaxChapters`, `MaxCalls` and `MaxEvents` bound chapters,
interactive calls, and resumes with changes of the date. `MigrationJob`: two batches
are the fewest with something between them, and whether the disputed item is dropped
moves their boundary; one of the items is a document and one a chapter; two
snapshots let the second overwrite the first; `MaxMishaps` bounds pauses, failed
batches and stops together, and two of them let a job be paused while paused, or
stop after a failure. `AgentSession`: two turns queue, the second finding the
first's agent; a post or a creation (`MaxCalls`) comes at any moment; two mishaps
(`MaxMishaps`) are the fewest in which the append of a failure fails after the
append that made the turn fail, and let a delete, a restart or a failed append
follow any other of them.

`outbox_safety` uses symmetry of the worker calls and `scheduler` of the books; no
liveness is checked in either. `CHECK_DEADLOCK FALSE` is set where the system may
stop: every key used (`ChapterCommit`), calls or texts used up (`pipeline`), a
stopped daemon (`scheduler`), every turn ended (`session`), a job cut over
(`migration`). The runs of `Outbox`
and `BookLock` check deadlock.

Fairness. `outbox_delivery`: a call of `run` that has started goes on (weak fairness
per call: a Python loop), and an operator reruns the worker with `retry_failed`, its
default, again and again, as `failure-recovery.md:16-17` tells them (strong
fairness: a call may be refused while others run). `book_lock`: Node runs what is
ready and file operations end (weak fairness of a writer's steps), writers keep
asking for the book, and a stopped process is started again. `pipeline`: weak
fairness of a call's steps, because requests and model calls have timeouts.
`session`: weak fairness of a turn's steps and of appends: every awaited promise is
taken to settle. For model calls this rests on the client of the agent library, as
`agent-session.ts` sets no timeout of its own. `migration`: weak fairness of an
import and of a rollback in flight (Python loops that go on); an operator whose job
is not finished sends again and again each request that the job waits for: strong
fairness of scan, decide, snapshot, resume, import and verify, since a pause may
disable any of them for a while. Nobody has to pause, cut over or roll back. Nothing
is assumed about crashes, faults, operators or interactive callers.

## 5. Where the code and its documents differ

Each of these is a run that TLC ends with a counterexample; `PROJECT.json` quotes
the lines.

- `recover_operator`: recovering any commit rebuilds the projections from chapter
  events alone; operator events vanish from them while the manifest of the same
  revision attests them.
- `book_lock_race`: a release vacates the slot of its process before it unlinks the
  file by name, so a second writer of the process takes the file for an orphan,
  and the first one's unlink then removes the lock of the second.
- `migration_resnapshot`: a job that failed after its first batch can be scanned and
  copied again; the copy overwrites the one from before the import, and a rollback
  would restore what it should take away.

Met while modelling and visible in the modules, without a run of their own:

- A call of the worker starts at the lowest row (`outbox.py:26-31`), a rerun claims
  failed rows again (53-61), and an operator's row always fails: behind as many of
  them as `limit` (100 by default) the rows of chapters are never delivered, though
  the worker is rerun as `failure-recovery.md:16-17` says (`Starved`). Clearing
  the queue lets them through.
- A row that a stopped worker leaves in `processing` is not pending, not failed and
  not claimed by any rerun (`outbox.py:52-69`; `failure-recovery.md:16-17` has the
  operator rerun the worker): the `Orphaned` of `ChapterEffectsSettle`.
- `persist` reads the status anew (`chapter-persistence-port.ts:52`), so a chapter
  can be committed under a revision at which its context was never read
  (`rc-1/writer-revision-binding.md:17-18` speaks of one expected revision).
- A batch of an import commits its ledger and, in a second transaction, its
  checkpoint (`migration_jobs.py:868-872`; `phase-7-implementation.md:25` has them
  commit together); an import resumes from the ledger alone.
- A rollback restores the whole database file (`migration_jobs.py:981-991`), so it
  takes back what any other project wrote since the snapshot; and beside an import
  in flight it may be followed by a batch that creates the target again and by
  VERIFYING over ROLLED_BACK.
- The retry of a finalized commit answers with the projection hash of now
  (`chapter_commits.py:895-897`).
- Commit hands the reducer the stored event without its chapter
  (`chapter_commits.py:755-763`), a replay and the rebuild of `recover()` hand it the
  row (401, 788). A payload that does not state the chapter, as the port's
  `thread.resolve` and `thread.defer` do not (`chapter-persistence-port.ts:118-124`),
  gets another `introduced_chapter` from each, at an unchanged revision: the hash of
  the manifest or of a checkpoint is then no longer that of the tables, and a whole
  replay that is compared with `expected_hash` ends in MISMATCH.
- Studio's retry of one outbox item executes the lowest retryable row
  (`observability.py:505-515`).
- A lock file left empty by a crash between open and write has neither pid nor
  lease and is never stale (`manager.ts:289-300`).
- `start()` sets its timers after the first cycle even if `stop()` was called
  meanwhile (`scheduler.ts:83-94`); the cap restarts with every `Scheduler` built
  (`server.ts:4034`); a retry after a failed audit writes the next chapter, as the
  audited one is finalized; `BOOK_BUSY` counts as an audit failure; one unreadable
  `book.json` rejects the whole cycle (`scheduler.ts:189`).
- `resumeBook` while `handleAuditFailure` awaits the alerts (`scheduler.ts:316`)
  clears the counter; the handler then pauses the book by the number it counted
  (330), and the loop reads the counter again (218), finds 0 and writes one chapter of
  the paused book. The CLI and Studio's daemon routes do not call `resumeBook`.
- When `request_failed` cannot be appended (`agent-session.ts:1183-1194`), its turn
  stays in the memory of the cached agent, whose `lastCommittedSeq` is still the
  transcript's, and the next turn builds on it.
- A failed append can leave a torn line (`session-transcript.ts:79-89`), to which the
  next append of the process glues its first event; a message or a commit of a turn
  can so be lost by the failure of an append that is not its own.
- A turn ends by setting `lastCommittedSeq` to its own seq
  (`agent-session.ts:1181`); a request posted during the turn is then never noticed
  by the cached agent.

`recover_operator` and the rows of an import explain the constants of
`chapter_only`: no operator keys, no imported origins, and bounds that cover the
whole log. The payload `a1` is silent about its chapter, and the properties of the
projections compare rows without the chapters that no payload states (`Stated`).
`mixed` has operators, imports and partial replays, and checks what is still true.

## 6. What is proved

TLAPS proves, for every value of the constants that satisfies the assumptions of
the modules (`InputsAssumption`, `OutboxAssumption`, `BookLockAssumption`,
`ReviewAssumption`, `PipelineAssumption`, `SchedulerAssumption`,
`SessionAssumption`, `MigrationAssumption`):

| Module | Theorem | Property |
| --- | --- | --- |
| `ChapterCommitSafety` | `TypeCorrect`, `ChainHolds`, `CommitsMatch`, `KeysOnce`, `ChaptersInOrder` | `TypeOK`, `ManifestChain`, `CommitMatchesManifest`, `KeysSpentOnce`, `ChaptersContiguous` |
| `ChapterCommitLog` | `LogMatches`, `TrailLegal`, `FinalityHolds`, `Refinement` | `LogMatchesManifests`, `AuditTrailLegal`, `FinalizedIsFinal`, `ImplementsLedger` |
| | `OutboxMatches`, `RetriesAgree` | `OutboxMatchesManifests`, `RetryReturnsCounts` |
| | under `ChapterOnly`: `ManifestAttestsState`, `RowsFollowLog`, `CheckpointsHold`, `ReplaysAgree` | `StateMatchesManifest`, `ProjectionFollowsLog`, `CheckpointsTruthful`, `ReplayAgrees` |
| `OutboxProofs` | `HoldersExclude`, `DoneIsVisible`, `SnapshotsListChapters` | `OneHolder`, `DoneMeansVisible`, `SnapshotListsItsChapters` |
| `BookLockProofs` | `TypeCorrect`, `Exclusion`, `HoldersFile` | `TypeOK`, `OneWriterPerProcess`, `HolderOwnsFile` |
| `ChapterPipelineProofs` | `LandsWhereWritten`, `ReportsWhatIsFinalized`, `KeepsUnbeaten`, `Refinement` | `DraftsLandWhereWritten`, `ReportedMeansFinalized`, `KeepsUnbeatenVersion`, `ImplementsWriteCall` |
| `SchedulerProofs` | `CapHolds`, `CountIsEarned`, `LoopsExclude`, `StopIsSoon`, `PauseIsInTime`, `PausedRest` | `DailyCapBounded`, `CountedMeansFinalized`, `OneLoopPerBook`, `StopsSoon`, `PausesInTime`, `PausedBooksRest` |
| `AgentSessionProofs` | `Typing`, `TranscriptOrder`, `WholeRequests`, `Memory` | `TypeOK`, `TranscriptInOrder`, `CommittedIsWhole`, `NoFailedMemory` |
| `MigrationProofs` | `TypeCorrect`, `LedgerHolds`, `CutoverHolds` | `TypeOK`, `LedgerTruthful`, `CutoverTakesTheImport` |

None of them is inductive alone.

*Commit service.* `IndInv` stacks three layers, each inductive with the ones above
it. `TypeInv` adds to the types that an artifact is stored from validation on,
without which the manifest of a recovered commit would have no type. `HistoryInv`
adds that an absent project has no history, that the ledger knows the key of every
commit and manifest (so the key of a live commit is unspent) and that live commits
are for chapters up to `latest + 1`; the last two are what makes "publish" extend
the chain, the chapters and the keys at once. `PublishChain` does the chain for
both kinds of command and both shapes of the lineage (root present, or bootstrap
first, which may jump from 0 to 1); `FinalizeEffect` and `AppendEffect` say what a
command changes, and every other action leaves the history alone (`QuietStep`).
The third layer adds the log with `EventsHaveTheirSource`: a key may serve a
lifecycle only or an append only, so the events recovery deletes belong to no
manifest. The refinement uses `HistoryInv` to show that the book, read off the
finalized commits, gains exactly its last chapter. `OutboxMatchesManifests` is
inductive on top of it, and the answer to a retry agrees with the manifest because
the events a finalized commit owns are those its manifest lists (`OwnedAreListed`).

*Projections.* Their four properties hold only under conditions on the constants,
`ChapterOnly`, each of which the code needs: `ChaptersAlone` (no operator keys and
no imported origin: `recover_operator` shows what recovery makes of operator
events, and the rows of an import are in no log) and `WholeReplays` (a replay that
is cut stores what the cut log reduces to). Nothing is assumed of the payloads: the
properties speak of `Stated` rows, that is of rows without the chapter that the
event leaves to the reducer. `ChapterOnly.cfg` satisfies both conditions, `Mixed.cfg`
neither. Then `ProjectionInv`, the four together with "no command was published",
is inductive: a row states what its event does, whichever path wrote it
(`StatedReduce`, `StatedApply`), and reducing a log in two parts is reducing it at
once (`ReduceInParts`), so a commit, a recovery and a replay of the whole log arrive
at the same stated rows, and a checkpoint or a hash taken before is of rows
that have not changed since, or is not at the head any more. `ReplayAgrees` speaks
of whole rows: where no event is silent, stated rows are the rows (`NothingDerived`),
so a replay that mismatches has found an event that is.

*Book lock.* `IndInv` adds `SlotNamesOwner` (the slot of a process holds the token
of every writer between reservation and release, so two of them would share a
token) and `TokensDiffer` (writers at work have different tokens). `FileInv` says
that, until a stale file is judged, nobody takes a file over, and each writer that
has made a file, or has just checked it, finds its own in place.

*Outbox worker.* `IndInv` adds to the shapes `RowsExist` (a busy call has a row),
`ReadsAreRecent` (what a call read of the project is at least as new as the row it
serves and counts no more than the chapters there are) and `EffectsAreVisible` (a
call that succeeded has made the effect of its row visible). `RowsChange` then
carries all parts past every change of the rows, of whose numbers `LeastRow` shows
that the first claimable one exists.

*Pipeline.* `DataInv` adds `OwnDrafts` (a call between writing and answering holds
a text of its own, for the chapter it read) and `InPlace` (finalized texts carry
the number of their position); a text that is sent again or executed late can then
only be refused, answered from what is stored, or appended in its place. The
refinement needs `LockInv`, that a call past the lock is the one the lock names, so
that no two calls of a book are writing; `SeenIs` and `ChaptersAre` compute the
mapped state, and one lemma per action gives the step of `WriteCall` or the
stutter it is.

*Review.* `KeepsUnbeatenVersion` is about a function of a chain of any length, not
about steps. That the recursive reduce over the snapshots exists and equals its
equation (`ReduceExists`, `BestReduces`), that the loop stops where it says
(`AssessedIs`), that while it goes on the scores rise by an epsilon each time
(`ScoresRise`), and that the reduce then tops every version before (`ReduceTops`),
are each shown by the least place where the claim would fail (`LeastNumber`, from
`WFMin`), which does the work of an induction. The rising scores are what the
property hangs on: the cycle keeps its last version unless the best one clearly
wins over it, and in a chain that falls a third version, less than an epsilon above
the best, could win over the one that is kept. `KeptUnbeaten` goes through the two
versions that may be kept.

*Scheduler.* `CapInv` counts: `count` plus the number of loops that are past the
check of the cap and may still count a chapter stays below the cap plus the
concurrent books, and only as many loops exist as the cycle listed. `Shapes` and
`OneLoopPerBook` say which calls belong to which loops; `Fresh` that nothing runs
before `Start`, so that a cycle is only listed when no loop runs. `StopInv` gives
each place of a loop an allowance of chapters begun since `Stop`: none while
cooling down, one up to the retry, two after it. `GateInv` says that the number a
loop judges is the one it counted, or the counter was cleared since; that the loop
which pauses a book has more failures than are retried or none at all; and that in
the second case it makes at most its retry. `CountInv` gives each chapter
that is counted, or owed to a loop that will count it, a finalized text of the
daemon of its own: the sets `Owed` and `CreditOf` change by one element together,
and nothing that is finalized goes away.

*Agent session.* `IInv` has four layers. `ShapeInv` says what a job that appends
has numbered (`BatchInv`), that a running turn heads the queue and that one which
waits is in it. `OrderInv` says that one append runs at a time (`OneAppend`), that
what it has numbered is still beyond the transcript when it is written, though a
delete came in between (`FreshSeqs`), and that a session being created was not
created before. `WholeInv` says that a turn which ends finds its messages in the
transcript, because the line before them was whole: after a torn line they would
have been glued to it, and the commit would stand alone. `SeqInv` says
that the seq of the agent is at most one beyond the transcript, so that a posted
commit, the third event of its request, always gets a larger one. `MemoryInv` says
of the agent of a turn from its comparison on that each request it knows is `Good`:
not recorded as failed, and committed in the transcript unless there was a delete or
its failure could not be recorded; and of the cached agent between turns that it is
so or `Stale`: the line of its own last commit was lost by a torn one, its seq is no
commit's, by `SeqInv` never will be, and the next turn builds another agent.
What writing does to a transcript is in lemmas about the
operators (`WrittenGlues`, `GlueKeeps`, `GlueOrders`, `GlueEnds`, `LeftoverShape`):
any prefix of a batch, its last line whole or torn, after a whole or a torn line.

*Import job.* `IndInv` adds to the types `LedgersTruthful` (the ledger of the
snapshot file lists nothing that its rows lack either, or a restore would bring a
lie back), `CompletedIsVerified` (a COMPLETED job has no import in flight, and its
target, unless a rollback has removed it, shows what verification saw),
`CutoverIsFinal` (after cutover neither an import nor a rollback is in flight or can
begin) and `CopyIsEarlier` (the snapshot file remembers a job before its cutover and
not COMPLETED, so that a restore opens no way around verification).

Every invariant, action property and refinement that a passing run checks is a
theorem. Only model-checked are the liveness properties `ChapterEffectsSettle`,
`DeadLocksRecover`, `BookComesFree`, `ImportCompletes` and `TurnsEnd`, since
fairness, like `ENABLED`, is out of the prover's reach; the three counterexamples
of section 5 are TLC's alone.

## 7. How the parts fit together

`ChapterCommit` implements `StoryLedger`, whose book is what `ChapterPipeline`
takes for the Runtime; `BookLock` shows the exclusion within a process that
`ChapterPipeline` takes for its lock; `ChapterPipeline` implements `WriteCall`, over
which `Scheduler` is built. What `MigrationJob` hands over at cutover is an
initial state of `ChapterCommit`. A continuation would add, in this order: the
review gate inside `commit()`; the sidecar manager; the projections of a project
with operator events, under replays alone.

## 8. Not modelled

- Text: prompts, agents, parsing, canonical JSON, hashing, export formats,
  foundations, imports of manuscripts, style guides.
- Reads: repository queries, context ranking, observability pages, doctor, and
  `manifest_integrity_issues`, a report over what `ManifestChain` and
  `LogMatchesManifests` state.
- I/O shells: HTTP, CLI, configuration, logging, DDL migrations, snapshot files,
  Studio pages.
- Commit service: the contents that validation looks at, the optional unified
  review gate, chapters that an import brings. SQLite itself is trusted to be
  serialisable and atomic.
- Review tables and the job table of Studio's recovery: the first is an arbitrary
  verdict here, the rows of the second steer nothing but their display.
- Legacy import jobs: scanning, parsing and mapping of sources and the refusal of
  sources that changed; `dry_run` and `report`, which change no state that another
  operation reads; checkpoints and audit rows; the stages inside `scan`; two jobs of
  one target and clients other than the wizard, so two imports of one job, and a
  cutover beside a rollback. Verification is what it compares,
  not how.
- Sidecar manager: one child process of one owner, used by tests and exported only.
- Scheduler: the radar scan, the detection of generated text and the clustering of
  failure dimensions, none of which the modelled state reads.
- Sessions: renaming, metadata, moving a session to a book, the migration of an old
  session file, and other processes writing the same transcript.
- InkOS's local projections and reducers: mirrors without authority. Play, film and
  translation: separate products beside the authority path.
