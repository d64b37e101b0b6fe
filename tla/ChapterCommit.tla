--------------------------- MODULE ChapterCommit ---------------------------
(***************************************************************************)
(* The authority writer of the Story Runtime: the chapter commit service   *)
(* (chapter_commits.py) with the revision allocator it calls               *)
(* (revision_manifests.py), for one project of one database.               *)
(*                                                                         *)
(* Every public method of ChapterCommitService opens BEGIN IMMEDIATE, so    *)
(* SQLite serialises them and each is one action here.  A request that the  *)
(* code refuses, and one it answers from what is stored, rolls back and    *)
(* leaves the database as it was: it is a stuttering step.  The exception  *)
(* is recover(), which runs two transactions; the call is pending in       *)
(* inRecovery between them and Crash can lose it there.                    *)
(*                                                                         *)
(* Requests are abstract: a key stands for the idempotency key and for the *)
(* commit id derived from it, an artifact or diff for its whole payload.   *)
(* A payload carries at most one event per projection.  The sha256 of a     *)
(* set of tables is the content of those tables.                           *)
(***************************************************************************)
EXTENDS Naturals, Sequences, FiniteSets

CONSTANTS
  Keys,            \* idempotency keys
  CreateKeys,      \* ... used for POST /projects
  CommitKeys,      \* ... used for the chapter lifecycle
  OperatorKeys,    \* ... used for direct event appends and typed diffs
  ReplayKeys,      \* ... used for projection replays
  Artifacts,       \* validated chapter payloads
  Diffs,           \* operator event payloads
  Names,           \* event-sourced core projections
  Touches,         \* payload -> the projections its events belong to
  ChapterDerived,  \* projections with a column derived from the chapter
  Silent,          \* payloads that leave that column to the reducer
  ReplayScopes,    \* projection_names of replay requests
  ReplayBounds,    \* <<first, last>> revision bounds of replay requests
  Origins,         \* how the project's row came to exist
  MaxRevision,     \* bound on the revisions requests may name
  NoArtifact, NoEvent, NoKey

Payloads == Artifacts \cup Diffs
Revisions == 0 .. MaxRevision
Summaries == "summaries"
AllNames == Names \cup {Summaries}

(* The inputs are well formed.  A key never serves two kinds of request    *)
(* except that a commit key may also be offered as an operator key.        *)
ASSUME InputsAssumption ==
  /\ CreateKeys \cup CommitKeys \cup OperatorKeys \subseteq Keys
  /\ Touches \in [Payloads -> SUBSET Names]
  /\ ChapterDerived \subseteq Names
  /\ Silent \subseteq Payloads
  /\ ReplayScopes \subseteq SUBSET AllNames
  /\ ReplayBounds \subseteq Nat \X Nat
  /\ Origins \subseteq {"absent", "unwritten", "unmanifested", "imported"}
  /\ MaxRevision \in Nat
  /\ Summaries \notin Names
  /\ NoArtifact \notin Payloads
  /\ IsFiniteSet(Keys)

VARIABLES
  project,      \* "absent" or "runtime": the row of projects
  revision,     \* projects.revision
  latest,       \* projects.latest_chapter
  commits,      \* chapter_commits, by key
  trail,        \* commit_transitions.to_state, by key, in insertion order
  events,       \* story_events
  projection,   \* entities, relationships, facts, timeline, threads
  summaries,    \* chapter_summaries
  checkpoints,  \* projection_checkpoints
  manifests,    \* project_revisions
  ledger,       \* idempotency_ledger
  outbox,       \* rows ever enqueued
  jobs,         \* replay_jobs
  inRecovery    \* recover() calls between their two transactions

vars == <<project, revision, latest, commits, trail, events, projection,
          summaries, checkpoints, manifests, ledger, outbox, jobs, inRecovery>>

authority == <<revision, latest, events, manifests, outbox>>
read == <<projection, summaries, checkpoints>>

----------------------------------------------------------------------------
(* Commit states, and the edges _transition lets through.                  *)

Durable == {"PREPARED", "VALIDATED", "REJECTED", "ABORTED",
            "RECOVERY_REQUIRED", "FINALIZED"}

Allowed ==
  [ NONE |-> {"PREPARED"},
    PREPARED |-> {"VALIDATED", "REJECTED", "ABORTED"},
    VALIDATED |-> {"PERSISTING", "ABORTED", "RECOVERY_REQUIRED"},
    PERSISTING |-> {"COMMITTED", "RECOVERY_REQUIRED"},
    COMMITTED |-> {"PROJECTING", "RECOVERY_REQUIRED"},
    PROJECTING |-> {"FINALIZED", "RECOVERY_REQUIRED"},
    RECOVERY_REQUIRED |-> {"PERSISTING", "ABORTED"},
    REJECTED |-> {}, ABORTED |-> {}, FINALIZED |-> {} ]

NoCommit == [state |-> "NONE", chapter |-> 0, expected |-> 0,
             artifact |-> NoArtifact, resulting |-> 0]

(* _transition walks one edge at a time and appends a row for each.  The   *)
(* path starts from the state the row has.                                 *)
CanWalk(from, path) ==
  \A i \in 1 .. Len(path) :
     path[i] \in Allowed[IF i = 1 THEN from ELSE path[i - 1]]

Walk(k, path) ==
  /\ CanWalk(commits[k].state, path)
  /\ trail' = [trail EXCEPT ![k] = @ \o path]

FinalizedKeys == {k \in Keys : commits[k].state = "FINALIZED"}

----------------------------------------------------------------------------
(* Events and the reducers.                                                *)

(* The events of one accepted command.                                     *)
EventsOf(k, payload, source, chapter, rev) ==
  { [owner |-> k, payload |-> payload, name |-> n, source |-> source,
     chapter |-> chapter, revision |-> rev] : n \in Touches[payload] }

(* The row a reducer writes.  Timeline and thread rows take the chapter    *)
(* from the caller when the payload does not state it.                     *)
SilentAbout(e) == e.name \in ChapterDerived /\ e.payload \in Silent

Reduce(e, chapter) ==
  [event |-> e, chapter |-> IF SilentAbout(e) THEN chapter ELSE e.chapter]

(* The commit path hands the reducer the stored event without its chapter  *)
(* column; the operator path and the replays hand it the row.              *)
LiveChapter(e) == IF e.source = "chapter" THEN 0 ELSE e.chapter

ApplyLive(p, es) ==
  [n \in Names |-> p[n] \cup {Reduce(e, LiveChapter(e)) : e \in {x \in es : x.name = n}}]

ApplyRows(p, es) ==
  [n \in Names |-> p[n] \cup {Reduce(e, e.chapter) : e \in {x \in es : x.name = n}}]

(* projection_hash over a set of projections.                              *)
HashOf(names, p, s) ==
  [ rows |-> [n \in names \cap Names |-> p[n]],
    summaries |-> IF Summaries \in names THEN s ELSE {} ]

StateHash == HashOf(AllNames, projection, summaries)

(* Mutation: the rebuild forgets the summaries.                            *)
NoSummaries(cs) == {}

(* The chapter_summaries rows that the stored artifacts of finalized       *)
(* commits give.                                                           *)
StoredSummaries(cs) ==
  { [chapter |-> cs[k].chapter, artifact |-> cs[k].artifact] :
      k \in {x \in Keys : cs[x].state = "FINALIZED"} }

(* Mutation: the checkpoint hashes are taken before the rows are written.  *)
CheckpointedEarly(p, s, rev) ==
  [n \in AllNames |-> [revision |-> rev, hash |-> HashOf({n}, projection, summaries)]]

Checkpointed(p, s, rev) ==
  [n \in AllNames |-> [revision |-> rev, hash |-> HashOf({n}, p, s)]]

----------------------------------------------------------------------------
(* The revision allocator.                                                 *)

(* A manifest row.  base is the expected_revision of the request whose     *)
(* hash the row carries; previous is empty for a root.                     *)
Manifest(rev, previous, kind, k, base, payload, es, hash) ==
  [ revision |-> rev, previous |-> previous, kind |-> kind, key |-> k,
    base |-> base, payload |-> payload, events |-> es, hash |-> hash ]

Roots == {"initialize_empty", "bootstrap"}
Natives == {"chapter_finalize", "domain_command"}

(* The hash of the empty_initialized marker, which is no projection hash.  *)
EmptyMarker == [rows |-> << >>, summaries |-> {}]

HasCurrentState ==
  \/ \E n \in Names : projection[n] # {}
  \/ summaries # {} \/ events # {}
  \/ \E k \in Keys : commits[k].state # "NONE"

(* _ensure_lineage: where the chain stands before the next revision.       *)
LineageIntact == manifests = {} \/ \E m \in manifests : m.revision = revision

(* Mutation: the bump is made whether or not the project has manifests.    *)
BoundaryAlways == IF revision = 0 /\ HasCurrentState THEN 1 ELSE revision

Boundary ==
  IF manifests = {} /\ revision = 0 /\ HasCurrentState THEN 1 ELSE revision

BootstrapManifests ==
  IF manifests # {} THEN {}
  ELSE {Manifest(Boundary, {}, "bootstrap", NoKey, revision, NoArtifact, {}, StateHash)}

(* Mutation: the revision follows the request and not the boundary.        *)
AllocateFromBase(k, base, kind, payload, es, p, s) ==
  /\ revision = base /\ LineageIntact
  /\ revision' = base + 1
  /\ manifests' = manifests \cup BootstrapManifests \cup
       {Manifest(base + 1, {base}, kind, k, base, payload, es, HashOf(AllNames, p, s))}

(* ProjectRevisionAllocator.execute around the caller's authority writes.  *)
Allocate(k, base, kind, payload, es, p, s) ==
  /\ revision = base
  /\ LineageIntact
  /\ revision' = Boundary + 1
  /\ manifests' = manifests \cup BootstrapManifests \cup
       {Manifest(Boundary + 1, {Boundary}, kind, k, base, payload, es,
                 HashOf(AllNames, p, s))}

----------------------------------------------------------------------------
(* Where a project comes from: it does not exist; it was created or cut    *)
(* over before the manifest migration, still unwritten or with imported    *)
(* rows; or it was cut over since, with a bootstrap manifest at its        *)
(* boundary revision.                                                      *)

ImportedRow == [event |-> NoEvent, chapter |-> 0]
Unwritten == [n \in Names |-> {}]
Imported == [n \in Names |-> {ImportedRow}]

InitProject(origin, rev, p) ==
  /\ project = IF origin = "absent" THEN "absent" ELSE "runtime"
  /\ revision = rev
  /\ projection = p
  /\ manifests = IF origin # "imported" THEN {}
                 ELSE {Manifest(rev, {}, "bootstrap", NoKey, rev, NoArtifact, {},
                                HashOf(AllNames, p, {}))}

Init ==
  /\ \/ "absent" \in Origins /\ InitProject("absent", 0, Unwritten)
     \/ "unwritten" \in Origins /\ InitProject("unwritten", 0, Unwritten)
     \/ "unmanifested" \in Origins /\ InitProject("unmanifested", 1, Imported)
     \/ "imported" \in Origins /\ InitProject("imported", 1, Imported)
  /\ latest = 0
  /\ commits = [k \in Keys |-> NoCommit]
  /\ trail = [k \in Keys |-> << >>]
  /\ events = {} /\ summaries = {} /\ outbox = {} /\ inRecovery = {}
  /\ checkpoints = [n \in AllNames |-> [revision |-> 0, hash |-> EmptyMarker]]
  /\ ledger = [k \in Keys |-> [op |-> "none", hash |-> EmptyMarker]]
  /\ jobs = [j \in ReplayKeys |-> "NONE"]

----------------------------------------------------------------------------
(* Mutation: only the keys of the other operation count as used.           *)
UnusedByAppends(k) == ledger[k].op # "events.append"

(* Every ledger row is looked up by its key alone, whatever the operation. *)
Unused(k) == ledger[k].op = "none"

(* POST /projects.                                                         *)
CreateProject(k) ==
  /\ k \in CreateKeys
  /\ Unused(k)
  /\ project = "absent"
  /\ project' = "runtime"
  /\ revision' = 0 /\ latest' = 0
  /\ manifests' = {Manifest(0, {}, "initialize_empty", k, 0, NoArtifact, {}, EmptyMarker)}
  /\ ledger' = [ledger EXCEPT ![k].op = "project.create"]
  /\ UNCHANGED <<commits, trail, events, read, outbox, jobs, inRecovery>>

RuntimeAt(expected) == project = "runtime" /\ revision = expected

Prepare(k, expected, chapter) ==
  /\ k \in CommitKeys
  /\ commits[k].state = "NONE"
  /\ RuntimeAt(expected)
  /\ chapter = latest + 1
  /\ Unused(k)                       \* the INSERT's primary key
  /\ Walk(k, <<"PREPARED">>)
  /\ commits' = [commits EXCEPT ![k] =
                  [state |-> "PREPARED", chapter |-> chapter, expected |-> expected,
                   artifact |-> NoArtifact, resulting |-> 0]]
  /\ ledger' = [ledger EXCEPT ![k].op = "chapter.lifecycle"]
  /\ UNCHANGED <<project, authority, read, jobs, inRecovery>>

(* The outcome of validation depends on text and on projected facts the    *)
(* model leaves out: any artifact may pass or be blocked.                  *)
ValidateAccept(k, expected, a) ==
  /\ commits[k].state = "PREPARED"
  /\ RuntimeAt(expected)
  /\ Walk(k, <<"VALIDATED">>)
  /\ commits' = [commits EXCEPT ![k].state = "VALIDATED", ![k].artifact = a]
  /\ UNCHANGED <<project, authority, read, ledger, jobs, inRecovery>>

ValidateReject(k, expected, a) ==
  /\ commits[k].state = "PREPARED"
  /\ RuntimeAt(expected)
  /\ Walk(k, <<"REJECTED">>)
  /\ commits' = [commits EXCEPT ![k].state = "REJECTED", ![k].artifact = a]
  /\ UNCHANGED <<project, authority, read, ledger, jobs, inRecovery>>

(* Mutation: no such index.                                                *)
AnyChapter(k) == TRUE

(* The index on finalized commits: one per chapter.                        *)
ChapterIsFree(k) ==
  \A x \in FinalizedKeys : commits[x].chapter # commits[k].chapter

OutboxRow(k, topic, chapter, rev) ==
  [key |-> k, topic |-> topic, chapter |-> chapter, revision |-> rev]

ChapterTopics == {"markdown.export", "search.index", "snapshot.create"}

Finalizing == <<"PERSISTING", "COMMITTED", "PROJECTING", "FINALIZED">>

(* The one transaction of commit(): audit trail, events, reducers, summary, *)
(* latest chapter, checkpoints, manifest, revision, outbox and ledger.     *)
FinalizeChapter(k, expected, a) ==
  LET c   == commits[k]
      rev == Boundary + 1
      es  == EventsOf(k, a, "chapter", c.chapter, rev)
      p   == ApplyLive(projection, es)
      s   == {x \in summaries : x.chapter # c.chapter}
               \cup {[chapter |-> c.chapter, artifact |-> a]}
  IN /\ c.state \in {"VALIDATED", "RECOVERY_REQUIRED"}
     /\ c.artifact = a               \* token and artifact checksum
     /\ RuntimeAt(expected)
     /\ ChapterIsFree(k)
     /\ Walk(k, Finalizing)
     /\ Allocate(k, expected, "chapter_finalize", a, es, p, s)
     /\ events' = events \cup es
     /\ projection' = p
     /\ summaries' = s
     /\ latest' = c.chapter
     /\ checkpoints' = Checkpointed(p, s, rev)
     /\ commits' = [commits EXCEPT ![k].state = "FINALIZED", ![k].resulting = rev]
     /\ outbox' = outbox \cup {OutboxRow(k, t, c.chapter, rev) : t \in ChapterTopics}
     /\ ledger' = [ledger EXCEPT ![k].hash = HashOf(AllNames, p, s)]

Commit(k, expected, a) ==
  /\ FinalizeChapter(k, expected, a)
  /\ UNCHANGED <<project, jobs, inRecovery>>

(* Direct event append, and the typed diff that ends in it.                *)
AppendOperatorEvents(k, expected, d) ==
  LET rev == Boundary + 1
      es  == EventsOf(k, d, "operator", latest, rev)
      p   == ApplyLive(projection, es)
  IN /\ k \in OperatorKeys
     /\ Unused(k)
     /\ RuntimeAt(expected)
     /\ Allocate(k, expected, "domain_command", d, es, p, summaries)
     /\ events' = events \cup es
     /\ projection' = p
     /\ checkpoints' = Checkpointed(p, summaries, rev)
     /\ ledger' = [ledger EXCEPT ![k] = [op |-> "events.append",
                                         hash |-> HashOf(AllNames, p, summaries)]]
     /\ outbox' = outbox \cup {OutboxRow(k, "search.index", 0, rev)}
     /\ UNCHANGED <<project, latest, commits, trail, summaries, jobs, inRecovery>>

----------------------------------------------------------------------------
(* Operator recovery of one commit.                                        *)

(* recover() refuses a commit whose manifest exists but whose row is not   *)
(* FINALIZED.                                                              *)
NoManifestFor(k) ==
  \A m \in manifests : ~(m.kind = "chapter_finalize" /\ m.key = k)

RecoverAbort(k) ==
  /\ commits[k].state \in {"PREPARED", "VALIDATED", "RECOVERY_REQUIRED"}
  /\ NoManifestFor(k)
  /\ Walk(k, <<"ABORTED">>)
  /\ commits' = [commits EXCEPT ![k].state = "ABORTED"]
  /\ UNCHANGED <<project, authority, read, ledger, jobs, inRecovery>>

(* Mutations: Studio's abort writes no transition row, or looks at no state. *)
StudioAbortUnlogged(k) ==
  /\ commits[k].state \in {"PREPARED", "VALIDATED"}
  /\ commits' = [commits EXCEPT ![k].state = "ABORTED"]
  /\ UNCHANGED <<project, authority, read, trail, ledger, jobs, inRecovery>>

StudioAbortAny(k) ==
  /\ commits[k].state \notin {"NONE", "ABORTED"}
  /\ commits' = [commits EXCEPT ![k].state = "ABORTED"]
  /\ trail' = [trail EXCEPT ![k] = Append(@, "ABORTED")]
  /\ UNCHANGED <<project, authority, read, ledger, jobs, inRecovery>>

(* Studio's abort_prepared_commit job writes the same rows by itself.       *)
StudioAbort(k) ==
  /\ commits[k].state \in {"PREPARED", "VALIDATED"}
  /\ commits' = [commits EXCEPT ![k].state = "ABORTED"]
  /\ trail' = [trail EXCEPT ![k] = Append(@, "ABORTED")]
  /\ UNCHANGED <<project, authority, read, ledger, jobs, inRecovery>>

(* Mutation: the events of the chapter, whichever commit they came from.   *)
EventsOfChapter(k) ==
  {e \in events : e.source = "chapter" /\ e.chapter = commits[k].chapter}

(* The story_events rows of one commit id.                                 *)
OwnEvents(k) == {e \in events : e.source = "chapter" /\ e.owner = k}

(* First transaction: the commit's own events go, and the projections are  *)
(* rebuilt from the events of finalized commits alone.                     *)
RecoverReset(k) ==
  /\ commits[k].state \in {"VALIDATED", "PERSISTING", "COMMITTED", "PROJECTING",
                           "RECOVERY_REQUIRED"}
  /\ NoManifestFor(k)
  /\ IF commits[k].state = "RECOVERY_REQUIRED"
     THEN UNCHANGED trail ELSE Walk(k, <<"RECOVERY_REQUIRED">>)
  /\ commits' = [commits EXCEPT ![k].state = "RECOVERY_REQUIRED", ![k].resulting = 0]
  /\ events' = events \ OwnEvents(k)
  /\ projection' = ApplyRows(Unwritten,
                     {e \in events' : e.source = "chapter" /\ e.owner \in FinalizedKeys})
  /\ summaries' = StoredSummaries(commits)
  /\ inRecovery' = inRecovery \cup {k}
  /\ UNCHANGED <<project, revision, latest, checkpoints, manifests, ledger, outbox, jobs>>

(* Second transaction: commit() again, with the stored artifact and the    *)
(* revision the commit was prepared at.                                    *)
RecoverResume(k) ==
  /\ k \in inRecovery
  /\ commits[k].artifact # NoArtifact
  /\ FinalizeChapter(k, commits[k].expected, commits[k].artifact)
  /\ inRecovery' = inRecovery \ {k}
  /\ UNCHANGED <<project, jobs>>

(* ... which commit() answers from the row, or refuses: another writer has *)
(* moved the project, finished this commit or aborted it in between.       *)
RecoverGiveUp(k) ==
  /\ k \in inRecovery
  /\ \/ commits[k].state \notin {"VALIDATED", "RECOVERY_REQUIRED"}
     \/ revision # commits[k].expected
     \/ ~ChapterIsFree(k)
  /\ inRecovery' = inRecovery \ {k}
  /\ UNCHANGED <<project, authority, read, commits, trail, ledger, jobs>>

(* The Runtime process stops between the two transactions.                 *)
Crash ==
  /\ inRecovery # {}
  /\ inRecovery' = {}
  /\ UNCHANGED <<project, authority, read, commits, trail, ledger, jobs>>

----------------------------------------------------------------------------
(* Replay: clear the named projections and reduce the stored rows of a     *)
(* range of the log again.  Both forms leave the revision alone.           *)

(* Mutation: the upper bound is exclusive.                                 *)
InHalfOpenBounds(bounds) ==
  {e \in events : bounds[1] <= e.revision /\ e.revision < bounds[2]}

InBounds(bounds) == {e \in events : bounds[1] <= e.revision /\ e.revision <= bounds[2]}

(* Mutation: every projection is cleared, the named ones are rebuilt.      *)
ReplayedRowsClearingAll(scope, bounds) ==
  LET rebuilt == ApplyRows(Unwritten, InBounds(bounds))
  IN [n \in Names |-> IF n \in scope THEN rebuilt[n] ELSE {}]

ReplayedRows(scope, bounds) ==
  LET rebuilt == ApplyRows(Unwritten, InBounds(bounds))
  IN [n \in Names |-> IF n \in scope THEN rebuilt[n] ELSE projection[n]]

ReplayedSummaries(scope) ==
  IF Summaries \in scope THEN StoredSummaries(commits) ELSE summaries

(* expected_hash is absent, or the hash of what the projections show now.  *)
Outcome(scope, bounds, compare) ==
  IF compare => HashOf(scope, ReplayedRows(scope, bounds), ReplayedSummaries(scope))
                  = HashOf(scope, projection, summaries)
  THEN "FINALIZED" ELSE "MISMATCH"

ReplayVerify(j, expected, scope, bounds, compare) ==
  /\ jobs[j] \notin {"FINALIZED", "MISMATCH"}
  /\ RuntimeAt(expected)
  /\ jobs' = [jobs EXCEPT ![j] = Outcome(scope, bounds, compare)]
  /\ UNCHANGED <<project, authority, read, commits, trail, ledger, inRecovery>>

(* A mismatch is reported, and the result kept, all the same; every        *)
(* checkpoint is written at the current revision.                          *)
ReplayApply(j, expected, scope, bounds, compare) ==
  /\ jobs[j] \notin {"FINALIZED", "MISMATCH"}
  /\ RuntimeAt(expected)
  /\ jobs' = [jobs EXCEPT ![j] = Outcome(scope, bounds, compare)]
  /\ projection' = ReplayedRows(scope, bounds)
  /\ summaries' = ReplayedSummaries(scope)
  /\ checkpoints' = Checkpointed(projection', summaries', revision)
  /\ UNCHANGED <<project, authority, commits, trail, ledger, inRecovery>>

----------------------------------------------------------------------------
Next ==
  \/ \E k \in Keys : CreateProject(k)
  \/ \E k \in Keys, r \in Revisions, c \in 1 .. MaxRevision : Prepare(k, r, c)
  \/ \E k \in Keys, r \in Revisions, a \in Artifacts : ValidateAccept(k, r, a)
  \/ \E k \in Keys, r \in Revisions, a \in Artifacts : ValidateReject(k, r, a)
  \/ \E k \in Keys, r \in Revisions, a \in Artifacts : Commit(k, r, a)
  \/ \E k \in Keys, r \in Revisions, d \in Diffs : AppendOperatorEvents(k, r, d)
  \/ \E k \in Keys : RecoverAbort(k)
  \/ \E k \in Keys : StudioAbort(k)
  \/ \E k \in Keys : RecoverReset(k)
  \/ \E k \in Keys : RecoverResume(k)
  \/ \E k \in Keys : RecoverGiveUp(k)
  \/ Crash
  \/ \E j \in ReplayKeys, r \in Revisions, scope \in ReplayScopes,
        bounds \in ReplayBounds, compare \in BOOLEAN :
          ReplayVerify(j, r, scope, bounds, compare)
  \/ \E j \in ReplayKeys, r \in Revisions, scope \in ReplayScopes,
        bounds \in ReplayBounds, compare \in BOOLEAN :
          ReplayApply(j, r, scope, bounds, compare)

Spec == Init /\ [][Next]_vars

----------------------------------------------------------------------------
(* Types.                                                                  *)

Event == [owner: Keys, payload: Payloads, name: Names,
          source: {"chapter", "operator"}, chapter: Nat, revision: Nat]
Row == [event: Event, chapter: Nat] \cup {ImportedRow}
Summary == [chapter: Nat, artifact: Artifacts]
CommitRow == [state: Durable \cup {"NONE"}, chapter: Nat, expected: Nat,
              artifact: Artifacts \cup {NoArtifact}, resulting: Nat]
States == Durable \cup {"PERSISTING", "COMMITTED", "PROJECTING"}
Hash == [rows: [Names -> SUBSET Row] \cup {<< >>}, summaries: SUBSET Summary]
Operations == {"none", "project.create", "chapter.lifecycle", "events.append"}

TypedManifest(m) ==
  /\ m.revision \in Nat /\ m.base \in Nat
  /\ m.previous \in SUBSET Nat
  /\ m.kind \in Roots \cup Natives
  /\ m.key \in Keys \cup {NoKey}
  /\ m.events \subseteq Event
  /\ m.hash \in Hash

(* Every variable has its shape.  The chapter commit rows only ever show a *)
(* durable state between transactions.                                     *)
TypeOK ==
  /\ project \in {"absent", "runtime"}
  /\ revision \in Nat /\ latest \in Nat
  /\ commits \in [Keys -> CommitRow]
  /\ trail \in [Keys -> Seq(States)]
  /\ events \subseteq Event
  /\ projection \in [Names -> SUBSET Row]
  /\ summaries \subseteq Summary
  /\ DOMAIN checkpoints = AllNames
  /\ \A m \in manifests : TypedManifest(m)
  /\ ledger \in [Keys -> [op: Operations, hash: Hash]]
  /\ \A r \in outbox : r.key \in Keys /\ r.chapter \in Nat /\ r.revision \in Nat
  /\ jobs \in [ReplayKeys -> {"NONE", "FINALIZED", "MISMATCH"}]
  /\ inRecovery \subseteq Keys

----------------------------------------------------------------------------
(* Safety.                                                                 *)

NativeManifests == {m \in manifests : m.kind \in Natives}

(* The manifests of a project form one gapless chain: one root, every      *)
(* other revision has exactly one manifest and names its predecessor, the  *)
(* newest is the project's revision, and each request was made against the *)
(* head it extends (or against revision 0 where the bootstrap moved it).   *)
ManifestChain ==
  /\ manifests # {} =>
       /\ \E root \in manifests :
            /\ root.kind \in Roots /\ root.previous = {}
            /\ {m.revision : m \in manifests} = root.revision .. revision
            /\ \A m \in manifests : m.kind \in Roots => m = root
            /\ \A m \in NativeManifests :
                 m.base = m.revision - 1 \/ (m.base = 0 /\ m.revision = root.revision + 1)
  /\ \A m, n \in manifests : m.revision = n.revision => m = n
  /\ \A m \in NativeManifests : m.previous = {m.revision - 1}

(* A finalized commit and its manifest stand and fall together: the same   *)
(* artifact, the revision of the row, and the events the log holds.        *)
CommitMatchesManifest ==
  /\ \A k \in FinalizedKeys :
       \E m \in manifests :
         /\ m.kind = "chapter_finalize" /\ m.key = k
         /\ m.revision = commits[k].resulting /\ m.payload = commits[k].artifact
  /\ \A m \in manifests : m.kind = "chapter_finalize" => m.key \in FinalizedKeys

(* The finalized chapters are 1 .. latest, each finalized once, and in     *)
(* revision order, whatever chapters were prepared side by side.           *)
ChaptersContiguous ==
  /\ {commits[k].chapter : k \in FinalizedKeys} = 1 .. latest
  /\ \A k, x \in FinalizedKeys :
       commits[k].chapter < commits[x].chapter
         <=> commits[k].resulting < commits[x].resulting
  /\ \A k, x \in FinalizedKeys : commits[k].chapter = commits[x].chapter => k = x

(* The event log is exactly what the manifests claim: recovery deletes no  *)
(* event a manifest lists and leaves none that no manifest lists.          *)
LogMatchesManifests ==
  /\ events = UNION {m.events : m \in manifests}
  /\ \A m \in manifests : \A e \in m.events : e.revision = m.revision /\ e.owner = m.key

(* A key buys one revision at most: two native manifests never share one,  *)
(* whether the key was retried, recovered, or offered to another command,  *)
(* and the ledger keeps the answer the manifest attests.                   *)
KeysSpentOnce ==
  /\ \A m, n \in NativeManifests : m.key = n.key => m = n
  /\ \A m \in NativeManifests : ledger[m.key].hash = m.hash

(* The side effects a command enqueues are those of its manifest, no more  *)
(* and no fewer, however often recovery or a retry ran.                    *)
OutboxMatchesManifests ==
  outbox = UNION { IF m.kind = "chapter_finalize"
                   THEN {OutboxRow(m.key, t, commits[m.key].chapter, m.revision) :
                           t \in ChapterTopics}
                   ELSE {OutboxRow(m.key, "search.index", 0, m.revision)} :
                   m \in NativeManifests }

LastOf(path) == IF path = << >> THEN "NONE" ELSE path[Len(path)]

(* The audit trail of a commit is a walk along the allowed edges from      *)
(* NONE that ends in the state of its row.                                 *)
AuditTrailLegal ==
  \A k \in Keys :
    /\ CanWalk("NONE", trail[k])
    /\ commits[k].state = LastOf(trail[k])

(* Rows without the chapter that no payload states: the live path and the  *)
(* replays derive different ones.                                          *)
StatedRow(row) ==
  IF row # ImportedRow /\ SilentAbout(row.event) THEN [row EXCEPT !.chapter = 0] ELSE row

Stated(rows) == [n \in DOMAIN rows |-> {StatedRow(row) : row \in rows[n]}]
StatedHash(hash) == [rows |-> Stated(hash.rows), summaries |-> hash.summaries]

(* What the projections state is what the newest manifest attests.  Holds  *)
(* where every row comes from a chapter and every replay is complete.      *)
StateMatchesManifest ==
  \A m \in NativeManifests : m.revision = revision => StatedHash(m.hash) = StatedHash(StateHash)

(* The rows are those the whole log reduces to.  Same condition.           *)
ProjectionFollowsLog ==
  /\ Stated(projection) = Stated(ApplyRows(Unwritten, events))
  /\ summaries = StoredSummaries(commits)

(* A checkpoint at the project's revision has the hash of the rows there.  *)
CheckpointsTruthful ==
  \A n \in AllNames :
    checkpoints[n].revision = revision /\ revision > 0
      => StatedHash(checkpoints[n].hash) = StatedHash(HashOf({n}, projection, summaries))

(* A full replay reproduces the projections it is compared with, column by *)
(* column: it mismatches only if the log has an event that is silent about *)
(* one, whose row the live path wrote otherwise.                           *)
ReplayAgrees ==
  (\E j \in ReplayKeys : jobs[j] = "MISMATCH") => \E e \in events : SilentAbout(e)

----------------------------------------------------------------------------
(* The inductive invariant behind them.                                    *)

(* From validation on, a commit's artifact is stored.                      *)
ArtifactsStored ==
  \A k \in Keys : commits[k].state \in {"VALIDATED", "RECOVERY_REQUIRED", "FINALIZED"}
                   => commits[k].artifact \in Artifacts

(* A project that does not exist has no history.                           *)
AbsentIsEmpty ==
  project = "absent" => manifests = {} /\ revision = 0 /\ latest = 0

(* The ledger knows every key that entered the lifecycle, and which keys   *)
(* native manifests were published for.                                    *)
LedgerKnowsKeys ==
  /\ \A k \in Keys : commits[k].state # "NONE" => ledger[k].op = "chapter.lifecycle"
  /\ \A m \in NativeManifests :
       /\ m.key \in Keys
       /\ m.kind = "domain_command" => ledger[m.key].op = "events.append"

(* A live commit is for a finalized chapter or the next one.               *)
ChaptersInReach ==
  \A k \in Keys :
    /\ commits[k].state # "NONE" => commits[k].chapter \in 1 .. latest + 1
    /\ commits[k].state = "FINALIZED" => commits[k].resulting <= revision

(* What a manifest claims of the log carries the source of its kind.       *)
SourceOf(kind) == IF kind = "chapter_finalize" THEN "chapter" ELSE "operator"

EventsHaveTheirSource ==
  \A m \in manifests :
    /\ m.kind \in Roots => m.events = {}
    /\ \A e \in m.events : e.source = SourceOf(m.kind)

TypeInv == TypeOK /\ ArtifactsStored

HistoryInv ==
  /\ TypeInv /\ AbsentIsEmpty /\ LedgerKnowsKeys
  /\ ManifestChain /\ CommitMatchesManifest /\ KeysSpentOnce
  /\ ChaptersInReach /\ ChaptersContiguous

(* Each line is inductive together with the ones above it: HistoryInv      *)
(* alone, then the log and the trail.                                      *)
IndInv ==
  /\ HistoryInv
  /\ LogMatchesManifests /\ EventsHaveTheirSource
  /\ AuditTrailLegal

----------------------------------------------------------------------------
(* Action properties.                                                      *)

(* A finalized chapter is final: no request, recovery or replay changes    *)
(* its row, its audit trail or its events, and no terminal commit revives. *)
KeepsFinalized ==
  \A k \in Keys :
    /\ commits[k].state \in {"FINALIZED", "REJECTED", "ABORTED"}
         => commits'[k] = commits[k] /\ trail'[k] = trail[k]
    /\ commits[k].state = "FINALIZED"
         => {e \in events' : e.owner = k} = {e \in events : e.owner = k}

FinalizedIsFinal == [][KeepsFinalized]_vars

----------------------------------------------------------------------------
(* The abstract story: the artifacts of the finalized chapters in order,   *)
(* and the native manifests.                                               *)

ArtifactsOf(chapter) ==
  {commits[k].artifact : k \in {x \in FinalizedKeys : commits[x].chapter = chapter}}

Book == [i \in 1 .. latest |-> CHOOSE a \in ArtifactsOf(i) : TRUE]

History ==
  {[key |-> m.key, payload |-> m.payload, revision |-> m.revision] : m \in NativeManifests}

Ledger == INSTANCE StoryLedger WITH book <- Book, history <- History, head <- revision

(* The service implements the story ledger: every transaction publishes    *)
(* the next chapter, applies one diff, or is invisible.                    *)
ImplementsLedger == Ledger!LedgerSpec

----------------------------------------------------------------------------
(* What the documents say that the code does otherwise.                    *)

(* The answer to a retried commit: _finalized_result reads the projections *)
(* as they are at the time of the retry.                                   *)
FinalizedResult(k) ==
  [revision |-> commits[k].resulting,
   event_count |-> Cardinality({e \in events : e.owner = k}),
   hash |-> StateHash]

(* failure-recovery.md: a retried commit returns the same revision and     *)
(* event count, whatever was written since.                                *)
RetryReturnsCounts ==
  \A k \in FinalizedKeys : \E m \in manifests :
     /\ m.key = k
     /\ FinalizedResult(k).revision = m.revision
     /\ FinalizedResult(k).event_count = Cardinality(m.events)
=============================================================================
