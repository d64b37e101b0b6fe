------------------------ MODULE ChapterCommitSafety ------------------------
(***************************************************************************)
(* Theorems about ChapterCommit for every set of keys, payloads and        *)
(* projections: the shape of its state, and the history that a project     *)
(* publishes.  For the history one inductive invariant, HistoryInv,        *)
(* carries the chain of manifests, the match of commits and manifests, the *)
(* single use of a key and the order of the chapters.                      *)
(***************************************************************************)
EXTENDS ChapterCommit, TLAPS

----------------------------------------------------------------------------
(* What the operators of the model return.                                 *)

Rows == [Names -> SUBSET Row]

(* The boundary of a typed state is a revision: the head, or the bump of a *)
(* non-empty revision 0 to 1.                                              *)
LEMMA BoundaryType ==
  ASSUME TypeOK
  PROVE  /\ Boundary \in Nat
         /\ manifests # {} => Boundary = revision
         /\ Boundary = revision \/ (revision = 0 /\ Boundary = 1)
BY DEF TypeOK, Boundary

(* The events of a command are well-typed events of its key and revision.  *)
LEMMA EventsOfType ==
  ASSUME NEW k \in Keys, NEW payload \in Payloads, NEW source \in {"chapter", "operator"},
         NEW chapter \in Nat, NEW rev \in Nat
  PROVE  /\ EventsOf(k, payload, source, chapter, rev) \subseteq Event
         /\ \A e \in EventsOf(k, payload, source, chapter, rev) :
              e.owner = k /\ e.revision = rev /\ e.source = source
BY InputsAssumption DEF EventsOf, Event

(* The row of a well-typed event is a row.                                 *)
LEMMA ReduceType ==
  ASSUME NEW e \in Event, NEW chapter \in Nat
  PROVE  Reduce(e, chapter) \in Row
BY DEF Reduce, SilentAbout, Row, Event

(* Both ways of running the reducers keep the projections typed.           *)
LEMMA ApplyType ==
  ASSUME NEW p \in Rows, NEW es \in SUBSET Event
  PROVE  ApplyLive(p, es) \in Rows /\ ApplyRows(p, es) \in Rows
<1>1. \A e \in es : Reduce(e, e.chapter) \in Row /\ Reduce(e, LiveChapter(e)) \in Row
  BY ReduceType DEF Event, LiveChapter
<1>2. ApplyLive(p, es) \in Rows
  BY <1>1 DEF ApplyLive, Rows
<1>3. ApplyRows(p, es) \in Rows
  BY <1>1 DEF ApplyRows, Rows
<1> QED BY <1>2, <1>3

(* The hash of typed tables is a hash.                                     *)
LEMMA HashType ==
  ASSUME NEW p \in Rows, NEW s \in SUBSET Summary
  PROVE  HashOf(AllNames, p, s) \in Hash
BY DEF HashOf, Hash, AllNames, Rows

(* A manifest built from typed parts is typed.                             *)
LEMMA ManifestType ==
  ASSUME NEW rev \in Nat, NEW previous \in SUBSET Nat, NEW kind \in Roots \cup Natives,
         NEW k \in Keys \cup {NoKey}, NEW base \in Nat, NEW payload,
         NEW es \in SUBSET Event, NEW hash \in Hash
  PROVE  TypedManifest(Manifest(rev, previous, kind, k, base, payload, es, hash))
BY DEF TypedManifest, Manifest

(* The stored summaries of typed commit rows whose finalized rows have an  *)
(* artifact are summaries.                                                 *)
LEMMA StoredSummariesType ==
  ASSUME commits \in [Keys -> CommitRow],
         \A k \in FinalizedKeys : commits[k].artifact \in Artifacts
  PROVE  StoredSummaries(commits) \subseteq Summary
BY DEF StoredSummaries, Summary, FinalizedKeys, CommitRow

(* A commit row moved to another durable state is a commit row in that state. *)
LEMMA RowInState ==
  ASSUME NEW c \in CommitRow, NEW s \in Durable
  PROVE  /\ [c EXCEPT !.state = s] \in CommitRow
         /\ [c EXCEPT !.state = s].state = s
BY DEF CommitRow

(* A commit row sent back for recovery is a commit row, and keeps its       *)
(* artifact.                                                                *)
LEMMA RowReset ==
  ASSUME NEW c \in CommitRow, NEW s \in Durable
  PROVE  /\ [c EXCEPT !.state = s, !.resulting = 0] \in CommitRow
         /\ [c EXCEPT !.state = s, !.resulting = 0].artifact = c.artifact
BY DEF CommitRow

(* What the allocator leaves behind is typed.                              *)
LEMMA AllocateType ==
  ASSUME TypeOK, NEW k \in Keys, NEW base \in Nat, NEW kind \in Natives, NEW payload,
         NEW es \in SUBSET Event, NEW p \in Rows, NEW s \in SUBSET Summary,
         Allocate(k, base, kind, payload, es, p, s)
  PROVE  revision' \in Nat /\ \A m \in manifests' : TypedManifest(m)
<1>1. Boundary \in Nat /\ revision \in Nat
  BY BoundaryType DEF TypeOK
<1>2. StateHash \in Hash /\ HashOf(AllNames, p, s) \in Hash
  BY HashType DEF TypeOK, StateHash, Rows
<1>3. \A m \in BootstrapManifests : TypedManifest(m)
  <2>1. TypedManifest(Manifest(Boundary, {}, "bootstrap", NoKey, revision, NoArtifact, {}, StateHash))
    BY <1>1, <1>2, ManifestType DEF Roots
  <2> QED BY <2>1 DEF BootstrapManifests
<1>4. TypedManifest(Manifest(Boundary + 1, {Boundary}, kind, k, base, payload, es,
                             HashOf(AllNames, p, s)))
  BY <1>1, <1>2, ManifestType
<1>5. \A m \in manifests : TypedManifest(m)
  BY DEF TypeOK
<1> QED BY <1>1, <1>3, <1>4, <1>5 DEF Allocate

----------------------------------------------------------------------------
(* Type correctness.                                                       *)

LEMMA InitTypeInv == Init => TypeInv
<1> SUFFICES ASSUME Init PROVE TypeInv
  OBVIOUS
<1>1. Unwritten \in Rows /\ Imported \in Rows
  BY DEF Unwritten, Imported, Rows, Row
<1>2. PICK origin \in {"absent", "unwritten", "unmanifested", "imported"},
           rev \in {0, 1}, p \in Rows : InitProject(origin, rev, p)
  BY <1>1 DEF Init
<1>3. /\ project \in {"absent", "runtime"} /\ revision \in Nat
      /\ projection \in Rows
  BY <1>2 DEF InitProject
<1>4. \A m \in manifests : TypedManifest(m)
  <2>1. HashOf(AllNames, p, {}) \in Hash
    BY HashType
  <2>2. TypedManifest(Manifest(rev, {}, "bootstrap", NoKey, rev, NoArtifact, {},
                               HashOf(AllNames, p, {})))
    BY <2>1, ManifestType DEF Roots
  <2> QED BY <1>2, <2>2 DEF InitProject
<1>5. /\ commits \in [Keys -> CommitRow]
      /\ trail \in [Keys -> Seq(States)]
  BY DEF Init, NoCommit, CommitRow
<1>6. ledger \in [Keys -> [op: Operations, hash: Hash]]
  BY DEF Init, Operations, Hash, EmptyMarker
<1>7. ArtifactsStored
  BY DEF Init, NoCommit, ArtifactsStored
<1> QED BY <1>3, <1>4, <1>5, <1>6, <1>7 DEF Init, TypeInv, TypeOK, Rows

(* What a chapter's transaction changes, in typed form.                    *)
LEMMA FinalizeType ==
  ASSUME TypeInv, NEW k \in Keys, NEW expected \in Nat, NEW a \in Artifacts,
         FinalizeChapter(k, expected, a)
  PROVE  /\ revision' \in Nat /\ latest' \in Nat
         /\ commits' \in [Keys -> CommitRow]
         /\ trail' \in [Keys -> Seq(States)]
         /\ events' \subseteq Event
         /\ projection' \in Rows
         /\ summaries' \subseteq Summary
         /\ DOMAIN checkpoints' = AllNames
         /\ \A m \in manifests' : TypedManifest(m)
         /\ ledger' \in [Keys -> [op: Operations, hash: Hash]]
         /\ \A r \in outbox' : r.key \in Keys /\ r.chapter \in Nat /\ r.revision \in Nat
         /\ ArtifactsStored'
<1> DEFINE c   == commits[k]
           rev == Boundary + 1
           es  == EventsOf(k, a, "chapter", c.chapter, rev)
           p   == ApplyLive(projection, es)
           s   == {x \in summaries : x.chapter # c.chapter}
                    \cup {[chapter |-> c.chapter, artifact |-> a]}
<1>1. c \in CommitRow /\ c.chapter \in Nat /\ rev \in Nat
  BY BoundaryType DEF TypeInv, TypeOK, CommitRow
<1>2. es \subseteq Event
  BY <1>1, EventsOfType DEF Payloads
<1>3. p \in Rows
  <2>1. projection \in Rows
    BY DEF TypeInv, TypeOK, Rows
  <2> HIDE DEF es
  <2> QED BY <1>2, <2>1, ApplyType
<1>4. s \subseteq Summary
  BY <1>1 DEF TypeInv, TypeOK, Summary
<1>5. HashOf(AllNames, p, s) \in Hash
  <2> HIDE DEF p, s
  <2> QED BY <1>3, <1>4, HashType
<1> HIDE DEF es, p, s, rev
<1>6. /\ Allocate(k, expected, "chapter_finalize", a, es, p, s)
      /\ events' = events \cup es /\ projection' = p /\ summaries' = s
      /\ latest' = c.chapter /\ checkpoints' = Checkpointed(p, s, rev)
      /\ commits' = [commits EXCEPT ![k].state = "FINALIZED", ![k].resulting = rev]
      /\ outbox' = outbox \cup {OutboxRow(k, t, c.chapter, rev) : t \in ChapterTopics}
      /\ ledger' = [ledger EXCEPT ![k].hash = HashOf(AllNames, p, s)]
      /\ trail' = [trail EXCEPT ![k] = @ \o Finalizing]
      /\ c.artifact = a
  BY DEF FinalizeChapter, Walk, es, p, s, rev
<1>7. revision' \in Nat /\ \A m \in manifests' : TypedManifest(m)
  BY <1>2, <1>3, <1>4, <1>6, AllocateType DEF TypeInv, Natives
<1>8. commits' \in [Keys -> CommitRow] /\ ArtifactsStored'
  BY <1>1, <1>6 DEF TypeInv, TypeOK, CommitRow, Durable, ArtifactsStored
<1>9. trail' \in [Keys -> Seq(States)]
  <2>1. Finalizing \in Seq(States)
    BY DEF Finalizing, States, Durable
  <2> QED BY <1>6, <2>1 DEF TypeInv, TypeOK
<1>10. DOMAIN checkpoints' = AllNames
  BY <1>6 DEF Checkpointed
<1>11. ledger' \in [Keys -> [op: Operations, hash: Hash]]
  BY <1>5, <1>6 DEF TypeInv, TypeOK
<1>12. \A r \in outbox' : r.key \in Keys /\ r.chapter \in Nat /\ r.revision \in Nat
  BY <1>1, <1>6 DEF TypeInv, TypeOK, OutboxRow
<1> QED BY <1>1, <1>2, <1>3, <1>4, <1>6, <1>7, <1>8, <1>9, <1>10, <1>11, <1>12
        DEF TypeInv, TypeOK

(* A request that only moves the commit row and its audit trail: prepare,  *)
(* validate and abort.                                                     *)
LEMMA LifecycleType ==
  ASSUME TypeInv, NEW k \in Keys, NEW row \in CommitRow, NEW to \in Durable,
         row.state = to,
         to \in {"VALIDATED", "RECOVERY_REQUIRED", "FINALIZED"} => row.artifact \in Artifacts,
         commits' = [commits EXCEPT ![k] = row],
         trail' = [trail EXCEPT ![k] = @ \o <<to>>]
  PROVE  /\ commits' \in [Keys -> CommitRow]
         /\ trail' \in [Keys -> Seq(States)]
         /\ ArtifactsStored'
<1>1. <<to>> \in Seq(States)
  BY DEF States
<1>2. trail' \in [Keys -> Seq(States)]
  BY <1>1 DEF TypeInv, TypeOK
<1> QED BY <1>2 DEF TypeInv, TypeOK, ArtifactsStored

LEMMA ReplayType ==
  ASSUME TypeInv, NEW scope \in ReplayScopes, NEW bounds \in ReplayBounds
  PROVE  /\ ReplayedRows(scope, bounds) \in Rows
         /\ ReplayedSummaries(scope) \subseteq Summary
<1>1. ApplyRows(Unwritten, InBounds(bounds)) \in Rows
  <2>1. Unwritten \in Rows /\ InBounds(bounds) \in SUBSET Event
    BY DEF Unwritten, Rows, InBounds, TypeInv, TypeOK
  <2> QED BY <2>1, ApplyType
<1>2. StoredSummaries(commits) \subseteq Summary
  BY StoredSummariesType DEF TypeInv, TypeOK, ArtifactsStored, FinalizedKeys
<1> QED BY <1>1, <1>2 DEF ReplayedRows, ReplayedSummaries, Rows, TypeInv, TypeOK

LEMMA NextTypeInv == TypeInv /\ [Next]_vars => TypeInv'
<1> SUFFICES ASSUME TypeInv, [Next]_vars PROVE TypeInv'
  OBVIOUS
<1> USE DEF authority, read
<1>1. ASSUME NEW k \in Keys, CreateProject(k) PROVE TypeInv'
  <2>1. EmptyMarker \in Hash
    BY DEF EmptyMarker, Hash
  <2>2. \A m \in manifests' : TypedManifest(m)
    BY <1>1, <2>1, ManifestType DEF CreateProject, Roots
  <2>3. ledger' \in [Keys -> [op: Operations, hash: Hash]]
    BY <1>1 DEF CreateProject, TypeInv, TypeOK, Operations
  <2> QED BY <1>1, <2>2, <2>3 DEF CreateProject, TypeInv, TypeOK, ArtifactsStored
<1>2. ASSUME NEW k \in Keys, NEW r \in Revisions, NEW c \in 1 .. MaxRevision, Prepare(k, r, c)
      PROVE  TypeInv'
  <2> DEFINE row == [state |-> "PREPARED", chapter |-> c, expected |-> r,
                     artifact |-> NoArtifact, resulting |-> 0]
  <2>1. row \in CommitRow /\ row.state = "PREPARED"
    <3>1. r \in Nat /\ c \in Nat
      BY InputsAssumption DEF Revisions
    <3> QED BY <3>1 DEF CommitRow, Durable
  <2>2. /\ commits' = [commits EXCEPT ![k] = row]
        /\ trail' = [trail EXCEPT ![k] = @ \o <<"PREPARED">>]
    BY <1>2 DEF Prepare, Walk
  <2> HIDE DEF row
  <2>3. commits' \in [Keys -> CommitRow] /\ trail' \in [Keys -> Seq(States)] /\ ArtifactsStored'
    BY <2>1, <2>2, LifecycleType DEF Durable
  <2>4. ledger' \in [Keys -> [op: Operations, hash: Hash]]
    BY <1>2 DEF Prepare, TypeInv, TypeOK, Operations
  <2> QED BY <1>2, <2>3, <2>4 DEF Prepare, TypeInv, TypeOK
<1>3. ASSUME NEW k \in Keys, NEW r \in Revisions, NEW a \in Artifacts,
             ValidateAccept(k, r, a) \/ ValidateReject(k, r, a)
      PROVE  TypeInv'
  <2>1. PICK to \in {"VALIDATED", "REJECTED"} :
          /\ commits' = [commits EXCEPT ![k] = [@ EXCEPT !.state = to, !.artifact = a]]
          /\ trail' = [trail EXCEPT ![k] = @ \o <<to>>]
    BY <1>3 DEF ValidateAccept, ValidateReject, Walk, TypeInv, TypeOK
  <2> DEFINE row == [commits[k] EXCEPT !.state = to, !.artifact = a]
  <2>2. row \in CommitRow /\ row.state = to /\ row.artifact \in Artifacts
    <3>1. commits[k] \in CommitRow
      BY DEF TypeInv, TypeOK
    <3> QED BY <3>1 DEF CommitRow, Durable
  <2>3. commits' = [commits EXCEPT ![k] = row]
    BY <2>1
  <2> HIDE DEF row
  <2>4. commits' \in [Keys -> CommitRow] /\ trail' \in [Keys -> Seq(States)] /\ ArtifactsStored'
    BY <2>1, <2>2, <2>3, LifecycleType DEF Durable
  <2> QED BY <1>3, <2>4 DEF ValidateAccept, ValidateReject, TypeInv, TypeOK
<1>4. ASSUME NEW k \in Keys, NEW r \in Revisions, NEW a \in Artifacts, Commit(k, r, a)
      PROVE  TypeInv'
  <2>1. r \in Nat
    BY InputsAssumption DEF Revisions
  <2>2. FinalizeChapter(k, r, a) /\ UNCHANGED <<project, jobs, inRecovery>>
    BY <1>4 DEF Commit
  <2> QED BY <2>1, <2>2, FinalizeType DEF TypeInv, TypeOK, Rows
<1>5. ASSUME NEW k \in Keys, NEW r \in Revisions, NEW d \in Diffs,
             AppendOperatorEvents(k, r, d)
      PROVE  TypeInv'
  <2> DEFINE rev == Boundary + 1
             es  == EventsOf(k, d, "operator", latest, rev)
             p   == ApplyLive(projection, es)
  <2>1. rev \in Nat /\ latest \in Nat /\ r \in Nat /\ projection \in Rows
    BY BoundaryType, InputsAssumption DEF TypeInv, TypeOK, Rows, Revisions
  <2>2. es \subseteq Event
    BY <2>1, EventsOfType DEF Payloads
  <2>3. p \in Rows
    <3> HIDE DEF es
    <3> QED BY <2>1, <2>2, ApplyType
  <2>4. HashOf(AllNames, p, summaries) \in Hash
    <3> HIDE DEF p
    <3> QED BY <2>3, HashType DEF TypeInv, TypeOK
  <2>5. /\ Allocate(k, r, "domain_command", d, es, p, summaries)
        /\ events' = events \cup es /\ projection' = p
        /\ checkpoints' = Checkpointed(p, summaries, rev)
        /\ ledger' = [ledger EXCEPT ![k] = [op |-> "events.append",
                                            hash |-> HashOf(AllNames, p, summaries)]]
        /\ outbox' = outbox \cup {OutboxRow(k, "search.index", 0, rev)}
        /\ UNCHANGED <<project, latest, commits, trail, summaries, jobs, inRecovery>>
    BY <1>5 DEF AppendOperatorEvents
  <2> HIDE DEF p, es, rev
  <2>6. revision' \in Nat /\ \A m \in manifests' : TypedManifest(m)
    BY <2>1, <2>2, <2>3, <2>5, AllocateType DEF TypeInv, TypeOK, Natives
  <2>7. ledger' \in [Keys -> [op: Operations, hash: Hash]]
    BY <2>4, <2>5 DEF TypeInv, TypeOK, Operations
  <2>8. \A x \in outbox' : x.key \in Keys /\ x.chapter \in Nat /\ x.revision \in Nat
    BY <2>1, <2>5 DEF TypeInv, TypeOK, OutboxRow
  <2>9. DOMAIN checkpoints' = AllNames
    BY <2>5 DEF Checkpointed
  <2> QED BY <2>2, <2>3, <2>5, <2>6, <2>7, <2>8, <2>9
          DEF TypeInv, TypeOK, ArtifactsStored, Rows
<1>6. ASSUME NEW k \in Keys, RecoverAbort(k) \/ StudioAbort(k) PROVE TypeInv'
  <2> DEFINE row == [commits[k] EXCEPT !.state = "ABORTED"]
  <2>1. /\ commits' = [commits EXCEPT ![k] = row]
        /\ trail' = [trail EXCEPT ![k] = @ \o <<"ABORTED">>]
    <3>1. Append(trail[k], "ABORTED") = trail[k] \o <<"ABORTED">>
      BY DEF TypeInv, TypeOK, States, Durable
    <3> QED BY <1>6, <3>1 DEF RecoverAbort, StudioAbort, Walk, TypeInv, TypeOK
  <2>2. row \in CommitRow /\ row.state = "ABORTED"
    <3>1. commits[k] \in CommitRow
      BY DEF TypeInv, TypeOK
    <3>2. "ABORTED" \in Durable
      BY DEF Durable
    <3> QED BY ONLY <3>1, <3>2, RowInState DEF row
  <2> HIDE DEF row
  <2>3. commits' \in [Keys -> CommitRow] /\ trail' \in [Keys -> Seq(States)] /\ ArtifactsStored'
    <3>1. "ABORTED" \in Durable /\ "ABORTED" \notin {"VALIDATED", "RECOVERY_REQUIRED", "FINALIZED"}
      BY DEF Durable
    <3> QED BY <2>1, <2>2, <3>1, LifecycleType
  <2> QED BY <1>6, <2>3 DEF RecoverAbort, StudioAbort, TypeInv, TypeOK
<1>7. ASSUME NEW k \in Keys, RecoverReset(k) PROVE TypeInv'
  <2>1. commits' \in [Keys -> CommitRow] /\ ArtifactsStored'
    <3> DEFINE row == [commits[k] EXCEPT !.state = "RECOVERY_REQUIRED", !.resulting = 0]
    <3>1. commits' = [commits EXCEPT ![k] = row]
      BY <1>7 DEF RecoverReset, TypeInv, TypeOK
    <3>2. row \in CommitRow /\ row.artifact = commits[k].artifact
      <4>1. commits[k] \in CommitRow
        BY DEF TypeInv, TypeOK
      <4>2. "RECOVERY_REQUIRED" \in Durable
        BY DEF Durable
      <4> QED BY ONLY <4>1, <4>2, RowReset DEF row
    <3>3. commits[k].artifact \in Artifacts
      BY <1>7 DEF RecoverReset, TypeInv, TypeOK, CommitRow, Durable, ArtifactsStored
    <3> HIDE DEF row
    <3> QED BY <3>1, <3>2, <3>3 DEF TypeInv, TypeOK, ArtifactsStored
  <2>2. trail' \in [Keys -> Seq(States)]
    <3>1. <<"RECOVERY_REQUIRED">> \in Seq(States)
      BY DEF States, Durable
    <3>2. CASE trail' = trail
      BY <3>2 DEF TypeInv, TypeOK
    <3>3. CASE trail' = [trail EXCEPT ![k] = @ \o <<"RECOVERY_REQUIRED">>]
      BY <3>1, <3>3 DEF TypeInv, TypeOK
    <3> QED BY <1>7, <3>2, <3>3 DEF RecoverReset, Walk
  <2>3. events' \subseteq Event /\ Unwritten \in Rows
    BY <1>7 DEF RecoverReset, TypeInv, TypeOK, Unwritten, Rows
  <2>4. projection' \in Rows
    <3> DEFINE kept == {e \in events' : e.source = "chapter" /\ e.owner \in FinalizedKeys}
    <3>1. projection' = ApplyRows(Unwritten, kept) /\ kept \in SUBSET Event
      BY <1>7, <2>3 DEF RecoverReset
    <3> HIDE DEF kept
    <3> QED BY <2>3, <3>1, ApplyType
  <2>5. summaries' \subseteq Summary
    BY <1>7, StoredSummariesType DEF RecoverReset, TypeInv, TypeOK, ArtifactsStored, FinalizedKeys
  <2> QED BY <1>7, <2>1, <2>2, <2>3, <2>4, <2>5 DEF RecoverReset, TypeInv, TypeOK, Rows
<1>8. ASSUME NEW k \in Keys, RecoverResume(k) PROVE TypeInv'
  <2>1. commits[k].expected \in Nat /\ commits[k].artifact \in Artifacts
    BY <1>8 DEF RecoverResume, TypeInv, TypeOK, CommitRow
  <2>2. /\ FinalizeChapter(k, commits[k].expected, commits[k].artifact)
        /\ inRecovery' = inRecovery \ {k} /\ UNCHANGED <<project, jobs>>
    BY <1>8 DEF RecoverResume
  <2> QED BY <2>1, <2>2, FinalizeType DEF TypeInv, TypeOK, Rows
<1>9. ASSUME (\E k \in Keys : RecoverGiveUp(k)) \/ Crash PROVE TypeInv'
  BY <1>9 DEF RecoverGiveUp, Crash, TypeInv, TypeOK, ArtifactsStored
<1>10. ASSUME NEW j \in ReplayKeys, NEW r \in Revisions, NEW scope \in ReplayScopes,
              NEW bounds \in ReplayBounds, NEW compare \in BOOLEAN,
              \/ ReplayVerify(j, r, scope, bounds, compare)
              \/ ReplayApply(j, r, scope, bounds, compare)
       PROVE  TypeInv'
  <2>1. jobs' \in [ReplayKeys -> {"NONE", "FINALIZED", "MISMATCH"}]
    BY <1>10 DEF ReplayVerify, ReplayApply, Outcome, TypeInv, TypeOK
  <2>2. CASE ReplayVerify(j, r, scope, bounds, compare)
    BY <2>1, <2>2 DEF ReplayVerify, TypeInv, TypeOK, ArtifactsStored
  <2>3. CASE ReplayApply(j, r, scope, bounds, compare)
    BY <2>1, <2>3, ReplayType
       DEF ReplayApply, Checkpointed, TypeInv, TypeOK, ArtifactsStored, Rows
  <2> QED BY <1>10, <2>2, <2>3
<1>11. CASE UNCHANGED vars
  BY <1>11 DEF vars, TypeInv, TypeOK, ArtifactsStored
<1> QED BY <1>1, <1>2, <1>3, <1>4, <1>5, <1>6, <1>7, <1>8, <1>9, <1>10, <1>11 DEF Next

(* Every reachable state is well typed, whatever the keys, payloads and    *)
(* projections; in particular no intermediate commit state is ever durable *)
(* and every commit past validation has its artifact stored.               *)
THEOREM TypeCorrect == Spec => []TypeOK
<1>1. TypeInv => TypeOK
  BY DEF TypeInv
<1> QED BY <1>1, InitTypeInv, NextTypeInv, PTL DEF Spec

----------------------------------------------------------------------------
(* What a publishing command adds: perhaps a bootstrap manifest, and one   *)
(* native manifest.                                                        *)
LEMMA PublishAddsOne ==
  ASSUME NEW m, m.kind \in Natives, manifests' = manifests \cup BootstrapManifests \cup {m}
  PROVE  NativeManifests' = NativeManifests \cup {m}
<1>1. \A b \in BootstrapManifests : b.kind \notin Natives
  BY DEF BootstrapManifests, Manifest, Natives
<1> QED BY <1>1 DEF NativeManifests

(* Publishing extends the chain.                                           *)
LEMMA PublishChain ==
  ASSUME TypeOK, ManifestChain, NEW k \in Keys, NEW base, NEW kind \in Natives,
         NEW payload, NEW es, NEW p, NEW s, Allocate(k, base, kind, payload, es, p, s)
  PROVE  ManifestChain'
<1> DEFINE n == Manifest(Boundary + 1, {Boundary}, kind, k, base, payload, es,
                         HashOf(AllNames, p, s))
           b == Manifest(Boundary, {}, "bootstrap", NoKey, revision, NoArtifact, {}, StateHash)
<1>1. /\ revision' = Boundary + 1 /\ Boundary \in Nat /\ revision \in Nat
      /\ n.revision = Boundary + 1 /\ n.kind = kind /\ n.previous = {Boundary}
      /\ n.base = revision
      /\ manifests' = manifests \cup BootstrapManifests \cup {n}
      /\ NativeManifests' = NativeManifests \cup {n}
  <2>1. revision \in Nat
    BY DEF TypeOK
  <2>2. manifests' = manifests \cup BootstrapManifests \cup {n}
    BY DEF Allocate
  <2>3. base = revision /\ revision' = Boundary + 1 /\ Boundary \in Nat
    BY BoundaryType DEF Allocate
  <2>4. n.revision = Boundary + 1 /\ n.kind = kind /\ n.previous = {Boundary} /\ n.base = revision
    BY <2>3 DEF Manifest
  <2> HIDE DEF n
  <2>5. NativeManifests' = NativeManifests \cup {n}
    BY <2>2, <2>4, PublishAddsOne
  <2> QED BY <2>1, <2>2, <2>3, <2>4, <2>5
<1>2. kind \notin Roots
  BY DEF Roots, Natives
<1>3. b.revision = Boundary /\ b.kind = "bootstrap" /\ b.previous = {}
  BY DEF Manifest
<1>4. CASE manifests = {}
  <2>1. manifests' = {b, n} /\ NativeManifests' = {n}
    BY <1>1, <1>4 DEF BootstrapManifests, NativeManifests
  <2>2. revision = Boundary \/ (revision = 0 /\ Boundary = 1)
    BY BoundaryType
  <2> HIDE DEF n, b
  <2>3. {m.revision : m \in manifests'} = {Boundary, Boundary + 1}
    BY <1>1, <1>3, <2>1
  <2>4. {Boundary, Boundary + 1} = b.revision .. revision'
    BY <1>1, <1>3
  <2>5. b.kind \in Roots /\ \A m \in manifests' : m.kind \in Roots => m = b
    BY <1>1, <1>2, <1>3, <2>1 DEF Roots
  <2>6. \A m \in NativeManifests' :
          /\ m.base = m.revision - 1 \/ (m.base = 0 /\ m.revision = b.revision + 1)
          /\ m.previous = {m.revision - 1}
    BY <1>1, <1>3, <2>1, <2>2
  <2>7. \A m, x \in manifests' : m.revision = x.revision => m = x
    BY <1>1, <1>3, <2>1
  <2> QED BY <1>3, <2>1, <2>3, <2>4, <2>5, <2>6, <2>7 DEF ManifestChain
<1>5. CASE manifests # {}
  <2>1. Boundary = revision /\ manifests' = manifests \cup {n}
    BY <1>1, <1>5, BoundaryType DEF BootstrapManifests
  <2> HIDE DEF n, b
  <2>2. PICK root \in manifests :
          /\ root.kind \in Roots /\ root.previous = {}
          /\ {m.revision : m \in manifests} = root.revision .. revision
          /\ \A m \in manifests : m.kind \in Roots => m = root
          /\ \A m \in NativeManifests :
               m.base = m.revision - 1 \/ (m.base = 0 /\ m.revision = root.revision + 1)
    BY <1>5 DEF ManifestChain
  <2>3. root.revision \in Nat /\ root.revision <= revision
    BY <1>1, <2>2 DEF TypeOK, TypedManifest
  <2>4. {m.revision : m \in manifests'} = root.revision .. revision'
    <3>1. {m.revision : m \in manifests'} = {m.revision : m \in manifests} \cup {n.revision}
      BY <2>1
    <3>2. (root.revision .. revision) \cup {revision + 1} = root.revision .. (revision + 1)
      BY <1>1, <2>3
    <3> QED BY <1>1, <2>1, <2>2, <3>1, <3>2
  <2>5. \A m \in manifests' : m.kind \in Roots => m = root
    BY <1>1, <1>2, <2>1, <2>2
  <2>6. \A m \in NativeManifests' :
          m.base = m.revision - 1 \/ (m.base = 0 /\ m.revision = root.revision + 1)
    BY <1>1, <2>1, <2>2
  <2>7. \A m, x \in manifests' : m.revision = x.revision => m = x
    <3>1. \A m \in manifests : m.revision \in root.revision .. revision
      BY <2>2
    <3>2. \A m \in manifests : m.revision # n.revision
      BY <1>1, <2>1, <2>3, <3>1
    <3> QED BY <2>1, <3>2 DEF ManifestChain
  <2>8. \A m \in NativeManifests' : m.previous = {m.revision - 1}
    BY <1>1, <2>1 DEF ManifestChain
  <2>9. root \in manifests'
    BY <2>1, <2>2
  <2> QED BY <2>2, <2>4, <2>5, <2>6, <2>7, <2>8, <2>9 DEF ManifestChain
<1> QED BY <1>4, <1>5

----------------------------------------------------------------------------
(* The parts of HistoryInv beyond types.                                   *)
CommandsAccounted == AbsentIsEmpty /\ LedgerKnowsKeys /\ CommitMatchesManifest /\ KeysSpentOnce
ChaptersOrdered == ChaptersInReach /\ ChaptersContiguous

(* A step that publishes nothing and leaves the finalized commits alone    *)
(* keeps the history.                                                      *)
LEMMA QuietStep ==
  ASSUME HistoryInv, revision' = revision, latest' = latest, manifests' = manifests,
         project' = "absent" => project = "absent",
         \A x \in Keys :
           /\ commits[x].state = "FINALIZED" => commits'[x] = commits[x]
           /\ commits'[x].state = "FINALIZED" => commits[x].state = "FINALIZED"
           /\ commits'[x].state # "NONE" => /\ ledger'[x].op = "chapter.lifecycle"
                                            /\ commits'[x].chapter \in 1 .. latest + 1
           /\ ledger[x].op = "events.append" => ledger'[x].op = "events.append"
           /\ ledger'[x].hash = ledger[x].hash
  PROVE  ManifestChain' /\ CommandsAccounted' /\ ChaptersOrdered'
<1>1. NativeManifests' = NativeManifests
  BY DEF NativeManifests
<1>2. FinalizedKeys' = FinalizedKeys
  BY DEF FinalizedKeys
<1>3. \A x \in FinalizedKeys : x \in Keys /\ commits'[x] = commits[x]
  BY DEF FinalizedKeys
<1>4. ManifestChain'
  BY <1>1 DEF HistoryInv, ManifestChain
<1>5. AbsentIsEmpty' /\ LedgerKnowsKeys'
  BY <1>1 DEF HistoryInv, AbsentIsEmpty, LedgerKnowsKeys
<1>6. CommitMatchesManifest'
  BY <1>2, <1>3 DEF HistoryInv, CommitMatchesManifest
<1>7. KeysSpentOnce'
  BY <1>1 DEF HistoryInv, KeysSpentOnce, LedgerKnowsKeys
<1>8. ChaptersInReach'
  BY <1>2, <1>3 DEF HistoryInv, ChaptersInReach, FinalizedKeys
<1>9. ChaptersContiguous'
  <2>1. {commits'[x].chapter : x \in FinalizedKeys'} = {commits[x].chapter : x \in FinalizedKeys}
    BY <1>2, <1>3
  <2> QED BY <1>2, <1>3, <2>1 DEF HistoryInv, ChaptersContiguous
<1> QED BY <1>4, <1>5, <1>6, <1>7, <1>8, <1>9 DEF CommandsAccounted, ChaptersOrdered

(* What a chapter's transaction changes: its commit becomes final as the   *)
(* next chapter, at a new highest revision, with a native manifest of its  *)
(* key, which had none.                                                    *)
LEMMA FinalizeEffect ==
  ASSUME HistoryInv, NEW k \in Keys, NEW expected, NEW a \in Artifacts,
         FinalizeChapter(k, expected, a)
  PROVE  /\ \E m : /\ m.kind = "chapter_finalize" /\ m.key = k /\ m.payload = a
                   /\ m.revision = revision' /\ m.hash = ledger'[k].hash
                   /\ m \in manifests' /\ manifests \subseteq manifests'
                   /\ NativeManifests' = NativeManifests \cup {m}
         /\ revision' \in Nat /\ revision < revision'
         /\ latest' = latest + 1 /\ commits[k].chapter = latest + 1
         /\ FinalizedKeys' = FinalizedKeys \cup {k} /\ k \notin FinalizedKeys
         /\ \A x \in Keys : x # k => commits'[x] = commits[x] /\ ledger'[x] = ledger[x]
         /\ commits'[k].state = "FINALIZED" /\ commits'[k].resulting = revision'
         /\ commits'[k].artifact = a /\ commits'[k].chapter = latest + 1
         /\ ledger'[k].op = ledger[k].op /\ ledger[k].op = "chapter.lifecycle"
         /\ \A n \in NativeManifests : n.key \in Keys /\ n.key # k
<1> DEFINE c   == commits[k]
           es  == EventsOf(k, a, "chapter", c.chapter, Boundary + 1)
           p   == ApplyLive(projection, es)
           s   == {x \in summaries : x.chapter # c.chapter}
                    \cup {[chapter |-> c.chapter, artifact |-> a]}
           hash == HashOf(AllNames, p, s)
           m   == Manifest(Boundary + 1, {Boundary}, "chapter_finalize", k, expected, a, es, hash)
<1>1. TypeOK /\ commits \in [Keys -> CommitRow] /\ revision \in Nat /\ latest \in Nat
  BY DEF HistoryInv, TypeInv, TypeOK
<1>2. /\ Allocate(k, expected, "chapter_finalize", a, es, p, s)
      /\ latest' = c.chapter
      /\ commits' = [commits EXCEPT ![k].state = "FINALIZED", ![k].resulting = Boundary + 1]
      /\ ledger' = [ledger EXCEPT ![k].hash = hash]
      /\ c.artifact = a
      /\ c.state \in {"VALIDATED", "RECOVERY_REQUIRED"}
      /\ ChapterIsFree(k)
  BY DEF FinalizeChapter
<1> HIDE DEF es, p, s
<1>3. manifests' = manifests \cup BootstrapManifests \cup {m}
  BY <1>2 DEF Allocate
<1>4. /\ m.revision = Boundary + 1 /\ m.kind = "chapter_finalize" /\ m.key = k
      /\ m.payload = a /\ m.hash = hash
  BY DEF Manifest
<1> HIDE DEF m, hash
<1>5. NativeManifests' = NativeManifests \cup {m}
  BY <1>3, <1>4, PublishAddsOne DEF Natives
<1>6. /\ revision' = Boundary + 1 /\ Boundary \in Nat /\ revision <= Boundary
      /\ revision' \in Nat /\ revision < revision'
  BY <1>1, <1>2, BoundaryType DEF Allocate
<1>7. /\ \A x \in Keys : x # k => commits'[x] = commits[x] /\ ledger'[x] = ledger[x]
      /\ commits'[k].state = "FINALIZED" /\ commits'[k].resulting = Boundary + 1
      /\ commits'[k].artifact = a /\ commits'[k].chapter = c.chapter
      /\ ledger'[k].hash = hash /\ ledger'[k].op = ledger[k].op
  BY <1>1, <1>2 DEF CommitRow, TypeOK
<1>8. FinalizedKeys' = FinalizedKeys \cup {k} /\ k \notin FinalizedKeys
  BY <1>2, <1>7 DEF FinalizedKeys
<1>9. c.chapter = latest + 1
  <2>1. c.chapter \in 1 .. latest + 1
    BY <1>2 DEF HistoryInv, ChaptersInReach
  <2>2. c.chapter \notin 1 .. latest
    BY <1>2 DEF HistoryInv, ChaptersContiguous, ChapterIsFree
  <2> QED BY <1>1, <2>1, <2>2
<1>10. ledger[k].op = "chapter.lifecycle"
  BY <1>2 DEF HistoryInv, LedgerKnowsKeys
<1>11. \A n \in NativeManifests : n.key \in Keys /\ n.key # k
  BY <1>8, <1>10 DEF HistoryInv, LedgerKnowsKeys, CommitMatchesManifest, NativeManifests,
                     Natives
<1>12. m \in manifests' /\ manifests \subseteq manifests'
  BY <1>3
<1>13. \E n : /\ n.kind = "chapter_finalize" /\ n.key = k /\ n.payload = a
              /\ n.revision = revision' /\ n.hash = ledger'[k].hash
              /\ n \in manifests' /\ manifests \subseteq manifests'
              /\ NativeManifests' = NativeManifests \cup {n}
  BY <1>4, <1>5, <1>6, <1>7, <1>12
<1> QED BY <1>2, <1>6, <1>7, <1>8, <1>9, <1>10, <1>11, <1>13

(* A chapter's transaction keeps the history.                              *)
LEMMA FinalizeStep ==
  ASSUME HistoryInv, NEW k \in Keys, NEW expected, NEW a \in Artifacts,
         FinalizeChapter(k, expected, a), project' = project
  PROVE  ManifestChain' /\ CommandsAccounted' /\ ChaptersOrdered'
<1>1. /\ TypeOK /\ commits \in [Keys -> CommitRow] /\ revision \in Nat /\ latest \in Nat
      /\ project = "runtime"
  BY DEF HistoryInv, TypeInv, TypeOK, FinalizeChapter, RuntimeAt
<1>2. PICK m : /\ m.kind = "chapter_finalize" /\ m.key = k /\ m.payload = a
               /\ m.revision = revision' /\ m.hash = ledger'[k].hash
               /\ m \in manifests' /\ manifests \subseteq manifests'
               /\ NativeManifests' = NativeManifests \cup {m}
  BY FinalizeEffect
<1>3. revision' \in Nat /\ revision < revision'
  BY FinalizeEffect
<1>4. ManifestChain'
  <2> DEFINE es  == EventsOf(k, a, "chapter", commits[k].chapter, Boundary + 1)
             p   == ApplyLive(projection, es)
             s   == {x \in summaries : x.chapter # commits[k].chapter}
                      \cup {[chapter |-> commits[k].chapter, artifact |-> a]}
  <2>1. Allocate(k, expected, "chapter_finalize", a, es, p, s)
    BY DEF FinalizeChapter
  <2> HIDE DEF es, p, s
  <2> QED BY <1>1, <2>1, PublishChain DEF HistoryInv, Natives
<1>5. /\ \A x \in Keys : x # k => commits'[x] = commits[x] /\ ledger'[x] = ledger[x]
      /\ commits'[k].state = "FINALIZED" /\ commits'[k].resulting = revision'
      /\ commits'[k].artifact = a /\ commits'[k].chapter = latest + 1
      /\ ledger'[k].op = ledger[k].op
  BY FinalizeEffect
<1>6. FinalizedKeys' = FinalizedKeys \cup {k} /\ k \notin FinalizedKeys
  BY FinalizeEffect
<1>7. latest' = latest + 1
  BY FinalizeEffect
<1>8. ledger[k].op = "chapter.lifecycle" /\ \A n \in NativeManifests : n.key \in Keys /\ n.key # k
  BY FinalizeEffect
<1>9. AbsentIsEmpty' /\ LedgerKnowsKeys'
  BY <1>1, <1>2, <1>5, <1>8 DEF HistoryInv, AbsentIsEmpty, LedgerKnowsKeys
<1>10. CommitMatchesManifest'
  <2>1. \A n \in manifests' : n.kind = "chapter_finalize" => n.key \in FinalizedKeys'
    BY <1>2, <1>6 DEF HistoryInv, CommitMatchesManifest, NativeManifests, Natives
  <2>2. ASSUME NEW x \in FinalizedKeys'
        PROVE  \E n \in manifests' : /\ n.kind = "chapter_finalize" /\ n.key = x
                                     /\ n.revision = commits'[x].resulting
                                     /\ n.payload = commits'[x].artifact
    <3>1. CASE x = k
      BY <1>2, <1>5, <3>1
    <3>2. CASE x # k
      BY <1>2, <1>5, <1>6, <3>2 DEF HistoryInv, CommitMatchesManifest, FinalizedKeys
    <3> QED BY <3>1, <3>2
  <2> QED BY <2>1, <2>2 DEF CommitMatchesManifest
<1>11. KeysSpentOnce'
  BY <1>2, <1>5, <1>8 DEF HistoryInv, KeysSpentOnce
<1>12. ChaptersInReach'
  <2>1. ASSUME NEW x \in Keys, commits'[x].state # "NONE"
        PROVE  commits'[x].chapter \in 1 .. latest' + 1
    BY <1>1, <1>5, <1>7, <2>1 DEF HistoryInv, ChaptersInReach
  <2>2. ASSUME NEW x \in Keys, commits'[x].state = "FINALIZED"
        PROVE  commits'[x].resulting <= revision'
    BY <1>1, <1>3, <1>5, <2>2 DEF HistoryInv, ChaptersInReach, CommitRow
  <2> QED BY <2>1, <2>2 DEF ChaptersInReach
<1>13. ChaptersContiguous'
  <2>1. \A x \in FinalizedKeys : /\ x \in Keys /\ x # k /\ commits'[x] = commits[x]
                                 /\ commits[x].chapter \in 1 .. latest
                                 /\ commits[x].resulting \in Nat
                                 /\ commits[x].resulting <= revision
    BY <1>1, <1>5, <1>6 DEF HistoryInv, ChaptersContiguous, ChaptersInReach, FinalizedKeys, CommitRow
  <2>2. {commits'[x].chapter : x \in FinalizedKeys'} = 1 .. latest'
    <3>1. {commits'[x].chapter : x \in FinalizedKeys'}
            = {commits[x].chapter : x \in FinalizedKeys} \cup {latest + 1}
      BY <1>5, <1>6, <2>1
    <3>2. (1 .. latest) \cup {latest + 1} = 1 .. (latest + 1)
      BY <1>1
    <3> QED BY <1>7, <3>1, <3>2 DEF HistoryInv, ChaptersContiguous
  <2>3. \A x, y \in FinalizedKeys' :
          /\ commits'[x].chapter < commits'[y].chapter
               <=> commits'[x].resulting < commits'[y].resulting
          /\ commits'[x].chapter = commits'[y].chapter => x = y
    <3>1. ASSUME NEW x \in FinalizedKeys
          PROVE  /\ commits'[x].chapter < commits'[k].chapter
                 /\ commits'[x].resulting < commits'[k].resulting
      BY <1>1, <1>3, <1>5, <1>7, <2>1
    <3>2. commits'[k].chapter \in Nat /\ commits'[k].resulting \in Nat
      BY <1>1, <1>3, <1>5, <1>7
    <3>3. \A x, y \in FinalizedKeys :
          /\ commits'[x].chapter < commits'[y].chapter
               <=> commits'[x].resulting < commits'[y].resulting
          /\ commits'[x].chapter = commits'[y].chapter => x = y
      BY <2>1 DEF HistoryInv, ChaptersContiguous
    <3>4. \A x \in FinalizedKeys : commits'[x].chapter \in Nat /\ commits'[x].resulting \in Nat
      BY <1>1, <2>1
    <3> QED BY <1>6, <3>1, <3>2, <3>3, <3>4
  <2> QED BY <2>2, <2>3 DEF ChaptersContiguous
<1> QED BY <1>4, <1>9, <1>10, <1>11, <1>12, <1>13 DEF CommandsAccounted, ChaptersOrdered

(* What an operator append changes: a native manifest of its key, which    *)
(* had none, at a new highest revision; no commit moves.                   *)
LEMMA AppendEffect ==
  ASSUME HistoryInv, NEW k \in Keys, NEW expected, NEW d \in Diffs,
         AppendOperatorEvents(k, expected, d)
  PROVE  /\ \E m : /\ m.kind = "domain_command" /\ m.key = k /\ m.payload = d
                   /\ m.revision = revision' /\ m.hash = ledger'[k].hash
                   /\ manifests \subseteq manifests'
                   /\ NativeManifests' = NativeManifests \cup {m}
         /\ revision' \in Nat /\ revision < revision'
         /\ latest' = latest /\ commits' = commits /\ project' = "runtime"
         /\ \A x \in Keys : x # k => ledger'[x] = ledger[x]
         /\ ledger'[k].op = "events.append" /\ commits[k].state = "NONE"
         /\ \A n \in NativeManifests : n.key \in Keys /\ n.key # k
<1> DEFINE es   == EventsOf(k, d, "operator", latest, Boundary + 1)
           p    == ApplyLive(projection, es)
           hash == HashOf(AllNames, p, summaries)
           m    == Manifest(Boundary + 1, {Boundary}, "domain_command", k, expected, d, es, hash)
<1>1. TypeOK /\ revision \in Nat
  BY DEF HistoryInv, TypeInv, TypeOK
<1>2. /\ Allocate(k, expected, "domain_command", d, es, p, summaries)
      /\ latest' = latest /\ commits' = commits /\ project' = "runtime"
      /\ ledger' = [ledger EXCEPT ![k] = [op |-> "events.append", hash |-> hash]]
      /\ ledger[k].op = "none"
  BY DEF AppendOperatorEvents, Unused, RuntimeAt
<1> HIDE DEF es, p
<1>3. manifests' = manifests \cup BootstrapManifests \cup {m}
  BY <1>2 DEF Allocate
<1>4. /\ m.revision = Boundary + 1 /\ m.kind = "domain_command" /\ m.key = k
      /\ m.payload = d /\ m.hash = hash
  BY DEF Manifest
<1> HIDE DEF m, hash
<1>5. NativeManifests' = NativeManifests \cup {m} /\ manifests \subseteq manifests'
  BY <1>3, <1>4, PublishAddsOne DEF Natives
<1>6. revision' = Boundary + 1 /\ revision' \in Nat /\ revision < revision'
  BY <1>1, <1>2, BoundaryType DEF Allocate
<1>7. /\ \A x \in Keys : x # k => ledger'[x] = ledger[x]
      /\ ledger'[k].hash = hash /\ ledger'[k].op = "events.append"
  BY <1>1, <1>2 DEF TypeOK
<1>8. commits[k].state = "NONE"
  BY <1>2 DEF HistoryInv, LedgerKnowsKeys
<1>9. \A n \in NativeManifests : n.key \in Keys /\ n.key # k
  BY <1>2, <1>8 DEF HistoryInv, LedgerKnowsKeys, CommitMatchesManifest, FinalizedKeys,
                    NativeManifests, Natives
<1>10. \E n : /\ n.kind = "domain_command" /\ n.key = k /\ n.payload = d
              /\ n.revision = revision' /\ n.hash = ledger'[k].hash
              /\ manifests \subseteq manifests'
              /\ NativeManifests' = NativeManifests \cup {n}
  BY <1>4, <1>5, <1>6, <1>7
<1> QED BY <1>2, <1>6, <1>7, <1>8, <1>9, <1>10

(* An operator append keeps the history.                                   *)
LEMMA AppendStep ==
  ASSUME HistoryInv, NEW k \in Keys, NEW expected, NEW d \in Diffs,
         AppendOperatorEvents(k, expected, d)
  PROVE  ManifestChain' /\ CommandsAccounted' /\ ChaptersOrdered'
<1>1. TypeOK /\ commits \in [Keys -> CommitRow] /\ revision \in Nat
  BY DEF HistoryInv, TypeInv, TypeOK
<1>2. PICK m : /\ m.kind = "domain_command" /\ m.key = k
               /\ m.hash = ledger'[k].hash
               /\ manifests \subseteq manifests'
               /\ NativeManifests' = NativeManifests \cup {m}
  BY AppendEffect
<1>3. /\ revision' \in Nat /\ revision < revision'
      /\ latest' = latest /\ commits' = commits /\ project' = "runtime"
      /\ \A x \in Keys : x # k => ledger'[x] = ledger[x]
      /\ ledger'[k].op = "events.append" /\ commits[k].state = "NONE"
  BY AppendEffect
<1>4. \A n \in NativeManifests : n.key \in Keys /\ n.key # k
  BY AppendEffect
<1>5. ManifestChain'
  <2> DEFINE es == EventsOf(k, d, "operator", latest, Boundary + 1)
             p  == ApplyLive(projection, es)
  <2>1. Allocate(k, expected, "domain_command", d, es, p, summaries)
    BY DEF AppendOperatorEvents
  <2> HIDE DEF es, p
  <2> QED BY <1>1, <2>1, PublishChain DEF HistoryInv, Natives
<1>6. FinalizedKeys' = FinalizedKeys
  BY <1>3 DEF FinalizedKeys
<1>7. AbsentIsEmpty' /\ LedgerKnowsKeys'
  BY <1>2, <1>3, <1>4 DEF HistoryInv, AbsentIsEmpty, LedgerKnowsKeys
<1>8. CommitMatchesManifest'
  <2>1. \A n \in manifests' : n.kind = "chapter_finalize" => n \in manifests
    BY <1>2 DEF NativeManifests, Natives
  <2> QED BY <1>2, <1>3, <1>6, <2>1 DEF HistoryInv, CommitMatchesManifest
<1>9. KeysSpentOnce'
  BY <1>2, <1>3, <1>4 DEF HistoryInv, KeysSpentOnce
<1>10. ChaptersInReach'
  BY <1>1, <1>3 DEF HistoryInv, ChaptersInReach, CommitRow
<1>11. ChaptersContiguous'
  BY <1>3, <1>6 DEF HistoryInv, ChaptersContiguous
<1> QED BY <1>5, <1>7, <1>8, <1>9, <1>10, <1>11 DEF CommandsAccounted, ChaptersOrdered

(* Creating the project starts an empty history.                           *)
LEMMA CreateStep ==
  ASSUME HistoryInv, NEW k \in Keys, CreateProject(k)
  PROVE  ManifestChain' /\ CommandsAccounted' /\ ChaptersOrdered'
<1> DEFINE m == Manifest(0, {}, "initialize_empty", k, 0, NoArtifact, {}, EmptyMarker)
<1>1. /\ manifests = {} /\ manifests' = {m} /\ revision' = 0 /\ latest' = latest
      /\ latest = 0 /\ revision = 0 /\ commits' = commits /\ project' = "runtime"
      /\ ledger' = [ledger EXCEPT ![k].op = "project.create"] /\ ledger[k].op = "none"
  BY DEF CreateProject, Unused, HistoryInv, AbsentIsEmpty
<1>2. m.revision = 0 /\ m.previous = {} /\ m.kind = "initialize_empty"
  BY DEF Manifest
<1> HIDE DEF m
<1>3. NativeManifests' = {}
  BY <1>1, <1>2 DEF NativeManifests, Natives
<1>4. ManifestChain'
  <2>1. {n.revision : n \in manifests'} = m.revision .. revision'
    BY <1>1, <1>2
  <2> QED BY <1>1, <1>2, <1>3, <2>1 DEF ManifestChain, Roots
<1>5. FinalizedKeys = {} /\ FinalizedKeys' = {}
  BY <1>1 DEF FinalizedKeys, HistoryInv, CommitMatchesManifest
<1>6. CommandsAccounted'
  <2>1. AbsentIsEmpty' /\ LedgerKnowsKeys'
    BY <1>1, <1>3 DEF HistoryInv, AbsentIsEmpty, LedgerKnowsKeys, TypeInv, TypeOK
  <2>2. CommitMatchesManifest' /\ KeysSpentOnce'
    BY <1>1, <1>2, <1>3, <1>5 DEF CommitMatchesManifest, KeysSpentOnce
  <2> QED BY <2>1, <2>2 DEF CommandsAccounted
<1>7. ChaptersOrdered'
  BY <1>1, <1>5 DEF HistoryInv, ChaptersOrdered, ChaptersInReach, ChaptersContiguous, FinalizedKeys
<1> QED BY <1>4, <1>6, <1>7

LEMMA InitHistoryInv == Init => HistoryInv
<1> SUFFICES ASSUME Init PROVE HistoryInv
  OBVIOUS
<1>1. TypeInv
  BY InitTypeInv
<1>2. \A k \in Keys : commits[k].state = "NONE"
  BY DEF Init, NoCommit
<1>3. FinalizedKeys = {} /\ latest = 0
  BY <1>2 DEF FinalizedKeys, Init
<1>4. NativeManifests = {}
  BY DEF Init, InitProject, NativeManifests, Natives, Manifest
<1>5. ASSUME manifests = {} PROVE ManifestChain
  BY <1>5 DEF ManifestChain, NativeManifests
<1>6. ASSUME manifests # {} PROVE ManifestChain
  <2>1. PICK m : /\ manifests = {m} /\ m.revision = revision /\ m.previous = {}
                 /\ m.kind = "bootstrap"
    <3>1. PICK p : InitProject("imported", 1, p)
      BY <1>6 DEF Init, InitProject
    <3>2. PICK m : /\ m = Manifest(1, {}, "bootstrap", NoKey, 1, NoArtifact, {},
                                   HashOf(AllNames, p, {}))
                   /\ manifests = {m}
      BY <3>1 DEF InitProject
    <3>3. m.revision = 1 /\ m.previous = {} /\ m.kind = "bootstrap" /\ revision = 1
      BY <3>1, <3>2 DEF InitProject, Manifest
    <3> QED BY <3>2, <3>3
  <2>2. {n.revision : n \in manifests} = m.revision .. revision
    BY <1>1, <2>1 DEF TypeInv, TypeOK
  <2> QED BY <1>4, <2>1, <2>2 DEF ManifestChain, Roots
<1>7. AbsentIsEmpty
  BY DEF Init, InitProject, AbsentIsEmpty
<1>8. LedgerKnowsKeys /\ KeysSpentOnce
  BY <1>2, <1>4 DEF LedgerKnowsKeys, KeysSpentOnce
<1>9. CommitMatchesManifest
  BY <1>3, <1>4 DEF CommitMatchesManifest, NativeManifests, Natives
<1>10. ChaptersInReach /\ ChaptersContiguous
  BY <1>2, <1>3 DEF ChaptersInReach, ChaptersContiguous
<1> QED BY <1>1, <1>5, <1>6, <1>7, <1>8, <1>9, <1>10 DEF HistoryInv

LEMMA NextHistoryInv == HistoryInv /\ [Next]_vars => HistoryInv'
<1> SUFFICES ASSUME HistoryInv, [Next]_vars PROVE HistoryInv'
  OBVIOUS
<1> USE DEF authority, read
<1> DEFINE Goal == ManifestChain' /\ CommandsAccounted' /\ ChaptersOrdered'
<1>0. /\ commits \in [Keys -> CommitRow] /\ latest \in Nat
      /\ ledger \in [Keys -> [op: Operations, hash: Hash]]
  BY DEF HistoryInv, TypeInv, TypeOK
<1>1. /\ \A x \in Keys : commits[x].state # "NONE" =>
           /\ ledger[x].op = "chapter.lifecycle"
           /\ commits[x].chapter \in 1 .. latest + 1
  BY DEF HistoryInv, LedgerKnowsKeys, ChaptersInReach
<1>2. ASSUME NEW k \in Keys, CreateProject(k) PROVE Goal
  BY <1>2, CreateStep
<1>3. ASSUME NEW k \in Keys, NEW r \in Revisions, NEW c \in 1 .. MaxRevision, Prepare(k, r, c)
      PROVE  Goal
  <2>1. /\ revision' = revision /\ latest' = latest /\ manifests' = manifests
        /\ project' = project /\ commits[k].state = "NONE" /\ ledger[k].op = "none"
        /\ c = latest + 1
    BY <1>3 DEF Prepare, Unused
  <2>2. /\ commits'[k].state = "PREPARED" /\ commits'[k].chapter = latest + 1
        /\ ledger'[k].op = "chapter.lifecycle" /\ ledger'[k].hash = ledger[k].hash
        /\ \A x \in Keys : x # k => commits'[x] = commits[x] /\ ledger'[x] = ledger[x]
    BY <1>0, <1>3, <2>1 DEF Prepare
  <2>3. latest + 1 \in 1 .. latest + 1
    BY <1>0
  <2> QED BY <1>1, <2>1, <2>2, <2>3, QuietStep
<1>4. ASSUME NEW k \in Keys, NEW r \in Revisions, NEW a \in Artifacts,
             ValidateAccept(k, r, a) \/ ValidateReject(k, r, a)
      PROVE  Goal
  <2>1. /\ revision' = revision /\ latest' = latest /\ manifests' = manifests
        /\ project' = project /\ commits[k].state = "PREPARED" /\ ledger' = ledger
    BY <1>4 DEF ValidateAccept, ValidateReject
  <2>2. /\ commits'[k].state \in {"VALIDATED", "REJECTED"}
        /\ commits'[k].chapter = commits[k].chapter
        /\ \A x \in Keys : x # k => commits'[x] = commits[x]
    BY <1>0, <1>4 DEF ValidateAccept, ValidateReject, CommitRow
  <2> QED BY <1>1, <2>1, <2>2, QuietStep
<1>5. ASSUME NEW k \in Keys, NEW r \in Revisions, NEW a \in Artifacts, Commit(k, r, a)
      PROVE  Goal
  BY <1>5, FinalizeStep DEF Commit
<1>6. ASSUME NEW k \in Keys, NEW r \in Revisions, NEW d \in Diffs,
             AppendOperatorEvents(k, r, d)
      PROVE  Goal
  BY <1>6, AppendStep
<1>7. ASSUME NEW k \in Keys, RecoverAbort(k) \/ StudioAbort(k) \/ RecoverReset(k)
      PROVE  Goal
  <2>1. /\ revision' = revision /\ latest' = latest /\ manifests' = manifests
        /\ project' = project /\ commits[k].state \notin {"NONE", "FINALIZED"}
        /\ ledger' = ledger
    BY <1>7 DEF RecoverAbort, StudioAbort, RecoverReset
  <2>2. /\ commits'[k].state \in {"ABORTED", "RECOVERY_REQUIRED"}
        /\ commits'[k].chapter = commits[k].chapter
        /\ \A x \in Keys : x # k => commits'[x] = commits[x]
    BY <1>0, <1>7 DEF RecoverAbort, StudioAbort, RecoverReset, CommitRow
  <2> QED BY <1>1, <2>1, <2>2, QuietStep
<1>8. ASSUME NEW k \in Keys, RecoverResume(k) PROVE Goal
  <2>1. commits[k].artifact \in Artifacts
    BY <1>0, <1>8 DEF RecoverResume, CommitRow
  <2> QED BY <1>8, <2>1, FinalizeStep DEF RecoverResume
<1>9. ASSUME \/ \E k \in Keys : RecoverGiveUp(k)
             \/ Crash
             \/ \E j \in ReplayKeys, r \in Revisions, scope \in ReplayScopes,
                   bounds \in ReplayBounds, compare \in BOOLEAN :
                     \/ ReplayVerify(j, r, scope, bounds, compare)
                     \/ ReplayApply(j, r, scope, bounds, compare)
             \/ UNCHANGED vars
      PROVE  Goal
  <2>1. UNCHANGED <<project, revision, latest, manifests, commits, ledger>>
    BY <1>9 DEF RecoverGiveUp, Crash, ReplayVerify, ReplayApply, vars
  <2> QED BY <1>1, <2>1, QuietStep
<1>10. Goal
  BY <1>2, <1>3, <1>4, <1>5, <1>6, <1>7, <1>8, <1>9 DEF Next
<1>11. TypeInv'
  BY NextTypeInv DEF HistoryInv
<1> QED BY <1>10, <1>11 DEF HistoryInv, CommandsAccounted, ChaptersOrdered

----------------------------------------------------------------------------
(* The project's manifests always form one gapless chain from a single     *)
(* root to the head, each native one made against its predecessor, however *)
(* chapters, operator appends, recoveries and replays interleave.          *)
THEOREM ChainHolds == Spec => []ManifestChain
<1>1. HistoryInv => ManifestChain
  BY DEF HistoryInv
<1> QED BY <1>1, InitHistoryInv, NextHistoryInv, PTL DEF Spec

(* Every finalized commit has its manifest, with its revision and artifact, *)
(* and no chapter manifest exists for a commit that is not finalized.      *)
THEOREM CommitsMatch == Spec => []CommitMatchesManifest
<1>1. HistoryInv => CommitMatchesManifest
  BY DEF HistoryInv
<1> QED BY <1>1, InitHistoryInv, NextHistoryInv, PTL DEF Spec

(* An idempotency key buys at most one revision across all operations, and *)
(* the ledger's answer is the one the manifest of that revision attests.   *)
THEOREM KeysOnce == Spec => []KeysSpentOnce
<1>1. HistoryInv => KeysSpentOnce
  BY DEF HistoryInv
<1> QED BY <1>1, InitHistoryInv, NextHistoryInv, PTL DEF Spec

(* The finalized chapters are 1 .. latest, each once, in revision order,   *)
(* whatever commits were prepared for the same chapter side by side.       *)
THEOREM ChaptersInOrder == Spec => []ChaptersContiguous
<1>1. HistoryInv => ChaptersContiguous
  BY DEF HistoryInv
<1> QED BY <1>1, InitHistoryInv, NextHistoryInv, PTL DEF Spec
=============================================================================
