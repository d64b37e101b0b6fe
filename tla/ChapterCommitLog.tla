-------------------------- MODULE ChapterCommitLog --------------------------
(***************************************************************************)
(* The event log, the audit trail and the finality of a commit, proved on  *)
(* top of the history of ChapterCommitSafety.  Together with it they make  *)
(* IndInv inductive.  On the same history rests that the commit service    *)
(* implements StoryLedger.                                                 *)
(***************************************************************************)
EXTENDS ChapterCommitSafety

(* A key that no published command spent owns no event of the log.         *)
LEMMA UnspentOwnsNothing ==
  ASSUME IndInv, NEW k \in Keys, commits[k].state # "FINALIZED",
         commits[k].state # "NONE" \/ ledger[k].op = "none"
  PROVE  \A e \in events : e.owner # k
<1> SUFFICES ASSUME NEW e \in events, e.owner = k PROVE FALSE
  OBVIOUS
<1>1. PICK m \in manifests : e \in m.events
  BY DEF IndInv, LogMatchesManifests
<1>2. m.key = k
  BY <1>1 DEF IndInv, LogMatchesManifests
<1>3. m.kind \in Natives
  <2>1. m.kind \in Roots \cup Natives
    BY DEF IndInv, HistoryInv, TypeInv, TypeOK, TypedManifest
  <2> QED BY <1>1, <2>1 DEF IndInv, EventsHaveTheirSource
<1>4. CASE m.kind = "chapter_finalize"
  BY <1>2, <1>4 DEF IndInv, HistoryInv, CommitMatchesManifest, FinalizedKeys
<1>5. CASE m.kind = "domain_command"
  BY <1>2, <1>3, <1>5 DEF IndInv, HistoryInv, LedgerKnowsKeys, NativeManifests
<1> QED BY <1>3, <1>4, <1>5 DEF Natives

(* A publishing command claims exactly the events it appends.              *)
LEMMA PublishLog ==
  ASSUME IndInv, NEW k \in Keys, NEW base, NEW kind \in Natives, NEW payload,
         NEW es, NEW p, NEW s, Allocate(k, base, kind, payload, es, p, s),
         events' = events \cup es,
         \A e \in es : /\ e.owner = k /\ e.revision = Boundary + 1
                       /\ e.source = SourceOf(kind)
  PROVE  LogMatchesManifests' /\ EventsHaveTheirSource'
<1> DEFINE n == Manifest(Boundary + 1, {Boundary}, kind, k, base, payload, es,
                         HashOf(AllNames, p, s))
<1>1. manifests' = manifests \cup BootstrapManifests \cup {n}
  BY DEF Allocate
<1>2. n.events = es /\ n.key = k /\ n.revision = Boundary + 1 /\ n.kind = kind
  BY DEF Manifest
<1> HIDE DEF n
<1>3. \A b \in BootstrapManifests : b.events = {} /\ b.kind \in Roots
  BY DEF BootstrapManifests, Manifest, Roots
<1>4. kind \notin Roots
  BY DEF Roots, Natives
<1>5. events' = UNION {m.events : m \in manifests'}
  <2>1. events = UNION {m.events : m \in manifests}
    BY DEF IndInv, LogMatchesManifests
  <2> QED BY <1>1, <1>2, <1>3, <2>1
<1>6. \A m \in manifests' : \A e \in m.events : e.revision = m.revision /\ e.owner = m.key
  BY <1>1, <1>2, <1>3 DEF IndInv, LogMatchesManifests
<1>7. \A m \in manifests' : /\ m.kind \in Roots => m.events = {}
                            /\ \A e \in m.events : e.source = SourceOf(m.kind)
  BY <1>1, <1>2, <1>3, <1>4 DEF IndInv, EventsHaveTheirSource
<1> QED BY <1>5, <1>6, <1>7 DEF LogMatchesManifests, EventsHaveTheirSource

(* The log after any step.                                                 *)
LEMMA NextLog ==
  ASSUME IndInv, [Next]_vars
  PROVE  LogMatchesManifests' /\ EventsHaveTheirSource'
<1> DEFINE Goal == LogMatchesManifests' /\ EventsHaveTheirSource'
<1> USE DEF authority, read
<1>1. /\ Boundary \in Nat /\ latest \in Nat /\ commits \in [Keys -> CommitRow]
      /\ \A k \in Keys : commits[k].chapter \in Nat
  BY BoundaryType DEF IndInv, HistoryInv, TypeInv, TypeOK, CommitRow
<1>2. ASSUME manifests' = manifests, events' = events PROVE Goal
  BY <1>2 DEF IndInv, LogMatchesManifests, EventsHaveTheirSource
<1>3. ASSUME NEW k \in Keys, NEW expected, NEW a \in Artifacts, FinalizeChapter(k, expected, a)
      PROVE  Goal
  <2> DEFINE es == EventsOf(k, a, "chapter", commits[k].chapter, Boundary + 1)
             p  == ApplyLive(projection, es)
             s  == {x \in summaries : x.chapter # commits[k].chapter}
                     \cup {[chapter |-> commits[k].chapter, artifact |-> a]}
  <2>1. Allocate(k, expected, "chapter_finalize", a, es, p, s) /\ events' = events \cup es
    BY <1>3 DEF FinalizeChapter
  <2>2. \A e \in es : /\ e.owner = k /\ e.revision = Boundary + 1
                      /\ e.source = SourceOf("chapter_finalize")
    BY <1>1, EventsOfType DEF Payloads, SourceOf
  <2> HIDE DEF es, p, s
  <2> QED BY <2>1, <2>2, PublishLog DEF Natives
<1>4. ASSUME NEW k \in Keys, NEW r \in Revisions, NEW d \in Diffs,
             AppendOperatorEvents(k, r, d)
      PROVE  Goal
  <2> DEFINE es == EventsOf(k, d, "operator", latest, Boundary + 1)
             p  == ApplyLive(projection, es)
  <2>1. Allocate(k, r, "domain_command", d, es, p, summaries) /\ events' = events \cup es
    BY <1>4 DEF AppendOperatorEvents
  <2>2. \A e \in es : /\ e.owner = k /\ e.revision = Boundary + 1
                      /\ e.source = SourceOf("domain_command")
    BY <1>1, EventsOfType DEF Payloads, SourceOf
  <2> HIDE DEF es, p
  <2> QED BY <2>1, <2>2, PublishLog DEF Natives
<1>5. ASSUME NEW k \in Keys, RecoverReset(k) PROVE Goal
  <2>1. commits[k].state \notin {"NONE", "FINALIZED"}
    BY <1>5 DEF RecoverReset
  <2>2. \A e \in events : e.owner # k
    BY <2>1, UnspentOwnsNothing
  <2>3. events' = events /\ manifests' = manifests
    BY <1>5, <2>2 DEF RecoverReset, OwnEvents
  <2> QED BY <1>2, <2>3
<1>6. ASSUME NEW k \in Keys, CreateProject(k) PROVE Goal
  <2> DEFINE m == Manifest(0, {}, "initialize_empty", k, 0, NoArtifact, {}, EmptyMarker)
  <2>1. manifests = {} /\ manifests' = {m} /\ events' = events
    BY <1>6 DEF CreateProject, IndInv, HistoryInv, AbsentIsEmpty
  <2>2. m.events = {}
    BY DEF Manifest
  <2> HIDE DEF m
  <2>3. events = {}
    BY <2>1 DEF IndInv, LogMatchesManifests
  <2> QED BY <2>1, <2>2, <2>3 DEF LogMatchesManifests, EventsHaveTheirSource
<1>7. ASSUME NEW k \in Keys, RecoverResume(k) PROVE Goal
  <2>1. commits[k].artifact \in Artifacts
    BY <1>1, <1>7 DEF RecoverResume, CommitRow
  <2> QED BY <1>3, <1>7, <2>1 DEF RecoverResume
<1>8. ASSUME manifests' = manifests /\ events' = events PROVE Goal
  BY <1>2, <1>8
<1> QED BY <1>3, <1>4, <1>5, <1>6, <1>7, <1>8
        DEF Next, Prepare, ValidateAccept, ValidateReject, Commit, RecoverAbort, StudioAbort,
            RecoverGiveUp, Crash, ReplayVerify, ReplayApply, vars

----------------------------------------------------------------------------
(* The audit trail.                                                        *)

(* A legal walk continued legally from where it ends is legal, and ends    *)
(* where the continuation ends.                                            *)
LEMMA WalkExtends ==
  ASSUME NEW path \in Seq(States), NEW more \in Seq(States), more # << >>,
         CanWalk("NONE", path), CanWalk(LastOf(path), more)
  PROVE  CanWalk("NONE", path \o more) /\ LastOf(path \o more) = more[Len(more)]
<1>1. /\ Len(path \o more) = Len(path) + Len(more)
      /\ Len(path) \in Nat /\ Len(more) \in Nat /\ Len(more) > 0
      /\ path \o more # << >>
  OBVIOUS
<1>2. \A i \in 1 .. Len(path) : (path \o more)[i] = path[i]
  OBVIOUS
<1>3. \A i \in 1 .. Len(more) : (path \o more)[Len(path) + i] = more[i]
  OBVIOUS
<1>4. LastOf(path \o more) = more[Len(more)]
  BY <1>1, <1>3 DEF LastOf
<1>5. ASSUME NEW i \in 1 .. Len(path \o more)
      PROVE  (path \o more)[i] \in
               Allowed[IF i = 1 THEN "NONE" ELSE (path \o more)[i - 1]]
  <2>1. CASE i <= Len(path)
    <3>1. path[i] \in Allowed[IF i = 1 THEN "NONE" ELSE path[i - 1]]
      BY <1>1, <2>1 DEF CanWalk
    <3>2. i # 1 => (path \o more)[i - 1] = path[i - 1]
      BY <1>1, <1>2, <2>1
    <3> QED BY <1>1, <1>2, <2>1, <3>1, <3>2
  <2>2. CASE i > Len(path)
    <3> DEFINE j == i - Len(path)
    <3>1. j \in 1 .. Len(more) /\ i = Len(path) + j
      BY <1>1, <2>2
    <3>2. more[j] \in Allowed[IF j = 1 THEN LastOf(path) ELSE more[j - 1]]
      BY <3>1 DEF CanWalk
    <3>3. (path \o more)[i] = more[j]
      BY <1>3, <3>1
    <3>4. j # 1 => (path \o more)[i - 1] = more[j - 1] /\ i # 1
      <4>1. ASSUME j # 1 PROVE (path \o more)[Len(path) + (j - 1)] = more[j - 1]
        BY <1>1, <1>3, <3>1, <4>1
      <4> QED BY <1>1, <3>1, <4>1
    <3>5. j = 1 => LastOf(path) = IF i = 1 THEN "NONE" ELSE (path \o more)[i - 1]
      BY <1>1, <1>2, <3>1 DEF LastOf
    <3> QED BY <3>2, <3>3, <3>4, <3>5
  <2> QED BY <1>1, <2>1, <2>2
<1> QED BY <1>4, <1>5 DEF CanWalk

(* A transition that follows the allowed edges and ends in the state of    *)
(* the row keeps the trail legal.                                          *)
LEMMA TransitionAudited ==
  ASSUME TypeInv, AuditTrailLegal, NEW k \in Keys, NEW more \in Seq(States), more # << >>,
         CanWalk(commits[k].state, more),
         trail' = [trail EXCEPT ![k] = @ \o more],
         commits'[k].state = more[Len(more)],
         \A x \in Keys : x # k => commits'[x].state = commits[x].state
  PROVE  AuditTrailLegal'
<1>1. trail[k] \in Seq(States) /\ CanWalk("NONE", trail[k]) /\ commits[k].state = LastOf(trail[k])
  BY DEF TypeInv, TypeOK, AuditTrailLegal
<1>2. CanWalk("NONE", trail[k] \o more) /\ LastOf(trail[k] \o more) = more[Len(more)]
  BY <1>1, WalkExtends
<1>3. trail'[k] = trail[k] \o more /\ \A x \in Keys : x # k => trail'[x] = trail[x]
  BY DEF TypeInv, TypeOK
<1>4. ASSUME NEW x \in Keys
      PROVE  CanWalk("NONE", trail'[x]) /\ commits'[x].state = LastOf(trail'[x])
  BY <1>2, <1>3 DEF AuditTrailLegal
<1> QED BY <1>4 DEF AuditTrailLegal

LEMMA NextAudit ==
  ASSUME TypeInv, AuditTrailLegal, [Next]_vars
  PROVE  AuditTrailLegal'
<1> DEFINE Goal == AuditTrailLegal'
<1> USE DEF authority, read
<1>0. commits \in [Keys -> CommitRow] /\ trail \in [Keys -> Seq(States)]
  BY DEF TypeInv, TypeOK
<1>1. ASSUME trail' = trail, \A x \in Keys : commits'[x].state = commits[x].state PROVE Goal
  BY <1>1 DEF AuditTrailLegal
<1>2. ASSUME NEW k \in Keys, NEW to \in Durable, CanWalk(commits[k].state, <<to>>),
             trail' = [trail EXCEPT ![k] = @ \o <<to>>],
             commits'[k].state = to, \A x \in Keys : x # k => commits'[x] = commits[x]
      PROVE  Goal
  <2>1. <<to>> \in Seq(States) /\ <<to>> # << >> /\ <<to>>[Len(<<to>>)] = to
    BY DEF States
  <2> QED BY <1>2, <2>1, TransitionAudited
<1>3. ASSUME NEW k \in Keys, NEW r \in Revisions, NEW c \in 1 .. MaxRevision, Prepare(k, r, c)
      PROVE  Goal
  <2>1. commits'[k].state = "PREPARED" /\ \A x \in Keys : x # k => commits'[x] = commits[x]
    BY <1>0, <1>3 DEF Prepare
  <2> QED BY <1>2, <1>3, <2>1 DEF Prepare, Walk, Durable
<1>4. ASSUME NEW k \in Keys, NEW r \in Revisions, NEW a \in Artifacts,
             ValidateAccept(k, r, a) \/ ValidateReject(k, r, a)
      PROVE  Goal
  <2>1. CASE ValidateAccept(k, r, a)
    <3>1. commits'[k].state = "VALIDATED" /\ \A x \in Keys : x # k => commits'[x] = commits[x]
      BY <1>0, <2>1 DEF ValidateAccept, CommitRow
    <3> QED BY <1>2, <2>1, <3>1 DEF ValidateAccept, Walk, Durable
  <2>2. CASE ValidateReject(k, r, a)
    <3>1. commits'[k].state = "REJECTED" /\ \A x \in Keys : x # k => commits'[x] = commits[x]
      BY <1>0, <2>2 DEF ValidateReject, CommitRow
    <3> QED BY <1>2, <2>2, <3>1 DEF ValidateReject, Walk, Durable
  <2> QED BY <1>4, <2>1, <2>2
<1>5. ASSUME NEW k \in Keys, NEW expected, NEW a, FinalizeChapter(k, expected, a) PROVE Goal
  <2>1. commits'[k].state = "FINALIZED" /\ \A x \in Keys : x # k => commits'[x] = commits[x]
    BY <1>0, <1>5 DEF FinalizeChapter, CommitRow
  <2>2. Finalizing \in Seq(States) /\ Finalizing # << >>
        /\ Finalizing[Len(Finalizing)] = "FINALIZED"
    BY DEF Finalizing, States, Durable
  <2>3. CanWalk(commits[k].state, Finalizing) /\ trail' = [trail EXCEPT ![k] = @ \o Finalizing]
    BY <1>5 DEF FinalizeChapter, Walk
  <2> QED BY <2>1, <2>2, <2>3, TransitionAudited
<1>6. ASSUME NEW k \in Keys, RecoverAbort(k) \/ StudioAbort(k) PROVE Goal
  <2>1. commits'[k].state = "ABORTED" /\ \A x \in Keys : x # k => commits'[x] = commits[x]
    BY <1>0, <1>6 DEF RecoverAbort, StudioAbort, CommitRow
  <2>2. CanWalk(commits[k].state, <<"ABORTED">>)
    BY <1>6 DEF RecoverAbort, StudioAbort, Walk, CanWalk, Allowed
  <2>3. trail' = [trail EXCEPT ![k] = @ \o <<"ABORTED">>]
    <3>1. Append(trail[k], "ABORTED") = trail[k] \o <<"ABORTED">>
      BY <1>0 DEF States, Durable
    <3> QED BY <1>0, <1>6, <3>1 DEF RecoverAbort, StudioAbort, Walk
  <2> QED BY <1>2, <2>1, <2>2, <2>3 DEF Durable
<1>7. ASSUME NEW k \in Keys, RecoverReset(k) PROVE Goal
  <2>1. /\ commits'[k].state = "RECOVERY_REQUIRED"
        /\ \A x \in Keys : x # k => commits'[x] = commits[x]
    BY <1>0, <1>7 DEF RecoverReset, CommitRow
  <2>2. CASE commits[k].state = "RECOVERY_REQUIRED"
    BY <1>1, <1>7, <2>1, <2>2 DEF RecoverReset
  <2>3. CASE commits[k].state # "RECOVERY_REQUIRED"
    BY <1>2, <1>7, <2>1, <2>3 DEF RecoverReset, Walk, Durable
  <2> QED BY <2>2, <2>3
<1>8. ASSUME trail' = trail /\ commits' = commits PROVE Goal
  BY <1>1, <1>8
<1> QED BY <1>3, <1>4, <1>5, <1>6, <1>7, <1>8
        DEF Next, CreateProject, Commit, AppendOperatorEvents, RecoverResume, RecoverGiveUp,
            Crash, ReplayVerify, ReplayApply, vars

----------------------------------------------------------------------------
(* Finality.                                                               *)

LEMMA NextKeepsFinalized ==
  ASSUME IndInv, [Next]_vars
  PROVE  KeepsFinalized
<1> USE DEF authority, read
<1> DEFINE Terminal == {"FINALIZED", "REJECTED", "ABORTED"}
           Same(x) == /\ commits'[x] = commits[x] /\ trail'[x] = trail[x]
                      /\ {e \in events' : e.owner = x} = {e \in events : e.owner = x}
<1>0. /\ commits \in [Keys -> CommitRow] /\ trail \in [Keys -> Seq(States)]
      /\ Boundary \in Nat /\ latest \in Nat /\ \A k \in Keys : commits[k].chapter \in Nat
  BY BoundaryType DEF IndInv, HistoryInv, TypeInv, TypeOK, CommitRow
<1>1. ASSUME commits' = commits, trail' = trail, events' = events PROVE KeepsFinalized
  BY <1>1 DEF KeepsFinalized
<1>2. ASSUME NEW k \in Keys, commits[k].state \notin Terminal,
             \A x \in Keys : x # k => Same(x)
      PROVE  KeepsFinalized
  BY <1>2 DEF KeepsFinalized
<1>3. ASSUME NEW k \in Keys, NEW expected, NEW a \in Artifacts, FinalizeChapter(k, expected, a)
      PROVE  KeepsFinalized
  <2>1. commits[k].state \notin Terminal
    BY <1>3 DEF FinalizeChapter
  <2>2. /\ events' = events \cup EventsOf(k, a, "chapter", commits[k].chapter, Boundary + 1)
        /\ \A e \in EventsOf(k, a, "chapter", commits[k].chapter, Boundary + 1) : e.owner = k
    <3>1. commits[k].chapter \in Nat /\ Boundary + 1 \in Nat /\ a \in Payloads
      BY <1>0 DEF Payloads
    <3>2. \A e \in EventsOf(k, a, "chapter", commits[k].chapter, Boundary + 1) : e.owner = k
      BY <3>1, EventsOfType
    <3> QED BY <1>3, <3>2 DEF FinalizeChapter
  <2>3. \A x \in Keys : x # k => commits'[x] = commits[x] /\ trail'[x] = trail[x]
    BY <1>0, <1>3 DEF FinalizeChapter, Walk
  <2>4. \A x \in Keys : x # k =>
          {e \in events' : e.owner = x} = {e \in events : e.owner = x}
    BY <2>2
  <2> QED BY <1>2, <2>1, <2>3, <2>4
<1>4. ASSUME NEW k \in Keys, NEW r \in Revisions, NEW d \in Diffs,
             AppendOperatorEvents(k, r, d)
      PROVE  KeepsFinalized
  <2>1. commits[k].state \notin Terminal
    BY <1>4 DEF AppendOperatorEvents, Unused, IndInv, HistoryInv, LedgerKnowsKeys
  <2>2. /\ events' = events \cup EventsOf(k, d, "operator", latest, Boundary + 1)
        /\ \A e \in EventsOf(k, d, "operator", latest, Boundary + 1) : e.owner = k
    BY <1>0, <1>4, EventsOfType DEF AppendOperatorEvents, Payloads
  <2>3. commits' = commits /\ trail' = trail
    BY <1>4 DEF AppendOperatorEvents
  <2>4. \A x \in Keys : x # k =>
          {e \in events' : e.owner = x} = {e \in events : e.owner = x}
    BY <2>2
  <2> QED BY <1>2, <2>1, <2>3, <2>4
<1>5. ASSUME NEW k \in Keys, RecoverReset(k) PROVE KeepsFinalized
  <2>1. commits[k].state \notin Terminal
    BY <1>5 DEF RecoverReset
  <2>2. \A x \in Keys : x # k => commits'[x] = commits[x] /\ trail'[x] = trail[x]
    BY <1>0, <1>5 DEF RecoverReset, Walk
  <2>3. \A x \in Keys : x # k =>
          {e \in events' : e.owner = x} = {e \in events : e.owner = x}
    BY <1>5 DEF RecoverReset, OwnEvents
  <2> QED BY <1>2, <2>1, <2>2, <2>3
<1>6. ASSUME NEW k \in Keys, events' = events, commits[k].state \notin Terminal,
             \A x \in Keys : x # k => commits'[x] = commits[x] /\ trail'[x] = trail[x]
      PROVE  KeepsFinalized
  BY <1>2, <1>6
<1>7. ASSUME NEW k \in Keys,
             \/ \E r \in Revisions, c \in 1 .. MaxRevision : Prepare(k, r, c)
             \/ \E r \in Revisions, a \in Artifacts : ValidateAccept(k, r, a)
             \/ \E r \in Revisions, a \in Artifacts : ValidateReject(k, r, a)
             \/ RecoverAbort(k) \/ StudioAbort(k)
      PROVE  KeepsFinalized
  <2>1. events' = events /\ commits[k].state \notin Terminal
    BY <1>7 DEF Prepare, ValidateAccept, ValidateReject, RecoverAbort, StudioAbort
  <2>2. \A x \in Keys : x # k => commits'[x] = commits[x] /\ trail'[x] = trail[x]
    BY <1>0, <1>7 DEF Prepare, ValidateAccept, ValidateReject, RecoverAbort, StudioAbort, Walk
  <2> QED BY <1>6, <2>1, <2>2
<1>8. ASSUME NEW k \in Keys, RecoverResume(k) PROVE KeepsFinalized
  <2>1. commits[k].artifact \in Artifacts
    BY <1>0, <1>8 DEF RecoverResume, CommitRow
  <2> QED BY <1>3, <1>8, <2>1 DEF RecoverResume
<1>9. ASSUME commits' = commits /\ trail' = trail /\ events' = events PROVE KeepsFinalized
  BY <1>1, <1>9
<1> QED BY <1>3, <1>4, <1>5, <1>7, <1>8, <1>9
        DEF Next, CreateProject, Commit, RecoverGiveUp, Crash, ReplayVerify, ReplayApply, vars

----------------------------------------------------------------------------
LEMMA InitIndInv == Init => IndInv
<1> SUFFICES ASSUME Init PROVE IndInv
  OBVIOUS
<1>1. HistoryInv
  BY InitHistoryInv
<1>2. \A m \in manifests : m.events = {}
  BY DEF Init, InitProject, Manifest
<1>3. LogMatchesManifests /\ EventsHaveTheirSource
  BY <1>2 DEF Init, LogMatchesManifests, EventsHaveTheirSource
<1>4. AuditTrailLegal
  BY DEF Init, AuditTrailLegal, NoCommit, LastOf, CanWalk
<1> QED BY <1>1, <1>3, <1>4 DEF IndInv

LEMMA NextIndInv == IndInv /\ [Next]_vars => IndInv'
BY NextHistoryInv, NextLog, NextAudit DEF IndInv, HistoryInv

(* The event log is exactly the union of what the manifests claim: a       *)
(* recovery never deletes an event of a published revision and an event    *)
(* never exists without its manifest.                                      *)
THEOREM LogMatches == Spec => []LogMatchesManifests
<1>1. IndInv => LogMatchesManifests
  BY DEF IndInv
<1> QED BY <1>1, InitIndInv, NextIndInv, PTL DEF Spec

(* The audit trail of every commit follows the allowed edges and ends in   *)
(* the state of its row, also through recovery and Studio's abort.         *)
THEOREM TrailLegal == Spec => []AuditTrailLegal
<1>1. IndInv => AuditTrailLegal
  BY DEF IndInv
<1> QED BY <1>1, InitIndInv, NextIndInv, PTL DEF Spec

(* No step changes the row or the trail of a finalized, rejected or        *)
(* aborted commit, nor the events of a finalized one.                      *)
THEOREM FinalityHolds == Spec => FinalizedIsFinal
<1>1. IndInv /\ [Next]_vars => [KeepsFinalized]_vars
  BY NextKeepsFinalized
<1> QED BY <1>1, InitIndInv, NextIndInv, PTL DEF Spec, FinalizedIsFinal

----------------------------------------------------------------------------
(* The commit service implements StoryLedger: a step publishes the next    *)
(* chapter, applies one diff, or shows nothing in the story.               *)

(* A chapter that is finalized once has one artifact.                      *)
LEMMA BookEntry ==
  ASSUME HistoryInv, NEW k \in FinalizedKeys
  PROVE  ArtifactsOf(commits[k].chapter) = {commits[k].artifact}
BY DEF HistoryInv, ChaptersContiguous, ArtifactsOf, FinalizedKeys

(* The book after a chapter was finalized has that chapter at its end.     *)
LEMMA BookGrows ==
  ASSUME HistoryInv, HistoryInv', NEW k \in Keys, NEW expected, NEW a \in Artifacts,
         FinalizeChapter(k, expected, a)
  PROVE  Book' = Append(Book, a)
<1>1. /\ latest' = latest + 1 /\ latest \in Nat
      /\ FinalizedKeys' = FinalizedKeys \cup {k} /\ k \notin FinalizedKeys
      /\ \A x \in Keys : x # k => commits'[x] = commits[x]
      /\ commits'[k].artifact = a /\ commits'[k].chapter = latest + 1
  BY FinalizeEffect DEF HistoryInv, TypeInv, TypeOK
<1>2. \A x \in FinalizedKeys : x \in Keys /\ x # k /\ commits[x].chapter \in 1 .. latest
  BY <1>1 DEF HistoryInv, ChaptersContiguous, FinalizedKeys
<1>3. \A i \in 1 .. latest : ArtifactsOf(i)' = ArtifactsOf(i)
  BY <1>1, <1>2 DEF ArtifactsOf
<1>4. \A i : i = latest + 1 => ArtifactsOf(i)' = {a}
  <2> SUFFICES ASSUME NEW i, i = latest + 1 PROVE ArtifactsOf(i)' = {a}
    OBVIOUS
  <2>1. {x \in FinalizedKeys' : commits'[x].chapter = i} = {k}
    BY <1>1, <1>2
  <2> QED BY <1>1, <2>1 DEF ArtifactsOf
<1>5. DOMAIN Book = 1 .. latest /\ DOMAIN Book' = 1 .. latest + 1
  BY <1>1 DEF Book
<1>6. ASSUME NEW i \in 1 .. latest PROVE Book'[i] = Book[i]
  <2>1. i \in 1 .. latest + 1
    BY <1>1
  <2>2. Book'[i] = CHOOSE b \in ArtifactsOf(i)' : TRUE
    BY <1>1, <2>1 DEF Book
  <2> QED BY <1>3, <2>2 DEF Book
<1>7. Book'[latest + 1] = a
  <2> SUFFICES ASSUME NEW i, i = latest + 1 PROVE Book'[i] = a
    BY <1>1
  <2>1. Book'[i] = CHOOSE b \in ArtifactsOf(i)' : TRUE
    BY <1>1 DEF Book
  <2> QED BY <1>4, <2>1
<1>8. Book \in Seq({Book[i] : i \in 1 .. latest}) /\ Len(Book) = latest
  BY <1>1, <1>5 DEF Book
<1>9. Book' = [i \in 1 .. latest + 1 |-> Book'[i]]
  BY <1>5 DEF Book
<1> QED BY <1>1, <1>6, <1>7, <1>8, <1>9

LEMMA HistoryGrowsBy ==
  ASSUME NEW m, NativeManifests' = NativeManifests \cup {m}
  PROVE  History' = History \cup {[key |-> m.key, payload |-> m.payload,
                                   revision |-> m.revision]}
BY DEF History

LEMMA FinalizePublishes ==
  ASSUME HistoryInv, HistoryInv', NEW k \in Keys, NEW expected, NEW a \in Artifacts,
         FinalizeChapter(k, expected, a)
  PROVE  Ledger!PublishChapter(k, a)
<1>1. PICK m : /\ m.key = k /\ m.payload = a /\ m.revision = revision'
               /\ NativeManifests' = NativeManifests \cup {m}
  BY FinalizeEffect
<1>2. /\ revision' \in Nat /\ revision < revision'
      /\ \A n \in NativeManifests : n.key # k
  BY FinalizeEffect
<1>3. History' = History \cup {[key |-> k, payload |-> a, revision |-> revision']}
  BY <1>1, HistoryGrowsBy
<1>4. k \notin Ledger!Spent
  BY <1>2 DEF Ledger!Spent, History
<1>5. Book' = Append(Book, a)
  BY BookGrows
<1>6. revision' > revision
  BY <1>2 DEF HistoryInv, TypeInv, TypeOK
<1> QED BY <1>3, <1>4, <1>5, <1>6 DEF Ledger!PublishChapter, Ledger!Accept

(* A step that keeps the finalized commits and the native manifests keeps  *)
(* the story.                                                              *)
LEMMA QuietStory ==
  ASSUME latest' = latest, FinalizedKeys' = FinalizedKeys,
         \A x \in FinalizedKeys : commits'[x] = commits[x]
  PROVE  Book' = Book
BY DEF Book, ArtifactsOf

LEMMA AppendApplies ==
  ASSUME HistoryInv, NEW k \in Keys, NEW expected, NEW d \in Diffs,
         AppendOperatorEvents(k, expected, d)
  PROVE  Ledger!ApplyDiff(k, d)
<1>1. PICK m : /\ m.key = k /\ m.payload = d /\ m.revision = revision'
               /\ NativeManifests' = NativeManifests \cup {m}
  BY AppendEffect
<1>2. /\ revision' \in Nat /\ revision < revision' /\ latest' = latest /\ commits' = commits
      /\ \A n \in NativeManifests : n.key # k
  BY AppendEffect
<1>3. History' = History \cup {[key |-> k, payload |-> d, revision |-> revision']}
  BY <1>1, HistoryGrowsBy
<1>4. k \notin Ledger!Spent
  BY <1>2 DEF Ledger!Spent, History
<1>5. Book' = Book
  BY <1>2, QuietStory DEF FinalizedKeys
<1>6. revision' > revision
  BY <1>2 DEF HistoryInv, TypeInv, TypeOK
<1> QED BY <1>3, <1>4, <1>5, <1>6 DEF Ledger!ApplyDiff, Ledger!Accept

LEMMA InitStory == Init => Ledger!LedgerInit
<1> SUFFICES ASSUME Init PROVE Ledger!LedgerInit
  OBVIOUS
<1>1. History = {}
  BY DEF Init, InitProject, History, NativeManifests, Natives, Manifest
<1>2. Book = << >>
  BY DEF Init, Book
<1>3. revision \in Nat
  BY InitTypeInv DEF TypeInv, TypeOK
<1> QED BY <1>1, <1>2, <1>3 DEF Ledger!LedgerInit

LEMMA NextStory ==
  ASSUME HistoryInv, HistoryInv', [Next]_vars
  PROVE  [Ledger!LedgerNext]_(Ledger!story)
<1> DEFINE Goal == [Ledger!LedgerNext]_(Ledger!story)
<1> USE DEF authority, read
<1>1. ASSUME Book' = Book, NativeManifests' = NativeManifests, revision' = revision PROVE Goal
  BY <1>1 DEF Ledger!story, History
<1>2. ASSUME NEW k \in Keys, NEW expected, NEW a \in Artifacts, FinalizeChapter(k, expected, a)
      PROVE  Goal
  BY <1>2, FinalizePublishes DEF Ledger!LedgerNext
<1>3. ASSUME NEW k \in Keys, NEW r, NEW d \in Diffs, AppendOperatorEvents(k, r, d) PROVE Goal
  BY <1>3, AppendApplies DEF Ledger!LedgerNext
<1>4. ASSUME NEW k \in Keys, RecoverResume(k) PROVE Goal
  <2>1. commits[k].artifact \in Artifacts
    BY <1>4 DEF RecoverResume, HistoryInv, TypeInv, TypeOK, CommitRow
  <2> QED BY <1>2, <1>4, <2>1 DEF RecoverResume
<1>5. ASSUME NEW k \in Keys, CreateProject(k) PROVE Goal
  <2>1. latest' = latest /\ commits' = commits /\ revision' = revision
    BY <1>5 DEF CreateProject, HistoryInv, AbsentIsEmpty
  <2>2. NativeManifests' = NativeManifests
    BY <1>5 DEF CreateProject, HistoryInv, AbsentIsEmpty, NativeManifests, Natives, Manifest
  <2> QED BY <1>1, <2>1, <2>2, QuietStory DEF FinalizedKeys
<1>6. ASSUME NEW k \in Keys, commits[k].state # "FINALIZED", commits'[k].state # "FINALIZED",
             \A x \in Keys : x # k => commits'[x] = commits[x],
             latest' = latest, manifests' = manifests, revision' = revision
      PROVE  Goal
  <2>1. FinalizedKeys' = FinalizedKeys /\ \A x \in FinalizedKeys : commits'[x] = commits[x]
    BY <1>6 DEF FinalizedKeys
  <2> QED BY <1>1, <1>6, <2>1, QuietStory DEF NativeManifests
<1>7. ASSUME NEW k \in Keys,
             \/ \E r \in Revisions, c \in 1 .. MaxRevision : Prepare(k, r, c)
             \/ \E r \in Revisions, a \in Artifacts : ValidateAccept(k, r, a)
             \/ \E r \in Revisions, a \in Artifacts : ValidateReject(k, r, a)
             \/ RecoverAbort(k) \/ StudioAbort(k) \/ RecoverReset(k)
      PROVE  Goal
  <2>1. commits \in [Keys -> CommitRow]
    BY DEF HistoryInv, TypeInv, TypeOK
  <2>2. commits[k].state # "FINALIZED" /\ commits'[k].state # "FINALIZED"
    BY <1>7, <2>1 DEF Prepare, ValidateAccept, ValidateReject, RecoverAbort, StudioAbort,
                      RecoverReset, CommitRow
  <2>3. /\ \A x \in Keys : x # k => commits'[x] = commits[x]
        /\ latest' = latest /\ manifests' = manifests /\ revision' = revision
    BY <1>7, <2>1 DEF Prepare, ValidateAccept, ValidateReject, RecoverAbort, StudioAbort,
                      RecoverReset
  <2> QED BY <1>6, <2>2, <2>3
<1>8. ASSUME UNCHANGED <<commits, latest, manifests, revision>> PROVE Goal
  BY <1>1, <1>8, QuietStory DEF FinalizedKeys, NativeManifests
<1> QED BY <1>2, <1>3, <1>4, <1>5, <1>7, <1>8
        DEF Next, Commit, RecoverGiveUp, Crash, ReplayVerify, ReplayApply, vars

(* Whatever interleaving of chapter lifecycles, operator appends, recovery  *)
(* and replay the service runs, what it publishes is a book that gains its *)
(* next chapter and a history in which every key appears once.             *)
THEOREM Refinement == Spec => ImplementsLedger
<1>1. HistoryInv /\ HistoryInv' /\ [Next]_vars => [Ledger!LedgerNext]_(Ledger!story)
  BY NextStory
<1> QED BY <1>1, InitStory, InitHistoryInv, NextHistoryInv, PTL
        DEF Spec, ImplementsLedger, Ledger!LedgerSpec

----------------------------------------------------------------------------
(* What a command leaves beside its manifest: the rows of the outbox, and   *)
(* the numbers a retry of it is answered with.                             *)

(* The outbox rows of one native manifest.                                 *)
SideEffectsOf(m) ==
  IF m.kind = "chapter_finalize"
  THEN {OutboxRow(m.key, t, commits[m.key].chapter, m.revision) : t \in ChapterTopics}
  ELSE {OutboxRow(m.key, "search.index", 0, m.revision)}

LEMMA OutboxIsSideEffects ==
  OutboxMatchesManifests <=> outbox = UNION {SideEffectsOf(m) : m \in NativeManifests}
BY DEF OutboxMatchesManifests, SideEffectsOf

(* The chapter of a finalized commit never moves, so the rows of a          *)
(* manifest that exists stay what they were.                               *)
LEMMA SideEffectsStay ==
  ASSUME HistoryInv, \A x \in FinalizedKeys : commits'[x] = commits[x]
  PROVE  \A m \in NativeManifests : SideEffectsOf(m)' = SideEffectsOf(m)
BY DEF SideEffectsOf, HistoryInv, CommitMatchesManifest, NativeManifests

LEMMA NextOutbox ==
  ASSUME IndInv, OutboxMatchesManifests, [Next]_vars
  PROVE  OutboxMatchesManifests'
<1> DEFINE Goal == OutboxMatchesManifests'
<1> USE DEF authority, read
<1>0. HistoryInv /\ KeepsFinalized
  BY NextKeepsFinalized DEF IndInv
<1>1. outbox = UNION {SideEffectsOf(m) : m \in NativeManifests}
  BY OutboxIsSideEffects
<1>2. \A m \in NativeManifests : SideEffectsOf(m)' = SideEffectsOf(m)
  BY <1>0, SideEffectsStay DEF KeepsFinalized, FinalizedKeys
<1>3. ASSUME outbox' = outbox, NativeManifests' = NativeManifests PROVE Goal
  BY <1>1, <1>2, <1>3 DEF OutboxMatchesManifests, SideEffectsOf
<1>4. ASSUME NEW m, NativeManifests' = NativeManifests \cup {m},
             outbox' = outbox \cup SideEffectsOf(m)'
      PROVE  Goal
  <2>1. outbox' = UNION {SideEffectsOf(n)' : n \in NativeManifests'}
    BY <1>1, <1>2, <1>4
  <2> QED BY <2>1 DEF OutboxMatchesManifests, SideEffectsOf
<1>5. ASSUME NEW k \in Keys, NEW expected, NEW a \in Artifacts, FinalizeChapter(k, expected, a)
      PROVE  Goal
  <2>1. PICK m : /\ m.kind = "chapter_finalize" /\ m.key = k /\ m.revision = revision'
                 /\ NativeManifests' = NativeManifests \cup {m}
    BY <1>0, <1>5, FinalizeEffect
  <2>2. commits'[k].chapter = commits[k].chapter /\ revision' = Boundary + 1
    <3>1. commits'[k].chapter = commits[k].chapter
      BY <1>0, <1>5, FinalizeEffect
    <3> QED BY <1>5, <3>1 DEF FinalizeChapter, Allocate
  <2>3. outbox' = outbox \cup
          {OutboxRow(k, t, commits[k].chapter, Boundary + 1) : t \in ChapterTopics}
    BY <1>5 DEF FinalizeChapter
  <2>4. SideEffectsOf(m)' = {OutboxRow(k, t, commits[k].chapter, Boundary + 1) :
                               t \in ChapterTopics}
    BY <2>1, <2>2 DEF SideEffectsOf
  <2> QED BY <1>4, <2>1, <2>3, <2>4
<1>6. ASSUME NEW k \in Keys, NEW r, NEW d \in Diffs, AppendOperatorEvents(k, r, d) PROVE Goal
  <2>1. PICK m : /\ m.kind = "domain_command" /\ m.key = k /\ m.revision = revision'
                 /\ NativeManifests' = NativeManifests \cup {m}
    BY <1>0, <1>6, AppendEffect
  <2>2. outbox' = outbox \cup {OutboxRow(k, "search.index", 0, revision')}
    BY <1>6 DEF AppendOperatorEvents, Allocate
  <2>3. SideEffectsOf(m)' = {OutboxRow(k, "search.index", 0, revision')}
    BY <2>1 DEF SideEffectsOf
  <2> QED BY <1>4, <2>1, <2>2, <2>3
<1>7. ASSUME NEW k \in Keys, CreateProject(k) PROVE Goal
  <2>1. NativeManifests' = NativeManifests
    BY <1>0, <1>7 DEF CreateProject, HistoryInv, AbsentIsEmpty, NativeManifests, Natives, Manifest
  <2> QED BY <1>3, <1>7, <2>1 DEF CreateProject
<1>8. ASSUME NEW k \in Keys, RecoverResume(k) PROVE Goal
  <2>1. commits[k].artifact \in Artifacts
    BY <1>0, <1>8 DEF RecoverResume, HistoryInv, TypeInv, TypeOK, CommitRow
  <2> QED BY <1>5, <1>8, <2>1 DEF RecoverResume
<1>9. ASSUME outbox' = outbox, manifests' = manifests PROVE Goal
  BY <1>3, <1>9 DEF NativeManifests
<1> QED BY <1>5, <1>6, <1>7, <1>8, <1>9
        DEF Next, Prepare, ValidateAccept, ValidateReject, Commit, RecoverAbort, StudioAbort,
            RecoverReset, RecoverGiveUp, Crash, ReplayVerify, ReplayApply, vars

LEMMA InitOutbox == Init => OutboxMatchesManifests
BY DEF Init, InitProject, OutboxMatchesManifests, NativeManifests, Natives, Manifest

(* Every side effect the outbox ever carried belongs to one published       *)
(* revision, and no published revision misses one, through retries,        *)
(* recoveries and aborts.                                                  *)
THEOREM OutboxMatches == Spec => []OutboxMatchesManifests
BY InitIndInv, NextIndInv, InitOutbox, NextOutbox, PTL DEF Spec

(* The events of a finalized commit are those its manifest lists.          *)
LEMMA OwnedAreListed ==
  ASSUME IndInv, NEW k \in FinalizedKeys, NEW m \in manifests,
         m.kind = "chapter_finalize", m.key = k
  PROVE  {e \in events : e.owner = k} = m.events
<1>1. ASSUME NEW e \in events, e.owner = k PROVE e \in m.events
  <2>1. PICK n \in manifests : e \in n.events
    BY DEF IndInv, LogMatchesManifests
  <2>2. n.key = k
    BY <1>1, <2>1 DEF IndInv, LogMatchesManifests
  <2>3. n.kind \in Natives
    <3>1. n.kind \in Roots \cup Natives
      BY DEF IndInv, HistoryInv, TypeInv, TypeOK, TypedManifest
    <3> QED BY <2>1, <3>1 DEF IndInv, EventsHaveTheirSource
  <2>4. n = m
    BY <2>2, <2>3 DEF IndInv, HistoryInv, KeysSpentOnce, NativeManifests, Natives
  <2> QED BY <2>1, <2>4
<1>2. \A e \in m.events : e \in events /\ e.owner = k
  BY DEF IndInv, LogMatchesManifests
<1> QED BY <1>1, <1>2

(* A retried commit is answered with the revision and the event count its   *)
(* manifest was published with, whatever was written since.                *)
THEOREM RetriesAgree == Spec => []RetryReturnsCounts
<1>1. IndInv => RetryReturnsCounts
  <2> SUFFICES ASSUME IndInv, NEW k \in FinalizedKeys
               PROVE  \E m \in manifests :
                        /\ m.key = k
                        /\ FinalizedResult(k).revision = m.revision
                        /\ FinalizedResult(k).event_count = Cardinality(m.events)
    BY DEF RetryReturnsCounts
  <2>1. PICK m \in manifests : /\ m.kind = "chapter_finalize" /\ m.key = k
                               /\ m.revision = commits[k].resulting
    BY DEF IndInv, HistoryInv, CommitMatchesManifest
  <2>2. {e \in events : e.owner = k} = m.events
    BY <2>1, OwnedAreListed
  <2> QED BY <2>1, <2>2 DEF FinalizedResult
<1> QED BY <1>1, InitIndInv, NextIndInv, PTL DEF Spec

----------------------------------------------------------------------------
(* What the projections state.  The code keeps them equal to the log and to *)
(* the newest manifest, but for the chapters that no payload states, where *)
(* chapters alone write the project and a replay reduces the whole log;    *)
(* the runs of MCChapterCommit show what happens otherwise.                *)

ChaptersAlone == OperatorKeys = {} /\ Origins \subseteq {"absent", "unwritten"}

WholeReplays == \A b \in ReplayBounds : b[1] = 0 /\ MaxRevision <= b[2]

ChapterOnly == ChaptersAlone /\ WholeReplays

(* No operator command was ever published.                                 *)
NoCommands == \A m \in manifests : m.kind # "domain_command"

ProjectionInv ==
  /\ NoCommands /\ ProjectionFollowsLog
  /\ StateMatchesManifest /\ CheckpointsTruthful /\ ReplayAgrees

(* What a row states is what its event does, whatever chapter the reducer  *)
(* was handed.                                                             *)
StatedOf(e) == [event |-> e, chapter |-> IF SilentAbout(e) THEN 0 ELSE e.chapter]

LEMMA StatedReduce ==
  ASSUME NEW e, NEW chapter PROVE StatedRow(Reduce(e, chapter)) = StatedOf(e)
<1> DEFINE row == Reduce(e, chapter)
<1>1. row = [event |-> e, chapter |-> IF SilentAbout(e) THEN chapter ELSE e.chapter]
  BY DEF Reduce
<1>2. row.event = e /\ row.chapter = IF SilentAbout(e) THEN chapter ELSE e.chapter
  BY <1>1
<1>3. CASE row = ImportedRow
  <2>1. row.chapter = 0 /\ StatedRow(row) = row
    BY <1>3 DEF ImportedRow, StatedRow
  <2> HIDE DEF row
  <2> QED BY <1>1, <1>2, <2>1 DEF StatedOf, row
<1>4. CASE row # ImportedRow
  <2>1. StatedRow(row) = IF SilentAbout(e) THEN [row EXCEPT !.chapter = 0] ELSE row
    BY <1>2, <1>4 DEF StatedRow
  <2> QED BY <1>1, <2>1 DEF StatedOf
<1> QED BY <1>3, <1>4

(* What the rows of a log state, reduced to p, live or replayed.           *)
LEMMA StatedApply ==
  ASSUME NEW p, NEW es
  PROVE  /\ DOMAIN Stated(ApplyRows(p, es)) = Names /\ DOMAIN Stated(ApplyLive(p, es)) = Names
         /\ Stated(ApplyLive(p, es)) = Stated(ApplyRows(p, es))
         /\ \A n \in Names : Stated(ApplyRows(p, es))[n] =
               {StatedRow(row) : row \in p[n]} \cup {StatedOf(e) : e \in {x \in es : x.name = n}}
<1> DEFINE rows == ApplyRows(p, es)
           live == ApplyLive(p, es)
           Goal(n) == {StatedRow(row) : row \in p[n]}
                        \cup {StatedOf(e) : e \in {x \in es : x.name = n}}
<1>1. DOMAIN rows = Names /\ DOMAIN live = Names
  BY DEF ApplyRows, ApplyLive
<1>2. ASSUME NEW n \in Names
      PROVE  {StatedRow(row) : row \in rows[n]} = Goal(n) /\ {StatedRow(row) : row \in live[n]} = Goal(n)
  <2> DEFINE mine == {x \in es : x.name = n}
  <2>1. /\ rows[n] = p[n] \cup {Reduce(e, e.chapter) : e \in mine}
        /\ live[n] = p[n] \cup {Reduce(e, LiveChapter(e)) : e \in mine}
    BY DEF ApplyRows, ApplyLive
  <2>2. \A e : /\ StatedRow(Reduce(e, e.chapter)) = StatedOf(e)
               /\ StatedRow(Reduce(e, LiveChapter(e))) = StatedOf(e)
    BY StatedReduce
  <2> HIDE DEF rows, live, mine
  <2>3. {StatedRow(row) : row \in rows[n]} =
          {StatedRow(row) : row \in p[n]} \cup {StatedOf(e) : e \in mine}
    BY <2>1, <2>2
  <2>4. {StatedRow(row) : row \in live[n]} =
          {StatedRow(row) : row \in p[n]} \cup {StatedOf(e) : e \in mine}
    BY <2>1, <2>2
  <2> QED BY <2>3, <2>4 DEF mine
<1>3. /\ Stated(rows) = [n \in Names |-> Goal(n)]
      /\ Stated(live) = [n \in Names |-> Goal(n)]
  BY <1>1, <1>2 DEF Stated
<1> QED BY <1>3

(* Reducing a log in two parts states what reducing it at once does.       *)
LEMMA ReduceInParts ==
  ASSUME NEW p, DOMAIN p = Names, NEW es, NEW more,
         Stated(p) = Stated(ApplyRows(Unwritten, es))
  PROVE  Stated(ApplyLive(p, more)) = Stated(ApplyRows(Unwritten, es \cup more))
<1> DEFINE one == Stated(p)
           two == Stated(ApplyLive(p, more))
           all == Stated(ApplyRows(Unwritten, es \cup more))
<1>1. ASSUME NEW n \in Names PROVE two[n] = all[n]
  <2>1. {StatedRow(row) : row \in Unwritten[n]} = {}
    BY DEF Unwritten
  <2>2. one[n] = {StatedOf(e) : e \in {x \in es : x.name = n}}
    BY <2>1, StatedApply
  <2>3. one[n] = {StatedRow(row) : row \in p[n]}
    BY DEF Stated
  <2>4. two[n] = {StatedRow(row) : row \in p[n]}
                   \cup {StatedOf(e) : e \in {x \in more : x.name = n}}
    BY StatedApply
  <2>5. all[n] = {StatedOf(e) : e \in {x \in es \cup more : x.name = n}}
    BY <2>1, StatedApply
  <2> HIDE DEF one, two, all
  <2> QED BY <2>2, <2>3, <2>4, <2>5
<1>2. two = [n \in Names |-> two[n]] /\ all = [n \in Names |-> all[n]]
  BY StatedApply DEF Stated
<1> HIDE DEF two, all
<1>3. two = all
  BY <1>1, <1>2
<1> QED BY <1>3 DEF two, all

(* Rows that state the same have the same stated hash.                     *)
LEMMA SameStated ==
  ASSUME NEW p, NEW q, DOMAIN p = Names, DOMAIN q = Names, Stated(p) = Stated(q),
         NEW names, NEW s
  PROVE  StatedHash(HashOf(names, p, s)) = StatedHash(HashOf(names, q, s))
<1>1. ASSUME NEW n \in names \cap Names
      PROVE  {StatedRow(row) : row \in p[n]} = {StatedRow(row) : row \in q[n]}
  <2>1. /\ Stated(p)[n] = {StatedRow(row) : row \in p[n]}
        /\ Stated(q)[n] = {StatedRow(row) : row \in q[n]}
    BY DEF Stated
  <2> QED BY <2>1
<1>2. Stated([n \in names \cap Names |-> p[n]]) = Stated([n \in names \cap Names |-> q[n]])
  <2>1. /\ Stated([n \in names \cap Names |-> p[n]]) =
             [n \in names \cap Names |-> {StatedRow(row) : row \in p[n]}]
        /\ Stated([n \in names \cap Names |-> q[n]]) =
             [n \in names \cap Names |-> {StatedRow(row) : row \in q[n]}]
    BY DEF Stated
  <2> QED BY <1>1, <2>1
<1> QED BY <1>2 DEF StatedHash, HashOf

(* Without operator commands every event is of a finalized chapter.        *)
LEMMA EventsAreChapters ==
  ASSUME IndInv, NoCommands
  PROVE  \A e \in events : e.source = "chapter" /\ e.owner \in FinalizedKeys
<1> SUFFICES ASSUME NEW e \in events
             PROVE  e.source = "chapter" /\ e.owner \in FinalizedKeys
  OBVIOUS
<1>1. PICK m \in manifests : e \in m.events
  BY DEF IndInv, LogMatchesManifests
<1>2. e.owner = m.key
  BY <1>1 DEF IndInv, LogMatchesManifests
<1>3. m.kind = "chapter_finalize"
  <2>1. m.kind \in Roots \cup Natives
    BY DEF IndInv, HistoryInv, TypeInv, TypeOK, TypedManifest
  <2> QED BY <1>1, <2>1 DEF IndInv, EventsHaveTheirSource, NoCommands, Natives
<1> QED BY <1>1, <1>2, <1>3
        DEF IndInv, HistoryInv, CommitMatchesManifest, EventsHaveTheirSource, SourceOf

(* No event lies above the head of the chain.                              *)
LEMMA EventsBelowHead ==
  ASSUME IndInv
  PROVE  \A e \in events : e.revision \in Nat /\ e.revision <= revision
<1> SUFFICES ASSUME NEW e \in events PROVE e.revision \in Nat /\ e.revision <= revision
  OBVIOUS
<1>1. PICK m \in manifests : e \in m.events
  BY DEF IndInv, LogMatchesManifests
<1>2. e.revision = m.revision /\ m.revision \in Nat /\ revision \in Nat
  BY <1>1 DEF IndInv, LogMatchesManifests, HistoryInv, TypeInv, TypeOK, TypedManifest
<1>3. PICK root \in manifests : {n.revision : n \in manifests} = root.revision .. revision
  BY DEF IndInv, HistoryInv, ManifestChain
<1>4. m.revision \in root.revision .. revision
  BY <1>3
<1>5. root.revision \in Nat
  BY DEF IndInv, HistoryInv, TypeInv, TypeOK, TypedManifest
<1> QED BY <1>2, <1>4, <1>5

(* Where no event of the log is silent, the rows are those of the log, not *)
(* only what they state.                                                   *)
LEMMA NothingDerived ==
  ASSUME HistoryInv, ProjectionFollowsLog, \A e \in events : ~ SilentAbout(e)
  PROVE  projection = ApplyRows(Unwritten, events)
<1> DEFINE rows == ApplyRows(Unwritten, events)
<1>1. projection \in [Names -> SUBSET Row]
  BY DEF HistoryInv, TypeInv, TypeOK
<1>2. \A e \in events : \A c : Reduce(e, c) = StatedOf(e)
  BY DEF Reduce, StatedOf
<1>3. ASSUME NEW n \in Names PROVE projection[n] = rows[n]
  <2> DEFINE mine == {x \in events : x.name = n}
  <2>1. {StatedRow(row) : row \in projection[n]} = {StatedOf(e) : e \in mine}
    <3>1. Stated(projection)[n] = {StatedRow(row) : row \in projection[n]}
      BY <1>1 DEF Stated
    <3>2. {StatedRow(row) : row \in Unwritten[n]} = {}
      BY DEF Unwritten
    <3>3. Stated(rows)[n] = {StatedOf(e) : e \in mine}
      BY <3>2, StatedApply
    <3> QED BY <3>1, <3>3 DEF ProjectionFollowsLog
  <2>2. rows[n] = {StatedOf(e) : e \in mine}
    <3>1. rows[n] = {Reduce(e, e.chapter) : e \in mine}
      BY DEF ApplyRows, Unwritten
    <3> HIDE DEF rows
    <3> QED BY <1>2, <3>1
  <2>3. ASSUME NEW row \in projection[n] PROVE StatedRow(row) = row
    <3>1. row \in Row
      BY <1>1
    <3>2. PICK e \in mine : StatedRow(row) = StatedOf(e)
      BY <2>1
    <3>3. ~ SilentAbout(e)
      BY <3>2
    <3>4. row # ImportedRow => row.event = StatedRow(row).event
      BY <3>1 DEF StatedRow, Row
    <3>5. StatedRow(row).event = e
      BY <3>2 DEF StatedOf
    <3> QED BY <3>3, <3>4, <3>5 DEF StatedRow
  <2> HIDE DEF rows, mine
  <2> QED BY <2>1, <2>2, <2>3
<1>4. projection = [n \in Names |-> projection[n]] /\ rows = [n \in Names |-> rows[n]]
  BY <1>1 DEF ApplyRows
<1> HIDE DEF rows
<1>5. projection = rows
  BY <1>3, <1>4
<1> QED BY <1>5 DEF rows

(* A replay of the whole log finds what every row states, and the rows as  *)
(* they are if the log is silent about none.                               *)
LEMMA ReplayFindsRows ==
  ASSUME ChapterOnly, IndInv, ProjectionFollowsLog,
         NEW r \in Revisions, RuntimeAt(r),
         NEW scope \in ReplayScopes, NEW bounds \in ReplayBounds
  PROVE  /\ Stated(ReplayedRows(scope, bounds)) = Stated(projection)
         /\ DOMAIN ReplayedRows(scope, bounds) = Names
         /\ (\A e \in events : ~ SilentAbout(e)) => ReplayedRows(scope, bounds) = projection
         /\ ReplayedSummaries(scope) = summaries
<1> DEFINE rows == ApplyRows(Unwritten, events)
<1>1. InBounds(bounds) = events
  <2>1. bounds[1] = 0 /\ MaxRevision <= bounds[2] /\ bounds[2] \in Nat /\ MaxRevision \in Nat
    BY InputsAssumption DEF ChapterOnly, WholeReplays
  <2>2. revision <= MaxRevision /\ revision \in Nat
    BY <2>1 DEF RuntimeAt, Revisions
  <2>3. ASSUME NEW e \in events PROVE bounds[1] <= e.revision /\ e.revision <= bounds[2]
    BY <2>1, <2>2, EventsBelowHead
  <2> QED BY <2>3 DEF InBounds
<1>2. DOMAIN projection = Names /\ projection = [n \in Names |-> projection[n]]
  BY DEF IndInv, HistoryInv, TypeInv, TypeOK
<1>3. ReplayedRows(scope, bounds) = [n \in Names |-> IF n \in scope THEN rows[n] ELSE projection[n]]
  BY <1>1 DEF ReplayedRows
<1>4. Stated(ReplayedRows(scope, bounds)) = Stated(projection)
  <2>1. DOMAIN rows = Names /\ Stated(projection) = Stated(rows)
    BY DEF ApplyRows, ProjectionFollowsLog
  <2> HIDE DEF rows
  <2>2. ASSUME NEW n \in Names
        PROVE  {StatedRow(row) : row \in rows[n]} = {StatedRow(row) : row \in projection[n]}
    <3>1. /\ Stated(rows)[n] = {StatedRow(row) : row \in rows[n]}
          /\ Stated(projection)[n] = {StatedRow(row) : row \in projection[n]}
      BY <1>2, <2>1 DEF Stated
    <3> QED BY <2>1, <3>1
  <2>3. Stated(ReplayedRows(scope, bounds)) =
          [n \in Names |-> {StatedRow(row) : row \in IF n \in scope THEN rows[n] ELSE projection[n]}]
    BY <1>3 DEF Stated
  <2>4. Stated(projection) = [n \in Names |-> {StatedRow(row) : row \in projection[n]}]
    BY <1>2 DEF Stated
  <2> QED BY <2>2, <2>3, <2>4
<1>5. ASSUME \A e \in events : ~ SilentAbout(e) PROVE ReplayedRows(scope, bounds) = projection
  <2>1. rows = projection
    BY <1>5, NothingDerived DEF IndInv
  <2> HIDE DEF rows
  <2> QED BY <1>2, <1>3, <2>1
<1>6. DOMAIN ReplayedRows(scope, bounds) = Names
  BY <1>3
<1> QED BY <1>4, <1>5, <1>6 DEF ReplayedSummaries, ProjectionFollowsLog

(* A step that moves neither what the rows state, the log nor a finalized  *)
(* commit.                                                                 *)
LEMMA QuietRows ==
  ASSUME HistoryInv, ProjectionInv, KeepsFinalized, FinalizedKeys' = FinalizedKeys,
         DOMAIN projection' = Names, Stated(projection') = Stated(projection),
         summaries' = summaries, events' = events,
         manifests' = manifests, revision' = revision, ReplayAgrees',
         checkpoints' = checkpoints
           \/ checkpoints' = Checkpointed(projection', summaries, revision)
  PROVE  ProjectionInv'
<1>1. StoredSummaries(commits)' = StoredSummaries(commits)
  <2>1. \A k \in FinalizedKeys : commits'[k] = commits[k]
    BY DEF KeepsFinalized, FinalizedKeys
  <2>3. StoredSummaries(commits) =
          {[chapter |-> commits[k].chapter, artifact |-> commits[k].artifact] : k \in FinalizedKeys}
    BY DEF StoredSummaries, FinalizedKeys
  <2>4. StoredSummaries(commits)' =
          {[chapter |-> commits'[k].chapter, artifact |-> commits'[k].artifact] :
             k \in FinalizedKeys'}
    BY DEF StoredSummaries, FinalizedKeys
  <2> QED BY <2>1, <2>3, <2>4
<1>2. ProjectionFollowsLog'
  BY <1>1 DEF ProjectionInv, ProjectionFollowsLog
<1>3. \A names : StatedHash(HashOf(names, projection', summaries'))
                  = StatedHash(HashOf(names, projection, summaries))
  <2>1. DOMAIN projection = Names
    BY DEF HistoryInv, TypeInv, TypeOK
  <2>2. PICK p : p = projection'
    OBVIOUS
  <2> QED BY <2>1, <2>2, SameStated
<1>4. NoCommands' /\ StateMatchesManifest'
  <2>1. StatedHash(StateHash)' = StatedHash(StateHash)
    <3>1. StatedHash(StateHash)' = StatedHash(HashOf(AllNames, projection', summaries'))
      BY DEF StateHash
    <3> QED BY <1>3, <3>1 DEF StateHash
  <2>2. NativeManifests' = NativeManifests
    BY DEF NativeManifests
  <2> QED BY <2>1, <2>2 DEF ProjectionInv, NoCommands, StateMatchesManifest
<1>5. CheckpointsTruthful'
  <2>1. CASE checkpoints' = checkpoints
    BY <1>3, <2>1 DEF ProjectionInv, CheckpointsTruthful
  <2>2. CASE checkpoints' = Checkpointed(projection', summaries, revision)
    BY <2>2 DEF Checkpointed, CheckpointsTruthful
  <2> QED BY <2>1, <2>2
<1> QED BY <1>2, <1>4, <1>5 DEF ProjectionInv

(* A chapter's transaction publishes what it leaves behind.                *)
LEMMA FinalizeRows ==
  ASSUME ChapterOnly, IndInv, ProjectionInv, NEW k \in Keys, NEW expected,
         NEW a \in Artifacts, FinalizeChapter(k, expected, a), jobs' = jobs
  PROVE  ProjectionInv'
<1> DEFINE c  == commits[k]
           es == EventsOf(k, a, "chapter", c.chapter, Boundary + 1)
           p  == ApplyLive(projection, es)
           s  == {x \in summaries : x.chapter # c.chapter}
                   \cup {[chapter |-> c.chapter, artifact |-> a]}
<1>0. HistoryInv
  BY DEF IndInv
<1>1. PICK m : /\ m.kind = "chapter_finalize" /\ m.key = k /\ m.hash = ledger'[k].hash
               /\ m.revision = revision'
               /\ NativeManifests' = NativeManifests \cup {m}
  BY <1>0, FinalizeEffect
<1>2. /\ revision' \in Nat /\ revision < revision'
      /\ FinalizedKeys' = FinalizedKeys \cup {k} /\ k \notin FinalizedKeys
      /\ \A x \in Keys : x # k => commits'[x] = commits[x]
      /\ commits'[k].artifact = a /\ commits'[k].chapter = c.chapter
  BY <1>0, FinalizeEffect
<1>3. /\ projection' = p /\ summaries' = s /\ events' = events \cup es
      /\ checkpoints' = Checkpointed(p, s, revision')
      /\ revision' = Boundary + 1
      /\ ledger' = [ledger EXCEPT ![k].hash = HashOf(AllNames, p, s)]
      /\ manifests' = manifests \cup BootstrapManifests \cup
           {Manifest(Boundary + 1, {Boundary}, "chapter_finalize", k, expected, a, es,
                     HashOf(AllNames, p, s))}
      /\ \A x \in FinalizedKeys : commits[x].chapter # c.chapter
  BY DEF FinalizeChapter, Allocate, ChapterIsFree
<1>4. Stated(p) = Stated(ApplyRows(Unwritten, events'))
  <2>1. DOMAIN projection = Names /\ Stated(projection) = Stated(ApplyRows(Unwritten, events))
    BY DEF IndInv, HistoryInv, TypeInv, TypeOK, ProjectionInv, ProjectionFollowsLog
  <2> HIDE DEF es
  <2> QED BY <1>3, <2>1, ReduceInParts
<1> HIDE DEF p, es
<1>5. s = StoredSummaries(commits)'
  <2> DEFINE Entry(x) == [chapter |-> commits[x].chapter, artifact |-> commits[x].artifact]
  <2>1. summaries = {Entry(x) : x \in FinalizedKeys}
    BY DEF ProjectionInv, ProjectionFollowsLog, StoredSummaries, FinalizedKeys
  <2>2. \A x \in FinalizedKeys : Entry(x).chapter # c.chapter
    BY <1>3
  <2>3. {x \in summaries : x.chapter # c.chapter} = summaries
    BY <2>1, <2>2
  <2>4. StoredSummaries(commits)' = {Entry(x)' : x \in FinalizedKeys'}
    BY DEF StoredSummaries, FinalizedKeys
  <2>5. \A x \in FinalizedKeys : Entry(x)' = Entry(x)
    BY <1>2 DEF FinalizedKeys
  <2>6. Entry(k)' = [chapter |-> c.chapter, artifact |-> a]
    BY <1>2
  <2> HIDE DEF Entry
  <2>7. {Entry(x)' : x \in FinalizedKeys'} = {Entry(x) : x \in FinalizedKeys} \cup {Entry(k)'}
    BY <1>2, <2>5
  <2> QED BY <2>1, <2>3, <2>4, <2>6, <2>7
<1>6. ProjectionFollowsLog'
  <2> HIDE DEF s
  <2> QED BY <1>3, <1>4, <1>5 DEF ProjectionFollowsLog
<1> HIDE DEF s
<1>7. m.hash = StateHash'
  <2>1. k \in DOMAIN ledger /\ ledger[k] \in [op: Operations, hash: Hash]
    BY DEF IndInv, HistoryInv, TypeInv, TypeOK
  <2>2. ledger'[k].hash = HashOf(AllNames, p, s)
    BY <1>3, <2>1
  <2> QED BY <1>1, <1>3, <2>2 DEF StateHash
<1>8. StateMatchesManifest'
  <2>1. ASSUME NEW n \in NativeManifests PROVE n.revision # revision'
    <3>1. n.revision \in {x.revision : x \in manifests} /\ manifests # {}
      BY DEF NativeManifests
    <3>2. PICK root \in manifests : {x.revision : x \in manifests} = root.revision .. revision
      BY <3>1 DEF IndInv, HistoryInv, ManifestChain
    <3>3. root.revision \in Nat /\ revision \in Nat
      BY DEF IndInv, HistoryInv, TypeInv, TypeOK, TypedManifest
    <3> QED BY <1>2, <3>1, <3>2, <3>3
  <2> QED BY <1>1, <1>7, <2>1 DEF StateMatchesManifest
<1>9. CheckpointsTruthful'
  BY <1>3 DEF CheckpointsTruthful, Checkpointed
<1>10. NoCommands'
  BY <1>3 DEF ProjectionInv, NoCommands, BootstrapManifests, Manifest
<1>11. ReplayAgrees'
  BY <1>3 DEF ProjectionInv, ReplayAgrees, SilentAbout
<1> QED BY <1>6, <1>8, <1>9, <1>10, <1>11 DEF ProjectionInv

LEMMA InitProjection == ChapterOnly /\ Init => ProjectionInv
<1> SUFFICES ASSUME ChapterOnly, Init PROVE ProjectionInv
  OBVIOUS
<1>1. projection = Unwritten /\ manifests = {} /\ revision = 0
  BY DEF ChapterOnly, ChaptersAlone, Init, InitProject
<1>2. events = {} /\ summaries = {} /\ FinalizedKeys = {}
  BY DEF Init, FinalizedKeys, NoCommit
<1>3. ApplyRows(Unwritten, {}) = Unwritten
  BY DEF ApplyRows, Unwritten
<1>4. StoredSummaries(commits) = {}
  BY <1>2 DEF StoredSummaries, FinalizedKeys
<1>5. ProjectionFollowsLog /\ NoCommands /\ StateMatchesManifest /\ CheckpointsTruthful
  BY <1>1, <1>2, <1>3, <1>4
     DEF ProjectionFollowsLog, NoCommands, StateMatchesManifest, NativeManifests,
         CheckpointsTruthful
<1>6. ReplayAgrees
  BY DEF Init, ReplayAgrees
<1> QED BY <1>5, <1>6 DEF ProjectionInv

LEMMA NextProjection ==
  ASSUME ChapterOnly, IndInv, ProjectionInv, [Next]_vars
  PROVE  ProjectionInv'
<1> DEFINE Goal == ProjectionInv'
<1> USE DEF authority, read
<1>0. HistoryInv /\ KeepsFinalized /\ commits \in [Keys -> CommitRow]
  BY NextKeepsFinalized DEF IndInv, HistoryInv, TypeInv, TypeOK
<1>1. ASSUME FinalizedKeys' = FinalizedKeys,
             UNCHANGED <<projection, summaries, events, manifests, revision, checkpoints, jobs>>
      PROVE  Goal
  <2>1. ReplayAgrees'
    BY <1>1 DEF ProjectionInv, ReplayAgrees, SilentAbout
  <2>2. DOMAIN projection' = Names
    BY <1>0, <1>1 DEF HistoryInv, TypeInv, TypeOK
  <2> QED BY <1>0, <1>1, <2>1, <2>2, QuietRows
<1>2. ASSUME NEW k \in Keys, NEW expected, NEW a \in Artifacts, FinalizeChapter(k, expected, a),
             jobs' = jobs
      PROVE  Goal
  BY <1>2, FinalizeRows
<1>3. ASSUME NEW k \in Keys, RecoverReset(k) PROVE Goal
  <2>1. commits[k].state \notin {"NONE", "FINALIZED"}
    BY <1>3 DEF RecoverReset
  <2>2. \A e \in events : e.owner # k
    BY <2>1, UnspentOwnsNothing
  <2>3. events' = events
    BY <1>3, <2>2 DEF RecoverReset, OwnEvents
  <2>4. {e \in events' : e.source = "chapter" /\ e.owner \in FinalizedKeys} = events
    BY <2>3, EventsAreChapters DEF ProjectionInv
  <2>5. projection' = ApplyRows(Unwritten, events) /\ summaries' = summaries
    BY <1>3, <2>4 DEF RecoverReset, ProjectionInv, ProjectionFollowsLog
  <2>6. DOMAIN projection' = Names /\ Stated(projection') = Stated(projection)
    BY <2>5 DEF ApplyRows, ProjectionInv, ProjectionFollowsLog
  <2>7. FinalizedKeys' = FinalizedKeys
    BY <1>0, <1>3, <2>1 DEF RecoverReset, FinalizedKeys, CommitRow
  <2>8. ReplayAgrees'
    BY <1>3, <2>3 DEF RecoverReset, ProjectionInv, ReplayAgrees, SilentAbout
  <2> QED BY <1>0, <1>3, <2>3, <2>5, <2>6, <2>7, <2>8, QuietRows DEF RecoverReset
<1>4. ASSUME NEW j \in ReplayKeys, NEW r \in Revisions, NEW scope \in ReplayScopes,
             NEW bounds \in ReplayBounds, NEW compare \in BOOLEAN,
             ReplayVerify(j, r, scope, bounds, compare)
               \/ ReplayApply(j, r, scope, bounds, compare)
      PROVE  Goal
  <2>1. /\ Stated(ReplayedRows(scope, bounds)) = Stated(projection)
        /\ DOMAIN ReplayedRows(scope, bounds) = Names
        /\ (\A e \in events : ~ SilentAbout(e)) => ReplayedRows(scope, bounds) = projection
        /\ ReplayedSummaries(scope) = summaries
    BY <1>4, ReplayFindsRows DEF ProjectionInv, ReplayVerify, ReplayApply
  <2>2. (\A e \in events : ~ SilentAbout(e)) => Outcome(scope, bounds, compare) = "FINALIZED"
    BY <2>1 DEF Outcome
  <2>3. ReplayAgrees'
    <3> SUFFICES ASSUME \A e \in events : ~ SilentAbout(e)
                 PROVE  \A i \in ReplayKeys : jobs'[i] # "MISMATCH"
      BY <1>4 DEF ReplayAgrees, SilentAbout, ReplayVerify, ReplayApply
    <3>1. jobs' = [jobs EXCEPT ![j] = "FINALIZED"]
      BY <1>4, <2>2 DEF ReplayVerify, ReplayApply
    <3>2. jobs \in [ReplayKeys -> {"NONE", "FINALIZED", "MISMATCH"}]
      BY <1>0 DEF HistoryInv, TypeInv, TypeOK
    <3> QED BY <3>1, <3>2 DEF ProjectionInv, ReplayAgrees
  <2>4. /\ Stated(projection') = Stated(projection) /\ DOMAIN projection' = Names
        /\ summaries' = summaries
        /\ UNCHANGED <<commits, events, manifests, revision>>
        /\ checkpoints' = checkpoints
             \/ checkpoints' = Checkpointed(projection', summaries, revision)
    <3>1. DOMAIN projection = Names
      BY <1>0 DEF HistoryInv, TypeInv, TypeOK
    <3>2. CASE ReplayVerify(j, r, scope, bounds, compare)
      BY <3>1, <3>2 DEF ReplayVerify
    <3>3. CASE ReplayApply(j, r, scope, bounds, compare)
      BY <2>1, <3>3 DEF ReplayApply
    <3> QED BY <1>4, <3>2, <3>3
  <2>5. FinalizedKeys' = FinalizedKeys
    BY <2>4 DEF FinalizedKeys
  <2> QED BY <1>0, <2>3, <2>4, <2>5, QuietRows
<1>5. ASSUME NEW k \in Keys, CreateProject(k) PROVE Goal
  <2>1. /\ manifests = {}
        /\ manifests' = {Manifest(0, {}, "initialize_empty", k, 0, NoArtifact, {}, EmptyMarker)}
        /\ revision' = 0
        /\ UNCHANGED <<projection, summaries, events, commits, checkpoints, jobs>>
    BY <1>0, <1>5 DEF CreateProject, HistoryInv, AbsentIsEmpty
  <2>2. NoCommands' /\ StateMatchesManifest'
    BY <2>1 DEF NoCommands, StateMatchesManifest, NativeManifests, Natives, Manifest
  <2>3. CheckpointsTruthful'
    BY <2>1 DEF CheckpointsTruthful
  <2>4. ProjectionFollowsLog' /\ ReplayAgrees'
    BY <2>1 DEF ProjectionInv, ProjectionFollowsLog, ReplayAgrees, SilentAbout
  <2> QED BY <2>2, <2>3, <2>4 DEF ProjectionInv
<1>6. ASSUME NEW k \in Keys, RecoverResume(k) PROVE Goal
  <2>1. commits[k].artifact \in Artifacts
    BY <1>0, <1>6 DEF RecoverResume, CommitRow
  <2> QED BY <1>2, <1>6, <2>1 DEF RecoverResume
<1>7. ASSUME NEW k \in Keys,
             \/ \E r \in Revisions, c \in 1 .. MaxRevision : Prepare(k, r, c)
             \/ \E r \in Revisions, a \in Artifacts : ValidateAccept(k, r, a)
             \/ \E r \in Revisions, a \in Artifacts : ValidateReject(k, r, a)
             \/ RecoverAbort(k) \/ StudioAbort(k)
      PROVE  Goal
  <2>1. commits[k].state # "FINALIZED" /\ commits'[k].state # "FINALIZED"
    BY <1>0, <1>7 DEF Prepare, ValidateAccept, ValidateReject, RecoverAbort, StudioAbort,
                      CommitRow
  <2>2. /\ \A x \in Keys : x # k => commits'[x] = commits[x]
        /\ UNCHANGED <<projection, summaries, events, manifests, revision, checkpoints, jobs>>
    BY <1>0, <1>7 DEF Prepare, ValidateAccept, ValidateReject, RecoverAbort, StudioAbort
  <2>3. FinalizedKeys' = FinalizedKeys
    BY <2>1, <2>2 DEF FinalizedKeys
  <2> QED BY <1>1, <2>2, <2>3
<1>8. ASSUME NEW k \in Keys, NEW r, NEW d, AppendOperatorEvents(k, r, d) PROVE FALSE
  BY <1>8 DEF AppendOperatorEvents, ChapterOnly, ChaptersAlone
<1>9. ASSUME UNCHANGED <<commits, projection, summaries, events, manifests, revision,
                         checkpoints, jobs>>
      PROVE  Goal
  BY <1>1, <1>9 DEF FinalizedKeys
<1> QED BY <1>2, <1>3, <1>4, <1>5, <1>6, <1>7, <1>8, <1>9
        DEF Next, Commit, RecoverGiveUp, Crash, vars

LEMMA ProjectionHolds ==
  ASSUME ChapterOnly
  PROVE  Spec => []ProjectionInv
BY InitIndInv, NextIndInv, InitProjection, NextProjection, PTL DEF Spec

(* Where chapters alone write a project and replays cover the whole log, the *)
(* rows at the head state what its newest manifest attests, also after a     *)
(* recovery, a crash in the middle of one, or a replay.                      *)
THEOREM ManifestAttestsState ==
  ASSUME ChapterOnly
  PROVE  Spec => []StateMatchesManifest
<1>1. ProjectionInv => StateMatchesManifest
  BY DEF ProjectionInv
<1> QED BY <1>1, ProjectionHolds, PTL

(* ... the rows state what the whole log reduces to, and the summaries are   *)
(* those of the finalized commits.                                          *)
THEOREM RowsFollowLog ==
  ASSUME ChapterOnly
  PROVE  Spec => []ProjectionFollowsLog
<1>1. ProjectionInv => ProjectionFollowsLog
  BY DEF ProjectionInv
<1> QED BY <1>1, ProjectionHolds, PTL

(* ... a checkpoint at the head has the hash of what the rows there state.   *)
THEOREM CheckpointsHold ==
  ASSUME ChapterOnly
  PROVE  Spec => []CheckpointsTruthful
<1>1. ProjectionInv => CheckpointsTruthful
  BY DEF ProjectionInv
<1> QED BY <1>1, ProjectionHolds, PTL

(* ... and a replay that compares its result reports a mismatch only for an  *)
(* event that leaves its chapter to the reducer, and so to the path.         *)
THEOREM ReplaysAgree ==
  ASSUME ChapterOnly
  PROVE  Spec => []ReplayAgrees
<1>1. ProjectionInv => ReplayAgrees
  BY DEF ProjectionInv
<1> QED BY <1>1, ProjectionHolds, PTL
=============================================================================
