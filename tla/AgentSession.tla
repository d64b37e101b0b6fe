---------------------------- MODULE AgentSession ----------------------------
(***************************************************************************)
(* One session of a Studio process: its transcript, a JSON-lines file      *)
(* (interaction/session-transcript.ts), the agent that is kept in memory   *)
(* between the turns (agent/agent-session.ts), and those that use them:    *)
(* turns of the agent, one at a time; routes that post a finished request  *)
(* to the transcript beside the turns; create, abort, eviction, delete;    *)
(* and restarts of the process.                                            *)
(*                                                                         *)
(* An append reads the file, numbers its events after the largest seq it   *)
(* read, and writes them; the appends of a process queue up, the delete    *)
(* does not.  An append that fails and a restart can leave a torn last     *)
(* line, to which the next append glues its first event.                   *)
(***************************************************************************)
EXTENDS Naturals, Sequences, SequencesExt, FiniteSetsExt

CONSTANTS
  Turns,       \* calls of runAgentSession
  Posts,       \* calls of appendManualSessionMessages
  Creates,     \* calls that make sure the session exists
  MaxCalls,    \* bound on posts and creations
  MaxMishaps   \* bound on deletes, appends that fail and restarts of the process

Jobs == Turns \cup Posts \cup Creates

ASSUME SessionAssumption ==
  /\ {MaxCalls, MaxMishaps} \subseteq Nat
  /\ Turns \cap Posts = {} /\ (Turns \cup Posts) \cap Creates = {}

VARIABLES
  file,     \* the lines of the transcript
  building, \* per job, the events it has numbered and not yet written
  pc,       \* per job, where it is
  queue,    \* agentSessionQueues: the turns, the first one running
  agent,    \* the agent built last: the requests in its memory, its lastCommittedSeq
  cached,   \* whether agentCache has it
  deletes, faults, restarts

vars == <<file, building, pc, queue, agent, cached, deletes, faults, restarts>>

Kinds == {"created", "started", "message", "committed", "failed", "torn", "spoilt"}

Init ==
  /\ file = << >>
  /\ building = [j \in Jobs |-> << >>]
  /\ pc = [j \in Jobs |-> "idle"]
  /\ queue = << >>
  /\ agent = [knows |-> {}, seq |-> 0] /\ cached = FALSE
  /\ deletes = 0 /\ faults = 0 /\ restarts = 0

----------------------------------------------------------------------------
(* The transcript                                                          *)

(* readTranscriptEvents skips what does not parse.                         *)
Parses(e) == e.kind \notin {"torn", "spoilt"}
Events == {e \in ToSet(file) : Parses(e)}
OfKind(kind) == {e \in Events : e.kind = kind}
LargestSeq(events) == Max({e.seq : e \in events} \cup {0})
LatestCommitted == LargestSeq(OfKind("committed"))

(* committedMessageEvents                                                  *)
CommittedRequests ==
  {e.of : e \in OfKind("committed")} \cap {e.of : e \in OfKind("message")}

Numbered(j, kinds) ==
  [i \in 1 .. Len(kinds) |-> [kind |-> kinds[i], of |-> j,
                              seq |-> LargestSeq(Events) + i]]

(* Mutation: the appends of the process do not queue up.                   *)
AppendsAtOnce == TRUE

NoAppendInProgress == \A j \in Jobs : building[j] = << >>

(* Mutation: a posted request is committed before its messages.            *)
CommitsFirst(j) ==
  CASE pc[j] = "creating"                -> <<"created">>
    [] pc[j] = "starting"                -> <<"started">>
    [] pc[j] = "talking"                 -> <<"message">>
    [] pc[j] = "ending"                  -> <<"committed">>
    [] pc[j] \in {"failing", "catching"} -> <<"failed">>
    [] pc[j] = "posting"                 -> <<"started", "committed", "message">>

(* What a job appends where it is: the kinds of its events.                *)
Batch(j) ==
  CASE pc[j] = "creating"                -> <<"created">>
    [] pc[j] = "starting"                -> <<"started">>
    [] pc[j] = "talking"                 -> <<"message">>
    [] pc[j] = "ending"                  -> <<"committed">>
    [] pc[j] \in {"failing", "catching"} -> <<"failed">>
    [] pc[j] = "posting"                 -> <<"started", "message", "committed">>

Appending == {"creating", "starting", "talking", "ending", "failing", "catching", "posting"}

AlreadyCreated(j) == pc[j] = "creating" /\ OfKind("created") # {}

BeginAppend(j) ==
  /\ pc[j] \in Appending /\ ~AlreadyCreated(j)
  /\ NoAppendInProgress /\ building[j] = << >>
  /\ building' = [building EXCEPT ![j] = Numbered(j, Batch(j))]
  /\ UNCHANGED <<file, pc, queue, agent, cached, deletes, faults, restarts>>

(* Where a job goes after its append, or after the look that finds the     *)
(* session created.  The prompt of a turn has returned an answer or an     *)
(* error, by the model or by an abort in time, or has thrown.              *)
Follows(j) ==
  IF j \notin Turns THEN {"done"}
  ELSE CASE pc[j] = "creating"                -> {"starting"}
         [] pc[j] = "starting"                -> {"talking"}
         [] pc[j] = "talking"                 -> {"ending", "failing", "catching"}
         [] pc[j] = "ending"                  -> {"committed"}
         [] pc[j] \in {"failing", "catching"} -> {"failed"}

(* Where it goes when the append fails: past the catch of a turn, which    *)
(* appends request_failed, the failure of the turn is not recorded.        *)
FailsTo(j) ==
  IF j \notin Turns THEN {"failed"}
  ELSE CASE pc[j] = "talking"              -> {"failing", "catching"}
         [] pc[j] \in {"ending", "failing"} -> {"catching"}
         [] pc[j] = "catching"             -> {"unrecorded"}
         [] OTHER                          -> {"failed"}

Ends == {"committed", "failed", "unrecorded"}

(* Mutation: a turn that fails does not release the queue.                 *)
ReleasesOnSuccess(j, place) ==
  IF j \in Turns /\ place = "committed" THEN Tail(queue) ELSE queue

Released(j, place) == IF j \in Turns /\ place \in Ends THEN Tail(queue) ELSE queue

GoesOn(j, place) == pc' = [pc EXCEPT ![j] = place] /\ queue' = Released(j, place)

SkipCreated(j) ==
  /\ AlreadyCreated(j)
  /\ NoAppendInProgress
  /\ \E place \in Follows(j) : GoesOn(j, place)
  /\ UNCHANGED <<file, building, agent, cached, deletes, faults, restarts>>

(* The next append glues its first event to a torn line and spoils it.     *)
Spoiled(e) == IF e.kind = "torn" THEN e ELSE [e EXCEPT !.kind = "spoilt"]

Written(events) ==
  IF file # << >> /\ Last(file).kind = "torn"
  THEN Front(file) \o <<Spoiled(Head(events))>> \o Tail(events)
  ELSE file \o events

(* The agent takes the message into its memory before its listener appends *)
(* it, and lastCommittedSeq is the seq the append has returned.            *)
Remembers(t) == IF pc[t] = "talking" THEN [agent EXCEPT !.knows = @ \cup {t}] ELSE agent

(* Mutation: a failed turn stays cached.                                   *)
KeepsFailed(t) == cached

(* agentCache.delete after request_failed.                                 *)
CachedAfter(t) == cached /\ pc[t] \notin {"failing", "catching"}

(* The bookkeeping of a turn goes with the append it awaited.              *)
EndAppend(j) ==
  LET events == building[j] IN
  /\ events # << >>
  /\ file' = Written(events)
  /\ building' = [building EXCEPT ![j] = << >>]
  /\ \E place \in Follows(j) : GoesOn(j, place)
  /\ IF j \in Turns
     THEN /\ agent' = IF pc[j] = "ending" THEN [agent EXCEPT !.seq = Last(events).seq]
                      ELSE Remembers(j)
          /\ cached' = CachedAfter(j)
     ELSE UNCHANGED <<agent, cached>>
  /\ UNCHANGED <<deletes, faults, restarts>>

(* What is left of an append that was cut short: any of its lines, the     *)
(* last one whole or torn.                                                 *)
Torn == [kind |-> "torn", of |-> CHOOSE j \in Jobs : TRUE, seq |-> 0]
Leftovers(events) ==
  {SubSeq(events, 1, n) : n \in 0 .. Len(events)}
  \cup {Append(SubSeq(events, 1, n), Torn) : n \in 0 .. Len(events) - 1}

Leave(rest) == file' = IF rest = << >> THEN file ELSE Written(rest)

MishapsLeft == deletes + faults + restarts < MaxMishaps

(* The directory or the file refuses: not all of the events are written,   *)
(* the append rejects, and the next one of the process goes ahead.         *)
FailAppend(j) ==
  /\ MishapsLeft
  /\ faults' = faults + 1
  /\ building[j] # << >>
  /\ \E rest \in Leftovers(building[j]) \ {building[j]} : Leave(rest)
  /\ building' = [building EXCEPT ![j] = << >>]
  /\ \E place \in FailsTo(j) : GoesOn(j, place)
  /\ agent' = IF j \in Turns THEN Remembers(j) ELSE agent
  /\ UNCHANGED <<cached, deletes, restarts>>

----------------------------------------------------------------------------
(* runAgentSession                                                         *)

Ask(t) ==
  /\ pc[t] = "idle"
  /\ pc' = [pc EXCEPT ![t] = "queued"]
  /\ queue' = Append(queue, t)
  /\ UNCHANGED <<file, building, agent, cached, deletes, faults, restarts>>

(* Mutation: a turn does not wait for the one before it.                   *)
NeverWaits(t) == TRUE

IsItsTurn(t) == Head(queue) = t

Begin(t) ==
  /\ pc[t] = "queued" /\ IsItsTurn(t)
  /\ pc' = [pc EXCEPT ![t] = IF cached THEN "comparing" ELSE "restoring"]
  /\ UNCHANGED <<file, building, queue, agent, cached, deletes, faults, restarts>>

(* A cached agent is kept if the latest committed seq is still its own and *)
(* nothing else it was built for has changed.                              *)
Compare(t) ==
  /\ pc[t] = "comparing"
  /\ \/ /\ agent.seq = LatestCommitted
        /\ pc' = [pc EXCEPT ![t] = "creating"]
        /\ UNCHANGED <<agent, cached>>
     \/ /\ pc' = [pc EXCEPT ![t] = "rebuilding"]
        /\ agent' = [agent EXCEPT !.seq = LatestCommitted]
        /\ cached' = FALSE
  /\ UNCHANGED <<file, building, queue, deletes, faults, restarts>>

(* restoreAgentMessagesFromTranscript.  Without a cached agent the latest  *)
(* committed seq is read afterwards, by another read of the file.          *)
Restore(t) ==
  /\ pc[t] \in {"restoring", "rebuilding"}
  /\ agent' = [agent EXCEPT !.knows = CommittedRequests]
  /\ IF pc[t] = "restoring"
     THEN pc' = [pc EXCEPT ![t] = "sequencing"] /\ UNCHANGED cached
     ELSE pc' = [pc EXCEPT ![t] = "creating"] /\ cached' = TRUE
  /\ UNCHANGED <<file, building, queue, deletes, faults, restarts>>

ReadSequence(t) ==
  /\ pc[t] = "sequencing"
  /\ agent' = [agent EXCEPT !.seq = LatestCommitted]
  /\ cached' = TRUE
  /\ pc' = [pc EXCEPT ![t] = "creating"]
  /\ UNCHANGED <<file, building, queue, deletes, faults, restarts>>

----------------------------------------------------------------------------
(* The routes beside it, and the process                                   *)

(* A route appends a finished request, or makes sure the session exists.   *)
Call(j) ==
  /\ j \in Posts \cup Creates /\ pc[j] = "idle"
  /\ Cardinality({i \in Posts \cup Creates : pc[i] # "idle"}) < MaxCalls
  /\ pc' = [pc EXCEPT ![j] = IF j \in Posts THEN "posting" ELSE "creating"]
  /\ UNCHANGED <<file, building, queue, agent, cached, deletes, faults, restarts>>

(* The time to live, evictAgentCache, abortAgentSession: an aborted turn   *)
(* goes on to its end, which may be either.                                *)
Evict ==
  /\ cached /\ cached' = FALSE
  /\ UNCHANGED <<file, building, pc, queue, agent, deletes, faults, restarts>>

DeleteSession ==
  /\ MishapsLeft
  /\ deletes' = deletes + 1
  /\ file' = << >>
  /\ UNCHANGED <<building, pc, queue, agent, cached, faults, restarts>>

(* The process stops; an append in progress is cut short.                  *)
Restart ==
  /\ MishapsLeft
  /\ restarts' = restarts + 1
  /\ \/ NoAppendInProgress /\ UNCHANGED file
     \/ \E j \in Jobs : building[j] # << >> /\ \E rest \in Leftovers(building[j]) : Leave(rest)
  /\ building' = [j \in Jobs |-> << >>]
  /\ pc' = [j \in Jobs |-> IF pc[j] \in {"idle", "done"} \cup Ends THEN pc[j] ELSE "lost"]
  /\ queue' = << >> /\ cached' = FALSE
  /\ agent' = [knows |-> {}, seq |-> 0]
  /\ UNCHANGED <<deletes, faults>>

TurnStep(t) ==
  Begin(t) \/ Compare(t) \/ Restore(t) \/ ReadSequence(t)

AppendStep(j) == BeginAppend(j) \/ SkipCreated(j) \/ EndAppend(j)

Next ==
  \/ \E t \in Turns : Ask(t) \/ TurnStep(t)
  \/ \E j \in Jobs : Call(j) \/ AppendStep(j) \/ FailAppend(j)
  \/ Evict \/ DeleteSession \/ Restart

Spec == Init /\ [][Next]_vars

(* Promises settle: model calls have timeouts, file operations end.        *)
Fairness ==
  /\ \A t \in Turns : WF_vars(TurnStep(t))
  /\ \A j \in Jobs : WF_vars(AppendStep(j))

FairSpec == Spec /\ Fairness

----------------------------------------------------------------------------
Event == [kind : Kinds, of : Jobs, seq : Nat]

Pcs == Appending \cup Ends \cup {"idle", "queued", "comparing", "restoring", "rebuilding",
                                "sequencing", "done", "lost"}

Running == {t \in Turns : pc[t] \notin Ends \cup {"idle", "queued", "lost"}}

(* The variables keep their shape, and only the first turn of the queue    *)
(* runs.                                                                   *)
TypeOK ==
  /\ file \in Seq(Event)
  /\ building \in [Jobs -> Seq(Event)]
  /\ pc \in [Jobs -> Pcs]
  /\ queue \in Seq(Turns)
  /\ agent \in [knows : SUBSET Jobs, seq : Nat]
  /\ cached \in BOOLEAN
  /\ {deletes, faults, restarts} \subseteq Nat
  /\ \A t \in Running : queue # << >> /\ Head(queue) = t

(* The seqs of a transcript rise from line to line, so sorting by seq is   *)
(* the order of writing, and it is created once, whoever comes first: with *)
(* posts beside turns, an append that outlives a delete, and torn lines.   *)
TranscriptInOrder ==
  /\ \A m, n \in 1 .. Len(file) :
       (m < n /\ Parses(file[m]) /\ Parses(file[n])) => file[m].seq < file[n].seq
  /\ Cardinality(OfKind("created")) <= 1

(* What restore shows as committed is whole: a committed request is left   *)
(* without its messages by no crash and no failed append of its own; only  *)
(* when another append failed is a line of it lost in a torn one.          *)
CommittedIsWhole ==
  deletes = 0 => \A e \in OfKind("committed") :
    \/ \E m \in OfKind("message") : m.of = e.of /\ m.seq < e.seq
    \/ faults > 0 /\ \E line \in ToSet(file) : line.kind = "spoilt" /\ line.of = e.of

(* No turn remembers a request that failed or was lost: neither a cached   *)
(* agent nor a restored one, through aborts, evictions, restarts and       *)
(* failed appends.  The one exception is a failure that could not be       *)
(* recorded itself, which the cached agent keeps.                          *)
NoFailedMemory ==
  \A t \in Running : pc[t] \in Appending =>
    \A r \in agent.knows \ {t} :
      /\ pc[r] # "failed"
      /\ deletes = 0 => pc[r] = "unrecorded" \/ \E e \in OfKind("committed") : e.of = r

(* Every turn that is asked for ends, failed ones before it or not.        *)
TurnsEnd ==
  \A t \in Turns : pc[t] = "queued" ~> pc[t] \in Ends \cup {"lost"}
=============================================================================
