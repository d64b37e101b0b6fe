------------------------- MODULE AgentSessionProofs -------------------------
(***************************************************************************)
(* Theorems about AgentSession for any number of turns, posted requests,   *)
(* creations, deletes, failed appends and restarts: who runs, in what      *)
(* order a transcript is written, what it shows as committed, and what a   *)
(* turn remembers.                                                         *)
(***************************************************************************)
EXTENDS AgentSession, SequenceTheorems, FiniteSetTheorems, WellFoundedInduction, TLAPS

----------------------------------------------------------------------------
(* Files                                                                   *)

(* What readTranscriptEvents reads of any file.                            *)
ParsedIn(lines) == {e \in ToSet(lines) : Parses(e)}

TornEnd(lines) == lines # << >> /\ lines[Len(lines)].kind = "torn"

OrderedIn(lines) ==
  \A m, n \in 1 .. Len(lines) :
    (m < n /\ Parses(lines[m]) /\ Parses(lines[n])) => lines[m].seq < lines[n].seq

(* The events that parse are numbered upwards, beyond those of the file.   *)
RisesOver(lines, events) ==
  \A i \in 1 .. Len(events) : Parses(events[i]) =>
    /\ \A e \in ParsedIn(lines) : e.seq < events[i].seq
    /\ \A h \in 1 .. i - 1 : Parses(events[h]) => events[h].seq < events[i].seq

(* The lines of a file once events are written to it: d of its lines and d *)
(* of the events are lost in a line that does not parse.                   *)
Glued(old, events, d, new) ==
  /\ new \in Seq(Event)
  /\ d \in {0, 1} /\ (d = 1 <=> TornEnd(old)) /\ d <= Len(old)
  /\ Len(new) = Len(old) + Len(events) - d
  /\ \A n \in 1 .. Len(old) - d : new[n] = old[n]
  /\ d = 1 => new[Len(old)] = Spoiled(events[1]) /\ ~ Parses(new[Len(old)])
  /\ \A n \in 1 + d .. Len(events) : new[Len(old) - d + n] = events[n]

LEMMA EventShape ==
  ASSUME NEW e \in Event
  PROVE  e.seq \in Nat /\ e.of \in Jobs /\ e.kind \in Kinds
BY DEF Event

LEMMA SpoiledShape ==
  ASSUME NEW e \in Event
  PROVE  /\ Spoiled(e) \in Event /\ ~ Parses(Spoiled(e)) /\ Spoiled(e).of = e.of
         /\ Spoiled(e).kind = IF e.kind = "torn" THEN "torn" ELSE "spoilt"
<1>1. e.kind = "torn" => Spoiled(e) = e
  BY DEF Spoiled
<1>2. e.kind # "torn" => Spoiled(e) = [kind |-> "spoilt", of |-> e.of, seq |-> e.seq]
  BY DEF Spoiled, Event
<1>3. [kind |-> "spoilt", of |-> e.of, seq |-> e.seq] \in Event
  BY DEF Event, Kinds
<1> QED
  BY <1>1, <1>2, <1>3 DEF Parses

LEMMA LinesAreEvents ==
  ASSUME NEW lines \in Seq(Event)
  PROVE  /\ Len(lines) \in Nat
         /\ \A i \in 1 .. Len(lines) : /\ lines[i] \in Event /\ lines[i].seq \in Nat
                                       /\ lines[i].of \in Jobs /\ lines[i].kind \in Kinds
<1>1. Len(lines) \in Nat
  BY LenProperties
<1>2. \A i \in 1 .. Len(lines) : lines[i] \in Event
  BY ElementOfSeq
<1> QED
  BY <1>1, <1>2, EventShape

(* One line more has a bound too.                                          *)
LEMMA NextBound ==
  ASSUME NEW lines \in Seq(Event), NEW n \in 1 .. Len(lines), NEW b \in Nat,
         \A i \in 1 .. Len(lines) : i <= n - 1 => lines[i].seq <= b
  PROVE  \E c \in Nat : \A i \in 1 .. Len(lines) : i <= n => lines[i].seq <= c
<1> DEFINE c == b + lines[n].seq
<1>1. Len(lines) \in Nat /\ \A i \in 1 .. Len(lines) : lines[i].seq \in Nat
  BY LinesAreEvents
<1>2. lines[n].seq \in Nat
  BY <1>1
<1>3. c \in Nat /\ b <= c /\ lines[n].seq <= c
  BY <1>2
<1> HIDE DEF c
<1>4. ASSUME NEW i \in 1 .. Len(lines), i <= n PROVE lines[i].seq <= c
  <2>1. CASE i = n
    BY <1>3, <2>1
  <2>2. CASE i # n
    <3>1. i <= n - 1
      BY <1>1, <1>4, <2>2
    <3>2. lines[i].seq <= b /\ lines[i].seq \in Nat
      BY <1>1, <3>1
    <3> QED
      BY <1>3, <3>2
  <2> QED
    BY <2>1, <2>2
<1> QED
  BY <1>3, <1>4

(* The lines of a file have a largest seq.                                 *)
LEMMA SeqBound ==
  ASSUME NEW lines \in Seq(Event)
  PROVE  \E b \in Nat : \A i \in 1 .. Len(lines) : lines[i].seq <= b
<1> DEFINE Bounded(n) == \E b \in Nat : \A i \in 1 .. Len(lines) : i <= n => lines[i].seq <= b
           Bad == {n \in Nat : ~ Bounded(n)}
<1>1. Len(lines) \in Nat
  BY LenProperties
<1>2. Bounded(0)
  BY <1>1
<1>3. ASSUME NEW n \in Nat, n # 0, Bounded(n - 1) PROVE Bounded(n)
  <2>1. CASE n \in 1 .. Len(lines)
    BY <1>3, <2>1, NextBound
  <2>2. CASE n \notin 1 .. Len(lines)
    <3>1. \A i \in 1 .. Len(lines) : i <= n - 1
      BY <1>1, <1>3, <2>2
    <3> QED
      BY <1>3, <3>1
  <2> QED
    BY <2>1, <2>2
<1>4. Bad \subseteq Nat /\ \A n \in Nat : n \notin Bad <=> Bounded(n)
  OBVIOUS
<1> HIDE DEF Bounded, Bad
<1>5. Bad = {}
  <2> SUFFICES ASSUME Bad # {} PROVE FALSE
    OBVIOUS
  <2>1. PICK n \in Bad : \A k \in Bad : ~ (<<k, n>> \in OpToRel(<, Nat))
    BY <1>4, NatLessThanWellFounded, WFMin
  <2>2. n \in Nat /\ ~ Bounded(n) /\ n # 0
    BY <1>2, <1>4
  <2>3. n - 1 \in Nat /\ n - 1 < n
    BY <2>2
  <2>4. Bounded(n - 1)
    BY <1>4, <2>1, <2>2, <2>3 DEF OpToRel
  <2> QED
    BY <1>3, <2>2, <2>4
<1>6. Bounded(Len(lines))
  BY <1>1, <1>4, <1>5
<1>7. \A i \in 1 .. Len(lines) : i <= Len(lines)
  BY <1>1
<1> QED
  BY <1>6, <1>7 DEF Bounded

(* LargestSeq is a number, and no event that is read has a larger one.     *)
LEMMA LargestSeqBounds ==
  ASSUME NEW lines \in Seq(Event), NEW some \in SUBSET ParsedIn(lines)
  PROVE  /\ LargestSeq(some) \in Nat
         /\ \A e \in some : e.seq <= LargestSeq(some)
         /\ LargestSeq(some) = 0 \/ \E e \in some : LargestSeq(some) = e.seq
<1> DEFINE S == {e.seq : e \in some} \cup {0}
           U == {u \in Nat : \A y \in S : y <= u}
<1>1. \A e \in ParsedIn(lines) : \E i \in 1 .. Len(lines) : e = lines[i]
  BY LenProperties DEF ParsedIn, ToSet
<1>2. S \subseteq Nat
  BY <1>1, LinesAreEvents
<1>3. PICK b \in Nat : \A i \in 1 .. Len(lines) : lines[i].seq <= b
  BY SeqBound
<1>4. b \in U
  BY <1>1, <1>3
<1>5. PICK u \in U : \A k \in U : ~ (<<k, u>> \in OpToRel(<, Nat))
  <2>1. U \subseteq Nat /\ U # {}
    BY <1>4
  <2> HIDE DEF U
  <2> QED
    BY <2>1, NatLessThanWellFounded, WFMin
<1>6. u \in Nat /\ \A y \in S : y <= u
  BY <1>5
<1>7. u \in S
  <2> SUFFICES ASSUME u \notin S PROVE FALSE
    OBVIOUS
  <2>1. 0 \in S
    OBVIOUS
  <2> HIDE DEF S
  <2>2. u # 0 /\ \A y \in S : y < u
    BY <1>2, <1>6, <2>1
  <2>3. u - 1 \in Nat /\ u - 1 < u /\ \A y \in S : y <= u - 1
    BY <1>2, <1>6, <2>2
  <2>4. u - 1 \in U
    BY <2>3
  <2> QED
    BY <1>5, <1>6, <2>3, <2>4 DEF OpToRel
<1>8. Max(S) \in S /\ \A y \in S : Max(S) >= y
  <2> HIDE DEF S
  <2>1. \A y \in S : u >= y
    BY <1>2, <1>6
  <2> QED
    BY <1>7, <2>1 DEF Max
<1> QED
  <2>1. LargestSeq(some) = Max(S)
    BY DEF LargestSeq
  <2>2. /\ \A e \in some : e.seq \in S
        /\ \A y \in S : y = 0 \/ \E e \in some : y = e.seq
    OBVIOUS
  <2> HIDE DEF S
  <2> QED
    BY <1>2, <1>8, <2>1, <2>2

----------------------------------------------------------------------------
(* Writing                                                                 *)

LEMMA InParsed ==
  ASSUME NEW lines \in Seq(Event), NEW e
  PROVE  e \in ParsedIn(lines) <=> \E n \in 1 .. Len(lines) : lines[n] = e /\ Parses(e)
BY LenProperties DEF ParsedIn, ToSet

LEMMA FrontShape ==
  ASSUME NEW lines \in Seq(Event), Len(lines) - 1 \in Nat
  PROVE  LET front == SubSeq(lines, 1, Len(lines) - 1) IN
         /\ front \in Seq(Event) /\ Len(front) = Len(lines) - 1
         /\ \A n \in 1 .. Len(lines) - 1 : front[n] = lines[n]
<1>1. PICK k \in Nat : k = Len(lines) - 1
  OBVIOUS
<1>2. 1 \in Int /\ k \in Int /\ \A n \in 1 .. k : lines[n] \in Event
  <2>1. Len(lines) \in Nat
    BY LenProperties
  <2>2. \A n \in 1 .. k : n \in 1 .. Len(lines)
    BY <1>1, <2>1
  <2> QED
    BY <2>2, ElementOfSeq
<1>3. /\ SubSeq(lines, 1, k) \in Seq(Event)
      /\ Len(SubSeq(lines, 1, k)) = IF 1 <= k THEN k - 1 + 1 ELSE 0
      /\ \A n \in 1 .. k - 1 + 1 : SubSeq(lines, 1, k)[n] = lines[1 + n - 1]
  BY <1>2, SubSeqProperties
<1>4. (IF 1 <= k THEN k - 1 + 1 ELSE 0) = k
  BY <1>1
<1>5. \A n \in 1 .. k : n \in 1 .. k - 1 + 1 /\ 1 + n - 1 = n
  BY <1>1
<1> QED
  BY <1>1, <1>3, <1>4, <1>5

LEMMA AroundOne ==
  ASSUME NEW front \in Seq(Event), NEW middle \in Event, NEW rest \in Seq(Event),
         NEW k \in Nat, k = Len(front) + 1, NEW w, w = front \o <<middle>> \o rest
  PROVE  /\ w \in Seq(Event) /\ Len(w) = k + Len(rest)
         /\ \A n \in 1 .. k - 1 : w[n] = front[n]
         /\ w[k] = middle
         /\ \A n \in 1 .. Len(rest) : w[k + n] = rest[n]
<1>1. Len(front) \in Nat /\ Len(rest) \in Nat /\ k - 1 = Len(front)
  BY LenProperties
<1>2. Append(front, middle) = front \o <<middle>>
  BY AppendIsConcat
<1>3. PICK first : first = Append(front, middle)
  OBVIOUS
<1>4. /\ first \in Seq(Event) /\ Len(first) = k /\ first[k] = middle
      /\ \A n \in 1 .. k - 1 : first[n] = front[n]
  BY <1>1, <1>3, AppendProperties
<1>5. w = first \o rest
  BY <1>2, <1>3
<1>6. /\ w \in Seq(Event) /\ Len(w) = k + Len(rest)
      /\ \A n \in 1 .. k + Len(rest) : w[n] = IF n <= k THEN first[n] ELSE rest[n - k]
  <2>1. /\ first \o rest \in Seq(Event)
        /\ Len(first \o rest) = Len(first) + Len(rest)
        /\ \A n \in 1 .. Len(first) + Len(rest) :
             (first \o rest)[n] = IF n <= Len(first) THEN first[n] ELSE rest[n - Len(first)]
    <3>1. first \in Seq(Event)
      BY <1>4
    <3> QED
      BY <3>1, ConcatProperties
  <2>2. Len(first) = k
    BY <1>4
  <2> QED
    BY <1>5, <2>1, <2>2
<1>7. /\ k \in 1 .. k + Len(rest) /\ k <= k
      /\ \A n \in 1 .. k - 1 : n \in 1 .. k + Len(rest) /\ n <= k
      /\ \A n \in 1 .. Len(rest) : k + n \in 1 .. k + Len(rest) /\ ~ (k + n <= k) /\ k + n - k = n
  BY <1>1
<1> QED
  BY <1>4, <1>6, <1>7

(* What Written makes of the transcript.                                   *)
LEMMA WrittenGlues ==
  ASSUME file \in Seq(Event), NEW events \in Seq(Event), events # << >>
  PROVE  \E d \in {0, 1} : Glued(file, events, d, Written(events))
<1>1. /\ Len(file) \in Nat /\ Len(events) \in Nat \ {0}
      /\ file # << >> => Len(file) # 0
  BY EmptySeq, LenProperties
<1>2. CASE TornEnd(file)
  <2> DEFINE front == Front(file)  spoilt == Spoiled(Head(events))
             rest == Tail(events)
  <2>1. Len(file) \in 1 .. Len(file) /\ Len(file) - 1 \in Nat
    BY <1>1, <1>2 DEF TornEnd
  <2>2. /\ front \in Seq(Event) /\ Len(front) = Len(file) - 1
        /\ \A n \in 1 .. Len(file) - 1 : front[n] = file[n]
    BY <2>1, FrontShape DEF Front
  <2>3. spoilt \in Event /\ spoilt = Spoiled(events[1]) /\ ~ Parses(spoilt)
    <3>1. Head(events) = events[1] /\ events[1] \in Event
      BY <1>1, ElementOfSeq
    <3> QED
      BY <3>1, SpoiledShape
  <2>4. /\ rest \in Seq(Event) /\ Len(rest) = Len(events) - 1
        /\ \A n \in 1 .. Len(events) - 1 : rest[n] = events[n + 1]
    BY HeadTailProperties
  <2>5. Written(events) = front \o <<spoilt>> \o rest
    BY <1>2 DEF Written, TornEnd, Last
  <2> HIDE DEF front, spoilt, rest
  <2>6. PICK w : w = front \o <<spoilt>> \o rest
    OBVIOUS
  <2>7. Len(file) \in Nat /\ Len(file) = Len(front) + 1
    BY <2>1, <2>2
  <2>8. /\ w \in Seq(Event) /\ Len(w) = Len(file) + Len(rest)
        /\ \A n \in 1 .. Len(file) - 1 : w[n] = front[n]
        /\ w[Len(file)] = spoilt
        /\ \A n \in 1 .. Len(rest) : w[Len(file) + n] = rest[n]
    <3>1. front \in Seq(Event) /\ spoilt \in Event /\ rest \in Seq(Event)
      BY <2>2, <2>3, <2>4
    <3> QED
      BY <2>6, <2>7, <3>1, AroundOne
  <2>9. Len(w) = Len(file) + Len(events) - 1
    BY <1>1, <2>4, <2>8
  <2>10. /\ \A n \in 1 .. Len(file) - 1 : w[n] = file[n]
         /\ w[Len(file)] = Spoiled(events[1]) /\ ~ Parses(w[Len(file)])
    BY <2>2, <2>3, <2>8
  <2>11. \A n \in 1 + 1 .. Len(events) : w[Len(file) - 1 + n] = events[n]
    <3> SUFFICES ASSUME NEW n \in 1 + 1 .. Len(events)
                 PROVE  w[Len(file) - 1 + n] = events[n]
      OBVIOUS
    <3>1. /\ n - 1 \in 1 .. Len(rest) /\ n - 1 \in 1 .. Len(events) - 1 /\ n - 1 + 1 = n
          /\ Len(file) + (n - 1) = Len(file) - 1 + n
      BY <1>1, <2>4
    <3>2. rest[n - 1] = events[n]
      BY <2>4, <3>1
    <3>3. w[Len(file) + (n - 1)] = rest[n - 1]
      BY <2>8, <3>1
    <3> QED
      BY <3>1, <3>2, <3>3
  <2>12. Written(events) = w
    BY <2>5, <2>6
  <2>13. 1 <= Len(file)
    BY <2>1
  <2>14. Glued(file, events, 1, w)
    BY <1>2, <2>8, <2>9, <2>10, <2>11, <2>13 DEF Glued
  <2> QED
    BY <2>12, <2>14
<1>3. CASE ~ TornEnd(file)
  <2> DEFINE w == file \o events
  <2>1. Written(events) = w
    BY <1>3 DEF Written, TornEnd, Last
  <2>2. /\ w \in Seq(Event) /\ Len(w) = Len(file) + Len(events)
        /\ \A n \in 1 .. Len(file) + Len(events) :
             w[n] = IF n <= Len(file) THEN file[n] ELSE events[n - Len(file)]
    BY ConcatProperties
  <2> HIDE DEF w
  <2>3. /\ \A n \in 1 .. Len(file) - 0 : n \in 1 .. Len(file) + Len(events) /\ n <= Len(file)
        /\ \A n \in 1 + 0 .. Len(events) :
             /\ Len(file) - 0 + n \in 1 .. Len(file) + Len(events)
             /\ ~ (Len(file) - 0 + n <= Len(file)) /\ Len(file) - 0 + n - Len(file) = n
        /\ Len(file) + Len(events) = Len(file) + Len(events) - 0 /\ 0 <= Len(file)
    BY <1>1
  <2>4. Glued(file, events, 0, w)
    BY <1>3, <2>2, <2>3 DEF Glued
  <2> QED
    BY <2>1, <2>4
<1> QED
  BY <1>2, <1>3

(* What is written is read; nothing that was read is lost.                 *)
LEMMA GlueKeeps ==
  ASSUME NEW old \in Seq(Event), NEW events \in Seq(Event), NEW d, NEW new,
         Glued(old, events, d, new)
  PROVE  /\ \A e \in ParsedIn(old) : e \in ParsedIn(new)
         /\ \A n \in 1 + d .. Len(events) : Parses(events[n]) => events[n] \in ParsedIn(new)
         /\ \A e \in ParsedIn(new) :
              e \in ParsedIn(old) \/ \E n \in 1 + d .. Len(events) : e = events[n] /\ Parses(e)
<1>1. /\ new \in Seq(Event) /\ d \in {0, 1} /\ (d = 1 <=> TornEnd(old)) /\ d <= Len(old)
      /\ Len(new) = Len(old) + Len(events) - d
      /\ \A n \in 1 .. Len(old) - d : new[n] = old[n]
      /\ d = 1 => ~ Parses(new[Len(old)])
      /\ \A n \in 1 + d .. Len(events) : new[Len(old) - d + n] = events[n]
  BY DEF Glued
<1>2. Len(old) \in Nat /\ Len(events) \in Nat /\ Len(new) \in Nat
  BY <1>1, LenProperties
<1>3. ASSUME NEW e \in ParsedIn(old) PROVE e \in ParsedIn(new)
  <2>1. PICK n \in 1 .. Len(old) : old[n] = e /\ Parses(e)
    BY InParsed
  <2>2. n \in 1 .. Len(old) - d
    <3>1. d = 1 => n # Len(old)
      BY <1>1, <2>1 DEF TornEnd, Parses
    <3> QED
      BY <1>1, <1>2, <3>1
  <2>3. n \in 1 .. Len(new) /\ new[n] = e
    <3>1. n \in 1 + d .. Len(events) \/ n \in 1 .. Len(new) \/ Len(events) < d
      BY <1>1, <1>2, <2>2
    <3>2. n <= Len(old) - d /\ Len(old) - d <= Len(new)
      BY <1>1, <1>2, <2>2
    <3> QED
      BY <1>1, <1>2, <2>1, <2>2, <3>2
  <2> QED
    BY <1>1, <2>1, <2>3, InParsed
<1>4. ASSUME NEW n \in 1 + d .. Len(events), Parses(events[n])
      PROVE  events[n] \in ParsedIn(new)
  <2>1. new[Len(old) - d + n] = events[n]
    BY <1>1, <1>4
  <2>2. Len(old) - d + n \in 1 .. Len(new)
    <3>1. d \in {0, 1} /\ d <= Len(old) /\ Len(new) = Len(old) + Len(events) - d
      BY <1>1
    <3>2. n \in 1 + d .. Len(events)
      BY <1>4
    <3> QED
      BY <1>2, <3>1, <3>2
  <2> QED
    BY <1>1, <1>4, <2>1, <2>2, InParsed
<1>5. ASSUME NEW e \in ParsedIn(new), e \notin ParsedIn(old)
      PROVE  \E n \in 1 + d .. Len(events) : e = events[n] /\ Parses(e)
  <2>1. PICK n \in 1 .. Len(new) : new[n] = e /\ Parses(e)
    BY <1>1, InParsed
  <2>2. ~ (n \in 1 .. Len(old) - d)
    <3> SUFFICES ASSUME n \in 1 .. Len(old) - d PROVE FALSE
      OBVIOUS
    <3>1. n \in 1 .. Len(old) /\ old[n] = e
      BY <1>1, <1>2, <2>1
    <3> QED
      BY <1>5, <2>1, <3>1, InParsed
  <2>3. d = 1 => n # Len(old)
    BY <1>1, <2>1
  <2>4. /\ n - (Len(old) - d) \in 1 + d .. Len(events)
        /\ Len(old) - d + (n - (Len(old) - d)) = n
    BY <1>1, <1>2, <2>2, <2>3
  <2> QED
    BY <1>1, <2>1, <2>4
<1> QED
  BY <1>3, <1>4, <1>5

(* Events that rise beyond the file leave it in order.                     *)
LEMMA GlueOrders ==
  ASSUME NEW old \in Seq(Event), NEW events \in Seq(Event), NEW d, NEW new,
         Glued(old, events, d, new), OrderedIn(old), RisesOver(old, events)
  PROVE  OrderedIn(new)
<1>1. /\ new \in Seq(Event) /\ d \in {0, 1} /\ d <= Len(old)
      /\ Len(new) = Len(old) + Len(events) - d
      /\ \A n \in 1 .. Len(old) - d : new[n] = old[n]
      /\ d = 1 => ~ Parses(new[Len(old)])
      /\ \A n \in 1 + d .. Len(events) : new[Len(old) - d + n] = events[n]
  BY DEF Glued
<1>2. Len(old) \in Nat /\ Len(events) \in Nat /\ Len(new) \in Nat
  BY <1>1, LenProperties
<1> SUFFICES ASSUME NEW m \in 1 .. Len(new), NEW n \in 1 .. Len(new), m < n,
                    Parses(new[m]), Parses(new[n])
             PROVE  new[m].seq < new[n].seq
  BY DEF OrderedIn
<1>3. ASSUME NEW k \in 1 .. Len(new), Parses(new[k]), k \notin 1 .. Len(old) - d
      PROVE  /\ k - (Len(old) - d) \in 1 + d .. Len(events)
             /\ new[k] = events[k - (Len(old) - d)]
  <2>1. d = 1 => k # Len(old)
    BY <1>1, <1>3
  <2>2. /\ k - (Len(old) - d) \in 1 + d .. Len(events)
        /\ Len(old) - d + (k - (Len(old) - d)) = k
    BY <1>1, <1>2, <1>3, <2>1
  <2> QED
    BY <1>1, <2>2
<1>4. CASE n \in 1 .. Len(old) - d
  <2>1. m \in 1 .. Len(old) - d /\ m \in 1 .. Len(old) /\ n \in 1 .. Len(old)
    BY <1>1, <1>2, <1>4
  <2> QED
    BY <1>1, <1>4, <2>1 DEF OrderedIn
<1>5. CASE n \notin 1 .. Len(old) - d
  <2> DEFINE i == n - (Len(old) - d)
  <2>1. i \in 1 + d .. Len(events) /\ new[n] = events[i]
    BY <1>3, <1>5
  <2>2. i \in 1 .. Len(events) /\ Parses(events[i])
    BY <1>1, <2>1
  <2>3. CASE m \in 1 .. Len(old) - d
    <3>1. m \in 1 .. Len(old) /\ new[m] = old[m]
      BY <1>1, <1>2, <2>3
    <3>2. new[m] \in ParsedIn(old)
      BY <3>1, InParsed
    <3> QED
      BY <2>1, <2>2, <3>2 DEF RisesOver
  <2>4. CASE m \notin 1 .. Len(old) - d
    <3> DEFINE h == m - (Len(old) - d)
    <3>1. h \in 1 + d .. Len(events) /\ new[m] = events[h]
      BY <1>3, <2>4
    <3>2. h \in 1 .. i - 1
      <4>1. m < n /\ m \in Nat /\ n \in Nat /\ Len(old) - d \in Int /\ d \in {0, 1}
        BY <1>1, <1>2
      <4>2. h \in Int /\ h >= 1 /\ h < i
        BY <1>2, <3>1, <4>1
      <4> QED
        BY <1>2, <2>1, <4>2
    <3> HIDE DEF h, i
    <3> QED
      BY <2>1, <2>2, <3>1, <3>2 DEF RisesOver
  <2> QED
    BY <2>3, <2>4
<1> QED
  BY <1>4, <1>5

LEMMA OneIsLost ==
  ASSUME NEW n \in Nat \ {0}, NEW d \in {0, 1}, n \notin 1 + d .. n
  PROVE  d = 1 /\ n = 1
OBVIOUS

(* A file ends in a torn line only if what was written to it last does.    *)
LEMMA GlueEnds ==
  ASSUME NEW old \in Seq(Event), NEW events \in Seq(Event), events # << >>, NEW d, NEW new,
         Glued(old, events, d, new), events[Len(events)].kind # "torn"
  PROVE  ~ TornEnd(new)
<1>1. /\ new \in Seq(Event) /\ d \in {0, 1} /\ d <= Len(old)
      /\ Len(new) = Len(old) + Len(events) - d
      /\ d = 1 => new[Len(old)] = Spoiled(events[1])
      /\ \A n \in 1 + d .. Len(events) : new[Len(old) - d + n] = events[n]
  BY DEF Glued
<1>2. Len(old) \in Nat /\ Len(events) \in Nat \ {0} /\ Len(new) \in Nat
  BY <1>1, LenProperties, EmptySeq
<1>3. CASE Len(events) \in 1 + d .. Len(events)
  <2>1. Len(old) - d + Len(events) = Len(new)
    BY <1>1, <1>2
  <2>2. new[Len(new)] = events[Len(events)]
    BY <1>1, <1>3, <2>1
  <2> QED
    BY <2>2 DEF TornEnd
<1>4. CASE Len(events) \notin 1 + d .. Len(events)
  <2>1. d = 1 /\ Len(new) = Len(old) /\ Len(events) = 1
    <3>0. d \in {0, 1}
      BY <1>1
    <3>1. d = 1 /\ Len(events) = 1
      BY <1>2, <1>4, <3>0, OneIsLost
    <3>2. Len(new) = Len(old) + Len(events) - d
      BY <1>1
    <3> QED
      BY <1>2, <3>1, <3>2
  <2>2. events[1] \in Event /\ events[1].kind # "torn"
    BY <2>1, ElementOfSeq
  <2>3. Spoiled(events[1]).kind # "torn"
    BY <2>2, SpoiledShape
  <2> QED
    BY <1>1, <2>1, <2>3 DEF TornEnd
<1> QED
  BY <1>3, <1>4

(* What of rest parses is a prefix of the events.                          *)
PartOf(rest, events) ==
  /\ rest \in Seq(Event) /\ Len(rest) <= Len(events)
  /\ \A i \in 1 .. Len(rest) : Parses(rest[i]) => \A h \in 1 .. i : rest[h] = events[h]

(* What a crash leaves of a batch is a prefix of it, and maybe a torn line *)
(* that does not parse.                                                    *)
LEMMA LeftoverShape ==
  ASSUME NEW events \in Seq(Event), Jobs # {}, NEW rest \in Leftovers(events)
  PROVE  PartOf(rest, events)
<1>1. Len(events) \in Nat
  BY LenProperties
<1>2. ASSUME NEW n \in 0 .. Len(events)
      PROVE  /\ SubSeq(events, 1, n) \in Seq(Event) /\ Len(SubSeq(events, 1, n)) = n
             /\ \A h \in 1 .. n : SubSeq(events, 1, n)[h] = events[h]
  <2>1. \A h \in 1 .. n : events[h] \in Event
    BY <1>1, ElementOfSeq
  <2>2. /\ SubSeq(events, 1, n) \in Seq(Event)
        /\ Len(SubSeq(events, 1, n)) = IF 1 <= n THEN n - 1 + 1 ELSE 0
        /\ \A h \in 1 .. n - 1 + 1 : SubSeq(events, 1, n)[h] = events[1 + h - 1]
    BY <1>1, <2>1, SubSeqProperties
  <2>3. (IF 1 <= n THEN n - 1 + 1 ELSE 0) = n
    BY <1>1
  <2>4. \A h \in 1 .. n : h \in 1 .. n - 1 + 1 /\ 1 + h - 1 = h
    BY <1>1
  <2> QED
    BY <2>2, <2>3, <2>4
<1>3. CASE \E n \in 0 .. Len(events) : rest = SubSeq(events, 1, n)
  <2>1. PICK n \in 0 .. Len(events) : rest = SubSeq(events, 1, n)
    BY <1>3
  <2>2. Len(rest) = n /\ n <= Len(events) /\ rest \in Seq(Event)
    BY <1>1, <1>2, <2>1
  <2>3. \A i \in 1 .. Len(rest) : \A h \in 1 .. i : h \in 1 .. n
    BY <1>1, <2>2
  <2> QED
    BY <1>2, <2>1, <2>2, <2>3 DEF PartOf
<1>4. CASE \E n \in 0 .. Len(events) - 1 : rest = Append(SubSeq(events, 1, n), Torn)
  <2>1. PICK n \in 0 .. Len(events) - 1 : rest = Append(SubSeq(events, 1, n), Torn)
    BY <1>4
  <2>2. n \in 0 .. Len(events) /\ n + 1 <= Len(events)
    BY <1>1, <2>1
  <2>3. Torn \in Event /\ ~ Parses(Torn)
    BY DEF Torn, Event, Kinds, Parses
  <2>4. PICK front : front = SubSeq(events, 1, n)
    OBVIOUS
  <2>5. front \in Seq(Event) /\ Len(front) = n /\ \A h \in 1 .. n : front[h] = events[h]
    BY <1>2, <2>2, <2>4
  <2>6. /\ rest \in Seq(Event) /\ Len(rest) = n + 1 /\ rest[n + 1] = Torn
        /\ \A h \in 1 .. n : rest[h] = front[h]
    BY <2>1, <2>3, <2>4, <2>5, AppendProperties
  <2>7. \A i \in 1 .. Len(rest) : Parses(rest[i]) => i # n + 1
    BY <2>3, <2>6
  <2>8. \A i \in 1 .. Len(rest) : i # n + 1 => \A h \in 1 .. i : h \in 1 .. n
    BY <2>2, <2>6
  <2> QED
    BY <2>2, <2>5, <2>6, <2>7, <2>8 DEF PartOf
<1> QED
  BY <1>3, <1>4 DEF Leftovers

----------------------------------------------------------------------------
(* The inductive invariant                                                 *)

(* The shape of the variables, and the places where a job can be.          *)
Typed ==
  /\ file \in Seq(Event)
  /\ building \in [Jobs -> Seq(Event)]
  /\ pc \in [Jobs -> Pcs]
  /\ queue \in Seq(Turns)
  /\ agent \in [knows : SUBSET Jobs, seq : Nat]
  /\ cached \in BOOLEAN
  /\ {deletes, faults, restarts} \subseteq Nat

JobsInPlace ==
  /\ \A t \in Turns : pc[t] \notin {"posting", "done"}
  /\ \A j \in Jobs \ Turns : pc[j] \in {"idle", "creating", "posting", "done", "failed", "lost"}

(* What a job at that place has numbered: its own events, of those kinds.  *)
BatchAt(place, j, events) ==
  /\ \A i \in 1 .. Len(events) : events[i].of = j
  /\ \/ place = "creating" /\ Len(events) = 1 /\ events[1].kind = "created"
     \/ place = "starting" /\ Len(events) = 1 /\ events[1].kind = "started"
     \/ place = "talking" /\ Len(events) = 1 /\ events[1].kind = "message"
     \/ place = "ending" /\ Len(events) = 1 /\ events[1].kind = "committed"
     \/ place \in {"failing", "catching"} /\ Len(events) = 1 /\ events[1].kind = "failed"
     \/ /\ place = "posting" /\ Len(events) = 3 /\ events[1].kind = "started"
        /\ events[2].kind = "message" /\ events[3].kind = "committed"

BatchInv == \A j \in Jobs : building[j] # << >> => BatchAt(pc[j], j, building[j])

(* A running turn heads the queue, and a turn that waits is in it.         *)
QueueInv ==
  /\ \A t \in Running : queue # << >> /\ Head(queue) = t
  /\ \A t \in Turns : pc[t] = "queued" => \E i \in 1 .. Len(queue) : queue[i] = t

(* The appends of the process queue up, and what one has numbered is still *)
(* beyond the transcript when it is written, a delete in between or not.   *)
OneAppend ==
  \A i, j \in Jobs : (building[i] # << >> /\ building[j] # << >>) => i = j

FreshSeqs == \A j \in Jobs : RisesOver(file, building[j])

(* A session that is being created was not created before.                 *)
CreatedOnce ==
  /\ \A c, d \in OfKind("created") : c = d
  /\ \A j \in Jobs : (building[j] # << >> /\ pc[j] = "creating") => OfKind("created") = {}

SpoiltIn(lines, r) == \E line \in ToSet(lines) : line.kind = "spoilt" /\ line.of = r

(* The messages of a turn that ends are in the transcript: its last line   *)
(* was whole from the start of the turn, unless an append failed since.    *)
WholeTurns ==
  /\ \A t \in Turns : pc[t] \in {"talking", "ending"} => ~ TornEnd(file) \/ faults > 0
  /\ \A t \in Turns : (deletes = 0 /\ pc[t] = "ending") =>
       \/ \E m \in OfKind("message") : m.of = t
       \/ faults > 0 /\ SpoiltIn(file, t)

(* A request that may be remembered: its failure is not recorded, and it   *)
(* is committed, or its failure could not be recorded.                     *)
Recorded(r) == \E e \in OfKind("committed") : e.of = r
Good(r) == pc[r] # "failed" /\ (deletes = 0 => pc[r] = "unrecorded" \/ Recorded(r))

(* The seq of the agent is no committed one: the line of its last commit   *)
(* was lost, and the next turn does not keep it.                           *)
Stale == agent.seq # 0 /\ \A e \in OfKind("committed") : e.seq # agent.seq
GoodIfKept(r) ==
  pc[r] # "failed" /\ (deletes = 0 => Stale \/ pc[r] = "unrecorded" \/ Recorded(r))

(* The seqs of a posted commit leave that of the agent behind.             *)
Near(seq, events) == seq <= 1 \/ \E e \in events : seq <= e.seq + 1
SeqInv ==
  deletes = 0 =>
    /\ Near(agent.seq, Events)
    /\ \A t \in Turns : (pc[t] = "ending" /\ building[t] # << >>) =>
         Near(building[t][1].seq, Events) /\ building[t][1].seq # 0

(* The memory of the agent: requests past their messages; good ones from   *)
(* the moment a turn builds on it, and in the cached agent between the     *)
(* turns unless the next turn drops it.                                    *)
Spoke == Ends \cup {"ending", "failing", "catching", "done", "lost"}

MemoryInv ==
  /\ \A e \in OfKind("committed") : pc[e.of] \in {"committed", "done", "lost"}
  /\ \A r \in agent.knows : pc[r] \in Spoke
  /\ \A t \in Turns : pc[t] \in {"sequencing"} \cup Appending =>
       \A r \in agent.knows \ {t} : Good(r)
  /\ \A t \in Turns : pc[t] = "comparing" => \A r \in agent.knows : GoodIfKept(r)
  /\ (cached /\ Running = {}) => \A r \in agent.knows : GoodIfKept(r)

ShapeInv == Typed /\ JobsInPlace /\ BatchInv /\ QueueInv
OrderInv == OneAppend /\ FreshSeqs /\ OrderedIn(file) /\ CreatedOnce
WholeInv == WholeTurns /\ CommittedIsWhole

IInv == ShapeInv /\ OrderInv /\ WholeInv /\ SeqInv /\ MemoryInv

----------------------------------------------------------------------------
(* Who runs                                                                *)

(* A job that appends is at a place for it, and all its events parse.      *)
LEMMA BatchFacts ==
  ASSUME Typed, BatchInv, NEW j \in Jobs, building[j] # << >>
  PROVE  /\ building[j] \in Seq(Event) /\ Len(building[j]) \in Nat \ {0}
         /\ BatchAt(pc[j], j, building[j])
         /\ pc[j] \in Appending
         /\ \A i \in 1 .. Len(building[j]) : building[j][i].of = j /\ Parses(building[j][i])
         /\ building[j][Len(building[j])].kind # "torn"
<1>1. building[j] \in Seq(Event) /\ Len(building[j]) \in Nat \ {0}
  BY EmptySeq, LenProperties DEF Typed
<1>2. BatchAt(pc[j], j, building[j])
  BY DEF BatchInv
<1>3. pc[j] \in Appending
  BY <1>2 DEF BatchAt, Appending
<1>4. \A i \in 1 .. Len(building[j]) :
        building[j][i].of = j /\ building[j][i].kind \notin {"torn", "spoilt"}
  <2>1. CASE Len(building[j]) = 1
    <3>1. \A i \in 1 .. Len(building[j]) : i = 1
      BY <2>1
    <3>2. building[j][1].kind \notin {"torn", "spoilt"}
      BY <1>2, <2>1 DEF BatchAt
    <3> QED
      BY <1>2, <3>1, <3>2 DEF BatchAt
  <2>2. CASE Len(building[j]) = 3
    <3>1. \A i \in 1 .. Len(building[j]) : i = 1 \/ i = 2 \/ i = 3
      BY <2>2
    <3>2. \A i \in {1, 2, 3} : building[j][i].kind \notin {"torn", "spoilt"}
      BY <1>2, <2>2 DEF BatchAt
    <3> QED
      BY <1>2, <3>1, <3>2 DEF BatchAt
  <2> QED
    BY <1>2, <2>1, <2>2 DEF BatchAt
<1> QED
  BY <1>1, <1>2, <1>3, <1>4 DEF Parses

(* A batch is of the kinds of its job's place.                             *)
LEMMA NumberedShape ==
  ASSUME Typed, NEW j \in Jobs, pc[j] \in Appending, NEW kinds, Batch(j) = kinds
  PROVE  /\ Numbered(j, kinds) \in Seq(Event) /\ Numbered(j, kinds) # << >>
         /\ Len(Numbered(j, kinds)) = Len(kinds)
         /\ \A i \in 1 .. Len(kinds) : Numbered(j, kinds)[i].seq = LargestSeq(Events) + i
         /\ BatchAt(pc[j], j, Numbered(j, kinds))
<1>1. LargestSeq(Events) \in Nat
  <2>1. Events \in SUBSET ParsedIn(file)
    BY DEF Events, ParsedIn
  <2> QED
    BY <2>1, LargestSeqBounds DEF Typed
<1>2. \/ pc[j] = "creating" /\ kinds = <<"created">>
      \/ pc[j] = "starting" /\ kinds = <<"started">>
      \/ pc[j] = "talking" /\ kinds = <<"message">>
      \/ pc[j] = "ending" /\ kinds = <<"committed">>
      \/ pc[j] \in {"failing", "catching"} /\ kinds = <<"failed">>
      \/ pc[j] = "posting" /\ kinds = <<"started", "message", "committed">>
  BY DEF Batch, Appending
<1>3. Len(kinds) \in Nat \ {0} /\ \A i \in 1 .. Len(kinds) : kinds[i] \in Kinds
  <2>1. \A k \in Kinds : Len(<<k>>) = 1 /\ \A i \in 1 .. 1 : <<k>>[i] = k
    OBVIOUS
  <2>2. /\ Len(<<"started", "message", "committed">>) = 3
        /\ \A i \in 1 .. 3 : <<"started", "message", "committed">>[i] \in Kinds
    BY DEF Kinds
  <2>3. {"created", "started", "message", "committed", "failed"} \subseteq Kinds
    BY DEF Kinds
  <2>4. CASE \E k \in Kinds : kinds = <<k>>
    BY <2>1, <2>4
  <2>5. CASE kinds = <<"started", "message", "committed">>
    BY <2>2, <2>5
  <2> QED
    BY <1>2, <2>3, <2>4, <2>5
<1> DEFINE events == Numbered(j, kinds)
<1>4. /\ events = [i \in 1 .. Len(kinds) |-> [kind |-> kinds[i], of |-> j,
                                             seq |-> LargestSeq(Events) + i]]
      /\ events \in [1 .. Len(kinds) -> Event]
  BY <1>1, <1>3 DEF Numbered, Event
<1>5. events \in Seq(Event) /\ Len(events) = Len(kinds)
  BY <1>3, <1>4, SeqDef, LenProperties
<1>6. \A i \in 1 .. Len(kinds) : /\ events[i].kind = kinds[i] /\ events[i].of = j
                                /\ events[i].seq = LargestSeq(Events) + i
  BY <1>4
<1>7. events # << >>
  BY <1>3, <1>5, EmptySeq
<1> HIDE DEF events
<1>8. BatchAt(pc[j], j, events)
  BY <1>2, <1>5, <1>6 DEF BatchAt
<1> QED
  BY <1>5, <1>6, <1>7, <1>8 DEF events

LEMMA ShapeInit ==
  ASSUME Init PROVE ShapeInv
<1>1. Typed
  <2>1. file \in Seq(Event) /\ building \in [Jobs -> Seq(Event)] /\ queue \in Seq(Turns)
    BY EmptySeq DEF Init
  <2>2. pc \in [Jobs -> Pcs]
    BY DEF Init, Pcs
  <2>3. agent \in [knows : SUBSET Jobs, seq : Nat]
    BY DEF Init
  <2>4. cached \in BOOLEAN
    BY Zenon DEF Init
  <2>5. {deletes, faults, restarts} \subseteq Nat
    BY DEF Init
  <2> QED
    BY <2>1, <2>2, <2>3, <2>4, <2>5 DEF Typed
<1>2. JobsInPlace /\ BatchInv
  BY DEF Init, JobsInPlace, BatchInv, Jobs
<1>3. QueueInv
  BY DEF Init, QueueInv, Running, Jobs
<1> QED
  BY <1>1, <1>2, <1>3 DEF ShapeInv

OtherPlaces == {"idle", "creating", "posting", "done", "failed", "lost"}

LEMMA OneMoves ==
  ASSUME Typed, JobsInPlace, NEW j \in Jobs, NEW place \in Pcs,
         pc' = [pc EXCEPT ![j] = place],
         IF j \in Turns THEN place \notin {"posting", "done"} ELSE place \in OtherPlaces
  PROVE  /\ pc' \in [Jobs -> Pcs] /\ JobsInPlace'
         /\ pc'[j] = place /\ \A i \in Jobs : i # j => pc'[i] = pc[i]
<1>1. pc' \in [Jobs -> Pcs] /\ pc'[j] = place /\ \A i \in Jobs : i # j => pc'[i] = pc[i]
  BY DEF Typed
<1>2. Turns \subseteq Jobs
  BY DEF Jobs
<1>3. \A t \in Turns : pc'[t] \notin {"posting", "done"}
  BY <1>1, <1>2 DEF JobsInPlace
<1>4. \A i \in Jobs \ Turns : pc'[i] \in OtherPlaces
  BY <1>1 DEF JobsInPlace, OtherPlaces
<1> QED
  BY <1>1, <1>3, <1>4 DEF JobsInPlace, OtherPlaces

LEMMA BatchesStay ==
  ASSUME BatchInv, building' = building,
         \A j \in Jobs : pc[j] \in Appending /\ building[j] # << >> => pc'[j] = pc[j]
  PROVE  BatchInv'
<1> SUFFICES ASSUME NEW j \in Jobs, building[j] # << >>
             PROVE  BatchAt(pc'[j], j, building[j])
  BY DEF BatchInv
<1>1. BatchAt(pc[j], j, building[j])
  BY DEF BatchInv
<1>2. pc[j] \in Appending
  BY <1>1 DEF BatchAt, Appending
<1> QED
  BY <1>1, <1>2

(* The queue stays as it is when a turn that heads it goes on to a place   *)
(* where it runs, or when another job goes anywhere but into the queue.    *)
LEMMA QueueStays ==
  ASSUME QueueInv, queue' = queue, NEW j \in Jobs,
         \A i \in Jobs : i # j => pc'[i] = pc[i],
         pc'[j] # "queued", j \in Turns => (queue # << >> /\ Head(queue) = j)
  PROVE  QueueInv'
<1>1. Turns \subseteq Jobs
  BY DEF Jobs
<1>2. \A t \in Running' : t = j \/ t \in Running
  BY <1>1 DEF Running
<1>3. \A t \in Running' : queue' # << >> /\ Head(queue') = t
  BY <1>2 DEF QueueInv, Running
<1>4. \A t \in Turns : pc'[t] = "queued" => \E i \in 1 .. Len(queue') : queue'[i] = t
  BY <1>1 DEF QueueInv
<1> QED
  BY <1>3, <1>4 DEF QueueInv

LEMMA ShapeAsk ==
  ASSUME ShapeInv, NEW t \in Turns, Ask(t)
  PROVE  ShapeInv'
<1>1. /\ Typed /\ JobsInPlace /\ BatchInv /\ QueueInv /\ t \in Jobs
      /\ pc[t] = "idle" /\ pc' = [pc EXCEPT ![t] = "queued"] /\ queue' = Append(queue, t)
      /\ UNCHANGED <<file, building, agent, cached, deletes, faults, restarts>>
  BY DEF ShapeInv, Jobs, Ask
<1>2. /\ pc' \in [Jobs -> Pcs] /\ JobsInPlace'
      /\ pc'[t] = "queued" /\ \A i \in Jobs : i # t => pc'[i] = pc[i]
  <2>1. "queued" \in Pcs
    BY DEF Pcs
  <2> QED
    BY <1>1, <2>1, OneMoves
<1>3. /\ queue \in Seq(Turns) /\ Len(queue) \in Nat /\ queue' \in Seq(Turns) /\ queue' # << >>
      /\ Len(queue') = Len(queue) + 1 /\ queue'[Len(queue) + 1] = t
      /\ \A i \in 1 .. Len(queue) : queue'[i] = queue[i]
  <2>1. queue \in Seq(Turns) /\ Len(queue) \in Nat
    BY <1>1, LenProperties DEF Typed
  <2> QED
    BY <1>1, <2>1, AppendProperties
<1>4. Typed'
  BY <1>1, <1>2, <1>3 DEF Typed
<1>5. BatchInv'
  BY <1>1, <1>2, BatchesStay DEF Appending
<1>6. QueueInv'
  <2>1. Running' = Running
    BY <1>1, <1>2 DEF Running, Jobs
  <2>2. ASSUME NEW r \in Running PROVE Head(queue') = r
    <3>1. queue # << >> /\ Head(queue) = r
      BY <1>1, <2>2 DEF QueueInv
    <3> QED
      BY <1>1, <1>3, <3>1, HeadTailAppend
  <2>3. ASSUME NEW r \in Turns, pc'[r] = "queued"
        PROVE  \E i \in 1 .. Len(queue') : queue'[i] = r
    <3>1. CASE r = t
      <4>1. Len(queue) + 1 \in 1 .. Len(queue')
        BY <1>3
      <4> QED
        BY <1>3, <3>1, <4>1
    <3>2. CASE r # t
      <4>1. PICK i \in 1 .. Len(queue) : queue[i] = r
        BY <1>1, <1>2, <2>3, <3>2 DEF QueueInv, Jobs
      <4>2. i \in 1 .. Len(queue')
        BY <1>3
      <4> QED
        BY <1>3, <4>1, <4>2
    <3> QED
      BY <3>1, <3>2
  <2> QED
    BY <1>3, <2>1, <2>2, <2>3 DEF QueueInv
<1> QED
  BY <1>2, <1>4, <1>5, <1>6 DEF ShapeInv

(* A running turn stays the only one: a turn begins when it heads the      *)
(* queue, and only such a turn compares, restores or reads.                *)
LEMMA ShapeTurn ==
  ASSUME ShapeInv, NEW t \in Turns, TurnStep(t)
  PROVE  /\ ShapeInv'
         /\ queue # << >> /\ Head(queue) = t /\ queue' = queue
         /\ pc[t] \notin Appending /\ \A i \in Jobs : i # t => pc'[i] = pc[i]
         /\ UNCHANGED <<file, building, deletes, faults, restarts>>
<1>1. /\ Typed /\ JobsInPlace /\ BatchInv /\ QueueInv /\ t \in Jobs
      /\ UNCHANGED <<file, building, queue, deletes, faults, restarts>>
  BY DEF ShapeInv, Jobs, TurnStep, Begin, Compare, Restore, ReadSequence
<1>2. PICK place \in {"comparing", "restoring", "rebuilding", "sequencing", "creating"} :
        pc' = [pc EXCEPT ![t] = place]
  BY DEF TurnStep, Begin, Compare, Restore, ReadSequence
<1>3. pc[t] \in {"queued", "comparing", "restoring", "rebuilding", "sequencing"}
  BY DEF TurnStep, Begin, Compare, Restore, ReadSequence
<1>4. /\ pc' \in [Jobs -> Pcs] /\ JobsInPlace'
      /\ pc'[t] = place /\ \A i \in Jobs : i # t => pc'[i] = pc[i]
  <2>1. place \in Pcs /\ place \notin {"posting", "done"}
    BY DEF Pcs, Appending
  <2> QED
    BY <1>1, <1>2, <2>1, OneMoves
<1>5. agent' \in [knows : SUBSET Jobs, seq : Nat]
  <2>1. LatestCommitted \in Nat
    <3>1. OfKind("committed") \in SUBSET ParsedIn(file)
      BY DEF OfKind, Events, ParsedIn
    <3> QED
      BY <1>1, <3>1, LargestSeqBounds DEF LatestCommitted, Typed
  <2>2. CommittedRequests \subseteq Jobs
    <3>1. \A e \in OfKind("committed") : e.of \in Jobs
      BY <1>1, InParsed, LinesAreEvents DEF OfKind, Events, ParsedIn, Typed
    <3> QED
      BY <3>1 DEF CommittedRequests
  <2>3. \/ agent' = agent \/ agent' = [agent EXCEPT !.seq = LatestCommitted]
        \/ agent' = [agent EXCEPT !.knows = CommittedRequests]
    BY DEF TurnStep, Begin, Compare, Restore, ReadSequence
  <2>4. agent \in [knows : SUBSET Jobs, seq : Nat]
    BY <1>1 DEF Typed
  <2> QED
    BY <2>1, <2>2, <2>3, <2>4
<1>6. cached' \in BOOLEAN
  <2>1. cached' = cached \/ cached' = TRUE \/ cached' = FALSE
    BY DEF TurnStep, Begin, Compare, Restore, ReadSequence
  <2>2. cached \in BOOLEAN
    BY <1>1 DEF Typed
  <2> QED
    BY <2>1, <2>2, Zenon
<1>7. Typed'
  BY <1>1, <1>4, <1>5, <1>6 DEF Typed
<1>8. BatchInv'
  BY <1>1, <1>3, <1>4, BatchesStay DEF Appending
<1>9. queue # << >> /\ Head(queue) = t
  <2>1. CASE pc[t] = "queued"
    <3>1. Head(queue) = t
      BY <2>1 DEF TurnStep, Begin, IsItsTurn, Compare, Restore, ReadSequence
    <3>2. queue # << >>
      <4>1. PICK i \in 1 .. Len(queue) : queue[i] = t
        BY <1>1, <2>1 DEF QueueInv
      <4>2. Len(queue) # 0
        BY <4>1
      <4> QED
        BY <4>2, EmptySeq
    <3> QED
      BY <3>1, <3>2
  <2>2. CASE pc[t] # "queued"
    <3>1. t \in Running
      BY <1>3, <2>2 DEF Running, Ends
    <3> QED
      BY <1>1, <3>1 DEF QueueInv
  <2> QED
    BY <2>1, <2>2
<1>10. QueueInv'
  BY <1>1, <1>4, <1>9, QueueStays
<1> QED
  BY <1>1, <1>3, <1>4, <1>7, <1>8, <1>9, <1>10 DEF ShapeInv, Appending

LEMMA ShapeBegin ==
  ASSUME ShapeInv, NEW j \in Jobs, BeginAppend(j)
  PROVE  ShapeInv'
<1>1. /\ Typed /\ JobsInPlace /\ BatchInv /\ QueueInv
      /\ UNCHANGED <<file, pc, queue, agent, cached, deletes, faults, restarts>>
  BY DEF ShapeInv, BeginAppend
<1>2. PICK kinds : kinds = Batch(j) /\ building' = [building EXCEPT ![j] = Numbered(j, kinds)]
  BY DEF BeginAppend
<1>3. pc[j] \in Appending
  BY DEF BeginAppend
<1>4. Numbered(j, kinds) \in Seq(Event) /\ BatchAt(pc[j], j, Numbered(j, kinds))
  BY <1>1, <1>2, <1>3, NumberedShape
<1>5. /\ building' \in [Jobs -> Seq(Event)] /\ building'[j] = Numbered(j, kinds)
      /\ \A i \in Jobs : i # j => building'[i] = building[i]
  BY <1>1, <1>2, <1>4 DEF Typed
<1>6. Typed'
  BY <1>1, <1>5 DEF Typed
<1>7. BatchInv'
  BY <1>1, <1>4, <1>5 DEF BatchInv
<1>8. JobsInPlace' /\ QueueInv'
  BY <1>1 DEF JobsInPlace, QueueInv, Running
<1> QED
  BY <1>6, <1>7, <1>8 DEF ShapeInv

(* Where an append leads its job, by what it does and by what it fails to. *)
Follow(j, place) ==
  \/ /\ j \in Turns
     /\ \/ pc[j] = "creating" /\ place = "starting"
        \/ pc[j] = "starting" /\ place = "talking"
        \/ pc[j] = "talking" /\ place \in {"ending", "failing", "catching"}
        \/ pc[j] = "ending" /\ place = "committed"
        \/ pc[j] \in {"failing", "catching"} /\ place = "failed"
  \/ j \notin Turns /\ pc[j] \in {"creating", "posting"} /\ place = "done"

FailTo(j, place) ==
  \/ /\ j \in Turns
     /\ \/ pc[j] \in {"creating", "starting"} /\ place = "failed"
        \/ pc[j] = "talking" /\ place \in {"failing", "catching"}
        \/ pc[j] \in {"ending", "failing"} /\ place = "catching"
        \/ pc[j] = "catching" /\ place = "unrecorded"
  \/ j \notin Turns /\ pc[j] \in {"creating", "posting"} /\ place = "failed"

LEMMA PlacesAfter ==
  ASSUME JobsInPlace, NEW j \in Jobs, NEW place, pc[j] \in Appending
  PROVE  /\ place \in Follows(j) => Follow(j, place)
         /\ place \in FailsTo(j) => FailTo(j, place)
<1>1. CASE j \in Turns
  <2>1. pc[j] \in {"creating", "starting", "talking", "ending", "failing", "catching"}
    BY <1>1 DEF JobsInPlace, Appending
  <2> QED
    BY <1>1, <2>1 DEF Follows, FailsTo, Follow, FailTo
<1>2. CASE j \notin Turns
  <2>1. pc[j] \in {"creating", "posting"}
    BY <1>2 DEF JobsInPlace, Appending
  <2> QED
    BY <1>2, <2>1 DEF Follows, FailsTo, Follow, FailTo
<1> QED
  BY <1>1, <1>2

(* A job goes on from an append; a turn that ends leaves the queue.        *)
LEMMA QueueGoesOn ==
  ASSUME Typed, JobsInPlace, QueueInv, NEW j \in Jobs, NEW place, pc[j] \in Appending,
         Follow(j, place) \/ FailTo(j, place), GoesOn(j, place)
  PROVE  /\ pc' \in [Jobs -> Pcs] /\ JobsInPlace' /\ pc'[j] = place
         /\ \A i \in Jobs : i # j => pc'[i] = pc[i]
         /\ j \in Turns => queue # << >> /\ Head(queue) = j
         /\ queue' \in Seq(Turns) /\ QueueInv'
         /\ j \in Turns /\ place \in Ends => Running' = {}
<1>1. /\ place \in Pcs /\ place # "queued"
      /\ IF j \in Turns THEN place \notin {"posting", "done"} ELSE place \in OtherPlaces
  BY DEF Follow, FailTo, Pcs, Appending, Ends, OtherPlaces
<1>2. pc' = [pc EXCEPT ![j] = place] /\ queue' = Released(j, place)
  BY DEF GoesOn
<1>3. /\ pc' \in [Jobs -> Pcs] /\ JobsInPlace' /\ pc'[j] = place
      /\ \A i \in Jobs : i # j => pc'[i] = pc[i]
  BY <1>1, <1>2, OneMoves
<1>4. j \in Turns => queue # << >> /\ Head(queue) = j
  BY DEF QueueInv, Running, Appending, Ends
<1>5. queue \in Seq(Turns)
  BY DEF Typed
<1>6. CASE ~ (j \in Turns /\ place \in Ends)
  <2>1. queue' = queue
    BY <1>2, <1>6 DEF Released
  <2>2. QueueInv'
    BY <1>1, <1>3, <1>4, <2>1, QueueStays
  <2> QED
    BY <1>3, <1>4, <1>5, <1>6, <2>1, <2>2
<1>7. CASE j \in Turns /\ place \in Ends
  <2>1. /\ queue' = Tail(queue) /\ queue # << >> /\ queue' \in Seq(Turns)
        /\ Len(queue) \in Nat \ {0} /\ Len(queue') = Len(queue) - 1
        /\ \A i \in 1 .. Len(queue') : queue'[i] = queue[i + 1]
    <3>1. queue' = Tail(queue) /\ queue # << >>
      BY <1>2, <1>4, <1>7 DEF Released
    <3>2. Len(queue) \in Nat \ {0}
      BY <1>5, <3>1, EmptySeq
    <3> QED
      BY <1>5, <3>1, <3>2, HeadTailProperties
  <2>2. Running' = {}
    <3> SUFFICES ASSUME NEW t \in Running' PROVE FALSE
      OBVIOUS
    <3>1. t \in Turns /\ t \in Jobs /\ t # j
      BY <1>3, <1>7 DEF Running, Jobs
    <3>2. t \in Running
      BY <1>3, <3>1 DEF Running
    <3> QED
      BY <1>4, <1>7, <3>1, <3>2 DEF QueueInv
  <2>3. ASSUME NEW t \in Turns, pc'[t] = "queued"
        PROVE  \E i \in 1 .. Len(queue') : queue'[i] = t
    <3>1. t # j /\ pc[t] = "queued"
      BY <1>1, <1>3, <2>3 DEF Jobs
    <3>2. PICK i \in 1 .. Len(queue) : queue[i] = t
      BY <3>1 DEF QueueInv
    <3>3. i # 1
      <4>1. queue[1] = j
        BY <1>4, <1>7
      <4> QED
        BY <3>1, <3>2, <4>1
    <3>4. i - 1 \in 1 .. Len(queue') /\ i - 1 + 1 = i
      BY <2>1, <3>3
    <3> QED
      BY <2>1, <3>2, <3>4
  <2>4. QueueInv'
    BY <2>1, <2>2, <2>3 DEF QueueInv
  <2> QED
    BY <1>3, <1>4, <2>1, <2>2, <2>4
<1> QED
  BY <1>6, <1>7

LEMMA ShapeSkip ==
  ASSUME ShapeInv, NEW j \in Jobs, SkipCreated(j)
  PROVE  /\ ShapeInv'
         /\ pc[j] = "creating" /\ pc'[j] = IF j \in Turns THEN "starting" ELSE "done"
         /\ \A i \in Jobs : i # j => pc'[i] = pc[i]
<1>1. /\ Typed /\ JobsInPlace /\ BatchInv /\ QueueInv
      /\ UNCHANGED <<file, building, agent, cached, deletes, faults, restarts>>
      /\ pc[j] = "creating" /\ building[j] = << >>
  BY DEF ShapeInv, SkipCreated, AlreadyCreated, NoAppendInProgress
<1>2. PICK place \in Follows(j) : GoesOn(j, place)
  BY DEF SkipCreated
<1>3. pc[j] \in Appending
  BY <1>1 DEF Appending
<1>4. Follow(j, place) /\ place = IF j \in Turns THEN "starting" ELSE "done"
  <2>1. Follow(j, place)
    BY <1>1, <1>3, PlacesAfter
  <2> QED
    BY <1>1, <2>1 DEF Follow
<1>5. /\ pc' \in [Jobs -> Pcs] /\ JobsInPlace' /\ pc'[j] = place
      /\ \A i \in Jobs : i # j => pc'[i] = pc[i]
      /\ queue' \in Seq(Turns) /\ QueueInv'
  BY <1>1, <1>2, <1>3, <1>4, QueueGoesOn
<1>6. Typed'
  BY <1>1, <1>5 DEF Typed
<1>7. BatchInv'
  BY <1>1, <1>5, BatchesStay
<1> QED
  BY <1>1, <1>4, <1>5, <1>6, <1>7 DEF ShapeInv

LEMMA ShapeCall ==
  ASSUME ShapeInv, NEW j \in Jobs, Call(j)
  PROVE  /\ ShapeInv'
         /\ j \notin Turns /\ pc[j] = "idle" /\ building[j] = << >>
         /\ pc'[j] \in {"posting", "creating"}
         /\ \A i \in Jobs : i # j => pc'[i] = pc[i]
<1>1. /\ Typed /\ JobsInPlace /\ BatchInv /\ QueueInv
      /\ UNCHANGED <<file, building, queue, agent, cached, deletes, faults, restarts>>
      /\ pc[j] = "idle" /\ j \in Posts \cup Creates
  BY DEF ShapeInv, Call
<1>2. PICK place \in {"posting", "creating"} : pc' = [pc EXCEPT ![j] = place]
  BY DEF Call
<1>3. j \notin Turns
  BY <1>1, SessionAssumption
<1>4. /\ pc' \in [Jobs -> Pcs] /\ JobsInPlace'
      /\ pc'[j] = place /\ \A i \in Jobs : i # j => pc'[i] = pc[i]
  <2>1. place \in Pcs /\ place \in OtherPlaces
    BY DEF Pcs, Appending, OtherPlaces
  <2> QED
    BY <1>1, <1>2, <1>3, <2>1, OneMoves
<1>5. building[j] = << >>
  BY <1>1, BatchFacts DEF Appending
<1>6. Typed' /\ BatchInv'
  BY <1>1, <1>4, <1>5, BatchesStay DEF Typed
<1>7. QueueInv'
  BY <1>1, <1>3, <1>4, QueueStays
<1> QED
  BY <1>1, <1>3, <1>4, <1>5, <1>6, <1>7 DEF ShapeInv

(* What the end of an append does: the events are written, and the job     *)
(* goes on to where they lead.                                             *)
LEMMA EndFacts ==
  ASSUME ShapeInv, NEW j \in Jobs, EndAppend(j)
  PROVE  /\ building[j] # << >> /\ building[j] \in Seq(Event) /\ pc[j] \in Appending
         /\ \E d \in {0, 1} : Glued(file, building[j], d, file')
         /\ building' = [building EXCEPT ![j] = << >>]
         /\ \A i \in Jobs : i # j => building'[i] = building[i] /\ pc'[i] = pc[i]
         /\ building'[j] = << >>
         /\ Follow(j, pc'[j]) /\ GoesOn(j, pc'[j])
         /\ UNCHANGED <<deletes, faults, restarts>>
<1>1. /\ Typed /\ JobsInPlace /\ BatchInv /\ QueueInv
      /\ building[j] # << >> /\ file' = Written(building[j])
      /\ building' = [building EXCEPT ![j] = << >>]
      /\ UNCHANGED <<deletes, faults, restarts>>
  BY DEF ShapeInv, EndAppend
<1>2. building[j] \in Seq(Event) /\ pc[j] \in Appending
  BY <1>1, BatchFacts
<1>3. \E d \in {0, 1} : Glued(file, building[j], d, file')
  BY <1>1, <1>2, WrittenGlues DEF Typed
<1>4. /\ building'[j] = << >> /\ \A i \in Jobs : i # j => building'[i] = building[i]
  BY <1>1 DEF Typed
<1>5. PICK place \in Follows(j) : GoesOn(j, place)
  BY DEF EndAppend
<1>6. Follow(j, place)
  BY <1>1, <1>2, PlacesAfter
<1>7. pc'[j] = place /\ \A i \in Jobs : i # j => pc'[i] = pc[i]
  BY <1>1, <1>2, <1>5, <1>6, QueueGoesOn
<1> QED
  BY <1>1, <1>2, <1>3, <1>4, <1>5, <1>6, <1>7

(* What a failed append does: a part of the events is written, never the   *)
(* last one whole.                                                         *)
LEMMA FailFacts ==
  ASSUME ShapeInv, NEW j \in Jobs, FailAppend(j)
  PROVE  /\ building[j] # << >> /\ building[j] \in Seq(Event) /\ pc[j] \in Appending
         /\ \/ file' = file
            \/ \E rest \in Leftovers(building[j]) : \E d \in {0, 1} :
                 rest # << >> /\ rest # building[j] /\ Glued(file, rest, d, file')
         /\ building' = [building EXCEPT ![j] = << >>]
         /\ \A i \in Jobs : i # j => building'[i] = building[i] /\ pc'[i] = pc[i]
         /\ building'[j] = << >>
         /\ FailTo(j, pc'[j]) /\ GoesOn(j, pc'[j])
         /\ faults' = faults + 1 /\ UNCHANGED <<deletes, restarts>>
<1>1. /\ Typed /\ JobsInPlace /\ BatchInv /\ QueueInv
      /\ building[j] # << >> /\ building' = [building EXCEPT ![j] = << >>]
      /\ faults' = faults + 1 /\ UNCHANGED <<deletes, restarts>>
  BY DEF ShapeInv, FailAppend
<1>2. building[j] \in Seq(Event) /\ pc[j] \in Appending
  BY <1>1, BatchFacts
<1>3. PICK rest \in Leftovers(building[j]) : rest # building[j] /\ Leave(rest)
  BY DEF FailAppend
<1>4. ASSUME rest # << >> PROVE \E d \in {0, 1} : Glued(file, rest, d, file')
  <2>1. rest \in Seq(Event)
    BY <1>2, <1>3, LeftoverShape DEF PartOf
  <2> QED
    BY <1>1, <1>3, <1>4, <2>1, WrittenGlues DEF Typed, Leave
<1>5. /\ building'[j] = << >> /\ \A i \in Jobs : i # j => building'[i] = building[i]
  BY <1>1 DEF Typed
<1>6. PICK place \in FailsTo(j) : GoesOn(j, place)
  BY DEF FailAppend
<1>7. FailTo(j, place)
  BY <1>1, <1>2, PlacesAfter
<1>8. pc'[j] = place /\ \A i \in Jobs : i # j => pc'[i] = pc[i]
  BY <1>1, <1>2, <1>6, <1>7, QueueGoesOn
<1> QED
  BY <1>1, <1>2, <1>3, <1>4, <1>5, <1>6, <1>7, <1>8 DEF Leave

(* What an append does to the memory.                                      *)
LEMMA RemembersShape ==
  ASSUME Typed, NEW t \in Jobs
  PROVE  /\ Remembers(t) \in [knows : SUBSET Jobs, seq : Nat]
         /\ Remembers(t).knows = IF pc[t] = "talking" THEN agent.knows \cup {t}
                                 ELSE agent.knows
         /\ Remembers(t).seq = agent.seq
BY DEF Remembers, Typed

LEMMA EndMemory ==
  ASSUME ShapeInv, NEW j \in Jobs, EndAppend(j)
  PROVE  /\ j \notin Turns => UNCHANGED <<agent, cached>>
         /\ agent'.knows = IF pc[j] = "talking" THEN agent.knows \cup {j} ELSE agent.knows
         /\ agent'.seq = IF pc[j] = "ending" THEN Last(building[j]).seq ELSE agent.seq
         /\ cached' => cached /\ pc[j] \notin {"failing", "catching"}
         /\ agent' \in [knows : SUBSET Jobs, seq : Nat] /\ cached' \in BOOLEAN
<1>1. /\ Typed /\ JobsInPlace /\ BatchInv /\ building[j] # << >>
      /\ agent \in [knows : SUBSET Jobs, seq : Nat] /\ cached \in BOOLEAN
  BY DEF ShapeInv, EndAppend, Typed
<1>2. Last(building[j]).seq \in Nat
  <2>1. building[j] \in Seq(Event) /\ Len(building[j]) \in Nat \ {0}
    BY <1>1, BatchFacts
  <2> QED
    BY <2>1, LinesAreEvents DEF Last
<1>3. CASE j \notin Turns
  <2>1. UNCHANGED <<agent, cached>>
    BY <1>3 DEF EndAppend
  <2>2. pc[j] \notin {"talking", "ending", "failing", "catching"}
    BY <1>1, <1>3 DEF JobsInPlace
  <2> QED
    BY <1>1, <1>3, <2>1, <2>2
<1>4. CASE j \in Turns
  <2>1. /\ agent' = IF pc[j] = "ending" THEN [agent EXCEPT !.seq = Last(building[j]).seq]
                    ELSE Remembers(j)
        /\ cached' = (cached /\ pc[j] \notin {"failing", "catching"})
    BY <1>4 DEF EndAppend, CachedAfter
  <2>2. cached' \in BOOLEAN /\ (cached' => cached /\ pc[j] \notin {"failing", "catching"})
    BY <1>1, <2>1
  <2>3. CASE pc[j] = "ending"
    <3>1. /\ agent' \in [knows : SUBSET Jobs, seq : Nat] /\ agent'.knows = agent.knows
          /\ agent'.seq = Last(building[j]).seq
      BY <1>1, <1>2, <2>1, <2>3
    <3> QED
      BY <1>4, <2>2, <2>3, <3>1
  <2>4. CASE pc[j] # "ending"
    BY <1>1, <1>4, <2>1, <2>2, <2>4, RemembersShape
  <2> QED
    BY <2>3, <2>4
<1> QED
  BY <1>3, <1>4

LEMMA FailMemory ==
  ASSUME ShapeInv, NEW j \in Jobs, FailAppend(j)
  PROVE  /\ agent'.knows = IF pc[j] = "talking" THEN agent.knows \cup {j} ELSE agent.knows
         /\ agent'.seq = agent.seq /\ cached' = cached
         /\ agent' \in [knows : SUBSET Jobs, seq : Nat]
<1>1. Typed /\ JobsInPlace /\ agent \in [knows : SUBSET Jobs, seq : Nat] /\ cached' = cached
  BY DEF ShapeInv, Typed, FailAppend
<1>2. CASE j \notin Turns
  <2>1. agent' = agent
    BY <1>2 DEF FailAppend
  <2>2. pc[j] # "talking"
    BY <1>1, <1>2 DEF JobsInPlace
  <2> QED
    BY <1>1, <2>1, <2>2
<1>3. CASE j \in Turns
  <2>1. agent' = Remembers(j)
    BY <1>3 DEF FailAppend
  <2> QED
    BY <1>1, <2>1, RemembersShape
<1> QED
  BY <1>2, <1>3

LEMMA ShapeEnd ==
  ASSUME ShapeInv, NEW j \in Jobs, EndAppend(j) \/ FailAppend(j)
  PROVE  ShapeInv'
<1>1. /\ Typed /\ JobsInPlace /\ BatchInv /\ QueueInv
  BY DEF ShapeInv
<1>2. /\ pc[j] \in Appending /\ \A i \in Jobs : i # j => building'[i] = building[i]
      /\ building'[j] = << >> /\ building' = [building EXCEPT ![j] = << >>]
      /\ Follow(j, pc'[j]) \/ FailTo(j, pc'[j])
      /\ GoesOn(j, pc'[j])
      /\ deletes' = deletes /\ restarts' = restarts /\ faults' \in {faults, faults + 1}
  BY EndFacts, FailFacts
<1>3. file' \in Seq(Event)
  BY <1>1, EndFacts, FailFacts DEF Glued, Typed
<1>4. agent' \in [knows : SUBSET Jobs, seq : Nat] /\ cached' \in BOOLEAN
  <2>1. cached \in BOOLEAN
    BY <1>1 DEF Typed
  <2>2. CASE EndAppend(j)
    BY <2>2, EndMemory
  <2>3. CASE FailAppend(j)
    BY <2>1, <2>3, FailMemory
  <2> QED
    BY <2>2, <2>3
<1>5. /\ pc' \in [Jobs -> Pcs] /\ JobsInPlace' /\ queue' \in Seq(Turns) /\ QueueInv'
      /\ \A i \in Jobs : i # j => pc'[i] = pc[i]
  BY <1>1, <1>2, QueueGoesOn
<1>6. BatchInv'
  BY <1>1, <1>2, <1>5 DEF BatchInv
<1>7. Typed'
  <2>1. building' \in [Jobs -> Seq(Event)]
    BY <1>1, <1>2, EmptySeq DEF Typed
  <2>2. {deletes', faults', restarts'} \subseteq Nat
    BY <1>1, <1>2 DEF Typed
  <2> QED
    BY <1>3, <1>4, <1>5, <2>1, <2>2 DEF Typed
<1> QED
  BY <1>5, <1>6, <1>7 DEF ShapeInv

(* What a restart does: nothing runs any more, and of an append that was   *)
(* in progress a part is written.                                          *)
LEMMA RestartFacts ==
  ASSUME ShapeInv, Restart
  PROVE  /\ ShapeInv'
         /\ \A j \in Jobs : building'[j] = << >>
         /\ Running' = {} /\ ~ cached' /\ agent'.knows = {} /\ agent'.seq = 0
         /\ \A j \in Jobs : pc'[j] \in {pc[j], "lost"}
         /\ \A j \in Jobs : pc'[j] \in {"idle", "done", "lost"} \cup Ends
         /\ \A j \in Jobs : pc[j] = "failed" <=> pc'[j] = "failed"
         /\ deletes' = deletes /\ faults' = faults
         /\ \/ file' = file
            \/ \E j \in Jobs : /\ building[j] # << >>
                 /\ \E rest \in Leftovers(building[j]) : \E d \in {0, 1} :
                      rest # << >> /\ Glued(file, rest, d, file')
<1>1. /\ Typed /\ JobsInPlace /\ BatchInv
      /\ building' = [j \in Jobs |-> << >>]
      /\ pc' = [j \in Jobs |-> IF pc[j] \in {"idle", "done"} \cup Ends THEN pc[j] ELSE "lost"]
      /\ queue' = << >> /\ agent' = [knows |-> {}, seq |-> 0]
      /\ restarts' = restarts + 1 /\ deletes' = deletes /\ faults' = faults
  BY DEF ShapeInv, Restart
<1>2. ~ cached'
  BY DEF Restart
<1>3. /\ pc' \in [Jobs -> Pcs]
      /\ \A j \in Jobs : pc'[j] \in {pc[j], "lost"}
      /\ \A j \in Jobs : pc'[j] \in {"idle", "done", "lost"} \cup Ends
      /\ \A j \in Jobs : pc[j] = "failed" <=> pc'[j] = "failed"
  BY <1>1 DEF Pcs, Typed, Ends
<1>4. JobsInPlace'
  BY <1>1, <1>3 DEF JobsInPlace, Jobs, Ends
<1>5. Running' = {}
  BY <1>3, <1>4 DEF Running, JobsInPlace, Jobs
<1>6. \/ file' = file
      \/ \E j \in Jobs : /\ building[j] # << >>
           /\ \E rest \in Leftovers(building[j]) : \E d \in {0, 1} :
                rest # << >> /\ Glued(file, rest, d, file')
  <2> SUFFICES ASSUME file' # file
               PROVE  \E j \in Jobs : /\ building[j] # << >>
                        /\ \E rest \in Leftovers(building[j]) : \E d \in {0, 1} :
                             rest # << >> /\ Glued(file, rest, d, file')
    OBVIOUS
  <2>1. PICK j \in Jobs : /\ building[j] # << >>
          /\ \E rest \in Leftovers(building[j]) :
               file' = IF rest = << >> THEN file ELSE Written(rest)
    BY DEF Restart, Leave
  <2>2. PICK rest \in Leftovers(building[j]) : rest # << >> /\ file' = Written(rest)
    BY <2>1
  <2>3. rest \in Seq(Event)
    BY <1>1, <2>1, <2>2, LeftoverShape DEF Typed, PartOf
  <2>4. \E d \in {0, 1} : Glued(file, rest, d, file')
    BY <1>1, <2>2, <2>3, WrittenGlues DEF Typed
  <2> QED
    BY <2>1, <2>2, <2>4
<1>7. file' \in Seq(Event)
  BY <1>1, <1>6 DEF Glued, Typed
<1>8. Typed'
  <2>1. /\ building' \in [Jobs -> Seq(Event)] /\ queue' \in Seq(Turns)
        /\ {deletes', faults', restarts'} \subseteq Nat
    BY <1>1, EmptySeq DEF Typed
  <2>2. cached' \in BOOLEAN
    BY <1>2, Zenon DEF Restart
  <2>3. agent' \in [knows : SUBSET Jobs, seq : Nat]
    BY <1>1
  <2> QED
    BY <1>3, <1>7, <2>1, <2>2, <2>3 DEF Typed
<1>9. BatchInv' /\ QueueInv'
  <2>1. BatchInv'
    BY <1>1 DEF BatchInv
  <2>2. \A t \in Turns : pc'[t] # "queued"
    BY <1>3 DEF Jobs, Ends
  <2>3. QueueInv'
    BY <1>5, <2>2 DEF QueueInv
  <2> QED
    BY <2>1, <2>3
<1> QED
  BY <1>1, <1>2, <1>3, <1>4, <1>5, <1>6, <1>8, <1>9 DEF ShapeInv

LEMMA ShapeNext ==
  ASSUME ShapeInv, [Next]_vars
  PROVE  ShapeInv'
<1>1. ASSUME NEW t \in Turns, Ask(t) \/ TurnStep(t) PROVE ShapeInv'
  BY <1>1, ShapeAsk, ShapeTurn
<1>2. ASSUME NEW j \in Jobs, Call(j) \/ AppendStep(j) \/ FailAppend(j) PROVE ShapeInv'
  BY <1>2, ShapeCall, ShapeBegin, ShapeSkip, ShapeEnd DEF AppendStep
<1>3. CASE Evict
  <2>1. /\ UNCHANGED <<file, building, pc, queue, agent, deletes, faults, restarts>>
        /\ cached' = FALSE
    BY <1>3 DEF Evict
  <2>2. cached' \in BOOLEAN
    BY <2>1, Zenon
  <2> QED
    BY <2>1, <2>2 DEF ShapeInv, Typed, JobsInPlace, BatchInv, QueueInv, Running
<1>4. CASE DeleteSession
  <2>1. /\ UNCHANGED <<building, pc, queue, agent, cached, faults, restarts>>
        /\ file' = << >> /\ deletes' = deletes + 1
    BY <1>4 DEF DeleteSession
  <2>2. Typed'
    BY <2>1, EmptySeq DEF ShapeInv, Typed
  <2> QED
    BY <2>1, <2>2 DEF ShapeInv, JobsInPlace, BatchInv, QueueInv, Running
<1>5. CASE Restart
  BY <1>5, RestartFacts
<1>6. CASE UNCHANGED vars
  BY <1>6 DEF vars, ShapeInv, Typed, JobsInPlace, BatchInv, QueueInv, Running
<1> QED
  BY <1>1, <1>2, <1>3, <1>4, <1>5, <1>6 DEF Next

(* TypeOK: one turn of a session runs at a time, the first of its queue    *)
(* (agentSessionQueues), whatever fails, is aborted, evicted or restarted. *)
THEOREM Typing == Spec => []TypeOK
<1>1. Init => ShapeInv
  BY ShapeInit
<1>2. ShapeInv /\ [Next]_vars => ShapeInv'
  BY ShapeNext
<1>3. ShapeInv => TypeOK
  BY DEF ShapeInv, Typed, QueueInv, TypeOK
<1> QED
  BY <1>1, <1>2, <1>3, PTL DEF Spec

----------------------------------------------------------------------------
(* The order of the transcript                                             *)

LEMMA WholePart ==
  ASSUME NEW events \in Seq(Event) PROVE PartOf(events, events)
<1>1. Len(events) \in Nat
  BY LenProperties
<1> QED
  BY <1>1 DEF PartOf

LEMMA EventsParsed == Events = ParsedIn(file) /\ Events' = ParsedIn(file')
BY DEF Events, ParsedIn

(* An event read from a file that part of a batch was written to was read  *)
(* from it before, or is one of the batch, all its events before it read.  *)
LEMMA ReadAfterPart ==
  ASSUME Typed, BatchInv, NEW j \in Jobs, building[j] # << >>,
         NEW rest, PartOf(rest, building[j]), NEW d, NEW new, Glued(file, rest, d, new),
         NEW e \in ParsedIn(new), e \notin Events
  PROVE  \E n \in 1 + d .. Len(rest) :
           /\ n \in 1 .. Len(building[j]) /\ e = building[j][n]
           /\ \A h \in 1 + d .. n : building[j][h] \in ParsedIn(new)
<1>1. /\ building[j] \in Seq(Event) /\ Len(building[j]) \in Nat \ {0}
      /\ \A i \in 1 .. Len(building[j]) : Parses(building[j][i])
  BY BatchFacts
<1>2. rest \in Seq(Event) /\ Len(rest) \in Nat /\ Len(rest) <= Len(building[j]) /\ d \in {0, 1}
  BY LenProperties DEF PartOf, Glued
<1>3. PICK n \in 1 + d .. Len(rest) : e = rest[n] /\ Parses(e)
  BY <1>2, EventsParsed, GlueKeeps DEF Typed
<1>4. n \in 1 .. Len(rest) /\ n \in 1 .. Len(building[j]) /\ n \in 1 .. n
  BY <1>1, <1>2
<1>5. \A h \in 1 .. n : rest[h] = building[j][h]
  BY <1>3, <1>4 DEF PartOf
<1>6. ASSUME NEW h \in 1 + d .. n PROVE building[j][h] \in ParsedIn(new)
  <2>1. h \in 1 .. n /\ h \in 1 + d .. Len(rest) /\ h \in 1 .. Len(building[j])
    BY <1>1, <1>2
  <2>2. Parses(rest[h]) /\ rest[h] = building[j][h]
    BY <1>1, <1>5, <2>1
  <2> QED
    BY <1>2, <2>1, <2>2, GlueKeeps DEF Typed
<1> QED
  BY <1>3, <1>4, <1>5, <1>6

(* Writing part of a batch keeps the order, and creates a session once.    *)
LEMMA PartKeepsOrder ==
  ASSUME Typed, BatchInv, OrderInv, NEW j \in Jobs, building[j] # << >>,
         NEW rest, PartOf(rest, building[j]), NEW d, Glued(file, rest, d, file')
  PROVE  OrderedIn(file') /\ \A c, e \in OfKind("created")' : c = e
<1>1. OrderedIn(file')
  <2>1. rest \in Seq(Event) /\ Len(rest) \in Nat /\ Len(rest) <= Len(building[j])
    BY LenProperties DEF PartOf
  <2>2. RisesOver(file, building[j]) /\ Len(building[j]) \in Nat
    BY BatchFacts DEF OrderInv, FreshSeqs
  <2>3. RisesOver(file, rest)
    <3> SUFFICES ASSUME NEW i \in 1 .. Len(rest), Parses(rest[i])
                 PROVE  /\ \A e \in ParsedIn(file) : e.seq < rest[i].seq
                        /\ \A h \in 1 .. i - 1 : Parses(rest[h]) => rest[h].seq < rest[i].seq
      BY DEF RisesOver
    <3>1. /\ i \in 1 .. Len(building[j]) /\ i \in 1 .. i
          /\ \A h \in 1 .. i - 1 : h \in 1 .. i
      BY <2>1, <2>2
    <3>2. rest[i] = building[j][i] /\ \A h \in 1 .. i - 1 : rest[h] = building[j][h]
      BY <3>1 DEF PartOf
    <3> QED
      BY <2>2, <3>1, <3>2 DEF RisesOver
  <2> QED
    BY <2>1, <2>3, GlueOrders DEF OrderInv, Typed
<1>2. ASSUME NEW c \in OfKind("created")', c \notin OfKind("created")
      PROVE  pc[j] = "creating" /\ c = building[j][1]
  <2>1. c \in ParsedIn(file') /\ c.kind = "created" /\ c \notin Events
    BY <1>2, EventsParsed DEF OfKind
  <2>2. PICK n \in 1 + d .. Len(rest) : n \in 1 .. Len(building[j]) /\ c = building[j][n]
    <3>1. PICK new : new = file'
      OBVIOUS
    <3>2. Glued(file, rest, d, new) /\ c \in ParsedIn(new)
      BY <2>1, <3>1
    <3> QED
      BY <2>1, <3>2, ReadAfterPart
  <2>3. BatchAt(pc[j], j, building[j])
    BY BatchFacts
  <2> QED
    BY <2>1, <2>2, <2>3 DEF BatchAt
<1>3. ASSUME NEW c \in OfKind("created")', NEW e \in OfKind("created")' PROVE c = e
  BY <1>2 DEF OrderInv, CreatedOnce
<1> QED
  BY <1>1, <1>3

(* A step that appends nothing, of a job that is not appending.            *)
LEMMA OrderStays ==
  ASSUME OrderInv, file' = file, building' = building,
         \A j \in Jobs : building[j] # << >> => pc'[j] = pc[j]
  PROVE  OrderInv'
<1>1. OneAppend' /\ FreshSeqs' /\ OrderedIn(file')
  BY DEF OrderInv, OneAppend, FreshSeqs
<1>2. CreatedOnce'
  <2>1. OfKind("created")' = OfKind("created")
    BY DEF OfKind, Events
  <2> QED
    BY <2>1 DEF OrderInv, CreatedOnce
<1> QED
  BY <1>1, <1>2 DEF OrderInv

LEMMA OrderInit ==
  ASSUME Init PROVE OrderInv
<1>1. file = << >> /\ \A j \in Jobs : building[j] = << >>
  BY DEF Init
<1>2. Events = {}
  BY <1>1 DEF Events, ToSet
<1> QED
  BY <1>1, <1>2 DEF OrderInv, OneAppend, FreshSeqs, RisesOver, OrderedIn, CreatedOnce, OfKind

LEMMA NothingBuilt ==
  ASSUME \A j \in Jobs : building'[j] = << >>
  PROVE  /\ OneAppend' /\ FreshSeqs'
         /\ \A j \in Jobs : (building'[j] # << >> /\ pc'[j] = "creating") => OfKind("created")' = {}
BY DEF OneAppend, FreshSeqs, RisesOver

LEMMA OrderNext ==
  ASSUME ShapeInv, OrderInv, [Next]_vars
  PROVE  OrderInv'
<1>0. Typed /\ BatchInv /\ Turns \subseteq Jobs
  BY DEF ShapeInv, Jobs
<1>1. ASSUME NEW t \in Turns, Ask(t) PROVE OrderInv'
  <2>1. /\ file' = file /\ building' = building /\ pc[t] = "idle"
        /\ pc' = [pc EXCEPT ![t] = "queued"]
    BY <1>1 DEF Ask
  <2>2. building[t] = << >>
    BY <1>0, <2>1, BatchFacts DEF Appending
  <2>3. \A j \in Jobs : j # t => pc'[j] = pc[j]
    BY <1>0, <2>1 DEF Typed
  <2> QED
    BY <2>1, <2>2, <2>3, OrderStays
<1>2. ASSUME NEW t \in Turns, TurnStep(t) PROVE OrderInv'
  <2>1. /\ file' = file /\ building' = building
        /\ pc[t] \notin Appending /\ \A j \in Jobs : j # t => pc'[j] = pc[j]
    BY <1>2, ShapeTurn
  <2>2. building[t] = << >>
    BY <1>0, <2>1, BatchFacts
  <2> QED
    BY <2>1, <2>2, OrderStays
<1>3. ASSUME NEW j \in Jobs, Call(j) PROVE OrderInv'
  <2>1. /\ file' = file /\ building' = building
    BY <1>3 DEF Call
  <2> QED
    BY <1>3, <2>1, ShapeCall, OrderStays
<1>4. ASSUME NEW j \in Jobs, SkipCreated(j) PROVE OrderInv'
  <2>1. file' = file /\ building' = building /\ building[j] = << >>
    BY <1>4 DEF SkipCreated, NoAppendInProgress
  <2> QED
    BY <1>4, <2>1, ShapeSkip, OrderStays
<1>5. ASSUME NEW j \in Jobs, BeginAppend(j) PROVE OrderInv'
  <2>1. /\ file' = file /\ pc' = pc /\ \A i \in Jobs : building[i] = << >>
        /\ pc[j] \in Appending /\ ~ AlreadyCreated(j)
    BY <1>5 DEF BeginAppend, NoAppendInProgress
  <2>2. PICK kinds : kinds = Batch(j) /\ building' = [building EXCEPT ![j] = Numbered(j, kinds)]
    BY <1>5 DEF BeginAppend
  <2>3. building'[j] = Numbered(j, kinds) /\ \A i \in Jobs : i # j => building'[i] = << >>
    BY <1>0, <2>1, <2>2 DEF Typed
  <2>4. OneAppend'
    BY <2>3 DEF OneAppend
  <2>5. FreshSeqs'
    <3>1. PICK top : top = LargestSeq(Events)
      OBVIOUS
    <3>2. Events \in SUBSET ParsedIn(file) /\ file \in Seq(Event)
      BY <1>0, EventsParsed DEF Typed
    <3>3. top \in Nat /\ \A e \in ParsedIn(file) : e.seq <= top
      BY <3>1, <3>2, EventsParsed, LargestSeqBounds
    <3>4. \A e \in ParsedIn(file) : e.seq \in Nat
      BY <3>2, InParsed, LinesAreEvents
    <3>5. PICK events : events = Numbered(j, kinds)
      OBVIOUS
    <3>6. /\ events \in Seq(Event) /\ Len(events) \in Nat
          /\ \A i \in 1 .. Len(events) : events[i].seq = top + i
      BY <1>0, <2>1, <2>2, <3>1, <3>5, NumberedShape, LenProperties
    <3>7. ASSUME NEW i \in 1 .. Len(events)
          PROVE  /\ \A e \in ParsedIn(file) : e.seq < events[i].seq
                 /\ \A h \in 1 .. i - 1 : events[h].seq < events[i].seq
      <4>1. events[i].seq = top + i /\ top < top + i
        BY <3>3, <3>6
      <4>2. \A e \in ParsedIn(file) : e.seq < top + i
        BY <3>3, <3>4
      <4>3. ASSUME NEW h \in 1 .. i - 1 PROVE events[h].seq < events[i].seq
        <5>1. h \in 1 .. Len(events) /\ h < i
          BY <3>6
        <5>2. events[h].seq = top + h
          BY <3>6, <5>1
        <5>3. top + h < top + i
          BY <3>3, <5>1
        <5> QED
          BY <4>1, <5>2, <5>3
      <4> QED
        BY <4>1, <4>2, <4>3
    <3>8. RisesOver(file, events)
      BY <3>7 DEF RisesOver
    <3>9. \A i \in Jobs : i # j => RisesOver(file', building'[i])
      BY <2>3 DEF RisesOver
    <3> QED
      BY <2>1, <2>3, <3>5, <3>8, <3>9 DEF FreshSeqs
  <2>6. CreatedOnce'
    <3>1. OfKind("created")' = OfKind("created")
      BY <2>1 DEF OfKind, Events
    <3>2. pc[j] = "creating" => OfKind("created") = {}
      BY <2>1 DEF AlreadyCreated
    <3> QED
      BY <2>1, <2>3, <3>1, <3>2 DEF OrderInv, CreatedOnce
  <2> QED
    BY <2>1, <2>4, <2>5, <2>6 DEF OrderInv
<1>11. ASSUME NEW j \in Jobs, FailAppend(j) PROVE OrderInv'
  <2>1. /\ building[j] # << >> /\ building[j] \in Seq(Event)
        /\ building'[j] = << >> /\ \A i \in Jobs : i # j => building'[i] = building[i]
    BY <1>11, FailFacts
  <2>2. \A i \in Jobs : building'[i] = << >>
    BY <2>1 DEF OrderInv, OneAppend
  <2>3. CASE file' = file
    <3>1. OrderedIn(file') /\ \A c, e \in OfKind("created")' : c = e
      BY <2>3 DEF OrderInv, CreatedOnce, OfKind, Events
    <3> QED
      BY <2>2, <3>1, NothingBuilt DEF OrderInv, CreatedOnce
  <2>4. CASE file' # file
    <3>1. PICK rest \in Leftovers(building[j]), d \in {0, 1} : Glued(file, rest, d, file')
      BY <1>11, <2>4, FailFacts
    <3>2. PartOf(rest, building[j])
      BY <2>1, LeftoverShape
    <3>3. OrderedIn(file') /\ \A c, e \in OfKind("created")' : c = e
      BY <1>0, <2>1, <3>1, <3>2, PartKeepsOrder
    <3> QED
      BY <2>2, <3>3, NothingBuilt DEF OrderInv, CreatedOnce
  <2> QED
    BY <2>3, <2>4
<1>6. ASSUME NEW j \in Jobs, EndAppend(j) PROVE OrderInv'
  <2>1. PICK d \in {0, 1} : Glued(file, building[j], d, file')
    BY <1>6, EndFacts
  <2>2. building[j] # << >> /\ PartOf(building[j], building[j])
    BY <1>6, EndFacts, WholePart
  <2>3. OrderedIn(file') /\ \A c, e \in OfKind("created")' : c = e
    BY <1>0, <2>1, <2>2, PartKeepsOrder
  <2>4. \A i \in Jobs : building'[i] = << >>
    BY <1>6, <2>2, EndFacts DEF OrderInv, OneAppend
  <2> QED
    BY <2>3, <2>4, NothingBuilt DEF OrderInv, CreatedOnce
<1>7. CASE Evict
  <2>1. file' = file /\ building' = building /\ pc' = pc
    BY <1>7 DEF Evict
  <2> QED
    BY <2>1, OrderStays
<1>8. CASE DeleteSession
  <2>1. file' = << >> /\ building' = building /\ pc' = pc
    BY <1>8 DEF DeleteSession
  <2>2. ParsedIn(file') = {} /\ Events' = {} /\ OrderedIn(file')
    BY <2>1 DEF ParsedIn, Events, ToSet, OrderedIn
  <2>3. FreshSeqs'
    BY <2>1, <2>2 DEF OrderInv, FreshSeqs, RisesOver
  <2> QED
    BY <2>1, <2>2, <2>3 DEF OrderInv, OneAppend, CreatedOnce, OfKind
<1>9. CASE Restart
  <2>1. \A j \in Jobs : building'[j] = << >>
    BY <1>9, RestartFacts
  <2>2. CASE file' = file
    <3>1. OrderedIn(file') /\ \A c, e \in OfKind("created")' : c = e
      BY <2>2 DEF OrderInv, CreatedOnce, OfKind, Events
    <3> QED
      BY <2>1, <3>1, NothingBuilt DEF OrderInv, CreatedOnce
  <2>3. CASE file' # file
    <3>1. PICK j \in Jobs : /\ building[j] # << >>
            /\ \E rest \in Leftovers(building[j]) : \E d \in {0, 1} : Glued(file, rest, d, file')
      BY <1>9, <2>3, RestartFacts
    <3>2. PICK rest \in Leftovers(building[j]), d \in {0, 1} : Glued(file, rest, d, file')
      BY <3>1
    <3>3. PartOf(rest, building[j])
      BY <1>0, LeftoverShape DEF Typed
    <3>4. OrderedIn(file') /\ \A c, e \in OfKind("created")' : c = e
      BY <1>0, <3>1, <3>2, <3>3, PartKeepsOrder
    <3> QED
      BY <2>1, <3>4, NothingBuilt DEF OrderInv, CreatedOnce
  <2> QED
    BY <2>2, <2>3
<1>10. CASE UNCHANGED vars
  <2>1. file' = file /\ building' = building /\ pc' = pc
    BY <1>10 DEF vars
  <2> QED
    BY <2>1, OrderStays
<1> QED
  BY <1>1, <1>2, <1>3, <1>4, <1>5, <1>6, <1>7, <1>8, <1>9, <1>10, <1>11 DEF Next, AppendStep

(* TranscriptInOrder: the seqs of a transcript rise from line to line, and *)
(* it is created once (appendTranscriptEvents reads, numbers and writes    *)
(* under the lock of the process, which a delete and a crash do not take). *)
THEOREM TranscriptOrder == Spec => []TranscriptInOrder
<1>1. Init => ShapeInv /\ OrderInv
  BY ShapeInit, OrderInit
<1>2. (ShapeInv /\ OrderInv) /\ [Next]_vars => (ShapeInv /\ OrderInv)'
  BY ShapeNext, OrderNext
<1>3. ShapeInv /\ OrderInv => TranscriptInOrder
  <2> SUFFICES ASSUME OrderInv PROVE TranscriptInOrder
    OBVIOUS
  <2>1. OrderedIn(file) /\ \A c, e \in OfKind("created") : c = e
    BY DEF OrderInv, CreatedOnce
  <2>2. Cardinality(OfKind("created")) <= 1
    <3>1. CASE OfKind("created") = {}
      BY <3>1, FS_EmptySet
    <3>2. CASE OfKind("created") # {}
      <4>1. PICK c : OfKind("created") = {c}
        BY <2>1, <3>2
      <4>2. Cardinality({c}) = 1
        BY FS_Singleton
      <4> QED
        BY <4>1, <4>2
    <3> QED
      BY <3>1, <3>2
  <2> QED
    BY <2>1, <2>2 DEF OrderedIn, TranscriptInOrder
<1> QED
  BY <1>1, <1>2, <1>3, PTL DEF Spec

----------------------------------------------------------------------------
(* Whole requests                                                          *)

LEMMA EventsGrow ==
  ASSUME Typed, NEW rest \in Seq(Event), NEW d, Glued(file, rest, d, file')
  PROVE  \A e \in Events : e \in Events'
BY EventsParsed, GlueKeeps DEF Typed

(* An append, whole or not, loses no event that is read.                   *)
LEMMA EventsAfter ==
  ASSUME ShapeInv, NEW j \in Jobs, EndAppend(j) \/ FailAppend(j)
  PROVE  \A e \in Events : e \in Events'
<1>1. Typed
  BY DEF ShapeInv
<1>2. CASE file' = file
  BY <1>2 DEF Events
<1>3. CASE file' # file
  <2>1. \E rest \in Seq(Event) : \E d \in {0, 1} : Glued(file, rest, d, file')
    <3>1. CASE EndAppend(j)
      BY <3>1, EndFacts
    <3>2. CASE FailAppend(j)
      <4>1. building[j] \in Seq(Event) /\ Jobs # {}
        BY <1>1 DEF Typed
      <4> QED
        BY <1>3, <3>2, <4>1, FailFacts, LeftoverShape DEF PartOf
    <3> QED
      BY <3>1, <3>2
  <2> QED
    BY <1>1, <2>1, EventsGrow
<1> QED
  BY <1>2, <1>3

(* A spoilt line stays, and an event that is lost leaves one.              *)
LEMMA SpoiltStays ==
  ASSUME NEW old \in Seq(Event), NEW events \in Seq(Event), events # << >>, NEW d, NEW new,
         Glued(old, events, d, new)
  PROVE  /\ \A r \in Jobs : SpoiltIn(old, r) => SpoiltIn(new, r)
         /\ d = 1 /\ events[1].kind # "torn" => SpoiltIn(new, events[1].of)
<1>1. /\ new \in Seq(Event) /\ d \in {0, 1} /\ (d = 1 <=> TornEnd(old)) /\ d <= Len(old)
      /\ Len(new) = Len(old) + Len(events) - d
      /\ \A n \in 1 .. Len(old) - d : new[n] = old[n]
      /\ d = 1 => new[Len(old)] = Spoiled(events[1])
  BY DEF Glued
<1>2. Len(old) \in Nat /\ Len(events) \in Nat \ {0} /\ Len(new) \in Nat
  BY <1>1, LenProperties, EmptySeq
<1>3. Len(old) <= Len(new)
  <2>1. d \in {0, 1} /\ Len(new) = Len(old) + Len(events) - d
    BY <1>1
  <2> QED
    BY <1>2, <2>1
<1>4. ASSUME NEW r \in Jobs, SpoiltIn(old, r) PROVE SpoiltIn(new, r)
  <2>1. PICK n \in 1 .. Len(old) : old[n].kind = "spoilt" /\ old[n].of = r
    BY <1>4, LenProperties DEF SpoiltIn, ToSet
  <2>2. d = 1 => n # Len(old)
    BY <1>1, <2>1 DEF TornEnd
  <2>3. d \in {0, 1} /\ d <= Len(old)
    BY <1>1
  <2>4. n \in 1 .. Len(old) - d /\ n \in 1 .. Len(new)
    BY <1>2, <1>3, <2>2, <2>3
  <2>5. new[n] = old[n]
    BY <1>1, <2>4
  <2> QED
    BY <1>1, <2>1, <2>4, <2>5, LenProperties DEF SpoiltIn, ToSet
<1>5. ASSUME d = 1, events[1].kind # "torn" PROVE SpoiltIn(new, events[1].of)
  <2>1. events[1] \in Event
    BY <1>2, ElementOfSeq
  <2>2. new[Len(old)].kind = "spoilt" /\ new[Len(old)].of = events[1].of
    BY <1>1, <1>5, <2>1, SpoiledShape
  <2>3. d <= Len(old)
    BY <1>1
  <2>4. Len(old) \in 1 .. Len(new)
    BY <1>2, <1>3, <1>5, <2>3
  <2> QED
    BY <1>1, <2>2, <2>4, LenProperties DEF SpoiltIn, ToSet
<1> QED
  BY <1>4, <1>5

(* Writing part of a batch leaves no request committed without a message,  *)
(* or a line that was spoilt.                                              *)
LEMMA PartKeepsWhole ==
  ASSUME ShapeInv, OrderInv, WholeInv, NEW j \in Jobs, building[j] # << >>, deletes' = deletes,
         faults' \in {faults, faults + 1}, NEW rest, rest # << >>,
         PartOf(rest, building[j]), NEW d \in {0, 1}, Glued(file, rest, d, file')
  PROVE  CommittedIsWhole'
<1>0. /\ Typed /\ JobsInPlace /\ BatchInv /\ rest \in Seq(Event)
      /\ RisesOver(file, building[j])
  BY DEF ShapeInv, PartOf, OrderInv, FreshSeqs
<1>1. \A e \in Events : e \in Events'
  BY <1>0, EventsGrow
<1> SUFFICES ASSUME deletes = 0, NEW e \in OfKind("committed")'
             PROVE  \/ \E m \in OfKind("message")' : m.of = e.of /\ m.seq < e.seq
                    \/ faults' > 0 /\ SpoiltIn(file', e.of)
  BY DEF CommittedIsWhole, SpoiltIn
<1>a. e \in OfKind("committed") => e.of \in Jobs
  <2>1. e \in OfKind("committed") => e \in ParsedIn(file)
    BY EventsParsed DEF OfKind
  <2>2. file \in Seq(Event)
    BY <1>0 DEF Typed
  <2>3. e \in ParsedIn(file) => \E n \in 1 .. Len(file) : file[n] = e
    BY <2>2, InParsed
  <2>4. \A n \in 1 .. Len(file) : file[n].of \in Jobs
    BY <2>2, LinesAreEvents
  <2> QED
    BY <2>1, <2>3, <2>4
<1>b. faults > 0 => faults' > 0
  BY <1>0 DEF Typed
<1>c. \A r \in Jobs : SpoiltIn(file, r) => SpoiltIn(file', r)
  <2>1. PICK new : new = file'
    OBVIOUS
  <2>2. Glued(file, rest, d, new) /\ file \in Seq(Event)
    BY <1>0, <2>1 DEF Typed
  <2>3. \A r \in Jobs : SpoiltIn(file, r) => SpoiltIn(new, r)
    BY <1>0, <2>2, SpoiltStays
  <2> QED
    BY <2>1, <2>3
<1>2. CASE e \in OfKind("committed")
  <2>1. CASE \E m \in OfKind("message") : m.of = e.of /\ m.seq < e.seq
    BY <1>1, <2>1 DEF OfKind
  <2>2. CASE faults > 0 /\ SpoiltIn(file, e.of)
    BY <1>2, <1>a, <1>b, <1>c, <2>2
  <2> QED
    BY <1>2, <2>1, <2>2 DEF WholeInv, CommittedIsWhole, SpoiltIn
<1>3. CASE e \notin OfKind("committed")
  <2>1. e \in Events' /\ e.kind = "committed" /\ e \notin Events
    BY <1>3 DEF OfKind
  <2>2. PICK n \in 1 + d .. Len(rest) :
          /\ n \in 1 .. Len(building[j]) /\ e = building[j][n]
          /\ \A h \in 1 + d .. n : building[j][h] \in Events'
    <3>1. PICK new : new = file'
      OBVIOUS
    <3>2. Glued(file, rest, d, new) /\ e \in ParsedIn(new) /\ Events' = ParsedIn(new)
      BY <2>1, <3>1, EventsParsed
    <3> QED
      BY <1>0, <2>1, <3>2, ReadAfterPart
  <2>3. /\ BatchAt(pc[j], j, building[j]) /\ e.of = j
        /\ \A i \in 1 .. Len(building[j]) : Parses(building[j][i]) /\ building[j][i].of = j
    BY <1>0, <2>2, BatchFacts
  <2>4. (pc[j] = "ending" /\ n = 1) \/ (pc[j] = "posting" /\ n = 3)
    BY <2>1, <2>2, <2>3 DEF BatchAt
  <2>5. CASE pc[j] = "ending" /\ n = 1
    <3>1. j \in Turns
      BY <1>0, <2>5 DEF JobsInPlace
    <3>2. ASSUME NEW m \in OfKind("message"), m.of = j
          PROVE  m \in OfKind("message")' /\ m.seq < e.seq
      <4>1. m.seq < e.seq
        BY <1>0, <2>2, <2>3, <3>2, EventsParsed DEF RisesOver, OfKind
      <4>2. m \in OfKind("message")'
        BY <1>1, <3>2 DEF OfKind
      <4> QED
        BY <4>1, <4>2
    <3>3. CASE faults > 0 /\ SpoiltIn(file, j)
      BY <1>b, <1>c, <2>3, <3>3
    <3>4. (\E m \in OfKind("message") : m.of = j) \/ (faults > 0 /\ SpoiltIn(file, j))
      BY <2>5, <3>1 DEF WholeInv, WholeTurns
    <3> QED
      BY <2>3, <3>2, <3>3, <3>4
  <2>6. CASE pc[j] = "posting" /\ n = 3
    <3>1. /\ Len(building[j]) = 3 /\ building[j][2].kind = "message"
          /\ 2 \in 1 + d .. n /\ 2 \in 1 .. Len(building[j]) /\ 2 \in 1 .. 3 - 1
      BY <2>3, <2>6 DEF BatchAt
    <3>2. building[j][2] \in OfKind("message")' /\ building[j][2].of = j
      BY <2>2, <2>3, <3>1 DEF OfKind
    <3>3. building[j][2].seq < building[j][3].seq
      BY <1>0, <2>2, <2>3, <2>6, <3>1 DEF RisesOver
    <3> QED
      BY <2>2, <2>3, <2>6, <3>2, <3>3
  <2> QED
    BY <2>4, <2>5, <2>6
<1> QED
  BY <1>2, <1>3

LEMMA WholeInit ==
  ASSUME Init PROVE WholeInv
<1>1. file = << >> /\ \A t \in Turns : pc[t] = "idle"
  BY DEF Init, Jobs
<1>2. Events = {}
  BY <1>1 DEF Events, ToSet
<1> QED
  BY <1>1, <1>2 DEF WholeInv, WholeTurns, CommittedIsWhole, OfKind

(* A step that appends nothing, and brings no turn where it may append its *)
(* message or its end.                                                     *)
LEMMA WholeStays ==
  ASSUME WholeInv, UNCHANGED <<file, deletes, faults>>,
         \A t \in Turns : pc'[t] \in {"talking", "ending"} => pc'[t] = pc[t]
  PROVE  WholeInv'
<1>1. \A kind : OfKind(kind)' = OfKind(kind)
  BY DEF OfKind, Events
<1> QED
  BY <1>1 DEF WholeInv, WholeTurns, CommittedIsWhole

LEMMA WholeNext ==
  ASSUME ShapeInv, OrderInv, WholeInv, [Next]_vars
  PROVE  WholeInv'
<1>0. Typed /\ BatchInv /\ Turns \subseteq Jobs
  BY DEF ShapeInv, Jobs
<1>1. ASSUME NEW t \in Turns, Ask(t) PROVE WholeInv'
  <2>1. UNCHANGED <<file, deletes, faults>> /\ pc' = [pc EXCEPT ![t] = "queued"]
    BY <1>1 DEF Ask
  <2>2. pc'[t] = "queued" /\ \A j \in Jobs : j # t => pc'[j] = pc[j]
    BY <1>0, <2>1 DEF Typed
  <2> QED
    BY <1>0, <2>1, <2>2, WholeStays
<1>2. ASSUME NEW t \in Turns, TurnStep(t) PROVE WholeInv'
  <2>1. /\ UNCHANGED <<file, deletes, faults>> /\ \A j \in Jobs : j # t => pc'[j] = pc[j]
    BY <1>2, ShapeTurn
  <2>2. pc'[t] \in {"comparing", "restoring", "rebuilding", "sequencing", "creating"}
    BY <1>0, <1>2 DEF Typed, TurnStep, Begin, Compare, Restore, ReadSequence
  <2> QED
    BY <1>0, <2>1, <2>2, WholeStays
<1>3. ASSUME NEW j \in Jobs, Call(j) PROVE WholeInv'
  <2>1. UNCHANGED <<file, deletes, faults>>
    BY <1>3 DEF Call
  <2> QED
    BY <1>0, <1>3, <2>1, ShapeCall, WholeStays
<1>4. ASSUME NEW j \in Jobs, SkipCreated(j) PROVE WholeInv'
  <2>1. UNCHANGED <<file, deletes, faults>>
    BY <1>4 DEF SkipCreated
  <2> QED
    BY <1>0, <1>4, <2>1, ShapeSkip, WholeStays
<1>5. ASSUME NEW j \in Jobs, BeginAppend(j) PROVE WholeInv'
  <2>1. UNCHANGED <<file, deletes, faults>> /\ pc' = pc
    BY <1>5 DEF BeginAppend
  <2> QED
    BY <2>1, WholeStays
<1>6. ASSUME NEW j \in Jobs, building[j] # << >>, deletes' = deletes,
             faults' \in {faults, faults + 1}, NEW rest, rest # << >>,
             PartOf(rest, building[j]), NEW d \in {0, 1}, Glued(file, rest, d, file')
      PROVE  /\ CommittedIsWhole'
             /\ \A t \in Turns : (deletes = 0 /\ pc[t] = "ending") =>
                  \/ \E m \in OfKind("message")' : m.of = t
                  \/ faults' > 0 /\ SpoiltIn(file', t)
             /\ \A e \in Events : e \in Events'
             /\ d = 1 /\ rest[1].kind # "torn" => SpoiltIn(file', rest[1].of)
  <2>1. PICK new : new = file'
    OBVIOUS
  <2>2. Glued(file, rest, d, new) /\ file \in Seq(Event) /\ rest \in Seq(Event)
    BY <1>0, <1>6, <2>1 DEF Typed, PartOf
  <2>3. /\ \A r \in Jobs : SpoiltIn(file, r) => SpoiltIn(new, r)
        /\ d = 1 /\ rest[1].kind # "torn" => SpoiltIn(new, rest[1].of)
    BY <1>6, <2>2, SpoiltStays
  <2>4. \A e \in Events : e \in Events'
    BY <1>0, <1>6, <2>2, EventsGrow
  <2>5. faults > 0 => faults' > 0
    BY <1>0, <1>6 DEF Typed
  <2>6. ASSUME NEW t \in Turns, deletes = 0, pc[t] = "ending"
        PROVE  \/ \E m \in OfKind("message")' : m.of = t
               \/ faults' > 0 /\ SpoiltIn(file', t)
    <3>1. (\E m \in OfKind("message") : m.of = t) \/ (faults > 0 /\ SpoiltIn(file, t))
      BY <2>6 DEF WholeInv, WholeTurns
    <3> QED
      BY <1>0, <2>1, <2>3, <2>4, <2>5, <3>1 DEF OfKind
  <2>7. CommittedIsWhole'
    BY <1>6, PartKeepsWhole
  <2> QED
    BY <2>1, <2>3, <2>4, <2>6, <2>7
<1>11. ASSUME NEW j \in Jobs, EndAppend(j) PROVE WholeInv'
  <2>1. PICK d \in {0, 1} : Glued(file, building[j], d, file')
    BY <1>11, EndFacts
  <2>2. /\ building[j] # << >> /\ PartOf(building[j], building[j])
        /\ UNCHANGED <<deletes, faults>> /\ Follow(j, pc'[j])
        /\ building[j] \in Seq(Event) /\ \A i \in Jobs : i # j => pc'[i] = pc[i]
    BY <1>11, EndFacts, WholePart
  <2>3. PICK events : events = building[j]
    OBVIOUS
  <2>4. /\ CommittedIsWhole'
        /\ \A t \in Turns : (deletes = 0 /\ pc[t] = "ending") =>
             \/ \E m \in OfKind("message")' : m.of = t
             \/ faults' > 0 /\ SpoiltIn(file', t)
        /\ d = 1 /\ events[1].kind # "torn" => SpoiltIn(file', events[1].of)
    BY <1>6, <2>1, <2>2, <2>3
  <2>5. ~ TornEnd(file')
    <3>1. events[Len(events)].kind # "torn"
      BY <1>0, <2>2, <2>3, BatchFacts
    <3> QED
      BY <1>0, <2>1, <2>2, <2>3, <3>1, GlueEnds DEF Typed
  <2>6. ASSUME NEW t \in Turns, deletes = 0, pc'[t] = "ending"
        PROVE  \/ \E m \in OfKind("message")' : m.of = t
               \/ faults' > 0 /\ SpoiltIn(file', t)
    <3>1. CASE t # j
      BY <1>0, <2>2, <2>4, <2>6, <3>1
    <3>2. CASE t = j
      <4>1. pc[j] = "talking"
        BY <2>2, <2>6, <3>2 DEF Follow
      <4>2. /\ Len(events) = 1 /\ events[1].kind = "message"
            /\ events[1].of = j /\ Parses(events[1])
        BY <1>0, <2>2, <2>3, <4>1, BatchFacts DEF BatchAt
      <4>3. CASE d = 0
        <5>1. 1 \in 1 + d .. Len(events)
          BY <4>2, <4>3
        <5>2. events[1] \in Events'
          BY <1>0, <2>1, <2>2, <2>3, <4>2, <5>1, EventsParsed, GlueKeeps DEF Typed
        <5> QED
          BY <3>2, <4>2, <5>2 DEF OfKind
      <4>4. CASE d = 1
        <5>1. TornEnd(file)
          BY <2>1, <4>4 DEF Glued
        <5>2. faults > 0
          BY <3>2, <4>1, <5>1 DEF WholeInv, WholeTurns
        <5> QED
          BY <2>2, <2>4, <3>2, <4>2, <4>4, <5>2
      <4> QED
        BY <4>3, <4>4
    <3> QED
      BY <3>1, <3>2
  <2> QED
    BY <2>2, <2>4, <2>5, <2>6 DEF WholeInv, WholeTurns
<1>12. ASSUME NEW j \in Jobs, FailAppend(j) PROVE WholeInv'
  <2>1. /\ building[j] # << >> /\ building[j] \in Seq(Event) /\ deletes' = deletes
        /\ faults' = faults + 1 /\ FailTo(j, pc'[j]) /\ \A i \in Jobs : i # j => pc'[i] = pc[i]
    BY <1>12, FailFacts
  <2>2. faults \in Nat /\ faults' > 0
    BY <1>0, <2>1 DEF Typed
  <2>3. pc'[j] # "ending"
    BY <2>1 DEF FailTo
  <2>4. \A t \in Turns : pc'[t] = "ending" => pc[t] = "ending"
    BY <1>0, <2>1, <2>3
  <2>5. CASE file' = file
    <3>1. \A kind : OfKind(kind)' = OfKind(kind)
      BY <2>5 DEF OfKind, Events
    <3> QED
      BY <2>1, <2>2, <2>4, <2>5, <3>1 DEF WholeInv, WholeTurns, CommittedIsWhole
  <2>6. CASE file' # file
    <3>1. PICK rest \in Leftovers(building[j]), d \in {0, 1} :
            rest # << >> /\ Glued(file, rest, d, file')
      BY <1>12, <2>6, FailFacts
    <3>2. PartOf(rest, building[j])
      BY <2>1, LeftoverShape
    <3>3. /\ CommittedIsWhole'
          /\ \A t \in Turns : (deletes = 0 /\ pc[t] = "ending") =>
               \/ \E m \in OfKind("message")' : m.of = t
               \/ faults' > 0 /\ SpoiltIn(file', t)
      BY <1>6, <2>1, <3>1, <3>2
    <3> QED
      BY <2>1, <2>2, <2>4, <3>3 DEF WholeInv, WholeTurns
  <2> QED
    BY <2>5, <2>6
<1>7. CASE Evict
  <2>1. UNCHANGED <<file, deletes, faults>> /\ pc' = pc
    BY <1>7 DEF Evict
  <2> QED
    BY <2>1, WholeStays
<1>8. CASE DeleteSession
  <2>1. file' = << >> /\ deletes' # 0
    BY <1>0, <1>8 DEF DeleteSession, Typed
  <2> QED
    BY <2>1 DEF WholeInv, WholeTurns, CommittedIsWhole, TornEnd
<1>9. CASE Restart
  <2>1. /\ UNCHANGED <<deletes, faults>>
        /\ \A t \in Turns : pc'[t] \notin {"talking", "ending"}
    BY <1>0, <1>9, RestartFacts DEF Ends
  <2>2. CASE file' = file
    BY <2>1, <2>2, WholeStays
  <2>3. CASE file' # file
    <3>1. PICK j \in Jobs : /\ building[j] # << >>
            /\ \E rest \in Leftovers(building[j]) : \E d \in {0, 1} :
                 rest # << >> /\ Glued(file, rest, d, file')
      BY <1>9, <2>3, RestartFacts
    <3>2. PICK rest \in Leftovers(building[j]), d \in {0, 1} :
            rest # << >> /\ Glued(file, rest, d, file')
      BY <3>1
    <3>3. PartOf(rest, building[j])
      BY <1>0, LeftoverShape DEF Typed
    <3>4. CommittedIsWhole'
      BY <2>1, <3>1, <3>2, <3>3, PartKeepsWhole
    <3> QED
      BY <2>1, <3>4 DEF WholeInv, WholeTurns
  <2> QED
    BY <2>2, <2>3
<1>10. CASE UNCHANGED vars
  <2>1. UNCHANGED <<file, deletes, faults>> /\ pc' = pc
    BY <1>10 DEF vars
  <2> QED
    BY <2>1, WholeStays
<1> QED
  BY <1>1, <1>2, <1>3, <1>4, <1>5, <1>7, <1>8, <1>9, <1>10, <1>11, <1>12 DEF Next, AppendStep

(* CommittedIsWhole: what a restore shows as committed has its messages,   *)
(* whatever crash came between (committedMessageEvents), unless a failed   *)
(* append of another request tore the line that one of them was glued to.  *)
THEOREM WholeRequests == Spec => []CommittedIsWhole
<1>1. Init => ShapeInv /\ OrderInv /\ WholeInv
  BY ShapeInit, OrderInit, WholeInit
<1>2. (ShapeInv /\ OrderInv /\ WholeInv) /\ [Next]_vars => (ShapeInv /\ OrderInv /\ WholeInv)'
  BY ShapeNext, OrderNext, WholeNext
<1>3. ShapeInv /\ OrderInv /\ WholeInv => CommittedIsWhole
  BY DEF WholeInv
<1> QED
  BY <1>1, <1>2, <1>3, PTL DEF Spec

----------------------------------------------------------------------------
(* The seq of the agent                                                    *)

LEMMA NearStays ==
  ASSUME NEW seq, NEW some, NEW more, Near(seq, some), \A e \in some : e \in more
  PROVE  Near(seq, more)
BY DEF Near

(* The largest seq read from a file, and the one after it, are near.       *)
LEMMA LargestIsNear ==
  ASSUME NEW lines \in Seq(Event), NEW some \in SUBSET ParsedIn(lines)
  PROVE  Near(LargestSeq(some), some) /\ Near(LargestSeq(some) + 1, some)
<1>1. /\ LargestSeq(some) \in Nat
      /\ LargestSeq(some) = 0 \/ \E e \in some : LargestSeq(some) = e.seq
  BY LargestSeqBounds
<1>2. CASE LargestSeq(some) = 0
  BY <1>2 DEF Near
<1>3. CASE LargestSeq(some) # 0
  <2>1. PICK e \in some : LargestSeq(some) = e.seq
    BY <1>1, <1>3
  <2>2. LargestSeq(some) <= e.seq + 1 /\ LargestSeq(some) + 1 <= e.seq + 1
    BY <1>1, <2>1
  <2> QED
    BY <2>2 DEF Near
<1> QED
  BY <1>2, <1>3

(* A step that loses no event but by a delete, and builds no commit.       *)
LEMMA SeqStays ==
  ASSUME SeqInv,
         deletes' = 0 => (deletes = 0 /\ \A e \in Events : e \in Events'),
         agent'.seq = agent.seq \/ (deletes = 0 => Near(agent'.seq, Events)),
         \A t \in Turns : (pc'[t] = "ending" /\ building'[t] # << >>) =>
                        pc[t] = "ending" /\ building'[t] = building[t]
  PROVE  SeqInv'
<1> SUFFICES ASSUME deletes' = 0
             PROVE  /\ Near(agent'.seq, Events')
                    /\ \A t \in Turns : (pc'[t] = "ending" /\ building'[t] # << >>) =>
                         Near(building'[t][1].seq, Events') /\ building'[t][1].seq # 0
  BY DEF SeqInv
<1>1. deletes = 0 /\ \A e \in Events : e \in Events'
  OBVIOUS
<1>2. PICK more : more = Events'
  OBVIOUS
<1>3. PICK seq : seq = agent'.seq
  OBVIOUS
<1>4. Near(seq, more)
  BY <1>1, <1>2, <1>3, NearStays DEF SeqInv
<1>5. ASSUME NEW t \in Turns, pc'[t] = "ending", building'[t] # << >>
      PROVE  Near(building'[t][1].seq, more) /\ building'[t][1].seq # 0
  <2>1. pc[t] = "ending" /\ building'[t] = building[t]
    BY <1>5
  <2>2. Near(building[t][1].seq, Events) /\ building[t][1].seq # 0
    BY <1>1, <1>5, <2>1 DEF SeqInv
  <2>3. Near(building[t][1].seq, more)
    BY <1>1, <1>2, <2>2, NearStays
  <2> QED
    BY <2>1, <2>2, <2>3
<1> QED
  BY <1>2, <1>3, <1>4, <1>5

LEMMA SeqInit ==
  ASSUME Init PROVE SeqInv
<1>1. agent.seq = 0 /\ \A j \in Jobs : building[j] = << >>
  BY DEF Init
<1> QED
  BY <1>1 DEF SeqInv, Near, Jobs

LEMMA SeqBegin ==
  ASSUME ShapeInv, SeqInv, NEW j \in Jobs, BeginAppend(j)
  PROVE  SeqInv'
<1>1. /\ Typed /\ pc[j] \in Appending /\ UNCHANGED <<file, pc, agent, deletes>>
  BY DEF ShapeInv, BeginAppend
<1>2. Events' = Events
  BY <1>1 DEF Events
<1>3. PICK kinds : kinds = Batch(j) /\ building' = [building EXCEPT ![j] = Numbered(j, kinds)]
  BY DEF BeginAppend
<1>4. building'[j] = Numbered(j, kinds) /\ \A i \in Jobs : i # j => building'[i] = building[i]
  BY <1>1, <1>3 DEF Typed
<1>5. ASSUME pc[j] = "ending"
      PROVE  Near(building'[j][1].seq, Events) /\ building'[j][1].seq # 0
  <2>1. kinds = <<"committed">>
    BY <1>3, <1>5 DEF Batch
  <2>2. 1 \in 1 .. Len(kinds)
    BY <2>1
  <2>3. building'[j][1].seq = LargestSeq(Events) + 1
    BY <1>1, <1>3, <1>4, <2>2, NumberedShape
  <2>4. Events \in SUBSET ParsedIn(file) /\ file \in Seq(Event)
    BY <1>1 DEF Events, ParsedIn, Typed
  <2>5. Near(LargestSeq(Events) + 1, Events) /\ LargestSeq(Events) \in Nat
    BY <2>4, LargestIsNear, LargestSeqBounds
  <2>6. LargestSeq(Events) + 1 # 0
    BY <2>5
  <2> QED
    BY <2>3, <2>5, <2>6
<1> QED
  BY <1>1, <1>2, <1>4, <1>5 DEF SeqInv, Jobs

LEMMA SeqEnd ==
  ASSUME ShapeInv, SeqInv, NEW j \in Jobs, EndAppend(j) \/ FailAppend(j)
  PROVE  SeqInv'
<1>1. /\ Typed /\ BatchInv /\ building[j] # << >> /\ building'[j] = << >> /\ deletes' = deletes
      /\ \A i \in Jobs : i # j => building'[i] = building[i] /\ pc'[i] = pc[i]
      /\ \/ agent'.seq = agent.seq
         \/ pc[j] = "ending" /\ agent'.seq = Last(building[j]).seq
      /\ pc[j] = "ending" => j \in Turns
  BY EndFacts, FailFacts, EndMemory, FailMemory DEF ShapeInv, JobsInPlace
<1>2. \A e \in Events : e \in Events'
  BY EventsAfter
<1>3. ASSUME deletes = 0, pc[j] = "ending" PROVE Near(Last(building[j]).seq, Events)
  <2>1. Last(building[j]) = building[j][1]
    BY <1>1, <1>3 DEF BatchInv, BatchAt, Last
  <2> QED
    BY <1>1, <1>3, <2>1 DEF SeqInv
<1> QED
  BY <1>1, <1>2, <1>3, SeqStays DEF Jobs

LEMMA SeqTurn ==
  ASSUME ShapeInv, SeqInv, NEW t \in Turns, TurnStep(t)
  PROVE  SeqInv'
<1>1. /\ Typed /\ UNCHANGED <<file, building, deletes>>
      /\ \A i \in Jobs : i # t => pc'[i] = pc[i]
  BY ShapeTurn DEF ShapeInv
<1>2. pc'[t] # "ending"
  <2>1. \E place \in {"comparing", "restoring", "rebuilding", "sequencing", "creating"} :
          pc' = [pc EXCEPT ![t] = place]
    BY DEF TurnStep, Begin, Compare, Restore, ReadSequence
  <2> QED
    BY <1>1, <2>1 DEF Typed, Jobs
<1>3. Events' = Events
  BY <1>1 DEF Events
<1>4. agent'.seq = agent.seq \/ agent'.seq = LatestCommitted
  <2>1. agent \in [knows : SUBSET Jobs, seq : Nat]
    BY <1>1 DEF Typed
  <2>2. \/ agent' = agent \/ agent' = [agent EXCEPT !.seq = LatestCommitted]
        \/ agent' = [agent EXCEPT !.knows = CommittedRequests]
    BY DEF TurnStep, Begin, Compare, Restore, ReadSequence
  <2> QED
    BY <2>1, <2>2
<1>5. Near(LatestCommitted, Events)
  <2>1. OfKind("committed") \in SUBSET ParsedIn(file) /\ file \in Seq(Event)
    BY <1>1 DEF OfKind, Events, ParsedIn, Typed
  <2>2. Near(LatestCommitted, OfKind("committed"))
    BY <2>1, LargestIsNear DEF LatestCommitted
  <2>3. \A e \in OfKind("committed") : e \in Events
    BY DEF OfKind
  <2> QED
    BY <2>2, <2>3, NearStays
<1> QED
  BY <1>1, <1>2, <1>3, <1>4, <1>5, SeqStays DEF Jobs

LEMMA SeqNext ==
  ASSUME ShapeInv, SeqInv, [Next]_vars
  PROVE  SeqInv'
<1>0. Typed /\ JobsInPlace /\ Turns \subseteq Jobs
  BY DEF ShapeInv, Jobs
<1>1. ASSUME UNCHANGED <<file, building, agent, deletes>>,
             \A t \in Turns : pc'[t] = "ending" => pc[t] = "ending"
      PROVE  SeqInv'
  <2>1. Events' = Events
    BY <1>1 DEF Events
  <2> QED
    BY <1>1, <2>1, SeqStays
<1>2. ASSUME NEW t \in Turns, Ask(t) PROVE SeqInv'
  <2>1. /\ UNCHANGED <<file, building, agent, deletes>> /\ pc'[t] = "queued"
        /\ \A j \in Jobs : j # t => pc'[j] = pc[j]
    BY <1>0, <1>2 DEF Ask, Typed
  <2> QED
    BY <1>0, <1>1, <2>1
<1>3. ASSUME NEW j \in Jobs, Call(j) \/ SkipCreated(j) PROVE SeqInv'
  <2>1. /\ UNCHANGED <<file, building, agent, deletes>> /\ pc'[j] # "ending"
        /\ \A i \in Jobs : i # j => pc'[i] = pc[i]
    BY <1>3, ShapeCall, ShapeSkip DEF Call, SkipCreated
  <2> QED
    BY <1>0, <1>1, <2>1
<1>4. CASE DeleteSession
  <2>1. deletes' # 0
    BY <1>0, <1>4 DEF DeleteSession, Typed
  <2> QED
    BY <2>1 DEF SeqInv
<1>5. CASE Restart
  <2>1. /\ \A j \in Jobs : building'[j] = << >>
        /\ agent'.seq = 0
    BY <1>5, RestartFacts
  <2> QED
    BY <1>0, <2>1 DEF SeqInv, Near
<1>6. CASE Evict \/ UNCHANGED vars
  BY <1>1, <1>6 DEF Evict, vars
<1> QED
  BY <1>2, <1>3, <1>4, <1>5, <1>6, SeqTurn, SeqBegin, SeqEnd DEF Next, AppendStep

----------------------------------------------------------------------------
(* The memory of the agent                                                 *)

(* A request stays good while no event is lost but by a delete, and stays  *)
(* so if the agent is kept as long as its seq is stale.                    *)
LEMMA GoodStays ==
  ASSUME NEW r, pc'[r] = pc[r],
         deletes' = 0 => (deletes = 0 /\ \A e \in Events : e \in Events')
  PROVE  /\ Good(r) => Good(r)'
         /\ (GoodIfKept(r) /\ (deletes = 0 => (Stale => Stale'))) => GoodIfKept(r)'
BY DEF Good, GoodIfKept, Recorded, OfKind

LEMMA GoodIsKept ==
  ASSUME NEW r PROVE Good(r)' => GoodIfKept(r)'
BY DEF Good, GoodIfKept

LEMMA MemoryInit ==
  ASSUME Init PROVE MemoryInv
<1>1. file = << >> /\ agent.knows = {} /\ ~ cached
  BY DEF Init
<1>2. Events = {}
  BY <1>1 DEF Events, ToSet
<1> QED
  BY <1>1, <1>2 DEF MemoryInv, OfKind

Settled == {"committed", "done", "lost"}

LEMMA CommittedSettled ==
  ASSUME Typed, NEW e \in OfKind("committed")
  PROVE  e.of \in Jobs /\ (MemoryInv => pc[e.of] \in Settled)
<1>1. e \in ParsedIn(file)
  BY EventsParsed DEF OfKind
<1>2. e.of \in Jobs
  BY <1>1, InParsed, LinesAreEvents DEF Typed
<1> QED
  BY <1>2 DEF MemoryInv, Settled

(* Who committed stays so, and a job that settles does not run again.      *)
LEMMA CommittedStays ==
  ASSUME Typed, MemoryInv, \A e \in Events' : e \in Events,
         \A j \in Jobs : pc[j] \in Settled => pc'[j] \in Settled
  PROVE  \A e \in OfKind("committed")' : pc'[e.of] \in Settled
<1> SUFFICES ASSUME NEW e \in OfKind("committed")' PROVE pc'[e.of] \in Settled
  OBVIOUS
<1>1. e \in OfKind("committed")
  BY DEF OfKind
<1> QED
  BY <1>1, CommittedSettled

(* A step that appends nothing and is not a turn's, of a job that has not  *)
(* spoken, and neither starts nor ends to run as a turn.                   *)
LEMMA MemoryStays ==
  ASSUME Typed, MemoryInv, file' = file, agent' = agent, cached' => cached, deletes' = deletes,
         \A j \in Jobs : pc[j] \in Spoke => pc'[j] = pc[j],
         Running' = Running,
         \A t \in Turns : pc'[t] = "comparing" => pc[t] = "comparing",
         \A t \in Turns : pc'[t] \in {"sequencing"} \cup Appending =>
                        pc[t] \in {"sequencing"} \cup Appending
  PROVE  MemoryInv'
<1>1. Events' = Events
  BY DEF Events
<1>2. \A e \in OfKind("committed")' : pc'[e.of] \in Settled
  <2>1. \A j \in Jobs : pc[j] \in Settled => pc'[j] \in Settled
    BY DEF Settled, Spoke, Ends
  <2> QED
    BY <1>1, <2>1, CommittedStays
<1>3. \A r \in agent.knows : pc'[r] = pc[r] /\ pc[r] \in Spoke
  BY DEF MemoryInv, Typed
<1>4. Stale => Stale'
  BY <1>1 DEF Stale, OfKind
<1>5. \A r \in agent.knows : (Good(r) => Good(r)') /\ (GoodIfKept(r) => GoodIfKept(r)')
  BY <1>1, <1>3, <1>4, GoodStays
<1>6. \A t \in Turns : pc'[t] \in {"sequencing"} \cup Appending =>
        \A r \in agent'.knows \ {t} : Good(r)'
  BY <1>5 DEF MemoryInv
<1>7. \A t \in Turns : pc'[t] = "comparing" => \A r \in agent'.knows : GoodIfKept(r)'
  BY <1>5 DEF MemoryInv
<1>8. (cached' /\ Running' = {}) => \A r \in agent'.knows : GoodIfKept(r)'
  BY <1>5 DEF MemoryInv
<1> QED
  BY <1>2, <1>3, <1>6, <1>7, <1>8 DEF MemoryInv, Settled

(* A turn that heads the queue is the only one to run, before and after.   *)
LEMMA OneTurn ==
  ASSUME QueueInv, NEW t \in Turns, Head(queue) = t, \A i \in Jobs : i # t => pc'[i] = pc[i]
  PROVE  \A s \in Turns : s # t => s \notin Running /\ s \notin Running'
BY DEF QueueInv, Running, Jobs

(* An agent that passes the comparison is not stale.                       *)
LEMMA KeptIsNotStale ==
  ASSUME Typed, agent.seq = LatestCommitted
  PROVE  ~ Stale
<1>1. OfKind("committed") \in SUBSET ParsedIn(file) /\ file \in Seq(Event)
  BY DEF OfKind, Events, ParsedIn, Typed
<1>2. LatestCommitted = 0 \/ \E e \in OfKind("committed") : LatestCommitted = e.seq
  BY <1>1, LargestSeqBounds DEF LatestCommitted
<1> QED
  BY <1>2 DEF Stale

(* A turn begins with what a cached agent remembers, or restores what is   *)
(* committed.                                                              *)
LEMMA MemoryTurn ==
  ASSUME ShapeInv, MemoryInv, NEW t \in Turns, TurnStep(t)
  PROVE  MemoryInv'
<1>1. /\ Typed /\ JobsInPlace /\ QueueInv /\ t \in Jobs /\ Turns \subseteq Jobs
  BY DEF ShapeInv, Jobs
<1>2. /\ Head(queue) = t /\ \A i \in Jobs : i # t => pc'[i] = pc[i]
      /\ file' = file /\ deletes' = deletes
  BY ShapeTurn
<1>3. \A s \in Turns : s # t => s \notin Running /\ s \notin Running'
  BY <1>1, <1>2, OneTurn
<1>4. /\ pc[t] \in {"queued", "comparing", "restoring", "rebuilding", "sequencing"}
      /\ pc'[t] \in {"comparing", "restoring", "rebuilding", "sequencing", "creating"}
  BY <1>1 DEF Typed, TurnStep, Begin, Compare, Restore, ReadSequence
<1>5. Events' = Events
  BY <1>2 DEF Events
<1>6. \A e \in OfKind("committed")' : pc'[e.of] \in Settled
  <2>1. \A j \in Jobs : pc[j] \in Settled => pc'[j] \in Settled
    BY <1>2, <1>4 DEF Settled
  <2> QED
    BY <1>1, <1>5, <2>1, CommittedStays
<1>7. \A r \in Jobs : r # t => (Good(r) => Good(r)')
  BY <1>2, <1>5, GoodStays
<1>8. /\ agent.knows \subseteq Jobs /\ CommittedRequests \subseteq Jobs
      /\ \A r \in agent.knows : pc[r] \in Spoke /\ r # t
      /\ \A r \in CommittedRequests : /\ pc[r] \in Settled /\ r # t
                                      /\ \E e \in OfKind("committed") : e.of = r
  <2>1. \A e \in OfKind("committed") : e.of \in Jobs /\ pc[e.of] \in Settled
    BY <1>1, CommittedSettled
  <2>2. pc[t] \notin Spoke /\ pc[t] \notin Settled
    BY <1>4 DEF Spoke, Settled, Ends
  <2> QED
    BY <1>1, <2>1, <2>2 DEF CommittedRequests, Typed, MemoryInv
<1>9. agent'.knows = agent.knows \/ (Restore(t) /\ agent'.knows = CommittedRequests)
  <2>1. agent \in [knows : SUBSET Jobs, seq : Nat]
    BY <1>1 DEF Typed
  <2>2. \/ agent' = agent \/ agent' = [agent EXCEPT !.seq = LatestCommitted]
        \/ Restore(t) /\ agent' = [agent EXCEPT !.knows = CommittedRequests]
    BY DEF TurnStep, Begin, Compare, Restore, ReadSequence
  <2> QED
    BY <2>1, <2>2
<1>10. \A r \in agent'.knows : r \in Jobs /\ r # t /\ pc'[r] = pc[r] /\ pc'[r] \in Spoke
  BY <1>2, <1>8, <1>9 DEF Spoke, Settled, Ends
<1>11. ASSUME pc'[t] \in {"sequencing", "creating"}, NEW r \in agent'.knows
       PROVE  Good(r)'
  <2>1. r \in Jobs /\ r # t
    BY <1>10
  <2>2. CASE Restore(t) /\ agent'.knows = CommittedRequests
    <3>1. pc[r] \in Settled /\ \E e \in OfKind("committed") : e.of = r
      BY <1>8, <2>2, <1>11
    <3>2. Good(r)
      BY <3>1 DEF Good, Recorded, Settled
    <3> QED
      BY <1>7, <2>1, <3>2
  <2>3. CASE agent'.knows = agent.knows
    <3>1. ~ Begin(t)
      BY <1>1, <1>11 DEF Begin, Typed
    <3>2. CASE Compare(t)
      <4>1. pc[t] = "comparing" /\ agent.seq = LatestCommitted
        BY <1>1, <1>11, <3>2 DEF Compare, Typed
      <4>2. GoodIfKept(r)
        BY <1>11, <2>3, <4>1 DEF MemoryInv
      <4>3. Good(r)
        BY <1>1, <4>1, <4>2, KeptIsNotStale DEF Good, GoodIfKept
      <4> QED
        BY <1>7, <2>1, <4>3
    <3>3. CASE ReadSequence(t)
      <4>1. pc[t] = "sequencing"
        BY <3>3 DEF ReadSequence
      <4>2. Good(r)
        BY <1>11, <2>1, <2>3, <4>1 DEF MemoryInv
      <4> QED
        BY <1>7, <2>1, <4>2
    <3>4. CASE Restore(t)
      <4>1. agent'.knows = CommittedRequests
        BY <1>1, <3>4 DEF Restore, Typed
      <4> QED
        BY <2>2, <3>4, <4>1
    <3> QED
      BY <3>1, <3>2, <3>3, <3>4 DEF TurnStep
  <2> QED
    BY <1>9, <2>2, <2>3
<1>12. ASSUME pc'[t] = "comparing", NEW r \in agent'.knows PROVE GoodIfKept(r)'
  <2>1. /\ cached /\ pc[t] = "queued" /\ agent' = agent
    BY <1>1, <1>12 DEF TurnStep, Begin, Compare, Restore, ReadSequence, Typed
  <2>2. Running = {}
    BY <1>3, <2>1 DEF Running
  <2>3. GoodIfKept(r)
    BY <1>12, <2>1, <2>2 DEF MemoryInv
  <2>4. Stale => Stale'
    BY <1>5, <2>1 DEF Stale, OfKind
  <2> QED
    BY <1>2, <1>5, <1>10, <1>12, <2>3, <2>4, GoodStays
<1>13. ASSUME NEW s \in Turns, pc'[s] \in {"comparing", "sequencing"} \cup Appending
       PROVE  s = t
  BY <1>3, <1>13 DEF Running, Appending, Ends
<1>14. \A s \in Turns : pc'[s] \in {"sequencing"} \cup Appending =>
         \A r \in agent'.knows \ {s} : Good(r)'
  BY <1>4, <1>11, <1>13 DEF Appending
<1>15. \A s \in Turns : pc'[s] = "comparing" => \A r \in agent'.knows : GoodIfKept(r)'
  BY <1>12, <1>13
<1>16. Running' # {}
  <2>1. t \in Running'
    BY <1>4 DEF Running, Ends
  <2> QED
    BY <2>1
<1> QED
  BY <1>6, <1>10, <1>14, <1>15, <1>16 DEF MemoryInv, Settled

(* What is written of a batch is of its job, and its commit is its last    *)
(* event.                                                                  *)
LEMMA NewCommitted ==
  ASSUME Typed, BatchInv, NEW j \in Jobs, building[j] # << >>,
         NEW rest, PartOf(rest, building[j]), NEW d \in {0, 1}, Glued(file, rest, d, file'),
         NEW e \in OfKind("committed")', e \notin OfKind("committed")
  PROVE  /\ e.of = j /\ pc[j] \in {"posting", "ending"}
         /\ e = building[j][Len(building[j])] /\ rest = building[j]
<1>1. /\ e \in ParsedIn(file') /\ e.kind = "committed" /\ e \notin ParsedIn(file)
      /\ file \in Seq(Event) /\ rest \in Seq(Event) /\ Len(rest) <= Len(building[j])
  BY EventsParsed DEF OfKind, PartOf, Typed
<1>2. PICK n \in 1 + d .. Len(rest) : e = rest[n] /\ Parses(e)
  <2>1. PICK new : new = file'
    OBVIOUS
  <2> QED
    BY <1>1, <2>1, GlueKeeps
<1>3. /\ building[j] \in Seq(Event) /\ Len(building[j]) \in Nat \ {0} /\ Len(rest) \in Nat
      /\ BatchAt(pc[j], j, building[j])
  BY <1>1, BatchFacts, LenProperties
<1>4. n \in 1 .. Len(rest) /\ n \in 1 .. Len(building[j]) /\ n \in 1 .. n
  BY <1>1, <1>3
<1>5. \A h \in 1 .. n : rest[h] = building[j][h]
  BY <1>2, <1>4 DEF PartOf
<1>6. e = building[j][n] /\ e.of = j
  BY <1>2, <1>3, <1>4, <1>5 DEF BatchAt
<1>7. pc[j] \in {"posting", "ending"} /\ n = Len(building[j])
  <2>1. building[j][n].kind = "committed"
    BY <1>1, <1>6
  <2>2. CASE Len(building[j]) = 1
    <3>1. n = 1
      BY <1>4, <2>2
    <3> QED
      BY <1>3, <2>1, <2>2, <3>1 DEF BatchAt
  <2>3. CASE Len(building[j]) = 3
    <3>1. n = 1 \/ n = 2 \/ n = 3
      BY <1>4, <2>3
    <3>2. pc[j] = "posting" /\ building[j][1].kind = "started" /\ building[j][2].kind = "message"
      BY <1>3, <2>3 DEF BatchAt
    <3> QED
      BY <2>1, <2>3, <3>1, <3>2
  <2> QED
    BY <1>3, <2>2, <2>3 DEF BatchAt
<1>8. Len(rest) = Len(building[j])
  BY <1>1, <1>3, <1>4, <1>7
<1>9. rest = building[j]
  BY <1>1, <1>3, <1>5, <1>7, <1>8, SeqEqual
<1> QED
  BY <1>6, <1>7, <1>9

(* Only a whole append commits.                                            *)
LEMMA CommitsWhole ==
  ASSUME ShapeInv, NEW j \in Jobs, EndAppend(j) \/ FailAppend(j),
         NEW e \in OfKind("committed")', e \notin OfKind("committed")
  PROVE  /\ EndAppend(j) /\ e.of = j /\ pc[j] \in {"posting", "ending"}
         /\ e = building[j][Len(building[j])]
<1>1. Typed /\ BatchInv /\ building[j] # << >> /\ building[j] \in Seq(Event)
  BY EndFacts, FailFacts DEF ShapeInv, Typed
<1>2. ~ FailAppend(j)
  <2> SUFFICES ASSUME FailAppend(j) PROVE FALSE
    OBVIOUS
  <2>1. file' # file
    BY DEF OfKind, Events
  <2>2. PICK rest \in Leftovers(building[j]), d \in {0, 1} :
          rest # building[j] /\ Glued(file, rest, d, file')
    BY <2>1, FailFacts
  <2>3. PartOf(rest, building[j])
    BY <1>1, LeftoverShape
  <2> QED
    BY <1>1, <2>2, <2>3, NewCommitted
<1>3. PICK d \in {0, 1} : Glued(file, building[j], d, file')
  BY <1>2, EndFacts
<1>4. PartOf(building[j], building[j])
  BY <1>1, WholePart
<1> QED
  BY <1>1, <1>2, <1>3, <1>4, NewCommitted

(* A posted commit leaves the seq of the agent behind.                     *)
LEMMA BehindAPost ==
  ASSUME NEW a \in Nat, NEW x \in Nat, NEW y \in Nat, NEW z \in Nat,
         x < y, y < z, a <= 1 \/ a <= x
  PROVE  z # a
OBVIOUS

LEMMA PostsKeepStale ==
  ASSUME ShapeInv, OrderInv, SeqInv, NEW j \in Jobs, EndAppend(j) \/ FailAppend(j),
         j \notin Turns, deletes = 0, Stale
  PROVE  Stale'
<1>1. agent'.seq = agent.seq
  <2>1. pc[j] # "ending"
    BY DEF ShapeInv, JobsInPlace
  <2> QED
    BY <2>1, EndMemory, FailMemory
<1>2. ASSUME NEW e \in OfKind("committed")', e \notin OfKind("committed") PROVE e.seq # agent.seq
  <2>1. e = building[j][Len(building[j])] /\ pc[j] = "posting" /\ building[j] # << >>
    <3>1. pc[j] # "ending" /\ building[j] # << >>
      BY EndFacts, FailFacts DEF ShapeInv, JobsInPlace
    <3> QED
      BY <1>2, <3>1, CommitsWhole
  <2>2. Len(building[j]) = 3 /\ building[j] \in Seq(Event)
    BY <2>1, BatchFacts DEF ShapeInv, BatchInv, BatchAt
  <2>3. \A i \in 1 .. 3 : Parses(building[j][i]) /\ building[j][i].seq \in Nat
    BY <2>1, <2>2, BatchFacts, LinesAreEvents DEF ShapeInv
  <2>4. /\ \A i \in 1 .. 3 : \A f \in Events : f.seq < building[j][i].seq
        /\ building[j][1].seq < building[j][2].seq /\ building[j][2].seq < building[j][3].seq
    <3>1. RisesOver(file, building[j])
      BY DEF OrderInv, FreshSeqs
    <3>2. 1 \in 1 .. 3 /\ 2 \in 1 .. 3 /\ 3 \in 1 .. 3 /\ 1 \in 1 .. 2 - 1 /\ 2 \in 1 .. 3 - 1
      OBVIOUS
    <3> QED
      BY <2>2, <2>3, <3>1, <3>2, EventsParsed DEF RisesOver
  <2>5. agent.seq \in Nat
    BY DEF ShapeInv, Typed
  <2>6. agent.seq <= 1 \/ agent.seq <= building[j][1].seq
    <3>1. CASE agent.seq <= 1
      BY <3>1
    <3>2. CASE \E f \in Events : agent.seq <= f.seq + 1
      <4>1. PICK f \in Events : agent.seq <= f.seq + 1
        BY <3>2
      <4>2. f.seq \in Nat
        <5>1. f \in ParsedIn(file) /\ file \in Seq(Event)
          BY EventsParsed DEF ShapeInv, Typed
        <5> QED
          BY <5>1, InParsed, LinesAreEvents
      <4>3. f.seq < building[j][1].seq /\ building[j][1].seq \in Nat
        BY <2>3, <2>4
      <4> QED
        BY <2>5, <4>1, <4>2, <4>3
    <3> QED
      BY <3>1, <3>2 DEF SeqInv, Near
  <2>7. /\ building[j][1].seq \in Nat /\ building[j][2].seq \in Nat /\ building[j][3].seq \in Nat
    BY <2>3
  <2>8. building[j][3].seq # agent.seq
    BY <2>4, <2>5, <2>6, <2>7, BehindAPost
  <2> QED
    BY <2>1, <2>2, <2>8
<1> QED
  BY <1>1, <1>2 DEF Stale

(* A turn that ends well is recorded, or leaves a stale agent behind.      *)
LEMMA CommitOrStale ==
  ASSUME ShapeInv, OrderInv, SeqInv, NEW j \in Turns, EndAppend(j), pc[j] = "ending",
         deletes = 0
  PROVE  Stale' \/ Recorded(j)'
<1>1. /\ j \in Jobs /\ building[j] # << >> /\ Len(building[j]) = 1
      /\ building[j][1].of = j /\ building[j][1].kind = "committed" /\ Parses(building[j][1])
  <2>1. j \in Jobs /\ building[j] # << >>
    BY EndFacts DEF Jobs
  <2>2. BatchAt(pc[j], j, building[j])
    BY <2>1 DEF ShapeInv, BatchInv
  <2>3. Len(building[j]) = 1 /\ building[j][1].kind = "committed" /\ building[j][1].of = j
    BY <2>2 DEF BatchAt
  <2> QED
    BY <2>1, <2>3 DEF Parses
<1>2. /\ agent'.seq = building[j][1].seq /\ building[j][1].seq # 0
      /\ building[j][1].seq \in Nat
  <2>1. agent'.seq = Last(building[j]).seq /\ building[j][1].seq # 0
    BY <1>1, EndMemory DEF SeqInv
  <2>2. building[j] \in Seq(Event) /\ 1 \in 1 .. Len(building[j])
    BY <1>1, EndFacts
  <2> QED
    BY <1>1, <2>1, <2>2, LinesAreEvents DEF Last
<1>3. CASE building[j][1] \in Events'
  BY <1>1, <1>3 DEF Recorded, OfKind
<1>4. CASE building[j][1] \notin Events'
  <2>1. ASSUME NEW e \in OfKind("committed")' PROVE e.seq # agent'.seq
    <3>1. e \in OfKind("committed")
      <4>1. e # building[j][Len(building[j])]
        BY <1>1, <1>4, <2>1 DEF OfKind
      <4> QED
        BY <1>1, <2>1, <4>1, CommitsWhole
    <3>2. e \in ParsedIn(file) /\ file \in Seq(Event)
      BY <3>1, EventsParsed DEF OfKind, ShapeInv, Typed
    <3>3. e.seq \in Nat
      BY <3>2, InParsed, LinesAreEvents
    <3>4. e.seq < building[j][1].seq
      BY <1>1, <3>2 DEF OrderInv, FreshSeqs, RisesOver
    <3> QED
      BY <1>2, <3>3, <3>4
  <2> QED
    BY <1>2, <2>1 DEF Stale
<1> QED
  BY <1>3, <1>4

(* An append, whole or not, leaves good what was known, and the agent of a *)
(* turn that ends well, or whose failure is not recorded, in the cache.    *)
LEMMA MemoryEnd ==
  ASSUME ShapeInv, OrderInv, SeqInv, MemoryInv, NEW j \in Jobs, EndAppend(j) \/ FailAppend(j)
  PROVE  MemoryInv'
<1>1. /\ Typed /\ JobsInPlace /\ BatchInv /\ QueueInv /\ Turns \subseteq Jobs
      /\ agent.knows \subseteq Jobs /\ \A r \in agent.knows : pc[r] \in Spoke
  BY DEF ShapeInv, Jobs, Typed, MemoryInv
<1>2. /\ pc[j] \in Appending /\ \A i \in Jobs : i # j => pc'[i] = pc[i]
      /\ deletes' = deletes /\ GoesOn(j, pc'[j])
      /\ EndAppend(j) => Follow(j, pc'[j])
      /\ FailAppend(j) => FailTo(j, pc'[j])
  BY EndFacts, FailFacts
<1>3. \A e \in Events : e \in Events'
  BY EventsAfter
<1>4. /\ agent'.knows = IF pc[j] = "talking" THEN agent.knows \cup {j} ELSE agent.knows
      /\ EndAppend(j) => (cached' => cached /\ pc[j] \notin {"failing", "catching"})
      /\ cached' => cached
  BY EndMemory, FailMemory
<1>5. ASSUME NEW e \in OfKind("committed")' PROVE pc'[e.of] \in Settled
  <2>1. CASE e \in OfKind("committed")
    <3>1. e.of \in Jobs /\ pc[e.of] \in Settled
      BY <1>1, <2>1, CommittedSettled
    <3>2. e.of # j
      BY <1>2, <3>1 DEF Settled, Appending
    <3> QED
      BY <1>2, <3>1, <3>2
  <2>2. CASE e \notin OfKind("committed")
    <3>1. EndAppend(j) /\ e.of = j /\ pc[j] \in {"posting", "ending"}
      BY <2>2, CommitsWhole
    <3>2. pc'[j] \in {"committed", "done"}
      BY <1>2, <3>1 DEF Follow
    <3> QED
      BY <3>1, <3>2 DEF Settled
  <2> QED
    BY <2>1, <2>2
<1>6. \A r \in agent.knows :
        r # j => /\ (Good(r) => Good(r)')
                 /\ ((GoodIfKept(r) /\ (deletes = 0 => (Stale => Stale'))) => GoodIfKept(r)')
  BY <1>1, <1>2, <1>3, GoodStays
<1>7. \A r \in agent'.knows : pc'[r] \in Spoke
  <2>1. \A r \in agent'.knows : r # j => r \in agent.knows /\ r \in Jobs
    BY <1>1, <1>4
  <2>2. j \in agent'.knows => pc[j] \in {"talking", "ending", "failing", "catching"}
    BY <1>1, <1>2, <1>4 DEF Spoke, Appending, Ends
  <2>3. j \in agent'.knows => pc'[j] \in Spoke
    BY <1>1, <1>2, <2>2 DEF Follow, FailTo, Spoke, Ends, JobsInPlace
  <2> QED
    BY <1>1, <1>2, <2>1, <2>3
<1>8. CASE j \notin Turns
  <2>1. pc[j] \in {"creating", "posting"}
    BY <1>1, <1>2, <1>8 DEF Follow, FailTo
  <2>2. j \notin agent.knows /\ agent'.knows = agent.knows
    BY <1>1, <1>4, <2>1 DEF Spoke, Ends
  <2>3. \A r \in agent.knows : (Good(r) => Good(r)') /\ (GoodIfKept(r) => GoodIfKept(r)')
    BY <1>6, <1>8, <2>2, PostsKeepStale
  <2>4. Running' = Running /\ \A t \in Turns : pc'[t] = pc[t]
    BY <1>1, <1>2, <1>8 DEF Running
  <2>5. \A t \in Turns : pc'[t] \in {"sequencing"} \cup Appending =>
          \A r \in agent'.knows \ {t} : Good(r)'
    BY <2>2, <2>3, <2>4 DEF MemoryInv
  <2>6. \A t \in Turns : pc'[t] = "comparing" => \A r \in agent'.knows : GoodIfKept(r)'
    BY <2>2, <2>3, <2>4 DEF MemoryInv
  <2>7. (cached' /\ Running' = {}) => \A r \in agent'.knows : GoodIfKept(r)'
    BY <1>4, <2>2, <2>3, <2>4 DEF MemoryInv
  <2> QED
    BY <1>5, <1>7, <2>5, <2>6, <2>7 DEF MemoryInv, Settled
<1>9. CASE j \in Turns
  <2>1. Head(queue) = j
    BY <1>1, <1>2, <1>9 DEF QueueInv, Running, Appending, Ends
  <2>2. \A s \in Turns : s # j => s \notin Running /\ s \notin Running'
    BY <1>1, <1>2, <1>9, <2>1, OneTurn
  <2>3. \A r \in agent'.knows \ {j} : Good(r)'
    <3>1. \A r \in agent.knows \ {j} : Good(r)
      BY <1>2, <1>9 DEF MemoryInv
    <3> QED
      BY <1>4, <1>6, <3>1
  <2>4. pc'[j] # "comparing"
    BY <1>2 DEF Follow, FailTo
  <2>5. ASSUME NEW s \in Turns, pc'[s] \in {"comparing", "sequencing"} \cup Appending
        PROVE  s = j
    BY <2>2, <2>5 DEF Running, Appending, Ends
  <2>6. ASSUME cached', Running' = {}, NEW r \in agent'.knows PROVE GoodIfKept(r)'
    <3>1. CASE r # j
      BY <2>3, <2>6, <3>1, GoodIsKept
    <3>2. CASE r = j
      <4>1. pc'[j] \in Ends
        <5>1. j \notin Running'
          BY <2>6
        <5> QED
          BY <1>2, <1>9, <5>1 DEF Running, Follow, FailTo, Ends
      <4>2. pc[j] \in {"talking", "ending", "failing", "catching"}
        BY <1>1, <1>2, <1>4, <2>6, <3>2 DEF Spoke, Appending, Ends
      <4>3. CASE EndAppend(j)
        <5>1. pc[j] = "ending" /\ pc'[j] = "committed"
          BY <1>2, <1>4, <1>9, <2>6, <4>1, <4>2, <4>3 DEF Follow, Ends
        <5>2. deletes = 0 => Stale' \/ Recorded(j)'
          BY <1>9, <4>3, <5>1, CommitOrStale
        <5> QED
          BY <1>2, <3>2, <5>1, <5>2 DEF GoodIfKept
      <4>4. CASE FailAppend(j)
        <5>1. pc'[j] = "unrecorded"
          BY <1>2, <1>9, <4>1, <4>2, <4>4 DEF FailTo, Ends
        <5> QED
          BY <3>2, <5>1 DEF GoodIfKept
      <4> QED
        BY <4>3, <4>4
    <3> QED
      BY <3>1, <3>2
  <2>7. \A s \in Turns : pc'[s] \in {"sequencing"} \cup Appending =>
          \A r \in agent'.knows \ {s} : Good(r)'
    BY <2>3, <2>5
  <2>8. \A s \in Turns : pc'[s] # "comparing"
    BY <2>4, <2>5
  <2> QED
    BY <1>5, <1>7, <2>6, <2>7, <2>8 DEF MemoryInv, Settled
<1> QED
  BY <1>8, <1>9

LEMMA MemoryRestart ==
  ASSUME ShapeInv, MemoryInv, Restart
  PROVE  MemoryInv'
<1>1. Typed /\ BatchInv /\ Turns \subseteq Jobs
  BY DEF ShapeInv, Jobs
<1>2. /\ agent'.knows = {} /\ ~ cached'
      /\ \A j \in Jobs : pc'[j] \in {pc[j], "lost"}
      /\ \A j \in Jobs : pc'[j] \in {"idle", "done", "lost"} \cup Ends
  BY RestartFacts
<1>3. \A j \in Jobs : pc[j] \in Settled => pc'[j] \in Settled
  BY <1>2 DEF Settled
<1>4. ASSUME NEW e \in OfKind("committed")' PROVE pc'[e.of] \in Settled
  <2>1. CASE file' = file
    <3>1. e \in OfKind("committed")
      BY <2>1 DEF OfKind, Events
    <3> QED
      BY <1>1, <1>3, <3>1, CommittedSettled
  <2>2. CASE file' # file
    <3>1. PICK j \in Jobs : /\ building[j] # << >>
            /\ \E rest \in Leftovers(building[j]) : \E d \in {0, 1} : Glued(file, rest, d, file')
      BY <2>2, RestartFacts
    <3>2. PICK rest \in Leftovers(building[j]), d \in {0, 1} : Glued(file, rest, d, file')
      BY <3>1
    <3>3. PartOf(rest, building[j])
      BY <1>1, LeftoverShape DEF Typed
    <3>4. CASE e \in OfKind("committed")
      BY <1>1, <1>3, <3>4, CommittedSettled
    <3>5. CASE e \notin OfKind("committed")
      <4>1. e.of = j /\ pc[j] \in {"posting", "ending"}
        BY <1>1, <3>1, <3>2, <3>3, <3>5, NewCommitted
      <4>2. pc'[j] = "lost"
        BY <1>2, <4>1 DEF Ends
      <4> QED
        BY <4>1, <4>2 DEF Settled
    <3> QED
      BY <3>4, <3>5
  <2> QED
    BY <2>1, <2>2
<1> QED
  BY <1>2, <1>4 DEF MemoryInv, Settled

LEMMA MemoryNext ==
  ASSUME ShapeInv, OrderInv, SeqInv, MemoryInv, [Next]_vars
  PROVE  MemoryInv'
<1>0. Typed /\ JobsInPlace /\ Turns \subseteq Jobs
  BY DEF ShapeInv, Jobs
<1>1. ASSUME NEW t \in Turns, Ask(t) PROVE MemoryInv'
  <2>1. /\ UNCHANGED <<file, agent, cached, deletes>> /\ pc[t] = "idle"
        /\ pc'[t] = "queued" /\ \A j \in Jobs : j # t => pc'[j] = pc[j]
    BY <1>0, <1>1 DEF Ask, Typed
  <2>2. Running' = Running
    BY <1>0, <2>1 DEF Running
  <2>3. \A j \in Jobs : pc[j] \in Spoke => pc'[j] = pc[j]
    BY <2>1 DEF Spoke, Ends
  <2>4. \A s \in Turns : /\ pc'[s] = "comparing" => pc[s] = "comparing"
                         /\ pc'[s] \in {"sequencing"} \cup Appending =>
                              pc[s] \in {"sequencing"} \cup Appending
    BY <1>0, <2>1 DEF Appending
  <2> QED
    BY <1>0, <2>1, <2>2, <2>3, <2>4, MemoryStays
<1>2. ASSUME NEW t \in Turns, TurnStep(t) PROVE MemoryInv'
  BY <1>2, MemoryTurn
<1>3. ASSUME NEW j \in Jobs, Call(j) PROVE MemoryInv'
  <2>1. /\ UNCHANGED <<file, agent, cached, deletes>> /\ pc[j] = "idle" /\ j \notin Turns
        /\ pc'[j] \in {"posting", "creating"} /\ \A i \in Jobs : i # j => pc'[i] = pc[i]
    BY <1>3, ShapeCall DEF Call
  <2>2. Running' = Running /\ \A s \in Turns : pc'[s] = pc[s]
    BY <1>0, <2>1 DEF Running
  <2>3. \A i \in Jobs : pc[i] \in Spoke => pc'[i] = pc[i]
    BY <2>1 DEF Spoke, Ends
  <2> QED
    BY <1>0, <2>1, <2>2, <2>3, MemoryStays
<1>4. ASSUME NEW j \in Jobs, SkipCreated(j) PROVE MemoryInv'
  <2>1. /\ UNCHANGED <<file, agent, cached, deletes>> /\ pc[j] = "creating"
        /\ pc'[j] = IF j \in Turns THEN "starting" ELSE "done"
        /\ \A i \in Jobs : i # j => pc'[i] = pc[i]
    BY <1>4, ShapeSkip DEF SkipCreated
  <2>2. Running' = Running
    BY <1>0, <2>1 DEF Running, Ends
  <2>3. \A i \in Jobs : pc[i] \in Spoke => pc'[i] = pc[i]
    BY <2>1 DEF Spoke, Ends
  <2>4. \A s \in Turns : /\ pc'[s] = "comparing" => pc[s] = "comparing"
                         /\ pc'[s] \in {"sequencing"} \cup Appending =>
                              pc[s] \in {"sequencing"} \cup Appending
    BY <1>0, <2>1 DEF Appending
  <2> QED
    BY <1>0, <2>1, <2>2, <2>3, <2>4, MemoryStays
<1>5. ASSUME UNCHANGED <<file, agent, deletes, pc>>, cached' => cached PROVE MemoryInv'
  <2>1. Running' = Running
    BY <1>5 DEF Running
  <2> QED
    BY <1>0, <1>5, <2>1, MemoryStays
<1>6. ASSUME NEW j \in Jobs, BeginAppend(j) PROVE MemoryInv'
  BY <1>5, <1>6 DEF BeginAppend
<1>7. ASSUME NEW j \in Jobs, EndAppend(j) \/ FailAppend(j) PROVE MemoryInv'
  BY <1>7, MemoryEnd
<1>8. CASE Evict
  BY <1>5, <1>8 DEF Evict
<1>9. CASE DeleteSession
  <2>1. /\ file' = << >> /\ deletes' # 0 /\ UNCHANGED <<pc, agent, cached>>
    BY <1>0, <1>9 DEF DeleteSession, Typed
  <2>2. Events' = {} /\ OfKind("committed")' = {}
    BY <2>1 DEF Events, ToSet, OfKind
  <2>3. \A r : (Good(r) => Good(r)') /\ (GoodIfKept(r) => GoodIfKept(r)')
    BY <2>1 DEF Good, GoodIfKept
  <2>4. Running' = Running
    BY <2>1 DEF Running
  <2> QED
    BY <2>1, <2>2, <2>3, <2>4 DEF MemoryInv
<1>10. CASE Restart
  BY <1>10, MemoryRestart
<1>11. CASE UNCHANGED vars
  BY <1>5, <1>11 DEF vars
<1> QED
  BY <1>1, <1>2, <1>3, <1>4, <1>6, <1>7, <1>8, <1>9, <1>10, <1>11 DEF Next, AppendStep

(* NoFailedMemory: a turn never builds on a request that failed or was     *)
(* lost, neither from the cached agent nor from a restored one, unless the *)
(* failure itself could not be appended, whatever other append failed, and *)
(* tore or spoilt a line, before.                                          *)
THEOREM Memory == Spec => []NoFailedMemory
<1>1. Init => IInv
  BY ShapeInit, OrderInit, WholeInit, SeqInit, MemoryInit DEF IInv
<1>2. IInv /\ [Next]_vars => IInv'
  BY ShapeNext, OrderNext, WholeNext, SeqNext, MemoryNext DEF IInv
<1>3. IInv => NoFailedMemory
  <2> SUFFICES ASSUME MemoryInv, NEW t \in Running, pc[t] \in Appending,
                      NEW r \in agent.knows \ {t}
               PROVE  /\ pc[r] # "failed"
                      /\ deletes = 0 => \/ pc[r] = "unrecorded"
                                        \/ \E e \in OfKind("committed") : e.of = r
    BY DEF IInv, NoFailedMemory
  <2>1. t \in Turns
    BY DEF Running
  <2> QED
    BY <2>1 DEF MemoryInv, Good, Recorded
<1> QED
  BY <1>1, <1>2, <1>3, PTL DEF Spec
=============================================================================
