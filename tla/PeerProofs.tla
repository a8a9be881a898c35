----------------------------- MODULE PeerProofs -----------------------------
(***************************************************************************)
(* What is proved about direct messages, for any participants, any series  *)
(* of registries and every bound.                                          *)
(***************************************************************************)
EXTENDS PeerProperties, FiniteSetTheorems, SequenceTheorems, TLAPS

(***************************************************************************)
(* The inductive invariant.                                                *)
(***************************************************************************)
History == {events[i] : i \in DOMAIN events}

Evidence(r) == {Entry("message_acked", r[1], r[2]), Entry("message_polled", r[1], r[2])}

\* What is sent or acknowledged is logged a single time.
LoggedOnce ==
    \A i, j \in DOMAIN events :
        events[i] = events[j] /\ events[i].kind \in {"message_sent", "message_acked"} => i = j

\* The receipts can be read off the log.
LogTells ==
    /\ \A e \in History : e.message \in Ids
    /\ \A m \in Ids : Entry("message_sent", m, messages[m].from) \in History
    /\ \A m \in Ids, p \in Participants :
          /\ <<m, p>> \in acked <=> Entry("message_acked", m, p) \in History
          /\ <<m, p>> \in delivered <=> Evidence(<<m, p>>) \cap History # {}

\* The SELECTs of a transcript come in their order, and give it these rows.
ReadSoFar == {<<>>, <<"messages">>, <<"messages", "receipts">>,
              <<"messages", "receipts", "events">>}

ReadsInOrder ==
    transcript \in [reads     : ReadSoFar,
                    shown     : SUBSET Nat,
                    delivered : SUBSET (Nat \X Participants),
                    acked     : SUBSET (Nat \X Participants),
                    log       : SUBSET Event]

\* The receipts of a transcript are about its messages, and their evidence is
\* in the log when they are read.
ReceiptsWitnessed ==
    transcript.reads \notin {<<>>, <<"messages">>} =>
        /\ transcript.acked \subseteq transcript.shown \X Participants
        /\ transcript.delivered \subseteq transcript.shown \X Participants
        /\ \A r \in transcript.acked : Entry("message_acked", r[1], r[2]) \in History
        /\ \A r \in transcript.delivered : Evidence(r) \cap History # {}

IInv == /\ TypeOK /\ LoggedOnce /\ LogTells /\ ReadsInOrder /\ ReceiptsWitnessed
        /\ GovernedStayOut /\ TranscriptIsWitnessed

------------------------------------------------------------------------------
(* The batch of a poll. *)

\* The elements of a finite set of numbers are ranked without gaps.
LEMMA Ranked ==
    ASSUME NEW S \in SUBSET Nat, IsFiniteSet(S)
    PROVE  /\ \A x, y \in S :
                 x < y => Cardinality({n \in S : n < x}) < Cardinality({n \in S : n < y})
           /\ \A i \in 1..Cardinality(S) :
                 \E x \in S : Cardinality({n \in S : n < x}) = i - 1
<1> DEFINE below(x) == {n \in S : n < x}
           rank == [x \in S |-> Cardinality(below(x))]
<1>1. Cardinality(S) \in Nat
  BY FS_CardinalityType
<1>2. ASSUME NEW x \in S
      PROVE  /\ IsFiniteSet(below(x))
             /\ Cardinality(below(x)) \in 0..(Cardinality(S) - 1)
  <2>1. below(x) \in SUBSET (S \ {x})
    OBVIOUS
  <2>2. IsFiniteSet(S \ {x}) /\ Cardinality(S \ {x}) = Cardinality(S) - 1
    BY FS_RemoveElement
  <2>3. IsFiniteSet(below(x)) /\ Cardinality(below(x)) <= Cardinality(S \ {x})
    BY <2>1, <2>2, FS_Subset
  <2>4. Cardinality(below(x)) \in Nat
    BY <2>3, FS_CardinalityType
  <2> QED
    BY <1>1, <2>2, <2>3, <2>4
<1>3. ASSUME NEW x \in S, NEW y \in S, x < y
      PROVE  Cardinality(below(x)) < Cardinality(below(y))
  <2>1. below(x) \cup {x} \in SUBSET below(y)
    <3>1. \A n \in S : n < x => n < y
      BY <1>3
    <3> QED
      BY <1>3, <3>1
  <2>2. x \notin below(x)
    OBVIOUS
  <2>3. Cardinality(below(x) \cup {x}) = Cardinality(below(x)) + 1
    BY <1>2, <2>2, FS_AddElement
  <2>4. Cardinality(below(x) \cup {x}) <= Cardinality(below(y))
    BY <1>2, <2>1, FS_Subset
  <2> HIDE DEF below
  <2> QED
    BY <1>1, <1>2, <2>3, <2>4
<1>4. rank \in Injection(S, 0..(Cardinality(S) - 1))
  <2>1. rank \in [S -> 0..(Cardinality(S) - 1)]
    BY <1>2
  <2>2. \A x, y \in S : rank[x] = rank[y] => x = y
    <3> HIDE DEF below
    <3> SUFFICES ASSUME NEW x \in S, NEW y \in S, x # y, rank[x] = rank[y]
                 PROVE  FALSE
      OBVIOUS
    <3>1. x < y \/ y < x
      OBVIOUS
    <3> QED
      BY <1>1, <1>2, <1>3, <3>1
  <2> QED
    BY <2>1, <2>2 DEF Injection, IsInjective
<1>5. /\ IsFiniteSet(0..(Cardinality(S) - 1))
      /\ Cardinality(0..(Cardinality(S) - 1)) = Cardinality(S)
  <2> DEFINE c == Cardinality(S)
  <2>1. 0 \in Int /\ c - 1 \in Int /\ c = (IF 0 > c - 1 THEN 0 ELSE c - 1 - 0 + 1)
    BY <1>1
  <2> HIDE DEF c
  <2>2. IsFiniteSet(0..(c - 1)) /\ Cardinality(0..(c - 1)) = c
    BY <2>1, FS_Interval
  <2> QED
    BY <2>2 DEF c
<1>6. rank \in Surjection(S, 0..(Cardinality(S) - 1))
  BY <1>4, <1>5, FS_Injection
<1>7. ASSUME NEW i \in 1..Cardinality(S)
      PROVE  \E x \in S : Cardinality(below(x)) = i - 1
  <2>1. i - 1 \in 0..(Cardinality(S) - 1)
    BY <1>1
  <2>2. PICK x \in S : rank[x] = i - 1
    BY <1>6, <2>1 DEF Surjection
  <2> QED
    BY <2>2
<1> QED
  BY <1>3, <1>7

Oldest(p) == {m \in Unacked(p) : Cardinality({n \in Unacked(p) : n < m}) < PollLimit}

LEMMA UnackedFinite ==
    ASSUME messages \in Seq(Message), NEW p, NEW S \in SUBSET Unacked(p)
    PROVE  S \subseteq Ids /\ S \in SUBSET Nat /\ IsFiniteSet(S)
<1>1. Ids = 1..Len(messages)
  BY DEF Ids
<1>2. IsFiniteSet(Ids)
  BY <1>1, FS_Interval
<1>3. S \in SUBSET Ids
  BY DEF Unacked
<1>4. IsFiniteSet(S)
  BY <1>2, <1>3, FS_Subset
<1>5. Ids \in SUBSET Nat
  BY <1>1
<1> QED
  BY <1>3, <1>4, <1>5

\* A poll gives the oldest messages, each in its turn.
LEMMA BatchIsOldest ==
    ASSUME messages \in Seq(Message), NEW p
    PROVE  /\ Cardinality(Oldest(p)) \in Nat
           /\ Batch(p) \in [1..Cardinality(Oldest(p)) -> Oldest(p)]
           /\ \A i, j \in 1..Cardinality(Oldest(p)) : i < j => Batch(p)[i] < Batch(p)[j]
<1> DEFINE O == Oldest(p)
           below(m) == {n \in O : n < m}
<1>1. O \in SUBSET Nat /\ IsFiniteSet(O)
  BY UnackedFinite DEF Oldest
<1>2. Cardinality(O) \in Nat
  BY <1>1, FS_CardinalityType
<1>3. Batch(p) = [i \in 1..Cardinality(O) |-> CHOOSE m \in O : Cardinality(below(m)) = i - 1]
  BY DEF Batch, Oldest
<1> HIDE DEF O
<1>4. /\ \A x, y \in O : x < y => Cardinality(below(x)) < Cardinality(below(y))
      /\ \A i \in 1..Cardinality(O) : \E m \in O : Cardinality(below(m)) = i - 1
  BY <1>1, Ranked
<1>5. \A m \in O : Cardinality(below(m)) \in Nat
  <2> SUFFICES ASSUME NEW m \in O PROVE Cardinality(below(m)) \in Nat
    OBVIOUS
  <2>1. below(m) \in SUBSET O
    OBVIOUS
  <2> QED
    BY <1>1, <2>1, FS_Subset, FS_CardinalityType
<1> HIDE DEF below
<1>6. \A i \in 1..Cardinality(O) : Batch(p)[i] \in O /\ Cardinality(below(Batch(p)[i])) = i - 1
  BY <1>3, <1>4
<1>7. \A i, j \in 1..Cardinality(O) : i < j => Batch(p)[i] < Batch(p)[j]
  <2> SUFFICES ASSUME NEW i \in 1..Cardinality(O), NEW j \in 1..Cardinality(O), i < j
               PROVE  Batch(p)[i] < Batch(p)[j]
    OBVIOUS
  <2> DEFINE a == Batch(p)[i]
             b == Batch(p)[j]
  <2>1. /\ a \in O /\ Cardinality(below(a)) = i - 1
        /\ b \in O /\ Cardinality(below(b)) = j - 1
    BY <1>6
  <2> HIDE DEF a, b
  <2>2. ~ (b < a)
    BY <1>2, <1>4, <1>5, <2>1
  <2>3. a # b
    BY <1>2, <2>1
  <2>4. a < b
    BY <1>1, <2>1, <2>2, <2>3
  <2> QED
    BY <2>4 DEF a, b
<1> QED
  BY <1>2, <1>3, <1>6, <1>7 DEF O
------------------------------------------------------------------------------
(* What the writes do to the tables and the log. *)

LEMMA LogAppended ==
    ASSUME events \in Seq(Event), NEW e \in Event, events' = Append(events, e),
           LoggedOnce, e \notin History \/ e.kind \notin {"message_sent", "message_acked"}
    PROVE  events' \in Seq(Event) /\ History' = History \cup {e} /\ LoggedOnce'
<1>1. events' \in Seq(Event) /\ DOMAIN events' = DOMAIN events \cup {Len(events) + 1}
  OBVIOUS
<1>2. /\ \A i \in DOMAIN events : events'[i] = events[i] /\ events[i] \in History
      /\ events'[Len(events) + 1] = e
  BY DEF History
<1>3. History' = History \cup {e}
  BY <1>1, <1>2 DEF History
<1>4. LoggedOnce'
  BY <1>1, <1>2 DEF LoggedOnce
<1> QED
  BY <1>1, <1>3, <1>4

LEMMA LogExtended ==
    ASSUME events \in Seq(Event), NEW b \in Seq(Event), events' = events \o b,
           LoggedOnce, \A i \in DOMAIN b : b[i].kind = "message_polled"
    PROVE  /\ events' \in Seq(Event)
           /\ History' = History \cup {b[i] : i \in DOMAIN b}
           /\ LoggedOnce'
<1>1. /\ events' \in Seq(Event)
      /\ Len(events') = Len(events) + Len(b)
      /\ \A i \in DOMAIN events : events'[i] = events[i]
      /\ \A i \in DOMAIN b : events'[Len(events) + i] = b[i]
  OBVIOUS
<1>2. \A i \in DOMAIN events' :
          \/ i \in DOMAIN events
          \/ \E j \in DOMAIN b : i = Len(events) + j
  <2> SUFFICES ASSUME NEW i \in DOMAIN events', i \notin DOMAIN events
               PROVE  \E j \in DOMAIN b : i = Len(events) + j
    OBVIOUS
  <2>1. i - Len(events) \in DOMAIN b /\ i = Len(events) + (i - Len(events))
    BY <1>1
  <2> QED
    BY <2>1
<1>3. DOMAIN events \subseteq DOMAIN events'
  BY <1>1
<1>4. \A j \in DOMAIN b : Len(events) + j \in DOMAIN events'
  BY <1>1
<1>5. History' = History \cup {b[i] : i \in DOMAIN b}
  BY <1>1, <1>2, <1>3, <1>4 DEF History
<1>6. LoggedOnce'
  <2>1. \A i \in DOMAIN events' :
            events'[i].kind \in {"message_sent", "message_acked"} =>
                i \in DOMAIN events /\ events'[i] = events[i]
    BY <1>1, <1>2
  <2> QED
    BY <2>1 DEF LoggedOnce
<1> QED
  BY <1>1, <1>5, <1>6

\* The transcript being put together is not disturbed by what is logged later.
LEMMA WitnessesStay ==
    ASSUME ReadsInOrder, ReceiptsWitnessed, TranscriptIsWitnessed,
           History \subseteq History', UNCHANGED transcript
    PROVE  ReadsInOrder' /\ ReceiptsWitnessed' /\ TranscriptIsWitnessed'
<1>1. ReadsInOrder'
  BY DEF ReadsInOrder
<1>2. ReceiptsWitnessed'
  BY DEF ReceiptsWitnessed, Evidence, Entry
<1>3. TranscriptIsWitnessed'
  BY DEF TranscriptIsWitnessed, Entry
<1> QED
  BY <1>1, <1>2, <1>3

LEMMA EntryType ==
    ASSUME messages \in Seq(Message), NEW kind \in EventKinds, NEW m \in Ids,
           NEW p \in Participants
    PROVE  Entry(kind, m, p) \in Event
BY DEF Entry, Event, Ids

LEMMA ReceiptType ==
    ASSUME NEW m \in Ids, NEW p \in Participants, p \in messages[m].to
    PROVE  <<m, p>> \in Receipts
BY DEF Receipts

LEMMA ReceiptParts ==
    ASSUME NEW m, NEW p, <<m, p>> \in Receipts
    PROVE  m \in Ids /\ p \in Participants /\ p \in messages[m].to
BY DEF Receipts

\* A step that sends nothing leaves the threads and their readers alone.
LEMMA LaneStays ==
    ASSUME GovernedStayOut, UNCHANGED <<messages, process>>,
           \A p \in Participants : \A m \in known'[p] :
               m \in known[p] \/ TakesPart(p, messages[m].thread)
    PROVE  GovernedStayOut'
<1>1. UNCHANGED <<Ids, Direct>>
  BY DEF Ids, Direct, registry, process
<1>2. \A p \in Participants : p \notin Direct' =>
          \A m \in Ids' : m > since'[p] => p # messages'[m].from /\ p \notin messages'[m].to
  BY <1>1 DEF GovernedStayOut, process
<1>3. ASSUME NEW p \in Participants, NEW m \in known'[p]
      PROVE  TakesPart(p, messages[m].thread)'
  <2>1. TakesPart(p, messages[m].thread)
    BY DEF GovernedStayOut
  <2> QED
    BY <2>1 DEF TakesPart, InThread, Ids
<1> QED
  BY <1>2, <1>3 DEF GovernedStayOut
------------------------------------------------------------------------------
(* Each action keeps the invariant. *)

LEMMA SendKeeps ==
    ASSUME IInv, NEW p \in Participants, NEW t \in {0} \cup Threads,
           NEW to \in SUBSET Participants \ {{}}, Send(p, t, to)
    PROVE  IInv'
<1> DEFINE n == Len(messages) + 1
           sent == [thread |-> ThreadOf(t), from |-> p, to |-> to]
           e == Entry("message_sent", n, p)
<1>0. messages \in Seq(Message) /\ Len(messages) \in Nat /\ events \in Seq(Event)
  BY DEF IInv, TypeOK
<1>1. /\ messages' = Append(messages, sent)
      /\ events' = Append(events, e)
      /\ UNCHANGED <<delivered, acked, known, transcript, edition, since>>
      /\ p \in Direct /\ p \notin to /\ to \subseteq Direct
  BY DEF Send, SendMessage, MaySend, process
<1>2. ThreadOf(t) \in 1..n
  BY <1>0 DEF ThreadOf, Threads, Ids
<1>3. sent \in Message
  BY <1>2 DEF Message
<1> HIDE DEF sent
<1>4. /\ messages' \in Seq(Message)
      /\ Len(messages') = n
      /\ Ids' = Ids \cup {n}
      /\ Ids = 1..Len(messages)
      /\ n \notin Ids
      /\ \A m \in Ids : messages'[m] = messages[m]
      /\ messages'[n] = sent
  BY <1>0, <1>1, <1>3 DEF Ids
<1>5. Receipts \subseteq Receipts'
  BY <1>4 DEF Receipts
<1>6. e \notin History
  BY <1>4 DEF IInv, LogTells, Entry
<1>7. e \in Event
  BY <1>0 DEF Entry, Event, EventKinds
<1>8. events' \in Seq(Event) /\ History' = History \cup {e} /\ LoggedOnce'
  BY <1>0, <1>1, <1>6, <1>7, LogAppended DEF IInv
<1>9. TypeOK'
  <2>1. \A m \in Ids' : messages'[m].thread \in 1..m
    <3>1. \A m \in Ids : messages'[m].thread \in 1..m
      BY <1>4 DEF IInv, TypeOK
    <3>2. messages'[n].thread \in 1..n
      BY <1>2, <1>4 DEF sent
    <3> QED
      BY <1>4, <3>1, <3>2
  <2>2. delivered' \subseteq Receipts' /\ acked' \subseteq delivered'
    BY <1>1, <1>5 DEF IInv, TypeOK
  <2>3. known' \in [Participants -> SUBSET Ids'] /\ transcript'.shown \subseteq Ids'
    BY <1>1, <1>4 DEF IInv, TypeOK
  <2>4. since' \in [Participants -> 0..Len(messages')]
    BY <1>0, <1>1, <1>4 DEF IInv, TypeOK
  <2>5. /\ transcript'.reads = SubSeq(ReadOrder, 1, Len(transcript'.reads))
        /\ edition' \in DOMAIN Editions
    BY <1>1 DEF IInv, TypeOK
  <2> QED
    BY <1>4, <1>8, <2>1, <2>2, <2>3, <2>4, <2>5 DEF TypeOK
<1>10. LogTells'
  <2>1. \A x \in History' : x.message \in Ids'
    BY <1>4, <1>8 DEF IInv, LogTells, Entry
  <2>2. \A m \in Ids' : Entry("message_sent", m, messages'[m].from) \in History'
    BY <1>4, <1>8 DEF IInv, LogTells, sent
  <2>3. \A m \in Ids', q \in Participants :
            /\ Entry("message_acked", m, q) # e
            /\ Entry("message_polled", m, q) # e
    BY DEF Entry
  <2>4. \A q \in Participants :
            /\ <<n, q>> \notin delivered /\ <<n, q>> \notin acked
            /\ Entry("message_acked", n, q) \notin History
            /\ Entry("message_polled", n, q) \notin History
    BY <1>4 DEF IInv, LogTells, TypeOK, Receipts, Entry
  <2>5. ASSUME NEW m \in Ids', NEW q \in Participants
        PROVE  /\ <<m, q>> \in acked' <=> Entry("message_acked", m, q) \in History'
               /\ <<m, q>> \in delivered' <=> Evidence(<<m, q>>) \cap History' # {}
    <3>1. ASSUME m \in Ids
          PROVE  /\ <<m, q>> \in acked <=> Entry("message_acked", m, q) \in History
                 /\ <<m, q>> \in delivered <=> Evidence(<<m, q>>) \cap History # {}
      BY <3>1 DEF IInv, LogTells
    <3>2. ASSUME m = n
          PROVE  /\ <<m, q>> \in acked <=> Entry("message_acked", m, q) \in History
                 /\ <<m, q>> \in delivered <=> Evidence(<<m, q>>) \cap History # {}
      BY <2>4, <3>2 DEF Evidence
    <3>3. /\ Entry("message_acked", m, q) \in History' <=> Entry("message_acked", m, q) \in History
          /\ Evidence(<<m, q>>) \cap History' = Evidence(<<m, q>>) \cap History
      BY <1>8, <2>3 DEF Evidence
    <3> QED
      BY <1>1, <1>4, <3>1, <3>2, <3>3
  <2> QED
    BY <2>1, <2>2, <2>5 DEF LogTells, Evidence, Entry
<1>11. GovernedStayOut'
  <2>1. Direct' = Direct
    BY <1>1 DEF Direct, registry
  <2>2. ASSUME NEW q \in Participants, q \notin Direct, NEW m \in Ids', m > since[q]
        PROVE  q # messages'[m].from /\ q \notin messages'[m].to
    <3>1. CASE m \in Ids
      BY <1>4, <2>2, <3>1 DEF IInv, GovernedStayOut
    <3>2. CASE m = n
      BY <1>1, <1>4, <2>2, <3>2 DEF sent
    <3> QED
      BY <1>4, <3>1, <3>2
  <2>3. ASSUME NEW q \in Participants, NEW m \in known'[q]
        PROVE  TakesPart(q, messages[m].thread)'
    <3>1. TakesPart(q, messages[m].thread) /\ m \in Ids
      BY <1>1 DEF IInv, GovernedStayOut, TypeOK
    <3>2. PICK k \in InThread(messages[m].thread) : q = messages[k].from \/ q \in messages[k].to
      BY <3>1 DEF TakesPart
    <3>3. k \in Ids /\ messages'[k] = messages[k] /\ messages'[m] = messages[m]
      BY <1>4, <3>1, <3>2 DEF InThread
    <3>4. k \in Ids' /\ messages'[k].thread = messages'[m].thread
      BY <1>4, <3>2, <3>3 DEF InThread
    <3> QED
      BY <3>2, <3>3, <3>4 DEF TakesPart, InThread
  <2> QED
    BY <1>1, <2>1, <2>2, <2>3 DEF GovernedStayOut
<1> QED
  BY <1>1, <1>8, <1>9, <1>10, <1>11, WitnessesStay DEF IInv

\* What a batch stands for.
LEMMA BatchMarks ==
    ASSUME IInv, NEW p \in Participants, PollBatch(p)
    PROVE  /\ InBatch(p) \subseteq Unacked(p)
           /\ InBatch(p) \subseteq Ids
           /\ events' \in Seq(Event) /\ LoggedOnce'
           /\ History' = History \cup {Entry("message_polled", m, p) : m \in InBatch(p)}
<1> DEFINE b == [i \in DOMAIN Batch(p) |-> Entry("message_polled", Batch(p)[i], p)]
<1>1. messages \in Seq(Message) /\ events \in Seq(Event) /\ LoggedOnce
  BY DEF IInv, TypeOK
<1>2. /\ Cardinality(Oldest(p)) \in Nat
      /\ Batch(p) \in [1..Cardinality(Oldest(p)) -> Oldest(p)]
  BY <1>1, BatchIsOldest
<1>3. Oldest(p) \subseteq Unacked(p) /\ Unacked(p) \subseteq Ids
  BY DEF Oldest, Unacked
<1>4. InBatch(p) \subseteq Unacked(p) /\ InBatch(p) \subseteq Ids
  BY <1>2, <1>3 DEF InBatch
<1>5. DOMAIN Batch(p) = 1..Cardinality(Oldest(p))
  BY <1>2
<1>6. \A i \in DOMAIN Batch(p) : Batch(p)[i] \in Ids
  BY <1>2, <1>3
<1>7. \A i \in DOMAIN Batch(p) : Entry("message_polled", Batch(p)[i], p) \in Event
  BY <1>1, <1>6, EntryType DEF EventKinds
<1>8. b \in Seq(Event)
  BY <1>2, <1>5, <1>7
<1>9. DOMAIN b = DOMAIN Batch(p) /\ \A i \in DOMAIN b : b[i].kind = "message_polled"
  BY DEF Entry
<1>10. events' = events \o b
  BY DEF PollBatch
<1>11. {b[i] : i \in DOMAIN b} = {Entry("message_polled", m, p) : m \in InBatch(p)}
  BY DEF InBatch
<1> HIDE DEF b
<1> QED
  BY <1>1, <1>4, <1>8, <1>9, <1>10, <1>11, LogExtended

LEMMA PollKeeps ==
    ASSUME IInv, NEW p \in Participants, PollBatch(p),
           known' = known \/ known' = [known EXCEPT ![p] = @ \cup InBatch(p)]
    PROVE  IInv'
<1>1. /\ InBatch(p) \subseteq Unacked(p)
      /\ InBatch(p) \subseteq Ids
      /\ events' \in Seq(Event) /\ LoggedOnce'
      /\ History' = History \cup {Entry("message_polled", m, p) : m \in InBatch(p)}
  BY BatchMarks
<1>2. /\ delivered' = delivered \cup (InBatch(p) \X {p})
      /\ UNCHANGED <<messages, acked, transcript, edition, since>>
  BY DEF PollBatch, process
<1>3. \A m \in InBatch(p) : <<m, p>> \in Receipts
  BY <1>1 DEF Unacked
<1>4. UNCHANGED <<Ids, Receipts>>
  BY <1>2 DEF Ids, Receipts
<1>5. TypeOK'
  <2>1. delivered' \subseteq Receipts' /\ acked' \subseteq delivered'
    BY <1>2, <1>3, <1>4 DEF IInv, TypeOK
  <2>2. known' \in [Participants -> SUBSET Ids']
    BY <1>1, <1>4 DEF IInv, TypeOK
  <2> QED
    BY <1>1, <1>2, <1>4, <2>1, <2>2 DEF IInv, TypeOK
<1>6. LogTells'
  <2>1. \A x \in History' : x.message \in Ids'
    BY <1>1, <1>4 DEF IInv, LogTells, Entry
  <2>2. \A m \in Ids' : Entry("message_sent", m, messages'[m].from) \in History'
    BY <1>1, <1>2, <1>4 DEF IInv, LogTells
  <2>3. ASSUME NEW m \in Ids', NEW q \in Participants
        PROVE  /\ <<m, q>> \in acked' <=> Entry("message_acked", m, q) \in History'
               /\ <<m, q>> \in delivered' <=> Evidence(<<m, q>>) \cap History' # {}
    <3>1. /\ <<m, q>> \in acked <=> Entry("message_acked", m, q) \in History
          /\ <<m, q>> \in delivered <=> Evidence(<<m, q>>) \cap History # {}
      BY <1>4 DEF IInv, LogTells
    <3>2. Entry("message_acked", m, q) \in History' <=> Entry("message_acked", m, q) \in History
      BY <1>1 DEF Entry
    <3>3. Entry("message_polled", m, q) \in History'
              <=> \/ Entry("message_polled", m, q) \in History
                  \/ m \in InBatch(p) /\ q = p
      BY <1>1 DEF Entry
    <3>4. <<m, q>> \in delivered' <=> <<m, q>> \in delivered \/ (m \in InBatch(p) /\ q = p)
      BY <1>2
    <3> QED
      BY <1>2, <3>1, <3>2, <3>3, <3>4 DEF Evidence
  <2> QED
    BY <2>1, <2>2, <2>3 DEF LogTells, Evidence, Entry
<1>7. GovernedStayOut'
  <2>1. ASSUME NEW q \in Participants, NEW m \in known'[q]
        PROVE  m \in known[q] \/ TakesPart(q, messages[m].thread)
    <3>1. m \in known[q] \/ (m \in InBatch(p) /\ q = p)
      BY DEF IInv, TypeOK
    <3>2. ASSUME m \in InBatch(p), q = p
          PROVE  TakesPart(q, messages[m].thread)
      <4>1. m \in Ids /\ p \in messages[m].to
        BY <1>3, <3>2, ReceiptParts
      <4> QED
        BY <3>2, <4>1 DEF TakesPart, InThread
    <3> QED
      BY <3>1, <3>2
  <2> QED
    BY <1>2, <2>1, LaneStays DEF IInv, process
<1> QED
  BY <1>1, <1>2, <1>5, <1>6, <1>7, WitnessesStay DEF IInv
LEMMA AckKeeps ==
    ASSUME IInv, NEW p \in Participants, NEW m \in Ids, Ack(p, m)
    PROVE  IInv'
<1> DEFINE e == Entry("message_acked", m, p)
<1>1. /\ <<m, p>> \in Receipts
      /\ <<m, p>> \notin acked
      /\ acked' = acked \cup {<<m, p>>}
      /\ delivered' = delivered \cup {<<m, p>>}
      /\ events' = Append(events, e)
      /\ UNCHANGED <<messages, known, transcript, edition, since>>
  BY DEF Ack, MarkAcked, process
<1>2. messages \in Seq(Message) /\ events \in Seq(Event) /\ LoggedOnce
  BY DEF IInv, TypeOK
<1>3. e \in Event
  BY <1>2, EntryType DEF EventKinds
<1>4. e \notin History
  BY <1>1 DEF IInv, LogTells
<1>5. events' \in Seq(Event) /\ History' = History \cup {e} /\ LoggedOnce'
  BY <1>1, <1>2, <1>3, <1>4, LogAppended
<1>6. UNCHANGED <<Ids, Receipts>>
  BY <1>1 DEF Ids, Receipts
<1>7. TypeOK'
  <2>1. delivered' \subseteq Receipts' /\ acked' \subseteq delivered'
    BY <1>1, <1>6 DEF IInv, TypeOK
  <2> QED
    BY <1>1, <1>5, <1>6, <2>1 DEF IInv, TypeOK
<1>8. LogTells'
  <2>1. \A x \in History' : x.message \in Ids'
    BY <1>5, <1>6 DEF IInv, LogTells, Entry
  <2>2. \A k \in Ids' : Entry("message_sent", k, messages'[k].from) \in History'
    BY <1>1, <1>5, <1>6 DEF IInv, LogTells
  <2>3. ASSUME NEW k \in Ids', NEW q \in Participants
        PROVE  /\ <<k, q>> \in acked' <=> Entry("message_acked", k, q) \in History'
               /\ <<k, q>> \in delivered' <=> Evidence(<<k, q>>) \cap History' # {}
    <3>1. /\ <<k, q>> \in acked <=> Entry("message_acked", k, q) \in History
          /\ <<k, q>> \in delivered <=> Evidence(<<k, q>>) \cap History # {}
      BY <1>6 DEF IInv, LogTells
    <3>2. Entry("message_polled", k, q) \in History' <=> Entry("message_polled", k, q) \in History
      BY <1>5 DEF Entry
    <3>3. Entry("message_acked", k, q) \in History'
              <=> Entry("message_acked", k, q) \in History \/ (k = m /\ q = p)
      BY <1>5 DEF Entry
    <3>4. /\ <<k, q>> \in acked' <=> <<k, q>> \in acked \/ (k = m /\ q = p)
          /\ <<k, q>> \in delivered' <=> <<k, q>> \in delivered \/ (k = m /\ q = p)
      BY <1>1
    <3> QED
      BY <3>1, <3>2, <3>3, <3>4 DEF Evidence
  <2> QED
    BY <2>1, <2>2, <2>3 DEF LogTells, Evidence, Entry
<1>9. GovernedStayOut'
  BY <1>1, LaneStays DEF IInv, process
<1> QED
  BY <1>1, <1>5, <1>7, <1>8, <1>9, WitnessesStay DEF IInv

\* Steps that write neither receipts nor events.
LEMMA LogStays ==
    ASSUME IInv, UNCHANGED <<messages, delivered, acked, events>>
    PROVE  /\ UNCHANGED <<Ids, Receipts, History>>
           /\ LoggedOnce' /\ LogTells'
<1>1. UNCHANGED <<Ids, Receipts, History>>
  BY DEF Ids, Receipts, History
<1>2. LoggedOnce'
  BY DEF IInv, LoggedOnce
<1>3. LogTells'
  BY <1>1 DEF IInv, LogTells
<1> QED
  BY <1>1, <1>2, <1>3

LEMMA GetThreadKeeps ==
    ASSUME IInv, NEW p \in Participants, NEW t \in Threads, GetThread(p, t)
    PROVE  IInv'
<1>1. /\ TakesPart(p, t)
      /\ known' = [known EXCEPT ![p] = @ \cup InThread(t)]
      /\ UNCHANGED <<messages, delivered, acked, events, transcript, edition, since>>
  BY DEF GetThread, process
<1>2. UNCHANGED <<Ids, Receipts, History>> /\ LoggedOnce' /\ LogTells'
  BY <1>1, LogStays
<1>3. TypeOK'
  <2>1. known' \in [Participants -> SUBSET Ids]
    BY <1>1 DEF IInv, TypeOK, InThread
  <2> QED
    BY <1>1, <1>2, <2>1 DEF IInv, TypeOK
<1>4. GovernedStayOut'
  <2>1. ASSUME NEW q \in Participants, NEW m \in known'[q]
        PROVE  m \in known[q] \/ TakesPart(q, messages[m].thread)
    <3>1. m \in known[q] \/ (m \in InThread(t) /\ q = p)
      BY <1>1 DEF IInv, TypeOK
    <3> QED
      BY <1>1, <3>1 DEF InThread
  <2> QED
    BY <1>1, <2>1, LaneStays DEF IInv, process
<1> QED
  BY <1>1, <1>2, <1>3, <1>4, WitnessesStay DEF IInv

LEMMA MarkReadKeeps ==
    ASSUME IInv, NEW m \in Ids, MarkRead(m)
    PROVE  IInv'
<1> DEFINE e == Entry("message_read", m, Operator)
<1>1. /\ events' = Append(events, e)
      /\ UNCHANGED <<messages, delivered, acked, known, transcript, edition, since>>
  BY DEF MarkRead, process
<1>2. messages \in Seq(Message) /\ events \in Seq(Event) /\ LoggedOnce
  BY DEF IInv, TypeOK
<1>3. e \in Event /\ e.kind \notin {"message_sent", "message_acked"}
  BY <1>2, PeerAssumption, EntryType DEF EventKinds, Entry
<1>4. events' \in Seq(Event) /\ History' = History \cup {e} /\ LoggedOnce'
  BY <1>1, <1>2, <1>3, LogAppended
<1>5. UNCHANGED <<Ids, Receipts>>
  BY <1>1 DEF Ids, Receipts
<1>6. TypeOK'
  BY <1>1, <1>4, <1>5 DEF IInv, TypeOK
<1>7. LogTells'
  <2>1. \A x \in History' : x.message \in Ids'
    BY <1>4, <1>5 DEF IInv, LogTells, Entry
  <2>2. \A k \in Ids' : Entry("message_sent", k, messages'[k].from) \in History'
    BY <1>1, <1>4, <1>5 DEF IInv, LogTells
  <2>3. ASSUME NEW k \in Ids', NEW q \in Participants
        PROVE  /\ <<k, q>> \in acked' <=> Entry("message_acked", k, q) \in History'
               /\ <<k, q>> \in delivered' <=> Evidence(<<k, q>>) \cap History' # {}
    <3>1. /\ <<k, q>> \in acked <=> Entry("message_acked", k, q) \in History
          /\ <<k, q>> \in delivered <=> Evidence(<<k, q>>) \cap History # {}
      BY <1>5 DEF IInv, LogTells
    <3>2. /\ Entry("message_polled", k, q) # e
          /\ Entry("message_acked", k, q) # e
      BY DEF Entry
    <3> QED
      BY <1>1, <1>4, <3>1, <3>2 DEF Evidence
  <2> QED
    BY <2>1, <2>2, <2>3 DEF LogTells, Evidence, Entry
<1>8. GovernedStayOut'
  BY <1>1, LaneStays DEF IInv, process
<1> QED
  BY <1>1, <1>4, <1>6, <1>7, <1>8, WitnessesStay DEF IInv

------------------------------------------------------------------------------
(* The transcript. *)

Tables == {"messages", "receipts", "events"}

LEMMA Prefix ==
    ASSUME NEW s \in Seq(Tables), Len(s) <= 3, \A i \in 1..Len(s) : s[i] = ReadOrder[i]
    PROVE  s = SubSeq(ReadOrder, 1, Len(s))
<1> DEFINE n == Len(s)
           t == SubSeq(ReadOrder, 1, n)
<1>1. n \in Nat /\ n <= 3
  OBVIOUS
<1>2. \A i \in 1..n : ReadOrder[i] \in Tables
  OBVIOUS
<1>3. /\ t \in Seq(Tables)
      /\ Len(t) = IF 1 <= n THEN n - 1 + 1 ELSE 0
      /\ \A i \in 1..(n - 1 + 1) : t[i] = ReadOrder[1 + i - 1]
  <2> HIDE DEF n
  <2> QED
    BY <1>1, <1>2, SubSeqProperties
<1>4. Len(s) = Len(t) /\ \A i \in 1..Len(s) : s[i] = t[i]
  BY <1>1, <1>3
<1> HIDE DEF t
<1>5. s = t
  BY <1>3, <1>4, SeqEqual
<1> QED
  BY <1>5 DEF t

LEMMA InOrderType ==
    ASSUME NEW s \in ReadSoFar
    PROVE  s = SubSeq(ReadOrder, 1, Len(s))
<1>1. /\ <<>> \in Seq(Tables)
      /\ <<"messages">> \in Seq(Tables)
      /\ <<"messages", "receipts">> \in Seq(Tables)
      /\ <<"messages", "receipts", "events">> \in Seq(Tables)
  BY DEF Tables
<1>2. s \in Seq(Tables)
  BY <1>1, Zenon DEF ReadSoFar
<1>3. Len(s) <= 3 /\ \A i \in 1..Len(s) : s[i] = ReadOrder[i]
  <2>1. CASE s = <<>>
    BY <2>1
  <2>2. CASE s = <<"messages">>
    BY <2>2 DEF ReadOrder
  <2>3. CASE s = <<"messages", "receipts">>
    BY <2>3 DEF ReadOrder
  <2>4. CASE s = <<"messages", "receipts", "events">>
    BY <2>4 DEF ReadOrder
  <2> QED
    BY <2>1, <2>2, <2>3, <2>4 DEF ReadSoFar
<1> QED
  BY <1>2, <1>3, Prefix

\* What holds of everything but the transcript.
LEMMA TranscriptAlone ==
    ASSUME IInv, UNCHANGED <<messages, delivered, acked, events, known, process>>,
           ReadsInOrder', transcript'.shown \subseteq Ids
    PROVE  /\ UNCHANGED <<Ids, Receipts, History>>
           /\ TypeOK' /\ LoggedOnce' /\ LogTells' /\ GovernedStayOut'
<1>1. UNCHANGED <<Ids, Receipts, History>> /\ LoggedOnce' /\ LogTells'
  BY LogStays
<1>2. transcript'.reads \in ReadSoFar
  BY DEF ReadsInOrder
<1>3. transcript'.reads = SubSeq(ReadOrder, 1, Len(transcript'.reads))
  BY <1>2, InOrderType
<1>4. TypeOK'
  BY <1>1, <1>3 DEF IInv, TypeOK, process
<1>5. GovernedStayOut'
  BY LaneStays DEF IInv
<1> QED
  BY <1>1, <1>4, <1>5

LEMMA ReadMessagesKeeps ==
    ASSUME IInv, NEW t \in Threads, ReadMessages(t)
    PROVE  IInv'
<1>1. /\ transcript' = [transcript EXCEPT !.reads = <<"messages">>, !.shown = InThread(t)]
      /\ UNCHANGED <<messages, delivered, acked, events, known, process>>
  BY DEF ReadMessages
<1>2. Ids \subseteq Nat
  BY DEF IInv, TypeOK, Ids
<1>3. transcript'.reads = <<"messages">> /\ transcript'.shown = InThread(t)
  BY <1>1 DEF IInv, ReadsInOrder
<1>4. ReadsInOrder'
  BY <1>1, <1>2 DEF IInv, ReadsInOrder, ReadSoFar, InThread
<1>5. TypeOK' /\ LoggedOnce' /\ LogTells' /\ GovernedStayOut'
  BY <1>1, <1>3, <1>4, TranscriptAlone DEF InThread
<1>6. ReceiptsWitnessed' /\ TranscriptIsWitnessed'
  BY <1>3 DEF ReceiptsWitnessed, TranscriptIsWitnessed
<1> QED
  BY <1>4, <1>5, <1>6 DEF IInv

LEMMA AppendIs ==
    ASSUME NEW S, NEW s \in Seq(S), NEW x \in S, NEW t \in Seq(S),
           Len(t) = Len(s) + 1, \A i \in 1..Len(s) : t[i] = s[i], t[Len(s) + 1] = x
    PROVE  Append(s, x) = t
<1> DEFINE u == Append(s, x)
<1>1. /\ u \in Seq(S)
      /\ Len(u) = Len(s) + 1
      /\ \A i \in 1..Len(s) : u[i] = s[i]
      /\ u[Len(s) + 1] = x
  BY AppendProperties
<1> HIDE DEF u
<1>2. \A i \in 1..Len(u) : u[i] = t[i]
  BY <1>1
<1>3. u = t
  BY <1>1, <1>2, SeqEqual
<1> QED
  BY <1>3 DEF u

LEMMA NextRead ==
    /\ Append(<<"messages">>, "receipts") = <<"messages", "receipts">>
    /\ Append(<<"messages", "receipts">>, "events") = <<"messages", "receipts", "events">>
<1> DEFINE one == <<"messages">>
           two == <<"messages", "receipts">>
           three == <<"messages", "receipts", "events">>
<1>1. /\ one \in Seq(Tables) /\ Len(one) = 1 /\ one[1] = "messages"
      /\ two \in Seq(Tables) /\ Len(two) = 2 /\ two[1] = "messages" /\ two[2] = "receipts"
      /\ three \in Seq(Tables) /\ Len(three) = 3
      /\ three[1] = "messages" /\ three[2] = "receipts" /\ three[3] = "events"
  BY DEF Tables
<1>2. "receipts" \in Tables /\ "events" \in Tables
  BY DEF Tables
<1> HIDE DEF one, two, three
<1>3. Append(one, "receipts") = two
  <2>1. /\ \A i \in 1..Len(one) : two[i] = one[i]
        /\ Len(two) = Len(one) + 1 /\ two[Len(one) + 1] = "receipts"
    BY <1>1
  <2> QED
    BY <1>1, <1>2, <2>1, AppendIs
<1>4. Append(two, "events") = three
  <2>1. /\ \A i \in 1..Len(two) : three[i] = two[i]
        /\ Len(three) = Len(two) + 1 /\ three[Len(two) + 1] = "events"
    BY <1>1
  <2> QED
    BY <1>1, <1>2, <2>1, AppendIs
<1> QED
  BY <1>3, <1>4 DEF one, two, three

LEMMA ReadRowsKeeps ==
    ASSUME IInv, NEW table, ReadRows(table)
    PROVE  IInv'
<1> DEFINE rows == transcript.shown \X Participants
<1>1. UNCHANGED <<messages, delivered, acked, events, known, process>>
  BY DEF ReadRows
<1>2. UNCHANGED <<History>>
  BY <1>1 DEF History
<1>3. transcript.shown \subseteq Ids /\ Ids \subseteq Nat
  BY DEF IInv, TypeOK, Ids
<1>4. CASE /\ transcript.reads = <<"messages">>
           /\ table = "receipts"
           /\ transcript' = [transcript EXCEPT !.reads = Append(@, table),
                                               !.delivered = delivered \cap rows,
                                               !.acked = acked \cap rows]
  <2>1. /\ transcript'.reads = <<"messages", "receipts">>
        /\ transcript'.shown = transcript.shown
        /\ transcript'.delivered = delivered \cap rows
        /\ transcript'.acked = acked \cap rows
    BY <1>4, NextRead DEF IInv, ReadsInOrder
  <2>2. ReadsInOrder'
    BY <1>3, <1>4, <2>1 DEF IInv, ReadsInOrder, ReadSoFar
  <2>3. TypeOK' /\ LoggedOnce' /\ LogTells' /\ GovernedStayOut'
    BY <1>1, <1>3, <2>1, <2>2, TranscriptAlone
  <2>4. ASSUME NEW r \in rows
        PROVE  /\ r \in acked => Entry("message_acked", r[1], r[2]) \in History
               /\ r \in delivered => Evidence(r) \cap History # {}
    <3>1. r = <<r[1], r[2]>> /\ r[1] \in Ids /\ r[2] \in Participants
      BY <1>3
    <3>2. /\ <<r[1], r[2]>> \in acked => Entry("message_acked", r[1], r[2]) \in History
          /\ <<r[1], r[2]>> \in delivered => Evidence(<<r[1], r[2]>>) \cap History # {}
      BY <3>1 DEF IInv, LogTells
    <3> QED
      BY <3>1, <3>2
  <2>5. ReceiptsWitnessed'
    BY <1>2, <2>1, <2>4 DEF ReceiptsWitnessed, Evidence, Entry
  <2>6. TranscriptIsWitnessed'
    BY <2>1 DEF TranscriptIsWitnessed
  <2> QED
    BY <2>2, <2>3, <2>5, <2>6 DEF IInv
<1>5. CASE /\ transcript.reads = <<"messages", "receipts">>
           /\ table = "events"
           /\ transcript' = [transcript EXCEPT !.reads = Append(@, table),
                                               !.log = EventsOf(transcript.shown)]
  <2>1. /\ transcript'.reads = <<"messages", "receipts", "events">>
        /\ transcript'.log = EventsOf(transcript.shown)
        /\ transcript'.shown = transcript.shown
        /\ transcript'.delivered = transcript.delivered
        /\ transcript'.acked = transcript.acked
    BY <1>5, NextRead DEF IInv, ReadsInOrder
  <2>2. EventsOf(transcript.shown) \subseteq Event
    BY DEF EventsOf, IInv, TypeOK
  <2>3. ReadsInOrder'
    BY <1>5, <2>1, <2>2 DEF IInv, ReadsInOrder, ReadSoFar
  <2>4. TypeOK' /\ LoggedOnce' /\ LogTells' /\ GovernedStayOut'
    BY <1>1, <1>3, <2>1, <2>3, TranscriptAlone
  <2>5. /\ transcript.acked \subseteq rows /\ transcript.delivered \subseteq rows
        /\ \A r \in transcript.acked : Entry("message_acked", r[1], r[2]) \in History
        /\ \A r \in transcript.delivered : Evidence(r) \cap History # {}
    BY <1>5 DEF IInv, ReceiptsWitnessed
  <2>6. ReceiptsWitnessed'
    BY <1>2, <2>1, <2>5 DEF ReceiptsWitnessed, Evidence, Entry
  <2>7. ASSUME NEW x \in History, x.message \in transcript.shown
        PROVE  x \in EventsOf(transcript.shown)
    BY <2>7 DEF History, EventsOf
  <2>8. \A r \in rows : \A x \in Evidence(r) : x.message \in transcript.shown
    BY DEF Evidence, Entry
  <2>9. /\ \A r \in transcript.acked :
               Entry("message_acked", r[1], r[2]) \in EventsOf(transcript.shown)
        /\ \A r \in transcript.delivered :
               Evidence(r) \cap EventsOf(transcript.shown) # {}
    BY <2>5, <2>7, <2>8 DEF Evidence
  <2>10. TranscriptIsWitnessed'
    BY <2>1, <2>9 DEF TranscriptIsWitnessed, Evidence, Entry
  <2> QED
    BY <2>3, <2>4, <2>6, <2>10 DEF IInv
<1>6. transcript.reads \in ReadSoFar
  BY DEF IInv, ReadsInOrder
<1>7. Len(transcript.reads) \in {1, 2} /\ table = ReadOrder[Len(transcript.reads) + 1]
  BY DEF ReadRows
<1>8. CASE transcript.reads = <<"messages">>
  <2>1. table = "receipts"
    BY <1>7, <1>8 DEF ReadOrder
  <2> QED
    BY <1>4, <1>8, <2>1 DEF ReadRows
<1>9. CASE transcript.reads = <<"messages", "receipts">>
  <2>1. table = "events"
    BY <1>7, <1>9 DEF ReadOrder
  <2> QED
    BY <1>5, <1>9, <2>1 DEF ReadRows
<1>10. transcript.reads # <<>> /\ transcript.reads # <<"messages", "receipts", "events">>
  <2> DEFINE s == transcript.reads
  <2>1. Len(s) \in {1, 2}
    BY <1>7
  <2> HIDE DEF s
  <2>2. s # <<>> /\ s # <<"messages", "receipts", "events">>
    BY <2>1
  <2> QED
    BY <2>2 DEF s
<1> QED
  BY <1>6, <1>8, <1>9, <1>10, Zenon DEF ReadSoFar

LEMMA CloseTranscriptKeeps ==
    ASSUME IInv, CloseTranscript
    PROVE  IInv'
<1>1. /\ transcript' = NoTranscript
      /\ UNCHANGED <<messages, delivered, acked, events, known, process>>
  BY DEF CloseTranscript
<1>2. ReadsInOrder'
  BY <1>1 DEF ReadsInOrder, ReadSoFar, NoTranscript
<1>3. TypeOK' /\ LoggedOnce' /\ LogTells' /\ GovernedStayOut'
  BY <1>1, <1>2, TranscriptAlone DEF NoTranscript
<1> QED
  BY <1>1, <1>2, <1>3 DEF IInv, ReceiptsWitnessed, TranscriptIsWitnessed, NoTranscript

------------------------------------------------------------------------------
(* The restart. *)

LEMMA RestartKeeps ==
    ASSUME IInv, Restart
    PROVE  IInv'
<1>1. /\ edition' \in edition..Len(Editions)
      /\ since' = [p \in Participants |->
                     IF p \in Direct /\ p \notin Direct' THEN Len(messages) ELSE since[p]]
      /\ transcript' = NoTranscript
      /\ UNCHANGED <<messages, delivered, acked, events, known>>
  BY DEF Restart
<1>2. edition \in 1..Len(Editions) /\ DOMAIN Editions = 1..Len(Editions)
  BY PeerAssumption DEF IInv, TypeOK
<1>3. UNCHANGED <<Ids, Receipts, History>> /\ LoggedOnce' /\ LogTells'
  BY <1>1, LogStays
<1>4. ReadsInOrder' /\ ReceiptsWitnessed' /\ TranscriptIsWitnessed'
  BY <1>1 DEF ReadsInOrder, ReadSoFar, NoTranscript, ReceiptsWitnessed, TranscriptIsWitnessed
<1>5. since' \in [Participants -> 0..Len(messages')]
  BY <1>1 DEF IInv, TypeOK
<1>6. edition' \in DOMAIN Editions
  BY <1>1, <1>2
<1>7. transcript'.reads = SubSeq(ReadOrder, 1, Len(transcript'.reads))
  <2>1. transcript'.reads \in ReadSoFar
    BY <1>4 DEF ReadsInOrder
  <2> QED
    BY <2>1, InOrderType
<1>8. TypeOK'
  BY <1>1, <1>3, <1>5, <1>6, <1>7 DEF IInv, TypeOK, NoTranscript
<1>9. GovernedStayOut'
  <2>1. ASSUME NEW p \in Participants, p \notin Direct', NEW m \in Ids', m > since'[p]
        PROVE  p # messages'[m].from /\ p \notin messages'[m].to
    <3>1. CASE p \in Direct
      BY <1>1, <1>3, <2>1, <3>1 DEF Ids, IInv, TypeOK
    <3>2. CASE p \notin Direct
      BY <1>1, <1>3, <2>1, <3>2 DEF IInv, GovernedStayOut
    <3> QED
      BY <3>1, <3>2
  <2>2. ASSUME NEW p \in Participants, NEW m \in known'[p]
        PROVE  TakesPart(p, messages[m].thread)'
    <3>1. TakesPart(p, messages[m].thread)
      BY <1>1 DEF IInv, GovernedStayOut
    <3> QED
      BY <1>1, <3>1 DEF TakesPart, InThread, Ids
  <2> QED
    BY <2>1, <2>2 DEF GovernedStayOut
<1> QED
  BY <1>3, <1>4, <1>8, <1>9 DEF IInv
------------------------------------------------------------------------------

LEMMA InitHolds == Init => IInv
<1> SUFFICES ASSUME Init PROVE IInv
  OBVIOUS
<1>1. /\ messages = <<>> /\ events = <<>> /\ delivered = {} /\ acked = {}
      /\ known = [p \in Participants |-> {}] /\ transcript = NoTranscript
      /\ edition = 1 /\ since = [p \in Participants |-> 0]
  BY DEF Init
<1>2. Ids = {} /\ History = {} /\ Receipts = {}
  BY <1>1 DEF Ids, History, Receipts
<1>3. ReadsInOrder /\ ReceiptsWitnessed /\ TranscriptIsWitnessed
  BY <1>1 DEF ReadsInOrder, ReadSoFar, NoTranscript, ReceiptsWitnessed, TranscriptIsWitnessed
<1>4. TypeOK
  <2>1. 1 \in DOMAIN Editions
    BY PeerAssumption
  <2>2. transcript.reads = SubSeq(ReadOrder, 1, Len(transcript.reads))
    <3>1. transcript.reads \in ReadSoFar
      BY <1>3 DEF ReadsInOrder
    <3> QED
      BY <3>1, InOrderType
  <2>3. messages \in Seq(Message) /\ events \in Seq(Event)
    BY <1>1
  <2> QED
    BY <1>1, <1>2, <2>1, <2>2, <2>3 DEF TypeOK, NoTranscript
<1>5. LoggedOnce /\ LogTells
  BY <1>1, <1>2 DEF LoggedOnce, LogTells
<1>6. GovernedStayOut
  BY <1>1, <1>2 DEF GovernedStayOut
<1> QED
  BY <1>3, <1>4, <1>5, <1>6 DEF IInv

LEMMA StutterKeeps ==
    ASSUME IInv, UNCHANGED vars
    PROVE  IInv'
<1>1. UNCHANGED <<messages, delivered, acked, events, known, transcript, process>>
  BY DEF vars
<1>2. UNCHANGED <<Ids, Receipts, History>> /\ LoggedOnce' /\ LogTells'
  BY <1>1, LogStays
<1>3. TypeOK'
  BY <1>1, <1>2 DEF IInv, TypeOK, process
<1>4. GovernedStayOut'
  BY <1>1, LaneStays DEF IInv
<1> QED
  BY <1>1, <1>2, <1>3, <1>4, WitnessesStay DEF IInv

LEMMA StepsKeep == IInv /\ [Next]_vars => IInv'
<1> SUFFICES ASSUME IInv, [Next]_vars PROVE IInv'
  OBVIOUS
<1>1. ASSUME NEW p \in Participants, ParticipantStep(p)
      PROVE  IInv'
  <2>1. CASE \E t \in {0} \cup Threads, to \in SUBSET Participants \ {{}} : Send(p, t, to)
    BY <2>1, SendKeeps
  <2>2. CASE Poll(p) \/ PollUnanswered(p)
    BY <2>2, PollKeeps DEF Poll, PollUnanswered
  <2>3. CASE \E m \in Ids : Ack(p, m)
    BY <2>3, AckKeeps
  <2>4. CASE \E t \in Threads : GetThread(p, t)
    BY <2>4, GetThreadKeeps
  <2> QED
    BY <1>1, <2>1, <2>2, <2>3, <2>4 DEF ParticipantStep
<1>2. CASE OperatorStep
  BY <1>2, MarkReadKeeps, ReadMessagesKeeps, ReadRowsKeeps, CloseTranscriptKeeps
  DEF OperatorStep
<1>3. CASE Restart
  BY <1>3, RestartKeeps
<1>4. CASE UNCHANGED vars
  BY <1>4, StutterKeeps
<1> QED
  BY <1>1, <1>2, <1>3, <1>4 DEF Next

LEMMA InvariantHolds == Spec => []IInv
BY InitHolds, StepsKeep, PTL DEF Spec

(* For any participants and any series of registries, the tables keep      *)
(* their shape, and a receipt is acked only if it is delivered.            *)
THEOREM TypeCorrect == Spec => []TypeOK
<1>1. IInv => TypeOK
  BY DEF IInv
<1> QED
  BY <1>1, InvariantHolds, PTL

LEMMA LoggedAt ==
    ASSUME IInv, NEW kind, NEW m, NEW p
    PROVE  /\ IsFiniteSet(Logged(kind, m, p))
           /\ Logged(kind, m, p) # {} <=> Entry(kind, m, p) \in History
           /\ kind \in {"message_sent", "message_acked"} =>
                 Cardinality(Logged(kind, m, p))
                    = IF Entry(kind, m, p) \in History THEN 1 ELSE 0
<1> DEFINE L == Logged(kind, m, p)
<1>1. L \in SUBSET DOMAIN events
  BY DEF Logged
<1>2. IsFiniteSet(DOMAIN events)
  <2>1. Len(events) \in Nat /\ DOMAIN events = 1..Len(events)
    BY DEF IInv, TypeOK
  <2> QED
    BY <2>1, FS_Interval
<1>3. IsFiniteSet(L)
  BY <1>1, <1>2, FS_Subset
<1>4. L # {} <=> Entry(kind, m, p) \in History
  BY DEF Logged, History
<1>5. ASSUME kind \in {"message_sent", "message_acked"}, L # {}
      PROVE  Cardinality(L) = 1
  <2>1. PICK i \in DOMAIN events : i \in L
    BY <1>1, <1>5
  <2>2. L = {i}
    BY <1>5, <2>1 DEF Logged, Entry, IInv, LoggedOnce
  <2> HIDE DEF L
  <2> QED
    BY <2>2, FS_Singleton
<1>6. L = {} => Cardinality(L) = 0
  BY FS_EmptySet
<1> QED
  BY <1>3, <1>4, <1>5, <1>6

(* For any participants and any series of registries, the log and the      *)
(* receipts tell the same story: one event for each message sent and each  *)
(* receipt acked, and none without its receipt.                            *)
THEOREM AuditIsTrue == Spec => []AuditMatchesReceipts
<1>1. ASSUME IInv PROVE AuditMatchesReceipts
  <2>1. ASSUME NEW m \in Ids
        PROVE  Cardinality(Logged("message_sent", m, messages[m].from)) = 1
    BY <1>1, LoggedAt DEF IInv, LogTells
  <2>2. ASSUME NEW m \in Ids, NEW p \in Participants
        PROVE  /\ Cardinality(Logged("message_acked", m, p))
                     = IF <<m, p>> \in acked THEN 1 ELSE 0
               /\ <<m, p>> \in delivered
                     <=> Logged("message_acked", m, p) \cup Logged("message_polled", m, p) # {}
    <3>1. /\ <<m, p>> \in acked <=> Entry("message_acked", m, p) \in History
          /\ <<m, p>> \in delivered <=> \/ Entry("message_acked", m, p) \in History
                                        \/ Entry("message_polled", m, p) \in History
      BY <1>1 DEF IInv, LogTells, Evidence
    <3>2. /\ Cardinality(Logged("message_acked", m, p))
                = IF Entry("message_acked", m, p) \in History THEN 1 ELSE 0
          /\ Logged("message_acked", m, p) # {} <=> Entry("message_acked", m, p) \in History
          /\ Logged("message_polled", m, p) # {} <=> Entry("message_polled", m, p) \in History
      BY <1>1, LoggedAt
    <3> QED
      BY <3>1, <3>2
  <2> QED
    BY <2>1, <2>2 DEF AuditMatchesReceipts
<1> QED
  BY <1>1, InvariantHolds, PTL

(* For any series of registries and restarts: once a participant is        *)
(* governed or taken out, no message from it or for it enters the direct   *)
(* lane, and it is shown nothing but the threads it took part in.          *)
THEOREM TheGovernedStayOut == Spec => []GovernedStayOut
<1>1. IInv => GovernedStayOut
  BY DEF IInv
<1> QED
  BY <1>1, InvariantHolds, PTL

(* However the tools write between its three SELECTs, a transcript shows   *)
(* the evidence of every receipt it shows.                                 *)
THEOREM TranscriptsAreWitnessed == Spec => []TranscriptIsWitnessed
<1>1. IInv => TranscriptIsWitnessed
  BY DEF IInv
<1> QED
  BY <1>1, InvariantHolds, PTL
------------------------------------------------------------------------------
(* The abstract mailbox. *)

Posted == [m \in Ids |-> messages[m].to]

LEMMA Recipients ==
    ASSUME NEW s \in Seq(Message), NEW m \in DOMAIN s
    PROVE  s[m].to \in SUBSET Participants
<1>1. s[m] \in Message
  OBVIOUS
<1> QED
  BY <1>1 DEF Message

LEMMA PostedType ==
    ASSUME IInv
    PROVE  Posted \in Seq(SUBSET Participants) /\ Len(Posted) = Len(messages)
<1>1. messages \in Seq(Message) /\ Ids = 1..Len(messages) /\ Len(messages) \in Nat
  BY DEF IInv, TypeOK, Ids
<1>2. \A m \in Ids : messages[m].to \in SUBSET Participants
  BY <1>1, Recipients DEF Ids
<1> QED
  BY <1>1, <1>2 DEF Posted

\* The instance counts as this module does.
LEMMA SameCount == \A S : Box!Cardinality(S) = Cardinality(S)
BY DEF Box!Cardinality, Cardinality

\* What the log calls unsettled is what the receipts call unacknowledged.
LEMMA DueIsOldest ==
    ASSUME IInv, NEW p \in Participants
    PROVE  Box!Unsettled(p) = Unacked(p) /\ Box!Due(p) = Oldest(p)
<1>1. ASSUME NEW m \in Ids
      PROVE  m \in Box!Unsettled(p) <=> m \in Unacked(p)
  <2>1. <<m, p>> \in acked <=> \E i \in DOMAIN events : events[i] = Entry("message_acked", m, p)
    BY DEF IInv, LogTells, History
  <2>2. <<m, p>> \in Receipts <=> p \in messages[m].to
    BY DEF Receipts
  <2> QED
    BY <2>1, <2>2 DEF Box!Unsettled, Box!Mail, Box!Happened, Entry, Unacked
<1>2. Box!Unsettled(p) \subseteq Ids /\ Unacked(p) \subseteq Ids
  BY DEF Box!Unsettled, Box!Mail, Unacked
<1>3. Box!Unsettled(p) = Unacked(p)
  BY <1>1, <1>2
<1> DEFINE older(m) == {n \in Unacked(p) : n < m}
<1>4. /\ Box!Due(p) = {m \in Unacked(p) : Box!Cardinality(older(m)) < PollLimit}
      /\ Oldest(p) = {m \in Unacked(p) : Cardinality(older(m)) < PollLimit}
  BY <1>3 DEF Box!Due, Oldest
<1> HIDE DEF older
<1>5. \A m : Box!Cardinality(older(m)) = Cardinality(older(m))
  BY SameCount
<1>6. Box!Due(p) = Oldest(p)
  BY <1>4, <1>5
<1> QED
  BY <1>3, <1>6

LEMMA SendPosts ==
    ASSUME IInv, NEW p \in Participants, NEW t \in {0} \cup Threads,
           NEW to \in SUBSET Participants \ {{}}, Send(p, t, to)
    PROVE  Box!Post(p, to) /\ to \in SUBSET (Participants \ {p}) \ {{}}
<1> DEFINE sent == [thread |-> ThreadOf(t), from |-> p, to |-> to]
<1>1. /\ messages' = Append(messages, sent)
      /\ events' = Append(events, Entry("message_sent", Len(messages) + 1, p))
      /\ p \notin to
  BY DEF Send, SendMessage, MaySend
<1>2. messages \in Seq(Message) /\ Ids = 1..Len(messages) /\ Len(messages) \in Nat
  BY DEF IInv, TypeOK, Ids
<1>3. IInv'
  BY SendKeeps
<1>4. messages' \in Seq(Message) /\ Ids' = 1..Len(messages')
  BY <1>3 DEF IInv, TypeOK, Ids
<1>5. /\ Len(messages') = Len(messages) + 1
      /\ \A m \in Ids : messages'[m] = messages[m]
      /\ messages'[Len(messages) + 1] = sent
  BY <1>1, <1>2
<1>6. Posted \in Seq(SUBSET Participants) /\ Len(Posted) = Len(messages)
  BY PostedType
<1>7. Posted' \in Seq(SUBSET Participants) /\ Len(Posted') = Len(messages')
  <2>1. \A m \in Ids' : messages'[m].to \in SUBSET Participants
    BY <1>4, Recipients DEF Ids
  <2> QED
    BY <1>2, <1>4, <1>5, <2>1 DEF Posted
<1>8. /\ \A m \in 1..Len(Posted) : Posted'[m] = Posted[m]
      /\ Posted'[Len(Posted) + 1] = to
  BY <1>2, <1>4, <1>5, <1>6 DEF Posted
<1>9. Append(Posted, to) = Posted'
  BY <1>5, <1>6, <1>7, <1>8, AppendIs
<1> QED
  BY <1>1, <1>6, <1>9 DEF Box!Post, Box!Happened, Entry, Posted

LEMMA PollHandsOver ==
    ASSUME IInv, NEW p \in Participants, PollBatch(p)
    PROVE  Box!HandOver(p)
<1>1. /\ Batch(p) # <<>>
      /\ events' = events \o [i \in DOMAIN Batch(p) |-> Entry("message_polled", Batch(p)[i], p)]
      /\ UNCHANGED messages
  BY DEF PollBatch
<1>2. /\ Cardinality(Oldest(p)) \in Nat
      /\ Batch(p) \in [1..Cardinality(Oldest(p)) -> Oldest(p)]
      /\ \A i, j \in 1..Cardinality(Oldest(p)) : i < j => Batch(p)[i] < Batch(p)[j]
  BY BatchIsOldest DEF IInv, TypeOK
<1>3. Box!Due(p) = Oldest(p)
  BY DueIsOldest
<1>4. DOMAIN Batch(p) = 1..Cardinality(Oldest(p))
  BY <1>2
<1>5. Oldest(p) # {}
  <2>1. SUFFICES ASSUME Oldest(p) = {} PROVE FALSE
    OBVIOUS
  <2>2. Cardinality(Oldest(p)) = 0
    BY <2>1, FS_EmptySet
  <2>3. Batch(p) = [i \in {} |-> {}]
    BY <1>2, <2>2
  <2> QED
    BY <1>1, <2>3
<1>6. UNCHANGED Posted
  BY <1>1 DEF Posted, Ids
<1>7. \E order \in [1..Cardinality(Oldest(p)) -> Oldest(p)] :
          /\ \A i, j \in DOMAIN order : i < j => order[i] < order[j]
          /\ events' = events \o [i \in DOMAIN order |-> Box!Happened("message_polled", order[i], p)]
  <2>1. /\ \A i, j \in DOMAIN Batch(p) : i < j => Batch(p)[i] < Batch(p)[j]
        /\ events' = events \o [i \in DOMAIN Batch(p) |->
                                   Box!Happened("message_polled", Batch(p)[i], p)]
    BY <1>1, <1>2, <1>4 DEF Box!Happened, Entry
  <2> QED
    BY <1>2, <2>1, Zenon
<1>8. Box!Cardinality(Box!Due(p)) = Cardinality(Oldest(p))
  BY <1>3, SameCount
<1> QED
  BY <1>3, <1>5, <1>6, <1>7, <1>8, Zenon DEF Box!HandOver, Posted

LEMMA StepsOfTheMailbox ==
    ASSUME IInv, [Next]_vars
    PROVE  Box!MailboxNext \/ UNCHANGED <<Posted, events>>
<1>1. ASSUME NEW p \in Participants, ParticipantStep(p)
      PROVE  Box!MailboxNext \/ UNCHANGED <<Posted, events>>
  <2>1. CASE \E t \in {0} \cup Threads, to \in SUBSET Participants \ {{}} : Send(p, t, to)
    BY <2>1, SendPosts DEF Box!MailboxNext
  <2>2. CASE Poll(p) \/ PollUnanswered(p)
    BY <2>2, PollHandsOver DEF Poll, PollUnanswered, Box!MailboxNext
  <2>3. ASSUME NEW m \in Ids, Ack(p, m)
        PROVE  Box!MailboxNext
    <3>1. m \in Box!Unsettled(p)
      BY <2>3, DueIsOldest DEF Ack, MarkAcked, Unacked
    <3>2. Box!Settle(p, m)
      BY <2>3, <3>1 DEF Ack, MarkAcked, Box!Settle, Box!Happened, Entry, Ids
    <3> QED
      BY <3>2 DEF Box!MailboxNext, Box!Mail
  <2>4. CASE \E t \in Threads : GetThread(p, t)
    BY <2>4 DEF GetThread, Posted, Ids
  <2> QED
    BY <1>1, <2>1, <2>2, <2>3, <2>4 DEF ParticipantStep
<1>2. ASSUME NEW m \in Ids, MarkRead(m)
      PROVE  Box!MailboxNext
  <2>1. Box!Tick(Operator, m)
    BY <1>2 DEF MarkRead, Receipts, Box!Tick, Box!Mail, Box!Happened, Entry, Ids
  <2> QED
    BY <2>1, PeerAssumption DEF Box!MailboxNext, Box!Mail
<1>3. CASE \/ \E t \in Threads : ReadMessages(t)
           \/ \E table \in {"receipts", "events"} : ReadRows(table)
           \/ CloseTranscript
           \/ Restart
           \/ UNCHANGED vars
  <2>1. UNCHANGED <<messages, events>>
    BY <1>3 DEF ReadMessages, ReadRows, CloseTranscript, Restart, vars
  <2> QED
    BY <2>1 DEF Posted, Ids
<1> QED
  BY <1>1, <1>2, <1>3 DEF Next, OperatorStep

(* Whatever is lost, edited or restarted, every step of direct delivery is *)
(* a step of the abstract mailbox or a stutter: mail is handed over oldest *)
(* first until its recipient settles it, and settled once.                 *)
THEOREM MailboxIsImplemented == Spec => ImplementsMailbox
<1>1. Init => Box!MailboxInit
  BY DEF Init, Box!MailboxInit, Ids
<1>2. IInv /\ [Next]_vars => [Box!MailboxNext]_(Box!mailbox)
  BY StepsOfTheMailbox DEF Box!mailbox, Posted
<1> QED
  BY <1>1, <1>2, InvariantHolds, PTL DEF Spec, ImplementsMailbox, Box!MailboxSpec
=============================================================================
