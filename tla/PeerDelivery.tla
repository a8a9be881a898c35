----------------------------- MODULE PeerDelivery -----------------------------
(***************************************************************************)
(* Direct messages between participants that are not governed              *)
(* (peer/peer_delivery_service.py over peer/peer_store.py), while the      *)
(* operator edits config/agents.json and restarts the broker: a process    *)
(* works with the registry it has read at its start.                       *)
(*                                                                         *)
(* The MCP tools run one at a time on the broker's event loop, and each    *)
(* writes in one BEGIN IMMEDIATE transaction: send, poll, ack and          *)
(* get_thread are single steps, and a crash falls before or after them.    *)
(* The operator's HTTP handlers run on other threads.  mark_read is one    *)
(* transaction; the transcript is put together from three SELECTs, with    *)
(* the tools writing in between.                                           *)
(*                                                                         *)
(* A message is named by its position in `messages` (the order of their    *)
(* timestamps: only tools send), a thread by the message that opened it.   *)
(***************************************************************************)
EXTENDS Naturals, Sequences, FiniteSets

CONSTANTS Participants,  \* everyone who is ever in the registry
          Editions,      \* agents.json as it is edited: everyone's standing
          Operator,      \* the participant mark_read speaks for
          PollLimit,     \* the `limit` of peer_poll
          MaxMessages,   \* bound: messages sent
          MaxEvents      \* bound on the log: beyond it, nothing is read again,
                         \* polled in vain or polled without news

\* Without an entry, direct, or with collaboration_governed set.
Standings == {"absent", "direct", "governed"}

\* The operator must be registered (config.py) and is never governed.
ASSUME PeerAssumption ==
    /\ Editions \in Seq([Participants -> Standings]) \ {<<>>}
    /\ Operator \in Participants
    /\ \A e \in DOMAIN Editions : Editions[e][Operator] = "direct"
    /\ PollLimit \in Nat \ {0}
    /\ MaxMessages \in Nat
    /\ MaxEvents \in Nat

VARIABLES edition,     \* the one the process has read at its start
          messages,    \* peer_messages with the recipients of peer_receipts
          delivered,   \* receipts <<message, recipient>>, delivered_ts set
          acked,       \* receipts <<message, recipient>>, acked_ts set
          events,      \* peer_events, in the order of their commits
          known,       \* participant -> messages an answer has shown it
          transcript,  \* the operator's transcript being put together
          since        \* history: participant -> messages there were when it
                       \* last left the direct lane

process == <<edition, since>>
vars == <<messages, delivered, acked, events, known, transcript, process>>

------------------------------------------------------------------------------
Message == [thread : Nat \ {0},
            from   : Participants,
            to     : SUBSET Participants \ {{}}]

EventKinds == {"message_sent", "message_polled", "message_acked", "message_read"}

Event == [kind : EventKinds, message : Nat \ {0}, who : Participants]

Entry(kind, m, p) == [kind |-> kind, message |-> m, who |-> p]

registry == Editions[edition]

Registered == {p \in Participants : registry[p] # "absent"}

Direct == {p \in Participants : registry[p] = "direct"}

Ids == DOMAIN messages

Receipts == {r \in Ids \X Participants : r[2] \in messages[r[1]].to}

InThread(t) == {m \in Ids : messages[m].thread = t}

Threads == {m \in Ids : messages[m].thread = m}

\* get_thread shows a thread to everyone who takes part in it.
TakesPart(p, t) ==
    \E m \in InThread(t) : p = messages[m].from \/ p \in messages[m].to

NoTranscript ==
    [reads |-> <<>>, shown |-> {}, delivered |-> {}, acked |-> {}, log |-> {}]

Init ==
    /\ messages = <<>>
    /\ delivered = {}
    /\ acked = {}
    /\ events = <<>>
    /\ known = [p \in Participants |-> {}]
    /\ transcript = NoTranscript
    /\ edition = 1
    /\ since = [p \in Participants |-> 0]

------------------------------------------------------------------------------
(* The MCP tools. *)

\* to_participants left out: everyone else in the registry.
Broadcast(p) == Registered \ {p}

MaySendToAll(p, to) ==
    /\ p \in Direct \ to
    /\ to # Broadcast(p) => to \subseteq Direct

\* One participant that is governed or unknown, or the sender itself, among
\* the recipients refuses the whole message.
MaySend(p, to) ==
    /\ p \in Direct \ to
    /\ to \subseteq Direct

\* t = 0 asks for a new thread.
ThreadOf(t) == IF t = 0 THEN Len(messages) + 1 ELSE t

\* Thread, message, receipts and audit event in one transaction.
SendMessage(p, t, to) ==
    /\ messages' = Append(messages, [thread |-> t, from |-> p, to |-> to])
    /\ events' = Append(events, Entry("message_sent", Len(messages) + 1, p))

\* send: there is no idempotency key, and any thread may be written to.
Send(p, t, to) ==
    /\ Len(messages) < MaxMessages
    /\ MaySend(p, to)
    /\ t # 0 => t \in Threads
    /\ SendMessage(p, ThreadOf(t), to)
    /\ UNCHANGED <<delivered, acked, known, transcript, process>>

UnackedOrAcked(p) == {m \in Ids : <<m, p>> \in Receipts}

UnackedOnceDelivered(p) == {m \in Ids : <<m, p>> \in Receipts \ delivered}

Unacked(p) == {m \in Ids : <<m, p>> \in Receipts \ acked}

\* The oldest messages p has not acknowledged, oldest first.
Batch(p) ==
    LET oldest == {m \in Unacked(p) :
                     Cardinality({n \in Unacked(p) : n < m}) < PollLimit}
    IN  [i \in 1..Cardinality(oldest) |->
            CHOOSE m \in oldest : Cardinality({n \in oldest : n < m}) = i - 1]

InBatch(p) == {Batch(p)[i] : i \in DOMAIN Batch(p)}

\* The whole batch and its audit events in one transaction.
PollBatch(p) ==
    /\ Batch(p) # <<>>
    /\ delivered' = delivered \cup (InBatch(p) \X {p})
    /\ events' = events \o [i \in DOMAIN Batch(p) |->
                              Entry("message_polled", Batch(p)[i], p)]
    /\ UNCHANGED <<messages, acked, transcript, process>>

Poll(p) ==
    /\ InBatch(p) \subseteq known[p] => Len(events) < MaxEvents
    /\ PollBatch(p)
    /\ known' = [known EXCEPT ![p] = @ \cup InBatch(p)]

\* The answer is lost: the batch is delivered, and the recipient has nothing.
PollUnanswered(p) ==
    /\ Len(events) < MaxEvents
    /\ PollBatch(p)
    /\ UNCHANGED known

MarkAckedOnly(p, m) ==
    /\ <<m, p>> \notin acked
    /\ acked' = acked \cup {<<m, p>>}
    /\ events' = Append(events, Entry("message_acked", m, p))
    /\ UNCHANGED delivered

MarkAckedAgain(p, m) ==
    /\ acked' = acked \cup {<<m, p>>}
    /\ delivered' = delivered \cup {<<m, p>>}
    /\ Len(events) <= MaxEvents
    /\ events' = Append(events, Entry("message_acked", m, p))

\* An ack of a message that was never polled delivers it as well; a repeated
\* ack writes nothing.
MarkAcked(p, m) ==
    /\ <<m, p>> \notin acked
    /\ acked' = acked \cup {<<m, p>>}
    /\ delivered' = delivered \cup {<<m, p>>}
    /\ events' = Append(events, Entry("message_acked", m, p))

\* ack: of a message p has heard of, by poll or by get_thread.
Ack(p, m) ==
    /\ m \in known[p]
    /\ <<m, p>> \in Receipts
    /\ MarkAcked(p, m)
    /\ UNCHANGED <<messages, known, transcript, process>>

GetThread(p, t) ==
    /\ TakesPart(p, t)
    /\ known' = [known EXCEPT ![p] = @ \cup InThread(t)]
    /\ UNCHANGED <<messages, delivered, acked, events, transcript, process>>

------------------------------------------------------------------------------
(* The operator's HTTP handlers. *)

MarkRead(m) ==
    /\ <<m, Operator>> \in Receipts
    /\ Len(events) < MaxEvents
    /\ events' = Append(events, Entry("message_read", m, Operator))
    /\ UNCHANGED <<messages, delivered, acked, known, transcript, process>>

\* get_thread_transcript: the messages of the thread, then
ReadMessages(t) ==
    /\ transcript.reads = <<>>
    /\ transcript' = [transcript EXCEPT !.reads = <<"messages">>,
                                        !.shown = InThread(t)]
    /\ UNCHANGED <<messages, delivered, acked, events, known, process>>

EventsOf(M) == {events[i] : i \in {j \in DOMAIN events : events[j].message \in M}}

\* Mutant: the evidence is read before what it is evidence of.
EventsFirst == <<"messages", "events", "receipts">>

ReadOrder == <<"messages", "receipts", "events">>

\* their receipts, and last their events, each a SELECT of its own.
\* _message_detail is given these rows and reads none itself.
ReadRows(table) ==
    LET rows == transcript.shown \X Participants
    IN  /\ Len(transcript.reads) \in {1, 2}
        /\ table = ReadOrder[Len(transcript.reads) + 1]
        /\ transcript' =
              IF table = "receipts"
              THEN [transcript EXCEPT !.reads = Append(@, table),
                                      !.delivered = delivered \cap rows,
                                      !.acked = acked \cap rows]
              ELSE [transcript EXCEPT !.reads = Append(@, table),
                                      !.log = EventsOf(transcript.shown)]
        /\ UNCHANGED <<messages, delivered, acked, events, known, process>>

CloseTranscript ==
    /\ Len(transcript.reads) = 3
    /\ transcript' = NoTranscript
    /\ UNCHANGED <<messages, delivered, acked, events, known, process>>

------------------------------------------------------------------------------
(* The process. *)

\* A restart reads the file anew; the operator's requests in flight are lost.
Restart ==
    /\ edition' \in edition..Len(Editions)
    /\ since' = [p \in Participants |->
                   IF p \in Direct /\ p \notin Direct' THEN Len(messages) ELSE since[p]]
    /\ transcript' = NoTranscript
    /\ UNCHANGED <<messages, delivered, acked, events, known>>

------------------------------------------------------------------------------
(* Every tool verifies the caller against the registry. *)
ParticipantStep(p) ==
    /\ p \in Registered
    /\ \/ \E t \in {0} \cup Threads, to \in SUBSET Participants \ {{}} :
             Send(p, t, to)
       \/ Poll(p)
       \/ PollUnanswered(p)
       \/ \E m \in Ids : Ack(p, m)
       \/ \E t \in Threads : GetThread(p, t)

OperatorStep ==
    \/ \E m \in Ids : MarkRead(m)
    \/ \E t \in Threads : ReadMessages(t)
    \/ \E table \in {"receipts", "events"} : ReadRows(table)
    \/ CloseTranscript

Next == (\E p \in Participants : ParticipantStep(p)) \/ OperatorStep \/ Restart

Spec == Init /\ [][Next]_vars

\* Participants that are registered keep polling and acknowledge what they are
\* given; not every answer is lost.
FairSpec ==
    /\ Spec
    /\ \A p \in Participants : WF_vars(p \in Registered /\ Poll(p))
    /\ \A p \in Participants : WF_vars(p \in Registered /\ \E m \in Ids : Ack(p, m))
=============================================================================
