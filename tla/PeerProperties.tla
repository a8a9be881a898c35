--------------------------- MODULE PeerProperties ---------------------------
(***************************************************************************)
(* What direct messages between participants must guarantee.               *)
(***************************************************************************)
EXTENDS PeerDelivery

(* Every table keeps its shape; only recipients have receipts, and a       *)
(* receipt is acked only if it is delivered (peer_receipts_state_guard).   *)
TypeOK ==
    /\ messages \in Seq(Message)
    /\ \A m \in Ids : messages[m].thread \in 1..m
    /\ delivered \subseteq Receipts
    /\ acked \subseteq delivered
    /\ events \in Seq(Event)
    /\ known \in [Participants -> SUBSET Ids]
    /\ transcript.reads = SubSeq(ReadOrder, 1, Len(transcript.reads))
    /\ transcript.shown \subseteq Ids
    /\ edition \in DOMAIN Editions
    /\ since \in [Participants -> 0..Len(messages)]

Logged(kind, m, p) == {i \in DOMAIN events : events[i] = Entry(kind, m, p)}

(* The audit log and the receipts tell the same story (peer_store.py:       *)
(* "state changes and audit evidence commit together"): a message was sent *)
(* once, by its author; a receipt is acked exactly if one ack of it is     *)
(* logged, and delivered exactly if a poll or an ack of it is logged.      *)
AuditMatchesReceipts ==
    /\ \A m \in Ids : Cardinality(Logged("message_sent", m, messages[m].from)) = 1
    /\ \A m \in Ids, p \in Participants :
          /\ Cardinality(Logged("message_acked", m, p))
                = IF <<m, p>> \in acked THEN 1 ELSE 0
          /\ <<m, p>> \in delivered
                <=> Logged("message_acked", m, p) \cup Logged("message_polled", m, p) # {}

(* Who is governed or has been taken out of the registry stays out of the  *)
(* direct lane, whatever the others send, broadcasts and replies in old    *)
(* threads included: since it left, nothing from it or for it has been     *)
(* stored, and all it can ever have been shown are the threads it took     *)
(* part in before (DESIGN.md, the bypass boundary is participant-level).   *)
GovernedStayOut ==
    \A p \in Participants :
        /\ p \notin Direct =>
              \A m \in Ids : m > since[p] =>
                  p # messages[m].from /\ p \notin messages[m].to
        /\ \A m \in known[p] : TakesPart(p, messages[m].thread)

(* A transcript put together while the tools go on writing never shows a   *)
(* receipt without its evidence: whoever it shows as having received or    *)
(* acknowledged a message, it shows the event that says so.                *)
TranscriptIsWitnessed ==
    Len(transcript.reads) = 3 =>
        /\ \A r \in transcript.acked :
              Entry("message_acked", r[1], r[2]) \in transcript.log
        /\ \A r \in transcript.delivered :
              \/ Entry("message_acked", r[1], r[2]) \in transcript.log
              \/ Entry("message_polled", r[1], r[2]) \in transcript.log

(* Every message reaches its recipients: who stays registered, keeps       *)
(* polling and acks what it gets is given each message sent to it, though  *)
(* answers are lost, the broker restarts and it is governed by now.        *)
EventuallyReceived ==
    \A m \in 1..MaxMessages, p \in Participants :
        <>[](p \in Registered) =>
            ((m \in Ids /\ <<m, p>> \in Receipts)
                ~> (m \in known[p] /\ <<m, p>> \in acked))

(* The tables and the log implement the abstract mailbox: what is handed   *)
(* over is always the oldest mail its recipient has not settled, and mail  *)
(* is settled once (peer_store.py, poll_messages_batched and ack_message). *)
Box == INSTANCE Mailbox WITH
    mail <- [m \in Ids |-> messages[m].to],
    log <- events

ImplementsMailbox == Box!MailboxSpec
=============================================================================
