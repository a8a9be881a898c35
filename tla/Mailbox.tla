------------------------------ MODULE Mailbox ------------------------------
(***************************************************************************)
(* What direct messages promise, told by the log alone: mail is posted to  *)
(* its recipients, handed over oldest first as long as it is not settled,  *)
(* as often as its recipient asks, and settled once.                       *)
(***************************************************************************)
EXTENDS Naturals, Sequences, FiniteSets

CONSTANTS Participants,
          PollLimit     \* mail handed over at a time

VARIABLES mail,   \* posted mail, in order: its recipients
          log     \* what happened to it

mailbox == <<mail, log>>

Happened(kind, m, p) == [kind |-> kind, message |-> m, who |-> p]

Mail == DOMAIN mail

\* Handed over to p again and again until p has settled it.
Unsettled(p) ==
    {m \in Mail : p \in mail[m] /\ \A i \in DOMAIN log : log[i] # Happened("message_acked", m, p)}

\* The first PollLimit of them.
Due(p) == {m \in Unsettled(p) : Cardinality({n \in Unsettled(p) : n < m}) < PollLimit}

MailboxInit == mail = <<>> /\ log = <<>>

Post(p, to) ==
    /\ mail' = Append(mail, to)
    /\ log' = Append(log, Happened("message_sent", Len(mail) + 1, p))

HandOver(p) ==
    /\ Due(p) # {}
    /\ \E order \in [1..Cardinality(Due(p)) -> Due(p)] :
           /\ \A i, j \in DOMAIN order : i < j => order[i] < order[j]
           /\ log' = log \o [i \in DOMAIN order |-> Happened("message_polled", order[i], p)]
    /\ UNCHANGED mail

Settle(p, m) ==
    /\ m \in Unsettled(p)
    /\ log' = Append(log, Happened("message_acked", m, p))
    /\ UNCHANGED mail

\* The operator ticks off what was sent to it, settled or not.
Tick(p, m) ==
    /\ m \in Mail /\ p \in mail[m]
    /\ log' = Append(log, Happened("message_read", m, p))
    /\ UNCHANGED mail

MailboxNext ==
    \E p \in Participants :
        \/ \E to \in SUBSET (Participants \ {p}) \ {{}} : Post(p, to)
        \/ HandOver(p)
        \/ \E m \in Mail : Settle(p, m) \/ Tick(p, m)

MailboxSpec == MailboxInit /\ [][MailboxNext]_mailbox
=============================================================================
