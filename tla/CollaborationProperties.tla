----------------------- MODULE CollaborationProperties -----------------------
(***************************************************************************)
(* What operator-mediated collaboration must guarantee.                    *)
(***************************************************************************)
EXTENDS Collaboration

(* Every table and every request keeps its shape; a receipt is acked only  *)
(* after it was delivered, and only recipients have receipts               *)
(* (collab_receipts_state_guard, collab_receipts_require_decision_recipient). *)
TypeOK ==
    /\ drafts \in Seq(Draft)
    /\ decisions \in Seq(Decision)
    /\ Len(decisions) = Len(drafts)
    /\ \A d \in Drafts : drafts[d].thread \in 1..d
    /\ delivered \subseteq Receipts
    /\ acked \subseteq delivered
    /\ known \in [Agents -> SUBSET [draft : Nat, content : Contents]]
    /\ calls \in [Calls -> Call]
    /\ clock \in Nat

(* Recipient visibility is approval-gated: whatever poll or get_thread has *)
(* ever shown an agent is its own writing, or what the operator released,  *)
(* in the form and to the audience of the one decision on it.  A draft's   *)
(* original recipients learn nothing from a rejection, and nothing of what *)
(* an edit or a redirection took away from them.                           *)
DisclosedOnlyAsDecided ==
    \A a \in Agents : \A s \in known[a] :
        /\ s.draft \in Drafts
        /\ \/ drafts[s.draft].from = a
           \/ /\ decisions[s.draft].type \in Approvals
              /\ decisions[s.draft].content = s.content
              /\ a \in decisions[s.draft].to

(* No agent writes in a thread it was not brought into: it opened the      *)
(* thread, or an earlier message there was released to it.  Being named in *)
(* a draft that is still pending, or was rejected, is no invitation.       *)
AuthorsWereInvited ==
    \A d \in Drafts :
        LET a == drafts[d].from
            t == drafts[d].thread
        IN  a \in Agents /\ drafts[t].from # a =>
                \E e \in 1..(d - 1) : /\ drafts[e].thread = t
                                      /\ a \in decisions[e].to

(* A sender's correlation id names one draft, however many of its requests *)
(* were in flight when the first was written.                              *)
CorrelationsAreUnique ==
    \A d, e \in Drafts :
        /\ drafts[d].from = drafts[e].from
        /\ drafts[d].corr = drafts[e].corr
        => d = e

(* What an operator was told is so: after "recorded" or "existing", the    *)
(* draft is in the store and carries the very decision that was asked for, *)
(* whatever the other operators' requests did meanwhile.                   *)
RepliesAreTruthful ==
    \A c \in Calls :
        calls[c].status \in {"recorded", "existing"} =>
            /\ calls[c].draft \in Drafts
            /\ SameForm(decisions[calls[c].draft], calls[c].decision)

(* A ruling is final: no step changes or withdraws a recorded decision,    *)
(* and no draft, once submitted, changes.                                  *)
RulingsAreFinal ==
    [][/\ \A d \in Drafts : d \in Drafts' /\ drafts'[d] = drafts[d]
       /\ \A d \in Drafts : decisions[d].type # "pending"
                               => decisions'[d] = decisions[d]]_vars

(* A released message is settled by all its recipients in the end: agents  *)
(* that keep polling and acknowledge what they get are given it, though    *)
(* answers are lost, the broker restarts in the middle of a batch, and a   *)
(* request that took its timestamp early commits late, behind messages     *)
(* already acknowledged.                                                   *)
EventuallyAcked ==
    \A d \in 1..Cardinality(Participants \X Correlations) :
        (d \in Drafts /\ \E a \in Agents : <<d, a>> \in Receipts)
            ~> (\A a \in Agents : <<d, a>> \in Receipts => <<d, a>> \in acked)

(* The implementation keeps the promise of Gate.                           *)
Ruling(d) ==
    CASE d.type = "pending" -> [verdict |-> "unruled"]
      [] d.type = "reject"  -> [verdict |-> "held"]
      [] OTHER -> [verdict |-> "released", form |-> d.content, audience |-> d.to]

TheGate == INSTANCE Gate WITH
    People   <- Agents,
    Forms    <- Contents,
    rulings  <- [d \in Drafts |-> Ruling(decisions[d])],
    received <- delivered,
    settled  <- acked

ImplementsGate == TheGate!Spec
=============================================================================
