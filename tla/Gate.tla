-------------------------------- MODULE Gate --------------------------------
(***************************************************************************)
(* What operator-mediated collaboration promises, without saying how.      *)
(*                                                                         *)
(* A message starts unruled.  It is ruled on once: held back for good, or  *)
(* released, in one form, to one audience.  Each member of the audience    *)
(* receives it and afterwards acknowledges it.  A message the operator     *)
(* writes is submitted and released in one step.                           *)
(***************************************************************************)
EXTENDS Naturals, Sequences

CONSTANTS People,      \* who can be addressed
          Forms        \* the forms a message can be released in

VARIABLES rulings,     \* message number -> its ruling
          received,    \* <<message, person>>: handed over at least once
          settled      \* <<message, person>>: acknowledged

gateVars == <<rulings, received, settled>>

Unruled == [verdict |-> "unruled"]
Held    == [verdict |-> "held"]

Released == [verdict : {"released"}, form : Forms, audience : SUBSET People]

Addressed(p) ==
    {m \in DOMAIN rulings : /\ rulings[m] \in Released
                            /\ p \in rulings[m].audience}

Init ==
    /\ rulings = <<>>
    /\ received = {}
    /\ settled = {}

Submit ==
    /\ rulings' = Append(rulings, Unruled)
    /\ UNCHANGED <<received, settled>>

Rule(m) ==
    /\ rulings[m] = Unruled
    /\ \E r \in {Held} \cup Released : rulings' = [rulings EXCEPT ![m] = r]
    /\ UNCHANGED <<received, settled>>

Publish ==
    /\ \E r \in Released : rulings' = Append(rulings, r)
    /\ UNCHANGED <<received, settled>>

\* One person is handed some of the messages addressed to it.
HandOver(p) ==
    /\ \E M \in SUBSET Addressed(p) :
          received' = received \cup (M \X {p})
    /\ UNCHANGED <<rulings, settled>>

Settle(m, p) ==
    /\ <<m, p>> \in received
    /\ settled' = settled \cup {<<m, p>>}
    /\ UNCHANGED <<rulings, received>>

Next ==
    \/ Submit
    \/ \E m \in DOMAIN rulings : Rule(m)
    \/ Publish
    \/ \E p \in People : HandOver(p)
    \/ \E m \in DOMAIN rulings, p \in People : Settle(m, p)

Spec == Init /\ [][Next]_gateVars
=============================================================================
