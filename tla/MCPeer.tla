------------------------------- MODULE MCPeer -------------------------------
(* The instance of PeerDelivery for TLC. *)
EXTENDS PeerProperties

\* Everyone but the operator is direct at first, then taken out of the registry,
\* or governed, or both in turn.
Standing(others) == [p \in Participants |-> IF p = Operator THEN "direct" ELSE others]
Migration == <<Standing("direct"), Standing("absent"), Standing("governed")>>
=============================================================================
