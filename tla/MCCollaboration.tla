--------------------------- MODULE MCCollaboration ---------------------------
(* The instance of Collaboration for TLC is given in the configuration. *)
EXTENDS CollaborationProperties
=============================================================================
