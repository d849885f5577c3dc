------------------------------- MODULE MCRtt --------------------------------
(* Instances of Rtt for TLC. *)
EXTENDS Rtt
=============================================================================
