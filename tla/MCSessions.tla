----------------------------- MODULE MCSessions -----------------------------
(* Instances of ServerSessions for TLC.  Addresses are interchangeable. *)
EXTENDS ServerSessions, TLC

AddrSymmetry == Permutations(Addrs)
=============================================================================
