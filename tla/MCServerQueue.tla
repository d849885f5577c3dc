--------------------------- MODULE MCServerQueue ---------------------------
(* Instances of ServerQueue for TLC. *)
EXTENDS ServerQueue

MCItems == 1 .. MaxMessages
MCLenOf(m) == 0

\* Three messages, so that one waits behind a pending one; and a restart.
MCLimits == {[messages |-> 3, sessions |-> 3, runs |-> 1],
             [messages |-> 2, sessions |-> 2, runs |-> 2]}
=============================================================================
