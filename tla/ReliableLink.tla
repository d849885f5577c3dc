---------------------------- MODULE ReliableLink ----------------------------
(***************************************************************************)
(* What one direction of a session promises for reliable messages          *)
(* (src/docs/architecture.md, "Delivery Modes"): every message handed to   *)
(* the sender reaches the receiving application exactly once; the ordered  *)
(* ones arrive in the order they were sent.                                *)
(***************************************************************************)
EXTENDS Integers, Sequences

CONSTANTS
    Modes,      \* the reliable delivery modes
    Ordered     \* the one that keeps the order

VARIABLES
    sent,       \* the mode of every message sent so far
    delivered   \* the messages delivered, as positions in sent

linkVars == <<sent, delivered>>

DeliveredOnce(d) == \A i, j \in DOMAIN d : d[i] = d[j] => i = j

\* Before an ordered message, every ordered message sent earlier.
DeliveredInOrder(d) ==
    \A j \in DOMAIN d : sent[d[j]] = Ordered =>
        \A m \in 1 .. (d[j] - 1) : sent[m] = Ordered =>
            \E i \in 1 .. (j - 1) : d[i] = m

Init == sent = <<>> /\ delivered = <<>>

Send == \E mode \in Modes : sent' = Append(sent, mode) /\ UNCHANGED delivered

\* Hand over one or more messages.
Deliver ==
    /\ Len(delivered') > Len(delivered)
    /\ SubSeq(delivered', 1, Len(delivered)) = delivered
    /\ \A j \in DOMAIN delivered' : delivered'[j] \in 1 .. Len(sent)
    /\ DeliveredOnce(delivered')
    /\ DeliveredInOrder(delivered')
    /\ UNCHANGED sent

Next == Send \/ Deliver

Spec == Init /\ [][Next]_linkVars

=============================================================================
