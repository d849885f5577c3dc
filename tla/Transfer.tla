------------------------------ MODULE Transfer ------------------------------
(***************************************************************************)
(* One direction of an established session: the sender's worker, the       *)
(* network, the receiver's worker and the acknowledgements coming back.    *)
(* Client and server run the same code for this part.                      *)
(*                                                                         *)
(* The network keeps a datagram until it loses it, so a datagram may       *)
(* arrive any number of times, in any order, or never.  Time is left out:  *)
(* a retransmission timer may run out whenever its slot is not acked.      *)
(*                                                                         *)
(* Reliable message number n (counted from 1) is sent with sequence        *)
(* number SeqOf(n), and its payload is n; unreliable ones are counted      *)
(* apart, like in the code.                                                *)
(***************************************************************************)
EXTENDS Window

CONSTANTS
    SendCapacity, RecvCapacity, \* window sizes of the two ends
    InitSeq,                    \* 1 in the code
    MaxReady,                   \* slots drained at a time: 64 in the code
    MaxExpired,                 \* slots retransmitted at a time: 16 in the code
    Lifetime,                   \* no datagram survives this many newer messages
    MaxReliable, MaxUnreliable  \* bounds: messages of each kind

ASSUME TransferAssumption ==
    /\ SendCapacity \in Nat /\ SendCapacity >= 2
    /\ RecvCapacity \in Nat /\ RecvCapacity >= 2
    /\ SeqMod % SendCapacity = 0 /\ SeqMod % RecvCapacity = 0
    /\ InitSeq \in SeqSpace
    /\ MaxReady \in Nat \ {0} /\ MaxExpired \in Nat \ {0}
    /\ SackBits \in Nat /\ SackBits < SeqMod \div 2
    /\ CountMod \in Nat \ {0}
    /\ Lifetime \in Nat /\ SendCapacity <= Lifetime
    /\ RecvCapacity < SeqMod \div 2 /\ Lifetime < SeqMod \div 2
    /\ MaxReliable \in Nat /\ MaxUnreliable \in Nat

VARIABLES
    send_win, recv_win,
    draining,       \* where the receiver's worker is in its drain loop
    ack_pending,
    data_net,       \* data datagrams in the network
    ack_net,        \* acknowledgements in the network
    sent,           \* history: the modes of the reliable messages sent
    sent_unrel,     \* history: number of unreliable messages sent
    head, expected, \* history: head_seq and expected_seq as message numbers
    delivered,      \* history: reliable messages given to the application
    delivered_uo    \* history: unreliable ordered messages given to it

senderVars == <<send_win, sent, sent_unrel, head>>
receiverVars == <<recv_win, draining, ack_pending, expected, delivered,
                  delivered_uo>>
netVars == <<data_net, ack_net>>
vars == <<senderVars, receiverVars, netVars>>

SeqOf(n) == seq_add(InitSeq, n - 1)

Packet(mode, seq_num, payload) ==
    [delivery_mode |-> mode, seq_num |-> seq_num, payload |-> payload]

\* The datagrams that are not too old once the counters are as given.
FreshData(net, reliable, unreliable) ==
    {p \in net : (IF p.delivery_mode \in ReliableModes
                  THEN reliable ELSE unreliable) - p.payload < Lifetime}

FreshAcks(net, reliable) == {a \in net : reliable - a.upto <= Lifetime}

Init ==
    /\ send_win = send_window_init(SendCapacity, InitSeq)
    /\ recv_win = recv_window_init(RecvCapacity, InitSeq)
    /\ draining = "idle"
    /\ ack_pending = FALSE
    /\ data_net = {} /\ ack_net = {}
    /\ sent = <<>> /\ sent_unrel = 0
    /\ head = 1 /\ expected = 1
    /\ delivered = <<>> /\ delivered_uo = <<>>

-----------------------------------------------------------------------------
(* Sender *)

\* One turn of the loop that drains the send queue into the window.
SendReliable(mode) ==
    /\ Len(sent) < MaxReliable
    /\ send_window_can_send(send_win)
    /\ sent' = Append(sent, mode)
    /\ send_win' = send_window_push(send_win, mode, Len(sent) + 1, 0)
    /\ data_net' = FreshData(data_net, Len(sent) + 1, sent_unrel) \cup
                   {Packet(mode, PushSeq(send_win, mode), Len(sent) + 1)}
    /\ ack_net' = FreshAcks(ack_net, Len(sent) + 1)
    /\ UNCHANGED <<sent_unrel, head, receiverVars>>

\* The queue is drained only while the window has room, so an unreliable
\* message waits for the reliable ones too.
SendUnreliable(mode) ==
    /\ sent_unrel < MaxUnreliable
    /\ send_window_can_send(send_win)
    /\ sent_unrel' = sent_unrel + 1
    /\ send_win' = send_window_push(send_win, mode, sent_unrel + 1, 0)
    /\ data_net' = FreshData(data_net, Len(sent), sent_unrel + 1) \cup
                   {Packet(mode, PushSeq(send_win, mode), sent_unrel + 1)}
    /\ UNCHANGED <<sent, head, ack_net, receiverVars>>

\* The timers of a set of slots ran out: get_expired returns the oldest
\* MaxExpired of them, and they are sent again.
Retransmit(expired) ==
    /\ expired # {}
    /\ LET seqs == send_window_get_expired(expired, MaxExpired)
       IN  /\ send_win' = MarkRetransmitted(send_win, seqs, 0)
           /\ data_net' = data_net \cup
                {Packet(SlotOf(send_win, s).delivery_mode, s,
                        SlotOf(send_win, s).payload) : s \in seqs}
    /\ UNCHANGED <<sent, sent_unrel, head, ack_net, receiverVars>>

ReceiveAck(a) ==
    /\ send_win' = send_window_on_ack(send_win, a.ack_num, a.sack_mask)
    /\ head' = head + seq_diff(send_win'.head_seq, send_win.head_seq)
    /\ UNCHANGED <<sent, sent_unrel, netVars, receiverVars>>

-----------------------------------------------------------------------------
(* Receiver *)

\* The payloads of ready slots, when they are of the given modes: they are all
\* reliable, or there is one, and it is unreliable.
Payloads(slots, modes) ==
    IF \A i \in DOMAIN slots : slots[i].delivery_mode \in modes
    THEN [i \in DOMAIN slots |-> slots[i].payload]
    ELSE <<>>

\* Ready slots go to the receive queue.
HandOver(r) ==
    /\ recv_win' = r.win
    /\ expected' = expected + seq_diff(r.win.expected_seq, recv_win.expected_seq)
    /\ delivered' = delivered \o Payloads(r.ready, ReliableModes)
    /\ delivered_uo' = delivered_uo \o Payloads(r.ready, {UNRELIABLE_ORDERED})

\* faulty variant: one pop of ready slots is taken to be enough
ReceiveData_OnePop(p) ==
    LET r == recv_window_on_packet(recv_win, p.delivery_mode, p.seq_num,
                                   p.payload, MaxReady)
    IN  /\ draining = "idle"
        /\ HandOver(r)
        /\ ack_pending' = (ack_pending \/ r.ret \in {0, 1})
        /\ UNCHANGED <<draining, senderVars, netVars>>

\* faulty variant: a duplicate is not acknowledged again
ReceiveData_NoReAck(p) ==
    LET r == recv_window_on_packet(recv_win, p.delivery_mode, p.seq_num,
                                   p.payload, MaxReady)
    IN  /\ draining = "idle"
        /\ HandOver(r)
        /\ draining' = CASE r.ret = 0 /\ Len(r.ready) = MaxReady -> "fresh"
                         [] r.ret = 1 -> "duplicate"
                         [] OTHER -> "idle"
        /\ ack_pending' = (ack_pending \/ r.ret = 0)
        /\ UNCHANGED <<senderVars, netVars>>

\* A data datagram arrives.  The worker then keeps popping ready slots: after
\* a fresh packet while it gets MaxReady of them, after a duplicate while it
\* gets any.
ReceiveData(p) ==
    LET r == recv_window_on_packet(recv_win, p.delivery_mode, p.seq_num,
                                   p.payload, MaxReady)
    IN  /\ draining = "idle"
        /\ HandOver(r)
        /\ draining' = CASE r.ret = 0 /\ Len(r.ready) = MaxReady -> "fresh"
                         [] r.ret = 1 -> "duplicate"
                         [] OTHER -> "idle"
        /\ ack_pending' = (ack_pending \/ r.ret \in {0, 1})
        /\ UNCHANGED <<senderVars, netVars>>

DrainMore ==
    LET r == recv_window_pop_ready(recv_win, MaxReady)
    IN  /\ draining # "idle"
        /\ HandOver(r)
        /\ draining' = CASE draining = "fresh" /\ Len(r.ready) < MaxReady -> "idle"
                         [] draining = "duplicate" /\ r.ready = <<>> -> "idle"
                         [] OTHER -> draining
        /\ UNCHANGED <<ack_pending, senderVars, netVars>>

\* Every datagram the receiver sends carries its acknowledgement.
EmitAckInfo ==
    LET info == recv_window_get_ack_info(recv_win)
    IN  /\ draining = "idle"
        /\ ack_net' = ack_net \cup {[ack_num |-> info.ack_num,
                          sack_mask |-> info.sack_mask, upto |-> expected - 1]}
        /\ ack_pending' = FALSE
        /\ UNCHANGED <<recv_win, draining, expected, delivered, delivered_uo,
                       data_net, senderVars>>

SendAck == ack_pending /\ EmitAckInfo

\* Heartbeats, heartbeat answers and the data of the other direction.
SendOther == ~ack_pending /\ EmitAckInfo

-----------------------------------------------------------------------------
(* Network.  A datagram lost during a drain may as well be lost after it. *)

LoseData(p) ==
    /\ draining = "idle"
    /\ data_net' = data_net \ {p}
    /\ UNCHANGED <<ack_net, senderVars, receiverVars>>

LoseAck(a) ==
    /\ draining = "idle"
    /\ ack_net' = ack_net \ {a}
    /\ UNCHANGED <<data_net, senderVars, receiverVars>>

Next ==
    \/ \E mode \in ReliableModes : SendReliable(mode)
    \/ \E mode \in UnreliableModes : SendUnreliable(mode)
    \/ \E expired \in SUBSET Unacked(send_win) : Retransmit(expired)
    \/ \E a \in ack_net : ReceiveAck(a) \/ LoseAck(a)
    \/ \E p \in data_net : ReceiveData(p) \/ LoseData(p)
    \/ DrainMore
    \/ SendAck
    \/ SendOther

Spec == Init /\ [][Next]_vars

-----------------------------------------------------------------------------
(* Properties *)

\* The sender takes message n for acknowledged.
Acked(n) == n < head \/ SlotOf(send_win, SeqOf(n)).acked

\* Message n is in the receiver's hands: passed over, or in a slot.
Arrived(n) ==
    \/ n < expected
    \/ n < expected + RecvCapacity /\ Received(recv_win, SeqOf(n))

\* The send window describes exactly the messages from head to the last one
\* sent: each has its own slot with its payload, in_flight counts those not
\* acked, and no slot outside is in use (rel4u_window.c, push and on_ack).
SendWindowInv ==
    /\ send_win.head_seq = SeqOf(head)
    /\ send_win.next_seq = SeqOf(Len(sent) + 1)
    /\ head \in 1 .. (Len(sent) + 1)
    /\ Len(sent) + 1 - head <= SendCapacity
    /\ \A n \in head .. Len(sent) :
        /\ InUse(send_win, SeqOf(n))
        /\ SlotOf(send_win, SeqOf(n)).payload = n
        /\ SlotOf(send_win, SeqOf(n)).delivery_mode = sent[n]
    /\ send_win.in_flight = Cardinality(Unacked(send_win))
    /\ Cardinality({i \in DOMAIN send_win.slots : send_win.slots[i].in_use})
        = Len(sent) + 1 - head

\* A received slot holds a message of the window [expected, expected + capacity)
\* at its own place (rel4u_window.c, on_packet and pop_ready).
RecvWindowInv ==
    /\ recv_win.expected_seq = SeqOf(expected)
    /\ \A i \in DOMAIN recv_win.slots : recv_win.slots[i].received =>
        \E n \in expected .. (expected + RecvCapacity - 1) :
            /\ recv_win.slots[i].seq_num = SeqOf(n)
            /\ SlotIdx(recv_win, SeqOf(n)) = i
            /\ recv_win.slots[i].payload = n

\* The sender never gives up a message the receiver does not have, whatever
\* stale, repeated or reordered acknowledgements come in.
NoFalseAck == \A n \in 1 .. Len(sent) : Acked(n) => Arrived(n)

\* Between two datagrams no message that could be delivered is left in the
\* receive window: the drain loops really drain.
NothingStuck ==
    draining = "idle" => ~Received(recv_win, recv_win.expected_seq)

\* Unreliable ordered messages never go back.
UnreliableInOrder ==
    \A i \in 2 .. Len(delivered_uo) : delivered_uo[i - 1] < delivered_uo[i]

\* The direction implements what it promises for reliable messages.
Link == INSTANCE ReliableLink WITH Modes <- ReliableModes,
                                   Ordered <- RELIABLE_ORDERED
LinkSpec == Link!Spec

\* Receiving reliable message n, the first time or again.
ReceiveMessage(n) ==
    \E p \in data_net : /\ p.delivery_mode \in ReliableModes
                        /\ p.payload = n
                        /\ ReceiveData(p)

\* The timer of the oldest slot runs; the receiving worker comes back from
\* its socket loop to its timers; and a datagram that is sent again and again,
\* with the message waited for, the one not released yet, or news for the
\* sender, arrives some day.
Fairness ==
    /\ WF_vars(\E expired \in SUBSET Unacked(send_win) :
                  send_win.head_seq \in expired /\ Retransmit(expired))
    /\ WF_vars(DrainMore)
    /\ SF_vars(SendAck)
    /\ SF_vars(ReceiveMessage(expected))
    /\ SF_vars(ReceiveMessage(head))
    /\ SF_vars(\E a \in ack_net : a.upto >= head /\ ReceiveAck(a))

FairSpec == Spec /\ Fairness

\* Every reliable message is delivered and its slot released.
EventuallyDelivered ==
    \A n \in 1 .. MaxReliable :
        Len(sent) >= n ~>
            head > n /\ \E i \in DOMAIN delivered : delivered[i] = n

=============================================================================
