--------------------------- MODULE TransferLemmas ---------------------------
(***************************************************************************)
(* What the operations of the two windows do, for all window sizes and     *)
(* anywhere in the sequence space: the ground for TransferProofs.  A       *)
(* window is described by the numbers of the messages it stands for, which *)
(* do not wrap; TransferInv at the end of the second section is the        *)
(* inductive invariant of Transfer.                                        *)
(***************************************************************************)
EXTENDS Transfer, ArithmeticLemmas, FiniteSetTheorems, SequenceTheorems, TLAPS

-----------------------------------------------------------------------------
(* Sequence numbers *)

\* Half is how far apart two sequence numbers may be to be compared.
Half == SeqMod \div 2

\* The sizes of the windows and of the sequence space.
LEMMA Sizes ==
    /\ SeqMod \in Nat \ {0} /\ Half \in Nat /\ SeqMod = 2 * Half
    /\ SendCapacity \in Nat \ {0} /\ SendCapacity <= Lifetime
    /\ RecvCapacity \in Nat \ {0} /\ RecvCapacity < Half
    /\ Lifetime \in Nat /\ Lifetime < Half
    /\ SackBits \in Nat /\ SackBits < Half
    /\ InitSeq \in Int
    /\ SeqMod % SendCapacity = 0 /\ SeqMod % RecvCapacity = 0
  BY SeqModAssumption, TransferAssumption DEF Half, SeqSpace

\* The difference of two numbers less than half of the space apart is what the
\* code computes (rel4u_seq_diff), also across the wrap.
LEMMA DiffRight ==
    ASSUME NEW a \in Int, NEW b \in Int, -Half <= a - b, a - b < Half
    PROVE  seq_diff(a % SeqMod, b % SeqMod) = a - b
PROOF
  <1>1. ((a % SeqMod) - (b % SeqMod)) % SeqMod = (a - b) % SeqMod
    BY Zenon, Sizes, ModSub
  <1>2. CASE a - b >= 0
    <2>1. a - b = SeqMod * 0 + (a - b) /\ a - b \in 0 .. (SeqMod - 1)
      BY <1>2, Sizes
    <2>2. (a - b) % SeqMod = a - b
      BY <2>1, Sizes, ModUnique
    <2> QED BY <1>1, <1>2, <2>2 DEF seq_diff, Half
  <1>3. CASE a - b < 0
    <2>1. /\ a - b = SeqMod * (-1) + (a - b + SeqMod)
          /\ a - b + SeqMod \in 0 .. (SeqMod - 1)
      BY <1>3, Sizes
    <2>2. (a - b) % SeqMod = a - b + SeqMod
      BY <2>1, Sizes, ModUnique
    <2>3. a - b + SeqMod >= Half
      BY Sizes
    <2> QED BY <1>1, <1>3, <2>2, <2>3, Sizes DEF seq_diff, Half
  <1> QED BY <1>2, <1>3

\* The number of a message.
LEMMA SeqOfType ==
    ASSUME NEW n \in Int
    PROVE  SeqOf(n) \in SeqSpace /\ SeqOf(n) \in Int
  BY Sizes, DivMod DEF SeqOf, seq_add, SeqSpace

\* Counting on from a message's number.
LEMMA SeqOfAdd ==
    ASSUME NEW n \in Int, NEW k \in Int
    PROVE  seq_add(SeqOf(n), k) = SeqOf(n + k)
PROOF
  <1> DEFINE x == InitSeq + (n - 1)
  <1>1. x \in Int /\ x + k = InitSeq + (n + k - 1) /\ SeqMod \in Nat \ {0}
    BY Sizes
  <1> HIDE DEF x
  <1>2. ((x % SeqMod) + k) % SeqMod = (x + k) % SeqMod
    BY Zenon, <1>1, ModAdd
  <1> QED BY <1>1, <1>2 DEF SeqOf, seq_add, x

\* The distance of two messages from their numbers.
LEMMA SeqOfDiff ==
    ASSUME NEW a \in Int, NEW b \in Int, -Half <= a - b, a - b < Half
    PROVE  seq_diff(SeqOf(a), SeqOf(b)) = a - b
PROOF
  <1> DEFINE x == InitSeq + (a - 1)
             y == InitSeq + (b - 1)
  <1>1. x \in Int /\ y \in Int /\ x - y = a - b
    BY Sizes
  <1>2. SeqOf(a) = x % SeqMod /\ SeqOf(b) = y % SeqMod
    BY DEF SeqOf, seq_add
  <1> HIDE DEF x, y
  <1> QED BY Zenon, <1>1, <1>2, DiffRight

\* Messages less than half of the space apart have different numbers.
LEMMA SeqOfApart ==
    ASSUME NEW a \in Int, NEW b \in Int, -Half <= a - b, a - b < Half,
           SeqOf(a) = SeqOf(b)
    PROVE  a = b
PROOF
  <1>1. seq_diff(SeqOf(a), SeqOf(b)) = a - b /\ seq_diff(SeqOf(b), SeqOf(b)) = b - b
    BY SeqOfDiff, Sizes
  <1>2. b - b = 0
    OBVIOUS
  <1> QED BY <1>1, <1>2

\* The slot of a message in a window of C slots.
LEMMA SlotApart ==
    ASSUME NEW C \in Nat \ {0}, SeqMod % C = 0,
           NEW a \in Int, NEW b \in Int, a - b < C, b - a < C,
           SeqOf(a) % C = SeqOf(b) % C
    PROVE  a = b
PROOF
  <1> DEFINE x == InitSeq + (a - 1)
             y == InitSeq + (b - 1)
  <1>1. x \in Int /\ y \in Int /\ x - y = a - b /\ y - x = b - a
    BY Sizes
  <1>2. SeqOf(a) = x % SeqMod /\ SeqOf(b) = y % SeqMod
    BY DEF SeqOf, seq_add
  <1> HIDE DEF x, y
  <1>3. SeqOf(a) % C = x % C /\ SeqOf(b) % C = y % C
    <2>1. SeqMod \in Nat \ {0}
      BY Sizes
    <2>2. (x % SeqMod) % C = x % C /\ (y % SeqMod) % C = y % C
      BY Zenon, <1>1, <2>1, ModOfMod
    <2> QED BY <1>2, <2>2
  <1>4. x - y < C /\ y - x < C /\ x % C = y % C
    BY <1>1, <1>3
  <1>5. x = y
    BY Zenon, <1>1, <1>4, ModApart
  <1>6. a - b = 0
    BY <1>1, <1>5
  <1> QED BY <1>6

\* A slot index is one of the window's.
LEMMA SlotIndex ==
    ASSUME NEW C \in Nat \ {0}, NEW n \in Int
    PROVE  SeqOf(n) % C \in 0 .. (C - 1)
  BY SeqOfType, DivMod

-----------------------------------------------------------------------------
(* The invariant *)

Modes == ReliableModes \cup UnreliableModes
Payload == Nat \cup {NoPayload}

SendSlot == [seq_num : SeqSpace, first_sent_time : Nat, last_sent_time : Nat,
             retransmit_count : Nat, delivery_mode : Modes,
             in_use : BOOLEAN, acked : BOOLEAN, payload : Payload]
SendWindow == [capacity : {SendCapacity}, head_seq : SeqSpace,
               next_seq : SeqSpace, next_unrel_seq : SeqSpace, in_flight : Nat,
               slots : [0 .. (SendCapacity - 1) -> SendSlot]]

RecvSlot == [seq_num : SeqSpace, delivery_mode : Modes, received : BOOLEAN,
             payload : Payload]
RecvWindow == [capacity : {RecvCapacity}, expected_seq : SeqSpace,
               highest_unrel_seq : SeqSpace, has_highest_unrel : BOOLEAN,
               slots : [0 .. (RecvCapacity - 1) -> RecvSlot]]

\* The slots of message n at the two ends.
AtSender(n) == SeqOf(n) % SendCapacity
AtReceiver(n) == SeqOf(n) % RecvCapacity

\* The messages from h on that window win takes for not acknowledged.
Pending(win, h, msgs) ==
    {n \in h .. Len(msgs) : ~win.slots[AtSender(n)].acked}

\* Window win holds the messages from h to the last of msgs, each in its slot,
\* and nothing else.
SendHolds(win, h, msgs) ==
    /\ win \in SendWindow /\ msgs \in Seq(ReliableModes)
    /\ h \in 1 .. (Len(msgs) + 1) /\ Len(msgs) + 1 - h <= SendCapacity
    /\ win.head_seq = SeqOf(h) /\ win.next_seq = SeqOf(Len(msgs) + 1)
    /\ \A n \in h .. Len(msgs) :
        /\ win.slots[AtSender(n)].in_use
        /\ win.slots[AtSender(n)].seq_num = SeqOf(n)
        /\ win.slots[AtSender(n)].payload = n
        /\ win.slots[AtSender(n)].delivery_mode = msgs[n]
    /\ \A i \in 0 .. (SendCapacity - 1) : win.slots[i].in_use =>
        \E n \in h .. Len(msgs) : AtSender(n) = i
    /\ win.in_flight = Cardinality(Pending(win, h, msgs))

\* Slot holds message n of msgs.
Holds(slot, n, msgs) ==
    /\ slot.seq_num = SeqOf(n) /\ slot.payload = n
    /\ slot.delivery_mode = msgs[n]

\* Window win waits for message e, and what it has received is from there on.
RecvHolds(win, e, msgs) ==
    /\ win \in RecvWindow /\ msgs \in Seq(ReliableModes)
    /\ e \in 1 .. (Len(msgs) + 1)
    /\ win.expected_seq = SeqOf(e)
    /\ \A i \in 0 .. (RecvCapacity - 1) : win.slots[i].received =>
        \E n \in e .. (e + RecvCapacity - 1) :
            /\ n <= Len(msgs) /\ AtReceiver(n) = i
            /\ Holds(win.slots[i], n, msgs)

\* A data datagram carries a message sent not too long ago.
DataInv ==
    \A p \in data_net :
        /\ p = Packet(p.delivery_mode, SeqOf(p.payload), p.payload)
        /\ IF p.delivery_mode \in ReliableModes
           THEN /\ p.payload \in 1 .. Len(sent)
                /\ Len(sent) - p.payload < Lifetime
                /\ p.delivery_mode = sent[p.payload]
           ELSE /\ p.delivery_mode \in UnreliableModes
                /\ p.payload \in 1 .. sent_unrel
                /\ sent_unrel - p.payload < Lifetime

\* An acknowledgement names only messages that have arrived.
AckInv ==
    \A a \in ack_net :
        /\ a.upto \in 0 .. (expected - 1) /\ Len(sent) - a.upto <= Lifetime
        /\ a.ack_num = SeqOf(a.upto)
        /\ a.sack_mask \subseteq Nat
        /\ \A i \in a.sack_mask :
            a.upto + 1 + i <= Len(sent) /\ Arrived(a.upto + 1 + i)

\* So do the marks in the send window, and the two windows overlap.
MarksInv ==
    /\ head <= expected
    /\ \A n \in head .. Len(sent) :
        send_win.slots[AtSender(n)].acked => Arrived(n)

UnrelInv ==
    /\ sent_unrel \in Nat /\ send_win.next_unrel_seq = SeqOf(sent_unrel + 1)
    /\ delivered_uo \in Seq(1 .. sent_unrel)
    /\ IF recv_win.has_highest_unrel
       THEN /\ delivered_uo # <<>>
            /\ recv_win.highest_unrel_seq = SeqOf(delivered_uo[Len(delivered_uo)])
       ELSE delivered_uo = <<>>
    /\ UnreliableInOrder

\* Deliveries d, of messages msgs: each once, and the ordered ones in order.
Once(d) == \A i, j \in DOMAIN d : d[i] = d[j] => i = j

InTurn(d, msgs) ==
    \A j \in DOMAIN d : msgs[d[j]] = RELIABLE_ORDERED =>
        \A m \in 1 .. (d[j] - 1) : msgs[m] = RELIABLE_ORDERED =>
            \E i \in 1 .. (j - 1) : d[i] = m

\* A window that waits for message e has message n: passed over or in a slot.
Has(win, e, n) ==
    n < e \/ (n < e + RecvCapacity /\ Received(win, SeqOf(n)))

\* What was delivered: everything before e, and the unordered messages that
\* wait behind a gap for the window to pass them.
Delivery(d, win, e, msgs) ==
    /\ d \in Seq(1 .. Len(msgs))
    /\ \A n \in 1 .. Len(msgs) :
        (\E i \in DOMAIN d : d[i] = n) <=>
            n < e \/ (Has(win, e, n) /\ msgs[n] = RELIABLE_UNORDERED)
    /\ Once(d) /\ InTurn(d, msgs)

DeliveryInv == Delivery(delivered, recv_win, expected, sent)

WindowsInv ==
    /\ SendHolds(send_win, head, sent)
    /\ RecvHolds(recv_win, expected, sent)
    /\ MarksInv /\ DataInv /\ AckInv

TransferInv ==
    /\ WindowsInv
    /\ draining \in {"idle", "fresh", "duplicate"}
    /\ NothingStuck /\ UnrelInv /\ DeliveryInv

-----------------------------------------------------------------------------
(* Counting messages, sequence numbers and slots *)

\* Different messages have different numbers, so there are as many numbers.
LEMMA CountOfSeqs ==
    ASSUME NEW S \in SUBSET Int, IsFiniteSet(S),
           \A a, b \in S : a - b < Half
    PROVE  /\ IsFiniteSet({SeqOf(n) : n \in S})
           /\ Cardinality({SeqOf(n) : n \in S}) = Cardinality(S)
PROOF
  <1> DEFINE T == {SeqOf(n) : n \in S}
             f == [n \in S |-> SeqOf(n)]
  <1>1. \A a, b \in S : f[a] = f[b] => a = b
    <2> SUFFICES ASSUME NEW a \in S, NEW b \in S, f[a] = f[b] PROVE a = b
      OBVIOUS
    <2>1. a \in Int /\ b \in Int /\ a - b < Half /\ b - a < Half
      OBVIOUS
    <2>2. -Half <= a - b
      BY <2>1, Sizes
    <2> QED BY <2>1, <2>2, SeqOfApart
  <1>2. f \in Bijection(S, T)
    <2>1. f \in [S -> T] /\ \A t \in T : \E n \in S : f[n] = t
      OBVIOUS
    <2> QED BY <1>1, <2>1 DEF Bijection, Injection, Surjection, IsInjective
  <1>3. ExistsBijection(S, T)
    BY <1>2 DEF ExistsBijection
  <1> QED BY <1>3, FS_Bijection

\* Messages that fit in a window of C slots have different slots.
LEMMA CountOfSlots ==
    ASSUME NEW C \in Nat \ {0}, SeqMod % C = 0, NEW S \in SUBSET Int,
           IsFiniteSet(S), \A a, b \in S : a - b < C
    PROVE  Cardinality({SeqOf(n) % C : n \in S}) = Cardinality(S)
PROOF
  <1> DEFINE T == {SeqOf(n) % C : n \in S}
             f == [n \in S |-> SeqOf(n) % C]
  <1>1. \A a, b \in S : f[a] = f[b] => a = b
    <2> SUFFICES ASSUME NEW a \in S, NEW b \in S, f[a] = f[b] PROVE a = b
      OBVIOUS
    <2>1. a \in Int /\ b \in Int /\ a - b < C /\ b - a < C
      OBVIOUS
    <2> QED BY <2>1, SlotApart
  <1>2. f \in Bijection(S, T)
    <2>1. f \in [S -> T] /\ \A t \in T : \E n \in S : f[n] = t
      OBVIOUS
    <2> QED BY <1>1, <2>1 DEF Bijection, Injection, Surjection, IsInjective
  <1>3. ExistsBijection(S, T)
    BY <1>2 DEF ExistsBijection
  <1> QED BY <1>3, FS_Bijection

\* The messages of a window are finitely many.
LEMMA PendingFinite ==
    ASSUME NEW win, NEW h \in Int, NEW msgs \in Seq(ReliableModes)
    PROVE  /\ IsFiniteSet(Pending(win, h, msgs))
           /\ Cardinality(Pending(win, h, msgs)) \in Nat
           /\ IsFiniteSet(h .. Len(msgs))
PROOF
  <1>1. Len(msgs) \in Int
    OBVIOUS
  <1>2. IsFiniteSet(h .. Len(msgs))
    BY <1>1, FS_Interval
  <1>3. Pending(win, h, msgs) \in SUBSET (h .. Len(msgs))
    BY DEF Pending
  <1>4. IsFiniteSet(Pending(win, h, msgs))
    BY <1>2, <1>3, FS_Subset
  <1> QED BY <1>2, <1>4, FS_CardinalityType

-----------------------------------------------------------------------------
(* The send window *)

\* What the code reads off a window, in terms of the messages it holds.
LEMMA SendFacts ==
    ASSUME NEW win, NEW h, NEW msgs, SendHolds(win, h, msgs)
    PROVE  /\ Len(msgs) \in Nat /\ h \in Int
           /\ Len(msgs) + 1 - h < Half
           /\ seq_diff(win.next_seq, win.head_seq) = Len(msgs) + 1 - h
           /\ Outstanding(win) = {SeqOf(n) : n \in h .. Len(msgs)}
PROOF
  <1>1. Len(msgs) \in Nat /\ h \in Int /\ Len(msgs) + 1 \in Int
    BY DEF SendHolds
  <1>2. 0 <= Len(msgs) + 1 - h /\ Len(msgs) + 1 - h < Half
    BY <1>1, Sizes DEF SendHolds
  <1>3. seq_diff(SeqOf(Len(msgs) + 1), SeqOf(h)) = Len(msgs) + 1 - h
    BY <1>1, <1>2, SeqOfDiff, Sizes
  <1>4. Outstanding(win) = {SeqOf(n) : n \in h .. Len(msgs)}
    <2>1. Outstanding(win) = {seq_add(SeqOf(h), i) : i \in 0 .. (Len(msgs) - h)}
      <3>1. Len(msgs) + 1 - h - 1 = Len(msgs) - h
        BY <1>1
      <3> QED BY <1>3, <3>1 DEF Outstanding, SendHolds
    <2>2. \A i \in 0 .. (Len(msgs) - h) :
              seq_add(SeqOf(h), i) = SeqOf(h + i) /\ h + i \in h .. Len(msgs)
      BY <1>1, SeqOfAdd
    <2>3. \A n \in h .. Len(msgs) : n - h \in 0 .. (Len(msgs) - h) /\ h + (n - h) = n
      BY <1>1
    <2> QED BY <2>1, <2>2, <2>3
  <1> QED BY <1>1, <1>2, <1>3, <1>4 DEF SendHolds

\* Messages of the window have slots of their own.
LEMMA SendersApart ==
    ASSUME NEW win, NEW h, NEW msgs, SendHolds(win, h, msgs)
    PROVE  /\ \A a, b \in h .. Len(msgs) : AtSender(a) = AtSender(b) => a = b
           /\ \A n \in Int : AtSender(n) \in 0 .. (SendCapacity - 1)
PROOF
  <1>1. \A a, b \in h .. Len(msgs) : AtSender(a) = AtSender(b) => a = b
    <2> SUFFICES ASSUME NEW a \in h .. Len(msgs), NEW b \in h .. Len(msgs),
                        AtSender(a) = AtSender(b)
                 PROVE  a = b
      OBVIOUS
    <2>1. Len(msgs) \in Nat /\ h \in Int /\ Len(msgs) + 1 - h <= SendCapacity
      BY DEF SendHolds
    <2>2. a \in Int /\ b \in Int /\ a - b < SendCapacity /\ b - a < SendCapacity
      BY <2>1, Sizes
    <2> QED BY <2>2, SlotApart, Sizes DEF AtSender
  <1> QED BY <1>1, SlotIndex, Sizes DEF AtSender

\* The slot a push fills.
PushedSlot(seq, mode, n) ==
    [seq_num |-> seq, first_sent_time |-> 0, last_sent_time |-> 0,
     retransmit_count |-> 0, delivery_mode |-> mode, in_use |-> TRUE,
     acked |-> FALSE, payload |-> n]

\* A window with room takes the next reliable message
\* (rel4u_send_window_push).
LEMMA PushHolds ==
    ASSUME NEW win, NEW h, NEW msgs, SendHolds(win, h, msgs),
           send_window_can_send(win), NEW mode \in ReliableModes,
           NEW new, new = send_window_push(win, mode, Len(msgs) + 1, 0)
    PROVE  /\ SendHolds(new, h, Append(msgs, mode))
           /\ \A n \in h .. Len(msgs) :
                  new.slots[AtSender(n)] = win.slots[AtSender(n)]
           /\ ~new.slots[AtSender(Len(msgs) + 1)].acked
           /\ new.next_unrel_seq = win.next_unrel_seq
PROOF
  <1> DEFINE L == Len(msgs)
             slot == PushedSlot(win.next_seq, mode, L + 1)
             more == Append(msgs, mode)
  <1>1. /\ L \in Nat /\ h \in 1 .. (L + 1) /\ L + 1 - h < SendCapacity
        /\ L + 1 \in Int
    <2>1. L \in Nat /\ seq_diff(win.next_seq, win.head_seq) = L + 1 - h
      BY SendFacts
    <2> QED BY <2>1 DEF send_window_can_send, SendHolds, SendWindow
  <1>2. win \in SendWindow /\ win.capacity = SendCapacity /\ SlotIdx(win, win.next_seq) = AtSender(L + 1)
    BY DEF SendHolds, SendWindow, SlotIdx, AtSender
  <1>3. new = [win EXCEPT !.next_seq = seq_add(@, 1), !.in_flight = @ + 1,
                          !.slots[AtSender(L + 1)] = slot]
    BY <1>2 DEF send_window_push, PushedSlot, ReliableModes, UnreliableModes,
        RELIABLE_ORDERED, RELIABLE_UNORDERED, UNRELIABLE_ORDERED,
        UNRELIABLE_UNORDERED
  <1>4. /\ more \in Seq(ReliableModes) /\ Len(more) = L + 1 /\ more[L + 1] = mode
        /\ \A n \in 1 .. L : more[n] = msgs[n]
    BY <1>1 DEF SendHolds
  <1>5. slot \in SendSlot
    <2>1. L + 1 \in Payload
      BY <1>1 DEF Payload
    <2> QED BY <2>1, <1>2 DEF PushedSlot, SendSlot, SendWindow, Modes
  <1>6. AtSender(L + 1) \in 0 .. (SendCapacity - 1)
    BY <1>1, SlotIndex, Sizes DEF AtSender
  <1>7. \A n \in h .. L : AtSender(n) # AtSender(L + 1)
    <2> SUFFICES ASSUME NEW n \in h .. L, AtSender(n) = AtSender(L + 1)
                 PROVE  FALSE
      OBVIOUS
    <2>1. n \in Int /\ n - (L + 1) < SendCapacity /\ (L + 1) - n < SendCapacity
      BY <1>1, Sizes
    <2>2. n = L + 1
      BY <1>1, <2>1, SlotApart, Sizes DEF AtSender
    <2> QED BY <1>1, <2>2
  <1>8. seq_add(win.next_seq, 1) = SeqOf(L + 2)
    <2>1. L + 1 + 1 = L + 2
      BY <1>1
    <2> QED BY <1>1, <2>1, SeqOfAdd DEF SendHolds
  <1>9. SeqOf(L + 2) \in SeqSpace
    BY <1>1, SeqOfType
  <1> HIDE DEF slot
  <1>10. /\ new \in SendWindow
         /\ new.head_seq = win.head_seq /\ new.next_seq = SeqOf(L + 2)
         /\ new.next_unrel_seq = win.next_unrel_seq
         /\ new.in_flight = win.in_flight + 1
         /\ new.slots = [win.slots EXCEPT ![AtSender(L + 1)] = slot]
    <2>1. /\ new = [win EXCEPT !.next_seq = SeqOf(L + 2), !.in_flight = @ + 1,
                               !.slots = [@ EXCEPT ![AtSender(L + 1)] = slot]]
      BY Zenon, <1>3, <1>8
    <2>2. win.in_flight + 1 \in Nat
      BY <1>2 DEF SendWindow
    <2>3. [win.slots EXCEPT ![AtSender(L + 1)] = slot]
              \in [0 .. (SendCapacity - 1) -> SendSlot]
      BY <1>2, <1>5, <1>6 DEF SendWindow
    <2> QED BY Zenon, <2>1, <2>2, <2>3, <1>2, <1>9 DEF SendWindow
  <1>11. /\ new.slots[AtSender(L + 1)] = slot
         /\ \A i \in 0 .. (SendCapacity - 1) :
                i # AtSender(L + 1) => new.slots[i] = win.slots[i]
    BY Zenon, <1>2, <1>6, <1>10 DEF SendWindow
  <1>12. \A n \in h .. L : new.slots[AtSender(n)] = win.slots[AtSender(n)]
    <2>1. \A n \in h .. L : AtSender(n) \in 0 .. (SendCapacity - 1)
      BY <1>1, SlotIndex, Sizes DEF AtSender
    <2> QED BY <2>1, <1>7, <1>11
  <1>13. Pending(new, h, more) = Pending(win, h, msgs) \cup {L + 1}
    BY <1>1, <1>4, <1>11, <1>12 DEF Pending, slot, PushedSlot
  <1>14. new.in_flight = Cardinality(Pending(new, h, more))
    <2>1. L + 1 \notin Pending(win, h, msgs)
      BY <1>1 DEF Pending
    <2>2. win.in_flight = Cardinality(Pending(win, h, msgs)) /\ h \in Int
      BY <1>1 DEF SendHolds
    <2>3. /\ IsFiniteSet(Pending(win, h, msgs))
          /\ Cardinality(Pending(win, h, msgs)) \in Nat
      BY <2>2, PendingFinite DEF SendHolds
    <2>4. Cardinality(Pending(win, h, msgs) \cup {L + 1})
              = Cardinality(Pending(win, h, msgs)) + 1
      BY Zenon, <2>1, <2>3, FS_AddElement
    <2> QED BY Zenon, <1>10, <1>13, <2>2, <2>4
  <1>15. \A n \in h .. Len(more) :
            /\ new.slots[AtSender(n)].in_use
            /\ new.slots[AtSender(n)].seq_num = SeqOf(n)
            /\ new.slots[AtSender(n)].payload = n
            /\ new.slots[AtSender(n)].delivery_mode = more[n]
    <2>1. \A n \in h .. L : n \in 1 .. L
      BY <1>1
    <2>2. \A n \in h .. Len(more) : n \in h .. L \/ n = L + 1
      BY <1>1, <1>4
    <2> QED BY <2>1, <2>2, <1>4, <1>11, <1>12 DEF SendHolds, slot, PushedSlot
  <1>16. \A i \in 0 .. (SendCapacity - 1) : new.slots[i].in_use =>
            \E n \in h .. Len(more) : AtSender(n) = i
    <2>1. L + 1 \in h .. Len(more) /\ h .. L \subseteq h .. Len(more)
      BY <1>1, <1>4
    <2> QED BY <2>1, <1>11 DEF SendHolds
  <1>17. /\ h \in 1 .. (Len(more) + 1) /\ Len(more) + 1 - h <= SendCapacity
         /\ Len(more) + 1 = L + 2
    BY <1>1, <1>4, Sizes
  <1>18. SendHolds(new, h, more)
    BY <1>4, <1>10, <1>14, <1>15, <1>16, <1>17 DEF SendHolds
  <1> QED BY <1>10, <1>11, <1>12, <1>18 DEF slot, PushedSlot

\* In a window that holds its messages, each of them is in use.
LEMMA SlotsInUse ==
    ASSUME NEW win, NEW h, NEW msgs, SendHolds(win, h, msgs)
    PROVE  /\ \A n \in Int : SlotIdx(win, SeqOf(n)) = AtSender(n)
           /\ \A n \in Int : SlotOf(win, SeqOf(n)) = win.slots[AtSender(n)]
           /\ \A n \in h .. Len(msgs) : InUse(win, SeqOf(n))
  BY DEF SendHolds, SendWindow, SlotIdx, SlotOf, AtSender, InUse

\* The order of the messages of a window, from their numbers.
LEMMA SendOrder ==
    ASSUME NEW win, NEW h, NEW msgs, SendHolds(win, h, msgs),
           NEW m \in h .. (Len(msgs) + 1), NEW n \in Int,
           n <= Len(msgs) + 1, m - n < Half
    PROVE  /\ seq_diff(SeqOf(m), SeqOf(n)) = m - n
           /\ seq_lte(SeqOf(m), SeqOf(n)) <=> m <= n
           /\ seq_lt(SeqOf(m), SeqOf(n)) <=> m < n
PROOF
  <1>1. /\ Len(msgs) \in Nat /\ h \in Int /\ m \in Int
        /\ Len(msgs) + 1 - h < Half /\ Half \in Nat
    BY SendFacts, Sizes
  <1>2. -Half <= m - n
    BY <1>1
  <1>3. seq_diff(SeqOf(m), SeqOf(n)) = m - n
    BY <1>1, <1>2, SeqOfDiff
  <1> QED BY <1>1, <1>3 DEF seq_lte, seq_lt

\* A cumulative acknowledgement up to message u releases the messages up to it
\* and leaves the others alone (rel4u_send_window_on_ack).
LEMMA CumulativeHolds ==
    ASSUME NEW win, NEW h, NEW msgs, SendHolds(win, h, msgs),
           NEW u \in Int, u <= Len(msgs), Len(msgs) - u <= Lifetime,
           NEW k, k = (IF u >= h THEN u + 1 ELSE h),
           NEW new, new = ack_cumulative(win, SeqOf(u))
    PROVE  /\ SendHolds(new, k, msgs)
           /\ \A n \in k .. Len(msgs) :
                  new.slots[AtSender(n)] = win.slots[AtSender(n)]
           /\ new.next_unrel_seq = win.next_unrel_seq
PROOF
  <1> DEFINE L == Len(msgs)
             seqs == CumulativelyAcked(win, SeqOf(u))
             gone == {n \in h .. (k - 1) : ~win.slots[AtSender(n)].acked}
  <1>1. /\ L \in Nat /\ h \in 1 .. (L + 1) /\ h \in Int /\ L + 1 - h <= SendCapacity
        /\ k \in h .. (L + 1) /\ k \in Int /\ k - 1 \in Int
        /\ \A n \in h .. L : n <= u <=> n <= k - 1
        /\ h .. (k - 1) \subseteq h .. L /\ k .. L \subseteq h .. L
    BY DEF SendHolds
  <1>2. \A m, n \in h .. L : seq_lte(SeqOf(m), SeqOf(n)) <=> m <= n
    <2> SUFFICES ASSUME NEW m \in h .. L, NEW n \in h .. L
                 PROVE  seq_lte(SeqOf(m), SeqOf(n)) <=> m <= n
      OBVIOUS
    <2>1. /\ m \in h .. (L + 1) /\ n \in Int /\ n <= L + 1 /\ m - n < Half
      BY <1>1, Sizes
    <2> QED BY <2>1, SendOrder
  <1>3. \A n \in h .. L : seq_lte(SeqOf(n), SeqOf(u)) <=> n <= u
    <2> SUFFICES ASSUME NEW n \in h .. L
                 PROVE  seq_lte(SeqOf(n), SeqOf(u)) <=> n <= u
      OBVIOUS
    <2>1. n \in h .. (L + 1) /\ u <= L + 1 /\ n - u < Half
      BY <1>1, Sizes
    <2> QED BY <2>1, SendOrder
  <1>4. seqs = {SeqOf(n) : n \in h .. (k - 1)}
    <2>1. Outstanding(win) = {SeqOf(n) : n \in h .. L}
      BY SendFacts
    <2>2. seqs = {s \in {SeqOf(n) : n \in h .. L} :
                     \A m \in h .. L : seq_lte(SeqOf(m), s) =>
                                       seq_lte(SeqOf(m), SeqOf(u))}
      BY <2>1 DEF CumulativelyAcked
    <2>3. \A n \in h .. L : (\A m \in h .. L : m <= n => m <= u) <=> n <= k - 1
      BY <1>1
    <2>4. \A n \in h .. L : (\A m \in h .. L : seq_lte(SeqOf(m), SeqOf(n)) =>
                                      seq_lte(SeqOf(m), SeqOf(u))) <=> n <= k - 1
      BY <1>2, <1>3, <2>3
    <2>5. \A n \in h .. L : n <= k - 1 <=> n \in h .. (k - 1)
      BY <1>1
    <2> QED BY <2>2, <2>4, <2>5, <1>1
  <1>5. Cardinality(seqs) = k - h
    <2>0. /\ IsFiniteSet(h .. (k - 1))
          /\ Cardinality(h .. (k - 1)) = IF h > k - 1 THEN 0 ELSE k - 1 - h + 1
      BY Zenon, <1>1, FS_Interval
    <2>1. IsFiniteSet(h .. (k - 1)) /\ Cardinality(h .. (k - 1)) = k - h
      BY <1>1, <2>0
    <2>2. \A a, b \in h .. (k - 1) : a - b < Half
      BY <1>1, Sizes
    <2>3. h .. (k - 1) \in SUBSET Int
      BY <1>1
    <2> QED BY Zenon, <1>4, <2>1, <2>2, <2>3, CountOfSeqs
  <1>6. seq_add(win.head_seq, Cardinality(seqs)) = SeqOf(k)
    <2>1. h + (k - h) = k /\ k - h \in Int
      BY <1>1
    <2>2. seq_add(SeqOf(h), k - h) = SeqOf(h + (k - h))
      BY Zenon, <1>1, <2>1, SeqOfAdd
    <2> QED BY <1>5, <2>1, <2>2 DEF SendHolds
  <1>7. FirstAcked(win, seqs) = {SeqOf(n) : n \in gone}
    <2>1. \A n \in h .. (k - 1) :
              InUse(win, SeqOf(n)) /\ SlotOf(win, SeqOf(n)) = win.slots[AtSender(n)]
      BY <1>1, SlotsInUse
    <2> HIDE DEF seqs
    <2> QED BY <1>4, <2>1 DEF FirstAcked
  <1>8. /\ IsFiniteSet(gone)
        /\ Cardinality(FirstAcked(win, seqs)) = Cardinality(gone)
    <2>1. IsFiniteSet(h .. (k - 1)) /\ gone \in SUBSET (h .. (k - 1))
      BY Zenon, <1>1, FS_Interval
    <2>2. IsFiniteSet(gone) /\ gone \in SUBSET Int
      BY <1>1, <2>1, FS_Subset
    <2>3. \A a, b \in gone : a - b < Half
      BY <1>1, Sizes
    <2> HIDE DEF gone
    <2> QED BY Zenon, <1>7, <2>2, <2>3, CountOfSeqs
  <1> DEFINE Cleared(i) == \E n \in h .. (k - 1) : AtSender(n) = i
  <1>9. \A i : (\E s \in seqs : SlotIdx(win, s) = i /\ InUse(win, s)) <=> Cleared(i)
    BY <1>1, <1>4, SlotsInUse
  <1> DEFINE slots == [i \in 0 .. (SendCapacity - 1) |->
                          IF Cleared(i)
                          THEN [win.slots[i] EXCEPT !.acked = TRUE, !.in_use = FALSE]
                          ELSE win.slots[i]]
             left == Decrease(win.in_flight, Cardinality(gone))
  <1>10. win \in SendWindow /\ DOMAIN win.slots = 0 .. (SendCapacity - 1)
    BY DEF SendHolds, SendWindow
  <1>11. new = [win EXCEPT !.head_seq = SeqOf(k), !.in_flight = left,
                           !.slots = slots]
    BY Zenon, <1>6, <1>8, <1>9, <1>10 DEF ack_cumulative
  <1>12. slots \in [0 .. (SendCapacity - 1) -> SendSlot]
    BY Zenon, <1>10 DEF SendWindow, SendSlot
  <1>13. \A n \in k .. L : AtSender(n) \in 0 .. (SendCapacity - 1) /\ ~Cleared(AtSender(n))
    <2>1. \A n \in k .. L, m \in h .. (k - 1) : n \in h .. L /\ m \in h .. L /\ n # m
      BY <1>1
    <2>2. \A n \in k .. L : n \in Int
      BY <1>1
    <2>3. /\ \A a, b \in h .. L : AtSender(a) = AtSender(b) => a = b
          /\ \A n \in Int : AtSender(n) \in 0 .. (SendCapacity - 1)
      BY Zenon, SendersApart
    <2>4. ASSUME NEW n \in k .. L, NEW m \in h .. (k - 1)
          PROVE  AtSender(m) # AtSender(n)
      BY Zenon, <2>1, <2>3
    <2> QED BY Zenon, <2>2, <2>3, <2>4
  <1>14. \A n \in k .. L : slots[AtSender(n)] = win.slots[AtSender(n)]
    BY Zenon, <1>13
  <1>15. left \in Nat /\ left = Cardinality({n \in k .. L : ~win.slots[AtSender(n)].acked})
    <2> DEFINE stay == {n \in k .. L : ~win.slots[AtSender(n)].acked}
               all == Pending(win, h, msgs)
    <2>1. stay = all \ gone /\ gone \in SUBSET all /\ all \cap gone = gone
      BY <1>1 DEF Pending
    <2>2. IsFiniteSet(all) /\ Cardinality(all) \in Nat /\ win.in_flight = Cardinality(all)
      BY <1>1, PendingFinite DEF SendHolds
    <2>3. Cardinality(gone) \in Nat
      BY <1>8, FS_CardinalityType
    <2> HIDE DEF all, gone, stay
    <2>4. Cardinality(all \ gone) = Cardinality(all) - Cardinality(all \cap gone)
      BY Zenon, <2>2, FS_Difference
    <2>5. Cardinality(gone) <= Cardinality(all)
      BY <2>1, <2>2, FS_Subset
    <2>6. Cardinality(stay) = Cardinality(all) - Cardinality(gone)
      BY Zenon, <2>1, <2>4
    <2>7. left \in Nat /\ left = Cardinality(all) - Cardinality(gone)
      BY <2>2, <2>3, <2>5 DEF Decrease
    <2> QED BY <2>6, <2>7 DEF stay
  <1> HIDE DEF slots, left
  <1>16. /\ new \in SendWindow /\ new.head_seq = SeqOf(k)
         /\ new.next_seq = win.next_seq /\ new.next_unrel_seq = win.next_unrel_seq
         /\ new.in_flight = left /\ new.slots = slots
    <2>1. SeqOf(k) \in SeqSpace
      BY Zenon, <1>1, SeqOfType
    <2> QED BY Zenon, <1>10, <1>11, <1>12, <1>15, <2>1 DEF SendWindow
  <1>17. \A i \in 0 .. (SendCapacity - 1) : new.slots[i].in_use =>
            \E n \in k .. L : AtSender(n) = i
    <2> SUFFICES ASSUME NEW i \in 0 .. (SendCapacity - 1), new.slots[i].in_use
                 PROVE  \E n \in k .. L : AtSender(n) = i
      OBVIOUS
    <2>0. win.slots[i] \in SendSlot
      BY Zenon, <1>10 DEF SendWindow
    <2>1. ~Cleared(i) /\ slots[i] = win.slots[i]
      <3>1. ~[win.slots[i] EXCEPT !.acked = TRUE, !.in_use = FALSE].in_use
        BY <2>0 DEF SendSlot
      <3> HIDE DEF Cleared
      <3> QED BY Zenon, <1>16, <3>1 DEF slots
    <2>2. PICK n \in h .. L : AtSender(n) = i
      BY <1>16, <2>1 DEF SendHolds
    <2>3. n \notin h .. (k - 1)
      BY <2>1, <2>2
    <2> QED BY <1>1, <2>2, <2>3
  <1>18. new.in_flight = Cardinality(Pending(new, k, msgs))
    BY Zenon, <1>14, <1>15, <1>16 DEF Pending
  <1>19. \A n \in k .. L :
            /\ new.slots[AtSender(n)].in_use
            /\ new.slots[AtSender(n)].seq_num = SeqOf(n)
            /\ new.slots[AtSender(n)].payload = n
            /\ new.slots[AtSender(n)].delivery_mode = msgs[n]
    BY <1>1, <1>14, <1>16 DEF SendHolds
  <1>20. /\ msgs \in Seq(ReliableModes) /\ k \in 1 .. (L + 1)
         /\ L + 1 - k <= SendCapacity /\ new.next_seq = SeqOf(L + 1)
    BY <1>1, <1>16, Sizes DEF SendHolds
  <1>21. SendHolds(new, k, msgs)
    BY <1>16, <1>17, <1>18, <1>19, <1>20 DEF SendHolds
  <1> QED BY <1>14, <1>16, <1>21

\* The bits of a mask relative to message u name messages of msgs.
Names(sack, u, msgs) ==
    sack \subseteq Nat /\ \A i \in sack : u + 1 + i <= Len(msgs)

\* A selective acknowledgement relative to message u marks messages its bits
\* name and nothing else, and in_flight follows (rel4u_send_window_on_ack).
LEMMA SelectiveHolds ==
    ASSUME NEW win, NEW h, NEW msgs, SendHolds(win, h, msgs),
           NEW u \in Int, u <= Len(msgs), Len(msgs) - u <= Lifetime,
           NEW sack, Names(sack, u, msgs),
           NEW new, new = ack_selective(win, SeqOf(u), sack)
    PROVE  /\ SendHolds(new, h, msgs)
           /\ \A n \in h .. Len(msgs) : new.slots[AtSender(n)].acked =>
                  win.slots[AtSender(n)].acked \/ (n - u - 1) \in sack
           /\ new.next_unrel_seq = win.next_unrel_seq
PROOF
  <1> DEFINE L == Len(msgs)
             marks == {n \in h .. L : (n - u - 1) \in sack
                                      /\ ~win.slots[AtSender(n)].acked}
             seqs == FirstAcked(win, SelectivelyAcked(win, SeqOf(u), sack))
  <1>1. /\ L \in Nat /\ h \in 1 .. (L + 1) /\ h \in Int /\ L + 1 - h <= SendCapacity
        /\ L + 1 \in Int /\ Half \in Nat /\ Lifetime < Half /\ Lifetime \in Nat
    BY Sizes DEF SendHolds
  <1>2. \A i \in sack :
            /\ seq_add(SeqOf(u), 1 + i) = SeqOf(u + 1 + i)
            /\ seq_lt(SeqOf(u + 1 + i), win.next_seq)
            /\ seq_gte(SeqOf(u + 1 + i), win.head_seq) <=> u + 1 + i \in h .. L
    <2> SUFFICES ASSUME NEW i \in sack
                 PROVE  /\ seq_add(SeqOf(u), 1 + i) = SeqOf(u + 1 + i)
                        /\ seq_lt(SeqOf(u + 1 + i), win.next_seq)
                        /\ seq_gte(SeqOf(u + 1 + i), win.head_seq)
                               <=> u + 1 + i \in h .. L
      OBVIOUS
    <2>1. /\ i \in Nat /\ 1 + i \in Int /\ u + (1 + i) = u + 1 + i
          /\ u + 1 + i \in Int /\ u + 1 + i <= L
      BY DEF Names
    <2>2. seq_add(SeqOf(u), 1 + i) = SeqOf(u + (1 + i))
      BY <2>1, SeqOfAdd
    <2> DEFINE m == u + 1 + i
    <2>3. /\ -Half <= m - (L + 1) /\ m - (L + 1) < Half /\ m - (L + 1) < 0
          /\ -Half <= m - h /\ m - h < Half
      BY <1>1, <2>1, SendFacts
    <2>4. m \in Int /\ (m - h >= 0 <=> m \in h .. L)
      BY <1>1, <2>1
    <2> HIDE DEF m
    <2>5. /\ seq_diff(SeqOf(m), SeqOf(L + 1)) = m - (L + 1)
          /\ seq_diff(SeqOf(m), SeqOf(h)) = m - h
      BY <1>1, <2>3, <2>4, SeqOfDiff
    <2>6. win.next_seq = SeqOf(L + 1) /\ win.head_seq = SeqOf(h)
      BY DEF SendHolds
    <2>7. seq_lt(SeqOf(m), win.next_seq) /\ (seq_gte(SeqOf(m), win.head_seq) <=> m \in h .. L)
      BY <2>3, <2>4, <2>5, <2>6 DEF seq_lt, seq_gte
    <2> QED BY <2>1, <2>2, <2>7 DEF m
  <1>3. SelectivelyAcked(win, SeqOf(u), sack)
            = {SeqOf(n) : n \in {j \in h .. L : (j - u - 1) \in sack}}
    <2>1. SelectivelyAcked(win, SeqOf(u), sack)
            = {s \in {SeqOf(u + 1 + i) : i \in sack} :
                  seq_lt(s, win.next_seq) /\ seq_gte(s, win.head_seq)}
      BY <1>2 DEF SelectivelyAcked
    <2>2. \A n \in h .. L : u + 1 + (n - u - 1) = n
      BY <1>1
    <2>3. \A i \in sack : (u + 1 + i) - u - 1 = i
      BY DEF Names
    <2> QED BY <2>1, <2>2, <2>3, <1>2
  <1>4. \A n \in h .. L :
            /\ InUse(win, SeqOf(n)) /\ SlotIdx(win, SeqOf(n)) = AtSender(n)
            /\ SlotOf(win, SeqOf(n)) = win.slots[AtSender(n)]
    BY <1>1, SlotsInUse
  <1>5. seqs = {SeqOf(n) : n \in marks}
    BY <1>3, <1>4 DEF FirstAcked
  <1>6. IsFiniteSet(marks) /\ Cardinality(seqs) = Cardinality(marks)
    <2>1. IsFiniteSet(h .. L) /\ marks \in SUBSET (h .. L)
      BY <1>1, FS_Interval
    <2>2. IsFiniteSet(marks) /\ marks \in SUBSET Int
      BY <1>1, <2>1, FS_Subset
    <2>3. \A a, b \in marks : a - b < Half
      BY <1>1, SendFacts
    <2> HIDE DEF marks
    <2> QED BY Zenon, <1>5, <2>2, <2>3, CountOfSeqs
  <1> DEFINE Marked(i) == \E n \in marks : AtSender(n) = i
             slots == [i \in 0 .. (SendCapacity - 1) |->
                          IF Marked(i) THEN [win.slots[i] EXCEPT !.acked = TRUE]
                          ELSE win.slots[i]]
             left == Decrease(win.in_flight, Cardinality(marks))
  <1>7. win \in SendWindow /\ DOMAIN win.slots = 0 .. (SendCapacity - 1)
    BY DEF SendHolds, SendWindow
  <1>8. \A i : (\E s \in seqs : SlotIdx(win, s) = i) <=> Marked(i)
    BY <1>4, <1>5
  <1>9. new = [win EXCEPT !.in_flight = left, !.slots = slots]
    <2> HIDE DEF Marked, marks
    <2> DEFINE coded == [i \in DOMAIN win.slots |->
                            IF \E s \in seqs : SlotIdx(win, s) = i
                            THEN [win.slots[i] EXCEPT !.acked = TRUE]
                            ELSE win.slots[i]]
               rest == Decrease(win.in_flight, Cardinality(seqs))
    <2>1. new = [win EXCEPT !.in_flight = rest, !.slots = coded]
      BY Zenon DEF ack_selective
    <2> HIDE DEF seqs
    <2>2. slots = coded
      BY <1>7, <1>8, Zenon
    <2>3. rest = left
      BY <1>6
    <2> HIDE DEF slots, left, coded, rest
    <2> QED BY <2>1, <2>2, <2>3
  <1>10. slots \in [0 .. (SendCapacity - 1) -> SendSlot]
    BY Zenon, <1>7 DEF SendWindow, SendSlot
  <1>11. \A n \in h .. L : AtSender(n) \in 0 .. (SendCapacity - 1)
                          /\ (Marked(AtSender(n)) <=> n \in marks)
    <2>1. \A n \in h .. L : n \in Int
      BY <1>1
    <2>2. marks \subseteq h .. L
      OBVIOUS
    <2>3. /\ \A a, b \in h .. L : AtSender(a) = AtSender(b) => a = b
          /\ \A n \in Int : AtSender(n) \in 0 .. (SendCapacity - 1)
      BY Zenon, SendersApart
    <2> HIDE DEF marks
    <2> QED BY Zenon, <2>1, <2>2, <2>3
  <1>12. \A i \in 0 .. (SendCapacity - 1) :
            /\ slots[i].in_use = win.slots[i].in_use
            /\ slots[i].seq_num = win.slots[i].seq_num
            /\ slots[i].payload = win.slots[i].payload
            /\ slots[i].delivery_mode = win.slots[i].delivery_mode
            /\ slots[i].acked <=> win.slots[i].acked \/ Marked(i)
    <2> SUFFICES ASSUME NEW i \in 0 .. (SendCapacity - 1)
                 PROVE  /\ slots[i].in_use = win.slots[i].in_use
                        /\ slots[i].seq_num = win.slots[i].seq_num
                        /\ slots[i].payload = win.slots[i].payload
                        /\ slots[i].delivery_mode = win.slots[i].delivery_mode
                        /\ slots[i].acked <=> win.slots[i].acked \/ Marked(i)
      OBVIOUS
    <2>1. win.slots[i] \in SendSlot
      BY Zenon, <1>7 DEF SendWindow
    <2> HIDE DEF Marked
    <2> QED BY <2>1 DEF SendSlot
  <1>13. left \in Nat /\ left = Cardinality(Pending(win, h, msgs) \ marks)
    <2> DEFINE all == Pending(win, h, msgs)
    <2>1. marks \in SUBSET all /\ all \cap marks = marks
      BY DEF Pending
    <2>2. IsFiniteSet(all) /\ Cardinality(all) \in Nat /\ win.in_flight = Cardinality(all)
      BY <1>1, PendingFinite DEF SendHolds
    <2>3. Cardinality(marks) \in Nat
      BY <1>6, FS_CardinalityType
    <2> HIDE DEF all, marks
    <2>4. Cardinality(all \ marks) = Cardinality(all) - Cardinality(all \cap marks)
      BY Zenon, <2>2, FS_Difference
    <2>5. Cardinality(marks) <= Cardinality(all)
      BY <2>1, <2>2, FS_Subset
    <2>6. Cardinality(all \ marks) = Cardinality(all) - Cardinality(marks)
      BY Zenon, <2>1, <2>4
    <2>7. left \in Nat /\ left = Cardinality(all) - Cardinality(marks)
      BY <2>2, <2>3, <2>5 DEF Decrease
    <2> QED BY <2>6, <2>7 DEF all
  <1> HIDE DEF slots, left, Marked
  <1>14. /\ new \in SendWindow /\ new.head_seq = win.head_seq
         /\ new.next_seq = win.next_seq /\ new.next_unrel_seq = win.next_unrel_seq
         /\ new.in_flight = left /\ new.slots = slots
    BY Zenon, <1>7, <1>9, <1>10, <1>13 DEF SendWindow
  <1>15. Pending(new, h, msgs) = Pending(win, h, msgs) \ marks
    <2>1. \A n \in h .. L : new.slots[AtSender(n)].acked <=>
              win.slots[AtSender(n)].acked \/ n \in marks
      BY Zenon, <1>11, <1>12, <1>14
    <2> HIDE DEF marks
    <2> QED BY <2>1 DEF Pending
  <1>16. \A n \in h .. L :
            /\ new.slots[AtSender(n)].in_use
            /\ new.slots[AtSender(n)].seq_num = SeqOf(n)
            /\ new.slots[AtSender(n)].payload = n
            /\ new.slots[AtSender(n)].delivery_mode = msgs[n]
    <2>1. \A n \in h .. L :
              /\ win.slots[AtSender(n)].in_use
              /\ win.slots[AtSender(n)].seq_num = SeqOf(n)
              /\ win.slots[AtSender(n)].payload = n
              /\ win.slots[AtSender(n)].delivery_mode = msgs[n]
      BY DEF SendHolds
    <2>2. \A n \in h .. L : AtSender(n) \in 0 .. (SendCapacity - 1)
      BY <1>11
    <2> QED BY Zenon, <1>12, <1>14, <2>1, <2>2
  <1>17. \A i \in 0 .. (SendCapacity - 1) : new.slots[i].in_use =>
            \E n \in h .. L : AtSender(n) = i
    BY Zenon, <1>12, <1>14 DEF SendHolds
  <1>18. SendHolds(new, h, msgs)
    BY <1>13, <1>14, <1>15, <1>16, <1>17 DEF SendHolds
  <1> QED BY Zenon, <1>11, <1>12, <1>14, <1>18

\* Both parts of an acknowledgement (rel4u_send_window_on_ack).
LEMMA AckHolds ==
    ASSUME NEW win, NEW h, NEW msgs, SendHolds(win, h, msgs),
           NEW u \in Int, u <= Len(msgs), Len(msgs) - u <= Lifetime,
           NEW sack, Names(sack, u, msgs),
           NEW k, k = (IF u >= h THEN u + 1 ELSE h),
           NEW new, new = send_window_on_ack(win, SeqOf(u), sack)
    PROVE  /\ SendHolds(new, k, msgs)
           /\ \A n \in k .. Len(msgs) : new.slots[AtSender(n)].acked =>
                  win.slots[AtSender(n)].acked \/ (n - u - 1) \in sack
           /\ new.next_unrel_seq = win.next_unrel_seq
PROOF
  <1> DEFINE mid == ack_cumulative(win, SeqOf(u))
  <1>1. /\ SendHolds(mid, k, msgs)
        /\ \A n \in k .. Len(msgs) :
               mid.slots[AtSender(n)] = win.slots[AtSender(n)]
        /\ mid.next_unrel_seq = win.next_unrel_seq
    BY CumulativeHolds
  <1>2. new = ack_selective(mid, SeqOf(u), sack)
    BY DEF send_window_on_ack
  <1> HIDE DEF mid
  <1>3. /\ SendHolds(new, k, msgs)
        /\ \A n \in k .. Len(msgs) : new.slots[AtSender(n)].acked =>
               mid.slots[AtSender(n)].acked \/ (n - u - 1) \in sack
        /\ new.next_unrel_seq = mid.next_unrel_seq
    BY <1>1, <1>2, SelectiveHolds
  <1> QED BY <1>1, <1>3

\* A retransmission changes only the times and counts of slots.
LEMMA MarkHolds ==
    ASSUME NEW win, NEW h, NEW msgs, SendHolds(win, h, msgs), NEW seqs,
           NEW new, new = MarkRetransmitted(win, seqs, 0)
    PROVE  /\ SendHolds(new, h, msgs)
           /\ \A n \in h .. Len(msgs) :
                  new.slots[AtSender(n)].acked = win.slots[AtSender(n)].acked
           /\ new.next_unrel_seq = win.next_unrel_seq
PROOF
  <1> DEFINE L == Len(msgs)
             Again(i) == \E s \in seqs : SlotIdx(win, s) = i
             slots == [i \in DOMAIN win.slots |->
                          IF Again(i)
                          THEN [win.slots[i] EXCEPT !.last_sent_time = 0,
                                    !.retransmit_count = (@ + 1) % CountMod]
                          ELSE win.slots[i]]
  <1>1. win \in SendWindow /\ DOMAIN win.slots = 0 .. (SendCapacity - 1)
    BY Zenon DEF SendHolds, SendWindow
  <1>2. new = [win EXCEPT !.slots = slots]
    BY Zenon DEF MarkRetransmitted
  <1> HIDE DEF Again
  <1>3. \A i \in 0 .. (SendCapacity - 1) :
            /\ slots[i] \in SendSlot
            /\ slots[i].in_use = win.slots[i].in_use
            /\ slots[i].acked = win.slots[i].acked
            /\ slots[i].seq_num = win.slots[i].seq_num
            /\ slots[i].payload = win.slots[i].payload
            /\ slots[i].delivery_mode = win.slots[i].delivery_mode
    <2> SUFFICES ASSUME NEW i \in 0 .. (SendCapacity - 1)
                 PROVE  /\ slots[i] \in SendSlot
                        /\ slots[i].in_use = win.slots[i].in_use
                        /\ slots[i].acked = win.slots[i].acked
                        /\ slots[i].seq_num = win.slots[i].seq_num
                        /\ slots[i].payload = win.slots[i].payload
                        /\ slots[i].delivery_mode = win.slots[i].delivery_mode
      BY Zenon
    <2>1. win.slots[i] \in SendSlot
      BY Zenon, <1>1 DEF SendWindow
    <2> DEFINE c == (win.slots[i].retransmit_count + 1) % CountMod
    <2>2. c \in Nat
      <3>1. win.slots[i].retransmit_count + 1 \in Int
        BY <2>1 DEF SendSlot
      <3>2. CountMod \in Nat \ {0}
        BY TransferAssumption
      <3> QED BY <3>1, <3>2, DivMod
    <2>3. slots[i] = IF Again(i)
                     THEN [win.slots[i] EXCEPT !.last_sent_time = 0, !.retransmit_count = c]
                     ELSE win.slots[i]
      BY <1>1
    <2> HIDE DEF c, slots
    <2>4. CASE ~Again(i)
      BY <2>1, <2>3, <2>4
    <2>5. CASE Again(i)
      <3>1. slots[i] = [win.slots[i] EXCEPT !.last_sent_time = 0,
                                            !.retransmit_count = c]
        BY <2>3, <2>5
      <3> DEFINE old == win.slots[i]
      <3>2. slots[i] = [old EXCEPT !.last_sent_time = 0, !.retransmit_count = c]
        BY <3>1
      <3>3. old \in SendSlot
        BY <2>1
      <3> HIDE DEF old
      <3>4. slots[i] \in SendSlot
        <4> DEFINE timed == [old EXCEPT !.last_sent_time = 0]
        <4>1. timed \in SendSlot
          BY <3>3 DEF SendSlot
        <4>2. slots[i] = [timed EXCEPT !.retransmit_count = c]
          BY <3>2, <3>3 DEF SendSlot
        <4> HIDE DEF timed
        <4> QED BY <2>2, <4>1, <4>2 DEF SendSlot
      <3>5. /\ slots[i].in_use = old.in_use
            /\ slots[i].acked = old.acked
            /\ slots[i].seq_num = old.seq_num
            /\ slots[i].payload = old.payload
            /\ slots[i].delivery_mode = old.delivery_mode
        BY Zenon, <3>2, <3>3 DEF SendSlot
      <3> QED BY <3>4, <3>5 DEF old
    <2> QED BY Zenon, <2>4, <2>5
  <1>4. slots \in [0 .. (SendCapacity - 1) -> SendSlot]
    BY Zenon, <1>1, <1>3
  <1> HIDE DEF slots
  <1>5. /\ new \in SendWindow /\ new.head_seq = win.head_seq
        /\ new.next_seq = win.next_seq /\ new.next_unrel_seq = win.next_unrel_seq
        /\ new.in_flight = win.in_flight /\ new.slots = slots
    BY <1>1, <1>2, <1>4 DEF SendWindow
  <1>6. \A n \in h .. L : AtSender(n) \in 0 .. (SendCapacity - 1)
    <2>1. \A n \in h .. L : n \in Int
      BY DEF SendHolds
    <2> QED BY <2>1, SendersApart
  <1>7. Pending(new, h, msgs) = Pending(win, h, msgs)
    BY Zenon, <1>3, <1>5, <1>6 DEF Pending
  <1>8. \A n \in h .. L :
            /\ new.slots[AtSender(n)].in_use
            /\ new.slots[AtSender(n)].seq_num = SeqOf(n)
            /\ new.slots[AtSender(n)].payload = n
            /\ new.slots[AtSender(n)].delivery_mode = msgs[n]
    <2>1. \A n \in h .. L :
              /\ win.slots[AtSender(n)].in_use
              /\ win.slots[AtSender(n)].seq_num = SeqOf(n)
              /\ win.slots[AtSender(n)].payload = n
              /\ win.slots[AtSender(n)].delivery_mode = msgs[n]
      BY DEF SendHolds
    <2> QED BY Zenon, <1>3, <1>5, <1>6, <2>1
  <1>9. \A i \in 0 .. (SendCapacity - 1) : new.slots[i].in_use =>
            \E n \in h .. L : AtSender(n) = i
    BY Zenon, <1>3, <1>5 DEF SendHolds
  <1>10. SendHolds(new, h, msgs)
    BY <1>5, <1>7, <1>8, <1>9 DEF SendHolds
  <1> QED BY <1>3, <1>5, <1>6, <1>10

\* The slots whose timers may run out are those of the pending messages.
LEMMA UnackedAre ==
    ASSUME NEW win, NEW h, NEW msgs, SendHolds(win, h, msgs)
    PROVE  /\ Unacked(win) = {SeqOf(n) : n \in Pending(win, h, msgs)}
           /\ win.in_flight = Cardinality(Unacked(win))
           /\ Cardinality({i \in DOMAIN win.slots : win.slots[i].in_use})
                  = Len(msgs) + 1 - h
PROOF
  <1> DEFINE L == Len(msgs)
  <1>1. /\ L \in Nat /\ h \in 1 .. (L + 1) /\ h \in Int /\ L + 1 - h <= SendCapacity
        /\ L \in Int /\ L + 1 - h < Half
    <2>1. L \in Nat /\ L + 1 - h < Half
      BY SendFacts
    <2> QED BY <2>1 DEF SendHolds
  <1>2. \A n \in h .. L :
            /\ n \in Int /\ InUse(win, SeqOf(n))
            /\ SlotOf(win, SeqOf(n)) = win.slots[AtSender(n)]
    BY <1>1, SlotsInUse
  <1>3. Unacked(win) = {SeqOf(n) : n \in Pending(win, h, msgs)}
    BY <1>2, SendFacts DEF Unacked, Pending
  <1>4. Cardinality(Unacked(win)) = Cardinality(Pending(win, h, msgs))
    <2>1. /\ IsFiniteSet(Pending(win, h, msgs))
          /\ Pending(win, h, msgs) \in SUBSET (h .. L)
      BY Zenon, <1>1, PendingFinite DEF Pending, SendHolds
    <2>2. /\ h .. L \subseteq Int
          /\ \A a, b \in h .. L : a - b < Half
      BY <1>1, Sizes
    <2>3. /\ Pending(win, h, msgs) \in SUBSET Int
          /\ \A a, b \in Pending(win, h, msgs) : a - b < Half
      BY <2>1, <2>2
    <2> QED BY <1>3, <2>1, <2>3, CountOfSeqs
  <1>5. Cardinality({i \in DOMAIN win.slots : win.slots[i].in_use}) = L + 1 - h
    <2>1. {i \in DOMAIN win.slots : win.slots[i].in_use}
            = {SeqOf(n) % SendCapacity : n \in h .. L}
      <3>1. DOMAIN win.slots = 0 .. (SendCapacity - 1)
        BY DEF SendHolds, SendWindow
      <3>2. \A i \in 0 .. (SendCapacity - 1) :
                win.slots[i].in_use <=> \E n \in h .. L : AtSender(n) = i
        BY DEF SendHolds
      <3>3. \A n \in h .. L : AtSender(n) \in 0 .. (SendCapacity - 1)
        BY <1>2, SendersApart
      <3> QED BY <3>1, <3>2, <3>3 DEF AtSender
    <2>2. /\ IsFiniteSet(h .. L)
          /\ Cardinality(h .. L) = IF h > L THEN 0 ELSE L - h + 1
      BY Zenon, <1>1, FS_Interval
    <2>3. h .. L \in SUBSET Int /\ \A a, b \in h .. L : a - b < SendCapacity
      BY <1>1, Sizes
    <2>4. Cardinality({SeqOf(n) % SendCapacity : n \in h .. L}) = Cardinality(h .. L)
      BY Zenon, <2>2, <2>3, CountOfSlots, Sizes
    <2>5. Cardinality(h .. L) = L + 1 - h
      BY <1>1, <2>2
    <2> QED BY Zenon, <2>1, <2>4, <2>5
  <1> QED BY <1>3, <1>4, <1>5 DEF SendHolds

-----------------------------------------------------------------------------
(* The receive window *)

\* What the code reads off a window, in terms of the messages it stands for.
LEMMA RecvFacts ==
    ASSUME NEW win, NEW e, NEW msgs, RecvHolds(win, e, msgs)
    PROVE  /\ e \in Int /\ Len(msgs) \in Nat /\ win \in RecvWindow
           /\ win.capacity = RecvCapacity /\ win.expected_seq = SeqOf(e)
           /\ \A i \in Int : Nth(win, i) = SeqOf(e + i)
           /\ \A n \in Int : SlotIdx(win, SeqOf(n)) = AtReceiver(n)
           /\ \A n \in Int : AtReceiver(n) \in 0 .. (RecvCapacity - 1)
           /\ \A n \in Int : SlotOf(win, SeqOf(n)) = win.slots[AtReceiver(n)]
           /\ \A n \in Int : Received(win, SeqOf(n)) <=>
                  /\ win.slots[AtReceiver(n)].received
                  /\ win.slots[AtReceiver(n)].seq_num = SeqOf(n)
PROOF
  <1>1. /\ e \in Int /\ Len(msgs) \in Nat /\ win \in RecvWindow
        /\ win.capacity = RecvCapacity /\ win.expected_seq = SeqOf(e)
    BY DEF RecvHolds, RecvWindow
  <1>2. \A i \in Int : Nth(win, i) = SeqOf(e + i)
    BY <1>1, SeqOfAdd DEF Nth
  <1>3. \A n \in Int : AtReceiver(n) \in 0 .. (RecvCapacity - 1)
    BY SlotIndex, Sizes DEF AtReceiver
  <1> QED BY <1>1, <1>2, <1>3 DEF SlotIdx, SlotOf, AtReceiver, Received

\* Messages of the window have slots of their own.
LEMMA ReceiversApart ==
    ASSUME NEW e \in Int, NEW a \in e .. (e + RecvCapacity - 1),
           NEW b \in e .. (e + RecvCapacity - 1), AtReceiver(a) = AtReceiver(b)
    PROVE  a = b
PROOF
  <1>1. /\ a \in Int /\ b \in Int /\ a - b < RecvCapacity /\ b - a < RecvCapacity
        /\ RecvCapacity \in Nat \ {0} /\ SeqMod % RecvCapacity = 0
    BY Sizes
  <1> QED BY <1>1, SlotApart DEF AtReceiver

\* A sequence number found in a slot names a message of the window.
LEMMA RecvGet ==
    ASSUME NEW win, NEW e, NEW msgs, RecvHolds(win, e, msgs),
           NEW n \in Int, e <= n, n < e + Half, Received(win, SeqOf(n))
    PROVE  /\ n \in e .. (e + RecvCapacity - 1) /\ n <= Len(msgs)
           /\ Holds(win.slots[AtReceiver(n)], n, msgs)
           /\ win.slots[AtReceiver(n)].received
PROOF
  <1>1. /\ e \in Int /\ AtReceiver(n) \in 0 .. (RecvCapacity - 1)
        /\ win.slots[AtReceiver(n)].received
        /\ win.slots[AtReceiver(n)].seq_num = SeqOf(n)
    BY Zenon, RecvFacts
  <1>2. PICK m \in e .. (e + RecvCapacity - 1) :
            /\ m <= Len(msgs) /\ AtReceiver(m) = AtReceiver(n)
            /\ Holds(win.slots[AtReceiver(n)], m, msgs)
    BY <1>1 DEF RecvHolds
  <1>3. m \in Int /\ -Half <= m - n /\ m - n < Half /\ SeqOf(m) = SeqOf(n)
    BY <1>1, <1>2, Sizes DEF Holds
  <1>4. m = n
    BY <1>3, SeqOfApart
  <1> QED BY <1>1, <1>2, <1>4

\* In the window, a received slot is the message's.
LEMMA RecvInWindow ==
    ASSUME NEW win, NEW e, NEW msgs, RecvHolds(win, e, msgs),
           NEW n \in e .. (e + RecvCapacity - 1)
    PROVE  Received(win, SeqOf(n)) <=> win.slots[AtReceiver(n)].received
PROOF
  <1>1. /\ e \in Int /\ n \in Int /\ AtReceiver(n) \in 0 .. (RecvCapacity - 1)
        /\ Received(win, SeqOf(n)) <=>
               /\ win.slots[AtReceiver(n)].received
               /\ win.slots[AtReceiver(n)].seq_num = SeqOf(n)
    BY RecvFacts
  <1>2. ASSUME win.slots[AtReceiver(n)].received
        PROVE  win.slots[AtReceiver(n)].seq_num = SeqOf(n)
    <2>1. PICK m \in e .. (e + RecvCapacity - 1) :
              /\ AtReceiver(m) = AtReceiver(n)
              /\ Holds(win.slots[AtReceiver(n)], m, msgs)
      BY <1>1, <1>2 DEF RecvHolds
    <2>2. m = n
      BY <1>1, <2>1, ReceiversApart
    <2> QED BY <2>1, <2>2 DEF Holds
  <1> QED BY <1>1, <1>2

\* The n messages from e on are in their slots.
Run(win, e, n) == \A i \in 0 .. (n - 1) : Received(win, SeqOf(e + i))

\* A drain loop takes the longest run it may (rel4u_recv_window_pop_ready).
LEMMA DrainFacts ==
    ASSUME NEW win, NEW e, NEW msgs, RecvHolds(win, e, msgs), NEW takes,
           NEW n, n = DrainLength(win, takes)
    PROVE  /\ n \in 0 .. RecvCapacity
           /\ Run(win, e, n) /\ \A i \in 0 .. (n - 1) : i \in takes
           /\ n < RecvCapacity => ~(n \in takes /\ Received(win, SeqOf(e + n)))
PROOF
  <1> DEFINE Taken(i) == i \in takes /\ Received(win, Nth(win, i))
             S == {k \in 0 .. RecvCapacity : \A i \in 0 .. (k - 1) : Taken(i)}
  <1>1. n = Max(S)
    BY Zenon, RecvFacts DEF DrainLength
  <1>2. RecvCapacity \in Nat
    BY Sizes
  <1> HIDE DEF Taken
  <1>3. 0 \in S /\ S \subseteq Nat /\ \A k \in S : k <= RecvCapacity
    BY <1>2
  <1>4. Max(S) \in S /\ \A k \in S : k <= Max(S)
    <2> HIDE DEF S
    <2> QED BY Zenon, <1>2, <1>3, MaxNat
  <1>5. n \in 0 .. RecvCapacity /\ \A i \in 0 .. (n - 1) : Taken(i)
    BY Zenon, <1>1, <1>4
  <1>6. ASSUME n < RecvCapacity, Taken(n) PROVE FALSE
    <2>1. n + 1 \in 0 .. RecvCapacity /\ \A i \in 0 .. (n + 1 - 1) : Taken(i)
      BY <1>2, <1>5, <1>6
    <2>2. n + 1 <= n
      BY <1>1, <1>4, <2>1
    <2> QED BY <1>5, <2>2
  <1>7. \A i \in Int : Nth(win, i) = SeqOf(e + i)
    BY RecvFacts
  <1>8. \A i \in 0 .. (n - 1) : i \in Int
    OBVIOUS
  <1> QED BY <1>5, <1>6, <1>7, <1>8 DEF Taken, Run

\* Moving past n received messages clears their slots and nothing else: the
\* window still has exactly the messages it had.
LEMMA AdvanceHolds ==
    ASSUME NEW win, NEW e, NEW msgs, RecvHolds(win, e, msgs),
           NEW n \in 0 .. RecvCapacity,
           Run(win, e, n),
           NEW new, new = Advance(win, n)
    PROVE  /\ RecvHolds(new, e + n, msgs)
           /\ \A m \in 1 .. Len(msgs) : Has(new, e + n, m) <=> Has(win, e, m)
           /\ Received(new, SeqOf(e + n)) =>
                  n < RecvCapacity /\ Received(win, SeqOf(e + n))
           /\ seq_diff(new.expected_seq, win.expected_seq) = n
           /\ new.highest_unrel_seq = win.highest_unrel_seq
           /\ new.has_highest_unrel = win.has_highest_unrel
PROOF
  <1> DEFINE L == Len(msgs)
             C == RecvCapacity
             Passed(j) == \E i \in 0 .. (n - 1) : AtReceiver(e + i) = j
             slots == [j \in 0 .. (C - 1) |->
                          IF Passed(j) THEN [win.slots[j] EXCEPT !.received = FALSE]
                          ELSE win.slots[j]]
  <1>1. /\ e \in 1 .. (L + 1) /\ e \in Int /\ L \in Nat /\ win \in RecvWindow
        /\ C \in Nat \ {0} /\ C < Half /\ n \in Nat /\ n <= C /\ e + n \in Int
        /\ Half \in Nat
    BY RecvFacts, Sizes DEF RecvHolds
  <1>2. DOMAIN win.slots = 0 .. (C - 1) /\ \A j \in 0 .. (C - 1) : win.slots[j] \in RecvSlot
    BY <1>1 DEF RecvWindow
  <1>3. new = [win EXCEPT !.expected_seq = SeqOf(e + n), !.slots = slots]
    <2> DEFINE coded == [j \in DOMAIN win.slots |->
                  IF \E i \in 0 .. (n - 1) : SlotIdx(win, Nth(win, i)) = j
                  THEN [win.slots[j] EXCEPT !.received = FALSE] ELSE win.slots[j]]
    <2>1. new = [win EXCEPT !.expected_seq = seq_add(win.expected_seq, n),
                            !.slots = coded]
      BY Zenon DEF Advance
    <2>2. \A i \in 0 .. (n - 1) : SlotIdx(win, Nth(win, i)) = AtReceiver(e + i)
      <3>1. \A i \in 0 .. (n - 1) : i \in Int /\ e + i \in Int
        BY <1>1
      <3> QED BY Zenon, <3>1, RecvFacts
    <2>3. \A j : (\E i \in 0 .. (n - 1) : SlotIdx(win, Nth(win, i)) = j) <=> Passed(j)
      BY <2>2
    <2>4. coded = slots
      <3> HIDE DEF Passed
      <3> QED BY <1>2, <2>3
    <2>5. seq_add(win.expected_seq, n) = SeqOf(e + n)
      <3>1. win.expected_seq = SeqOf(e)
        BY DEF RecvHolds
      <3>2. seq_add(SeqOf(e), n) = SeqOf(e + n)
        BY <1>1, SeqOfAdd
      <3> QED BY <3>1, <3>2
    <2> HIDE DEF coded, slots
    <2> QED BY <2>1, <2>4, <2>5
  <1> HIDE DEF Passed
  <1>4. \A j \in 0 .. (C - 1) :
            /\ slots[j] \in RecvSlot
            /\ slots[j].received => slots[j] = win.slots[j] /\ ~Passed(j)
            /\ ~Passed(j) => slots[j] = win.slots[j]
    <2> SUFFICES ASSUME NEW j \in 0 .. (C - 1)
                 PROVE  /\ slots[j] \in RecvSlot
                        /\ slots[j].received => slots[j] = win.slots[j] /\ ~Passed(j)
                        /\ ~Passed(j) => slots[j] = win.slots[j]
      OBVIOUS
    <2> DEFINE old == win.slots[j]
    <2>1. old \in RecvSlot /\ slots[j] = IF Passed(j) THEN [old EXCEPT !.received = FALSE] ELSE old
      BY <1>2
    <2> HIDE DEF old, slots
    <2>2. CASE Passed(j)
      <3>1. slots[j] \in RecvSlot /\ ~slots[j].received
        BY Zenon, <2>1, <2>2 DEF RecvSlot
      <3> QED BY <3>1, <2>2
    <2>3. CASE ~Passed(j)
      BY <2>1, <2>3 DEF old
    <2> QED BY <2>2, <2>3
  <1>5. slots \in [0 .. (C - 1) -> RecvSlot]
    BY <1>4
  <1> HIDE DEF slots
  <1>6. /\ new \in RecvWindow /\ new.expected_seq = SeqOf(e + n) /\ new.slots = slots
        /\ new.highest_unrel_seq = win.highest_unrel_seq
        /\ new.has_highest_unrel = win.has_highest_unrel
    <2>1. SeqOf(e + n) \in SeqSpace
      BY <1>1, SeqOfType
    <2> QED BY Zenon, <1>1, <1>3, <1>5, <2>1 DEF RecvWindow
  <1>7. e + n \in 1 .. (L + 1)
    <2>1. CASE n = 0
      BY <1>1, <2>1
    <2>2. CASE n > 0
      <3>1. n - 1 \in 0 .. (n - 1) /\ e + (n - 1) \in Int
        BY <1>1, <2>2
      <3>2. e <= e + (n - 1) /\ e + (n - 1) < e + Half
        BY <1>1, <2>2
      <3>3. Received(win, SeqOf(e + (n - 1)))
        BY <3>1 DEF Run
      <3>4. e + (n - 1) <= L
        BY <3>1, <3>2, <3>3, RecvGet
      <3> QED BY <1>1, <3>4
    <2> QED BY <1>1, <2>1, <2>2
  <1>8. \A j \in 0 .. (C - 1) : slots[j].received =>
            \E m \in (e + n) .. (e + C - 1) :
                m <= L /\ AtReceiver(m) = j /\ Holds(slots[j], m, msgs)
    <2> SUFFICES ASSUME NEW j \in 0 .. (C - 1), slots[j].received
                 PROVE  \E m \in (e + n) .. (e + C - 1) :
                            m <= L /\ AtReceiver(m) = j /\ Holds(slots[j], m, msgs)
      OBVIOUS
    <2>1. slots[j] = win.slots[j] /\ ~Passed(j)
      BY <1>4
    <2>2. PICK m \in e .. (e + C - 1) :
              m <= L /\ AtReceiver(m) = j /\ Holds(slots[j], m, msgs)
      BY <2>1 DEF RecvHolds
    <2>3. m >= e + n
      <3> SUFFICES ASSUME m < e + n PROVE FALSE
        BY <1>1
      <3>1. m - e \in 0 .. (n - 1) /\ e + (m - e) = m
        BY <1>1
      <3> QED BY <2>1, <2>2, <3>1 DEF Passed
    <2>4. m \in (e + n) .. (e + C - 1)
      BY <1>1, <2>3
    <2> QED BY <2>2, <2>4
  <1>9. RecvHolds(new, e + n, msgs)
    <2>1. (e + n) .. (e + C - 1) \subseteq (e + n) .. (e + n + C - 1)
      BY <1>1
    <2>2. \A j \in 0 .. (C - 1) : new.slots[j].received =>
              \E m \in (e + n) .. (e + n + C - 1) :
                  m <= L /\ AtReceiver(m) = j /\ Holds(new.slots[j], m, msgs)
      BY <1>6, <1>8, <2>1
    <2> QED BY <1>6, <1>7, <2>2 DEF RecvHolds
  \* What is in a slot was there before, and is not past the old window.
  <1>10. \A m \in Int : e + n <= m /\ m < e + n + Half /\ Received(new, SeqOf(m))
            => m <= e + C - 1 /\ Received(win, SeqOf(m))
    <2> SUFFICES ASSUME NEW m \in Int, e + n <= m, m < e + n + Half,
                        Received(new, SeqOf(m))
                 PROVE  m <= e + C - 1 /\ Received(win, SeqOf(m))
      OBVIOUS
    <2>1. /\ AtReceiver(m) \in 0 .. (C - 1) /\ slots[AtReceiver(m)].received
          /\ slots[AtReceiver(m)].seq_num = SeqOf(m)
      BY Zenon, <1>6, <1>9, RecvFacts
    <2>2. slots[AtReceiver(m)] = win.slots[AtReceiver(m)]
      BY <1>4, <2>1
    <2>3. Received(win, SeqOf(m))
      BY Zenon, <2>1, <2>2, RecvFacts
    <2>4. PICK q \in (e + n) .. (e + C - 1) : Holds(slots[AtReceiver(m)], q, msgs)
      BY <1>8, <2>1
    <2>5. q \in Int /\ -Half <= q - m /\ q - m < Half /\ SeqOf(q) = SeqOf(m)
      BY <1>1, <2>1, <2>4 DEF Holds
    <2>6. q = m
      BY <2>5, SeqOfApart
    <2> QED BY <1>1, <2>3, <2>4, <2>6
  \* What was in a slot and not passed still is.
  <1>11. \A m \in (e + n) .. (e + C - 1) :
            Received(win, SeqOf(m)) => Received(new, SeqOf(m))
    <2> SUFFICES ASSUME NEW m \in (e + n) .. (e + C - 1), Received(win, SeqOf(m))
                 PROVE  Received(new, SeqOf(m))
      OBVIOUS
    <2>1. m \in Int /\ m \in e .. (e + C - 1)
      BY <1>1
    <2>2. ~Passed(AtReceiver(m))
      <3> SUFFICES ASSUME NEW i \in 0 .. (n - 1), AtReceiver(e + i) = AtReceiver(m)
                   PROVE  FALSE
        BY DEF Passed
      <3>1. e + i \in e .. (e + C - 1)
        BY <1>1
      <3>2. e + i = m
        BY Zenon, <1>1, <2>1, <3>1, ReceiversApart
      <3> QED BY <1>1, <3>2
    <2>3. AtReceiver(m) \in 0 .. (C - 1)
      BY Zenon, <2>1, RecvFacts
    <2>4. slots[AtReceiver(m)] = win.slots[AtReceiver(m)]
      BY Zenon, <1>4, <2>2, <2>3
    <2>5. win.slots[AtReceiver(m)].received /\ win.slots[AtReceiver(m)].seq_num = SeqOf(m)
      BY Zenon, <2>1, RecvFacts
    <2> QED BY Zenon, <1>6, <1>9, <2>1, <2>4, <2>5, RecvFacts
  <1>12. ASSUME NEW m \in 1 .. L PROVE Has(new, e + n, m) <=> Has(win, e, m)
    <2>1. m \in Int
      BY <1>1
    <2>2. CASE m < e
      BY <1>1, <2>1, <2>2 DEF Has
    <2>3. CASE m \in e .. (e + n - 1)
      <3>1. m - e \in 0 .. (n - 1) /\ e + (m - e) = m
        BY <1>1, <2>3
      <3>2. Received(win, SeqOf(m))
        BY <3>1 DEF Run
      <3>3. m < e + n /\ m < e + C
        BY <1>1, <2>3
      <3> QED BY <3>2, <3>3 DEF Has
    <2>4. CASE m >= e + n
      <3>1. ~(m < e) /\ ~(m < e + n)
        BY <1>1, <2>4
      <3>2. CASE m < e + C
        <4>1. /\ m \in (e + n) .. (e + C - 1) /\ m < e + n + C
              /\ e + n <= m /\ m < e + n + Half
          BY <1>1, <2>1, <2>4, <3>2
        <4>2. Received(new, SeqOf(m)) <=> Received(win, SeqOf(m))
          BY <1>10, <1>11, <2>1, <4>1
        <4> QED BY <3>1, <3>2, <4>1, <4>2 DEF Has
      <3>3. CASE ~(m < e + C)
        <4>1. ~Has(win, e, m)
          BY <3>1, <3>3 DEF Has
        <4>2. ASSUME m < e + n + C, Received(new, SeqOf(m)) PROVE FALSE
          <5>1. e + n <= m /\ m < e + n + Half
            BY <1>1, <2>1, <2>4, <4>2
          <5>2. m <= e + C - 1
            BY <1>10, <2>1, <4>2, <5>1
          <5> QED BY <1>1, <2>1, <3>3, <5>2
        <4> QED BY <3>1, <4>1, <4>2 DEF Has
      <3> QED BY <3>2, <3>3
    <2> QED BY <1>1, <2>1, <2>2, <2>3, <2>4
  <1>13. Received(new, SeqOf(e + n)) => n < C /\ Received(win, SeqOf(e + n))
    <2>1. e + n <= e + n /\ e + n < e + n + Half
      BY <1>1
    <2>2. Received(new, SeqOf(e + n)) =>
              e + n <= e + C - 1 /\ Received(win, SeqOf(e + n))
      BY Zenon, <1>1, <1>10, <2>1
    <2> QED BY <1>1, <2>2
  <1>14. seq_diff(new.expected_seq, win.expected_seq) = n
    <2>1. (e + n) - e = n /\ -Half <= (e + n) - e /\ (e + n) - e < Half
      BY <1>1
    <2>2. seq_diff(SeqOf(e + n), SeqOf(e)) = (e + n) - e
      BY <1>1, <2>1, SeqOfDiff
    <2> QED BY Zenon, <1>6, <2>1, <2>2, RecvFacts
  <1> QED BY Zenon, <1>6, <1>9, <1>12, <1>13, <1>14

\* The slot an arriving reliable message is stored in.
ArrivedSlot(n, mode) ==
    [seq_num |-> SeqOf(n), delivery_mode |-> mode, received |-> TRUE,
     payload |-> n]

\* Storing a message of the window adds that message.
LEMMA StoreHolds ==
    ASSUME NEW win, NEW e, NEW msgs, RecvHolds(win, e, msgs),
           NEW n \in e .. (e + RecvCapacity - 1), n <= Len(msgs),
           NEW new, new = [win EXCEPT !.slots[SlotIdx(win, SeqOf(n))] =
                                          ArrivedSlot(n, msgs[n])]
    PROVE  /\ RecvHolds(new, e, msgs)
           /\ \A m \in 1 .. Len(msgs) : Has(new, e, m) <=> Has(win, e, m) \/ m = n
           /\ new.expected_seq = win.expected_seq
           /\ new.highest_unrel_seq = win.highest_unrel_seq
           /\ new.has_highest_unrel = win.has_highest_unrel
PROOF
  <1> DEFINE L == Len(msgs)
             C == RecvCapacity
             slot == ArrivedSlot(n, msgs[n])
             slots == [win.slots EXCEPT ![AtReceiver(n)] = slot]
  <1>1. /\ e \in 1 .. (L + 1) /\ e \in Int /\ L \in Nat /\ win \in RecvWindow
        /\ C \in Nat \ {0} /\ n \in Int /\ msgs \in Seq(ReliableModes)
        /\ n \in 1 .. L
    BY RecvFacts, Sizes DEF RecvHolds
  <1>2. AtReceiver(n) \in 0 .. (C - 1) /\ SlotIdx(win, SeqOf(n)) = AtReceiver(n)
    BY <1>1, RecvFacts
  <1>3. slot \in RecvSlot
    <2>1. SeqOf(n) \in SeqSpace
      BY <1>1, SeqOfType
    <2>2. msgs[n] \in Modes
      BY <1>1 DEF Modes
    <2>3. n \in Payload
      BY <1>1 DEF Payload
    <2> QED BY <2>1, <2>2, <2>3 DEF ArrivedSlot, RecvSlot
  <1>4. Holds(slot, n, msgs) /\ slot.received
    BY DEF Holds, ArrivedSlot
  <1> HIDE DEF slot
  <1>5. slots \in [0 .. (C - 1) -> RecvSlot] /\ slots[AtReceiver(n)] = slot
        /\ \A j \in 0 .. (C - 1) : j # AtReceiver(n) => slots[j] = win.slots[j]
    BY <1>1, <1>2, <1>3 DEF RecvWindow
  <1>6. new = [win EXCEPT !.slots = slots]
    BY <1>2 DEF slot
  <1> HIDE DEF slots
  <1>7. /\ new \in RecvWindow /\ new.slots = slots
        /\ new.expected_seq = win.expected_seq
        /\ new.highest_unrel_seq = win.highest_unrel_seq
        /\ new.has_highest_unrel = win.has_highest_unrel
    BY Zenon, <1>1, <1>5, <1>6 DEF RecvWindow
  <1>8. \A j \in 0 .. (C - 1) : new.slots[j].received =>
            \E m \in e .. (e + C - 1) :
                m <= L /\ AtReceiver(m) = j /\ Holds(new.slots[j], m, msgs)
    <2> SUFFICES ASSUME NEW j \in 0 .. (C - 1), new.slots[j].received
                 PROVE  \E m \in e .. (e + C - 1) :
                            m <= L /\ AtReceiver(m) = j /\ Holds(new.slots[j], m, msgs)
      OBVIOUS
    <2>1. CASE j = AtReceiver(n)
      BY Zenon, <1>4, <1>5, <1>7, <2>1
    <2>2. CASE j # AtReceiver(n)
      BY <1>5, <1>7, <2>2 DEF RecvHolds
    <2> QED BY <2>1, <2>2
  <1>9. RecvHolds(new, e, msgs)
    BY <1>7, <1>8 DEF RecvHolds
  <1>10. ASSUME NEW m \in 1 .. L PROVE Has(new, e, m) <=> Has(win, e, m) \/ m = n
    <2>1. m \in Int
      BY <1>1
    <2>2. CASE m \in e .. (e + C - 1)
      <3>1. /\ Received(win, SeqOf(m)) <=> win.slots[AtReceiver(m)].received
            /\ Received(new, SeqOf(m)) <=> slots[AtReceiver(m)].received
        BY Zenon, <1>7, <1>9, <2>2, RecvInWindow
      <3>2. AtReceiver(m) \in 0 .. (C - 1)
        BY <2>1, RecvFacts
      <3>3. Received(new, SeqOf(m)) <=> Received(win, SeqOf(m)) \/ m = n
        <4>1. CASE m = n
          BY <1>4, <1>5, <3>1, <4>1
        <4>2. CASE m # n
          <5>1. AtReceiver(m) # AtReceiver(n)
            BY <1>1, <2>2, <4>2, ReceiversApart
          <5> QED BY <1>5, <3>1, <3>2, <4>2, <5>1
        <4> QED BY <4>1, <4>2
      <3>4. m < e + C
        BY <1>1, <2>2
      <3>5. n < e + C
        BY <1>1
      <3> QED BY <3>3, <3>4, <3>5 DEF Has
    <2>3. CASE m \notin e .. (e + C - 1)
      <3>1. m # n /\ (m < e \/ ~(m < e + C))
        BY <1>1, <2>1, <2>3
      <3> QED BY <3>1 DEF Has
    <2> QED BY <2>2, <2>3
  <1> QED BY <1>7, <1>9, <1>10

-----------------------------------------------------------------------------
(* The ordered messages of a run of received slots *)

\* Counting the ordered messages slot by slot.
LEMMA AmongStep ==
    ASSUME NEW win, NEW n \in Nat
    PROVE  /\ OrderedAmong(win, n) \in Nat
           /\ n = 0 => OrderedAmong(win, n) = 0
           /\ IsOrdered(win, n) => OrderedAmong(win, n + 1) = OrderedAmong(win, n) + 1
           /\ ~IsOrdered(win, n) => OrderedAmong(win, n + 1) = OrderedAmong(win, n)
PROOF
  <1> DEFINE S == {i \in 0 .. (n - 1) : IsOrdered(win, i)}
             T == {i \in 0 .. (n + 1 - 1) : IsOrdered(win, i)}
  <1>1. OrderedAmong(win, n) = Cardinality(S) /\ OrderedAmong(win, n + 1) = Cardinality(T)
    BY DEF OrderedAmong
  <1>2. IsFiniteSet(0 .. (n - 1)) /\ S \in SUBSET (0 .. (n - 1))
    <2>1. 0 \in Int /\ n - 1 \in Int
      OBVIOUS
    <2> QED BY <2>1, FS_Interval
  <1>3. IsFiniteSet(S)
    BY <1>2, FS_Subset
  <1>4. n \notin S /\ (n = 0 => S = {})
    OBVIOUS
  <1>5. IsOrdered(win, n) => T = S \cup {n}
    OBVIOUS
  <1>6. ~IsOrdered(win, n) => T = S
    OBVIOUS
  <1> HIDE DEF S, T
  <1>7. Cardinality(S) \in Nat /\ Cardinality(S \cup {n}) = Cardinality(S) + 1
    BY <1>3, <1>4, FS_CardinalityType, FS_AddElement
  <1>8. n = 0 => Cardinality(S) = 0
    BY <1>4, FS_EmptySet
  <1> QED BY Zenon, <1>1, <1>5, <1>6, <1>7, <1>8

\* The count never falls.
LEMMA AmongMonotone ==
    ASSUME NEW win, NEW a \in Nat, NEW b \in Nat, a <= b
    PROVE  OrderedAmong(win, a) <= OrderedAmong(win, b)
PROOF
  <1> DEFINE S == {i \in 0 .. (a - 1) : IsOrdered(win, i)}
             T == {i \in 0 .. (b - 1) : IsOrdered(win, i)}
  <1>1. OrderedAmong(win, a) = Cardinality(S) /\ OrderedAmong(win, b) = Cardinality(T)
    BY DEF OrderedAmong
  <1>2. IsFiniteSet(0 .. (b - 1)) /\ T \in SUBSET (0 .. (b - 1))
    <2>1. 0 \in Int /\ b - 1 \in Int
      OBVIOUS
    <2> QED BY <2>1, FS_Interval
  <1>3. IsFiniteSet(T)
    BY <1>2, FS_Subset
  <1>4. S \in SUBSET T
    OBVIOUS
  <1> HIDE DEF S, T
  <1> QED BY <1>1, <1>3, <1>4, FS_Subset

\* Two ordered messages never have the same count before them.
LEMMA AmongStrict ==
    ASSUME NEW win, NEW a \in Nat, NEW b \in Nat, IsOrdered(win, a), a < b
    PROVE  OrderedAmong(win, a) + 1 <= OrderedAmong(win, b)
PROOF
  <1>1. a + 1 \in Nat /\ a + 1 <= b
    OBVIOUS
  <1>2. OrderedAmong(win, a + 1) = OrderedAmong(win, a) + 1
    BY AmongStep
  <1> QED BY <1>1, <1>2, AmongMonotone

\* The place of the k-th ordered message of a run of n slots is in the run.
LEMMA OrderedPlace ==
    ASSUME NEW win, win.capacity \in Nat, NEW n \in Nat, n <= win.capacity,
           NEW k \in 1 .. OrderedAmong(win, n)
    PROVE  /\ OrderedAt(win, k) \in 0 .. (n - 1)
           /\ IsOrdered(win, OrderedAt(win, k))
           /\ OrderedAmong(win, OrderedAt(win, k)) = k - 1
PROOF
  <1> DEFINE S == {i \in 0 .. (n - 1) : OrderedAmong(win, i + 1) >= k}
  <1>1. OrderedAmong(win, n) \in Nat /\ (n = 0 => OrderedAmong(win, n) = 0)
    BY AmongStep
  <1>2. n > 0 /\ n - 1 \in 0 .. (n - 1) /\ n - 1 + 1 = n
    BY <1>1
  <1>3. S \subseteq Nat /\ S # {}
    BY <1>1, <1>2
  <1>4. PICK i \in S : \A j \in S : i <= j
    <2> HIDE DEF S
    <2> QED BY Zenon, <1>3, SmallestNat
  <1>5. i \in Nat /\ i \in 0 .. (n - 1) /\ OrderedAmong(win, i + 1) >= k
    BY <1>4
  <1>6. /\ OrderedAmong(win, i) \in Nat
        /\ i = 0 => OrderedAmong(win, i) = 0
        /\ IsOrdered(win, i) => OrderedAmong(win, i + 1) = OrderedAmong(win, i) + 1
        /\ ~IsOrdered(win, i) => OrderedAmong(win, i + 1) = OrderedAmong(win, i)
    BY <1>5, AmongStep
  <1>7. OrderedAmong(win, i) < k
    <2>1. CASE i = 0
      BY <1>1, <1>6, <2>1
    <2>2. CASE i # 0
      <3>1. i - 1 \in 0 .. (n - 1) /\ i - 1 + 1 = i /\ ~(i <= i - 1)
        BY <1>5, <2>2
      <3>2. i - 1 \notin S
        BY <1>4, <3>1
      <3>3. ~(OrderedAmong(win, i) >= k)
        BY <3>1, <3>2
      <3> QED BY <1>1, <1>6, <3>3
    <2> QED BY <2>1, <2>2
  <1>8. IsOrdered(win, i) /\ OrderedAmong(win, i) = k - 1
    BY <1>1, <1>5, <1>6, <1>7
  <1>9. i \in 0 .. (win.capacity - 1)
    BY <1>5
  <1> DEFINE c == OrderedAt(win, k)
  <1>10. c \in 0 .. (win.capacity - 1) /\ IsOrdered(win, c) /\ OrderedAmong(win, c) = k - 1
    BY <1>8, <1>9 DEF OrderedAt
  <1> HIDE DEF c
  <1>11. c = i
    <2>1. c \in Nat /\ k \in Int /\ ~((k - 1) + 1 <= k - 1)
      BY <1>1, <1>10
    <2>2. CASE c < i
      BY Zenon, <1>5, <1>8, <1>10, <2>1, <2>2, AmongStrict
    <2>3. CASE i < c
      BY Zenon, <1>5, <1>8, <1>10, <2>1, <2>3, AmongStrict
    <2> QED BY <1>5, <2>1, <2>2, <2>3
  <1> QED BY <1>5, <1>8, <1>11 DEF c

\* Every ordered message of the run has its turn.
LEMMA OrderedTurn ==
    ASSUME NEW win, win.capacity \in Nat, NEW n \in Nat, n <= win.capacity,
           NEW i \in 0 .. (n - 1), IsOrdered(win, i)
    PROVE  /\ OrderedAmong(win, i) + 1 \in 1 .. OrderedAmong(win, n)
           /\ OrderedAt(win, OrderedAmong(win, i) + 1) = i
PROOF
  <1> DEFINE k == OrderedAmong(win, i) + 1
             c == OrderedAt(win, k)
  <1>1. i \in Nat /\ i < n
    OBVIOUS
  <1>2. OrderedAmong(win, i) \in Nat /\ OrderedAmong(win, n) \in Nat
    BY <1>1, AmongStep
  <1>3. OrderedAmong(win, i) + 1 <= OrderedAmong(win, n)
    BY <1>1, AmongStrict
  <1>4. k \in 1 .. OrderedAmong(win, n) /\ k - 1 = OrderedAmong(win, i)
    BY <1>2, <1>3
  <1>5. c \in 0 .. (n - 1) /\ IsOrdered(win, c) /\ OrderedAmong(win, c) = k - 1
    <2> HIDE DEF k
    <2> QED BY <1>4, OrderedPlace
  <1> HIDE DEF c
  <1>6. c = i
    <2>1. c \in Nat /\ ~(OrderedAmong(win, i) + 1 <= OrderedAmong(win, i))
          /\ OrderedAmong(win, c) = OrderedAmong(win, i)
      BY <1>2, <1>4, <1>5
    <2>2. CASE c < i
      BY <1>1, <1>5, <2>1, <2>2, AmongStrict
    <2>3. CASE i < c
      BY <1>1, <1>5, <2>1, <2>3, AmongStrict
    <2> QED BY <1>1, <2>1, <2>2, <2>3
  <1> QED BY <1>4, <1>6 DEF c

\* Turns follow the sequence.
LEMMA OrderedIncreasing ==
    ASSUME NEW win, win.capacity \in Nat, NEW n \in Nat, n <= win.capacity,
           NEW k \in 1 .. OrderedAmong(win, n), NEW l \in 1 .. OrderedAmong(win, n),
           k < l
    PROVE  OrderedAt(win, k) < OrderedAt(win, l)
PROOF
  <1> DEFINE a == OrderedAt(win, k)
             b == OrderedAt(win, l)
  <1>1. /\ a \in 0 .. (n - 1) /\ OrderedAmong(win, a) = k - 1
        /\ b \in 0 .. (n - 1) /\ OrderedAmong(win, b) = l - 1
    BY OrderedPlace
  <1>2. OrderedAmong(win, n) \in Nat
    BY AmongStep
  <1> HIDE DEF a, b
  <1>3. ASSUME b <= a PROVE FALSE
    <2>1. OrderedAmong(win, b) <= OrderedAmong(win, a)
      BY <1>1, <1>3, AmongMonotone
    <2> QED BY <1>1, <1>2, <2>1
  <1>4. a < b
    BY <1>1, <1>3
  <1> QED BY <1>4 DEF a, b

\* A function on 1 .. n is a sequence of length n.
LEMMA FunSeq ==
    ASSUME NEW S, NEW n \in Nat, NEW f \in [1 .. n -> S]
    PROVE  f \in Seq(S) /\ Len(f) = n
PROOF
  <1>1. f \in Seq(S)
    BY SeqDef
  <1>2. DOMAIN f = 1 .. Len(f) /\ Len(f) \in Nat /\ DOMAIN f = 1 .. n
    BY <1>1, LenProperties
  <1> QED BY <1>1, <1>2

\* There is one empty function.
LEMMA EmptyFun ==
    ASSUME NEW S, NEW f \in [1 .. 0 -> S]
    PROVE  f = <<>>
PROOF
  <1>1. f \in Seq(S) /\ Len(f) = 0
    BY Zenon, FunSeq
  <1> QED BY <1>1, EmptySeq

\* The ready slots of a run are its ordered messages, in order and complete.
LEMMA OrderedRun ==
    ASSUME NEW win, NEW e, NEW msgs, RecvHolds(win, e, msgs),
           NEW n \in 0 .. RecvCapacity,
           Run(win, e, n),
           NEW ready, ready = OrderedSlots(win, n),
           NEW out, out = Payloads(ready, ReliableModes)
    PROVE  /\ ready \in Seq(RecvSlot) /\ Len(ready) = OrderedAmong(win, n)
           /\ \A k \in DOMAIN ready : ready[k].delivery_mode = RELIABLE_ORDERED
           /\ out \in Seq(1 .. Len(msgs)) /\ Len(out) = Len(ready)
           /\ \A k \in DOMAIN ready : out[k] = ready[k].payload
           /\ \A k, l \in DOMAIN out : k < l => out[k] < out[l]
           /\ \A m \in 1 .. Len(msgs) :
                  (\E k \in DOMAIN out : out[k] = m) <=>
                      m \in e .. (e + n - 1) /\ msgs[m] = RELIABLE_ORDERED
PROOF
  <1> DEFINE L == Len(msgs)
             C == RecvCapacity
             K == OrderedAmong(win, n)
  <1>1. /\ e \in 1 .. (L + 1) /\ e \in Int /\ L \in Nat /\ win \in RecvWindow
        /\ C \in Nat /\ n \in Nat /\ n <= C /\ C < Half /\ Half \in Nat
        /\ win.capacity = C /\ win.capacity \in Nat /\ n <= win.capacity
    <2>1. /\ e \in Int /\ L \in Nat /\ win \in RecvWindow /\ win.capacity = C
      BY RecvFacts
    <2> QED BY <2>1, Sizes DEF RecvHolds
  <1>2. K \in Nat
    BY <1>1, AmongStep
  <1>3. ASSUME NEW i \in 0 .. (n - 1)
        PROVE  /\ e + i \in 1 .. L /\ SlotOf(win, Nth(win, i)) \in RecvSlot
               /\ SlotOf(win, Nth(win, i)).payload = e + i
               /\ IsOrdered(win, i) <=> msgs[e + i] = RELIABLE_ORDERED
    <2>1. i \in Int /\ e + i \in Int /\ e <= e + i /\ e + i < e + Half /\ 1 <= e + i
      BY <1>1
    <2>2. e + i <= L /\ Holds(win.slots[AtReceiver(e + i)], e + i, msgs)
      <3>1. Received(win, SeqOf(e + i))
        BY Zenon DEF Run
      <3> QED BY <2>1, <3>1, RecvGet
    <2>3. /\ SlotOf(win, Nth(win, i)) = win.slots[AtReceiver(e + i)]
          /\ AtReceiver(e + i) \in 0 .. (C - 1)
      BY Zenon, <2>1, RecvFacts
    <2>4. win.slots[AtReceiver(e + i)] \in RecvSlot
      BY <1>1, <2>3 DEF RecvWindow
    <2>5. e + i \in 1 .. L
      BY <1>1, <2>1, <2>2
    <2> QED BY <2>2, <2>3, <2>4, <2>5 DEF Holds, IsOrdered
  <1>4. ASSUME NEW k \in 1 .. K
        PROVE  /\ OrderedAt(win, k) \in 0 .. (n - 1)
               /\ IsOrdered(win, OrderedAt(win, k))
               /\ OrderedAmong(win, OrderedAt(win, k)) = k - 1
    BY <1>1, OrderedPlace
  <1>5. ready = [k \in 1 .. K |-> SlotOf(win, Nth(win, OrderedAt(win, k)))]
    BY DEF OrderedSlots
  <1> HIDE DEF K
  <1>6. /\ ready \in [1 .. K -> RecvSlot] /\ DOMAIN ready = 1 .. K
        /\ \A k \in 1 .. K : /\ ready[k].delivery_mode = RELIABLE_ORDERED
                             /\ ready[k].payload = e + OrderedAt(win, k)
    BY <1>3, <1>4, <1>5 DEF IsOrdered
  <1>7. ready \in Seq(RecvSlot) /\ Len(ready) = K
    BY <1>2, <1>6, FunSeq
  <1>8. out = [k \in 1 .. K |-> ready[k].payload]
    BY Zenon, <1>6 DEF Payloads, ReliableModes
  <1>9. out \in [1 .. K -> 1 .. L] /\ \A k \in 1 .. K : out[k] = e + OrderedAt(win, k)
    BY <1>3, <1>4, <1>6, <1>8
  <1>10. out \in Seq(1 .. L) /\ Len(out) = K /\ DOMAIN out = 1 .. K
    BY <1>2, <1>9, FunSeq
  <1>11. ASSUME NEW k \in 1 .. K, NEW l \in 1 .. K, k < l PROVE out[k] < out[l]
    <2>1. OrderedAt(win, k) < OrderedAt(win, l)
      BY <1>1, <1>11, OrderedIncreasing DEF K
    <2> QED BY <1>1, <1>4, <1>9, <2>1
  <1>12. ASSUME NEW m \in 1 .. L
         PROVE  (\E k \in 1 .. K : out[k] = m) <=>
                    m \in e .. (e + n - 1) /\ msgs[m] = RELIABLE_ORDERED
    <2>1. ASSUME NEW k \in 1 .. K, out[k] = m
          PROVE  m \in e .. (e + n - 1) /\ msgs[m] = RELIABLE_ORDERED
      <3>1. OrderedAt(win, k) \in 0 .. (n - 1) /\ m = e + OrderedAt(win, k)
        BY <1>4, <1>9, <2>1
      <3>2. msgs[m] = RELIABLE_ORDERED
        BY <1>3, <1>4, <3>1
      <3>3. m \in e .. (e + n - 1)
        BY <1>1, <3>1
      <3> QED BY <3>2, <3>3
    <2>2. ASSUME m \in e .. (e + n - 1), msgs[m] = RELIABLE_ORDERED
          PROVE  \E k \in 1 .. K : out[k] = m
      <3> DEFINE i == m - e
                 k == OrderedAmong(win, i) + 1
      <3>1. i \in 0 .. (n - 1) /\ e + i = m
        BY <1>1, <2>2
      <3>2. IsOrdered(win, i)
        BY <1>3, <2>2, <3>1
      <3> HIDE DEF i
      <3>3. k \in 1 .. K /\ OrderedAt(win, k) = i
        BY <1>1, <3>1, <3>2, OrderedTurn DEF K
      <3> HIDE DEF k
      <3>4. out[k] = m
        BY <1>9, <3>1, <3>3
      <3> QED BY <3>3, <3>4
    <2> QED BY <2>1, <2>2
  <1> QED BY Zenon, <1>6, <1>7, <1>8, <1>10, <1>11, <1>12 DEF K

\* Message m is among the deliveries d.
Among(d, m) == \E i \in DOMAIN d : d[i] = m

\* Messages out may be delivered after d: none was before, and an ordered one
\* comes after the ordered ones sent before it.
MayFollow(d, out, msgs) ==
    /\ \A i \in DOMAIN d, k \in DOMAIN out : d[i] # out[k]
    /\ \A k \in DOMAIN out : msgs[out[k]] = RELIABLE_ORDERED =>
        \A m \in 1 .. (out[k] - 1) : msgs[m] = RELIABLE_ORDERED =>
            \/ \E i \in DOMAIN d : d[i] = m
            \/ \E i \in 1 .. (k - 1) : out[i] = m

\* Delivering more messages, none of them delivered before and each ordered one
\* after the ordered ones sent before it.
LEMMA Appended ==
    ASSUME NEW msgs, NEW L \in Nat, NEW d \in Seq(1 .. L), NEW out \in Seq(1 .. L),
           Once(d), Once(out), InTurn(d, msgs), MayFollow(d, out, msgs),
           NEW new, new = d \o out
    PROVE  /\ new \in Seq(1 .. L) /\ Once(new) /\ InTurn(new, msgs)
           /\ \A m \in 1 .. L : Among(new, m) <=> Among(d, m) \/ Among(out, m)
PROOF
  <1> DEFINE A == Len(d)
             B == Len(out)
  <1>1. /\ A \in Nat /\ B \in Nat /\ DOMAIN d = 1 .. A /\ DOMAIN out = 1 .. B
        /\ \A i \in 1 .. A : d[i] \in 1 .. L
        /\ \A k \in 1 .. B : out[k] \in 1 .. L
    BY LenProperties
  <1>2. new \in Seq(1 .. L) /\ Len(new) = A + B
        /\ \A i \in 1 .. (A + B) : new[i] = IF i <= A THEN d[i] ELSE out[i - A]
    BY ConcatProperties
  <1>3. DOMAIN new = 1 .. (A + B)
    BY <1>2, LenProperties
  <1> HIDE DEF A, B
  <1>4. \A i \in 1 .. A : i \in 1 .. (A + B) /\ new[i] = d[i]
    BY <1>1, <1>2
  <1>5. \A k \in 1 .. B : A + k \in 1 .. (A + B) /\ new[A + k] = out[k]
    <2> SUFFICES ASSUME NEW k \in 1 .. B
                 PROVE  A + k \in 1 .. (A + B) /\ new[A + k] = out[k]
      BY Zenon
    <2>1. A + k \in 1 .. (A + B) /\ ~(A + k <= A) /\ (A + k) - A = k
      BY <1>1
    <2> QED BY <1>2, <2>1
  <1>6. \A i \in 1 .. (A + B) : i \in 1 .. A \/ \E k \in 1 .. B : i = A + k
    <2> SUFFICES ASSUME NEW i \in 1 .. (A + B), i \notin 1 .. A
                 PROVE  \E k \in 1 .. B : i = A + k
      OBVIOUS
    <2>1. i - A \in 1 .. B /\ i = A + (i - A)
      BY <1>1
    <2> QED BY <2>1
  <1>7. Once(new)
    <2> SUFFICES ASSUME NEW i \in 1 .. (A + B), NEW j \in 1 .. (A + B), new[i] = new[j]
                 PROVE  i = j
      BY Zenon, <1>3 DEF Once
    <2>1. CASE i \in 1 .. A /\ j \in 1 .. A
      BY Zenon, <1>1, <1>4, <2>1 DEF Once
    <2>2. CASE i \in 1 .. A /\ \E k \in 1 .. B : j = A + k
      <3>1. PICK k \in 1 .. B : j = A + k
        BY <2>2
      <3>2. new[i] = d[i] /\ new[j] = out[k]
        BY Zenon, <1>4, <1>5, <2>2, <3>1
      <3> QED BY Zenon, <1>1, <2>2, <3>2 DEF MayFollow
    <2>3. CASE j \in 1 .. A /\ \E k \in 1 .. B : i = A + k
      <3>1. PICK k \in 1 .. B : i = A + k
        BY <2>3
      <3>2. new[j] = d[j] /\ new[i] = out[k]
        BY Zenon, <1>4, <1>5, <2>3, <3>1
      <3> QED BY Zenon, <1>1, <2>3, <3>2 DEF MayFollow
    <2>4. CASE (\E k \in 1 .. B : i = A + k) /\ (\E k \in 1 .. B : j = A + k)
      <3>1. PICK k \in 1 .. B, l \in 1 .. B : i = A + k /\ j = A + l
        BY <2>4
      <3>2. out[k] = out[l]
        BY Zenon, <1>5, <3>1
      <3> QED BY Zenon, <1>1, <3>1, <3>2 DEF Once
    <2> QED BY <1>6, <2>1, <2>2, <2>3, <2>4
  <1>8. \A m \in 1 .. L : Among(new, m) <=> Among(d, m) \/ Among(out, m)
    <2> SUFFICES ASSUME NEW m
                 PROVE  (\E i \in 1 .. (A + B) : new[i] = m) <=>
                            (\E i \in 1 .. A : d[i] = m) \/ (\E k \in 1 .. B : out[k] = m)
      BY Zenon, <1>1, <1>3 DEF Among
    <2>1. (\E i \in 1 .. A : d[i] = m) => \E i \in 1 .. (A + B) : new[i] = m
      BY Zenon, <1>4
    <2>2. (\E k \in 1 .. B : out[k] = m) => \E i \in 1 .. (A + B) : new[i] = m
      BY Zenon, <1>5
    <2>3. ASSUME NEW i \in 1 .. (A + B), new[i] = m
          PROVE  (\E j \in 1 .. A : d[j] = m) \/ (\E k \in 1 .. B : out[k] = m)
      BY Zenon, <1>4, <1>5, <1>6, <2>3
    <2> QED BY Zenon, <2>1, <2>2, <2>3
  <1>9. InTurn(new, msgs)
    <2> SUFFICES ASSUME NEW j \in 1 .. (A + B), msgs[new[j]] = RELIABLE_ORDERED,
                        NEW m \in 1 .. (new[j] - 1), msgs[m] = RELIABLE_ORDERED
                 PROVE  \E i \in 1 .. (j - 1) : new[i] = m
      BY Zenon, <1>3 DEF InTurn
    <2>1. CASE j \in 1 .. A
      <3>1. new[j] = d[j]
        BY Zenon, <1>4, <2>1
      <3>2. PICK i \in 1 .. (j - 1) : d[i] = m
        BY Zenon, <1>1, <2>1, <3>1 DEF InTurn
      <3>3. i \in 1 .. A
        BY <1>1, <2>1
      <3> QED BY Zenon, <1>4, <3>2, <3>3
    <2>2. CASE \E k \in 1 .. B : j = A + k
      <3>1. PICK k \in 1 .. B : j = A + k
        BY <2>2
      <3>2. new[j] = out[k]
        BY Zenon, <1>5, <3>1
      <3>3. \/ \E i \in DOMAIN d : d[i] = m
            \/ \E i \in 1 .. (k - 1) : out[i] = m
        BY Zenon, <1>1, <3>2 DEF MayFollow
      <3>4. CASE \E i \in DOMAIN d : d[i] = m
        <4>1. PICK i \in 1 .. A : d[i] = m
          BY <1>1, <3>4
        <4>2. i \in 1 .. (j - 1)
          BY <1>1, <3>1
        <4> QED BY Zenon, <1>4, <4>1, <4>2
      <3>5. CASE \E i \in 1 .. (k - 1) : out[i] = m
        <4>1. PICK i \in 1 .. (k - 1) : out[i] = m
          BY <3>5
        <4>2. i \in 1 .. B /\ A + i \in 1 .. (j - 1)
          BY <1>1, <3>1
        <4> QED BY Zenon, <1>5, <4>1, <4>2
      <3> QED BY Zenon, <3>3, <3>4, <3>5
    <2> QED BY Zenon, <1>6, <2>1, <2>2
  <1> QED BY <1>2, <1>7, <1>8, <1>9

\* Moving past a run of messages delivers its ordered ones.
LEMMA RunDelivers ==
    ASSUME NEW win, NEW e, NEW msgs, RecvHolds(win, e, msgs), NEW d,
           Delivery(d, win, e, msgs), NEW n \in 0 .. RecvCapacity,
           Run(win, e, n)
    PROVE  Delivery(d \o Payloads(OrderedSlots(win, n), ReliableModes),
                    Advance(win, n), e + n, msgs)
PROOF
  <1> DEFINE L == Len(msgs)
             out == Payloads(OrderedSlots(win, n), ReliableModes)
             new == Advance(win, n)
  <1>1. /\ out \in Seq(1 .. L)
        /\ \A k, l \in DOMAIN out : k < l => out[k] < out[l]
        /\ \A m \in 1 .. L : (\E k \in DOMAIN out : out[k] = m) <=>
               m \in e .. (e + n - 1) /\ msgs[m] = RELIABLE_ORDERED
    <2> DEFINE ready == OrderedSlots(win, n)
    <2>1. ready = OrderedSlots(win, n) /\ out = Payloads(ready, ReliableModes)
      BY Zenon
    <2> HIDE DEF ready, out, new
    <2> QED BY <2>1, OrderedRun
  <1>2. \A m \in 1 .. L : Has(new, e + n, m) <=> Has(win, e, m)
    BY Zenon, AdvanceHolds
  <1> HIDE DEF new, out
  <1>3. /\ L \in Nat /\ e \in Int /\ n \in Nat /\ n <= RecvCapacity
        /\ RecvCapacity \in Nat /\ msgs \in Seq(ReliableModes)
    <2>1. e \in Int /\ L \in Nat
      BY RecvFacts
    <2> QED BY <2>1, Sizes DEF RecvHolds
  <1>4. /\ d \in Seq(1 .. L) /\ Once(d) /\ InTurn(d, msgs)
        /\ \A m \in 1 .. L : (\E i \in DOMAIN d : d[i] = m) <=>
               m < e \/ (Has(win, e, m) /\ msgs[m] = RELIABLE_UNORDERED)
    BY DEF Delivery
  <1>5. /\ DOMAIN out = 1 .. Len(out) /\ Len(out) \in Nat
        /\ \A k \in DOMAIN out : out[k] \in 1 .. L
        /\ \A i \in DOMAIN d : d[i] \in 1 .. L
    BY <1>1, <1>4, LenProperties
  <1>6. \A m \in 1 .. L : /\ msgs[m] \in ReliableModes
                          /\ msgs[m] = RELIABLE_ORDERED <=> ~(msgs[m] = RELIABLE_UNORDERED)
    BY <1>3 DEF ReliableModes, RELIABLE_ORDERED, RELIABLE_UNORDERED
  <1>7. Once(out)
    BY <1>1, <1>5 DEF Once
  <1>8. \A i \in DOMAIN d, k \in DOMAIN out : d[i] # out[k]
    <2> SUFFICES ASSUME NEW i \in DOMAIN d, NEW k \in DOMAIN out, d[i] = out[k]
                 PROVE  FALSE
      OBVIOUS
    <2>1. out[k] \in e .. (e + n - 1) /\ msgs[out[k]] = RELIABLE_ORDERED
      BY <1>1, <1>5
    <2>2. out[k] < e \/ msgs[out[k]] = RELIABLE_UNORDERED
      BY <1>4, <1>5
    <2> QED BY <1>3, <1>5, <1>6, <2>1, <2>2
  <1>9. \A k \in DOMAIN out : msgs[out[k]] = RELIABLE_ORDERED =>
            \A m \in 1 .. (out[k] - 1) : msgs[m] = RELIABLE_ORDERED =>
                \/ \E i \in DOMAIN d : d[i] = m
                \/ \E i \in 1 .. (k - 1) : out[i] = m
    <2> SUFFICES ASSUME NEW k \in DOMAIN out, NEW m \in 1 .. (out[k] - 1),
                        msgs[m] = RELIABLE_ORDERED
                 PROVE  \/ \E i \in DOMAIN d : d[i] = m
                        \/ \E i \in 1 .. (k - 1) : out[i] = m
      OBVIOUS
    <2>1. out[k] \in e .. (e + n - 1) /\ m \in 1 .. L /\ m < out[k]
      BY <1>1, <1>3, <1>5
    <2>2. CASE m < e
      BY <1>4, <2>1, <2>2
    <2>3. CASE ~(m < e)
      <3>1. m \in e .. (e + n - 1)
        BY <1>3, <2>1, <2>3
      <3>2. PICK i \in DOMAIN out : out[i] = m
        BY Zenon, <1>1, <2>1, <3>1
      <3>3. ~(k < i) /\ i # k
        BY <1>1, <1>3, <1>5, <2>1, <3>2
      <3>4. i \in 1 .. (k - 1)
        BY <1>5, <3>3
      <3> QED BY <3>2, <3>4
    <2> QED BY <2>2, <2>3
  <1> DEFINE more == d \o out
  <1>10. /\ more \in Seq(1 .. L) /\ Once(more) /\ InTurn(more, msgs)
         /\ \A m \in 1 .. L : Among(more, m) <=> Among(d, m) \/ Among(out, m)
    <2>1. MayFollow(d, out, msgs)
      BY <1>8, <1>9 DEF MayFollow
    <2>2. /\ L \in Nat /\ d \in Seq(1 .. L) /\ out \in Seq(1 .. L)
          /\ Once(d) /\ Once(out) /\ InTurn(d, msgs)
      BY <1>1, <1>3, <1>4, <1>7
    <2>3. more = d \o out
      OBVIOUS
    <2> HIDE DEF L, more
    <2> QED BY Zenon, <2>1, <2>2, <2>3, Appended
  <1> HIDE DEF more
  <1>11. ASSUME NEW m \in 1 .. L
         PROVE  (\E i \in DOMAIN more : more[i] = m) <=>
                    m < e + n \/ (Has(new, e + n, m) /\ msgs[m] = RELIABLE_UNORDERED)
    <2>1. (\E i \in DOMAIN more : more[i] = m) <=>
              \/ m < e
              \/ Has(win, e, m) /\ msgs[m] = RELIABLE_UNORDERED
              \/ m \in e .. (e + n - 1) /\ msgs[m] = RELIABLE_ORDERED
      BY Zenon, <1>1, <1>4, <1>10 DEF Among
    <2>2. m < e + n <=> m < e \/ m \in e .. (e + n - 1)
      BY <1>3
    <2>3. m \in e .. (e + n - 1) => Has(win, e, m)
      <3> SUFFICES ASSUME m \in e .. (e + n - 1) PROVE Has(win, e, m)
        OBVIOUS
      <3>1. m - e \in 0 .. (n - 1) /\ e + (m - e) = m /\ m < e + RecvCapacity
        BY <1>3
      <3>2. Received(win, SeqOf(m))
        BY <3>1 DEF Run
      <3> QED BY <3>1, <3>2 DEF Has
    <2> QED BY Zenon, <1>2, <1>6, <2>1, <2>2, <2>3
  <1> QED BY Zenon, <1>10, <1>11 DEF Delivery, more, new, out

\* Storing an ordered message delivers nothing by itself; an unordered one is
\* delivered at once.
LEMMA StoreDelivers ==
    ASSUME NEW win, NEW e, NEW msgs, RecvHolds(win, e, msgs), NEW d,
           Delivery(d, win, e, msgs), NEW n \in e .. (e + RecvCapacity - 1),
           n <= Len(msgs), ~Received(win, SeqOf(n)), NEW new,
           \A m \in 1 .. Len(msgs) : Has(new, e, m) <=> Has(win, e, m) \/ m = n
    PROVE  /\ msgs[n] = RELIABLE_ORDERED => Delivery(d, new, e, msgs)
           /\ msgs[n] = RELIABLE_UNORDERED => Delivery(d \o <<n>>, new, e, msgs)
PROOF
  <1> DEFINE L == Len(msgs)
             out == <<n>>
             more == d \o out
  <1>1. /\ L \in Nat /\ e \in Int /\ n \in 1 .. L /\ ~(n < e) /\ n \in Int
        /\ msgs \in Seq(ReliableModes)
    <2>1. e \in Int /\ L \in Nat
      BY RecvFacts
    <2> QED BY <2>1, Sizes DEF RecvHolds
  <1>2. /\ d \in Seq(1 .. L) /\ Once(d) /\ InTurn(d, msgs)
        /\ \A m \in 1 .. L : (\E i \in DOMAIN d : d[i] = m) <=>
               m < e \/ (Has(win, e, m) /\ msgs[m] = RELIABLE_UNORDERED)
    BY DEF Delivery
  <1>3. ~Has(win, e, n)
    BY <1>1 DEF Has
  <1>4. RELIABLE_ORDERED # RELIABLE_UNORDERED
    BY DEF RELIABLE_ORDERED, RELIABLE_UNORDERED
  <1>5. ASSUME msgs[n] = RELIABLE_ORDERED PROVE Delivery(d, new, e, msgs)
    BY Zenon, <1>2, <1>4, <1>5 DEF Delivery
  <1>6. ASSUME msgs[n] = RELIABLE_UNORDERED PROVE Delivery(more, new, e, msgs)
    <2>1. /\ out \in Seq(1 .. L) /\ DOMAIN out = {1} /\ out[1] = n
      BY <1>1
    <2> HIDE DEF out
    <2>2. Once(out)
      BY <2>1 DEF Once
    <2>3. \A i \in DOMAIN d, k \in DOMAIN out : d[i] # out[k]
      BY Zenon, <1>1, <1>2, <1>3, <2>1
    <2>4. \A k \in DOMAIN out : ~(msgs[out[k]] = RELIABLE_ORDERED)
      BY Zenon, <1>4, <1>6, <2>1
    <2>5. /\ more \in Seq(1 .. L) /\ Once(more) /\ InTurn(more, msgs)
          /\ \A m \in 1 .. L : Among(more, m) <=> Among(d, m) \/ Among(out, m)
      <3>1. MayFollow(d, out, msgs)
        BY <2>3, <2>4 DEF MayFollow
      <3> QED BY Zenon, <1>1, <1>2, <2>1, <2>2, <3>1, Appended
    <2> HIDE DEF more
    <2>6. \A m \in 1 .. L : (\E i \in DOMAIN more : more[i] = m) <=>
              m < e \/ (Has(win, e, m) /\ msgs[m] = RELIABLE_UNORDERED) \/ m = n
      BY Zenon, <1>2, <2>1, <2>5 DEF Among
    <2>7. \A m \in 1 .. L : (\E i \in DOMAIN more : more[i] = m) <=>
              m < e \/ (Has(new, e, m) /\ msgs[m] = RELIABLE_UNORDERED)
      BY <1>6, <2>6
    <2> QED BY <2>5, <2>7 DEF Delivery
  <1> QED BY Zenon, <1>5, <1>6

=============================================================================
