--------------------------- MODULE TransferProofs ---------------------------
(***************************************************************************)
(* Proofs about one direction of a session: the windows of both ends agree *)
(* with the messages they stand for, no message is given up before it has  *)
(* arrived, and the direction implements ReliableLink, for all window      *)
(* sizes and over any number of turns around the sequence space.           *)
(***************************************************************************)
EXTENDS TransferLemmas

-----------------------------------------------------------------------------
(* Arrivals *)

\* A drain that takes an ordered message only while fewer than room of them
\* were taken takes at most room.
LEMMA RoomKept ==
    ASSUME NEW win, win.capacity \in Nat, NEW n \in Nat, n <= win.capacity,
           NEW room \in Nat,
           \A i \in 0 .. (n - 1) : IsOrdered(win, i) => OrderedAmong(win, i) < room
    PROVE  OrderedAmong(win, n) <= room
PROOF
  <1>1. OrderedAmong(win, n) \in Nat
    BY AmongStep
  <1> SUFFICES ASSUME ~(OrderedAmong(win, n) <= room) PROVE FALSE
    OBVIOUS
  <1>2. room + 1 \in 1 .. OrderedAmong(win, n) /\ room + 1 - 1 = room
    BY <1>1
  <1> DEFINE k == room + 1
             i == OrderedAt(win, k)
  <1>3. i \in 0 .. (n - 1) /\ IsOrdered(win, i) /\ OrderedAmong(win, i) = k - 1
    <2> HIDE DEF k
    <2> QED BY <1>2, OrderedPlace DEF k
  <1> HIDE DEF i
  <1> QED BY <1>2, <1>3

\* Handing over r moves window win from message e to message k, keeps what it
\* has, and adds to the deliveries d what is due.
Outcome(r, win, e, k, d, msgs) ==
    /\ RecvHolds(r.win, k, msgs) /\ k >= e
    /\ seq_diff(r.win.expected_seq, win.expected_seq) = k - e
    /\ \A m \in 1 .. Len(msgs) : Has(win, e, m) => Has(r.win, k, m)
    /\ Payloads(r.ready, ReliableModes) \in Seq(1 .. Len(msgs))
    /\ Delivery(d \o Payloads(r.ready, ReliableModes), r.win, k, msgs)
    /\ Payloads(r.ready, {UNRELIABLE_ORDERED}) = <<>>
    /\ Len(r.ready) \in 0 .. MaxReady
    /\ r.win.highest_unrel_seq = win.highest_unrel_seq
    /\ r.win.has_highest_unrel = win.has_highest_unrel

\* Ordered slots are not unreliable.
LEMMA NoneUnreliable ==
    ASSUME NEW ready \in Seq(RecvSlot),
           \A k \in DOMAIN ready : ready[k].delivery_mode = RELIABLE_ORDERED
    PROVE  Payloads(ready, {UNRELIABLE_ORDERED}) = <<>>
PROOF
  <1>1. DOMAIN ready = 1 .. Len(ready) /\ Len(ready) \in Nat
    BY LenProperties
  <1>2. CASE Len(ready) = 0
    <2>1. DOMAIN ready = 1 .. 0
      BY <1>1, <1>2
    <2>2. \A i \in DOMAIN ready : FALSE
      BY <2>1
    <2> DEFINE f == [i \in DOMAIN ready |-> ready[i].payload]
    <2>3. f \in [1 .. 0 -> {}]
      BY <2>1, <2>2
    <2>4. f = <<>>
      <3> HIDE DEF f
      <3> QED BY <2>3, EmptyFun
    <2> QED BY <2>4 DEF Payloads
  <1>3. CASE Len(ready) > 0
    <2>1. 1 \in DOMAIN ready
      BY <1>1, <1>3
    <2> QED BY <2>1 DEF Payloads, RELIABLE_ORDERED, UNRELIABLE_ORDERED
  <1> QED BY <1>1, <1>2, <1>3

\* One turn of the drain loops (rel4u_recv_window_pop_ready): when it returns
\* fewer slots than asked for, nothing deliverable is left.
LEMMA PopOutcome ==
    ASSUME NEW win, NEW e, NEW msgs, RecvHolds(win, e, msgs), NEW d,
           Delivery(d, win, e, msgs),
           NEW r, r = recv_window_pop_ready(win, MaxReady)
    PROVE  \E k \in Int :
               /\ Outcome(r, win, e, k, d, msgs) /\ r.ret = 0
               /\ Len(r.ready) < MaxReady => ~Received(r.win, SeqOf(k))
PROOF
  <1> DEFINE takes == WithRoom(win, MaxReady)
             n == DrainLength(win, takes)
             new == Advance(win, n)
             ready == OrderedSlots(win, n)
  <1>1. r = [ret |-> 0, win |-> new, ready |-> ready]
    BY DEF recv_window_pop_ready
  <1>2. /\ n \in 0 .. RecvCapacity
        /\ Run(win, e, n) /\ \A i \in 0 .. (n - 1) : i \in takes
        /\ n < RecvCapacity => ~(n \in takes /\ Received(win, SeqOf(e + n)))
    <2> HIDE DEF takes
    <2> QED BY DrainFacts
  <1>3. /\ e \in Int /\ RecvCapacity \in Nat \ {0} /\ MaxReady \in Nat \ {0}
        /\ win.capacity = RecvCapacity
    BY RecvFacts, Sizes, TransferAssumption
  <1> HIDE DEF n
  <1>4. n \in Nat /\ n <= win.capacity /\ win.capacity \in Nat /\ e + n \in Int
    BY <1>2, <1>3
  <1>5. /\ RecvHolds(new, e + n, msgs)
        /\ \A m \in 1 .. Len(msgs) : Has(new, e + n, m) <=> Has(win, e, m)
        /\ Received(new, SeqOf(e + n)) =>
               n < RecvCapacity /\ Received(win, SeqOf(e + n))
        /\ seq_diff(new.expected_seq, win.expected_seq) = n
        /\ new.highest_unrel_seq = win.highest_unrel_seq
        /\ new.has_highest_unrel = win.has_highest_unrel
    BY <1>2, AdvanceHolds
  <1>6. Delivery(d \o Payloads(ready, ReliableModes), new, e + n, msgs)
    BY <1>2, RunDelivers
  <1>7. /\ ready \in Seq(RecvSlot) /\ Len(ready) = OrderedAmong(win, n)
        /\ \A k \in DOMAIN ready : ready[k].delivery_mode = RELIABLE_ORDERED
        /\ Payloads(ready, ReliableModes) \in Seq(1 .. Len(msgs))
    <2>1. ready = OrderedSlots(win, n)
      OBVIOUS
    <2> HIDE DEF ready, new, takes
    <2> QED BY <1>2, <2>1, OrderedRun
  <1>8. OrderedAmong(win, n) \in Nat /\ OrderedAmong(win, n) <= MaxReady
    <2>1. \A i \in 0 .. (n - 1) : IsOrdered(win, i) => OrderedAmong(win, i) < MaxReady
      BY <1>2 DEF WithRoom
    <2> QED BY <1>3, <1>4, <2>1, RoomKept, AmongStep
  <1>9. ASSUME Len(ready) < MaxReady PROVE ~Received(new, SeqOf(e + n))
    <2>1. n < RecvCapacity => n \in takes
      BY <1>3, <1>4, <1>7, <1>9 DEF WithRoom
    <2> QED BY <1>2, <1>5, <2>1
  <1>10. Payloads(ready, {UNRELIABLE_ORDERED}) = <<>>
    <2> HIDE DEF ready
    <2> QED BY Zenon, <1>7, NoneUnreliable
  <1>11. e + n >= e /\ (e + n) - e = n /\ Len(ready) \in 0 .. MaxReady
    BY <1>3, <1>4, <1>7, <1>8
  <1> HIDE DEF ready, new
  <1>12. r.win = new /\ r.ready = ready /\ r.ret = 0
    BY <1>1
  <1>13. Outcome(r, win, e, e + n, d, msgs)
    BY <1>5, <1>6, <1>7, <1>10, <1>11, <1>12 DEF Outcome
  <1> QED BY <1>4, <1>9, <1>12, <1>13

\* Nothing ready means no payloads.
LEMMA NoPayloads == \A modes : Payloads(<<>>, modes) = <<>>
PROOF
  <1> SUFFICES ASSUME NEW modes PROVE Payloads(<<>>, modes) = <<>>
    OBVIOUS
  <1> DEFINE none == <<>>
             f == [i \in DOMAIN none |-> none[i].payload]
  <1>1. DOMAIN none = 1 .. 0 /\ \A i \in DOMAIN none : FALSE
    OBVIOUS
  <1>2. f \in [1 .. 0 -> {}]
    BY <1>1
  <1>3. f = <<>>
    <2> HIDE DEF f
    <2> QED BY <1>2, EmptyFun
  <1> QED BY <1>1, <1>3 DEF Payloads

\* A duplicate, or a message beyond the window, changes nothing.
LEMMA DroppedOutcome ==
    ASSUME NEW win, NEW e, NEW msgs, RecvHolds(win, e, msgs), NEW d,
           Delivery(d, win, e, msgs), NEW ret, NEW r, r = Dropped(win, ret)
    PROVE  Outcome(r, win, e, e, d, msgs) /\ r.ret = ret /\ r.win = win
PROOF
  <1>1. r.win = win /\ r.ready = <<>> /\ r.ret = ret
    BY DEF Dropped
  <1>2. Payloads(r.ready, ReliableModes) = <<>>
        /\ Payloads(r.ready, {UNRELIABLE_ORDERED}) = <<>>
    BY <1>1, NoPayloads
  <1>3. d \o <<>> = d
    BY ConcatEmptySeq DEF Delivery
  <1>4. e \in Int /\ win.expected_seq = SeqOf(e) /\ Half \in Nat /\ Half > 0
    BY RecvFacts, Sizes
  <1>5. seq_diff(SeqOf(e), SeqOf(e)) = e - e
    BY <1>4, SeqOfDiff
  <1>6. Len(r.ready) \in 0 .. MaxReady /\ e >= e
    BY <1>1, <1>4, TransferAssumption
  <1>7. <<>> \in Seq(1 .. Len(msgs))
    OBVIOUS
  <1> QED BY Zenon, <1>1, <1>2, <1>3, <1>4, <1>5, <1>6, <1>7 DEF Outcome

\* An unordered message and the ordered ones behind it are handed over
\* together.
LEMMA PayloadsCons ==
    ASSUME NEW slot \in RecvSlot, slot.delivery_mode = RELIABLE_UNORDERED,
           NEW ready \in Seq(RecvSlot),
           \A k \in DOMAIN ready : ready[k].delivery_mode = RELIABLE_ORDERED,
           NEW both, both = <<slot>> \o ready
    PROVE  /\ Payloads(both, ReliableModes)
                  = <<slot.payload>> \o Payloads(ready, ReliableModes)
           /\ Payloads(both, {UNRELIABLE_ORDERED}) = <<>>
           /\ Len(both) = Len(ready) + 1
PROOF
  <1> DEFINE n == Len(ready)
             out == Payloads(ready, ReliableModes)
             x == Payloads(both, ReliableModes)
             y == <<slot.payload>> \o out
  <1>1. n \in Nat /\ DOMAIN ready = 1 .. n /\ \A k \in 1 .. n : ready[k] \in RecvSlot
    BY LenProperties
  <1>2. /\ both \in Seq(RecvSlot) /\ Len(both) = n + 1 /\ DOMAIN both = 1 .. (n + 1)
        /\ both[1] = slot
        /\ \A k \in 2 .. (n + 1) : both[k] = ready[k - 1]
    <2>1. <<slot>> \in Seq(RecvSlot) /\ Len(<<slot>>) = 1 /\ <<slot>>[1] = slot
      OBVIOUS
    <2>2. /\ both \in Seq(RecvSlot) /\ Len(both) = 1 + n
          /\ \A i \in 1 .. (1 + n) : both[i] = IF i <= 1 THEN <<slot>>[i] ELSE ready[i - 1]
      BY <2>1, ConcatProperties
    <2>3. DOMAIN both = 1 .. (1 + n)
      BY <2>2, LenProperties
    <2> QED BY <1>1, <2>1, <2>2, <2>3
  <1>3. both[1].delivery_mode = RELIABLE_UNORDERED
        /\ \A k \in 2 .. (n + 1) : both[k].delivery_mode = RELIABLE_ORDERED
    BY <1>1, <1>2
  <1>4. \A k \in 1 .. (n + 1) : k = 1 \/ k \in 2 .. (n + 1)
    BY <1>1
  <1>5. /\ x = [k \in 1 .. (n + 1) |-> both[k].payload]
        /\ out = [k \in 1 .. n |-> ready[k].payload]
    BY Zenon, <1>1, <1>2, <1>3, <1>4 DEF Payloads, ReliableModes
  <1>6. /\ x \in [1 .. (n + 1) -> Payload] /\ out \in [1 .. n -> Payload]
    <2>1. \A k \in 1 .. (n + 1) : both[k] \in RecvSlot
      BY <1>2
    <2> QED BY <1>1, <1>5, <2>1 DEF RecvSlot
  <1>7. x \in Seq(Payload) /\ Len(x) = n + 1 /\ out \in Seq(Payload) /\ Len(out) = n
    <2>1. n + 1 \in Nat
      BY <1>1
    <2> HIDE DEF x, out
    <2> QED BY Zenon, <1>1, <1>6, <2>1, FunSeq
  <1>8. \A k \in 1 .. (n + 1) : x[k] = both[k].payload
    BY <1>5
  <1>9. \A k \in 1 .. n : out[k] = ready[k].payload
    BY <1>5
  <1> HIDE DEF x, out
  <1>10. /\ y \in Seq(Payload) /\ Len(y) = n + 1 /\ y[1] = slot.payload
         /\ \A k \in 2 .. (n + 1) : y[k] = out[k - 1]
    <2>1. /\ <<slot.payload>> \in Seq(Payload) /\ Len(<<slot.payload>>) = 1
          /\ <<slot.payload>>[1] = slot.payload
      BY DEF RecvSlot
    <2>2. /\ y \in Seq(Payload) /\ Len(y) = 1 + n
          /\ \A i \in 1 .. (1 + n) : y[i] = IF i <= 1 THEN <<slot.payload>>[i] ELSE out[i - 1]
      BY <1>7, <2>1, ConcatProperties
    <2> QED BY <1>1, <2>1, <2>2
  <1> HIDE DEF y
  <1>11. \A k \in 1 .. (n + 1) : x[k] = y[k]
    <2>1. \A k \in 2 .. (n + 1) : k - 1 \in 1 .. n
      BY <1>1
    <2>2. \A k \in 2 .. (n + 1) : k \in 1 .. (n + 1)
      BY <1>1
    <2>3. \A k \in 2 .. (n + 1) : x[k] = y[k]
      BY Zenon, <1>2, <1>8, <1>9, <1>10, <2>1, <2>2
    <2>4. 1 \in 1 .. (n + 1)
      BY <1>1
    <2>5. x[1] = y[1]
      BY <1>2, <1>8, <1>10, <2>4
    <2> QED BY <1>4, <2>3, <2>5
  <1>12. x = y
    BY <1>7, <1>10, <1>11, SeqEqual
  <1>13. Payloads(both, {UNRELIABLE_ORDERED}) = <<>>
    <2>1. 1 \in DOMAIN both
      BY <1>1, <1>2
    <2> QED BY <1>3, <2>1 DEF Payloads, RELIABLE_UNORDERED, UNRELIABLE_ORDERED
  <1> QED BY Zenon, <1>2, <1>12, <1>13 DEF x, y, out

\* An unordered arrival: it is handed over at once, and the drain behind it
\* leaves nothing deliverable unless the ready slots are full.
LEMMA UnorderedOutcome ==
    ASSUME NEW win, NEW e, NEW msgs, RecvHolds(win, e, msgs), NEW d,
           NEW q \in 1 .. Len(msgs), msgs[q] = RELIABLE_UNORDERED,
           d \in Seq(1 .. Len(msgs)), Delivery(d \o <<q>>, win, e, msgs),
           NEW r, r = AdvanceUnordered(win, ArrivedSlot(q, msgs[q]), MaxReady)
    PROVE  \E k \in Int :
               /\ Outcome(r, win, e, k, d, msgs) /\ r.ret = 0
               /\ Len(r.ready) < MaxReady => ~Received(r.win, SeqOf(k))
PROOF
  <1> DEFINE L == Len(msgs)
             slot == ArrivedSlot(q, msgs[q])
             unordered == {i \in 0 .. (win.capacity - 1) :
                SlotOf(win, Nth(win, i)).delivery_mode = RELIABLE_UNORDERED}
             takes == unordered \cup WithRoom(win, MaxReady - 1)
             n == DrainLength(win, takes)
             new == Advance(win, n)
             ready == OrderedSlots(win, n)
             both == <<slot>> \o ready
             out == Payloads(ready, ReliableModes)
  <1>1. r = [ret |-> 0, win |-> new, ready |-> both]
    BY DEF AdvanceUnordered
  <1>2. /\ n \in 0 .. RecvCapacity
        /\ Run(win, e, n) /\ \A i \in 0 .. (n - 1) : i \in takes
        /\ n < RecvCapacity => ~(n \in takes /\ Received(win, SeqOf(e + n)))
    <2> HIDE DEF takes
    <2> QED BY DrainFacts
  <1>3. /\ e \in Int /\ RecvCapacity \in Nat \ {0}
        /\ MaxReady \in Nat /\ MaxReady - 1 \in Nat
        /\ win.capacity = RecvCapacity /\ L \in Nat /\ q \in Int
    BY RecvFacts, Sizes, TransferAssumption
  <1> HIDE DEF n
  <1>4. n \in Nat /\ n <= win.capacity /\ win.capacity \in Nat /\ e + n \in Int
    BY <1>2, <1>3
  <1>5. /\ RecvHolds(new, e + n, msgs)
        /\ \A m \in 1 .. L : Has(new, e + n, m) <=> Has(win, e, m)
        /\ Received(new, SeqOf(e + n)) =>
               n < RecvCapacity /\ Received(win, SeqOf(e + n))
        /\ seq_diff(new.expected_seq, win.expected_seq) = n
        /\ new.highest_unrel_seq = win.highest_unrel_seq
        /\ new.has_highest_unrel = win.has_highest_unrel
    BY <1>2, AdvanceHolds
  <1>6. Delivery((d \o <<q>>) \o out, new, e + n, msgs)
    BY <1>2, RunDelivers
  <1>7. /\ ready \in Seq(RecvSlot) /\ Len(ready) = OrderedAmong(win, n)
        /\ \A k \in DOMAIN ready : ready[k].delivery_mode = RELIABLE_ORDERED
        /\ out \in Seq(1 .. L)
    <2>1. ready = OrderedSlots(win, n) /\ out = Payloads(ready, ReliableModes)
      OBVIOUS
    <2> HIDE DEF ready, out, new, takes
    <2> QED BY <1>2, <2>1, OrderedRun
  <1>8. OrderedAmong(win, n) \in Nat /\ OrderedAmong(win, n) <= MaxReady - 1
    <2>1. \A i \in 0 .. (n - 1) :
              IsOrdered(win, i) => OrderedAmong(win, i) < MaxReady - 1
      <3> SUFFICES ASSUME NEW i \in 0 .. (n - 1), IsOrdered(win, i)
                   PROVE  i \in WithRoom(win, MaxReady - 1)
        BY DEF WithRoom
      <3>1. i \notin unordered
        BY DEF IsOrdered, RELIABLE_ORDERED, RELIABLE_UNORDERED
      <3> QED BY <1>2, <3>1
    <2> QED BY Zenon, <1>3, <1>4, <2>1, RoomKept, AmongStep
  <1>9. slot \in RecvSlot /\ slot.payload = q /\ slot.delivery_mode = RELIABLE_UNORDERED
    <2>1. SeqOf(q) \in SeqSpace
      BY <1>3, SeqOfType
    <2>2. msgs[q] \in Modes /\ q \in Payload
      BY <1>3 DEF Modes, ReliableModes, Payload
    <2> QED BY <2>1, <2>2 DEF ArrivedSlot, RecvSlot
  <1> HIDE DEF slot, ready, out
  <1>10. /\ Payloads(both, ReliableModes) = <<q>> \o out
         /\ Payloads(both, {UNRELIABLE_ORDERED}) = <<>>
         /\ Len(both) = Len(ready) + 1
    <2>1. /\ Payloads(both, ReliableModes) = <<slot.payload>> \o Payloads(ready, ReliableModes)
          /\ Payloads(both, {UNRELIABLE_ORDERED}) = <<>>
          /\ Len(both) = Len(ready) + 1
      BY Zenon, <1>7, <1>9, PayloadsCons
    <2> QED BY Zenon, <1>9, <2>1 DEF out
  <1>11. /\ (d \o <<q>>) \o out = d \o (<<q>> \o out)
         /\ <<q>> \o out \in Seq(1 .. L)
    <2>1. <<q>> \in Seq(1 .. L)
      OBVIOUS
    <2> QED BY <1>7, <2>1, ConcatAssociative, ConcatProperties
  <1>12. ASSUME Len(both) < MaxReady PROVE ~Received(new, SeqOf(e + n))
    <2>1. OrderedAmong(win, n) < MaxReady - 1
      BY <1>3, <1>7, <1>8, <1>10, <1>12
    <2>2. n < RecvCapacity => n \in takes
      BY <1>3, <1>4, <2>1 DEF WithRoom
    <2> QED BY <1>2, <1>5, <2>2
  <1>13. e + n >= e /\ (e + n) - e = n /\ Len(both) \in 0 .. MaxReady
    BY <1>3, <1>4, <1>7, <1>8, <1>10
  <1> HIDE DEF both, new
  <1>14. r.win = new /\ r.ready = both /\ r.ret = 0
    BY <1>1
  <1>15. Outcome(r, win, e, e + n, d, msgs)
    BY Zenon, <1>5, <1>6, <1>10, <1>11, <1>13, <1>14 DEF Outcome
  <1> QED BY <1>4, <1>12, <1>14, <1>15

\* Every reliable arrival (rel4u_recv_window_on_packet): an old message, one
\* already there and one beyond the window are dropped, any other is stored.
LEMMA ReliableOutcome ==
    ASSUME NEW win, NEW e, NEW msgs, RecvHolds(win, e, msgs), NEW d,
           Delivery(d, win, e, msgs), NEW q \in 1 .. Len(msgs),
           -Half <= q - e, q - e < Half,
           NEW r, r = on_reliable_packet(win, ArrivedSlot(q, msgs[q]), MaxReady)
    PROVE  \E k \in Int :
               /\ Outcome(r, win, e, k, d, msgs) /\ r.ret \in {-2, 0, 1}
               /\ r.ret = 0 /\ Len(r.ready) < MaxReady => ~Received(r.win, SeqOf(k))
               /\ r.ret = -2 => r.win = win /\ k = e
PROOF
  <1> DEFINE L == Len(msgs)
             slot == ArrivedSlot(q, msgs[q])
             stored == [win EXCEPT !.slots[SlotIdx(win, SeqOf(q))] = slot]
  <1>1. /\ e \in Int /\ L \in Nat /\ q \in Int /\ win.expected_seq = SeqOf(e)
        /\ win.capacity = RecvCapacity /\ RecvCapacity \in Nat
    BY RecvFacts, Sizes
  <1>2. msgs[q] \in ReliableModes /\ slot.seq_num = SeqOf(q) /\ slot.delivery_mode = msgs[q]
    BY DEF RecvHolds, ArrivedSlot
  <1>3. seq_diff(SeqOf(q), win.expected_seq) = q - e
    BY <1>1, SeqOfDiff
  <1> HIDE DEF slot, stored
  <1>4. r = CASE q - e < 0 -> Dropped(win, 1)
              [] q - e >= RecvCapacity -> Dropped(win, -2)
              [] OTHER ->
                    IF Received(win, SeqOf(q)) THEN Dropped(win, 1)
                    ELSE IF msgs[q] = RELIABLE_UNORDERED
                         THEN AdvanceUnordered(stored, slot, MaxReady)
                         ELSE recv_window_pop_ready(stored, MaxReady)
    BY <1>1, <1>2, <1>3 DEF on_reliable_packet, seq_lt, slot, stored
  <1>5. CASE r = Dropped(win, 1) \/ r = Dropped(win, -2)
    <2>1. Outcome(r, win, e, e, d, msgs) /\ r.ret \in {-2, 1} /\ r.win = win
      BY <1>5, DroppedOutcome
    <2> QED BY <1>1, <2>1
  <1>6. CASE ~(q - e < 0) /\ ~(q - e >= RecvCapacity) /\ ~Received(win, SeqOf(q))
    <2>1. q \in e .. (e + RecvCapacity - 1) /\ q <= L
      BY <1>1, <1>6
    <2>2. /\ RecvHolds(stored, e, msgs)
          /\ \A m \in 1 .. L : Has(stored, e, m) <=> Has(win, e, m) \/ m = q
          /\ stored.expected_seq = win.expected_seq
          /\ stored.highest_unrel_seq = win.highest_unrel_seq
          /\ stored.has_highest_unrel = win.has_highest_unrel
      BY <2>1, StoreHolds DEF stored, slot
    <2>3. /\ msgs[q] = RELIABLE_ORDERED => Delivery(d, stored, e, msgs)
          /\ msgs[q] = RELIABLE_UNORDERED => Delivery(d \o <<q>>, stored, e, msgs)
      BY <1>6, <2>1, <2>2, StoreDelivers
    <2>4. d \in Seq(1 .. L)
      BY DEF Delivery
    <2>5. \E k \in Int :
              /\ Outcome(r, stored, e, k, d, msgs) /\ r.ret = 0
              /\ Len(r.ready) < MaxReady => ~Received(r.win, SeqOf(k))
      <3>1. CASE msgs[q] = RELIABLE_UNORDERED
        <4>1. r = AdvanceUnordered(stored, ArrivedSlot(q, msgs[q]), MaxReady)
          BY Zenon, <1>4, <1>6, <3>1 DEF slot
        <4> QED BY Zenon, <2>2, <2>3, <2>4, <3>1, <4>1, UnorderedOutcome
      <3>2. CASE msgs[q] # RELIABLE_UNORDERED
        <4>1. r = recv_window_pop_ready(stored, MaxReady) /\ msgs[q] = RELIABLE_ORDERED
          BY <1>2, <1>4, <1>6, <3>2 DEF ReliableModes
        <4> QED BY <2>2, <2>3, <4>1, PopOutcome
      <3> QED BY Zenon, <3>1, <3>2
    <2>6. PICK k \in Int :
              /\ Outcome(r, stored, e, k, d, msgs) /\ r.ret = 0
              /\ Len(r.ready) < MaxReady => ~Received(r.win, SeqOf(k))
      BY <2>5
    <2>7. Outcome(r, win, e, k, d, msgs)
      BY <2>2, <2>6 DEF Outcome
    <2> QED BY <2>6, <2>7
  <1>7. (q - e < 0) \/ (q - e >= RecvCapacity) \/ Received(win, SeqOf(q))
            => r = Dropped(win, 1) \/ r = Dropped(win, -2)
    BY <1>1, <1>4
  <1> QED BY <1>5, <1>6, <1>7

-----------------------------------------------------------------------------
(* The invariant holds at the start and is kept by every step *)

\* Both windows start empty.
LEMMA InitHolds == Init => TransferInv
PROOF
  <1> SUFFICES ASSUME Init PROVE TransferInv
    OBVIOUS
  <1> USE DEF Init
  <1>1. SeqOf(1) = InitSeq /\ InitSeq \in SeqSpace
    <2>1. InitSeq \in 0 .. (SeqMod - 1) /\ SeqMod \in Nat \ {0}
      BY TransferAssumption, Sizes DEF SeqSpace
    <2>2. InitSeq % SeqMod = InitSeq
      <3>1. InitSeq \in Int /\ 0 \in Int /\ InitSeq = SeqMod * 0 + InitSeq
        BY <2>1
      <3> QED BY <2>1, <3>1, ModUnique
    <2>3. InitSeq + (1 - 1) = InitSeq
      BY <2>1
    <2> QED BY <2>1, <2>2, <2>3 DEF SeqOf, seq_add, SeqSpace
  <1>2. 0 \in SeqSpace /\ <<>> \in Seq(ReliableModes) /\ Len(<<>>) = 0
    BY Sizes DEF SeqSpace
  <1>3. SendHolds(send_win, head, sent)
    <2>1. FreeSendSlot \in SendSlot /\ ~FreeSendSlot.in_use
      BY <1>2 DEF FreeSendSlot, SendSlot, Modes, UnreliableModes, Payload
    <2>2. /\ send_win \in SendWindow /\ send_win.head_seq = InitSeq
          /\ send_win.next_seq = InitSeq /\ send_win.in_flight = 0
          /\ \A i \in 0 .. (SendCapacity - 1) : ~send_win.slots[i].in_use
      BY <1>1, <2>1 DEF send_window_init, SendWindow
    <2>3. Pending(send_win, head, sent) = {}
      BY <1>2 DEF Pending
    <2>4. head \in 1 .. (Len(sent) + 1) /\ Len(sent) + 1 - head <= SendCapacity
          /\ \A n \in head .. Len(sent) : FALSE
      BY <1>2, Sizes
    <2>5. send_win.next_seq = SeqOf(Len(sent) + 1)
      BY <1>1, <1>2, <2>2
    <2> QED BY Zenon, <1>1, <1>2, <2>2, <2>3, <2>4, <2>5, FS_EmptySet DEF SendHolds
  <1>4. RecvHolds(recv_win, expected, sent)
    <2>1. FreeRecvSlot \in RecvSlot /\ ~FreeRecvSlot.received
      BY <1>2 DEF FreeRecvSlot, RecvSlot, Modes, UnreliableModes, Payload
    <2>2. /\ recv_win \in RecvWindow /\ recv_win.expected_seq = InitSeq
          /\ \A i \in 0 .. (RecvCapacity - 1) : ~recv_win.slots[i].received
      BY <1>1, <1>2, <2>1 DEF recv_window_init, RecvWindow
    <2>3. expected \in 1 .. (Len(sent) + 1)
      BY <1>2
    <2> QED BY <1>1, <1>2, <2>2, <2>3 DEF RecvHolds
  <1>5. MarksInv /\ DataInv /\ AckInv
    <2>1. \A n \in head .. Len(sent) : FALSE
      BY <1>2
    <2> QED BY <2>1 DEF MarksInv, DataInv, AckInv
  <1>6. NothingStuck
    <2>1. \A i \in 0 .. (RecvCapacity - 1) : ~recv_win.slots[i].received
      BY DEF recv_window_init, FreeRecvSlot
    <2>2. SlotIdx(recv_win, recv_win.expected_seq) \in 0 .. (RecvCapacity - 1)
      <3>1. SlotIdx(recv_win, SeqOf(1)) = AtReceiver(1)
            /\ AtReceiver(1) \in 0 .. (RecvCapacity - 1)
            /\ recv_win.expected_seq = SeqOf(1)
        BY <1>4, RecvFacts
      <3> QED BY <3>1
    <2> QED BY <2>1, <2>2 DEF NothingStuck, Received, SlotOf
  <1>7. UnrelInv
    <2>1. send_win.next_unrel_seq = SeqOf(sent_unrel + 1) /\ ~recv_win.has_highest_unrel
      BY <1>1 DEF send_window_init, recv_window_init
    <2>2. \A i \in 2 .. Len(delivered_uo) : FALSE
      BY <1>2
    <2> QED BY <2>1, <2>2 DEF UnrelInv, UnreliableInOrder
  <1>8. DeliveryInv
    <2>1. \A n \in 1 .. Len(sent) : FALSE
      BY <1>2
    <2> QED BY <2>1 DEF DeliveryInv, Delivery, Once, InTurn
  <1> QED BY Zenon, <1>3, <1>4, <1>5, <1>6, <1>7, <1>8 DEF TransferInv, WindowsInv

\* What the invariant says about the sizes of the state.
LEMMA Bounds ==
    ASSUME TransferInv
    PROVE  /\ Len(sent) \in Nat /\ sent \in Seq(ReliableModes) /\ head \in Int
           /\ expected \in Int /\ head \in 1 .. (Len(sent) + 1)
           /\ expected \in 1 .. (Len(sent) + 1) /\ head <= expected
           /\ Len(sent) + 1 - head <= SendCapacity
           /\ Len(sent) + 1 - expected <= Lifetime
PROOF
  <1>1. /\ sent \in Seq(ReliableModes) /\ Len(sent) \in Nat
        /\ head \in 1 .. (Len(sent) + 1) /\ Len(sent) + 1 - head <= SendCapacity
    BY DEF TransferInv, WindowsInv, SendHolds
  <1>2. expected \in 1 .. (Len(sent) + 1)
    BY DEF TransferInv, WindowsInv, RecvHolds
  <1>3. head <= expected
    BY DEF TransferInv, WindowsInv, MarksInv
  <1> QED BY <1>1, <1>2, <1>3, Sizes

\* Sending one more message does not touch the receiver.
LEMMA SentMore ==
    ASSUME NEW win, NEW e, NEW msgs, RecvHolds(win, e, msgs), NEW d,
           Delivery(d, win, e, msgs), NEW mode \in ReliableModes,
           NEW more, more = Append(msgs, mode)
    PROVE  RecvHolds(win, e, more) /\ Delivery(d, win, e, more)
PROOF
  <1> DEFINE L == Len(msgs)
  <1>1. /\ L \in Nat /\ e \in Int /\ win \in RecvWindow /\ win.expected_seq = SeqOf(e)
        /\ msgs \in Seq(ReliableModes) /\ e \in 1 .. (L + 1)
    BY RecvFacts DEF RecvHolds
  <1>2. /\ more \in Seq(ReliableModes) /\ Len(more) = L + 1
        /\ \A n \in 1 .. L : more[n] = msgs[n]
    BY <1>1
  <1>3. RecvHolds(win, e, more)
    <2>1. \A i \in 0 .. (RecvCapacity - 1) : win.slots[i].received =>
              \E n \in e .. (e + RecvCapacity - 1) :
                  n <= L + 1 /\ AtReceiver(n) = i /\ Holds(win.slots[i], n, more)
      <3> SUFFICES ASSUME NEW i \in 0 .. (RecvCapacity - 1), win.slots[i].received
                   PROVE  \E n \in e .. (e + RecvCapacity - 1) :
                              n <= L + 1 /\ AtReceiver(n) = i /\ Holds(win.slots[i], n, more)
        OBVIOUS
      <3>1. PICK n \in e .. (e + RecvCapacity - 1) :
                n <= L /\ AtReceiver(n) = i /\ Holds(win.slots[i], n, msgs)
        BY DEF RecvHolds
      <3>2. n \in 1 .. L /\ n <= L + 1
        BY <1>1, <3>1
      <3> QED BY <1>2, <3>1, <3>2 DEF Holds
    <2>2. e \in 1 .. (L + 1 + 1)
      BY <1>1
    <2> QED BY Zenon, <1>1, <1>2, <2>1, <2>2 DEF RecvHolds
  <1>4. /\ d \in Seq(1 .. L) /\ Once(d) /\ InTurn(d, msgs)
        /\ \A n \in 1 .. L : (\E i \in DOMAIN d : d[i] = n) <=>
               n < e \/ (Has(win, e, n) /\ msgs[n] = RELIABLE_UNORDERED)
    BY DEF Delivery
  <1>5. \A i \in DOMAIN d : d[i] \in 1 .. L
    BY <1>4, LenProperties
  <1>6. d \in Seq(1 .. (L + 1))
    <2>1. 1 .. L \subseteq 1 .. (L + 1)
      BY <1>1
    <2> QED BY <1>4, <2>1, SeqMonotonic
  <1>7. InTurn(d, more)
    <2> SUFFICES ASSUME NEW j \in DOMAIN d, more[d[j]] = RELIABLE_ORDERED,
                        NEW m \in 1 .. (d[j] - 1), more[m] = RELIABLE_ORDERED
                 PROVE  \E i \in 1 .. (j - 1) : d[i] = m
      BY Zenon DEF InTurn
    <2>1. d[j] \in 1 .. L /\ m \in 1 .. L
      BY <1>1, <1>5
    <2>2. msgs[d[j]] = RELIABLE_ORDERED /\ msgs[m] = RELIABLE_ORDERED
      BY <1>2, <2>1
    <2> QED BY <1>4, <2>2 DEF InTurn
  <1>8. ~Has(win, e, L + 1)
    <2> SUFFICES ASSUME Has(win, e, L + 1) PROVE FALSE
      OBVIOUS
    <2>1. L + 1 \in Int /\ ~(L + 1 < e) /\ e <= L + 1
      BY <1>1
    <2>2. L + 1 < e + RecvCapacity /\ Received(win, SeqOf(L + 1))
      BY <2>1 DEF Has
    <2>3. L + 1 < e + Half
      BY <1>1, <2>2, Sizes
    <2>4. L + 1 <= L
      BY <2>1, <2>2, <2>3, RecvGet
    <2> QED BY <1>1, <2>4
  <1>9. \A n \in 1 .. (L + 1) : (\E i \in DOMAIN d : d[i] = n) <=>
            n < e \/ (Has(win, e, n) /\ more[n] = RELIABLE_UNORDERED)
    <2> SUFFICES ASSUME NEW n \in 1 .. (L + 1)
                 PROVE  (\E i \in DOMAIN d : d[i] = n) <=>
                            n < e \/ (Has(win, e, n) /\ more[n] = RELIABLE_UNORDERED)
      OBVIOUS
    <2>1. CASE n \in 1 .. L
      BY <1>2, <1>4, <2>1
    <2>2. CASE n = L + 1
      <3>1. ~(n < e) /\ n \notin 1 .. L
        BY <1>1, <2>2
      <3> QED BY <1>5, <1>8, <2>2, <3>1
    <2> QED BY <1>1, <2>1, <2>2
  <1> QED BY Zenon, <1>2, <1>3, <1>4, <1>6, <1>7, <1>9 DEF Delivery

\* The datagrams that survive a new message are datagrams that are not too old.
LEMMA StillFresh ==
    ASSUME NEW net, NEW l, NEW u
    PROVE  /\ \A p \in FreshData(net, l, u) :
                  /\ p \in net
                  /\ p.delivery_mode \in ReliableModes => l - p.payload < Lifetime
                  /\ p.delivery_mode \notin ReliableModes => u - p.payload < Lifetime
           /\ \A a \in FreshAcks(net, l) : a \in net /\ l - a.upto <= Lifetime
  BY DEF FreshData, FreshAcks

\* SendReliable: the new message takes the next slot, and what it makes too
\* old is gone from the network.
LEMMA SendReliableHolds ==
    ASSUME TransferInv, NEW mode \in ReliableModes, SendReliable(mode)
    PROVE  TransferInv'
PROOF
  <1> DEFINE L == Len(sent)
  <1>1. /\ L \in Nat /\ sent \in Seq(ReliableModes) /\ head \in Int /\ expected \in Int
        /\ head \in 1 .. (L + 1) /\ expected \in 1 .. (L + 1)
    BY Bounds
  <1>2. /\ send_window_can_send(send_win) /\ sent' = Append(sent, mode)
        /\ send_win' = send_window_push(send_win, mode, Len(sent) + 1, 0)
        /\ data_net' = FreshData(data_net, Len(sent) + 1, sent_unrel) \cup
                       {Packet(mode, PushSeq(send_win, mode), Len(sent) + 1)}
        /\ ack_net' = FreshAcks(ack_net, Len(sent) + 1)
        /\ sent_unrel' = sent_unrel /\ head' = head /\ recv_win' = recv_win
        /\ draining' = draining /\ expected' = expected
        /\ delivered' = delivered /\ delivered_uo' = delivered_uo
    BY DEF SendReliable, receiverVars
  <1>3. /\ sent' \in Seq(ReliableModes) /\ Len(sent') = L + 1 /\ sent'[L + 1] = mode
        /\ \A n \in 1 .. L : sent'[n] = sent[n]
    BY <1>1, <1>2
  <1>4. SendHolds(send_win, head, sent) /\ send_win.next_seq = SeqOf(L + 1)
    BY Zenon DEF TransferInv, WindowsInv, SendHolds
  <1>5. /\ SendHolds(send_win', head, Append(sent, mode))
        /\ \A n \in head .. L : send_win'.slots[AtSender(n)] = send_win.slots[AtSender(n)]
        /\ ~send_win'.slots[AtSender(L + 1)].acked
        /\ send_win'.next_unrel_seq = send_win.next_unrel_seq
    BY <1>2, <1>4, PushHolds
  <1>6. RecvHolds(recv_win, expected, sent') /\ Delivery(delivered, recv_win, expected, sent')
    BY Zenon, <1>2, SentMore DEF TransferInv, WindowsInv, DeliveryInv
  <1>7. MarksInv'
    <2>1. \A n : Arrived(n)' <=> Arrived(n)
      BY <1>2 DEF Arrived
    <2> SUFFICES ASSUME NEW n \in head .. (L + 1), send_win'.slots[AtSender(n)].acked
                 PROVE  Arrived(n)
      BY <1>2, <1>3, <2>1 DEF TransferInv, WindowsInv, MarksInv, AtSender
    <2>2. n # L + 1
      BY <1>5
    <2>3. n \in head .. L
      BY <1>1, <2>2
    <2> QED BY <1>5, <2>3 DEF TransferInv, WindowsInv, MarksInv
  <1>8. DataInv'
    <2> SUFFICES ASSUME NEW p \in data_net'
                 PROVE  /\ p = Packet(p.delivery_mode, SeqOf(p.payload), p.payload)
                        /\ IF p.delivery_mode \in ReliableModes
                           THEN /\ p.payload \in 1 .. (L + 1)
                                /\ L + 1 - p.payload < Lifetime
                                /\ p.delivery_mode = sent'[p.payload]
                           ELSE /\ p.delivery_mode \in UnreliableModes
                                /\ p.payload \in 1 .. sent_unrel
                                /\ sent_unrel - p.payload < Lifetime
      BY <1>2, <1>3 DEF DataInv
    <2>1. CASE p \in FreshData(data_net, L + 1, sent_unrel)
      <3>1. p \in data_net
            /\ (p.delivery_mode \in ReliableModes => L + 1 - p.payload < Lifetime)
        <4> DEFINE M == Len(sent) + 1
        <4>1. p \in FreshData(data_net, M, sent_unrel)
          BY <2>1
        <4> HIDE DEF M
        <4>2. p \in data_net
              /\ (p.delivery_mode \in ReliableModes => M - p.payload < Lifetime)
          BY <4>1, StillFresh
        <4>3. p.delivery_mode \in ReliableModes => p.payload \in 1 .. L
          BY <4>2 DEF TransferInv, WindowsInv, DataInv
        <4> QED BY <1>1, <4>2, <4>3 DEF M
      <3>2. CASE p.delivery_mode \in ReliableModes
        <4>1. /\ p = Packet(p.delivery_mode, SeqOf(p.payload), p.payload)
              /\ p.payload \in 1 .. L /\ p.delivery_mode = sent[p.payload]
          BY <3>1, <3>2 DEF TransferInv, WindowsInv, DataInv
        <4>2. p.payload \in 1 .. (L + 1)
          BY <1>1, <4>1
        <4> QED BY Zenon, <1>3, <3>1, <3>2, <4>1, <4>2
      <3>3. CASE p.delivery_mode \notin ReliableModes
        BY <3>1, <3>3 DEF TransferInv, WindowsInv, DataInv
      <3> QED BY <3>2, <3>3
    <2>2. CASE p = Packet(mode, PushSeq(send_win, mode), L + 1)
      <3>1. p.delivery_mode = mode /\ p.payload = L + 1 /\ p = Packet(mode, SeqOf(L + 1), L + 1)
        BY <1>4, <2>2 DEF Packet, PushSeq
      <3>2. L + 1 \in 1 .. (L + 1) /\ L + 1 - (L + 1) < Lifetime
        BY <1>1, Sizes
      <3> QED BY Zenon, <1>3, <3>1, <3>2
    <2> QED BY Zenon, <1>2, <2>1, <2>2
  <1>9. AckInv'
    <2>1. \A n : Arrived(n)' <=> Arrived(n)
      BY <1>2 DEF Arrived
    <2> SUFFICES ASSUME NEW a \in ack_net'
                 PROVE  /\ a.upto \in 0 .. (expected - 1) /\ L + 1 - a.upto <= Lifetime
                        /\ a.ack_num = SeqOf(a.upto)
                        /\ a.sack_mask \subseteq Nat
                        /\ \A i \in a.sack_mask :
                            a.upto + 1 + i <= L + 1 /\ Arrived(a.upto + 1 + i)
      BY <1>2, <1>3, <2>1 DEF AckInv
    <2>2. a \in ack_net /\ L + 1 - a.upto <= Lifetime
      <3> DEFINE M == Len(sent) + 1
      <3>1. a \in FreshAcks(ack_net, M)
        BY <1>2
      <3> HIDE DEF M
      <3>2. a \in ack_net /\ M - a.upto <= Lifetime
        BY Zenon, <3>1, StillFresh
      <3>3. a.upto \in 0 .. (expected - 1)
        BY <3>2 DEF TransferInv, WindowsInv, AckInv
      <3> QED BY <1>1, <3>2, <3>3 DEF M
    <2>3. /\ a.upto \in 0 .. (expected - 1) /\ a.ack_num = SeqOf(a.upto)
          /\ a.sack_mask \subseteq Nat
          /\ \A i \in a.sack_mask : a.upto + 1 + i <= L /\ Arrived(a.upto + 1 + i)
      BY <2>2 DEF TransferInv, WindowsInv, AckInv
    <2>4. \A i \in a.sack_mask : a.upto + 1 + i <= L + 1
      BY <1>1, <2>3
    <2> QED BY Zenon, <2>2, <2>3, <2>4
  <1>10. NothingStuck' /\ draining' \in {"idle", "fresh", "duplicate"}
    BY Zenon, <1>2 DEF TransferInv, NothingStuck
  <1>11. UnrelInv'
    BY Zenon, <1>2, <1>5 DEF TransferInv, UnrelInv, UnreliableInOrder
  <1>12. WindowsInv'
    BY Zenon, <1>2, <1>5, <1>6, <1>7, <1>8, <1>9 DEF WindowsInv
  <1>13. DeliveryInv'
    BY Zenon, <1>2, <1>6 DEF DeliveryInv
  <1> QED BY <1>10, <1>11, <1>12, <1>13 DEF TransferInv

\* SendUnreliable: only the counter of unreliable messages moves.
LEMMA SendUnreliableHolds ==
    ASSUME TransferInv, NEW mode \in UnreliableModes, SendUnreliable(mode)
    PROVE  TransferInv'
PROOF
  <1> DEFINE L == Len(sent)
             U == sent_unrel + 1
  <1>1. /\ sent_unrel \in Nat /\ send_win.next_unrel_seq = SeqOf(sent_unrel + 1)
        /\ delivered_uo \in Seq(1 .. sent_unrel) /\ SendHolds(send_win, head, sent)
    BY DEF TransferInv, WindowsInv, UnrelInv
  <1>2. /\ sent' = sent /\ sent_unrel' = U
        /\ send_win' = send_window_push(send_win, mode, sent_unrel + 1, 0)
        /\ data_net' = FreshData(data_net, Len(sent), sent_unrel + 1) \cup
                       {Packet(mode, PushSeq(send_win, mode), sent_unrel + 1)}
        /\ ack_net' = ack_net /\ head' = head /\ recv_win' = recv_win
        /\ draining' = draining /\ expected' = expected
        /\ delivered' = delivered /\ delivered_uo' = delivered_uo
    BY DEF SendUnreliable, receiverVars
  <1>3. mode \notin ReliableModes /\ PushSeq(send_win, mode) = SeqOf(U)
    BY <1>1 DEF PushSeq, ReliableModes, UnreliableModes, RELIABLE_ORDERED,
         RELIABLE_UNORDERED, UNRELIABLE_ORDERED, UNRELIABLE_UNORDERED
  <1>4. send_win' = [send_win EXCEPT !.next_unrel_seq = SeqOf(U + 1)]
    <2>1. send_win' = [send_win EXCEPT !.next_unrel_seq = seq_add(send_win.next_unrel_seq, 1)]
      BY <1>2, <1>3 DEF send_window_push
    <2>2. U \in Int /\ 1 \in Int
      BY <1>1
    <2>3. seq_add(send_win.next_unrel_seq, 1) = SeqOf(U + 1)
      BY <1>1, <2>2, SeqOfAdd
    <2> QED BY <2>1, <2>3
  <1>5. /\ send_win' \in SendWindow /\ send_win'.slots = send_win.slots
        /\ send_win'.head_seq = send_win.head_seq /\ send_win'.next_seq = send_win.next_seq
        /\ send_win'.in_flight = send_win.in_flight
        /\ send_win'.next_unrel_seq = SeqOf(U + 1)
    <2>1. SeqOf(U + 1) \in SeqSpace
      BY <1>1, SeqOfType
    <2>2. send_win \in SendWindow
      BY Zenon, <1>1 DEF SendHolds
    <2> QED BY <1>4, <2>1, <2>2 DEF SendWindow
  <1>6. SendHolds(send_win', head, sent)
    <2>1. Pending(send_win', head, sent) = Pending(send_win, head, sent)
      BY <1>5 DEF Pending
    <2> QED BY <1>1, <1>5, <2>1 DEF SendHolds
  <1>7. \A n : Arrived(n)' <=> Arrived(n)
    BY Zenon, <1>2 DEF Arrived
  <1>8. MarksInv' /\ AckInv'
    BY Zenon, <1>2, <1>5, <1>7 DEF TransferInv, WindowsInv, MarksInv, AckInv, AtSender
  <1>9. DataInv'
    <2> SUFFICES ASSUME NEW p \in data_net'
                 PROVE  /\ p = Packet(p.delivery_mode, SeqOf(p.payload), p.payload)
                        /\ IF p.delivery_mode \in ReliableModes
                           THEN /\ p.payload \in 1 .. L
                                /\ L - p.payload < Lifetime
                                /\ p.delivery_mode = sent[p.payload]
                           ELSE /\ p.delivery_mode \in UnreliableModes
                                /\ p.payload \in 1 .. U
                                /\ U - p.payload < Lifetime
      BY <1>2 DEF DataInv
    <2>1. CASE p \in FreshData(data_net, L, U)
      <3>1. p \in data_net
            /\ (p.delivery_mode \notin ReliableModes => U - p.payload < Lifetime)
        BY Zenon, <2>1, StillFresh
      <3>2. CASE p.delivery_mode \in ReliableModes
        BY <3>1, <3>2 DEF TransferInv, WindowsInv, DataInv
      <3>3. CASE p.delivery_mode \notin ReliableModes
        <4>1. /\ p = Packet(p.delivery_mode, SeqOf(p.payload), p.payload)
              /\ p.payload \in 1 .. sent_unrel /\ p.delivery_mode \in UnreliableModes
          BY <3>1, <3>3 DEF TransferInv, WindowsInv, DataInv
        <4>2. p.payload \in 1 .. U
          BY <1>1, <4>1
        <4> QED BY Zenon, <3>1, <3>3, <4>1, <4>2
      <3> QED BY <3>2, <3>3
    <2>2. CASE p = Packet(mode, PushSeq(send_win, mode), U)
      <3>1. p.delivery_mode = mode /\ p.payload = U /\ p = Packet(mode, SeqOf(U), U)
        BY <1>3, <2>2 DEF Packet
      <3>2. U \in 1 .. U /\ U - U < Lifetime
        BY <1>1, Sizes
      <3> QED BY <1>3, <3>1, <3>2
    <2> QED BY Zenon, <1>2, <2>1, <2>2
  <1>10. NothingStuck' /\ draining' \in {"idle", "fresh", "duplicate"}
    BY Zenon, <1>2 DEF TransferInv, NothingStuck
  <1>11. UnrelInv'
    <2>1. 1 .. sent_unrel \subseteq 1 .. U /\ U \in Nat
      BY <1>1
    <2>2. delivered_uo \in Seq(1 .. U)
      BY <1>1, <2>1, SeqMonotonic
    <2> QED BY Zenon, <1>2, <1>5, <2>1, <2>2 DEF TransferInv, UnrelInv, UnreliableInOrder
  <1>12. WindowsInv'
    BY Zenon, <1>2, <1>6, <1>8, <1>9 DEF TransferInv, WindowsInv
  <1>13. DeliveryInv'
    BY <1>2 DEF TransferInv, DeliveryInv
  <1> QED BY <1>10, <1>11, <1>12, <1>13 DEF TransferInv

\* Retransmit: only pending messages are sent again, and they are young enough.
LEMMA RetransmitHolds ==
    ASSUME TransferInv, NEW expired \in SUBSET Unacked(send_win), Retransmit(expired)
    PROVE  TransferInv'
PROOF
  <1> DEFINE L == Len(sent)
             seqs == send_window_get_expired(expired, MaxExpired)
             again == {Packet(SlotOf(send_win, s).delivery_mode, s,
                              SlotOf(send_win, s).payload) : s \in seqs}
  <1>1. /\ L \in Nat /\ sent \in Seq(ReliableModes) /\ head \in Int
        /\ head \in 1 .. (L + 1) /\ L + 1 - head <= SendCapacity
        /\ SendHolds(send_win, head, sent)
    BY Bounds DEF TransferInv, WindowsInv
  <1>2. /\ send_win' = MarkRetransmitted(send_win, seqs, 0)
        /\ data_net' = data_net \cup again
        /\ sent' = sent /\ sent_unrel' = sent_unrel /\ head' = head
        /\ ack_net' = ack_net /\ recv_win' = recv_win
        /\ draining' = draining /\ expected' = expected
        /\ delivered' = delivered /\ delivered_uo' = delivered_uo
    BY DEF Retransmit, receiverVars
  <1>3. \A s \in seqs : \E n \in head .. L : s = SeqOf(n)
    <2>1. seqs \subseteq Unacked(send_win)
      BY DEF send_window_get_expired
    <2>2. Unacked(send_win) = {SeqOf(n) : n \in Pending(send_win, head, sent)}
      BY Zenon, <1>1, UnackedAre
    <2> QED BY <2>1, <2>2 DEF Pending
  <1>4. \A p \in again : \E n \in head .. L : p = Packet(sent[n], SeqOf(n), n)
    <2> SUFFICES ASSUME NEW s \in seqs
                 PROVE  \E n \in head .. L :
                            Packet(SlotOf(send_win, s).delivery_mode, s,
                                   SlotOf(send_win, s).payload)
                                = Packet(sent[n], SeqOf(n), n)
      OBVIOUS
    <2>1. PICK n \in head .. L : s = SeqOf(n)
      BY <1>3
    <2>2. n \in Int
      BY <1>1
    <2>3. SlotOf(send_win, SeqOf(n)) = send_win.slots[AtSender(n)]
      BY Zenon, <1>1, <2>2, SlotsInUse
    <2>4. /\ send_win.slots[AtSender(n)].payload = n
          /\ send_win.slots[AtSender(n)].delivery_mode = sent[n]
      BY Zenon, <1>1 DEF SendHolds
    <2> QED BY <2>1, <2>3, <2>4
  <1> HIDE DEF seqs, again
  <1>5. /\ SendHolds(send_win', head, sent)
        /\ \A n \in head .. L :
               send_win'.slots[AtSender(n)].acked = send_win.slots[AtSender(n)].acked
        /\ send_win'.next_unrel_seq = send_win.next_unrel_seq
    BY <1>1, <1>2, MarkHolds
  <1>6. \A n : Arrived(n)' <=> Arrived(n)
    BY Zenon, <1>2 DEF Arrived
  <1>7. MarksInv' /\ AckInv'
    BY Zenon, <1>2, <1>5, <1>6 DEF TransferInv, WindowsInv, MarksInv, AckInv, AtSender
  <1>8. DataInv'
    <2> SUFFICES ASSUME NEW p \in data_net'
                 PROVE  /\ p = Packet(p.delivery_mode, SeqOf(p.payload), p.payload)
                        /\ IF p.delivery_mode \in ReliableModes
                           THEN /\ p.payload \in 1 .. L
                                /\ L - p.payload < Lifetime
                                /\ p.delivery_mode = sent[p.payload]
                           ELSE /\ p.delivery_mode \in UnreliableModes
                                /\ p.payload \in 1 .. sent_unrel
                                /\ sent_unrel - p.payload < Lifetime
      BY Zenon, <1>2 DEF DataInv
    <2>1. CASE p \in data_net
      BY <2>1 DEF TransferInv, WindowsInv, DataInv
    <2>2. CASE p \in again
      <3>1. PICK n \in head .. L : p = Packet(sent[n], SeqOf(n), n)
        BY <1>4, <2>2
      <3>2. n \in 1 .. L /\ L - n < Lifetime
        BY <1>1, Sizes
      <3>3. sent[n] \in ReliableModes
        BY <1>1, <3>2
      <3>4. p.delivery_mode = sent[n] /\ p.payload = n
        BY <3>1 DEF Packet
      <3> QED BY Zenon, <3>1, <3>2, <3>3, <3>4
    <2> QED BY Zenon, <1>2, <2>1, <2>2
  <1>9. NothingStuck' /\ draining' \in {"idle", "fresh", "duplicate"}
    BY Zenon, <1>2 DEF TransferInv, NothingStuck
  <1>10. UnrelInv'
    BY <1>2, <1>5 DEF TransferInv, UnrelInv, UnreliableInOrder
  <1>11. WindowsInv' /\ DeliveryInv'
    BY Zenon, <1>2, <1>5, <1>7, <1>8 DEF TransferInv, WindowsInv, DeliveryInv
  <1> QED BY <1>9, <1>10, <1>11 DEF TransferInv

\* ReceiveAck: however stale, an acknowledgement releases and marks only
\* messages the receiver has.
LEMMA ReceiveAckHolds ==
    ASSUME TransferInv, NEW a \in ack_net, ReceiveAck(a)
    PROVE  TransferInv'
PROOF
  <1> DEFINE L == Len(sent)
             u == a.upto
             k == IF u >= head THEN u + 1 ELSE head
  <1>1. /\ L \in Nat /\ head \in Int /\ expected \in Int
        /\ head \in 1 .. (L + 1) /\ expected \in 1 .. (L + 1) /\ head <= expected
        /\ L + 1 - head <= SendCapacity /\ SendHolds(send_win, head, sent)
    BY Zenon, Bounds DEF TransferInv, WindowsInv
  <1>2. /\ u \in 0 .. (expected - 1) /\ L - u <= Lifetime /\ a.ack_num = SeqOf(u)
        /\ a.sack_mask \subseteq Nat
        /\ \A i \in a.sack_mask : u + 1 + i <= L /\ Arrived(u + 1 + i)
    BY Zenon DEF TransferInv, WindowsInv, AckInv
  <1>3. /\ send_win' = send_window_on_ack(send_win, SeqOf(u), a.sack_mask)
        /\ head' = head + seq_diff(send_win'.head_seq, send_win.head_seq)
        /\ sent' = sent /\ sent_unrel' = sent_unrel /\ data_net' = data_net
        /\ ack_net' = ack_net /\ recv_win' = recv_win
        /\ draining' = draining /\ expected' = expected
        /\ delivered' = delivered /\ delivered_uo' = delivered_uo
    BY <1>2 DEF ReceiveAck, netVars, receiverVars
  <1>4. u \in Int /\ u <= L /\ k \in Int /\ head <= k /\ k <= expected /\ k <= L + 1
    BY <1>1, <1>2
  <1>5. Names(a.sack_mask, u, sent)
    BY Zenon, <1>2 DEF Names
  <1> HIDE DEF u
  <1>6. /\ SendHolds(send_win', k, sent)
        /\ \A n \in k .. L : send_win'.slots[AtSender(n)].acked =>
               send_win.slots[AtSender(n)].acked \/ (n - u - 1) \in a.sack_mask
        /\ send_win'.next_unrel_seq = send_win.next_unrel_seq
    <2>1. SendHolds(send_win, head, sent) /\ L - u <= Lifetime
      BY <1>1, <1>2 DEF u
    <2> QED BY <1>3, <1>4, <1>5, <2>1, AckHolds
  <1>7. head' = k
    <2>1. send_win'.head_seq = SeqOf(k) /\ send_win.head_seq = SeqOf(head)
      BY <1>1, <1>6 DEF SendHolds
    <2>2. -Half <= k - head /\ k - head < Half
      BY <1>1, <1>4, Sizes
    <2>3. seq_diff(SeqOf(k), SeqOf(head)) = k - head
      BY Zenon, <1>1, <1>4, <2>2, SeqOfDiff
    <2>4. head' = head + (k - head)
      BY <1>3, <2>1, <2>3
    <2> QED BY <1>1, <1>4, <2>4
  <1>8. \A n : Arrived(n)' <=> Arrived(n)
    BY <1>3 DEF Arrived
  <1> HIDE DEF k
  <1>9. MarksInv'
    <2> SUFFICES ASSUME NEW n \in k .. L, send_win'.slots[AtSender(n)].acked
                 PROVE  Arrived(n)
      BY Zenon, <1>3, <1>4, <1>7, <1>8 DEF MarksInv, AtSender
    <2>1. CASE send_win.slots[AtSender(n)].acked
      <3>1. n \in head .. L
        BY <1>1, <1>4
      <3> QED BY <2>1, <3>1 DEF TransferInv, WindowsInv, MarksInv
    <2>2. CASE (n - u - 1) \in a.sack_mask
      <3>1. Arrived(u + 1 + (n - u - 1))
        BY <1>2, <2>2 DEF u
      <3>2. u + 1 + (n - u - 1) = n
        BY <1>4
      <3> QED BY <3>1, <3>2
    <2> QED BY Zenon, <1>6, <2>1, <2>2
  <1>10. DataInv' /\ AckInv'
    BY <1>3, <1>8 DEF TransferInv, WindowsInv, DataInv, AckInv
  <1>11. NothingStuck' /\ draining' \in {"idle", "fresh", "duplicate"}
    BY Zenon, <1>3 DEF TransferInv, NothingStuck
  <1>12. UnrelInv'
    BY Zenon, <1>3, <1>6 DEF TransferInv, UnrelInv, UnreliableInOrder
  <1>13. WindowsInv' /\ DeliveryInv'
    BY Zenon, <1>3, <1>6, <1>7, <1>9, <1>10 DEF TransferInv, WindowsInv, DeliveryInv
  <1> QED BY <1>11, <1>12, <1>13 DEF TransferInv

\* What the receiver says it has, it has.
LEMMA EmitAckInfoHolds ==
    ASSUME TransferInv, EmitAckInfo
    PROVE  TransferInv'
PROOF
  <1> DEFINE L == Len(sent)
             info == recv_window_get_ack_info(recv_win)
             new == [ack_num |-> info.ack_num, sack_mask |-> info.sack_mask,
                     upto |-> expected - 1]
  <1>1. /\ L \in Nat /\ expected \in Int /\ expected \in 1 .. (L + 1)
        /\ L + 1 - expected <= Lifetime /\ RecvHolds(recv_win, expected, sent)
    BY Bounds DEF TransferInv, WindowsInv
  <1>2. /\ ack_net' = ack_net \cup {new} /\ recv_win' = recv_win
        /\ draining' = draining /\ expected' = expected /\ delivered' = delivered
        /\ delivered_uo' = delivered_uo /\ data_net' = data_net
        /\ send_win' = send_win /\ sent' = sent /\ sent_unrel' = sent_unrel
        /\ head' = head
    BY DEF EmitAckInfo, senderVars
  <1>3. recv_win.expected_seq = SeqOf(expected)
        /\ \A i \in Int : Nth(recv_win, i) = SeqOf(expected + i)
    BY <1>1, RecvFacts
  <1>4. info.ack_num = SeqOf(expected - 1)
    <2>1. -1 \in Int /\ expected + (-1) = expected - 1
      BY <1>1
    <2>2. seq_add(SeqOf(expected), -1) = SeqOf(expected + (-1))
      BY <1>1, <2>1, SeqOfAdd
    <2> QED BY <1>3, <2>1, <2>2 DEF recv_window_get_ack_info
  <1>5. info.sack_mask = {i \in 0 .. (SackBits - 1) : Received(recv_win, Nth(recv_win, i))}
    BY DEF recv_window_get_ack_info
  <1>6. \A i \in info.sack_mask :
            /\ i \in Nat /\ expected + i <= L /\ Arrived(expected + i)
    <2> SUFFICES ASSUME NEW i \in info.sack_mask
                 PROVE  i \in Nat /\ expected + i <= L /\ Arrived(expected + i)
      OBVIOUS
    <2>1. i \in 0 .. (SackBits - 1) /\ Received(recv_win, Nth(recv_win, i))
      BY <1>5
    <2>2. /\ i \in Nat /\ i \in Int /\ expected + i \in Int
          /\ expected <= expected + i /\ expected + i < expected + Half
      BY <1>1, <2>1, Sizes
    <2>3. Received(recv_win, SeqOf(expected + i))
      BY Zenon, <1>3, <2>1, <2>2
    <2>4. expected + i \in expected .. (expected + RecvCapacity - 1) /\ expected + i <= L
      BY Zenon, <1>1, <2>2, <2>3, RecvGet
    <2>5. expected + i < expected + RecvCapacity
      BY <1>1, <2>2, <2>4, Sizes
    <2> QED BY Zenon, <2>2, <2>3, <2>4, <2>5 DEF Arrived
  <1>7. \A n : Arrived(n)' <=> Arrived(n)
    BY Zenon, <1>2 DEF Arrived
  <1> HIDE DEF info
  <1>8. AckInv'
    <2> SUFFICES ASSUME NEW a \in ack_net'
                 PROVE  /\ a.upto \in 0 .. (expected - 1) /\ L - a.upto <= Lifetime
                        /\ a.ack_num = SeqOf(a.upto)
                        /\ a.sack_mask \subseteq Nat
                        /\ \A i \in a.sack_mask :
                            a.upto + 1 + i <= L /\ Arrived(a.upto + 1 + i)
      BY Zenon, <1>2, <1>7 DEF AckInv
    <2>1. CASE a \in ack_net
      BY <2>1 DEF TransferInv, WindowsInv, AckInv
    <2>2. CASE a = new
      <3>1. /\ a.upto = expected - 1 /\ a.ack_num = SeqOf(expected - 1)
            /\ a.sack_mask = info.sack_mask
        BY <1>4, <2>2
      <3>2. expected - 1 \in 0 .. (expected - 1) /\ L - (expected - 1) <= Lifetime
        BY <1>1, Sizes
      <3>3. \A i \in info.sack_mask : expected - 1 + 1 + i = expected + i
        BY <1>1, <1>6
      <3> QED BY Zenon, <1>6, <3>1, <3>2, <3>3
    <2> QED BY Zenon, <1>2, <2>1, <2>2
  <1>9. MarksInv' /\ DataInv'
    BY <1>2, <1>7 DEF TransferInv, WindowsInv, MarksInv, DataInv
  <1>10. NothingStuck' /\ draining' \in {"idle", "fresh", "duplicate"}
    BY <1>2 DEF TransferInv, NothingStuck
  <1>11. UnrelInv'
    BY <1>2 DEF TransferInv, UnrelInv, UnreliableInOrder
  <1>12. WindowsInv' /\ DeliveryInv'
    BY Zenon, <1>2, <1>8, <1>9 DEF TransferInv, WindowsInv, DeliveryInv
  <1> QED BY <1>10, <1>11, <1>12 DEF TransferInv

\* Losing datagrams, and steps that change nothing.
LEMMA LossHolds ==
    ASSUME TransferInv, UNCHANGED <<senderVars, receiverVars>>,
           data_net' \subseteq data_net, ack_net' \subseteq ack_net
    PROVE  TransferInv'
PROOF
  <1>1. /\ recv_win' = recv_win /\ draining' = draining /\ expected' = expected
        /\ delivered' = delivered /\ delivered_uo' = delivered_uo
        /\ send_win' = send_win /\ sent' = sent /\ sent_unrel' = sent_unrel
        /\ head' = head
    BY DEF senderVars, receiverVars
  <1>2. \A n : Arrived(n)' <=> Arrived(n)
    BY Zenon, <1>1 DEF Arrived
  <1>3. MarksInv' /\ DataInv' /\ AckInv'
    BY Zenon, <1>1, <1>2 DEF TransferInv, WindowsInv, MarksInv, DataInv, AckInv
  <1>4. NothingStuck' /\ UnrelInv' /\ DeliveryInv'
        /\ draining' \in {"idle", "fresh", "duplicate"}
    BY Zenon, <1>1 DEF TransferInv, NothingStuck, UnrelInv, UnreliableInOrder, DeliveryInv
  <1> QED BY <1>1, <1>3, <1>4 DEF TransferInv, WindowsInv

\* A step that sends nothing, and delivers zero or more messages.
Delivers ==
    sent' = sent /\ \E out \in Seq(1 .. Len(sent)) : delivered' = delivered \o out

\* HandOver, when it hands over what a reliable arrival or a pop made ready:
\* the receiver only moves on.
LEMMA HandOverHolds ==
    ASSUME TransferInv, NEW r, NEW k \in Int,
           Outcome(r, recv_win, expected, k, delivered, sent),
           HandOver(r), UNCHANGED <<senderVars, netVars>>
    PROVE  WindowsInv' /\ UnrelInv' /\ DeliveryInv' /\ expected' = k /\ Delivers
PROOF
  <1> DEFINE L == Len(sent)
  <1>1. /\ L \in Nat /\ head \in Int /\ expected \in Int /\ head \in 1 .. (L + 1)
        /\ expected \in 1 .. (L + 1) /\ head <= expected
    BY Zenon, Bounds
  <1>2. /\ RecvHolds(r.win, k, sent) /\ k >= expected
        /\ seq_diff(r.win.expected_seq, recv_win.expected_seq) = k - expected
        /\ \A m \in 1 .. L : Has(recv_win, expected, m) => Has(r.win, k, m)
        /\ Delivery(delivered \o Payloads(r.ready, ReliableModes), r.win, k, sent)
        /\ Payloads(r.ready, ReliableModes) \in Seq(1 .. L)
        /\ Payloads(r.ready, {UNRELIABLE_ORDERED}) = <<>>
        /\ r.win.highest_unrel_seq = recv_win.highest_unrel_seq
        /\ r.win.has_highest_unrel = recv_win.has_highest_unrel
    BY DEF Outcome
  <1>3. /\ recv_win' = r.win /\ delivered' = delivered \o Payloads(r.ready, ReliableModes)
        /\ expected' = expected + (k - expected) /\ delivered_uo' = delivered_uo \o <<>>
        /\ send_win' = send_win /\ sent' = sent /\ sent_unrel' = sent_unrel
        /\ head' = head /\ data_net' = data_net /\ ack_net' = ack_net
    BY Zenon, <1>2 DEF HandOver, senderVars, netVars
  <1>4. expected' = k
    BY <1>1, <1>3
  <1>5. delivered_uo' = delivered_uo
    <2>1. delivered_uo \in Seq(1 .. sent_unrel)
      BY DEF TransferInv, UnrelInv
    <2> QED BY <1>3, <2>1, ConcatEmptySeq
  <1>6. \A m \in 1 .. L : Arrived(m) => Arrived(m)'
    BY <1>2, <1>3, <1>4 DEF Arrived, Has
  <1>7. MarksInv'
    <2> SUFFICES ASSUME NEW n \in head .. L, send_win.slots[AtSender(n)].acked
                 PROVE  Arrived(n)'
      BY <1>1, <1>2, <1>3, <1>4 DEF MarksInv, AtSender
    <2>1. Arrived(n) /\ n \in 1 .. L
      BY <1>1 DEF TransferInv, WindowsInv, MarksInv
    <2> QED BY Zenon, <1>6, <2>1
  <1>8. AckInv'
    <2> SUFFICES ASSUME NEW a \in ack_net
                 PROVE  /\ a.upto \in 0 .. (k - 1) /\ L - a.upto <= Lifetime
                        /\ a.ack_num = SeqOf(a.upto)
                        /\ a.sack_mask \subseteq Nat
                        /\ \A i \in a.sack_mask :
                            a.upto + 1 + i <= L /\ Arrived(a.upto + 1 + i)'
      BY Zenon, <1>3, <1>4 DEF AckInv
    <2>1. /\ a.upto \in 0 .. (expected - 1) /\ L - a.upto <= Lifetime
          /\ a.ack_num = SeqOf(a.upto) /\ a.sack_mask \subseteq Nat
          /\ \A i \in a.sack_mask : a.upto + 1 + i <= L /\ Arrived(a.upto + 1 + i)
      BY Zenon DEF TransferInv, WindowsInv, AckInv
    <2>2. a.upto \in 0 .. (k - 1)
      BY <1>1, <1>2, <2>1
    <2>3. \A i \in a.sack_mask : a.upto + 1 + i \in 1 .. L
      BY <1>1, <2>1
    <2> QED BY Zenon, <1>6, <2>1, <2>2, <2>3
  <1>9. DataInv'
    BY Zenon, <1>3 DEF TransferInv, WindowsInv, DataInv
  <1>10. WindowsInv'
    BY Zenon, <1>2, <1>3, <1>4, <1>7, <1>8, <1>9 DEF TransferInv, WindowsInv
  <1>11. UnrelInv'
    BY Zenon, <1>2, <1>3, <1>5 DEF TransferInv, UnrelInv, UnreliableInOrder
  <1>12. DeliveryInv'
    BY Zenon, <1>2, <1>3, <1>4 DEF DeliveryInv
  <1>13. Delivers
    BY Zenon, <1>2, <1>3 DEF Delivers
  <1> QED BY Zenon, <1>4, <1>10, <1>11, <1>12, <1>13

\* DrainMore: one more turn of the drain loop.  It ends only when nothing that
\* could be delivered is left.
LEMMA DrainMoreHolds ==
    ASSUME TransferInv, DrainMore
    PROVE  TransferInv' /\ Delivers
PROOF
  <1> DEFINE r == recv_window_pop_ready(recv_win, MaxReady)
  <1>1. RecvHolds(recv_win, expected, sent) /\ Delivery(delivered, recv_win, expected, sent)
    BY DEF TransferInv, WindowsInv, DeliveryInv
  <1>2. /\ draining # "idle" /\ HandOver(r) /\ UNCHANGED <<senderVars, netVars>>
        /\ draining' = CASE draining = "fresh" /\ Len(r.ready) < MaxReady -> "idle"
                         [] draining = "duplicate" /\ r.ready = <<>> -> "idle"
                         [] OTHER -> draining
    BY Zenon DEF DrainMore
  <1>3. PICK k \in Int :
            /\ Outcome(r, recv_win, expected, k, delivered, sent)
            /\ Len(r.ready) < MaxReady => ~Received(r.win, SeqOf(k))
    BY <1>1, PopOutcome
  <1> HIDE DEF r
  <1>4. WindowsInv' /\ UnrelInv' /\ DeliveryInv' /\ expected' = k /\ Delivers
    BY <1>2, <1>3, HandOverHolds
  <1>5. draining' \in {"idle", "fresh", "duplicate"}
        /\ (draining' = "idle" => Len(r.ready) < MaxReady)
    <2>1. draining \in {"fresh", "duplicate"}
      BY <1>2 DEF TransferInv
    <2>2. r.ready = <<>> => Len(r.ready) < MaxReady
      BY TransferAssumption
    <2> QED BY <1>2, <2>1, <2>2
  <1>6. NothingStuck'
    <2>1. recv_win' = r.win /\ r.win.expected_seq = SeqOf(k)
      BY <1>2, <1>3 DEF HandOver, Outcome, RecvHolds
    <2> QED BY <1>3, <1>5, <2>1 DEF NothingStuck
  <1> QED BY <1>4, <1>5, <1>6 DEF TransferInv

\* ReceiveData of a reliable message, in any order and any number of times.
LEMMA ReceiveReliableHolds ==
    ASSUME TransferInv, NEW p \in data_net, ReceiveData(p),
           p.delivery_mode \in ReliableModes
    PROVE  TransferInv' /\ Delivers
PROOF
  <1> DEFINE L == Len(sent)
             q == p.payload
             r == recv_window_on_packet(recv_win, p.delivery_mode, p.seq_num,
                                        p.payload, MaxReady)
  <1>1. RecvHolds(recv_win, expected, sent) /\ Delivery(delivered, recv_win, expected, sent)
    BY DEF TransferInv, WindowsInv, DeliveryInv
  <1>2. /\ draining = "idle" /\ HandOver(r) /\ UNCHANGED <<senderVars, netVars>>
        /\ draining' = CASE r.ret = 0 /\ Len(r.ready) = MaxReady -> "fresh"
                         [] r.ret = 1 -> "duplicate"
                         [] OTHER -> "idle"
    BY DEF ReceiveData
  <1>3. /\ p = Packet(p.delivery_mode, SeqOf(q), q) /\ q \in 1 .. L /\ L - q < Lifetime
        /\ p.delivery_mode = sent[q]
    BY DEF TransferInv, WindowsInv, DataInv
  <1>4. r = on_reliable_packet(recv_win, ArrivedSlot(q, sent[q]), MaxReady)
    <2>1. p.seq_num = SeqOf(q)
      BY <1>3 DEF Packet
    <2>2. sent[q] # UNRELIABLE_UNORDERED /\ sent[q] # UNRELIABLE_ORDERED
      BY <1>3 DEF ReliableModes, RELIABLE_ORDERED, RELIABLE_UNORDERED,
           UNRELIABLE_ORDERED, UNRELIABLE_UNORDERED
    <2> QED BY Zenon, <1>3, <2>1, <2>2 DEF recv_window_on_packet, ArrivedSlot
  <1>5. -Half <= q - expected /\ q - expected < Half
    <2>1. /\ L \in Nat /\ expected \in Int /\ head \in 1 .. (L + 1)
          /\ expected \in 1 .. (L + 1) /\ head <= expected
          /\ L + 1 - head <= SendCapacity
      BY Bounds
    <2> QED BY <1>3, <2>1, Sizes
  <1> HIDE DEF q, r
  <1>6. PICK k \in Int :
            /\ Outcome(r, recv_win, expected, k, delivered, sent)
            /\ r.ret \in {-2, 0, 1}
            /\ r.ret = 0 /\ Len(r.ready) < MaxReady => ~Received(r.win, SeqOf(k))
            /\ r.ret = -2 => r.win = recv_win /\ k = expected
    <2>1. q \in 1 .. Len(sent)
      BY <1>3
    <2> QED BY <1>1, <1>4, <1>5, <2>1, ReliableOutcome
  <1>7. WindowsInv' /\ UnrelInv' /\ DeliveryInv' /\ expected' = k /\ Delivers
    BY <1>2, <1>6, HandOverHolds
  <1>8. /\ draining' \in {"idle", "fresh", "duplicate"}
        /\ draining' = "idle" => r.ret = -2 \/ (r.ret = 0 /\ Len(r.ready) < MaxReady)
    <2>1. Len(r.ready) \in 0 .. MaxReady /\ MaxReady \in Nat
      BY <1>6, TransferAssumption DEF Outcome
    <2> QED BY <1>2, <1>6, <2>1
  <1>9. NothingStuck'
    <2>1. recv_win' = r.win /\ r.win.expected_seq = SeqOf(k)
      BY <1>2, <1>6 DEF HandOver, Outcome, RecvHolds
    <2>2. ~Received(recv_win, recv_win.expected_seq)
      BY <1>2 DEF TransferInv, NothingStuck
    <2> QED BY <1>6, <1>8, <2>1, <2>2 DEF NothingStuck
  <1> QED BY <1>7, <1>8, <1>9 DEF TransferInv

\* The payloads of one unreliable slot.
LEMMA OneUnreliable ==
    ASSUME NEW slot, slot.delivery_mode \in UnreliableModes
    PROVE  /\ Payloads(<<slot>>, ReliableModes) = <<>>
           /\ slot.delivery_mode = UNRELIABLE_UNORDERED =>
                  Payloads(<<slot>>, {UNRELIABLE_ORDERED}) = <<>>
           /\ slot.delivery_mode = UNRELIABLE_ORDERED =>
                  Payloads(<<slot>>, {UNRELIABLE_ORDERED}) = <<slot.payload>>
PROOF
  <1>1. DOMAIN <<slot>> = {1} /\ <<slot>>[1] = slot
    OBVIOUS
  <1>2. slot.delivery_mode \notin ReliableModes
        /\ UNRELIABLE_UNORDERED # UNRELIABLE_ORDERED
    BY DEF ReliableModes, UnreliableModes, RELIABLE_ORDERED,
       RELIABLE_UNORDERED, UNRELIABLE_ORDERED, UNRELIABLE_UNORDERED
  <1>3. [i \in {1} |-> slot.payload] = <<slot.payload>>
    OBVIOUS
  <1>4. ASSUME NEW modes, slot.delivery_mode \notin modes
        PROVE  Payloads(<<slot>>, modes) = <<>>
    BY <1>1, <1>4 DEF Payloads
  <1>5. ASSUME slot.delivery_mode = UNRELIABLE_ORDERED
        PROVE  Payloads(<<slot>>, {UNRELIABLE_ORDERED}) = <<slot.payload>>
    <2>1. \A i \in DOMAIN <<slot>> : <<slot>>[i].delivery_mode \in {UNRELIABLE_ORDERED}
      BY <1>1, <1>5
    <2>2. Payloads(<<slot>>, {UNRELIABLE_ORDERED})
              = [i \in DOMAIN <<slot>> |-> <<slot>>[i].payload]
      BY <2>1 DEF Payloads
    <2>3. [i \in DOMAIN <<slot>> |-> <<slot>>[i].payload] = [i \in {1} |-> slot.payload]
      BY <1>1
    <2> QED BY <1>3, <2>2, <2>3
  <1> QED BY <1>2, <1>4, <1>5

\* ReceiveData of an unreliable message leaves the reliable ones alone.
LEMMA ReceiveBesideHolds ==
    ASSUME TransferInv, NEW r, HandOver(r), UNCHANGED <<senderVars, netVars>>,
           r.win \in RecvWindow, r.win.slots = recv_win.slots,
           r.win.expected_seq = recv_win.expected_seq,
           Payloads(r.ready, ReliableModes) = <<>>
    PROVE  /\ WindowsInv' /\ DeliveryInv' /\ expected' = expected /\ Delivers
           /\ Received(recv_win', recv_win'.expected_seq)
                  <=> Received(recv_win, recv_win.expected_seq)
PROOF
  <1>1. /\ RecvHolds(recv_win, expected, sent) /\ recv_win \in RecvWindow
        /\ Delivery(delivered, recv_win, expected, sent)
        /\ expected \in Int /\ recv_win.expected_seq = SeqOf(expected)
    BY Zenon, Bounds DEF TransferInv, WindowsInv, DeliveryInv, RecvHolds
  <1>2. r.win.capacity = recv_win.capacity
    BY <1>1 DEF RecvWindow
  <1>3. /\ recv_win' = r.win /\ delivered' = delivered \o <<>>
        /\ expected' = expected + seq_diff(SeqOf(expected), SeqOf(expected))
        /\ send_win' = send_win /\ sent' = sent /\ sent_unrel' = sent_unrel
        /\ head' = head /\ data_net' = data_net /\ ack_net' = ack_net
    BY <1>1 DEF HandOver, senderVars, netVars
  <1>4. expected' = expected
    <2>1. -Half <= expected - expected /\ expected - expected < Half
      BY <1>1, Sizes
    <2>2. seq_diff(SeqOf(expected), SeqOf(expected)) = expected - expected
      BY Zenon, <1>1, <2>1, SeqOfDiff
    <2> QED BY <1>1, <1>3, <2>2
  <1>5. delivered' = delivered
    <2>1. delivered \in Seq(1 .. Len(sent))
      BY <1>1 DEF Delivery
    <2> QED BY Zenon, <1>3, <2>1, ConcatEmptySeq
  <1>6. \A s : Received(r.win, s) <=> Received(recv_win, s)
    BY Zenon, <1>2 DEF Received, SlotOf, SlotIdx
  <1>7. RecvHolds(r.win, expected, sent)
    BY <1>1 DEF RecvHolds
  <1>8. \A n : Has(r.win, expected, n) <=> Has(recv_win, expected, n)
    BY <1>6 DEF Has
  <1>9. Delivery(delivered, r.win, expected, sent)
    BY <1>1, <1>8 DEF Delivery
  <1>10. \A n : Arrived(n)' <=> Arrived(n)
    BY Zenon, <1>3, <1>4, <1>6 DEF Arrived
  <1>11. MarksInv' /\ DataInv' /\ AckInv'
    BY Zenon, <1>3, <1>4, <1>10 DEF TransferInv, WindowsInv, MarksInv, DataInv, AckInv
  <1>12. WindowsInv' /\ DeliveryInv'
    BY Zenon, <1>3, <1>4, <1>5, <1>7, <1>9, <1>11 DEF TransferInv, WindowsInv, DeliveryInv
  <1>13. Delivers
    <2>1. <<>> \in Seq(1 .. Len(sent))
      OBVIOUS
    <2> QED BY Zenon, <1>3, <2>1 DEF Delivers
  <1> QED BY Zenon, <1>3, <1>4, <1>6, <1>12, <1>13

\* An unreliable ordered message that is taken is newer than the last one.
LEMMA NewerUnreliable ==
    ASSUME NEW u \in Nat, NEW q \in 1 .. u, u - q < Lifetime, NEW last \in 1 .. u,
           seq_gt(SeqOf(q), SeqOf(last))
    PROVE  last < q
PROOF
  <1> SUFFICES ASSUME q <= last PROVE FALSE
    OBVIOUS
  <1>1. q \in Int /\ last \in Int /\ -Half <= q - last /\ q - last < Half /\ q - last <= 0
    BY Sizes
  <1>2. seq_diff(SeqOf(q), SeqOf(last)) = q - last
    BY <1>1, SeqOfDiff
  <1> QED BY <1>1, <1>2 DEF seq_gt

\* ReceiveData of an unreliable message.
LEMMA ReceiveUnreliableHolds ==
    ASSUME TransferInv, NEW p \in data_net, ReceiveData(p),
           p.delivery_mode \notin ReliableModes
    PROVE  TransferInv' /\ Delivers
PROOF
  <1> DEFINE q == p.payload
             slot == [seq_num |-> p.seq_num, delivery_mode |-> p.delivery_mode,
                      received |-> TRUE, payload |-> q]
             r == recv_window_on_packet(recv_win, p.delivery_mode, p.seq_num,
                                        p.payload, MaxReady)
             newer == [recv_win EXCEPT !.highest_unrel_seq = p.seq_num,
                                       !.has_highest_unrel = TRUE]
  <1>1. /\ draining = "idle" /\ HandOver(r) /\ UNCHANGED <<senderVars, netVars>>
        /\ draining' = CASE r.ret = 0 /\ Len(r.ready) = MaxReady -> "fresh"
                         [] r.ret = 1 -> "duplicate"
                         [] OTHER -> "idle"
    BY Zenon DEF ReceiveData
  <1>2. /\ p = Packet(p.delivery_mode, SeqOf(q), q) /\ p.delivery_mode \in UnreliableModes
        /\ q \in 1 .. sent_unrel /\ sent_unrel - q < Lifetime
    BY DEF TransferInv, WindowsInv, DataInv
  <1>3. /\ sent_unrel \in Nat /\ q \in Int /\ recv_win \in RecvWindow
        /\ delivered_uo \in Seq(1 .. sent_unrel)
        /\ p.seq_num = SeqOf(q) /\ p.seq_num \in SeqSpace
    <2>1. sent_unrel \in Nat /\ delivered_uo \in Seq(1 .. sent_unrel) /\ recv_win \in RecvWindow
      BY DEF TransferInv, WindowsInv, UnrelInv, RecvHolds
    <2>2. q \in Int /\ p.seq_num = SeqOf(q)
      BY <1>2, <2>1 DEF Packet
    <2> QED BY Zenon, <2>1, <2>2, SeqOfType
  <1>4. p.delivery_mode = UNRELIABLE_UNORDERED \/ p.delivery_mode = UNRELIABLE_ORDERED
    BY <1>2 DEF UnreliableModes
  <1>5. slot.delivery_mode = p.delivery_mode /\ slot.payload = q /\ slot.seq_num = p.seq_num
    OBVIOUS
  <1>6. UNRELIABLE_UNORDERED # UNRELIABLE_ORDERED
    BY DEF UNRELIABLE_UNORDERED, UNRELIABLE_ORDERED
  <1>7. \/ /\ p.delivery_mode = UNRELIABLE_UNORDERED
           /\ r = [ret |-> 0, win |-> recv_win, ready |-> <<slot>>]
        \/ /\ p.delivery_mode = UNRELIABLE_ORDERED
           /\ ~recv_win.has_highest_unrel \/ seq_gt(p.seq_num, recv_win.highest_unrel_seq)
           /\ r = [ret |-> 0, ready |-> <<slot>>, win |-> newer]
        \/ r = [ret |-> 1, win |-> recv_win, ready |-> <<>>]
    BY <1>4, <1>6 DEF recv_window_on_packet, on_unreliable_ordered_packet, Dropped
  <1>8. /\ newer \in RecvWindow /\ newer.slots = recv_win.slots
        /\ newer.expected_seq = recv_win.expected_seq
        /\ newer.highest_unrel_seq = p.seq_num /\ newer.has_highest_unrel
    <2> DEFINE one == [recv_win EXCEPT !.highest_unrel_seq = p.seq_num]
    <2>1. one \in RecvWindow /\ one.slots = recv_win.slots
          /\ one.expected_seq = recv_win.expected_seq /\ one.highest_unrel_seq = p.seq_num
      BY <1>3 DEF RecvWindow
    <2>2. newer = [one EXCEPT !.has_highest_unrel = TRUE]
      OBVIOUS
    <2> HIDE DEF one
    <2> QED BY Zenon, <2>1, <2>2 DEF RecvWindow
  <1>9. /\ Payloads(<<slot>>, ReliableModes) = <<>>
        /\ p.delivery_mode = UNRELIABLE_UNORDERED =>
               Payloads(<<slot>>, {UNRELIABLE_ORDERED}) = <<>>
        /\ p.delivery_mode = UNRELIABLE_ORDERED =>
               Payloads(<<slot>>, {UNRELIABLE_ORDERED}) = <<q>>
    <2> HIDE DEF slot
    <2> QED BY Zenon, <1>2, <1>5, OneUnreliable
  <1> HIDE DEF r, slot, newer
  <1>10. /\ r.win \in RecvWindow /\ r.win.slots = recv_win.slots
         /\ r.win.expected_seq = recv_win.expected_seq
         /\ Payloads(r.ready, ReliableModes) = <<>>
    BY <1>3, <1>7, <1>8, <1>9, NoPayloads
  <1>11. /\ WindowsInv' /\ DeliveryInv' /\ expected' = expected /\ Delivers
         /\ Received(recv_win', recv_win'.expected_seq)
                <=> Received(recv_win, recv_win.expected_seq)
    BY <1>1, <1>10, ReceiveBesideHolds
  <1>12. NothingStuck' /\ draining' \in {"idle", "fresh", "duplicate"}
    BY <1>1, <1>11 DEF TransferInv, NothingStuck
  <1>13. /\ recv_win' = r.win /\ send_win' = send_win /\ sent_unrel' = sent_unrel
         /\ delivered_uo' = delivered_uo \o Payloads(r.ready, {UNRELIABLE_ORDERED})
    BY Zenon, <1>1 DEF HandOver, senderVars
  <1>14. UnrelInv'
    <2>1. CASE r.win = recv_win /\ Payloads(r.ready, {UNRELIABLE_ORDERED}) = <<>>
      <3>1. delivered_uo' = delivered_uo
        BY Zenon, <1>3, <1>13, <2>1, ConcatEmptySeq
      <3> QED BY Zenon, <1>13, <2>1, <3>1 DEF TransferInv, UnrelInv, UnreliableInOrder
    <2>2. CASE /\ ~recv_win.has_highest_unrel \/ seq_gt(p.seq_num, recv_win.highest_unrel_seq)
               /\ r.win = newer /\ Payloads(r.ready, {UNRELIABLE_ORDERED}) = <<q>>
      <3> DEFINE N == Len(delivered_uo)
                 all == delivered_uo \o <<q>>
      <3>1. /\ N \in Nat /\ all \in Seq(1 .. sent_unrel) /\ Len(all) = N + 1
            /\ all[N + 1] = q /\ \A i \in 1 .. N : all[i] = delivered_uo[i]
            /\ \A i \in 1 .. N : delivered_uo[i] \in 1 .. sent_unrel
        BY <1>2, <1>3
      <3>2. N > 0 => delivered_uo[N] < q
        <4> SUFFICES ASSUME N > 0 PROVE delivered_uo[N] < q
          OBVIOUS
        <4>1. N \in 1 .. N /\ delivered_uo # <<>>
          BY <3>1
        <4>2. recv_win.has_highest_unrel
              /\ recv_win.highest_unrel_seq = SeqOf(delivered_uo[N])
          BY Zenon, <4>1 DEF TransferInv, UnrelInv
        <4>3. seq_gt(SeqOf(q), SeqOf(delivered_uo[N])) /\ delivered_uo[N] \in 1 .. sent_unrel
          BY Zenon, <1>3, <2>2, <3>1, <4>1, <4>2
        <4> QED BY Zenon, <1>2, <1>3, <4>3, NewerUnreliable
      <3>3. delivered_uo' = all
        BY Zenon, <1>13, <2>2
      <3>4. \A i \in 2 .. N : delivered_uo[i - 1] < delivered_uo[i]
        BY DEF TransferInv, UnrelInv, UnreliableInOrder
      <3> HIDE DEF all
      <3>5. \A i \in 2 .. (N + 1) : all[i - 1] < all[i]
        <4> SUFFICES ASSUME NEW i \in 2 .. (N + 1) PROVE all[i - 1] < all[i]
          OBVIOUS
        <4>1. CASE i = N + 1
          <5>1. i - 1 = N /\ N > 0 /\ N \in 1 .. N
            BY <3>1, <4>1
          <5> QED BY <3>1, <3>2, <4>1, <5>1
        <4>2. CASE i # N + 1
          <5>1. i \in 2 .. N /\ i \in 1 .. N /\ i - 1 \in 1 .. N
            BY <3>1, <4>2
          <5> QED BY Zenon, <3>1, <3>4, <5>1
        <4> QED BY <4>1, <4>2
      <3>6. UnreliableInOrder'
        BY Zenon, <3>1, <3>3, <3>5 DEF UnreliableInOrder
      <3>7. all # <<>>
        BY <3>1
      <3>8. recv_win'.has_highest_unrel
            /\ recv_win'.highest_unrel_seq = SeqOf(all[Len(all)])
        BY Zenon, <1>3, <1>8, <1>13, <2>2, <3>1
      <3>9. sent_unrel \in Nat /\ send_win.next_unrel_seq = SeqOf(sent_unrel + 1)
        BY DEF TransferInv, UnrelInv
      <3> QED BY Zenon, <1>13, <3>1, <3>3, <3>6, <3>7, <3>8, <3>9 DEF UnrelInv
    <2> QED BY <1>7, <1>9, <2>1, <2>2, NoPayloads
  <1> QED BY <1>11, <1>12, <1>14 DEF TransferInv

\* Every step keeps the invariant.
LEMMA StepHolds == TransferInv /\ [Next]_vars => TransferInv'
PROOF
  <1> SUFFICES ASSUME TransferInv, [Next]_vars PROVE TransferInv'
    OBVIOUS
  <1>1. CASE \E mode \in ReliableModes : SendReliable(mode)
    BY <1>1, SendReliableHolds
  <1>2. CASE \E mode \in UnreliableModes : SendUnreliable(mode)
    BY <1>2, SendUnreliableHolds
  <1>3. CASE \E expired \in SUBSET Unacked(send_win) : Retransmit(expired)
    BY <1>3, RetransmitHolds
  <1>4. ASSUME NEW a \in ack_net, ReceiveAck(a) PROVE TransferInv'
    BY <1>4, ReceiveAckHolds
  <1>5. ASSUME NEW a \in ack_net, LoseAck(a) PROVE TransferInv'
    <2>1. /\ UNCHANGED <<senderVars, receiverVars>>
          /\ data_net' \subseteq data_net /\ ack_net' \subseteq ack_net
      BY <1>5 DEF LoseAck
    <2> QED BY <2>1, LossHolds
  <1>6. ASSUME NEW p \in data_net, ReceiveData(p) PROVE TransferInv'
    BY <1>6, ReceiveReliableHolds, ReceiveUnreliableHolds
  <1>7. ASSUME NEW p \in data_net, LoseData(p) PROVE TransferInv'
    <2>1. /\ UNCHANGED <<senderVars, receiverVars>>
          /\ data_net' \subseteq data_net /\ ack_net' \subseteq ack_net
      BY <1>7 DEF LoseData
    <2> QED BY <2>1, LossHolds
  <1>8. CASE DrainMore
    BY <1>8, DrainMoreHolds
  <1>9. CASE SendAck \/ SendOther
    BY <1>9, EmitAckInfoHolds DEF SendAck, SendOther
  <1>10. CASE UNCHANGED vars
    <2>1. /\ UNCHANGED <<senderVars, receiverVars>>
          /\ data_net' \subseteq data_net /\ ack_net' \subseteq ack_net
      BY <1>10 DEF vars, netVars
    <2> QED BY <2>1, LossHolds
  <1> QED BY Zenon, <1>1, <1>2, <1>3, <1>4, <1>5, <1>6, <1>7, <1>8, <1>9, <1>10 DEF Next

\* The windows of both ends, the network and the deliveries agree with the
\* messages sent, in every state of a direction (rel4u_window.c).
THEOREM TransferInvariant == Spec => []TransferInv
  BY InitHolds, StepHolds, PTL DEF Spec

-----------------------------------------------------------------------------
(* The properties *)

\* The send window describes exactly the messages from head to the last one
\* sent, and in_flight counts the unacknowledged ones.
THEOREM SendWindowCorrect == Spec => []SendWindowInv
PROOF
  <1>1. TransferInv => SendWindowInv
    <2> SUFFICES ASSUME TransferInv PROVE SendWindowInv
      OBVIOUS
    <2>1. SendHolds(send_win, head, sent)
      BY Zenon DEF TransferInv, WindowsInv
    <2>2. /\ head \in 1 .. (Len(sent) + 1) /\ Len(sent) + 1 - head <= SendCapacity
          /\ send_win.head_seq = SeqOf(head) /\ send_win.next_seq = SeqOf(Len(sent) + 1)
          /\ \A n \in head .. Len(sent) :
              /\ send_win.slots[AtSender(n)].payload = n
              /\ send_win.slots[AtSender(n)].delivery_mode = sent[n]
      BY <2>1 DEF SendHolds
    <2>3. /\ send_win.in_flight = Cardinality(Unacked(send_win))
          /\ Cardinality({i \in DOMAIN send_win.slots : send_win.slots[i].in_use})
                 = Len(sent) + 1 - head
      BY <2>1, UnackedAre
    <2>4. \A n \in head .. Len(sent) : n \in Int
      BY Bounds
    <2>5. \A n \in head .. Len(sent) :
              /\ InUse(send_win, SeqOf(n))
              /\ SlotOf(send_win, SeqOf(n)) = send_win.slots[AtSender(n)]
      BY Zenon, <2>1, <2>4, SlotsInUse
    <2> QED BY <2>2, <2>3, <2>5 DEF SendWindowInv
  <1> QED BY <1>1, TransferInvariant, PTL

\* What the receive window holds are messages from expected on, each at its
\* own place.
THEOREM RecvWindowCorrect == Spec => []RecvWindowInv
PROOF
  <1>1. TransferInv => RecvWindowInv
    <2> SUFFICES ASSUME TransferInv PROVE RecvWindowInv
      OBVIOUS
    <2>1. RecvHolds(recv_win, expected, sent) /\ expected \in Int
      BY Bounds DEF TransferInv, WindowsInv
    <2>2. /\ recv_win.expected_seq = SeqOf(expected)
          /\ DOMAIN recv_win.slots = 0 .. (RecvCapacity - 1)
      BY Zenon, <2>1 DEF RecvHolds, RecvWindow
    <2>3. \A n \in Int : SlotIdx(recv_win, SeqOf(n)) = AtReceiver(n)
      BY Zenon, <2>1, RecvFacts
    <2> SUFFICES ASSUME NEW i \in 0 .. (RecvCapacity - 1), recv_win.slots[i].received
                 PROVE  \E n \in expected .. (expected + RecvCapacity - 1) :
                            /\ recv_win.slots[i].seq_num = SeqOf(n)
                            /\ SlotIdx(recv_win, SeqOf(n)) = i
                            /\ recv_win.slots[i].payload = n
      BY <2>2 DEF RecvWindowInv
    <2>4. PICK n \in expected .. (expected + RecvCapacity - 1) :
              AtReceiver(n) = i /\ Holds(recv_win.slots[i], n, sent)
      BY <2>1 DEF RecvHolds
    <2>5. n \in Int
      BY <2>1, Sizes
    <2> QED BY Zenon, <2>3, <2>4, <2>5 DEF Holds
  <1> QED BY <1>1, TransferInvariant, PTL

\* The sender gives up no message the receiver does not have, whatever stale,
\* repeated or reordered acknowledgements come in.
THEOREM NoFalseAckHolds == Spec => []NoFalseAck
PROOF
  <1>1. TransferInv => NoFalseAck
    <2> SUFFICES ASSUME TransferInv, NEW n \in 1 .. Len(sent), Acked(n)
                 PROVE  Arrived(n)
      BY DEF NoFalseAck
    <2>1. /\ Len(sent) \in Nat /\ n \in Int /\ head \in Int /\ expected \in Int
          /\ head <= expected /\ SendHolds(send_win, head, sent)
      BY Bounds DEF TransferInv, WindowsInv
    <2>2. CASE n < head
      <3>1. n < expected
        BY <2>1, <2>2
      <3> QED BY <3>1 DEF Arrived
    <2>3. CASE ~(n < head)
      <3>1. n \in head .. Len(sent)
        BY <2>1, <2>3
      <3>2. SlotOf(send_win, SeqOf(n)) = send_win.slots[AtSender(n)]
        BY Zenon, <2>1, SlotsInUse
      <3> QED BY <2>3, <3>1, <3>2 DEF TransferInv, WindowsInv, MarksInv, Acked
    <2> QED BY <2>2, <2>3
  <1> QED BY <1>1, TransferInvariant, PTL

\* The drain loops really drain: between two datagrams no deliverable message
\* is left in the receive window.
THEOREM NothingStuckHolds == Spec => []NothingStuck
PROOF
  <1>1. TransferInv => NothingStuck
    BY Zenon DEF TransferInv
  <1> QED BY <1>1, TransferInvariant, PTL

\* Unreliable ordered messages are never delivered out of order.
THEOREM UnreliableInOrderHolds == Spec => []UnreliableInOrder
PROOF
  <1>1. TransferInv => UnreliableInOrder
    BY DEF TransferInv, UnrelInv
  <1> QED BY <1>1, TransferInvariant, PTL

\* A step that delivers is a step of the link, or none.
LEMMA DeliverStep ==
    ASSUME TransferInv, DeliveryInv', Delivers
    PROVE  Link!Deliver \/ UNCHANGED Link!linkVars
PROOF
  <1> DEFINE L == Len(sent)
  <1>1. PICK out \in Seq(1 .. L) : delivered' = delivered \o out
    BY DEF Delivers
  <1>2. /\ sent' = sent /\ delivered \in Seq(1 .. L) /\ delivered' \in Seq(1 .. L)
        /\ Once(delivered') /\ InTurn(delivered', sent)
    BY DEF Delivers, TransferInv, DeliveryInv, Delivery
  <1>3. CASE out = <<>>
    <2>1. delivered' = delivered
      BY Zenon, <1>1, <1>2, <1>3, ConcatEmptySeq
    <2> QED BY <1>2, <2>1 DEF Link!linkVars
  <1>4. CASE out # <<>>
    <2> DEFINE A == Len(delivered)
               B == Len(out)
    <2>1. A \in Nat /\ B \in Nat /\ B > 0 /\ DOMAIN delivered = 1 .. A
      BY <1>1, <1>2, <1>4, EmptySeq, LenProperties
    <2>2. /\ Len(delivered') = A + B
          /\ \A i \in 1 .. (A + B) :
                delivered'[i] = IF i <= A THEN delivered[i] ELSE out[i - A]
      BY Zenon, <1>1, <1>2, ConcatProperties
    <2> HIDE DEF A, B
    <2>3. Len(delivered') > A
      BY <2>1, <2>2
    <2>4. SubSeq(delivered', 1, A) = delivered
      <3> DEFINE x == SubSeq(delivered', 1, A)
      <3>1. 1 \in 1 .. (A + B + 1) /\ A \in 0 .. (A + B)
        BY <2>1
      <3>2. /\ x \in Seq(1 .. L) /\ Len(x) = A
            /\ \A i \in 1 .. A : x[i] = delivered'[i]
        BY <1>2, <2>1, <2>2
      <3>3. \A i \in 1 .. A : x[i] = delivered[i]
        BY <2>1, <2>2, <3>2
      <3> HIDE DEF x
      <3>4. x = delivered
        BY Zenon, <1>2, <3>2, <3>3, SeqEqual DEF A
      <3> QED BY <3>4 DEF x
    <2>5. \A j \in DOMAIN delivered' : delivered'[j] \in 1 .. L
      BY <1>2, LenProperties
    <2>6. Link!DeliveredOnce(delivered')
      BY <1>2 DEF Once, Link!DeliveredOnce
    <2>7. Link!DeliveredInOrder(delivered')
      BY <1>2 DEF InTurn, Link!DeliveredInOrder
    <2> QED BY Zenon, <1>2, <2>3, <2>4, <2>5, <2>6, <2>7 DEF Link!Deliver, A
  <1> QED BY <1>3, <1>4

\* Every step is a step of the link, or none: sending is Send, what the drain
\* loops hand over is Deliver.
LEMMA LinkStep == TransferInv /\ TransferInv' /\ [Next]_vars => [Link!Next]_(Link!linkVars)
PROOF
  <1> SUFFICES ASSUME TransferInv, TransferInv', [Next]_vars
               PROVE  [Link!Next]_(Link!linkVars)
    OBVIOUS
  <1>1. ASSUME NEW mode \in ReliableModes, SendReliable(mode)
        PROVE  Link!Send
    BY <1>1 DEF SendReliable, receiverVars, Link!Send
  <1>2. ASSUME Delivers PROVE Link!Deliver \/ UNCHANGED Link!linkVars
    BY <1>2, DeliverStep DEF TransferInv
  <1>3. ASSUME NEW p \in data_net, ReceiveData(p) PROVE Delivers
    BY <1>3, ReceiveReliableHolds, ReceiveUnreliableHolds
  <1>4. ASSUME DrainMore PROVE Delivers
    BY Zenon, <1>4, DrainMoreHolds
  <1>5. ASSUME \/ \E mode \in UnreliableModes : SendUnreliable(mode)
               \/ \E expired \in SUBSET Unacked(send_win) : Retransmit(expired)
               \/ \E a \in ack_net : ReceiveAck(a) \/ LoseAck(a)
               \/ \E p \in data_net : LoseData(p)
               \/ SendAck \/ SendOther \/ UNCHANGED vars
        PROVE  UNCHANGED Link!linkVars
    BY <1>5 DEF SendUnreliable, Retransmit, ReceiveAck, LoseAck, LoseData, SendAck,
       SendOther, EmitAckInfo, senderVars, receiverVars, vars, Link!linkVars
  <1> QED BY Zenon, <1>1, <1>2, <1>3, <1>4, <1>5 DEF Next, Link!Next

\* One direction of a session implements the reliable link: every reliable
\* message is delivered at most once, and the ordered ones in the order they
\* were sent, with nothing in between left out.
THEOREM TransferImplementsLink == Spec => LinkSpec
PROOF
  <1>1. Init => Link!Init
    BY DEF Init, Link!Init
  <1> QED BY <1>1, LinkStep, TransferInvariant, PTL DEF Spec, LinkSpec, Link!Spec

=============================================================================
