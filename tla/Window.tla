------------------------------- MODULE Window -------------------------------
(***************************************************************************)
(* The send and receive windows of one direction of a session              *)
(* (src/src/core/rel4u_window.{h,c}), as operators on window records.      *)
(*                                                                         *)
(* The loops of the code that walk consecutive sequence numbers are        *)
(* written as the set of sequence numbers they visit.  A SACK mask is the  *)
(* set of its bit positions; a payload is an opaque value; times are in    *)
(* milliseconds.  NoPayload is what zeroed memory holds.                   *)
(***************************************************************************)
EXTENDS SeqNum, Sequences, FiniteSets, FiniteSetsExt

CONSTANTS
    CountMod,   \* retransmit_count is a uint8_t: 256 in the code
    SackBits,   \* bits of sack_mask: 32 in the code
    NoPayload

\* rel4u_delivery_mode_t
UNRELIABLE_UNORDERED == "UNRELIABLE_UNORDERED"
UNRELIABLE_ORDERED   == "UNRELIABLE_ORDERED"
RELIABLE_UNORDERED   == "RELIABLE_UNORDERED"
RELIABLE_ORDERED     == "RELIABLE_ORDERED"

ReliableModes == {RELIABLE_UNORDERED, RELIABLE_ORDERED}
UnreliableModes == {UNRELIABLE_UNORDERED, UNRELIABLE_ORDERED}

\* Capacities are powers of two, so seq & (capacity - 1) is the residue.
SlotIdx(win, seq) == seq % win.capacity

SlotOf(win, seq) == win.slots[SlotIdx(win, seq)]

-----------------------------------------------------------------------------
(* Send window *)

FreeSendSlot ==
    [seq_num |-> 0, first_sent_time |-> 0, last_sent_time |-> 0,
     retransmit_count |-> 0, delivery_mode |-> UNRELIABLE_UNORDERED,
     in_use |-> FALSE, acked |-> FALSE, payload |-> NoPayload]

send_window_init(capacity, initial_seq) ==
    [capacity |-> capacity, head_seq |-> initial_seq, next_seq |-> initial_seq,
     next_unrel_seq |-> initial_seq, in_flight |-> 0,
     slots |-> [i \in 0 .. (capacity - 1) |-> FreeSendSlot]]

\* slot->in_use && slot->seq_num == seq
InUse(win, seq) == SlotOf(win, seq).in_use /\ SlotOf(win, seq).seq_num = seq

\* The sequence numbers a loop from head_seq to next_seq visits.
Outstanding(win) ==
    {seq_add(win.head_seq, i) :
        i \in 0 .. (seq_diff(win.next_seq, win.head_seq) - 1)}

Unacked(win) ==
    {s \in Outstanding(win) : InUse(win, s) /\ ~SlotOf(win, s).acked}

\* faulty variant: only the messages not acked yet are counted
send_window_can_send_InFlight(win) == win.in_flight < win.capacity

send_window_can_send(win) ==
    /\ win.in_flight < win.capacity
    /\ seq_diff(win.next_seq, win.head_seq) < win.capacity

\* The sequence number a push hands out, by the counter of its mode.
PushSeq(win, mode) ==
    IF mode \in ReliableModes THEN win.next_seq ELSE win.next_unrel_seq

send_window_push(win, mode, data, now) ==
    CASE mode \in UnreliableModes ->
            [win EXCEPT !.next_unrel_seq = seq_add(@, 1)]
      [] mode \in ReliableModes /\ ~send_window_can_send(win) -> win
      [] OTHER ->
            [win EXCEPT
                !.next_seq = seq_add(@, 1),
                !.in_flight = @ + 1,
                !.slots[SlotIdx(win, win.next_seq)] =
                    [seq_num |-> win.next_seq, first_sent_time |-> now,
                     last_sent_time |-> now, retransmit_count |-> 0,
                     delivery_mode |-> mode, in_use |-> TRUE,
                     acked |-> FALSE, payload |-> data]]

\* head_seq advances over these while it is at most ack_num.
CumulativelyAcked(win, ack_num) ==
    {s \in Outstanding(win) :
        \A t \in Outstanding(win) : seq_lte(t, s) => seq_lte(t, ack_num)}

\* The sequence numbers the SACK bits name that are still in the window.
SelectivelyAcked(win, ack_num, sack_mask) ==
    {s \in {seq_add(ack_num, 1 + i) : i \in sack_mask} :
        seq_lt(s, win.next_seq) /\ seq_gte(s, win.head_seq)}

\* in_flight-- for each of n slots, never below zero.
Decrease(in_flight, n) == IF in_flight > n THEN in_flight - n ELSE 0

\* The slots an acknowledgement marks for the first time.
FirstAcked(win, seqs) ==
    {s \in seqs : InUse(win, s) /\ ~SlotOf(win, s).acked}

ack_cumulative(win, ack_num) ==
    LET seqs == CumulativelyAcked(win, ack_num)
    IN  [win EXCEPT
            !.head_seq = seq_add(@, Cardinality(seqs)),
            !.in_flight = Decrease(@, Cardinality(FirstAcked(win, seqs))),
            !.slots = [i \in DOMAIN @ |->
                IF \E s \in seqs : SlotIdx(win, s) = i /\ InUse(win, s)
                THEN [@[i] EXCEPT !.acked = TRUE, !.in_use = FALSE]
                ELSE @[i]]]

ack_selective(win, ack_num, sack_mask) ==
    LET seqs == FirstAcked(win, SelectivelyAcked(win, ack_num, sack_mask))
    IN  [win EXCEPT
            !.in_flight = Decrease(@, Cardinality(seqs)),
            !.slots = [i \in DOMAIN @ |->
                IF \E s \in seqs : SlotIdx(win, s) = i
                THEN [@[i] EXCEPT !.acked = TRUE]
                ELSE @[i]]]

send_window_on_ack(win, ack_num, sack_mask) ==
    ack_selective(ack_cumulative(win, ack_num), ack_num, sack_mask)

\* Of the slots whose timer ran out, the max_slots oldest.
send_window_get_expired(due, max_slots) ==
    {s \in due : Cardinality({t \in due : seq_lt(t, s)}) < max_slots}

send_window_reset(win, initial_seq) == send_window_init(win.capacity, initial_seq)

\* What the workers do to the slots whose timer ran out.
MarkRetransmitted(win, seqs, now) ==
    LET Again(slot) ==
            [slot EXCEPT !.last_sent_time = now,
                         !.retransmit_count = (@ + 1) % CountMod]
    IN  [win EXCEPT !.slots = [i \in DOMAIN @ |->
            IF \E s \in seqs : SlotIdx(win, s) = i
            THEN Again(@[i]) ELSE @[i]]]

-----------------------------------------------------------------------------
(* Receive window *)

FreeRecvSlot ==
    [seq_num |-> 0, delivery_mode |-> UNRELIABLE_UNORDERED,
     received |-> FALSE, payload |-> NoPayload]

recv_window_init(capacity, initial_seq) ==
    [capacity |-> capacity, expected_seq |-> initial_seq,
     highest_unrel_seq |-> 0, has_highest_unrel |-> FALSE,
     slots |-> [i \in 0 .. (capacity - 1) |-> FreeRecvSlot]]

\* slot->received && slot->seq_num == seq
Received(win, seq) ==
    SlotOf(win, seq).received /\ SlotOf(win, seq).seq_num = seq

\* The i-th sequence number from expected_seq on.
Nth(win, i) == seq_add(win.expected_seq, i)

IsOrdered(win, i) == SlotOf(win, Nth(win, i)).delivery_mode = RELIABLE_ORDERED

\* How many of the first n slots from expected_seq on hold ordered messages.
OrderedAmong(win, n) == Cardinality({i \in 0 .. (n - 1) : IsOrdered(win, i)})

\* faulty variant: the slots passed over are not cleared
Advance_NoClear(win, n) == [win EXCEPT !.expected_seq = seq_add(@, n)]

\* Clear the first n slots from expected_seq on and move past them.
Advance(win, n) ==
    [win EXCEPT
        !.expected_seq = seq_add(@, n),
        !.slots = [j \in DOMAIN @ |->
            IF \E i \in 0 .. (n - 1) : SlotIdx(win, Nth(win, i)) = j
            THEN [@[j] EXCEPT !.received = FALSE]
            ELSE @[j]]]

\* The place of the k-th ordered message, counted from expected_seq.
OrderedAt(win, k) ==
    CHOOSE i \in 0 .. (win.capacity - 1) :
        IsOrdered(win, i) /\ OrderedAmong(win, i) = k - 1

\* The ordered messages among the first n slots, in sequence order.
OrderedSlots(win, n) ==
    [k \in 1 .. OrderedAmong(win, n) |-> SlotOf(win, Nth(win, OrderedAt(win, k)))]

\* The iterations of a drain loop: the longest run of received slots from
\* expected_seq on that it may take, by offset, at most capacity of them.
DrainLength(win, takes) ==
    Max({n \in 0 .. win.capacity :
            \A i \in 0 .. (n - 1) : i \in takes /\ Received(win, Nth(win, i))})

\* The offsets before which fewer than room ordered messages come.
WithRoom(win, room) ==
    {i \in 0 .. (win.capacity - 1) : OrderedAmong(win, i) < room}

recv_window_pop_ready(win, max_ready) ==
    LET n == DrainLength(win, WithRoom(win, max_ready))
    IN  [ret |-> 0, win |-> Advance(win, n), ready |-> OrderedSlots(win, n)]

\* The drain after a reliable unordered arrival: that message already takes
\* one of the max_ready places, and unordered slots are passed over freely.
AdvanceUnordered(win, slot, max_ready) ==
    LET unordered == {i \in 0 .. (win.capacity - 1) :
            SlotOf(win, Nth(win, i)).delivery_mode = RELIABLE_UNORDERED}
        n == DrainLength(win, unordered \cup WithRoom(win, max_ready - 1))
    IN  [ret |-> 0, win |-> Advance(win, n),
         ready |-> <<slot>> \o OrderedSlots(win, n)]

Dropped(win, ret) == [ret |-> ret, win |-> win, ready |-> <<>>]

\* faulty variant: a message in the window is taken for new
on_reliable_packet_NoDuplicates(win, slot, max_ready) ==
    LET seq == slot.seq_num
        stored == [win EXCEPT !.slots[SlotIdx(win, seq)] = slot]
    IN  CASE seq_lt(seq, win.expected_seq) -> Dropped(win, 1)
          [] seq_diff(seq, win.expected_seq) >= win.capacity -> Dropped(win, -2)
          [] OTHER -> IF slot.delivery_mode = RELIABLE_UNORDERED
                      THEN AdvanceUnordered(stored, slot, max_ready)
                      ELSE recv_window_pop_ready(stored, max_ready)

\* Reliable arrivals.  The slot of an unordered message keeps its payload here
\* and not in the code: it was handed over already, nobody reads the slot's.
on_reliable_packet(win, slot, max_ready) ==
    LET seq == slot.seq_num
        stored == [win EXCEPT !.slots[SlotIdx(win, seq)] = slot]
    IN  CASE seq_lt(seq, win.expected_seq) -> Dropped(win, 1)
          [] seq_diff(seq, win.expected_seq) >= win.capacity -> Dropped(win, -2)
          [] OTHER ->
                IF Received(win, seq) THEN Dropped(win, 1)
                ELSE IF slot.delivery_mode = RELIABLE_UNORDERED
                     THEN AdvanceUnordered(stored, slot, max_ready)
                     ELSE recv_window_pop_ready(stored, max_ready)

\* faulty variant: the latest message may come again
on_unreliable_ordered_packet_Again(win, slot) ==
    IF ~win.has_highest_unrel \/ seq_gte(slot.seq_num, win.highest_unrel_seq)
    THEN [ret |-> 0, ready |-> <<slot>>,
          win |-> [win EXCEPT !.highest_unrel_seq = slot.seq_num,
                              !.has_highest_unrel = TRUE]]
    ELSE Dropped(win, 1)

on_unreliable_ordered_packet(win, slot) ==
    IF ~win.has_highest_unrel \/ seq_gt(slot.seq_num, win.highest_unrel_seq)
    THEN [ret |-> 0, ready |-> <<slot>>,
          win |-> [win EXCEPT !.highest_unrel_seq = slot.seq_num,
                              !.has_highest_unrel = TRUE]]
    ELSE Dropped(win, 1)

recv_window_on_packet(win, mode, seq_num, payload, max_ready) ==
    LET slot == [seq_num |-> seq_num, delivery_mode |-> mode,
                 received |-> TRUE, payload |-> payload]
    IN  CASE mode = UNRELIABLE_UNORDERED ->
                [ret |-> 0, win |-> win, ready |-> <<slot>>]
          [] mode = UNRELIABLE_ORDERED -> on_unreliable_ordered_packet(win, slot)
          [] OTHER -> on_reliable_packet(win, slot, max_ready)

\* faulty variant: the next message expected is acknowledged
recv_window_get_ack_info_Early(win) ==
    [ack_num |-> win.expected_seq,
     sack_mask |-> {i \in 0 .. (SackBits - 1) : Received(win, Nth(win, i))}]

recv_window_get_ack_info(win) ==
    [ack_num |-> seq_add(win.expected_seq, -1),
     sack_mask |-> {i \in 0 .. (SackBits - 1) : Received(win, Nth(win, i))}]

=============================================================================
