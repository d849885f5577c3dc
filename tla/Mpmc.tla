-------------------------------- MODULE Mpmc --------------------------------
(***************************************************************************)
(* The message queue between application threads and a worker              *)
(* (src/src/core/rel4u_mpmc.{h,c}), as operators on queue records: what    *)
(* each function does while it holds the queue's mutex.  FIXED memory is a *)
(* ring of Capacity items, DYNAMIC memory a list of nodes bounded in bytes.*)
(***************************************************************************)
EXTENDS Integers, Sequences, FiniteSets, FiniteSetsExt

CONSTANTS
    Capacity,   \* items of the ring
    MaxBytes,   \* bytes of the list
    NodeSize,   \* sizeof(rel4u_mpmc_node_t)
    Items,      \* what is queued
    LenOf(_),   \* the length of an item
    Uninitialized

ASSUME MpmcAssumption ==
    /\ Capacity \in Nat /\ Capacity >= 2
    /\ MaxBytes \in Nat /\ NodeSize \in Nat
    /\ \A x \in Items : LenOf(x) \in Nat
    /\ Uninitialized \notin Items

MemoryModes == {"FIXED", "DYNAMIC"}
FullPolicies == {"DROP_LAST", "DROP_NEW"}

Indices == 0 .. (Capacity - 1)

\* The ring is malloc'ed: its items are uninitialized.
mpmc_init(mode, full_policy) ==
    [mode |-> mode, full_policy |-> full_policy,
     items |-> [i \in Indices |-> Uninitialized], head |-> 0, tail |-> 0,
     nodes |-> <<>>, count |-> 0, dropped_count |-> 0,
     current_bytes |-> IF mode = "FIXED" THEN MaxBytes ELSE 0]

\* The messages a queue holds, oldest first.
Contents(q) ==
    IF q.mode = "FIXED"
    THEN [i \in 1 .. q.count |-> q.items[(q.head + i - 1) % Capacity]]
    ELSE q.nodes

Needed(item) == NodeSize + LenOf(item)

BytesOf(nodes) == MapThenSumSet(LAMBDA i : Needed(nodes[i]), DOMAIN nodes)

Refused(q) == [ok |-> FALSE, q |-> [q EXCEPT !.dropped_count = @ + 1]]

\* Room for one more item in the ring: the oldest one goes if it is full.
EvictSlot(q) ==
    IF q.count >= Capacity
    THEN [q EXCEPT !.head = (@ + 1) % Capacity, !.count = @ - 1,
                   !.dropped_count = @ + 1]
    ELSE q

\* faulty variant: evicted messages are not counted
EvictNodes_Uncounted(q, needed) ==
    LET Fits(n) == q.current_bytes - BytesOf(SubSeq(q.nodes, 1, n)) + needed
                       <= MaxBytes
        n == Min({k \in 0 .. Len(q.nodes) : Fits(k) \/ k = Len(q.nodes)})
    IN  [q EXCEPT !.nodes = SubSeq(@, n + 1, Len(@)),
                  !.current_bytes = @ - BytesOf(SubSeq(q.nodes, 1, n)),
                  !.count = @ - n]

\* Room for needed more bytes in the list: the oldest nodes go until they fit
\* or none is left.
EvictNodes(q, needed) ==
    LET Fits(n) == q.current_bytes - BytesOf(SubSeq(q.nodes, 1, n)) + needed
                       <= MaxBytes
        n == Min({k \in 0 .. Len(q.nodes) : Fits(k) \/ k = Len(q.nodes)})
    IN  [q EXCEPT !.nodes = SubSeq(@, n + 1, Len(@)),
                  !.current_bytes = @ - BytesOf(SubSeq(q.nodes, 1, n)),
                  !.count = @ - n, !.dropped_count = @ + n]

\* Only DROP_LAST evicts.
RoomFor(q, item) ==
    IF q.full_policy = "DROP_LAST" THEN EvictNodes(q, Needed(item)) ELSE q

\* faulty variant: the full policies are swapped
push_fixed_Swapped(q, placed) ==
    IF q.count >= Capacity /\ q.full_policy = "DROP_LAST"
    THEN Refused(q)
    ELSE [ok |-> TRUE, q |-> placed]

\* A push to the ring: placed is the queue with the item where it goes.
push_fixed(q, placed) ==
    IF q.count >= Capacity /\ q.full_policy = "DROP_NEW"
    THEN Refused(q)
    ELSE [ok |-> TRUE, q |-> placed]

\* faulty variant: a failed allocation is not counted
push_dynamic_Uncounted(q, item, alloc_ok, placed) ==
    LET needed == Needed(item)
        room == RoomFor(q, item)
    IN  IF needed > MaxBytes THEN Refused(q)
        ELSE IF room.current_bytes + needed > MaxBytes THEN Refused(room)
        ELSE IF ~alloc_ok THEN [ok |-> FALSE, q |-> room]
        ELSE [ok |-> TRUE,
              q |-> [placed EXCEPT !.count = @ + 1,
                                   !.current_bytes = @ + needed]]

\* A push to the list.  alloc_ok is malloc's luck: when it fails, the evicted
\* nodes are gone already.
push_dynamic(q, item, alloc_ok, placed) ==
    LET needed == Needed(item)
        room == RoomFor(q, item)
    IN  IF needed > MaxBytes THEN Refused(q)
        ELSE IF room.current_bytes + needed > MaxBytes \/ ~alloc_ok
        THEN Refused(room)
        ELSE [ok |-> TRUE,
              q |-> [placed EXCEPT !.count = @ + 1,
                                   !.current_bytes = @ + needed]]

mpmc_push_back_locked(q, item, alloc_ok) ==
    IF q.mode = "FIXED"
    THEN LET room == EvictSlot(q)
         IN  push_fixed(q, [room EXCEPT !.items[room.tail] = item,
                                        !.tail = (@ + 1) % Capacity,
                                        !.count = @ + 1])
    ELSE push_dynamic(q, item, alloc_ok,
                      [RoomFor(q, item) EXCEPT !.nodes = Append(@, item)])

mpmc_push_front_locked(q, item, alloc_ok) ==
    IF q.mode = "FIXED"
    THEN LET room == EvictSlot(q)
             head == IF room.head = 0 THEN Capacity - 1 ELSE room.head - 1
         IN  push_fixed(q, [room EXCEPT !.items[head] = item, !.head = head,
                                        !.count = @ + 1])
    ELSE push_dynamic(q, item, alloc_ok,
                      [RoomFor(q, item) EXCEPT !.nodes = <<item>> \o @])

\* faulty variant: the bytes of a popped node stay accounted
mpmc_pop_head_locked_KeepBytes(q) ==
    IF q.mode = "FIXED"
    THEN [item |-> q.items[q.head],
          q |-> [q EXCEPT !.head = (@ + 1) % Capacity, !.count = @ - 1]]
    ELSE [item |-> Head(q.nodes),
          q |-> [q EXCEPT !.nodes = Tail(@), !.count = @ - 1]]

\* Of a queue that is not empty.
mpmc_pop_head_locked(q) ==
    IF q.mode = "FIXED"
    THEN [item |-> q.items[q.head],
          q |-> [q EXCEPT !.head = (@ + 1) % Capacity, !.count = @ - 1]]
    ELSE [item |-> Head(q.nodes),
          q |-> [q EXCEPT !.nodes = Tail(@), !.count = @ - 1,
                          !.current_bytes = @ - Needed(Head(q.nodes))]]

=============================================================================
