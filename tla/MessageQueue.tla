---------------------------- MODULE MessageQueue ----------------------------
(***************************************************************************)
(* What a message queue promises (src/docs/internals.md, "Memory Modes &   *)
(* Full Policies"): first in, first out; a bound; when it is full either   *)
(* the new message is refused or just enough of the oldest ones make room; *)
(* and dropped counts every message that was lost either way.              *)
(***************************************************************************)
EXTENDS Integers, Sequences

CONSTANTS
    Items,
    Memories,       \* kinds of memory
    Fits(_, _),     \* the sequences within the bound of a kind of memory
    Failing         \* the kinds that may run out for a message

VARIABLES
    queue, dropped,
    memory,         \* its kind of memory
    evicts          \* full: make room (TRUE) or refuse (FALSE)

queueVars == <<queue, dropped, memory, evicts>>

\* The queue after losing its k oldest messages.
Without(k) == SubSeq(queue, k + 1, Len(queue))

Room(k, x) == Fits(memory, Append(Without(k), x))

\* Losing k messages is what it takes for x to fit.
Enough(k, x) ==
    /\ k \in 0 .. Len(queue)
    /\ k > 0 => evicts /\ ~Room(k - 1, x)
    /\ Room(k, x)

Init == queue = <<>> /\ dropped = 0 /\ memory \in Memories /\ evicts \in BOOLEAN

PushBack == \E x \in Items, k \in 0 .. Len(queue) :
    Enough(k, x) /\ queue' = Append(Without(k), x) /\ dropped' = dropped + k

PushFront == \E x \in Items, k \in 0 .. Len(queue) :
    Enough(k, x) /\ queue' = <<x>> \o Without(k) /\ dropped' = dropped + k

\* No room for x, even alone; or it would take an eviction.
Refuse == \E x \in Items :
    /\ ~Fits(memory, <<x>>) \/ (~evicts /\ ~Room(0, x))
    /\ dropped' = dropped + 1
    /\ UNCHANGED queue

\* Memory ran out, after the oldest messages had made room.
Fail == \E x \in Items, k \in 0 .. Len(queue) :
    memory \in Failing /\ Enough(k, x) /\ queue' = Without(k) /\ dropped' = dropped + k + 1

Pop == queue # <<>> /\ queue' = Tail(queue) /\ UNCHANGED dropped

Next ==
    /\ PushBack \/ PushFront \/ Refuse \/ Fail \/ Pop
    /\ UNCHANGED <<memory, evicts>>

Spec == Init /\ [][Next]_queueVars

=============================================================================
