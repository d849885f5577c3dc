----------------------------- MODULE MpmcProofs -----------------------------
(***************************************************************************)
(* Proofs about the message queue and its threads, for every capacity,     *)
(* every number of readers and every interleaving of their critical        *)
(* sections.                                                               *)
(***************************************************************************)
EXTENDS MpmcThreads, ArithmeticLemmas, FiniteSetTheorems, SequenceTheorems

Fields == {"mode", "full_policy", "items", "head", "tail", "count",
           "nodes", "current_bytes", "dropped_count"}

\* What both kinds of memory need: the counters are counters, and the list
\* has count nodes.
IsQueue(x) ==
    /\ DOMAIN x = Fields /\ x = [f \in Fields |-> x[f]]
    /\ x.count \in Nat /\ x.dropped_count \in Nat
    /\ x.nodes \in Seq(Items)
    /\ x.mode \in MemoryModes
    /\ x.mode = "DYNAMIC" => x.count = Len(x.nodes)

\* x became r.q by a push that succeeded or failed.
Pushed(x, r) ==
    /\ IsQueue(r.q) /\ r.q.mode = x.mode
    /\ r.ok \in BOOLEAN
    /\ r.q.count + r.q.dropped_count = x.count + x.dropped_count + 1
    /\ r.q.count <= x.count + 1
    /\ ~r.ok => r.q.count <= x.count

\* Evicting nodes loses as many messages as dropped_count counts (the loop of
\* the DYNAMIC branch of mpmc_push_back_locked).
LEMMA EvictNodesFact ==
    ASSUME NEW x, IsQueue(x), x.mode = "DYNAMIC", NEW needed
    PROVE  LET y == EvictNodes(x, needed)
           IN  /\ IsQueue(y) /\ y.mode = x.mode
               /\ y.count + y.dropped_count = x.count + x.dropped_count
               /\ y.count <= x.count
PROOF
  <1> DEFINE F(n) == x.current_bytes - BytesOf(SubSeq(x.nodes, 1, n)) + needed
                         <= MaxBytes
             N == {k \in 0 .. Len(x.nodes) : F(k) \/ k = Len(x.nodes)}
             n == Min(N)
  <1>1. Len(x.nodes) \in Nat
    BY DEF IsQueue
  <1>2. N \subseteq Nat /\ Len(x.nodes) \in N
    BY <1>1
  <1>3. n \in 0 .. Len(x.nodes)
    <2> HIDE DEF F
    <2>1. Min(N) \in N
      BY <1>2, MinNat
    <2> QED BY <2>1
  <1> DEFINE y == [x EXCEPT !.nodes = SubSeq(@, n + 1, Len(@)),
                            !.current_bytes = @ - BytesOf(SubSeq(x.nodes, 1, n)),
                            !.count = @ - n, !.dropped_count = @ + n]
  <1>4. EvictNodes(x, needed) = y
    BY DEF EvictNodes
  <1> HIDE DEF n
  <1>5. /\ SubSeq(x.nodes, n + 1, Len(x.nodes)) \in Seq(Items)
        /\ Len(SubSeq(x.nodes, n + 1, Len(x.nodes))) = Len(x.nodes) - n
    BY <1>1, <1>3 DEF IsQueue
  <1>6. /\ y.count = x.count - n /\ y.dropped_count = x.dropped_count + n
        /\ y.nodes = SubSeq(x.nodes, n + 1, Len(x.nodes)) /\ y.mode = x.mode
        /\ DOMAIN y = Fields /\ y = [f \in Fields |-> y[f]]
    BY DEF IsQueue, Fields
  <1> HIDE DEF y
  <1>7. IsQueue(y)
    BY <1>1, <1>3, <1>5, <1>6 DEF IsQueue
  <1>8. /\ y.count + y.dropped_count = x.count + x.dropped_count
        /\ y.count <= x.count
    BY <1>1, <1>3, <1>6 DEF IsQueue
  <1> QED BY <1>4, <1>6, <1>7, <1>8

\* A refused message is counted (the returns of false of the pushes).
LEMMA RefusedFact ==
    ASSUME NEW x, IsQueue(x)
    PROVE  /\ IsQueue(Refused(x).q) /\ Refused(x).ok = FALSE
           /\ Refused(x).q.mode = x.mode
           /\ Refused(x).q.count = x.count
           /\ Refused(x).q.dropped_count = x.dropped_count + 1
PROOF
  <1> DEFINE y == [x EXCEPT !.dropped_count = @ + 1]
  <1>1. /\ y.count = x.count /\ y.nodes = x.nodes /\ y.mode = x.mode
        /\ y.dropped_count = x.dropped_count + 1
        /\ DOMAIN y = Fields /\ y = [f \in Fields |-> y[f]]
    BY DEF IsQueue, Fields
  <1>2. Refused(x) = [ok |-> FALSE, q |-> y]
    BY DEF Refused
  <1> HIDE DEF y
  <1>3. IsQueue(y)
    BY <1>1 DEF IsQueue
  <1> QED BY <1>1, <1>2, <1>3

\* A push that is refused, after evictions or not, is a failed push.
LEMMA RefusedPushed ==
    ASSUME NEW x, NEW room, IsQueue(x), IsQueue(room), room.count <= x.count,
           room.mode = x.mode,
           room.count + room.dropped_count = x.count + x.dropped_count
    PROVE  Pushed(x, Refused(room))
PROOF
  <1> DEFINE r == Refused(room)
  <1>1. /\ IsQueue(r.q) /\ r.ok = FALSE /\ r.q.count = room.count
        /\ r.q.mode = x.mode
        /\ r.q.dropped_count = room.dropped_count + 1
    BY RefusedFact
  <1> HIDE DEF r
  <1>2. /\ x.count \in Nat /\ x.dropped_count \in Nat
        /\ room.count \in Nat /\ room.dropped_count \in Nat
    BY DEF IsQueue
  <1>3. /\ r.q.count + r.q.dropped_count = x.count + x.dropped_count + 1
        /\ r.q.count <= x.count /\ r.q.count <= x.count + 1
    BY <1>1, <1>2
  <1>4. Pushed(x, r)
    BY <1>1, <1>3 DEF Pushed
  <1> QED BY <1>4 DEF r

\* Evicting from the ring loses one message when it is full.
LEMMA EvictSlotFact ==
    ASSUME NEW x, IsQueue(x), x.mode = "FIXED"
    PROVE  LET y == EvictSlot(x)
           IN  /\ IsQueue(y) /\ y.mode = x.mode
               /\ y.count + y.dropped_count = x.count + x.dropped_count
               /\ y.count <= x.count
PROOF
  <1>1. CASE x.count >= Capacity
    <2> DEFINE y == [x EXCEPT !.head = (@ + 1) % Capacity, !.count = @ - 1,
                              !.dropped_count = @ + 1]
    <2>1. /\ y.count = x.count - 1 /\ y.nodes = x.nodes /\ y.mode = x.mode
          /\ y.dropped_count = x.dropped_count + 1
          /\ DOMAIN y = Fields /\ y = [f \in Fields |-> y[f]]
      BY DEF IsQueue, Fields
    <2>2. EvictSlot(x) = y
      BY <1>1 DEF EvictSlot
    <2> HIDE DEF y
    <2>3. IsQueue(y)
      BY <1>1, <2>1, MpmcAssumption DEF IsQueue
    <2> QED BY <2>1, <2>2, <2>3 DEF IsQueue
  <1>2. CASE ~(x.count >= Capacity)
    <2>1. EvictSlot(x) = x
      BY <1>2 DEF EvictSlot
    <2>2. x.count <= x.count
      BY DEF IsQueue
    <2> QED BY <2>1, <2>2
  <1> QED BY <1>1, <1>2

\* Every push of a list keeps the counters together (DYNAMIC branch of the
\* pushes; back tells which end gets the message).
LEMMA PushDynamicFact ==
    ASSUME NEW x, IsQueue(x), x.mode = "DYNAMIC", NEW item \in Items,
           NEW alloc_ok \in BOOLEAN
    PROVE  /\ Pushed(x, mpmc_push_back_locked(x, item, alloc_ok))
           /\ Pushed(x, mpmc_push_front_locked(x, item, alloc_ok))
PROOF
  <1> DEFINE needed == Needed(item)
             room == RoomFor(x, item)
             back == [room EXCEPT !.nodes = Append(@, item)]
             front == [room EXCEPT !.nodes = <<item>> \o @]
             Done(r) == [ok |-> TRUE,
                         q |-> [r EXCEPT !.count = @ + 1,
                                         !.current_bytes = @ + needed]]
             Result(r) == IF needed > MaxBytes THEN Refused(x)
                          ELSE IF room.current_bytes + needed > MaxBytes \/ ~alloc_ok
                          THEN Refused(room) ELSE Done(r)
  <1>1. /\ mpmc_push_back_locked(x, item, alloc_ok) = Result(back)
        /\ mpmc_push_front_locked(x, item, alloc_ok) = Result(front)
    BY DEF mpmc_push_back_locked, mpmc_push_front_locked, push_dynamic
  <1>2. /\ IsQueue(room) /\ room.mode = x.mode
        /\ room.count + room.dropped_count = x.count + x.dropped_count
        /\ room.count <= x.count
    <2>1. CASE x.full_policy = "DROP_LAST"
      BY <2>1, EvictNodesFact DEF RoomFor
    <2>2. CASE x.full_policy # "DROP_LAST"
      BY <2>2 DEF IsQueue, RoomFor
    <2> QED BY <2>1, <2>2
  <1> HIDE DEF room, needed
  <1>3. Pushed(x, Refused(x)) /\ Pushed(x, Refused(room))
    <2>1. x.count <= x.count
      BY DEF IsQueue
    <2> QED BY <1>2, <2>1, RefusedPushed
  <1>4. ASSUME NEW r, DOMAIN r = Fields, r = [f \in Fields |-> r[f]],
               r.nodes \in Seq(Items), Len(r.nodes) = Len(room.nodes) + 1,
               r.count = room.count, r.dropped_count = room.dropped_count,
               r.mode = x.mode
        PROVE  Pushed(x, Done(r))
    <2> DEFINE y == [r EXCEPT !.count = @ + 1, !.current_bytes = @ + needed]
    <2>1. /\ y.count = room.count + 1 /\ y.nodes = r.nodes /\ y.mode = x.mode
          /\ y.dropped_count = room.dropped_count
          /\ DOMAIN y = Fields /\ y = [f \in Fields |-> y[f]]
      BY <1>4 DEF Fields
    <2>2. Done(r).q = y /\ Done(r).ok = TRUE
      OBVIOUS
    <2> HIDE DEF y
    <2>3. room.count = Len(room.nodes) /\ room.count \in Nat
          /\ room.dropped_count \in Nat /\ x.count \in Nat /\ x.dropped_count \in Nat
      BY <1>2 DEF IsQueue
    <2>4. IsQueue(y)
      BY <1>4, <2>1, <2>3 DEF IsQueue
    <2>5. /\ y.count + y.dropped_count = x.count + x.dropped_count + 1
          /\ y.count <= x.count + 1
      BY <1>2, <2>1, <2>3
    <2> HIDE DEF Done
    <2> QED BY <2>1, <2>2, <2>4, <2>5 DEF Pushed
  <1>5. Pushed(x, Done(back))
    <2>1. /\ back.nodes = Append(room.nodes, item) /\ back.mode = x.mode
          /\ back.count = room.count /\ back.dropped_count = room.dropped_count
          /\ DOMAIN back = Fields /\ back = [f \in Fields |-> back[f]]
      BY <1>2 DEF IsQueue, Fields
    <2>2. room.nodes \in Seq(Items)
      BY <1>2 DEF IsQueue
    <2>3. /\ Append(room.nodes, item) \in Seq(Items)
          /\ Len(Append(room.nodes, item)) = Len(room.nodes) + 1
      BY <2>2
    <2> HIDE DEF back, Done
    <2> QED BY <1>4, <2>1, <2>3
  <1>6. Pushed(x, Done(front))
    <2>1. /\ front.nodes = <<item>> \o room.nodes /\ front.mode = x.mode
          /\ front.count = room.count /\ front.dropped_count = room.dropped_count
          /\ DOMAIN front = Fields /\ front = [f \in Fields |-> front[f]]
      BY <1>2 DEF IsQueue, Fields
    <2>2. room.nodes \in Seq(Items)
      BY <1>2 DEF IsQueue
    <2>3. /\ <<item>> \o room.nodes \in Seq(Items)
          /\ Len(<<item>> \o room.nodes) = Len(room.nodes) + 1
      BY <2>2
    <2> HIDE DEF front, Done
    <2> QED BY <1>4, <2>1, <2>3
  <1> HIDE DEF Done, back, front
  <1> QED BY <1>1, <1>3, <1>5, <1>6

\* Every push of a ring keeps the counters together (FIXED branch).
LEMMA PushFixedFact ==
    ASSUME NEW x, IsQueue(x), x.mode = "FIXED", NEW item, NEW alloc_ok
    PROVE  /\ Pushed(x, mpmc_push_back_locked(x, item, alloc_ok))
           /\ Pushed(x, mpmc_push_front_locked(x, item, alloc_ok))
PROOF
  <1> DEFINE room == EvictSlot(x)
             head == IF room.head = 0 THEN Capacity - 1 ELSE room.head - 1
             back == [room EXCEPT !.items[room.tail] = item,
                                  !.tail = (@ + 1) % Capacity, !.count = @ + 1]
             front == [room EXCEPT !.items[head] = item, !.head = head,
                                   !.count = @ + 1]
             Result(y) == IF x.count >= Capacity /\ x.full_policy = "DROP_NEW"
                          THEN Refused(x) ELSE [ok |-> TRUE, q |-> y]
  <1>1. /\ mpmc_push_back_locked(x, item, alloc_ok) = Result(back)
        /\ mpmc_push_front_locked(x, item, alloc_ok) = Result(front)
    BY DEF mpmc_push_back_locked, mpmc_push_front_locked, push_fixed
  <1>2. /\ IsQueue(room) /\ room.mode = x.mode
        /\ room.count + room.dropped_count = x.count + x.dropped_count
        /\ room.count <= x.count
    BY EvictSlotFact
  <1> HIDE DEF room
  <1>3. x.count \in Nat /\ x.dropped_count \in Nat
        /\ room.count \in Nat /\ room.dropped_count \in Nat
        /\ room.nodes \in Seq(Items)
    BY <1>2 DEF IsQueue
  <1>4. Pushed(x, Refused(x))
    BY <1>3, RefusedPushed
  <1>5. /\ back.count = room.count + 1 /\ back.dropped_count = room.dropped_count
        /\ back.nodes = room.nodes /\ back.mode = x.mode
        /\ DOMAIN back = Fields /\ back = [f \in Fields |-> back[f]]
    BY <1>2 DEF IsQueue, Fields
  <1>6. /\ front.count = room.count + 1 /\ front.dropped_count = room.dropped_count
        /\ front.nodes = room.nodes /\ front.mode = x.mode
        /\ DOMAIN front = Fields /\ front = [f \in Fields |-> front[f]]
    BY <1>2 DEF IsQueue, Fields
  <1> HIDE DEF head, back, front
  <1>7. IsQueue(back) /\ IsQueue(front)
    BY <1>3, <1>5, <1>6 DEF IsQueue
  <1>8. Pushed(x, [ok |-> TRUE, q |-> back]) /\ Pushed(x, [ok |-> TRUE, q |-> front])
    BY <1>2, <1>3, <1>5, <1>6, <1>7 DEF Pushed
  <1> QED BY <1>1, <1>4, <1>8

\* A push succeeds and adds at most one message, or fails and adds none; the
\* messages lost are counted.
LEMMA PushFact ==
    ASSUME NEW x, IsQueue(x), NEW item \in Items, NEW alloc_ok \in BOOLEAN
    PROVE  /\ Pushed(x, mpmc_push_back_locked(x, item, alloc_ok))
           /\ Pushed(x, mpmc_push_front_locked(x, item, alloc_ok))
  BY PushDynamicFact, PushFixedFact DEF IsQueue, MemoryModes

\* A pop takes one message (mpmc_pop_head_locked).
LEMMA PopFact ==
    ASSUME NEW x, IsQueue(x), x.count > 0
    PROVE  LET y == mpmc_pop_head_locked(x).q
           IN  IsQueue(y) /\ y.count = x.count - 1 /\ y.mode = x.mode
               /\ y.dropped_count = x.dropped_count
PROOF
  <1>1. CASE x.mode = "FIXED"
    <2> DEFINE y == [x EXCEPT !.head = (@ + 1) % Capacity, !.count = @ - 1]
    <2>1. mpmc_pop_head_locked(x).q = y
      BY <1>1 DEF mpmc_pop_head_locked
    <2>2. /\ y.count = x.count - 1 /\ y.dropped_count = x.dropped_count
          /\ y.nodes = x.nodes /\ y.mode = x.mode
          /\ DOMAIN y = Fields /\ y = [f \in Fields |-> y[f]]
      BY DEF IsQueue, Fields
    <2> HIDE DEF y
    <2>3. IsQueue(y)
      BY <1>1, <2>2 DEF IsQueue
    <2> QED BY <2>1, <2>2, <2>3
  <1>2. CASE x.mode = "DYNAMIC"
    <2> DEFINE y == [x EXCEPT !.nodes = Tail(@), !.count = @ - 1,
                              !.current_bytes = @ - Needed(Head(x.nodes))]
    <2>1. mpmc_pop_head_locked(x).q = y
      BY <1>2 DEF mpmc_pop_head_locked
    <2>2. /\ y.count = x.count - 1 /\ y.dropped_count = x.dropped_count
          /\ y.nodes = Tail(x.nodes) /\ y.mode = x.mode
          /\ DOMAIN y = Fields /\ y = [f \in Fields |-> y[f]]
      BY DEF IsQueue, Fields
    <2> HIDE DEF y
    <2>3. x.nodes \in Seq(Items) /\ x.nodes # <<>> /\ x.count = Len(x.nodes)
      BY <1>2 DEF IsQueue
    <2>4. Tail(x.nodes) \in Seq(Items) /\ Len(Tail(x.nodes)) = Len(x.nodes) - 1
      BY <2>3
    <2>5. IsQueue(y)
      BY <1>2, <2>2, <2>3, <2>4 DEF IsQueue
    <2> QED BY <2>1, <2>2, <2>5
  <1> QED BY <1>1, <1>2 DEF IsQueue, MemoryModes

-----------------------------------------------------------------------------
PCs == {"out", "blocked", "signaled", "timed_out"}

\* The part of the invariant that is about messages ...
MessageInv ==
    /\ IsQueue(q)
    /\ pushes \in 0 .. MaxPushes /\ popped \in Nat
    /\ Conservation

\* ... and the part about readers.
ReaderInv ==
    /\ pc \in [Readers -> PCs]
    /\ gen \in [Readers -> Nat] /\ wake_generation \in Nat
    /\ NoLostWakeup
    /\ WakeAllReachesAll

RecvInv == MessageInv /\ ReaderInv

\* The queue is empty and nobody is inside pop_wait at first (rel4u_mpmc_init).
LEMMA RecvInit == Init => RecvInv
PROOF
  <1> SUFFICES ASSUME Init PROVE RecvInv
    OBVIOUS
  <1>1. IsQueue(q) /\ q.count = 0 /\ q.dropped_count = 0
    <2>1. PICK mode \in MemoryModes, full_policy \in FullPolicies :
            q = mpmc_init(mode, full_policy)
      BY DEF Init
    <2>2. /\ q.mode \in MemoryModes
          /\ DOMAIN q = Fields /\ q = [f \in Fields |-> q[f]]
          /\ q.count = 0 /\ q.dropped_count = 0 /\ q.nodes = <<>>
      BY <2>1 DEF mpmc_init, Fields
    <2>3. <<>> \in Seq(Items) /\ Len(<<>>) = 0
      OBVIOUS
    <2>4. q.nodes \in Seq(Items) /\ Len(q.nodes) = 0
      BY <2>2, <2>3, Zenon
    <2> QED BY <2>2, <2>4 DEF IsQueue
  <1>2. MessageInv
    BY <1>1, ThreadsAssumption DEF Init, MessageInv, Conservation
  <1>3. ReaderInv
    BY DEF Init, ReaderInv, NoLostWakeup, WakeAllReachesAll, Blocked, PCs
  <1> QED BY <1>2, <1>3 DEF RecvInv

\* A push, by whichever function, conserves the messages.
LEMMA PushStep ==
    ASSUME MessageInv, NEW r, Pushed(q, r), Push(r)
    PROVE  MessageInv'
PROOF
  <1>1. q' = r.q /\ pushes' = pushes + 1 /\ popped' = popped /\ pushes < MaxPushes
    BY DEF Push
  <1>2. q.count \in Nat /\ q.dropped_count \in Nat
    BY DEF MessageInv, IsQueue
  <1>3. IsQueue(q') /\ q'.count \in Nat /\ q'.dropped_count \in Nat
    BY <1>1 DEF Pushed, IsQueue
  <1>4. q'.count + q'.dropped_count = q.count + q.dropped_count + 1
    BY <1>1 DEF Pushed
  <1>5. pushes' \in 0 .. MaxPushes /\ popped' \in Nat
    BY <1>1, ThreadsAssumption DEF MessageInv
  <1>6. Conservation'
    BY <1>1, <1>2, <1>3, <1>4 DEF MessageInv, Conservation
  <1> QED BY <1>3, <1>5, <1>6 DEF MessageInv

\* A pop conserves the messages.
LEMMA PopStep ==
    ASSUME MessageInv, PopHead, UNCHANGED pushes
    PROVE  MessageInv' /\ q'.count = q.count - 1 /\ q.count \in Nat /\ q.count > 0
PROOF
  <1>1. q.count > 0 /\ q' = mpmc_pop_head_locked(q).q /\ popped' = popped + 1
    BY DEF PopHead
  <1>2. IsQueue(q') /\ q'.count = q.count - 1 /\ q'.dropped_count = q.dropped_count
    BY <1>1, PopFact DEF MessageInv
  <1>3. q.count \in Nat /\ q.dropped_count \in Nat
    BY DEF MessageInv, IsQueue
  <1> QED BY <1>1, <1>2, <1>3 DEF MessageInv, Conservation

\* Messages are conserved by every step of either use of the queue.
LEMMA MessageStep ==
    MessageInv /\ ([SendNext]_vars \/ [RecvNext]_vars) => MessageInv'
PROOF
  <1> SUFFICES ASSUME MessageInv, [SendNext]_vars \/ [RecvNext]_vars
               PROVE  MessageInv'
    OBVIOUS
  <1>1. ASSUME UNCHANGED <<q, pushes, popped>> PROVE MessageInv'
    BY <1>1 DEF MessageInv, Conservation, IsQueue
  <1>2. ASSUME NEW alloc_ok \in AllocResults,
               TryPush(alloc_ok) \/ PushFront(alloc_ok) \/ PushNotify(alloc_ok)
        PROVE  MessageInv'
    <2> DEFINE back == mpmc_push_back_locked(q, pushes + 1, alloc_ok)
               front == mpmc_push_front_locked(q, pushes + 1, alloc_ok)
    <2>1. Push(back) \/ Push(front)
      BY <1>2 DEF TryPush, PushFront, PushNotify
    <2>2. pushes + 1 \in Items /\ alloc_ok \in BOOLEAN /\ IsQueue(q)
      <3> HIDE DEF back, front
      <3>1. pushes < MaxPushes /\ pushes \in 0 .. MaxPushes
        BY <2>1 DEF Push, MessageInv
      <3>2. alloc_ok \in BOOLEAN
        BY <1>2 DEF AllocResults
      <3> QED BY <3>1, <3>2, ThreadsAssumption DEF MessageInv
    <2>3. Pushed(q, back) /\ Pushed(q, front)
      BY <2>2, PushFact
    <2> HIDE DEF back, front
    <2> QED BY <2>1, <2>3, PushStep
  <1>3. ASSUME PopHead, UNCHANGED pushes PROVE MessageInv'
    BY <1>3, PopStep
  <1>4. CASE SendNext
    BY <1>2, <1>3, <1>4 DEF SendNext, TryPop
  <1>5. CASE RecvNext
    <2>1. ASSUME NEW r \in Readers, ReaderStep(r) PROVE MessageInv'
      BY <1>1, <1>3, <2>1
         DEF ReaderStep, PopWaitNow, PopWaitBlock, ResumePop, ResumeReturn,
             ResumeSleep, WaitTimesOut, SpuriousWakeup
    <2> QED BY <1>1, <1>2, <1>3, <1>5, <2>1 DEF RecvNext, TryPop, WakeAll, Tick
  <1>6. CASE UNCHANGED vars
    BY <1>1, <1>6 DEF vars
  <1> QED BY <1>4, <1>5, <1>6

\* The sets of readers are finite.
LEMMA WokenFinite ==
    /\ IsFiniteSet(Woken) /\ Cardinality(Woken) \in Nat
    /\ IsFiniteSet(Woken') /\ Cardinality(Woken') \in Nat
PROOF
  <1>1. Woken \in SUBSET Readers /\ Woken' \in SUBSET Readers
    BY DEF Woken
  <1>2. IsFiniteSet(Readers)
    BY ThreadsAssumption
  <1>3. IsFiniteSet(Woken) /\ IsFiniteSet(Woken')
    BY <1>1, <1>2, FS_Subset
  <1> QED BY <1>3, FS_CardinalityType

\* A reader that wakes up joins the woken ones.
LEMMA WakeOne ==
    ASSUME ReaderInv, NEW r \in Blocked, NEW v \in {"signaled", "timed_out"},
           pc' = [pc EXCEPT ![r] = v]
    PROVE  /\ Cardinality(Woken') = Cardinality(Woken) + 1
           /\ Blocked' \subseteq Blocked
           /\ pc' \in [Readers -> PCs]
PROOF
  <1>1. Woken' = Woken \cup {r} /\ r \notin Woken
    BY DEF Woken, Blocked, ReaderInv, PCs
  <1>2. Cardinality(Woken') = Cardinality(Woken) + 1
    BY <1>1, WokenFinite, FS_AddElement
  <1> QED BY <1>2 DEF Blocked, ReaderInv, PCs

\* No lost wake-up over a step that adds no message and wakes nobody.
LEMMA NoNewMessage ==
    ASSUME MessageInv, MessageInv', ReaderInv, q'.count <= q.count,
           UNCHANGED <<pc, gen, wake_generation>>
    PROVE  ReaderInv'
PROOF
  <1>1. Woken' = Woken /\ Blocked' = Blocked
    BY DEF Woken, Blocked
  <1>2. q.count \in Nat /\ q'.count \in Nat
    BY DEF MessageInv, IsQueue
  <1>3. NoLostWakeup'
    BY <1>1, <1>2, WokenFinite DEF ReaderInv, NoLostWakeup
  <1>4. WakeAllReachesAll'
    BY <1>1 DEF ReaderInv, WakeAllReachesAll
  <1> QED BY <1>3, <1>4 DEF ReaderInv

\* A push wakes a reader for the message it adds (rel4u_mpmc_push_notify).
LEMMA PushNotifyReader ==
    ASSUME MessageInv, ReaderInv, MessageInv', NEW alloc_ok \in AllocResults,
           PushNotify(alloc_ok)
    PROVE  ReaderInv'
PROOF
  <1> DEFINE r == mpmc_push_back_locked(q, pushes + 1, alloc_ok)
  <1>1. /\ Push(r)
        /\ IF r.ok THEN Signal ELSE UNCHANGED readerVars
    BY DEF PushNotify
  <1>2. pushes + 1 \in Items /\ alloc_ok \in BOOLEAN /\ IsQueue(q)
    <2> HIDE DEF r
    <2>1. pushes < MaxPushes /\ pushes \in 0 .. MaxPushes
      BY <1>1 DEF Push, MessageInv
    <2>2. alloc_ok \in BOOLEAN
      BY DEF AllocResults
    <2> QED BY <2>1, <2>2, ThreadsAssumption DEF MessageInv
  <1>3. Pushed(q, r)
    BY <1>2, PushFact
  <1> HIDE DEF r
  <1>4. q' = r.q /\ wake_generation' = wake_generation
    BY <1>1 DEF Push
  <1>5. q.count \in Nat /\ q'.count \in Nat /\ q'.count <= q.count + 1
        /\ (~r.ok => q'.count <= q.count)
    BY <1>3, <1>4 DEF MessageInv, Pushed, IsQueue
  <1>6. CASE ~r.ok
    <2>1. UNCHANGED <<pc, gen, wake_generation>> /\ q'.count <= q.count
      BY <1>1, <1>4, <1>5, <1>6 DEF readerVars
    <2> QED BY <2>1, NoNewMessage
  <1>7. CASE r.ok /\ Blocked = {}
    <2>1. UNCHANGED <<pc, gen, wake_generation>>
      BY <1>1, <1>4, <1>7 DEF Signal
    <2>2. Blocked' = {}
      BY <1>7, <2>1 DEF Blocked
    <2> QED BY <2>1, <2>2 DEF ReaderInv, NoLostWakeup, WakeAllReachesAll
  <1>8. CASE r.ok /\ Blocked # {}
    <2>1. PICK w \in Blocked : pc' = [pc EXCEPT ![w] = "signaled"]
      BY <1>1, <1>8 DEF Signal
    <2>2. UNCHANGED <<gen, wake_generation>>
      BY <1>1, <1>4, <1>8 DEF Signal
    <2>3. /\ Cardinality(Woken') = Cardinality(Woken) + 1
          /\ Blocked' \subseteq Blocked /\ pc' \in [Readers -> PCs]
      BY <2>1, WakeOne
    <2>4. q.count <= Cardinality(Woken)
      BY <1>8 DEF ReaderInv, NoLostWakeup
    <2>5. NoLostWakeup'
      BY <1>5, <2>3, <2>4, WokenFinite DEF NoLostWakeup
    <2>6. WakeAllReachesAll'
      BY <2>2, <2>3 DEF ReaderInv, WakeAllReachesAll
    <2> QED BY <2>2, <2>3, <2>5, <2>6 DEF ReaderInv
  <1> QED BY <1>6, <1>7, <1>8

\* The steps of a reader in and around pop_wait (rel4u_mpmc_pop_wait).
LEMMA ReaderStepReader ==
    ASSUME MessageInv, ReaderInv, MessageInv', NEW r \in Readers, ReaderStep(r)
    PROVE  ReaderInv'
PROOF
  <1>1. q.count \in Nat /\ q'.count \in Nat
    BY DEF MessageInv, IsQueue
  <1>2. CASE PopWaitNow(r)
    <2>1. UNCHANGED <<pc, gen, wake_generation>>
      BY <1>2 DEF PopWaitNow, readerVars
    <2>2. q'.count = q.count - 1
      BY <1>2, PopStep DEF PopWaitNow
    <2> QED BY <1>1, <2>1, <2>2, NoNewMessage
  <1>3. ASSUME q'.count = 0, UNCHANGED wake_generation,
               pc' \in [Readers -> PCs], gen' \in [Readers -> Nat],
               \A x \in Blocked' : gen'[x] = wake_generation
        PROVE  ReaderInv'
    BY <1>3, WokenFinite DEF ReaderInv, NoLostWakeup, WakeAllReachesAll
  <1>4. CASE \E k \in {"timed", "forever"} : PopWaitBlock(r, k)
    <2>1. /\ q'.count = 0 /\ UNCHANGED wake_generation
          /\ pc' = [pc EXCEPT ![r] = "blocked"]
          /\ gen' = [gen EXCEPT ![r] = wake_generation]
      BY <1>4 DEF PopWaitBlock, Sleep
    <2>2. pc' \in [Readers -> PCs] /\ gen' \in [Readers -> Nat]
      BY <2>1 DEF ReaderInv, PCs
    <2>3. \A x \in Blocked' : gen'[x] = wake_generation
      BY <2>1 DEF ReaderInv, WakeAllReachesAll, Blocked
    <2> QED BY <1>3, <2>1, <2>2, <2>3
  <1>5. CASE ResumeSleep(r)
    <2>1. /\ q'.count = 0 /\ UNCHANGED <<gen, wake_generation>>
          /\ pc' = [pc EXCEPT ![r] = "blocked"]
          /\ gen[r] = wake_generation
      BY <1>5 DEF ResumeSleep, Sleep, GivesUp
    <2>2. pc' \in [Readers -> PCs] /\ gen' \in [Readers -> Nat]
      BY <2>1 DEF ReaderInv, PCs
    <2>3. \A x \in Blocked' : gen'[x] = wake_generation
      BY <2>1 DEF ReaderInv, WakeAllReachesAll, Blocked
    <2> QED BY <1>3, <2>1, <2>2, <2>3
  <1>6. CASE ResumeReturn(r)
    <2>1. /\ q'.count = 0 /\ UNCHANGED <<gen, wake_generation>>
          /\ pc' = [pc EXCEPT ![r] = "out"]
      BY <1>6 DEF ResumeReturn
    <2>2. pc' \in [Readers -> PCs] /\ gen' \in [Readers -> Nat]
      BY <2>1 DEF ReaderInv, PCs
    <2>3. \A x \in Blocked' : gen'[x] = wake_generation
      BY <2>1 DEF ReaderInv, WakeAllReachesAll, Blocked
    <2> QED BY <1>3, <2>1, <2>2, <2>3
  <1>7. CASE ResumePop(r)
    <2>1. /\ r \in Woken /\ UNCHANGED <<gen, wake_generation>>
          /\ pc' = [pc EXCEPT ![r] = "out"]
      BY <1>7 DEF ResumePop
    <2>2. q'.count = q.count - 1
      BY <1>7, PopStep DEF ResumePop
    <2>3. Woken' = Woken \ {r} /\ Blocked' = Blocked
      BY <2>1 DEF Woken, Blocked, ReaderInv
    <2>4. Cardinality(Woken') = Cardinality(Woken) - 1
      BY <2>1, <2>3, WokenFinite, FS_RemoveElement
    <2>5. NoLostWakeup'
      BY <1>1, <2>2, <2>3, <2>4, WokenFinite DEF ReaderInv, NoLostWakeup
    <2>6. WakeAllReachesAll'
      BY <2>1, <2>3 DEF ReaderInv, WakeAllReachesAll
    <2>7. pc' \in [Readers -> PCs]
      BY <2>1 DEF ReaderInv, PCs
    <2> QED BY <2>1, <2>5, <2>6, <2>7 DEF ReaderInv
  <1>8. CASE WaitTimesOut(r) \/ SpuriousWakeup(r)
    <2>1. /\ r \in Blocked /\ UNCHANGED <<q, gen, wake_generation>>
          /\ \E v \in {"signaled", "timed_out"} : pc' = [pc EXCEPT ![r] = v]
      BY <1>8 DEF WaitTimesOut, SpuriousWakeup, Blocked
    <2>2. /\ Cardinality(Woken') = Cardinality(Woken) + 1
          /\ Blocked' \subseteq Blocked /\ pc' \in [Readers -> PCs]
      BY <2>1, WakeOne
    <2>3. NoLostWakeup'
      BY <1>1, <2>1, <2>2, WokenFinite DEF ReaderInv, NoLostWakeup
    <2>4. WakeAllReachesAll'
      BY <2>1, <2>2 DEF ReaderInv, WakeAllReachesAll
    <2> QED BY <2>1, <2>2, <2>3, <2>4 DEF ReaderInv
  <1> QED BY <1>2, <1>4, <1>5, <1>6, <1>7, <1>8 DEF ReaderStep

\* Every step of a receive queue keeps the readers' invariant.
LEMMA ReaderInvStep ==
    MessageInv /\ ReaderInv /\ MessageInv' /\ [RecvNext]_vars => ReaderInv'
PROOF
  <1> SUFFICES ASSUME MessageInv, ReaderInv, MessageInv', [RecvNext]_vars
               PROVE  ReaderInv'
    OBVIOUS
  <1>1. q.count \in Nat /\ q'.count \in Nat
    BY DEF MessageInv, IsQueue
  <1>2. CASE TryPop
    <2>1. UNCHANGED <<pc, gen, wake_generation>> /\ q'.count = q.count - 1
      BY <1>2, PopStep DEF TryPop, readerVars
    <2> QED BY <1>1, <2>1, NoNewMessage
  <1>3. CASE WakeAll
    <2>1. pc' = [r \in Readers |-> IF r \in Blocked THEN "signaled" ELSE pc[r]]
      BY <1>3 DEF WakeAll
    <2>2. Blocked' = {} /\ pc' \in [Readers -> PCs]
      BY <2>1 DEF Blocked, ReaderInv, PCs
    <2>3. wake_generation' \in Nat /\ gen' \in [Readers -> Nat]
      BY <1>3 DEF WakeAll, ReaderInv
    <2> QED BY <2>2, <2>3 DEF ReaderInv, NoLostWakeup, WakeAllReachesAll
  <1>4. CASE Tick \/ UNCHANGED vars
    <2>1. UNCHANGED <<q, pc, gen, wake_generation>>
      BY <1>4 DEF Tick, vars, readerVars
    <2> QED BY <1>1, <2>1, NoNewMessage
  <1> QED BY <1>2, <1>3, <1>4, PushNotifyReader, ReaderStepReader DEF RecvNext

\* The invariant of the receive queue, for any number of readers.
THEOREM RecvInvariant == RecvSpec => []RecvInv
PROOF
  <1>1. RecvInv /\ [RecvNext]_vars => RecvInv'
    BY MessageStep, ReaderInvStep DEF RecvInv
  <1> QED BY <1>1, RecvInit, PTL DEF RecvSpec

\* While readers sleep in pop_wait, every queued message has a reader that is
\* awake to fetch it: signalling one reader per push is enough, whatever
\* messages are stolen, evicted or refused.
THEOREM NoWakeupLost == RecvSpec => []NoLostWakeup
  BY RecvInvariant, PTL DEF RecvInv, ReaderInv

\* A reader asleep in pop_wait entered it after the latest wake_all.
THEOREM WakeAllReaches == RecvSpec => []WakeAllReachesAll
  BY RecvInvariant, PTL DEF RecvInv, ReaderInv

\* Every message pushed to a receive queue is popped, queued or counted as
\* dropped, in both kinds of memory and under both full policies.
THEOREM RecvConservation == RecvSpec => []Conservation
  BY RecvInvariant, PTL DEF RecvInv, MessageInv

\* The same for the send queue, with its push_front.
THEOREM SendConservation == SendSpec => []Conservation
PROOF
  <1>1. Init => MessageInv
    BY RecvInit DEF RecvInv
  <1>2. MessageInv /\ [SendNext]_vars => MessageInv'
    BY MessageStep
  <1>3. MessageInv => Conservation
    BY DEF MessageInv
  <1> QED BY <1>1, <1>2, <1>3, PTL DEF SendSpec

-----------------------------------------------------------------------------
(* The ring of FIXED memory *)

\* head, tail and count agree; tail is (head + count) % Capacity.
Ring(x) ==
    /\ x \in QueueType
    /\ x.count <= Capacity
    /\ x.tail = IF x.head + x.count < Capacity
                THEN x.head + x.count ELSE (x.head + x.count) - Capacity

Succ(h) == IF h + 1 = Capacity THEN 0 ELSE h + 1

\* The capacity of a ring, and what the wrapping of its indices computes.
LEMMA RingIndex ==
    /\ Capacity \in Nat /\ Capacity >= 2
    /\ \A h \in Indices : h \in 0 .. (Capacity - 1)
    /\ \A h \in Indices : (h + 1) % Capacity = Succ(h) /\ Succ(h) \in Indices
    /\ \A h \in Indices, c \in 0 .. Capacity :
         (h + c) % Capacity = IF h + c < Capacity THEN h + c ELSE (h + c) - Capacity
PROOF
  <1>1. Capacity \in Nat /\ Capacity >= 2
    BY MpmcAssumption
  <1>2. ASSUME NEW h \in Indices, NEW c \in 0 .. Capacity
        PROVE  (h + c) % Capacity =
                 IF h + c < Capacity THEN h + c ELSE (h + c) - Capacity
    <2> DEFINE a == h + c
    <2>1. a \in 0 .. (2 * Capacity) /\ a < 2 * Capacity
      BY <1>1 DEF Indices
    <2> HIDE DEF a
    <2>2. a % Capacity = IF a < Capacity THEN a
                         ELSE IF a < 2 * Capacity THEN a - Capacity ELSE 0
      <3>1. Capacity \in Nat \ {0}
        BY <1>1
      <3> QED BY <2>1, <3>1, ModSmall
    <2>3. a % Capacity = IF a < Capacity THEN a ELSE a - Capacity
      BY <2>1, <2>2
    <2> QED BY <2>3 DEF a
  <1>3. ASSUME NEW h \in Indices
        PROVE  (h + 1) % Capacity = Succ(h) /\ Succ(h) \in Indices
    <2> DEFINE next == (h + 1) % Capacity
    <2>1. next = IF h + 1 < Capacity THEN h + 1 ELSE (h + 1) - Capacity
      BY <1>1, <1>2
    <2> HIDE DEF next
    <2>2. next = Succ(h) /\ Succ(h) \in Indices
      BY <1>1, <2>1 DEF Indices, Succ
    <2> QED BY <2>2 DEF next
  <1> QED BY <1>1, <1>2, <1>3 DEF Indices

\* head, tail and count stay together over an eviction.
LEMMA RingEvict ==
    ASSUME NEW x, Ring(x)
    PROVE  Ring(EvictSlot(x)) /\ EvictSlot(x).count < Capacity
PROOF
  <1>1. x \in QueueType /\ Capacity \in Nat /\ Capacity >= 2
    BY RingIndex DEF Ring
  <1>2. /\ x.head \in Indices /\ x.tail \in Indices /\ x.count \in Nat
        /\ x.dropped_count \in Nat
    BY <1>1 DEF QueueType
  <1>3. CASE x.count >= Capacity
    <2> DEFINE y == [x EXCEPT !.head = Succ(x.head), !.count = x.count - 1,
                              !.dropped_count = x.dropped_count + 1]
    <2>1. EvictSlot(x) = y
      BY <1>2, <1>3, RingIndex DEF EvictSlot
    <2>2. Succ(x.head) \in Indices /\ x.head \in 0 .. (Capacity - 1)
      BY <1>2, RingIndex
    <2>3. x.count = Capacity /\ x.tail = x.head
      BY <1>1, <1>2, <1>3, <2>2 DEF Ring
    <2>4. y \in QueueType
      <3>1. x.count - 1 \in Nat /\ x.dropped_count + 1 \in Nat
        BY <1>1, <1>2, <2>3
      <3> QED BY <1>1, <2>2, <3>1 DEF QueueType
    <2>5. y.head = Succ(x.head) /\ y.count = x.count - 1 /\ y.tail = x.tail
      BY <1>1 DEF QueueType
    <2> HIDE DEF y
    <2>6. /\ y.count < Capacity
          /\ y.tail = IF y.head + y.count < Capacity
                      THEN y.head + y.count ELSE (y.head + y.count) - Capacity
      BY <1>1, <2>2, <2>3, <2>5 DEF Succ
    <2>7. y.count <= Capacity
      BY <1>1, <2>3, <2>5
    <2> QED BY <2>1, <2>4, <2>6, <2>7 DEF Ring
  <1>4. CASE ~(x.count >= Capacity)
    <2>1. EvictSlot(x) = x
      BY <1>4 DEF EvictSlot
    <2> QED BY <1>1, <1>2, <1>4, <2>1
  <1> QED BY <1>3, <1>4

\* Pushes of the ring (FIXED branch of mpmc_push_back_locked, ..front_locked).
LEMMA RingPush ==
    ASSUME NEW x, Ring(x), x.mode = "FIXED", NEW item \in Items, NEW alloc_ok
    PROVE  /\ Ring(mpmc_push_back_locked(x, item, alloc_ok).q)
           /\ Ring(mpmc_push_front_locked(x, item, alloc_ok).q)
PROOF
  <1> DEFINE room == EvictSlot(x)
             next == (room.tail + 1) % Capacity
             prev == IF room.head = 0 THEN Capacity - 1 ELSE room.head - 1
             back == [room EXCEPT !.items[room.tail] = item, !.tail = next,
                                  !.count = @ + 1]
             front == [room EXCEPT !.items[prev] = item, !.head = prev,
                                   !.count = @ + 1]
             Result(y) == IF x.count >= Capacity /\ x.full_policy = "DROP_NEW"
                          THEN Refused(x) ELSE [ok |-> TRUE, q |-> y]
  <1>1. /\ mpmc_push_back_locked(x, item, alloc_ok) = Result(back)
        /\ mpmc_push_front_locked(x, item, alloc_ok) = Result(front)
    BY DEF mpmc_push_back_locked, mpmc_push_front_locked, push_fixed
  <1>2. Ring(room) /\ room.count < Capacity
    BY RingEvict
  <1> HIDE DEF room
  <1>3. room \in QueueType /\ Capacity \in Nat /\ Capacity >= 2
    BY <1>2, RingIndex DEF Ring
  <1>4. /\ room.head \in Indices /\ room.tail \in Indices /\ room.count \in Nat
        /\ room.count + 1 \in Nat
    BY <1>3 DEF QueueType
  <1>5. Ring(Refused(x).q)
    <2> DEFINE y == [x EXCEPT !.dropped_count = @ + 1]
    <2>1. Refused(x).q = y
      BY DEF Refused
    <2>2. x \in QueueType
      BY DEF Ring
    <2>3. /\ y \in QueueType
          /\ y.head = x.head /\ y.tail = x.tail /\ y.count = x.count
      BY <2>2 DEF QueueType
    <2> QED BY <2>1, <2>3 DEF Ring
  <1>6. Ring(back)
    <2>1. next = Succ(room.tail) /\ next \in Indices
      BY <1>4, RingIndex
    <2> HIDE DEF next
    <2>2. back \in QueueType
      BY <1>3, <1>4, <2>1 DEF QueueType
    <2>3. back.head = room.head /\ back.count = room.count + 1 /\ back.tail = next
      BY <1>3 DEF QueueType
    <2> HIDE DEF back
    <2>4. room.head \in 0 .. (Capacity - 1) /\ room.tail \in 0 .. (Capacity - 1)
      BY <1>4, RingIndex
    <2>5. /\ back.count <= Capacity
          /\ back.tail = IF back.head + back.count < Capacity
                         THEN back.head + back.count
                         ELSE (back.head + back.count) - Capacity
      BY <1>2, <1>3, <1>4, <2>1, <2>3, <2>4 DEF Ring, Succ
    <2> QED BY <2>2, <2>5 DEF Ring
  <1>7. Ring(front)
    <2>1. room.head \in 0 .. (Capacity - 1) /\ room.tail \in 0 .. (Capacity - 1)
      BY <1>4, RingIndex
    <2>2. prev \in Indices
      BY <1>3, <2>1 DEF Indices
    <2> HIDE DEF prev
    <2>3. front \in QueueType
      BY <1>3, <1>4, <2>2 DEF QueueType
    <2>4. /\ front.head = prev /\ front.count = room.count + 1
          /\ front.tail = room.tail
      BY <1>3 DEF QueueType
    <2> HIDE DEF front
    <2>5. /\ front.count <= Capacity
          /\ front.tail = IF front.head + front.count < Capacity
                          THEN front.head + front.count
                          ELSE (front.head + front.count) - Capacity
      BY <1>2, <1>3, <1>4, <2>1, <2>4 DEF Ring, prev
    <2> QED BY <2>3, <2>5 DEF Ring
  <1> HIDE DEF back, front
  <1> QED BY <1>1, <1>5, <1>6, <1>7

\* A pop from the ring (FIXED branch of mpmc_pop_head_locked).
LEMMA RingPop ==
    ASSUME NEW x, Ring(x), x.mode = "FIXED", x.count > 0
    PROVE  Ring(mpmc_pop_head_locked(x).q)
PROOF
  <1> DEFINE next == (x.head + 1) % Capacity
             y == [x EXCEPT !.head = next, !.count = @ - 1]
  <1>1. mpmc_pop_head_locked(x).q = y
    BY DEF mpmc_pop_head_locked
  <1>2. x \in QueueType /\ Capacity \in Nat /\ Capacity >= 2
    BY RingIndex DEF Ring
  <1>3. x.head \in Indices /\ x.tail \in Indices /\ x.count \in Nat
    BY <1>2 DEF QueueType
  <1>4. next = Succ(x.head) /\ next \in Indices /\ x.head \in 0 .. (Capacity - 1)
    BY <1>3, RingIndex
  <1> HIDE DEF next
  <1>5. x.count - 1 \in Nat
    BY <1>3
  <1>6. y \in QueueType
    BY <1>2, <1>4, <1>5 DEF QueueType
  <1>7. y.head = next /\ y.count = x.count - 1 /\ y.tail = x.tail
    BY <1>2 DEF QueueType
  <1> HIDE DEF y
  <1>8. /\ y.count <= Capacity
        /\ y.tail = IF y.head + y.count < Capacity
                    THEN y.head + y.count ELSE (y.head + y.count) - Capacity
    BY <1>2, <1>3, <1>4, <1>7 DEF Ring, Succ
  <1> QED BY <1>1, <1>6, <1>8 DEF Ring

\* A FIXED queue is a ring.
RingInv == MessageInv /\ (q.mode = "FIXED" => Ring(q))

\* An initialised queue is a ring with nothing in it (rel4u_mpmc_init).
LEMMA RingInit == Init => RingInv
PROOF
  <1> SUFFICES ASSUME Init PROVE RingInv
    OBVIOUS
  <1> PICK mode \in MemoryModes, full_policy \in FullPolicies :
        q = mpmc_init(mode, full_policy)
    BY DEF Init
  <1> DEFINE init == mpmc_init(mode, full_policy)
  <1>1. q = init /\ pushes \in 0 .. MaxPushes
    BY ThreadsAssumption DEF Init
  <1>2. Capacity \in Nat /\ Capacity >= 2 /\ 0 \in Indices
    BY RingIndex DEF Indices
  <1>3. init \in QueueType
    <2>1. <<>> \in Seq(Items)
      OBVIOUS
    <2>2. (IF mode = "FIXED" THEN MaxBytes ELSE 0) \in Nat
      BY MpmcAssumption
    <2> QED BY <1>2, <2>1, <2>2 DEF mpmc_init, QueueType
  <1>4. init.head = 0 /\ init.tail = 0 /\ init.count = 0
    BY DEF mpmc_init
  <1>5. Ring(q)
    BY <1>1, <1>2, <1>3, <1>4 DEF Ring
  <1> QED BY <1>5, RecvInit DEF RingInv, RecvInv

\* Every critical section of either use of the queue keeps the ring.
LEMMA RingStep ==
    ASSUME RingInv, [SendNext]_vars \/ [RecvNext]_vars
    PROVE  RingInv'
PROOF
  <1> SUFFICES (q.mode = "FIXED" => Ring(q))'
    BY MessageStep DEF RingInv
  <1>1. ASSUME UNCHANGED q PROVE (q.mode = "FIXED" => Ring(q))'
    BY <1>1 DEF RingInv, Ring, QueueType
  <1>2. ASSUME NEW alloc_ok \in AllocResults,
               TryPush(alloc_ok) \/ PushFront(alloc_ok) \/ PushNotify(alloc_ok)
        PROVE  (q.mode = "FIXED" => Ring(q))'
    <2> DEFINE back == mpmc_push_back_locked(q, pushes + 1, alloc_ok)
               front == mpmc_push_front_locked(q, pushes + 1, alloc_ok)
    <2>1. Push(back) \/ Push(front)
      BY <1>2 DEF TryPush, PushFront, PushNotify
    <2>2. pushes + 1 \in Items /\ alloc_ok \in BOOLEAN /\ IsQueue(q)
      <3> HIDE DEF back, front
      <3>1. pushes < MaxPushes /\ pushes \in 0 .. MaxPushes
        BY <2>1 DEF Push, RingInv, MessageInv
      <3>2. alloc_ok \in BOOLEAN
        BY <1>2 DEF AllocResults
      <3> QED BY <3>1, <3>2, ThreadsAssumption DEF RingInv, MessageInv
    <2>3. back.q.mode = q.mode /\ front.q.mode = q.mode
      BY <2>2, PushFact DEF Pushed
    <2>4. q.mode = "FIXED" => Ring(back.q) /\ Ring(front.q)
      BY <2>2, RingPush DEF RingInv
    <2> HIDE DEF back, front
    <2>5. q'.mode = "FIXED" => Ring(q')
      BY <2>1, <2>3, <2>4 DEF Push
    <2> QED BY <2>5 DEF Ring, QueueType
  <1>3. ASSUME PopHead PROVE (q.mode = "FIXED" => Ring(q))'
    <2> DEFINE y == mpmc_pop_head_locked(q).q
    <2>1. q' = y /\ q.count > 0 /\ IsQueue(q)
      BY <1>3 DEF PopHead, RingInv, MessageInv
    <2>2. y.mode = q.mode
      BY <2>1, PopFact
    <2>3. q.mode = "FIXED" => Ring(y)
      BY <2>1, RingPop DEF RingInv
    <2> HIDE DEF y
    <2>4. q'.mode = "FIXED" => Ring(q')
      BY <2>1, <2>2, <2>3
    <2> QED BY <2>4 DEF Ring, QueueType
  <1>4. CASE SendNext
    BY <1>2, <1>3, <1>4 DEF SendNext, TryPop
  <1>5. CASE RecvNext
    <2>1. CASE \E r \in Readers : ReaderStep(r)
      BY <1>1, <1>3, <2>1 DEF ReaderStep, PopWaitNow, PopWaitBlock, ResumePop,
         ResumeReturn, ResumeSleep, WaitTimesOut, SpuriousWakeup
    <2> QED BY <1>1, <1>2, <1>3, <1>5, <2>1 DEF RecvNext, TryPop, WakeAll, Tick
  <1> QED BY <1>1, <1>4, <1>5 DEF vars

\* head, tail and count of a FIXED queue stay consistent and count within the
\* capacity, over every sequence of pushes at both ends, evictions and pops.
THEOREM FixedQueueConsistent ==
    /\ SendSpec => [](q.mode = "FIXED" => QueueInv)
    /\ RecvSpec => [](q.mode = "FIXED" => QueueInv)
PROOF
  <1>1. RingInv => (q.mode = "FIXED" => QueueInv)
    <2> SUFFICES ASSUME RingInv, q.mode = "FIXED" PROVE QueueInv
      OBVIOUS
    <2>1. q \in QueueType /\ q.count <= Capacity
      BY DEF RingInv, Ring
    <2>2. q.head \in Indices /\ q.count \in 0 .. Capacity
      BY <2>1, RingIndex DEF QueueType
    <2> DEFINE t == (q.head + q.count) % Capacity
    <2>3. t = IF q.head + q.count < Capacity
              THEN q.head + q.count ELSE (q.head + q.count) - Capacity
      BY <2>2, RingIndex
    <2> HIDE DEF t
    <2>4. q.tail = t
      BY <2>3 DEF RingInv, Ring
    <2> QED BY <2>1, <2>4 DEF QueueInv, t
  <1>2. RingInv /\ [SendNext]_vars => RingInv'
    BY RingStep
  <1>3. RingInv /\ [RecvNext]_vars => RingInv'
    BY RingStep
  <1> QED BY <1>1, <1>2, <1>3, RingInit, PTL DEF SendSpec, RecvSpec
=============================================================================
