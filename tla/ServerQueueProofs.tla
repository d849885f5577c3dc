------------------------- MODULE ServerQueueProofs -------------------------
(***************************************************************************)
(* Proofs about the server's send path: a restarted server sends nothing   *)
(* of an earlier run, a session gets its messages in the order of the      *)
(* queue, and every message is handled once.  For any number of clients,   *)
(* messages and runs, every window size and every byte budget and full     *)
(* policy of the queue.                                                    *)
(***************************************************************************)
EXTENDS ServerQueue, ArithmeticLemmas, FiniteSetTheorems, SequenceTheorems

Fields == {"mode", "full_policy", "items", "head", "tail", "count",
           "nodes", "current_bytes", "dropped_count"}

\* A queue in DYNAMIC memory: it has count nodes.
IsList(x) ==
    /\ DOMAIN x = Fields /\ x = [f \in Fields |-> x[f]]
    /\ x.mode = "DYNAMIC"
    /\ x.nodes \in Seq(Nat)
    /\ x.count = Len(x.nodes)

\* Messages are queued in the order of their numbers.
Ascending(x) == \A i, j \in DOMAIN x.nodes : i < j => x.nodes[i] < x.nodes[j]

\* The messages in a queue in DYNAMIC memory are those of its nodes.
LEMMA ListContents ==
    ASSUME NEW x, IsList(x)
    PROVE  InQueue(x) = {x.nodes[i] : i \in DOMAIN x.nodes}
  BY DEF InQueue, Contents, IsList

\* Eviction leaves some of the messages, in their order (the loop of the DYNAMIC branch of
\* mpmc_push_back_locked).
LEMMA EvictKeeps ==
    ASSUME NEW x, IsList(x), NEW needed
    PROVE  LET y == EvictNodes(x, needed)
           IN  /\ IsList(y) /\ InQueue(y) \subseteq InQueue(x)
               /\ Ascending(x) => Ascending(y)
PROOF
  <1> DEFINE F(n) == x.current_bytes - BytesOf(SubSeq(x.nodes, 1, n)) + needed
                         <= MaxBytes
             N == {k \in 0 .. Len(x.nodes) : F(k) \/ k = Len(x.nodes)}
             n == Min(N)
  <1>1. Len(x.nodes) \in Nat
    BY DEF IsList
  <1>2. N \subseteq Nat /\ Len(x.nodes) \in N
    BY <1>1
  <1>3. n \in 0 .. Len(x.nodes)
    <2> HIDE DEF F
    <2>1. Min(N) \in N
      BY <1>2, MinNat
    <2> QED BY <2>1
  <1> DEFINE y == [x EXCEPT !.nodes = SubSeq(@, n + 1, Len(@)),
                            !.current_bytes = @ - BytesOf(SubSeq(x.nodes, 1, n)),
                            !.count = @ - n, !.dropped_count = @ + n]
  <1>4. EvictNodes(x, needed) = y
    BY DEF EvictNodes
  <1> HIDE DEF n
  <1> DEFINE rest == SubSeq(x.nodes, n + 1, Len(x.nodes))
  <1>5. /\ rest \in Seq(Nat) /\ Len(rest) = Len(x.nodes) - n
        /\ \A i \in DOMAIN rest : rest[i] = x.nodes[n + i]
                                  /\ n + i \in DOMAIN x.nodes
    <2>1. x.nodes \in Seq(Nat)
      BY DEF IsList
    <2>2. /\ rest \in Seq(Nat) /\ Len(rest) = Len(x.nodes) - n
      BY <1>1, <1>3, <2>1
    <2>3. DOMAIN rest = 1 .. (Len(x.nodes) - n)
      BY <2>2
    <2>4. DOMAIN x.nodes = 1 .. Len(x.nodes)
      BY <2>1
    <2>5. ASSUME NEW i \in 1 .. (Len(x.nodes) - n)
          PROVE  rest[i] = x.nodes[n + i] /\ n + i \in 1 .. Len(x.nodes)
      BY <1>1, <1>3, <2>1
    <2> HIDE DEF rest
    <2> QED BY <2>2, <2>3, <2>4, <2>5
  <1>6. /\ y.count = x.count - n /\ y.nodes = rest /\ y.mode = x.mode
        /\ DOMAIN y = Fields /\ y = [f \in Fields |-> y[f]]
    BY DEF IsList, Fields
  <1> HIDE DEF y, rest
  <1>7. IsList(y)
    BY <1>5, <1>6 DEF IsList
  <1>8. InQueue(y) \subseteq InQueue(x)
    BY <1>5, <1>6, <1>7, ListContents
  <1>9. ASSUME Ascending(x) PROVE Ascending(y)
    <2>1. rest \in Seq(Nat) /\ n \in Int
      BY <1>1, <1>3, <1>5
    <2>2. ASSUME NEW i \in DOMAIN rest, NEW j \in DOMAIN rest, i < j
          PROVE  rest[i] < rest[j]
      <3>1. i \in Int /\ j \in Int
        BY <2>1
      <3>2. n + i < n + j
        BY <2>1, <2>2, <3>1
      <3> QED BY <1>5, <1>9, <2>2, <3>2 DEF Ascending
    <2> QED BY <1>6, <2>2 DEF Ascending
  <1> QED BY <1>4, <1>7, <1>8, <1>9

\* A push adds no message but its own, behind the others
\* (mpmc_push_back_locked).
LEMMA PushAdds ==
    ASSUME NEW x, IsList(x), NEW m \in Nat
    PROVE  LET y == mpmc_push_back_locked(x, m, TRUE).q
           IN  /\ IsList(y) /\ InQueue(y) \subseteq InQueue(x) \cup {m}
               /\ Ascending(x) /\ (\A k \in InQueue(x) : k < m) => Ascending(y)
PROOF
  <1> DEFINE room == RoomFor(x, m)
             Refuse(r) == [r EXCEPT !.dropped_count = @ + 1]
             more == [room EXCEPT !.nodes = Append(@, m)]
             placed == [more EXCEPT !.count = @ + 1,
                                    !.current_bytes = @ + Needed(m)]
             y == mpmc_push_back_locked(x, m, TRUE).q
  <1>1. y \in {Refuse(x), Refuse(room), placed}
    BY DEF mpmc_push_back_locked, push_dynamic, Refused, IsList
  <1>2. /\ IsList(room) /\ InQueue(room) \subseteq InQueue(x)
        /\ Ascending(x) => Ascending(room)
    BY EvictKeeps DEF RoomFor
  <1>3. ASSUME NEW r, IsList(r)
        PROVE  /\ IsList(Refuse(r)) /\ InQueue(Refuse(r)) = InQueue(r)
               /\ Ascending(r) => Ascending(Refuse(r))
    <2> DEFINE z == Refuse(r)
    <2>1. /\ z.count = r.count /\ z.nodes = r.nodes /\ z.mode = r.mode
          /\ DOMAIN z = Fields /\ z = [f \in Fields |-> z[f]]
      BY <1>3 DEF IsList, Fields
    <2> HIDE DEF z
    <2>2. IsList(z)
      BY <1>3, <2>1 DEF IsList
    <2>3. InQueue(z) = InQueue(r)
      BY <1>3, <2>1, <2>2, ListContents
    <2>4. Ascending(r) => Ascending(z)
      BY <2>1 DEF Ascending
    <2> QED BY <2>2, <2>3, <2>4 DEF z
  <1>4. /\ IsList(placed) /\ InQueue(placed) \subseteq InQueue(room) \cup {m}
        /\ Ascending(room) /\ (\A k \in InQueue(room) : k < m)
              => Ascending(placed)
    <2> HIDE DEF room
    <2>1. /\ more.count = room.count /\ more.nodes = Append(room.nodes, m)
          /\ more.mode = room.mode
          /\ DOMAIN more = Fields /\ more = [f \in Fields |-> more[f]]
      BY <1>2 DEF IsList, Fields
    <2> HIDE DEF more
    <2>2. /\ placed.count = room.count + 1
          /\ placed.nodes = Append(room.nodes, m)
          /\ placed.mode = room.mode
          /\ DOMAIN placed = Fields /\ placed = [f \in Fields |-> placed[f]]
      BY <2>1 DEF Fields
    <2> HIDE DEF placed
    <2>3. /\ room.nodes \in Seq(Nat) /\ room.count = Len(room.nodes)
          /\ room.mode = "DYNAMIC"
      BY <1>2 DEF IsList
    <2>4. /\ Append(room.nodes, m) \in Seq(Nat)
          /\ Len(Append(room.nodes, m)) = Len(room.nodes) + 1
          /\ \A i \in DOMAIN Append(room.nodes, m) :
                \/ Append(room.nodes, m)[i] = m
                \/ /\ i \in DOMAIN room.nodes
                   /\ Append(room.nodes, m)[i] = room.nodes[i]
      BY <2>3
    <2>5. IsList(placed)
      BY <2>2, <2>3, <2>4 DEF IsList
    <2>6. /\ InQueue(placed) = {placed.nodes[i] : i \in DOMAIN placed.nodes}
          /\ InQueue(room) = {room.nodes[i] : i \in DOMAIN room.nodes}
      BY <1>2, <2>5, ListContents
    <2> DEFINE longer == Append(room.nodes, m)
    <2>7. {longer[i] : i \in DOMAIN longer}
             \subseteq {room.nodes[i] : i \in DOMAIN room.nodes} \cup {m}
      <3> HIDE DEF longer
      <3> QED BY <2>4 DEF longer
    <2>8. ASSUME Ascending(room), \A k \in InQueue(room) : k < m
          PROVE  Ascending(placed)
      <3>1. ASSUME NEW i \in DOMAIN longer, NEW j \in DOMAIN longer, i < j
            PROVE  longer[i] < longer[j]
        <4>1. /\ DOMAIN longer = 1 .. (Len(room.nodes) + 1)
              /\ DOMAIN room.nodes = 1 .. Len(room.nodes)
              /\ Len(room.nodes) \in Nat
          BY <2>3, <2>4
        <4>2. i \in DOMAIN room.nodes /\ longer[i] = room.nodes[i]
          BY <2>3, <3>1, <4>1
        <4>3. CASE j \in DOMAIN room.nodes
          <5>1. longer[j] = room.nodes[j]
            BY <2>3, <4>1, <4>3
          <5> QED BY <2>8, <3>1, <4>2, <4>3, <5>1 DEF Ascending
        <4>4. CASE j \notin DOMAIN room.nodes
          <5>1. longer[j] = m
            BY <2>4, <3>1, <4>4
          <5>2. room.nodes[i] \in InQueue(room)
            BY <2>6, <4>2
          <5> QED BY <2>8, <4>2, <5>1, <5>2
        <4> QED BY <4>3, <4>4
      <3> HIDE DEF longer
      <3>2. placed.nodes = longer
        BY <2>2 DEF longer
      <3> QED BY <3>1, <3>2 DEF Ascending
    <2> QED BY <2>2, <2>5, <2>6, <2>7, <2>8
  <1> HIDE DEF y, room, Refuse, placed
  <1>5. /\ IsList(y) /\ InQueue(y) \subseteq InQueue(x) \cup {m}
        /\ Ascending(x) /\ (\A k \in InQueue(x) : k < m) => Ascending(y)
    BY <1>1, <1>2, <1>3, <1>4
  <1> QED BY <1>5 DEF y

\* A pop returns the first of the messages and leaves the others
\* (mpmc_pop_head_locked).
LEMMA PopTakes ==
    ASSUME NEW x, IsList(x), x.count > 0
    PROVE  LET popped == mpmc_pop_head_locked(x)
           IN  /\ IsList(popped.q) /\ InQueue(popped.q) \subseteq InQueue(x)
               /\ popped.item \in InQueue(x)
               /\ Ascending(x) =>
                     /\ Ascending(popped.q)
                     /\ InQueue(popped.q) = InQueue(x) \ {popped.item}
                     /\ \A k \in InQueue(popped.q) : popped.item < k
PROOF
  <1> DEFINE y == [x EXCEPT !.nodes = Tail(@), !.count = @ - 1,
                            !.current_bytes = @ - Needed(Head(x.nodes))]
  <1>1. mpmc_pop_head_locked(x) = [item |-> Head(x.nodes), q |-> y]
    BY DEF mpmc_pop_head_locked, IsList
  <1>2. /\ y.count = x.count - 1 /\ y.nodes = Tail(x.nodes) /\ y.mode = x.mode
        /\ DOMAIN y = Fields /\ y = [f \in Fields |-> y[f]]
    BY DEF IsList, Fields
  <1> HIDE DEF y
  <1>3. x.nodes \in Seq(Nat) /\ x.nodes # <<>> /\ x.count = Len(x.nodes)
    BY DEF IsList
  <1>4. /\ Tail(x.nodes) \in Seq(Nat)
        /\ Len(Tail(x.nodes)) = Len(x.nodes) - 1
        /\ \A i \in DOMAIN Tail(x.nodes) :
              Tail(x.nodes)[i] = x.nodes[i + 1] /\ i + 1 \in DOMAIN x.nodes
        /\ Head(x.nodes) = x.nodes[1] /\ 1 \in DOMAIN x.nodes
    <2> DEFINE rest == Tail(x.nodes)
    <2>1. /\ rest \in Seq(Nat) /\ Len(rest) = Len(x.nodes) - 1
          /\ Len(x.nodes) \in Nat \ {0} /\ Head(x.nodes) = x.nodes[1]
      BY <1>3
    <2>2. DOMAIN rest = 1 .. (Len(x.nodes) - 1)
      BY <2>1
    <2>3. DOMAIN x.nodes = 1 .. Len(x.nodes)
      BY <1>3
    <2>4. ASSUME NEW i \in 1 .. (Len(x.nodes) - 1)
          PROVE  rest[i] = x.nodes[i + 1] /\ i + 1 \in 1 .. Len(x.nodes)
      BY <1>3
    <2> HIDE DEF rest
    <2> QED BY <2>1, <2>2, <2>3, <2>4 DEF rest
  <1>5. IsList(y)
    BY <1>2, <1>3, <1>4 DEF IsList
  <1>6. InQueue(y) \subseteq InQueue(x) /\ Head(x.nodes) \in InQueue(x)
    <2>1. /\ InQueue(y) = {y.nodes[i] : i \in DOMAIN y.nodes}
          /\ InQueue(x) = {x.nodes[i] : i \in DOMAIN x.nodes}
      BY <1>5, ListContents
    <2> QED BY <1>2, <1>4, <2>1
  <1>7. ASSUME Ascending(x)
        PROVE  /\ Ascending(y)
               /\ InQueue(y) = InQueue(x) \ {Head(x.nodes)}
               /\ \A k \in InQueue(y) : Head(x.nodes) < k
    <2> DEFINE rest == Tail(x.nodes)
               N == Len(x.nodes)
    <2>1. /\ N \in Nat /\ DOMAIN x.nodes = 1 .. N /\ DOMAIN rest = 1 .. (N - 1)
          /\ \A i \in 1 .. N : x.nodes[i] \in Nat
      BY <1>3, <1>4
    <2>2. \A i \in 1 .. (N - 1) : rest[i] = x.nodes[i + 1]
      BY <1>4, <2>1
    <2>3. /\ InQueue(y) = {rest[i] : i \in 1 .. (N - 1)}
          /\ InQueue(x) = {x.nodes[i] : i \in 1 .. N}
      <3>1. /\ InQueue(y) = {y.nodes[i] : i \in DOMAIN y.nodes}
            /\ InQueue(x) = {x.nodes[i] : i \in DOMAIN x.nodes}
        BY <1>5, ListContents
      <3>2. y.nodes = rest
        BY <1>2
      <3> HIDE DEF rest, N
      <3> QED BY <2>1, <3>1, <3>2
    <2>4. \A i, j \in 1 .. N : i < j => x.nodes[i] < x.nodes[j]
      BY <1>7, <2>1 DEF Ascending
    <2>5. \A i \in 1 .. (N - 1) : x.nodes[1] < rest[i]
      <3>1. ASSUME NEW i \in 1 .. (N - 1)
            PROVE  x.nodes[1] < x.nodes[i + 1]
        <4>1. 1 \in 1 .. N /\ i + 1 \in 1 .. N /\ 1 < i + 1
          BY <2>1
        <4> QED BY <2>4, <4>1
      <3> QED BY <2>2, <3>1
    <2>6. \A i, j \in 1 .. (N - 1) : i < j => rest[i] < rest[j]
      <3>1. ASSUME NEW i \in 1 .. (N - 1), NEW j \in 1 .. (N - 1), i < j
            PROVE  x.nodes[i + 1] < x.nodes[j + 1]
        <4>1. i + 1 \in 1 .. N /\ j + 1 \in 1 .. N /\ i + 1 < j + 1
          BY <2>1, <3>1
        <4> QED BY <2>4, <4>1
      <3> QED BY <2>2, <3>1
    <2>7. \A k \in InQueue(x) : k = x.nodes[1] \/ k \in InQueue(y)
      <3>1. ASSUME NEW i \in 1 .. N, i # 1
            PROVE  x.nodes[i] \in InQueue(y)
        <4>1. i - 1 \in 1 .. (N - 1) /\ (i - 1) + 1 = i
          BY <2>1, <3>1
        <4>2. rest[i - 1] = x.nodes[i]
          BY <2>2, <4>1
        <4> HIDE DEF rest
        <4> QED BY <2>3, <4>1, <4>2
      <3> QED BY <2>3, <3>1
    <2>8. Ascending(y)
      BY <1>2, <2>1, <2>6 DEF Ascending
    <2>9. \A k \in InQueue(y) : k \in Nat /\ x.nodes[1] < k
      <3>1. \A i \in 1 .. (N - 1) : rest[i] \in Nat
        BY <2>1, <2>2
      <3> HIDE DEF rest
      <3> QED BY <2>3, <2>5, <3>1
    <2>10. x.nodes[1] \in Nat /\ x.nodes[1] \notin InQueue(y)
      <3>1. x.nodes[1] \in Nat
        BY <1>4, <2>1
      <3>2. ~(x.nodes[1] < x.nodes[1])
        BY <3>1
      <3> QED BY <2>9, <3>1, <3>2
    <2> QED BY <1>4, <1>6, <2>7, <2>8, <2>9, <2>10
  <1> QED BY <1>1, <1>5, <1>6, <1>7

-----------------------------------------------------------------------------
Sessions == [state : {"DISCONNECTED", "CONNECTING", "CONNECTED"}, who : Nat,
             window : Seq(Nat)]

\* The types the argument needs; to and run_of speak of the same messages.
Types ==
    /\ runs \in Nat /\ made \in Nat /\ pending \in 0 .. Len(to)
    /\ sessions \in [ClientIds -> Sessions]
    /\ calls \subseteq [to : ClientIds, run : Nat]
    /\ to \in Seq(ClientIds) /\ run_of \in Seq(Nat) /\ Len(run_of) = Len(to)
    /\ sent \in Seq([msg : Nat, who : Nat, run : Nat])

Waiting == InQueue(send_queue) \cup ({pending} \ {0})

\* What waits is of this run, or late.
WaitingFresh ==
    /\ IsList(send_queue)
    /\ \A n \in Waiting : n \in DOMAIN to /\ (n \in late \/ run_of[n] = runs)

\* Stop gets past the join when the worker is gone, and past the queue when only
\* late messages can be in it; nothing else waits when it has returned.
Phases ==
    /\ control # "idle" => ~running
    /\ control \in {"sessions", "queue", "pending"} => worker = "none"
    /\ control = "pending" => InQueue(send_queue) \subseteq late
    /\ control = "idle" /\ ~running =>
          worker = "none" /\ pending = 0 /\ InQueue(send_queue) \subseteq late

SentFresh == FreshRun /\ \A k \in DOMAIN sent : sent[k].msg \in DOMAIN to

FreshInv == Types /\ WaitingFresh /\ Phases /\ SentFresh

\* The queue of a server that was created is empty (rel4u_server_create).
LEMMA EmptyList ==
    ASSUME NEW full_policy
    PROVE  LET x == mpmc_init("DYNAMIC", full_policy)
           IN  IsList(x) /\ InQueue(x) = {}
PROOF
  <1> DEFINE x == mpmc_init("DYNAMIC", full_policy)
  <1>1. /\ x.nodes = <<>> /\ x.count = 0 /\ x.mode = "DYNAMIC"
        /\ DOMAIN x = Fields /\ x = [f \in Fields |-> x[f]]
    BY DEF mpmc_init, Fields
  <1> HIDE DEF x
  <1>2. IsList(x)
    BY <1>1 DEF IsList
  <1>3. DOMAIN x.nodes = {}
    BY <1>1
  <1>4. InQueue(x) = {}
    BY <1>2, <1>3, ListContents
  <1> QED BY <1>2, <1>4 DEF x

\* A server that was created and not started (rel4u_server_create).
LEMMA FreshInit == Init => FreshInv
PROOF
  <1> SUFFICES ASSUME Init PROVE FreshInv
    OBVIOUS
  <1> USE DEF Init
  <1>1. IsList(send_queue) /\ InQueue(send_queue) = {}
    BY EmptyList
  <1>2. Types
    BY DEF Types, Free, Sessions
  <1>3. WaitingFresh /\ Phases
    BY <1>1 DEF WaitingFresh, Waiting, Phases
  <1>4. SentFresh
    BY DEF SentFresh, FreshRun
  <1> QED BY <1>2, <1>3, <1>4 DEF FreshInv

\* Every step keeps the types.
LEMMA TypesKept ==
    ASSUME FreshInv, Next
    PROVE  Types'
PROOF
  <1> USE DEF FreshInv, Types, threadVars, tableVars, callVars, queueVars
  <1>0. Free \in Sessions
    BY DEF Free, Sessions
  <1>1. ASSUME NEW i \in ClientIds, SendBegins(i)
        PROVE  Types'
    BY <1>1 DEF SendBegins
  <1>2. ASSUME NEW i \in ClientIds, rel4u_server_disconnect_client(i)
        PROVE  Types'
    BY <1>0, <1>2 DEF rel4u_server_disconnect_client
  <1>3. ASSUME NEW i \in ClientIds, NEW session \in Sessions,
               Receives(i, session), made' \in Nat
        PROVE  Types'
    BY <1>3 DEF Receives
  <1>4. ASSUME NEW i \in ClientIds,
               Connects(i) \/ Completes(i) \/ Acknowledges(i) \/ Leaves(i)
        PROVE  Types'
    <2>1. CASE Connects(i)
      <3>1. /\ [state |-> "CONNECTING", who |-> made + 1, window |-> <<>>]
                  \in Sessions
            /\ made' \in Nat
        BY <2>1 DEF Connects, Sessions
      <3> QED BY <1>3, <2>1, <3>1 DEF Connects
    <2>2. CASE Completes(i)
      <3>1. [sessions[i] EXCEPT !.state = "CONNECTED"] \in Sessions
        BY DEF Sessions
      <3> QED BY <1>3, <2>2, <3>1 DEF Completes
    <2>3. CASE Acknowledges(i)
      <3>1. sessions[i].window \in Seq(Nat) /\ sessions[i].window # <<>>
        BY <2>3 DEF Acknowledges, Sessions
      <3>2. Tail(sessions[i].window) \in Seq(Nat)
        BY <3>1
      <3>3. [sessions[i] EXCEPT !.window = Tail(@)] \in Sessions
        BY <3>2 DEF Sessions
      <3> QED BY <1>3, <2>3, <3>3 DEF Acknowledges
    <2>4. CASE Leaves(i)
      BY <1>0, <1>3, <2>4 DEF Leaves
    <2> QED BY <1>4, <2>1, <2>2, <2>3, <2>4
  <1>5. ASSUME NEW call \in calls, SendPushes(call)
        PROVE  Types'
    <2>1. /\ calls' = calls \ {call} /\ UNCHANGED <<runs, made, pending, sessions, sent>>
          /\ to' = Append(to, call.to) /\ run_of' = Append(run_of, call.run)
      BY <1>5 DEF SendPushes
    <2>2. call.to \in ClientIds /\ call.run \in Nat
      OBVIOUS
    <2>3. /\ to' \in Seq(ClientIds) /\ run_of' \in Seq(Nat)
          /\ Len(to') = Len(to) + 1 /\ Len(run_of') = Len(run_of) + 1
      BY <2>1, <2>2
    <2> QED BY <2>1, <2>3
  <1>6. CASE rel4u_server_start
    BY <1>6 DEF rel4u_server_start
  <1>7. CASE rel4u_server_stop \/ StopJoins
    BY <1>7 DEF rel4u_server_stop, StopJoins
  <1>8. CASE StopFreesSessions
    BY <1>0, <1>8 DEF StopFreesSessions
  <1>9. CASE StopPops
    BY <1>9 DEF StopPops
  <1>10. CASE StopClearsPending
    BY <1>10 DEF StopClearsPending
  <1>11. CASE WorkerTop \/ SocketEmpty \/ DrainPauses
    BY <1>11 DEF WorkerTop, SocketEmpty, DrainPauses
  <1>12. CASE DrainPops
    <2>1. pending' \in 0 .. Len(to)
      <3>1. CASE send_queue.count > 0
        <4>1. pending' \in InQueue(send_queue)
          BY <1>12, <3>1, PopTakes DEF DrainPops, WaitingFresh
        <4>2. pending' \in DOMAIN to
          BY <4>1 DEF WaitingFresh, Waiting
        <4> QED BY <4>2
      <3>2. CASE ~(send_queue.count > 0)
        BY <1>12, <3>2 DEF DrainPops
      <3> QED BY <3>1, <3>2
    <2> QED BY <1>12, <2>1 DEF DrainPops
  <1>13. CASE DrainSends
    <2> DEFINE i == to[pending]
               record == [msg |-> pending, who |-> sessions[i].who, run |-> runs]
    <2>1. pending \in 1 .. Len(to) /\ i \in ClientIds
      BY <1>13 DEF DrainSends
    <2>2. /\ sessions[i].window \in Seq(Nat) /\ sessions[i].who \in Nat
      BY <2>1 DEF Sessions
    <2>3. /\ sessions' = [sessions EXCEPT ![i].window = Append(@, pending)]
          /\ sent' = Append(sent, record) /\ pending' = 0
          /\ UNCHANGED <<runs, made, calls, to, run_of>>
      BY <1>13 DEF DrainSends
    <2> HIDE DEF i
    <2>4. Append(sessions[i].window, pending) \in Seq(Nat)
      BY <2>1, <2>2
    <2>5. sessions' \in [ClientIds -> Sessions]
      BY <2>1, <2>3, <2>4 DEF Sessions
    <2>6. sent' \in Seq([msg : Nat, who : Nat, run : Nat])
      BY <2>1, <2>2, <2>3
    <2> QED BY <2>3, <2>5, <2>6
  <1>14. CASE DrainDiscards
    BY <1>14 DEF DrainDiscards
  <1>15. ASSUME NEW silent \in SUBSET Active, Timers(silent)
         PROVE  Types'
    BY <1>0, <1>15 DEF Timers
  <1> QED BY <1>1, <1>2, <1>4, <1>5, <1>6, <1>7, <1>8, <1>9, <1>10, <1>11,
             <1>12, <1>13, <1>14, <1>15 DEF Next, ControlStep, WorkerStep

\* A push of a send that had seen running: the message belongs to this run or
\* is late (rel4u_server_send).
LEMMA PushFresh ==
    ASSUME FreshInv, NEW call \in calls, SendPushes(call)
    PROVE  WaitingFresh' /\ Phases' /\ SentFresh'
PROOF
  <1> USE DEF FreshInv
  <1> DEFINE n == Len(to) + 1
  <1>1. /\ send_queue' = mpmc_push_back_locked(send_queue, n, TRUE).q
        /\ to' = Append(to, call.to) /\ run_of' = Append(run_of, call.run)
        /\ late' = IF running /\ call.run = runs THEN late ELSE late \cup {n}
        /\ UNCHANGED <<running, worker, control, runs, pending, sent>>
    BY DEF SendPushes, threadVars
  <1>2. n \in Nat
    BY DEF Types
  <1>3. IsList(send_queue') /\ InQueue(send_queue') \subseteq InQueue(send_queue) \cup {n}
    BY <1>1, <1>2, PushAdds DEF WaitingFresh
  <1>4. /\ DOMAIN to' = DOMAIN to \cup {n} /\ run_of'[n] = call.run
        /\ \A m \in DOMAIN to : run_of'[m] = run_of[m]
    <2>1. to \in Seq(ClientIds) /\ run_of \in Seq(Nat) /\ Len(run_of) = Len(to)
          /\ call.to \in ClientIds /\ call.run \in Nat
      BY DEF Types
    <2>2. /\ to' \in Seq(ClientIds) /\ Len(to') = n
          /\ run_of'[n] = call.run
          /\ \A m \in 1 .. Len(to) : run_of'[m] = run_of[m]
      BY <1>1, <2>1
    <2>3. DOMAIN to = 1 .. Len(to) /\ DOMAIN to' = 1 .. Len(to')
      BY <2>1, <2>2
    <2> QED BY <2>1, <2>2, <2>3
  <1>5. late \subseteq late' /\ (n \in late' \/ (running /\ call.run = runs))
    BY <1>1
  <1> HIDE DEF n
  <1>6. WaitingFresh'
    BY <1>1, <1>3, <1>4, <1>5 DEF WaitingFresh, Waiting
  <1>7. Phases'
    BY <1>1, <1>3, <1>5 DEF Phases
  <1>8. SentFresh'
    BY <1>1, <1>4, <1>5 DEF SentFresh, FreshRun
  <1> QED BY <1>6, <1>7, <1>8

\* What waits is fresh, and so is what was sent, after every step.
LEMMA FreshKept ==
    ASSUME FreshInv, Next
    PROVE  WaitingFresh' /\ Phases' /\ SentFresh'
PROOF
  <1> USE DEF FreshInv, threadVars, tableVars, callVars, queueVars
  <1>1. ASSUME UNCHANGED <<running, worker, control, runs, to, run_of,
                           send_queue, late, pending, sent>>
        PROVE  WaitingFresh' /\ Phases' /\ SentFresh'
    <2>1. WaitingFresh'
      BY <1>1 DEF WaitingFresh, Waiting
    <2>2. Phases'
      BY <1>1 DEF Phases
    <2>3. SentFresh'
      BY <1>1 DEF SentFresh, FreshRun
    <2> QED BY <2>1, <2>2, <2>3
  <1>2. ASSUME NEW i \in ClientIds,
               SendBegins(i) \/ rel4u_server_disconnect_client(i)
        PROVE  WaitingFresh' /\ Phases' /\ SentFresh'
    BY <1>1, <1>2 DEF SendBegins, rel4u_server_disconnect_client
  <1>3. ASSUME NEW i \in ClientIds,
               Connects(i) \/ Completes(i) \/ Acknowledges(i) \/ Leaves(i)
        PROVE  WaitingFresh' /\ Phases' /\ SentFresh'
    BY <1>1, <1>3 DEF Connects, Completes, Acknowledges, Leaves, Receives
  <1>4. CASE SocketEmpty \/ DrainPauses
    BY <1>1, <1>4 DEF SocketEmpty, DrainPauses
  <1>5. ASSUME NEW silent \in SUBSET Active, Timers(silent)
        PROVE  WaitingFresh' /\ Phases' /\ SentFresh'
    BY <1>1, <1>5 DEF Timers
  <1>6. ASSUME NEW call \in calls, SendPushes(call)
        PROVE  WaitingFresh' /\ Phases' /\ SentFresh'
    BY <1>6, PushFresh
  <1>7. CASE rel4u_server_start
    <2>1. /\ control = "idle" /\ ~running /\ running' /\ worker' = "loop"
          /\ UNCHANGED <<control, to, run_of, send_queue, late, pending, sent>>
      BY <1>7 DEF rel4u_server_start
    <2>2. Waiting \subseteq late
      BY <2>1 DEF Phases, Waiting
    <2>3. WaitingFresh'
      BY <2>1, <2>2 DEF WaitingFresh, Waiting
    <2>4. Phases' /\ SentFresh'
      BY <2>1 DEF Phases, SentFresh, FreshRun
    <2> QED BY <2>3, <2>4
  <1>8. CASE rel4u_server_stop \/ StopJoins \/ StopFreesSessions \/ WorkerTop
    <2>1. UNCHANGED <<runs, to, run_of, send_queue, late, pending, sent>>
      BY <1>8 DEF rel4u_server_stop, StopJoins, StopFreesSessions, WorkerTop
    <2>2. WaitingFresh' /\ SentFresh'
      BY <2>1 DEF WaitingFresh, Waiting, SentFresh, FreshRun
    <2>3. Phases'
      BY <1>8, <2>1 DEF Phases, rel4u_server_stop, StopJoins,
                        StopFreesSessions, WorkerTop
    <2> QED BY <2>2, <2>3
  <1>9. CASE StopPops
    <2>1. /\ control = "queue"
          /\ UNCHANGED <<running, worker, runs, to, run_of, late, pending, sent>>
      BY <1>9 DEF StopPops
    <2>2. CASE send_queue.count > 0
      <3>1. /\ IsList(send_queue') /\ control' = control
            /\ InQueue(send_queue') \subseteq InQueue(send_queue)
        BY <1>9, <2>2, PopTakes DEF StopPops, WaitingFresh
      <3>2. WaitingFresh' /\ SentFresh'
        BY <2>1, <3>1 DEF WaitingFresh, Waiting, SentFresh, FreshRun
      <3>3. Phases'
        BY <2>1, <3>1 DEF Phases
      <3> QED BY <3>2, <3>3
    <2>3. CASE ~(send_queue.count > 0)
      <3>1. control' = "pending" /\ send_queue' = send_queue
        BY <1>9, <2>3 DEF StopPops
      <3>2. send_queue.nodes \in Seq(Nat) /\ ~(Len(send_queue.nodes) > 0)
        BY <2>3 DEF WaitingFresh, IsList
      <3>3. DOMAIN send_queue.nodes = {}
        BY <3>2
      <3>4. InQueue(send_queue) = {}
        BY <3>3, ListContents DEF WaitingFresh
      <3>5. WaitingFresh' /\ SentFresh'
        BY <2>1, <3>1 DEF WaitingFresh, Waiting, SentFresh, FreshRun
      <3>6. Phases'
        BY <2>1, <3>1, <3>4 DEF Phases
      <3> QED BY <3>5, <3>6
    <2> QED BY <2>2, <2>3
  <1>10. CASE StopClearsPending
    <2>1. /\ control = "pending" /\ control' = "idle" /\ pending' = 0
          /\ UNCHANGED <<running, worker, runs, to, run_of, send_queue, late,
                         sent>>
      BY <1>10 DEF StopClearsPending
    <2>2. WaitingFresh' /\ SentFresh'
      BY <2>1 DEF WaitingFresh, Waiting, SentFresh, FreshRun
    <2>3. Phases'
      BY <2>1 DEF Phases
    <2> QED BY <2>2, <2>3
  <1>11. CASE DrainPops
    <2>1. /\ worker = "loop" /\ pending = 0
          /\ UNCHANGED <<running, worker, control, runs, to, run_of, late, sent>>
      BY <1>11 DEF DrainPops
    <2>2. CASE send_queue.count > 0
      <3>1. /\ IsList(send_queue') /\ pending' \in InQueue(send_queue)
            /\ InQueue(send_queue') \subseteq InQueue(send_queue)
        BY <1>11, <2>2, PopTakes DEF DrainPops, WaitingFresh
      <3>2. WaitingFresh' /\ SentFresh'
        BY <2>1, <3>1 DEF WaitingFresh, Waiting, SentFresh, FreshRun
      <3>3. Phases'
        BY <2>1, <3>1 DEF Phases
      <3> QED BY <3>2, <3>3
    <2>3. CASE ~(send_queue.count > 0)
      BY <1>1, <1>11, <2>1, <2>3 DEF DrainPops
    <2> QED BY <2>2, <2>3
  <1>12. CASE DrainSends
    <2> DEFINE record == [msg |-> pending, who |-> sessions[to[pending]].who,
                          run |-> runs]
    <2>1. /\ worker = "loop" /\ pending # 0 /\ pending' = 0
          /\ sent' = Append(sent, record)
          /\ UNCHANGED <<running, worker, control, runs, to, run_of,
                         send_queue, late>>
      BY <1>12 DEF DrainSends
    <2>2. record.msg = pending /\ record.run = runs
      OBVIOUS
    <2> HIDE DEF record
    <2>3. sent' \in Seq([msg : Nat, who : Nat, run : Nat])
          /\ sent \in Seq([msg : Nat, who : Nat, run : Nat])
      BY TypesKept DEF Types
    <2>4. \A k \in DOMAIN sent' : (k \in DOMAIN sent /\ sent'[k] = sent[k])
                                  \/ sent'[k] = record
      BY <2>1, <2>3
    <2>5. pending \in DOMAIN to /\ (pending \in late \/ run_of[pending] = runs)
      BY <2>1 DEF WaitingFresh, Waiting
    <2>6. SentFresh'
      BY <2>1, <2>2, <2>4, <2>5 DEF SentFresh, FreshRun
    <2>7. WaitingFresh' /\ Phases'
      BY <2>1 DEF WaitingFresh, Waiting, Phases
    <2> QED BY <2>6, <2>7
  <1>13. CASE DrainDiscards
    <2>1. /\ worker = "loop" /\ pending' = 0
          /\ UNCHANGED <<running, worker, control, runs, to, run_of,
                         send_queue, late, sent>>
      BY <1>13 DEF DrainDiscards
    <2> QED BY <2>1 DEF WaitingFresh, Waiting, Phases, SentFresh, FreshRun
  <1> QED BY <1>2, <1>3, <1>4, <1>5, <1>6, <1>7, <1>8, <1>9, <1>10, <1>11,
             <1>12, <1>13 DEF Next, ControlStep, WorkerStep

-----------------------------------------------------------------------------
(* Order.  Messages are numbered as they are pushed, so what waits, and what *)
(* was sent before it, is in the order of the numbers.                       *)

Ordered ==
    /\ Ascending(send_queue)
    /\ \A n \in InQueue(send_queue) : pending < n
    /\ \A k \in DOMAIN sent : \A n \in Waiting : sent[k].msg < n
    /\ \A j, k \in DOMAIN sent : j < k => sent[j].msg < sent[k].msg

\* A push goes behind everything that waits (rel4u_server_send).
LEMMA PushOrdered ==
    ASSUME FreshInv, Ordered, NEW call \in calls, SendPushes(call)
    PROVE  Ordered'
PROOF
  <1> DEFINE n == Len(to) + 1
  <1>1. /\ send_queue' = mpmc_push_back_locked(send_queue, n, TRUE).q
        /\ UNCHANGED <<pending, sent>>
    BY DEF SendPushes
  <1>2. n \in Nat /\ DOMAIN to = 1 .. (n - 1) /\ pending \in 0 .. (n - 1)
    BY DEF FreshInv, Types
  <1>3. /\ IsList(send_queue)
        /\ \A m \in Waiting : m \in 1 .. (n - 1)
        /\ \A k \in DOMAIN sent : sent[k].msg \in 1 .. (n - 1)
    BY <1>2 DEF FreshInv, WaitingFresh, SentFresh
  <1> HIDE DEF n
  <1>4. \A m \in InQueue(send_queue) : m < n
    <2>1. \A m \in InQueue(send_queue) : m \in 1 .. (n - 1)
      BY <1>3 DEF Waiting
    <2> QED BY <1>2, <2>1
  <1>5. /\ InQueue(send_queue') \subseteq InQueue(send_queue) \cup {n}
        /\ Ascending(send_queue')
    BY <1>1, <1>2, <1>3, <1>4, PushAdds DEF Ordered
  <1>6. pending < n /\ \A k \in DOMAIN sent : sent[k].msg < n
    BY <1>2, <1>3
  <1>7. Waiting' \subseteq Waiting \cup {n}
    BY <1>1, <1>5 DEF Waiting
  <1> QED BY <1>1, <1>5, <1>6, <1>7 DEF Ordered

\* The worker takes the oldest message and puts it into a window before it
\* takes another; stop takes messages away (drain_send_queue,
\* rel4u_server_stop).
LEMMA OrderedKept ==
    ASSUME FreshInv, Ordered, Next
    PROVE  Ordered'
PROOF
  <1> USE DEF threadVars, tableVars, callVars, queueVars
  <1>0. IsList(send_queue)
    BY DEF FreshInv, WaitingFresh
  <1>1. ASSUME UNCHANGED <<send_queue, pending, sent>>
        PROVE  Ordered'
    BY <1>1 DEF Ordered, Waiting
  <1>2. ASSUME NEW i \in ClientIds,
               \/ SendBegins(i) \/ rel4u_server_disconnect_client(i)
               \/ Connects(i) \/ Completes(i) \/ Acknowledges(i) \/ Leaves(i)
        PROVE  Ordered'
    BY <1>1, <1>2 DEF SendBegins, rel4u_server_disconnect_client, Connects,
                      Completes, Acknowledges, Leaves, Receives
  <1>3. CASE \/ rel4u_server_start \/ rel4u_server_stop \/ StopJoins
             \/ StopFreesSessions \/ WorkerTop \/ SocketEmpty \/ DrainPauses
    BY <1>1, <1>3 DEF rel4u_server_start, rel4u_server_stop, StopJoins,
                      StopFreesSessions, WorkerTop, SocketEmpty, DrainPauses
  <1>4. ASSUME NEW silent \in SUBSET Active, Timers(silent)
        PROVE  Ordered'
    BY <1>1, <1>4 DEF Timers
  <1>5. ASSUME NEW call \in calls, SendPushes(call)
        PROVE  Ordered'
    BY <1>5, PushOrdered
  <1>6. CASE StopPops
    <2>1. CASE send_queue.count > 0
      <3>1. /\ UNCHANGED <<pending, sent>> /\ Ascending(send_queue')
            /\ InQueue(send_queue') \subseteq InQueue(send_queue)
        BY <1>0, <1>6, <2>1, PopTakes DEF StopPops, Ordered
      <3> QED BY <3>1 DEF Ordered, Waiting
    <2>2. CASE ~(send_queue.count > 0)
      BY <1>1, <1>6, <2>2 DEF StopPops
    <2> QED BY <2>1, <2>2
  <1>7. ASSUME UNCHANGED <<send_queue, sent>>, pending' = 0
        PROVE  Ordered'
    <2>1. \A n \in InQueue(send_queue) : 0 < n
      <3>1. \A n \in InQueue(send_queue) : n \in 1 .. Len(to)
        BY DEF FreshInv, Types, WaitingFresh, Waiting
      <3> QED BY <3>1 DEF FreshInv, Types
    <2> QED BY <1>7, <2>1 DEF Ordered, Waiting
  <1>8. CASE StopClearsPending \/ DrainDiscards
    BY <1>7, <1>8 DEF StopClearsPending, DrainDiscards
  <1>9. CASE DrainPops
    <2>1. CASE send_queue.count > 0
      <3>1. /\ pending = 0 /\ sent' = sent
            /\ pending' \in InQueue(send_queue) /\ Ascending(send_queue')
            /\ InQueue(send_queue') \subseteq InQueue(send_queue)
            /\ \A n \in InQueue(send_queue') : pending' < n
        BY <1>0, <1>9, <2>1, PopTakes DEF DrainPops, Ordered
      <3>2. Waiting' \subseteq Waiting
        BY <3>1 DEF Waiting
      <3> QED BY <3>1, <3>2 DEF Ordered
    <2>2. CASE ~(send_queue.count > 0)
      BY <1>1, <1>9, <2>2 DEF DrainPops
    <2> QED BY <2>1, <2>2
  <1>10. CASE DrainSends
    <2> DEFINE record == [msg |-> pending, who |-> sessions[to[pending]].who,
                          run |-> runs]
    <2>1. /\ pending # 0 /\ pending' = 0 /\ send_queue' = send_queue
          /\ sent' = Append(sent, record) /\ record.msg = pending
      BY <1>10 DEF DrainSends
    <2>2. /\ sent \in Seq([msg : Nat, who : Nat, run : Nat])
          /\ sent' \in Seq([msg : Nat, who : Nat, run : Nat])
      BY TypesKept DEF FreshInv, Types
    <2> HIDE DEF record
    <2> DEFINE N == Len(sent)
    <2>3. /\ N \in Nat /\ DOMAIN sent = 1 .. N /\ DOMAIN sent' = 1 .. (N + 1)
          /\ \A k \in 1 .. N : sent'[k] = sent[k]
          /\ sent'[N + 1] = record
      BY <2>1, <2>2
    <2> HIDE DEF N
    <2>4. \A k \in 1 .. N : sent[k].msg < pending
      BY <2>1, <2>3 DEF Ordered, Waiting
    <2>5. ASSUME NEW j \in DOMAIN sent', NEW k \in DOMAIN sent', j < k
          PROVE  sent'[j].msg < sent'[k].msg
      <3>1. j \in 1 .. N
        BY <2>3, <2>5
      <3>2. CASE k \in 1 .. N
        BY <2>3, <2>5, <3>1, <3>2 DEF Ordered
      <3>3. CASE k = N + 1
        BY <2>1, <2>3, <2>4, <3>1, <3>3
      <3> QED BY <2>3, <3>2, <3>3
    <2>6. Waiting' = InQueue(send_queue)
      BY <2>1 DEF Waiting
    <2>7. ASSUME NEW k \in DOMAIN sent', NEW n \in Waiting'
          PROVE  sent'[k].msg < n
      <3>1. CASE k \in 1 .. N
        BY <2>3, <2>6, <2>7, <3>1 DEF Ordered, Waiting
      <3>2. CASE k = N + 1
        BY <2>1, <2>3, <2>6, <2>7, <3>2 DEF Ordered
      <3> QED BY <2>3, <2>7, <3>1, <3>2
    <2>8. \A n \in InQueue(send_queue) : 0 < n
      <3>1. \A n \in InQueue(send_queue) : n \in 1 .. Len(to)
        BY DEF FreshInv, Types, WaitingFresh, Waiting
      <3> QED BY <3>1 DEF FreshInv, Types
    <2> QED BY <2>1, <2>5, <2>7, <2>8 DEF Ordered
  <1> QED BY <1>2, <1>3, <1>4, <1>5, <1>6, <1>8, <1>9, <1>10
          DEF Next, ControlStep, WorkerStep

\* The order holds from the start on.
LEMMA OrderedInit == Init => Ordered
PROOF
  <1> SUFFICES ASSUME Init PROVE Ordered
    OBVIOUS
  <1> PICK full_policy \in FullPolicies :
              send_queue = mpmc_init("DYNAMIC", full_policy)
    BY DEF Init
  <1>1. IsList(send_queue) /\ InQueue(send_queue) = {}
    BY EmptyList
  <1>2. send_queue.nodes = <<>>
    BY DEF mpmc_init
  <1>3. Ascending(send_queue)
    BY <1>2 DEF Ascending
  <1> QED BY <1>1, <1>3 DEF Ordered, Waiting, Init

QueueInv == FreshInv /\ Ordered

\* What is proved of every reachable state up to here.
LEMMA QueueInvariant == Spec => []QueueInv
PROOF
  <1>1. Init => QueueInv
    BY FreshInit, OrderedInit DEF QueueInv
  <1>2. QueueInv /\ [Next]_vars => QueueInv'
    <2>1. QueueInv /\ Next => QueueInv'
      BY TypesKept, FreshKept, OrderedKept DEF QueueInv, FreshInv
    <2>2. QueueInv /\ UNCHANGED vars => QueueInv'
      BY DEF QueueInv, Ordered, FreshInv, Types, WaitingFresh, Waiting, Phases,
             SentFresh, FreshRun, vars, threadVars, tableVars, callVars,
             queueVars
    <2> QED BY <2>1, <2>2
  <1> QED BY <1>1, <1>2, PTL DEF Spec

\* A restarted server sends no message of an earlier run, but for those whose
\* send had seen running and had not pushed yet when stop was called
\* (rel4u_server_stop, rel4u_server.c:146-156).
THEOREM RunAlwaysFresh == Spec => []FreshRun
PROOF
  <1>1. QueueInv => FreshRun
    BY DEF QueueInv, FreshInv, SentFresh
  <1> QED BY <1>1, QueueInvariant, PTL

\* The messages a session gets keep the order in which send pushed them, through
\* full windows, evictions, discards and restarts (drain_send_queue,
\* rel4u_server.c:483-516).
THEOREM OrderPerSessionHolds == Spec => []OrderPerSession
PROOF
  <1>1. QueueInv => OrderPerSession
    BY DEF QueueInv, Ordered, OrderPerSession
  <1> QED BY <1>1, QueueInvariant, PTL

-----------------------------------------------------------------------------
(* Every message is in one place. *)

SentMsgs == {sent[k].msg : k \in DOMAIN sent}

\* Five sets share the messages out among them.
Shared(all, w, d, x, c, s) ==
    /\ w \cup d \cup x \cup c \cup s = all
    /\ w \cap (d \cup x \cup c \cup s) = {} /\ d \cap (x \cup c \cup s) = {}
    /\ x \cap (c \cup s) = {} /\ c \cap s = {}

\* A message waits, or was dropped, discarded, cleared or sent.
Accounted ==
    Shared(DOMAIN to, Waiting, dropped, discarded, cleared, SentMsgs)

\* A message that waited is somewhere else.
LEMMA Leaving ==
    ASSUME NEW all, NEW w, NEW d, NEW x, NEW c, NEW s, NEW m \in w,
           Shared(all, w, d, x, c, s)
    PROVE  /\ Shared(all, w \ {m}, d, x \cup {m}, c, s)
           /\ Shared(all, w \ {m}, d, x, c \cup {m}, s)
           /\ Shared(all, w \ {m}, d, x, c, s \cup {m})
PROOF
  <1> USE DEF Shared
  <1>1. Shared(all, w \ {m}, d, x \cup {m}, c, s)
    OBVIOUS
  <1>2. Shared(all, w \ {m}, d, x, c \cup {m}, s)
    OBVIOUS
  <1>3. Shared(all, w \ {m}, d, x, c, s \cup {m})
    OBVIOUS
  <1> QED BY <1>1, <1>2, <1>3

\* A new message waits, and some of those that wait are dropped, maybe itself.
LEMMA Arriving ==
    ASSUME NEW all, NEW w, NEW d, NEW x, NEW c, NEW s, NEW m, m \notin all,
           NEW w2, w2 \subseteq w \cup {m}, Shared(all, w, d, x, c, s)
    PROVE  Shared(all \cup {m}, w2, d \cup ((w \cup {m}) \ w2), x, c, s)
  BY DEF Shared

\* Pushes, pops and the worker's and stop's handling of a message move it from
\* one place to another (rel4u_server_send, drain_send_queue,
\* rel4u_server_stop).
LEMMA AccountedKept ==
    ASSUME QueueInv, Accounted, Next
    PROVE  Accounted'
PROOF
  <1> USE DEF threadVars, tableVars, callVars, queueVars
  <1>0. IsList(send_queue) /\ Ascending(send_queue)
    BY DEF QueueInv, FreshInv, WaitingFresh, Ordered
  <1>1. ASSUME UNCHANGED <<to, send_queue, pending, dropped, discarded, cleared,
                           sent>>
        PROVE  Accounted'
    BY <1>1 DEF Accounted, Waiting, SentMsgs
  <1>2. ASSUME NEW i \in ClientIds,
               \/ SendBegins(i) \/ rel4u_server_disconnect_client(i)
               \/ Connects(i) \/ Completes(i) \/ Acknowledges(i) \/ Leaves(i)
        PROVE  Accounted'
    BY <1>1, <1>2 DEF SendBegins, rel4u_server_disconnect_client, Connects,
                      Completes, Acknowledges, Leaves, Receives
  <1>3. CASE \/ rel4u_server_start \/ rel4u_server_stop \/ StopJoins
             \/ StopFreesSessions \/ WorkerTop \/ SocketEmpty \/ DrainPauses
    BY <1>1, <1>3 DEF rel4u_server_start, rel4u_server_stop, StopJoins,
                      StopFreesSessions, WorkerTop, SocketEmpty, DrainPauses
  <1>4. ASSUME NEW silent \in SUBSET Active, Timers(silent)
        PROVE  Accounted'
    BY <1>1, <1>4 DEF Timers
  <1>5. ASSUME NEW call \in calls, SendPushes(call)
        PROVE  Accounted'
    <2> DEFINE n == Len(to) + 1
    <2>1. /\ send_queue' = mpmc_push_back_locked(send_queue, n, TRUE).q
          /\ to' = Append(to, call.to)
          /\ dropped' = dropped \cup
                ((InQueue(send_queue) \cup {n}) \ InQueue(send_queue'))
          /\ UNCHANGED <<pending, discarded, cleared, sent>>
      BY <1>5 DEF SendPushes
    <2>2. /\ n \in Nat /\ n # pending /\ n \notin DOMAIN to
          /\ DOMAIN to' = DOMAIN to \cup {n}
      <3>1. /\ to \in Seq(ClientIds) /\ call.to \in ClientIds
            /\ pending \in 0 .. Len(to)
        BY DEF QueueInv, FreshInv, Types
      <3>2. to' \in Seq(ClientIds) /\ Len(to') = Len(to) + 1
        BY <2>1, <3>1
      <3> QED BY <3>1, <3>2
    <2> HIDE DEF n
    <2>3. InQueue(send_queue') \subseteq InQueue(send_queue) \cup {n}
      BY <1>0, <2>1, <2>2, PushAdds
    <2>4. ~(pending < pending)
      BY DEF QueueInv, FreshInv, Types
    <2>5. pending \notin InQueue(send_queue)
      BY <2>4 DEF QueueInv, Ordered
    <2>6. /\ Waiting' \subseteq Waiting \cup {n}
          /\ dropped' = dropped \cup ((Waiting \cup {n}) \ Waiting')
      BY <2>1, <2>2, <2>3, <2>5 DEF Waiting
    <2>7. SentMsgs' = SentMsgs
      BY <2>1 DEF SentMsgs
    <2>8. Shared(DOMAIN to \cup {n}, Waiting',
                 dropped \cup ((Waiting \cup {n}) \ Waiting'), discarded,
                 cleared, SentMsgs)
      BY <2>2, <2>6, Arriving DEF Accounted
    <2> QED BY <2>1, <2>2, <2>6, <2>7, <2>8 DEF Accounted
  <1>6. CASE StopPops
    <2>1. CASE send_queue.count > 0
      <3> DEFINE m == mpmc_pop_head_locked(send_queue).item
      <3>1. /\ cleared' = cleared \cup {m} /\ m \in InQueue(send_queue)
            /\ InQueue(send_queue') = InQueue(send_queue) \ {m}
            /\ UNCHANGED <<pending, to, dropped, discarded, sent>>
        BY <1>0, <1>6, <2>1, PopTakes DEF StopPops
      <3>2. m # pending
        <4>1. ~(pending < pending)
          BY DEF QueueInv, FreshInv, Types
        <4> QED BY <3>1, <4>1 DEF QueueInv, Ordered
      <3> HIDE DEF m
      <3>3. m \in Waiting /\ Waiting' = Waiting \ {m} /\ SentMsgs' = SentMsgs
        BY <3>1, <3>2 DEF Waiting, SentMsgs
      <3> QED BY <3>1, <3>3, Leaving DEF Accounted
    <2>2. CASE ~(send_queue.count > 0)
      BY <1>1, <1>6, <2>2 DEF StopPops
    <2> QED BY <2>1, <2>2
  <1>7. ASSUME send_queue' = send_queue, pending' = 0, pending # 0
        PROVE  pending \in Waiting /\ Waiting' = Waiting \ {pending}
    <2>1. ~(pending < pending)
      BY DEF QueueInv, FreshInv, Types
    <2>2. pending \notin InQueue(send_queue)
      BY <2>1 DEF QueueInv, Ordered
    <2> QED BY <1>7, <2>2 DEF Waiting
  <1>8. CASE StopClearsPending
    <2>1. CASE pending = 0
      BY <1>1, <1>8, <2>1 DEF StopClearsPending
    <2>2. CASE pending # 0
      <3>1. /\ cleared' = cleared \cup {pending}
            /\ pending \in Waiting /\ Waiting' = Waiting \ {pending}
            /\ UNCHANGED <<to, dropped, discarded, sent>>
        BY <1>7, <1>8, <2>2 DEF StopClearsPending
      <3>2. SentMsgs' = SentMsgs
        BY <3>1 DEF SentMsgs
      <3> QED BY <3>1, <3>2, Leaving DEF Accounted
    <2> QED BY <2>1, <2>2
  <1>9. CASE DrainDiscards
    <2>1. /\ discarded' = discarded \cup {pending}
          /\ pending \in Waiting /\ Waiting' = Waiting \ {pending}
          /\ UNCHANGED <<to, dropped, cleared, sent>>
      BY <1>7, <1>9 DEF DrainDiscards
    <2>2. SentMsgs' = SentMsgs
      BY <2>1 DEF SentMsgs
    <2> QED BY <2>1, <2>2, Leaving DEF Accounted
  <1>10. CASE DrainPops
    <2>1. CASE send_queue.count > 0
      <3>1. /\ pending = 0 /\ pending' \in InQueue(send_queue)
            /\ InQueue(send_queue') = InQueue(send_queue) \ {pending'}
            /\ UNCHANGED <<to, dropped, discarded, cleared, sent>>
        BY <1>0, <1>10, <2>1, PopTakes DEF DrainPops
      <3>2. pending' # 0
        <4>1. pending' \in DOMAIN to /\ to \in Seq(ClientIds)
          BY <3>1 DEF QueueInv, FreshInv, WaitingFresh, Waiting, Types
        <4> QED BY <4>1
      <3>3. Waiting' = Waiting /\ SentMsgs' = SentMsgs
        BY <3>1, <3>2 DEF Waiting, SentMsgs
      <3> QED BY <3>1, <3>3 DEF Accounted
    <2>2. CASE ~(send_queue.count > 0)
      BY <1>1, <1>10, <2>2 DEF DrainPops
    <2> QED BY <2>1, <2>2
  <1>11. CASE DrainSends
    <2> DEFINE record == [msg |-> pending, who |-> sessions[to[pending]].who,
                          run |-> runs]
    <2>1. /\ sent' = Append(sent, record) /\ record.msg = pending
          /\ pending \in Waiting /\ Waiting' = Waiting \ {pending}
          /\ UNCHANGED <<to, dropped, discarded, cleared>>
      BY <1>7, <1>11 DEF DrainSends
    <2>2. /\ sent \in Seq([msg : Nat, who : Nat, run : Nat])
          /\ sent' \in Seq([msg : Nat, who : Nat, run : Nat])
      BY TypesKept DEF QueueInv, FreshInv, Types
    <2> HIDE DEF record
    <2> DEFINE N == Len(sent)
    <2>3. /\ DOMAIN sent = 1 .. N /\ DOMAIN sent' = (1 .. N) \cup {N + 1}
          /\ \A k \in 1 .. N : sent'[k] = sent[k]
          /\ sent'[N + 1] = record
      BY <2>1, <2>2
    <2> HIDE DEF N
    <2>4. SentMsgs' = SentMsgs \cup {pending}
      BY <2>1, <2>3 DEF SentMsgs
    <2> QED BY <2>1, <2>4, Leaving DEF Accounted
  <1> QED BY <1>2, <1>3, <1>4, <1>5, <1>6, <1>8, <1>9, <1>10, <1>11
          DEF Next, ControlStep, WorkerStep

\* A message in one place is counted once.
LEMMA CountedOnce ==
    ASSUME QueueInv, Accounted
    PROVE  HandledOnce
PROOF
  <1> DEFINE places == <<InQueue(send_queue), {pending}, dropped, discarded,
                         cleared>>
  <1> SUFFICES ASSUME NEW n \in DOMAIN to
               PROVE  Cardinality(SentAt(n))
                        + Cardinality({p \in DOMAIN places : n \in places[p]})
                        = 1
    BY DEF HandledOnce
  <1> DEFINE at_places == {p \in DOMAIN places : n \in places[p]}
  <1>1. n # 0 /\ ~(pending < pending)
    BY DEF QueueInv, FreshInv, Types
  <1>2. /\ DOMAIN places = {1, 2, 3, 4, 5}
        /\ places[1] = InQueue(send_queue) /\ places[2] = {pending}
        /\ places[3] = dropped /\ places[4] = discarded /\ places[5] = cleared
    OBVIOUS
  <1> HIDE DEF places
  <1>3. pending \notin InQueue(send_queue)
    BY <1>1 DEF QueueInv, Ordered
  <1>4. n \in SentMsgs => \E k \in DOMAIN sent : SentAt(n) = {k}
    <2> SUFFICES ASSUME NEW k \in DOMAIN sent, sent[k].msg = n
                 PROVE  SentAt(n) = {k}
      BY DEF SentMsgs
    <2>1. ASSUME NEW j \in DOMAIN sent, sent[j].msg = n
          PROVE  j = k
      <3>1. j \in Int /\ k \in Int /\ n \in Int
        <4>1. /\ to \in Seq(ClientIds)
              /\ sent \in Seq([msg : Nat, who : Nat, run : Nat])
          BY DEF QueueInv, FreshInv, Types
        <4> QED BY <4>1
      <3>2. ~(j < k) /\ ~(k < j)
        BY <2>1, <3>1 DEF QueueInv, Ordered
      <3> QED BY <3>1, <3>2
    <2> QED BY <2>1 DEF SentAt
  <1>5. n \notin SentMsgs => SentAt(n) = {}
    BY DEF SentAt, SentMsgs
  <1>6. Cardinality({}) = 0 /\ \A k : Cardinality({k}) = 1
    BY FS_EmptySet, FS_Singleton
  <1>7. CASE n \in SentMsgs
    <2>1. at_places = {}
      BY <1>1, <1>2, <1>7 DEF Accounted, Shared, Waiting
    <2> HIDE DEF at_places
    <2>2. Cardinality(SentAt(n)) = 1 /\ Cardinality(at_places) = 0
      BY <1>4, <1>6, <1>7, <2>1
    <2> QED BY <2>2 DEF at_places
  <1>8. CASE n \notin SentMsgs
    <2>1. \E p : at_places = {p}
      <3>1. CASE n \in InQueue(send_queue)
        <4>1. at_places = {1}
          BY <1>1, <1>2, <1>3, <3>1 DEF Accounted, Shared, Waiting
        <4> QED BY <4>1
      <3>2. CASE n = pending
        <4>1. at_places = {2}
          BY <1>1, <1>2, <1>3, <3>2 DEF Accounted, Shared, Waiting
        <4> QED BY <4>1
      <3>3. CASE n \in dropped
        <4>1. at_places = {3}
          BY <1>1, <1>2, <3>3 DEF Accounted, Shared, Waiting
        <4> QED BY <4>1
      <3>4. CASE n \in discarded
        <4>1. at_places = {4}
          BY <1>1, <1>2, <3>4 DEF Accounted, Shared, Waiting
        <4> QED BY <4>1
      <3>5. CASE n \in cleared
        <4>1. at_places = {5}
          BY <1>1, <1>2, <3>5 DEF Accounted, Shared, Waiting
        <4> QED BY <4>1
      <3> QED BY <1>8, <3>1, <3>2, <3>3, <3>4, <3>5
              DEF Accounted, Shared, Waiting
    <2> HIDE DEF at_places
    <2>2. Cardinality(SentAt(n)) = 0 /\ Cardinality(at_places) = 1
      BY <1>5, <1>6, <1>8, <2>1
    <2> QED BY <2>2 DEF at_places
  <1> QED BY <1>7, <1>8 DEF places

\* A message that send pushed is handled once: neither a paused drain, nor an
\* eviction, nor a stop between two turns of the worker loses it or makes it go
\* out twice (rel4u_server.c:483-516, 153-156).
THEOREM HandledOnceHolds == Spec => []HandledOnce
PROOF
  <1>1. Init => Accounted
    <2> SUFFICES ASSUME Init PROVE Accounted
      OBVIOUS
    <2>1. InQueue(send_queue) = {}
      BY EmptyList DEF Init
    <2>2. /\ DOMAIN to = {} /\ Waiting = {} /\ dropped = {} /\ discarded = {}
          /\ cleared = {} /\ SentMsgs = {}
      BY <2>1 DEF Waiting, SentMsgs, Init
    <2> QED BY <2>2 DEF Accounted, Shared
  <1>2. QueueInv /\ Accounted /\ [Next]_vars => Accounted'
    <2>1. Accounted /\ UNCHANGED vars => Accounted'
      BY DEF Accounted, Waiting, SentMsgs, vars, threadVars, callVars, queueVars
    <2> QED BY <2>1, AccountedKept
  <1>3. QueueInv /\ Accounted => HandledOnce
    BY CountedOnce
  <1> QED BY <1>1, <1>2, <1>3, QueueInvariant, PTL DEF Spec

=============================================================================
