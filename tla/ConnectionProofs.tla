-------------------------- MODULE ConnectionProofs --------------------------
(***************************************************************************)
(* Proofs about Connection, for every value of its constants: windows and  *)
(* queues of any size, any number of messages, datagrams and events.       *)
(***************************************************************************)
EXTENDS Connection, ArithmeticLemmas, FiniteSetTheorems, SequenceTheorems, TLAPS

-----------------------------------------------------------------------------
(* Datagrams under way *)

\* Sending adds nothing but what is sent.
LEMMA SentAdds ==
    ASSUME NEW net, NEW new, NEW size, NEW net2 \in Sent(net, new, size)
    PROVE  net2 \subseteq net \cup new
BY DEF Sent

\* Receiving adds nothing.
LEMMA TakenAdds ==
    ASSUME NEW net, NEW p, NEW net2 \in Taken(net, p)
    PROVE  net2 \subseteq net
BY DEF Taken

\* The fields of the packets the two ends make.
LEMMA UpFields ==
    ASSUME NEW type, NEW id
    PROVE  Up(type, id).type = type /\ Up(type, id).id = id
BY DEF Up

LEMMA DataFields ==
    ASSUME NEW id, NEW seq, NEW m
    PROVE  Data(id, seq, m).type = "DATA" /\ Data(id, seq, m).id = id
BY DEF Data

LEMMA DownFields ==
    ASSUME NEW type, NEW s
    PROVE  Down(type, s).type = type /\ Down(type, s).id = s.id
BY DEF Down

LEMMA NoticeFields ==
    ASSUME NEW type, NEW id
    PROVE  Notice(type, id).type = type /\ Notice(type, id).id = id
BY DEF Notice

-----------------------------------------------------------------------------
(* Session ids *)

\* What makes ResetMeansGone and HandshakeAgreed inductive: the client sends
\* only ids it was connected with, and every id anywhere was made by the server.
IdInv ==
    /\ ids \in Nat
    /\ joined \subseteq 1 .. ids
    /\ session_id \in joined \cup {0}
    /\ sess # NoSession => sess.id \in 1 .. ids
    /\ \A p \in up : p.id \in joined \cup {0}
    /\ \A p \in down : p.id \in 0 .. ids
    /\ ResetMeansGone
    /\ HandshakeAgreed

\* A step of the client's threads.
LEMMA ClientStep ==
    ASSUME IdInv, UNCHANGED <<sess, ids>>,
           joined \subseteq joined', joined' \subseteq 1 .. ids,
           session_id' \in joined' \cup {0},
           \A p \in up' : p \in up \/ p.id \in joined' \cup {0},
           down' \subseteq down
    PROVE  IdInv'
BY DEF IdInv, ResetMeansGone, HandshakeAgreed

\* A step of the server's.
LEMMA ServerStep ==
    ASSUME IdInv, UNCHANGED <<session_id, joined>>, up' \subseteq up,
           ids' \in Nat, ids <= ids',
           sess' # NoSession =>
              /\ sess'.id \in 1 .. ids'
              /\ sess'.id > ids \/ (sess # NoSession /\ sess'.id = sess.id)
              /\ sess'.state = "CONNECTED" => sess'.id \in joined,
           \A p \in down' : \/ p \in down
                            \/ /\ p.id \in 0 .. ids'
                               /\ p.type = "RESET" => sess' = NoSession \/ sess'.id # p.id
    PROVE  IdInv'
<1>1. joined' \subseteq 1 .. ids'
  BY DEF IdInv
<1>2. \A p \in down' : p.id \in 0 .. ids'
  BY DEF IdInv
<1>3. ResetMeansGone'
  <2> SUFFICES ASSUME NEW p \in down', p.type = "RESET", sess' # NoSession
               PROVE  sess'.id # p.id
    BY DEF ResetMeansGone
  <2>1. CASE p \in down
    BY <2>1 DEF IdInv, ResetMeansGone
  <2>2. CASE p \notin down
    BY <2>2
  <2> QED BY <2>1, <2>2
<1>4. HandshakeAgreed'
  BY DEF HandshakeAgreed
<1> QED
  BY <1>1, <1>2, <1>3, <1>4 DEF IdInv

\* The client's threads keep IdInv: ids reach it only in a CONNECT_RESP, and it
\* sends the one it has.
LEMMA ClientKeepsIds ==
    ASSUME IdInv
    PROVE  /\ rel4u_client_send \/ rel4u_client_disconnect \/ SendFin \/ StopWorker
                \/ JoinWorker \/ rel4u_client_connect \/ StartWorker \/ Connected
                \/ ConnectFails \/ ConnectTimesOut \/ WorkerEnds \/ WorkerTop
                \/ WorkerSends => IdInv'
           /\ \A p \in down : WorkerReceives(p) => IdInv'
<1> USE DEF clientVars, workerVars, appVars, serverVars, sendVars, joinVars,
            deliveryVars
<1>1. ASSUME rel4u_client_send PROVE IdInv'
  <2> UNCHANGED <<sess, ids, joined, session_id, up, down>>
    BY <1>1 DEF rel4u_client_send
  <2> QED BY ClientStep DEF IdInv
<1>2. ASSUME NEW next, Disconnect(next) PROVE IdInv'
  <2> UNCHANGED <<sess, ids, joined, session_id, up, down>>
    BY <1>2 DEF Disconnect
  <2> QED BY ClientStep DEF IdInv
<1>3. ASSUME SendFin PROVE IdInv'
  <2>1. up' \subseteq up \cup {Up("DISCONNECT", session_id)}
    BY <1>3, SentAdds DEF SendFin, SendUp
  <2>2. UNCHANGED <<sess, ids, joined, session_id, down>>
    BY <1>3 DEF SendFin
  <2> QED BY <2>1, <2>2, ClientStep, UpFields DEF IdInv
<1>4. ASSUME StopWorker \/ Connected \/ WorkerEnds PROVE IdInv'
  <2> UNCHANGED <<sess, ids, joined, session_id, up, down>>
    BY <1>4 DEF StopWorker, Connected, WorkerEnds
  <2> QED BY ClientStep DEF IdInv
<1>5. ASSUME JoinWorker \/ StartWorker PROVE IdInv'
  <2> session_id' = 0 /\ UNCHANGED <<sess, ids, joined, up, down>>
    BY <1>5 DEF JoinWorker, StartWorker
  <2> QED BY ClientStep DEF IdInv
<1>6. ASSUME WorkerTop PROVE IdInv'
  <2>1. up' \subseteq up \cup {Up("CONNECT_REQ", session_id)}
    BY <1>6, SentAdds DEF WorkerTop, SendUp
  <2>2. UNCHANGED <<sess, ids, joined, session_id, down>>
    BY <1>6 DEF WorkerTop
  <2> QED BY <2>1, <2>2, ClientStep, UpFields DEF IdInv
<1>7. ASSUME NEW win, NEW queue, client_trigger_reconnect(win, queue)
      PROVE  session_id' \in {0, session_id}
  BY <1>7 DEF client_trigger_reconnect
<1>8. ASSUME WorkerSends PROVE IdInv'
  <2>1. UNCHANGED <<sess, ids, joined, down>> /\ session_id' \in {0, session_id}
    BY <1>7, <1>8 DEF WorkerSends
  <2>2. \A p \in up' : p \in up \/ p.id = session_id
    <3>1. PICK new : up' \in Sent(up, new, limits.up) /\ \A p \in new : p.id = session_id
      BY <1>8, UpFields, DataFields DEF WorkerSends, SendUp
    <3> QED BY <3>1, SentAdds
  <2> QED BY <2>1, <2>2, ClientStep DEF IdInv
<1>9. ASSUME NEW p \in down, WorkerReceives(p) PROVE IdInv'
  <2>1. down' \subseteq down
    BY <1>9, TakenAdds DEF WorkerReceives
  <2>2. UNCHANGED <<sess, ids>>
    BY <1>9 DEF WorkerReceives
  <2>3. CASE ~Relevant(p)
    <3> UNCHANGED <<joined, session_id, up>>
      BY <1>9, <2>3 DEF WorkerReceives
    <3> QED BY <2>1, <2>2, ClientStep DEF IdInv
  <2>4. CASE Relevant(p) /\ OnConnectResp(p)
    <3>1. p.id \in 1 .. ids
      BY <2>4 DEF Relevant, OnConnectResp, IdInv
    <3>2. up' \subseteq up \cup {Up("HEARTBEAT", p.id)}
      BY <2>4, SentAdds DEF OnConnectResp, SendUp
    <3>3. session_id' = p.id /\ joined' = joined \cup {p.id}
      BY <2>4 DEF OnConnectResp
    <3>4. joined \subseteq joined' /\ joined' \subseteq 1 .. ids
      BY <3>1, <3>3 DEF IdInv
    <3>5. \A q \in up' : q \in up \/ q.id \in joined' \cup {0}
      BY <3>2, <3>3, UpFields
    <3>6. session_id' \in joined' \cup {0}
      BY <3>3
    <3> QED BY <2>1, <2>2, <3>4, <3>5, <3>6, ClientStep
  <2>5. CASE OnReset(p)
    <3> session_id' \in {0, session_id} /\ UNCHANGED <<joined, up>>
      BY <1>7, <2>5 DEF OnReset
    <3> QED BY <2>1, <2>2, ClientStep DEF IdInv
  <2>6. CASE OnRejectOrDisconnect(p)
    <3> UNCHANGED <<joined, session_id, up>>
      BY <2>6 DEF OnRejectOrDisconnect
    <3> QED BY <2>1, <2>2, ClientStep DEF IdInv
  <2>7. CASE OnAck(p)
    <3>1. up' \subseteq up \cup {Up("HEARTBEAT", session_id)}
      BY <2>7, SentAdds DEF OnAck, SendUp
    <3>2. UNCHANGED <<joined, session_id>>
      BY <2>7 DEF OnAck
    <3> QED BY <2>1, <2>2, <3>1, <3>2, ClientStep, UpFields DEF IdInv
  <2> QED BY <1>9, <2>3, <2>4, <2>5, <2>6, <2>7 DEF WorkerReceives
<1> QED
  BY <1>1, <1>2, <1>3, <1>4, <1>5, <1>6, <1>8, <1>9
  DEF rel4u_client_disconnect, rel4u_client_connect, ConnectFails, ConnectTimesOut

\* The server's threads keep it: an id is never used again, a RESET answers an
\* id that is not the session's, and only a packet with the session's id, which
\* the client must have had, promotes the session.
LEMMA ServerKeepsIds ==
    ASSUME IdInv
    PROVE  /\ ServerTimers \/ Forget \/ rel4u_server_disconnect_client => IdInv'
           /\ \A p \in up : ServerReceives(p) => IdInv'
<1> USE DEF clientVars, workerVars, appVars, serverVars, sendVars, joinVars,
            deliveryVars
<1>1. ASSUME ServerTimers PROVE IdInv'
  <2>1. down' \subseteq down \cup {Down("HEARTBEAT", sess)}
    BY <1>1, SentAdds DEF ServerTimers, SendDown
  <2>2. sess # NoSession /\ UNCHANGED <<sess, ids, session_id, joined, up>>
    BY <1>1 DEF ServerTimers
  <2>3. \A p \in down' : p \in down \/ (p.id \in 0 .. ids /\ p.type = "HEARTBEAT")
    BY <2>1, <2>2, DownFields DEF IdInv
  <2> QED BY <2>2, <2>3, ServerStep DEF IdInv, HandshakeAgreed
<1>2. ASSUME Forget PROVE IdInv'
  <2>1. sess' = NoSession /\ UNCHANGED <<ids, session_id, joined, up, down>>
    BY <1>2 DEF Forget, session_free
  <2> QED BY <2>1, ServerStep DEF IdInv
<1>3. ASSUME rel4u_server_disconnect_client PROVE IdInv'
  <2>1. down' \subseteq down \cup {Notice("DISCONNECT", sess.id)}
    BY <1>3, SentAdds DEF rel4u_server_disconnect_client, SendDown
  <2>2. sess # NoSession /\ sess' = NoSession /\ UNCHANGED <<ids, session_id, joined, up>>
    BY <1>3 DEF rel4u_server_disconnect_client, session_free
  <2>3. \A p \in down' : p \in down \/ (p.id \in 0 .. ids /\ p.type = "DISCONNECT")
    BY <2>1, <2>2, NoticeFields DEF IdInv
  <2> QED BY <2>2, <2>3, ServerStep DEF IdInv
<1>4. ASSUME NEW p \in up, ServerReceives(p) PROVE IdInv'
  <2>1. up' \subseteq up
    BY <1>4, TakenAdds DEF ServerReceives
  <2>2. UNCHANGED <<session_id, joined>>
    BY <1>4 DEF ServerReceives
  <2>3. CASE OnConnectReq(p) /\ sess # NoSession
    <3>1. UNCHANGED <<sess, ids>>
      BY <2>3 DEF OnConnectReq
    <3>2. down' \subseteq down \cup {Down("CONNECT_RESP", sess)}
      BY <2>3, SentAdds DEF OnConnectReq, SendDown
    <3>3. \A q \in down' : q \in down \/ (q.id \in 0 .. ids /\ q.type = "CONNECT_RESP")
      BY <2>3, <3>2, DownFields DEF IdInv
    <3> QED BY <2>1, <2>2, <2>3, <3>1, <3>3, ServerStep DEF IdInv, HandshakeAgreed
  <2>4. CASE OnConnectReq(p) /\ sess = NoSession
    <3>1. CASE ids' = ids + 1 /\ sess' = NewSession(ids')
               /\ SendDown({Down("CONNECT_RESP", sess')})
      <4>1. ids' \in Nat /\ ids' > ids
        BY <3>1 DEF IdInv
      <4>2. sess'.id = ids' /\ sess'.state = "CONNECTING"
        BY <3>1 DEF NewSession
      <4>3. down' \subseteq down \cup {Down("CONNECT_RESP", sess')}
        BY <3>1, SentAdds DEF SendDown
      <4>4. \A q \in down' : q \in down \/ (q.id \in 0 .. ids' /\ q.type = "CONNECT_RESP")
        BY <4>1, <4>2, <4>3, DownFields
      <4>5. sess'.id \in 1 .. ids' /\ sess'.id > ids /\ ids <= ids'
        BY <4>1, <4>2 DEF IdInv
      <4> QED BY <2>1, <2>2, <4>1, <4>2, <4>4, <4>5, ServerStep
    <3>2. CASE SendDown({Notice("REJECT", 0)}) /\ UNCHANGED serverVars
      <4>1. down' \subseteq down \cup {Notice("REJECT", 0)}
        BY <3>2, SentAdds DEF SendDown
      <4>2. \A q \in down' : q \in down \/ (q.id \in 0 .. ids /\ q.type = "REJECT")
        BY <4>1, NoticeFields DEF IdInv
      <4> QED BY <2>1, <2>2, <2>4, <3>2, <4>2, ServerStep DEF IdInv
    <3> QED BY <2>4, <3>1, <3>2 DEF OnConnectReq
  <2>5. CASE OnUnknown(p)
    <3>1. ~(sess # NoSession /\ sess.id = p.id) /\ UNCHANGED <<sess, ids>>
      BY <2>5 DEF OnUnknown, Known
    <3>2. down' \subseteq down \cup {Notice("RESET", p.id)}
      BY <2>5, SentAdds DEF OnUnknown, SendDown
    <3>3. p.id \in 0 .. ids
      <4>1. p.id \in joined \cup {0} /\ joined \subseteq 1 .. ids /\ ids \in Nat
        BY DEF IdInv
      <4>2. CASE p.id = 0
        BY <4>1, <4>2
      <4>3. CASE p.id \in joined
        <5>1. p.id \in 1 .. ids
          BY <4>1, <4>3
        <5> QED BY <4>1, <5>1
      <4> QED BY <4>1, <4>2, <4>3
    <3>4. \A q \in down' : q \in down \/ q.id = p.id
      BY <3>2, NoticeFields
    <3> QED BY <2>1, <2>2, <3>1, <3>3, <3>4, ServerStep DEF IdInv, HandshakeAgreed
  <2>6. ASSUME Known(p) PROVE sess # NoSession /\ sess.id \in joined /\ sess.id \in 1 .. ids
    BY <2>6 DEF Known, IdInv
  <2>7. CASE OnHeartbeat(p)
    <3>1. Known(p) /\ sess' = Promoted /\ ids' = ids
      BY <2>7 DEF OnHeartbeat
    <3>2. sess'.id = sess.id
      BY <3>1 DEF Promoted
    <3>3. down' \subseteq down \cup {Down("HEARTBEAT", sess)}
      BY <2>7, SentAdds DEF OnHeartbeat, SendDown
    <3>4. \A q \in down' : q \in down \/ (q.id \in 0 .. ids /\ q.type = "HEARTBEAT")
      BY <2>6, <3>1, <3>3, DownFields
    <3> QED BY <2>1, <2>2, <2>6, <3>1, <3>2, <3>4, ServerStep DEF IdInv
  <2>8. CASE OnDisconnect(p)
    <3>1. sess' = NoSession /\ UNCHANGED <<ids, down>>
      BY <2>8 DEF OnDisconnect, session_free
    <3> QED BY <2>1, <2>2, <3>1, ServerStep DEF IdInv
  <2>9. CASE OnData(p)
    <3>1. Known(p) /\ UNCHANGED <<ids, down>>
      BY <2>9 DEF OnData
    <3>2. PICK win : sess' = [Promoted EXCEPT !.recv_win = win]
      BY <2>9 DEF OnData
    <3>3. Promoted.id = sess.id
      BY DEF Promoted
    <3>4. sess'.id = sess.id
      BY <3>2, <3>3
    <3> QED BY <2>1, <2>2, <2>6, <3>1, <3>4, ServerStep DEF IdInv
  <2> QED BY <1>4, <2>3, <2>4, <2>5, <2>7, <2>8, <2>9 DEF ServerReceives
<1> QED BY <1>1, <1>2, <1>3, <1>4

\* IdInv holds in every reachable state.
THEOREM IdsRight == Spec => []IdInv
<1>1. Init => IdInv
  BY DEF Init, IdInv, ResetMeansGone, HandshakeAgreed
<1>2. IdInv /\ [Next]_vars => IdInv'
  <2> SUFFICES ASSUME IdInv, [Next]_vars PROVE IdInv'
    OBVIOUS
  <2>1. CASE UNCHANGED vars
    BY <2>1 DEF vars, clientVars, serverVars, joinVars, IdInv, ResetMeansGone,
                HandshakeAgreed
  <2>2. CASE NetworkHeals
    BY <2>2 DEF NetworkHeals, clientVars, serverVars, joinVars, IdInv,
                ResetMeansGone, HandshakeAgreed
  <2> QED BY <2>1, <2>2, ClientKeepsIds, ServerKeepsIds DEF Next
<1> QED BY <1>1, <1>2, PTL DEF Spec

\* Over any network and any number of sessions, a RESET never names a session
\* the server still has.
THEOREM ResetAlwaysMeansGone == Spec => []ResetMeansGone
BY IdsRight, PTL DEF IdInv

\* A session is CONNECTED only when the client had its id.
THEOREM HandshakeAlwaysAgreed == Spec => []HandshakeAgreed
BY IdsRight, PTL DEF IdInv

-----------------------------------------------------------------------------
(* Disconnected for good *)

\* What DisconnectIsFinal rests on: a worker that reads its socket knows when
\* the client is disconnected, although it reads the state once per turn only.
WorkerKnows ==
    worker = "loop" /\ at = "socket" /\ state = "DISCONNECTED" => st = "DISCONNECTED"

FinalStep ==
    state = "DISCONNECTED" /\ state' \notin {"DISCONNECTED", "DISCONNECTING"}
        => app = "connect"

\* A packet that changes what the client is finds a worker that did not know it
\* to be disconnected.
LEMMA ReceivesFinal ==
    ASSUME WorkerKnows, NEW p \in down, WorkerReceives(p)
    PROVE  WorkerKnows' /\ FinalStep
<1> USE DEF WorkerKnows, FinalStep
<1>1. worker = "loop" /\ at = "socket" /\ worker' = worker
  BY DEF WorkerReceives
<1>2. CASE ~Relevant(p)
  BY <1>1, <1>2 DEF WorkerReceives, clientVars
<1>3. CASE Relevant(p) /\ OnConnectResp(p)
  <2>1. st = "CONNECTING" /\ state' = "CONNECTED"
    BY <1>3 DEF Relevant, OnConnectResp
  <2> QED BY <1>1, <2>1
<1>4. CASE Relevant(p) /\ OnReset(p)
  <2>1. st = "CONNECTED"
    BY <1>4 DEF Relevant, OnReset
  <2>2. st' = state'
    BY <1>4 DEF OnReset
  <2> QED BY <1>1, <2>1, <2>2
<1>5. CASE OnRejectOrDisconnect(p)
  BY <1>5 DEF OnRejectOrDisconnect
<1>6. CASE OnAck(p)
  BY <1>1, <1>6 DEF OnAck
<1> QED BY <1>2, <1>3, <1>4, <1>5, <1>6 DEF WorkerReceives

\* Every step keeps WorkerKnows and is as DisconnectIsFinal says.
LEMMA StepFinal ==
    ASSUME WorkerKnows, [Next]_vars
    PROVE  WorkerKnows' /\ FinalStep
<1> USE DEF WorkerKnows, FinalStep
<1> USE DEF clientVars, workerVars, appVars
<1>1. ASSUME NEW next, Disconnect(next) PROVE WorkerKnows' /\ FinalStep
  <2>1. UNCHANGED <<worker, at, st>>
    BY <1>1 DEF Disconnect
  <2>2. \/ worker = "none" /\ state' = "DISCONNECTED"
        \/ state' = "DISCONNECTING"
        \/ state' = state
    BY <1>1 DEF Disconnect
  <2> QED BY <2>1, <2>2
<1>2. CASE UNCHANGED vars
  BY <1>2 DEF vars
<1>3. CASE rel4u_client_send \/ SendFin \/ StopWorker \/ Connected \/ NetworkHeals
  BY <1>3 DEF rel4u_client_send, SendFin, StopWorker, Connected, NetworkHeals
<1>4. CASE ServerTimers \/ Forget \/ rel4u_server_disconnect_client
  BY <1>4 DEF ServerTimers, Forget, rel4u_server_disconnect_client
<1>5. CASE \E p \in up : ServerReceives(p)
  BY <1>5 DEF ServerReceives
<1>6. CASE JoinWorker
  BY <1>6 DEF JoinWorker
<1>7. CASE StartWorker
  BY <1>7 DEF StartWorker
<1>8. CASE WorkerEnds
  BY <1>8 DEF WorkerEnds
<1>9. CASE WorkerTop
  BY <1>9 DEF WorkerTop
<1>10. CASE WorkerSends
  <2>1. at' = "top" /\ worker = "loop" /\ at \in {"socket", "last"}
    BY <1>10 DEF WorkerSends
  <2>2. state' = state \/ (st = "CONNECTED" /\ at # "last")
    BY <1>10 DEF WorkerSends
  <2> QED BY <2>1, <2>2
<1>11. CASE \E p \in down : WorkerReceives(p)
  BY <1>11, ReceivesFinal
<1>12. CASE rel4u_client_disconnect \/ rel4u_client_connect \/ ConnectFails
            \/ ConnectTimesOut
  BY <1>1, <1>12 DEF rel4u_client_disconnect, rel4u_client_connect,
                     ConnectFails, ConnectTimesOut
<1> QED
  BY <1>2, <1>3, <1>4, <1>5, <1>6, <1>7, <1>8, <1>9, <1>10, <1>11, <1>12 DEF Next

\* A disconnected client stays so until connect is called, whatever arrives late.
THEOREM DisconnectAlwaysFinal == Spec => DisconnectIsFinal
<1>1. Init => WorkerKnows
  BY DEF Init, WorkerKnows
<1>2. WorkerKnows /\ [Next]_vars => WorkerKnows' /\ [FinalStep]_vars
  BY StepFinal
<1>3. [FinalStep]_vars =>
        [state = "DISCONNECTED" /\ state' \notin {"DISCONNECTED", "DISCONNECTING"}
            => app = "connect"]_vars
  BY DEF FinalStep
<1> QED BY <1>1, <1>2, <1>3, PTL DEF Spec, DisconnectIsFinal

-----------------------------------------------------------------------------
(* Sequence numbers of a connection: they start with 1 *)

Half == SeqMod \div 2

\* The number of the n-th message of a connection, and its slot.
SeqAt(n) == n % SeqMod
At(n) == SeqAt(n) % WindowSize

\* The sizes of the window and of the sequence space.
LEMMA Sizes ==
    /\ SeqMod \in Nat \ {0} /\ Half \in Nat /\ SeqMod = 2 * Half
    /\ WindowSize \in Nat \ {0} /\ WindowSize < Half
    /\ SeqMod % WindowSize = 0
  BY SeqModAssumption, ConnectionAssumption DEF Half

\* The number and the slot are in their range.
LEMMA SeqAtType ==
    ASSUME NEW n \in Int
    PROVE  /\ SeqAt(n) \in Int
           /\ At(n) \in 0 .. (WindowSize - 1)
PROOF
  <1>1. SeqAt(n) \in Int
    BY Sizes, DivMod DEF SeqAt
  <1> QED BY Zenon, <1>1, Sizes, DivMod DEF At

\* Counting on, or back, from a number (seq + i).
LEMMA SeqAtAdd ==
    ASSUME NEW n \in Int, NEW k \in Int
    PROVE  seq_add(SeqAt(n), k) = SeqAt(n + k)
  BY Zenon, Sizes, ModAdd DEF seq_add, SeqAt

\* The distance of two messages is what the code computes (rel4u_seq_diff).
LEMMA SeqAtDiff ==
    ASSUME NEW a \in Int, NEW b \in Int, -Half <= a - b, a - b < Half
    PROVE  seq_diff(SeqAt(a), SeqAt(b)) = a - b
PROOF
  <1>1. ((a % SeqMod) - (b % SeqMod)) % SeqMod = (a - b) % SeqMod
    BY Zenon, Sizes, ModSub
  <1>2. CASE a - b >= 0
    <2>1. a - b = SeqMod * 0 + (a - b) /\ a - b \in 0 .. (SeqMod - 1)
      BY <1>2, Sizes
    <2>2. (a - b) % SeqMod = a - b
      BY <2>1, Sizes, ModUnique
    <2> QED BY Zenon, <1>1, <1>2, <2>2 DEF seq_diff, Half, SeqAt
  <1>3. CASE a - b < 0
    <2>1. /\ a - b = SeqMod * (-1) + (a - b + SeqMod)
          /\ a - b + SeqMod \in 0 .. (SeqMod - 1)
      BY <1>3, Sizes
    <2>2. (a - b) % SeqMod = a - b + SeqMod
      BY <2>1, Sizes, ModUnique
    <2>3. a - b + SeqMod >= Half
      BY Sizes
    <2> QED BY <1>1, <1>3, <2>2, <2>3, Sizes DEF seq_diff, Half, SeqAt
  <1> QED BY <1>2, <1>3

\* Messages less than a window apart have slots of their own.
LEMMA SlotsApart ==
    ASSUME NEW a \in Int, NEW b \in Int, a - b < WindowSize, b - a < WindowSize,
           At(a) = At(b)
    PROVE  a = b
PROOF
  <1>1. At(a) = a % WindowSize /\ At(b) = b % WindowSize
    BY Zenon, Sizes, ModOfMod DEF At, SeqAt
  <1> QED BY Zenon, <1>1, Sizes, ModApart

-----------------------------------------------------------------------------
(* The client's send window, whatever acknowledgements come in *)

WindowFields == {"capacity", "head_seq", "next_seq", "next_unrel_seq",
                 "in_flight", "slots"}
SlotFields == {"seq_num", "first_sent_time", "last_sent_time",
               "retransmit_count", "delivery_mode", "in_use", "acked",
               "payload"}

\* The window has sent the messages of msgs since the connection began, and
\* those from the h-th on are in their slots.
Carries(win, h, msgs) ==
    /\ DOMAIN win = WindowFields /\ win.capacity = WindowSize
    /\ DOMAIN win.slots = 0 .. (WindowSize - 1)
    /\ \A i \in 0 .. (WindowSize - 1) : DOMAIN win.slots[i] = SlotFields
    /\ msgs \in Seq(Nat) /\ h \in 1 .. (Len(msgs) + 1)
    /\ Len(msgs) + 1 - h <= WindowSize
    /\ win.head_seq = SeqAt(h) /\ win.next_seq = SeqAt(Len(msgs) + 1)
    /\ \A n \in h .. Len(msgs) :
        /\ win.slots[At(n)].in_use
        /\ win.slots[At(n)].seq_num = SeqAt(n)
        /\ win.slots[At(n)].payload = msgs[n]

\* What the code reads off such a window.
LEMMA CarriesFacts ==
    ASSUME NEW win, NEW h, NEW msgs, Carries(win, h, msgs)
    PROVE  /\ Len(msgs) \in Nat /\ h \in Int /\ h >= 1
           /\ 0 <= Len(msgs) + 1 - h /\ Len(msgs) + 1 - h < Half
           /\ seq_diff(win.next_seq, win.head_seq) = Len(msgs) + 1 - h
           /\ Outstanding(win) = {SeqAt(n) : n \in h .. Len(msgs)}
           /\ \A n \in Int : /\ SlotIdx(win, SeqAt(n)) = At(n)
                             /\ SlotOf(win, SeqAt(n)) = win.slots[At(n)]
           /\ Payloads(win, Outstanding(win)) = {msgs[n] : n \in h .. Len(msgs)}
PROOF
  <1> DEFINE L == Len(msgs)
  <1>1. L \in Nat /\ h \in Int /\ h >= 1 /\ L + 1 \in Int /\ h <= L + 1
    BY DEF Carries
  <1>2. 0 <= L + 1 - h /\ L + 1 - h < Half
    <2>1. L + 1 - h <= WindowSize
      BY Zenon DEF Carries
    <2> QED BY <1>1, <2>1, Sizes
  <1>3. seq_diff(SeqAt(L + 1), SeqAt(h)) = L + 1 - h
    BY <1>1, <1>2, SeqAtDiff, Sizes
  <1>4. win.head_seq = SeqAt(h) /\ win.next_seq = SeqAt(L + 1)
    BY Zenon DEF Carries
  <1>5. Outstanding(win) = {SeqAt(n) : n \in h .. L}
    <2>1. Outstanding(win) = {seq_add(SeqAt(h), i) : i \in 0 .. (L - h)}
      <3>2. 0 .. (seq_diff(win.next_seq, win.head_seq) - 1) = 0 .. (L - h)
        <4>1. seq_diff(win.next_seq, win.head_seq) = L + 1 - h
          BY Zenon, <1>3, <1>4
        <4> QED BY <1>1, <4>1
      <3> QED BY Zenon, <1>4, <3>2 DEF Outstanding
    <2>2. \A i \in 0 .. (L - h) : i \in Int /\ h + i \in h .. L
      BY <1>1
    <2>3. \A i \in 0 .. (L - h) : seq_add(SeqAt(h), i) = SeqAt(h + i)
      BY Zenon, <1>1, <2>2, SeqAtAdd
    <2>4. \A n \in h .. L : n - h \in 0 .. (L - h) /\ h + (n - h) = n
      BY <1>1
    <2> QED BY <2>1, <2>2, <2>3, <2>4
  <1>6. ASSUME NEW n \in Int
        PROVE  SlotIdx(win, SeqAt(n)) = At(n) /\ SlotOf(win, SeqAt(n)) = win.slots[At(n)]
    BY Zenon DEF Carries, SlotIdx, SlotOf, At
  <1>7. Payloads(win, Outstanding(win)) = {msgs[n] : n \in h .. L}
    <2>1. \A n \in h .. L : SlotOf(win, SeqAt(n)).payload = msgs[n]
      <3> SUFFICES ASSUME NEW n \in h .. L PROVE SlotOf(win, SeqAt(n)).payload = msgs[n]
        OBVIOUS
      <3>1. n \in Int
        BY <1>1
      <3> QED BY Zenon, <1>6, <3>1 DEF Carries
    <2> QED BY <1>5, <2>1 DEF Payloads
  <1> QED BY Zenon, <1>1, <1>2, <1>3, <1>4, <1>5, <1>6, <1>7

\* A new connection starts with an empty window (rel4u_send_window_reset).
LEMMA ResetCarries ==
    /\ Carries(send_window_init(WindowSize, 1), 1, << >>)
    /\ \A win : win.capacity = WindowSize =>
           send_window_reset(win, 1) = send_window_init(WindowSize, 1)
PROOF
  <1>1. SeqAt(1) = 1
    <2>1. SeqMod > 1
      BY Zenon, SeqModAssumption
    <2> QED BY <2>1, Sizes, ModSmall DEF SeqAt
  <1>2. Len(<< >>) = 0 /\ << >> \in Seq(Nat)
    OBVIOUS
  <1>3. Carries(send_window_init(WindowSize, 1), 1, << >>)
    BY <1>1, <1>2, Sizes DEF send_window_init, FreeSendSlot, Carries,
                             WindowFields, SlotFields
  <1> QED BY Zenon, <1>3 DEF send_window_reset

\* A window with room takes a message, or has no slot for its mode
\* (rel4u_send_window_push).
LEMMA PushCarries ==
    ASSUME NEW win, NEW h, NEW msgs, Carries(win, h, msgs),
           send_window_can_send(win), NEW mode, NEW m \in Nat,
           NEW new, new = send_window_push(win, mode, m, 0)
    PROVE  \/ Carries(new, h, Append(msgs, m))
           \/ Carries(new, h, msgs)
PROOF
  <1> DEFINE L == Len(msgs)
             more == Append(msgs, m)
             slot == [seq_num |-> win.next_seq, first_sent_time |-> 0,
                      last_sent_time |-> 0, retransmit_count |-> 0,
                      delivery_mode |-> mode, in_use |-> TRUE,
                      acked |-> FALSE, payload |-> m]
             unrel == [win EXCEPT !.next_unrel_seq = seq_add(@, 1)]
             placed == [win EXCEPT !.next_seq = seq_add(@, 1),
                                   !.in_flight = @ + 1,
                                   !.slots[SlotIdx(win, win.next_seq)] = slot]
  <1>1. new = unrel \/ new = placed
    BY Zenon DEF send_window_push
  <1>2. CASE new = unrel
    <2>1. /\ DOMAIN new = WindowFields /\ new.capacity = win.capacity
          /\ new.slots = win.slots /\ new.head_seq = win.head_seq
          /\ new.next_seq = win.next_seq
      <3>1. DOMAIN win = WindowFields
        BY Zenon DEF Carries
      <3> QED BY Zenon, <1>2, <3>1 DEF WindowFields
    <2> QED BY Zenon, <2>1 DEF Carries
  <1>3. CASE new = placed
    <2>1. /\ L \in Nat /\ h \in 1 .. (L + 1) /\ L + 1 - h < WindowSize
          /\ h \in Int /\ L + 1 \in Int
      <3>1. L \in Nat /\ seq_diff(win.next_seq, win.head_seq) = L + 1 - h
        BY Zenon, CarriesFacts
      <3> QED BY <3>1 DEF send_window_can_send, Carries
    <2>2. /\ win.next_seq = SeqAt(L + 1) /\ SlotIdx(win, win.next_seq) = At(L + 1)
          /\ At(L + 1) \in 0 .. (WindowSize - 1)
      <3>1. win.next_seq = SeqAt(L + 1)
        BY Zenon DEF Carries
      <3>2. \A n \in Int : SlotIdx(win, SeqAt(n)) = At(n)
        BY Zenon, CarriesFacts
      <3> QED BY Zenon, <2>1, <3>1, <3>2, SeqAtType
    <2>3. /\ more \in Seq(Nat) /\ Len(more) = L + 1 /\ more[L + 1] = m
          /\ \A n \in 1 .. L : more[n] = msgs[n]
      BY <2>1 DEF Carries
    <2>4. \A n \in h .. L : At(n) # At(L + 1) /\ At(n) \in 0 .. (WindowSize - 1)
      <3> SUFFICES ASSUME NEW n \in h .. L
                   PROVE  At(n) # At(L + 1) /\ At(n) \in 0 .. (WindowSize - 1)
        OBVIOUS
      <3>1. /\ n \in Int /\ n - (L + 1) < WindowSize /\ (L + 1) - n < WindowSize
            /\ n # L + 1
        BY <2>1, Sizes
      <3> QED BY Zenon, <2>1, <3>1, SlotsApart, SeqAtType
    <2>5. seq_add(win.next_seq, 1) = SeqAt(L + 1 + 1)
      BY <2>1, <2>2, SeqAtAdd
    <2>6. DOMAIN slot = SlotFields /\ slot.in_use /\ slot.seq_num = SeqAt(L + 1)
          /\ slot.payload = m
      BY Zenon, <2>2 DEF SlotFields
    <2> HIDE DEF slot
    <2>7. /\ DOMAIN new = WindowFields /\ new.capacity = win.capacity
          /\ new.slots = [win.slots EXCEPT ![At(L + 1)] = slot]
          /\ new.head_seq = win.head_seq
          /\ new.next_seq = SeqAt(L + 1 + 1)
      <3>1. DOMAIN win = WindowFields
        BY Zenon DEF Carries
      <3>2. new = [win EXCEPT !.next_seq = SeqAt(L + 1 + 1),
                              !.in_flight = @ + 1,
                              !.slots = [@ EXCEPT ![At(L + 1)] = slot]]
        BY Zenon, <1>3, <2>2, <2>5
      <3> QED BY Zenon, <3>1, <3>2 DEF WindowFields
    <2>8. DOMAIN win.slots = 0 .. (WindowSize - 1)
      BY Zenon DEF Carries
    <2>9. /\ DOMAIN new.slots = 0 .. (WindowSize - 1)
          /\ new.slots[At(L + 1)] = slot
          /\ \A i \in 0 .. (WindowSize - 1) :
                 i # At(L + 1) => new.slots[i] = win.slots[i]
      BY Zenon, <2>2, <2>7, <2>8
    <2>10. \A i \in 0 .. (WindowSize - 1) : DOMAIN new.slots[i] = SlotFields
      BY Zenon, <2>6, <2>9 DEF Carries
    <2>11. \A n \in h .. Len(more) :
              /\ new.slots[At(n)].in_use
              /\ new.slots[At(n)].seq_num = SeqAt(n)
              /\ new.slots[At(n)].payload = more[n]
      <3> SUFFICES ASSUME NEW n \in h .. Len(more)
                   PROVE  /\ new.slots[At(n)].in_use
                          /\ new.slots[At(n)].seq_num = SeqAt(n)
                          /\ new.slots[At(n)].payload = more[n]
        OBVIOUS
      <3>1. n = L + 1 \/ (n \in h .. L /\ n \in 1 .. L)
        BY <2>1, <2>3
      <3>2. CASE n = L + 1
        BY Zenon, <2>3, <2>6, <2>9, <3>2
      <3>3. CASE n \in h .. L /\ n \in 1 .. L
        <4>1. new.slots[At(n)] = win.slots[At(n)]
          BY Zenon, <2>4, <2>9, <3>3
        <4> QED BY Zenon, <2>3, <3>3, <4>1 DEF Carries
      <3> QED BY Zenon, <3>1, <3>2, <3>3
    <2>12. h \in 1 .. (Len(more) + 1) /\ Len(more) + 1 - h <= WindowSize
      BY <2>1, <2>3, Sizes
    <2>13. win.head_seq = SeqAt(h) /\ win.capacity = WindowSize
      BY Zenon DEF Carries
    <2> HIDE DEF more, placed
    <2>14. Carries(new, h, more)
      BY Zenon, <2>3, <2>7, <2>9, <2>10, <2>11, <2>12, <2>13 DEF Carries
    <2> QED BY Zenon, <2>14 DEF more
  <1> QED BY Zenon, <1>1, <1>2, <1>3

\* The numbers a cumulative acknowledgement passes over are the first ones of
\* the window, whatever it names.
LEMMA AckedPrefix ==
    ASSUME NEW win, NEW h, NEW msgs, Carries(win, h, msgs), NEW ack
    PROVE  \E k \in h .. (Len(msgs) + 1) :
              /\ CumulativelyAcked(win, ack) = {SeqAt(n) : n \in h .. (k - 1)}
              /\ Cardinality(CumulativelyAcked(win, ack)) = k - h
PROOF
  <1> DEFINE L == Len(msgs)
             covers(s) == seq_lte(s, ack)
             seqs == CumulativelyAcked(win, ack)
             stops == {n \in h .. L : ~covers(SeqAt(n))} \cup {L + 1}
             k == Min(stops)
  <1>1. /\ L \in Nat /\ h \in Int /\ h >= 1 /\ h <= L + 1
        /\ L + 1 - h < Half
        /\ Outstanding(win) = {SeqAt(n) : n \in h .. L}
    BY CarriesFacts
  <1>2. stops \subseteq Nat /\ L + 1 \in stops
    BY <1>1
  <1> HIDE DEF covers
  <1>3. k \in stops /\ \A n \in stops : k <= n
    <2> HIDE DEF stops
    <2> QED BY Zenon, <1>2, MinNat
  <1> HIDE DEF k
  <1>4. k \in h .. (L + 1) /\ k \in Int
    BY <1>1, <1>3
  <1>5. \A n \in h .. (k - 1) : n \in h .. L /\ covers(SeqAt(n))
    <2> SUFFICES ASSUME NEW n \in h .. (k - 1)
                 PROVE  n \in h .. L /\ covers(SeqAt(n))
      OBVIOUS
    <2>1. n \in h .. L /\ ~(k <= n)
      BY <1>1, <1>4
    <2> QED BY Zenon, <1>3, <2>1
  <1>6. k \in h .. L => ~covers(SeqAt(k))
    BY <1>1, <1>3
  <1>7. \A a, b \in h .. L : seq_lte(SeqAt(a), SeqAt(b)) <=> a <= b
    <2> SUFFICES ASSUME NEW a \in h .. L, NEW b \in h .. L
                 PROVE  seq_lte(SeqAt(a), SeqAt(b)) <=> a <= b
      OBVIOUS
    <2>1. a \in Int /\ b \in Int /\ -Half <= a - b /\ a - b < Half
      BY <1>1, Sizes
    <2>2. seq_diff(SeqAt(a), SeqAt(b)) = a - b
      BY Zenon, <2>1, SeqAtDiff
    <2> QED BY <2>1, <2>2 DEF seq_lte
  <1>8. \A n \in h .. L :
            (\A m \in h .. L : m <= n => covers(SeqAt(m))) <=> n \in h .. (k - 1)
    <2> SUFFICES ASSUME NEW n \in h .. L
                 PROVE  (\A m \in h .. L : m <= n => covers(SeqAt(m)))
                            <=> n \in h .. (k - 1)
      OBVIOUS
    <2>1. ASSUME n \in h .. (k - 1), NEW m \in h .. L, m <= n
          PROVE  covers(SeqAt(m))
      <3>1. m \in h .. (k - 1)
        BY <1>1, <1>4, <2>1
      <3> QED BY Zenon, <1>5, <3>1
    <2>2. ASSUME n \notin h .. (k - 1)
          PROVE  k \in h .. L /\ k <= n
      BY <1>1, <1>4, <2>2
    <2> QED BY Zenon, <1>6, <2>1, <2>2
  <1>9. seqs = {SeqAt(n) : n \in h .. (k - 1)}
    <2>1. seqs = {s \in {SeqAt(n) : n \in h .. L} :
                     \A m \in h .. L : seq_lte(SeqAt(m), s) => covers(SeqAt(m))}
      BY Zenon, <1>1 DEF CumulativelyAcked, covers
    <2>2. \A n \in h .. L :
             (\A m \in h .. L : seq_lte(SeqAt(m), SeqAt(n)) => covers(SeqAt(m)))
                 <=> n \in h .. (k - 1)
      BY Zenon, <1>7, <1>8
    <2> QED BY Zenon, <1>5, <2>1, <2>2
  <1>10. Cardinality(seqs) = k - h
    <2> DEFINE S == h .. (k - 1)
               f == [n \in S |-> SeqAt(n)]
    <2>1. \A a, b \in S : f[a] = f[b] => a = b
      <3> SUFFICES ASSUME NEW a \in S, NEW b \in S, f[a] = f[b] PROVE a = b
        OBVIOUS
      <3>1. a \in h .. L /\ b \in h .. L /\ SeqAt(a) = SeqAt(b)
        BY Zenon, <1>5
      <3>2. (a <= b <=> b <= a) /\ a \in Int /\ b \in Int
        BY <1>1, <1>7, <3>1
      <3> QED BY <3>2
    <2>2. f \in Bijection(S, seqs)
      <3>1. f \in [S -> seqs] /\ \A t \in seqs : \E n \in S : f[n] = t
        BY Zenon, <1>9
      <3> QED BY Zenon, <2>1, <3>1 DEF Bijection, Injection, Surjection, IsInjective
    <2>3. /\ IsFiniteSet(S)
          /\ Cardinality(S) = IF h > k - 1 THEN 0 ELSE k - 1 - h + 1
      <3>1. k - 1 \in Int
        BY <1>4
      <3> QED BY Zenon, <1>1, <3>1, FS_Interval
    <2>4. ExistsBijection(S, seqs)
      BY Zenon, <2>2 DEF ExistsBijection
    <2>5. Cardinality(seqs) = Cardinality(S)
      BY Zenon, <2>3, <2>4, FS_Bijection
    <2> QED BY <1>1, <1>4, <2>3, <2>5
  <1> QED BY Zenon, <1>4, <1>9, <1>10

\* A cumulative acknowledgement leaves the messages from some place on
\* (rel4u_send_window_on_ack).
LEMMA CumulativeCarries ==
    ASSUME NEW win, NEW h, NEW msgs, Carries(win, h, msgs), NEW ack,
           NEW new, new = ack_cumulative(win, ack)
    PROVE  \E k \in h .. (Len(msgs) + 1) : Carries(new, k, msgs)
PROOF
  <1> DEFINE L == Len(msgs)
             seqs == CumulativelyAcked(win, ack)
  <1>1. PICK k \in h .. (L + 1) : /\ seqs = {SeqAt(n) : n \in h .. (k - 1)}
                                  /\ Cardinality(seqs) = k - h
    BY AckedPrefix
  <1>2. /\ L \in Nat /\ h \in Int /\ h >= 1 /\ h <= L + 1 /\ k \in Int
        /\ h <= k /\ k <= L + 1
    BY CarriesFacts
  <1> DEFINE passed(i) == \E s \in seqs : SlotIdx(win, s) = i /\ InUse(win, s)
             left == Decrease(win.in_flight, Cardinality(FirstAcked(win, seqs)))
             slots == [i \in 0 .. (WindowSize - 1) |->
                          IF passed(i)
                          THEN [win.slots[i] EXCEPT !.acked = TRUE, !.in_use = FALSE]
                          ELSE win.slots[i]]
  <1>3. /\ DOMAIN win = WindowFields /\ win.capacity = WindowSize
        /\ DOMAIN win.slots = 0 .. (WindowSize - 1)
        /\ \A i \in 0 .. (WindowSize - 1) : DOMAIN win.slots[i] = SlotFields
        /\ win.head_seq = SeqAt(h) /\ win.next_seq = SeqAt(L + 1)
        /\ msgs \in Seq(Nat)
    BY Zenon DEF Carries
  <1>4. seq_add(win.head_seq, Cardinality(seqs)) = SeqAt(k)
    <2>1. k - h \in Int /\ h + (k - h) = k
      BY <1>2
    <2>2. seq_add(SeqAt(h), k - h) = SeqAt(h + (k - h))
      BY Zenon, <1>2, <2>1, SeqAtAdd
    <2> QED BY Zenon, <1>1, <1>3, <2>1, <2>2
  <1>5. new = [win EXCEPT !.head_seq = SeqAt(k), !.in_flight = left, !.slots = slots]
    BY Zenon, <1>3, <1>4 DEF ack_cumulative
  <1>6. \A n \in k .. L : /\ At(n) \in 0 .. (WindowSize - 1) /\ ~passed(At(n))
                          /\ n \in h .. L
    <2> SUFFICES ASSUME NEW n \in k .. L
                 PROVE  /\ At(n) \in 0 .. (WindowSize - 1) /\ ~passed(At(n))
                        /\ n \in h .. L
      OBVIOUS
    <2>1. n \in Int /\ n \in h .. L
      BY <1>2
    <2>2. At(n) \in 0 .. (WindowSize - 1)
      BY Zenon, <2>1, SeqAtType
    <2>3. ASSUME NEW m \in h .. (k - 1), SlotIdx(win, SeqAt(m)) = At(n)
          PROVE  FALSE
      <3>1. m \in Int /\ m # n /\ m - n < WindowSize /\ n - m < WindowSize
        <4>1. L + 1 - h <= WindowSize
          BY Zenon DEF Carries
        <4> QED BY <1>2, <2>1, <4>1, Sizes
      <3>2. At(m) = At(n)
        BY Zenon, <2>3, <3>1, CarriesFacts
      <3> QED BY Zenon, <2>1, <3>1, <3>2, SlotsApart
    <2> QED BY Zenon, <1>1, <2>1, <2>2, <2>3
  <1>7. \A i \in 0 .. (WindowSize - 1) : DOMAIN slots[i] = SlotFields
    <2> HIDE DEF passed
    <2> QED BY Zenon, <1>3
  <1>8. \A n \in k .. L : slots[At(n)] = win.slots[At(n)]
    <2> HIDE DEF passed
    <2> QED BY Zenon, <1>6
  <1>9. DOMAIN slots = 0 .. (WindowSize - 1)
    OBVIOUS
  <1> HIDE DEF slots, left, passed, seqs
  <1>10. /\ DOMAIN new = WindowFields /\ new.capacity = WindowSize
         /\ new.head_seq = SeqAt(k) /\ new.next_seq = SeqAt(L + 1)
         /\ new.slots = slots
    BY Zenon, <1>3, <1>5 DEF WindowFields
  <1>11. \A n \in k .. L :
            /\ new.slots[At(n)].in_use
            /\ new.slots[At(n)].seq_num = SeqAt(n)
            /\ new.slots[At(n)].payload = msgs[n]
    BY Zenon, <1>6, <1>8, <1>10 DEF Carries
  <1>12. k \in 1 .. (L + 1) /\ L + 1 - k <= WindowSize
    <2>1. L + 1 - h <= WindowSize
      BY Zenon DEF Carries
    <2> QED BY <1>2, <2>1, Sizes
  <1>13. Carries(new, k, msgs)
    BY Zenon, <1>3, <1>7, <1>9, <1>10, <1>11, <1>12 DEF Carries
  <1> QED BY Zenon, <1>13

\* A selective acknowledgement moves nothing (rel4u_send_window_on_ack).
LEMMA SelectiveCarries ==
    ASSUME NEW win, NEW h, NEW msgs, Carries(win, h, msgs), NEW ack, NEW sack,
           NEW new, new = ack_selective(win, ack, sack)
    PROVE  Carries(new, h, msgs)
PROOF
  <1> DEFINE seqs == FirstAcked(win, SelectivelyAcked(win, ack, sack))
             marked(i) == \E s \in seqs : SlotIdx(win, s) = i
             left == Decrease(win.in_flight, Cardinality(seqs))
             slots == [i \in 0 .. (WindowSize - 1) |->
                          IF marked(i) THEN [win.slots[i] EXCEPT !.acked = TRUE]
                          ELSE win.slots[i]]
  <1>1. /\ DOMAIN win = WindowFields /\ win.capacity = WindowSize
        /\ DOMAIN win.slots = 0 .. (WindowSize - 1)
        /\ \A i \in 0 .. (WindowSize - 1) : DOMAIN win.slots[i] = SlotFields
    BY Zenon DEF Carries
  <1>2. new = [win EXCEPT !.in_flight = left, !.slots = slots]
    BY Zenon, <1>1 DEF ack_selective
  <1> HIDE DEF left, marked
  <1>3. \A i \in 0 .. (WindowSize - 1) :
            /\ DOMAIN slots[i] = SlotFields
            /\ slots[i].in_use = win.slots[i].in_use
            /\ slots[i].seq_num = win.slots[i].seq_num
            /\ slots[i].payload = win.slots[i].payload
    BY Zenon, <1>1 DEF SlotFields
  <1>4. DOMAIN slots = 0 .. (WindowSize - 1)
    OBVIOUS
  <1> HIDE DEF slots
  <1>5. /\ DOMAIN new = WindowFields /\ new.capacity = WindowSize
        /\ new.head_seq = win.head_seq /\ new.next_seq = win.next_seq
        /\ new.slots = slots
    BY Zenon, <1>1, <1>2 DEF WindowFields
  <1>6. \A n \in h .. Len(msgs) : At(n) \in 0 .. (WindowSize - 1)
    <2>1. \A n \in h .. Len(msgs) : n \in Int
      BY CarriesFacts
    <2> QED BY Zenon, <2>1, SeqAtType
  <1>7. \A n \in h .. Len(msgs) :
            /\ new.slots[At(n)].in_use
            /\ new.slots[At(n)].seq_num = SeqAt(n)
            /\ new.slots[At(n)].payload = msgs[n]
    BY Zenon, <1>3, <1>5, <1>6 DEF Carries
  <1> QED BY Zenon, <1>3, <1>4, <1>5, <1>7 DEF Carries

-----------------------------------------------------------------------------
(* The send queue counts what it drops *)

QueueFields == {"mode", "full_policy", "items", "head", "tail", "count",
                "nodes", "current_bytes", "dropped_count"}

\* A queue in DYNAMIC memory that holds no message twice.
IsList(x) ==
    /\ DOMAIN x = QueueFields /\ x.mode = "DYNAMIC"
    /\ x.nodes \in Seq(Nat) /\ x.count = Len(x.nodes)
    /\ x.dropped_count \in Nat
    /\ \A i, j \in 1 .. Len(x.nodes) : x.nodes[i] = x.nodes[j] => i = j

\* The messages of a queue are those of its nodes.
LEMMA ListContents ==
    ASSUME NEW x, IsList(x)
    PROVE  /\ InQueue(x) = {x.nodes[i] : i \in 1 .. Len(x.nodes)}
           /\ InQueue(x) \subseteq Nat
           /\ IsFiniteSet(InQueue(x))
PROOF
  <1>1. x.nodes \in Seq(Nat) /\ x.mode = "DYNAMIC"
    BY Zenon DEF IsList
  <1> DEFINE q == x.nodes
             S == 1 .. Len(q)
  <1>2. Contents(x) = q
    BY Zenon, <1>1 DEF Contents
  <1>3. DOMAIN q = S /\ Len(q) \in Nat
    BY <1>1
  <1>4. \A i \in S : q[i] \in Nat
    BY <1>1
  <1> HIDE DEF q
  <1>5. InQueue(x) = {q[i] : i \in S}
    BY Zenon, <1>2, <1>3 DEF InQueue
  <1>6. IsFiniteSet(S)
    BY <1>3, FS_Interval
  <1> DEFINE f == [i \in S |-> q[i]]
  <1>7. f \in Surjection(S, InQueue(x))
    <2>1. f \in [S -> InQueue(x)] /\ \A t \in InQueue(x) : \E i \in S : f[i] = t
      BY Zenon, <1>5
    <2> QED BY Zenon, <2>1 DEF Surjection
  <1>8. IsFiniteSet(InQueue(x))
    BY Zenon, <1>6, <1>7, FS_Surjection
  <1> QED BY Zenon, <1>4, <1>5, <1>8 DEF q

\* Eviction counts every message that goes (the loop of the DYNAMIC branch of
\* mpmc_push_back_locked and mpmc_push_front_locked).
LEMMA EvictCounts ==
    ASSUME NEW x, IsList(x), NEW needed, NEW y, y = EvictNodes(x, needed)
    PROVE  /\ IsList(y) /\ InQueue(y) \subseteq InQueue(x)
           /\ y.dropped_count
                = x.dropped_count + Cardinality(InQueue(x) \ InQueue(y))
PROOF
  <1> DEFINE q == x.nodes
             F(n) == x.current_bytes - BytesOf(SubSeq(x.nodes, 1, n)) + needed
                         <= MaxBytes
             N == {k \in 0 .. Len(x.nodes) : F(k) \/ k = Len(x.nodes)}
             n == Min(N)
  <1>1. q \in Seq(Nat) /\ Len(q) \in Nat /\ x.count = Len(q)
    BY DEF IsList
  <1>2. N \subseteq Nat /\ Len(q) \in N
    BY <1>1
  <1>3. n \in 0 .. Len(q) /\ n \in Nat
    <2> HIDE DEF F
    <2>1. Min(N) \in N
      BY Zenon, <1>2, MinNat
    <2> QED BY <1>1, <2>1
  <1> DEFINE rest == SubSeq(q, n + 1, Len(q))
             bytes == x.current_bytes - BytesOf(SubSeq(x.nodes, 1, n))
  <1>4. y = [x EXCEPT !.nodes = rest, !.current_bytes = bytes,
                      !.count = @ - n, !.dropped_count = @ + n]
    BY Zenon DEF EvictNodes
  <1> HIDE DEF n, bytes
  <1>5. /\ rest \in Seq(Nat) /\ Len(rest) = Len(q) - n
        /\ \A i \in 1 .. (Len(q) - n) : rest[i] = q[n + i]
    <2> HIDE DEF q
    <2>1. rest \in Seq(Nat) /\ Len(rest) = Len(q) - n
      BY <1>1, <1>3
    <2>2. ASSUME NEW i \in 1 .. (Len(q) - n) PROVE rest[i] = q[n + i]
      BY <1>1, <1>3
    <2> HIDE DEF rest
    <2> QED BY Zenon, <2>1, <2>2
  <1> HIDE DEF rest
  <1>6. /\ DOMAIN y = QueueFields /\ y.mode = "DYNAMIC" /\ y.nodes = rest
        /\ y.count = Len(q) - n /\ y.dropped_count = x.dropped_count + n
    <2>1. DOMAIN x = QueueFields /\ x.mode = "DYNAMIC"
      BY Zenon DEF IsList
    <2> HIDE DEF q
    <2> QED BY Zenon, <1>1, <1>4, <2>1 DEF QueueFields
  <1>7. \A i, j \in 1 .. Len(q) : q[i] = q[j] => i = j
    BY Zenon DEF IsList
  <1>8. x.dropped_count \in Nat
    BY Zenon DEF IsList
  <1> HIDE DEF q
  <1>9. \A i \in 1 .. (Len(q) - n) : n + i \in 1 .. Len(q) /\ i \in Int
    BY <1>1, <1>3
  <1>10. IsList(y)
    <2>1. \A i, j \in 1 .. (Len(q) - n) : rest[i] = rest[j] => i = j
      <3> SUFFICES ASSUME NEW i \in 1 .. (Len(q) - n), NEW j \in 1 .. (Len(q) - n),
                          rest[i] = rest[j]
                   PROVE  i = j
        OBVIOUS
      <3>1. n + i = n + j
        BY Zenon, <1>5, <1>7, <1>9
      <3> QED BY <1>3, <1>9, <3>1
    <2>2. y.nodes \in Seq(Nat) /\ y.count = Len(y.nodes)
      BY Zenon, <1>5, <1>6
    <2>3. \A i, j \in 1 .. Len(y.nodes) : y.nodes[i] = y.nodes[j] => i = j
      BY Zenon, <1>5, <1>6, <2>1
    <2>4. y.dropped_count \in Nat
      BY <1>3, <1>6, <1>8
    <2> QED BY Zenon, <1>6, <2>2, <2>3, <2>4 DEF IsList
  <1>11. /\ InQueue(x) = {q[i] : i \in 1 .. Len(q)}
         /\ InQueue(y) = {rest[i] : i \in 1 .. (Len(q) - n)}
    BY <1>5, <1>6, <1>10, ListContents DEF q
  <1>12. InQueue(y) = {q[i] : i \in (n + 1) .. Len(q)}
    <2>1. \A i \in (n + 1) .. Len(q) : i - n \in 1 .. (Len(q) - n) /\ n + (i - n) = i
      BY <1>1, <1>3
    <2>2. \A i \in 1 .. (Len(q) - n) : n + i \in (n + 1) .. Len(q)
      BY <1>1, <1>3
    <2> QED BY <1>5, <1>11, <2>1, <2>2
  <1>13. InQueue(y) \subseteq InQueue(x)
    <2>1. (n + 1) .. Len(q) \subseteq 1 .. Len(q)
      BY <1>1, <1>3
    <2> QED BY Zenon, <1>11, <1>12, <2>1
  <1>14. InQueue(x) \ InQueue(y) = {q[i] : i \in 1 .. n}
    <2>1. \A i \in 1 .. Len(q) : i \in 1 .. n \/ i \in (n + 1) .. Len(q)
      BY <1>1, <1>3
    <2>2. \A i \in 1 .. n : i \in 1 .. Len(q)
      BY <1>1, <1>3
    <2>3. \A i \in 1 .. n, j \in (n + 1) .. Len(q) : q[i] # q[j]
      <3> SUFFICES ASSUME NEW i \in 1 .. n, NEW j \in (n + 1) .. Len(q), q[i] = q[j]
                   PROVE  FALSE
        OBVIOUS
      <3>1. i \in 1 .. Len(q) /\ j \in 1 .. Len(q) /\ i # j
        BY <1>1, <1>3
      <3> QED BY Zenon, <1>7, <3>1
    <2> QED BY Zenon, <1>11, <1>12, <2>1, <2>2, <2>3
  <1>15. Cardinality({q[i] : i \in 1 .. n}) = n
    <2> DEFINE S == 1 .. n
               T == {q[i] : i \in 1 .. n}
               f == [i \in S |-> q[i]]
    <2>1. IsFiniteSet(S) /\ Cardinality(S) = n
      <3>1. IsFiniteSet(1 .. n) /\ Cardinality(1 .. n) = IF 1 > n THEN 0 ELSE n - 1 + 1
        BY <1>3, FS_Interval
      <3> QED BY <1>3, <3>1
    <2>2. \A a, b \in S : f[a] = f[b] => a = b
      BY <1>1, <1>3, <1>7
    <2>3. f \in [S -> T] /\ \A t \in T : \E i \in S : f[i] = t
      OBVIOUS
    <2>4. f \in Bijection(S, T)
      BY Zenon, <2>2, <2>3 DEF Bijection, Injection, Surjection, IsInjective
    <2>5. ExistsBijection(S, T)
      BY Zenon, <2>4 DEF ExistsBijection
    <2> QED BY Zenon, <2>1, <2>5, FS_Bijection
  <1> QED BY Zenon, <1>6, <1>10, <1>13, <1>14, <1>15

\* What a queue counts between two states of it: the messages of the first that
\* are not in the second.
Counts(x, all, y) ==
    /\ IsList(y) /\ InQueue(y) \subseteq all
    /\ y.dropped_count = x.dropped_count + Cardinality(all \ InQueue(y))

\* Counting one thing after the other.
LEMMA CountsOn ==
    ASSUME NEW x, IsList(x), NEW all, NEW y, Counts(x, all, y), IsFiniteSet(all),
           NEW m, m \notin all, NEW z, Counts(y, InQueue(y) \cup {m}, z)
    PROVE  Counts(x, all \cup {m}, z)
PROOF
  <1> DEFINE A == all \ InQueue(y)
             B == (InQueue(y) \cup {m}) \ InQueue(z)
             C == (all \cup {m}) \ InQueue(z)
  <1>1. IsFiniteSet(A) /\ IsFiniteSet(B)
    <2>1. IsFiniteSet(InQueue(y))
      BY Zenon, ListContents DEF Counts
    <2>2. IsFiniteSet(InQueue(y) \cup {m})
      BY Zenon, <2>1, FS_AddElement
    <2> QED BY Zenon, <2>2, FS_Difference
  <1>2. C = A \cup B /\ A \cap B = {} /\ InQueue(z) \subseteq all \cup {m}
    BY Zenon DEF Counts
  <1>3. Cardinality(A \cup B)
            = Cardinality(A) + Cardinality(B) - Cardinality(A \cap B)
    BY Zenon, <1>1, FS_Union
  <1>4. Cardinality(A \cap B) = 0
    BY Zenon, <1>2, FS_EmptySet
  <1>5. Cardinality(A) \in Nat /\ Cardinality(B) \in Nat
    BY Zenon, <1>1, FS_CardinalityType
  <1>6. /\ y.dropped_count = x.dropped_count + Cardinality(A)
        /\ z.dropped_count = y.dropped_count + Cardinality(B)
        /\ x.dropped_count \in Nat /\ IsList(z)
    BY Zenon DEF Counts, IsList
  <1> HIDE DEF A, B, C
  <1>7. z.dropped_count = x.dropped_count + Cardinality(C)
    <2>1. Cardinality(C) = Cardinality(A) + Cardinality(B)
      BY <1>2, <1>3, <1>4, <1>5
    <2> QED BY <1>5, <1>6, <2>1
  <1> QED BY Zenon, <1>2, <1>6, <1>7 DEF Counts, C

\* Making room counts what goes.
LEMMA RoomCounts ==
    ASSUME NEW x, IsList(x), NEW m
    PROVE  Counts(x, InQueue(x), RoomFor(x, m))
PROOF
  <1>1. CASE RoomFor(x, m) = x
    <2>1. InQueue(x) \ InQueue(x) = {} /\ x.dropped_count \in Nat
      BY Zenon DEF IsList
    <2>2. Cardinality({}) = 0
      BY Zenon, FS_EmptySet
    <2>3. Cardinality(InQueue(x) \ InQueue(x)) = 0
      BY Zenon, <2>1, <2>2
    <2>4. x.dropped_count = x.dropped_count + Cardinality(InQueue(x) \ InQueue(x))
      BY <2>1, <2>3
    <2>5. Counts(x, InQueue(x), x)
      BY Zenon, <2>4 DEF Counts
    <2> QED BY Zenon, <1>1, <2>5
  <1>2. CASE RoomFor(x, m) = EvictNodes(x, Needed(m))
    BY Zenon, <1>2, EvictCounts DEF Counts
  <1> QED BY Zenon, <1>1, <1>2 DEF RoomFor

\* A push at either end, with nodes the ones it makes of those there is room for.
LEMMA PlacedCounts ==
    ASSUME NEW x, IsList(x), NEW m \in Nat, m \notin InQueue(x),
           NEW nodes \in Seq(Nat), Len(nodes) = Len(RoomFor(x, m).nodes) + 1,
           \A i, j \in 1 .. Len(nodes) : nodes[i] = nodes[j] => i = j,
           {nodes[i] : i \in 1 .. Len(nodes)} = InQueue(RoomFor(x, m)) \cup {m},
           NEW y, y = push_dynamic(x, m, TRUE, [RoomFor(x, m) EXCEPT !.nodes = nodes]).q
    PROVE  Counts(x, InQueue(x) \cup {m}, y)
PROOF
  <1> DEFINE room == RoomFor(x, m)
             Refuse(r) == [r EXCEPT !.dropped_count = @ + 1]
             more == [room EXCEPT !.nodes = nodes]
             placed == [more EXCEPT !.count = @ + 1, !.current_bytes = @ + Needed(m)]
             all == InQueue(x)
  <1>1. y \in {Refuse(x), Refuse(room), placed}
    BY Zenon DEF push_dynamic, Refused
  <1>2. Counts(x, all, room)
    BY Zenon, RoomCounts
  <1>3. IsFiniteSet(all) /\ IsList(room)
    BY Zenon, <1>2, ListContents DEF Counts
  <1>4. ASSUME NEW r, IsList(r), m \notin InQueue(r)
        PROVE  Counts(r, InQueue(r) \cup {m}, Refuse(r))
    <2> DEFINE z == Refuse(r)
    <2>1. /\ DOMAIN z = QueueFields /\ z.mode = r.mode /\ z.nodes = r.nodes
          /\ z.count = r.count /\ z.dropped_count = r.dropped_count + 1
      BY Zenon, <1>4 DEF IsList, QueueFields
    <2>2. IsList(z)
      <3> HIDE DEF z
      <3> QED BY <1>4, <2>1 DEF IsList
    <2>3. InQueue(z) = InQueue(r)
      <3> HIDE DEF z
      <3>1. InQueue(z) = {z.nodes[i] : i \in 1 .. Len(z.nodes)}
        BY Zenon, <2>2, ListContents
      <3>2. InQueue(r) = {r.nodes[i] : i \in 1 .. Len(r.nodes)}
        BY Zenon, <1>4, ListContents
      <3>3. z.nodes = r.nodes
        BY Zenon, <2>1
      <3> QED BY <3>1, <3>2, <3>3
    <2>4. (InQueue(r) \cup {m}) \ InQueue(z) = {m} /\ Cardinality({m}) = 1
      BY Zenon, <1>4, <2>3, FS_Singleton
    <2> HIDE DEF z
    <2>5. Counts(r, InQueue(r) \cup {m}, z)
      BY Zenon, <2>1, <2>2, <2>3, <2>4 DEF Counts
    <2> QED BY Zenon, <2>5 DEF z
  <1>5. Counts(room, InQueue(room) \cup {m}, placed)
    <2>1. DOMAIN room = QueueFields /\ room.mode = "DYNAMIC"
          /\ room.count = Len(room.nodes) /\ room.dropped_count \in Nat
      BY Zenon, <1>3 DEF IsList
    <2> HIDE DEF room
    <2>2. /\ DOMAIN placed = QueueFields /\ placed.mode = room.mode
          /\ placed.nodes = nodes /\ placed.count = room.count + 1
          /\ placed.dropped_count = room.dropped_count
      BY Zenon, <2>1 DEF QueueFields
    <2> HIDE DEF placed
    <2>3. Len(nodes) = Len(room.nodes) + 1
      BY Zenon DEF room
    <2>4. IsList(placed)
      BY Zenon, <2>1, <2>2, <2>3 DEF IsList
    <2>5. InQueue(placed) = InQueue(room) \cup {m}
      <3>1. InQueue(placed) = {nodes[i] : i \in 1 .. Len(nodes)}
        BY <2>2, <2>4, ListContents
      <3> QED BY Zenon, <3>1 DEF room
    <2>6. (InQueue(room) \cup {m}) \ InQueue(placed) = {} /\ Cardinality({}) = 0
      BY Zenon, <2>5, FS_EmptySet
    <2>7. placed.dropped_count = room.dropped_count + 0
      BY <2>1, <2>2
    <2> QED BY Zenon, <2>4, <2>5, <2>6, <2>7 DEF Counts
  <1>6. m \notin InQueue(room)
    BY Zenon, <1>2 DEF Counts
  <1>7. CASE y = Refuse(x)
    <2> HIDE DEF Refuse
    <2> QED BY Zenon, <1>4, <1>7
  <1>8. CASE y = Refuse(room)
    <2>1. Counts(room, InQueue(room) \cup {m}, y)
      <3> HIDE DEF Refuse, room
      <3> QED BY Zenon, <1>3, <1>4, <1>6, <1>8
    <2> HIDE DEF room
    <2> QED BY Zenon, <1>2, <1>3, <2>1, CountsOn
  <1>9. CASE y = placed
    <2> HIDE DEF room, placed
    <2> QED BY Zenon, <1>2, <1>3, <1>5, <1>9, CountsOn
  <1> QED BY Zenon, <1>1, <1>7, <1>8, <1>9

\* A push to the back counts what it drops (mpmc_push_back_locked).
LEMMA PushBackCounts ==
    ASSUME NEW x, IsList(x), NEW m \in Nat, m \notin InQueue(x),
           NEW y, y = mpmc_push_back_locked(x, m, TRUE).q
    PROVE  Counts(x, InQueue(x) \cup {m}, y)
PROOF
  <1> DEFINE room == RoomFor(x, m)
             q == room.nodes
             nodes == Append(q, m)
  <1>1. IsList(room) /\ InQueue(room) \subseteq InQueue(x)
    BY Zenon, RoomCounts DEF Counts
  <1>2. y = push_dynamic(x, m, TRUE, [room EXCEPT !.nodes = nodes]).q
    BY Zenon DEF mpmc_push_back_locked, IsList
  <1>3. /\ q \in Seq(Nat) /\ Len(q) \in Nat
        /\ \A i, j \in 1 .. Len(q) : q[i] = q[j] => i = j
        /\ InQueue(room) = {q[i] : i \in 1 .. Len(q)}
    BY <1>1, ListContents DEF IsList
  <1> HIDE DEF q
  <1>4. /\ nodes \in Seq(Nat) /\ Len(nodes) = Len(q) + 1
        /\ nodes[Len(q) + 1] = m
    BY <1>3
  <1>5. ASSUME NEW i \in 1 .. Len(q) PROVE nodes[i] = q[i] /\ i \in Int
    BY <1>3
  <1> HIDE DEF nodes
  <1>6. \A i \in 1 .. Len(nodes) : i \in 1 .. Len(q) \/ i = Len(q) + 1
    BY <1>3, <1>4
  <1>7. m \notin {q[i] : i \in 1 .. Len(q)}
    BY Zenon, <1>1, <1>3
  <1>8. \A i, j \in 1 .. Len(nodes) : nodes[i] = nodes[j] => i = j
    BY Zenon, <1>3, <1>4, <1>5, <1>6, <1>7
  <1>9. {nodes[i] : i \in 1 .. Len(nodes)} = InQueue(room) \cup {m}
    <2>1. \A i \in 1 .. Len(q) : i \in 1 .. Len(nodes)
      BY <1>3, <1>4
    <2>2. Len(q) + 1 \in 1 .. Len(nodes)
      BY <1>3, <1>4
    <2> QED BY <1>3, <1>4, <1>5, <1>6, <2>1, <2>2
  <1>10. Len(nodes) = Len(room.nodes) + 1
    BY Zenon, <1>4 DEF q
  <1> QED BY Zenon, <1>2, <1>4, <1>8, <1>9, <1>10, PlacedCounts

\* So does a push to the front (mpmc_push_front_locked).
LEMMA PushFrontCounts ==
    ASSUME NEW x, IsList(x), NEW m \in Nat, m \notin InQueue(x),
           NEW y, y = mpmc_push_front_locked(x, m, TRUE).q
    PROVE  Counts(x, InQueue(x) \cup {m}, y)
PROOF
  <1> DEFINE room == RoomFor(x, m)
             q == room.nodes
             nodes == <<m>> \o q
  <1>1. IsList(room) /\ InQueue(room) \subseteq InQueue(x)
    BY Zenon, RoomCounts DEF Counts
  <1>2. y = push_dynamic(x, m, TRUE, [room EXCEPT !.nodes = nodes]).q
    BY Zenon DEF mpmc_push_front_locked, IsList
  <1>3. /\ q \in Seq(Nat) /\ Len(q) \in Nat
        /\ \A i, j \in 1 .. Len(q) : q[i] = q[j] => i = j
        /\ InQueue(room) = {q[i] : i \in 1 .. Len(q)}
    BY <1>1, ListContents DEF IsList
  <1> HIDE DEF q
  <1>4. nodes \in Seq(Nat) /\ Len(nodes) = Len(q) + 1 /\ nodes[1] = m
    BY <1>3
  <1>5. ASSUME NEW i \in 1 .. Len(q) PROVE nodes[i + 1] = q[i] /\ i \in Int
    BY <1>3
  <1> HIDE DEF nodes
  <1>6. \A i \in 1 .. Len(nodes) :
            i = 1 \/ (i - 1 \in 1 .. Len(q) /\ nodes[i] = q[i - 1] /\ i \in Int)
    <2> SUFFICES ASSUME NEW i \in 1 .. Len(nodes), i # 1
                 PROVE  i - 1 \in 1 .. Len(q) /\ nodes[i] = q[i - 1] /\ i \in Int
      OBVIOUS
    <2>1. i - 1 \in 1 .. Len(q) /\ (i - 1) + 1 = i /\ i \in Int
      BY <1>3, <1>4
    <2> QED BY Zenon, <1>5, <2>1
  <1>7. m \notin {q[i] : i \in 1 .. Len(q)}
    BY Zenon, <1>1, <1>3
  <1>8. \A i, j \in 1 .. Len(nodes) : nodes[i] = nodes[j] => i = j
    <2> SUFFICES ASSUME NEW i \in 1 .. Len(nodes), NEW j \in 1 .. Len(nodes),
                        nodes[i] = nodes[j]
                 PROVE  i = j
      OBVIOUS
    <2>1. CASE i = 1 \/ j = 1
      BY Zenon, <1>4, <1>6, <1>7, <2>1
    <2>2. CASE i # 1 /\ j # 1
      <3>1. i - 1 = j - 1 /\ i \in Int /\ j \in Int
        BY Zenon, <1>3, <1>6, <2>2
      <3> QED BY <3>1
    <2> QED BY Zenon, <2>1, <2>2
  <1>9. {nodes[i] : i \in 1 .. Len(nodes)} = InQueue(room) \cup {m}
    <2>1. \A i \in 1 .. Len(q) : i + 1 \in 1 .. Len(nodes)
      BY <1>3, <1>4
    <2>2. 1 \in 1 .. Len(nodes)
      BY <1>3, <1>4
    <2> DEFINE N == {nodes[i] : i \in 1 .. Len(nodes)}
               Q == {q[i] : i \in 1 .. Len(q)}
    <2>3. N \subseteq Q \cup {m}
      BY Zenon, <1>4, <1>6
    <2>4. m \in N
      BY Zenon, <1>4, <2>2
    <2>5. \A i \in 1 .. Len(q) : q[i] \in N
      BY Zenon, <1>5, <2>1
    <2>6. Q \subseteq N
      <3> HIDE DEF N
      <3> QED BY Zenon, <2>5
    <2> HIDE DEF N, Q
    <2>7. N = Q \cup {m}
      BY Zenon, <2>3, <2>4, <2>6
    <2> QED BY Zenon, <1>3, <2>7 DEF N, Q
  <1>10. Len(nodes) = Len(room.nodes) + 1
    BY Zenon, <1>4 DEF q
  <1> QED BY Zenon, <1>2, <1>4, <1>8, <1>9, <1>10, PlacedCounts

\* A pop takes one message and counts nothing (mpmc_pop_head_locked).
LEMMA PopTakes ==
    ASSUME NEW x, IsList(x), x.count > 0,
           NEW popped, popped = mpmc_pop_head_locked(x)
    PROVE  /\ IsList(popped.q) /\ popped.item \in InQueue(x)
           /\ InQueue(popped.q) = InQueue(x) \ {popped.item}
           /\ popped.q.count = x.count - 1
           /\ popped.q.dropped_count = x.dropped_count
PROOF
  <1> DEFINE q == x.nodes
             rest == Tail(q)
             y == [x EXCEPT !.nodes = Tail(@), !.count = @ - 1,
                            !.current_bytes = @ - Needed(Head(x.nodes))]
  <1>1. popped = [item |-> Head(q), q |-> y]
    BY Zenon DEF mpmc_pop_head_locked, IsList
  <1>2. /\ DOMAIN x = QueueFields /\ x.mode = "DYNAMIC" /\ x.count = Len(q)
        /\ q \in Seq(Nat) /\ x.dropped_count \in Nat /\ Len(q) \in Nat
        /\ Len(q) > 0 /\ q # <<>>
        /\ \A i, j \in 1 .. Len(q) : q[i] = q[j] => i = j
    BY DEF IsList
  <1>3. /\ DOMAIN y = QueueFields /\ y.mode = "DYNAMIC" /\ y.nodes = rest
        /\ y.count = x.count - 1 /\ y.dropped_count = x.dropped_count
    BY Zenon, <1>2 DEF QueueFields
  <1> HIDE DEF y
  <1>4. popped.item = Head(q) /\ popped.q = y
    BY <1>1
  <1>5. InQueue(x) = {q[i] : i \in 1 .. Len(q)}
    BY Zenon, ListContents
  <1> HIDE DEF q
  <1>6. rest \in Seq(Nat) /\ Len(rest) = Len(q) - 1 /\ Head(q) = q[1]
    BY <1>2
  <1>7. ASSUME NEW i \in 1 .. (Len(q) - 1)
        PROVE  rest[i] = q[i + 1] /\ i + 1 \in 1 .. Len(q) /\ i \in Int
    BY <1>2
  <1> HIDE DEF rest
  <1>8. IsList(y)
    <2>1. \A i, j \in 1 .. (Len(q) - 1) : rest[i] = rest[j] => i = j
      <3> SUFFICES ASSUME NEW i \in 1 .. (Len(q) - 1), NEW j \in 1 .. (Len(q) - 1),
                          rest[i] = rest[j]
                   PROVE  i = j
        OBVIOUS
      <3>1. i + 1 = j + 1 /\ i \in Int /\ j \in Int
        BY Zenon, <1>2, <1>7
      <3> QED BY <3>1
    <2>2. y.count = Len(rest)
      BY Zenon, <1>2, <1>3, <1>6
    <2>3. \A i, j \in 1 .. Len(y.nodes) : y.nodes[i] = y.nodes[j] => i = j
      BY Zenon, <1>3, <1>6, <2>1
    <2>4. y.nodes \in Seq(Nat) /\ y.count = Len(y.nodes) /\ y.dropped_count \in Nat
      BY Zenon, <1>2, <1>3, <1>6, <2>2
    <2> QED BY Zenon, <1>3, <2>3, <2>4 DEF IsList
  <1>9. InQueue(y) = {rest[i] : i \in 1 .. (Len(q) - 1)}
    <2>1. InQueue(y) = {y.nodes[i] : i \in 1 .. Len(y.nodes)}
      BY Zenon, <1>8, ListContents
    <2>2. y.nodes = rest /\ Len(rest) = Len(q) - 1
      BY Zenon, <1>3, <1>6
    <2> QED BY Zenon, <2>1, <2>2
  <1>10. 1 \in 1 .. Len(q)
    BY <1>2
  <1>11. \A i \in 1 .. Len(q) : i = 1 \/ (i - 1 \in 1 .. (Len(q) - 1)
                                            /\ rest[i - 1] = q[i])
    <2> SUFFICES ASSUME NEW i \in 1 .. Len(q), i # 1
                 PROVE  i - 1 \in 1 .. (Len(q) - 1) /\ rest[i - 1] = q[i]
      OBVIOUS
    <2>1. i - 1 \in 1 .. (Len(q) - 1) /\ (i - 1) + 1 = i
      BY <1>2
    <2> QED BY Zenon, <1>7, <2>1
  <1>12. \A i \in 1 .. (Len(q) - 1) : rest[i] # q[1]
    <2> SUFFICES ASSUME NEW i \in 1 .. (Len(q) - 1), rest[i] = q[1] PROVE FALSE
      OBVIOUS
    <2>1. i + 1 = 1 /\ i \in Int /\ i >= 1
      BY <1>2, <1>7, <1>10
    <2> QED BY <2>1
  <1>13. InQueue(y) = InQueue(x) \ {q[1]} /\ q[1] \in InQueue(x)
    BY <1>5, <1>7, <1>9, <1>10, <1>11, <1>12
  <1> QED BY Zenon, <1>3, <1>4, <1>6, <1>8, <1>13

-----------------------------------------------------------------------------
(* Between queue and window *)

\* The messages in a send window, acknowledged or not.
InWindow(win) == Payloads(win, Outstanding(win))

\* A window that carries messages, each once.
IsWindow(win) ==
    \E h, msgs :
        /\ Carries(win, h, msgs)
        /\ \A a, b \in h .. Len(msgs) : msgs[a] = msgs[b] => a = b

\* An empty window (rel4u_send_window_init, rel4u_send_window_reset).
LEMMA ResetWindow ==
    /\ IsWindow(send_window_init(WindowSize, 1))
    /\ InWindow(send_window_init(WindowSize, 1)) = {}
    /\ \A win : IsWindow(win) =>
           send_window_reset(win, 1) = send_window_init(WindowSize, 1)
PROOF
  <1> DEFINE new == send_window_init(WindowSize, 1)
  <1>1. Carries(new, 1, << >>)
    BY Zenon, ResetCarries
  <1> HIDE DEF new
  <1>2. 1 .. Len(<< >>) = {}
    OBVIOUS
  <1>3. IsWindow(new)
    BY Zenon, <1>1, <1>2 DEF IsWindow
  <1>4. InWindow(new) = {}
    <2>1. Payloads(new, Outstanding(new)) = {<< >>[n] : n \in 1 .. Len(<< >>)}
      BY <1>1, CarriesFacts
    <2> QED BY Zenon, <1>2, <2>1 DEF InWindow
  <1>5. ASSUME NEW win, IsWindow(win)
        PROVE  send_window_reset(win, 1) = new
    BY Zenon, <1>5, ResetCarries DEF IsWindow, Carries, new
  <1> QED BY Zenon, <1>3, <1>4, <1>5 DEF new

\* Pushing a message that is not there yet.
LEMMA PushWindow ==
    ASSUME NEW win, IsWindow(win), send_window_can_send(win), NEW mode,
           NEW m \in Nat, m \notin InWindow(win),
           NEW new, new = send_window_push(win, mode, m, 0)
    PROVE  IsWindow(new) /\ InWindow(new) \subseteq InWindow(win) \cup {m}
PROOF
  <1>1. PICK h, msgs : /\ Carries(win, h, msgs)
                       /\ \A a, b \in h .. Len(msgs) : msgs[a] = msgs[b] => a = b
    BY Zenon DEF IsWindow
  <1>2. InWindow(win) = {msgs[n] : n \in h .. Len(msgs)}
    BY <1>1, CarriesFacts DEF InWindow
  <1>3. CASE Carries(new, h, msgs)
    BY <1>1, <1>2, <1>3, CarriesFacts DEF InWindow, IsWindow
  <1>4. CASE Carries(new, h, Append(msgs, m))
    <2> DEFINE more == Append(msgs, m)
               L == Len(msgs)
    <2>1. msgs \in Seq(Nat) /\ L \in Nat /\ h \in Int /\ h >= 1
      BY Zenon, <1>1, CarriesFacts DEF Carries
    <2>2. Len(more) = L + 1 /\ more[L + 1] = m
      BY <2>1
    <2>3. \A n \in h .. L : n \in 1 .. L
      BY <2>1
    <2>4. \A n \in 1 .. L : more[n] = msgs[n]
      BY <2>1
    <2> HIDE DEF more
    <2>5. \A n \in h .. Len(more) : n = L + 1 \/ n \in h .. L
      BY <2>1, <2>2
    <2>6. m \notin {msgs[n] : n \in h .. L}
      BY Zenon, <1>2
    <2>7. \A a, b \in h .. Len(more) : more[a] = more[b] => a = b
      BY Zenon, <1>1, <2>2, <2>3, <2>4, <2>5, <2>6
    <2>8. Carries(new, h, more)
      BY Zenon, <1>4 DEF more
    <2>9. InWindow(new) = {more[n] : n \in h .. Len(more)}
      BY <2>8, CarriesFacts DEF InWindow
    <2>10. InWindow(new) \subseteq InWindow(win) \cup {m}
      BY Zenon, <1>2, <2>2, <2>3, <2>4, <2>5, <2>9
    <2> QED BY Zenon, <2>7, <2>8, <2>10 DEF IsWindow
  <1> QED BY Zenon, <1>1, <1>3, <1>4, PushCarries

\* Any acknowledgement leaves some of the messages.
LEMMA AckWindow ==
    ASSUME NEW win, IsWindow(win), NEW ack, NEW sack,
           NEW new, new = send_window_on_ack(win, ack, sack)
    PROVE  IsWindow(new) /\ InWindow(new) \subseteq InWindow(win)
PROOF
  <1>1. PICK h, msgs : /\ Carries(win, h, msgs)
                       /\ \A a, b \in h .. Len(msgs) : msgs[a] = msgs[b] => a = b
    BY Zenon DEF IsWindow
  <1> DEFINE mid == ack_cumulative(win, ack)
  <1>2. PICK k \in h .. (Len(msgs) + 1) : Carries(mid, k, msgs)
    BY Zenon, <1>1, CumulativeCarries
  <1>3. new = ack_selective(mid, ack, sack)
    BY Zenon DEF send_window_on_ack
  <1> HIDE DEF mid
  <1>4. Carries(new, k, msgs)
    BY Zenon, <1>2, <1>3, SelectiveCarries
  <1>5. k .. Len(msgs) \subseteq h .. Len(msgs)
    <2>1. Len(msgs) \in Nat /\ h \in Int
      BY Zenon, <1>1, CarriesFacts
    <2> QED BY <2>1
  <1>6. /\ InWindow(win) = {msgs[n] : n \in h .. Len(msgs)}
        /\ InWindow(new) = {msgs[n] : n \in k .. Len(msgs)}
    BY <1>1, <1>4, CarriesFacts DEF InWindow
  <1> QED BY Zenon, <1>1, <1>4, <1>5, <1>6 DEF IsWindow

\* Reclaiming counts what the queue has no room for, be it the message reclaimed
\* or one it pushes out (rel4u_send_window_reclaim_unacked).
LEMMA ReclaimCounts ==
    ASSUME NEW win, IsWindow(win), NEW queue, IsList(queue),
           InWindow(win) \cap InQueue(queue) = {}
    PROVE  Counts(queue, InQueue(queue) \cup Payloads(win, Unacked(win)),
                  send_window_reclaim_unacked(win, queue))
PROOF
  <1>1. PICK h, msgs : /\ Carries(win, h, msgs)
                       /\ \A a, b \in h .. Len(msgs) : msgs[a] = msgs[b] => a = b
    BY Zenon DEF IsWindow
  <1> DEFINE L == Len(msgs)
             N == seq_diff(win.next_seq, win.head_seq)
             Turn(i) == seq_add(win.next_seq, -i)
             G(q, i) == IF Turn(i) \notin Unacked(win) THEN q
                        ELSE mpmc_push_front_locked(q, SlotOf(win, Turn(i)).payload, TRUE).q
             Walk(f, k) == f = [i \in 0 .. k |-> IF i = 0 THEN queue ELSE G(f[i - 1], i)]
  <1>2. /\ L \in Nat /\ h \in Int /\ h >= 1 /\ N = L + 1 - h /\ N \in Nat
        /\ win.next_seq = SeqAt(L + 1)
    <2>1. /\ L \in Nat /\ h \in Int /\ h >= 1 /\ N = L + 1 - h /\ L + 1 - h >= 0
      BY Zenon, <1>1, CarriesFacts
    <2>2. win.next_seq = SeqAt(L + 1)
      BY Zenon, <1>1 DEF Carries
    <2> HIDE DEF N
    <2> QED BY <2>1, <2>2
  <1> HIDE DEF L, N
  <1>3. \A k \in 0 .. N : \E f : Walk(f, k)
    <2> DEFINE Bad == {k \in 0 .. N : ~\E f : Walk(f, k)}
    <2> HIDE DEF G
    <2> SUFFICES ASSUME Bad # {} PROVE FALSE
      OBVIOUS
    <2>1. Bad \subseteq Nat
      BY <1>2
    <2>2. PICK k \in Bad : \A j \in Bad : k <= j
      <3> HIDE DEF Bad
      <3> QED BY Zenon, <2>1, SmallestNat
    <2>3. CASE k = 0
      <3> DEFINE f == [i \in 0 .. 0 |-> queue]
      <3>0. ASSUME NEW i \in 0 .. 0
            PROVE  f[i] = IF i = 0 THEN queue ELSE G(f[i - 1], i)
        <4>1. i = 0
          OBVIOUS
        <4> QED BY Zenon, <4>1
      <3>1. Walk(f, 0)
        BY Zenon, <3>0
      <3> QED BY Zenon, <2>3, <3>1
    <2>4. CASE k # 0
      <3>1. k - 1 \in 0 .. N /\ k - 1 \notin Bad /\ k \in Nat /\ k - 1 \in Nat
        <4>1. k \in 0 .. N
          BY Zenon, <2>2
        <4>2. k \in Nat /\ k - 1 \in 0 .. N /\ k - 1 \in Nat /\ ~(k <= k - 1)
          BY <1>2, <2>4, <4>1
        <4> HIDE DEF Bad
        <4> QED BY Zenon, <2>2, <4>2
      <3>2. PICK f : Walk(f, k - 1)
        BY Zenon, <3>1
      <3> DEFINE g == [i \in 0 .. k |-> IF i = k THEN G(f[k - 1], k) ELSE f[i]]
      <3>3. ASSUME NEW i \in 0 .. k
            PROVE  g[i] = IF i = 0 THEN queue ELSE G(g[i - 1], i)
        <4>1. CASE i = k
          <5>1. g[k - 1] = f[k - 1] /\ g[k] = G(f[k - 1], k)
            BY <3>1
          <5> QED BY Zenon, <2>4, <4>1, <5>1
        <4>2. CASE i # k
          <5>1. i \in 0 .. (k - 1)
            BY <3>1, <4>2
          <5>2. g[i] = f[i] /\ f[i] = IF i = 0 THEN queue ELSE G(f[i - 1], i)
            BY Zenon, <3>2, <4>2, <5>1
          <5>3. i # 0 => g[i - 1] = f[i - 1]
            BY <3>1, <5>1
          <5> QED BY Zenon, <5>2, <5>3
        <4> QED BY Zenon, <4>1, <4>2
      <3>4. Walk(g, k)
        BY Zenon, <3>3
      <3> QED BY Zenon, <3>4
    <2> QED BY Zenon, <2>3, <2>4
  <1>4. PICK f : Walk(f, N) /\ send_window_reclaim_unacked(win, queue) = f[N]
    <2> DEFINE w == CHOOSE f : Walk(f, N)
    <2>1. Walk(w, N)
      <3> HIDE DEF Walk
      <3>1. N \in 0 .. N
        BY <1>2
      <3> QED BY Zenon, <1>3, <3>1
    <2>2. send_window_reclaim_unacked(win, queue) = w[N]
      BY Zenon DEF send_window_reclaim_unacked, N
    <2> HIDE DEF w
    <2> QED BY Zenon, <2>1, <2>2
  <1> DEFINE Back(i) == {msgs[j] : j \in {n \in (L + 1 - i) .. L : SeqAt(n) \in Unacked(win)}}
             P(i) == Counts(queue, InQueue(queue) \cup Back(i), f[i])
  <1>5. ASSUME NEW i \in 1 .. N
        PROVE  /\ Turn(i) = SeqAt(L + 1 - i) /\ L + 1 - i \in h .. L /\ i \in Nat
               /\ SlotOf(win, Turn(i)).payload = msgs[L + 1 - i]
               /\ msgs[L + 1 - i] \in InWindow(win) /\ msgs[L + 1 - i] \in Nat
               /\ msgs[L + 1 - i] \notin Back(i - 1)
               /\ Back(i) = IF Turn(i) \in Unacked(win)
                            THEN Back(i - 1) \cup {msgs[L + 1 - i]}
                            ELSE Back(i - 1)
    <2> DEFINE j == L + 1 - i
    <2>1. /\ j \in h .. L /\ j \in Int /\ i \in Nat /\ -i \in Int /\ L + 1 \in Int
          /\ L + 1 + (-i) = j /\ L + 1 - (i - 1) = j + 1 /\ j \in 1 .. L
      BY <1>2
    <2>2. Turn(i) = SeqAt(j)
      BY Zenon, <1>2, <2>1, SeqAtAdd
    <2>3. SlotOf(win, Turn(i)).payload = msgs[j]
      <3>1. SlotOf(win, SeqAt(j)) = win.slots[At(j)]
        BY Zenon, <1>1, <2>1, CarriesFacts
      <3> QED BY Zenon, <1>1, <2>1, <2>2, <3>1 DEF Carries, L
    <2>4. msgs[j] \in InWindow(win) /\ msgs[j] \in Nat
      <3>1. InWindow(win) = {msgs[n] : n \in h .. L}
        BY <1>1, CarriesFacts DEF InWindow, L
      <3>2. msgs \in Seq(Nat)
        BY Zenon, <1>1 DEF Carries
      <3> QED BY <2>1, <3>1, <3>2 DEF L
    <2>5. \A n \in (j + 1) .. L : n \in h .. L /\ n # j
      BY <1>2, <2>1
    <2>6. \A n \in (j + 1) .. L : msgs[n] # msgs[j]
      BY Zenon, <1>1, <2>1, <2>5 DEF L
    <2>7. \A n : n \in j .. L <=> n = j \/ n \in (j + 1) .. L
      BY <1>2, <2>1
    <2> HIDE DEF j, Turn
    <2>8. /\ Back(i - 1) = {msgs[n] : n \in {k \in (j + 1) .. L : SeqAt(k) \in Unacked(win)}}
          /\ Back(i) = {msgs[n] : n \in {k \in j .. L : SeqAt(k) \in Unacked(win)}}
      BY Zenon, <2>1 DEF j
    <2>9. msgs[j] \notin Back(i - 1)
      BY Zenon, <2>6, <2>8
    <2>10. Back(i) = IF Turn(i) \in Unacked(win)
                     THEN Back(i - 1) \cup {msgs[j]} ELSE Back(i - 1)
      BY Zenon, <2>2, <2>7, <2>8
    <2> HIDE DEF Back
    <2> QED BY Zenon, <2>1, <2>2, <2>3, <2>4, <2>9, <2>10 DEF j
  <1>6. Payloads(win, Unacked(win)) = Back(N) /\ Back(0) = {}
    <2>1. L + 1 - N = h /\ L + 1 - 0 = L + 1 /\ (L + 1) .. L = {}
      BY <1>2
    <2>2. Unacked(win) \subseteq {SeqAt(n) : n \in h .. L}
      BY Zenon, <1>1, CarriesFacts DEF Unacked, L
    <2>3. \A n \in h .. L : SlotOf(win, SeqAt(n)).payload = msgs[n]
      <3> SUFFICES ASSUME NEW n \in h .. L
                   PROVE  SlotOf(win, SeqAt(n)).payload = msgs[n]
        OBVIOUS
      <3>1. n \in Int
        BY <1>2
      <3>2. SlotOf(win, SeqAt(n)) = win.slots[At(n)]
        BY Zenon, <1>1, <3>1, CarriesFacts
      <3> QED BY Zenon, <1>1, <3>2 DEF Carries, L
    <2>4. Back(N) = {msgs[n] : n \in {k \in h .. L : SeqAt(k) \in Unacked(win)}}
      BY Zenon, <2>1
    <2>5. Back(0) = {}
      BY Zenon, <2>1
    <2> DEFINE mine == {k \in h .. L : SeqAt(k) \in Unacked(win)}
               pay == {SlotOf(win, s).payload : s \in Unacked(win)}
    <2>6. \A n \in mine : msgs[n] \in pay
      BY Zenon, <2>3
    <2>7. \A s \in Unacked(win) : \E n \in mine : SlotOf(win, s).payload = msgs[n]
      <3> SUFFICES ASSUME NEW s \in Unacked(win)
                   PROVE  \E n \in mine : SlotOf(win, s).payload = msgs[n]
        OBVIOUS
      <3>1. PICK n \in h .. L : s = SeqAt(n)
        BY Zenon, <2>2
      <3> QED BY Zenon, <2>3, <3>1
    <2>8. pay = {msgs[n] : n \in mine}
      <3> HIDE DEF mine
      <3> QED BY Zenon, <2>6, <2>7
    <2> QED BY Zenon, <2>4, <2>5, <2>8 DEF Payloads
  <1>7. \A i \in 0 .. N : Back(i) \subseteq InWindow(win) /\ IsFiniteSet(Back(i))
    <2> SUFFICES ASSUME NEW i \in 0 .. N
                 PROVE  Back(i) \subseteq InWindow(win) /\ IsFiniteSet(Back(i))
      OBVIOUS
    <2> DEFINE all == {msgs[n] : n \in h .. L}
    <2>1. InWindow(win) = all
      BY <1>1, CarriesFacts DEF InWindow, L
    <2>2. (L + 1 - i) .. L \subseteq h .. L
      BY <1>2
    <2>3. Back(i) \subseteq all
      BY Zenon, <2>2
    <2>4. IsFiniteSet(h .. L)
      BY <1>2, FS_Interval
    <2>5. IsFiniteSet(all)
      <3> DEFINE e == [n \in h .. L |-> msgs[n]]
      <3>1. e \in [h .. L -> all] /\ \A t \in all : \E n \in h .. L : e[n] = t
        OBVIOUS
      <3>2. e \in Surjection(h .. L, all)
        BY Zenon, <3>1 DEF Surjection
      <3> HIDE DEF e, all
      <3> QED BY Zenon, <2>4, <3>2, FS_Surjection
    <2> HIDE DEF Back, all
    <2> QED BY Zenon, <2>1, <2>3, <2>5, FS_Subset
  <1> HIDE DEF Back, Turn
  <1>8. P(0)
    <2>1. 0 \in 0 .. N /\ f[0] = queue
      BY <1>2, <1>4
    <2>2. InQueue(queue) \cup Back(0) = InQueue(queue)
      BY Zenon, <1>6
    <2>3. Cardinality(InQueue(queue) \ InQueue(queue)) = 0
      BY Zenon, FS_EmptySet
    <2>4. queue.dropped_count
              = queue.dropped_count + Cardinality(InQueue(queue) \ InQueue(queue))
      BY <2>3 DEF IsList
    <2>5. Counts(queue, InQueue(queue), queue)
      BY Zenon, <2>4 DEF Counts
    <2> QED BY Zenon, <2>1, <2>2, <2>5
  <1>9. ASSUME NEW i \in 1 .. N, P(i - 1) PROVE P(i)
    <2> DEFINE m == msgs[L + 1 - i]
               all == InQueue(queue) \cup Back(i - 1)
    <2>1. i \in 0 .. N /\ i # 0 /\ i - 1 \in 0 .. N
      BY <1>2
    <2>2. f[i] = G(f[i - 1], i)
      <3> HIDE DEF G
      <3> QED BY Zenon, <1>4, <2>1
    <2>3. /\ SlotOf(win, Turn(i)).payload = m /\ m \in InWindow(win) /\ m \in Nat
          /\ m \notin Back(i - 1)
          /\ Back(i) = IF Turn(i) \in Unacked(win) THEN Back(i - 1) \cup {m}
                       ELSE Back(i - 1)
      BY Zenon, <1>5
    <2> HIDE DEF m
    <2>4. CASE Turn(i) \notin Unacked(win)
      BY Zenon, <1>9, <2>2, <2>3, <2>4
    <2>5. CASE Turn(i) \in Unacked(win)
      <3>1. f[i] = mpmc_push_front_locked(f[i - 1], m, TRUE).q
        BY Zenon, <2>2, <2>3, <2>5
      <3>2. /\ Counts(queue, all, f[i - 1]) /\ IsList(f[i - 1])
            /\ InQueue(f[i - 1]) \subseteq all
        BY Zenon, <1>9 DEF Counts
      <3>3. m \notin all
        BY Zenon, <2>3
      <3>4. IsFiniteSet(all)
        <4>1. IsFiniteSet(InQueue(queue)) /\ IsFiniteSet(Back(i - 1))
          BY Zenon, <1>7, <2>1, ListContents
        <4> QED BY Zenon, <4>1, FS_Union
      <3>5. Counts(f[i - 1], InQueue(f[i - 1]) \cup {m}, f[i])
        BY Zenon, <2>3, <3>1, <3>2, <3>3, PushFrontCounts
      <3>6. Counts(queue, all \cup {m}, f[i])
        <4> HIDE DEF all
        <4> QED BY Zenon, <3>2, <3>3, <3>4, <3>5, CountsOn
      <3>7. InQueue(queue) \cup Back(i) = all \cup {m}
        BY Zenon, <2>3, <2>5
      <3> HIDE DEF all
      <3> QED BY Zenon, <3>6, <3>7
    <2> QED BY Zenon, <2>4, <2>5
  <1> HIDE DEF P
  <1>10. \A i \in 0 .. N : P(i)
    <2> DEFINE Bad == {i \in 0 .. N : ~P(i)}
    <2> SUFFICES ASSUME Bad # {} PROVE FALSE
      OBVIOUS
    <2>1. Bad \subseteq Nat
      BY <1>2
    <2>2. PICK i \in Bad : \A j \in Bad : i <= j
      <3> HIDE DEF Bad
      <3> QED BY Zenon, <2>1, SmallestNat
    <2>3. i # 0
      BY Zenon, <1>8, <2>2
    <2>4. i \in 1 .. N /\ i - 1 \in 0 .. N /\ ~(i <= i - 1)
      BY <1>2, <2>2, <2>3
    <2>5. P(i - 1)
      BY Zenon, <2>2, <2>4
    <2> QED BY Zenon, <1>9, <2>2, <2>4, <2>5
  <1>11. N \in 0 .. N
    BY <1>2
  <1> QED BY Zenon, <1>4, <1>6, <1>10, <1>11 DEF P

\* The window and the queue of a client share no message, and hold messages of
\* some set only.
Apart(win, queue, all) ==
    /\ IsWindow(win) /\ IsList(queue)
    /\ InWindow(win) \cap InQueue(queue) = {}
    /\ InWindow(win) \cup InQueue(queue) \subseteq all

\* A turn of the drain: a message goes from the queue to the window.
LEMMA MoveApart ==
    ASSUME NEW win, NEW queue, NEW all, all \subseteq Nat, Apart(win, queue, all),
           queue.count > 0, send_window_can_send(win),
           NEW popped, popped = mpmc_pop_head_locked(queue), NEW mode,
           NEW new, new = send_window_push(win, mode, popped.item, 0)
    PROVE  /\ Apart(new, popped.q, all)
           /\ popped.q.count = queue.count - 1
           /\ popped.q.dropped_count = queue.dropped_count
PROOF
  <1> DEFINE m == popped.item
  <1>1. /\ IsList(popped.q) /\ m \in InQueue(queue)
        /\ InQueue(popped.q) = InQueue(queue) \ {m}
        /\ popped.q.count = queue.count - 1
        /\ popped.q.dropped_count = queue.dropped_count
    BY Zenon, PopTakes DEF Apart
  <1>2. m \in Nat /\ m \notin InWindow(win)
    BY Zenon, <1>1 DEF Apart
  <1>3. IsWindow(new) /\ InWindow(new) \subseteq InWindow(win) \cup {m}
    BY <1>2, PushWindow DEF Apart
  <1> HIDE DEF m
  <1> QED BY Zenon, <1>1, <1>3 DEF Apart

\* The drain loop moves messages and loses none of the count
\* (rel4u_client.c, the send part of the worker's turn).
LEMMA DrainedApart ==
    ASSUME NEW win, NEW queue, NEW all, all \subseteq Nat, Apart(win, queue, all),
           NEW d, d = Drained(win, queue)
    PROVE  Apart(d.win, d.queue, all) /\ d.queue.dropped_count = queue.dropped_count
PROOF
  <1> DEFINE N == queue.count
             start == [win |-> win, queue |-> queue]
             G(e, i) == IF ~send_window_can_send(e.win) THEN e
                        ELSE LET popped == mpmc_pop_head_locked(e.queue)
                                 m == popped.item
                             IN  [win |-> send_window_push(e.win, ModeOf(m), m, 0),
                                  queue |-> popped.q]
             Walk(f, k) == f = [i \in 0 .. k |-> IF i = 0 THEN start ELSE G(f[i - 1], i)]
  <1>1. N \in Nat
    BY DEF Apart, IsList
  <1>2. \A k \in 0 .. N : \E f : Walk(f, k)
    <2> DEFINE Bad == {k \in 0 .. N : ~\E f : Walk(f, k)}
    <2> HIDE DEF G, start, N
    <2> SUFFICES ASSUME Bad # {} PROVE FALSE
      OBVIOUS
    <2>1. Bad \subseteq Nat
      BY <1>1
    <2>2. PICK k \in Bad : \A j \in Bad : k <= j
      <3> HIDE DEF Bad
      <3> QED BY Zenon, <2>1, SmallestNat
    <2>3. CASE k = 0
      <3> DEFINE f == [i \in 0 .. 0 |-> start]
      <3>1. ASSUME NEW i \in 0 .. 0
            PROVE  f[i] = IF i = 0 THEN start ELSE G(f[i - 1], i)
        <4>1. i = 0
          OBVIOUS
        <4> QED BY Zenon, <4>1
      <3>2. Walk(f, 0)
        BY Zenon, <3>1
      <3> QED BY Zenon, <2>3, <3>2
    <2>4. CASE k # 0
      <3>1. k - 1 \in 0 .. N /\ k - 1 \notin Bad /\ k \in Nat /\ k - 1 \in Nat
        <4>1. k \in 0 .. N
          BY Zenon, <2>2
        <4>2. k \in Nat /\ k - 1 \in 0 .. N /\ k - 1 \in Nat /\ ~(k <= k - 1)
          BY <1>1, <2>4, <4>1
        <4> HIDE DEF Bad
        <4> QED BY Zenon, <2>2, <4>2
      <3>2. PICK f : Walk(f, k - 1)
        BY Zenon, <3>1
      <3> DEFINE g == [i \in 0 .. k |-> IF i = k THEN G(f[k - 1], k) ELSE f[i]]
      <3>3. ASSUME NEW i \in 0 .. k
            PROVE  g[i] = IF i = 0 THEN start ELSE G(g[i - 1], i)
        <4>1. CASE i = k
          <5>1. g[k - 1] = f[k - 1] /\ g[k] = G(f[k - 1], k)
            BY <3>1
          <5> QED BY Zenon, <2>4, <4>1, <5>1
        <4>2. CASE i # k
          <5>1. i \in 0 .. (k - 1)
            BY <3>1, <4>2
          <5>2. g[i] = f[i] /\ f[i] = IF i = 0 THEN start ELSE G(f[i - 1], i)
            BY Zenon, <3>2, <4>2, <5>1
          <5>3. i # 0 => g[i - 1] = f[i - 1]
            BY <3>1, <5>1
          <5> QED BY Zenon, <5>2, <5>3
        <4> QED BY Zenon, <4>1, <4>2
      <3>4. Walk(g, k)
        BY Zenon, <3>3
      <3> QED BY Zenon, <3>4
    <2> QED BY Zenon, <2>3, <2>4
  <1>3. PICK f : Walk(f, N) /\ d = f[N]
    <2> DEFINE w == CHOOSE f : Walk(f, N)
    <2>1. Walk(w, N)
      <3>1. N \in 0 .. N
        BY <1>1
      <3> HIDE DEF Walk
      <3> QED BY Zenon, <1>2, <3>1
    <2>2. Drained(win, queue) = w[N]
      BY Zenon DEF Drained
    <2> HIDE DEF w
    <2> QED BY Zenon, <2>1, <2>2
  <1> HIDE DEF N
  <1> DEFINE P(i) == /\ Apart(f[i].win, f[i].queue, all)
                     /\ f[i].queue.dropped_count = queue.dropped_count
                     /\ f[i].queue.count >= N - i
  <1>4. P(0)
    <2>1. f[0] = start
      <3>1. 0 \in 0 .. N
        BY <1>1
      <3> HIDE DEF G, start
      <3> QED BY Zenon, <1>3, <3>1
    <2>2. f[0].win = win /\ f[0].queue = queue /\ queue.count = N
      BY <2>1 DEF N
    <2>3. N >= N - 0
      BY <1>1
    <2> HIDE DEF start
    <2> QED BY Zenon, <2>2, <2>3
  <1>5. ASSUME NEW i \in 1 .. N, P(i - 1) PROVE P(i)
    <2> DEFINE e == f[i - 1]
               popped == mpmc_pop_head_locked(e.queue)
               mode == ModeOf(popped.item)
               new == send_window_push(e.win, mode, popped.item, 0)
    <2>1. i \in 0 .. N /\ i # 0 /\ i \in Nat /\ i <= N
      BY <1>1
    <2>2. f[i] = G(f[i - 1], i)
      <3> HIDE DEF G, start
      <3> QED BY Zenon, <1>3, <2>1
    <2>3. /\ Apart(e.win, e.queue, all) /\ e.queue.dropped_count = queue.dropped_count
          /\ e.queue.count >= N - (i - 1) /\ e.queue.count \in Nat
      <3>1. /\ Apart(e.win, e.queue, all)
            /\ e.queue.dropped_count = queue.dropped_count
            /\ e.queue.count >= N - (i - 1)
        BY Zenon, <1>5
      <3> HIDE DEF e
      <3>2. e.queue.count \in Nat
        <4>1. IsList(e.queue)
          BY Zenon, <3>1 DEF Apart
        <4> QED BY <4>1 DEF IsList
      <3> QED BY Zenon, <3>1, <3>2
    <2>4. CASE ~send_window_can_send(e.win)
      <3>1. f[i] = e
        BY Zenon, <2>2, <2>4
      <3>2. e.queue.count >= N - i
        BY <1>1, <2>1, <2>3
      <3> HIDE DEF e
      <3> QED BY Zenon, <2>3, <3>1, <3>2
    <2>5. CASE send_window_can_send(e.win)
      <3>1. f[i].win = new /\ f[i].queue = popped.q
        <4>1. f[i] = [win |-> new, queue |-> popped.q]
          BY Zenon, <2>2, <2>5
        <4> HIDE DEF new, popped
        <4> QED BY <4>1
      <3>2. e.queue.count > 0
        BY <1>1, <2>1, <2>3
      <3> HIDE DEF e, mode
      <3>3. /\ Apart(new, popped.q, all) /\ popped.q.count = e.queue.count - 1
            /\ popped.q.dropped_count = e.queue.dropped_count
        BY Zenon, <2>3, <2>5, <3>2, MoveApart
      <3> HIDE DEF new, popped
      <3>4. popped.q.count >= N - i
        BY <1>1, <2>1, <2>3, <3>3
      <3> QED BY Zenon, <2>3, <3>1, <3>3, <3>4
    <2> QED BY Zenon, <2>4, <2>5
  <1> HIDE DEF P
  <1>6. \A i \in 0 .. N : P(i)
    <2> DEFINE Bad == {i \in 0 .. N : ~P(i)}
    <2> SUFFICES ASSUME Bad # {} PROVE FALSE
      OBVIOUS
    <2>1. Bad \subseteq Nat
      BY <1>1
    <2>2. PICK i \in Bad : \A j \in Bad : i <= j
      <3> HIDE DEF Bad
      <3> QED BY Zenon, <2>1, SmallestNat
    <2>3. i # 0
      BY Zenon, <1>4, <2>2
    <2>4. i \in 1 .. N /\ i - 1 \in 0 .. N /\ ~(i <= i - 1)
      BY <1>1, <2>2, <2>3
    <2>5. P(i - 1)
      BY Zenon, <2>2, <2>4
    <2> QED BY Zenon, <1>5, <2>2, <2>4, <2>5
  <1>7. P(N)
    <2>1. N \in 0 .. N
      BY <1>1
    <2> QED BY Zenon, <1>6, <2>1
  <1> QED BY Zenon, <1>3, <1>7 DEF P

-----------------------------------------------------------------------------
(* Losses are counted *)

\* The client's messages, of which n were sent and those of gone were dropped.
Kept(win, queue, gone, n) ==
    /\ n \in Nat /\ Apart(win, queue, 1 .. n)
    /\ gone \subseteq 1 .. n
    /\ gone \cap (InWindow(win) \cup InQueue(queue)) = {}
    /\ Cardinality(gone) = queue.dropped_count

LossInv == Kept(send_win, send_queue, dropped, offered)

\* A push of messages that are neither queued nor dropped.
LEMMA PushedKept ==
    ASSUME NEW win, NEW queue, NEW gone, NEW n, Kept(win, queue, gone, n),
           NEW k \in Nat, n <= k, NEW ms, ms \subseteq 1 .. k,
           ms \cap gone = {}, NEW after,
           Counts(queue, InQueue(queue) \cup ms, after),
           NEW new, IsWindow(new), InWindow(new) \subseteq InWindow(win),
           InWindow(new) \cap ms = {}
    PROVE  Kept(new, after, gone \cup ((InQueue(queue) \cup ms) \ InQueue(after)), k)
PROOF
  <1> DEFINE all == InQueue(queue) \cup ms
             lost == all \ InQueue(after)
  <1>1. 1 .. n \subseteq 1 .. k
    BY DEF Kept
  <1>2. /\ IsList(after) /\ InQueue(after) \subseteq all
        /\ after.dropped_count = queue.dropped_count + Cardinality(lost)
    BY Zenon DEF Counts
  <1>3. /\ gone \subseteq 1 .. k /\ lost \subseteq 1 .. k /\ all \subseteq 1 .. k
        /\ gone \cap all = {} /\ InWindow(new) \cap all = {}
        /\ InWindow(new) \subseteq 1 .. k /\ gone \cap InWindow(new) = {}
    BY Zenon, <1>1 DEF Kept, Apart
  <1>4. Apart(new, after, 1 .. k)
    BY Zenon, <1>2, <1>3 DEF Apart
  <1>5. Cardinality(gone \cup lost) = after.dropped_count
    <2>1. IsFiniteSet(1 .. k)
      BY FS_Interval
    <2>2. IsFiniteSet(gone) /\ IsFiniteSet(lost)
      BY Zenon, <1>3, <2>1, FS_Subset
    <2>3. gone \cap lost = {} /\ Cardinality({}) = 0
      BY Zenon, <1>3, FS_EmptySet
    <2> HIDE DEF lost
    <2>4. Cardinality(gone \cup lost)
              = Cardinality(gone) + Cardinality(lost) - Cardinality(gone \cap lost)
      BY Zenon, <2>2, FS_Union
    <2>5. Cardinality(gone) \in Nat /\ Cardinality(lost) \in Nat
      BY Zenon, <2>2, FS_CardinalityType
    <2>6. Cardinality(gone) = queue.dropped_count
      BY Zenon DEF Kept
    <2>7. after.dropped_count = queue.dropped_count + Cardinality(lost)
      BY Zenon, <1>2
    <2>8. Cardinality(gone \cap lost) = 0
      BY Zenon, <2>3
    <2> QED BY <2>4, <2>5, <2>6, <2>7, <2>8
  <1>6. (gone \cup lost) \cap (InWindow(new) \cup InQueue(after)) = {}
    BY Zenon, <1>2, <1>3
  <1>7. gone \cup lost \subseteq 1 .. k
    BY Zenon, <1>3
  <1> HIDE DEF lost
  <1>8. Kept(new, after, gone \cup lost, k)
    BY Zenon, <1>4, <1>5, <1>6, <1>7 DEF Kept
  <1> QED BY Zenon, <1>8 DEF lost

\* A send (rel4u_client_send).
LEMMA SendKept ==
    ASSUME LossInv, rel4u_client_send
    PROVE  LossInv'
PROOF
  <1> DEFINE m == offered + 1
             y == mpmc_push_back_locked(send_queue, m, TRUE).q
  <1>1. /\ offered' = m /\ send_win' = send_win /\ send_queue' = y
        /\ dropped' = dropped \cup ((InQueue(send_queue) \cup {m}) \ InQueue(y))
    BY Zenon DEF rel4u_client_send, Pushed
  <1>2. /\ Kept(send_win, send_queue, dropped, offered) /\ IsList(send_queue)
        /\ IsWindow(send_win) /\ offered \in Nat
        /\ InWindow(send_win) \subseteq 1 .. offered
        /\ InQueue(send_queue) \subseteq 1 .. offered /\ dropped \subseteq 1 .. offered
    BY Zenon DEF LossInv, Kept, Apart
  <1>3. /\ m \in Nat /\ offered <= m /\ {m} \subseteq 1 .. m /\ m \notin 1 .. offered
    BY <1>2
  <1> HIDE DEF m
  <1>4. Counts(send_queue, InQueue(send_queue) \cup {m}, y)
    BY Zenon, <1>2, <1>3, PushBackCounts
  <1> HIDE DEF y
  <1>5. {m} \cap dropped = {} /\ InWindow(send_win) \cap {m} = {}
    BY Zenon, <1>2, <1>3
  <1>6. Kept(send_win, y, dropped \cup ((InQueue(send_queue) \cup {m}) \ InQueue(y)), m)
    BY Zenon, <1>2, <1>3, <1>4, <1>5, PushedKept
  <1> QED BY Zenon, <1>1, <1>6 DEF LossInv

\* A lost session (client_trigger_reconnect).
LEMMA ReconnectKept ==
    ASSUME NEW win, NEW queue, Kept(win, queue, dropped, offered),
           client_trigger_reconnect(win, queue)
    PROVE  LossInv'
PROOF
  <1>1. offered' = offered
    BY Zenon DEF client_trigger_reconnect
  <1>2. /\ IsWindow(win) /\ IsList(queue) /\ offered \in Nat
        /\ InWindow(win) \cap InQueue(queue) = {}
        /\ InWindow(win) \subseteq 1 .. offered /\ dropped \cap InWindow(win) = {}
    BY Zenon DEF Kept, Apart
  <1>3. CASE auto
    <2> DEFINE ms == Payloads(win, Unacked(win))
               y == send_window_reclaim_unacked(win, queue)
               new == send_window_init(WindowSize, 1)
    <2>1. /\ send_win' = new /\ send_queue' = y
          /\ dropped' = dropped \cup ((InQueue(queue) \cup ms) \ InQueue(y))
      <3>1. send_window_reset(win, 1) = new
        BY Zenon, <1>2, ResetWindow
      <3> QED BY Zenon, <1>3, <3>1 DEF client_trigger_reconnect, Pushed
    <2>2. Counts(queue, InQueue(queue) \cup ms, y)
      BY Zenon, <1>2, ReclaimCounts
    <2>3. ms \subseteq InWindow(win)
      <3>1. Unacked(win) \subseteq Outstanding(win)
        BY Zenon DEF Unacked
      <3> QED BY Zenon, <3>1 DEF InWindow, Payloads
    <2>4. IsWindow(new) /\ InWindow(new) = {}
      BY Zenon, ResetWindow
    <2>5. offered <= offered /\ ms \subseteq 1 .. offered /\ ms \cap dropped = {}
      BY <1>2, <2>3
    <2> HIDE DEF ms, y, new
    <2>6. Kept(new, y, dropped \cup ((InQueue(queue) \cup ms) \ InQueue(y)), offered)
      BY Zenon, <1>2, <2>2, <2>4, <2>5, PushedKept
    <2> QED BY Zenon, <1>1, <2>1, <2>6 DEF LossInv
  <1>4. CASE ~auto
    <2>1. /\ send_win' = win /\ send_queue' = queue
          /\ dropped' = dropped \cup ((InQueue(queue) \cup {}) \ InQueue(queue))
      BY Zenon, <1>4 DEF client_trigger_reconnect, Pushed
    <2>2. dropped' = dropped
      BY Zenon, <2>1
    <2> QED BY Zenon, <1>1, <2>1, <2>2 DEF LossInv
  <1> QED BY Zenon, <1>3, <1>4

\* A step that leaves the messages where they are, or empties the window.
LEMMA QuietKept ==
    ASSUME LossInv, UNCHANGED <<send_queue, offered, dropped>>,
           IsWindow(send_win'), InWindow(send_win') \subseteq InWindow(send_win)
    PROVE  LossInv'
BY Zenon DEF LossInv, Kept, Apart

\* Every step keeps LossInv.
LEMMA StepKept ==
    ASSUME LossInv, [Next]_vars
    PROVE  LossInv'
PROOF
  <1> USE DEF clientVars, workerVars, appVars, serverVars, sendVars, joinVars,
              deliveryVars
  <1>1. ASSUME UNCHANGED <<send_win, send_queue, offered, dropped>> PROVE LossInv'
    <2>1. IsWindow(send_win)
      BY Zenon DEF LossInv, Kept, Apart
    <2> QED BY Zenon, <1>1, <2>1, QuietKept
  <1>2. ASSUME send_win' = send_window_reset(send_win, 1),
               UNCHANGED <<send_queue, offered, dropped>>
        PROVE  LossInv'
    <2>1. IsWindow(send_win)
      BY Zenon DEF LossInv, Kept, Apart
    <2>2. IsWindow(send_win') /\ InWindow(send_win') = {}
      BY Zenon, <1>2, <2>1, ResetWindow
    <2> QED BY Zenon, <1>2, <2>2, QuietKept
  <1>3. CASE UNCHANGED vars
    BY Zenon, <1>1, <1>3 DEF vars
  <1>4. CASE rel4u_client_send
    BY Zenon, <1>4, SendKept
  <1>5. CASE \E next : Disconnect(next)
    BY Zenon, <1>1, <1>5 DEF Disconnect
  <1>6. CASE SendFin \/ StopWorker \/ Connected \/ WorkerEnds \/ WorkerTop
    BY Zenon, <1>1, <1>6 DEF SendFin, StopWorker, Connected, WorkerEnds, WorkerTop
  <1>7. CASE JoinWorker \/ StartWorker
    BY Zenon, <1>2, <1>7 DEF JoinWorker, StartWorker
  <1>8. CASE ServerTimers \/ Forget \/ rel4u_server_disconnect_client \/ NetworkHeals
    BY Zenon, <1>1, <1>8 DEF ServerTimers, Forget, rel4u_server_disconnect_client,
                      NetworkHeals
  <1>9. CASE \E p \in up : ServerReceives(p)
    BY Zenon, <1>1, <1>9 DEF ServerReceives
  <1>10. CASE WorkerSends
    <2> DEFINE d == IF st = "CONNECTED" THEN Drained(send_win, send_queue)
                    ELSE [win |-> send_win, queue |-> send_queue]
    <2>1. Kept(d.win, d.queue, dropped, offered)
      <3>1. CASE st = "CONNECTED"
        <4> DEFINE e == Drained(send_win, send_queue)
                   all == (1 .. offered) \ dropped
        <4>1. Apart(send_win, send_queue, all) /\ all \subseteq Nat
          BY DEF LossInv, Kept, Apart
        <4>2. Apart(e.win, e.queue, all)
              /\ e.queue.dropped_count = send_queue.dropped_count
          <5> HIDE DEF all
          <5> QED BY Zenon, <4>1, DrainedApart
        <4> HIDE DEF e
        <4>3. Kept(e.win, e.queue, dropped, offered)
          BY Zenon, <4>2 DEF Kept, LossInv, Apart
        <4> QED BY Zenon, <3>1, <4>3 DEF e
      <3>2. CASE st # "CONNECTED"
        BY Zenon, <3>2 DEF LossInv
      <3> QED BY Zenon, <3>1, <3>2
    <2>2. \/ send_win' = d.win /\ send_queue' = d.queue /\ UNCHANGED sendVars
          \/ client_trigger_reconnect(d.win, d.queue)
      BY Zenon, <1>10 DEF WorkerSends
    <2> HIDE DEF d
    <2>3. CASE send_win' = d.win /\ send_queue' = d.queue /\ UNCHANGED sendVars
      BY Zenon, <2>1, <2>3 DEF LossInv
    <2>4. CASE client_trigger_reconnect(d.win, d.queue)
      BY Zenon, <2>1, <2>4, ReconnectKept
    <2> QED BY Zenon, <2>2, <2>3, <2>4
  <1>11. ASSUME NEW p \in down, WorkerReceives(p) PROVE LossInv'
    <2>1. CASE ~Relevant(p)
      BY Zenon, <1>1, <1>11, <2>1 DEF WorkerReceives
    <2>2. CASE OnConnectResp(p) \/ OnRejectOrDisconnect(p)
      BY Zenon, <1>1, <2>2 DEF OnConnectResp, OnRejectOrDisconnect
    <2>3. CASE OnReset(p)
      BY Zenon, <2>3, ReconnectKept DEF OnReset, LossInv
    <2>4. CASE OnAck(p)
      <3>1. IsWindow(send_win)
        BY Zenon DEF LossInv, Kept, Apart
      <3>2. /\ send_win' = send_window_on_ack(send_win, p.ack_num, p.sack_mask)
            /\ UNCHANGED <<send_queue, offered, dropped>>
        BY Zenon, <2>4 DEF OnAck
      <3>3. IsWindow(send_win') /\ InWindow(send_win') \subseteq InWindow(send_win)
        BY Zenon, <3>1, <3>2, AckWindow
      <3> QED BY Zenon, <3>2, <3>3, QuietKept
    <2> QED BY Zenon, <1>11, <2>1, <2>2, <2>3, <2>4 DEF WorkerReceives
  <1>12. CASE rel4u_client_disconnect \/ rel4u_client_connect \/ ConnectFails
              \/ ConnectTimesOut
    BY Zenon, <1>5, <1>12 DEF rel4u_client_disconnect, rel4u_client_connect,
                       ConnectFails, ConnectTimesOut
  <1> QED
    BY Zenon, <1>3, <1>4, <1>6, <1>7, <1>8, <1>9, <1>10, <1>11, <1>12 DEF Next

\* The counter of the send queue is the number of messages lost by it, over any
\* number of sessions, and whatever the server acknowledges.
THEOREM LossesAlwaysCounted == Spec => []LossesCounted
PROOF
  <1>1. Init => LossInv
    <2> SUFFICES ASSUME Init PROVE LossInv
      OBVIOUS
    <2>1. IsWindow(send_win) /\ InWindow(send_win) = {}
      BY Zenon, ResetWindow DEF Init
    <2>2. IsList(send_queue) /\ send_queue.nodes = << >>
          /\ send_queue.dropped_count = 0
      <3>1. PICK full_policy \in FullPolicies :
                send_queue = mpmc_init("DYNAMIC", full_policy)
        BY Zenon DEF Init
      <3>2. << >> \in Seq(Nat) /\ Len(<< >>) = 0 /\ 1 .. Len(<< >>) = {}
        OBVIOUS
      <3>3. /\ DOMAIN send_queue = QueueFields /\ send_queue.mode = "DYNAMIC"
            /\ send_queue.nodes = << >> /\ send_queue.count = 0
            /\ send_queue.dropped_count = 0
        BY Zenon, <3>1 DEF mpmc_init, QueueFields
      <3> QED BY <3>2, <3>3 DEF IsList
    <2>3. InQueue(send_queue) = {}
      <3>1. InQueue(send_queue)
                = {send_queue.nodes[i] : i \in 1 .. Len(send_queue.nodes)}
        BY Zenon, <2>2, ListContents
      <3>2. 1 .. Len(<< >>) = {}
        OBVIOUS
      <3> QED BY Zenon, <2>2, <3>1, <3>2
    <2>4. offered = 0 /\ dropped = {}
      BY Zenon DEF Init
    <2> QED BY Zenon, <2>1, <2>2, <2>3, <2>4, FS_EmptySet DEF LossInv, Kept, Apart
  <1>2. LossInv /\ [Next]_vars => LossInv'
    BY Zenon, StepKept
  <1>3. LossInv => LossesCounted
    BY Zenon DEF LossInv, Kept, LossesCounted
  <1> QED BY <1>1, <1>2, <1>3, PTL DEF Spec

=============================================================================
