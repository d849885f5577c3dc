----------------------------- MODULE Connection -----------------------------
(***************************************************************************)
(* A client and the server's session with it, from connect to disconnect,  *)
(* with the auto-reconnect in between (src/src/core/rel4u_client.c, and    *)
(* the server's side of it, rel4u_server.c), over a network that loses,    *)
(* repeats and reorders datagrams.  Messages go from the client to the     *)
(* server; they are what client_trigger_reconnect has to carry over.       *)
(*                                                                         *)
(* The client keeps its address over all connections (bind_port), so the   *)
(* server may still have the session of an earlier one.  Time is left out: *)
(* a timer may run out at any moment.  A datagram that is not due is like  *)
(* one that is lost, so the two are one case here.  The send queue is in   *)
(* DYNAMIC memory and malloc succeeds; MpmcThreads has the rest.  Connect  *)
(* always gets its socket and its thread.                                  *)
(***************************************************************************)
EXTENDS Window, Mpmc

CONSTANTS
    WindowSize,     \* window_size of both ends
    ModeOf(_),      \* the delivery mode of a message
    NoSession,      \* the server has no session for the client's address
    MaxMessages,    \* bound: messages the application sends
    Limits          \* bounds, one choice of them for each behaviour

\* What a behaviour holds only so many of: calls of connect and disconnect, the
\* end of connect's and of the client's patience, sessions the server ends
\* without and with notice, and requests it rejects.
EventKinds == {"connect", "disconnect", "timeout", "silence", "forget", "kick",
               "reject"}

ASSUME ConnectionAssumption ==
    /\ WindowSize \in Nat /\ WindowSize >= 2
    /\ SeqMod % WindowSize = 0 /\ WindowSize < SeqMod \div 2
    /\ MaxMessages \in Nat /\ Items = 1 .. MaxMessages
    /\ \A m \in Items : ModeOf(m) \in ReliableModes
    /\ Limits \subseteq [messages : 0 .. MaxMessages, up : Nat, down : Nat,
                         events : Nat, kinds : SUBSET EventKinds,
                         network : {"lossy", "heals", "reliable"}]

VARIABLES
    \* rel4u_client_t
    auto,           \* !disable_auto_reconnect
    state, running, session_id, send_win, send_queue,
    \* the worker thread
    worker,         \* none, loop, or ended and not joined yet
    at,             \* where it is in its loop
    st,             \* its copy of state, local to a turn of the loop
    \* the application thread that connects and disconnects
    app,            \* where it is
    then,           \* what follows the disconnect it is in
    \* the server
    sess,           \* the session of the client's address
    ids,            \* session ids made so far
    \* datagrams under way
    up, down,
    \* history
    offered,        \* number of messages given to send
    delivered,      \* messages given to the server's application, by session
    dropped,        \* messages the send queue evicted or refused
    abandoned,      \* messages in the send window when a connection was ended
    joined,         \* session ids the client was connected with
    rejoined,       \* it came back to one of them
    cut,            \* the server ended a session that held messages back
    \* bounds
    limits          \* messages, datagrams under way each way, events still to
                    \* come and their kinds, and whether the network stays lossy

clientVars == <<auto, state, running, session_id, send_win, send_queue>>
workerVars == <<worker, at, st>>
appVars == <<app, then>>
serverVars == <<sess, ids>>
sendVars == <<offered, dropped, abandoned>>
joinVars == <<joined, rejoined>>
deliveryVars == <<delivered, cut>>
vars == <<clientVars, workerVars, appVars, serverVars, up, down, sendVars,
          joinVars, deliveryVars, limits>>

Init ==
    /\ auto \in BOOLEAN
    /\ state = "DISCONNECTED" /\ running = FALSE /\ session_id = 0
    /\ send_win = send_window_init(WindowSize, 1)
    /\ \E full_policy \in FullPolicies : send_queue = mpmc_init("DYNAMIC", full_policy)
    /\ worker = "none" /\ at = "top" /\ st = "none"
    /\ app = "idle" /\ then = "idle"
    /\ sess = NoSession /\ ids = 0
    /\ up = {} /\ down = {}
    /\ offered = 0 /\ delivered = <<>>
    /\ dropped = {} /\ abandoned = {}
    /\ joined = {} /\ rejoined = FALSE /\ cut = FALSE
    /\ limits \in Limits

Event(kind) ==
    /\ kind \in limits.kinds /\ limits.events > 0
    /\ limits' = [limits EXCEPT !.events = @ - 1]

-----------------------------------------------------------------------------
(* Datagrams *)

\* What may be under way once new datagrams are sent: any of them may be lost.
Sent(net, new, size) ==
    IF limits.network = "reliable" THEN {net \cup new}
    ELSE {both \in {net \cup kept : kept \in SUBSET new} : Cardinality(both) <= size}

SendUp(new) == up' \in Sent(up, new, limits.up)
SendDown(new) == down' \in Sent(down, new, limits.down)

\* What may be under way once p is received: it may come again.
Taken(net, p) ==
    IF limits.network = "reliable" THEN {net \ {p}} ELSE {net, net \ {p}}

\* From now on no datagram is lost and none is repeated.
NetworkHeals ==
    /\ limits.network = "heals"
    /\ limits' = [limits EXCEPT !.network = "reliable"]
    /\ UNCHANGED <<clientVars, workerVars, appVars, serverVars, up, down,
                   sendVars, joinVars, deliveryVars>>

\* A packet of the client that carries no message.  CONNECT_ACK, ACK and
\* HEARTBEAT_ACK do what a HEARTBEAT does whose answer is lost, so they are
\* HEARTBEATs here, in both directions.
Up(type, id) == [type |-> type, id |-> id, seq_num |-> 0, payload |-> NoPayload]

\* Message m as a DATA packet.
Data(id, seq, m) == [type |-> "DATA", id |-> id, seq_num |-> seq, payload |-> m]

\* server_send_packet: every packet of a session carries its acknowledgement.
Down(type, s) ==
    LET info == recv_window_get_ack_info(s.recv_win)
    IN  [type |-> type, id |-> s.id, ack_num |-> info.ack_num,
         sack_mask |-> info.sack_mask]

\* RESET, REJECT and DISCONNECT: a header that is zero but for the id.
Notice(type, id) == [type |-> type, id |-> id, ack_num |-> 0, sack_mask |-> {}]

-----------------------------------------------------------------------------
(* The application's calls *)

InQueue(q) == {Contents(q)[i] : i \in DOMAIN Contents(q)}

Payloads(win, seqs) == {SlotOf(win, s).payload : s \in seqs}

\* Pushing the messages of ms made queue into after; those not in it any more
\* are dropped.
Pushed(queue, ms, after) ==
    /\ send_queue' = after
    /\ dropped' = dropped \cup ((InQueue(queue) \cup ms) \ InQueue(after))

rel4u_client_send ==
    LET m == offered + 1
    IN  /\ offered < limits.messages
        /\ running
        /\ state = "CONNECTED" \/ (auto /\ state = "CONNECTING")
        /\ offered' = m
        /\ Pushed(send_queue, {m}, mpmc_push_back_locked(send_queue, m, TRUE).q)
        /\ UNCHANGED <<auto, state, running, session_id, send_win, workerVars,
                       appVars, serverVars, up, down, abandoned, joinVars,
                       deliveryVars, limits>>

\* rel4u_client_disconnect up to where it waits for something: with no worker
\* it is done, with one that stopped by itself it joins it.
Disconnect(next) ==
    /\ then' = next
    /\ CASE worker = "none" -> app' = next /\ state' = "DISCONNECTED"
         [] worker # "none" /\ running -> app' = "fin" /\ state' = "DISCONNECTING"
         [] OTHER -> app' = "join" /\ UNCHANGED state
    /\ UNCHANGED <<auto, running, session_id, send_win, send_queue, workerVars,
                   serverVars, up, down, sendVars, joinVars, deliveryVars>>

rel4u_client_disconnect ==
    /\ app = "idle" /\ worker # "none"
    /\ Event("disconnect")
    /\ Disconnect("idle")

\* The FIN goes out with whatever session_id is at this moment.
SendFin ==
    /\ app = "fin"
    /\ app' = "stop"
    /\ SendUp({Up("DISCONNECT", session_id)})
    /\ UNCHANGED <<clientVars, workerVars, then, serverVars, down, sendVars,
                   joinVars, deliveryVars, limits>>

\* faulty variant: a worker that left DISCONNECTING is not stopped
StopWorker_Disconnecting ==
    /\ app = "stop"
    /\ app' = "join"
    /\ running' = (running /\ state # "DISCONNECTING")
    /\ UNCHANGED <<auto, state, session_id, send_win, send_queue, workerVars,
                   then, serverVars, up, down, sendVars, joinVars,
                   deliveryVars, limits>>

\* The worker may have overwritten DISCONNECTING by now.
StopWorker ==
    /\ app = "stop"
    /\ app' = "join"
    /\ running' = FALSE
    /\ UNCHANGED <<auto, state, session_id, send_win, send_queue, workerVars,
                   then, serverVars, up, down, sendVars, joinVars,
                   deliveryVars, limits>>

\* The send queue keeps its messages for the next connection; those of the
\* send window are given up.
JoinWorker ==
    /\ app = "join" /\ worker = "ended"
    /\ app' = then
    /\ worker' = "none"
    /\ state' = "DISCONNECTED" /\ session_id' = 0
    /\ send_win' = send_window_reset(send_win, 1)
    /\ abandoned' = abandoned \cup Payloads(send_win, Outstanding(send_win))
    /\ UNCHANGED <<auto, running, send_queue, at, st, then, serverVars, up,
                   down, offered, dropped, joinVars, deliveryVars, limits>>

\* Connecting a connected client does nothing.
rel4u_client_connect ==
    /\ app = "idle" /\ state # "CONNECTED"
    /\ Event("connect")
    /\ Disconnect("connect")

StartWorker ==
    /\ app = "connect"
    /\ app' = "waiting" /\ then' = "idle"
    /\ send_win' = send_window_reset(send_win, 1)
    /\ session_id' = 0
    /\ state' = "CONNECTING" /\ running' = TRUE
    /\ worker' = "loop" /\ at' = "top"
    /\ UNCHANGED <<auto, send_queue, st, serverVars, up, down, sendVars,
                   joinVars, deliveryVars, limits>>

\* The loop of rel4u_client_connect finds the client connected.
Connected ==
    /\ app = "waiting" /\ running /\ state = "CONNECTED"
    /\ app' = "idle"
    /\ UNCHANGED <<clientVars, workerVars, then, serverVars, up, down, sendVars,
                   joinVars, deliveryVars, limits>>

\* It finds the worker stopped or the client disconnected.
ConnectFails ==
    /\ app = "waiting" /\ (~running \/ state = "DISCONNECTED")
    /\ Disconnect("idle")
    /\ UNCHANGED limits

\* Its time is over.
ConnectTimesOut ==
    /\ app = "waiting" /\ running
    /\ Event("timeout")
    /\ Disconnect("idle")

-----------------------------------------------------------------------------
(* The client's worker *)

\* faulty variant: the oldest message is pushed to the front first
send_window_reclaim_unacked_Backwards(win, queue) ==
    LET n == seq_diff(win.next_seq, win.head_seq)
        Turn(i) == seq_add(win.head_seq, i - 1)
        after[i \in 0 .. n] ==
            IF i = 0 THEN queue
            ELSE IF Turn(i) \notin Unacked(win) THEN after[i - 1]
            ELSE mpmc_push_front_locked(after[i - 1],
                                        SlotOf(win, Turn(i)).payload, TRUE).q
    IN  after[n]

\* Unacked messages go back to the front of the queue, the newest one first.
send_window_reclaim_unacked(win, queue) ==
    LET n == seq_diff(win.next_seq, win.head_seq)
        Turn(i) == seq_add(win.next_seq, -i)
        after[i \in 0 .. n] ==
            IF i = 0 THEN queue
            ELSE IF Turn(i) \notin Unacked(win) THEN after[i - 1]
            ELSE mpmc_push_front_locked(after[i - 1],
                                        SlotOf(win, Turn(i)).payload, TRUE).q
    IN  after[n]

\* faulty variant: unacked messages are not reclaimed
client_trigger_reconnect_NoReclaim(win, queue) ==
    /\ state' = IF auto THEN "CONNECTING" ELSE "DISCONNECTED"
    /\ send_win' = IF auto THEN send_window_reset(win, 1) ELSE win
    /\ session_id' = IF auto THEN 0 ELSE session_id
    /\ Pushed(queue, {}, queue)
    /\ UNCHANGED <<auto, running, offered, abandoned>>

\* Of a worker that finds its windows and queue as given.
client_trigger_reconnect(win, queue) ==
    /\ state' = IF auto THEN "CONNECTING" ELSE "DISCONNECTED"
    /\ send_win' = IF auto THEN send_window_reset(win, 1) ELSE win
    /\ session_id' = IF auto THEN 0 ELSE session_id
    /\ IF auto
       THEN Pushed(queue, Payloads(win, Unacked(win)),
                   send_window_reclaim_unacked(win, queue))
       ELSE Pushed(queue, {}, queue)
    /\ UNCHANGED <<auto, running, offered, abandoned>>

WorkerEnds ==
    /\ worker = "loop" /\ at = "top" /\ ~running
    /\ worker' = "ended"
    /\ UNCHANGED <<clientVars, at, st, appVars, serverVars, up, down, sendVars,
                   joinVars, deliveryVars, limits>>

\* The state is read once per turn of the loop; CONNECTING, a request is due.
WorkerTop ==
    /\ worker = "loop" /\ at = "top" /\ running
    /\ at' = "socket"
    /\ st' = state
    /\ SendUp(IF state = "CONNECTING" THEN {Up("CONNECT_REQ", session_id)} ELSE {})
    /\ UNCHANGED <<clientVars, worker, appVars, serverVars, down, sendVars,
                   joinVars, deliveryVars, limits>>

\* faulty variant: a CONNECT_RESP is taken in any state
Relevant_AnyState(p) ==
    CASE p.type = "REJECT" -> st = "CONNECTING"
      [] p.type = "CONNECT_RESP" -> p.id # 0
      [] OTHER -> st = "CONNECTED" /\ p.id = session_id

\* The packet passes the filter for the state and the session.
Relevant(p) ==
    CASE p.type = "REJECT" -> st = "CONNECTING"
      [] p.type = "CONNECT_RESP" -> st = "CONNECTING" /\ p.id # 0
      [] OTHER -> st = "CONNECTED" /\ p.id = session_id

OnConnectResp(p) ==
    /\ p.type = "CONNECT_RESP"
    /\ session_id' = p.id
    /\ state' = "CONNECTED" /\ st' = "CONNECTED"
    /\ SendUp({Up("HEARTBEAT", p.id)})
    /\ joined' = joined \cup {p.id}
    /\ rejoined' = (rejoined \/ p.id \in joined)
    /\ UNCHANGED <<auto, running, send_win, send_queue, at, sendVars>>

OnReset(p) ==
    /\ p.type = "RESET"
    /\ client_trigger_reconnect(send_win, send_queue)
    /\ st' = state'
    /\ UNCHANGED <<at, up, joinVars>>

\* The worker leaves the socket loop and finishes the turn with the state it
\* had: messages are still sent.
OnRejectOrDisconnect(p) ==
    /\ p.type \in {"REJECT", "DISCONNECT"}
    /\ state' = "DISCONNECTED" /\ running' = FALSE
    /\ at' = "last"
    /\ UNCHANGED <<auto, session_id, send_win, send_queue, st, up, sendVars,
                   joinVars>>

OnAck(p) ==
    /\ p.type = "HEARTBEAT"
    /\ send_win' = send_window_on_ack(send_win, p.ack_num, p.sack_mask)
    /\ SendUp({Up("HEARTBEAT", session_id)})
    /\ UNCHANGED <<auto, state, running, session_id, send_queue, at, st,
                   sendVars, joinVars>>

WorkerReceives(p) ==
    /\ worker = "loop" /\ at = "socket"
    /\ down' \in Taken(down, p)
    /\ IF Relevant(p)
       THEN OnConnectResp(p) \/ OnReset(p) \/ OnRejectOrDisconnect(p) \/ OnAck(p)
       ELSE UNCHANGED <<clientVars, at, st, up, sendVars, joinVars>>
    /\ UNCHANGED <<worker, appVars, serverVars, deliveryVars, limits>>

\* The window and the queue once the messages that fit went from one to the
\* other.
Drained(win, queue) ==
    LET after[i \in 0 .. queue.count] ==
            IF i = 0 THEN [win |-> win, queue |-> queue]
            ELSE IF ~send_window_can_send(after[i - 1].win) THEN after[i - 1]
            ELSE LET popped == mpmc_pop_head_locked(after[i - 1].queue)
                     m == popped.item
                 IN  [win |-> send_window_push(after[i - 1].win, ModeOf(m), m, 0),
                      queue |-> popped.q]
    IN  after[queue.count]

\* The rest of a turn: messages are sent, or sent again, the heartbeat is, and
\* the inactivity timeout may be over, unless a packet was just received.
WorkerSends ==
    LET d == IF st = "CONNECTED" THEN Drained(send_win, send_queue)
             ELSE [win |-> send_win, queue |-> send_queue]
    IN  /\ worker = "loop" /\ at \in {"socket", "last"}
        /\ at' = "top" /\ st' = "none"
        /\ SendUp(IF st = "CONNECTED"
                  THEN {Data(session_id, s, SlotOf(d.win, s).payload) :
                           s \in Unacked(d.win)} \cup {Up("HEARTBEAT", session_id)}
                  ELSE {})
        /\ \/ /\ send_win' = d.win /\ send_queue' = d.queue
              /\ UNCHANGED <<auto, state, running, session_id, sendVars, limits>>
           \/ /\ st = "CONNECTED" /\ at # "last"
              /\ client_trigger_reconnect(d.win, d.queue)
              /\ Event("silence")
        /\ UNCHANGED <<worker, appVars, serverVars, down, joinVars, deliveryVars>>

-----------------------------------------------------------------------------
(* The server's worker, and what ends a session *)

NewSession(id) ==
    [id |-> id, state |-> "CONNECTING", recv_win |-> recv_window_init(WindowSize, 1)]

\* Sequence numbers the session received and acknowledges, and did not deliver.
HeldBack(s) == {i \in DOMAIN s.recv_win.slots :
                   /\ s.recv_win.slots[i].received
                   /\ s.recv_win.slots[i].delivery_mode = RELIABLE_ORDERED}

session_free ==
    /\ sess' = NoSession
    /\ cut' = (cut \/ HeldBack(sess) # {})
    /\ UNCHANGED <<ids, delivered>>

\* faulty variant: a request that comes again is not answered
OnConnectReq_OnlyNew(p) ==
    /\ p.type = "CONNECT_REQ"
    /\ \/ /\ sess # NoSession
          /\ UNCHANGED <<serverVars, down, limits>>
       \/ /\ sess = NoSession
          /\ ids' = ids + 1
          /\ sess' = NewSession(ids')
          /\ SendDown({Down("CONNECT_RESP", sess')})
          /\ UNCHANGED limits
    /\ UNCHANGED deliveryVars

\* A request finds the session of its address, whatever became of the client
\* that had it, or gets a new one, or is turned away.
OnConnectReq(p) ==
    /\ p.type = "CONNECT_REQ"
    /\ \/ /\ sess # NoSession
          /\ SendDown({Down("CONNECT_RESP", sess)})
          /\ UNCHANGED <<serverVars, limits>>
       \/ /\ sess = NoSession
          /\ ids' = ids + 1
          /\ sess' = NewSession(ids')
          /\ SendDown({Down("CONNECT_RESP", sess')})
          /\ UNCHANGED limits
       \/ /\ sess = NoSession
          /\ Event("reject")
          /\ SendDown({Notice("REJECT", 0)})
          /\ UNCHANGED serverVars
    /\ UNCHANGED deliveryVars

\* faulty variant: the session is found by its address alone
Known_ByAddress(p) == sess # NoSession

\* faulty variant: a session is known once its handshake is complete
Known_Connected(p) == sess # NoSession /\ sess.id = p.id /\ sess.state = "CONNECTED"

Known(p) == sess # NoSession /\ sess.id = p.id

OnUnknown(p) ==
    /\ p.type # "CONNECT_REQ" /\ ~Known(p)
    /\ SendDown(IF p.type = "DISCONNECT" THEN {}
                ELSE {Notice("RESET", p.id)})
    /\ UNCHANGED <<serverVars, deliveryVars, limits>>

\* Any packet of the session makes it CONNECTED.
Promoted == [sess EXCEPT !.state = "CONNECTED"]

OnHeartbeat(p) ==
    /\ p.type = "HEARTBEAT" /\ Known(p)
    /\ sess' = Promoted
    /\ SendDown({Down("HEARTBEAT", sess)})
    /\ UNCHANGED <<ids, deliveryVars, limits>>

OnDisconnect(p) ==
    /\ p.type = "DISCONNECT" /\ Known(p)
    /\ session_free
    /\ UNCHANGED <<down, limits>>

OnData(p) ==
    LET r == recv_window_on_packet(sess.recv_win, ModeOf(p.payload), p.seq_num,
                                   p.payload, 64)
    IN  /\ p.type = "DATA" /\ Known(p)
        /\ sess' = [Promoted EXCEPT !.recv_win = r.win]
        /\ delivered' = delivered \o [i \in DOMAIN r.ready |->
                            [msg |-> r.ready[i].payload, id |-> sess.id]]
        /\ UNCHANGED <<ids, cut, down, limits>>

ServerReceives(p) ==
    /\ up' \in Taken(up, p)
    /\ OnConnectReq(p) \/ OnUnknown(p) \/ OnHeartbeat(p) \/ OnDisconnect(p) \/ OnData(p)
    /\ UNCHANGED <<clientVars, workerVars, appVars, sendVars, joinVars>>

\* The pending ACK, or the heartbeat.
ServerTimers ==
    /\ sess # NoSession /\ sess.state = "CONNECTED"
    /\ SendDown({Down("HEARTBEAT", sess)})
    /\ UNCHANGED <<clientVars, workerVars, appVars, serverVars, up, sendVars,
                   joinVars, deliveryVars, limits>>

\* The server's inactivity timeout, an eviction in favour of another client,
\* or a restart of the server.
Forget ==
    /\ sess # NoSession
    /\ Event("forget")
    /\ session_free
    /\ UNCHANGED <<clientVars, workerVars, appVars, up, down, sendVars, joinVars>>

rel4u_server_disconnect_client ==
    /\ sess # NoSession
    /\ Event("kick")
    /\ SendDown({Notice("DISCONNECT", sess.id)})
    /\ session_free
    /\ UNCHANGED <<clientVars, workerVars, appVars, up, sendVars, joinVars>>

Next ==
    \/ rel4u_client_send
    \/ rel4u_client_disconnect \/ SendFin \/ StopWorker \/ JoinWorker
    \/ rel4u_client_connect \/ StartWorker \/ Connected \/ ConnectFails \/ ConnectTimesOut
    \/ WorkerEnds \/ WorkerTop \/ WorkerSends
    \/ \E p \in down : WorkerReceives(p)
    \/ \E p \in up : ServerReceives(p)
    \/ ServerTimers
    \/ Forget \/ rel4u_server_disconnect_client
    \/ NetworkHeals

Spec == Init /\ [][Next]_vars

-----------------------------------------------------------------------------
(* Properties *)

\* A RESET, however late it arrives, names a session that is gone: it never
\* makes the client leave a session the server still has
\* (rel4u_server.c:384-399, rel4u_client.c:418, 441-446).
ResetMeansGone ==
    \A p \in down : p.type = "RESET" => sess = NoSession \/ sess.id # p.id

\* The server takes a session for CONNECTED only when the client was connected
\* with it: no late packet of an earlier session completes a handshake
\* (rel4u_server.c:384, 408-411).
HandshakeAgreed ==
    sess # NoSession /\ sess.state = "CONNECTED" => sess.id \in joined

\* Where message m is: waiting, not acknowledged, or held back by the session
\* the client is in.
Waiting(m) == m \in InQueue(send_queue)
InFlight(m) == m \in Payloads(send_win, Unacked(send_win))
Buffered(m) ==
    /\ sess # NoSession
    /\ \E i \in HeldBack(sess) : sess.recv_win.slots[i].payload = m
WasDelivered(m) == \E i \in DOMAIN delivered : delivered[i].msg = m

AccountedFor(m) ==
    \/ Waiting(m) \/ InFlight(m) \/ Buffered(m) \/ WasDelivered(m)
    \/ m \in dropped \/ m \in abandoned

\* Across resets, timeouts and new connections no message disappears: it is
\* still to be sent again, or with the server, or the queue had no room for it,
\* or the application ended the connection it was sent on
\* (client_trigger_reconnect).  Two cases are left out, where the code does
\* lose messages: a session the client comes back to, and one that ends with
\* messages held back.
NoSilentLoss ==
    ~rejoined /\ ~cut => \A m \in 1 .. offered : AccountedFor(m)

\* The queue's counter tells how many messages it lost, those that had no room
\* when they were reclaimed included (rel4u_window.c:185).
LossesCounted == Cardinality(dropped) = send_queue.dropped_count

FirstDelivery(i) == \A j \in 1 .. (i - 1) : delivered[j].msg # delivered[i].msg

\* Ordered messages reach the server's application in the order they were
\* sent, over all sessions; only repetitions go back.
OrderKept ==
    ~rejoined =>
        \A i, j \in DOMAIN delivered :
            (/\ i < j /\ FirstDelivery(i) /\ FirstDelivery(j)
             /\ ModeOf(delivered[i].msg) = RELIABLE_ORDERED
             /\ ModeOf(delivered[j].msg) = RELIABLE_ORDERED)
            => delivered[i].msg < delivered[j].msg

\* A message is delivered again only on another session than before.
NoRepeatInSession ==
    ~rejoined => \A i, j \in DOMAIN delivered :
                    i # j => delivered[i] # delivered[j]

\* Once disconnected, by the server, by the application or for want of
\* auto-reconnect, a client starts again only when connect is called: no late
\* CONNECT_RESP revives it (rel4u_client.c:414-420, 448-459).
DisconnectIsFinal ==
    [][state = "DISCONNECTED" /\ state' \notin {"DISCONNECTED", "DISCONNECTING"}
        => app = "connect"]_vars

\* "Guaranteed delivery": no message of a connection that the application does
\* not end is lost unless the queue was full (src/include/rel4u.h).
GuaranteedDelivery == \A m \in 1 .. offered : AccountedFor(m)

-----------------------------------------------------------------------------
(* Liveness *)

Agreed ==
    state = "CONNECTED" /\ sess # NoSession /\ sess.id = session_id

\* The client acts on an answer, when it is of any use to it.
Joins == \E p \in down : p.type = "CONNECT_RESP" /\ Relevant(p) /\ WorkerReceives(p)
Leaves == \E p \in down : p.type = "RESET" /\ Relevant(p) /\ WorkerReceives(p)

\* The network gets better some day.  A call under way goes on, the worker's
\* loop turns and the server's reads what arrives, messages among heartbeats
\* too; and the client's reads an answer that is there whenever it looks.
Fairness ==
    /\ WF_vars(NetworkHeals)
    /\ WF_vars(SendFin \/ StopWorker \/ JoinWorker \/ StartWorker \/ ConnectFails)
    /\ WF_vars(WorkerEnds \/ WorkerTop \/ WorkerSends)
    /\ WF_vars(\E p \in up : ServerReceives(p))
    /\ SF_vars(\E p \in up : p.type = "DATA" /\ ServerReceives(p))
    /\ SF_vars(Joins) /\ SF_vars(Leaves)

FairSpec == Spec /\ Fairness

\* With auto-reconnect, a client that is left to run finds its way back to a
\* session the server has, however often a session was lost.
EventuallyAgree == []<>(Agreed \/ ~running \/ ~auto)

\* And a message that send took reaches the server's application, over as many
\* sessions as it takes, but for the losses NoSilentLoss names.
EventuallyArrives ==
    \A m \in Items :
        []<>(\/ m > offered \/ WasDelivered(m) \/ m \in dropped \cup abandoned
             \/ ~auto \/ ~running \/ rejoined \/ cut)

\* A disconnect under way comes to its end, also when the worker, acting on a
\* late packet, overwrote DISCONNECTING before it was stopped
\* (rel4u_client.c:194-221).
DisconnectReturns == []<>(app \notin {"fin", "stop", "join"})

=============================================================================
