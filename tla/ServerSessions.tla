--------------------------- MODULE ServerSessions ---------------------------
(***************************************************************************)
(* The server's handling of its session table (src/src/core/              *)
(* rel4u_server.c): the handshake, packets for a session, kicks by the     *)
(* application, the inactivity timer and stop.  Every step below is one    *)
(* critical section of table_mutex.                                        *)
(*                                                                         *)
(* Clients are only what the server sees of them: datagrams that carry     *)
(* session ids the server gave to their address at some time, so late and  *)
(* repeated datagrams and restarted clients are all included.  Session     *)
(* ids, in the code the clock xor an address, are taken to be fresh.  Only *)
(* datagrams about a session's existence are shown as replies: what the    *)
(* windows and timers send is left to Transfer.                            *)
(***************************************************************************)
EXTENDS SessionTable

CONSTANTS
    InactivityTimeout,  \* inactivity_timeout_ms, in clock ticks
    MaxTime,            \* bound: the clock
    MaxSessions         \* bound: sessions allocated

ASSUME ServerAssumption ==
    /\ InactivityTimeout \in Nat \ {0}
    /\ MaxTime \in Nat /\ MaxSessions \in Nat

VARIABLES
    table, now,
    issued,     \* history: the session ids sent to each address
    last_id,    \* history: the latest session id made
    reply       \* the datagram this step sent about a session, if any

vars == <<table, now, issued, last_id, reply>>

Nothing == [type |-> "none", to |-> NoAddr, session_id |-> 0]
Datagram(type, to, id) == [type |-> type, to |-> to, session_id |-> id]

Init ==
    /\ \E full_policy \in FullPolicies : table = session_table_init(full_policy)
    /\ now = 0
    /\ issued = [a \in Addrs |-> {}]
    /\ last_id = 0
    /\ reply = Nothing

-----------------------------------------------------------------------------
\* The answer to a CONNECT_REQ once its session is in slot i of t.
Accept(t, i, addr) ==
    LET id == t.sessions[i].session_id
    IN  /\ table' = session_touch_lru(t, i, now)
        /\ reply' = Datagram("CONNECT_RESP", addr, id)
        /\ issued' = [issued EXCEPT ![addr] = @ \cup {id}]

\* CONNECT_REQ from an address that has a session: the session goes on.
ConnectAgain(addr) ==
    LET i == session_find_by_addr(table, addr)
    IN  /\ i # None
        /\ Accept(table, i, addr)
        /\ UNCHANGED <<now, last_id>>

\* faulty variant: no look whether the address has a session
ConnectNew_NoLookup(addr) ==
    LET i == AllocateSlot(table)
    IN  /\ i # None
        /\ last_id < MaxSessions
        /\ last_id' = last_id + 1
        /\ Accept(session_allocate(table, addr, last_id + 1), i, addr)
        /\ UNCHANGED now

\* faulty variant: the session id is made from the slot
ConnectNew_SlotId(addr) ==
    LET i == AllocateSlot(table)
    IN  /\ session_find_by_addr(table, addr) = None
        /\ i # None
        /\ Accept(session_allocate(table, addr, i + 1), i, addr)
        /\ UNCHANGED <<now, last_id>>

ConnectNew(addr) ==
    LET i == AllocateSlot(table)
    IN  /\ session_find_by_addr(table, addr) = None
        /\ i # None
        /\ last_id < MaxSessions
        /\ last_id' = last_id + 1
        /\ Accept(session_allocate(table, addr, last_id + 1), i, addr)
        /\ UNCHANGED now

ConnectRejected(addr) ==
    /\ session_find_by_addr(table, addr) = None
    /\ AllocateSlot(table) = None
    /\ reply' = Datagram("REJECT", addr, 0)
    /\ UNCHANGED <<table, now, issued, last_id>>

\* Any other datagram.  Its session is found by its address, and the id it
\* carries must be that session's.
Known(addr, id) ==
    LET i == session_find_by_addr(table, addr)
    IN  i # None /\ table.sessions[i].session_id = id

Unknown(addr, id, type) ==
    /\ ~Known(addr, id)
    /\ reply' = IF type = "DISCONNECT" THEN Nothing
                ELSE Datagram("RESET", addr, id)
    /\ UNCHANGED <<table, now, issued, last_id>>

\* CONNECT_ACK, or ACK, HEARTBEAT and DATA, which reach the windows.
Packet(addr, id, type) ==
    LET i == session_find_by_addr(table, addr)
    IN  /\ Known(addr, id)
        /\ type # "DISCONNECT"
        /\ table' = [session_touch_lru(table, i, now) EXCEPT
                       !.sessions[i].state = "CONNECTED",
                       !.sessions[i].link = IF type = "CONNECT_ACK" THEN @
                                            ELSE "used"]
        /\ reply' = Nothing
        /\ UNCHANGED <<now, issued, last_id>>

Disconnect(addr, id) ==
    LET i == session_find_by_addr(table, addr)
    IN  /\ Known(addr, id)
        /\ table' = session_free(session_touch_lru(table, i, now), {i})
        /\ reply' = Nothing
        /\ UNCHANGED <<now, issued, last_id>>

\* rel4u_server_disconnect_client
DisconnectClient(client_id) ==
    LET i == session_find_by_id(table, client_id)
    IN  /\ i # None
        /\ reply' = Datagram("DISCONNECT", table.sessions[i].addr,
                             table.sessions[i].session_id)
        /\ table' = session_free(table, {i})
        /\ UNCHANGED <<now, issued, last_id>>

\* The worker's pass over the table: sessions silent for too long are freed.
Inactive == {i \in Active(table) :
                now - table.sessions[i].last_activity >= InactivityTimeout}

InactivityPass ==
    /\ Inactive # {}
    /\ table' = session_free(table, Inactive)
    /\ reply' = Nothing
    /\ UNCHANGED <<now, issued, last_id>>

\* What rel4u_server_stop does to the table; a server started again goes on
\* with it.
Stop ==
    /\ table' = session_free(table, ClientIds)
    /\ reply' = Nothing
    /\ UNCHANGED <<now, issued, last_id>>

Tick ==
    /\ now < MaxTime
    /\ now' = now + 1
    /\ reply' = Nothing
    /\ UNCHANGED <<table, issued, last_id>>

PacketTypes == {"CONNECT_ACK", "DATA", "DISCONNECT"}

\* A client that disconnects before it has a session id sends 0.
Receive(addr) ==
    \/ ConnectAgain(addr) \/ ConnectNew(addr) \/ ConnectRejected(addr)
    \/ \E id \in issued[addr], type \in PacketTypes :
          Unknown(addr, id, type) \/ Packet(addr, id, type)
    \/ \E id \in issued[addr] : Disconnect(addr, id)
    \/ Unknown(addr, 0, "DISCONNECT")

Next ==
    \/ \E addr \in Addrs : Receive(addr)
    \/ \E client_id \in ClientIds : DisconnectClient(client_id)
    \/ InactivityPass
    \/ Stop
    \/ Tick

Spec == Init /\ [][Next]_vars

-----------------------------------------------------------------------------
(* Properties *)

Session == [session_id : Nat, addr : Addrs \cup {NoAddr}, state : States,
            last_activity : Nat, link : {"fresh", "used"}]

TypeOK ==
    /\ table \in [sessions : [ClientIds -> Session], active_count : Nat,
                  full_policy : FullPolicies]
    /\ now \in Nat
    /\ issued \in [Addrs -> SUBSET Nat]
    /\ last_id \in Nat

\* active_count, on which allocate decides whether to look for a free slot or
\* to evict, is the number of active sessions after any history.
ActiveCountExact == table.active_count = Cardinality(Active(table))

\* No two active sessions have the same address or the same id, so the
\* search by address finds the only candidate.
OneSessionPerClient ==
    \A i, j \in Active(table) : i # j =>
        /\ table.sessions[i].addr # table.sessions[j].addr
        /\ table.sessions[i].session_id # table.sessions[j].session_id

\* The id of an active session was given to its client's address and to no
\* other, so a datagram never reaches a session of another client.
IdsArePrivate ==
    \A i \in Active(table) : \A a \in Addrs :
        table.sessions[i].session_id \in issued[a] <=>
            a = table.sessions[i].addr

\* The windows of a session that has not carried anything yet are fresh, also
\* in a slot that was used before.
FreshStart ==
    \A i \in ClientIds : table.sessions[i].state = "CONNECTING" =>
        table.sessions[i].link = "fresh"

Replaced(i) ==
    /\ i \in Active(table) /\ i \in Active(table)'
    /\ table'.sessions[i].session_id # table.sessions[i].session_id

\* A session gives its slot to another only under DROP_OLD, when the table is
\* full, and when no other session has been silent for longer.
EvictsLeastRecent ==
    [][\A i \in ClientIds : Replaced(i) =>
        /\ table.full_policy = "DROP_OLD"
        /\ Active(table) = ClientIds
        /\ \A j \in ClientIds : table.sessions[i].last_activity
                                  <= table.sessions[j].last_activity]_vars

\* A client is turned away only while every slot is taken, under REJECT.
RejectsOnlyWhenFull ==
    [][reply'.type = "REJECT" =>
        table.full_policy = "REJECT" /\ Active(table) = ClientIds]_vars

\* src/docs/internals.md: an eviction "sends a disconnect notification to that
\* client".
EvictionNotified ==
    [][\A i \in ClientIds : Replaced(i) =>
        reply' = Datagram("DISCONNECT", table.sessions[i].addr,
                          table.sessions[i].session_id)]_vars
=============================================================================
