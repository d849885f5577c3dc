--------------------------- MODULE SessionProofs ---------------------------
(***************************************************************************)
(* Proofs about the server's session table (ServerSessions): the type      *)
(* invariant, the count of active sessions, one session per client,        *)
(* private session ids, fresh windows, and whom eviction and rejection     *)
(* hit, for any number of slots, clients and sessions.                     *)
(***************************************************************************)
EXTENDS ServerSessions, ArithmeticLemmas, FiniteSetTheorems

Tables == [sessions : [ClientIds -> Session], active_count : Nat,
           full_policy : FullPolicies]

\* active_count of a table is right.
Exact(t) == t.active_count = Cardinality(Active(t))

-----------------------------------------------------------------------------
(* The operations of the table *)

\* The slots: there are MaxClients, and sets of them have cardinalities.
LEMMA Slots ==
    /\ MaxClients \in Nat /\ MaxClients > 0
    /\ ClientIds \subseteq Nat
    /\ IsFiniteSet(ClientIds) /\ Cardinality(ClientIds) = MaxClients
    /\ \A S \in SUBSET ClientIds :
         IsFiniteSet(S) /\ Cardinality(S) \in Nat /\ Cardinality(S) <= MaxClients
    /\ \A S \in SUBSET ClientIds : Cardinality(S) = MaxClients => S = ClientIds
PROOF
  <1>1. MaxClients \in Nat /\ MaxClients > 0
    BY TableAssumption
  <1>2. ClientIds \subseteq Nat
    BY <1>1 DEF ClientIds
  <1>3. IsFiniteSet(ClientIds) /\ Cardinality(ClientIds) = MaxClients
    <2>1. 0 \in Int /\ MaxClients - 1 \in Int
      BY <1>1
    <2>2. /\ IsFiniteSet(0 .. (MaxClients - 1))
          /\ Cardinality(0 .. (MaxClients - 1)) =
               IF 0 > MaxClients - 1 THEN 0 ELSE (MaxClients - 1) - 0 + 1
      BY <2>1, FS_Interval
    <2> QED BY <1>1, <2>2 DEF ClientIds
  <1>4. ASSUME NEW S \in SUBSET ClientIds
        PROVE  /\ IsFiniteSet(S) /\ Cardinality(S) \in Nat
               /\ Cardinality(S) <= MaxClients
               /\ Cardinality(S) = MaxClients => S = ClientIds
    <2>1. IsFiniteSet(S) /\ Cardinality(S) <= Cardinality(ClientIds)
          /\ (Cardinality(S) = Cardinality(ClientIds) => S = ClientIds)
      BY <1>3, FS_Subset
    <2> QED BY <1>3, <2>1, FS_CardinalityType
  <1> QED BY <1>1, <1>2, <1>3, <1>4

\* The first of a set of slots is one of them, and None if there is none.
LEMMA FirstOfFact ==
    ASSUME NEW S \in SUBSET ClientIds
    PROVE  /\ FirstOf(S) = None <=> S = {}
           /\ S # {} => FirstOf(S) \in S
           /\ None \notin ClientIds
PROOF
  <1>1. None \notin Nat
    BY DEF None
  <1>2. CASE S = {}
    BY <1>1, <1>2, Slots DEF FirstOf
  <1>3. CASE S # {}
    <2>1. S \in SUBSET Nat
      BY Slots
    <2>2. Min(S) \in S
      BY <1>3, <2>1, MinNat
    <2> QED BY <1>1, <1>3, <2>1, <2>2, Slots DEF FirstOf
  <1> QED BY <1>2, <1>3

\* session_free ends the sessions of some slots and touches no other.
LEMMA FreeFact ==
    ASSUME NEW t \in Tables, Exact(t), NEW S \in SUBSET ClientIds
    PROVE  /\ session_free(t, S) \in Tables
           /\ Exact(session_free(t, S))
           /\ Active(session_free(t, S)) = Active(t) \ S
           /\ \A i \in Active(t) \ S :
                session_free(t, S).sessions[i] = t.sessions[i]
PROOF
  <1> DEFINE freed == S \cap Active(t)
             count == Cardinality(freed)
             ended(i) == [t.sessions[i] EXCEPT !.state = "DISCONNECTED",
                                               !.session_id = 0]
             ss == [i \in ClientIds |-> IF i \in freed THEN ended(i)
                                        ELSE t.sessions[i]]
             ac == IF t.active_count >= count THEN t.active_count - count ELSE 0
             u == [t EXCEPT !.sessions = ss, !.active_count = ac]
  <1>1. session_free(t, S) = u
    BY DEF session_free
  <1>2. Active(t) \in SUBSET ClientIds /\ freed \in SUBSET ClientIds
    BY DEF Active
  <1>3. t.sessions \in [ClientIds -> Session] /\ t.active_count \in Nat
    BY DEF Tables
  <1>4. \A i \in ClientIds : ended(i) \in Session /\ ended(i).state = "DISCONNECTED"
    BY <1>3 DEF Session, States
  <1>5. ss \in [ClientIds -> Session]
    <2> HIDE DEF ended, freed
    <2> QED BY <1>3, <1>4
  <1>6. Active(u) = Active(t) \ S
    <2>1. Active(u) = {i \in ClientIds : ss[i].state # "DISCONNECTED"}
      BY DEF Active
    <2>2. \A i \in ClientIds : ss[i].state # "DISCONNECTED"
                                 <=> i \in Active(t) \ S
      <3>1. \A i \in freed : ss[i].state = "DISCONNECTED"
        <4> HIDE DEF ended, freed
        <4> QED BY <1>2, <1>4
      <3>2. \A i \in ClientIds \ freed : ss[i] = t.sessions[i]
        BY <1>2
      <3> QED BY <3>1, <3>2 DEF Active
    <2> QED BY <2>1, <2>2, <1>2
  <1>7. \A i \in Active(t) \ S : ss[i] = t.sessions[i]
    BY <1>2
  <1>8. ac \in Nat /\ ac = Cardinality(Active(t) \ S)
    <2>1. /\ IsFiniteSet(Active(t)) /\ IsFiniteSet(freed)
          /\ count \in Nat /\ Cardinality(Active(t)) \in Nat
      BY <1>2, Slots
    <2>2. Active(t) \cap freed = freed /\ Active(t) \ freed = Active(t) \ S
      OBVIOUS
    <2>3. Cardinality(Active(t) \ freed) =
            Cardinality(Active(t)) - Cardinality(Active(t) \cap freed)
      BY <2>1, FS_Difference
    <2>4. Cardinality(Active(t) \ S) = t.active_count - count
      BY <2>2, <2>3 DEF Exact
    <2>5. Cardinality(Active(t) \ S) \in Nat
      BY <1>2, Slots
    <2> HIDE DEF count
    <2> QED BY <1>3, <2>1, <2>4, <2>5
  <1> HIDE DEF ss, ac, ended
  <1> QED BY <1>1, <1>5, <1>6, <1>7, <1>8 DEF Tables, Exact

\* A table that is full has no free slot; one that is not has some.
LEMMA FullFact ==
    ASSUME NEW t \in Tables, Exact(t)
    PROVE  Full(t) <=> Active(t) = ClientIds
PROOF
  <1>1. Active(t) \in SUBSET ClientIds
    BY DEF Active
  <1>2. /\ Cardinality(Active(t)) \in Nat /\ Cardinality(Active(t)) <= MaxClients
        /\ Cardinality(Active(t)) = MaxClients => Active(t) = ClientIds
    BY <1>1, Slots
  <1> QED BY <1>2, Slots DEF Full, Exact

\* Some active session has been silent for longest.
LEMMA LeastRecentExists ==
    ASSUME NEW t \in Tables, Active(t) # {}
    PROVE  LeastRecent(t) # {}
PROOF
  <1> DEFINE times == {t.sessions[i].last_activity : i \in Active(t)}
  <1>1. \A i \in Active(t) : t.sessions[i].last_activity \in Nat
    BY DEF Tables, Active, Session
  <1>2. times \in SUBSET Nat /\ times # {}
    BY <1>1
  <1>3. Min(times) \in times /\ \A n \in times : Min(times) <= n
    <2> HIDE DEF times
    <2> QED BY <1>2, MinNat
  <1>4. PICK i \in Active(t) : t.sessions[i].last_activity = Min(times)
    BY <1>3
  <1>5. \A j \in Active(t) : t.sessions[j].last_activity \in times
    OBVIOUS
  <1> HIDE DEF times
  <1>6. \A j \in Active(t) :
          t.sessions[i].last_activity <= t.sessions[j].last_activity
    BY <1>3, <1>4, <1>5
  <1> QED BY <1>4, <1>6 DEF LeastRecent

\* The slot an allocation takes: a free one, or the least recent session's.
LEMMA AllocateSlotFact ==
    ASSUME NEW t \in Tables, Exact(t)
    PROVE  /\ AllocateSlot(t) # None => AllocateSlot(t) \in ClientIds
           /\ AllocateSlot(t) = None <=> Full(t) /\ t.full_policy = "REJECT"
           /\ AllocateSlot(t) # None /\ ~Full(t) => AllocateSlot(t) \notin Active(t)
           /\ AllocateSlot(t) # None /\ Full(t) =>
                t.full_policy = "DROP_OLD" /\ AllocateSlot(t) \in LeastRecent(t)
PROOF
  <1>1. Active(t) \in SUBSET ClientIds /\ LeastRecent(t) \subseteq Active(t)
    BY DEF Active, LeastRecent
  <1>2. ClientIds \ Active(t) \in SUBSET ClientIds /\ LeastRecent(t) \in SUBSET ClientIds
    BY <1>1
  <1>3. CASE ~Full(t)
    <2>1. ClientIds \ Active(t) # {}
      BY <1>1, <1>3, FullFact
    <2>2. AllocateSlot(t) = FirstOf(ClientIds \ Active(t))
      BY <1>3 DEF AllocateSlot
    <2>3. AllocateSlot(t) \in ClientIds \ Active(t) /\ None \notin ClientIds
      BY <1>2, <2>1, <2>2, FirstOfFact
    <2> QED BY <1>3, <2>3
  <1>4. CASE Full(t) /\ t.full_policy = "REJECT"
    <2>1. AllocateSlot(t) = None
      BY <1>4 DEF AllocateSlot
    <2> QED BY <1>4, <2>1
  <1>5. CASE Full(t) /\ t.full_policy = "DROP_OLD"
    <2>1. 0 \in ClientIds
      BY Slots DEF ClientIds
    <2>2. LeastRecent(t) # {}
      BY <1>5, <2>1, FullFact, LeastRecentExists
    <2>3. AllocateSlot(t) = FirstOf(LeastRecent(t))
      BY <1>5 DEF AllocateSlot
    <2>4. AllocateSlot(t) \in LeastRecent(t) /\ None \notin ClientIds
      BY <1>2, <2>2, <2>3, FirstOfFact
    <2> QED BY <1>2, <1>5, <2>4
  <1> QED BY <1>3, <1>4, <1>5 DEF Tables, FullPolicies

\* session_allocate starts a session in its slot and touches no other.
LEMMA AllocateFact ==
    ASSUME NEW t \in Tables, Exact(t), NEW addr \in Addrs, NEW id \in Nat,
           NEW i, i = AllocateSlot(t), i # None
    PROVE  /\ session_allocate(t, addr, id) \in Tables
           /\ Exact(session_allocate(t, addr, id))
           /\ Active(session_allocate(t, addr, id)) = Active(t) \cup {i}
           /\ session_allocate(t, addr, id).sessions =
                [t.sessions EXCEPT ![i] = NewSession(@, addr, id)]
PROOF
  <1> DEFINE ss == [t.sessions EXCEPT ![i] = NewSession(@, addr, id)]
             ac == (t.active_count + 1) - (IF Full(t) THEN 1 ELSE 0)
             u == [t EXCEPT !.sessions = ss, !.active_count = ac]
  <1>1. session_allocate(t, addr, id) = u
    BY DEF session_allocate
  <1>2. i \in ClientIds /\ Active(t) \in SUBSET ClientIds
    BY AllocateSlotFact DEF Active
  <1>3. t.sessions \in [ClientIds -> Session] /\ t.active_count \in Nat
    BY DEF Tables
  <1>4. NewSession(t.sessions[i], addr, id) \in Session
    BY <1>2, <1>3 DEF Session, States, NewSession
  <1>5. NewSession(t.sessions[i], addr, id).state = "CONNECTING"
    BY <1>2, <1>3 DEF Session, NewSession
  <1>6. ss \in [ClientIds -> Session] /\ ss[i].state = "CONNECTING"
        /\ \A j \in ClientIds \ {i} : ss[j] = t.sessions[j]
    BY <1>2, <1>3, <1>4, <1>5
  <1>7. Active(u) = Active(t) \cup {i}
    <2>1. Active(u) = {j \in ClientIds : ss[j].state # "DISCONNECTED"}
      BY DEF Active
    <2> HIDE DEF ss
    <2> QED BY <1>2, <1>6, <2>1 DEF Active
  <1>8. ac \in Nat /\ ac = Cardinality(Active(t) \cup {i})
    <2>1. IsFiniteSet(Active(t)) /\ Cardinality(Active(t)) \in Nat
      BY <1>2, Slots
    <2>2. CASE Full(t)
      <3>1. Active(t) \cup {i} = Active(t)
        BY <1>2, <2>2, FullFact
      <3>2. (IF Full(t) THEN 1 ELSE 0) = 1
        BY <2>2
      <3>3. ac = t.active_count
        BY <1>3, <3>2
      <3> QED BY <1>3, <3>1, <3>3 DEF Exact
    <2>3. CASE ~Full(t)
      <3>1. i \notin Active(t)
        BY <2>3, AllocateSlotFact
      <3>2. Cardinality(Active(t) \cup {i}) = Cardinality(Active(t)) + 1
        BY <2>1, <3>1, FS_AddElement
      <3>3. (IF Full(t) THEN 1 ELSE 0) = 0
        BY <2>3
      <3>4. ac = t.active_count + 1
        BY <1>3, <3>3
      <3> QED BY <1>3, <3>2, <3>4 DEF Exact
    <2> QED BY <2>2, <2>3
  <1> HIDE DEF ss, ac
  <1>9. u \in Tables /\ Exact(u) /\ u.sessions = ss
    BY <1>6, <1>7, <1>8 DEF Tables, Exact
  <1> QED BY <1>1, <1>7, <1>9 DEF ss

\* session_touch_lru changes nothing but the time of one session.
LEMMA TouchFact ==
    ASSUME NEW t \in Tables, Exact(t), NEW i \in ClientIds, NEW time \in Nat
    PROVE  /\ session_touch_lru(t, i, time) \in Tables
           /\ Exact(session_touch_lru(t, i, time))
           /\ Active(session_touch_lru(t, i, time)) = Active(t)
           /\ session_touch_lru(t, i, time).sessions =
                [t.sessions EXCEPT ![i] = [@ EXCEPT !.last_activity = time]]
PROOF
  <1> DEFINE ss == [t.sessions EXCEPT ![i] = [@ EXCEPT !.last_activity = time]]
             u == session_touch_lru(t, i, time)
  <1>1. t.sessions \in [ClientIds -> Session] /\ t.active_count \in Nat
    BY DEF Tables
  <1>2. u \in Tables /\ u.sessions = ss /\ u.active_count = t.active_count
    BY <1>1 DEF session_touch_lru, Tables, Session
  <1>3. \A j \in ClientIds : ss[j].state = t.sessions[j].state
    BY <1>1 DEF Session
  <1>4. Active(u) = Active(t)
    BY <1>2, <1>3 DEF Active
  <1> QED BY <1>2, <1>4 DEF Exact

-----------------------------------------------------------------------------
(* The invariant *)

\* What makes the properties inductive: an active session has a client's
\* address and an id that was made, and no id was issued before it was made.
IdsMade ==
    /\ \A i \in Active(table) :
         table.sessions[i].addr \in Addrs /\ table.sessions[i].session_id <= last_id
    /\ \A a \in Addrs : \A id \in issued[a] : id <= last_id

IInv ==
    /\ TypeOK /\ ActiveCountExact /\ IdsMade
    /\ OneSessionPerClient /\ IdsArePrivate /\ FreshStart

\* A started server has no session (rel4u_session_table_init).
LEMMA SessionsInit == Init => IInv
PROOF
  <1> SUFFICES ASSUME Init PROVE IInv
    OBVIOUS
  <1> PICK full_policy \in FullPolicies : table = session_table_init(full_policy)
    BY DEF Init
  <1>1. table = session_table_init(full_policy) /\ now = 0 /\ last_id = 0
        /\ issued = [a \in Addrs |-> {}]
    BY DEF Init
  <1>2. table \in Tables
    BY <1>1 DEF session_table_init, Tables, Session, States
  <1>3. Active(table) = {} /\ table.active_count = 0
        /\ \A i \in ClientIds : table.sessions[i].state = "DISCONNECTED"
    BY <1>1 DEF session_table_init, Active
  <1>4. TypeOK
    BY <1>1, <1>2 DEF TypeOK, Tables
  <1>5. ActiveCountExact
    BY <1>3, FS_EmptySet DEF ActiveCountExact
  <1>6. IdsMade
    BY <1>1, <1>3 DEF IdsMade
  <1>7. OneSessionPerClient /\ IdsArePrivate
    BY <1>3 DEF OneSessionPerClient, IdsArePrivate
  <1>8. FreshStart
    BY <1>3 DEF FreshStart
  <1> QED BY <1>4, <1>5, <1>6, <1>7, <1>8 DEF IInv

\* A step that starts no session and issues no id: the sessions still active
\* keep their address and id, and none of them goes back to CONNECTING.
Keeps ==
    /\ table' \in Tables /\ Exact(table') /\ now' \in Nat
    /\ UNCHANGED <<issued, last_id>>
    /\ Active(table') \subseteq Active(table)
    /\ \A i \in Active(table') :
         /\ table'.sessions[i].addr = table.sessions[i].addr
         /\ table'.sessions[i].session_id = table.sessions[i].session_id
         /\ table'.sessions[i].state = "CONNECTING" =>
              /\ table.sessions[i].state = "CONNECTING"
              /\ table'.sessions[i].link = table.sessions[i].link

\* Such a step keeps the invariant.
LEMMA NoNewSession ==
    ASSUME IInv, Keeps
    PROVE  IInv'
PROOF
  <1>1. TypeOK'
    BY DEF Keeps, IInv, TypeOK, Tables
  <1>2. ActiveCountExact'
    BY DEF Keeps, Exact, ActiveCountExact
  <1>3. IdsMade'
    BY DEF Keeps, IInv, IdsMade
  <1>4. OneSessionPerClient'
    BY DEF Keeps, IInv, OneSessionPerClient
  <1>5. IdsArePrivate'
    BY DEF Keeps, IInv, IdsArePrivate
  <1>6. FreshStart'
    <2> SUFFICES ASSUME NEW i \in ClientIds,
                        table'.sessions[i].state = "CONNECTING"
                 PROVE  table'.sessions[i].link = "fresh"
      BY DEF FreshStart
    <2>1. i \in Active(table')
      BY DEF Active
    <2> QED BY <2>1 DEF Keeps, IInv, FreshStart
  <1> QED BY <1>1, <1>2, <1>3, <1>4, <1>5, <1>6 DEF IInv

\* The table of a state that satisfies the invariant.
LEMMA TableOK == IInv => table \in Tables /\ Exact(table) /\ now \in Nat
  BY DEF IInv, TypeOK, Tables, Exact, ActiveCountExact

\* What the search by address finds.
LEMMA FindByAddr ==
    ASSUME NEW addr,
           NEW i, i = session_find_by_addr(table, addr)
    PROVE  /\ i # None => i \in Active(table) /\ i \in ClientIds
                          /\ table.sessions[i].addr = addr
           /\ i = None => \A j \in Active(table) : table.sessions[j].addr # addr
PROOF
  <1> DEFINE S == {j \in Active(table) : table.sessions[j].addr = addr}
  <1>1. S \in SUBSET ClientIds /\ S \subseteq Active(table)
    BY DEF Active
  <1>2. i = FirstOf(S)
    BY DEF session_find_by_addr
  <1>3. (i = None <=> S = {}) /\ (S # {} => i \in S)
    <2> HIDE DEF S
    <2> QED BY <1>1, <1>2, FirstOfFact
  <1> QED BY <1>1, <1>3

\* A step that only frees sessions starts none.
LEMMA FreeStep ==
    ASSUME IInv, NEW t \in Tables, Exact(t), Active(t) = Active(table),
           \A i \in Active(t) :
             /\ t.sessions[i].addr = table.sessions[i].addr
             /\ t.sessions[i].session_id = table.sessions[i].session_id
             /\ t.sessions[i].state = table.sessions[i].state
             /\ t.sessions[i].link = table.sessions[i].link,
           NEW S \in SUBSET ClientIds, table' = session_free(t, S),
           UNCHANGED <<now, issued, last_id>>
    PROVE  Keeps
PROOF
  <1>1. /\ table' \in Tables /\ Exact(table')
        /\ Active(table') = Active(t) \ S
        /\ \A i \in Active(t) \ S : table'.sessions[i] = t.sessions[i]
    BY FreeFact
  <1>2. now' \in Nat
    BY TableOK
  <1> QED BY <1>1, <1>2 DEF Keeps

\* CONNECT_REQ from an address that has a session.
LEMMA ConnectAgainStep ==
    ASSUME IInv, NEW addr \in Addrs, ConnectAgain(addr)
    PROVE  Keeps
PROOF
  <1> DEFINE i == session_find_by_addr(table, addr)
  <1>1. i \in Active(table) /\ i \in ClientIds /\ table.sessions[i].addr = addr
    BY FindByAddr DEF ConnectAgain
  <1>2. /\ table' = session_touch_lru(table, i, now)
        /\ issued' = [issued EXCEPT ![addr] = @ \cup {table.sessions[i].session_id}]
        /\ now' = now /\ last_id' = last_id
    BY DEF ConnectAgain, Accept
  <1> HIDE DEF i
  <1>3. issued' = issued
    BY <1>1, <1>2 DEF IInv, IdsArePrivate, TypeOK
  <1>4. /\ table' \in Tables /\ Exact(table') /\ Active(table') = Active(table)
        /\ table'.sessions =
             [table.sessions EXCEPT ![i] = [@ EXCEPT !.last_activity = now]]
    BY <1>1, <1>2, TableOK, TouchFact
  <1>5. \A j \in Active(table') :
          /\ table'.sessions[j].addr = table.sessions[j].addr
          /\ table'.sessions[j].session_id = table.sessions[j].session_id
          /\ table'.sessions[j].state = table.sessions[j].state
          /\ table'.sessions[j].link = table.sessions[j].link
    BY <1>1, <1>4, TableOK DEF Tables, Session, Active
  <1>6. now' \in Nat
    BY <1>2, TableOK
  <1> QED BY <1>2, <1>3, <1>4, <1>5, <1>6 DEF Keeps

\* CONNECT_REQ that starts a session, in a free slot or an evicted one.
LEMMA ConnectNewStep ==
    ASSUME IInv, NEW addr \in Addrs, ConnectNew(addr)
    PROVE  IInv'
PROOF
  <1> DEFINE i == AllocateSlot(table)
             id == last_id + 1
             t == session_allocate(table, addr, id)
  <1>1. /\ session_find_by_addr(table, addr) = None /\ i # None
        /\ last_id' = id /\ now' = now
        /\ table' = session_touch_lru(t, i, now)
        /\ issued' = [issued EXCEPT ![addr] = @ \cup {t.sessions[i].session_id}]
    BY DEF ConnectNew, Accept
  <1>2. table \in Tables /\ Exact(table) /\ now \in Nat /\ last_id \in Nat /\ id \in Nat
    BY TableOK DEF IInv, TypeOK
  <1>3. i \in ClientIds /\ Active(table) \subseteq ClientIds
    BY <1>1, <1>2, AllocateSlotFact DEF Active
  <1>4. \A j \in Active(table) : table.sessions[j].addr # addr
    BY <1>1, FindByAddr
  <1>5. /\ t \in Tables /\ Exact(t) /\ Active(t) = Active(table) \cup {i}
        /\ t.sessions = [table.sessions EXCEPT ![i] = NewSession(@, addr, id)]
    <2> HIDE DEF id
    <2> QED BY <1>1, <1>2, AllocateFact
  <1> HIDE DEF t, i, id
  <1>6. /\ table' \in Tables /\ Exact(table') /\ Active(table') = Active(t)
        /\ table'.sessions =
             [t.sessions EXCEPT ![i] = [@ EXCEPT !.last_activity = now]]
    BY <1>1, <1>2, <1>3, <1>5, TouchFact
  <1>7. /\ t.sessions[i] = NewSession(table.sessions[i], addr, id)
        /\ \A j \in ClientIds \ {i} : t.sessions[j] = table.sessions[j]
        /\ table.sessions[i] \in Session
    BY <1>2, <1>3, <1>5 DEF Tables
  <1>8. /\ t.sessions[i].session_id = id /\ t.sessions[i].addr = addr
        /\ t.sessions[i].link = "fresh" /\ t.sessions[i] \in Session
    BY <1>3, <1>5, <1>7 DEF NewSession, Session, Tables
  <1>9. /\ table'.sessions[i].session_id = id /\ table'.sessions[i].addr = addr
        /\ table'.sessions[i].link = "fresh"
    BY <1>3, <1>5, <1>6, <1>8 DEF Tables, Session
  <1>10. \A j \in ClientIds \ {i} : table'.sessions[j] = table.sessions[j]
    BY <1>3, <1>5, <1>6, <1>7 DEF Tables
  <1>11. /\ Active(table') = Active(table) \cup {i}
         /\ issued \in [Addrs -> SUBSET Nat]
         /\ issued' = [issued EXCEPT ![addr] = @ \cup {id}]
    BY <1>1, <1>5, <1>6, <1>8 DEF IInv, TypeOK
  <1>12. /\ \A a \in Addrs : id \notin issued[a]
         /\ \A j \in Active(table) : table.sessions[j].session_id # id
    <2>1. \A j \in Active(table) : table.sessions[j].session_id \in Nat
      BY <1>2, <1>3 DEF Tables, Session
    <2> QED BY <1>2, <2>1, <1>11 DEF IInv, IdsMade, id
  <1>13. TypeOK'
    BY <1>1, <1>2, <1>6, <1>11 DEF TypeOK, Tables
  <1>14. ActiveCountExact'
    BY <1>6 DEF Exact, ActiveCountExact
  <1>15. IdsMade'
    <2>1. id <= last_id' /\ \A n \in Nat : n <= last_id => n <= last_id'
      BY <1>1, <1>2 DEF id
    <2>2. ASSUME NEW j \in Active(table')
          PROVE  /\ table'.sessions[j].addr \in Addrs
                 /\ table'.sessions[j].session_id <= last_id'
      <3>1. CASE j = i
        BY <1>9, <2>1, <3>1
      <3>2. CASE j # i
        <4>1. j \in Active(table) /\ j \in ClientIds
          BY <1>3, <1>11, <3>2
        <4>2. table.sessions[j].session_id \in Nat
          BY <1>2, <4>1 DEF Tables, Session
        <4> QED BY <1>10, <2>1, <3>2, <4>1, <4>2 DEF IInv, IdsMade
      <3> QED BY <3>1, <3>2
    <2>3. ASSUME NEW a \in Addrs, NEW n \in issued'[a] PROVE n <= last_id'
      BY <1>11, <2>1, <2>3 DEF IInv, IdsMade
    <2> QED BY <2>2, <2>3 DEF IdsMade
  <1>16. OneSessionPerClient'
    <2> SUFFICES ASSUME NEW j \in Active(table'), NEW k \in Active(table'), j # k
                 PROVE  /\ table'.sessions[j].addr # table'.sessions[k].addr
                        /\ table'.sessions[j].session_id
                             # table'.sessions[k].session_id
      BY DEF OneSessionPerClient
    <2> QED BY <1>3, <1>4, <1>9, <1>10, <1>11, <1>12 DEF IInv, OneSessionPerClient
  <1>17. IdsArePrivate'
    <2> SUFFICES ASSUME NEW j \in Active(table'), NEW a \in Addrs
                 PROVE  table'.sessions[j].session_id \in issued'[a] <=>
                          a = table'.sessions[j].addr
      BY DEF IdsArePrivate
    <2>1. CASE j = i
      BY <1>9, <1>11, <1>12, <2>1
    <2>2. CASE j # i
      <3>1. j \in Active(table) /\ table'.sessions[j] = table.sessions[j]
        BY <1>3, <1>10, <1>11, <2>2
      <3> QED BY <1>11, <1>12, <3>1 DEF IInv, IdsArePrivate
    <2> QED BY <2>1, <2>2
  <1>18. FreshStart'
    BY <1>9, <1>10 DEF IInv, FreshStart
  <1> QED BY <1>13, <1>14, <1>15, <1>16, <1>17, <1>18 DEF IInv

\* A datagram for a session that goes on.
LEMMA PacketStep ==
    ASSUME IInv, NEW addr, NEW id, NEW type, Packet(addr, id, type)
    PROVE  Keeps
PROOF
  <1> DEFINE i == session_find_by_addr(table, addr)
             t == session_touch_lru(table, i, now)
             ln == IF type = "CONNECT_ACK" THEN t.sessions[i].link ELSE "used"
             s == [t.sessions[i] EXCEPT !.state = "CONNECTED", !.link = ln]
  <1>1. i \in Active(table) /\ i \in ClientIds
    BY FindByAddr DEF Packet, Known
  <1>2. /\ table' = [t EXCEPT !.sessions[i].state = "CONNECTED",
                              !.sessions[i].link = IF type = "CONNECT_ACK" THEN @
                                                   ELSE "used"]
        /\ UNCHANGED <<now, issued, last_id>>
    BY DEF Packet
  <1>3. /\ t \in Tables /\ Exact(t) /\ Active(t) = Active(table)
        /\ t.sessions =
             [table.sessions EXCEPT ![i] = [@ EXCEPT !.last_activity = now]]
    <2> HIDE DEF i
    <2> QED BY <1>1, TableOK, TouchFact
  <1> HIDE DEF t, i
  <1>4. t.sessions \in [ClientIds -> Session] /\ t.sessions[i] \in Session
    BY <1>1, <1>3 DEF Tables
  <1>5. table' = [t EXCEPT !.sessions = [@ EXCEPT ![i] = s]]
    BY <1>1, <1>2, <1>3, <1>4 DEF Tables, Session
  <1>6. s \in Session /\ s.state = "CONNECTED" /\ s.addr = t.sessions[i].addr
        /\ s.session_id = t.sessions[i].session_id
    BY <1>4 DEF Session, States
  <1> HIDE DEF s
  <1>7. /\ table' \in Tables /\ table'.active_count = t.active_count
        /\ table'.sessions = [t.sessions EXCEPT ![i] = s]
    BY <1>1, <1>3, <1>5, <1>6 DEF Tables
  <1>8. Active(table') = Active(table)
    BY <1>1, <1>3, <1>4, <1>6, <1>7 DEF Active
  <1>9. Exact(table')
    BY <1>3, <1>7, <1>8 DEF Exact
  <1>10. \A j \in ClientIds :
           /\ t.sessions[j].addr = table.sessions[j].addr
           /\ t.sessions[j].session_id = table.sessions[j].session_id
           /\ t.sessions[j].state = table.sessions[j].state
           /\ t.sessions[j].link = table.sessions[j].link
    BY <1>1, <1>3, TableOK DEF Tables, Session
  <1>11. \A j \in Active(table') :
           /\ table'.sessions[j].addr = table.sessions[j].addr
           /\ table'.sessions[j].session_id = table.sessions[j].session_id
           /\ table'.sessions[j].state = "CONNECTING" =>
                /\ table.sessions[j].state = "CONNECTING"
                /\ table'.sessions[j].link = table.sessions[j].link
    BY <1>1, <1>4, <1>6, <1>7, <1>10 DEF Active
  <1>12. now' \in Nat
    BY <1>2, TableOK
  <1> QED BY <1>2, <1>7, <1>8, <1>9, <1>11, <1>12 DEF Keeps

\* Only a CONNECT_REQ from an address without a session starts one.
LEMMA StepKinds ==
    ASSUME IInv, [Next]_vars
    PROVE  Keeps \/ \E addr \in Addrs : ConnectNew(addr)
PROOF
  <1>1. ASSUME NEW S \in SUBSET ClientIds, table' = session_free(table, S),
               UNCHANGED <<now, issued, last_id>>
        PROVE  Keeps
    BY <1>1, TableOK, FreeStep
  <1>2. ASSUME UNCHANGED <<table, issued, last_id>>, now' \in Nat PROVE Keeps
    <2>1. table' \in Tables /\ Exact(table') /\ Active(table') = Active(table)
      BY <1>2, TableOK DEF Exact, Active
    <2> QED BY <1>2, <2>1 DEF Keeps
  <1>3. now \in Nat
    BY TableOK
  <1>4. ASSUME NEW addr, NEW id, NEW type, Unknown(addr, id, type) PROVE Keeps
    BY <1>2, <1>3, <1>4 DEF Unknown
  <1>5. ASSUME NEW addr, NEW id, Disconnect(addr, id) PROVE Keeps
    <2> DEFINE i == session_find_by_addr(table, addr)
               t == session_touch_lru(table, i, now)
    <2>1. i \in Active(table) /\ i \in ClientIds
      BY <1>5, FindByAddr DEF Disconnect, Known
    <2>2. table' = session_free(t, {i}) /\ UNCHANGED <<now, issued, last_id>>
      BY <1>5 DEF Disconnect
    <2> HIDE DEF i
    <2>3. /\ t \in Tables /\ Exact(t) /\ Active(t) = Active(table)
          /\ t.sessions =
               [table.sessions EXCEPT ![i] = [@ EXCEPT !.last_activity = now]]
      BY <2>1, TableOK, TouchFact
    <2> HIDE DEF t
    <2>4. \A j \in Active(t) :
            /\ t.sessions[j].addr = table.sessions[j].addr
            /\ t.sessions[j].session_id = table.sessions[j].session_id
            /\ t.sessions[j].state = table.sessions[j].state
            /\ t.sessions[j].link = table.sessions[j].link
      BY <2>1, <2>3, TableOK DEF Tables, Session, Active
    <2>5. {i} \in SUBSET ClientIds
      BY <2>1
    <2> QED BY <2>2, <2>3, <2>4, <2>5, FreeStep
  <1>6. ASSUME NEW addr \in Addrs, Receive(addr)
        PROVE  Keeps \/ ConnectNew(addr)
    <2>1. CASE ConnectRejected(addr)
      BY <1>2, <1>3, <2>1 DEF ConnectRejected
    <2> QED BY <1>4, <1>5, <1>6, <2>1, ConnectAgainStep, PacketStep
            DEF Receive
  <1>7. ASSUME NEW client_id \in ClientIds, DisconnectClient(client_id) PROVE Keeps
    <2> DEFINE i == session_find_by_id(table, client_id)
    <2>1. i # None /\ table' = session_free(table, {i})
          /\ UNCHANGED <<now, issued, last_id>>
      BY <1>7 DEF DisconnectClient
    <2>2. {i} \in SUBSET ClientIds
      BY <2>1 DEF session_find_by_id
    <2> QED BY <1>1, <2>1, <2>2
  <1>8. CASE InactivityPass
    <2>1. Inactive \in SUBSET ClientIds
      BY DEF Inactive, Active
    <2> QED BY <1>1, <1>8, <2>1 DEF InactivityPass
  <1>9. CASE Stop
    BY <1>1, <1>9 DEF Stop
  <1>10. CASE Tick
    BY <1>2, <1>3, <1>10 DEF Tick
  <1>11. CASE UNCHANGED vars
    BY <1>2, <1>3, <1>11 DEF vars
  <1> QED BY <1>6, <1>7, <1>8, <1>9, <1>10, <1>11 DEF Next

\* Every step of the server keeps the invariant.
LEMMA SessionsStep == IInv /\ [Next]_vars => IInv'
  BY StepKinds, NoNewSession, ConnectNewStep

\* The invariant holds in every state of the server, after any sequence of
\* handshakes, packets, kicks, timeouts, evictions and restarts.
THEOREM SessionsInvariant == Spec => []IInv
  BY SessionsInit, SessionsStep, PTL DEF Spec

\* Type correctness of the session table.
THEOREM SessionsType == Spec => []TypeOK
  BY SessionsInvariant, PTL DEF IInv

\* active_count is the number of active sessions.
THEOREM ActiveCountRight == Spec => []ActiveCountExact
  BY SessionsInvariant, PTL DEF IInv

\* No two active sessions share an address or an id.
THEOREM OneSession == Spec => []OneSessionPerClient
  BY SessionsInvariant, PTL DEF IInv

\* The id of an active session was sent to its client's address only.
THEOREM PrivateIds == Spec => []IdsArePrivate
  BY SessionsInvariant, PTL DEF IInv

\* A session that has carried nothing has windows that carried nothing.
THEOREM SessionsStartFresh == Spec => []FreshStart
  BY SessionsInvariant, PTL DEF IInv

\* REJECT is sent only under the policy REJECT and with every slot taken: a
\* slot freed by any of the ways to free one is found again.
THEOREM RejectedOnlyWhenFull == Spec => RejectsOnlyWhenFull
PROOF
  <1> DEFINE A == reply'.type = "REJECT" =>
                    table.full_policy = "REJECT" /\ Active(table) = ClientIds
  <1>1. IInv /\ [Next]_vars => [A]_vars
    <2> SUFFICES ASSUME IInv, Next, reply'.type = "REJECT"
                 PROVE  table.full_policy = "REJECT" /\ Active(table) = ClientIds
      OBVIOUS
    <2>1. PICK addr \in Addrs : ConnectRejected(addr)
      <3>1. reply' # Nothing
        BY DEF Nothing
      <3>2. \A to, id : reply' # Datagram("CONNECT_RESP", to, id)
            /\ reply' # Datagram("RESET", to, id)
            /\ reply' # Datagram("DISCONNECT", to, id)
        BY DEF Datagram
      <3>3. \A addr, id, type : ~Unknown(addr, id, type)
        BY <3>1, <3>2 DEF Unknown
      <3>4. \A addr, id, type : ~Packet(addr, id, type) /\ ~Disconnect(addr, id)
        BY <3>1 DEF Packet, Disconnect
      <3>5. \A addr : ~ConnectAgain(addr) /\ ~ConnectNew(addr)
        BY <3>2 DEF ConnectAgain, ConnectNew, Accept
      <3>6. \A client_id : ~DisconnectClient(client_id)
        BY <3>2 DEF DisconnectClient
      <3>7. ~InactivityPass /\ ~Stop /\ ~Tick
        BY <3>1 DEF InactivityPass, Stop, Tick
      <3> QED BY <3>3, <3>4, <3>5, <3>6, <3>7 DEF Next, Receive
    <2>2. AllocateSlot(table) = None
      BY <2>1 DEF ConnectRejected
    <2> QED BY <2>2, TableOK, AllocateSlotFact, FullFact
  <1> QED BY <1>1, SessionsInvariant, PTL DEF Spec, RejectsOnlyWhenFull

\* A session loses its slot to another only under DROP_OLD, with every slot
\* taken, and only if no session has been silent for longer.
THEOREM EvictedWasLeastRecent == Spec => EvictsLeastRecent
PROOF
  <1> DEFINE A == \A i \in ClientIds : Replaced(i) =>
                    /\ table.full_policy = "DROP_OLD"
                    /\ Active(table) = ClientIds
                    /\ \A j \in ClientIds : table.sessions[i].last_activity
                                              <= table.sessions[j].last_activity
  <1>1. IInv /\ [Next]_vars => [A]_vars
    <2> SUFFICES ASSUME IInv, [Next]_vars, NEW i \in ClientIds, Replaced(i)
                 PROVE  /\ table.full_policy = "DROP_OLD"
                        /\ Active(table) = ClientIds
                        /\ \A j \in ClientIds : table.sessions[i].last_activity
                                                  <= table.sessions[j].last_activity
      OBVIOUS
    <2>1. ~Keeps
      BY DEF Keeps, Replaced
    <2>2. PICK addr \in Addrs : ConnectNew(addr)
      BY <2>1, StepKinds
    <2> DEFINE k == AllocateSlot(table)
               id == last_id + 1
               t == session_allocate(table, addr, id)
    <2>3. k # None /\ table' = session_touch_lru(t, k, now)
      BY <2>2 DEF ConnectNew, Accept
    <2>4. table \in Tables /\ Exact(table) /\ now \in Nat /\ id \in Nat
      BY TableOK DEF IInv, TypeOK
    <2> HIDE DEF id, k
    <2>5. /\ k \in ClientIds /\ t \in Tables /\ Exact(t)
          /\ t.sessions = [table.sessions EXCEPT ![k] = NewSession(@, addr, id)]
      BY <2>3, <2>4, AllocateFact, AllocateSlotFact DEF k
    <2> HIDE DEF t
    <2>6. table'.sessions = [t.sessions EXCEPT ![k] = [@ EXCEPT !.last_activity = now]]
      BY <2>3, <2>4, <2>5, TouchFact
    <2>7. i = k
      BY <2>4, <2>5, <2>6 DEF Replaced, Tables
    <2>8. i \in Active(table)
      BY DEF Replaced
    <2>9. table.full_policy = "DROP_OLD" /\ Full(table) /\ i \in LeastRecent(table)
      BY <2>3, <2>4, <2>7, <2>8, AllocateSlotFact DEF k
    <2> QED BY <2>4, <2>9, FullFact DEF LeastRecent
  <1> QED BY <1>1, SessionsInvariant, PTL DEF Spec, EvictsLeastRecent
=============================================================================
