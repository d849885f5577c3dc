---------------------------- MODULE SessionTable ----------------------------
(***************************************************************************)
(* The server's table of sessions (src/src/core/rel4u_session.{h,c}) as    *)
(* operators on its value.  Of a session's windows, timer and pending      *)
(* acknowledgement only one thing is kept: whether they are as allocate    *)
(* leaves them or have been used.                                          *)
(***************************************************************************)
EXTENDS Integers, FiniteSets, FiniteSetsExt

CONSTANTS
    MaxClients,     \* max_clients
    Addrs,          \* addresses of clients
    NoAddr          \* the address of a slot never used

ASSUME TableAssumption ==
    /\ MaxClients \in Nat \ {0}
    /\ NoAddr \notin Addrs

ClientIds == 0 .. MaxClients - 1

States == {"DISCONNECTED", "CONNECTING", "CONNECTED"}

FullPolicies == {"REJECT", "DROP_OLD"}

\* The result NULL of the searches.
None == -1

session_table_init(full_policy) ==
    [sessions |-> [i \in ClientIds |->
        [session_id |-> 0, addr |-> NoAddr, state |-> "DISCONNECTED",
         last_activity |-> 0, link |-> "fresh"]],
     active_count |-> 0, full_policy |-> full_policy]

Active(table) == {i \in ClientIds : table.sessions[i].state # "DISCONNECTED"}

\* The first of a set of slots, in the order of the array.
FirstOf(slots) == IF slots = {} THEN None ELSE Min(slots)

session_find_by_addr(table, addr) ==
    FirstOf({i \in Active(table) : table.sessions[i].addr = addr})

session_find_by_id(table, client_id) ==
    IF client_id \in Active(table) THEN client_id ELSE None

\* The active slots with the lowest last_activity.
LeastRecent(table) ==
    {i \in Active(table) : \A j \in Active(table) :
        table.sessions[i].last_activity <= table.sessions[j].last_activity}

\* faulty variant: full one session early
Full_Early(table) == table.active_count >= MaxClients - 1

Full(table) == table.active_count >= MaxClients

\* faulty variant: the most recent session is evicted
AllocateSlot_Newest(table) ==
    IF ~Full(table) THEN FirstOf(ClientIds \ Active(table))
    ELSE IF table.full_policy = "REJECT" THEN None
    ELSE FirstOf({i \in Active(table) : \A j \in Active(table) :
           table.sessions[i].last_activity >= table.sessions[j].last_activity})

AllocateSlot(table) ==
    IF ~Full(table) THEN FirstOf(ClientIds \ Active(table))
    ELSE IF table.full_policy = "REJECT" THEN None
    ELSE FirstOf(LeastRecent(table))

\* faulty variant: the windows of the previous session stay
NewSession_KeepLink(session, addr, session_id) ==
    [session EXCEPT !.session_id = session_id, !.addr = addr,
                    !.state = "CONNECTING"]

NewSession(session, addr, session_id) ==
    [session EXCEPT !.session_id = session_id, !.addr = addr,
                    !.state = "CONNECTING", !.link = "fresh"]

\* faulty variant: an eviction is not subtracted
session_allocate_NoDecrement(table, addr, session_id) ==
    LET i == AllocateSlot(table)
    IN  IF i = None THEN table
        ELSE [table EXCEPT !.sessions[i] = NewSession(@, addr, session_id),
                           !.active_count = @ + 1]

\* The table after an allocation of AllocateSlot(table), if there is one.
session_allocate(table, addr, session_id) ==
    LET i == AllocateSlot(table)
    IN  IF i = None THEN table
        ELSE [table EXCEPT !.sessions[i] = NewSession(@, addr, session_id),
                           !.active_count = (@ + 1) - (IF Full(table) THEN 1 ELSE 0)]

session_touch_lru(table, i, now) ==
    [table EXCEPT !.sessions[i].last_activity = now]

\* faulty variant: nothing keeps the count from going below zero
session_free_Negative(table, slots) ==
    [table EXCEPT !.sessions = [i \in ClientIds |-> IF i \in slots
        THEN [table.sessions[i] EXCEPT !.state = "DISCONNECTED", !.session_id = 0]
        ELSE table.sessions[i]],
     !.active_count = table.active_count - Cardinality(slots)]

\* The table once the sessions of a set of slots are freed one by one.
session_free(table, slots) ==
    LET freed == slots \cap Active(table)
        count == Cardinality(freed)
    IN  [table EXCEPT !.sessions = [i \in ClientIds |-> IF i \in freed
            THEN [table.sessions[i] EXCEPT !.state = "DISCONNECTED",
                                           !.session_id = 0]
            ELSE table.sessions[i]],
         !.active_count = IF table.active_count >= count
                          THEN table.active_count - count ELSE 0]
=============================================================================
