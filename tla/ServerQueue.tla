---------------------------- MODULE ServerQueue ----------------------------
(***************************************************************************)
(* The way of a message from rel4u_server_send to a session's send window  *)
(* (src/src/core/rel4u_server.c): application threads that send, the       *)
(* thread that starts and stops the server, and the worker with its        *)
(* pending_item.  A step is what happens between two locks, or between two *)
(* looks at running.                                                       *)
(*                                                                         *)
(* Of a session only its send window is kept, as the messages not          *)
(* acknowledged, oldest first; SessionTable and Transfer have the rest.    *)
(* All messages are reliable, and the queue is in DYNAMIC memory.  The     *)
(* wake-up pipe only shortens a poll, and is left out.  Start always gets  *)
(* its socket and its thread.                                              *)
(***************************************************************************)
EXTENDS Mpmc

CONSTANTS
    ClientIds,      \* slots of the session table
    WindowSize,     \* window_size
    MaxMessages,    \* bound: calls of rel4u_server_send
    Limits          \* bounds, one choice of them for each behaviour

ASSUME ServerQueueAssumption ==
    /\ IsFiniteSet(ClientIds)
    /\ WindowSize \in Nat \ {0}
    /\ MaxMessages \in Nat /\ Items = 1 .. MaxMessages
    /\ Limits \subseteq [messages : 0 .. MaxMessages, sessions : Nat,
                         runs : Nat]

VARIABLES
    \* rel4u_server_t
    running, send_queue,
    pending,        \* pending_item, or 0 when has_pending_item is false
    sessions,       \* by slot: the state, which session it is, its window
    \* threads
    worker, at,     \* whether the worker runs, and where it is in its loop
    control,        \* where the thread that starts and stops is
    calls,          \* calls of send that saw running and did not push yet
    \* history
    to, run_of,     \* of every message pushed: the slot it is for, and the run
                    \* its call belongs to
    late,           \* messages that got there when their run was over
    sent,           \* messages put in a window, with the session and the run
    dropped,        \* messages the queue refused or evicted
    discarded,      \* messages the worker had no session for
    cleared,        \* messages stop threw away
    made, runs,     \* number of sessions, of runs
    \* bounds
    limits          \* messages, sessions and runs

tableVars == <<sessions, made>>
threadVars == <<running, worker, at, control, runs>>
callVars == <<calls, to, run_of>>
queueVars == <<send_queue, late, dropped>>
vars == <<threadVars, tableVars, callVars, queueVars, pending, sent, discarded,
          cleared, limits>>

Free == [state |-> "DISCONNECTED", who |-> 0, window |-> <<>>]

Init ==
    /\ running = FALSE /\ worker = "none" /\ at = "top" /\ control = "idle"
    /\ runs = 0
    /\ \E full_policy \in FullPolicies :
          send_queue = mpmc_init("DYNAMIC", full_policy)
    /\ pending = 0
    /\ sessions = [i \in ClientIds |-> Free] /\ made = 0
    /\ calls = {} /\ to = <<>> /\ run_of = <<>>
    /\ late = {} /\ sent = <<>>
    /\ dropped = {} /\ discarded = {} /\ cleared = {}
    /\ limits \in Limits

-----------------------------------------------------------------------------
(* Application threads *)

\* rel4u_server_send has seen running.
SendBegins(i) ==
    /\ Len(to) + Cardinality(calls) < limits.messages
    /\ running
    /\ calls' = calls \cup {[to |-> i, run |-> runs]}
    /\ UNCHANGED <<threadVars, tableVars, to, run_of, queueVars, pending, sent,
                   discarded, cleared, limits>>

InQueue(q) == {Contents(q)[i] : i \in DOMAIN Contents(q)}

\* Messages are numbered in the order of these steps.
SendPushes(call) ==
    LET n == Len(to) + 1
        after == mpmc_push_back_locked(send_queue, n, TRUE).q
    IN  /\ calls' = calls \ {call}
        /\ to' = Append(to, call.to) /\ run_of' = Append(run_of, call.run)
        /\ send_queue' = after
        /\ late' = IF running /\ call.run = runs THEN late ELSE late \cup {n}
        /\ dropped' = dropped \cup
                         ((InQueue(send_queue) \cup {n}) \ InQueue(after))
        /\ UNCHANGED <<threadVars, tableVars, pending, sent, discarded,
                       cleared, limits>>

rel4u_server_disconnect_client(i) ==
    /\ sessions[i].state # "DISCONNECTED"
    /\ sessions' = [sessions EXCEPT ![i] = Free]
    /\ UNCHANGED <<threadVars, made, callVars, queueVars, pending, sent,
                   discarded, cleared, limits>>

-----------------------------------------------------------------------------
(* Start and stop *)

rel4u_server_start ==
    /\ control = "idle" /\ ~running /\ runs < limits.runs
    /\ running' = TRUE /\ runs' = runs + 1
    /\ worker' = "loop" /\ at' = "top"
    /\ UNCHANGED <<control, tableVars, callVars, queueVars, pending, sent,
                   discarded, cleared, limits>>

rel4u_server_stop ==
    /\ control = "idle" /\ running
    /\ running' = FALSE
    /\ control' = "join"
    /\ UNCHANGED <<worker, at, runs, tableVars, callVars, queueVars, pending,
                   sent, discarded, cleared, limits>>

StopJoins ==
    /\ control = "join" /\ worker = "ended"
    /\ worker' = "none"
    /\ control' = "sessions"
    /\ UNCHANGED <<running, at, runs, tableVars, callVars, queueVars, pending,
                   sent, discarded, cleared, limits>>

StopFreesSessions ==
    /\ control = "sessions"
    /\ sessions' = [i \in ClientIds |-> Free]
    /\ control' = "queue"
    /\ UNCHANGED <<running, worker, at, runs, made, callVars, queueVars,
                   pending, sent, discarded, cleared, limits>>

\* One try_pop: another send may push before the next one.
StopPops ==
    /\ control = "queue"
    /\ IF send_queue.count > 0
       THEN LET popped == mpmc_pop_head_locked(send_queue)
            IN  /\ send_queue' = popped.q
                /\ cleared' = cleared \cup {popped.item}
                /\ UNCHANGED control
       ELSE control' = "pending" /\ UNCHANGED <<send_queue, cleared>>
    /\ UNCHANGED <<running, worker, at, runs, tableVars, callVars, late,
                   dropped, pending, sent, discarded, limits>>

\* faulty variant: the pending item stays
StopClearsPending_Keeps ==
    /\ control = "pending"
    /\ control' = "idle"
    /\ UNCHANGED <<running, worker, at, runs, tableVars, callVars, queueVars,
                   pending, sent, discarded, cleared, limits>>

StopClearsPending ==
    /\ control = "pending"
    /\ control' = "idle"
    /\ pending' = 0
    /\ cleared' = cleared \cup ({pending} \ {0})
    /\ UNCHANGED <<running, worker, at, runs, tableVars, callVars, queueVars,
                   sent, discarded, limits>>

-----------------------------------------------------------------------------
(* The worker *)

WorkerTop ==
    /\ worker = "loop" /\ at = "top"
    /\ IF running THEN at' = "socket" /\ UNCHANGED worker
       ELSE worker' = "ended" /\ UNCHANGED at
    /\ UNCHANGED <<running, control, runs, tableVars, callVars, queueVars,
                   pending, sent, discarded, cleared, limits>>

\* A datagram changes the session in slot i.
Receives(i, session) ==
    /\ worker = "loop" /\ at = "socket"
    /\ sessions' = [sessions EXCEPT ![i] = session]
    /\ UNCHANGED <<threadVars, callVars, queueVars, pending, sent, discarded,
                   cleared, limits>>

Active == {i \in ClientIds : sessions[i].state # "DISCONNECTED"}

\* A new client takes a free slot or, when there is none, evicts.
Connects(i) ==
    /\ i \in Active => Active = ClientIds
    /\ made < limits.sessions /\ made' = made + 1
    /\ Receives(i, [state |-> "CONNECTING", who |-> made + 1, window |-> <<>>])

Completes(i) ==
    /\ sessions[i].state = "CONNECTING"
    /\ Receives(i, [sessions[i] EXCEPT !.state = "CONNECTED"])
    /\ UNCHANGED made

Acknowledges(i) ==
    /\ sessions[i].window # <<>>
    /\ Receives(i, [sessions[i] EXCEPT !.window = Tail(@)])
    /\ UNCHANGED made

Leaves(i) ==
    /\ i \in Active
    /\ Receives(i, Free)
    /\ UNCHANGED made

SocketEmpty ==
    /\ worker = "loop" /\ at = "socket"
    /\ at' = "drain"
    /\ UNCHANGED <<running, worker, control, runs, tableVars, callVars,
                   queueVars, pending, sent, discarded, cleared, limits>>

DrainPops ==
    /\ worker = "loop" /\ at = "drain" /\ pending = 0
    /\ IF send_queue.count > 0
       THEN LET popped == mpmc_pop_head_locked(send_queue)
            IN  send_queue' = popped.q /\ pending' = popped.item /\ UNCHANGED at
       ELSE at' = "timers" /\ UNCHANGED <<send_queue, pending>>
    /\ UNCHANGED <<running, worker, control, runs, tableVars, callVars, late,
                   dropped, sent, discarded, cleared, limits>>

CanSend(i) == Len(sessions[i].window) < WindowSize

\* faulty variant: has_pending_item stays true
DrainSends_KeepsPending ==
    LET i == to[pending]
    IN  /\ worker = "loop" /\ at = "drain" /\ pending # 0
        /\ sessions[i].state = "CONNECTED" /\ CanSend(i)
        /\ sessions' = [sessions EXCEPT ![i].window = Append(@, pending)]
        /\ sent' = Append(sent, [msg |-> pending, who |-> sessions[i].who,
                                 run |-> runs])
        /\ UNCHANGED pending
        /\ UNCHANGED <<threadVars, made, callVars, queueVars, discarded,
                       cleared, limits>>

DrainSends ==
    LET i == to[pending]
    IN  /\ worker = "loop" /\ at = "drain" /\ pending # 0
        /\ sessions[i].state = "CONNECTED" /\ CanSend(i)
        /\ sessions' = [sessions EXCEPT ![i].window = Append(@, pending)]
        /\ sent' = Append(sent, [msg |-> pending, who |-> sessions[i].who,
                                 run |-> runs])
        /\ pending' = 0
        /\ UNCHANGED <<threadVars, made, callVars, queueVars, discarded,
                       cleared, limits>>

\* faulty variant: the message goes back to the end of the queue
DrainPauses_PushBack ==
    LET i == to[pending]
    IN  /\ worker = "loop" /\ at = "drain" /\ pending # 0
        /\ sessions[i].state = "CONNECTED" /\ ~CanSend(i)
        /\ at' = "timers"
        /\ pending' = 0
        /\ send_queue' = mpmc_push_back_locked(send_queue, pending, TRUE).q
        /\ UNCHANGED <<running, worker, control, runs, tableVars, callVars,
                       late, dropped, sent, discarded, cleared, limits>>

\* faulty variant: the worker waits for the window to move
DrainPauses_Spins ==
    LET i == to[pending]
    IN  /\ worker = "loop" /\ at = "drain" /\ pending # 0
        /\ sessions[i].state = "CONNECTED" /\ ~CanSend(i)
        /\ UNCHANGED <<threadVars, tableVars, callVars,
                       queueVars, pending, sent, discarded, cleared, limits>>

DrainPauses ==
    LET i == to[pending]
    IN  /\ worker = "loop" /\ at = "drain" /\ pending # 0
        /\ sessions[i].state = "CONNECTED" /\ ~CanSend(i)
        /\ at' = "timers"
        /\ UNCHANGED <<running, worker, control, runs, tableVars, callVars,
                       queueVars, pending, sent, discarded, cleared, limits>>

\* faulty variant: a message waits for its client to connect
DrainDiscards_Waits ==
    /\ worker = "loop" /\ at = "drain" /\ pending # 0
    /\ sessions[to[pending]].state # "CONNECTED"
    /\ at' = "timers"
    /\ UNCHANGED <<running, worker, control, runs, tableVars, callVars,
                   queueVars, pending, sent, discarded, cleared, limits>>

DrainDiscards ==
    /\ worker = "loop" /\ at = "drain" /\ pending # 0
    /\ sessions[to[pending]].state # "CONNECTED"
    /\ discarded' = discarded \cup {pending}
    /\ pending' = 0
    /\ UNCHANGED <<threadVars, tableVars, callVars, queueVars, sent, cleared,
                   limits>>

\* Sessions silent for too long are freed.
Timers(silent) ==
    /\ worker = "loop" /\ at = "timers"
    /\ sessions' = [i \in ClientIds |->
                       IF i \in silent THEN Free ELSE sessions[i]]
    /\ at' = "top"
    /\ UNCHANGED <<running, worker, control, runs, made, callVars, queueVars,
                   pending, sent, discarded, cleared, limits>>

WorkerStep ==
    \/ WorkerTop \/ SocketEmpty
    \/ DrainPops \/ DrainSends \/ DrainPauses \/ DrainDiscards
    \/ \E silent \in SUBSET Active : Timers(silent)

ControlStep == StopJoins \/ StopFreesSessions \/ StopPops \/ StopClearsPending

Next ==
    \/ \E i \in ClientIds :
          \/ SendBegins(i) \/ rel4u_server_disconnect_client(i)
          \/ Connects(i) \/ Completes(i) \/ Acknowledges(i) \/ Leaves(i)
    \/ \E call \in calls : SendPushes(call)
    \/ rel4u_server_start \/ rel4u_server_stop \/ ControlStep
    \/ WorkerStep

Spec == Init /\ [][Next]_vars

-----------------------------------------------------------------------------
(* Properties *)

SentAt(n) == {k \in DOMAIN sent : sent[k].msg = n}

\* A message that send pushed is handled once: it waits in the queue, or as the
\* pending item, or it was put into one window, or it was evicted, discarded or
\* cleared.  Neither a paused drain nor a stop between two turns of the worker
\* loses it or makes it go out twice (rel4u_server.c:483-516, 153-156).
HandledOnce ==
    LET places == <<InQueue(send_queue), {pending}, dropped, discarded,
                    cleared>>
    IN  \A n \in DOMAIN to :
            Cardinality(SentAt(n))
                + Cardinality({p \in DOMAIN places : n \in places[p]}) = 1

\* The messages a session gets keep the order of the queue, whatever was paused,
\* discarded or evicted between them.
OrderPerSession ==
    \A j, k \in DOMAIN sent : j < k /\ sent[j].who = sent[k].who =>
        sent[j].msg < sent[k].msg

\* A restarted server sends no message of an earlier run ("can ... deliver data
\* from a prior run", rel4u_server.c:146-147), but for those whose send had seen
\* running and had not pushed yet when stop was called.
FreshRun ==
    \A k \in DOMAIN sent :
        sent[k].run = run_of[sent[k].msg] \/ sent[k].msg \in late

-----------------------------------------------------------------------------
(* Liveness *)

\* A client whose window is full acknowledges something, or is silent for long
\* enough.
Unblocks(i) ==
    /\ ~CanSend(i)
    /\ \/ Acknowledges(i)
       \/ \E silent \in SUBSET Active : i \in silent /\ Timers(silent)

Fairness ==
    /\ WF_vars(WorkerStep) /\ WF_vars(ControlStep)
    /\ \A i \in ClientIds : SF_vars(Unblocks(i))

FairSpec == Spec /\ Fairness

\* One client's full window stops the drain for all of them, but not for good:
\* while the server runs every message leaves the queue
\* (rel4u_server.c:506-510).
QueueMoves ==
    \A n \in Items :
        []<>(~running \/ n \notin InQueue(send_queue) \cup {pending})

\* rel4u_server_stop returns, whatever the worker was doing.
StopReturns == []<>(control = "idle")
=============================================================================
