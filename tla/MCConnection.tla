---------------------------- MODULE MCConnection ----------------------------
(* Instances of Connection for TLC. *)
EXTENDS Connection

MCItems == 1 .. MaxMessages
MCLenOf(m) == 0
MCModeOf(m) == IF m = 3 THEN RELIABLE_UNORDERED ELSE RELIABLE_ORDERED

Limit(messages, upwards, downwards, events, kinds, network) ==
    [messages |-> messages, up |-> upwards, down |-> downwards,
     events |-> events, kinds |-> kinds, network |-> network]

\* More messages than the queue takes back; late answers, of up to three
\* sessions; and two events between messages.
MCLimits == {Limit(3, 1, 1, 2, EventKinds, "lossy"),
             Limit(1, 1, 2, 3, EventKinds, "lossy"),
             Limit(2, 1, 1, 3, EventKinds, "lossy")}

\* Sessions come and go over a network that loses datagrams at first; a message
\* that the sessions must carry over; and calls of disconnect.  The properties
\* are about clients that reconnect.
MCLiveLimits == {Limit(0, 1, 1, 3, {"connect", "silence", "forget"}, "heals"),
                 Limit(1, 1, 1, 2, {"connect", "forget"}, "reliable"),
                 Limit(0, 1, 1, 3, {"connect", "disconnect", "timeout"}, "heals")}
AutoInit == Init /\ auto /\ send_queue.full_policy = "DROP_LAST"
AutoSpec == AutoInit /\ [][Next]_vars /\ Fairness
=============================================================================
