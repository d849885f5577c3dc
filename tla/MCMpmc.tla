------------------------------- MODULE MCMpmc -------------------------------
(* Instances of MpmcThreads for TLC. *)
EXTENDS MpmcThreads

CONSTANT MaxReceived    \* bound: messages pushed to a receive queue

\* What the queue is for, chosen at the start.
VARIABLE use

\* Long and short messages, and one that can never fit.
MCItems == 1 .. MaxPushes
MCLenOf(x) == IF x = 3 THEN MaxBytes ELSE x % 3

UseInit == Init /\ use \in {"send", "recv"}

UseNext ==
    /\ \/ use = "send" /\ SendNext
       \/ use = "recv" /\ RecvNext /\ pushes' <= MaxReceived
    /\ UNCHANGED use

\* As in FairRecvSpec.
UseSpec ==
    /\ UseInit /\ [][UseNext]_<<vars, use>>
    /\ \A r \in Readers :
          WF_vars(ResumePop(r) \/ ResumeReturn(r) \/ ResumeSleep(r))
=============================================================================
