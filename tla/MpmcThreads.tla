---------------------------- MODULE MpmcThreads ----------------------------
(***************************************************************************)
(* Threads sharing a message queue (src/src/core/rel4u_mpmc.c).  Every     *)
(* function runs under the queue's mutex, so a step is one critical        *)
(* section: pop_wait is one up to its wait and one after each wake-up.     *)
(*                                                                         *)
(* Two uses, as in the library.  SendQueue: application threads try_push,  *)
(* the worker pops with try_pop and gives messages back with push_front.   *)
(* RecvQueue: the worker pushes with push_notify, application threads      *)
(* block in pop_wait, wake_all sends them home, a stopping server empties  *)
(* the queue with try_pop.                                                 *)
(***************************************************************************)
EXTENDS Mpmc

CONSTANTS
    Readers,    \* threads that call pop_wait
    Timeout,    \* timeout_ms of a timed call, in clock ticks
    MaxPushes,  \* bound: messages pushed
    MaxWakes    \* bound: calls of wake_all

ASSUME ThreadsAssumption ==
    /\ IsFiniteSet(Readers)
    /\ Items = 1 .. MaxPushes
    /\ Timeout \in Nat \ {0}
    /\ MaxPushes \in Nat /\ MaxWakes \in Nat

VARIABLES
    q, wake_generation,
    pc,         \* out of pop_wait, blocked on the condition, or woken from it
    gen,        \* wake_generation when the reader called pop_wait
    kind,       \* its timeout: timed or forever
    left,       \* ticks until the wait times out
    elapsed,    \* history: ticks since the call, up to Timeout + 1
    pushes, popped  \* history: messages pushed, number popped

readerVars == <<pc, gen, kind, left, elapsed>>
vars == <<q, wake_generation, readerVars, pushes, popped>>

Blocked == {r \in Readers : pc[r] = "blocked"}
Woken == {r \in Readers : pc[r] \in {"signaled", "timed_out"}}

Init ==
    /\ \E mode \in MemoryModes, full_policy \in FullPolicies :
          q = mpmc_init(mode, full_policy)
    /\ wake_generation = 0
    /\ pc = [r \in Readers |-> "out"]
    /\ gen = [r \in Readers |-> 0]
    /\ kind = [r \in Readers |-> "forever"]
    /\ left = [r \in Readers |-> 0]
    /\ elapsed = [r \in Readers |-> 0]
    /\ pushes = 0 /\ popped = 0

-----------------------------------------------------------------------------
\* pthread_cond_signal: one blocked thread, if there is one, wakes up.
Signal ==
    /\ IF Blocked = {} THEN UNCHANGED pc
       ELSE \E r \in Blocked : pc' = [pc EXCEPT ![r] = "signaled"]
    /\ UNCHANGED <<gen, kind, left, elapsed>>

\* result is that of one of the locked pushes of the next message.
Push(result) ==
    /\ pushes < MaxPushes
    /\ pushes' = pushes + 1
    /\ q' = result.q
    /\ UNCHANGED <<wake_generation, popped>>

TryPush(alloc_ok) ==
    /\ Push(mpmc_push_back_locked(q, pushes + 1, alloc_ok))
    /\ UNCHANGED readerVars

\* faulty variant: only the first message of an empty queue wakes a reader
PushNotify_WhenEmpty(alloc_ok) ==
    LET result == mpmc_push_back_locked(q, pushes + 1, alloc_ok)
    IN  /\ Push(result)
        /\ IF result.ok /\ q.count = 0 THEN Signal ELSE UNCHANGED readerVars

PushNotify(alloc_ok) ==
    LET result == mpmc_push_back_locked(q, pushes + 1, alloc_ok)
    IN  /\ Push(result)
        /\ IF result.ok THEN Signal ELSE UNCHANGED readerVars

PushFront(alloc_ok) ==
    LET result == mpmc_push_front_locked(q, pushes + 1, alloc_ok)
    IN  /\ Push(result)
        /\ IF result.ok THEN Signal ELSE UNCHANGED readerVars

PopHead ==
    /\ q.count > 0
    /\ q' = mpmc_pop_head_locked(q).q
    /\ popped' = popped + 1

TryPop == PopHead /\ UNCHANGED <<wake_generation, readerVars, pushes>>

\* pop_wait finds a message at once.  (With timeout_ms = 0 and an empty queue it
\* returns and nothing changes.)
PopWaitNow(r) ==
    /\ pc[r] = "out"
    /\ PopHead
    /\ UNCHANGED <<wake_generation, readerVars, pushes>>

\* The loop of pop_wait goes to sleep, for its whole timeout.
Sleep(r, k) ==
    /\ q.count = 0
    /\ pc' = [pc EXCEPT ![r] = "blocked"]
    /\ left' = [left EXCEPT ![r] = IF k = "timed" THEN Timeout ELSE 0]

PopWaitBlock(r, k) ==
    /\ pc[r] = "out"
    /\ Sleep(r, k)
    /\ kind' = [kind EXCEPT ![r] = k]
    /\ gen' = [gen EXCEPT ![r] = wake_generation]
    /\ elapsed' = [elapsed EXCEPT ![r] = 0]
    /\ UNCHANGED <<q, wake_generation, pushes, popped>>

\* A woken reader has the mutex again: it takes a message, ...
ResumePop(r) ==
    /\ r \in Woken
    /\ PopHead
    /\ pc' = [pc EXCEPT ![r] = "out"]
    /\ UNCHANGED <<wake_generation, gen, kind, left, elapsed, pushes>>

\* faulty variant: wake_generation is not looked at
GivesUp_TimeoutOnly(r) == pc[r] = "timed_out"

\* ... gives up, ...
GivesUp(r) == wake_generation # gen[r] \/ pc[r] = "timed_out"

ResumeReturn(r) ==
    /\ r \in Woken
    /\ q.count = 0
    /\ GivesUp(r)
    /\ pc' = [pc EXCEPT ![r] = "out"]
    /\ UNCHANGED <<q, wake_generation, gen, kind, left, elapsed, pushes, popped>>

\* ... or waits again.
ResumeSleep(r) ==
    /\ r \in Woken
    /\ ~GivesUp(r)
    /\ Sleep(r, kind[r])
    /\ UNCHANGED <<q, wake_generation, gen, kind, elapsed, pushes, popped>>

\* A wait of a timed call ends by itself; any wait may end for no reason.
WaitTimesOut(r) ==
    /\ pc[r] = "blocked" /\ kind[r] = "timed" /\ left[r] = 0
    /\ pc' = [pc EXCEPT ![r] = "timed_out"]
    /\ UNCHANGED <<q, wake_generation, gen, kind, left, elapsed, pushes, popped>>

SpuriousWakeup(r) ==
    /\ pc[r] = "blocked"
    /\ pc' = [pc EXCEPT ![r] = "signaled"]
    /\ UNCHANGED <<q, wake_generation, gen, kind, left, elapsed, pushes, popped>>

\* faulty variant: one reader is signaled in place of all
WakeAll_One ==
    /\ wake_generation < MaxWakes
    /\ wake_generation' = wake_generation + 1
    /\ Signal
    /\ UNCHANGED <<q, pushes, popped>>

WakeAll ==
    /\ wake_generation < MaxWakes
    /\ wake_generation' = wake_generation + 1
    /\ pc' = [r \in Readers |-> IF r \in Blocked THEN "signaled" ELSE pc[r]]
    /\ UNCHANGED <<q, gen, kind, left, elapsed, pushes, popped>>

\* The clock; waits that are over and threads that can run go first.
Tick ==
    /\ Woken = {}
    /\ \E r \in Blocked : kind[r] = "timed"
    /\ \A r \in Blocked : kind[r] = "timed" => left[r] > 0
    /\ left' = [r \in Readers |-> IF r \in Blocked /\ kind[r] = "timed"
                                  THEN left[r] - 1 ELSE left[r]]
    /\ elapsed' = [r \in Readers |-> IF r \in Blocked /\ elapsed[r] <= Timeout
                                     THEN elapsed[r] + 1 ELSE elapsed[r]]
    /\ UNCHANGED <<q, wake_generation, pc, gen, kind, pushes, popped>>

\* malloc is called in DYNAMIC memory only.
AllocResults == IF q.mode = "FIXED" THEN {TRUE} ELSE BOOLEAN

SendNext ==
    \/ \E alloc_ok \in AllocResults : TryPush(alloc_ok) \/ PushFront(alloc_ok)
    \/ TryPop

SendSpec == Init /\ [][SendNext]_vars

ReaderStep(r) ==
    \/ PopWaitNow(r)
    \/ \E k \in {"timed", "forever"} : PopWaitBlock(r, k)
    \/ ResumePop(r) \/ ResumeReturn(r) \/ ResumeSleep(r)
    \/ WaitTimesOut(r) \/ SpuriousWakeup(r)

RecvNext ==
    \/ \E alloc_ok \in AllocResults : PushNotify(alloc_ok)
    \/ \E r \in Readers : ReaderStep(r)
    \/ TryPop \/ WakeAll \/ Tick

RecvSpec == Init /\ [][RecvNext]_vars

\* A woken thread gets the mutex some day.
FairRecvSpec ==
    RecvSpec /\ \A r \in Readers :
        WF_vars(ResumePop(r) \/ ResumeReturn(r) \/ ResumeSleep(r))

-----------------------------------------------------------------------------
(* Properties *)

QueueType ==
    [mode : MemoryModes, full_policy : FullPolicies,
     items : [Indices -> Items \cup {Uninitialized}], head : Indices,
     tail : Indices, count : Nat, nodes : Seq(Items), current_bytes : Nat,
     dropped_count : Nat]

\* The counters the pushes and pops keep agree with what is stored: the ring's
\* head, tail and count with each other, the list's count and current_bytes
\* with its nodes, and neither exceeds its bound.
QueueInv ==
    IF q.mode = "FIXED"
    THEN /\ q.count <= Capacity
         /\ q.tail = (q.head + q.count) % Capacity
    ELSE /\ q.count = Len(q.nodes)
         /\ q.current_bytes = BytesOf(q.nodes)
         /\ q.current_bytes <= MaxBytes

\* Every message pushed was popped, is queued or was counted as dropped
\* (packets_dropped_queue_full of the statistics).
Conservation == pushes = popped + q.count + q.dropped_count

\* The critical sections implement a bounded queue.
FitsBound(mode, s) ==
    IF mode = "FIXED" THEN Len(s) <= Capacity ELSE BytesOf(s) <= MaxBytes

Abstract == INSTANCE MessageQueue WITH
    queue <- Contents(q), dropped <- q.dropped_count, memory <- q.mode,
    evicts <- (q.full_policy = "DROP_LAST"), Fits <- FitsBound,
    Memories <- MemoryModes, Failing <- {"DYNAMIC"}

QueueSpec == Abstract!Spec

\* No lost wake-up: while readers sleep, every queued message has a reader
\* that is already awake to fetch it.
NoLostWakeup == Blocked # {} => q.count <= Cardinality(Woken)

\* No reader sleeps through wake_all: who is asleep called pop_wait after it.
WakeAllReachesAll == \A r \in Blocked : gen[r] = wake_generation

\* Messages and sleeping readers do not stay together forever.
SleepersServed == []<>(Blocked = {} \/ q.count = 0)

\* Every reader inside pop_wait at a wake_all leaves pop_wait.
WakeAllReleases ==
    \A r \in Readers :
        (pc[r] # "out" /\ gen[r] # wake_generation) ~> pc[r] = "out"

\* A timed call does not outlast its timeout.
TimedCallBounded ==
    \A r \in Readers : pc[r] # "out" /\ kind[r] = "timed" =>
        elapsed[r] <= Timeout

=============================================================================
