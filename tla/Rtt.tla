-------------------------------- MODULE Rtt ---------------------------------
(***************************************************************************)
(* The retransmission timeout of a session (src/src/core/rel4u_rtt.{h,c}): *)
(* Jacobson/Karels smoothing in whole milliseconds and exponential backoff.*)
(* The values stay far below 2^31, so the code's uint32_t and int32_t      *)
(* arithmetic is exact.                                                    *)
(***************************************************************************)
EXTENDS Integers

CONSTANTS
    DefaultRto, MinRto, MaxRto, \* 200, 20 and 2000 in the code
    Samples                     \* round-trip times the path may show

ASSUME RttAssumption ==
    /\ MinRto \in Nat \ {0} /\ MaxRto \in Nat /\ DefaultRto \in Nat
    /\ MinRto <= DefaultRto /\ DefaultRto <= MaxRto
    /\ Samples \subseteq Nat

VARIABLES
    rtt,        \* rel4u_rtt_t
    lowest, highest \* history: the range of the samples so far

vars == <<rtt, lowest, highest>>

Clamp(rto) == IF rto < MinRto THEN MinRto
              ELSE IF rto > MaxRto THEN MaxRto ELSE rto

AtLeastOne(x) == IF x < 1 THEN 1 ELSE x

Distance(x, y) == IF x < y THEN y - x ELSE x - y

rtt_init ==
    [rto |-> Clamp(DefaultRto), srtt |-> 0, rttvar |-> 0, has_sample |-> FALSE]

Smoothed_NoFirst(r, sample) == \* the first sample smoothed with 0
    [srtt |-> (7 * r.srtt + sample) \div 8,
     rttvar |-> AtLeastOne((3 * r.rttvar + Distance(r.srtt, sample)) \div 4)]

Smoothed(r, sample) ==
    IF ~r.has_sample
    THEN [srtt |-> sample, rttvar |-> AtLeastOne(sample \div 2)]
    ELSE [srtt |-> (7 * r.srtt + sample) \div 8,
          rttvar |-> AtLeastOne((3 * r.rttvar + Distance(r.srtt, sample)) \div 4)]

rtt_update_sample_NoSrtt(r, sample) == \* the variation taken for the timeout
    LET s == Smoothed(r, sample)
    IN  [rto |-> Clamp(AtLeastOne(4 * s.rttvar)), srtt |-> s.srtt,
         rttvar |-> s.rttvar, has_sample |-> TRUE]

rtt_update_sample(r, sample) ==
    LET s == Smoothed(r, sample)
    IN  [rto |-> Clamp(s.srtt + AtLeastOne(4 * s.rttvar)), srtt |-> s.srtt,
         rttvar |-> s.rttvar, has_sample |-> TRUE]

rtt_on_timeout_NoCap(r) == [r EXCEPT !.rto = 2 * @] \* backoff without a limit

rtt_on_timeout(r) ==
    [r EXCEPT !.rto = IF 2 * @ > MaxRto THEN MaxRto ELSE 2 * @]

-----------------------------------------------------------------------------
Init == rtt = rtt_init /\ lowest = 0 /\ highest = 0

UpdateSample(sample) ==
    /\ rtt' = rtt_update_sample(rtt, sample)
    /\ lowest' = IF ~rtt.has_sample \/ sample < lowest THEN sample ELSE lowest
    /\ highest' = IF ~rtt.has_sample \/ sample > highest THEN sample ELSE highest

OnTimeout == rtt' = rtt_on_timeout(rtt) /\ UNCHANGED <<lowest, highest>>

Next == (\E sample \in Samples : UpdateSample(sample)) \/ OnTimeout

Spec == Init /\ [][Next]_vars

-----------------------------------------------------------------------------
(* Properties *)

TypeOK ==
    /\ rtt \in [rto : Nat, srtt : Nat, rttvar : Nat, has_sample : BOOLEAN]
    /\ lowest \in Nat /\ highest \in Nat

\* Whatever the samples and timeouts, the timer stays within its bounds: it
\* never spins and never grows without limit.
RtoBounded == rtt.rto \in MinRto .. MaxRto

\* Rounding down does not make the estimate drift: it stays within the range
\* of the samples, and the variation within its width (never 0).
EstimateInRange ==
    rtt.has_sample =>
        /\ rtt.srtt \in lowest .. highest
        /\ rtt.rttvar \in 1 .. AtLeastOne(highest)

\* The timer never fires below the smoothed round trip unless the bound
\* MaxRto forces it to.
RtoAboveEstimate ==
    rtt.has_sample => rtt.rto > rtt.srtt \/ rtt.rto = MaxRto
=============================================================================
