------------------------------- MODULE SeqNum -------------------------------
(***************************************************************************)
(* Sequence numbers: uint32_t counters that wrap, compared through the     *)
(* sign of their 32-bit difference (src/src/core/rel4u_window.h).          *)
(* SeqMod is the number of sequence numbers, 2^32 in the code.             *)
(***************************************************************************)
EXTENDS Integers

CONSTANT SeqMod

ASSUME SeqModAssumption == SeqMod \in Nat /\ SeqMod > 1 /\ SeqMod % 2 = 0

SeqSpace == 0 .. (SeqMod - 1)

\* Unsigned addition of a small integer, negative ones included (seq - 1).
seq_add(a, n) == (a + n) % SeqMod

\* (int32_t)(a - b): the residue of a - b, read as a two's complement number.
seq_diff(a, b) ==
    LET d == (a - b) % SeqMod
    IN  IF d < SeqMod \div 2 THEN d ELSE d - SeqMod

seq_lt(a, b)  == seq_diff(a, b) < 0
seq_lte(a, b) == seq_diff(a, b) <= 0
seq_gt(a, b)  == seq_diff(a, b) > 0
seq_gte(a, b) == seq_diff(a, b) >= 0

=============================================================================
