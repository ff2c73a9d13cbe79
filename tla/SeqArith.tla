------------------------------ MODULE SeqArith ------------------------------
(***************************************************************************)
(* The fixed-width sequence arithmetic every part of LUDP relies on.  In   *)
(* the hardware a sequence number is a 32-bit register, so HALF_SEQ is     *)
(* 2^31; the models shrink the width, which makes wrap-around reachable.   *)
(***************************************************************************)
EXTENDS Integers

CONSTANT HALF_SEQ       \* half the number of sequence values (2^31 in the RTL)

ASSUME HalfSeqAssumption == HALF_SEQ \in Nat /\ HALF_SEQ >= 2

SEQ_MOD == 2 * HALF_SEQ

SeqNums == 0 .. SEQ_MOD - 1

\* The register value that stands for the unbounded count n.
WrapSeq(n) == n % SEQ_MOD

\* Mutant: the increment is kept one bit too wide.
SeqIncNoWrap(s) == s + 1

\* seq_num_reg + 1, truncated to the register's width.
SeqInc(s) == IF s = SEQ_MOD - 1 THEN 0 ELSE s + 1

\* a - b, truncated to the register's width.
SeqSub(a, b) == IF a >= b THEN a - b ELSE (a - b) + SEQ_MOD

\* $signed(a - b) > 0 : the RFC 793 SEQ_GT test of the RTL.
SeqGT(a, b) == SeqSub(a, b) \in 1 .. HALF_SEQ - 1
=============================================================================
