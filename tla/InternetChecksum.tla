-------------------------- MODULE InternetChecksum --------------------------
(***************************************************************************)
(* calculate_checksum of the packet generators (sw/ludp_host_fifo.py and,  *)
(* word for word, sw/ludp_host_dpi.py) as the loop it is: pad, add up the  *)
(* big-endian words, fold the carries back, complement.                    *)
(***************************************************************************)
EXTENDS Integers, Sequences

CONSTANT BYTE       \* values of a byte (256)

ASSUME ByteAssumption == BYTE \in Nat /\ BYTE >= 2

WORD == BYTE * BYTE
Bytes == 0 .. BYTE - 1

VARIABLES
  ck_pc,            \* "idle", "sum", "fold", "done"
  data, i,          \* the (padded) argument and the loop index
  checksum,
  total, folds      \* history: the unfolded sum; multiples of WORD - 1 folded away

ckVars == <<ck_pc, data, i, checksum, total, folds>>

CkInit == ck_pc = "idle" /\ data = <<>> /\ i = 0 /\ checksum = 0 /\ total = 0 /\ folds = 0

\* The call, with a zero byte added to an odd number of bytes.
Call(d) ==
  /\ ck_pc \in {"idle", "done"}
  /\ ck_pc' = "sum"
  /\ data' = IF Len(d) % 2 = 1 THEN Append(d, 0) ELSE d
  /\ i' = 0 /\ checksum' = 0 /\ total' = 0 /\ folds' = 0

WordAt(d, k) == d[k + 1] * BYTE + d[k + 2]

AddWord ==
  /\ ck_pc = "sum" /\ i < Len(data)
  /\ checksum' = checksum + WordAt(data, i)
  /\ total' = total + WordAt(data, i)
  /\ i' = i + 2
  /\ UNCHANGED <<ck_pc, data, folds>>

EndOfSum ==
  /\ ck_pc = "sum" /\ i >= Len(data)
  /\ ck_pc' = "fold"
  /\ UNCHANGED <<data, i, checksum, total, folds>>

\* Mutant: the carry is cut off instead of added.
FoldDropCarry ==
  /\ ck_pc = "fold" /\ checksum >= WORD
  /\ checksum' = checksum % WORD
  /\ folds' = folds + (checksum \div WORD)
  /\ UNCHANGED <<ck_pc, data, i, total>>

Fold ==
  /\ ck_pc = "fold" /\ checksum >= WORD
  /\ checksum' = (checksum % WORD) + (checksum \div WORD)
  /\ folds' = folds + (checksum \div WORD)
  /\ UNCHANGED <<ck_pc, data, i, total>>

\* return ~checksum & 0xFFFF
Return ==
  /\ ck_pc = "fold" /\ checksum < WORD
  /\ ck_pc' = "done"
  /\ checksum' = WORD - 1 - checksum
  /\ UNCHANGED <<data, i, total, folds>>

CkStep == AddWord \/ EndOfSum \/ Fold \/ Return

CkNext == (\E d \in Seq(Bytes) : Call(d)) \/ CkStep

CkSpec == CkInit /\ [][CkNext]_ckVars

-----------------------------------------------------------------------------
CkTypeOK ==
  /\ ck_pc \in {"idle", "sum", "fold", "done"}
  /\ data \in Seq(Bytes) /\ Len(data) % 2 = 0
  /\ i \in Nat /\ i % 2 = 0
  /\ checksum \in Nat /\ total \in Nat /\ folds \in Nat

\* What folding takes away are multiples of WORD - 1, and nothing else is lost.
FoldsAccounted ==
  /\ ck_pc \in {"sum", "fold"} => checksum + (WORD - 1) * folds = total
  /\ ck_pc = "done" => checksum < WORD /\ total + checksum = (WORD - 1) * (folds + 1)

\* The receiver's test: the words of the data and the checksum add up to a
\* positive multiple of WORD - 1, which is what their one's complement sum being
\* all ones means, however many carries calculate_checksum had to fold.
ChecksumVerifies ==
  ck_pc = "done" => total + checksum > 0 /\ (total + checksum) % (WORD - 1) = 0
=============================================================================
