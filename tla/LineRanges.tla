----------------------------- MODULE LineRanges -----------------------------
(***************************************************************************)
(* The loop of tb/coverage_report.py that compresses the uncovered lines   *)
(* of a file into ranges.  sorted(set(...)) is the set, walked upwards.    *)
(***************************************************************************)
EXTENDS Integers, Sequences

VARIABLES lr_pc, lines, rest, start, prev, ranges

lrVars == <<lr_pc, lines, rest, start, prev, ranges>>

LrInit ==
  lr_pc = "idle" /\ lines = {} /\ rest = {} /\ start = 0 /\ prev = 0 /\ ranges = <<>>

IsFirst(l, S) == l \in S /\ \A k \in S : l <= k

\* ranges = [], and start and prev at the first line if there is one.
Begin(S) ==
  /\ lr_pc \in {"idle", "done"}
  /\ lines' = S /\ ranges' = <<>>
  /\ \/ S = {} /\ lr_pc' = "done" /\ rest' = {} /\ UNCHANGED <<start, prev>>
     \/ \E l \in S : /\ IsFirst(l, S)
                     /\ lr_pc' = "loop" /\ rest' = S \ {l} /\ start' = l /\ prev' = l

\* Mutant: one missing line does not end a range.
NextLineGap ==
  /\ lr_pc = "loop"
  /\ \E l \in rest :
       /\ IsFirst(l, rest)
       /\ IF l - prev > 2 THEN ranges' = Append(ranges, <<start, prev>>) /\ start' = l
                          ELSE UNCHANGED <<ranges, start>>
       /\ prev' = l /\ rest' = rest \ {l}
  /\ UNCHANGED <<lr_pc, lines>>

NextLine ==
  /\ lr_pc = "loop"
  /\ \E l \in rest :
       /\ IsFirst(l, rest)
       /\ IF l - prev > 1 THEN ranges' = Append(ranges, <<start, prev>>) /\ start' = l
                          ELSE UNCHANGED <<ranges, start>>
       /\ prev' = l /\ rest' = rest \ {l}
  /\ UNCHANGED <<lr_pc, lines>>

LastRange ==
  /\ lr_pc = "loop" /\ rest = {}
  /\ ranges' = Append(ranges, <<start, prev>>)
  /\ lr_pc' = "done"
  /\ UNCHANGED <<lines, rest, start, prev>>

LrStep == NextLine \/ LastRange
LrNext == (\E S \in SUBSET Nat : Begin(S)) \/ LrStep
LrSpec == LrInit /\ [][LrNext]_lrVars

-----------------------------------------------------------------------------
Covered(rs) == UNION {rs[k][1] .. rs[k][2] : k \in 1 .. Len(rs)}

\* Every range is one, and a gap separates it from the next.
Separate(rs) ==
  /\ \A k \in 1 .. Len(rs) : rs[k][1] <= rs[k][2]
  /\ \A j, k \in 1 .. Len(rs) : j < k => rs[j][2] + 1 < rs[k][1]

\* The ranges in print are exactly the uncovered lines, in ascending order, and no
\* two of them could have been one: wherever the lines lie, nothing uncovered is
\* left out and nothing covered is reported.
RangesExact ==
  lr_pc = "done" => Covered(ranges) = lines /\ Separate(ranges)

\* Its strengthening: the open range start .. prev takes part before it is appended.
LrInv ==
  /\ lr_pc \in {"idle", "loop", "done"}
  /\ lines \in SUBSET Nat /\ rest \subseteq lines /\ ranges \in Seq(Nat \X Nat)
  /\ start \in Nat /\ prev \in Nat
  /\ lr_pc = "loop" =>
       /\ start <= prev /\ Separate(ranges)
       /\ Covered(ranges) \cup (start .. prev) = lines \ rest
       /\ \A l \in rest : prev < l
       /\ \A k \in 1 .. Len(ranges) : ranges[k][2] + 1 < start
  /\ RangesExact
=============================================================================
