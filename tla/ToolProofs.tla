----------------------------- MODULE ToolProofs -----------------------------
(***************************************************************************)
(* The programs beside ludp_host.py do what they are for on every input:   *)
(* calculate_checksum and the line ranges of the coverage report; the      *)
(* testbench is fed the packets of one run of the generator, and each is   *)
(* well formed; the socket bridge neither loses nor invents a packet; and  *)
(* the coverage report counts every entry once.                            *)
(***************************************************************************)
EXTENDS PacketGen, DpiSocket, CoverageReport, FoldProofs

-----------------------------------------------------------------------------
\* The checksum.

LEMMA WordFact == WORD \in Nat /\ WORD >= 4
<1>1. ASSUME NEW b \in Nat, b >= 2 PROVE b * b \in Nat /\ b * b >= 4
  BY <1>1
<1>. QED BY <1>1, ByteAssumption DEF WORD

\* A folded carry takes a multiple of WORD - 1 away from the sum.
LEMMA FoldFact ==
  ASSUME NEW s \in Nat, NEW f \in Nat
  PROVE  /\ s % WORD \in Nat /\ s \div WORD \in Nat
         /\ (s % WORD) + (s \div WORD) + (WORD - 1) * (f + (s \div WORD))
              = s + (WORD - 1) * f
<1>1. ASSUME NEW W \in Nat, W >= 4
      PROVE  /\ s \div W \in Nat /\ s % W \in Nat
             /\ s = W * (s \div W) + (s % W)
  BY <1>1
<1>2. ASSUME NEW W \in Nat, NEW q \in Nat, NEW r \in Nat
      PROVE  r + q + (W - 1) * (f + q) = W * q + r + (W - 1) * f
  <2>1. (W - 1) * (f + q) = (W - 1) * f + (W - 1) * q
    OBVIOUS
  <2>2. (W - 1) * q = W * q - q
    OBVIOUS
  <2>. QED BY <2>1, <2>2, <1>2
<1>3. s \div WORD \in Nat /\ s % WORD \in Nat /\ s = WORD * (s \div WORD) + (s % WORD)
  BY <1>1, WordFact
<1>4. (s % WORD) + (s \div WORD) + (WORD - 1) * (f + (s \div WORD))
        = WORD * (s \div WORD) + (s % WORD) + (WORD - 1) * f
  BY <1>2, <1>3, WordFact
<1>. QED BY <1>3, <1>4

\* A multiple of k leaves no remainder.
LEMMA MultipleMod ==
  ASSUME NEW k \in Nat, k > 0, NEW q \in Nat
  PROVE  (k * q) % k = 0
<1>. DEFINE n == k * q  d == n \div k  r == n % k
<1>1. n \in Nat
  OBVIOUS
<1>2. ASSUME NEW m \in Nat PROVE m \div k \in Nat /\ m % k \in 0 .. k - 1 /\ m = k * (m \div k) + (m % k)
  OBVIOUS
<1>3. d \in Nat /\ r \in 0 .. k - 1 /\ k * q = k * d + r
  BY <1>1, <1>2
<1>. HIDE DEF d, r
<1>4. k * (q - d) = r
  <2>1. k * (q - d) = k * q - k * d
    BY <1>3
  <2>. QED BY <1>1, <1>3, <2>1
<1>5. q - d >= 1 => k * (q - d) >= k
  BY <1>3
<1>6. q - d <= -1 => k * (q - d) <= -k
  BY <1>3
<1>7. q - d = 0
  BY <1>3, <1>4, <1>5, <1>6
<1>8. r = 0
  BY <1>3, <1>4, <1>7
<1>. QED BY <1>8 DEF r

\* The word at an even index of an even number of bytes.
LEMMA WordAtFact ==
  ASSUME NEW d \in Seq(Bytes), Len(d) % 2 = 0, NEW k \in Nat, k % 2 = 0, k < Len(d)
  PROVE  WordAt(d, k) \in Nat
<1>1. k + 1 \in 1 .. Len(d) /\ k + 2 \in 1 .. Len(d)
  OBVIOUS
<1>2. d[k + 1] \in Nat /\ d[k + 2] \in Nat
  BY <1>1, ByteAssumption DEF Bytes
<1>3. ASSUME NEW a \in Nat, NEW b \in Nat, NEW c \in Nat PROVE a * c + b \in Nat
  OBVIOUS
<1>. QED BY <1>2, <1>3, ByteAssumption DEF WordAt

CkInv == CkTypeOK /\ FoldsAccounted

LEMMA CkInvInductive ==
  ASSUME CkInv, [CkNext]_ckVars
  PROVE  CkInv'
<1>. USE DEF CkInv
<1>1. CASE \E d \in Seq(Bytes) : Call(d)
  <2>. PICK d \in Seq(Bytes) : Call(d)
    BY <1>1
  <2>1. data' \in Seq(Bytes) /\ Len(data') % 2 = 0
    <3>1. 0 \in Bytes
      BY ByteAssumption DEF Bytes
    <3>2. CASE Len(d) % 2 = 1
      <4>1. data' = Append(d, 0)
        BY <3>2 DEF Call
      <4>2. Append(d, 0) \in Seq(Bytes) /\ Len(Append(d, 0)) = Len(d) + 1
        BY <3>1
      <4>. QED BY <3>2, <4>1, <4>2
    <3>3. CASE Len(d) % 2 /= 1
      BY <3>3 DEF Call
    <3>. QED BY <3>2, <3>3
  <2>2. (WORD - 1) * 0 = 0
    BY WordFact
  <2>3. ck_pc' = "sum" /\ i' = 0 /\ checksum' = 0 /\ total' = 0 /\ folds' = 0
    BY DEF Call
  <2>4. CkTypeOK'
    BY <2>1, <2>3 DEF CkTypeOK
  <2>5. FoldsAccounted'
    BY <2>2, <2>3, WordFact DEF FoldsAccounted, WORD
  <2>. QED BY <2>4, <2>5
<1>2. CASE AddWord
  <2>1. WordAt(data, i) \in Nat
    BY <1>2, WordAtFact DEF AddWord, CkTypeOK
  <2>2. (WORD - 1) * folds \in Int
    BY WordFact DEF CkTypeOK
  <2>3. CkTypeOK'
    BY <1>2, <2>1 DEF AddWord, CkTypeOK
  <2>4. FoldsAccounted'
    BY <1>2, <2>1, <2>2 DEF AddWord, CkTypeOK, FoldsAccounted
  <2>. QED BY <2>3, <2>4
<1>3. CASE EndOfSum
  BY <1>3 DEF EndOfSum, CkTypeOK, FoldsAccounted
<1>4. CASE Fold
  <2>1. /\ checksum % WORD \in Nat /\ checksum \div WORD \in Nat
        /\ (checksum % WORD) + (checksum \div WORD) + (WORD - 1) * (folds + (checksum \div WORD))
             = checksum + (WORD - 1) * folds
    BY FoldFact DEF CkTypeOK
  <2>2. CkTypeOK'
    BY <1>4, <2>1 DEF Fold, CkTypeOK
  <2>3. FoldsAccounted'
    BY <1>4, <2>1 DEF Fold, CkTypeOK, FoldsAccounted
  <2>. QED BY <2>2, <2>3
<1>5. CASE Return
  <2>1. (WORD - 1) * (folds + 1) = (WORD - 1) * folds + (WORD - 1)
    BY WordFact DEF CkTypeOK
  <2>2. (WORD - 1) * folds \in Int
    BY WordFact DEF CkTypeOK
  <2>3. CkTypeOK'
    BY <1>5, WordFact DEF Return, CkTypeOK
  <2>4. FoldsAccounted'
    BY <1>5, <2>1, <2>2, WordFact DEF Return, CkTypeOK, FoldsAccounted
  <2>. QED BY <2>3, <2>4
<1>6. CASE UNCHANGED ckVars
  BY <1>6 DEF ckVars, CkTypeOK, FoldsAccounted
<1>. QED BY <1>1, <1>2, <1>3, <1>4, <1>5, <1>6 DEF CkNext, CkStep

\* calculate_checksum is right for every byte string: whatever carries the sum has,
\* the words and the value it returns add up to a positive multiple of WORD - 1,
\* which a receiver of the header or the ICMP message checks.
THEOREM ChecksumCorrect == CkSpec => []ChecksumVerifies
<1>1. CkInit => CkInv
  BY ByteAssumption DEF CkInit, CkInv, CkTypeOK, FoldsAccounted, Bytes
<1>2. CkInv /\ [CkNext]_ckVars => CkInv'
  BY CkInvInductive
<1>3. CkInv => ChecksumVerifies
  <2>. SUFFICES ASSUME CkInv, ck_pc = "done"
                PROVE  total + checksum > 0 /\ (total + checksum) % (WORD - 1) = 0
    BY DEF ChecksumVerifies
  <2>1. total + checksum = (WORD - 1) * (folds + 1) /\ folds + 1 \in Nat /\ folds + 1 >= 1
    BY DEF CkInv, CkTypeOK, FoldsAccounted
  <2>2. ASSUME NEW k \in Nat, NEW q \in Nat, k > 0, q >= 1 PROVE k * q > 0
    BY <2>2
  <2>3. WORD - 1 \in Nat /\ WORD - 1 > 0
    BY WordFact
  <2>. QED BY <2>1, <2>2, <2>3, MultipleMod
<1>. QED BY <1>1, <1>2, <1>3, PTL DEF CkSpec

-----------------------------------------------------------------------------
\* The line ranges.

\* A range appended to the list adds its lines.
LEMMA CoveredAppend ==
  ASSUME NEW rs \in Seq(Nat \X Nat), NEW a \in Nat, NEW b \in Nat
  PROVE  /\ Append(rs, <<a, b>>) \in Seq(Nat \X Nat)
         /\ Covered(Append(rs, <<a, b>>)) = Covered(rs) \cup (a .. b)
<1>. DEFINE t == Append(rs, <<a, b>>)
<1>1. t \in Seq(Nat \X Nat) /\ Len(t) = Len(rs) + 1 /\ Len(rs) \in Nat
  OBVIOUS
<1>2. t[Len(rs) + 1] = <<a, b>> /\ \A k \in 1 .. Len(rs) : t[k] = rs[k]
  OBVIOUS
<1>. HIDE DEF t
<1>3. ASSUME NEW x PROVE x \in Covered(t) <=> x \in Covered(rs) \cup (a .. b)
  <2>1. x \in Covered(t) <=> \E k \in 1 .. Len(rs) + 1 : x \in t[k][1] .. t[k][2]
    BY <1>1 DEF Covered
  <2>2. x \in Covered(rs) <=> \E k \in 1 .. Len(rs) : x \in rs[k][1] .. rs[k][2]
    BY DEF Covered
  <2>3. 1 .. Len(rs) + 1 = (1 .. Len(rs)) \cup {Len(rs) + 1}
    BY <1>1
  <2>4. t[Len(rs) + 1][1] = a /\ t[Len(rs) + 1][2] = b
    BY <1>2
  <2>. QED BY <1>2, <2>1, <2>2, <2>3, <2>4
<1>4. Covered(t) = Covered(rs) \cup (a .. b)
  BY <1>3
<1>. QED BY <1>1, <1>4 DEF t

\* It keeps the ranges separate if it begins beyond the gap after the last.
LEMMA SeparateAppend ==
  ASSUME NEW rs \in Seq(Nat \X Nat), NEW a \in Nat, NEW b \in Nat, Separate(rs), a <= b,
         \A k \in 1 .. Len(rs) : rs[k][2] + 1 < a
  PROVE  Separate(Append(rs, <<a, b>>))
<1>. DEFINE t == Append(rs, <<a, b>>)
<1>1. Len(t) = Len(rs) + 1 /\ Len(rs) \in Nat
  OBVIOUS
<1>2. t[Len(rs) + 1][1] = a /\ t[Len(rs) + 1][2] = b /\ \A k \in 1 .. Len(rs) : t[k] = rs[k]
  OBVIOUS
<1>. HIDE DEF t
<1>3. ASSUME NEW k \in 1 .. Len(t) PROVE t[k][1] <= t[k][2]
  <2>1. CASE k = Len(rs) + 1
    BY <1>2, <2>1
  <2>2. CASE k \in 1 .. Len(rs)
    BY <1>2, <2>2 DEF Separate
  <2>. QED BY <1>1, <2>1, <2>2
<1>4. ASSUME NEW j \in 1 .. Len(t), NEW k \in 1 .. Len(t), j < k PROVE t[j][2] + 1 < t[k][1]
  <2>1. j \in 1 .. Len(rs) /\ t[j] = rs[j]
    BY <1>1, <1>2, <1>4
  <2>2. CASE k = Len(rs) + 1
    BY <1>2, <2>1, <2>2
  <2>3. CASE k \in 1 .. Len(rs)
    BY <1>2, <1>4, <2>1, <2>3 DEF Separate
  <2>. QED BY <1>1, <2>2, <2>3
<1>5. Separate(t)
  BY <1>3, <1>4 DEF Separate
<1>. QED BY <1>5 DEF t

LEMMA NoRanges == Covered(<<>>) = {} /\ Separate(<<>>) /\ <<>> \in Seq(Nat \X Nat)
  BY DEF Covered, Separate

LEMMA BeginKeeps ==
  ASSUME LrInv, NEW S \in SUBSET Nat, Begin(S)
  PROVE  LrInv'
<1>1. lines' = S /\ ranges' = <<>>
  BY DEF Begin
<1>2. CASE S = {} /\ lr_pc' = "done" /\ rest' = {} /\ UNCHANGED <<start, prev>>
  BY <1>1, <1>2, NoRanges DEF LrInv, RangesExact
<1>3. ASSUME NEW l \in S, IsFirst(l, S),
             lr_pc' = "loop", rest' = S \ {l}, start' = l, prev' = l
      PROVE  LrInv'
  <2>1. l \in Nat /\ (l .. l) = {l}
    OBVIOUS
  <2>2. \A k \in S \ {l} : l < k
    BY <1>3 DEF IsFirst
  <2>3. {} \cup {l} = S \ (S \ {l})
    OBVIOUS
  <2>4. \A k \in 1 .. Len(ranges') : ranges'[k][2] + 1 < start'
    BY <1>1
  <2>. QED BY <1>1, <1>3, <2>1, <2>2, <2>3, <2>4, NoRanges DEF LrInv, RangesExact
<1>. QED BY <1>2, <1>3 DEF Begin

\* The next line either continues the open range or closes it and opens another.
LEMMA NextLineKeeps ==
  ASSUME LrInv, NextLine
  PROVE  LrInv'
<1>. PICK l \in rest :
       /\ IsFirst(l, rest)
       /\ IF l - prev > 1 THEN ranges' = Append(ranges, <<start, prev>>) /\ start' = l
                          ELSE UNCHANGED <<ranges, start>>
       /\ prev' = l /\ rest' = rest \ {l}
  BY DEF NextLine
<1>1. lr_pc = "loop" /\ lr_pc' = "loop" /\ lines' = lines
  BY DEF NextLine
<1>2. l \in Nat /\ prev < l /\ \A k \in rest \ {l} : l < k
  BY <1>1 DEF LrInv, IsFirst
<1>3. lines \ (rest \ {l}) = (lines \ rest) \cup {l}
  BY DEF LrInv
<1>4. CASE l - prev > 1
  <2>0. ranges' = Append(ranges, <<start, prev>>) /\ start' = l
    BY <1>4
  <2>1. /\ ranges' \in Seq(Nat \X Nat)
        /\ Covered(ranges') = Covered(ranges) \cup (start .. prev)
    BY <2>0, CoveredAppend DEF LrInv
  <2>2. Separate(ranges')
    BY <1>1, <2>0, SeparateAppend DEF LrInv
  <2>3. Covered(ranges') \cup (start' .. prev') = lines' \ rest'
    <3>1. start' .. prev' = {l}
      BY <1>2, <1>4
    <3>. QED BY <1>1, <1>3, <2>1, <3>1 DEF LrInv
  <2>4. \A k \in 1 .. Len(ranges') : ranges'[k][2] + 1 < start'
    <3>1. /\ Len(ranges') = Len(ranges) + 1 /\ Len(ranges) \in Nat
          /\ ranges'[Len(ranges) + 1][2] = prev
          /\ \A k \in 1 .. Len(ranges) : ranges'[k] = ranges[k] /\ ranges[k][2] \in Nat
      BY <2>0 DEF LrInv
    <3>2. \A k \in 1 .. Len(ranges) : ranges[k][2] + 1 < start /\ start <= prev
      BY <1>1 DEF LrInv
    <3>3. start \in Nat /\ prev \in Nat /\ start' = l /\ prev + 1 < l
      BY <1>2, <1>4, <2>0 DEF LrInv
    <3>4. ASSUME NEW k \in 1 .. Len(ranges) PROVE ranges'[k][2] + 1 < start'
      <4>1. ranges'[k][2] = ranges[k][2] /\ ranges[k][2] \in Nat
        BY <3>1
      <4>2. ranges[k][2] + 1 < start /\ start <= prev
        BY <3>2
      <4>3. start' = l /\ l \in Nat
        BY <1>2, <3>3
      <4>. QED BY <3>3, <4>1, <4>2, <4>3
    <3>. QED BY <3>1, <3>3, <3>4
  <2>5. start' \in Nat /\ prev' \in Nat /\ start' <= prev' /\ rest' \subseteq lines'
    BY <1>1, <1>2, <1>4 DEF LrInv
  <2>6. \A k \in rest' : prev' < k
    BY <1>2
  <2>. QED BY <1>1, <2>1, <2>2, <2>3, <2>4, <2>5, <2>6 DEF LrInv, RangesExact
<1>5. CASE ~(l - prev > 1)
  <2>1. l = prev + 1 /\ ranges' = ranges /\ start' = start
    BY <1>2, <1>5 DEF LrInv
  <2>2. start' .. prev' = (start .. prev) \cup {l}
    BY <1>1, <2>1 DEF LrInv
  <2>3. Covered(ranges') \cup (start' .. prev') = lines' \ rest'
    BY <1>1, <1>3, <2>1, <2>2 DEF LrInv
  <2>4. start' \in Nat /\ prev' \in Nat /\ start' <= prev' /\ rest' \subseteq lines'
    BY <1>1, <1>2, <2>1 DEF LrInv
  <2>5. \A k \in rest' : prev' < k
    BY <1>2
  <2>. QED BY <1>1, <2>1, <2>3, <2>4, <2>5 DEF LrInv, RangesExact
<1>. QED BY <1>4, <1>5

LEMMA LastRangeKeeps ==
  ASSUME LrInv, LastRange
  PROVE  LrInv'
<1>1. /\ lr_pc = "loop" /\ lr_pc' = "done" /\ rest = {} /\ ranges' = Append(ranges, <<start, prev>>)
      /\ UNCHANGED <<lines, rest, start, prev>>
  BY DEF LastRange
<1>2. /\ ranges' \in Seq(Nat \X Nat)
      /\ Covered(ranges') = Covered(ranges) \cup (start .. prev)
  BY <1>1, CoveredAppend DEF LrInv
<1>3. Separate(ranges')
  BY <1>1, SeparateAppend DEF LrInv
<1>4. Covered(ranges') = lines'
  BY <1>1, <1>2 DEF LrInv
<1>. QED BY <1>1, <1>2, <1>3, <1>4 DEF LrInv, RangesExact

\* The coverage report lists exactly the uncovered lines of a file, as maximal ranges
\* in ascending order, for every set of lines.
THEOREM RangesCorrect == LrSpec => []RangesExact
<1>1. LrInit => LrInv
  BY NoRanges DEF LrInit, LrInv, RangesExact
<1>2. LrInv /\ [LrNext]_lrVars => LrInv'
  <2>. SUFFICES ASSUME LrInv, [LrNext]_lrVars PROVE LrInv'
    OBVIOUS
  <2>1. CASE UNCHANGED lrVars
    BY <2>1 DEF lrVars, LrInv, RangesExact
  <2>. QED BY <2>1, BeginKeeps, NextLineKeeps, LastRangeKeeps DEF LrNext, LrStep
<1>3. LrInv => RangesExact
  BY DEF LrInv
<1>. QED BY <1>1, <1>2, <1>3, PTL DEF LrSpec

-----------------------------------------------------------------------------
\* The packet file.

Sequence(s) == s \in Seq({s[k] : k \in 1 .. Len(s)})

\* A complete list of an earlier run, the truncated file of one under way, or none.
FileInv == file = {} \/ file = {<<>>} \/ \E w \in written : file = {w}

FeedInv ==
  /\ Sequence(packets) /\ \A w \in written : Sequence(w)
  /\ FileInv
  /\ dpi = [initialized |-> dpi.initialized, packet_data |-> dpi.packet_data,
            current_packet |-> dpi.current_packet]
  /\ ~dpi.initialized => fed = <<>> /\ dpi.current_packet = 1
  /\ dpi.initialized =>
       /\ dpi.packet_data = <<ArpFrame>> \/ \E w \in written : dpi.packet_data = FirstPackets(w)
       /\ Sequence(dpi.packet_data)
       /\ dpi.current_packet \in 1 .. Len(dpi.packet_data) + 1
       /\ fed = SubSeq(dpi.packet_data, 1, dpi.current_packet - 1)

LEMMA SequenceOf == ASSUME NEW S, NEW s \in Seq(S) PROVE Sequence(s)
  BY DEF Sequence

LEMMA SequenceAppend == ASSUME NEW s, Sequence(s), NEW e PROVE Sequence(Append(s, e))
<1>. DEFINE T == {s[k] : k \in 1 .. Len(s)} \cup {e}
<1>1. s \in Seq(T)
  BY DEF Sequence
<1>2. Append(s, e) \in Seq(T)
  BY <1>1, AppendProperties
<1>. QED BY <1>2, SequenceOf

\* What is loaded is again a list, and one frame more is fed with every step.
LEMMA FirstPacketsSequence == ASSUME NEW s, Sequence(s) PROVE Sequence(FirstPackets(s))
<1>. DEFINE T == {s[k] : k \in 1 .. Len(s)}
            n == IF Len(s) > MAX_PACKETS THEN MAX_PACKETS ELSE Len(s)
<1>1. s \in Seq(T) /\ Len(s) \in Nat /\ n \in 0 .. Len(s)
  BY PacketGenAssumption DEF Sequence
<1>2. SubSeq(s, 1, n) \in Seq(T)
  <2>1. \A k \in 1 .. n : s[k] \in T
    BY <1>1
  <2>. QED BY <1>1, <2>1, SubSeqProperties
<1>. QED BY <1>2, SequenceOf DEF FirstPackets

LEMMA FeedOne ==
  ASSUME NEW s, Sequence(s), NEW k \in 1 .. Len(s)
  PROVE  Append(SubSeq(s, 1, k - 1), s[k]) = SubSeq(s, 1, k)
<1>. DEFINE T == {s[n] : n \in 1 .. Len(s)}
<1>1. s \in Seq(T) /\ Len(s) \in Nat /\ s[k] \in T
  BY DEF Sequence
<1>2. SubSeq(s, 1, k - 1) \in Seq(T)
  <2>1. \A n \in 1 .. k - 1 : s[n] \in T
    BY <1>1
  <2>. QED BY <1>1, <2>1, SubSeqProperties
<1>3. SubSeq(s, 1, k) = SubSeq(s, 1, k - 1) \o <<s[k]>>
  BY <1>1, SubSeqRecursiveSecond
<1>. QED BY <1>1, <1>2, <1>3, AppendIsConcat

\* What the file holds when the testbench looks is a list of one run, or nothing.
LEMMA DpiInitFeeds == ASSUME FeedInv, DpiInit PROVE FeedInv'
<1>1. /\ ~dpi.initialized /\ dpi'.initialized /\ dpi'.current_packet = 1
      /\ dpi'.packet_data = (IF Loaded \subseteq {<<>>} THEN <<ArpFrame>>
                             ELSE CHOOSE s \in Loaded : TRUE)
      /\ dpi' = [initialized |-> dpi'.initialized, packet_data |-> dpi'.packet_data,
                 current_packet |-> dpi'.current_packet]
      /\ UNCHANGED <<packets, written, file, fed>>
  BY DEF DpiInit
<1>2. fed = <<>>
  BY <1>1 DEF FeedInv
<1>3. /\ dpi'.packet_data = <<ArpFrame>> \/ \E w \in written : dpi'.packet_data = FirstPackets(w)
      /\ Sequence(dpi'.packet_data)
  <2>1. CASE Loaded \subseteq {<<>>}
    <3>1. <<ArpFrame>> \in Seq({ArpFrame})
      OBVIOUS
    <3>. QED BY <1>1, <2>1, <3>1, SequenceOf
  <2>2. CASE ~(Loaded \subseteq {<<>>})
    <3>1. dpi'.packet_data \in Loaded
      BY <1>1, <2>2
    <3>2. file /= {}
      BY <2>2 DEF Loaded
    <3>3. file /= {<<>>}
      <4>1. FirstPackets(<<>>) = <<>>
        <5>1. Len(<<>>) = 0 /\ ~(0 > MAX_PACKETS)
          BY PacketGenAssumption
        <5>. QED BY <5>1, SubSeqEmpty DEF FirstPackets
      <4>. QED BY <2>2, <4>1 DEF Loaded
    <3>4. PICK w \in written : file = {w}
      BY <3>2, <3>3 DEF FeedInv, FileInv
    <3>5. dpi'.packet_data = FirstPackets(w)
      BY <3>1, <3>4 DEF Loaded
    <3>6. Sequence(w)
      BY <3>4 DEF FeedInv
    <3>. QED BY <3>4, <3>5, <3>6, FirstPacketsSequence
  <2>. QED BY <2>1, <2>2
<1>4. Len(dpi'.packet_data) \in Nat /\ SubSeq(dpi'.packet_data, 1, 0) = <<>>
  BY <1>3, SubSeqEmpty, LenProperties DEF Sequence
<1>. QED BY <1>1, <1>2, <1>3, <1>4 DEF FeedInv, FileInv

LEMMA DpiFeedFeeds == ASSUME FeedInv, DpiFeed PROVE FeedInv'
<1>. DEFINE s == dpi.packet_data
            k == dpi.current_packet
<1>1. /\ dpi.initialized /\ k \in 1 .. Len(s) /\ Sequence(s) /\ Len(s) \in Nat
      /\ fed = SubSeq(s, 1, k - 1) /\ fed' = Append(fed, s[k])
  BY LenProperties DEF DpiFeed, FeedInv, Sequence
<1>2. /\ dpi' = [initialized |-> dpi.initialized, packet_data |-> s, current_packet |-> k + 1]
      /\ UNCHANGED <<packets, written, file>>
  BY DEF DpiFeed, FeedInv
<1>3. fed' = SubSeq(s, 1, k)
  BY <1>1, FeedOne
<1>4. dpi'.initialized = dpi.initialized /\ dpi'.packet_data = s /\ dpi'.current_packet = k + 1
  BY <1>2
<1>5. k + 1 \in 1 .. Len(s) + 1 /\ (k + 1) - 1 = k
  BY <1>1
<1>. QED BY <1>1, <1>2, <1>3, <1>4, <1>5 DEF FeedInv, FileInv

LEMMA FeedStep == FeedInv /\ [GenNext]_genVars => FeedInv'
<1>. SUFFICES ASSUME FeedInv, [GenNext]_genVars PROVE FeedInv'
  OBVIOUS
<1>1. ASSUME UNCHANGED <<packets, written, file, dpi, fed>> PROVE FeedInv'
  BY <1>1 DEF FeedInv, FileInv
<1>2. ASSUME Sequence(packets'), UNCHANGED <<written, file, dpi, fed>> PROVE FeedInv'
  BY <1>2 DEF FeedInv, FileInv
<1>3. ASSUME NEW f, FrameDone(f), UNCHANGED <<written, file, dpi, fed>> PROVE FeedInv'
  BY <1>2, <1>3, SequenceAppend DEF FrameDone, FeedInv
<1>4. CASE UNCHANGED genVars
  BY <1>1, <1>4 DEF genVars
<1>5. ASSUME NEW type, NEW credit, NEW size, Main(type, credit, size) PROVE FeedInv'
  <2>1. Sequence(<<>>)
    BY EmptySeq, SequenceOf
  <2>. QED BY <1>2, <1>5, <2>1 DEF Main
<1>6. CASE GenArp
  BY <1>3, <1>6 DEF GenArp
<1>7. CASE GenRaises \/ GenIp \/ GenChecksumStep
  BY <1>1, <1>7 DEF GenRaises, GenIp, GenChecksumStep
<1>8. CASE GenIpChecksum
  BY <1>1, <1>3, <1>8 DEF GenIpChecksum
<1>9. CASE GenIcmpChecksum
  BY <1>3, <1>9 DEF GenIcmpChecksum
<1>10. CASE FileOpen
  BY <1>10 DEF FileOpen, FeedInv, FileInv
<1>11. CASE FileClose
  BY <1>11 DEF FileClose, FeedInv, FileInv
<1>. QED BY <1>4, <1>5, <1>6, <1>7, <1>8, <1>9, <1>10, <1>11, DpiInitFeeds, DpiFeedFeeds DEF GenNext

\* Whatever the generator and the simulation do and in whatever order, the DUT is fed
\* the list of one run of the generator, or the fallback ARP request.
THEOREM OneRunIsFed == GenSpec => []FeedsOneRun
<1>1. GenInit => FeedInv
  <2>1. Sequence(<<>>)
    BY EmptySeq, SequenceOf
  <2>. QED BY <2>1 DEF GenInit, FeedInv, FileInv
<1>2. FeedInv => FeedsOneRun
  <2>. SUFFICES ASSUME FeedInv, dpi.initialized, dpi.current_packet > Len(dpi.packet_data)
                PROVE  fed = dpi.packet_data
    BY DEF FeedInv, FeedsOneRun
  <2>1. Sequence(dpi.packet_data) /\ Len(dpi.packet_data) \in Nat
    BY LenProperties DEF FeedInv, Sequence
  <2>2. dpi.current_packet - 1 = Len(dpi.packet_data)
    BY <2>1 DEF FeedInv
  <2>. QED BY <2>1, <2>2, SubSeqFull DEF FeedInv, Sequence
<1>. QED BY <1>1, <1>2, FeedStep, PTL DEF GenSpec

-----------------------------------------------------------------------------
\* The frames.

LEMMA ByteIs256 == BYTE = 256 /\ WORD = 65536
  BY FieldAssumption, SMT DEF WORD

LEMMA ByteType == /\ BYTE \in Nat /\ BYTE * 0 = 0 /\ 0 * BYTE = 0 /\ 0 \in Bytes
                  /\ \A x \in Bytes : x \in Nat /\ x * BYTE \in Nat
<1>1. ASSUME NEW b \in Nat, b >= 2
      PROVE  /\ b * 0 = 0 /\ 0 * b = 0 /\ 0 \in 0 .. b - 1
             /\ \A x \in 0 .. b - 1 : x \in Nat /\ x * b \in Nat
  BY <1>1
<1>. QED BY <1>1, ByteAssumption DEF Bytes

LEMMA HiLo ==
  ASSUME NEW x \in Nat
  PROVE  /\ Hi(x) \in Nat /\ Lo(x) \in Nat /\ Lo(x) \in Bytes
         /\ Hi(x) * BYTE + Lo(x) = x /\ Lo(x) + BYTE * Hi(x) = x
         /\ x < WORD => Hi(x) \in Bytes
<1>1. /\ x \div 256 \in Nat /\ x % 256 \in 0 .. 255
      /\ (x \div 256) * 256 + (x % 256) = x /\ (x % 256) + 256 * (x \div 256) = x
      /\ x < 65536 => x \div 256 \in 0 .. 255
  BY SMT
<1>. QED BY <1>1, ByteIs256, SMT DEF Hi, Lo, Bytes

LEMMA SmallHi == Hi(0) = 0 /\ Lo(0) = 0
<1>1. 0 \div 256 = 0 /\ 0 % 256 = 0  BY SMT
<1>. QED BY <1>1, ByteIs256, SMT DEF Hi, Lo

-----------------------------------------------------------------------------
\* What the loop adds up is what a receiver adds up.

WSum(d, m) == SumFunctionOnSet(Weighted(d), 1 .. m)

LEMMA WeightedAt ==
  ASSUME NEW d \in Seq(Bytes), NEW k \in 1 .. Len(d)
  PROVE  /\ Weighted(d)[k] \in Nat /\ d[k] \in Nat
         /\ k % 2 = 1 => Weighted(d)[k] = d[k] * BYTE
         /\ k % 2 /= 1 => Weighted(d)[k] = d[k]
<1>0. d[k] \in Bytes  OBVIOUS
<1>1. d[k] \in Nat /\ d[k] * BYTE \in Nat  BY <1>0, ByteType
<1>2. d[k] * 1 = d[k]  BY <1>1
<1>3. Weighted(d)[k] = d[k] * (IF k % 2 = 1 THEN BYTE ELSE 1)  BY DEF Weighted
<1>. QED BY <1>1, <1>2, <1>3

LEMMA WSumType ==
  ASSUME NEW d \in Seq(Bytes), NEW m \in Nat, m <= Len(d)
  PROVE  WSum(d, m) \in Nat
<1>1. IsFiniteSet(1 .. m) /\ \A k \in 1 .. m : Weighted(d)[k] \in Nat
  BY WeightedAt, FS_Interval
<1>. QED BY <1>1, SumType DEF WSum

LEMMA WSumStep ==
  ASSUME NEW d \in Seq(Bytes), NEW m \in Nat, m + 1 <= Len(d)
  PROVE  WSum(d, m + 1) = Weighted(d)[m + 1] + WSum(d, m)
<1>1. m + 1 \in 1 .. m + 1 /\ (1 .. m + 1) \ {m + 1} = 1 .. m  OBVIOUS
<1>2. IsFiniteSet(1 .. m + 1)  BY FS_Interval
<1>3. \A k \in 1 .. m + 1 : Weighted(d)[k] \in Nat  BY WeightedAt
<1>4. SumFunctionOnSet(Weighted(d), 1 .. m + 1)
        = Weighted(d)[m + 1] + SumFunctionOnSet(Weighted(d), (1 .. m + 1) \ {m + 1})
  BY <1>1, <1>2, <1>3, SumRemove
<1>. QED BY <1>1, <1>4 DEF WSum

\* One turn of the loop.
LEMMA WSumWord ==
  ASSUME NEW d \in Seq(Bytes), NEW k \in Nat, k % 2 = 0, k + 2 <= Len(d)
  PROVE  WSum(d, k + 2) = WSum(d, k) + WordAt(d, k)
<1>1. WSum(d, k + 1) = Weighted(d)[k + 1] + WSum(d, k)  BY WSumStep
<1>2. WSum(d, k + 2) = Weighted(d)[k + 2] + WSum(d, k + 1)
  <2>1. k + 1 \in Nat /\ (k + 1) + 1 = k + 2  OBVIOUS
  <2>. QED BY <2>1, WSumStep
<1>3. /\ k + 1 \in 1 .. Len(d) /\ k + 2 \in 1 .. Len(d) /\ (k + 1) % 2 = 1 /\ (k + 2) % 2 /= 1
  OBVIOUS
<1>4. Weighted(d)[k + 1] = d[k + 1] * BYTE /\ Weighted(d)[k + 2] = d[k + 2]  BY <1>3, WeightedAt
<1>5. d[k + 1] * BYTE \in Nat /\ d[k + 2] \in Nat /\ WSum(d, k) \in Nat
  BY <1>3, <1>4, WeightedAt, WSumType
<1>. QED BY <1>1, <1>2, <1>4, <1>5 DEF WordAt

LEMMA WSumCongruence ==
  ASSUME NEW d, NEW e, NEW m \in Nat, \A k \in 1 .. m : Weighted(d)[k] = Weighted(e)[k]
  PROVE  WSum(d, m) = WSum(e, m)
<1>1. IsFiniteSet(1 .. m)  BY FS_Interval
<1>. QED BY <1>1, SumCongruence DEF WSum

\* The zero that makes the length even does not count.
LEMMA WSumPad ==
  ASSUME NEW d \in Seq(Bytes)
  PROVE  WSum(Append(d, 0), Len(Append(d, 0))) = WSum(d, Len(d))
<1>. DEFINE e == Append(d, 0)
            n == Len(d)
<1>1. n \in Nat /\ e \in Seq(Bytes) /\ Len(e) = n + 1 /\ e[n + 1] = 0 /\ \A k \in 1 .. n : e[k] = d[k]
  BY ByteType
<1>. HIDE DEF e
<1>2. WSum(e, n + 1) = Weighted(e)[n + 1] + WSum(e, n)  BY <1>1, WSumStep
<1>3. Weighted(e)[n + 1] = 0
  <2>1. n + 1 \in 1 .. Len(e) /\ 0 * BYTE = 0  BY <1>1, ByteType
  <2>. QED BY <1>1, <2>1, WeightedAt
<1>4. \A k \in 1 .. n : Weighted(e)[k] = Weighted(d)[k]  BY <1>1 DEF Weighted
<1>5. WSum(e, n) = WSum(d, n) /\ WSum(d, n) \in Nat  BY <1>1, <1>4, WSumCongruence, WSumType
<1>. QED BY <1>1, <1>2, <1>3, <1>5 DEF e

\* A word put in the place of a zero.
LEMMA WSumReplace ==
  ASSUME NEW d \in Seq(Bytes), NEW e \in Seq(Bytes), Len(d) = Len(e), NEW k \in Nat,
         k % 2 = 0, k + 2 <= Len(d), d[k + 1] = 0, d[k + 2] = 0,
         \A j \in 1 .. Len(d) : j /= k + 1 /\ j /= k + 2 => e[j] = d[j]
  PROVE  WSum(e, Len(e)) = WSum(d, Len(d)) + WordAt(e, k)
<1>. DEFINE n == Len(d)
            Q == {m \in Nat : k + 2 + m <= n => WSum(e, k + 2 + m) = WSum(d, k + 2 + m) + WordAt(e, k)}
<1>0. n \in Nat /\ \A m \in 1 .. n : m /= k + 1 /\ m /= k + 2 => Weighted(e)[m] = Weighted(d)[m]
  BY DEF Weighted
<1>1. WSum(e, k) = WSum(d, k) /\ WSum(d, k) \in Nat
  <2>1. \A m \in 1 .. k : m \in 1 .. n /\ m /= k + 1 /\ m /= k + 2  BY <1>0
  <2>2. \A m \in 1 .. k : Weighted(e)[m] = Weighted(d)[m]  BY <1>0, <2>1
  <2>. QED BY <2>2, WSumCongruence, WSumType
<1>2. WordAt(d, k) = 0  BY ByteType DEF WordAt
<1>3. WordAt(e, k) \in Nat
  <2>1. k + 1 \in 1 .. Len(e) /\ k + 2 \in 1 .. Len(e)  BY <1>0
  <2>2. e[k + 1] \in Bytes /\ e[k + 2] \in Bytes  BY <2>1
  <2>3. e[k + 1] * BYTE \in Nat /\ e[k + 2] \in Nat  BY <2>2, ByteType
  <2>. QED BY <2>3 DEF WordAt
<1>4. WSum(e, k + 2) = WSum(d, k + 2) + WordAt(e, k)  BY <1>1, <1>2, <1>3, WSumWord
<1>5. 0 \in Q
  <2>1. k + 2 + 0 = k + 2  OBVIOUS
  <2>. QED BY <1>4, <2>1
<1>6. ASSUME NEW m \in Q PROVE m + 1 \in Q
  <2>. SUFFICES ASSUME k + 2 + (m + 1) <= n
                PROVE  WSum(e, k + 2 + (m + 1)) = WSum(d, k + 2 + (m + 1)) + WordAt(e, k)
    OBVIOUS
  <2>. DEFINE j == k + 2 + m
  <2>1. /\ j \in Nat /\ j + 1 <= n /\ k + 2 + (m + 1) = j + 1 /\ j <= n
        /\ j + 1 /= k + 1 /\ j + 1 /= k + 2 /\ j + 1 \in 1 .. n
    BY <1>0
  <2>2. WSum(e, j) = WSum(d, j) + WordAt(e, k)  BY <2>1
  <2>. HIDE DEF j
  <2>3. WSum(e, j + 1) = Weighted(e)[j + 1] + WSum(e, j)  BY <2>1, WSumStep
  <2>4. WSum(d, j + 1) = Weighted(d)[j + 1] + WSum(d, j)  BY <2>1, WSumStep
  <2>5. Weighted(e)[j + 1] = Weighted(d)[j + 1] /\ Weighted(d)[j + 1] \in Nat /\ WSum(d, j) \in Nat
    BY <1>0, <2>1, WeightedAt, WSumType
  <2>6. WSum(e, j + 1) = WSum(d, j + 1) + WordAt(e, k)  BY <1>3, <2>2, <2>3, <2>4, <2>5
  <2>. QED BY <2>1, <2>6
<1>. HIDE DEF Q
<1>7. Q = Nat
  <2>1. Q \in SUBSET Nat  BY DEF Q
  <2>. QED BY <1>5, <1>6, <2>1, InductiveSet
<1>8. n - (k + 2) \in Q  BY <1>0, <1>7
<1>9. k + 2 + (n - (k + 2)) = n  BY <1>0
<1>. QED BY <1>0, <1>8, <1>9 DEF Q

-----------------------------------------------------------------------------
\* The headers and packets.

Calls == {[gen |-> "arp"], [gen |-> "start"]} \cup {[gen |-> "icmp", size |-> s] : s \in ICMP_SIZES}
           \cup {[gen |-> "credit", value |-> v] : v \in CREDITS}

\* A call that makes an IP packet.
IpCall(c) == /\ c \in Calls /\ c.gen \in {"icmp", "start", "credit"}
             /\ c.gen = "icmp" => c.size \in ICMP_SIZES
             /\ c.gen = "credit" => Uint32(c.value) /\ c.value \in Nat

LEMMA SmallBytes ==
  \A x \in 0 .. 200 : x \in Bytes
<1>1. \A x \in 0 .. 200 : x \in 0 .. 255  BY SMT
<1>. QED BY <1>1, ByteIs256, SMT DEF Bytes

\* A header g with checksum ck, and z which is g without it.
HeaderShape(g, z, len, proto, ck) ==
  /\ g \in Seq(Bytes) /\ Len(g) = 20 /\ g[3] = Hi(len) /\ g[4] = Lo(len) /\ g[10] = proto
  /\ g[11] = Hi(ck) /\ g[12] = Lo(ck)
  /\ \A j \in 1 .. 20 : j /= 11 /\ j /= 12 => g[j] = z[j]

LEMMA IpFieldsType ==
  ASSUME NEW len \in Nat, len < WORD, NEW id \in 0 .. 2, NEW proto \in 1 .. 17,
         NEW ck \in Nat, ck < WORD
  PROVE  HeaderShape(IpFields(len, id, proto, ck), IpFields(len, id, proto, 0), len, proto, ck)
<1>1. /\ Hi(len) \in Bytes /\ Lo(len) \in Bytes /\ Hi(ck) \in Bytes /\ Lo(ck) \in Bytes
  BY HiLo
<1>2. Hi(id) \in Bytes /\ Lo(id) \in Bytes
  <2>1. id \in Nat /\ id < 65536  BY SMT
  <2>2. id < WORD  BY <2>1, ByteIs256, SMT
  <2>. QED BY <2>1, <2>2, HiLo
<1>3. Hi(\h4000) \in Bytes /\ Lo(\h4000) \in Bytes
  <2>1. \h4000 \in Nat /\ \h4000 < WORD  BY ByteIs256, SMT
  <2>. QED BY <2>1, HiLo, SMT
<1>4. proto \in Bytes  BY SmallBytes, SMT
<1>5. /\ \h45 \in Bytes /\ 0 \in Bytes /\ 64 \in Bytes /\ 192 \in Bytes /\ 168 \in Bytes
      /\ 1 \in Bytes /\ 199 \in Bytes /\ 128 \in Bytes
  BY SmallBytes, SMT
<1>. DEFINE l1 == Hi(len)  l2 == Lo(len)  c1 == Hi(ck)  c2 == Lo(ck)  i1 == Hi(id)  i2 == Lo(id)
            f1 == Hi(\h4000)  f2 == Lo(\h4000)
<1>6. /\ IpFields(len, id, proto, ck)
           = <<\h45, 0, l1, l2, i1, i2, f1, f2, 64, proto, c1, c2, 192, 168, 1, 199, 192, 168, 1, 128>>
      /\ IpFields(len, id, proto, 0)
           = <<\h45, 0, l1, l2, i1, i2, f1, f2, 64, proto, Hi(0), Lo(0), 192, 168, 1, 199, 192, 168, 1, 128>>
  BY SMT DEF IpFields
<1>. HIDE DEF l1, l2, i1, i2, f1, f2, c1, c2
<1>7. /\ l1 \in Bytes /\ l2 \in Bytes /\ i1 \in Bytes /\ i2 \in Bytes /\ f1 \in Bytes /\ f2 \in Bytes
      /\ c1 \in Bytes /\ c2 \in Bytes
  BY <1>1, <1>2, <1>3, SMT DEF l1, l2, i1, i2, f1, f2, c1, c2
<1>8. IpFields(len, id, proto, ck) \in Seq(Bytes)  BY <1>4, <1>5, <1>6, <1>7, SMT
<1>9. \A j \in 1 .. 20 : j /= 11 /\ j /= 12 =>
        IpFields(len, id, proto, ck)[j] = IpFields(len, id, proto, 0)[j]
  BY <1>6, SMT
<1>10. /\ Len(IpFields(len, id, proto, ck)) = 20
       /\ IpFields(len, id, proto, ck)[3] = l1 /\ IpFields(len, id, proto, ck)[4] = l2
       /\ IpFields(len, id, proto, ck)[10] = proto
       /\ IpFields(len, id, proto, ck)[11] = c1 /\ IpFields(len, id, proto, ck)[12] = c2
  BY <1>6, SMT
<1>. QED BY <1>8, <1>9, <1>10, SMT DEF HeaderShape, l1, l2, c1, c2

\* Two byte strings, one after the other.
LEMMA ConcatAt ==
  ASSUME NEW s \in Seq(Bytes), NEW t \in Seq(Bytes)
  PROVE  /\ Cat(s, t) \in Seq(Bytes) /\ Len(Cat(s, t)) = Len(s) + Len(t)
         /\ \A k \in 1 .. Len(s) : Cat(s, t)[k] = s[k]
         /\ \A k \in 1 .. Len(t) : Cat(s, t)[Len(s) + k] = t[k]
  BY DEF Cat

LEMMA IcmpPacketType ==
  ASSUME NEW size \in ICMP_SIZES, NEW ck \in Nat, ck < WORD
  PROVE  /\ IcmpPacket(ck, size) \in Seq(Bytes) /\ Len(IcmpPacket(ck, size)) = 8 + size
         /\ IcmpPacket(ck, size)[3] = Hi(ck) /\ IcmpPacket(ck, size)[4] = Lo(ck)
         /\ \A j \in 1 .. 8 + size : j /= 3 /\ j /= 4 =>
              IcmpPacket(ck, size)[j] = IcmpPacket(0, size)[j]
<1>. DEFINE c1 == Hi(ck)  c2 == Lo(ck)  d1 == Hi(\h1234)  d2 == Lo(\h1234)  s1 == Hi(1)  s2 == Lo(1)
            z1 == Hi(0)  z2 == Lo(0)
            head == <<8, 0, c1, c2, d1, d2, s1, s2>>
            zero == <<8, 0, z1, z2, d1, d2, s1, s2>>
            payload == [k \in 1 .. size |-> (k - 1) % BYTE]
<1>1. size \in Nat  BY FieldAssumption
<1>2. payload \in Seq(Bytes) /\ Len(payload) = size
  <2>1. \A k \in 1 .. size : (k - 1) % BYTE \in Bytes
    <3>1. \A k \in 1 .. size : k - 1 \in Nat  BY <1>1
    <3>2. \A x \in Nat : x % BYTE \in Bytes  BY HiLo DEF Lo
    <3>. QED BY <3>1, <3>2
  <2>. QED BY <1>1, <2>1
<1>3. /\ IcmpPacket(ck, size) = Cat(head, payload) /\ IcmpPacket(0, size) = Cat(zero, payload)
  BY SMT DEF IcmpPacket, Cat
<1>4. /\ c1 \in Bytes /\ c2 \in Bytes /\ d1 \in Bytes /\ d2 \in Bytes /\ s1 \in Bytes /\ s2 \in Bytes
      /\ z1 \in Bytes /\ z2 \in Bytes /\ c1 = Hi(ck) /\ c2 = Lo(ck)
  <2>1. /\ \h1234 \in Nat /\ \h1234 < WORD /\ 1 \in Nat /\ 1 < WORD /\ 0 \in Nat /\ 0 < WORD
    BY ByteIs256, SMT
  <2>. QED BY <2>1, HiLo, SMT
<1>5. 8 \in Bytes /\ 0 \in Bytes  BY SmallBytes, SMT
<1>. HIDE DEF c1, c2, d1, d2, s1, s2, z1, z2, payload
<1>6. /\ head \in Seq(Bytes) /\ zero \in Seq(Bytes) /\ Len(head) = 8 /\ Len(zero) = 8
      /\ head[3] = c1 /\ head[4] = c2
      /\ \A j \in 1 .. 8 : j /= 3 /\ j /= 4 => head[j] = zero[j]
  BY <1>4, <1>5, SMT
<1>. HIDE DEF head, zero
<1>7. /\ Cat(head, payload) \in Seq(Bytes) /\ Len(Cat(head, payload)) = 8 + size
      /\ \A k \in 1 .. 8 : Cat(head, payload)[k] = head[k] /\ Cat(zero, payload)[k] = zero[k]
      /\ \A k \in 1 .. size : Cat(head, payload)[8 + k] = payload[k] /\ Cat(zero, payload)[8 + k] = payload[k]
  <2>1. /\ Cat(head, payload) \in Seq(Bytes) /\ Len(Cat(head, payload)) = Len(head) + Len(payload)
        /\ \A k \in 1 .. Len(head) : Cat(head, payload)[k] = head[k]
        /\ \A k \in 1 .. Len(payload) : Cat(head, payload)[Len(head) + k] = payload[k]
    BY <1>2, <1>6, ConcatAt
  <2>2. /\ \A k \in 1 .. Len(zero) : Cat(zero, payload)[k] = zero[k]
        /\ \A k \in 1 .. Len(payload) : Cat(zero, payload)[Len(zero) + k] = payload[k]
    BY <1>2, <1>6, ConcatAt
  <2>3. Len(head) = 8 /\ Len(zero) = 8 /\ Len(payload) = size  BY <1>2, <1>6
  <2>. QED BY <2>1, <2>2, <2>3
<1>8. ASSUME NEW j \in 1 .. 8 + size, j /= 3, j /= 4
      PROVE  Cat(head, payload)[j] = Cat(zero, payload)[j]
  <2>1. CASE j <= 8
    BY <1>6, <1>7, <1>8, <2>1
  <2>2. CASE ~(j <= 8)
    <3>1. j - 8 \in 1 .. size /\ 8 + (j - 8) = j  BY <1>1, <2>2
    <3>. QED BY <1>7, <3>1
  <2>. QED BY <2>1, <2>2
<1>. QED BY <1>3, <1>4, <1>6, <1>7, <1>8

LEMMA LudpPacketType ==
  ASSUME NEW type \in {2, 6}, NEW number \in Nat, Uint32(number), NEW opcode \in {0, 1}
  PROVE  LET t == LudpPacket(type, number, opcode) IN
         /\ t \in Seq(Bytes) /\ Len(t) = 16
         /\ Number16(t, 1) = \hDA01 /\ t[3] = type /\ t[4] = 0
         /\ Number32(t, 5) = number /\ Number16(t, 9) = opcode
<1>. DEFINE lw == number % WORD  hw == number \div WORD
            m1 == Lo(\hDA01)  m2 == Hi(\hDA01)  a1 == Lo(lw)  a2 == Hi(lw)  b1 == Lo(hw)  b2 == Hi(hw)
            o1 == Lo(opcode)  o2 == Hi(opcode)
            t == LudpPacket(type, number, opcode)
<1>1. t = <<m1, m2, type, 0, a1, a2, b1, b2, o1, o2, 0, 0, 0, 0, 0, 0>>
  BY SMT DEF LudpPacket
<1>2. /\ lw \in Nat /\ hw \in Nat /\ lw < WORD /\ hw < WORD /\ lw + WORD * hw = number
  <2>1. ASSUME NEW W \in Nat, W >= 4
        PROVE  /\ number \div W \in Nat /\ number % W \in Nat /\ number % W < W
               /\ (number % W) + W * (number \div W) = number
    BY <2>1
  <2>. QED BY <2>1, WordFact DEF Uint32
<1>3. \hDA01 \in Nat /\ \hDA01 < WORD /\ opcode \in Nat /\ opcode < WORD
  BY ByteIs256, SMT
<1>4. /\ m1 \in Bytes /\ m2 \in Bytes /\ m1 + BYTE * m2 = \hDA01
  BY <1>3, HiLo, SMT
<1>5. /\ a1 \in Bytes /\ a2 \in Bytes /\ a1 + BYTE * a2 = lw
      /\ b1 \in Bytes /\ b2 \in Bytes /\ b1 + BYTE * b2 = hw
  BY <1>2, HiLo
<1>6. /\ o1 \in Bytes /\ o2 \in Bytes /\ o1 + BYTE * o2 = opcode
  BY <1>3, HiLo
<1>7. type \in Bytes /\ 0 \in Bytes  BY SmallBytes, SMT
<1>. HIDE DEF m1, m2, a1, a2, b1, b2, o1, o2, lw, hw, t
<1>8. /\ t \in Seq(Bytes) /\ Len(t) = 16
  BY <1>1, <1>4, <1>5, <1>6, <1>7, SMT
<1>9. /\ t[1] = m1 /\ t[2] = m2 /\ t[3] = type /\ t[4] = 0 /\ t[5] = a1 /\ t[6] = a2
      /\ t[7] = b1 /\ t[8] = b2 /\ t[9] = o1 /\ t[10] = o2
  BY <1>1, SMT
<1>10. Number16(t, 1) = m1 + BYTE * m2 /\ Number16(t, 9) = o1 + BYTE * o2
       /\ Number16(t, 5) = a1 + BYTE * a2 /\ Number16(t, 5 + 2) = b1 + BYTE * b2
  BY <1>9, SMT DEF Number16
<1>11. Number32(t, 5) = number  BY <1>2, <1>5, <1>10, SMT DEF Number32
<1>. QED BY <1>4, <1>6, <1>8, <1>9, <1>10, <1>11, SMT DEF t

LEMMA UdpBodyType ==
  ASSUME NEW t \in Seq(Bytes), Len(t) = 16
  PROVE  LET b == Cat(UdpHeader(t), t) IN
         /\ b \in Seq(Bytes) /\ Len(b) = 24 /\ b[5] * BYTE + b[6] = 24
         /\ \A k \in 1 .. 16 : b[8 + k] = t[k]
<1>. DEFINE p1 == Hi(12345)  p2 == Lo(12345)  q1 == Hi(1234)  q2 == Lo(1234)  l1 == Hi(24)  l2 == Lo(24)
            h == <<p1, p2, q1, q2, l1, l2, 0, 0>>
<1>1. UdpHeader(t) = h
  <2>1. 8 + Len(t) = 24  OBVIOUS
  <2>. QED BY <2>1, SMT DEF UdpHeader
<1>2. /\ p1 \in Bytes /\ p2 \in Bytes /\ q1 \in Bytes /\ q2 \in Bytes /\ l1 \in Bytes /\ l2 \in Bytes
      /\ l1 * BYTE + l2 = 24
  <2>1. /\ 12345 \in Nat /\ 12345 < WORD /\ 1234 \in Nat /\ 1234 < WORD /\ 24 \in Nat /\ 24 < WORD
    BY ByteIs256, SMT
  <2>. QED BY <2>1, HiLo, SMT
<1>3. 0 \in Bytes  BY SmallBytes, SMT
<1>. HIDE DEF p1, p2, q1, q2, l1, l2
<1>4. h \in Seq(Bytes) /\ Len(h) = 8 /\ h[5] = l1 /\ h[6] = l2  BY <1>2, <1>3, SMT
<1>. HIDE DEF h
<1>5. /\ Cat(h, t) \in Seq(Bytes) /\ Len(Cat(h, t)) = 24 /\ Cat(h, t)[5] = l1 /\ Cat(h, t)[6] = l2
      /\ \A k \in 1 .. 16 : Cat(h, t)[8 + k] = t[k]
  <2>1. /\ Cat(h, t) \in Seq(Bytes) /\ Len(Cat(h, t)) = Len(h) + Len(t)
        /\ \A k \in 1 .. Len(h) : Cat(h, t)[k] = h[k]
        /\ \A k \in 1 .. Len(t) : Cat(h, t)[Len(h) + k] = t[k]
    BY <1>4, ConcatAt
  <2>2. Len(h) = 8 /\ Len(t) = 16 /\ 5 \in 1 .. 8 /\ 6 \in 1 .. 8 /\ 8 + 16 = 24  BY <1>4
  <2>. QED BY <1>4, <2>1, <2>2
<1>. QED BY <1>1, <1>2, <1>5

\* What a LUDP packet says, read behind the UDP header.
LEMMA LudpBody ==
  ASSUME NEW type \in {2, 6}, NEW number \in Nat, Uint32(number), NEW opcode \in {0, 1},
         NEW f, f.body = Cat(UdpHeader(LudpPacket(type, number, opcode)), LudpPacket(type, number, opcode))
  PROVE  /\ f.body \in Seq(Bytes) /\ Len(f.body) = 24 /\ LudpOk(f, type)
         /\ f.body[12] = 0 /\ Number32(f.body, 13) = number /\ Number16(f.body, 17) = opcode
<1>. DEFINE t == LudpPacket(type, number, opcode)
            b == f.body
<1>1. /\ t \in Seq(Bytes) /\ Len(t) = 16 /\ Number16(t, 1) = \hDA01 /\ t[3] = type /\ t[4] = 0
      /\ Number32(t, 5) = number /\ Number16(t, 9) = opcode
  BY LudpPacketType, SMT
<1>2. b = Cat(UdpHeader(t), t)  OBVIOUS
<1>. HIDE DEF t, b
<1>3. /\ b \in Seq(Bytes) /\ Len(b) = 24 /\ b[5] * BYTE + b[6] = 24
      /\ \A k \in 1 .. 16 : b[8 + k] = t[k]
  <2>1. /\ Cat(UdpHeader(t), t) \in Seq(Bytes) /\ Len(Cat(UdpHeader(t), t)) = 24
        /\ Cat(UdpHeader(t), t)[5] * BYTE + Cat(UdpHeader(t), t)[6] = 24
        /\ \A k \in 1 .. 16 : Cat(UdpHeader(t), t)[8 + k] = t[k]
    <3>1. t \in Seq(Bytes) /\ Len(t) = 16  BY <1>1
    <3>. QED BY <3>1, UdpBodyType
  <2>. QED BY <1>2, <2>1
<1>4. /\ b[9] = t[1] /\ b[10] = t[2] /\ b[11] = t[3] /\ b[12] = t[4] /\ b[13] = t[5] /\ b[14] = t[6]
      /\ b[15] = t[7] /\ b[16] = t[8] /\ b[17] = t[9] /\ b[18] = t[10]
  <2>1. /\ 8 + 1 = 9 /\ 8 + 2 = 10 /\ 8 + 3 = 11 /\ 8 + 4 = 12 /\ 8 + 5 = 13
        /\ 8 + 6 = 14 /\ 8 + 7 = 15 /\ 8 + 8 = 16 /\ 8 + 9 = 17 /\ 8 + 10 = 18
    OBVIOUS
  <2>. QED BY <1>3, <2>1
<1>5. /\ Number16(b, 9) = Number16(t, 1) /\ Number16(b, 17) = Number16(t, 9)
      /\ Number32(b, 13) = Number32(t, 5)
  BY <1>4, SMT DEF Number16, Number32
<1>6. LudpOk(f, type)  BY <1>1, <1>3, <1>4, <1>5, SMT DEF LudpOk, b
<1>. QED BY <1>1, <1>3, <1>4, <1>5, <1>6, SMT DEF b

LEMMA BodyType ==
  ASSUME NEW c, IpCall(c)
  PROVE  /\ BodyOf(c) \in Seq(Bytes) /\ Len(BodyOf(c)) \in Nat /\ 20 + Len(BodyOf(c)) < WORD
         /\ c.gen = "icmp" => BodyOf(c) = IcmpPacket(0, c.size) /\ c.size \in ICMP_SIZES
         /\ c.gen = "start" => \A f : f.body = BodyOf(c) =>
              LudpOk(f, 2) /\ f.body[12] = 0 /\ Number16(f.body, 17) = 1
         /\ c.gen = "credit" => \A f : f.body = BodyOf(c) =>
              LudpOk(f, 6) /\ Number32(f.body, 13) = c.value
<1>0. c.gen \in {"icmp", "start", "credit"}  BY DEF IpCall
<1>1. CASE c.gen = "icmp"
  <2>1. c.size \in ICMP_SIZES /\ BodyOf(c) = IcmpPacket(0, c.size)  BY <1>1 DEF IpCall, BodyOf
  <2>2. c.size \in Nat /\ c.size + 28 < WORD /\ WORD \in Nat  BY <2>1, FieldAssumption, WordFact
  <2>3. 0 \in Nat /\ 0 < WORD  BY WordFact
  <2>4. BodyOf(c) \in Seq(Bytes) /\ Len(BodyOf(c)) = 8 + c.size  BY <2>1, <2>3, IcmpPacketType
  <2>5. Len(BodyOf(c)) \in Nat /\ 20 + Len(BodyOf(c)) < WORD  BY <2>2, <2>4
  <2>. QED BY <1>1, <2>1, <2>4, <2>5
<1>2. CASE c.gen = "start"
  <2>1. BodyOf(c) = Cat(UdpHeader(LudpPacket(2, 1, 1)), LudpPacket(2, 1, 1))
    BY <1>2 DEF BodyOf, LudpStart, Cat
  <2>2. Uint32(1)
    <3>1. \A W \in Nat : W >= 4 => 1 \div W < W  BY SMT
    <3>. QED BY <3>1, WordFact, SMT DEF Uint32
  <2>3. \A f : f.body = BodyOf(c) =>
          /\ f.body \in Seq(Bytes) /\ Len(f.body) = 24 /\ LudpOk(f, 2) /\ f.body[12] = 0
          /\ Number16(f.body, 17) = 1
    BY <2>1, <2>2, LudpBody
  <2>4. [body |-> BodyOf(c)].body = BodyOf(c)  OBVIOUS
  <2>5. BodyOf(c) \in Seq(Bytes) /\ Len(BodyOf(c)) = 24  BY <2>3, <2>4
  <2>6. 20 + 24 < WORD  BY ByteIs256, SMT
  <2>. QED BY <1>2, <2>3, <2>5, <2>6
<1>3. CASE c.gen = "credit"
  <2>1. BodyOf(c) = Cat(UdpHeader(LudpPacket(6, c.value, 0)), LudpPacket(6, c.value, 0))
    BY <1>3 DEF BodyOf, LudpCredit, Cat
  <2>2. Uint32(c.value) /\ c.value \in Nat  BY <1>3 DEF IpCall
  <2>3. \A f : f.body = BodyOf(c) =>
          /\ f.body \in Seq(Bytes) /\ Len(f.body) = 24 /\ LudpOk(f, 6)
          /\ Number32(f.body, 13) = c.value
    BY <2>1, <2>2, LudpBody
  <2>4. [body |-> BodyOf(c)].body = BodyOf(c)  OBVIOUS
  <2>5. BodyOf(c) \in Seq(Bytes) /\ Len(BodyOf(c)) = 24  BY <2>3, <2>4
  <2>6. 20 + 24 < WORD  BY ByteIs256, SMT
  <2>. QED BY <1>3, <2>3, <2>5, <2>6
<1>. QED BY <1>0, <1>1, <1>2, <1>3

\* The header with its checksum.
LEMMA HeaderVerifies ==
  ASSUME NEW c, IpCall(c), NEW ck \in Nat, ck < WORD
  PROVE  LET h == IpHeader(BodyOf(c), IpId(c), Proto(c), ck)
             z == IpHeader(BodyOf(c), IpId(c), Proto(c), 0)
         IN /\ z \in Seq(Bytes) /\ Len(z) = 20 /\ Len(h) = 20 /\ h[10] = Proto(c)
            /\ h[3] * BYTE + h[4] = 20 + Len(BodyOf(c))
            /\ (WSum(z, 20) + ck) % (WORD - 1) = 0 => Verifies(h)
<1>. DEFINE h == IpHeader(BodyOf(c), IpId(c), Proto(c), ck)
            z == IpHeader(BodyOf(c), IpId(c), Proto(c), 0)
            len == 20 + Len(BodyOf(c))
<1>0. IpId(c) \in 0 .. 2 /\ Proto(c) \in 1 .. 17  BY DEF IpId, Proto
<1>1. len \in Nat /\ len < WORD /\ 0 \in Nat /\ 0 < WORD  BY BodyType, WordFact
<1>2. h = IpFields(len, IpId(c), Proto(c), ck) /\ z = IpFields(len, IpId(c), Proto(c), 0)
  BY DEF IpHeader
<1>. DEFINE id == IpId(c)  proto == Proto(c)
<1>. HIDE DEF h, z, len, id, proto
<1>9. /\ id \in 0 .. 2 /\ proto \in 1 .. 17 /\ proto = Proto(c)
      /\ h = IpFields(len, id, proto, ck) /\ z = IpFields(len, id, proto, 0)
  BY <1>0, <1>2 DEF id, proto
<1>3. /\ h \in Seq(Bytes) /\ Len(h) = 20 /\ h[3] = Hi(len) /\ h[4] = Lo(len) /\ h[10] = Proto(c)
      /\ h[11] = Hi(ck) /\ h[12] = Lo(ck)
      /\ \A j \in 1 .. 20 : j /= 11 /\ j /= 12 => h[j] = z[j]
  <2>1. HeaderShape(h, z, len, proto, ck)  BY <1>1, <1>9, IpFieldsType
  <2>. QED BY <1>9, <2>1 DEF HeaderShape
<1>4. z \in Seq(Bytes) /\ Len(z) = 20 /\ z[11] = 0 /\ z[12] = 0
  <2>1. HeaderShape(z, z, len, proto, 0)  BY <1>1, <1>9, IpFieldsType
  <2>. QED BY <2>1, SmallHi DEF HeaderShape
<1>5. h[3] * BYTE + h[4] = len  BY <1>1, <1>3, HiLo
<1>6. WSum(h, Len(h)) = WSum(z, Len(z)) + WordAt(h, 10)
  <2>1. 10 \in Nat /\ 10 % 2 = 0 /\ 10 + 2 <= Len(z) /\ 10 + 1 = 11 /\ 10 + 2 = 12  BY <1>4
  <2>2. z[10 + 1] = 0 /\ z[10 + 2] = 0 /\ Len(z) = Len(h)  BY <1>3, <1>4, <2>1
  <2>3. \A j \in 1 .. Len(z) : j /= 10 + 1 /\ j /= 10 + 2 => h[j] = z[j]  BY <1>3, <1>4, <2>1
  <2>. QED BY <1>3, <1>4, <2>1, <2>2, <2>3, WSumReplace
<1>7. WordAt(h, 10) = ck
  <2>1. 10 + 1 = 11 /\ 10 + 2 = 12  OBVIOUS
  <2>. QED BY <1>3, <2>1, HiLo DEF WordAt
<1>8. (WSum(z, 20) + ck) % (WORD - 1) = 0 => Verifies(h)
  BY <1>3, <1>4, <1>6, <1>7 DEF Verifies, WSum
<1>. QED BY <1>3, <1>4, <1>5, <1>8 DEF h, z, len

Padded(d) == IF Len(d) % 2 = 1 THEN Append(d, 0) ELSE d

LEMMA PaddedSum ==
  ASSUME NEW d \in Seq(Bytes)
  PROVE  WSum(Padded(d), Len(Padded(d))) = WSum(d, Len(d)) /\ Padded(d) \in Seq(Bytes)
<1>1. CASE Len(d) % 2 = 1
  BY <1>1, WSumPad, ByteType DEF Padded
<1>2. CASE ~(Len(d) % 2 = 1)
  BY <1>2 DEF Padded
<1>. QED BY <1>1, <1>2

\* The ICMP message with its checksum.
LEMMA IcmpVerifies ==
  ASSUME NEW size \in ICMP_SIZES, NEW ck \in Nat, ck < WORD,
         (WSum(IcmpPacket(0, size), Len(IcmpPacket(0, size))) + ck) % (WORD - 1) = 0
  PROVE  Verifies(IcmpPacket(ck, size))
<1>. DEFINE e == IcmpPacket(ck, size)
            d == IcmpPacket(0, size)
<1>0. size \in Nat /\ 0 \in Nat /\ 0 < WORD  BY FieldAssumption, WordFact
<1>1. /\ e \in Seq(Bytes) /\ Len(e) = 8 + size /\ e[3] = Hi(ck) /\ e[4] = Lo(ck)
      /\ \A j \in 1 .. 8 + size : j /= 3 /\ j /= 4 => e[j] = d[j]
  BY IcmpPacketType
<1>2. d \in Seq(Bytes) /\ Len(d) = 8 + size /\ d[3] = 0 /\ d[4] = 0
  BY <1>0, IcmpPacketType, SmallHi
<1>. HIDE DEF e, d
<1>3. WSum(e, Len(e)) = WSum(d, Len(d)) + WordAt(e, 2)
  <2>1. 2 \in Nat /\ 2 % 2 = 0 /\ 2 + 2 <= Len(d) /\ 2 + 1 = 3 /\ 2 + 2 = 4  BY <1>0, <1>2
  <2>2. d[2 + 1] = 0 /\ d[2 + 2] = 0 /\ Len(d) = Len(e)  BY <1>1, <1>2, <2>1
  <2>3. \A j \in 1 .. Len(d) : j /= 2 + 1 /\ j /= 2 + 2 => e[j] = d[j]  BY <1>1, <1>2, <2>1
  <2>. QED BY <1>1, <1>2, <2>1, <2>2, <2>3, WSumReplace
<1>4. WordAt(e, 2) = ck
  <2>1. 2 + 1 = 3 /\ 2 + 2 = 4  OBVIOUS
  <2>. QED BY <1>1, <2>1, HiLo DEF WordAt
<1>5. (WSum(d, Len(d)) + ck) % (WORD - 1) = 0  BY DEF d
<1>6. Verifies(e)  BY <1>3, <1>4, <1>5 DEF Verifies, WSum
<1>. QED BY <1>6 DEF e

-----------------------------------------------------------------------------
\* The loop has added up what a receiver will add up.
CkSum ==
  /\ ck_pc = "sum" => i <= Len(data) /\ total = WSum(data, i)
  /\ ck_pc \in {"fold", "done"} => total = WSum(data, Len(data))

LEMMA CallSums ==
  ASSUME NEW d \in Seq(Bytes), Call(d)
  PROVE  CkSum' /\ data' = Padded(d) /\ ck_pc' = "sum"
<1>1. data' = Padded(d) /\ ck_pc' = "sum" /\ i' = 0 /\ total' = 0  BY DEF Call, Padded
<1>2. Padded(d) \in Seq(Bytes)  BY PaddedSum
<1>3. WSum(data', 0) = 0
  <2>1. 1 .. 0 = {}  OBVIOUS
  <2>. QED BY <2>1, SumEmpty DEF WSum
<1>4. 0 <= Len(data')  BY <1>1, <1>2
<1>. QED BY <1>1, <1>3, <1>4 DEF CkSum

LEMMA StepSums ==
  ASSUME CkInv, CkSum, CkStep
  PROVE  CkSum' /\ data' = data /\ ck_pc /= "done" /\ ck_pc /= "idle" /\ ck_pc' /= "idle"
<1>0. data \in Seq(Bytes) /\ Len(data) \in Nat /\ i \in Nat /\ i % 2 = 0 /\ Len(data) % 2 = 0
  BY DEF CkInv, CkTypeOK
<1>1. CASE AddWord
  <2>1. ck_pc = "sum" /\ ck_pc' = "sum" /\ i < Len(data) /\ i' = i + 2 /\ data' = data
        /\ total' = total + WordAt(data, i)
    BY <1>1 DEF AddWord
  <2>2. i + 2 <= Len(data)  BY <1>0, <2>1
  <2>3. WSum(data, i + 2) = WSum(data, i) + WordAt(data, i)  BY <1>0, <2>2, WSumWord
  <2>. QED BY <2>1, <2>2, <2>3 DEF CkSum
<1>2. CASE EndOfSum
  <2>1. /\ ck_pc = "sum" /\ ck_pc' = "fold" /\ i >= Len(data) /\ data' = data /\ total' = total
    BY <1>2 DEF EndOfSum
  <2>2. i <= Len(data) /\ total = WSum(data, i)  BY <2>1 DEF CkSum
  <2>3. i = Len(data)  BY <1>0, <2>1, <2>2
  <2>. QED BY <2>1, <2>2, <2>3 DEF CkSum
<1>3. CASE Fold  BY <1>3 DEF Fold, CkSum
<1>4. CASE Return  BY <1>4 DEF Return, CkSum
<1>. QED BY <1>1, <1>2, <1>3, <1>4 DEF CkStep

\* What the frame under way and the checksum under way have to do with each other.
FrameRecord(f) == f = [from |-> f.from, eth_type |-> f.eth_type, ip |-> f.ip, body |-> f.body]

GenTypes ==
  /\ gen = [pc |-> gen.pc, todo |-> gen.todo, frame |-> gen.frame]
  /\ gen.todo \in Seq(Calls)

IpPart ==
  gen.pc = "ip" =>
    /\ IpCall(gen.frame.from) /\ gen.frame.body = BodyOf(gen.frame.from) /\ FrameRecord(gen.frame)
    /\ gen.todo /= <<>> /\ ck_pc /= "idle"
    /\ data = IpHeader(gen.frame.body, IpId(gen.frame.from), Proto(gen.frame.from), 0)

IcmpPart ==
  gen.pc = "icmp" =>
    /\ IpCall(gen.frame.from) /\ gen.frame.from.gen = "icmp" /\ IpOk(gen.frame, 1)
    /\ gen.frame.body = IcmpPacket(0, gen.frame.from.size) /\ FrameRecord(gen.frame)
    /\ gen.todo /= <<>> /\ ck_pc /= "idle" /\ data = Padded(gen.frame.body)

PacketsOk == \A k \in 1 .. Len(packets) : FrameOk(packets[k])
WrittenOk == \A w \in written : \A k \in 1 .. Len(w) : FrameOk(w[k])

FrameInv ==
  CkInv /\ CkSum /\ GenTypes /\ IpPart /\ IcmpPart /\ FeedInv /\ PacketsOk /\ WrittenOk

\* The result of the loop makes up for what it has added up.
LEMMA DoneFact ==
  ASSUME CkInv, CkSum, ck_pc = "done"
  PROVE  /\ checksum \in Nat /\ checksum < WORD
         /\ (WSum(data, Len(data)) + checksum) % (WORD - 1) = 0
<1>1. checksum \in Nat /\ folds \in Nat /\ total = WSum(data, Len(data)) /\ checksum < WORD
      /\ total + checksum = (WORD - 1) * (folds + 1)
  BY DEF CkInv, CkTypeOK, CkSum, FoldsAccounted
<1>2. WORD - 1 \in Nat /\ WORD - 1 > 0 /\ folds + 1 \in Nat  BY <1>1, WordFact
<1>3. ((WORD - 1) * (folds + 1)) % (WORD - 1) = 0  BY <1>2, MultipleMod
<1>. QED BY <1>1, <1>3

LEMMA ArpFrameOk == FrameOk(ArpFrame)
<1>. DEFINE arp == <<0, 1, 8, 0, 6, 4, 0, 1, 2, 0, 0, 0, 0, 1, 192, 168, 1, 199,
                     0, 0, 0, 0, 0, 0, 192, 168, 1, 128>>
            pad == [k \in 1 .. 60 - 14 - Len(arp) |-> 0]
<1>1. arp \in Seq(Nat) /\ Len(arp) = 28  BY SMT
<1>2. ArpFrame.from.gen = "arp" /\ ArpFrame.body = Cat(arp, pad)  BY SMT DEF ArpFrame, Cat
<1>. HIDE DEF arp
<1>3. 60 - 14 - Len(arp) = 18  BY <1>1
<1>4. pad \in Seq(Nat) /\ Len(pad) = 18  BY <1>3
<1>. HIDE DEF pad
<1>5. Len(Cat(arp, pad)) = 46
  <2>1. Len(arp \o pad) = Len(arp) + Len(pad)  BY <1>1, <1>4, ConcatProperties
  <2>2. 28 + 18 = 46  OBVIOUS
  <2>. QED BY <1>1, <1>4, <2>1, <2>2 DEF Cat
<1>. QED BY <1>2, <1>5 DEF FrameOk

\* The checksum's part of a step.
LEMMA CkCallKeeps ==
  ASSUME CkInv, NEW d \in Seq(Bytes), Call(d)
  PROVE  CkInv' /\ CkSum' /\ data' = Padded(d) /\ ck_pc' = "sum"
<1>1. [CkNext]_ckVars  BY DEF CkNext
<1>. QED BY <1>1, CkInvInductive, CallSums

LEMMA CkStepKeeps ==
  ASSUME CkInv, CkSum, CkStep
  PROVE  CkInv' /\ CkSum'
<1>1. [CkNext]_ckVars  BY DEF CkNext
<1>. QED BY <1>1, CkInvInductive, StepSums

LEMMA CkSame ==
  ASSUME CkInv, CkSum, UNCHANGED ckVars
  PROVE  CkInv' /\ CkSum'
  BY DEF ckVars, CkInv, CkTypeOK, FoldsAccounted, CkSum

\* A frame that is complete and right joins the list.
LEMMA FrameDoneKeeps ==
  ASSUME NEW f, FrameOk(f), FrameDone(f), GenTypes, FeedInv, PacketsOk, WrittenOk, gen.todo /= <<>>,
         UNCHANGED written
  PROVE  GenTypes' /\ IpPart' /\ IcmpPart' /\ PacketsOk' /\ WrittenOk'
<1>1. packets' = Append(packets, f) /\ gen' = [pc |-> "main", todo |-> Tail(gen.todo), frame |-> NoFrame]
  BY DEF FrameDone
<1>2. Tail(gen.todo) \in Seq(Calls)  BY DEF GenTypes
<1>3. GenTypes' /\ IpPart' /\ IcmpPart'
  <2>1. gen'.pc = "main" /\ gen'.todo = Tail(gen.todo) /\ gen'.frame = NoFrame  BY <1>1
  <2>. QED BY <1>1, <1>2, <2>1 DEF GenTypes, IpPart, IcmpPart
<1>4. PacketsOk'
  <2>. DEFINE T == {packets[k] : k \in 1 .. Len(packets)} \cup {f}
  <2>1. packets \in Seq(T) /\ f \in T  BY DEF FeedInv, Sequence
  <2>. HIDE DEF T
  <2>2. /\ Len(packets) \in Nat /\ Len(packets') = Len(packets) + 1 /\ packets'[Len(packets) + 1] = f
        /\ \A k \in 1 .. Len(packets) : packets'[k] = packets[k]
    BY <1>1, <2>1
  <2>3. \A k \in 1 .. Len(packets') : k \in 1 .. Len(packets) \/ k = Len(packets) + 1  BY <2>2
  <2>. QED BY <2>2, <2>3 DEF PacketsOk
<1>5. WrittenOk'  BY DEF WrittenOk
<1>. QED BY <1>3, <1>4, <1>5

LEMMA TodoCalls ==
  ASSUME NEW type \in {"arp", "icmp", "ludp_start", "ludp_credit", "ludp_full"},
         NEW credit \in CREDITS, NEW size \in ICMP_SIZES
  PROVE  Todo(type, credit, size) \in Seq(Calls)
<1>. DEFINE a == [gen |-> "arp"]  s == [gen |-> "start"]
            c == [gen |-> "credit", value |-> credit]  m == [gen |-> "icmp", size |-> size]
<1>1. a \in Calls /\ s \in Calls /\ c \in Calls /\ m \in Calls  BY DEF Calls
<1>2. Todo(type, credit, size) \in {<<a>>, <<m>>, <<s>>, <<c>>, <<a, s, c>>}  BY DEF Todo
<1>. HIDE DEF a, s, c, m
<1>3. <<a, s, c>> \in Seq(Calls)  BY <1>1
<1>4. <<a>> \in Seq(Calls) /\ <<m>> \in Seq(Calls) /\ <<s>> \in Seq(Calls) /\ <<c>> \in Seq(Calls)
  BY <1>1
<1>. QED BY <1>2, <1>3, <1>4

LEMMA MainKeeps ==
  ASSUME FrameInv, NEW type \in {"arp", "icmp", "ludp_start", "ludp_credit", "ludp_full"},
         NEW credit \in CREDITS, NEW size \in ICMP_SIZES, Main(type, credit, size)
  PROVE  CkInv' /\ CkSum' /\ GenTypes' /\ IpPart' /\ IcmpPart' /\ PacketsOk' /\ WrittenOk'
<1>. DEFINE todo == Todo(type, credit, size)
<1>1. todo \in Seq(Calls)  BY TodoCalls
<1>2. gen' = [gen EXCEPT !.pc = "main", !.todo = todo] /\ packets' = <<>> /\ UNCHANGED <<written, ckVars>>
  BY DEF Main
<1>. HIDE DEF todo
<1>3. gen' = [pc |-> "main", todo |-> todo, frame |-> gen.frame]  BY <1>2 DEF FrameInv, GenTypes
<1>4. gen'.pc = "main" /\ gen'.todo = todo /\ gen'.frame = gen.frame  BY <1>3
<1>5. GenTypes' /\ IpPart' /\ IcmpPart'  BY <1>1, <1>3, <1>4 DEF GenTypes, IpPart, IcmpPart
<1>6. PacketsOk'  BY <1>2 DEF PacketsOk
<1>7. WrittenOk'  BY <1>2 DEF FrameInv, WrittenOk
<1>8. CkInv' /\ CkSum'  BY <1>2, CkSame DEF FrameInv
<1>. QED BY <1>5, <1>6, <1>7, <1>8

LEMMA GenIpKeeps ==
  ASSUME FrameInv, GenIp
  PROVE  CkInv' /\ CkSum' /\ GenTypes' /\ IpPart' /\ IcmpPart' /\ PacketsOk' /\ WrittenOk'
<1>. DEFINE c == Head(gen.todo)
            body == BodyOf(c)
            fr == [from |-> c, eth_type |-> \h0800, ip |-> <<>>, body |-> body]
            z == IpHeader(body, IpId(c), Proto(c), 0)
<1>1. /\ gen.todo /= <<>> /\ c.gen /= "arp" /\ (c.gen = "credit" => Uint32(c.value))
      /\ gen' = [gen EXCEPT !.pc = "ip", !.frame = fr] /\ Call(z) /\ UNCHANGED <<packets, written>>
  BY SMT DEF GenIp
<1>2. c \in Calls  BY <1>1 DEF FrameInv, GenTypes
<1>3. IpCall(c)
  <2>1. c.gen = "icmp" => c.size \in ICMP_SIZES  BY <1>2 DEF Calls
  <2>2. c.gen = "credit" => c.value \in CREDITS  BY <1>2 DEF Calls
  <2>3. c.gen = "credit" => c.value \in Nat
    BY <1>1, <2>2, FieldAssumption, SMT DEF Uint32
  <2>4. c.gen \in {"icmp", "start", "credit"}  BY <1>1, <1>2 DEF Calls
  <2>. QED BY <1>1, <1>2, <2>1, <2>3, <2>4 DEF IpCall
<1>4. fr.from = c /\ fr.body = body /\ FrameRecord(fr)  BY SMT DEF FrameRecord
<1>5. z \in Seq(Bytes) /\ Len(z) = 20
  <2>1. 0 \in Nat /\ 0 < WORD  BY WordFact
  <2>. QED BY <1>3, <2>1, HeaderVerifies
<1>. HIDE DEF c, body, fr, z
<1>6. gen' = [pc |-> "ip", todo |-> gen.todo, frame |-> fr]  BY <1>1 DEF FrameInv, GenTypes
<1>7. gen'.pc = "ip" /\ gen'.todo = gen.todo /\ gen'.frame = fr  BY <1>6
<1>8. CkInv' /\ CkSum' /\ data' = Padded(z) /\ ck_pc' = "sum"  BY <1>1, <1>5, CkCallKeeps DEF FrameInv
<1>9. Padded(z) = z
  <2>1. Len(z) % 2 /= 1  BY <1>5
  <2>. QED BY <2>1 DEF Padded
<1>10. GenTypes'  BY <1>6, <1>7 DEF FrameInv, GenTypes
<1>11. IpPart' /\ IcmpPart'
  <2>1. gen'.frame.from = c /\ gen'.frame.body = body /\ body = BodyOf(c)
        /\ z = IpHeader(body, IpId(c), Proto(c), 0)
    BY <1>4, <1>7 DEF body, z
  <2>. QED BY <1>1, <1>3, <1>4, <1>7, <1>8, <1>9, <2>1 DEF IpPart, IcmpPart
<1>12. PacketsOk' /\ WrittenOk'  BY <1>1 DEF FrameInv, PacketsOk, WrittenOk
<1>. QED BY <1>8, <1>10, <1>11, <1>12

LEMMA GenIpChecksumKeeps ==
  ASSUME FrameInv, GenIpChecksum
  PROVE  CkInv' /\ CkSum' /\ GenTypes' /\ IpPart' /\ IcmpPart' /\ PacketsOk' /\ WrittenOk'
<1>. DEFINE fr == gen.frame
            c == fr.from
            h == IpHeader(fr.body, IpId(c), Proto(c), checksum)
            z == IpHeader(fr.body, IpId(c), Proto(c), 0)
            f == [fr EXCEPT !.ip = h]
<1>1. /\ gen.pc = "ip" /\ ck_pc = "done" /\ UNCHANGED written
      /\ IF c.gen = "icmp"
           THEN gen' = [gen EXCEPT !.pc = "icmp", !.frame = f] /\ Call(f.body) /\ UNCHANGED packets
           ELSE FrameDone(f) /\ UNCHANGED ckVars
  BY DEF GenIpChecksum
<1>2. /\ IpCall(c) /\ fr.body = BodyOf(c) /\ FrameRecord(fr) /\ data = z /\ gen.todo /= <<>>
  BY <1>1 DEF FrameInv, IpPart
<1>3. /\ checksum \in Nat /\ checksum < WORD
      /\ (WSum(data, Len(data)) + checksum) % (WORD - 1) = 0
  BY <1>1, DoneFact DEF FrameInv
<1>4. /\ Len(z) = 20 /\ Len(h) = 20 /\ h[10] = Proto(c)
      /\ h[3] * BYTE + h[4] = 20 + Len(fr.body)
      /\ (WSum(z, 20) + checksum) % (WORD - 1) = 0 => Verifies(h)
  BY <1>2, <1>3, HeaderVerifies
<1>5. Verifies(h)  BY <1>2, <1>3, <1>4
<1>. HIDE DEF h, z
<1>6. f = [from |-> c, eth_type |-> fr.eth_type, ip |-> h, body |-> fr.body]
  BY <1>2 DEF FrameRecord
<1>7. f.from = c /\ f.ip = h /\ f.body = fr.body /\ FrameRecord(f)  BY <1>6 DEF FrameRecord
<1>. HIDE DEF f
<1>8. IpOk(f, Proto(c))  BY <1>4, <1>5, <1>7 DEF IpOk
<1>9. CASE c.gen = "icmp"
  <2>1. gen' = [gen EXCEPT !.pc = "icmp", !.frame = f] /\ Call(f.body) /\ UNCHANGED packets
    BY <1>1, <1>9
  <2>2. gen' = [pc |-> "icmp", todo |-> gen.todo, frame |-> f]  BY <2>1 DEF FrameInv, GenTypes
  <2>3. gen'.pc = "icmp" /\ gen'.todo = gen.todo /\ gen'.frame = f  BY <2>2
  <2>4. f.body \in Seq(Bytes) /\ f.body = IcmpPacket(0, c.size)  BY <1>2, <1>7, <1>9, BodyType
  <2>5. CkInv' /\ CkSum' /\ data' = Padded(f.body) /\ ck_pc' = "sum"
    BY <2>1, <2>4, CkCallKeeps DEF FrameInv
  <2>6. GenTypes'  BY <2>2, <2>3 DEF FrameInv, GenTypes
  <2>7. IpOk(f, 1)  BY <1>8, <1>9 DEF Proto
  <2>8. gen'.frame.from = c /\ gen'.frame.body = f.body  BY <1>7, <2>3
  <2>9. IcmpPart' /\ IpPart'
    BY <1>2, <1>7, <1>9, <2>3, <2>4, <2>5, <2>7, <2>8 DEF IpPart, IcmpPart
  <2>10. PacketsOk' /\ WrittenOk'  BY <1>1, <2>1 DEF FrameInv, PacketsOk, WrittenOk
  <2>. QED BY <2>5, <2>6, <2>9, <2>10
<1>10. CASE c.gen /= "icmp"
  <2>1. FrameDone(f) /\ UNCHANGED ckVars  BY <1>1, <1>10
  <2>2. IpOk(f, 17)  BY <1>8, <1>10 DEF Proto
  <2>3. FrameOk(f)
    <3>1. c.gen = "start" \/ c.gen = "credit"  BY <1>2, <1>10 DEF IpCall
    <3>2. CASE c.gen = "start"
      <4>1. LudpOk(f, 2) /\ f.body[12] = 0 /\ Number16(f.body, 17) = 1  BY <1>2, <1>7, <3>2, BodyType
      <4>. QED BY <1>7, <2>2, <3>2, <4>1 DEF FrameOk
    <3>3. CASE c.gen = "credit"
      <4>1. LudpOk(f, 6) /\ Number32(f.body, 13) = c.value  BY <1>2, <1>7, <3>3, BodyType
      <4>. QED BY <1>7, <2>2, <3>3, <4>1 DEF FrameOk
    <3>. QED BY <3>1, <3>2, <3>3
  <2>4. GenTypes' /\ IpPart' /\ IcmpPart' /\ PacketsOk' /\ WrittenOk'
    BY <1>1, <1>2, <2>1, <2>3, FrameDoneKeeps DEF FrameInv
  <2>. QED BY <2>1, <2>4, CkSame DEF FrameInv
<1>. QED BY <1>9, <1>10

LEMMA GenIcmpChecksumKeeps ==
  ASSUME FrameInv, GenIcmpChecksum
  PROVE  CkInv' /\ CkSum' /\ GenTypes' /\ IpPart' /\ IcmpPart' /\ PacketsOk' /\ WrittenOk'
<1>. DEFINE fr == gen.frame
            c == fr.from
            z == IcmpPacket(0, c.size)
            e == IcmpPacket(checksum, c.size)
            f == [fr EXCEPT !.body = e]
<1>1. /\ gen.pc = "icmp" /\ ck_pc = "done" /\ FrameDone(f) /\ UNCHANGED <<written, ckVars>>
  BY DEF GenIcmpChecksum
<1>2. /\ IpCall(c) /\ c.gen = "icmp" /\ IpOk(fr, 1) /\ fr.body = z /\ FrameRecord(fr)
      /\ gen.todo /= <<>> /\ data = Padded(z)
  BY <1>1 DEF FrameInv, IcmpPart
<1>3. c.size \in ICMP_SIZES /\ c.size \in Nat  BY <1>2, FieldAssumption DEF IpCall
<1>4. /\ checksum \in Nat /\ checksum < WORD
      /\ (WSum(data, Len(data)) + checksum) % (WORD - 1) = 0
  BY <1>1, DoneFact DEF FrameInv
<1>5. 0 \in Nat /\ 0 < WORD  BY WordFact
<1>6. z \in Seq(Bytes) /\ Len(z) = 8 + c.size  BY <1>3, <1>5, IcmpPacketType
<1>7. Len(e) = 8 + c.size  BY <1>3, <1>4, IcmpPacketType
<1>8. WSum(data, Len(data)) = WSum(z, Len(z))  BY <1>2, <1>6, PaddedSum
<1>9. Verifies(e)  BY <1>3, <1>4, <1>8, IcmpVerifies
<1>. HIDE DEF e, z
<1>10. f = [from |-> c, eth_type |-> fr.eth_type, ip |-> fr.ip, body |-> e]  BY <1>2 DEF FrameRecord
<1>11. f.from = c /\ f.ip = fr.ip /\ f.body = e  BY <1>10
<1>. HIDE DEF f
<1>12. IpOk(f, 1)  BY <1>2, <1>6, <1>7, <1>11 DEF IpOk
<1>13. FrameOk(f)  BY <1>2, <1>7, <1>9, <1>11, <1>12 DEF FrameOk
<1>14. GenTypes' /\ IpPart' /\ IcmpPart' /\ PacketsOk' /\ WrittenOk'
  BY <1>1, <1>2, <1>13, FrameDoneKeeps DEF FrameInv
<1>. QED BY <1>1, <1>14, CkSame DEF FrameInv

LEMMA FrameStep == FrameInv /\ [GenNext]_genVars => FrameInv'
<1>. SUFFICES ASSUME FrameInv, [GenNext]_genVars PROVE FrameInv'
  OBVIOUS
<1>. DEFINE G == CkInv' /\ CkSum' /\ GenTypes' /\ IpPart' /\ IcmpPart' /\ PacketsOk' /\ WrittenOk'
<1>1. FeedInv'  BY FeedStep DEF FrameInv
<1>. SUFFICES G
  BY <1>1 DEF FrameInv
<1>2. ASSUME UNCHANGED <<gen, packets, written, ckVars>> PROVE G
  <2>1. CkInv' /\ CkSum'  BY <1>2, CkSame DEF FrameInv
  <2>2. GenTypes' /\ IpPart' /\ IcmpPart' /\ PacketsOk' /\ WrittenOk'
    BY <1>2 DEF FrameInv, GenTypes, IpPart, IcmpPart, PacketsOk, WrittenOk, ckVars
  <2>. QED BY <2>1, <2>2
<1>3. ASSUME NEW pc, pc \notin {"ip", "icmp"}, gen' = [gen EXCEPT !.pc = pc], PacketsOk', WrittenOk',
             UNCHANGED ckVars
      PROVE  G
  <2>1. CkInv' /\ CkSum'  BY <1>3, CkSame DEF FrameInv
  <2>2. gen' = [pc |-> pc, todo |-> gen.todo, frame |-> gen.frame]  BY <1>3 DEF FrameInv, GenTypes
  <2>3. gen'.pc = pc /\ gen'.todo = gen.todo /\ gen'.frame = gen.frame  BY <2>2
  <2>4. GenTypes'  BY <2>2, <2>3 DEF FrameInv, GenTypes
  <2>5. IpPart' /\ IcmpPart'  BY <1>3, <2>3 DEF IpPart, IcmpPart
  <2>. QED BY <1>3, <2>1, <2>4, <2>5
<1>4. CASE UNCHANGED genVars  BY <1>2, <1>4 DEF genVars
<1>5. CASE \E type \in {"arp", "icmp", "ludp_start", "ludp_credit", "ludp_full"},
             credit \in CREDITS, size \in ICMP_SIZES : Main(type, credit, size)
  BY <1>5, MainKeeps
<1>6. CASE GenArp
  <2>1. gen.todo /= <<>> /\ FrameDone(ArpFrame) /\ UNCHANGED <<written, ckVars>>  BY <1>6 DEF GenArp
  <2>. QED BY <2>1, ArpFrameOk, FrameDoneKeeps, CkSame DEF FrameInv
<1>7. CASE GenRaises
  <2>1. gen' = [gen EXCEPT !.pc = "raised"] /\ UNCHANGED <<packets, written, ckVars>>
    BY <1>7 DEF GenRaises
  <2>2. PacketsOk' /\ WrittenOk'  BY <2>1 DEF FrameInv, PacketsOk, WrittenOk
  <2>. QED BY <1>3, <2>1, <2>2
<1>8. CASE GenIp  BY <1>8, GenIpKeeps
<1>9. CASE GenIpChecksum  BY <1>9, GenIpChecksumKeeps
<1>10. CASE GenIcmpChecksum  BY <1>10, GenIcmpChecksumKeeps
<1>11. CASE GenChecksumStep
  <2>1. CkStep /\ UNCHANGED <<gen, packets, written>>  BY <1>11 DEF GenChecksumStep
  <2>2. CkInv' /\ CkSum'  BY <2>1, CkStepKeeps DEF FrameInv
  <2>3. data' = data /\ ck_pc' /= "idle"  BY <2>1, StepSums DEF FrameInv
  <2>4. GenTypes' /\ PacketsOk' /\ WrittenOk'
    BY <2>1 DEF FrameInv, GenTypes, PacketsOk, WrittenOk
  <2>5. IpPart' /\ IcmpPart'  BY <2>1, <2>3 DEF FrameInv, IpPart, IcmpPart
  <2>. QED BY <2>2, <2>4, <2>5
<1>12. CASE FileOpen
  <2>1. gen' = [gen EXCEPT !.pc = "write"] /\ UNCHANGED <<packets, written, ckVars>>
    BY <1>12 DEF FileOpen
  <2>2. PacketsOk' /\ WrittenOk'  BY <2>1 DEF FrameInv, PacketsOk, WrittenOk
  <2>. QED BY <1>3, <2>1, <2>2
<1>13. CASE FileClose
  <2>1. /\ gen' = [gen EXCEPT !.pc = "idle"] /\ written' = written \cup {packets}
        /\ UNCHANGED <<packets, ckVars>>
    BY <1>13 DEF FileClose
  <2>2. PacketsOk' /\ WrittenOk'  BY <2>1 DEF FrameInv, PacketsOk, WrittenOk
  <2>. QED BY <1>3, <2>1, <2>2
<1>14. CASE DpiInit \/ DpiFeed  BY <1>2, <1>14 DEF DpiInit, DpiFeed
<1>. QED
  BY <1>4, <1>5, <1>6, <1>7, <1>8, <1>9, <1>10, <1>11, <1>12, <1>13, <1>14 DEF GenNext

\* Every frame the DUT is fed, whatever packet types, credits and payload sizes were
\* asked for, is one its stack takes and says what the call asked for: the lengths in
\* its headers are right and the checksums calculate_checksum put into it verify.
THEOREM FedFramesAreWellFormed == GenSpec => []FedFramesWellFormed
<1>1. GenInit => FrameInv
  <2>. SUFFICES ASSUME GenInit PROVE FrameInv
    OBVIOUS
  <2>1. FeedInv
    <3>1. Sequence(<<>>)  BY EmptySeq, SequenceOf
    <3>. QED BY <3>1 DEF GenInit, FeedInv, FileInv
  <2>2. CkInv
    BY ByteAssumption DEF GenInit, CkInit, CkInv, CkTypeOK, FoldsAccounted, Bytes
  <2>3. CkSum  BY DEF GenInit, CkInit, CkSum
  <2>4. gen.pc = "idle" /\ gen.todo = <<>> /\ GenTypes  BY DEF GenInit, GenTypes
  <2>5. PacketsOk /\ WrittenOk  BY DEF GenInit, PacketsOk, WrittenOk
  <2>. QED BY <2>1, <2>2, <2>3, <2>4, <2>5 DEF FrameInv, IpPart, IcmpPart
<1>2. FrameInv => FedFramesWellFormed
  <2>. SUFFICES ASSUME FrameInv, NEW n \in 1 .. Len(fed) PROVE FrameOk(fed[n])
    BY DEF FedFramesWellFormed
  <2>. DEFINE p == dpi.packet_data
              k == dpi.current_packet - 1
  <2>0. dpi.initialized  BY DEF FrameInv, FeedInv
  <2>1. /\ p = <<ArpFrame>> \/ \E w \in written : p = FirstPackets(w)
        /\ Sequence(p) /\ dpi.current_packet \in 1 .. Len(p) + 1 /\ fed = SubSeq(p, 1, k)
    BY <2>0 DEF FrameInv, FeedInv
  <2>2. Len(p) \in Nat  BY <2>1, LenProperties DEF Sequence
  <2>3. k \in 0 .. Len(p)
    <3>1. \A x, y : y \in Nat /\ x \in 1 .. y + 1 => x - 1 \in 0 .. y  OBVIOUS
    <3>. QED BY <2>1, <2>2, <3>1
  <2>4. n \in 1 .. Len(p) /\ fed[n] = p[n]
    BY <2>1, <2>2, <2>3 DEF Sequence
  <2>5. CASE p = <<ArpFrame>>
    <3>1. n = 1  BY <2>4, <2>5
    <3>. QED BY <2>4, <2>5, <3>1, ArpFrameOk
  <2>6. ASSUME NEW w \in written, p = FirstPackets(w) PROVE FrameOk(fed[n])
    <3>. DEFINE m == IF Len(w) > MAX_PACKETS THEN MAX_PACKETS ELSE Len(w)
    <3>1. Sequence(w) /\ Len(w) \in Nat  BY LenProperties DEF FrameInv, FeedInv, Sequence
    <3>2. m \in 0 .. Len(w) /\ p = SubSeq(w, 1, m)  BY <2>6, <3>1, PacketGenAssumption DEF FirstPackets
    <3>. HIDE DEF m
    <3>3. n \in 1 .. Len(w) /\ p[n] = w[n]  BY <2>4, <3>1, <3>2 DEF Sequence
    <3>. QED BY <2>4, <3>3 DEF FrameInv, WrittenOk
  <2>. QED BY <2>1, <2>5, <2>6
<1>. QED BY <1>1, <1>2, FrameStep, PTL DEF GenSpec

-----------------------------------------------------------------------------
\* The socket.

Packet == [kind : {"frame", "empty", "cmd"}, id : Nat]

\* What Frames flattens.
Singles(s) == [k \in 1 .. Len(s) |-> IF s[k].kind = "empty" THEN <<>> ELSE <<s[k]>>]
Single(p) == IF p.kind = "empty" THEN <<>> ELSE <<p>>

LEMMA SinglesType ==
  ASSUME NEW s \in Seq(Packet)
  PROVE  /\ Singles(s) \in Seq(Seq(Packet)) /\ Len(Singles(s)) = Len(s)
         /\ \A k \in 1 .. Len(s) : Singles(s)[k] = Single(s[k])
  BY DEF Singles, Single

LEMMA SingleType == ASSUME NEW p \in Packet PROVE Single(p) \in Seq(Packet)
  BY DEF Single

LEMMA FramesSingles == ASSUME NEW s PROVE Frames(s) = FlattenSeq(Singles(s))
  BY DEF Frames, Singles

LEMMA FramesEmpty == Frames(<<>>) = <<>>
<1>1. Singles(<<>>) = <<>>  BY DEF Singles
<1>. QED BY <1>1, FramesSingles, FlattenEmpty

LEMMA FramesType == ASSUME NEW s \in Seq(Packet) PROVE Frames(s) \in Seq(Packet)
  BY FramesSingles, SinglesType, FlattenType

LEMMA FramesAppend ==
  ASSUME NEW s \in Seq(Packet), NEW p \in Packet
  PROVE  Frames(Append(s, p)) = Frames(s) \o Single(p)
<1>. DEFINE e == Append(s, p)
            u == Singles(s)
            q == Single(p)
            v == Append(u, q)
<1>1. /\ e \in Seq(Packet) /\ Len(e) = Len(s) + 1 /\ Len(s) \in Nat /\ e[Len(s) + 1] = p
      /\ \A k \in 1 .. Len(s) : e[k] = s[k]
  OBVIOUS
<1>2. /\ u \in Seq(Seq(Packet)) /\ Len(u) = Len(s) /\ q \in Seq(Packet)
      /\ \A k \in 1 .. Len(s) : u[k] = Single(s[k])
  BY SinglesType, SingleType
<1>. HIDE DEF e, u, q
<1>3. /\ v \in Seq(Seq(Packet)) /\ Len(v) = Len(s) + 1 /\ v[Len(s) + 1] = q
      /\ \A k \in 1 .. Len(s) : v[k] = u[k]
  BY <1>2, AppendProperties
<1>4. Singles(e) \in Seq(Seq(Packet)) /\ Len(Singles(e)) = Len(s) + 1
  BY <1>1, SinglesType
<1>. HIDE DEF v
<1>5. \A k \in 1 .. Len(s) + 1 : Singles(e)[k] = v[k]
  <2>1. \A k \in 1 .. Len(s) + 1 : Singles(e)[k] = Single(e[k])  BY <1>1, SinglesType
  <2>2. Singles(e)[Len(s) + 1] = v[Len(s) + 1]  BY <1>1, <1>3, <2>1 DEF q
  <2>3. ASSUME NEW k \in 1 .. Len(s) PROVE Singles(e)[k] = v[k]
    <3>1. k \in 1 .. Len(s) + 1  BY <1>1
    <3>2. Singles(e)[k] = Single(s[k])  BY <1>1, <2>1, <3>1
    <3>. QED BY <1>2, <1>3, <3>2
  <2>. QED BY <1>1, <2>2, <2>3
<1>6. Singles(e) = v
  BY <1>3, <1>4, <1>5, SeqEqual
<1>7. FlattenSeq(v) = FlattenSeq(u) \o q
  BY <1>2, FlattenAppend DEF v
<1>. QED BY <1>6, <1>7, FramesSingles DEF e, u, q

LEMMA FramesHead ==
  ASSUME NEW s \in Seq(Packet), s /= <<>>
  PROVE  Frames(s) = Single(Head(s)) \o Frames(Tail(s))
<1>1. /\ Head(s) \in Packet /\ Tail(s) \in Seq(Packet) /\ Len(Tail(s)) = Len(s) - 1
      /\ Len(s) \in Nat \ {0} /\ Head(s) = s[1]
      /\ \A k \in 1 .. Len(s) - 1 : Tail(s)[k] = s[k + 1]
  OBVIOUS
<1>. DEFINE a == Single(Head(s))
            t == Singles(Tail(s))
            c == <<a>> \o t
<1>2. /\ a \in Seq(Packet) /\ t \in Seq(Seq(Packet)) /\ Len(t) = Len(s) - 1
      /\ \A k \in 1 .. Len(s) - 1 : t[k] = Single(s[k + 1])
  BY <1>1, SingleType, SinglesType
<1>. HIDE DEF a, t
<1>3. /\ c \in Seq(Seq(Packet)) /\ Len(c) = Len(s) /\ c[1] = a
      /\ \A k \in 2 .. Len(s) : c[k] = t[k - 1]
  <2>1. <<a>> \in Seq(Seq(Packet)) /\ Len(<<a>>) = 1 /\ <<a>>[1] = a  BY <1>2
  <2>2. /\ c \in Seq(Seq(Packet)) /\ Len(c) = 1 + Len(t)
        /\ \A k \in 1 .. 1 + Len(t) : c[k] = IF k <= 1 THEN <<a>>[k] ELSE t[k - 1]
    BY <1>2, <2>1, ConcatProperties
  <2>. HIDE DEF c
  <2>3. 1 + Len(t) = Len(s) /\ 1 \in 1 .. Len(s) /\ 1 <= 1  BY <1>1, <1>2
  <2>4. c[1] = a  BY <2>1, <2>2, <2>3
  <2>5. ASSUME NEW k \in 2 .. Len(s) PROVE c[k] = t[k - 1]
    <3>1. k \in 1 .. Len(s) /\ ~(k <= 1)  BY <1>1
    <3>. QED BY <2>2, <2>3, <3>1
  <2>. QED BY <2>2, <2>3, <2>4, <2>5
<1>4. Singles(s) = c
  <2>1. \A k \in 1 .. Len(s) : Singles(s)[k] = c[k]
    <3>. HIDE DEF c
    <3>1. Singles(s)[1] = c[1]  BY <1>1, <1>3, SinglesType DEF a
    <3>2. ASSUME NEW k \in 2 .. Len(s) PROVE Singles(s)[k] = c[k]
      <4>1. k - 1 \in 1 .. Len(s) - 1 /\ (k - 1) + 1 = k /\ k \in 1 .. Len(s)  BY <1>1
      <4>. QED BY <1>2, <1>3, <4>1, SinglesType
    <3>. QED BY <1>1, <3>1, <3>2
  <2>. HIDE DEF c
  <2>. QED BY <1>3, <2>1, SinglesType, SeqEqual
<1>5. FlattenSeq(c) = a \o FlattenSeq(t)
  BY <1>2, FlattenCons
<1>. HIDE DEF c
<1>. QED BY <1>4, <1>5, FramesSingles DEF a, t

ClientStates == {"start", "run", "raised", "failed", "done", "aborted"}

ClientRecord == [pc : ClientStates, tries : Nat, connected : BOOLEAN,
                 next_cmd_id : Nat, calls : Nat, sent : Seq(Packet)]

SockTypes ==
  /\ cl \in [CLIENTS -> ClientRecord]
  /\ sock \in [CLIENTS -> Seq(Packet)]
  /\ queue \in Seq(CLIENTS)
  /\ srv \in [initialized : BOOLEAN, client_fd : SUBSET CLIENTS, buffer : Seq(Packet),
              read_idx : Nat, lives : Nat]

\* A client that has not connected has sent nothing and is nowhere.
NotConnected(c) ==
  cl[c].sent = <<>> /\ sock[c] = <<>> /\ c \notin srv.client_fd
    /\ \A k \in 1 .. Len(queue) : queue[k] /= c

\* A client waits in the listen queue once, and all it has sent is in its socket.
QueueInv ==
  /\ \A j, k \in 1 .. Len(queue) : queue[j] = queue[k] => j = k
  /\ \A k \in 1 .. Len(queue) :
       queue[k] \notin srv.client_fd /\ sock[queue[k]] = cl[queue[k]].sent

\* One client at a time, and a buffer only for it.
ServerInv ==
  /\ \A c, d \in srv.client_fd : c = d
  /\ srv.client_fd = {} => srv.buffer = <<>>

SockInv ==
  /\ SockTypes /\ QueueInv /\ ServerInv /\ SocketConserves
  /\ \A c \in CLIENTS : cl[c].pc = "start" => NotConnected(c)

LEMMA ClientFields ==
  ASSUME NEW q \in ClientRecord
  PROVE  /\ q.pc \in ClientStates /\ q.tries \in Nat /\ q.calls \in Nat /\ q.next_cmd_id \in Nat
         /\ q.connected \in BOOLEAN /\ q.sent \in Seq(Packet)
         /\ q.tries + 1 \in Nat /\ q.calls + 1 \in Nat /\ q.next_cmd_id + 1 \in Nat
<1>1. /\ q.pc \in ClientStates /\ q.tries \in Nat /\ q.calls \in Nat /\ q.next_cmd_id \in Nat
      /\ q.connected \in BOOLEAN /\ q.sent \in Seq(Packet)
  BY DEF ClientRecord
<1>. QED BY <1>1

LEMMA SockInitial == DpiSocketInit => SockInv
<1>. SUFFICES ASSUME DpiSocketInit PROVE SockInv
  OBVIOUS
<1>1. SockTypes
  BY DEF DpiSocketInit, SockTypes, ClientRecord, ClientStates
<1>. QED BY <1>1 DEF DpiSocketInit, SockInv, QueueInv, ServerInv, SocketConserves, NotConnected

\* A step that moves no packet and connects no client.
LEMMA SockQuiet ==
  ASSUME SockInv, SockTypes', UNCHANGED <<sock, queue>>,
         UNCHANGED <<srv.client_fd, srv.buffer>>,
         \A c \in CLIENTS : cl'[c].sent = cl[c].sent /\ (cl'[c].pc = "start" => cl[c].pc = "start")
  PROVE  SockInv'
<1>1. QueueInv'
  <2>1. \A k \in 1 .. Len(queue) : queue[k] \in CLIENTS  BY DEF SockInv, SockTypes
  <2>. QED BY <2>1 DEF SockInv, QueueInv
<1>2. ServerInv'  BY DEF SockInv, ServerInv
<1>3. SocketConserves'
  <2>1. \A c \in srv.client_fd : c \in CLIENTS  BY DEF SockInv, SockTypes
  <2>. QED BY <2>1 DEF SockInv, SocketConserves
<1>4. ASSUME NEW c \in CLIENTS, cl'[c].pc = "start" PROVE NotConnected(c)'
  BY <1>4 DEF SockInv, NotConnected
<1>. QED BY <1>1, <1>2, <1>3, <1>4 DEF SockInv

LEMMA ConnectKeeps == ASSUME SockInv, NEW c \in CLIENTS, Connect(c) PROVE SockInv'
<1>1. /\ cl[c].pc = "start" /\ queue' = Append(queue, c) /\ UNCHANGED <<sock, srv>>
      /\ cl' = [cl EXCEPT ![c].pc = "run", ![c].connected = TRUE]
  BY DEF Connect
<1>2. SockTypes'
  <2>1. cl' = [cl EXCEPT ![c] = [@ EXCEPT !.pc = "run", !.connected = TRUE]]
    BY <1>1 DEF SockInv, SockTypes
  <2>2. [cl[c] EXCEPT !.pc = "run", !.connected = TRUE] \in ClientRecord
    BY DEF SockInv, SockTypes, ClientRecord, ClientStates
  <2>3. cl' \in [CLIENTS -> ClientRecord]  BY <2>1, <2>2 DEF SockInv, SockTypes
  <2>. QED BY <1>1, <2>3 DEF SockInv, SockTypes
<1>3. /\ \A d \in CLIENTS : cl'[d].sent = cl[d].sent /\ (cl'[d].pc = "start" => cl[d].pc = "start" /\ d /= c)
  BY <1>1 DEF SockInv, SockTypes, ClientRecord
<1>4. NotConnected(c)  BY <1>1 DEF SockInv
<1>5. /\ Len(queue) \in Nat /\ Len(queue') = Len(queue) + 1 /\ queue'[Len(queue) + 1] = c
      /\ \A k \in 1 .. Len(queue) : queue'[k] = queue[k] /\ queue[k] \in CLIENTS
  BY <1>1 DEF SockInv, SockTypes
<1>6. QueueInv'
  <2>1. \A j, k \in 1 .. Len(queue') : queue'[j] = queue'[k] => j = k
    BY <1>4, <1>5 DEF SockInv, QueueInv, NotConnected
  <2>2. ASSUME NEW k \in 1 .. Len(queue')
        PROVE  queue'[k] \notin srv'.client_fd /\ sock'[queue'[k]] = cl'[queue'[k]].sent
    <3>1. CASE k = Len(queue) + 1
      BY <1>1, <1>3, <1>4, <1>5, <3>1 DEF NotConnected
    <3>2. CASE k \in 1 .. Len(queue)
      <4>1. /\ queue'[k] = queue[k] /\ queue[k] \in CLIENTS /\ queue[k] \notin srv.client_fd
            /\ sock[queue[k]] = cl[queue[k]].sent
        BY <1>5, <3>2 DEF SockInv, QueueInv
      <4>. QED BY <1>1, <1>3, <4>1
    <3>. QED BY <1>5, <3>1, <3>2
  <2>. QED BY <2>1, <2>2 DEF QueueInv
<1>7. ServerInv'  BY <1>1 DEF SockInv, ServerInv
<1>8. SocketConserves'
  <2>1. \A d \in srv.client_fd : d \in CLIENTS  BY DEF SockInv, SockTypes
  <2>. QED BY <1>1, <1>3, <2>1 DEF SockInv, SocketConserves
<1>9. ASSUME NEW d \in CLIENTS, cl'[d].pc = "start" PROVE NotConnected(d)'
  <2>1. NotConnected(d) /\ d /= c  BY <1>3, <1>9 DEF SockInv
  <2>2. \A k \in 1 .. Len(queue') : queue'[k] /= d
    BY <1>5, <2>1 DEF NotConnected
  <2>. QED BY <1>1, <1>3, <2>1, <2>2 DEF NotConnected
<1>. QED BY <1>2, <1>6, <1>7, <1>8, <1>9 DEF SockInv

LEMMA SendKeeps ==
  ASSUME SockInv, NEW c \in CLIENTS, NEW kind \in {"frame", "empty", "cmd"}, SendPacket(c, kind)
  PROVE  SockInv'
<1>. DEFINE ok == cl[c].connected /\ Peer(c)
            p == [kind |-> kind, id |-> IF kind = "cmd" THEN cl[c].next_cmd_id ELSE 0]
<1>1. /\ cl[c].pc = "run" /\ UNCHANGED <<queue, srv>>
      /\ sock' = IF ok THEN [sock EXCEPT ![c] = Append(@, p)] ELSE sock
      /\ cl' = [cl EXCEPT ![c].calls = @ + 1,
                          ![c].pc = IF ok THEN "run" ELSE "raised",
                          ![c].next_cmd_id = IF kind = "cmd" THEN @ + 1 ELSE @,
                          ![c].sent = IF ok THEN Append(@, p) ELSE @]
  BY DEF SendPacket, Calling
<1>2. p \in Packet  BY DEF SockInv, SockTypes, ClientRecord, Packet
<1>. HIDE DEF p, ok
<1>3. /\ \A d \in CLIENTS : d /= c => cl'[d] = cl[d] /\ sock'[d] = sock[d]
      /\ cl'[c].pc /= "start"
      /\ ok => cl'[c].sent = Append(cl[c].sent, p) /\ sock'[c] = Append(sock[c], p)
      /\ ~ok => cl'[c].sent = cl[c].sent /\ UNCHANGED sock
  BY <1>1 DEF SockInv, SockTypes, ClientRecord
<1>4. SockTypes'
  <2>1. sock' \in [CLIENTS -> Seq(Packet)]  BY <1>1, <1>2 DEF SockInv, SockTypes
  <2>. DEFINE pc == IF ok THEN "run" ELSE "raised"
              n == cl[c].calls + 1
              id == IF kind = "cmd" THEN cl[c].next_cmd_id + 1 ELSE cl[c].next_cmd_id
              sent == IF ok THEN Append(cl[c].sent, p) ELSE cl[c].sent
              r == [cl[c] EXCEPT !.calls = n, !.pc = pc, !.next_cmd_id = id, !.sent = sent]
  <2>2. cl' \in [CLIENTS -> ClientRecord]
    <3>1. cl' = [cl EXCEPT ![c] = r]  BY <1>1 DEF SockInv, SockTypes
    <3>2. cl[c] \in ClientRecord  BY DEF SockInv, SockTypes
    <3>3. pc \in ClientStates /\ n \in Nat /\ id \in Nat /\ sent \in Seq(Packet)
      BY <1>2, <3>2, ClientFields, AppendProperties DEF ClientStates
    <3>. HIDE DEF pc, n, id, sent
    <3>4. r \in ClientRecord  BY <3>2, <3>3 DEF ClientRecord
    <3>. HIDE DEF r
    <3>. QED BY <3>1, <3>4 DEF SockInv, SockTypes
  <2>. QED BY <1>1, <2>1, <2>2 DEF SockInv, SockTypes
<1>5. CASE ~ok
  <2>1. \A d \in CLIENTS : cl'[d].sent = cl[d].sent /\ (cl'[d].pc = "start" => cl[d].pc = "start")
    BY <1>3, <1>5
  <2>. QED BY <1>1, <1>3, <1>4, <1>5, <2>1, SockQuiet
<1>6. CASE ok
  <2>1. \A k \in 1 .. Len(queue) : queue[k] \in CLIENTS  BY DEF SockInv, SockTypes
  <2>2. QueueInv'
    <3>1. ASSUME NEW k \in 1 .. Len(queue) PROVE sock'[queue[k]] = cl'[queue[k]].sent
      BY <1>3, <1>6, <2>1 DEF SockInv, QueueInv
    <3>. QED BY <1>1, <3>1 DEF SockInv, QueueInv
  <2>3. ServerInv'  BY <1>1 DEF SockInv, ServerInv
  <2>4. SocketConserves'
    <3>1. SUFFICES ASSUME NEW d \in srv.client_fd
                   PROVE  srv.buffer \o Frames(sock'[d]) = Frames(cl'[d].sent)
      BY <1>1 DEF SocketConserves
    <3>2. /\ d \in CLIENTS /\ srv.buffer \in Seq(Packet) /\ sock[d] \in Seq(Packet) /\ cl[d].sent \in Seq(Packet)
          /\ srv.buffer \o Frames(sock[d]) = Frames(cl[d].sent)
      BY DEF SockInv, SockTypes, ClientRecord, SocketConserves
    <3>3. CASE d /= c  BY <1>3, <3>2, <3>3
    <3>4. CASE d = c
      <4>1. /\ Frames(sock'[d]) = Cat(Frames(sock[d]), Single(p))
            /\ Frames(cl'[d].sent) = Cat(Frames(cl[d].sent), Single(p))
        BY <1>2, <1>3, <1>6, <3>2, <3>4, FramesAppend DEF Cat
      <4>2. Cat(srv.buffer, Frames(sock[d])) = Frames(cl[d].sent)  BY <3>2 DEF Cat
      <4>3. Cat(srv.buffer, Cat(Frames(sock[d]), Single(p))) = Cat(Cat(srv.buffer, Frames(sock[d])), Single(p))
        BY <1>2, <3>2, FramesType, SingleType, CatAssociative
      <4>4. Cat(srv.buffer, Frames(sock'[d])) = Frames(cl'[d].sent)  BY <4>1, <4>2, <4>3
      <4>. QED BY <4>4 DEF Cat
    <3>. QED BY <3>3, <3>4
  <2>5. ASSUME NEW d \in CLIENTS, cl'[d].pc = "start" PROVE NotConnected(d)'
    BY <1>1, <1>3, <2>5 DEF SockInv, NotConnected
  <2>. QED BY <1>4, <2>2, <2>3, <2>4, <2>5 DEF SockInv
<1>. QED BY <1>5, <1>6

LEMMA OtherClientSteps ==
  ASSUME SockInv, NEW c \in CLIENTS,
         ConnectRefused(c) \/ SendInherited(c) \/ ScriptDisconnect(c) \/ Exit(c)
  PROVE  SockInv'
<1>1. UNCHANGED <<sock, queue, srv>>
  BY DEF ConnectRefused, SendInherited, ScriptDisconnect, Exit
<1>2. PICK r : cl' = [cl EXCEPT ![c] = r] /\ r \in ClientRecord /\ r.sent = cl[c].sent
                 /\ (r.pc = "start" => cl[c].pc = "start")
  <2>0. cl[c] \in ClientRecord /\ cl \in [CLIENTS -> ClientRecord]  BY DEF SockInv, SockTypes
  <2>1. CASE ConnectRefused(c)
    <3>. DEFINE n == cl[c].tries + 1
                pc == IF n < CONNECT_TRIES THEN "start" ELSE "failed"
                r == [cl[c] EXCEPT !.tries = n, !.pc = pc]
    <3>1. cl' = [cl EXCEPT ![c] = r] /\ cl[c].pc = "start"  BY <2>0, <2>1 DEF ConnectRefused
    <3>2. n \in Nat /\ pc \in ClientStates  BY <2>0, ClientFields DEF ClientStates
    <3>. HIDE DEF n, pc
    <3>3. r \in ClientRecord /\ r.sent = cl[c].sent  BY <2>0, <3>2 DEF ClientRecord
    <3>. HIDE DEF r
    <3>. QED BY <3>1, <3>3
  <2>2. CASE SendInherited(c)
    <3>. DEFINE n == cl[c].calls + 1
                id == cl[c].next_cmd_id + 1
                r == [cl[c] EXCEPT !.calls = n, !.pc = "raised", !.next_cmd_id = id]
    <3>1. cl' = [cl EXCEPT ![c] = r]  BY <2>0, <2>2 DEF SendInherited
    <3>2. n \in Nat /\ id \in Nat  BY <2>0, ClientFields
    <3>. HIDE DEF n, id
    <3>3. r \in ClientRecord /\ r.sent = cl[c].sent /\ r.pc = "raised"
      BY <2>0, <3>2 DEF ClientRecord, ClientStates
    <3>. HIDE DEF r
    <3>. QED BY <3>1, <3>3
  <2>3. CASE ScriptDisconnect(c)
    <3>. DEFINE n == cl[c].calls + 1
                r == [cl[c] EXCEPT !.calls = n, !.connected = FALSE]
    <3>1. cl' = [cl EXCEPT ![c] = r]  BY <2>0, <2>3 DEF ScriptDisconnect
    <3>2. n \in Nat  BY <2>0, ClientFields
    <3>. HIDE DEF n
    <3>3. r \in ClientRecord /\ r.sent = cl[c].sent /\ r.pc = cl[c].pc
      BY <2>0, <3>2 DEF ClientRecord
    <3>. HIDE DEF r
    <3>. QED BY <3>1, <3>3
  <2>4. CASE Exit(c)
    <3>. DEFINE pc == IF cl[c].pc = "run" THEN "done" ELSE "aborted"
                r == [cl[c] EXCEPT !.connected = FALSE, !.pc = pc]
    <3>1. cl' = [cl EXCEPT ![c] = r]  BY <2>0, <2>4 DEF Exit
    <3>2. pc \in ClientStates /\ pc /= "start"  BY DEF ClientStates
    <3>. HIDE DEF pc
    <3>3. r \in ClientRecord /\ r.sent = cl[c].sent /\ r.pc = pc
      BY <2>0, <3>2 DEF ClientRecord
    <3>. HIDE DEF r
    <3>. QED BY <3>1, <3>2, <3>3
  <2>. QED BY <2>1, <2>2, <2>3, <2>4
<1>3. SockTypes'  BY <1>1, <1>2 DEF SockInv, SockTypes
<1>4. \A d \in CLIENTS : cl'[d].sent = cl[d].sent /\ (cl'[d].pc = "start" => cl[d].pc = "start")
  BY <1>2 DEF SockInv, SockTypes
<1>. QED BY <1>1, <1>3, <1>4, SockQuiet

LEMMA AcceptKeeps == ASSUME SockInv, Accept PROVE SockInv'
<1>1. /\ srv.client_fd = {} /\ queue /= <<>> /\ UNCHANGED <<cl, sock>>
      /\ srv' = [srv EXCEPT !.client_fd = {Head(queue)}] /\ queue' = Tail(queue)
  BY DEF Accept
<1>2. /\ Head(queue) = queue[1] /\ Head(queue) \in CLIENTS /\ Len(queue) \in Nat \ {0}
      /\ queue' \in Seq(CLIENTS) /\ Len(queue') = Len(queue) - 1
      /\ \A k \in 1 .. Len(queue) - 1 : queue'[k] = queue[k + 1]
  BY <1>1 DEF SockInv, SockTypes
<1>3. /\ srv'.client_fd = {Head(queue)} /\ srv'.buffer = srv.buffer /\ srv.buffer = <<>>
      /\ SockTypes'
  BY <1>1, <1>2 DEF SockInv, SockTypes, ServerInv
<1>4. QueueInv'
  <2>1. ASSUME NEW j \in 1 .. Len(queue'), NEW k \in 1 .. Len(queue'), queue'[j] = queue'[k]
        PROVE  j = k
    <3>1. j + 1 \in 1 .. Len(queue) /\ k + 1 \in 1 .. Len(queue) /\ queue[j + 1] = queue[k + 1]
      BY <1>2, <2>1
    <3>2. j + 1 = k + 1  BY <3>1 DEF SockInv, QueueInv
    <3>. QED BY <1>2, <3>2
  <2>2. ASSUME NEW k \in 1 .. Len(queue')
        PROVE  queue'[k] \notin srv'.client_fd /\ sock'[queue'[k]] = cl'[queue'[k]].sent
    <3>1. k + 1 \in 1 .. Len(queue) /\ queue'[k] = queue[k + 1] /\ 1 \in 1 .. Len(queue) /\ k + 1 /= 1
      BY <1>2
    <3>2. queue[k + 1] /= queue[1]  BY <3>1 DEF SockInv, QueueInv
    <3>3. sock[queue[k + 1]] = cl[queue[k + 1]].sent  BY <3>1 DEF SockInv, QueueInv
    <3>. QED BY <1>1, <1>2, <1>3, <3>1, <3>2, <3>3
  <2>. QED BY <2>1, <2>2 DEF QueueInv
<1>5. ServerInv'  BY <1>3 DEF ServerInv
<1>6. SocketConserves'
  <2>1. sock[Head(queue)] = cl[Head(queue)].sent /\ sock[Head(queue)] \in Seq(Packet)
    <3>1. 1 \in 1 .. Len(queue)  BY <1>2
    <3>. QED BY <1>2, <3>1 DEF SockInv, QueueInv, SockTypes
  <2>2. srv.buffer \o Frames(sock[Head(queue)]) = Frames(cl[Head(queue)].sent)
    BY <1>3, <2>1, FramesType, ConcatEmptySeq
  <2>. QED BY <1>1, <1>3, <2>2 DEF SocketConserves
<1>7. ASSUME NEW d \in CLIENTS, cl'[d].pc = "start" PROVE NotConnected(d)'
  <2>1. NotConnected(d)  BY <1>1, <1>7 DEF SockInv
  <2>2. Head(queue) /= d
    <3>1. 1 \in 1 .. Len(queue)  BY <1>2
    <3>. QED BY <1>2, <2>1, <3>1 DEF NotConnected
  <2>3. \A k \in 1 .. Len(queue') : queue'[k] /= d
    <3>1. \A k \in 1 .. Len(queue') : k + 1 \in 1 .. Len(queue)  BY <1>2
    <3>. QED BY <1>2, <2>1, <3>1 DEF NotConnected
  <2>. QED BY <1>1, <1>3, <2>1, <2>2, <2>3 DEF NotConnected
<1>. QED BY <1>3, <1>4, <1>5, <1>6, <1>7 DEF SockInv

LEMMA ReceiveKeeps == ASSUME SockInv, Receive PROVE SockInv'
<1>1. PICK c \in srv.client_fd :
        /\ sock[c] /= <<>> /\ sock' = [sock EXCEPT ![c] = Tail(@)] /\ UNCHANGED <<cl, queue>>
        /\ \/ Head(sock[c]).kind = "empty" /\ UNCHANGED srv
           \/ Head(sock[c]).kind /= "empty" /\ srv' = [srv EXCEPT !.buffer = Append(@, Head(sock[c]))]
  BY DEF Receive
<1>. DEFINE p == Head(sock[c])
            t == Tail(sock[c])
<1>2. /\ c \in CLIENTS /\ sock[c] \in Seq(Packet) /\ srv.buffer \in Seq(Packet)
      /\ srv \in [initialized : BOOLEAN, client_fd : SUBSET CLIENTS, buffer : Seq(Packet),
                  read_idx : Nat, lives : Nat]
      /\ sock \in [CLIENTS -> Seq(Packet)] /\ queue \in Seq(CLIENTS)
      /\ srv.buffer \o Frames(sock[c]) = Frames(cl[c].sent)
  BY DEF SockInv, SockTypes, SocketConserves
<1>3. p \in Packet /\ t \in Seq(Packet) /\ Frames(sock[c]) = Single(p) \o Frames(t)
  BY <1>1, <1>2, FramesHead, HeadTailProperties
<1>. HIDE DEF p, t
<1>4. srv'.buffer = srv.buffer \o Single(p) /\ srv'.buffer \in Seq(Packet)
  <2>1. CASE p.kind = "empty"
    <3>1. Single(p) = <<>> /\ srv'.buffer = srv.buffer  BY <1>1, <2>1 DEF p, Single
    <3>. QED BY <1>2, <3>1, ConcatEmptySeq
  <2>2. CASE p.kind /= "empty"
    <3>1. Single(p) = <<p>> /\ srv'.buffer = Append(srv.buffer, p)  BY <1>1, <1>2, <2>2 DEF p, Single
    <3>. QED BY <1>2, <1>3, <3>1, AppendIsConcat, AppendProperties
  <2>. QED BY <2>1, <2>2
<1>5. /\ srv'.client_fd = srv.client_fd
      /\ srv' \in [initialized : BOOLEAN, client_fd : SUBSET CLIENTS, buffer : Seq(Packet),
                   read_idx : Nat, lives : Nat]
  <2>1. CASE UNCHANGED srv  BY <1>2, <2>1
  <2>2. CASE srv' = [srv EXCEPT !.buffer = Append(@, Head(sock[c]))]
    <3>1. Append(srv.buffer, p) \in Seq(Packet)  BY <1>2, <1>3, AppendProperties
    <3>2. srv' = [srv EXCEPT !.buffer = Append(srv.buffer, p)]  BY <2>2 DEF p
    <3>. QED BY <1>2, <3>1, <3>2
  <2>. QED BY <1>1, <2>1, <2>2
<1>6. sock'[c] = t /\ \A d \in CLIENTS : d /= c => sock'[d] = sock[d]
  BY <1>1, <1>2 DEF t
<1>7. SockTypes'
  <2>1. sock' \in [CLIENTS -> Seq(Packet)]  BY <1>1, <1>2, <1>3 DEF t
  <2>. QED BY <1>1, <1>5, <2>1 DEF SockInv, SockTypes
<1>8. QueueInv'
  <2>1. ASSUME NEW k \in 1 .. Len(queue)
        PROVE  queue[k] \notin srv.client_fd /\ sock'[queue[k]] = cl[queue[k]].sent
    <3>1. queue[k] \in CLIENTS /\ queue[k] /= c /\ queue[k] \notin srv.client_fd
      BY <1>2 DEF SockInv, QueueInv
    <3>. QED BY <1>6, <3>1 DEF SockInv, QueueInv
  <2>. QED BY <1>1, <1>5, <2>1 DEF SockInv, QueueInv
<1>9. ServerInv'  BY <1>5 DEF SockInv, ServerInv
<1>10. SocketConserves'
  <2>1. Cat(srv'.buffer, Frames(t)) = Frames(cl[c].sent)
    <3>1. Cat(Cat(srv.buffer, Single(p)), Frames(t)) = Cat(srv.buffer, Cat(Single(p), Frames(t)))
      BY <1>2, <1>3, FramesType, SingleType, CatAssociative
    <3>2. Cat(srv.buffer, Cat(Single(p), Frames(t))) = Frames(cl[c].sent)  BY <1>2, <1>3 DEF Cat
    <3>3. srv'.buffer = Cat(srv.buffer, Single(p))  BY <1>4 DEF Cat
    <3>. QED BY <3>1, <3>2, <3>3
  <2>2. \A d \in srv'.client_fd : d = c  BY <1>5 DEF SockInv, ServerInv
  <2>3. srv'.buffer \o Frames(sock'[c]) = Frames(cl'[c].sent)  BY <1>1, <1>6, <2>1 DEF Cat
  <2>. QED BY <2>2, <2>3 DEF SocketConserves
<1>11. ASSUME NEW d \in CLIENTS, cl'[d].pc = "start" PROVE NotConnected(d)'
  <2>1. NotConnected(d) /\ d /= c  BY <1>1, <1>11 DEF SockInv, NotConnected
  <2>. QED BY <1>1, <1>5, <1>6, <2>1 DEF NotConnected
<1>. QED BY <1>7, <1>8, <1>9, <1>10, <1>11 DEF SockInv

LEMMA CleanupKeeps == ASSUME SockInv, Cleanup PROVE SockInv'
<1>1. /\ srv' = [initialized |-> FALSE, client_fd |-> {}, buffer |-> <<>>, read_idx |-> 0,
                 lives |-> srv.lives]
      /\ sock' = [c \in CLIENTS |-> <<>>] /\ queue' = <<>> /\ UNCHANGED cl
  BY DEF Cleanup
<1>2. SockTypes'  BY <1>1 DEF SockInv, SockTypes
<1>3. ASSUME NEW c \in CLIENTS, cl'[c].pc = "start" PROVE NotConnected(c)'
  BY <1>1, <1>3 DEF SockInv, NotConnected
<1>. QED BY <1>1, <1>2, <1>3 DEF SockInv, QueueInv, ServerInv, SocketConserves

\* Between a test script and the testbench no packet is lost, repeated or overtaken, for
\* any number of clients and restarts of the simulation: what dpi_socket.c has buffered,
\* and then what is in the socket, is what the accepted client has sent.
THEOREM SocketIsExact == DpiSocketSpec => []SocketConserves
<1>1. SockInv /\ [DpiSocketNext]_dpiVars => SockInv'
  <2>. SUFFICES ASSUME SockInv, [DpiSocketNext]_dpiVars PROVE SockInv'
    OBVIOUS
  <2>0. \A c \in CLIENTS : cl'[c] = cl[c] =>
          cl'[c].sent = cl[c].sent /\ (cl'[c].pc = "start" => cl[c].pc = "start")
    OBVIOUS
  <2>1. CASE UNCHANGED dpiVars
    <3>1. SockTypes'  BY <2>1 DEF dpiVars, SockInv, SockTypes
    <3>. QED BY <2>0, <2>1, <3>1, SockQuiet DEF dpiVars
  <2>2. ASSUME NEW c \in CLIENTS, Client(c) PROVE SockInv'
    BY <2>2, ConnectKeeps, SendKeeps, OtherClientSteps DEF Client
  <2>3. CASE ServerInit
    <3>. DEFINE n == srv.lives + 1
    <3>1. /\ n \in Nat /\ srv' = [srv EXCEPT !.initialized = TRUE, !.lives = n]
          /\ UNCHANGED <<sock, queue, cl>>
      BY <2>3 DEF ServerInit, SockInv, SockTypes
    <3>. HIDE DEF n
    <3>2. /\ SockTypes' /\ srv'.client_fd = srv.client_fd /\ srv'.buffer = srv.buffer
      BY <3>1 DEF SockInv, SockTypes
    <3>. QED BY <2>0, <3>1, <3>2, SockQuiet
  <2>4. CASE ReadPacket
    <3>. DEFINE n == srv.read_idx + 1
    <3>1. /\ n \in Nat /\ srv' = [srv EXCEPT !.read_idx = n]
          /\ UNCHANGED <<sock, queue, cl>>
      BY <2>4 DEF ReadPacket, SockInv, SockTypes
    <3>. HIDE DEF n
    <3>2. /\ SockTypes' /\ srv'.client_fd = srv.client_fd /\ srv'.buffer = srv.buffer
      BY <3>1 DEF SockInv, SockTypes
    <3>. QED BY <2>0, <3>1, <3>2, SockQuiet
  <2>. QED BY <2>1, <2>2, <2>3, <2>4, AcceptKeeps, ReceiveKeeps, CleanupKeeps DEF DpiSocketNext
<1>2. SockInv => SocketConserves
  BY DEF SockInv
<1>. QED BY <1>1, <1>2, SockInitial, PTL DEF DpiSocketSpec

-----------------------------------------------------------------------------
\* The coverage report.

EntrySet == FIDS \X Nat

LEMMA ElementEntriesType ==
  ASSUME NEW metric, NEW e \in Elements
  PROVE  ElementEntries(metric, e) \in Seq(EntrySet)
<1>1. <<e.fid, e.line>> \in EntrySet /\ <<e.fid, e.line_f>> \in EntrySet
  BY DEF Elements, EntrySet
<1>. QED BY <1>1 DEF ElementEntries

LEMMA EntriesType ==
  ASSUME NEW metric, NEW shape \in Seq(Definitions), NEW chksum
  PROVE  Entries(metric, shape, chksum) \in Seq(EntrySet)
<1>. DEFINE ds == [k \in 1 .. Len(shape) |->
                     IF shape[k].chksum = chksum THEN shape[k].elems ELSE <<>>]
            es == FlattenSeq(ds)
            xs == [k \in 1 .. Len(es) |-> ElementEntries(metric, es[k])]
<1>1. ds \in Seq(Seq(Elements))
  <2>0. \A d \in Definitions : d.elems \in Seq(Elements)  BY DEF Definitions
  <2>1. \A k \in 1 .. Len(shape) : shape[k].elems \in Seq(Elements)  BY <2>0
  <2>. QED BY <2>1
<1>2. es \in Seq(Elements)  BY <1>1, FlattenType
<1>. HIDE DEF es
<1>3. \A k \in 1 .. Len(es) : ElementEntries(metric, es[k]) \in Seq(EntrySet)
  BY <1>2, ElementEntriesType
<1>4. xs \in Seq(Seq(EntrySet))  BY <1>2, <1>3
<1>5. FlattenSeq(xs) \in Seq(EntrySet)  BY <1>4, FlattenType
<1>. QED BY <1>5 DEF Entries, es

LEMMA NamesFinite == /\ IsFiniteSet(Names) /\ FilteredNames \subseteq Names
                     /\ IsFiniteSet(FilteredNames) /\ KeyNames \subseteq Names
<1>1. IsFiniteSet({"file"}) /\ IsFiniteSet({"unknown"})  BY FS_Singleton
<1>2. IsFiniteSet({"file"} \X SOURCES) /\ IsFiniteSet({"unknown"} \X FIDS)
  BY <1>1, FS_Product, CoverageAssumption
<1>3. IsFiniteSet(Names)  BY <1>2, FS_Union DEF Names
<1>4. FilteredNames \subseteq Names /\ KeyNames \subseteq Names
  BY CoverageAssumption DEF FilteredNames, KeyNames, Names
<1>. QED BY <1>3, <1>4, FS_Subset

\* The bits set among the first p.
OnesTo(bits, p) == Cardinality({j \in 1 .. Len(bits) : j <= p /\ bits[j] = 1})

LEMMA OnesStep ==
  ASSUME NEW bits \in Seq({0, 1}), NEW p \in Nat
  PROVE  /\ OnesTo(bits, p) \in Nat /\ OnesTo(bits, 0) = 0
         /\ p + 1 <= Len(bits) /\ bits[p + 1] = 1 => OnesTo(bits, p + 1) = OnesTo(bits, p) + 1
         /\ ~(p + 1 <= Len(bits) /\ bits[p + 1] = 1) => OnesTo(bits, p + 1) = OnesTo(bits, p)
<1>. DEFINE S(q) == {j \in 1 .. Len(bits) : j <= q /\ bits[j] = 1}
<1>0. Len(bits) \in Nat  OBVIOUS
<1>1. ASSUME NEW q \in Nat PROVE IsFiniteSet(S(q))
  <2>1. IsFiniteSet(1 .. Len(bits))  BY <1>0, FS_Interval
  <2>. QED BY <2>1, FS_Subset
<1>2. Cardinality(S(p)) \in Nat  BY <1>1, FS_CardinalityType
<1>3. S(0) = {}  BY <1>0
<1>4. Cardinality(S(0)) = 0  BY <1>3, FS_EmptySet
<1>5. CASE p + 1 <= Len(bits) /\ bits[p + 1] = 1
  <2>1. S(p + 1) = S(p) \cup {p + 1} /\ p + 1 \notin S(p)  BY <1>0, <1>5
  <2>2. Cardinality(S(p + 1)) = Cardinality(S(p)) + 1  BY <1>1, <2>1, FS_AddElement
  <2>. QED BY <1>2, <1>4, <1>5, <2>2 DEF OnesTo
<1>6. CASE ~(p + 1 <= Len(bits) /\ bits[p + 1] = 1)
  <2>1. S(p + 1) = S(p)  BY <1>0, <1>6
  <2>2. Cardinality(S(p + 1)) = Cardinality(S(p))  BY <2>1
  <2>. QED BY <1>2, <1>4, <1>6, <2>2 DEF OnesTo
<1>. QED BY <1>5, <1>6

FileStats == [total : Nat, covered : Nat, lines : Seq(Nat)]
Sums == [all : Nat, cov_all : Nat, filt : Nat, cov_filt : Nat]

CovTypes ==
  /\ cov \in [pc : {"idle", "raised", "data", "report", "ranges", "end"},
              metric : {"line", "branch", "cond"}, shape : Seq(Definitions), data : Seq(Instances),
              fmap : [FIDS -> Names], inst : Nat, pos : Nat]
  /\ stats \in [Names -> FileStats]
  /\ rep \in [todo : SUBSET Names, printed : Sums, summary : Sums]

\* What the bits of the current instance have contributed so far.
CurrentHits ==
  IF cov.inst <= Len(cov.data) THEN OnesTo(cov.data[cov.inst].bits, cov.pos - 1) ELSE 0

\* The files together have what the instances before this one, and the entries
\* before this one, contributed.
CountInv ==
  /\ \A n \in Names : stats[n].covered + Len(stats[n].lines) = stats[n].total
  /\ cov.pc = "idle" =>
       /\ cov.inst = 1 /\ cov.pos = 1
       /\ SumFunctionOnSet(Totals, Names) = 0 /\ SumFunctionOnSet(Covereds, Names) = 0
  /\ cov.pc = "data" =>
       /\ cov.inst >= 1 /\ cov.inst <= Len(cov.data) + 1 /\ cov.pos >= 1
       /\ cov.inst > Len(cov.data) => cov.pos = 1
       /\ cov.inst <= Len(cov.data) => cov.pos <= EntryCount[cov.inst] + 1
       /\ SumFunctionOnSet(Totals, Names)
            = SumFunctionOnSet(EntryCount, 1 .. cov.inst - 1) + cov.pos - 1
       /\ SumFunctionOnSet(Covereds, Names)
            = SumFunctionOnSet(HitCount, 1 .. cov.inst - 1) + CurrentHits
  /\ cov.pc \in {"report", "ranges", "end"} =>
       /\ SumFunctionOnSet(Totals, Names) = SumFunctionOnSet(EntryCount, 1 .. Len(cov.data))
       /\ SumFunctionOnSet(Covereds, Names) = SumFunctionOnSet(HitCount, 1 .. Len(cov.data))

\* What the rows in print add up to, and what the files to come will add, is all there is.
ReportInv ==
  /\ cov.pc \in {"idle", "data"} => rep.printed = NoSums
  /\ cov.pc = "report" =>
       /\ rep.printed.all + SumFunctionOnSet(Totals, rep.todo) = Overall.all
       /\ rep.printed.cov_all + SumFunctionOnSet(Covereds, rep.todo) = Overall.cov_all
       /\ rep.printed.filt + SumFunctionOnSet(Totals, rep.todo \cap FilteredNames) = Overall.filt
       /\ rep.printed.cov_filt + SumFunctionOnSet(Covereds, rep.todo \cap FilteredNames)
            = Overall.cov_filt
  /\ cov.pc \in {"ranges", "end"} => rep.printed = Overall
  /\ cov.pc = "end" => rep.summary = Overall

CovInv == CovTypes /\ CountInv /\ ReportInv

LEMMA CovFields ==
  ASSUME CovTypes
  PROVE  /\ \A S \in SUBSET Names :
              /\ IsFiniteSet(S)
              /\ SumFunctionOnSet(Totals, S) \in Nat /\ SumFunctionOnSet(Covereds, S) \in Nat
         /\ \A n \in Names : /\ Totals[n] = stats[n].total /\ Covereds[n] = stats[n].covered
                             /\ stats[n] \in FileStats
                             /\ stats[n].total \in Nat /\ stats[n].covered \in Nat
         /\ Overall \in Sums
<1>1. \A n \in Names : /\ Totals[n] = stats[n].total /\ Covereds[n] = stats[n].covered
                       /\ stats[n] \in FileStats
                       /\ stats[n].total \in Nat /\ stats[n].covered \in Nat
  <2>1. \A r \in FileStats : r.total \in Nat /\ r.covered \in Nat  BY DEF FileStats
  <2>. QED BY <2>1 DEF Totals, Covereds, CovTypes
<1>2. ASSUME NEW S \in SUBSET Names
      PROVE  /\ IsFiniteSet(S) /\ SumFunctionOnSet(Totals, S) \in Nat
             /\ SumFunctionOnSet(Covereds, S) \in Nat
  <2>1. IsFiniteSet(S)  BY NamesFinite, FS_Subset
  <2>2. \A n \in S : Totals[n] \in Nat /\ Covereds[n] \in Nat  BY <1>1
  <2>. QED BY <2>1, <2>2, SumType
<1>3. Overall \in Sums
  <2>1. Names \in SUBSET Names /\ FilteredNames \in SUBSET Names  BY NamesFinite
  <2>. QED BY <1>2, <2>1 DEF Overall, Sums
<1>. QED BY <1>1, <1>2, <1>3

CountTypes ==
  /\ Len(cov.data) \in Nat
  /\ \A k \in 1 .. Len(cov.data) :
       /\ cov.data[k].bits \in Seq({0, 1})
       /\ EntryCount[k] \in Nat /\ HitCount[k] \in Nat
       /\ EntryCount[k] = Len(Entries(cov.metric, cov.shape, cov.data[k].chksum))
       /\ HitCount[k] = OnesTo(cov.data[k].bits, EntryCount[k])
  /\ \A m \in Nat : m <= Len(cov.data) =>
       /\ SumFunctionOnSet(EntryCount, 1 .. m) \in Nat
       /\ SumFunctionOnSet(HitCount, 1 .. m) \in Nat

LEMMA CountFields == CovTypes => CountTypes
<1>. SUFFICES ASSUME CovTypes PROVE CountTypes
  OBVIOUS
<1>1. /\ cov.shape \in Seq(Definitions) /\ cov.data \in Seq(Instances) /\ Len(cov.data) \in Nat
  BY DEF CovTypes
<1>2. ASSUME NEW k \in 1 .. Len(cov.data)
      PROVE  /\ cov.data[k].bits \in Seq({0, 1})
             /\ EntryCount[k] \in Nat /\ HitCount[k] \in Nat
             /\ EntryCount[k] = Len(Entries(cov.metric, cov.shape, cov.data[k].chksum))
             /\ HitCount[k] = OnesTo(cov.data[k].bits, EntryCount[k])
  <2>1. \A d \in Instances : d.bits \in Seq({0, 1})  BY DEF Instances
  <2>2. cov.data[k].bits \in Seq({0, 1})  BY <1>1, <2>1
  <2>3. Entries(cov.metric, cov.shape, cov.data[k].chksum) \in Seq(EntrySet)  BY <1>1, EntriesType
  <2>4. EntryCount[k] = Len(Entries(cov.metric, cov.shape, cov.data[k].chksum))  BY DEF EntryCount
  <2>5. EntryCount[k] \in Nat  BY <2>3, <2>4
  <2>6. HitCount[k] = OnesTo(cov.data[k].bits, EntryCount[k])  BY DEF HitCount, OnesTo
  <2>. QED BY <2>2, <2>4, <2>5, <2>6, OnesStep
<1>3. ASSUME NEW m \in Nat, m <= Len(cov.data)
      PROVE  /\ SumFunctionOnSet(EntryCount, 1 .. m) \in Nat
             /\ SumFunctionOnSet(HitCount, 1 .. m) \in Nat
  <2>1. IsFiniteSet(1 .. m)  BY FS_Interval
  <2>2. \A k \in 1 .. m : EntryCount[k] \in Nat /\ HitCount[k] \in Nat  BY <1>1, <1>2, <1>3
  <2>. QED BY <2>1, <2>2, SumType
<1>. QED BY <1>1, <1>2, <1>3 DEF CountTypes

\* One instance more.
LEMMA CountUpTo ==
  ASSUME CovTypes, NEW m \in 1 .. Len(cov.data)
  PROVE  /\ SumFunctionOnSet(EntryCount, 1 .. m)
              = EntryCount[m] + SumFunctionOnSet(EntryCount, 1 .. m - 1)
         /\ SumFunctionOnSet(HitCount, 1 .. m)
              = HitCount[m] + SumFunctionOnSet(HitCount, 1 .. m - 1)
<1>0. Len(cov.data) \in Nat  BY CountFields DEF CountTypes
<1>1. m \in Nat /\ m \in 1 .. m /\ (1 .. m) \ {m} = 1 .. m - 1  BY <1>0
<1>2. IsFiniteSet(1 .. m)  BY <1>1, FS_Interval
<1>3. \A k \in 1 .. m : EntryCount[k] \in Nat /\ HitCount[k] \in Nat  BY <1>0, CountFields DEF CountTypes
<1>4. \A f : (\A k \in 1 .. m : f[k] \in Nat) =>
        SumFunctionOnSet(f, 1 .. m) = f[m] + SumFunctionOnSet(f, (1 .. m) \ {m})
  BY <1>1, <1>2, SumRemove
<1>. QED BY <1>1, <1>3, <1>4

LEMMA CovInitial == CovInit => CovInv
<1>. SUFFICES ASSUME CovInit PROVE CovInv
  OBVIOUS
<1>1. CovTypes
  <2>1. cov.fmap \in [FIDS -> Names]  BY DEF CovInit, Names
  <2>2. stats \in [Names -> FileStats]  BY DEF CovInit, NoStats, FileStats
  <2>. QED BY <2>1, <2>2 DEF CovInit, CovTypes, NoSums, Sums
<1>2. \A n \in Names : Totals[n] = 0 /\ Covereds[n] = 0 /\ stats[n].covered = 0
                         /\ stats[n].total = 0 /\ Len(stats[n].lines) = 0
  BY DEF CovInit, NoStats, Totals, Covereds
<1>3. ASSUME NEW f, \A n \in Names : f[n] = 0 PROVE SumFunctionOnSet(f, Names) = 0
  <2>. DEFINE Q == {S \in SUBSET Names : SumFunctionOnSet(f, S) = 0}
  <2>1. {} \in Q  BY SumEmpty
  <2>2. ASSUME NEW S \in SUBSET Names, S /= {}, S \ {Pick(S)} \in Q PROVE S \in Q
    <3>1. IsFiniteSet(S) /\ f[Pick(S)] = 0  BY <1>3, <2>2, NamesFinite, FS_Subset, PickElement
    <3>2. SumFunctionOnSet(f, S) = f[Pick(S)] + SumFunctionOnSet(f, S \ {Pick(S)})
      BY <2>2, <3>1, SumUnfold
    <3>. QED BY <2>2, <3>1, <3>2
  <2>. HIDE DEF Q
  <2>3. SUBSET Names \subseteq Q  BY <2>1, <2>2, NamesFinite, FiniteSetInduction
  <2>4. Names \in Q  BY <2>3
  <2>. QED BY <2>4 DEF Q
<1>4. SumFunctionOnSet(Totals, Names) = 0 /\ SumFunctionOnSet(Covereds, Names) = 0
  BY <1>2, <1>3
<1>5. CountInv  BY <1>2, <1>4 DEF CovInit, CountInv
<1>6. ReportInv  BY DEF CovInit, ReportInv
<1>. QED BY <1>1, <1>5, <1>6 DEF CovInv

\* The counts are functions of the databases.
LEMMA CountsUnchanged ==
  ASSUME cov'.metric = cov.metric, cov'.shape = cov.shape, cov'.data = cov.data
  PROVE  EntryCount' = EntryCount /\ HitCount' = HitCount
<1>1. EntryCount' = EntryCount  BY DEF EntryCount
<1>. QED BY <1>1 DEF HitCount

LEMMA SumsUnchanged ==
  ASSUME UNCHANGED stats
  PROVE  Totals' = Totals /\ Covereds' = Covereds /\ Overall' = Overall
<1>1. Totals' = Totals /\ Covereds' = Covereds  BY DEF Totals, Covereds
<1>. QED BY <1>1 DEF Overall

LEMMA ParseShapeKeeps ==
  ASSUME CovInv, NEW metric \in {"line", "branch", "cond"}, NEW shape \in SHAPES, NEW tests \in DATA,
         ParseShape(metric, shape, tests)
  PROVE  CovInv'
<1>1. PICK fmap \in [FIDS -> Names] :
        cov' = [cov EXCEPT !.pc = "data", !.metric = metric, !.shape = shape,
                           !.data = tests, !.fmap = fmap]
  BY DEF ParseShape
<1>2. cov.pc = "idle" /\ UNCHANGED <<stats, rep>>  BY DEF ParseShape
<1>3. CovTypes'  BY <1>1, <1>2, CoverageAssumption DEF CovInv, CovTypes
<1>4. /\ cov'.pc = "data" /\ cov'.inst = 1 /\ cov'.pos = 1
      /\ SumFunctionOnSet(Totals', Names) = 0 /\ SumFunctionOnSet(Covereds', Names) = 0
  BY <1>1, <1>2, SumsUnchanged DEF CovInv, CountInv, CovTypes
<1>0. CountTypes'  BY <1>3, CountFields, PTL
<1>5. /\ Len(cov'.data) \in Nat
      /\ \A k \in 1 .. Len(cov'.data) : EntryCount'[k] \in Nat /\ cov'.data[k].bits \in Seq({0, 1})
  BY <1>0 DEF CountTypes
<1>6. 1 .. cov'.inst - 1 = {} /\ cov'.pos - 1 = 0  BY <1>4
<1>7. CurrentHits' = 0  BY <1>4, <1>5, <1>6, OnesStep DEF CurrentHits
<1>8. SumFunctionOnSet(EntryCount', 1 .. cov'.inst - 1) = 0
      /\ SumFunctionOnSet(HitCount', 1 .. cov'.inst - 1) = 0
  BY <1>6, SumEmpty
<1>9. CountInv'  BY <1>2, <1>4, <1>5, <1>7, <1>8 DEF CovInv, CountInv
<1>10. ReportInv'  BY <1>2, <1>4 DEF CovInv, ReportInv
<1>. QED BY <1>3, <1>9, <1>10 DEF CovInv

\* Everything has been counted when the report begins.
LEMMA ReportBegins ==
  ASSUME CovTypes', cov'.pc = "report", cov.pc = "data", CovInv, UNCHANGED stats,
         rep' = [rep EXCEPT !.todo = Names],
         SumFunctionOnSet(Totals, Names) = SumFunctionOnSet(EntryCount', 1 .. Len(cov'.data)),
         SumFunctionOnSet(Covereds, Names) = SumFunctionOnSet(HitCount', 1 .. Len(cov'.data))
  PROVE  CovInv'
<1>1. Totals' = Totals /\ Covereds' = Covereds /\ Overall' = Overall  BY SumsUnchanged
<1>2. CountInv'  BY <1>1 DEF CovInv, CountInv
<1>3. rep'.todo = Names /\ rep'.printed = NoSums /\ Names \cap FilteredNames = FilteredNames
  BY NamesFinite DEF CovInv, ReportInv, CovTypes
<1>4. /\ SumFunctionOnSet(Totals, Names) \in Nat /\ SumFunctionOnSet(Covereds, Names) \in Nat
      /\ SumFunctionOnSet(Totals, FilteredNames) \in Nat
      /\ SumFunctionOnSet(Covereds, FilteredNames) \in Nat
  BY CovFields, NamesFinite DEF CovInv
<1>5. /\ Overall.all = SumFunctionOnSet(Totals, Names)
      /\ Overall.cov_all = SumFunctionOnSet(Covereds, Names)
      /\ Overall.filt = SumFunctionOnSet(Totals, FilteredNames)
      /\ Overall.cov_filt = SumFunctionOnSet(Covereds, FilteredNames)
  BY DEF Overall
<1>6. /\ rep'.printed.all = 0 /\ rep'.printed.cov_all = 0
      /\ rep'.printed.filt = 0 /\ rep'.printed.cov_filt = 0
  BY <1>3 DEF NoSums
<1>7. /\ SumFunctionOnSet(Totals', rep'.todo) = Overall'.all
      /\ SumFunctionOnSet(Covereds', rep'.todo) = Overall'.cov_all
      /\ SumFunctionOnSet(Totals', rep'.todo \cap FilteredNames) = Overall'.filt
      /\ SumFunctionOnSet(Covereds', rep'.todo \cap FilteredNames) = Overall'.cov_filt
  BY <1>1, <1>3, <1>5
<1>8. Overall'.all \in Nat /\ Overall'.cov_all \in Nat /\ Overall'.filt \in Nat
      /\ Overall'.cov_filt \in Nat
  BY <1>1, <1>4, <1>5
<1>9. ReportInv'  BY <1>6, <1>7, <1>8 DEF ReportInv
<1>. QED BY <1>2, <1>9 DEF CovInv

LEMMA DataErrorKeeps == ASSUME CovInv, DataError PROVE CovInv'
<1>1. /\ cov.pc = "data" /\ cov.inst = 1 /\ cov.pos = 1 /\ UNCHANGED stats
      /\ cov' = [cov EXCEPT !.pc = "report", !.data = <<>>]
      /\ rep' = [rep EXCEPT !.todo = Names]
  BY DEF DataError
<1>2. CovTypes'
  <2>. DEFINE none == <<>>
  <2>1. none \in Seq(Instances) /\ cov' = [cov EXCEPT !.pc = "report", !.data = none]
    BY <1>1
  <2>. HIDE DEF none
  <2>. QED BY <1>1, <2>1 DEF CovInv, CovTypes
<1>0. cov'.pc = "report" /\ cov'.data = <<>>  BY <1>1 DEF CovInv, CovTypes
<1>3. cov'.pc = "report" /\ 1 .. Len(cov'.data) = {}  BY <1>0
<1>4. /\ Len(cov.data) \in Nat
      /\ \A k \in 1 .. Len(cov.data) : cov.data[k].bits \in Seq({0, 1})
  BY CountFields DEF CovInv, CountTypes
<1>5. 1 .. cov.inst - 1 = {} /\ cov.pos - 1 = 0  BY <1>1
<1>6. CurrentHits = 0  BY <1>1, <1>4, <1>5, OnesStep DEF CurrentHits
<1>7. \A f : SumFunctionOnSet(f, 1 .. cov.inst - 1) = 0 /\ SumFunctionOnSet(f, 1 .. Len(cov'.data)) = 0
  BY <1>3, <1>5, SumEmpty
<1>8. SumFunctionOnSet(Totals, Names) = 0 /\ SumFunctionOnSet(Covereds, Names) = 0
  BY <1>1, <1>5, <1>6, <1>7 DEF CovInv, CountInv
<1>. QED BY <1>1, <1>2, <1>3, <1>7, <1>8, ReportBegins

LEMMA EndOfDataKeeps == ASSUME CovInv, EndOfData PROVE CovInv'
<1>1. /\ cov.pc = "data" /\ cov.inst > Len(cov.data) /\ UNCHANGED stats
      /\ cov' = [cov EXCEPT !.pc = "report"] /\ rep' = [rep EXCEPT !.todo = Names]
  BY DEF EndOfData
<1>2. CovTypes'  BY <1>1 DEF CovInv, CovTypes
<1>3. /\ cov'.pc = "report" /\ cov'.data = cov.data /\ cov'.metric = cov.metric
      /\ cov'.shape = cov.shape
  BY <1>1 DEF CovInv, CovTypes
<1>4. Len(cov.data) \in Nat /\ cov.inst \in Nat  BY CountFields DEF CovInv, CovTypes, CountTypes
<1>5. cov.inst - 1 = Len(cov.data) /\ cov.pos = 1 /\ CurrentHits = 0
  BY <1>1, <1>4 DEF CovInv, CountInv, CurrentHits
<1>6. EntryCount' = EntryCount /\ HitCount' = HitCount  BY <1>3, CountsUnchanged
<1>7. /\ SumFunctionOnSet(EntryCount, 1 .. Len(cov.data)) \in Nat
      /\ SumFunctionOnSet(HitCount, 1 .. Len(cov.data)) \in Nat
  BY <1>4, CountFields DEF CovInv, CountTypes
<1>8. /\ SumFunctionOnSet(Totals, Names) = SumFunctionOnSet(EntryCount, 1 .. Len(cov.data))
      /\ SumFunctionOnSet(Covereds, Names) = SumFunctionOnSet(HitCount, 1 .. Len(cov.data))
  BY <1>1, <1>5, <1>7 DEF CovInv, CountInv
<1>. QED BY <1>1, <1>2, <1>3, <1>6, <1>8, ReportBegins

LEMMA InData ==
  ASSUME CovInv, cov.pc = "data", cov.inst <= Len(cov.data)
  PROVE  /\ CountTypes /\ CovTypes /\ cov.inst \in 1 .. Len(cov.data) /\ Len(cov.data) \in Nat
         /\ cov.pos \in Nat /\ cov.inst \in Nat /\ cov.pos >= 1
<1>1. cov.inst \in Nat /\ cov.pos \in Nat  BY DEF CovInv, CovTypes
<1>2. CountTypes /\ Len(cov.data) \in Nat  BY CountFields DEF CovInv, CountTypes
<1>3. cov.inst >= 1 /\ cov.pos >= 1  BY DEF CovInv, CountInv
<1>. QED BY <1>1, <1>2, <1>3 DEF CovInv

LEMMA CountEntryKeeps == ASSUME CovInv, CountEntry PROVE CovInv'
<1>. DEFINE entry == InstEntries[cov.pos]
            bits == cov.data[cov.inst].bits
            hit == cov.pos <= Len(bits) /\ bits[cov.pos] = 1
            n == cov.fmap[entry[1]]
            d == IF hit THEN 1 ELSE 0
            p == cov.pos + 1
            t == stats[n].total + 1
            c == IF hit THEN stats[n].covered + 1 ELSE stats[n].covered
            l == IF hit THEN stats[n].lines ELSE Append(stats[n].lines, entry[2])
<1>1. /\ cov.pc = "data" /\ cov.inst <= Len(cov.data) /\ cov.pos <= Len(InstEntries)
      /\ stats' = [stats EXCEPT ![n] = [total |-> t, covered |-> c, lines |-> l]]
      /\ cov' = [cov EXCEPT !.pos = p] /\ UNCHANGED rep
  BY DEF CountEntry
<1>2. /\ bits = cov.data[cov.inst].bits /\ entry = InstEntries[cov.pos]
      /\ n = cov.fmap[entry[1]] /\ p = cov.pos + 1
      /\ hit <=> cov.pos <= Len(bits) /\ bits[cov.pos] = 1
  OBVIOUS
<1>0. d \in Nat /\ t = stats[n].total + 1 /\ p = cov.pos + 1  OBVIOUS
<1>3. /\ hit => d = 1
      /\ ~hit => d = 0
      /\ hit => c = stats[n].covered + 1 /\ l = stats[n].lines
      /\ ~hit => c = stats[n].covered /\ l = Append(stats[n].lines, entry[2])
  OBVIOUS
<1>. HIDE DEF entry, bits, hit, n, d, p, t, c, l
<1>4. /\ CountTypes /\ CovTypes /\ cov.inst \in 1 .. Len(cov.data) /\ Len(cov.data) \in Nat
      /\ cov.pos \in Nat /\ cov.pos >= 1
  BY <1>1, InData
<1>5. entry[1] \in FIDS /\ entry[2] \in Nat
  <2>1. InstEntries \in Seq(EntrySet)  BY <1>4, EntriesType DEF InstEntries, CovTypes
  <2>2. cov.pos \in 1 .. Len(InstEntries)  BY <1>1, <1>4, <2>1
  <2>3. entry \in EntrySet  BY <1>2, <2>1, <2>2
  <2>. QED BY <2>3 DEF EntrySet
<1>6. n \in Names  BY <1>2, <1>4, <1>5 DEF CovTypes
<1>7. /\ stats[n] \in FileStats /\ stats[n].total \in Nat /\ stats[n].covered \in Nat
      /\ stats[n].lines \in Seq(Nat) /\ stats[n].covered + Len(stats[n].lines) = stats[n].total
  <2>1. \A r \in FileStats : r.lines \in Seq(Nat)  BY DEF FileStats
  <2>. QED BY <1>4, <1>6, <2>1, CovFields DEF CovInv, CountInv
<1>8. t \in Nat /\ c \in Nat /\ l \in Seq(Nat) /\ c + Len(l) = t /\ p \in Nat /\ c = stats[n].covered + d
  <2>0. p \in Nat  BY <1>0, <1>4
  <2>3. t = stats[n].total + 1  BY <1>0
  <2>1. CASE hit
    <3>1. c = stats[n].covered + 1 /\ l = stats[n].lines /\ d = 1  BY <1>3, <2>1
    <3>2. t \in Nat /\ c \in Nat  BY <1>7, <2>3, <3>1
    <3>3. l \in Seq(Nat)  BY <1>7, <3>1
    <3>4. c + Len(l) = t  BY <1>7, <2>3, <3>1
    <3>5. c = stats[n].covered + d  BY <3>1
    <3>. QED BY <2>0, <3>2, <3>3, <3>4, <3>5
  <2>2. CASE ~hit
    <3>1. c = stats[n].covered /\ l = Append(stats[n].lines, entry[2]) /\ d = 0  BY <1>3, <2>2
    <3>2. Len(l) = Len(stats[n].lines) + 1 /\ l \in Seq(Nat)  BY <1>5, <1>7, <3>1
    <3>3. t \in Nat /\ c \in Nat  BY <1>7, <2>3, <3>1
    <3>4. c + Len(l) = t
      <4>1. Len(l) = Len(stats[n].lines) + 1 /\ Len(stats[n].lines) \in Nat  BY <1>7, <3>2
      <4>2. c = stats[n].covered  BY <3>1
      <4>3. \A x, y, z \in Nat : x + y = z => x + (y + 1) = z + 1  OBVIOUS
      <4>4. stats[n].covered + (Len(stats[n].lines) + 1) = stats[n].total + 1
        BY <1>7, <4>1, <4>3
      <4>. QED BY <2>3, <4>1, <4>2, <4>4, Zenon
    <3>5. c = stats[n].covered + d  BY <1>7, <3>1
    <3>. QED BY <2>0, <3>2, <3>3, <3>4, <3>5
  <2>. QED BY <2>1, <2>2
<1>9. stats' \in [Names -> FileStats]
      /\ stats'[n].total = t /\ stats'[n].covered = c /\ stats'[n].lines = l
      /\ \A m \in Names \ {n} : stats'[m] = stats[m]
  BY <1>1, <1>4, <1>6, <1>8 DEF CovTypes, FileStats
<1>10. CovTypes'  BY <1>1, <1>4, <1>8, <1>9 DEF CovTypes
<1>11. /\ cov'.metric = cov.metric /\ cov'.shape = cov.shape /\ cov'.data = cov.data
       /\ cov'.inst = cov.inst /\ cov'.pos = p /\ cov'.pc = "data"
  BY <1>1, <1>4 DEF CovTypes
<1>12. EntryCount' = EntryCount /\ HitCount' = HitCount  BY <1>11, CountsUnchanged
<1>13. /\ \A m \in Names : /\ Totals[m] \in Nat /\ Covereds[m] \in Nat
                           /\ Totals'[m] \in Nat /\ Covereds'[m] \in Nat
       /\ \A m \in Names \ {n} : Totals'[m] = Totals[m] /\ Covereds'[m] = Covereds[m]
       /\ Totals'[n] = Totals[n] + 1
       /\ Covereds'[n] = Covereds[n] + d
  <2>1. /\ \A m \in Names : /\ Totals[m] = stats[m].total /\ Covereds[m] = stats[m].covered
                            /\ Totals'[m] = stats'[m].total /\ Covereds'[m] = stats'[m].covered
    BY DEF Totals, Covereds
  <2>2. \A r \in FileStats : r.total \in Nat /\ r.covered \in Nat  BY DEF FileStats
  <2>3. \A m \in Names : stats[m] \in FileStats /\ stats'[m] \in FileStats
    BY <1>4, <1>9 DEF CovTypes
  <2>4. \A m \in Names \ {n} : Totals'[m] = Totals[m] /\ Covereds'[m] = Covereds[m]  BY <1>9, <2>1
  <2>5. Totals'[n] = Totals[n] + 1 /\ Covereds'[n] = Covereds[n] + d
    BY <1>0, <1>6, <1>8, <1>9, <2>1
  <2>. QED BY <2>1, <2>2, <2>3, <2>4, <2>5
<1>14. /\ SumFunctionOnSet(Totals', Names) + Totals[n] = SumFunctionOnSet(Totals, Names) + Totals'[n]
       /\ SumFunctionOnSet(Covereds', Names) + Covereds[n]
            = SumFunctionOnSet(Covereds, Names) + Covereds'[n]
  BY <1>6, <1>13, NamesFinite, SumChange
<1>15. /\ SumFunctionOnSet(Totals', Names) \in Nat /\ SumFunctionOnSet(Covereds', Names) \in Nat
       /\ SumFunctionOnSet(Totals, Names) \in Nat /\ SumFunctionOnSet(Covereds, Names) \in Nat
  BY <1>13, NamesFinite, SumType
<1>16. /\ SumFunctionOnSet(Totals', Names) = SumFunctionOnSet(Totals, Names) + 1
       /\ SumFunctionOnSet(Covereds', Names)
            = SumFunctionOnSet(Covereds, Names) + d
  BY <1>0, <1>6, <1>13, <1>14, <1>15
<1>17. bits \in Seq({0, 1}) /\ cov.pos <= EntryCount[cov.inst] /\ EntryCount[cov.inst] \in Nat
  BY <1>1, <1>2, <1>4 DEF CountTypes, InstEntries
<1>18. /\ CurrentHits' = CurrentHits + d
       /\ CurrentHits \in Nat
  <2>1. CurrentHits = OnesTo(bits, cov.pos - 1)  BY <1>1, <1>2 DEF CurrentHits
  <2>2. p - 1 = (cov.pos - 1) + 1 /\ (cov.pos - 1) + 1 = cov.pos /\ cov.pos - 1 \in Nat
    BY <1>2, <1>4
  <2>3. CurrentHits' = OnesTo(bits, (cov.pos - 1) + 1)  BY <1>1, <1>2, <1>11, <2>2 DEF CurrentHits
  <2>4. OnesTo(bits, (cov.pos - 1) + 1) = OnesTo(bits, cov.pos - 1) + d /\ OnesTo(bits, cov.pos - 1) \in Nat
    <3>1. CASE hit
      <4>1. d = 1 /\ (cov.pos - 1) + 1 <= Len(bits) /\ bits[(cov.pos - 1) + 1] = 1
        BY <1>2, <1>3, <2>2, <3>1
      <4>. QED BY <1>17, <2>2, <4>1, OnesStep
    <3>2. CASE ~hit
      <4>1. d = 0 /\ ~((cov.pos - 1) + 1 <= Len(bits) /\ bits[(cov.pos - 1) + 1] = 1)
        BY <1>2, <1>3, <2>2, <3>2
      <4>2. OnesTo(bits, (cov.pos - 1) + 1) = OnesTo(bits, cov.pos - 1)
        BY <1>17, <2>2, <4>1, OnesStep, Zenon
      <4>. QED BY <1>17, <2>2, <4>1, <4>2, OnesStep
    <3>. QED BY <3>1, <3>2
  <2>. QED BY <2>1, <2>3, <2>4
<1>19. cov.inst - 1 \in Nat /\ cov.inst - 1 <= Len(cov.data)  BY <1>4
<1>20. /\ SumFunctionOnSet(EntryCount, 1 .. cov.inst - 1) \in Nat
       /\ SumFunctionOnSet(HitCount, 1 .. cov.inst - 1) \in Nat
  BY <1>4, <1>19 DEF CountTypes
<1>21. CountInv'
  <2>1. \A m \in Names : stats'[m].covered + Len(stats'[m].lines) = stats'[m].total
    BY <1>8, <1>9 DEF CovInv, CountInv
  <2>2. p >= 1 /\ p <= EntryCount[cov.inst] + 1  BY <1>2, <1>4, <1>17
  <2>3. /\ SumFunctionOnSet(Totals', Names)
             = SumFunctionOnSet(EntryCount, 1 .. cov.inst - 1) + p - 1
        /\ SumFunctionOnSet(Covereds', Names)
             = SumFunctionOnSet(HitCount, 1 .. cov.inst - 1) + CurrentHits'
    <3>1. /\ SumFunctionOnSet(Totals, Names)
               = SumFunctionOnSet(EntryCount, 1 .. cov.inst - 1) + cov.pos - 1
          /\ SumFunctionOnSet(Covereds, Names)
               = SumFunctionOnSet(HitCount, 1 .. cov.inst - 1) + CurrentHits
      BY <1>1 DEF CovInv, CountInv
    <3>2. \A a, b, q \in Nat : a = b + q - 1 => a + 1 = b + (q + 1) - 1  OBVIOUS
    <3>3. \A a, b, h \in Nat : a = b + h => a + d = b + (h + d)  BY <1>0
    <3>4. cov.pos \in Nat /\ p = cov.pos + 1  BY <1>0, <1>4
    <3>5. SumFunctionOnSet(Totals, Names) + 1
            = SumFunctionOnSet(EntryCount, 1 .. cov.inst - 1) + (cov.pos + 1) - 1
      BY <1>15, <1>20, <3>1, <3>2, <3>4
    <3>6. SumFunctionOnSet(Covereds, Names) + d
            = SumFunctionOnSet(HitCount, 1 .. cov.inst - 1) + (CurrentHits + d)
      BY <1>15, <1>18, <1>20, <3>1, <3>3
    <3>. QED BY <1>16, <1>18, <3>4, <3>5, <3>6
  <2>. QED BY <1>4, <1>11, <1>12, <2>1, <2>2, <2>3 DEF CountInv
<1>22. ReportInv'  BY <1>1, <1>11 DEF CovInv, ReportInv
<1>. QED BY <1>10, <1>21, <1>22 DEF CovInv

LEMMA NextInstanceKeeps == ASSUME CovInv, NextInstance PROVE CovInv'
<1>. DEFINE nxt == cov.inst + 1
<1>1. /\ cov.pc = "data" /\ cov.inst <= Len(cov.data) /\ cov.pos > Len(InstEntries)
      /\ cov' = [cov EXCEPT !.inst = nxt, !.pos = 1] /\ UNCHANGED <<stats, rep>>
  BY DEF NextInstance
<1>2. /\ CountTypes /\ CovTypes /\ cov.inst \in 1 .. Len(cov.data) /\ Len(cov.data) \in Nat
      /\ cov.pos \in Nat /\ cov.inst \in Nat /\ nxt \in Nat /\ nxt = cov.inst + 1
  BY <1>1, InData
<1>. HIDE DEF nxt
<1>3. CovTypes'  BY <1>1, <1>2 DEF CovTypes
<1>4. /\ cov'.metric = cov.metric /\ cov'.shape = cov.shape /\ cov'.data = cov.data
      /\ cov'.inst = nxt /\ cov'.pos = 1 /\ cov'.pc = "data"
  BY <1>1, <1>2 DEF CovTypes
<1>5. EntryCount' = EntryCount /\ HitCount' = HitCount  BY <1>4, CountsUnchanged
<1>6. Totals' = Totals /\ Covereds' = Covereds  BY <1>1, SumsUnchanged
<1>7. /\ EntryCount[cov.inst] \in Nat /\ cov.pos - 1 = EntryCount[cov.inst]
  <2>1. EntryCount[cov.inst] = Len(InstEntries) /\ EntryCount[cov.inst] \in Nat
    BY <1>2 DEF CountTypes, InstEntries
  <2>2. cov.pos <= EntryCount[cov.inst] + 1  BY <1>1 DEF CovInv, CountInv
  <2>. QED BY <1>1, <1>2, <2>1, <2>2
<1>8. CurrentHits = HitCount[cov.inst] /\ HitCount[cov.inst] \in Nat
  BY <1>1, <1>2, <1>7 DEF CurrentHits, CountTypes
<1>9. CurrentHits' = 0
  <2>1. \A k \in 1 .. Len(cov.data) : OnesTo(cov.data[k].bits, 0) = 0
    BY <1>2, OnesStep DEF CountTypes
  <2>2. cov'.pos - 1 = 0  BY <1>4
  <2>3. nxt <= Len(cov.data) => nxt \in 1 .. Len(cov.data)  BY <1>2
  <2>. QED BY <1>4, <2>1, <2>2, <2>3 DEF CurrentHits
<1>10. 1 .. nxt - 1 = 1 .. cov.inst  BY <1>2
<1>11. /\ SumFunctionOnSet(EntryCount, 1 .. cov.inst)
            = EntryCount[cov.inst] + SumFunctionOnSet(EntryCount, 1 .. cov.inst - 1)
       /\ SumFunctionOnSet(HitCount, 1 .. cov.inst)
            = HitCount[cov.inst] + SumFunctionOnSet(HitCount, 1 .. cov.inst - 1)
  BY <1>2, CountUpTo
<1>12. cov.inst - 1 \in Nat /\ cov.inst - 1 <= Len(cov.data)  BY <1>2
<1>13. /\ SumFunctionOnSet(EntryCount, 1 .. cov.inst - 1) \in Nat
       /\ SumFunctionOnSet(HitCount, 1 .. cov.inst - 1) \in Nat
  BY <1>2, <1>12 DEF CountTypes
<1>14. /\ SumFunctionOnSet(Totals, Names)
             = SumFunctionOnSet(EntryCount, 1 .. cov.inst - 1) + cov.pos - 1
       /\ SumFunctionOnSet(Covereds, Names)
             = SumFunctionOnSet(HitCount, 1 .. cov.inst - 1) + CurrentHits
  BY <1>1 DEF CovInv, CountInv
<1>15. /\ SumFunctionOnSet(Totals, Names) = SumFunctionOnSet(EntryCount, 1 .. cov.inst)
       /\ SumFunctionOnSet(Covereds, Names) = SumFunctionOnSet(HitCount, 1 .. cov.inst)
  BY <1>2, <1>7, <1>8, <1>11, <1>13, <1>14
<1>16. /\ SumFunctionOnSet(EntryCount, 1 .. cov.inst) \in Nat
       /\ SumFunctionOnSet(HitCount, 1 .. cov.inst) \in Nat
  BY <1>7, <1>8, <1>11, <1>13
<1>17. \A k \in 1 .. Len(cov.data) : EntryCount[k] \in Nat  BY <1>2 DEF CountTypes
<1>18. CountInv'
  <2>1. nxt >= 1 /\ nxt <= Len(cov.data) + 1  BY <1>2
  <2>2. nxt <= Len(cov.data) => 1 <= EntryCount[nxt] + 1  BY <1>2, <1>17
  <2>3. /\ SumFunctionOnSet(Totals, Names) = SumFunctionOnSet(EntryCount, 1 .. nxt - 1) + 1 - 1
        /\ SumFunctionOnSet(Covereds, Names) = SumFunctionOnSet(HitCount, 1 .. nxt - 1) + 0
    BY <1>10, <1>15, <1>16
  <2>. QED BY <1>1, <1>4, <1>5, <1>6, <1>9, <2>1, <2>2, <2>3 DEF CovInv, CountInv
<1>19. ReportInv'  BY <1>1, <1>4 DEF CovInv, ReportInv
<1>. QED BY <1>3, <1>18, <1>19 DEF CovInv

LEMMA ReportRowsKeeps == ASSUME CovInv, ReportRows PROVE CovInv'
<1>. DEFINE n == CHOOSE n \in rep.todo : TRUE
            todo == rep.todo \ {n}
            a == rep.printed.all + stats[n].total
            ca == rep.printed.cov_all + stats[n].covered
            f == IF n \in FilteredNames THEN 1 ELSE 0
            g == rep.printed.filt + f * stats[n].total
            cg == rep.printed.cov_filt + f * stats[n].covered
<1>1. /\ cov.pc = "report" /\ rep.todo /= {} /\ UNCHANGED <<cov, stats>>
      /\ rep' = [rep EXCEPT !.todo = todo,
                            !.printed = [all |-> a, cov_all |-> ca, filt |-> g, cov_filt |-> cg]]
  BY DEF ReportRows, ReportFile
<1>2. n \in rep.todo  BY <1>1
<1>3. /\ todo = rep.todo \ {n} /\ a = rep.printed.all + stats[n].total
      /\ ca = rep.printed.cov_all + stats[n].covered
  OBVIOUS
<1>4. /\ CovTypes /\ rep.todo \in SUBSET Names /\ n \in Names /\ todo \in SUBSET Names
      /\ rep.printed \in Sums
  BY <1>2 DEF CovInv, CovTypes
<1>5. /\ rep.printed.all \in Nat /\ rep.printed.cov_all \in Nat
      /\ rep.printed.filt \in Nat /\ rep.printed.cov_filt \in Nat
  BY <1>4 DEF Sums
<1>6. stats[n].total \in Nat /\ stats[n].covered \in Nat  BY <1>4, CovFields
<1>7. /\ n \in FilteredNames => g = rep.printed.filt + stats[n].total
                                /\ cg = rep.printed.cov_filt + stats[n].covered
      /\ n \notin FilteredNames => g = rep.printed.filt /\ cg = rep.printed.cov_filt
  BY <1>5, <1>6
<1>. HIDE DEF n, todo, a, ca, f, g, cg
<1>8. a \in Nat /\ ca \in Nat /\ g \in Nat /\ cg \in Nat
  <2>1. a \in Nat /\ ca \in Nat  BY <1>3, <1>5, <1>6
  <2>2. CASE n \in FilteredNames
    <3>1. g = rep.printed.filt + stats[n].total /\ cg = rep.printed.cov_filt + stats[n].covered
      BY <1>7, <2>2
    <3>. QED BY <1>5, <1>6, <2>1, <3>1
  <2>3. CASE n \notin FilteredNames
    <3>1. g = rep.printed.filt /\ cg = rep.printed.cov_filt  BY <1>7, <2>3
    <3>. QED BY <1>5, <2>1, <3>1
  <2>. QED BY <2>2, <2>3
<1>9. /\ rep'.todo = todo /\ rep'.printed.all = a /\ rep'.printed.cov_all = ca
      /\ rep'.printed.filt = g /\ rep'.printed.cov_filt = cg
      /\ rep' \in [todo : SUBSET Names, printed : Sums, summary : Sums]
  BY <1>1, <1>4, <1>8 DEF CovTypes, Sums
<1>10. CovTypes'  BY <1>1, <1>4, <1>9 DEF CovTypes
<1>11. Totals' = Totals /\ Covereds' = Covereds /\ Overall' = Overall  BY <1>1, SumsUnchanged
<1>12. EntryCount' = EntryCount /\ HitCount' = HitCount  BY <1>1, CountsUnchanged
<1>13. CountInv'  BY <1>1, <1>11, <1>12 DEF CovInv, CountInv, CurrentHits
<1>14. ASSUME NEW S \in SUBSET Names, n \in S
       PROVE  /\ SumFunctionOnSet(Totals, S) = stats[n].total + SumFunctionOnSet(Totals, S \ {n})
              /\ SumFunctionOnSet(Covereds, S) = stats[n].covered + SumFunctionOnSet(Covereds, S \ {n})
              /\ SumFunctionOnSet(Totals, S \ {n}) \in Nat /\ SumFunctionOnSet(Covereds, S \ {n}) \in Nat
  <2>1. IsFiniteSet(S) /\ \A m \in S : Totals[m] \in Nat /\ Covereds[m] \in Nat  BY <1>4, CovFields
  <2>2. Totals[n] = stats[n].total /\ Covereds[n] = stats[n].covered  BY <1>4, CovFields
  <2>3. S \ {n} \in SUBSET Names  OBVIOUS
  <2>4. SumFunctionOnSet(Totals, S \ {n}) \in Nat /\ SumFunctionOnSet(Covereds, S \ {n}) \in Nat
    BY <1>4, <2>3, CovFields
  <2>5. SumFunctionOnSet(Totals, S) = Totals[n] + SumFunctionOnSet(Totals, S \ {n})
    BY <1>14, <2>1, SumRemove
  <2>6. SumFunctionOnSet(Covereds, S) = Covereds[n] + SumFunctionOnSet(Covereds, S \ {n})
    BY <1>14, <2>1, SumRemove
  <2>. QED BY <2>2, <2>4, <2>5, <2>6
<1>15. /\ a + SumFunctionOnSet(Totals, todo) = Overall.all
       /\ ca + SumFunctionOnSet(Covereds, todo) = Overall.cov_all
  <2>1. /\ SumFunctionOnSet(Totals, rep.todo) = stats[n].total + SumFunctionOnSet(Totals, todo)
        /\ SumFunctionOnSet(Covereds, rep.todo) = stats[n].covered + SumFunctionOnSet(Covereds, todo)
        /\ SumFunctionOnSet(Totals, todo) \in Nat /\ SumFunctionOnSet(Covereds, todo) \in Nat
    BY <1>2, <1>3, <1>4, <1>14
  <2>2. /\ rep.printed.all + SumFunctionOnSet(Totals, rep.todo) = Overall.all
        /\ rep.printed.cov_all + SumFunctionOnSet(Covereds, rep.todo) = Overall.cov_all
    BY <1>1 DEF CovInv, ReportInv
  <2>. QED BY <1>3, <1>5, <1>6, <2>1, <2>2
<1>16. /\ g + SumFunctionOnSet(Totals, todo \cap FilteredNames) = Overall.filt
       /\ cg + SumFunctionOnSet(Covereds, todo \cap FilteredNames) = Overall.cov_filt
  <2>0. /\ rep.printed.filt + SumFunctionOnSet(Totals, rep.todo \cap FilteredNames) = Overall.filt
        /\ rep.printed.cov_filt + SumFunctionOnSet(Covereds, rep.todo \cap FilteredNames)
             = Overall.cov_filt
    BY <1>1 DEF CovInv, ReportInv
  <2>1. CASE n \in FilteredNames
    <3>1. g = rep.printed.filt + stats[n].total /\ cg = rep.printed.cov_filt + stats[n].covered
      BY <1>7, <2>1
    <3>2. (rep.todo \cap FilteredNames) \ {n} = todo \cap FilteredNames  BY <1>3
    <3>3. rep.todo \cap FilteredNames \in SUBSET Names /\ n \in rep.todo \cap FilteredNames
      BY <1>2, <1>4, <2>1
    <3>4. /\ SumFunctionOnSet(Totals, rep.todo \cap FilteredNames)
               = stats[n].total + SumFunctionOnSet(Totals, todo \cap FilteredNames)
          /\ SumFunctionOnSet(Covereds, rep.todo \cap FilteredNames)
               = stats[n].covered + SumFunctionOnSet(Covereds, todo \cap FilteredNames)
          /\ SumFunctionOnSet(Totals, todo \cap FilteredNames) \in Nat
          /\ SumFunctionOnSet(Covereds, todo \cap FilteredNames) \in Nat
      BY <1>14, <3>2, <3>3
    <3>. QED BY <1>5, <1>6, <2>0, <3>1, <3>4
  <2>2. CASE n \notin FilteredNames
    <3>1. g = rep.printed.filt /\ cg = rep.printed.cov_filt  BY <1>7, <2>2
    <3>2. rep.todo \cap FilteredNames = todo \cap FilteredNames  BY <1>3, <2>2
    <3>. QED BY <2>0, <3>1, <3>2
  <2>. QED BY <2>1, <2>2
<1>17. ReportInv'
  <2>1. cov'.pc = "report"  BY <1>1
  <2>. QED BY <1>9, <1>11, <1>15, <1>16, <2>1 DEF ReportInv
<1>. QED BY <1>10, <1>13, <1>17 DEF CovInv

LEMMA ReportTotalsKeeps == ASSUME CovInv, ReportTotals PROVE CovInv'
<1>. DEFINE todo == {n \in KeyNames : stats[n].lines /= <<>>}
<1>1. /\ cov.pc = "report" /\ rep.todo = {} /\ cov' = [cov EXCEPT !.pc = "ranges"]
      /\ rep' = [rep EXCEPT !.todo = todo] /\ UNCHANGED stats
  BY DEF ReportTotals
<1>2. todo \in SUBSET Names  BY NamesFinite
<1>. HIDE DEF todo
<1>3. /\ CovTypes' /\ rep'.printed = rep.printed /\ cov'.pc = "ranges" /\ cov'.data = cov.data
      /\ cov'.metric = cov.metric /\ cov'.shape = cov.shape
      /\ rep.printed \in Sums
  BY <1>1, <1>2 DEF CovInv, CovTypes
<1>4. Totals' = Totals /\ Covereds' = Covereds /\ Overall' = Overall  BY <1>1, SumsUnchanged
<1>5. EntryCount' = EntryCount /\ HitCount' = HitCount  BY <1>3, CountsUnchanged
<1>6. CountInv'  BY <1>1, <1>3, <1>4, <1>5 DEF CovInv, CountInv
<1>7. /\ rep.printed.all + 0 = Overall.all /\ rep.printed.cov_all + 0 = Overall.cov_all
      /\ rep.printed.filt + 0 = Overall.filt /\ rep.printed.cov_filt + 0 = Overall.cov_filt
  <2>1. rep.todo \cap FilteredNames = {}  BY <1>1
  <2>2. \A h : SumFunctionOnSet(h, rep.todo) = 0 /\ SumFunctionOnSet(h, rep.todo \cap FilteredNames) = 0
    BY <1>1, <2>1, SumEmpty
  <2>. QED BY <1>1, <2>2 DEF CovInv, ReportInv
<1>8. Overall \in Sums  BY CovFields DEF CovInv
<1>9. rep.printed = Overall
  <2>1. \A s \in Sums : /\ s = [all |-> s.all, cov_all |-> s.cov_all, filt |-> s.filt,
                                cov_filt |-> s.cov_filt]
                        /\ s.all + 0 = s.all /\ s.cov_all + 0 = s.cov_all
                        /\ s.filt + 0 = s.filt /\ s.cov_filt + 0 = s.cov_filt
    BY DEF Sums
  <2>. QED BY <1>3, <1>7, <1>8, <2>1
<1>10. ReportInv'  BY <1>3, <1>4, <1>9 DEF ReportInv
<1>. QED BY <1>3, <1>6, <1>10 DEF CovInv

LEMMA SummariseKeeps == ASSUME CovInv, Summarise PROVE CovInv'
<1>1. /\ cov.pc = "ranges" /\ cov' = [cov EXCEPT !.pc = "end"]
      /\ rep' = [rep EXCEPT !.summary = Overall] /\ UNCHANGED stats
  BY DEF Summarise
<1>2. Overall \in Sums  BY CovFields DEF CovInv
<1>3. /\ CovTypes' /\ rep'.printed = rep.printed /\ rep'.summary = Overall /\ cov'.pc = "end"
      /\ cov'.data = cov.data /\ cov'.metric = cov.metric /\ cov'.shape = cov.shape
  BY <1>1, <1>2 DEF CovInv, CovTypes
<1>4. Totals' = Totals /\ Covereds' = Covereds /\ Overall' = Overall  BY <1>1, SumsUnchanged
<1>5. EntryCount' = EntryCount /\ HitCount' = HitCount  BY <1>3, CountsUnchanged
<1>6. CountInv'  BY <1>1, <1>3, <1>4, <1>5 DEF CovInv, CountInv
<1>7. ReportInv'  BY <1>1, <1>3, <1>4 DEF CovInv, ReportInv
<1>. QED BY <1>3, <1>6, <1>7 DEF CovInv

\* The steps that only change rep.todo, or nothing that is counted.
LEMMA CovQuiet ==
  ASSUME CovInv, UNCHANGED <<cov, stats>>, cov.pc /= "report", NEW T \in SUBSET Names,
         rep' = [rep EXCEPT !.todo = T]
  PROVE  CovInv'
<1>1. CovTypes' /\ rep'.printed = rep.printed /\ rep'.summary = rep.summary
  BY DEF CovInv, CovTypes
<1>2. Totals' = Totals /\ Covereds' = Covereds /\ Overall' = Overall  BY SumsUnchanged
<1>3. EntryCount' = EntryCount /\ HitCount' = HitCount  BY CountsUnchanged
<1>4. CountInv'  BY <1>2, <1>3 DEF CovInv, CountInv, CurrentHits
<1>5. ReportInv'  BY <1>1, <1>2 DEF CovInv, ReportInv
<1>. QED BY <1>1, <1>4, <1>5 DEF CovInv

LEMMA CovStutter == ASSUME CovInv, UNCHANGED <<cov, stats, rep>> PROVE CovInv'
<1>2. Totals' = Totals /\ Covereds' = Covereds /\ Overall' = Overall  BY SumsUnchanged
<1>3. EntryCount' = EntryCount /\ HitCount' = HitCount  BY CountsUnchanged
<1>. QED BY <1>2, <1>3 DEF CovInv, CountInv, CurrentHits, CovTypes, ReportInv

LEMMA ShapeErrorKeeps == ASSUME CovInv, ShapeError PROVE CovInv'
<1>1. cov' = [cov EXCEPT !.pc = "raised"] /\ UNCHANGED <<stats, rep>>  BY DEF ShapeError
<1>2. CovTypes' /\ cov'.pc = "raised"  BY <1>1 DEF CovInv, CovTypes
<1>3. CountInv'  BY <1>1, <1>2 DEF CovInv, CountInv
<1>4. ReportInv'  BY <1>2 DEF ReportInv
<1>. QED BY <1>2, <1>3, <1>4 DEF CovInv

LEMMA CovStep == CovInv /\ [CovNext]_covVars => CovInv'
<1>. SUFFICES ASSUME CovInv, [CovNext]_covVars PROVE CovInv'
  OBVIOUS
<1>1. CASE UNCHANGED covVars  BY <1>1, CovStutter DEF covVars
<1>2. ASSUME NEW metric \in {"line", "branch", "cond"}, NEW shape \in SHAPES, NEW tests \in DATA,
             ParseShape(metric, shape, tests)
      PROVE  CovInv'
  BY <1>2, ParseShapeKeeps
<1>3. CASE ReportUncovered
  <2>. DEFINE T == rep.todo \ {CHOOSE n \in rep.todo : TRUE}
  <2>1. /\ UNCHANGED <<cov, stats>> /\ cov.pc = "ranges" /\ rep' = [rep EXCEPT !.todo = T]
    BY <1>3 DEF ReportUncovered
  <2>2. T \in SUBSET Names  BY DEF CovInv, CovTypes
  <2>. HIDE DEF T
  <2>. QED BY <2>1, <2>2, CovQuiet
<1>4. CASE RangeStep  BY <1>4, CovStutter DEF RangeStep
<1>. QED BY <1>1, <1>2, <1>3, <1>4, ShapeErrorKeeps, DataErrorKeeps, CountEntryKeeps,
            NextInstanceKeeps, EndOfDataKeeps, ReportRowsKeeps, ReportTotalsKeeps, SummariseKeeps
         DEF CovNext

\* The totals print_report keeps while it walks the files are those the summary computes,
\* for any files, keywords, shape databases and test data.
THEOREM SummaryIsExact == CovSpec => []SummaryAgrees
<1>1. CovInv => SummaryAgrees  BY DEF CovInv, ReportInv, SummaryAgrees
<1>. QED BY <1>1, CovInitial, CovStep, PTL DEF CovSpec

\* Every entry of every instance is counted for one file, as covered exactly if its bit is
\* there and set, however ids share files, bits are missing and entries are ignored.
THEOREM CountsAreExact == CovSpec => []EveryEntryCounted
<1>1. CovInv => EveryEntryCounted  BY DEF CovInv, CountInv, EveryEntryCounted
<1>. QED BY <1>1, CovInitial, CovStep, PTL DEF CovSpec

\* The lines that are compressed are numbers: those of entries counted for the file.
LEMMA RangesStep == CovInv /\ LrInv /\ [CovNext]_covVars => LrInv'
<1>. SUFFICES ASSUME CovInv, LrInv, [CovNext]_covVars PROVE LrInv'
  OBVIOUS
<1>1. ASSUME UNCHANGED lrVars PROVE LrInv'  BY <1>1 DEF lrVars, LrInv, RangesExact
<1>2. CASE ReportUncovered
  <2>. DEFINE n == CHOOSE n \in rep.todo : TRUE
              S == {l \in ToSet(stats[n].lines) : l > 0}
  <2>1. rep.todo /= {} /\ Begin(S)  BY <1>2 DEF ReportUncovered
  <2>2. n \in Names  BY <2>1 DEF CovInv, CovTypes
  <2>. HIDE DEF n
  <2>3. stats[n].lines \in Seq(Nat)  BY <2>2 DEF CovInv, CovTypes, FileStats
  <2>4. S \in SUBSET Nat
    <3>1. ToSet(stats[n].lines) \subseteq Nat  BY <2>3 DEF ToSet
    <3>. QED BY <3>1
  <2>. HIDE DEF S
  <2>. QED BY <2>1, <2>4, BeginKeeps
<1>3. CASE RangeStep  BY <1>3, NextLineKeeps, LastRangeKeeps DEF RangeStep, LrStep
<1>4. ASSUME NEW metric, NEW shape, NEW tests, ParseShape(metric, shape, tests) PROVE UNCHANGED lrVars
  BY <1>4 DEF ParseShape
<1>5. CASE \/ ShapeError \/ DataError \/ CountEntry \/ NextInstance \/ EndOfData
           \/ ReportRows \/ ReportTotals \/ Summarise
  <2>1. UNCHANGED lrVars
    BY <1>5 DEF ShapeError, DataError, CountEntry, NextInstance, EndOfData, ReportRows, ReportTotals,
                Summarise
  <2>. QED BY <1>1, <2>1
<1>6. CASE UNCHANGED covVars  BY <1>1, <1>6 DEF covVars
<1>. QED BY <1>1, <1>2, <1>3, <1>4, <1>5, <1>6 DEF CovNext

\* The ranges the report prints for a file are exactly its uncovered lines, as maximal
\* ranges in ascending order, for any files, shape databases and test data.
THEOREM ReportPrintsRanges == CovSpec => []RangesExact
<1>1. CovInit => LrInv  BY NoRanges DEF CovInit, LrInit, LrInv, RangesExact
<1>2. LrInv => RangesExact  BY DEF LrInv
<1>. QED BY <1>1, <1>2, CovInitial, CovStep, RangesStep, PTL DEF CovSpec
=============================================================================
