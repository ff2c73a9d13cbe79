----------------------------- MODULE FpgaProofs -----------------------------
(***************************************************************************)
(* Type correctness of LudpFpga; and, if START finds the core quiet, that  *)
(* it never sends beyond the credit and implements CreditStream, for every *)
(* register width, ring size, packet size, window and mix of commands,     *)
(* CREDITs, NACKs and DMA errors.  First, that the narrow registers        *)
(* compare like the unbounded counts they stand for, as long as the counts *)
(* are less than half the sequence space apart.                            *)
(***************************************************************************)
EXTENDS LudpFpga, WellFoundedInduction, TLAPS

-----------------------------------------------------------------------------
\* Sequence arithmetic.

\* Division with remainder by the number of sequence values.
LEMMA DivMod ==
  ASSUME NEW n \in Nat
  PROVE  \E q \in Nat : n = SEQ_MOD * q + WrapSeq(n) /\ WrapSeq(n) \in SeqNums
<1>1. SEQ_MOD \in Nat /\ SEQ_MOD > 0
  BY HalfSeqAssumption DEF SEQ_MOD
<1>2. ASSUME NEW M \in Nat, M > 0
      PROVE  /\ n \div M \in Nat
             /\ n % M \in 0 .. M - 1
             /\ n = M * (n \div M) + (n % M)
  BY <1>2
<1>3. /\ n \div SEQ_MOD \in Nat
      /\ WrapSeq(n) \in SeqNums
      /\ n = SEQ_MOD * (n \div SEQ_MOD) + WrapSeq(n)
  BY <1>1, <1>2 DEF WrapSeq, SeqNums
<1>. QED BY <1>3

\* Distinct multiples of M are at least M apart, and 2 * M when their factors
\* differ by 2: the nonlinear arithmetic SubOfWrapped needs.
LEMMA SmallMultiple ==
  ASSUME NEW q \in Nat, NEW p \in Nat, NEW M \in Nat, M > 0
  PROVE  /\ q > p => M * q >= M * p + M
         /\ q >= p + 2 => M * q >= M * p + 2 * M
<1>1. SUFFICES /\ q > p => M * (q - p) >= M
               /\ q >= p + 2 => M * (q - p) >= 2 * M
               /\ M * q = M * p + M * (q - p)
  OBVIOUS
<1>2. M * q = M * p + M * (q - p)  OBVIOUS
<1>3. q > p => M * (q - p) >= M  OBVIOUS
<1>4. q >= p + 2 => M * (q - p) >= 2 * M  OBVIOUS
<1>. QED BY <1>2, <1>3, <1>4

\* The wrapped difference of two counts less than half the space apart is
\* their true difference, modulo SEQ_MOD.
LEMMA SubOfWrapped ==
  ASSUME NEW a \in Nat, NEW b \in Nat, a - b < HALF_SEQ, b - a < HALF_SEQ
  PROVE  SeqSub(WrapSeq(a), WrapSeq(b)) = IF a >= b THEN a - b ELSE (a - b) + SEQ_MOD
<1> DEFINE x == WrapSeq(a)
           y == WrapSeq(b)
<1>1. PICK q \in Nat : a = SEQ_MOD * q + x /\ x \in SeqNums  BY DivMod
<1>2. PICK p \in Nat : b = SEQ_MOD * p + y /\ y \in SeqNums  BY DivMod
<1>3. SEQ_MOD \in Nat /\ SEQ_MOD > 0 /\ SEQ_MOD = 2 * HALF_SEQ /\ HALF_SEQ \in Nat
  BY HalfSeqAssumption DEF SEQ_MOD
<1>4. x \in 0 .. SEQ_MOD - 1 /\ y \in 0 .. SEQ_MOD - 1
  BY <1>1, <1>2 DEF SeqNums
<1>5. PICK u \in Nat : u = SEQ_MOD * q /\ a = u + x  BY <1>1, <1>3
<1>6. PICK v \in Nat : v = SEQ_MOD * p /\ b = v + y  BY <1>2, <1>3
<1>7. a = u + x /\ b = v + y  BY <1>5, <1>6
<1> HIDE DEF x, y
<1>8. CASE q = p
  <2>1. u = v  BY <1>5, <1>6, <1>8
  <2>2. a - b = x - y  BY <2>1, <1>3, <1>4, <1>7
  <2>3. SeqSub(x, y) = IF a >= b THEN a - b ELSE (a - b) + SEQ_MOD
    BY <2>2, <1>3, <1>4 DEF SeqSub
  <2>. QED BY <2>3 DEF x, y
<1>9. CASE q > p
  <2>1. u >= v + SEQ_MOD /\ (q >= p + 2 => u >= v + 2 * SEQ_MOD)
    BY <1>3, <1>5, <1>6, <1>9, SmallMultiple
  <2>2. q = p + 1  BY <2>1, <1>3, <1>4, <1>5, <1>6, <1>9
  <2>3. u = v + SEQ_MOD  BY <2>2, <1>3, <1>5, <1>6
  <2>. QED BY <2>3, <1>3, <1>4, <1>5, <1>6 DEF SeqSub, x, y
<1>10. CASE q < p
  <2>1. v >= u + SEQ_MOD /\ (p >= q + 2 => v >= u + 2 * SEQ_MOD)
    BY <1>3, <1>5, <1>6, <1>10, SmallMultiple
  <2>2. p = q + 1  BY <2>1, <1>3, <1>4, <1>5, <1>6, <1>10
  <2>3. v = u + SEQ_MOD  BY <2>2, <1>3, <1>5, <1>6
  <2>. QED BY <2>3, <1>3, <1>4, <1>5, <1>6 DEF SeqSub, x, y
<1>. QED BY <1>8, <1>9, <1>10

\* SEQ_GT of rtl/ludp_protocol_rx.sv and rtl/ludp_protocol_tx.sv decides the
\* order of the unbounded counts, wrap-around included.
THEOREM SeqGTCorrect ==
  ASSUME NEW a \in Nat, NEW b \in Nat, a - b < HALF_SEQ, b - a < HALF_SEQ
  PROVE  SeqGT(WrapSeq(a), WrapSeq(b)) <=> a > b
<1>1. SeqSub(WrapSeq(a), WrapSeq(b)) = IF a >= b THEN a - b ELSE (a - b) + SEQ_MOD
  BY SubOfWrapped
<1>. QED BY <1>1, HalfSeqAssumption DEF SeqGT, SEQ_MOD

\* The register's increment follows the count's.
LEMMA IncOfWrapped ==
  ASSUME NEW n \in Nat
  PROVE  SeqInc(WrapSeq(n)) = WrapSeq(n + 1)
<1>1. WrapSeq(n) \in SeqNums /\ WrapSeq(n + 1) \in SeqNums  BY DivMod
<1>2. SeqSub(WrapSeq(n + 1), WrapSeq(n)) = 1
  BY SubOfWrapped, HalfSeqAssumption
<1>. QED BY <1>1, <1>2, HalfSeqAssumption DEF SeqInc, SeqSub, SeqNums, SEQ_MOD

\* A wrapped count is a register value; zero is its own.
LEMMA WrapType ==
  /\ \A n \in Nat : WrapSeq(n) \in SeqNums
  /\ WrapSeq(0) = 0
  /\ 0 \in SeqNums
<1>1. WrapSeq(0) = 0
  <2>1. PICK q \in Nat : 0 = SEQ_MOD * q + WrapSeq(0) /\ WrapSeq(0) \in SeqNums  BY DivMod
  <2>2. SEQ_MOD * q \in Nat  BY HalfSeqAssumption DEF SEQ_MOD
  <2>. QED BY <2>1, <2>2, HalfSeqAssumption DEF SeqNums, SEQ_MOD
<1>. QED BY <1>1, DivMod, HalfSeqAssumption DEF SeqNums, SEQ_MOD

-----------------------------------------------------------------------------
\* Types.

\* What the surroundings may present in a cycle.
RxTypeOK(rx) ==
  /\ rx.type \in {"NONE", "STATUS", "CREDIT", "NACK", "CMD"}
  /\ rx.type = "CREDIT" => /\ rx.seq = WrapSeq(rx.abs) /\ rx.abs \in Nat
                           /\ rx.abs <= done + WINDOW /\ granted - rx.abs < HALF_SEQ
  /\ rx.type = "NACK" => rx.seq \in SeqNums
  /\ rx.type = "CMD" => rx.opcode \in Opcodes /\ rx.posted \in BOOLEAN

StatusTypeOK(wr_status) ==
  /\ wr_status \in {"NONE", "OK", "ERROR"}
  /\ wr_status /= "NONE" => wr_queue /= <<>>

\* Every packet, request and completion offered to the core is well formed.
LEMMA InputTypes ==
  ASSUME TypeOK, NEW wr_go \in BOOLEAN
  PROVE  /\ \A rx \in RxEvents(wr_go) : RxTypeOK(rx)
         /\ \A wr_status \in WrStatuses : StatusTypeOK(wr_status)
<1>1. ASSUME NEW rx \in RxEvents(wr_go) PROVE RxTypeOK(rx)
  <2>1. CASE rx = NoRx  BY <2>1 DEF NoRx, RxTypeOK
  <2>2. CASE rx \in StatusRequests  BY <2>2 DEF StatusRequests, RxTypeOK
  <2>3. CASE rx \in CreditPackets
    <3>1. PICK n \in 0 .. MAX_PKTS :
            /\ n <= done + WINDOW /\ granted - n < HALF_SEQ
            /\ rx = [type |-> "CREDIT", seq |-> WrapSeq(n), abs |-> n]
      BY <2>3 DEF CreditPackets
    <3>. QED BY <3>1, FpgaAssumption DEF RxTypeOK
  <2>4. CASE rx \in NackChoices  BY <2>4 DEF NackChoices, NackPackets, RxTypeOK
  <2>5. CASE rx \in CmdPackets
    <3>1. PICK o \in Opcodes : rx = [type |-> "CMD", opcode |-> o, posted |-> o /= "READ"]
      BY <2>5 DEF CmdPackets
    <3>2. rx.type = "CMD" /\ rx.opcode = o /\ rx.posted = (o /= "READ")
      BY <3>1
    <3>3. (o /= "READ") \in BOOLEAN  BY Zenon
    <3>. QED BY <3>2, <3>3 DEF RxTypeOK
  <2>. QED BY <2>1, <2>2, <2>3, <2>4, <2>5 DEF RxEvents
<1>2. ASSUME NEW wr_status \in WrStatuses PROVE StatusTypeOK(wr_status)
  BY DEF WrStatuses, StatusTypeOK
<1>. QED BY <1>1, <1>2

\* A cycle changes the registers to register values.
LEMMA RegsTypes ==
  ASSUME TypeOK, NEW rx, RxTypeOK(rx), NEW resp_done \in BOOLEAN, NEW pkt_done \in BOOLEAN,
         RegsStep(rx, resp_done, pkt_done)
  PROVE  RegsTypeOK'
<1>1. RegsTypeOK  BY DEF TypeOK
<1>2. seq_num' \in SeqNums
  BY <1>1, HalfSeqAssumption DEF RegsStep, RegsTypeOK, SeqInc, SeqNums, SEQ_MOD
<1>3. credit_limit' \in SeqNums
  BY <1>1, WrapType DEF RegsStep, RegsTypeOK, RxTypeOK, RxCreditValid
<1>4. f2h_tx_enabled' \in BOOLEAN /\ resp_ongoing' \in BOOLEAN
  BY <1>1, Zenon DEF RegsStep, RegsTypeOK, RxCmdStart, RxCmdStop, RxRespReq
<1>5. resp' \in Responses
  <2>1. NoResp \in Responses  BY DEF NoResp, Responses
  <2>2. CASE RxRespReq(rx) \/ RxStatusReq(rx)
    <3>1. rx.type = "CMD" => (~rx.posted) \in BOOLEAN /\ rx.opcode \in Opcodes
      BY Zenon DEF RxTypeOK
    <3>2. RxResp(rx) \in Responses
      BY <3>1 DEF RxResp, Responses
    <3>. QED BY <2>2, <3>2 DEF RegsStep
  <2>3. CASE ~(RxRespReq(rx) \/ RxStatusReq(rx))
    BY <1>1, <2>1, <2>3 DEF RegsStep, RegsTypeOK
  <2>. QED BY <2>2, <2>3
<1>. QED BY <1>2, <1>3, <1>4, <1>5 DEF RegsTypeOK

\* A cycle takes the transmit FSM to one of its states.
LEMMA TxTypes ==
  ASSUME TypeOK, NEW start, NEW start_data, NEW tready, NEW tvalid, NEW tlast,
         TxStep(start, start_data, seq_num, RdPktSize, tready, tvalid, tlast)
  PROVE  TxTypeOK'
<1>1. TxTypeOK /\ RegsTypeOK /\ SchTypeOK  BY DEF TypeOK
<1>2. RdPktSize \in Nat
  BY <1>1, SchedulerAssumption DEF SchTypeOK, RdPktSize, PktBeats
<1>3. mux_lock' \in {0, 1, FREE}
  BY <1>1 DEF TxStep, MuxStep, TxTypeOK
<1>4. CASE TxReset
  BY <1>3, <1>4, WrapType DEF TxReset, TxTypeOK, TxStates, NoHeader
<1>5. CASE TxIdle(start_data, seq_num, RdPktSize)
  <2> DEFINE Headers == [type : {"NONE", "DATA", "CMD_ACK", "CMD_CPL"}, seq : SeqNums,
                         size : Nat, opcode : Opcodes \cup {"NONE", "STATUS"}]
  <2>1. RespHeader \in Headers
    BY <1>1, WrapType DEF RespHeader, RegsTypeOK, Responses
  <2>2. DataHeader(seq_num, RdPktSize) \in Headers
    BY <1>1, <1>2 DEF DataHeader, RegsTypeOK
  <2>3. tx_header \in Headers  BY <1>1 DEF TxTypeOK
  <2>4. tx_header' \in Headers
    BY <1>5, <2>1, <2>2, <2>3 DEF TxIdle
  <2>. QED BY <1>3, <1>5, <2>4 DEF TxIdle, TxTypeOK, TxStates
<1>6. CASE TxResp(tready)
  BY <1>1, <1>3, <1>6, WrapType
     DEF TxResp, TxTypeOK, TxStates, NoHeader, RespDone, MuxReady
<1>7. CASE TxDataHdr(tready)
  BY <1>1, <1>3, <1>7 DEF TxDataHdr, TxTypeOK, TxStates, MuxReady
<1>8. CASE TxData(tready, tvalid, tlast)
  BY <1>1, <1>3, <1>8, WrapType DEF TxData, TxTypeOK, TxStates, NoHeader
<1>. QED BY <1>4, <1>5, <1>6, <1>7, <1>8 DEF TxStep

\* A cycle of the write FSM and of the history of what it stores.
LEMMA WriteTypes ==
  ASSUME TypeOK, NEW wr_go \in BOOLEAN, NEW wr_last \in BOOLEAN, NEW clear,
         WrStep(wr_go, wr_last), PktHistory(wr_go, clear)
  PROVE  /\ wr_state' \in {"WR_IDLE", "WR_PACK", "WR_FINISH"}
         /\ wr_pack_last' \in BOOLEAN /\ wr_done_pulse' \in BOOLEAN
         /\ sink_tag' \in Blocks /\ sink_pkt' \in PktIds /\ fill_count' \in SeqNums
<1>1. SchTypeOK  BY DEF TypeOK
<1>2. /\ wr_state' \in {"WR_IDLE", "WR_PACK", "WR_FINISH"}
      /\ wr_pack_last' \in BOOLEAN /\ sink_tag' \in Blocks
  BY <1>1 DEF WrStep, WrIdle, WrPack, WrFinish, SchTypeOK
<1>3. wr_done_pulse' \in BOOLEAN
  BY <1>1, Zenon DEF WrStep, WrIdle, WrPack, WrFinish, SchTypeOK
<1>4. sink_pkt' \in PktIds /\ fill_count' \in SeqNums
  BY <1>1, HalfSeqAssumption
     DEF PktHistory, SchTypeOK, NoPkt, PktIds, SeqNums, SeqInc, SEQ_MOD
<1>. QED BY <1>2, <1>3, <1>4

\* A cycle of the read FSM.
LEMMA ReadTypes ==
  ASSUME TypeOK, NEW rd_req, NEW clear \in BOOLEAN, NEW word \in BOOLEAN, NEW tready \in BOOLEAN,
         RdStep(rd_req, clear, word, tready)
  PROVE  /\ rd_state' \in {"RD_IDLE", "RD_DESC", "RD_DATA"}
         /\ rd_axis_total_beats' \in {0, PktBeats}
         /\ rd_axis_beat_count' \in Nat
         /\ rd_clear_pending' \in BOOLEAN /\ rd_done_pulse' \in BOOLEAN
         /\ rd_unpack_valid' \in BOOLEAN /\ rd_unpack_idx' \in 0 .. RATIO - 1
         /\ rd_unpack_last_axi' \in BOOLEAN /\ rd_unpack_pkt' \in PktIds
<1>1. SchTypeOK  BY DEF TypeOK
<1>2. rd_state' \in {"RD_IDLE", "RD_DESC", "RD_DATA"}
  BY <1>1 DEF RdStep, RdState, SchTypeOK
<1>3. SchTargetBlk \in Blocks  BY <1>1 DEF SchTargetBlk, SchTypeOK
<1>4. rd_axis_total_beats' \in {0, PktBeats} /\ rd_axis_beat_count' \in Nat
  BY <1>1, <1>3 DEF RdStep, SchTypeOK
<1>5. rd_clear_pending' \in BOOLEAN /\ rd_done_pulse' \in BOOLEAN
  <2>1. rd_done_pulse' = (ReadDone(tready) /\ ~rd_clear_pending)  BY DEF RdStep
  <2>2. \/ rd_clear_pending' = FALSE
        \/ rd_clear_pending' = (rd_clear_pending \/ (clear /\ rd_state /= "RD_IDLE"))
    BY DEF RdStep
  <2>. QED BY <2>1, <2>2, Zenon
<1>6. rd_unpack_valid' \in BOOLEAN /\ rd_unpack_last_axi' \in BOOLEAN
  <2>1. \/ rd_unpack_valid' = ~WordDropped(word, tready)
        \/ rd_unpack_valid' = (rd_unpack_valid /\ ~WordFinished(tready))
    BY DEF RdStep, RdUnpack
  <2>2. rd_unpack_last_axi' = (dma_rd_left = 1) \/ rd_unpack_last_axi' = rd_unpack_last_axi
    BY DEF RdStep, RdUnpack
  <2>3. rd_unpack_last_axi \in BOOLEAN  BY <1>1 DEF SchTypeOK
  <2>. QED BY <2>1, <2>2, <2>3, Zenon
<1>7. rd_unpack_idx' \in 0 .. RATIO - 1 /\ rd_unpack_pkt' \in PktIds
  BY <1>1, SchedulerAssumption DEF RdStep, RdUnpack, SchTypeOK, WordFinished
<1>. QED BY <1>2, <1>4, <1>5, <1>6, <1>7

\* A cycle of the DMA engines and the memory.
LEMMA DmaTypes ==
  ASSUME TypeOK, NEW wr_status, StatusTypeOK(wr_status), NEW clear, NEW word, NEW tready,
         DmaWrStep(wr_status, clear), DmaRdStep(word, tready)
  PROVE  /\ wr_queue' \in Seq([tag : Blocks, pkt : PktIds])
         /\ mem' \in [Blocks -> PktIds]
         /\ dma_rd_blk' \in Blocks /\ dma_rd_left' \in Nat
<1>1. SchTypeOK  BY DEF TypeOK
<1> DEFINE Writes == [tag : Blocks, pkt : PktIds]
           queued == IF wr_done_pulse
                       THEN Append(wr_queue, [tag |-> sink_tag, pkt |-> sink_pkt])
                       ELSE wr_queue
           rest == IF wr_status = "NONE" THEN queued ELSE Tail(queued)
           stored == IF wr_status = "NONE" THEN mem
                     ELSE [mem EXCEPT ![Head(wr_queue).tag] =
                             IF wr_status = "OK" THEN Head(wr_queue).pkt ELSE NoPkt]
<1>2. wr_queue \in Seq(Writes) /\ [tag |-> sink_tag, pkt |-> sink_pkt] \in Writes
  BY <1>1 DEF SchTypeOK
<1>3. NoPkt \in PktIds  BY HalfSeqAssumption DEF NoPkt, PktIds, SEQ_MOD
<1>4. wr_status /= "NONE" => Head(wr_queue) \in Writes /\ wr_queue /= <<>>
  <2> HIDE DEF Writes
  <2>. QED BY <1>2 DEF StatusTypeOK
<1>5. queued \in Seq(Writes) /\ (wr_status /= "NONE" => queued /= <<>>)
  <2> HIDE DEF Writes
  <2>. QED BY <1>2, <1>4
<1>6. rest \in Seq(Writes)
  <2> HIDE DEF queued, Writes
  <2>. QED BY <1>5
<1>7. [i \in DOMAIN rest |-> [rest[i] EXCEPT !.pkt = NoPkt]] \in Seq(Writes)
  <2> HIDE DEF rest
  <2>1. DOMAIN rest = 1 .. Len(rest) /\ Len(rest) \in Nat  BY <1>6
  <2>2. \A i \in 1 .. Len(rest) : rest[i] \in Writes
    <3> HIDE DEF Writes
    <3>. QED BY <1>6
  <2>3. \A r \in Writes : [r EXCEPT !.pkt = NoPkt] \in Writes  BY <1>3
  <2>4. \A i \in 1 .. Len(rest) : [rest[i] EXCEPT !.pkt = NoPkt] \in Writes
    BY <2>2, <2>3
  <2> HIDE DEF Writes
  <2>. QED BY <2>1, <2>4
<1>8. wr_queue' \in Seq(Writes)
  <2>1. \/ wr_queue' = [i \in DOMAIN rest |-> [rest[i] EXCEPT !.pkt = NoPkt]]
        \/ wr_queue' = rest
    BY DEF DmaWrStep
  <2>. QED BY <1>6, <1>7, <2>1
<1>9. mem' \in [Blocks -> PktIds]
  <2>1. mem \in [Blocks -> PktIds]  BY <1>1 DEF SchTypeOK
  <2>2. stored \in [Blocks -> PktIds]  BY <1>3, <1>4, <2>1
  <2>3. mem' = [b \in Blocks |-> NoPkt] \/ mem' = stored  BY DEF DmaWrStep
  <2>. QED BY <1>3, <2>2, <2>3
<1>10. dma_rd_blk' \in Blocks /\ dma_rd_left' \in Nat
  BY <1>1, SchedulerAssumption
     DEF DmaRdStep, SchTypeOK, SchTargetBlk, StreamWords, WordTaken
<1>. QED BY <1>8, <1>9, <1>10

\* The ring's variables.
RingTypeOK ==
  /\ blk_state \in [Blocks -> {"EMPTY", "FILL", "READY", "SENT"}]
  /\ blk_seq \in [Blocks -> SeqNums]
  /\ blk_size \in [Blocks -> {0, PktBeats}]
  /\ dma_wr_idx \in Blocks /\ tx_rd_idx \in Blocks /\ rd_blk_idx \in Blocks
  /\ retx_pending \in BOOLEAN /\ retx_pending_idx \in Blocks /\ retx_req_d \in BOOLEAN
  /\ sch_state \in {"SCH_IDLE", "SCH_READING"} /\ sch_is_retx \in BOOLEAN

\* A nonempty set of blocks has a highest one: the well-foundedness of < on
\* Nat, counted from the top of the ring.
LEMMA HighestBlock ==
  ASSUME NEW T \in SUBSET Blocks, T /= {}
  PROVE  \E b \in T : \A c \in T : c <= b
<1> DEFINE U == {n \in Nat : NUM_BLOCKS - n \in T}
           R == {p \in Nat \X Nat : p[1] < p[2]}
<1>1. U \subseteq Nat /\ U /= {}
  <2>1. PICK b \in T : b \in 0 .. NUM_BLOCKS - 1  BY DEF Blocks
  <2>2. NUM_BLOCKS - b \in Nat /\ NUM_BLOCKS - (NUM_BLOCKS - b) = b
    BY <2>1, SchedulerAssumption
  <2>. QED BY <2>1, <2>2
<1>2. IsWellFoundedOn(R, Nat)  BY NatLessThanWellFounded, Zenon DEF OpToRel
<1>3. PICK x \in U : \A y \in U : ~(<<y, x>> \in R)
  <2> HIDE DEF U, R
  <2>. QED BY <1>1, <1>2, WFMin
<1>4. \A y \in U : x <= y
  <2>1. \A y \in Nat : y < x => <<y, x>> \in R  OBVIOUS
  <2>2. \A y \in U : y \in Nat /\ ~(y < x)
    <3> HIDE DEF R, U
    <3>. QED BY <1>1, <1>3, <2>1
  <2>3. x \in Nat  BY <1>1
  <2> HIDE DEF U
  <2>. QED BY <2>2, <2>3
<1>5. ASSUME NEW c \in T PROVE c <= NUM_BLOCKS - x
  <2>1. c \in 0 .. NUM_BLOCKS - 1  BY DEF Blocks
  <2>2. NUM_BLOCKS - c \in U  BY <2>1, SchedulerAssumption
  <2>3. x <= NUM_BLOCKS - c  BY <1>4, <2>2
  <2>4. x \in Nat  BY <1>1
  <2> HIDE DEF U
  <2>. QED BY <2>1, <2>3, <2>4, SchedulerAssumption
<1>6. NUM_BLOCKS - x \in T  BY <1>3
<1>. QED BY <1>5, <1>6

\* The block a NACK is matched with holds a packet that was sent.
LEMMA LookupFound ==
  ASSUME NEW seq, RetxMatches(seq) /= {}
  PROVE  RetxLookupIdx(seq) \in Blocks /\ blk_state[RetxLookupIdx(seq)] = "SENT"
<1>1. RetxMatches(seq) \in SUBSET Blocks  BY DEF RetxMatches
<1>2. \E b \in RetxMatches(seq) : \A c \in RetxMatches(seq) : c <= b
  BY <1>1, HighestBlock
<1>3. RetxLookupIdx(seq) \in RetxMatches(seq)
  BY <1>2 DEF RetxLookupIdx
<1>. QED BY <1>3 DEF RetxMatches

\* A cycle of the ring.
LEMMA RingTypes ==
  ASSUME TypeOK, NEW retx_req \in BOOLEAN, NEW retx_seq, NEW tx_pkt_start \in BOOLEAN,
         NEW wr_status, StatusTypeOK(wr_status),
         RingStep(retx_req, retx_seq, tx_pkt_start, seq_num, wr_status)
  PROVE  RingTypeOK'
<1>1. RingTypeOK /\ seq_num \in SeqNums
  BY DEF TypeOK, SchTypeOK, RingTypeOK, RegsTypeOK
<1>2. \A b \in Blocks : BlkNext(b) \in Blocks
  BY SchedulerAssumption DEF BlkNext, Blocks
<1>3. blk_state' \in [Blocks -> {"EMPTY", "FILL", "READY", "SENT"}]
  <2>1. \A b \in Blocks : BlkStateNext(b, wr_status) \in {"EMPTY", "FILL", "READY", "SENT"}
    BY <1>1 DEF BlkStateNext, RingTypeOK
  <2>. QED BY <2>1 DEF RingStep
<1>4. blk_seq' \in [Blocks -> SeqNums] /\ blk_size' \in [Blocks -> {0, PktBeats}]
  BY <1>1 DEF RingStep, RingTypeOK
<1>5. dma_wr_idx' \in Blocks /\ tx_rd_idx' \in Blocks
  BY <1>1, <1>2 DEF RingStep, RingTypeOK
<1>6. rd_blk_idx' \in Blocks /\ sch_state' \in {"SCH_IDLE", "SCH_READING"}
  BY <1>1 DEF RingStep, RingTypeOK, SchTargetBlk
<1>7. retx_pending_idx' \in Blocks
  BY <1>1, LookupFound DEF RingStep, RingTypeOK
<1>8. retx_pending' \in BOOLEAN /\ retx_req_d' \in BOOLEAN
  BY <1>1, Zenon DEF RingStep, RingTypeOK
<1>9. sch_is_retx' \in BOOLEAN
  BY <1>1, Zenon DEF RingStep, RingTypeOK, IssueRetx
<1>. QED BY <1>3, <1>4, <1>5, <1>6, <1>7, <1>8, <1>9 DEF RingTypeOK

\* A cycle of the scheduler.
LEMMA SchTypes ==
  ASSUME TypeOK, NEW clear \in BOOLEAN, NEW retx_req \in BOOLEAN, NEW retx_seq,
         NEW tx_pkt_start \in BOOLEAN, NEW wr_go \in BOOLEAN, NEW wr_last \in BOOLEAN,
         NEW wr_status, StatusTypeOK(wr_status), NEW word \in BOOLEAN, NEW tready \in BOOLEAN,
         SchStep(clear, retx_req, retx_seq, tx_pkt_start, seq_num,
                 wr_go, wr_last, wr_status, word, tready)
  PROVE  SchTypeOK'
<1>1. RingTypeOK'
  <2>1. CASE RingClear
    <3>1. 0 \in Blocks  BY SchedulerAssumption DEF Blocks
    <3>2. /\ blk_state' \in [Blocks -> {"EMPTY", "FILL", "READY", "SENT"}]
          /\ blk_seq' \in [Blocks -> SeqNums] /\ blk_size' \in [Blocks -> {0, PktBeats}]
      BY <2>1, WrapType DEF RingClear
    <3>. QED BY <2>1, <3>1, <3>2 DEF RingClear, RingTypeOK
  <2>2. CASE RingStep(retx_req, retx_seq, tx_pkt_start, seq_num, wr_status)
    BY <2>2, RingTypes
  <2>. QED BY <2>1, <2>2 DEF SchStep
<1>2. /\ WrStep(wr_go, wr_last) /\ PktHistory(wr_go, clear)
      /\ RdStep(SchDmaRdReq(tx_pkt_start), clear, word, tready)
      /\ DmaWrStep(wr_status, clear) /\ DmaRdStep(word, tready)
  BY DEF SchStep
<1>. QED BY <1>1, <1>2, WriteTypes, ReadTypes, DmaTypes DEF RingTypeOK, SchTypeOK

\* The wires between the blocks are Boolean.
LEMMA WireTypes ==
  ASSUME NEW rx, NEW tready
  PROVE  /\ RxCmdStart(rx) \in BOOLEAN /\ RxRetxReq(rx) \in BOOLEAN
         /\ RespDone(tready) \in BOOLEAN /\ DataInTready(tready) \in BOOLEAN
         /\ TxPktDone \in BOOLEAN /\ PktStart \in BOOLEAN
BY Zenon DEF RxCmdStart, RxRetxReq, RespDone, DataInTready, TxPktDone, PktStart, TxPktStart

\* A step is a clock cycle with well-formed inputs; a START among them comes
\* when StartAllowed says.
LEMMA StepIsCycle ==
  ASSUME TypeOK, Next
  PROVE  \E rx : \E tready \in BOOLEAN, word \in BOOLEAN, wr_go \in BOOLEAN,
            wr_last \in BOOLEAN, wr_status \in {"NONE", "OK", "ERROR"} :
           /\ RxTypeOK(rx) /\ StatusTypeOK(wr_status)
           /\ RxCmdStart(rx) => StartAllowed(wr_go)
           /\ Clock(rx, tready, wr_go, wr_last, wr_status, word)
<1>1. PICK tready \in BOOLEAN, word \in BOOLEAN, wr_go \in BOOLEAN, wr_last \in BOOLEAN,
           wr_status \in WrStatuses :
        Cycle(tready, word, wr_go, wr_last, wr_status)
  BY DEF Next, TreadyChoices, WordChoices, WrGoChoices, WrLastChoices, When
<1>2. PICK rx \in RxEvents(wr_go) : Clock(rx, tready, wr_go, wr_last, wr_status, word)
  BY <1>1 DEF Cycle
<1>3. RxTypeOK(rx) /\ StatusTypeOK(wr_status)  BY InputTypes
<1>4. RxCmdStart(rx) => StartAllowed(wr_go)
  <2>1. SUFFICES ASSUME rx.type = "CMD", rx.opcode = "START" PROVE StartAllowed(wr_go)
    BY DEF RxCmdStart, RxRespReq
  <2>2. rx \in {c \in CmdPackets : c.opcode = "START" => StartAllowed(wr_go)}
    BY <2>1 DEF RxEvents, NoRx, StatusRequests, CreditPackets, NackChoices, NackPackets
  <2>. QED BY <2>1, <2>2
<1>5. wr_status \in {"NONE", "OK", "ERROR"}  BY <1>3 DEF StatusTypeOK
<1>. QED BY <1>2, <1>3, <1>4, <1>5

\* A clock cycle preserves the type of every register of LudpFpga.
LEMMA TypeStep ==
  ASSUME TypeOK, NEW rx, RxTypeOK(rx), NEW tready \in BOOLEAN, NEW word \in BOOLEAN,
         NEW wr_go \in BOOLEAN, NEW wr_last \in BOOLEAN, NEW wr_status, StatusTypeOK(wr_status),
         Clock(rx, tready, wr_go, wr_last, wr_status, word)
  PROVE  TypeOK'
<1>1. RegsTypeOK'
  BY WireTypes, RegsTypes DEF Clock
<1>2. TxTypeOK'
  BY TxTypes DEF Clock
<1>3. SchTypeOK'
  <2> DEFINE retx_seq == IF rx.type = "NACK" THEN rx.seq ELSE 0
  <2>1. SchStep(RxCmdStart(rx), RxRetxReq(rx), retx_seq, PktStart, seq_num,
                wr_go, wr_last, wr_status, word, DataInTready(tready))
    BY DEF Clock
  <2> HIDE DEF retx_seq
  <2>. QED BY <2>1, WireTypes, SchTypes
<1>4. started' \in Nat /\ done' \in Nat /\ granted' \in Nat
  BY DEF Clock, HistStep, TypeOK, RxTypeOK, RxCreditValid
<1>5. owed' \in Int
  BY DEF Clock, HistStep, TypeOK
<1>. QED BY <1>1, <1>2, <1>3, <1>4, <1>5 DEF TypeOK

\* The registers, FSM states, indices and counters of the core stay in range.
THEOREM TypeCorrect == Spec => []TypeOK
<1>1. Init => TypeOK
  <2>1. SUFFICES ASSUME Init PROVE TypeOK  OBVIOUS
  <2>2. RegsTypeOK
    BY <2>1, WrapType DEF Init, RegsInit, RegsTypeOK, NoResp, Responses
  <2>3. TxTypeOK
    BY <2>1, WrapType DEF Init, TxInit, TxTypeOK, TxStates, NoHeader
  <2>4. SchTypeOK
    <3>1. 0 \in Blocks /\ 0 \in 0 .. RATIO - 1
      BY SchedulerAssumption DEF Blocks
    <3>2. NoPkt \in PktIds /\ 0 \in SeqNums
      BY HalfSeqAssumption, WrapType DEF NoPkt, PktIds, SEQ_MOD
    <3>3. /\ blk_state \in [Blocks -> {"EMPTY", "FILL", "READY", "SENT"}]
          /\ blk_seq \in [Blocks -> SeqNums] /\ blk_size \in [Blocks -> {0, PktBeats}]
          /\ mem \in [Blocks -> PktIds]
          /\ wr_queue \in Seq([tag : Blocks, pkt : PktIds])
      BY <2>1, <3>2 DEF Init, SchInit
    <3>. QED BY <2>1, <3>1, <3>2, <3>3 DEF Init, SchInit, SchTypeOK
  <2>5. /\ started \in Nat /\ done \in Nat /\ granted \in Nat
        /\ owed \in Int
    BY <2>1 DEF Init
  <2>. QED BY <2>2, <2>3, <2>4, <2>5 DEF TypeOK
<1>2. TypeOK /\ [Next]_vars => TypeOK'
  <2>1. CASE UNCHANGED vars
    BY <2>1 DEF vars, regVars, txVars, schVars, ringVars, wrVars, rdVars, dmaVars, histVars,
                TypeOK, RegsTypeOK, TxTypeOK, SchTypeOK
  <2>2. ASSUME TypeOK, Next PROVE TypeOK'
    BY <2>2, StepIsCycle, TypeStep
  <2>. QED BY <2>1, <2>2
<1>. QED BY <1>1, <1>2, PTL DEF Spec

-----------------------------------------------------------------------------
(***************************************************************************)
(* The credit stream.  A quiet START empties the core; in every other      *)
(* cycle the scheduler begins a live read exactly when the transmit FSM    *)
(* starts a live packet, and the read's beats are accounted for until its  *)
(* one completion pulse.                                                   *)
(***************************************************************************)

\* A START that finds the core quiet leaves it as it was after reset.
LEMMA QuietStart ==
  ASSUME QUIET_START, TypeOK, StreamInv, NEW rx, RxCmdStart(rx),
         NEW tready \in BOOLEAN, NEW word \in BOOLEAN, NEW wr_go \in BOOLEAN, NEW wr_last,
         NEW wr_status, StartAllowed(wr_go),
         Clock(rx, tready, wr_go, wr_last, wr_status, word)
  PROVE  StreamInv' /\ Stream!Restart
<1>1. /\ SchReady /\ ~rd_done_pulse /\ ~retx_pending /\ ~PktStart
      /\ sch_state = "SCH_IDLE" /\ rd_state = "RD_IDLE" /\ ~rd_unpack_valid
  BY DEF StartAllowed, Quiet, SchReady, RdBusy
<1>2. ~SchDmaRdReq(PktStart)
  BY <1>1 DEF SchDmaRdReq, IssueRetx, IssueLive
<1>3. RingClear /\ RdStep(SchDmaRdReq(PktStart), RxCmdStart(rx), word, DataInTready(tready))
  BY DEF Clock, SchStep
<1>4. rd_state' = "RD_IDLE" /\ rd_unpack_valid' = FALSE /\ rd_done_pulse' = FALSE
  BY <1>1, <1>2, <1>3
     DEF RdStep, RdState, RdUnpack, WordTaken, WordFinished, BeatTaken, ReadDone
<1>5. rd_clear_pending' = FALSE
  BY <1>1, <1>3 DEF RdStep, StreamInv, ReadsBeginClean
<1>6. ReadsBeginClean' /\ LiveReadAccounted'
  BY <1>3, <1>4, <1>5 DEF RingClear, ReadsBeginClean, LiveReadAccounted, LiveRead, RdBusy
<1>7. started' = 0 /\ done' = 0 /\ granted' = 0 /\ seq_num' = 0 /\ credit_limit' = 0
  BY DEF Clock, HistStep, RegsStep
<1>8. f2h_tx_enabled' = TRUE
  BY DEF Clock, RegsStep
<1>9. CountsAgree' /\ CreditSafe'
  BY <1>3, <1>7, WrapType, FpgaAssumption DEF CountsAgree, CreditSafe, LiveRead, RingClear
<1>. QED BY <1>6, <1>7, <1>8, <1>9 DEF StreamInv, Stream!Restart

\* What a cycle without START does to the scheduler and the counts.
LEMMA OtherCycle ==
  ASSUME TypeOK, StreamInv, NEW rx, RxTypeOK(rx), ~RxCmdStart(rx),
         NEW tready \in BOOLEAN, NEW word \in BOOLEAN, NEW wr_go \in BOOLEAN, NEW wr_last,
         NEW wr_status, StatusTypeOK(wr_status),
         Clock(rx, tready, wr_go, wr_last, wr_status, word)
  PROVE  /\ LiveRead' <=> PktStart \/ (LiveRead /\ ~rd_done_pulse)
         /\ PktStart => ~LiveRead /\ ~TxPktDone /\ done < granted /\ f2h_tx_enabled
         /\ TxPktDone <=> LiveRead /\ rd_done_pulse
         /\ IssueLive(PktStart) <=> PktStart
<1>1. RingStep(RxRetxReq(rx), IF rx.type = "NACK" THEN rx.seq ELSE 0,
               PktStart, seq_num, wr_status)
  BY DEF Clock, SchStep
<1>2. SchTypeOK  BY DEF TypeOK
<1>3. IssueLive(PktStart) <=> PktStart
  BY DEF IssueLive, PktStart, TxPktStart
<1>4. SchDmaRdReq(PktStart) => sch_state = "SCH_IDLE"
  BY DEF SchDmaRdReq, IssueRetx, IssueLive, SchReady
<1>5. PktStart => ~IssueRetx /\ SchReady
  BY DEF PktStart, TxPktStart, IssueRetx
<1>6. LiveRead' <=> PktStart \/ (LiveRead /\ ~rd_done_pulse)
  <2>1. CASE SchDmaRdReq(PktStart)
    <3>1. sch_state' = "SCH_READING" /\ sch_is_retx' = IssueRetx
      BY <1>1, <1>4, <2>1 DEF RingStep
    <3>2. IssueRetx \/ PktStart
      BY <1>3, <2>1 DEF SchDmaRdReq
    <3>. QED BY <1>4, <1>5, <2>1, <3>1, <3>2 DEF LiveRead
  <2>2. CASE ~SchDmaRdReq(PktStart)
    <3>1. ~PktStart  BY <1>3, <2>2 DEF SchDmaRdReq
    <3>. QED BY <1>1, <1>2, <2>2, <3>1 DEF RingStep, LiveRead, SchTypeOK
  <2>. QED BY <2>1, <2>2
<1>7. TxPktDone <=> LiveRead /\ rd_done_pulse
  BY <1>2 DEF TxPktDone, LiveRead, StreamInv, ReadsBeginClean, SchTypeOK
<1>8. PktStart => ~LiveRead /\ ~TxPktDone
  BY <1>5, <1>7 DEF SchReady, LiveRead
<1>9. PktStart => done < granted /\ f2h_tx_enabled
  <2>1. SUFFICES ASSUME PktStart PROVE done < granted /\ f2h_tx_enabled  OBVIOUS
  <2>2. SeqGT(WrapSeq(granted), WrapSeq(done)) /\ f2h_tx_enabled
    BY <2>1 DEF PktStart, TxPktStart, F2hTxOk, StreamInv, CountsAgree
  <2>3. /\ done \in Nat /\ granted \in Nat /\ WINDOW \in Nat /\ HALF_SEQ \in Nat
        /\ WINDOW < HALF_SEQ /\ granted <= done + WINDOW /\ done <= granted
    BY FpgaAssumption, HalfSeqAssumption DEF TypeOK, StreamInv, CountsAgree, CreditSafe
  <2>4. granted - done < HALF_SEQ /\ done - granted < HALF_SEQ  BY <2>3
  <2>. QED BY <2>2, <2>3, <2>4, SeqGTCorrect
<1>. QED BY <1>3, <1>6, <1>7, <1>8, <1>9

\* The counts follow the registers, and the abstract stream takes a step.
LEMMA CountsStep ==
  ASSUME TypeOK, StreamInv, NEW rx, RxTypeOK(rx), ~RxCmdStart(rx),
         NEW tready \in BOOLEAN, NEW word \in BOOLEAN, NEW wr_go \in BOOLEAN, NEW wr_last,
         NEW wr_status, StatusTypeOK(wr_status),
         Clock(rx, tready, wr_go, wr_last, wr_status, word)
  PROVE  CountsAgree' /\ CreditSafe' /\ Stream!Continue
<1>1. /\ LiveRead' <=> PktStart \/ (LiveRead /\ ~rd_done_pulse)
      /\ PktStart => ~LiveRead /\ ~TxPktDone /\ done < granted /\ f2h_tx_enabled
      /\ TxPktDone <=> LiveRead /\ rd_done_pulse
  BY OtherCycle
<1>2. /\ seq_num = WrapSeq(done) /\ credit_limit = WrapSeq(granted)
      /\ started = IF LiveRead THEN done + 1 ELSE done
      /\ granted <= done + WINDOW /\ started <= granted
      /\ done \in Nat /\ granted \in Nat /\ started \in Nat
  BY DEF TypeOK, StreamInv, CountsAgree, CreditSafe
<1>3. /\ started' = IF PktStart THEN started + 1 ELSE started
      /\ done' = IF TxPktDone THEN done + 1 ELSE done
      /\ granted' = IF RxCreditValid(rx) THEN rx.abs ELSE granted
      /\ seq_num' = IF TxPktDone THEN SeqInc(seq_num) ELSE seq_num
      /\ credit_limit' = IF RxCreditValid(rx) THEN rx.seq ELSE credit_limit
  BY DEF Clock, HistStep, RegsStep
<1>4. WINDOW \in Nat /\ HALF_SEQ \in Nat /\ WINDOW < HALF_SEQ
  BY FpgaAssumption, HalfSeqAssumption
<1>5. RxCreditValid(rx) => /\ rx.abs \in Nat /\ rx.abs > granted
                           /\ rx.abs <= done + WINDOW /\ rx.seq = WrapSeq(rx.abs)
  <2>1. SUFFICES ASSUME RxCreditValid(rx) PROVE rx.abs \in Nat /\ rx.abs > granted
                           /\ rx.abs <= done + WINDOW /\ rx.seq = WrapSeq(rx.abs)
    OBVIOUS
  <2>2. /\ rx.abs \in Nat /\ rx.abs <= done + WINDOW /\ granted - rx.abs < HALF_SEQ
        /\ rx.seq = WrapSeq(rx.abs) /\ SeqGT(rx.seq, credit_limit)
    BY <2>1 DEF RxCreditValid, RxTypeOK
  <2>3. done <= granted  BY <1>2
  <2>4. rx.abs - granted < HALF_SEQ  BY <1>2, <1>4, <2>2, <2>3
  <2>5. rx.abs > granted  BY <1>2, <2>2, <2>4, SeqGTCorrect
  <2>. QED BY <2>2, <2>5
<1>6. seq_num' = WrapSeq(done') /\ credit_limit' = WrapSeq(granted')
  BY <1>2, <1>3, <1>5, IncOfWrapped
<1>7. granted' \in Nat /\ granted' >= granted /\ granted' <= done' + WINDOW
  BY <1>2, <1>3, <1>4, <1>5
<1>8. started' = (IF LiveRead' THEN done' + 1 ELSE done') /\ started' <= granted'
  BY <1>1, <1>2, <1>3, <1>7
<1>9. \/ UNCHANGED <<started, done>>
      \/ /\ f2h_tx_enabled /\ started < granted /\ done = started
         /\ started' = started + 1 /\ UNCHANGED done
      \/ done < started /\ done' = done + 1 /\ UNCHANGED started
  BY <1>1, <1>2, <1>3
<1>10. f2h_tx_enabled' \in BOOLEAN /\ (f2h_tx_enabled' => f2h_tx_enabled)
  <2>1. f2h_tx_enabled' = (RxCmdStart(rx) \/ (f2h_tx_enabled /\ ~RxCmdStop(rx)))
    BY DEF Clock, RegsStep
  <2>. QED BY <2>1, Zenon
<1>11. CountsAgree' /\ CreditSafe'
  BY <1>6, <1>7, <1>8 DEF CountsAgree, CreditSafe
<1>. QED BY <1>7, <1>9, <1>10, <1>11 DEF Stream!Continue

\* Words and beats of a packet.
LEMMA BeatArithmetic ==
  /\ PktBeats \in Nat /\ RATIO \in Nat /\ RATIO >= 1 /\ PktBeats >= RATIO
  /\ PKT_WORDS \in Nat /\ PKT_WORDS >= 1 /\ PKT_WORDS * RATIO = PktBeats
  /\ PktBeats /= 0
  /\ \A n \in Nat \ {0} : n * RATIO \in Nat /\ (n - 1) * RATIO = n * RATIO - RATIO
                        /\ n * RATIO >= RATIO
<1>1. RATIO \in Nat /\ RATIO >= 1 /\ PKT_WORDS \in Nat /\ PKT_WORDS >= 1
  BY SchedulerAssumption
<1>2. ASSUME NEW n \in Nat \ {0}
      PROVE  n * RATIO \in Nat /\ (n - 1) * RATIO = n * RATIO - RATIO /\ n * RATIO >= RATIO
  <2>1. n * RATIO \in Nat /\ (n - 1) * RATIO \in Nat  BY <1>1
  <2>2. (n - 1) * RATIO = n * RATIO - RATIO  BY <1>1
  <2>. QED BY <1>1, <2>1, <2>2
<1>. QED BY <1>1, <1>2 DEF PktBeats

\* The ring keeps a size in every block a read may be pointed at.
LEMMA RingSizes ==
  ASSUME TypeOK, StreamInv, NEW rx, RxTypeOK(rx), ~RxCmdStart(rx),
         NEW tready \in BOOLEAN, NEW word \in BOOLEAN, NEW wr_go \in BOOLEAN, NEW wr_last,
         NEW wr_status, StatusTypeOK(wr_status),
         Clock(rx, tready, wr_go, wr_last, wr_status, word)
  PROVE  /\ \A b \in Blocks : blk_size[b] = PktBeats => blk_size'[b] = PktBeats
         /\ \A b \in Blocks : blk_state'[b] /= "EMPTY" => blk_size'[b] = PktBeats
         /\ retx_pending' => blk_size'[retx_pending_idx'] = PktBeats
<1>1. PICK retx_req, retx_seq : RingStep(retx_req, retx_seq, PktStart, seq_num, wr_status)
  BY DEF Clock, SchStep
<1>2. SchTypeOK  BY DEF TypeOK
<1>3. /\ \A b \in Blocks : blk_state[b] /= "EMPTY" => blk_size[b] = PktBeats
      /\ retx_pending => blk_size[retx_pending_idx] = PktBeats
  BY DEF StreamInv, ReadsBeginClean
<1>4. blk_size' = IF wr_done_pulse THEN [blk_size EXCEPT ![dma_wr_idx] = PktBeats] ELSE blk_size
  BY <1>1 DEF RingStep
<1>5. \A b \in Blocks : blk_size[b] = PktBeats \/ (wr_done_pulse /\ b = dma_wr_idx)
                          => blk_size'[b] = PktBeats
  BY <1>2, <1>4 DEF SchTypeOK
<1>6. ASSUME NEW b \in Blocks, blk_state'[b] /= "EMPTY" PROVE blk_size'[b] = PktBeats
  <2>1. BlkStateNext(b, wr_status) /= "EMPTY"
    BY <1>1, <1>6 DEF RingStep
  <2>2. CASE TxPktDone /\ b = rd_blk_idx
    <3>1. LiveRead  BY <2>2, OtherCycle
    <3>. QED BY <1>5, <2>2, <3>1 DEF StreamInv, ReadsBeginClean
  <2>3. CASE ~(TxPktDone /\ b = rd_blk_idx)
    BY <1>3, <1>5, <2>1, <2>3 DEF BlkStateNext
  <2>. QED BY <2>2, <2>3
<1>7. retx_pending' => blk_size'[retx_pending_idx'] = PktBeats
  <2> DEFINE latch == /\ retx_req /\ ~retx_req_d /\ RetxMatches(retx_seq) /= {}
                      /\ ~retx_pending
  <2>1. CASE latch
    <3>1. retx_pending_idx' = RetxLookupIdx(retx_seq)  BY <1>1, <2>1 DEF RingStep
    <3>2. RetxLookupIdx(retx_seq) \in Blocks /\ blk_state[RetxLookupIdx(retx_seq)] = "SENT"
      BY <2>1, LookupFound
    <3>. QED BY <1>3, <1>5, <3>1, <3>2
  <2>2. CASE ~latch
    <3>1. retx_pending_idx' = retx_pending_idx /\ (retx_pending' => retx_pending)
      BY <1>1, <2>2 DEF RingStep
    <3>. QED BY <1>2, <1>3, <1>5, <3>1 DEF SchTypeOK
  <2>. QED BY <2>1, <2>2
<1>. QED BY <1>5, <1>6, <1>7

\* A live read begins with nothing left of an earlier one.
LEMMA CleanStep ==
  ASSUME TypeOK, StreamInv, NEW rx, RxTypeOK(rx), ~RxCmdStart(rx),
         NEW tready \in BOOLEAN, NEW word \in BOOLEAN, NEW wr_go \in BOOLEAN, NEW wr_last,
         NEW wr_status, StatusTypeOK(wr_status),
         Clock(rx, tready, wr_go, wr_last, wr_status, word)
  PROVE  ReadsBeginClean'
<1>1. PICK retx_req, retx_seq : RingStep(retx_req, retx_seq, PktStart, seq_num, wr_status)
  BY DEF Clock, SchStep
<1>2. RdStep(SchDmaRdReq(PktStart), RxCmdStart(rx), word, DataInTready(tready))
  BY DEF Clock, SchStep
<1>3. /\ LiveRead' <=> PktStart \/ (LiveRead /\ ~rd_done_pulse)
      /\ PktStart => ~LiveRead /\ ~TxPktDone
      /\ TxPktDone <=> LiveRead /\ rd_done_pulse
      /\ IssueLive(PktStart) <=> PktStart
  BY OtherCycle
<1>4. /\ \A b \in Blocks : blk_size[b] = PktBeats => blk_size'[b] = PktBeats
      /\ \A b \in Blocks : blk_state'[b] /= "EMPTY" => blk_size'[b] = PktBeats
      /\ retx_pending' => blk_size'[retx_pending_idx'] = PktBeats
  BY RingSizes
<1>5. SchTypeOK /\ ReadsBeginClean /\ LiveReadAccounted  BY DEF TypeOK, StreamInv
<1>6. ~rd_clear_pending'
  BY <1>2, <1>5 DEF RdStep, ReadsBeginClean
<1>7. LiveRead' => rd_blk_idx' = tx_rd_idx' /\ blk_size'[rd_blk_idx'] = PktBeats
  <2>1. CASE PktStart
    <3>1. ~retx_pending /\ TxPktReady /\ tx_rd_idx \in Blocks /\ SchDmaRdReq(PktStart)
      BY <1>3, <1>5, <2>1 DEF PktStart, TxPktStart, SchTypeOK, SchDmaRdReq
    <3>2. sch_state = "SCH_IDLE"
      BY <2>1 DEF PktStart, TxPktStart, SchReady
    <3>3. rd_blk_idx' = tx_rd_idx /\ tx_rd_idx' = tx_rd_idx
      BY <1>1, <1>3, <2>1, <3>1, <3>2 DEF RingStep, SchTargetBlk
    <3>4. blk_size[tx_rd_idx] = PktBeats
      BY <1>5, <3>1 DEF ReadsBeginClean, TxPktReady
    <3>. QED BY <1>4, <3>1, <3>3, <3>4
  <2>2. CASE LiveRead /\ ~rd_done_pulse
    <3>1. sch_state = "SCH_READING" /\ ~SchDmaRdReq(PktStart)
      BY <2>2 DEF LiveRead, SchDmaRdReq, IssueRetx, IssueLive, SchReady
    <3>2. rd_blk_idx' = rd_blk_idx /\ tx_rd_idx' = tx_rd_idx
      BY <1>1, <1>3, <2>2, <3>1 DEF RingStep
    <3>. QED BY <1>4, <1>5, <2>2, <3>2 DEF ReadsBeginClean, SchTypeOK
  <2>. QED BY <1>3, <2>1, <2>2
<1>8. ASSUME sch_state' = "SCH_IDLE", ~sch_is_retx' PROVE ~RdBusy' /\ ~rd_done_pulse'
  <2>1. ~SchDmaRdReq(PktStart)
    BY <1>1, <1>8 DEF RingStep, SchDmaRdReq, IssueRetx, IssueLive, SchReady
  <2>2. sch_is_retx' = sch_is_retx
    BY <1>1, <2>1 DEF RingStep
  <2>3. ~RdBusy
    <3>1. CASE sch_state = "SCH_IDLE"
      BY <1>5, <1>8, <2>2, <3>1 DEF ReadsBeginClean
    <3>2. CASE sch_state = "SCH_READING"
      <4>1. rd_done_pulse
        BY <1>1, <1>8, <2>1, <3>2 DEF RingStep
      <4>. QED BY <1>5, <1>8, <2>2, <3>2, <4>1 DEF LiveReadAccounted, LiveRead, RdBusy
    <3>. QED BY <1>5, <3>1, <3>2 DEF SchTypeOK
  <2>. QED BY <1>2, <2>1, <2>3
         DEF RdBusy, RdStep, RdState, RdUnpack, WordTaken, WordFinished, BeatTaken, ReadDone
<1>. QED BY <1>4, <1>6, <1>7, <1>8 DEF ReadsBeginClean

\* A beat leaves the unpack register when it is counted.
LEMMA BeatMoves ==
  ASSUME SchTypeOK, NEW tr,
         rd_axis_beat_count' = IF BeatTaken(tr) THEN rd_axis_beat_count + 1
                               ELSE rd_axis_beat_count,
         rd_unpack_valid' = (rd_unpack_valid /\ ~WordFinished(tr)),
         rd_unpack_idx' = IF WordFinished(tr) THEN 0
                          ELSE IF BeatTaken(tr) THEN rd_unpack_idx + 1 ELSE rd_unpack_idx
  PROVE  rd_axis_beat_count' + UnpackedBeats' = rd_axis_beat_count + UnpackedBeats
<1>1. /\ rd_unpack_idx \in 0 .. RATIO - 1 /\ rd_unpack_valid \in BOOLEAN
      /\ rd_axis_beat_count \in Nat /\ RATIO \in Nat
  BY SchedulerAssumption DEF SchTypeOK
<1>2. CASE WordFinished(tr)
  <2>1. BeatTaken(tr) /\ rd_unpack_valid /\ rd_unpack_idx = RATIO - 1 /\ ~rd_unpack_valid'
    BY <1>2 DEF WordFinished, BeatTaken
  <2>2. UnpackedBeats = 1 /\ UnpackedBeats' = 0
    BY <1>1, <2>1 DEF UnpackedBeats
  <2>. QED BY <1>1, <2>1, <2>2
<1>3. CASE ~WordFinished(tr) /\ BeatTaken(tr)
  <2>1. rd_unpack_valid /\ rd_unpack_valid' /\ rd_unpack_idx' = rd_unpack_idx + 1
    BY <1>3 DEF BeatTaken
  <2>2. UnpackedBeats = RATIO - rd_unpack_idx /\ UnpackedBeats' = RATIO - (rd_unpack_idx + 1)
    BY <2>1 DEF UnpackedBeats
  <2>. QED BY <1>1, <1>3, <2>2
<1>4. CASE ~BeatTaken(tr)
  <2>1. ~WordFinished(tr)  BY <1>4 DEF WordFinished
  <2>2. UnpackedBeats' = UnpackedBeats  BY <1>4, <2>1 DEF UnpackedBeats
  <2>. QED BY <1>4, <2>2
<1>. QED BY <1>2, <1>3, <1>4

\* The beats of a live read stay accounted for, whatever the DMA source and
\* the transmit FSM do, up to its completion pulse.
LEMMA AccountStep ==
  ASSUME TypeOK, StreamInv, NEW rx, RxTypeOK(rx), ~RxCmdStart(rx),
         NEW tready \in BOOLEAN, NEW word \in BOOLEAN, NEW wr_go \in BOOLEAN, NEW wr_last,
         NEW wr_status, StatusTypeOK(wr_status),
         Clock(rx, tready, wr_go, wr_last, wr_status, word)
  PROVE  LiveReadAccounted'
<1> DEFINE tr == DataInTready(tready)
<1>1. RdStep(SchDmaRdReq(PktStart), RxCmdStart(rx), word, tr) /\ DmaRdStep(word, tr)
  BY DEF Clock, SchStep
<1>2. /\ LiveRead' <=> PktStart \/ (LiveRead /\ ~rd_done_pulse)
      /\ IssueLive(PktStart) <=> PktStart
  BY OtherCycle
<1>3. SchTypeOK /\ ReadsBeginClean /\ LiveReadAccounted  BY DEF TypeOK, StreamInv
<1>4. tr \in BOOLEAN  BY WireTypes
<1> HIDE DEF tr
<1>5. CASE PktStart
  <2>1. ~RdBusy /\ SchDmaRdReq(PktStart) /\ ~retx_pending /\ TxPktReady
    BY <1>2, <1>5 DEF PktStart, TxPktStart, SchReady, SchDmaRdReq
  <2>2. SchTargetBlk = tx_rd_idx /\ blk_size[tx_rd_idx] = PktBeats
    BY <1>3, <2>1 DEF SchTargetBlk, TxPktReady, ReadsBeginClean, SchTypeOK
  <2>3. /\ rd_state' = "RD_DESC" /\ rd_unpack_valid' = FALSE /\ rd_done_pulse' = FALSE
        /\ rd_axis_total_beats' = PktBeats /\ rd_axis_beat_count' = 0
    BY <1>1, <2>1, <2>2
       DEF RdBusy, RdStep, RdState, RdUnpack, WordTaken, WordFinished, BeatTaken, ReadDone
  <2>. QED BY <2>3 DEF LiveReadAccounted
<1>6. CASE ~PktStart /\ LiveRead /\ ~rd_done_pulse
  <2>0. ~SchDmaRdReq(PktStart) /\ ~rd_clear_pending
    BY <1>3, <1>6 DEF LiveRead, SchDmaRdReq, IssueRetx, IssueLive, SchReady, ReadsBeginClean
  <2>1. rd_axis_total_beats' = rd_axis_total_beats /\ rd_axis_total_beats \in {0, PktBeats}
    BY <1>1, <1>3, <2>0 DEF RdStep, SchTypeOK
  <2>2. /\ rd_axis_beat_count' = IF BeatTaken(tr) THEN rd_axis_beat_count + 1
                                 ELSE rd_axis_beat_count
        /\ rd_done_pulse' <=> ReadDone(tr)
        /\ RdState(SchDmaRdReq(PktStart), word, tr) /\ RdUnpack(word, tr)
    BY <1>1, <2>0 DEF RdStep
  <2>3. /\ rd_unpack_idx \in 0 .. RATIO - 1 /\ rd_unpack_valid \in BOOLEAN
        /\ rd_axis_beat_count \in Nat /\ dma_rd_left \in Nat
    BY <1>3 DEF SchTypeOK
  <2>4. WordDropped(word, tr) = FALSE  BY <2>0 DEF WordDropped
  <2>5. CASE rd_state = "RD_DESC"
    <3>1. /\ rd_axis_total_beats = PktBeats /\ rd_axis_beat_count = 0 /\ ~rd_unpack_valid
      BY <1>3, <1>6, <2>5 DEF LiveReadAccounted
    <3>2. dma_rd_left' = PKT_WORDS
      <4>1. blk_size[SchTargetBlk] = PktBeats
        BY <1>3, <1>6 DEF SchTargetBlk, ReadsBeginClean
      <4>. QED BY <1>1, <2>5, <4>1, BeatArithmetic DEF DmaRdStep, StreamWords
    <3>3. /\ rd_state' = "RD_DATA" /\ rd_unpack_valid' = FALSE /\ ~rd_done_pulse'
          /\ rd_axis_beat_count' = 0
      BY <2>2, <2>5, <3>1 DEF RdState, RdUnpack, WordTaken, WordFinished, BeatTaken, ReadDone
    <3>. QED BY <2>1, <3>1, <3>2, <3>3, BeatArithmetic DEF LiveReadAccounted, UnpackedBeats
  <2>6. CASE rd_state = "RD_DATA"
    <3>1. /\ rd_axis_total_beats = PktBeats /\ dma_rd_left > 0
          /\ rd_axis_beat_count + UnpackedBeats + dma_rd_left * RATIO = PktBeats
      BY <1>3, <1>6, <2>6 DEF LiveReadAccounted
    <3> DEFINE L == dma_rd_left * RATIO
    <3>2. /\ L \in Nat /\ (dma_rd_left - 1) * RATIO = L - RATIO /\ L >= RATIO
          /\ RATIO \in Nat /\ RATIO >= 1 /\ PktBeats \in Nat
      BY <2>3, <3>1, BeatArithmetic
    <3>3. rd_axis_beat_count + UnpackedBeats + L = PktBeats  BY <3>1
    <3>4. dma_rd_left' = IF WordTaken(word, tr) THEN dma_rd_left - 1 ELSE dma_rd_left
      BY <1>1, <2>6 DEF DmaRdStep
    <3>5. dma_rd_left = 1 => L = RATIO
      BY <3>2
    <3>6. L \in Nat /\ RATIO \in Nat /\ PktBeats \in Nat  BY <3>2
    <3> HIDE DEF L
    <3>7. ~ReadDone(tr)
      BY <2>3, <3>1, <3>2, <3>3 DEF ReadDone, WordFinished, BeatTaken, UnpackedBeats
    <3>8. CASE WordTaken(word, tr)
      <4>1. rd_unpack_valid' = TRUE /\ rd_unpack_idx' = 0
        BY <2>2, <2>4, <3>8 DEF RdUnpack
      <4>2. rd_axis_beat_count' + L = PktBeats
        BY <2>2, <2>3, <3>2, <3>3, <3>8
           DEF WordTaken, WordFinished, BeatTaken, UnpackedBeats
      <4>3. UnpackedBeats' = RATIO /\ rd_axis_beat_count' \in Nat
        BY <2>2, <2>3, <3>2, <4>1 DEF UnpackedBeats
      <4>4. CASE dma_rd_left = 1
        <5>1. rd_state' = "RD_IDLE"
          BY <2>2, <2>6, <3>8, <4>4 DEF RdState, LastWordTaken
        <5>. QED BY <2>1, <2>2, <3>1, <3>5, <3>7, <4>1, <4>2, <4>3, <4>4, <5>1
                 DEF LiveReadAccounted
      <4>5. CASE dma_rd_left /= 1
        <5>1. rd_state' = "RD_DATA" /\ dma_rd_left' = dma_rd_left - 1 /\ dma_rd_left' > 0
          BY <2>2, <2>3, <2>6, <3>1, <3>4, <3>8, <4>5 DEF RdState, LastWordTaken
        <5>2. dma_rd_left' * RATIO = L - RATIO  BY <3>2, <5>1
        <5>3. rd_axis_beat_count' + RATIO + (L - RATIO) = PktBeats
          <6>1. \A a, l, r \in Int : a + r + (l - r) = a + l  OBVIOUS
          <6>2. L \in Int /\ RATIO \in Int  BY <3>6
          <6>3. rd_axis_beat_count' \in Int  BY <4>3
          <6>4. rd_axis_beat_count' + RATIO + (L - RATIO) = rd_axis_beat_count' + L
            BY <6>1, <6>2, <6>3
          <6>. QED BY <4>2, <6>4
        <5>4. rd_axis_beat_count' + UnpackedBeats' + dma_rd_left' * RATIO = PktBeats
          BY <4>3, <5>2, <5>3
        <5>. QED BY <2>1, <2>2, <3>1, <3>7, <5>1, <5>4 DEF LiveReadAccounted
      <4>. QED BY <4>4, <4>5
    <3>9. CASE ~WordTaken(word, tr)
      <4>1. rd_state' = "RD_DATA" /\ dma_rd_left' = dma_rd_left
        BY <2>2, <2>6, <3>4, <3>9 DEF RdState, LastWordTaken
      <4>2. /\ rd_unpack_valid' = (rd_unpack_valid /\ ~WordFinished(tr))
            /\ rd_unpack_idx' = IF WordFinished(tr) THEN 0
                                ELSE IF BeatTaken(tr) THEN rd_unpack_idx + 1
                                ELSE rd_unpack_idx
        BY <2>2, <3>9 DEF RdUnpack
      <4>3. rd_axis_beat_count' + UnpackedBeats' = rd_axis_beat_count + UnpackedBeats
        BY <1>3, <2>2, <4>2, BeatMoves
      <4>4. dma_rd_left' * RATIO = L  BY <4>1 DEF L
      <4>5. rd_axis_beat_count' + UnpackedBeats' + dma_rd_left' * RATIO = PktBeats
        BY <3>3, <4>3, <4>4
      <4>. QED BY <2>1, <2>2, <3>1, <3>7, <4>1, <4>5 DEF LiveReadAccounted
    <3>. QED BY <3>8, <3>9
  <2>7. CASE rd_state = "RD_IDLE"
    <3>1. /\ rd_axis_total_beats = PktBeats /\ rd_unpack_valid
          /\ rd_axis_beat_count + UnpackedBeats = PktBeats
      BY <1>3, <1>6, <2>7 DEF LiveReadAccounted
    <3>2. /\ rd_state' = "RD_IDLE"
          /\ rd_unpack_valid' = (rd_unpack_valid /\ ~WordFinished(tr))
          /\ rd_unpack_idx' = IF WordFinished(tr) THEN 0
                              ELSE IF BeatTaken(tr) THEN rd_unpack_idx + 1
                              ELSE rd_unpack_idx
      BY <2>0, <2>2, <2>7 DEF RdState, RdUnpack, WordTaken
    <3>3. RATIO \in Nat /\ RATIO >= 1 /\ PktBeats \in Nat  BY BeatArithmetic
    <3>4. CASE WordFinished(tr)
      <4>1. ReadDone(tr)
        BY <2>3, <3>1, <3>3, <3>4 DEF ReadDone, WordFinished, UnpackedBeats
      <4>. QED BY <2>2, <3>2, <3>4, <4>1 DEF LiveReadAccounted
    <3>5. CASE ~WordFinished(tr)
      <4>1. ~ReadDone(tr) /\ rd_unpack_valid'
        BY <3>1, <3>2, <3>5 DEF ReadDone
      <4>2. rd_axis_beat_count' + UnpackedBeats' = PktBeats
        BY <1>3, <2>2, <3>1, <3>2, BeatMoves
      <4>. QED BY <2>1, <2>2, <3>1, <3>2, <4>1, <4>2 DEF LiveReadAccounted
    <3>. QED BY <3>4, <3>5
  <2>. QED BY <1>3, <2>5, <2>6, <2>7 DEF SchTypeOK
<1>7. CASE ~LiveRead'  BY <1>7 DEF LiveReadAccounted
<1>. QED BY <1>2, <1>5, <1>6, <1>7

\* A step of the core keeps the invariant and is a step of the stream.
LEMMA StreamStep ==
  ASSUME QUIET_START, TypeOK, StreamInv, [Next]_vars
  PROVE  StreamInv' /\ [Stream!Next]_(Stream!streamVars)
<1>1. CASE UNCHANGED vars
  <2>1. StreamInv'
    BY <1>1 DEF vars, regVars, txVars, schVars, ringVars, wrVars, rdVars, dmaVars, histVars,
                StreamInv, CountsAgree, CreditSafe, LiveReadAccounted, ReadsBeginClean,
                LiveRead, UnpackedBeats, RdBusy
  <2>2. UNCHANGED Stream!streamVars
    BY <1>1 DEF vars, regVars, histVars, Stream!streamVars
  <2>. QED BY <2>1, <2>2
<1>2. CASE Next
  <2>1. PICK rx : \E tready \in BOOLEAN, word \in BOOLEAN, wr_go \in BOOLEAN,
            wr_last \in BOOLEAN, wr_status \in {"NONE", "OK", "ERROR"} :
           /\ RxTypeOK(rx) /\ StatusTypeOK(wr_status)
           /\ RxCmdStart(rx) => StartAllowed(wr_go)
           /\ Clock(rx, tready, wr_go, wr_last, wr_status, word)
    BY <1>2, StepIsCycle
  <2>2. PICK tready \in BOOLEAN, word \in BOOLEAN, wr_go \in BOOLEAN,
             wr_last \in BOOLEAN, wr_status \in {"NONE", "OK", "ERROR"} :
           /\ RxTypeOK(rx) /\ StatusTypeOK(wr_status)
           /\ RxCmdStart(rx) => StartAllowed(wr_go)
           /\ Clock(rx, tready, wr_go, wr_last, wr_status, word)
    BY <2>1
  <2>3. CASE RxCmdStart(rx)
    BY <2>2, <2>3, QuietStart DEF Stream!Next
  <2>4. CASE ~RxCmdStart(rx)
    <3>1. CountsAgree' /\ CreditSafe' /\ Stream!Continue  BY <2>2, <2>4, CountsStep
    <3>2. ReadsBeginClean'  BY <2>2, <2>4, CleanStep
    <3>3. LiveReadAccounted'  BY <2>2, <2>4, AccountStep
    <3>. QED BY <3>1, <3>2, <3>3 DEF StreamInv, Stream!Next
  <2>. QED BY <2>3, <2>4
<1>. QED BY <1>1, <1>2

\* The reset state of LudpFpga satisfies StreamInv and maps to the initial
\* state of the abstract stream.
LEMMA StreamInit == Init => StreamInv /\ Stream!Init
<1>1. SUFFICES ASSUME Init PROVE StreamInv /\ Stream!Init  OBVIOUS
<1>2. /\ blk_state = [b \in Blocks |-> "EMPTY"] /\ ~retx_pending /\ ~rd_clear_pending
      /\ sch_state = "SCH_IDLE" /\ rd_state = "RD_IDLE" /\ ~rd_unpack_valid /\ ~rd_done_pulse
  BY <1>1 DEF Init, SchInit
<1>3. ReadsBeginClean /\ LiveReadAccounted
  BY <1>2 DEF ReadsBeginClean, LiveReadAccounted, LiveRead, RdBusy
<1>4. CountsAgree /\ CreditSafe
  BY <1>1, <1>2, WrapType, FpgaAssumption DEF Init, RegsInit, CountsAgree, CreditSafe, LiveRead
<1>5. Stream!Init  BY <1>1 DEF Init, RegsInit, Stream!Init
<1>. QED BY <1>3, <1>4, <1>5 DEF StreamInv

\* The counts behind the registers and the accounting of live reads hold in
\* every reachable state, if START finds the core quiet.
THEOREM StreamInvariant == ASSUME QUIET_START PROVE Spec => []StreamInv
<1>1. Init => StreamInv  BY StreamInit
<1>2. TypeOK /\ StreamInv /\ [Next]_vars => StreamInv'  BY StreamStep
<1>. QED BY <1>1, <1>2, TypeCorrect, PTL DEF Spec

\* The packets started in a session never exceed the absolute credit granted
\* in it: f2h_tx_ok of ludp_protocol_tx.sv is right on narrow registers.
THEOREM CreditSafety == ASSUME QUIET_START PROVE Spec => []CreditSafe
<1>1. StreamInv => CreditSafe  BY DEF StreamInv
<1>. QED BY <1>1, StreamInvariant, PTL

\* The registers, FSMs and scheduler implement the abstract credit stream.
THEOREM StreamRefinement == ASSUME QUIET_START PROVE Spec => ImplementsStream
<1>1. Init => Stream!Init  BY StreamInit
<1>2. TypeOK /\ StreamInv /\ [Next]_vars => [Stream!Next]_(Stream!streamVars)  BY StreamStep
<1>. QED BY <1>1, <1>2, TypeCorrect, StreamInvariant, PTL DEF Spec, ImplementsStream, Stream!Spec

-----------------------------------------------------------------------------
\* Every accepted request is answered exactly once, whenever START arrives:
\* a response is latched only when none is, and RespDone belongs to one that is.
THEOREM OneResponse == Spec => []OneResponsePerRequest
<1>1. Init => ResponseInv
  BY DEF Init, RegsInit, TxInit, ResponseInv, OneResponsePerRequest
<1>2. TypeOK /\ ResponseInv /\ [Next]_vars => ResponseInv'
  <2>1. CASE UNCHANGED vars
    BY <2>1 DEF vars, regVars, txVars, histVars, ResponseInv, OneResponsePerRequest
  <2>2. ASSUME TypeOK, ResponseInv, Next PROVE ResponseInv'
    <3>1. PICK rx : \E tready \in BOOLEAN, word \in BOOLEAN, wr_go \in BOOLEAN,
              wr_last \in BOOLEAN, wr_status \in {"NONE", "OK", "ERROR"} :
             Clock(rx, tready, wr_go, wr_last, wr_status, word)
      BY <2>2, StepIsCycle
    <3>2. PICK tready \in BOOLEAN, word \in BOOLEAN, wr_go \in BOOLEAN,
               wr_last \in BOOLEAN, wr_status \in {"NONE", "OK", "ERROR"} :
             Clock(rx, tready, wr_go, wr_last, wr_status, word)
      BY <3>1
    <3> DEFINE request == RxRespReq(rx) \/ RxStatusReq(rx)
    <3>3. /\ request => ~resp_ongoing
          /\ RespFrameEnds(tready) <=> RespDone(tready)
          /\ RespDone(tready) => resp_ongoing /\ tx_state = "TX_RESP"
      BY <2>2 DEF RxRespReq, RxStatusReq, RespDone, RespFrameEnds, ResponseInv
    <3>4. /\ request => resp_ongoing' = TRUE
          /\ ~request => resp_ongoing' = (resp_ongoing /\ ~RespDone(tready))
          /\ owed' = (owed + (IF request THEN 1 ELSE 0))
                           - (IF RespDone(tready) THEN 1 ELSE 0)
      BY <3>2, <3>3 DEF Clock, RegsStep, HistStep
    <3>5. OneResponsePerRequest'
      <4>1. owed = IF resp_ongoing THEN 1 ELSE 0
        BY <2>2 DEF ResponseInv, OneResponsePerRequest
      <4>2. owed' = IF resp_ongoing' THEN 1 ELSE 0
        <5>1. CASE request  BY <3>3, <3>4, <4>1, <5>1
        <5>2. CASE ~request
          <6>1. CASE RespDone(tready)
            <7>1. resp_ongoing' = FALSE  BY <3>4, <5>2, <6>1
            <7>2. owed = 1  BY <3>3, <4>1, <6>1
            <7>3. owed' = 0  BY <3>4, <5>2, <6>1, <7>2
            <7>. QED BY <7>1, <7>3
          <6>2. CASE ~RespDone(tready)
            <7>1. resp_ongoing \in BOOLEAN  BY <2>2 DEF TypeOK, RegsTypeOK
            <7>2. resp_ongoing' = resp_ongoing  BY <3>4, <5>2, <6>2, <7>1
            <7>3. owed' = owed  BY <3>4, <4>1, <5>2, <6>2
            <7>. QED BY <4>1, <7>2, <7>3
          <6>. QED BY <6>1, <6>2
        <5>. QED BY <5>1, <5>2
      <4>. QED BY <4>2 DEF OneResponsePerRequest
    <3>6. ASSUME tx_state' = "TX_RESP" PROVE resp_ongoing'
      <4>1. resp_ongoing /\ ~RespDone(tready)
        BY <2>2, <3>2, <3>6
           DEF Clock, TxStep, TxReset, TxIdle, TxResp, TxDataHdr, TxData, RespDone, ResponseInv
      <4>. QED BY <3>3, <3>4, <4>1
    <3>. QED BY <3>5, <3>6 DEF ResponseInv
  <2>. QED BY <2>1, <2>2
<1>3. ResponseInv => OneResponsePerRequest  BY DEF ResponseInv
<1>. QED BY <1>1, <1>2, <1>3, TypeCorrect, PTL DEF Spec
=============================================================================
