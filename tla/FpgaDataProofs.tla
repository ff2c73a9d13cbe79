--------------------------- MODULE FpgaDataProofs ---------------------------
(***************************************************************************)
(* What the LUDP core sends: while the host asks for no retransmission and *)
(* START finds the core quiet, transmit FSM and scheduler work in step, a  *)
(* DATA frame ends where its header says, the DMA never writes the block   *)
(* it reads, and a frame carries the packet its sequence number names; for *)
(* every register width, ring size, packet size and window.                *)
(***************************************************************************)
EXTENDS FpgaProofs

\* A clock cycle of a session without NACKs, with well-formed inputs.
LiveCycle(rx, tready, word, wr_go, wr_last, wr_status) ==
  /\ RxTypeOK(rx) /\ rx.type /= "NACK"
  /\ StatusTypeOK(wr_status) /\ (wr_status = "ERROR" => WR_ERRORS)
  /\ RxCmdStart(rx) => Quiet(wr_go)
  /\ Clock(rx, tready, wr_go, wr_last, wr_status, word)

\* No retransmission is pending or under way.
LiveOnly == ~retx_pending /\ ~sch_is_retx

\* Every step is such a cycle.
LEMMA StepIsLiveCycle ==
  ASSUME QUIET_START, ~NACKS, TypeOK, Next
  PROVE  \E rx : \E tready \in BOOLEAN, word \in BOOLEAN, wr_go \in BOOLEAN,
            wr_last \in BOOLEAN, wr_status \in {"NONE", "OK", "ERROR"} :
           LiveCycle(rx, tready, word, wr_go, wr_last, wr_status)
<1>1. PICK tready \in BOOLEAN, word \in BOOLEAN, wr_go \in BOOLEAN, wr_last \in BOOLEAN,
           wr_status \in WrStatuses :
        Cycle(tready, word, wr_go, wr_last, wr_status)
  BY DEF Next, TreadyChoices, WordChoices, WrGoChoices, WrLastChoices, When
<1>2. PICK rx \in RxEvents(wr_go) : Clock(rx, tready, wr_go, wr_last, wr_status, word)
  BY <1>1 DEF Cycle
<1>3. RxTypeOK(rx) /\ StatusTypeOK(wr_status)  BY InputTypes
<1>4. wr_status = "ERROR" => WR_ERRORS  BY DEF WrStatuses
<1>5. rx.type /= "NACK"
  BY DEF RxEvents, NoRx, StatusRequests, CreditPackets, CmdPackets
<1>6. RxCmdStart(rx) => Quiet(wr_go)
  <2>1. SUFFICES ASSUME rx.type = "CMD", rx.opcode = "START" PROVE Quiet(wr_go)
    BY DEF RxCmdStart, RxRespReq
  <2>2. rx \in {c \in CmdPackets : c.opcode = "START" => StartAllowed(wr_go)}
    BY <2>1 DEF RxEvents, NoRx, StatusRequests, CreditPackets, NackChoices, NackPackets
  <2>. QED BY <2>1, <2>2 DEF StartAllowed
<1>7. wr_status \in {"NONE", "OK", "ERROR"}  BY <1>3 DEF StatusTypeOK
<1>. QED BY <1>2, <1>3, <1>4, <1>5, <1>6, <1>7 DEF LiveCycle

\* What a quiet START finds and leaves.
LEMMA QuietCycle ==
  ASSUME TypeOK, StreamInv, NEW rx, NEW tready, NEW word, NEW wr_go \in BOOLEAN, NEW wr_last,
         NEW wr_status, LiveCycle(rx, tready, word, wr_go, wr_last, wr_status), RxCmdStart(rx)
  PROVE  /\ RingClear /\ TxReset /\ seq_num' = 0
         /\ wr_state' = "WR_IDLE" /\ ~wr_done_pulse' /\ fill_count' = 0
         /\ wr_queue' = <<>>
         /\ rd_state = "RD_IDLE" /\ rd_state' = "RD_IDLE"
         /\ ~rd_unpack_valid' /\ ~rd_done_pulse' /\ dma_rd_left' = dma_rd_left
<1>1. /\ SchReady /\ ~rd_done_pulse /\ ~retx_pending /\ ~PktStart /\ tx_state = "TX_IDLE"
      /\ sch_state = "SCH_IDLE" /\ rd_state = "RD_IDLE" /\ ~rd_unpack_valid
      /\ wr_state = "WR_IDLE" /\ ~wr_go /\ ~wr_done_pulse /\ wr_queue = <<>>
  BY DEF LiveCycle, Quiet, SchReady, RdBusy
<1>2. ~SchDmaRdReq(PktStart)
  BY <1>1 DEF SchDmaRdReq, IssueRetx, IssueLive
<1>3. /\ RingClear /\ RdStep(SchDmaRdReq(PktStart), RxCmdStart(rx), word, DataInTready(tready))
      /\ WrStep(wr_go, wr_last) /\ PktHistory(wr_go, RxCmdStart(rx))
      /\ DmaWrStep(wr_status, RxCmdStart(rx)) /\ DmaRdStep(word, DataInTready(tready))
  BY DEF LiveCycle, Clock, SchStep
<1>4. TxReset /\ seq_num' = 0
  BY DEF LiveCycle, Clock, TxStep, RegsStep
<1>5. rd_state' = "RD_IDLE" /\ ~rd_unpack_valid' /\ ~rd_done_pulse'
  BY <1>1, <1>2, <1>3
     DEF RdStep, RdState, RdUnpack, WordTaken, WordFinished, BeatTaken, ReadDone
<1>6. wr_state' = "WR_IDLE" /\ ~wr_done_pulse' /\ fill_count' = 0
  BY <1>1, <1>3 DEF WrStep, WrIdle, WrPack, WrFinish, SinkDescAccepted, PktHistory
<1>7. wr_queue' = <<>>
  <2>1. wr_status = "NONE"  BY <1>1 DEF LiveCycle, StatusTypeOK
  <2>2. wr_queue' = [i \in DOMAIN wr_queue |-> [wr_queue[i] EXCEPT !.pkt = NoPkt]]
    BY <1>1, <1>3, <2>1 DEF DmaWrStep
  <2>3. DOMAIN wr_queue = {}  BY <1>1
  <2>. QED BY <1>1, <2>2, <2>3
<1>8. dma_rd_left' = dma_rd_left
  BY <1>1, <1>3 DEF DmaRdStep, WordTaken
<1>. QED BY <1>1, <1>3, <1>4, <1>5, <1>6, <1>7, <1>8

\* What any other cycle does to the indices and the states of the ring.
LEMMA RingCycle ==
  ASSUME TypeOK, StreamInv, LiveOnly, NEW rx, NEW tready \in BOOLEAN, NEW word \in BOOLEAN,
         NEW wr_go \in BOOLEAN, NEW wr_last, NEW wr_status,
         LiveCycle(rx, tready, word, wr_go, wr_last, wr_status), ~RxCmdStart(rx)
  PROVE  /\ LiveOnly' /\ SchTargetBlk = tx_rd_idx
         /\ LiveRead' <=> PktStart \/ (LiveRead /\ ~rd_done_pulse)
         /\ LiveRead <=> sch_state = "SCH_READING"
         /\ TxPktDone <=> LiveRead /\ rd_done_pulse
         /\ SchDmaRdReq(PktStart) <=> PktStart
         /\ PktStart => ~LiveRead /\ SchReady /\ TxPktReady /\ tx_state = "TX_IDLE"
         /\ rd_blk_idx' = IF PktStart THEN tx_rd_idx ELSE rd_blk_idx
         /\ tx_rd_idx' = IF TxPktDone THEN BlkNext(tx_rd_idx) ELSE tx_rd_idx
         /\ dma_wr_idx' = IF wr_done_pulse THEN BlkNext(dma_wr_idx) ELSE dma_wr_idx
         /\ \A b \in Blocks : blk_state'[b] = BlkStateNext(b, wr_status)
<1>1. RingStep(RxRetxReq(rx), IF rx.type = "NACK" THEN rx.seq ELSE 0,
               PktStart, seq_num, wr_status)
  BY DEF LiveCycle, Clock, SchStep
<1>2. /\ LiveRead' <=> PktStart \/ (LiveRead /\ ~rd_done_pulse)
      /\ PktStart => ~LiveRead /\ ~TxPktDone
      /\ TxPktDone <=> LiveRead /\ rd_done_pulse
      /\ IssueLive(PktStart) <=> PktStart
  BY OtherCycle DEF LiveCycle
<1>3. ~IssueRetx /\ SchTargetBlk = tx_rd_idx  BY DEF LiveOnly, IssueRetx, SchTargetBlk
<1>4. SchDmaRdReq(PktStart) <=> PktStart  BY <1>2, <1>3 DEF SchDmaRdReq
<1>5. ~RxRetxReq(rx)  BY DEF LiveCycle, RxRetxReq
<1>6. LiveOnly'
  <2>1. ~retx_pending'  BY <1>1, <1>5 DEF RingStep, LiveOnly
  <2>2. ~sch_is_retx'
    BY <1>1, <1>3, Zenon DEF RingStep, LiveOnly
  <2>. QED BY <2>1, <2>2 DEF LiveOnly
<1>7. PktStart => SchReady /\ TxPktReady /\ tx_state = "TX_IDLE" /\ sch_state = "SCH_IDLE"
  BY DEF PktStart, TxPktStart, SchReady
<1>8. rd_blk_idx' = IF PktStart THEN tx_rd_idx ELSE rd_blk_idx
  BY <1>1, <1>3, <1>4, <1>7 DEF RingStep
<1>9. LiveRead <=> sch_state = "SCH_READING"  BY DEF LiveRead, LiveOnly
<1>10. /\ tx_rd_idx' = IF TxPktDone THEN BlkNext(tx_rd_idx) ELSE tx_rd_idx
       /\ dma_wr_idx' = IF wr_done_pulse THEN BlkNext(dma_wr_idx) ELSE dma_wr_idx
       /\ \A b \in Blocks : blk_state'[b] = BlkStateNext(b, wr_status)
  BY <1>1 DEF RingStep
<1>. QED BY <1>2, <1>3, <1>4, <1>6, <1>7, <1>8, <1>9, <1>10

-----------------------------------------------------------------------------
(***************************************************************************)
(* Frames.  The transmit FSM has a DATA frame open exactly while the       *)
(* scheduler reads a block for it; both count the same beats, and the last *)
(* word of a packet is the one after which the read FSM is idle.           *)
(***************************************************************************)
FrameInv ==
  /\ TxAndSchedulerInStep
  /\ tx_state \in {"TX_DATA_HDR", "TX_DATA"} =>
       /\ tx_header.size = PktBeats /\ tx_header.seq = seq_num
       /\ tx_payload_sent = rd_axis_beat_count
  /\ rd_unpack_valid => (rd_unpack_last_axi <=> rd_state = "RD_IDLE")

\* tlast comes with the beat that completes the packet, and with no other.
LEMMA TlastExact ==
  ASSUME SchTypeOK, LiveReadAccounted, LiveRead, rd_unpack_valid,
         rd_unpack_last_axi <=> rd_state = "RD_IDLE"
  PROVE  /\ RdAxisTlast <=> rd_axis_beat_count + 1 = PktBeats
         /\ \A tr : BeatTaken(tr) => (ReadDone(tr) <=> tr /\ RdAxisTlast)
<1>1. /\ rd_unpack_idx \in 0 .. RATIO - 1 /\ rd_axis_beat_count \in Nat /\ dma_rd_left \in Nat
      /\ RATIO \in Nat /\ RATIO >= 1 /\ PktBeats \in Nat
  BY BeatArithmetic DEF SchTypeOK
<1>2. UnpackedBeats = RATIO - rd_unpack_idx  BY DEF UnpackedBeats
<1>3. CASE rd_state = "RD_DATA"
  <2>1. /\ rd_axis_total_beats = PktBeats /\ dma_rd_left > 0
        /\ rd_axis_beat_count + UnpackedBeats + dma_rd_left * RATIO = PktBeats
    BY <1>3 DEF LiveReadAccounted
  <2> DEFINE L == dma_rd_left * RATIO
  <2>2. L \in Nat /\ L >= RATIO  BY <1>1, <2>1, BeatArithmetic
  <2>3. rd_axis_beat_count + UnpackedBeats + L = PktBeats  BY <2>1
  <2> HIDE DEF L
  <2>4. rd_axis_beat_count + 1 < PktBeats  BY <1>1, <1>2, <2>2, <2>3
  <2>5. ~RdAxisTlast  BY <1>3 DEF RdAxisTlast
  <2>. QED BY <1>1, <2>1, <2>4, <2>5 DEF ReadDone
<1>4. CASE rd_state = "RD_IDLE"
  <2>1. /\ rd_axis_total_beats = PktBeats
        /\ rd_axis_beat_count + UnpackedBeats = PktBeats
    BY <1>4 DEF LiveReadAccounted
  <2>2. rd_axis_beat_count + 1 = PktBeats <=> rd_unpack_idx = RATIO - 1
    BY <1>1, <1>2, <2>1
  <2>3. RdAxisTlast <=> rd_unpack_idx = RATIO - 1
    BY <1>1, <1>4, <2>1, <2>2 DEF RdAxisTlast
  <2>. QED BY <1>1, <2>1, <2>2, <2>3 DEF ReadDone, WordFinished, BeatTaken
<1>. QED BY <1>3, <1>4 DEF LiveReadAccounted

\* A cycle keeps transmit FSM and scheduler in step.
LEMMA FrameStep ==
  ASSUME TypeOK, StreamInv, LiveOnly, FrameInv, NEW rx, NEW tready \in BOOLEAN,
         NEW word \in BOOLEAN, NEW wr_go \in BOOLEAN, NEW wr_last, NEW wr_status,
         LiveCycle(rx, tready, word, wr_go, wr_last, wr_status), ~RxCmdStart(rx)
  PROVE  FrameInv'
<1> DEFINE tr == DataInTready(tready)
<1>1. /\ LiveOnly'
      /\ LiveRead' <=> PktStart \/ (LiveRead /\ ~rd_done_pulse)
      /\ LiveRead <=> sch_state = "SCH_READING"
      /\ TxPktDone <=> LiveRead /\ rd_done_pulse
      /\ SchDmaRdReq(PktStart) <=> PktStart
      /\ PktStart => ~LiveRead /\ SchReady /\ TxPktReady /\ tx_state = "TX_IDLE"
  BY RingCycle
<1>2. SchTypeOK /\ ReadsBeginClean /\ LiveReadAccounted /\ TxTypeOK  BY DEF TypeOK, StreamInv
<1>3. LiveRead' <=> (sch_state = "SCH_READING")'
  BY <1>1 DEF LiveRead, LiveOnly
<1>4. TxIdle(StartData, seq_num, RdPktSize) \/ TxResp(tready) \/ TxDataHdr(tready)
        \/ TxData(tready, rd_unpack_valid, RdAxisTlast)
  BY DEF LiveCycle, Clock, TxStep
<1>5. RdStep(SchDmaRdReq(PktStart), RxCmdStart(rx), word, tr)
  BY DEF LiveCycle, Clock, SchStep
<1>6. seq_num' = IF TxPktDone THEN SeqInc(seq_num) ELSE seq_num
  BY DEF LiveCycle, Clock, RegsStep
<1>7. tr => tx_state = "TX_DATA"  BY DEF DataInTready
<1>8. RdBusy => LiveRead
  BY <1>1, <1>2 DEF ReadsBeginClean, LiveOnly, SchTypeOK
<1>9. rd_unpack_valid' => (rd_unpack_last_axi' <=> rd_state' = "RD_IDLE")
  <2>1. CASE WordTaken(word, tr)
    BY <1>5, <2>1 DEF RdStep, RdUnpack, RdState, WordTaken, LastWordTaken
  <2>2. CASE ~WordTaken(word, tr)
    <3>1. SUFFICES ASSUME rd_unpack_valid' PROVE rd_unpack_last_axi' <=> rd_state' = "RD_IDLE"
      OBVIOUS
    <3>2. rd_unpack_valid /\ rd_unpack_last_axi' = rd_unpack_last_axi
      BY <1>5, <2>2, <3>1 DEF RdStep, RdUnpack
    <3>3. rd_state \in {"RD_IDLE", "RD_DATA"}
      BY <1>2, <1>8, <3>2 DEF RdBusy, LiveReadAccounted
    <3>4. rd_state' = rd_state
      BY <1>5, <2>2, <3>2, <3>3 DEF RdStep, RdState, LastWordTaken
    <3>. QED BY <3>2, <3>4 DEF FrameInv
  <2>. QED BY <2>1, <2>2
<1>10. CASE tx_state \in {"TX_IDLE", "TX_RESP"}
  <2>1. ~(LiveRead /\ ~rd_done_pulse)  BY <1>1, <1>10 DEF FrameInv, TxAndSchedulerInStep
  <2>2. CASE PktStart
    <3>1. ~RdBusy  BY <1>1, <2>2 DEF SchReady
    <3>2. ~rd_done_pulse' /\ rd_axis_beat_count' = 0
      BY <1>1, <1>5, <2>2, <3>1 DEF RdStep, RdBusy, ReadDone, WordFinished, BeatTaken
    <3>3. /\ tx_state' = "TX_DATA_HDR" /\ tx_header' = DataHeader(seq_num, RdPktSize)
          /\ tx_payload_sent' = 0
      BY <1>4, <1>10, <2>2
         DEF TxIdle, TxResp, TxDataHdr, TxData, PktStart, TxPktStart, StartData
    <3>4. RdPktSize = PktBeats
      BY <1>1, <1>2, <2>2 DEF RdPktSize, TxPktReady, ReadsBeginClean, SchTypeOK
    <3>5. seq_num' = seq_num  BY <1>1, <1>6, <2>2
    <3>. QED BY <1>1, <1>3, <1>9, <2>2, <3>2, <3>3, <3>4, <3>5
             DEF FrameInv, TxAndSchedulerInStep, DataHeader
  <2>3. CASE ~PktStart
    <3>1. tx_state' \in {"TX_IDLE", "TX_RESP"}
      BY <1>4, <1>10, <2>3
         DEF TxIdle, TxResp, TxDataHdr, TxData, PktStart, TxPktStart, StartData, LiveOnly
    <3>. QED BY <1>1, <1>3, <1>9, <2>1, <2>3, <3>1 DEF FrameInv, TxAndSchedulerInStep
  <2>. QED BY <2>2, <2>3
<1>11. ASSUME tx_state \in {"TX_DATA_HDR", "TX_DATA"} PROVE FrameInv'
  <2>1. /\ LiveRead /\ ~rd_done_pulse /\ LiveRead' /\ ~PktStart /\ seq_num' = seq_num
        /\ tx_header.size = PktBeats /\ tx_header.seq = seq_num
        /\ tx_payload_sent = rd_axis_beat_count
    BY <1>1, <1>6, <1>11 DEF FrameInv, TxAndSchedulerInStep
  <2>2. /\ rd_done_pulse' <=> ReadDone(tr)
        /\ rd_axis_beat_count' = IF BeatTaken(tr) THEN rd_axis_beat_count + 1
                                 ELSE rd_axis_beat_count
    BY <1>1, <1>2, <1>5, <2>1 DEF RdStep, ReadsBeginClean
  <2>3. CASE ~BeatTaken(tr)
    <3>1. ~rd_done_pulse'  BY <2>2, <2>3 DEF ReadDone, WordFinished
    <3>2. /\ tx_state' \in {"TX_DATA_HDR", "TX_DATA"}
          /\ tx_header' = tx_header /\ tx_payload_sent' = tx_payload_sent
      BY <1>4, <1>11, <2>3 DEF TxIdle, TxResp, TxDataHdr, TxData, BeatTaken
    <3>. QED BY <1>3, <1>9, <2>1, <2>2, <2>3, <3>1, <3>2 DEF FrameInv, TxAndSchedulerInStep
  <2>4. CASE BeatTaken(tr)
    <3>1. rd_unpack_valid /\ tr /\ tx_state = "TX_DATA"  BY <1>7, <2>4 DEF BeatTaken
    <3>2. ReadDone(tr) <=> RdAxisTlast
      BY <1>2, <2>1, <2>4, <3>1, TlastExact DEF FrameInv
    <3>3. CASE RdAxisTlast
      <4>1. tx_state' = "TX_IDLE"
        BY <1>4, <3>1, <3>3 DEF TxIdle, TxResp, TxDataHdr, TxData
      <4>. QED BY <1>9, <2>2, <3>2, <3>3, <4>1 DEF FrameInv, TxAndSchedulerInStep
    <3>4. CASE ~RdAxisTlast
      <4>1. /\ tx_state' = "TX_DATA" /\ tx_header' = tx_header
            /\ tx_payload_sent' = tx_payload_sent + 1
        BY <1>4, <3>1, <3>4 DEF TxIdle, TxResp, TxDataHdr, TxData
      <4>. QED BY <1>3, <1>9, <2>1, <2>2, <2>4, <3>2, <3>4, <4>1
               DEF FrameInv, TxAndSchedulerInStep
    <3>. QED BY <3>3, <3>4
  <2>. QED BY <2>3, <2>4
<1>. QED BY <1>2, <1>10, <1>11 DEF TxTypeOK, TxStates

-----------------------------------------------------------------------------
(***************************************************************************)
(* Blocks.  The block the writer fills is EMPTY until the sink has all of  *)
(* it, the blocks of the writes in flight are FILL and different, and the  *)
(* block of the live read is READY from its descriptor to its last beat.   *)
(***************************************************************************)
\* The write FSM, or its completion pulse, holds a packet not yet queued.
Storing == wr_state /= "WR_IDLE" \/ wr_done_pulse

BlockInv ==
  /\ \A i \in DOMAIN wr_queue : blk_state[wr_queue[i].tag] = "FILL"
  /\ \A i, j \in DOMAIN wr_queue : i /= j => wr_queue[i].tag /= wr_queue[j].tag
  /\ Storing => sink_tag = dma_wr_idx /\ blk_state[dma_wr_idx] = "EMPTY"
  /\ wr_state /= "WR_IDLE" => ~wr_done_pulse
  /\ LiveRead => blk_state[rd_blk_idx] = "READY"
  /\ dma_rd_left > 0 => rd_state = "RD_DATA"
  /\ rd_state = "RD_DATA" => dma_rd_blk = rd_blk_idx

\* The writes in flight after a cycle were in flight before it, behind the
\* one that ended, or are the packet the writer has just finished.
LEMMA QueueCycle ==
  ASSUME SchTypeOK, NEW wr_status, StatusTypeOK(wr_status), DmaWrStep(wr_status, FALSE)
  PROVE  \E s \in {0, 1} :
           /\ s = IF wr_status = "NONE" THEN 0 ELSE 1
           /\ Len(wr_queue) \in Nat /\ s <= Len(wr_queue)
           /\ DOMAIN wr_queue = 1 .. Len(wr_queue)
           /\ DOMAIN wr_queue' = 1 .. (IF wr_done_pulse THEN Len(wr_queue) + 1 - s
                                                        ELSE Len(wr_queue) - s)
           /\ \A i \in 1 .. Len(wr_queue) - s : wr_queue'[i] = wr_queue[i + s]
           /\ wr_done_pulse => wr_queue'[Len(wr_queue) + 1 - s]
                                 = [tag |-> sink_tag, pkt |-> sink_pkt]
           /\ s = 1 => Head(wr_queue) = wr_queue[1] /\ 1 \in DOMAIN wr_queue
<1> DEFINE Writes == [tag : Blocks, pkt : PktIds]
           item == [tag |-> sink_tag, pkt |-> sink_pkt]
           queued == IF wr_done_pulse THEN Append(wr_queue, item) ELSE wr_queue
           n == Len(wr_queue)
<1>1. wr_queue \in Seq(Writes) /\ item \in Writes  BY DEF SchTypeOK
<1>2. wr_queue' = IF wr_status = "NONE" THEN queued ELSE Tail(queued)
  BY DEF DmaWrStep
<1> HIDE DEF Writes, item
<1>3. /\ n \in Nat /\ DOMAIN wr_queue = 1 .. n
      /\ wr_status /= "NONE" => n >= 1 /\ wr_queue /= <<>> /\ Head(wr_queue) = wr_queue[1]
  BY <1>1 DEF StatusTypeOK
<1> DEFINE m == IF wr_done_pulse THEN n + 1 ELSE n
<1>4. /\ queued \in Seq(Writes) /\ Len(queued) = m
      /\ \A i \in 1 .. n : queued[i] = wr_queue[i]
      /\ wr_done_pulse => queued[n + 1] = item
  BY <1>1, <1>3
<1> HIDE DEF queued, n
<1>5. CASE wr_status = "NONE"
  <2>1. wr_queue' = queued /\ DOMAIN queued = 1 .. m  BY <1>2, <1>4, <1>5
  <2>2. \A i \in 1 .. n - 0 : wr_queue'[i] = wr_queue[i + 0]  BY <1>3, <1>4, <2>1
  <2>3. DOMAIN wr_queue' = 1 .. (IF wr_done_pulse THEN n + 1 - 0 ELSE n - 0)
    BY <1>3, <2>1
  <2>4. wr_done_pulse => wr_queue'[n + 1 - 0] = item  BY <1>3, <1>4, <2>1
  <2> WITNESS 0 \in {0, 1}
  <2>. QED BY <1>3, <1>5, <2>2, <2>3, <2>4 DEF n, item
<1>6. CASE wr_status /= "NONE"
  <2>1. wr_queue' = Tail(queued) /\ queued /= <<>> /\ m \in Nat /\ m >= 1
    BY <1>2, <1>3, <1>4, <1>6
  <2>2. /\ DOMAIN Tail(queued) = 1 .. m - 1
        /\ \A i \in 1 .. m - 1 : Tail(queued)[i] = queued[i + 1]
    BY <1>4, <2>1
  <2>3. \A i \in 1 .. n - 1 : wr_queue'[i] = wr_queue[i + 1]
    BY <1>3, <1>4, <2>1, <2>2
  <2>4. DOMAIN wr_queue' = 1 .. (IF wr_done_pulse THEN n + 1 - 1 ELSE n - 1)
    BY <1>3, <2>1, <2>2
  <2>5. wr_done_pulse => wr_queue'[n + 1 - 1] = item
    BY <1>3, <1>4, <1>6, <2>1, <2>2
  <2>6. 1 \in DOMAIN wr_queue  BY <1>3, <1>6
  <2> WITNESS 1 \in {0, 1}
  <2>. QED BY <1>3, <1>6, <2>3, <2>4, <2>5, <2>6 DEF n, item
<1>. QED BY <1>5, <1>6

\* What the write FSM holds after a cycle.
LEMMA WriterCycle ==
  ASSUME NEW wr_go \in BOOLEAN, NEW wr_last, NEW clear, BlockInv, SchTypeOK,
         WrStep(wr_go, wr_last), PktHistory(wr_go, clear)
  PROVE  /\ wr_state' /= "WR_IDLE" => ~wr_done_pulse'
         /\ wr_done_pulse => ~Storing'
         /\ Storing' => \/ Storing /\ ~wr_done_pulse /\ sink_tag' = sink_tag
                        \/ ~Storing /\ SinkDescAccepted(wr_go) /\ sink_tag' = dma_wr_idx
         /\ Storing /\ ~wr_done_pulse => Storing' /\ ~SinkDescAccepted(wr_go)
         /\ SinkDescAccepted(wr_go) => ~Storing /\ Storing'
<1>1. wr_state /= "WR_IDLE" => ~wr_done_pulse  BY DEF BlockInv
<1>2. CASE WrIdle(wr_go)
  BY <1>1, <1>2 DEF WrIdle, Storing, SinkDescAccepted
<1>3. CASE WrPack(wr_go, wr_last)
  BY <1>1, <1>3 DEF WrPack, Storing, SinkDescAccepted
<1>4. CASE WrFinish(wr_go)
  BY <1>1, <1>4 DEF WrFinish, Storing, SinkDescAccepted
<1>. QED BY <1>2, <1>3, <1>4 DEF WrStep

\* Who changes the state of a block: the sender only the READY block it has
\* read, a completion only the FILL block it names, the writer its EMPTY one.
LEMMA BlockStates ==
  ASSUME TypeOK, StreamInv, LiveOnly, BlockInv, NEW rx, NEW tready \in BOOLEAN,
         NEW word \in BOOLEAN, NEW wr_go \in BOOLEAN, NEW wr_last, NEW wr_status,
         LiveCycle(rx, tready, word, wr_go, wr_last, wr_status), ~RxCmdStart(rx),
         NEW b \in Blocks
  PROVE  /\ wr_status /= "NONE" => blk_state[Head(wr_queue).tag] = "FILL"
         /\ TxPktDone => blk_state[rd_blk_idx] = "READY" /\ rd_blk_idx = tx_rd_idx
         /\ blk_state[b] = "READY" =>
              blk_state'[b] = IF TxPktDone /\ b = rd_blk_idx THEN "SENT" ELSE "READY"
         /\ blk_state[b] = "FILL" =>
              blk_state'[b] = IF wr_status /= "NONE" /\ b = Head(wr_queue).tag
                              THEN (IF wr_status = "OK" THEN "READY" ELSE "EMPTY") ELSE "FILL"
         /\ blk_state[b] = "EMPTY" =>
              blk_state'[b] = IF wr_done_pulse /\ b = dma_wr_idx THEN "FILL" ELSE "EMPTY"
         /\ blk_state[b] = "SENT" => blk_state'[b] \in {"SENT", "EMPTY"}
<1>1. /\ TxPktDone <=> LiveRead /\ rd_done_pulse
      /\ blk_state'[b] = BlkStateNext(b, wr_status)
  BY RingCycle
<1>2. SchTypeOK /\ wr_status \in {"NONE", "OK", "ERROR"}  BY DEF TypeOK, LiveCycle, StatusTypeOK
<1>3. wr_status /= "NONE" => blk_state[Head(wr_queue).tag] = "FILL"
  <2>1. SUFFICES ASSUME wr_status /= "NONE" PROVE blk_state[Head(wr_queue).tag] = "FILL"
    OBVIOUS
  <2>2. wr_queue /= <<>>  BY <2>1 DEF LiveCycle, StatusTypeOK
  <2> DEFINE Writes == [tag : Blocks, pkt : PktIds]
  <2>3. wr_queue \in Seq(Writes)  BY <1>2 DEF SchTypeOK
  <2> HIDE DEF Writes
  <2>4. 1 \in DOMAIN wr_queue /\ Head(wr_queue) = wr_queue[1]  BY <2>2, <2>3
  <2>. QED BY <2>4 DEF BlockInv
<1>4. TxPktDone => blk_state[rd_blk_idx] = "READY" /\ rd_blk_idx = tx_rd_idx
  BY <1>1 DEF BlockInv, StreamInv, ReadsBeginClean
<1>5. wr_done_pulse => blk_state[dma_wr_idx] = "EMPTY"  BY DEF BlockInv, Storing
<1>6. Recycled(b) => blk_state[b] = "SENT"  BY DEF Recycled
<1>7. blk_state[b] = "READY" =>
        blk_state'[b] = IF TxPktDone /\ b = rd_blk_idx THEN "SENT" ELSE "READY"
  BY <1>1, <1>2, <1>3, <1>5, <1>6 DEF BlkStateNext
<1>8. blk_state[b] = "FILL" =>
        blk_state'[b] = IF wr_status /= "NONE" /\ b = Head(wr_queue).tag
                        THEN (IF wr_status = "OK" THEN "READY" ELSE "EMPTY") ELSE "FILL"
  BY <1>1, <1>2, <1>4, <1>5, <1>6 DEF BlkStateNext
<1>9. blk_state[b] = "EMPTY" =>
        blk_state'[b] = IF wr_done_pulse /\ b = dma_wr_idx THEN "FILL" ELSE "EMPTY"
  BY <1>1, <1>2, <1>3, <1>4, <1>6 DEF BlkStateNext
<1>10. blk_state[b] = "SENT" => blk_state'[b] \in {"SENT", "EMPTY"}
  BY <1>1, <1>2, <1>3, <1>5 DEF BlkStateNext
<1>. QED BY <1>3, <1>4, <1>7, <1>8, <1>9, <1>10

\* A cycle keeps the writer, the writes in flight and the reader apart.
LEMMA BlockStep ==
  ASSUME TypeOK, StreamInv, LiveOnly, BlockInv, NEW rx, NEW tready \in BOOLEAN,
         NEW word \in BOOLEAN, NEW wr_go \in BOOLEAN, NEW wr_last, NEW wr_status,
         LiveCycle(rx, tready, word, wr_go, wr_last, wr_status), ~RxCmdStart(rx)
  PROVE  BlockInv'
<1> DEFINE tr == DataInTready(tready)
<1>1. /\ SchTargetBlk = tx_rd_idx
      /\ LiveRead' <=> PktStart \/ (LiveRead /\ ~rd_done_pulse)
      /\ LiveRead <=> sch_state = "SCH_READING"
      /\ TxPktDone <=> LiveRead /\ rd_done_pulse
      /\ SchDmaRdReq(PktStart) <=> PktStart
      /\ PktStart => ~LiveRead /\ SchReady /\ TxPktReady /\ tx_state = "TX_IDLE"
      /\ rd_blk_idx' = IF PktStart THEN tx_rd_idx ELSE rd_blk_idx
      /\ dma_wr_idx' = IF wr_done_pulse THEN BlkNext(dma_wr_idx) ELSE dma_wr_idx
  BY RingCycle
<1>2. SchTypeOK /\ ReadsBeginClean /\ LiveReadAccounted /\ StatusTypeOK(wr_status)
  BY DEF TypeOK, StreamInv, LiveCycle
<1>3. \A b \in Blocks :
        /\ blk_state[b] = "READY" =>
             blk_state'[b] = IF TxPktDone /\ b = rd_blk_idx THEN "SENT" ELSE "READY"
        /\ blk_state[b] = "FILL" =>
             (wr_status /= "NONE" /\ b = Head(wr_queue).tag) \/ blk_state'[b] = "FILL"
        /\ blk_state[b] = "EMPTY" =>
             blk_state'[b] = IF wr_done_pulse /\ b = dma_wr_idx THEN "FILL" ELSE "EMPTY"
  BY BlockStates
<1>4. DmaWrStep(wr_status, FALSE)
  <2>1. RxCmdStart(rx) = FALSE  BY WireTypes
  <2>. QED BY <2>1 DEF LiveCycle, Clock, SchStep
<1>5. PICK s \in {0, 1} :
        /\ s = IF wr_status = "NONE" THEN 0 ELSE 1
        /\ Len(wr_queue) \in Nat /\ s <= Len(wr_queue)
        /\ DOMAIN wr_queue = 1 .. Len(wr_queue)
        /\ DOMAIN wr_queue' = 1 .. (IF wr_done_pulse THEN Len(wr_queue) + 1 - s
                                                     ELSE Len(wr_queue) - s)
        /\ \A i \in 1 .. Len(wr_queue) - s : wr_queue'[i] = wr_queue[i + s]
        /\ wr_done_pulse => wr_queue'[Len(wr_queue) + 1 - s]
                              = [tag |-> sink_tag, pkt |-> sink_pkt]
        /\ s = 1 => Head(wr_queue) = wr_queue[1] /\ 1 \in DOMAIN wr_queue
  BY <1>2, <1>4, QueueCycle
<1> DEFINE n == Len(wr_queue)
<1>6. \A i \in 1 .. n : wr_queue[i].tag \in Blocks
  <2> DEFINE Writes == [tag : Blocks, pkt : PktIds]
  <2>1. wr_queue \in Seq(Writes)  BY <1>2 DEF SchTypeOK
  <2>2. \A r \in Writes : r.tag \in Blocks  OBVIOUS
  <2> HIDE DEF Writes
  <2>3. \A i \in 1 .. n : wr_queue[i] \in Writes  BY <2>1
  <2>. QED BY <2>2, <2>3
<1>7. ASSUME NEW i \in DOMAIN wr_queue'
      PROVE  \/ i \in 1 .. n - s /\ i + s \in DOMAIN wr_queue /\ wr_queue'[i] = wr_queue[i + s]
             \/ /\ wr_done_pulse /\ i = n + 1 - s /\ wr_queue'[i].tag = dma_wr_idx
                /\ blk_state[dma_wr_idx] = "EMPTY"
  <2>1. CASE i \in 1 .. n - s  BY <1>5, <2>1
  <2>2. CASE i \notin 1 .. n - s
    <3>1. wr_done_pulse /\ i = n + 1 - s  BY <1>5, <1>7, <2>2
    <3>. QED BY <1>5, <3>1 DEF BlockInv, Storing
  <2>. QED BY <2>1, <2>2
<1>8. ASSUME NEW i \in DOMAIN wr_queue' PROVE blk_state'[wr_queue'[i].tag] = "FILL"
  <2>1. CASE i \in 1 .. n - s /\ i + s \in DOMAIN wr_queue /\ wr_queue'[i] = wr_queue[i + s]
    <3>1. wr_queue[i + s].tag \in Blocks /\ blk_state[wr_queue[i + s].tag] = "FILL"
      BY <1>5, <1>6, <2>1 DEF BlockInv
    <3>2. ~(wr_status /= "NONE" /\ wr_queue[i + s].tag = Head(wr_queue).tag)
      BY <1>5, <2>1 DEF BlockInv
    <3>. QED BY <1>3, <2>1, <3>1, <3>2
  <2>2. CASE wr_done_pulse /\ wr_queue'[i].tag = dma_wr_idx /\ blk_state[dma_wr_idx] = "EMPTY"
    BY <1>2, <1>3, <2>2 DEF SchTypeOK
  <2>. QED BY <1>7, <1>8, <2>1, <2>2
<1>9. ASSUME NEW i \in DOMAIN wr_queue', NEW j \in DOMAIN wr_queue', i /= j
      PROVE  wr_queue'[i].tag /= wr_queue'[j].tag
  <2>1. \A k \in DOMAIN wr_queue : blk_state[wr_queue[k].tag] = "FILL"  BY DEF BlockInv
  <2>2. \A k, l \in DOMAIN wr_queue : k /= l => wr_queue[k].tag /= wr_queue[l].tag
    BY DEF BlockInv
  <2>3. CASE i \in 1 .. n - s /\ j \in 1 .. n - s
    <3>1. i + s /= j + s /\ i + s \in DOMAIN wr_queue /\ j + s \in DOMAIN wr_queue
      BY <1>5, <1>9, <2>3
    <3>. QED BY <1>5, <2>2, <2>3, <3>1
  <2>. QED BY <1>5, <1>7, <1>9, <2>1, <2>3
<1>10. /\ Storing' => sink_tag' = dma_wr_idx' /\ blk_state'[dma_wr_idx'] = "EMPTY"
       /\ wr_state' /= "WR_IDLE" => ~wr_done_pulse'
  <2>1. WrStep(wr_go, wr_last) /\ PktHistory(wr_go, RxCmdStart(rx))
    BY DEF LiveCycle, Clock, SchStep
  <2>2. /\ wr_state' /= "WR_IDLE" => ~wr_done_pulse'
        /\ Storing' => \/ Storing /\ ~wr_done_pulse /\ sink_tag' = sink_tag
                       \/ ~Storing /\ SinkDescAccepted(wr_go) /\ sink_tag' = dma_wr_idx
    BY <1>2, <2>1, WriterCycle
  <2>3. Storing' => ~wr_done_pulse /\ blk_state[dma_wr_idx] = "EMPTY" /\ sink_tag' = dma_wr_idx
    BY <2>2 DEF SinkDescAccepted, BlockInv, Storing
  <2>. QED BY <1>1, <1>2, <1>3, <2>2, <2>3 DEF SchTypeOK
<1>11. LiveRead' => blk_state'[rd_blk_idx'] = "READY"
  BY <1>1, <1>2, <1>3 DEF SchTypeOK, BlockInv, TxPktReady
<1>12. RdState(SchDmaRdReq(PktStart), word, tr) /\ DmaRdStep(word, tr)
  BY DEF LiveCycle, Clock, SchStep, RdStep
<1>13. dma_rd_left' > 0 => rd_state' = "RD_DATA"
  <2>1. dma_rd_left \in Nat  BY <1>2 DEF SchTypeOK
  <2>. QED BY <1>2, <1>12, <2>1
           DEF BlockInv, RdState, DmaRdStep, WordTaken, LastWordTaken, SchTypeOK
<1>14. rd_state' = "RD_DATA" => dma_rd_blk' = rd_blk_idx'
  <2>1. SUFFICES ASSUME rd_state' = "RD_DATA" PROVE dma_rd_blk' = rd_blk_idx'  OBVIOUS
  <2>2. rd_state \in {"RD_DESC", "RD_DATA"}
    BY <1>2, <1>12, <2>1 DEF RdState, SchTypeOK
  <2>3. ~PktStart /\ LiveRead
    BY <1>1, <1>2, <2>2 DEF SchReady, RdBusy, ReadsBeginClean, LiveOnly, SchTypeOK
  <2>. QED BY <1>1, <1>2, <1>12, <2>2, <2>3 DEF DmaRdStep, ReadsBeginClean, BlockInv
<1> HIDE DEF n
<1>. QED BY <1>8, <1>9, <1>10, <1>11, <1>13, <1>14 DEF BlockInv

\* The inductive invariant behind frames and blocks.
PacketInv == LiveOnly /\ FrameInv /\ BlockInv

\* A quiet START empties the ring and both FSMs.
LEMMA PacketStart ==
  ASSUME TypeOK, StreamInv, PacketInv, NEW rx, NEW tready, NEW word, NEW wr_go \in BOOLEAN,
         NEW wr_last, NEW wr_status,
         LiveCycle(rx, tready, word, wr_go, wr_last, wr_status), RxCmdStart(rx)
  PROVE  PacketInv'
<1>1. /\ RingClear /\ TxReset
      /\ wr_state' = "WR_IDLE" /\ ~wr_done_pulse' /\ wr_queue' = <<>>
      /\ rd_state = "RD_IDLE" /\ rd_state' = "RD_IDLE"
      /\ ~rd_unpack_valid' /\ ~rd_done_pulse' /\ dma_rd_left' = dma_rd_left
  BY QuietCycle
<1>2. LiveOnly'  BY <1>1 DEF RingClear, LiveOnly
<1>3. FrameInv'
  BY <1>1 DEF RingClear, TxReset, FrameInv, TxAndSchedulerInStep
<1>4. DOMAIN wr_queue' = {}  BY <1>1
<1>5. BlockInv'
  BY <1>1, <1>4 DEF RingClear, BlockInv, PacketInv, Storing, LiveRead
<1>. QED BY <1>2, <1>3, <1>5 DEF PacketInv

\* Frames and blocks are in order in every reachable state.
THEOREM PacketInvariant == ASSUME QUIET_START, ~NACKS PROVE Spec => []PacketInv
<1>1. Init => PacketInv
  <2>1. SUFFICES ASSUME Init PROVE PacketInv  OBVIOUS
  <2>2. /\ ~retx_pending /\ ~sch_is_retx /\ sch_state = "SCH_IDLE"
        /\ wr_state = "WR_IDLE" /\ ~wr_done_pulse /\ wr_queue = <<>>
        /\ rd_state = "RD_IDLE" /\ ~rd_unpack_valid /\ dma_rd_left = 0
    BY <2>1 DEF Init, SchInit
  <2>3. tx_state = "TX_IDLE"  BY <2>1 DEF Init, TxInit
  <2>4. DOMAIN wr_queue = {}  BY <2>2
  <2>. QED BY <2>2, <2>3, <2>4
           DEF PacketInv, LiveOnly, FrameInv, TxAndSchedulerInStep, BlockInv, Storing, LiveRead
<1>2. TypeOK /\ StreamInv /\ PacketInv /\ [Next]_vars => PacketInv'
  <2>1. CASE UNCHANGED vars
    BY <2>1 DEF vars, regVars, txVars, schVars, ringVars, wrVars, rdVars, dmaVars,
                PacketInv, LiveOnly, FrameInv, TxAndSchedulerInStep, BlockInv, Storing, LiveRead
  <2>2. ASSUME TypeOK, StreamInv, PacketInv, Next PROVE PacketInv'
    <3>1. PICK rx : \E tready \in BOOLEAN, word \in BOOLEAN, wr_go \in BOOLEAN,
              wr_last \in BOOLEAN, wr_status \in {"NONE", "OK", "ERROR"} :
             LiveCycle(rx, tready, word, wr_go, wr_last, wr_status)
      BY <2>2, StepIsLiveCycle
    <3>2. PICK tready \in BOOLEAN, word \in BOOLEAN, wr_go \in BOOLEAN,
               wr_last \in BOOLEAN, wr_status \in {"NONE", "OK", "ERROR"} :
             LiveCycle(rx, tready, word, wr_go, wr_last, wr_status)
      BY <3>1
    <3>3. CASE RxCmdStart(rx)  BY <2>2, <3>2, <3>3, PacketStart
    <3>4. CASE ~RxCmdStart(rx)
      <4>1. LiveOnly /\ FrameInv /\ BlockInv  BY <2>2 DEF PacketInv
      <4>2. LiveOnly'  BY <2>2, <3>2, <3>4, <4>1, RingCycle
      <4>3. FrameInv'  BY <2>2, <3>2, <3>4, <4>1, FrameStep
      <4>4. BlockInv'  BY <2>2, <3>2, <3>4, <4>1, BlockStep
      <4>. QED BY <4>2, <4>3, <4>4 DEF PacketInv
    <3>. QED BY <3>3, <3>4
  <2>. QED BY <2>1, <2>2
<1>. QED BY <1>1, <1>2, TypeCorrect, StreamInvariant, PTL DEF Spec

\* The transmit FSM has a DATA frame open exactly while the scheduler is
\* reading a packet for it.
THEOREM InStep == ASSUME QUIET_START, ~NACKS PROVE Spec => []TxAndSchedulerInStep
<1>1. PacketInv => TxAndSchedulerInStep  BY DEF PacketInv, FrameInv
<1>. QED BY <1>1, PacketInvariant, PTL

\* A DATA frame ends with exactly the beat its header announces.
THEOREM LengthExact == ASSUME QUIET_START, ~NACKS PROVE Spec => []LengthMatchesHeader
<1>1. TypeOK /\ StreamInv /\ PacketInv => LengthMatchesHeader
  <2>1. SUFFICES ASSUME TypeOK, StreamInv, PacketInv, tx_state = "TX_DATA", rd_unpack_valid
                 PROVE  RdAxisTlast <=> tx_payload_sent + 1 = tx_header.size
    BY DEF LengthMatchesHeader
  <2>2. /\ sch_state = "SCH_READING" /\ tx_payload_sent = rd_axis_beat_count
        /\ tx_header.size = PktBeats /\ (rd_unpack_last_axi <=> rd_state = "RD_IDLE")
    BY <2>1 DEF PacketInv, FrameInv, TxAndSchedulerInStep
  <2>3. LiveRead /\ SchTypeOK /\ LiveReadAccounted
    BY <2>1, <2>2 DEF PacketInv, LiveOnly, LiveRead, TypeOK, StreamInv
  <2>. QED BY <2>1, <2>2, <2>3, TlastExact
<1>. QED BY <1>1, TypeCorrect, StreamInvariant, PacketInvariant, PTL

\* The DMA never writes a block that is being read or offered for sending,
\* whether or not writes fail.
THEOREM WriteReadExclusion == ASSUME QUIET_START, ~NACKS PROVE Spec => []WriteExcludesRead
<1>1. TypeOK /\ StreamInv /\ PacketInv => WriteExcludesRead
  <2>1. SUFFICES ASSUME TypeOK, StreamInv, PacketInv, NEW i \in DOMAIN wr_queue
                 PROVE  /\ blk_state[wr_queue[i].tag] = "FILL"
                        /\ dma_rd_left > 0 => dma_rd_blk /= wr_queue[i].tag
    BY DEF WriteExcludesRead
  <2>2. dma_rd_left > 0 => LiveRead /\ dma_rd_blk = rd_blk_idx
    BY <2>1 DEF PacketInv, BlockInv, LiveOnly, LiveRead, StreamInv, ReadsBeginClean, RdBusy,
                TypeOK, SchTypeOK
  <2>. QED BY <2>1, <2>2 DEF PacketInv, BlockInv
<1>. QED BY <1>1, TypeCorrect, StreamInvariant, PacketInvariant, PTL

-----------------------------------------------------------------------------
(***************************************************************************)
(* Payload.  The occupied blocks are the stretch of the ring from the      *)
(* sender's index to the writer's; the packets in them are consecutive,    *)
(* the sender's is the one seq_num counts, and the next one the writer     *)
(* stores continues the stretch.                                           *)
(***************************************************************************)
Occupied(b) == blk_state[b] \in {"FILL", "READY"}

\* Block b lies in the stretch, when the two indices differ.
Between(b) ==
  IF tx_rd_idx < dma_wr_idx THEN tx_rd_idx <= b /\ b < dma_wr_idx
                            ELSE tx_rd_idx <= b \/ b < dma_wr_idx

RingShape ==
  /\ tx_rd_idx = dma_wr_idx =>
       (\A b \in Blocks : Occupied(b)) \/ (\A b \in Blocks : ~Occupied(b))
  /\ tx_rd_idx /= dma_wr_idx => \A b \in Blocks : Occupied(b) <=> Between(b)

\* Packet p is in block b, or on its way there.
Carries(b, p) ==
  \/ blk_state[b] = "READY" /\ mem[b] = p
  \/ \E i \in DOMAIN wr_queue : wr_queue[i].tag = b /\ wr_queue[i].pkt = p

\* The next packet that goes into the ring.
NextFill == IF Storing THEN sink_pkt ELSE fill_count

RingOrder ==
  /\ \A b \in Blocks : \A p, q \in PktIds :
       Carries(b, p) /\ Carries(BlkNext(b), q) /\ BlkNext(b) /= dma_wr_idx => q = SeqInc(p)
  /\ \A b \in Blocks : \A p \in PktIds :
       Carries(b, p) /\ BlkNext(b) = dma_wr_idx => NextFill = SeqInc(p)
  /\ \A p \in PktIds : Carries(tx_rd_idx, p) => p = seq_num
  /\ ~Occupied(tx_rd_idx) => NextFill = seq_num
  /\ Storing => fill_count = SeqInc(sink_pkt)

\* The word being unpacked is of the packet the sender is at.
WordInv == LiveRead /\ rd_unpack_valid => rd_unpack_pkt = seq_num

\* The inductive invariant behind the payload.
PayloadInv == RingShape /\ RingOrder /\ WordInv

\* The index after the last one is the first, and no two have the same successor.
LEMMA NextBlock ==
  /\ \A b \in Blocks : BlkNext(b) \in Blocks
  /\ \A b, c \in Blocks : BlkNext(b) = BlkNext(c) => b = c
BY SchedulerAssumption DEF BlkNext, Blocks

\* A block becomes occupied when its packet is complete and free when it is sent.
LEMMA OccupiedCycle ==
  ASSUME TypeOK, StreamInv, LiveOnly, BlockInv, NEW rx, NEW tready \in BOOLEAN,
         NEW word \in BOOLEAN, NEW wr_go \in BOOLEAN, NEW wr_last, NEW wr_status,
         LiveCycle(rx, tready, word, wr_go, wr_last, wr_status), ~RxCmdStart(rx), ~WR_ERRORS
  PROVE  /\ \A b \in Blocks : Occupied(b)' <=> \/ Occupied(b) /\ ~(TxPktDone /\ b = tx_rd_idx)
                                               \/ wr_done_pulse /\ b = dma_wr_idx
         /\ TxPktDone => Occupied(tx_rd_idx)
         /\ wr_done_pulse => ~Occupied(dma_wr_idx)
<1>1. SchTypeOK /\ wr_status \in {"NONE", "OK"}  BY DEF TypeOK, LiveCycle, StatusTypeOK
<1>2. wr_done_pulse => blk_state[dma_wr_idx] = "EMPTY"  BY DEF BlockInv, Storing
<1>3. TxPktDone => blk_state[rd_blk_idx] = "READY" /\ rd_blk_idx = tx_rd_idx
  <2>1. tx_rd_idx \in Blocks  BY <1>1 DEF SchTypeOK
  <2>. QED BY <2>1, BlockStates
<1>4. ASSUME NEW b \in Blocks
      PROVE  Occupied(b)' <=> \/ Occupied(b) /\ ~(TxPktDone /\ b = tx_rd_idx)
                              \/ wr_done_pulse /\ b = dma_wr_idx
  <2>1. /\ blk_state[b] = "READY" =>
             blk_state'[b] = IF TxPktDone /\ b = rd_blk_idx THEN "SENT" ELSE "READY"
        /\ blk_state[b] = "FILL" =>
             blk_state'[b] = IF wr_status /= "NONE" /\ b = Head(wr_queue).tag
                             THEN (IF wr_status = "OK" THEN "READY" ELSE "EMPTY") ELSE "FILL"
        /\ blk_state[b] = "EMPTY" =>
             blk_state'[b] = IF wr_done_pulse /\ b = dma_wr_idx THEN "FILL" ELSE "EMPTY"
        /\ blk_state[b] = "SENT" => blk_state'[b] \in {"SENT", "EMPTY"}
    BY BlockStates
  <2>2. blk_state[b] \in {"EMPTY", "FILL", "READY", "SENT"}  BY <1>1 DEF SchTypeOK
  <2>. QED BY <1>1, <1>2, <1>3, <2>1, <2>2 DEF Occupied
<1>. QED BY <1>2, <1>3, <1>4 DEF Occupied

\* The stretch moves with the two indices.
LEMMA ShapeStep ==
  ASSUME TypeOK, StreamInv, LiveOnly, BlockInv, RingShape, NEW rx, NEW tready \in BOOLEAN,
         NEW word \in BOOLEAN, NEW wr_go \in BOOLEAN, NEW wr_last, NEW wr_status,
         LiveCycle(rx, tready, word, wr_go, wr_last, wr_status), ~RxCmdStart(rx), ~WR_ERRORS
  PROVE  RingShape'
<1>1. /\ tx_rd_idx' = IF TxPktDone THEN BlkNext(tx_rd_idx) ELSE tx_rd_idx
      /\ dma_wr_idx' = IF wr_done_pulse THEN BlkNext(dma_wr_idx) ELSE dma_wr_idx
  BY RingCycle
<1>2. /\ \A b \in Blocks : Occupied(b)' <=> \/ Occupied(b) /\ ~(TxPktDone /\ b = tx_rd_idx)
                                            \/ wr_done_pulse /\ b = dma_wr_idx
      /\ TxPktDone => Occupied(tx_rd_idx)
      /\ wr_done_pulse => ~Occupied(dma_wr_idx)
  BY OccupiedCycle
<1>3. tx_rd_idx \in Blocks /\ dma_wr_idx \in Blocks  BY DEF TypeOK, SchTypeOK
<1>4. NUM_BLOCKS \in Nat /\ NUM_BLOCKS >= 1  BY SchedulerAssumption
<1> DEFINE t == tx_rd_idx
           w == dma_wr_idx
           O(b) == Occupied(b)
<1>5. CASE ~TxPktDone /\ ~wr_done_pulse
  BY <1>1, <1>2, <1>5 DEF RingShape, Between
<1>6. CASE TxPktDone /\ ~wr_done_pulse
  <2>1. t' = BlkNext(t) /\ w' = w /\ \A b \in Blocks : O(b)' <=> O(b) /\ b /= t
    BY <1>1, <1>2, <1>6
  <2>2. CASE t = w
    <3>1. \A b \in Blocks : O(b)' <=> b /= t  BY <1>2, <1>3, <1>6, <2>1, <2>2 DEF RingShape
    <3>. QED BY <1>3, <1>4, <2>1, <2>2, <3>1 DEF RingShape, Between, BlkNext, Blocks
  <2>3. CASE t /= w
    <3>1. \A b \in Blocks : O(b)' <=> Between(b) /\ b /= t  BY <2>1, <2>3 DEF RingShape
    <3>. QED BY <1>3, <1>4, <2>1, <2>3, <3>1 DEF RingShape, Between, BlkNext, Blocks
  <2>. QED BY <2>2, <2>3
<1>7. CASE ~TxPktDone /\ wr_done_pulse
  <2>1. t' = t /\ w' = BlkNext(w) /\ \A b \in Blocks : O(b)' <=> O(b) \/ b = w
    BY <1>1, <1>2, <1>7
  <2>2. CASE t = w
    <3>1. \A b \in Blocks : O(b)' <=> b = w  BY <1>2, <1>3, <1>7, <2>1, <2>2 DEF RingShape
    <3>. QED BY <1>3, <1>4, <2>1, <2>2, <3>1 DEF RingShape, Between, BlkNext, Blocks
  <2>3. CASE t /= w
    <3>1. \A b \in Blocks : O(b)' <=> Between(b) \/ b = w  BY <2>1, <2>3 DEF RingShape
    <3>. QED BY <1>3, <1>4, <2>1, <2>3, <3>1 DEF RingShape, Between, BlkNext, Blocks
  <2>. QED BY <2>2, <2>3
<1>8. CASE TxPktDone /\ wr_done_pulse
  <2>1. /\ t' = BlkNext(t) /\ w' = BlkNext(w) /\ t /= w
        /\ \A b \in Blocks : O(b)' <=> (O(b) /\ b /= t) \/ b = w
    BY <1>1, <1>2, <1>8
  <2>2. \A b \in Blocks : O(b)' <=> (Between(b) /\ b /= t) \/ b = w  BY <2>1 DEF RingShape
  <2>. QED BY <1>3, <1>4, <2>1, <2>2 DEF RingShape, Between, BlkNext, Blocks
<1>. QED BY <1>5, <1>6, <1>7, <1>8

\* A packet stays where it is until it is sent; the writer adds its own.
LEMMA CarriesCycle ==
  ASSUME TypeOK, StreamInv, LiveOnly, BlockInv, NEW rx, NEW tready \in BOOLEAN,
         NEW word \in BOOLEAN, NEW wr_go \in BOOLEAN, NEW wr_last, NEW wr_status,
         LiveCycle(rx, tready, word, wr_go, wr_last, wr_status), ~RxCmdStart(rx), ~WR_ERRORS,
         NEW b \in Blocks, NEW p, Carries(b, p)'
  PROVE  \/ Carries(b, p) /\ ~(TxPktDone /\ b = tx_rd_idx)
         \/ wr_done_pulse /\ b = dma_wr_idx /\ p = sink_pkt
<1>1. SchTypeOK /\ StatusTypeOK(wr_status) /\ wr_status \in {"NONE", "OK"}
  BY DEF TypeOK, LiveCycle, StatusTypeOK
<1>2. DmaWrStep(wr_status, FALSE)
  <2>1. RxCmdStart(rx) = FALSE  BY WireTypes
  <2>. QED BY <2>1 DEF LiveCycle, Clock, SchStep
<1>3. PICK s \in {0, 1} :
        /\ s = IF wr_status = "NONE" THEN 0 ELSE 1
        /\ Len(wr_queue) \in Nat /\ s <= Len(wr_queue)
        /\ DOMAIN wr_queue = 1 .. Len(wr_queue)
        /\ DOMAIN wr_queue' = 1 .. (IF wr_done_pulse THEN Len(wr_queue) + 1 - s
                                                     ELSE Len(wr_queue) - s)
        /\ \A i \in 1 .. Len(wr_queue) - s : wr_queue'[i] = wr_queue[i + s]
        /\ wr_done_pulse => wr_queue'[Len(wr_queue) + 1 - s]
                              = [tag |-> sink_tag, pkt |-> sink_pkt]
        /\ s = 1 => Head(wr_queue) = wr_queue[1] /\ 1 \in DOMAIN wr_queue
  BY <1>1, <1>2, QueueCycle
<1>4. /\ wr_status /= "NONE" => blk_state[Head(wr_queue).tag] = "FILL"
      /\ TxPktDone => blk_state[rd_blk_idx] = "READY" /\ rd_blk_idx = tx_rd_idx
      /\ blk_state[b] = "READY" =>
           blk_state'[b] = IF TxPktDone /\ b = rd_blk_idx THEN "SENT" ELSE "READY"
      /\ blk_state[b] = "FILL" =>
           blk_state'[b] = IF wr_status /= "NONE" /\ b = Head(wr_queue).tag
                           THEN (IF wr_status = "OK" THEN "READY" ELSE "EMPTY") ELSE "FILL"
      /\ blk_state[b] = "EMPTY" =>
           blk_state'[b] = IF wr_done_pulse /\ b = dma_wr_idx THEN "FILL" ELSE "EMPTY"
      /\ blk_state[b] = "SENT" => blk_state'[b] \in {"SENT", "EMPTY"}
  BY BlockStates
<1>5. blk_state[b] \in {"EMPTY", "FILL", "READY", "SENT"}  BY <1>1 DEF SchTypeOK
<1>6. CASE blk_state'[b] = "READY" /\ mem'[b] = p
  <2>1. CASE blk_state[b] = "READY"
    <3>1. mem'[b] = mem[b]
      BY <1>1, <1>2, <1>4, <2>1 DEF DmaWrStep, SchTypeOK
    <3>. QED BY <1>4, <1>6, <2>1, <3>1 DEF Carries
  <2>2. CASE blk_state[b] /= "READY"
    <3>1. wr_status = "OK" /\ b = Head(wr_queue).tag /\ blk_state[b] = "FILL"
      BY <1>1, <1>4, <1>5, <1>6, <2>2
    <3>2. mem'[b] = Head(wr_queue).pkt
      BY <1>1, <1>2, <3>1 DEF DmaWrStep, SchTypeOK
    <3>3. 1 \in DOMAIN wr_queue /\ wr_queue[1].tag = b /\ wr_queue[1].pkt = p
      BY <1>3, <1>6, <3>1, <3>2
    <3>4. Carries(b, p)  BY <3>3 DEF Carries
    <3>. QED BY <1>4, <3>1, <3>4
  <2>. QED BY <2>1, <2>2
<1>7. ASSUME NEW i \in DOMAIN wr_queue', wr_queue'[i].tag = b, wr_queue'[i].pkt = p
      PROVE  \/ Carries(b, p) /\ ~(TxPktDone /\ b = tx_rd_idx)
             \/ wr_done_pulse /\ b = dma_wr_idx /\ p = sink_pkt
  <2>1. CASE i \in 1 .. Len(wr_queue) - s
    <3>1. i + s \in DOMAIN wr_queue /\ wr_queue[i + s].tag = b /\ wr_queue[i + s].pkt = p
      BY <1>3, <1>7, <2>1
    <3>2. Carries(b, p)  BY <3>1 DEF Carries
    <3>3. blk_state[b] = "FILL"  BY <3>1 DEF BlockInv
    <3>. QED BY <1>4, <3>2, <3>3
  <2>2. CASE i \notin 1 .. Len(wr_queue) - s
    <3>1. wr_done_pulse /\ i = Len(wr_queue) + 1 - s  BY <1>3, <1>7, <2>2
    <3>2. wr_queue'[i].tag = sink_tag /\ wr_queue'[i].pkt = sink_pkt  BY <1>3, <3>1
    <3>. QED BY <1>7, <3>1, <3>2 DEF BlockInv, Storing
  <2>. QED BY <2>1, <2>2
<1>. QED BY <1>6, <1>7 DEF Carries

\* The packet that goes into the ring next is the same until it is complete;
\* then it is its successor.
LEMMA FillCycle ==
  ASSUME TRACK_PAYLOAD, TypeOK, BlockInv, RingOrder, NEW rx, NEW tready, NEW word,
         NEW wr_go \in BOOLEAN, NEW wr_last, NEW wr_status,
         LiveCycle(rx, tready, word, wr_go, wr_last, wr_status), ~RxCmdStart(rx)
  PROVE  /\ NextFill' = IF wr_done_pulse THEN SeqInc(sink_pkt) ELSE NextFill
         /\ wr_done_pulse => NextFill = sink_pkt
         /\ Storing' => fill_count' = SeqInc(sink_pkt')
<1>1. SchTypeOK  BY DEF TypeOK
<1>2. WrStep(wr_go, wr_last) /\ PktHistory(wr_go, RxCmdStart(rx))
  BY DEF LiveCycle, Clock, SchStep
<1>3. /\ wr_done_pulse => ~Storing'
      /\ Storing' => \/ Storing /\ ~wr_done_pulse
                     \/ ~Storing /\ SinkDescAccepted(wr_go)
      /\ Storing /\ ~wr_done_pulse => Storing' /\ ~SinkDescAccepted(wr_go)
      /\ SinkDescAccepted(wr_go) => ~Storing /\ Storing'
  BY <1>1, <1>2, WriterCycle
<1>4. /\ sink_pkt' = IF SinkDescAccepted(wr_go) THEN fill_count ELSE sink_pkt
      /\ fill_count' = IF SinkDescAccepted(wr_go) THEN SeqInc(fill_count) ELSE fill_count
  BY <1>2 DEF PktHistory
<1>5. wr_done_pulse => Storing  BY DEF Storing
<1>6. Storing => fill_count = SeqInc(sink_pkt)  BY DEF RingOrder
<1>. QED BY <1>3, <1>4, <1>5, <1>6 DEF NextFill

\* The packets of the stretch stay consecutive.
LEMMA OrderStep ==
  ASSUME TRACK_PAYLOAD, ~WR_ERRORS, TypeOK, StreamInv, LiveOnly, BlockInv, RingShape, RingOrder,
         NEW rx, NEW tready \in BOOLEAN,
         NEW word \in BOOLEAN, NEW wr_go \in BOOLEAN, NEW wr_last, NEW wr_status,
         LiveCycle(rx, tready, word, wr_go, wr_last, wr_status), ~RxCmdStart(rx)
  PROVE  RingOrder'
<1> DEFINE t == tx_rd_idx
           w == dma_wr_idx
<1>1. /\ t' = IF TxPktDone THEN BlkNext(t) ELSE t
      /\ w' = IF wr_done_pulse THEN BlkNext(w) ELSE w
  BY RingCycle
<1>2. /\ \A b \in Blocks : Occupied(b)' <=> (Occupied(b) /\ ~(TxPktDone /\ b = t))
                                            \/ (wr_done_pulse /\ b = w)
      /\ TxPktDone => Occupied(t)
      /\ wr_done_pulse => ~Occupied(w)
  BY OccupiedCycle
<1>3. \A b \in Blocks : \A p : Carries(b, p)' => \/ Carries(b, p) /\ ~(TxPktDone /\ b = t)
                                                 \/ wr_done_pulse /\ b = w /\ p = sink_pkt
  BY CarriesCycle
<1>4. /\ NextFill' = IF wr_done_pulse THEN SeqInc(sink_pkt) ELSE NextFill
      /\ wr_done_pulse => NextFill = sink_pkt
      /\ Storing' => fill_count' = SeqInc(sink_pkt')
  BY FillCycle
<1>5. t \in Blocks /\ w \in Blocks /\ BlkNext(t) \in Blocks /\ BlkNext(w) \in Blocks
  BY NextBlock DEF TypeOK, SchTypeOK
<1>6. \A b \in Blocks : \A p : Carries(b, p) => Occupied(b)
  BY DEF Carries, Occupied, BlockInv
<1>7. seq_num' = IF TxPktDone THEN SeqInc(seq_num) ELSE seq_num
  BY DEF LiveCycle, Clock, RegsStep
<1>8. TxPktDone => seq_num \in PktIds /\ Carries(t, seq_num)
  <2>1. SUFFICES ASSUME TxPktDone PROVE seq_num \in PktIds /\ Carries(t, seq_num)  OBVIOUS
  <2>2. blk_state[t] = "READY"  BY <1>5, <2>1, BlockStates
  <2>3. Carries(t, mem[t])  BY <2>2 DEF Carries
  <2>4. mem[t] \in PktIds  BY <1>5 DEF TypeOK, SchTypeOK
  <2>5. mem[t] = seq_num  BY <2>3, <2>4 DEF RingOrder
  <2>. QED BY <2>3, <2>4, <2>5
<1>9. Occupied(w) => t = w
  BY <1>5 DEF RingShape, Between, Blocks
<1>10. Occupied(t) => Occupied(BlkNext(t)) \/ BlkNext(t) = w
  BY <1>5, SchedulerAssumption DEF RingShape, Between, Blocks, BlkNext
<1>11. \A b \in Blocks : t' = b => /\ Occupied(t)' <=> Occupied(b)'
                                  /\ \A p : Carries(t, p)' <=> Carries(b, p)'
  BY DEF Occupied, Carries
<1> HIDE DEF t, w
<1>12. ASSUME NEW b \in Blocks, NEW p \in PktIds, NEW q \in PktIds,
              Carries(b, p)', Carries(BlkNext(b), q)', BlkNext(b) /= w'
       PROVE  q = SeqInc(p)
  <2>0. BlkNext(b) \in Blocks  BY NextBlock
  <2>1. Carries(b, p)
    BY <1>1, <1>3, <1>12
  <2>2. CASE BlkNext(b) = w
    <3>1. q = sink_pkt  BY <1>1, <1>2, <1>3, <1>6, <1>12, <2>0, <2>2
    <3>2. NextFill = SeqInc(p)  BY <2>1, <2>2 DEF RingOrder, w
    <3>3. wr_done_pulse  BY <1>1, <1>12, <2>2
    <3>. QED BY <1>4, <3>1, <3>2, <3>3
  <2>3. CASE BlkNext(b) /= w
    <3>1. Carries(BlkNext(b), q)  BY <1>3, <1>12, <2>0, <2>3
    <3>. QED BY <2>1, <2>3, <3>1 DEF RingOrder, w
  <2>. QED BY <2>2, <2>3
<1>13. ASSUME NEW b \in Blocks, NEW p \in PktIds, Carries(b, p)', BlkNext(b) = w'
       PROVE  NextFill' = SeqInc(p)
  <2>1. CASE wr_done_pulse
    <3>1. b = w  BY <1>1, <1>5, <1>13, <2>1, NextBlock
    <3>2. ~Carries(b, p)  BY <1>2, <1>6, <2>1, <3>1
    <3>3. p = sink_pkt  BY <1>3, <1>13, <3>2
    <3>. QED BY <1>4, <2>1, <3>3
  <2>2. CASE ~wr_done_pulse
    <3>1. Carries(b, p) /\ BlkNext(b) = w  BY <1>1, <1>3, <1>13, <2>2
    <3>. QED BY <1>4, <2>2, <3>1 DEF RingOrder, w
  <2>. QED BY <2>1, <2>2
<1>14. ASSUME NEW p \in PktIds, Carries(t, p)' PROVE p = seq_num'
  <2>1. CASE TxPktDone
    <3>1. t' = BlkNext(t) /\ seq_num' = SeqInc(seq_num)  BY <1>1, <1>7, <2>1
    <3>2. CASE BlkNext(t) = w
      <4>1. NextFill = SeqInc(seq_num)  BY <1>5, <1>8, <2>1, <3>2 DEF RingOrder, w
      <4>2. ~(Carries(w, p) /\ ~(w = t))  BY <1>5, <1>6, <1>9
      <4>3. wr_done_pulse /\ p = sink_pkt  BY <1>3, <1>5, <1>11, <1>14, <2>1, <3>1, <3>2, <4>2
      <4>. QED BY <1>4, <3>1, <4>1, <4>3
    <3>3. CASE BlkNext(t) /= w
      <4>1. Carries(BlkNext(t), p)  BY <1>3, <1>5, <1>11, <1>14, <3>1, <3>3
      <4>. QED BY <1>5, <1>8, <2>1, <3>1, <3>3, <4>1 DEF RingOrder, w
    <3>. QED BY <3>2, <3>3
  <2>2. CASE ~TxPktDone
    <3>1. t' = t /\ seq_num' = seq_num  BY <1>1, <1>7, <2>2
    <3>2. CASE Carries(t, p)  BY <3>1, <3>2 DEF RingOrder, t
    <3>3. CASE ~Carries(t, p)
      <4>1. wr_done_pulse /\ t = w /\ p = sink_pkt  BY <1>3, <1>5, <1>11, <1>14, <3>1, <3>3
      <4>2. ~Occupied(t)  BY <1>2, <4>1
      <4>3. NextFill = seq_num  BY <4>2 DEF RingOrder, t
      <4>. QED BY <1>4, <3>1, <4>1, <4>3
    <3>. QED BY <3>2, <3>3
  <2>. QED BY <2>1, <2>2
<1>15. ASSUME ~Occupied(t)' PROVE NextFill' = seq_num'
  <2>1. CASE TxPktDone
    <3>1. t' = BlkNext(t) /\ seq_num' = SeqInc(seq_num)  BY <1>1, <1>7, <2>1
    <3>2. BlkNext(t) = w /\ ~wr_done_pulse
      <4>1. PICK c \in Blocks : c = BlkNext(t)  BY <1>5
      <4>2. ~Occupied(c)'  BY <1>11, <1>15, <3>1, <4>1
      <4>3. c = t => t = w
        BY <1>5, <4>1, SchedulerAssumption DEF BlkNext, Blocks
      <4>4. Occupied(c) => c = t  BY <1>2, <2>1, <4>2
      <4>5. c = w  BY <1>2, <1>10, <2>1, <4>1, <4>3, <4>4
      <4>. QED BY <1>2, <4>1, <4>2, <4>5
    <3>3. NextFill = SeqInc(seq_num)  BY <1>5, <1>8, <2>1, <3>2 DEF RingOrder, w
    <3>. QED BY <1>4, <3>1, <3>2, <3>3
  <2>2. CASE ~TxPktDone
    <3>1. t' = t /\ seq_num' = seq_num  BY <1>1, <1>7, <2>2
    <3>2. ~Occupied(t)  BY <1>2, <1>5, <1>11, <1>15, <2>2, <3>1
    <3>3. t = w  BY <1>5, <3>2 DEF RingShape, Between, Blocks, t, w
    <3>4. ~wr_done_pulse  BY <1>2, <1>5, <1>11, <1>15, <3>1, <3>3
    <3>. QED BY <1>4, <3>1, <3>2, <3>4 DEF RingOrder, t
  <2>. QED BY <2>1, <2>2
<1> USE DEF t, w
<1>. QED BY <1>4, <1>12, <1>13, <1>14, <1>15 DEF RingOrder

\* The words of a live read are of the packet seq_num counts.
LEMMA WordStep ==
  ASSUME TypeOK, StreamInv, LiveOnly, BlockInv, RingOrder, WordInv,
         NEW rx, NEW tready \in BOOLEAN,
         NEW word \in BOOLEAN, NEW wr_go \in BOOLEAN, NEW wr_last, NEW wr_status,
         LiveCycle(rx, tready, word, wr_go, wr_last, wr_status), ~RxCmdStart(rx)
  PROVE  WordInv'
<1> DEFINE tr == DataInTready(tready)
<1>1. SUFFICES ASSUME LiveRead', rd_unpack_valid' PROVE rd_unpack_pkt' = seq_num'
  BY DEF WordInv
<1>2. /\ LiveRead' <=> PktStart \/ (LiveRead /\ ~rd_done_pulse)
      /\ TxPktDone <=> LiveRead /\ rd_done_pulse
      /\ PktStart => ~LiveRead /\ SchReady
  BY RingCycle
<1>3. RdUnpack(word, tr)  BY DEF LiveCycle, Clock, SchStep, RdStep
<1>4. ~PktStart
  BY <1>1, <1>2, <1>3 DEF RdUnpack, SchReady, RdBusy, WordTaken
<1>5. LiveRead /\ ~TxPktDone  BY <1>1, <1>2, <1>4
<1>6. seq_num' = seq_num  BY <1>5 DEF LiveCycle, Clock, RegsStep
<1>7. CASE WordTaken(word, tr)
  <2>1. dma_rd_blk = tx_rd_idx /\ blk_state[tx_rd_idx] = "READY" /\ tx_rd_idx \in Blocks
    BY <1>5, <1>7 DEF WordTaken, BlockInv, StreamInv, ReadsBeginClean, TypeOK, SchTypeOK
  <2>2. Carries(tx_rd_idx, mem[tx_rd_idx]) /\ mem[tx_rd_idx] \in PktIds
    BY <2>1 DEF Carries, TypeOK, SchTypeOK
  <2>3. mem[tx_rd_idx] = seq_num  BY <2>2 DEF RingOrder
  <2>. QED BY <1>3, <1>6, <1>7, <2>1, <2>3 DEF RdUnpack
<1>8. CASE ~WordTaken(word, tr)
  BY <1>1, <1>3, <1>5, <1>6, <1>8 DEF RdUnpack, WordInv
<1>. QED BY <1>7, <1>8

\* An empty ring in which neither FSM holds anything is in order.
LEMMA PayloadEmpty ==
  ASSUME blk_state = [b \in Blocks |-> "EMPTY"], wr_queue = <<>>, tx_rd_idx \in Blocks,
         ~Storing, fill_count = seq_num, ~rd_unpack_valid, tx_rd_idx = dma_wr_idx
  PROVE  PayloadInv
<1>1. \A b \in Blocks : ~Occupied(b)  BY DEF Occupied
<1>2. DOMAIN wr_queue = {}  OBVIOUS
<1>3. \A b \in Blocks : \A p : ~Carries(b, p)  BY <1>2 DEF Carries
<1>. QED BY <1>1, <1>3 DEF PayloadInv, RingShape, RingOrder, WordInv, NextFill

\* The packets in the ring are consecutive and begin with seq_num.
THEOREM PayloadInvariant ==
  ASSUME QUIET_START, ~NACKS, ~WR_ERRORS, TRACK_PAYLOAD
  PROVE  Spec => []PayloadInv
<1>0. 0 \in Blocks  BY SchedulerAssumption DEF Blocks
<1>1. Init => PayloadInv
  BY <1>0, PayloadEmpty DEF Init, SchInit, RegsInit, Storing
<1>2. TypeOK /\ StreamInv /\ PacketInv /\ PayloadInv /\ [Next]_vars => PayloadInv'
  <2>1. CASE UNCHANGED vars
    BY <2>1 DEF vars, regVars, txVars, schVars, ringVars, wrVars, rdVars, dmaVars,
                PayloadInv, RingShape, RingOrder, WordInv, Occupied, Between, Carries, NextFill,
                Storing, LiveRead
  <2>2. ASSUME TypeOK, StreamInv, PacketInv, PayloadInv, Next PROVE PayloadInv'
    <3>1. PICK rx : \E tready \in BOOLEAN, word \in BOOLEAN, wr_go \in BOOLEAN,
              wr_last \in BOOLEAN, wr_status \in {"NONE", "OK", "ERROR"} :
             LiveCycle(rx, tready, word, wr_go, wr_last, wr_status)
      BY <2>2, StepIsLiveCycle
    <3>2. PICK tready \in BOOLEAN, word \in BOOLEAN, wr_go \in BOOLEAN,
               wr_last \in BOOLEAN, wr_status \in {"NONE", "OK", "ERROR"} :
             LiveCycle(rx, tready, word, wr_go, wr_last, wr_status)
      BY <3>1
    <3>3. CASE RxCmdStart(rx)
      <4>1. /\ RingClear /\ seq_num' = 0 /\ fill_count' = 0
            /\ wr_state' = "WR_IDLE" /\ ~wr_done_pulse' /\ wr_queue' = <<>>
            /\ ~rd_unpack_valid'
        BY <2>2, <3>2, <3>3, QuietCycle
      <4>2. /\ (blk_state = [b \in Blocks |-> "EMPTY"])' /\ (tx_rd_idx = dma_wr_idx)'
            /\ (tx_rd_idx \in Blocks)' /\ (wr_queue = <<>>)' /\ ~Storing'
            /\ (fill_count = seq_num)' /\ ~rd_unpack_valid'
        BY <1>0, <4>1 DEF RingClear, Storing
      <4>3. \A b \in Blocks : ~Occupied(b)'  BY <4>2 DEF Occupied
      <4>4. DOMAIN wr_queue' = {}  BY <4>2
      <4>5. \A b \in Blocks : \A p : ~Carries(b, p)'  BY <4>2, <4>4 DEF Carries
      <4>6. \A p : ~Carries(tx_rd_idx, p)'  BY <4>2, <4>4 DEF Carries
      <4>. QED BY <4>2, <4>3, <4>5, <4>6
               DEF PayloadInv, RingShape, RingOrder, WordInv, NextFill
    <3>4. CASE ~RxCmdStart(rx)
      <4>1. LiveOnly /\ BlockInv /\ RingShape /\ RingOrder /\ WordInv
        BY <2>2 DEF PacketInv, PayloadInv
      <4>2. RingShape'  BY <2>2, <3>2, <3>4, <4>1, ShapeStep
      <4>3. RingOrder'  BY <2>2, <3>2, <3>4, <4>1, OrderStep
      <4>4. WordInv'  BY <2>2, <3>2, <3>4, <4>1, WordStep
      <4>. QED BY <4>2, <4>3, <4>4 DEF PayloadInv
    <3>. QED BY <3>3, <3>4
  <2>. QED BY <2>1, <2>2
<1>. QED BY <1>1, <1>2, TypeCorrect, StreamInvariant, PacketInvariant, PTL DEF Spec

\* A DATA frame carries the packet its header names, whatever the back-
\* pressure, the DMA's delays and the commands and CREDITs of the host.
THEOREM PayloadExact ==
  ASSUME QUIET_START, ~NACKS, ~WR_ERRORS, TRACK_PAYLOAD
  PROVE  Spec => []PayloadMatchesSeq
<1>1. PacketInv /\ PayloadInv => PayloadMatchesSeq
  BY DEF PacketInv, LiveOnly, FrameInv, TxAndSchedulerInStep, PayloadInv, WordInv, LiveRead,
         PayloadMatchesSeq
<1>. QED BY <1>1, PacketInvariant, PayloadInvariant, PTL
=============================================================================
