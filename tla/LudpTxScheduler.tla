-------------------------- MODULE LudpTxScheduler ---------------------------
(***************************************************************************)
(* rtl/ludp_tx_scheduler.sv: the ring of packet blocks in DRAM, the FSM    *)
(* that writes packets into it, the FSM that reads them back and the       *)
(* scheduler that chooses what is read.  The DMA wrapper behind it, with   *)
(* the vendored engines, is modelled by what the scheduler sees of it:     *)
(* writes complete in order after any delay, a read streams one block.     *)
(*                                                                         *)
(* Payload is a packet number: the position of the packet in the stream of *)
(* the current session, wrapped like a sequence number, or NoPkt for bytes *)
(* that belong to no packet of this session.  It is carried through the    *)
(* write FSM, the DMA, the memory and the read FSM and steers nothing.     *)
(***************************************************************************)
EXTENDS SeqArith, Sequences

CONSTANTS
  NUM_BLOCKS,       \* packet blocks in the ring (3 in fpga_core.sv)
  RATIO,            \* 64-bit beats per DMA word (8 in the RTL)
  PKT_WORDS,        \* DMA words of a packet (dma_pkt_size, fixed by fpga_core.sv)
  ZERO_LEN_WORDS,   \* words streamed for a descriptor of length 0 (1024 in the RTL)
  TRACK_PAYLOAD     \* number the packets (otherwise every payload is NoPkt)

ASSUME SchedulerAssumption ==
  /\ NUM_BLOCKS \in Nat \ {0}
  /\ RATIO \in Nat \ {0}
  /\ PKT_WORDS \in Nat \ {0}
  /\ ZERO_LEN_WORDS \in Nat \ {0}
  /\ TRACK_PAYLOAD \in BOOLEAN

Blocks == 0 .. NUM_BLOCKS - 1
PktBeats == PKT_WORDS * RATIO
NoPkt == SEQ_MOD
PktIds == 0 .. SEQ_MOD

VARIABLES
  \* the ring
  blk_state, blk_seq, blk_size,     \* per block
  dma_wr_idx, tx_rd_idx, rd_blk_idx,
  retx_pending, retx_pending_idx, retx_req_d,
  sch_state, sch_is_retx,
  \* the write FSM, with the descriptor the sink has latched
  wr_state, wr_pack_last, wr_done_pulse, sink_tag, sink_pkt,
  \* the read FSM
  rd_state, rd_axis_total_beats, rd_axis_beat_count, rd_clear_pending,
  rd_unpack_valid, rd_unpack_idx, rd_unpack_last_axi, rd_unpack_pkt,
  rd_done_pulse,
  \* the DMA engines and the DRAM
  wr_queue, mem, dma_rd_blk, dma_rd_left,
  \* history: packets taken from the source in this session
  fill_count

ringVars == <<blk_state, blk_seq, blk_size, dma_wr_idx, tx_rd_idx, rd_blk_idx,
              retx_pending, retx_pending_idx, retx_req_d, sch_state, sch_is_retx>>
wrVars == <<wr_state, wr_pack_last, wr_done_pulse, sink_tag, sink_pkt, fill_count>>
rdVars == <<rd_state, rd_axis_total_beats, rd_axis_beat_count, rd_clear_pending,
            rd_unpack_valid, rd_unpack_idx, rd_unpack_last_axi, rd_unpack_pkt,
            rd_done_pulse>>
dmaVars == <<wr_queue, mem, dma_rd_blk, dma_rd_left>>
schVars == <<ringVars, wrVars, rdVars, dmaVars>>

-----------------------------------------------------------------------------
\* Combinational signals.

BlkNext(idx) == IF idx = NUM_BLOCKS - 1 THEN 0 ELSE idx + 1

TxPktReady == blk_state[tx_rd_idx] = "READY"

RdPktSize == blk_size[tx_rd_idx]

RdBusy == rd_state /= "RD_IDLE" \/ rd_unpack_valid

SchReady == sch_state = "SCH_IDLE" /\ ~RdBusy

\* The block a descriptor names, evaluated when the descriptor is sent.
SchTargetBlk == IF retx_pending THEN retx_pending_idx ELSE tx_rd_idx

\* The SENT blocks that hold the sequence number of a NACK; the last one wins.
RetxMatches(seq) == {b \in Blocks : blk_state[b] = "SENT" /\ blk_seq[b] = seq}

RetxLookupIdx(seq) == CHOOSE b \in RetxMatches(seq) : \A c \in RetxMatches(seq) : c <= b

IssueRetx == SchReady /\ retx_pending

IssueLive(tx_pkt_start) == SchReady /\ ~retx_pending /\ tx_pkt_start /\ TxPktReady

SchDmaRdReq(tx_pkt_start) == IssueRetx \/ IssueLive(tx_pkt_start)

TxPktDone == rd_done_pulse /\ ~sch_is_retx

\* Words the DMA source streams for a descriptor of the given beats.
StreamWords(beats) == IF beats = 0 THEN ZERO_LEN_WORDS ELSE PKT_WORDS

-----------------------------------------------------------------------------
SchInit ==
  /\ blk_state = [b \in Blocks |-> "EMPTY"]
  /\ blk_seq = [b \in Blocks |-> 0]
  /\ blk_size = [b \in Blocks |-> 0]
  /\ dma_wr_idx = 0 /\ tx_rd_idx = 0 /\ rd_blk_idx = 0
  /\ retx_pending = FALSE /\ retx_pending_idx = 0 /\ retx_req_d = FALSE
  /\ sch_state = "SCH_IDLE" /\ sch_is_retx = FALSE
  /\ wr_state = "WR_IDLE" /\ wr_pack_last = FALSE /\ wr_done_pulse = FALSE
  /\ sink_tag = 0 /\ sink_pkt = NoPkt
  /\ rd_state = "RD_IDLE" /\ rd_axis_total_beats = 0 /\ rd_axis_beat_count = 0
  /\ rd_clear_pending = FALSE /\ rd_done_pulse = FALSE
  /\ rd_unpack_valid = FALSE /\ rd_unpack_idx = 0
  /\ rd_unpack_last_axi = FALSE /\ rd_unpack_pkt = NoPkt
  /\ wr_queue = <<>> /\ mem = [b \in Blocks |-> NoPkt]
  /\ dma_rd_blk = 0 /\ dma_rd_left = 0
  /\ fill_count = 0

-----------------------------------------------------------------------------
\* The write FSM.  wr_go: the step its state waits for (data, sink) happens;
\* wr_last: the word completed in WR_PACK carries tlast.  clear is not one of
\* its inputs.

\* Mutant: the writer does not look at the state of the block.
SinkDescAnyBlock(wr_go) == wr_state = "WR_IDLE" /\ wr_go /\ ~wr_done_pulse

SinkDescAccepted(wr_go) ==
  /\ wr_state = "WR_IDLE" /\ wr_go /\ ~wr_done_pulse
  /\ blk_state[dma_wr_idx] = "EMPTY"

WrIdle(wr_go) ==
  /\ wr_state = "WR_IDLE"
  /\ wr_done_pulse' = FALSE
  /\ IF SinkDescAccepted(wr_go)
       THEN wr_state' = "WR_PACK" /\ wr_pack_last' = FALSE /\ sink_tag' = dma_wr_idx
       ELSE UNCHANGED <<wr_state, wr_pack_last, sink_tag>>

WrPack(wr_go, wr_last) ==
  /\ wr_state = "WR_PACK"
  /\ wr_done_pulse' = FALSE
  /\ IF wr_go
       THEN wr_state' = "WR_FINISH" /\ wr_pack_last' = wr_last
       ELSE UNCHANGED <<wr_state, wr_pack_last>>
  /\ UNCHANGED sink_tag

WrFinish(wr_go) ==
  /\ wr_state = "WR_FINISH"
  /\ wr_done_pulse' = (wr_go /\ wr_pack_last)
  /\ wr_state' = IF ~wr_go THEN "WR_FINISH"
                 ELSE IF wr_pack_last THEN "WR_IDLE" ELSE "WR_PACK"
  /\ UNCHANGED <<wr_pack_last, sink_tag>>

WrStep(wr_go, wr_last) == WrIdle(wr_go) \/ WrPack(wr_go, wr_last) \/ WrFinish(wr_go)

\* History: which packet of the session the sink is storing.
PktHistory(wr_go, clear) ==
  /\ sink_pkt' = IF clear THEN NoPkt
                 ELSE IF SinkDescAccepted(wr_go) /\ TRACK_PAYLOAD THEN fill_count
                 ELSE sink_pkt
  /\ fill_count' = IF clear THEN 0
                   ELSE IF SinkDescAccepted(wr_go) /\ TRACK_PAYLOAD
                     THEN SeqInc(fill_count) ELSE fill_count

-----------------------------------------------------------------------------
\* The read FSM.  word: the DMA source presents a word; tready: the transmit
\* FSM takes a beat.

BeatTaken(tready) == rd_unpack_valid /\ tready

WordFinished(tready) == BeatTaken(tready) /\ rd_unpack_idx = RATIO - 1

WordTaken(word, tready) ==
  /\ rd_state = "RD_DATA" /\ word /\ dma_rd_left > 0
  /\ ~rd_unpack_valid \/ WordFinished(tready)

LastWordTaken(word, tready) == WordTaken(word, tready) /\ dma_rd_left = 1

\* The last word of a read that START has cancelled is thrown away.
WordDropped(word, tready) == LastWordTaken(word, tready) /\ rd_clear_pending

\* Mutant: the packet is taken for done one word early.
ReadDoneEarly(tready) ==
  WordFinished(tready) /\ rd_axis_beat_count + 1 + RATIO >= rd_axis_total_beats

\* Mutant: off by one, the last beat is never the last.
ReadDoneLate(tready) ==
  WordFinished(tready) /\ rd_axis_beat_count + 1 > rd_axis_total_beats

ReadDone(tready) ==
  WordFinished(tready) /\ rd_axis_beat_count + 1 >= rd_axis_total_beats

RdAxisTlast ==
  /\ rd_unpack_valid /\ rd_unpack_idx = RATIO - 1
  /\ rd_unpack_last_axi
  /\ rd_axis_beat_count + 1 >= rd_axis_total_beats

RdState(rd_req, word, tready) ==
  rd_state' =
    CASE rd_state = "RD_IDLE" -> IF rd_req /\ ~rd_unpack_valid THEN "RD_DESC" ELSE "RD_IDLE"
      [] rd_state = "RD_DESC" -> "RD_DATA"
      [] rd_state = "RD_DATA" -> IF LastWordTaken(word, tready) THEN "RD_IDLE" ELSE "RD_DATA"

RdUnpack(word, tready) ==
  IF WordTaken(word, tready)
    THEN /\ rd_unpack_valid' = ~WordDropped(word, tready)
         /\ rd_unpack_idx' = 0
         /\ rd_unpack_last_axi' = (dma_rd_left = 1)
         /\ rd_unpack_pkt' = mem[dma_rd_blk]
    ELSE /\ rd_unpack_valid' = (rd_unpack_valid /\ ~WordFinished(tready))
         /\ rd_unpack_idx' = IF WordFinished(tready) THEN 0
                             ELSE IF BeatTaken(tready) THEN rd_unpack_idx + 1
                             ELSE rd_unpack_idx
         /\ UNCHANGED <<rd_unpack_last_axi, rd_unpack_pkt>>

RdStep(rd_req, clear, word, tready) ==
  LET issued == rd_req /\ ~RdBusy IN
  /\ RdState(rd_req, word, tready)
  /\ RdUnpack(word, tready)
  /\ rd_axis_total_beats' = IF issued THEN blk_size[SchTargetBlk] ELSE rd_axis_total_beats
  /\ rd_axis_beat_count' = IF issued THEN 0
                           ELSE IF BeatTaken(tready) THEN rd_axis_beat_count + 1
                           ELSE rd_axis_beat_count
  /\ rd_done_pulse' = (ReadDone(tready) /\ ~rd_clear_pending)
  /\ rd_clear_pending' =
       IF issued \/ ReadDone(tready) \/ WordDropped(word, tready) THEN FALSE
       ELSE rd_clear_pending \/ (clear /\ rd_state /= "RD_IDLE")

-----------------------------------------------------------------------------
\* The DMA engines.  A packet whose last word the sink has taken is
\* queued in the cycle of wr_done_pulse, so its status cannot overtake the
\* FILL mark.  wr_status says how the oldest write ends in this cycle, if it does.

DmaWrStep(wr_status, clear) ==
  LET queued == IF wr_done_pulse
                  THEN Append(wr_queue, [tag |-> sink_tag, pkt |-> sink_pkt])
                  ELSE wr_queue
      rest == IF wr_status = "NONE" THEN queued ELSE Tail(queued)
      stored == IF wr_status = "NONE" THEN mem
                ELSE [mem EXCEPT ![Head(wr_queue).tag] =
                        IF wr_status = "OK" THEN Head(wr_queue).pkt ELSE NoPkt]
  IN /\ wr_queue' = IF clear THEN [i \in DOMAIN rest |-> [rest[i] EXCEPT !.pkt = NoPkt]]
                             ELSE rest
     /\ mem' = IF clear THEN [b \in Blocks |-> NoPkt] ELSE stored

DmaRdStep(word, tready) ==
  /\ dma_rd_blk' = IF rd_state = "RD_DESC" THEN SchTargetBlk ELSE dma_rd_blk
  /\ dma_rd_left' = IF rd_state = "RD_DESC" THEN StreamWords(blk_size[SchTargetBlk])
                    ELSE IF WordTaken(word, tready) THEN dma_rd_left - 1
                    ELSE dma_rd_left

-----------------------------------------------------------------------------
\* The scheduler's own register block.

RingClear ==
  /\ blk_state' = [b \in Blocks |-> "EMPTY"]
  /\ blk_seq' = [b \in Blocks |-> 0]
  /\ blk_size' = [b \in Blocks |-> 0]
  /\ dma_wr_idx' = 0 /\ tx_rd_idx' = 0 /\ rd_blk_idx' = 0
  /\ retx_pending' = FALSE /\ retx_pending_idx' = 0 /\ retx_req_d' = FALSE
  /\ sch_state' = "SCH_IDLE" /\ sch_is_retx' = FALSE

\* Block b goes back to EMPTY when the packet after it has been sent, unless
\* a retransmission of it is pending.
Recycled(b) ==
  /\ TxPktDone /\ b /= rd_blk_idx /\ blk_state[b] = "SENT"
  /\ ~(retx_pending /\ retx_pending_idx = b)

\* Mutant: a packet counts as READY once the sink has it, before the DMA
\* has stored it.
BlkStateReadyEarly(b, wr_status) ==
  IF TxPktDone /\ b = rd_blk_idx THEN "SENT"
  ELSE IF Recycled(b) THEN "EMPTY"
  ELSE IF wr_status = "ERROR" /\ b = Head(wr_queue).tag THEN "EMPTY"
  ELSE IF wr_done_pulse /\ b = dma_wr_idx THEN "READY"
  ELSE blk_state[b]

\* The next state of block b; the later assignments of the RTL block win.
BlkStateNext(b, wr_status) ==
  IF TxPktDone /\ b = rd_blk_idx THEN "SENT"
  ELSE IF Recycled(b) THEN "EMPTY"
  ELSE IF wr_status = "ERROR" /\ b = Head(wr_queue).tag THEN "EMPTY"
  ELSE IF wr_status = "OK" /\ b = Head(wr_queue).tag /\ blk_state[b] = "FILL" THEN "READY"
  ELSE IF wr_done_pulse /\ b = dma_wr_idx THEN "FILL"
  ELSE blk_state[b]

RingStep(retx_req, retx_seq, tx_pkt_start, tx_pkt_seq, wr_status) ==
  LET latch == retx_req /\ ~retx_req_d /\ RetxMatches(retx_seq) /= {} /\ ~retx_pending IN
  /\ blk_state' = [b \in Blocks |-> BlkStateNext(b, wr_status)]
  /\ blk_seq' = IF tx_pkt_start /\ TxPktReady
                  THEN [blk_seq EXCEPT ![tx_rd_idx] = tx_pkt_seq] ELSE blk_seq
  /\ blk_size' = IF wr_done_pulse
                   THEN [blk_size EXCEPT ![dma_wr_idx] = PktBeats] ELSE blk_size
  /\ dma_wr_idx' = IF wr_done_pulse THEN BlkNext(dma_wr_idx) ELSE dma_wr_idx
  /\ tx_rd_idx' = IF TxPktDone THEN BlkNext(tx_rd_idx) ELSE tx_rd_idx
  /\ retx_req_d' = retx_req
  /\ retx_pending' = (latch \/ (retx_pending /\ ~IssueRetx))
  /\ retx_pending_idx' = IF latch THEN RetxLookupIdx(retx_seq) ELSE retx_pending_idx
  /\ \/ /\ SchDmaRdReq(tx_pkt_start)
        /\ sch_state' = "SCH_READING"
        /\ sch_is_retx' = IssueRetx
        /\ rd_blk_idx' = SchTargetBlk
     \/ /\ sch_state = "SCH_READING" /\ rd_done_pulse
        /\ sch_state' = "SCH_IDLE"
        /\ UNCHANGED <<sch_is_retx, rd_blk_idx>>
     \/ /\ ~SchDmaRdReq(tx_pkt_start)
        /\ ~(sch_state = "SCH_READING" /\ rd_done_pulse)
        /\ UNCHANGED <<sch_state, sch_is_retx, rd_blk_idx>>

\* One clock of the scheduler; START clears the ring but neither of the FSMs.
SchStep(clear, retx_req, retx_seq, tx_pkt_start, tx_pkt_seq, wr_go, wr_last, wr_status, word, tready) ==
  /\ WrStep(wr_go, wr_last)
  /\ PktHistory(wr_go, clear)
  /\ RdStep(SchDmaRdReq(tx_pkt_start), clear, word, tready)
  /\ DmaWrStep(wr_status, clear)
  /\ DmaRdStep(word, tready)
  /\ \/ clear /\ RingClear
     \/ ~clear /\ RingStep(retx_req, retx_seq, tx_pkt_start, tx_pkt_seq, wr_status)

SchTypeOK ==
  /\ blk_state \in [Blocks -> {"EMPTY", "FILL", "READY", "SENT"}]
  /\ blk_seq \in [Blocks -> SeqNums]
  /\ blk_size \in [Blocks -> {0, PktBeats}]
  /\ dma_wr_idx \in Blocks /\ tx_rd_idx \in Blocks /\ rd_blk_idx \in Blocks
  /\ retx_pending \in BOOLEAN /\ retx_pending_idx \in Blocks /\ retx_req_d \in BOOLEAN
  /\ sch_state \in {"SCH_IDLE", "SCH_READING"} /\ sch_is_retx \in BOOLEAN
  /\ wr_state \in {"WR_IDLE", "WR_PACK", "WR_FINISH"}
  /\ wr_pack_last \in BOOLEAN /\ wr_done_pulse \in BOOLEAN
  /\ sink_tag \in Blocks /\ sink_pkt \in PktIds
  /\ rd_state \in {"RD_IDLE", "RD_DESC", "RD_DATA"}
  /\ rd_axis_total_beats \in {0, PktBeats}
  /\ rd_axis_beat_count \in Nat
  /\ rd_clear_pending \in BOOLEAN /\ rd_done_pulse \in BOOLEAN
  /\ rd_unpack_valid \in BOOLEAN /\ rd_unpack_idx \in 0 .. RATIO - 1
  /\ rd_unpack_last_axi \in BOOLEAN /\ rd_unpack_pkt \in PktIds
  /\ wr_queue \in Seq([tag : Blocks, pkt : PktIds])
  /\ mem \in [Blocks -> PktIds]
  /\ dma_rd_blk \in Blocks /\ dma_rd_left \in Nat
  /\ fill_count \in SeqNums
=============================================================================
