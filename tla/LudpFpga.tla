------------------------------ MODULE LudpFpga ------------------------------
(***************************************************************************)
(* The LUDP core of the FPGA: the registers and decoder of LudpProtocol,   *)
(* the transmit FSM of LudpProtocolTx and the scheduler of                 *)
(* LudpTxScheduler, wired together as rtl/ludp_protocol.sv does.  A step   *)
(* of the system is one clock cycle, in which every register block takes   *)
(* its step at once; what the surroundings do in that cycle (a packet from *)
(* the host, back-pressure, the source, the DMA engines) is chosen freely. *)
(***************************************************************************)
EXTENDS LudpProtocolTx, LudpTxScheduler

CONSTANTS
  WINDOW,        \* the host grants at most this many packets beyond those sent
  MAX_PKTS,      \* bound: packets granted in one session
  NACKS,         \* the host sends NACKs
  WR_ERRORS,     \* a DMA write may fail
  QUIET_START,   \* START arrives only when no packet is being read or written
  MAX_WR_QUEUE   \* bound: DMA writes in flight when START arrives

ASSUME FpgaAssumption ==
  /\ WINDOW \in Nat /\ WINDOW < HALF_SEQ - 1
  /\ MAX_PKTS \in Nat /\ MAX_WR_QUEUE \in Nat
  /\ NACKS \in BOOLEAN /\ WR_ERRORS \in BOOLEAN /\ QUIET_START \in BOOLEAN

VARIABLES
  started,       \* history: live DATA packets started in this session
  done,          \* history: live DATA packets completed in this session
  granted,       \* history: highest absolute credit accepted in this session
  owed           \* history: responses due for accepted requests and not yet sent

histVars == <<started, done, granted, owed>>
vars == <<regVars, txVars, schVars, histVars>>

-----------------------------------------------------------------------------
\* CREDIT packets carry an absolute credit, wrapped to the register's width.
\* The host never grants beyond its window, and the network does not deliver
\* a CREDIT that is half the sequence space old.
CreditPackets ==
  {[type |-> "CREDIT", seq |-> WrapSeq(n), abs |-> n] :
     n \in {m \in 0 .. MAX_PKTS : m <= done + WINDOW /\ granted - m < HALF_SEQ}}

\* Wires.
PktStart == TxPktStart(retx_pending, TxPktReady, SchReady)

\* Mutant: the FSM enters TX_DATA_HDR while the scheduler is still busy.
StartDataWhileBusy == retx_pending \/ (TxPktReady /\ F2hTxOk)

StartData == retx_pending \/ (TxPktReady /\ F2hTxOk /\ SchReady)

\* No packet is under way, nor does one begin in this cycle.
Quiet(wr_go) ==
  /\ tx_state = "TX_IDLE" /\ mux_lock = FREE
  /\ SchReady /\ ~rd_done_pulse /\ ~retx_pending /\ ~PktStart
  /\ wr_state = "WR_IDLE" /\ ~wr_go /\ ~wr_done_pulse /\ wr_queue = <<>>

StartAllowed(wr_go) ==
  IF QUIET_START THEN Quiet(wr_go) ELSE Len(wr_queue) <= MAX_WR_QUEUE

\* NACKs for a packet some block holds, and for one that none holds.
NackChoices ==
  {p \in NackPackets : p.seq \in {blk_seq[b] : b \in Blocks} \cup {SeqInc(seq_num)}}

RxEvents(wr_go) ==
  {NoRx} \cup StatusRequests \cup CreditPackets
    \cup (IF NACKS THEN NackChoices ELSE {})
    \cup {c \in CmdPackets : c.opcode = "START" => StartAllowed(wr_go)}

WrStatuses ==
  IF wr_queue = <<>> THEN {"NONE"}
  ELSE {"NONE", "OK"} \cup (IF WR_ERRORS THEN {"ERROR"} ELSE {})

\* The second beat of a response frame, which carries tlast, is taken.
RespFrameEnds(tready) ==
  tx_state = "TX_RESP" /\ tx_beat_count >= 1 /\ MuxReady(0, tready)

\* History of the step.
HistStep(rx, tready) ==
  /\ started' = IF RxCmdStart(rx) THEN 0 ELSE IF PktStart THEN started + 1 ELSE started
  /\ done' = IF RxCmdStart(rx) THEN 0 ELSE IF TxPktDone THEN done + 1 ELSE done
  /\ granted' = IF RxCmdStart(rx) THEN 0
                ELSE IF RxCreditValid(rx) THEN rx.abs ELSE granted
  /\ owed' = (owed + (IF RxRespReq(rx) \/ RxStatusReq(rx) THEN 1 ELSE 0))
                   - (IF RespFrameEnds(tready) THEN 1 ELSE 0)

\* One clock cycle.
Clock(rx, tready, wr_go, wr_last, wr_status, word) ==
  /\ RegsStep(rx, RespDone(tready), TxPktDone)
  /\ TxStep(RxCmdStart(rx), StartData, seq_num, RdPktSize,
            tready, rd_unpack_valid, RdAxisTlast)
  /\ SchStep(RxCmdStart(rx), RxRetxReq(rx), IF rx.type = "NACK" THEN rx.seq ELSE 0,
             PktStart, seq_num, wr_go, wr_last, wr_status, word, DataInTready(tready))
  /\ HistStep(rx, tready)

Init ==
  /\ RegsInit /\ TxInit /\ SchInit
  /\ started = 0 /\ done = 0 /\ granted = 0 /\ owed = 0

\* An input is free only in the states in which some register reads it.
When(cond) == IF cond THEN BOOLEAN ELSE {FALSE}

Cycle(tready, word, wr_go, wr_last, wr_status) ==
  \E rx \in RxEvents(wr_go) : Clock(rx, tready, wr_go, wr_last, wr_status, word)

TreadyChoices == When(tx_state /= "TX_IDLE")
WordChoices == When(dma_rd_left > 0)
WrGoChoices == When(wr_state /= "WR_IDLE" \/ SinkDescAccepted(TRUE))
WrLastChoices == When(wr_state = "WR_PACK")

Next ==
  \E tready \in TreadyChoices, word \in WordChoices, wr_go \in WrGoChoices,
     wr_last \in WrLastChoices, wr_status \in WrStatuses :
    Cycle(tready, word, wr_go, wr_last, wr_status)

Spec == Init /\ [][Next]_vars

\* The clock: a cycle in which no packet ends and no request is made (a packet
\* takes several beats, so such cycles recur whatever the host does).  None of
\* the fairness conditions below obliges the host to send anything.
ClockRuns ==
  \E tready \in TreadyChoices, word \in WordChoices, wr_go \in WrGoChoices,
     wr_last \in WrLastChoices, wr_status \in WrStatuses :
    Clock(NoRx, tready, wr_go, wr_last, wr_status, word)

\* What the surroundings keep doing: the UDP stack takes beats that are
\* offered, the DMA engines answer, the source delivers data and its packets end.
BeatOffered ==
  \/ tx_state = "TX_RESP" /\ MuxReady(0, TRUE)
  \/ tx_state = "TX_DATA_HDR" /\ MuxReady(1, TRUE)
  \/ tx_state = "TX_DATA" /\ MuxReady(1, TRUE) /\ rd_unpack_valid

OutputAccepts ==
  \E word \in WordChoices, wr_go \in WrGoChoices, wr_last \in WrLastChoices,
     wr_status \in WrStatuses :
    BeatOffered /\ Cycle(TRUE, word, wr_go, wr_last, wr_status)

DmaReadAnswers ==
  \E tready \in TreadyChoices, wr_go \in WrGoChoices, wr_last \in WrLastChoices,
     wr_status \in WrStatuses :
    /\ WordTaken(TRUE, DataInTready(tready))
    /\ Cycle(tready, TRUE, wr_go, wr_last, wr_status)

DmaWriteAnswers ==
  \E tready \in TreadyChoices, word \in WordChoices, wr_go \in WrGoChoices,
     wr_last \in WrLastChoices, wr_status \in WrStatuses \ {"NONE"} :
    Cycle(tready, word, wr_go, wr_last, wr_status)

SourceDelivers ==
  \E tready \in TreadyChoices, word \in WordChoices, wr_last \in WrLastChoices,
     wr_status \in WrStatuses :
    TRUE \in WrGoChoices /\ Cycle(tready, word, TRUE, wr_last, wr_status)

SourcePacketEnds ==
  \E tready \in TreadyChoices, word \in WordChoices, wr_status \in WrStatuses :
    wr_state = "WR_PACK" /\ Cycle(tready, word, TRUE, TRUE, wr_status)

FairSpec ==
  /\ Spec
  /\ WF_vars(ClockRuns)
  /\ WF_vars(OutputAccepts) /\ WF_vars(DmaReadAnswers) /\ WF_vars(DmaWriteAnswers)
  /\ WF_vars(SourceDelivers) /\ SF_vars(SourcePacketEnds)

-----------------------------------------------------------------------------
TypeOK ==
  /\ RegsTypeOK /\ TxTypeOK /\ SchTypeOK
  /\ started \in Nat /\ done \in Nat /\ granted \in Nat
  /\ owed \in Int

\* ludp_protocol_tx.sv starts a live packet only within the credit: counted
\* without wrap-around, the packets started in a session never exceed the
\* absolute credit the host has granted in it ("One credit = One DATA packet",
\* LUDP_SPEC 2), although every register compared on the way is narrow.
CreditSafe == started <= granted

\* The registers, FSMs and scheduler implement the abstract credit stream:
\* one packet at a time, numbered without gaps, each within the credit.
Stream == INSTANCE CreditStream WITH enabled <- f2h_tx_enabled
ImplementsStream == Stream!Spec

\* The read the scheduler has under way is of a live packet.
LiveRead == sch_state = "SCH_READING" /\ ~sch_is_retx

\* Beats of the current DMA word that the transmit FSM has still to take.
UnpackedBeats == IF rd_unpack_valid THEN RATIO - rd_unpack_idx ELSE 0

\* The counts behind the registers: seq_num and credit_limit stand for the
\* unbounded done and granted, which are never far enough apart for the
\* signed comparison to be wrong, and exactly the live read under way is
\* started and not done.
CountsAgree ==
  /\ seq_num = WrapSeq(done) /\ credit_limit = WrapSeq(granted)
  /\ started = IF LiveRead THEN done + 1 ELSE done
  /\ granted <= done + WINDOW

\* A live read ends with one rd_done_pulse: the beats taken, the beats in the
\* unpack register and the words still to come from the DMA make up a packet
\* until the last beat has gone, and nothing is left in the read FSM then.
LiveReadAccounted ==
  LiveRead =>
    \/ /\ rd_state = "RD_DESC" /\ ~rd_unpack_valid /\ ~rd_done_pulse
       /\ rd_axis_total_beats = PktBeats /\ rd_axis_beat_count = 0
    \/ /\ rd_state = "RD_DATA" /\ ~rd_done_pulse /\ dma_rd_left > 0
       /\ rd_axis_total_beats = PktBeats
       /\ rd_axis_beat_count + UnpackedBeats + dma_rd_left * RATIO = PktBeats
    \/ /\ rd_state = "RD_IDLE" /\ rd_unpack_valid /\ ~rd_done_pulse
       /\ rd_axis_total_beats = PktBeats
       /\ rd_axis_beat_count + UnpackedBeats = PktBeats
    \/ rd_state = "RD_IDLE" /\ ~rd_unpack_valid /\ rd_done_pulse

\* What a live read needs when it begins: no leftover of an earlier one, and
\* a size in every block it may be pointed at (which it keeps).
ReadsBeginClean ==
  /\ ~rd_clear_pending
  /\ \A b \in Blocks : blk_state[b] /= "EMPTY" => blk_size[b] = PktBeats
  /\ retx_pending => blk_size[retx_pending_idx] = PktBeats
  /\ LiveRead => rd_blk_idx = tx_rd_idx /\ blk_size[rd_blk_idx] = PktBeats
  /\ sch_state = "SCH_IDLE" /\ ~sch_is_retx => ~RdBusy /\ ~rd_done_pulse

\* The inductive invariant behind CreditSafe and ImplementsStream.
StreamInv == CountsAgree /\ CreditSafe /\ LiveReadAccounted /\ ReadsBeginClean

\* Every accepted command or status request is answered exactly once: while
\* resp_ongoing is set one response is due, otherwise none is.  Commands that
\* arrive in between are skipped, never executed silently.
OneResponsePerRequest == owed = IF resp_ongoing THEN 1 ELSE 0

\* Its strengthening: the transmit FSM sends a response only for a latched one.
ResponseInv == OneResponsePerRequest /\ (tx_state = "TX_RESP" => resp_ongoing)

\* A DATA frame carries the packet its header names: every beat the read FSM
\* offers to a frame with sequence number s is of the s-th packet the source
\* delivered in the session, through write FSM, DMA, memory and read FSM.
PayloadMatchesSeq ==
  tx_state = "TX_DATA" /\ rd_unpack_valid => rd_unpack_pkt = tx_header.seq

\* The last beat of a DATA frame comes exactly when the header's length says.
LengthMatchesHeader ==
  tx_state = "TX_DATA" /\ rd_unpack_valid =>
    (RdAxisTlast <=> tx_payload_sent + 1 = tx_header.size)

\* A block the DMA is writing is neither offered for sending nor being read.
WriteExcludesRead ==
  \A i \in DOMAIN wr_queue :
    /\ blk_state[wr_queue[i].tag] = "FILL"
    /\ dma_rd_left > 0 => dma_rd_blk /= wr_queue[i].tag

\* Transmit FSM and scheduler agree on whether a packet is under way.
TxAndSchedulerInStep ==
  tx_state \in {"TX_DATA_HDR", "TX_DATA"} <=> (sch_state = "SCH_READING" /\ ~rd_done_pulse)

\* A latched response is sent ("immediately after receiving and processing a
\* Posted CMD packet", LUDP_SPEC 3.4).
ResponseSent == resp_ongoing ~> ~resp_ongoing

\* While START is in force and credit is left, packets keep being completed:
\* no mix of commands, status requests and credits starves the data.
DataFlows == F2hTxOk ~> (TxPktDone \/ ~F2hTxOk)

\* Once the host has stopped asking for retransmissions, live packets flow
\* again ("Resumes Live Mode", LUDP_SPEC 4.1).
LiveModeResumes == <>[](~retx_pending) => DataFlows
=============================================================================
