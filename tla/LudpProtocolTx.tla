--------------------------- MODULE LudpProtocolTx ---------------------------
(***************************************************************************)
(* The transmit FSM of rtl/ludp_protocol_tx.sv.  It sends, over the two    *)
(* ports of the frame multiplexer, a two-beat response (port 0) or a       *)
(* two-beat DATA header followed by the beats of the scheduler's stream    *)
(* (port 1).  Sizes are counted in 64-bit beats.                           *)
(***************************************************************************)
EXTENDS LudpProtocol

VARIABLES
  tx_state,               \* TX_IDLE, TX_RESP, TX_DATA_HDR or TX_DATA
  tx_beat_count,          \* header beats already sent
  tx_header,              \* the header latched when the frame was started;
                          \* NoHeader between frames, when nothing reads it
  tx_payload_sent,        \* payload beats already sent
  mux_lock                \* port whose frame holds the multiplexer, or FREE

txVars == <<tx_state, tx_beat_count, tx_header, tx_payload_sent, mux_lock>>

TxStates == {"TX_IDLE", "TX_RESP", "TX_DATA_HDR", "TX_DATA"}

FREE == 2       \* mux_lock: no frame in progress (0: responses, 1: data)

-----------------------------------------------------------------------------
\* Mutant: a packet is started when credit_limit and seq_num are equal.
TxOkAtLimit == f2h_tx_enabled /\ (credit_limit = seq_num \/ SeqGT(credit_limit, seq_num))

F2hTxOk == f2h_tx_enabled /\ SeqGT(credit_limit, seq_num)

TxPktStart(retx_found, tx_pkt_ready, sch_ready) ==
  /\ tx_state = "TX_IDLE" /\ ~resp_ongoing /\ ~retx_found
  /\ tx_pkt_ready /\ F2hTxOk /\ sch_ready

\* tready of multiplexer port n: the port of a frame in progress keeps the
\* multiplexer until the last beat of that frame.  The registers at its inputs
\* and output, which may take the first beat of a waiting frame, are left out.
MuxReady(n, tready) == tready /\ mux_lock \in {n, FREE}

DataInTready(tready) == tx_state = "TX_DATA" /\ MuxReady(1, tready)

\* Mutant: the response is taken for sent with its first beat.
RespDoneEarly(tready) == tx_state = "TX_RESP" /\ MuxReady(0, tready)

RespDone(tready) == tx_state = "TX_RESP" /\ tx_beat_count >= 1 /\ MuxReady(0, tready)

RespHeader ==
  [type |-> IF resp.is_cpl THEN "CMD_CPL" ELSE "CMD_ACK",
   seq |-> 0, size |-> 0, opcode |-> resp.opcode]

DataHeader(seq, size) ==
  [type |-> "DATA", seq |-> seq, size |-> size, opcode |-> "NONE"]

NoHeader == [type |-> "NONE", seq |-> 0, size |-> 0, opcode |-> "NONE"]

-----------------------------------------------------------------------------
TxInit ==
  /\ tx_state = "TX_IDLE"
  /\ tx_beat_count = 0
  /\ tx_header = NoHeader
  /\ tx_payload_sent = 0
  /\ mux_lock = FREE

TxReset ==
  /\ tx_state' = "TX_IDLE"
  /\ tx_beat_count' = 0
  /\ tx_header' = NoHeader
  /\ tx_payload_sent' = 0

\* TX_IDLE: a pending response goes first, then a retransmission (which does
\* not wait for sch_ready), then a live packet within the credit.
TxIdle(start_data, rd_pkt_seq, rd_pkt_size) ==
  /\ tx_state = "TX_IDLE"
  /\ tx_beat_count' = 0
  /\ tx_payload_sent' = 0
  /\ \/ /\ resp_ongoing
        /\ tx_state' = "TX_RESP"
        /\ tx_header' = RespHeader
     \/ /\ ~resp_ongoing /\ start_data
        /\ tx_state' = "TX_DATA_HDR"
        /\ tx_header' = DataHeader(rd_pkt_seq, rd_pkt_size)
     \/ /\ ~resp_ongoing /\ ~start_data
        /\ UNCHANGED <<tx_state, tx_header>>

TxResp(tready) ==
  /\ tx_state = "TX_RESP"
  /\ tx_beat_count' = IF MuxReady(0, tready) THEN tx_beat_count + 1 ELSE tx_beat_count
  /\ IF RespDone(tready)
       THEN tx_state' = "TX_IDLE" /\ tx_header' = NoHeader
       ELSE UNCHANGED <<tx_state, tx_header>>
  /\ UNCHANGED tx_payload_sent

TxDataHdr(tready) ==
  /\ tx_state = "TX_DATA_HDR"
  /\ tx_beat_count' = IF MuxReady(1, tready) THEN tx_beat_count + 1 ELSE tx_beat_count
  /\ tx_state' = IF MuxReady(1, tready) /\ tx_beat_count >= 1 THEN "TX_DATA" ELSE "TX_DATA_HDR"
  /\ UNCHANGED <<tx_header, tx_payload_sent>>

TxData(tready, data_in_tvalid, data_in_tlast) ==
  /\ tx_state = "TX_DATA"
  /\ UNCHANGED tx_beat_count
  /\ IF data_in_tvalid /\ DataInTready(tready)
       THEN IF data_in_tlast
              THEN tx_state' = "TX_IDLE" /\ tx_header' = NoHeader /\ UNCHANGED tx_payload_sent
              ELSE tx_payload_sent' = tx_payload_sent + 1 /\ UNCHANGED <<tx_state, tx_header>>
       ELSE UNCHANGED <<tx_state, tx_header, tx_payload_sent>>

\* Mutant: the last beat of a DATA frame reaches the multiplexer without tlast.
MuxDataWithoutTlast(tready, data_in_tvalid, data_in_tlast) ==
  mux_lock' =
    IF tx_state = "TX_RESP" /\ MuxReady(0, tready)
      THEN IF tx_beat_count >= 1 THEN FREE ELSE 0
    ELSE IF \/ tx_state = "TX_DATA_HDR" /\ MuxReady(1, tready)
            \/ DataInTready(tready) /\ data_in_tvalid
      THEN 1
    ELSE mux_lock

\* The beat the FSM hands over in this cycle: its port and whether it is the
\* last one of its frame.  The arbiter of the multiplexer holds its grant
\* from the first beat of a frame to the last.
MuxStep(tready, data_in_tvalid, data_in_tlast) ==
  mux_lock' =
    IF tx_state = "TX_RESP" /\ MuxReady(0, tready)
      THEN IF tx_beat_count >= 1 THEN FREE ELSE 0
    ELSE IF \/ tx_state = "TX_DATA_HDR" /\ MuxReady(1, tready)
            \/ DataInTready(tready) /\ data_in_tvalid
      THEN IF tx_state = "TX_DATA" /\ data_in_tlast THEN FREE ELSE 1
    ELSE mux_lock

\* One clock of the transmit FSM; cmd_start_req resets it.
TxStep(cmd_start_req, start_data, rd_pkt_seq, rd_pkt_size, tready, data_in_tvalid, data_in_tlast) ==
  /\ MuxStep(tready, data_in_tvalid, data_in_tlast)
  /\ \/ cmd_start_req /\ TxReset
     \/ /\ ~cmd_start_req
        /\ \/ TxIdle(start_data, rd_pkt_seq, rd_pkt_size)
           \/ TxResp(tready)
           \/ TxDataHdr(tready)
           \/ TxData(tready, data_in_tvalid, data_in_tlast)

TxTypeOK ==
  /\ tx_state \in TxStates
  /\ tx_beat_count \in 0 .. (IF tx_state \in {"TX_RESP", "TX_DATA_HDR"} THEN 1 ELSE 2)
  /\ tx_header \in [type : {"NONE", "DATA", "CMD_ACK", "CMD_CPL"}, seq : SeqNums,
                    size : Nat, opcode : Opcodes \cup {"NONE", "STATUS"}]
  /\ tx_payload_sent \in Nat
  /\ mux_lock \in {0, 1, FREE}
=============================================================================
