---------------------------- MODULE LudpProtocol ----------------------------
(***************************************************************************)
(* The registers of rtl/ludp_protocol.sv and the packet decoder of         *)
(* rtl/ludp_protocol_rx.sv that drives them.  One step is one clock cycle; *)
(* rx is what the decoder sees in that cycle: the last beat of a complete, *)
(* well-formed packet, a status request of the user logic, or nothing.     *)
(* Command ids, arguments and register data are left out: no control       *)
(* decision reads them.                                                    *)
(***************************************************************************)
EXTENDS SeqArith

VARIABLES
  seq_num,          \* sequence number of the next DATA packet
  credit_limit,     \* absolute credit: seq_num may run up to it
  f2h_tx_enabled,   \* START/STOP state
  resp_ongoing,     \* a CMD_ACK or CMD_CPL is latched and not yet sent
  resp              \* the latched response; NoResp once it is sent (nothing
                    \* reads the registers before the next one overwrites them)

regVars == <<seq_num, credit_limit, f2h_tx_enabled, resp_ongoing, resp>>

CONSTANT REQUESTS   \* what asks for responses: host commands, the user's STATUS

Opcodes == {"START", "STOP", "READ"}

ASSUME RequestsAssumption == REQUESTS \subseteq Opcodes \cup {"STATUS"}

NoRx == [type |-> "NONE"]
\* The host posts START and STOP and asks for a completion of READ.
CmdPackets == {[type |-> "CMD", opcode |-> o, posted |-> o /= "READ"] : o \in REQUESTS \cap Opcodes}
NackPackets == [type : {"NACK"}, seq : SeqNums]
StatusRequests == {[type |-> o] : o \in REQUESTS \cap {"STATUS"}}

NoResp == [opcode |-> "NONE", is_cpl |-> FALSE]
Responses == [opcode : Opcodes \cup {"NONE", "STATUS"}, is_cpl : BOOLEAN]

-----------------------------------------------------------------------------
\* Combinational outputs of the receive decoder.

\* Mutant: the command is taken even though a response is still pending.
RespReqAlways(rx) == rx.type = "CMD"

RxRespReq(rx) == rx.type = "CMD" /\ ~resp_ongoing

RxCmdStart(rx) == RxRespReq(rx) /\ rx.opcode = "START"

RxCmdStop(rx) == RxRespReq(rx) /\ rx.opcode = "STOP"

RxRetxReq(rx) == rx.type = "NACK"

\* Mutant: a stale or repeated CREDIT is accepted as well.
CreditAlways(rx) == rx.type = "CREDIT"

RxCreditValid(rx) == rx.type = "CREDIT" /\ SeqGT(rx.seq, credit_limit)

RxStatusReq(rx) == rx.type = "STATUS" /\ ~resp_ongoing

RxResp(rx) ==
  IF rx.type = "CMD" THEN [opcode |-> rx.opcode, is_cpl |-> ~rx.posted]
                     ELSE [opcode |-> "STATUS", is_cpl |-> TRUE]

-----------------------------------------------------------------------------
RegsInit ==
  /\ seq_num = 0
  /\ credit_limit = 0
  /\ f2h_tx_enabled = FALSE
  /\ resp_ongoing = FALSE
  /\ resp = NoResp

\* Mutant: START leaves the credit of the previous session in place.
RegsKeepCredit(rx, resp_done, tx_pkt_done) ==
  /\ seq_num' = IF RxCmdStart(rx) THEN 0
                ELSE IF tx_pkt_done THEN SeqInc(seq_num) ELSE seq_num
  /\ credit_limit' = IF RxCreditValid(rx) THEN rx.seq ELSE credit_limit
  /\ f2h_tx_enabled' = (RxCmdStart(rx) \/ (f2h_tx_enabled /\ ~RxCmdStop(rx)))
  /\ IF RxRespReq(rx) \/ RxStatusReq(rx)
       THEN resp_ongoing' = TRUE /\ resp' = RxResp(rx)
       ELSE /\ resp_ongoing' = (resp_ongoing /\ ~resp_done)
            /\ resp' = IF resp_done THEN NoResp ELSE resp

\* The register block: START overrides the increment of a packet that
\* completes in the same cycle, a new response is latched only when idle.
RegsStep(rx, resp_done, tx_pkt_done) ==
  /\ seq_num' = IF RxCmdStart(rx) THEN 0
                ELSE IF tx_pkt_done THEN SeqInc(seq_num) ELSE seq_num
  /\ credit_limit' = IF RxCmdStart(rx) THEN 0
                     ELSE IF RxCreditValid(rx) THEN rx.seq ELSE credit_limit
  /\ f2h_tx_enabled' = (RxCmdStart(rx) \/ (f2h_tx_enabled /\ ~RxCmdStop(rx)))
  /\ IF RxRespReq(rx) \/ RxStatusReq(rx)
       THEN resp_ongoing' = TRUE /\ resp' = RxResp(rx)
       ELSE /\ resp_ongoing' = (resp_ongoing /\ ~resp_done)
            /\ resp' = IF resp_done THEN NoResp ELSE resp

RegsTypeOK ==
  /\ seq_num \in SeqNums
  /\ credit_limit \in SeqNums
  /\ f2h_tx_enabled \in BOOLEAN
  /\ resp_ongoing \in BOOLEAN
  /\ resp \in Responses
=============================================================================
