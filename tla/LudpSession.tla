----------------------------- MODULE LudpSession -----------------------------
(***************************************************************************)
(* The host end to end: LudpHost, the network and the FPGA reduced to what *)
(* it promises (CreditStream), with the messages it reads and writes.  The *)
(* FPGA side is a step per packet instead of a step per clock cycle;       *)
(* LudpFpga has the detail.                                                *)
(***************************************************************************)
EXTENDS LudpHost

CONSTANTS
  STALE,          \* credits an earlier run may have left an FPGA that it never stopped
  MAX_PKTS,       \* bound: DATA packets of one FPGA session
  LOSE,           \* types of packet the network may lose
  REORDER,        \* whether a packet from the FPGA may overtake another
  MAX_FAULTS      \* bound: losses and overtakings

ASSUME SessionAssumption ==
  /\ STALE \subseteq Nat /\ MAX_PKTS \in Nat /\ MAX_FAULTS \in Nat /\ REORDER \in BOOLEAN
  /\ LOSE \subseteq {"DATA", "ACK", "CPL", "CMD", "CREDIT"}

VARIABLES
  f_enabled, f_credit, f_seq,   \* f2h_tx_enabled, credit_limit and seq_num
  f_sending,                    \* a DATA packet is under way
  f_resp,                       \* the latched response, if any
  f_session,                    \* history: STARTs executed for this run
  faults                        \* history: losses and overtakings so far

fpgaVars == <<f_enabled, f_credit, f_seq, f_sending, f_resp, f_session>>
vars == <<hostVars, fpgaVars, faults>>
hostOnly == <<state, recv, poll, app, output>>

-----------------------------------------------------------------------------
\* A packet from the host: commands are skipped while a response is latched,
\* a CREDIT counts if it is larger. A command that wants a completion (READ) is
\* answered with the state of the stream, the others with an ACK.

Response(p) == IF p.opcode = "READ" THEN [type |-> "CPL", id |-> p.id, data |-> {f_enabled}]
               ELSE [type |-> "ACK", id |-> p.id, data |-> {}]

\* Mutant: START keeps the credit of the session before.
FpgaCmdKeepCredit(p) ==
  IF f_resp /= {} THEN UNCHANGED fpgaVars
  ELSE /\ f_resp' = {Response(p)}
       /\ f_enabled' = IF p.opcode \in {"START", "STOP"} THEN p.opcode = "START" ELSE f_enabled
       /\ UNCHANGED f_credit
       /\ IF p.opcode = "START"
            THEN f_seq' = 0 /\ f_sending' = FALSE /\ f_session' = f_session + 1
            ELSE UNCHANGED <<f_seq, f_sending, f_session>>

FpgaCmd(p) ==
  IF f_resp /= {} THEN UNCHANGED fpgaVars
  ELSE /\ f_resp' = {Response(p)}
       /\ f_enabled' = IF p.opcode \in {"START", "STOP"} THEN p.opcode = "START" ELSE f_enabled
       /\ IF p.opcode = "START"
            THEN f_seq' = 0 /\ f_credit' = 0 /\ f_sending' = FALSE /\ f_session' = f_session + 1
            ELSE UNCHANGED <<f_credit, f_seq, f_sending, f_session>>

FpgaCredit(p) ==
  /\ f_credit' = IF p.abs > f_credit THEN p.abs ELSE f_credit
  /\ UNCHANGED <<f_enabled, f_seq, f_sending, f_resp, f_session>>

FpgaReceive ==
  /\ h2f /= <<>>
  /\ IF Head(h2f).type = "CMD" THEN FpgaCmd(Head(h2f)) ELSE FpgaCredit(Head(h2f))
  /\ h2f' = Tail(h2f)
  /\ UNCHANGED <<hostOnly, f2h, faults>>

FpgaRespond ==
  /\ ~f_sending
  /\ \E r \in f_resp : f2h' = Append(f2h, r)
  /\ f_resp' = {}
  /\ UNCHANGED <<hostOnly, h2f, f_enabled, f_credit, f_seq, f_sending, f_session, faults>>

FpgaBegin ==
  /\ f_enabled /\ f_resp = {} /\ ~f_sending /\ f_seq < f_credit
  /\ f_seq < MAX_PKTS
  /\ f_sending' = TRUE
  /\ UNCHANGED <<hostOnly, h2f, f2h, f_enabled, f_credit, f_seq, f_resp, f_session, faults>>

FpgaFinish ==
  /\ f_sending
  /\ f2h' = Append(f2h, [type |-> "DATA", seq |-> f_seq, session |-> f_session])
  /\ f_seq' = f_seq + 1 /\ f_sending' = FALSE
  /\ UNCHANGED <<hostOnly, h2f, f_enabled, f_credit, f_resp, f_session, faults>>

-----------------------------------------------------------------------------
\* The network (external).
Lose ==
  /\ faults < MAX_FAULTS
  /\ \/ f2h /= <<>> /\ Head(f2h).type \in LOSE /\ f2h' = Tail(f2h) /\ UNCHANGED h2f
     \/ h2f /= <<>> /\ Head(h2f).type \in LOSE /\ h2f' = Tail(h2f) /\ UNCHANGED f2h
  /\ faults' = faults + 1
  /\ UNCHANGED <<hostOnly, fpgaVars>>

Overtake ==
  /\ REORDER /\ faults < MAX_FAULTS /\ Len(f2h) >= 2
  /\ f2h' = <<f2h[2], f2h[1]>> \o SubSeq(f2h, 3, Len(f2h))
  /\ faults' = faults + 1
  /\ UNCHANGED <<hostOnly, h2f, fpgaVars>>

-----------------------------------------------------------------------------
\* An FPGA that an earlier run left streaming has credit for a few more packets.
Init ==
  /\ HostInit
  /\ f_credit \in STALE
  /\ f_enabled = (f_credit > 0) /\ f_seq = 0 /\ f_sending = FALSE
  /\ f_resp = {} /\ f_session = 0 /\ faults = 0

\* The end of the process ends its threads.
Alive == app.pc \notin {"done", "exit"} /\ UNCHANGED <<fpgaVars, faults>>

Fpga == FpgaReceive \/ FpgaRespond \/ FpgaBegin \/ FpgaFinish

Next == (Alive /\ (RecvThread \/ PollThread \/ AppThread)) \/ Fpga \/ Lose \/ Overtake

Spec == Init /\ [][Next]_vars

\* Every thread is scheduled and the FPGA works; the acquisition may last for
\* ever, so nothing obliges AppDurationOver, nor anyone to type a command.
FairSpec ==
  /\ Spec
  /\ WF_vars(Alive /\ RecvThread) /\ WF_vars(Alive /\ PollThread)
  /\ WF_vars(Alive /\ AppThread /\ app.pc \notin {"run", "prompt"})
  /\ WF_vars(FpgaReceive) /\ WF_vars(FpgaRespond) /\ WF_vars(FpgaBegin) /\ WF_vars(FpgaFinish)

-----------------------------------------------------------------------------
RecvLabels == {"loop", "recv", "equal", "greater", "push", "store", "deliver", "advance", "purge",
               "drain", "take", "drain_advance", "credit", "send", "set_credit", "dead"}
PollLabels == {"sleep", "credit", "send", "set_credit", "gap", "purge", "skip", "drain",
               "take", "drain_advance", "skip_credit", "skip_send", "skip_set_credit",
               "keepalive", "dead"}
AppLabels == {"open", "drain", "send", "wait", "credit", "run", "prompt", "stop", "join",
              "flush", "done", "exit"} \cup DOMAIN ResetNext
Ops == {"START", "STOP", "READ", "WRITE"}
IoLabels == {"none", "write", "clear"}

Packets == [type : {"DATA"}, seq : Nat, session : Nat]
Answers == [type : {"ACK", "CPL"}, id : Nat, data : SUBSET BOOLEAN]
FromHost == [type : {"CREDIT"}, abs : Nat] \cup [type : {"CMD"}, opcode : Ops, id : Nat]

TypeOK ==
  /\ expected_seq \in Nat /\ abs_credit \in Nat
  /\ ooo_heap \subseteq Nat /\ out_of_order \subseteq Packets
  /\ received \in BOOLEAN /\ running \in BOOLEAN
  /\ recv \in [pc : RecvLabels, timed : BOOLEAN, credit : Nat, io : IoLabels,
               pkt : Packets \cup {NoPacket} \cup [type : {"SEQ"}, seq : Nat]]
  /\ poll \in [pc : PollLabels, last_expected : Nat, stalled : BOOLEAN,
               skip_to : Nat, credit : Nat, quiet : 0 .. 2, io : IoLabels]
  /\ app \in [mode : MODES, pc : AppLabels, op : Ops \cup {"NONE"}, attempt : 0 .. RETRIES,
              next_id : Nat, acked : BOOLEAN, data : SUBSET BOOLEAN, cmds : 0 .. MAX_CMDS,
              read : SUBSET BOOLEAN, believes : SUBSET BOOLEAN, at_stop : Nat]
  /\ delivered \in Seq(Packets) /\ write_buf \in Seq(Packets) /\ file \in Seq(Packets)
  /\ h2f \in Seq(FromHost) /\ f2h \in Seq(Packets \cup Answers)
  /\ f_enabled \in BOOLEAN /\ f_credit \in Nat /\ f_seq \in Nat
  /\ f_sending \in BOOLEAN /\ f_resp \subseteq Answers /\ f_session \in Nat /\ faults \in Nat

\* Whatever the two threads do to the heap and the dict of the reorder buffer,
\* a number in the heap has its packet in the dict, except between the two
\* statements with which _handle_data stores one.
HeapEntriesBuffered ==
  recv.pc /= "store" => ooo_heap \subseteq {p.seq : p \in out_of_order}

\* As long as DATA packets are neither lost nor overtaken by one another, no
\* packet is skipped or delivered twice, whatever commands, ACKs and CREDITs are
\* lost, late or repeated: delivery is the sequence 0, 1, ...
CompleteDelivery == \A i \in 1 .. Len(delivered) : delivered[i].seq = i - 1

\* Flow control: the FPGA never sends, nor is allowed to send, more than the
\* window beyond what the host has processed, with two threads granting credit
\* from values that may be stale when they are sent. (DATA packets may be lost;
\* that they overtake one another is excluded: skip_to may then be older than
\* expected_seq when the polling thread stores it.)
FlowControl == f_seq <= expected_seq + WINDOW_SIZE /\ f_credit <= expected_seq + WINDOW_SIZE

\* A START or STOP that _send_cmd_wait_ack reports as acknowledged has taken
\* effect and still holds when the next command is about to be sent, whichever
\* attempts and acknowledgements were lost or came late on the way.
AckedCommandHolds ==
  app.acked /\ app.op \in {"START", "STOP"} => f_enabled = (app.op = "START")

\* A register read that was answered returns a value, and after an acknowledged
\* START or STOP what that command did: read_reg never takes the late answer to
\* an earlier command for its own.
ReadSeesCommands ==
  app.pc = "prompt" /\ app.op = "READ" /\ app.acked =>
    app.read /= {} /\ \A v \in app.read, b \in app.believes : v = b

\* The output file of a finished acquisition holds the payloads in the order of
\* delivery, each once, and all that were delivered before stop(), whichever
\* thread delivered them and wherever stop() met it ("the concatenation of all
\* DATA packet payloads", sw/README.md). A packet taken after the join timed out
\* may miss the file, and a receive thread it finds in a flush may spoil it.
SavedAll ==
  app.pc = "done" /\ recv.io = "none" =>
    /\ app.at_stop <= Len(file) /\ Len(file) <= Len(delivered)
    /\ file = SubSeq(delivered, 1, Len(file))

\* The receive thread ends only when the host stops: the one exception it leaves
\* its loop for is "Socket closed" (ludp_host.py:391).
ReceiverOutlivesDrain == recv.pc = "dead" => ~running

\* The FPGA as the session sees it keeps the promise that LudpFpga was shown
\* to keep.
Stream == INSTANCE CreditStream WITH
            enabled <- f_enabled, granted <- f_credit, done <- f_seq,
            started <- IF f_sending THEN f_seq + 1 ELSE f_seq
PeerKeepsPromise == Stream!Spec

\* As long as the acquisition runs, all packets are delivered in the end
\* (LUDP_SPEC 4.2, Lost CREDIT Handling: the FPGA "will eventually receive the
\* updated Abs_Credit and resume transmission").
AllDelivered == (app.pc = "run") ~> (Len(delivered) = MAX_PKTS \/ app.pc /= "run")

\* Packets buffered behind a gap are delivered in the end, because _poll_loop
\* skips the gap.
GapsAreSkipped == (out_of_order /= {}) ~> (out_of_order = {} \/ app.pc /= "run")

\* All packets delivered in one acquisition come from one session of the FPGA:
\* the application "reads contiguous, reliable data" (LUDP_SPEC 4.2).
OneSession == \A i, j \in DOMAIN delivered : delivered[i].session = delivered[j].session
=============================================================================
