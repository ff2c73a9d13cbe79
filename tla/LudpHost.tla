------------------------------ MODULE LudpHost ------------------------------
(***************************************************************************)
(* The host of sw/ludp_host.py: the receive thread, the polling thread and *)
(* the main thread (run_logger or run_interactive) over the state they     *)
(* share.  A step is one statement that reads or writes shared state (the  *)
(* interpreter may switch threads between any two of them); self.lock      *)
(* guards only counters and pending_cmds and is part of the steps that     *)
(* take it.                                                                *)
(*                                                                         *)
(* The sockets are two FIFOs: h2f towards the FPGA, f2h from it.  Times    *)
(* are counted in polls.  A packet keeps its sequence number and, for the  *)
(* properties, the FPGA session that produced it; its payload is one unit  *)
(* of the output file.  Sequence numbers are Python integers.              *)
(***************************************************************************)
EXTENDS Integers, Sequences, FiniteSets

CONSTANTS
  WINDOW_SIZE,        \* --window-size
  CREDIT_INTERVAL,    \* --credit-interval
  RETRIES,            \* attempts of _send_cmd_wait_ack (3 in the source)
  FLUSH_THRESHOLD,    \* payloads buffered before a write (4 MB in the source)
  MODES,              \* --mode: subset of {"logger", "interactive"}
  MAX_CMDS,           \* bound: commands typed into the interactive shell
  CHANNEL_CAP         \* bound: packets in flight towards the FPGA

ASSUME HostAssumption ==
  /\ WINDOW_SIZE \in Nat \ {0} /\ CREDIT_INTERVAL \in Nat \ {0}
  /\ RETRIES \in Nat \ {0} /\ FLUSH_THRESHOLD \in Nat \ {0}
  /\ MODES \subseteq {"logger", "interactive"} /\ MAX_CMDS \in Nat
  /\ CHANNEL_CAP \in Nat \ {0}

VARIABLES
  expected_seq, abs_credit,
  ooo_heap, out_of_order,     \* sequence numbers in the heap; packets in the dict
  received,                   \* stats.packets_received > 0
  running,
  recv,                       \* receive thread: pc and locals
  poll,                       \* polling thread: pc and locals
  app,                        \* main thread: pc and locals
  delivered,                  \* history: what _deliver was called with, in order
  write_buf, file,            \* run_logger's buffer of payloads, and the output file
  h2f, f2h

bufVars == <<ooo_heap, out_of_order>>
state == <<expected_seq, abs_credit, bufVars, received, running>>
output == <<delivered, write_buf, file>>
net == <<h2f, f2h>>
hostVars == <<state, recv, poll, app, output, net>>

Credit(n) == [type |-> "CREDIT", abs |-> n]
Cmd(op, id) == [type |-> "CMD", opcode |-> op, id |-> id]
NoPacket == [type |-> "NONE"]

HeapMin == CHOOSE s \in ooo_heap : \A t \in ooo_heap : s <= t

\* sock.sendto
SendTo(msg) == Len(h2f) < CHANNEL_CAP /\ h2f' = Append(h2f, msg) /\ UNCHANGED f2h

\* Mutant: the window is counted from the highest packet seen.
NewCreditHighest ==
  LET seen == {p.seq : p \in out_of_order} \cup {expected_seq}
  IN WINDOW_SIZE + CHOOSE s \in seen : \A t \in seen : t <= s

NewCredit == expected_seq + WINDOW_SIZE

\* _deliver; the logger's on_data appends the payload. The shell has no on_data.
Deliver(pkt) ==
  /\ delivered' = Append(delivered, pkt)
  /\ write_buf' = IF app.mode = "logger" THEN Append(write_buf, pkt) ELSE write_buf
  /\ UNCHANGED file

\* What on_data still has to do in the thread that called it.
IoAfterDeliver ==
  IF app.mode = "logger" /\ Len(write_buf) + 1 >= FLUSH_THRESHOLD THEN "write" ELSE "none"

\* The write of the joined buffer and, as a statement of its own, the clear.
Flush(io) ==
  \/ io = "write" /\ file' = file \o write_buf /\ UNCHANGED write_buf
  \/ io = "clear" /\ write_buf' = <<>> /\ UNCHANGED file

AfterFlush(io) == IF io = "write" THEN "clear" ELSE "none"

\* The logger's first step is drain_socket; the shell starts at its prompt.
HostInit ==
  /\ expected_seq = 0 /\ abs_credit = WINDOW_SIZE
  /\ ooo_heap = {} /\ out_of_order = {}
  /\ received = FALSE /\ running = TRUE
  /\ recv = [pc |-> "loop", timed |-> FALSE, pkt |-> NoPacket, credit |-> 0, io |-> "none"]
  /\ poll = [pc |-> "sleep", last_expected |-> 0, stalled |-> FALSE,
             skip_to |-> 0, credit |-> 0, quiet |-> 0, io |-> "none"]
  /\ \E m \in MODES :
       app = [mode |-> m, pc |-> IF m = "logger" THEN "open" ELSE "prompt", op |-> "NONE",
              attempt |-> 0, next_id |-> 1, acked |-> FALSE, data |-> {}, cmds |-> 0,
              read |-> {}, believes |-> {}, at_stop |-> 0]
  /\ delivered = <<>> /\ write_buf = <<>> /\ file = <<>>
  /\ h2f = <<>> /\ f2h = <<>>

-----------------------------------------------------------------------------
\* The receive thread.  Every action leaves the other threads' locals alone.

RecvGoto(label) == recv' = [recv EXCEPT !.pc = label]
RecvBack == recv' = [recv EXCEPT !.pc = "loop", !.pkt = NoPacket, !.credit = 0]

\* The loop test and the call of recvfrom, which takes the timeout the socket has
\* at that moment: None, except while drain_socket is at work.
RecvLoop ==
  /\ recv.pc = "loop"
  /\ recv' = IF running THEN [recv EXCEPT !.pc = "recv", !.timed = (app.pc = "drain")]
             ELSE [recv EXCEPT !.pc = "dead"]
  /\ UNCHANGED <<state, poll, app, output, net>>

\* socket.timeout is an OSError: the loop is left as if the socket were closed.
RecvTimeout ==
  /\ recv.pc = "recv" /\ recv.timed /\ f2h = <<>>
  /\ RecvGoto("dead")
  /\ UNCHANGED <<state, poll, app, output, net>>

\* Mutant: any answer ends the wait.
AckOfAnyCmd(p) == app.pc = "wait"

\* Only the command of the current attempt is in pending_cmds.
AckOfPendingCmd(p) == app.pc = "wait" /\ p.id = app.next_id - 1

\* recvfrom returns, and the dispatch on the packet type. A thread that is in
\* recvfrom when running becomes False takes one more packet.
RecvPacket ==
  /\ recv.pc = "recv" /\ f2h /= <<>>
  /\ LET p == Head(f2h) IN
     \/ /\ p.type = "DATA"
        /\ received' = TRUE
        /\ recv' = [recv EXCEPT !.pc = "equal", !.timed = FALSE, !.pkt = p]
        /\ UNCHANGED app
     \/ /\ p.type \in {"ACK", "CPL"}
        /\ app' = IF AckOfPendingCmd(p) THEN [app EXCEPT !.acked = TRUE, !.data = p.data] ELSE app
        /\ recv' = [recv EXCEPT !.pc = "loop", !.timed = FALSE]
        /\ UNCHANGED received
  /\ f2h' = Tail(f2h)
  /\ UNCHANGED <<expected_seq, abs_credit, bufVars, running, poll, output, h2f>>

\* Mutant: an old packet is delivered again.
RecvEqualOrOld ==
  /\ recv.pc = "equal"
  /\ RecvGoto(IF recv.pkt.seq <= expected_seq THEN "deliver" ELSE "greater")
  /\ UNCHANGED <<state, poll, app, output, net>>

RecvEqual ==
  /\ recv.pc = "equal"
  /\ RecvGoto(IF recv.pkt.seq = expected_seq THEN "deliver" ELSE "greater")
  /\ UNCHANGED <<state, poll, app, output, net>>

RecvGreater ==
  /\ recv.pc = "greater"
  /\ IF recv.pkt.seq > expected_seq THEN RecvGoto("push") ELSE RecvBack
  /\ UNCHANGED <<state, poll, app, output, net>>

\* A future packet: first the heap, then the dict.
RecvPush ==
  /\ recv.pc = "push"
  /\ ooo_heap' = IF \E p \in out_of_order : p.seq = recv.pkt.seq
                   THEN ooo_heap ELSE ooo_heap \cup {recv.pkt.seq}
  /\ RecvGoto("store")
  /\ UNCHANGED <<expected_seq, abs_credit, out_of_order, received, running, poll, app, output, net>>

RecvStore ==
  /\ recv.pc = "store"
  /\ out_of_order' = {p \in out_of_order : p.seq /= recv.pkt.seq} \cup {recv.pkt}
  /\ RecvBack
  /\ UNCHANGED <<expected_seq, abs_credit, ooo_heap, received, running, poll, app, output, net>>

\* The packet in order, and those popped from the buffer after it.
RecvDeliver ==
  /\ recv.pc = "deliver"
  /\ Deliver(recv.pkt)
  /\ recv' = [recv EXCEPT !.pc = "advance", !.io = IoAfterDeliver]
  /\ UNCHANGED <<state, poll, app, net>>

RecvFlush ==
  /\ recv.io /= "none" /\ Flush(recv.io)
  /\ recv' = [recv EXCEPT !.io = AfterFlush(@)]
  /\ UNCHANGED <<state, poll, app, delivered, net>>

RecvAdvance ==
  /\ recv.pc \in {"advance", "drain_advance"} /\ recv.io = "none"
  /\ expected_seq' = expected_seq + 1
  /\ RecvGoto(IF recv.pc = "advance" THEN "purge" ELSE "drain")
  /\ UNCHANGED <<abs_credit, bufVars, received, running, poll, app, output, net>>

RecvPurge ==
  /\ recv.pc = "purge"
  /\ IF ooo_heap /= {} /\ HeapMin < expected_seq
       THEN ooo_heap' = ooo_heap \ {HeapMin} /\ UNCHANGED recv
       ELSE RecvGoto("drain") /\ UNCHANGED ooo_heap
  /\ UNCHANGED <<expected_seq, abs_credit, out_of_order, received, running, poll, app, output, net>>

RecvDrain ==
  /\ recv.pc = "drain"
  /\ IF ooo_heap /= {} /\ HeapMin = expected_seq
       THEN /\ ooo_heap' = ooo_heap \ {HeapMin}
            /\ recv' = [recv EXCEPT !.pc = "take", !.pkt = [type |-> "SEQ", seq |-> HeapMin]]
       ELSE RecvGoto("credit") /\ UNCHANGED ooo_heap
  /\ UNCHANGED <<expected_seq, abs_credit, out_of_order, received, running, poll, app, output, net>>

\* out_of_order.pop(seq) raises KeyError, which ends the thread, if seq is absent.
RecvTake ==
  /\ recv.pc = "take"
  /\ LET found == {p \in out_of_order : p.seq = recv.pkt.seq} IN
     IF found = {}
       THEN RecvGoto("dead") /\ UNCHANGED <<out_of_order, output>>
       ELSE /\ \E p \in found : Deliver(p)
            /\ out_of_order' = out_of_order \ found
            /\ recv' = [recv EXCEPT !.pc = "drain_advance", !.io = IoAfterDeliver]
  /\ UNCHANGED <<expected_seq, abs_credit, ooo_heap, received, running, poll, app, net>>

RecvCredit ==
  /\ recv.pc = "credit"
  /\ IF expected_seq % CREDIT_INTERVAL = 0 /\ NewCredit > abs_credit
       THEN recv' = [recv EXCEPT !.pc = "send", !.credit = NewCredit, !.pkt = NoPacket]
       ELSE RecvBack
  /\ UNCHANGED <<state, poll, app, output, net>>

RecvSend ==
  /\ recv.pc = "send" /\ SendTo(Credit(recv.credit))
  /\ RecvGoto("set_credit")
  /\ UNCHANGED <<state, poll, app, output>>

RecvSetCredit ==
  /\ recv.pc = "set_credit"
  /\ abs_credit' = recv.credit
  /\ RecvBack
  /\ UNCHANGED <<expected_seq, bufVars, received, running, poll, app, output, net>>

RecvThread ==
  \/ RecvLoop \/ RecvTimeout \/ RecvPacket \/ RecvEqual \/ RecvGreater \/ RecvPush \/ RecvStore
  \/ RecvDeliver \/ RecvFlush \/ RecvAdvance \/ RecvPurge \/ RecvDrain \/ RecvTake
  \/ RecvCredit \/ RecvSend \/ RecvSetCredit

-----------------------------------------------------------------------------
\* The polling thread.

PollGoto(label) == poll' = [poll EXCEPT !.pc = label]

\* time.sleep, then the refresh of last_data_time: quiet counts the polls since
\* it was set, up to the two after which the keep-alive is due.
PollSleep ==
  /\ poll.pc = "sleep"
  /\ poll' = IF ~running THEN [poll EXCEPT !.pc = "dead"]
             ELSE [poll EXCEPT !.pc = "credit",
                               !.quiet = IF received THEN 0 ELSE IF @ < 2 THEN @ + 1 ELSE 2]
  /\ UNCHANGED <<state, recv, app, output, net>>

\* Mutant: the polling thread never advances the credit.
PollCreditNever ==
  /\ poll.pc = "credit"
  /\ PollGoto("gap")
  /\ UNCHANGED <<state, recv, app, output, net>>

PollCredit ==
  /\ poll.pc = "credit"
  /\ poll' = IF NewCredit > abs_credit
               THEN [poll EXCEPT !.pc = "send", !.credit = NewCredit]
               ELSE [poll EXCEPT !.pc = "gap"]
  /\ UNCHANGED <<state, recv, app, output, net>>

PollSend ==
  /\ poll.pc \in {"send", "skip_send"} /\ SendTo(Credit(poll.credit))
  /\ PollGoto(IF poll.pc = "send" THEN "set_credit" ELSE "skip_set_credit")
  /\ UNCHANGED <<state, recv, app, output>>

PollSetCredit ==
  /\ poll.pc = "set_credit"
  /\ abs_credit' = poll.credit
  /\ poll' = [poll EXCEPT !.pc = "gap", !.credit = 0]
  /\ UNCHANGED <<expected_seq, bufVars, received, running, recv, app, output, net>>

\* Gap detection.  The stall timer of 5 ms is over at the poll after the one
\* that started it (credit_poll_ms is 5 by default).
PollGap ==
  /\ poll.pc = "gap"
  /\ poll' = IF expected_seq /= poll.last_expected
               THEN [poll EXCEPT !.pc = "keepalive", !.last_expected = expected_seq,
                                 !.stalled = FALSE]
             ELSE IF out_of_order = {} THEN [poll EXCEPT !.pc = "keepalive"]
             ELSE IF ~poll.stalled THEN [poll EXCEPT !.pc = "keepalive", !.stalled = TRUE]
             ELSE [poll EXCEPT !.pc = "purge"]
  /\ UNCHANGED <<state, recv, app, output, net>>

PollPurge ==
  /\ poll.pc = "purge"
  /\ \/ /\ ooo_heap = {}
        /\ poll' = [poll EXCEPT !.pc = "sleep", !.stalled = FALSE]
        /\ UNCHANGED ooo_heap
     \/ /\ ooo_heap /= {} /\ HeapMin < expected_seq
        /\ ooo_heap' = ooo_heap \ {HeapMin}
        /\ UNCHANGED poll
     \/ /\ ooo_heap /= {} /\ HeapMin >= expected_seq
        /\ poll' = [poll EXCEPT !.pc = "skip", !.skip_to = HeapMin]
        /\ UNCHANGED ooo_heap
  /\ UNCHANGED <<expected_seq, abs_credit, out_of_order, received, running, recv, app, output, net>>

PollSkip ==
  /\ poll.pc = "skip"
  /\ expected_seq' = poll.skip_to
  /\ PollGoto("drain")
  /\ UNCHANGED <<abs_credit, bufVars, received, running, recv, app, output, net>>

\* Mutant: the number is looked at but not popped.
PollDrainPeek ==
  /\ poll.pc = "drain"
  /\ IF ooo_heap /= {} /\ HeapMin = expected_seq
       THEN poll' = [poll EXCEPT !.pc = "take", !.skip_to = HeapMin]
       ELSE PollGoto("skip_credit")
  /\ UNCHANGED <<state, recv, app, output, net>>

\* skip_to holds the popped number from here on.
PollDrain ==
  /\ poll.pc = "drain"
  /\ IF ooo_heap /= {} /\ HeapMin = expected_seq
       THEN /\ ooo_heap' = ooo_heap \ {HeapMin}
            /\ poll' = [poll EXCEPT !.pc = "take", !.skip_to = HeapMin]
       ELSE PollGoto("skip_credit") /\ UNCHANGED ooo_heap
  /\ UNCHANGED <<expected_seq, abs_credit, out_of_order, received, running, recv, app, output, net>>

PollTake ==
  /\ poll.pc = "take"
  /\ LET found == {p \in out_of_order : p.seq = poll.skip_to} IN
     IF found = {}
       THEN PollGoto("dead") /\ UNCHANGED <<out_of_order, output>>
       ELSE /\ \E p \in found : Deliver(p)
            /\ out_of_order' = out_of_order \ found
            /\ poll' = [poll EXCEPT !.pc = "drain_advance", !.io = IoAfterDeliver]
  /\ UNCHANGED <<expected_seq, abs_credit, ooo_heap, received, running, recv, app, net>>

PollFlush ==
  /\ poll.io /= "none" /\ Flush(poll.io)
  /\ poll' = [poll EXCEPT !.io = AfterFlush(@)]
  /\ UNCHANGED <<state, recv, app, delivered, net>>

PollAdvance ==
  /\ poll.pc = "drain_advance" /\ poll.io = "none"
  /\ expected_seq' = expected_seq + 1
  /\ PollGoto("drain")
  /\ UNCHANGED <<abs_credit, bufVars, received, running, recv, app, output, net>>

\* After a skip the credit is sent unconditionally.
PollSkipCredit ==
  /\ poll.pc = "skip_credit"
  /\ poll' = [poll EXCEPT !.pc = "skip_send", !.credit = NewCredit, !.skip_to = 0]
  /\ UNCHANGED <<state, recv, app, output, net>>

PollSkipSetCredit ==
  /\ poll.pc = "skip_set_credit"
  /\ abs_credit' = poll.credit
  /\ poll' = [poll EXCEPT !.pc = "keepalive", !.credit = 0, !.stalled = FALSE,
                          !.last_expected = expected_seq]
  /\ UNCHANGED <<expected_seq, bufVars, received, running, recv, app, output, net>>

PollKeepAlive ==
  /\ poll.pc = "keepalive"
  /\ IF poll.quiet = 2
       THEN SendTo(Credit(abs_credit)) /\ poll' = [poll EXCEPT !.pc = "sleep", !.quiet = 0]
       ELSE PollGoto("sleep") /\ UNCHANGED net
  /\ UNCHANGED <<state, recv, app, output>>

PollThread ==
  \/ PollSleep \/ PollCredit \/ PollSend \/ PollSetCredit \/ PollGap \/ PollPurge
  \/ PollSkip \/ PollDrain \/ PollTake \/ PollFlush \/ PollAdvance \/ PollSkipCredit
  \/ PollSkipSetCredit \/ PollKeepAlive

-----------------------------------------------------------------------------
\* The main thread.

AppGoto(label) == app' = [app EXCEPT !.pc = label]

\* drain_socket: the timeout is set on the socket that the receive thread uses.
AppSetTimeout ==
  /\ app.pc = "open" /\ AppGoto("drain")
  /\ UNCHANGED <<state, recv, poll, output, net>>

\* Its recvfrom takes a packet, or times out on an empty socket.
AppDrain ==
  /\ app.pc = "drain"
  /\ IF f2h /= <<>> THEN f2h' = Tail(f2h) /\ UNCHANGED app
                    ELSE AppGoto("reset_seq") /\ UNCHANGED f2h
  /\ UNCHANGED <<state, recv, poll, output, h2f>>

ResetNext == [reset_seq |-> "reset_credit", reset_credit |-> "reset_dict",
              reset_dict |-> "reset_heap", reset_heap |-> "reset_stats", reset_stats |-> "send"]

\* reset_state, statement by statement, while both threads run. No command is
\* pending and none has used an id yet.
AppReset ==
  /\ app.pc \in DOMAIN ResetNext
  /\ expected_seq' = IF app.pc = "reset_seq" THEN 0 ELSE expected_seq
  /\ abs_credit' = IF app.pc = "reset_credit" THEN WINDOW_SIZE ELSE abs_credit
  /\ out_of_order' = IF app.pc = "reset_dict" THEN {} ELSE out_of_order
  /\ ooo_heap' = IF app.pc = "reset_heap" THEN {} ELSE ooo_heap
  /\ received' = (app.pc /= "reset_stats" /\ received)
  /\ app' = [app EXCEPT !.pc = ResetNext[@], !.op = IF app.pc = "reset_stats" THEN "START" ELSE @]
  /\ UNCHANGED <<running, recv, poll, output, net>>

\* One attempt of _send_cmd_wait_ack or read_reg: a new id, and only that id is
\* pending.
AppSendCmd ==
  /\ app.pc = "send"
  /\ SendTo(Cmd(app.op, app.next_id))
  /\ app' = [app EXCEPT !.pc = "wait", !.next_id = @ + 1, !.attempt = @ + 1]
  /\ UNCHANGED <<state, recv, poll, output>>

\* What follows a command: the first credit after START, the end of the logger
\* after STOP, the prompt of the shell.
AppAfter(ok) ==
  IF app.op = "START" /\ ok THEN "credit"
  ELSE IF app.mode = "logger" THEN "stop" ELSE "prompt"

\* history: believes is the state of the stream after the last START or STOP, if
\* that was acknowledged; read is the value read_reg has returned.
AppAcked ==
  /\ app.pc = "wait" /\ app.acked
  /\ app' = [app EXCEPT !.pc = AppAfter(TRUE), !.attempt = 0,
                        !.read = app.data, !.data = {},
                        !.believes = IF app.op \in {"START", "STOP"} THEN {app.op = "START"} ELSE @]
  /\ UNCHANGED <<state, recv, poll, output, net>>

\* Mutant: one attempt too many.
AppTimeoutOneMore ==
  /\ app.pc = "wait" /\ ~app.acked
  /\ app' = IF app.attempt > RETRIES \/ app.op = "READ"
              THEN [app EXCEPT !.pc = AppAfter(FALSE), !.attempt = 0]
              ELSE [app EXCEPT !.pc = "send"]
  /\ UNCHANGED <<state, recv, poll, output, net>>

\* The wait runs out: the next attempt, or the end; read_reg has one attempt.
AppTimeout ==
  /\ app.pc = "wait" /\ ~app.acked
  /\ app' = IF app.attempt = RETRIES \/ app.op = "READ"
              THEN [app EXCEPT !.pc = AppAfter(FALSE), !.attempt = 0]
              ELSE [app EXCEPT !.pc = "send"]
  /\ UNCHANGED <<state, recv, poll, output, net>>

AppCredit ==
  /\ app.pc = "credit" /\ SendTo(Credit(abs_credit))
  /\ AppGoto(IF app.mode = "logger" THEN "run" ELSE "prompt")
  /\ UNCHANGED <<state, recv, poll, output>>

\* time.sleep(duration), then send_stop.
AppDurationOver ==
  /\ app.pc = "run"
  /\ app' = [app EXCEPT !.pc = "send", !.op = "STOP", !.acked = FALSE, !.believes = {}]
  /\ UNCHANGED <<state, recv, poll, output, net>>

\* A line typed into the shell: start, stop, read or write ...
AppShellCmd ==
  /\ app.pc = "prompt" /\ app.cmds < MAX_CMDS
  /\ \E op \in {"START", "STOP", "READ", "WRITE"} :
       app' = [app EXCEPT !.pc = "send", !.op = op, !.cmds = @ + 1, !.acked = FALSE, !.read = {},
                          !.believes = IF op \in {"START", "STOP"} THEN {} ELSE @]
  /\ UNCHANGED <<state, recv, poll, output, net>>

\* ... credit n (an absolute number; beyond the window here) ...
AppShellCredit ==
  /\ app.pc = "prompt" /\ app.cmds < MAX_CMDS
  /\ SendTo(Credit(WINDOW_SIZE + 1))
  /\ app' = [app EXCEPT !.cmds = @ + 1, !.acked = FALSE, !.read = {}]
  /\ UNCHANGED <<state, recv, poll, output>>

\* ... quit, Ctrl-C, or an argument that int() or struct.pack rejects.
AppShellQuit ==
  /\ app.pc = "prompt"
  /\ AppGoto("stop")
  /\ UNCHANGED <<state, recv, poll, output, net>>

\* stop(): running = False ...
AppStop ==
  /\ app.pc = "stop"
  /\ running' = FALSE
  /\ app' = [app EXCEPT !.pc = "join", !.at_stop = Len(delivered)]
  /\ UNCHANGED <<expected_seq, abs_credit, bufVars, received, recv, poll, output, net>>

\* Mutant: the threads are not waited for.
AppJoinNot ==
  /\ app.pc = "join"
  /\ AppGoto(IF app.mode = "logger" /\ app.op = "STOP" THEN "flush" ELSE "exit")
  /\ UNCHANGED <<state, recv, poll, output, net>>

\* ... both joins and the close of the socket. A join gives up after two seconds,
\* which only a thread blocked in recvfrom needs. After a failed START the output
\* file is closed without a flush.
AppJoin ==
  /\ app.pc = "join" /\ poll.pc = "dead" /\ recv.pc \in {"recv", "dead"}
  /\ AppGoto(IF app.mode = "logger" /\ app.op = "STOP" THEN "flush" ELSE "exit")
  /\ UNCHANGED <<state, recv, poll, output, net>>

\* What is left in the buffer is written and the file closed; the exit of the
\* process ends the daemon threads.
AppFlush ==
  /\ app.pc = "flush"
  /\ file' = file \o write_buf /\ write_buf' = <<>>
  /\ AppGoto("done")
  /\ UNCHANGED <<state, recv, poll, delivered, net>>

AppThread ==
  \/ AppSetTimeout \/ AppDrain \/ AppReset \/ AppSendCmd \/ AppAcked \/ AppTimeout \/ AppCredit
  \/ AppDurationOver \/ AppShellCmd \/ AppShellCredit \/ AppShellQuit \/ AppStop \/ AppJoin
  \/ AppFlush

=============================================================================
