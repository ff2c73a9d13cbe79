------------------------------ MODULE LudpRecv ------------------------------
(***************************************************************************)
(* The receiver of sw/ludp_recv.c: one thread that drains the socket in    *)
(* batches, keeps packets behind a gap in a fixed reorder buffer and, after *)
(* each batch, writes, grants credit, drops what has waited too long and   *)
(* asks for what is missing.                                               *)
(*                                                                         *)
(* The surroundings are open: recvfrom may return any DATA packet of the   *)
(* stream, again and in any order, an answer may come or not, and timers   *)
(* may be over at any test.  A packet is its number; numbers stay below    *)
(* the wrap of uint32_t.                                                   *)
(***************************************************************************)
EXTENDS Integers, Sequences, FiniteSets, Functions

CONSTANTS
  RECV_WINDOW,      \* --window
  SLOTS,            \* REORDER_BUFFER_SIZE (256 in the source)
  CMD_RETRIES,
  RECV_SEQS,        \* numbers of the DATA packets that may arrive
  CONTINUOUS,       \* --continuous
  MAX_RECOVERIES    \* bound: resets of a stream that has gone quiet

ASSUME RecvAssumption ==
  /\ RECV_WINDOW \in Nat \ {0} /\ SLOTS \in Nat \ {0} /\ CMD_RETRIES \in Nat \ {0}
  /\ RECV_SEQS \subseteq Nat /\ CONTINUOUS \in BOOLEAN /\ MAX_RECOVERIES \in Nat

VARIABLES
  rv,               \* pc and the scalars of main and the file scope
  entries,          \* the reorder buffer: per slot {} or {the number in it}
  saved             \* the numbers written to the file since the last reset

recvVars == <<rv, entries, saved>>

NoEntries == [k \in 1 .. SLOTS |-> {}]
Buffered == UNION Range(entries)

LudpRecvInit ==
  /\ rv = [pc |-> "stop", attempt |-> 0, expected_seq |-> 0, abs_credit |-> RECV_WINDOW,
           last_credit_seq |-> 0, highest_seq |-> 0, count |-> 0, need_nack |-> FALSE,
           nack |-> {}, recoveries |-> 0]
  /\ entries = NoEntries /\ saved = <<>>

-----------------------------------------------------------------------------
\* Commands.

\* The start of main, after STOP(reset), and the recovery, after STOP(recovery);
\* the sockets are drained, which an open socket does not show.
ResetRecv(pc, credit) ==
  /\ rv' = [rv EXCEPT !.pc = pc, !.attempt = 0, !.expected_seq = 0, !.abs_credit = credit,
                      !.last_credit_seq = 0, !.highest_seq = 0, !.count = 0]
  /\ entries' = NoEntries /\ saved' = <<>>

\* START is acknowledged: the first credit, and the loop.
Started ==
  /\ rv' = [rv EXCEPT !.pc = "loop", !.attempt = 0, !.abs_credit = RECV_WINDOW]
  /\ UNCHANGED <<entries, saved>>

GotoRecv(pc) == rv' = [rv EXCEPT !.pc = pc, !.attempt = 0] /\ UNCHANGED <<entries, saved>>

\* What follows send_cmd_wait_ack; before START the output file may fail to open.
AfterCmd(ok) ==
  \/ rv.pc = "stop" /\ \E pc \in {"start", "exit"} : ResetRecv(pc, RECV_WINDOW)
  \/ rv.pc = "start" /\ (IF ok THEN Started ELSE GotoRecv("exit"))
  \/ rv.pc = "recovery_stop" /\ ResetRecv("recovery_start", 0)
  \/ rv.pc = "recovery_start" /\ (IF ok THEN Started ELSE GotoRecv("loop"))
  \/ rv.pc = "end_stop" /\ GotoRecv("exit")

\* One attempt of send_cmd_wait_ack; DATA that arrives meanwhile is thrown away.
SendCmdWaitAck(ok) ==
  /\ rv.pc \in {"stop", "start", "recovery_stop", "recovery_start", "end_stop"}
  /\ IF ok \/ rv.attempt + 1 = CMD_RETRIES THEN AfterCmd(ok)
     ELSE rv' = [rv EXCEPT !.attempt = @ + 1] /\ UNCHANGED <<entries, saved>>

-----------------------------------------------------------------------------
\* An iteration of the loop of main.

\* Ctrl-C or the end of the duration; else the batch begins.
LoopTop ==
  /\ rv.pc = "loop"
  /\ \E pc \in {"batch", "end_stop"} :
       rv' = [rv EXCEPT !.pc = pc, !.need_nack = FALSE, !.nack = {}]
  /\ UNCHANGED <<entries, saved>>

Free == {k \in 1 .. SLOTS : entries[k] = {}}
FirstOf(k, slots) == k \in slots /\ \A j \in slots : k <= j

\* Mutant: a number is entered without looking for it.
InsertAgain(seq) ==
  IF rv.count >= SLOTS \/ Free = {} THEN UNCHANGED entries
  ELSE \E k \in 1 .. SLOTS : FirstOf(k, Free) /\ entries' = [entries EXCEPT ![k] = {seq}]

\* reorder_buffer_insert: the first free slot, unless the number has one already
\* or the buffer is full (the packet is then lost).
ReorderBufferInsert(seq) ==
  IF rv.count >= SLOTS \/ seq \in Buffered \/ Free = {} THEN UNCHANGED entries
  ELSE \E k \in 1 .. SLOTS : FirstOf(k, Free) /\ entries' = [entries EXCEPT ![k] = {seq}]

\* fast_recv_packet advances expected_seq over everything buffered next.
NextMissing(next, seq) == next \notin Buffered /\ seq + 1 .. next - 1 \subseteq Buffered

\* A DATA packet in order is written at once.
ReceiveInOrder(seq) ==
  /\ seq = rv.expected_seq
  /\ \E next \in seq + 1 .. seq + 1 + SLOTS :
       /\ NextMissing(next, seq)
       /\ rv' = [rv EXCEPT !.expected_seq = next, !.highest_seq = IF seq > @ THEN seq ELSE @]
  /\ saved' = Append(saved, seq)
  /\ UNCHANGED entries

\* Ahead of a gap it is buffered.
ReceiveAhead(seq) ==
  /\ seq > rv.expected_seq
  /\ ReorderBufferInsert(seq)
  /\ rv' = [rv EXCEPT !.need_nack = TRUE, !.highest_seq = IF seq > @ THEN seq ELSE @,
                      !.count = IF entries' = entries THEN @ ELSE @ + 1]
  /\ UNCHANGED saved

\* Behind expected_seq it is dropped.
FastRecvPacket(seq) ==
  /\ rv.pc = "batch"
  /\ \/ ReceiveInOrder(seq)
     \/ ReceiveAhead(seq)
     \/ seq < rv.expected_seq /\ UNCHANGED recvVars

\* The socket is empty or the batch is full; the immediate NACK, unless the last
\* one is too recent.
EndOfBatch ==
  /\ rv.pc = "batch"
  /\ \E due \in BOOLEAN :
       rv' = [rv EXCEPT !.pc = "write",
                        !.nack = IF rv.need_nack /\ due THEN {rv.expected_seq} ELSE {}]
  /\ UNCHANGED <<entries, saved>>

\* Slots whose packet has become part of the stream in order.
Ready == {k \in 1 .. SLOTS : \E s \in entries[k] : s < rv.expected_seq}

\* Mutant: the entries written stay in the buffer.
WriteReorderedKeep ==
  /\ rv.pc = "write"
  /\ \/ \E k \in 1 .. SLOTS, s \in Buffered :
          /\ FirstOf(k, Ready) /\ s \in entries[k]
          /\ saved' = Append(saved, s)
          /\ rv' = [rv EXCEPT !.count = @ - 1]
          /\ UNCHANGED entries
     \/ Ready = {} /\ rv' = [rv EXCEPT !.pc = "credit"] /\ UNCHANGED <<entries, saved>>

\* Buffered packets that are in order now are written, slot by slot.
WriteReordered ==
  /\ rv.pc = "write"
  /\ \/ \E k \in 1 .. SLOTS, s \in Buffered :
          /\ FirstOf(k, Ready) /\ s \in entries[k]
          /\ saved' = Append(saved, s)
          /\ entries' = [entries EXCEPT ![k] = {}]
          /\ rv' = [rv EXCEPT !.count = @ - 1]
     \/ Ready = {} /\ rv' = [rv EXCEPT !.pc = "credit"] /\ UNCHANGED <<entries, saved>>

\* Mutant: the window is counted from the highest number seen.
CreditUpdateHighest(due) ==
  LET new_credit == rv.highest_seq + RECV_WINDOW
      fresh == rv.expected_seq /= rv.last_credit_seq /\ new_credit > rv.abs_credit
  IN /\ rv.pc = "credit"
     /\ rv' = [rv EXCEPT !.pc = "flush",
                         !.abs_credit = IF fresh \/ due THEN new_credit ELSE @,
                         !.last_credit_seq = IF fresh THEN rv.expected_seq ELSE @]
     /\ UNCHANGED <<entries, saved>>

\* A credit for what is new; the same one again when the timer is due.
CreditUpdate(due) ==
  LET new_credit == rv.expected_seq + RECV_WINDOW
      fresh == rv.expected_seq /= rv.last_credit_seq /\ new_credit > rv.abs_credit
  IN /\ rv.pc = "credit"
     /\ rv' = [rv EXCEPT !.pc = "flush",
                         !.abs_credit = IF fresh \/ due THEN new_credit ELSE @,
                         !.last_credit_seq = IF fresh THEN rv.expected_seq ELSE @]
     /\ UNCHANGED <<entries, saved>>

\* reorder_buffer_flush_timeout drops any entries; then the NACK for a gap that
\* stays, if something is still buffered or, after 50 quiet ms, was seen beyond it
\* (the clock is read after the writes, so a slow one makes any iteration quiet).
FlushTimeout ==
  /\ rv.pc = "flush"
  /\ \E expired \in SUBSET {k \in 1 .. SLOTS : entries[k] /= {}}, due, quiet \in BOOLEAN :
       LET left == rv.count - Cardinality(expired)
           stuck == left > 0 \/ (quiet /\ rv.highest_seq > rv.expected_seq)
       IN /\ entries' = [k \in 1 .. SLOTS |-> IF k \in expired THEN {} ELSE entries[k]]
          /\ rv' = [rv EXCEPT !.pc = "quiet", !.count = left,
                              !.nack = IF stuck /\ due THEN {rv.expected_seq} ELSE @]
  /\ UNCHANGED saved

\* Five seconds without data reset the stream in continuous mode.
Recover ==
  /\ rv.pc = "quiet" /\ CONTINUOUS /\ rv.recoveries < MAX_RECOVERIES
  /\ rv' = [rv EXCEPT !.pc = "recovery_stop", !.recoveries = @ + 1]
  /\ UNCHANGED <<entries, saved>>

NextIteration == rv.pc = "quiet" /\ GotoRecv("loop")

LudpRecvNext ==
  \/ \E ok \in BOOLEAN : SendCmdWaitAck(ok)
  \/ \E seq \in RECV_SEQS : FastRecvPacket(seq)
  \/ \E due \in BOOLEAN : CreditUpdate(due)
  \/ LoopTop \/ EndOfBatch \/ WriteReordered \/ FlushTimeout \/ Recover \/ NextIteration

RecvSpec == LudpRecvInit /\ [][LudpRecvNext]_recvVars

-----------------------------------------------------------------------------
\* Nothing that expected_seq has passed is lost or written twice: the packets
\* written and those still to be written after the batch are the numbers below
\* expected_seq, each once, whatever arrives again, out of order or too late, and
\* whatever the timeout throws out of the buffer.
PassedIsSavedOnce ==
  LET waiting == {s \in Buffered : s < rv.expected_seq} IN
  /\ Range(saved) \cup waiting = 0 .. rv.expected_seq - 1
  /\ Len(saved) + Cardinality(waiting) = rv.expected_seq
  /\ rv.pc \in {"loop", "end_stop", "exit"} => waiting = {}

\* The reorder buffer is what its users take it for: count is the number of its
\* entries, no number has two, expected_seq is never among them, and a NACK asks
\* for a packet that is neither written nor buffered.
ReorderBufferExact ==
  /\ rv.count = Cardinality({k \in 1 .. SLOTS : entries[k] /= {}})
  /\ \A j, k \in 1 .. SLOTS : j /= k => entries[j] \cap entries[k] = {}
  /\ rv.expected_seq \notin Buffered
  /\ \A s \in rv.nack : s \notin Buffered /\ s \notin Range(saved)

\* The FPGA is never granted more than the window beyond what was processed, and
\* after every iteration all of it, except while a recovery has failed.
CreditInStep ==
  /\ rv.abs_credit <= rv.expected_seq + RECV_WINDOW
  /\ rv.pc = "loop" => rv.abs_credit \in {0, rv.expected_seq + RECV_WINDOW}
=============================================================================
