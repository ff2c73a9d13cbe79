# LUDP: models, checks and proofs

LUDP is the protocol by which an FPGA streams acquired data to a host over UDP.
The FPGA sends numbered DATA packets while it has *credit*; the host grants
credit as an absolute packet number, starts and stops the stream with commands,
and puts packets back in order. The hardware is under `rtl/`, the host under
`sw/`. This directory models the protocol core of the FPGA cycle by cycle, the
host program statement by statement, acquisitions end to end with a network that
loses and reorders packets, the receiver written in C, and the tools around the
protocol: the packet generators of the co-simulation, the bridges that feed the
testbench from them, and the coverage report.

## 1. Inventory

### The FPGA (one clock domain, `clk`)

| Part | State | Operations | Hard parts |
|---|---|---|---|
| `ludp_protocol_rx.sv`, receiver | beat FSM, header latches | decode CMD, NACK, CREDIT at the last beat; status requests | commands skipped while a response is latched; CREDIT old, repeated, wrapped |
| `ludp_protocol.sv`, registers | `seq_num`, `credit_limit`, `f2h_tx_enabled`, latched response | START, STOP, credit, packet done, response done | several of them in one cycle |
| `ludp_protocol_tx.sv`, transmit FSM | `tx_state`, header, beat counters; grant of the frame multiplexer | response, DATA header, payload | START in mid-frame; must agree with the scheduler on what starts |
| `ludp_tx_scheduler.sv`, scheduler | ring of blocks (state, number, size), three indices, write FSM, read FSM, retransmission | store a packet, read one back, recycle, retransmit | four writers of one block table; `clear` reaches only some of the registers |
| `lib_dma/ludp_dma_wrapper.sv`, DMA | descriptors, status, CDC FIFOs | write a block, stream a block | delays, errors, dropped status |
| `fpga_core.sv`, top | test generator, FIFO | produce packets between START and STOP | partial packet after STOP |

The receiver drives the registers combinationally; the registers enable the
transmit FSM; transmit FSM and scheduler exchange `tx_pkt_ready`, `sch_ready`,
`retx_found` and `tx_pkt_start` in the same cycle; `rx_cmd_start_req` resets
registers, transmit FSM and ring at once. All of it moves on every clock edge.

Correct means: never a packet beyond the credit; numbers without gaps; each
frame carries the packet and the length its header names; each accepted request
is answered once, and eventually; the stream goes on while there is credit.

### The host (`sw/ludp_host.py`, three threads)

| Thread | Shared state it touches | Operations |
|---|---|---|
| receive | `expected_seq`, `abs_credit`, `ooo_heap`, `out_of_order`, `pending_cmds`, statistics, `write_buf`, file | deliver in order, buffer the future, grant credit, acknowledge commands, flush to the file |
| polling | the same | grant credit, skip gaps after 5 ms, keep-alive, deliver and flush what is behind a gap |
| main, logger | `pending_cmds`, `running`, the socket's timeout, everything `reset_state` resets | drain the socket, reset, START with retries, first credit, STOP, stop and join, last flush |
| main, shell | `pending_cmds`, `running` | start, stop, read, write, credit, quit in any order |

`self.lock` protects statistics and `pending_cmds` only; sequence number,
credit, reorder buffer and output buffer are shared without it.

Correct means: delivery in order, without duplicates, complete when nothing is
lost, and all of it in the file; the window is respected; an acknowledged command
has taken effect, and a register read is answered by its own completion; the
acquisition never stalls.

### The receiver in C (`sw/ludp_recv.c`, one thread)

State: `expected_seq`, `highest_seq`, `abs_credit`, `last_credit_seq`, a reorder buffer of
256 slots with a count. Operations: STOP, drain and START with retries; then in a
loop: read a batch (write what is in order, buffer what is ahead), NACK, write what
the batch put in order, grant credit, drop entries older than a timeout, NACK a gap
that stays, and in continuous mode stop and restart a stream that has been quiet for
five seconds. Hard parts: `expected_seq` passes buffered packets before they are
written; the buffer fills, or entries expire while their gap is open; a recovery
fails half way. Correct means: every packet passed is written once, the buffer and
its count agree, a NACK asks for what is missing, and exactly the window is granted.
`ludp_recv_pcap.c` is a variant without reordering, on raw sockets.

### The tools

| Part | State | Operations | Hard parts |
|---|---|---|---|
| `ludp_host_fifo.py`, frame generators (copied in `ludp_host_dpi.py`) | list of frames, packet file | build ARP, ICMP, START, CREDIT frames; write the file | checksums and lengths computed apart from the bytes; two byte orders |
| `tb/dpi_safe.c`, file reader | packets read, index | read the file once, hand packets to the testbench | the file may be missing, empty or about to be replaced |
| `ludp_host_dpi.py`, socket client | connection, command number | connect with a timeout, send, disconnect | server absent, gone, or with a full buffer |
| `tb/dpi_socket.c`, socket server | listening socket, one client, buffer, index | accept, receive, hand over, clean up | client gone with packets still in the socket; buffer at its limit |
| `tb/coverage_report.py` | counts per file | identify files, count, report three ways | missing bits, shared ids, ranges |

Correct means: every frame fed to the design is well formed and the one asked
for; nothing is lost, repeated or mixed on the way; every coverage entry is
counted once and the three reports agree.

`PROJECT.json` lists every component, also those not modelled, and the hazards
of this code at the lines where they bite.

## 2. Modules

| Module | Models | Reads like |
|---|---|---|
| `SeqArith` | fixed-width numbers: increment and the signed comparison `$signed(a - b) > 0` | operators |
| `LudpProtocol` | receiver's decoder and the register block | combinational wires `Rx...`, `RegsStep` |
| `LudpProtocolTx` | transmit FSM and the multiplexer's grant | `TxStep`, one operator per state |
| `LudpTxScheduler` | ring, write FSM, read FSM, DMA as seen by the scheduler | `SchStep`, one operator per `always_ff` block |
| `LudpFpga` | the three wired together: `Clock` is one clock cycle | `Next` chooses what the surroundings do in the cycle |
| `CreditStream` | what the FPGA promises, with unbounded counters and no clock | abstract specification |
| `LudpHost` | the three threads in both modes, one action per statement on shared state | `RecvThread`, `PollThread`, `AppThread` |
| `LudpSession` | host + network + FPGA reduced to packets | `Next` |
| `LudpRecv` | `ludp_recv.c`: commands, batch loop, reorder buffer, credit, recovery | `LudpRecvNext`, one action per phase of the loop |
| `InternetChecksum` | `calculate_checksum` as a loop | `Call`, `CkStep` |
| `PacketGen` | frame generators, packet file, `dpi_safe.c` and the task that feeds from it | `GenNext` |
| `DpiSocket` | clients of `ludp_host_dpi.py` and `dpi_socket.c` | `Client`, server actions |
| `LineRanges` | the loop that compresses lines into ranges | `Begin`, `LrStep` |
| `CoverageReport` | `coverage_report.py` for one metric | `CovNext` |
| `MCFpga`, `MCSession`, `MCTools` | instances for TLC | |
| `FpgaProofs`, `FpgaDataProofs` | theorems about the FPGA: sequence arithmetic, credit and responses; frames, blocks and payload | the second extends the first |
| `SessionProofs`, `SessionDataProofs`, `DeliveryProofs` | theorems about the session: types, commands and the FPGA's promise; reorder buffer; delivery, window and file | each extends the one before |
| `RecvProofs` | theorems about the receiver in C | |
| `FoldProofs` | what `SumFunctionOnSet` and `FlattenSeq` of the community modules compute | lemmas by induction |
| `ToolProofs` | theorems about the tools: checksum, line ranges, packet file, frames, socket, coverage report | one section each, on top of `FoldProofs` |

`LudpFpga` extends the three hardware modules and is shown to implement
`CreditStream`. `LudpSession` uses an FPGA of one step per packet, and
`PeerKeepsPromise` checks that this FPGA makes the same promise: what the host
is checked against is what the hardware was shown to provide. `PacketGen` calls
`InternetChecksum` and `CoverageReport` calls `LineRanges` step by step, so that the
small modules are both part of the tools TLC runs and small enough to prove.
`MCTools` puts the three tools and the C receiver side by side; a behaviour is one of
them at work.

### How state and steps correspond

*FPGA.* A variable is a register of the same name without `_reg`; a step is a
clock edge, and every primed variable is assigned exactly as its `always_ff`
block does, with the priority of later assignments made explicit
(`BlkStateNext`). Inputs are chosen freely per cycle: `rx` (what the receiver
completes in this cycle), `tready` (back-pressure of the UDP stack), `wr_go` and
`wr_last` (source and sink), `wr_status` (how the oldest DMA write ends), `word`
(the DMA presents data). `When` fixes an input to FALSE in states where no
register reads it; this only removes duplicate transitions. Histories (`started`,
`done`, `granted`, `owed`, `fill_count`, packet numbers in place of
payload) steer nothing.

Abstractions: sizes in beats and words instead of bytes; all packets have
`PKT_WORDS` words, as `fpga_core.sv` fixes `dma_pkt_size`; a word is packed in one
step; command ids, arguments and register data are left out; START and STOP are
posted and READ is not, as `ludp_host.py` sends them; `tx_header` and `resp`
return to a neutral value when nothing reads them any more; the multiplexer's
pipeline registers, the receiver's beat FSM and the UDP header handshake are left
out; the read descriptor's `tready` is always true (its FIFO holds 16, one is
outstanding).

*Host.* A step is a statement that reads or writes shared state; the interpreter
may switch threads between any two. `x += 1` and a loop test together with the
`heappop` it guards are one step each, which leaves out some interleavings of
CPython and adds none. Time is counted in polls: with the default 5 ms period the
stall timer is over at the poll after the one that set it and the keep-alive is
due after two quiet polls. A command's wait may time out whenever no ACK has been
taken. A call of `recvfrom` takes the timeout the socket has at that moment, as in
CPython. A payload is one unit of the output file, and `on_data` is three steps
(append, write, clear) in whichever thread delivers. `stop()` waits for the polling
thread and for a receive thread that is at work; one blocked in `recvfrom` is given
up after two seconds and may still take a packet. `highest_seq`, `pending_nacks` and
statistics other than "a packet has been received" are never read and left out, as
are the commands of the shell that change nothing (`stats`, an empty line).

*Session.* `h2f` and `f2h` are FIFOs; `Lose` drops the head of one, `Overtake` swaps
the first two packets from the FPGA. START abandons the packet under way (what
really happens then is the subject of `fpga_start_mid_frame`). An FPGA that an
earlier run never stopped has `STALE` credit left and streams into `drain_socket`;
a register read returns whether the stream is enabled.

*C receiver.* A packet is its number; `recvfrom` may return any number of the stream at
any time, again and in any order, an answer comes or not, and every timer may or may
not be over when it is tested (the clock is read after the writes to the file, so even
an iteration that received data may find the stream quiet). `saved` is what was written
since the last reset; the file itself is not truncated by a recovery. Numbers stay
below the wrap of `uint32_t`, and command numbers are left out: which answers a command
may take is open.

*Tools.* Frames are their bytes after the Ethernet header; addresses are constants.
The file is shorter than Python's buffer, so a reader sees no file, an empty one or
all of it. A packet passes the Unix socket in one piece (`sendall` of one buffer of at
most `MAX_PACKET_SIZE`, which the kernel keeps whole), `connect` queues up to the
backlog, and closing one end leaves what was sent to be read. In the coverage report
an element carries the set of source files in which its signature stands at its
line; which of them `os.walk` meets first is a choice. Percentages, columns, the
15-row limit and the 30-range limit of the print are layout and left out.

## 3. Runs

### Passing

| Run | Question | Bounds and why they suffice |
|---|---|---|
| `fpga_sessions` | payload and length match the header, block exclusion, FSMs in step, one response per request | 8 sequence values and 9 packets: the numbers wrap; the ring of 3 is the real one; packets of 2 words, so that a packet has a middle and an end |
| `fpga_stream` | refinement of `CreditStream`, the proof's invariant | wrap, NACKs and write errors together; 2 blocks |
| `fpga_start_any_time` | credit and responses when START comes in any cycle | one packet of credit at a time, so that every packet is at the limit; DMA writes queued at START limited to `MAX_WR_QUEUE` = 1 |
| `fpga_liveness` | responses are sent, data flows | 1-beat packets: the cycle structure of a frame is unchanged |
| `session_commands` | retries with late, lost and overtaken answers | 2 attempts, 1 fault, 2 packets: the shortest stream after which a wrong ACK, a second START or an old packet shows |
| `session_loss` | window with two granting threads, heap and dict agree, the file is complete | window 3, 4 packets, 2 losses: a gap, packets behind it, and a second gap; a flush every 2 payloads, so that some are flushed by either thread and some at the end; 1 attempt, because a repeated START that had arrived breaks the window (section 4, Hypotheses), and with 3 the state space is too large: repeated lost STARTs are the theorem's (`LostStartsAreHarmless`) |
| `session_lossless` | reads see the commands before them; everything is delivered | credit interval 2 with window 1, so that only the polling thread can grant the next packet; 2 typed commands: one to be late, one to be misled |
| `tools` | checksum, frames, file, socket, counts, ranges; the C receiver's buffer and credit | real bytes and frames; credits that fit, that use all four bytes, and one that is no `uint32`; even and odd ICMP payloads; a list of 3 for a buffer of 2 and 2 runs; 2 clients, buffer and socket of 1, 2 lives of the simulation; bit strings shorter and longer than the entries, two instances of one definition, an unknown one; 2 slots and 5 numbers, so that the buffer fills, is emptied out of order and refuses packets, and one recovery, which may succeed or fail |

`WINDOW` (the credit ahead of the packets done) is less than half the sequence
space minus one; in the hardware this is 2^31 against a window of at most a few
thousand. `fpga_*` runs with `QUIET_START` deliver START only when no packet is
being read or written. `run_logger` keeps to that as long as its first START is acknowledged
in time (START then follows power-up or the STOP of the run before); a START it
repeats because the ACK was lost or late may meet a running stream.
`fpga_start_any_time` and `fpga_start_mid_frame` drop the condition.
Session and tool runs do not check deadlock because the programs end.

### Violations: what the models show the code to do differently

| Run | Said | Done |
|---|---|---|
| `fpga_start_mid_frame` | LUDP_SPEC 3.4: an ACK follows every posted command | START in mid-frame resets the FSM but not the multiplexer: port 1 keeps the grant, no response is ever sent again |
| `session_lost_credit` | LUDP_SPEC 4.2, sw/README: a lost CREDIT is repeated | not once any DATA has been received |
| `session_gap_skip` | comment in `_poll_loop`: gaps are skipped | the polling thread may die of a KeyError between `heappush` and the dict store |
| `startup_drain` | comments in `_recv_loop` and `run_logger`: the loop ends when the socket is closed; stale packets are drained and the state reset | the timeout that `drain_socket` sets reaches the receive thread, which ends; no ACK and no data are ever taken |

Observations made while modelling that have no run of their own.

On the protocol:

* A retransmission is not one. LUDP_SPEC 4.1 asks for the packet `Miss_Seq` with
  flag 0x01; `rd_pkt_seq` is always the next live number (`ludp_tx_scheduler.sv:141`),
  the flag is the constant 0x00, and because `retx_pending` clears in the cycle in
  which the read is issued, the descriptor one cycle later names the block at
  `tx_rd_idx`, not the one the NACK asked for. `WriteExcludesRead` and
  `PayloadMatchesSeq` are therefore checked without NACKs.
* A NACK that meets a pending response desynchronises scheduler and transmit FSM:
  the scheduler issues the read as soon as it is idle (`ludp_tx_scheduler.sv:535`), the
  FSM is busy and starts no frame for it, the unpack register stays full and no live
  packet is sent again, against "Resumes Live Mode" (LUDP_SPEC 4.1). `LiveModeResumes`
  states it; it fails under the constants of `MCFpgaLiveness.cfg` with `NACKS = TRUE`,
  `NUM_BLOCKS = 2` and `REQUESTS = {"START", "READ"}`.
* START in the cycle in which a read is issued finds the read FSM idle, so that
  read is not marked for clearing; its descriptor is sent a cycle later with the
  size just cleared, for which the DMA source streams 1024 words. The first of
  them fills the unpack register, no frame takes it, `sch_ready` stays low and the
  new session sends no packet until reset. The state is reached in
  `fpga_start_any_time`, where only credit and responses are checked.
* When DATA packets overtake one another the host's two threads collide. A packet
  the receive thread has found in order may be delivered after the polling thread
  has skipped past it, against "ordered data delivery" (`ludp_host.py:133`); and the
  polling thread may store a `skip_to` that is older than `expected_seq`
  (`ludp_host.py:576`), after which `FlowControl` fails. Setting `REORDER` in
  `MCSessionLoss.cfg` shows the second.
* A START repeated because its ACK was lost or late restarts a stream that has
  already begun, and packets of both FPGA sessions are delivered under one numbering
  (`OneSession`, false under `MCSessionCommands.cfg`). The host then grants credit from
  its old counters, so `AllDelivered` fails with two attempts even without loss, and
  `FlowControl` if a DATA packet is lost besides; `session_lossless` and `session_loss`
  use one.
* `sw/README.md` lists NACK retransmission among the host's features, but
  `ludp_host.py` never sends a NACK. It lists a retry "if ACK/CPL not received", but
  `read_reg` has one attempt. A second `start` in the shell does not call `reset_state`:
  every packet of the new session looks old. `credit n` sends `n` as the absolute
  credit; a `write` of more than 16 bits raises `struct.error` and ends the shell.
* After a failed START the logger closes its file without writing `write_buf`. A
  packet that the receive thread takes after its join has timed out may miss the
  file; `SavedAll` states what is left.

On the receiver in C:

* The file is not in the order of the numbers, against "Write reorder buffer entries
  that are now in-order to file" (`ludp_recv.c:578`): buffered packets are written after
  the batch, so behind later packets that came in order within it, and slot by slot.
  `PassedIsSavedOnce` therefore counts what was written and says nothing of its order.
* "Temporarily set blocking with timeout" (`ludp_recv.c:260`) holds on Windows only: the
  POSIX branch sets SO_RCVTIMEO but leaves O_NONBLOCK, so a wait whose answer has not
  arrived ends at once and the retries follow one another without delay.
* `next_cmd_id` is 1 again after STOP(reset) (`ludp_recv.c:471`), so a late answer to the
  first STOP is taken for that of START.
* A gap that closes within its batch still sends a NACK, for a packet not yet sent.
  When the last packets of a window are all lost nothing is ahead of the gap and no
  NACK is sent; the stream stalls, in continuous mode until the recovery.
  Comparisons of `uint32_t` numbers are not those of the FPGA at the wrap.

On the tools:

* `dpi_socket.c` takes the end of the stream for a header still incomplete and never
  closes the client's descriptor, so a second client is never accepted; the branch
  for ECONNRESET cannot be reached, because the server sends nothing. `packet_count`
  never goes down: after 256 packets the buffer is full until the cleanup. Of a packet
  longer than `MAX_PACKET_SIZE` only the header would be consumed (none is generated).
* `LudpHostDPI` never calls the constructor of `LudpHost`: the inherited `send_start`,
  `send_stop`, `read_reg` and `write_reg` raise AttributeError for want of `self.lock`,
  after taking a command number. Its own `send_cmd`, `send_credit` and `send_nack` send
  the 16 LUDP bytes without Ethernet, IP and UDP headers, which the DUT cannot take.
* `make sim-ludp-credit` runs the generator twice; the second run replaces the START
  in the file by the CREDIT, and only that is fed. `dpi_safe.c` looks at the file once:
  if it is still empty the simulation feeds the fallback ARP for good. The LUDP frames
  have 58 bytes and are not padded to 60.
* `coverage_report.py` prints the covered percentage after the word "uncovered"; its
  handler for a broken shape database cannot be reached, because `build_file_id_map`
  reads the same file outside any `try`. Ignored lines are removed before bits are
  matched by position, which is right only if the tool leaves them out of the bit
  string too. Counts are per instance, so a module instantiated twice counts twice.

### Fairness

`LudpFpga!FairSpec`: the clock runs (`ClockRuns`, a cycle without a packet from the
host, so the host is never obliged to send anything); the UDP stack takes a beat
that stays offered (`OutputAccepts`); the DMA answers (`DmaReadAnswers`,
`DmaWriteAnswers`); the source delivers and its packets end (`SourceDelivers`,
strong fairness of `SourcePacketEnds`, because WR_PACK is left and re-entered with
every word while the generator counts to its last beat). These are promises of
the cores around LUDP, not of LUDP. `LudpSession!FairSpec`: each thread is scheduled
and the FPGA works; nothing obliges the acquisition to end or anyone to type, and
faults are never obliged to happen. `DpiSocketFairness`: the simulation keeps polling
`dpi_has_packet` and reading. That is an assumption about the testbench: the
repository has only the imports of `dpi_socket.sv`, no caller. No client is obliged to
connect, to send or to end, and the simulation may end at any time.

## 4. Proofs

All theorems are about the specification TLC checks, for every value of the
constants that satisfies the named assumptions (`...Assumption` in the modules that
declare them) and the hypotheses in the third column. A theorem without a property
is an inductive invariant, or a fact no run states.

| Theorem | Property | Hypotheses |
|---|---|---|
| `SeqGTCorrect` | the signed comparison of wrapped numbers is that of the counts | counts less than `HALF_SEQ` apart |
| `TypeCorrect`, `OneResponse` | `LudpFpga!TypeOK`, `OneResponsePerRequest` | none |
| `StreamInvariant`, `CreditSafety`, `StreamRefinement` | `StreamInv`, `CreditSafe`, `ImplementsStream` | `QUIET_START` |
| `InStep`, `LengthExact`, `WriteReadExclusion` (from `PacketInvariant`) | `TxAndSchedulerInStep`, `LengthMatchesHeader`, `WriteExcludesRead` | `QUIET_START`, no NACK |
| `PayloadExact` (from `PayloadInvariant`) | `PayloadMatchesSeq` | the same, and no DMA write fails |
| `SessionTypeCorrect` (from `TypeInvariant`) | `LudpSession!TypeOK` | none |
| `AcknowledgedHolds`, `ReadsAreCurrent` (from `CommandInvariant`) | `AckedCommandHolds`, `ReadSeesCommands` | none |
| `SessionImplementsStream` | `PeerKeepsPromise` | `STALE \subseteq {0}` |
| `HeapIsBuffered` (from `FreshInvariant`, `HeapInvariant`) | `HeapEntriesBuffered` | `STALE \subseteq {0}` |
| `ReceiverFindsPacket` | the receive thread's `out_of_order.pop` finds its packet | `STALE \subseteq {0}` |
| `DeliveryIsComplete` | `CompleteDelivery` | `STALE \subseteq {0}`, DATA in order, none lost |
| `OneThreadDelivers`, `ExpectedNeverFalls` (from `RisingInvariant`) | the threads do not deliver together; `expected_seq` never falls (action property) | `STALE \subseteq {0}`, DATA in order, one session |
| `WindowIsRespected` (from `WindowInvariant`) | `FlowControl` | the same, logger |
| `NothingUnsaved` (from `FileInvariant`) | `SavedAll` | the same |
| `LostStartsAreHarmless` | `FlowControl` and `SavedAll` in every state, for any number of attempts | `STALE \subseteq {0}`, DATA in order, logger, only lost STARTs are repeated |
| `PassedIsSaved`, `BufferIsExact`, `CreditIsInStep`, `BufferLoopsEnd` (from `ReceiverInvariant`) | `PassedIsSavedOnce`, `ReorderBufferExact`, `CreditInStep`; both loops over the buffer end | none |
| `ChecksumCorrect`, `OneRunIsFed`, `RangesCorrect` | `ChecksumVerifies`, `FeedsOneRun`, `RangesExact` | none |
| `FedFramesAreWellFormed` | `FedFramesWellFormed` | `FieldAssumption`: bytes of 8 bits, and ICMP payloads that fit an IP packet |
| `SocketIsExact` | `SocketConserves` | none |
| `CountsAreExact`, `SummaryIsExact`, `ReportPrintsRanges` | `EveryEntryCounted`, `SummaryAgrees`, `RangesExact` of the whole report | `CoverageAssumption`: finitely many files and ids, databases of the right shape |

### Hypotheses

* `QUIET_START`: without it the refinement is false (a `rd_done_pulse` of the old
  session may be counted in the new one), and a frame is cut (`fpga_start_mid_frame`).
* No NACK: a retransmission reads the block at `tx_rd_idx` whatever was asked for
  (section 3), so packet, block and payload part. `~NACKS` holds of `ludp_host.py`, which
  never sends one; the C receiver does. A failed DMA write empties its block, so its
  packet is never sent and the next one goes out under its number: the payload needs
  `~WR_ERRORS`, lengths and exclusion do not. `TRACK_PAYLOAD` only switches the history variables on.
* `STALE \subseteq {0}`: no earlier run left the FPGA with credit. With stale credit the
  first numbers of the old stream may be taken for the new one (`startup_drain`).
* DATA in order is the formula `DataKeepsOrder` of `DeliveryProofs`: an `Overtake` step
  swaps two packets of which one is not DATA. Answers and DATA may overtake one
  another, and anything may be lost where the table does not say otherwise. Without it
  `CompleteDelivery` and `FlowControl` are false (section 3, on the protocol).
* One session is the state condition `f_session <= 1`: the FPGA has executed at most
  one START. A START whose ACK was lost is repeated and restarts the stream from 0
  while the host's counters stay; a packet of the old session in the heap then lets
  the polling thread store a `skip_to` behind `expected_seq`.
* Only lost STARTs are repeated is the formula `RetryOnlyIfLost`: when a wait for the
  ACK of START runs out and another attempt is left, no START has reached the FPGA and
  none is on its way. It restricts the network and the waits, not `RETRIES`, so it
  covers the three attempts of `_send_cmd_wait_ack`, with commands lost. It cannot be
  dropped: with two attempts, a late ACK and a lost DATA packet, TLC finds `FlowControl` violated under the
  constants of `MCSessionLoss.cfg`.

### The arguments

*Credit of the FPGA.* `CreditSafe` (`started <= granted`) is not inductive: the guard
that protects it compares `seq_num` with `credit_limit`, and `seq_num` moves when a packet
is *done*, not when it is started. `CountsAgree` therefore ties the registers to the
unbounded counts and says that `started` and `done` differ exactly by the live read
under way. That a read under way ends with exactly one `rd_done_pulse` is
`LiveReadAccounted`: beats taken, beats in the unpack register and words still in
the DMA add up to a packet in every state of the read FSM. For that to hold when a
read begins, nothing may be left of an earlier one and the block it is pointed at
must have a size, even if a NACK redirects it before its descriptor is sent:
`ReadsBeginClean`. The conjunction is inductive (`StreamInit`, `StreamStep`, whose
parts are `CountsStep`, `AccountStep`, `CleanStep`), and each step of it maps to a step
or a stutter of `CreditStream`.

*Frames, blocks and payload.* `PacketInv` adds what a frame under way and the read FSM
agree on (`FrameInv`) and which state each block of the ring is in relative to the
three indices and the queue of DMA writes (`BlockInv`): a queued write is for a block
in FILL, the reader's block is not. `PayloadInv` adds an order: `Occupied` blocks are
consecutive from `tx_rd_idx` (`RingShape`), each carries the successor of the number
before it (`RingOrder`), and the first carries `seq_num`; the word in the unpack
register is of that packet (`WordInv`).

*Commands of the host.* Answers are matched by number only. `CommandInv` says that
numbers in the network rise and are below `next_id` (`CmdsInOrder`, `IdOrder`), that an
answer with the number being waited for was made after everything before it and
tells the state of the FPGA now (`Current`), and therefore what an acknowledged
command (`Acknowledged`) and the shell's belief (`Believed`) amount to. It holds with
any losses, reordering, retries and stale packets, because the host has one command
outstanding and gives a retry a new number.

*The reorder buffer.* `HeapInv`: a number leaves the heap before its packet leaves
the dict, and the thread that popped it has it in its hands; the two threads never
hold the same. So the receive thread never meets a missing packet; the polling
thread may, between `heappush` and the dict store, which is `session_gap_skip`.

*Delivery without loss.* `ChainInv`: every packet in the socket has its predecessor
before it there, in the receive thread's hands or already delivered (`Chained`,
`Precedes`). Packets of several sessions may be there; each session is a chain from 0.
Hence nothing ever lies ahead of a gap, the polling thread finds none to skip, and
what is delivered is 0, 1, 2, ...

*Delivery with loss.* `RisingInv`: within a session, what is buffered is below what the
receive thread has just taken, and that below what still arrives (`ArrivalOrder`,
`RecvOrder`). A packet that meets a gap is therefore always pushed on top; only the
polling thread drains, and while it does the receive thread can hold nothing that
equals `expected_seq`. This is what keeps two unlocked threads from delivering
together (`NotTogether`) and `expected_seq` from falling (`ExpectedRises`). `WindowInv`
then bounds every credit in force, in the network or in a thread's hands by the value
of `expected_seq` it was computed from; `FileInv` says that file and `write_buf` together
are what was delivered, in every state between the write and the clear.

*Retries.* `StartInv`: at most one START is in the network, none once a session has
begun, and none when the logger is about to send one (`StartOnce`). Besides `AppReset`,
before which the network is empty (`FreshInv`), only a retry makes START the next
command (`StartIsNext`), and the FPGA can execute a START only by taking it out of a
network in which no second one, having a larger number, remains (`StartStep`).

*The receiver in C.* `RecvInv`: what `expected_seq` has passed is written or in the
buffer, with the counts (`SavedInv`); count and slots agree (`BufferInv`); a NACK is for
the number expected now or everything has been reset since (`NackInv`); and either the
whole window is granted or the number last granted for is smaller than
`expected_seq`, so that the next test lets a credit pass (`CreditInv`). `MissingExists`
shows by the pigeonhole principle and the well-ordering of the naturals that the loop
of `fast_recv_packet` ends within the size of the buffer.

*Tools.* For the checksum the invariant is `FoldsAccounted`: what folding has removed
from the sum is a multiple of `WORD - 1`, so that the complement added to the unfolded
sum is one too, whatever the length and however many folds it took. For the ranges it
is `LrInv`: the ranges appended and the open range `start .. prev` together are the
lines walked so far, all later lines lie beyond `prev`, and every finished range ends
at least two before `start`. For the packet file it is `FeedInv`: the file is
missing, empty or the list of one finished run, and what has been fed is a prefix of
what was loaded. `CkSpec`, `GenSpec`, `LrSpec` and `RecvSpec` allow every argument and
every environment; the composed modules take only steps of theirs.

*Frames.* `calculate_checksum` runs on a header whose checksum field is zero, padded if
it is odd, while a receiver adds up the finished one, padding aside. `CkSum` ties the
loop to the receiver's sum: `total` is the weighted sum `WSum` of the bytes before `i`.
Padding adds nothing to it (`WSumPad`), and putting a word in the place of two zero bytes
at an even offset adds that word (`WSumReplace`, by induction over the bytes behind it),
so the finished header and ICMP message sum to a multiple of 65535 (`HeaderVerifies`,
`IcmpVerifies`). `FrameInv` says which string the loop has been called with while a frame
waits for its result, and that every frame in the list and in each list written is
right; with `FeedInv` it follows for the frames fed. Lengths and the little-endian fields
come from the explicit layout of the packets (`IpFieldsType`, `LudpBody`).

*Socket.* `SocketConserves` speaks only of the accepted client. `SockInv` adds what it rests
on: a client that has not connected has sent nothing and is nowhere (`NotConnected`); one
in the listen queue is there once, is not accepted, and has all it sent still in its
socket (`QueueInv`); the server has one client at a time, and without one an empty buffer
(`ServerInv`). `Frames` distributes over what a send appends and what a receive takes
(`FramesAppend`, `FramesHead`).

*Coverage report.* `CountInv`: at any entry the files together have as many entries as the
instances before this one have, plus the position in this one, and as many covered as
there are set bits so far; a step that adds one to one file adds one to the sum over
all files (`SumChange`). `ReportInv`: what has been printed and what the files still to be
walked have is what the summary will compute (`SumRemove`).

*Induction.* `FoldProofs` derives induction over the naturals for a *set* of them
(`InductiveSet`, from the well-ordering `WFMin` gives) and cites it with the set a property
defines, because the library's rules take an operator, which these provers cannot
instantiate. The folds are recursive functions, that is, a CHOOSE of a function with an
equation; that such a function exists is shown first, again by induction
(`SumBodyExists`, `FlatExists`), and then that it has the equation.

### Only model-checked

Liveness (`ResponseSent`, `DataFlows`, `AllDelivered`, `SocketDelivers`), because the prover
does not reason about fairness and ENABLED here. Every invariant and every step property
that a passing run checks is also a theorem, under the hypotheses of the table. Where
these exclude something (a START in mid-frame, NACKs, DATA that overtakes DATA, stale
credit, a second session), the runs check it where it holds, and section 3
describes it where it does not.

## 5. Not modelled, and the plan

Not modelled: vendored cores (Ethernet, AXI, DMA engines), board files and directed
test benches; the transmit buffers and DMA engines that no build file lists any more
(`ludp_tx_buffer.sv`, `ludp_tx_dma.sv`, `ludp_tx_dma_axi.sv`); ICMP echo reply in hardware;
`dpi_fifo.c` and `dpi_simple.c`, earlier variants of `dpi_safe.c`; formatting, statistics
and argument parsing. The host's numbers are unbounded, as Python's are.

Order of the development, the most important behaviour first:

1. done: sequence arithmetic, FPGA core, credit stream, first theorems;
2. done: host threads and the end-to-end session, from `drain_socket` to the closed
   output file, with the interactive shell and register reads;
3. done: the receiver in C; packet generators, their bridges to the testbench, coverage report, with
   theorems on the checksum, the packet file and its frames, the socket and the report;
4. open: the receiver's beat FSM (single-beat packets decoded from old latches) and
   the UDP header handshake of the transmit FSM; `ludp_dma_wrapper.sv` with its
   two clocks, as an implementation of the DMA that `LudpTxScheduler` assumes;
   `ludp_recv_pcap.c`, and `ludp_recv.c` as an alternative host in `LudpSession`;
5. done: theorems about frames, blocks and payload of the FPGA, about commands, reorder
   buffer, delivery, window and file of the session, and about the receiver in C;
   open: `HeapEntriesBuffered` and the delivery theorems
   with stale credit; what survives of `FlowControl` in a second session.
