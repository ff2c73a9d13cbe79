---------------------------- MODULE SessionProofs ----------------------------
(***************************************************************************)
(* The host, the network and the FPGA of LudpSession, for every window,    *)
(* credit interval, number of attempts, flush threshold and mode, and any  *)
(* losses and overtakings the theorem at hand does not exclude.            *)
(***************************************************************************)
EXTENDS LudpSession, WellFoundedInduction, SequenceTheorems, TLAPS

-----------------------------------------------------------------------------
(***************************************************************************)
(* Types.  TypeOK by owner, with what the labels of the receive and main   *)
(* threads say of their locals.                                            *)
(***************************************************************************)
SeqRecords == [type : {"SEQ"}, seq : Nat]

RecvRecords == [pc : RecvLabels, timed : BOOLEAN, credit : Nat, io : IoLabels,
                pkt : Packets \cup {NoPacket} \cup SeqRecords]
PollRecords == [pc : PollLabels, last_expected : Nat, stalled : BOOLEAN,
                skip_to : Nat, credit : Nat, quiet : 0 .. 2, io : IoLabels]
AppRecords == [mode : MODES, pc : AppLabels, op : Ops \cup {"NONE"}, attempt : 0 .. RETRIES,
               next_id : Nat, acked : BOOLEAN, data : SUBSET BOOLEAN, cmds : 0 .. MAX_CMDS,
               read : SUBSET BOOLEAN, believes : SUBSET BOOLEAN, at_stop : Nat]

StateTypes ==
  /\ expected_seq \in Nat /\ abs_credit \in Nat
  /\ ooo_heap \subseteq Nat /\ out_of_order \subseteq Packets
  /\ received \in BOOLEAN /\ running \in BOOLEAN
RecvTypes ==
  /\ recv \in RecvRecords
  /\ recv.pc \in {"equal", "greater", "push", "store", "deliver"} => recv.pkt \in Packets
  /\ recv.pc = "take" => recv.pkt \in SeqRecords
PollTypes == poll \in PollRecords
AppTypes ==
  /\ app \in AppRecords
  /\ app.pc /= "wait" => app.attempt < RETRIES
  /\ app.pc \in {"send", "wait"} => app.op \in Ops
OutputTypes == delivered \in Seq(Packets) /\ write_buf \in Seq(Packets) /\ file \in Seq(Packets)
NetTypes == h2f \in Seq(FromHost) /\ f2h \in Seq(Packets \cup Answers)
FpgaTypes ==
  /\ f_enabled \in BOOLEAN /\ f_credit \in Nat /\ f_seq \in Nat
  /\ f_sending \in BOOLEAN /\ f_resp \subseteq Answers /\ f_session \in Nat /\ faults \in Nat

TypeInv ==
  /\ StateTypes /\ RecvTypes /\ PollTypes /\ AppTypes /\ OutputTypes /\ NetTypes /\ FpgaTypes

\* A nonempty set of numbers has a smallest one: the head of the heap.
LEMMA HeapHead ==
  ASSUME ooo_heap \subseteq Nat, ooo_heap /= {}
  PROVE  HeapMin \in ooo_heap /\ HeapMin \in Nat /\ \A n \in ooo_heap : HeapMin <= n
<1> DEFINE R == {p \in Nat \X Nat : p[1] < p[2]}
<1>1. IsWellFoundedOn(R, Nat)  BY NatLessThanWellFounded, Zenon DEF OpToRel
<1>2. PICK x \in ooo_heap : \A y \in ooo_heap : ~(<<y, x>> \in R)
  <2> HIDE DEF R
  <2>. QED BY <1>1, WFMin
<1>3. \A y \in ooo_heap : x <= y
  <2>1. \A y \in ooo_heap : y \in Nat /\ x \in Nat  BY <1>2
  <2>2. \A y \in Nat : y < x => <<y, x>> \in R  BY <2>1
  <2>3. \A y \in ooo_heap : ~(y < x)
    <3> HIDE DEF R
    <3>. QED BY <1>2, <2>1, <2>2
  <2> HIDE DEF R
  <2>. QED BY <2>1, <2>3
<1>4. HeapMin \in ooo_heap /\ \A n \in ooo_heap : HeapMin <= n
  <2> HIDE DEF R
  <2>. QED BY <1>3 DEF HeapMin
<1>. QED BY <1>4

\* The parts together are the type invariant of LudpSession.
LEMMA TypeParts == TypeInv => TypeOK
BY DEF TypeInv, StateTypes, RecvTypes, PollTypes, AppTypes, OutputTypes, NetTypes, FpgaTypes,
       RecvRecords, PollRecords, AppRecords, SeqRecords, TypeOK

\* A step keeps the types of what it leaves alone.
LEMMA TypesKept ==
  /\ StateTypes /\ UNCHANGED state => StateTypes'
  /\ RecvTypes /\ UNCHANGED recv => RecvTypes'
  /\ PollTypes /\ UNCHANGED poll => PollTypes'
  /\ AppTypes /\ UNCHANGED app => AppTypes'
  /\ OutputTypes /\ UNCHANGED output => OutputTypes'
  /\ NetTypes /\ UNCHANGED net => NetTypes'
  /\ FpgaTypes /\ UNCHANGED <<fpgaVars, faults>> => FpgaTypes'
<1>1. StateTypes /\ UNCHANGED state => StateTypes'  BY DEF StateTypes, state, bufVars
<1>2. RecvTypes /\ UNCHANGED recv => RecvTypes'  BY DEF RecvTypes
<1>3. PollTypes /\ UNCHANGED poll => PollTypes'  BY DEF PollTypes
<1>4. AppTypes /\ UNCHANGED app => AppTypes'  BY DEF AppTypes
<1>5. OutputTypes /\ UNCHANGED output => OutputTypes'  BY DEF OutputTypes, output
<1>6. NetTypes /\ UNCHANGED net => NetTypes'  BY DEF NetTypes, net
<1>7. FpgaTypes /\ UNCHANGED <<fpgaVars, faults>> => FpgaTypes'  BY DEF FpgaTypes, fpgaVars
<1>. QED BY <1>1, <1>2, <1>3, <1>4, <1>5, <1>6, <1>7

\* What a thread puts into the output, and what it sends.
LEMMA OutputSteps ==
  ASSUME TypeInv
  PROVE  /\ \A p \in Packets : Deliver(p) => OutputTypes'
         /\ \A io : Flush(io) /\ UNCHANGED delivered => OutputTypes'
         /\ \A m \in FromHost : SendTo(m) => NetTypes'
         /\ IoAfterDeliver \in IoLabels /\ \A io : AfterFlush(io) \in IoLabels
         /\ NewCredit \in Nat
<1>1. OutputTypes /\ NetTypes /\ expected_seq \in Nat  BY DEF TypeInv, StateTypes
<1>2. ASSUME NEW p \in Packets, Deliver(p) PROVE OutputTypes'
  BY <1>1, <1>2 DEF OutputTypes, Deliver
<1>3. ASSUME NEW io, Flush(io), UNCHANGED delivered PROVE OutputTypes'
  <2>1. file \o write_buf \in Seq(Packets) /\ <<>> \in Seq(Packets)
    BY <1>1, ConcatProperties, EmptySeq DEF OutputTypes
  <2>. QED BY <1>1, <1>3, <2>1 DEF OutputTypes, Flush
<1>4. ASSUME NEW m \in FromHost, SendTo(m) PROVE NetTypes'
  <2>1. h2f' = Append(h2f, m) /\ f2h' = f2h  BY <1>4 DEF SendTo
  <2>. QED BY <1>1, <1>4, <2>1 DEF NetTypes
<1>5. IoAfterDeliver \in IoLabels /\ \A io : AfterFlush(io) \in IoLabels
  BY DEF IoAfterDeliver, AfterFlush, IoLabels
<1>6. NewCredit \in Nat  BY <1>1, HostAssumption DEF NewCredit
<1>. QED BY <1>2, <1>3, <1>4, <1>5, <1>6

\* Every packet in the sockets is one of the kinds its receiver tells apart.
LEMMA Heads ==
  ASSUME NetTypes
  PROVE  /\ f2h /= <<>> => /\ Head(f2h) \in Packets \cup Answers
                           /\ Tail(f2h) \in Seq(Packets \cup Answers)
                           /\ Head(f2h).type = "DATA" => Head(f2h) \in Packets
                           /\ Head(f2h).type \in {"ACK", "CPL"} => Head(f2h) \in Answers
         /\ h2f /= <<>> => /\ Head(h2f) \in FromHost
                           /\ Tail(h2f) \in Seq(FromHost)
<1>1. \A p \in Packets \cup Answers : /\ p.type = "DATA" => p \in Packets
                                      /\ p.type \in {"ACK", "CPL"} => p \in Answers
  BY DEF Packets, Answers
<1> DEFINE P == Packets \cup Answers
<1>2. f2h \in Seq(P) /\ h2f \in Seq(FromHost)  BY DEF NetTypes
<1> HIDE DEF P
<1>3. f2h /= <<>> => Head(f2h) \in P /\ Tail(f2h) \in Seq(P)  BY <1>2
<1>4. h2f /= <<>> => Head(h2f) \in FromHost /\ Tail(h2f) \in Seq(FromHost)  BY <1>2
<1>. QED BY <1>1, <1>3, <1>4 DEF P

\* The receive thread returns to the top of its loop.
LEMMA BackTypes ==
  ASSUME RecvTypes, RecvBack
  PROVE  RecvTypes'
<1>1. recv \in RecvRecords  BY DEF RecvTypes
<1>2. recv' = [recv EXCEPT !.pc = "loop", !.pkt = NoPacket, !.credit = 0]  BY DEF RecvBack
<1>3. recv' \in RecvRecords  BY <1>1, <1>2 DEF RecvRecords, RecvLabels
<1>4. recv'.pc = "loop"  BY <1>1, <1>2 DEF RecvRecords
<1>. QED BY <1>3, <1>4 DEF RecvTypes

\* A step of the receive thread.
LEMMA TypeRecv ==
  ASSUME TypeInv, RecvThread, UNCHANGED <<fpgaVars, faults>>
  PROVE  TypeInv'
<1>1. /\ StateTypes /\ RecvTypes /\ PollTypes /\ AppTypes /\ OutputTypes /\ NetTypes /\ FpgaTypes
  BY DEF TypeInv
<1>2. PollTypes' /\ FpgaTypes'
  <2>1. UNCHANGED poll
    BY DEF RecvThread, RecvLoop, RecvTimeout, RecvPacket, RecvEqual, RecvGreater, RecvPush,
           RecvStore, RecvDeliver, RecvFlush, RecvAdvance, RecvPurge, RecvDrain, RecvTake,
           RecvCredit, RecvSend, RecvSetCredit
  <2>. QED BY <1>1, <2>1, TypesKept
<1> SUFFICES StateTypes' /\ RecvTypes' /\ AppTypes' /\ OutputTypes' /\ NetTypes'
  BY <1>2 DEF TypeInv
<1>3. CASE RecvLoop
  <2>1. PICK d \in BOOLEAN : recv' \in {[recv EXCEPT !.pc = "recv", !.timed = d],
                                        [recv EXCEPT !.pc = "dead"]}
    <3>1. (app.pc = "drain") \in BOOLEAN  BY Zenon
    <3>. QED BY <1>3, <3>1 DEF RecvLoop
  <2>2. RecvTypes'  BY <1>1, <2>1 DEF RecvTypes, RecvRecords, RecvLabels
  <2>. QED BY <1>1, <1>3, <2>2, TypesKept DEF RecvLoop
<1>4. CASE RecvTimeout \/ RecvEqual \/ RecvGreater
  <2> SUFFICES RecvTypes'
    BY <1>1, <1>4, TypesKept DEF RecvTimeout, RecvEqual, RecvGreater
  <2>1. CASE RecvTimeout
    BY <1>1, <2>1 DEF RecvTimeout, RecvGoto, RecvTypes, RecvRecords, RecvLabels
  <2>2. CASE RecvEqual
    BY <1>1, <2>2 DEF RecvEqual, RecvGoto, RecvTypes, RecvRecords, RecvLabels
  <2>3. CASE RecvGreater
    <3>1. CASE RecvBack  BY <1>1, <3>1, BackTypes
    <3>2. CASE RecvGoto("push")
      BY <1>1, <2>3, <3>2 DEF RecvGreater, RecvGoto, RecvTypes, RecvRecords, RecvLabels
    <3>. QED BY <2>3, <3>1, <3>2 DEF RecvGreater
  <2>. QED BY <1>4, <2>1, <2>2, <2>3
<1>5. CASE RecvPacket
  <2> DEFINE p == Head(f2h)
  <2>1. /\ p \in Packets \cup Answers /\ Tail(f2h) \in Seq(Packets \cup Answers)
        /\ p.type = "DATA" => p \in Packets
        /\ p.type \in {"ACK", "CPL"} => p \in Answers
    BY <1>1, <1>5, Heads DEF RecvPacket
  <2>2. NetTypes'  BY <1>1, <1>5, <2>1 DEF RecvPacket, NetTypes
  <2>3. StateTypes'  BY <1>1, <1>5 DEF RecvPacket, StateTypes, bufVars
  <2>4. RecvTypes'
    BY <1>1, <1>5, <2>1 DEF RecvPacket, RecvTypes, RecvRecords, RecvLabels
  <2>5. AppTypes'
    <3>1. p \in Answers => p.data \in SUBSET BOOLEAN  BY DEF Answers
    <3> HIDE DEF p
    <3>2. app' = app \/ (app' = [app EXCEPT !.acked = TRUE, !.data = p.data] /\ p \in Answers)
      BY <1>5, <2>1 DEF RecvPacket, p
    <3>. QED BY <1>1, <3>1, <3>2 DEF AppTypes, AppRecords
  <2>. QED BY <1>1, <1>5, <2>2, <2>3, <2>4, <2>5, TypesKept DEF RecvPacket
<1>6. CASE RecvPush
  <2>1. recv.pkt \in Packets /\ recv.pkt.seq \in Nat
    BY <1>1, <1>6 DEF RecvPush, RecvTypes, Packets
  <2>2. RecvTypes'
    BY <1>1, <1>6, <2>1 DEF RecvPush, RecvGoto, RecvTypes, RecvRecords, RecvLabels
  <2>3. StateTypes'  BY <1>1, <1>6, <2>1 DEF RecvPush, StateTypes
  <2>. QED BY <1>1, <1>6, <2>2, <2>3, TypesKept DEF RecvPush
<1>7. CASE RecvStore
  <2>1. recv.pkt \in Packets  BY <1>1, <1>7 DEF RecvStore, RecvTypes
  <2>2. RecvTypes'  BY <1>1, <1>7 DEF RecvStore, RecvBack, RecvTypes, RecvRecords, RecvLabels
  <2>3. StateTypes'  BY <1>1, <1>7, <2>1 DEF RecvStore, StateTypes
  <2>. QED BY <1>1, <1>7, <2>2, <2>3, TypesKept DEF RecvStore
<1>8. CASE RecvDeliver
  <2>1. recv.pkt \in Packets  BY <1>1, <1>8 DEF RecvDeliver, RecvTypes
  <2>2. RecvTypes'
    BY <1>1, <1>8, OutputSteps DEF RecvDeliver, RecvTypes, RecvRecords, RecvLabels
  <2>. QED BY <1>1, <1>8, <2>1, <2>2, TypesKept, OutputSteps DEF RecvDeliver
<1>9. CASE RecvFlush
  <2>1. RecvTypes'  BY <1>1, <1>9, OutputSteps DEF RecvFlush, RecvTypes, RecvRecords
  <2>. QED BY <1>1, <1>9, <2>1, TypesKept, OutputSteps DEF RecvFlush
<1>10. CASE RecvAdvance
  <2>1. RecvTypes'
    BY <1>1, <1>10 DEF RecvAdvance, RecvGoto, RecvTypes, RecvRecords, RecvLabels
  <2>2. StateTypes'  BY <1>1, <1>10 DEF RecvAdvance, StateTypes, bufVars
  <2>. QED BY <1>1, <1>10, <2>1, <2>2, TypesKept DEF RecvAdvance
<1>11. CASE RecvPurge
  <2>1. RecvTypes'
    BY <1>1, <1>11 DEF RecvPurge, RecvGoto, RecvTypes, RecvRecords, RecvLabels
  <2>2. StateTypes'  BY <1>1, <1>11 DEF RecvPurge, StateTypes
  <2>. QED BY <1>1, <1>11, <2>1, <2>2, TypesKept DEF RecvPurge
<1>12. CASE RecvDrain
  <2>1. ooo_heap /= {} => [type |-> "SEQ", seq |-> HeapMin] \in SeqRecords
    BY <1>1, HeapHead DEF StateTypes, SeqRecords
  <2>2. RecvTypes'
    BY <1>1, <1>12, <2>1 DEF RecvDrain, RecvGoto, RecvTypes, RecvRecords, RecvLabels
  <2>3. StateTypes'  BY <1>1, <1>12 DEF RecvDrain, StateTypes
  <2>. QED BY <1>1, <1>12, <2>2, <2>3, TypesKept DEF RecvDrain
<1>13. CASE RecvTake
  <2>1. RecvTypes'
    BY <1>1, <1>13, OutputSteps DEF RecvTake, RecvGoto, RecvTypes, RecvRecords, RecvLabels
  <2>2. StateTypes'  BY <1>1, <1>13 DEF RecvTake, StateTypes
  <2>3. OutputTypes'
    <3>1. (\E p \in out_of_order : Deliver(p)) \/ UNCHANGED output
      BY <1>13 DEF RecvTake
    <3>. QED BY <1>1, <3>1, TypesKept, OutputSteps DEF StateTypes
  <2>. QED BY <1>1, <1>13, <2>1, <2>2, <2>3, TypesKept DEF RecvTake
<1>14. CASE RecvCredit
  <2>1. NewCredit \in Nat  BY OutputSteps
  <2>2. RecvTypes'
    <3>1. CASE RecvBack  BY <1>1, <3>1, BackTypes
    <3>2. CASE recv' = [recv EXCEPT !.pc = "send", !.credit = NewCredit, !.pkt = NoPacket]
      BY <1>1, <2>1, <3>2 DEF RecvTypes, RecvRecords, RecvLabels
    <3>. QED BY <1>14, <3>1, <3>2 DEF RecvCredit
  <2>. QED BY <1>1, <1>14, <2>2, TypesKept DEF RecvCredit
<1>15. CASE RecvSend
  <2>1. Credit(recv.credit) \in FromHost
    BY <1>1 DEF RecvTypes, RecvRecords, Credit, FromHost
  <2>2. RecvTypes'
    BY <1>1, <1>15 DEF RecvSend, RecvGoto, RecvTypes, RecvRecords, RecvLabels
  <2>. QED BY <1>1, <1>15, <2>1, <2>2, TypesKept, OutputSteps DEF RecvSend
<1>16. CASE RecvSetCredit
  <2>1. RecvTypes'
    BY <1>1, <1>16 DEF RecvSetCredit, RecvBack, RecvTypes, RecvRecords, RecvLabels
  <2>2. StateTypes'
    BY <1>1, <1>16 DEF RecvSetCredit, StateTypes, RecvTypes, RecvRecords, bufVars
  <2>. QED BY <1>1, <1>16, <2>1, <2>2, TypesKept DEF RecvSetCredit
<1>. QED BY <1>3, <1>4, <1>5, <1>6, <1>7, <1>8, <1>9, <1>10, <1>11, <1>12,
            <1>13, <1>14, <1>15, <1>16 DEF RecvThread

\* A step of the polling thread.
LEMMA TypePoll ==
  ASSUME TypeInv, PollThread, UNCHANGED <<fpgaVars, faults>>
  PROVE  TypeInv'
<1>1. /\ StateTypes /\ RecvTypes /\ PollTypes /\ AppTypes /\ OutputTypes /\ NetTypes /\ FpgaTypes
  BY DEF TypeInv
<1>2. RecvTypes' /\ AppTypes' /\ FpgaTypes'
  <2>1. UNCHANGED <<recv, app>>
    BY DEF PollThread, PollSleep, PollCredit, PollSend, PollSetCredit, PollGap, PollPurge,
           PollSkip, PollDrain, PollTake, PollFlush, PollAdvance, PollSkipCredit,
           PollSkipSetCredit, PollKeepAlive
  <2>. QED BY <1>1, <2>1, TypesKept
<1>3. poll \in PollRecords /\ expected_seq \in Nat /\ NewCredit \in Nat
  BY <1>1, OutputSteps DEF PollTypes, StateTypes
<1> SUFFICES StateTypes' /\ PollTypes' /\ OutputTypes' /\ NetTypes'
  BY <1>2 DEF TypeInv
<1>4. CASE PollSleep
  <2>1. (IF received THEN 0 ELSE IF poll.quiet < 2 THEN poll.quiet + 1 ELSE 2) \in 0 .. 2
    BY <1>3 DEF PollRecords
  <2>2. PollTypes'
    <3>1. CASE ~running
      BY <1>3, <1>4, <3>1 DEF PollSleep, PollTypes, PollRecords, PollLabels
    <3>2. CASE running
      <4>1. PICK q \in 0 .. 2 : poll' = [poll EXCEPT !.pc = "credit", !.quiet = q]
        BY <1>4, <2>1, <3>2 DEF PollSleep
      <4>. QED BY <1>3, <4>1 DEF PollTypes, PollRecords, PollLabels
    <3>. QED BY <3>1, <3>2
  <2>. QED BY <1>1, <1>4, <2>2, TypesKept DEF PollSleep
<1>5. CASE PollCredit
  <2>1. PollTypes'  BY <1>3, <1>5 DEF PollCredit, PollTypes, PollRecords, PollLabels
  <2>. QED BY <1>1, <1>5, <2>1, TypesKept DEF PollCredit
<1>6. CASE PollSend
  <2>1. Credit(poll.credit) \in FromHost  BY <1>3 DEF PollRecords, Credit, FromHost
  <2>2. PollTypes'  BY <1>3, <1>6 DEF PollSend, PollGoto, PollTypes, PollRecords, PollLabels
  <2>. QED BY <1>1, <1>6, <2>1, <2>2, TypesKept, OutputSteps DEF PollSend
<1>7. CASE PollSetCredit
  <2>1. PollTypes'  BY <1>3, <1>7 DEF PollSetCredit, PollTypes, PollRecords, PollLabels
  <2>2. StateTypes'  BY <1>1, <1>3, <1>7 DEF PollSetCredit, StateTypes, PollRecords, bufVars
  <2>. QED BY <1>1, <1>7, <2>1, <2>2, TypesKept DEF PollSetCredit
<1>8. CASE PollGap
  <2>1. PollTypes'  BY <1>3, <1>8 DEF PollGap, PollTypes, PollRecords, PollLabels
  <2>. QED BY <1>1, <1>8, <2>1, TypesKept DEF PollGap
<1>9. CASE PollPurge
  <2>1. ooo_heap /= {} => HeapMin \in Nat  BY <1>1, HeapHead DEF StateTypes
  <2>2. PollTypes'  BY <1>3, <1>9, <2>1 DEF PollPurge, PollTypes, PollRecords, PollLabels
  <2>3. StateTypes'  BY <1>1, <1>9 DEF PollPurge, StateTypes
  <2>. QED BY <1>1, <1>9, <2>2, <2>3, TypesKept DEF PollPurge
<1>10. CASE PollSkip
  <2>1. PollTypes'  BY <1>3, <1>10 DEF PollSkip, PollGoto, PollTypes, PollRecords, PollLabels
  <2>2. StateTypes'  BY <1>1, <1>3, <1>10 DEF PollSkip, StateTypes, PollRecords, bufVars
  <2>. QED BY <1>1, <1>10, <2>1, <2>2, TypesKept DEF PollSkip
<1>11. CASE PollDrain
  <2>1. ooo_heap /= {} => HeapMin \in Nat  BY <1>1, HeapHead DEF StateTypes
  <2>2. PollTypes'
    BY <1>3, <1>11, <2>1 DEF PollDrain, PollGoto, PollTypes, PollRecords, PollLabels
  <2>3. StateTypes'  BY <1>1, <1>11 DEF PollDrain, StateTypes
  <2>. QED BY <1>1, <1>11, <2>2, <2>3, TypesKept DEF PollDrain
<1>12. CASE PollTake
  <2>1. PollTypes'
    BY <1>3, <1>12, OutputSteps DEF PollTake, PollGoto, PollTypes, PollRecords, PollLabels
  <2>2. StateTypes'  BY <1>1, <1>12 DEF PollTake, StateTypes
  <2>3. OutputTypes'
    <3>1. (\E p \in out_of_order : Deliver(p)) \/ UNCHANGED output  BY <1>12 DEF PollTake
    <3>. QED BY <1>1, <3>1, TypesKept, OutputSteps DEF StateTypes
  <2>. QED BY <1>1, <1>12, <2>1, <2>2, <2>3, TypesKept DEF PollTake
<1>13. CASE PollFlush
  <2>1. PollTypes'  BY <1>3, <1>13, OutputSteps DEF PollFlush, PollTypes, PollRecords
  <2>. QED BY <1>1, <1>13, <2>1, TypesKept, OutputSteps DEF PollFlush
<1>14. CASE PollAdvance
  <2>1. PollTypes'  BY <1>3, <1>14 DEF PollAdvance, PollGoto, PollTypes, PollRecords, PollLabels
  <2>2. StateTypes'  BY <1>1, <1>14 DEF PollAdvance, StateTypes, bufVars
  <2>. QED BY <1>1, <1>14, <2>1, <2>2, TypesKept DEF PollAdvance
<1>15. CASE PollSkipCredit
  <2>1. PollTypes'  BY <1>3, <1>15 DEF PollSkipCredit, PollTypes, PollRecords, PollLabels
  <2>. QED BY <1>1, <1>15, <2>1, TypesKept DEF PollSkipCredit
<1>16. CASE PollSkipSetCredit
  <2>1. PollTypes'  BY <1>3, <1>16 DEF PollSkipSetCredit, PollTypes, PollRecords, PollLabels
  <2>2. StateTypes'  BY <1>1, <1>3, <1>16 DEF PollSkipSetCredit, StateTypes, PollRecords, bufVars
  <2>. QED BY <1>1, <1>16, <2>1, <2>2, TypesKept DEF PollSkipSetCredit
<1>17. CASE PollKeepAlive
  <2>1. Credit(abs_credit) \in FromHost  BY <1>1 DEF StateTypes, Credit, FromHost
  <2>2. PollTypes'
    <3>1. CASE poll' = [poll EXCEPT !.pc = "sleep", !.quiet = 0]
      <4>1. PICK q \in 0 .. 2 : poll' = [poll EXCEPT !.pc = "sleep", !.quiet = q]  BY <3>1
      <4>. QED BY <1>3, <4>1 DEF PollTypes, PollRecords, PollLabels
    <3>2. CASE poll' = [poll EXCEPT !.pc = "sleep"]
      BY <1>3, <3>2 DEF PollTypes, PollRecords, PollLabels
    <3>. QED BY <1>17, <3>1, <3>2 DEF PollKeepAlive, PollGoto
  <2>. QED BY <1>1, <1>17, <2>1, <2>2, TypesKept, OutputSteps DEF PollKeepAlive
<1>. QED BY <1>4, <1>5, <1>6, <1>7, <1>8, <1>9, <1>10, <1>11, <1>12, <1>13, <1>14, <1>15,
            <1>16, <1>17 DEF PollThread

\* An assignment to one local of the main thread.
LEMMA AppUpdate ==
  ASSUME NEW r \in AppRecords
  PROVE  /\ \A c \in AppLabels : [r EXCEPT !.pc = c] \in AppRecords
         /\ \A o \in Ops \cup {"NONE"} : [r EXCEPT !.op = o] \in AppRecords
         /\ \A n \in 0 .. RETRIES : [r EXCEPT !.attempt = n] \in AppRecords
         /\ \A n \in Nat : [r EXCEPT !.next_id = n] \in AppRecords
         /\ \A b \in BOOLEAN : [r EXCEPT !.acked = b] \in AppRecords
         /\ \A v \in SUBSET BOOLEAN : [r EXCEPT !.data = v] \in AppRecords
         /\ \A n \in 0 .. MAX_CMDS : [r EXCEPT !.cmds = n] \in AppRecords
         /\ \A v \in SUBSET BOOLEAN : [r EXCEPT !.read = v] \in AppRecords
         /\ \A v \in SUBSET BOOLEAN : [r EXCEPT !.believes = v] \in AppRecords
<1>1. \A c \in AppLabels : [r EXCEPT !.pc = c] \in AppRecords  BY DEF AppRecords
<1>2. \A o \in Ops \cup {"NONE"} : [r EXCEPT !.op = o] \in AppRecords  BY DEF AppRecords
<1>3. \A n \in 0 .. RETRIES : [r EXCEPT !.attempt = n] \in AppRecords  BY DEF AppRecords
<1>4. \A n \in Nat : [r EXCEPT !.next_id = n] \in AppRecords  BY DEF AppRecords
<1>5. \A b \in BOOLEAN : [r EXCEPT !.acked = b] \in AppRecords  BY DEF AppRecords
<1>6. \A v \in SUBSET BOOLEAN : [r EXCEPT !.data = v] \in AppRecords  BY DEF AppRecords
<1>7. \A n \in 0 .. MAX_CMDS : [r EXCEPT !.cmds = n] \in AppRecords  BY DEF AppRecords
<1>8. \A v \in SUBSET BOOLEAN : [r EXCEPT !.read = v] \in AppRecords  BY DEF AppRecords
<1>9. \A v \in SUBSET BOOLEAN : [r EXCEPT !.believes = v] \in AppRecords  BY DEF AppRecords
<1>. QED BY <1>1, <1>2, <1>3, <1>4, <1>5, <1>6, <1>7, <1>8, <1>9

\* A step of the main thread.
LEMMA TypeApp ==
  ASSUME TypeInv, AppThread, UNCHANGED <<fpgaVars, faults>>
  PROVE  TypeInv'
<1>1. /\ StateTypes /\ RecvTypes /\ PollTypes /\ AppTypes /\ OutputTypes /\ NetTypes /\ FpgaTypes
  BY DEF TypeInv
<1>2. RecvTypes' /\ PollTypes' /\ FpgaTypes'
  <2>1. UNCHANGED <<recv, poll>>
    BY DEF AppThread, AppSetTimeout, AppDrain, AppReset, AppSendCmd, AppAcked, AppTimeout,
           AppCredit, AppDurationOver, AppShellCmd, AppShellCredit, AppShellQuit, AppStop,
           AppJoin, AppFlush
  <2>. QED BY <1>1, <2>1, TypesKept
<1>3. /\ app \in AppRecords
      /\ app.pc /= "wait" => app.attempt < RETRIES
      /\ app.pc \in {"send", "wait"} => app.op \in Ops
      /\ RETRIES \in Nat /\ RETRIES > 0 /\ MAX_CMDS \in Nat /\ 0 \in 0 .. RETRIES
      /\ FALSE \in BOOLEAN /\ {} \in SUBSET BOOLEAN
  BY <1>1, HostAssumption DEF AppTypes
<1> USE DEF AppTypes
<1> SUFFICES StateTypes' /\ AppTypes' /\ OutputTypes' /\ NetTypes'
  BY <1>2 DEF TypeInv
<1>4. CASE AppSetTimeout
  <2>1. AppTypes'  BY <1>3, <1>4 DEF AppSetTimeout, AppGoto, AppRecords, AppLabels
  <2>. QED BY <1>1, <1>4, <2>1, TypesKept DEF AppSetTimeout
<1>5. CASE AppDrain
  <2>1. AppTypes'
    BY <1>3, <1>5 DEF AppDrain, AppGoto, AppRecords, AppLabels, ResetNext
  <2>2. NetTypes'  BY <1>1, <1>5, Heads DEF AppDrain, NetTypes
  <2>. QED BY <1>1, <1>5, <2>1, <2>2, TypesKept DEF AppDrain
<1>6. CASE AppReset
  <2>1. AppTypes'
    <3>1. PICK c \in AppLabels, o \in Ops \cup {"NONE"} :
            app' = [app EXCEPT !.pc = c, !.op = o] /\ c /= "wait" /\ (c = "send" => o \in Ops)
      <4>1. ResetNext[app.pc] \in AppLabels \ {"wait"}
        BY <1>6 DEF AppReset, AppLabels, ResetNext
      <4>2. app.pc /= "reset_stats" => ResetNext[app.pc] /= "send"
        BY <1>6 DEF AppReset, ResetNext
      <4>3. app.op \in Ops \cup {"NONE"}  BY <1>3 DEF AppRecords
      <4>. QED BY <1>6, <4>1, <4>2, <4>3 DEF AppReset, Ops
    <3>2. app' \in AppRecords  BY <1>3, <3>1, AppUpdate
    <3>3. app'.pc = c /\ app'.op = o /\ app'.attempt = app.attempt
      BY <1>3, <3>1 DEF AppRecords
    <3>. QED BY <1>3, <1>6, <3>1, <3>2, <3>3 DEF AppReset, ResetNext
  <2>2. StateTypes'
    <3>1. (app.pc /= "reset_stats" /\ received) \in BOOLEAN  BY Zenon
    <3>. QED BY <1>1, <1>6, <3>1, HostAssumption DEF AppReset, StateTypes
  <2>. QED BY <1>1, <1>6, <2>1, <2>2, TypesKept DEF AppReset
<1>7. CASE AppSendCmd
  <2>1. Cmd(app.op, app.next_id) \in FromHost
    BY <1>3, <1>7 DEF AppSendCmd, AppRecords, Cmd, FromHost
  <2>2. AppTypes'
    <3>1. app.attempt + 1 \in 0 .. RETRIES /\ app.next_id + 1 \in Nat /\ app.op \in Ops
      BY <1>3, <1>7 DEF AppSendCmd, AppRecords
    <3>2. app' \in AppRecords  BY <1>3, <1>7, <3>1 DEF AppSendCmd, AppRecords, AppLabels
    <3>3. app'.pc = "wait" /\ app'.op = app.op  BY <1>3, <1>7 DEF AppSendCmd, AppRecords
    <3>. QED BY <3>1, <3>2, <3>3
  <2>. QED BY <1>1, <1>7, <2>1, <2>2, TypesKept, OutputSteps DEF AppSendCmd
<1>8. CASE AppAcked
  <2>1. PICK d \in BOOLEAN : d = (app.op = "START")
    <3>1. (app.op = "START") \in BOOLEAN  BY Zenon
    <3>. QED BY <3>1
  <2>2. AppAfter(TRUE) \in {"credit", "stop", "prompt"}  BY DEF AppAfter
  <2>3. PICK c \in {"credit", "stop", "prompt"}, b \in SUBSET BOOLEAN :
          app' = [app EXCEPT !.pc = c, !.attempt = 0, !.read = app.data, !.data = {},
                             !.believes = b]
    BY <1>3, <1>8, <2>1, <2>2 DEF AppAcked, AppRecords
  <2>4. AppTypes'
    <3>1. c \in AppLabels /\ app.data \in SUBSET BOOLEAN  BY <1>3, <2>3 DEF AppRecords, AppLabels
    <3>2. app' \in AppRecords  BY <1>3, <2>3, <3>1, AppUpdate
    <3>3. app'.pc = c /\ app'.attempt = 0  BY <1>3, <2>3 DEF AppRecords
    <3>. QED BY <1>3, <3>2, <3>3
  <2>. QED BY <1>1, <1>8, <2>4, TypesKept DEF AppAcked
<1>9. CASE AppTimeout
  <2>1. AppAfter(FALSE) \in {"stop", "prompt"}  BY DEF AppAfter
  <2>2. AppTypes'
    <3>1. app.op \in Ops /\ app.attempt \in 0 .. RETRIES
      BY <1>3, <1>9 DEF AppTimeout, AppRecords
    <3>2. CASE app.attempt = RETRIES \/ app.op = "READ"
      <4>1. app' = [app EXCEPT !.pc = AppAfter(FALSE), !.attempt = 0]
        BY <1>9, <3>2 DEF AppTimeout
      <4>2. app' \in AppRecords  BY <1>3, <2>1, <4>1, AppUpdate DEF AppLabels
      <4>3. app'.pc = AppAfter(FALSE) /\ app'.attempt = 0  BY <1>3, <4>1 DEF AppRecords
      <4>. QED BY <1>3, <2>1, <4>2, <4>3
    <3>3. CASE ~(app.attempt = RETRIES \/ app.op = "READ")
      <4>1. app' = [app EXCEPT !.pc = "send"]  BY <1>9, <3>3 DEF AppTimeout
      <4>2. app' \in AppRecords  BY <1>3, <4>1 DEF AppRecords, AppLabels
      <4>3. app'.pc = "send" /\ app'.attempt = app.attempt /\ app'.op = app.op
        BY <1>3, <4>1 DEF AppRecords
      <4>. QED BY <1>3, <3>1, <3>3, <4>2, <4>3
    <3>. QED BY <3>2, <3>3
  <2>. QED BY <1>1, <1>9, <2>2, TypesKept DEF AppTimeout
<1>10. CASE AppCredit
  <2>1. Credit(abs_credit) \in FromHost  BY <1>1 DEF StateTypes, Credit, FromHost
  <2>2. AppTypes'  BY <1>3, <1>10 DEF AppCredit, AppGoto, AppRecords, AppLabels
  <2>. QED BY <1>1, <1>10, <2>1, <2>2, TypesKept, OutputSteps DEF AppCredit
<1>11. CASE AppDurationOver
  <2>1. AppTypes'
    <3>1. app' \in AppRecords  BY <1>3, <1>11 DEF AppDurationOver, AppRecords, AppLabels, Ops
    <3>2. app'.pc = "send" /\ app'.attempt = app.attempt /\ app'.op = "STOP"
      BY <1>3, <1>11 DEF AppDurationOver, AppRecords
    <3>. QED BY <1>3, <1>11, <3>1, <3>2 DEF AppDurationOver, Ops
  <2>. QED BY <1>1, <1>11, <2>1, TypesKept DEF AppDurationOver
<1>12. CASE AppShellCmd
  <2>1. AppTypes'
    <3>1. PICK o \in Ops, b \in SUBSET BOOLEAN, n \in 0 .. MAX_CMDS :
            app' = [app EXCEPT !.pc = "send", !.op = o, !.cmds = n, !.acked = FALSE,
                               !.read = {}, !.believes = b]
      <4>1. app.cmds + 1 \in 0 .. MAX_CMDS /\ app.believes \in SUBSET BOOLEAN
        BY <1>3, <1>12 DEF AppShellCmd, AppRecords
      <4>. QED BY <1>12, <4>1, <1>3 DEF AppShellCmd, Ops
    <3>2. app' \in AppRecords  BY <1>3, <3>1, AppUpdate DEF AppLabels
    <3>3. app'.pc = "send" /\ app'.attempt = app.attempt /\ app'.op = o
      BY <1>3, <3>1 DEF AppRecords
    <3>. QED BY <1>3, <1>12, <3>2, <3>3 DEF AppShellCmd
  <2>. QED BY <1>1, <1>12, <2>1, TypesKept DEF AppShellCmd
<1>13. CASE AppShellCredit
  <2>1. Credit(WINDOW_SIZE + 1) \in FromHost  BY HostAssumption DEF Credit, FromHost
  <2>2. AppTypes'
    <3>1. app.cmds + 1 \in 0 .. MAX_CMDS  BY <1>3, <1>13 DEF AppShellCredit, AppRecords
    <3>2. app' \in AppRecords  BY <1>3, <1>13, <3>1, AppUpdate DEF AppShellCredit
    <3>3. app'.pc = app.pc /\ app'.attempt = app.attempt /\ app.pc = "prompt"
      BY <1>3, <1>13 DEF AppShellCredit, AppRecords
    <3>. QED BY <1>3, <3>2, <3>3
  <2>. QED BY <1>1, <1>13, <2>1, <2>2, TypesKept, OutputSteps DEF AppShellCredit
<1>14. CASE AppShellQuit
  <2>1. AppTypes'  BY <1>3, <1>14 DEF AppShellQuit, AppGoto, AppRecords, AppLabels
  <2>. QED BY <1>1, <1>14, <2>1, TypesKept DEF AppShellQuit
<1>15. CASE AppStop
  <2>1. Len(delivered) \in Nat  BY <1>1 DEF OutputTypes
  <2>2. AppTypes'  BY <1>3, <1>15, <2>1 DEF AppStop, AppRecords, AppLabels
  <2>3. StateTypes'  BY <1>1, <1>15 DEF AppStop, StateTypes, bufVars
  <2>. QED BY <1>1, <1>15, <2>2, <2>3, TypesKept DEF AppStop
<1>16. CASE AppJoin
  <2>1. AppTypes'  BY <1>3, <1>16 DEF AppJoin, AppGoto, AppRecords, AppLabels
  <2>. QED BY <1>1, <1>16, <2>1, TypesKept DEF AppJoin
<1>17. CASE AppFlush
  <2>1. AppTypes'  BY <1>3, <1>17 DEF AppFlush, AppGoto, AppRecords, AppLabels
  <2>2. OutputTypes'
    <3>1. file \o write_buf \in Seq(Packets) /\ <<>> \in Seq(Packets)
      BY <1>1, ConcatProperties, EmptySeq DEF OutputTypes
    <3>. QED BY <1>1, <1>17, <3>1 DEF AppFlush, OutputTypes
  <2>. QED BY <1>1, <1>17, <2>1, <2>2, TypesKept DEF AppFlush
<1>. QED BY <1>4, <1>5, <1>6, <1>7, <1>8, <1>9, <1>10, <1>11, <1>12, <1>13, <1>14, <1>15,
            <1>16, <1>17 DEF AppThread

\* A step of the FPGA or of the network.
LEMMA TypePeer ==
  ASSUME TypeInv, Fpga \/ Lose \/ Overtake
  PROVE  TypeInv'
<1>1. /\ StateTypes /\ RecvTypes /\ PollTypes /\ AppTypes /\ OutputTypes /\ NetTypes /\ FpgaTypes
  BY DEF TypeInv
<1>2. StateTypes' /\ RecvTypes' /\ PollTypes' /\ AppTypes' /\ OutputTypes'
  <2>1. UNCHANGED hostOnly
    BY DEF Fpga, FpgaReceive, FpgaRespond, FpgaBegin, FpgaFinish, Lose, Overtake
  <2>2. UNCHANGED <<state, recv, poll, app, output>>  BY <2>1 DEF hostOnly
  <2>. QED BY <1>1, <2>2, TypesKept
<1> SUFFICES NetTypes' /\ FpgaTypes'
  BY <1>2 DEF TypeInv
<1>3. CASE FpgaReceive
  <2>1. Head(h2f) \in FromHost /\ Tail(h2f) \in Seq(FromHost)
    BY <1>1, <1>3, Heads DEF FpgaReceive
  <2>2. NetTypes'  BY <1>1, <1>3, <2>1 DEF FpgaReceive, NetTypes
  <2>3. FpgaTypes'
    <3> DEFINE p == Head(h2f)
    <3>1. p \in FromHost /\ faults' = faults  BY <1>3, <2>1 DEF FpgaReceive
    <3>2. CASE p.type = "CMD"
      <4>1. p.id \in Nat /\ p.opcode \in Ops  BY <3>1, <3>2 DEF FromHost
      <4>2. FpgaCmd(p)  BY <1>3, <3>2 DEF FpgaReceive
      <4> HIDE DEF p
      <4>3. Response(p) \in Answers  BY <1>1, <4>1 DEF Response, Answers, FpgaTypes
      <4>4. f_enabled' \in BOOLEAN
        <5>1. (p.opcode = "START") \in BOOLEAN  BY Zenon
        <5>. QED BY <1>1, <4>2, <5>1 DEF FpgaCmd, fpgaVars, FpgaTypes
      <4>5. f_resp' \subseteq Answers  BY <1>1, <4>2, <4>3 DEF FpgaCmd, fpgaVars, FpgaTypes
      <4>6. f_credit' \in Nat /\ f_seq' \in Nat /\ f_session' \in Nat
        BY <1>1, <4>2 DEF FpgaCmd, fpgaVars, FpgaTypes
      <4>7. f_sending' \in BOOLEAN  BY <1>1, <4>2, Zenon DEF FpgaCmd, fpgaVars, FpgaTypes
      <4>. QED BY <1>1, <3>1, <4>4, <4>5, <4>6, <4>7 DEF FpgaTypes
    <3>3. CASE p.type /= "CMD"
      <4>1. p.abs \in Nat  BY <3>1, <3>3 DEF FromHost
      <4>2. FpgaCredit(p)  BY <1>3, <3>3 DEF FpgaReceive
      <4> HIDE DEF p
      <4>. QED BY <1>1, <3>1, <4>1, <4>2 DEF FpgaCredit, FpgaTypes
    <3>. QED BY <3>2, <3>3
  <2>. QED BY <2>2, <2>3
<1>4. CASE FpgaRespond
  <2>1. PICK r \in Answers : f2h' = Append(f2h, r)  BY <1>1, <1>4 DEF FpgaRespond, FpgaTypes
  <2>2. NetTypes'  BY <1>1, <1>4, <2>1 DEF FpgaRespond, NetTypes
  <2>. QED BY <1>1, <1>4, <2>2 DEF FpgaRespond, FpgaTypes
<1>5. CASE FpgaBegin
  <2>1. NetTypes'  BY <1>1, <1>5 DEF FpgaBegin, NetTypes
  <2>. QED BY <1>1, <1>5, <2>1 DEF FpgaBegin, FpgaTypes
<1>6. CASE FpgaFinish
  <2>1. [type |-> "DATA", seq |-> f_seq, session |-> f_session] \in Packets
    BY <1>1 DEF FpgaTypes, Packets
  <2>2. NetTypes'  BY <1>1, <1>6, <2>1 DEF FpgaFinish, NetTypes
  <2>3. f_seq' \in Nat  BY <1>1, <1>6 DEF FpgaFinish, FpgaTypes
  <2>. QED BY <1>1, <1>6, <2>2, <2>3, Zenon DEF FpgaFinish, FpgaTypes
<1>7. CASE Lose
  <2>1. NetTypes'  BY <1>1, <1>7, Heads DEF Lose, NetTypes
  <2>. QED BY <1>1, <1>7, <2>1 DEF Lose, FpgaTypes, fpgaVars
<1>8. CASE Overtake
  <2> DEFINE P == Packets \cup Answers
  <2>1. f2h \in Seq(P) /\ h2f \in Seq(FromHost) /\ Len(f2h) >= 2
    BY <1>1, <1>8 DEF NetTypes, Overtake
  <2> HIDE DEF P
  <2>2. SubSeq(f2h, 3, Len(f2h)) \in Seq(P)  BY <2>1, SubSeqProperties
  <2>3. <<f2h[2], f2h[1]>> \in Seq(P)  BY <2>1
  <2>4. f2h' \in Seq(P)  BY <1>8, <2>2, <2>3, ConcatProperties DEF Overtake
  <2>5. NetTypes'  BY <1>8, <2>1, <2>4 DEF NetTypes, Overtake, P
  <2>. QED BY <1>1, <1>8, <2>5 DEF Overtake, FpgaTypes, fpgaVars
<1>. QED BY <1>3, <1>4, <1>5, <1>6, <1>7, <1>8 DEF Fpga

\* A step that changes nothing keeps every type.
LEMMA TypeStutter == TypeInv /\ UNCHANGED vars => TypeInv'
BY TypesKept DEF TypeInv, vars, hostVars

\* The inductive invariant that every other proof of this module starts from.
THEOREM TypeInvariant == Spec => []TypeInv
<1>1. Init => TypeInv
  <2> SUFFICES ASSUME Init PROVE TypeInv
    OBVIOUS
  <2>1. HostInit  BY DEF Init
  <2>2. StateTypes  BY <2>1, HostAssumption DEF HostInit, StateTypes
  <2>3. RecvTypes  BY <2>1 DEF HostInit, RecvTypes, RecvRecords, RecvLabels, IoLabels
  <2>4. PollTypes  BY <2>1 DEF HostInit, PollTypes, PollRecords, PollLabels, IoLabels
  <2>5. AppTypes
    <3>1. PICK m \in MODES :
            app = [mode |-> m, pc |-> IF m = "logger" THEN "open" ELSE "prompt", op |-> "NONE",
                   attempt |-> 0, next_id |-> 1, acked |-> FALSE, data |-> {}, cmds |-> 0,
                   read |-> {}, believes |-> {}, at_stop |-> 0]
      BY <2>1 DEF HostInit
    <3>2. app \in AppRecords  BY <3>1, HostAssumption DEF AppRecords, AppLabels
    <3>3. app.pc \in {"open", "prompt"} /\ app.attempt = 0  BY <3>1
    <3>. QED BY <3>2, <3>3, HostAssumption DEF AppTypes
  <2>6. OutputTypes /\ NetTypes  BY <2>1, EmptySeq DEF HostInit, OutputTypes, NetTypes
  <2>7. FpgaTypes
    <3>1. (f_credit > 0) \in BOOLEAN  BY SMT
    <3>. QED BY <3>1, SessionAssumption DEF Init, FpgaTypes
  <2>. QED BY <2>2, <2>3, <2>4, <2>5, <2>6, <2>7 DEF TypeInv
<1>2. TypeInv /\ [Next]_vars => TypeInv'
  BY TypeRecv, TypePoll, TypeApp, TypePeer, TypeStutter DEF Next, Alive
<1>. QED BY <1>1, <1>2, PTL DEF Spec

\* Type correctness: whatever is lost, overtaken or repeated, every local of the
\* three threads, every queued packet and the FPGA's registers keep their types;
\* the number of attempts never passes that of _send_cmd_wait_ack.
THEOREM SessionTypeCorrect == Spec => []TypeOK
BY TypeInvariant, TypeParts, PTL

-----------------------------------------------------------------------------
(***************************************************************************)
(* Commands.  Attempts carry growing numbers, the FIFO towards the FPGA    *)
(* keeps their order, and the FPGA answers what it executes: an answer to  *)
(* the current attempt means that no command is under way behind it.       *)
(***************************************************************************)
Commands == {m \in Range(h2f) : m.type = "CMD"}
InFlight == f_resp \cup {m \in Range(f2h) : m.type /= "DATA"}

CmdsInOrder ==
  \A i, j \in 1 .. Len(h2f) :
    i < j /\ h2f[i].type = "CMD" /\ h2f[j].type = "CMD" => h2f[i].id < h2f[j].id

IdOrder ==
  /\ \A m \in Commands : m.id < app.next_id
  /\ \A a \in InFlight : a.id < app.next_id /\ \A m \in Commands : a.id < m.id

\* What an answer to op that carries data tells of the FPGA.
Outcome(op, data) ==
  /\ op \in {"START", "STOP"} => f_enabled = (op = "START")
  /\ op = "READ" => data = {f_enabled}

Startup == {"open", "drain"} \cup DOMAIN ResetNext
Settled == {"credit", "run", "prompt", "stop", "join", "flush", "done", "exit"}

Current ==
  app.pc = "wait" =>
    /\ \A m \in Commands : m.id = app.next_id - 1 => m.opcode = app.op
    /\ \A a \in InFlight : a.id = app.next_id - 1 => Outcome(app.op, a.data)
Acknowledged ==
  app.acked => /\ app.pc \in Settled \cup {"wait"} /\ Commands = {}
               /\ Outcome(app.op, IF app.pc = "wait" THEN app.data ELSE app.read)
Believed ==
  app.believes /= {} => /\ app.believes = {f_enabled}
                        /\ \A m \in Commands : m.opcode \notin {"START", "STOP"}
                        /\ app.pc \in {"send", "wait"} => app.op \notin {"START", "STOP"}
                        /\ app.pc \notin Startup

CommandInv == CmdsInOrder /\ IdOrder /\ Current /\ Acknowledged /\ Believed

\* What the operations on a queue do to its elements.
LEMMA QueueElements ==
  ASSUME NEW S, NEW q \in Seq(S)
  PROVE  /\ \A m \in S : /\ Len(Append(q, m)) = Len(q) + 1 /\ Append(q, m)[Len(q) + 1] = m
                         /\ \A i \in 1 .. Len(q) : Append(q, m)[i] = q[i]
                         /\ Range(Append(q, m)) = Range(q) \cup {m}
         /\ q /= <<>> => /\ Len(q) > 0 /\ Head(q) = q[1] /\ Len(Tail(q)) = Len(q) - 1
                         /\ \A i \in 1 .. Len(q) - 1 : Tail(q)[i] = q[i + 1]
                         /\ Head(q) \in Range(q) /\ Range(Tail(q)) \subseteq Range(q)
<1>1. Len(q) \in Nat /\ DOMAIN q = 1 .. Len(q) /\ Range(q) = {q[i] : i \in 1 .. Len(q)}
  BY RangeEquality, LenProperties
<1>2. ASSUME NEW m \in S
      PROVE  /\ Len(Append(q, m)) = Len(q) + 1 /\ Append(q, m)[Len(q) + 1] = m
             /\ \A i \in 1 .. Len(q) : Append(q, m)[i] = q[i]
             /\ Range(Append(q, m)) = Range(q) \cup {m}
  <2>1. /\ Append(q, m) \in Seq(S) /\ Len(Append(q, m)) = Len(q) + 1
        /\ Append(q, m)[Len(q) + 1] = m
        /\ \A i \in 1 .. Len(q) : Append(q, m)[i] = q[i]
    BY AppendProperties
  <2>2. PICK t : t = Append(q, m)  OBVIOUS
  <2>3. Range(t) = {t[i] : i \in 1 .. Len(q) + 1}
    <3>1. t \in Seq(S) /\ Len(t) = Len(q) + 1  BY <2>1, <2>2
    <3>2. Range(t) = {t[i] : i \in 1 .. Len(t)}  BY <3>1, RangeEquality, Zenon
    <3>. QED BY <3>1, <3>2, Zenon
  <2>4. Range(t) = Range(q) \cup {m}
    <3>1. t[Len(q) + 1] = m /\ \A i \in 1 .. Len(q) : t[i] = q[i]  BY <2>1, <2>2
    <3>2. \A i \in 1 .. Len(q) + 1 : i \in 1 .. Len(q) \/ i = Len(q) + 1  BY <1>1
    <3>3. Len(q) + 1 \in 1 .. Len(q) + 1 /\ \A i \in 1 .. Len(q) : i \in 1 .. Len(q) + 1
      BY <1>1
    <3>. QED BY <1>1, <2>3, <3>1, <3>2, <3>3, Zenon
  <2>. QED BY <2>1, <2>2, <2>4
<1>3. ASSUME q /= <<>>
      PROVE  /\ Len(q) > 0 /\ Head(q) = q[1] /\ Len(Tail(q)) = Len(q) - 1
             /\ \A i \in 1 .. Len(q) - 1 : Tail(q)[i] = q[i + 1]
             /\ Head(q) \in Range(q) /\ Range(Tail(q)) \subseteq Range(q)
  <2>1. Len(q) > 0 /\ Head(q) = q[1]
    <3>1. Len(q) \in Nat \ {0}  BY <1>3, EmptySeq
    <3>. QED BY <3>1
  <2>2. /\ Tail(q) \in Seq(S) /\ Len(Tail(q)) = Len(q) - 1
        /\ \A i \in 1 .. Len(q) - 1 : Tail(q)[i] = q[i + 1]
    BY <1>3, HeadTailProperties
  <2>3. Range(Tail(q)) = {Tail(q)[i] : i \in 1 .. Len(q) - 1}  BY <2>2, RangeEquality
  <2>4. \A i \in 1 .. Len(q) - 1 : i + 1 \in 1 .. Len(q)  BY <1>1
  <2>5. 1 \in 1 .. Len(q)  BY <1>1, <2>1
  <2>. QED BY <1>1, <2>1, <2>2, <2>3, <2>4, <2>5, Zenon
<1>. QED BY <1>2, <1>3

\* What a packet that enters or leaves the queue towards the FPGA means for the
\* commands in it.
LEMMA CommandQueue ==
  ASSUME NetTypes, CmdsInOrder
  PROVE  /\ \A m \in Commands : m.id \in Nat /\ m.opcode \in Ops
         /\ \A n \in Nat : SendTo(Credit(n)) => Commands' = Commands /\ CmdsInOrder'
         /\ \A op \in Ops, id \in Nat :
              SendTo(Cmd(op, id)) /\ (\A m \in Commands : m.id < id)
                => Commands' = Commands \cup {Cmd(op, id)} /\ CmdsInOrder'
         /\ h2f /= <<>> /\ h2f' = Tail(h2f)
              => /\ CmdsInOrder' /\ Commands' \subseteq Commands
                 /\ Head(h2f).type = "CMD" => /\ Head(h2f) \in Commands
                                              /\ \A m \in Commands' : Head(h2f).id < m.id
         /\ UNCHANGED h2f => Commands' = Commands /\ CmdsInOrder'
<1>1. /\ h2f \in Seq(FromHost) /\ Len(h2f) \in Nat
      /\ \A i \in 1 .. Len(h2f) : h2f[i] \in FromHost
      /\ Range(h2f) = {h2f[i] : i \in 1 .. Len(h2f)}
  BY LenProperties, ElementOfSeq, RangeEquality DEF NetTypes
<1>2. \A m \in FromHost : m.type = "CMD" => m.id \in Nat /\ m.opcode \in Ops
  BY DEF FromHost
<1>3. \A m \in Commands : m.id \in Nat /\ m.opcode \in Ops
  BY <1>1, <1>2, Zenon DEF Commands
<1>4. ASSUME NEW n \in Nat, SendTo(Credit(n))
      PROVE  Commands' = Commands /\ CmdsInOrder'
  <2>1. PICK m \in FromHost : m.type = "CREDIT" /\ h2f' = Append(h2f, m)
    BY <1>4 DEF Credit, FromHost, SendTo
  <2>2. /\ Len(h2f') = Len(h2f) + 1 /\ h2f'[Len(h2f) + 1] = m
        /\ \A i \in 1 .. Len(h2f) : h2f'[i] = h2f[i]
        /\ Range(h2f') = Range(h2f) \cup {m}
    BY <1>1, <2>1, QueueElements
  <2>3. CmdsInOrder'  BY <1>1, <2>1, <2>2 DEF CmdsInOrder
  <2>. QED BY <2>1, <2>2, <2>3 DEF Commands
<1>5. ASSUME NEW op \in Ops, NEW id \in Nat, SendTo(Cmd(op, id)), \A m \in Commands : m.id < id
      PROVE  Commands' = Commands \cup {Cmd(op, id)} /\ CmdsInOrder'
  <2>1. PICK c \in FromHost : c = Cmd(op, id) /\ c.type = "CMD" /\ c.id = id /\ h2f' = Append(h2f, c)
    BY <1>5 DEF Cmd, FromHost, SendTo
  <2>2. /\ Len(h2f') = Len(h2f) + 1 /\ h2f'[Len(h2f) + 1] = c
        /\ \A i \in 1 .. Len(h2f) : h2f'[i] = h2f[i]
        /\ Range(h2f') = Range(h2f) \cup {c}
    BY <1>1, <2>1, QueueElements
  <2>3. \A i \in 1 .. Len(h2f) : h2f[i].type = "CMD" => h2f[i].id < id
    BY <1>1, <1>5, Zenon DEF Commands
  <2>4. CmdsInOrder'  BY <1>1, <2>1, <2>2, <2>3 DEF CmdsInOrder
  <2>. QED BY <2>1, <2>2, <2>4 DEF Commands
<1>6. ASSUME h2f /= <<>>, h2f' = Tail(h2f)
      PROVE  /\ CmdsInOrder' /\ Commands' \subseteq Commands
             /\ Head(h2f).type = "CMD" => /\ Head(h2f) \in Commands
                                          /\ \A m \in Commands' : Head(h2f).id < m.id
  <2>1. /\ Len(h2f) > 0 /\ Head(h2f) = h2f[1] /\ Len(h2f') = Len(h2f) - 1
        /\ \A i \in 1 .. Len(h2f) - 1 : h2f'[i] = h2f[i + 1]
        /\ Head(h2f) \in Range(h2f) /\ Range(h2f') \subseteq Range(h2f)
    BY <1>1, <1>6, QueueElements
  <2>2. CmdsInOrder'  BY <1>1, <2>1 DEF CmdsInOrder
  <2>3. Commands' \subseteq Commands  BY <2>1 DEF Commands
  <2>4. ASSUME Head(h2f).type = "CMD", NEW m \in Commands' PROVE Head(h2f).id < m.id
    <3>1. h2f' \in Seq(FromHost)  BY <1>1, <1>6, HeadTailProperties
    <3>2. PICK i \in 1 .. Len(h2f') : m = h2f'[i] /\ m.type = "CMD"
      BY <3>1, <2>4, RangeEquality DEF Commands
    <3>. QED BY <1>1, <2>1, <2>4, <3>2 DEF CmdsInOrder
  <2>. QED BY <2>1, <2>2, <2>3, <2>4 DEF Commands
<1>7. UNCHANGED h2f => Commands' = Commands /\ CmdsInOrder'  BY DEF Commands, CmdsInOrder
<1>. QED BY <1>3, <1>4, <1>5, <1>6, <1>7

\* A packet that overtakes another is still one of those that were sent.
LEMMA OvertakeRange ==
  ASSUME NetTypes, Overtake
  PROVE  Range(f2h') \subseteq Range(f2h)
<1> DEFINE P == Packets \cup Answers
<1>1. /\ f2h \in Seq(P) /\ Len(f2h) \in Nat /\ Range(f2h) = {f2h[i] : i \in 1 .. Len(f2h)}
  BY LenProperties, RangeEquality DEF NetTypes
<1> HIDE DEF P
<1>2. Len(f2h) >= 2 /\ f2h' = <<f2h[2], f2h[1]>> \o SubSeq(f2h, 3, Len(f2h))  BY DEF Overtake
<1>3. \A i \in 3 .. Len(f2h) : f2h[i] \in Range(f2h)  BY <1>1
<1>4. SubSeq(f2h, 3, Len(f2h)) \in Seq(Range(f2h))  BY <1>1, <1>3, SubSeqProperties
<1>5. f2h[1] \in Range(f2h) /\ f2h[2] \in Range(f2h)  BY <1>1, <1>2
<1>6. <<f2h[2], f2h[1]>> \in Seq(Range(f2h))  BY <1>5
<1>7. f2h' \in Seq(Range(f2h))  BY <1>2, <1>4, <1>6, ConcatProperties
<1>. QED BY <1>7, RangeOfSeq

\* The answers in flight after the queue to the host gained or lost a packet.
LEMMA AnswerQueue ==
  ASSUME NetTypes, FpgaTypes
  PROVE  /\ InFlight \subseteq Answers
         /\ f2h /= <<>> /\ Head(f2h).type /= "DATA" => Head(f2h) \in InFlight
         /\ f2h /= <<>> /\ f2h' = Tail(f2h) /\ UNCHANGED f_resp => InFlight' \subseteq InFlight
         /\ UNCHANGED <<f2h, f_resp>> => InFlight' = InFlight
         /\ \A p \in Packets : f2h' = Append(f2h, p) /\ UNCHANGED f_resp => InFlight' = InFlight
         /\ FpgaRespond => InFlight' \subseteq InFlight
         /\ Overtake => InFlight' \subseteq InFlight
<1> DEFINE P == Packets \cup Answers
<1>1. /\ f2h \in Seq(P) /\ Len(f2h) \in Nat /\ \A i \in 1 .. Len(f2h) : f2h[i] \in P
      /\ Range(f2h) = {f2h[i] : i \in 1 .. Len(f2h)}
  BY LenProperties, ElementOfSeq, RangeEquality DEF NetTypes
<1>2. \A m \in P : m.type /= "DATA" => m \in Answers  BY DEF Packets, Answers
<1>3. \A m \in Packets : m \in P /\ m.type = "DATA"  BY DEF Packets
<1>4. \A m \in Answers : m \in P  OBVIOUS
<1> HIDE DEF P
<1>5. InFlight \subseteq Answers  BY <1>1, <1>2, Zenon DEF InFlight, FpgaTypes
<1>6. f2h /= <<>> => Head(f2h) \in Range(f2h) /\ Range(Tail(f2h)) \subseteq Range(f2h)
  BY <1>1, QueueElements
<1>7. \A m \in P : Range(Append(f2h, m)) = Range(f2h) \cup {m}  BY <1>1, QueueElements
<1>8. f2h /= <<>> /\ Head(f2h).type /= "DATA" => Head(f2h) \in InFlight
  BY <1>6 DEF InFlight
<1>9. f2h /= <<>> /\ f2h' = Tail(f2h) /\ UNCHANGED f_resp => InFlight' \subseteq InFlight
  BY <1>6 DEF InFlight
<1>10. UNCHANGED <<f2h, f_resp>> => InFlight' = InFlight  BY DEF InFlight
<1>11. \A p \in Packets : f2h' = Append(f2h, p) /\ UNCHANGED f_resp => InFlight' = InFlight
  BY <1>3, <1>7 DEF InFlight
<1>12. FpgaRespond => InFlight' \subseteq InFlight
  <2> SUFFICES ASSUME FpgaRespond PROVE InFlight' \subseteq InFlight
    OBVIOUS
  <2>1. PICK r \in f_resp : f2h' = Append(f2h, r) /\ f_resp' = {}  BY DEF FpgaRespond
  <2>2. r \in P  BY <1>4 DEF FpgaTypes
  <2>3. Range(f2h') = Range(f2h) \cup {r}  BY <1>7, <2>1, <2>2
  <2>. QED BY <2>1, <2>3 DEF InFlight
<1>13. Overtake => InFlight' \subseteq InFlight
  <2> SUFFICES ASSUME Overtake PROVE InFlight' \subseteq InFlight
    OBVIOUS
  <2>1. f_resp' = f_resp  BY DEF Overtake, fpgaVars
  <2>. QED BY <2>1, OvertakeRange DEF InFlight
<1>. QED BY <1>5, <1>8, <1>9, <1>10, <1>11, <1>12, <1>13

\* Steps in which no command is sent or executed and none is acknowledged: the
\* main thread stays at its label, or moves among those before or after a command.
LEMMA QuietStep ==
  ASSUME TypeInv, CommandInv, UNCHANGED f_enabled,
         CmdsInOrder', Commands' \subseteq Commands, InFlight' \subseteq InFlight,
         \/ UNCHANGED app
         \/ /\ app'.acked = app.acked /\ app'.believes = app.believes
            /\ app'.next_id = app.next_id
            /\ app.acked => app'.op = app.op /\ app'.read = app.read
            /\ \/ app.pc \in Startup /\ app'.pc \in Startup \cup {"send"}
               \/ app.pc \in Settled /\ app'.pc \in Settled
  PROVE  CommandInv'
<1> USE DEF CommandInv
<1>1. IdOrder'  BY DEF IdOrder
<1>2. Startup \cap (Settled \cup {"wait", "send"}) = {}  BY DEF Startup, Settled, ResetNext
<1>3. "send" \notin Settled /\ "wait" \notin Settled  BY DEF Settled
<1>4. CASE UNCHANGED app
  <2>1. Current'  BY <1>4 DEF Current, Outcome
  <2>2. Acknowledged'  BY <1>4 DEF Acknowledged, Outcome
  <2>3. Believed'  BY <1>4 DEF Believed
  <2>. QED BY <1>1, <2>1, <2>2, <2>3
<1>5. CASE /\ app'.acked = app.acked /\ app'.believes = app.believes
           /\ app'.next_id = app.next_id
           /\ app.acked => app'.op = app.op /\ app'.read = app.read
           /\ \/ app.pc \in Startup /\ app'.pc \in Startup \cup {"send"}
              \/ app.pc \in Settled /\ app'.pc \in Settled
  <2>1. Current'  BY <1>2, <1>3, <1>5 DEF Current
  <2>2. Acknowledged'  BY <1>2, <1>3, <1>5 DEF Acknowledged, Outcome
  <2>3. Believed'  BY <1>2, <1>3, <1>5 DEF Believed
  <2>. QED BY <1>1, <2>1, <2>2, <2>3
<1>. QED BY <1>4, <1>5

\* A step of the receive thread: the answer to the attempt that waits is the only
\* one it lets through.
LEMMA CommandRecv ==
  ASSUME TypeInv, CommandInv, RecvThread, UNCHANGED <<fpgaVars, faults>>
  PROVE  CommandInv'
<1>1. NetTypes /\ FpgaTypes /\ CmdsInOrder /\ UNCHANGED <<f_enabled, f_resp>>
  BY DEF TypeInv, CommandInv, fpgaVars
<1>2. CASE RecvPacket
  <2> DEFINE p == Head(f2h)
  <2>1. f2h /= <<>> /\ f2h' = Tail(f2h) /\ UNCHANGED h2f  BY <1>2 DEF RecvPacket
  <2>2. CmdsInOrder' /\ Commands' = Commands /\ InFlight' \subseteq InFlight
    BY <1>1, <2>1, CommandQueue, AnswerQueue
  <2>3. CASE UNCHANGED app
    BY <1>1, <2>2, <2>3, QuietStep
  <2>4. CASE p.type /= "DATA" /\ AckOfPendingCmd(p)
             /\ app' = [app EXCEPT !.acked = TRUE, !.data = p.data]
    <3>1. p \in InFlight /\ p \in Answers  BY <1>1, <2>1, <2>4, AnswerQueue
    <3> HIDE DEF p
    <3>2. app \in AppRecords /\ app.next_id \in Nat  BY DEF TypeInv, AppTypes, AppRecords
    <3>3. /\ app.pc = "wait" /\ app'.pc = "wait" /\ app'.op = app.op
          /\ app'.next_id = app.next_id /\ app'.acked = TRUE /\ app'.data = p.data
          /\ app'.believes = app.believes /\ p.id = app.next_id - 1
      BY <2>4, <3>2 DEF AckOfPendingCmd, AppRecords
    <3>4. Commands = {}
      <4>1. \A m \in Commands : p.id < m.id /\ m.id < app.next_id /\ m.id \in Nat
        BY <1>1, <3>1, CommandQueue DEF CommandInv, IdOrder
      <4>. QED BY <3>2, <3>3, <4>1
    <3>5. Outcome(app.op, p.data)  BY <3>1, <3>3 DEF CommandInv, Current
    <3>6. IdOrder'  BY <2>2, <3>3 DEF CommandInv, IdOrder
    <3>7. Current'  BY <1>1, <2>2, <3>3 DEF CommandInv, Current, Outcome
    <3>8. Acknowledged'  BY <1>1, <2>2, <3>3, <3>4, <3>5 DEF Acknowledged, Outcome
    <3>9. Believed'  BY <1>1, <2>2, <3>3 DEF CommandInv, Believed
    <3>. QED BY <2>2, <3>6, <3>7, <3>8, <3>9 DEF CommandInv
  <2>. QED BY <1>2, <2>3, <2>4 DEF RecvPacket
<1>3. CASE RecvSend
  <2>1. UNCHANGED <<app, f2h>> /\ SendTo(Credit(recv.credit)) /\ recv.credit \in Nat
    BY <1>3 DEF RecvSend, SendTo, TypeInv, RecvTypes, RecvRecords
  <2>2. CmdsInOrder' /\ Commands' = Commands  BY <1>1, <2>1, CommandQueue
  <2>3. InFlight' = InFlight  BY <1>1, <2>1, AnswerQueue
  <2>. QED BY <1>1, <2>1, <2>2, <2>3, QuietStep
<1>4. CASE UNCHANGED <<app, net>>
  <2>1. CmdsInOrder' /\ Commands' = Commands  BY <1>1, <1>4, CommandQueue DEF net
  <2>2. InFlight' = InFlight  BY <1>1, <1>4, AnswerQueue DEF net
  <2>. QED BY <1>1, <1>4, <2>1, <2>2, QuietStep
<1>. QED
  BY <1>2, <1>3, <1>4
  DEF RecvThread, RecvLoop, RecvTimeout, RecvEqual, RecvGreater, RecvPush,
      RecvStore, RecvDeliver, RecvFlush, RecvAdvance, RecvPurge, RecvDrain, RecvTake,
      RecvCredit, RecvSetCredit

\* A step of the polling thread, which sends nothing but credit.
LEMMA CommandPoll ==
  ASSUME TypeInv, CommandInv, PollThread, UNCHANGED <<fpgaVars, faults>>
  PROVE  CommandInv'
<1>1. /\ NetTypes /\ FpgaTypes /\ CmdsInOrder /\ UNCHANGED <<f_enabled, f_resp>>
      /\ poll.credit \in Nat /\ abs_credit \in Nat
  BY DEF TypeInv, CommandInv, fpgaVars, PollTypes, PollRecords, StateTypes
<1>2. UNCHANGED app
  BY DEF PollThread, PollSleep, PollCredit, PollSend, PollSetCredit, PollGap, PollPurge,
         PollSkip, PollDrain, PollTake, PollFlush, PollAdvance, PollSkipCredit,
         PollSkipSetCredit, PollKeepAlive
<1>3. UNCHANGED net \/ \E n \in Nat : SendTo(Credit(n))
  BY <1>1 DEF PollThread, PollSleep, PollCredit, PollSend, PollSetCredit, PollGap, PollPurge,
              PollSkip, PollDrain, PollTake, PollFlush, PollAdvance, PollSkipCredit,
              PollSkipSetCredit, PollKeepAlive
<1>4. CmdsInOrder' /\ Commands' = Commands  BY <1>1, <1>3, CommandQueue DEF net
<1>5. InFlight' = InFlight  BY <1>1, <1>3, AnswerQueue DEF net, SendTo
<1>. QED BY <1>1, <1>2, <1>4, <1>5, QuietStep

\* A step of the main thread.
LEMMA CommandApp ==
  ASSUME TypeInv, CommandInv, AppThread, UNCHANGED <<fpgaVars, faults>>
  PROVE  CommandInv'
<1>1. /\ NetTypes /\ FpgaTypes /\ CmdsInOrder /\ UNCHANGED <<f_enabled, f_resp>>
      /\ abs_credit \in Nat /\ app \in AppRecords /\ app.next_id \in Nat
      /\ app.pc = "send" => app.op \in Ops
  BY DEF TypeInv, CommandInv, fpgaVars, StateTypes, AppTypes, AppRecords
<1>2. Startup \cap (Settled \cup {"wait", "send"}) = {} /\ Settled \cap {"send", "wait"} = {}
  BY DEF Startup, Settled, ResetNext
<1>3. CmdsInOrder /\ IdOrder /\ Current /\ Acknowledged /\ Believed  BY DEF CommandInv
<1>4. UNCHANGED h2f => Commands' = Commands /\ CmdsInOrder'  BY <1>1, CommandQueue
<1>5. InFlight' \subseteq InFlight
  <2>1. UNCHANGED f2h \/ (f2h /= <<>> /\ f2h' = Tail(f2h))
    BY DEF AppThread, AppSetTimeout, AppDrain, AppReset, AppSendCmd, AppAcked, AppTimeout,
           AppCredit, AppDurationOver, AppShellCmd, AppShellCredit, AppShellQuit, AppStop,
           AppJoin, AppFlush, SendTo, net
  <2>. QED BY <1>1, <2>1, AnswerQueue
<1>6. CASE AppSetTimeout \/ AppDrain \/ AppReset
  <2>1. UNCHANGED h2f  BY <1>6 DEF AppSetTimeout, AppDrain, AppReset, net
  <2>2. app.pc \in Startup /\ ~app.acked
    BY <1>2, <1>3, <1>6 DEF AppSetTimeout, AppDrain, AppReset, Startup, Acknowledged
  <2>3. /\ app'.acked = app.acked /\ app'.believes = app.believes
        /\ app'.next_id = app.next_id /\ app'.pc \in Startup \cup {"send"}
    <3>1. CASE AppSetTimeout
      BY <1>1, <3>1 DEF AppSetTimeout, AppGoto, AppRecords, Startup
    <3>2. CASE AppDrain
      BY <1>1, <2>2, <3>2 DEF AppDrain, AppGoto, AppRecords, Startup, ResetNext
    <3>3. CASE AppReset
      <4>1. ResetNext[app.pc] \in Startup \cup {"send"}
        BY <3>3 DEF AppReset, Startup, ResetNext
      <4>2. PICK o : app' = [app EXCEPT !.pc = ResetNext[app.pc], !.op = o]
        BY <3>3 DEF AppReset
      <4>. QED BY <1>1, <4>1, <4>2 DEF AppRecords
    <3>. QED BY <1>6, <3>1, <3>2, <3>3
  <2>. QED BY <1>1, <1>4, <1>5, <2>1, <2>2, <2>3, QuietStep
<1>7. CASE AppCredit \/ AppShellQuit \/ AppStop \/ AppJoin \/ AppFlush
  <2>1. Commands' = Commands /\ CmdsInOrder'
    <3>1. UNCHANGED h2f \/ SendTo(Credit(abs_credit))
      BY <1>7 DEF AppCredit, AppShellQuit, AppStop, AppJoin, AppFlush, net
    <3>. QED BY <1>1, <1>4, <3>1, CommandQueue
  <2>2. PICK c \in Settled : \/ app' = [app EXCEPT !.pc = c]
                             \/ app' = [app EXCEPT !.pc = c, !.at_stop = Len(delivered)]
    BY <1>7 DEF AppCredit, AppShellQuit, AppStop, AppJoin, AppFlush, AppGoto, Settled
  <2>3. app.pc \in Settled
    BY <1>7 DEF AppCredit, AppShellQuit, AppStop, AppJoin, AppFlush, Settled
  <2>4. /\ app'.acked = app.acked /\ app'.believes = app.believes /\ app'.pc = c
        /\ app'.next_id = app.next_id /\ app'.op = app.op /\ app'.read = app.read
    BY <1>1, <2>2 DEF AppRecords
  <2>. QED BY <1>1, <1>5, <2>1, <2>3, <2>4, QuietStep
<1>8. CASE AppSendCmd
  <2> DEFINE c == Cmd(app.op, app.next_id)
  <2>1. /\ app.pc = "send" /\ SendTo(c) /\ app.op \in Ops
        /\ app'.pc = "wait" /\ app'.next_id = app.next_id + 1 /\ app'.op = app.op
        /\ app'.acked = app.acked /\ app'.believes = app.believes
    BY <1>1, <1>8 DEF AppSendCmd, AppRecords
  <2>2. c.id = app.next_id /\ c.opcode = app.op /\ ~app.acked
    BY <1>2, <1>3, <2>1 DEF Cmd, Acknowledged
  <2>3. Commands' = Commands \cup {c} /\ CmdsInOrder'
    BY <1>1, <1>3, <2>1, CommandQueue DEF IdOrder
  <2> HIDE DEF c
  <2>4. \A m \in Commands : m.id \in Nat  BY <1>1, CommandQueue
  <2>5. \A a \in InFlight : a.id \in Nat  BY <1>1, AnswerQueue DEF Answers
  <2>6. IdOrder'  BY <1>1, <1>3, <1>5, <2>1, <2>2, <2>3, <2>4, <2>5 DEF IdOrder
  <2>7. Current'
    <3>1. \A a \in InFlight' : a.id /= app'.next_id - 1
      BY <1>1, <1>3, <1>5, <2>1, <2>5 DEF IdOrder
    <3>2. \A m \in Commands' : m.id = app'.next_id - 1 => m.opcode = app'.op
      BY <1>1, <1>3, <2>1, <2>2, <2>3, <2>4 DEF IdOrder
    <3>. QED BY <3>1, <3>2 DEF Current
  <2>8. Acknowledged'  BY <2>1, <2>2 DEF Acknowledged
  <2>9. Believed'
    <3>1. "wait" \notin Startup  BY <1>2
    <3>. QED BY <1>1, <1>3, <2>1, <2>2, <2>3, <3>1 DEF Believed
  <2>. QED BY <2>3, <2>6, <2>7, <2>8, <2>9 DEF CommandInv
<1>9. CASE AppAcked
  <2>1. UNCHANGED h2f /\ app.pc = "wait" /\ app.acked  BY <1>9 DEF AppAcked, net
  <2>2. AppAfter(TRUE) \in Settled  BY DEF AppAfter, Settled
  <2>3. /\ app'.pc \in Settled /\ app'.next_id = app.next_id /\ app'.op = app.op
        /\ app'.acked = app.acked /\ app'.read = app.data
        /\ app'.believes = IF app.op \in {"START", "STOP"} THEN {app.op = "START"}
                           ELSE app.believes
    BY <1>1, <1>9, <2>2 DEF AppAcked, AppRecords
  <2>4. IdOrder'  BY <1>3, <1>4, <1>5, <2>1, <2>3 DEF IdOrder
  <2>5. Commands = {} /\ Outcome(app.op, app.data)  BY <1>3, <2>1 DEF Acknowledged
  <2>6. app'.pc \notin {"wait", "send"} \cup Startup  BY <1>2, <2>3
  <2>7. Current'  BY <2>6 DEF Current
  <2>8. Acknowledged'  BY <1>1, <1>4, <2>1, <2>3, <2>5, <2>6 DEF Acknowledged, Outcome
  <2>9. Believed'  BY <1>1, <1>3, <1>4, <2>1, <2>3, <2>5, <2>6 DEF Believed, Outcome
  <2>. QED BY <1>4, <2>1, <2>4, <2>7, <2>8, <2>9 DEF CommandInv
<1>10. CASE AppTimeout
  <2>1. UNCHANGED h2f /\ app.pc = "wait" /\ ~app.acked  BY <1>10 DEF AppTimeout, net
  <2>2. AppAfter(FALSE) \in Settled  BY DEF AppAfter, Settled
  <2>3. /\ app'.pc \in Settled \cup {"send"} /\ app'.next_id = app.next_id
        /\ app'.op = app.op /\ app'.acked = app.acked /\ app'.believes = app.believes
    BY <1>1, <1>10, <2>2 DEF AppTimeout, AppRecords
  <2>4. IdOrder'  BY <1>3, <1>4, <1>5, <2>1, <2>3 DEF IdOrder
  <2>5. Current'  BY <1>2, <2>3 DEF Current
  <2>6. Acknowledged'  BY <2>1, <2>3 DEF Acknowledged
  <2>7. Believed'  BY <1>1, <1>2, <1>3, <1>4, <2>1, <2>3 DEF Believed
  <2>. QED BY <1>4, <2>1, <2>4, <2>5, <2>6, <2>7 DEF CommandInv
<1>11. CASE AppDurationOver \/ AppShellCmd \/ AppShellCredit
  <2>1. Commands' = Commands /\ CmdsInOrder'
    <3>1. UNCHANGED h2f \/ SendTo(Credit(WINDOW_SIZE + 1))
      BY <1>11 DEF AppDurationOver, AppShellCmd, AppShellCredit, net
    <3>. QED BY <1>1, <1>4, <3>1, CommandQueue, HostAssumption
  <2>2. app.pc \in Settled  BY <1>11 DEF AppDurationOver, AppShellCmd, AppShellCredit, Settled
  <2>3. /\ app'.acked = FALSE /\ app'.next_id = app.next_id
        /\ \/ app'.pc = "send" /\ (app'.op \in {"START", "STOP"} => app'.believes = {})
           \/ app'.pc = "prompt"
        /\ app'.believes \in {{}, app.believes}
    <3>1. CASE AppDurationOver  BY <1>1, <3>1 DEF AppDurationOver, AppRecords
    <3>2. CASE AppShellCmd
      <4>1. PICK o : app' = [app EXCEPT !.pc = "send", !.op = o, !.cmds = app.cmds + 1,
                               !.acked = FALSE, !.read = {},
                               !.believes = IF o \in {"START", "STOP"} THEN {} ELSE app.believes]
        BY <3>2 DEF AppShellCmd
      <4>. QED BY <1>1, <4>1 DEF AppRecords
    <3>3. CASE AppShellCredit  BY <1>1, <3>3 DEF AppShellCredit, AppRecords
    <3>. QED BY <1>11, <3>1, <3>2, <3>3
  <2>4. IdOrder'  BY <1>3, <1>5, <2>1, <2>3 DEF IdOrder
  <2>5. Current'  BY <2>3 DEF Current
  <2>6. Acknowledged'  BY <2>3 DEF Acknowledged
  <2>7. Believed'
    <3>1. app'.pc \notin Startup  BY <1>2, <2>3 DEF Settled
    <3>. QED BY <1>1, <1>3, <2>1, <2>3, <3>1 DEF Believed
  <2>. QED BY <2>1, <2>4, <2>5, <2>6, <2>7 DEF CommandInv
<1>. QED BY <1>6, <1>7, <1>8, <1>9, <1>10, <1>11 DEF AppThread

\* The FPGA takes a command: it is older than every other in the queue, and no
\* answer in flight is to a later one.
LEMMA CommandExecuted ==
  ASSUME TypeInv, CommandInv, FpgaReceive, Head(h2f).type = "CMD"
  PROVE  CommandInv'
<1> DEFINE p == Head(h2f)
<1>1. /\ NetTypes /\ FpgaTypes /\ CmdsInOrder /\ IdOrder /\ Current /\ Acknowledged /\ Believed
      /\ app.next_id \in Nat
  BY DEF TypeInv, CommandInv, AppTypes, AppRecords
<1>2. /\ h2f /= <<>> /\ h2f' = Tail(h2f) /\ UNCHANGED <<app, f2h>> /\ FpgaCmd(p)
  BY DEF FpgaReceive, hostOnly
<1>3. /\ CmdsInOrder' /\ Commands' \subseteq Commands /\ p \in Commands
      /\ \A m \in Commands' : p.id < m.id
  BY <1>1, <1>2, CommandQueue
<1>4. \A m \in Commands : m.id \in Nat /\ m.opcode \in Ops  BY <1>1, CommandQueue
<1> HIDE DEF p
<1>5. \A a \in InFlight : a.id \in Nat  BY <1>1, AnswerQueue DEF Answers
<1>6. CASE f_resp /= {}
  <2>1. UNCHANGED <<f_enabled, f_resp, f2h, app>>  BY <1>2, <1>6 DEF FpgaCmd, fpgaVars
  <2>2. InFlight' = InFlight  BY <1>1, <2>1, AnswerQueue
  <2>. QED BY <1>3, <2>1, <2>2, QuietStep
<1>7. CASE f_resp = {}
  <2>1. PICK r : r = Response(p)  OBVIOUS
  <2>2. /\ f_resp' = {r}
        /\ f_enabled' = IF p.opcode \in {"START", "STOP"} THEN p.opcode = "START" ELSE f_enabled
    BY <1>2, <1>7, <2>1 DEF FpgaCmd
  <2>3. InFlight' \subseteq InFlight \cup {r}  BY <1>2, <2>2 DEF InFlight
  <2>4. r.id = p.id /\ (p.opcode = "READ" => r.data = {f_enabled})  BY <2>1 DEF Response
  <2>5. ~app.acked  BY <1>1, <1>3 DEF Acknowledged
  <2>6. IdOrder'
    <3>1. \A m \in Commands' : m.id < app.next_id  BY <1>1, <1>3 DEF IdOrder
    <3>2. ASSUME NEW a \in InFlight'
          PROVE  a.id < app.next_id /\ \A m \in Commands' : a.id < m.id
      <4>1. CASE a \in InFlight  BY <1>1, <1>3, <4>1 DEF IdOrder
      <4>2. CASE a = r  BY <1>1, <1>3, <2>4, <4>2 DEF IdOrder
      <4>. QED BY <2>3, <4>1, <4>2
    <3>. QED BY <1>2, <3>1, <3>2 DEF IdOrder
  <2>7. Current'
    <3> SUFFICES ASSUME app.pc = "wait"
                 PROVE  /\ \A m \in Commands' : m.id = app.next_id - 1 => m.opcode = app.op
                        /\ \A a \in InFlight' : a.id = app.next_id - 1 => Outcome(app.op, a.data)'
      BY <1>2 DEF Current
    <3>1. \A m \in Commands' : m.id = app.next_id - 1 => m.opcode = app.op
      BY <1>1, <1>3 DEF Current
    <3>2. ASSUME NEW a \in InFlight', a.id = app.next_id - 1 PROVE Outcome(app.op, a.data)'
      <4>1. a = r
        <5>1. a \notin InFlight
          <6>1. p.id < app.next_id /\ p.id \in Nat  BY <1>1, <1>3, <1>4 DEF IdOrder
          <6>2. a \in InFlight => a.id < p.id  BY <1>1, <1>3 DEF IdOrder
          <6>. QED BY <1>1, <1>5, <3>2, <6>1, <6>2
        <5>. QED BY <2>3, <5>1
      <4>2. p.opcode = app.op  BY <1>1, <1>3, <2>4, <3>2, <4>1 DEF Current
      <4>3. app'.op = app.op  BY <1>2
      <4>. QED BY <2>2, <2>4, <4>1, <4>2, <4>3 DEF Outcome
    <3>. QED BY <3>1, <3>2
  <2>8. Acknowledged'  BY <1>2, <2>5 DEF Acknowledged
  <2>9. Believed'
    <3>1. app.believes /= {} => p.opcode \notin {"START", "STOP"}  BY <1>1, <1>3 DEF Believed
    <3>. QED BY <1>1, <1>2, <1>3, <2>2, <3>1 DEF Believed
  <2>. QED BY <1>3, <2>6, <2>7, <2>8, <2>9 DEF CommandInv
<1>. QED BY <1>6, <1>7

\* Any other step of the FPGA and any of the network.
LEMMA CommandPeer ==
  ASSUME TypeInv, CommandInv, Fpga \/ Lose \/ Overtake
  PROVE  CommandInv'
<1>1. /\ NetTypes /\ FpgaTypes /\ CmdsInOrder  BY DEF TypeInv, CommandInv
<1>2. CASE FpgaReceive
  <2>1. CASE Head(h2f).type = "CMD"  BY <1>2, <2>1, CommandExecuted
  <2>2. CASE Head(h2f).type /= "CMD"
    <3>1. /\ h2f /= <<>> /\ h2f' = Tail(h2f) /\ UNCHANGED <<app, f2h, f_enabled, f_resp>>
      BY <1>2, <2>2 DEF FpgaReceive, FpgaCredit, hostOnly
    <3>2. CmdsInOrder' /\ Commands' \subseteq Commands /\ InFlight' = InFlight
      BY <1>1, <3>1, CommandQueue, AnswerQueue
    <3>. QED BY <3>1, <3>2, QuietStep
  <2>. QED BY <2>1, <2>2
<1>3. CASE FpgaRespond
  <2>1. UNCHANGED <<app, h2f, f_enabled>>  BY <1>3 DEF FpgaRespond, hostOnly
  <2>2. CmdsInOrder' /\ Commands' = Commands /\ InFlight' \subseteq InFlight
    BY <1>1, <1>3, <2>1, CommandQueue, AnswerQueue
  <2>. QED BY <2>1, <2>2, QuietStep
<1>4. CASE FpgaBegin
  <2>1. UNCHANGED <<app, h2f, f2h, f_enabled, f_resp>>  BY <1>4 DEF FpgaBegin, hostOnly
  <2>2. CmdsInOrder' /\ Commands' = Commands /\ InFlight' = InFlight
    BY <1>1, <2>1, CommandQueue, AnswerQueue
  <2>. QED BY <2>1, <2>2, QuietStep
<1>5. CASE FpgaFinish
  <2>1. /\ UNCHANGED <<app, h2f, f_enabled, f_resp>>
        /\ \E p \in Packets : f2h' = Append(f2h, p)
    BY <1>1, <1>5 DEF FpgaFinish, hostOnly, Packets, FpgaTypes
  <2>2. CmdsInOrder' /\ Commands' = Commands /\ InFlight' = InFlight
    BY <1>1, <2>1, CommandQueue, AnswerQueue
  <2>. QED BY <2>1, <2>2, QuietStep
<1>6. CASE Lose
  <2>1. /\ UNCHANGED <<app, f_enabled, f_resp>>
        /\ \/ f2h /= <<>> /\ f2h' = Tail(f2h) /\ UNCHANGED h2f
           \/ h2f /= <<>> /\ h2f' = Tail(h2f) /\ UNCHANGED f2h
    BY <1>6 DEF Lose, hostOnly, fpgaVars
  <2>2. CmdsInOrder' /\ Commands' \subseteq Commands /\ InFlight' \subseteq InFlight
    BY <1>1, <2>1, CommandQueue, AnswerQueue
  <2>. QED BY <2>1, <2>2, QuietStep
<1>7. CASE Overtake
  <2>1. UNCHANGED <<app, h2f, f_enabled>>  BY <1>7 DEF Overtake, hostOnly, fpgaVars
  <2>2. CmdsInOrder' /\ Commands' = Commands /\ InFlight' \subseteq InFlight
    BY <1>1, <1>7, <2>1, CommandQueue, AnswerQueue
  <2>. QED BY <2>1, <2>2, QuietStep
<1>. QED BY <1>2, <1>3, <1>4, <1>5, <1>6, <1>7 DEF Fpga

\* The numbering of the attempts, what the FPGA has executed and what the host
\* knows of it stay in agreement.
THEOREM CommandInvariant == Spec => [](TypeInv /\ CommandInv)
<1>1. Init => CommandInv
  <2> SUFFICES ASSUME Init PROVE CommandInv
    OBVIOUS
  <2>1. /\ h2f = <<>> /\ f2h = <<>> /\ f_resp = {}
    BY DEF Init, HostInit
  <2>2. ~app.acked /\ app.believes = {} /\ app.pc /= "wait"
    <3>1. PICK m \in MODES :
            app = [mode |-> m, pc |-> IF m = "logger" THEN "open" ELSE "prompt", op |-> "NONE",
                   attempt |-> 0, next_id |-> 1, acked |-> FALSE, data |-> {}, cmds |-> 0,
                   read |-> {}, believes |-> {}, at_stop |-> 0]
      BY DEF Init, HostInit
    <3>. QED BY <3>1
  <2>3. Range(h2f) = {} /\ Range(f2h) = {}
    <3>1. \A x : x \notin Range(<<>>)  BY DEF Range
    <3>. QED BY <2>1, <3>1
  <2>4. Commands = {} /\ InFlight = {}  BY <2>1, <2>3 DEF Commands, InFlight
  <2>5. CmdsInOrder  BY <2>1 DEF CmdsInOrder
  <2>. QED BY <2>2, <2>4, <2>5 DEF CommandInv, IdOrder, Current, Acknowledged, Believed
<1>2. TypeInv /\ CommandInv /\ [Next]_vars => CommandInv'
  <2>1. TypeInv /\ CommandInv /\ UNCHANGED vars => CommandInv'
    <3> SUFFICES ASSUME TypeInv, CommandInv, UNCHANGED vars PROVE CommandInv'
      OBVIOUS
    <3>1. UNCHANGED <<app, h2f, f2h, f_enabled, f_resp>> /\ NetTypes /\ FpgaTypes /\ CmdsInOrder
      BY DEF vars, hostVars, net, fpgaVars, TypeInv, CommandInv
    <3>2. CmdsInOrder' /\ Commands' = Commands /\ InFlight' = InFlight
      BY <3>1, CommandQueue, AnswerQueue
    <3>. QED BY <3>1, <3>2, QuietStep
  <2>. QED BY <2>1, CommandRecv, CommandPoll, CommandApp, CommandPeer DEF Next, Alive
<1>. QED BY <1>1, <1>2, TypeInvariant, PTL DEF Spec

\* A START or STOP that _send_cmd_wait_ack reports as acknowledged has taken
\* effect and still holds: no attempt of an earlier command is under way that
\* could undo it, whatever was lost, repeated or answered late.
THEOREM AcknowledgedHolds == Spec => []AckedCommandHolds
<1>1. CommandInv => AckedCommandHolds
  BY DEF CommandInv, Acknowledged, Outcome, AckedCommandHolds
<1>. QED BY <1>1, CommandInvariant, PTL

\* read_reg takes no late answer for its own: an answered read has a value, and
\* it is the one that the last acknowledged START or STOP set.
THEOREM ReadsAreCurrent == Spec => []ReadSeesCommands
<1>1. CommandInv => ReadSeesCommands
  BY DEF CommandInv, Acknowledged, Believed, Outcome, ReadSeesCommands
<1>. QED BY <1>1, CommandInvariant, PTL

-----------------------------------------------------------------------------
(***************************************************************************)
(* The FPGA as the session sees it implements CreditStream, the promise    *)
(* that FpgaProofs shows LudpFpga to keep.                                 *)
(***************************************************************************)
\* Every step of the session is a step of the stream or leaves it alone.
LEMMA StreamStep ==
  ASSUME TypeInv, [Next]_vars
  PROVE  [Stream!Next]_(Stream!streamVars)
<1>1. /\ f_enabled \in BOOLEAN /\ f_credit \in Nat /\ f_seq \in Nat /\ f_sending \in BOOLEAN
      /\ NetTypes
  BY DEF TypeInv, FpgaTypes
<1> USE DEF Stream!Next, Stream!Continue, Stream!Restart, Stream!streamVars
<1>2. CASE UNCHANGED <<f_enabled, f_credit, f_seq, f_sending>>
  BY <1>2
<1>3. CASE FpgaReceive
  <2> DEFINE p == Head(h2f)
  <2>1. p \in FromHost  BY <1>1, <1>3, Heads DEF FpgaReceive
  <2>2. CASE p.type = "CMD"
    <3>1. FpgaCmd(p)  BY <1>3, <2>2 DEF FpgaReceive
    <3> HIDE DEF p
    <3>2. CASE f_resp /= {}  BY <1>2, <3>1, <3>2 DEF FpgaCmd, fpgaVars
    <3>3. CASE f_resp = {} /\ p.opcode = "START"
      <4>1. f_enabled' = TRUE /\ f_seq' = 0 /\ f_credit' = 0 /\ f_sending' = FALSE
        BY <3>1, <3>3 DEF FpgaCmd
      <4>2. Stream!Restart  BY <4>1
      <4>. QED BY <4>2
    <3>4. CASE f_resp = {} /\ p.opcode /= "START"
      <4>1. UNCHANGED <<f_seq, f_credit, f_sending>>  BY <3>1, <3>4 DEF FpgaCmd
      <4>2. f_enabled' \in BOOLEAN /\ (f_enabled' => f_enabled)
        BY <1>1, <3>1, <3>4, Zenon DEF FpgaCmd
      <4>3. Stream!Continue  BY <1>1, <4>1, <4>2
      <4>. QED BY <4>3
    <3>. QED BY <3>2, <3>3, <3>4
  <2>3. CASE p.type /= "CMD"
    <3>1. p.abs \in Nat  BY <2>1, <2>3 DEF FromHost
    <3>2. FpgaCredit(p)  BY <1>3, <2>3 DEF FpgaReceive
    <3> HIDE DEF p
    <3>3. f_credit' \in Nat /\ f_credit' >= f_credit /\ UNCHANGED <<f_enabled, f_seq, f_sending>>
      BY <1>1, <3>1, <3>2 DEF FpgaCredit
    <3>4. Stream!Continue  BY <1>1, <3>3
    <3>. QED BY <3>4
  <2>. QED BY <2>2, <2>3
<1>4. CASE FpgaBegin
  <2>1. /\ f_enabled /\ ~f_sending /\ f_seq < f_credit /\ f_sending' = TRUE
        /\ UNCHANGED <<f_enabled, f_credit, f_seq>>
    BY <1>4 DEF FpgaBegin
  <2>2. Stream!Continue  BY <1>1, <2>1
  <2>. QED BY <2>2
<1>5. CASE FpgaFinish
  <2>1. /\ f_sending /\ f_seq' = f_seq + 1 /\ f_sending' = FALSE
        /\ UNCHANGED <<f_enabled, f_credit>>
    BY <1>5 DEF FpgaFinish
  <2>2. Stream!Continue  BY <1>1, <2>1
  <2>. QED BY <2>2
<1>6. CASE FpgaRespond \/ Lose \/ Overtake \/ UNCHANGED vars \/ Alive
  BY <1>2, <1>6 DEF FpgaRespond, Lose, Overtake, vars, Alive, fpgaVars
<1>. QED BY <1>3, <1>4, <1>5, <1>6 DEF Next, Fpga

\* With no earlier run left streaming, the FPGA of the session sends its packets
\* one at a time, numbered from 0 since START, within the credit granted since.
THEOREM SessionImplementsStream ==
  ASSUME STALE \subseteq {0}
  PROVE  Spec => PeerKeepsPromise
<1>1. Init => Stream!Init
  <2> SUFFICES ASSUME Init PROVE Stream!Init
    OBVIOUS
  <2>1. f_credit = 0 /\ f_seq = 0 /\ f_sending = FALSE  BY DEF Init
  <2>2. f_enabled = FALSE
    <3>1. (0 > 0) = FALSE  OBVIOUS
    <3>2. f_enabled = (0 > 0)  BY <2>1, Zenon DEF Init
    <3>. QED BY <3>1, <3>2, Zenon
  <2>. QED BY <2>1, <2>2 DEF Stream!Init
<1>. QED BY <1>1, StreamStep, TypeInvariant, PTL DEF Spec, PeerKeepsPromise, Stream!Spec
=============================================================================
