---------------------------- MODULE DeliveryProofs ----------------------------
(***************************************************************************)
(* What the host delivers, how far the FPGA may run ahead of it, and what  *)
(* the output file holds.                                                  *)
(***************************************************************************)
EXTENDS SessionDataProofs

-----------------------------------------------------------------------------
(***************************************************************************)
(* DATA packets that do not overtake one another; answers and DATA may.    *)
(***************************************************************************)
DataKeepsOrder == Overtake => f2h[1].type /= "DATA" \/ f2h[2].type /= "DATA"

\* Where the packets are after an overtaking.
LEMMA OvertakeElements ==
  ASSUME NetTypes, Overtake
  PROVE  /\ Len(f2h) \in Nat /\ Len(f2h) >= 2 /\ Len(f2h') = Len(f2h)
         /\ f2h'[1] = f2h[2] /\ f2h'[2] = f2h[1]
         /\ \A i \in 3 .. Len(f2h) : f2h'[i] = f2h[i]
<1> DEFINE P == Packets \cup Answers
           r == SubSeq(f2h, 3, Len(f2h))
           q == <<f2h[2], f2h[1]>>
<1>1. f2h \in Seq(P) /\ Len(f2h) \in Nat /\ \A i \in 1 .. Len(f2h) : f2h[i] \in P
  BY LenProperties, ElementOfSeq DEF NetTypes
<1> HIDE DEF P
<1>2. Len(f2h) >= 2 /\ f2h' = q \o r  BY DEF Overtake
<1>3. /\ q \in Seq(P) /\ Len(q) = 2 /\ q[1] = f2h[2] /\ q[2] = f2h[1]
  BY <1>1, <1>2
<1>4. /\ r \in Seq(P) /\ Len(r) = Len(f2h) - 2
      /\ \A i \in 1 .. Len(f2h) - 2 : r[i] = f2h[i + 2]
  BY <1>1, <1>2
<1> HIDE DEF q, r
<1>5. /\ Len(f2h') = Len(q) + Len(r)
      /\ \A i \in 1 .. Len(q) + Len(r) : f2h'[i] = IF i <= Len(q) THEN q[i] ELSE r[i - Len(q)]
  <2>1. /\ Len(q \o r) = Len(q) + Len(r)
        /\ \A i \in 1 .. Len(q) + Len(r) : (q \o r)[i] = IF i <= Len(q) THEN q[i] ELSE r[i - Len(q)]
    <3>1. q \in Seq(P) /\ r \in Seq(P)  BY <1>3, <1>4
    <3>. QED BY ONLY <3>1, ConcatProperties, Zenon
  <2>. QED BY <1>2, <2>1
<1>6. \A i \in 3 .. Len(f2h) : f2h'[i] = f2h[i]
  <2> TAKE i \in 3 .. Len(f2h)
  <2>1. i - 2 \in 1 .. Len(f2h) - 2 /\ (i - 2) + 2 = i  BY <1>1
  <2>. QED BY <1>1, <1>3, <1>4, <1>5, <2>1
<1>. QED BY <1>1, <1>2, <1>3, <1>4, <1>5, <1>6

\* Their order is what it was.
LEMMA OvertakeOrder ==
  ASSUME NetTypes, Overtake, DataKeepsOrder
  PROVE  Arriving' \subseteq Arriving /\ (DataInOrder => DataInOrder')
<1>1. Arriving' \subseteq Arriving  BY OvertakeRange DEF Arriving
<1>2. ASSUME DataInOrder PROVE DataInOrder'
  <2> SUFFICES ASSUME NEW i \in 1 .. Len(f2h'), NEW j \in 1 .. Len(f2h'), i < j,
                      f2h'[i].type = "DATA", f2h'[j].type = "DATA"
               PROVE  f2h'[i].seq < f2h'[j].seq
    BY DEF DataInOrder
  <2>1. i \in 1 .. Len(f2h) /\ j \in 3 .. Len(f2h)  BY OvertakeElements DEF DataKeepsOrder
  <2>2. f2h'[j] = f2h[j]  BY <2>1, OvertakeElements
  <2>3. \E k \in {1, 2, i} : k \in 1 .. Len(f2h) /\ k < j /\ f2h'[i] = f2h[k]
    BY <2>1, OvertakeElements
  <2>. QED BY <1>2, <2>1, <2>2, <2>3, OvertakeElements DEF DataInOrder
<1>. QED BY <1>1, <1>2

-----------------------------------------------------------------------------
(***************************************************************************)
(* Complete delivery.  While DATA packets are neither lost nor overtaken,  *)
(* each one the host still waits for is preceded in the socket by its      *)
(* predecessor, back to the one the receive thread expects or has in its   *)
(* hands: the reorder buffer stays empty, and no gap is ever seen.         *)
(***************************************************************************)
Reach == IF recv.pc \in {"equal", "deliver", "advance"} /\ recv.pkt.seq = expected_seq
           THEN expected_seq + 1 ELSE expected_seq

Precedes(q, j, n) == q[j].type = "DATA" /\ q[j].seq + 1 = n

Chained ==
  /\ \A i \in 1 .. Len(f2h) : f2h[i].type = "DATA" =>
       f2h[i].seq <= Reach \/ \E j \in 1 .. i - 1 : Precedes(f2h, j, f2h[i].seq)
  /\ f_seq <= Reach \/ \E j \in 1 .. Len(f2h) : Precedes(f2h, j, f_seq)

Unbuffered ==
  /\ ooo_heap = {} /\ out_of_order = {} /\ poll.pc \in Idle
  /\ recv.pc \notin {"push", "store", "take", "drain_advance"}

InHand ==
  /\ recv.pc = "equal" => recv.pkt.seq <= expected_seq
  /\ recv.pc = "greater" => recv.pkt.seq < expected_seq
  /\ recv.pc \in {"deliver", "advance"} => recv.pkt.seq = expected_seq

Counted == Len(delivered) = IF recv.pc = "advance" THEN expected_seq + 1 ELSE expected_seq

ChainInv == Chained /\ Unbuffered /\ InHand /\ Counted /\ CompleteDelivery

\* A packet that enters or leaves the socket keeps the chain.
LEMMA ChainQueue ==
  ASSUME NetTypes, FpgaTypes, Reach \in Nat, Reach' \in Nat, Chained, Reach <= Reach',
         \/ UNCHANGED f2h /\ (f_seq' = f_seq \/ f_seq' = 0)
         \/ /\ f2h /= <<>> /\ f2h' = Tail(f2h) /\ f_seq' = f_seq
            /\ Head(f2h).type = "DATA" => Head(f2h).seq + 1 <= Reach'
         \/ \E r \in Answers : f2h' = Append(f2h, r) /\ f_seq' = f_seq
         \/ \E p \in Packets : /\ f2h' = Append(f2h, p) /\ p.seq = f_seq
                               /\ f_seq' = f_seq + 1
  PROVE  Chained'
<1> DEFINE P == Packets \cup Answers
<1>1. /\ f2h \in Seq(P) /\ Len(f2h) \in Nat /\ f_seq \in Nat
      /\ \A i \in 1 .. Len(f2h) : f2h[i] \in P
  BY LenProperties, ElementOfSeq DEF NetTypes, FpgaTypes
<1>2. \A m \in P : m.type = "DATA" => m.seq \in Nat  BY DEF Packets, Answers
<1>3. \A p \in Packets : p \in P /\ p.type = "DATA" /\ p.seq \in Nat  BY DEF Packets
<1>4. \A r \in Answers : r \in P /\ r.type /= "DATA"  BY DEF Answers
<1> HIDE DEF P
<1>5. \A i \in 1 .. Len(f2h) : f2h[i].type = "DATA" => f2h[i].seq \in Nat  BY <1>1, <1>2
<1>6. CASE UNCHANGED f2h /\ (f_seq' = f_seq \/ f_seq' = 0)
  <2>1. f_seq' = 0 => f_seq' <= Reach'  OBVIOUS
  <2>. QED BY <1>1, <1>5, <1>6, <2>1 DEF Chained, Precedes
<1>7. CASE /\ f2h /= <<>> /\ f2h' = Tail(f2h) /\ f_seq' = f_seq
           /\ Head(f2h).type = "DATA" => Head(f2h).seq + 1 <= Reach'
  <2>1. /\ Len(f2h) > 0 /\ Head(f2h) = f2h[1] /\ Len(f2h') = Len(f2h) - 1
        /\ \A i \in 1 .. Len(f2h) - 1 : f2h'[i] = f2h[i + 1]
    BY <1>1, <1>7, QueueElements
  <2>2. \A j \in 1 .. Len(f2h), n \in Nat :
          Precedes(f2h, j, n) => n <= Reach' \/ (j - 1 \in 1 .. Len(f2h') /\ Precedes(f2h', j - 1, n))
    <3> TAKE j \in 1 .. Len(f2h), n \in Nat
    <3>1. CASE j = 1
      <4>1. Precedes(f2h, j, n) => Head(f2h).type = "DATA" /\ n = Head(f2h).seq + 1
        BY <2>1, <3>1 DEF Precedes
      <4>. QED BY <1>7, <4>1
    <3>2. CASE j > 1
      <4>1. j - 1 \in 1 .. Len(f2h) - 1 /\ f2h'[j - 1] = f2h[j]  BY <1>1, <2>1, <3>2
      <4>. QED BY <2>1, <4>1 DEF Precedes
    <3>. QED BY <1>1, <3>1, <3>2
  <2>3. ASSUME NEW i \in 1 .. Len(f2h'), f2h'[i].type = "DATA"
        PROVE  f2h'[i].seq <= Reach' \/ \E j \in 1 .. i - 1 : Precedes(f2h', j, f2h'[i].seq)
    <3>1. i + 1 \in 1 .. Len(f2h) /\ f2h'[i] = f2h[i + 1]  BY <1>1, <2>1
    <3>2. f2h[i + 1].seq \in Nat  BY <1>5, <2>3, <3>1
    <3>3. CASE f2h[i + 1].seq <= Reach  BY <3>1, <3>2, <3>3
    <3>4. CASE \E j \in 1 .. (i + 1) - 1 : Precedes(f2h, j, f2h[i + 1].seq)
      <4>1. PICK j \in 1 .. i : Precedes(f2h, j, f2h[i + 1].seq)  BY <3>4
      <4>2. j \in 1 .. Len(f2h)  BY <1>1, <3>1
      <4>3. \/ f2h[i + 1].seq <= Reach'
            \/ j - 1 \in 1 .. Len(f2h') /\ Precedes(f2h', j - 1, f2h'[i].seq)
        BY <2>2, <3>1, <3>2, <4>1, <4>2 DEF Precedes
      <4>4. j - 1 \in 1 .. Len(f2h') => j - 1 \in 1 .. i - 1  BY <1>1
      <4>. QED BY <3>1, <4>3, <4>4 DEF Precedes
    <3>. QED BY <2>3, <3>1, <3>3, <3>4 DEF Chained
  <2>4. f_seq' <= Reach' \/ \E j \in 1 .. Len(f2h') : Precedes(f2h', j, f_seq')
    <3>1. CASE f_seq <= Reach  BY <1>1, <1>7, <3>1
    <3>2. CASE \E j \in 1 .. Len(f2h) : Precedes(f2h, j, f_seq)
      BY <1>1, <1>7, <2>2, <3>2 DEF Precedes
    <3>. QED BY <3>1, <3>2 DEF Chained
  <2>. QED BY <2>3, <2>4 DEF Chained
<1>8. CASE \E r \in Answers : f2h' = Append(f2h, r) /\ f_seq' = f_seq
  <2>1. PICK r \in Answers : f2h' = Append(f2h, r) /\ f_seq' = f_seq  BY <1>8
  <2>2. /\ Len(f2h') = Len(f2h) + 1 /\ f2h'[Len(f2h) + 1].type /= "DATA"
        /\ \A i \in 1 .. Len(f2h) : f2h'[i] = f2h[i]
    BY <1>1, <1>4, <2>1, QueueElements
  <2>. QED BY <1>1, <1>5, <2>1, <2>2 DEF Chained, Precedes
<1>9. CASE \E p \in Packets : /\ f2h' = Append(f2h, p) /\ p.seq = f_seq
                              /\ f_seq' = f_seq + 1
  <2>1. PICK p \in Packets : f2h' = Append(f2h, p) /\ p.seq = f_seq /\ f_seq' = f_seq + 1
    BY <1>9
  <2>2. /\ Len(f2h') = Len(f2h) + 1 /\ f2h'[Len(f2h) + 1] = p
        /\ \A i \in 1 .. Len(f2h) : f2h'[i] = f2h[i]
    BY <1>1, <1>3, <2>1, QueueElements
  <2>3. \A j \in 1 .. Len(f2h), n \in Nat : Precedes(f2h, j, n) => Precedes(f2h', j, n)
    BY <2>2 DEF Precedes
  <2>4. \E j \in 1 .. Len(f2h') : Precedes(f2h', j, f_seq')
    <3>1. Len(f2h) + 1 \in 1 .. Len(f2h')  BY <1>1, <2>2
    <3>. QED BY <1>3, <2>1, <2>2, <3>1 DEF Precedes
  <2>5. ASSUME NEW i \in 1 .. Len(f2h'), f2h'[i].type = "DATA"
        PROVE  f2h'[i].seq <= Reach' \/ \E j \in 1 .. i - 1 : Precedes(f2h', j, f2h'[i].seq)
    <3>1. CASE i = Len(f2h) + 1  BY <1>1, <2>1, <2>2, <2>3, <3>1 DEF Chained, Precedes
    <3>2. CASE i \in 1 .. Len(f2h)
      <4>1. f2h'[i] = f2h[i] /\ f2h[i].type = "DATA" /\ f2h[i].seq \in Nat  BY <1>5, <2>2, <2>5, <3>2
      <4>2. CASE f2h[i].seq <= Reach  BY <4>1, <4>2
      <4>3. CASE \E j \in 1 .. i - 1 : Precedes(f2h, j, f2h[i].seq)
        <5>1. PICK j \in 1 .. i - 1 : Precedes(f2h, j, f2h[i].seq)  BY <4>3
        <5>2. j \in 1 .. Len(f2h)  BY <1>1, <3>2
        <5>. QED BY <2>3, <4>1, <5>1, <5>2
      <4>. QED BY <3>2, <4>1, <4>2, <4>3 DEF Chained
    <3>. QED BY <1>1, <2>2, <3>1, <3>2
  <2>. QED BY <2>4, <2>5 DEF Chained
<1>. QED BY <1>6, <1>7, <1>8, <1>9

\* The receive thread delivers the packet it expects, and finds nothing buffered.
LEMMA ChainRecv ==
  ASSUME TypeInv, ChainInv, UNCHANGED fpgaVars, RecvThread
  PROVE  ChainInv'
<1>1. /\ NetTypes /\ FpgaTypes /\ expected_seq \in Nat /\ f_seq' = f_seq
      /\ delivered \in Seq(Packets) /\ Len(delivered) \in Nat
  BY LenProperties DEF TypeInv, StateTypes, OutputTypes, fpgaVars
<1>2. UNCHANGED poll
  BY DEF RecvThread, RecvLoop, RecvTimeout, RecvPacket, RecvEqual, RecvGreater, RecvPush,
         RecvStore, RecvDeliver, RecvFlush, RecvAdvance, RecvPurge, RecvDrain, RecvTake,
         RecvCredit, RecvSend, RecvSetCredit
<1>3. Reach \in Nat /\ (expected_seq' \in Nat => Reach' \in Nat)  BY <1>1 DEF Reach
<1>4. ~RecvPush /\ ~RecvStore /\ ~RecvTake
  BY DEF ChainInv, Unbuffered, RecvPush, RecvStore, RecvTake
<1>5. CASE \/ RecvLoop \/ RecvTimeout \/ RecvGreater \/ RecvFlush \/ RecvPurge \/ RecvDrain
           \/ RecvCredit \/ RecvSend \/ RecvSetCredit
  <2>1. UNCHANGED <<expected_seq, out_of_order, delivered, f2h>>
    BY <1>5 DEF RecvLoop, RecvTimeout, RecvGreater, RecvFlush, RecvPurge, RecvDrain, RecvCredit,
                RecvSend, RecvSetCredit, SendTo, state, bufVars, output, net
  <2>2. ooo_heap' = {}
    BY <1>5 DEF RecvLoop, RecvTimeout, RecvGreater, RecvFlush, RecvPurge, RecvDrain, RecvCredit,
                RecvSend, RecvSetCredit, state, bufVars, ChainInv, Unbuffered
  <2>3. \/ recv'.pc = recv.pc /\ recv'.pkt = recv.pkt
        \/ /\ recv.pc \in {"loop", "recv", "greater", "purge", "drain", "credit", "send",
                           "set_credit"}
           /\ recv'.pc \in {"loop", "recv", "dead", "purge", "drain", "credit", "send",
                            "set_credit"}
    <3>1. RecvGreater => ~(recv.pkt.seq > expected_seq)
      <4>1. RecvGreater => recv.pkt \in Packets  BY DEF TypeInv, RecvTypes, RecvGreater
      <4>2. RecvGreater => recv.pkt.seq \in Nat  BY <4>1 DEF Packets
      <4>. QED BY <1>1, <4>2 DEF RecvGreater, ChainInv, InHand
    <3>2. RecvDrain => ~(ooo_heap /= {} /\ HeapMin = expected_seq)  BY DEF ChainInv, Unbuffered
    <3>. QED BY <1>5, <3>1, <3>2, RecvFields
         DEF RecvLoop, RecvTimeout, RecvGreater, RecvFlush, RecvPurge, RecvDrain, RecvCredit,
             RecvSend, RecvSetCredit
  <2>4. Reach' = Reach  BY <2>1, <2>3 DEF Reach
  <2>5. Chained'  BY <1>1, <1>3, <2>1, <2>4, ChainQueue DEF ChainInv
  <2>6. Unbuffered' /\ InHand' /\ Counted' /\ CompleteDelivery'
    BY <1>2, <2>1, <2>2, <2>3 DEF ChainInv, Unbuffered, InHand, Counted, CompleteDelivery
  <2>. QED BY <2>5, <2>6 DEF ChainInv
<1>6. CASE RecvPacket
  <2>1. /\ UNCHANGED <<expected_seq, ooo_heap, out_of_order, delivered>>
        /\ recv.pc = "recv" /\ f2h /= <<>> /\ f2h' = Tail(f2h)
    BY <1>6 DEF RecvPacket, bufVars, output
  <2>2. \/ /\ Head(f2h).type = "DATA" /\ recv'.pc = "equal" /\ recv'.pkt = Head(f2h)
        \/ Head(f2h).type /= "DATA" /\ recv'.pc = "loop"
    BY <1>6, RecvFields
  <2>3. Reach = expected_seq  BY <2>1 DEF Reach
  <2>4. Head(f2h).type = "DATA" => Head(f2h).seq \in Nat /\ Head(f2h).seq <= expected_seq
    <3>1. Len(f2h) \in Nat /\ Len(f2h) > 0 /\ Head(f2h) = f2h[1]
      BY <1>1, <2>1, QueueElements, LenProperties DEF NetTypes
    <3>2. 1 \in 1 .. Len(f2h) /\ 1 .. 1 - 1 = {}  BY <3>1
    <3>3. Head(f2h).type = "DATA" => Head(f2h) \in Packets  BY <1>1, <2>1, DataQueue
    <3>4. Head(f2h).type = "DATA" => Head(f2h).seq \in Nat  BY <3>3 DEF Packets
    <3>. QED BY <2>3, <3>1, <3>2, <3>4 DEF ChainInv, Chained
  <2>5. /\ Reach <= Reach' /\ Reach' \in Nat
        /\ Head(f2h).type = "DATA" => Head(f2h).seq + 1 <= Reach'
    <3>1. CASE Head(f2h).type = "DATA"
      <4>1. Reach' = IF Head(f2h).seq = expected_seq THEN expected_seq + 1 ELSE expected_seq
        BY <2>1, <2>2, <3>1 DEF Reach
      <4>. QED BY <1>1, <2>3, <2>4, <3>1, <4>1
    <3>2. CASE Head(f2h).type /= "DATA"
      <4>1. Reach' = expected_seq  BY <2>1, <2>2, <3>2 DEF Reach
      <4>. QED BY <1>1, <2>3, <3>2, <4>1
    <3>. QED BY <3>1, <3>2
  <2>6. Chained'  BY <1>1, <1>3, <2>1, <2>5, ChainQueue DEF ChainInv
  <2>7. Unbuffered' /\ InHand' /\ Counted' /\ CompleteDelivery'
    BY <1>2, <2>1, <2>2, <2>4 DEF ChainInv, Unbuffered, InHand, Counted, CompleteDelivery
  <2>. QED BY <2>6, <2>7 DEF ChainInv
<1>7. CASE RecvEqual
  <2>1. UNCHANGED <<expected_seq, ooo_heap, out_of_order, delivered, f2h>> /\ recv.pc = "equal"
    BY <1>7 DEF RecvEqual, state, bufVars, output, net
  <2>2. /\ recv'.pc = IF recv.pkt.seq = expected_seq THEN "deliver" ELSE "greater"
        /\ recv'.pkt = recv.pkt
    BY <1>7, RecvFields DEF KeepRecv
  <2>3. recv.pkt.seq \in Nat  BY <2>1 DEF TypeInv, RecvTypes, Packets
  <2>4. Reach' = Reach  BY <2>1, <2>2 DEF Reach
  <2>5. Chained'  BY <1>1, <1>3, <2>1, <2>4, ChainQueue DEF ChainInv
  <2>6. Unbuffered' /\ InHand' /\ Counted' /\ CompleteDelivery'
    BY <1>1, <1>2, <2>1, <2>2, <2>3 DEF ChainInv, Unbuffered, InHand, Counted, CompleteDelivery
  <2>. QED BY <2>5, <2>6 DEF ChainInv
<1>8. CASE RecvDeliver
  <2>1. /\ UNCHANGED <<expected_seq, ooo_heap, out_of_order, f2h>> /\ recv.pc = "deliver"
        /\ delivered' = Append(delivered, recv.pkt) /\ recv.pkt \in Packets
    BY <1>8 DEF RecvDeliver, Deliver, state, bufVars, net, TypeInv, RecvTypes
  <2>2. recv'.pc = "advance" /\ recv'.pkt = recv.pkt  BY <1>8, RecvFields
  <2>3. Reach' = Reach  BY <2>1, <2>2 DEF Reach
  <2>4. Chained'  BY <1>1, <1>3, <2>1, <2>3, ChainQueue DEF ChainInv
  <2>5. Unbuffered' /\ InHand'  BY <1>2, <2>1, <2>2 DEF ChainInv, Unbuffered, InHand
  <2>6. /\ Len(delivered') = Len(delivered) + 1 /\ delivered'[Len(delivered) + 1] = recv.pkt
        /\ \A i \in 1 .. Len(delivered) : delivered'[i] = delivered[i]
    BY <1>1, <2>1, QueueElements
  <2>7. Len(delivered) = expected_seq /\ recv.pkt.seq = expected_seq
    BY <2>1 DEF ChainInv, Counted, InHand
  <2>8. Counted'  BY <2>1, <2>2, <2>6, <2>7 DEF Counted
  <2>9. CompleteDelivery'
    BY <1>1, <2>6, <2>7 DEF ChainInv, CompleteDelivery
  <2>. QED BY <2>4, <2>5, <2>8, <2>9 DEF ChainInv
<1>9. CASE RecvAdvance
  <2>1. /\ UNCHANGED <<ooo_heap, out_of_order, delivered, f2h>> /\ recv.pc = "advance"
        /\ expected_seq' = expected_seq + 1
    BY <1>9 DEF RecvAdvance, bufVars, output, net, ChainInv, Unbuffered
  <2>2. recv'.pc = "purge"  BY <1>9, <2>1, RecvFields
  <2>3. Reach' = Reach /\ Reach' \in Nat  BY <1>1, <2>1, <2>2 DEF Reach, ChainInv, InHand
  <2>4. Chained'  BY <1>1, <1>3, <2>1, <2>3, ChainQueue DEF ChainInv
  <2>5. Unbuffered' /\ InHand' /\ Counted' /\ CompleteDelivery'
    BY <1>2, <2>1, <2>2 DEF ChainInv, Unbuffered, InHand, Counted, CompleteDelivery
  <2>. QED BY <2>4, <2>5 DEF ChainInv
<1>. QED BY <1>4, <1>5, <1>6, <1>7, <1>8, <1>9 DEF RecvThread

\* The polling thread sees no gap; the main thread empties what is empty.
LEMMA ChainOthers ==
  ASSUME TypeInv, FreshInv, ChainInv, UNCHANGED fpgaVars, PollThread \/ AppThread
  PROVE  ChainInv'
<1>1. /\ NetTypes /\ FpgaTypes /\ expected_seq \in Nat /\ f_seq' = f_seq
  BY DEF TypeInv, StateTypes, fpgaVars
<1>2. Reach \in Nat  BY <1>1 DEF Reach
<1>3. CASE PollThread
  <2>1. \/ PollSleep \/ PollCredit \/ PollSend \/ PollSetCredit \/ PollGap \/ PollKeepAlive
        \/ PollFlush
    BY <1>3 DEF ChainInv, Unbuffered, Idle, PollThread, PollPurge, PollSkip, PollDrain, PollTake,
                PollFlush, PollAdvance, PollSkipCredit, PollSkipSetCredit
  <2>2. UNCHANGED <<recv, ooo_heap, out_of_order, expected_seq, delivered, f2h>>
    BY <2>1 DEF PollSleep, PollCredit, PollSend, PollSetCredit, PollGap, PollKeepAlive,
                PollFlush, SendTo, state, bufVars, output, net
  <2>3. poll'.pc \in Idle
    BY <2>1, PollFields DEF ChainInv, Unbuffered, Idle, PollSend
  <2>4. Reach' = Reach  BY <2>2 DEF Reach
  <2>5. Chained'  BY <1>1, <1>2, <2>2, <2>4, ChainQueue DEF ChainInv
  <2>6. Unbuffered' /\ InHand' /\ Counted' /\ CompleteDelivery'
    BY <2>2, <2>3 DEF ChainInv, Unbuffered, InHand, Counted, CompleteDelivery
  <2>. QED BY <2>5, <2>6 DEF ChainInv
<1>4. CASE AppThread
  <2>1. UNCHANGED <<recv, poll>>  BY <1>4, MainSends
  <2>2. /\ \/ UNCHANGED f2h
           \/ app.pc = "drain" /\ f2h /= <<>> /\ f2h' = Tail(f2h)
        /\ UNCHANGED ooo_heap \/ ooo_heap' = {}
        /\ UNCHANGED out_of_order \/ out_of_order' = {}
        /\ UNCHANGED expected_seq \/ (app.pc = "reset_seq" /\ expected_seq' = 0)
        /\ UNCHANGED delivered
    BY <1>4 DEF AppThread, AppSetTimeout, AppDrain, AppReset, AppSendCmd, AppAcked, AppTimeout,
                AppCredit, AppDurationOver, AppShellCmd, AppShellCredit, AppShellQuit, AppStop,
                AppJoin, AppFlush, SendTo, net, state, bufVars, output
  <2>3. app.pc \in {"drain", "reset_seq"} => Untouched
    BY DEF FreshInv, Startup, ResetNext
  <2>4. UNCHANGED expected_seq  BY <2>2, <2>3 DEF Untouched
  <2>5. app.pc = "drain" /\ f2h /= <<>> => Head(f2h).type /= "DATA"
    BY <1>1, <2>3, DataQueue DEF Untouched
  <2>6. Reach' = Reach  BY <2>1, <2>4 DEF Reach
  <2>7. Chained'  BY <1>1, <1>2, <2>2, <2>5, <2>6, ChainQueue DEF ChainInv
  <2>8. Unbuffered' /\ InHand' /\ Counted' /\ CompleteDelivery'
    BY <2>1, <2>2, <2>4 DEF ChainInv, Unbuffered, InHand, Counted, CompleteDelivery
  <2>. QED BY <2>7, <2>8 DEF ChainInv
<1>. QED BY <1>3, <1>4

\* The FPGA numbers its packets without a gap, from 0 at every START, and the
\* network takes none of them.
LEMMA ChainPeer ==
  ASSUME TypeInv, ChainInv, Fpga \/ Lose, "DATA" \notin LOSE
  PROVE  ChainInv'
<1>1. NetTypes /\ FpgaTypes /\ expected_seq \in Nat  BY DEF TypeInv, StateTypes
<1>2. Reach \in Nat  BY <1>1 DEF Reach
<1>3. UNCHANGED <<recv, poll, ooo_heap, out_of_order, expected_seq, delivered>>
  BY DEF Fpga, FpgaReceive, FpgaRespond, FpgaBegin, FpgaFinish, Lose, hostOnly, state, bufVars,
         output
<1>4. Reach' = Reach  BY <1>3 DEF Reach
<1>5. \/ UNCHANGED f2h /\ (f_seq' = f_seq \/ f_seq' = 0)
      \/ /\ f2h /= <<>> /\ f2h' = Tail(f2h) /\ f_seq' = f_seq
         /\ Head(f2h).type /= "DATA"
      \/ \E r \in Answers : f2h' = Append(f2h, r) /\ f_seq' = f_seq
      \/ \E p \in Packets : /\ f2h' = Append(f2h, p) /\ p.seq = f_seq
                            /\ f_seq' = f_seq + 1
  <2>1. FpgaReceive => UNCHANGED f2h /\ (f_seq' = f_seq \/ f_seq' = 0)
    BY DEF FpgaReceive, FpgaCmd, FpgaCredit, fpgaVars
  <2>2. FpgaRespond => \E r \in Answers : f2h' = Append(f2h, r) /\ f_seq' = f_seq
    BY <1>1 DEF FpgaRespond, FpgaTypes
  <2>3. FpgaBegin => UNCHANGED f2h /\ f_seq' = f_seq  BY DEF FpgaBegin
  <2>4. FpgaFinish => \E p \in Packets : /\ f2h' = Append(f2h, p) /\ p.seq = f_seq
                                         /\ f_seq' = f_seq + 1
    <3> DEFINE p == [type |-> "DATA", seq |-> f_seq, session |-> f_session]
    <3>1. p \in Packets /\ p.seq = f_seq  BY <1>1 DEF Packets, FpgaTypes
    <3>2. FpgaFinish => f2h' = Append(f2h, p) /\ f_seq' = f_seq + 1  BY DEF FpgaFinish
    <3> HIDE DEF p
    <3>. QED BY <3>1, <3>2
  <2>5. Lose => \/ UNCHANGED f2h /\ f_seq' = f_seq
                \/ /\ f2h /= <<>> /\ f2h' = Tail(f2h) /\ f_seq' = f_seq
                   /\ Head(f2h).type /= "DATA"
    BY DEF Lose, fpgaVars
  <2>. QED BY <2>1, <2>2, <2>3, <2>4, <2>5 DEF Fpga
<1>6. Chained'  BY <1>1, <1>2, <1>4, <1>5, ChainQueue DEF ChainInv
<1>7. Unbuffered' /\ InHand' /\ Counted' /\ CompleteDelivery'
  BY <1>3 DEF ChainInv, Unbuffered, InHand, Counted, CompleteDelivery
<1>. QED BY <1>6, <1>7 DEF ChainInv

\* An answer and a DATA packet that change places.
LEMMA ChainOvertake ==
  ASSUME TypeInv, ChainInv, Overtake, DataKeepsOrder
  PROVE  ChainInv'
<1>1. NetTypes  BY DEF TypeInv
<1>2. UNCHANGED <<recv, poll, ooo_heap, out_of_order, expected_seq, delivered, f_seq>>
  BY DEF Overtake, hostOnly, state, bufVars, output, fpgaVars
<1>3. Reach' = Reach  BY <1>2 DEF Reach
<1>4. /\ Len(f2h) \in Nat /\ Len(f2h) >= 2 /\ Len(f2h') = Len(f2h)
      /\ f2h'[1] = f2h[2] /\ f2h'[2] = f2h[1]
      /\ \A i \in 3 .. Len(f2h) : f2h'[i] = f2h[i]
      /\ f2h[1].type /= "DATA" \/ f2h[2].type /= "DATA"
  BY <1>1, OvertakeElements DEF DataKeepsOrder
<1>5. ASSUME NEW j \in 1 .. Len(f2h), NEW n, Precedes(f2h, j, n)
      PROVE  \E k \in 1 .. Len(f2h') : Precedes(f2h', k, n) /\ (j >= 3 => k = j) /\ (j <= 2 => k <= 2)
  <2>1. CASE j = 1  BY <1>4, <1>5, <2>1 DEF Precedes
  <2>2. CASE j = 2  BY <1>4, <1>5, <2>2 DEF Precedes
  <2>3. CASE j \in 3 .. Len(f2h)  BY <1>4, <1>5, <2>3 DEF Precedes
  <2>. QED BY <1>4, <2>1, <2>2, <2>3
<1>6. ASSUME NEW i \in 1 .. Len(f2h'), f2h'[i].type = "DATA"
      PROVE  f2h'[i].seq <= Reach' \/ \E k \in 1 .. i - 1 : Precedes(f2h', k, f2h'[i].seq)
  <2>1. CASE i \in 3 .. Len(f2h)
    <3>1. f2h'[i] = f2h[i] /\ i \in 1 .. Len(f2h)  BY <1>4, <2>1
    <3>2. CASE \E j \in 1 .. i - 1 : Precedes(f2h, j, f2h[i].seq)
      <4>1. PICK j \in 1 .. i - 1 : Precedes(f2h, j, f2h[i].seq)  BY <3>2
      <4>2. j \in 1 .. Len(f2h)  BY <1>4, <2>1
      <4>3. PICK k \in 1 .. Len(f2h') : /\ Precedes(f2h', k, f2h[i].seq)
                                        /\ (j >= 3 => k = j) /\ (j <= 2 => k <= 2)
        BY <1>5, <4>1, <4>2
      <4>4. k \in 1 .. i - 1  BY <1>4, <2>1, <4>3
      <4>. QED BY <3>1, <4>3, <4>4
    <3>. QED BY <1>3, <1>6, <3>1, <3>2 DEF ChainInv, Chained
  <2>2. CASE i = 1 \/ i = 2
    <3>1. PICK j \in {1, 2} : f2h'[i] = f2h[j] /\ f2h[3 - j].type /= "DATA"
      BY <1>4, <1>6, <2>2
    <3>2. j \in 1 .. Len(f2h) /\ \A k \in 1 .. j - 1 : ~Precedes(f2h, k, f2h[j].seq)
      <4>1. \A k \in 1 .. j - 1 : k = 3 - j  BY <3>1
      <4>. QED BY <1>4, <3>1, <4>1 DEF Precedes
    <3>. QED BY <1>3, <1>6, <3>1, <3>2 DEF ChainInv, Chained
  <2>. QED BY <1>4, <2>1, <2>2
<1>7. f_seq' <= Reach' \/ \E k \in 1 .. Len(f2h') : Precedes(f2h', k, f_seq')
  BY <1>2, <1>3, <1>5 DEF ChainInv, Chained
<1>8. Chained'  BY <1>6, <1>7 DEF Chained
<1>9. Unbuffered' /\ InHand' /\ Counted' /\ CompleteDelivery'
  BY <1>2 DEF ChainInv, Unbuffered, InHand, Counted, CompleteDelivery
<1>. QED BY <1>8, <1>9 DEF ChainInv

\* As long as DATA packets are neither lost nor overtake one another, the host
\* delivers 0, 1, 2, ... without a gap or a repetition, whatever commands, ACKs and
\* CREDITs are lost or overtaken, and in however many sessions: _handle_data,
\* _poll_loop and the retries of _send_cmd_wait_ack together.
THEOREM DeliveryIsComplete ==
  ASSUME STALE \subseteq {0}, "DATA" \notin LOSE
  PROVE  Spec /\ [][DataKeepsOrder]_vars => []CompleteDelivery
<1>1. Init => ChainInv
  <2> SUFFICES ASSUME Init PROVE ChainInv
    OBVIOUS
  <2>1. /\ f_seq = 0 /\ expected_seq = 0 /\ f2h = <<>> /\ delivered = <<>> /\ ooo_heap = {}
        /\ out_of_order = {} /\ recv.pc = "loop" /\ poll.pc = "sleep"
    BY DEF Init, HostInit
  <2>2. Len(<<>>) = 0 /\ 1 .. 0 = {}  OBVIOUS
  <2>3. Chained  BY <2>1, <2>2 DEF Chained, Reach
  <2>4. Unbuffered /\ InHand  BY <2>1 DEF Unbuffered, InHand, Idle
  <2>5. Counted /\ CompleteDelivery  BY <2>1, <2>2 DEF Counted, CompleteDelivery
  <2>. QED BY <2>3, <2>4, <2>5 DEF ChainInv
<1>2. TypeInv /\ FreshInv /\ ChainInv /\ [Next]_vars /\ [DataKeepsOrder]_vars
        => ChainInv'
  <2> SUFFICES ASSUME TypeInv, FreshInv, ChainInv, [Next]_vars, [DataKeepsOrder]_vars PROVE ChainInv'
    OBVIOUS
  <2>1. CASE Alive /\ RecvThread  BY <2>1, ChainRecv DEF Alive
  <2>2. CASE Alive /\ (PollThread \/ AppThread)  BY <2>2, ChainOthers DEF Alive
  <2>3. CASE Fpga \/ Lose  BY <2>3, ChainPeer
  <2>4. CASE Overtake /\ DataKeepsOrder  BY <2>4, ChainOvertake
  <2>5. CASE UNCHANGED vars
    BY <2>5 DEF ChainInv, Chained, Reach, Unbuffered, InHand, Counted, CompleteDelivery, vars,
                hostVars, state, bufVars, output, net, fpgaVars
  <2>. QED BY <2>1, <2>2, <2>3, <2>4, <2>5 DEF Next
<1>3. ChainInv => CompleteDelivery  BY DEF ChainInv
<1>. QED BY <1>1, <1>2, <1>3, TypeInvariant, FreshInvariant, PTL DEF Spec

-----------------------------------------------------------------------------
(***************************************************************************)
(* The order of arrival.  In one session of the FPGA, whatever is lost,    *)
(* numbers only rise: what is buffered or in the hands of a thread is      *)
(* below what the receive thread has just taken from the socket, and that  *)
(* is below what still comes.  Two things follow.  expected_seq never      *)
(* falls, so a credit computed from an older value is never too large.     *)
(* And the two threads never deliver at the same time, although nothing    *)
(* locks them out.                                                         *)
(***************************************************************************)
Holding == {"equal", "greater", "push", "store", "deliver", "advance"}
Skipping == {"skip", "take", "drain_advance"}

Seen == ooo_heap \cup Buffered \cup (IF poll.pc \in Skipping THEN {poll.skip_to} ELSE {})
Below(n) == \A k \in Seen : k < n

ArrivalOrder ==
  /\ DataInOrder
  /\ \A m \in Arriving : /\ m.seq < f_seq /\ expected_seq <= m.seq /\ Below(m.seq)
                         /\ recv.pc \in Holding => recv.pkt.seq < m.seq
  /\ expected_seq <= f_seq /\ Below(f_seq)

RecvOrder ==
  /\ recv.pc \in Holding => expected_seq <= recv.pkt.seq /\ recv.pkt.seq < f_seq
  /\ recv.pc \in {"equal", "greater", "push"} => Below(recv.pkt.seq)
  /\ recv.pc = "store" => /\ \A k \in Seen : k <= recv.pkt.seq
                          /\ recv.pkt.seq \notin Buffered
                          /\ poll.pc = "drain_advance" => poll.skip_to < recv.pkt.seq
  /\ recv.pc \in {"deliver", "advance"} => recv.pkt.seq = expected_seq
  /\ recv.pc \in {"deliver", "advance", "purge", "drain"} => Below(expected_seq)
  /\ recv.pc \notin {"take", "drain_advance"}

PollOrder ==
  /\ poll.pc = "skip" => expected_seq <= poll.skip_to
  /\ poll.pc \in {"take", "drain_advance"} => poll.skip_to = expected_seq

Rising == ArrivalOrder /\ RecvOrder /\ PollOrder
RisingInv == f_session <= 1 => Rising

\* All of these are numbers.
LEMMA RisingTypes ==
  ASSUME TypeInv
  PROVE  /\ Seen \subseteq Nat /\ Buffered \subseteq Nat /\ expected_seq \in Nat /\ f_seq \in Nat
         /\ \A m \in Arriving : m.seq \in Nat
         /\ recv.pc \in Holding \ {"advance"} => recv.pkt.seq \in Nat
         /\ poll.skip_to \in Nat
<1>1. /\ ooo_heap \subseteq Nat /\ out_of_order \subseteq Packets /\ expected_seq \in Nat
      /\ f_seq \in Nat /\ poll.skip_to \in Nat
      /\ recv.pc \in Holding \ {"advance"} => recv.pkt \in Packets
  BY DEF TypeInv, StateTypes, FpgaTypes, PollTypes, PollRecords, RecvTypes, Holding
<1>2. Arriving \subseteq Packets  BY DataQueue DEF TypeInv
<1>3. \A p \in Packets : p.seq \in Nat  BY DEF Packets
<1>4. Buffered \subseteq Nat  BY <1>1, <1>3 DEF Buffered
<1>. QED BY <1>1, <1>2, <1>3, <1>4 DEF Seen

\* A bound on what has been seen.
LEMMA BelowRises ==
  ASSUME TypeInv, NEW n \in Nat, Below(n), NEW k \in Nat, n <= k
  PROVE  k \notin Seen /\ \A j \in Seen : j < k
<1>1. \A j \in Seen : j \in Nat /\ j < n  BY RisingTypes DEF Below
<1>2. \A j \in Seen : j < k  BY <1>1
<1>3. ~(k < k)  OBVIOUS
<1>. QED BY <1>2, <1>3

\* A step that only lets go of packets.
LEMMA RisingKept ==
  ASSUME TypeInv, Rising, UNCHANGED <<expected_seq, f_seq>>, DataInOrder',
         Seen' \subseteq Seen, Arriving' \subseteq Arriving, Buffered' \subseteq Buffered,
         \/ recv'.pc = recv.pc /\ recv'.pkt = recv.pkt
         \/ recv.pc = "deliver" /\ recv'.pc = "advance" /\ recv'.pkt = recv.pkt
         \/ recv.pc = "purge" /\ recv'.pc = "drain"
         \/ recv'.pc \notin Holding \cup {"purge", "drain", "take", "drain_advance"},
         \/ poll'.pc = poll.pc /\ poll'.skip_to = poll.skip_to
         \/ poll'.pc \notin Skipping
  PROVE  Rising'
<1>1. ArrivalOrder'  BY DEF Rising, ArrivalOrder, Below, Holding
<1>2. RecvOrder'  BY DEF Rising, RecvOrder, Below, Holding, Skipping
<1>3. PollOrder'  BY DEF Rising, PollOrder, Skipping
<1>. QED BY <1>1, <1>2, <1>3 DEF Rising

\* The receive thread.
LEMMA RisingRecv ==
  ASSUME TypeInv, Rising, UNCHANGED fpgaVars, RecvThread
  PROVE  Rising'
<1>1. /\ NetTypes /\ ooo_heap \subseteq Nat /\ f_seq' = f_seq
      /\ Seen \subseteq Nat /\ Buffered \subseteq Nat /\ expected_seq \in Nat /\ f_seq \in Nat
      /\ \A m \in Arriving : m.seq \in Nat
  BY RisingTypes DEF TypeInv, StateTypes, fpgaVars
<1>2. UNCHANGED poll
  BY DEF RecvThread, RecvLoop, RecvTimeout, RecvPacket, RecvEqual, RecvGreater, RecvPush,
         RecvStore, RecvDeliver, RecvFlush, RecvAdvance, RecvPurge, RecvDrain, RecvTake,
         RecvCredit, RecvSend, RecvSetCredit
<1>3. ~RecvTake /\ (RecvAdvance => recv.pc = "advance")
  BY DEF Rising, RecvOrder, RecvTake, RecvAdvance
<1>4. UNCHANGED <<ooo_heap, out_of_order>> => Seen' = Seen /\ Buffered' = Buffered
  BY <1>2, BufferedSteps DEF Seen
<1>5. UNCHANGED f2h => Arriving' = Arriving /\ DataInOrder'
  BY <1>1, DataQueue DEF Rising, ArrivalOrder
<1>6. CASE \/ RecvLoop \/ RecvTimeout \/ (RecvGreater /\ ~(recv.pkt.seq > expected_seq))
           \/ RecvDeliver \/ RecvFlush \/ RecvCredit \/ RecvSend \/ RecvSetCredit
  <2>1. UNCHANGED <<expected_seq, ooo_heap, out_of_order, f2h>>
    BY <1>6 DEF RecvLoop, RecvTimeout, RecvGreater, RecvDeliver, RecvFlush, RecvCredit,
                RecvSend, RecvSetCredit, SendTo, state, bufVars, net
  <2>2. \/ recv'.pc = recv.pc /\ recv'.pkt = recv.pkt
        \/ recv.pc = "deliver" /\ recv'.pc = "advance" /\ recv'.pkt = recv.pkt
        \/ recv'.pc \notin Holding \cup {"purge", "drain", "take", "drain_advance"}
    BY <1>6, RecvFields DEF RecvDeliver, Holding
  <2>. QED BY <1>1, <1>2, <1>4, <1>5, <2>1, <2>2, RisingKept
<1>7. CASE RecvPurge \/ RecvDrain
  <2>1. ~(RecvDrain /\ ooo_heap /= {} /\ HeapMin = expected_seq)
    <3>1. ooo_heap /= {} => HeapMin \in Seen  BY <1>1, HeapHead DEF Seen
    <3>. QED BY <1>1, <3>1 DEF Rising, RecvOrder, Below, RecvDrain
  <2>2. UNCHANGED <<expected_seq, out_of_order, f2h>> /\ ooo_heap' \subseteq ooo_heap
    BY <1>7, <2>1 DEF RecvPurge, RecvDrain, net
  <2>3. Buffered' = Buffered  BY <2>2, BufferedSteps
  <2>4. Seen' \subseteq Seen  BY <1>2, <2>2, <2>3 DEF Seen
  <2>5. \/ recv'.pc = recv.pc /\ recv'.pkt = recv.pkt
        \/ recv.pc = "purge" /\ recv'.pc = "drain"
        \/ recv'.pc \notin Holding \cup {"purge", "drain", "take", "drain_advance"}
    BY <1>7, <2>1, RecvFields DEF RecvPurge, Holding, KeepRecv
  <2>. QED BY <1>1, <1>2, <1>5, <2>2, <2>3, <2>4, <2>5, RisingKept
<1>8. CASE RecvPacket
  <2>1. /\ UNCHANGED <<expected_seq, ooo_heap, out_of_order>>
        /\ recv.pc = "recv" /\ f2h /= <<>> /\ f2h' = Tail(f2h)
    BY <1>8 DEF RecvPacket, bufVars
  <2>2. /\ Arriving' \subseteq Arriving /\ DataInOrder'
        /\ Head(f2h).type = "DATA" => /\ Head(f2h) \in Arriving
                                      /\ \A m \in Arriving' : Head(f2h).seq < m.seq
    BY <1>1, <2>1, DataQueue DEF Rising, ArrivalOrder
  <2>3. CASE Head(f2h).type = "DATA" /\ recv'.pc = "equal" /\ recv'.pkt = Head(f2h)
    <3>1. /\ Head(f2h).seq < f_seq /\ expected_seq <= Head(f2h).seq /\ Below(Head(f2h).seq)
      BY <2>2, <2>3 DEF Rising, ArrivalOrder
    <3>2. ArrivalOrder'
      BY <1>1, <1>4, <2>1, <2>2, <2>3 DEF Rising, ArrivalOrder, Below
    <3>3. RecvOrder'
      BY <1>1, <1>4, <2>1, <2>3, <3>1 DEF RecvOrder, Below, Holding
    <3>4. PollOrder'  BY <1>2, <2>1 DEF Rising, PollOrder
    <3>. QED BY <3>2, <3>3, <3>4 DEF Rising
  <2>4. CASE recv'.pc = "loop"
    <3>1. recv'.pc \notin Holding \cup {"purge", "drain", "take", "drain_advance"}
      BY <2>4 DEF Holding
    <3>. QED BY <1>1, <1>2, <1>4, <2>1, <2>2, <3>1, RisingKept
  <2>. QED BY <1>8, <2>3, <2>4, RecvFields
<1>9. CASE RecvEqual \/ (RecvGreater /\ recv.pkt.seq > expected_seq)
  <2>1. UNCHANGED <<expected_seq, ooo_heap, out_of_order, f2h>> /\ recv.pc \in {"equal", "greater"}
    BY <1>9 DEF RecvEqual, RecvGreater, state, bufVars, net
  <2>2. /\ recv'.pkt = recv.pkt
        /\ \/ recv'.pc = "deliver" /\ recv.pkt.seq = expected_seq
           \/ recv'.pc \in {"greater", "push"}
    BY <1>9, RecvFields DEF KeepRecv
  <2>3. ArrivalOrder'
    BY <1>1, <1>4, <1>5, <2>1, <2>2 DEF Rising, ArrivalOrder, Below, Holding
  <2>4. RecvOrder'
    BY <1>1, <1>2, <1>4, <2>1, <2>2 DEF Rising, RecvOrder, Below, Holding
  <2>5. PollOrder'  BY <1>2, <2>1 DEF Rising, PollOrder
  <2>. QED BY <2>3, <2>4, <2>5 DEF Rising
<1>10. CASE RecvPush
  <2>1. /\ UNCHANGED <<expected_seq, out_of_order, f2h>> /\ recv.pc = "push"
        /\ recv'.pc = "store" /\ recv'.pkt = recv.pkt
        /\ ooo_heap' \subseteq ooo_heap \cup {recv.pkt.seq}
    BY <1>10, RecvFields DEF RecvPush, net, KeepRecv
  <2>2. recv.pkt.seq \in Nat  BY <2>1, RisingTypes DEF Holding
  <2>3. Buffered' = Buffered  BY <2>1, BufferedSteps
  <2>4. Seen' \subseteq Seen \cup {recv.pkt.seq}  BY <1>2, <2>1, <2>3 DEF Seen
  <2>5. Buffered \subseteq Seen /\ (poll.pc = "drain_advance" => poll.skip_to \in Seen)
    BY DEF Seen, Skipping
  <2>6. /\ Below(recv.pkt.seq) /\ expected_seq <= recv.pkt.seq /\ recv.pkt.seq < f_seq
        /\ \A m \in Arriving : recv.pkt.seq < m.seq
    BY <2>1 DEF Rising, RecvOrder, ArrivalOrder, Holding
  <2>7. recv.pkt.seq \notin Buffered /\ (poll.pc = "drain_advance" => poll.skip_to < recv.pkt.seq)
    <3>1. recv.pkt.seq \notin Seen /\ \A j \in Seen : j < recv.pkt.seq
      BY <2>2, <2>6, BelowRises
    <3>. QED BY <2>5, <3>1
  <2>8. ArrivalOrder'
    BY <1>1, <1>5, <2>1, <2>4, <2>6 DEF Rising, ArrivalOrder, Below, Holding
  <2>9. RecvOrder'
    BY <1>1, <1>2, <2>1, <2>2, <2>3, <2>4, <2>6, <2>7 DEF RecvOrder, Below, Holding
  <2>10. PollOrder'  BY <1>2, <2>1 DEF Rising, PollOrder
  <2>. QED BY <2>8, <2>9, <2>10 DEF Rising
<1>11. CASE RecvStore
  <2>1. /\ UNCHANGED <<expected_seq, ooo_heap, f2h>> /\ recv.pc = "store" /\ recv'.pc = "loop"
    BY <1>11, RecvFields DEF RecvStore, net
  <2>2. recv.pkt.seq \in Nat  BY <2>1, RisingTypes DEF Holding
  <2>3. Buffered' = Buffered \cup {recv.pkt.seq}  BY <1>11, BufferedSteps
  <2>4. Seen' \subseteq Seen \cup {recv.pkt.seq}  BY <1>2, <2>1, <2>3 DEF Seen
  <2>5. /\ expected_seq <= recv.pkt.seq /\ recv.pkt.seq < f_seq
        /\ \A m \in Arriving : recv.pkt.seq < m.seq
    BY <2>1 DEF Rising, RecvOrder, ArrivalOrder, Holding
  <2>6. ArrivalOrder'
    BY <1>1, <1>5, <2>1, <2>4, <2>5 DEF Rising, ArrivalOrder, Below, Holding
  <2>7. RecvOrder'  BY <2>1 DEF RecvOrder, Holding
  <2>8. PollOrder'  BY <1>2, <2>1 DEF Rising, PollOrder
  <2>. QED BY <2>6, <2>7, <2>8 DEF Rising
<1>12. CASE RecvAdvance
  <2>1. /\ UNCHANGED <<ooo_heap, out_of_order, f2h>> /\ recv.pc = "advance"
        /\ expected_seq' = expected_seq + 1
    BY <1>3, <1>12 DEF RecvAdvance, bufVars, net
  <2>2. recv'.pc = "purge"  BY <1>12, <2>1, RecvFields
  <2>3. /\ recv.pkt.seq = expected_seq /\ recv.pkt.seq < f_seq /\ Below(expected_seq)
        /\ \A m \in Arriving : recv.pkt.seq < m.seq
    BY <2>1 DEF Rising, RecvOrder, ArrivalOrder, Holding
  <2>4. poll.pc \notin Skipping
    <3>1. poll.pc \in Skipping => poll.skip_to \in Seen /\ expected_seq <= poll.skip_to
      BY <1>1 DEF Seen, Skipping, Rising, PollOrder
    <3>. QED BY <1>1, <2>3, <3>1, BelowRises, RisingTypes
  <2>5. ArrivalOrder'
    <3>1. expected_seq' <= f_seq' /\ \A m \in Arriving : expected_seq' <= m.seq  BY <1>1, <2>1, <2>3
    <3>. QED BY <1>1, <1>4, <1>5, <2>1, <2>2, <3>1 DEF Rising, ArrivalOrder, Below, Holding
  <2>6. RecvOrder'
    <3>1. \A k \in Seen : k < expected_seq'
      <4>1. expected_seq' \in Nat /\ expected_seq <= expected_seq'  BY <1>1, <2>1
      <4>. QED BY <1>1, <2>3, <4>1, BelowRises
    <3>. QED BY <1>4, <2>1, <2>2, <3>1 DEF RecvOrder, Below, Holding
  <2>7. PollOrder'  BY <1>2, <2>4 DEF PollOrder, Skipping
  <2>. QED BY <2>5, <2>6, <2>7 DEF Rising
<1>. QED BY <1>3, <1>6, <1>7, <1>8, <1>9, <1>10, <1>11, <1>12 DEF RecvThread

\* The polling thread: the number it skips to was seen before what the receive
\* thread holds, so the two never deliver together.
LEMMA RisingPoll ==
  ASSUME TypeInv, Rising, UNCHANGED fpgaVars, PollThread
  PROVE  Rising'
<1>1. /\ NetTypes /\ ooo_heap \subseteq Nat /\ f_seq' = f_seq
      /\ Seen \subseteq Nat /\ Buffered \subseteq Nat /\ expected_seq \in Nat /\ f_seq \in Nat
      /\ \A m \in Arriving : m.seq \in Nat
      /\ recv.pc \in Holding \ {"advance"} => recv.pkt.seq \in Nat
      /\ poll.skip_to \in Nat
  BY RisingTypes DEF TypeInv, StateTypes, fpgaVars
<1>2. UNCHANGED <<recv, f2h>>
  BY DEF PollThread, PollSleep, PollCredit, PollSend, PollSetCredit, PollGap, PollPurge,
         PollSkip, PollDrain, PollTake, PollFlush, PollAdvance, PollSkipCredit,
         PollSkipSetCredit, PollKeepAlive, SendTo, net
<1>3. Arriving' = Arriving /\ DataInOrder'  BY <1>1, <1>2, DataQueue DEF Rising, ArrivalOrder
<1>4. poll.pc \in Skipping
        => /\ poll.skip_to \in Seen /\ expected_seq <= poll.skip_to
           /\ recv.pc \notin {"deliver", "advance", "purge", "drain"}
  <2>1. poll.pc \in Skipping => poll.skip_to \in Seen /\ expected_seq <= poll.skip_to
    BY <1>1 DEF Seen, Skipping, Rising, PollOrder
  <2>. QED BY <1>1, <2>1, BelowRises DEF Rising, RecvOrder
<1>5. CASE \/ PollSleep \/ PollCredit \/ PollSend \/ PollSetCredit \/ PollGap \/ PollFlush
           \/ PollSkipCredit \/ PollSkipSetCredit \/ PollKeepAlive
  <2>1. UNCHANGED <<expected_seq, ooo_heap, out_of_order>>
    BY <1>5 DEF PollSleep, PollCredit, PollSend, PollSetCredit, PollGap, PollFlush,
                PollSkipCredit, PollSkipSetCredit, PollKeepAlive, state, bufVars
  <2>2. \/ poll'.pc = poll.pc /\ poll'.skip_to = poll.skip_to
        \/ poll'.pc \notin Skipping
    BY <1>5, PollFields DEF Skipping
  <2>3. Buffered' = Buffered  BY <2>1, BufferedSteps
  <2>4. Seen' \subseteq Seen  BY <2>1, <2>2, <2>3 DEF Seen
  <2>. QED BY <1>1, <1>2, <1>3, <2>1, <2>2, <2>3, <2>4, RisingKept
<1>6. CASE PollPurge
  <2>1. /\ UNCHANGED <<expected_seq, out_of_order>> /\ ooo_heap' \subseteq ooo_heap
        /\ poll.pc = "purge"
    BY <1>6 DEF PollPurge
  <2>2. Buffered' = Buffered  BY <2>1, BufferedSteps
  <2>3. CASE poll'.pc \in {"sleep", "purge"}
    <3>1. poll'.pc \notin Skipping  BY <2>3 DEF Skipping
    <3>2. Seen' \subseteq Seen  BY <2>1, <2>2, <3>1 DEF Seen
    <3>. QED BY <1>1, <1>2, <1>3, <2>1, <2>2, <3>1, <3>2, RisingKept
  <2>4. CASE /\ ooo_heap /= {} /\ HeapMin >= expected_seq /\ UNCHANGED ooo_heap
             /\ poll'.pc = "skip" /\ poll'.skip_to = HeapMin
    <3>1. HeapMin \in ooo_heap /\ HeapMin \in Nat  BY <1>1, <2>4, HeapHead
    <3>2. Seen' \subseteq Seen  BY <2>2, <2>4, <3>1 DEF Seen
    <3>3. ArrivalOrder'
      BY <1>1, <1>2, <1>3, <2>1, <3>2 DEF Rising, ArrivalOrder, Below
    <3>4. RecvOrder'
      BY <1>1, <1>2, <2>1, <2>2, <2>4, <3>2 DEF Rising, RecvOrder, Below
    <3>5. PollOrder'  BY <1>1, <2>1, <2>4, <3>1 DEF PollOrder
    <3>. QED BY <3>3, <3>4, <3>5 DEF Rising
  <2>. QED BY <1>6, <2>3, <2>4, PollFields
<1>7. CASE PollSkip
  <2>1. /\ UNCHANGED <<ooo_heap, out_of_order>> /\ poll.pc = "skip" /\ poll'.pc = "drain"
        /\ expected_seq' = poll.skip_to
    BY <1>7, PollFields DEF PollSkip, bufVars
  <2>2. Buffered' = Buffered  BY <2>1, BufferedSteps
  <2>3. Seen' \subseteq Seen  BY <2>1, <2>2 DEF Seen, Skipping
  <2>4. /\ poll.skip_to \in Seen /\ recv.pc \notin {"deliver", "advance", "purge", "drain"}
    BY <1>4, <2>1 DEF Skipping
  <2>5. /\ poll.skip_to <= f_seq /\ \A m \in Arriving : poll.skip_to <= m.seq
        /\ recv.pc \in Holding => poll.skip_to <= recv.pkt.seq
    BY <1>1, <2>4 DEF Rising, ArrivalOrder, RecvOrder, Below, Holding
  <2>6. ArrivalOrder'
    BY <1>1, <1>2, <1>3, <2>1, <2>3, <2>5 DEF Rising, ArrivalOrder, Below
  <2>7. RecvOrder'
    BY <1>1, <1>2, <2>1, <2>2, <2>3, <2>4, <2>5 DEF Rising, RecvOrder, Below
  <2>8. PollOrder'  BY <2>1 DEF PollOrder
  <2>. QED BY <2>6, <2>7, <2>8 DEF Rising
<1>8. CASE PollDrain
  <2>1. UNCHANGED <<expected_seq, out_of_order>> /\ poll.pc = "drain"  BY <1>8 DEF PollDrain
  <2>2. Buffered' = Buffered  BY <2>1, BufferedSteps
  <2>3. CASE ~(ooo_heap /= {} /\ HeapMin = expected_seq)
    <3>1. poll'.pc \notin Skipping  BY <1>8, <2>3, PollFields DEF Skipping
    <3>2. UNCHANGED ooo_heap  BY <1>8, <2>3 DEF PollDrain
    <3>3. Seen' \subseteq Seen  BY <2>2, <3>1, <3>2 DEF Seen
    <3>. QED BY <1>1, <1>2, <1>3, <2>1, <2>2, <3>1, <3>3, RisingKept
  <2>4. CASE ooo_heap /= {} /\ HeapMin = expected_seq
    <3>1. HeapMin \in ooo_heap /\ HeapMin \in Nat  BY <1>1, <2>4, HeapHead
    <3>2. /\ poll'.pc = "take" /\ poll'.skip_to = HeapMin /\ ooo_heap' = ooo_heap \ {HeapMin}
      BY <1>8, <2>4, PollFields DEF PollDrain
    <3>3. Seen' \subseteq Seen  BY <2>2, <3>1, <3>2 DEF Seen
    <3>4. ArrivalOrder'
      BY <1>1, <1>2, <1>3, <2>1, <3>3 DEF Rising, ArrivalOrder, Below
    <3>5. RecvOrder'
      BY <1>1, <1>2, <2>1, <2>2, <3>2, <3>3 DEF Rising, RecvOrder, Below
    <3>6. PollOrder'  BY <2>1, <2>4, <3>2 DEF PollOrder
    <3>. QED BY <3>4, <3>5, <3>6 DEF Rising
  <2>. QED BY <2>3, <2>4
<1>9. CASE PollTake
  <2>1. /\ UNCHANGED <<expected_seq, ooo_heap>> /\ poll.pc = "take"
        /\ poll'.skip_to = poll.skip_to
    BY <1>9, PollFields DEF PollTake
  <2>2. \/ poll.skip_to \in Buffered /\ Buffered' = Buffered \ {poll.skip_to}
        \/ poll.skip_to \notin Buffered /\ Buffered' = Buffered
    BY <1>9, BufferedSteps
  <2>3. \/ poll'.pc = "drain_advance" /\ poll.skip_to \in Buffered
        \/ poll'.pc = "dead"
    BY <1>9, PollFields DEF Buffered
  <2>4. Seen' \subseteq Seen  BY <2>1, <2>2, <2>3 DEF Seen, Skipping
  <2>5. CASE poll'.pc = "dead"
    <3>1. poll'.pc \notin Skipping  BY <2>5 DEF Skipping
    <3>. QED BY <1>1, <1>2, <1>3, <2>1, <2>2, <2>4, <3>1, RisingKept
  <2>6. CASE poll'.pc = "drain_advance" /\ poll.skip_to \in Buffered
    <3>1. recv.pc = "store" => poll.skip_to < recv.pkt.seq
      <4>1. recv.pc = "store" => /\ poll.skip_to <= recv.pkt.seq /\ poll.skip_to /= recv.pkt.seq
                                 /\ recv.pkt.seq \in Nat
        BY <1>1, <1>4, <2>1, <2>6 DEF Rising, RecvOrder, Skipping, Holding
      <4>. QED BY <1>1, <4>1
    <3>2. ArrivalOrder'
      BY <1>1, <1>2, <1>3, <2>1, <2>4 DEF Rising, ArrivalOrder, Below
    <3>3. RecvOrder'
      BY <1>1, <1>2, <2>1, <2>2, <2>4, <3>1 DEF Rising, RecvOrder, Below
    <3>4. PollOrder'  BY <2>1, <2>6 DEF Rising, PollOrder
    <3>. QED BY <3>2, <3>3, <3>4 DEF Rising
  <2>. QED BY <2>3, <2>5, <2>6
<1>10. CASE PollAdvance
  <2>1. /\ UNCHANGED <<ooo_heap, out_of_order>> /\ poll.pc = "drain_advance"
        /\ poll'.pc = "drain" /\ expected_seq' = expected_seq + 1
    BY <1>10, PollFields DEF PollAdvance, bufVars
  <2>2. Buffered' = Buffered  BY <2>1, BufferedSteps
  <2>3. Seen' \subseteq Seen  BY <2>1, <2>2 DEF Seen, Skipping
  <2>4. /\ poll.skip_to \in Seen /\ recv.pc \notin {"deliver", "advance", "purge", "drain"}
        /\ poll.skip_to = expected_seq
    BY <1>4, <2>1 DEF Skipping, Rising, PollOrder
  <2>5. /\ poll.skip_to < f_seq /\ \A m \in Arriving : poll.skip_to < m.seq
        /\ recv.pc \in Holding => poll.skip_to < recv.pkt.seq /\ recv.pkt.seq \in Nat
    BY <1>1, <2>1, <2>4 DEF Rising, ArrivalOrder, RecvOrder, Below, Holding
  <2>6. /\ expected_seq' <= f_seq /\ \A m \in Arriving : expected_seq' <= m.seq
        /\ recv.pc \in Holding => expected_seq' <= recv.pkt.seq
    BY <1>1, <2>1, <2>4, <2>5
  <2>7. ArrivalOrder'
    BY <1>1, <1>2, <1>3, <2>3, <2>6 DEF Rising, ArrivalOrder, Below
  <2>8. RecvOrder'
    BY <1>1, <1>2, <2>1, <2>2, <2>3, <2>4, <2>6 DEF Rising, RecvOrder, Below
  <2>9. PollOrder'  BY <2>1 DEF PollOrder
  <2>. QED BY <2>7, <2>8, <2>9 DEF Rising
<1>. QED BY <1>5, <1>6, <1>7, <1>8, <1>9, <1>10 DEF PollThread

\* The main thread after the start, the FPGA within a session, and the network.
LEMMA RisingPeer ==
  ASSUME TypeInv, Rising,
         \/ AppThread /\ UNCHANGED fpgaVars /\ app.pc \notin Startup
         \/ (Fpga \/ Lose) /\ f_session' = f_session
  PROVE  Rising'
<1>1. NetTypes /\ FpgaTypes /\ f_seq \in Nat /\ f_session \in Nat
  BY DEF TypeInv, StateTypes, FpgaTypes
<1>2. UNCHANGED <<recv, poll, ooo_heap, out_of_order, expected_seq>>
  <2>1. CASE AppThread /\ app.pc \notin Startup
    BY <2>1 DEF AppThread, AppSetTimeout, AppDrain, AppReset, AppSendCmd, AppAcked, AppTimeout,
                AppCredit, AppDurationOver, AppShellCmd, AppShellCredit, AppShellQuit, AppStop,
                AppJoin, AppFlush, state, bufVars, Startup
  <2>2. CASE Fpga \/ Lose
    BY <2>2 DEF Fpga, FpgaReceive, FpgaRespond, FpgaBegin, FpgaFinish, Lose, hostOnly, state,
                bufVars
  <2>. QED BY <2>1, <2>2
<1>3. Seen' = Seen /\ Buffered' = Buffered  BY <1>2, BufferedSteps DEF Seen
<1>4. CASE UNCHANGED f_seq /\ Arriving' \subseteq Arriving /\ DataInOrder'
  BY <1>2, <1>3, <1>4, RisingKept
<1>5. AppThread /\ app.pc \notin Startup => UNCHANGED f2h
  BY DEF AppThread, AppSetTimeout, AppDrain, AppReset, AppSendCmd, AppAcked, AppTimeout,
         AppCredit, AppDurationOver, AppShellCmd, AppShellCredit, AppShellQuit, AppStop,
         AppJoin, AppFlush, SendTo, net, Startup
<1>6. CASE AppThread /\ UNCHANGED fpgaVars /\ app.pc \notin Startup
  BY <1>1, <1>4, <1>5, <1>6, DataQueue DEF fpgaVars, Rising, ArrivalOrder
<1>7. CASE FpgaReceive /\ f_session' = f_session
  <2>1. UNCHANGED <<f_seq, f2h>>
    BY <1>1, <1>7 DEF FpgaReceive, FpgaCmd, FpgaCredit, fpgaVars
  <2>. QED BY <1>1, <1>4, <2>1, DataQueue DEF Rising, ArrivalOrder
<1>8. CASE FpgaRespond
  <2>1. \E r \in Answers : f2h' = Append(f2h, r)  BY <1>1, <1>8 DEF FpgaRespond, FpgaTypes
  <2>2. UNCHANGED f_seq  BY <1>8 DEF FpgaRespond
  <2>. QED BY <1>1, <1>4, <2>1, <2>2, DataQueue DEF Rising, ArrivalOrder
<1>9. CASE FpgaBegin
  BY <1>1, <1>4, <1>9, DataQueue DEF FpgaBegin, Rising, ArrivalOrder
<1>10. CASE Lose
  <2>1. UNCHANGED f2h \/ (f2h /= <<>> /\ f2h' = Tail(f2h))  BY <1>10 DEF Lose
  <2>2. UNCHANGED f_seq  BY <1>10 DEF Lose, fpgaVars
  <2>. QED BY <1>1, <1>4, <2>1, <2>2, DataQueue DEF Rising, ArrivalOrder
<1>11. CASE FpgaFinish
  <2> DEFINE p == [type |-> "DATA", seq |-> f_seq, session |-> f_session]
  <2>1. p \in Packets /\ p.seq = f_seq  BY <1>1 DEF Packets
  <2>2. f2h' = Append(f2h, p) /\ f_seq' = f_seq + 1  BY <1>11 DEF FpgaFinish
  <2> HIDE DEF p
  <2>3. Arriving' = Arriving \cup {p} /\ DataInOrder'
    BY <1>1, <2>1, <2>2, DataQueue DEF Rising, ArrivalOrder
  <2>4. /\ expected_seq \in Nat /\ \A m \in Arriving : m.seq \in Nat /\ m.seq < f_seq
        /\ \A k \in Seen : k \in Nat /\ k < f_seq
    BY RisingTypes DEF Rising, ArrivalOrder, Below
  <2>5. /\ \A m \in Arriving' : m.seq < f_seq' /\ expected_seq <= m.seq
        /\ \A k \in Seen : k < f_seq'
        /\ expected_seq <= f_seq' /\ expected_seq <= f_seq
    BY <1>1, <2>1, <2>2, <2>3, <2>4 DEF Rising, ArrivalOrder
  <2>6. \A m \in Arriving' : /\ \A k \in Seen : k < m.seq
                             /\ recv.pc \in Holding => recv.pkt.seq < m.seq
    BY <2>1, <2>3, <2>4 DEF Rising, ArrivalOrder, RecvOrder, Below
  <2>7. ArrivalOrder'  BY <1>2, <1>3, <2>3, <2>5, <2>6 DEF ArrivalOrder, Below
  <2>8. recv.pc \in Holding => recv.pkt.seq < f_seq'
    <3>1. recv.pc \in Holding => recv.pkt.seq \in Nat /\ recv.pkt.seq < f_seq
      BY <2>4, RisingTypes DEF Rising, RecvOrder, Holding
    <3>. QED BY <1>1, <2>2, <3>1
  <2>9. RecvOrder'  BY <1>2, <1>3, <2>8 DEF Rising, RecvOrder, Below
  <2>10. PollOrder'  BY <1>2 DEF Rising, PollOrder
  <2>. QED BY <2>7, <2>9, <2>10 DEF Rising
<1>. QED BY <1>6, <1>7, <1>8, <1>9, <1>10, <1>11 DEF Fpga

\* Nothing has been seen before the first START is executed.
NothingSeen ==
  /\ Arriving = {} /\ ooo_heap = {} /\ out_of_order = {} /\ expected_seq = 0 /\ f_seq = 0
  /\ recv.pc \in {"loop", "recv", "dead"} /\ poll.pc \in Idle
LEMMA RisingFresh == NetTypes /\ NothingSeen => Rising
<1> SUFFICES ASSUME NetTypes, NothingSeen PROVE Rising
  OBVIOUS
<1> USE DEF NothingSeen
<1>1. Seen = {}  BY DEF Seen, Buffered, Idle, Skipping
<1>2. DataInOrder
  <2>1. \A i \in 1 .. Len(f2h) : f2h[i].type /= "DATA"
    <3>1. Range(f2h) = {f2h[i] : i \in 1 .. Len(f2h)}  BY RangeEquality DEF NetTypes
    <3>. QED BY <3>1 DEF Arriving
  <2>. QED BY <2>1 DEF DataInOrder
<1>3. ArrivalOrder  BY <1>1, <1>2 DEF ArrivalOrder, Below
<1>4. RecvOrder  BY DEF RecvOrder, Holding
<1>5. PollOrder  BY DEF PollOrder, Idle
<1>. QED BY <1>3, <1>4, <1>5 DEF Rising

\* Numbers only rise within the first session, whatever is lost.
THEOREM RisingInvariant ==
  ASSUME STALE \subseteq {0}
  PROVE  Spec /\ [][DataKeepsOrder]_vars => []RisingInv
<1>1. (NetTypes /\ NothingSeen => Rising)'  BY RisingFresh, PTL
<1>2. Init => RisingInv
  <2> SUFFICES ASSUME Init PROVE RisingInv
    OBVIOUS
  <2>1. /\ f_seq = 0 /\ expected_seq = 0 /\ f2h = <<>> /\ h2f = <<>> /\ ooo_heap = {}
        /\ out_of_order = {} /\ recv.pc = "loop" /\ poll.pc = "sleep"
    BY DEF Init, HostInit
  <2>2. NetTypes  BY <2>1, EmptySeq DEF NetTypes
  <2>3. Arriving = {}
    <3>1. \A x : x \notin Range(<<>>)  BY DEF Range
    <3>. QED BY <2>1, <3>1 DEF Arriving
  <2>4. NothingSeen  BY <2>1, <2>3 DEF NothingSeen, Idle
  <2>. QED BY <2>2, <2>4, RisingFresh DEF RisingInv
<1>3. TypeInv /\ TypeInv' /\ FreshInv /\ FreshInv' /\ RisingInv /\ [Next]_vars
        /\ [DataKeepsOrder]_vars => RisingInv'
  <2> SUFFICES ASSUME TypeInv, TypeInv', FreshInv, FreshInv', RisingInv, [Next]_vars,
                      [DataKeepsOrder]_vars, f_session' <= 1
               PROVE  Rising'
    BY DEF RisingInv
  <2>1. NetTypes' /\ f_session \in Nat /\ f_session' \in Nat  BY DEF TypeInv, FpgaTypes
  <2>2. CASE f_session' = 0
    <3>1. NothingSeen'  BY <2>2 DEF FreshInv, Untouched, NothingSeen
    <3>. QED BY <1>1, <2>1, <3>1
  <2>3. CASE f_session' = 1 /\ f_session = 1
    <3>1. Rising /\ app.pc \notin Startup  BY <2>3 DEF RisingInv, FreshInv
    <3>2. CASE Alive /\ RecvThread  BY <3>1, <3>2, RisingRecv DEF Alive
    <3>3. CASE Alive /\ PollThread  BY <3>1, <3>3, RisingPoll DEF Alive
    <3>4. CASE Alive /\ AppThread  BY <3>1, <3>4, RisingPeer DEF Alive
    <3>5. CASE Fpga \/ Lose  BY <2>3, <3>1, <3>5, RisingPeer
    <3>6. CASE Overtake /\ DataKeepsOrder
      <4>1. UNCHANGED <<recv, poll, ooo_heap, out_of_order, expected_seq, f_seq>>
        BY <3>6 DEF Overtake, hostOnly, state, bufVars, fpgaVars
      <4>2. Seen' = Seen /\ Buffered' = Buffered  BY <4>1, BufferedSteps DEF Seen
      <4>3. Arriving' \subseteq Arriving /\ DataInOrder'
        BY <3>1, <3>6, OvertakeOrder DEF TypeInv, Rising, ArrivalOrder
      <4>. QED BY <3>1, <4>1, <4>2, <4>3, RisingKept
    <3>7. CASE UNCHANGED vars
      <4>1. UNCHANGED <<expected_seq, f_seq, f2h, ooo_heap, out_of_order, recv, poll>>
        BY <3>7 DEF vars, hostVars, state, bufVars, net, fpgaVars
      <4>2. Seen' = Seen /\ Buffered' = Buffered  BY <4>1, BufferedSteps DEF Seen
      <4>3. Arriving' = Arriving /\ DataInOrder'
        BY <3>1, <4>1, DataQueue DEF TypeInv, Rising, ArrivalOrder
      <4>. QED BY <3>1, <4>1, <4>2, <4>3, RisingKept
    <3>. QED BY <3>2, <3>3, <3>4, <3>5, <3>6, <3>7 DEF Next
  <2>4. CASE f_session' = 1 /\ f_session /= 1
    <3>1. FpgaReceive
      BY <2>4 DEF Next, Alive, Fpga, FpgaRespond, FpgaBegin, FpgaFinish, Lose, Overtake, vars,
                  fpgaVars
    <3>2. f_session = 0 /\ f_seq' = 0
      BY <2>1, <2>4, <3>1 DEF FpgaReceive, FpgaCmd, FpgaCredit, fpgaVars
    <3>3. UNCHANGED <<f2h, recv, poll, ooo_heap, out_of_order, expected_seq>>
      BY <3>1 DEF FpgaReceive, hostOnly, state, bufVars
    <3>4. NothingSeen'  BY <3>2, <3>3 DEF FreshInv, Untouched, NothingSeen, Arriving
    <3>. QED BY <1>1, <2>1, <3>4
  <2>5. f_session' = 0 \/ f_session' = 1  BY <2>1
  <2>. QED BY <2>2, <2>3, <2>4, <2>5
<1>. QED BY <1>2, <1>3, TypeInvariant, FreshInvariant, PTL DEF Spec

\* What the threads hold excludes one another.
LEMMA NotTogether ==
  ASSUME TypeInv, Rising
  PROVE  ~(recv.pc \in {"deliver", "advance"} /\ poll.pc \in Skipping)
<1> SUFFICES ASSUME recv.pc \in {"deliver", "advance"}, poll.pc \in Skipping
             PROVE  FALSE
  OBVIOUS
<1>1. expected_seq \in Nat /\ poll.skip_to \in Nat  BY RisingTypes
<1>2. poll.skip_to \in Seen /\ expected_seq <= poll.skip_to
  BY <1>1 DEF Rising, PollOrder, Seen, Skipping
<1>3. Below(expected_seq)  BY DEF Rising, RecvOrder
<1>. QED BY <1>1, <1>2, <1>3, BelowRises

\* _handle_data and _poll_loop never are inside a delivery at the same time, nor
\* at an assignment of expected_seq, although no lock keeps them apart.
THEOREM OneThreadDelivers ==
  ASSUME STALE \subseteq {0}
  PROVE  Spec /\ [][DataKeepsOrder]_vars
           => [](f_session <= 1 =>
                   ~(recv.pc \in {"deliver", "advance"} /\ poll.pc \in Skipping))
<1>1. TypeInv /\ RisingInv => (f_session <= 1 =>
                      ~(recv.pc \in {"deliver", "advance"} /\ poll.pc \in Skipping))
  BY NotTogether DEF RisingInv
<1>. QED BY <1>1, TypeInvariant, RisingInvariant, PTL

-----------------------------------------------------------------------------
(***************************************************************************)
(* Flow control.  A credit that is on its way, in the hands of a thread or *)
(* in force was computed from a value of expected_seq; that is not larger  *)
(* than the value now.                                                     *)
(***************************************************************************)
Grants == {m.abs : m \in {x \in Range(h2f) : x.type = "CREDIT"}}
Offered == Grants \cup {abs_credit, recv.credit, poll.credit, f_credit}

LoggerInv == app.mode = "logger" => app.pc /= "prompt"
WithinCredit == f_seq <= f_credit /\ (f_sending => f_seq < f_credit)
WindowInv == app.mode = "logger" /\ f_session <= 1 => \A n \in Offered : n <= NewCredit

\* The next number expected never falls: neither _handle_data nor _poll_loop
\* stores a value that the other has passed.
LEMMA ExpectedRises ==
  ASSUME TypeInv, FreshInv, RisingInv, [Next]_vars, f_session <= 1
  PROVE  expected_seq <= expected_seq'
<1>1. Rising /\ expected_seq \in Nat  BY RisingTypes DEF RisingInv
<1>2. CASE RecvThread
  <2>1. expected_seq' = expected_seq \/ expected_seq' = expected_seq + 1
    BY <1>2 DEF RecvThread, RecvLoop, RecvTimeout, RecvPacket, RecvEqual, RecvGreater, RecvPush,
                RecvStore, RecvDeliver, RecvFlush, RecvAdvance, RecvPurge, RecvDrain, RecvTake,
                RecvCredit, RecvSend, RecvSetCredit, state
  <2>. QED BY <1>1, <2>1
<1>3. CASE PollThread
  <2>1. \/ expected_seq' = expected_seq \/ expected_seq' = expected_seq + 1
        \/ poll.pc = "skip" /\ expected_seq' = poll.skip_to
    BY <1>3 DEF PollThread, PollSleep, PollCredit, PollSend, PollSetCredit, PollGap, PollPurge,
                PollSkip, PollDrain, PollTake, PollFlush, PollAdvance, PollSkipCredit,
                PollSkipSetCredit, PollKeepAlive, state
  <2>. QED BY <1>1, <2>1 DEF Rising, PollOrder
<1>4. CASE AppThread
  <2>1. expected_seq' = expected_seq \/ app.pc = "reset_seq"
    BY <1>4 DEF AppThread, AppSetTimeout, AppDrain, AppReset, AppSendCmd, AppAcked, AppTimeout,
                AppCredit, AppDurationOver, AppShellCmd, AppShellCredit, AppShellQuit, AppStop,
                AppJoin, AppFlush, state
  <2>2. app.pc = "reset_seq" => expected_seq = 0
    BY DEF FreshInv, Startup, ResetNext, Untouched
  <2>3. expected_seq' = expected_seq \/ expected_seq' = 0
    BY <1>4 DEF AppThread, AppSetTimeout, AppDrain, AppReset, AppSendCmd, AppAcked, AppTimeout,
                AppCredit, AppDurationOver, AppShellCmd, AppShellCredit, AppShellQuit, AppStop,
                AppJoin, AppFlush, state
  <2>. QED BY <1>1, <2>1, <2>2, <2>3
<1>5. CASE Fpga \/ Lose \/ Overtake \/ UNCHANGED vars
  <2>1. expected_seq' = expected_seq
    BY <1>5 DEF Fpga, FpgaReceive, FpgaRespond, FpgaBegin, FpgaFinish, Lose, Overtake, hostOnly,
                vars, hostVars, state
  <2>. QED BY <1>1, <2>1
<1>. QED BY <1>2, <1>3, <1>4, <1>5 DEF Next

\* What a packet that enters or leaves the queue towards the FPGA means for the
\* credits in it.
LEMMA CreditQueue ==
  ASSUME NetTypes
  PROVE  /\ UNCHANGED h2f => Grants' = Grants
         /\ \A n \in Nat : SendTo(Credit(n)) => Grants' = Grants \cup {n}
         /\ \A op \in Ops, id \in Nat : SendTo(Cmd(op, id)) => Grants' = Grants
         /\ h2f /= <<>> /\ h2f' = Tail(h2f) => Grants' \subseteq Grants
         /\ h2f /= <<>> /\ Head(h2f).type /= "CMD" => Head(h2f).abs \in Grants
         /\ Grants \subseteq Nat
<1>1. /\ h2f \in Seq(FromHost) /\ Len(h2f) \in Nat
      /\ \A i \in 1 .. Len(h2f) : h2f[i] \in FromHost
      /\ Range(h2f) = {h2f[i] : i \in 1 .. Len(h2f)}
  BY LenProperties, ElementOfSeq, RangeEquality DEF NetTypes
<1>2. /\ \A m \in FromHost : m.type = "CREDIT" => m.abs \in Nat
      /\ \A m \in FromHost : m.type /= "CMD" => m.type = "CREDIT"
  BY DEF FromHost
<1>3. UNCHANGED h2f => Grants' = Grants  BY DEF Grants
<1>4. ASSUME NEW n \in Nat, SendTo(Credit(n)) PROVE Grants' = Grants \cup {n}
  <2>1. PICK m \in FromHost : m.type = "CREDIT" /\ m.abs = n /\ h2f' = Append(h2f, m)
    BY <1>4 DEF Credit, FromHost, SendTo
  <2>2. Range(h2f') = Range(h2f) \cup {m}  BY <1>1, <2>1, QueueElements
  <2>. QED BY <2>1, <2>2 DEF Grants
<1>5. ASSUME NEW op \in Ops, NEW id \in Nat, SendTo(Cmd(op, id)) PROVE Grants' = Grants
  <2>1. PICK c \in FromHost : c.type = "CMD" /\ h2f' = Append(h2f, c)
    BY <1>5 DEF Cmd, FromHost, SendTo
  <2>2. Range(h2f') = Range(h2f) \cup {c}  BY <1>1, <2>1, QueueElements
  <2>. QED BY <2>1, <2>2 DEF Grants
<1>6. ASSUME h2f /= <<>>
      PROVE  /\ h2f' = Tail(h2f) => Grants' \subseteq Grants
             /\ Head(h2f).type /= "CMD" => Head(h2f).abs \in Grants
  <2>1. Head(h2f) \in Range(h2f) /\ Range(Tail(h2f)) \subseteq Range(h2f)
    BY <1>1, <1>6, QueueElements
  <2>2. h2f' = Tail(h2f) => Grants' \subseteq Grants  BY <2>1 DEF Grants
  <2>3. Head(h2f) \in FromHost  BY <1>1, <2>1
  <2>4. Head(h2f).type /= "CMD" => Head(h2f).type = "CREDIT"  BY <1>2, <2>3
  <2>. QED BY <2>1, <2>2, <2>4 DEF Grants
<1>7. Grants \subseteq Nat  BY <1>1, <1>2, Zenon DEF Grants
<1>. QED BY <1>3, <1>4, <1>5, <1>6, <1>7

\* A step computes no credit but the one of the window now, and the first.
LEMMA OfferedSteps ==
  ASSUME TypeInv, app.pc /= "prompt", [Next]_vars
  PROVE  Offered' \subseteq Offered \cup {0, WINDOW_SIZE, NewCredit}
<1>1. /\ NetTypes /\ FpgaTypes /\ recv.credit \in Nat /\ poll.credit \in Nat /\ abs_credit \in Nat
  BY DEF TypeInv, StateTypes, RecvTypes, RecvRecords, PollTypes, PollRecords
<1>2. \A n \in Nat : SendTo(Credit(n)) => Grants' = Grants \cup {n}  BY <1>1, CreditQueue
<1>3. UNCHANGED h2f => Grants' = Grants  BY <1>1, CreditQueue
<1>4. CASE Alive /\ RecvThread
  <2>1. UNCHANGED <<poll, f_credit>> /\ (UNCHANGED abs_credit \/ abs_credit' = recv.credit)
    BY <1>4 DEF Alive, fpgaVars, RecvThread, RecvLoop, RecvTimeout, RecvPacket, RecvEqual,
                RecvGreater, RecvPush, RecvStore, RecvDeliver, RecvFlush, RecvAdvance, RecvPurge,
                RecvDrain, RecvTake, RecvCredit, RecvSend, RecvSetCredit, state
  <2>2. recv'.credit \in {recv.credit, NewCredit, 0}
    BY <1>4, RecvFields DEF RecvThread, KeepRecv
  <2>3. Grants' \subseteq Grants \cup {recv.credit, poll.credit, abs_credit}
    BY <1>1, <1>2, <1>3, <1>4, ThreadsSend
  <2>. QED BY <2>1, <2>2, <2>3 DEF Offered
<1>5. CASE Alive /\ PollThread
  <2>1. UNCHANGED <<recv, f_credit>> /\ (UNCHANGED abs_credit \/ abs_credit' = poll.credit)
    BY <1>5 DEF Alive, fpgaVars, PollThread, PollSleep, PollCredit, PollSend, PollSetCredit,
                PollGap, PollPurge, PollSkip, PollDrain, PollTake, PollFlush, PollAdvance,
                PollSkipCredit, PollSkipSetCredit, PollKeepAlive, state
  <2>2. poll'.credit \in {poll.credit, NewCredit, 0}
    BY <1>5, PollFields DEF PollThread, KeepPoll
  <2>3. Grants' \subseteq Grants \cup {recv.credit, poll.credit, abs_credit}
    BY <1>1, <1>2, <1>3, <1>5, ThreadsSend
  <2>. QED BY <2>1, <2>2, <2>3 DEF Offered
<1>6. CASE Alive /\ AppThread
  <2>1. UNCHANGED f_credit /\ (UNCHANGED abs_credit \/ abs_credit' = WINDOW_SIZE)
    BY <1>6 DEF Alive, fpgaVars, AppThread, AppSetTimeout, AppDrain, AppReset, AppSendCmd,
                AppAcked, AppTimeout, AppCredit, AppDurationOver, AppShellCmd, AppShellCredit,
                AppShellQuit, AppStop, AppJoin, AppFlush, state
  <2>2. UNCHANGED <<recv, poll>>  BY <1>6, MainSends
  <2>3. AppSendCmd => Grants' = Grants
    <3>1. AppSendCmd => app.op \in Ops /\ app.next_id \in Nat /\ SendTo(Cmd(app.op, app.next_id))
      BY DEF AppSendCmd, TypeInv, AppTypes, AppRecords
    <3>. QED BY <1>1, <3>1, CreditQueue
  <2>4. Grants' \subseteq Grants \cup {abs_credit}
    BY <1>1, <1>2, <1>3, <1>6, <2>3, MainSends
  <2>. QED BY <2>1, <2>2, <2>4 DEF Offered
<1>7. CASE Fpga \/ Lose \/ Overtake \/ UNCHANGED vars
  <2>1. UNCHANGED <<recv, poll, abs_credit>>
    BY <1>7 DEF Fpga, FpgaReceive, FpgaRespond, FpgaBegin, FpgaFinish, Lose, Overtake, hostOnly,
                vars, hostVars, state
  <2>2. Grants' \subseteq Grants
    <3>1. UNCHANGED h2f \/ (h2f /= <<>> /\ h2f' = Tail(h2f))
      BY <1>7 DEF Fpga, FpgaReceive, FpgaRespond, FpgaBegin, FpgaFinish, Lose, Overtake, vars,
                  hostVars, net
    <3>. QED BY <1>1, <3>1, CreditQueue
  <2>3. f_credit' \in Grants \cup {f_credit, 0}
    <3>1. CASE FpgaReceive
      <4>1. Head(h2f).type /= "CMD" => Head(h2f).abs \in Grants
        BY <1>1, <3>1, CreditQueue DEF FpgaReceive
      <4>. QED BY <3>1, <4>1 DEF FpgaReceive, FpgaCmd, FpgaCredit, fpgaVars
    <3>2. CASE ~FpgaReceive
      BY <1>7, <3>2 DEF Fpga, FpgaRespond, FpgaBegin, FpgaFinish, Lose, Overtake, vars, fpgaVars
    <3>. QED BY <3>1, <3>2
  <2>. QED BY <2>1, <2>2, <2>3 DEF Offered
<1>. QED BY <1>4, <1>5, <1>6, <1>7 DEF Next

\* The FPGA sends within the credit it has: f_seq < f_credit when a packet begins.
LEMMA WithinCreditInvariant == Spec => []WithinCredit
<1>1. Init => WithinCredit
  <2> SUFFICES ASSUME Init PROVE WithinCredit
    OBVIOUS
  <2>1. f_seq = 0 /\ f_sending = FALSE /\ f_credit \in STALE  BY DEF Init
  <2>2. f_credit \in Nat  BY <2>1, SessionAssumption
  <2>. QED BY <2>1, <2>2 DEF WithinCredit
<1>2. TypeInv /\ WithinCredit /\ [Next]_vars => WithinCredit'
  <2> SUFFICES ASSUME TypeInv, WithinCredit, [Next]_vars PROVE WithinCredit'
    OBVIOUS
  <2>1. f_seq \in Nat /\ f_credit \in Nat  BY DEF TypeInv, FpgaTypes
  <2>2. CASE FpgaReceive
    <3> DEFINE p == Head(h2f)
    <3>1. CASE p.type = "CMD"
      <4>1. \/ UNCHANGED <<f_seq, f_credit, f_sending>>
            \/ f_seq' = 0 /\ f_credit' = 0 /\ f_sending' = FALSE
        BY <2>2, <3>1 DEF FpgaReceive, FpgaCmd, fpgaVars
      <4>. QED BY <4>1 DEF WithinCredit
    <3>2. CASE p.type /= "CMD"
      <4>1. UNCHANGED <<f_seq, f_sending>> /\ f_credit' = IF p.abs > f_credit THEN p.abs ELSE f_credit
        BY <2>2, <3>2 DEF FpgaReceive, FpgaCredit
      <4>2. p.abs \in Nat
        <5>1. p.abs \in Grants /\ Grants \subseteq Nat
          BY <2>2, <3>2, CreditQueue DEF TypeInv, FpgaReceive
        <5>. QED BY <5>1
      <4>3. f_credit' \in Nat /\ f_credit <= f_credit'
        <5> HIDE DEF p
        <5>. QED BY <2>1, <4>1, <4>2
      <4>. QED BY <2>1, <4>1, <4>3 DEF WithinCredit
    <3>. QED BY <3>1, <3>2
  <2>3. CASE FpgaBegin
    <3>1. f_seq < f_credit /\ UNCHANGED <<f_seq, f_credit>>  BY <2>3 DEF FpgaBegin
    <3>. QED BY <2>1, <3>1 DEF WithinCredit
  <2>4. CASE FpgaFinish
    <3>1. f_sending /\ f_sending' = FALSE /\ f_seq' = f_seq + 1 /\ UNCHANGED f_credit
      BY <2>4 DEF FpgaFinish
    <3>2. f_seq < f_credit  BY <3>1 DEF WithinCredit
    <3>3. f_seq' <= f_credit'  BY <2>1, <3>1, <3>2
    <3>. QED BY <3>1, <3>3 DEF WithinCredit
  <2>5. CASE Alive \/ FpgaRespond \/ Lose \/ Overtake \/ UNCHANGED vars
    <3>1. UNCHANGED <<f_seq, f_credit, f_sending>>
      BY <2>5 DEF Alive, FpgaRespond, Lose, Overtake, vars, fpgaVars
    <3>. QED BY <3>1 DEF WithinCredit
  <2>. QED BY <2>2, <2>3, <2>4, <2>5 DEF Next, Fpga
<1>. QED BY <1>1, <1>2, TypeInvariant, PTL DEF Spec

\* The prompt is the shell's.
LEMMA LoggerInvariant == Spec => []LoggerInv
<1>1. Init => LoggerInv
  <2> SUFFICES ASSUME Init PROVE LoggerInv
    OBVIOUS
  <2>1. \E m \in MODES : app.mode = m /\ app.pc = IF m = "logger" THEN "open" ELSE "prompt"
    BY DEF Init, HostInit
  <2>. QED BY <2>1 DEF LoggerInv
<1>2. TypeInv /\ LoggerInv /\ [Next]_vars => LoggerInv'
  <2> SUFFICES ASSUME TypeInv, LoggerInv, [Next]_vars PROVE LoggerInv'
    OBVIOUS
  <2>1. CASE RecvThread \/ PollThread  BY <2>1, ThreadsSend DEF LoggerInv
  <2>2. CASE AppThread
    <3>1. app'.mode = app.mode  BY <2>2, AppFields
    <3>2. app.mode = "logger" => app'.pc /= "prompt"
      BY <2>2, AppFields DEF AppThread, AppAfter, ResetNext, LoggerInv, AppReset, AppShellCredit
    <3>. QED BY <3>1, <3>2 DEF LoggerInv
  <2>3. CASE Fpga \/ Lose \/ Overtake \/ UNCHANGED vars
    <3>1. UNCHANGED app
      BY <2>3 DEF Fpga, FpgaReceive, FpgaRespond, FpgaBegin, FpgaFinish, Lose, Overtake,
                  hostOnly, vars, hostVars
    <3>. QED BY <3>1 DEF LoggerInv
  <2>. QED BY <2>1, <2>2, <2>3 DEF Next
<1>. QED BY <1>1, <1>2, TypeInvariant, PTL DEF Spec

\* No step of an acquisition with one START takes expected_seq back.
THEOREM ExpectedNeverFalls ==
  ASSUME STALE \subseteq {0}
  PROVE  Spec /\ [][DataKeepsOrder]_vars
           => [][f_session <= 1 => expected_seq <= expected_seq']_vars
<1>1. TypeInv /\ FreshInv /\ RisingInv /\ [Next]_vars
        => [f_session <= 1 => expected_seq <= expected_seq']_vars
  BY ExpectedRises
<1>. QED BY <1>1, TypeInvariant, FreshInvariant, RisingInvariant, PTL DEF Spec

\* The mode is an argument of the program, and sessions are counted up.
LEMMA ModeKept ==
  ASSUME TypeInv, [Next]_vars
  PROVE  app'.mode = app.mode
<1>1. CASE RecvThread \/ PollThread  BY <1>1, ThreadsSend
<1>2. CASE AppThread  BY <1>2, AppFields
<1>3. CASE Fpga \/ Lose \/ Overtake \/ UNCHANGED vars
  BY <1>3 DEF Fpga, FpgaReceive, FpgaRespond, FpgaBegin, FpgaFinish, Lose, Overtake,
              hostOnly, vars, hostVars
<1>. QED BY <1>1, <1>2, <1>3 DEF Next

LEMMA SessionRises ==
  ASSUME TypeInv, [Next]_vars, f_session' <= 1
  PROVE  f_session <= 1
<1>1. f_session' = f_session \/ f_session' = f_session + 1
  BY DEF Next, Alive, Fpga, FpgaReceive, FpgaCmd, FpgaCredit, FpgaRespond, FpgaBegin,
         FpgaFinish, Lose, Overtake, vars, fpgaVars
<1>2. f_session \in Nat  BY DEF TypeInv, FpgaTypes
<1>. QED BY <1>1, <1>2

\* No credit exceeds the window, although two threads grant it from values of
\* expected_seq that may be stale when they send them.
THEOREM WindowInvariant ==
  ASSUME STALE \subseteq {0}
  PROVE  Spec /\ [][DataKeepsOrder]_vars => []WindowInv
<1>1. Init => WindowInv
  <2> SUFFICES ASSUME Init PROVE WindowInv
    OBVIOUS
  <2>1. /\ expected_seq = 0 /\ abs_credit = WINDOW_SIZE /\ recv.credit = 0 /\ poll.credit = 0
        /\ h2f = <<>> /\ f_credit = 0
    BY DEF Init, HostInit
  <2>2. Grants = {}
    <3>1. \A x : x \notin Range(<<>>)  BY DEF Range
    <3>. QED BY <2>1, <3>1 DEF Grants
  <2>3. WINDOW_SIZE \in Nat  BY HostAssumption
  <2>. QED BY <2>1, <2>2, <2>3 DEF WindowInv, Offered, NewCredit
<1>2. TypeInv /\ TypeInv' /\ FreshInv /\ RisingInv /\ LoggerInv /\ WindowInv /\ [Next]_vars
        => WindowInv'
  <2> SUFFICES ASSUME TypeInv, TypeInv', FreshInv, RisingInv, LoggerInv, WindowInv, [Next]_vars,
                      app'.mode = "logger", f_session' <= 1
               PROVE  \A n \in Offered' : n <= NewCredit'
    BY DEF WindowInv
  <2>1. /\ WINDOW_SIZE \in Nat /\ expected_seq \in Nat /\ expected_seq' \in Nat
        /\ f_session \in Nat /\ f_session' \in Nat
    BY HostAssumption DEF TypeInv, StateTypes, FpgaTypes
  <2>2. app'.mode = app.mode  BY ModeKept
  <2>3. f_session <= 1  BY SessionRises
  <2>4. \A n \in Offered : n <= NewCredit  BY <2>2, <2>3 DEF WindowInv
  <2>5. expected_seq <= expected_seq'  BY <2>3, ExpectedRises
  <2>6. Offered' \subseteq Offered \cup {0, WINDOW_SIZE, NewCredit}
    BY <2>2, OfferedSteps DEF LoggerInv
  <2>7. Offered \subseteq Nat
    <3>1. Grants \subseteq Nat  BY CreditQueue DEF TypeInv
    <3>. QED BY <3>1 DEF Offered, TypeInv, StateTypes, RecvTypes, RecvRecords, PollTypes,
                         PollRecords, FpgaTypes
  <2>8. NewCredit \in Nat /\ NewCredit' \in Nat /\ NewCredit <= NewCredit' /\ WINDOW_SIZE <= NewCredit
    <3>1. NewCredit = expected_seq + WINDOW_SIZE /\ NewCredit' = expected_seq' + WINDOW_SIZE
      BY DEF NewCredit
    <3>2. \A a, b, w \in Nat : a <= b => /\ a + w \in Nat /\ b + w \in Nat
                                         /\ a + w <= b + w /\ w <= a + w
      OBVIOUS
    <3>. QED BY ONLY <2>1, <2>5, <3>1, <3>2
  <2> SUFFICES ASSUME NEW n \in Offered' PROVE n <= NewCredit'
    OBVIOUS
  <2>9. n \in Offered \/ n \in {0, WINDOW_SIZE, NewCredit}  BY <2>6
  <2>10. n \in Nat /\ n <= NewCredit
    <3>1. CASE n \in Offered  BY <2>4, <2>7, <3>1
    <3>2. CASE n \in {0, WINDOW_SIZE, NewCredit}
      <4>1. NewCredit <= NewCredit /\ 0 <= NewCredit  BY <2>8
      <4>. QED BY <2>1, <2>8, <3>2, <4>1
    <3>. QED BY <2>9, <3>1, <3>2
  <2>. QED BY <2>8, <2>10
<1>. QED BY <1>1, <1>2, TypeInvariant, FreshInvariant, RisingInvariant, LoggerInvariant, PTL
     DEF Spec

\* The FPGA never sends, nor may send, more than the window beyond what the host
\* has processed, as long as it has executed one START: _handle_data, _poll_loop,
\* the keep-alive and the first credit of run_logger together, whatever is lost.
THEOREM WindowIsRespected ==
  ASSUME STALE \subseteq {0}
  PROVE  Spec /\ [][DataKeepsOrder]_vars
           => [](app.mode = "logger" /\ f_session <= 1 => FlowControl)
<1>1. TypeInv /\ WithinCredit /\ WindowInv
        => (app.mode = "logger" /\ f_session <= 1 => FlowControl)
  <2> SUFFICES ASSUME TypeInv, WithinCredit, WindowInv, app.mode = "logger", f_session <= 1
               PROVE  FlowControl
    OBVIOUS
  <2>1. /\ WINDOW_SIZE \in Nat /\ expected_seq \in Nat /\ f_seq \in Nat /\ f_credit \in Nat
    BY HostAssumption DEF TypeInv, StateTypes, FpgaTypes
  <2>2. f_credit <= expected_seq + WINDOW_SIZE  BY DEF WindowInv, Offered, NewCredit
  <2>3. f_seq <= f_credit  BY DEF WithinCredit
  <2>. QED BY <2>1, <2>2, <2>3 DEF FlowControl
<1>. QED BY <1>1, TypeInvariant, WithinCreditInvariant, WindowInvariant, PTL

-----------------------------------------------------------------------------
(***************************************************************************)
(* The output file.  Both threads append to write_buf, write it and clear  *)
(* it; a payload appended between the write and the clear would be lost.   *)
(* It never is, because the two never deliver together.                    *)
(***************************************************************************)
IoInv ==
  /\ recv.io /= "none" => recv.pc \in {"advance", "drain_advance"}
  /\ poll.io /= "none" => poll.pc = "drain_advance"

StopInv ==
  /\ app.pc \in {"flush", "done"} => app.mode = "logger" /\ poll.pc = "dead"
  /\ app.pc \in {"join", "flush", "done"} => app.at_stop <= Len(delivered)

Clearing == recv.io = "clear" \/ poll.io = "clear"
FileBody ==
  /\ app.pc /= "done" => file \o (IF Clearing THEN <<>> ELSE write_buf) = delivered
  /\ app.pc = "done" /\ recv.io = "none" => file = delivered
FileInv == app.mode = "logger" /\ f_session <= 1 => FileBody

\* on_data is running only inside a delivery.
LEMMA IoInvariant == Spec => []IoInv
<1>1. Init => IoInv  BY DEF Init, HostInit, IoInv
<1>2. TypeInv /\ IoInv /\ [Next]_vars => IoInv'
  <2> SUFFICES ASSUME TypeInv, IoInv, [Next]_vars PROVE IoInv'
    OBVIOUS
  <2>1. CASE RecvThread
    <3>1. UNCHANGED poll
      BY <2>1 DEF RecvThread, RecvLoop, RecvTimeout, RecvPacket, RecvEqual, RecvGreater,
                  RecvPush, RecvStore, RecvDeliver, RecvFlush, RecvAdvance, RecvPurge, RecvDrain,
                  RecvTake, RecvCredit, RecvSend, RecvSetCredit
    <3>2. CASE RecvDeliver \/ RecvTake
      <4>1. RecvTake => recv.io = "none"  BY DEF RecvTake, IoInv
      <4>. QED BY <3>1, <3>2, <4>1, RecvFields DEF IoInv
    <3>3. CASE RecvFlush  BY <3>1, <3>3, RecvFields DEF RecvFlush, IoInv
    <3>4. CASE ~(RecvDeliver \/ RecvTake \/ RecvFlush)
      <4>1. recv'.io = recv.io  BY <2>1, <3>4, RecvFields DEF RecvThread, KeepRecv
      <4>2. recv.io = "none"
        BY <2>1, <3>4 DEF RecvThread, RecvLoop, RecvTimeout, RecvPacket, RecvEqual, RecvGreater,
           RecvPush, RecvStore, RecvAdvance, RecvPurge, RecvDrain, RecvCredit, RecvSend,
           RecvSetCredit, IoInv
      <4>. QED BY <3>1, <4>1, <4>2 DEF IoInv
    <3>. QED BY <3>2, <3>3, <3>4
  <2>2. CASE PollThread
    <3>1. UNCHANGED recv
      BY <2>2 DEF PollThread, PollSleep, PollCredit, PollSend, PollSetCredit, PollGap, PollPurge,
                  PollSkip, PollDrain, PollTake, PollFlush, PollAdvance, PollSkipCredit,
                  PollSkipSetCredit, PollKeepAlive
    <3>2. CASE PollTake
      <4>1. poll.io = "none"  BY <3>2 DEF PollTake, IoInv
      <4>2. poll'.io = "none" \/ poll'.pc = "drain_advance"  BY <3>2, <4>1, PollFields
      <4>. QED BY <3>1, <4>2 DEF IoInv
    <3>3. CASE PollFlush  BY <3>1, <3>3, PollFields DEF PollFlush, IoInv
    <3>4. CASE ~(PollTake \/ PollFlush)
      <4>1. poll'.io = poll.io  BY <2>2, <3>4, PollFields DEF PollThread, KeepPoll
      <4>2. poll.io = "none"
        BY <2>2, <3>4 DEF PollThread, PollSleep, PollCredit, PollSend, PollSetCredit, PollGap,
           PollPurge, PollSkip, PollDrain, PollAdvance, PollSkipCredit, PollSkipSetCredit,
           PollKeepAlive, IoInv
      <4>. QED BY <3>1, <4>1, <4>2 DEF IoInv
    <3>. QED BY <3>2, <3>3, <3>4
  <2>3. CASE AppThread  BY <2>3, MainSends DEF IoInv
  <2>4. CASE Fpga \/ Lose \/ Overtake \/ UNCHANGED vars
    <3>1. UNCHANGED <<recv, poll>>
      BY <2>4 DEF Fpga, FpgaReceive, FpgaRespond, FpgaBegin, FpgaFinish, Lose, Overtake,
                  hostOnly, vars, hostVars
    <3>. QED BY <3>1 DEF IoInv
  <2>. QED BY <2>1, <2>2, <2>3, <2>4 DEF Next
<1>. QED BY <1>1, <1>2, TypeInvariant, PTL DEF Spec

\* stop() has seen what it counts, and the polling thread is dead when the rest
\* of the buffer is written.
LEMMA StopInvariant == Spec => []StopInv
<1>1. Init => StopInv  BY DEF Init, HostInit, StopInv
<1>2. TypeInv /\ TypeInv' /\ IoInv /\ StopInv /\ [Next]_vars => StopInv'
  <2> SUFFICES ASSUME TypeInv, TypeInv', IoInv, StopInv, [Next]_vars PROVE StopInv'
    OBVIOUS
  <2>1. /\ delivered \in Seq(Packets) /\ Len(delivered) \in Nat /\ Len(delivered') \in Nat
        /\ app.at_stop \in Nat
    BY LenProperties DEF TypeInv, OutputTypes, AppTypes, AppRecords
  <2>2. Len(delivered) <= Len(delivered')
    <3>1. UNCHANGED delivered \/ \E p \in Packets : delivered' = Append(delivered, p)
      <4>1. CASE RecvThread
        <5>1. RecvDeliver => \E p \in Packets : delivered' = Append(delivered, p)
          BY DEF RecvDeliver, Deliver, TypeInv, RecvTypes
        <5>2. RecvTake => UNCHANGED delivered \/ \E p \in Packets : delivered' = Append(delivered, p)
          BY DEF RecvTake, Deliver, output, TypeInv, StateTypes
        <5>. QED BY <4>1, <5>1, <5>2 DEF RecvThread, RecvLoop, RecvTimeout, RecvPacket,
             RecvEqual, RecvGreater, RecvPush, RecvStore, RecvFlush, RecvAdvance, RecvPurge,
             RecvDrain, RecvCredit, RecvSend, RecvSetCredit, output
      <4>2. CASE PollThread
        <5>1. PollTake => UNCHANGED delivered \/ \E p \in Packets : delivered' = Append(delivered, p)
          BY DEF PollTake, Deliver, output, TypeInv, StateTypes
        <5>. QED BY <4>2, <5>1 DEF PollThread, PollSleep, PollCredit, PollSend, PollSetCredit,
             PollGap, PollPurge, PollSkip, PollDrain, PollFlush, PollAdvance, PollSkipCredit,
             PollSkipSetCredit, PollKeepAlive, output
      <4>3. CASE AppThread \/ Fpga \/ Lose \/ Overtake \/ UNCHANGED vars
        BY <4>3 DEF AppThread, AppSetTimeout, AppDrain, AppReset, AppSendCmd, AppAcked,
           AppTimeout, AppCredit, AppDurationOver, AppShellCmd, AppShellCredit, AppShellQuit,
           AppStop, AppJoin, AppFlush, Fpga, FpgaReceive, FpgaRespond, FpgaBegin, FpgaFinish,
           Lose, Overtake, hostOnly, vars, hostVars, output
      <4>. QED BY <4>1, <4>2, <4>3 DEF Next
    <3>. QED BY <2>1, <3>1, QueueElements
  <2>3. CASE app'.pc = app.pc /\ app'.mode = app.mode /\ app'.at_stop = app.at_stop
             /\ (poll.pc = "dead" => poll'.pc = "dead")
    BY <2>1, <2>2, <2>3 DEF StopInv
  <2>4. CASE RecvThread \/ PollThread
    <3>1. poll.pc = "dead" => poll'.pc = "dead"
      BY <2>4 DEF IoInv, RecvThread, RecvLoop, RecvTimeout, RecvPacket, RecvEqual,
         RecvGreater, RecvPush, RecvStore, RecvDeliver, RecvFlush, RecvAdvance, RecvPurge,
         RecvDrain, RecvTake, RecvCredit, RecvSend, RecvSetCredit, PollThread, PollSleep,
         PollCredit, PollSend, PollSetCredit, PollGap, PollPurge, PollSkip, PollDrain, PollTake,
         PollFlush, PollAdvance, PollSkipCredit, PollSkipSetCredit, PollKeepAlive
    <3>. QED BY <2>3, <2>4, <3>1, ThreadsSend DEF KeepApp
  <2>5. CASE AppThread
    <3>1. UNCHANGED poll /\ app'.mode = app.mode  BY <2>5, MainSends, AppFields
    <3>2. CASE AppStop
      <4>1. app'.pc = "join" /\ app'.at_stop = Len(delivered)  BY <3>2, AppFields
      <4>. QED BY <2>2, <4>1 DEF StopInv
    <3>3. CASE AppJoin
      <4>1. /\ app.pc = "join" /\ poll.pc = "dead" /\ app'.at_stop = app.at_stop
            /\ app'.pc = IF app.mode = "logger" /\ app.op = "STOP" THEN "flush" ELSE "exit"
        BY <3>3, AppFields DEF AppJoin, KeepApp
      <4>. QED BY <2>1, <2>2, <3>1, <4>1 DEF StopInv
    <3>4. CASE AppFlush
      <4>1. app.pc = "flush" /\ app'.pc = "done" /\ app'.at_stop = app.at_stop
        BY <3>4, AppFields DEF AppFlush, KeepApp
      <4>. QED BY <2>1, <2>2, <3>1, <4>1 DEF StopInv
    <3>5. CASE ~(AppStop \/ AppJoin \/ AppFlush)
      <4>1. app'.pc \notin {"join", "flush", "done"}
        BY <2>5, <3>5, AppFields DEF AppThread, AppReset, ResetNext, AppAfter
      <4>. QED BY <4>1 DEF StopInv
    <3>. QED BY <3>2, <3>3, <3>4, <3>5
  <2>6. CASE Fpga \/ Lose \/ Overtake \/ UNCHANGED vars
    <3>1. UNCHANGED <<app, poll>>
      BY <2>6 DEF Fpga, FpgaReceive, FpgaRespond, FpgaBegin, FpgaFinish, Lose, Overtake,
                  hostOnly, vars, hostVars
    <3>. QED BY <2>3, <3>1
  <2>. QED BY <2>4, <2>5, <2>6 DEF Next
<1>. QED BY <1>1, <1>2, TypeInvariant, IoInvariant, PTL DEF Spec

\* The steps on the output when no other thread is between a write and a clear.
LEMMA FileSteps ==
  ASSUME TypeInv, FileBody, app.mode = "logger", app.pc /= "done"
  PROVE  /\ \A p \in Packets : Deliver(p) /\ ~Clearing /\ ~Clearing' /\ app'.pc /= "done"
              => FileBody'
         /\ Flush("write") /\ UNCHANGED delivered /\ ~Clearing /\ Clearing' /\ app'.pc /= "done"
              => FileBody'
         /\ Flush("clear") /\ UNCHANGED delivered /\ Clearing /\ ~Clearing' /\ app'.pc /= "done"
              => FileBody'
         /\ UNCHANGED output /\ (Clearing' <=> Clearing) /\ app'.pc /= "done" => FileBody'
         /\ AppFlush /\ UNCHANGED recv /\ poll.io = "none" => FileBody'
<1>1. delivered \in Seq(Packets) /\ write_buf \in Seq(Packets) /\ file \in Seq(Packets)
  BY DEF TypeInv, OutputTypes
<1>2. /\ Clearing => file = delivered
      /\ ~Clearing => file \o write_buf = delivered
  <2>1. file \o <<>> = file  BY <1>1, ConcatEmptySeq
  <2>. QED BY <2>1 DEF FileBody
<1>3. ASSUME NEW p \in Packets, Deliver(p), ~Clearing, ~Clearing', app'.pc /= "done"
      PROVE  FileBody'
  <2>1. delivered' = Append(delivered, p) /\ write_buf' = Append(write_buf, p) /\ file' = file
    BY <1>3 DEF Deliver
  <2>2. <<p>> \in Seq(Packets) /\ file \o write_buf \in Seq(Packets)  BY <1>1, ConcatProperties
  <2>3. /\ Append(delivered, p) = delivered \o <<p>>
        /\ Append(write_buf, p) = write_buf \o <<p>>
    BY <1>1, AppendIsConcat
  <2>4. (file \o write_buf) \o <<p>> = file \o (write_buf \o <<p>>)
    BY <1>1, <2>2, ConcatAssociative
  <2>5. file' \o write_buf' = delivered'  BY <1>2, <1>3, <2>1, <2>3, <2>4
  <2>. QED BY <1>3, <2>5 DEF FileBody
<1>4. ASSUME Flush("write"), UNCHANGED delivered, ~Clearing, Clearing', app'.pc /= "done"
      PROVE  FileBody'
  <2>1. file' = delivered'  BY <1>2, <1>4 DEF Flush
  <2>2. file' \o <<>> = file'  BY <1>1, <1>4, <2>1, ConcatEmptySeq
  <2>. QED BY <1>4, <2>1, <2>2 DEF FileBody
<1>5. ASSUME Flush("clear"), UNCHANGED delivered, Clearing, ~Clearing', app'.pc /= "done"
      PROVE  FileBody'
  <2>1. file' = delivered' /\ write_buf' = <<>>  BY <1>2, <1>5 DEF Flush
  <2>2. file' \o <<>> = file'  BY <1>1, <1>5, <2>1, ConcatEmptySeq
  <2>. QED BY <1>5, <2>1, <2>2 DEF FileBody
<1>6. UNCHANGED output /\ (Clearing' <=> Clearing) /\ app'.pc /= "done" => FileBody'
  BY DEF FileBody, output
<1>7. ASSUME AppFlush, UNCHANGED recv, poll.io = "none" PROVE FileBody'
  <2>1. app'.pc = "done" /\ UNCHANGED delivered /\ file' = file \o write_buf
    BY <1>7, AppFields DEF AppFlush
  <2>2. recv'.io = "none" => ~Clearing  BY <1>7 DEF Clearing
  <2>. QED BY <1>2, <2>1, <2>2 DEF FileBody
<1>. QED BY <1>3, <1>4, <1>5, <1>6, <1>7

\* A step of a thread.
LEMMA FileHost ==
  ASSUME TypeInv, IoInv, StopInv, Rising, FileBody, Alive, app.mode = "logger",
         RecvThread \/ PollThread \/ AppThread
  PROVE  FileBody'
<1>1. app.pc /= "done"  BY DEF Alive
<1>2. /\ recv.io /= "none" => recv.pc = "advance"
      /\ poll.io /= "none" => poll.pc = "drain_advance"
  BY DEF IoInv, Rising, RecvOrder
<1>3. ~(recv.pc \in {"deliver", "advance"} /\ poll.pc \in Skipping)  BY NotTogether
<1>4. \A io : /\ IoAfterDeliver \in {"none", "write"} /\ AfterFlush("write") = "clear"
              /\ AfterFlush("clear") = "none"
  BY DEF IoAfterDeliver, AfterFlush
<1>5. CASE RecvThread
  <2>1. /\ app'.pc /= "done"  BY <1>1, <1>5, ThreadsSend
  <2>2. UNCHANGED poll
    BY <1>5 DEF RecvThread, RecvLoop, RecvTimeout, RecvPacket, RecvEqual, RecvGreater,
                RecvPush, RecvStore, RecvDeliver, RecvFlush, RecvAdvance, RecvPurge, RecvDrain,
                RecvTake, RecvCredit, RecvSend, RecvSetCredit
  <2>3. ~RecvTake  BY DEF RecvTake, Rising, RecvOrder
  <2>4. CASE RecvDeliver
    <3>1. /\ recv.pc = "deliver" /\ recv.pkt \in Packets /\ Deliver(recv.pkt)
          /\ recv'.io = IoAfterDeliver
      BY <2>4, RecvFields DEF RecvDeliver, TypeInv, RecvTypes
    <3>2. recv.io = "none" /\ poll.io = "none"  BY <1>2, <1>3, <3>1 DEF Skipping
    <3>3. ~Clearing /\ ~Clearing'  BY <1>4, <2>2, <3>1, <3>2 DEF Clearing
    <3>. QED BY <1>1, <2>1, <3>1, <3>3, FileSteps
  <2>5. CASE RecvFlush
    <3>1. /\ recv.io /= "none" /\ Flush(recv.io) /\ recv'.io = AfterFlush(recv.io)
          /\ UNCHANGED delivered
      BY <2>5, RecvFields DEF RecvFlush
    <3>2. poll.io = "none" /\ poll'.io = "none"  BY <1>2, <1>3, <2>2, <3>1 DEF Skipping
    <3>3. CASE recv.io = "write"
      <4>1. ~Clearing /\ Clearing'  BY <1>4, <3>1, <3>2, <3>3 DEF Clearing
      <4>. QED BY <1>1, <2>1, <3>1, <3>3, <4>1, FileSteps
    <3>4. CASE recv.io = "clear"
      <4>1. Clearing /\ ~Clearing'  BY <1>4, <3>1, <3>2, <3>4 DEF Clearing
      <4>. QED BY <1>1, <2>1, <3>1, <3>4, <4>1, FileSteps
    <3>. QED BY <3>1, <3>3, <3>4 DEF Flush
  <2>6. CASE ~(RecvDeliver \/ RecvFlush)
    <3>1. UNCHANGED output
      BY <1>5, <2>3, <2>6 DEF RecvThread, RecvLoop, RecvTimeout, RecvPacket, RecvEqual,
         RecvGreater, RecvPush, RecvStore, RecvAdvance, RecvPurge, RecvDrain, RecvCredit,
         RecvSend, RecvSetCredit
    <3>2. recv'.io = recv.io  BY <1>5, <2>3, <2>6, RecvFields DEF RecvThread, KeepRecv
    <3>3. Clearing' <=> Clearing  BY <2>2, <3>2 DEF Clearing
    <3>. QED BY <1>1, <2>1, <3>1, <3>3, FileSteps
  <2>. QED BY <2>4, <2>5, <2>6
<1>6. CASE PollThread
  <2>1. app'.pc /= "done"  BY <1>1, <1>6, ThreadsSend
  <2>2. UNCHANGED recv
    BY <1>6 DEF PollThread, PollSleep, PollCredit, PollSend, PollSetCredit, PollGap, PollPurge,
                PollSkip, PollDrain, PollTake, PollFlush, PollAdvance, PollSkipCredit,
                PollSkipSetCredit, PollKeepAlive
  <2>3. CASE PollTake /\ \E p \in out_of_order : p.seq = poll.skip_to
    <3>1. PICK p \in Packets : Deliver(p)
      BY <2>3 DEF PollTake, TypeInv, StateTypes
    <3>2. poll.pc = "take" /\ poll'.io = IoAfterDeliver
      BY <2>3, PollFields DEF PollTake
    <3>3. recv.io = "none" /\ poll.io = "none"  BY <1>2, <1>3, <3>2 DEF Skipping
    <3>4. ~Clearing /\ ~Clearing'  BY <1>4, <2>2, <3>2, <3>3 DEF Clearing
    <3>. QED BY <1>1, <2>1, <3>1, <3>4, FileSteps
  <2>4. CASE PollFlush
    <3>1. /\ poll.io /= "none" /\ Flush(poll.io) /\ poll'.io = AfterFlush(poll.io)
          /\ UNCHANGED delivered
      BY <2>4, PollFields DEF PollFlush
    <3>2. recv.io = "none" /\ recv'.io = "none"  BY <1>2, <1>3, <2>2, <3>1 DEF Skipping
    <3>3. CASE poll.io = "write"
      <4>1. ~Clearing /\ Clearing'  BY <1>4, <3>1, <3>2, <3>3 DEF Clearing
      <4>. QED BY <1>1, <2>1, <3>1, <3>3, <4>1, FileSteps
    <3>4. CASE poll.io = "clear"
      <4>1. Clearing /\ ~Clearing'  BY <1>4, <3>1, <3>2, <3>4 DEF Clearing
      <4>. QED BY <1>1, <2>1, <3>1, <3>4, <4>1, FileSteps
    <3>. QED BY <3>1, <3>3, <3>4 DEF Flush
  <2>5. CASE ~(PollTake /\ \E p \in out_of_order : p.seq = poll.skip_to) /\ ~PollFlush
    <3>1. UNCHANGED output
      BY <1>6, <2>5 DEF PollThread, PollSleep, PollCredit, PollSend, PollSetCredit, PollGap,
         PollPurge, PollSkip, PollDrain, PollTake, PollAdvance, PollSkipCredit,
         PollSkipSetCredit, PollKeepAlive
    <3>2. poll'.io = poll.io  BY <1>6, <2>5, PollFields DEF PollThread, KeepPoll
    <3>3. Clearing' <=> Clearing  BY <2>2, <3>2 DEF Clearing
    <3>. QED BY <1>1, <2>1, <3>1, <3>3, FileSteps
  <2>. QED BY <2>3, <2>4, <2>5
<1>7. CASE AppThread
  <2>1. UNCHANGED <<recv, poll>>  BY <1>7, MainSends
  <2>2. CASE AppFlush
    <3>1. poll.io = "none"  BY <1>2, <2>2 DEF AppFlush, StopInv
    <3>. QED BY <1>1, <2>1, <2>2, <3>1, FileSteps
  <2>3. CASE ~AppFlush
    <3>1. UNCHANGED output
      BY <1>7, <2>3 DEF AppThread, AppSetTimeout, AppDrain, AppReset, AppSendCmd, AppAcked,
         AppTimeout, AppCredit, AppDurationOver, AppShellCmd, AppShellCredit, AppShellQuit,
         AppStop, AppJoin
    <3>2. app'.pc /= "done"
      BY <1>7, <2>3, AppFields DEF AppThread, AppReset, ResetNext, AppAfter
    <3>3. Clearing' <=> Clearing  BY <2>1 DEF Clearing
    <3>. QED BY <1>1, <3>1, <3>2, <3>3, FileSteps
  <2>. QED BY <2>2, <2>3
<1>. QED BY <1>5, <1>6, <1>7

\* What was delivered is in the file or, in order, in the buffer.
THEOREM FileInvariant ==
  ASSUME STALE \subseteq {0}
  PROVE  Spec /\ [][DataKeepsOrder]_vars => []FileInv
<1>1. Init => FileInv
  <2> SUFFICES ASSUME Init PROVE FileInv
    OBVIOUS
  <2>1. /\ delivered = <<>> /\ write_buf = <<>> /\ file = <<>> /\ app.pc /= "done"
    BY DEF Init, HostInit
  <2>2. <<>> \o <<>> = <<>>  BY ConcatEmptySeq, EmptySeq
  <2>. QED BY <2>1, <2>2 DEF FileInv, FileBody
<1>2. TypeInv /\ IoInv /\ StopInv /\ RisingInv /\ FileInv /\ [Next]_vars => FileInv'
  <2> SUFFICES ASSUME TypeInv, IoInv, StopInv, RisingInv, FileInv, [Next]_vars,
                      app'.mode = "logger", f_session' <= 1
               PROVE  FileBody'
    BY DEF FileInv
  <2>1. app'.mode = app.mode  BY ModeKept
  <2>2. f_session <= 1  BY SessionRises
  <2>3. FileBody /\ Rising  BY <2>1, <2>2 DEF FileInv, RisingInv
  <2>4. CASE Alive /\ (RecvThread \/ PollThread \/ AppThread)
    BY <2>1, <2>3, <2>4, FileHost
  <2>5. CASE Fpga \/ Lose \/ Overtake \/ UNCHANGED vars
    <3>1. UNCHANGED <<app, recv, poll, delivered, write_buf, file>>
      BY <2>5 DEF Fpga, FpgaReceive, FpgaRespond, FpgaBegin, FpgaFinish, Lose, Overtake,
                  hostOnly, vars, hostVars, output
    <3>. QED BY <2>3, <3>1 DEF FileBody, Clearing
  <2>. QED BY <2>4, <2>5 DEF Next
<1>. QED BY <1>1, <1>2, TypeInvariant, IoInvariant, StopInvariant, RisingInvariant, PTL DEF Spec

\* The file of a finished acquisition holds the payloads in the order of delivery,
\* each once, and all that were delivered before stop(), as long as the FPGA has
\* executed one START: on_data in two threads, stop() and the last flush together.
THEOREM NothingUnsaved ==
  ASSUME STALE \subseteq {0}
  PROVE  Spec /\ [][DataKeepsOrder]_vars => [](f_session <= 1 => SavedAll)
<1>1. TypeInv /\ StopInv /\ FileInv => (f_session <= 1 => SavedAll)
  <2> SUFFICES ASSUME TypeInv, StopInv, FileInv, f_session <= 1, app.pc = "done",
                      recv.io = "none"
               PROVE  /\ app.at_stop <= Len(file) /\ Len(file) <= Len(delivered)
                      /\ file = SubSeq(delivered, 1, Len(file))
    BY DEF SavedAll
  <2>1. file = delivered /\ app.at_stop <= Len(delivered)  BY DEF StopInv, FileInv, FileBody
  <2>2. /\ Len(delivered) \in Nat /\ SubSeq(delivered, 1, Len(delivered)) = delivered
    BY LenProperties, SubSeqFull DEF TypeInv, OutputTypes
  <2>. QED BY <2>1, <2>2
<1>. QED BY <1>1, TypeInvariant, StopInvariant, FileInvariant, PTL

-----------------------------------------------------------------------------
(***************************************************************************)
(* Retries.  An attempt of send_start that times out does not show whether *)
(* the command or its answer was lost.  Lost commands are harmless for     *)
(* every number of attempts: it takes the repetition of a START that has   *)
(* arrived, or is still to arrive, to make a second session.               *)
(***************************************************************************)
Starts == {m \in Commands : m.opcode = "START"}

\* START is repeated only when the attempts before it were lost on the way.
RetryOnlyIfLost ==
  AppTimeout /\ app.op = "START" /\ app.attempt < RETRIES => f_session = 0 /\ Starts = {}

StartOnce ==
  /\ f_session <= 1
  /\ Starts /= {} => f_session = 0
  /\ \A m, n \in Starts : m.id = n.id
  /\ app.pc = "send" /\ app.op = "START" => f_session = 0 /\ Starts = {}

StartInv == app.mode = "logger" => StartOnce

\* Only AppReset and a retry make START the next command of the logger.
LEMMA StartIsNext ==
  ASSUME TypeInv, FreshInv, LoggerInv, StartInv, app.mode = "logger", AppThread, ~AppSendCmd,
         RetryOnlyIfLost, app'.pc = "send", app'.op = "START"
  PROVE  f_session = 0 /\ Starts = {}
<1>1. app.pc /= "prompt"  BY DEF LoggerInv
<1>2. ~AppDurationOver /\ ~AppShellCmd  BY <1>1, AppFields DEF AppShellCmd
<1>3. CASE AppTimeout
  <2>1. /\ app.op = "START"
        /\ IF app.attempt = RETRIES THEN app'.pc = "stop" ELSE app'.pc = "send"
    BY <1>3, AppFields DEF AppTimeout, AppAfter
  <2>2. app.attempt \in 0 .. RETRIES /\ RETRIES \in Nat
    BY HostAssumption DEF TypeInv, AppTypes, AppRecords
  <2>. QED BY <1>3, <2>1, <2>2 DEF RetryOnlyIfLost
<1>4. CASE AppReset
  <2>1. app.pc \in Startup  BY <1>4 DEF AppReset, Startup
  <2>. QED BY <2>1 DEF FreshInv, Starts
<1>5. CASE ~AppTimeout /\ ~AppReset
  BY <1>2, <1>5, AppFields DEF AppThread, AppAfter
<1>. QED BY <1>3, <1>4, <1>5

\* A START leaves "send" for the network, and the network for the FPGA.
LEMMA StartStep ==
  ASSUME TypeInv, CommandInv, FreshInv, LoggerInv, StartInv, [Next]_vars, [RetryOnlyIfLost]_vars
  PROVE  StartInv'
<1> SUFFICES ASSUME app'.mode = "logger" PROVE StartOnce'
  BY DEF StartInv
<1>1. app.mode = "logger" /\ StartOnce  BY ModeKept DEF StartInv
<1>2. /\ NetTypes /\ CmdsInOrder /\ f_session \in Nat /\ app.pc /= "prompt"
      /\ recv.credit \in Nat /\ poll.credit \in Nat /\ abs_credit \in Nat
  BY <1>1 DEF TypeInv, CommandInv, FpgaTypes, StateTypes, RecvTypes, RecvRecords, PollTypes,
              PollRecords, LoggerInv
<1>3. \A n \in Nat : SendTo(Credit(n)) => Commands' = Commands  BY <1>2, CommandQueue
<1>4. UNCHANGED h2f => Commands' = Commands  BY <1>2, CommandQueue
<1>5. CASE UNCHANGED vars
  <2>1. UNCHANGED <<app, f_session, h2f>>  BY <1>5 DEF vars, hostVars, fpgaVars, net
  <2>. QED BY <1>1, <1>4, <2>1 DEF StartOnce, Starts
<1>6. CASE Alive /\ (RecvThread \/ PollThread)
  <2>1. UNCHANGED f_session  BY <1>6 DEF Alive, fpgaVars
  <2>2. Commands' = Commands  BY <1>2, <1>3, <1>4, <1>6, ThreadsSend
  <2>3. app'.pc = app.pc /\ app'.op = app.op  BY <1>6, ThreadsSend DEF KeepApp
  <2>. QED BY <1>1, <2>1, <2>2, <2>3 DEF StartOnce, Starts
<1>7. CASE Alive /\ AppSendCmd
  <2> DEFINE c == Cmd(app.op, app.next_id)
  <2>1. UNCHANGED f_session  BY <1>7 DEF Alive, fpgaVars
  <2>2. /\ app.pc = "send" /\ app'.pc = "wait" /\ SendTo(c)
        /\ app.op \in Ops /\ app.next_id \in Nat
    BY <1>7, AppFields DEF AppSendCmd, TypeInv, AppTypes, AppRecords
  <2>3. Commands' = Commands \cup {c}
    <3>1. \A m \in Commands : m.id < app.next_id  BY DEF CommandInv, IdOrder
    <3>. QED BY <1>2, <2>2, <3>1, CommandQueue
  <2>4. c.opcode = app.op  BY DEF Cmd
  <2> HIDE DEF c
  <2>5. CASE app.op = "START"
    <3>1. f_session = 0 /\ Starts = {}  BY <1>1, <2>2, <2>5 DEF StartOnce
    <3>2. Starts' = {c}  BY <2>3, <2>4, <2>5, <3>1 DEF Starts
    <3>. QED BY <2>1, <2>2, <3>1, <3>2 DEF StartOnce
  <2>6. CASE app.op /= "START"
    <3>1. Starts' = Starts  BY <2>3, <2>4, <2>6 DEF Starts
    <3>. QED BY <1>1, <2>1, <2>2, <3>1 DEF StartOnce
  <2>. QED BY <2>5, <2>6
<1>8. CASE Alive /\ AppThread /\ ~AppSendCmd /\ ~UNCHANGED vars
  <2>1. UNCHANGED f_session  BY <1>8 DEF Alive, fpgaVars
  <2>2. Commands' = Commands  BY <1>2, <1>3, <1>4, <1>8, MainSends
  <2>3. app'.pc = "send" /\ app'.op = "START" => f_session = 0 /\ Starts = {}
    BY <1>1, <1>8, StartIsNext
  <2>. QED BY <1>1, <2>1, <2>2, <2>3 DEF StartOnce, Starts
<1>9. CASE FpgaReceive
  <2> DEFINE p == Head(h2f)
  <2>1. h2f /= <<>> /\ h2f' = Tail(h2f) /\ UNCHANGED app  BY <1>9 DEF FpgaReceive, hostOnly
  <2>2. /\ Commands' \subseteq Commands /\ \A m \in Commands : m.id \in Nat
        /\ p.type = "CMD" => p \in Commands /\ \A m \in Commands' : p.id < m.id
    BY <1>2, <2>1, CommandQueue
  <2>3. Starts' \subseteq Starts  BY <2>2 DEF Starts
  <2>4. CASE UNCHANGED f_session  BY <1>1, <2>1, <2>3, <2>4 DEF StartOnce
  <2>5. CASE p.type = "CMD" /\ p.opcode = "START" /\ f_session' = f_session + 1
    <3>1. p \in Starts  BY <2>2, <2>5 DEF Starts
    <3>2. f_session = 0  BY <1>1, <3>1 DEF StartOnce
    <3>3. ASSUME NEW m \in Starts' PROVE FALSE
      <4>1. m \in Starts /\ m \in Commands' /\ m.id \in Nat  BY <2>2, <2>3, <3>3 DEF Starts
      <4>2. p.id = m.id /\ p.id < m.id  BY <1>1, <2>2, <2>5, <3>1, <4>1 DEF StartOnce
      <4>. QED BY <4>1, <4>2
    <3>4. ~(app.pc = "send" /\ app.op = "START")  BY <1>1, <3>1 DEF StartOnce
    <3>. QED BY <2>1, <2>5, <3>2, <3>3, <3>4 DEF StartOnce
  <2>6. UNCHANGED f_session \/ (p.type = "CMD" /\ p.opcode = "START" /\ f_session' = f_session + 1)
    BY <1>9 DEF FpgaReceive, FpgaCmd, FpgaCredit, fpgaVars
  <2>. QED BY <2>4, <2>5, <2>6
<1>10. CASE FpgaRespond \/ FpgaBegin \/ FpgaFinish \/ Lose \/ Overtake
  <2>1. UNCHANGED <<app, f_session>> /\ (UNCHANGED h2f \/ (h2f /= <<>> /\ h2f' = Tail(h2f)))
    BY <1>10 DEF FpgaRespond, FpgaBegin, FpgaFinish, Lose, Overtake, hostOnly, fpgaVars
  <2>2. Commands' \subseteq Commands  BY <1>2, <2>1, CommandQueue
  <2>3. Starts' \subseteq Starts  BY <2>2 DEF Starts
  <2>. QED BY <1>1, <2>1, <2>3 DEF StartOnce
<1>. QED BY <1>5, <1>6, <1>7, <1>8, <1>9, <1>10 DEF Next, Fpga

\* Flow control and the output file of an acquisition that repeats START up to any
\* number of times (3 in _send_cmd_wait_ack), as long as it repeats only STARTs that
\* were lost on the way to the FPGA; DATA, CREDITs, the last ACK and all other
\* commands may be lost or late.
THEOREM LostStartsAreHarmless ==
  ASSUME STALE \subseteq {0}
  PROVE  Spec /\ [][DataKeepsOrder]_vars /\ [][RetryOnlyIfLost]_vars
           => [](app.mode = "logger" => FlowControl /\ SavedAll)
<1>1. Init => StartInv
  <2> SUFFICES ASSUME Init PROVE StartInv
    OBVIOUS
  <2>1. h2f = <<>> /\ f_session = 0  BY DEF Init, HostInit
  <2>2. Starts = {}
    <3>1. \A x : x \notin Range(<<>>)  BY DEF Range
    <3>. QED BY <2>1, <3>1 DEF Starts, Commands
  <2>. QED BY <2>1, <2>2 DEF StartInv, StartOnce
<1>2. TypeInv /\ CommandInv /\ FreshInv /\ LoggerInv /\ StartInv /\ [Next]_vars
        /\ [RetryOnlyIfLost]_vars => StartInv'
  BY StartStep
<1>3. StartInv /\ (app.mode = "logger" /\ f_session <= 1 => FlowControl)
        /\ (f_session <= 1 => SavedAll) => (app.mode = "logger" => FlowControl /\ SavedAll)
  BY DEF StartInv, StartOnce
<1>. QED BY <1>1, <1>2, <1>3, TypeInvariant, CommandInvariant, FreshInvariant, LoggerInvariant,
            WindowIsRespected, NothingUnsaved, PTL DEF Spec
=============================================================================
