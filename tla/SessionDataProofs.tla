-------------------------- MODULE SessionDataProofs --------------------------
(***************************************************************************)
(* The DATA packets of LudpSession: the reorder buffer that two threads    *)
(* use without a lock, the order of delivery, the credit, and the output   *)
(* file.                                                                   *)
(***************************************************************************)
EXTENDS SessionProofs

-----------------------------------------------------------------------------
(***************************************************************************)
(* The locals of the threads after each step, field by field.              *)
(***************************************************************************)
KeepRecv == recv'.pkt = recv.pkt /\ recv'.io = recv.io /\ recv'.credit = recv.credit
KeepPoll == poll'.skip_to = poll.skip_to /\ poll'.io = poll.io /\ poll'.credit = poll.credit

\* The receive thread.
LEMMA RecvFields ==
  ASSUME TypeInv
  PROVE  /\ RecvLoop => recv'.pc \in {"recv", "dead"} /\ KeepRecv
         /\ RecvTimeout => recv'.pc = "dead" /\ KeepRecv
         /\ RecvPacket => /\ recv'.io = recv.io /\ recv'.credit = recv.credit
                          /\ \/ /\ Head(f2h).type = "DATA"
                                /\ recv'.pc = "equal" /\ recv'.pkt = Head(f2h)
                             \/ Head(f2h).type /= "DATA" /\ recv'.pc = "loop"
         /\ RecvEqual => /\ recv'.pc = IF recv.pkt.seq = expected_seq THEN "deliver" ELSE "greater"
                         /\ KeepRecv
         /\ RecvGreater => IF recv.pkt.seq > expected_seq
                             THEN recv'.pc = "push" /\ KeepRecv
                             ELSE recv'.pc = "loop" /\ recv'.io = recv.io /\ recv'.credit = 0
         /\ RecvPush => recv'.pc = "store" /\ KeepRecv
         /\ RecvStore => recv'.pc = "loop" /\ recv'.io = recv.io /\ recv'.credit = 0
         /\ RecvDeliver => /\ recv'.pc = "advance" /\ recv'.io = IoAfterDeliver
                           /\ recv'.pkt = recv.pkt /\ recv'.credit = recv.credit
         /\ RecvFlush => /\ recv'.pc = recv.pc /\ recv'.io = AfterFlush(recv.io)
                         /\ recv'.pkt = recv.pkt /\ recv'.credit = recv.credit
         /\ RecvAdvance => /\ recv'.pc = IF recv.pc = "advance" THEN "purge" ELSE "drain"
                           /\ KeepRecv
         /\ RecvPurge => recv'.pc \in {"purge", "drain"} /\ KeepRecv
         /\ RecvDrain => /\ recv'.io = recv.io /\ recv'.credit = recv.credit
                         /\ IF ooo_heap /= {} /\ HeapMin = expected_seq
                              THEN recv'.pc = "take" /\ recv'.pkt.seq = HeapMin
                              ELSE recv'.pc = "credit"
         /\ RecvTake => /\ recv'.pkt = recv.pkt /\ recv'.credit = recv.credit
                        /\ \/ recv'.pc = "dead" /\ recv'.io = recv.io
                           \/ recv'.pc = "drain_advance" /\ recv'.io = IoAfterDeliver
         /\ RecvCredit => /\ recv'.io = recv.io
                          /\ \/ recv'.pc = "send" /\ recv'.credit = NewCredit
                             \/ recv'.pc = "loop" /\ recv'.credit = 0
         /\ RecvSend => recv'.pc = "set_credit" /\ KeepRecv
         /\ RecvSetCredit => recv'.pc = "loop" /\ recv'.io = recv.io /\ recv'.credit = 0
<1>1. recv \in RecvRecords  BY DEF TypeInv, RecvTypes
<1> USE <1>1 DEF RecvRecords, KeepRecv, RecvGoto, RecvBack
<1>2. RecvLoop => recv'.pc \in {"recv", "dead"} /\ KeepRecv
  <2>1. RecvLoop => (\E d : recv' = [recv EXCEPT !.pc = "recv", !.timed = d])
                    \/ recv' = [recv EXCEPT !.pc = "dead"]
    BY DEF RecvLoop
  <2>. QED BY <2>1
<1>3. RecvTimeout => recv'.pc = "dead" /\ KeepRecv  BY DEF RecvTimeout
<1>4. RecvPacket => /\ recv'.io = recv.io /\ recv'.credit = recv.credit
                    /\ \/ /\ Head(f2h).type = "DATA"
                          /\ recv'.pc = "equal" /\ recv'.pkt = Head(f2h)
                       \/ Head(f2h).type /= "DATA" /\ recv'.pc = "loop"
  BY DEF RecvPacket
<1>5. RecvEqual => /\ recv'.pc = IF recv.pkt.seq = expected_seq THEN "deliver" ELSE "greater"
                   /\ KeepRecv
  BY DEF RecvEqual
<1>6. RecvGreater => IF recv.pkt.seq > expected_seq
                       THEN recv'.pc = "push" /\ KeepRecv
                       ELSE recv'.pc = "loop" /\ recv'.io = recv.io /\ recv'.credit = 0
  BY DEF RecvGreater
<1>7. RecvPush => recv'.pc = "store" /\ KeepRecv  BY DEF RecvPush
<1>8. RecvStore => recv'.pc = "loop" /\ recv'.io = recv.io /\ recv'.credit = 0  BY DEF RecvStore
<1>9. RecvDeliver => /\ recv'.pc = "advance" /\ recv'.io = IoAfterDeliver
                     /\ recv'.pkt = recv.pkt /\ recv'.credit = recv.credit
  BY DEF RecvDeliver
<1>10. RecvFlush => /\ recv'.pc = recv.pc /\ recv'.io = AfterFlush(recv.io)
                    /\ recv'.pkt = recv.pkt /\ recv'.credit = recv.credit
  BY DEF RecvFlush
<1>11. RecvAdvance => /\ recv'.pc = IF recv.pc = "advance" THEN "purge" ELSE "drain"
                      /\ KeepRecv
  BY DEF RecvAdvance
<1>12. RecvPurge => recv'.pc \in {"purge", "drain"} /\ KeepRecv  BY DEF RecvPurge
<1>13. RecvDrain => /\ recv'.io = recv.io /\ recv'.credit = recv.credit
                    /\ IF ooo_heap /= {} /\ HeapMin = expected_seq
                         THEN recv'.pc = "take" /\ recv'.pkt.seq = HeapMin
                         ELSE recv'.pc = "credit"
  <2>1. RecvDrain /\ ooo_heap /= {} /\ HeapMin = expected_seq
          => \E p : p.seq = HeapMin /\ recv' = [recv EXCEPT !.pc = "take", !.pkt = p]
    BY DEF RecvDrain
  <2>2. RecvDrain /\ ~(ooo_heap /= {} /\ HeapMin = expected_seq)
          => recv' = [recv EXCEPT !.pc = "credit"]
    BY DEF RecvDrain
  <2>. QED BY <2>1, <2>2
<1>14. RecvTake => /\ recv'.pkt = recv.pkt /\ recv'.credit = recv.credit
                   /\ \/ recv'.pc = "dead" /\ recv'.io = recv.io
                      \/ recv'.pc = "drain_advance" /\ recv'.io = IoAfterDeliver
  BY DEF RecvTake
<1>15. RecvCredit => /\ recv'.io = recv.io
                     /\ \/ recv'.pc = "send" /\ recv'.credit = NewCredit
                        \/ recv'.pc = "loop" /\ recv'.credit = 0
  <2>1. RecvCredit
          => \/ recv' = [recv EXCEPT !.pc = "send", !.credit = NewCredit, !.pkt = NoPacket]
             \/ recv' = [recv EXCEPT !.pc = "loop", !.pkt = NoPacket, !.credit = 0]
    BY DEF RecvCredit
  <2>. QED BY <2>1
<1>16. RecvSend => recv'.pc = "set_credit" /\ KeepRecv  BY DEF RecvSend
<1>17. RecvSetCredit => recv'.pc = "loop" /\ recv'.io = recv.io /\ recv'.credit = 0
  BY DEF RecvSetCredit
<1> HIDE DEF KeepRecv
<1>. QED BY <1>2, <1>3, <1>4, <1>5, <1>6, <1>7, <1>8, <1>9, <1>10, <1>11, <1>12, <1>13,
            <1>14, <1>15, <1>16, <1>17

\* The polling thread.
LEMMA PollFields ==
  ASSUME TypeInv
  PROVE  /\ PollSleep => poll'.pc \in {"credit", "dead"} /\ KeepPoll
         /\ PollCredit => /\ poll'.io = poll.io
                          /\ \/ poll'.pc = "send" /\ poll'.credit = NewCredit
                             \/ poll'.pc = "gap" /\ poll'.credit = poll.credit
         /\ PollSend => /\ poll'.pc = IF poll.pc = "send" THEN "set_credit" ELSE "skip_set_credit"
                        /\ KeepPoll
         /\ PollSetCredit => poll'.pc = "gap" /\ poll'.io = poll.io /\ poll'.credit = 0
         /\ PollGap => /\ poll'.pc \in {"keepalive", "purge"} /\ KeepPoll
                       /\ out_of_order = {} => poll'.pc = "keepalive"
         /\ PollPurge => /\ poll'.io = poll.io /\ poll'.credit = poll.credit
                         /\ \/ poll'.pc \in {"sleep", "purge"}
                            \/ /\ ooo_heap /= {} /\ HeapMin >= expected_seq /\ UNCHANGED ooo_heap
                               /\ poll'.pc = "skip" /\ poll'.skip_to = HeapMin
         /\ PollSkip => poll'.pc = "drain" /\ KeepPoll
         /\ PollDrain => /\ poll'.io = poll.io /\ poll'.credit = poll.credit
                         /\ IF ooo_heap /= {} /\ HeapMin = expected_seq
                              THEN poll'.pc = "take" /\ poll'.skip_to = HeapMin
                              ELSE poll'.pc = "skip_credit"
         /\ PollTake => /\ poll'.skip_to = poll.skip_to /\ poll'.credit = poll.credit
                        /\ IF \E p \in out_of_order : p.seq = poll.skip_to
                             THEN poll'.pc = "drain_advance" /\ poll'.io = IoAfterDeliver
                             ELSE poll'.pc = "dead" /\ poll'.io = poll.io
         /\ PollFlush => /\ poll'.pc = poll.pc /\ poll'.io = AfterFlush(poll.io)
                         /\ poll'.skip_to = poll.skip_to /\ poll'.credit = poll.credit
         /\ PollAdvance => poll'.pc = "drain" /\ KeepPoll
         /\ PollSkipCredit => poll'.pc = "skip_send" /\ poll'.io = poll.io /\ poll'.credit = NewCredit
         /\ PollSkipSetCredit => poll'.pc = "keepalive" /\ poll'.io = poll.io /\ poll'.credit = 0
         /\ PollKeepAlive => poll'.pc = "sleep" /\ KeepPoll
<1>1. poll \in PollRecords  BY DEF TypeInv, PollTypes
<1> USE <1>1 DEF PollRecords, KeepPoll, PollGoto
<1>2. PollSleep => poll'.pc \in {"credit", "dead"} /\ KeepPoll
  <2>1. PollSleep => (\E q : poll' = [poll EXCEPT !.pc = "credit", !.quiet = q])
                     \/ poll' = [poll EXCEPT !.pc = "dead"]
    BY DEF PollSleep
  <2>. QED BY <2>1
<1>3. PollCredit => /\ poll'.io = poll.io
                    /\ \/ poll'.pc = "send" /\ poll'.credit = NewCredit
                       \/ poll'.pc = "gap" /\ poll'.credit = poll.credit
  BY DEF PollCredit
<1>4. PollSend => /\ poll'.pc = IF poll.pc = "send" THEN "set_credit" ELSE "skip_set_credit"
                  /\ KeepPoll
  BY DEF PollSend
<1>5. PollSetCredit => poll'.pc = "gap" /\ poll'.io = poll.io /\ poll'.credit = 0
  BY DEF PollSetCredit
<1>6. PollGap => /\ poll'.pc \in {"keepalive", "purge"} /\ KeepPoll
                 /\ out_of_order = {} => poll'.pc = "keepalive"
  BY DEF PollGap
<1>7. PollPurge => /\ poll'.io = poll.io /\ poll'.credit = poll.credit
                   /\ \/ poll'.pc \in {"sleep", "purge"}
                      \/ /\ ooo_heap /= {} /\ HeapMin >= expected_seq /\ UNCHANGED ooo_heap
                         /\ poll'.pc = "skip" /\ poll'.skip_to = HeapMin
  BY DEF PollPurge
<1>8. PollSkip => poll'.pc = "drain" /\ KeepPoll  BY DEF PollSkip
<1>9. PollDrain => /\ poll'.io = poll.io /\ poll'.credit = poll.credit
                   /\ IF ooo_heap /= {} /\ HeapMin = expected_seq
                        THEN poll'.pc = "take" /\ poll'.skip_to = HeapMin
                        ELSE poll'.pc = "skip_credit"
  BY DEF PollDrain
<1>10. PollTake => /\ poll'.skip_to = poll.skip_to /\ poll'.credit = poll.credit
                   /\ IF \E p \in out_of_order : p.seq = poll.skip_to
                        THEN poll'.pc = "drain_advance" /\ poll'.io = IoAfterDeliver
                        ELSE poll'.pc = "dead" /\ poll'.io = poll.io
  BY DEF PollTake
<1>11. PollFlush => /\ poll'.pc = poll.pc /\ poll'.io = AfterFlush(poll.io)
                    /\ poll'.skip_to = poll.skip_to /\ poll'.credit = poll.credit
  BY DEF PollFlush
<1>12. PollAdvance => poll'.pc = "drain" /\ KeepPoll  BY DEF PollAdvance
<1>13. PollSkipCredit => poll'.pc = "skip_send" /\ poll'.io = poll.io /\ poll'.credit = NewCredit
  BY DEF PollSkipCredit
<1>14. PollSkipSetCredit => poll'.pc = "keepalive" /\ poll'.io = poll.io /\ poll'.credit = 0
  BY DEF PollSkipSetCredit
<1>15. PollKeepAlive => poll'.pc = "sleep" /\ KeepPoll  BY DEF PollKeepAlive
<1> HIDE DEF KeepPoll
<1>. QED BY <1>2, <1>3, <1>4, <1>5, <1>6, <1>7, <1>8, <1>9, <1>10, <1>11, <1>12, <1>13,
            <1>14, <1>15

\* The main thread.
KeepApp == /\ app'.op = app.op /\ app'.next_id = app.next_id /\ app'.at_stop = app.at_stop
           /\ app'.attempt = app.attempt
LEMMA AppFields ==
  ASSUME TypeInv
  PROVE  /\ AppThread => app'.mode = app.mode
         /\ AppSetTimeout => app'.pc = "drain" /\ KeepApp
         /\ AppDrain => app'.pc \in {"drain", "reset_seq"} /\ KeepApp
         /\ AppReset => /\ app'.pc = ResetNext[app.pc] /\ app'.at_stop = app.at_stop
                        /\ app'.next_id = app.next_id /\ app'.attempt = app.attempt
         /\ AppSendCmd => /\ app'.pc = "wait" /\ app'.op = app.op /\ app'.at_stop = app.at_stop
                          /\ app'.next_id = app.next_id + 1 /\ app'.attempt = app.attempt + 1
         /\ AppAcked => /\ app'.pc = AppAfter(TRUE) /\ app'.op = app.op
                        /\ app'.next_id = app.next_id
         /\ AppTimeout => /\ app'.op = app.op /\ app'.next_id = app.next_id
                          /\ IF app.attempt = RETRIES \/ app.op = "READ"
                               THEN app'.pc = AppAfter(FALSE) ELSE app'.pc = "send"
         /\ AppCredit => app'.pc = (IF app.mode = "logger" THEN "run" ELSE "prompt") /\ KeepApp
         /\ AppDurationOver => app'.pc = "send" /\ app'.op = "STOP" /\ app'.next_id = app.next_id
         /\ AppShellCmd => app'.pc = "send" /\ app'.next_id = app.next_id
         /\ AppShellCredit => app'.pc = "prompt" /\ KeepApp
         /\ AppShellQuit => app'.pc = "stop" /\ KeepApp
         /\ AppStop => app'.pc = "join" /\ app'.at_stop = Len(delivered)
         /\ AppJoin => /\ app'.pc = IF app.mode = "logger" /\ app.op = "STOP" THEN "flush" ELSE "exit"
                       /\ KeepApp
         /\ AppFlush => app'.pc = "done" /\ KeepApp
<1>1. app \in AppRecords  BY DEF TypeInv, AppTypes
<1> USE <1>1 DEF AppRecords, KeepApp, AppGoto
<1>2. AppSetTimeout => app'.pc = "drain" /\ KeepApp /\ app'.mode = app.mode  BY DEF AppSetTimeout
<1>3. AppDrain => app'.pc \in {"drain", "reset_seq"} /\ KeepApp /\ app'.mode = app.mode
  BY DEF AppDrain
<1>4. AppReset => /\ app'.pc = ResetNext[app.pc] /\ app'.at_stop = app.at_stop
                  /\ app'.next_id = app.next_id /\ app'.attempt = app.attempt
                  /\ app'.mode = app.mode
  <2>1. AppReset => \E o, c : c = ResetNext[app.pc] /\ app' = [app EXCEPT !.pc = c, !.op = o]
    <3> HIDE <1>1 DEF AppRecords
    <3>. QED BY Zenon DEF AppReset
  <2>. QED BY <2>1
<1>5. AppSendCmd => /\ app'.pc = "wait" /\ app'.op = app.op /\ app'.at_stop = app.at_stop
                    /\ app'.next_id = app.next_id + 1 /\ app'.attempt = app.attempt + 1
                    /\ app'.mode = app.mode
  BY DEF AppSendCmd
<1>6. AppAcked => /\ app'.pc = AppAfter(TRUE) /\ app'.op = app.op
                  /\ app'.next_id = app.next_id /\ app'.mode = app.mode
  <2>1. AppAcked => \E b : app' = [app EXCEPT !.pc = AppAfter(TRUE), !.attempt = 0,
                                              !.read = app.data, !.data = {}, !.believes = b]
    BY DEF AppAcked
  <2>. QED BY <2>1
<1>7. AppTimeout => /\ app'.op = app.op /\ app'.next_id = app.next_id /\ app'.mode = app.mode
                    /\ IF app.attempt = RETRIES \/ app.op = "READ"
                         THEN app'.pc = AppAfter(FALSE) ELSE app'.pc = "send"
  BY DEF AppTimeout
<1>8. AppCredit => /\ app'.pc = (IF app.mode = "logger" THEN "run" ELSE "prompt") /\ KeepApp
                   /\ app'.mode = app.mode
  BY DEF AppCredit
<1>9. AppDurationOver => /\ app'.pc = "send" /\ app'.op = "STOP" /\ app'.next_id = app.next_id
                         /\ app'.mode = app.mode
  BY DEF AppDurationOver
<1>10. AppShellCmd => app'.pc = "send" /\ app'.next_id = app.next_id /\ app'.mode = app.mode
  <2>1. AppShellCmd => \E o, b : app' = [app EXCEPT !.pc = "send", !.op = o, !.cmds = app.cmds + 1,
                                           !.acked = FALSE, !.read = {}, !.believes = b]
    <3> HIDE <1>1 DEF AppRecords
    <3>. QED BY Zenon DEF AppShellCmd
  <2>. QED BY <2>1
<1>11. AppShellCredit => app'.pc = "prompt" /\ KeepApp /\ app'.mode = app.mode
  BY DEF AppShellCredit
<1>12. AppShellQuit => app'.pc = "stop" /\ KeepApp /\ app'.mode = app.mode  BY DEF AppShellQuit
<1>13. AppStop => app'.pc = "join" /\ app'.at_stop = Len(delivered) /\ app'.mode = app.mode
  BY DEF AppStop
<1>14. AppJoin => /\ app'.pc = IF app.mode = "logger" /\ app.op = "STOP" THEN "flush" ELSE "exit"
                  /\ KeepApp /\ app'.mode = app.mode
  BY DEF AppJoin
<1>15. AppFlush => app'.pc = "done" /\ KeepApp /\ app'.mode = app.mode  BY DEF AppFlush
<1> HIDE DEF KeepApp
<1>16. AppThread => app'.mode = app.mode
  BY <1>2, <1>3, <1>4, <1>5, <1>6, <1>7, <1>8, <1>9, <1>10, <1>11, <1>12, <1>13, <1>14, <1>15
  DEF AppThread
<1>. QED BY <1>2, <1>3, <1>4, <1>5, <1>6, <1>7, <1>8, <1>9, <1>10, <1>11, <1>12, <1>13,
            <1>14, <1>15, <1>16

-----------------------------------------------------------------------------
(***************************************************************************)
(* DATA packets on their way to the host.                                  *)
(***************************************************************************)
Arriving == {m \in Range(f2h) : m.type = "DATA"}

DataInOrder ==
  \A i, j \in 1 .. Len(f2h) :
    i < j /\ f2h[i].type = "DATA" /\ f2h[j].type = "DATA" => f2h[i].seq < f2h[j].seq

\* What a packet that enters or leaves the queue to the host means for them.
LEMMA DataQueue ==
  ASSUME NetTypes
  PROVE  /\ Arriving \subseteq Packets
         /\ UNCHANGED f2h => Arriving' = Arriving /\ (DataInOrder => DataInOrder')
         /\ f2h /= <<>> /\ Head(f2h).type = "DATA" => Head(f2h) \in Arriving
         /\ f2h /= <<>> /\ f2h' = Tail(f2h)
              => /\ Arriving' \subseteq Arriving
                 /\ DataInOrder
                      => /\ DataInOrder'
                         /\ Head(f2h).type = "DATA"
                              => \A m \in Arriving' : Head(f2h).seq < m.seq
         /\ \A r \in Answers : f2h' = Append(f2h, r)
              => Arriving' = Arriving /\ (DataInOrder => DataInOrder')
         /\ \A p \in Packets : f2h' = Append(f2h, p)
              => /\ Arriving' = Arriving \cup {p}
                 /\ DataInOrder /\ (\A m \in Arriving : m.seq < p.seq) => DataInOrder'
<1> DEFINE P == Packets \cup Answers
<1>1. /\ f2h \in Seq(P) /\ Len(f2h) \in Nat /\ \A i \in 1 .. Len(f2h) : f2h[i] \in P
      /\ Range(f2h) = {f2h[i] : i \in 1 .. Len(f2h)}
  BY LenProperties, ElementOfSeq, RangeEquality DEF NetTypes
<1>2. \A m \in P : m.type = "DATA" => m \in Packets  BY DEF Packets, Answers
<1>3. \A p \in Packets : p \in P /\ p.type = "DATA" /\ p.seq \in Nat  BY DEF Packets
<1>4. \A r \in Answers : r \in P /\ r.type /= "DATA"  BY DEF Answers
<1> HIDE DEF P
<1>5. Arriving \subseteq Packets  BY <1>1, <1>2, Zenon DEF Arriving
<1>6. UNCHANGED f2h => Arriving' = Arriving /\ (DataInOrder => DataInOrder')
  BY DEF Arriving, DataInOrder
<1>7. f2h /= <<>> /\ Head(f2h).type = "DATA" => Head(f2h) \in Arriving
  BY <1>1, QueueElements DEF Arriving
<1>8. ASSUME f2h /= <<>>, f2h' = Tail(f2h)
      PROVE  /\ Arriving' \subseteq Arriving
             /\ DataInOrder => /\ DataInOrder'
                               /\ Head(f2h).type = "DATA"
                                    => \A m \in Arriving' : Head(f2h).seq < m.seq
  <2>1. /\ Len(f2h) > 0 /\ Head(f2h) = f2h[1] /\ Len(f2h') = Len(f2h) - 1
        /\ \A i \in 1 .. Len(f2h) - 1 : f2h'[i] = f2h[i + 1]
        /\ Range(f2h') \subseteq Range(f2h)
    BY <1>1, <1>8, QueueElements
  <2>2. Arriving' \subseteq Arriving  BY <2>1 DEF Arriving
  <2>3. DataInOrder => DataInOrder'  BY <1>1, <2>1 DEF DataInOrder
  <2>4. ASSUME DataInOrder, Head(f2h).type = "DATA", NEW m \in Arriving'
        PROVE  Head(f2h).seq < m.seq
    <3>1. f2h' \in Seq(P)  BY <1>1, <1>8, HeadTailProperties
    <3>2. PICK i \in 1 .. Len(f2h') : m = f2h'[i] /\ m.type = "DATA"
      BY <2>4, <3>1, RangeEquality DEF Arriving
    <3>. QED BY <1>1, <2>1, <2>4, <3>2 DEF DataInOrder
  <2>. QED BY <2>2, <2>3, <2>4
<1>9. ASSUME NEW r \in Answers, f2h' = Append(f2h, r)
      PROVE  Arriving' = Arriving /\ (DataInOrder => DataInOrder')
  <2>1. /\ Len(f2h') = Len(f2h) + 1 /\ f2h'[Len(f2h) + 1] = r
        /\ \A i \in 1 .. Len(f2h) : f2h'[i] = f2h[i]
        /\ Range(f2h') = Range(f2h) \cup {r}
    BY <1>1, <1>4, <1>9, QueueElements
  <2>2. Arriving' = Arriving  BY <1>4, <2>1 DEF Arriving
  <2>3. DataInOrder => DataInOrder'  BY <1>1, <1>4, <2>1 DEF DataInOrder
  <2>. QED BY <2>2, <2>3
<1>10. ASSUME NEW p \in Packets, f2h' = Append(f2h, p)
       PROVE  /\ Arriving' = Arriving \cup {p}
              /\ DataInOrder /\ (\A m \in Arriving : m.seq < p.seq) => DataInOrder'
  <2>1. /\ Len(f2h') = Len(f2h) + 1 /\ f2h'[Len(f2h) + 1] = p
        /\ \A i \in 1 .. Len(f2h) : f2h'[i] = f2h[i]
        /\ Range(f2h') = Range(f2h) \cup {p}
    BY <1>1, <1>3, <1>10, QueueElements
  <2>2. Arriving' = Arriving \cup {p}  BY <1>3, <2>1 DEF Arriving
  <2>3. ASSUME DataInOrder, \A m \in Arriving : m.seq < p.seq PROVE DataInOrder'
    <3>1. \A i \in 1 .. Len(f2h) : f2h[i].type = "DATA" => f2h[i].seq < p.seq
      BY <1>1, <2>3, Zenon DEF Arriving
    <3>. QED BY <1>1, <2>1, <2>3, <3>1 DEF DataInOrder
  <2>. QED BY <2>2, <2>3
<1>. QED BY <1>5, <1>6, <1>7, <1>8, <1>9, <1>10

\* What the receive and polling threads send, and what they leave to the main thread.
LEMMA ThreadsSend ==
  ASSUME TypeInv, RecvThread \/ PollThread
  PROVE  /\ app'.pc = app.pc /\ app'.mode = app.mode /\ KeepApp /\ UNCHANGED running
         /\ \/ UNCHANGED h2f
            \/ \E n \in {recv.credit, poll.credit, abs_credit} : SendTo(Credit(n))
<1>1. CASE RecvThread
  <2>1. app' = app \/ \E d : app' = [app EXCEPT !.acked = TRUE, !.data = d]
    BY <1>1 DEF RecvThread, RecvLoop, RecvTimeout, RecvPacket, RecvEqual, RecvGreater, RecvPush,
                RecvStore, RecvDeliver, RecvFlush, RecvAdvance, RecvPurge, RecvDrain, RecvTake,
                RecvCredit, RecvSend, RecvSetCredit
  <2>2. app \in AppRecords  BY DEF TypeInv, AppTypes
  <2>3. app'.pc = app.pc /\ app'.mode = app.mode /\ KeepApp
    BY <2>1, <2>2 DEF AppRecords, KeepApp
  <2>4. UNCHANGED running /\ (UNCHANGED h2f \/ SendTo(Credit(recv.credit)))
    BY <1>1 DEF RecvThread, RecvLoop, RecvTimeout, RecvPacket, RecvEqual, RecvGreater, RecvPush,
                RecvStore, RecvDeliver, RecvFlush, RecvAdvance, RecvPurge, RecvDrain, RecvTake,
                RecvCredit, RecvSend, RecvSetCredit, net, state
  <2>. QED BY <2>3, <2>4
<1>2. CASE PollThread
  <2>1. /\ UNCHANGED <<app, running>>
        /\ UNCHANGED h2f \/ SendTo(Credit(poll.credit)) \/ SendTo(Credit(abs_credit))
    BY <1>2 DEF PollThread, PollSleep, PollCredit, PollSend, PollSetCredit, PollGap, PollPurge,
                PollSkip, PollDrain, PollTake, PollFlush, PollAdvance, PollSkipCredit,
                PollSkipSetCredit, PollKeepAlive, net, state
  <2>. QED BY <2>1 DEF KeepApp
<1>. QED BY <1>1, <1>2

\* What the main thread sends.
LEMMA MainSends ==
  ASSUME AppThread
  PROVE  /\ UNCHANGED <<recv, poll>>
         /\ \/ UNCHANGED h2f \/ SendTo(Credit(abs_credit))
            \/ AppSendCmd
            \/ app.pc = "prompt" /\ SendTo(Credit(WINDOW_SIZE + 1))
BY DEF AppThread, AppSetTimeout, AppDrain, AppReset, AppSendCmd, AppAcked, AppTimeout,
       AppCredit, AppDurationOver, AppShellCmd, AppShellCredit, AppShellQuit, AppStop,
       AppJoin, AppFlush, net

-----------------------------------------------------------------------------
(***************************************************************************)
(* Before the first START is executed nothing arrives and nothing is       *)
(* buffered: reset_state finds what start() left.  That is why it may      *)
(* clear the dict before the heap.                                         *)
(***************************************************************************)
Idle == {"sleep", "credit", "send", "set_credit", "gap", "keepalive", "dead"}

Untouched ==
  /\ ~f_enabled /\ ~f_sending /\ f_seq = 0 /\ Arriving = {}
  /\ recv.pc \in {"loop", "recv", "dead"} /\ recv.io = "none"
  /\ poll.pc \in Idle /\ poll.io = "none"
  /\ ooo_heap = {} /\ out_of_order = {} /\ expected_seq = 0
  /\ delivered = <<>> /\ write_buf = <<>> /\ file = <<>>

FreshInv ==
  /\ app.pc \in Startup => f_session = 0 /\ Commands = {}
  /\ f_session = 0 => Untouched

\* A step of a thread of the host.
LEMMA FreshHost ==
  ASSUME TypeInv, CommandInv, FreshInv, UNCHANGED <<fpgaVars, faults>>,
         RecvThread \/ PollThread \/ AppThread
  PROVE  FreshInv'
<1>1. /\ NetTypes /\ CmdsInOrder /\ UNCHANGED <<f_enabled, f_sending, f_seq, f_session>>
      /\ recv.credit \in Nat /\ poll.credit \in Nat /\ abs_credit \in Nat
  BY DEF TypeInv, CommandInv, fpgaVars, StateTypes, RecvTypes, RecvRecords, PollTypes, PollRecords
<1>2. \A n \in Nat : SendTo(Credit(n)) => Commands' = Commands  BY <1>1, CommandQueue
<1>3. UNCHANGED h2f => Commands' = Commands  BY <1>1, CommandQueue
<1>4. ASSUME app'.pc \in Startup PROVE f_session' = 0 /\ Commands' = {}
  <2>1. CASE RecvThread \/ PollThread
    <3>1. app.pc \in Startup  BY <1>4, <2>1, ThreadsSend
    <3>2. Commands' = Commands  BY <1>1, <1>2, <1>3, <2>1, ThreadsSend
    <3>. QED BY <1>1, <3>1, <3>2 DEF FreshInv
  <2>2. CASE AppThread
    <3>1. app.pc \in Startup /\ ~AppSendCmd /\ app.pc /= "prompt"
      BY <1>4, <2>2, AppFields
      DEF AppThread, AppSetTimeout, AppDrain, AppReset, AppAfter, Startup, ResetNext
    <3>2. Commands' = Commands  BY <1>1, <1>2, <1>3, <2>2, <3>1, MainSends
    <3>. QED BY <1>1, <3>1, <3>2 DEF FreshInv
  <2>. QED BY <2>1, <2>2
<1>5. ASSUME f_session' = 0 PROVE Untouched'
  <2>1. Untouched  BY <1>1, <1>5 DEF FreshInv
  <2>2. UNCHANGED f2h \/ (f2h /= <<>> /\ f2h' = Tail(f2h)) => Arriving' = {}
    BY <1>1, <2>1, DataQueue DEF Untouched
  <2>3. ~(f2h /= <<>> /\ Head(f2h).type = "DATA")  BY <1>1, <2>1, DataQueue DEF Untouched
  <2>4. CASE RecvThread
    <3>1. RecvLoop \/ RecvTimeout \/ RecvPacket
      BY <2>1, <2>4
      DEF Untouched, RecvThread, RecvEqual, RecvGreater, RecvPush, RecvStore, RecvDeliver,
          RecvFlush, RecvAdvance, RecvPurge, RecvDrain, RecvTake, RecvCredit, RecvSend,
          RecvSetCredit
    <3>2. recv'.pc \in {"loop", "recv", "dead"} /\ recv'.io = recv.io
      BY <2>3, <3>1, RecvFields DEF RecvPacket, KeepRecv
    <3>3. UNCHANGED <<poll, ooo_heap, out_of_order, expected_seq, delivered, write_buf, file>>
      BY <3>1 DEF RecvLoop, RecvTimeout, RecvPacket, state, bufVars, output
    <3>4. Arriving' = {}  BY <2>2, <3>1 DEF RecvLoop, RecvTimeout, RecvPacket, net
    <3>. QED BY <1>1, <2>1, <3>2, <3>3, <3>4 DEF Untouched
  <2>5. CASE PollThread
    <3>1. \/ PollSleep \/ PollCredit \/ PollSend \/ PollSetCredit \/ PollGap \/ PollKeepAlive
      BY <2>1, <2>5
      DEF Untouched, Idle, PollThread, PollPurge, PollSkip, PollDrain, PollTake, PollFlush,
          PollAdvance, PollSkipCredit, PollSkipSetCredit
    <3>2. poll'.pc \in Idle /\ poll'.io = poll.io
      BY <2>1, <3>1, PollFields DEF Untouched, Idle, KeepPoll, PollSend
    <3>3. UNCHANGED <<recv, ooo_heap, out_of_order, expected_seq, delivered, write_buf, file, f2h>>
      BY <3>1 DEF PollSleep, PollCredit, PollSend, PollSetCredit, PollGap, PollKeepAlive, SendTo,
                  state, bufVars, output, net
    <3>. QED BY <1>1, <2>1, <2>2, <3>2, <3>3 DEF Untouched
  <2>6. CASE AppThread
    <3>1. UNCHANGED <<recv, poll>>  BY <2>6, MainSends
    <3>2. /\ UNCHANGED f2h \/ (f2h /= <<>> /\ f2h' = Tail(f2h))
          /\ UNCHANGED ooo_heap \/ ooo_heap' = {}
          /\ UNCHANGED out_of_order \/ out_of_order' = {}
          /\ UNCHANGED expected_seq \/ expected_seq' = 0
          /\ UNCHANGED delivered
      BY <2>6 DEF AppThread, AppSetTimeout, AppDrain, AppReset, AppSendCmd, AppAcked, AppTimeout,
                  AppCredit, AppDurationOver, AppShellCmd, AppShellCredit, AppShellQuit, AppStop,
                  AppJoin, AppFlush, SendTo, net, state, bufVars, output
    <3>3. \/ UNCHANGED <<write_buf, file>>
          \/ write_buf' = <<>> /\ file' = file \o write_buf
      BY <2>6 DEF AppThread, AppSetTimeout, AppDrain, AppReset, AppSendCmd, AppAcked, AppTimeout,
                  AppCredit, AppDurationOver, AppShellCmd, AppShellCredit, AppShellQuit, AppStop,
                  AppJoin, AppFlush, output
    <3>4. <<>> \o <<>> = <<>>  BY ConcatEmptySeq, EmptySeq
    <3>5. write_buf' = <<>> /\ file' = <<>>  BY <2>1, <3>3, <3>4 DEF Untouched
    <3>. QED BY <1>1, <2>1, <2>2, <3>1, <3>2, <3>5 DEF Untouched
  <2>. QED BY <2>4, <2>5, <2>6
<1>. QED BY <1>4, <1>5 DEF FreshInv

\* A step of the FPGA or the network.
LEMMA FreshPeer ==
  ASSUME TypeInv, CommandInv, FreshInv, Fpga \/ Lose \/ Overtake
  PROVE  FreshInv'
<1>1. /\ NetTypes /\ FpgaTypes /\ CmdsInOrder /\ f_session \in Nat
  BY DEF TypeInv, CommandInv, FpgaTypes
<1>2. UNCHANGED <<app, recv, poll, ooo_heap, out_of_order, expected_seq, delivered, write_buf, file>>
  BY DEF Fpga, FpgaReceive, FpgaRespond, FpgaBegin, FpgaFinish, Lose, Overtake, hostOnly,
         state, bufVars, output
<1>3. CASE FpgaReceive
  <2> DEFINE p == Head(h2f)
  <2>1. /\ h2f /= <<>> /\ h2f' = Tail(h2f) /\ UNCHANGED f2h  BY <1>3 DEF FpgaReceive
  <2>2. Commands' \subseteq Commands /\ (p.type = "CMD" => p \in Commands) /\ Arriving' = Arriving
    BY <1>1, <2>1, CommandQueue, DataQueue
  <2>3. IF p.type = "CMD" THEN FpgaCmd(p) ELSE FpgaCredit(p)  BY <1>3 DEF FpgaReceive
  <2> HIDE DEF p
  <2>4. CASE p.type = "CMD"
    <3>1. app.pc \notin Startup  BY <2>2, <2>4 DEF FreshInv
    <3>2. ASSUME f_session' = 0 PROVE Untouched'
      <4>1. f_resp /= {} \/ p.opcode /= "START"
        BY <1>1, <2>3, <2>4, <3>2 DEF FpgaCmd
      <4>2. UNCHANGED <<f_sending, f_seq, f_session>> /\ (f_enabled' => f_enabled)
        BY <2>3, <2>4, <4>1, Zenon DEF FpgaCmd, fpgaVars
      <4>3. Untouched  BY <3>2, <4>2 DEF FreshInv
      <4>. QED BY <1>2, <2>2, <4>2, <4>3 DEF Untouched
    <3>. QED BY <1>2, <3>1, <3>2 DEF FreshInv
  <2>5. CASE p.type /= "CMD"
    <3>1. UNCHANGED <<f_enabled, f_sending, f_seq, f_session>>  BY <2>3, <2>5 DEF FpgaCredit
    <3>2. Untouched => Untouched'  BY <1>2, <2>2, <3>1 DEF Untouched
    <3>. QED BY <1>2, <2>2, <3>1, <3>2 DEF FreshInv
  <2>. QED BY <2>4, <2>5
<1>4. CASE FpgaRespond
  <2>1. UNCHANGED <<h2f, f_enabled, f_sending, f_seq, f_session>>  BY <1>4 DEF FpgaRespond
  <2>2. \E r \in Answers : f2h' = Append(f2h, r)  BY <1>1, <1>4 DEF FpgaRespond, FpgaTypes
  <2>3. Arriving' = Arriving /\ Commands' = Commands  BY <1>1, <2>1, <2>2, DataQueue, CommandQueue
  <2>4. Untouched => Untouched'  BY <1>2, <2>1, <2>3 DEF Untouched
  <2>. QED BY <1>2, <2>1, <2>3, <2>4 DEF FreshInv
<1>5. CASE FpgaBegin \/ FpgaFinish
  <2>1. /\ f_session /= 0 /\ UNCHANGED <<f_session, h2f>>
    BY <1>5 DEF FpgaBegin, FpgaFinish, FreshInv, Untouched
  <2>. QED BY <1>2, <2>1 DEF FreshInv
<1>6. CASE Lose
  <2>1. /\ UNCHANGED <<f_enabled, f_sending, f_seq, f_session>>
        /\ \/ f2h /= <<>> /\ f2h' = Tail(f2h) /\ UNCHANGED h2f
           \/ h2f /= <<>> /\ h2f' = Tail(h2f) /\ UNCHANGED f2h
    BY <1>6 DEF Lose, fpgaVars
  <2>2. Commands' \subseteq Commands /\ Arriving' \subseteq Arriving
    BY <1>1, <2>1, CommandQueue, DataQueue
  <2>3. Untouched => Untouched'  BY <1>2, <2>1, <2>2 DEF Untouched
  <2>. QED BY <1>2, <2>1, <2>2, <2>3 DEF FreshInv
<1>7. CASE Overtake
  <2>1. UNCHANGED <<h2f, f_enabled, f_sending, f_seq, f_session>>  BY <1>7 DEF Overtake, fpgaVars
  <2>2. Commands' = Commands  BY <1>1, <2>1, CommandQueue
  <2>3. Arriving = {} => Arriving' = {}
    <3>1. Range(f2h') \subseteq Range(f2h)  BY <1>1, <1>7, OvertakeRange
    <3>. QED BY <3>1 DEF Arriving
  <2>4. Untouched => Untouched'  BY <1>2, <2>1, <2>3 DEF Untouched
  <2>. QED BY <1>2, <2>1, <2>2, <2>4 DEF FreshInv
<1>. QED BY <1>3, <1>4, <1>5, <1>6, <1>7 DEF Fpga

\* The host starts with empty buffers, whatever happens until START is executed.
THEOREM FreshInvariant ==
  ASSUME STALE \subseteq {0}
  PROVE  Spec => []FreshInv
<1>1. Init => FreshInv
  <2> SUFFICES ASSUME Init PROVE FreshInv
    OBVIOUS
  <2>1. f_credit = 0 /\ f_seq = 0 /\ f_sending = FALSE /\ f_session = 0 /\ HostInit  BY DEF Init
  <2>2. ~f_enabled
    <3>1. (0 > 0) = FALSE  OBVIOUS
    <3>2. f_enabled = (0 > 0)  BY <2>1, Zenon DEF Init
    <3>. QED BY <3>1, <3>2, Zenon
  <2>3. Range(h2f) = {} /\ Range(f2h) = {}
    <3>1. \A x : x \notin Range(<<>>)  BY DEF Range
    <3>. QED BY <2>1, <3>1 DEF HostInit
  <2>4. Commands = {} /\ Arriving = {}  BY <2>3 DEF Commands, Arriving
  <2>5. /\ recv.pc = "loop" /\ recv.io = "none" /\ poll.pc = "sleep" /\ poll.io = "none"
        /\ ooo_heap = {} /\ out_of_order = {} /\ expected_seq = 0
        /\ delivered = <<>> /\ write_buf = <<>> /\ file = <<>>
    BY <2>1 DEF HostInit
  <2>. QED BY <2>1, <2>2, <2>4, <2>5 DEF FreshInv, Untouched, Idle
<1>2. TypeInv /\ CommandInv /\ FreshInv /\ [Next]_vars => FreshInv'
  <2>1. FreshInv /\ UNCHANGED vars => FreshInv'
    BY DEF FreshInv, Untouched, Commands, Arriving, vars, hostVars, state, bufVars, output, net,
           fpgaVars
  <2>. QED BY <2>1, FreshHost, FreshPeer DEF Next, Alive
<1>. QED BY <1>1, <1>2, CommandInvariant, PTL DEF Spec

-----------------------------------------------------------------------------
(***************************************************************************)
(* The reorder buffer.  A number leaves the heap before its packet leaves  *)
(* the dict, and in the thread that popped it; only the receive thread     *)
(* adds numbers.  Two threads never have the same number in their hands.   *)
(***************************************************************************)
Buffered == {p.seq : p \in out_of_order}

HeapInv ==
  /\ \A n \in ooo_heap : n \in Buffered \/ (recv.pc = "store" /\ n = recv.pkt.seq)
  /\ recv.pc = "take" => recv.pkt.seq \notin ooo_heap /\ recv.pkt.seq \in Buffered
  /\ poll.pc = "take" =>
       /\ poll.skip_to \notin ooo_heap
       /\ poll.skip_to \in Buffered \/ (recv.pc = "store" /\ poll.skip_to = recv.pkt.seq)
       /\ recv.pc = "take" => recv.pkt.seq /= poll.skip_to

\* The numbers in the dict after each of the operations on it.
LEMMA BufferedSteps ==
  /\ UNCHANGED out_of_order => Buffered' = Buffered
  /\ RecvStore => Buffered' = Buffered \cup {recv.pkt.seq}
  /\ RecvTake => \/ Buffered' = Buffered \ {recv.pkt.seq}
                 \/ recv.pkt.seq \notin Buffered /\ Buffered' = Buffered
  /\ PollTake => \/ poll.skip_to \in Buffered /\ Buffered' = Buffered \ {poll.skip_to}
                 \/ poll.skip_to \notin Buffered /\ Buffered' = Buffered
<1>1. UNCHANGED out_of_order => Buffered' = Buffered  BY DEF Buffered
<1>2. RecvStore => Buffered' = Buffered \cup {recv.pkt.seq}
  <2> SUFFICES ASSUME RecvStore PROVE Buffered' = Buffered \cup {recv.pkt.seq}
    OBVIOUS
  <2>1. out_of_order' = {p \in out_of_order : p.seq /= recv.pkt.seq} \cup {recv.pkt}
    BY DEF RecvStore
  <2>. QED BY <2>1 DEF Buffered
<1>3. RecvTake => \/ Buffered' = Buffered \ {recv.pkt.seq}
                  \/ recv.pkt.seq \notin Buffered /\ Buffered' = Buffered
  <2> SUFFICES ASSUME RecvTake
               PROVE  \/ Buffered' = Buffered \ {recv.pkt.seq}
                      \/ recv.pkt.seq \notin Buffered /\ Buffered' = Buffered
    OBVIOUS
  <2>1. \/ out_of_order' = out_of_order \ {p \in out_of_order : p.seq = recv.pkt.seq}
        \/ {p \in out_of_order : p.seq = recv.pkt.seq} = {} /\ out_of_order' = out_of_order
    BY DEF RecvTake
  <2>. QED BY <2>1 DEF Buffered
<1>4. PollTake => \/ poll.skip_to \in Buffered /\ Buffered' = Buffered \ {poll.skip_to}
                  \/ poll.skip_to \notin Buffered /\ Buffered' = Buffered
  <2> SUFFICES ASSUME PollTake
               PROVE  \/ poll.skip_to \in Buffered /\ Buffered' = Buffered \ {poll.skip_to}
                      \/ poll.skip_to \notin Buffered /\ Buffered' = Buffered
    OBVIOUS
  <2> DEFINE found == {p \in out_of_order : p.seq = poll.skip_to}
  <2>1. \/ found /= {} /\ out_of_order' = out_of_order \ found
        \/ found = {} /\ out_of_order' = out_of_order
    BY DEF PollTake
  <2>. QED BY <2>1 DEF Buffered
<1>. QED BY <1>1, <1>2, <1>3, <1>4

\* A step that leaves the buffer alone and neither enters nor leaves the labels
\* between the two halves of an operation on it.
LEMMA HeapKept ==
  ASSUME HeapInv, UNCHANGED <<ooo_heap, out_of_order>>,
         \/ UNCHANGED recv
         \/ recv'.pc = recv.pc /\ recv'.pkt = recv.pkt
         \/ recv.pc \notin {"store", "take"} /\ recv'.pc \notin {"store", "take"},
         \/ UNCHANGED poll
         \/ poll'.pc = poll.pc /\ poll'.skip_to = poll.skip_to
         \/ poll.pc /= "take" /\ poll'.pc /= "take"
  PROVE  HeapInv'
<1>1. Buffered' = Buffered  BY BufferedSteps
<1>. QED BY <1>1 DEF HeapInv

\* The receive thread's operations on the buffer.
LEMMA HeapRecv ==
  ASSUME TypeInv, HeapInv, RecvThread
  PROVE  HeapInv'
<1>1. ooo_heap \subseteq Nat /\ expected_seq \in Nat  BY DEF TypeInv, StateTypes
<1>2. UNCHANGED poll
  BY DEF RecvThread, RecvLoop, RecvTimeout, RecvPacket, RecvEqual, RecvGreater, RecvPush,
         RecvStore, RecvDeliver, RecvFlush, RecvAdvance, RecvPurge, RecvDrain, RecvTake,
         RecvCredit, RecvSend, RecvSetCredit
<1>3. CASE \/ RecvLoop \/ RecvTimeout \/ RecvPacket \/ RecvEqual \/ RecvGreater \/ RecvDeliver
           \/ RecvFlush \/ RecvAdvance \/ RecvCredit \/ RecvSend \/ RecvSetCredit
  <2>1. UNCHANGED <<ooo_heap, out_of_order>>
    BY <1>3 DEF RecvLoop, RecvTimeout, RecvPacket, RecvEqual, RecvGreater, RecvDeliver,
                RecvFlush, RecvAdvance, RecvCredit, RecvSend, RecvSetCredit, state, bufVars
  <2>2. \/ recv'.pc = recv.pc /\ recv'.pkt = recv.pkt
        \/ recv.pc \notin {"store", "take"} /\ recv'.pc \notin {"store", "take"}
    BY <1>3, RecvFields DEF RecvLoop, RecvTimeout, RecvPacket, RecvEqual, RecvGreater,
       RecvDeliver, RecvAdvance, RecvCredit, RecvSend, RecvSetCredit
  <2>. QED BY <1>2, <2>1, <2>2, HeapKept
<1>4. CASE RecvPush
  <2>1. /\ recv.pc = "push" /\ recv'.pc = "store" /\ recv'.pkt = recv.pkt
        /\ UNCHANGED out_of_order
    BY <1>4, RecvFields DEF RecvPush, KeepRecv
  <2>2. Buffered' = Buffered  BY <2>1, BufferedSteps
  <2>3. \/ ooo_heap' = ooo_heap
        \/ recv.pkt.seq \notin Buffered /\ ooo_heap' = ooo_heap \cup {recv.pkt.seq}
    BY <1>4 DEF RecvPush, Buffered
  <2>. QED BY <1>2, <2>1, <2>2, <2>3 DEF HeapInv
<1>5. CASE RecvStore
  <2>1. recv.pc = "store" /\ recv'.pc = "loop" /\ UNCHANGED ooo_heap
    BY <1>5, RecvFields DEF RecvStore
  <2>2. Buffered' = Buffered \cup {recv.pkt.seq}  BY <1>5, BufferedSteps
  <2>. QED BY <1>2, <2>1, <2>2 DEF HeapInv
<1>6. CASE RecvPurge
  <2>1. /\ recv.pc = "purge" /\ recv'.pc \in {"purge", "drain"} /\ UNCHANGED out_of_order
        /\ ooo_heap' \subseteq ooo_heap
    BY <1>6, RecvFields DEF RecvPurge
  <2>2. Buffered' = Buffered  BY <2>1, BufferedSteps
  <2>. QED BY <1>2, <2>1, <2>2 DEF HeapInv
<1>7. CASE RecvDrain
  <2>1. recv.pc = "drain" /\ UNCHANGED out_of_order  BY <1>7 DEF RecvDrain
  <2>2. Buffered' = Buffered  BY <2>1, BufferedSteps
  <2>3. CASE ooo_heap /= {} /\ HeapMin = expected_seq
    <3>1. HeapMin \in ooo_heap  BY <1>1, <2>3, HeapHead
    <3>2. /\ recv'.pc = "take" /\ recv'.pkt.seq = HeapMin /\ ooo_heap' = ooo_heap \ {HeapMin}
      BY <1>7, <2>3, RecvFields DEF RecvDrain
    <3>. QED BY <1>2, <2>1, <2>2, <3>1, <3>2 DEF HeapInv
  <2>4. CASE ~(ooo_heap /= {} /\ HeapMin = expected_seq)
    <3>1. recv'.pc = "credit" /\ UNCHANGED ooo_heap  BY <1>7, <2>4, RecvFields DEF RecvDrain
    <3>. QED BY <1>2, <2>1, <2>2, <3>1 DEF HeapInv
  <2>. QED BY <2>3, <2>4
<1>8. CASE RecvTake
  <2>1. /\ recv.pc = "take" /\ recv'.pc \in {"dead", "drain_advance"} /\ UNCHANGED ooo_heap
    BY <1>8, RecvFields DEF RecvTake
  <2>2. Buffered' = Buffered \ {recv.pkt.seq} \/ Buffered' = Buffered  BY <1>8, BufferedSteps
  <2>. QED BY <1>2, <2>1, <2>2 DEF HeapInv
<1>. QED BY <1>3, <1>4, <1>5, <1>6, <1>7, <1>8 DEF RecvThread

\* The polling thread's.
LEMMA HeapPoll ==
  ASSUME TypeInv, HeapInv, PollThread
  PROVE  HeapInv'
<1>1. ooo_heap \subseteq Nat /\ expected_seq \in Nat  BY DEF TypeInv, StateTypes
<1>2. UNCHANGED recv
  BY DEF PollThread, PollSleep, PollCredit, PollSend, PollSetCredit, PollGap, PollPurge,
         PollSkip, PollDrain, PollTake, PollFlush, PollAdvance, PollSkipCredit,
         PollSkipSetCredit, PollKeepAlive
<1>3. CASE \/ PollSleep \/ PollCredit \/ PollSend \/ PollSetCredit \/ PollGap \/ PollSkip
           \/ PollFlush \/ PollAdvance \/ PollSkipCredit \/ PollSkipSetCredit \/ PollKeepAlive
  <2>1. UNCHANGED <<ooo_heap, out_of_order>>
    BY <1>3 DEF PollSleep, PollCredit, PollSend, PollSetCredit, PollGap, PollSkip, PollFlush,
                PollAdvance, PollSkipCredit, PollSkipSetCredit, PollKeepAlive, state, bufVars
  <2>2. \/ poll'.pc = poll.pc /\ poll'.skip_to = poll.skip_to
        \/ poll.pc /= "take" /\ poll'.pc /= "take"
    BY <1>3, PollFields DEF PollSleep, PollCredit, PollSend, PollSetCredit, PollGap, PollSkip,
       PollAdvance, PollSkipCredit, PollSkipSetCredit, PollKeepAlive
  <2>. QED BY <1>2, <2>1, <2>2, HeapKept
<1>4. CASE PollPurge
  <2>1. /\ poll.pc = "purge" /\ poll'.pc \in {"sleep", "purge", "skip"} /\ UNCHANGED out_of_order
        /\ ooo_heap' \subseteq ooo_heap
    BY <1>4, PollFields DEF PollPurge
  <2>2. Buffered' = Buffered  BY <2>1, BufferedSteps
  <2>. QED BY <1>2, <2>1, <2>2 DEF HeapInv
<1>5. CASE PollDrain
  <2>1. poll.pc = "drain" /\ UNCHANGED out_of_order  BY <1>5 DEF PollDrain
  <2>2. Buffered' = Buffered  BY <2>1, BufferedSteps
  <2>3. CASE ooo_heap /= {} /\ HeapMin = expected_seq
    <3>1. HeapMin \in ooo_heap  BY <1>1, <2>3, HeapHead
    <3>2. /\ poll'.pc = "take" /\ poll'.skip_to = HeapMin /\ ooo_heap' = ooo_heap \ {HeapMin}
      BY <1>5, <2>3, PollFields DEF PollDrain
    <3>. QED BY <1>2, <2>1, <2>2, <3>1, <3>2 DEF HeapInv
  <2>4. CASE ~(ooo_heap /= {} /\ HeapMin = expected_seq)
    <3>1. poll'.pc = "skip_credit" /\ UNCHANGED ooo_heap  BY <1>5, <2>4, PollFields DEF PollDrain
    <3>. QED BY <1>2, <2>1, <2>2, <3>1 DEF HeapInv
  <2>. QED BY <2>3, <2>4
<1>6. CASE PollTake
  <2>1. /\ poll.pc = "take" /\ poll'.pc \in {"dead", "drain_advance"} /\ UNCHANGED ooo_heap
    BY <1>6, PollFields DEF PollTake
  <2>2. Buffered' = Buffered \ {poll.skip_to} \/ Buffered' = Buffered  BY <1>6, BufferedSteps
  <2>. QED BY <1>2, <2>1, <2>2 DEF HeapInv
<1>. QED BY <1>3, <1>4, <1>5, <1>6 DEF PollThread

\* Neither the FPGA, the network nor, after the start, the main thread touch it.
THEOREM HeapInvariant ==
  ASSUME STALE \subseteq {0}
  PROVE  Spec => []HeapInv
<1>1. Init => HeapInv  BY DEF Init, HostInit, HeapInv
<1>2. TypeInv /\ FreshInv /\ HeapInv /\ [Next]_vars => HeapInv'
  <2> SUFFICES ASSUME TypeInv, FreshInv, HeapInv, [Next]_vars PROVE HeapInv'
    OBVIOUS
  <2>1. CASE RecvThread  BY <2>1, HeapRecv
  <2>2. CASE PollThread  BY <2>2, HeapPoll
  <2>3. CASE AppThread
    <3>1. UNCHANGED <<recv, poll>>  BY <2>3, MainSends
    <3>2. CASE AppReset
      <4>1. Untouched  BY <3>2 DEF AppReset, FreshInv, Startup
      <4>2. ooo_heap' = {}  BY <3>2, <4>1 DEF AppReset, Untouched
      <4>. QED BY <3>1, <4>1, <4>2 DEF HeapInv, Untouched, Idle
    <3>3. CASE ~AppReset
      <4>1. UNCHANGED <<ooo_heap, out_of_order>>
        BY <2>3, <3>3 DEF AppThread, AppSetTimeout, AppDrain, AppSendCmd, AppAcked, AppTimeout,
           AppCredit, AppDurationOver, AppShellCmd, AppShellCredit, AppShellQuit, AppStop,
           AppJoin, AppFlush, state, bufVars
      <4>. QED BY <3>1, <4>1, HeapKept
    <3>. QED BY <3>2, <3>3
  <2>4. CASE Fpga \/ Lose \/ Overtake \/ UNCHANGED vars
    <3>1. UNCHANGED <<ooo_heap, out_of_order, recv, poll>>
      BY <2>4 DEF Fpga, FpgaReceive, FpgaRespond, FpgaBegin, FpgaFinish, Lose, Overtake, hostOnly,
                  vars, hostVars, state, bufVars
    <3>. QED BY <3>1, HeapKept
  <2>. QED BY <2>1, <2>2, <2>3, <2>4 DEF Next
<1>. QED BY <1>1, <1>2, TypeInvariant, FreshInvariant, PTL DEF Spec

\* Whatever the two threads do to the heap and the dict, and in whatever order
\* packets arrive, a number in the heap has its packet in the dict, except
\* between the two statements with which _handle_data stores one.
THEOREM HeapIsBuffered ==
  ASSUME STALE \subseteq {0}
  PROVE  Spec => []HeapEntriesBuffered
<1>1. HeapInv => HeapEntriesBuffered  BY DEF HeapInv, HeapEntriesBuffered, Buffered
<1>. QED BY <1>1, HeapInvariant, PTL

\* out_of_order.pop in _handle_data never raises KeyError: no other thread can
\* have taken the packet whose number the receive thread has popped.
THEOREM ReceiverFindsPacket ==
  ASSUME STALE \subseteq {0}
  PROVE  Spec => [](recv.pc = "take" => \E p \in out_of_order : p.seq = recv.pkt.seq)
<1>1. HeapInv => (recv.pc = "take" => \E p \in out_of_order : p.seq = recv.pkt.seq)
  BY DEF HeapInv, Buffered
<1>. QED BY <1>1, HeapInvariant, PTL
=============================================================================
