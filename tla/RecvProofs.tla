----------------------------- MODULE RecvProofs -----------------------------
(***************************************************************************)
(* The receiver of sw/ludp_recv.c keeps its promises for every window,     *)
(* every size of the reorder buffer and every stream of packets, whatever  *)
(* is lost, repeated or out of order: the credit, the buffer and what is   *)
(* written.                                                                *)
(***************************************************************************)
EXTENDS LudpRecv, FiniteSetTheorems, FunctionTheorems, WellFoundedInduction, TLAPS

Phases == {"stop", "start", "recovery_stop", "recovery_start", "end_stop", "exit", "loop",
           "batch", "write", "credit", "flush", "quiet"}

Scalars ==
  [pc : Phases, attempt : Nat, expected_seq : Nat, abs_credit : Nat, last_credit_seq : Nat,
   highest_seq : Nat, count : Nat, need_nack : BOOLEAN, nack : SUBSET Nat, recoveries : Nat]

RecvTypes ==
  /\ rv \in Scalars
  /\ entries \in [1 .. SLOTS -> SUBSET Nat]
  /\ \A k \in 1 .. SLOTS : \A s, t \in entries[k] : s = t
  /\ saved \in Seq(Nat)

-----------------------------------------------------------------------------
(***************************************************************************)
(* What each action does, in a form the proofs below share: the fields an  *)
(* action leaves alone, and a case for each that it moves.                 *)
(***************************************************************************)

\* The fields of rv that no phase before the loop or after the batch touches.
SameStream ==
  /\ rv'.expected_seq = rv.expected_seq /\ rv'.highest_seq = rv.highest_seq
  /\ entries' = entries /\ saved' = saved /\ rv'.count = rv.count

LEMMA NoEntriesEmpty ==
  NoEntries \in [1 .. SLOTS -> SUBSET Nat] /\ \A k \in 1 .. SLOTS : NoEntries[k] = {}
<1>1. {} \in SUBSET Nat  OBVIOUS
<1>2. NoEntries \in [1 .. SLOTS -> SUBSET Nat]  BY <1>1 DEF NoEntries
<1>3. \A k \in 1 .. SLOTS : NoEntries[k] = {}  BY DEF NoEntries
<1>. QED BY <1>2, <1>3

\* A command ends with a reset, with START acknowledged, or with a jump.
LEMMA CommandCases ==
  ASSUME RecvTypes, NEW ok \in BOOLEAN, SendCmdWaitAck(ok)
  PROVE  /\ RecvTypes'
         /\ \/ /\ rv.pc \in {"stop", "recovery_stop"} /\ rv'.pc \in {"start", "exit", "recovery_start"}
               /\ rv'.expected_seq = 0 /\ rv'.last_credit_seq = 0 /\ rv'.count = 0
               /\ rv'.abs_credit \in {0, RECV_WINDOW} /\ entries' = NoEntries /\ saved' = <<>>
               /\ rv'.nack = rv.nack
            \/ /\ SameStream /\ rv'.last_credit_seq = rv.last_credit_seq /\ rv'.nack = rv.nack
               /\ \/ /\ rv.pc \in {"start", "recovery_start"} /\ rv'.pc = "loop"
                     /\ rv'.abs_credit \in {RECV_WINDOW, rv.abs_credit}
                  \/ rv.pc \in {"start", "end_stop"} /\ rv'.pc = "exit" /\ rv'.abs_credit = rv.abs_credit
                  \/ rv'.pc = rv.pc /\ rv'.abs_credit = rv.abs_credit
<1>. USE RecvAssumption
<1>0. /\ rv \in Scalars
      /\ (rv' \in Scalars /\ UNCHANGED <<entries, saved>>) => RecvTypes'
  BY DEF RecvTypes
<1>1. CASE AfterCmd(ok)
  <2>1. ASSUME NEW pc \in {"start", "exit", "recovery_start"}, NEW credit \in {0, RECV_WINDOW},
               ResetRecv(pc, credit)
        PROVE  /\ RecvTypes' /\ rv'.pc = pc
               /\ rv'.expected_seq = 0 /\ rv'.last_credit_seq = 0 /\ rv'.count = 0
               /\ rv'.abs_credit \in {0, RECV_WINDOW} /\ entries' = NoEntries /\ saved' = <<>>
               /\ rv'.nack = rv.nack
    <3>1. rv' \in Scalars
      <4>1. pc \in Phases /\ credit \in Nat  BY DEF Phases
      <4>. QED BY <1>0, <2>1, <4>1 DEF ResetRecv, Scalars
    <3>2. entries' = NoEntries /\ saved' = <<>>  BY <2>1 DEF ResetRecv
    <3>3. RecvTypes'
      <4>1. <<>> \in Seq(Nat)  OBVIOUS
      <4>2. \A k \in 1 .. SLOTS : \A s, t \in NoEntries[k] : s = t  BY NoEntriesEmpty
      <4>. QED BY <3>1, <3>2, <4>1, <4>2, NoEntriesEmpty DEF RecvTypes
    <3>. QED BY <1>0, <2>1, <3>2, <3>3 DEF ResetRecv, Scalars
  <2>2. ASSUME Started
        PROVE  /\ RecvTypes' /\ rv'.pc = "loop" /\ SameStream /\ rv'.abs_credit = RECV_WINDOW
               /\ rv'.last_credit_seq = rv.last_credit_seq /\ rv'.nack = rv.nack
    BY <1>0, <2>2 DEF Started, SameStream, Scalars, Phases
  <2>3. ASSUME NEW pc \in {"exit", "loop"}, GotoRecv(pc)
        PROVE  /\ RecvTypes' /\ rv'.pc = pc /\ SameStream /\ rv'.abs_credit = rv.abs_credit
               /\ rv'.last_credit_seq = rv.last_credit_seq /\ rv'.nack = rv.nack
    BY <1>0, <2>3 DEF GotoRecv, SameStream, Scalars, Phases
  <2>4. CASE rv.pc = "stop" /\ \E pc \in {"start", "exit"} : ResetRecv(pc, RECV_WINDOW)
    BY <2>1, <2>4
  <2>5. CASE rv.pc = "recovery_stop" /\ ResetRecv("recovery_start", 0)
    BY <2>1, <2>5
  <2>6. CASE rv.pc = "start" /\ (IF ok THEN Started ELSE GotoRecv("exit"))
    BY <2>2, <2>3, <2>6
  <2>7. CASE rv.pc = "recovery_start" /\ (IF ok THEN Started ELSE GotoRecv("loop"))
    BY <2>2, <2>3, <2>7
  <2>8. CASE rv.pc = "end_stop" /\ GotoRecv("exit")
    BY <2>3, <2>8
  <2>. QED BY <1>1, <2>4, <2>5, <2>6, <2>7, <2>8 DEF AfterCmd
<1>2. CASE rv' = [rv EXCEPT !.attempt = @ + 1] /\ UNCHANGED <<entries, saved>>
  <2>1. RecvTypes'  BY <1>0, <1>2 DEF Scalars
  <2>2. SameStream /\ rv'.last_credit_seq = rv.last_credit_seq /\ rv'.nack = rv.nack
    BY <1>0, <1>2 DEF SameStream, Scalars
  <2>3. rv'.pc = rv.pc /\ rv'.abs_credit = rv.abs_credit  BY <1>0, <1>2 DEF Scalars
  <2>. QED BY <2>1, <2>2, <2>3
<1>. QED BY <1>1, <1>2 DEF SendCmdWaitAck

-----------------------------------------------------------------------------
(***************************************************************************)
(* The inductive invariant, in the parts that belong to one promise each.  *)
(***************************************************************************)
Used == {k \in 1 .. SLOTS : entries[k] /= {}}
Waiting == {s \in Buffered : s < rv.expected_seq}

BufferInv ==
  /\ rv.count = Cardinality(Used)
  /\ \A j, k \in 1 .. SLOTS : j /= k => entries[j] \cap entries[k] = {}
  /\ rv.expected_seq \notin Buffered

\* A NACK is for the packet that is missing now, except right after a reset.
NackInv ==
  /\ rv.nack \subseteq {rv.expected_seq} \/ (Buffered = {} /\ saved = <<>>)
  /\ rv.pc = "batch" => rv.nack = {}

SavedInv ==
  /\ Range(saved) \cup Waiting = 0 .. rv.expected_seq - 1
  /\ Len(saved) + Cardinality(Waiting) = rv.expected_seq
  /\ rv.pc \notin {"batch", "write"} => Waiting = {}

\* Between two grants expected_seq may have moved on; the test that lets the next
\* grant pass then holds, because the last one was for a smaller number.
CreditInv ==
  /\ rv.last_credit_seq <= rv.expected_seq
  /\ \/ rv.abs_credit \in {0, rv.expected_seq + RECV_WINDOW}
     \/ /\ rv.last_credit_seq < rv.expected_seq
        /\ rv.abs_credit <= rv.expected_seq + RECV_WINDOW
        /\ rv.pc \in {"batch", "write", "credit"}
  /\ rv.pc \in {"start", "recovery_start"} => rv.expected_seq = 0

RecvInv == RecvTypes /\ BufferInv /\ NackInv /\ SavedInv /\ CreditInv

-----------------------------------------------------------------------------
\* Facts about the buffer.

LEMMA InSlots ==
  ASSUME NEW e, NEW S, e \in [1 .. SLOTS -> S]
  PROVE  \A s : s \in UNION Range(e) <=> \E k \in 1 .. SLOTS : s \in e[k]
  BY DEF Range

LEMMA NothingBuffered ==
  ASSUME entries = NoEntries
  PROVE  Buffered = {} /\ Used = {} /\ Cardinality(Used) = 0 /\ Waiting = {}
                    /\ Cardinality(Waiting) = 0
<1>1. Buffered = {}  BY InSlots, NoEntriesEmpty DEF Buffered
<1>2. Used = {}  BY NoEntriesEmpty DEF Used
<1>3. Waiting = {}  BY <1>1 DEF Waiting
<1>. QED BY <1>1, <1>2, <1>3, FS_EmptySet

LEMMA SlotsFinite ==
  ASSUME RecvTypes
  PROVE  /\ IsFiniteSet(Used) /\ Used \subseteq 1 .. SLOTS /\ Cardinality(Used) \in Nat
         /\ Cardinality(Used) <= SLOTS
         /\ IsFiniteSet(Waiting) /\ Waiting \subseteq 0 .. rv.expected_seq - 1
         /\ Cardinality(Waiting) \in Nat
<1>. SLOTS \in Nat \ {0} /\ rv.expected_seq \in Nat  BY RecvAssumption DEF RecvTypes, Scalars
<1>1. IsFiniteSet(1 .. SLOTS) /\ Cardinality(1 .. SLOTS) = SLOTS  BY FS_Interval
<1>2. Used \in SUBSET (1 .. SLOTS)  BY DEF Used
<1>3. entries \in [1 .. SLOTS -> SUBSET Nat]  BY DEF RecvTypes
<1>4. Waiting \in SUBSET (0 .. rv.expected_seq - 1)
  <2>1. Buffered \subseteq Nat  BY <1>3, InSlots DEF Buffered
  <2>2. \A s \in Nat : s < rv.expected_seq => s \in 0 .. rv.expected_seq - 1  OBVIOUS
  <2>. QED BY <2>1, <2>2 DEF Waiting
<1>5. IsFiniteSet(0 .. rv.expected_seq - 1)  BY FS_Interval
<1>6. IsFiniteSet(Used) /\ Cardinality(Used) <= SLOTS  BY <1>1, <1>2, FS_Subset
<1>7. IsFiniteSet(Waiting)  BY <1>4, <1>5, FS_Subset
<1>. QED BY <1>2, <1>4, <1>6, <1>7, FS_CardinalityType

\* reorder_buffer_insert always finds a free slot when count says that there is
\* one: the return behind its loop is never reached.
LEMMA FreeSlot ==
  ASSUME RecvTypes, BufferInv, rv.count < SLOTS
  PROVE  Free /= {}
<1>1. SUFFICES ASSUME Free = {} PROVE FALSE  OBVIOUS
<1>2. Used = 1 .. SLOTS  BY <1>1 DEF Used, Free
<1>3. Cardinality(1 .. SLOTS) = SLOTS  BY FS_Interval, RecvAssumption
<1>. QED BY <1>2, <1>3, RecvAssumption DEF BufferInv, RecvTypes, Scalars

\* A nonempty set of naturals has a least element.
LEMMA LeastNatural ==
  ASSUME NEW S \in SUBSET Nat, S /= {}
  PROVE  \E n \in S : \A m \in S : n <= m
<1>1. PICK n \in S : \A m \in S : <<m, n>> \notin OpToRel(<, Nat)
  BY NatLessThanWellFounded, WFMin
<1>2. ASSUME NEW m \in S PROVE ~(m < n)
  BY <1>1 DEF OpToRel
<1>3. n \in Nat /\ \A m \in S : m \in Nat  OBVIOUS
<1>. QED BY <1>2, <1>3

\* There are at most SLOTS numbers in the buffer.
LEMMA BufferedFits ==
  ASSUME RecvTypes
  PROVE  IsFiniteSet(Buffered) /\ Cardinality(Buffered) <= SLOTS /\ Buffered \subseteq Nat
<1>1. entries \in [1 .. SLOTS -> SUBSET Nat] /\ SLOTS \in Nat
  BY RecvAssumption DEF RecvTypes
<1>2. \A s : s \in Buffered <=> \E k \in 1 .. SLOTS : s \in entries[k]
  BY <1>1, InSlots DEF Buffered
<1>. DEFINE slot == [s \in Buffered |-> CHOOSE k \in 1 .. SLOTS : s \in entries[k]]
<1>3. \A s \in Buffered : slot[s] \in 1 .. SLOTS /\ s \in entries[slot[s]]
  BY <1>2
<1>4. slot \in [Buffered -> 1 .. SLOTS]  BY <1>3
<1>. HIDE DEF slot
<1>5. \A s, t \in Buffered : slot[s] = slot[t] => s = t  BY <1>3 DEF RecvTypes
<1>6. slot \in Injection(Buffered, 1 .. SLOTS)  BY <1>4, <1>5, Fun_IsInj
<1>7. IsFiniteSet(1 .. SLOTS) /\ Cardinality(1 .. SLOTS) = SLOTS  BY <1>1, FS_Interval
<1>. QED BY <1>1, <1>2, <1>6, <1>7, FS_Injection

\* The loop that advances expected_seq ends after at most SLOTS steps, so that the
\* bound in ReceiveInOrder leaves out nothing.
LEMMA MissingExists ==
  ASSUME RecvTypes, NEW seq \in Nat
  PROVE  \E next \in seq + 1 .. seq + 1 + SLOTS : NextMissing(next, seq)
<1>. DEFINE range == seq + 1 .. seq + 1 + SLOTS
            missing == range \ Buffered
<1>1. SLOTS \in Nat  BY RecvAssumption
<1>2. IsFiniteSet(range) /\ Cardinality(range) = SLOTS + 1
  <2>1. seq + 1 \in Int /\ seq + 1 + SLOTS \in Int /\ ~(seq + 1 > seq + 1 + SLOTS)  BY <1>1
  <2>. QED BY <1>1, <2>1, FS_Interval
<1>3. missing /= {}
  <2>1. SUFFICES ASSUME missing = {} PROVE FALSE  OBVIOUS
  <2>2. range \in SUBSET Buffered  BY <2>1
  <2>3. Cardinality(range) <= Cardinality(Buffered) /\ Cardinality(Buffered) \in Nat
    BY <2>2, BufferedFits, FS_Subset, FS_CardinalityType
  <2>. QED BY <1>1, <1>2, <2>3, BufferedFits
<1>4. PICK next \in missing : \A m \in missing : next <= m
  <2>1. missing \in SUBSET Nat  BY <1>1
  <2>. QED BY <1>3, <2>1, LeastNatural
<1>5. seq + 1 .. next - 1 \subseteq Buffered
  <2>1. ASSUME NEW n \in seq + 1 .. next - 1 PROVE n \in range /\ ~(next <= n)
    BY <1>1, <1>4
  <2>. QED BY <1>4, <2>1
<1>. QED BY <1>4, <1>5 DEF NextMissing

\* A step that leaves stream and buffer alone.
LEMMA StreamSame ==
  ASSUME SameStream
  PROVE  /\ Buffered' = Buffered /\ Used' = Used /\ Waiting' = Waiting
         /\ BufferInv => BufferInv'
         /\ SavedInv /\ Waiting = {} => SavedInv'
         /\ SavedInv /\ rv'.pc \in {"batch", "write"} => SavedInv'
         /\ NackInv /\ rv'.nack \subseteq rv.nack /\ rv'.pc /= "batch" => NackInv'
<1>1. Buffered' = Buffered /\ Used' = Used  BY DEF SameStream, Buffered, Used
<1>2. Waiting' = Waiting  BY <1>1 DEF SameStream, Waiting
<1>. QED BY <1>1, <1>2 DEF SameStream, BufferInv, SavedInv, NackInv

LEMMA AppendToFile ==
  ASSUME NEW f \in Seq(Nat), NEW n \in Nat
  PROVE  /\ Append(f, n) \in Seq(Nat) /\ Len(Append(f, n)) = Len(f) + 1 /\ Len(f) \in Nat
         /\ Range(Append(f, n)) = Range(f) \cup {n}
<1>. DEFINE g == Append(f, n)
<1>1. g \in Seq(Nat) /\ Len(g) = Len(f) + 1 /\ Len(f) \in Nat  OBVIOUS
<1>2. g[Len(f) + 1] = n /\ \A i \in 1 .. Len(f) : g[i] = f[i]  OBVIOUS
<1>3. DOMAIN f = 1 .. Len(f) /\ DOMAIN g = 1 .. Len(f) + 1  BY <1>1
<1>. HIDE DEF g
<1>4. ASSUME NEW x PROVE x \in Range(g) <=> x \in Range(f) \cup {n}
  <2>1. x \in Range(g) <=> \E i \in 1 .. Len(f) + 1 : x = g[i]  BY <1>3 DEF Range
  <2>2. x \in Range(f) <=> \E i \in 1 .. Len(f) : x = f[i]  BY <1>3 DEF Range
  <2>3. 1 .. Len(f) + 1 = (1 .. Len(f)) \cup {Len(f) + 1}  BY <1>1
  <2>. QED BY <1>2, <2>1, <2>2, <2>3
<1>. QED BY <1>1, <1>4 DEF g

-----------------------------------------------------------------------------
(***************************************************************************)
(* One lemma per action.                                                   *)
(***************************************************************************)
LEMMA CommandKeeps ==
  ASSUME RecvInv, NEW ok \in BOOLEAN, SendCmdWaitAck(ok)
  PROVE  RecvInv'
<1>1. RecvTypes /\ RecvTypes' /\ rv.pc \notin {"batch", "write"} /\ RECV_WINDOW \in Nat
  BY CommandCases, RecvAssumption DEF RecvInv, SendCmdWaitAck
<1>2. CASE /\ rv.pc \in {"stop", "recovery_stop"} /\ rv'.pc \in {"start", "exit", "recovery_start"}
           /\ rv'.expected_seq = 0 /\ rv'.last_credit_seq = 0 /\ rv'.count = 0
           /\ rv'.abs_credit \in {0, RECV_WINDOW} /\ entries' = NoEntries /\ saved' = <<>>
  <2>1. Buffered' = {}  BY <1>2, InSlots, NoEntriesEmpty DEF Buffered
  <2>2. Used' = {} /\ Waiting' = {}  BY <1>2, <2>1, NoEntriesEmpty DEF Used, Waiting
  <2>3. BufferInv'  BY <1>2, <2>1, <2>2, NoEntriesEmpty, FS_EmptySet DEF BufferInv
  <2>4. NackInv'  BY <1>2, <2>1 DEF NackInv
  <2>5. SavedInv'
    <3>1. Range(<<>>) = {} /\ Len(<<>>) = 0 /\ 0 .. 0 - 1 = {}  BY DEF Range
    <3>. QED BY <1>2, <2>2, <3>1, FS_EmptySet DEF SavedInv
  <2>6. CreditInv'  BY <1>1, <1>2 DEF CreditInv
  <2>. QED BY <1>1, <2>3, <2>4, <2>5, <2>6 DEF RecvInv
<1>3. CASE /\ SameStream /\ rv'.last_credit_seq = rv.last_credit_seq /\ rv'.nack = rv.nack
           /\ \/ /\ rv.pc \in {"start", "recovery_start"} /\ rv'.pc = "loop"
                 /\ rv'.abs_credit \in {RECV_WINDOW, rv.abs_credit}
              \/ rv.pc \in {"start", "end_stop"} /\ rv'.pc = "exit" /\ rv'.abs_credit = rv.abs_credit
              \/ rv'.pc = rv.pc /\ rv'.abs_credit = rv.abs_credit
  <2>1. Waiting = {} /\ rv'.pc /= "batch"  BY <1>1, <1>3 DEF RecvInv, SavedInv
  <2>2. BufferInv' /\ NackInv' /\ SavedInv'  BY <1>3, <2>1, StreamSame DEF RecvInv
  <2>3. CreditInv'
    <3>1. /\ rv'.expected_seq = rv.expected_seq /\ rv.expected_seq \in Nat
          /\ rv.last_credit_seq \in Nat
      BY <1>1, <1>3 DEF SameStream, RecvTypes, Scalars
    <3>2. rv.pc \in {"start", "recovery_start"} => rv.expected_seq = 0
      BY DEF RecvInv, CreditInv
    <3>3. /\ rv.last_credit_seq <= rv.expected_seq
          /\ rv.abs_credit \in {0, rv.expected_seq + RECV_WINDOW} \/ rv.pc = "credit"
      BY <1>1 DEF RecvInv, CreditInv
    <3>4. rv.pc /= "credit"  BY DEF SendCmdWaitAck
    <3>. QED BY <1>1, <1>3, <3>1, <3>2, <3>3, <3>4 DEF CreditInv
  <2>. QED BY <1>1, <2>2, <2>3 DEF RecvInv
<1>. QED BY <1>1, <1>2, <1>3, CommandCases

LEMMA LoopTopKeeps ==
  ASSUME RecvInv, LoopTop
  PROVE  RecvInv'
<1>1. rv \in Scalars /\ rv.pc = "loop"  BY DEF RecvInv, RecvTypes, LoopTop
<1>2. PICK pc \in {"batch", "end_stop"} :
        rv' = [rv EXCEPT !.pc = pc, !.need_nack = FALSE, !.nack = {}]
  BY DEF LoopTop
<1>3. rv' \in Scalars  BY <1>1, <1>2 DEF Scalars, Phases
<1>4. /\ SameStream /\ rv'.nack = {} /\ rv'.pc = pc
      /\ rv'.abs_credit = rv.abs_credit /\ rv'.last_credit_seq = rv.last_credit_seq
  BY <1>1, <1>2 DEF Scalars, SameStream, LoopTop
<1>5. RecvTypes'  BY <1>3, <1>4 DEF RecvInv, RecvTypes, SameStream
<1>6. Waiting = {}  BY <1>1 DEF RecvInv, SavedInv
<1>7. BufferInv' /\ SavedInv'  BY <1>4, <1>6, StreamSame DEF RecvInv
<1>8. NackInv'  BY <1>4 DEF NackInv
<1>9. CreditInv'  BY <1>1, <1>4 DEF RecvInv, CreditInv, SameStream
<1>. QED BY <1>5, <1>7, <1>8, <1>9 DEF RecvInv

\* A packet in order: what is buffered right behind it now waits to be written.
LEMMA InOrderKeeps ==
  ASSUME RecvInv, NEW seq \in RECV_SEQS, rv.pc = "batch", ReceiveInOrder(seq)
  PROVE  RecvInv'
<1>. DEFINE e == rv.expected_seq
<1>1. /\ rv \in Scalars /\ e \in Nat /\ rv.pc = "batch" /\ SLOTS \in Nat /\ RECV_WINDOW \in Nat
      /\ rv.last_credit_seq \in Nat /\ rv.highest_seq \in Nat /\ seq \in Nat
  BY RecvAssumption DEF RecvInv, RecvTypes, Scalars, ReceiveInOrder
<1>2. PICK next \in seq + 1 .. seq + 1 + SLOTS :
        /\ NextMissing(next, seq)
        /\ rv' = [rv EXCEPT !.expected_seq = next,
                            !.highest_seq = IF seq > @ THEN seq ELSE @]
  BY DEF ReceiveInOrder
<1>3. saved' = Append(saved, seq) /\ entries' = entries /\ seq = e  BY DEF ReceiveInOrder
<1>4. next \in Nat /\ next >= e + 1  BY <1>1, <1>2, <1>3
<1>5. rv' \in Scalars
  <2>1. (IF seq > rv.highest_seq THEN seq ELSE rv.highest_seq) \in Nat  BY <1>1
  <2>. QED BY <1>1, <1>2, <1>4, <2>1 DEF Scalars
<1>6. /\ rv'.expected_seq = next /\ rv'.count = rv.count /\ rv'.nack = rv.nack /\ rv'.pc = "batch"
      /\ rv'.abs_credit = rv.abs_credit /\ rv'.last_credit_seq = rv.last_credit_seq
  BY <1>1, <1>2 DEF Scalars
<1>7. /\ saved' \in Seq(Nat) /\ Len(saved') = Len(saved) + 1 /\ Len(saved) \in Nat
      /\ Range(saved') = Range(saved) \cup {e}
  BY <1>1, <1>3, AppendToFile DEF RecvInv, RecvTypes
<1>8. RecvTypes'  BY <1>3, <1>5, <1>7 DEF RecvInv, RecvTypes
<1>9. Buffered' = Buffered /\ Used' = Used /\ Buffered \subseteq Nat
  <2>1. entries \in [1 .. SLOTS -> SUBSET Nat]  BY DEF RecvInv, RecvTypes
  <2>. QED BY <1>3, <2>1, InSlots DEF Buffered, Used
<1>10. e \notin Buffered /\ next \notin Buffered /\ e + 1 .. next - 1 \subseteq Buffered
  BY <1>2, <1>3 DEF RecvInv, BufferInv, NextMissing
<1>11. BufferInv'  BY <1>3, <1>6, <1>9, <1>10 DEF RecvInv, BufferInv
<1>12. NackInv'  BY <1>1, <1>6 DEF RecvInv, NackInv
<1>13. Waiting' = Waiting \cup (e + 1 .. next - 1)
  <2>1. \A s \in Nat : s < next <=> s < e \/ s = e \/ s \in e + 1 .. next - 1
    BY <1>1, <1>4
  <2>. QED BY <1>1, <1>4, <1>6, <1>9, <1>10, <2>1 DEF Waiting
<1>14. Waiting \cap (e + 1 .. next - 1) = {}
  BY <1>1, <1>4, SlotsFinite DEF RecvInv
<1>15. Cardinality(Waiting') = Cardinality(Waiting) + (next - 1 - e)
  <2>1. /\ IsFiniteSet(e + 1 .. next - 1)
        /\ Cardinality(e + 1 .. next - 1) = IF e + 1 > next - 1 THEN 0 ELSE (next - 1) - (e + 1) + 1
    <3>1. e + 1 \in Int /\ next - 1 \in Int  BY <1>1, <1>4
    <3>. QED BY <3>1, FS_Interval
  <2>2. IsFiniteSet(Waiting) /\ Cardinality(Waiting) \in Nat  BY SlotsFinite DEF RecvInv
  <2>3. Cardinality(Waiting') = Cardinality(Waiting) + Cardinality(e + 1 .. next - 1)
                                 - Cardinality(Waiting \cap (e + 1 .. next - 1))
    BY <1>13, <2>1, <2>2, FS_Union
  <2>4. Cardinality(Waiting \cap (e + 1 .. next - 1)) = 0  BY <1>14, FS_EmptySet
  <2>5. Cardinality(e + 1 .. next - 1) = next - 1 - e  BY <1>1, <1>4, <2>1
  <2>. QED BY <1>1, <1>4, <2>2, <2>3, <2>4, <2>5
<1>16. SavedInv'
  <2>1. Range(saved') \cup Waiting' = 0 .. next - 1
    <3>1. 0 .. next - 1 = (0 .. e - 1) \cup {e} \cup (e + 1 .. next - 1)  BY <1>1, <1>4
    <3>. QED BY <1>7, <1>13, <3>1 DEF RecvInv, SavedInv
  <2>2. Len(saved') + Cardinality(Waiting') = next
    <3>1. Cardinality(Waiting) \in Nat /\ Len(saved) + Cardinality(Waiting) = e
      BY SlotsFinite DEF RecvInv, SavedInv
    <3>2. ASSUME NEW a \in Nat, NEW c \in Nat, a + c = e
          PROVE  a + 1 + (c + (next - 1 - e)) = next
      BY <1>1, <1>4, <3>2
    <3>. QED BY <1>7, <1>15, <3>1, <3>2
  <2>. QED BY <1>6, <2>1, <2>2 DEF SavedInv
<1>17. CreditInv'
  <2>1. rv.last_credit_seq <= e /\ rv.abs_credit \in {0} \cup {n \in Nat : n <= e + RECV_WINDOW}
    BY <1>1 DEF RecvInv, CreditInv, RecvTypes, Scalars
  <2>2. rv.abs_credit = 0 \/ rv.abs_credit <= next + RECV_WINDOW  BY <1>1, <1>4, <2>1
  <2>. QED BY <1>1, <1>4, <1>6, <2>1, <2>2 DEF CreditInv
<1>. QED BY <1>8, <1>11, <1>12, <1>16, <1>17 DEF RecvInv

\* A packet ahead of a gap takes a free slot, unless it has one or there is none.
LEMMA AheadKeeps ==
  ASSUME RecvInv, NEW seq \in RECV_SEQS, rv.pc = "batch", ReceiveAhead(seq)
  PROVE  RecvInv'
<1>1. /\ rv \in Scalars /\ rv.highest_seq \in Nat /\ seq \in Nat /\ rv.count \in Nat
      /\ entries \in [1 .. SLOTS -> SUBSET Nat] /\ SLOTS \in Nat
  BY RecvAssumption DEF RecvInv, RecvTypes, Scalars
<1>2. /\ seq > rv.expected_seq /\ saved' = saved
      /\ rv' = [rv EXCEPT !.need_nack = TRUE, !.highest_seq = IF seq > @ THEN seq ELSE @,
                          !.count = IF entries' = entries THEN @ ELSE @ + 1]
  BY DEF ReceiveAhead
<1>3. rv' \in Scalars
  <2>1. (IF seq > rv.highest_seq THEN seq ELSE rv.highest_seq) \in Nat  BY <1>1
  <2>2. (IF entries' = entries THEN rv.count ELSE rv.count + 1) \in Nat  BY <1>1
  <2>. QED BY <1>1, <1>2, <2>1, <2>2 DEF Scalars
<1>4. /\ rv'.expected_seq = rv.expected_seq /\ rv'.nack = rv.nack /\ rv'.pc = "batch"
      /\ rv'.abs_credit = rv.abs_credit /\ rv'.last_credit_seq = rv.last_credit_seq
      /\ rv'.count = IF entries' = entries THEN rv.count ELSE rv.count + 1
  BY <1>1, <1>2 DEF Scalars
<1>5. CreditInv'  BY <1>4 DEF RecvInv, CreditInv
<1>6. NackInv'  BY <1>4 DEF RecvInv, NackInv
<1>7. CASE entries' = entries
  <2>1. Buffered' = Buffered /\ Used' = Used /\ Waiting' = Waiting
    BY <1>4, <1>7 DEF Buffered, Used, Waiting
  <2>2. RecvTypes'  BY <1>2, <1>3, <1>7 DEF RecvInv, RecvTypes
  <2>3. BufferInv' /\ SavedInv'
    BY <1>2, <1>4, <1>7, <2>1 DEF RecvInv, BufferInv, SavedInv
  <2>. QED BY <1>5, <1>6, <2>2, <2>3 DEF RecvInv
<1>8. CASE entries' /= entries
  <2>1. seq \notin Buffered  BY <1>8 DEF ReceiveAhead, ReorderBufferInsert
  <2>2. PICK k \in 1 .. SLOTS : FirstOf(k, Free) /\ entries' = [entries EXCEPT ![k] = {seq}]
    BY <1>8 DEF ReceiveAhead, ReorderBufferInsert
  <2>3. entries[k] = {}  BY <2>2 DEF FirstOf, Free
  <2>4. /\ entries' \in [1 .. SLOTS -> SUBSET Nat] /\ entries'[k] = {seq}
        /\ \A j \in 1 .. SLOTS : j /= k => entries'[j] = entries[j]
    BY <1>1, <2>2
  <2>5. RecvTypes'  BY <1>2, <1>3, <2>4 DEF RecvInv, RecvTypes
  <2>6. \A s : s \in Buffered' <=> s \in Buffered \/ s = seq
    <3>1. \A s : s \in Buffered <=> \E j \in 1 .. SLOTS : s \in entries[j]
      BY <1>1, InSlots DEF Buffered
    <3>2. \A s : s \in Buffered' <=> \E j \in 1 .. SLOTS : s \in entries'[j]
      BY <2>4, InSlots DEF Buffered
    <3>. QED BY <2>3, <2>4, <3>1, <3>2
  <2>7. Used' = Used \cup {k} /\ k \notin Used  BY <2>3, <2>4 DEF Used
  <2>8. rv'.count = Cardinality(Used')
    <3>1. IsFiniteSet(Used)  BY SlotsFinite DEF RecvInv
    <3>2. Cardinality(Used \cup {k}) = Cardinality(Used) + 1  BY <2>7, <3>1, FS_AddElement
    <3>3. rv.count = Cardinality(Used)  BY DEF RecvInv, BufferInv
    <3>. QED BY <1>4, <1>8, <2>7, <3>2, <3>3
  <2>9. \A i, j \in 1 .. SLOTS : i /= j => entries'[i] \cap entries'[j] = {}
    <3>1. \A j \in 1 .. SLOTS : seq \notin entries[j]  BY <1>1, <2>1, InSlots DEF Buffered
    <3>. QED BY <2>4, <3>1 DEF RecvInv, BufferInv
  <2>10. rv.expected_seq \notin Buffered /\ rv.expected_seq /= seq
    BY <1>1, <1>2 DEF RecvInv, BufferInv, Scalars
  <2>11. BufferInv'  BY <1>4, <2>6, <2>8, <2>9, <2>10 DEF BufferInv
  <2>12. Waiting' = Waiting
    <3>1. ~(seq < rv.expected_seq)  BY <1>1, <1>2 DEF Scalars
    <3>. QED BY <1>4, <2>6, <3>1 DEF Waiting
  <2>13. SavedInv'  BY <1>2, <1>4, <2>12 DEF RecvInv, SavedInv
  <2>. QED BY <1>5, <1>6, <2>5, <2>11, <2>13 DEF RecvInv
<1>. QED BY <1>7, <1>8

LEMMA EndOfBatchKeeps ==
  ASSUME RecvInv, EndOfBatch
  PROVE  RecvInv'
<1>1. rv \in Scalars /\ rv.expected_seq \in Nat  BY DEF RecvInv, RecvTypes, Scalars
<1>2. PICK due \in BOOLEAN :
        rv' = [rv EXCEPT !.pc = "write",
                         !.nack = IF rv.need_nack /\ due THEN {rv.expected_seq} ELSE {}]
  BY DEF EndOfBatch
<1>3. rv' \in Scalars
  <2>1. (IF rv.need_nack /\ due THEN {rv.expected_seq} ELSE {}) \in SUBSET Nat  BY <1>1
  <2>2. "write" \in Phases  BY DEF Phases
  <2>. QED BY <1>1, <1>2, <2>1, <2>2 DEF Scalars
<1>4. /\ SameStream /\ rv'.nack \subseteq {rv.expected_seq} /\ rv'.pc = "write"
      /\ rv'.abs_credit = rv.abs_credit /\ rv'.last_credit_seq = rv.last_credit_seq
  BY <1>1, <1>2 DEF Scalars, SameStream, EndOfBatch
<1>5. RecvTypes'  BY <1>3, <1>4 DEF RecvInv, RecvTypes, SameStream
<1>6. BufferInv' /\ SavedInv'  BY <1>4, StreamSame DEF RecvInv
<1>7. NackInv'  BY <1>4 DEF NackInv, SameStream
<1>8. CreditInv'  BY <1>4 DEF RecvInv, CreditInv, SameStream
<1>. QED BY <1>5, <1>6, <1>7, <1>8 DEF RecvInv

\* A slot whose packet has become part of the stream: from the buffer to the file.
LEMMA WriteSlotKeeps ==
  ASSUME RecvInv, rv.pc = "write", NEW k \in 1 .. SLOTS, NEW s \in Buffered,
         FirstOf(k, Ready), s \in entries[k], saved' = Append(saved, s),
         entries' = [entries EXCEPT ![k] = {}], rv' = [rv EXCEPT !.count = @ - 1]
  PROVE  RecvInv'
<1>. DEFINE e == rv.expected_seq
<1>1. /\ rv \in Scalars /\ e \in Nat /\ rv.count \in Nat
      /\ entries \in [1 .. SLOTS -> SUBSET Nat]
  BY DEF RecvInv, RecvTypes, Scalars
<1>2. entries[k] = {s} /\ s \in Nat /\ s < e
  <2>1. PICK t \in entries[k] : t < e  BY DEF FirstOf, Ready
  <2>. QED BY <1>1, <2>1 DEF RecvInv, RecvTypes
<1>3. /\ entries' \in [1 .. SLOTS -> SUBSET Nat] /\ entries'[k] = {}
      /\ \A j \in 1 .. SLOTS : j /= k => entries'[j] = entries[j]
  <2>1. {} \in SUBSET Nat  OBVIOUS
  <2>. QED BY <1>1, <2>1
<1>4. \A j \in 1 .. SLOTS : j /= k => s \notin entries[j]
  BY <1>2 DEF RecvInv, BufferInv
<1>5. \A t : t \in Buffered' <=> t \in Buffered /\ t /= s
  <2>1. \A t : t \in Buffered <=> \E j \in 1 .. SLOTS : t \in entries[j]
    BY <1>1, InSlots DEF Buffered
  <2>2. \A t : t \in Buffered' <=> \E j \in 1 .. SLOTS : t \in entries'[j]
    BY <1>3, InSlots DEF Buffered
  <2>. QED BY <1>2, <1>3, <1>4, <2>1, <2>2
<1>6. Used' = Used \ {k} /\ k \in Used  BY <1>2, <1>3 DEF Used
<1>7. IsFiniteSet(Used) /\ IsFiniteSet(Waiting) /\ Cardinality(Waiting) \in Nat
  BY SlotsFinite DEF RecvInv
<1>8. Cardinality(Used') = rv.count - 1 /\ rv.count - 1 \in Nat
  <2>1. Cardinality(Used') = Cardinality(Used) - 1  BY <1>6, <1>7, FS_RemoveElement
  <2>2. Cardinality(Used') \in Nat  BY <1>6, <1>7, FS_RemoveElement, FS_CardinalityType
  <2>. QED BY <2>1, <2>2 DEF RecvInv, BufferInv
<1>9. rv' \in Scalars  BY <1>1, <1>8 DEF Scalars
<1>10. /\ rv'.expected_seq = e /\ rv'.nack = rv.nack /\ rv'.pc = "write" /\ rv'.count = rv.count - 1
       /\ rv'.abs_credit = rv.abs_credit /\ rv'.last_credit_seq = rv.last_credit_seq
  BY <1>1 DEF Scalars
<1>11. /\ saved' \in Seq(Nat) /\ Len(saved') = Len(saved) + 1 /\ Len(saved) \in Nat
       /\ Range(saved') = Range(saved) \cup {s}
  BY <1>2, AppendToFile DEF RecvInv, RecvTypes
<1>12. RecvTypes'  BY <1>3, <1>9, <1>11 DEF RecvInv, RecvTypes
<1>13. BufferInv'  BY <1>3, <1>5, <1>8, <1>10 DEF RecvInv, BufferInv
<1>14. NackInv'
  <2>1. rv.nack \subseteq {e}  BY DEF RecvInv, NackInv
  <2>. QED BY <1>10, <2>1 DEF NackInv
<1>15. Waiting' = Waiting \ {s} /\ s \in Waiting  BY <1>2, <1>5, <1>10 DEF Waiting
<1>16. SavedInv'
  <2>1. Range(saved') \cup Waiting' = 0 .. e - 1  BY <1>11, <1>15 DEF RecvInv, SavedInv
  <2>2. Cardinality(Waiting') = Cardinality(Waiting) - 1  BY <1>7, <1>15, FS_RemoveElement
  <2>3. Len(saved) + Cardinality(Waiting) = e  BY DEF RecvInv, SavedInv
  <2>4. Len(saved') + Cardinality(Waiting') = e  BY <1>7, <1>11, <2>2, <2>3
  <2>. QED BY <1>10, <2>1, <2>4 DEF SavedInv
<1>17. CreditInv'  BY <1>10 DEF RecvInv, CreditInv
<1>. QED BY <1>12, <1>13, <1>14, <1>16, <1>17 DEF RecvInv

LEMMA WriteReorderedKeeps ==
  ASSUME RecvInv, WriteReordered
  PROVE  RecvInv'
<1>1. CASE Ready = {} /\ rv' = [rv EXCEPT !.pc = "credit"] /\ UNCHANGED <<entries, saved>>
  <2>1. /\ rv \in Scalars /\ rv.pc = "write" /\ entries \in [1 .. SLOTS -> SUBSET Nat]
    BY DEF RecvInv, RecvTypes, WriteReordered
  <2>2. rv' \in Scalars  BY <1>1, <2>1 DEF Scalars, Phases
  <2>3. /\ SameStream /\ rv'.pc = "credit" /\ rv'.nack = rv.nack
        /\ rv'.abs_credit = rv.abs_credit /\ rv'.last_credit_seq = rv.last_credit_seq
    BY <1>1, <2>1 DEF SameStream, Scalars
  <2>4. Waiting = {}
    <3>1. ASSUME NEW s \in Buffered, s < rv.expected_seq PROVE FALSE
      <4>1. PICK k \in 1 .. SLOTS : s \in entries[k]  BY <2>1, InSlots DEF Buffered
      <4>. QED BY <1>1, <3>1, <4>1 DEF Ready
    <3>. QED BY <3>1 DEF Waiting
  <2>5. RecvTypes'  BY <2>2, <2>3 DEF RecvInv, RecvTypes, SameStream
  <2>6. BufferInv' /\ SavedInv' /\ NackInv'  BY <2>3, <2>4, StreamSame DEF RecvInv
  <2>7. CreditInv'  BY <2>1, <2>3 DEF RecvInv, CreditInv, SameStream
  <2>. QED BY <2>5, <2>6, <2>7 DEF RecvInv
<1>. QED BY <1>1, WriteSlotKeeps DEF WriteReordered

\* A grant is for all of the window, and none is missed: if it is not due by the
\* timer and not fresh, the last one was for the same number.
LEMMA CreditUpdateKeeps ==
  ASSUME RecvInv, NEW due \in BOOLEAN, CreditUpdate(due)
  PROVE  RecvInv'
<1>. DEFINE new_credit == rv.expected_seq + RECV_WINDOW
            fresh == rv.expected_seq /= rv.last_credit_seq /\ new_credit > rv.abs_credit
            abs_credit == IF fresh \/ due THEN new_credit ELSE rv.abs_credit
            last_credit_seq == IF fresh THEN rv.expected_seq ELSE rv.last_credit_seq
<1>1. /\ rv \in Scalars /\ rv.pc = "credit" /\ rv.expected_seq \in Nat /\ rv.abs_credit \in Nat
      /\ rv.last_credit_seq \in Nat /\ RECV_WINDOW \in Nat \ {0}
  BY RecvAssumption DEF RecvInv, RecvTypes, Scalars, CreditUpdate
<1>2. /\ rv' = [rv EXCEPT !.pc = "flush", !.abs_credit = abs_credit,
                          !.last_credit_seq = last_credit_seq]
      /\ UNCHANGED <<entries, saved>>
  BY DEF CreditUpdate
<1>3. /\ abs_credit \in Nat /\ last_credit_seq \in Nat /\ last_credit_seq <= rv.expected_seq
      /\ abs_credit \in {0, new_credit}
  <2>1. /\ rv.last_credit_seq <= rv.expected_seq
        /\ \/ rv.abs_credit \in {0, new_credit}
           \/ rv.last_credit_seq < rv.expected_seq /\ rv.abs_credit <= new_credit
    BY DEF RecvInv, CreditInv
  <2>. QED BY <1>1, <2>1
<1>. HIDE DEF abs_credit, last_credit_seq
<1>4. rv' \in Scalars
  <2>1. "flush" \in Phases  BY DEF Phases
  <2>. QED BY <1>1, <1>2, <1>3, <2>1 DEF Scalars
<1>5. /\ SameStream /\ rv'.pc = "flush" /\ rv'.nack = rv.nack
      /\ rv'.abs_credit = abs_credit /\ rv'.last_credit_seq = last_credit_seq
  BY <1>1, <1>2 DEF SameStream, Scalars
<1>6. Waiting = {}  BY <1>1 DEF RecvInv, SavedInv
<1>7. RecvTypes'  BY <1>4, <1>5 DEF RecvInv, RecvTypes, SameStream
<1>8. BufferInv' /\ SavedInv' /\ NackInv'  BY <1>5, <1>6, StreamSame DEF RecvInv
<1>9. CreditInv'  BY <1>3, <1>5 DEF CreditInv, SameStream
<1>. QED BY <1>7, <1>8, <1>9 DEF RecvInv

\* Entries that expire all lie beyond the gap.
LEMMA FlushTimeoutKeeps ==
  ASSUME RecvInv, FlushTimeout
  PROVE  RecvInv'
<1>1. /\ rv \in Scalars /\ rv.pc = "flush" /\ rv.expected_seq \in Nat
      /\ entries \in [1 .. SLOTS -> SUBSET Nat] /\ saved' = saved
  BY DEF RecvInv, RecvTypes, Scalars, FlushTimeout
<1>2. PICK expired \in SUBSET Used, due \in BOOLEAN, quiet \in BOOLEAN :
        LET left == rv.count - Cardinality(expired)
            stuck == left > 0 \/ (quiet /\ rv.highest_seq > rv.expected_seq)
        IN /\ entries' = [k \in 1 .. SLOTS |-> IF k \in expired THEN {} ELSE entries[k]]
           /\ rv' = [rv EXCEPT !.pc = "quiet", !.count = left,
                               !.nack = IF stuck /\ due THEN {rv.expected_seq} ELSE @]
  BY DEF FlushTimeout, Used
<1>. DEFINE left == rv.count - Cardinality(expired)
            nack == IF (left > 0 \/ (quiet /\ rv.highest_seq > rv.expected_seq)) /\ due
                    THEN {rv.expected_seq} ELSE rv.nack
<1>3. /\ entries' = [k \in 1 .. SLOTS |-> IF k \in expired THEN {} ELSE entries[k]]
      /\ rv' = [rv EXCEPT !.pc = "quiet", !.count = left, !.nack = nack]
  BY <1>2
<1>4. /\ entries' \in [1 .. SLOTS -> SUBSET Nat]
      /\ \A k \in 1 .. SLOTS : entries'[k] = IF k \in expired THEN {} ELSE entries[k]
  <2>1. {} \in SUBSET Nat  OBVIOUS
  <2>. QED BY <1>1, <1>3, <2>1
<1>5. Used' = Used \ expired  BY <1>4 DEF Used
<1>6. left \in Nat /\ Cardinality(Used') = left
  <2>1. IsFiniteSet(Used)  BY SlotsFinite DEF RecvInv
  <2>2. Cardinality(Used \ expired) = Cardinality(Used) - Cardinality(Used \cap expired)
    BY <2>1, FS_Difference
  <2>3. Used \cap expired = expired  BY <1>2
  <2>4. Cardinality(Used') \in Nat  BY <1>5, <2>1, FS_Subset, FS_CardinalityType
  <2>. QED BY <1>5, <2>2, <2>3, <2>4 DEF RecvInv, BufferInv
<1>7. nack \in SUBSET Nat /\ nack \subseteq rv.nack \cup {rv.expected_seq}
  BY <1>1 DEF Scalars
<1>8. nack = rv.nack \/ nack = {rv.expected_seq}  OBVIOUS
<1>. HIDE DEF left, nack
<1>9. rv' \in Scalars
  <2>1. "quiet" \in Phases  BY DEF Phases
  <2>. QED BY <1>1, <1>3, <1>6, <1>7, <2>1 DEF Scalars
<1>10. /\ rv'.expected_seq = rv.expected_seq /\ rv'.pc = "quiet" /\ rv'.count = left
       /\ rv'.nack = nack /\ rv'.abs_credit = rv.abs_credit
       /\ rv'.last_credit_seq = rv.last_credit_seq
  BY <1>1, <1>3 DEF Scalars
<1>11. RecvTypes'  BY <1>1, <1>4, <1>9 DEF RecvInv, RecvTypes
<1>12. Buffered' \subseteq Buffered
  <2>1. \A t : t \in Buffered <=> \E j \in 1 .. SLOTS : t \in entries[j]
    BY <1>1, InSlots DEF Buffered
  <2>2. \A t : t \in Buffered' <=> \E j \in 1 .. SLOTS : t \in entries'[j]
    BY <1>4, InSlots DEF Buffered
  <2>. QED BY <1>4, <2>1, <2>2
<1>13. BufferInv'
  <2>1. \A i, j \in 1 .. SLOTS : i /= j => entries'[i] \cap entries'[j] = {}
    BY <1>4 DEF RecvInv, BufferInv
  <2>. QED BY <1>6, <1>10, <1>12, <2>1 DEF RecvInv, BufferInv
<1>14. NackInv'
  <2>1. rv.nack \subseteq {rv.expected_seq} \/ (Buffered = {} /\ saved = <<>>)
    BY DEF RecvInv, NackInv
  <2>. QED BY <1>1, <1>8, <1>10, <1>12, <2>1 DEF NackInv
<1>15. Waiting = {} /\ Waiting' = {}
  <2>1. Waiting = {}  BY <1>1 DEF RecvInv, SavedInv
  <2>. QED BY <1>10, <1>12, <2>1 DEF Waiting
<1>16. SavedInv'  BY <1>1, <1>10, <1>15 DEF RecvInv, SavedInv
<1>17. CreditInv'  BY <1>1, <1>10 DEF RecvInv, CreditInv
<1>. QED BY <1>11, <1>13, <1>14, <1>16, <1>17 DEF RecvInv

LEMMA EndOfIterationKeeps ==
  ASSUME RecvInv, Recover \/ NextIteration
  PROVE  RecvInv'
<1>1. rv \in Scalars /\ rv.pc = "quiet"  BY DEF RecvInv, RecvTypes, Recover, NextIteration
<1>2. /\ rv' \in Scalars /\ SameStream /\ rv'.pc \in {"recovery_stop", "loop"}
      /\ rv'.nack = rv.nack /\ rv'.abs_credit = rv.abs_credit
      /\ rv'.last_credit_seq = rv.last_credit_seq
  <2>1. CASE Recover
    <3>1. /\ rv' = [rv EXCEPT !.pc = "recovery_stop", !.recoveries = @ + 1]
          /\ UNCHANGED <<entries, saved>>
      BY <2>1 DEF Recover
    <3>2. "recovery_stop" \in Phases /\ rv.recoveries + 1 \in Nat  BY <1>1 DEF Scalars, Phases
    <3>3. rv' \in Scalars  BY <1>1, <3>1, <3>2 DEF Scalars
    <3>. QED BY <1>1, <3>1, <3>3 DEF Scalars, SameStream
  <2>2. CASE NextIteration  BY <1>1, <2>2 DEF NextIteration, GotoRecv, Scalars, Phases, SameStream
  <2>. QED BY <2>1, <2>2
<1>3. Waiting = {}  BY <1>1 DEF RecvInv, SavedInv
<1>4. RecvTypes'  BY <1>2 DEF RecvInv, RecvTypes, SameStream
<1>5. BufferInv' /\ SavedInv' /\ NackInv'  BY <1>2, <1>3, StreamSame DEF RecvInv
<1>6. CreditInv'  BY <1>1, <1>2 DEF RecvInv, CreditInv, SameStream
<1>. QED BY <1>4, <1>5, <1>6 DEF RecvInv

LEMMA StutterKeeps ==
  ASSUME RecvInv, UNCHANGED recvVars
  PROVE  RecvInv'
<1>1. rv' = rv /\ entries' = entries /\ saved' = saved  BY DEF recvVars
<1>2. Buffered' = Buffered /\ Used' = Used  BY <1>1 DEF Buffered, Used
<1>3. Waiting' = Waiting  BY <1>1, <1>2 DEF Waiting
<1>4. RecvTypes'  BY <1>1 DEF RecvInv, RecvTypes
<1>5. BufferInv' /\ NackInv' /\ SavedInv' /\ CreditInv'
  BY <1>1, <1>2, <1>3 DEF RecvInv, BufferInv, NackInv, SavedInv, CreditInv
<1>. QED BY <1>4, <1>5 DEF RecvInv

LEMMA RecvInvInit ==
  ASSUME LudpRecvInit
  PROVE  RecvInv
<1>. USE RecvAssumption
<1>1. /\ rv.pc = "stop" /\ rv.expected_seq = 0 /\ rv.abs_credit = RECV_WINDOW
      /\ rv.last_credit_seq = 0 /\ rv.count = 0 /\ rv.nack = {}
      /\ entries = NoEntries /\ saved = <<>>
  BY DEF LudpRecvInit
<1>2. rv \in Scalars
  <2>1. "stop" \in Phases /\ {} \in SUBSET Nat  BY DEF Phases
  <2>. QED BY <2>1 DEF LudpRecvInit, Scalars
<1>3. RecvTypes
  <2>1. <<>> \in Seq(Nat)  OBVIOUS
  <2>2. \A k \in 1 .. SLOTS : \A s, t \in NoEntries[k] : s = t  BY NoEntriesEmpty
  <2>. QED BY <1>1, <1>2, <2>1, <2>2, NoEntriesEmpty DEF RecvTypes
<1>4. Buffered = {} /\ Cardinality(Used) = 0 /\ Waiting = {} /\ Cardinality(Waiting) = 0
  BY <1>1, NothingBuffered
<1>5. BufferInv  BY <1>1, <1>4, NoEntriesEmpty DEF BufferInv
<1>6. NackInv  BY <1>1 DEF NackInv
<1>7. SavedInv
  <2>1. Range(<<>>) = {} /\ Len(<<>>) = 0 /\ 0 .. 0 - 1 = {}  BY DEF Range
  <2>. QED BY <1>1, <1>4, <2>1 DEF SavedInv
<1>8. CreditInv  BY <1>1 DEF CreditInv
<1>. QED BY <1>3, <1>5, <1>6, <1>7, <1>8 DEF RecvInv

-----------------------------------------------------------------------------
(***************************************************************************)
(* The theorems.                                                           *)
(***************************************************************************)

\* The invariant of the receiver, for every window, buffer size, number of retries
\* and set of packets: types, and what buffer, NACK, file and credit agree on.
THEOREM ReceiverInvariant == RecvSpec => []RecvInv
<1>1. LudpRecvInit => RecvInv  BY RecvInvInit
<1>2. RecvInv /\ [LudpRecvNext]_recvVars => RecvInv'
  <2> SUFFICES ASSUME RecvInv, [LudpRecvNext]_recvVars PROVE RecvInv'
    OBVIOUS
  <2>1. CASE \E ok \in BOOLEAN : SendCmdWaitAck(ok)  BY <2>1, CommandKeeps
  <2>2. ASSUME NEW seq \in RECV_SEQS, FastRecvPacket(seq) PROVE RecvInv'
    <3>. QED BY <2>2, StutterKeeps, InOrderKeeps, AheadKeeps DEF FastRecvPacket
  <2>3. CASE \E due \in BOOLEAN : CreditUpdate(due)  BY <2>3, CreditUpdateKeeps
  <2>4. CASE LoopTop  BY <2>4, LoopTopKeeps
  <2>5. CASE EndOfBatch  BY <2>5, EndOfBatchKeeps
  <2>6. CASE WriteReordered  BY <2>6, WriteReorderedKeeps
  <2>7. CASE FlushTimeout  BY <2>7, FlushTimeoutKeeps
  <2>8. CASE Recover \/ NextIteration  BY <2>8, EndOfIterationKeeps
  <2>9. CASE UNCHANGED recvVars  BY <2>9, StutterKeeps
  <2>. QED BY <2>1, <2>2, <2>3, <2>4, <2>5, <2>6, <2>7, <2>8, <2>9 DEF LudpRecvNext
<1>. QED BY <1>1, <1>2, PTL DEF RecvSpec

\* The two loops over the reorder buffer end as their callers expect: the search for
\* a free slot succeeds whenever count is below the size, and the one that advances
\* expected_seq stops after at most SLOTS numbers.
THEOREM BufferLoopsEnd ==
  RecvSpec => [](/\ rv.count < SLOTS => Free /= {}
                 /\ \A seq \in RECV_SEQS :
                      \E next \in seq + 1 .. seq + 1 + SLOTS : NextMissing(next, seq))
<1>1. RecvInv => /\ rv.count < SLOTS => Free /= {}
                 /\ \A seq \in RECV_SEQS :
                      \E next \in seq + 1 .. seq + 1 + SLOTS : NextMissing(next, seq)
  BY FreeSlot, MissingExists, RecvAssumption DEF RecvInv
<1>. QED BY <1>1, ReceiverInvariant, PTL

\* What expected_seq has passed is in the file once or waits in the buffer to be
\* written after the batch: nothing is lost and nothing is written twice, whatever
\* arrives again, out of order or too late, expires, or finds the buffer full.
THEOREM PassedIsSaved == RecvSpec => []PassedIsSavedOnce
<1>1. RecvInv => PassedIsSavedOnce
  BY DEF RecvInv, SavedInv, PassedIsSavedOnce, Waiting
<1>. QED BY <1>1, ReceiverInvariant, PTL

\* The reorder buffer is exact: its count, no number in two slots, none that is
\* expected next, and a NACK for what is neither written nor buffered.
THEOREM BufferIsExact == RecvSpec => []ReorderBufferExact
<1>1. RecvInv => ReorderBufferExact
  <2> SUFFICES ASSUME RecvInv PROVE ReorderBufferExact
    OBVIOUS
  <2>1. rv.expected_seq \in Nat /\ Range(saved) \subseteq 0 .. rv.expected_seq - 1
    BY DEF RecvInv, RecvTypes, Scalars, SavedInv
  <2>2. rv.expected_seq \notin Range(saved)  BY <2>1
  <2>3. Range(<<>>) = {}  BY DEF Range
  <2>4. \A s \in rv.nack : s \notin Buffered /\ s \notin Range(saved)
    BY <2>2, <2>3 DEF RecvInv, NackInv, BufferInv
  <2>. QED BY <2>4 DEF RecvInv, BufferInv, ReorderBufferExact, Used
<1>. QED BY <1>1, ReceiverInvariant, PTL

\* Credit is never more than the window beyond expected_seq and, once per iteration,
\* exactly that, except while a recovery has failed.
THEOREM CreditIsInStep == RecvSpec => []CreditInStep
<1>1. RecvInv => CreditInStep
  <2> SUFFICES ASSUME RecvInv PROVE CreditInStep
    OBVIOUS
  <2>1. rv.expected_seq \in Nat /\ RECV_WINDOW \in Nat
    BY RecvAssumption DEF RecvInv, RecvTypes, Scalars
  <2>. QED BY <2>1 DEF RecvInv, CreditInv, CreditInStep
<1>. QED BY <1>1, ReceiverInvariant, PTL
=============================================================================
