------------------------------ MODULE PacketGen ------------------------------
(***************************************************************************)
(* The packet generators (sw/ludp_host_fifo.py; sw/ludp_host_dpi.py holds  *)
(* a copy of them), the packet file they leave for the simulation and its  *)
(* reader, tb/dpi_safe.c, which the testbench feeds the DUT from.          *)
(*                                                                         *)
(* A frame is its EtherType, the bytes of its IP header and the bytes      *)
(* after it; addresses are constant in the source and left out.  "from"    *)
(* remembers the call that made the frame.  The file is shorter than the   *)
(* buffer of a Python file, so a reader sees no file, an empty file (open) *)
(* or all of it (close).                                                   *)
(***************************************************************************)
EXTENDS InternetChecksum, FiniteSets, Functions

CONSTANTS
  CREDITS,        \* values of --credit (an unbounded int of argparse)
  ICMP_SIZES,     \* values of payload_size
  MAX_PACKETS,    \* packets dpi_safe.c holds (16 in the source)
  MAX_RUNS        \* bound: runs of the generator

ASSUME PacketGenAssumption == MAX_PACKETS \in Nat \ {0}

\* The total length of an IP packet, with both its headers, has to fit its field.
ASSUME FieldAssumption ==
  /\ BYTE = 256 /\ CREDITS \subseteq Int
  /\ \A size \in ICMP_SIZES : size \in Nat /\ size + 28 < WORD

VARIABLES
  gen,            \* main: [pc, todo, frame]
  packets,        \* main's list of frames
  written,        \* history: the lists whose file was closed
  file,           \* {} without a packet file, else {the frames in it}
  dpi,            \* dpi_safe.c: [initialized, packet_data, current_packet]
  fed             \* history: the frames given to the DUT

genVars == <<gen, packets, written, file, dpi, fed, ckVars>>

Uint32(x) == x >= 0 /\ x \div WORD < WORD       \* what fits "I"
Hi(x) == x \div BYTE
Lo(x) == x % BYTE

\* struct.pack("<HBBIHIH", magic, type, flags, number, opcode, arg1, arg2)
LudpPacket(type, number, opcode) ==
  LET lw == number % WORD  hw == number \div WORD
  IN <<Lo(\hDA01), Hi(\hDA01), type, 0, Lo(lw), Hi(lw), Lo(hw), Hi(hw), Lo(opcode), Hi(opcode),
       0, 0, 0, 0, 0, 0>>

LudpStart == LudpPacket(2, 1, 1)
LudpCredit(value) == LudpPacket(6, value, 0)

UdpHeader(ludp) ==
  LET len == 8 + Len(ludp)
  IN <<Hi(12345), Lo(12345), Hi(1234), Lo(1234), Hi(len), Lo(len), 0, 0>>

IcmpPacket(ck, size) ==
  <<8, 0, Hi(ck), Lo(ck), Hi(\h1234), Lo(\h1234), Hi(1), Lo(1)>> \o [k \in 1 .. size |-> (k - 1) % BYTE]

IpFields(len, id, proto, ck) ==
  <<\h45, 0, Hi(len), Lo(len), Hi(id), Lo(id), Hi(\h4000), Lo(\h4000), 64, proto, Hi(ck), Lo(ck),
    192, 168, 1, 199, 192, 168, 1, 128>>

\* Mutant: the length of the header itself is left out.
IpHeaderShort(body, id, proto, ck) == IpFields(Len(body), id, proto, ck)

IpHeader(body, id, proto, ck) == IpFields(20 + Len(body), id, proto, ck)

\* The ARP request, padded to 60 bytes.
ArpFrame ==
  LET arp == <<0, 1, 8, 0, 6, 4, 0, 1, 2, 0, 0, 0, 0, 1, 192, 168, 1, 199,
               0, 0, 0, 0, 0, 0, 192, 168, 1, 128>>
  IN [from |-> [gen |-> "arp"], eth_type |-> \h0806, ip |-> <<>>,
      body |-> arp \o [k \in 1 .. 60 - 14 - Len(arp) |-> 0]]

\* The generator calls of main for each --packet-type.
Todo(type, credit, size) ==
  [arp         |-> <<[gen |-> "arp"]>>,
   icmp        |-> <<[gen |-> "icmp", size |-> size]>>,
   ludp_start  |-> <<[gen |-> "start"]>>,
   ludp_credit |-> <<[gen |-> "credit", value |-> credit]>>,
   ludp_full   |-> <<[gen |-> "arp"], [gen |-> "start"], [gen |-> "credit", value |-> credit]>>
  ][type]

\* Protocol number and identification of the IP header of a call.
Proto(c) == IF c.gen = "icmp" THEN 1 ELSE 17
IpId(c) == IF c.gen = "icmp" THEN 0 ELSE IF c.gen = "start" THEN 1 ELSE 2

\* What follows the IP header; the checksum of an ICMP message is not known yet.
BodyOf(c) ==
  LET ludp == IF c.gen = "start" THEN LudpStart ELSE LudpCredit(c.value)
  IN IF c.gen = "icmp" THEN IcmpPacket(0, c.size) ELSE UdpHeader(ludp) \o ludp

NoFrame == [from |-> [gen |-> "none"], eth_type |-> 0, ip |-> <<>>, body |-> <<>>]

GenInit ==
  /\ CkInit
  /\ gen = [pc |-> "idle", todo |-> <<>>, frame |-> NoFrame]
  /\ packets = <<>> /\ written = {} /\ file = {}
  /\ dpi = [initialized |-> FALSE, packet_data |-> <<>>, current_packet |-> 1]
  /\ fed = <<>>

-----------------------------------------------------------------------------
\* A frame is complete: packets.append.
FrameDone(f) ==
  /\ packets' = Append(packets, f)
  /\ gen' = [pc |-> "main", todo |-> Tail(gen.todo), frame |-> NoFrame]

Main(type, credit, size) ==
  /\ gen.pc = "idle" /\ Cardinality(written) < MAX_RUNS
  /\ gen' = [gen EXCEPT !.pc = "main", !.todo = Todo(type, credit, size)]
  /\ packets' = <<>>
  /\ UNCHANGED <<written, file, dpi, fed, ckVars>>

GenArp ==
  /\ gen.pc = "main" /\ gen.todo /= <<>> /\ Head(gen.todo).gen = "arp"
  /\ FrameDone(ArpFrame)
  /\ UNCHANGED <<written, file, dpi, fed, ckVars>>

\* struct.error: a credit that is not a 32 bit number ends the run before any file is touched.
GenRaises ==
  /\ gen.pc = "main" /\ gen.todo /= <<>> /\ Head(gen.todo).gen = "credit"
  /\ ~Uint32(Head(gen.todo).value)
  /\ gen' = [gen EXCEPT !.pc = "raised"]
  /\ UNCHANGED <<packets, written, file, dpi, fed, ckVars>>

\* The body of an IP packet, and the call of calculate_checksum for its header.
GenIp ==
  /\ gen.pc = "main" /\ gen.todo /= <<>> /\ Head(gen.todo).gen /= "arp"
  /\ LET c == Head(gen.todo) IN
       /\ c.gen = "credit" => Uint32(c.value)
       /\ gen' = [gen EXCEPT !.pc = "ip", !.frame = [from |-> c, eth_type |-> \h0800,
                                                     ip |-> <<>>, body |-> BodyOf(c)]]
       /\ Call(IpHeader(BodyOf(c), IpId(c), Proto(c), 0))
  /\ UNCHANGED <<packets, written, file, dpi, fed>>

GenIpChecksum ==
  /\ gen.pc = "ip" /\ ck_pc = "done"
  /\ LET c == gen.frame.from
         f == [gen.frame EXCEPT !.ip = IpHeader(gen.frame.body, IpId(c), Proto(c), checksum)]
     IN IF c.gen = "icmp"
          THEN gen' = [gen EXCEPT !.pc = "icmp", !.frame = f] /\ Call(f.body) /\ UNCHANGED packets
          ELSE FrameDone(f) /\ UNCHANGED ckVars
  /\ UNCHANGED <<written, file, dpi, fed>>

GenIcmpChecksum ==
  /\ gen.pc = "icmp" /\ ck_pc = "done"
  /\ FrameDone([gen.frame EXCEPT !.body = IcmpPacket(checksum, gen.frame.from.size)])
  /\ UNCHANGED <<written, file, dpi, fed, ckVars>>

GenChecksumStep == CkStep /\ UNCHANGED <<gen, packets, written, file, dpi, fed>>

\* Mutant: every write goes to the file at once.
FileOpenUnbuffered ==
  /\ gen.pc = "main" /\ gen.todo = <<>>
  /\ file' = {SubSeq(packets, 1, 1)}
  /\ gen' = [gen EXCEPT !.pc = "write"]
  /\ UNCHANGED <<packets, written, dpi, fed, ckVars>>

\* open(PACKET_FILE, "wb") truncates the file of an earlier run.
FileOpen ==
  /\ gen.pc = "main" /\ gen.todo = <<>>
  /\ file' = {<<>>}
  /\ gen' = [gen EXCEPT !.pc = "write"]
  /\ UNCHANGED <<packets, written, dpi, fed, ckVars>>

FileClose ==
  /\ gen.pc = "write"
  /\ file' = {packets} /\ written' = written \cup {packets}
  /\ gen' = [gen EXCEPT !.pc = "idle"]
  /\ UNCHANGED <<packets, dpi, fed, ckVars>>

-----------------------------------------------------------------------------
\* load_packets_from_file: what fits of the packet file, if there is one.
FirstPackets(f) == SubSeq(f, 1, IF Len(f) > MAX_PACKETS THEN MAX_PACKETS ELSE Len(f))
Loaded == {FirstPackets(f) : f \in file}

\* init_packets, on the first call of the testbench; it never looks again.
DpiInit ==
  /\ ~dpi.initialized
  /\ dpi' = [initialized |-> TRUE, current_packet |-> 1,
             packet_data |-> IF Loaded \subseteq {<<>>} THEN <<ArpFrame>>
                             ELSE CHOOSE s \in Loaded : TRUE]
  /\ UNCHANGED <<gen, packets, written, file, fed, ckVars>>

\* feed_packet_from_dpi with dpi_get_byte and dpi_next_packet
DpiFeed ==
  /\ dpi.initialized /\ dpi.current_packet <= Len(dpi.packet_data)
  /\ fed' = Append(fed, dpi.packet_data[dpi.current_packet])
  /\ dpi' = [dpi EXCEPT !.current_packet = @ + 1]
  /\ UNCHANGED <<gen, packets, written, file, ckVars>>

GenNext ==
  \/ \E type \in {"arp", "icmp", "ludp_start", "ludp_credit", "ludp_full"},
        credit \in CREDITS, size \in ICMP_SIZES : Main(type, credit, size)
  \/ GenArp \/ GenRaises \/ GenIp \/ GenIpChecksum \/ GenIcmpChecksum \/ GenChecksumStep
  \/ FileOpen \/ FileClose \/ DpiInit \/ DpiFeed

GenSpec == GenInit /\ [][GenNext]_genVars

-----------------------------------------------------------------------------
\* What the bytes of a string add up to, those at odd places being the high bytes of
\* its words: a multiple of 0xFFFF if the checksum in it is right.
Weighted(d) == [k \in 1 .. Len(d) |-> d[k] * (IF k % 2 = 1 THEN BYTE ELSE 1)]
Verifies(d) == SumFunctionOnSet(Weighted(d), 1 .. Len(d)) % (WORD - 1) = 0

Number16(d, k) == d[k] + BYTE * d[k + 1]
Number32(d, k) == Number16(d, k) + WORD * Number16(d, k + 2)

\* The IP header, which says how long the packet is and verifies.
IpOk(f, proto) ==
  /\ Len(f.ip) = 20 /\ f.ip[10] = proto /\ Verifies(f.ip)
  /\ f.ip[3] * BYTE + f.ip[4] = Len(f.ip) + Len(f.body)

\* The UDP header, and the LUDP packet as the RTL reads it.
LudpOk(f, type) ==
  /\ f.body[5] * BYTE + f.body[6] = Len(f.body)
  /\ Number16(f.body, 9) = \hDA01 /\ f.body[11] = type

FrameOk(f) ==
  \/ f.from.gen = "arp" /\ Len(f.body) = 46
  \/ /\ f.from.gen = "icmp" /\ IpOk(f, 1)
     /\ Len(f.body) = 8 + f.from.size /\ Verifies(f.body)
  \/ /\ f.from.gen = "start" /\ IpOk(f, 17) /\ LudpOk(f, 2)
     /\ f.body[12] = 0 /\ Number16(f.body, 17) = 1
  \/ f.from.gen = "credit" /\ IpOk(f, 17) /\ LudpOk(f, 6) /\ Number32(f.body, 13) = f.from.value

\* Every frame fed to the DUT is one its stack takes and means what the call asked
\* for: the lengths of the IP and UDP headers agree with the frame, header and ICMP
\* checksums verify (odd payloads too), and the RTL, which reads the LUDP fields
\* little-endian, finds in it the START or the credit that was asked for.
FedFramesWellFormed == \A n \in 1 .. Len(fed) : FrameOk(fed[n])

\* What the testbench feeds is, in order and up to the buffer's size, the list of
\* one run of the generator, or the fallback ARP request alone: never a part of a
\* list, nor a mixture of two runs, wherever in a run the simulation starts.
FeedsOneRun ==
  dpi.initialized /\ dpi.current_packet > Len(dpi.packet_data) =>
    \/ fed = <<ArpFrame>>
    \/ \E w \in written : fed = FirstPackets(w)
=============================================================================
