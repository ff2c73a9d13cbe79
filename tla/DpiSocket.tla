------------------------------ MODULE DpiSocket ------------------------------
(***************************************************************************)
(* Co-simulation over a Unix socket: the runs of sw/ludp_host_dpi.py (one  *)
(* client each) and tb/dpi_socket.c, which the simulation polls.  A packet *)
(* goes through the socket in one piece: sendall hands the kernel one      *)
(* buffer, at most MAX_PACKET_SIZE long, which recv never splits.          *)
(***************************************************************************)
EXTENDS Integers, Sequences, SequencesExt

CONSTANTS
  CLIENTS,          \* runs of the client program
  BACKLOG,          \* of listen (1 in the source)
  SOCK_PACKETS,     \* packets the server buffers (MAX_PACKETS, 256 in the source)
  SOCK_CAP,         \* packets a socket takes before sendall blocks
  CONNECT_TRIES,    \* bound: attempts that fit into the timeout of connect_dpi
  MAX_CALLS,        \* bound: calls a test script makes
  MAX_LIVES         \* bound: times the simulation is started

VARIABLES
  cl,               \* per client: pc, tries, connected, next_cmd_id, calls, sent
  sock,             \* per client: packets in its socket
  queue,            \* the listen queue
  srv               \* initialized, client_fd ({} or {client}), buffer, read_idx, lives

dpiVars == <<cl, sock, queue, srv>>

DpiSocketInit ==
  /\ cl = [c \in CLIENTS |-> [pc |-> "start", tries |-> 0, connected |-> FALSE,
                              next_cmd_id |-> 1, calls |-> 0, sent |-> <<>>]]
  /\ sock = [c \in CLIENTS |-> <<>>] /\ queue = <<>>
  /\ srv = [initialized |-> FALSE, client_fd |-> {}, buffer |-> <<>>, read_idx |-> 0, lives |-> 0]

-----------------------------------------------------------------------------
\* The client.

\* connect blocks while the listen queue is full; Linux lets it grow to BACKLOG + 1.
Connect(c) ==
  /\ cl[c].pc = "start" /\ srv.initialized /\ Len(queue) <= BACKLOG
  /\ queue' = Append(queue, c)
  /\ cl' = [cl EXCEPT ![c].pc = "run", ![c].connected = TRUE]
  /\ UNCHANGED <<sock, srv>>

\* No server yet: try again until the timeout, then main returns 1.
ConnectRefused(c) ==
  /\ cl[c].pc = "start" /\ ~srv.initialized
  /\ cl' = [cl EXCEPT ![c].tries = @ + 1,
                      ![c].pc = IF cl[c].tries + 1 < CONNECT_TRIES THEN "start" ELSE "failed"]
  /\ UNCHANGED <<sock, queue, srv>>

\* The other end is there: waiting to be accepted, or accepted.
Peer(c) == c \in srv.client_fd \/ Contains(queue, c)

Calling(c) == cl[c].pc = "run" /\ cl[c].calls < MAX_CALLS

\* _send_packet, called with a finished packet (by main or a script, or by send_credit and
\* send_nack) or an empty one, or by send_cmd, which takes a number first.
SendPacket(c, kind) ==
  /\ Calling(c)
  /\ LET ok == cl[c].connected /\ Peer(c)
         id == IF kind = "cmd" THEN cl[c].next_cmd_id ELSE 0
         pkt == [kind |-> kind, id |-> id]
     IN /\ ok => Len(sock[c]) < SOCK_CAP
        /\ sock' = IF ok THEN [sock EXCEPT ![c] = Append(@, pkt)] ELSE sock
        /\ cl' = [cl EXCEPT ![c].calls = @ + 1,
                            ![c].pc = IF ok THEN "run" ELSE "raised",
                            ![c].next_cmd_id = IF kind = "cmd" THEN @ + 1 ELSE @,
                            ![c].sent = IF ok THEN Append(@, pkt) ELSE @]
  /\ UNCHANGED <<queue, srv>>

\* send_start, send_stop, write_reg, read_reg are inherited and need self.lock, which the
\* constructor of LudpHostDPI does not make: AttributeError, after the number is taken.
SendInherited(c) ==
  /\ Calling(c)
  /\ cl' = [cl EXCEPT ![c].calls = @ + 1, ![c].pc = "raised", ![c].next_cmd_id = @ + 1]
  /\ UNCHANGED <<sock, queue, srv>>

\* disconnect, called by the script.
ScriptDisconnect(c) ==
  /\ Calling(c)
  /\ cl' = [cl EXCEPT ![c].calls = @ + 1, ![c].connected = FALSE]
  /\ UNCHANGED <<sock, queue, srv>>

\* The end of the program, with or without an exception: disconnect in the finally.
Exit(c) ==
  /\ cl[c].pc \in {"run", "raised"}
  /\ cl' = [cl EXCEPT ![c].connected = FALSE, ![c].pc = IF @ = "run" THEN "done" ELSE "aborted"]
  /\ UNCHANGED <<sock, queue, srv>>

Client(c) ==
  \/ Connect(c) \/ ConnectRefused(c) \/ SendInherited(c) \/ ScriptDisconnect(c) \/ Exit(c)
  \/ \E kind \in {"frame", "empty", "cmd"} : SendPacket(c, kind)

-----------------------------------------------------------------------------
\* The server.

ServerInit ==
  /\ ~srv.initialized /\ srv.lives < MAX_LIVES
  /\ srv' = [srv EXCEPT !.initialized = TRUE, !.lives = @ + 1]
  /\ UNCHANGED <<cl, sock, queue>>

\* dpi_has_packet without a client: dpi_socket_accept.
Accept ==
  /\ srv.initialized /\ srv.client_fd = {} /\ queue /= <<>>
  /\ srv' = [srv EXCEPT !.client_fd = {Head(queue)}]
  /\ queue' = Tail(queue)
  /\ UNCHANGED <<cl, sock>>

\* Mutant: the packet is taken from the socket before the room is looked at.
ReceiveNoRoom ==
  \E c \in srv.client_fd :
    /\ sock[c] /= <<>>
    /\ LET pkt == Head(sock[c]) IN
       srv' = IF pkt.kind = "empty" \/ Len(srv.buffer) >= SOCK_PACKETS THEN srv
              ELSE [srv EXCEPT !.buffer = Append(@, pkt)]
    /\ sock' = [sock EXCEPT ![c] = Tail(@)]
    /\ UNCHANGED <<cl, queue>>

\* Mutant: a client that has closed its end is dropped at once.
ReceiveDropClosed ==
  \E c \in srv.client_fd :
    /\ srv' = IF ~cl[c].connected THEN [srv EXCEPT !.client_fd = {}]
              ELSE IF sock[c] = <<>> \/ Len(srv.buffer) >= SOCK_PACKETS THEN srv
              ELSE [srv EXCEPT !.buffer = Append(@, Head(sock[c]))]
    /\ sock' = IF ~cl[c].connected \/ sock[c] = <<>> \/ Len(srv.buffer) >= SOCK_PACKETS THEN sock
               ELSE [sock EXCEPT ![c] = Tail(@)]
    /\ UNCHANGED <<cl, queue>>

\* dpi_has_packet with a client. The length of an empty packet is invalid: only its header
\* is there to be consumed. A full buffer leaves the packet in the socket; the end of the
\* stream (recv returns 0) is taken for a header that is still incomplete.
Receive ==
  \E c \in srv.client_fd :
    /\ sock[c] /= <<>>
    /\ LET pkt == Head(sock[c]) IN
       \/ pkt.kind = "empty" /\ UNCHANGED srv
       \/ /\ pkt.kind /= "empty" /\ Len(srv.buffer) < SOCK_PACKETS
          /\ srv' = [srv EXCEPT !.buffer = Append(@, pkt)]
    /\ sock' = [sock EXCEPT ![c] = Tail(@)]
    /\ UNCHANGED <<cl, queue>>

\* dpi_read_packet: the index moves on, the buffer never gets shorter.
ReadPacket ==
  /\ srv.read_idx < Len(srv.buffer)
  /\ srv' = [srv EXCEPT !.read_idx = @ + 1]
  /\ UNCHANGED <<cl, sock, queue>>

\* dpi_socket_cleanup closes both descriptors; what is in the sockets is gone.
Cleanup ==
  /\ srv.initialized
  /\ srv' = [initialized |-> FALSE, client_fd |-> {}, buffer |-> <<>>, read_idx |-> 0,
             lives |-> srv.lives]
  /\ sock' = [c \in CLIENTS |-> <<>>] /\ queue' = <<>>
  /\ UNCHANGED cl

DpiSocketNext ==
  (\E c \in CLIENTS : Client(c)) \/ ServerInit \/ Accept \/ Receive \/ ReadPacket \/ Cleanup

DpiSocketSpec == DpiSocketInit /\ [][DpiSocketNext]_dpiVars

\* The simulation keeps polling; neither a client nor the end of the simulation is owed.
DpiSocketFairness == WF_dpiVars(Accept) /\ WF_dpiVars(Receive) /\ WF_dpiVars(ReadPacket)

-----------------------------------------------------------------------------
\* The packets of a sequence that are not empty.
Frames(s) == FlattenSeq([k \in 1 .. Len(s) |-> IF s[k].kind = "empty" THEN <<>> ELSE <<s[k]>>])

\* Between the script and the testbench no packet is lost, repeated or overtaken: what the
\* server has buffered followed by what is in the socket is what the accepted client sent,
\* at any moment, after the client is gone too.
SocketConserves ==
  \A c \in srv.client_fd : srv.buffer \o Frames(sock[c]) = Frames(cl[c].sent)

\* The first SOCK_PACKETS packets of the accepted client reach the testbench, though the
\* client may long have closed its end, unless the simulation is ended ("Send packets to the
\* DUT via the socket", ludp_host_dpi.py:14).
SocketDelivers ==
  \A c \in CLIENTS, k \in 1 .. SOCK_PACKETS :
    (c \in srv.client_fd /\ Len(Frames(cl[c].sent)) >= k)
      ~> (srv.read_idx >= k \/ ~srv.initialized)
=============================================================================
