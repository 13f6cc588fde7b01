-------------------------------- MODULE Tcp --------------------------------
(***************************************************************************)
(* TCP as kernel/net/tcp_ip.c has it: the table of connections, the calls  *)
(* tcp_connect, tcp_send, tcp_recv and tcp_close that programs make, and   *)
(* tcp_handle_segment, called for each segment that arrives.  Calls and    *)
(* the handler run in the kernel's one thread of control and are atomic.   *)
(*                                                                         *)
(* There is one remote address; its TCP is a standard one and external to  *)
(* the repository, as is the network, which loses, repeats and reorders    *)
(* the segments to the host and loses those to the peer.  What the handler *)
(* never reads is left out: the acknowledgement number and the window of a *)
(* segment, and the host's own sequence numbers.  The interface transmits  *)
(* (iface->send is set).  A byte carries the connection and the position   *)
(* it was sent in, so that the properties can tell where it belongs.       *)
(***************************************************************************)
EXTENDS Naturals, Sequences, FiniteSets, FiniteSetsExt, SequencesExt

CONSTANTS
  MAX_CONNECTIONS,          \* size of tcp_connections
  Apps,                     \* the programs, each with at most one connection
  FirstPort, LastPort,      \* the ephemeral ports, 49152 and 65000 in the code
  Capacity,                 \* recv_capacity and send_capacity, in bytes
  MaxConnects,              \* bound on the connections ever opened
  MaxData,                  \* bound on the bytes a peer sends in one connection
  MaxFlight,                \* bound on the segments to the host when one is added
  MaxFaults,                \* bound on lost, repeated and overtaken segments
  NULL

ASSUME TcpAssumption ==
  /\ MAX_CONNECTIONS \in Nat /\ Capacity \in Nat /\ MaxConnects \in Nat
  /\ MaxData \in Nat /\ MaxFaults \in Nat /\ MaxFlight \in Nat
  /\ FirstPort \in Nat /\ LastPort \in Nat /\ FirstPort <= LastPort
  /\ NULL \notin Nat

VARIABLES
  conn,        \* tcp_connections
  next_port,   \* next_ephemeral_port
  handle,      \* the connection each program has from tcp_connect
  to_host, to_peer,   \* the segments under way
  peer,        \* the peer's end of the connection with each local port
  opened,      \* history: the number of tcp_connect calls that sent a SYN
  refused,     \* history: programs whose connection a RST has freed
  unsent,      \* history: the closed connections whose FIN was never built
  lost, disturbed, dropped,  \* history: segments lost, lost or repeated or
                             \* overtaken, and bytes the receive buffer refused
  faults

host == <<conn, next_port, handle, opened, refused, unsent>>
network == <<to_host, to_peer, lost, disturbed, faults>>
vars == <<host, network, peer, dropped>>

Slots == 1 .. MAX_CONNECTIONS
Ports == FirstPort .. LastPort
in_use == {s \in Slots : conn[s].state # "free"}
States == {"free", "SYN_SENT", "ESTABLISHED", "FIN_WAIT_1", "FIN_WAIT_2",
           "CLOSE_WAIT", "CLOSING", "LAST_ACK", "TIME_WAIT"}

\* `id' numbers the connections in the order they were opened, `got' is every
\* byte the connection has taken over, read by the program or not.
Free == [state |-> "free", port |-> FirstPort, id |-> 0, ack |-> 0,
         recv_len |-> 0, send_len |-> 0, got |-> <<>>]
\* Of the bytes the peer has sent, `last' came with its FIN.
NoPeer == [state |-> "LISTEN", id |-> 0, sent |-> 0, fin |-> FALSE, last |-> 0]

\* A segment: its local port, its flags, sequence number and data.
Segment(port, id, flags, seq, data) ==
  [port |-> port, id |-> id, flags |-> flags, seq |-> seq, data |-> data]

Init ==        \* tcpip_init
  /\ conn = [s \in Slots |-> Free]
  /\ next_port = FirstPort
  /\ handle = [a \in Apps |-> NULL]
  /\ to_host = <<>> /\ to_peer = <<>>
  /\ peer = [p \in Ports |-> NoPeer]
  /\ opened = 0 /\ refused = {} /\ unsent = {}
  /\ lost = FALSE /\ disturbed = FALSE /\ dropped = FALSE /\ faults = 0

-----------------------------------------------------------------------------
(* The calls of programs.                                                  *)

Packet(s, flags) == Segment(conn[s].port, conn[s].id, flags, 0, <<>>)

\* tcp_send_packet: kmalloc may have no room for the packet.  Only tcp_connect
\* and tcp_send look at its result.
Sent(packet) == to_peer' = Append(to_peer, packet)
SentOrNot(packet) == Sent(packet) \/ UNCHANGED to_peer

\* tcp_alloc_connection takes the first free entry.  A connection whose SYN
\* could not be sent is freed again, but its port is used up.
tcp_connect(a) ==
  LET s == Min(Slots \ in_use)
      wrapped == IF next_port = LastPort THEN FirstPort ELSE next_port + 1
  IN  /\ handle[a] = NULL
      /\ in_use # Slots
      /\ opened < MaxConnects
      /\ next_port' = wrapped
      /\ opened' = opened + 1
      /\ \/ /\ conn' = [conn EXCEPT ![s] = [Free EXCEPT !.state = "SYN_SENT",
                                              !.port = next_port, !.id = opened + 1]]
            /\ handle' = [handle EXCEPT ![a] = s]
            /\ Sent(Segment(next_port, opened + 1, {"SYN"}, 0, <<>>))
         \/ UNCHANGED <<conn, handle, to_peer>>
      /\ UNCHANGED <<refused, unsent, to_host, lost, disturbed, faults, peer, dropped>>

\* tcp_send of one byte.  The byte stays in the send buffer, and it does so
\* also when the packet could not be built.
tcp_send(a) ==
  LET s == handle[a]
  IN  /\ s # NULL
      /\ conn[s].state = "ESTABLISHED" /\ conn[s].send_len < Capacity
      /\ conn' = [conn EXCEPT ![s].send_len = @ + 1]
      /\ SentOrNot(Packet(s, {"PSH", "ACK"}))
      /\ UNCHANGED <<next_port, handle, opened, refused, unsent, to_host, lost,
                     disturbed, faults, peer, dropped>>

\* tcp_recv of whatever has arrived
tcp_recv(a) ==
  LET s == handle[a]
  IN  /\ s # NULL
      /\ conn[s].recv_len > 0
      /\ conn' = [conn EXCEPT ![s].recv_len = 0]
      /\ UNCHANGED <<next_port, handle, opened, refused, unsent, network, peer, dropped>>

\* tcp_close.  The program has no use for the connection after it, and none of
\* its states sends the FIN again when the packet for it could not be built.
tcp_close(a) ==
  LET s == handle[a]
      next == [ESTABLISHED |-> "FIN_WAIT_1", CLOSE_WAIT |-> "LAST_ACK"]
  IN  /\ s # NULL
      /\ handle' = [handle EXCEPT ![a] = NULL]
      /\ \/ /\ conn[s].state \in DOMAIN next
            /\ conn' = [conn EXCEPT ![s].state = next[@]]
            /\ \/ Sent(Packet(s, {"FIN", "ACK"})) /\ UNCHANGED unsent
               \/ unsent' = unsent \cup {conn[s].id} /\ UNCHANGED to_peer
         \/ /\ conn[s].state = "SYN_SENT"
            /\ conn' = [conn EXCEPT ![s] = Free]
            /\ UNCHANGED <<to_peer, unsent>>
         \/ /\ conn[s].state \notin DOMAIN next \cup {"SYN_SENT"}
            /\ UNCHANGED <<conn, to_peer, unsent>>
      /\ UNCHANGED <<next_port, opened, refused, to_host, lost, disturbed, faults,
                     peer, dropped>>

-----------------------------------------------------------------------------
(* tcp_handle_segment, once the network has handed over a segment.         *)

\* Mutant: the local port is not compared.
find_any(seg) == in_use

\* tcp_find_connection
find_connection(seg) == {s \in in_use : conn[s].port = seg.port}

has(seg, flag) == flag \in seg.flags

\* Mutant: a SYN without ACK is expected.
SynSentExact(c, seg) ==
  IF seg.flags = {"SYN"}
  THEN <<[c EXCEPT !.ack = seg.seq + 1, !.state = "ESTABLISHED"], {"ACK"}>>
  ELSE <<IF has(seg, "RST") THEN Free ELSE c, {}>>

\* Mutant: the byte received is acknowledged as the next one expected.
EstablishedAck(c, seg) ==
  LET len == Len(seg.data)
  IN  IF ~has(seg, "FIN") /\ len > 0 /\ c.recv_len + len <= Capacity
      THEN <<[c EXCEPT !.ack = seg.seq, !.recv_len = @ + len,
                       !.got = @ \o seg.data], {"ACK"}>>
      ELSE <<c, {}>>

\* Mutant: the connection is freed when the peer closes.
EstablishedFree(c, seg) ==
  IF has(seg, "FIN") THEN <<Free, {"ACK"}>> ELSE <<c, {}>>

\* The connection after the segment, and the flags of the answer, if any.  The
\* data of a FIN is acknowledged with it, and not taken over.
\* In SYN_SENT the acknowledgement number is not compared, in ESTABLISHED the
\* sequence number is not; RST is heeded in SYN_SENT only.
SynSent(c, seg) ==
  IF {"SYN", "ACK"} \subseteq seg.flags
  THEN <<[c EXCEPT !.ack = seg.seq + 1, !.state = "ESTABLISHED"], {"ACK"}>>
  ELSE <<IF has(seg, "RST") THEN Free ELSE c, {}>>

Established(c, seg) ==
  LET len == Len(seg.data)
  IN  IF has(seg, "FIN")
      THEN <<[c EXCEPT !.ack = seg.seq + len + 1, !.state = "CLOSE_WAIT"], {"ACK"}>>
      ELSE IF len > 0 /\ c.recv_len + len <= Capacity
      THEN <<[c EXCEPT !.ack = seg.seq + len, !.recv_len = @ + len,
                       !.got = @ \o seg.data], {"ACK"}>>
      ELSE <<c, {}>>

FinWait1(c, seg) ==
  LET state == IF has(seg, "ACK") THEN "FIN_WAIT_2" ELSE "FIN_WAIT_1"
  IN  IF has(seg, "FIN")
      THEN <<[c EXCEPT !.ack = seg.seq + 1,
                       !.state = IF state = "FIN_WAIT_2" THEN "TIME_WAIT" ELSE "CLOSING"],
             {"ACK"}>>
      ELSE <<[c EXCEPT !.state = state], {}>>

FinWait2(c, seg) ==
  IF has(seg, "FIN")
  THEN <<[c EXCEPT !.ack = seg.seq + 1, !.state = "TIME_WAIT"], {"ACK"}>>
  ELSE <<c, {}>>

Closing(c, seg) == <<IF has(seg, "ACK") THEN [c EXCEPT !.state = "TIME_WAIT"] ELSE c, {}>>

LastAck(c, seg) == <<IF has(seg, "ACK") THEN Free ELSE c, {}>>

\* Whatever segment comes next ends TIME_WAIT.
TimeWait(c, seg) == <<Free, {}>>

Handled(c, seg) ==
  CASE c.state = "SYN_SENT"    -> SynSent(c, seg)
    [] c.state = "ESTABLISHED" -> Established(c, seg)
    [] c.state = "FIN_WAIT_1"  -> FinWait1(c, seg)
    [] c.state = "FIN_WAIT_2"  -> FinWait2(c, seg)
    [] c.state = "CLOSING"     -> Closing(c, seg)
    [] c.state = "LAST_ACK"    -> LastAck(c, seg)
    [] c.state = "TIME_WAIT"   -> TimeWait(c, seg)
    [] c.state = "CLOSE_WAIT"  -> <<c, {}>>

tcp_handle_segment(seg) ==
  LET hits == find_connection(seg)
      s == Min(hits)
      after == Handled(conn[s], seg)
  IN  IF hits = {} THEN UNCHANGED <<host, to_peer, dropped>>
      ELSE /\ conn' = [conn EXCEPT ![s] = after[1]]
           /\ refused' = refused \cup
                {a \in Apps : handle[a] = s /\ conn[s].state = "SYN_SENT" /\ after[1] = Free}
           /\ dropped' = (dropped \/ (/\ conn[s].state = "ESTABLISHED"
                                      /\ after[1] = conn[s] /\ seg.data # <<>>))
           /\ IF after[2] = {} THEN UNCHANGED to_peer ELSE SentOrNot(Packet(s, after[2]))
           /\ UNCHANGED <<next_port, handle, opened, unsent>>

\* net_rx and ip_handle: the oldest segment arrives.
Receive ==
  /\ to_host # <<>>
  /\ to_host' = Tail(to_host)
  /\ tcp_handle_segment(Head(to_host))
  /\ UNCHANGED <<lost, disturbed, faults, peer>>

-----------------------------------------------------------------------------
(* External: the network and the peer.                                     *)

Fault ==
  /\ faults < MaxFaults
  /\ faults' = faults + 1
  /\ disturbed' = TRUE
  /\ UNCHANGED <<host, peer, dropped>>

Lose ==
  /\ Fault
  /\ lost' = TRUE
  /\ \/ /\ \E i \in DOMAIN to_host : to_host' = RemoveAt(to_host, i)
        /\ UNCHANGED to_peer
     \/ /\ to_peer # <<>>
        /\ to_peer' = Tail(to_peer)
        /\ UNCHANGED to_host

\* A segment arrives twice, the second time after others.
Repeat ==
  /\ Fault
  /\ Len(to_host) < MaxFlight
  /\ \E i \in DOMAIN to_host : to_host' = Append(to_host, to_host[i])
  /\ UNCHANGED <<lost, to_peer>>

Overtake ==
  /\ Fault
  /\ \E i \in 2 .. Len(to_host) :
       to_host' = [to_host EXCEPT ![i - 1] = to_host[i], ![i] = to_host[i - 1]]
  /\ UNCHANGED <<lost, to_peer>>

PeerSegment(p, flags, data) ==
  Segment(p, peer[p].id, flags, peer[p].sent + 1, data)

\* The peer accepts or refuses a SYN, and acknowledges data and FIN.  It takes
\* any later segment of the connection as the end of the handshake.
PeerReceive ==
  LET seg == Head(to_peer)
      p == seg.port
  IN  /\ to_peer # <<>>
      /\ to_peer' = Tail(to_peer)
      /\ \/ /\ has(seg, "SYN")
            /\ peer' = [peer EXCEPT ![p] = [NoPeer EXCEPT !.state = "SYN_RCVD", !.id = seg.id]]
            /\ to_host' = Append(to_host, Segment(p, seg.id, {"SYN", "ACK"}, 0, <<>>))
         \/ /\ has(seg, "SYN")
            /\ to_host' = Append(to_host, Segment(p, seg.id, {"RST", "ACK"}, 0, <<>>))
            /\ UNCHANGED peer
         \/ /\ ~has(seg, "SYN") /\ seg.id # peer[p].id
            /\ UNCHANGED <<peer, to_host>>
         \/ /\ ~has(seg, "SYN") /\ seg.id = peer[p].id
            /\ peer' = [peer EXCEPT ![p].state = "ESTABLISHED"]
            /\ to_host' = IF seg.flags = {"ACK"} THEN to_host
                          ELSE Append(to_host, PeerSegment(p, {"ACK"}, <<>>))
      /\ UNCHANGED <<host, lost, disturbed, faults, dropped>>

Byte(p) == [id |-> peer[p].id, n |-> peer[p].sent + 1]

PeerSend(p) ==
  /\ peer[p].state = "ESTABLISHED" /\ ~peer[p].fin
  /\ Len(to_host) < MaxFlight
  /\ peer[p].sent < MaxData
  /\ peer' = [peer EXCEPT ![p].sent = @ + 1]
  /\ to_host' = Append(to_host, PeerSegment(p, {"PSH", "ACK"}, <<Byte(p)>>))
  /\ UNCHANGED <<host, to_peer, lost, disturbed, faults, dropped>>

\* The peer closes, perhaps with its last byte in the same segment.
PeerFin(p) ==
  /\ peer[p].state = "ESTABLISHED" /\ ~peer[p].fin
  /\ Len(to_host) < MaxFlight
  /\ \E flags \in {{"FIN"}, {"FIN", "ACK"}}, with_byte \in BOOLEAN :
       /\ with_byte => peer[p].sent < MaxData
       /\ peer' = [peer EXCEPT ![p].fin = TRUE,
                               ![p].sent = IF with_byte THEN @ + 1 ELSE @,
                               ![p].last = IF with_byte THEN 1 ELSE 0]
       /\ to_host' = Append(to_host, PeerSegment(p, flags,
                                       IF with_byte THEN <<Byte(p)>> ELSE <<>>))
  /\ UNCHANGED <<host, to_peer, lost, disturbed, faults, dropped>>

Next ==
  \/ \E a \in Apps : tcp_connect(a) \/ tcp_send(a) \/ tcp_recv(a) \/ tcp_close(a)
  \/ Receive
  \/ Lose \/ Repeat \/ Overtake
  \/ PeerReceive
  \/ \E p \in Ports : PeerSend(p) \/ PeerFin(p)

Spec == Init /\ [][Next]_vars

-----------------------------------------------------------------------------
Connections ==
  [state : States, port : Ports, id : 0 .. MaxConnects, ack : 0 .. MaxData + 2,
   recv_len : 0 .. Capacity, send_len : 0 .. Capacity,
   got : Seq([id : 1 .. MaxConnects, n : 1 .. MaxData])]

\* Every variable keeps its type; buffer lengths stay within the buffers.
TypeOK ==
  /\ conn \in [Slots -> Connections]
  /\ next_port \in Ports
  /\ handle \in [Apps -> Slots \cup {NULL}]
  /\ opened \in 0 .. MaxConnects /\ refused \subseteq Apps
  /\ unsent \subseteq 1 .. MaxConnects
  /\ faults \in 0 .. MaxFaults
  /\ \A s \in Slots : conn[s].recv_len <= Len(conn[s].got)

\* Every port has been used once: the next connection takes one that another
\* may still have.
Wrapped == opened > Cardinality(Ports)

\* Until the ephemeral ports wrap around (tcp_ip.c:632), no segment reaches a
\* connection it was not sent in, however late it comes and whichever entries
\* of the table have been reused: the bytes a connection has taken over were
\* sent in it, and the state it is in is one the peer's segments of this very
\* connection led to.  The handler compares nothing but addresses and ports.
NoCrossTalk ==
  ~Wrapped => \A s \in in_use :
    /\ \A i \in DOMAIN conn[s].got : conn[s].got[i].id = conn[s].id
    /\ conn[s].state # "SYN_SENT" => peer[conn[s].port].id = conn[s].id
    /\ conn[s].state \in {"CLOSE_WAIT", "LAST_ACK", "CLOSING", "TIME_WAIT"}
         => peer[conn[s].port].fin

\* The table of connections is well formed and holds nothing of another
\* connection.
ConnectionsSeparate == TypeOK /\ NoCrossTalk

\* What connection c has received of its peer's bytes: all of them in order, and
\* when the peer has closed all but the data of its FIN segment.
Received(c, remote) ==
  /\ \A i \in DOMAIN c.got : c.got[i].n = i
  /\ c.state = "ESTABLISHED" => c.ack = Len(c.got) + 1
  /\ c.state = "CLOSE_WAIT" =>
       Len(c.got) = remote.sent - remote.last /\ c.ack = remote.sent + 2

\* When the network neither loses nor repeats nor reorders and the receive
\* buffer never refused a byte, what was received is what was sent, from the
\* first byte on and without a gap, and the number acknowledged is that of the
\* next byte.  The handler compares no sequence number (tcp_ip.c:798), so this
\* is all that the stream has to rest on.  When the peer has closed, exactly
\* the data of its FIN segment is missing, and it is acknowledged all the same
\* (tcp_ip.c:792).
InOrderStream ==
  ~Wrapped /\ ~disturbed /\ ~dropped =>
    \A s \in in_use : Received(conn[s], peer[conn[s].port])

\* As long as no connection was refused, a program's connection is its own
\* until it closes it: nothing that arrives frees the entry for the next
\* tcp_connect while the program may still use it.  (After a RST the entry is
\* free while the program still has it, and the next owner's connection is
\* what its calls then reach.)
HandleKept ==
  refused = {} => \A a \in Apps : handle[a] # NULL =>
    /\ handle[a] \in in_use
    /\ \A b \in Apps \ {a} : handle[b] # handle[a]

\* The states in which a connection waits for an answer, and to what.
Asked == [SYN_SENT |-> "SYN", FIN_WAIT_1 |-> "FIN", CLOSING |-> "FIN", LAST_ACK |-> "FIN"]

Ends(state, seg) ==
  IF state = "SYN_SENT" THEN has(seg, "RST") \/ {"SYN", "ACK"} \subseteq seg.flags
  ELSE has(seg, "ACK")

Waits(c) ==
  /\ \A seg \in Range(to_peer) : seg.port = c.port => ~has(seg, Asked[c.state])
  /\ \A seg \in Range(to_host) : seg.port = c.port => ~Ends(c.state, seg)

\* If no segment is lost and the FIN could be built, no connection waits in
\* vain: what it asked, or the answer that ends its state, is under way, and
\* no other segment has taken the answer's place.  (Nothing is ever sent
\* again: a lost SYN, SYN+ACK, FIN or ACK leaves the connection where it is.)
AnswerUnderWay ==
  ~Wrapped /\ ~lost => \A s \in in_use :
    conn[s].state \in DOMAIN Asked /\ conn[s].id \notin unsent => ~Waits(conn[s])

\* "Sent FIN, entering FIN_WAIT_1": a connection that was closed has sent one.
FinSent ==
  ~Wrapped /\ ~lost => \A s \in in_use : conn[s].state \in DOMAIN Asked => ~Waits(conn[s])

\* "Received data": the data that is acknowledged was received.
StreamWhole ==
  ~Wrapped /\ ~disturbed /\ ~dropped => \A s \in in_use :
    conn[s].state = "CLOSE_WAIT" => conn[s].ack = Len(conn[s].got) + 2

\* "remove acknowledged data from send buffer" (tcp_ip.c:810): an established
\* connection with nothing under way has an empty one.
SendBufferDrained ==
  ~Wrapped /\ ~lost => \A s \in in_use :
    /\ conn[s].state = "ESTABLISHED"
    /\ \A seg \in Range(to_host) \cup Range(to_peer) : seg.port # conn[s].port
    => conn[s].send_len = 0
=============================================================================
