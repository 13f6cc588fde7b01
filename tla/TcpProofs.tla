----------------------------- MODULE TcpProofs -----------------------------
(***************************************************************************)
(* Proofs about Tcp for every size of the table of connections, of the     *)
(* buffers and of the range of ephemeral ports, any number of programs and *)
(* every bound on what the network holds, loses, repeats and reorders.     *)
(* The handler compares ports and flags only.  Why that is enough until    *)
(* the ports wrap around is what the inductive invariant says: a port      *)
(* stands for one connection, in the table, in the segments under way and  *)
(* at the peer, and the peer's bytes are in flight once and in order.      *)
(***************************************************************************)
EXTENDS Tcp, SequenceTheorems, FiniteSetTheorems, WellFoundedInduction, TLAPS

-----------------------------------------------------------------------------
(* The inductive invariant. *)

ByteType == [id : 1 .. MaxConnects, n : 1 .. MaxData]
HostFlags == {{"SYN", "ACK"}, {"RST", "ACK"}, {"ACK"}, {"PSH", "ACK"}, {"FIN"},
              {"FIN", "ACK"}}
PeerFlags == {{"SYN"}, {"ACK"}, {"PSH", "ACK"}, {"FIN", "ACK"}}
Refusal == {"RST", "ACK"}
Welcome == {"SYN", "ACK"}

SegmentType(F) ==
  [port : Ports, id : 1 .. MaxConnects, flags : F, seq : 0 .. MaxData + 1,
   data : Seq(ByteType)]

\* A segment has no data, or the byte that its sequence number names.
Carries(seg) ==
  \/ seg.data = <<>> /\ (seg.flags \in {Refusal, Welcome} => seg.seq = 0)
  \/ /\ seg.seq \in 1 .. MaxData
     /\ seg.data = <<[id |-> seg.id, n |-> seg.seq]>>
     /\ seg.flags \notin {Refusal, Welcome}

PeerType ==
  [state : {"LISTEN", "SYN_RCVD", "ESTABLISHED"}, id : 0 .. MaxConnects,
   sent : 0 .. MaxData, fin : BOOLEAN, last : 0 .. 1]

\* What TypeOK leaves open: the segments, the peer and the flags.
WireTypes ==
  /\ to_host \in Seq(SegmentType(HostFlags))
  /\ to_peer \in Seq(SegmentType(PeerFlags))
  /\ \A seg \in Range(to_host) : Carries(seg)
  /\ peer \in [Ports -> PeerType]
  /\ lost \in BOOLEAN /\ disturbed \in BOOLEAN /\ dropped \in BOOLEAN

\* An entry that is free is clear.  No two connections have one number, and
\* none has a number to come.
Ids ==
  /\ \A s \in Slots \ in_use : conn[s] = Free
  /\ \A s \in in_use : conn[s].id \in 1 .. opened
  /\ \A s, t \in in_use : s # t => conn[s].id # conn[t].id
  /\ \A p \in Ports : peer[p].state = "ESTABLISHED" => peer[p].id # 0

\* The states of a connection its program may still use, and those that the
\* peer's FIN leads to.
Open == {"SYN_SENT", "ESTABLISHED", "CLOSE_WAIT"}
Closed == {"CLOSE_WAIT", "LAST_ACK", "CLOSING", "TIME_WAIT"}

\* The connection a program has is in a state that only its own tcp_close, or
\* a refusal, ends; no two programs have the same.
Handles ==
  refused = {} => \A a \in Apps : handle[a] # NULL =>
    /\ conn[handle[a]].state \in Open
    /\ \A b \in Apps \ {a} : handle[b] # handle[a]

\* The number of the connection that has a port, before the ports wrap.
IdOf(p) == p - FirstPort + 1

\* A port stands for one connection wherever it appears.
PortsOwned ==
  /\ opened < Cardinality(Ports) => next_port = FirstPort + opened
  /\ \A s \in in_use : conn[s].id = IdOf(conn[s].port)
  /\ \A seg \in Range(to_host) \cup Range(to_peer) :
       seg.id = IdOf(seg.port) /\ seg.id <= opened
  /\ \A p \in Ports : peer[p].id # 0 => peer[p].id = IdOf(p) /\ peer[p].id <= opened

\* The peer's state, and its segments, which never go beyond what it sent.
PeerAhead ==
  /\ \A p \in Ports : peer[p].state # "ESTABLISHED" => peer[p].sent = 0 /\ ~peer[p].fin
  /\ \A seg \in Range(to_host) :
       /\ seg.flags # Refusal => peer[seg.port].id = seg.id
       /\ has(seg, "FIN") => /\ peer[seg.port].fin
                             /\ Len(seg.data) = peer[seg.port].last
                             /\ seg.seq + Len(seg.data) = peer[seg.port].sent + 1
       /\ seg.seq + Len(seg.data) <= peer[seg.port].sent + 1

\* A SYN that is under way is the first the peer will hear of its port: in the
\* queue q to the peer, with the segments R on their way back and the peer pr.
SynsFirst(q, R, pr) ==
  \A i \in DOMAIN q : has(q[i], "SYN") =>
    /\ pr[q[i].port].id = 0
    /\ \A seg \in R : seg.port # q[i].port
    /\ \A j \in DOMAIN q : j # i /\ has(q[j], "SYN") => q[j].port # q[i].port

SynFirst == SynsFirst(to_peer, Range(to_host), peer)

\* Until its SYN is answered, a connection has sent and taken over nothing.
Unanswered ==
  \A s \in in_use : conn[s].state = "SYN_SENT" =>
    /\ conn[s].got = <<>>
    /\ peer[conn[s].port].state # "ESTABLISHED"
    /\ \A seg \in Range(to_peer) : seg.port = conn[s].port => has(seg, "SYN")

Separate == PortsOwned /\ PeerAhead /\ SynFirst /\ Unanswered

\* The segments of a port are in the order of the bytes.
InOrder ==
  \A i, j \in DOMAIN to_host :
    i < j /\ to_host[i].port = to_host[j].port
      => to_host[i].seq + Len(to_host[i].data) <= to_host[j].seq

\* One of the segments R carries byte n of the connection with port p.
Carried(R, p, n) ==
  \E seg \in R : seg.port = p /\ seg.seq = n /\ seg.data # <<>>

\* What the peer sent and the connection has not taken over is under way.
UnderWay ==
  \A s \in in_use : conn[s].state = "ESTABLISHED" =>
    /\ Len(conn[s].got) <= peer[conn[s].port].sent
    /\ \A seg \in Range(to_host) :
         seg.port = conn[s].port /\ seg.data # <<>> => Len(conn[s].got) < seg.seq
    /\ \A n \in 1 .. peer[conn[s].port].sent :
         Len(conn[s].got) < n => Carried(Range(to_host), conn[s].port, n)

IInv ==
  /\ TypeOK /\ WireTypes /\ Ids /\ Handles
  /\ ~Wrapped => Separate /\ NoCrossTalk
  /\ ~Wrapped /\ ~disturbed /\ ~dropped => InOrder /\ UnderWay /\ InOrderStream

-----------------------------------------------------------------------------
(* Sets of numbers and sequences of segments. *)

\* Every set of numbers that is not empty has a least element.
LEMMA MinFacts ==
  ASSUME NEW S \in SUBSET Nat, S # {}
  PROVE  Min(S) \in S /\ \A y \in S : Min(S) <= y
<1> DEFINE R == OpToRel(<, Nat)
<1>1. IsWellFoundedOn(R, Nat)
  BY NatLessThanWellFounded
<1>2. \A x, y \in Nat : (<<y, x>> \in R) <=> y < x
  BY DEF OpToRel
<1> HIDE DEF R
<1>3. PICK x \in S : \A y \in S : ~ (<<y, x>> \in R)
  BY <1>1, WFMin
<1>4. x \in Nat /\ \A y \in S : y \in Nat
  OBVIOUS
<1>5. ASSUME NEW y \in S PROVE x <= y
  <2>1. ~ (y < x)
    BY <1>2, <1>3, <1>4
  <2> QED BY <1>4, <2>1
<1> QED BY <1>5 DEF Min

LEMMA PortsCount == Cardinality(Ports) = LastPort - FirstPort + 1
BY FS_Interval, TcpAssumption DEF Ports

LEMMA RangeSeq ==
  ASSUME NEW T, NEW q \in Seq(T)
  PROVE  \A x : x \in Range(q) <=> \E i \in 1 .. Len(q) : x = q[i]
BY DEF Range

LEMMA RangeAppend ==
  ASSUME NEW T, NEW q \in Seq(T), NEW e \in T
  PROVE  /\ Append(q, e) \in Seq(T)
         /\ Range(Append(q, e)) = Range(q) \cup {e}
<1> DEFINE r == Append(q, e)
<1>1. /\ r \in Seq(T) /\ Len(r) = Len(q) + 1 /\ Len(q) \in Nat
      /\ \A i \in 1 .. Len(q) : r[i] = q[i]
      /\ r[Len(q) + 1] = e
  BY AppendProperties
<1> HIDE DEF r
<1>2. ASSUME NEW x PROVE x \in Range(r) <=> x \in Range(q) \cup {e}
  <2>1. x \in Range(r) <=> \E i \in 1 .. Len(r) : x = r[i]
    BY <1>1, RangeSeq
  <2>2. x \in Range(q) <=> \E i \in 1 .. Len(q) : x = q[i]
    BY RangeSeq
  <2>3. \A i : i \in 1 .. Len(r) <=> i \in 1 .. Len(q) \/ i = Len(q) + 1
    BY <1>1
  <2> QED BY <2>1, <2>2, <2>3, <1>1
<1> QED BY <1>1, <1>2 DEF r

LEMMA RangeTail ==
  ASSUME NEW T, NEW q \in Seq(T), q # <<>>
  PROVE  /\ Tail(q) \in Seq(T) /\ Head(q) \in T
         /\ Head(q) \in Range(q) /\ Head(q) = q[1] /\ 1 \in DOMAIN q
         /\ Range(q) = Range(Tail(q)) \cup {Head(q)}
         /\ \A i \in DOMAIN Tail(q) : i + 1 \in DOMAIN q /\ Tail(q)[i] = q[i + 1]
<1> DEFINE r == Tail(q)
<1>1. /\ r \in Seq(T) /\ Len(r) = Len(q) - 1 /\ Len(q) \in Nat /\ Len(q) > 0
      /\ \A i \in 1 .. Len(r) : r[i] = q[i + 1]
      /\ Head(q) = q[1] /\ Head(q) \in T /\ DOMAIN q = 1 .. Len(q)
  BY HeadTailProperties, EmptySeq
<1> HIDE DEF r
<1>2. DOMAIN r = 1 .. Len(r)
  BY <1>1
<1>3. ASSUME NEW x PROVE x \in Range(q) <=> x \in Range(r) \cup {Head(q)}
  <2>1. x \in Range(r) <=> \E i \in 1 .. Len(r) : x = r[i]
    BY <1>1, RangeSeq
  <2>2. x \in Range(q) <=> \E i \in 1 .. Len(q) : x = q[i]
    BY RangeSeq
  <2>3. \A i \in 1 .. Len(q) : i = 1 \/ i - 1 \in 1 .. Len(r)
    BY <1>1
  <2>4. \A i \in 1 .. Len(q) : i # 1 => r[i - 1] = q[i]
    BY <1>1
  <2>5. \A i \in 1 .. Len(r) : i + 1 \in 1 .. Len(q)
    BY <1>1
  <2>6. 1 \in 1 .. Len(q)
    BY <1>1
  <2> QED BY <2>1, <2>2, <2>3, <2>4, <2>5, <2>6, <1>1
<1>4. \A i \in 1 .. Len(r) : i + 1 \in 1 .. Len(q)
  BY <1>1
<1>5. 1 \in 1 .. Len(q)
  BY <1>1
<1> QED BY <1>1, <1>2, <1>3, <1>4, <1>5 DEF r

\* Losing a segment and having one overtake another add none.
LEMMA RangeRemoveAt ==
  ASSUME NEW T, NEW q \in Seq(T), NEW i \in DOMAIN q
  PROVE  RemoveAt(q, i) \in Seq(T) /\ Range(RemoveAt(q, i)) \subseteq Range(q)
<1> DEFINE a == SubSeq(q, 1, i - 1)
           b == SubSeq(q, i + 1, Len(q))
           r == a \o b
<1>1. i \in 1 .. Len(q) /\ Len(q) \in Nat /\ DOMAIN q = 1 .. Len(q)
  OBVIOUS
<1>2. /\ a \in Seq(T) /\ Len(a) = i - 1
      /\ \A k \in 1 .. Len(a) : a[k] = q[k]
  BY <1>1
<1>3. /\ b \in Seq(T) /\ Len(b) = Len(q) - i
      /\ \A k \in 1 .. Len(b) : b[k] = q[i + k]
  BY <1>1
<1> HIDE DEF a, b
<1>4. /\ r \in Seq(T) /\ Len(r) = Len(a) + Len(b)
      /\ \A k \in 1 .. Len(a) + Len(b) : r[k] = IF k <= Len(a) THEN a[k] ELSE b[k - Len(a)]
  BY <1>2, <1>3, ConcatProperties
<1> HIDE DEF r
<1>5. ASSUME NEW k \in 1 .. Len(r) PROVE \E l \in 1 .. Len(q) : r[k] = q[l]
  <2>1. CASE k <= Len(a)
    <3>1. k \in 1 .. Len(a) /\ k \in 1 .. Len(q)
      BY <2>1, <1>1, <1>2, <1>3, <1>4
    <3> QED BY <3>1, <2>1, <1>2, <1>4
  <2>2. CASE ~ (k <= Len(a))
    <3> DEFINE m == k - Len(a)
               l == i + m
    <3>1. m \in 1 .. Len(b) /\ l \in 1 .. Len(q)
      BY <2>2, <1>1, <1>2, <1>3, <1>4
    <3>2. r[k] = b[m]
      BY <2>2, <1>4
    <3> HIDE DEF m
    <3>3. b[m] = q[l]
      BY <3>1, <1>3
    <3> QED BY <3>1, <3>2, <3>3
  <2> QED BY <2>1, <2>2
<1>6. ASSUME NEW x, x \in Range(r) PROVE x \in Range(q)
  <2>1. PICK k \in 1 .. Len(r) : x = r[k]
    BY <1>4, <1>6, RangeSeq
  <2>2. PICK l \in 1 .. Len(q) : x = q[l]
    BY <1>5, <2>1
  <2> QED BY <2>2, RangeSeq
<1> QED BY <1>4, <1>6 DEF r, a, b, RemoveAt

LEMMA RangeSwap ==
  ASSUME NEW T, NEW q \in Seq(T), NEW i \in 2 .. Len(q)
  PROVE  LET r == [q EXCEPT ![i - 1] = q[i], ![i] = q[i - 1]]
         IN  r \in Seq(T) /\ Range(r) \subseteq Range(q)
<1> DEFINE r1 == [q EXCEPT ![i - 1] = q[i]]
           r == [r1 EXCEPT ![i] = q[i - 1]]
<1>1. i - 1 \in 1 .. Len(q) /\ i \in 1 .. Len(q) /\ Len(q) \in Nat /\ i \in Int
  OBVIOUS
<1>2. q[i - 1] \in T /\ q[i] \in T
  BY <1>1, ElementOfSeq
<1>3. r1 \in Seq(T) /\ Len(r1) = Len(q) /\ \A k \in 1 .. Len(q) : r1[k] \in {q[k], q[i]}
  BY <1>1, <1>2
<1> HIDE DEF r1
<1>4. r \in Seq(T) /\ Len(r) = Len(q) /\ \A k \in 1 .. Len(q) : r[k] \in {r1[k], q[i - 1]}
  BY <1>1, <1>2, <1>3
<1> HIDE DEF r
<1>5. \A k \in 1 .. Len(r) : \E l \in 1 .. Len(q) : r[k] = q[l]
  BY <1>1, <1>3, <1>4
<1>6. Range(r) \subseteq Range(q)
  BY <1>4, <1>5, RangeSeq, SMTT(30)
<1> QED BY <1>4, <1>6 DEF r, r1

-----------------------------------------------------------------------------
(* What the handler makes of a connection. *)

\* d is what c may become when seg arrives and flags is the answer.
Follows(c, seg, d, answer) ==
  /\ d \in Connections /\ d.recv_len <= Len(d.got)
  /\ d.state = "free" => d = Free /\ c.state \in {"SYN_SENT", "LAST_ACK", "TIME_WAIT"}
  /\ d.state # "free" => d.port = c.port /\ d.id = c.id
  /\ answer \in {{}, {"ACK"}}
  /\ answer # {} => d.state \notin {"free", "SYN_SENT"}
  /\ d.state = "SYN_SENT" => d = c
  /\ c.state = "SYN_SENT" /\ d.state \notin {"free", "SYN_SENT"} =>
       /\ d.state = "ESTABLISHED" /\ seg.flags = Welcome
       /\ d.got = c.got /\ d.ack = seg.seq + 1
  /\ c.state \in Open /\ d.state # "free" => d.state \in Open
  /\ d.state \in Closed => c.state \in Closed \/ has(seg, "FIN")
  /\ d.state = "ESTABLISHED" => c.state \in {"SYN_SENT", "ESTABLISHED"}
  /\ d.state = "CLOSE_WAIT" =>
       \/ d = c
       \/ /\ c.state = "ESTABLISHED" /\ has(seg, "FIN")
          /\ d.got = c.got /\ d.ack = seg.seq + Len(seg.data) + 1
  /\ c.state = "ESTABLISHED" /\ d.state = "ESTABLISHED" =>
       \/ d = c /\ d.got = c.got
       \/ /\ seg.data # <<>> /\ d.got = c.got \o seg.data
          /\ d.ack = seg.seq + Len(seg.data)
  /\ d.state # "free" /\ ~ (c.state = "ESTABLISHED" /\ d.state = "ESTABLISHED")
       => d.got = c.got

LEMMA SegmentFacts ==
  ASSUME NEW seg \in SegmentType(HostFlags), Carries(seg)
  PROVE  /\ Len(seg.data) \in {0, 1} /\ seg.seq \in 0 .. MaxData + 1
         /\ seg.seq + Len(seg.data) \in 0 .. MaxData + 1
         /\ seg.data # <<>> <=> Len(seg.data) = 1
         /\ seg.data \in Seq(ByteType)
         /\ seg.data # <<>> => /\ seg.flags \notin {Refusal, Welcome}
                               /\ seg.data[1].id = seg.id /\ seg.data[1].n = seg.seq
<1>1. /\ seg.seq \in 0 .. MaxData + 1 /\ seg.data \in Seq(ByteType) /\ MaxData \in Nat
  BY TcpAssumption DEF SegmentType
<1>2. CASE seg.data = <<>>
  <2>1. Len(seg.data) = 0
    BY <1>2
  <2> QED BY <1>1, <1>2, <2>1
<1>3. CASE seg.data # <<>>
  <2> DEFINE b == [id |-> seg.id, n |-> seg.seq]
  <2>1. seg.data = <<b>> /\ seg.flags \notin {Refusal, Welcome} /\ seg.seq \in 1 .. MaxData
    BY <1>3 DEF Carries
  <2> HIDE DEF b
  <2>2. Len(seg.data) = 1 /\ seg.data[1] = b
    BY <2>1
  <2> QED BY <1>1, <1>3, <2>1, <2>2 DEF b
<1> QED BY <1>2, <1>3

LEMMA HandledFacts ==
  ASSUME NEW c \in Connections, c.state # "free", c.recv_len <= Len(c.got),
         NEW seg \in SegmentType(HostFlags), Carries(seg)
  PROVE  Follows(c, seg, Handled(c, seg)[1], Handled(c, seg)[2])
<1> DEFINE d == Handled(c, seg)[1]
           a == Handled(c, seg)[2]
           len == Len(seg.data)
           next == seg.seq + 1
           past == seg.seq + len
           last == seg.seq + len + 1
<1>1. /\ c.state \in States /\ c.port \in Ports /\ c.id \in 0 .. MaxConnects
      /\ c.ack \in 0 .. MaxData + 2 /\ c.recv_len \in 0 .. Capacity
      /\ c.send_len \in 0 .. Capacity /\ c.got \in Seq(ByteType)
  BY DEF Connections, ByteType
<1>2. /\ next \in 0 .. MaxData + 2 /\ past \in 0 .. MaxData + 2
      /\ last \in 0 .. MaxData + 2 /\ len \in {0, 1} /\ (seg.data # <<>> <=> len = 1)
      /\ seg.data \in Seq(ByteType)
  <2>1. seg.seq \in 0 .. MaxData + 1 /\ past \in 0 .. MaxData + 1 /\ MaxData \in Nat
    BY SegmentFacts, TcpAssumption
  <2>2. len \in {0, 1} /\ (seg.data # <<>> <=> len = 1) /\ seg.data \in Seq(ByteType)
    BY SegmentFacts
  <2> QED BY <2>1, <2>2
<1>3. Free \in Connections /\ Free.state = "free" /\ Free.recv_len <= Len(Free.got)
  BY TcpAssumption DEF Free, Connections, States, Ports
<1>4. \A st \in States : \A e :
        e = [c EXCEPT !.state = st] =>
            /\ e \in Connections /\ e.state = st /\ e.ack = c.ack /\ e.port = c.port
            /\ e.id = c.id /\ e.got = c.got /\ e.recv_len = c.recv_len
  BY <1>1 DEF Connections
<1>6. CASE c.state = "SYN_SENT"
  <2>0. Handled(c, seg) = SynSent(c, seg)
    BY <1>6 DEF Handled
  <2>1. CASE {"SYN", "ACK"} \subseteq seg.flags
    <3>1. seg.flags = Welcome
      BY <2>1 DEF SegmentType, HostFlags, Welcome
    <3>2. d = [c EXCEPT !.ack = next, !.state = "ESTABLISHED"]
          /\ a = {"ACK"}
      BY <2>0, <2>1 DEF SynSent
    <3> HIDE DEF d, a, last, past, next
    <3>8. /\ d \in Connections /\ d.state = "ESTABLISHED" /\ d.ack = next /\ d.port = c.port
          /\ d.id = c.id /\ d.got = c.got /\ d.recv_len = c.recv_len
      BY <1>1, <1>2, <3>2 DEF Connections, States
    <3>9. Follows(c, seg, d, a)
      BY <3>8, <1>6, <3>1, <3>2 DEF Follows, Open, Closed, next
    <3> QED BY <3>9 DEF d, a
  <2>2. CASE ~ ({"SYN", "ACK"} \subseteq seg.flags)
    <3>1. (d = c \/ d = Free) /\ a = {}
      BY <2>0, <2>2 DEF SynSent
    <3> HIDE DEF d, a, last, past, next
    <3>9. Follows(c, seg, d, a)
      BY <1>3, <1>6, <3>1 DEF Follows, States, Open, Closed, last, past, next
    <3> QED BY <3>9 DEF d, a
  <2> QED BY <2>1, <2>2
<1>7. CASE c.state = "ESTABLISHED"
  <2>0. Handled(c, seg) = Established(c, seg)
    BY <1>7 DEF Handled
  <2>1. CASE has(seg, "FIN")
    <3>1. d = [c EXCEPT !.ack = last, !.state = "CLOSE_WAIT"]
          /\ a = {"ACK"}
      BY <2>0, <2>1 DEF Established
    <3> HIDE DEF d, a, last, past, next
    <3>8. /\ d \in Connections /\ d.state = "CLOSE_WAIT" /\ d.ack = last /\ d.port = c.port
          /\ d.id = c.id /\ d.got = c.got /\ d.recv_len = c.recv_len
      BY <1>1, <1>2, <3>1 DEF Connections, States
    <3>9. Follows(c, seg, d, a)
      BY <3>8, <1>7, <2>1, <3>1 DEF Follows, Open, Closed, last
    <3> QED BY <3>9 DEF d, a
  <2>2. CASE ~has(seg, "FIN") /\ len > 0 /\ c.recv_len + len <= Capacity
    <3> DEFINE g == c.got \o seg.data
               r == c.recv_len + len
    <3>1. d = [c EXCEPT !.ack = past, !.recv_len = r, !.got = g]
          /\ a = {"ACK"}
      BY <2>0, <2>2 DEF Established
    <3>2. /\ g \in Seq(ByteType) /\ Len(g) = Len(c.got) + len /\ r \in 0 .. Capacity
          /\ Len(c.got) \in Nat
      <4> HIDE DEF len, d, a
      <4>1. c.got \in Seq(ByteType) /\ seg.data \in Seq(ByteType)
        BY <1>1, <1>2
      <4>2. g \in Seq(ByteType) /\ Len(g) = Len(c.got) + Len(seg.data)
        BY ONLY <4>1, ConcatProperties
      <4>3. r \in 0 .. Capacity
        BY <1>1, <1>2, <2>2, TcpAssumption
      <4>4. Len(c.got) \in Nat
        BY <4>1
      <4> QED BY <4>2, <4>3, <4>4 DEF len
    <3>3. r <= Len(g) /\ seg.data # <<>>
      <4> HIDE DEF g, d, a, len
      <4> QED BY <1>1, <1>2, <2>2, <3>2
    <3> HIDE DEF r
    <3>4. d \in Connections
      BY <3>1, <3>2, <1>1, <1>2 DEF Connections, ByteType
    <3>5. /\ d.state = "ESTABLISHED" /\ d.port = c.port /\ d.id = c.id /\ d.got = g
          /\ d.recv_len = r /\ d.ack = past
      BY <3>1, <1>1, <1>7 DEF Connections
    <3> HIDE DEF d
    <3> HIDE DEF d, a, last, past, next
    <3>9. Follows(c, seg, d, a)
      BY <1>7, <3>1, <3>3, <3>4, <3>5 DEF Follows, States, Open, Closed, last, past, next
    <3> QED BY <3>9 DEF d, a
  <2>3. CASE ~has(seg, "FIN") /\ ~ (len > 0 /\ c.recv_len + len <= Capacity)
    <3>1. d = c /\ a = {}
      BY <2>0, <2>3 DEF Established
    <3> HIDE DEF d, a, last, past, next
    <3>9. Follows(c, seg, d, a)
      BY <1>7, <3>1 DEF Follows, States, Open, Closed, last, past, next
    <3> QED BY <3>9 DEF d, a
  <2> QED BY <2>1, <2>2, <2>3
<1>8. CASE c.state = "FIN_WAIT_1"
  <2>0. Handled(c, seg) = FinWait1(c, seg)
    BY <1>8 DEF Handled
  <2>1. CASE has(seg, "FIN")
    <3> DEFINE st == IF has(seg, "ACK") THEN "TIME_WAIT" ELSE "CLOSING"
    <3>1. d = [c EXCEPT !.ack = next, !.state = st] /\ a = {"ACK"}
      <4>1. CASE has(seg, "ACK")
        BY <2>0, <2>1, <4>1 DEF FinWait1
      <4>2. CASE ~has(seg, "ACK")
        BY <2>0, <2>1, <4>2 DEF FinWait1
      <4> QED BY <4>1, <4>2
    <3>2. st \in {"TIME_WAIT", "CLOSING"}
      OBVIOUS
    <3> HIDE DEF d, a, last, past, next, st
    <3>8. /\ d \in Connections /\ d.state = st /\ d.ack = next /\ d.port = c.port
          /\ d.id = c.id /\ d.got = c.got /\ d.recv_len = c.recv_len
      BY <1>1, <1>2, <3>1, <3>2 DEF Connections, States
    <3>9. Follows(c, seg, d, a)
      BY <3>8, <1>8, <2>1, <3>1, <3>2 DEF Follows, Open, Closed, next
    <3> QED BY <3>9 DEF d, a
  <2>2. CASE ~has(seg, "FIN")
    <3>1. PICK st \in {"FIN_WAIT_1", "FIN_WAIT_2"} :
            d = [c EXCEPT !.state = st] /\ a = {}
      BY <2>0, <2>2 DEF FinWait1
    <3> HIDE DEF d, a, last, past, next
    <3>9. Follows(c, seg, d, a)
      BY <1>4, <1>8, <3>1 DEF Follows, States, Open, Closed, last, past, next
    <3> QED BY <3>9 DEF d, a
  <2> QED BY <2>1, <2>2
<1>9. CASE c.state = "FIN_WAIT_2"
  <2>0. Handled(c, seg) = FinWait2(c, seg)
    BY <1>9 DEF Handled
  <2>1. CASE has(seg, "FIN")
    <3>1. d = [c EXCEPT !.ack = next, !.state = "TIME_WAIT"]
          /\ a = {"ACK"}
      BY <2>0, <2>1 DEF FinWait2
    <3> HIDE DEF d, a, last, past, next
    <3>8. /\ d \in Connections /\ d.state = "TIME_WAIT" /\ d.ack = next /\ d.port = c.port
          /\ d.id = c.id /\ d.got = c.got /\ d.recv_len = c.recv_len
      BY <1>1, <1>2, <3>1 DEF Connections, States
    <3>9. Follows(c, seg, d, a)
      BY <3>8, <1>9, <2>1, <3>1 DEF Follows, Open, Closed, next
    <3> QED BY <3>9 DEF d, a
  <2>2. CASE ~has(seg, "FIN")
    <3>1. d = c /\ a = {}
      BY <2>0, <2>2 DEF FinWait2
    <3> HIDE DEF d, a, last, past, next
    <3>9. Follows(c, seg, d, a)
      BY <1>9, <3>1 DEF Follows, States, Open, Closed, last, past, next
    <3> QED BY <3>9 DEF d, a
  <2> QED BY <2>1, <2>2
<1>10. CASE c.state = "CLOSING"
  <2>0. Handled(c, seg) = Closing(c, seg)
    BY <1>10 DEF Handled
  <2>1. (d = c \/ d = [c EXCEPT !.state = "TIME_WAIT"]) /\ a = {}
    BY <2>0 DEF Closing
  <2> HIDE DEF d, a, last, past, next
  <2>9. Follows(c, seg, d, a)
    BY <1>4, <1>10, <2>1 DEF Follows, States, Open, Closed, last, past, next
  <2> QED BY <2>9 DEF d, a
<1>11. CASE c.state \in {"LAST_ACK", "TIME_WAIT", "CLOSE_WAIT"}
  <2>1. CASE c.state = "LAST_ACK"
    <3>1. (d = c \/ d = Free) /\ a = {}
      BY <2>1 DEF Handled, LastAck
    <3> HIDE DEF d, a, last, past, next
    <3>9. Follows(c, seg, d, a)
      BY <1>3, <2>1, <3>1 DEF Follows, States, Open, Closed, last, past, next
    <3> QED BY <3>9 DEF d, a
  <2>2. CASE c.state = "TIME_WAIT"
    <3>1. d = Free /\ a = {}
      BY <2>2 DEF Handled, TimeWait
    <3> HIDE DEF d, a, last, past, next
    <3>9. Follows(c, seg, d, a)
      BY <1>3, <2>2, <3>1 DEF Follows, States, Open, Closed, last, past, next
    <3> QED BY <3>9 DEF d, a
  <2>3. CASE c.state = "CLOSE_WAIT"
    <3>1. d = c /\ a = {}
      BY <2>3 DEF Handled
    <3> HIDE DEF d, a, last, past, next
    <3>9. Follows(c, seg, d, a)
      BY <2>3, <3>1 DEF Follows, States, Open, Closed, last, past, next
    <3> QED BY <3>9 DEF d, a
  <2> QED BY <1>11, <2>1, <2>2, <2>3
<1> QED BY <1>1, <1>6, <1>7, <1>8, <1>9, <1>10, <1>11 DEF States

-----------------------------------------------------------------------------
(* SYNs under way, as the queue to the peer changes. *)

Q == Seq(SegmentType(PeerFlags))

LEMMA SynsTail ==
  ASSUME NEW q \in Q, NEW R, NEW pr, SynsFirst(q, R, pr), q # <<>>,
         NEW S \in SUBSET R
  PROVE  SynsFirst(Tail(q), S, pr)
<1> DEFINE r == Tail(q)
<1>1. \A i \in DOMAIN r : i \in Int /\ i + 1 \in DOMAIN q /\ r[i] = q[i + 1]
  <2>1. r \in Q
    BY RangeTail DEF Q
  <2>2. \A i \in DOMAIN r : i \in Int
    <3> HIDE DEF r
    <3> QED BY <2>1 DEF Q
  <2> QED BY <2>2, RangeTail DEF Q
<1> HIDE DEF r
<1>2. ASSUME NEW i \in DOMAIN r, has(r[i], "SYN")
      PROVE  /\ pr[r[i].port].id = 0
             /\ \A seg \in S : seg.port # r[i].port
             /\ \A j \in DOMAIN r : j # i /\ has(r[j], "SYN") => r[j].port # r[i].port
  <2>1. i + 1 \in DOMAIN q /\ r[i] = q[i + 1] /\ i \in Int
    BY <1>1
  <2>2. /\ pr[r[i].port].id = 0
        /\ \A seg \in R : seg.port # r[i].port
        /\ \A j \in DOMAIN q : j # i + 1 /\ has(q[j], "SYN") => q[j].port # r[i].port
    BY <1>2, <2>1 DEF SynsFirst
  <2>3. \A j \in DOMAIN r : j # i => j + 1 # i + 1 /\ j + 1 \in DOMAIN q /\ r[j] = q[j + 1]
    BY <1>1
  <2> QED BY <2>2, <2>3
<1> QED BY <1>2 DEF SynsFirst, r

LEMMA SynsAppend ==
  ASSUME NEW q \in Q, NEW R, NEW pr, SynsFirst(q, R, pr),
         NEW e \in SegmentType(PeerFlags),
         has(e, "SYN") => /\ pr[e.port].id = 0
                          /\ \A seg \in R \cup Range(q) : seg.port # e.port
  PROVE  SynsFirst(Append(q, e), R, pr)
<1> DEFINE r == Append(q, e)
           n == Len(q) + 1
<1>1. /\ DOMAIN r = DOMAIN q \cup {n} /\ n \notin DOMAIN q
      /\ r[n] = e /\ \A i \in DOMAIN q : r[i] = q[i]
  BY AppendProperties DEF Q
<1>2. \A i \in DOMAIN q : q[i] \in Range(q)
  BY DEF Range
<1> HIDE DEF r, n
<1>3. SynsFirst(r, R, pr)
  BY <1>1, <1>2 DEF SynsFirst
<1> QED BY <1>3 DEF r

\* What happens at a port with no SYN under way matters to no SYN.
LEMMA SynsElsewhere ==
  ASSUME NEW q \in Q, NEW R, NEW pr, SynsFirst(q, R, pr), NEW p, NEW S, NEW pr2,
         \A seg \in Range(q) : has(seg, "SYN") => seg.port # p,
         \A seg \in S : seg \in R \/ seg.port = p,
         \A o \in Ports : o # p => pr2[o].id = pr[o].id
  PROVE  SynsFirst(q, S, pr2)
<1>1. \A i \in DOMAIN q : q[i] \in Range(q) /\ q[i].port \in Ports
  <2>1. ASSUME NEW i \in DOMAIN q PROVE q[i] \in SegmentType(PeerFlags)
    BY DEF Q
  <2>2. \A e \in SegmentType(PeerFlags) : e.port \in Ports
    BY DEF SegmentType
  <2> QED BY <2>1, <2>2 DEF Range
<1> QED BY <1>1 DEF SynsFirst

\* A SYN under way and an entry of the peer's table exclude each other.
LEMMA SynsNotHeard ==
  ASSUME NEW q \in Q, NEW R, NEW pr, SynsFirst(q, R, pr), NEW seg \in Range(q),
         has(seg, "SYN")
  PROVE  pr[seg.port].id = 0 /\ \A x \in R : x.port # seg.port
BY DEF SynsFirst, Range

\* The head of the queue, when it is a SYN, is the only one for its port.
LEMMA SynsHead ==
  ASSUME NEW q \in Q, NEW R, NEW pr, SynsFirst(q, R, pr), q # <<>>,
         has(Head(q), "SYN")
  PROVE  \A seg \in Range(Tail(q)) : has(seg, "SYN") => seg.port # Head(q).port
<1> DEFINE r == Tail(q)
<1>1. /\ r \in Q /\ 1 \in DOMAIN q /\ Head(q) = q[1]
      /\ \A i \in DOMAIN r : i + 1 \in DOMAIN q /\ r[i] = q[i + 1]
  BY RangeTail DEF Q
<1> HIDE DEF r
<1>2. \A i \in DOMAIN r : i \in Nat /\ i > 0 /\ i + 1 # 1
  BY <1>1 DEF Q
<1>3. \A j \in DOMAIN q : j # 1 /\ has(q[j], "SYN") => q[j].port # Head(q).port
  BY <1>1 DEF SynsFirst
<1>4. \A seg \in Range(r) : \E i \in DOMAIN r : seg = r[i]
  BY DEF Range
<1> QED BY <1>1, <1>2, <1>3, <1>4 DEF r

-----------------------------------------------------------------------------
(* What the handler and the calls of programs leave of the connections, the *)
(* segments and the peer.                                                    *)

LEMMA Constants ==
  /\ MAX_CONNECTIONS \in Nat /\ Capacity \in Nat /\ MaxConnects \in Nat /\ MaxData \in Nat
  /\ MaxFaults \in Nat /\ FirstPort \in Nat /\ LastPort \in Nat /\ FirstPort <= LastPort
  /\ NULL \notin Slots
BY TcpAssumption DEF Slots

LEMMA PacketFacts ==
  ASSUME TypeOK, Ids, NEW s \in in_use, NEW f \in PeerFlags
  PROVE  /\ Packet(s, f) \in SegmentType(PeerFlags)
         /\ Packet(s, f).port = conn[s].port /\ Packet(s, f).id = conn[s].id
         /\ Packet(s, f).flags = f
<1>1. conn[s] \in Connections /\ conn[s].id \in 1 .. opened /\ opened \in 0 .. MaxConnects
  BY DEF TypeOK, Ids, in_use
<1>2. conn[s].port \in Ports /\ conn[s].id \in 1 .. MaxConnects
  BY <1>1, Constants DEF Connections
<1>3. <<>> \in Seq(ByteType) /\ 0 \in 0 .. MaxData + 1
  BY Constants
<1> QED BY <1>2, <1>3 DEF Packet, Segment, SegmentType

\* What may become of connection s: it is freed, or goes on as d.
Successor(s, d) ==
  /\ d \in Connections /\ d.recv_len <= Len(d.got)
  /\ d.state = "free" => d = Free
  /\ d.state # "free" => d.port = conn[s].port /\ d.id = conn[s].id

\* And what keeps it apart from the other connections.
StaysApart(s, d) ==
  /\ d.state = "SYN_SENT" => conn[s].state = "SYN_SENT" /\ d.got = conn[s].got
  /\ conn[s].state = "SYN_SENT" /\ d.state \notin {"free", "SYN_SENT"}
       => peer[conn[s].port].id = conn[s].id
  /\ d.state \in Closed => conn[s].state \in Closed \/ peer[conn[s].port].fin
  /\ d.state # "free" => \A i \in DOMAIN d.got : d.got[i].id = conn[s].id

\* The answer, if there is one, is no SYN and comes from an open connection.
Answers(s, d) ==
  \/ to_peer' = to_peer
  \/ /\ d.state \notin {"free", "SYN_SENT"}
     /\ \E f \in PeerFlags \ {{"SYN"}} : to_peer' = Append(to_peer, Packet(s, f))

LEMMA HostConn ==
  ASSUME TypeOK, NEW s \in in_use, NEW d, conn' = [conn EXCEPT ![s] = d]
  PROVE  /\ s \in Slots
         /\ \A t \in Slots : conn'[t] = IF t = s THEN d ELSE conn[t]
         /\ \A t : t \in in_use' <=> t \in in_use /\ (t = s => d.state # "free")
BY DEF TypeOK, in_use

LEMMA HostTypes ==
  ASSUME TypeOK, WireTypes, Ids, NEW s \in in_use, NEW d, conn' = [conn EXCEPT ![s] = d],
         Successor(s, d), UNCHANGED <<peer, opened>>, Answers(s, d)
  PROVE  /\ conn' \in [Slots -> Connections]
         /\ \A t \in Slots : conn'[t].recv_len <= Len(conn'[t].got)
         /\ to_peer' \in Seq(SegmentType(PeerFlags))
         /\ Ids'
<1>1. /\ s \in Slots
      /\ \A t \in Slots : conn'[t] = IF t = s THEN d ELSE conn[t]
      /\ \A t : t \in in_use' <=> t \in in_use /\ (t = s => d.state # "free")
  BY HostConn
<1>2. conn' \in [Slots -> Connections] /\ \A t \in Slots : conn'[t].recv_len <= Len(conn'[t].got)
  <2>1. conn' \in [Slots -> Connections]
    BY <1>1 DEF TypeOK, Successor
  <2> QED BY <1>1, <2>1 DEF TypeOK, Successor
<1>3. to_peer' \in Seq(SegmentType(PeerFlags))
  <2>1. ASSUME NEW f \in PeerFlags, to_peer' = Append(to_peer, Packet(s, f))
        PROVE  to_peer' \in Seq(SegmentType(PeerFlags))
    BY <2>1, PacketFacts, RangeAppend DEF WireTypes
  <2> QED BY <2>1 DEF Answers, WireTypes
<1>4. Ids'
  <2>1. \A t \in Slots : t \notin in_use' => conn'[t] = Free
    BY <1>1 DEF Ids, Successor
  <2>2. \A t \in in_use' : t \in Slots /\ t \in in_use /\ conn'[t].id = conn[t].id
    BY <1>1 DEF Successor, in_use
  <2> QED BY <2>1, <2>2 DEF Ids
<1> QED BY <1>2, <1>3, <1>4

LEMMA HostSeparate ==
  ASSUME TypeOK, WireTypes, Ids, Separate, NoCrossTalk, ~Wrapped,
         NEW s \in in_use, NEW d, conn' = [conn EXCEPT ![s] = d],
         Successor(s, d), StaysApart(s, d), Answers(s, d),
         UNCHANGED <<peer, opened, next_port>>, Range(to_host') \subseteq Range(to_host)
  PROVE  Separate' /\ NoCrossTalk'
<1>1. /\ s \in Slots
      /\ \A t \in Slots : conn'[t] = IF t = s THEN d ELSE conn[t]
      /\ \A t : t \in in_use' <=> t \in in_use /\ (t = s => d.state # "free")
  BY HostConn
<1>2. \A t \in in_use' : /\ t \in Slots /\ t \in in_use
                         /\ conn'[t].id = conn[t].id /\ conn'[t].port = conn[t].port
                         /\ t # s => conn'[t] = conn[t]
  BY <1>1 DEF Successor, in_use
<1>3. \A t \in in_use : t # s => conn[t].port # conn[s].port
  BY DEF Ids, Separate, PortsOwned
<1>4. ASSUME NEW seg \in Range(to_peer'), seg \notin Range(to_peer)
      PROVE  /\ seg.port = conn[s].port /\ seg.id = conn[s].id /\ ~has(seg, "SYN")
             /\ d.state \notin {"free", "SYN_SENT"}
  <2>1. PICK f \in PeerFlags \ {{"SYN"}} : to_peer' = Append(to_peer, Packet(s, f))
    BY <1>4 DEF Answers
  <2>2. seg = Packet(s, f)
    BY <1>4, <2>1, PacketFacts, RangeAppend DEF WireTypes
  <2> QED BY <1>4, <2>1, <2>2, PacketFacts DEF has, PeerFlags, Answers
<1>5. PortsOwned'
  <2>1. conn[s].id = IdOf(conn[s].port) /\ conn[s].id <= opened
    BY Constants DEF Separate, PortsOwned, Ids, TypeOK
  <2>2. \A seg \in Range(to_host)' \cup Range(to_peer)' :
          seg.id = IdOf(seg.port) /\ seg.id <= opened
    BY <1>4, <2>1 DEF Separate, PortsOwned
  <2> QED BY <1>2, <2>2 DEF Separate, PortsOwned, IdOf
<1>6. PeerAhead'
  BY DEF Separate, PeerAhead
<1>7. SynFirst'
  <2>1. SynsFirst(to_peer, Range(to_host'), peer)
    BY DEF Separate, SynFirst, SynsFirst
  <2>2. CASE to_peer' = to_peer
    BY <2>1, <2>2 DEF SynFirst
  <2>3. ASSUME NEW f \in PeerFlags \ {{"SYN"}}, to_peer' = Append(to_peer, Packet(s, f))
        PROVE  SynFirst'
    <3> DEFINE e == Packet(s, f)
    <3>1. e \in SegmentType(PeerFlags) /\ ~has(e, "SYN")
      BY PacketFacts DEF has, PeerFlags
    <3> HIDE DEF e
    <3>2. SynsFirst(Append(to_peer, e), Range(to_host'), peer)
      BY <2>1, <3>1, SynsAppend DEF WireTypes, Q
    <3> QED BY <2>3, <3>2 DEF SynFirst, e
  <2> QED BY <2>2, <2>3 DEF Answers
<1>8. Unanswered'
  <2>1. ASSUME NEW t \in in_use', conn'[t].state = "SYN_SENT"
        PROVE  /\ conn'[t].got = <<>>
               /\ peer'[conn'[t].port].state # "ESTABLISHED"
               /\ \A seg \in Range(to_peer') : seg.port = conn'[t].port => has(seg, "SYN")
    <3>1. conn[t].state = "SYN_SENT" /\ conn'[t].got = conn[t].got
      BY <1>1, <1>2, <2>1 DEF StaysApart
    <3>2. /\ conn[t].got = <<>> /\ peer[conn[t].port].state # "ESTABLISHED"
          /\ \A seg \in Range(to_peer) : seg.port = conn[t].port => has(seg, "SYN")
      BY <1>2, <3>1 DEF Separate, Unanswered
    <3>3. \A seg \in Range(to_peer') : seg \notin Range(to_peer) => seg.port # conn[t].port
      BY <1>1, <1>2, <1>3, <1>4, <2>1
    <3> QED BY <1>2, <3>1, <3>2, <3>3
  <2> QED BY <2>1 DEF Unanswered
<1>9. NoCrossTalk'
  <2>1. ASSUME NEW t \in in_use'
        PROVE  /\ \A i \in DOMAIN conn'[t].got : conn'[t].got[i].id = conn'[t].id
               /\ conn'[t].state # "SYN_SENT" => peer'[conn'[t].port].id = conn'[t].id
               /\ conn'[t].state \in Closed => peer'[conn'[t].port].fin
    <3>1. /\ \A i \in DOMAIN conn[t].got : conn[t].got[i].id = conn[t].id
          /\ conn[t].state # "SYN_SENT" => peer[conn[t].port].id = conn[t].id
          /\ conn[t].state \in Closed => peer[conn[t].port].fin
      BY <1>2 DEF NoCrossTalk, Closed
    <3>2. CASE t # s
      BY <1>2, <3>1, <3>2
    <3>3. CASE t = s
      BY <1>1, <1>2, <3>1, <3>3 DEF StaysApart
    <3> QED BY <3>2, <3>3
  <2> QED BY <2>1 DEF NoCrossTalk, Closed
<1> QED BY <1>5, <1>6, <1>7, <1>8, <1>9 DEF Separate

LEMMA HostStreams ==
  ASSUME TypeOK, InOrder, UnderWay, InOrderStream, ~Wrapped, ~disturbed, ~dropped,
         NEW s \in in_use, NEW d, conn' = [conn EXCEPT ![s] = d], Successor(s, d),
         d.state # "free" => d.got = conn[s].got,
         d.state \in {"ESTABLISHED", "CLOSE_WAIT"} =>
           conn[s].state = d.state /\ d.ack = conn[s].ack,
         UNCHANGED <<peer, to_host>>
  PROVE  InOrder' /\ UnderWay' /\ InOrderStream'
<1>1. /\ s \in Slots
      /\ \A t \in Slots : conn'[t] = IF t = s THEN d ELSE conn[t]
      /\ \A t : t \in in_use' <=> t \in in_use /\ (t = s => d.state # "free")
  BY HostConn
<1>2. ASSUME NEW t \in in_use'
      PROVE  /\ t \in in_use /\ conn'[t].port = conn[t].port /\ conn'[t].got = conn[t].got
             /\ conn'[t].state \in {"ESTABLISHED", "CLOSE_WAIT"} =>
                  conn[t].state = conn'[t].state /\ conn'[t].ack = conn[t].ack
  BY <1>1 DEF Successor, in_use
<1>3. InOrder'
  BY DEF InOrder
<1>4. UnderWay'
  <2>1. Range(to_host') = Range(to_host)
    OBVIOUS
  <2> QED BY <1>2, <2>1 DEF UnderWay
<1>5. InOrderStream'
  <2>1. ASSUME NEW t \in in_use' PROVE Received(conn'[t], peer[conn'[t].port])
    BY <1>2, <2>1 DEF InOrderStream, Received
  <2> QED BY <2>1 DEF InOrderStream
<1> QED BY <1>3, <1>4, <1>5

-----------------------------------------------------------------------------
(* The calls of programs on a connection they have. *)

\* What a call of a may do to its connection, given by its type and the rest.
LEMMA CallStep ==
  ASSUME IInv, NEW s \in in_use, NEW d, conn' = [conn EXCEPT ![s] = d],
         Successor(s, d), Answers(s, d),
         d.state # "free" => d.got = conn[s].got,
         d.state \in {"ESTABLISHED", "CLOSE_WAIT", "SYN_SENT"} =>
           conn[s].state = d.state /\ d.ack = conn[s].ack,
         d.state \in Closed => conn[s].state \in Closed,
         d.state \notin {"free", "SYN_SENT"} => conn[s].state # "SYN_SENT",
         UNCHANGED <<peer, to_host, opened, next_port, refused, lost, disturbed,
                     dropped, faults>>, unsent' \subseteq 1 .. MaxConnects,
         handle' \in [Apps -> Slots \cup {NULL}], Handles'
  PROVE  IInv'
<1>1. TypeOK /\ WireTypes /\ Ids
  BY DEF IInv
<1>2. /\ conn' \in [Slots -> Connections]
      /\ \A t \in Slots : conn'[t].recv_len <= Len(conn'[t].got)
      /\ to_peer' \in Seq(SegmentType(PeerFlags))
      /\ Ids'
  BY <1>1, HostTypes
<1>3. TypeOK' /\ WireTypes'
  BY <1>1, <1>2 DEF TypeOK, WireTypes
<1>4. ASSUME ~Wrapped' PROVE Separate' /\ NoCrossTalk'
  <2>1. ~Wrapped /\ Separate /\ NoCrossTalk
    BY <1>4 DEF Wrapped, IInv
  <2>2. \A i \in DOMAIN conn[s].got : conn[s].got[i].id = conn[s].id
    BY <2>1 DEF NoCrossTalk
  <2>3. StaysApart(s, d)
    BY <2>2 DEF StaysApart
  <2> QED BY <1>1, <2>1, <2>3, HostSeparate
<1>5. ASSUME ~Wrapped', ~disturbed', ~dropped' PROVE InOrder' /\ UnderWay' /\ InOrderStream'
  <2>1. ~Wrapped /\ ~disturbed /\ ~dropped /\ InOrder /\ UnderWay /\ InOrderStream
    BY <1>5 DEF Wrapped, IInv
  <2> QED BY <1>1, <2>1, HostStreams
<1> QED BY <1>2, <1>3, <1>4, <1>5 DEF IInv

LEMMA HandleUsed ==
  ASSUME TypeOK, Ids, NEW a \in Apps, handle[a] # NULL,
         conn[handle[a]].state # "free" \/ conn[handle[a]].recv_len > 0
  PROVE  handle[a] \in in_use /\ handle[a] \in Slots
BY Constants DEF TypeOK, Ids, in_use, Free

LEMMA Send ==
  ASSUME IInv, NEW a \in Apps, tcp_send(a)
  PROVE  IInv'
<1> DEFINE s == handle[a]
           c == conn[s]
           d == [c EXCEPT !.send_len = @ + 1]
<1>0. TypeOK /\ WireTypes /\ Ids /\ Handles
  BY DEF IInv
<1>1. /\ s # NULL /\ c.state = "ESTABLISHED" /\ c.send_len < Capacity
      /\ to_peer' \in {to_peer, Append(to_peer, Packet(s, {"PSH", "ACK"}))}
      /\ UNCHANGED <<next_port, handle, opened, refused, unsent, to_host, lost, disturbed,
                     faults, peer, dropped>>
  BY DEF tcp_send, SentOrNot, Sent
<1>2. s \in in_use /\ s \in Slots
  BY <1>0, <1>1, HandleUsed
<1>3. conn' = [conn EXCEPT ![s] = d]
  BY DEF tcp_send
<1>4. c \in Connections /\ c.recv_len <= Len(c.got)
  BY <1>0, <1>2 DEF TypeOK
<1>5. /\ d \in Connections /\ d.state = "ESTABLISHED" /\ d.got = c.got /\ d.ack = c.ack
      /\ d.port = c.port /\ d.id = c.id /\ d.recv_len = c.recv_len
  <2>1. c.send_len + 1 \in 0 .. Capacity
    BY <1>1, <1>4, Constants, SMTT(30) DEF Connections
  <2> QED BY <1>1, <1>4, <2>1 DEF Connections
<1>6. \A t \in Slots : conn'[t].state = conn[t].state
  BY <1>0, <1>1, <1>2, <1>3, <1>5 DEF TypeOK
<1> HIDE DEF d
<1>7. Handles'
  <2>1. \A b \in Apps : handle[b] # NULL => conn'[handle[b]].state = conn[handle[b]].state
    BY <1>0, <1>6 DEF TypeOK
  <2> QED BY <1>0, <1>1, <2>1 DEF Handles
<1>8. Successor(s, d) /\ Answers(s, d)
  BY <1>1, <1>4, <1>5 DEF Successor, Answers, PeerFlags
<1>9. d.state \notin Closed /\ handle' \in [Apps -> Slots \cup {NULL}]
      /\ unsent' \subseteq 1 .. MaxConnects
  BY <1>0, <1>1, <1>5 DEF Closed, TypeOK
<1> HIDE DEF s
<1> QED BY <1>1, <1>2, <1>3, <1>5, <1>7, <1>8, <1>9, CallStep

LEMMA Recv ==
  ASSUME IInv, NEW a \in Apps, tcp_recv(a)
  PROVE  IInv'
<1> DEFINE s == handle[a]
           c == conn[s]
           d == [c EXCEPT !.recv_len = 0]
<1>0. TypeOK /\ WireTypes /\ Ids /\ Handles
  BY DEF IInv
<1>1. /\ s # NULL /\ c.recv_len > 0 /\ to_peer' = to_peer
      /\ UNCHANGED <<next_port, handle, opened, refused, unsent, to_host, lost, disturbed,
                     faults, peer, dropped>>
  BY DEF tcp_recv, network
<1>2. s \in in_use /\ s \in Slots
  BY <1>0, <1>1, HandleUsed
<1>3. conn' = [conn EXCEPT ![s] = d]
  BY DEF tcp_recv
<1>4. c \in Connections /\ c.state # "free"
  BY <1>0, <1>2 DEF TypeOK, in_use
<1>5. /\ d \in Connections /\ d.state = c.state /\ d.got = c.got /\ d.ack = c.ack
      /\ d.port = c.port /\ d.id = c.id /\ d.recv_len <= Len(d.got)
  <2>1. 0 \in 0 .. Capacity /\ c.got \in Seq(ByteType)
    BY <1>4, Constants DEF Connections, ByteType
  <2>2. /\ d \in Connections /\ d.state = c.state /\ d.got = c.got /\ d.ack = c.ack
        /\ d.port = c.port /\ d.id = c.id /\ d.recv_len = 0
    BY <1>4, <2>1 DEF Connections
  <2>3. Len(c.got) \in Nat
    BY <2>1
  <2> HIDE DEF d, c
  <2> QED BY <2>2, <2>3
<1>6. \A t \in Slots : conn'[t].state = conn[t].state
  BY <1>0, <1>1, <1>2, <1>3, <1>5 DEF TypeOK
<1> HIDE DEF d
<1>7. Handles'
  <2>1. \A b \in Apps : handle[b] # NULL => conn'[handle[b]].state = conn[handle[b]].state
    BY <1>0, <1>6 DEF TypeOK
  <2> QED BY <1>0, <1>1, <2>1 DEF Handles
<1>8. Successor(s, d) /\ Answers(s, d)
  BY <1>1, <1>4, <1>5 DEF Successor, Answers
<1>9. handle' \in [Apps -> Slots \cup {NULL}] /\ unsent' \subseteq 1 .. MaxConnects
  BY <1>0, <1>1 DEF TypeOK
<1> HIDE DEF s
<1> QED BY <1>1, <1>2, <1>3, <1>4, <1>5, <1>7, <1>8, <1>9, CallStep

\* A call that changes no more than what its program has.
LEMMA HandleStep ==
  ASSUME IInv, handle' \in [Apps -> Slots \cup {NULL}], Handles',
         UNCHANGED <<conn, next_port, opened, refused, unsent, to_host, to_peer, peer,
                     lost, disturbed, dropped, faults>>
  PROVE  IInv'
<1>1. TypeOK' /\ WireTypes' /\ Ids'
  BY DEF IInv, TypeOK, WireTypes, Ids, in_use
<1>2. ~Wrapped' => Separate' /\ NoCrossTalk'
  <2>1. Wrapped' <=> Wrapped
    BY DEF Wrapped
  <2>2. Separate => Separate'
    BY DEF Separate, PortsOwned, PeerAhead, SynFirst, Unanswered, in_use
  <2>3. NoCrossTalk => NoCrossTalk'
    BY DEF NoCrossTalk, Wrapped, in_use
  <2> QED BY <2>1, <2>2, <2>3 DEF IInv
<1>3. ~Wrapped' /\ ~disturbed' /\ ~dropped' => InOrder' /\ UnderWay' /\ InOrderStream'
  <2>1. Wrapped' <=> Wrapped
    BY DEF Wrapped
  <2>2. InOrder /\ UnderWay => InOrder' /\ UnderWay'
    BY DEF InOrder, UnderWay, in_use, Carried
  <2>3. InOrderStream => InOrderStream'
    BY DEF InOrderStream, Wrapped, in_use
  <2> QED BY <2>1, <2>2, <2>3 DEF IInv
<1> QED BY <1>1, <1>2, <1>3 DEF IInv

LEMMA Close ==
  ASSUME IInv, NEW a \in Apps, tcp_close(a)
  PROVE  IInv'
<1> DEFINE s == handle[a]
           c == conn[s]
<1>0. TypeOK /\ WireTypes /\ Ids /\ Handles
  BY DEF IInv
<1>1. /\ s # NULL /\ handle' = [handle EXCEPT ![a] = NULL]
      /\ UNCHANGED <<next_port, opened, refused, to_host, lost, disturbed, faults,
                     peer, dropped>>
  BY DEF tcp_close
<1>2. /\ handle' \in [Apps -> Slots \cup {NULL}]
      /\ \A b \in Apps : handle'[b] = IF b = a THEN NULL ELSE handle[b]
  BY <1>0, <1>1 DEF TypeOK
<1>3. s \in Slots
  BY <1>0, <1>1 DEF TypeOK
<1>4. ASSUME \A t \in Slots : t # s => conn'[t] = conn[t]
      PROVE  Handles'
  <2>1. ASSUME refused = {}, NEW b \in Apps, handle'[b] # NULL
        PROVE  /\ conn'[handle'[b]].state \in Open
               /\ \A x \in Apps \ {b} : handle'[x] # handle'[b]
    <3>1. b # a /\ handle'[b] = handle[b] /\ handle[b] # NULL
      BY <1>2, <2>1
    <3>2. /\ conn[handle[b]].state \in Open
          /\ \A x \in Apps \ {b} : handle[x] # handle[b]
      BY <1>0, <2>1, <3>1 DEF Handles
    <3>3. handle[b] # s /\ handle[b] \in Slots
      BY <1>0, <3>1, <3>2 DEF TypeOK
    <3>4. conn'[handle[b]] = conn[handle[b]]
      BY <1>4, <3>3
    <3> QED BY <1>2, <3>1, <3>2, <3>4
  <2> QED BY <1>1, <2>1 DEF Handles
<1>5. CASE UNCHANGED <<conn, to_peer, unsent>>
  <2>1. Handles'
    BY <1>4, <1>5
  <2> QED BY <1>1, <1>2, <1>5, <2>1, HandleStep
<1>6. ASSUME c.state \in {"ESTABLISHED", "CLOSE_WAIT", "SYN_SENT"}, NEW d,
             conn' = [conn EXCEPT ![s] = d], Successor(s, d), Answers(s, d),
             d.state # "free" => d.got = c.got,
             d.state \notin {"ESTABLISHED", "CLOSE_WAIT", "SYN_SENT"},
             d.state \in Closed => c.state \in Closed,
             d.state # "free" => c.state # "SYN_SENT",
             unsent' \subseteq 1 .. MaxConnects
      PROVE  IInv'
  <2>1. s \in in_use
    BY <1>3, <1>6 DEF in_use
  <2>2. \A t \in Slots : t # s => conn'[t] = conn[t]
    BY <1>0, <1>6 DEF TypeOK
  <2>3. Handles'
    BY <1>4, <2>2
  <2> HIDE DEF s
  <2> QED BY <1>1, <1>2, <1>6, <2>1, <2>3, CallStep
<1>7. ASSUME NEW from \in {"ESTABLISHED", "CLOSE_WAIT"}, NEW to, c.state = from,
             from = "ESTABLISHED" => to = "FIN_WAIT_1",
             from = "CLOSE_WAIT" => to = "LAST_ACK",
             conn' = [conn EXCEPT ![s].state = to],
             to_peer' = to_peer \/ to_peer' = Append(to_peer, Packet(s, {"FIN", "ACK"})),
             unsent' = unsent \/ unsent' = unsent \cup {c.id}
      PROVE  IInv'
  <2> DEFINE d == [c EXCEPT !.state = to]
  <2>1. conn' = [conn EXCEPT ![s] = d]
    BY <1>7
  <2>2. c \in Connections /\ c.recv_len <= Len(c.got)
    BY <1>0, <1>3 DEF TypeOK
  <2>3. /\ d \in Connections /\ d.state = to /\ d.got = c.got /\ d.port = c.port
        /\ d.id = c.id /\ d.recv_len = c.recv_len
    BY <2>2, <1>7 DEF Connections, States
  <2> HIDE DEF d
  <2>4. Successor(s, d)
    BY <1>7, <2>2, <2>3 DEF Successor
  <2>5. Answers(s, d)
    BY <1>7, <2>3 DEF Answers, PeerFlags
  <2>6. d.state \in Closed => c.state \in Closed
    BY <1>7, <2>3 DEF Closed
  <2>7. d.state \notin {"ESTABLISHED", "CLOSE_WAIT", "SYN_SENT"}
    BY <1>7, <2>3
  <2>8. unsent' \subseteq 1 .. MaxConnects
    <3>1. s \in in_use
      BY <1>3, <1>7 DEF in_use
    <3>2. c.id \in 1 .. opened /\ opened \in 0 .. MaxConnects
      BY <1>0, <3>1 DEF Ids, TypeOK
    <3>3. c.id \in 1 .. MaxConnects
      BY <3>2, Constants
    <3> QED BY <1>0, <1>7, <3>3 DEF TypeOK
  <2> HIDE DEF s
  <2> QED BY <1>6, <1>7, <2>1, <2>3, <2>4, <2>5, <2>6, <2>7, <2>8
<1>8. CASE c.state = "ESTABLISHED"
  <2>1. /\ conn' = [conn EXCEPT ![s].state = "FIN_WAIT_1"]
        /\ to_peer' = to_peer \/ to_peer' = Append(to_peer, Packet(s, {"FIN", "ACK"}))
        /\ unsent' = unsent \/ unsent' = unsent \cup {c.id}
    BY <1>8 DEF tcp_close, Sent
  <2> QED BY <1>7, <1>8, <2>1
<1>9. CASE c.state = "CLOSE_WAIT"
  <2>1. /\ conn' = [conn EXCEPT ![s].state = "LAST_ACK"]
        /\ to_peer' = to_peer \/ to_peer' = Append(to_peer, Packet(s, {"FIN", "ACK"}))
        /\ unsent' = unsent \/ unsent' = unsent \cup {c.id}
    BY <1>9 DEF tcp_close, Sent
  <2> QED BY <1>7, <1>9, <2>1
<1>10. CASE c.state = "SYN_SENT"
  <2>1. /\ conn' = [conn EXCEPT ![s] = Free] /\ to_peer' = to_peer
        /\ unsent' \subseteq 1 .. MaxConnects
    BY <1>0, <1>10 DEF tcp_close, TypeOK
  <2>2. Successor(s, Free) /\ Answers(s, Free) /\ Free.state = "free"
    BY <2>1, Constants DEF Successor, Answers, Free, Connections, States, Ports
  <2>3. Free.state \notin Closed
    BY <2>2 DEF Closed
  <2> QED BY <1>6, <1>10, <2>1, <2>2, <2>3
<1>11. CASE c.state \notin {"ESTABLISHED", "CLOSE_WAIT", "SYN_SENT"}
  BY <1>5, <1>11 DEF tcp_close
<1> QED BY <1>8, <1>9, <1>10, <1>11

-----------------------------------------------------------------------------
(* A new connection: until the ports wrap around, nobody has seen its port. *)

LEMMA Connect ==
  ASSUME IInv, NEW a \in Apps, tcp_connect(a)
  PROVE  IInv'
<1> DEFINE s == Min(Slots \ in_use)
           k == opened + 1
           p == next_port
           d == [Free EXCEPT !.state = "SYN_SENT", !.port = p, !.id = k]
           e == Segment(p, k, {"SYN"}, 0, <<>>)
           made == /\ conn' = [conn EXCEPT ![s] = d]
                   /\ handle' = [handle EXCEPT ![a] = s]
                   /\ to_peer' = Append(to_peer, e)
<1>0. TypeOK /\ WireTypes /\ Ids /\ Handles
  BY DEF IInv
<1>1. /\ handle[a] = NULL /\ in_use # Slots /\ opened < MaxConnects /\ opened' = k
      /\ next_port' = IF p = LastPort THEN FirstPort ELSE p + 1
      /\ UNCHANGED <<refused, unsent, to_host, lost, disturbed, faults, peer, dropped>>
      /\ made \/ UNCHANGED <<conn, handle, to_peer>>
  BY DEF tcp_connect, Sent
<1>2. s \in Slots /\ s \notin in_use
  <2>1. Slots \ in_use \in SUBSET Nat /\ Slots \ in_use # {}
    BY <1>1 DEF in_use, Slots
  <2>2. Min(Slots \ in_use) \in Slots \ in_use
    BY <2>1, MinFacts
  <2> QED BY <2>2
<1> HIDE DEF s
<1>3. /\ p \in Ports /\ p \in Int /\ k \in 1 .. MaxConnects /\ opened \in Nat
      /\ FirstPort <= p /\ p <= LastPort
  BY <1>0, <1>1, Constants DEF TypeOK, Ports
<1>4. next_port' \in Ports
  BY <1>1, <1>3, Constants DEF Ports
<1>5. /\ d \in Connections /\ d.state = "SYN_SENT" /\ d.port = p /\ d.id = k
      /\ d.got = <<>> /\ d.recv_len = 0 /\ Len(d.got) = 0
  <2>1. Free \in Connections /\ Free.got = <<>> /\ Free.recv_len = 0
    BY Constants DEF Free, Connections, States, Ports
  <2>2. k \in 0 .. MaxConnects /\ Len(<<>>) = 0
    BY <1>3
  <2> HIDE DEF k, p
  <2>3. /\ d \in Connections /\ d.state = "SYN_SENT" /\ d.port = p /\ d.id = k
        /\ d.got = Free.got /\ d.recv_len = Free.recv_len
    BY <1>3, <2>1, <2>2 DEF Connections, States
  <2> QED BY <2>1, <2>2, <2>3
<1>6. /\ e \in SegmentType(PeerFlags) /\ e.port = p /\ e.id = k /\ has(e, "SYN")
      /\ e.data = <<>>
  BY <1>3, Constants DEF Segment, SegmentType, PeerFlags, has
<1> HIDE DEF d, e
<1>7. \A t \in Slots : conn'[t] = conn[t] \/ (made /\ t = s /\ conn'[t] = d)
  BY <1>0, <1>1, <1>2 DEF TypeOK
<1>8. \A t \in in_use' : /\ t \in Slots
                         /\ \/ t \in in_use /\ t # s /\ conn'[t] = conn[t]
                            \/ t = s /\ conn'[t] = d
  BY <1>2, <1>7 DEF in_use
<1>9. /\ to_peer' \in Seq(SegmentType(PeerFlags))
      /\ \A seg \in Range(to_peer') : seg \in Range(to_peer) \/ seg = e
  <2>1. CASE made
    <3>1. /\ Append(to_peer, e) \in Seq(SegmentType(PeerFlags))
          /\ Range(Append(to_peer, e)) = Range(to_peer) \cup {e}
      BY <1>0, <1>6, RangeAppend DEF WireTypes
    <3> QED BY <2>1, <3>1
  <2>2. CASE UNCHANGED <<conn, handle, to_peer>>
    BY <2>2, <1>0 DEF WireTypes
  <2> QED BY <1>1, <2>1, <2>2
<1>10. TypeOK' /\ WireTypes'
  <2>1. conn' \in [Slots -> Connections] /\ handle' \in [Apps -> Slots \cup {NULL}]
    BY <1>0, <1>1, <1>2, <1>5 DEF TypeOK
  <2>2. \A t \in Slots : conn'[t].recv_len <= Len(conn'[t].got)
    BY <1>0, <1>5, <1>7 DEF TypeOK
  <2>3. TypeOK'
    BY <1>0, <1>1, <1>3, <1>4, <2>1, <2>2 DEF TypeOK
  <2> QED BY <1>0, <1>1, <1>9, <2>3 DEF WireTypes
<1>11. Ids'
  <2>1. \A t \in Slots : t \notin in_use' => conn'[t] = Free
    BY <1>0, <1>2, <1>5, <1>7 DEF Ids, in_use
  <2>2. \A t \in in_use : conn[t].id \in 1 .. opened
    BY <1>0 DEF Ids
  <2>3. \A t \in in_use' : conn'[t].id \in 1 .. k
    BY <1>3, <1>5, <1>8, <2>2
  <2>4. ASSUME NEW t \in in_use', NEW u \in in_use', t # u
        PROVE  conn'[t].id # conn'[u].id
    <3>1. CASE t # s /\ u # s
      BY <1>0, <1>8, <2>4, <3>1 DEF Ids
    <3>2. CASE t = s \/ u = s
      BY <1>3, <1>5, <1>8, <2>2, <2>4, <3>2
    <3> QED BY <3>1, <3>2
  <2> QED BY <1>0, <1>1, <2>1, <2>3, <2>4 DEF Ids
<1>12. Handles'
  <2>1. ASSUME refused = {}, NEW b \in Apps, handle[b] # NULL
        PROVE  /\ handle[b] # s /\ b # a /\ conn'[handle[b]] = conn[handle[b]]
               /\ conn[handle[b]].state \in Open
               /\ \A x \in Apps \ {b} : handle[x] # handle[b]
    <3>1. /\ conn[handle[b]].state \in Open
          /\ \A x \in Apps \ {b} : handle[x] # handle[b]
      BY <1>0, <2>1 DEF Handles
    <3>2. handle[b] \in Slots /\ handle[b] \in in_use
      BY <1>0, <2>1, <3>1 DEF TypeOK, in_use, Open
    <3> QED BY <1>1, <1>2, <1>7, <2>1, <3>1, <3>2
  <2>2. CASE made
    <3>1. \A b \in Apps : handle'[b] = IF b = a THEN s ELSE handle[b]
      BY <1>0, <2>2 DEF TypeOK
    <3>2. conn'[s].state = "SYN_SENT"
      BY <1>0, <1>2, <1>5, <2>2 DEF TypeOK
    <3>3. ASSUME refused = {}, NEW b \in Apps, handle'[b] # NULL
          PROVE  /\ conn'[handle'[b]].state \in Open
                 /\ \A x \in Apps \ {b} : handle'[x] # handle'[b]
      <4>1. CASE b = a
        <5>1. \A x \in Apps \ {a} : handle[x] # s
          BY <1>2, <2>1, <3>3, Constants
        <5> QED BY <3>1, <3>2, <4>1, <5>1 DEF Open
      <4>2. CASE b # a
        <5>1. handle'[b] = handle[b] /\ handle[b] # NULL
          BY <3>1, <3>3, <4>2
        <5> QED BY <2>1, <3>1, <3>3, <5>1
      <4> QED BY <4>1, <4>2
    <3> QED BY <1>1, <3>3 DEF Handles
  <2>3. CASE UNCHANGED <<conn, handle, to_peer>>
    BY <1>0, <1>1, <2>3 DEF Handles
  <2> QED BY <1>1, <2>2, <2>3
<1>13. ASSUME ~Wrapped'
       PROVE  /\ ~Wrapped /\ Separate /\ NoCrossTalk
              /\ p = FirstPort + opened /\ k = IdOf(p) /\ k <= LastPort - FirstPort + 1
  <2>1. k <= LastPort - FirstPort + 1
    BY <1>1, <1>13, <1>3, PortsCount, Constants DEF Wrapped
  <2>2. opened < Cardinality(Ports) /\ ~Wrapped
    BY <2>1, <1>3, PortsCount, Constants DEF Wrapped
  <2>3. Separate /\ NoCrossTalk
    BY <2>2 DEF IInv
  <2>4. p = FirstPort + opened
    BY <2>2, <2>3 DEF Separate, PortsOwned
  <2> QED BY <1>3, <2>1, <2>2, <2>3, <2>4, Constants DEF IdOf
<1>14. ASSUME ~Wrapped' PROVE Separate' /\ NoCrossTalk'
  <2>0. /\ Separate /\ NoCrossTalk /\ ~Wrapped
        /\ p = FirstPort + opened /\ k = IdOf(p) /\ k <= LastPort - FirstPort + 1
    BY <1>13, <1>14
  <2>1. /\ peer[p].id = 0
        /\ \A seg \in Range(to_host) \cup Range(to_peer) : seg.port # p
    BY <1>3, <2>0 DEF Separate, PortsOwned
  <2>2. PortsOwned'
    <3>1. opened' < Cardinality(Ports) => next_port' = FirstPort + opened'
      BY <1>1, <1>3, <2>0, PortsCount, Constants
    <3>2. \A t \in in_use' : conn'[t].id = IdOf(conn'[t].port)
      BY <1>5, <1>8, <2>0 DEF Separate, PortsOwned
    <3>3. ASSUME NEW seg \in Range(to_host)' \cup Range(to_peer)'
          PROVE  seg.id = IdOf(seg.port) /\ seg.id <= k
      <4>1. CASE seg \in Range(to_host) \cup Range(to_peer)
        <5>1. seg.id = IdOf(seg.port) /\ seg.id <= opened
          BY <2>0, <4>1 DEF Separate, PortsOwned
        <5>2. seg.id \in Int
          <6>1. seg \in SegmentType(HostFlags) \/ seg \in SegmentType(PeerFlags)
            BY <1>0, <4>1, RangeSeq, ElementOfSeq DEF WireTypes
          <6> QED BY <6>1 DEF SegmentType
        <5> QED BY <1>3, <5>1, <5>2
      <4>2. CASE seg = e
        BY <1>3, <1>6, <2>0, <4>2
      <4> QED BY <1>1, <1>9, <3>3, <4>1, <4>2
    <3>4. \A o \in Ports : peer[o].id # 0 => peer[o].id = IdOf(o) /\ peer[o].id <= k
      <4>1. \A o \in Ports : peer[o].id \in Int
        BY <1>0 DEF WireTypes, PeerType
      <4> QED BY <1>3, <2>0, <4>1 DEF Separate, PortsOwned
    <3> QED BY <1>1, <3>1, <3>2, <3>3, <3>4 DEF PortsOwned, IdOf
  <2>3. PeerAhead'
    BY <1>1, <2>0 DEF Separate, PeerAhead
  <2>4. SynFirst'
    <3>1. CASE made
      <4>1. SynsFirst(Append(to_peer, e), Range(to_host), peer)
        BY <1>0, <1>6, <2>0, <2>1, SynsAppend DEF Separate, SynFirst, WireTypes, Q
      <4> QED BY <1>1, <3>1, <4>1 DEF SynFirst
    <3>2. CASE UNCHANGED <<conn, handle, to_peer>>
      BY <1>1, <2>0, <3>2 DEF Separate, SynFirst
    <3> QED BY <1>1, <3>1, <3>2
  <2>5. Unanswered'
    <3>1. peer[p].state # "ESTABLISHED"
      BY <1>0, <1>3, <2>1 DEF Ids
    <3>2. ASSUME NEW t \in in_use', conn'[t].state = "SYN_SENT"
          PROVE  /\ conn'[t].got = <<>> /\ peer[conn'[t].port].state # "ESTABLISHED"
                 /\ \A seg \in Range(to_peer') : seg.port = conn'[t].port => has(seg, "SYN")
      <4>1. CASE t \in in_use /\ conn'[t] = conn[t]
        BY <1>6, <1>9, <2>0, <3>2, <4>1 DEF Separate, Unanswered
      <4>2. CASE conn'[t] = d
        BY <1>5, <1>6, <1>9, <2>1, <3>1, <4>2
      <4> QED BY <1>8, <4>1, <4>2
    <3> QED BY <1>1, <3>2 DEF Unanswered
  <2>6. NoCrossTalk'
    BY <1>1, <1>5, <1>8, <2>0 DEF NoCrossTalk
  <2> QED BY <2>2, <2>3, <2>4, <2>5, <2>6 DEF Separate
<1>15. ASSUME ~Wrapped', ~disturbed', ~dropped' PROVE InOrder' /\ UnderWay' /\ InOrderStream'
  <2>1. InOrder /\ UnderWay /\ InOrderStream /\ ~Wrapped /\ ~disturbed /\ ~dropped
    BY <1>1, <1>13, <1>15 DEF IInv
  <2>2. InOrder'
    BY <1>1, <2>1 DEF InOrder
  <2>3. UnderWay'
    <3>1. Range(to_host') = Range(to_host)
      BY <1>1
    <3> QED BY <1>1, <1>5, <1>8, <2>1, <3>1 DEF UnderWay
  <2>4. InOrderStream'
    <3>1. ASSUME NEW t \in in_use' PROVE Received(conn'[t], peer[conn'[t].port])
      BY <1>1, <1>5, <1>8, <1>15, <2>1, <3>1 DEF InOrderStream, Received
    <3> QED BY <1>1, <3>1 DEF InOrderStream
  <2> QED BY <2>2, <2>3, <2>4
<1> QED BY <1>10, <1>11, <1>12, <1>14, <1>15 DEF IInv

-----------------------------------------------------------------------------
(* A segment arrives. *)

LEMMA HeadFacts ==
  ASSUME WireTypes, to_host # <<>>
  PROVE  /\ Tail(to_host) \in Seq(SegmentType(HostFlags))
         /\ Head(to_host) \in SegmentType(HostFlags) /\ Carries(Head(to_host))
         /\ Head(to_host) \in Range(to_host)
         /\ Range(Tail(to_host)) \subseteq Range(to_host)
         /\ \A seg \in Range(to_host) : seg = Head(to_host) \/ seg \in Range(Tail(to_host))
BY RangeTail DEF WireTypes

\* In order, the segments behind the first one of a port begin where it ends.
LEMMA TailInOrder ==
  ASSUME WireTypes, to_host # <<>>, InOrder
  PROVE  /\ \A seg \in Range(Tail(to_host)) : seg.port = Head(to_host).port
              => Head(to_host).seq + Len(Head(to_host).data) <= seg.seq
         /\ to_host' = Tail(to_host) => InOrder'
<1> DEFINE r == Tail(to_host)
<1>1. /\ r \in Seq(SegmentType(HostFlags)) /\ Head(to_host) = to_host[1]
      /\ 1 \in DOMAIN to_host
      /\ \A i \in DOMAIN r : i + 1 \in DOMAIN to_host /\ r[i] = to_host[i + 1]
  BY RangeTail DEF WireTypes
<1> HIDE DEF r
<1>2. \A i \in DOMAIN r : i \in Int /\ i > 0 /\ 1 < i + 1
  BY <1>1
<1>3. \A seg \in Range(r) : \E i \in DOMAIN r : seg = r[i]
  BY DEF Range
<1>4. \A seg \in Range(r) : seg.port = Head(to_host).port
        => Head(to_host).seq + Len(Head(to_host).data) <= seg.seq
  BY <1>1, <1>2, <1>3 DEF InOrder
<1>5. ASSUME to_host' = r PROVE InOrder'
  <2>1. ASSUME NEW i \in DOMAIN r, NEW j \in DOMAIN r, i < j, r[i].port = r[j].port
        PROVE  r[i].seq + Len(r[i].data) <= r[j].seq
    <3>1. i + 1 < j + 1
      BY <1>2, <2>1
    <3> QED BY <1>1, <2>1, <3>1 DEF InOrder
  <2> QED BY <1>5, <2>1 DEF InOrder
<1> QED BY <1>4, <1>5 DEF r

\* No connection has the segment's port: it is dropped.
LEMMA ReceiveNone ==
  ASSUME IInv, Receive, find_connection(Head(to_host)) = {}
  PROVE  IInv'
<1> DEFINE seg == Head(to_host)
<1>0. TypeOK /\ WireTypes /\ Ids /\ Handles
  BY DEF IInv
<1>1. /\ to_host # <<>> /\ to_host' = Tail(to_host)
      /\ UNCHANGED <<conn, next_port, handle, opened, refused, unsent, to_peer, dropped,
                     lost, disturbed, faults, peer>>
  BY DEF Receive, tcp_handle_segment, host
<1>2. \A s \in in_use : conn[s].port # seg.port
  BY DEF find_connection
<1>3. TypeOK' /\ WireTypes' /\ Ids' /\ Handles'
  <2>1. TypeOK' /\ Ids' /\ Handles'
    BY <1>0, <1>1 DEF TypeOK, Ids, Handles, in_use
  <2>2. WireTypes'
    BY <1>0, <1>1, HeadFacts DEF WireTypes
  <2> QED BY <2>1, <2>2
<1>4. Wrapped' <=> Wrapped
  BY <1>1 DEF Wrapped
<1>5. ASSUME ~Wrapped PROVE Separate' /\ NoCrossTalk'
  <2>1. Separate /\ NoCrossTalk
    BY <1>5 DEF IInv
  <2>2. Range(to_host') \subseteq Range(to_host)
    BY <1>0, <1>1, HeadFacts
  <2>3. SynFirst'
    BY <1>1, <2>1, <2>2 DEF Separate, SynFirst, SynsFirst
  <2>4. PortsOwned' /\ PeerAhead' /\ Unanswered'
    BY <1>1, <2>1, <2>2 DEF Separate, PortsOwned, PeerAhead, Unanswered, in_use
  <2>5. NoCrossTalk'
    BY <1>1, <1>4, <2>1 DEF NoCrossTalk, in_use
  <2> QED BY <2>3, <2>4, <2>5 DEF Separate
<1>6. ASSUME ~Wrapped, ~disturbed, ~dropped PROVE InOrder' /\ UnderWay' /\ InOrderStream'
  <2>1. InOrder /\ UnderWay /\ InOrderStream
    BY <1>6 DEF IInv
  <2>2. InOrder'
    BY <1>0, <1>1, <2>1, TailInOrder
  <2>3. \A p, n : Carried(Range(to_host), p, n) /\ p # seg.port
                     => Carried(Range(to_host'), p, n)
    BY <1>0, <1>1, HeadFacts DEF Carried
  <2>4. UnderWay'
    <3>1. Range(to_host') \subseteq Range(to_host)
      BY <1>0, <1>1, HeadFacts
    <3> QED BY <1>1, <1>2, <2>1, <2>3, <3>1 DEF UnderWay, in_use
  <2>5. InOrderStream'
    BY <1>1, <2>1 DEF InOrderStream, Wrapped, in_use
  <2> QED BY <2>2, <2>4, <2>5
<1> QED BY <1>1, <1>3, <1>4, <1>5, <1>6 DEF IInv

\* A sequence with something appended is another one.
LEMMA GotGrows ==
  ASSUME NEW g \in Seq(ByteType), NEW x \in Seq(ByteType), g = g \o x
  PROVE  x = <<>>
<1>1. Len(g \o x) = Len(g) + Len(x) /\ Len(g) \in Nat /\ Len(x) \in Nat
  BY ConcatProperties
<1>2. Len(g) = Len(g) + Len(x)
  BY <1>1
<1>3. Len(x) = 0
  BY <1>1, <1>2
<1> QED BY <1>3, EmptySeq

\* While nothing was disturbed or dropped, the segment that an established
\* connection gets carries the next byte, or comes after the last.
LEMMA NextByte ==
  ASSUME WireTypes, Ids, PeerAhead, InOrder, UnderWay, to_host # <<>>,
         NEW s \in in_use, conn[s].state = "ESTABLISHED", conn[s] \in Connections,
         conn[s].port = Head(to_host).port
  PROVE  /\ Head(to_host).data # <<>> => Head(to_host).seq = Len(conn[s].got) + 1
         /\ has(Head(to_host), "FIN") =>
              /\ Head(to_host).seq = Len(conn[s].got) + 1
              /\ Len(conn[s].got) = peer[conn[s].port].sent - peer[conn[s].port].last
              /\ Head(to_host).seq + Len(Head(to_host).data) = peer[conn[s].port].sent + 1
<1> DEFINE seg == Head(to_host)
           p == conn[s].port
           n == Len(conn[s].got)
           m == seg.seq
           last == peer[p].sent
<1>1. /\ seg \in Range(to_host) /\ m \in Nat /\ n \in Nat /\ last \in Nat /\ p \in Ports
      /\ seg.data = <<>> => Len(seg.data) = 0
      /\ seg.data # <<>> => Len(seg.data) = 1
  <2>1. seg \in SegmentType(HostFlags) /\ Carries(seg) /\ seg \in Range(to_host)
    BY HeadFacts
  <2>2. m \in Nat /\ (seg.data # <<>> <=> Len(seg.data) = 1) /\ Len(seg.data) \in {0, 1}
    <3> HIDE DEF seg
    <3>1. /\ seg.seq \in 0 .. MaxData + 1 /\ Len(seg.data) \in {0, 1}
          /\ (seg.data # <<>> <=> Len(seg.data) = 1)
      BY <2>1, SegmentFacts
    <3> QED BY <3>1, Constants
  <2>3. p \in Ports /\ n \in Nat
    BY DEF Connections
  <2>4. last \in Nat
    BY <2>3, Constants DEF WireTypes, PeerType
  <2> QED BY <2>1, <2>2, <2>3, <2>4
<1>2. n <= last /\ \A x \in Range(to_host) : x.port = p /\ x.data # <<>> => n < x.seq
  BY DEF UnderWay
<1>3. ASSUME NEW l \in 1 .. last, n < l
      PROVE  \E x \in Range(to_host) : x.port = p /\ x.seq = l /\ x.data # <<>>
  BY <1>3 DEF UnderWay, Carried
<1>4. \A x \in Range(to_host) : x = seg \/ (x.port = p => m + Len(seg.data) <= x.seq)
  BY HeadFacts, TailInOrder
<1>5. m + Len(seg.data) <= last + 1
  BY <1>1 DEF PeerAhead
<1>6. ASSUME seg.data # <<>> PROVE m = n + 1
  <2>1. n < m /\ m <= last
    BY <1>1, <1>2, <1>5, <1>6
  <2>2. ASSUME n + 1 # m PROVE FALSE
    <3> DEFINE l == n + 1
    <3>1. l \in 1 .. last /\ n < l /\ l < m
      BY <1>1, <2>1, <2>2
    <3> HIDE DEF l, n, m, last, p, seg
    <3>2. PICK x \in Range(to_host) : x.port = p /\ x.seq = l
      BY <1>3, <3>1
    <3>3. x = seg \/ m + Len(seg.data) <= l
      BY <1>4, <3>2
    <3> QED BY <1>1, <1>6, <3>1, <3>2, <3>3 DEF m
  <2> QED BY <1>6, <2>2
<1>7. ASSUME seg.data = <<>> /\ has(seg, "FIN") PROVE m = n + 1
  <2>1. m = last + 1
    BY <1>1, <1>7 DEF PeerAhead
  <2>2. ASSUME n < last PROVE FALSE
    <3>1. last \in 1 .. last
      BY <1>1, <2>2
    <3> HIDE DEF n, m, last, p, seg
    <3>2. PICK x \in Range(to_host) : x.port = p /\ x.seq = last /\ x.data # <<>>
      BY <1>3, <2>2, <3>1
    <3>3. m <= last
      BY <1>1, <1>4, <1>7, <3>2
    <3> QED BY <1>1, <2>1, <3>3
  <2> QED BY <1>1, <1>2, <1>7, <2>1, <2>2
<1>8. ASSUME has(seg, "FIN")
      PROVE  m = n + 1 /\ n = last - peer[p].last /\ m + Len(seg.data) = last + 1
  <2>1. Len(seg.data) = peer[p].last /\ m + Len(seg.data) = last + 1
    BY <1>1, <1>8 DEF PeerAhead
  <2>2. m = n + 1
    BY <1>6, <1>7, <1>8
  <2>3. Len(seg.data) \in Nat
    BY <1>1
  <2> HIDE DEF m, n, last, p, seg
  <2> QED BY <1>1, <2>1, <2>2, <2>3
<1> QED BY <1>6, <1>8

\* The connection that takes the segment, and everything the step changes.
LEMMA Taken ==
  ASSUME IInv, Receive, find_connection(Head(to_host)) # {}
  PROVE  LET seg == Head(to_host)
             s == Min(find_connection(seg))
             d == Handled(conn[s], seg)[1]
         IN  /\ s \in in_use /\ s \in Slots /\ conn[s].port = seg.port
             /\ conn[s] \in Connections
             /\ conn' = [conn EXCEPT ![s] = d]
             /\ to_host # <<>> /\ to_host' = Tail(to_host)
             /\ \E answer : Follows(conn[s], seg, d, answer)
             /\ Successor(s, d) /\ Answers(s, d)
             /\ refused' = refused \cup
                  {a \in Apps : handle[a] = s /\ conn[s].state = "SYN_SENT" /\ d = Free}
             /\ dropped' = (dropped \/ (/\ conn[s].state = "ESTABLISHED"
                                        /\ d = conn[s] /\ seg.data # <<>>))
             /\ UNCHANGED <<next_port, handle, opened, unsent, lost, disturbed, faults, peer>>
<1> DEFINE seg == Head(to_host)
           hits == find_connection(seg)
           s == Min(hits)
           c == conn[s]
           d == Handled(c, seg)[1]
           answer == Handled(c, seg)[2]
<1>0. TypeOK /\ WireTypes
  BY DEF IInv
<1>1. /\ to_host # <<>> /\ to_host' = Tail(to_host) /\ tcp_handle_segment(seg)
      /\ UNCHANGED <<lost, disturbed, faults, peer>>
  BY DEF Receive
<1>2. s \in hits
  <2>1. hits \in SUBSET Nat /\ hits # {}
    BY DEF find_connection, in_use, Slots
  <2> QED BY <2>1, MinFacts
<1>3. s \in in_use /\ s \in Slots /\ c.port = seg.port
  BY <1>2 DEF find_connection, in_use
<1>4. /\ conn' = [conn EXCEPT ![s] = d]
      /\ refused' = refused \cup
           {a \in Apps : handle[a] = s /\ c.state = "SYN_SENT" /\ d = Free}
      /\ dropped' = (dropped \/ (c.state = "ESTABLISHED" /\ d = c /\ seg.data # <<>>))
      /\ IF answer = {} THEN to_peer' = to_peer
         ELSE to_peer' = Append(to_peer, Packet(s, answer)) \/ to_peer' = to_peer
      /\ UNCHANGED <<next_port, handle, opened, unsent>>
  <2>1. hits # {}
    OBVIOUS
  <2> HIDE DEF seg
  <2>2. tcp_handle_segment(seg) /\ hits # {}
    BY <1>1, <2>1
  <2> QED BY <2>2 DEF tcp_handle_segment, SentOrNot, Sent
<1>5. c \in Connections /\ c.state # "free" /\ c.recv_len <= Len(c.got)
  BY <1>0, <1>3 DEF TypeOK, in_use
<1>6. seg \in SegmentType(HostFlags) /\ Carries(seg)
  BY <1>0, <1>1, HeadFacts
<1> HIDE DEF c, seg
<1>7. Follows(c, seg, d, answer)
  BY <1>5, <1>6, HandledFacts
<1> HIDE DEF d, answer
<1>8. Successor(s, d)
  BY <1>7 DEF Follows, Successor, c
<1>9. Answers(s, d)
  BY <1>4, <1>7 DEF Follows, Answers, PeerFlags
<1> HIDE DEF s, hits
<1>10. \E x : Follows(c, seg, d, x)
  BY <1>7
<1> QED BY <1>1, <1>3, <1>4, <1>5, <1>8, <1>9, <1>10 DEF s, hits, c, d, seg

LEMMA ReceiveOne ==
  ASSUME IInv, Receive, find_connection(Head(to_host)) # {}
  PROVE  IInv'
<1> DEFINE seg == Head(to_host)
           s == Min(find_connection(seg))
           c == conn[s]
           d == Handled(c, seg)[1]
<1>0. TypeOK /\ WireTypes /\ Ids /\ Handles
  BY DEF IInv
<1>1. /\ s \in in_use /\ s \in Slots /\ c.port = seg.port /\ c \in Connections
      /\ conn' = [conn EXCEPT ![s] = d]
      /\ to_host # <<>> /\ to_host' = Tail(to_host)
      /\ Successor(s, d) /\ Answers(s, d)
      /\ refused' = refused \cup
           {a \in Apps : handle[a] = s /\ c.state = "SYN_SENT" /\ d = Free}
      /\ dropped' = (dropped \/ (c.state = "ESTABLISHED" /\ d = c /\ seg.data # <<>>))
      /\ UNCHANGED <<next_port, handle, opened, unsent, lost, disturbed, faults, peer>>
  BY Taken
<1>2. PICK answer : Follows(c, seg, d, answer)
  BY Taken
<1>3. seg \in SegmentType(HostFlags) /\ Carries(seg) /\ seg \in Range(to_host)
  BY <1>0, <1>1, HeadFacts
<1> HIDE DEF s, d, seg
<1>4. /\ \A t \in Slots : conn'[t] = IF t = s THEN d ELSE conn[t]
      /\ \A t : t \in in_use' <=> t \in in_use /\ (t = s => d.state # "free")
  BY <1>0, <1>1, HostConn
<1>5. /\ TypeOK' /\ WireTypes' /\ Ids'
  <2>1. /\ conn' \in [Slots -> Connections]
        /\ \A t \in Slots : conn'[t].recv_len <= Len(conn'[t].got)
        /\ to_peer' \in Seq(SegmentType(PeerFlags))
        /\ Ids'
    BY <1>0, <1>1, HostTypes
  <2>2. TypeOK'
    BY <1>0, <1>1, <2>1 DEF TypeOK
  <2>3. dropped' \in BOOLEAN
    BY <1>0, <1>1 DEF WireTypes
  <2>4. WireTypes'
    BY <1>0, <1>1, <2>1, <2>3, HeadFacts DEF WireTypes
  <2> QED BY <2>1, <2>2, <2>4
<1>6. Handles'
  <2>1. ASSUME refused' = {}, NEW a \in Apps, handle[a] # NULL
        PROVE  /\ conn'[handle[a]].state \in Open
               /\ \A b \in Apps \ {a} : handle[b] # handle[a]
    <3>1. refused = {}
      BY <1>1, <2>1
    <3>2. /\ handle[a] \in Slots /\ conn[handle[a]].state \in Open
          /\ \A b \in Apps \ {a} : handle[b] # handle[a]
      BY <1>0, <2>1, <3>1 DEF Handles, TypeOK
    <3>3. CASE handle[a] # s
      BY <1>4, <3>2, <3>3
    <3>4. CASE handle[a] = s
      <4>1. ~ (c.state = "SYN_SENT" /\ d = Free)
        BY <1>1, <2>1, <3>4
      <4>2. d.state # "free"
        BY <1>2, <3>2, <3>4, <4>1 DEF Follows, Open
      <4>3. d.state \in Open
        BY <1>2, <3>2, <3>4, <4>2 DEF Follows
      <4> QED BY <1>4, <3>2, <3>4, <4>3
    <3> QED BY <3>2, <3>3, <3>4
  <2> QED BY <1>1, <2>1 DEF Handles
<1>7. Wrapped' <=> Wrapped
  BY <1>1 DEF Wrapped
<1>8. ASSUME ~Wrapped PROVE /\ Separate' /\ NoCrossTalk'
                            /\ Separate /\ NoCrossTalk
  <2>1. Separate /\ NoCrossTalk
    BY <1>8 DEF IInv
  <2>2. Range(to_host') \subseteq Range(to_host)
    BY <1>0, <1>1, HeadFacts
  <2>3. c.id = seg.id
    BY <1>1, <1>3, <2>1 DEF Separate, PortsOwned
  <2>4. StaysApart(s, d)
    <3>1. d.state = "SYN_SENT" => c.state = "SYN_SENT" /\ d.got = c.got
      BY <1>2 DEF Follows
    <3>2. c.state = "SYN_SENT" /\ d.state \notin {"free", "SYN_SENT"}
            => peer[c.port].id = c.id
      <4>1. Welcome # Refusal
        BY DEF Welcome, Refusal
      <4> QED BY <1>1, <1>2, <1>3, <2>1, <2>3, <4>1 DEF Follows, Separate, PeerAhead
    <3>3. d.state \in Closed => c.state \in Closed \/ peer[c.port].fin
      BY <1>1, <1>2, <1>3, <2>1 DEF Follows, Separate, PeerAhead
    <3>4. ASSUME d.state # "free", NEW i \in DOMAIN d.got
          PROVE  d.got[i].id = c.id
      <4>1. \A j \in DOMAIN c.got : c.got[j].id = c.id
        BY <1>1, <1>8, <2>1 DEF NoCrossTalk
      <4>2. CASE d.got = c.got
        BY <3>4, <4>1, <4>2
      <4>3. CASE d.got # c.got
        <5>1. d.got = c.got \o seg.data /\ seg.data # <<>>
          BY <1>2, <3>4, <4>3 DEF Follows
        <5>2. /\ c.got \in Seq(ByteType) /\ seg.data \in Seq(ByteType)
              /\ Len(seg.data) = 1 /\ seg.data[1].id = seg.id
          <6>1. c.got \in Seq(ByteType)
            BY <1>1 DEF Connections, ByteType
          <6> QED BY <1>3, <5>1, <6>1, SegmentFacts
        <5>3. i \in 1 .. Len(c.got) + 1
              /\ d.got[i] = IF i <= Len(c.got) THEN c.got[i] ELSE seg.data[i - Len(c.got)]
          <6>1. /\ Len(c.got \o seg.data) = Len(c.got) + Len(seg.data)
                /\ c.got \o seg.data \in Seq(ByteType)
                /\ \A j \in 1 .. Len(c.got) + Len(seg.data) : (c.got \o seg.data)[j] =
                     IF j <= Len(c.got) THEN c.got[j] ELSE seg.data[j - Len(c.got)]
            <7> HIDE DEF c
            <7> QED BY ONLY <5>2, ConcatProperties
          <6>2. i \in 1 .. Len(c.got) + 1
            <7>1. DOMAIN d.got = 1 .. Len(d.got)
              BY <5>1, <6>1
            <7>2. Len(d.got) = Len(c.got) + 1
              BY <5>1, <5>2, <6>1
            <7> QED BY <3>4, <7>1, <7>2
          <6> QED BY <5>1, <5>2, <6>1, <6>2
        <5>4. CASE i <= Len(c.got)
          BY <4>1, <5>2, <5>3, <5>4
        <5>5. CASE ~ (i <= Len(c.got))
          <6>1. i - Len(c.got) = 1
            BY <5>2, <5>3, <5>5
          <6> QED BY <2>3, <5>2, <5>3, <5>5, <6>1
        <5> QED BY <5>4, <5>5
      <4> QED BY <4>2, <4>3
    <3> QED BY <3>1, <3>2, <3>3, <3>4 DEF StaysApart
  <2>5. Separate' /\ NoCrossTalk'
    BY <1>0, <1>1, <1>8, <2>1, <2>2, <2>4, HostSeparate
  <2> QED BY <2>1, <2>5
<1>9. ASSUME ~Wrapped, ~disturbed, ~dropped'
      PROVE  InOrder' /\ UnderWay' /\ InOrderStream'
  <2>0. /\ Separate /\ ~dropped /\ InOrder /\ UnderWay /\ InOrderStream
        /\ ~ (c.state = "ESTABLISHED" /\ d = c /\ seg.data # <<>>)
    BY <1>1, <1>8, <1>9 DEF IInv
  <2>1. InOrder'
    BY <1>0, <1>1, <2>0, TailInOrder
  <2>2. ASSUME NEW t \in in_use'
        PROVE  /\ t \in Slots /\ t \in in_use
               /\ \/ t = s /\ conn'[t] = d /\ d.state # "free" /\ d.port = c.port
                  \/ t # s /\ conn'[t] = conn[t] /\ conn[t].port # seg.port
    <3>1. t \in in_use /\ t \in Slots
      BY <1>4 DEF in_use
    <3>2. t # s => conn[t].port # c.port
      BY <1>0, <1>1, <2>0, <3>1 DEF Ids, Separate, PortsOwned
    <3> QED BY <1>1, <1>4, <3>1, <3>2 DEF Successor
  <2>3. /\ \A x \in Range(to_host') : x \in Range(to_host)
        /\ \A x \in Range(to_host) : x = seg \/ x \in Range(to_host')
        /\ \A x \in Range(to_host') :
             x.port = seg.port => seg.seq + Len(seg.data) <= x.seq
    BY <1>0, <1>1, <2>0, HeadFacts, TailInOrder DEF seg
  <2>4. c.state = "ESTABLISHED" =>
          /\ seg.data # <<>> => seg.seq = Len(c.got) + 1
          /\ has(seg, "FIN") =>
               /\ seg.seq = Len(c.got) + 1
               /\ Len(c.got) = peer[c.port].sent - peer[c.port].last
               /\ seg.seq + Len(seg.data) = peer[c.port].sent + 1
    BY <1>0, <1>1, <2>0, NextByte DEF Separate, seg
  <2>5. c.state = "SYN_SENT" => c.got = <<>> /\ peer[c.port].sent = 0
    BY <1>1, <2>0 DEF Separate, Unanswered, PeerAhead, Connections
  <2>6. /\ c.got \in Seq(ByteType) /\ seg.data \in Seq(ByteType) /\ seg.seq \in Nat
        /\ Len(seg.data) \in {0, 1} /\ (seg.data # <<>> <=> Len(seg.data) = 1)
        /\ seg.data # <<>> => seg.data[1].n = seg.seq
        /\ Len(c.got) \in Nat /\ c.port \in Ports
    <3>1. /\ seg.seq \in 0 .. MaxData + 1 /\ Len(seg.data) \in {0, 1}
          /\ (seg.data # <<>> <=> Len(seg.data) = 1) /\ seg.data \in Seq(ByteType)
          /\ seg.data # <<>> => seg.data[1].n = seg.seq
      BY <1>3, SegmentFacts
    <3>2. c.got \in Seq(ByteType) /\ c.port \in Ports
      BY <1>1 DEF Connections, ByteType
    <3>3. Len(c.got) \in Nat
      BY <3>2
    <3> QED BY <3>1, <3>2, <3>3, Constants
  <2>7. \/ d.got = c.got
        \/ /\ c.state = "ESTABLISHED" /\ d.state = "ESTABLISHED" /\ seg.data # <<>>
           /\ d.got = c.got \o seg.data /\ d.ack = seg.seq + 1
           /\ Len(d.got) = Len(c.got) + 1
           /\ \A i \in 1 .. Len(d.got) :
                d.got[i] = IF i <= Len(c.got) THEN c.got[i] ELSE seg.data[i - Len(c.got)]
        \/ d.state = "free"
    <3>1. CASE d.state # "free" /\ d.got # c.got
      <4>1. /\ c.state = "ESTABLISHED" /\ d.state = "ESTABLISHED" /\ seg.data # <<>>
            /\ d.got = c.got \o seg.data /\ d.ack = seg.seq + Len(seg.data)
        BY <1>2, <3>1 DEF Follows
      <4>2. Len(seg.data) = 1
        BY <2>6, <4>1
      <4>3. /\ Len(d.got) = Len(c.got) + Len(seg.data)
            /\ \A i \in 1 .. Len(c.got) + Len(seg.data) :
                 d.got[i] = IF i <= Len(c.got) THEN c.got[i] ELSE seg.data[i - Len(c.got)]
        <5>1. c.got \in Seq(ByteType) /\ seg.data \in Seq(ByteType)
          BY <2>6
        <5>2. /\ Len(c.got \o seg.data) = Len(c.got) + Len(seg.data)
              /\ \A j \in 1 .. Len(c.got) + Len(seg.data) : (c.got \o seg.data)[j] =
                   IF j <= Len(c.got) THEN c.got[j] ELSE seg.data[j - Len(c.got)]
          <6> HIDE DEF c
          <6> QED BY ONLY <5>1, ConcatProperties
        <5> QED BY <4>1, <5>2
      <4> QED BY <4>1, <4>2, <4>3
    <3> QED BY <3>1
  <2>d. d.got = c.got => ~ (seg.data # <<>> /\ d.got = c.got \o seg.data)
    <3> SUFFICES ASSUME c.got = c.got \o seg.data PROVE seg.data = <<>>
      OBVIOUS
    <3> HIDE DEF c
    <3> QED BY <2>6, GotGrows
  <2>8. UnderWay'
    <3>1. ASSUME NEW t \in in_use', conn'[t].state = "ESTABLISHED"
          PROVE  LET p == conn'[t].port
                     g == Len(conn'[t].got)
                 IN  /\ g <= peer[p].sent
                     /\ \A x \in Range(to_host') : x.port = p /\ x.data # <<>> => g < x.seq
                     /\ \A n \in 1 .. peer[p].sent :
                          g < n => Carried(Range(to_host'), p, n)
      <4>1. CASE t # s
        <5>1. conn'[t] = conn[t] /\ conn[t].port # seg.port /\ t \in in_use
          BY <2>2, <4>1
        <5>2. \A n : Carried(Range(to_host), conn[t].port, n)
                      => Carried(Range(to_host'), conn[t].port, n)
          BY <2>3, <5>1 DEF Carried
        <5> QED BY <2>0, <2>3, <3>1, <5>1, <5>2 DEF UnderWay
      <4>2. CASE t = s /\ c.state = "SYN_SENT"
        <5>1. conn'[t] = d /\ d.port = c.port /\ d.got = c.got /\ d.state # "free"
          BY <1>2, <2>2, <3>1, <4>2 DEF Follows
        <5>2. c.got = <<>> /\ peer[c.port].sent = 0 /\ Len(<<>>) = 0
          BY <2>5, <4>2
        <5>3. \A x \in Range(to_host) : x.data # <<>> => 0 < x.seq
          <6>1. ASSUME NEW x \in Range(to_host), x.data # <<>> PROVE 0 < x.seq
            <7>1. Carries(x)
              BY <1>0 DEF WireTypes
            <7>2. x.seq \in 1 .. MaxData
              BY <6>1, <7>1 DEF Carries
            <7> QED BY <7>2, Constants
          <6> QED BY <6>1
        <5>4. 1 .. 0 = {}
          OBVIOUS
        <5> QED BY <2>3, <5>1, <5>2, <5>3, <5>4
      <4>3. CASE t = s /\ c.state = "ESTABLISHED" /\ d.got = c.got
        <5>0. d = c
          BY <1>2, <2>2, <2>d, <3>1, <4>3 DEF Follows
        <5>1. conn'[t] = d /\ d.port = c.port /\ seg.data = <<>>
          BY <2>0, <2>2, <4>3, <5>0
        <5>2. \A n : Carried(Range(to_host), c.port, n)
                      => Carried(Range(to_host'), c.port, n)
          BY <2>3, <5>1 DEF Carried
        <5> QED BY <1>1, <2>0, <2>3, <4>3, <5>1, <5>2 DEF UnderWay
      <4>4. CASE t = s /\ c.state = "ESTABLISHED" /\ d.got # c.got
        <5>1. /\ conn'[t] = d /\ d.port = c.port /\ seg.data # <<>> /\ d.state # "free"
              /\ Len(d.got) = Len(c.got) + 1 /\ Len(seg.data) = 1
              /\ seg.seq = Len(c.got) + 1
          BY <2>2, <2>4, <2>6, <2>7, <4>4
        <5>2. seg.seq + Len(seg.data) <= peer[c.port].sent + 1
          BY <1>1, <1>3, <2>0 DEF Separate, PeerAhead
        <5>3. peer[c.port].sent \in Nat
          BY <1>0, <2>6, Constants DEF WireTypes, PeerType
        <5>4. Len(d.got) <= peer[c.port].sent
          BY <2>6, <5>1, <5>2, <5>3
        <5>5. ASSUME NEW x \in Range(to_host'), x.port = c.port PROVE Len(d.got) < x.seq
          <6>1. seg.seq + 1 <= x.seq
            BY <1>1, <2>3, <5>1, <5>5
          <6>2. x.seq \in Int
            <7>1. to_host' \in Seq(SegmentType(HostFlags))
              BY <1>5 DEF WireTypes
            <7>2. x \in SegmentType(HostFlags)
              BY <7>1, <5>5, RangeSeq, ElementOfSeq
            <7> QED BY <7>2 DEF SegmentType
          <6> QED BY <2>6, <5>1, <6>1, <6>2
        <5>6. ASSUME NEW n \in 1 .. peer[c.port].sent, Len(d.got) < n
              PROVE  Carried(Range(to_host'), c.port, n)
          <6>1. Len(c.got) < n /\ n # seg.seq
            BY <2>6, <5>1, <5>3, <5>6
          <6>2. Carried(Range(to_host), c.port, n)
            BY <1>1, <2>0, <4>4, <6>1 DEF UnderWay
          <6>3. PICK x \in Range(to_host) : x.port = c.port /\ x.seq = n /\ x.data # <<>>
            BY <6>2 DEF Carried
          <6>4. x \in Range(to_host')
            BY <2>3, <6>1, <6>3
          <6> QED BY <6>3, <6>4 DEF Carried
        <5> HIDE DEF c
        <5> QED BY <5>1, <5>4, <5>5, <5>6
      <4>5. t = s => c.state \in {"SYN_SENT", "ESTABLISHED"}
        BY <1>2, <2>2, <3>1 DEF Follows
      <4> HIDE DEF c
      <4> QED BY <4>1, <4>2, <4>3, <4>4, <4>5
    <3> QED BY <1>1, <3>1 DEF UnderWay
  <2>9. InOrderStream'
    <3>1. ASSUME NEW t \in in_use' PROVE Received(conn'[t], peer[conn'[t].port])
      <4>0. ASSUME NEW u \in in_use PROVE Received(conn[u], peer[conn[u].port])
        BY <1>9, <2>0 DEF InOrderStream
      <4>1. CASE t # s
        BY <2>2, <4>0, <4>1
      <4>2. CASE t = s /\ d.got = c.got
        <5>1. conn'[t] = d /\ d.state # "free"
          BY <2>2, <4>2
        <5>2. \A i \in DOMAIN d.got : d.got[i].n = i
          BY <1>1, <4>0, <4>2 DEF Received
        <5>3. d.state = "ESTABLISHED" => d.ack = Len(d.got) + 1
          <6>1. CASE c.state = "SYN_SENT" /\ d.state = "ESTABLISHED"
            <7>1. seg.flags = Welcome /\ d.ack = seg.seq + 1
              BY <1>2, <6>1 DEF Follows
            <7>2. seg.seq = 0
              BY <1>3, <7>1 DEF Carries
            <7>3. Len(c.got) = 0
              BY <2>5, <6>1
            <7> QED BY <4>2, <7>1, <7>2, <7>3
          <6>2. CASE c.state = "ESTABLISHED" /\ d.state = "ESTABLISHED"
            <7>1. d = c
              BY <1>2, <2>d, <4>2, <6>2 DEF Follows
            <7> QED BY <1>1, <4>0, <6>2, <7>1 DEF Received
          <6> QED BY <1>2, <6>1, <6>2 DEF Follows
        <5>4. d.state = "CLOSE_WAIT" => Len(d.got) = peer[c.port].sent - peer[c.port].last
                                        /\ d.ack = peer[c.port].sent + 2
          <6>1. CASE d = c
            BY <1>1, <4>0, <6>1 DEF Received
          <6>2. CASE d # c /\ d.state = "CLOSE_WAIT"
            <7>1. c.state = "ESTABLISHED" /\ has(seg, "FIN") /\ d.ack = seg.seq + Len(seg.data) + 1
              BY <1>2, <6>2 DEF Follows
            <7>2. /\ Len(c.got) = peer[c.port].sent - peer[c.port].last
                  /\ seg.seq + Len(seg.data) = peer[c.port].sent + 1
              BY <2>4, <7>1
            <7>3. peer[c.port].sent \in Nat
              BY <1>0, <2>6, Constants DEF WireTypes, PeerType
            <7> QED BY <2>6, <4>2, <7>1, <7>2, <7>3
          <6> QED BY <6>1, <6>2
        <5>5. d.port = c.port
          BY <2>2, <4>2
        <5> QED BY <5>1, <5>2, <5>3, <5>4, <5>5 DEF Received
      <4>3. CASE t = s /\ d.got # c.got
        <5>1. conn'[t] = d /\ d.state # "free"
          BY <2>2, <4>3
        <5>2. /\ c.state = "ESTABLISHED" /\ d.state = "ESTABLISHED" /\ seg.data # <<>>
              /\ d.ack = seg.seq + 1 /\ Len(d.got) = Len(c.got) + 1
              /\ seg.seq = Len(c.got) + 1
              /\ \A i \in 1 .. Len(d.got) :
                   d.got[i] = IF i <= Len(c.got) THEN c.got[i] ELSE seg.data[i - Len(c.got)]
          BY <2>4, <2>7, <4>3, <5>1
        <5>3. DOMAIN d.got = 1 .. Len(d.got) /\ DOMAIN c.got = 1 .. Len(c.got)
          BY <1>1, <2>6 DEF Successor, Connections
        <5>4. ASSUME NEW i \in 1 .. Len(d.got) PROVE d.got[i].n = i
          <6>1. CASE i <= Len(c.got)
            BY <1>1, <2>6, <4>0, <5>2, <5>3, <6>1, SMTT(30) DEF Received
          <6>2. CASE ~ (i <= Len(c.got))
            <7>1. i - Len(c.got) = 1 /\ i = Len(c.got) + 1
              BY <2>6, <5>2, <6>2
            <7> QED BY <2>6, <5>2, <6>2, <7>1
          <6> QED BY <6>1, <6>2
        <5> QED BY <2>6, <5>1, <5>2, <5>3, <5>4 DEF Received
      <4> QED BY <4>1, <4>2, <4>3
    <3> QED BY <1>1, <3>1 DEF InOrderStream
  <2> QED BY <2>1, <2>8, <2>9
<1> QED BY <1>1, <1>5, <1>6, <1>7, <1>8, <1>9 DEF IInv

-----------------------------------------------------------------------------
(* The network and the peer. *)

LEMMA PeerQueue ==
  ASSUME WireTypes,
         to_peer' = to_peer \/ (to_peer # <<>> /\ to_peer' = Tail(to_peer))
  PROVE  /\ to_peer' \in Seq(SegmentType(PeerFlags))
         /\ Range(to_peer') \subseteq Range(to_peer)
         /\ \A S \in SUBSET Range(to_host) :
              SynFirst => SynsFirst(to_peer', S, peer)
<1>1. CASE to_peer' = to_peer
  BY <1>1 DEF WireTypes, SynFirst, SynsFirst
<1>2. CASE to_peer # <<>> /\ to_peer' = Tail(to_peer)
  BY <1>2, RangeTail, SynsTail DEF WireTypes, SynFirst, Q
<1> QED BY <1>1, <1>2

\* Segments are lost, repeated or overtaken, or the peer ignores one.
LEMMA Fewer ==
  ASSUME IInv, UNCHANGED <<host, peer, dropped>>, faults' \in 0 .. MaxFaults,
         lost' \in BOOLEAN, disturbed' \in BOOLEAN,
         to_host' \in Seq(SegmentType(HostFlags)),
         Range(to_host') \subseteq Range(to_host),
         to_peer' = to_peer \/ (to_peer # <<>> /\ to_peer' = Tail(to_peer)),
         disturbed' \/ (to_host' = to_host /\ disturbed' = disturbed)
  PROVE  IInv'
<1>0. TypeOK /\ WireTypes /\ Ids /\ Handles
  BY DEF IInv
<1>1. TypeOK' /\ Ids' /\ Handles' /\ WireTypes' /\ (Wrapped' <=> Wrapped)
  <2>1. TypeOK' /\ Ids' /\ Handles' /\ (Wrapped' <=> Wrapped)
    BY <1>0 DEF TypeOK, Ids, Handles, in_use, host, Wrapped
  <2>2. WireTypes'
    BY <1>0, PeerQueue DEF WireTypes
  <2> QED BY <2>1, <2>2
<1>2. ASSUME ~Wrapped PROVE Separate' /\ NoCrossTalk'
  <2>1. Separate /\ NoCrossTalk
    BY <1>2 DEF IInv
  <2>2. SynFirst'
    BY <1>0, <2>1, PeerQueue DEF Separate, SynFirst
  <2>3. PortsOwned' /\ PeerAhead' /\ Unanswered'
    BY <1>0, <2>1, PeerQueue DEF Separate, PortsOwned, PeerAhead, Unanswered, in_use, host
  <2>4. NoCrossTalk'
    BY <1>1, <2>1 DEF NoCrossTalk, in_use, host
  <2> QED BY <2>2, <2>3, <2>4 DEF Separate
<1>3. ASSUME ~Wrapped, ~disturbed', ~dropped' PROVE InOrder' /\ UnderWay' /\ InOrderStream'
  <2>1. InOrder /\ UnderWay /\ InOrderStream /\ ~disturbed /\ ~dropped
    BY <1>3 DEF IInv
  <2>2. to_host' = to_host
    BY <1>3
  <2>3. InOrder' /\ UnderWay'
    BY <2>1, <2>2 DEF InOrder, UnderWay, in_use, host, Carried
  <2>4. InOrderStream'
    BY <1>1, <2>1, <2>2 DEF InOrderStream, in_use, host
  <2> QED BY <2>3, <2>4
<1> QED BY <1>1, <1>2, <1>3 DEF IInv

LEMMA FaultStep ==
  ASSUME IInv, Lose \/ Repeat \/ Overtake
  PROVE  IInv'
<1>0. TypeOK /\ WireTypes
  BY DEF IInv
<1>1. /\ faults' \in 0 .. MaxFaults /\ disturbed' = TRUE /\ UNCHANGED <<host, peer, dropped>>
      /\ lost' \in BOOLEAN
  <2>1. Fault /\ lost' \in BOOLEAN
    BY <1>0 DEF Lose, Repeat, Overtake, WireTypes
  <2>2. faults' \in 0 .. MaxFaults
    BY <1>0, <2>1, Constants DEF Fault, TypeOK
  <2> QED BY <2>1, <2>2 DEF Fault
<1>2. to_peer' = to_peer \/ (to_peer # <<>> /\ to_peer' = Tail(to_peer))
  BY DEF Lose, Repeat, Overtake
<1>3. to_host' \in Seq(SegmentType(HostFlags)) /\ Range(to_host') \subseteq Range(to_host)
  <2>1. CASE Lose
    <3>1. CASE to_host' = to_host
      BY <1>0, <3>1 DEF WireTypes
    <3>2. ASSUME NEW i \in DOMAIN to_host, to_host' = RemoveAt(to_host, i)
          PROVE  /\ to_host' \in Seq(SegmentType(HostFlags))
                 /\ Range(to_host') \subseteq Range(to_host)
      BY <1>0, <3>2, RangeRemoveAt DEF WireTypes
    <3> QED BY <2>1, <3>1, <3>2 DEF Lose
  <2>2. CASE Repeat
    <3>1. PICK i \in DOMAIN to_host : to_host' = Append(to_host, to_host[i])
      BY <2>2 DEF Repeat
    <3>2. to_host[i] \in SegmentType(HostFlags) /\ to_host[i] \in Range(to_host)
      BY <1>0 DEF WireTypes, Range
    <3> QED BY <1>0, <3>1, <3>2, RangeAppend DEF WireTypes
  <2>3. CASE Overtake
    <3>1. PICK i \in 2 .. Len(to_host) :
            to_host' = [to_host EXCEPT ![i - 1] = to_host[i], ![i] = to_host[i - 1]]
      BY <2>3 DEF Overtake
    <3> QED BY <1>0, <3>1, RangeSwap DEF WireTypes
  <2> QED BY <2>1, <2>2, <2>3
<1> QED BY <1>1, <1>2, <1>3, Fewer

\* The peer, which has a connection at port p, goes on with it and may say so.
LEMMA PeerTalks ==
  ASSUME IInv, UNCHANGED <<host, lost, disturbed, faults, dropped>>,
         NEW p \in Ports, NEW n \in PeerType, peer' = [peer EXCEPT ![p] = n],
         peer[p].id # 0, n.id = peer[p].id, n.state = "ESTABLISHED",
         n.sent \in {peer[p].sent, peer[p].sent + 1},
         peer[p].fin => n.fin /\ n.sent = peer[p].sent /\ n.last = peer[p].last,
         NEW e \in SegmentType(HostFlags), Carries(e), e.port = p, e.id = n.id,
         e.seq = peer[p].sent + 1, e.seq + Len(e.data) = n.sent + 1,
         has(e, "FIN") => n.fin /\ Len(e.data) = n.last,
         \/ to_host' = Append(to_host, e)
         \/ to_host' = to_host /\ n.sent = peer[p].sent,
         to_peer' = to_peer \/ (to_peer # <<>> /\ to_peer' = Tail(to_peer)),
         ~Wrapped => \A s \in in_use : conn[s].state = "SYN_SENT" => conn[s].port # p
  PROVE  IInv'
<1>0. TypeOK /\ WireTypes /\ Ids /\ Handles
  BY DEF IInv
<1>1. \A o \in Ports : peer'[o] = IF o = p THEN n ELSE peer[o]
  BY <1>0 DEF WireTypes
<1>2. /\ peer[p].sent \in Nat /\ n.sent \in Nat /\ n.sent >= peer[p].sent
      /\ e.seq \in Nat /\ Len(e.data) \in {0, 1} /\ (e.data # <<>> <=> Len(e.data) = 1)
  <2>1. peer[p].sent \in Nat /\ n.sent \in Nat
    BY <1>0, Constants DEF WireTypes, PeerType
  <2>2. e.seq \in 0 .. MaxData + 1 /\ Len(e.data) \in {0, 1} /\ (e.data # <<>> <=> Len(e.data) = 1)
    BY SegmentFacts
  <2> QED BY <2>1, <2>2, Constants
<1>3. /\ to_host' \in Seq(SegmentType(HostFlags))
      /\ \A x \in Range(to_host') : x \in Range(to_host) \/ x = e
      /\ Range(to_host) \subseteq Range(to_host')
      /\ to_host' = Append(to_host, e) => e \in Range(to_host')
  <2>1. to_host \in Seq(SegmentType(HostFlags))
    BY <1>0 DEF WireTypes
  <2>2. CASE to_host' = Append(to_host, e)
    <3>1. to_host' \in Seq(SegmentType(HostFlags)) /\ Range(to_host') = Range(to_host) \cup {e}
      BY <2>1, <2>2, RangeAppend
    <3> QED BY <3>1
  <2>3. CASE to_host' = to_host /\ to_host' # Append(to_host, e)
    BY <2>1, <2>3
  <2> QED BY <2>2, <2>3
<1>4. TypeOK' /\ WireTypes' /\ Ids' /\ Handles' /\ (Wrapped' <=> Wrapped)
  <2>1. TypeOK' /\ Handles' /\ (Wrapped' <=> Wrapped)
    BY <1>0 DEF TypeOK, Handles, host, Wrapped, in_use
  <2>2. peer' \in [Ports -> PeerType] /\ \A x \in Range(to_host') : Carries(x)
    BY <1>0, <1>3 DEF WireTypes
  <2>3. WireTypes'
    BY <1>0, <1>3, <2>2, PeerQueue DEF WireTypes
  <2>4. Ids'
    BY <1>0, <1>1 DEF Ids, in_use, host
  <2> QED BY <2>1, <2>3, <2>4
<1>5. \A x \in Range(to_host) : x.port \in Ports
  <2>1. \A x \in Range(to_host) : x \in SegmentType(HostFlags)
    BY <1>0, RangeSeq, ElementOfSeq DEF WireTypes
  <2> QED BY <2>1 DEF SegmentType
<1>6. ASSUME ~Wrapped PROVE Separate /\ NoCrossTalk /\ Separate' /\ NoCrossTalk'
  <2>1. Separate /\ NoCrossTalk
    BY <1>6 DEF IInv
  <2>2. PortsOwned'
    <3>1. e.id = IdOf(p) /\ e.id <= opened
      BY <2>1 DEF Separate, PortsOwned
    <3>2. Range(to_peer') \subseteq Range(to_peer)
      BY <1>0, PeerQueue
    <3>3. \A x \in Range(to_host') \cup Range(to_peer') : x.id = IdOf(x.port) /\ x.id <= opened
      BY <1>3, <2>1, <3>1, <3>2 DEF Separate, PortsOwned
    <3>4. \A o \in Ports : peer'[o].id = peer[o].id
      BY <1>1
    <3> QED BY <2>1, <3>3, <3>4 DEF Separate, PortsOwned, host, in_use, IdOf
  <2>3. PeerAhead'
    <3>1. \A o \in Ports : peer'[o].state # "ESTABLISHED" => peer'[o].sent = 0 /\ ~peer'[o].fin
      BY <1>1, <2>1 DEF Separate, PeerAhead
    <3>2. ASSUME NEW x \in Range(to_host')
          PROVE  /\ x.flags # Refusal => peer'[x.port].id = x.id
                 /\ has(x, "FIN") => /\ peer'[x.port].fin
                                     /\ Len(x.data) = peer'[x.port].last
                                     /\ x.seq + Len(x.data) = peer'[x.port].sent + 1
                 /\ x.seq + Len(x.data) <= peer'[x.port].sent + 1
      <4>1. CASE x = e
        BY <1>1, <1>2, <4>1
      <4>2. CASE x \in Range(to_host) /\ x.port # p
        BY <1>1, <1>5, <2>1, <4>2 DEF Separate, PeerAhead
      <4>3. CASE x \in Range(to_host) /\ x.port = p
        <5>1. /\ x.flags # Refusal => peer[p].id = x.id
              /\ has(x, "FIN") => /\ peer[p].fin /\ Len(x.data) = peer[p].last
                                  /\ x.seq + Len(x.data) = peer[p].sent + 1
              /\ x.seq + Len(x.data) <= peer[p].sent + 1
          BY <2>1, <4>3 DEF Separate, PeerAhead
        <5>2. x.seq + Len(x.data) \in Int
          <6>1. x \in SegmentType(HostFlags) /\ Carries(x)
            BY <1>0, <4>3, RangeSeq, ElementOfSeq DEF WireTypes
          <6>2. x.seq + Len(x.data) \in 0 .. MaxData + 1
            BY <6>1, SegmentFacts
          <6> QED BY <6>2
        <5> QED BY <1>1, <1>2, <4>3, <5>1, <5>2
      <4> QED BY <1>3, <4>1, <4>2, <4>3
    <3> QED BY <3>1, <3>2 DEF PeerAhead
  <2>4. SynFirst'
    <3>1. SynsFirst(to_peer', Range(to_host), peer) /\ to_peer' \in Q
      BY <1>0, <2>1, PeerQueue DEF Separate, Q
    <3>2. \A x \in Range(to_peer') : has(x, "SYN") => x.port # p
      BY <3>1, SynsNotHeard
    <3>3. \A o \in Ports : o # p => peer'[o].id = peer[o].id
      BY <1>1
    <3>4. \A x \in Range(to_host') : x \in Range(to_host) \/ x.port = p
      BY <1>3
    <3>5. ASSUME NEW R, NEW S, NEW q \in Q, NEW pr, NEW pr2,
                 SynsFirst(q, R, pr), \A x \in Range(q) : has(x, "SYN") => x.port # p,
                 \A x \in S : x \in R \/ x.port = p,
                 \A o \in Ports : o # p => pr2[o].id = pr[o].id
          PROVE  SynsFirst(q, S, pr2)
      BY ONLY <3>5, SynsElsewhere, ZenonT(60)
    <3>6. SynsFirst(to_peer', Range(to_host'), peer')
      BY ONLY <3>1, <3>2, <3>3, <3>4, <3>5, Zenon
    <3> QED BY <3>6 DEF SynFirst
  <2>5. Unanswered'
    <3>1. Range(to_peer') \subseteq Range(to_peer)
      BY <1>0, PeerQueue
    <3>2. \A s \in in_use : conn[s].port \in Ports
      BY <1>0 DEF TypeOK, Connections, in_use
    <3> QED BY <1>1, <1>6, <2>1, <3>1, <3>2 DEF Separate, Unanswered, host, in_use
  <2>6. NoCrossTalk'
    <3>1. \A s \in in_use : conn[s].port \in Ports
      BY <1>0 DEF TypeOK, Connections, in_use
    <3>2. \A o \in Ports : peer'[o].id = peer[o].id /\ (peer[o].fin => peer'[o].fin)
      BY <1>1
    <3> QED BY <1>4, <1>6, <2>1, <3>1, <3>2 DEF NoCrossTalk, host, in_use
  <2> QED BY <2>1, <2>2, <2>3, <2>4, <2>5, <2>6 DEF Separate
<1>7. ASSUME ~Wrapped, ~disturbed, ~dropped PROVE InOrder' /\ UnderWay' /\ InOrderStream'
  <2>1. InOrder /\ UnderWay /\ InOrderStream /\ PeerAhead
    BY <1>6, <1>7 DEF IInv, Separate
  <2>2. InOrder'
    <3>1. CASE to_host' = to_host
      BY <2>1, <3>1 DEF InOrder
    <3>2. CASE to_host' = Append(to_host, e)
      <4> DEFINE r == Append(to_host, e)
                 k == Len(to_host) + 1
      <4>1. /\ DOMAIN r = DOMAIN to_host \cup {k} /\ DOMAIN to_host = 1 .. Len(to_host)
            /\ r[k] = e /\ \A i \in DOMAIN to_host : r[i] = to_host[i]
            /\ Len(to_host) \in Nat
        BY <1>0, AppendProperties DEF WireTypes
      <4> HIDE DEF r
      <4>2. \A i \in DOMAIN to_host : i < k /\ to_host[i] \in Range(to_host)
        BY <4>1 DEF Range
      <4>3. \A i \in DOMAIN to_host : to_host[i].port = p
              => to_host[i].seq + Len(to_host[i].data) <= e.seq
        BY <2>1, <4>2 DEF PeerAhead
      <4>4. \A i \in DOMAIN to_host : ~ (k < i)
        BY <4>1
      <4> HIDE DEF k
      <4>5. k \in Nat /\ ~ (k < k)
        BY <4>1 DEF k
      <4>6. ASSUME NEW i \in DOMAIN r, NEW j \in DOMAIN r, i < j, r[i].port = r[j].port
            PROVE  r[i].seq + Len(r[i].data) <= r[j].seq
        <5>1. i # k
          BY <4>1, <4>4, <4>5, <4>6
        <5>2. CASE j = k
          BY <4>1, <4>3, <4>6, <5>1, <5>2
        <5>3. CASE j # k
          BY <2>1, <4>1, <4>6, <5>1, <5>3 DEF InOrder
        <5> QED BY <5>2, <5>3
      <4> QED BY <3>2, <4>6 DEF InOrder, r
    <3> QED BY <3>1, <3>2
  <2>3. UnderWay'
    <3>1. ASSUME NEW s \in in_use, conn[s].state = "ESTABLISHED"
          PROVE  /\ Len(conn[s].got) <= peer'[conn[s].port].sent
                 /\ \A x \in Range(to_host') :
                      x.port = conn[s].port /\ x.data # <<>> => Len(conn[s].got) < x.seq
                 /\ \A m \in 1 .. peer'[conn[s].port].sent :
                      Len(conn[s].got) < m => Carried(Range(to_host'), conn[s].port, m)
      <4> DEFINE o == conn[s].port
                 g == Len(conn[s].got)
      <4>0. o \in Ports /\ g \in Nat
        BY <1>0 DEF TypeOK, Connections, in_use
      <4>1. /\ g <= peer[o].sent
            /\ \A x \in Range(to_host) : x.port = o /\ x.data # <<>> => g < x.seq
            /\ \A m \in 1 .. peer[o].sent : g < m => Carried(Range(to_host), o, m)
        BY <2>1, <3>1 DEF UnderWay
      <4>2. \A m : Carried(Range(to_host), o, m) => Carried(Range(to_host'), o, m)
        BY <1>3 DEF Carried
      <4> HIDE DEF o, g
      <4> DEFINE Whole == /\ g <= peer'[o].sent
                          /\ \A x \in Range(to_host') : x.port = o /\ x.data # <<>> => g < x.seq
                          /\ \A m \in 1 .. peer'[o].sent : g < m => Carried(Range(to_host'), o, m)
      <4>3. ASSUME o # p PROVE Whole
        BY <1>1, <1>3, <4>0, <4>1, <4>2, <4>3
      <4>4. ASSUME o = p PROVE Whole
        <5>1. peer'[o] = n /\ g <= n.sent /\ g <= peer[p].sent
          BY <1>1, <1>2, <4>0, <4>1, <4>4
        <5>2. g < e.seq
          BY <1>2, <4>0, <5>1
        <5>3. \A x \in Range(to_host') : x.port = o /\ x.data # <<>> => g < x.seq
          BY <1>3, <4>1, <5>2
        <5>4. ASSUME NEW m \in 1 .. n.sent, g < m
              PROVE  Carried(Range(to_host'), o, m)
          <6>1. CASE m \in 1 .. peer[p].sent
            BY <4>1, <4>2, <4>4, <5>4, <6>1
          <6>2. CASE m \notin 1 .. peer[p].sent
            <7>1. m = e.seq /\ e.data # <<>> /\ n.sent # peer[p].sent
              BY <1>2, <6>2
            <7>2. e \in Range(to_host')
              BY <1>3, <7>1
            <7> QED BY <4>4, <7>1, <7>2 DEF Carried
          <6> QED BY <6>1, <6>2
        <5> QED BY <5>1, <5>3, <5>4
      <4> QED BY <4>3, <4>4 DEF o, g
    <3> QED BY <3>1 DEF UnderWay, host, in_use
  <2>4. InOrderStream'
    <3>1. ASSUME NEW s \in in_use PROVE Received(conn[s], peer'[conn[s].port])
      <4>1. Received(conn[s], peer[conn[s].port]) /\ conn[s].port \in Ports
        BY <1>0, <1>7, <2>1 DEF InOrderStream, TypeOK, Connections, in_use
      <4>2. conn[s].state = "CLOSE_WAIT" => peer[conn[s].port].fin
        BY <1>6, <1>7 DEF NoCrossTalk
      <4> QED BY <1>1, <4>1, <4>2 DEF Received
    <3> QED BY <1>4, <3>1 DEF InOrderStream, host, in_use
  <2> QED BY <2>2, <2>3, <2>4
<1> QED BY <1>4, <1>6, <1>7 DEF IInv

\* The peer hears of port p for the first time, and welcomes or refuses the SYN.
LEMMA PeerHears ==
  ASSUME IInv, UNCHANGED <<host, lost, disturbed, faults, dropped>>,
         to_peer # <<>>, to_peer' = Tail(to_peer), has(Head(to_peer), "SYN"),
         NEW p \in Ports, p = Head(to_peer).port,
         NEW n \in PeerType, peer' = [peer EXCEPT ![p] = n],
         NEW e \in SegmentType(HostFlags), e.port = p, e.id = Head(to_peer).id,
         e.seq = 0, e.data = <<>>, to_host' = Append(to_host, e),
         \/ e.flags = Refusal /\ n = peer[p]
         \/ /\ e.flags = Welcome
            /\ n.state = "SYN_RCVD" /\ n.id = e.id /\ n.sent = 0 /\ ~n.fin
  PROVE  IInv'
<1>0. TypeOK /\ WireTypes /\ Ids /\ Handles
  BY DEF IInv
<1>1. \A o \in Ports : peer'[o] = IF o = p THEN n ELSE peer[o]
  BY <1>0 DEF WireTypes
<1>2. /\ to_host' \in Seq(SegmentType(HostFlags)) /\ Range(to_host') = Range(to_host) \cup {e}
      /\ Carries(e) /\ ~has(e, "FIN") /\ Len(e.data) = 0 /\ n.sent \in Nat
  <2>1. to_host' \in Seq(SegmentType(HostFlags)) /\ Range(to_host') = Range(to_host) \cup {e}
    BY <1>0, RangeAppend DEF WireTypes
  <2>2. n.sent \in Nat
    BY Constants DEF PeerType
  <2>3. Carries(e) /\ ~has(e, "FIN")
    BY DEF Carries, has, Refusal, Welcome
  <2> QED BY <2>1, <2>2, <2>3
<1>3. /\ to_peer' \in Q /\ Range(to_peer') \subseteq Range(to_peer)
      /\ Head(to_peer) \in Range(to_peer) /\ to_peer \in Q
  BY <1>0, RangeTail DEF WireTypes, Q
<1>4. TypeOK' /\ WireTypes' /\ Ids' /\ Handles' /\ (Wrapped' <=> Wrapped)
  <2>1. TypeOK' /\ Handles' /\ (Wrapped' <=> Wrapped)
    BY <1>0 DEF TypeOK, Handles, host, Wrapped, in_use
  <2>2. peer' \in [Ports -> PeerType] /\ \A x \in Range(to_host') : Carries(x)
    BY <1>0, <1>2 DEF WireTypes
  <2>3. WireTypes'
    BY <1>0, <1>2, <1>3, <2>2 DEF WireTypes, Q
  <2>4. Ids'
    BY <1>0, <1>1 DEF Ids, in_use, host
  <2> QED BY <2>1, <2>3, <2>4
<1>5. \A x \in Range(to_host) : x.port \in Ports
  <2>1. \A x \in Range(to_host) : x \in SegmentType(HostFlags)
    BY <1>0, RangeSeq, ElementOfSeq DEF WireTypes
  <2> QED BY <2>1 DEF SegmentType
<1>6. \A s \in in_use : conn[s].port \in Ports
  BY <1>0 DEF TypeOK, Connections, in_use
<1>7. ASSUME ~Wrapped
      PROVE  /\ Separate /\ NoCrossTalk /\ peer[p].id = 0
             /\ \A x \in Range(to_host) : x.port # p
             /\ \A s \in in_use : conn[s].port = p => conn[s].state = "SYN_SENT"
  <2>1. Separate /\ NoCrossTalk
    BY <1>7 DEF IInv
  <2>2. peer[p].id = 0 /\ \A x \in Range(to_host) : x.port # p
    BY <1>3, <2>1, SynsNotHeard DEF Separate, SynFirst
  <2>3. ASSUME NEW s \in in_use, conn[s].port = p, conn[s].state # "SYN_SENT" PROVE FALSE
    <3>1. conn[s].id = 0
      BY <1>7, <2>1, <2>2, <2>3 DEF NoCrossTalk
    <3>2. conn[s].id \in 1 .. opened
      BY <1>0 DEF Ids
    <3> QED BY <3>1, <3>2
  <2> QED BY <2>1, <2>2, <2>3
<1>8. ASSUME ~Wrapped PROVE Separate' /\ NoCrossTalk'
  <2>1. PortsOwned'
    <3>1. e.id = IdOf(p) /\ e.id <= opened
      BY <1>3, <1>7, <1>8 DEF Separate, PortsOwned
    <3>2. \A x \in Range(to_host') \cup Range(to_peer') : x.id = IdOf(x.port) /\ x.id <= opened
      BY <1>2, <1>3, <1>7, <1>8, <3>1 DEF Separate, PortsOwned
    <3>3. \A o \in Ports : peer'[o].id # 0 => peer'[o].id = IdOf(o) /\ peer'[o].id <= opened
      BY <1>1, <1>7, <1>8, <3>1 DEF Separate, PortsOwned
    <3> QED BY <1>7, <1>8, <3>2, <3>3 DEF Separate, PortsOwned, host, in_use, IdOf
  <2>2. PeerAhead'
    <3>1. \A o \in Ports : peer'[o].state # "ESTABLISHED" => peer'[o].sent = 0 /\ ~peer'[o].fin
      BY <1>1, <1>7, <1>8 DEF Separate, PeerAhead
    <3>2. ASSUME NEW x \in Range(to_host')
          PROVE  /\ x.flags # Refusal => peer'[x.port].id = x.id
                 /\ has(x, "FIN") => /\ peer'[x.port].fin
                                     /\ Len(x.data) = peer'[x.port].last
                                     /\ x.seq + Len(x.data) = peer'[x.port].sent + 1
                 /\ x.seq + Len(x.data) <= peer'[x.port].sent + 1
      <4>1. CASE x = e
        <5>1. e.seq + Len(e.data) <= n.sent + 1
          BY <1>2
        <5> QED BY <1>1, <1>2, <4>1, <5>1
      <4>2. CASE x \in Range(to_host)
        BY <1>1, <1>5, <1>7, <1>8, <4>2 DEF Separate, PeerAhead
      <4> QED BY <1>2, <4>1, <4>2
    <3> QED BY <3>1, <3>2 DEF PeerAhead
  <2>3. SynFirst'
    <3>1. SynsFirst(to_peer', Range(to_host), peer)
      BY <1>3, <1>7, <1>8, SynsTail DEF Separate, SynFirst
    <3>2. \A x \in Range(to_peer') : has(x, "SYN") => x.port # p
      BY <1>3, <1>7, <1>8, SynsHead DEF Separate, SynFirst
    <3>3. \A o \in Ports : o # p => peer'[o].id = peer[o].id
      BY <1>1
    <3>4. \A x \in Range(to_host') : x \in Range(to_host) \/ x.port = p
      BY <1>2
    <3>5. ASSUME NEW R, NEW S, NEW q \in Q, NEW pr, NEW pr2,
                 SynsFirst(q, R, pr), \A x \in Range(q) : has(x, "SYN") => x.port # p,
                 \A x \in S : x \in R \/ x.port = p,
                 \A o \in Ports : o # p => pr2[o].id = pr[o].id
          PROVE  SynsFirst(q, S, pr2)
      BY ONLY <3>5, SynsElsewhere, ZenonT(60)
    <3>6. SynsFirst(to_peer', Range(to_host'), peer')
      BY ONLY <1>3, <3>1, <3>2, <3>3, <3>4, <3>5, Zenon
    <3> QED BY <3>6 DEF SynFirst
  <2>4. Unanswered'
    BY <1>1, <1>3, <1>6, <1>7, <1>8 DEF Separate, Unanswered, host, in_use
  <2>5. NoCrossTalk'
    BY <1>1, <1>4, <1>6, <1>7, <1>8 DEF NoCrossTalk, host, in_use
  <2> QED BY <2>1, <2>2, <2>3, <2>4, <2>5 DEF Separate
<1>9. ASSUME ~Wrapped, ~disturbed, ~dropped PROVE InOrder' /\ UnderWay' /\ InOrderStream'
  <2>1. InOrder /\ UnderWay /\ InOrderStream
    BY <1>9 DEF IInv
  <2>2. InOrder'
    <3> DEFINE r == Append(to_host, e)
               k == Len(to_host) + 1
    <3>1. /\ DOMAIN r = DOMAIN to_host \cup {k} /\ r[k] = e
          /\ \A i \in DOMAIN to_host : r[i] = to_host[i] /\ to_host[i] \in Range(to_host)
      BY <1>0, AppendProperties DEF WireTypes, Range
    <3>2. k \in Nat /\ ~ (k < k)
      BY <1>0 DEF WireTypes
    <3> HIDE DEF r, k
    <3>3. ASSUME NEW i \in DOMAIN r, NEW j \in DOMAIN r, i < j, r[i].port = r[j].port
          PROVE  r[i].seq + Len(r[i].data) <= r[j].seq
      <4>1. i # k /\ j # k
        BY <1>7, <1>9, <3>1, <3>2, <3>3
      <4> QED BY <2>1, <3>1, <3>3, <4>1 DEF InOrder
    <3> QED BY <3>3 DEF InOrder, r
  <2>3. UnderWay'
    <3>1. ASSUME NEW s \in in_use, conn[s].state = "ESTABLISHED"
          PROVE  /\ conn[s].port # p /\ peer'[conn[s].port] = peer[conn[s].port]
                 /\ \A m : Carried(Range(to_host), conn[s].port, m)
                             => Carried(Range(to_host'), conn[s].port, m)
      BY <1>1, <1>2, <1>6, <1>7, <1>9, <3>1 DEF Carried
    <3> QED BY <1>2, <2>1, <3>1 DEF UnderWay, host, in_use
  <2>4. InOrderStream'
    <3>1. ASSUME NEW s \in in_use PROVE Received(conn[s], peer'[conn[s].port])
      <4>1. Received(conn[s], peer[conn[s].port])
        BY <1>9, <2>1 DEF InOrderStream
      <4>2. CASE conn[s].port = p
        BY <1>7, <1>9, <4>1, <4>2 DEF Received
      <4>3. CASE conn[s].port # p
        BY <1>1, <1>6, <4>1, <4>3
      <4> QED BY <4>2, <4>3
    <3> QED BY <1>4, <3>1 DEF InOrderStream, host, in_use
  <2> QED BY <2>2, <2>3, <2>4
<1> QED BY <1>4, <1>8, <1>9 DEF IInv

LEMMA PeerEntry ==
  ASSUME WireTypes, NEW p \in Ports
  PROVE  /\ peer[p] \in PeerType /\ peer[p].id \in 0 .. MaxConnects /\ peer[p].fin \in BOOLEAN
         /\ peer[p].sent \in 0 .. MaxData /\ peer[p].sent \in Nat
         /\ peer[p].sent + 1 \in 1 .. MaxData + 1
<1>1. peer[p] \in PeerType
  BY DEF WireTypes
<1>2. /\ peer[p].id \in 0 .. MaxConnects /\ peer[p].fin \in BOOLEAN
      /\ peer[p].sent \in 0 .. MaxData
  BY <1>1 DEF PeerType
<1> QED BY <1>1, <1>2, Constants

\* A segment the peer sends in a connection it has heard of, without data or
\* with the next byte.
LEMMA PeerSegmentFacts ==
  ASSUME WireTypes, NEW p \in Ports, peer[p].id # 0,
         NEW f \in HostFlags \ {Refusal, Welcome}, NEW data,
         data = <<>> \/ (data = <<Byte(p)>> /\ peer[p].sent < MaxData)
  PROVE  LET e == PeerSegment(p, f, data)
         IN  /\ e \in SegmentType(HostFlags) /\ Carries(e) /\ e.port = p
             /\ e.id = peer[p].id /\ e.seq = peer[p].sent + 1 /\ e.flags = f
             /\ e.data = data
             /\ Len(data) = IF data = <<>> THEN 0 ELSE 1
<1> DEFINE id == peer[p].id
           k == peer[p].sent + 1
           b == [id |-> id, n |-> k]
           e == [port |-> p, id |-> id, flags |-> f, seq |-> k, data |-> data]
<1>1. id \in 1 .. MaxConnects /\ k \in 0 .. MaxData + 1 /\ k \in 1 .. MaxData + 1
      /\ (peer[p].sent < MaxData => k \in 1 .. MaxData)
  BY PeerEntry, Constants, SMTT(30)
<1>2. e = PeerSegment(p, f, data) /\ b = Byte(p)
  BY DEF PeerSegment, Segment, Byte
<1> HIDE DEF id, k
<1>3. CASE data = <<>>
  <2>1. data \in Seq(ByteType) /\ Len(data) = 0
    BY <1>3
  <2>2. e \in SegmentType(HostFlags)
    BY <1>1, <2>1 DEF SegmentType
  <2>3. Carries(e)
    BY <1>3 DEF Carries
  <2> QED BY <1>2, <1>3, <2>1, <2>2, <2>3 DEF id, k
<1>4. CASE data = <<b>> /\ peer[p].sent < MaxData
  <2>1. b \in ByteType
    BY <1>1, <1>4 DEF ByteType
  <2>2. data \in Seq(ByteType) /\ Len(data) = 1 /\ data # <<>>
    <3> HIDE DEF b
    <3> QED BY <1>4, <2>1
  <2>3. e \in SegmentType(HostFlags)
    BY <1>1, <2>2 DEF SegmentType
  <2>4. Carries(e)
    BY <1>1, <1>4 DEF Carries
  <2> QED BY <1>2, <2>2, <2>3, <2>4 DEF id, k
<1> QED BY <1>2, <1>3, <1>4

LEMMA PeerReceiveStep ==
  ASSUME IInv, PeerReceive
  PROVE  IInv'
<1> DEFINE seg == Head(to_peer)
           p == seg.port
<1>0. WireTypes /\ Ids
  BY DEF IInv
<1>1. /\ to_peer # <<>> /\ to_peer' = Tail(to_peer)
      /\ UNCHANGED <<host, lost, disturbed, faults, dropped>>
  BY DEF PeerReceive
<1>2. seg \in SegmentType(PeerFlags) /\ seg \in Range(to_peer)
  BY <1>0, <1>1, RangeTail DEF WireTypes
<1>3. p \in Ports /\ seg.id \in 1 .. MaxConnects /\ seg.id \in 0 .. MaxConnects
  BY <1>2, Constants DEF SegmentType
<1>4. ASSUME NEW f \in {Welcome, Refusal}
      PROVE  LET e == Segment(p, seg.id, f, 0, <<>>)
             IN  /\ e \in SegmentType(HostFlags) /\ e.port = p /\ e.id = seg.id
                 /\ e.flags = f /\ e.seq = 0 /\ e.data = <<>>
  <2>1. <<>> \in Seq(ByteType) /\ 0 \in 0 .. MaxData + 1 /\ f \in HostFlags
    BY Constants DEF HostFlags, Welcome, Refusal
  <2> HIDE DEF p, seg
  <2> QED BY <1>3, <2>1 DEF Segment, SegmentType
<1>5. ASSUME has(seg, "SYN"),
             peer' = [peer EXCEPT ![p] = [NoPeer EXCEPT !.state = "SYN_RCVD", !.id = seg.id]],
             to_host' = Append(to_host, Segment(p, seg.id, {"SYN", "ACK"}, 0, <<>>))
      PROVE  IInv'
  <2> DEFINE e == Segment(p, seg.id, Welcome, 0, <<>>)
             n == [NoPeer EXCEPT !.state = "SYN_RCVD", !.id = seg.id]
  <2>1. /\ n \in PeerType /\ n.state = "SYN_RCVD" /\ n.id = seg.id /\ n.sent = 0 /\ ~n.fin
    <3>1. 0 \in 0 .. MaxData /\ 0 \in 0 .. 1
      BY Constants
    <3>2. ASSUME NEW id \in 0 .. MaxConnects, NEW m,
                 m = [NoPeer EXCEPT !.state = "SYN_RCVD", !.id = id]
          PROVE  m \in PeerType /\ m.state = "SYN_RCVD" /\ m.id = id /\ m.sent = 0 /\ ~m.fin
      BY ONLY <3>1, <3>2 DEF NoPeer, PeerType
    <3> QED BY <1>3, <3>2
  <2>2. /\ e \in SegmentType(HostFlags) /\ e.port = p /\ e.id = seg.id
        /\ e.flags = Welcome /\ e.seq = 0 /\ e.data = <<>>
    BY <1>4
  <2>3. to_host' = Append(to_host, e) /\ peer' = [peer EXCEPT ![p] = n]
    BY <1>5 DEF Welcome
  <2> HIDE DEF e, n
  <2> QED BY <1>1, <1>3, <1>5, <2>1, <2>2, <2>3, PeerHears
<1>6. ASSUME has(seg, "SYN"), UNCHANGED peer,
             to_host' = Append(to_host, Segment(p, seg.id, {"RST", "ACK"}, 0, <<>>))
      PROVE  IInv'
  <2> DEFINE e == Segment(p, seg.id, Refusal, 0, <<>>)
             n == peer[p]
  <2>1. n \in PeerType
    BY <1>0, <1>3, PeerEntry
  <2>2. /\ e \in SegmentType(HostFlags) /\ e.port = p /\ e.id = seg.id
        /\ e.flags = Refusal /\ e.seq = 0 /\ e.data = <<>>
    BY <1>4
  <2>3. to_host' = Append(to_host, e) /\ peer' = [peer EXCEPT ![p] = n]
    BY <1>0, <1>6 DEF Refusal, WireTypes
  <2> HIDE DEF e
  <2> QED BY <1>1, <1>3, <1>6, <2>1, <2>2, <2>3, PeerHears
<1>7. ASSUME UNCHANGED <<peer, to_host>>
      PROVE  IInv'
  <2>1. /\ faults' \in 0 .. MaxFaults /\ lost' \in BOOLEAN /\ disturbed' \in BOOLEAN
        /\ to_host' \in Seq(SegmentType(HostFlags))
    BY <1>1, <1>7 DEF IInv, TypeOK, WireTypes
  <2> QED BY <1>1, <1>7, <2>1, Fewer
<1>8. ASSUME ~has(seg, "SYN"), seg.id = peer[p].id,
             peer' = [peer EXCEPT ![p].state = "ESTABLISHED"],
             to_host' = IF seg.flags = {"ACK"} THEN to_host
                        ELSE Append(to_host, PeerSegment(p, {"ACK"}, <<>>))
      PROVE  IInv'
  <2> DEFINE n == [peer[p] EXCEPT !.state = "ESTABLISHED"]
             e == PeerSegment(p, {"ACK"}, <<>>)
  <2>1. peer[p] \in PeerType /\ peer[p].id # 0 /\ peer[p].sent \in Nat
    BY <1>0, <1>3, <1>8, PeerEntry
  <2>2. /\ n \in PeerType /\ n.state = "ESTABLISHED" /\ n.id = peer[p].id
        /\ n.sent = peer[p].sent /\ n.fin = peer[p].fin /\ n.last = peer[p].last
    BY <2>1 DEF PeerType
  <2>3. /\ e \in SegmentType(HostFlags) /\ Carries(e) /\ e.port = p /\ e.id = peer[p].id
        /\ e.seq = peer[p].sent + 1 /\ e.flags = {"ACK"} /\ e.data = <<>> /\ Len(e.data) = 0
    <3>1. {"ACK"} \in HostFlags \ {Refusal, Welcome}
      BY DEF HostFlags, Refusal, Welcome
    <3> QED BY <1>0, <1>3, <2>1, <3>1, PeerSegmentFacts
  <2>4. to_host' = Append(to_host, e) \/ (to_host' = to_host /\ n.sent = peer[p].sent)
    BY <1>8, <2>2
  <2>5. peer' = [peer EXCEPT ![p] = n]
    BY <1>8
  <2>6. ~Wrapped => \A s \in in_use : conn[s].state = "SYN_SENT" => conn[s].port # p
    BY <1>2, <1>8 DEF IInv, Separate, Unanswered
  <2>7. /\ has(e, "FIN") => n.fin /\ Len(e.data) = n.last
        /\ e.seq + Len(e.data) = n.sent + 1
        /\ n.sent \in {peer[p].sent, peer[p].sent + 1}
        /\ peer[p].fin => n.fin /\ n.sent = peer[p].sent /\ n.last = peer[p].last
        /\ to_peer' = to_peer \/ (to_peer # <<>> /\ to_peer' = Tail(to_peer))
    BY <1>1, <2>1, <2>2, <2>3 DEF has
  <2> HIDE DEF n, e, p, seg
  <2>8. n.id = peer[p].id /\ n.state = "ESTABLISHED" /\ e.port = p /\ e.id = n.id
    BY <2>2, <2>3
  <2> QED BY <1>1, <1>3, <2>1, <2>2, <2>3, <2>4, <2>5, <2>6, <2>7, <2>8, PeerTalks
<1> QED BY <1>5, <1>6, <1>7, <1>8 DEF PeerReceive

\* Once the peer has a connection at a port, no program's SYN is unanswered.
LEMMA PeerKnows ==
  ASSUME IInv, NEW p \in Ports, peer[p].state = "ESTABLISHED"
  PROVE  /\ peer[p].id # 0
         /\ ~Wrapped => \A s \in in_use : conn[s].state = "SYN_SENT" => conn[s].port # p
BY DEF IInv, Ids, Separate, Unanswered

LEMMA PeerSendStep ==
  ASSUME IInv, NEW p \in Ports, PeerSend(p)
  PROVE  IInv'
<1> DEFINE n == [peer[p] EXCEPT !.sent = @ + 1]
           e == PeerSegment(p, {"PSH", "ACK"}, <<Byte(p)>>)
<1>0. WireTypes
  BY DEF IInv
<1>1. /\ peer[p].state = "ESTABLISHED" /\ ~peer[p].fin /\ peer[p].sent < MaxData
      /\ peer' = [peer EXCEPT ![p] = n] /\ to_host' = Append(to_host, e)
      /\ UNCHANGED <<host, to_peer, lost, disturbed, faults, dropped>>
  BY DEF PeerSend
<1>2. /\ peer[p].id # 0
      /\ ~Wrapped => \A s \in in_use : conn[s].state = "SYN_SENT" => conn[s].port # p
  BY <1>1, PeerKnows
<1>3. /\ n \in PeerType /\ n.state = "ESTABLISHED" /\ n.id = peer[p].id
      /\ n.sent = peer[p].sent + 1 /\ peer[p].sent \in Nat
  <2>1. peer[p] \in PeerType /\ peer[p].sent \in Nat /\ peer[p].sent + 1 \in 0 .. MaxData
    BY <1>0, <1>1, PeerEntry, Constants
  <2> QED BY <1>1, <2>1 DEF PeerType
<1>4. /\ e \in SegmentType(HostFlags) /\ Carries(e) /\ e.port = p /\ e.id = peer[p].id
      /\ e.seq = peer[p].sent + 1 /\ e.flags = {"PSH", "ACK"} /\ Len(e.data) = 1
  <2>1. {"PSH", "ACK"} \in HostFlags \ {Refusal, Welcome} /\ <<Byte(p)>> # <<>>
    BY DEF HostFlags, Refusal, Welcome
  <2> QED BY <1>0, <1>1, <1>2, <2>1, PeerSegmentFacts
<1>5. /\ has(e, "FIN") => n.fin /\ Len(e.data) = n.last
      /\ e.seq + Len(e.data) = n.sent + 1
      /\ n.sent \in {peer[p].sent, peer[p].sent + 1}
      /\ peer[p].fin => n.fin /\ n.sent = peer[p].sent /\ n.last = peer[p].last
      /\ e.id = n.id
  BY <1>1, <1>3, <1>4 DEF has
<1> HIDE DEF n, e
<1> QED BY <1>1, <1>2, <1>3, <1>4, <1>5, PeerTalks

LEMMA PeerFinStep ==
  ASSUME IInv, NEW p \in Ports, PeerFin(p)
  PROVE  IInv'
<1>0. WireTypes
  BY DEF IInv
<1>1. PICK flags \in {{"FIN"}, {"FIN", "ACK"}}, with_byte \in BOOLEAN :
        /\ with_byte => peer[p].sent < MaxData
        /\ peer' = [peer EXCEPT ![p].fin = TRUE,
                                ![p].sent = IF with_byte THEN @ + 1 ELSE @,
                                ![p].last = IF with_byte THEN 1 ELSE 0]
        /\ to_host' = Append(to_host, PeerSegment(p, flags,
                                        IF with_byte THEN <<Byte(p)>> ELSE <<>>))
  BY DEF PeerFin
<1> DEFINE k == IF with_byte THEN peer[p].sent + 1 ELSE peer[p].sent
           l == IF with_byte THEN 1 ELSE 0
           n == [peer[p] EXCEPT !.fin = TRUE, !.sent = k, !.last = l]
           data == IF with_byte THEN <<Byte(p)>> ELSE <<>>
           e == PeerSegment(p, flags, data)
<1>2. /\ peer[p].state = "ESTABLISHED" /\ ~peer[p].fin
      /\ UNCHANGED <<host, to_peer, lost, disturbed, faults, dropped>>
  BY DEF PeerFin
<1>3. /\ peer[p].id # 0
      /\ ~Wrapped => \A s \in in_use : conn[s].state = "SYN_SENT" => conn[s].port # p
  BY <1>2, PeerKnows
<1>4. peer[p] \in PeerType /\ peer[p].sent \in Nat /\ k \in 0 .. MaxData
      /\ k \in {peer[p].sent, peer[p].sent + 1}
  BY <1>0, <1>1, PeerEntry, Constants
<1>5. peer' = [peer EXCEPT ![p] = n] /\ to_host' = Append(to_host, e)
  BY <1>0, <1>1 DEF WireTypes
<1>6. /\ e \in SegmentType(HostFlags) /\ Carries(e) /\ e.port = p /\ e.id = peer[p].id
      /\ e.seq = peer[p].sent + 1 /\ e.seq + Len(e.data) = k + 1 /\ Len(e.data) = l
  <2>1. flags \in HostFlags \ {Refusal, Welcome} /\ <<Byte(p)>> # <<>>
    BY DEF HostFlags, Refusal, Welcome
  <2>2. data = <<>> \/ (data = <<Byte(p)>> /\ peer[p].sent < MaxData)
    BY <1>1
  <2>3. k = (IF data = <<>> THEN peer[p].sent ELSE peer[p].sent + 1)
        /\ l = (IF data = <<>> THEN 0 ELSE 1)
    BY <2>1
  <2> HIDE DEF data, k, l
  <2>4. /\ e \in SegmentType(HostFlags) /\ Carries(e) /\ e.port = p
        /\ e.id = peer[p].id /\ e.seq = peer[p].sent + 1 /\ e.data = data
        /\ Len(data) = IF data = <<>> THEN 0 ELSE 1
    BY <1>0, <1>3, <2>1, <2>2, PeerSegmentFacts
  <2> HIDE DEF e
  <2>5. e.seq + Len(e.data) = k + 1 /\ Len(e.data) = l
    BY <1>4, <2>3, <2>4
  <2> QED BY <2>4, <2>5
<1>l. l \in 0 .. 1
  OBVIOUS
<1> HIDE DEF k, e, l
<1>7. /\ n \in PeerType /\ n.state = "ESTABLISHED" /\ n.id = peer[p].id
      /\ n.sent = k /\ n.fin /\ n.last = l
  BY <1>2, <1>4, <1>l DEF PeerType
<1> HIDE DEF n
<1>8. /\ n.sent \in {peer[p].sent, peer[p].sent + 1} /\ e.id = n.id
      /\ e.seq + Len(e.data) = n.sent + 1
      /\ has(e, "FIN") => n.fin /\ Len(e.data) = n.last
      /\ peer[p].fin => n.fin /\ n.sent = peer[p].sent /\ n.last = peer[p].last
  BY <1>2, <1>4, <1>6, <1>7
<1> QED BY <1>2, <1>3, <1>4, <1>5, <1>6, <1>7, <1>8, PeerTalks

-----------------------------------------------------------------------------
(* The theorems. *)

LEMMA Initially == Init => IInv
<1> SUFFICES ASSUME Init PROVE IInv
  OBVIOUS
<1>1. /\ conn = [s \in Slots |-> Free] /\ next_port = FirstPort
      /\ handle = [a \in Apps |-> NULL] /\ to_host = <<>> /\ to_peer = <<>>
      /\ peer = [p \in Ports |-> NoPeer] /\ opened = 0 /\ refused = {} /\ faults = 0
      /\ unsent = {}
      /\ lost = FALSE /\ disturbed = FALSE /\ dropped = FALSE
  BY DEF Init
<1>2. /\ Free \in Connections /\ Free.recv_len <= Len(Free.got) /\ Free.state = "free"
  BY Constants DEF Free, Connections, States, Ports
<1>3. /\ NoPeer \in PeerType /\ NoPeer.state = "LISTEN" /\ NoPeer.id = 0
      /\ NoPeer.sent = 0 /\ ~NoPeer.fin
  BY Constants DEF NoPeer, PeerType
<1>4. in_use = {} /\ Range(to_host) = {} /\ Range(to_peer) = {}
  BY <1>1, <1>2 DEF in_use, Range
<1>5. TypeOK
  BY <1>1, <1>2, Constants DEF TypeOK, Ports
<1>6. WireTypes
  <2>1. to_host \in Seq(SegmentType(HostFlags)) /\ to_peer \in Seq(SegmentType(PeerFlags))
    BY <1>1
  <2>2. peer \in [Ports -> PeerType]
    BY <1>1, <1>3
  <2> QED BY <1>1, <1>4, <2>1, <2>2 DEF WireTypes
<1>7. Ids /\ Handles
  BY <1>1, <1>3, <1>4 DEF Ids, Handles
<1>8. Separate
  <2>1. PortsOwned
    BY <1>1, <1>3, <1>4, Constants DEF PortsOwned
  <2>2. PeerAhead
    BY <1>1, <1>3, <1>4 DEF PeerAhead
  <2>3. SynFirst
    BY <1>1 DEF SynFirst, SynsFirst
  <2>4. Unanswered
    BY <1>4 DEF Unanswered
  <2> QED BY <2>1, <2>2, <2>3, <2>4 DEF Separate
<1>9. NoCrossTalk /\ UnderWay /\ InOrderStream
  BY <1>4 DEF NoCrossTalk, UnderWay, InOrderStream
<1>10. InOrder
  BY <1>1 DEF InOrder
<1> QED BY <1>5, <1>6, <1>7, <1>8, <1>9, <1>10 DEF IInv

LEMMA Inductive == IInv /\ [Next]_vars => IInv'
<1> SUFFICES ASSUME IInv, [Next]_vars PROVE IInv'
  OBVIOUS
<1>1. ASSUME NEW a \in Apps, tcp_connect(a) \/ tcp_send(a) \/ tcp_recv(a) \/ tcp_close(a)
      PROVE  IInv'
  BY <1>1, Connect, Send, Recv, Close
<1>2. CASE Receive
  BY <1>2, ReceiveNone, ReceiveOne
<1>3. CASE Lose \/ Repeat \/ Overtake
  BY <1>3, FaultStep
<1>4. CASE PeerReceive
  BY <1>4, PeerReceiveStep
<1>5. ASSUME NEW p \in Ports, PeerSend(p) \/ PeerFin(p) PROVE IInv'
  BY <1>5, PeerSendStep, PeerFinStep
<1>6. CASE UNCHANGED vars
  <2>1. UNCHANGED <<host, peer, dropped>> /\ UNCHANGED <<to_host, to_peer, lost, disturbed, faults>>
    BY <1>6 DEF vars, network
  <2>2. /\ faults' \in 0 .. MaxFaults /\ lost' \in BOOLEAN /\ disturbed' \in BOOLEAN
        /\ to_host' \in Seq(SegmentType(HostFlags))
    BY <2>1 DEF IInv, TypeOK, WireTypes
  <2> QED BY <2>1, <2>2, Fewer
<1> QED BY <1>1, <1>2, <1>3, <1>4, <1>5, <1>6 DEF Next

\* Every state of every behaviour satisfies the inductive invariant.
THEOREM Invariance == Spec => []IInv
BY Initially, Inductive, PTL DEF Spec

\* tcp_find_connection compares ports and nothing else; all the same, until the
\* ephemeral ports wrap around, what a connection has taken over and the state
\* it is in come from the peer's segments of this very connection, however the
\* network loses, repeats and reorders them and however the table is reused.
THEOREM TcpConnectionsSeparate == Spec => []ConnectionsSeparate
<1>1. IInv => ConnectionsSeparate
  BY DEF IInv, ConnectionsSeparate, NoCrossTalk
<1> QED BY <1>1, Invariance, PTL

\* tcp_handle_segment compares no sequence number in ESTABLISHED; on a network
\* that delivers everything once and in order, and with no byte refused by the
\* receive buffer, a connection has received what the peer sent it, without a
\* gap, and acknowledges the byte that comes next.
THEOREM TcpInOrderStream == Spec => []InOrderStream
<1>1. IInv => InOrderStream
  <2> SUFFICES ASSUME IInv PROVE InOrderStream
    OBVIOUS
  <2>1. CASE ~Wrapped /\ ~disturbed /\ ~dropped
    BY <2>1 DEF IInv
  <2>2. CASE ~ (~Wrapped /\ ~disturbed /\ ~dropped)
    BY <2>2 DEF InOrderStream
  <2> QED BY <2>1, <2>2
<1> QED BY <1>1, Invariance, PTL

\* Only tcp_close and a refusal end the states in which a program may use its
\* connection, so tcp_alloc_connection never gives its entry to another program
\* while no RST has come in answer to a SYN.
THEOREM TcpHandleKept == Spec => []HandleKept
<1>1. IInv => HandleKept
  <2> SUFFICES ASSUME IInv, refused = {}, NEW a \in Apps, handle[a] # NULL
        PROVE  /\ handle[a] \in in_use
               /\ \A b \in Apps \ {a} : handle[b] # handle[a]
    BY DEF HandleKept
  <2>1. conn[handle[a]].state \in Open /\ \A b \in Apps \ {a} : handle[b] # handle[a]
    BY DEF IInv, Handles
  <2>2. handle[a] \in Slots
    BY DEF IInv, TypeOK
  <2> QED BY <2>1, <2>2 DEF Open, in_use
<1> QED BY <1>1, Invariance, PTL
=============================================================================
