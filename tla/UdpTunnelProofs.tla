--------------------------- MODULE UdpTunnelProofs ---------------------------
(***************************************************************************)
(* A tunnel confirms only what the other application has received, for any *)
(* number of senders, any bound on retransmissions and any queue length;   *)
(* with one sender per end, what is confirmed is received in order.        *)
(***************************************************************************)
EXTENDS UdpTunnel, TLAPS, SequenceTheorems

\* The two ends are each other's other end.
LEMMA OtherEnd ==
  ASSUME NEW p \in Peer
  PROVE  Other(p) \in Peer /\ Other(p) # p /\ Other(Other(p)) = p
<1>1. PICK q \in Peer : Peer = {p, q} /\ p # q BY TunnelAssumption
<1>2. Other(p) = q BY <1>1 DEF Other
<1>3. Other(q) = p BY <1>1 DEF Other
<1> QED BY <1>1, <1>2, <1>3

-----------------------------------------------------------------------------
(* Types                                                                   *)

\* One sender's record, and the bounds.
SendState == [state : {"idle", "more", "waiting"}, seq : Nat, attempt : 0..MAX_RETRANSMITS]

LEMMA Bounds == MAX_RETRANSMITS \in Nat \ {0} /\ MaxChunks \in Nat
  BY TunnelAssumption

LEMMA InitTyped == Init => TypeOK
<1> SUFFICES ASSUME Init PROVE TypeOK
  OBVIOUS
<1>1. net \subseteq Packet BY DEF Init
<1>2. sendSeq \in [Peer -> Seqs] BY Bounds DEF Init, Seqs
<1>3. sending \in [Peer -> [Sender -> SendState]] BY Bounds DEF Init, Idle, SendState
<1>4. queue \in [Peer -> Seq(Packet)] /\ received \in [Peer -> Seq(Packet)]
  <2>1. <<>> \in Seq(Packet) OBVIOUS
  <2> QED BY <2>1 DEF Init
<1>5. acked \in [Peer -> SUBSET Nat] /\ confirmed \in [Peer -> SUBSET Nat] BY DEF Init
<1>6. /\ closed \in [Peer -> BOOLEAN]
      /\ sock \in [Peer -> {"open", "closing", "closed"}]
      /\ pings \in [Peer -> Nat]
  BY DEF Init
<1> QED BY <1>1, <1>2, <1>3, <1>4, <1>5, <1>6 DEF TypeOK, SendState

\* What send_raw adds to the network is made of datagrams.
LEMMA SentTyped ==
  ASSUME net \subseteq Packet, NEW p \in Peer, NEW pkts \in SUBSET Packet
  PROVE  Sent(p, pkts) \subseteq Packet
  BY DEF Sent

\* A well-typed datagram.
LEMMA PacketTyped ==
  ASSUME NEW p \in Peer, NEW t \in {"DATA", "ACK", "FIN", "PING", "PONG"},
         NEW n \in Nat, NEW k \in Nat
  PROVE  [to |-> Other(p), ptype |-> t, seq |-> n, copy |-> k] \in Packet
<1>1. Other(p) \in Peer BY OtherEnd
<1> QED BY <1>1 DEF Packet

\* Only one sender's record changes.
LEMMA SendingTyped ==
  ASSUME sending \in [Peer -> [Sender -> SendState]],
         NEW p \in Peer, NEW s \in Sender, NEW r \in SendState,
         sending' = [sending EXCEPT ![p][s] = r]
  PROVE  sending' \in [Peer -> [Sender -> SendState]]
  OBVIOUS

LEMMA SendStepTyped ==
  ASSUME TypeOK, NEW p \in Peer, NEW s \in Sender, SendStep(p, s)
  PROVE  TypeOK'
<1>1. /\ net \subseteq Packet
      /\ sending \in [Peer -> [Sender -> SendState]]
      /\ sendSeq \in [Peer -> Seqs]
      /\ acked \in [Peer -> SUBSET Nat] /\ confirmed \in [Peer -> SUBSET Nat]
  BY DEF TypeOK, SendState
<1>2. /\ sending[p][s].seq \in Nat
      /\ sending[p][s].attempt \in 0..MAX_RETRANSMITS
      /\ sending[p][s].state \in {"idle", "more", "waiting"}
  <2>1. sending[p][s] \in SendState BY <1>1
  <2> QED BY <2>1 DEF SendState
<1>3. sendSeq[p] \in Nat /\ sendSeq[Other(p)] \in Nat
  BY <1>1, OtherEnd, Bounds DEF Seqs
<1>4. Idle \in SendState /\ More \in SendState BY Bounds DEF SendState, Idle, More
<1>5. CASE SendChunk(p, s)
  <2>1. Transmission(p, sendSeq[p], 1) \in Packet
    BY <1>3, PacketTyped DEF Transmission
  <2>2. net' \subseteq Packet BY <1>1, <1>5, <2>1, SentTyped DEF SendChunk
  <2>3. sendSeq[p] + 1 \in Seqs BY <1>3, <1>5, Bounds DEF SendChunk, Seqs
  <2>4. sendSeq' \in [Peer -> Seqs] BY <1>1, <1>5, <2>3 DEF SendChunk
  <2>5. [state |-> "waiting", seq |-> sendSeq[p], attempt |-> 1] \in SendState
    BY <1>3, Bounds DEF SendState
  <2>6. sending' \in [Peer -> [Sender -> SendState]]
    BY <1>1, <1>5, <2>5, SendingTyped DEF SendChunk
  <2> QED BY <1>5, <2>2, <2>4, <2>6 DEF SendChunk, TypeOK, SendState
<1>6. CASE Retransmit(p, s)
  <2> DEFINE k == sending[p][s].attempt + 1
  <2>1. k \in 0..MAX_RETRANSMITS /\ k \in Nat BY <1>2, <1>6, Bounds DEF Retransmit
  <2>2. Transmission(p, sending[p][s].seq, k) \in Packet
    BY <1>2, <2>1, PacketTyped DEF Transmission
  <2>3. net' \subseteq Packet BY <1>1, <1>6, <2>2, SentTyped DEF Retransmit
  <2>4. [sending[p][s] EXCEPT !.attempt = k] \in SendState
    <3>1. sending[p][s] \in SendState BY <1>1
    <3> HIDE DEF k
    <3> QED BY <2>1, <3>1 DEF SendState
  <2>5. sending' = [sending EXCEPT ![p][s] = [sending[p][s] EXCEPT !.attempt = k]]
    BY <1>1, <1>6 DEF Retransmit
  <2>6. sending' \in [Peer -> [Sender -> SendState]]
    BY <1>1, <2>4, <2>5, SendingTyped
  <2> QED BY <1>6, <2>3, <2>6 DEF Retransmit, TypeOK, SendState
<1>7. CASE GiveUp(p, s)
  <2>1. sending' \in [Peer -> [Sender -> SendState]]
    BY <1>1, <1>4, <1>7, SendingTyped DEF GiveUp
  <2>2. acked' \in [Peer -> SUBSET Nat] BY <1>1, <1>7 DEF GiveUp
  <2> QED BY <1>7, <2>1, <2>2 DEF GiveUp, TypeOK, SendState
<1>8. CASE Acked(p, s)
  <2>1. sending' \in [Peer -> [Sender -> SendState]]
    BY <1>1, <1>4, <1>8, SendingTyped DEF Acked
  <2>2. acked' \in [Peer -> SUBSET Nat] BY <1>1, <1>8 DEF Acked
  <2>3. confirmed' \in [Peer -> SUBSET Nat] BY <1>1, <1>2, <1>8 DEF Acked
  <2> QED BY <1>8, <2>1, <2>2, <2>3 DEF Acked, TypeOK, SendState
<1> QED BY <1>5, <1>6, <1>7, <1>8 DEF SendStep

LEMMA ArriveTyped ==
  ASSUME TypeOK, NEW pkt \in net, Arrive(pkt)
  PROVE  TypeOK'
<1> DEFINE p == pkt.to
<1>1. pkt \in Packet BY DEF TypeOK
<1>2. p \in Peer /\ pkt.seq \in Nat /\ pkt.copy \in Nat BY <1>1 DEF Packet
<1>3. [to |-> Other(p), ptype |-> "PONG", seq |-> pkt.seq, copy |-> pkt.copy] \in Packet
  BY <1>2, PacketTyped
<1>4. net' \subseteq Packet BY <1>3 DEF Arrive, TypeOK
<1>5. acked' \in [Peer -> SUBSET Nat] BY <1>2 DEF Arrive, TypeOK
<1>6. queue' \in [Peer -> Seq(Packet)]
  <2>1. queue[p] \in Seq(Packet) BY <1>2 DEF TypeOK
  <2>2. Append(queue[p], pkt) \in Seq(Packet) BY <1>1, <2>1
  <2> QED BY <2>2 DEF Arrive, TypeOK
<1> QED BY <1>4, <1>5, <1>6 DEF Arrive, TypeOK

LEMMA RecvTyped ==
  ASSUME TypeOK, NEW p \in Peer, Recv(p)
  PROVE  TypeOK'
<1> DEFINE pkt == Head(queue[p])
           ack == [to |-> Other(p), ptype |-> "ACK", seq |-> pkt.seq, copy |-> pkt.copy]
<1>1. pkt \in Packet /\ Tail(queue[p]) \in Seq(Packet)
  <2>1. queue[p] \in Seq(Packet) /\ queue[p] # <<>> BY DEF Recv, TypeOK
  <2> QED BY <2>1
<1>2. pkt.seq \in Nat /\ pkt.copy \in Nat BY <1>1 DEF Packet
<1>3. ack \in Packet BY <1>2, PacketTyped
<1>4. net' \subseteq Packet
  <2>1. Sent(p, {ack}) \subseteq Packet BY <1>3, SentTyped DEF TypeOK
  <2> QED BY <2>1 DEF Recv, TypeOK
<1>5. queue' \in [Peer -> Seq(Packet)] BY <1>1 DEF Recv, TypeOK
<1>6. received' \in [Peer -> Seq(Packet)]
  <2>1. received[p] \in Seq(Packet) BY DEF TypeOK
  <2>2. Append(received[p], pkt) \in Seq(Packet) BY <1>1, <2>1
  <2> QED BY <2>2 DEF Recv, TypeOK
<1>7. closed' \in [Peer -> BOOLEAN] BY DEF Recv, TypeOK
<1> QED BY <1>4, <1>5, <1>6, <1>7 DEF Recv, TypeOK

LEMMA NextTyped == TypeOK /\ [Next]_vars => TypeOK'
<1> SUFFICES ASSUME TypeOK, [Next]_vars PROVE TypeOK'
  OBVIOUS
<1>1. ASSUME NEW p \in Peer, NEW s \in Sender, SendStep(p, s) PROVE TypeOK'
  BY <1>1, SendStepTyped
<1>2. ASSUME NEW p \in Peer, Recv(p) PROVE TypeOK' BY <1>2, RecvTyped
<1>3. ASSUME NEW p \in Peer, Keepalive(p) PROVE TypeOK'
  <2>1. pings[p] \in Nat BY DEF TypeOK
  <2>2. [to |-> Other(p), ptype |-> "PING", seq |-> pings[p], copy |-> 0] \in Packet
    BY <2>1, PacketTyped
  <2>3. net' \subseteq Packet BY <1>3, <2>2, SentTyped DEF Keepalive, TypeOK
  <2>4. pings' \in [Peer -> Nat] BY <1>3, <2>1 DEF Keepalive, TypeOK
  <2> QED BY <1>3, <2>3, <2>4 DEF Keepalive, TypeOK
<1>4. ASSUME NEW p \in Peer, Close(p) PROVE TypeOK' BY <1>4 DEF Close, TypeOK
<1>8. ASSUME NEW p \in Peer, Fin(p) PROVE TypeOK'
  <2>1. [to |-> Other(p), ptype |-> "FIN", seq |-> 0, copy |-> 0] \in Packet
    BY PacketTyped
  <2>2. net' \subseteq Packet BY <1>8, <2>1, SentTyped DEF Fin, TypeOK
  <2>3. sock' \in [Peer -> {"open", "closing", "closed"}] BY <1>8 DEF Fin, TypeOK
  <2> QED BY <1>8, <2>2, <2>3 DEF Fin, TypeOK
<1>5. ASSUME NEW pkt \in net, Arrive(pkt) PROVE TypeOK' BY <1>5, ArriveTyped
<1>6. ASSUME NEW pkt \in net, Lose(pkt) PROVE TypeOK' BY <1>6 DEF Lose, TypeOK
<1>7. CASE UNCHANGED vars BY <1>7 DEF vars, TypeOK
<1> QED BY <1>1, <1>2, <1>3, <1>4, <1>5, <1>6, <1>7, <1>8 DEF Next

\* Every variable of the tunnel keeps its type; in particular no chunk is
\* transmitted more than MAX_RETRANSMITS times.
THEOREM TunnelTyped == Spec => []TypeOK
<1> QED BY InitTyped, NextTyped, PTL DEF Spec

-----------------------------------------------------------------------------
(* Confirmations                                                           *)

\* An ACK under way, and a set ACK event, stand for a delivery at the other
\* end: this is what recv(), which writes the ACK, establishes.
AcksAreEarned ==
  /\ \A pkt \in net : pkt.ptype = "ACK" => Delivered(Other(pkt.to), pkt.seq)
  /\ \A p \in Peer : \A n \in acked[p] : Delivered(Other(p), n)

ConfirmInv == TypeOK /\ AcksAreEarned /\ ConfirmedIsDelivered

\* What was delivered stays delivered.
LEMMA DeliveredGrows ==
  ASSUME TypeOK, NEW p \in Peer, NEW n, Delivered(p, n),
         NEW q \in Peer, NEW x \in Packet,
         received' = received \/ received' = [received EXCEPT ![q] = Append(@, x)]
  PROVE  Delivered(p, n)'
<1>1. received[p] \in Seq(Packet) BY DEF TypeOK
<1>2. CASE received' = received BY <1>2 DEF Delivered
<1>3. CASE received' = [received EXCEPT ![q] = Append(@, x)]
  <2>1. PICK i \in DOMAIN received[p] :
          received[p][i].ptype = "DATA" /\ received[p][i].seq = n
    BY DEF Delivered
  <2>2. CASE p = q
    <3>1. received'[p] = Append(received[p], x) BY <1>3, <2>2 DEF TypeOK
    <3>2. i \in DOMAIN received'[p] /\ received'[p][i] = received[p][i]
      BY <1>1, <2>1, <3>1
    <3> QED BY <2>1, <3>2 DEF Delivered
  <2>3. CASE p # q
    <3>1. received'[p] = received[p] BY <1>3, <2>3 DEF TypeOK
    <3> QED BY <2>1, <3>1 DEF Delivered
  <2> QED BY <2>2, <2>3
<1> QED BY <1>2, <1>3

\* A step that neither writes an ACK, nor sets an event, nor confirms a chunk,
\* and only adds to what recv() has returned, keeps the invariant.
LEMMA NoNewAck ==
  ASSUME ConfirmInv, TypeOK', NEW q \in Peer, NEW x \in Packet,
         received' = received \/ received' = [received EXCEPT ![q] = Append(@, x)],
         \A pkt \in net' : pkt.ptype = "ACK" => pkt \in net,
         \A p \in Peer : acked'[p] \subseteq acked[p],
         \A p \in Peer : confirmed'[p] \subseteq confirmed[p]
  PROVE  ConfirmInv'
<1>1. ASSUME NEW pkt \in net', pkt.ptype = "ACK" PROVE Delivered(Other(pkt.to), pkt.seq)'
  <2>1. pkt \in net /\ pkt \in Packet BY <1>1 DEF ConfirmInv, TypeOK
  <2>2. Delivered(Other(pkt.to), pkt.seq) BY <1>1, <2>1 DEF ConfirmInv, AcksAreEarned
  <2>3. Other(pkt.to) \in Peer BY <2>1, OtherEnd DEF Packet
  <2> QED BY <2>2, <2>3, DeliveredGrows DEF ConfirmInv
<1>2. ASSUME NEW p \in Peer, NEW n \in acked'[p] PROVE Delivered(Other(p), n)'
  BY <1>2, OtherEnd, DeliveredGrows DEF ConfirmInv, AcksAreEarned
<1>3. ASSUME NEW p \in Peer, NEW n \in confirmed'[p] PROVE Delivered(Other(p), n)'
  BY <1>3, OtherEnd, DeliveredGrows DEF ConfirmInv, ConfirmedIsDelivered
<1> QED BY <1>1, <1>2, <1>3 DEF ConfirmInv, AcksAreEarned, ConfirmedIsDelivered

\* recv() writes the ACK of a chunk and returns the chunk in one step.
LEMMA RecvConfirms ==
  ASSUME ConfirmInv, TypeOK', NEW p \in Peer, Recv(p)
  PROVE  ConfirmInv'
<1> DEFINE x == Head(queue[p])
           ack == [to |-> Other(p), ptype |-> "ACK", seq |-> x.seq, copy |-> x.copy]
<1>1. x \in Packet
  <2>1. queue[p] \in Seq(Packet) /\ queue[p] # <<>> BY DEF Recv, ConfirmInv, TypeOK
  <2> QED BY <2>1
<1>2. received' = received \/ received' = [received EXCEPT ![p] = Append(@, x)]
  BY DEF Recv
<1>3. acked' = acked /\ confirmed' = confirmed BY DEF Recv
<1>4. CASE x.ptype = "DATA"
  <2>1. received' = [received EXCEPT ![p] = Append(@, x)] BY <1>4 DEF Recv
  <2>2. net' \subseteq net \cup {ack} BY <1>4 DEF Recv, Sent
  <2>3. ASSUME NEW n, n = x.seq PROVE Delivered(p, n)'
    <3>1. received[p] \in Seq(Packet) BY DEF ConfirmInv, TypeOK
    <3>2. received'[p] = Append(received[p], x) BY <2>1 DEF ConfirmInv, TypeOK
    <3>3. /\ Len(received[p]) + 1 \in DOMAIN received'[p]
          /\ received'[p][Len(received[p]) + 1] = x
      BY <3>1, <3>2, <1>1
    <3> QED BY <1>4, <2>3, <3>3 DEF Delivered
  <2>4. ASSUME NEW pkt \in net', pkt.ptype = "ACK"
        PROVE  Delivered(Other(pkt.to), pkt.seq)'
    <3>1. CASE pkt = ack BY <2>3, <3>1, OtherEnd
    <3>2. CASE pkt \in net
      <4>1. pkt \in Packet BY <3>2 DEF ConfirmInv, TypeOK
      <4>2. Other(pkt.to) \in Peer BY <4>1, OtherEnd DEF Packet
      <4>3. Delivered(Other(pkt.to), pkt.seq)
        BY <2>4, <3>2 DEF ConfirmInv, AcksAreEarned
      <4> QED BY <1>1, <1>2, <4>2, <4>3, DeliveredGrows DEF ConfirmInv
    <3> QED BY <2>2, <3>1, <3>2
  <2>5. ASSUME NEW q \in Peer, NEW n \in acked'[q] PROVE Delivered(Other(q), n)'
    BY <1>1, <1>2, <1>3, <2>5, OtherEnd, DeliveredGrows DEF ConfirmInv, AcksAreEarned
  <2>6. ASSUME NEW q \in Peer, NEW n \in confirmed'[q] PROVE Delivered(Other(q), n)'
    BY <1>1, <1>2, <1>3, <2>6, OtherEnd, DeliveredGrows DEF ConfirmInv, ConfirmedIsDelivered
  <2> QED BY <2>4, <2>5, <2>6 DEF ConfirmInv, AcksAreEarned, ConfirmedIsDelivered
<1>5. CASE x.ptype # "DATA"
  <2>1. net' = net BY <1>5 DEF Recv
  <2> QED BY <1>1, <1>2, <1>3, <2>1, NoNewAck
<1> QED BY <1>4, <1>5

\* An event is set only by an ACK that came over the network.
LEMMA ArriveConfirms ==
  ASSUME ConfirmInv, TypeOK', NEW pkt \in net, Arrive(pkt)
  PROVE  ConfirmInv'
<1>1. pkt \in Packet BY DEF ConfirmInv, TypeOK
<1>2. pkt.to \in Peer BY <1>1 DEF Packet
<1>3. received' = received /\ confirmed' = confirmed BY DEF Arrive
<1>4. \A r \in net' : r.ptype = "ACK" => r \in net BY DEF Arrive
<1>5. CASE acked' = acked
  BY <1>1, <1>2, <1>3, <1>4, <1>5, NoNewAck
<1>6. CASE pkt.ptype = "ACK" /\ acked' = [acked EXCEPT ![pkt.to] = @ \cup {pkt.seq}]
  <2>1. Delivered(Other(pkt.to), pkt.seq) BY <1>6 DEF ConfirmInv, AcksAreEarned
  <2>2. ASSUME NEW q \in Peer, NEW n \in acked'[q] PROVE Delivered(Other(q), n)
    <3>1. acked \in [Peer -> SUBSET Nat] BY DEF ConfirmInv, TypeOK
    <3>2. n \in acked[q] \/ (q = pkt.to /\ n = pkt.seq) BY <1>6, <2>2, <3>1
    <3> QED BY <2>1, <3>2 DEF ConfirmInv, AcksAreEarned
  <2>3. \A q \in Peer : \A n : Delivered(q, n)' <=> Delivered(q, n)
    BY <1>3 DEF Delivered
  <2>4. ASSUME NEW r \in net', r.ptype = "ACK" PROVE Delivered(Other(r.to), r.seq)'
    <3>1. r \in net /\ r \in Packet BY <1>4, <2>4 DEF ConfirmInv, TypeOK
    <3>2. Other(r.to) \in Peer BY <3>1, OtherEnd DEF Packet
    <3> QED BY <2>3, <2>4, <3>1, <3>2 DEF ConfirmInv, AcksAreEarned
  <2>5. \A q \in Peer : \A n \in acked'[q] : Delivered(Other(q), n)'
    BY <2>2, <2>3, OtherEnd
  <2>6. ConfirmedIsDelivered'
    BY <1>3, <2>3, OtherEnd DEF ConfirmInv, ConfirmedIsDelivered
  <2> QED BY <2>4, <2>5, <2>6 DEF ConfirmInv, AcksAreEarned
<1> QED BY <1>5, <1>6 DEF Arrive

\* A send returns without an error because its event is set.
LEMMA AckedConfirms ==
  ASSUME ConfirmInv, TypeOK', NEW p \in Peer, NEW s \in Sender, Acked(p, s)
  PROVE  ConfirmInv'
<1> DEFINE n == sending[p][s].seq
<1>1. n \in acked[p] /\ Delivered(Other(p), n) BY DEF Acked, ConfirmInv, AcksAreEarned
<1>2. received' = received /\ net' = net BY DEF Acked
<1>3. \A q \in Peer : \A m : Delivered(q, m)' <=> Delivered(q, m) BY <1>2 DEF Delivered
<1>4. ASSUME NEW q \in Peer, NEW m \in confirmed'[q] PROVE Delivered(Other(q), m)'
  <2>1. confirmed \in [Peer -> SUBSET Nat] BY DEF ConfirmInv, TypeOK
  <2>2. m \in confirmed[q] \/ (q = p /\ m = n) BY <1>4, <2>1 DEF Acked
  <2>3. Delivered(Other(q), m) BY <1>1, <2>2 DEF ConfirmInv, ConfirmedIsDelivered
  <2> QED BY <1>3, <2>3, OtherEnd
<1>5. ASSUME NEW q \in Peer, NEW m \in acked'[q] PROVE Delivered(Other(q), m)'
  <2>1. acked \in [Peer -> SUBSET Nat] BY DEF ConfirmInv, TypeOK
  <2>2. m \in acked[q] BY <1>5, <2>1 DEF Acked
  <2> QED BY <1>3, <2>2, OtherEnd DEF ConfirmInv, AcksAreEarned
<1>6. ASSUME NEW r \in net', r.ptype = "ACK" PROVE Delivered(Other(r.to), r.seq)'
  <2>1. r \in net /\ r \in Packet BY <1>2, <1>6 DEF ConfirmInv, TypeOK
  <2>2. Other(r.to) \in Peer BY <2>1, OtherEnd DEF Packet
  <2> QED BY <1>3, <1>6, <2>1, <2>2 DEF ConfirmInv, AcksAreEarned
<1> QED BY <1>4, <1>5, <1>6 DEF ConfirmInv, AcksAreEarned, ConfirmedIsDelivered

LEMMA NextConfirms == ConfirmInv /\ [Next]_vars => ConfirmInv'
<1> SUFFICES ASSUME ConfirmInv, [Next]_vars PROVE ConfirmInv'
  OBVIOUS
<1>1. TypeOK' BY NextTyped DEF ConfirmInv
<1>2. acked \in [Peer -> SUBSET Nat] BY DEF ConfirmInv, TypeOK
\* any datagram, for NoNewAck where nothing is received
<1>3. ASSUME NEW p \in Peer
      PROVE  [to |-> Other(p), ptype |-> "FIN", seq |-> 0, copy |-> 0] \in Packet
  BY PacketTyped
<1>4. ASSUME NEW p \in Peer, NEW s \in Sender, SendStep(p, s) PROVE ConfirmInv'
  <2>1. CASE SendChunk(p, s)
    <3>1. \A r \in net' : r.ptype = "ACK" => r \in net
      BY <2>1 DEF SendChunk, Sent, Transmission
    <3> QED BY <1>1, <1>3, <2>1, <3>1, NoNewAck DEF SendChunk
  <2>2. CASE Retransmit(p, s)
    <3>1. \A r \in net' : r.ptype = "ACK" => r \in net
      BY <2>2 DEF Retransmit, Sent, Transmission
    <3> QED BY <1>1, <1>3, <2>2, <3>1, NoNewAck DEF Retransmit
  <2>3. CASE GiveUp(p, s)
    <3>1. \A q \in Peer : acked'[q] \subseteq acked[q] BY <1>2, <2>3 DEF GiveUp
    <3> QED BY <1>1, <1>3, <2>3, <3>1, NoNewAck DEF GiveUp
  <2>4. CASE Acked(p, s) BY <1>1, <2>4, AckedConfirms
  <2> QED BY <1>4, <2>1, <2>2, <2>3, <2>4 DEF SendStep
<1>5. ASSUME NEW p \in Peer, Recv(p) PROVE ConfirmInv' BY <1>1, <1>5, RecvConfirms
<1>6. ASSUME NEW p \in Peer, Keepalive(p) PROVE ConfirmInv'
  <2>1. \A r \in net' : r.ptype = "ACK" => r \in net BY <1>6 DEF Keepalive, Sent
  <2> QED BY <1>1, <1>3, <1>6, <2>1, NoNewAck DEF Keepalive
<1>7. ASSUME NEW p \in Peer, Close(p) PROVE ConfirmInv'
  BY <1>1, <1>3, <1>7, NoNewAck DEF Close
<1>11. ASSUME NEW p \in Peer, Fin(p) PROVE ConfirmInv'
  <2>1. \A r \in net' : r.ptype = "ACK" => r \in net BY <1>11 DEF Fin, Sent
  <2> QED BY <1>1, <1>3, <1>11, <2>1, NoNewAck DEF Fin
<1>8. ASSUME NEW pkt \in net, Arrive(pkt) PROVE ConfirmInv'
  BY <1>1, <1>8, ArriveConfirms
<1>9. ASSUME NEW pkt \in net, Lose(pkt) PROVE ConfirmInv'
  <2>1. pkt \in Packet BY DEF ConfirmInv, TypeOK
  <2>2. pkt.to \in Peer BY <2>1 DEF Packet
  <2> QED BY <1>1, <1>9, <2>1, <2>2, NoNewAck DEF Lose
<1>10. CASE UNCHANGED vars
  <2>1. \A q \in Peer : \A n : Delivered(q, n)' <=> Delivered(q, n)
    BY <1>10 DEF Delivered, vars
  <2>2. ASSUME NEW r \in net', r.ptype = "ACK" PROVE Delivered(Other(r.to), r.seq)'
    <3>1. r \in net /\ r \in Packet BY <1>10 DEF vars, ConfirmInv, TypeOK
    <3>2. Other(r.to) \in Peer BY <3>1, OtherEnd DEF Packet
    <3> QED BY <2>1, <2>2, <3>1, <3>2 DEF ConfirmInv, AcksAreEarned
  <2>3. \A q \in Peer : \A n \in acked'[q] : Delivered(Other(q), n)'
    BY <1>10, <2>1, OtherEnd DEF vars, ConfirmInv, AcksAreEarned
  <2>4. ConfirmedIsDelivered'
    BY <1>10, <2>1, OtherEnd DEF vars, ConfirmInv, ConfirmedIsDelivered
  <2> QED BY <1>1, <2>2, <2>3, <2>4 DEF ConfirmInv, AcksAreEarned
<1> QED BY <1>4, <1>5, <1>6, <1>7, <1>8, <1>9, <1>10, <1>11 DEF Next

\* A send() that returned without an error was received by the application at
\* the other end, whatever the network lost, delayed or reordered and whatever a
\* full queue dropped.
THEOREM ConfirmedIsAlwaysDelivered == Spec => []ConfirmedIsDelivered
<1>1. Init => ConfirmInv
  BY InitTyped DEF Init, ConfirmInv, AcksAreEarned, ConfirmedIsDelivered
<1>2. ConfirmInv => ConfirmedIsDelivered BY DEF ConfirmInv
<1> QED BY <1>1, <1>2, NextConfirms, PTL DEF Spec

-----------------------------------------------------------------------------
(* Order                                                                   *)

\* One task of an end sends at a time.
OneSender == \A s, t \in Sender : s = t

\* A chunk under way, queued or received has been numbered before the next one,
\* and the chunk that awaits its ACK is the last one numbered.
Before(pkt, seqs) == pkt.ptype = "DATA" => pkt.seq < seqs[Other(pkt.to)]
Numbered ==
  /\ \A pkt \in net : Before(pkt, sendSeq)
  /\ \A q \in Peer : \A i \in DOMAIN queue[q] :
       queue[q][i].to = q /\ Before(queue[q][i], sendSeq)
  /\ \A q \in Peer : \A i \in DOMAIN received[q] :
       received[q][i].to = q /\ Before(received[q][i], sendSeq)
  /\ \A p \in Peer, s \in Sender :
       sending[p][s].state = "waiting" => sending[p][s].seq + 1 = sendSeq[p]

OrderInv == ConfirmInv /\ Numbered /\ InOrder

\* What Append and Tail do to the places of a sequence.
LEMMA Places ==
  ASSUME NEW S, NEW q \in Seq(S), NEW x \in S
  PROVE  /\ DOMAIN Append(q, x) = DOMAIN q \cup {Len(q) + 1}
         /\ \A i \in DOMAIN q : Append(q, x)[i] = q[i] /\ i < Len(q) + 1 /\ i \in 1..Len(q)
         /\ Append(q, x)[Len(q) + 1] = x
         /\ q # <<>> => /\ Head(q) = q[1] /\ 1 \in DOMAIN q
                        /\ \A i \in DOMAIN Tail(q) : \E j \in DOMAIN q : Tail(q)[i] = q[j]
<1>1. DOMAIN q = 1..Len(q) /\ Len(q) \in Nat OBVIOUS
<1>2. /\ DOMAIN Append(q, x) = 1..(Len(q) + 1)
      /\ \A i \in 1..Len(q) : Append(q, x)[i] = q[i]
      /\ Append(q, x)[Len(q) + 1] = x
  OBVIOUS
<1>3. ASSUME q # <<>>
      PROVE  /\ Head(q) = q[1] /\ 1 \in DOMAIN q
             /\ \A i \in DOMAIN Tail(q) : \E j \in DOMAIN q : Tail(q)[i] = q[j]
  <2>1. /\ Len(q) > 0 /\ Head(q) = q[1] /\ DOMAIN Tail(q) = 1..(Len(q) - 1)
        /\ \A i \in 1..(Len(q) - 1) : Tail(q)[i] = q[i + 1] /\ i + 1 \in DOMAIN q
    BY <1>1, <1>3
  <2> QED BY <1>1, <2>1
<1> QED BY <1>1, <1>2, <1>3

\* A step that numbers and delivers nothing.
LEMMA NothingNumbered ==
  ASSUME Numbered, InOrder, sendSeq' = sendSeq, received' = received, confirmed' = confirmed,
         \A pkt \in net' : pkt \in net \/ pkt.ptype # "DATA" \/ Before(pkt, sendSeq),
         \A q \in Peer : \A i \in DOMAIN queue'[q] :
           (\E j \in DOMAIN queue[q] : queue'[q][i] = queue[q][j])
           \/ (queue'[q][i] \in net /\ queue'[q][i].to = q),
         \A p \in Peer, s \in Sender :
           sending'[p][s].state = "waiting"
             => sending[p][s].state = "waiting" /\ sending'[p][s].seq = sending[p][s].seq
  PROVE  Numbered' /\ InOrder'
<1>1. sendSeq' = sendSeq OBVIOUS
<1>2. \A pkt \in net' : Before(pkt, sendSeq') BY <1>1 DEF Numbered, Before
<1>3. \A q \in Peer : \A i \in DOMAIN queue'[q] : queue'[q][i].to = q /\ Before(queue'[q][i], sendSeq')
  BY <1>1 DEF Numbered
<1>4. \A q \in Peer : \A i \in DOMAIN received'[q] :
        received'[q][i].to = q /\ Before(received'[q][i], sendSeq')
  BY <1>1 DEF Numbered
<1>5. \A p \in Peer, s \in Sender :
        sending'[p][s].state = "waiting" => sending'[p][s].seq + 1 = sendSeq'[p]
  BY DEF Numbered
<1>6. InOrder' BY DEF InOrder
<1> QED BY <1>2, <1>3, <1>4, <1>5, <1>6 DEF Numbered

\* A chunk is numbered.
LEMMA ChunkNumbered ==
  ASSUME OneSender, OrderInv, NEW p \in Peer, NEW s \in Sender, SendChunk(p, s)
  PROVE  Numbered' /\ InOrder'
<1>1. /\ sendSeq \in [Peer -> Seqs] /\ net \subseteq Packet
      /\ sending \in [Peer -> [Sender -> SendState]]
      /\ \A q \in Peer : sendSeq[q] \in Nat
  BY Bounds DEF OrderInv, ConfirmInv, TypeOK, Seqs, SendState
<1>2. /\ sendSeq'[p] = sendSeq[p] + 1
      /\ \A q \in Peer : q # p => sendSeq'[q] = sendSeq[q]
      /\ sending'[p][s].seq = sendSeq[p]
      /\ \A q \in Peer, t \in Sender : q # p => sending'[q][t] = sending[q][t]
      /\ queue' = queue /\ received' = received /\ confirmed' = confirmed
      /\ net' \subseteq net \cup {Transmission(p, sendSeq[p], 1)}
  BY <1>1 DEF SendChunk, Sent
<1>3. \A pkt \in Packet : Before(pkt, sendSeq) => Before(pkt, sendSeq')
  <2>1. SUFFICES ASSUME NEW pkt \in Packet, pkt.ptype = "DATA", pkt.seq < sendSeq[Other(pkt.to)]
                 PROVE  pkt.seq < sendSeq'[Other(pkt.to)]
    BY DEF Before
  <2>2. Other(pkt.to) \in Peer /\ pkt.seq \in Nat BY OtherEnd DEF Packet
  <2> QED BY <1>1, <1>2, <2>1, <2>2
<1>4. Before(Transmission(p, sendSeq[p], 1), sendSeq')
  BY <1>1, <1>2, OtherEnd DEF Before, Transmission
<1>5. \A pkt \in net' : Before(pkt, sendSeq') BY <1>1, <1>2, <1>3, <1>4 DEF OrderInv, Numbered
<1>6. ASSUME NEW q \in Peer, NEW i \in DOMAIN queue'[q]
      PROVE  queue'[q][i].to = q /\ Before(queue'[q][i], sendSeq')
  <2>1. queue[q] \in Seq(Packet) BY DEF OrderInv, ConfirmInv, TypeOK
  <2>2. queue[q][i] \in Packet BY <1>2, <1>6, <2>1
  <2> QED BY <1>2, <1>3, <2>2 DEF OrderInv, Numbered
<1>7. ASSUME NEW q \in Peer, NEW i \in DOMAIN received'[q]
      PROVE  received'[q][i].to = q /\ Before(received'[q][i], sendSeq')
  <2>1. received[q] \in Seq(Packet) BY DEF OrderInv, ConfirmInv, TypeOK
  <2>2. received[q][i] \in Packet BY <1>2, <1>7, <2>1
  <2> QED BY <1>2, <1>3, <2>2 DEF OrderInv, Numbered
<1>8. ASSUME NEW q \in Peer, NEW t \in Sender, sending'[q][t].state = "waiting"
      PROVE  sending'[q][t].seq + 1 = sendSeq'[q]
  <2>1. CASE q = p
    <3>1. t = s BY DEF OneSender
    <3> QED BY <1>2, <2>1, <3>1
  <2>2. CASE q # p BY <1>2, <1>8, <2>2 DEF OrderInv, Numbered
  <2> QED BY <2>1, <2>2
<1>9. InOrder' BY <1>2 DEF OrderInv, InOrder
<1> QED BY <1>5, <1>6, <1>7, <1>8, <1>9 DEF Numbered

\* A chunk is confirmed: it is the last one, so that no later one is received.
LEMMA ConfirmedLast ==
  ASSUME OrderInv, NEW p \in Peer, NEW s \in Sender, Acked(p, s)
  PROVE  Numbered' /\ InOrder'
<1> DEFINE n == sending[p][s].seq
<1>1. /\ sending \in [Peer -> [Sender -> SendState]] /\ n \in Nat
      /\ confirmed \in [Peer -> SUBSET Nat]
  BY DEF OrderInv, ConfirmInv, TypeOK, SendState
<1>2. /\ UNCHANGED <<net, sendSeq, queue, received>> /\ n + 1 = sendSeq[p]
      /\ confirmed'[p] = confirmed[p] \cup {n}
      /\ \A q \in Peer : q # p => confirmed'[q] = confirmed[q]
  BY <1>1 DEF Acked, OrderInv, Numbered
<1>3. \A q \in Peer, t \in Sender :
        sending'[q][t].state = "waiting" => sending'[q][t] = sending[q][t]
  BY <1>1 DEF Acked, Idle, More
<1>4. ASSUME NEW i \in DOMAIN received[Other(p)], received[Other(p)][i].ptype = "DATA"
      PROVE  ~(received[Other(p)][i].seq > n)
  <2>1. received[Other(p)] \in Seq(Packet) /\ Other(p) \in Peer /\ Other(Other(p)) = p
    BY OtherEnd DEF OrderInv, ConfirmInv, TypeOK
  <2>2. received[Other(p)][i] \in Packet BY <1>4, <2>1
  <2>3. received[Other(p)][i].seq \in Nat BY <2>2 DEF Packet
  <2>4. received[Other(p)][i].seq < sendSeq[p]
    BY <1>4, <2>1 DEF OrderInv, Numbered, Before
  <2> QED BY <1>1, <1>2, <2>3, <2>4
<1>5. Numbered'
  <2>1. sendSeq' = sendSeq BY <1>2
  <2> QED BY <1>2, <1>3, <2>1 DEF OrderInv, Numbered
<1> HIDE DEF n
<1>6. InOrder'
  <2>1. SUFFICES ASSUME NEW q \in Peer, NEW m \in confirmed'[q],
                        NEW i \in DOMAIN received[Other(q)],
                        received[Other(q)][i].ptype = "DATA", received[Other(q)][i].seq > m
                 PROVE  \E j \in 1..(i - 1) : /\ received[Other(q)][j].ptype = "DATA"
                                              /\ received[Other(q)][j].seq = m
    BY <1>2 DEF InOrder
  <2>2. CASE m \in confirmed[q] BY <2>1, <2>2 DEF OrderInv, InOrder
  <2>3. CASE q = p /\ m = n BY <1>4, <2>1, <2>3
  <2> QED BY <1>2, <2>2, <2>3
<1> QED BY <1>5, <1>6

\* A later chunk is returned by recv() after the ones that were confirmed.
LEMMA RecvInOrder ==
  ASSUME OrderInv, NEW p \in Peer, Recv(p)
  PROVE  Numbered' /\ InOrder'
<1> DEFINE x == Head(queue[p])
<1>1. /\ queue[p] \in Seq(Packet) /\ queue[p] # <<>> /\ x \in Packet
      /\ received[p] \in Seq(Packet)
      /\ Other(p) \in Peer /\ Other(Other(p)) = p
  <2>1. queue[p] \in Seq(Packet) /\ queue[p] # <<>> BY DEF Recv, OrderInv, ConfirmInv, TypeOK
  <2> QED BY <2>1, OtherEnd DEF OrderInv, ConfirmInv, TypeOK
<1>2. /\ x.to = p /\ Before(x, sendSeq)
      /\ \A i \in DOMAIN Tail(queue[p]) : \E j \in DOMAIN queue[p] : Tail(queue[p])[i] = queue[p][j]
  BY <1>1, Places DEF OrderInv, Numbered
<1>3. /\ UNCHANGED <<sendSeq, sending, confirmed>>
      /\ queue'[p] = Tail(queue[p])
      /\ \A q \in Peer : q # p => queue'[q] = queue[q]
      /\ \A pkt \in net' : pkt \in net \/ pkt.ptype # "DATA"
      /\ received' = received \/ received' = [received EXCEPT ![p] = Append(@, x)]
  BY DEF Recv, Sent, OrderInv, ConfirmInv, TypeOK
<1>4. sendSeq' = sendSeq BY <1>3
<1>5. ASSUME NEW q \in Peer, NEW i \in DOMAIN queue'[q]
      PROVE  queue'[q][i].to = q /\ Before(queue'[q][i], sendSeq')
  <2>1. PICK j \in DOMAIN queue[q] : queue'[q][i] = queue[q][j]
    <3>1. CASE q = p BY <1>2, <1>3, <1>5, <3>1
    <3>2. CASE q # p BY <1>3, <1>5, <3>2
    <3> QED BY <3>1, <3>2
  <2> QED BY <1>4, <2>1 DEF OrderInv, Numbered
<1>6. \A pkt \in net' : Before(pkt, sendSeq') BY <1>3, <1>4 DEF OrderInv, Numbered, Before
<1>7. CASE received' = received
  <2>1. Numbered' BY <1>3, <1>4, <1>5, <1>6, <1>7 DEF OrderInv, Numbered
  <2> QED BY <1>3, <1>7, <2>1 DEF OrderInv, InOrder
<1>8. CASE received' = [received EXCEPT ![p] = Append(@, x)]
  <2> DEFINE r == received[p]
  <2>1. /\ received'[p] = Append(r, x)
        /\ \A q \in Peer : q # p => received'[q] = received[q]
    BY <1>8 DEF OrderInv, ConfirmInv, TypeOK
  <2> HIDE DEF x
  <2>2. /\ DOMAIN Append(r, x) = DOMAIN r \cup {Len(r) + 1} /\ Len(r) \in Nat
        /\ \A i \in DOMAIN r : Append(r, x)[i] = r[i] /\ i < Len(r) + 1 /\ i \in 1..Len(r)
        /\ Append(r, x)[Len(r) + 1] = x
    BY <1>1, Places
  <2> HIDE DEF r
  <2>3. \A q \in Peer : \A i \in DOMAIN received'[q] :
          received'[q][i].to = q /\ Before(received'[q][i], sendSeq')
    <3>1. \A i \in DOMAIN r : r[i].to = p /\ Before(r[i], sendSeq) BY DEF OrderInv, Numbered, r
    <3>2. \A i \in DOMAIN received'[p] : received'[p][i].to = p /\ Before(received'[p][i], sendSeq')
      BY <1>2, <1>4, <2>1, <2>2, <3>1
    <3> QED BY <1>4, <2>1, <3>2 DEF OrderInv, Numbered
  <2>4. Numbered' BY <1>3, <1>5, <1>6, <2>3 DEF OrderInv, Numbered
  <2>5. ASSUME NEW n \in confirmed[Other(p)], NEW i \in DOMAIN Append(r, x),
               Append(r, x)[i].ptype = "DATA", Append(r, x)[i].seq > n
        PROVE  \E j \in 1..(i - 1) : Append(r, x)[j].ptype = "DATA" /\ Append(r, x)[j].seq = n
    <3>1. CASE i \in DOMAIN r
      <4>1. \A m \in confirmed[Other(p)] : \A k \in DOMAIN r :
              r[k].ptype = "DATA" /\ r[k].seq > m
                => \E j \in 1..(k - 1) : r[j].ptype = "DATA" /\ r[j].seq = m
        BY <1>1 DEF OrderInv, InOrder, r
      <4>2. Append(r, x)[i] = r[i] /\ i \in 1..Len(r) BY <2>2, <3>1
      <4>3. PICK j \in 1..(i - 1) : r[j].ptype = "DATA" /\ r[j].seq = n
        BY <2>5, <3>1, <4>1, <4>2
      <4>4. j \in DOMAIN r BY <1>1, <2>2, <4>2 DEF r
      <4> QED BY <2>2, <4>3, <4>4
    <3>2. CASE i = Len(r) + 1
      <4>1. PICK j \in DOMAIN r : r[j].ptype = "DATA" /\ r[j].seq = n
        BY <1>1 DEF OrderInv, ConfirmInv, ConfirmedIsDelivered, Delivered, r
      <4>2. j \in 1..(i - 1) BY <2>2, <3>2, <4>1
      <4> QED BY <2>2, <4>1, <4>2
    <3> QED BY <2>2, <3>1, <3>2
  <2>6. InOrder'
    <3>1. SUFFICES ASSUME NEW q \in Peer, NEW n \in confirmed[q],
                          NEW i \in DOMAIN received'[Other(q)],
                          received'[Other(q)][i].ptype = "DATA",
                          received'[Other(q)][i].seq > n
                   PROVE  \E j \in 1..(i - 1) : /\ received'[Other(q)][j].ptype = "DATA"
                                                /\ received'[Other(q)][j].seq = n
      BY <1>3 DEF InOrder
    <3>2. CASE q = Other(p)
      <4>1. Other(q) = p BY <3>2, OtherEnd
      <4>2. received'[Other(q)] = Append(r, x) BY <2>1, <4>1
      <4>3. /\ n \in confirmed[Other(p)] /\ i \in DOMAIN Append(r, x)
            /\ Append(r, x)[i].ptype = "DATA" /\ Append(r, x)[i].seq > n
        BY <3>1, <3>2, <4>2
      <4>4. \E j \in 1..(i - 1) : Append(r, x)[j].ptype = "DATA" /\ Append(r, x)[j].seq = n
        BY <2>5, <4>3
      <4> QED BY <4>2, <4>4
    <3>3. CASE q # Other(p)
      <4>1. Other(q) # p /\ Other(q) \in Peer BY <3>3, OtherEnd
      <4> QED BY <2>1, <3>1, <4>1 DEF OrderInv, InOrder
    <3> QED BY <3>2, <3>3
  <2> QED BY <2>4, <2>6
<1> QED BY <1>3, <1>7, <1>8

LEMMA NextInOrder ==
  ASSUME OneSender, OrderInv, [Next]_vars
  PROVE  OrderInv'
<1>1. ConfirmInv' BY NextConfirms DEF OrderInv
<1>2. ASSUME NEW p \in Peer, NEW s \in Sender, SendStep(p, s) PROVE Numbered' /\ InOrder'
  <2>1. sending \in [Peer -> [Sender -> SendState]] BY DEF OrderInv, ConfirmInv, TypeOK, SendState
  <2>2. CASE SendChunk(p, s) BY <2>2, ChunkNumbered
  <2>3. CASE Retransmit(p, s)
    <3>1. /\ UNCHANGED <<sendSeq, received, confirmed, queue>>
          /\ \A q \in Peer, t \in Sender :
               sending'[q][t].state = "waiting"
                 => sending[q][t].state = "waiting" /\ sending'[q][t].seq = sending[q][t].seq
      BY <2>1, <2>3 DEF Retransmit
    <3>2. /\ sending[p][s].seq + 1 = sendSeq[p] /\ sending[p][s].seq \in Nat
          /\ Other(Other(p)) = p
      BY <2>1, <2>3, OtherEnd DEF Retransmit, OrderInv, Numbered, SendState
    <3>3. Before(Transmission(p, sending[p][s].seq, sending[p][s].attempt + 1), sendSeq)
      BY <3>2 DEF Before, Transmission
    <3>4. \A pkt \in net' : pkt \in net \/ pkt.ptype # "DATA" \/ Before(pkt, sendSeq)
      BY <2>3, <3>3 DEF Retransmit, Sent
    <3> QED BY <3>1, <3>4, NothingNumbered DEF OrderInv
  <2>4. CASE GiveUp(p, s)
    <3>1. \A q \in Peer, t \in Sender :
            sending'[q][t].state = "waiting"
              => sending[q][t].state = "waiting" /\ sending'[q][t].seq = sending[q][t].seq
      BY <2>1, <2>4 DEF GiveUp, Idle
    <3> QED BY <2>4, <3>1, NothingNumbered DEF GiveUp, OrderInv
  <2>5. CASE Acked(p, s) BY <2>5, ConfirmedLast
  <2> QED BY <1>2, <2>2, <2>3, <2>4, <2>5 DEF SendStep
<1>3. ASSUME NEW p \in Peer, Recv(p) PROVE Numbered' /\ InOrder' BY <1>3, RecvInOrder
<1>4. ASSUME NEW p \in Peer, Keepalive(p) \/ Close(p) \/ Fin(p) PROVE Numbered' /\ InOrder'
  <2>1. /\ UNCHANGED <<sendSeq, received, confirmed, queue, sending>>
        /\ \A pkt \in net' : pkt \in net \/ pkt.ptype # "DATA"
    BY <1>4 DEF Keepalive, Close, Fin, Sent
  <2> QED BY <2>1, NothingNumbered DEF OrderInv
<1>5. ASSUME NEW pkt \in net, Arrive(pkt) PROVE Numbered' /\ InOrder'
  <2>1. /\ UNCHANGED <<sendSeq, received, confirmed, sending>>
        /\ \A k \in net' : k \in net \/ k.ptype # "DATA"
    BY <1>5 DEF Arrive
  <2>2. ASSUME NEW q \in Peer, NEW i \in DOMAIN queue'[q]
        PROVE  (\E j \in DOMAIN queue[q] : queue'[q][i] = queue[q][j])
               \/ (queue'[q][i] \in net /\ queue'[q][i].to = q)
    <3>1. queue[q] \in Seq(Packet) /\ pkt \in Packet BY DEF OrderInv, ConfirmInv, TypeOK
    <3>2. queue'[q] = queue[q] \/ (q = pkt.to /\ queue'[q] = Append(queue[q], pkt))
      BY <1>5 DEF Arrive, OrderInv, ConfirmInv, TypeOK
    <3>3. /\ DOMAIN Append(queue[q], pkt) = DOMAIN queue[q] \cup {Len(queue[q]) + 1}
          /\ \A j \in DOMAIN queue[q] : Append(queue[q], pkt)[j] = queue[q][j]
          /\ Append(queue[q], pkt)[Len(queue[q]) + 1] = pkt
      BY <3>1, Places
    <3> QED BY <2>2, <3>2, <3>3
  <2> QED BY <2>1, <2>2, NothingNumbered DEF OrderInv
<1>6. ASSUME NEW pkt \in net, Lose(pkt) PROVE Numbered' /\ InOrder'
  BY <1>6, NothingNumbered DEF Lose, OrderInv
<1>7. CASE UNCHANGED vars
  <2>1. /\ net' = net /\ sendSeq' = sendSeq /\ received' = received
        /\ confirmed' = confirmed /\ queue' = queue /\ sending' = sending
    BY <1>7 DEF vars
  <2>2. \A q \in Peer : \A i \in DOMAIN queue'[q] :
          \E j \in DOMAIN queue[q] : queue'[q][i] = queue[q][j]
    BY <2>1
  <2>3. Numbered' /\ InOrder' BY <2>1, <2>2, NothingNumbered DEF OrderInv
  <2> QED BY <1>1, <2>3 DEF OrderInv
<1> QED BY <1>1, <1>2, <1>3, <1>4, <1>5, <1>6, <1>7 DEF Next, OrderInv

\* Where one task of an end sends at a time, a chunk that was confirmed is
\* received before every later one: no loss, delay, retransmission or full queue
\* lets a later chunk overtake it.
THEOREM ConfirmedAreInOrder == OneSender => (Spec => []InOrder)
<1> SUFFICES ASSUME OneSender PROVE Spec => []InOrder
  OBVIOUS
<1>1. Init => OrderInv
  <2> SUFFICES ASSUME Init PROVE OrderInv
    OBVIOUS
  <2>1. ConfirmInv BY InitTyped DEF Init, ConfirmInv, AcksAreEarned, ConfirmedIsDelivered
  <2>2. /\ net = {} /\ \A p \in Peer : queue[p] = <<>> /\ received[p] = <<>> /\ confirmed[p] = {}
        /\ \A p \in Peer, s \in Sender : sending[p][s].state # "waiting"
    BY DEF Init, Idle
  <2>3. DOMAIN <<>> = {} OBVIOUS
  <2>4. Numbered BY <2>2, <2>3 DEF Numbered
  <2>5. InOrder BY <2>2 DEF InOrder
  <2> QED BY <2>1, <2>4, <2>5 DEF OrderInv
<1>2. OrderInv /\ [Next]_vars => OrderInv' BY NextInOrder
<1>3. OrderInv => InOrder BY DEF OrderInv
<1> QED BY <1>1, <1>2, <1>3, PTL DEF Spec

=============================================================================
