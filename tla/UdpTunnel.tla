------------------------------ MODULE UdpTunnel ------------------------------
(***************************************************************************)
(* Two ends of a UdpTunnel (hort/peer2peer/tunnel.py) over a punched UDP   *)
(* path that loses, delays and reorders datagrams.  Each end may send and  *)
(* receive at once, and several tasks of an end may be inside send() or    *)
(* recv().                                                                 *)
(*                                                                         *)
(* A chunk is identified by its sequence number: what it carries does not  *)
(* matter.  Timers are abstracted: a timeout may fire while it is armed.   *)
(***************************************************************************)
EXTENDS Naturals, Sequences

CONSTANTS
  Peer,            \* the two ends
  Sender,          \* the tasks of an end that call send()
  MAX_RETRANSMITS, \* transmissions of a chunk before send() gives up
  RECV_QUEUE_MAX,
  MaxChunks,       \* bound: chunks the two ends send
  MaxPings         \* bound: keepalive pings the two ends send

ASSUME TunnelAssumption ==
  /\ \A p \in Peer : \E q \in Peer : Peer = {p, q} /\ p # q
  /\ MAX_RETRANSMITS \in Nat \ {0} /\ RECV_QUEUE_MAX \in Nat \ {0}
  /\ MaxChunks \in Nat /\ MaxPings \in Nat

Other(p) == CHOOSE q \in Peer : q # p

VARIABLES
  net,       \* datagrams under way
  sendSeq,   \* [Peer -> self._send_seq]
  sending,   \* [Peer -> [Sender -> the chunk it awaits the ACK of]]
  acked,     \* [Peer -> the sequence numbers whose ack event is set]
  queue,     \* [Peer -> self._protocol._recv_queue]
  closed,    \* [Peer -> self._closed]
  sock,      \* [Peer -> its socket: "closing" while close() waits for a task]
  received,  \* [Peer -> what recv() has returned, in order]
  confirmed, \* [Peer -> the chunks whose send returned without an error]
  pings      \* [Peer -> pings sent]

vars == <<net, sendSeq, sending, acked, queue, closed, sock, received, confirmed, pings>>

Seqs    == 0..MaxChunks
Idle    == [state |-> "idle", seq |-> 0, attempt |-> 0]
More    == [Idle EXCEPT !.state = "more"]  \* between two chunks of one send()

\* `copy` tells apart the transmissions of a chunk, and the ACKs they cause.
Packet == [to : Peer, ptype : {"DATA", "ACK", "FIN", "PING", "PONG"},
           seq : Nat, copy : Nat]

\* send_raw(): nothing leaves, or reaches, a closed socket
Sent(p, pkts) == IF sock[p] # "closed" THEN net \cup pkts ELSE net

-----------------------------------------------------------------------------
(* send() and _send_reliable()                                             *)

Transmission(p, n, k) == [to |-> Other(p), ptype |-> "DATA", seq |-> n, copy |-> k]

\* The first transmission of the next chunk.  send() tests _closed before its
\* first chunk only.
SendChunk(p, s) ==
  /\ \/ sending[p][s].state = "idle" /\ ~closed[p]
     \/ sending[p][s].state = "more"
  /\ sendSeq[p] + sendSeq[Other(p)] < MaxChunks
  /\ sendSeq' = [sendSeq EXCEPT ![p] = @ + 1]
  /\ sending' = [sending EXCEPT ![p][s] =
                   [state |-> "waiting", seq |-> sendSeq[p], attempt |-> 1]]
  /\ net' = Sent(p, {Transmission(p, sendSeq[p], 1)})
  /\ UNCHANGED <<acked, queue, closed, sock, received, confirmed, pings>>

\* Mutant: one transmission too many.
Retransmit_OneMore(p, s) ==
  /\ sending[p][s].state = "waiting"
  /\ sending[p][s].attempt <= MAX_RETRANSMITS
  /\ sending' = [sending EXCEPT ![p][s].attempt = @ + 1]
  /\ net' = Sent(p, {Transmission(p, sending[p][s].seq, sending[p][s].attempt + 1)})
  /\ UNCHANGED <<sendSeq, acked, queue, closed, sock, received, confirmed, pings>>

\* The wait for the ACK times out (it may do so when the event has just been
\* set: the next wait then returns at once).
Retransmit(p, s) ==
  /\ sending[p][s].state = "waiting"
  /\ sending[p][s].attempt < MAX_RETRANSMITS
  /\ sending' = [sending EXCEPT ![p][s].attempt = @ + 1]
  /\ net' = Sent(p, {Transmission(p, sending[p][s].seq, sending[p][s].attempt + 1)})
  /\ UNCHANGED <<sendSeq, acked, queue, closed, sock, received, confirmed, pings>>

\* Mutant: running out of transmissions is not an error.
GiveUp_Confirms(p, s) ==
  /\ sending[p][s].state = "waiting"
  /\ sending[p][s].attempt = MAX_RETRANSMITS
  /\ confirmed' = [confirmed EXCEPT ![p] = @ \cup {sending[p][s].seq}]
  /\ sending' = [sending EXCEPT ![p][s] = Idle]
  /\ acked' = [acked EXCEPT ![p] = @ \ {sending[p][s].seq}]
  /\ UNCHANGED <<net, sendSeq, queue, closed, sock, received, pings>>

\* ConnectionError: no ACK
GiveUp(p, s) ==
  /\ sending[p][s].state = "waiting"
  /\ sending[p][s].attempt = MAX_RETRANSMITS
  /\ sending' = [sending EXCEPT ![p][s] = Idle]
  /\ acked' = [acked EXCEPT ![p] = @ \ {sending[p][s].seq}]
  /\ UNCHANGED <<net, sendSeq, queue, closed, sock, received, confirmed, pings>>

\* _send_reliable returns; send() goes on with the next chunk of its data.
Acked(p, s) ==
  /\ sending[p][s].state = "waiting"
  /\ sending[p][s].seq \in acked[p]
  /\ confirmed' = [confirmed EXCEPT ![p] = @ \cup {sending[p][s].seq}]
  /\ \E next \in {Idle, More} : sending' = [sending EXCEPT ![p][s] = next]
  /\ acked' = [acked EXCEPT ![p] = @ \ {sending[p][s].seq}]
  /\ UNCHANGED <<net, sendSeq, queue, closed, sock, received, pings>>

-----------------------------------------------------------------------------
(* _TunnelProtocol.datagram_received                                       *)

\* Mutant: a chunk is acknowledged when it arrives.
Arrive_AcksData(pkt) ==
  LET p == pkt.to IN
  /\ sock[p] # "closed"
  /\ net' = (net \ {pkt}) \cup
              (IF pkt.ptype = "DATA"
               THEN {[to |-> Other(p), ptype |-> "ACK", seq |-> pkt.seq, copy |-> pkt.copy]}
               ELSE {})
  /\ acked' = IF pkt.ptype = "ACK"
              THEN [acked EXCEPT ![p] = @ \cup {pkt.seq}] ELSE acked
  /\ queue' = IF pkt.ptype \in {"DATA", "FIN", "PONG"} /\ Len(queue[p]) < RECV_QUEUE_MAX
              THEN [queue EXCEPT ![p] = Append(@, pkt)] ELSE queue
  /\ UNCHANGED <<sendSeq, sending, closed, sock, received, confirmed, pings>>

\* An ACK sets the event of its sequence number while somebody waits for it, a
\* PING is answered, the rest is queued for recv() or dropped.
Arrive(pkt) ==
  LET p == pkt.to IN
  /\ sock[p] # "closed"
  /\ net' = (net \ {pkt}) \cup
              (IF pkt.ptype = "PING"
               THEN {[to |-> Other(p), ptype |-> "PONG", seq |-> pkt.seq, copy |-> pkt.copy]}
               ELSE {})
  /\ acked' = IF /\ pkt.ptype = "ACK"
                 /\ \E s \in Sender : sending[p][s].state = "waiting"
                                      /\ sending[p][s].seq = pkt.seq
              THEN [acked EXCEPT ![p] = @ \cup {pkt.seq}] ELSE acked
  /\ queue' = IF pkt.ptype \in {"DATA", "FIN", "PONG"} /\ Len(queue[p]) < RECV_QUEUE_MAX
              THEN [queue EXCEPT ![p] = Append(@, pkt)] ELSE queue
  /\ UNCHANGED <<sendSeq, sending, closed, sock, received, confirmed, pings>>

\* The network loses a datagram, or it reaches a socket that is closed.
Lose(pkt) ==
  /\ net' = net \ {pkt}
  /\ UNCHANGED <<sendSeq, sending, acked, queue, closed, sock, received, confirmed, pings>>

-----------------------------------------------------------------------------
(* recv(), the keepalive loop, close()                                     *)

\* A DATA packet is acknowledged and returned; so is a PONG, without an ACK;
\* a FIN closes this end (its socket stays open).  _closed is tested when
\* recv() is called: a call that was waiting then still returns a packet.
Recv(p) ==
  /\ queue[p] # <<>>
  /\ queue' = [queue EXCEPT ![p] = Tail(@)]
  /\ LET pkt == Head(queue[p]) IN
       IF pkt.ptype = "FIN"
       THEN /\ closed' = [closed EXCEPT ![p] = TRUE]
            /\ UNCHANGED <<net, received>>
       ELSE /\ received' = [received EXCEPT ![p] = Append(@, pkt)]
            /\ net' = IF pkt.ptype = "DATA"
                      THEN Sent(p, {[to |-> Other(p), ptype |-> "ACK",
                                     seq |-> pkt.seq, copy |-> pkt.copy]})
                      ELSE net
            /\ UNCHANGED closed
  /\ UNCHANGED <<sendSeq, sending, acked, sock, confirmed, pings>>

Keepalive(p) ==
  /\ ~closed[p]
  /\ pings[p] + pings[Other(p)] < MaxPings
  /\ pings' = [pings EXCEPT ![p] = @ + 1]
  /\ net' = Sent(p, {[to |-> Other(p), ptype |-> "PING", seq |-> pings[p], copy |-> 0]})
  /\ UNCHANGED <<sendSeq, sending, acked, queue, closed, sock, received, confirmed>>

\* close() up to its wait for the cancelled keepalive task ...
Close(p) ==
  /\ ~closed[p]
  /\ closed' = [closed EXCEPT ![p] = TRUE]
  /\ sock' = [sock EXCEPT ![p] = "closing"]
  /\ UNCHANGED <<net, sendSeq, sending, acked, queue, received, confirmed, pings>>

\* ... and after it.
Fin(p) ==
  /\ sock[p] = "closing"
  /\ sock' = [sock EXCEPT ![p] = "closed"]
  /\ net' = Sent(p, {[to |-> Other(p), ptype |-> "FIN", seq |-> 0, copy |-> 0]})
  /\ UNCHANGED <<sendSeq, sending, acked, queue, closed, received, confirmed, pings>>

-----------------------------------------------------------------------------
Init ==
  /\ net = {}
  /\ sendSeq = [p \in Peer |-> 0]
  /\ sending = [p \in Peer |-> [s \in Sender |-> Idle]]
  /\ acked = [p \in Peer |-> {}]
  /\ queue = [p \in Peer |-> <<>>]
  /\ closed = [p \in Peer |-> FALSE]
  /\ sock = [p \in Peer |-> "open"]
  /\ received = [p \in Peer |-> <<>>]
  /\ confirmed = [p \in Peer |-> {}]
  /\ pings = [p \in Peer |-> 0]

SendStep(p, s) == SendChunk(p, s) \/ Retransmit(p, s) \/ GiveUp(p, s) \/ Acked(p, s)

Next ==
  \/ \E p \in Peer, s \in Sender : SendStep(p, s)
  \/ \E p \in Peer : Recv(p) \/ Keepalive(p) \/ Close(p) \/ Fin(p)
  \/ \E pkt \in net : Arrive(pkt) \/ Lose(pkt)

Spec == Init /\ [][Next]_vars

-----------------------------------------------------------------------------
\* Every variable has a value of its type.
TypeOK ==
  /\ net \subseteq Packet
  /\ sendSeq \in [Peer -> Seqs]
  /\ sending \in [Peer -> [Sender -> [state : {"idle", "more", "waiting"}, seq : Nat,
                                      attempt : 0..MAX_RETRANSMITS]]]
  /\ acked \in [Peer -> SUBSET Nat]
  /\ queue \in [Peer -> Seq(Packet)]
  /\ closed \in [Peer -> BOOLEAN] 
  /\ sock \in [Peer -> {"open", "closing", "closed"}]
  /\ received \in [Peer -> Seq(Packet)]
  /\ confirmed \in [Peer -> SUBSET Nat]
  /\ pings \in [Peer -> Nat]

\* recv() at p has returned chunk n of the other end.
Delivered(p, n) ==
  \E i \in DOMAIN received[p] : received[p][i].ptype = "DATA" /\ received[p][i].seq = n

\* A send() that returns without an error has been received by the other
\* application, not merely by its socket or its queue: whatever is lost, late,
\* retransmitted, or dropped from a full queue.
ConfirmedIsDelivered ==
  \A p \in Peer : \A n \in confirmed[p] : Delivered(Other(p), n)

\* With one sender per end, the first delivery of a chunk comes after those of
\* all the chunks that were confirmed before it was sent: a lost or late
\* datagram never lets a later chunk overtake an earlier one.
InOrder ==
  \A p \in Peer : \A n \in confirmed[p] :
    \A i \in DOMAIN received[Other(p)] :
      LET r == received[Other(p)] IN
        r[i].ptype = "DATA" /\ r[i].seq > n
          => \E j \in 1..(i - 1) : r[j].ptype = "DATA" /\ r[j].seq = n

-----------------------------------------------------------------------------
(* Promises of the source's own comments                                   *)

\* "a reliable, ordered byte stream": no chunk is delivered twice or late.
OrderedStream ==
  \A p \in Peer : \A i, j \in DOMAIN received[p] :
    /\ i < j
    /\ received[p][i].ptype = "DATA"
    /\ received[p][j].ptype = "DATA"
    => received[p][i].seq < received[p][j].seq

=============================================================================
