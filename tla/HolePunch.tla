----------------------------- MODULE HolePunch -----------------------------
(* Two peers behind NATs look for a direct UDP path: each asks STUN servers  *)
(* for its public address (hort/peer2peer/stun.py), sends it to the other    *)
(* over a signaling channel (signal.py, models.py), and both send probes     *)
(* until one arrives (punch.py).                                             *)
(*                                                                           *)
(* An address is <<peer, mapping>>: a NAT that is "symmetric" maps the       *)
(* peer's port anew for every destination, the others once.  Which NAT a     *)
(* peer is behind is chosen at the start; NATs, the datagrams under way and  *)
(* the signaling transport are external.                                     *)
EXTENDS Naturals, Sequences

CONSTANTS
    Peer,        \* the two peers
    Server,      \* the STUN servers, a sequence
    MaxProbes,   \* MAX_PROBES of punch.py
    MaxTrouble,  \* bound: lost datagrams and offers, STUN queries that fail
    None         \* the one mapping of a NAT that is not symmetric; no address

(* What the constants have to be.                                            *)
HolePunchAssumption ==
    /\ \E p, q \in Peer : p # q /\ Peer = {p, q}
    /\ {MaxProbes, MaxTrouble} \subseteq Nat

VARIABLES
    nat,      \* per peer, the NAT it is behind
    opened,   \* per peer, the addresses it has sent to from its port
    stage,    \* per peer, where punch_with_signaling and what precedes it is
    at,       \* per peer, the server discover() asks
    found,    \* per peer, its StunResult
    inbox,    \* per peer, CallbackSignaling._inbox
    target,   \* per peer, the address it sends its probes to
    probes,   \* per peer, the probes sent
    heard,    \* per peer, _PunchProtocol.remote_addr once received is set
    net,      \* the datagrams under way
    trouble   \* how many things went wrong

vars == <<nat, opened, stage, at, found, inbox, target, probes, heard, net,
          trouble>>
stunVars == <<stage, at, found>>
punchVars == <<opened, target, probes, heard, net>>

Other(p) == CHOOSE q \in Peer : q # p

Mapped(p, dest) == <<p, IF nat[p] = "symmetric" THEN dest ELSE None>>

(* A NAT lets a datagram in when its peer has sent to where it comes from.   *)
Admits(p, m) == /\ m.to = Mapped(p, m.from)
                /\ nat[p] = "open" \/ m.from \in opened[p]

Goes(p, type, dest) == [type |-> type, from |-> Mapped(p, dest), to |-> dest]

Trouble == trouble < MaxTrouble /\ trouble' = trouble + 1

Init ==
    /\ nat \in [Peer -> {"open", "cone", "symmetric"}]
    /\ opened = [p \in Peer |-> {}]
    /\ stage = [p \in Peer |-> IF Len(Server) < 2 THEN "discover" ELSE "first"]
    /\ at = [p \in Peer |-> 1]
    /\ found = [p \in Peer |-> None]
    /\ inbox = [p \in Peer |-> << >>]
    /\ target = [p \in Peer |-> None]
    /\ probes = [p \in Peer |-> 0]
    /\ heard = [p \in Peer |-> None]
    /\ net = {} /\ trouble = 0

(* What a server saw and what it says of the NAT.  The local address is that *)
(* of a socket bound to 0.0.0.0, so no result is ever "open".                *)
Result(p, i, type) == [public |-> Mapped(p, Server[i]), nat |-> type]

(* detect_nat_type(): the first server, then the second from the same port.  *)
FirstAnswers(p) ==
    /\ stage[p] = "first"
    /\ found' = [found EXCEPT ![p] = Result(p, 1, "unknown")]
    /\ stage' = [stage EXCEPT ![p] = "second"]
    /\ UNCHANGED <<nat, at, inbox, punchVars, trouble>>

FirstFails(p) ==
    /\ stage[p] = "first" /\ Trouble
    /\ stage' = [stage EXCEPT ![p] = "discover"]
    /\ UNCHANGED <<nat, at, found, inbox, punchVars>>

(* The mapped ports differ, or they do not.                                  *)
SecondAnswers(p) ==
    /\ stage[p] = "second"
    /\ found' = [found EXCEPT ![p].nat =
                   IF found[p].public # Mapped(p, Server[2]) THEN "symmetric"
                   ELSE "port-restricted"]
    /\ stage' = [stage EXCEPT ![p] = "found"]
    /\ UNCHANGED <<nat, at, inbox, punchVars, trouble>>

(* No answer, or the port is taken when it is bound again.                   *)
SecondFails(p) ==
    /\ stage[p] = "second" /\ Trouble
    /\ stage' = [stage EXCEPT ![p] = "found"]
    /\ UNCHANGED <<nat, at, found, inbox, punchVars>>

(* discover(): one server after the other, one request each.                 *)
Discovers(p) ==
    /\ stage[p] = "discover"
    /\ found' = [found EXCEPT ![p] = Result(p, at[p], "unknown")]
    /\ stage' = [stage EXCEPT ![p] = "found"]
    /\ UNCHANGED <<nat, at, inbox, punchVars, trouble>>

ServerFails(p) ==
    /\ stage[p] = "discover" /\ Trouble
    /\ IF at[p] < Len(Server)
         THEN at' = [at EXCEPT ![p] = @ + 1] /\ UNCHANGED stage
         ELSE stage' = [stage EXCEPT ![p] = "failed"] /\ UNCHANGED at
    /\ UNCHANGED <<nat, found, inbox, punchVars>>

(* exchange(): send our PeerInfo, wait for the other's.                      *)
Offer(p) ==
    /\ stage[p] = "found"
    /\ stage' = [stage EXCEPT ![p] = "signal"]
    /\ \/ /\ inbox' = [inbox EXCEPT ![Other(p)] = Append(@, found[p])]
          /\ UNCHANGED trouble
       \/ Trouble /\ UNCHANGED inbox
    /\ UNCHANGED <<nat, at, found, punchVars>>

Answer(p) ==
    /\ stage[p] = "signal" /\ inbox[p] # << >>
    /\ target' = [target EXCEPT ![p] = Head(inbox[p]).public]
    /\ inbox' = [inbox EXCEPT ![p] = Tail(@)]
    /\ stage' = [stage EXCEPT ![p] = "punch"]
    /\ UNCHANGED <<nat, opened, at, found, probes, heard, net, trouble>>

NoAnswer(p) ==
    /\ stage[p] = "signal" /\ inbox[p] = << >>
    /\ stage' = [stage EXCEPT ![p] = "failed"]
    /\ UNCHANGED <<nat, at, found, inbox, punchVars, trouble>>

(* punch(): a PING every interval while nothing has been heard.              *)
Probe(p) ==
    /\ stage[p] = "punch" /\ heard[p] = None /\ probes[p] < MaxProbes
    /\ probes' = [probes EXCEPT ![p] = @ + 1]
    /\ opened' = [opened EXCEPT ![p] = @ \cup {target[p]}]
    /\ net' = net \cup {Goes(p, "PING", target[p])}
    /\ UNCHANGED <<nat, inbox, stunVars, target, heard, trouble>>

(* The address the first PING or PONG came from is the path.                 *)
Path_Announced(p, m) == target[p]
Path(p, m) == m.from

(* _PunchProtocol.datagram_received: a PING is answered to where it came     *)
(* from; the first of either kind ends the wait.                             *)
Receive(m) ==
    LET p == m.to[1] IN
    /\ stage[p] = "punch" /\ Admits(p, m)
    /\ heard' = [heard EXCEPT ![p] = IF @ = None THEN Path(p, m) ELSE @]
    /\ IF m.type = "PING"
         THEN /\ net' = (net \ {m}) \cup {Goes(p, "PONG", m.from)}
              /\ opened' = [opened EXCEPT ![p] = @ \cup {m.from}]
         ELSE net' = net \ {m} /\ UNCHANGED opened
    /\ UNCHANGED <<nat, inbox, stunVars, target, probes, trouble>>

(* The NAT keeps it out, or nobody listens on the port (yet, or any more).   *)
Vanish(m) ==
    /\ stage[m.to[1]] # "punch" \/ ~Admits(m.to[1], m)
    /\ net' = net \ {m}
    /\ UNCHANGED <<nat, inbox, stunVars, opened, target, probes, heard, trouble>>

Lose(m) ==
    /\ Trouble
    /\ net' = net \ {m}
    /\ UNCHANGED <<nat, inbox, stunVars, opened, target, probes, heard>>

(* punch() returns, and its finally closes the socket.                       *)
Succeed(p) ==
    /\ stage[p] = "punch" /\ heard[p] # None
    /\ stage' = [stage EXCEPT ![p] = "punched"]
    /\ UNCHANGED <<nat, at, found, inbox, punchVars, trouble>>

GiveUp(p) ==
    /\ stage[p] = "punch" /\ heard[p] = None /\ probes[p] = MaxProbes
    /\ stage' = [stage EXCEPT ![p] = "failed"]
    /\ UNCHANGED <<nat, at, found, inbox, punchVars, trouble>>

Next ==
    \/ \E p \in Peer :
         \/ FirstAnswers(p) \/ FirstFails(p) \/ SecondAnswers(p) \/ SecondFails(p)
         \/ Discovers(p) \/ ServerFails(p)
         \/ Offer(p) \/ Answer(p) \/ NoAnswer(p)
         \/ Probe(p) \/ Succeed(p) \/ GiveUp(p)
    \/ \E m \in net : Receive(m) \/ Vanish(m) \/ Lose(m)

Spec == Init /\ [][Next]_vars

-----------------------------------------------------------------------------
(* Type correctness.                                                         *)
HolePunchTypeOK ==
    /\ stage \in [Peer -> {"first", "second", "discover", "found", "signal",
                           "punch", "punched", "failed"}]
    /\ \A p \in Peer : /\ probes[p] \in 0..MaxProbes
                       /\ at[p] \in 1..Len(Server)
                       /\ found[p] # None => found[p].public[1] = p
    /\ trouble \in 0..MaxTrouble

(* The address a successful punch returns is one the other peer can be       *)
(* reached at from here: what is sent to it leaves through a mapping the     *)
(* other has sent to, and lands on the mapping the other keeps for it - also *)
(* where the other's NAT is symmetric and the announced address is not it.   *)
(* About _PunchProtocol.datagram_received.                                   *)
PathWorks ==
    \A p \in Peer :
      stage[p] = "punched" => Admits(Other(p), Goes(p, "DATA", heard[p]))
=============================================================================
