----------------------------- MODULE AgentsProofs -----------------------------
(***************************************************************************)
(* Proofs about the components that MCAgents puts side by side: what two   *)
(* sandboxed peers say to each other is not lost, a group of llmings is on *)
(* the bus as a whole or not at all, whoever asks an MCP process, a power, *)
(* the chat or the lens gets what was asked for, a trigger keeps its       *)
(* cooldown, sandboxes, chats and /new keep their promises, and what a     *)
(* connection carries from end to end comes whole.                         *)
(***************************************************************************)
EXTENDS MCAgents, TLAPS, SequenceTheorems, FiniteSetTheorems

-----------------------------------------------------------------------------
(* A behaviour is one of a single component                                *)

LEMMA PartStays == [Next]_all => part' = part
BY DEF Next, Resting, all

LEMMA PeersOnly ==
  /\ Init /\ Is("peers") => Pe!Init
  /\ [Next]_all /\ Is("peers") => [Pe!Next]_(Pe!vars)
BY DEF Init, Next, Is, Pe!vars, all

-----------------------------------------------------------------------------
(* Envoy: what EnvoyProofs shows of it                                     *)

EnP == INSTANCE EnvoyProofs WITH Call <- ToolCall, Local <- LocalCall, ctl <- v1,
  tools <- v2, handler <- v3, caller <- v4, fut <- v5, toHost <- v6, toEnvoy <- v7,
  client <- v8, listen <- v9,
  ran <- v10, local <- v11, shut <- v12

\* The instance MCAgents checks and the one EnvoyProofs is about are the same.
LEMMA SameEnvoy ==
  /\ En!Init => EnP!Init
  /\ [En!Next]_(En!vars) => [EnP!Next]_(EnP!vars)
<1>1. En!Init => EnP!Init BY DEF En!Init, EnP!Init
<1>2. UNCHANGED En!vars => UNCHANGED EnP!vars
  BY DEF En!vars, EnP!vars, En!envoyVars, En!hostVars, En!wireVars, EnP!envoyVars,
         EnP!hostVars, EnP!wireVars
<1>3. \A c \in ToolCall : En!Invoke(c) \/ En!InvokeFails(c) \/ En!Answered(c) \/ En!TimedOut(c)
                     => EnP!Invoke(c) \/ EnP!InvokeFails(c) \/ EnP!Answered(c) \/ EnP!TimedOut(c)
  BY DEF En!Invoke, En!InvokeFails, En!Answered, En!TimedOut, En!envoyVars, En!hostVars,
         En!wireVars, En!Line, En!Sent,
           EnP!Invoke, EnP!InvokeFails, EnP!Answered, EnP!TimedOut, EnP!envoyVars,
           EnP!hostVars, EnP!wireVars, EnP!Line, EnP!Sent
<1>4. \A k \in Conn : En!Accept(k) \/ En!LocalReturns(k) \/ En!HandlerEnds(k) \/ En!Connect(k)
                     => EnP!Accept(k) \/ EnP!LocalReturns(k) \/ EnP!HandlerEnds(k) \/ EnP!Connect(k)
  BY DEF En!Accept, En!LocalReturns, En!HandlerEnds, En!Connect, En!Settled, En!envoyVars,
         En!hostVars, En!wireVars, En!Line, En!Sent,
           EnP!Accept, EnP!LocalReturns, EnP!HandlerEnds, EnP!Connect, EnP!Settled,
           EnP!envoyVars, EnP!hostVars, EnP!wireVars, EnP!Line, EnP!Sent
<1>5. \A k \in Conn : En!EnvoyReads(k) => EnP!EnvoyReads(k)
  BY DEF En!EnvoyReads, En!Settled, En!Awaits, En!envoyVars, En!hostVars, En!wireVars,
         En!Line, En!Sent,
           EnP!EnvoyReads, EnP!Settled, EnP!Awaits, EnP!envoyVars, EnP!hostVars,
           EnP!wireVars, EnP!Line, EnP!Sent
<1>6. \A k \in Conn : En!HostReads(k) \/ En!ToolReturns(k) => EnP!HostReads(k) \/ EnP!ToolReturns(k)
  BY DEF En!HostReads, En!ToolReturns, En!envoyVars, En!hostVars, En!wireVars, En!Line,
         En!Sent,
           EnP!HostReads, EnP!ToolReturns, EnP!envoyVars, EnP!hostVars, EnP!wireVars,
           EnP!Line, EnP!Sent
<1>7. \A l \in LocalCall : En!CallLocal(l) \/ En!LocalTimesOut(l) => EnP!CallLocal(l) \/ EnP!LocalTimesOut(l)
  BY DEF En!CallLocal, En!LocalTimesOut, En!envoyVars, En!hostVars, En!wireVars, En!Line,
         En!Sent,
           EnP!CallLocal, EnP!LocalTimesOut, EnP!envoyVars, EnP!hostVars, EnP!wireVars,
           EnP!Line, EnP!Sent
<1>8. En!Disconnect => EnP!Disconnect
  BY DEF En!Disconnect, En!envoyVars, En!hostVars, En!wireVars, En!Line, En!Sent,
           EnP!Disconnect, EnP!envoyVars, EnP!hostVars, EnP!wireVars, EnP!Line, EnP!Sent
<1>9. En!Next => EnP!Next BY <1>3, <1>4, <1>5, <1>6, <1>7, <1>8 DEF En!Next, EnP!Next
<1> QED BY <1>1, <1>2, <1>9

LEMMA EnvoyOnly ==
  /\ Init /\ Is("envoy") => EnP!Init
  /\ [Next]_all /\ Is("envoy") => [EnP!Next]_(EnP!vars)
<1>1. Init /\ Is("envoy") => En!Init BY DEF Init, Is
<1>2. [Next]_all /\ Is("envoy") => [En!Next]_(En!vars)
  BY DEF Next, Is, En!vars, all, En!envoyVars, En!hostVars, En!wireVars
<1> QED BY <1>1, <1>2, SameEnvoy

\* A tool call through the envoy is a call that runs at most once, of which the
\* caller hears one outcome, for any number of calls in both directions: the theorem
\* of EnvoyProofs about the component that the runs check.
THEOREM ToolsAlwaysRunAtMostOnce == Spec => ToolsRunAtMostOnce
<1> DEFINE Inv == Is("envoy") => EnP!CallsInv
<1>1. EnP!EnvoyAssumption
  BY MCAgentsAssumption DEF En!EnvoyAssumption, EnP!EnvoyAssumption
<1>2. Init => Inv BY <1>1, EnvoyOnly, EnP!InitCallsInv
<1>3. Inv /\ [Next]_all => Inv'
  <2> SUFFICES ASSUME Inv, [Next]_all, Is("envoy")' PROVE EnP!CallsInv' OBVIOUS
  <2>1. Is("envoy") BY PartStays DEF Is
  <2> QED BY <2>1, EnvoyOnly, EnP!NextKeepsCalls
<1>4. Init => (Is("envoy") => En!Calls!InitCalls)
  BY DEF Init, Is, En!Init, En!Calls!InitCalls, En!Status
<1>5. Inv /\ [Next]_all => [Is("envoy") => [En!Calls!NextCalls]_(En!CallsSeen)]_all
  <2> SUFFICES ASSUME Inv, [Next]_all, Is("envoy") PROVE [En!Calls!NextCalls]_(En!CallsSeen)
    OBVIOUS
  <2>1. [EnP!Calls!NextCalls]_<<EnP!Told, v10>> BY EnvoyOnly, EnP!NextImplements
  <2>2. UNCHANGED <<EnP!Told, v10>> => UNCHANGED En!CallsSeen
    BY DEF EnP!Told, En!CallsSeen, En!Status, EnP!Status
  <2>3. EnP!Calls!NextCalls => En!Calls!NextCalls
    BY DEF En!Calls!NextCalls, En!Calls!Issue, En!Calls!Refuse, En!Calls!Run,
           En!Calls!Answer, En!Calls!Fail,
           EnP!Calls!NextCalls, EnP!Calls!Issue, EnP!Calls!Refuse, EnP!Calls!Run,
           EnP!Calls!Answer, EnP!Calls!Fail, En!Status, EnP!Status
  <2> QED BY <2>1, <2>2, <2>3
<1> QED BY <1>2, <1>3, <1>4, <1>5, PTL DEF Spec, ToolsRunAtMostOnce

-----------------------------------------------------------------------------
(* Peers: at is v1, running v2, turn v3, pending v4, done v5, resume v6,   *)
(* inbox v7, status v8, sent v9 and seen v10.                              *)

Messages == [from : {"A", "B", "task", "nudge"}, n : Nat]

\* What a peer has not been shown is in its inbox or its prompts.
Kept(p) == Pe!ToSet(v7[p]) \cup Pe!ToSet(v4[p]) \cup v10[p]

\* Nothing is said before the peers are set up, nor but in a turn of somebody.
PeersInv ==
  /\ Pe!PeersTypeOK
  /\ v4 \in [Pe!Peer -> Seq(Messages)] /\ v7 \in [Pe!Peer -> Seq(Messages)]
  /\ v10 \in [Pe!Peer -> SUBSET Messages]
  /\ v2 => v1 \in Pe!Peer
  /\ v1 = "setup" => \A p \in Pe!Peer : v9[p] = 0 /\ ~v5[p]
  /\ Pe!NothingLost /\ Pe!SomebodyWorks

LEMMA AppendElements ==
  ASSUME NEW S, NEW s \in Seq(S), NEW x \in S
  PROVE  Pe!ToSet(Append(s, x)) = Pe!ToSet(s) \cup {x}
<1>1. /\ DOMAIN Append(s, x) = DOMAIN s \cup {Len(s) + 1} /\ Append(s, x)[Len(s) + 1] = x
      /\ \A i \in DOMAIN s : Append(s, x)[i] = s[i]
  BY AppendProperties
<1> QED BY <1>1 DEF Pe!ToSet

LEMMA ConcatElements ==
  ASSUME NEW S, NEW s \in Seq(S), NEW t \in Seq(S)
  PROVE  Pe!ToSet(s \o t) = Pe!ToSet(s) \cup Pe!ToSet(t)
<1>1. \A q \in Seq(S) : Range(q) = Pe!ToSet(q) BY DEF Pe!ToSet, Range
<1>2. s \o t \in Seq(S) OBVIOUS
<1>3. Range(s \o t) = Range(s) \cup Range(t) BY RangeConcatenation
<1> QED BY <1>1, <1>2, <1>3

LEMMA Elements ==
  ASSUME NEW S, NEW s \in Seq(S)
  PROVE  Pe!ToSet(s) \subseteq S /\ <<>> \in Seq(S)
BY DEF Pe!ToSet

LEMMA InitPeers == Pe!Init => PeersInv
<1>1. SUFFICES ASSUME Pe!Init PROVE PeersInv OBVIOUS
<1>2. Pe!PeersTypeOK
  <2>1. MaxTurns \in Nat /\ MaxSends \in Nat BY MCAgentsAssumption DEF Pe!PeersAssumption
  <2>2. 0 \in 0..MaxTurns /\ 0 \in 0..MaxSends BY <2>1
  <2> QED BY <1>1, <2>2 DEF Pe!Init, Pe!PeersTypeOK
<1>3. /\ v4 \in [Pe!Peer -> Seq(Messages)] /\ v7 \in [Pe!Peer -> Seq(Messages)]
      /\ v10 \in [Pe!Peer -> SUBSET Messages]
  BY <1>1 DEF Pe!Init
<1>4. Pe!NothingLost /\ Pe!SomebodyWorks
  BY <1>1 DEF Pe!Init, Pe!NothingLost, Pe!SomebodyWorks
<1> QED BY <1>1, <1>2, <1>3, <1>4 DEF PeersInv, Pe!Init

\* A step that keeps all that a peer was sent, but for what it sends itself.
LEMMA KeptIsNotLost ==
  ASSUME PeersInv, v9' \in [Pe!Peer -> Nat],
         \A p \in Pe!Peer : Kept(p) \cap {Pe!Message(q, n) : q \in Pe!Peer, n \in Nat} \subseteq Kept(p)',
         \A p \in Pe!Peer : \/ v9'[p] = v9[p]
                           \/ /\ v9'[p] = v9[p] + 1
                              /\ Pe!Message(p, v9[p] + 1) \in Kept(Pe!Other(p))'
  PROVE  Pe!NothingLost'
<1>1. SUFFICES ASSUME NEW p \in Pe!Peer, NEW n \in 1..v9'[p]
               PROVE  Pe!Message(p, n) \in Kept(Pe!Other(p))'
  BY DEF Pe!NothingLost, Kept
<1>2. Pe!Other(p) \in Pe!Peer BY DEF Pe!Other, Pe!Peer
<1>3. v9[p] \in Nat BY DEF PeersInv, Pe!PeersTypeOK
<1>4. CASE n \in 1..v9[p]
  <2>1. Pe!Message(p, n) \in Kept(Pe!Other(p)) BY <1>4 DEF PeersInv, Pe!NothingLost, Kept
  <2> QED BY <1>2, <1>3, <1>4, <2>1
<1>5. CASE n \notin 1..v9[p]
  <2>1. v9'[p] = v9[p] + 1 /\ n = v9[p] + 1 BY <1>1, <1>3, <1>5
  <2> QED BY <1>2, <2>1
<1> QED BY <1>4, <1>5

LEMMA PeerOps ==
  ASSUME NEW p \in Pe!Peer
  PROVE  /\ Pe!Other(p) \in Pe!Peer /\ Pe!Other(p) # p /\ Pe!Other(Pe!Other(p)) = p
         /\ \A n \in Nat : Pe!Message(p, n) \in Messages \ {Pe!Task, Pe!Nudge}
         /\ Pe!Task \in Messages /\ Pe!Nudge \in Messages
         /\ p \notin {"setup", "check", "over", "gone"}
BY DEF Pe!Peer, Pe!Other, Pe!Message, Pe!Task, Pe!Nudge, Messages

\* peer_send and peer_done: a message more for the other, in a file of its own.
LEMMA SendKeeps ==
  ASSUME PeersInv, NEW p \in Pe!Peer, Pe!SendMessage(p), UNCHANGED <<v4, v10>>
  PROVE  /\ v7' \in [Pe!Peer -> Seq(Messages)] /\ v9' \in [Pe!Peer -> 0..MaxSends]
         /\ Pe!NothingLost'
<1>1. /\ v7 \in [Pe!Peer -> Seq(Messages)] /\ v9 \in [Pe!Peer -> 0..MaxSends]
      /\ v9[p] \in Nat /\ Pe!Other(p) \in Pe!Peer /\ MaxSends \in Nat
  BY MCAgentsAssumption, PeerOps DEF PeersInv, Pe!PeersTypeOK, Pe!PeersAssumption
<1> DEFINE o == Pe!Other(p)
           m == Pe!Message(p, v9[p] + 1)
<1>2. m \in Messages BY <1>1, PeerOps
<1>3. v7' = [v7 EXCEPT ![o] = Append(v7[o], m)] BY DEF Pe!SendMessage, Pe!Delivered
<1>4. v9' = [v9 EXCEPT ![p] = v9[p] + 1] /\ v9[p] < MaxSends BY DEF Pe!SendMessage
<1> HIDE DEF m
<1>5. v7' \in [Pe!Peer -> Seq(Messages)] BY <1>1, <1>2, <1>3
<1>6. v9' \in [Pe!Peer -> 0..MaxSends]
  <2>1. v9[p] + 1 \in 0..MaxSends BY <1>1, <1>4
  <2> QED BY <1>1, <1>4, <2>1
<1>7. Pe!ToSet(v7'[o]) = Pe!ToSet(v7[o]) \cup {m} BY <1>1, <1>2, <1>3, AppendElements
<1>8. \A q \in Pe!Peer : Kept(q) \subseteq Kept(q)' BY <1>1, <1>3, <1>7 DEF Kept
<1>9. \A q \in Pe!Peer : \/ v9'[q] = v9[q]
                         \/ /\ v9'[q] = v9[q] + 1
                            /\ Pe!Message(q, v9[q] + 1) \in Kept(Pe!Other(q))'
  <2>1. m \in Kept(o)' BY <1>7 DEF Kept
  <2> QED BY <1>1, <1>4, <2>1 DEF m
<1>10. Pe!NothingLost' BY <1>1, <1>6, <1>8, <1>9, KeptIsNotLost
<1> QED BY <1>5, <1>6, <1>10

\* A step that sends nothing.
LEMMA SilentKeeps ==
  ASSUME PeersInv, v9' = v9,
         \A p \in Pe!Peer : Kept(p) \ {Pe!Task, Pe!Nudge} \subseteq Kept(p)'
  PROVE  Pe!NothingLost'
<1>1. v9' \in [Pe!Peer -> Nat]
  BY MCAgentsAssumption DEF PeersInv, Pe!PeersTypeOK, Pe!PeersAssumption
<1>2. \A q \in Pe!Peer, n \in Nat : Pe!Message(q, n) \notin {Pe!Task, Pe!Nudge} BY PeerOps
<1> QED BY <1>1, <1>2, KeptIsNotLost

LEMMA NextPeers == PeersInv /\ [Pe!Next]_(Pe!vars) => PeersInv'
<1>1. SUFFICES ASSUME PeersInv, [Pe!Next]_(Pe!vars) PROVE PeersInv' OBVIOUS
<1>2. /\ Pe!PeersTypeOK
      /\ v4 \in [Pe!Peer -> Seq(Messages)] /\ v7 \in [Pe!Peer -> Seq(Messages)]
      /\ v10 \in [Pe!Peer -> SUBSET Messages]
      /\ v2 => v1 \in Pe!Peer
      /\ v1 = "setup" => \A p \in Pe!Peer : v9[p] = 0 /\ ~v5[p]
      /\ Pe!NothingLost /\ Pe!SomebodyWorks
      /\ MaxTurns \in Nat \ {0} /\ MaxSends \in Nat
  BY <1>1, MCAgentsAssumption DEF PeersInv, Pe!PeersAssumption
<1>3. ASSUME NEW p \in Pe!Peer, Pe!PeerSend(p) \/ Pe!PeerDone(p) PROVE PeersInv'
  <2>1. /\ UNCHANGED <<v1, v2, v3, v4, v5, v6, v10>> /\ Pe!SendMessage(p) /\ v2 /\ v1 = p
        /\ v8' = v8 \/ v8' = [v8 EXCEPT ![p] = "done"]
    BY <1>3 DEF Pe!PeerSend, Pe!PeerDone
  <2>2. /\ v7' \in [Pe!Peer -> Seq(Messages)] /\ v9' \in [Pe!Peer -> 0..MaxSends]
        /\ Pe!NothingLost'
    BY <1>1, <2>1, SendKeeps
  <2>3. Pe!PeersTypeOK' BY <1>2, <2>1, <2>2 DEF Pe!PeersTypeOK
  <2>4. v1 # "setup" BY <2>1, PeerOps
  <2> QED BY <1>2, <2>1, <2>2, <2>3, <2>4 DEF PeersInv, Pe!SomebodyWorks
<1>4. ASSUME NEW p \in Pe!Peer, Pe!PeerRead(p) PROVE PeersInv'
  <2>1. /\ UNCHANGED <<v1, v2, v3, v4, v5, v6, v8, v9>> /\ v2
        /\ v10' = [v10 EXCEPT ![p] = @ \cup Pe!ToSet(v7[p])]
        /\ v7' = [v7 EXCEPT ![p] = <<>>]
    BY <1>4 DEF Pe!PeerRead
  <2>2. Pe!ToSet(v7[p]) \subseteq Messages /\ <<>> \in Seq(Messages)
    BY <1>2, Elements
  <2>3. /\ v7' \in [Pe!Peer -> Seq(Messages)] /\ v10' \in [Pe!Peer -> SUBSET Messages]
    BY <1>2, <2>1, <2>2
  <2>4. \A q \in Pe!Peer : Kept(q) \subseteq Kept(q)' BY <1>2, <2>1 DEF Kept
  <2>5. Pe!NothingLost' BY <1>1, <2>1, <2>4, SilentKeeps
  <2> QED BY <1>2, <2>1, <2>3, <2>5 DEF PeersInv, Pe!PeersTypeOK, Pe!SomebodyWorks
<1>5. ASSUME NEW p \in Pe!Peer, Pe!PeerSetStatus(p) PROVE PeersInv'
  <2>1. /\ UNCHANGED <<v1, v2, v3, v4, v5, v6, v7, v9, v10>> /\ v2
        /\ \E x \in {"idle", "busy"} : v8' = [v8 EXCEPT ![p] = x]
    BY <1>5 DEF Pe!PeerSetStatus
  <2>2. Pe!PeersTypeOK' BY <1>2, <2>1 DEF Pe!PeersTypeOK
  <2>3. Pe!NothingLost' BY <1>1, <2>1, SilentKeeps DEF Kept
  <2> QED BY <1>2, <2>1, <2>2, <2>3 DEF PeersInv, Pe!SomebodyWorks
<1>6. ASSUME NEW p \in Pe!Peer, Pe!StartTurn(p) PROVE PeersInv'
  <2>1. /\ UNCHANGED <<v1, v3, v5, v6, v7, v9>> /\ v1 = p /\ v2' = TRUE
        /\ v10' = [v10 EXCEPT ![p] = @ \cup (Pe!ToSet(v4[p]) \ {Pe!Task, Pe!Nudge})]
        /\ v4' = [v4 EXCEPT ![p] = <<>>] /\ v8' = [v8 EXCEPT ![p] = "busy"]
    BY <1>6 DEF Pe!StartTurn
  <2>2. Pe!ToSet(v4[p]) \subseteq Messages /\ <<>> \in Seq(Messages)
    BY <1>2, Elements
  <2>3. /\ v4' \in [Pe!Peer -> Seq(Messages)] /\ v10' \in [Pe!Peer -> SUBSET Messages]
    BY <1>2, <2>1, <2>2
  <2>4. \A q \in Pe!Peer : Kept(q) \ {Pe!Task, Pe!Nudge} \subseteq Kept(q)'
    BY <1>2, <2>1 DEF Kept
  <2>5. Pe!NothingLost' BY <1>1, <2>1, <2>4, SilentKeeps
  <2>6. Pe!PeersTypeOK' BY <1>2, <2>1 DEF Pe!PeersTypeOK
  <2>7. v1' # "setup" BY <2>1, PeerOps
  <2> QED BY <1>2, <2>1, <2>3, <2>5, <2>6, <2>7 DEF PeersInv, Pe!SomebodyWorks
<1>7. ASSUME NEW p \in Pe!Peer, Pe!EndTurn(p) \/ Pe!SkipTurn(p) PROVE PeersInv'
  <2> DEFINE o == Pe!Other(p)
  <2>1. /\ UNCHANGED <<v3, v9, v10>> /\ v2' = FALSE /\ v1' = Pe!Following(p)
        /\ v4' = [v4 EXCEPT ![o] = v4[o] \o v7[o]] /\ v7' = [v7 EXCEPT ![o] = <<>>]
    BY <1>2, <1>7 DEF Pe!EndTurn, Pe!SkipTurn, Pe!Handover, Pe!PeersTypeOK
  <2>2. v5' \in [Pe!Peer -> BOOLEAN] /\ v6' \in [Pe!Peer -> BOOLEAN]
        /\ v8' \in [Pe!Peer -> {"none", "idle", "busy", "done"}]
    BY <1>2, <1>7 DEF Pe!EndTurn, Pe!SkipTurn, Pe!AfterTurn, Pe!PeersTypeOK
  <2>3. o \in Pe!Peer BY PeerOps
  <2>4. Pe!ToSet(v4[o] \o v7[o]) = Pe!ToSet(v4[o]) \cup Pe!ToSet(v7[o])
    BY <1>2, <2>3, ConcatElements
  <2> HIDE DEF o
  <2>5. v4' \in [Pe!Peer -> Seq(Messages)] /\ v7' \in [Pe!Peer -> Seq(Messages)]
    BY <1>2, <2>1, <2>3
  <2>6. \A q \in Pe!Peer : Kept(q) \subseteq Kept(q)'
    BY <1>2, <2>1, <2>3, <2>4 DEF Kept
  <2>7. Pe!NothingLost' BY <1>1, <2>1, <2>6, SilentKeeps
  <2>8. v1' \in {"B", "check"} BY <2>1 DEF Pe!Following
  <2>9. Pe!PeersTypeOK' BY <1>2, <2>1, <2>2, <2>8 DEF Pe!PeersTypeOK, Pe!Peer
  <2> QED BY <1>2, <2>1, <2>5, <2>7, <2>8, <2>9 DEF PeersInv, Pe!SomebodyWorks
<1>8. CASE Pe!Setup
  <2>1. /\ UNCHANGED <<v2, v5, v6, v7, v9, v10>> /\ v1 = "setup" /\ v1' = "A" /\ v3' = 1
        /\ v8' = [p \in Pe!Peer |-> "idle"] /\ v4' = [p \in Pe!Peer |-> <<Pe!Task>>]
    BY <1>8 DEF Pe!Setup
  <2>2. v4' \in [Pe!Peer -> Seq(Messages)] BY <2>1, PeerOps
  <2>3. Pe!NothingLost' BY <1>2, <2>1 DEF Pe!NothingLost
  <2>4. Pe!SomebodyWorks' BY <1>2, <2>1 DEF Pe!SomebodyWorks, Pe!Peer
  <2>5. Pe!PeersTypeOK' BY <1>2, <2>1 DEF Pe!PeersTypeOK, Pe!Peer
  <2> QED BY <1>2, <2>1, <2>2, <2>3, <2>4, <2>5 DEF PeersInv, Pe!Peer
<1>9. CASE Pe!CheckCompletion
  <2>1. /\ UNCHANGED <<v2, v5, v6, v7, v8, v9, v10>> /\ v1 = "check"
    BY <1>9 DEF Pe!CheckCompletion
  <2>2. \/ v1' = "over" /\ UNCHANGED <<v3, v4>>
        \/ /\ \E p \in Pe!Peer : ~v5[p]
           /\ v4' = [p \in Pe!Peer |-> IF Pe!Nudged(p) THEN <<Pe!Nudge>> ELSE v4[p]]
           /\ v3' \in {v3, v3 + 1} /\ v3' \in 0..MaxTurns /\ v1' \in {"A", "over"}
    <3>1. v3 < MaxTurns => v3 + 1 \in 0..MaxTurns BY <1>2 DEF Pe!PeersTypeOK
    <3> QED BY <1>2, <1>9, <3>1 DEF Pe!CheckCompletion, Pe!PeersTypeOK
  <2>3. \A p \in Pe!Peer : Pe!Nudged(p) => v4[p] = <<>> /\ ~v5[p] BY DEF Pe!Nudged
  <2>4. v4' \in [Pe!Peer -> Seq(Messages)]
    <3>1. \A p \in Pe!Peer : <<Pe!Nudge>> \in Seq(Messages) BY PeerOps
    <3> QED BY <1>2, <2>2, <3>1
  <2>5. Pe!ToSet(<<>>) = {} BY DEF Pe!ToSet
  <2>6. \A q \in Pe!Peer : Kept(q) \subseteq Kept(q)'
    <3>1. \A q \in Pe!Peer : Pe!ToSet(v4[q]) \subseteq Pe!ToSet(v4'[q])
      BY <2>2, <2>3, <2>5
    <3> QED BY <2>1, <3>1 DEF Kept
  <2>7. Pe!NothingLost' BY <1>1, <2>1, <2>6, SilentKeeps
  <2>8. ~v2 BY <1>2, <2>1, PeerOps
  <2>9. Pe!SomebodyWorks'
    <3>1. CASE v1' = "over" BY <3>1 DEF Pe!SomebodyWorks
    <3>2. CASE v1' # "over"
      <4>1. PICK p \in Pe!Peer : ~v5[p] BY <2>2, <3>2
      <4>2. Pe!Other(p) \in Pe!Peer BY PeerOps
      <4>3. CASE v4[p] # <<>>
        BY <2>1, <2>2, <2>3, <3>2, <4>1, <4>3 DEF Pe!SomebodyWorks
      <4>4. CASE v4[p] = <<>> /\ (v5[Pe!Other(p)] \/ v4[Pe!Other(p)] = <<>>)
        BY <2>1, <2>2, <3>2, <4>1, <4>4 DEF Pe!SomebodyWorks, Pe!Nudged
      <4>5. CASE ~v5[Pe!Other(p)] /\ v4[Pe!Other(p)] # <<>>
        BY <2>1, <2>2, <2>3, <3>2, <4>2, <4>5 DEF Pe!SomebodyWorks
      <4> QED BY <4>3, <4>4, <4>5
    <3> QED BY <3>1, <3>2
  <2>10. Pe!PeersTypeOK' BY <1>2, <2>1, <2>2 DEF Pe!PeersTypeOK, Pe!Peer
  <2>11. v1' # "setup" BY <2>2
  <2> QED BY <1>2, <2>1, <2>4, <2>7, <2>8, <2>9, <2>10, <2>11 DEF PeersInv
<1>10. CASE Pe!SetupFails \/ Pe!Abort \/ Pe!Cleanup
  <2>1. /\ UNCHANGED <<v3, v4, v5, v6, v7, v8, v9, v10>> /\ v1' \in {"over", "gone"}
    BY <1>10 DEF Pe!SetupFails, Pe!Abort, Pe!Cleanup
  <2>2. v2' = FALSE
    <3>1. CASE Pe!Abort BY <3>1 DEF Pe!Abort
    <3>2. CASE Pe!SetupFails \/ Pe!Cleanup
      <4>1. v2' = v2 /\ v1 \in {"setup", "over"} BY <3>2 DEF Pe!SetupFails, Pe!Cleanup
      <4>2. v2 \in BOOLEAN /\ v1 \notin Pe!Peer BY <1>2, <4>1 DEF Pe!PeersTypeOK, Pe!Peer
      <4> QED BY <1>2, <4>1, <4>2 DEF Pe!PeersTypeOK
    <3> QED BY <1>10, <3>1, <3>2
  <2>3. Pe!NothingLost' BY <1>1, <2>1, SilentKeeps DEF Kept
  <2>4. Pe!PeersTypeOK' BY <1>2, <2>1, <2>2 DEF Pe!PeersTypeOK
  <2> QED BY <1>2, <2>1, <2>2, <2>3, <2>4 DEF PeersInv, Pe!SomebodyWorks
<1>11. CASE UNCHANGED Pe!vars
  <2>1. UNCHANGED <<v1, v2, v3, v4, v5, v6, v7, v8, v9, v10>> BY <1>11 DEF Pe!vars
  <2>2. Pe!NothingLost' BY <1>1, <2>1, SilentKeeps DEF Kept
  <2>3. Pe!PeersTypeOK' BY <1>2, <2>1 DEF Pe!PeersTypeOK
  <2> QED BY <1>2, <2>1, <2>2, <2>3 DEF PeersInv, Pe!SomebodyWorks
<1> QED
  BY <1>1, <1>3, <1>4, <1>5, <1>6, <1>7, <1>8, <1>9, <1>10, <1>11 DEF Pe!Next

\* Whatever one peer sends to the other is in its inbox, waits for its next
\* prompt, or has been shown to it, for any number of turns and messages; and no
\* iteration of the loop passes with neither at work (_run_loop, _read_messages).
THEOREM NothingSaidIsLost == Spec => []PeersNothingLost
<1> DEFINE Inv == Is("peers") => PeersInv
<1>1. Init => Inv BY PeersOnly, InitPeers
<1>2. Inv /\ [Next]_all => Inv'
  <2> SUFFICES ASSUME Inv, [Next]_all, Is("peers")' PROVE PeersInv' OBVIOUS
  <2>1. Is("peers") BY PartStays DEF Is
  <2> QED BY <2>1, PeersOnly, NextPeers
<1>3. Inv => PeersNothingLost BY DEF PeersNothingLost, PeersInv
<1> QED BY <1>1, <1>2, <1>3, PTL DEF Spec

-----------------------------------------------------------------------------
(* Llmings: instances is v1, bus v2, starter v7, stopper v8 and task v12.  *)

LEMMA LlmingsOnly ==
  /\ Init /\ Is("llmings") => Ll!Init
  /\ [Next]_all /\ Is("llmings") => [Ll!Next]_(Ll!vars)
BY DEF Init, Next, Is, Ll!vars, all

\* load_llmings_sync() puts none of a group's llmings on the bus.
LEMMA LoadsLocal ==
  ASSUME Ll!Load, NEW g \in Ll!Group
  PROVE  v2' \cap Ll!Range(Member[g]) = v2 \cap Ll!Range(Member[g])
<1>1. /\ Local \in Seq(Ll!Range(Local)) /\ Ll!Range(Local) \cap Ll!Range(Member[g]) = {}
  BY MCAgentsAssumption DEF Ll!LlmingsAssumption, Ll!Proxy
<1> DEFINE S == Ll!Range(Local)
<1>2. \A n \in 0..Len(Local) : Ll!Range(SubSeq(Local, 1, n)) \subseteq S
  <2>1. SUFFICES ASSUME NEW n \in 0..Len(Local) PROVE Ll!Range(SubSeq(Local, 1, n)) \subseteq S
    OBVIOUS
  <2>2. \A i \in DOMAIN SubSeq(Local, 1, n) : SubSeq(Local, 1, n)[i] \in S
    <3> HIDE DEF S
    <3>1. Local \in Seq(S) BY <1>1 DEF S
    <3>2. SubSeq(Local, 1, n) \in Seq(S) BY <3>1, <2>1, SubSeqProperties
    <3> QED BY <3>2
  <2> QED BY <2>2 DEF Ll!Range
<1>3. \A i \in 1..Len(Local) : Local[i] \in S
  <2> HIDE DEF S
  <2> QED BY <1>1 DEF S
<1>4. PICK missing \in SUBSET S, bad \in 0..Len(Local) :
        v2' = Ll!OnBus((Ll!Range(SubSeq(Local, 1, IF bad = 0 THEN Len(Local) ELSE bad - 1))
                          \ missing) \cup {Local[i] : i \in {bad} \ {0}})
  BY DEF Ll!Load
<1> DEFINE n == IF bad = 0 THEN Len(Local) ELSE bad - 1
<1>5. Len(Local) \in Nat BY <1>1
<1>6. n \in 0..Len(Local) BY <1>4, <1>5
<1>7. {Local[i] : i \in {bad} \ {0}} \subseteq S BY <1>3, <1>4, <1>5
<1>8. v2' \subseteq v2 \cup S /\ v2 \subseteq v2' BY <1>2, <1>4, <1>6, <1>7 DEF Ll!OnBus
<1> HIDE DEF S
<1>9. S \cap Ll!Range(Member[g]) = {} BY <1>1 DEF S
<1> QED BY <1>8, <1>9

\* A group's proxies come onto the bus together, or not yet.
LEMMA RegistersWhole ==
  ASSUME NEW h \in Ll!Group, Ll!RegisterGroup(h), NEW g \in Ll!Group
  PROVE  /\ g = h => Ll!Range(Member[g]) \subseteq v2'
         /\ g # h => v2' \cap Ll!Range(Member[g]) = v2 \cap Ll!Range(Member[g])
<1>1. g # h => Ll!Range(Member[g]) \cap Ll!Range(Member[h]) = {}
  BY MCAgentsAssumption DEF Ll!LlmingsAssumption
<1>2. v2' = v2 \cup Ll!Range(Ll!Registers(h, v12[h].k)) /\ Ll!Registers(h, v12[h].k) # <<>>
  BY DEF Ll!RegisterGroup, Ll!OnBus
<1>3. Ll!Registers(h, v12[h].k) = Member[h] BY <1>2 DEF Ll!Registers
<1> QED BY <1>1, <1>2, <1>3

Stopper == v8 = [at |-> v8.at, k |-> v8.k, size |-> v8.size]

LEMMA NextStopper ==
  ASSUME Stopper, [Ll!Next]_(Ll!vars)
  PROVE  Stopper' /\ (Ll!Stop \/ Ll!StopNext \/ Ll!StopEnds => v8'.at # "idle")
<1>1. CASE Ll!Stop BY <1>1 DEF Stopper, Ll!Stop, Ll!Iterating
<1>2. CASE Ll!StopNext
  <2>1. v8' = [v8 EXCEPT !.k = @ + 1] /\ v8.at = "stopping" BY <1>2 DEF Ll!StopNext
  <2>2. v8' = [at |-> "stopping", k |-> v8.k + 1, size |-> v8.size] BY <2>1 DEF Stopper
  <2> QED BY <2>2 DEF Stopper
<1>3. CASE Ll!StopEnds
  <2>1. PICK x \in {"broken", "stopped"} : v8' = [v8 EXCEPT !.at = x] BY <1>3 DEF Ll!StopEnds
  <2>2. v8' = [at |-> x, k |-> v8.k, size |-> v8.size] BY <2>1 DEF Stopper
  <2> QED BY <2>2 DEF Stopper
<1>4. ASSUME ~Ll!Stop, ~Ll!StopNext, ~Ll!StopEnds PROVE v8' = v8
  <2>1. Ll!Startup => v8' = v8
    BY DEF Ll!Startup, Ll!Load, Ll!SpawnGroups, Ll!WireNext, Ll!WireBreaks,
           Ll!BuildCommands,
           Ll!FireReady, Ll!StartTicks
  <2>2. \A h \in Ll!Group : Ll!GroupTask(h) => v8' = v8
    BY DEF Ll!GroupTask, Ll!StartGroup, Ll!Activate, Ll!RegisterGroup
  <2>3. \A n \in Ll!Llming : Ll!JobStarts(n) \/ Ll!JobEnds(n) \/ Ll!Unload(n) => v8' = v8
    BY DEF Ll!JobStarts, Ll!JobEnds, Ll!Unload
  <2> QED BY <1>4, <2>1, <2>2, <2>3 DEF Ll!Next, Ll!vars
<1> QED BY <1>1, <1>2, <1>3, <1>4 DEF Stopper

LEMMA NextWhole == Stopper /\ Ll!GroupComesWhole /\ [Ll!Next]_(Ll!vars) => Ll!GroupComesWhole'
<1>1. SUFFICES ASSUME Stopper, Ll!GroupComesWhole, [Ll!Next]_(Ll!vars), v8'.at = "idle",
                      NEW g \in Ll!Group
               PROVE  \/ Ll!Range(Member[g]) \subseteq v2'
                      \/ Ll!Range(Member[g]) \cap v2' = {}
  BY DEF Ll!GroupComesWhole
<1>2. CASE Ll!Load
  <2>1. v8' = v8 BY <1>2 DEF Ll!Load
  <2>2. v2' \cap Ll!Range(Member[g]) = v2 \cap Ll!Range(Member[g]) BY <1>2, LoadsLocal
  <2> QED BY <1>1, <2>1, <2>2 DEF Ll!GroupComesWhole
<1>3. ASSUME NEW h \in Ll!Group, Ll!RegisterGroup(h)
      PROVE  \/ Ll!Range(Member[g]) \subseteq v2' \/ Ll!Range(Member[g]) \cap v2' = {}
  <2>1. v8' = v8 BY <1>3 DEF Ll!RegisterGroup
  <2> QED BY <1>1, <1>3, <2>1, RegistersWhole DEF Ll!GroupComesWhole
<1>4. ASSUME v2' = v2, v8' = v8
      PROVE  \/ Ll!Range(Member[g]) \subseteq v2' \/ Ll!Range(Member[g]) \cap v2' = {}
  BY <1>1, <1>4 DEF Ll!GroupComesWhole
<1>5. ~Ll!Stop /\ ~Ll!StopNext /\ ~Ll!StopEnds BY <1>1, NextStopper
<1>6. ASSUME Ll!Startup, ~Ll!Load PROVE v2' = v2 /\ v8' = v8
  BY <1>6 DEF Ll!Startup, Ll!SpawnGroups, Ll!WireNext, Ll!WireBreaks, Ll!BuildCommands,
              Ll!FireReady, Ll!StartTicks
<1>7. ASSUME NEW h \in Ll!Group, Ll!GroupTask(h), ~Ll!RegisterGroup(h)
      PROVE  v2' = v2 /\ v8' = v8
  BY <1>7 DEF Ll!GroupTask, Ll!StartGroup, Ll!Activate
<1>8. ASSUME NEW n \in Ll!Llming, Ll!JobStarts(n) \/ Ll!JobEnds(n) \/ Ll!Unload(n)
      PROVE  v2' = v2 /\ v8' = v8
  BY <1>8 DEF Ll!JobStarts, Ll!JobEnds, Ll!Unload
<1>9. UNCHANGED Ll!vars => v2' = v2 /\ v8' = v8 BY DEF Ll!vars
<1> QED BY <1>1, <1>2, <1>3, <1>4, <1>5, <1>6, <1>7, <1>8, <1>9 DEF Ll!Next

\* Until the shutdown begins a group of llmings is on the bus as a whole or not
\* at all, for any number of groups and llmings, wherever an activation fails and
\* whatever the start-up and the other groups do meanwhile (_spawn_group).
THEOREM GroupsComeWhole == Spec => []GroupComesWhole
<1> DEFINE Inv == Is("llmings") => Stopper /\ Ll!GroupComesWhole
<1>1. Init => Inv BY LlmingsOnly DEF Stopper, Ll!GroupComesWhole, Ll!Init, Ll!Idle
<1>2. Inv /\ [Next]_all => Inv'
  <2> SUFFICES ASSUME Inv, [Next]_all, Is("llmings")' PROVE Stopper' /\ Ll!GroupComesWhole'
    OBVIOUS
  <2>1. Is("llmings") BY PartStays DEF Is
  <2> QED BY <2>1, LlmingsOnly, NextStopper, NextWhole
<1>3. Inv => GroupComesWhole BY DEF GroupComesWhole
<1> QED BY <1>1, <1>2, <1>3, PTL DEF Spec

-----------------------------------------------------------------------------
(* The proxy of an MCP process: up is v1, process v2, reader v3, stream    *)
(* v4, queue v5, asked v6, stdin v7, stdout v8, posted v9 and got v10.     *)

SseEvent == [client : Client \cup {None}, id : Id \cup {None}, tools : SUBSET StdioTool]
SseRequest == [client : Client, id : Id, tool : StdioTool \cup {None}]
SseAnswer == [client : Client, id : Id, tools : SUBSET StdioTool]

\* What may be on the way to client c.
OwnEvent(c) ==
  {a \in SseEvent : a = Ss!End \/ (a.client = c /\ \A t \in a.tools : Ss!IsToolAllowed(t))}

\* Every id is used once, so that _pending_requests still knows who asked when
\* the answer comes.
AskedIsKnown ==
  /\ v6 \in [Id -> Client \cup {None}] /\ v9 \in [Client -> SUBSET Id]
  /\ v7 \subseteq SseRequest /\ v8 \in Seq(SseAnswer)
  /\ \A c \in Client : v9[c] \subseteq Uses[c]
  /\ \A i \in Id : v6[i] # None => i \in v9[v6[i]] /\ v4[v6[i]] = "open"
  /\ \A r \in v7 : v6[r.id] = r.client
  /\ \A k \in DOMAIN v8 : v6[v8[k].id] = v8[k].client
  /\ \A r, q \in v7 : r.id = q.id => r = q
  /\ \A r \in v7, k \in DOMAIN v8 : v8[k].id # r.id
  /\ \A k, l \in DOMAIN v8 : v8[k].id = v8[l].id => k = l

OnlyOwn ==
  /\ v5 \in [Client -> Seq(SseEvent)] /\ v10 \in [Client -> SUBSET SseEvent]
  /\ \A c \in Client : /\ v5[c] \in Seq(OwnEvent(c))
                       /\ v10[c] \subseteq OwnEvent(c) \ {Ss!End}

SseInv ==
  /\ v4 \in [Client -> {"new", "open", "closed"}]
  /\ (\A c \in Client : v4[c] # "closed") => AskedIsKnown /\ OnlyOwn

LEMMA InitSse == Ss!Init => SseInv
<1> SUFFICES ASSUME Ss!Init PROVE SseInv OBVIOUS
<1>1. AskedIsKnown BY DEF Ss!Init, AskedIsKnown
<1>2. OnlyOwn BY DEF Ss!Init, OnlyOwn
<1> QED BY <1>1, <1>2 DEF Ss!Init, SseInv

\* Events of its own client reach a stream.
LEMMA OwnStays ==
  ASSUME OnlyOwn, v10' = v10,
         v5' = [c \in Client |-> v5'[c]],
         \A c \in Client : v5'[c] = v5[c] \/ \E a \in OwnEvent(c) : v5'[c] = Append(v5[c], a)
  PROVE  OnlyOwn'
<1>1. ASSUME NEW c \in Client PROVE v5'[c] \in Seq(OwnEvent(c)) /\ v5'[c] \in Seq(SseEvent)
  <2>1. v5[c] \in Seq(OwnEvent(c)) /\ v5[c] \in Seq(SseEvent) BY DEF OnlyOwn
  <2>2. CASE v5'[c] = v5[c] BY <2>1, <2>2
  <2>3. ASSUME NEW a \in OwnEvent(c), v5'[c] = Append(v5[c], a)
        PROVE  v5'[c] \in Seq(OwnEvent(c)) /\ v5'[c] \in Seq(SseEvent)
    <3>1. a \in SseEvent BY DEF OwnEvent
    <3>2. Append(v5[c], a) \in Seq(OwnEvent(c)) BY <2>1, AppendProperties
    <3>3. Append(v5[c], a) \in Seq(SseEvent) BY <2>1, <3>1, AppendProperties
    <3> QED BY <2>3, <3>2, <3>3
  <2> QED BY <2>2, <2>3
<1>2. v5' \in [Client -> Seq(SseEvent)] BY <1>1
<1> QED BY <1>1, <1>2 DEF OnlyOwn, OwnEvent

LEMMA EndIsOwn == \A c \in Client : Ss!End \in OwnEvent(c)
BY DEF OwnEvent, SseEvent, Ss!End

\* The ends that the proxy writes to its streams
LEMMA EndsAreOwn ==
  ASSUME OnlyOwn, v10' = v10, NEW S,
         v5' = [c \in Client |-> IF c \in S THEN Append(v5[c], Ss!End) ELSE v5[c]]
  PROVE  OnlyOwn'
BY EndIsOwn, OwnStays

LEMMA NothingAsked ==
  ASSUME AskedIsKnown, UNCHANGED <<v4, v6, v7, v8, v9>>
  PROVE  AskedIsKnown'
BY DEF AskedIsKnown

LEMMA PostKeepsAsked ==
  ASSUME \A c, d \in Client : c # d => Uses[c] \cap Uses[d] = {},
         AskedIsKnown, NEW c \in Client, NEW i \in Id, NEW t \in StdioTool \cup {None},
         i \in Uses[c] \ v9[c], v4[c] = "open", v4' = v4, v8' = v8,
         v9' = [v9 EXCEPT ![c] = @ \cup {i}], v6' = [v6 EXCEPT ![i] = c],
         \/ v7' = v7
         \/ v7' = v7 \cup {[client |-> c, id |-> i, tool |-> t]}
  PROVE  AskedIsKnown'
<1> DEFINE new == [client |-> c, id |-> i, tool |-> t]
<1>0. /\ v6 \in [Id -> Client \cup {None}] /\ v9 \in [Client -> SUBSET Id]
      /\ v7 \subseteq SseRequest /\ v8 \in Seq(SseAnswer) /\ None \notin Client
  BY MCAgentsAssumption DEF AskedIsKnown, Ss!SseProxyAssumption
<1>1. v6[i] = None
  <2>1. SUFFICES ASSUME v6[i] # None PROVE FALSE OBVIOUS
  <2>2. v6[i] \in Client /\ i \in v9[v6[i]] BY <1>0, <2>1 DEF AskedIsKnown
  <2> QED BY <2>2 DEF AskedIsKnown
<1>2. \A r \in v7 : r.client \in Client /\ r.id \in Id /\ r.id # i
  BY <1>0, <1>1 DEF AskedIsKnown, SseRequest
<1>3. \A k \in DOMAIN v8 : v8[k] \in SseAnswer BY <1>0
<1>4. \A k \in DOMAIN v8 : v8[k].client \in Client /\ v8[k].id \in Id /\ v8[k].id # i
  BY <1>0, <1>1, <1>3 DEF AskedIsKnown, SseAnswer
<1>5. new \in SseRequest /\ new.id = i /\ new.client = c BY DEF SseRequest
<1> HIDE DEF new
<1>6. v7' = v7 \/ v7' = v7 \cup {new} BY DEF new
<1>7. \A j \in Id : v6'[j] = IF j = i THEN c ELSE v6[j] BY <1>0
<1>8. \A d \in Client : v9'[d] = IF d = c THEN v9[d] \cup {i} ELSE v9[d] BY <1>0
<1>9. v6' \in [Id -> Client \cup {None}] /\ v9' \in [Client -> SUBSET Id] BY <1>0
<1>10. /\ \A d \in Client : v9'[d] \subseteq Uses[d]
       /\ \A j \in Id : v6'[j] # None => j \in v9'[v6'[j]] /\ v4'[v6'[j]] = "open"
  BY <1>0, <1>7, <1>8 DEF AskedIsKnown
<1>11. /\ v7' \subseteq SseRequest
       /\ \A r \in v7' : v6'[r.id] = r.client
       /\ \A r, q \in v7' : r.id = q.id => r = q
       /\ \A r \in v7', k \in DOMAIN v8 : v8[k].id # r.id
  BY <1>0, <1>2, <1>4, <1>5, <1>6, <1>7 DEF AskedIsKnown
<1>12. \A k \in DOMAIN v8 : v6'[v8[k].id] = v8[k].client BY <1>4, <1>7 DEF AskedIsKnown
<1> QED BY <1>0, <1>9, <1>10, <1>11, <1>12 DEF AskedIsKnown

LEMMA ServeKeepsAsked ==
  ASSUME AskedIsKnown, NEW r \in v7, Ss!Serve(r)
  PROVE  AskedIsKnown'
<1> DEFINE a == Ss!Answer(r, IF r.tool = None THEN StdioTool ELSE {r.tool})
<1>0. v8 \in Seq(SseAnswer) /\ r \in SseRequest BY DEF AskedIsKnown
<1>1. /\ v7' = v7 \ {r} /\ v8' = Append(v8, a) /\ UNCHANGED <<v4, v6, v9>>
  BY DEF Ss!Serve
<1>2. a \in SseAnswer /\ a.client = r.client /\ a.id = r.id
  BY <1>0 DEF SseAnswer, SseRequest, Ss!Answer
<1> HIDE DEF a
<1>3. PICK n \in Nat : n = Len(v8) BY <1>0
<1>4. /\ v8' \in Seq(SseAnswer) /\ DOMAIN v8' = 1..n + 1 /\ DOMAIN v8 = 1..n
      /\ v8'[n + 1] = a /\ \A k \in 1..n : v8'[k] = v8[k]
  BY <1>0, <1>1, <1>2, <1>3, AppendProperties
<1>5. \A k \in DOMAIN v8' : v6[v8'[k].id] = v8'[k].client
  BY <1>2, <1>4 DEF AskedIsKnown
<1>6. \A q \in v7', k \in DOMAIN v8' : v8'[k].id # q.id
  BY <1>1, <1>2, <1>4 DEF AskedIsKnown
<1>7. \A k, l \in DOMAIN v8' : v8'[k].id = v8'[l].id => k = l
  BY <1>2, <1>4 DEF AskedIsKnown
<1> QED BY <1>1, <1>4, <1>5, <1>6, <1>7 DEF AskedIsKnown

\* The answer goes to its own client, who is the one that asked.
LEMMA ReadKeepsSse ==
  ASSUME AskedIsKnown, OnlyOwn, Ss!ReadStdout
  PROVE  AskedIsKnown' /\ OnlyOwn'
<1>0. /\ v6 \in [Id -> Client \cup {None}] /\ v8 \in Seq(SseAnswer) /\ v8 # <<>>
      /\ None \notin Client
  BY MCAgentsAssumption DEF AskedIsKnown, Ss!ReadStdout, Ss!SseProxyAssumption
<1>1. PICK a : a = Head(v8) OBVIOUS
<1>2. PICK m : m = [a EXCEPT !.tools = Ss!FilterToolsList(@)] OBVIOUS
<1>3. /\ v5' = [c \in Client |-> IF c \in Ss!Recipients(a.id) THEN Append(v5[c], m) ELSE v5[c]]
      /\ v6' = [v6 EXCEPT ![a.id] = None] /\ v8' = Tail(v8)
      /\ UNCHANGED <<v4, v7, v9, v10>>
  BY <1>1, <1>2 DEF Ss!ReadStdout
<1>4. PICK n \in Nat : n = Len(v8) BY <1>0
<1>5. /\ n >= 1 /\ DOMAIN v8 = 1..n /\ a = v8[1] /\ a \in SseAnswer
      /\ v8' \in Seq(SseAnswer) /\ DOMAIN v8' = 1..n - 1 /\ \A k \in 1..n - 1 : v8'[k] = v8[k + 1]
  BY <1>0, <1>1, <1>3, <1>4, HeadTailProperties, EmptySeq
<1>6. v6[a.id] = a.client /\ a.client \in Client /\ a.id \in Id
  BY <1>5 DEF AskedIsKnown, SseAnswer
<1>7. v4[a.client] = "open" BY <1>0, <1>6 DEF AskedIsKnown
<1>8. Ss!Recipients(a.id) = {a.client} BY <1>6, <1>7 DEF Ss!Recipients, Ss!Open
<1>9. m \in OwnEvent(a.client)
  <2>1. m \in SseEvent /\ m.client = a.client /\ m.tools = Ss!FilterToolsList(a.tools)
    BY <1>2, <1>5 DEF SseAnswer, SseEvent, Ss!FilterToolsList
  <2> QED BY <2>1 DEF OwnEvent, Ss!FilterToolsList
<1>10. OnlyOwn' BY <1>3, <1>8, <1>9, OwnStays
<1>11. /\ \A k \in DOMAIN v8 : v6[v8[k].id] = v8[k].client
       /\ \A k, l \in DOMAIN v8 : v8[k].id = v8[l].id => k = l
       /\ \A r \in v7, k \in DOMAIN v8 : v8[k].id # r.id
  BY DEF AskedIsKnown
<1>12. ASSUME NEW k \in DOMAIN v8'
       PROVE  /\ k \in Nat /\ k + 1 \in DOMAIN v8 /\ k + 1 # 1 /\ 1 \in DOMAIN v8
              /\ v8'[k] = v8[k + 1]
              /\ v8'[k].id # a.id /\ v6[v8'[k].id] = v8'[k].client
  <2>1. k \in Nat /\ k + 1 \in DOMAIN v8 /\ k + 1 # 1 /\ 1 \in DOMAIN v8 BY <1>5
  <2>2. v8'[k] = v8[k + 1] BY <1>5
  <2>3. v8[k + 1].id # v8[1].id BY <1>11, <2>1
  <2> QED BY <1>5, <1>11, <2>1, <2>2, <2>3
<1>13. ASSUME NEW k \in DOMAIN v8', NEW l \in DOMAIN v8', v8'[k].id = v8'[l].id PROVE k = l
  <2>1. k + 1 = l + 1 BY <1>11, <1>12, <1>13
  <2> QED BY <2>1, <1>12
<1>14. \A r \in v7 : r.id # a.id /\ \A k \in DOMAIN v8' : v8'[k].id # r.id
  <2>1. 1 \in DOMAIN v8 /\ a = v8[1] BY <1>5
  <2> QED BY <1>11, <1>12, <2>1
<1>15. \A i \in Id : v6'[i] = IF i = a.id THEN None ELSE v6[i] BY <1>0, <1>3
<1>16. v6' \in [Id -> Client \cup {None}] BY <1>0, <1>3
<1>17. ASSUME NEW k \in DOMAIN v8' PROVE v8'[k].id \in Id
  <2>1. v8'[k] \in SseAnswer BY <1>5
  <2> QED BY <2>1 DEF SseAnswer
<1>18. \A k \in DOMAIN v8' : v6'[v8'[k].id] = v8'[k].client BY <1>12, <1>15, <1>17
<1>19. \A r \in v7 : r.id \in Id /\ v6'[r.id] = r.client
  BY <1>14, <1>15 DEF AskedIsKnown, SseRequest
<1>20. \A i \in Id : v6'[i] # None => i \in v9[v6'[i]] /\ v4[v6'[i]] = "open"
  BY <1>15 DEF AskedIsKnown
<1>21. AskedIsKnown'
  BY <1>3, <1>5, <1>13, <1>14, <1>16, <1>18, <1>19, <1>20 DEF AskedIsKnown
<1> QED BY <1>10, <1>21

LEMMA SseStep ==
  ASSUME \A c, d \in Client : c # d => Uses[c] \cap Uses[d] = {},
         SseInv, [Ss!Next]_(Ss!vars)
  PROVE  SseInv'
<1>0. v4 \in [Client -> {"new", "open", "closed"}] BY DEF SseInv
<1>1. \/ UNCHANGED v4
      \/ \E c \in Client : v4[c] = "new" /\ v4' = [v4 EXCEPT ![c] = "open"]
      \/ \E c \in Client : v4' = [v4 EXCEPT ![c] = "closed"]
  BY DEF Ss!Next, Ss!OpenStream, Ss!Event, Ss!Leave, Ss!Post, Ss!Serve, Ss!Start,
         Ss!ReadStdout,
         Ss!ReaderEnds, Ss!ProcessEnds, Ss!StopServer, Ss!StopProcess, Ss!vars
<1>2. v4' \in [Client -> {"new", "open", "closed"}] BY <1>0, <1>1
<1>3. SUFFICES ASSUME \A c \in Client : v4'[c] # "closed" PROVE AskedIsKnown' /\ OnlyOwn'
  BY <1>2 DEF SseInv
<1>4. (\A c \in Client : v4[c] # "closed") /\ ~ \E c \in Client : v4' = [v4 EXCEPT ![c] = "closed"]
  BY <1>0, <1>1, <1>3
<1>5. AskedIsKnown /\ OnlyOwn BY <1>4 DEF SseInv
<1>6. CASE UNCHANGED Ss!vars
  <2>1. UNCHANGED <<v4, v5, v6, v7, v8, v9, v10>> BY <1>6 DEF Ss!vars
  <2> QED BY <1>5, <2>1, NothingAsked DEF OnlyOwn, OwnEvent
<1>7. CASE \E c \in Client : Ss!OpenStream(c)
  <2>1. PICK c \in Client : /\ v4[c] = "new" /\ v4' = [v4 EXCEPT ![c] = "open"]
                            /\ UNCHANGED <<v5, v6, v7, v8, v9, v10>>
    BY <1>7 DEF Ss!OpenStream
  <2>2. \A d \in Client : v4[d] = "open" => v4'[d] = "open" BY <1>0, <2>1
  <2>3. None \notin Client BY MCAgentsAssumption DEF Ss!SseProxyAssumption
  <2>4. AskedIsKnown' BY <1>5, <2>1, <2>2, <2>3 DEF AskedIsKnown
  <2> QED BY <1>5, <2>1, <2>4 DEF OnlyOwn, OwnEvent
<1>8. ASSUME NEW c \in Client, Ss!Event(c) PROVE AskedIsKnown' /\ OnlyOwn'
  <2>1. /\ v5[c] # <<>> /\ v5' = [v5 EXCEPT ![c] = Tail(@)]
        /\ Head(v5[c]) # Ss!End /\ v10' = [v10 EXCEPT ![c] = @ \cup {Head(v5[c])}]
        /\ UNCHANGED <<v4, v6, v7, v8, v9>>
    BY <1>4, <1>8 DEF Ss!Event
  <2>2. /\ v5[c] \in Seq(OwnEvent(c)) /\ v5[c] \in Seq(SseEvent)
        /\ v5 \in [Client -> Seq(SseEvent)] /\ v10 \in [Client -> SUBSET SseEvent]
    BY <1>5 DEF OnlyOwn
  <2>3. /\ Head(v5[c]) \in OwnEvent(c) /\ Tail(v5[c]) \in Seq(OwnEvent(c))
        /\ Head(v5[c]) \in SseEvent /\ Tail(v5[c]) \in Seq(SseEvent)
    BY <2>1, <2>2, HeadTailProperties, EmptySeq
  <2>4. \A d \in Client : /\ v5'[d] = IF d = c THEN Tail(v5[c]) ELSE v5[d]
                          /\ v10'[d] = IF d = c THEN v10[c] \cup {Head(v5[c])} ELSE v10[d]
    BY <2>1, <2>2
  <2>5. v5' \in [Client -> Seq(SseEvent)] /\ v10' \in [Client -> SUBSET SseEvent]
    BY <2>1, <2>2, <2>3
  <2>6. \A d \in Client : v5'[d] \in Seq(OwnEvent(d)) /\ v10'[d] \subseteq OwnEvent(d) \ {Ss!End}
    BY <1>5, <2>1, <2>3, <2>4 DEF OnlyOwn
  <2>7. OnlyOwn' BY <2>5, <2>6 DEF OnlyOwn, OwnEvent
  <2> QED BY <1>5, <2>1, <2>7, NothingAsked
<1>9. ASSUME NEW c \in Client, Ss!Leave(c) PROVE FALSE
  BY <1>4, <1>9 DEF Ss!Leave
<1>10. ASSUME NEW c \in Client, NEW i \in Id, NEW t \in StdioTool \cup {None}, Ss!Post(c, i, t)
       PROVE  AskedIsKnown' /\ OnlyOwn'
  <2>1. /\ v4[c] = "open" /\ i \in Uses[c] \ v9[c] /\ UNCHANGED <<v4, v8, v10>>
        /\ v9' = [v9 EXCEPT ![c] = @ \cup {i}]
    BY <1>0, <1>4, <1>10 DEF Ss!Post
  <2>2. CASE t # None /\ ~Ss!IsToolAllowed(t)
    <3>1. /\ UNCHANGED <<v6, v7>>
          /\ v5' = [v5 EXCEPT ![c] = Append(@, Ss!Answer(Ss!Request(c, i, t), {}))]
      BY <1>10, <2>1, <2>2 DEF Ss!Post, Ss!Open
    <3>2. Ss!Answer(Ss!Request(c, i, t), {}) \in OwnEvent(c)
      BY DEF Ss!Answer, Ss!Request, OwnEvent, SseEvent
    <3>3. v5 \in [Client -> Seq(SseEvent)] BY <1>5 DEF OnlyOwn
    <3>4. OnlyOwn' BY <1>5, <2>1, <3>1, <3>2, <3>3, OwnStays
    <3>5. \A d \in Client : v9'[d] = IF d = c THEN v9[d] \cup {i} ELSE v9[d]
      BY <1>5, <2>1 DEF AskedIsKnown
    <3>6. v9' \in [Client -> SUBSET Id] BY <1>5, <2>1 DEF AskedIsKnown
    <3>7. AskedIsKnown' BY <1>5, <2>1, <3>1, <3>5, <3>6 DEF AskedIsKnown
    <3> QED BY <3>4, <3>7
  <2>3. CASE ~(t # None /\ ~Ss!IsToolAllowed(t))
    <3>1. /\ v5' = v5 /\ v6' = [v6 EXCEPT ![i] = c]
          /\ v7' = v7 \/ v7' = v7 \cup {[client |-> c, id |-> i, tool |-> t]}
      BY <1>10, <2>3 DEF Ss!Post, Ss!Asked, Ss!Request
    <3>2. AskedIsKnown' BY <1>5, <2>1, <3>1, PostKeepsAsked
    <3> QED BY <1>5, <2>1, <3>1, <3>2 DEF OnlyOwn, OwnEvent
  <2> QED BY <2>2, <2>3
<1>11. ASSUME NEW r \in v7, Ss!Serve(r) PROVE AskedIsKnown' /\ OnlyOwn'
  <2>1. UNCHANGED <<v5, v10>> BY <1>11 DEF Ss!Serve
  <2> QED BY <1>5, <1>11, <2>1, ServeKeepsAsked DEF OnlyOwn, OwnEvent
<1>12. CASE Ss!ReadStdout BY <1>5, <1>12, ReadKeepsSse
<1>13. CASE Ss!Start
  <2>1. UNCHANGED <<v4, v5, v6, v7, v8, v9, v10>> BY <1>13 DEF Ss!Start
  <2> QED BY <1>5, <2>1, NothingAsked DEF OnlyOwn, OwnEvent
<1>14. CASE Ss!ReaderEnds \/ Ss!StopServer
  <2>1. /\ v5' = [c \in Client |-> IF c \in Ss!Open THEN Append(v5[c], Ss!End) ELSE v5[c]]
        /\ UNCHANGED <<v4, v6, v7, v8, v9, v10>>
    BY <1>14 DEF Ss!ReaderEnds, Ss!StopServer
  <2> QED BY <1>5, <2>1, NothingAsked, EndsAreOwn
<1>15. CASE Ss!ProcessEnds \/ Ss!StopProcess
  <2>1. v7' = {} /\ UNCHANGED <<v4, v6, v8, v9, v10>>
    BY <1>15 DEF Ss!ProcessEnds, Ss!StopProcess
  <2>2. AskedIsKnown' BY <1>5, <2>1 DEF AskedIsKnown
  <2>3. CASE Ss!ProcessEnds
    BY <1>5, <2>1, <2>2, <2>3 DEF Ss!ProcessEnds, OnlyOwn, OwnEvent
  <2>4. CASE Ss!StopProcess
    <3>1. v5' = [c \in Client |-> IF c \in {d \in Ss!Open : v3} THEN Append(v5[c], Ss!End) ELSE v5[c]]
      BY <2>4 DEF Ss!StopProcess
    <3> QED BY <1>5, <2>1, <2>2, <3>1, EndsAreOwn
  <2> QED BY <1>15, <2>3, <2>4
<1> QED
  BY <1>6, <1>7, <1>8, <1>9, <1>10, <1>11, <1>12, <1>13, <1>14, <1>15 DEF Ss!Next

LEMMA SseFacts == SseInv => Ss!OwnAnswers
<1> SUFFICES ASSUME SseInv, \A c \in Client : v4[c] # "closed",
                    NEW c \in Client, NEW a \in v10[c] \cup (Ss!Range(v5[c]) \ {Ss!End})
             PROVE  a.client = c /\ \A t \in a.tools : Ss!IsToolAllowed(t)
  BY DEF Ss!OwnAnswers
<1>1. v5[c] \in Seq(OwnEvent(c)) /\ v10[c] \subseteq OwnEvent(c) \ {Ss!End} BY DEF SseInv, OnlyOwn
<1>2. Ss!Range(v5[c]) \subseteq OwnEvent(c) BY <1>1 DEF Ss!Range
<1> QED BY <1>1, <1>2 DEF OwnEvent

-----------------------------------------------------------------------------
(* The bridge to the powers: live is v1, cache v2, fresh v3, routing v4,   *)
(* stream v5, known v6, calls v7, waiting v8 and ran v9.                   *)

\* The lists that clients have are parts of the latest, and that of what there is.
ListsGrow ==
  \E latest \in SUBSET v2 :
    /\ v4 = Mb!Routing(latest)
    /\ \A s \in McpSession : \E list \in SUBSET latest : v6[s] = Mb!Routing(list)

BridgeInv ==
  /\ v1 \subseteq Mb!Tool /\ v2 \subseteq v1
  /\ DOMAIN v6 = McpSession /\ DOMAIN v8 = McpSession /\ DOMAIN v9 = McpSession
  /\ ListsGrow
  /\ \A s \in McpSession : v8[s] # None => v8[s][1] = v8[s][2]
  /\ Mb!RunsWhatWasListed

-----------------------------------------------------------------------------
(* A name that is in two lists, one of which is a part of the other, stands *)
(* for the same tool in both                                                *)

LEMMA OfMcpBridge ==
  /\ \A S : Mb!Cardinality(S) = Cardinality(S)
  /\ IsFiniteSet(Mb!Tool) /\ Power \cap Mb!Tool = {}
<1>1. \A S : Mb!Cardinality(S) = Cardinality(S) BY DEF Mb!Cardinality, Cardinality
<1>2. \A S : Mb!IsFiniteSet(S) = IsFiniteSet(S) BY DEF Mb!IsFiniteSet, IsFiniteSet
<1>3. IsFiniteSet(Provider) /\ IsFiniteSet(Power) /\ Power \cap Mb!Tool = {}
  BY <1>2, MCAgentsAssumption DEF Mb!McpBridgeAssumption
<1>4. IsFiniteSet(Mb!Tool) BY <1>3, FS_Product DEF Mb!Tool
<1> QED BY <1>1, <1>3, <1>4

LEMMA Routed ==
  ASSUME NEW tools \in SUBSET Mb!Tool, NEW n \in Mb!Name, Mb!Routing(tools)[n] # None
  PROVE  /\ Mb!Routing(tools)[n] \in tools
         /\ Mb!NameOf(tools, Mb!Routing(tools)[n]) = n
<1>1. Mb!Routing(tools)[n] = IF \E t \in tools : Mb!NameOf(tools, t) = n
                             THEN CHOOSE t \in tools : Mb!NameOf(tools, t) = n ELSE None
  BY DEF Mb!Routing
<1> QED BY <1>1

LEMMA SameTool ==
  ASSUME NEW latest \in SUBSET Mb!Tool, NEW list \in SUBSET latest, NEW n \in Mb!Name,
         Mb!Routing(list)[n] # None, Mb!Routing(latest)[n] # None
  PROVE  Mb!Routing(list)[n] = Mb!Routing(latest)[n]
<1>1. PICK t : t = Mb!Routing(list)[n] OBVIOUS
<1>2. PICK u : u = Mb!Routing(latest)[n] OBVIOUS
<1>3. /\ t \in list /\ Mb!NameOf(list, t) = n /\ u \in latest /\ Mb!NameOf(latest, u) = n
  BY <1>1, <1>2, Routed
<1>4. t[2] \in Power /\ u[2] \in Power BY <1>3 DEF Mb!Tool
<1>5. CASE n \in Mb!Tool
  BY <1>1, <1>2, <1>3, <1>4, <1>5, OfMcpBridge DEF Mb!NameOf
<1>6. CASE n \in Power
  <2> DEFINE Alike == {w \in latest : w[2] = u[2]}
  <2>1. n = t[2] /\ n = u[2] /\ ~(Cardinality(Alike) > 1)
    <3>1. t \notin Power /\ u \notin Power BY <1>3, OfMcpBridge
    <3> QED BY <1>3, <1>6, <3>1, OfMcpBridge DEF Mb!NameOf
  <2>2. t \in Alike /\ u \in Alike BY <1>3, <2>1
  <2>3. IsFiniteSet(Alike) BY OfMcpBridge, FS_Subset
  <2>4. SUFFICES ASSUME t # u PROVE FALSE BY <1>1, <1>2
  <2>5. {t, u} \subseteq Alike /\ Cardinality({t, u}) = 2
    <3>1. Cardinality({u}) = 1 /\ IsFiniteSet({u}) BY FS_Singleton
    <3>2. {t, u} = {u} \cup {t} /\ t \notin {u} BY <2>4
    <3>3. Cardinality({u} \cup {t}) = Cardinality({u}) + 1 BY <3>1, <3>2, FS_AddElement
    <3> QED BY <2>2, <3>1, <3>2, <3>3
  <2>6. Cardinality(Alike) \in Nat /\ Cardinality({t, u}) <= Cardinality(Alike)
    BY <2>3, <2>5, FS_Subset, FS_CardinalityType
  <2> QED BY <2>1, <2>5, <2>6
<1> QED BY <1>5, <1>6 DEF Mb!Name

LEMMA InitBridge == Mb!Init => BridgeInv
<1> SUFFICES ASSUME Mb!Init PROVE BridgeInv OBVIOUS
<1>1. Mb!NoNames = Mb!Routing({}) BY DEF Mb!NoNames, Mb!Routing
<1>2. ListsGrow BY <1>1 DEF ListsGrow, Mb!Init
<1> QED BY <1>2 DEF BridgeInv, Mb!Init, Mb!RunsWhatWasListed

\* As long as no list is asked for, tools may come in the meantime.
LEMMA ListsStay ==
  ASSUME ListsGrow, v2 \subseteq v2', UNCHANGED <<v4, v6>>
  PROVE  ListsGrow'
<1>1. PICK latest \in SUBSET v2 :
        /\ v4 = Mb!Routing(latest)
        /\ \A s \in McpSession : \E list \in SUBSET latest : v6[s] = Mb!Routing(list)
  BY DEF ListsGrow
<1>2. latest \in SUBSET v2' BY <1>1
<1> QED BY <1>1, <1>2 DEF ListsGrow

LEMMA BridgeStep == BridgeInv /\ [Mb!Next]_(Mb!vars) => BridgeInv'
<1> SUFFICES ASSUME BridgeInv, [Mb!Next]_(Mb!vars) PROVE BridgeInv' OBVIOUS
<1>0. /\ v1 \subseteq Mb!Tool /\ v2 \subseteq v1
      /\ DOMAIN v6 = McpSession /\ DOMAIN v8 = McpSession /\ DOMAIN v9 = McpSession
      /\ ListsGrow
      /\ \A s \in McpSession : v8[s] # None => v8[s][1] = v8[s][2]
      /\ \A s \in McpSession : \A m \in v9[s] : m[1] = m[2]
  BY DEF BridgeInv, Mb!RunsWhatWasListed
<1>1. SUFFICES /\ v1' \subseteq Mb!Tool /\ v2' \subseteq v1'
               /\ DOMAIN v6' = McpSession /\ DOMAIN v8' = McpSession /\ DOMAIN v9' = McpSession
               /\ ListsGrow'
               /\ \A s \in McpSession : v8'[s] # None => v8'[s][1] = v8'[s][2]
               /\ \A s \in McpSession : \A m \in v9'[s] : m[1] = m[2]
  BY DEF BridgeInv, Mb!RunsWhatWasListed
<1>2. CASE UNCHANGED Mb!vars
  BY <1>0, <1>2, ListsStay DEF Mb!vars
<1>3. ASSUME NEW l \in Provider, NEW p \in Power, Mb!Load(l, p) PROVE <1>1!1
  <2>1. v1' = v1 \cup {<<l, p>>} /\ UNCHANGED <<v2, v4, v6, v8, v9>> BY <1>3 DEF Mb!Load
  <2>2. ListsGrow' BY <1>0, <2>1, ListsStay
  <2> QED BY <1>0, <2>1, <2>2 DEF Mb!Tool
<1>4. ~ \E l \in Provider : Mb!Unload(l) BY DEF Mb!Unload
<1>5. CASE \E s \in McpSession : Mb!OpenStream(s) \/ Mb!CloseStream(s)
  <2>1. UNCHANGED <<v1, v2, v4, v6, v8, v9>> BY <1>5 DEF Mb!OpenStream, Mb!CloseStream
  <2> QED BY <1>0, <2>1, ListsStay
<1>6. CASE Mb!FiveSeconds
  <2>1. UNCHANGED <<v1, v2, v4, v6, v8, v9>> BY <1>6 DEF Mb!FiveSeconds
  <2> QED BY <1>0, <2>1, ListsStay
<1>7. CASE Mb!InitialFetch
  <2>1. UNCHANGED <<v1, v4, v6, v8, v9>> /\ v2' \in {v1, v2}
    BY <1>7 DEF Mb!InitialFetch, Mb!Refresh
  <2>2. v2 \subseteq v2' /\ v2' \subseteq v1 BY <1>0, <2>1
  <2>3. ListsGrow' BY <1>0, <2>1, <2>2, ListsStay
  <2> QED BY <1>0, <2>1, <2>2, <2>3
<1>8. ASSUME NEW s \in McpSession, Mb!List(s) PROVE <1>1!1
  <2>1. /\ UNCHANGED <<v1, v8, v9>> /\ v2' \in {v1, v2}
        /\ v4' = Mb!Routing(v2') /\ v6' = [v6 EXCEPT ![s] = v4']
    BY <1>8 DEF Mb!List, Mb!Refresh
  <2>2. v2 \subseteq v2' /\ v2' \subseteq v1 BY <1>0, <2>1
  <2>3. PICK latest \in SUBSET v2 :
          \A r \in McpSession : \E list \in SUBSET latest : v6[r] = Mb!Routing(list)
    BY <1>0 DEF ListsGrow
  <2>4. \A r \in McpSession : \E list \in SUBSET v2' : v6'[r] = Mb!Routing(list)
    <3>1. \A r \in McpSession : r # s => v6'[r] = v6[r] BY <1>0, <2>1
    <3>2. v6'[s] = Mb!Routing(v2') BY <1>0, <2>1
    <3> QED BY <2>2, <2>3, <3>1, <3>2
  <2>5. ListsGrow'
    BY <2>1, <2>4 DEF ListsGrow
  <2> QED BY <1>0, <2>1, <2>2, <2>5
<1>9. ASSUME NEW s \in McpSession, NEW n \in Mb!Name, Mb!Call(s, n) PROVE <1>1!1
  <2>1. /\ UNCHANGED <<v1, v2, v4, v6, v9>> /\ v6[s][n] # None
        /\ v8' = [v8 EXCEPT ![s] = IF v4[n] = None THEN None ELSE <<v6[s][n], v4[n]>>]
    BY <1>9 DEF Mb!Call
  <2>2. v4[n] # None => v6[s][n] = v4[n]
    <3>1. PICK latest \in SUBSET v2 :
            /\ v4 = Mb!Routing(latest)
            /\ \A r \in McpSession : \E list \in SUBSET latest : v6[r] = Mb!Routing(list)
      BY <1>0 DEF ListsGrow
    <3>2. PICK list \in SUBSET latest : v6[s] = Mb!Routing(list) BY <3>1
    <3>3. latest \in SUBSET Mb!Tool BY <1>0, <3>1
    <3> QED BY <2>1, <3>1, <3>2, <3>3, SameTool
  <2>3. \A r \in McpSession : v8'[r] # None => v8'[r][1] = v8'[r][2] BY <1>0, <2>1, <2>2
  <2> QED BY <1>0, <2>1, <2>3, ListsStay
<1>10. ASSUME NEW s \in McpSession, Mb!Serve(s) PROVE <1>1!1
  <2>1. /\ UNCHANGED <<v1, v2, v4, v6>> /\ v8[s] # None /\ v8' = [v8 EXCEPT ![s] = None]
        /\ v9' = v9 \/ v9' = [v9 EXCEPT ![s] = @ \cup {v8[s]}]
    BY <1>10 DEF Mb!Serve
  <2>2. \A r \in McpSession : v8'[r] # None => v8'[r][1] = v8'[r][2] BY <1>0, <2>1
  <2>3. \A r \in McpSession : \A m \in v9'[r] : m[1] = m[2] BY <1>0, <2>1
  <2> QED BY <1>0, <2>1, <2>2, <2>3, ListsStay
<1> QED
  BY <1>2, <1>3, <1>4, <1>5, <1>6, <1>7, <1>8, <1>9, <1>10 DEF Mb!Next

-----------------------------------------------------------------------------
(* The built-in chat: db is v1, fresh v2, said v3, asked v4, active v5,    *)
(* serverConvId v6, sessionId v7, opening v8, sending v9, calling v10,     *)
(* conversations v11, context v12, heard v13, made v14, restarts v15.      *)

Question == 1..MaxQuestions

\* The server's conversation i belongs to conversation c of the browser.
Holds(c, i) ==
  \/ v1[c].server = i
  \/ v5 = c /\ v8 = {} /\ v6 = i
  \/ v9 # None /\ v5 = c /\ v9.held.server = i

WireRecord == [server : Nat, session : Nat, kept : BOOLEAN]
WireSend == [of : Question, stage : {"saved", "fetched", "posted", "answered"}, conv : Conv,
             held : WireRecord, to : Nat]

WireTypes ==
  /\ v1 \in [Conv -> WireRecord]
  /\ v2 \subseteq Conv
  /\ v3 \subseteq [cid : Conv, role : {"user", "ai"}, of : Question]
  /\ v4 \in [Question -> Conv \cup {None}] /\ v5 \in Conv \cup {None}
  /\ v6 \in Nat /\ v11 \in 0..MaxServer
  /\ v12 \in [1..MaxServer -> 0..MaxSession] /\ v13 \in [1..MaxSession -> SUBSET Question]
  /\ v14 \in Nat

\* One thing is under way at a time, and in the conversation that is active.
OneAtATime ==
  /\ v8 # {} => /\ v5 \in Conv /\ v9 = None /\ v10 = None
                /\ \/ v8 = {[conv |-> v5, stage |-> "loads"]}
                   \/ v8 = {[conv |-> v5, stage |-> "creates"]} /\ v6 = 0
  /\ v9 # None => /\ v5 \in Conv /\ v10 = None /\ v9.conv = v5
                  /\ v9 \in WireSend /\ v4[v9.of] = v5
                  /\ v9.stage \in {"posted", "answered"} => v9.to = v6 /\ v6 # 0
  /\ v10 # None => v5 \in Conv /\ v10 \in Question /\ v4[v10] = v5

\* A conversation of the server has one in the browser, a session one of the server.
OneOwner ==
  /\ \A c \in Conv, i \in Nat : Holds(c, i) => i <= v11
  /\ \A c, d \in Conv, i \in Nat : i # 0 /\ Holds(c, i) /\ Holds(d, i) => c = d
  /\ \A i \in 1..MaxServer : v12[i] <= v14 /\ (i > v11 => v12[i] = 0)
  /\ \A i, j \in 1..MaxServer : v12[i] = v12[j] /\ v12[i] # 0 => i = j

\* What a session has heard was typed in that conversation.
HeardIsOwn ==
  /\ \A s \in 1..MaxSession : s > v14 => v13[s] = {}
  /\ \A s \in 1..MaxSession : \A q, r \in v13[s] : v4[q] # None /\ v4[q] = v4[r]
  /\ \A c \in Conv, i \in 1..MaxServer : Holds(c, i) /\ v12[i] # 0 =>
       \A q \in v13[v12[i]] : v4[q] = c

StandsInPlace == \A m \in v3 : v4[m.of] = m.cid

WireInv == WireTypes /\ OneAtATime /\ OneOwner /\ HeardIsOwn /\ StandsInPlace

LEMMA WireConstants ==
  /\ None \notin Conv
  /\ MaxQuestions \in Nat /\ MaxServer \in Nat /\ MaxSession \in Nat
BY MCAgentsAssumption DEF Wi!WireAssumption

LEMMA InitWire == Wi!Init => WireInv
<1> SUFFICES ASSUME Wi!Init PROVE WireInv OBVIOUS
<1>1. /\ v1 = [c \in Conv |-> [server |-> 0, session |-> 0, kept |-> FALSE]]
      /\ v2 = Conv /\ v3 = {} /\ v4 = [q \in Question |-> None] /\ v5 = None /\ v6 = 0
      /\ v8 = {} /\ v9 = None /\ v10 = None /\ v11 = 0 /\ v12 = [i \in 1..MaxServer |-> 0]
      /\ v13 = [s \in 1..MaxSession |-> {}] /\ v14 = 0
  BY DEF Wi!Init, Wi!Record, Wi!Question, Question
<1>2. WireTypes /\ OneAtATime /\ StandsInPlace
  BY <1>1, WireConstants DEF WireTypes, OneAtATime, WireRecord, StandsInPlace
<1>3. \A c \in Conv, i \in Nat : Holds(c, i) => i = 0
  BY <1>1, WireConstants DEF Holds
<1>4. OneOwner BY <1>1, <1>3 DEF OneOwner
<1>5. HeardIsOwn BY <1>1, <1>3 DEF HeardIsOwn
<1> QED BY <1>2, <1>4, <1>5 DEF WireInv

\* Nothing is given out: every conversation holds what it held.
LEMMA HeldAsBefore ==
  ASSUME WireInv, UNCHANGED <<v4, v11, v12, v13, v14>>,
         \A c \in Conv, i \in Nat : i # 0 /\ Holds(c, i)' => Holds(c, i)
  PROVE  OneOwner' /\ HeardIsOwn'
<1>1. v11 \in Nat BY WireConstants DEF WireInv, WireTypes
<1>2. OneOwner' BY <1>1 DEF WireInv, OneOwner
<1>3. HeardIsOwn' BY WireConstants DEF WireInv, HeardIsOwn
<1> QED BY <1>2, <1>3

\* Conversation a gets the server's next one, that nobody had and nobody talked in.
LEMMA HeldAnew ==
  ASSUME WireInv, UNCHANGED <<v4, v12, v13, v14>>, v11 < MaxServer, v11' = v11 + 1,
         NEW a \in Conv,
         \A c \in Conv, i \in Nat :
            i # 0 /\ Holds(c, i)' => Holds(c, i) \/ (c = a /\ i = v11 + 1)
  PROVE  OneOwner' /\ HeardIsOwn'
<1>1. v11 \in Nat /\ MaxServer \in Nat BY WireConstants DEF WireInv, WireTypes
<1>2. /\ \A c \in Conv, i \in Nat : Holds(c, i) => i <= v11
      /\ \A c, d \in Conv, i \in Nat : i # 0 /\ Holds(c, i) /\ Holds(d, i) => c = d
      /\ \A i \in 1..MaxServer : v12[i] <= v14 /\ (i > v11 => v12[i] = 0)
      /\ \A i, j \in 1..MaxServer : v12[i] = v12[j] /\ v12[i] # 0 => i = j
  BY DEF WireInv, OneOwner
<1>3. \A c \in Conv, i \in Nat : Holds(c, i)' => i <= v11 + 1 BY <1>1, <1>2
<1>4. ASSUME NEW c \in Conv, NEW d \in Conv, NEW i \in Nat, i # 0, Holds(c, i)', Holds(d, i)'
      PROVE  c = d
  <2>1. i = v11 + 1 => ~Holds(c, i) /\ ~Holds(d, i) BY <1>1, <1>2
  <2> QED BY <1>2, <1>4, <2>1
<1>5. \A i \in 1..MaxServer : i > v11 + 1 => v12[i] = 0 BY <1>1, <1>2
<1>6. OneOwner' BY <1>2, <1>3, <1>4, <1>5 DEF OneOwner
<1>7. ASSUME NEW c \in Conv, NEW i \in 1..MaxServer, Holds(c, i)', v12[i] # 0 PROVE Holds(c, i)
  <2>1. i \in Nat /\ i # 0 /\ i # v11 + 1 BY <1>1, <1>2, <1>7
  <2> QED BY <1>7, <2>1
<1>8. HeardIsOwn' BY <1>7 DEF WireInv, HeardIsOwn
<1> QED BY <1>6, <1>8

\* Conversations are opened when nothing else goes on.
LEMMA OpenKeeps ==
  ASSUME WireInv, NEW c \in Conv, v5' = c, v8' = {[conv |-> c, stage |-> "loads"]},
         v9' = None, v10' = None, v3' \subseteq v3, v2' \subseteq v2, v6' \in Nat,
         v1' \in [Conv -> WireRecord],
         \A d \in Conv : v1'[d].server = v1[d].server \/ v1'[d].server = 0,
         UNCHANGED <<v4, v11, v12, v13, v14>>
  PROVE  WireInv'
<1>1. OneOwner' /\ HeardIsOwn'
  <2>1. \A d \in Conv, i \in Nat : i # 0 /\ Holds(d, i)' => Holds(d, i) BY DEF Holds
  <2> QED BY <2>1, HeldAsBefore
<1>2. WireTypes' BY DEF WireInv, WireTypes
<1>3. OneAtATime' BY DEF OneAtATime
<1>4. StandsInPlace' BY DEF WireInv, StandsInPlace
<1> QED BY <1>1, <1>2, <1>3, <1>4 DEF WireInv

LEMMA PageSteps ==
  ASSUME WireInv, NEW c \in Conv,
         Wi!NewConversation(c) \/ Wi!SwitchConversation(c) \/ Wi!DeleteConversation(c) \/ Wi!Mounted(c)
  PROVE  WireInv'
<1>0. v1 \in [Conv -> WireRecord] /\ v6 \in Nat BY DEF WireInv, WireTypes
<1>1. ASSUME NEW d \in Conv, NEW b \in BOOLEAN
      PROVE  /\ [v1 EXCEPT ![d] = Wi!Record(0, 0, b)] \in [Conv -> WireRecord]
             /\ \A e \in Conv : [v1 EXCEPT ![d] = Wi!Record(0, 0, b)][e].server \in {0, v1[e].server}
  <2>1. Wi!Record(0, 0, b) \in WireRecord /\ Wi!Record(0, 0, b).server = 0
    BY DEF Wi!Record, WireRecord
  <2> QED BY <1>0, <2>1
<1>2. CASE Wi!NewConversation(c)
  <2>1. /\ v2' = v2 \ {c} /\ v1' = [v1 EXCEPT ![c] = Wi!Record(0, 0, TRUE)] /\ v5' = c
        /\ v8' = {[conv |-> c, stage |-> "loads"]}
        /\ v9' = None /\ v10' = None /\ UNCHANGED <<v3, v4, v6, v11, v12, v13, v14>>
    BY <1>2 DEF Wi!NewConversation, Wi!Switch, Wi!Idle, Wi!server
  <2> QED BY <1>0, <1>1, <2>1, OpenKeeps
<1>3. CASE Wi!SwitchConversation(c)
  <2>1. /\ v5' = c /\ v8' = {[conv |-> c, stage |-> "loads"]}
        /\ v9' = None /\ v10' = None /\ UNCHANGED <<v1, v2, v3, v4, v6, v11, v12, v13, v14>>
    BY <1>3 DEF Wi!SwitchConversation, Wi!Switch, Wi!Idle, Wi!server
  <2> QED BY <1>0, <2>1, OpenKeeps
<1>4. CASE Wi!Mounted(c)
  <2>1. /\ v5' = c /\ v8' = {[conv |-> c, stage |-> "loads"]} /\ v6' = 0
        /\ v9' = None /\ v10' = None /\ UNCHANGED <<v1, v2, v3, v4, v11, v12, v13, v14>>
    BY <1>4 DEF Wi!Mounted, Wi!server
  <2> QED BY <1>0, <2>1, OpenKeeps
<1>5. CASE Wi!DeleteConversation(c)
  <2> DEFINE left == [v1 EXCEPT ![c] = Wi!Record(0, 0, FALSE)]
  <2>1. /\ v8 = {} /\ v9 = None /\ v10 = None /\ v3' = {m \in v3 : m.cid # c}
        /\ UNCHANGED <<v4, v6, v9, v10, v11, v12, v13, v14>>
    BY <1>5 DEF Wi!DeleteConversation, Wi!Idle, Wi!server
  <2>2. left \in [Conv -> WireRecord] /\ \A e \in Conv : left[e].server \in {0, v1[e].server}
    BY <1>1
  <2>3. CASE v1' = left /\ UNCHANGED <<v5, v8, v2>>
    <3>1. \A d \in Conv, i \in Nat : i # 0 /\ Holds(d, i)' => Holds(d, i)
      BY <2>1, <2>2, <2>3 DEF Holds
    <3>2. OneOwner' /\ HeardIsOwn' BY <2>1, <3>1, HeldAsBefore
    <3>3. WireTypes' BY <2>1, <2>2, <2>3 DEF WireInv, WireTypes
    <3>4. OneAtATime' BY <2>1, <2>3 DEF OneAtATime
    <3>5. StandsInPlace' BY <2>1 DEF WireInv, StandsInPlace
    <3> QED BY <3>2, <3>3, <3>4, <3>5 DEF WireInv
  <2>4. ASSUME NEW d \in Conv, v1' = left, UNCHANGED v2, Wi!Switch(d) PROVE WireInv'
    <3>1. v5' = d /\ v8' = {[conv |-> d, stage |-> "loads"]} BY <2>1, <2>4 DEF Wi!Switch
    <3> QED BY <1>0, <2>1, <2>2, <2>4, <3>1, OpenKeeps
  <2>5. ASSUME NEW d \in v2, v1' = [left EXCEPT ![d] = Wi!Record(0, 0, TRUE)],
               v2' = v2 \ {d}, Wi!Switch(d)
        PROVE  WireInv'
    <3>1. v5' = d /\ v8' = {[conv |-> d, stage |-> "loads"]} BY <2>1, <2>5 DEF Wi!Switch
    <3>2. d \in Conv BY DEF WireInv, WireTypes
    <3>3. Wi!Record(0, 0, TRUE) \in WireRecord /\ Wi!Record(0, 0, TRUE).server = 0
      BY DEF Wi!Record, WireRecord
    <3>4. /\ v1' \in [Conv -> WireRecord]
          /\ \A e \in Conv : v1'[e].server = v1[e].server \/ v1'[e].server = 0
      BY <2>2, <2>5, <3>2, <3>3
    <3> QED BY <1>0, <2>1, <2>5, <3>1, <3>2, <3>4, OpenKeeps
  <2> QED BY <1>5, <2>3, <2>4, <2>5 DEF Wi!DeleteConversation
<1> QED BY <1>2, <1>3, <1>4, <1>5

LEMMA OpeningSteps ==
  ASSUME WireInv, NEW o \in v8, Wi!Opened(o) \/ Wi!ServerSide(o)
  PROVE  WireInv'
<1>0. /\ v1 \in [Conv -> WireRecord] /\ v6 \in Nat /\ v11 \in 0..MaxServer /\ MaxServer \in Nat
      /\ v5 \in Conv /\ v9 = None /\ v10 = None /\ v8 = {o} /\ o.conv = v5
      /\ \/ o = [conv |-> v5, stage |-> "loads"]
         \/ o = [conv |-> v5, stage |-> "creates"] /\ v6 = 0
  BY WireConstants DEF WireInv, WireTypes, OneAtATime
<1>1. CASE Wi!Opened(o)
  <2>1. /\ o = [conv |-> v5, stage |-> "loads"] /\ v6' = v1[v5].server
        /\ v8' = IF v6' = 0 THEN {[conv |-> v5, stage |-> "creates"]} ELSE {}
        /\ UNCHANGED <<v1, v2, v3, v4, v5, v9, v10, v11, v12, v13, v14>>
    <3>1. /\ o.stage = "loads" /\ v6' = v1[v5].server
          /\ v8' = (v8 \ {o}) \cup (IF v6' = 0 THEN {[o EXCEPT !.stage = "creates"]} ELSE {})
          /\ UNCHANGED <<v1, v2, v3, v4, v5, v9, v10, v11, v12, v13, v14>>
      BY <1>0, <1>1 DEF Wi!Opened, Wi!Fields, Wi!server
    <3>2. o = [conv |-> v5, stage |-> "loads"] BY <1>0, <3>1
    <3>3. [o EXCEPT !.stage = "creates"] = [conv |-> v5, stage |-> "creates"] BY <3>2
    <3> QED BY <1>0, <3>1, <3>2, <3>3
  <2>2. v6' \in Nat BY <1>0, <2>1 DEF WireRecord
  <2>3. \A d \in Conv, i \in Nat : i # 0 /\ Holds(d, i)' => Holds(d, i) BY <1>0, <2>1 DEF Holds
  <2>4. OneOwner' /\ HeardIsOwn' BY <2>1, <2>3, HeldAsBefore
  <2>5. WireTypes' BY <2>1, <2>2 DEF WireInv, WireTypes
  <2>6. OneAtATime' BY <1>0, <2>1 DEF OneAtATime
  <2>7. StandsInPlace' BY <2>1 DEF WireInv, StandsInPlace
  <2> QED BY <2>4, <2>5, <2>6, <2>7 DEF WireInv
<1>2. CASE Wi!ServerSide(o)
  <2>1. v8' = {} /\ UNCHANGED <<v2, v3, v4, v5, v9, v10, v12, v13, v14>>
    BY <1>0, <1>2 DEF Wi!ServerSide
  <2>2. OneAtATime' BY <1>0, <2>1 DEF OneAtATime
  <2>3. StandsInPlace' BY <2>1 DEF WireInv, StandsInPlace
  <2>4. CASE UNCHANGED <<v11, v6, v1>>
    <3>1. v6 = 0 BY <1>0, <1>2 DEF Wi!ServerSide
    <3>2. \A d \in Conv, i \in Nat : i # 0 /\ Holds(d, i)' => Holds(d, i)
      BY <1>0, <2>1, <2>4, <3>1 DEF Holds
    <3>3. OneOwner' /\ HeardIsOwn' BY <2>1, <2>4, <3>2, HeldAsBefore
    <3>4. WireTypes' BY <2>1, <2>4 DEF WireInv, WireTypes
    <3> QED BY <2>2, <2>3, <3>3, <3>4 DEF WireInv
  <2>5. CASE /\ Wi!Created /\ v6' = v11'
             /\ v1' = [v1 EXCEPT ![v5] = Wi!Record(v11', @.session, TRUE)]
    <3>1. v11 < MaxServer /\ v11' = v11 + 1 /\ v11' \in Nat /\ v11' \in 0..MaxServer
      BY <1>0, <2>5 DEF Wi!Created
    <3>2. PICK r : r = Wi!Record(v11', v1[v5].session, TRUE) OBVIOUS
    <3>3. r \in WireRecord /\ r.server = v11 + 1
      BY <1>0, <3>1, <3>2 DEF WireRecord, Wi!Record
    <3>4. v1' = [v1 EXCEPT ![v5] = r] BY <2>5, <3>2
    <3>5. v1' \in [Conv -> WireRecord] /\ \A d \in Conv : v1'[d] = IF d = v5 THEN r ELSE v1[d]
      BY <1>0, <3>3, <3>4
    <3>6. \A d \in Conv, i \in Nat :
             i # 0 /\ Holds(d, i)' => Holds(d, i) \/ (d = v5 /\ i = v11 + 1)
      BY <1>0, <2>1, <2>5, <3>1, <3>3, <3>5 DEF Holds
    <3>7. OneOwner' /\ HeardIsOwn' BY <1>0, <2>1, <3>1, <3>6, HeldAnew
    <3>8. WireTypes' BY <2>1, <2>5, <3>1, <3>5 DEF WireInv, WireTypes
    <3> QED BY <2>2, <2>3, <3>7, <3>8 DEF WireInv
  <2> QED BY <1>0, <1>2, <2>4, <2>5 DEF Wi!ServerSide
<1> QED BY <1>1, <1>2

\* While send() is under way.
LEMMA Sending ==
  ASSUME WireInv, v9 # None
  PROVE  /\ v5 \in Conv /\ v8 = {} /\ v10 = None /\ v9 \in WireSend /\ v9.conv = v5
         /\ v4[v9.of] = v5 /\ (v9.stage \in {"posted", "answered"} => v9.to = v6 /\ v6 # 0)
         /\ v1 \in [Conv -> WireRecord] /\ v6 \in Nat /\ v11 \in 0..MaxServer
         /\ Holds(v5, v6) /\ Holds(v5, v9.held.server)
<1>1. /\ v5 \in Conv /\ v8 = {} /\ v10 = None /\ v9 \in WireSend /\ v9.conv = v5
      /\ v4[v9.of] = v5 /\ (v9.stage \in {"posted", "answered"} => v9.to = v6 /\ v6 # 0)
  BY DEF WireInv, OneAtATime
<1>2. v1 \in [Conv -> WireRecord] /\ v6 \in Nat /\ v11 \in 0..MaxServer
  BY DEF WireInv, WireTypes
<1> QED BY <1>1, <1>2 DEF Holds

\* A step of send() that gives nothing out.
LEMMA SendingKeeps ==
  ASSUME WireInv, v9 # None, UNCHANGED <<v2, v3, v4, v5, v6, v8, v10, v11, v12, v13, v14>>,
         v1' = v1, v9' \in WireSend, v9'.conv = v5, v9'.of = v9.of, Holds(v5, v9'.held.server),
         v9'.stage \in {"posted", "answered"} => v9'.to = v6 /\ v6 # 0
  PROVE  WireInv'
<1>1. \A d \in Conv, i \in Nat : i # 0 /\ Holds(d, i)' => Holds(d, i)
  BY Sending DEF Holds
<1>2. OneOwner' /\ HeardIsOwn' BY <1>1, HeldAsBefore
<1>3. WireTypes' BY DEF WireInv, WireTypes
<1>4. OneAtATime' BY Sending DEF OneAtATime
<1>5. StandsInPlace' BY DEF WireInv, StandsInPlace
<1> QED BY <1>2, <1>3, <1>4, <1>5 DEF WireInv

LEMMA SendSteps ==
  ASSUME WireInv, (\E q \in Question : Wi!Send(q)) \/ Wi!Fetched
  PROVE  WireInv'
<1>1. ASSUME NEW q \in Question, Wi!Send(q) PROVE WireInv'
  <2>0. /\ v5 \in Conv /\ v4 \in [Question -> Conv \cup {None}]
        /\ v3 \subseteq [cid : Conv, role : {"user", "ai"}, of : Question]
        /\ v13 \in [1..MaxSession -> SUBSET Question] /\ v12 \in [1..MaxServer -> 0..MaxSession]
    BY <1>1 DEF WireInv, WireTypes, Wi!Send
  <2>1. PICK m : m = Wi!Message(v5, "user", q) OBVIOUS
  <2>2. PICK x : x = [of |-> q, stage |-> "saved", conv |-> v5,
                      held |-> Wi!Record(0, 0, FALSE), to |-> 0]
    OBVIOUS
  <2>3. /\ v9 = None /\ v10 = None /\ v8 = {} /\ v4[q] = None
        /\ v4' = [v4 EXCEPT ![q] = v5] /\ v3' = v3 \cup {m} /\ v9' = x
        /\ UNCHANGED <<v1, v2, v5, v6, v8, v10, v11, v12, v13, v14>>
    BY <1>1, <2>1, <2>2 DEF Wi!Send, Wi!Idle, Wi!page, Wi!server
  <2>4. m.of = q /\ m.cid = v5 /\ m \in [cid : Conv, role : {"user", "ai"}, of : Question]
    BY <1>1, <2>0, <2>1 DEF Wi!Message
  <2>5. Wi!Record(0, 0, FALSE) \in WireRecord /\ Wi!Record(0, 0, FALSE).server = 0
    BY DEF Wi!Record, WireRecord
  <2>6. x \in WireSend /\ x.of = q /\ x.stage = "saved" /\ x.conv = v5 /\ x.held.server = 0
    BY <1>1, <2>0, <2>2, <2>5 DEF WireSend
  <2>7. /\ v4' \in [Question -> Conv \cup {None}]
        /\ \A r \in Question : v4'[r] = IF r = q THEN v5 ELSE v4[r]
    BY <1>1, <2>0, <2>3
  <2>8. \A d \in Conv, i \in Nat : i # 0 /\ Holds(d, i)' => Holds(d, i)
    BY <2>3, <2>6 DEF Holds
  <2>9. \A s \in 1..MaxSession : \A r \in v13[s] : r \in Question /\ r # q /\ v4'[r] = v4[r]
    BY <2>0, <2>3, <2>7 DEF WireInv, HeardIsOwn
  <2>10. OneOwner' BY <2>3, <2>8 DEF WireInv, OneOwner, WireTypes
  <2>11. HeardIsOwn'
    <3>1. /\ \A s \in 1..MaxSession : s > v14 => v13[s] = {}
          /\ \A s \in 1..MaxSession : \A r, u \in v13[s] : v4[r] # None /\ v4[r] = v4[u]
          /\ \A c \in Conv, i \in 1..MaxServer : Holds(c, i) /\ v12[i] # 0 =>
               \A r \in v13[v12[i]] : v4[r] = c
      BY DEF WireInv, HeardIsOwn
    <3>2. \A s \in 1..MaxSession : \A r, u \in v13[s] : v4'[r] # None /\ v4'[r] = v4'[u]
      BY <2>9, <3>1
    <3>3. ASSUME NEW c \in Conv, NEW i \in 1..MaxServer, Holds(c, i)', v12[i] # 0,
                 NEW r \in v13[v12[i]]
          PROVE  v4'[r] = c
      <4>1. i \in Nat /\ i # 0 /\ v12[i] \in 1..MaxSession BY <2>0, <3>3, WireConstants
      <4> QED BY <2>8, <2>9, <3>1, <3>3, <4>1
    <3> QED BY <2>3, <3>1, <3>2, <3>3 DEF HeardIsOwn
  <2>12. WireTypes' BY <2>3, <2>4, <2>7 DEF WireInv, WireTypes
  <2>13. OneAtATime' BY <1>1, <2>0, <2>3, <2>6, <2>7 DEF OneAtATime
  <2>14. StandsInPlace'
    <3>1. \A n \in v3 : n.of \in Question /\ n.of # q
      BY <2>0, <2>3, WireConstants DEF WireInv, StandsInPlace
    <3> QED BY <1>1, <2>3, <2>4, <2>7, <3>1 DEF WireInv, StandsInPlace
  <2> QED BY <2>10, <2>11, <2>12, <2>13, <2>14 DEF WireInv
<1>2. CASE Wi!Fetched
  <2>1. /\ v9 # None /\ v9' = [v9 EXCEPT !.stage = "fetched", !.conv = v5, !.held = v1[v5]]
        /\ UNCHANGED <<v1, v2, v3, v4, v5, v6, v8, v10, v11, v12, v13, v14>>
    BY <1>2 DEF Wi!Fetched, Wi!page, Wi!server
  <2>2. v9 \in WireSend /\ v5 \in Conv /\ v1[v5] \in WireRecord BY <2>1, Sending
  <2>3. v9' \in WireSend /\ v9'.of = v9.of /\ v9'.conv = v5 /\ v9'.stage = "fetched"
        /\ v9'.held = v1[v5]
    BY <2>1, <2>2 DEF WireSend
  <2>4. Holds(v5, v9'.held.server) BY <2>3 DEF Holds
  <2> QED BY <2>1, <2>3, <2>4, SendingKeeps
<1> QED BY <1>1, <1>2

LEMMA PostedKeeps ==
  ASSUME WireInv, Wi!Posted
  PROVE  WireInv'
<1>0. /\ v9 # None /\ v5 \in Conv /\ v8 = {} /\ v10 = None /\ v9 \in WireSend /\ v9.conv = v5
      /\ v4[v9.of] = v5 /\ v1 \in [Conv -> WireRecord] /\ v6 \in Nat /\ v11 \in 0..MaxServer
      /\ MaxServer \in Nat /\ Holds(v5, v9.held.server)
  BY Sending, WireConstants DEF Wi!Posted
<1>1. UNCHANGED <<v2, v3, v4, v5, v8, v10, v12, v13, v14>> BY DEF Wi!Posted
<1>2. CASE v6 # 0 /\ v9' = [v9 EXCEPT !.stage = "posted", !.to = v6] /\ UNCHANGED <<v1, v6, v11>>
  <2>1. v9' \in WireSend /\ v9'.of = v9.of /\ v9'.conv = v5 /\ v9'.to = v6
        /\ v9'.held = v9.held
    BY <1>0, <1>2 DEF WireSend
  <2> QED BY <1>0, <1>1, <1>2, <2>1, SendingKeeps
<1>3. ASSUME NEW h, h = [v9.held EXCEPT !.server = v11'], v6 = 0, Wi!Created, v6' = v11',
             v1' = Wi!Stored(v9.conv, h),
             v9' = [v9 EXCEPT !.stage = "posted", !.to = v11', !.held = h]
      PROVE  WireInv'
  <2>1. v11 < MaxServer /\ v11' = v11 + 1 /\ v11' \in Nat /\ v11' # 0 /\ v11' \in 0..MaxServer
    BY <1>0, <1>3 DEF Wi!Created
  <2>2. v9.held \in WireRecord BY <1>0 DEF WireSend
  <2>3. h \in WireRecord /\ h.server = v11 + 1 BY <1>3, <2>1, <2>2 DEF WireRecord
  <2>4. /\ v1' \in [Conv -> WireRecord]
        /\ \A d \in Conv : v1'[d] = v1[d] \/ (d = v5 /\ v1'[d] = h)
    BY <1>0, <1>3, <2>3 DEF Wi!Stored
  <2>5. v9' \in WireSend /\ v9'.of = v9.of /\ v9'.conv = v5 /\ v9'.to = v11' /\ v9'.held = h
    BY <1>0, <1>3, <2>1, <2>3 DEF WireSend
  <2>6. \A d \in Conv, i \in Nat :
           i # 0 /\ Holds(d, i)' => Holds(d, i) \/ (d = v5 /\ i = v11 + 1)
    BY <1>0, <1>1, <1>3, <2>1, <2>3, <2>4, <2>5 DEF Holds
  <2>7. OneOwner' /\ HeardIsOwn' BY <1>0, <1>1, <2>1, <2>6, HeldAnew
  <2>8. WireTypes' BY <1>1, <1>3, <2>1, <2>4 DEF WireInv, WireTypes
  <2>9. OneAtATime' BY <1>0, <1>1, <1>3, <2>1, <2>5 DEF OneAtATime
  <2>10. StandsInPlace' BY <1>1 DEF WireInv, StandsInPlace
  <2> QED BY <2>7, <2>8, <2>9, <2>10 DEF WireInv
<1> QED BY <1>2, <1>3 DEF Wi!Posted

\* The question goes to the session of the conversation, or to one nobody talked in.
LEMMA AnswerKeeps ==
  ASSUME WireInv, Wi!Answer
  PROVE  WireInv'
<1>0. /\ v9 # None /\ v5 \in Conv /\ v8 = {} /\ v10 = None /\ v9 \in WireSend /\ v9.conv = v5
      /\ v4[v9.of] = v5 /\ v6 # 0 /\ v9.to = v6 /\ v6 \in Nat /\ Holds(v5, v6)
      /\ v9.stage = "posted"
  BY Sending DEF Wi!Answer
<1>1. /\ v11 \in 0..MaxServer /\ MaxServer \in Nat /\ MaxSession \in Nat /\ v14 \in Nat
      /\ v12 \in [1..MaxServer -> 0..MaxSession] /\ v13 \in [1..MaxSession -> SUBSET Question]
      /\ v4 \in [Question -> Conv \cup {None}] /\ None \notin Conv
  BY WireConstants DEF WireInv, WireTypes
<1>2. /\ \A c \in Conv, i \in Nat : Holds(c, i) => i <= v11
      /\ \A c, d \in Conv, i \in Nat : i # 0 /\ Holds(c, i) /\ Holds(d, i) => c = d
      /\ \A i \in 1..MaxServer : v12[i] <= v14 /\ (i > v11 => v12[i] = 0)
      /\ \A i, j \in 1..MaxServer : v12[i] = v12[j] /\ v12[i] # 0 => i = j
  BY DEF WireInv, OneOwner
<1>3. /\ \A s \in 1..MaxSession : s > v14 => v13[s] = {}
      /\ \A s \in 1..MaxSession : \A q, r \in v13[s] : v4[q] # None /\ v4[q] = v4[r]
      /\ \A c \in Conv, i \in 1..MaxServer : Holds(c, i) /\ v12[i] # 0 =>
           \A q \in v13[v12[i]] : v4[q] = c
  BY DEF WireInv, HeardIsOwn
<1>4. v6 <= v11 /\ v6 \in 1..MaxServer BY <1>0, <1>1, <1>2
<1>5. PICK s : s = IF v12[v6] # 0 THEN v12[v6] ELSE v14 + 1 OBVIOUS
<1>6. /\ s <= MaxSession /\ v14' = IF s > v14 THEN s ELSE v14
      /\ v12' = [v12 EXCEPT ![v6] = s] /\ v13' = [v13 EXCEPT ![s] = @ \cup {v9.of}]
      /\ v9' = [v9 EXCEPT !.stage = "answered", !.held.session = s]
      /\ UNCHANGED <<v1, v2, v3, v4, v5, v6, v8, v10, v11>>
  BY <1>0, <1>5 DEF Wi!Answer, Wi!Session, Wi!page
<1>7. s \in 1..MaxSession BY <1>1, <1>4, <1>5, <1>6
<1>8. /\ v12' \in [1..MaxServer -> 0..MaxSession]
      /\ \A i \in 1..MaxServer : v12'[i] = IF i = v6 THEN s ELSE v12[i]
  <2>1. v12' = [v12 EXCEPT ![v6] = s] BY <1>6
  <2>2. v12 \in [1..MaxServer -> 0..MaxSession] /\ s \in 0..MaxSession BY <1>1, <1>7
  <2> QED BY <2>1, <2>2
<1>9. v9.of \in Question BY <1>0 DEF WireSend
<1>10. /\ v13' \in [1..MaxSession -> SUBSET Question]
       /\ \A u \in 1..MaxSession : v13'[u] = IF u = s THEN v13[u] \cup {v9.of} ELSE v13[u]
  BY <1>1, <1>6, <1>7, <1>9
<1>11. v9.held \in WireRecord BY <1>0 DEF WireSend
<1>12. PICK h : h = [v9.held EXCEPT !.session = s] OBVIOUS
<1>13. h \in WireRecord /\ h.server = v9.held.server BY <1>7, <1>11, <1>12 DEF WireRecord
<1>14. v9' \in WireSend /\ v9'.of = v9.of /\ v9'.conv = v5 /\ v9'.to = v6 /\ v9'.held = h
  BY <1>0, <1>6, <1>12, <1>13 DEF WireSend
<1>15. \A d \in Conv, i \in Nat : Holds(d, i)' => Holds(d, i)
  BY <1>0, <1>6, <1>13, <1>14 DEF Holds
<1>16. v14' \in Nat /\ v14 <= v14' /\ s <= v14' BY <1>1, <1>6, <1>7
<1>17. \A i \in 1..MaxServer : i # v6 => v12[i] # s
  BY <1>1, <1>2, <1>4, <1>5, <1>7
<1>18. \A q \in v13[s] : v4[q] = v5 BY <1>0, <1>1, <1>2, <1>3, <1>4, <1>5, <1>7
<1>19. OneOwner'
  <2>1. \A i \in 1..MaxServer : v12'[i] <= v14' /\ (i > v11' => v12'[i] = 0)
    <3> SUFFICES ASSUME NEW i \in 1..MaxServer
                 PROVE  v12'[i] <= v14' /\ (i > v11' => v12'[i] = 0)
      OBVIOUS
    <3>1. v12[i] \in Nat /\ v12[i] <= v14 /\ (i > v11 => v12[i] = 0) BY <1>1, <1>2
    <3> QED BY <1>1, <1>4, <1>6, <1>8, <1>16, <3>1
  <2>2. \A i, j \in 1..MaxServer : v12'[i] = v12'[j] /\ v12'[i] # 0 => i = j
    BY <1>2, <1>8, <1>17
  <2>3. \A c \in Conv, i \in Nat : Holds(c, i)' => i <= v11' BY <1>2, <1>6, <1>15
  <2>4. \A c, d \in Conv, i \in Nat : i # 0 /\ Holds(c, i)' /\ Holds(d, i)' => c = d
    BY <1>2, <1>15
  <2> QED BY <2>1, <2>2, <2>3, <2>4 DEF OneOwner
<1>20. HeardIsOwn'
  <2>1. ASSUME NEW u \in 1..MaxSession, u > v14' PROVE v13'[u] = {}
    BY <1>1, <1>3, <1>7, <1>10, <1>16, <2>1
  <2>2. ASSUME NEW u \in 1..MaxSession, NEW q \in v13'[u], NEW r \in v13'[u]
        PROVE  v4[q] # None /\ v4[q] = v4[r]
    <3>1. CASE u = s
      <4>1. \A p \in v13'[u] : v4[p] = v5 BY <1>0, <1>10, <1>18, <3>1
      <4> QED BY <1>0, <1>1, <2>2, <4>1
    <3>2. CASE u # s BY <1>3, <1>10, <2>2, <3>2
    <3> QED BY <3>1, <3>2
  <2>3. ASSUME NEW c \in Conv, NEW i \in 1..MaxServer, Holds(c, i)', v12'[i] # 0,
               NEW q \in v13'[v12'[i]]
        PROVE  v4[q] = c
    <3>1. Holds(c, i) /\ i \in Nat /\ i # 0 BY <1>15, <2>3
    <3>2. CASE i = v6
      <4>1. c = v5 BY <1>0, <1>2, <3>1, <3>2
      <4>2. q \in v13[s] \cup {v9.of} BY <1>7, <1>8, <1>10, <2>3, <3>2
      <4> QED BY <1>0, <1>18, <4>1, <4>2
    <3>3. CASE i # v6
      <4>1. v12'[i] = v12[i] /\ v12[i] # s /\ v12[i] \in 1..MaxSession
        BY <1>1, <1>8, <1>17, <2>3, <3>3
      <4>2. q \in v13[v12[i]] BY <1>10, <2>3, <4>1
      <4> QED BY <1>3, <2>3, <3>1, <4>1, <4>2
    <3> QED BY <3>2, <3>3
  <2> QED BY <1>6, <2>1, <2>2, <2>3 DEF HeardIsOwn
<1>21. WireTypes' BY <1>6, <1>8, <1>10, <1>16 DEF WireInv, WireTypes
<1>22. OneAtATime' BY <1>0, <1>6, <1>14 DEF OneAtATime
<1>23. StandsInPlace' BY <1>6 DEF WireInv, StandsInPlace
<1> QED BY <1>19, <1>20, <1>21, <1>22, <1>23 DEF WireInv

LEMMA SaidHere ==
  ASSUME NEW a \in Conv, NEW q \in Question, v4[q] = a, WireInv, v4' = v4,
         v3' = v3 \cup {Wi!Message(a, "ai", q)}
  PROVE  StandsInPlace' /\ v3' \subseteq [cid : Conv, role : {"user", "ai"}, of : Question]
<1>1. PICK m : m = Wi!Message(a, "ai", q) OBVIOUS
<1>2. m.of = q /\ m.cid = a /\ m \in [cid : Conv, role : {"user", "ai"}, of : Question]
  BY <1>1 DEF Wi!Message
<1>3. v3' = v3 \cup {m} BY <1>1
<1> QED BY <1>2, <1>3 DEF WireInv, WireTypes, StandsInPlace

LEMMA EndSteps ==
  ASSUME WireInv, Wi!Show \/ Wi!Fail
  PROVE  WireInv'
<1>0. /\ v9 # None /\ v5 \in Conv /\ v8 = {} /\ v10 = None /\ v9 \in WireSend /\ v9.conv = v5
      /\ v4[v9.of] = v5 /\ v1 \in [Conv -> WireRecord] /\ Holds(v5, v9.held.server)
  BY Sending DEF Wi!Show, Wi!Fail
<1>1. /\ v3' = v3 \cup {Wi!Message(v5, "ai", v9.of)} /\ v9' = None
      /\ UNCHANGED <<v2, v4, v5, v6, v8, v10, v11, v12, v13, v14>>
  BY DEF Wi!Show, Wi!Fail, Wi!page, Wi!server
<1>2. v9.of \in Question /\ v9.held \in WireRecord BY <1>0 DEF WireSend
<1>3. /\ v1' \in [Conv -> WireRecord]
      /\ \A d \in Conv : v1'[d] = v1[d] \/ (d = v5 /\ v1'[d] = v9.held)
  <2>1. v1' = v1 \/ v1' = Wi!Stored(v9.conv, v9.held) BY DEF Wi!Show, Wi!Fail
  <2> QED BY <1>0, <1>2, <2>1 DEF Wi!Stored
<1>4. \A d \in Conv, i \in Nat : i # 0 /\ Holds(d, i)' => Holds(d, i)
  BY <1>0, <1>1, <1>3 DEF Holds
<1>5. OneOwner' /\ HeardIsOwn' BY <1>1, <1>4, HeldAsBefore
<1>6. StandsInPlace' /\ v3' \subseteq [cid : Conv, role : {"user", "ai"}, of : Question]
  BY <1>0, <1>1, <1>2, SaidHere
<1>7. WireTypes' BY <1>1, <1>3, <1>6 DEF WireInv, WireTypes
<1>8. OneAtATime' BY <1>0, <1>1 DEF OneAtATime
<1> QED BY <1>5, <1>6, <1>7, <1>8 DEF WireInv

LEMMA ButtonSteps ==
  ASSUME WireInv, (\E q \in Question : Wi!Press(q)) \/ Wi!Called
  PROVE  WireInv'
<1>1. UNCHANGED <<v1, v2, v4, v5, v6, v8, v9, v11, v12, v13, v14>>
  BY DEF Wi!Press, Wi!Called, Wi!page, Wi!server
<1>2. \A d \in Conv, i \in Nat : i # 0 /\ Holds(d, i)' => Holds(d, i) BY <1>1 DEF Holds
<1>3. OneOwner' /\ HeardIsOwn' BY <1>1, <1>2, HeldAsBefore
<1>4. ASSUME NEW q \in Question, Wi!Press(q) PROVE WireInv'
  <2>1. /\ v8 = {} /\ v9 = None /\ Wi!Message(v5, "ai", q) \in v3 /\ v4[q] = v5
        /\ v10' = q /\ v3' = v3
    BY <1>4 DEF Wi!Press, Wi!Idle
  <2>2. v5 \in Conv BY <2>1 DEF Wi!Message, WireInv, WireTypes
  <2>3. WireTypes' /\ StandsInPlace'
    BY <1>1, <2>1 DEF WireInv, WireTypes, StandsInPlace
  <2>4. OneAtATime' BY <1>1, <1>4, <2>1, <2>2 DEF OneAtATime
  <2> QED BY <1>3, <2>3, <2>4 DEF WireInv
<1>5. CASE Wi!Called
  <2>1. v10 # None /\ v10' = None /\ v3' = v3 \cup {Wi!Message(v5, "ai", v10)}
    BY <1>5 DEF Wi!Called
  <2>2. v5 \in Conv /\ v10 \in Question /\ v4[v10] = v5 /\ v9 = None /\ v8 = {}
    BY <2>1 DEF WireInv, OneAtATime
  <2>3. StandsInPlace' /\ v3' \subseteq [cid : Conv, role : {"user", "ai"}, of : Question]
    BY <1>1, <2>1, <2>2, SaidHere
  <2>4. WireTypes' BY <1>1, <2>3 DEF WireInv, WireTypes
  <2>5. OneAtATime' BY <1>1, <2>1, <2>2 DEF OneAtATime
  <2> QED BY <1>3, <2>3, <2>4, <2>5 DEF WireInv
<1> QED BY <1>4, <1>5

\* Sessions are forgotten.
LEMMA ForgetSteps ==
  ASSUME WireInv, Wi!Reset \/ Wi!Restart
  PROVE  WireInv'
<1>0. v12 \in [1..MaxServer -> 0..MaxSession] /\ v14 \in Nat /\ v11 \in 0..MaxServer
      /\ MaxServer \in Nat /\ MaxSession \in Nat
  BY WireConstants DEF WireInv, WireTypes
<1>1. UNCHANGED <<v1, v2, v3, v4, v5, v6, v8, v9, v10, v11, v13, v14>>
  BY DEF Wi!Reset, Wi!Restart, Wi!page, Wi!server
<1>2. /\ v12' \in [1..MaxServer -> 0..MaxSession]
      /\ \A i \in 1..MaxServer : v12'[i] \in {0, v12[i]}
  <2>1. v12' = [i \in DOMAIN v12 |-> 0] \/ v12' = [v12 EXCEPT ![v6] = 0]
    BY DEF Wi!Reset, Wi!Restart
  <2>2. CASE v12' = [i \in DOMAIN v12 |-> 0] BY <1>0, <2>2
  <2>3. CASE v12' = [v12 EXCEPT ![v6] = 0]
    <3>1. \A i \in 1..MaxServer : v12'[i] = IF i = v6 THEN 0 ELSE v12[i] BY <1>0, <2>3
    <3>2. 0 \in 0..MaxSession BY <1>0
    <3>3. v12' \in [1..MaxServer -> 0..MaxSession] BY <1>0, <2>3, <3>2
    <3> QED BY <3>1, <3>3
  <2> QED BY <2>1, <2>2, <2>3
<1>3. \A d \in Conv, i \in Nat : Holds(d, i)' = Holds(d, i) BY <1>1 DEF Holds
<1>4. OneOwner' BY <1>0, <1>1, <1>2, <1>3 DEF WireInv, OneOwner
<1>5. HeardIsOwn' BY <1>0, <1>1, <1>2, <1>3 DEF WireInv, HeardIsOwn
<1>6. WireTypes' BY <1>1, <1>2 DEF WireInv, WireTypes
<1>7. OneAtATime' BY <1>1 DEF WireInv, OneAtATime
<1>8. StandsInPlace' BY <1>1 DEF WireInv, StandsInPlace
<1> QED BY <1>4, <1>5, <1>6, <1>7, <1>8 DEF WireInv

LEMMA WireStep == WireInv /\ [Wi!Next]_(Wi!vars) => WireInv'
<1> SUFFICES ASSUME WireInv, [Wi!Next]_(Wi!vars) PROVE WireInv' OBVIOUS
<1>1. CASE UNCHANGED Wi!vars
  <2>1. UNCHANGED <<v1, v2, v3, v4, v5, v6, v8, v9, v10, v11, v12, v13, v14>>
    BY <1>1 DEF Wi!vars, Wi!page, Wi!server
  <2>2. \A d \in Conv, i \in Nat : i # 0 /\ Holds(d, i)' => Holds(d, i) BY <2>1 DEF Holds
  <2>3. OneOwner' /\ HeardIsOwn' BY <2>1, <2>2, HeldAsBefore
  <2>4. WireTypes' /\ OneAtATime' /\ StandsInPlace'
    BY <2>1 DEF WireInv, WireTypes, OneAtATime, StandsInPlace
  <2> QED BY <2>3, <2>4 DEF WireInv
<1>2. CASE Wi!Next
  BY <1>2, PageSteps, OpeningSteps, SendSteps, PostedKeeps, AnswerKeeps, EndSteps, ButtonSteps,
     ForgetSteps DEF Wi!Next, Wi!Question, Question
<1> QED BY <1>1, <1>2

LEMMA WireFacts == WireInv => Wi!Private
<1> SUFFICES ASSUME WireInv PROVE Wi!Private OBVIOUS
<1>1. v13 \in [1..MaxSession -> SUBSET Question] BY DEF WireInv, WireTypes
<1>2. ASSUME NEW s \in DOMAIN v13 PROVE Wi!Cardinality({v4[q] : q \in v13[s]}) <= 1
  <2>1. \A q, r \in v13[s] : v4[q] = v4[r] BY <1>1 DEF WireInv, HeardIsOwn
  <2>2. PICK S : S = {v4[q] : q \in v13[s]} OBVIOUS
  <2>3. S = {} \/ \E x : S = {x}
    <3>1. CASE v13[s] = {} BY <2>2, <3>1
    <3>2. ASSUME NEW q \in v13[s] PROVE S = {v4[q]} BY <2>1, <2>2
    <3> QED BY <3>1, <3>2
  <2>4. Cardinality(S) <= 1
    <3>1. CASE S = {}
      <4>1. Cardinality(S) = 0 BY <3>1, FS_EmptySet
      <4> QED BY <4>1
    <3>2. ASSUME NEW x, S = {x} PROVE Cardinality(S) <= 1
      <4>1. Cardinality(S) = 1 BY <3>2, FS_Singleton
      <4> QED BY <4>1
    <3> QED BY <2>3, <3>1, <3>2
  <2>5. Wi!Cardinality(S) = Cardinality(S) BY DEF Wi!Cardinality, Cardinality
  <2> QED BY <2>2, <2>4, <2>5
<1>3. \A m \in v3 : v4[m.of] = m.cid BY DEF WireInv, StandsInPlace
<1> QED BY <1>2, <1>3 DEF Wi!Private

-----------------------------------------------------------------------------
(* The desktop of the agents: grid is v4, got v5 and zoomed v6.            *)

\* The labelled grid an agent has before its eyes is the one that is remembered.
LensPath == {path \in Seq(Cell \cup {Given}) : Len(path) <= MaxDepth}
LensPicture == [of : Window \cup {Desktop}, path : LensPath, grid : BOOLEAN]
LensInv ==
  /\ v5 \in [Agent -> {None} \cup LensPicture] /\ v4 \in {None} \cup LensPath
  /\ \A a \in Agent : v5[a] # None /\ v5[a].grid => v4 = v5[a].path
  /\ Le!ZoomShowsTheCell

LEMMA NoneIsNoPath == None \notin LensPath
<1>1. MaxDepth \in Nat /\ None \notin Le!BoundedSeq(Cell \cup {Given}, MaxDepth)
  BY MCAgentsAssumption DEF Le!LensAssumption
<1>2. ASSUME NEW path \in LensPath PROVE path \in Le!BoundedSeq(Cell \cup {Given}, MaxDepth)
  <2>1. PICK n \in Nat : n = Len(path) /\ path \in [1..n -> Cell \cup {Given}] BY DEF LensPath
  <2>2. n \in 0..MaxDepth BY <1>1, <2>1 DEF LensPath
  <2> QED BY <2>1, <2>2 DEF Le!BoundedSeq, Le!SeqOf
<1> QED BY <1>1, <1>2

LEMMA InitLens == Le!Init => LensInv
BY DEF Le!Init, LensInv, Le!ZoomShowsTheCell

\* Of two regions that agents may ask for, the empty one and one spelled out.
LEMMA LensStep ==
  ASSUME \A a, b \in Agent : a = b, LensInv, [Le!Next]_(Le!vars)
  PROVE  LensInv'
<1>0. /\ v5 \in [Agent -> {None} \cup LensPicture] /\ v4 \in {None} \cup LensPath
      /\ \A a \in Agent : v5[a] # None /\ v5[a].grid => v4 = v5[a].path
      /\ Le!ZoomShowsTheCell
  BY DEF LensInv
<1>d. MaxDepth \in Nat BY MCAgentsAssumption DEF Le!LensAssumption
<1>1. CASE UNCHANGED <<v4, v5, v6>> BY <1>0, <1>1 DEF LensInv, Le!ZoomShowsTheCell
<1>2. ASSUME NEW a \in Agent, NEW t \in Window \cup {Desktop}, Le!CmdScreenshot(a, t)
      PROVE  LensInv'
  <2>1. UNCHANGED <<v4, v6>> /\ v5' = [v5 EXCEPT ![a] = [of |-> t, path |-> <<>>, grid |-> FALSE]]
    BY <1>2 DEF Le!CmdScreenshot
  <2>2. [of |-> t, path |-> <<>>, grid |-> FALSE] \in LensPicture
    BY <1>d DEF LensPath, LensPicture
  <2>3. /\ v5' \in [Agent -> {None} \cup LensPicture]
        /\ \A b \in Agent : v5'[b] # None /\ v5'[b].grid => v4' = v5'[b].path
    BY <1>0, <2>1, <2>2
  <2> QED BY <1>0, <2>1, <2>3 DEF LensInv, Le!ZoomShowsTheCell
<1>3. ASSUME NEW a \in Agent, NEW t \in Window \cup {Desktop}, NEW p \in Cell \cup {None},
             NEW r \in {<<>>, <<Given>>}, NEW g \in BOOLEAN, Le!Screenshot(a, t, p, r, g)
      PROVE  LensInv'
  <2>1. PICK path : path = Le!Region(p, r) OBVIOUS
  <2> DEFINE pic == [of |-> t, path |-> path, grid |-> g]
             zoom == [from |-> v5[a], of |-> t, cell |-> p, path |-> path]
  <2>2. /\ v4' = IF g THEN path ELSE None
        /\ v5' = [v5 EXCEPT ![a] = pic]
        /\ v6' = IF p = None \/ v5[a] = None THEN v6 ELSE zoom
    BY <1>3, <2>1 DEF Le!Screenshot, Le!Kept
  <2>3. path \in LensPath
    <3> DEFINE Path == Seq(Cell \cup {Given})
    <3>1. <<>> \in Path /\ Given \in Cell \cup {Given} OBVIOUS
    <3>2. <<Given>> \in Path BY <3>1
    <3>3. path \in Path
      <4>1. CASE p = None BY <2>1, <3>1, <3>2, <4>1 DEF Le!Region
      <4>2. CASE p # None
        <5>1. p \in Cell \cup {Given} BY <4>2
        <5>2. (IF v4 = None THEN <<>> ELSE v4) \in Path BY <1>0, <3>1 DEF LensPath
        <5>3. path = Append(IF v4 = None THEN <<>> ELSE v4, p) BY <2>1, <4>2 DEF Le!Region
        <5> QED BY <5>1, <5>2, <5>3, AppendProperties
      <4> QED BY <4>1, <4>2
    <3>4. Len(path) <= MaxDepth BY <1>3, <2>1 DEF Le!Screenshot
    <3> QED BY <3>3, <3>4 DEF LensPath
  <2>4. pic \in LensPicture BY <2>3 DEF LensPicture
  <2>5. /\ v5' \in [Agent -> {None} \cup LensPicture] /\ v4' \in {None} \cup LensPath
        /\ v5'[a] = pic
    BY <1>0, <2>2, <2>3, <2>4
  <2>6. \A b \in Agent : v5'[b] # None /\ v5'[b].grid => v4' = v5'[b].path
    BY <2>2, <2>5
  <2>7. Le!ZoomShowsTheCell'
    <3>1. CASE v6' = v6 BY <1>0, <3>1 DEF Le!ZoomShowsTheCell
    <3>2. CASE p # None /\ v5[a] # None /\ v6' = zoom
      <4>1. SUFFICES ASSUME v5[a].grid PROVE path = Append(v5[a].path, p)
        BY <3>2 DEF Le!ZoomShowsTheCell
      <4>2. v4 = v5[a].path /\ v5[a].path \in LensPath BY <1>0, <3>2, <4>1 DEF LensPicture
      <4>3. v4 # None BY <4>2, NoneIsNoPath
      <4> QED BY <2>1, <3>2, <4>2, <4>3 DEF Le!Region
    <3> QED BY <2>2, <3>1, <3>2
  <2> QED BY <2>5, <2>6, <2>7 DEF LensInv
<1>4. CASE UNCHANGED Le!vars BY <1>1, <1>4 DEF Le!vars
<1>5. CASE \/ \E w \in Window : Le!Opens(w) \/ Le!Closes(w) \/ Le!ShootWindow(w)
           \/ Le!UserActs \/ Le!TypesOn \/ Le!PressKey \/ Le!ShootDesktop \/ Le!ShowPreview
           \/ \E t \in Window \cup {Desktop} : Le!Click(t)
           \/ \E n \in 1..MaxKeys : Le!TypeText(n)
  <2>1. UNCHANGED <<v4, v5, v6>>
    BY <1>5 DEF Le!Opens, Le!Closes, Le!ShootWindow, Le!UserActs, Le!TypesOn, Le!PressKey,
                Le!ShootDesktop, Le!ShowPreview, Le!Click, Le!TypeText
  <2> QED BY <1>1, <2>1
<1> QED BY <1>2, <1>3, <1>4, <1>5 DEF Le!Next

-----------------------------------------------------------------------------
(* Whoever asks                                                            *)

OwnInv ==
  /\ Is("sse")    => SseInv
  /\ Is("bridge") => BridgeInv
  /\ Is("wire")   => WireInv
  /\ Is("lens")   => LensInv

LEMMA AskersOnly ==
  /\ /\ Init /\ Is("sse") => Ss!Init
     /\ [Next]_all /\ Is("sse") => [Ss!Next]_(Ss!vars)
  /\ /\ Init /\ Is("bridge") => Mb!Init
     /\ [Next]_all /\ Is("bridge") => [Mb!Next]_(Mb!vars)
  /\ /\ Init /\ Is("wire") => Wi!Init
     /\ [Next]_all /\ Is("wire") => [Wi!Next]_(Wi!vars)
  /\ /\ Init /\ Is("lens") => Le!Init
     /\ [Next]_all /\ Is("lens") => [Le!Next]_(Le!vars)
<1>1. /\ Init /\ Is("sse") => Ss!Init
      /\ [Next]_all /\ Is("sse") => [Ss!Next]_(Ss!vars)
  BY DEF Init, Next, Is, Ss!vars, all
<1>2. /\ Init /\ Is("bridge") => Mb!Init
      /\ [Next]_all /\ Is("bridge") => [Mb!Next]_(Mb!vars)
  BY DEF Init, Next, Is, Mb!vars, all
<1>3. /\ Init /\ Is("wire") => Wi!Init
      /\ [Next]_all /\ Is("wire") => [Wi!Next]_(Wi!vars)
  BY DEF Init, Next, Is, Wi!vars, Wi!page, Wi!server, all
<1>4. /\ Init /\ Is("lens") => Le!Init
      /\ [Next]_all /\ Is("lens") => [Le!Next]_(Le!vars)
  BY DEF Init, Next, Is, Le!vars, all
<1> QED BY <1>1, <1>2, <1>3, <1>4

\* Whoever asks gets what was asked for, for any number of streams, tools, sessions,
\* llmings, conversations, questions, windows and grids: an answer of an MCP process
\* reaches the client that asked and offers nothing that is forbidden, a tool that was
\* listed runs under the power it was listed with, an answer stands in the conversation
\* of its question, and zoom shows the cell of the grid that was seen.  The ids of two
\* clients differ, and one agent uses the desktop, as on the runs: where two clients use
\* one id, or two agents share the lens, the code does mix them up.
THEOREM WhoeverAsksIsAnswered ==
  ASSUME \A c, d \in Client : c # d => Uses[c] \cap Uses[d] = {},
         \A a, b \in Agent : a = b
  PROVE  Spec => []OwnAnswers
<1>1. Init => OwnInv BY AskersOnly, InitSse, InitBridge, InitWire, InitLens DEF OwnInv
<1>2. OwnInv /\ [Next]_all => OwnInv'
  <2> SUFFICES ASSUME OwnInv, [Next]_all PROVE OwnInv' OBVIOUS
  <2>1. \A p : Is(p)' => Is(p) BY PartStays DEF Is
  <2>2. Is("sse")' => SseInv' BY <2>1, AskersOnly, SseStep DEF OwnInv
  <2>3. Is("bridge")' => BridgeInv' BY <2>1, AskersOnly, BridgeStep DEF OwnInv
  <2>4. Is("wire")' => WireInv' BY <2>1, AskersOnly, WireStep DEF OwnInv
  <2>5. Is("lens")' => LensInv' BY <2>1, AskersOnly, LensStep DEF OwnInv
  <2> QED BY <2>2, <2>3, <2>4, <2>5 DEF OwnInv
<1>3. OwnInv => OwnAnswers
  BY SseFacts, WireFacts DEF OwnInv, OwnAnswers, BridgeInv, LensInv
<1> QED BY <1>1, <1>2, <1>3, PTL DEF Spec

-----------------------------------------------------------------------------
(* Signals, once with pollers and once with screens: now is v1, job v3,    *)
(* rest v5, cooled v11 and fired v14.                                      *)

LEMMA SignalsOnly ==
  /\ /\ Init /\ Is("signals") => Si!Init
     /\ [Next]_all /\ Is("signals") => [Si!Next]_(Si!vars)
  /\ /\ Init /\ Is("screens") => Sc!Init
     /\ [Next]_all /\ Is("screens") => [Sc!Next]_(Sc!vars)
<1>1. /\ Init /\ Is("signals") => Si!Init
      /\ [Next]_all /\ Is("signals") => [Si!Next]_(Si!vars)
  BY DEF Init, Next, Is, Si!vars, Si!seen, Si!engine, all
<1>2. /\ Init /\ Is("screens") => Sc!Init
      /\ [Next]_all /\ Is("screens") => [Sc!Next]_(Sc!vars)
  BY DEF Init, Next, Is, Sc!vars, Sc!seen, Sc!engine, all
<1> QED BY <1>1, <1>2

\* Where the loop of an emitter can be.
Places == {"sleep", "look", "listener", "last listener", "engine", "reaction", "dead"}

\* The cooldown of a trigger counts from its reaction, among the emitters E and the
\* triggers T of either instance.
CoolsFromReaction(E, T) ==
  /\ v3 \in [E -> Places] /\ v5 \in [E -> Seq(T)]
  /\ DOMAIN v11 = T /\ DOMAIN v14 = T
  /\ \A t \in T : v14[t] = None \/ v11[t] = v14[t]

\* A step that lets no trigger react.
Quiet(E, T) ==
  /\ v11' = v11 /\ v14' = v14
  /\ v3' \in [E -> Places] /\ v5' \in [E -> Seq(T)]
  /\ \A e \in E : v3[e] = "engine" => v3'[e] # "reaction"

LEMMA QuietKeeps ==
  ASSUME NEW E, NEW T, CoolsFromReaction(E, T), Quiet(E, T)
  PROVE  CoolsFromReaction(E, T)'
BY DEF CoolsFromReaction, Quiet

\* Where an emitter's loop goes on to, and its signal meets what triggers.
LEMMA Moves ==
  ASSUME NEW E, NEW T, CoolsFromReaction(E, T), v11' = v11, v14' = v14, NEW e \in E,
         NEW at \in Places, at # "reaction", v3' = [v3 EXCEPT ![e] = at],
         NEW s \in Seq(T), v5' = v5 \/ v5' = [v5 EXCEPT ![e] = s]
  PROVE  Quiet(E, T)
BY DEF CoolsFromReaction, Quiet

\* A trigger reacts, and its cooldown is renewed at once.
LEMMA Renews ==
  ASSUME NEW E, NEW T, CoolsFromReaction(E, T), NEW e \in E, NEW t,
         v3' = [v3 EXCEPT ![e] = "reaction"], v5' \in [E -> Seq(T)],
         v11' = [v11 EXCEPT ![t] = v1], v14' = [v14 EXCEPT ![t] = v1]
  PROVE  CoolsFromReaction(E, T)'
<1>0. /\ v3 \in [E -> Places] /\ DOMAIN v11 = T /\ DOMAIN v14 = T
      /\ \A s \in T : v14[s] = None \/ v11[s] = v14[s]
  BY DEF CoolsFromReaction
<1>1. v3' \in [E -> Places]
  <2>1. "reaction" \in Places BY DEF Places
  <2> QED BY <1>0, <2>1
<1>2. DOMAIN v11' = T /\ DOMAIN v14' = T BY <1>0
<1>3. ASSUME NEW s \in T PROVE v14'[s] = None \/ v11'[s] = v14'[s]
  <2>1. /\ v11'[s] = IF s = t THEN v1 ELSE v11[s]
        /\ v14'[s] = IF s = t THEN v1 ELSE v14[s]
    BY <1>0
  <2> QED BY <1>0, <2>1
<1> QED BY <1>1, <1>2, <1>3 DEF CoolsFromReaction

LEMMA StartsCool ==
  ASSUME NEW E, NEW T, v3 = [e \in E |-> "sleep"], v5 = [e \in E |-> << >>],
         v11 = [t \in T |-> 0], v14 = [t \in T |-> None]
  PROVE  CoolsFromReaction(E, T)
<1>1. << >> \in Seq(T) OBVIOUS
<1>2. v5 \in [E -> Seq(T)] BY <1>1
<1>3. v3 \in [E -> Places]
  <2>1. "sleep" \in Places BY DEF Places
  <2> QED BY <2>1
<1>4. DOMAIN v11 = T /\ DOMAIN v14 = T /\ \A t \in T : v14[t] = None OBVIOUS
<1> QED BY <1>2, <1>3, <1>4 DEF CoolsFromReaction

LEMMA SignalsInit ==
  /\ Si!Init => CoolsFromReaction(Si!Emitter, Si!Triggers)
  /\ Sc!Init => CoolsFromReaction(Sc!Emitter, Sc!Triggers)
<1>1. Si!Init => CoolsFromReaction(Si!Emitter, Si!Triggers) BY StartsCool DEF Si!Init
<1>2. Sc!Init => CoolsFromReaction(Sc!Emitter, Sc!Triggers) BY StartsCool DEF Sc!Init
<1> QED BY <1>1, <1>2

\* A trigger reacts when its cooldown is over, and that is renewed at once.
LEMMA SignalsReacts ==
  ASSUME CoolsFromReaction(Si!Emitter, Si!Triggers), NEW e \in Si!Emitter, Si!Evaluates(e)
  PROVE  CoolsFromReaction(Si!Emitter, Si!Triggers)' /\ Si!CooldownKept
<1>0. /\ v3 \in [Si!Emitter -> Places] /\ v5 \in [Si!Emitter -> Seq(Si!Triggers)]
      /\ DOMAIN v11 = Si!Triggers /\ DOMAIN v14 = Si!Triggers
      /\ \A t \in Si!Triggers : v14[t] = None \/ v11[t] = v14[t]
  BY DEF CoolsFromReaction
<1>1. PICK t : t = Head(v5[e]) OBVIOUS
<1>2. v5[e] # << >> /\ v3[e] = "engine" /\ v5' = [v5 EXCEPT ![e] = Tail(@)] /\ v1' = v1
  BY DEF Si!Evaluates
<1>3. t \in Si!Triggers /\ Tail(v5[e]) \in Seq(Si!Triggers) BY <1>0, <1>1, <1>2
<1>4. v5' \in [Si!Emitter -> Seq(Si!Triggers)] BY <1>0, <1>2, <1>3
<1>5. CASE UNCHANGED <<v3, v11, v14>>
  BY <1>0, <1>4, <1>5 DEF CoolsFromReaction, Si!CooldownKept
<1>6. CASE /\ v1 - v11[t] >= Cooldown[t] /\ v11' = [v11 EXCEPT ![t] = v1]
           /\ v14' = [v14 EXCEPT ![t] = v1] /\ v3' = [v3 EXCEPT ![e] = "reaction"]
  <2>1. CoolsFromReaction(Si!Emitter, Si!Triggers)'
    BY <1>4, <1>6, Renews
  <2>2. ASSUME NEW d \in Si!Emitter, v3[d] = "engine", v3'[d] = "reaction"
        PROVE  v14[Head(v5[d])] = None \/ v1 - v14[Head(v5[d])] >= Cooldown[Head(v5[d])]
    <3>1. d = e BY <1>0, <1>6, <2>2
    <3> QED BY <1>0, <1>1, <1>3, <1>6, <3>1
  <2> QED BY <2>1, <2>2 DEF Si!CooldownKept
<1> QED
  BY <1>1, <1>5, <1>6 DEF Si!Evaluates, Si!Ready, Si!Cooled, Si!engine

LEMMA SignalsStep ==
  ASSUME CoolsFromReaction(Si!Emitter, Si!Triggers), [Si!Next]_(Si!vars)
  PROVE  CoolsFromReaction(Si!Emitter, Si!Triggers)' /\ Si!CooldownKept
<1>0. Trigger \in Seq(Si!Triggers) /\ << >> \in Seq(Si!Triggers)
  BY MCAgentsAssumption DEF Si!SignalsAssumption
<1>1. Quiet(Si!Emitter, Si!Triggers)
        => CoolsFromReaction(Si!Emitter, Si!Triggers)' /\ Si!CooldownKept
  BY QuietKeeps DEF Quiet, Si!CooldownKept
<1>2. UNCHANGED <<v3, v5, v11, v14>> => Quiet(Si!Emitter, Si!Triggers)
  BY DEF Quiet, CoolsFromReaction
<1>3. CASE UNCHANGED Si!vars BY <1>1, <1>2, <1>3 DEF Si!vars, Si!seen, Si!engine
<1>4. ASSUME NEW e \in Si!Emitter, Si!Changes(e)
      PROVE  Quiet(Si!Emitter, Si!Triggers)
  BY <1>2, <1>4 DEF Si!Changes, Si!engine
<1>5. Si!StopEngine \/ Si!Tick => Quiet(Si!Emitter, Si!Triggers)
  BY <1>2 DEF Si!StopEngine, Si!Tick, Si!engine, Si!seen
<1>6. ASSUME NEW e \in Si!Emitter,
             \/ Si!Rings(e) \/ Si!Looks(e) \/ Si!LookFails(e) \/ Si!Compares(e)
             \/ Si!ScreenCompares(e) \/ Si!Heard(e) \/ Si!Reacted(e) \/ Si!Done(e)
             \/ Si!StopWatcher(e)
      PROVE  Quiet(Si!Emitter, Si!Triggers)
  <2>1. \E at \in {"listener", "last listener", "look", "sleep", "dead", "engine"} :
           v3' = [v3 EXCEPT ![e] = at]
    BY <1>6 DEF Si!Rings, Si!Looks, Si!LookFails, Si!Compares, Si!ScreenCompares, Si!Heard,
                Si!Reacted, Si!Done, Si!StopWatcher, Si!Emits
  <2>2. \/ v5' = v5 \/ v5' = [v5 EXCEPT ![e] = Trigger] \/ v5' = [v5 EXCEPT ![e] = << >>]
    BY <1>6 DEF Si!Rings, Si!Looks, Si!LookFails, Si!Compares, Si!ScreenCompares, Si!Heard,
                Si!Reacted, Si!Done, Si!StopWatcher, Si!Emits
  <2>3. v11' = v11 /\ v14' = v14
    BY <1>6 DEF Si!Rings, Si!Looks, Si!LookFails, Si!Compares, Si!ScreenCompares, Si!Heard,
                Si!Reacted, Si!Done, Si!StopWatcher, Si!Emits, Si!engine
  <2>4. PICK at \in Places : at # "reaction" /\ v3' = [v3 EXCEPT ![e] = at]
    BY <2>1 DEF Places
  <2>5. CASE v5' = v5 \/ v5' = [v5 EXCEPT ![e] = Trigger] BY <1>0, <2>3, <2>4, <2>5, Moves
  <2>6. CASE v5' = [v5 EXCEPT ![e] = << >>] BY <1>0, <2>3, <2>4, <2>6, Moves
  <2> QED BY <2>2, <2>5, <2>6
<1>7. CASE Si!Next BY <1>1, <1>4, <1>5, <1>6, <1>7, SignalsReacts DEF Si!Next
<1> QED BY <1>3, <1>7

\* The same where screens are watched.
LEMMA ScreensReacts ==
  ASSUME CoolsFromReaction(Sc!Emitter, Sc!Triggers), NEW e \in Sc!Emitter, Sc!Evaluates(e)
  PROVE  CoolsFromReaction(Sc!Emitter, Sc!Triggers)' /\ Sc!CooldownKept
<1>0. /\ v3 \in [Sc!Emitter -> Places] /\ v5 \in [Sc!Emitter -> Seq(Sc!Triggers)]
      /\ DOMAIN v11 = Sc!Triggers /\ DOMAIN v14 = Sc!Triggers
      /\ \A t \in Sc!Triggers : v14[t] = None \/ v11[t] = v14[t]
  BY DEF CoolsFromReaction
<1>1. PICK t : t = Head(v5[e]) OBVIOUS
<1>2. v5[e] # << >> /\ v3[e] = "engine" /\ v5' = [v5 EXCEPT ![e] = Tail(@)] /\ v1' = v1
  BY DEF Sc!Evaluates
<1>3. t \in Sc!Triggers /\ Tail(v5[e]) \in Seq(Sc!Triggers) BY <1>0, <1>1, <1>2
<1>4. v5' \in [Sc!Emitter -> Seq(Sc!Triggers)] BY <1>0, <1>2, <1>3
<1>5. CASE UNCHANGED <<v3, v11, v14>>
  BY <1>0, <1>4, <1>5 DEF CoolsFromReaction, Sc!CooldownKept
<1>6. CASE /\ v1 - v11[t] >= Cooldown[t] /\ v11' = [v11 EXCEPT ![t] = v1]
           /\ v14' = [v14 EXCEPT ![t] = v1] /\ v3' = [v3 EXCEPT ![e] = "reaction"]
  <2>1. CoolsFromReaction(Sc!Emitter, Sc!Triggers)'
    BY <1>4, <1>6, Renews
  <2>2. ASSUME NEW d \in Sc!Emitter, v3[d] = "engine", v3'[d] = "reaction"
        PROVE  v14[Head(v5[d])] = None \/ v1 - v14[Head(v5[d])] >= Cooldown[Head(v5[d])]
    <3>1. d = e BY <1>0, <1>6, <2>2
    <3> QED BY <1>0, <1>1, <1>3, <1>6, <3>1
  <2> QED BY <2>1, <2>2 DEF Sc!CooldownKept
<1> QED
  BY <1>1, <1>5, <1>6 DEF Sc!Evaluates, Sc!Ready, Sc!Cooled, Sc!engine

LEMMA ScreensStep ==
  ASSUME CoolsFromReaction(Sc!Emitter, Sc!Triggers), [Sc!Next]_(Sc!vars)
  PROVE  CoolsFromReaction(Sc!Emitter, Sc!Triggers)' /\ Sc!CooldownKept
<1>0. Trigger \in Seq(Sc!Triggers) /\ << >> \in Seq(Sc!Triggers)
  BY MCAgentsAssumption DEF Sc!SignalsAssumption
<1>1. Quiet(Sc!Emitter, Sc!Triggers)
        => CoolsFromReaction(Sc!Emitter, Sc!Triggers)' /\ Sc!CooldownKept
  BY QuietKeeps DEF Quiet, Sc!CooldownKept
<1>2. UNCHANGED <<v3, v5, v11, v14>> => Quiet(Sc!Emitter, Sc!Triggers)
  BY DEF Quiet, CoolsFromReaction
<1>3. CASE UNCHANGED Sc!vars BY <1>1, <1>2, <1>3 DEF Sc!vars, Sc!seen, Sc!engine
<1>4. ASSUME NEW e \in Sc!Emitter, Sc!Changes(e)
      PROVE  Quiet(Sc!Emitter, Sc!Triggers)
  BY <1>2, <1>4 DEF Sc!Changes, Sc!engine
<1>5. Sc!StopEngine \/ Sc!Tick => Quiet(Sc!Emitter, Sc!Triggers)
  BY <1>2 DEF Sc!StopEngine, Sc!Tick, Sc!engine, Sc!seen
<1>6. ASSUME NEW e \in Sc!Emitter,
             \/ Sc!Rings(e) \/ Sc!Looks(e) \/ Sc!LookFails(e) \/ Sc!Compares(e)
             \/ Sc!ScreenCompares(e) \/ Sc!Heard(e) \/ Sc!Reacted(e) \/ Sc!Done(e)
             \/ Sc!StopWatcher(e)
      PROVE  Quiet(Sc!Emitter, Sc!Triggers)
  <2>1. \E at \in {"listener", "last listener", "look", "sleep", "dead", "engine"} :
           v3' = [v3 EXCEPT ![e] = at]
    BY <1>6 DEF Sc!Rings, Sc!Looks, Sc!LookFails, Sc!Compares, Sc!ScreenCompares, Sc!Heard,
                Sc!Reacted, Sc!Done, Sc!StopWatcher, Sc!Emits
  <2>2. \/ v5' = v5 \/ v5' = [v5 EXCEPT ![e] = Trigger] \/ v5' = [v5 EXCEPT ![e] = << >>]
    BY <1>6 DEF Sc!Rings, Sc!Looks, Sc!LookFails, Sc!Compares, Sc!ScreenCompares, Sc!Heard,
                Sc!Reacted, Sc!Done, Sc!StopWatcher, Sc!Emits
  <2>3. v11' = v11 /\ v14' = v14
    BY <1>6 DEF Sc!Rings, Sc!Looks, Sc!LookFails, Sc!Compares, Sc!ScreenCompares, Sc!Heard,
                Sc!Reacted, Sc!Done, Sc!StopWatcher, Sc!Emits, Sc!engine
  <2>4. PICK at \in Places : at # "reaction" /\ v3' = [v3 EXCEPT ![e] = at]
    BY <2>1 DEF Places
  <2>5. CASE v5' = v5 \/ v5' = [v5 EXCEPT ![e] = Trigger] BY <1>0, <2>3, <2>4, <2>5, Moves
  <2>6. CASE v5' = [v5 EXCEPT ![e] = << >>] BY <1>0, <2>3, <2>4, <2>6, Moves
  <2> QED BY <2>2, <2>5, <2>6
<1>7. CASE Sc!Next BY <1>1, <1>4, <1>5, <1>6, <1>7, ScreensReacts DEF Sc!Next
<1> QED BY <1>3, <1>7

\* Two reactions of a trigger are at least its cooldown apart, for any timers, pollers,
\* screens, triggers, pipelines and cooldowns, also when signals of several emitters
\* meet the trigger while a reaction is awaited (signals/engine.py).
THEOREM CooldownsAreKept == Spec => CooldownKept
<1> DEFINE Inv == /\ Is("signals") => CoolsFromReaction(Si!Emitter, Si!Triggers)
                  /\ Is("screens") => CoolsFromReaction(Sc!Emitter, Sc!Triggers)
<1>1. Init => Inv BY SignalsOnly, SignalsInit
<1>2. Inv /\ [Next]_all
        => [(Is("signals") => Si!CooldownKept) /\ (Is("screens") => Sc!CooldownKept)]_all
  BY SignalsOnly, SignalsStep, ScreensStep
<1>3. Inv /\ [Next]_all => Inv'
  <2> SUFFICES ASSUME Inv, [Next]_all PROVE Inv' OBVIOUS
  <2>1. Is("signals")' => Is("signals") BY PartStays DEF Is
  <2>2. Is("screens")' => Is("screens") BY PartStays DEF Is
  <2> QED BY <2>1, <2>2, SignalsOnly, SignalsStep, ScreensStep
<1> QED BY <1>1, <1>2, <1>3, PTL DEF Spec, CooldownKept
-----------------------------------------------------------------------------
(* Sandbox sessions: active is v1, box v2, volume v3, doing v6, clock v7.    *)

LEMMA SandboxOnly ==
  /\ Init /\ Is("sandbox") => Sb!Init
  /\ [Next]_all /\ Is("sandbox") => [Sb!Next]_(Sb!vars)
BY DEF Init, Next, Is, Sb!vars, Sb!dockerVars, all

Entry == SandboxId \X Nat

Doing == [op : {"idle", "start", "exec", "write", "stop", "destroy",
                "expired", "count", "space"},
          at : Sb!Stages, sid : SandboxId \cup {None},
          todo : SUBSET Entry, spared : SUBSET Entry]

\* What is known where a process is, and of the pass of a reaper.
Fits(d) ==
  /\ d.at \in {"idle", "next"} <=> d.sid = None
  /\ d.at \in {"volume", "unlink"} => v2[d.sid] = "absent"
  /\ d.at = "unlink" => ~v3[d.sid]
  /\ d.op \in {"count", "space"} => \A v \in d.todo, k \in d.spared : v[2] <= k[2]

Files ==
  /\ DOMAIN v1 = SandboxId /\ DOMAIN v2 = SandboxId /\ DOMAIN v3 = SandboxId
  /\ \A s \in SandboxId : v1[s] \in 0..MaxTouches \cup {None}
  /\ v7 \in 0..MaxTouches

SandboxInv ==
  /\ Files /\ v6 \in [Sb!Proc -> Doing]
  /\ \A p \in Sb!Proc : Fits(v6[p])
  /\ \A p, q \in Sb!Proc : v6[p].sid = v6[q].sid /\ v6[p].sid # None => p = q

\* Nothing but session s has its container or its volume changed.
Spares(s) ==
  \A t \in SandboxId : t # s => v2'[t] = v2[t] /\ v3'[t] = v3[t]

LEMMA OfSandbox ==
  /\ None \notin SandboxId /\ None \notin Nat /\ MaxTouches \in Nat
  /\ CountLimit \in Nat /\ SpaceLimit \in Nat
  /\ IsFiniteSet(SandboxId) /\ \A S : Sb!Cardinality(S) = Cardinality(S)
<1>1. \A S : Sb!Cardinality(S) = Cardinality(S) BY DEF Sb!Cardinality, Cardinality
<1>2. \A S : Sb!IsFiniteSet(S) = IsFiniteSet(S) BY DEF Sb!IsFiniteSet, IsFiniteSet
<1>3. /\ None \notin SandboxId \cup Nat /\ Sb!IsFiniteSet(SandboxId)
      /\ {IdleLimit, CountLimit, SpaceLimit, MaxTouches, MaxDeaths} \subseteq Nat
  BY MCAgentsAssumption DEF Sb!SandboxAssumption
<1> QED BY <1>1, <1>2, <1>3

\* A process goes on: what it knows of its session is true, and it takes up
\* none that another is at.
LEMMA Turns ==
  ASSUME SandboxInv, NEW p \in Sb!Proc, NEW d \in Doing, v6' = [v6 EXCEPT ![p] = d],
         Files', Spares(v6[p].sid), Fits(d)',
         d.sid = v6[p].sid \/ d.sid = None \/ ~Sb!Busy(d.sid)
  PROVE  SandboxInv'
<1>0. /\ v6 \in [Sb!Proc -> Doing] /\ \A q \in Sb!Proc : Fits(v6[q])
      /\ \A q, r \in Sb!Proc : v6[q].sid = v6[r].sid /\ v6[q].sid # None => q = r
  BY DEF SandboxInv
<1>1. v6' \in [Sb!Proc -> Doing] /\ v6'[p] = d /\ \A q \in Sb!Proc : q # p => v6'[q] = v6[q]
  BY <1>0
<1>2. ASSUME NEW q \in Sb!Proc PROVE Fits(v6[q])' \/ q = p
  <2>1. CASE q # p
    <3>1. PICK e : e = v6[q] OBVIOUS
    <3>2. v6'[q] = e /\ e \in Doing /\ Fits(e) BY <1>0, <1>1, <2>1, <3>1
    <3>3. e.sid = None \/ e.sid # v6[p].sid BY <1>0, <2>1, <3>1
    <3>4. e.sid # None => v2'[e.sid] = v2[e.sid] /\ v3'[e.sid] = v3[e.sid]
      BY <3>2, <3>3 DEF Spares, Doing
    <3>5. e.at \in {"volume", "unlink"} => e.sid # None BY <3>2 DEF Fits
    <3>6. Fits(e)' BY <3>2, <3>4, <3>5 DEF Fits
    <3> QED BY <3>2, <3>6 DEF Fits
  <2> QED BY <2>1
<1>3. Fits(v6[p])' BY <1>1 DEF Fits
<1>4. ASSUME NEW q \in Sb!Proc, NEW r \in Sb!Proc, v6'[q].sid = v6'[r].sid, v6'[q].sid # None
      PROVE  q = r
  <2>1. ASSUME NEW a \in Sb!Proc, a # p, v6[a].sid = d.sid, d.sid # None PROVE FALSE
    BY <1>0, <2>1 DEF Sb!Busy
  <2> QED BY <1>0, <1>1, <1>4, <2>1
<1> QED BY <1>1, <1>2, <1>3, <1>4 DEF SandboxInv

\* It goes on to another stage of the same method, or leaves it.
LEMMA Stays ==
  ASSUME SandboxInv, NEW p \in Sb!Proc, NEW at \in Sb!Stages, Files', Spares(v6[p].sid),
         v6' = [v6 EXCEPT ![p].at = at], v6[p].sid # None, at \notin {"idle", "next"},
         at \in {"volume", "unlink"} => v2'[v6[p].sid] = "absent",
         at = "unlink" => ~v3'[v6[p].sid]
  PROVE  SandboxInv'
<1>1. v6[p] \in Doing /\ Fits(v6[p]) BY DEF SandboxInv
<1>2. PICK d : d = [v6[p] EXCEPT !.at = at] OBVIOUS
<1>3. /\ d \in Doing /\ d.at = at /\ d.sid = v6[p].sid /\ d.op = v6[p].op
      /\ d.todo = v6[p].todo /\ d.spared = v6[p].spared
  BY <1>1, <1>2 DEF Doing
<1>4. Fits(d)' BY <1>1, <1>3 DEF Fits
<1>5. v6' = [v6 EXCEPT ![p] = d] BY <1>2
<1> QED BY <1>3, <1>4, <1>5, Turns

LEMMA LeavesIt ==
  ASSUME SandboxInv, NEW p \in Sb!Proc, Files', Spares(v6[p].sid),
         v6' = [v6 EXCEPT ![p] = Sb!Idle]
  PROVE  SandboxInv'
<1>1. PICK d : d = Sb!Idle OBVIOUS
<1>2. /\ d \in Doing /\ d.at = "idle" /\ d.sid = None /\ d.op = "idle"
      /\ d.todo = {} /\ d.spared = {}
  BY <1>1 DEF Doing, Sb!Idle, Sb!Stages
<1>3. Fits(d)' BY <1>2 DEF Fits
<1> QED BY <1>1, <1>2, <1>3, Turns

LEMMA Untouched ==
  ASSUME SandboxInv, UNCHANGED <<v1, v2, v3, v7>>
  PROVE  Files' /\ Sb!UnlinkedIsGone /\ \A s : Spares(s)
BY DEF SandboxInv, Files, Spares, Sb!UnlinkedIsGone

\* What a method of Session does to its session.
LEMMA Works ==
  ASSUME SandboxInv, NEW p \in Sb!Proc,
         \/ Sb!IsRunning(p) \/ Sb!Exists(p) \/ Sb!Launch(p) \/ Sb!Run(p) \/ Sb!Use(p)
         \/ Sb!Halt(p) \/ Sb!RemoveContainer(p) \/ Sb!RemoveVolume(p)
  PROVE  SandboxInv' /\ Sb!UnlinkedIsGone
<1>0. Files /\ v6[p] \in Doing /\ Fits(v6[p]) BY DEF SandboxInv
<1>1. PICK s : s = v6[p].sid OBVIOUS
<1>2. v6[p].at \in {"running?", "exists?", "launch", "run", "use", "halt", "rm", "volume"}
  BY DEF Sb!IsRunning, Sb!Exists, Sb!Launch, Sb!Run, Sb!Use, Sb!Halt, Sb!RemoveContainer,
         Sb!RemoveVolume
<1>3. s \in SandboxId /\ s # None BY <1>0, <1>1, <1>2, OfSandbox DEF Fits, Doing
<1>4. /\ v1' = v1 /\ v7' = v7
      /\ v2' = v2 \/ \E b : v2' = [v2 EXCEPT ![s] = b]
      /\ v3' = v3 \/ \E b : v3' = [v3 EXCEPT ![s] = b]
  BY <1>1 DEF Sb!IsRunning, Sb!Exists, Sb!Launch, Sb!Run, Sb!Use, Sb!Halt, Sb!RemoveContainer,
         Sb!RemoveVolume, Sb!dockerVars
<1>5. Files' /\ Spares(s) /\ Sb!UnlinkedIsGone
  BY <1>0, <1>3, <1>4 DEF Files, Spares, Sb!UnlinkedIsGone
<1>6. CASE Sb!RemoveContainer(p)
  <2>1. v2'[s] = "absent" /\ v6' = [v6 EXCEPT ![p].at = "volume"]
    BY <1>0, <1>1, <1>3, <1>6 DEF Sb!RemoveContainer, Sb!Go, Files
  <2>2. "volume" \in Sb!Stages BY DEF Sb!Stages
  <2> QED BY <1>1, <1>3, <1>5, <2>1, <2>2, Stays
<1>7. CASE Sb!RemoveVolume(p)
  <2>1. /\ v2' = v2 /\ v3' = [v3 EXCEPT ![s] = @ /\ v2[s] # "absent"]
        /\ v6[p].at = "volume" /\ v6' = [v6 EXCEPT ![p].at = "unlink"]
    BY <1>1, <1>7 DEF Sb!RemoveVolume, Sb!Go
  <2>2. v2[s] = "absent" BY <1>0, <1>1, <2>1 DEF Fits
  <2>3. v3'[s] = (v3[s] /\ v2[s] # "absent") BY <1>0, <1>3, <2>1 DEF Files
  <2>4. ~v3'[s] BY <2>2, <2>3
  <2>5. "unlink" \in Sb!Stages BY DEF Sb!Stages
  <2> QED BY <1>1, <1>3, <1>5, <2>1, <2>2, <2>4, <2>5, Stays
<1>8. CASE \/ Sb!IsRunning(p) \/ Sb!Exists(p) \/ Sb!Launch(p) \/ Sb!Run(p) \/ Sb!Use(p)
           \/ Sb!Halt(p)
  <2>1. \/ Sb!Leave(p)
        \/ \E at \in {"running?", "exists?", "launch", "run", "started", "touch", "use", "halt"} :
             Sb!Go(p, at)
    BY <1>8 DEF Sb!IsRunning, Sb!Exists, Sb!Launch, Sb!Run, Sb!Use, Sb!Halt
  <2>2. CASE Sb!Leave(p) BY <1>1, <1>5, <2>2, LeavesIt DEF Sb!Leave
  <2>3. CASE \E at \in {"running?", "exists?", "launch", "run", "started", "touch", "use",
                        "halt"} : Sb!Go(p, at)
    <3>1. PICK at \in {"running?", "exists?", "launch", "run", "started", "touch", "use",
                       "halt"} : Sb!Go(p, at)
      BY <2>3
    <3>2. at \in Sb!Stages /\ at \notin {"idle", "next", "volume", "unlink"}
      BY DEF Sb!Stages
    <3> QED BY <1>1, <1>3, <1>5, <3>1, <3>2, Stays DEF Sb!Go
  <2> QED BY <2>1, <2>2, <2>3
<1> QED BY <1>6, <1>7, <1>8

LEMMA Touches ==
  ASSUME SandboxInv, NEW p \in Sb!Proc, Sb!Touch(p)
  PROVE  SandboxInv' /\ Sb!UnlinkedIsGone
<1>0. Files /\ v6[p] \in Doing /\ Fits(v6[p]) BY DEF SandboxInv
<1>1. PICK s : s = v6[p].sid OBVIOUS
<1>2. /\ v6[p].at \in {"started", "touch"} /\ v7 < MaxTouches
      /\ v1' = [v1 EXCEPT ![s] = v7] /\ v7' = v7 + 1 /\ v2' = v2 /\ v3' = v3
      /\ Sb!Go(p, "use") \/ Sb!Leave(p)
  BY <1>1 DEF Sb!Touch, Sb!dockerVars
<1>3. s \in SandboxId /\ s # None BY <1>0, <1>1, <1>2 DEF Fits, Doing
<1>4. v7 \in 0..MaxTouches /\ v7' \in 0..MaxTouches /\ v7 # None
  BY <1>0, <1>2, OfSandbox DEF Files
<1>5. DOMAIN v1' = SandboxId /\ \A t \in SandboxId : v1'[t] = IF t = s THEN v7 ELSE v1[t]
  BY <1>0, <1>2 DEF Files
<1>6. Files' /\ Spares(s) BY <1>0, <1>2, <1>4, <1>5 DEF Files, Spares
<1>7. Sb!UnlinkedIsGone BY <1>4, <1>5 DEF Sb!UnlinkedIsGone
<1>8. CASE Sb!Leave(p) BY <1>1, <1>6, <1>7, <1>8, LeavesIt DEF Sb!Leave
<1>9. CASE Sb!Go(p, "use")
  <2>1. "use" \in Sb!Stages BY DEF Sb!Stages
  <2> QED BY <1>1, <1>3, <1>6, <1>7, <1>9, <2>1, Stays DEF Sb!Go
<1> QED BY <1>2, <1>8, <1>9

LEMMA Unlinks ==
  ASSUME SandboxInv, NEW p \in Sb!Proc, Sb!Unlink(p)
  PROVE  SandboxInv' /\ Sb!UnlinkedIsGone
<1>0. Files /\ v6[p] \in Doing /\ Fits(v6[p]) BY DEF SandboxInv
<1>1. PICK s : s = v6[p].sid OBVIOUS
<1>2. /\ v6[p].at = "unlink" /\ v1' = [v1 EXCEPT ![s] = None]
      /\ v7' = v7 /\ v2' = v2 /\ v3' = v3
  BY <1>1 DEF Sb!Unlink, Sb!dockerVars
<1>3. s \in SandboxId /\ s # None /\ v2[s] = "absent" /\ ~v3[s]
  BY <1>0, <1>1, <1>2 DEF Fits, Doing
<1>4. DOMAIN v1' = SandboxId /\ \A t \in SandboxId : v1'[t] = IF t = s THEN None ELSE v1[t]
  BY <1>0, <1>2 DEF Files
<1>5. Files' /\ Spares(s) BY <1>0, <1>2, <1>4 DEF Files, Spares
<1>6. Sb!UnlinkedIsGone BY <1>3, <1>4 DEF Sb!UnlinkedIsGone
<1>7. CASE Sb!Leave(p) BY <1>1, <1>5, <1>6, <1>7, LeavesIt DEF Sb!Leave
<1>8. CASE v6' = [v6 EXCEPT ![p].at = "next", ![p].sid = None]
  <2>1. PICK d : d = [v6[p] EXCEPT !.at = "next", !.sid = None] OBVIOUS
  <2>2. "next" \in Sb!Stages BY DEF Sb!Stages
  <2>3. /\ d \in Doing /\ d.at = "next" /\ d.sid = None /\ d.op = v6[p].op
        /\ d.todo = v6[p].todo /\ d.spared = v6[p].spared
    BY <1>0, <2>1, <2>2 DEF Doing
  <2>4. Fits(d)' BY <1>0, <2>3 DEF Fits
  <2>5. v6' = [v6 EXCEPT ![p] = d] BY <1>0, <1>8, <2>1 DEF SandboxInv
  <2> QED BY <1>1, <1>5, <1>6, <2>3, <2>4, <2>5, Turns
<1> QED BY <1>7, <1>8 DEF Sb!Unlink

LEMMA Begins ==
  ASSUME SandboxInv, NEW p \in Sb!Proc, NEW s \in SandboxId,
         NEW op \in {"start", "exec", "write", "stop", "destroy"}, Sb!Begin(p, s, op)
  PROVE  SandboxInv' /\ Sb!UnlinkedIsGone
<1>1. Files' /\ Sb!UnlinkedIsGone /\ \A t : Spares(t)
  BY Untouched DEF Sb!Begin, Sb!dockerVars
<1>2. PICK at : at = IF op = "destroy" THEN "rm" ELSE "running?" OBVIOUS
<1>3. PICK d : d = [op |-> op, at |-> at, sid |-> s, todo |-> {}, spared |-> {}] OBVIOUS
<1>4. at \in Sb!Stages /\ at \notin {"idle", "next", "volume", "unlink"}
  BY <1>2 DEF Sb!Stages
<1>5. d \in Doing BY <1>3, <1>4 DEF Doing
<1>6. ~Sb!Busy(s) BY DEF Sb!Begin
<1>7. v6' = [v6 EXCEPT ![p] = d] BY <1>2, <1>3 DEF Sb!Begin
<1>8. Fits(d)' BY <1>3, <1>4, OfSandbox DEF Fits
<1> QED BY <1>1, <1>3, <1>5, <1>6, <1>7, <1>8, Turns

\* The passes of a reaper.
LEMMA PassIsFair ==
  ASSUME Files, NEW pass \in {"expired", "count", "space"}
  PROVE  /\ Sb!Listing \subseteq Entry /\ Sb!Victims(pass) \subseteq Entry
         /\ pass # "expired" =>
              \A v \in Sb!Victims(pass), k \in Sb!Listing \ Sb!Victims(pass) : v[2] <= k[2]
<1>1. Sb!Listing \subseteq SandboxId \X (0..MaxTouches)
  BY DEF Files, Sb!Listing
<1>2. Sb!Listing \subseteq Entry /\ Sb!Victims(pass) \subseteq Sb!Listing
  BY <1>1, OfSandbox DEF Entry, Sb!Victims
<1>3. IsFiniteSet(Sb!Listing)
  <2>1. IsFiniteSet(0..MaxTouches) BY OfSandbox, FS_Interval
  <2>2. IsFiniteSet(SandboxId \X (0..MaxTouches)) BY <2>1, OfSandbox, FS_Product
  <2> QED BY <1>1, <2>2, FS_Subset
<1>4. ASSUME NEW v \in Sb!Listing, NEW k \in Sb!Listing, ~(v[2] <= k[2])
      PROVE  Sb!Older(k) \subseteq Sb!Older(v)
  BY <1>2, <1>4 DEF Sb!Older, Entry
<1>5. ASSUME NEW S \in SUBSET Sb!Listing, NEW T \in SUBSET S, NEW n \in Nat,
             Cardinality(S) < n
      PROVE  Cardinality(T) < n
  BY <1>3, <1>5, FS_Subset, FS_CardinalityType
<1>6. Cardinality(Sb!Listing) \in Nat BY <1>3, FS_CardinalityType
<1>7. \A s, m \in Nat : Sb!Excess(s, m) \in Nat BY DEF Sb!Excess
<1>8. ASSUME NEW v \in Sb!Victims(pass), NEW k \in Sb!Listing \ Sb!Victims(pass),
             pass # "expired", ~(v[2] <= k[2])
      PROVE  FALSE
  <2>1. /\ v \in Sb!Listing /\ Sb!Older(k) \subseteq Sb!Older(v)
        /\ Sb!Older(v) \subseteq Sb!Listing
    BY <1>2, <1>4, <1>8 DEF Sb!Older
  <2>2. CASE pass = "count"
    <3>1. PICK n \in Nat : n = Sb!Excess(Cardinality(Sb!Listing), CountLimit)
      BY <1>6, <1>7, OfSandbox
    <3>2. Cardinality(Sb!Older(v)) < n /\ ~(Cardinality(Sb!Older(k)) < n)
      BY <1>8, <2>2, <3>1, OfSandbox DEF Sb!Victims
    <3> QED BY <1>5, <2>1, <3>2
  <2>3. CASE pass = "space"
    <3>1. Cardinality({s \in SandboxId : v3[s]}) \in Nat
      BY OfSandbox, FS_Subset, FS_CardinalityType
    <3>2. PICK n \in Nat : n = Sb!Excess(Cardinality({s \in SandboxId : v3[s]}), SpaceLimit)
      BY <1>7, <3>1, OfSandbox
    <3>3. PICK S : S = {d \in Sb!Older(v) : v3[d[1]]} OBVIOUS
    <3>4. PICK T : T = {d \in Sb!Older(k) : v3[d[1]]} OBVIOUS
    <3>5. Cardinality(S) < n /\ ~(Cardinality(T) < n)
      BY <1>8, <2>3, <3>2, <3>3, <3>4, OfSandbox DEF Sb!Victims
    <3>6. S \in SUBSET Sb!Listing /\ T \in SUBSET S BY <2>1, <3>3, <3>4
    <3> QED BY <1>5, <3>5, <3>6
  <2> QED BY <1>8, <2>2, <2>3
<1> QED BY <1>2, <1>8

LEMMA Reaps ==
  ASSUME SandboxInv, NEW p \in Sb!Proc, NEW pass \in {"expired", "count", "space"},
         Sb!Reap(p, pass)
  PROVE  SandboxInv' /\ Sb!UnlinkedIsGone
<1>1. Files' /\ Sb!UnlinkedIsGone /\ \A t : Spares(t)
  BY Untouched DEF Sb!Reap, Sb!dockerVars
<1>2. PICK V : V = Sb!Victims(pass) OBVIOUS
<1>3. PICK K : K = Sb!Listing \ Sb!Victims(pass) OBVIOUS
<1>4. PICK d : d = [op |-> pass, at |-> "next", sid |-> None, todo |-> V, spared |-> K]
  OBVIOUS
<1>5. /\ V \subseteq Entry /\ K \subseteq Entry
      /\ pass # "expired" => \A v \in V, k \in K : v[2] <= k[2]
  BY <1>2, <1>3, PassIsFair DEF SandboxInv
<1>6. "next" \in Sb!Stages BY DEF Sb!Stages
<1>7. d \in Doing BY <1>4, <1>5, <1>6 DEF Doing
<1>8. v6' = [v6 EXCEPT ![p] = d] BY <1>2, <1>3, <1>4 DEF Sb!Reap
<1>9. Fits(d)' BY <1>4, <1>5 DEF Fits
<1> QED BY <1>1, <1>4, <1>7, <1>8, <1>9, Turns

LEMMA ReapsNext ==
  ASSUME SandboxInv, NEW p \in Sb!Proc, Sb!ReapNext(p)
  PROVE  SandboxInv' /\ Sb!UnlinkedIsGone
<1>0. v6[p] \in Doing /\ Fits(v6[p]) BY DEF SandboxInv
<1>1. Files' /\ Sb!UnlinkedIsGone /\ \A t : Spares(t)
  BY Untouched DEF Sb!ReapNext, Sb!dockerVars
<1>2. PICK e \in v6[p].todo :
        /\ ~Sb!Busy(e[1])
        /\ v6' = [v6 EXCEPT ![p].at = "rm", ![p].sid = e[1], ![p].todo = @ \ {e}]
  BY DEF Sb!ReapNext
<1>3. e[1] \in SandboxId /\ e[1] # None BY <1>0, OfSandbox DEF Doing, Entry
<1>4. PICK s \in SandboxId : s = e[1] BY <1>3
<1>5. PICK d : d = [v6[p] EXCEPT !.at = "rm", !.sid = s, !.todo = @ \ {e}] OBVIOUS
<1>6. "rm" \in Sb!Stages BY DEF Sb!Stages
<1>7. /\ d \in Doing /\ d.at = "rm" /\ d.sid = s /\ d.op = v6[p].op
      /\ d.todo \subseteq v6[p].todo /\ d.spared = v6[p].spared
  BY <1>0, <1>5, <1>6 DEF Doing
<1>8. Fits(d)' BY <1>0, <1>3, <1>4, <1>7 DEF Fits
<1>9. v6' = [v6 EXCEPT ![p] = d] BY <1>2, <1>4, <1>5 DEF SandboxInv
<1> QED BY <1>1, <1>2, <1>4, <1>7, <1>8, <1>9, Turns

LEMMA SandboxInit == Sb!Init => SandboxInv
<1> SUFFICES ASSUME Sb!Init PROVE SandboxInv OBVIOUS
<1>1. /\ v1 = [s \in SandboxId |-> None] /\ v2 = [s \in SandboxId |-> "absent"]
      /\ v3 = [s \in SandboxId |-> FALSE] /\ v6 = [p \in Sb!Proc |-> Sb!Idle] /\ v7 = 0
  BY DEF Sb!Init
<1>2. Files BY <1>1, OfSandbox DEF Files
<1>3. PICK d : d = Sb!Idle OBVIOUS
<1>4. /\ d \in Doing /\ d.at = "idle" /\ d.sid = None /\ d.op = "idle"
      /\ d.todo = {} /\ d.spared = {}
  BY <1>3 DEF Doing, Sb!Idle, Sb!Stages
<1>5. Fits(d) BY <1>4 DEF Fits
<1> QED BY <1>1, <1>2, <1>3, <1>4, <1>5 DEF SandboxInv

LEMMA SandboxStep ==
  SandboxInv /\ [Sb!Next]_(Sb!vars) => SandboxInv' /\ Sb!UnlinkedIsGone
<1> SUFFICES ASSUME SandboxInv, [Sb!Next]_(Sb!vars) PROVE SandboxInv' /\ Sb!UnlinkedIsGone
  OBVIOUS
<1>1. UNCHANGED <<v1, v2, v3, v6, v7>> => SandboxInv' /\ Sb!UnlinkedIsGone
  BY Untouched DEF SandboxInv, Fits
<1>2. CASE UNCHANGED Sb!vars BY <1>1, <1>2 DEF Sb!vars, Sb!dockerVars
<1>3. ASSUME NEW p \in Sb!Proc, NEW s \in SandboxId, Sb!Create(p, s)
      PROVE  SandboxInv' /\ Sb!UnlinkedIsGone
  <2>1. /\ v7 < MaxTouches /\ v1' = [v1 EXCEPT ![s] = v7] /\ v7' = v7 + 1
        /\ v2' = v2 /\ v3' = v3 /\ v6' = v6
    BY <1>3 DEF Sb!Create, Sb!dockerVars
  <2>2. Files BY DEF SandboxInv
  <2>3. v7 \in 0..MaxTouches /\ v7' \in 0..MaxTouches /\ v7 # None
    BY <2>1, <2>2, OfSandbox DEF Files
  <2>4. DOMAIN v1' = SandboxId /\ \A t \in SandboxId : v1'[t] = IF t = s THEN v7 ELSE v1[t]
    BY <2>1, <2>2 DEF Files
  <2>5. Files' BY <2>1, <2>2, <2>3, <2>4 DEF Files
  <2>6. Sb!UnlinkedIsGone BY <2>3, <2>4 DEF Sb!UnlinkedIsGone
  <2> QED BY <2>1, <2>5, <2>6 DEF SandboxInv, Fits
<1>4. ASSUME NEW p \in Sb!Proc, NEW s \in SandboxId, Sb!Get(p, s)
      PROVE  SandboxInv' /\ Sb!UnlinkedIsGone
  BY <1>1, <1>4 DEF Sb!Get, Sb!dockerVars
<1>5. Sb!Tick => SandboxInv' /\ Sb!UnlinkedIsGone
  <2> SUFFICES ASSUME Sb!Tick PROVE SandboxInv' /\ Sb!UnlinkedIsGone OBVIOUS
  <2>1. /\ v7 < MaxTouches /\ v7' = v7 + 1
        /\ v1' = v1 /\ v2' = v2 /\ v3' = v3 /\ v6' = v6
    BY DEF Sb!Tick, Sb!dockerVars
  <2>2. Files' BY <2>1, OfSandbox DEF Files, SandboxInv
  <2> QED BY <2>1, <2>2 DEF SandboxInv, Fits, Sb!UnlinkedIsGone
<1>6. ASSUME NEW p \in Sb!Proc, Sb!Crash(p) \/ Sb!ReapEnds(p)
      PROVE  SandboxInv' /\ Sb!UnlinkedIsGone
  <2>1. UNCHANGED <<v1, v2, v3, v7>> /\ v6' = [v6 EXCEPT ![p] = Sb!Idle]
    BY <1>6 DEF Sb!Crash, Sb!ReapEnds, Sb!Leave, Sb!dockerVars
  <2> QED BY <2>1, Untouched, LeavesIt
<1>7. Manager \subseteq Sb!Proc /\ Sweeper \subseteq Sb!Proc BY DEF Sb!Proc
<1>8. CASE Sb!Next
  BY <1>3, <1>4, <1>5, <1>6, <1>7, <1>8, Works, Touches, Unlinks, Begins, Reaps, ReapsNext
  DEF Sb!Next
<1> QED BY <1>2, <1>8

LEMMA SandboxFair == SandboxInv => Sb!IdleLongestGoFirst
BY DEF SandboxInv, Fits, Sb!IdleLongestGoFirst

-----------------------------------------------------------------------------
(* Chat containers: bridge is v1, ports v2, cached v3, box v4, chat v6, msg  *)
(* v7, clearing v8, validKey v10 and trouble v13.                            *)

LEMMA ChatOnly ==
  /\ Init /\ Is("chat") => Ch!Init
  /\ [Next]_all /\ Is("chat") => [Ch!Next]_(Ch!vars)
BY DEF Init, Next, Is, Ch!vars, Ch!bridgeVars, Ch!keyVars, Ch!historyVars, all

Bridge   == [proc : {"up", "dead"}, port : Nat]
BoxState == [state : {"absent", "stopped", "running"}, port : Nat, key : Nat]
ChatBox  == [box : Box, conv : Talk \cup {None}]
Sent  == [at : {"idle", "run", "answer", "none", "wrong"}, try : 0..3,
             conv : Talk \cup {None}]

Bridged == v1 \in Bridge /\ v2 \in Nat
Boxed   == v3 \in Box \cup {None} /\ v4 \in [Box -> BoxState]
Counted == v10 \in Nat \ {0} /\ v13 \in Nat
Chats   ==
  /\ DOMAIN v6 = ChatUser /\ \A u \in ChatUser : v6[u] # None => v6[u] \in ChatBox
  /\ v7 \in [ChatUser -> Sent] /\ DOMAIN v8 = ChatUser
  /\ \A u \in ChatUser : v7[u].at = "run" \/ v8[u] => v6[u] # None
  /\ \A u \in ChatUser : v7[u].at = "run" => v7[u].try # 0

\* While docker answers, every chat is in the container that is cached, which has
\* the bridge's port; a message is sent a second time with the key that is valid.
Follows ==
  /\ \A u \in ChatUser : v6[u] # None => v6[u].box = v3
  /\ v3 # None => v4[v3].port \in {v1.port, 0} /\ v4[v3].key \in 1..v10
  /\ v10 <= 2 => \A u \in ChatUser :
       /\ v7[u].at # "wrong"
       /\ v7[u].at = "run" /\ v7[u].try # 1 => v10 = 2 /\ v4[v3].key = v10

ChatInv == Bridged /\ Boxed /\ Counted /\ Chats /\ (v13 = 0 => Follows)

LEMMA OfChats == None \notin Box /\ None \notin Talk /\ None \notin ChatBox
BY MCAgentsAssumption DEF Ch!ChatBackendAssumption, ChatBox

LEMMA BridgeStarts ==
  ASSUME NEW b \in Bridge, NEW last \in Nat, NEW c \in Ch!Start(b, last)
  PROVE  c \in Bridge /\ (c.proc = "dead" => c.port = b.port)
BY DEF Ch!Start, Bridge

\* A container is started or stopped.
LEMMA StateOnly ==
  ASSUME NEW b \in Box, v4 \in [Box -> BoxState],
         NEW st \in {"absent", "stopped", "running"}, v4' = [v4 EXCEPT ![b].state = st]
  PROVE  /\ v4' \in [Box -> BoxState]
         /\ \A c \in Box : v4'[c].port = v4[c].port /\ v4'[c].key = v4[c].key
<1>1. PICK r : r = [v4[b] EXCEPT !.state = st] OBVIOUS
<1>2. r \in BoxState /\ r.port = v4[b].port /\ r.key = v4[b].key BY <1>1 DEF BoxState
<1>3. v4' = [v4 EXCEPT ![b] = r] BY <1>1
<1> QED BY <1>2, <1>3

\* One is given the bridge's port and the key.
LEMMA Provides ==
  ASSUME NEW b \in Box, v4 \in [Box -> BoxState], NEW port \in Nat, v10 \in Nat,
         v4' = [v4 EXCEPT ![b] = Ch!Provisioned(@, port)]
  PROVE  /\ v4' \in [Box -> BoxState] /\ v4'[b].port = port /\ v4'[b].key = v10
<1>1. PICK r : r = [v4[b] EXCEPT !.state = "running", !.port = port, !.key = v10] OBVIOUS
<1>2. r \in BoxState /\ r.port = port /\ r.key = v10 BY <1>1 DEF BoxState
<1>3. v4' = [v4 EXCEPT ![b] = r] BY <1>1 DEF Ch!Provisioned
<1> QED BY <1>2, <1>3

LEMMA KeyWritten ==
  ASSUME NEW b \in Box, v4 \in [Box -> BoxState], v10 \in Nat,
         v4' = [v4 EXCEPT ![b].state = "running", ![b].key = v10]
  PROVE  /\ v4' \in [Box -> BoxState] /\ v4'[b].port = v4[b].port /\ v4'[b].key = v10
         /\ \A c \in Box : c # b => v4'[c] = v4[c]
<1>1. PICK r : r = [v4[b] EXCEPT !.state = "running", !.key = v10] OBVIOUS
<1>2. r \in BoxState /\ r.port = v4[b].port /\ r.key = v10 BY <1>1 DEF BoxState
<1>3. v4' = [v4 EXCEPT ![b] = r] BY <1>1
<1> QED BY <1>2, <1>3

LEMMA ChatInit == Ch!Init => ChatInv
<1> SUFFICES ASSUME Ch!Init PROVE ChatInv OBVIOUS
<1>1. Bridged
  <2>1. PICK b : b = [proc |-> "dead", port |-> 0] OBVIOUS
  <2>2. b \in Bridge BY <2>1 DEF Bridge
  <2>3. PICK c \in Ch!Start(b, 0) : v1 = c /\ v2 = c.port BY <2>1 DEF Ch!Init
  <2>4. c \in Bridge BY <2>2, BridgeStarts
  <2> QED BY <2>3, <2>4 DEF Bridged, Bridge
<1>2. /\ v3 = None /\ v4 = [b \in Box |-> Ch!NoBox] /\ v6 = [u \in ChatUser |-> None]
      /\ v7 = [u \in ChatUser |-> Ch!Quiet] /\ v8 = [u \in ChatUser |-> FALSE]
      /\ v10 = 1 /\ v13 = 0
  BY DEF Ch!Init
<1>3. Ch!NoBox \in BoxState BY DEF Ch!NoBox, BoxState
<1>4. Ch!Quiet \in Sent /\ Ch!Quiet.at = "idle" BY DEF Ch!Quiet, Sent
<1>5. Boxed /\ Counted BY <1>2, <1>3 DEF Boxed, Counted
<1>6. Chats BY <1>2, <1>4 DEF Chats
<1>7. Follows BY <1>2, <1>4 DEF Follows
<1> QED BY <1>1, <1>5, <1>6, <1>7 DEF ChatInv

\* The bridge and the server.
LEMMA BridgeLives ==
  ASSUME ChatInv, Ch!BridgeDies \/ Ch!EnsureAlive \/ Ch!NewKey
  PROVE  ChatInv'
<1>0. Bridged /\ Boxed /\ Counted /\ Chats /\ (v13 = 0 => Follows) BY DEF ChatInv
<1>1. v3' = v3 /\ v6' = v6 /\ v7' = v7 /\ v8' = v8
  BY DEF Ch!BridgeDies, Ch!EnsureAlive, Ch!NewKey, Ch!keyVars
<1>2. Chats' BY <1>0, <1>1 DEF Chats
<1>3. CASE Ch!BridgeDies
  <2>1. v1' = [v1 EXCEPT !.proc = "dead"] /\ UNCHANGED <<v2, v4, v10, v13>>
    BY <1>3 DEF Ch!BridgeDies, Ch!keyVars
  <2>2. v1' \in Bridge /\ v1'.port = v1.port BY <1>0, <2>1 DEF Bridged, Bridge
  <2>3. Bridged' /\ Boxed' /\ Counted' BY <1>0, <1>1, <2>1, <2>2 DEF Bridged, Boxed, Counted
  <2>4. Follows => Follows' BY <1>1, <2>1, <2>2 DEF Follows
  <2> QED BY <1>0, <1>2, <2>1, <2>3, <2>4 DEF ChatInv
<1>4. CASE Ch!NewKey
  <2>1. v10' = v10 + 1 /\ UNCHANGED <<v1, v2, v4, v13>>
    BY <1>4 DEF Ch!NewKey, Ch!bridgeVars
  <2>2. Bridged' /\ Boxed' /\ Counted' BY <1>0, <1>1, <2>1 DEF Bridged, Boxed, Counted
  <2>3. Follows => Follows'
    <3> SUFFICES ASSUME Follows PROVE Follows' OBVIOUS
    <3>1. v3 # None => v4'[v3].port \in {v1'.port, 0} /\ v4'[v3].key \in 1..v10'
      BY <1>0, <2>1 DEF Follows, Counted
    <3>2. v10' <= 2 => v10 = 1 BY <1>0, <2>1 DEF Counted
    <3> QED BY <1>1, <2>1, <3>1, <3>2 DEF Follows
  <2> QED BY <1>0, <1>2, <2>1, <2>2, <2>3 DEF ChatInv
<1>5. CASE Ch!EnsureAlive
  <2>1. PICK b \in Ch!Start(v1, v2) :
          /\ v1' = b /\ Ch!Count(b)
          /\ IF b.port = v1.port \/ v1.port = 0 \/ v3 = None
             THEN v13' = v13 /\ v4' = v4
             ELSE \/ v4' = [v4 EXCEPT ![v3] = Ch!Provisioned(@, b.port)] /\ v13' = v13
                  \/ v13' = v13 + 1 /\ v4' = v4
    BY <1>5 DEF Ch!EnsureAlive, Ch!Fine, Ch!Fault
  <2>2. b \in Bridge BY <1>0, <2>1, BridgeStarts DEF Bridged
  <2>3. Bridged' BY <1>0, <2>1, <2>2 DEF Bridged, Bridge, Ch!Count
  <2>4. v10' = v10 /\ Counted' BY <1>0, <1>5, <2>1 DEF Counted, Ch!EnsureAlive
  <2>5. CASE b.port = v1.port \/ v1.port = 0 \/ v3 = None
    <3>1. v13' = v13 /\ v4' = v4 BY <2>1, <2>5
    <3>2. Boxed' BY <1>0, <1>1, <3>1 DEF Boxed
    <3>3. Follows => Follows' BY <1>1, <2>1, <2>4, <2>5, <3>1 DEF Follows
    <3> QED BY <1>0, <1>2, <2>3, <2>4, <3>1, <3>2, <3>3 DEF ChatInv
  <2>6. CASE v13' = v13 + 1 /\ v4' = v4
    <3>1. Boxed' /\ v13' # 0 BY <1>0, <1>1, <2>6 DEF Boxed, Counted
    <3> QED BY <1>2, <2>3, <2>4, <3>1 DEF ChatInv
  <2>7. CASE /\ v3 # None /\ v13' = v13
             /\ v4' = [v4 EXCEPT ![v3] = Ch!Provisioned(@, b.port)]
    <3>1. v3 \in Box /\ b.port \in Nat BY <1>0, <2>2, <2>7 DEF Boxed, Bridge
    <3>2. v4' \in [Box -> BoxState] /\ v4'[v3].port = b.port /\ v4'[v3].key = v10
      BY <1>0, <2>7, <3>1, Provides DEF Boxed, Counted
    <3>3. Boxed' BY <1>0, <1>1, <3>2 DEF Boxed
    <3>4. v10 \in 1..v10 BY <1>0 DEF Counted
    <3>5. Follows => Follows' BY <1>1, <2>1, <2>4, <3>2, <3>4 DEF Follows
    <3> QED BY <1>0, <1>2, <2>3, <2>4, <2>7, <3>3, <3>5 DEF ChatInv
  <2> QED BY <2>1, <2>5, <2>6, <2>7
<1> QED BY <1>3, <1>4, <1>5

LEMMA Restarts ==
  ASSUME ChatInv, NEW clean \in BOOLEAN, Ch!Restart(clean)
  PROVE  ChatInv'
<1>0. Bridged /\ Boxed /\ Counted BY DEF ChatInv
<1>1. /\ v3' = None /\ v10' = v10 /\ v13' = v13
      /\ v4' = v4 \/ \E b : v4' = [v4 EXCEPT ![b] = Ch!NoBox]
      /\ v6' = [u \in ChatUser |-> None] /\ v7' = [u \in ChatUser |-> Ch!Quiet]
      /\ v8' = [u \in ChatUser |-> FALSE]
  BY DEF Ch!Restart, Ch!historyVars
<1>2. Bridged'
  <2>1. PICK b : b = [proc |-> "dead", port |-> 0] OBVIOUS
  <2>2. b \in Bridge BY <2>1 DEF Bridge
  <2>3. PICK c \in Ch!Start(b, v2) : v1' = c /\ Ch!Count(c) BY <2>1 DEF Ch!Restart
  <2>4. c \in Bridge BY <1>0, <2>2, BridgeStarts DEF Bridged
  <2> QED BY <1>0, <2>3, <2>4 DEF Bridged, Bridge, Ch!Count
<1>3. Ch!NoBox \in BoxState BY DEF Ch!NoBox, BoxState
<1>4. Ch!Quiet \in Sent /\ Ch!Quiet.at = "idle" BY DEF Ch!Quiet, Sent
<1>5. Boxed' BY <1>0, <1>1, <1>3 DEF Boxed
<1>6. Counted' /\ Chats' BY <1>0, <1>1, <1>4 DEF Counted, Chats
<1>7. Follows' BY <1>1, <1>4 DEF Follows
<1> QED BY <1>2, <1>5, <1>6, <1>7 DEF ChatInv

LEMMA BoxesGo ==
  ASSUME ChatInv, NEW b \in Box, NEW how \in {"stopped", "absent"}, Ch!BoxGoes(b, how)
  PROVE  ChatInv'
<1>0. Bridged /\ Boxed /\ Counted /\ Chats BY DEF ChatInv
<1>1. UNCHANGED <<v1, v2, v3, v6, v7, v8, v10>> /\ v13' = v13 + 1
  BY DEF Ch!BoxGoes, Ch!Fault, Ch!bridgeVars, Ch!keyVars
<1>2. Ch!NoBox \in BoxState BY DEF Ch!NoBox, BoxState
<1>3. \/ v4' = [v4 EXCEPT ![b].state = "stopped"] \/ v4' = [v4 EXCEPT ![b] = Ch!NoBox]
  BY DEF Ch!BoxGoes
<1>4. v4' \in [Box -> BoxState] BY <1>0, <1>2, <1>3, StateOnly DEF Boxed
<1>5. Bridged' /\ Boxed' /\ Counted' /\ Chats' /\ v13' # 0
  BY <1>0, <1>1, <1>4 DEF Bridged, Boxed, Counted, Chats
<1> QED BY <1>5 DEF ChatInv

\* A chat begins in a container.
LEMMA Joined ==
  ASSUME ChatInv, NEW u \in ChatUser, v6[u] = None, NEW b \in Box, Ch!Joins(u, b),
         v7' = v7, v8' = v8
  PROVE  /\ Chats'
         /\ v13 = 0 /\ v3 \in {b, None} /\ v3' = b
              => \A w \in ChatUser : v6'[w] # None => v6'[w].box = v3'
         /\ v13 = 0 /\ v3 = None => \A w \in ChatUser : v7[w].at # "run"
<1>0. Chats /\ (v13 = 0 => Follows) /\ Boxed BY DEF ChatInv
<1>1. PICK r : r = [box |-> b, conv |-> None] OBVIOUS
<1>2. r \in ChatBox /\ r.box = b BY <1>1 DEF ChatBox
<1>3. v6' = [v6 EXCEPT ![u] = r] BY <1>1 DEF Ch!Joins
<1>4. DOMAIN v6' = ChatUser /\ \A w \in ChatUser : v6'[w] = IF w = u THEN r ELSE v6[w]
  BY <1>0, <1>3 DEF Chats
<1>5. \A w \in ChatUser : v7[w].at = "run" \/ v8[w] => w # u BY <1>0 DEF Chats
<1>6. Chats' BY <1>0, <1>2, <1>4, <1>5 DEF Chats
<1>7. v13 = 0 /\ v3 = None => \A w \in ChatUser : v6[w] = None
  BY <1>0, OfChats DEF Follows, Chats, ChatBox
<1>8. v13 = 0 /\ v3 \in {b, None} /\ v3' = b
        => \A w \in ChatUser : v6'[w] # None => v6'[w].box = v3'
  BY <1>0, <1>2, <1>4, <1>7 DEF Follows
<1> QED BY <1>0, <1>6, <1>7, <1>8 DEF Chats

LEMMA Takes ==
  ASSUME ChatInv, NEW u \in ChatUser,
         Ch!TakeCached(u) \/ Ch!TakeRunning(u) \/ Ch!TakeNew(u)
  PROVE  ChatInv'
<1>0. Bridged /\ Boxed /\ Counted /\ Chats /\ (v13 = 0 => Follows) BY DEF ChatInv
<1>1. v1' = v1 /\ v2' = v2 /\ v7' = v7 /\ v8' = v8 /\ v10' = v10 /\ v6[u] = None
  BY DEF Ch!TakeCached, Ch!TakeRunning, Ch!TakeNew, Ch!bridgeVars, Ch!keyVars
<1>2. Bridged' /\ v1.port \in Nat BY <1>0, <1>1 DEF Bridged, Bridge
<1>3. CASE Ch!TakeCached(u)
  <2>1. /\ v3 # None /\ v3' = v3 /\ v13' = v13 /\ Ch!Joins(u, v3)
        /\ v4' = [v4 EXCEPT ![v3].state = "running"]
    BY <1>3 DEF Ch!TakeCached
  <2>2. v3 \in Box BY <1>0, <2>1 DEF Boxed
  <2>3. /\ v4' \in [Box -> BoxState]
        /\ \A c \in Box : v4'[c].port = v4[c].port /\ v4'[c].key = v4[c].key
    BY <1>0, <2>1, <2>2, StateOnly DEF Boxed
  <2>4. Boxed' /\ Counted' BY <1>0, <1>1, <2>1, <2>3 DEF Boxed, Counted
  <2>5. Chats' BY <1>1, <2>1, <2>2, Joined
  <2>6. v13 = 0 => \A w \in ChatUser : v6'[w] # None => v6'[w].box = v3'
    BY <1>1, <2>1, <2>2, Joined
  <2>7. v13 = 0 => Follows' BY <1>0, <1>1, <2>1, <2>2, <2>3, <2>6 DEF Follows
  <2> QED BY <1>2, <2>1, <2>4, <2>5, <2>7 DEF ChatInv
<1>4. ASSUME NEW b \in Box, v3' = b, Ch!Uncached, Ch!Joins(u, b),
             v4' = [v4 EXCEPT ![b] = Ch!Provisioned(@, v1.port)]
      PROVE  ChatInv'
  <2>1. IF v3 = None THEN v13' = v13 ELSE v13' = v13 + 1
    BY <1>4 DEF Ch!Uncached, Ch!Fine, Ch!Fault
  <2>2. v4' \in [Box -> BoxState] /\ v4'[b].port = v1.port /\ v4'[b].key = v10
    BY <1>0, <1>2, <1>4, Provides DEF Boxed, Counted
  <2>3. Boxed' /\ Counted' BY <1>0, <1>1, <1>4, <2>1, <2>2 DEF Boxed, Counted
  <2>4. Chats' BY <1>1, <1>4, Joined
  <2>5. v13' = 0 => v13 = 0 /\ v3 = None BY <1>0, <2>1 DEF Counted
  <2>6. v13' = 0 => /\ \A w \in ChatUser : v6'[w] # None => v6'[w].box = v3'
                    /\ \A w \in ChatUser : v7[w].at # "run"
    BY <1>1, <1>4, <2>5, Joined
  <2>7. v10 \in 1..v10 BY <1>0 DEF Counted
  <2>8. v13' = 0 => Follows' BY <1>0, <1>1, <1>4, <2>2, <2>5, <2>6, <2>7 DEF Follows
  <2> QED BY <1>2, <2>3, <2>4, <2>8 DEF ChatInv
<1>5. ASSUME v3' \in Box \cup {None}, v4' = v4 \/ \E b \in Box : v4' = [v4 EXCEPT ![b].state = "running"],
             v6' = v6, Ch!Fault
      PROVE  ChatInv'
  <2>1. v4' \in [Box -> BoxState] BY <1>0, <1>5, StateOnly DEF Boxed
  <2>2. v13' # 0 /\ Counted' BY <1>0, <1>1, <1>5 DEF Counted, Ch!Fault
  <2>3. Boxed' /\ Chats' BY <1>0, <1>1, <1>5, <2>1 DEF Boxed, Chats
  <2> QED BY <1>2, <2>2, <2>3 DEF ChatInv
<1>6. CASE Ch!TakeRunning(u)
  <2>1. PICK b \in Box : /\ v3' = b
          /\ \/ /\ Ch!Uncached /\ Ch!Joins(u, b)
                /\ v4' = [v4 EXCEPT ![b] = Ch!Provisioned(@, v1.port)]
             \/ Ch!Fault /\ v4' = v4 /\ v6' = v6
    BY <1>6 DEF Ch!TakeRunning, Ch!Running
  <2> QED BY <1>4, <1>5, <2>1
<1>7. CASE Ch!TakeNew(u)
  <2>1. PICK b \in Box :
          \/ /\ v3' = b /\ Ch!Uncached /\ Ch!Joins(u, b)
             /\ v4' = [v4 EXCEPT ![b] = Ch!Provisioned(@, v1.port)]
          \/ /\ v3' = None /\ Ch!Fault /\ v6' = v6
             /\ v4' = [v4 EXCEPT ![b].state = "running"]
    BY <1>7 DEF Ch!TakeNew
  <2> QED BY <1>4, <1>5, <2>1
<1> QED BY <1>3, <1>6, <1>7

\* Where a message can be after a step.
GoesTo(u) ==
  \/ v7'[u] = v7[u] \/ v7'[u].at \in {"answer", "none"}
  \/ v7'[u].at = "run" /\ v7'[u].try = 1
  \/ v13 # 0 \/ v10 > 2
  \/ v7'[u].at = "run" /\ v10 = 2 /\ v4'[v3].key = v10

\* What a chat does leaves the bridge, the cache and the counters alone, but for docker
\* that fails.
LEMMA ChatGoesOn ==
  ASSUME ChatInv, UNCHANGED <<v1, v2, v3, v10>>, v13' = v13 \/ v13' = v13 + 1,
         v4' \in [Box -> BoxState], Chats',
         \A u \in ChatUser : v6[u] # None /\ v6'[u] # None => v6'[u].box = v6[u].box,
         \A u \in ChatUser : v6[u] = None => v6'[u] = None,
         v13' = v13 => \A c \in Box :
           /\ v4'[c].port = v4[c].port
           /\ v4'[c].key = v4[c].key \/ v4'[c].key = v10,
         v13' = v13 => \A u \in ChatUser : GoesTo(u)
  PROVE  ChatInv'
<1>0. Bridged /\ Boxed /\ Counted /\ Chats /\ (v13 = 0 => Follows) BY DEF ChatInv
<1>1. Bridged' /\ Boxed' /\ Counted' BY <1>0 DEF Bridged, Boxed, Counted
<1>2. v13' = 0 => v13 = 0 /\ v13' = v13 BY <1>0 DEF Counted
<1>3. ASSUME v13' = 0 PROVE Follows'
  <2>1. Follows /\ v13 = 0 /\ v13' = v13 BY <1>0, <1>2, <1>3
  <2>2. \A u \in ChatUser : v6'[u] # None => v6'[u].box = v3' BY <2>1 DEF Follows
  <2>3. v3 # None => /\ v3 \in Box /\ v4'[v3].port \in {v1.port, 0}
                     /\ v4'[v3].key \in 1..v10
    <3>1. v10 \in 1..v10 BY <1>0 DEF Counted
    <3> QED BY <1>0, <2>1, <3>1 DEF Follows, Boxed
  <2>4. ASSUME v10 <= 2, NEW u \in ChatUser
        PROVE  /\ v7'[u].at # "wrong"
               /\ v7'[u].at = "run" /\ v7'[u].try # 1 => v10 = 2 /\ v4'[v3].key = v10
    <3>1. ~(v10 > 2) BY <1>0, <2>4 DEF Counted
    <3>2. CASE v7'[u] = v7[u]
      <4>1. v7[u].at # "wrong" /\ (v7[u].at = "run" /\ v7[u].try # 1 => v10 = 2 /\ v4[v3].key = v10)
        BY <2>1, <2>4 DEF Follows
      <4>2. v7[u].at = "run" => v3 \in Box
        BY <1>0, <2>1 DEF Chats, Follows, ChatBox
      <4>3. v3 \in Box /\ v4[v3].key = v10 => v4'[v3].key = v10 BY <2>1
      <4> QED BY <3>2, <4>1, <4>2, <4>3
    <3>3. CASE v7'[u].at \in {"answer", "none"} BY <3>3
    <3>4. CASE v7'[u].at = "run" /\ v7'[u].try = 1 BY <3>4
    <3>5. CASE v7'[u].at = "run" /\ v10 = 2 /\ v4'[v3].key = v10 BY <3>5
    <3> QED BY <2>1, <3>1, <3>2, <3>3, <3>4, <3>5 DEF GoesTo
  <2> QED BY <2>2, <2>3, <2>4 DEF Follows
<1> QED BY <1>1, <1>3 DEF ChatInv

\* A message runs, and exec_async starts the container.
LEMMA RunsAgain ==
  ASSUME ChatInv, NEW u \in ChatUser, v6[u] # None, NEW try \in 1..3, Ch!Runs(u, try),
         v6' = v6, v8' = v8
  PROVE  /\ Chats' /\ v4' \in [Box -> BoxState]
         /\ \A c \in Box : v4'[c].port = v4[c].port /\ v4'[c].key = v4[c].key
         /\ v7'[u].at = "run" /\ v7'[u].try = try
         /\ \A w \in ChatUser : w # u => v7'[w] = v7[w]
<1>0. Boxed /\ Chats BY DEF ChatInv
<1>1. PICK b \in Box : b = v6[u].box BY <1>0 DEF Chats, ChatBox
<1>2. PICK m : m = [at |-> "run", try |-> try, conv |-> v6[u].conv] OBVIOUS
<1>3. m \in Sent /\ m.at = "run" /\ m.try = try
  BY <1>0, <1>2 DEF Chats, ChatBox, Sent
<1>4. v7' = [v7 EXCEPT ![u] = m] /\ v4' = [v4 EXCEPT ![b].state = "running"]
  BY <1>1, <1>2 DEF Ch!Runs
<1>5. /\ v4' \in [Box -> BoxState]
      /\ \A c \in Box : v4'[c].port = v4[c].port /\ v4'[c].key = v4[c].key
  BY <1>0, <1>4, StateOnly DEF Boxed
<1>6. /\ v7' \in [ChatUser -> Sent] /\ v7'[u] = m
      /\ \A w \in ChatUser : w # u => v7'[w] = v7[w]
  BY <1>0, <1>3, <1>4 DEF Chats
<1>7. Chats' BY <1>0, <1>3, <1>6 DEF Chats
<1> QED BY <1>3, <1>5, <1>6, <1>7

LEMMA Sends ==
  ASSUME ChatInv, NEW u \in ChatUser, Ch!Send(u)
  PROVE  ChatInv'
<1>1. /\ v6[u] # None /\ Ch!Runs(u, 1) /\ v6' = v6 /\ v8' = v8
      /\ UNCHANGED <<v1, v2, v3, v10>> /\ v13' = v13
  BY DEF Ch!Send, Ch!bridgeVars, Ch!keyVars
<1>2. 1 \in 1..3 OBVIOUS
<1>3. /\ Chats' /\ v4' \in [Box -> BoxState]
      /\ \A c \in Box : v4'[c].port = v4[c].port /\ v4'[c].key = v4[c].key
      /\ v7'[u].at = "run" /\ v7'[u].try = 1
      /\ \A w \in ChatUser : w # u => v7'[w] = v7[w]
  BY <1>1, <1>2, RunsAgain
<1> QED BY <1>1, <1>3, ChatGoesOn DEF GoesTo

LEMMA Announces ==
  ASSUME ChatInv, NEW u \in ChatUser, Ch!Announce(u)
  PROVE  ChatInv'
<1>0. Boxed /\ Chats BY DEF ChatInv
<1>1. v7[u].at = "run" /\ UNCHANGED <<v1, v2, v3, v4, v8, v10, v13>>
  BY DEF Ch!Announce, Ch!bridgeVars, Ch!keyVars
<1>2. v6[u] # None /\ v6[u] \in ChatBox /\ v7[u] \in Sent BY <1>0, <1>1 DEF Chats
<1>3. \/ \E c \in Talk : /\ v6' = [v6 EXCEPT ![u].conv = c]
                         /\ v7' = [v7 EXCEPT ![u].conv = c, ![u].at = "answer"]
      \/ /\ v6' = [v6 EXCEPT ![u].conv = v7[u].conv]
         /\ v7' = [v7 EXCEPT ![u].at = "answer"]
      \/ v6' = v6 /\ v7' = [v7 EXCEPT ![u].at = "none"]
  BY DEF Ch!Announce
<1>4. \E c \in Talk \cup {None}, at \in {"answer", "none"} :
        /\ v6' = v6 \/ v6' = [v6 EXCEPT ![u].conv = c]
        /\ \/ v7' = [v7 EXCEPT ![u].conv = c, ![u].at = at]
           \/ v7' = [v7 EXCEPT ![u].at = at]
  BY <1>2, <1>3 DEF Sent
<1>5. PICK c \in Talk \cup {None}, at \in {"answer", "none"} :
        /\ v6' = v6 \/ v6' = [v6 EXCEPT ![u].conv = c]
        /\ \/ v7' = [v7 EXCEPT ![u].conv = c, ![u].at = at]
           \/ v7' = [v7 EXCEPT ![u].at = at]
  BY <1>4
<1>6. PICK m \in Sent : m.at = at /\ v7' = [v7 EXCEPT ![u] = m]
  <2>1. PICK m : m = [v7[u] EXCEPT !.conv = c, !.at = at] OBVIOUS
  <2>2. PICK n : n = [v7[u] EXCEPT !.at = at] OBVIOUS
  <2>3. m \in Sent /\ m.at = at BY <1>2, <2>1 DEF Sent
  <2>4. n \in Sent /\ n.at = at BY <1>2, <2>2 DEF Sent
  <2>5. v7' = [v7 EXCEPT ![u] = m] \/ v7' = [v7 EXCEPT ![u] = n]
    BY <1>0, <1>5, <2>1, <2>2 DEF Chats
  <2> QED BY <2>3, <2>4, <2>5
<1>7. PICK r \in ChatBox : r.box = v6[u].box /\ (v6' = v6 \/ v6' = [v6 EXCEPT ![u] = r])
  <2>1. PICK r : r = [v6[u] EXCEPT !.conv = c] OBVIOUS
  <2>2. r \in ChatBox /\ r.box = v6[u].box BY <1>2, <2>1 DEF ChatBox
  <2> QED BY <1>5, <2>1, <2>2
<1>8. /\ v7' \in [ChatUser -> Sent] /\ v7'[u].at = at /\ v7'[u].at # "run"
      /\ \A w \in ChatUser : w # u => v7'[w] = v7[w]
  BY <1>0, <1>6 DEF Chats
<1>9. /\ DOMAIN v6' = ChatUser /\ v6'[u] \in ChatBox /\ v6'[u].box = v6[u].box
      /\ \A w \in ChatUser : w # u => v6'[w] = v6[w]
  BY <1>0, <1>2, <1>7 DEF Chats
<1>10. v6'[u] # None BY <1>9, OfChats
<1>11. Chats' BY <1>0, <1>1, <1>8, <1>9, <1>10 DEF Chats
<1> QED BY <1>0, <1>1, <1>2, <1>8, <1>9, <1>11, ChatGoesOn DEF Boxed, GoesTo

LEMMA Refuses ==
  ASSUME ChatInv, NEW u \in ChatUser, Ch!Refused(u)
  PROVE  ChatInv'
<1>0. Boxed /\ Chats /\ Counted /\ (v13 = 0 => Follows) BY DEF ChatInv
<1>1. /\ v7[u].at = "run" /\ v6' = v6 /\ v8' = v8 /\ UNCHANGED <<v1, v2, v3, v10>>
      /\ v4[v6[u].box].key # v10
  BY DEF Ch!Refused, Ch!bridgeVars, Ch!historyVars
<1>2. v6[u] # None /\ v6[u] \in ChatBox /\ v7[u] \in Sent BY <1>0, <1>1 DEF Chats
<1>3. PICK b \in Box : b = v6[u].box BY <1>2 DEF ChatBox
<1>4. v13 = 0 => /\ b = v3 /\ v4[b].key \in 1..v10 /\ v10 # 1
                 /\ v10 > 2 \/ v7[u].try = 1
  <2> SUFFICES ASSUME v13 = 0 PROVE /\ b = v3 /\ v4[b].key \in 1..v10 /\ v10 # 1
                                    /\ v10 > 2 \/ v7[u].try = 1
    OBVIOUS
  <2>1. b = v3 /\ v3 # None BY <1>0, <1>2, <1>3, OfChats DEF Follows
  <2>2. v4[b].key \in 1..v10 BY <1>0, <2>1 DEF Follows
  <2>3. v10 <= 2 => v7[u].try = 1 BY <1>0, <1>1, <1>3, <2>1 DEF Follows
  <2> QED BY <1>0, <1>1, <1>3, <2>1, <2>2, <2>3 DEF Counted
<1>5. CASE v7[u].try = 1
  <2>1. PICK m : m = [at |-> "run", try |-> 2, conv |-> v6[u].conv] OBVIOUS
  <2>2. m \in Sent /\ m.at = "run" /\ m.try # 0 BY <1>2, <2>1 DEF ChatBox, Sent
  <2>3. v7' = [v7 EXCEPT ![u] = m] BY <1>5, <2>1 DEF Ch!Refused
  <2>4. /\ v7' \in [ChatUser -> Sent] /\ v7'[u] = m
        /\ \A w \in ChatUser : w # u => v7'[w] = v7[w]
    BY <1>0, <2>2, <2>3 DEF Chats
  <2>5. Chats' BY <1>0, <1>1, <1>2, <2>2, <2>4 DEF Chats
  <2>6. \/ /\ v13' = v13
           /\ v4' = [v4 EXCEPT ![b].state = "running", ![b].key = v10]
        \/ /\ IF v4[b].key = 0 THEN v13' = v13 ELSE v13' = v13 + 1
           /\ v4' = [v4 EXCEPT ![b].state = "running"]
    BY <1>3, <1>5 DEF Ch!Refused, Ch!ForcedKey, Ch!Fine, Ch!Fault
  <2>7. CASE v13' = v13 /\ v4' = [v4 EXCEPT ![b].state = "running", ![b].key = v10]
    <3>1. /\ v4' \in [Box -> BoxState] /\ v4'[b].port = v4[b].port /\ v4'[b].key = v10
          /\ \A c \in Box : c # b => v4'[c] = v4[c]
      BY <1>0, <2>7, KeyWritten DEF Boxed, Counted
    <3>2. v13 = 0 => v10 > 2 \/ (v10 = 2 /\ v4'[v3].key = v10)
      BY <1>0, <1>4, <3>1 DEF Counted
    <3>3. \A w \in ChatUser : GoesTo(w) BY <2>2, <2>4, <3>2 DEF GoesTo
    <3> QED BY <1>1, <2>5, <2>7, <3>1, <3>3, ChatGoesOn
  <2>8. CASE /\ IF v4[b].key = 0 THEN v13' = v13 ELSE v13' = v13 + 1
             /\ v4' = [v4 EXCEPT ![b].state = "running"]
    <3>1. /\ v4' \in [Box -> BoxState]
          /\ \A c \in Box : v4'[c].port = v4[c].port /\ v4'[c].key = v4[c].key
      BY <1>0, <2>8, StateOnly DEF Boxed
    <3>2. v13' = v13 => v13 # 0 BY <1>0, <1>4, <2>8 DEF Counted
    <3>3. v13' = v13 \/ v13' = v13 + 1 BY <2>8
    <3>4. v13 # 0 => \A w \in ChatUser : GoesTo(w) BY DEF GoesTo
    <3> QED BY <1>1, <2>5, <3>1, <3>2, <3>3, <3>4, ChatGoesOn
  <2> QED BY <2>6, <2>7, <2>8
<1>6. CASE v7[u].try = 2
  <2>1. Ch!Runs(u, 3) /\ v13' = v13 BY <1>6 DEF Ch!Refused, Ch!Fine
  <2>2. 3 \in 1..3 OBVIOUS
  <2>3. /\ Chats' /\ v4' \in [Box -> BoxState]
        /\ \A c \in Box : v4'[c].port = v4[c].port /\ v4'[c].key = v4[c].key
        /\ \A w \in ChatUser : w # u => v7'[w] = v7[w]
    BY <1>1, <1>2, <2>1, <2>2, RunsAgain
  <2>4. v13 = 0 => v10 > 2 BY <1>4, <1>6
  <2>5. \A w \in ChatUser : GoesTo(w) BY <2>3, <2>4 DEF GoesTo
  <2> QED BY <1>1, <2>1, <2>3, <2>5, ChatGoesOn
<1>7. CASE v7[u].try = 3
  <2>1. v7' = [v7 EXCEPT ![u].at = "wrong"] /\ v13' = v13 /\ v4' = v4
    BY <1>7 DEF Ch!Refused, Ch!Fine
  <2>2. PICK m : m = [v7[u] EXCEPT !.at = "wrong"] OBVIOUS
  <2>3. m \in Sent /\ m.at = "wrong" BY <1>2, <2>2 DEF Sent
  <2>4. /\ v7' \in [ChatUser -> Sent] /\ v7'[u] = m
        /\ \A w \in ChatUser : w # u => v7'[w] = v7[w]
    BY <1>0, <2>1, <2>2, <2>3 DEF Chats
  <2>5. Chats' BY <1>0, <1>1, <2>3, <2>4 DEF Chats
  <2>6. v13 = 0 => v10 > 2 BY <1>4, <1>7
  <2>7. \A w \in ChatUser : GoesTo(w) BY <2>4, <2>6 DEF GoesTo
  <2> QED BY <1>0, <1>1, <2>1, <2>5, <2>7, ChatGoesOn DEF Boxed
<1>8. v7[u].try = 1 \/ v7[u].try = 2 \/ v7[u].try = 3
  <2>1. v7[u].try \in 0..3 /\ v7[u].try # 0 BY <1>0, <1>1, <1>2 DEF Chats, Sent
  <2> QED BY <2>1
<1> QED BY <1>5, <1>6, <1>7, <1>8

LEMMA Clears ==
  ASSUME ChatInv, NEW u \in ChatUser, Ch!Reset(u) \/ Ch!Clear(u)
  PROVE  ChatInv'
<1>0. Boxed /\ Chats BY DEF ChatInv
<1>1. v7' = v7 /\ UNCHANGED <<v1, v2, v3, v10, v13>>
  BY DEF Ch!Reset, Ch!Clear, Ch!bridgeVars, Ch!keyVars
<1>2. v6[u] # None /\ v6[u] \in ChatBox BY <1>0 DEF Chats, Ch!Reset, Ch!Clear
<1>3. CASE Ch!Reset(u)
  <2>1. PICK r : r = [v6[u] EXCEPT !.conv = None] OBVIOUS
  <2>2. r \in ChatBox /\ r.box = v6[u].box BY <1>2, <2>1 DEF ChatBox
  <2>3. /\ v6' = [v6 EXCEPT ![u] = r] /\ v8' = [v8 EXCEPT ![u] = TRUE] /\ v4' = v4
    BY <1>3, <2>1 DEF Ch!Reset
  <2>4. /\ DOMAIN v6' = ChatUser /\ v6'[u] = r
        /\ \A w \in ChatUser : w # u => v6'[w] = v6[w]
    BY <1>0, <2>3 DEF Chats
  <2>5. Chats' BY <1>0, <1>1, <2>2, <2>3, <2>4, OfChats DEF Chats
  <2> QED BY <1>0, <1>1, <1>2, <2>2, <2>3, <2>4, <2>5, ChatGoesOn DEF Boxed, GoesTo
<1>4. CASE Ch!Clear(u)
  <2>1. PICK b \in Box : b = v6[u].box BY <1>2 DEF ChatBox
  <2>2. /\ v6' = v6 /\ v8' = [v8 EXCEPT ![u] = FALSE]
        /\ v4' = [v4 EXCEPT ![b].state = "running"]
    BY <1>4, <2>1 DEF Ch!Clear
  <2>3. /\ v4' \in [Box -> BoxState]
        /\ \A c \in Box : v4'[c].port = v4[c].port /\ v4'[c].key = v4[c].key
    BY <1>0, <2>2, StateOnly DEF Boxed
  <2>4. DOMAIN v8' = ChatUser /\ \A w \in ChatUser : v8'[w] => v8[w] BY <1>0, <2>2 DEF Chats
  <2>5. Chats' BY <1>0, <1>1, <2>2, <2>4 DEF Chats
  <2> QED BY <1>1, <2>2, <2>3, <2>5, ChatGoesOn DEF GoesTo
<1> QED BY <1>3, <1>4

LEMMA ChatStep == ChatInv /\ [Ch!Next]_(Ch!vars) => ChatInv'
<1> SUFFICES ASSUME ChatInv, [Ch!Next]_(Ch!vars) PROVE ChatInv' OBVIOUS
<1>1. CASE UNCHANGED Ch!vars
  BY <1>1 DEF Ch!vars, Ch!bridgeVars, Ch!keyVars, ChatInv, Bridged, Boxed, Counted, Chats, Follows
<1>2. CASE Ch!BridgeDies \/ Ch!EnsureAlive \/ Ch!NewKey BY <1>2, BridgeLives
<1>3. ASSUME NEW clean \in BOOLEAN, Ch!Restart(clean) PROVE ChatInv' BY <1>3, Restarts
<1>4. ASSUME NEW b \in Box, NEW how \in {"stopped", "absent"}, Ch!BoxGoes(b, how)
      PROVE  ChatInv'
  BY <1>4, BoxesGo
<1>5. ASSUME NEW u \in ChatUser PROVE
      /\ Ch!TakeCached(u) \/ Ch!TakeRunning(u) \/ Ch!TakeNew(u) => ChatInv'
      /\ Ch!Send(u) => ChatInv'
      /\ Ch!Announce(u) => ChatInv'
      /\ Ch!Refused(u) => ChatInv'
      /\ Ch!Reset(u) \/ Ch!Clear(u) => ChatInv'
  <2>1. CASE Ch!TakeCached(u) \/ Ch!TakeRunning(u) \/ Ch!TakeNew(u) BY <2>1, Takes
  <2>2. CASE Ch!Reset(u) \/ Ch!Clear(u) BY <2>2, Clears
  <2> QED BY <2>1, <2>2, Sends, Announces, Refuses
<1> QED BY <1>1, <1>2, <1>3, <1>4, <1>5 DEF Ch!Next

LEMMA ChatFacts == ChatInv => Ch!ContainerFollowsBridge /\ Ch!GivesUpForCause
<1> SUFFICES ASSUME ChatInv PROVE Ch!ContainerFollowsBridge /\ Ch!GivesUpForCause OBVIOUS
<1>1. Boxed /\ Chats /\ Counted /\ (v13 = 0 => Follows) BY DEF ChatInv
<1>2. ASSUME NEW u \in ChatUser, v6[u] # None, v13 = 0
      PROVE  v4[v6[u].box].port \in {v1.port, 0}
  <2>1. v6[u].box = v3 /\ v3 # None BY <1>1, <1>2, OfChats DEF Follows, Chats, ChatBox
  <2> QED BY <1>1, <1>2, <2>1 DEF Follows
<1>3. ASSUME NEW u \in ChatUser, v7[u].at = "wrong" PROVE v13 > 0 \/ v10 > 2
  <2>1. v13 = 0 => ~(v10 <= 2) BY <1>1, <1>3 DEF Follows
  <2> QED BY <1>1, <2>1 DEF Counted
<1> QED BY <1>2, <1>3 DEF Ch!ContainerFollowsBridge, Ch!GivesUpForCause


-----------------------------------------------------------------------------
(* Telegram: sent is v4, pipe v5, handling v7, sessions v8, contexts v9,     *)
(* renew v10 and spoke v11.                                                  *)

LEMMA TelegramOnly ==
  /\ Init /\ Is("telegram") => Tg!Init
  /\ [Next]_all /\ Is("telegram") => [Tg!Next]_(Tg!vars)
BY DEF Init, Next, Is, Tg!vars, Tg!chat, Tg!bot, all

Post == [of : Nat, who : Person, kind : Tg!Kinds]

\* Who was told of a new chat has no session under the user id.
TeleInv ==
  /\ v4 \in Nat /\ v5 \in Seq(Post) /\ v7 \in Post \cup {None}
  /\ v8 \in [Tg!Key -> Nat] /\ v9 \in Nat /\ v11 \in [Person -> Nat]
  /\ \A p \in Person : v11[p] <= v9
  /\ \A p \in v10 : p \in Person /\ v8[<<"id", p>>] = 0

LEMMA TeleInit == Tg!Init => TeleInv
BY DEF Tg!Init, TeleInv, Tg!Key

LEMMA OwnKey ==
  ASSUME NEW p \in Person
  PROVE  Tg!KeyOf(p) = <<"id", p>> /\ <<"id", p>> \in Tg!Key
BY DEF Tg!KeyOf, Tg!Key

LEMMA TeleChat ==
  ASSUME TeleInv, Tg!Chat
  PROVE  TeleInv' /\ Tg!NewStartsOver
<1>1. PICK p \in Person : p = v7.who
  BY DEF Tg!Chat, TeleInv, Post
<1>2. PICK k \in Tg!Key : k = <<"id", p>> BY OwnKey
<1>3. PICK c : c = IF v8[k] = 0 THEN v9 + 1 ELSE v8[k] OBVIOUS
<1>4. /\ v8' = [v8 EXCEPT ![k] = c] /\ v9' = (IF c > v9 THEN c ELSE v9)
      /\ v10' = v10 \ {p} /\ v11' = [v11 EXCEPT ![p] = c]
  BY <1>1, <1>2, <1>3, OwnKey DEF Tg!Chat
<1>5. /\ v4' = v4 /\ v5' = v5 /\ v7' = None BY DEF Tg!Chat, Tg!Done
<1>6. c \in Nat /\ v9' \in Nat /\ c <= v9' /\ v9 <= v9'
  BY <1>3, <1>4 DEF TeleInv
<1>7. /\ v11' \in [Person -> Nat] /\ v11'[p] = c
      /\ \A q \in Person : q # p => v11'[q] = v11[q]
  BY <1>4, <1>6 DEF TeleInv
<1>8. /\ v8' \in [Tg!Key -> Nat] /\ \A l \in Tg!Key : l # k => v8'[l] = v8[l]
  BY <1>4, <1>6 DEF TeleInv
<1>9. \A q \in Person : v11'[q] <= v9' BY <1>6, <1>7 DEF TeleInv
<1>10. ASSUME NEW q \in v10' PROVE q \in Person /\ v8'[<<"id", q>>] = 0
  <2>1. q \in v10 /\ q # p /\ q \in Person /\ v8[<<"id", q>>] = 0
    BY <1>4, <1>10 DEF TeleInv
  <2>2. <<"id", q>> # k BY <1>2, <2>1
  <2> QED BY <1>8, <2>1, <2>2, OwnKey
<1>11. TeleInv' BY <1>5, <1>6, <1>7, <1>8, <1>9, <1>10 DEF TeleInv
<1>12. ASSUME NEW q \in Person, q \in v10, q \notin v10' PROVE v11'[q] # v11[q]
  <2>1. q = p BY <1>4, <1>12
  <2>2. c = v9 + 1 BY <1>2, <1>3, <1>12, <2>1 DEF TeleInv
  <2> QED BY <1>7, <2>1, <2>2 DEF TeleInv
<1> QED BY <1>11, <1>12 DEF Tg!NewStartsOver

LEMMA TeleNew ==
  ASSUME TeleInv, Tg!New
  PROVE  TeleInv'
<1>1. PICK p \in Person : p = v7.who
  BY DEF Tg!New, TeleInv, Post
<1>2. PICK k \in Tg!Key : k = <<"id", p>> BY OwnKey
<1>3. /\ v8' = [v8 EXCEPT ![k] = 0] /\ v10' = v10 \cup {p} /\ v7' = None
      /\ UNCHANGED <<v4, v5, v9, v11>>
  BY <1>1, <1>2 DEF Tg!New, Tg!Done
<1>4. v8' \in [Tg!Key -> Nat] /\ \A l \in Tg!Key : v8'[l] = IF l = k THEN 0 ELSE v8[l]
  BY <1>3 DEF TeleInv
<1>5. \A q \in v10' : q \in Person /\ v8'[<<"id", q>>] = 0
  BY <1>2, <1>3, <1>4, OwnKey DEF TeleInv
<1> QED BY <1>3, <1>4, <1>5 DEF TeleInv

\* A message leaves the people and the back end's sessions alone.
LEMMA TelePost ==
  ASSUME TeleInv, UNCHANGED <<v8, v9, v10, v11>>,
         v4' \in Nat, v5' \in Seq(Post), v7' \in Post \cup {None}
  PROVE  TeleInv' /\ Tg!NewStartsOver
BY DEF TeleInv, Tg!NewStartsOver

LEMMA TeleStep == TeleInv /\ [Tg!Next]_(Tg!vars) => TeleInv' /\ Tg!NewStartsOver
<1> SUFFICES ASSUME TeleInv, [Tg!Next]_(Tg!vars) PROVE TeleInv' /\ Tg!NewStartsOver
  OBVIOUS
<1>0. v4 \in Nat /\ v5 \in Seq(Post) /\ v7 \in Post \cup {None} BY DEF TeleInv
<1>1. CASE UNCHANGED <<v4, v5, v7, v8, v9, v10, v11>> BY <1>0, <1>1, TelePost
<1>2. CASE Tg!Disconnected
  BY <1>0, <1>2, TelePost DEF Tg!Disconnected, Tg!chat
<1>3. CASE Tg!Take
  <2>1. v5 # <<>> /\ v5' = Tail(v5) /\ v7' \in {None, Head(v5)}
        /\ UNCHANGED <<v4, v8, v9, v10, v11>>
    BY <1>3 DEF Tg!Take, Tg!chat
  <2>2. Tail(v5) \in Seq(Post) /\ Head(v5) \in Post BY <1>0, <2>1
  <2> QED BY <1>0, <2>1, <2>2, TelePost
<1>4. ASSUME NEW p \in Person, NEW k \in Tg!Kinds, Tg!Receive(p, k)
      PROVE  TeleInv' /\ Tg!NewStartsOver
  <2>1. PICK m : m = [of |-> v4 + 1, who |-> p, kind |-> k] OBVIOUS
  <2>2. m \in Post BY <1>0, <2>1 DEF Post
  <2>3. /\ v4' = v4 + 1 /\ v5' \in {v5, Append(v5, m)} /\ v7' = v7
        /\ UNCHANGED <<v8, v9, v10, v11>>
    BY <1>4, <2>1 DEF Tg!Receive, Tg!Message, Tg!chat
  <2> QED BY <1>0, <2>2, <2>3, TelePost
<1>5. CASE Tg!Chat BY <1>5, TeleChat
<1>6. CASE Tg!New
  <2>1. v10 \subseteq v10' BY <1>6 DEF Tg!New
  <2> QED BY <1>6, <2>1, TeleNew DEF Tg!NewStartsOver
<1>7. CASE Tg!HortRestart
  <2>1. /\ v8' = [k \in Tg!Key |-> 0] /\ v7' = None /\ UNCHANGED <<v4, v5, v9, v10, v11>>
    BY <1>7 DEF Tg!HortRestart, Tg!Done
  <2>2. \A q \in v10' : q \in Person /\ v8'[<<"id", q>>] = 0
    BY <2>1, OwnKey DEF TeleInv
  <2> QED BY <2>1, <2>2 DEF TeleInv, Tg!NewStartsOver
<1>8. CASE Tg!Command
  BY <1>0, <1>8, TelePost DEF Tg!Command, Tg!Done, Tg!chat
<1>9. CASE Tg!Connected \/ Tg!PollingFails \/ Tg!Deliver \/ Tg!Progress \/ Tg!CloseClient
  BY <1>1, <1>9
  DEF Tg!Connected, Tg!PollingFails, Tg!Deliver, Tg!Progress, Tg!CloseClient, Tg!chat
<1>10. ASSUME NEW r, Tg!Ask(r) \/ Tg!HortAnswers(r) \/ Tg!AskTimesOut(r) \/ Tg!AskFails(r)
       PROVE  TeleInv' /\ Tg!NewStartsOver
  BY <1>1, <1>10 DEF Tg!Ask, Tg!HortAnswers, Tg!AskTimesOut, Tg!AskFails, Tg!chat
<1>11. CASE UNCHANGED Tg!vars BY <1>1, <1>11 DEF Tg!vars, Tg!chat
<1> QED
  BY <1>2, <1>3, <1>4, <1>5, <1>6, <1>7, <1>8, <1>9, <1>10, <1>11 DEF Tg!Next

-----------------------------------------------------------------------------
\* Of all agent parts, what the three need.
KeptInv ==
  /\ Is("sandbox") => SandboxInv
  /\ Is("chat") => ChatInv
  /\ Is("telegram") => TeleInv

\* What a reaper is still to destroy has been idle longest, the metadata of a sandbox
\* goes last, chats follow the bridge to its port and give up only
\* for cause, and the first chat after /new starts over, for any sandboxes, chats,
\* messages and bounds (sandbox/reaper.py, session.py, chat_backend.py,
\* telegram_connector.py).
THEOREM SessionsAreKept == Spec => SessionsKept
<1>1. Init => KeptInv
  BY SandboxOnly, SandboxInit, ChatOnly, ChatInit, TelegramOnly, TeleInit DEF KeptInv
<1>2. KeptInv /\ [Next]_all
        => [/\ Is("sandbox") => Sb!UnlinkedIsGone
            /\ Is("telegram") => Tg!NewStartsOver]_all
  BY SandboxOnly, SandboxStep, TelegramOnly, TeleStep DEF KeptInv
<1>3. KeptInv /\ [Next]_all => KeptInv'
  <2> SUFFICES ASSUME KeptInv, [Next]_all PROVE KeptInv' OBVIOUS
  <2>1. part' = part BY PartStays
  <2>2. Is("sandbox") => SandboxInv' BY SandboxOnly, SandboxStep DEF KeptInv
  <2>3. Is("chat") => ChatInv' BY ChatOnly, ChatStep DEF KeptInv
  <2>4. Is("telegram") => TeleInv' BY TelegramOnly, TeleStep DEF KeptInv
  <2> QED BY <2>1, <2>2, <2>3, <2>4 DEF KeptInv, Is
<1>4. KeptInv => /\ Is("sandbox") => Sb!IdleLongestGoFirst
                 /\ Is("chat") => Ch!ContainerFollowsBridge /\ Ch!GivesUpForCause
  BY SandboxFair, ChatFacts DEF KeptInv
<1> QED BY <1>1, <1>2, <1>3, <1>4, PTL DEF Spec, SessionsKept

-----------------------------------------------------------------------------
(* Hole punching: nat is v1, opened v2, stage v3, at v4, found v5, inbox v6, *)
(* target v7, probes v8, heard v9 and net v10.                               *)

LEMMA PunchOnly ==
  /\ Init /\ Is("punch") => Hp!Init
  /\ [Next]_all /\ Is("punch") => [Hp!Next]_(Hp!vars)
BY DEF Init, Next, Is, Hp!vars, all

Stages == {"first", "second", "discover", "found", "signal", "punch", "punched", "failed"}
Endpoints == {StunServer[i] : i \in Nat} \cup {None}
About  == [public : Puncher \X Endpoints, nat : {"unknown", "symmetric", "port-restricted"}]

\* A datagram comes from the other peer, who has sent to where it goes.
FromOther(m) ==
  \E p \in Puncher : /\ m.from = Hp!Mapped(p, m.to) /\ m.to \in v2[p]
                     /\ m.to[1] = Hp!Other(p)

PunchTyped ==
  /\ DOMAIN v2 = Puncher /\ v3 \in [Puncher -> Stages] /\ v4 \in [Puncher -> Nat]
  /\ DOMAIN v5 = Puncher /\ v6 \in [Puncher -> Seq(About)]
  /\ DOMAIN v7 = Puncher /\ DOMAIN v9 = Puncher

\* Who is asked for an address tells his own, who gets one is told the other's.
Announced ==
  \A p \in Puncher :
    /\ v3[p] \in {"second", "found"} => v5[p] \in About /\ v5[p].public[1] = p
    /\ \A i \in 1..Len(v6[p]) : v6[p][i].public[1] = Hp!Other(p)
    /\ v3[p] = "punch" => v7[p][1] = Hp!Other(p)
    /\ v3[p] = "punched" => v9[p] # None

PathsWork ==
  \A p \in Puncher :
    v9[p] # None => Hp!Admits(Hp!Other(p), Hp!Goes(p, "DATA", v9[p]))

PunchInv == PunchTyped /\ Announced /\ PathsWork /\ \A m \in v10 : FromOther(m)

LEMMA TwoPunch ==
  \A p \in Puncher : /\ Hp!Other(p) \in Puncher /\ Hp!Other(p) # p
                     /\ Hp!Other(Hp!Other(p)) = p
                     /\ \A q \in Puncher : q # p => q = Hp!Other(p)
<1>1. PICK p \in Puncher, q \in Puncher : p # q /\ Puncher = {p, q}
  BY MCAgentsAssumption DEF Hp!HolePunchAssumption
<1>2. Hp!Other(p) = q /\ Hp!Other(q) = p BY <1>1 DEF Hp!Other
<1> QED BY <1>1, <1>2

LEMMA PunchInit == Hp!Init => PunchInv
<1> SUFFICES ASSUME Hp!Init PROVE PunchInv OBVIOUS
<1>1. /\ v2 = [p \in Puncher |-> {}] /\ v4 = [p \in Puncher |-> 1]
      /\ v3 = [p \in Puncher |-> IF Len(StunServer) < 2 THEN "discover" ELSE "first"]
      /\ v5 = [p \in Puncher |-> None] /\ v6 = [p \in Puncher |-> <<>>]
      /\ v7 = [p \in Puncher |-> None] /\ v9 = [p \in Puncher |-> None] /\ v10 = {}
  BY DEF Hp!Init
<1>2. PunchTyped BY <1>1 DEF PunchTyped, Stages
<1>3. Announced BY <1>1 DEF Announced
<1> QED BY <1>1, <1>2, <1>3 DEF PunchInv, PathsWork

\* Nothing a step of the STUN client or of the signaling does is about a datagram.
LEMMA PunchCalm ==
  ASSUME PunchInv, UNCHANGED <<v1, v2, v9, v10>>, PunchTyped', Announced'
  PROVE  PunchInv'
BY DEF PunchInv, PathsWork, FromOther, Hp!Admits, Hp!Goes, Hp!Mapped

\* A peer goes on to the next stage.
LEMMA StageOnly ==
  ASSUME PunchInv, UNCHANGED <<v1, v2, v5, v6, v7, v9, v10>>, NEW p \in Puncher,
         NEW st \in Stages \ {"second", "punch"}, v3' = [v3 EXCEPT ![p] = st],
         st = "found" => v3[p] = "second", st = "punched" => v9[p] # None, v4' = v4
  PROVE  PunchInv'
<1>1. PunchTyped /\ Announced BY DEF PunchInv
<1>2. PunchTyped' BY <1>1 DEF PunchTyped
<1>3. \A q \in Puncher : v3'[q] = IF q = p THEN st ELSE v3[q] BY <1>1 DEF PunchTyped
<1>4. Announced' BY <1>1, <1>3 DEF Announced
<1> QED BY <1>2, <1>4, PunchCalm

\* A server has said something.
LEMMA Found ==
  ASSUME PunchInv, UNCHANGED <<v1, v2, v4, v6, v7, v9, v10>>, NEW p \in Puncher,
         NEW st \in {"second", "found"}, v3' = [v3 EXCEPT ![p] = st],
         NEW r \in About, r.public[1] = p, v5' = [v5 EXCEPT ![p] = r]
  PROVE  PunchInv'
<1>1. PunchTyped /\ Announced BY DEF PunchInv
<1>2. PunchTyped' BY <1>1 DEF PunchTyped, Stages
<1>3. \A q \in Puncher : /\ v3'[q] = IF q = p THEN st ELSE v3[q]
                         /\ v5'[q] = IF q = p THEN r ELSE v5[q]
  BY <1>1 DEF PunchTyped
<1>4. Announced' BY <1>1, <1>3 DEF Announced
<1> QED BY <1>2, <1>4, PunchCalm

LEMMA Says ==
  ASSUME NEW p \in Puncher, NEW i \in Nat, NEW type \in {"unknown"},
         NEW r, r = Hp!Result(p, i, type)
  PROVE  r \in About /\ r.public[1] = p
<1>1. Hp!Mapped(p, StunServer[i]) \in Puncher \X Endpoints
      /\ Hp!Mapped(p, StunServer[i])[1] = p
  BY DEF Hp!Mapped, Endpoints
<1> QED BY <1>1 DEF Hp!Result, About

LEMMA Discovery ==
  ASSUME PunchInv, NEW p \in Puncher,
         \/ Hp!FirstAnswers(p) \/ Hp!FirstFails(p) \/ Hp!SecondAnswers(p)
         \/ Hp!SecondFails(p) \/ Hp!Discovers(p) \/ Hp!ServerFails(p)
  PROVE  PunchInv'
<1>0. PunchTyped /\ Announced BY DEF PunchInv
<1>1. CASE Hp!FirstAnswers(p)
  <2>1. PICK r : r = Hp!Result(p, 1, "unknown") OBVIOUS
  <2>2. /\ v5' = [v5 EXCEPT ![p] = r] /\ v3' = [v3 EXCEPT ![p] = "second"]
        /\ UNCHANGED <<v1, v2, v4, v6, v7, v9, v10>>
    BY <1>1, <2>1 DEF Hp!FirstAnswers, Hp!punchVars
  <2> QED BY <2>1, <2>2, Says, Found
<1>2. CASE Hp!Discovers(p)
  <2>1. PICK r : r = Hp!Result(p, v4[p], "unknown") OBVIOUS
  <2>2. /\ v5' = [v5 EXCEPT ![p] = r] /\ v3' = [v3 EXCEPT ![p] = "found"]
        /\ UNCHANGED <<v1, v2, v4, v6, v7, v9, v10>>
    BY <1>2, <2>1 DEF Hp!Discovers, Hp!punchVars
  <2>3. v4[p] \in Nat BY <1>0 DEF PunchTyped
  <2> QED BY <2>1, <2>2, <2>3, Says, Found
<1>3. CASE Hp!SecondAnswers(p)
  <2>1. v5[p] \in About /\ v5[p].public[1] = p
    BY <1>0, <1>3 DEF Announced, Hp!SecondAnswers
  <2>2. PICK type \in {"symmetric", "port-restricted"} :
          v5' = [v5 EXCEPT ![p].nat = type]
    BY <1>3 DEF Hp!SecondAnswers
  <2>3. PICK r : r = [v5[p] EXCEPT !.nat = type] OBVIOUS
  <2>4. r \in About /\ r.public[1] = p BY <2>1, <2>3 DEF About
  <2>5. /\ v5' = [v5 EXCEPT ![p] = r] /\ v3' = [v3 EXCEPT ![p] = "found"]
        /\ UNCHANGED <<v1, v2, v4, v6, v7, v9, v10>>
    BY <1>3, <2>2, <2>3 DEF Hp!SecondAnswers, Hp!punchVars
  <2> QED BY <2>4, <2>5, Found
<1>4. CASE Hp!FirstFails(p)
  <2>1. /\ UNCHANGED <<v1, v2, v4, v5, v6, v7, v9, v10>>
        /\ v3' = [v3 EXCEPT ![p] = "discover"]
    BY <1>4 DEF Hp!FirstFails, Hp!punchVars
  <2> QED BY <2>1, StageOnly DEF Stages
<1>5. CASE Hp!SecondFails(p)
  <2>1. /\ UNCHANGED <<v1, v2, v4, v5, v6, v7, v9, v10>> /\ v3[p] = "second"
        /\ v3' = [v3 EXCEPT ![p] = "found"]
    BY <1>5 DEF Hp!SecondFails, Hp!punchVars
  <2> QED BY <2>1, StageOnly DEF Stages
<1>6. CASE Hp!ServerFails(p)
  <2>1. UNCHANGED <<v1, v2, v5, v6, v7, v9, v10>>
    BY <1>6 DEF Hp!ServerFails, Hp!punchVars
  <2>2. CASE v3' = v3 /\ v4' = [v4 EXCEPT ![p] = @ + 1]
    <3>1. PunchTyped' BY <1>0, <2>1, <2>2 DEF PunchTyped
    <3>2. Announced' BY <1>0, <2>1, <2>2 DEF Announced
    <3> QED BY <2>1, <3>1, <3>2, PunchCalm
  <2>3. CASE v4' = v4 /\ v3' = [v3 EXCEPT ![p] = "failed"]
    BY <2>1, <2>3, StageOnly DEF Stages
  <2> QED BY <1>6, <2>2, <2>3 DEF Hp!ServerFails
<1> QED BY <1>1, <1>2, <1>3, <1>4, <1>5, <1>6

LEMMA Exchange ==
  ASSUME PunchInv, NEW p \in Puncher,
         Hp!Offer(p) \/ Hp!Answer(p) \/ Hp!NoAnswer(p) \/ Hp!Succeed(p) \/ Hp!GiveUp(p)
  PROVE  PunchInv'
<1>0. PunchTyped /\ Announced BY DEF PunchInv
<1>1. CASE Hp!Offer(p)
  <2>1. /\ v3' = [v3 EXCEPT ![p] = "signal"] /\ v3[p] = "found"
        /\ UNCHANGED <<v1, v2, v4, v5, v7, v9, v10>>
    BY <1>1 DEF Hp!Offer, Hp!punchVars
  <2>2. CASE v6' = v6 BY <2>1, <2>2, StageOnly DEF Stages
  <2>3. CASE v6' = [v6 EXCEPT ![Hp!Other(p)] = Append(@, v5[p])]
    <3>1. PICK q \in Puncher : q = Hp!Other(p) /\ Hp!Other(q) = p BY TwoPunch
    <3>2. v5[p] \in About /\ v5[p].public[1] = p BY <1>0, <2>1 DEF Announced
    <3>3. v6[q] \in Seq(About) BY <1>0 DEF PunchTyped
    <3>4. PICK s : s = Append(v6[q], v5[p]) OBVIOUS
    <3>10. s \in Seq(About) BY <3>2, <3>3, <3>4
    <3>5. \A i \in 1..Len(s) : s[i].public[1] = Hp!Other(q)
      BY <1>0, <3>1, <3>2, <3>3, <3>4, <3>10 DEF Announced
    <3>6. v6' = [v6 EXCEPT ![q] = s] BY <2>3, <3>1, <3>4
    <3>7. PunchTyped' BY <1>0, <2>1, <3>6, <3>10 DEF PunchTyped, Stages
    <3>8. \A r \in Puncher : /\ v3'[r] = IF r = p THEN "signal" ELSE v3[r]
                             /\ v6'[r] = IF r = q THEN s ELSE v6[r]
      BY <1>0, <2>1, <3>6 DEF PunchTyped
    <3>9. Announced' BY <1>0, <2>1, <3>5, <3>8 DEF Announced
    <3> QED BY <2>1, <3>7, <3>9, PunchCalm
  <2> QED BY <1>1, <2>2, <2>3 DEF Hp!Offer
<1>2. CASE Hp!Answer(p)
  <2>1. /\ v3' = [v3 EXCEPT ![p] = "punch"] /\ v6[p] # <<>>
        /\ v7' = [v7 EXCEPT ![p] = Head(v6[p]).public]
        /\ v6' = [v6 EXCEPT ![p] = Tail(@)]
        /\ UNCHANGED <<v1, v2, v4, v5, v9, v10>>
    BY <1>2 DEF Hp!Answer
  <2>2. v6[p] \in Seq(About) BY <1>0 DEF PunchTyped
  <2>3. PICK s : s = Tail(v6[p]) OBVIOUS
  <2>10. s \in Seq(About) BY <2>1, <2>2, <2>3
  <2>4. \A i \in 1..Len(s) : s[i].public[1] = Hp!Other(p)
    <3>1. \A i \in 1..Len(s) : i + 1 \in 1..Len(v6[p]) /\ s[i] = v6[p][i + 1]
      BY <2>1, <2>2, <2>3, <2>10
    <3> QED BY <1>0, <3>1 DEF Announced
  <2>5. Head(v6[p]).public[1] = Hp!Other(p) BY <1>0, <2>1, <2>2 DEF Announced
  <2>6. v6' = [v6 EXCEPT ![p] = s] BY <2>1, <2>3
  <2>7. PunchTyped' BY <1>0, <2>1, <2>6, <2>10 DEF PunchTyped, Stages
  <2>8. \A r \in Puncher : /\ v3'[r] = IF r = p THEN "punch" ELSE v3[r]
                           /\ v6'[r] = IF r = p THEN s ELSE v6[r]
                           /\ v7'[r] = IF r = p THEN Head(v6[p]).public ELSE v7[r]
    BY <1>0, <2>1, <2>6 DEF PunchTyped
  <2>9. Announced' BY <1>0, <2>1, <2>4, <2>5, <2>8 DEF Announced
  <2> QED BY <2>1, <2>7, <2>9, PunchCalm
<1>3. CASE Hp!NoAnswer(p) \/ Hp!Succeed(p) \/ Hp!GiveUp(p)
  <2>1. /\ UNCHANGED <<v1, v2, v4, v5, v6, v7, v9, v10>>
        /\ \/ v3' = [v3 EXCEPT ![p] = "failed"]
           \/ v3' = [v3 EXCEPT ![p] = "punched"] /\ v9[p] # None
    BY <1>3 DEF Hp!NoAnswer, Hp!Succeed, Hp!GiveUp, Hp!punchVars
  <2>2. CASE v3' = [v3 EXCEPT ![p] = "failed"] BY <2>1, <2>2, StageOnly DEF Stages
  <2>3. CASE v3' = [v3 EXCEPT ![p] = "punched"] /\ v9[p] # None
    BY <2>1, <2>3, StageOnly DEF Stages
  <2> QED BY <2>1, <2>2, <2>3
<1> QED BY <1>1, <1>2, <1>3

\* What has been sent to an address leaves it open.
LEMMA Punches ==
  ASSUME PunchInv, UNCHANGED <<v1, v3, v4, v5, v6, v7>>, NEW p \in Puncher,
         NEW dest, v2' = [v2 EXCEPT ![p] = @ \cup {dest}], dest[1] = Hp!Other(p),
         NEW type, v10' \subseteq v10 \cup {Hp!Goes(p, type, dest)},
         PathsWork, DOMAIN v9' = Puncher, \A q \in Puncher : v9[q] # None => v9'[q] # None,
         \A q \in Puncher : v9'[q] # None => Hp!Admits(Hp!Other(q), Hp!Goes(q, "DATA", v9'[q]))
  PROVE  PunchInv'
<1>0. PunchTyped /\ Announced /\ \A m \in v10 : FromOther(m) BY DEF PunchInv
<1>1. \A q \in Puncher : v2[q] \subseteq v2'[q] BY <1>0 DEF PunchTyped
<1>2. dest \in v2'[p] BY <1>0 DEF PunchTyped
<1>3. PunchTyped' /\ Announced' BY <1>0 DEF PunchTyped, Announced
<1>4. PathsWork' BY <1>1, TwoPunch DEF PathsWork, Hp!Admits, Hp!Goes, Hp!Mapped
<1>5. \A m \in v10 : FromOther(m)' BY <1>0, <1>1 DEF FromOther, Hp!Mapped
<1>6. PICK n : n = Hp!Goes(p, type, dest) OBVIOUS
<1>7. FromOther(n)' BY <1>2, <1>6 DEF FromOther, Hp!Goes, Hp!Mapped
<1>8. \A m \in v10' : FromOther(m)' BY <1>5, <1>6, <1>7
<1> QED BY <1>3, <1>4, <1>8 DEF PunchInv

LEMMA Receives ==
  ASSUME PunchInv, NEW m \in v10, Hp!Receive(m)
  PROVE  PunchInv'
<1>0. PunchTyped /\ PathsWork BY DEF PunchInv
<1>1. PICK r \in Puncher : /\ m.from = Hp!Mapped(r, m.to) /\ m.to \in v2[r]
                           /\ m.to[1] = Hp!Other(r)
  BY DEF PunchInv, FromOther
<1>2. PICK p \in Puncher : p = m.to[1] /\ r = Hp!Other(p) BY <1>1, TwoPunch
<1>3. /\ Hp!Admits(p, m) /\ v9' = [v9 EXCEPT ![p] = IF @ = None THEN m.from ELSE @]
      /\ UNCHANGED <<v1, v3, v4, v5, v6, v7>>
  BY <1>2 DEF Hp!Receive, Hp!Path, Hp!stunVars
<1>4. Hp!Admits(r, Hp!Goes(p, "DATA", m.from))
  BY <1>1, <1>3 DEF Hp!Admits, Hp!Goes, Hp!Mapped
<1>5. \A q \in Puncher : v9'[q] # None => Hp!Admits(Hp!Other(q), Hp!Goes(q, "DATA", v9'[q]))
  BY <1>0, <1>2, <1>3, <1>4 DEF PunchTyped, PathsWork
<1>6. DOMAIN v9' = Puncher /\ \A q \in Puncher : v9[q] # None => v9'[q] # None
  BY <1>0, <1>3 DEF PunchTyped
<1>7. m.from[1] = r BY <1>1 DEF Hp!Mapped
<1>8. CASE m.type = "PING"
  <2>1. /\ v10' \subseteq v10 \cup {Hp!Goes(p, "PONG", m.from)}
        /\ v2' = [v2 EXCEPT ![p] = @ \cup {m.from}]
    BY <1>2, <1>8 DEF Hp!Receive
  <2> QED BY <1>0, <1>2, <1>3, <1>5, <1>6, <1>7, <2>1, Punches
<1>9. CASE m.type # "PING"
  <2>1. v10' \subseteq v10 /\ v2' = v2 BY <1>2, <1>9 DEF Hp!Receive
  <2>2. PunchTyped' /\ Announced'
    BY <1>0, <1>3, <1>6, <2>1 DEF PunchInv, PunchTyped, Announced
  <2>3. PathsWork' BY <1>3, <1>5, <2>1 DEF PathsWork, Hp!Admits, Hp!Goes, Hp!Mapped
  <2>4. \A n \in v10' : FromOther(n)'
    BY <1>3, <2>1 DEF PunchInv, FromOther, Hp!Mapped
  <2> QED BY <2>2, <2>3, <2>4 DEF PunchInv
<1> QED BY <1>8, <1>9

LEMMA PunchStep == PunchInv /\ [Hp!Next]_(Hp!vars) => PunchInv'
<1> SUFFICES ASSUME PunchInv, [Hp!Next]_(Hp!vars) PROVE PunchInv' OBVIOUS
<1>0. PunchTyped /\ Announced /\ PathsWork BY DEF PunchInv
<1>1. ASSUME UNCHANGED <<v1, v2, v3, v4, v5, v6, v7, v9>>, v10' \subseteq v10 PROVE PunchInv'
  BY <1>1 DEF PunchInv, PunchTyped, Announced, PathsWork, FromOther, Hp!Admits, Hp!Goes, Hp!Mapped
<1>2. CASE UNCHANGED Hp!vars BY <1>1, <1>2 DEF Hp!vars
<1>3. ASSUME NEW p \in Puncher,
             \/ Hp!FirstAnswers(p) \/ Hp!FirstFails(p) \/ Hp!SecondAnswers(p)
             \/ Hp!SecondFails(p) \/ Hp!Discovers(p) \/ Hp!ServerFails(p)
      PROVE  PunchInv'
  BY <1>3, Discovery
<1>4. ASSUME NEW p \in Puncher,
             Hp!Offer(p) \/ Hp!Answer(p) \/ Hp!NoAnswer(p) \/ Hp!Succeed(p) \/ Hp!GiveUp(p)
      PROVE  PunchInv'
  BY <1>4, Exchange
<1>5. ASSUME NEW p \in Puncher, Hp!Probe(p) PROVE PunchInv'
  <2>1. /\ v3[p] = "punch" /\ UNCHANGED <<v1, v3, v4, v5, v6, v7, v9>>
        /\ v2' = [v2 EXCEPT ![p] = @ \cup {v7[p]}]
        /\ v10' \subseteq v10 \cup {Hp!Goes(p, "PING", v7[p])}
    BY <1>5 DEF Hp!Probe, Hp!stunVars
  <2>2. v7[p][1] = Hp!Other(p) BY <1>0, <2>1 DEF Announced
  <2>3. /\ DOMAIN v9' = Puncher
        /\ \A q \in Puncher : v9'[q] # None => Hp!Admits(Hp!Other(q), Hp!Goes(q, "DATA", v9'[q]))
    BY <1>0, <2>1 DEF PunchTyped, PathsWork
  <2> QED BY <1>0, <2>1, <2>2, <2>3, Punches
<1>6. ASSUME NEW m \in v10, Hp!Receive(m) PROVE PunchInv' BY <1>6, Receives
<1>7. ASSUME NEW m \in v10, Hp!Vanish(m) \/ Hp!Lose(m) PROVE PunchInv'
  <2>1. UNCHANGED <<v1, v2, v3, v4, v5, v6, v7, v9>> /\ v10' \subseteq v10
    BY <1>7 DEF Hp!Vanish, Hp!Lose, Hp!stunVars
  <2> QED BY <1>1, <2>1
<1> QED BY <1>2, <1>3, <1>4, <1>5, <1>6, <1>7 DEF Hp!Next

LEMMA PunchFact == PunchInv => Hp!PathWorks
BY DEF PunchInv, PathsWork, Announced, Hp!PathWorks

-----------------------------------------------------------------------------
(* Relay sessions: batch is v6, pc v11, sessions v13, finishing v14, dead    *)
(* v15, closing v16 and loop v17.                                            *)

LEMMA RelayOnly ==
  /\ Init /\ Is("relay") => Re!Init
  /\ [Next]_all /\ Is("relay") => [Re!Next]_(Re!vars)
BY DEF Init, Next, Is, Re!vars, Re!mailVars, Re!taskVars, Re!authVars, Re!cleanVars, all

Alive(o) == v11[o] \notin {"none", "refused", "closed"}

\* A connection that is open is known: in the table, on its way there, or being closed.
Known(o) == o \in v13 \cup v14 \/ \E t \in Re!Cleaner \cup SdpOffer : <<t, o>> \in v16

\* Once the poller is stopped its loop does not go on.
RelayInv ==
  /\ DOMAIN v11 = SdpOffer /\ DOMAIN v15 = Re!Cleaner
  /\ v17 = "stopped" => v15[Re!Loop] = {}
  /\ v17 # "stopped" => \A o \in SdpOffer : Alive(o) => Known(o)

LEMMA RelayInit == Re!Init => RelayInv
BY DEF Re!Init, RelayInv, Alive

\* Neither the loop's list nor a connection changes hands.
LEMMA RelayCalm ==
  ASSUME RelayInv, UNCHANGED <<v15, v17>>, DOMAIN v11' = SdpOffer,
         \A o \in SdpOffer : Alive(o)' => Alive(o) \/ Known(o)',
         \A o \in SdpOffer : Known(o) => Known(o)' \/ ~Alive(o)'
  PROVE  RelayInv'
BY DEF RelayInv

\* A clean-up takes the first of its list.
LEMMA Sweeps ==
  ASSUME NEW t \in Re!Cleaner, NEW s, Re!Sweep(t, s), v14' = v14
  PROVE  /\ v15' = v15 \/ \E d : v15' = [v15 EXCEPT ![t] = d]
         /\ \A o \in SdpOffer : Known(o) => Known(o)'
<1>1. CASE s = {} BY <1>1 DEF Re!Sweep, Known
<1>2. CASE s # {}
  <2>1. PICK o \in s : /\ v15' = [v15 EXCEPT ![t] = s \ {o}]
                       /\ v16' = v16 \cup {<<t, o>>} /\ v13' = v13 \ {o}
    BY <1>2 DEF Re!Sweep
  <2>2. \A q \in SdpOffer : Known(q) => Known(q)' BY <2>1 DEF Known
  <2> QED BY <2>1, <2>2
<1> QED BY <1>1, <1>2

LEMMA LoopApart == Re!Loop \in Re!Cleaner /\ Re!Loop \notin Link
BY MCAgentsAssumption DEF Re!RelaySessionsAssumption, Re!Loop, Re!Cleaner

LEMMA Answers ==
  ASSUME RelayInv, NEW l \in Link, Re!Authenticate(l) \/ Re!Accept(l)
  PROVE  RelayInv'
<1>0. l \in Re!Cleaner /\ l # Re!Loop BY LoopApart DEF Re!Cleaner
<1>1. v17' = v17 BY DEF Re!Authenticate, Re!Accept, Re!cleanVars
<1>2. CASE Re!Authenticate(l)
  <2>1. v11' = v11 /\ v14' = v14 BY <1>2 DEF Re!Authenticate
  <2>2. (\E s \in SUBSET Re!Stale : Re!Sweep(l, Re!Listed \cup s)) \/ UNCHANGED <<v15, v16, v13>>
    BY <1>2 DEF Re!Authenticate
  <2>3. CASE UNCHANGED <<v15, v16, v13>> BY <1>1, <2>1, <2>3, RelayCalm DEF Alive, Known, RelayInv
  <2>4. CASE \E s \in SUBSET Re!Stale : Re!Sweep(l, Re!Listed \cup s)
    <3>1. /\ v15' = v15 \/ \E d : v15' = [v15 EXCEPT ![l] = d]
          /\ \A o \in SdpOffer : Known(o) => Known(o)'
      BY <1>0, <2>1, <2>4, Sweeps
    <3>2. DOMAIN v15' = Re!Cleaner /\ v15'[Re!Loop] = v15[Re!Loop]
      BY <1>0, <3>1, LoopApart DEF RelayInv
    <3> QED BY <1>1, <2>1, <3>1, <3>2 DEF RelayInv, Alive
  <2> QED BY <2>2, <2>3, <2>4
<1>3. CASE Re!Accept(l)
  <2>1. PICK o : \/ v11' = [v11 EXCEPT ![o] = "new"] /\ v14' = v14 \cup {o}
                 \/ v11' = [v11 EXCEPT ![o] = "refused"] /\ v14' = v14
    BY <1>3 DEF Re!Accept
  <2>2. UNCHANGED <<v13, v15, v16>> BY <1>3 DEF Re!Accept, Re!cleanVars
  <2>3. DOMAIN v11' = SdpOffer BY <2>1 DEF RelayInv
  <2>4. \A q \in SdpOffer : q # o => (Alive(q)' <=> Alive(q)) BY <2>1 DEF Alive, RelayInv
  <2>5. o \in SdpOffer => Known(o)' \/ ~Alive(o)' BY <2>1 DEF Alive, Known, RelayInv
  <2>6. \A q \in SdpOffer : Known(q) => Known(q)' BY <2>1, <2>2 DEF Known
  <2>7. ASSUME NEW q \in SdpOffer, Alive(q)' PROVE Alive(q) \/ Known(q)'
    BY <2>4, <2>5, <2>7
  <2> QED BY <1>1, <2>2, <2>3, <2>6, <2>7, RelayCalm
<1> QED BY <1>2, <1>3

\* A connection changes its state, or the poller hears of it.
LEMMA Transports ==
  ASSUME RelayInv, NEW o \in SdpOffer,
         Re!FinishSession(o) \/ Re!OnStateChange(o) \/ \E s \in Re!States : Re!Transport(o, s)
  PROVE  RelayInv'
<1>0. UNCHANGED <<v15, v17>>
  BY DEF Re!FinishSession, Re!OnStateChange, Re!Transport, Re!cleanVars
<1>1. CASE Re!FinishSession(o)
  <2>1. v11' = v11 /\ v13' = v13 \cup {o} /\ v14' = v14 \ {o} /\ v16' = v16
    BY <1>1 DEF Re!FinishSession, Re!cleanVars
  <2>2. \A q \in SdpOffer : (Alive(q)' => Alive(q)) /\ (Known(q) => Known(q)')
    BY <2>1 DEF Alive, Known
  <2> QED BY <1>0, <2>1, <2>2, RelayCalm DEF RelayInv
<1>2. CASE Re!OnStateChange(o)
  <2>1. /\ v11' = v11 /\ v13' = v13 \ {o} /\ v14' = v14
        /\ v16' = v16 \cup (IF o \in v13 THEN {<<o, o>>} ELSE {})
    BY <1>2 DEF Re!OnStateChange, Re!Closes
  <2>2. \A q \in SdpOffer : (Alive(q)' => Alive(q)) /\ (Known(q) => Known(q)')
    BY <2>1 DEF Alive, Known
  <2> QED BY <1>0, <2>1, <2>2, RelayCalm DEF RelayInv
<1>3. CASE \E s \in Re!States : Re!Transport(o, s)
  <2>1. /\ \E s : v11' = [v11 EXCEPT ![o] = s]
        /\ v11[o] \in {"new", "connected", "disconnected"} /\ UNCHANGED <<v13, v14, v16>>
    BY <1>3 DEF Re!Transport, Re!cleanVars
  <2>2. \A q \in SdpOffer : q # o => v11'[q] = v11[q] BY <2>1 DEF RelayInv
  <2>3. Alive(o) BY <2>1 DEF Alive
  <2>4. \A q \in SdpOffer : (Alive(q)' => Alive(q)) /\ (Known(q) => Known(q)')
    BY <2>1, <2>2, <2>3 DEF Alive, Known
  <2>5. DOMAIN v11' = SdpOffer BY <2>1 DEF RelayInv
  <2> QED BY <1>0, <2>4, <2>5, RelayCalm
<1> QED BY <1>1, <1>2, <1>3

LEMMA Cleans ==
  ASSUME RelayInv, NEW t \in Re!Cleaner, Re!CleanNext(t)
  PROVE  RelayInv'
<1>1. PICK o \in v15[t] :
        IF o \in v13
        THEN /\ v13' = v13 \ {o} /\ v16' = v16 \cup {<<t, o>>}
             /\ v15' = [v15 EXCEPT ![t] = @ \ {o}] /\ v17' = v17
        ELSE /\ v15' = [v15 EXCEPT ![t] = {}]
             /\ v17' = (IF t = Re!Loop THEN "failed" ELSE v17) /\ UNCHANGED <<v13, v16>>
  BY DEF Re!CleanNext
<1>2. v11' = v11 /\ v14' = v14 BY DEF Re!CleanNext, Re!mailVars, Re!authVars
<1>3. \A q \in SdpOffer : (Alive(q)' => Alive(q)) /\ (Known(q) => Known(q)')
  BY <1>1, <1>2 DEF Alive, Known
<1>4. DOMAIN v15' = Re!Cleaner BY <1>1 DEF RelayInv
<1>5. v17 = "stopped" => t # Re!Loop BY <1>1 DEF RelayInv
<1>6. (v17' = "stopped" <=> v17 = "stopped") BY <1>1, <1>5
<1>7. v17 = "stopped" => v15'[Re!Loop] = {} BY <1>1, <1>5, LoopApart DEF RelayInv
<1> QED BY <1>2, <1>3, <1>4, <1>6, <1>7 DEF RelayInv

LEMMA Loops ==
  ASSUME RelayInv, Re!Start \/ Re!CleanupBegins \/ Re!CleanupEnds \/ Re!Stop
  PROVE  RelayInv'
<1>0. v11' = v11 /\ v14' = v14
  BY DEF Re!Start, Re!CleanupBegins, Re!CleanupEnds, Re!Stop
<1>1. CASE Re!Start \/ Re!CleanupEnds
  <2>1. UNCHANGED <<v13, v15, v16>> /\ v17 # "stopped"
    BY <1>1 DEF Re!Start, Re!CleanupEnds
  <2>2. v17' # "stopped" BY <1>1 DEF Re!Start, Re!CleanupEnds
  <2> QED BY <1>0, <2>1, <2>2 DEF RelayInv, Alive, Known
<1>2. CASE Re!CleanupBegins
  <2>1. v17 # "stopped" /\ v17' # "stopped" BY <1>2 DEF Re!CleanupBegins
  <2>2. PICK s : Re!Sweep(Re!Loop, s) BY <1>2 DEF Re!CleanupBegins
  <2>3. /\ v15' = v15 \/ \E d : v15' = [v15 EXCEPT ![Re!Loop] = d]
        /\ \A o \in SdpOffer : Known(o) => Known(o)'
    BY <1>0, <2>2, Sweeps, LoopApart
  <2>4. DOMAIN v15' = Re!Cleaner BY <2>3 DEF RelayInv
  <2> QED BY <1>0, <2>1, <2>3, <2>4 DEF RelayInv, Alive
<1>3. CASE Re!Stop
  <2>1. v17' = "stopped" /\ v15' = [v15 EXCEPT ![Re!Loop] = {}] BY <1>3 DEF Re!Stop
  <2> QED BY <1>0, <2>1, LoopApart DEF RelayInv
<1> QED BY <1>1, <1>2, <1>3

LEMMA RelayStep == RelayInv /\ [Re!Next]_(Re!vars) => RelayInv'
<1> SUFFICES ASSUME RelayInv, [Re!Next]_(Re!vars) PROVE RelayInv' OBVIOUS
<1>1. CASE UNCHANGED <<v11, v13, v14, v15, v16, v17>>
  BY <1>1 DEF RelayInv, Alive, Known
<1>2. CASE UNCHANGED Re!vars BY <1>1, <1>2 DEF Re!vars, Re!cleanVars
<1>3. ASSUME NEW d, Re!Pair(d) \/ Re!Revoke(d) \/ Re!Request(d) PROVE RelayInv'
  BY <1>1, <1>3 DEF Re!Pair, Re!Revoke, Re!Request, Re!cleanVars
<1>4. ASSUME NEW l, Re!Fetch(l) \/ Re!TimeOut(l) PROVE RelayInv'
  BY <1>1, <1>4 DEF Re!Fetch, Re!TimeOut, Re!cleanVars
<1>5. ASSUME NEW l \in Link, Re!Authenticate(l) \/ Re!Accept(l) PROVE RelayInv'
  BY <1>5, Answers
<1>6. ASSUME NEW o, NEW x, Re!Ping(o) \/ Re!PostOffer(o, x) PROVE RelayInv'
  BY <1>1, <1>6 DEF Re!Ping, Re!PostOffer, Re!cleanVars
<1>7. ASSUME NEW o \in SdpOffer,
             Re!FinishSession(o) \/ Re!OnStateChange(o) \/ \E s \in Re!States : Re!Transport(o, s)
      PROVE  RelayInv'
  BY <1>7, Transports
<1>8. ASSUME NEW t \in Re!Cleaner, Re!CleanNext(t) PROVE RelayInv' BY <1>8, Cleans
<1>9. ASSUME NEW c \in v16, Re!Closed(c) PROVE RelayInv'
  <2>1. /\ v11' = [v11 EXCEPT ![c[2]] = "closed"] /\ v16' = v16 \ {c}
        /\ UNCHANGED <<v13, v14, v15, v17>>
    BY <1>9 DEF Re!Closed
  <2>2. DOMAIN v11' = SdpOffer BY <2>1 DEF RelayInv
  <2>3. \A o \in SdpOffer : o # c[2] => v11'[o] = v11[o] BY <2>1 DEF RelayInv
  <2>4. c[2] \in SdpOffer => ~Alive(c[2])' BY <2>1 DEF RelayInv, Alive
  <2>5. \A o \in SdpOffer : Alive(o)' => Alive(o) BY <2>3, <2>4 DEF Alive
  <2>6. ASSUME NEW o \in SdpOffer, Known(o), o # c[2] PROVE Known(o)'
    <3>1. CASE o \in v13 \cup v14 BY <2>1, <3>1 DEF Known
    <3>2. ASSUME NEW t \in Re!Cleaner \cup SdpOffer, <<t, o>> \in v16 PROVE <<t, o>> \in v16'
      <4>1. <<t, o>>[2] = o OBVIOUS
      <4>2. <<t, o>> # c BY <4>1, <2>6
      <4> QED BY <2>1, <3>2, <4>2
    <3> QED BY <2>6, <3>1, <3>2 DEF Known
  <2> QED BY <2>1, <2>2, <2>4, <2>5, <2>6, RelayCalm
<1>10. CASE Re!PollOnce \/ Re!Expire
  BY <1>1, <1>10 DEF Re!PollOnce, Re!Expire, Re!cleanVars
<1>11. CASE Re!Start \/ Re!CleanupBegins \/ Re!CleanupEnds \/ Re!Stop BY <1>11, Loops
<1>12. CASE \E d \in Device : Re!Pair(d) \/ Re!Revoke(d) \/ Re!Request(d) BY <1>3, <1>12
<1>13. CASE \E l \in Link : Re!Fetch(l) \/ Re!TimeOut(l) \/ Re!Authenticate(l) \/ Re!Accept(l)
  BY <1>4, <1>5, <1>13
<1>14. CASE \E o \in SdpOffer :
         \/ Re!FinishSession(o) \/ Re!Ping(o) \/ Re!OnStateChange(o)
         \/ \E s \in Re!States : Re!Transport(o, s)
         \/ \E x \in Link \cup SdpOffer : Re!PostOffer(o, x)
  BY <1>6, <1>7, <1>14
<1> QED BY <1>2, <1>8, <1>9, <1>10, <1>11, <1>12, <1>13, <1>14 DEF Re!Next

LEMMA RelayFact == RelayInv => Re!NoPeerLost
BY DEF RelayInv, Alive, Known, Re!NoPeerLost

-----------------------------------------------------------------------------
(* DataChannels: asked is v3, opening v4, reading v7, slot v8, sending v9,   *)
(* texts v10, frames v11 and log v14.                                        *)

LEMMA ProxyOnly ==
  /\ Init /\ Is("proxy") => Dc!Init
  /\ [Next]_all /\ Is("proxy") => [Dc!Next]_(Dc!vars)
BY DEF Init, Next, Is, Dc!vars, Dc!tableVars, Dc!dataVars, all

Happening == [type : {"ready", "text", "frame", "close"}, n : Nat]

\* What has been logged of a channel, of which so many texts and frames were read.
Orderly(l, texts, frames) ==
  /\ l # << >> => l[1].type \in {"ready", "close"}
  /\ \A k \in Nat : k \in 1..texts <=> \E i \in 1..Len(l) : l[i].type = "text" /\ l[i].n = k
  /\ \A i, j \in 1..Len(l) :
       i < j /\ l[i].type = l[j].type /\ l[i].type \in {"text", "frame"} => l[i].n < l[j].n
  /\ \A i \in 1..Len(l) : l[i].type = "frame" => l[i].n <= frames
  /\ \A i \in 1..Len(l) : l[i].type = "close" => i = Len(l)

\* A channel is logged from the end of its opening to the end of its reading; the frame
\* that waits is newer than those that were sent.
ProxyInv ==
  /\ v3 \in [Channel -> {"new", "open", "closed"}] /\ v9 = v7
  /\ v8 \in [Channel -> Nat] /\ v10 \in [Channel -> Nat] /\ v11 \in [Channel -> Nat]
  /\ v14 \in [Channel -> Seq(Happening)]
  /\ \A s \in Channel :
       /\ Orderly(v14[s], v10[s], v11[s])
       /\ v3[s] = "new" => s \notin v4 /\ s \notin v7 /\ v14[s] = << >>
       /\ s \in v4 => s \notin v7 /\ v14[s] = << >>
       /\ s \in v7 => v14[s] # << >> /\ \A i \in 1..Len(v14[s]) : v14[s][i].type # "close"
       /\ v8[s] <= v11[s]
       /\ v8[s] # 0 => \A i \in 1..Len(v14[s]) : v14[s][i].type = "frame" => v14[s][i].n < v8[s]

LEMMA ProxyInit == Dc!Init => ProxyInv
BY DEF Dc!Init, ProxyInv, Orderly

\* What may be logged next of a channel that is open: t counts the texts then.
Grows(l, e, m, texts, frames, t) ==
  /\ m = Append(l, e)
  /\ \A i \in 1..Len(l) : l[i].type # "close"
  /\ l = << >> => e.type \in {"ready", "close"}
  /\ e.type = "text" => e.n = texts + 1 /\ t = texts + 1
  /\ e.type # "text" => t = texts
  /\ e.type = "frame" =>
       e.n <= frames /\ \A i \in 1..Len(l) : l[i].type = "frame" => l[i].n < e.n

LEMMA LogGrows ==
  ASSUME NEW l \in Seq(Happening), NEW e \in Happening, NEW texts \in Nat, NEW frames \in Nat,
         NEW t \in Nat, NEW m, Orderly(l, texts, frames), Grows(l, e, m, texts, frames, t)
  PROVE  /\ m \in Seq(Happening) /\ m # << >>
         /\ Orderly(m, t, frames)
         /\ \A i \in 1..Len(m) : m[i] = e \/ (i \in 1..Len(l) /\ m[i] = l[i])
<1>1. PICK n \in Nat : n = Len(l) OBVIOUS
<1>2. /\ m \in Seq(Happening) /\ Len(m) = n + 1 /\ m[n + 1] = e
      /\ \A i \in 1..n : m[i] = l[i] /\ l[i] \in Happening
  <2>1. m = Append(l, e) BY DEF Grows
  <2> QED BY <1>1, <2>1
<1>3. \A i \in 1..n + 1 : i = n + 1 \/ i \in 1..n BY <1>1
<1>4. m[1].type \in {"ready", "close"}
  <2>1. CASE n = 0 BY <1>1, <1>2, <2>1 DEF Grows
  <2>2. CASE n # 0
    <3>1. l # << >> /\ 1 \in 1..n BY <1>1, <2>2
    <3> QED BY <1>2, <3>1 DEF Orderly
  <2> QED BY <2>1, <2>2
<1>5. \A i, j \in 1..n + 1 :
        i < j /\ m[i].type = m[j].type /\ m[i].type \in {"text", "frame"} => m[i].n < m[j].n
  <2> SUFFICES ASSUME NEW i \in 1..n + 1, NEW j \in 1..n + 1, i < j,
                      m[i].type = m[j].type, m[i].type \in {"text", "frame"}
               PROVE  m[i].n < m[j].n
    OBVIOUS
  <2>1. i \in 1..n /\ m[i] = l[i] BY <1>1, <1>2
  <2>2. CASE j \in 1..n BY <1>1, <1>2, <2>1, <2>2 DEF Orderly
  <2>3. CASE j = n + 1
    <3>1. m[j] = e BY <1>2, <2>3
    <3>2. CASE e.type = "text"
      <4>1. l[i].n \in 1..texts
        BY <1>1, <2>1, <3>1, <3>2, <1>2 DEF Orderly, Happening
      <4> QED BY <2>1, <3>1, <3>2, <4>1 DEF Grows
    <3>3. CASE e.type = "frame" BY <1>1, <2>1, <3>1, <3>3 DEF Grows
    <3> QED BY <3>1, <3>2, <3>3
  <2> QED BY <1>3, <2>2, <2>3
<1>6. \A i \in 1..n + 1 : /\ m[i].type = "frame" => m[i].n <= frames
                          /\ m[i].type = "close" => i = n + 1
  BY <1>1, <1>2, <1>3 DEF Orderly, Grows
<1>7. ASSUME NEW k \in Nat
      PROVE  k \in 1..t
               <=> \E i \in 1..n + 1 : m[i].type = "text" /\ m[i].n = k
  <2>1. k \in 1..texts <=> \E i \in 1..n : l[i].type = "text" /\ l[i].n = k
    BY <1>1 DEF Orderly
  <2>2. (\E i \in 1..n + 1 : m[i].type = "text" /\ m[i].n = k)
          <=> (k \in 1..texts) \/ (e.type = "text" /\ e.n = k)
    <3>1. (\E i \in 1..n : m[i].type = "text" /\ m[i].n = k) <=> (k \in 1..texts)
      BY <1>2, <2>1
    <3>2. (\E i \in 1..n + 1 : m[i].type = "text" /\ m[i].n = k)
            <=> \/ \E i \in 1..n : m[i].type = "text" /\ m[i].n = k
                \/ m[n + 1].type = "text" /\ m[n + 1].n = k
      BY <1>1
    <3> QED BY <1>2, <3>1, <3>2
  <2>3. k \in 1..t <=> k \in 1..texts \/ (e.type = "text" /\ e.n = k)
    <3>1. CASE e.type = "text"
      <4>1. t = texts + 1 /\ e.n = texts + 1 BY <3>1 DEF Grows
      <4>2. k \in 1..texts + 1 <=> k \in 1..texts \/ texts + 1 = k OBVIOUS
      <4> QED BY <3>1, <4>1, <4>2
    <3>2. CASE e.type # "text" BY <3>2 DEF Grows
    <3> QED BY <3>1, <3>2
  <2> QED BY <2>2, <2>3
<1>8. m # << >> BY <1>1, <1>2
<1>9. Orderly(m, t, frames)
  <2>1. \A k \in Nat : k \in 1..t <=> \E i \in 1..Len(m) : m[i].type = "text" /\ m[i].n = k
    BY <1>2, <1>7
  <2>2. m # << >> => m[1].type \in {"ready", "close"} BY <1>4
  <2>3. \A i, j \in 1..Len(m) :
          i < j /\ m[i].type = m[j].type /\ m[i].type \in {"text", "frame"} => m[i].n < m[j].n
    BY <1>2, <1>5
  <2>4. \A i \in 1..Len(m) : /\ m[i].type = "frame" => m[i].n <= frames
                             /\ m[i].type = "close" => i = Len(m)
    BY <1>2, <1>6
  <2> QED BY <2>1, <2>2, <2>3, <2>4 DEF Orderly
<1> QED BY <1>1, <1>2, <1>3, <1>8, <1>9

\* One channel is logged one happening more.
LEMMA Logs ==
  ASSUME ProxyInv, NEW s \in Channel, NEW e \in Happening, Dc!Sends(s, e), NEW t \in Nat,
         Grows(v14[s], e, Append(v14[s], e), v10[s], v11[s], t)
  PROVE  /\ v14' \in [Channel -> Seq(Happening)] /\ v14'[s] # << >>
         /\ Orderly(v14'[s], t, v11[s])
         /\ \A i \in 1..Len(v14'[s]) :
              v14'[s][i] = e \/ (i \in 1..Len(v14[s]) /\ v14'[s][i] = v14[s][i])
         /\ \A c \in Channel : c # s => v14'[c] = v14[c]
<1>1. PICK m : m = Append(v14[s], e) OBVIOUS
<1>2. v14' = [v14 EXCEPT ![s] = m] BY <1>1 DEF Dc!Sends
<1>3. /\ v14[s] \in Seq(Happening) /\ v10[s] \in Nat /\ v11[s] \in Nat
      /\ Orderly(v14[s], v10[s], v11[s])
  BY DEF ProxyInv
<1>4. /\ m \in Seq(Happening) /\ m # << >>
      /\ Orderly(m, t, v11[s])
      /\ \A i \in 1..Len(m) : m[i] = e \/ (i \in 1..Len(v14[s]) /\ m[i] = v14[s][i])
  <2>1. PICK l, texts, frames : l = v14[s] /\ texts = v10[s] /\ frames = v11[s] OBVIOUS
  <2>2. l \in Seq(Happening) /\ texts \in Nat /\ frames \in Nat /\ m = Append(l, e)
    BY <1>1, <1>3, <2>1
  <2>3. Orderly(l, texts, frames) BY <1>3, <2>1
  <2>4. Grows(l, e, m, texts, frames, t) BY <1>1, <2>1
  <2>5. /\ m \in Seq(Happening) /\ m # << >> /\ Orderly(m, t, frames)
        /\ \A i \in 1..Len(m) : m[i] = e \/ (i \in 1..Len(l) /\ m[i] = l[i])
    BY <2>2, <2>3, <2>4, LogGrows
  <2> QED BY <2>1, <2>5
<1>5. v14'[s] = m /\ \A c \in Channel : c # s => v14'[c] = v14[c] BY <1>2 DEF ProxyInv
<1>6. v14' \in [Channel -> Seq(Happening)] BY <1>2, <1>4 DEF ProxyInv
<1> QED BY <1>4, <1>5, <1>6

LEMMA ChannelOpens ==
  ASSUME ProxyInv, NEW s \in Channel, Dc!Opened(s) \/ Dc!OpenFails(s)
  PROVE  ProxyInv'
<1>1. /\ s \in v4 /\ v4' = v4 \ {s} /\ UNCHANGED <<v3, v8, v10, v11>>
  BY DEF Dc!Opened, Dc!OpenFails
<1>2. PICK e \in Happening : /\ Dc!Sends(s, e) /\ e.type \in {"ready", "close"}
                             /\ e.type = "ready" \/ (v7' = v7 /\ v9' = v9)
                             /\ v7' \cup {s} = v7 \cup {s} /\ (v9 = v7 => v9' = v7')
  <2>1. CASE Dc!Opened(s)
    <3>1. PICK e : e = [type |-> "ready", n |-> 0] OBVIOUS
    <3>2. e \in Happening /\ e.type = "ready" BY <3>1 DEF Happening
    <3>3. Dc!Sends(s, e) /\ v7' = v7 \cup {s} /\ v9' = v9 \cup {s}
      BY <2>1, <3>1 DEF Dc!Opened, Dc!Event
    <3> QED BY <3>2, <3>3
  <2>2. CASE Dc!OpenFails(s)
    <3>1. PICK e : e = [type |-> "close", n |-> 0] OBVIOUS
    <3>2. e \in Happening /\ e.type = "close" BY <3>1 DEF Happening
    <3>3. Dc!Sends(s, e) /\ v7' = v7 /\ v9' = v9
      BY <2>2, <3>1 DEF Dc!OpenFails, Dc!Event
    <3> QED BY <3>2, <3>3
  <2> QED BY <2>1, <2>2
<1>3. v14[s] = << >> /\ s \notin v7 /\ v3[s] # "new" BY <1>1 DEF ProxyInv
<1>4. Len(v14[s]) = 0 BY <1>3
<1>5. /\ v14' \in [Channel -> Seq(Happening)] /\ v14'[s] # << >>
      /\ Orderly(v14'[s], v10[s], v11[s])
      /\ \A i \in 1..Len(v14'[s]) : v14'[s][i] = e
      /\ \A c \in Channel : c # s => v14'[c] = v14[c]
  <2>1. e.type # "text" /\ e.type # "frame" BY <1>2
  <2>2. \A i \in 1..Len(v14[s]) : FALSE BY <1>4
  <2>3. PICK t \in Nat : t = v10[s] BY DEF ProxyInv
  <2>4. /\ v14' \in [Channel -> Seq(Happening)] /\ v14'[s] # << >>
        /\ Orderly(v14'[s], t, v11[s])
        /\ \A i \in 1..Len(v14'[s]) :
             v14'[s][i] = e \/ (i \in 1..Len(v14[s]) /\ v14'[s][i] = v14[s][i])
        /\ \A c \in Channel : c # s => v14'[c] = v14[c]
    <3>1. Grows(v14[s], e, Append(v14[s], e), v10[s], v11[s], t)
    BY <1>2, <1>3, <2>1, <2>2, <2>3 DEF Grows
    <3> QED BY <1>2, <3>1, Logs
  <2> QED BY <2>2, <2>3, <2>4
<1>6. \A c \in Channel : c # s => (c \in v7' <=> c \in v7) BY <1>2
<1>7. s \in v7' => e.type # "close" BY <1>2, <1>3
<1>8. ASSUME NEW c \in Channel, c # s
      PROVE  /\ Orderly(v14'[c], v10[c], v11[c])
             /\ v3[c] = "new" => c \notin v4' /\ c \notin v7' /\ v14'[c] = << >>
             /\ c \in v4' => c \notin v7' /\ v14'[c] = << >>
             /\ c \in v7' => v14'[c] # << >> /\ \A i \in 1..Len(v14'[c]) : v14'[c][i].type # "close"
             /\ v8[c] <= v11[c]
             /\ v8[c] # 0 => \A i \in 1..Len(v14'[c]) :
                               v14'[c][i].type = "frame" => v14'[c][i].n < v8[c]
  BY <1>1, <1>5, <1>6, <1>8 DEF ProxyInv
<1>9. /\ s \in v7' => v14'[s] # << >> /\ \A i \in 1..Len(v14'[s]) : v14'[s][i].type # "close"
      /\ v8[s] <= v11[s]
      /\ \A i \in 1..Len(v14'[s]) : v14'[s][i].type # "frame"
  BY <1>2, <1>5, <1>7 DEF ProxyInv
<1> QED BY <1>1, <1>2, <1>3, <1>5, <1>8, <1>9 DEF ProxyInv

LEMMA ChannelReads ==
  ASSUME ProxyInv, NEW s \in Channel, Dc!ReadText(s) \/ Dc!SendFrame(s) \/ Dc!ReadEnds(s)
  PROVE  ProxyInv'
<1>1. s \in v7 /\ UNCHANGED <<v3, v4, v11>>
  BY DEF ProxyInv, Dc!ReadText, Dc!SendFrame, Dc!ReadEnds, Dc!tableVars
<1>2. /\ s \notin v4 /\ v3[s] # "new" /\ v14[s] # << >>
      /\ \A i \in 1..Len(v14[s]) : v14[s][i].type # "close"
      /\ v10[s] \in Nat /\ v11[s] \in Nat /\ v8[s] \in Nat
  BY <1>1 DEF ProxyInv
<1>3. PICK e \in Happening :
        /\ Dc!Sends(s, e)
        /\ \/ /\ e.type = "text" /\ e.n = v10[s] + 1 /\ v10' = [v10 EXCEPT ![s] = @ + 1]
              /\ UNCHANGED <<v7, v8, v9>>
           \/ /\ e.type = "frame" /\ e.n = v8[s] /\ v8[s] # 0 /\ v8' = [v8 EXCEPT ![s] = 0]
              /\ UNCHANGED <<v7, v9, v10>>
           \/ /\ e.type = "close" /\ v7' = v7 \ {s} /\ v9' = v9 \ {s} /\ UNCHANGED <<v8, v10>>
  <2>1. CASE Dc!ReadText(s)
    <3>1. PICK e : e = [type |-> "text", n |-> v10[s] + 1] OBVIOUS
    <3>2. e \in Happening /\ e.type = "text" /\ e.n = v10[s] + 1 BY <1>2, <3>1 DEF Happening
    <3>3. Dc!Sends(s, e) /\ v10' = [v10 EXCEPT ![s] = @ + 1] /\ UNCHANGED <<v7, v8, v9>>
      BY <2>1, <3>1 DEF Dc!ReadText, Dc!Event, Dc!tableVars
    <3> QED BY <3>2, <3>3
  <2>2. CASE Dc!SendFrame(s)
    <3>1. PICK e : e = [type |-> "frame", n |-> v8[s]] OBVIOUS
    <3>2. e \in Happening /\ e.type = "frame" /\ e.n = v8[s] BY <1>2, <3>1 DEF Happening
    <3>3. Dc!Sends(s, e) /\ v8[s] # 0 /\ v8' = [v8 EXCEPT ![s] = 0] /\ UNCHANGED <<v7, v9, v10>>
      BY <2>2, <3>1 DEF Dc!SendFrame, Dc!Event
    <3> QED BY <3>2, <3>3
  <2>3. CASE Dc!ReadEnds(s)
    <3>1. PICK e : e = [type |-> "close", n |-> 0] OBVIOUS
    <3>2. e \in Happening /\ e.type = "close" BY <3>1 DEF Happening
    <3>3. Dc!Sends(s, e) /\ v7' = v7 \ {s} /\ v9' = v9 \ {s} /\ UNCHANGED <<v8, v10>>
      BY <2>3, <3>1 DEF Dc!ReadEnds, Dc!Event, Dc!SendersAfter
    <3> QED BY <3>2, <3>3
  <2> QED BY <2>1, <2>2, <2>3
<1>4. e.type = "frame" =>
        e.n <= v11[s] /\ \A i \in 1..Len(v14[s]) : v14[s][i].type = "frame" => v14[s][i].n < e.n
  BY <1>3 DEF ProxyInv
<1>0. PICK t \in Nat : /\ e.type = "text" => t = v10[s] + 1
                       /\ e.type # "text" => t = v10[s]
  <2>1. v10[s] + 1 \in Nat BY <1>2
  <2> QED BY <1>2, <2>1
<1>5. /\ v14' \in [Channel -> Seq(Happening)] /\ v14'[s] # << >>
      /\ Orderly(v14'[s], t, v11[s])
      /\ \A i \in 1..Len(v14'[s]) :
           v14'[s][i] = e \/ (i \in 1..Len(v14[s]) /\ v14'[s][i] = v14[s][i])
      /\ \A c \in Channel : c # s => v14'[c] = v14[c]
  <2>1. Grows(v14[s], e, Append(v14[s], e), v10[s], v11[s], t)
    BY <1>0, <1>2, <1>3, <1>4 DEF Grows
  <2> QED BY <1>3, <2>1, Logs
<1>6. /\ v10' \in [Channel -> Nat] /\ v8' \in [Channel -> Nat] /\ v9' = v7'
      /\ v10'[s] = t
      /\ e.type = "frame" => v8'[s] = 0
      /\ e.type # "frame" => v8'[s] = v8[s]
      /\ \A c \in Channel : c # s => v10'[c] = v10[c] /\ v8'[c] = v8[c]
  <2>0. /\ v10 \in [Channel -> Nat] /\ v8 \in [Channel -> Nat] /\ v9 = v7 BY DEF ProxyInv
  <2>1. CASE e.type = "text" BY <1>0, <1>2, <1>3, <2>0, <2>1
  <2>2. CASE e.type = "frame" BY <1>0, <1>2, <1>3, <2>0, <2>2
  <2>3. CASE e.type = "close" BY <1>0, <1>2, <1>3, <2>0, <2>3
  <2> QED BY <1>3, <2>1, <2>2, <2>3
<1>7. /\ \A c \in Channel : c # s => (c \in v7' <=> c \in v7)
      /\ s \in v7' => e.type # "close"
  BY <1>3
<1>8. ASSUME NEW c \in Channel, c # s
      PROVE  /\ Orderly(v14'[c], v10'[c], v11[c])
             /\ v3[c] = "new" => c \notin v4 /\ c \notin v7' /\ v14'[c] = << >>
             /\ c \in v4 => c \notin v7' /\ v14'[c] = << >>
             /\ c \in v7' => v14'[c] # << >> /\ \A i \in 1..Len(v14'[c]) : v14'[c][i].type # "close"
             /\ v8'[c] <= v11[c]
             /\ v8'[c] # 0 => \A i \in 1..Len(v14'[c]) :
                               v14'[c][i].type = "frame" => v14'[c][i].n < v8'[c]
  BY <1>5, <1>6, <1>7, <1>8 DEF ProxyInv
<1>9. s \in v7' => v14'[s] # << >> /\ \A i \in 1..Len(v14'[s]) : v14'[s][i].type # "close"
  BY <1>2, <1>5, <1>7
<1>10. v8'[s] <= v11[s] BY <1>2, <1>6 DEF ProxyInv
<1>11. v8'[s] # 0 => \A i \in 1..Len(v14'[s]) : v14'[s][i].type = "frame" => v14'[s][i].n < v8'[s]
  <2>1. v8'[s] # 0 => e.type # "frame" /\ v8'[s] = v8[s] BY <1>6
  <2> QED BY <1>5, <2>1 DEF ProxyInv
<1>12. Orderly(v14'[s], v10'[s], v11[s]) BY <1>5, <1>6
<1> QED BY <1>1, <1>2, <1>5, <1>6, <1>8, <1>9, <1>10, <1>11, <1>12 DEF ProxyInv

LEMMA FrameRead ==
  ASSUME ProxyInv, NEW s \in Channel, Dc!ReadFrame(s)
  PROVE  ProxyInv'
<1>1. /\ v11' = [v11 EXCEPT ![s] = @ + 1] /\ v8' = [v8 EXCEPT ![s] = v11[s] + 1]
      /\ UNCHANGED <<v3, v4, v7, v9, v10, v14>>
  BY DEF Dc!ReadFrame
<1>2. v8[s] \in Nat /\ v11[s] \in Nat /\ v14[s] \in Seq(Happening) BY DEF ProxyInv
<1>3. /\ v11' \in [Channel -> Nat] /\ v8' \in [Channel -> Nat]
      /\ \A c \in Channel : /\ v11'[c] = IF c = s THEN v11[c] + 1 ELSE v11[c]
                            /\ v8'[c] = IF c = s THEN v11[c] + 1 ELSE v8[c]
  BY <1>1, <1>2 DEF ProxyInv
<1>4. \A i \in 1..Len(v14[s]) : v14[s][i] \in Happening BY <1>2
<1>5. Orderly(v14[s], v10[s], v11[s] + 1)
  <2>1. Orderly(v14[s], v10[s], v11[s]) BY DEF ProxyInv
  <2> QED BY <1>2, <1>4, <2>1 DEF Orderly, Happening
<1>6. \A i \in 1..Len(v14[s]) : v14[s][i].type = "frame" => v14[s][i].n < v11[s] + 1
  <2>1. Orderly(v14[s], v10[s], v11[s]) BY DEF ProxyInv
  <2> QED BY <1>2, <1>4, <2>1 DEF Orderly, Happening
<1> QED BY <1>1, <1>2, <1>3, <1>5, <1>6 DEF ProxyInv

LEMMA ProxyStep == ProxyInv /\ [Dc!Next]_(Dc!vars) => ProxyInv'
<1> SUFFICES ASSUME ProxyInv, [Dc!Next]_(Dc!vars) PROVE ProxyInv' OBVIOUS
<1>1. CASE UNCHANGED <<v3, v4, v7, v8, v9, v10, v11, v14>> BY <1>1 DEF ProxyInv
<1>2. CASE UNCHANGED Dc!vars BY <1>1, <1>2 DEF Dc!vars, Dc!tableVars, Dc!dataVars
<1>3. ASSUME NEW s \in Channel, Dc!WsOpen(s) PROVE ProxyInv'
  <2>1. /\ v3[s] = "new" /\ v3' = [v3 EXCEPT ![s] = "open"] /\ v4' = v4 \cup {s}
        /\ UNCHANGED <<v7, v8, v9, v10, v11, v14>>
    BY <1>3 DEF Dc!WsOpen, Dc!dataVars
  <2> QED BY <2>1 DEF ProxyInv
<1>4. ASSUME NEW s \in Channel, Dc!WsClose(s) PROVE ProxyInv'
  <2>1. /\ v3' = [v3 EXCEPT ![s] = "closed"] /\ UNCHANGED <<v4, v7, v8, v9, v10, v11, v14>>
    BY <1>4 DEF Dc!WsClose, Dc!dataVars
  <2> QED BY <2>1 DEF ProxyInv
<1>5. ASSUME NEW s \in Channel, Dc!WsText(s) \/ Dc!LocalCloses(s) PROVE ProxyInv'
  BY <1>1, <1>5 DEF Dc!WsText, Dc!LocalCloses, Dc!tableVars, Dc!dataVars
<1>6. ASSUME NEW r, Dc!HttpRequest(r) \/ Dc!HttpAnswer(r) PROVE ProxyInv'
  BY <1>1, <1>6 DEF Dc!HttpRequest, Dc!HttpAnswer, Dc!tableVars, Dc!dataVars
<1>7. CASE Dc!Start \/ Dc!Stop BY <1>1, <1>7 DEF Dc!Start, Dc!Stop, Dc!tableVars, Dc!dataVars
<1>8. ASSUME NEW s \in Channel, Dc!Opened(s) \/ Dc!OpenFails(s) PROVE ProxyInv'
  BY <1>8, ChannelOpens
<1>9. ASSUME NEW s \in Channel, Dc!ReadText(s) \/ Dc!SendFrame(s) \/ Dc!ReadEnds(s)
      PROVE  ProxyInv'
  BY <1>9, ChannelReads
<1>10. ASSUME NEW s \in Channel, Dc!ReadFrame(s) PROVE ProxyInv' BY <1>10, FrameRead
<1> QED BY <1>2, <1>3, <1>4, <1>5, <1>6, <1>7, <1>8, <1>9, <1>10 DEF Dc!Next

LEMMA ProxyFact == ProxyInv => Dc!ViewerSeesAStream
<1> SUFFICES ASSUME ProxyInv, NEW s \in Channel, v14[s] # << >>
             PROVE  /\ Head(v14[s]).type \in {"ready", "close"}
                    /\ \A i \in DOMAIN v14[s] : v14[s][i].type = "close" => i = Len(v14[s])
                    /\ {v14[s][i].n : i \in Dc!At(s, "text")} = 1..v10[s]
                    /\ \A type \in {"text", "frame"} : \A i, j \in Dc!At(s, type) :
                         i < j => v14[s][i].n < v14[s][j].n
  BY DEF Dc!ViewerSeesAStream
<1>1. PICK l : l = v14[s] OBVIOUS
<1>2. /\ l \in Seq(Happening) /\ l # << >> /\ Orderly(l, v10[s], v11[s]) /\ v10[s] \in Nat
  BY <1>1 DEF ProxyInv
<1>3. Head(l) = l[1] /\ DOMAIN l = 1..Len(l) BY <1>2
<1>4. \A i \in 1..Len(l) : l[i].n \in Nat
  <2>1. \A i \in 1..Len(l) : l[i] \in Happening BY <1>2
  <2> QED BY <2>1 DEF Happening
<1>5. {l[i].n : i \in {j \in 1..Len(l) : l[j].type = "text"}} = 1..v10[s]
  <2>1. \A k \in Nat : k \in 1..v10[s] <=> \E i \in 1..Len(l) : l[i].type = "text" /\ l[i].n = k
    BY <1>2 DEF Orderly
  <2> QED BY <1>4, <2>1
<1>6. \A type : Dc!At(s, type) = {j \in 1..Len(l) : l[j].type = type}
  BY <1>1, <1>3 DEF Dc!At
<1>7. /\ Head(l).type \in {"ready", "close"}
      /\ \A i \in DOMAIN l : l[i].type = "close" => i = Len(l)
  BY <1>2, <1>3 DEF Orderly
<1>8. ASSUME NEW type \in {"text", "frame"}, NEW i \in Dc!At(s, type), NEW j \in Dc!At(s, type),
             i < j
      PROVE  l[i].n < l[j].n
  <2>1. /\ i \in 1..Len(l) /\ j \in 1..Len(l)
        /\ l[i].type = l[j].type /\ l[i].type \in {"text", "frame"}
    BY <1>6, <1>8
  <2> QED BY <1>2, <1>8, <2>1 DEF Orderly
<1> QED BY <1>1, <1>5, <1>6, <1>7, <1>8

-----------------------------------------------------------------------------
(* Relayed WebSockets: tunnel is v1, browser v2, clients v3, down v4, up v5, *)
(* opening v6, table v7, forward v8, local v9, sent v10, answered v11,       *)
(* atLocal v12 and atBrowser v13.                                            *)

LEMMA StreamsOnly ==
  /\ Init /\ Is("streams") => Hs!Init
  /\ [Next]_all /\ Is("streams") => [Hs!Next]_(Hs!vars)
BY DEF Init, Next, Is, Hs!vars, Hs!serverVars, Hs!hostVars, Hs!dataVars, all

Wired == [type : {"open", "data", "close"}, ws : Socket, n : Nat]

\* A wire carries of a stream exactly the data after a up to b, each once, in order.
Datum(m, s) == m.type = "data" /\ m.ws = s
Carries(wire, s, a, b) ==
  /\ a <= b
  /\ \A k \in Nat : k \in (a + 1)..b <=> \E i \in 1..Len(wire) : Datum(wire[i], s) /\ wire[i].n = k
  /\ \A i, j \in 1..Len(wire) :
       Datum(wire[i], s) /\ Datum(wire[j], s) /\ i < j => wire[i].n < wire[j].n

LEMMA CarriesOne ==
  ASSUME NEW w \in Seq(Wired), NEW s, NEW a \in Nat, NEW b \in Nat, NEW m \in Wired,
         Carries(w, s, a, b), Datum(m, s), m.n = b + 1, NEW x, x = Append(w, m)
  PROVE  Carries(x, s, a, b + 1)
<1>1. PICK n \in Nat : n = Len(w) OBVIOUS
<1>2. Len(x) = n + 1 /\ x[n + 1] = m /\ \A i \in 1..n : x[i] = w[i] /\ w[i] \in Wired
  BY <1>1
<1>3. \A i \in 1..n : Datum(w[i], s) => w[i].n \in (a + 1)..b
  BY <1>1, <1>2 DEF Carries, Wired
<1>4. ASSUME NEW k \in Nat
      PROVE  k \in (a + 1)..(b + 1) <=> \E i \in 1..n + 1 : Datum(x[i], s) /\ x[i].n = k
  <2>1. k \in (a + 1)..b <=> \E i \in 1..n : Datum(w[i], s) /\ w[i].n = k
    BY <1>1 DEF Carries
  <2>2. (\E i \in 1..n : Datum(x[i], s) /\ x[i].n = k) <=> k \in (a + 1)..b BY <1>2, <2>1
  <2>3. (\E i \in 1..n + 1 : Datum(x[i], s) /\ x[i].n = k)
          <=> \/ \E i \in 1..n : Datum(x[i], s) /\ x[i].n = k
              \/ Datum(x[n + 1], s) /\ x[n + 1].n = k
    BY <1>1
  <2>4. k \in (a + 1)..(b + 1) <=> k \in (a + 1)..b \/ k = b + 1
    BY DEF Carries
  <2> QED BY <1>2, <2>2, <2>3, <2>4
<1>5. ASSUME NEW i \in 1..n + 1, NEW j \in 1..n + 1, Datum(x[i], s), Datum(x[j], s), i < j
      PROVE  x[i].n < x[j].n
  <2>1. i \in 1..n /\ x[i] = w[i] BY <1>1, <1>2, <1>5
  <2>2. CASE j \in 1..n BY <1>1, <1>2, <1>5, <2>1, <2>2 DEF Carries
  <2>3. CASE j = n + 1
    <3>1. w[i].n \in (a + 1)..b BY <1>3, <1>5, <2>1
    <3> QED BY <1>2, <2>1, <2>3, <3>1
  <2> QED BY <1>1, <2>2, <2>3
<1> QED BY <1>2, <1>4, <1>5 DEF Carries

LEMMA CarriesOther ==
  ASSUME NEW w \in Seq(Wired), NEW s, NEW a \in Nat, NEW b \in Nat, NEW m \in Wired,
         Carries(w, s, a, b), ~Datum(m, s), NEW x, x = Append(w, m)
  PROVE  Carries(x, s, a, b)
<1>1. PICK n \in Nat : n = Len(w) OBVIOUS
<1>2. Len(x) = n + 1 /\ x[n + 1] = m /\ \A i \in 1..n : x[i] = w[i]
  BY <1>1
<1>3. \A i \in 1..n + 1 : Datum(x[i], s) => i \in 1..n /\ x[i] = w[i]
  <2>1. \A i \in 1..n + 1 : i = n + 1 \/ i \in 1..n BY <1>1
  <2> QED BY <1>2, <2>1
<1>4. \A i \in 1..n : i \in 1..n + 1 BY <1>1
<1>5. ASSUME NEW k \in Nat
      PROVE  k \in (a + 1)..b <=> \E i \in 1..n + 1 : Datum(x[i], s) /\ x[i].n = k
  <2>1. k \in (a + 1)..b <=> \E i \in 1..n : Datum(w[i], s) /\ w[i].n = k
    BY <1>1 DEF Carries
  <2> QED BY <1>2, <1>3, <1>4, <2>1
<1>6. \A i, j \in 1..n + 1 : Datum(x[i], s) /\ Datum(x[j], s) /\ i < j => x[i].n < x[j].n
  BY <1>1, <1>3 DEF Carries
<1> QED BY <1>2, <1>5, <1>6 DEF Carries

\* The message at the head of a wire is the next of its stream.
LEMMA CarriesLess ==
  ASSUME NEW w \in Seq(Wired), w # << >>, NEW s, NEW a \in Nat, NEW b \in Nat,
         Carries(w, s, a, b), NEW x, x = Tail(w)
  PROVE  /\ ~Datum(Head(w), s) => Carries(x, s, a, b)
         /\ Datum(Head(w), s) => Head(w).n = a + 1 /\ Carries(x, s, a + 1, b)
<1>1. PICK n \in Nat : Len(w) = n + 1
  <2>1. Len(w) \in Nat /\ Len(w) # 0 BY DEF Wired
  <2> QED BY <2>1
<1>2. /\ Len(x) = n /\ Head(w) = w[1] /\ \A i \in 1..n : x[i] = w[i + 1]
      /\ \A i \in 1..n + 1 : w[i] \in Wired
  BY <1>1
<1>3. /\ \A i \in 1..n : i + 1 \in 1..n + 1
      /\ \A i \in 1..n + 1 : i = 1 \/ i - 1 \in 1..n
  BY <1>1
<1>4. \A i, j \in 1..n : Datum(x[i], s) /\ Datum(x[j], s) /\ i < j => x[i].n < x[j].n
  BY <1>1, <1>2, <1>3 DEF Carries
<1>5. ASSUME NEW k \in Nat
      PROVE  k \in (a + 1)..b <=> \/ Datum(w[1], s) /\ w[1].n = k
                                  \/ \E i \in 1..n : Datum(x[i], s) /\ x[i].n = k
  <2>1. k \in (a + 1)..b <=> \E i \in 1..n + 1 : Datum(w[i], s) /\ w[i].n = k
    BY <1>1 DEF Carries
  <2>2. (\E i \in 1..n + 1 : Datum(w[i], s) /\ w[i].n = k)
          => \/ Datum(w[1], s) /\ w[1].n = k
             \/ \E i \in 1..n : Datum(x[i], s) /\ x[i].n = k
    <3> SUFFICES ASSUME NEW i \in 1..n + 1, Datum(w[i], s), w[i].n = k, i # 1
                 PROVE  \E j \in 1..n : Datum(x[j], s) /\ x[j].n = k
      OBVIOUS
    <3>1. i - 1 \in 1..n /\ (i - 1) + 1 = i BY <1>3
    <3>2. x[i - 1] = w[i] BY <1>2, <3>1
    <3> QED BY <3>1, <3>2
  <2>3. \A i \in 1..n : Datum(x[i], s) /\ x[i].n = k
          => \E j \in 1..n + 1 : Datum(w[j], s) /\ w[j].n = k
    BY <1>2, <1>3
  <2>4. 1 \in 1..n + 1 BY <1>1
  <2> QED BY <2>1, <2>2, <2>3, <2>4
<1>6. CASE ~Datum(w[1], s) BY <1>2, <1>4, <1>5, <1>6 DEF Carries
<1>7. CASE Datum(w[1], s)
  <2>1. w[1].n \in (a + 1)..b
    <3>1. w[1] \in Wired BY <1>1, <1>2
    <3>2. w[1].n \in Nat BY <3>1 DEF Wired
    <3> QED BY <1>5, <1>7, <3>2
  <2>2. \A i \in 1..n : Datum(x[i], s) => w[1].n < x[i].n
    <3>1. \A i \in 1..n : 1 < i + 1 /\ 1 \in 1..n + 1 BY <1>1
    <3> QED BY <1>1, <1>2, <1>3, <1>7, <3>1 DEF Carries
  <2>3. w[1].n = a + 1
    <3>1. CASE w[1].n # a + 1
      <4>1. PICK c \in Nat : c = a + 1 OBVIOUS
      <4>2. c \in (a + 1)..b /\ w[1].n # c BY <2>1, <3>1, <4>1
      <4>3. \E i \in 1..n : Datum(x[i], s) /\ x[i].n = c BY <1>5, <4>2
      <4>4. PICK i \in 1..n : Datum(x[i], s) /\ x[i].n = c BY <4>3
      <4>5. w[1].n < a + 1 BY <2>2, <4>1, <4>4
      <4> QED BY <2>1, <4>5
    <3> QED BY <3>1
  <2>4. ASSUME NEW k \in Nat
        PROVE  k \in (a + 2)..b <=> \E i \in 1..n : Datum(x[i], s) /\ x[i].n = k
    <3>1. (\E i \in 1..n : Datum(x[i], s) /\ x[i].n = k) => k # a + 1
      <4>1. ASSUME NEW i \in 1..n, Datum(x[i], s), x[i].n = k PROVE k # a + 1
        <5>1. a + 1 < k BY <2>2, <2>3, <4>1
        <5> QED BY <5>1
      <4> QED BY <4>1
    <3>2. k \in (a + 1)..b <=> k = a + 1 \/ \E i \in 1..n : Datum(x[i], s) /\ x[i].n = k
      BY <1>5, <1>7, <2>3
    <3>3. k \in (a + 2)..b <=> k \in (a + 1)..b /\ k # a + 1 OBVIOUS
    <3> QED BY <3>1, <3>2, <3>3
  <2>5. a + 1 <= b /\ (a + 1) + 1 = a + 2 BY <2>1
  <2>6. Carries(x, s, a + 1, b) BY <1>2, <1>4, <2>4, <2>5 DEF Carries
  <2> QED BY <1>2, <1>7, <2>3, <2>6
<1> QED BY <1>2, <1>6, <1>7

\* What has been received are the first messages, and the wire carries the rest.
Ids(q) == \A i \in 1..Len(q) : q[i] = i

LEMMA IdsGrow ==
  ASSUME NEW q \in Seq(Nat), Ids(q), NEW k \in Nat, k = Len(q) + 1, NEW r, r = Append(q, k)
  PROVE  r \in Seq(Nat) /\ Ids(r) /\ Len(r) = Len(q) + 1
<1>1. PICK n \in Nat : n = Len(q) OBVIOUS
<1>2. r \in Seq(Nat) /\ Len(r) = n + 1 /\ r[n + 1] = k /\ \A i \in 1..n : r[i] = q[i] BY <1>1
<1>3. \A i \in 1..n + 1 : i = n + 1 \/ i \in 1..n BY <1>1
<1> QED BY <1>1, <1>2, <1>3 DEF Ids

LEMMA CarriesWhole ==
  ASSUME NEW got, NEW n, NEW s, NEW w \in Seq(Wired),
         got[s] \in Seq(Nat), Ids(got[s]), n[s] \in Nat, Carries(w, s, Len(got[s]), n[s])
  PROVE  Hs!Whole(got, w, s, n)
<1>1. PICK q, a, b : q = got[s] /\ a = Len(q) /\ b = n[s] OBVIOUS
<1>2. q \in Seq(Nat) /\ a \in Nat /\ b \in Nat /\ Ids(q) /\ Carries(w, s, a, b) BY <1>1
<1>3. q = [i \in 1..Len(q) |-> i]
  <2>1. q \in [1..Len(q) -> Nat] BY <1>2
  <2> QED BY <1>2, <2>1 DEF Ids
<1>4. Hs!Under(w, s) = {i \in 1..Len(w) : Datum(w[i], s)} BY DEF Hs!Under, Datum
<1>5. \A i \in 1..Len(w) : w[i].n \in Nat
  <2>1. \A i \in 1..Len(w) : w[i] \in Wired OBVIOUS
  <2> QED BY <2>1 DEF Wired
<1>6. {w[i].n : i \in {j \in 1..Len(w) : Datum(w[j], s)}} = (a + 1)..b
  <2>1. \A k \in Nat : k \in (a + 1)..b <=> \E i \in 1..Len(w) : Datum(w[i], s) /\ w[i].n = k
    BY <1>2 DEF Carries
  <2>2. \A k \in (a + 1)..b : k \in Nat BY <1>2
  <2> QED BY <1>5, <2>1, <2>2
<1>7. \A i, j \in {k \in 1..Len(w) : Datum(w[k], s)} : i < j => w[i].n < w[j].n
  BY <1>2 DEF Carries
<1> QED BY <1>1, <1>3, <1>4, <1>6, <1>7 DEF Hs!Whole

\* What the wire to the host holds of a stream, by what its browser has done and the
\* phase of its local connection: its open comes first, and once it has gone its close.
Opens(w, s, i) == w[i].type = "open" /\ w[i].ws = s
HostSide(w, s, b, p) ==
  /\ b = "new" => p = "none" /\ \A i \in 1..Len(w) : w[i].ws # s
  /\ \A i \in 1..Len(w) : Opens(w, s, i) =>
       p = "none" /\ \A j \in 1..Len(w) : Opens(w, s, j) => j = i
  /\ p = "none" => /\ \A i \in 1..Len(w) : w[i].ws = s => \E j \in 1..i : Opens(w, s, j)
                   /\ b # "new" => \E j \in 1..Len(w) : Opens(w, s, j)
  /\ b = "gone" => p = "closed" \/ \E i \in 1..Len(w) : w[i].type = "close" /\ w[i].ws = s

LEMMA HostSideMoves ==
  ASSUME NEW w, NEW s, NEW b, NEW p, NEW q, HostSide(w, s, b, p),
         p \in {"opening", "open"}, q \in {"open", "closed"}
  PROVE  HostSide(w, s, b, q)
BY DEF HostSide

LEMMA HostSideOther ==
  ASSUME NEW w \in Seq(Wired), NEW s, NEW b, NEW p, NEW m \in Wired,
         HostSide(w, s, b, p), m.ws # s, NEW x, x = Append(w, m)
  PROVE  HostSide(x, s, b, p)
<1>1. PICK n \in Nat : n = Len(w) OBVIOUS
<1>2. Len(x) = n + 1 /\ x[n + 1] = m /\ \A i \in 1..n : x[i] = w[i]
  BY <1>1
<1>3. \A i \in 1..n + 1 : x[i].ws = s => i \in 1..n /\ x[i] = w[i]
  <2>1. \A i \in 1..n + 1 : i = n + 1 \/ i \in 1..n BY <1>1
  <2> QED BY <1>2, <2>1
<1>4. \A i \in 1..n : i \in 1..n + 1 /\ \A j \in 1..i : j \in 1..n BY <1>1
<1>5. b = "new" => p = "none" /\ \A i \in 1..n + 1 : x[i].ws # s
  BY <1>1, <1>3 DEF HostSide
<1>6. ASSUME NEW i \in 1..n + 1, Opens(x, s, i)
      PROVE  p = "none" /\ \A j \in 1..n + 1 : Opens(x, s, j) => j = i
  <2>1. i \in 1..n /\ Opens(w, s, i) BY <1>3, <1>6 DEF Opens
  <2>2. \A j \in 1..n + 1 : Opens(x, s, j) => j \in 1..n /\ Opens(w, s, j) BY <1>3 DEF Opens
  <2> QED BY <1>1, <2>1, <2>2 DEF HostSide
<1>7. ASSUME p = "none"
      PROVE  /\ \A i \in 1..n + 1 : x[i].ws = s => \E j \in 1..i : Opens(x, s, j)
             /\ b # "new" => \E j \in 1..n + 1 : Opens(x, s, j)
  <2>1. \A j \in 1..n : Opens(w, s, j) => Opens(x, s, j) BY <1>2 DEF Opens
  <2>2. /\ \A i \in 1..n : w[i].ws = s => \E j \in 1..i : Opens(w, s, j)
        /\ b # "new" => \E j \in 1..n : Opens(w, s, j)
    BY <1>1, <1>7 DEF HostSide
  <2> QED BY <1>3, <1>4, <2>1, <2>2
<1>8. b = "gone" => p = "closed" \/ \E i \in 1..n + 1 : x[i].type = "close" /\ x[i].ws = s
  BY <1>1, <1>2, <1>4 DEF HostSide
<1> QED BY <1>2, <1>5, <1>6, <1>7, <1>8 DEF HostSide

LEMMA HostSideOpen ==
  ASSUME NEW w \in Seq(Wired), NEW s, NEW p, NEW m \in Wired,
         HostSide(w, s, "new", p), m.ws = s, m.type = "open", NEW x, x = Append(w, m)
  PROVE  HostSide(x, s, "open", p)
<1>1. PICK n \in Nat : n = Len(w) OBVIOUS
<1>2. Len(x) = n + 1 /\ x[n + 1] = m /\ \A i \in 1..n : x[i] = w[i]
  BY <1>1
<1>3. p = "none" /\ \A i \in 1..n : x[i].ws # s BY <1>1, <1>2 DEF HostSide
<1>4. \A i \in 1..n + 1 : x[i].ws = s => i = n + 1
  <2>1. \A i \in 1..n + 1 : i = n + 1 \/ i \in 1..n BY <1>1
  <2> QED BY <1>3, <2>1
<1>5. Opens(x, s, n + 1) /\ n + 1 \in 1..n + 1 BY <1>1, <1>2 DEF Opens
<1>6. \A i \in 1..n + 1 : Opens(x, s, i) => i = n + 1 BY <1>4 DEF Opens
<1> QED BY <1>2, <1>3, <1>4, <1>5, <1>6 DEF HostSide

LEMMA HostSideMore ==
  ASSUME NEW w \in Seq(Wired), NEW s, NEW p, NEW b, NEW m \in Wired, NEW x, x = Append(w, m),
         HostSide(w, s, "open", p), m.ws = s,
         \/ m.type = "data" /\ b = "open"
         \/ m.type = "close" /\ b = "gone"
  PROVE  HostSide(x, s, b, p)
<1>1. PICK n \in Nat : n = Len(w) OBVIOUS
<1>2. Len(x) = n + 1 /\ x[n + 1] = m /\ \A i \in 1..n : x[i] = w[i]
  BY <1>1
<1>3. \A i \in 1..n + 1 : i = n + 1 \/ i \in 1..n BY <1>1
<1>4. \A i \in 1..n : i \in 1..n + 1 BY <1>1
<1>5. \A i \in 1..n + 1 : Opens(x, s, i) <=> i \in 1..n /\ Opens(w, s, i)
  <2>1. \A i \in 1..n : Opens(x, s, i) <=> Opens(w, s, i) BY <1>2 DEF Opens
  <2>2. ~Opens(x, s, n + 1) BY <1>2 DEF Opens
  <2>3. n + 1 \notin 1..n BY <1>1
  <2> QED BY <1>3, <2>1, <2>2, <2>3
<1>6. ASSUME NEW i \in 1..n + 1, Opens(x, s, i)
      PROVE  p = "none" /\ \A j \in 1..n + 1 : Opens(x, s, j) => j = i
  BY <1>1, <1>5, <1>6 DEF HostSide
<1>7. ASSUME p = "none"
      PROVE  /\ \A i \in 1..n + 1 : x[i].ws = s => \E j \in 1..i : Opens(x, s, j)
             /\ \E j \in 1..n + 1 : Opens(x, s, j)
  <2>1. /\ \A i \in 1..n : w[i].ws = s => \E j \in 1..i : Opens(w, s, j)
        /\ \E j \in 1..n : Opens(w, s, j)
    BY <1>1, <1>7 DEF HostSide
  <2>2. PICK c \in 1..n : Opens(w, s, c) BY <2>1
  <2>3. Opens(x, s, c) /\ c \in 1..n + 1 BY <1>4, <1>5, <2>2
  <2>4. \A i \in 1..n : x[i].ws = s => \E j \in 1..i : Opens(x, s, j)
    <3>1. \A i \in 1..n : \A j \in 1..i : j \in 1..n BY <1>1
    <3> QED BY <1>2, <1>4, <1>5, <2>1, <3>1
  <2> QED BY <1>3, <2>3, <2>4
<1>8. b = "gone" => p = "closed" \/ \E i \in 1..n + 1 : x[i].type = "close" /\ x[i].ws = s
  <2>1. n + 1 \in 1..n + 1 BY <1>1
  <2> QED BY <1>2, <2>1
<1> QED BY <1>2, <1>6, <1>7, <1>8 DEF HostSide

\* The message at the head is taken: of another stream, the open, data or the close.
Taken(w, m, x) == w # << >> /\ m = Head(w) /\ x = Tail(w)

LEMMA HostSideTail ==
  ASSUME NEW w \in Seq(Wired), NEW m, NEW x, Taken(w, m, x), NEW s, NEW b, NEW p, p # "opening",
         HostSide(w, s, b, p)
  PROVE  /\ m.ws # s => HostSide(x, s, b, p)
         /\ m.ws = s /\ m.type = "open" => p = "none" /\ HostSide(x, s, b, "opening")
         /\ m.ws = s /\ m.type = "data" => p # "none" /\ HostSide(x, s, b, p)
         /\ m.ws = s /\ m.type = "close" => p # "none" /\ HostSide(x, s, b, "closed")
<1>1. PICK n \in Nat : Len(w) = n + 1
  <2>1. Len(w) \in Nat /\ Len(w) # 0 BY DEF Taken
  <2> QED BY <2>1
<1>2. Len(x) = n /\ m = w[1] /\ \A i \in 1..n : x[i] = w[i + 1]
  <2>1. w # << >> /\ m = Head(w) /\ x = Tail(w) BY DEF Taken
  <2> QED BY <1>1, <2>1
<1>3. /\ \A i \in 1..n : i + 1 \in 1..n + 1
      /\ \A i \in 1..n + 1 : i = 1 \/ (i - 1 \in 1..n /\ (i - 1) + 1 = i)
      /\ 1 \in 1..n + 1
  BY <1>1
<1>4. \A i \in 1..n : Opens(x, s, i) <=> Opens(w, s, i + 1) BY <1>2 DEF Opens
<1>5. b = "new" => p = "none" /\ m.ws # s /\ \A i \in 1..n : x[i].ws # s
  BY <1>1, <1>2, <1>3 DEF HostSide
<1>6. ASSUME NEW i \in 1..n, Opens(x, s, i)
      PROVE  p = "none" /\ ~Opens(w, s, 1) /\ \A j \in 1..n : Opens(x, s, j) => j = i
  <2>1. i + 1 \in 1..n + 1 /\ Opens(w, s, i + 1) BY <1>3, <1>4, <1>6
  <2>2. p = "none" /\ \A j \in 1..n + 1 : Opens(w, s, j) => j = i + 1
    BY <1>1, <2>1 DEF HostSide
  <2>3. \A j \in 1..n : Opens(x, s, j) => j + 1 = i + 1 BY <1>3, <1>4, <2>2
  <2>4. 1 # i + 1 BY <1>1
  <2> QED BY <1>1, <1>3, <2>2, <2>3, <2>4
<1>7. m.ws = s /\ p = "none" => Opens(w, s, 1)
  <2>1. \A j \in 1..1 : j = 1 OBVIOUS
  <2> QED BY <1>1, <1>2, <1>3, <2>1 DEF HostSide
<1>8. ASSUME m.type # "close" \/ m.ws # s, b = "gone"
      PROVE  p = "closed" \/ \E i \in 1..n : x[i].type = "close" /\ x[i].ws = s
  <2> SUFFICES ASSUME NEW i \in 1..n + 1, w[i].type = "close", w[i].ws = s
               PROVE  \E j \in 1..n : x[j].type = "close" /\ x[j].ws = s
    BY <1>1, <1>8 DEF HostSide
  <2>1. i # 1 BY <1>2, <1>8
  <2>2. i - 1 \in 1..n /\ (i - 1) + 1 = i BY <1>3, <2>1
  <2>3. x[i - 1] = w[i] BY <1>2, <2>2
  <2> QED BY <2>2, <2>3
<1>9. ASSUME m.ws # s PROVE HostSide(x, s, b, p)
  <2>1. ~Opens(w, s, 1) BY <1>2, <1>9 DEF Opens
  <2>2. ASSUME p = "none"
        PROVE  /\ \A i \in 1..n : x[i].ws = s => \E j \in 1..i : Opens(x, s, j)
               /\ b # "new" => \E j \in 1..n : Opens(x, s, j)
    <3>1. /\ \A i \in 1..n + 1 : w[i].ws = s => \E j \in 1..i : Opens(w, s, j)
          /\ b # "new" => \E j \in 1..n + 1 : Opens(w, s, j)
      BY <1>1, <2>2 DEF HostSide
    <3>2. ASSUME NEW i \in 1..n, x[i].ws = s PROVE \E j \in 1..i : Opens(x, s, j)
      <4>1. PICK c \in 1..i + 1 : Opens(w, s, c) BY <1>2, <1>3, <3>1, <3>2
      <4>2. c # 1 BY <2>1, <4>1
      <4>3. c - 1 \in 1..i /\ c - 1 \in 1..n /\ (c - 1) + 1 = c BY <1>1, <4>2
      <4>4. Opens(x, s, c - 1) BY <1>4, <4>1, <4>3
      <4> QED BY <4>3, <4>4
    <3>3. ASSUME b # "new" PROVE \E j \in 1..n : Opens(x, s, j)
      <4>1. PICK c \in 1..n + 1 : Opens(w, s, c) BY <3>1, <3>3
      <4>2. c - 1 \in 1..n /\ (c - 1) + 1 = c BY <1>3, <2>1, <4>1
      <4>3. Opens(x, s, c - 1) BY <1>4, <4>1, <4>2
      <4> QED BY <4>2, <4>3
    <3> QED BY <3>2, <3>3
  <2> QED BY <1>2, <1>5, <1>6, <1>8, <1>9, <2>2 DEF HostSide
<1>10. ASSUME m.ws = s, m.type = "open" PROVE p = "none" /\ HostSide(x, s, b, "opening")
  <2>1. Opens(w, s, 1) BY <1>2, <1>10 DEF Opens
  <2>2. p = "none" BY <1>1, <1>3, <2>1 DEF HostSide
  <2>3. \A i \in 1..n : ~Opens(x, s, i) BY <1>6, <2>1
  <2>4. b = "gone" => \E i \in 1..n : x[i].type = "close" /\ x[i].ws = s BY <1>8, <1>10, <2>2
  <2> QED BY <1>2, <1>5, <1>10, <2>2, <2>3, <2>4 DEF HostSide
<1>11. ASSUME m.ws = s, m.type # "open"
       PROVE  p # "none" /\ b # "new" /\ \A i \in 1..n : ~Opens(x, s, i)
  <2>1. p # "none" BY <1>2, <1>7, <1>11 DEF Opens
  <2> QED BY <1>5, <1>6, <1>11, <2>1
<1>12. ASSUME m.ws = s, m.type = "data" PROVE p # "none" /\ HostSide(x, s, b, p)
  BY <1>2, <1>8, <1>11, <1>12 DEF HostSide
<1>13. ASSUME m.ws = s, m.type = "close" PROVE p # "none" /\ HostSide(x, s, b, "closed")
  BY <1>2, <1>11, <1>13 DEF HostSide
<1> QED BY <1>9, <1>10, <1>12, <1>13

HostTyped ==
  /\ v2 \in [Socket -> {"new", "open", "gone"}] /\ v9 \in [Socket -> {"none", "open", "closed"}]
  /\ v4 \in Seq(Wired) /\ v5 \in Seq(Wired) /\ \A i \in 1..Len(v5) : v5[i].type = "data"
  /\ v10 \in [Socket -> Nat] /\ v11 \in [Socket -> Nat]
  /\ v12 \in [Socket -> Seq(Nat)] /\ v13 \in [Socket -> Seq(Nat)]

PhaseOf(s) == IF s \in v6 THEN "opening" ELSE v9[s]

Ends(s) ==
  /\ s \in v6 => v9[s] = "none"
  /\ v9[s] = "open" => s \in v7
  /\ s \in v8 => v2[s] # "new"
  /\ s \in v3 <=> v2[s] = "open"
  /\ v2[s] = "new" => v11[s] = 0

Upward(s) == v2[s] # "gone" => Ids(v13[s]) /\ Carries(v5, s, Len(v13[s]), v11[s])

Downward(s) ==
  /\ HostSide(v4, s, v2[s], PhaseOf(s))
  /\ v9[s] # "closed" => Ids(v12[s]) /\ Carries(v4, s, Len(v12[s]), v10[s])

\* A tunnel that is lost does not come back: it is replaced by another.
StreamsInv ==
  /\ HostTyped
  /\ v1 => \A s \in Socket : Ends(s) /\ Upward(s) /\ Downward(s)

LEMMA StreamsInit == Hs!Init => StreamsInv
<1> SUFFICES ASSUME Hs!Init PROVE StreamsInv OBVIOUS
<1>1. HostTyped BY DEF Hs!Init, HostTyped
<1>2. ASSUME NEW s \in Socket PROVE Ends(s) /\ Upward(s) /\ Downward(s)
  <2>1. /\ v2[s] = "new" /\ v9[s] = "none" /\ v10[s] = 0 /\ v11[s] = 0
        /\ v12[s] = << >> /\ v13[s] = << >> /\ v4 = << >> /\ v5 = << >>
        /\ v3 = {} /\ v6 = {} /\ v8 = {}
    BY DEF Hs!Init
  <2>2. Ids(<< >>) /\ Carries(<< >>, s, 0, 0) BY DEF Ids, Carries
  <2>3. HostSide(<< >>, s, "new", "none") BY DEF HostSide
  <2>4. Len(v12[s]) = 0 /\ Len(v13[s]) = 0 /\ PhaseOf(s) = "none" BY <2>1 DEF PhaseOf
  <2> QED BY <2>1, <2>2, <2>3, <2>4 DEF Ends, Upward, Downward
<1> QED BY <1>1, <1>2 DEF StreamsInv

\* A message to the host changes nothing for another stream.
LEMMA DownOther ==
  ASSUME HostTyped, NEW c \in Socket, Downward(c), NEW m \in Wired, m.ws # c,
         v4' = Append(v4, m), v2'[c] = v2[c], v10'[c] = v10[c], UNCHANGED <<v6, v9, v12>>
  PROVE  Downward(c)'
<1>1. PICK p, a, b, k : p = PhaseOf(c) /\ a = Len(v12[c]) /\ b = v10[c] /\ k = v2[c] OBVIOUS
<1>2. PhaseOf(c)' = p BY <1>1 DEF PhaseOf
<1>3. v4 \in Seq(Wired) /\ a \in Nat /\ b \in Nat BY <1>1 DEF HostTyped
<1>4. HostSide(v4, c, k, p) BY <1>1 DEF Downward
<1>5. HostSide(v4', c, k, p) BY <1>3, <1>4, HostSideOther
<1>6. Carries(v4, c, a, b) => Carries(v4', c, a, b)
  <2>1. ~Datum(m, c) BY DEF Datum
  <2> QED BY <1>3, <2>1, CarriesOther
<1> QED BY <1>1, <1>2, <1>5, <1>6 DEF Downward

\* The browser connects, sends or goes.
LEMMA BrowserActs ==
  ASSUME StreamsInv, v1, v1', NEW s \in Socket,
         Hs!Connect(s) \/ Hs!BrowserSends(s) \/ Hs!BrowserGoes(s)
  PROVE  StreamsInv'
<1>1. /\ v2[s] \in {"new", "open", "gone"} /\ v10[s] \in Nat /\ v4 \in Seq(Wired)
      /\ Ends(s) /\ Upward(s) /\ Downward(s)
  BY DEF StreamsInv, HostTyped
<1>2. /\ UNCHANGED <<v5, v6, v7, v8, v9, v11, v12, v13>>
      /\ \A c \in Socket : c # s => v2'[c] = v2[c] /\ v10'[c] = v10[c] /\ (c \in v3' <=> c \in v3)
      /\ v2' \in [Socket -> {"new", "open", "gone"}] /\ v10' \in [Socket -> Nat]
  <2>0. v2 \in [Socket -> {"new", "open", "gone"}] /\ v10 \in [Socket -> Nat]
    BY DEF StreamsInv, HostTyped
  <2>1. CASE Hs!Connect(s) BY <2>0, <2>1 DEF Hs!Connect, Hs!hostVars, Hs!dataVars
  <2>2. CASE Hs!BrowserSends(s) BY <2>0, <2>2 DEF Hs!BrowserSends, Hs!hostVars, Hs!serverVars
  <2>3. CASE Hs!BrowserGoes(s) BY <2>0, <2>3 DEF Hs!BrowserGoes, Hs!hostVars, Hs!dataVars
  <2> QED BY <2>1, <2>2, <2>3
<1>3. PICK m \in Wired :
        /\ m.ws = s /\ v4' = Append(v4, m)
        /\ \/ m.type = "open" /\ v2[s] = "new" /\ v2'[s] = "open" /\ s \in v3' /\ v10'[s] = v10[s]
           \/ /\ m.type = "data" /\ m.n = v10[s] + 1 /\ v10'[s] = v10[s] + 1
              /\ v2[s] = "open" /\ v2'[s] = "open" /\ s \in v3'
           \/ /\ m.type = "close" /\ v10'[s] = v10[s]
              /\ v2[s] = "open" /\ v2'[s] = "gone" /\ s \notin v3'
  <2>0. v2 \in [Socket -> {"new", "open", "gone"}] /\ v10 \in [Socket -> Nat]
        /\ (s \in v3 <=> v2[s] = "open")
    BY <1>1 DEF StreamsInv, HostTyped, Ends
  <2>1. CASE Hs!Connect(s)
    <3>1. PICK m : m = [type |-> "open", ws |-> s, n |-> 0] OBVIOUS
    <3>2. m \in Wired /\ m.ws = s /\ m.type = "open" BY <3>1 DEF Wired
    <3>3. v4' = Append(v4, m) BY <2>1, <3>1 DEF Hs!Connect, Hs!Way, Hs!Msg
    <3>4. v2[s] = "new" /\ v2'[s] = "open" /\ s \in v3' /\ v10'[s] = v10[s]
      BY <2>0, <2>1 DEF Hs!Connect, Hs!dataVars
    <3> QED BY <3>2, <3>3, <3>4
  <2>2. CASE Hs!BrowserSends(s)
    <3>1. PICK m : m = [type |-> "data", ws |-> s, n |-> v10[s] + 1] OBVIOUS
    <3>2. m \in Wired /\ m.ws = s /\ m.type = "data" /\ m.n = v10[s] + 1
      BY <1>1, <3>1 DEF Wired
    <3>3. v4' = Append(v4, m) BY <2>2, <3>1 DEF Hs!BrowserSends, Hs!Way, Hs!Msg
    <3>4. v2[s] = "open" /\ v2'[s] = "open" /\ s \in v3' /\ v10'[s] = v10[s] + 1
      BY <2>0, <2>2 DEF Hs!BrowserSends, Hs!serverVars
    <3> QED BY <3>2, <3>3, <3>4
  <2>3. CASE Hs!BrowserGoes(s)
    <3>1. PICK m : m = [type |-> "close", ws |-> s, n |-> 0] OBVIOUS
    <3>2. m \in Wired /\ m.ws = s /\ m.type = "close" BY <3>1 DEF Wired
    <3>3. v4' = Append(v4, m) BY <2>3, <3>1 DEF Hs!BrowserGoes, Hs!Way, Hs!Msg
    <3>4. v2[s] = "open" /\ v2'[s] = "gone" /\ s \notin v3' /\ v10'[s] = v10[s]
      BY <2>0, <2>3 DEF Hs!BrowserGoes, Hs!dataVars
    <3> QED BY <3>2, <3>3, <3>4
  <2> QED BY <2>1, <2>2, <2>3
<1>4. v4' \in Seq(Wired) BY <1>1, <1>3
<1>5. HostTyped' BY <1>2, <1>4 DEF StreamsInv, HostTyped
<1>6. ASSUME NEW c \in Socket, c # s PROVE Ends(c)' /\ Upward(c)' /\ Downward(c)'
  <2>1. HostTyped /\ Ends(c) /\ Upward(c) /\ Downward(c) BY DEF StreamsInv
  <2>2. Downward(c)' BY <1>2, <1>3, <1>6, <2>1, DownOther
  <2>3. Ends(c)' BY <1>2, <1>6, <2>1 DEF Ends
  <2>4. Upward(c)' BY <1>2, <1>6, <2>1 DEF Upward
  <2> QED BY <2>2, <2>3, <2>4
<1>7. Ends(s)' /\ Upward(s)'
  <2>1. Ends(s)' BY <1>1, <1>2, <1>3 DEF Ends
  <2>2. v2[s] # "gone" BY <1>3
  <2>3. Upward(s)' BY <1>1, <1>2, <2>2 DEF Upward
  <2> QED BY <2>1, <2>3
<1>8. Downward(s)'
  <2>1. PICK p, a, b : p = PhaseOf(s) /\ a = Len(v12[s]) /\ b = v10[s] OBVIOUS
  <2>2. PhaseOf(s)' = p BY <1>2, <2>1 DEF PhaseOf
  <2>3. HostSide(v4, s, v2[s], p) BY <1>1, <2>1 DEF Downward
  <2>4. HostSide(v4', s, v2'[s], p)
    <3>1. CASE m.type = "open" BY <1>1, <1>3, <2>3, <3>1, HostSideOpen
    <3>2. CASE m.type = "data" BY <1>1, <1>3, <2>3, <3>2, HostSideMore
    <3>3. CASE m.type = "close" BY <1>1, <1>3, <2>3, <3>3, HostSideMore
    <3> QED BY <1>3, <3>1, <3>2, <3>3
  <2>5. a \in Nat /\ b \in Nat BY <2>1 DEF StreamsInv, HostTyped
  <2>6. Carries(v4, s, a, b) => Carries(v4', s, a, v10'[s])
    <3>1. CASE m.type = "data"
      <4>1. Datum(m, s) /\ m.n = b + 1 /\ v10'[s] = b + 1 BY <1>3, <2>1, <3>1 DEF Datum
      <4> QED BY <1>1, <1>3, <2>5, <4>1, CarriesOne
    <3>2. CASE m.type # "data"
      <4>1. ~Datum(m, s) /\ v10'[s] = b BY <1>3, <2>1, <3>2 DEF Datum
      <4> QED BY <1>1, <1>3, <2>5, <4>1, CarriesOther
    <3> QED BY <3>1, <3>2
  <2> QED BY <1>1, <1>2, <2>1, <2>2, <2>4, <2>6 DEF Downward
<1> QED BY <1>5, <1>6, <1>7, <1>8 DEF StreamsInv

\* The local connection opens, fails or closes, or its reader ends.
LEMMA LocalActs ==
  ASSUME StreamsInv, v1, v1', NEW s \in Socket,
         Hs!Opened(s) \/ Hs!OpenFails(s) \/ Hs!LocalCloses(s) \/ Hs!ForwardEnds(s)
  PROVE  StreamsInv'
<1>1. /\ UNCHANGED <<v2, v3, v4, v5, v10, v11, v12, v13>>
      /\ v9' \in [Socket -> {"none", "open", "closed"}]
      /\ \A c \in Socket : c # s => /\ v9'[c] = v9[c] /\ (c \in v6' <=> c \in v6)
                                    /\ (c \in v7' <=> c \in v7) /\ (c \in v8' <=> c \in v8)
  <2>0. v9 \in [Socket -> {"none", "open", "closed"}] BY DEF StreamsInv, HostTyped
  <2>1. CASE Hs!Opened(s) BY <2>0, <2>1 DEF Hs!Opened, Hs!serverVars, Hs!dataVars
  <2>2. CASE Hs!OpenFails(s) BY <2>0, <2>2 DEF Hs!OpenFails, Hs!serverVars, Hs!dataVars
  <2>3. CASE Hs!LocalCloses(s) BY <2>0, <2>3 DEF Hs!LocalCloses, Hs!serverVars, Hs!dataVars
  <2>4. CASE Hs!ForwardEnds(s) BY <2>0, <2>4 DEF Hs!ForwardEnds, Hs!serverVars, Hs!dataVars
  <2> QED BY <2>1, <2>2, <2>3, <2>4
<1>2. HostTyped' BY <1>1 DEF StreamsInv, HostTyped
<1>3. \A c \in Socket : Upward(c)' BY <1>1 DEF StreamsInv, Upward
<1>4. ASSUME NEW c \in Socket, c # s PROVE Ends(c)' /\ Downward(c)'
  <2>1. Ends(c) /\ Downward(c) BY DEF StreamsInv
  <2>2. PhaseOf(c)' = PhaseOf(c) BY <1>1, <1>4 DEF PhaseOf
  <2>3. Ends(c)' BY <1>1, <1>4, <2>1 DEF Ends
  <2>4. Downward(c)' BY <1>1, <1>4, <2>1, <2>2 DEF Downward
  <2> QED BY <2>3, <2>4
<1>5. Ends(s) /\ Downward(s) /\ v9[s] \in {"none", "open", "closed"} BY DEF StreamsInv, HostTyped
<1>6. PICK p : p = PhaseOf(s) OBVIOUS
<1>7. \/ PhaseOf(s)' = p /\ v9'[s] = v9[s]
      \/ p \in {"opening", "open"} /\ PhaseOf(s)' \in {"open", "closed"} /\ v9[s] # "closed"
  <2>0. v9 \in [Socket -> {"none", "open", "closed"}] BY DEF StreamsInv, HostTyped
  <2>1. CASE Hs!Opened(s)
    <3>1. s \in v6 /\ s \notin v6' /\ v9'[s] = "open" BY <2>0, <2>1 DEF Hs!Opened
    <3> QED BY <1>5, <1>6, <3>1 DEF PhaseOf, Ends
  <2>2. CASE Hs!OpenFails(s)
    <3>1. s \in v6 /\ s \notin v6' /\ v9'[s] = "closed" BY <2>0, <2>2 DEF Hs!OpenFails
    <3> QED BY <1>5, <1>6, <3>1 DEF PhaseOf, Ends
  <2>3. CASE Hs!LocalCloses(s)
    <3>1. v9[s] = "open" /\ v6' = v6 /\ v9'[s] = "closed" BY <2>0, <2>3 DEF Hs!LocalCloses
    <3> QED BY <1>5, <1>6, <3>1 DEF PhaseOf, Ends
  <2>4. CASE Hs!ForwardEnds(s)
    <3>1. v6' = v6 /\ v9' = v9 BY <2>4 DEF Hs!ForwardEnds
    <3> QED BY <1>6, <3>1 DEF PhaseOf
  <2> QED BY <2>1, <2>2, <2>3, <2>4
<1>8. Downward(s)'
  <2>1. CASE PhaseOf(s)' = p /\ v9'[s] = v9[s] BY <1>1, <1>5, <1>6, <2>1 DEF Downward
  <2>2. CASE p \in {"opening", "open"} /\ PhaseOf(s)' \in {"open", "closed"} /\ v9[s] # "closed"
    <3>1. PICK q : q = PhaseOf(s)' OBVIOUS
    <3>2. HostSide(v4, s, v2[s], p) BY <1>5, <1>6 DEF Downward
    <3>3. HostSide(v4, s, v2[s], q) BY <2>2, <3>1, <3>2, HostSideMoves
    <3> QED BY <1>1, <1>5, <2>2, <3>1, <3>3 DEF Downward
  <2> QED BY <1>7, <2>1, <2>2
<1>9. Ends(s)'
  <2>0. /\ v9 \in [Socket -> {"none", "open", "closed"}]
        /\ (s \in v6 => v2[s] # "new") /\ UNCHANGED <<v2, v3, v11>>
    <3>1. HostSide(v4, s, v2[s], PhaseOf(s)) BY <1>5 DEF Downward
    <3>2. s \in v6 => v2[s] # "new" BY <3>1 DEF HostSide, PhaseOf
    <3> QED BY <1>1, <3>2 DEF StreamsInv, HostTyped
  <2>1. CASE Hs!Opened(s) BY <1>5, <2>0, <2>1 DEF Hs!Opened, Ends
  <2>2. CASE Hs!OpenFails(s) BY <1>5, <2>0, <2>2 DEF Hs!OpenFails, Ends
  <2>3. CASE Hs!LocalCloses(s) BY <1>5, <2>0, <2>3 DEF Hs!LocalCloses, Ends
  <2>4. CASE Hs!ForwardEnds(s) BY <1>5, <2>0, <2>4 DEF Hs!ForwardEnds, Ends
  <2> QED BY <2>1, <2>2, <2>3, <2>4
<1> QED BY <1>2, <1>3, <1>4, <1>8, <1>9 DEF StreamsInv

LEMMA Forwards ==
  ASSUME StreamsInv, v1, v1', NEW s \in Socket, Hs!Forward(s)
  PROVE  StreamsInv'
<1>1. PICK m : m = [type |-> "data", ws |-> s, n |-> v11[s] + 1] OBVIOUS
<1>2. /\ s \in v8 /\ v11' = [v11 EXCEPT ![s] = @ + 1] /\ v5' = Append(v5, m)
      /\ UNCHANGED <<v2, v3, v4, v6, v7, v8, v9, v10, v12, v13>>
  BY <1>1 DEF Hs!Forward, Hs!Way, Hs!Msg, Hs!serverVars
<1>3. /\ v11[s] \in Nat /\ v5 \in Seq(Wired) /\ v11 \in [Socket -> Nat]
      /\ \A i \in 1..Len(v5) : v5[i].type = "data"
  BY DEF StreamsInv, HostTyped
<1>4. m \in Wired /\ m.type = "data" /\ m.ws = s /\ m.n = v11[s] + 1 BY <1>1, <1>3 DEF Wired
<1>5. v5' \in Seq(Wired) /\ \A i \in 1..Len(v5') : v5'[i].type = "data"
  <2>1. PICK n \in Nat : n = Len(v5) BY <1>3
  <2>2. /\ v5' \in Seq(Wired) /\ Len(v5') = n + 1 /\ v5'[n + 1] = m
        /\ \A i \in 1..n : v5'[i] = v5[i]
    BY <1>2, <1>3, <1>4, <2>1
  <2>3. \A i \in 1..n + 1 : i = n + 1 \/ i \in 1..n BY <2>1
  <2> QED BY <1>3, <1>4, <2>1, <2>2, <2>3
<1>6. v11' \in [Socket -> Nat] /\ \A c \in Socket : v11'[c] = IF c = s THEN v11[s] + 1 ELSE v11[c]
  BY <1>2, <1>3
<1>7. HostTyped' BY <1>2, <1>5, <1>6 DEF StreamsInv, HostTyped
<1>8. ASSUME NEW c \in Socket PROVE Ends(c)' /\ Upward(c)' /\ Downward(c)'
  <2>1. Ends(c) /\ Upward(c) /\ Downward(c) BY DEF StreamsInv
  <2>2. Downward(c)'
    <3>1. PhaseOf(c)' = PhaseOf(c) BY <1>2 DEF PhaseOf
    <3> QED BY <1>2, <2>1, <3>1 DEF Downward
  <2>3. Ends(c)' BY <1>2, <1>6, <2>1 DEF Ends
  <2>4. PICK a, b : a = Len(v13[c]) /\ b = v11[c] OBVIOUS
  <2>5. a \in Nat /\ b \in Nat BY <2>4 DEF StreamsInv, HostTyped
  <2>6. Carries(v5, c, a, b) => Carries(v5', c, a, v11'[c])
    <3>1. CASE c = s
      <4>1. Datum(m, c) /\ m.n = b + 1 /\ v11'[c] = b + 1 BY <1>4, <1>6, <2>4, <3>1 DEF Datum
      <4> QED BY <1>2, <1>3, <1>4, <2>5, <4>1, CarriesOne
    <3>2. CASE c # s
      <4>1. ~Datum(m, c) /\ v11'[c] = b BY <1>4, <1>6, <2>4, <3>2 DEF Datum
      <4> QED BY <1>2, <1>3, <1>4, <2>5, <4>1, CarriesOther
    <3> QED BY <3>1, <3>2
  <2>7. Upward(c)' BY <1>2, <2>1, <2>4, <2>6 DEF Upward
  <2> QED BY <2>2, <2>3, <2>7
<1> QED BY <1>7, <1>8 DEF StreamsInv

LEMMA ServerTakes ==
  ASSUME StreamsInv, v1, v1', Hs!ServerReads
  PROVE  StreamsInv'
<1>1. PICK m : m = Head(v5) OBVIOUS
<1>2. /\ v5 # << >> /\ v5' = Tail(v5)
      /\ v13' = IF m.ws \in v3 THEN [v13 EXCEPT ![m.ws] = Append(@, m.n)] ELSE v13
      /\ UNCHANGED <<v2, v3, v4, v6, v7, v8, v9, v10, v11, v12>>
  BY <1>1 DEF Hs!ServerReads, Hs!serverVars, Hs!hostVars
<1>3. /\ v5 \in Seq(Wired) /\ v13 \in [Socket -> Seq(Nat)]
      /\ \A i \in 1..Len(v5) : v5[i].type = "data"
  BY DEF StreamsInv, HostTyped
<1>4. m = v5[1] /\ 1 \in 1..Len(v5) BY <1>1, <1>2, <1>3
<1>5. m \in Wired /\ m.type = "data" /\ m.ws \in Socket /\ m.n \in Nat
  <2>1. m \in Wired /\ m.type = "data" BY <1>3, <1>4
  <2> QED BY <2>1 DEF Wired
<1>6. v5' \in Seq(Wired) /\ \A i \in 1..Len(v5') : v5'[i].type = "data"
  <2>1. PICK x : x = Tail(v5) OBVIOUS
  <2>2. x \in Seq(Wired) /\ \A i \in 1..Len(x) : i + 1 \in 1..Len(v5) /\ x[i] = v5[i + 1]
    BY <1>2, <1>3, <2>1
  <2> QED BY <1>2, <1>3, <2>1, <2>2
<1>7. /\ v13' \in [Socket -> Seq(Nat)]
      /\ \A c \in Socket : c # m.ws => v13'[c] = v13[c]
      /\ m.ws \in v3 => v13'[m.ws] = Append(v13[m.ws], m.n)
  <2>1. PICK q : q = Append(v13[m.ws], m.n) OBVIOUS
  <2>2. q \in Seq(Nat) BY <1>3, <1>5, <2>1
  <2>3. CASE m.ws \in v3
    <3>1. v13' = [v13 EXCEPT ![m.ws] = q] BY <1>2, <2>1, <2>3
    <3> QED BY <1>3, <1>5, <2>1, <2>2, <3>1
  <2>4. CASE m.ws \notin v3 BY <1>2, <1>3, <2>4
  <2> QED BY <2>3, <2>4
<1>8. HostTyped' BY <1>2, <1>6, <1>7 DEF StreamsInv, HostTyped
<1>9. ASSUME NEW c \in Socket PROVE Ends(c)' /\ Upward(c)' /\ Downward(c)'
  <2>1. Ends(c) /\ Upward(c) /\ Downward(c) BY DEF StreamsInv
  <2>2. Downward(c)'
    <3>1. PhaseOf(c)' = PhaseOf(c) BY <1>2 DEF PhaseOf
    <3> QED BY <1>2, <2>1, <3>1 DEF Downward
  <2>3. Ends(c)' BY <1>2, <2>1 DEF Ends
  <2>4. PICK q, a, b : q = v13[c] /\ a = Len(q) /\ b = v11[c] OBVIOUS
  <2>5. q \in Seq(Nat) /\ a \in Nat /\ b \in Nat /\ v2[c] \in {"new", "open", "gone"}
    BY <2>4 DEF StreamsInv, HostTyped
  <2>6. Upward(c)'
    <3> SUFFICES ASSUME v2[c] # "gone"
                 PROVE  Ids(v13'[c]) /\ Carries(v5', c, Len(v13'[c]), b)
      BY <1>2, <2>4 DEF Upward
    <3>1. Ids(q) /\ Carries(v5, c, a, b) BY <2>1, <2>4 DEF Upward
    <3>2. /\ ~Datum(m, c) => Carries(v5', c, a, b)
          /\ Datum(m, c) => m.n = a + 1 /\ Carries(v5', c, a + 1, b)
      BY <1>1, <1>2, <1>3, <2>5, <3>1, CarriesLess
    <3>3. CASE c # m.ws
      <4>1. ~Datum(m, c) /\ v13'[c] = q BY <1>7, <2>4, <3>3 DEF Datum
      <4> QED BY <2>4, <3>1, <3>2, <4>1
    <3>4. CASE c = m.ws
      <4>1. Datum(m, c) BY <1>5, <3>4 DEF Datum
      <4>2. m.n = a + 1 /\ Carries(v5', c, a + 1, b) BY <3>2, <4>1
      <4>3. v2[c] = "open"
        <5>1. a + 1 <= b BY <4>2 DEF Carries
        <5>2. b # 0 BY <2>5, <5>1
        <5> QED BY <2>1, <2>4, <2>5, <5>2 DEF Ends
      <4>4. v13'[c] = Append(q, m.n) BY <1>7, <2>1, <2>4, <3>4, <4>3 DEF Ends
      <4>5. PICK k \in Nat : k = m.n BY <1>5
      <4>6. PICK r : r = v13'[c] OBVIOUS
      <4>7. r = Append(q, k) /\ k = Len(q) + 1 BY <2>4, <4>2, <4>4, <4>5, <4>6
      <4>8. Ids(r) /\ Len(r) = a + 1 BY <2>4, <2>5, <3>1, <4>7, IdsGrow
      <4> QED BY <4>2, <4>6, <4>8
    <3> QED BY <3>3, <3>4
  <2> QED BY <2>2, <2>3, <2>6
<1> QED BY <1>8, <1>9 DEF StreamsInv

LEMMA HostTakes ==
  ASSUME StreamsInv, v1, v1', Hs!HostReads
  PROVE  StreamsInv'
<1>1. PICK m : m = Head(v4) OBVIOUS
<1>2. /\ v4 # << >> /\ v6 = {} /\ v4' = Tail(v4)
      /\ UNCHANGED <<v2, v3, v5, v8, v10, v11, v13>>
  BY DEF Hs!HostReads, Hs!serverVars
<1>3. \/ /\ m.type = "open" /\ v6' = v6 \cup {m.ws} /\ UNCHANGED <<v7, v9, v12>>
      \/ /\ m.type = "data"
         /\ v12' = IF m.ws \in v7 /\ v9[m.ws] = "open"
                     THEN [v12 EXCEPT ![m.ws] = Append(@, m.n)] ELSE v12
         /\ UNCHANGED <<v6, v7, v9>>
      \/ /\ m.type = "close" /\ v7' = v7 \ {m.ws}
         /\ v9' = IF m.ws \in v7 THEN [v9 EXCEPT ![m.ws] = "closed"] ELSE v9
         /\ UNCHANGED <<v6, v12>>
  BY <1>1 DEF Hs!HostReads, Hs!Target
<1>4. /\ v4 \in Seq(Wired) /\ v12 \in [Socket -> Seq(Nat)]
      /\ v9 \in [Socket -> {"none", "open", "closed"}]
  BY DEF StreamsInv, HostTyped
<1>5. m \in Wired /\ m.ws \in Socket /\ m.n \in Nat /\ m.type \in {"open", "data", "close"}
  <2>1. m \in Wired BY <1>1, <1>2, <1>4
  <2> QED BY <2>1 DEF Wired
<1>6. v4' \in Seq(Wired) BY <1>2, <1>4
<1>7. /\ v9' \in [Socket -> {"none", "open", "closed"}] /\ v12' \in [Socket -> Seq(Nat)]
      /\ \A c \in Socket : c # m.ws => /\ v9'[c] = v9[c] /\ v12'[c] = v12[c]
                                       /\ (c \in v7' <=> c \in v7) /\ c \notin v6'
      /\ m.type = "data" /\ m.ws \in v7 /\ v9[m.ws] = "open"
           => v12'[m.ws] = Append(v12[m.ws], m.n)
      /\ m.type = "close" /\ m.ws \in v7 => v9'[m.ws] = "closed"
  <2>1. PICK q : q = Append(v12[m.ws], m.n) OBVIOUS
  <2>2. q \in Seq(Nat) BY <1>4, <1>5, <2>1
  <2>3. CASE m.type = "open" BY <1>2, <1>3, <1>4, <2>3
  <2>4. CASE m.type = "close" BY <1>2, <1>3, <1>4, <1>5, <2>4
  <2>5. CASE m.type = "data"
    <3>1. CASE m.ws \in v7 /\ v9[m.ws] = "open"
      <4>1. v12' = [v12 EXCEPT ![m.ws] = q] /\ UNCHANGED <<v6, v7, v9>>
        BY <1>3, <2>1, <2>5, <3>1
      <4>2. /\ v12' \in [Socket -> Seq(Nat)] /\ v12'[m.ws] = q
            /\ \A c \in Socket : c # m.ws => v12'[c] = v12[c]
        BY <1>4, <1>5, <2>2, <4>1
      <4> QED BY <1>2, <1>4, <2>1, <2>5, <4>1, <4>2
    <3>2. CASE ~(m.ws \in v7 /\ v9[m.ws] = "open")
      <4>1. UNCHANGED <<v6, v7, v9, v12>> BY <1>3, <2>5, <3>2
      <4> QED BY <1>2, <1>4, <2>5, <3>2, <4>1
    <3> QED BY <3>1, <3>2
  <2> QED BY <1>5, <2>3, <2>4, <2>5
<1>8. HostTyped' BY <1>2, <1>6, <1>7 DEF StreamsInv, HostTyped
<1>9. ASSUME NEW c \in Socket PROVE Ends(c)' /\ Upward(c)' /\ Downward(c)'
  <2>1. Ends(c) /\ Upward(c) /\ Downward(c) BY DEF StreamsInv
  <2>2. PICK p, q, a, b, k : p = v9[c] /\ q = v12[c] /\ a = Len(q) /\ b = v10[c] /\ k = v2[c]
    OBVIOUS
  <2>3. q \in Seq(Nat) /\ a \in Nat /\ b \in Nat /\ p \in {"none", "open", "closed"}
    BY <2>2 DEF StreamsInv, HostTyped
  <2>4. PhaseOf(c) = p BY <1>2, <2>2 DEF PhaseOf
  <2>5. /\ m.ws # c => HostSide(v4', c, k, p)
        /\ m.ws = c /\ m.type = "open" => p = "none" /\ HostSide(v4', c, k, "opening")
        /\ m.ws = c /\ m.type = "data" => p # "none" /\ HostSide(v4', c, k, p)
        /\ m.ws = c /\ m.type = "close" => p # "none" /\ HostSide(v4', c, k, "closed")
    <3>1. HostSide(v4, c, k, p) /\ p # "opening" BY <2>1, <2>2, <2>3, <2>4 DEF Downward
    <3>2. PICK w, x : w = v4 /\ x = v4' OBVIOUS
    <3>3. w \in Seq(Wired) /\ Taken(w, m, x) BY <1>1, <1>2, <1>4, <3>2 DEF Taken
    <3>4. HostSide(w, c, k, p) BY <3>1, <3>2
    <3>5. /\ m.ws # c => HostSide(x, c, k, p)
          /\ m.ws = c /\ m.type = "open" => p = "none" /\ HostSide(x, c, k, "opening")
          /\ m.ws = c /\ m.type = "data" => p # "none" /\ HostSide(x, c, k, p)
          /\ m.ws = c /\ m.type = "close" => p # "none" /\ HostSide(x, c, k, "closed")
      BY <3>1, <3>3, <3>4, HostSideTail
    <3> QED BY <3>2, <3>5
  <2>6. p # "closed" =>
          /\ Ids(q) /\ Carries(v4, c, a, b)
          /\ ~Datum(m, c) => Carries(v4', c, a, b)
          /\ Datum(m, c) => m.n = a + 1 /\ Carries(v4', c, a + 1, b)
    <3>1. p # "closed" => Ids(q) /\ Carries(v4, c, a, b) BY <2>1, <2>2 DEF Downward
    <3> QED BY <1>1, <1>2, <1>4, <2>3, <3>1, CarriesLess
  <2>7. Upward(c)' BY <1>2, <2>1 DEF Upward
  <2>8. CASE c # m.ws
    <3>1. PhaseOf(c)' = p /\ v9'[c] = p /\ v12'[c] = q BY <1>7, <2>2, <2>8 DEF PhaseOf
    <3>2. Ends(c)' BY <1>2, <1>7, <2>1, <2>8 DEF Ends
    <3>3. ~Datum(m, c) BY <2>8 DEF Datum
    <3>4. Downward(c)' BY <1>2, <2>2, <2>5, <2>6, <2>8, <3>1, <3>3 DEF Downward
    <3> QED BY <2>7, <3>2, <3>4
  <2>9. CASE c = m.ws /\ m.type = "open"
    <3>1. p = "none" /\ HostSide(v4', c, k, "opening") BY <2>5, <2>9
    <3>2. c \in v6' /\ v9'[c] = p /\ v12'[c] = q /\ v7' = v7 BY <1>3, <2>2, <2>9
    <3>3. PhaseOf(c)' = "opening" BY <3>2 DEF PhaseOf
    <3>4. ~Datum(m, c) BY <2>9 DEF Datum
    <3>5. Ends(c)' BY <1>2, <2>1, <3>1, <3>2 DEF Ends
    <3>6. Downward(c)' BY <1>2, <2>2, <2>6, <3>1, <3>2, <3>3, <3>4 DEF Downward
    <3> QED BY <2>7, <3>5, <3>6
  <2>10. CASE c = m.ws /\ m.type = "data"
    <3>1. p # "none" /\ HostSide(v4', c, k, p) BY <2>5, <2>10
    <3>2. c \notin v6' /\ v9'[c] = p /\ UNCHANGED <<v6, v7, v9>> BY <1>2, <1>3, <2>2, <2>10
    <3>3. PhaseOf(c)' = p BY <3>2 DEF PhaseOf
    <3>4. Ends(c)' BY <1>2, <2>1, <3>2 DEF Ends
    <3>5. CASE p = "closed"
      <4>1. Downward(c)' BY <1>2, <2>2, <3>1, <3>2, <3>3, <3>5 DEF Downward
      <4> QED BY <2>7, <3>4, <4>1
    <3>6. CASE p = "open"
      <4>1. c \in v7 BY <2>1, <2>2, <3>6 DEF Ends
      <4>2. Datum(m, c) BY <2>10 DEF Datum
      <4>3. Ids(q) /\ m.n = a + 1 /\ Carries(v4', c, a + 1, b) BY <2>6, <3>6, <4>2
      <4>4. PICK r, n : r = v12'[c] /\ n = m.n OBVIOUS
      <4>5. r = Append(q, n) /\ n \in Nat /\ n = Len(q) + 1
        BY <1>5, <1>7, <2>2, <2>10, <3>6, <4>1, <4>3, <4>4
      <4>6. Ids(r) /\ Len(r) = a + 1 BY <2>2, <2>3, <4>3, <4>5, IdsGrow
      <4>7. Downward(c)' BY <1>2, <2>2, <3>1, <3>2, <3>3, <4>3, <4>4, <4>6 DEF Downward
      <4> QED BY <2>7, <3>4, <4>7
    <3> QED BY <2>3, <3>1, <3>5, <3>6
  <2>11. CASE c = m.ws /\ m.type = "close"
    <3>1. p # "none" /\ HostSide(v4', c, k, "closed") BY <2>5, <2>11
    <3>2. c \notin v6' BY <1>2, <1>3, <2>11
    <3>3. v9'[c] = "closed"
      <4>1. CASE p = "open"
        <5>1. c \in v7 BY <2>1, <2>2, <4>1 DEF Ends
        <5> QED BY <1>7, <2>11, <5>1
      <4>2. CASE p = "closed" BY <1>3, <1>4, <2>2, <2>11, <4>2
      <4> QED BY <2>3, <3>1, <4>1, <4>2
    <3>4. PhaseOf(c)' = "closed" BY <3>2, <3>3 DEF PhaseOf
    <3>5. Ends(c)' BY <1>2, <2>1, <3>2, <3>3 DEF Ends
    <3>6. Downward(c)' BY <1>2, <2>2, <3>1, <3>3, <3>4 DEF Downward
    <3> QED BY <2>7, <3>5, <3>6
  <2> QED BY <1>5, <2>8, <2>9, <2>10, <2>11
<1> QED BY <1>8, <1>9 DEF StreamsInv

\* Once the tunnel is lost only the types are left to keep.
LEMMA StreamsLost ==
  ASSUME StreamsInv, [Hs!Next]_(Hs!vars), ~v1'
  PROVE  StreamsInv'
<1>0. /\ v2 \in [Socket -> {"new", "open", "gone"}] /\ v9 \in [Socket -> {"none", "open", "closed"}]
      /\ v4 \in Seq(Wired) /\ v5 \in Seq(Wired) /\ \A i \in 1..Len(v5) : v5[i].type = "data"
      /\ v10 \in [Socket -> Nat] /\ v11 \in [Socket -> Nat]
      /\ v12 \in [Socket -> Seq(Nat)] /\ v13 \in [Socket -> Seq(Nat)]
  BY DEF StreamsInv, HostTyped
<1> SUFFICES HostTyped' BY DEF StreamsInv
<1>1. CASE UNCHANGED Hs!vars
  BY <1>0, <1>1 DEF HostTyped, Hs!vars, Hs!serverVars, Hs!hostVars, Hs!dataVars
<1>2. CASE Hs!Lose
  <2>1. v4' = << >> /\ v5' = << >> /\ UNCHANGED <<v2, v9, v10, v11, v12, v13>>
    BY <1>2 DEF Hs!Lose, Hs!serverVars, Hs!hostVars, Hs!dataVars
  <2> QED BY <1>0, <2>1 DEF HostTyped
<1>3. ASSUME NEW s \in Socket, Hs!Connect(s) \/ Hs!BrowserSends(s) \/ Hs!BrowserGoes(s)
      PROVE  HostTyped'
  <2>1. CASE Hs!Connect(s) BY <2>1 DEF Hs!Connect
  <2>2. CASE Hs!BrowserSends(s)
    <3>1. v4' = v4 /\ v10' = [v10 EXCEPT ![s] = @ + 1] /\ UNCHANGED <<v2, v5, v9, v11, v12, v13>>
      BY <2>2 DEF Hs!BrowserSends, Hs!Way, Hs!serverVars, Hs!hostVars
    <3> QED BY <1>0, <3>1 DEF HostTyped
  <2>3. CASE Hs!BrowserGoes(s)
    <3>1. v4' = v4 /\ v2' = [v2 EXCEPT ![s] = "gone"] /\ UNCHANGED <<v5, v9, v10, v11, v12, v13>>
      BY <2>3 DEF Hs!BrowserGoes, Hs!Way, Hs!hostVars, Hs!dataVars
    <3> QED BY <1>0, <3>1 DEF HostTyped
  <2> QED BY <1>3, <2>1, <2>2, <2>3
<1>4. ASSUME NEW s \in Socket,
             Hs!Opened(s) \/ Hs!OpenFails(s) \/ Hs!LocalCloses(s) \/ Hs!ForwardEnds(s)
      PROVE  HostTyped'
  <2>1. /\ UNCHANGED <<v2, v4, v5, v10, v11, v12, v13>>
        /\ v9' \in [Socket -> {"none", "open", "closed"}]
    BY <1>0, <1>4 DEF Hs!Opened, Hs!OpenFails, Hs!LocalCloses, Hs!ForwardEnds,
       Hs!serverVars, Hs!dataVars
  <2> QED BY <1>0, <2>1 DEF HostTyped
<1>5. ASSUME NEW s \in Socket, Hs!Forward(s) PROVE HostTyped'
  <2>1. v5' = v5 /\ v11' = [v11 EXCEPT ![s] = @ + 1] /\ UNCHANGED <<v2, v4, v9, v10, v12, v13>>
    BY <1>5 DEF Hs!Forward, Hs!Way, Hs!serverVars
  <2> QED BY <1>0, <2>1 DEF HostTyped
<1>6. CASE Hs!ServerReads
  <2>1. PICK m, x : m = Head(v5) /\ x = Tail(v5) OBVIOUS
  <2>2. /\ v5 # << >> /\ v5' = x /\ UNCHANGED <<v2, v4, v9, v10, v11, v12>>
        /\ v13' = IF m.ws \in v3 THEN [v13 EXCEPT ![m.ws] = Append(@, m.n)] ELSE v13
    BY <1>6, <2>1 DEF Hs!ServerReads, Hs!serverVars, Hs!hostVars
  <2>3. /\ m \in Wired /\ x \in Seq(Wired)
        /\ \A i \in 1..Len(x) : i + 1 \in 1..Len(v5) /\ x[i] = v5[i + 1]
    BY <1>0, <2>1, <2>2
  <2>4. m.ws \in Socket /\ m.n \in Nat BY <2>3 DEF Wired
  <2>5. v13' \in [Socket -> Seq(Nat)]
    <3>1. PICK q : q = Append(v13[m.ws], m.n) OBVIOUS
    <3>2. q \in Seq(Nat) BY <1>0, <2>4, <3>1
    <3>3. v13' = [v13 EXCEPT ![m.ws] = q] \/ v13' = v13 BY <2>2, <3>1
    <3> QED BY <1>0, <3>2, <3>3
  <2> QED BY <1>0, <2>2, <2>3, <2>5 DEF HostTyped
<1>7. CASE Hs!HostReads
  <2>1. PICK m, x : m = Head(v4) /\ x = Tail(v4) OBVIOUS
  <2>2. /\ v4 # << >> /\ v4' = x /\ UNCHANGED <<v2, v5, v10, v11, v13>>
        /\ \/ UNCHANGED <<v9, v12>>
           \/ v9' = v9 /\ v12' = [v12 EXCEPT ![m.ws] = Append(@, m.n)]
           \/ v12' = v12 /\ v9' = [v9 EXCEPT ![m.ws] = "closed"]
    BY <1>7, <2>1 DEF Hs!HostReads, Hs!Target, Hs!serverVars
  <2>3. m \in Wired /\ x \in Seq(Wired) BY <1>0, <2>1, <2>2
  <2>4. m.ws \in Socket /\ m.n \in Nat BY <2>3 DEF Wired
  <2>5. v12' \in [Socket -> Seq(Nat)]
    <3>1. PICK q : q = Append(v12[m.ws], m.n) OBVIOUS
    <3>2. q \in Seq(Nat) BY <1>0, <2>4, <3>1
    <3>3. v12' = [v12 EXCEPT ![m.ws] = q] \/ v12' = v12 BY <2>2, <3>1
    <3> QED BY <1>0, <3>2, <3>3
  <2>6. v9' \in [Socket -> {"none", "open", "closed"}] BY <1>0, <2>2
  <2> QED BY <1>0, <2>2, <2>3, <2>5, <2>6 DEF HostTyped
<1> QED BY <1>1, <1>2, <1>3, <1>4, <1>5, <1>6, <1>7 DEF Hs!Next

LEMMA StreamsStep == StreamsInv /\ [Hs!Next]_(Hs!vars) => StreamsInv'
<1> SUFFICES ASSUME StreamsInv, [Hs!Next]_(Hs!vars) PROVE StreamsInv' OBVIOUS
<1>1. CASE ~v1' BY <1>1, StreamsLost
<1>2. CASE v1'
  <2>1. v1
    <3>1. v1 \/ v1' = v1
      BY <1>2 DEF Hs!Next, Hs!vars, Hs!Connect, Hs!BrowserSends, Hs!BrowserGoes, Hs!Opened,
         Hs!OpenFails, Hs!Forward, Hs!LocalCloses, Hs!ForwardEnds, Hs!ServerReads, Hs!HostReads, Hs!Lose
    <3> QED BY <1>2, <3>1
  <2>2. CASE UNCHANGED Hs!vars
    <3>1. UNCHANGED <<v2, v3, v4, v5, v6, v7, v8, v9, v10, v11, v12, v13>>
      BY <2>2 DEF Hs!vars, Hs!serverVars, Hs!hostVars, Hs!dataVars
    <3>2. HostTyped' BY <3>1 DEF StreamsInv, HostTyped
    <3>3. \A s \in Socket : PhaseOf(s)' = PhaseOf(s) BY <3>1 DEF PhaseOf
    <3>4. \A s \in Socket : Ends(s)' /\ Upward(s)' /\ Downward(s)'
      BY <2>1, <3>1, <3>3 DEF StreamsInv, Ends, Upward, Downward
    <3> QED BY <3>2, <3>4 DEF StreamsInv
  <2>3. ~Hs!Lose BY <1>2 DEF Hs!Lose
  <2>4. ASSUME NEW s \in Socket, Hs!Connect(s) \/ Hs!BrowserSends(s) \/ Hs!BrowserGoes(s)
        PROVE  StreamsInv'
    BY <1>2, <2>1, <2>4, BrowserActs
  <2>5. ASSUME NEW s \in Socket,
               Hs!Opened(s) \/ Hs!OpenFails(s) \/ Hs!LocalCloses(s) \/ Hs!ForwardEnds(s)
        PROVE  StreamsInv'
    BY <1>2, <2>1, <2>5, LocalActs
  <2>6. ASSUME NEW s \in Socket, Hs!Forward(s) PROVE StreamsInv' BY <1>2, <2>1, <2>6, Forwards
  <2>7. CASE Hs!ServerReads BY <1>2, <2>1, <2>7, ServerTakes
  <2>8. CASE Hs!HostReads BY <1>2, <2>1, <2>8, HostTakes
  <2> QED BY <2>2, <2>3, <2>4, <2>5, <2>6, <2>7, <2>8 DEF Hs!Next
<1> QED BY <1>1, <1>2

LEMMA StreamsFact == StreamsInv => Hs!StreamsWhole
<1> SUFFICES ASSUME StreamsInv, v1, NEW s \in Socket
             PROVE  /\ v2[s] = "open" => Hs!Whole(v13, v5, s, v11)
                    /\ v9[s] = "open" => Hs!Whole(v12, v4, s, v10)
                    /\ v2[s] = "gone" /\ (\A i \in DOMAIN v4 : v4[i].ws # s)
                         => s \in v6 \/ v9[s] # "open"
  BY DEF Hs!StreamsWhole
<1>1. /\ Ends(s) /\ Upward(s) /\ Downward(s) /\ v4 \in Seq(Wired) /\ v5 \in Seq(Wired)
      /\ v12[s] \in Seq(Nat) /\ v13[s] \in Seq(Nat) /\ v10[s] \in Nat /\ v11[s] \in Nat
  BY DEF StreamsInv, HostTyped
<1>2. v2[s] = "open" => Hs!Whole(v13, v5, s, v11) BY <1>1, CarriesWhole DEF Upward
<1>3. v9[s] = "open" => Hs!Whole(v12, v4, s, v10) BY <1>1, CarriesWhole DEF Downward
<1>4. v2[s] = "gone" /\ (\A i \in DOMAIN v4 : v4[i].ws # s) => s \in v6 \/ v9[s] # "open"
  <2>1. HostSide(v4, s, v2[s], PhaseOf(s)) BY <1>1 DEF Downward
  <2>2. \A i \in 1..Len(v4) : i \in DOMAIN v4 BY <1>1
  <2> QED BY <2>1, <2>2 DEF HostSide, PhaseOf
<1> QED BY <1>2, <1>3, <1>4

-----------------------------------------------------------------------------
(* All connections: what holds of the one the behaviour is of              *)

ConnInv ==
  /\ Is("streams") => StreamsInv
  /\ Is("proxy") => ProxyInv
  /\ Is("relay") => RelayInv
  /\ Is("punch") => PunchInv

\* Through the tunnel and through a DataChannel everything comes in order and to
\* an end, no peer connection stays open that no table knows, and a punched path carries
\* data, for any sockets, offers, requests, servers and bounds, and two peers
\* (access/server.py, tunnel_client.py, dc_proxy.py, relay_poller.py, punch.py).
THEOREM ConnectionsAreWhole == Spec => []ConnectionsWhole
<1>1. Init => ConnInv
  BY StreamsOnly, StreamsInit, ProxyOnly, ProxyInit, RelayOnly, RelayInit, PunchOnly, PunchInit
     DEF ConnInv
<1>2. ConnInv /\ [Next]_all => ConnInv'
  <2> SUFFICES ASSUME ConnInv, [Next]_all PROVE ConnInv' OBVIOUS
  <2>1. part' = part BY PartStays
  <2>2. Is("streams") => StreamsInv' BY StreamsOnly, StreamsStep DEF ConnInv
  <2>3. Is("proxy") => ProxyInv' BY ProxyOnly, ProxyStep DEF ConnInv
  <2>4. Is("relay") => RelayInv' BY RelayOnly, RelayStep DEF ConnInv
  <2>5. Is("punch") => PunchInv' BY PunchOnly, PunchStep DEF ConnInv
  <2> QED BY <2>1, <2>2, <2>3, <2>4, <2>5 DEF ConnInv, Is
<1>3. ConnInv => ConnectionsWhole
  BY StreamsFact, ProxyFact, RelayFact, PunchFact DEF ConnInv, ConnectionsWhole
<1> QED BY <1>1, <1>2, <1>3, PTL DEF Spec
===============================================================================
