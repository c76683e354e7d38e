----------------------------- MODULE EnvoyProofs -----------------------------
(***************************************************************************)
(* Tool calls through the envoy are at-most-once calls of the host's tool  *)
(* handlers, for any number of calls, connections, disconnections and      *)
(* timeouts, and for calls in both directions.                             *)
(***************************************************************************)
EXTENDS Envoy, QueueLemmas

-----------------------------------------------------------------------------
(* Types                                                                   *)

ToHost  == [type : {"tool_call"}, id : Call] \cup [type : {"local_tool_result"}, id : Local]
ToEnvoy == [type : {"register_tools"}, id : {None}] \cup [type : {"tool_result"}, id : Call]
             \cup [type : {"call_local_tool"}, id : Local]

\* EnvoyTypeOK, and what is under way.
Typed ==
  /\ EnvoyAssumption
  /\ EnvoyTypeOK
  /\ fut \in [Call -> {None, "pending", "answer"}]
  /\ ran \in [Call -> Nat]
  /\ toHost \in [Conn -> Seq(ToHost)]
  /\ toEnvoy \in [Conn -> Seq(ToEnvoy)]

LEMMA Distinct ==
  ASSUME EnvoyAssumption
  PROVE  /\ None \notin Conn /\ None \notin Call /\ None \notin Local
         /\ None \notin {"line", "ended", "pending", "answer"}
         /\ \A x \in Call \cup Local : x \notin {"line", "ended"}
         /\ \A l \in Local : Nested[l] \in Call \cup {None}
BY DEF EnvoyAssumption

\* A line that is written goes to the end of its connection, or nowhere.
LEMMA SentIs ==
  ASSUME NEW S, NEW q \in [Conn -> Seq(S)], NEW k \in Conn \cup {None}, NEW m \in S
  PROVE  /\ Sent(q, k, m) \in [Conn -> Seq(S)]
         /\ \A j \in Conn : Sent(q, k, m)[j] \in {q[j], Append(q[j], m)}
         /\ \A j \in Conn : j # k => Sent(q, k, m)[j] = q[j]
<1>1. CASE Sent(q, k, m) = q BY <1>1
<1>2. CASE k \in Conn /\ Sent(q, k, m) = [q EXCEPT ![k] = Append(@, m)]
  <2>1. Append(q[k], m) \in Seq(S) BY <1>2
  <2> QED BY <1>2, <2>1
<1> QED BY <1>1, <1>2 DEF Sent

LEMMA TailTyped ==
  ASSUME NEW S, NEW q \in [Conn -> Seq(S)], NEW k \in Conn, q[k] # <<>>
  PROVE  [q EXCEPT ![k] = Tail(@)] \in [Conn -> Seq(S)] /\ Head(q[k]) \in S
<1>1. Tail(q[k]) \in Seq(S) /\ Head(q[k]) \in S BY TailIn
<1> QED BY <1>1

\* _handle_control_message: what a line of the host does, by its type.
LEMMA EnvoyReadsIs ==
  ASSUME Typed, NEW k \in Conn, EnvoyReads(k)
  PROVE  LET m == Head(toEnvoy[k]) IN
         /\ m \in ToEnvoy
         /\ toEnvoy[k] # <<>> /\ toEnvoy' = [toEnvoy EXCEPT ![k] = Tail(@)]
         /\ UNCHANGED <<ctl, hostVars, shut>>
         /\ \/ m.type = "register_tools" /\ tools' = TRUE
               /\ UNCHANGED <<handler, caller, fut, toHost>>
            \/ m.type = "tool_result" /\ m.id \in Call /\ fut' = Settled(m.id)
               /\ UNCHANGED <<tools, handler, caller, toHost>>
            \/ /\ m.type = "call_local_tool" /\ m.id \in Local
               /\ handler' = [handler EXCEPT ![k] = m.id] /\ UNCHANGED tools
               /\ \/ UNCHANGED <<caller, fut, toHost>>
                  \/ \E c \in Call : /\ caller[c] = "idle" /\ ctl # None
                                     /\ caller' = [caller EXCEPT ![c] = "waiting"]
                                     /\ fut' = [fut EXCEPT ![c] = "pending"]
                                     /\ toHost' = Sent(toHost, ctl, Line("tool_call", c))
<1> DEFINE m == Head(toEnvoy[k])
           c == IF m.type = "call_local_tool" THEN Nested[m.id] ELSE None
<1>1. m \in ToEnvoy BY TailTyped DEF Typed, EnvoyReads
<1>2. \/ m.type = "register_tools"
      \/ m.type = "tool_result" /\ m.id \in Call
      \/ m.type = "call_local_tool" /\ m.id \in Local
  BY <1>1 DEF ToEnvoy
<1>3. /\ toEnvoy[k] # <<>> /\ toEnvoy' = [toEnvoy EXCEPT ![k] = Tail(@)]
      /\ UNCHANGED <<ctl, hostVars, shut>>
  BY DEF EnvoyReads
<1>4. CASE m.type = "register_tools"
  <2>1. tools' = TRUE /\ UNCHANGED <<handler, caller, fut, toHost>> BY <1>4 DEF EnvoyReads
  <2> QED BY <1>1, <1>3, <1>4, <2>1
<1>5. CASE m.type = "tool_result" /\ m.id \in Call
  <2>1. fut' = Settled(m.id) /\ UNCHANGED <<tools, handler, caller, toHost>>
    BY <1>5 DEF EnvoyReads
  <2> QED BY <1>1, <1>3, <1>5, <2>1
<1>6. CASE m.type = "call_local_tool" /\ m.id \in Local
  <2>1. c \in Call \cup {None} BY <1>6, Distinct DEF Typed
  <2>2. /\ handler' = [handler EXCEPT ![k] = m.id] /\ UNCHANGED tools
        /\ IF c # None /\ tools /\ ctl # None /\ caller[c] = "idle"
           THEN /\ caller' = [caller EXCEPT ![c] = "waiting"]
                /\ fut' = [fut EXCEPT ![c] = "pending"]
                /\ toHost' = Sent(toHost, ctl, Line("tool_call", c))
           ELSE UNCHANGED <<caller, fut, toHost>>
    BY <1>6 DEF EnvoyReads, Awaits
  <2> HIDE DEF c
  <2> QED BY <1>1, <1>3, <1>6, <2>1, <2>2
<1> QED BY <1>2, <1>4, <1>5, <1>6

\* Calls, their futures and what the two ends await.
LEMMA NextTyped == Typed /\ [Next]_vars => Typed'
<1> SUFFICES ASSUME Typed, [Next]_vars PROVE Typed'
  OBVIOUS
<1>0. /\ EnvoyAssumption
      /\ ctl \in Conn \cup {None} /\ client \in Conn \cup {None} /\ tools \in BOOLEAN
      /\ handler \in [Conn -> {None, "line", "ended"} \cup Local]
      /\ listen \in [Conn -> {None, "line", "ended"} \cup Call]
      /\ caller \in [Call -> {"idle", "waiting", "answer", "timeout", "refused"}]
      /\ \A c \in Call : fut[c] # None <=> caller[c] = "waiting"
      /\ local \in [Local -> {"idle", "waiting", "answer", "timeout"}]
      /\ fut \in [Call -> {None, "pending", "answer"}]
      /\ ran \in [Call -> Nat]
      /\ toHost \in [Conn -> Seq(ToHost)]
      /\ toEnvoy \in [Conn -> Seq(ToEnvoy)]
  BY DEF Typed, EnvoyTypeOK
<1> DEFINE EndsOK == /\ ctl' \in Conn \cup {None} /\ client' \in Conn \cup {None}
                     /\ tools' \in BOOLEAN
                     /\ handler' \in [Conn -> {None, "line", "ended"} \cup Local]
                     /\ listen' \in [Conn -> {None, "line", "ended"} \cup Call]
                     /\ local' \in [Local -> {"idle", "waiting", "answer", "timeout"}]
                     /\ ran' \in [Call -> Nat]
           CallsOK == /\ caller' \in [Call -> {"idle", "waiting", "answer", "timeout", "refused"}]
                      /\ fut' \in [Call -> {None, "pending", "answer"}]
                      /\ \A c \in Call : fut'[c] # None <=> caller'[c] = "waiting"
           WiresOK == toHost' \in [Conn -> Seq(ToHost)] /\ toEnvoy' \in [Conn -> Seq(ToEnvoy)]
<1>1. ASSUME EndsOK, CallsOK, WiresOK PROVE Typed'
  BY <1>0, <1>1 DEF Typed, EnvoyTypeOK
<1>2. UNCHANGED <<caller, fut>> => CallsOK BY <1>0
<1>3. ASSUME NEW c \in Call, caller[c] = "idle",
             caller' = [caller EXCEPT ![c] = "waiting"], fut' = [fut EXCEPT ![c] = "pending"]
      PROVE  CallsOK
  BY <1>0, <1>3, Distinct
<1>4. ASSUME NEW c \in Call PROVE Line("tool_call", c) \in ToHost /\ Line("tool_result", c) \in ToEnvoy
  BY DEF Line, ToHost, ToEnvoy
<1>5. ASSUME NEW l \in Local
      PROVE  Line("local_tool_result", l) \in ToHost /\ Line("call_local_tool", l) \in ToEnvoy
  BY DEF Line, ToHost, ToEnvoy
<1>6. ASSUME NEW c \in Call, Invoke(c) \/ InvokeFails(c) \/ Answered(c) \/ TimedOut(c)
      PROVE  Typed'
  <2>1. EndsOK
    BY <1>0, <1>6 DEF Invoke, InvokeFails, Answered, TimedOut, hostVars
  <2>2. CallsOK
    <3>1. CASE caller[c] = "idle" /\ caller' = [caller EXCEPT ![c] = "refused"] /\ fut' = fut
      BY <1>0, <3>1
    <3>2. CASE /\ caller[c] = "waiting" /\ fut' = [fut EXCEPT ![c] = None]
               /\ \E s \in {"answer", "timeout"} : caller' = [caller EXCEPT ![c] = s]
      BY <1>0, <3>2
    <3> QED BY <1>3, <1>6, <3>1, <3>2 DEF Invoke, InvokeFails, Answered, TimedOut
  <2>3. WiresOK
    <3>1. Sent(toHost, ctl, Line("tool_call", c)) \in [Conn -> Seq(ToHost)]
      BY <1>0, <1>4, SentIs
    <3> QED BY <1>0, <1>6, <3>1 DEF Invoke, InvokeFails, Answered, TimedOut, wireVars
  <2> QED BY <1>1, <2>1, <2>2, <2>3
<1>7. ASSUME NEW k \in Conn, EnvoyReads(k) PROVE Typed'
  <2> DEFINE m == Head(toEnvoy[k])
  <2>1. /\ toEnvoy[k] # <<>> /\ toEnvoy' = [toEnvoy EXCEPT ![k] = Tail(@)]
        /\ UNCHANGED <<ctl, client, listen, ran, local>>
        /\ m.type = "tool_result" => m.id \in Call
    BY <1>7, EnvoyReadsIs DEF hostVars
  <2>2. toEnvoy' \in [Conn -> Seq(ToEnvoy)] BY <1>0, <2>1, TailTyped
  <2>3. CASE m.type = "register_tools" /\ tools' = TRUE /\ UNCHANGED <<handler, caller, fut, toHost>>
    BY <1>0, <1>1, <1>2, <2>1, <2>2, <2>3
  <2>4. CASE /\ m.type = "tool_result" /\ m.id \in Call /\ fut' = Settled(m.id)
             /\ UNCHANGED <<tools, handler, caller, toHost>>
    <3> HIDE DEF m
    <3>1. CallsOK BY <1>0, <2>4, Distinct DEF Settled
    <3> QED BY <1>0, <1>1, <2>1, <2>2, <2>4, <3>1
  <2>5. CASE /\ m.type = "call_local_tool" /\ m.id \in Local
             /\ handler' = [handler EXCEPT ![k] = m.id] /\ UNCHANGED tools
    <3>1. EndsOK BY <1>0, <2>1, <2>5
    <3>2. CASE UNCHANGED <<caller, fut, toHost>>
      BY <1>0, <1>1, <1>2, <2>2, <3>1, <3>2
    <3>3. ASSUME NEW c \in Call, caller[c] = "idle",
                 caller' = [caller EXCEPT ![c] = "waiting"], fut' = [fut EXCEPT ![c] = "pending"],
                 toHost' = Sent(toHost, ctl, Line("tool_call", c))
          PROVE  Typed'
      <4>1. toHost' \in [Conn -> Seq(ToHost)] BY <1>0, <1>4, <3>3, SentIs
      <4> QED BY <1>1, <1>3, <2>2, <3>1, <3>3, <4>1
    <3>4. \/ UNCHANGED <<caller, fut, toHost>>
          \/ \E c \in Call : /\ caller[c] = "idle"
                             /\ caller' = [caller EXCEPT ![c] = "waiting"]
                             /\ fut' = [fut EXCEPT ![c] = "pending"]
                             /\ toHost' = Sent(toHost, ctl, Line("tool_call", c))
      BY <1>7, <2>5, EnvoyReadsIs
    <3> QED BY <3>2, <3>3, <3>4
  <2> QED BY <1>7, <2>3, <2>4, <2>5, EnvoyReadsIs
<1>8. ASSUME NEW k \in Conn, Accept(k) \/ LocalReturns(k) \/ HandlerEnds(k) PROVE Typed'
  <2>1. EndsOK /\ UNCHANGED <<caller, fut>>
    BY <1>0, <1>8 DEF Accept, LocalReturns, HandlerEnds, hostVars
  <2>2. WiresOK
    <3>1. ASSUME LocalReturns(k) PROVE toHost' \in [Conn -> Seq(ToHost)]
      <4>1. Line("local_tool_result", handler[k]) \in ToHost BY <1>5, <3>1 DEF LocalReturns
      <4>2. toHost' = Sent(toHost, ctl, Line("local_tool_result", handler[k]))
        BY <3>1 DEF LocalReturns
      <4> QED BY <1>0, <4>1, <4>2, SentIs
    <3> QED BY <1>0, <1>8, <3>1 DEF Accept, LocalReturns, HandlerEnds, wireVars
  <2> QED BY <1>1, <1>2, <2>1, <2>2
<1>9. ASSUME NEW k \in Conn, Connect(k) \/ ToolReturns(k) PROVE Typed'
  <2>1. EndsOK /\ UNCHANGED <<caller, fut, toHost>>
    BY <1>0, <1>9 DEF Connect, ToolReturns, envoyVars
  <2>2. toEnvoy' \in [Conn -> Seq(ToEnvoy)]
    <3>1. CASE Connect(k)
      <4>1. <<Line("register_tools", None)>> \in Seq(ToEnvoy) BY DEF Line, ToEnvoy
      <4> QED BY <1>0, <3>1, <4>1 DEF Connect
    <3>2. CASE ToolReturns(k) BY <1>0, <1>4, <3>2, SentIs DEF ToolReturns
    <3> QED BY <1>9, <3>1, <3>2
  <2> QED BY <1>0, <1>1, <1>2, <2>1, <2>2
<1>10. ASSUME NEW k \in Conn, HostReads(k) PROVE Typed'
  <2> DEFINE m == Head(toHost[k])
  <2>1. m \in ToHost /\ toHost' \in [Conn -> Seq(ToHost)]
    BY <1>0, <1>10, TailTyped DEF HostReads
  <2>2. (m.type = "tool_call" /\ m.id \in Call) \/ (m.type # "tool_call" /\ m.id \in Local)
    BY <2>1 DEF ToHost
  <2>3. /\ UNCHANGED <<ctl, tools, handler, caller, fut, client, toEnvoy>>
        /\ IF m.type = "tool_call"
           THEN ran' = [ran EXCEPT ![m.id] = @ + 1] /\ listen' = [listen EXCEPT ![k] = m.id]
                /\ UNCHANGED local
           ELSE local' = [local EXCEPT ![m.id] = IF @ = "waiting" THEN "answer" ELSE @]
                /\ UNCHANGED <<ran, listen>>
    BY <1>10 DEF HostReads, envoyVars
  <2> HIDE DEF m
  <2>4. EndsOK
    <3>1. CASE m.type = "tool_call"
      <4>1. m.id \in Call BY <2>2, <3>1
      <4>2. ran' = [ran EXCEPT ![m.id] = @ + 1] /\ listen' = [listen EXCEPT ![k] = m.id]
            /\ UNCHANGED <<ctl, tools, handler, client, local>>
        BY <2>3, <3>1
      <4>3. ran[m.id] + 1 \in Nat BY <1>0, <4>1
      <4>4. ran' \in [Call -> Nat] BY <1>0, <4>1, <4>2, <4>3
      <4>5. listen' \in [Conn -> {None, "line", "ended"} \cup Call] BY <1>0, <4>1, <4>2
      <4> QED BY <1>0, <4>2, <4>4, <4>5
    <3>2. CASE m.type # "tool_call" BY <1>0, <2>2, <2>3, <3>2
    <3> QED BY <3>1, <3>2
  <2> QED BY <1>0, <1>1, <1>2, <2>1, <2>3, <2>4
<1>11. ASSUME NEW l \in Local, CallLocal(l) \/ LocalTimesOut(l) PROVE Typed'
  <2>1. EndsOK /\ UNCHANGED <<caller, fut, toHost>>
    BY <1>0, <1>11 DEF CallLocal, LocalTimesOut, envoyVars, wireVars
  <2>2. toEnvoy' \in [Conn -> Seq(ToEnvoy)]
    <3>1. Sent(toEnvoy, client, Line("call_local_tool", l)) \in [Conn -> Seq(ToEnvoy)]
      BY <1>0, <1>5, SentIs
    <3> QED BY <1>0, <1>11, <3>1 DEF CallLocal, LocalTimesOut, wireVars
  <2> QED BY <1>0, <1>1, <1>2, <2>1, <2>2
<1>12. ASSUME Disconnect \/ UNCHANGED vars PROVE Typed'
  <2>1. EndsOK /\ UNCHANGED <<caller, fut, toHost, toEnvoy>>
    BY <1>0, <1>12 DEF Disconnect, vars, envoyVars, hostVars, wireVars
  <2> QED BY <1>0, <1>1, <1>2, <2>1
<1> QED
  BY <1>6, <1>7, <1>8, <1>9, <1>10, <1>11, <1>12 DEF Next

LEMMA InitTyped == EnvoyAssumption /\ Init => Typed
<1> SUFFICES ASSUME EnvoyAssumption, Init PROVE Typed
  OBVIOUS
<1>1. <<>> \in Seq(ToHost) /\ <<>> \in Seq(ToEnvoy) OBVIOUS
<1>2. EnvoyTypeOK BY DEF Init, EnvoyTypeOK
<1> QED BY <1>1, <1>2 DEF Init, Typed

\* The state of both ends keeps its shape, and exactly the calls that wait have an
\* entry in _pending_calls, however reconnections, late results and the two
\* directions interleave (envoy/server.py, envoy/client.py).
THEOREM EnvoyTyped == EnvoyAssumption /\ Spec => []EnvoyTypeOK
<1>1. Typed => EnvoyTypeOK BY DEF Typed
<1> QED BY <1>1, InitTyped, NextTyped, PTL DEF Spec

-----------------------------------------------------------------------------
(* The inductive invariant                                                 *)

Ask(c)   == Line("tool_call", c)
Reply(c) == Line("tool_result", c)

\* There is one copy of a call: its line under way to the host (q), or the call
\* of the tool handler (r), for a caller who has asked (w).
OneCopy(q, r, w) ==
  /\ \A k \in Conn, c \in Call : Sole(Ask(c), q[k])
  /\ \A k \in Conn, c \in Call : In(Ask(c), q[k]) => r[c] = 0 /\ w[c] # "idle"
  /\ \A j, k \in Conn, c \in Call : In(Ask(c), q[j]) /\ In(Ask(c), q[k]) => j = k
  /\ \A c \in Call : r[c] # 0 => r[c] = 1 /\ w[c] # "idle"

\* Results under way to the envoy (q) or in a future (f), and the calls that a
\* listen loop is in (h), are of tools that were run.
Earned(q, h, f, r) ==
  /\ \A k \in Conn, c \in Call : In(Reply(c), q[k]) => r[c] = 1
  /\ \A k \in Conn, c \in Call : h[k] = c => r[c] = 1
  /\ \A c \in Call : f[c] = "answer" => r[c] = 1

CallsInv == Typed /\ OneCopy(toHost, ran, caller) /\ Earned(toEnvoy, listen, fut, ran)

LEMMA Lines ==
  \A c, d : /\ Ask(c) = Ask(d) <=> c = d
            /\ Reply(c) = Reply(d) <=> c = d
            /\ Ask(c) # Line("local_tool_result", d)
            /\ Reply(c) # Line("call_local_tool", d)
            /\ Reply(c) # Line("register_tools", d)
<1>1. \A c, d, s, t : Line(s, c) = Line(t, d) <=> s = t /\ c = d
  <2> SUFFICES ASSUME NEW c, NEW d, NEW s, NEW t PROVE Line(s, c) = Line(t, d) <=> s = t /\ c = d
    OBVIOUS
  <2>1. /\ Line(s, c).type = s /\ Line(t, d).type = t
        /\ Line(s, c).id = c /\ Line(t, d).id = d
    BY DEF Line
  <2> QED BY <2>1
<1> QED BY <1>1 DEF Ask, Reply

\* Nobody is asked twice when lines arrive, go, or are not calls.
LEMMA CopiesDwindle ==
  ASSUME CallsInv, NEW q, NEW w,
         \A k \in Conn, c \in Call : Sole(Ask(c), q[k]),
         \A k \in Conn, c \in Call : In(Ask(c), q[k]) => In(Ask(c), toHost[k]),
         \A c \in Call : caller[c] # "idle" => w[c] # "idle"
  PROVE  OneCopy(q, ran, w)
BY DEF CallsInv, OneCopy

LEMMA EarnedStays ==
  ASSUME CallsInv, NEW q, NEW h, NEW f, NEW r,
         \A k \in Conn, c \in Call : In(Reply(c), q[k]) => r[c] = 1 \/ In(Reply(c), toEnvoy[k]),
         \A k \in Conn, c \in Call : h[k] = c => r[c] = 1 \/ listen[k] = c,
         \A c \in Call : f[c] = "answer" => ran[c] = 1,
         \A c \in Call : ran[c] = 1 => r[c] = 1
  PROVE  Earned(q, h, f, r)
BY DEF CallsInv, Earned

\* A call that is made is one that nobody has made.
LEMMA AskOnce ==
  ASSUME CallsInv, NEW c \in Call, caller[c] = "idle",
         caller' = [caller EXCEPT ![c] = "waiting"],
         toHost' = Sent(toHost, ctl, Ask(c)), ran' = ran
  PROVE  OneCopy(toHost', ran', caller')
<1>1. /\ toHost \in [Conn -> Seq(ToHost)] /\ ctl \in Conn \cup {None} /\ Ask(c) \in ToHost
      /\ caller \in [Call -> {"idle", "waiting", "answer", "timeout", "refused"}]
  BY DEF CallsInv, Typed, EnvoyTypeOK, Ask, Line, ToHost
<1>2. /\ \A j \in Conn : toHost'[j] \in {toHost[j], Append(toHost[j], Ask(c))}
      /\ \A j \in Conn : j # ctl => toHost'[j] = toHost[j]
  <2> DEFINE m == Ask(c)
  <2>1. m \in ToHost BY <1>1
  <2>2. toHost' = Sent(toHost, ctl, m) OBVIOUS
  <2> HIDE DEF m
  <2>3. ASSUME NEW k \in Conn \cup {None}
        PROVE  \A j \in Conn : /\ Sent(toHost, k, m)[j] \in {toHost[j], Append(toHost[j], m)}
                               /\ j # k => Sent(toHost, k, m)[j] = toHost[j]
    <3>1. toHost \in [Conn -> Seq(ToHost)] BY <1>1
    <3>2. \A j \in Conn : Sent(toHost, k, m)[j] \in {toHost[j], Append(toHost[j], m)}
      BY <2>1, <3>1, SentIs
    <3>3. \A j \in Conn : j # k => Sent(toHost, k, m)[j] = toHost[j] BY <3>1 DEF Sent
    <3> QED BY <3>2, <3>3
  <2> QED BY <1>1, <2>2, <2>3 DEF m
<1>3. \A k \in Conn : ~In(Ask(c), toHost[k]) BY DEF CallsInv, OneCopy
<1>4. ran[c] = 0 BY DEF CallsInv, OneCopy
<1>5. \A k \in Conn, d \in Call :
        /\ Sole(Ask(d), toHost'[k])
        /\ In(Ask(d), toHost'[k]) => In(Ask(d), toHost[k]) \/ (d = c /\ k = ctl)
  <2> SUFFICES ASSUME NEW k \in Conn, NEW d \in Call
               PROVE  /\ Sole(Ask(d), toHost'[k])
                      /\ In(Ask(d), toHost'[k]) => In(Ask(d), toHost[k]) \/ (d = c /\ k = ctl)
    OBVIOUS
  <2>1. Sole(Ask(d), toHost[k]) BY DEF CallsInv, OneCopy
  <2>2. CASE toHost'[k] = toHost[k] BY <2>1, <2>2
  <2>3. CASE k = ctl /\ toHost'[k] = Append(toHost[k], Ask(c))
    <3>1. toHost[k] \in Seq(ToHost) BY <1>1
    <3>2. In(Ask(d), Append(toHost[k], Ask(c))) <=> In(Ask(d), toHost[k]) \/ Ask(d) = Ask(c)
      BY <1>1, <3>1, AppendIn
    <3>3. Ask(d) = Ask(c) => ~In(Ask(d), toHost[k]) BY <1>3
    <3>4. Sole(Ask(d), Append(toHost[k], Ask(c))) BY <1>1, <2>1, <3>1, <3>3, AppendSole
    <3> QED BY <2>3, <3>2, <3>4, Lines
  <2> QED BY <1>2, <2>2, <2>3
<1>6. \A d \in Call : caller[d] # "idle" => caller'[d] # "idle" BY <1>1
<1>7. caller'[c] # "idle" BY <1>1
<1> QED BY <1>3, <1>4, <1>5, <1>6, <1>7 DEF CallsInv, OneCopy

\* A line that is no call changes nothing about the calls under way to the host.
LEMMA OtherSent ==
  ASSUME CallsInv, NEW k \in Conn \cup {None}, NEW l \in Local
  PROVE  LET q == Sent(toHost, k, Line("local_tool_result", l)) IN
         \A j \in Conn, c \in Call : Sole(Ask(c), q[j]) /\ (In(Ask(c), q[j]) => In(Ask(c), toHost[j]))
<1> DEFINE m == Line("local_tool_result", l)
           q == Sent(toHost, k, m)
<1>1. toHost \in [Conn -> Seq(ToHost)] /\ m \in ToHost
  BY DEF CallsInv, Typed, Line, ToHost
<1>2. \A c \in Call : Ask(c) # m BY Lines
<1> HIDE DEF m
<1>3. \A j \in Conn : q[j] \in {toHost[j], Append(toHost[j], m)} BY <1>1, SentIs
<1> SUFFICES ASSUME NEW j \in Conn, NEW c \in Call
             PROVE  Sole(Ask(c), q[j]) /\ (In(Ask(c), q[j]) => In(Ask(c), toHost[j]))
  BY DEF m
<1>4. Sole(Ask(c), toHost[j]) /\ toHost[j] \in Seq(ToHost) BY <1>1 DEF CallsInv, OneCopy
<1>5. Sole(Ask(c), Append(toHost[j], m)) BY <1>1, <1>2, <1>4, AppendSole
<1>6. In(Ask(c), Append(toHost[j], m)) => In(Ask(c), toHost[j]) BY <1>1, <1>2, <1>4, AppendIn
<1> QED BY <1>3, <1>4, <1>5, <1>6

\* Whether a line reaches the envoy or is lost, a result is of a call that ran.
LEMMA ReplySent ==
  ASSUME CallsInv, NEW k \in Conn \cup {None}, NEW m \in ToEnvoy,
         \A c \in Call : m = Reply(c) => ran[c] = 1
  PROVE  \A j \in Conn, c \in Call : In(Reply(c), Sent(toEnvoy, k, m)[j]) => ran[c] = 1
<1>1. toEnvoy \in [Conn -> Seq(ToEnvoy)] BY DEF CallsInv, Typed
<1>2. \A j \in Conn : Sent(toEnvoy, k, m)[j] \in {toEnvoy[j], Append(toEnvoy[j], m)}
  BY <1>1, SentIs
<1> SUFFICES ASSUME NEW j \in Conn, NEW c \in Call, In(Reply(c), Sent(toEnvoy, k, m)[j])
             PROVE  ran[c] = 1
  OBVIOUS
<1>3. toEnvoy[j] \in Seq(ToEnvoy) BY <1>1
<1>4. In(Reply(c), Append(toEnvoy[j], m)) => In(Reply(c), toEnvoy[j]) \/ Reply(c) = m
  BY <1>3, AppendIn
<1>5. In(Reply(c), toEnvoy[j]) => ran[c] = 1 BY DEF CallsInv, Earned
<1> QED BY <1>2, <1>4, <1>5

\* A tool handler is called for a line that is the only copy of its call.
LEMMA HostReadsOnce ==
  ASSUME CallsInv, NEW k \in Conn, HostReads(k)
  PROVE  /\ OneCopy(toHost', ran', caller') /\ Earned(toEnvoy', listen', fut', ran')
         /\ caller' = caller
         /\ \/ ran' = ran
            \/ \E c \in Call : /\ caller[c] # "idle" /\ ran[c] = 0
                               /\ ran' = [ran EXCEPT ![c] = 1]
<1> DEFINE m == Head(toHost[k])
<1>1. /\ toHost \in [Conn -> Seq(ToHost)] /\ toHost[k] \in Seq(ToHost) /\ toHost[k] # <<>>
      /\ toHost' = [toHost EXCEPT ![k] = Tail(@)]
      /\ UNCHANGED <<toEnvoy, fut, caller>>
      /\ ran \in [Call -> Nat]
      /\ listen \in [Conn -> {None, "line", "ended"} \cup Call]
  BY DEF CallsInv, Typed, EnvoyTypeOK, HostReads, envoyVars
<1>2. m \in ToHost /\ In(m, toHost[k]) BY <1>1, TailIn
<1>3. \A j \in Conn, c \in Call :
        /\ Sole(Ask(c), toHost'[j])
        /\ In(Ask(c), toHost'[j]) => In(Ask(c), toHost[j]) /\ (j = k => Ask(c) # m)
  <2> SUFFICES ASSUME NEW j \in Conn, NEW c \in Call
               PROVE  /\ Sole(Ask(c), toHost'[j])
                      /\ In(Ask(c), toHost'[j]) => In(Ask(c), toHost[j]) /\ (j = k => Ask(c) # m)
    OBVIOUS
  <2>1. Sole(Ask(c), toHost[j]) BY DEF CallsInv, OneCopy
  <2>2. CASE j # k BY <1>1, <2>1, <2>2
  <2>3. CASE j = k
    <3>1. toHost'[j] = Tail(toHost[k]) BY <1>1, <2>3
    <3>2. Sole(Ask(c), Tail(toHost[k])) /\ (Ask(c) = m => ~In(Ask(c), Tail(toHost[k])))
      BY <1>1, <2>1, <2>3, TailSole
    <3>3. In(Ask(c), Tail(toHost[k])) => In(Ask(c), toHost[k]) BY <1>1, TailIn
    <3> QED BY <2>3, <3>1, <3>2, <3>3
  <2> QED BY <2>2, <2>3
<1>4. CASE m.type # "tool_call"
  <2>1. UNCHANGED <<ran, listen>> BY <1>4 DEF HostReads
  <2>2. OneCopy(toHost', ran, caller) BY <1>3, CopiesDwindle
  <2> QED BY <1>1, <2>1, <2>2 DEF CallsInv
<1>5. CASE m.type = "tool_call"
  <2>1. m.id \in Call /\ m = Ask(m.id) BY <1>2, <1>5 DEF ToHost, Ask, Line
  <2>2. ran' = [ran EXCEPT ![m.id] = @ + 1] /\ listen' = [listen EXCEPT ![k] = m.id]
    BY <1>5 DEF HostReads
  <2>3. PICK c \in Call : c = m.id /\ m = Ask(c) BY <2>1
  <2>4. ran[c] = 0 /\ caller[c] # "idle" BY <1>2, <2>3 DEF CallsInv, OneCopy
  <2>5. ran' = [ran EXCEPT ![c] = 1] /\ listen' = [listen EXCEPT ![k] = c]
    BY <1>1, <2>2, <2>3, <2>4
  <2> HIDE DEF m
  <2>6. /\ ran'[c] = 1 /\ listen'[k] = c
        /\ \A d \in Call : d # c => ran'[d] = ran[d]
        /\ \A j \in Conn : j # k => listen'[j] = listen[j]
    BY <1>1, <2>5
  <2>7. \A j \in Conn : ~In(Ask(c), toHost'[j])
    BY <1>2, <1>3, <2>3 DEF CallsInv, OneCopy
  <2>8. OneCopy(toHost', ran', caller')
    <3>1. \A j \in Conn, d \in Call : In(Ask(d), toHost'[j]) => ran'[d] = 0 /\ caller'[d] # "idle"
      BY <1>1, <1>3, <2>6, <2>7 DEF CallsInv, OneCopy
    <3>2. \A i, j \in Conn, d \in Call : In(Ask(d), toHost'[i]) /\ In(Ask(d), toHost'[j]) => i = j
      BY <1>3 DEF CallsInv, OneCopy
    <3>3. \A d \in Call : ran'[d] # 0 => ran'[d] = 1 /\ caller'[d] # "idle"
      BY <1>1, <2>4, <2>6 DEF CallsInv, OneCopy
    <3> QED BY <1>3, <3>1, <3>2, <3>3 DEF OneCopy
  <2>9. Earned(toEnvoy', listen', fut', ran')
    <3>1. \A d \in Call : ran[d] = 1 => ran'[d] = 1 BY <2>4, <2>6
    <3>2. \A j \in Conn, d \in Call : listen'[j] = d => ran'[d] = 1 \/ listen[j] = d BY <2>6
    <3>3. \A d \in Call : fut[d] = "answer" => ran[d] = 1 BY DEF CallsInv, Earned
    <3> QED BY <1>1, <3>1, <3>2, <3>3, EarnedStays
  <2> QED BY <1>1, <2>4, <2>5, <2>8, <2>9
<1> QED BY <1>4, <1>5

LEMMA NextKeepsCalls == CallsInv /\ [Next]_vars => CallsInv'
<1> SUFFICES ASSUME CallsInv, [Next]_vars PROVE CallsInv'
  OBVIOUS
<1> DEFINE Copies == OneCopy(toHost', ran', caller')
           Results == Earned(toEnvoy', listen', fut', ran')
<1>1. Typed' BY NextTyped DEF CallsInv
<1>2. /\ ctl \in Conn \cup {None} /\ client \in Conn \cup {None} /\ EnvoyAssumption
      /\ caller \in [Call -> {"idle", "waiting", "answer", "timeout", "refused"}]
      /\ fut \in [Call -> {None, "pending", "answer"}] /\ ran \in [Call -> Nat]
      /\ listen \in [Conn -> {None, "line", "ended"} \cup Call]
      /\ toHost \in [Conn -> Seq(ToHost)] /\ toEnvoy \in [Conn -> Seq(ToEnvoy)]
  BY DEF CallsInv, Typed, EnvoyTypeOK
<1>3. ASSUME UNCHANGED <<toHost, ran>>, \A c \in Call : caller[c] # "idle" => caller'[c] # "idle"
      PROVE  Copies
  <2>1. \A k \in Conn, c \in Call : Sole(Ask(c), toHost[k]) BY DEF CallsInv, OneCopy
  <2>2. OneCopy(toHost, ran, caller') BY <1>3, <2>1, CopiesDwindle
  <2> QED BY <1>3, <2>2
<1>4. ASSUME ran' = ran,
             \A k \in Conn, c \in Call : In(Reply(c), toEnvoy'[k]) => ran[c] = 1,
             \A k \in Conn, c \in Call : listen'[k] = c => listen[k] = c,
             \A c \in Call : fut'[c] = "answer" => ran[c] = 1
      PROVE  Results
  BY <1>4, EarnedStays
<1>5. /\ \A k \in Conn, c \in Call : In(Reply(c), toEnvoy[k]) => ran[c] = 1
      /\ \A k \in Conn, c \in Call : listen[k] = c => ran[c] = 1
      /\ \A c \in Call : fut[c] = "answer" => ran[c] = 1
  BY DEF CallsInv, Earned
<1>6. ASSUME NEW c \in Call, Invoke(c) \/ InvokeFails(c) \/ Answered(c) \/ TimedOut(c)
      PROVE  Copies /\ Results
  <2>1. UNCHANGED <<ran, toEnvoy, listen>>
    BY <1>6 DEF Invoke, InvokeFails, Answered, TimedOut, hostVars, wireVars
  <2>2. \A d \in Call : fut'[d] = "answer" => fut[d] = "answer"
    BY <1>2, <1>6, Distinct DEF Invoke, InvokeFails, Answered, TimedOut
  <2>3. Copies
    <3>1. CASE UNCHANGED toHost
      <4>1. \A d \in Call : caller[d] # "idle" => caller'[d] # "idle"
        BY <1>2, <1>6 DEF Invoke, InvokeFails, Answered, TimedOut
      <4> QED BY <1>3, <2>1, <3>1, <4>1
    <3>2. CASE /\ caller[c] = "idle" /\ caller' = [caller EXCEPT ![c] = "waiting"]
               /\ toHost' = Sent(toHost, ctl, Line("tool_call", c))
      BY <2>1, <3>2, AskOnce DEF Ask
    <3> QED BY <1>6, <3>1, <3>2 DEF Invoke, InvokeFails, Answered, TimedOut, wireVars
  <2> QED BY <1>4, <1>5, <2>1, <2>2, <2>3
<1>7. ASSUME NEW k \in Conn, EnvoyReads(k) PROVE Copies /\ Results
  <2> DEFINE m == Head(toEnvoy[k])
  <2>1. /\ toEnvoy[k] # <<>> /\ toEnvoy' = [toEnvoy EXCEPT ![k] = Tail(@)]
        /\ UNCHANGED <<listen, ran>>
    BY <1>7, EnvoyReadsIs DEF hostVars, CallsInv
  <2>2. \A j \in Conn, c \in Call : In(Reply(c), toEnvoy'[j]) => ran[c] = 1
    <3>1. \A j \in Conn : j # k => toEnvoy'[j] = toEnvoy[j] BY <1>2, <2>1
    <3>2. toEnvoy'[k] = Tail(toEnvoy[k]) /\ toEnvoy[k] \in Seq(ToEnvoy) BY <1>2, <2>1
    <3>3. \A c \in Call : In(Reply(c), toEnvoy'[k]) => In(Reply(c), toEnvoy[k])
      BY <2>1, <3>2, TailIn
    <3> QED BY <1>5, <3>1, <3>3
  <2>3. CASE m.type = "register_tools" /\ UNCHANGED <<caller, fut, toHost>>
    BY <1>3, <1>4, <1>5, <2>1, <2>2, <2>3
  <2>4. CASE m.type = "tool_result" /\ m.id \in Call /\ fut' = Settled(m.id)
               /\ UNCHANGED <<caller, toHost>>
    <3>1. m \in ToEnvoy /\ In(m, toEnvoy[k]) BY <1>2, <2>1, TailIn
    <3>2. m = Reply(m.id) BY <2>4, <3>1 DEF ToEnvoy, Reply, Line
    <3>3. ran[m.id] = 1
      <4> HIDE DEF m
      <4> QED BY <1>5, <2>4, <3>1, <3>2
    <3>4. \A c \in Call : fut'[c] = "answer" => ran[c] = 1
      <4> HIDE DEF m
      <4> QED BY <1>2, <1>5, <2>4, <3>3 DEF Settled
    <3> QED BY <1>3, <1>4, <1>5, <2>1, <2>2, <2>4, <3>4
  <2>5. CASE \/ UNCHANGED <<caller, fut, toHost>>
             \/ \E c \in Call : /\ caller[c] = "idle" /\ caller' = [caller EXCEPT ![c] = "waiting"]
                                /\ fut' = [fut EXCEPT ![c] = "pending"]
                                /\ toHost' = Sent(toHost, ctl, Line("tool_call", c))
    <3>1. CASE UNCHANGED <<caller, fut, toHost>> BY <1>3, <1>4, <1>5, <2>1, <2>2, <3>1
    <3>2. ASSUME NEW c \in Call, caller[c] = "idle", caller' = [caller EXCEPT ![c] = "waiting"],
                 fut' = [fut EXCEPT ![c] = "pending"],
                 toHost' = Sent(toHost, ctl, Line("tool_call", c))
          PROVE  Copies /\ Results
      <4>1. Copies BY <2>1, <3>2, AskOnce DEF Ask
      <4>2. \A d \in Call : fut'[d] = "answer" => ran[d] = 1 BY <1>2, <1>5, <3>2
      <4> QED BY <1>4, <1>5, <2>1, <2>2, <4>1, <4>2
    <3> QED BY <2>5, <3>1, <3>2
  <2> QED BY <1>7, <2>3, <2>4, <2>5, EnvoyReadsIs DEF CallsInv
<1>8. ASSUME NEW k \in Conn, LocalReturns(k) PROVE Copies /\ Results
  <2>1. UNCHANGED <<caller, fut, ran, listen, toEnvoy>> BY <1>8 DEF LocalReturns, hostVars
  <2>2. PICK l \in Local : toHost' = Sent(toHost, ctl, Line("local_tool_result", l))
    BY <1>8 DEF LocalReturns
  <2>3. \A j \in Conn, c \in Call :
          Sole(Ask(c), toHost'[j]) /\ (In(Ask(c), toHost'[j]) => In(Ask(c), toHost[j]))
    BY <1>2, <2>2, OtherSent
  <2>4. OneCopy(toHost', ran, caller) BY <2>3, CopiesDwindle
  <2> QED BY <1>4, <1>5, <2>1, <2>4
<1>9. ASSUME NEW k \in Conn, ToolReturns(k) PROVE Copies /\ Results
  <2> DEFINE line == Reply(listen[k])
  <2>1. /\ UNCHANGED <<caller, fut, ran, toHost>> /\ listen' = [listen EXCEPT ![k] = "line"]
        /\ listen[k] \in Call /\ toEnvoy' = Sent(toEnvoy, client, line)
    BY <1>9 DEF ToolReturns, envoyVars, Reply
  <2>2. line \in ToEnvoy BY <2>1 DEF Reply, Line, ToEnvoy
  <2>3. \A c \in Call : line = Reply(c) => ran[c] = 1 BY <1>5, <2>1, Lines
  <2> HIDE DEF line
  <2>4. \A j \in Conn, c \in Call : In(Reply(c), toEnvoy'[j]) => ran[c] = 1
    BY <1>2, <2>1, <2>2, <2>3, ReplySent
  <2>5. \A j \in Conn, c \in Call : listen'[j] = c => listen[j] = c
    BY <1>2, <2>1, Distinct
  <2> QED BY <1>3, <1>4, <1>5, <2>1, <2>4, <2>5
<1>10. ASSUME NEW l \in Local, CallLocal(l) \/ LocalTimesOut(l) PROVE Copies /\ Results
  <2> DEFINE line == Line("call_local_tool", l)
  <2>1. /\ UNCHANGED <<caller, fut, ran, listen, toHost>>
        /\ toEnvoy' \in {toEnvoy, Sent(toEnvoy, client, line)}
    BY <1>10 DEF CallLocal, LocalTimesOut, envoyVars, wireVars
  <2>2. line \in ToEnvoy /\ \A c \in Call : line # Reply(c) BY Lines DEF Line, ToEnvoy
  <2> HIDE DEF line
  <2>3. \A j \in Conn, c \in Call : In(Reply(c), toEnvoy'[j]) => ran[c] = 1
    BY <1>2, <1>5, <2>1, <2>2, ReplySent
  <2> QED BY <1>3, <1>4, <1>5, <2>1, <2>3
<1>11. ASSUME NEW k \in Conn, Connect(k) PROVE Copies /\ Results
  <2> DEFINE line == Line("register_tools", None)
             one == <<line>>
  <2>1. /\ UNCHANGED <<caller, fut, ran, toHost>> /\ listen' = [listen EXCEPT ![k] = "line"]
        /\ toEnvoy' = [toEnvoy EXCEPT ![k] = one]
    BY <1>11 DEF Connect, envoyVars
  <2>2. \A c \in Call : line # Reply(c) BY Lines
  <2>3. \A c \in Call : ~In(Reply(c), one) BY <2>2 DEF In
  <2> HIDE DEF one
  <2>4. \A j \in Conn, c \in Call : In(Reply(c), toEnvoy'[j]) => ran[c] = 1
    BY <1>2, <1>5, <2>1, <2>3
  <2>5. \A j \in Conn, c \in Call : listen'[j] = c => listen[j] = c
    BY <1>2, <2>1, Distinct
  <2> QED BY <1>3, <1>4, <1>5, <2>1, <2>4, <2>5
<1>12. ASSUME (\E k \in Conn : Accept(k) \/ HandlerEnds(k)) \/ Disconnect \/ UNCHANGED vars
       PROVE  Copies /\ Results
  <2>1. UNCHANGED <<caller, fut, ran, toHost, toEnvoy>>
    BY <1>12 DEF Accept, HandlerEnds, Disconnect, vars, envoyVars, hostVars, wireVars
  <2>2. \A j \in Conn, c \in Call : listen'[j] = c => listen[j] = c
    BY <1>2, <1>12, Distinct DEF Accept, HandlerEnds, Disconnect, vars, hostVars
  <2> QED BY <1>3, <1>4, <1>5, <2>1, <2>2
<1>13. ASSUME NEW k \in Conn, HostReads(k) PROVE Copies /\ Results
  BY <1>13, HostReadsOnce
<1>14. Copies /\ Results
  BY <1>6, <1>7, <1>8, <1>9, <1>10, <1>11, <1>12, <1>13 DEF Next
<1> QED BY <1>1, <1>14 DEF CallsInv

LEMMA InitCallsInv == EnvoyAssumption /\ Init => CallsInv
<1> SUFFICES ASSUME EnvoyAssumption, Init PROVE CallsInv
  OBVIOUS
<1>1. \A x : ~In(x, <<>>) /\ Sole(x, <<>>) BY DEF In, Sole
<1>2. OneCopy(toHost, ran, caller) BY <1>1 DEF Init, OneCopy
<1>3. Earned(toEnvoy, listen, fut, ran) BY <1>1, Distinct DEF Init, Earned
<1> QED BY <1>2, <1>3, InitTyped DEF CallsInv

-----------------------------------------------------------------------------
(* Envoy implements AtMostOnceCalls                                        *)

Told == [c \in Call |-> Status(c)]

LEMMA NextImplements ==
  CallsInv /\ [Next]_vars => [Calls!NextCalls]_<<Told, ran>>
<1> SUFFICES ASSUME CallsInv, [Next]_vars
             PROVE  Calls!NextCalls \/ UNCHANGED <<Told, ran>>
  OBVIOUS
<1>0. /\ caller \in [Call -> {"idle", "waiting", "answer", "timeout", "refused"}]
      /\ \A c \in Call : fut[c] = "answer" => ran[c] = 1
  BY DEF CallsInv, Typed, EnvoyTypeOK, Earned
<1>1. \A c \in Call : /\ caller[c] = "idle" <=> Told[c] = "idle"
                      /\ caller[c] = "waiting" => Told[c] = "waiting"
  BY <1>0 DEF Told, Status
<1>2. ASSUME NEW c \in Call, NEW s \in {"waiting", "answer", "timeout", "refused"},
             caller' = [caller EXCEPT ![c] = s]
      PROVE  Told' = [Told EXCEPT ![c] = CASE s \in {"timeout", "refused"} -> "failed"
                                           [] s = "answer" -> "answered"
                                           [] OTHER -> s]
  BY <1>0, <1>2 DEF Told, Status
<1>3. ASSUME UNCHANGED <<caller, ran>> PROVE UNCHANGED <<Told, ran>>
  BY <1>3 DEF Told, Status
<1>4. ASSUME NEW c \in Call, caller[c] = "idle", caller' = [caller EXCEPT ![c] = "waiting"],
             ran' = ran
      PROVE  Calls!NextCalls
  <2>1. Told' = [Told EXCEPT ![c] = "waiting"] BY <1>2, <1>4
  <2> QED BY <1>1, <1>4, <2>1 DEF Calls!NextCalls, Calls!Issue, Told
<1>5. ASSUME NEW c \in Call, Invoke(c) \/ InvokeFails(c) \/ Answered(c) \/ TimedOut(c)
      PROVE  Calls!NextCalls
  <2>1. ran' = ran BY <1>5 DEF Invoke, InvokeFails, Answered, TimedOut, hostVars
  <2>2. CASE caller[c] = "idle" /\ caller' = [caller EXCEPT ![c] = "refused"]
    <3>1. Told' = [Told EXCEPT ![c] = "failed"] BY <1>2, <2>2
    <3>2. Calls!Refuse(c) BY <1>1, <2>1, <2>2, <3>1 DEF Calls!Refuse, Told
    <3> QED BY <3>2 DEF Calls!NextCalls
  <2>3. CASE caller[c] = "idle" /\ caller' = [caller EXCEPT ![c] = "waiting"]
    BY <1>4, <2>1, <2>3
  <2>4. CASE caller[c] = "waiting" /\ fut[c] = "answer" /\ caller' = [caller EXCEPT ![c] = "answer"]
    <3>1. Told' = [Told EXCEPT ![c] = "answered"] BY <1>2, <2>4
    <3>2. Calls!Answer(c) BY <1>0, <1>1, <2>1, <2>4, <3>1 DEF Calls!Answer, Told
    <3> QED BY <3>2 DEF Calls!NextCalls
  <2>5. CASE caller[c] = "waiting" /\ caller' = [caller EXCEPT ![c] = "timeout"]
    <3>1. Told' = [Told EXCEPT ![c] = "failed"] BY <1>2, <2>5
    <3>2. Calls!Fail(c) BY <1>1, <2>1, <2>5, <3>1 DEF Calls!Fail, Told
    <3> QED BY <3>2 DEF Calls!NextCalls
  <2> QED BY <1>5, <2>2, <2>3, <2>4, <2>5 DEF Invoke, InvokeFails, Answered, TimedOut
<1>6. ASSUME NEW k \in Conn, EnvoyReads(k) PROVE Calls!NextCalls \/ UNCHANGED <<Told, ran>>
  <2>1. /\ ran' = ran
        /\ \/ caller' = caller
           \/ \E c \in Call : caller[c] = "idle" /\ caller' = [caller EXCEPT ![c] = "waiting"]
    BY <1>6, EnvoyReadsIs DEF hostVars, CallsInv
  <2> QED BY <1>3, <1>4, <2>1
<1>7. ASSUME NEW k \in Conn, HostReads(k) PROVE Calls!NextCalls \/ UNCHANGED <<Told, ran>>
  <2>1. CASE UNCHANGED <<caller, ran>> BY <1>3, <2>1
  <2>2. ASSUME NEW c \in Call, caller' = caller, caller[c] # "idle", ran[c] = 0,
               ran' = [ran EXCEPT ![c] = 1]
        PROVE  Calls!NextCalls
    <3>1. Told' = Told BY <2>2 DEF Told, Status
    <3>2. Calls!Run(c) BY <1>1, <2>2, <3>1 DEF Calls!Run, Told
    <3> QED BY <3>2 DEF Calls!NextCalls
  <2> QED BY <1>7, <2>1, <2>2, HostReadsOnce
<1>8. ASSUME NEW k \in Conn, Accept(k) \/ LocalReturns(k) \/ HandlerEnds(k) \/ Connect(k)
                             \/ ToolReturns(k)
      PROVE  UNCHANGED <<caller, ran>>
  BY <1>8 DEF Accept, LocalReturns, HandlerEnds, Connect, ToolReturns, envoyVars, hostVars
<1>9. ASSUME NEW l \in Local, CallLocal(l) \/ LocalTimesOut(l) PROVE UNCHANGED <<caller, ran>>
  BY <1>9 DEF CallLocal, LocalTimesOut, envoyVars
<1>10. ASSUME Disconnect \/ UNCHANGED vars PROVE UNCHANGED <<caller, ran>>
  BY <1>10 DEF Disconnect, vars, envoyVars, hostVars
<1> QED BY <1>3, <1>5, <1>6, <1>7, <1>8, <1>9, <1>10 DEF Next

\* A tool call through the envoy runs the host's tool at most once, its caller
\* hears one outcome, and an answer means that this call has run: over hosts that
\* reconnect, results that come after the 60 seconds, and calls in both
\* directions (_call_host_tool, _handle_control_message, EnvoyClient._listen).
THEOREM ToolCallsAreAtMostOnce == EnvoyAssumption /\ Spec => ToolsRunAtMostOnce
<1>1. EnvoyAssumption /\ Init => Calls!InitCalls
  BY DEF Init, Calls!InitCalls, Status
<1>2. CallsInv /\ [Next]_vars => [Calls!NextCalls]_<<Told, ran>> BY NextImplements
<1> QED
  BY <1>1, <1>2, InitCallsInv, NextKeepsCalls, PTL
     DEF Spec, ToolsRunAtMostOnce, Calls!Calls, Told

=============================================================================
