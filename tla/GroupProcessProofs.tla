-------------------------- MODULE GroupProcessProofs --------------------------
(***************************************************************************)
(* Requests to a group of llmings are at-most-once calls, and whoever      *)
(* waits when a connection ends is released, for any number of llmings,    *)
(* calls, connections and crashes.                                         *)
(***************************************************************************)
EXTENDS GroupProcess, QueueLemmas

-----------------------------------------------------------------------------
(* The inductive invariant                                                 *)

Line == Msg \cup {"ack"}
Note == Answers \cup {Ready}
Up   == {"loading", "up", "busy"}

\* hello_ack is written once, by the handler that has read the hello, and is
\* off the wire when the subprocess takes messages: no message is taken for it.
AckOnce ==
  /\ \A c \in Conn : hpc[c] \in {"accepted", "hello"} => ~In("ack", down[c])
  /\ wphase \in Up => hpc[wconn] \notin {"accepted", "hello"} /\ ~In("ack", down[wconn])

\* An open future belongs to a caller that waits, is known by its id, and went
\* out on a connection; the writer's handler has not ended.
FuturesKept ==
  /\ writer # None => hpc[writer] # "none"
  /\ \A m \in Msg : fut[m] = "pending"
                    => m \in pending /\ outcome[m] = "waiting" /\ sentOn[m] \in Conn
  /\ \A m \in Msg : outcome[m] = "none" => fut[m] = "none"
  /\ \A m \in Msg : outcome[m] = "waiting" => fut[m] \in {"pending", "result", "error", "lost"}

\* There is one copy of a message: on the wire, or in the subprocess's hands.
OneCopy ==
  /\ \A c \in Conn : Once(down[c])
  /\ \A m \in Msg, c \in Conn : In(m, down[c]) => runs[m] = 0 /\ outcome[m] # "none"
  /\ \A m \in Msg, c, d \in Conn : In(m, down[c]) /\ In(m, down[d]) => c = d
  /\ \A m \in Msg : runs[m] \in {0, 1} /\ (runs[m] = 1 => outcome[m] # "none")
  /\ wmsg # None => runs[wmsg] = 1

\* A result or an error, under way or in a future, is that of a message that
\* the subprocess has taken.
Earned(n) == n # Ready => runs[n.id] = 1
AnswersEarned ==
  /\ \A c \in Conn, n \in Note : In(n, up[c]) => Earned(n)
  /\ \A m \in Msg : fut[m] \in {"result", "error"} => runs[m] = 1

Inv == /\ TypeOK /\ AckOnce /\ FuturesKept /\ DisconnectReleasesCallers
       /\ OneCopy /\ AnswersEarned

LEMMA Names == None \notin Msg /\ None \notin Conn /\ "ack" \notin Msg
  BY GroupAssumption DEF Msg

\* What the wires carry.
LEMMA WireTypes ==
  ASSUME TypeOK, NEW c \in Conn
  PROVE  down[c] \in Seq(Line) /\ up[c] \in Seq(Note)
  BY DEF TypeOK, Line, Note

-----------------------------------------------------------------------------
(* Types                                                                   *)

LEMMA InitTyped == Init => TypeOK
<1> SUFFICES ASSUME Init PROVE TypeOK
  OBVIOUS
<1>1. down \in [Conn -> Seq(Msg \cup {"ack"})] /\ up \in [Conn -> Seq(Answers \cup {Ready})]
  <2>1. <<>> \in Seq(Msg \cup {"ack"}) /\ <<>> \in Seq(Answers \cup {Ready}) OBVIOUS
  <2> QED BY <2>1 DEF Init
<1>2. MaxCrashes \in Nat BY GroupAssumption
<1>3. /\ writer \in Conn \cup {None} /\ connected \in BOOLEAN /\ ready \in BOOLEAN
      /\ hpc \in [Conn -> {"none", "accepted", "hello", "reading", "failed"}]
  BY DEF Init
<1>4. /\ fut \in [Msg -> Futures] /\ pending \subseteq Msg
      /\ outcome \in [Msg -> Outcomes] /\ sentOn \in [Msg -> Conn \cup {None}]
      /\ spawn \in {"starting", "waiting", "activating", "registered", "failed", "stopped"}
  BY DEF Init, Futures, Outcomes
<1>5. mopen \in [Conn -> BOOLEAN] /\ wopen \in [Conn -> BOOLEAN] BY DEF Init
<1>6. /\ wphase \in {"dead", "idle"} /\ wconn \in Conn \cup {None}
      /\ wmsg \in Msg \cup {None} /\ active \subseteq Llming
      /\ runs \in [Msg -> Nat] /\ crashes \in 0..MaxCrashes
  BY <1>2 DEF Init
<1> QED BY <1>1, <1>3, <1>4, <1>5, <1>6 DEF TypeOK

\* A step of the subprocess, or its death.
LEMMA WorkerTyped ==
  ASSUME TypeOK, AckOnce, WorkerStep \/ Crash
  PROVE  TypeOK'
<1> USE DEF mainVars, callVars
<1>1. CASE Respawn BY <1>1 DEF Respawn, TypeOK, wireVars
<1>2. ASSUME NEW c \in Conn, Connect(c) PROVE TypeOK'
  <2>1. <<>> \in Seq(Msg \cup {"ack"}) /\ <<>> \in Seq(Answers \cup {Ready}) OBVIOUS
  <2>2. down' \in [Conn -> Seq(Msg \cup {"ack"})] /\ up' \in [Conn -> Seq(Answers \cup {Ready})]
    BY <1>2, <2>1 DEF Connect, TypeOK
  <2> QED BY <1>2, <2>2, Names DEF Connect, TypeOK
<1>3. CASE WorkerHandshake
  <2>1. wconn \in Conn BY <1>3 DEF WorkerHandshake, TypeOK
  <2>2. Tail(down[wconn]) \in Seq(Line) BY <1>3, <2>1, WireTypes DEF WorkerHandshake
  <2>3. down' \in [Conn -> Seq(Line)] BY <1>3, <2>1, <2>2 DEF WorkerHandshake, TypeOK, Line
  <2> QED BY <1>3, <2>1, <2>3 DEF WorkerHandshake, WorkerHangsUp, TypeOK, Line
<1>4. CASE Load
  <2>1. wconn \in Conn BY <1>4 DEF Load, TypeOK
  <2>2. Append(up[wconn], Ready) \in Seq(Note) BY <2>1, WireTypes DEF Note
  <2>3. up' \in [Conn -> Seq(Note)] BY <1>4, <2>1, <2>2 DEF Load, TypeOK, Note
  <2> QED BY <1>4, <2>3 DEF Load, TypeOK, Note
<1>5. CASE Take
  <2>1. wconn \in Conn BY <1>5 DEF Take, TypeOK
  <2>2. /\ Tail(down[wconn]) \in Seq(Line) /\ Head(down[wconn]) \in Line
        /\ In(Head(down[wconn]), down[wconn])
    BY <1>5, <2>1, WireTypes, TailIn DEF Take
  <2>3. Head(down[wconn]) \in Msg BY <1>5, <2>2 DEF Take, AckOnce, Up, Line
  <2>4. down' \in [Conn -> Seq(Line)] BY <1>5, <2>1, <2>2 DEF Take, TypeOK, Line
  <2>5. wmsg' \in Msg /\ runs' \in [Msg -> Nat] BY <1>5, <2>3 DEF Take, TypeOK
  <2> QED BY <1>5, <2>4, <2>5, Names DEF Take, TypeOK, Line
<1>6. ASSUME NEW k \in {"result", "error"}, Reply(k) PROVE TypeOK'
  <2>1. wconn \in Conn /\ wmsg \in Msg BY <1>6 DEF Reply, TypeOK
  <2>2. [kind |-> k, id |-> wmsg] \in Note BY <2>1 DEF Note, Answers
  <2>3. Append(up[wconn], [kind |-> k, id |-> wmsg]) \in Seq(Note) BY <2>1, <2>2, WireTypes
  <2>4. up' \in [Conn -> Seq(Note)] BY <1>6, <2>1, <2>3 DEF Reply, TypeOK, Note
  <2> QED BY <1>6, <2>4 DEF Reply, TypeOK, Note
<1>7. CASE Crash
  <2>1. crashes' \in 0..MaxCrashes BY <1>7, GroupAssumption DEF Crash, TypeOK
  <2> QED BY <1>7, <2>1 DEF Crash, Dies, TypeOK
<1> QED BY <1>1, <1>2, <1>3, <1>4, <1>5, <1>6, <1>7 DEF WorkerStep

\* The end of a handler.
LEMMA EndTyped ==
  ASSUME TypeOK, NEW c \in Conn, NEW f \in [Msg -> Futures], End(c, f)
  PROVE  /\ fut' \in [Msg -> Futures] /\ pending' \subseteq Msg
         /\ connected' \in BOOLEAN /\ writer' \in Conn \cup {None}
         /\ hpc' \in [Conn -> {"none", "accepted", "hello", "reading", "failed"}]
  BY DEF End, TypeOK, Futures

\* The futures after a line has been handled.
LEMMA SettledTyped ==
  ASSUME TypeOK, NEW n \in Note
  PROVE  Settled(n) \in [Msg -> Futures]
<1>1. ASSUME NEW m \in Msg, n.id = m PROVE n.kind \in {"result", "error"}
  <2>1. n # Ready BY <1>1, Names DEF Ready
  <2> QED BY <2>1 DEF Note, Answers
<1> QED BY <1>1 DEF Settled, TypeOK, Futures

LEMMA HandlerTyped ==
  ASSUME TypeOK, NEW c \in Conn, HandlerStep(c)
  PROVE  TypeOK'
<1> USE DEF wireVars, workerVars
<1>1. CASE Accept(c) BY <1>1 DEF Accept, callVars, TypeOK
<1>2. CASE HandshakeOk(c)
  <2>1. Append(down[c], "ack") \in Seq(Line) BY WireTypes DEF Line
  <2>2. down' \in [Conn -> Seq(Line)] BY <1>2, <2>1 DEF HandshakeOk, TypeOK, Line
  <2> QED BY <1>2, <2>2 DEF HandshakeOk, callVars, TypeOK, Line
<1>3. CASE HandshakeFails(c) BY <1>3 DEF HandshakeFails, callVars, TypeOK
<1>4. CASE Read(c)
  <2>1. Head(up[c]) \in Note /\ Tail(up[c]) \in Seq(Note)
    BY <1>4, WireTypes, TailIn DEF Read
  <2>2. up' \in [Conn -> Seq(Note)] BY <1>4, <2>1 DEF Read, TypeOK, Note
  <2>3. Settled(Head(up[c])) \in [Msg -> Futures] BY <2>1, SettledTyped
  <2>4. /\ fut' \in [Msg -> Futures] /\ pending' \subseteq Msg
        /\ connected' \in BOOLEAN /\ writer' \in Conn \cup {None}
        /\ hpc' \in [Conn -> {"none", "accepted", "hello", "reading", "failed"}]
    <3>1. CASE connected BY <1>4, <2>3, <3>1 DEF Read, TypeOK
    <3>2. CASE ~connected BY <1>4, <2>3, <3>2, EndTyped DEF Read
    <3> QED BY <3>1, <3>2
  <2>5. ready' \in BOOLEAN BY <1>4 DEF Read, TypeOK
  <2> QED BY <1>4, <2>2, <2>4, <2>5 DEF Read, TypeOK, Note
<1>5. CASE HandlerEnds(c)
  <2>1. fut \in [Msg -> Futures] BY DEF TypeOK
  <2> QED BY <1>5, <2>1, EndTyped DEF HandlerEnds, TypeOK
<1> QED BY <1>1, <1>2, <1>3, <1>4, <1>5 DEF HandlerStep

\* A request, and its caller's return.
LEMMA RequestTyped ==
  ASSUME TypeOK, NEW m \in Msg, Request(m), spawn' = spawn
  PROVE  TypeOK'
<1> USE DEF mainVars, workerVars
<1>1. CASE /\ writer # None
           /\ fut' = [fut EXCEPT ![m] = "pending"] /\ pending' = pending \cup {m}
           /\ outcome' = [outcome EXCEPT ![m] = "waiting"]
           /\ sentOn' = [sentOn EXCEPT ![m] = writer]
           /\ down' = [down EXCEPT ![writer] = Append(@, m)]
  <2>1. writer \in Conn BY <1>1 DEF TypeOK
  <2>2. Append(down[writer], m) \in Seq(Line) BY <2>1, WireTypes DEF Line
  <2>3. down' \in [Conn -> Seq(Line)] BY <1>1, <2>1, <2>2 DEF TypeOK, Line
  <2>4. fut' \in [Msg -> Futures] /\ outcome' \in [Msg -> Outcomes] /\ pending' \subseteq Msg
        /\ sentOn' \in [Msg -> Conn \cup {None}]
    BY <1>1, <2>1 DEF TypeOK, Futures, Outcomes
  <2> QED BY <2>3, <2>4 DEF Request, TypeOK, Line
<1>2. CASE outcome' = [outcome EXCEPT ![m] = "refused"] /\ UNCHANGED <<fut, pending, sentOn, down>>
  <2>1. outcome' \in [Msg -> Outcomes] BY <1>2 DEF TypeOK, Outcomes
  <2> QED BY <1>2, <2>1 DEF Request, TypeOK
<1> QED BY <1>1, <1>2 DEF Request

LEMMA CallerTyped ==
  ASSUME TypeOK, FuturesKept, NEW m \in Msg, CallerStep(m)
  PROVE  TypeOK'
<1> USE DEF mainVars, workerVars, wireVars
<1>1. CASE Return(m)
  <2>1. fut[m] \in {"result", "error", "lost"} BY <1>1 DEF Return, FuturesKept
  <2>2. outcome' \in [Msg -> Outcomes] /\ pending' \subseteq Msg
    BY <1>1, <2>1 DEF Return, TypeOK, Outcomes
  <2> QED BY <1>1, <2>2 DEF Return, TypeOK
<1>2. CASE Timeout(m)
  <2>1. /\ outcome' \in [Msg -> Outcomes] /\ fut' \in [Msg -> Futures]
        /\ pending' \subseteq Msg
    BY <1>2 DEF Timeout, TypeOK, Outcomes, Futures
  <2> QED BY <1>2, <2>1 DEF Timeout, TypeOK
<1> QED BY <1>1, <1>2 DEF CallerStep

LEMMA NextTyped == TypeOK /\ AckOnce /\ FuturesKept /\ [Next]_vars => TypeOK'
<1> SUFFICES ASSUME TypeOK, AckOnce, FuturesKept, [Next]_vars PROVE TypeOK'
  OBVIOUS
<1>1. CASE WorkerStep \/ Crash BY <1>1, WorkerTyped
<1>2. ASSUME NEW c \in Conn, HandlerStep(c) PROVE TypeOK' BY <1>2, HandlerTyped
<1>3. ASSUME NEW m \in Msg, CallPower(m) \/ CallerStep(m) PROVE TypeOK'
  BY <1>3, RequestTyped, CallerTyped DEF CallPower
<1>4. CASE SpawnStep
  <2>1. ASSUME NEW l \in Llming, Activate(l) PROVE TypeOK'
    BY <2>1, RequestTyped DEF Activate, Msg
  <2>2. CASE StartReturns \/ WaitReady \/ Registered \/ SpawnFails
    BY <2>2 DEF StartReturns, WaitReady, Registered, SpawnFails, TypeOK, mainVars, callVars,
                wireVars, workerVars
  <2> QED BY <1>4, <2>1, <2>2 DEF SpawnStep
<1>5. CASE Stop BY <1>5 DEF Stop, Dies, TypeOK, callVars
<1>6. CASE UNCHANGED vars
  BY <1>6 DEF vars, TypeOK, mainVars, callVars, wireVars, workerVars
<1> QED BY <1>1, <1>2, <1>3, <1>4, <1>5, <1>6 DEF Next

-----------------------------------------------------------------------------
(* hello_ack                                                               *)

\* A step that writes no hello_ack and neither begins a handshake nor ends one.
LEMMA AckShrinks ==
  ASSUME AckOnce, \A c \in Conn : In("ack", down'[c]) => In("ack", down[c]),
         \A c \in Conn : hpc'[c] \in {"accepted", "hello"} => hpc[c] \in {"accepted", "hello"},
         wphase' \in Up => wphase \in Up /\ wconn' = wconn /\ wconn \in Conn
  PROVE  AckOnce'
BY DEF AckOnce

\* What reading the head of a wire leaves of it.
LEMMA HeadTaken ==
  ASSUME TypeOK, NEW c \in Conn, down[c] # <<>>, down' = [down EXCEPT ![c] = Tail(@)]
  PROVE  /\ Head(down[c]) \in Line /\ In(Head(down[c]), down[c])
         /\ \A d \in Conn, x \in Line : In(x, down'[d]) => In(x, down[d])
         /\ Once(down[c]) => ~In(Head(down[c]), down'[c])
         /\ (\A d \in Conn : Once(down[d])) => \A d \in Conn : Once(down'[d])
<1>1. down[c] \in Seq(Line) BY WireTypes
<1>2. down'[c] = Tail(down[c]) /\ \A d \in Conn : d # c => down'[d] = down[d] BY DEF TypeOK
<1>3. /\ Head(down[c]) \in Line /\ In(Head(down[c]), down[c])
      /\ \A x \in Line : In(x, Tail(down[c])) => In(x, down[c])
      /\ Once(down[c]) => Once(Tail(down[c])) /\ ~In(Head(down[c]), Tail(down[c]))
  BY <1>1, TailIn
<1> QED BY <1>2, <1>3

\* What writing a line that is nowhere on a wire makes of it.
LEMMA LineWritten ==
  ASSUME TypeOK, NEW c \in Conn, NEW x \in Line, down' = [down EXCEPT ![c] = Append(@, x)]
  PROVE  /\ \A d \in Conn, y \in Line :
              In(y, down'[d]) => In(y, down[d]) \/ (y = x /\ d = c)
         /\ (\A d \in Conn : Once(down[d])) /\ ~In(x, down[c])
            => \A d \in Conn : Once(down'[d])
<1>1. down[c] \in Seq(Line) BY WireTypes
<1>2. down'[c] = Append(down[c], x) /\ \A d \in Conn : d # c => down'[d] = down[d]
  BY DEF TypeOK
<1>3. /\ \A y : In(y, Append(down[c], x)) <=> In(y, down[c]) \/ y = x
      /\ Once(down[c]) /\ ~In(x, down[c]) => Once(Append(down[c], x))
  BY <1>1, AppendIn
<1> QED BY <1>2, <1>3

LEMMA NextAck == TypeOK /\ AckOnce /\ OneCopy /\ [Next]_vars => AckOnce'
<1> SUFFICES ASSUME TypeOK, AckOnce, OneCopy, [Next]_vars PROVE AckOnce'
  OBVIOUS
<1> USE DEF mainVars, callVars, wireVars, workerVars
<1>1. /\ "ack" \in Line /\ "ack" \notin Msg /\ \A m \in Msg : m \in Line /\ m # "ack"
      /\ wphase \notin {"dead", "idle"} => wconn \in Conn
      /\ hpc \in [Conn -> {"none", "accepted", "hello", "reading", "failed"}]
  BY Names DEF Line, TypeOK
<1>2. ASSUME down' = down, hpc' = hpc,
             wphase' \in Up => wphase \in Up /\ wconn' = wconn
      PROVE  AckOnce'
  BY <1>1, <1>2, AckShrinks DEF Up
<1>3. CASE Respawn \/ Load \/ Crash \/ (\E k \in {"result", "error"} : Reply(k))
  BY <1>2, <1>3 DEF Respawn, Load, Crash, Reply, Dies, Up
<1>4. ASSUME NEW c \in Conn, Connect(c) PROVE AckOnce'
  <2>1. /\ down'[c] = <<>> /\ wphase' = "hello"
        /\ \A d \in Conn : d # c => down'[d] = down[d] /\ hpc'[d] = hpc[d]
    BY <1>1, <1>4 DEF Connect, TypeOK
  <2>2. ~In("ack", <<>>) BY DEF In
  <2> QED BY <2>1, <2>2 DEF AckOnce, Up
<1>5. CASE WorkerHandshake
  <2>1. wconn \in Conn /\ hpc' = hpc BY <1>1, <1>5 DEF WorkerHandshake
  <2>2. /\ In(Head(down[wconn]), down[wconn])
        /\ ~In(Head(down[wconn]), down'[wconn])
        /\ \A d \in Conn : In("ack", down'[d]) => In("ack", down[d])
    BY <1>1, <1>5, <2>1, HeadTaken DEF WorkerHandshake, OneCopy
  <2>3. CASE Head(down[wconn]) = "ack"
    <3>1. hpc[wconn] \notin {"accepted", "hello"} BY <2>1, <2>2, <2>3 DEF AckOnce
    <3> QED BY <1>5, <2>1, <2>2, <2>3, <3>1 DEF WorkerHandshake, AckOnce, Up
  <2>4. CASE Head(down[wconn]) # "ack"
    BY <1>5, <2>1, <2>2, <2>4, AckShrinks DEF WorkerHandshake, WorkerHangsUp, Up
  <2> QED BY <2>3, <2>4
<1>6. CASE Take
  <2>1. wconn \in Conn BY <1>1, <1>6 DEF Take
  <2>2. \A d \in Conn : In("ack", down'[d]) => In("ack", down[d])
    BY <1>1, <1>6, <2>1, HeadTaken DEF Take
  <2> QED BY <1>6, <2>1, <2>2, AckShrinks DEF Take, Up
<1>7. ASSUME NEW c \in Conn, HandlerStep(c) PROVE AckOnce'
  <2>1. wphase' \in Up => wphase \in Up /\ wconn' = wconn /\ wconn \in Conn
    BY <1>1, <1>7 DEF HandlerStep, Accept, HandshakeOk, HandshakeFails, Read, HandlerEnds, Up
  <2>2. CASE HandshakeOk(c)
    <3>1. /\ \A d \in Conn : In("ack", down'[d]) => In("ack", down[d]) \/ d = c
          /\ hpc'[c] = "reading" /\ \A d \in Conn : d # c => hpc'[d] = hpc[d]
      BY <1>1, <2>2, LineWritten DEF HandshakeOk
    <3>2. wphase' \in Up => wconn # c BY <2>1, <2>2 DEF HandshakeOk, AckOnce
    <3> QED BY <2>1, <3>1, <3>2 DEF AckOnce
  <2>3. CASE Accept(c) \/ HandshakeFails(c) \/ Read(c) \/ HandlerEnds(c)
    <3>1. /\ down' = down
          /\ \A d \in Conn : hpc'[d] \in {"accepted", "hello"} => hpc[d] \in {"accepted", "hello"}
      BY <1>1, <2>3 DEF Accept, HandshakeFails, Read, HandlerEnds, End
    <3> QED BY <2>1, <3>1, AckShrinks
  <2> QED BY <1>7, <2>2, <2>3 DEF HandlerStep
<1>8. ASSUME NEW m \in Msg, Request(m) PROVE AckOnce'
  <2>1. \A d \in Conn : In("ack", down'[d]) => In("ack", down[d])
    <3>1. CASE writer # None /\ down' = [down EXCEPT ![writer] = Append(@, m)]
      <4>1. writer \in Conn BY <3>1 DEF TypeOK
      <4> QED BY <1>1, <3>1, <4>1, LineWritten
    <3>2. CASE down' = down BY <3>2
    <3> QED BY <1>8, <3>1, <3>2 DEF Request
  <2> QED BY <1>1, <1>8, <2>1, AckShrinks DEF Request, Up
<1>9. ASSUME NEW m \in Msg, CallPower(m) \/ CallerStep(m) PROVE AckOnce'
  BY <1>2, <1>8, <1>9 DEF CallPower, CallerStep, Return, Timeout
<1>10. CASE SpawnStep
  <2>1. ASSUME NEW l \in Llming, Activate(l) PROVE AckOnce'
    BY <1>8, <2>1 DEF Activate, Msg
  <2> QED
    BY <1>2, <1>10, <2>1 DEF SpawnStep, StartReturns, WaitReady, Registered, SpawnFails
<1>11. CASE Stop BY <1>2, <1>11 DEF Stop, Dies, Up
<1>12. CASE UNCHANGED vars BY <1>2, <1>12 DEF vars
<1> QED BY <1>3, <1>4, <1>5, <1>6, <1>7, <1>9, <1>10, <1>11, <1>12 DEF Next, WorkerStep

-----------------------------------------------------------------------------
(* Futures                                                                 *)

CallerInv == FuturesKept /\ DisconnectReleasesCallers

\* A step that leaves the callers alone, and ends no handler.
LEMMA CallersUntouched ==
  ASSUME CallerInv, UNCHANGED callVars,
         \A c \in Conn : hpc[c] # "none" => hpc'[c] # "none",
         writer' # None => (writer' = writer /\ writer \in Conn) \/ hpc'[writer'] # "none"
  PROVE  CallerInv'
<1>1. writer' # None => hpc'[writer'] # "none" BY DEF CallerInv, FuturesKept
<1>2. FuturesKept' BY <1>1 DEF CallerInv, FuturesKept, callVars
<1>3. DisconnectReleasesCallers'
  BY DEF CallerInv, FuturesKept, DisconnectReleasesCallers, callVars
<1> QED BY <1>2, <1>3 DEF CallerInv

\* What End does: of the futures it is given, which keep what was settled, it
\* leaves none open.
LEMMA EndKeeps ==
  ASSUME TypeOK, CallerInv, NEW c \in Conn, NEW f, End(c, f), outcome' = outcome,
         \A m \in Msg : f[m] = fut[m] \/ (fut[m] = "pending" /\ f[m] \in {"result", "error"})
  PROVE  CallerInv'
<1>1. fut' = [m \in Msg |-> IF m \in pending /\ f[m] = "pending" THEN "lost" ELSE f[m]]
      /\ writer' = None
  BY DEF End
<1>2. \A m \in Msg : fut'[m] = IF m \in pending /\ f[m] = "pending" THEN "lost" ELSE f[m]
  BY <1>1
<1>3. \A m \in Msg : fut[m] = "pending" => m \in pending /\ outcome[m] = "waiting"
  BY DEF CallerInv, FuturesKept
<1>4. \A m \in Msg : fut'[m] # "pending" BY <1>2, <1>3
<1>5. \A m \in Msg : outcome[m] = "none" => fut'[m] = "none"
  BY <1>2, <1>3 DEF CallerInv, FuturesKept
<1>6. \A m \in Msg : outcome[m] = "waiting" => fut'[m] \in {"pending", "result", "error", "lost"}
  BY <1>2, <1>3 DEF CallerInv, FuturesKept
<1> QED BY <1>1, <1>4, <1>5, <1>6 DEF CallerInv, FuturesKept, DisconnectReleasesCallers

\* What a line does to the futures.
LEMMA SettledChanges ==
  ASSUME TypeOK, NEW n \in Note, NEW m \in Msg
  PROVE  \/ Settled(n)[m] = fut[m]
         \/ fut[m] = "pending" /\ Settled(n)[m] \in {"result", "error"} /\ n # Ready /\ n.id = m
                               /\ Settled(n)[m] = n.kind
<1>1. CASE n = Ready
  <2>1. n.id # m BY <1>1, Names DEF Ready
  <2> QED BY <2>1 DEF Settled
<1>2. CASE n # Ready
  <2>1. n.kind \in {"result", "error"} BY <1>2 DEF Note, Answers
  <2> QED BY <1>2, <2>1 DEF Settled
<1> QED BY <1>1, <1>2

LEMMA HandlerCallers ==
  ASSUME TypeOK, CallerInv, NEW c \in Conn, HandlerStep(c)
  PROVE  CallerInv'
<1>1. hpc \in [Conn -> {"none", "accepted", "hello", "reading", "failed"}]
      /\ writer \in Conn \cup {None}
  BY DEF TypeOK
<1>2. CASE Accept(c) BY <1>1, <1>2, CallersUntouched DEF Accept
<1>3. CASE HandshakeOk(c) BY <1>1, <1>3, CallersUntouched DEF HandshakeOk
<1>4. CASE HandshakeFails(c) BY <1>1, <1>4, CallersUntouched DEF HandshakeFails
<1>5. CASE Read(c)
  <2> DEFINE n == Head(up[c])
  <2>1. n \in Note BY <1>5, WireTypes, TailIn DEF Read
  <2>2. outcome' = outcome /\ sentOn' = sentOn BY <1>5 DEF Read
  <2>3. \A m \in Msg : Settled(n)[m] = fut[m]
                       \/ (fut[m] = "pending" /\ Settled(n)[m] \in {"result", "error"})
    BY <2>1, SettledChanges
  <2>4. CASE ~connected
    <3>1. End(c, Settled(n)) BY <1>5, <2>4 DEF Read
    <3> QED BY <2>2, <2>3, <3>1, EndKeeps
  <2>5. CASE connected
    <3>1. fut' = Settled(n) /\ UNCHANGED <<pending, writer, hpc>> BY <1>5, <2>5 DEF Read
    <3> HIDE DEF n
    <3>2. \A m \in Msg : fut[m] = "pending" => outcome[m] = "waiting"
      BY DEF CallerInv, FuturesKept
    <3>3. FuturesKept' BY <2>2, <2>3, <3>1, <3>2 DEF CallerInv, FuturesKept
    <3>4. DisconnectReleasesCallers'
      BY <2>2, <2>3, <3>1 DEF CallerInv, DisconnectReleasesCallers
    <3> QED BY <3>3, <3>4 DEF CallerInv
  <2> QED BY <2>4, <2>5
<1>6. CASE HandlerEnds(c) BY <1>6, EndKeeps DEF HandlerEnds
<1> QED BY <1>2, <1>3, <1>4, <1>5, <1>6 DEF HandlerStep

LEMMA RequestCallers ==
  ASSUME TypeOK, CallerInv, NEW m \in Msg, Request(m)
  PROVE  CallerInv'
<1>1. /\ fut \in [Msg -> Futures] /\ outcome \in [Msg -> Outcomes]
      /\ sentOn \in [Msg -> Conn \cup {None}] /\ writer \in Conn \cup {None}
      /\ UNCHANGED <<writer, hpc>> /\ outcome[m] = "none"
  BY DEF TypeOK, Request, mainVars
<1>2. fut[m] = "none" BY <1>1 DEF CallerInv, FuturesKept
<1>3. CASE /\ writer # None
           /\ fut' = [fut EXCEPT ![m] = "pending"] /\ pending' = pending \cup {m}
           /\ outcome' = [outcome EXCEPT ![m] = "waiting"]
           /\ sentOn' = [sentOn EXCEPT ![m] = writer]
  <2>1. /\ fut'[m] = "pending" /\ outcome'[m] = "waiting" /\ sentOn'[m] = writer
        /\ writer \in Conn /\ m \in pending' /\ pending \subseteq pending'
        /\ \A k \in Msg : k # m => /\ fut'[k] = fut[k] /\ outcome'[k] = outcome[k]
                                   /\ sentOn'[k] = sentOn[k]
    BY <1>1, <1>3
  <2>2. hpc[writer] # "none" BY <1>3 DEF CallerInv, FuturesKept
  <2>3. FuturesKept' BY <1>1, <2>1, <2>2 DEF CallerInv, FuturesKept
  <2>4. DisconnectReleasesCallers'
    BY <1>1, <2>1, <2>2 DEF CallerInv, DisconnectReleasesCallers
  <2> QED BY <2>3, <2>4 DEF CallerInv
<1>4. CASE outcome' = [outcome EXCEPT ![m] = "refused"] /\ UNCHANGED <<fut, pending, sentOn>>
  <2>1. outcome'[m] = "refused" /\ \A k \in Msg : k # m => outcome'[k] = outcome[k]
    BY <1>1, <1>4
  <2>2. FuturesKept' BY <1>1, <1>2, <1>4, <2>1 DEF CallerInv, FuturesKept
  <2>3. DisconnectReleasesCallers' BY <1>1, <1>4 DEF CallerInv, DisconnectReleasesCallers
  <2> QED BY <2>2, <2>3 DEF CallerInv
<1> QED BY <1>3, <1>4 DEF Request

LEMMA ReturnCallers ==
  ASSUME TypeOK, CallerInv, NEW m \in Msg, CallerStep(m)
  PROVE  CallerInv'
<1>1. /\ fut \in [Msg -> Futures] /\ outcome \in [Msg -> Outcomes]
      /\ UNCHANGED <<writer, hpc, sentOn>> /\ pending' = pending \ {m}
  BY DEF TypeOK, CallerStep, Return, Timeout, mainVars
<1>2. /\ fut'[m] # "pending" /\ outcome'[m] \notin {"none", "waiting"}
      /\ \A k \in Msg : k # m => fut'[k] = fut[k] /\ outcome'[k] = outcome[k]
  <2>1. CASE Return(m)
    <3>1. fut[m] \in {"result", "error", "lost"} BY <2>1 DEF Return, CallerInv, FuturesKept
    <3> QED BY <1>1, <2>1, <3>1 DEF Return
  <2>2. CASE Timeout(m) BY <1>1, <2>2 DEF Timeout
  <2> QED BY <2>1, <2>2 DEF CallerStep
<1>3. FuturesKept' BY <1>1, <1>2 DEF CallerInv, FuturesKept
<1>4. DisconnectReleasesCallers' BY <1>1, <1>2 DEF CallerInv, DisconnectReleasesCallers
<1> QED BY <1>3, <1>4 DEF CallerInv

LEMMA NextCallers == TypeOK /\ CallerInv /\ [Next]_vars => CallerInv'
<1> SUFFICES ASSUME TypeOK, CallerInv, [Next]_vars PROVE CallerInv'
  OBVIOUS
<1>1. ASSUME UNCHANGED callVars, hpc' = hpc, writer' = writer \/ writer' = None
      PROVE  CallerInv'
  BY <1>1, CallersUntouched DEF TypeOK
<1>2. CASE WorkerStep \/ Crash
  <2>1. ASSUME NEW c \in Conn, Connect(c) PROVE CallerInv'
    BY <2>1, CallersUntouched DEF Connect, TypeOK
  <2>2. CASE Respawn \/ WorkerHandshake \/ Load \/ Take \/ Crash
             \/ \E k \in {"result", "error"} : Reply(k)
    BY <1>1, <2>2 DEF Respawn, WorkerHandshake, Load, Take, Crash, Reply, mainVars
  <2> QED BY <1>2, <2>1, <2>2 DEF WorkerStep
<1>3. ASSUME NEW c \in Conn, HandlerStep(c) PROVE CallerInv' BY <1>3, HandlerCallers
<1>4. ASSUME NEW m \in Msg, CallPower(m) \/ CallerStep(m) PROVE CallerInv'
  BY <1>4, RequestCallers, ReturnCallers DEF CallPower
<1>5. CASE SpawnStep
  <2>1. ASSUME NEW l \in Llming, Activate(l) PROVE CallerInv'
    BY <2>1, RequestCallers DEF Activate, Msg
  <2> QED
    BY <1>1, <1>5, <2>1 DEF SpawnStep, StartReturns, WaitReady, Registered, SpawnFails, mainVars
<1>6. CASE Stop BY <1>1, <1>6 DEF Stop
<1>7. CASE UNCHANGED vars BY <1>1, <1>7 DEF vars, mainVars
<1> QED BY <1>2, <1>3, <1>4, <1>5, <1>6, <1>7 DEF Next

-----------------------------------------------------------------------------
(* Copies                                                                  *)

\* A step that writes no message and has none taken.
LEMMA CopiesDwindle ==
  ASSUME OneCopy, runs' = runs, wmsg' = wmsg \/ wmsg' = None,
         \A c \in Conn : Once(down'[c]),
         \A c \in Conn, m \in Msg : In(m, down'[c]) => In(m, down[c]),
         \A m \in Msg : outcome[m] # "none" => outcome'[m] # "none"
  PROVE  OneCopy'
<1>1. \A m \in Msg, c \in Conn : In(m, down'[c]) => runs'[m] = 0 /\ outcome'[m] # "none"
  BY DEF OneCopy
<1>2. \A m \in Msg, c, d \in Conn : In(m, down'[c]) /\ In(m, down'[d]) => c = d
  BY DEF OneCopy
<1>3. /\ \A m \in Msg : runs'[m] \in {0, 1} /\ (runs'[m] = 1 => outcome'[m] # "none")
      /\ wmsg' # None => runs'[wmsg'] = 1
  BY DEF OneCopy
<1> QED BY <1>1, <1>2, <1>3 DEF OneCopy

\* The subprocess takes a message nobody has begun to work on.
LEMMA Taken ==
  ASSUME TypeOK, AckOnce, OneCopy, Take
  PROVE  /\ wmsg' \in Msg /\ runs[wmsg'] = 0 /\ outcome[wmsg'] # "none"
         /\ runs' = [runs EXCEPT ![wmsg'] = 1]
         /\ \A d \in Conn : Once(down'[d])
         /\ \A d \in Conn, m \in Msg : In(m, down'[d]) => m # wmsg' /\ In(m, down[d])
<1> DEFINE h == Head(down[wconn])
<1>1. wconn \in Conn /\ wmsg' = h /\ \A m \in Msg : m \in Line
  BY DEF Take, TypeOK, Line
<1>2. /\ h \in Line /\ In(h, down[wconn]) /\ ~In(h, down'[wconn])
      /\ \A d \in Conn : Once(down'[d])
      /\ \A d \in Conn, x \in Line : In(x, down'[d]) => In(x, down[d])
  BY <1>1, HeadTaken DEF Take, OneCopy
<1>3. h \in Msg BY <1>2 DEF Take, AckOnce, Up, Line
<1>4. runs[h] = 0 /\ outcome[h] # "none" BY <1>1, <1>2, <1>3 DEF OneCopy
<1>5. runs' = [runs EXCEPT ![h] = 1]
  <2>1. runs' = [runs EXCEPT ![h] = runs[h] + 1] BY <1>1 DEF Take
  <2> QED BY <1>4, <2>1
<1> HIDE DEF h
<1>6. \A d \in Conn : ~In(h, down'[d]) BY <1>1, <1>2, <1>3 DEF OneCopy, Line
<1>7. \A d \in Conn, m \in Msg : In(m, down'[d]) => m # h /\ In(m, down[d])
  BY <1>1, <1>2, <1>6
<1> QED BY <1>1, <1>2, <1>3, <1>4, <1>5, <1>7

LEMMA WorkerCopies ==
  ASSUME TypeOK, AckOnce, OneCopy, WorkerStep \/ Crash
  PROVE  OneCopy'
<1> USE DEF mainVars, callVars
<1>1. /\ \A m \in Msg : m \in Line
      /\ wphase \notin {"dead", "idle"} => wconn \in Conn
      /\ \A c \in Conn : Once(down[c])
  BY Names DEF Line, TypeOK, OneCopy
<1>2. CASE Respawn \/ Load \/ Crash \/ (\E k \in {"result", "error"} : Reply(k))
  <2>1. /\ runs' = runs /\ (wmsg' = wmsg \/ wmsg' = None)
        /\ down' = down /\ outcome' = outcome
    BY <1>2 DEF Respawn, Load, Crash, Reply, Dies, wireVars
  <2> QED BY <1>1, <2>1, CopiesDwindle
<1>3. ASSUME NEW c \in Conn, Connect(c) PROVE OneCopy'
  <2>1. /\ down'[c] = <<>> /\ \A d \in Conn : d # c => down'[d] = down[d]
        /\ runs' = runs /\ wmsg' = wmsg /\ outcome' = outcome
    BY <1>3 DEF Connect, TypeOK
  <2>2. Once(<<>>) /\ \A x : ~In(x, <<>>) BY DEF In, Once
  <2> QED BY <1>1, <2>1, <2>2, CopiesDwindle
<1>4. CASE WorkerHandshake
  <2>1. wconn \in Conn /\ runs' = runs /\ wmsg' = wmsg /\ outcome' = outcome
    BY <1>1, <1>4 DEF WorkerHandshake
  <2>2. /\ \A d \in Conn : Once(down'[d])
        /\ \A d \in Conn, m \in Msg : In(m, down'[d]) => In(m, down[d])
    BY <1>1, <1>4, <2>1, HeadTaken DEF WorkerHandshake
  <2> QED BY <2>1, <2>2, CopiesDwindle
<1>5. CASE Take
  <2>1. outcome' = outcome BY <1>5 DEF Take
  <2>2. /\ wmsg' \in Msg /\ runs[wmsg'] = 0 /\ outcome[wmsg'] # "none"
        /\ runs'[wmsg'] = 1 /\ \A m \in Msg : m # wmsg' => runs'[m] = runs[m]
        /\ \A d \in Conn : Once(down'[d])
        /\ \A d \in Conn, m \in Msg : In(m, down'[d]) => m # wmsg' /\ In(m, down[d])
    BY <1>5, Taken DEF TypeOK
  <2> QED BY <2>1, <2>2 DEF OneCopy
<1> QED BY <1>2, <1>3, <1>4, <1>5 DEF WorkerStep

LEMMA RequestCopies ==
  ASSUME TypeOK, OneCopy, NEW m \in Msg, Request(m)
  PROVE  OneCopy'
<1>1. /\ outcome[m] = "none" /\ outcome'[m] # "none" /\ runs' = runs /\ wmsg' = wmsg
      /\ \A k \in Msg : k # m => outcome'[k] = outcome[k]
  BY DEF Request, workerVars, TypeOK
<1>2. \A d \in Conn : ~In(m, down[d]) BY <1>1 DEF OneCopy
<1>3. CASE down' = down BY <1>1, <1>3 DEF OneCopy
<1>4. CASE writer # None /\ down' = [down EXCEPT ![writer] = Append(@, m)]
  <2>1. writer \in Conn /\ m \in Line /\ \A k \in Msg : k \in Line BY <1>4 DEF TypeOK, Line
  <2>2. /\ \A d \in Conn : Once(down'[d])
        /\ \A d \in Conn, k \in Msg :
             In(k, down'[d]) => In(k, down[d]) \/ (k = m /\ d = writer)
    BY <1>2, <1>4, <2>1, LineWritten DEF OneCopy
  <2>3. runs[m] = 0 BY <1>1 DEF OneCopy
  <2> QED BY <1>1, <1>2, <2>2, <2>3 DEF OneCopy
<1> QED BY <1>3, <1>4 DEF Request

LEMMA NextCopies == TypeOK /\ AckOnce /\ FuturesKept /\ OneCopy /\ [Next]_vars => OneCopy'
<1> SUFFICES ASSUME TypeOK, AckOnce, FuturesKept, OneCopy, [Next]_vars PROVE OneCopy'
  OBVIOUS
<1>1. ASSUME down' = down, runs' = runs, wmsg' = wmsg \/ wmsg' = None,
             \A m \in Msg : outcome[m] # "none" => outcome'[m] # "none"
      PROVE  OneCopy'
  <2>1. \A c \in Conn : Once(down[c]) BY DEF OneCopy
  <2> QED BY <1>1, <2>1, CopiesDwindle
<1>2. CASE WorkerStep \/ Crash BY <1>2, WorkerCopies
<1>3. ASSUME NEW c \in Conn, HandlerStep(c) PROVE OneCopy'
  <2>1. runs' = runs /\ wmsg' = wmsg /\ outcome' = outcome
    BY <1>3 DEF HandlerStep, Accept, HandshakeOk, HandshakeFails, Read, HandlerEnds,
                callVars, workerVars
  <2>2. CASE HandshakeOk(c)
    <3>1. /\ ~In("ack", down[c]) /\ "ack" \in Line /\ "ack" \notin Msg
          /\ \A m \in Msg : m \in Line
      BY <2>2, Names DEF HandshakeOk, AckOnce, Line
    <3>2. down' = [down EXCEPT ![c] = Append(@, "ack")] /\ \A d \in Conn : Once(down[d])
      BY <2>2 DEF HandshakeOk, OneCopy
    <3>3. /\ \A d \in Conn : Once(down'[d])
          /\ \A d \in Conn, y \in Line : In(y, down'[d]) => In(y, down[d]) \/ y = "ack"
      BY <3>1, <3>2, LineWritten
    <3>4. \A d \in Conn, m \in Msg : In(m, down'[d]) => In(m, down[d]) BY <3>1, <3>3
    <3> QED BY <2>1, <3>3, <3>4, CopiesDwindle
  <2>3. CASE Accept(c) \/ HandshakeFails(c) \/ Read(c) \/ HandlerEnds(c)
    BY <1>1, <2>1, <2>3 DEF Accept, HandshakeFails, Read, HandlerEnds, wireVars
  <2> QED BY <1>3, <2>2, <2>3 DEF HandlerStep
<1>4. ASSUME NEW m \in Msg, CallerStep(m) PROVE OneCopy'
  <2>1. /\ down' = down /\ runs' = runs /\ wmsg' = wmsg /\ outcome'[m] # "none"
        /\ \A k \in Msg : k # m => outcome'[k] = outcome[k]
    <3>1. CASE Return(m)
      <4>1. fut[m] # "none" BY <3>1 DEF Return, FuturesKept
      <4> QED BY <3>1, <4>1 DEF Return, TypeOK, wireVars, workerVars
    <3>2. CASE Timeout(m) BY <3>2 DEF Timeout, TypeOK, wireVars, workerVars
    <3> QED BY <1>4, <3>1, <3>2 DEF CallerStep
  <2> QED BY <1>1, <2>1
<1>5. ASSUME NEW m \in Msg, CallPower(m) PROVE OneCopy' BY <1>5, RequestCopies DEF CallPower
<1>6. CASE SpawnStep
  <2>1. ASSUME NEW l \in Llming, Activate(l) PROVE OneCopy'
    BY <2>1, RequestCopies DEF Activate, Msg
  <2> QED
    BY <1>1, <1>6, <2>1 DEF SpawnStep, StartReturns, WaitReady, Registered, SpawnFails,
                            callVars, wireVars, workerVars
<1>7. CASE Stop BY <1>1, <1>7 DEF Stop, Dies, callVars
<1>8. CASE UNCHANGED vars BY <1>1, <1>8 DEF vars, callVars, wireVars, workerVars
<1> QED BY <1>2, <1>3, <1>4, <1>5, <1>6, <1>7, <1>8 DEF Next

-----------------------------------------------------------------------------
(* Answers                                                                 *)

\* A step that takes back no run, and writes and settles nothing unearned.
LEMMA EarningsKept ==
  ASSUME AnswersEarned, \A m \in Msg : runs[m] = 1 => runs'[m] = 1,
         \A c \in Conn, n \in Note : In(n, up'[c]) => In(n, up[c]) \/ Earned(n),
         \A m \in Msg : fut'[m] \in {"result", "error"} => fut'[m] = fut[m] \/ runs[m] = 1
  PROVE  AnswersEarned'
<1>1. \A n \in Note : n # Ready => n.id \in Msg BY DEF Note, Answers
<1>2. ASSUME NEW c \in Conn, NEW n \in Note, In(n, up'[c]), n # Ready PROVE runs'[n.id] = 1
  BY <1>1, <1>2 DEF AnswersEarned, Earned
<1>3. ASSUME NEW m \in Msg, fut'[m] \in {"result", "error"} PROVE runs'[m] = 1
  BY <1>3 DEF AnswersEarned
<1> QED BY <1>2, <1>3 DEF AnswersEarned, Earned

\* The subprocess answers what it has taken.
LEMMA WorkerEarnings ==
  ASSUME TypeOK, AckOnce, OneCopy, AnswersEarned, WorkerStep \/ Crash
  PROVE  AnswersEarned'
<1> USE DEF mainVars, callVars
<1>1. fut' = fut
  BY DEF WorkerStep, Respawn, Connect, WorkerHandshake, Load, Take, Reply, Crash
<1>2. ASSUME runs' = runs, up' = up PROVE AnswersEarned' BY <1>1, <1>2, EarningsKept
<1>3. CASE Respawn \/ WorkerHandshake \/ Crash
  BY <1>2, <1>3 DEF Respawn, WorkerHandshake, Crash, wireVars
<1>4. ASSUME NEW c \in Conn, Connect(c) PROVE AnswersEarned'
  <2>1. /\ up'[c] = <<>> /\ \A d \in Conn : d # c => up'[d] = up[d]
        /\ runs' = runs
    BY <1>4 DEF Connect, TypeOK
  <2>2. \A x : ~In(x, <<>>) BY DEF In
  <2> QED BY <1>1, <2>1, <2>2, EarningsKept
<1>5. CASE Take
  <2>1. \A m \in Msg : runs[m] = 1 => runs'[m] = 1 BY <1>5, Taken DEF TypeOK
  <2>2. up' = up BY <1>5 DEF Take
  <2> QED BY <1>1, <2>1, <2>2, EarningsKept
<1>6. ASSUME NEW n \in Note, Earned(n), up' = [up EXCEPT ![wconn] = Append(@, n)],
             wconn \in Conn, runs' = runs
      PROVE  AnswersEarned'
  <2>1. up[wconn] \in Seq(Note) BY <1>6, WireTypes
  <2>2. up'[wconn] = Append(up[wconn], n) /\ \A d \in Conn : d # wconn => up'[d] = up[d]
    BY <1>6 DEF TypeOK
  <2>3. \A y : In(y, Append(up[wconn], n)) <=> In(y, up[wconn]) \/ y = n
    BY <2>1, AppendIn
  <2>4. \A d \in Conn, y \in Note : In(y, up'[d]) => In(y, up[d]) \/ Earned(y)
    BY <1>6, <2>2, <2>3
  <2> QED BY <1>1, <1>6, <2>4, EarningsKept
<1>7. CASE Load
  <2>1. Ready \in Note /\ Earned(Ready) /\ wconn \in Conn
    BY <1>7 DEF Note, Earned, Load, TypeOK
  <2> QED BY <1>6, <1>7, <2>1 DEF Load
<1>8. ASSUME NEW k \in {"result", "error"}, Reply(k) PROVE AnswersEarned'
  <2> DEFINE n == [kind |-> k, id |-> wmsg]
  <2>1. wconn \in Conn /\ wmsg \in Msg BY <1>8 DEF Reply, TypeOK
  <2>2. runs[wmsg] = 1 BY <2>1, Names DEF OneCopy
  <2>3. n \in Note /\ n.id = wmsg BY <2>1 DEF Note, Answers
  <2>4. up' = [up EXCEPT ![wconn] = Append(@, n)] /\ runs' = runs BY <1>8 DEF Reply
  <2> HIDE DEF n
  <2>5. Earned(n) BY <2>2, <2>3 DEF Earned
  <2> QED BY <1>6, <2>1, <2>3, <2>4, <2>5
<1> QED BY <1>3, <1>4, <1>5, <1>7, <1>8 DEF WorkerStep

\* What a handler's step does to the futures and to the answers under way.
LEMMA HandlerSettles ==
  ASSUME TypeOK, AnswersEarned, FuturesKept, NEW c \in Conn, HandlerStep(c)
  PROVE  /\ runs' = runs
         /\ \A d \in Conn, n \in Note : In(n, up'[d]) => In(n, up[d])
         /\ \A m \in Msg : \/ fut'[m] = fut[m]
                           \/ /\ fut[m] = "pending"
                              /\ fut'[m] = "lost" \/ (fut'[m] \in {"result", "error"} /\ runs[m] = 1)
<1> USE DEF callVars, wireVars, workerVars
<1>1. CASE Accept(c) \/ HandshakeOk(c) \/ HandshakeFails(c)
  BY <1>1 DEF Accept, HandshakeOk, HandshakeFails
<1>2. CASE Read(c)
  <2> DEFINE n == Head(up[c])
  <2>1. /\ n \in Note /\ In(n, up[c])
        /\ \A x \in Note : In(x, Tail(up[c])) => In(x, up[c])
    BY <1>2, WireTypes, TailIn DEF Read
  <2>2. runs' = runs /\ up'[c] = Tail(up[c]) /\ \A d \in Conn : d # c => up'[d] = up[d]
    BY <1>2 DEF Read, TypeOK
  <2>3. ASSUME NEW m \in Msg
        PROVE  \/ Settled(n)[m] = fut[m]
               \/ fut[m] = "pending" /\ Settled(n)[m] \in {"result", "error"} /\ runs[m] = 1
    <3>1. Earned(n) BY <2>1 DEF AnswersEarned
    <3> HIDE DEF n
    <3> QED BY <2>1, <3>1, SettledChanges DEF Earned
  <2>4. \/ fut' = Settled(n)
        \/ fut' = [m \in Msg |-> IF m \in pending /\ Settled(n)[m] = "pending"
                                 THEN "lost" ELSE Settled(n)[m]]
    BY <1>2 DEF Read, End
  <2> HIDE DEF n
  <2>5. \A d \in Conn, x \in Note : In(x, up'[d]) => In(x, up[d]) BY <2>1, <2>2
  <2>6. \A m \in Msg : \/ fut'[m] = fut[m]
                       \/ /\ fut[m] = "pending"
                          /\ fut'[m] = "lost" \/ (fut'[m] \in {"result", "error"} /\ runs[m] = 1)
    BY <2>3, <2>4
  <2> QED BY <2>2, <2>5, <2>6
<1>3. CASE HandlerEnds(c)
  <2>1. /\ runs' = runs /\ up' = up
        /\ fut' = [m \in Msg |-> IF m \in pending /\ fut[m] = "pending" THEN "lost" ELSE fut[m]]
    BY <1>3 DEF HandlerEnds, End
  <2> QED BY <2>1
<1> QED BY <1>1, <1>2, <1>3 DEF HandlerStep

\* What a caller's step, a request or a return, does to its future.
LEMMA CallerSettles ==
  ASSUME TypeOK, FuturesKept, NEW m \in Msg, Request(m) \/ CallerStep(m)
  PROVE  /\ runs' = runs /\ up' = up
         /\ \A k \in Msg : \/ fut'[k] = fut[k]
                           \/ fut[k] \in {"none", "pending"} /\ fut'[k] \in {"pending", "cancelled"}
<1>1. CASE Request(m)
  <2>1. outcome[m] = "none" /\ runs' = runs /\ up' = up /\ fut \in [Msg -> Futures]
    BY <1>1 DEF Request, workerVars, TypeOK
  <2>2. fut[m] = "none" BY <2>1 DEF FuturesKept
  <2>3. fut' = [fut EXCEPT ![m] = "pending"] \/ fut' = fut BY <1>1 DEF Request
  <2> QED BY <2>1, <2>2, <2>3
<1>2. CASE Return(m) BY <1>2 DEF Return, workerVars, wireVars
<1>3. CASE Timeout(m) BY <1>3 DEF Timeout, workerVars, wireVars, TypeOK
<1> QED BY <1>1, <1>2, <1>3 DEF CallerStep

\* A step of nobody who has to do with requests.
LEMMA Bystanders ==
  ASSUME StartReturns \/ WaitReady \/ Registered \/ SpawnFails \/ Stop \/ UNCHANGED vars
  PROVE  UNCHANGED <<callVars, up, runs>>
BY DEF StartReturns, WaitReady, Registered, SpawnFails, Stop, vars, callVars, wireVars, workerVars

LEMMA NextEarnings == Inv /\ [Next]_vars => AnswersEarned'
<1> SUFFICES ASSUME Inv, [Next]_vars PROVE AnswersEarned'
  OBVIOUS
<1> USE DEF Inv
<1>1. ASSUME NEW m \in Msg, Request(m) \/ CallerStep(m) PROVE AnswersEarned'
  <2>1. /\ runs' = runs /\ up' = up
        /\ \A k \in Msg : fut'[k] \in {"result", "error"} => fut'[k] = fut[k]
    BY <1>1, CallerSettles
  <2> QED BY <2>1, EarningsKept
<1>2. CASE WorkerStep \/ Crash BY <1>2, WorkerEarnings
<1>3. ASSUME NEW c \in Conn, HandlerStep(c) PROVE AnswersEarned'
  <2>1. /\ runs' = runs
        /\ \A d \in Conn, n \in Note : In(n, up'[d]) => In(n, up[d])
        /\ \A m \in Msg : fut'[m] \in {"result", "error"} => fut'[m] = fut[m] \/ runs[m] = 1
    BY <1>3, HandlerSettles
  <2> QED BY <2>1, EarningsKept
<1>4. ASSUME NEW m \in Msg, CallPower(m) \/ CallerStep(m) PROVE AnswersEarned'
  BY <1>1, <1>4 DEF CallPower
<1>5. ASSUME NEW l \in Llming, Activate(l) PROVE AnswersEarned'
  BY <1>1, <1>5 DEF Activate, Msg
<1>6. CASE StartReturns \/ WaitReady \/ Registered \/ SpawnFails \/ Stop \/ UNCHANGED vars
  BY <1>6, Bystanders, EarningsKept DEF callVars
<1> QED BY <1>2, <1>3, <1>4, <1>5, <1>6 DEF Next, SpawnStep

-----------------------------------------------------------------------------
(* The invariant                                                           *)

LEMMA InitInv == Init => Inv
<1> SUFFICES ASSUME Init PROVE Inv
  OBVIOUS
<1>1. TypeOK BY InitTyped
<1>2. \A x : ~In(x, <<>>) BY DEF In
<1>3. Once(<<>>) BY DEF Once
<1>4. \A c \in Conn : down[c] = <<>> /\ up[c] = <<>> /\ hpc[c] = "none" BY DEF Init
<1>5. \A m \in Msg : fut[m] = "none" /\ outcome[m] = "none" /\ runs[m] = 0 BY DEF Init
<1>6. writer = None /\ wmsg = None /\ wphase \notin Up BY DEF Init, Up
<1>7. AckOnce BY <1>2, <1>4, <1>6 DEF AckOnce
<1>8. FuturesKept /\ DisconnectReleasesCallers
  BY <1>5, <1>6 DEF FuturesKept, DisconnectReleasesCallers
<1>9. OneCopy BY <1>2, <1>3, <1>4, <1>5, <1>6 DEF OneCopy
<1>10. AnswersEarned BY <1>2, <1>4, <1>5 DEF AnswersEarned
<1> QED BY <1>1, <1>7, <1>8, <1>9, <1>10 DEF Inv

LEMMA NextKeeps == Inv /\ [Next]_vars => Inv'
BY NextTyped, NextAck, NextCallers, NextCopies, NextEarnings DEF Inv, CallerInv

\* request() and the handlers of the connections leave every variable with a
\* value of its type, and a subprocess that is past connecting with a
\* connection, whatever the number of llmings, calls, connections and crashes.
THEOREM GroupTyped == Spec => []TypeOK
<1>1. Inv => TypeOK BY DEF Inv
<1> QED BY <1>1, InitInv, NextKeeps, PTL DEF Spec

-----------------------------------------------------------------------------
(* Released once                                                           *)

\* No step changes a future that is settled.
LEMMA StepSettlesOnce ==
  Inv /\ [Next]_vars => [\A m \in Msg : fut[m] \notin {"none", "pending"} => fut'[m] = fut[m]]_vars
<1> SUFFICES ASSUME Inv, Next, NEW m \in Msg, fut[m] \notin {"none", "pending"}
             PROVE  fut'[m] = fut[m]
  OBVIOUS
<1> USE DEF Inv
<1>1. ASSUME NEW k \in Msg, Request(k) \/ CallerStep(k) PROVE fut'[m] = fut[m]
  BY <1>1, CallerSettles
<1>2. CASE WorkerStep \/ Crash
  BY <1>2 DEF WorkerStep, Respawn, Connect, WorkerHandshake, Load, Take, Reply, Crash, callVars
<1>3. ASSUME NEW c \in Conn, HandlerStep(c) PROVE fut'[m] = fut[m] BY <1>3, HandlerSettles
<1>4. ASSUME NEW k \in Msg, CallPower(k) \/ CallerStep(k) PROVE fut'[m] = fut[m]
  BY <1>1, <1>4 DEF CallPower
<1>5. ASSUME NEW l \in Llming, Activate(l) PROVE fut'[m] = fut[m]
  BY <1>1, <1>5 DEF Activate, Msg
<1>6. CASE StartReturns \/ WaitReady \/ Registered \/ SpawnFails \/ Stop
  BY <1>6, Bystanders DEF callVars
<1> QED BY <1>2, <1>3, <1>4, <1>5, <1>6 DEF Next, SpawnStep

\* Whoever waits for an answer when the handler of the connection ends is
\* released, and is told one thing: no answer, disconnection or timeout that
\* comes later touches a settled future.
THEOREM CallersAreReleasedOnce == Spec => CallersReleasedOnce
<1>1. Inv => DisconnectReleasesCallers BY DEF Inv
<1> QED
  BY <1>1, InitInv, NextKeeps, StepSettlesOnce, PTL DEF Spec, CallersReleasedOnce, SettledOnce

-----------------------------------------------------------------------------
(* The implementation of at-most-once calls                                *)

Told == [m \in Msg |-> Status(m)]

\* A step that changes what one request has come to, as its caller sees it.
LEMMA ToldChanges ==
  ASSUME NEW m \in Msg, NEW o, outcome \in [Msg -> Outcomes],
         outcome' = [outcome EXCEPT ![m] = o]
  PROVE  /\ o = "waiting" => Told' = [Told EXCEPT ![m] = "waiting"]
         /\ o \in {"result", "error"} => Told' = [Told EXCEPT ![m] = "answered"]
         /\ o \in {"lost", "timeout", "refused"} => Told' = [Told EXCEPT ![m] = "failed"]
<1>1. outcome'[m] = o /\ \A k \in Msg : k # m => outcome'[k] = outcome[k] OBVIOUS
<1>2. \A k \in Msg : k # m => Status(k)' = Status(k) BY <1>1 DEF Status
<1>3. o = "waiting" => Status(m)' = "waiting" BY <1>1 DEF Status
<1>4. o \in {"result", "error"} => Status(m)' = "answered" BY <1>1 DEF Status
<1>5. o \in {"lost", "timeout", "refused"} => Status(m)' = "failed" BY <1>1 DEF Status
<1> QED BY <1>2, <1>3, <1>4, <1>5 DEF Told

\* A request is issued or refused.
LEMMA RequestImplements ==
  ASSUME Inv, NEW m \in Msg, Request(m)
  PROVE  Abstract!NextCalls
<1>1. outcome \in [Msg -> Outcomes] /\ outcome[m] = "none" /\ runs' = runs
  BY DEF Inv, TypeOK, Request, workerVars
<1>2. Told[m] = "idle" BY <1>1 DEF Told, Status
<1>3. CASE outcome' = [outcome EXCEPT ![m] = "waiting"]
  <2>1. Told' = [Told EXCEPT ![m] = "waiting"] BY <1>1, <1>3, ToldChanges
  <2>2. Abstract!Issue(m) BY <1>1, <1>2, <2>1 DEF Abstract!Issue, Told
  <2> QED BY <2>2 DEF Abstract!NextCalls
<1>4. CASE outcome' = [outcome EXCEPT ![m] = "refused"]
  <2>1. Told' = [Told EXCEPT ![m] = "failed"] BY <1>1, <1>4, ToldChanges
  <2>2. Abstract!Refuse(m) BY <1>1, <1>2, <2>1 DEF Abstract!Refuse, Told
  <2> QED BY <2>2 DEF Abstract!NextCalls
<1> QED BY <1>3, <1>4 DEF Request

\* A caller is answered, which its message has earned, or hears of a failure.
LEMMA CallerImplements ==
  ASSUME Inv, NEW m \in Msg, CallerStep(m)
  PROVE  Abstract!NextCalls
<1>1. outcome \in [Msg -> Outcomes] /\ outcome[m] = "waiting" /\ runs' = runs
  BY DEF Inv, TypeOK, CallerStep, Return, Timeout, workerVars
<1>2. Told[m] = "waiting" BY <1>1 DEF Told, Status
<1>3. ASSUME NEW o \in {"lost", "timeout"}, outcome' = [outcome EXCEPT ![m] = o]
      PROVE  Abstract!NextCalls
  <2>1. Told' = [Told EXCEPT ![m] = "failed"] BY <1>1, <1>3, ToldChanges
  <2>2. Abstract!Fail(m) BY <1>1, <1>2, <2>1 DEF Abstract!Fail, Told
  <2> QED BY <2>2 DEF Abstract!NextCalls
<1>4. CASE Return(m)
  <2>1. fut[m] \in {"result", "error", "lost"} /\ outcome' = [outcome EXCEPT ![m] = fut[m]]
    BY <1>1, <1>4 DEF Return, Inv, FuturesKept
  <2>2. CASE fut[m] \in {"result", "error"}
    <3>1. runs[m] = 1 BY <2>2 DEF Inv, AnswersEarned
    <3>2. Told' = [Told EXCEPT ![m] = "answered"] BY <1>1, <2>1, <2>2, ToldChanges
    <3>3. Abstract!Answer(m) BY <1>1, <1>2, <3>1, <3>2 DEF Abstract!Answer, Told
    <3> QED BY <3>3 DEF Abstract!NextCalls
  <2> QED BY <1>3, <2>1, <2>2
<1>5. CASE Timeout(m) BY <1>3, <1>5 DEF Timeout
<1> QED BY <1>4, <1>5 DEF CallerStep

\* The subprocess runs a message it takes; nothing else it does is seen.
LEMMA WorkerImplements ==
  ASSUME Inv, WorkerStep \/ Crash
  PROVE  Abstract!NextCalls \/ UNCHANGED <<Told, runs>>
<1>1. outcome' = outcome
  BY DEF WorkerStep, Respawn, Connect, WorkerHandshake, Load, Take, Reply, Crash, callVars
<1>2. Told' = Told BY <1>1 DEF Told, Status
<1>3. CASE Take
  <2> DEFINE m == wmsg'
  <2>1. /\ m \in Msg /\ runs[m] = 0 /\ outcome[m] # "none"
        /\ runs' = [runs EXCEPT ![m] = 1]
    BY <1>3, Taken DEF Inv
  <2>2. Told[m] # "idle"
    <3> HIDE DEF m
    <3> QED BY <2>1 DEF Told, Status
  <2>3. Abstract!Run(m) BY <1>2, <2>1, <2>2 DEF Abstract!Run, Told
  <2> QED BY <2>1, <2>3 DEF Abstract!NextCalls
<1>4. CASE ~Take
  <2>1. runs' = runs
    BY <1>4 DEF WorkerStep, Respawn, Connect, WorkerHandshake, Load, Reply, Crash
  <2> QED BY <1>2, <2>1
<1> QED BY <1>3, <1>4

LEMMA NextImplements == Inv /\ [Next]_vars => [Abstract!NextCalls]_<<Told, runs>>
<1> SUFFICES ASSUME Inv, [Next]_vars
             PROVE  Abstract!NextCalls \/ UNCHANGED <<Told, runs>>
  OBVIOUS
<1>1. ASSUME UNCHANGED <<outcome, runs>> PROVE UNCHANGED <<Told, runs>>
  BY <1>1 DEF Told, Status
<1>2. CASE WorkerStep \/ Crash BY <1>2, WorkerImplements
<1>3. ASSUME NEW c \in Conn, HandlerStep(c) PROVE UNCHANGED <<Told, runs>>
  BY <1>1, <1>3 DEF HandlerStep, Accept, HandshakeOk, HandshakeFails, Read, HandlerEnds,
                    callVars, workerVars
<1>4. ASSUME NEW m \in Msg, CallPower(m) \/ CallerStep(m) PROVE Abstract!NextCalls
  BY <1>4, RequestImplements, CallerImplements DEF CallPower
<1>5. ASSUME NEW l \in Llming, Activate(l) PROVE Abstract!NextCalls
  BY <1>5, RequestImplements DEF Activate, Msg
<1>6. CASE StartReturns \/ WaitReady \/ Registered \/ SpawnFails \/ Stop \/ UNCHANGED vars
  BY <1>1, <1>6, Bystanders DEF callVars
<1> QED BY <1>2, <1>3, <1>4, <1>5, <1>6 DEF Next, SpawnStep

\* A message is worked on at most once, whatever becomes of the connection it
\* went out on and of the subprocess; its caller hears one outcome; and a
\* result or an error means that the subprocess has begun to work on it.
THEOREM CallsAreAtMostOnce == Spec => AtMostOnce
<1>1. Init => Abstract!InitCalls
  BY DEF Init, Abstract!InitCalls, Status
<1>2. Inv /\ [Next]_vars => [Abstract!NextCalls]_<<Told, runs>> BY NextImplements
<1> QED
  BY <1>1, <1>2, InitInv, NextKeeps, PTL DEF Spec, AtMostOnce, Abstract!Calls, Told

===============================================================================
