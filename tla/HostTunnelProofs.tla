-------------------------- MODULE HostTunnelProofs --------------------------
(***************************************************************************)
(* Requests through a host's tunnels are at-most-once calls of the host's  *)
(* local server, and a chunked answer is handed over whole, for any number *)
(* of requests, connections, chunks and cuts.                              *)
(***************************************************************************)
EXTENDS HostTunnel, QueueLemmas, FiniteSetTheorems

-----------------------------------------------------------------------------
(* The inductive invariant                                                 *)

Handled(r) == work[r].state # "none"
Issued(r)  == caller[r] \notin {"idle", "body", "refused"}

\* A future that is open belongs to a caller that waits, and is known to its
\* tunnel; only a running tunnel has tasks; what has been picked was running.
PendingKept ==
  /\ \A r \in Req : fut[r] = "pending" => caller[r] = "waiting" /\ r \in pending[via[r]]
  /\ \A r \in Req : caller[r] = "waiting"
                    => fut[r] \in {"pending", "answer", "error", "torn", "lost"}
  /\ \A t \in Conn : tun[t] # "running" => tasks[t] = {}
  /\ \A r \in Req : caller[r] \in {"body", "waiting"} => tun[via[r]] \in {"running", "ended"}

\* There is one copy of a request: in the queue of its tunnel, on the wire, or
\* in the client's hands, which is when the local server is asked.
OneCopy ==
  /\ \A t \in Conn : Once(queue[t]) /\ Once(down[t])
  /\ \A t \in Conn, r \in Req : In(r, queue[t]) \/ In(r, down[t])
                                => via[r] = t /\ ~Handled(r) /\ Issued(r)
  /\ \A t \in Conn, r \in Req : ~(In(r, queue[t]) /\ In(r, down[t]))
  /\ \A r \in Req : Handled(r) => Issued(r)
  /\ \A r \in Req : runs[r] = IF Handled(r) THEN 1 ELSE 0

\* Whatever is under way to the server, or has reached a future, is about a
\* request that the client has dealt with.
AnswersEarned ==
  /\ \A t \in Conn : \A i \in DOMAIN up[t] : Handled(up[t][i].req)
  /\ \A r \in Req : fut[r] \in {"answer", "error", "torn"} => Handled(r)

-----------------------------------------------------------------------------
(* Types                                                                   *)

WorkRec == [state : {"none", "local", "sending", "done"}, conn : Conn \cup {None},
            total : 0..MaxTotal, next : 0..MaxTotal]
ChunkRec == [total : 0..MaxTotal, got : SUBSET (0..MaxTotal)]

LEMMA Bounds == MaxTotal \in Nat \ {0} /\ MaxCuts \in Nat /\ None \notin Conn
  BY HostTunnelAssumption

LEMMA InitTyped == Init => TypeOK
<1> SUFFICES ASSUME Init PROVE TypeOK
  OBVIOUS
<1>1. chunked \in [Conn -> [Req -> ChunkRec]] BY Bounds DEF Init, Absent, ChunkRec
<1>2. work \in [Req -> WorkRec] BY Bounds DEF Init, NoWork, WorkRec
<1>3. <<>> \in Seq(Req) /\ <<>> \in Seq(Message) OBVIOUS
<1>4. \A r \in Req : work[r].state = "none" BY DEF Init, NoWork
<1>5. 0 \in 0..MaxCuts /\ 0 \in Nat BY Bounds
<1>6. /\ queue \in [Conn -> Seq(Req)] /\ down \in [Conn -> Seq(Req)]
      /\ up \in [Conn -> Seq(Message)] /\ pending \in [Conn -> SUBSET Req]
      /\ runs \in [Req -> Nat] /\ cuts \in 0..MaxCuts
  BY <1>3, <1>5 DEF Init
<1>7. /\ registered \in Conn \cup {None} /\ client \in Conn \cup {None}
      /\ tun \in [Conn -> {"unused", "accepted", "running", "ended"}]
      /\ tasks \in [Conn -> SUBSET {"reader", "writer"}]
      /\ caller \in [Req -> Callers] /\ via \in [Req -> Conn \cup {None}]
      /\ fut \in [Req -> Futures]
      /\ srvOpen \in [Conn -> BOOLEAN] /\ hostOpen \in [Conn -> BOOLEAN]
      /\ cut \in [Conn -> BOOLEAN]
      /\ \A r \in Req : caller[r] \notin {"body", "waiting"}
  BY DEF Init, Callers, Futures
<1> QED BY <1>1, <1>2, <1>4, <1>6, <1>7 DEF TypeOK, ChunkRec, WorkRec

\* What is written is well typed, arrived or not.
LEMMA ArrivesTyped ==
  ASSUME NEW S, NEW wire \in [Conn -> Seq(S)], NEW t \in Conn, NEW openEnd,
         NEW msgs \in Seq(S)
  PROVE  Arrives(t, wire, openEnd, msgs) \in [Conn -> Seq(S)]
<1>1. wire[t] \o msgs \in Seq(S) OBVIOUS
<1> QED BY <1>1 DEF Arrives

LEMMA CallerStepTyped ==
  ASSUME TypeOK, PendingKept, NEW r \in Req, CallerStep(r)
  PROVE  TypeOK'
<1>1. CASE Pick(r)
  <2>1. caller' \in [Req -> Callers]
    <3>1. "refused" \in Callers /\ "body" \in Callers BY DEF Callers
    <3>2. \/ caller' = [caller EXCEPT ![r] = "refused"]
          \/ caller' = [caller EXCEPT ![r] = "body"]
      BY <1>1 DEF Pick
    <3>3. caller \in [Req -> Callers] BY DEF TypeOK
    <3> QED BY <3>1, <3>2, <3>3
  <2>2. via' \in [Req -> Conn \cup {None}] BY <1>1 DEF Pick, TypeOK
  <2>3. \A q \in Req : caller'[q] \in {"body", "waiting"} => via'[q] # None
    BY <1>1 DEF Pick, TypeOK
  <2> QED BY <1>1, <2>1, <2>2, <2>3 DEF Pick, TypeOK, serverVars, hostVars, wireVars
<1>2. CASE Issue(r)
  <2>1. via[r] \in Conn BY <1>2 DEF Issue, TypeOK
  <2>2. Append(queue[via[r]], r) \in Seq(Req) BY <2>1 DEF TypeOK
  <2>3. queue' \in [Conn -> Seq(Req)] BY <1>2, <2>2 DEF Issue, TypeOK
  <2>4. pending' \in [Conn -> SUBSET Req] BY <1>2 DEF Issue, TypeOK
  <2>5. caller' \in [Req -> Callers] /\ fut' \in [Req -> Futures]
    BY <1>2 DEF Issue, TypeOK, Callers, Futures
  <2> QED BY <1>2, <2>1, <2>3, <2>4, <2>5 DEF Issue, TypeOK, hostVars, wireVars
<1>3. CASE Return(r)
  <2>1. fut[r] \in Callers \ {"body", "waiting"} BY <1>3 DEF Return, PendingKept, Callers
  <2>2. pending' \in [Conn -> SUBSET Req] BY <1>3 DEF Return, TypeOK
  <2> QED BY <1>3, <2>1, <2>2 DEF Return, TypeOK, hostVars, wireVars
<1>4. CASE Timeout(r)
  <2>1. pending' \in [Conn -> SUBSET Req] BY <1>4 DEF Timeout, TypeOK
  <2> QED BY <1>4, <2>1 DEF Timeout, TypeOK, Callers, Futures, hostVars, wireVars
<1> QED BY <1>1, <1>2, <1>3, <1>4 DEF CallerStep

LEMMA ReadTyped ==
  ASSUME TypeOK, NEW t \in Conn, Read(t)
  PROVE  TypeOK'
<1> DEFINE m == Head(up[t])
<1>1. m \in Message /\ Tail(up[t]) \in Seq(Message)
  <2>1. up[t] \in Seq(Message) /\ up[t] # <<>> BY DEF Read, TypeOK
  <2> QED BY <2>1
<1>2. m.req \in Req /\ m.total \in 1..MaxTotal /\ m.index \in 0..MaxTotal
  BY <1>1 DEF Message
<1>3. Absent \in ChunkRec BY Bounds DEF Absent, ChunkRec
<1>4. Collected(t, m) \in ChunkRec
  <2>1. chunked[t][m.req] \in ChunkRec
    <3>1. chunked \in [Conn -> [Req -> ChunkRec]] BY DEF TypeOK, ChunkRec
    <3> HIDE DEF m
    <3> QED BY <1>2, <3>1
  <2>2. [total |-> m.total, got |-> {m.index}] \in ChunkRec BY <1>2, Bounds DEF ChunkRec
  <2>3. [chunked[t][m.req] EXCEPT !.got = @ \cup {m.index}] \in ChunkRec
    BY <1>2, <2>1 DEF ChunkRec
  <2> QED BY <1>3, <2>2, <2>3 DEF Collected
<1>5. chunked' \in [Conn -> [Req -> ChunkRec]]
  <2>1. chunked \in [Conn -> [Req -> ChunkRec]] BY DEF TypeOK, ChunkRec
  <2>2. \/ chunked' = chunked
        \/ chunked' = [chunked EXCEPT ![t][m.req] = Absent]
        \/ chunked' = [chunked EXCEPT ![t][m.req] = Collected(t, m)]
    BY DEF Read
  <2> HIDE DEF m
  <2> QED BY <1>2, <1>3, <1>4, <2>1, <2>2
<1>6. \A v \in {"answer", "error", "torn"} : Resolved(t, m.req, v) \in [Req -> Futures]
  BY <1>2 DEF Resolved, TypeOK, Futures
<1>7. fut' \in [Req -> Futures] BY <1>6 DEF Read, TypeOK
<1>8. up' \in [Conn -> Seq(Message)] BY <1>1 DEF Read, TypeOK
<1> QED BY <1>5, <1>7, <1>8 DEF Read, TypeOK, hostVars, ChunkRec

LEMMA ServerStepTyped ==
  ASSUME TypeOK, NEW t \in Conn, ServerStep(t)
  PROVE  TypeOK'
<1>1. CASE Register(t) BY <1>1 DEF Register, TypeOK, callerVars, hostVars, wireVars
<1>2. CASE RegisterFails(t) BY <1>2 DEF RegisterFails, TypeOK, callerVars, hostVars
<1>3. CASE Write(t)
  <2>1. queue[t] \in Seq(Req) /\ queue[t] # <<>> BY <1>3 DEF Write, TypeOK
  <2>2. Tail(queue[t]) \in Seq(Req) /\ <<Head(queue[t])>> \in Seq(Req) BY <2>1
  <2>3. down' \in [Conn -> Seq(Req)] BY <1>3, <2>2, ArrivesTyped DEF Write, TypeOK
  <2>4. queue' \in [Conn -> Seq(Req)] BY <1>3, <2>2 DEF Write, TypeOK
  <2> QED BY <1>3, <2>3, <2>4 DEF Write, TypeOK, callerVars, hostVars
<1>4. CASE WriteFails(t)
  <2>1. queue[t] \in Seq(Req) /\ queue[t] # <<>> BY <1>4 DEF WriteFails, TypeOK
  <2>2. Tail(queue[t]) \in Seq(Req) BY <2>1
  <2>3. queue' \in [Conn -> Seq(Req)] BY <1>4, <2>2 DEF WriteFails, TypeOK
  <2>4. tasks' \in [Conn -> SUBSET {"reader", "writer"}] BY <1>4 DEF WriteFails, TypeOK
  <2> QED BY <1>4, <2>3, <2>4 DEF WriteFails, TypeOK, callerVars, hostVars, wireVars
<1>5. CASE Read(t) BY <1>5, ReadTyped
<1>6. CASE ReadFails(t)
  <2>1. tasks' \in [Conn -> SUBSET {"reader", "writer"}] BY <1>6 DEF ReadFails, TypeOK
  <2> QED BY <1>6, <2>1 DEF ReadFails, TypeOK, callerVars, hostVars, wireVars
<1>7. CASE RunEnds(t)
  <2>1. tasks' \in [Conn -> SUBSET {"reader", "writer"}] /\ pending' \in [Conn -> SUBSET Req]
    BY <1>7 DEF RunEnds, TypeOK
  <2>2. fut' \in [Req -> Futures] BY <1>7 DEF RunEnds, TypeOK, Futures
  <2>3. <<>> \in Seq(Message) OBVIOUS
  <2>4. up' \in [Conn -> Seq(Message)] BY <1>7, <2>3 DEF RunEnds, TypeOK
  <2> QED BY <1>7, <2>1, <2>2, <2>4 DEF RunEnds, TypeOK, hostVars
<1> QED BY <1>1, <1>2, <1>3, <1>4, <1>5, <1>6, <1>7 DEF ServerStep

\* What a task of the client sends, given the messages and what becomes of it.
LEMMA SendUpTyped ==
  ASSUME TypeOK, NEW r \in Req, NEW msgs \in Seq(Message), NEW w \in WorkRec,
         work[r].conn \in Conn,
         w.state \in {"local", "sending"} => w.conn # None,
         w.state = "sending" => w.next < w.total,
         SendUp(r, msgs, w)
  PROVE  TypeOK'
<1>1. Finished \in WorkRec /\ Finished.state = "done" BY Bounds DEF Finished, NoWork, WorkRec
<1>2. work' \in [Req -> WorkRec] BY <1>1 DEF SendUp, TypeOK, WorkRec
<1>3. up' \in [Conn -> Seq(Message)] BY ArrivesTyped DEF SendUp, TypeOK
<1>4. \A q \in Req : work'[q].state \in {"local", "sending"} =>
        /\ work'[q].conn # None
        /\ work'[q].state = "sending" => work'[q].next < work'[q].total
  BY <1>1 DEF SendUp, TypeOK
<1> QED BY <1>2, <1>3, <1>4 DEF SendUp, TypeOK, serverVars, callerVars, WorkRec

LEMMA NextUpdated ==
  ASSUME NEW w \in WorkRec, NEW i \in 0..MaxTotal
  PROVE  [w EXCEPT !.next = i]
           = [state |-> w.state, conn |-> w.conn, total |-> w.total, next |-> i]
  BY DEF WorkRec

\* What a task of the client does in a step: it sends well typed messages about
\* its own request.
Sends(r, msgs, w) ==
  /\ SendUp(r, msgs, w)
  /\ w.state # "none"
  /\ w.state \in {"local", "sending"} => w.conn # None
  /\ w.state = "sending" => w.next < w.total
  /\ \A i \in DOMAIN msgs : msgs[i].req = r

LEMMA WorkStepSends ==
  ASSUME TypeOK, NEW r \in Req, WorkStep(r)
  PROVE  /\ work[r].state \in {"local", "sending"} /\ work[r].conn \in Conn
         /\ \E msgs \in Seq(Message), w \in WorkRec : Sends(r, msgs, w)
<1>1. /\ work \in [Req -> WorkRec]
      /\ work[r] \in WorkRec
      /\ work[r].state \in {"local", "sending"}
      /\ work[r].conn \in Conn
      /\ work[r].state = "sending" => work[r].next < work[r].total
  <2>1. work \in [Req -> WorkRec] BY DEF TypeOK, WorkRec
  <2>2. work[r].state \in {"local", "sending"}
    BY DEF WorkStep, Answer, NextChunk, AnswerFails
  <2>3. work[r].conn # None /\ (work[r].state = "sending" => work[r].next < work[r].total)
    BY <2>2 DEF TypeOK
  <2> QED BY <2>1, <2>2, <2>3 DEF WorkRec
<1> DEFINE Goal == \E msgs \in Seq(Message), w \in WorkRec : Sends(r, msgs, w)
<1>2. work[r].total \in 0..MaxTotal /\ work[r].next \in 0..MaxTotal
  BY <1>1 DEF WorkRec
<1>3. Finished \in WorkRec /\ Finished.state = "done" BY Bounds DEF Finished, NoWork, WorkRec
<1>4. ASSUME NEW kind \in {"answer", "error"}
      PROVE  Whole(kind, r) \in Message /\ Whole(kind, r).req = r
  BY Bounds DEF Whole, Message
<1>5. ASSUME NEW msg \in Message, msg.req = r, SendLast(r, msg) PROVE Goal
  <2> DEFINE err == Whole("error", r)
  <2>1. PICK after \in {<<>>, <<err>>} : SendUp(r, <<msg>> \o after, Finished)
    BY <1>5 DEF SendLast
  <2>2. err \in Message /\ err.req = r BY <1>4
  <2> HIDE DEF err
  <2>3. after \in Seq(Message) /\ \A i \in DOMAIN after : after[i].req = r
    <3>1. CASE after = <<>> BY <3>1
    <3>2. CASE after = <<err>> BY <2>2, <3>2
    <3> QED BY <2>1, <3>1, <3>2
  <2>4. <<msg>> \o after \in Seq(Message)
        /\ \A i \in DOMAIN (<<msg>> \o after) : (<<msg>> \o after)[i].req = r
    <3> DEFINE one == <<msg>>
    <3>1. one \in Seq(Message) BY <1>5
    <3>2. \A i \in DOMAIN one : one[i].req = r BY <1>5
    <3> HIDE DEF one
    <3>3. /\ one \o after \in Seq(Message)
          /\ \A i \in DOMAIN (one \o after) : (one \o after)[i].req = r
      BY <2>3, <3>1, <3>2, ConcatIn
    <3> QED BY <3>3 DEF one
  <2>5. Sends(r, <<msg>> \o after, Finished) BY <1>3, <2>1, <2>4 DEF Sends
  <2> QED BY <1>3, <2>4, <2>5
<1>6. ASSUME NEW msg \in Message, msg.req = r, NEW w \in WorkRec,
             w.state = "sending" \/ w = Finished, w.state = "sending" => w.conn # None /\ w.next < w.total,
             SendUp(r, <<msg>>, w)
      PROVE  Goal
  <2>1. <<msg>> \in Seq(Message) /\ \A i \in DOMAIN <<msg>> : <<msg>>[i].req = r BY <1>6
  <2>2. Sends(r, <<msg>>, w) BY <1>3, <1>6, <2>1 DEF Sends
  <2> QED BY <2>1, <2>2
<1> HIDE DEF Goal
<1>7. ASSUME Answer(r) PROVE Goal
  <2>1. ASSUME SendLast(r, Whole("answer", r)) PROVE Goal BY <1>4, <1>5, <2>1
  <2>2. ASSUME NEW n \in 2..MaxTotal,
               SendUp(r, <<Chunk(r, n, 0)>>,
                      [state |-> "sending", conn |-> work[r].conn, total |-> n, next |-> 1])
        PROVE  Goal
    <3> DEFINE w == [state |-> "sending", conn |-> work[r].conn, total |-> n, next |-> 1]
    <3>1. Chunk(r, n, 0) \in Message /\ Chunk(r, n, 0).req = r BY Bounds DEF Chunk, Message
    <3>2. w \in WorkRec /\ w.state = "sending" /\ w.conn # None /\ w.next < w.total
      <4>1. n \in 0..MaxTotal /\ 1 \in 0..MaxTotal /\ 1 < n BY Bounds
      <4> QED BY <1>1, <4>1, Bounds DEF WorkRec
    <3> HIDE DEF w
    <3> QED BY <1>6, <2>2, <3>1, <3>2 DEF w
  <2> QED BY <1>7, <2>1, <2>2 DEF Answer
<1>8. ASSUME NextChunk(r) PROVE Goal
  <2> DEFINE msg == Chunk(r, work[r].total, work[r].next)
             w == [work[r] EXCEPT !.next = @ + 1]
  <2>1. msg \in Message /\ msg.req = r
    <3>1. work[r].total \in 1..MaxTotal BY <1>1, <1>2, <1>8, Bounds DEF NextChunk
    <3> QED BY <1>2, <3>1 DEF Chunk, Message
  <2>2. ASSUME SendLast(r, msg) PROVE Goal BY <1>5, <2>1, <2>2
  <2>3. ASSUME work[r].next + 1 # work[r].total, SendUp(r, <<msg>>, w) PROVE Goal
    <3>1. work[r].next + 1 < work[r].total /\ work[r].next + 1 \in 0..MaxTotal
      BY <1>1, <1>2, <1>8, <2>3, Bounds DEF NextChunk
    <3>2. w \in WorkRec /\ w.state = "sending" /\ w.conn # None /\ w.next < w.total
      <4>1. w = [state |-> work[r].state, conn |-> work[r].conn, total |-> work[r].total,
                 next |-> work[r].next + 1]
        BY <1>1, <1>2, <3>1, NextUpdated
      <4>2. work[r].state = "sending" BY <1>8 DEF NextChunk
      <4> HIDE DEF w
      <4> QED BY <1>1, <1>2, <3>1, <4>1, <4>2, Bounds DEF WorkRec
    <3> HIDE DEF w, msg
    <3> QED BY <1>6, <2>1, <2>3, <3>2
  <2> QED BY <1>8, <2>2, <2>3 DEF NextChunk
<1>9. ASSUME AnswerFails(r) PROVE Goal BY <1>3, <1>4, <1>6, <1>9 DEF AnswerFails
<1> QED BY <1>1, <1>7, <1>8, <1>9 DEF WorkStep, Goal

LEMMA WorkStepTyped ==
  ASSUME TypeOK, NEW r \in Req, WorkStep(r)
  PROVE  TypeOK'
BY WorkStepSends, SendUpTyped DEF Sends

LEMMA TakeTyped ==
  ASSUME TypeOK, NEW t \in Conn, Take(t)
  PROVE  TypeOK'
<1> DEFINE r == Head(down[t])
           w == [state |-> "local", conn |-> t, total |-> 0, next |-> 0]
<1>1. r \in Req /\ Tail(down[t]) \in Seq(Req)
  <2>1. down[t] \in Seq(Req) /\ down[t] # <<>> BY DEF Take, TypeOK
  <2> QED BY <2>1
<1>2. down' \in [Conn -> Seq(Req)] BY <1>1 DEF Take, TypeOK
<1>3. w \in WorkRec /\ w.state = "local" /\ w.conn # None
  BY Bounds DEF WorkRec
<1>4. work' = [work EXCEPT ![r] = w] /\ runs' = [runs EXCEPT ![r] = @ + 1] BY DEF Take
<1>5. work \in [Req -> WorkRec] /\ runs \in [Req -> Nat] BY DEF TypeOK, WorkRec
<1> HIDE DEF r, w
<1>6. work' \in [Req -> WorkRec] /\ runs' \in [Req -> Nat] BY <1>1, <1>3, <1>4, <1>5
<1>7. \A q \in Req : work'[q].state \in {"local", "sending"} =>
        /\ work'[q].conn # None
        /\ work'[q].state = "sending" => work'[q].next < work'[q].total
  BY <1>1, <1>3, <1>4, <1>5 DEF TypeOK
<1> QED BY <1>2, <1>6, <1>7 DEF Take, TypeOK, serverVars, callerVars, WorkRec

\* The one fact that types need of the rest of the invariant is PendingKept:
\* what a future that is not open may hold.
LEMMA NextTyped == TypeOK /\ PendingKept /\ [Next]_vars => TypeOK'
<1> SUFFICES ASSUME TypeOK, PendingKept, [Next]_vars PROVE TypeOK'
  OBVIOUS
<1>1. ASSUME NEW r \in Req, CallerStep(r) PROVE TypeOK' BY <1>1, CallerStepTyped
<1>2. ASSUME NEW r \in Req, WorkStep(r) PROVE TypeOK' BY <1>2, WorkStepTyped
<1>3. ASSUME NEW t \in Conn, ServerStep(t) PROVE TypeOK' BY <1>3, ServerStepTyped
<1>4. ASSUME NEW t \in Conn, Connect(t) PROVE TypeOK'
  BY <1>4 DEF Connect, TypeOK, callerVars
<1>5. ASSUME NEW t \in Conn, Take(t) PROVE TypeOK' BY <1>5, TakeTyped
<1>6. ASSUME NEW t \in Conn, Cut(t) PROVE TypeOK'
  <2>1. <<>> \in Seq(Req) /\ <<>> \in Seq(Message) OBVIOUS
  <2>2. down' \in [Conn -> Seq(Req)] /\ up' \in [Conn -> Seq(Message)]
    BY <1>6, <2>1 DEF Cut, TypeOK
  <2>3. cuts' \in 0..MaxCuts BY <1>6, Bounds DEF Cut, TypeOK
  <2> QED BY <1>6, <2>2, <2>3 DEF Cut, TypeOK, serverVars, callerVars, hostVars
<1>7. CASE Leave
  <2>1. <<>> \in Seq(Req) OBVIOUS
  <2>2. down' \in [Conn -> Seq(Req)] BY <1>7, <2>1 DEF Leave, TypeOK
  <2> QED BY <1>7, <2>2 DEF Leave, TypeOK, serverVars, callerVars
<1>8. CASE UNCHANGED vars
  BY <1>8 DEF vars, TypeOK, serverVars, callerVars, hostVars, wireVars
<1> QED BY <1>1, <1>2, <1>3, <1>4, <1>5, <1>6, <1>7, <1>8 DEF Next

-----------------------------------------------------------------------------
(* Callers and tunnels                                                     *)

CallerInv == TypeOK /\ PendingKept /\ OnlineIsLive /\ StrandedWasNeverSent

\* A step that touches neither the callers nor the server's side.
LEMMA ServerUntouched ==
  ASSUME CallerInv, UNCHANGED <<registered, queue, pending, caller, via, fut>>,
         \A t \in Conn : tun'[t] = tun[t] \/ (tun[t] = "unused" /\ tun'[t] = "accepted"),
         \A t \in Conn : tasks'[t] \subseteq tasks[t]
  PROVE  PendingKept' /\ OnlineIsLive' /\ StrandedWasNeverSent'
<1>1. \A r \in Req : caller[r] \in {"body", "waiting"} => via[r] \in Conn
  BY DEF CallerInv, TypeOK
<1>2. PendingKept' BY <1>1 DEF CallerInv, PendingKept
<1>3. OnlineIsLive' BY DEF CallerInv, OnlineIsLive, TypeOK
<1>4. StrandedWasNeverSent'
  BY <1>1 DEF CallerInv, StrandedWasNeverSent, PendingKept
<1> QED BY <1>2, <1>3, <1>4

LEMMA CallerStepKeeps ==
  ASSUME CallerInv, NEW r \in Req, CallerStep(r)
  PROVE  PendingKept' /\ OnlineIsLive' /\ StrandedWasNeverSent'
<1>1. /\ caller \in [Req -> Callers] /\ fut \in [Req -> Futures]
      /\ via \in [Req -> Conn \cup {None}] /\ pending \in [Conn -> SUBSET Req]
      /\ queue \in [Conn -> Seq(Req)]
      /\ \A q \in Req : caller[q] \in {"body", "waiting"} => via[q] \in Conn
      /\ \A q \in Req : fut[q] = "pending" => caller[q] = "waiting" /\ q \in pending[via[q]]
      /\ \A q \in Req : caller[q] = "waiting"
                        => fut[q] \in {"pending", "answer", "error", "torn", "lost"}
  BY DEF CallerInv, TypeOK, PendingKept
<1>2. tun' = tun /\ tasks' = tasks /\ registered' = registered
  BY DEF CallerStep, Pick, Issue, Return, Timeout, serverVars
<1>3. OnlineIsLive' BY <1>2 DEF CallerInv, OnlineIsLive
<1>4. CASE Pick(r)
  <2>1. fut[r] # "pending" BY <1>1, <1>4 DEF Pick
  <2>2. UNCHANGED <<fut, queue, pending>> BY <1>4 DEF Pick, serverVars
  <2>3. \A q \in Req : q # r => caller'[q] = caller[q] /\ via'[q] = via[q]
    BY <1>1, <1>4 DEF Pick
  <2>4. caller'[r] # "waiting" BY <1>1, <1>4 DEF Pick
  <2>5. caller'[r] = "body" => tun[via'[r]] = "running"
    BY <1>1, <1>4 DEF Pick, CallerInv, OnlineIsLive, TypeOK
  <2>6. PendingKept'
    BY <1>1, <1>2, <2>1, <2>2, <2>3, <2>4, <2>5 DEF CallerInv, PendingKept
  <2>7. StrandedWasNeverSent'
    BY <1>2, <2>1, <2>2, <2>3 DEF CallerInv, StrandedWasNeverSent
  <2> QED BY <1>3, <2>6, <2>7
<1>5. CASE Issue(r)
  <2> DEFINE t == via[r]
  <2>1. t \in Conn /\ via' = via BY <1>1, <1>5 DEF Issue
  <2>2. /\ fut' = [fut EXCEPT ![r] = "pending"] /\ caller' = [caller EXCEPT ![r] = "waiting"]
        /\ pending' = [pending EXCEPT ![t] = @ \cup {r}]
        /\ queue' = [queue EXCEPT ![t] = Append(@, r)]
    BY <1>5 DEF Issue
  <2>3. PendingKept'
    <3>1. \A q \in Req : q # r => caller'[q] = caller[q] /\ fut'[q] = fut[q]
      BY <1>1, <2>2
    <3>2. caller'[r] = "waiting" /\ fut'[r] = "pending" BY <1>1, <2>2
    <3>3. \A u \in Conn : pending[u] \subseteq pending'[u] BY <1>1, <2>1, <2>2
    <3>4. r \in pending'[via[r]] BY <1>1, <2>1, <2>2
    <3>5. caller[r] = "body" BY <1>5 DEF Issue
    <3>6. \A q \in Req : fut'[q] = "pending" => caller'[q] = "waiting" /\ q \in pending'[via[q]]
      BY <1>1, <3>1, <3>2, <3>3, <3>4
    <3>7. /\ \A q \in Req : caller'[q] = "waiting"
                            => fut'[q] \in {"pending", "answer", "error", "torn", "lost"}
          /\ \A q \in Req : caller'[q] \in {"body", "waiting"}
                            => tun[via[q]] \in {"running", "ended"}
      BY <1>1, <3>1, <3>2, <3>5 DEF CallerInv, PendingKept
    <3> QED BY <1>2, <2>1, <3>6, <3>7 DEF CallerInv, PendingKept
  <2>4. queue[t] \in Seq(Req) /\ queue'[t] = Append(queue[t], r) BY <1>1, <2>1, <2>2
  <2>5. \A q \in Req : In(q, queue'[t]) <=> In(q, queue[t]) \/ q = r BY <2>4, AppendIn
  <2>6. ASSUME NEW q \in Req, fut'[q] = "pending", tun[via[q]] = "ended"
        PROVE  In(q, queue'[via[q]])
    <3>1. CASE q = r BY <2>5, <3>1
    <3>2. CASE q # r
      <4>1. fut[q] = "pending" /\ via[q] \in Conn BY <1>1, <2>2, <2>6, <3>2
      <4>2. In(q, queue[via[q]]) BY <2>6, <4>1 DEF CallerInv, StrandedWasNeverSent, In
      <4>3. via[q] # t => queue'[via[q]] = queue[via[q]] BY <1>1, <2>1, <2>2, <4>1
      <4> QED BY <2>5, <4>2, <4>3
    <3> QED BY <3>1, <3>2
  <2>7. StrandedWasNeverSent' BY <1>2, <2>1, <2>6 DEF StrandedWasNeverSent, In
  <2> QED BY <1>3, <2>3, <2>7
<1>6. CASE Return(r) \/ Timeout(r)
  <2>1. /\ via' = via /\ queue' = queue
        /\ pending' = [pending EXCEPT ![via[r]] = @ \ {r}]
        /\ via[r] \in Conn
    BY <1>1, <1>6 DEF Return, Timeout
  <2>2. /\ fut'[r] # "pending" /\ caller'[r] # "waiting"
        /\ \A q \in Req : q # r => caller'[q] = caller[q] /\ fut'[q] = fut[q]
    BY <1>1, <1>6 DEF Return, Timeout
  <2>3. \A q \in Req : q # r /\ via[q] \in Conn /\ q \in pending[via[q]] => q \in pending'[via[q]]
    BY <1>1, <2>1
  <2>4. PendingKept'
    <3>1. \A q \in Req : fut'[q] = "pending" => caller'[q] = "waiting" /\ q \in pending'[via[q]]
      BY <1>1, <2>2, <2>3
    <3>2. caller'[r] \notin {"body", "waiting"} BY <1>1, <1>6 DEF Return, Timeout
    <3>3. \A q \in Req : caller'[q] \in {"body", "waiting"}
                            => tun[via[q]] \in {"running", "ended"}
      BY <2>2, <3>2 DEF CallerInv, PendingKept
    <3> QED BY <1>1, <1>2, <2>1, <2>2, <3>1, <3>3 DEF CallerInv, PendingKept
  <2>5. StrandedWasNeverSent' BY <1>2, <2>1, <2>2 DEF CallerInv, StrandedWasNeverSent
  <2> QED BY <1>3, <2>4, <2>5
<1> QED BY <1>4, <1>5, <1>6 DEF CallerStep

LEMMA ServerStepKeeps ==
  ASSUME CallerInv, NEW t \in Conn, ServerStep(t)
  PROVE  PendingKept' /\ OnlineIsLive' /\ StrandedWasNeverSent'
<1>1. /\ fut \in [Req -> Futures] /\ pending \in [Conn -> SUBSET Req]
      /\ queue \in [Conn -> Seq(Req)]
      /\ tun \in [Conn -> {"unused", "accepted", "running", "ended"}]
      /\ tasks \in [Conn -> SUBSET {"reader", "writer"}]
      /\ registered \in Conn \cup {None}
      /\ \A q \in Req : caller[q] \in {"body", "waiting"}
                        => via[q] \in Conn /\ tun[via[q]] \in {"running", "ended"}
      /\ \A q \in Req : fut[q] = "pending" => caller[q] = "waiting" /\ q \in pending[via[q]]
  BY DEF CallerInv, TypeOK, PendingKept
<1>2. caller' = caller /\ via' = via
  BY DEF ServerStep, Register, RegisterFails, Write, WriteFails, Read, ReadFails, RunEnds,
         callerVars
<1>3. CASE Register(t)
  <2>1. PendingKept' BY <1>1, <1>2, <1>3 DEF Register, callerVars, CallerInv, PendingKept
  <2>2. OnlineIsLive' BY <1>1, <1>3 DEF Register, OnlineIsLive
  <2>3. StrandedWasNeverSent'
    BY <1>1, <1>2, <1>3 DEF Register, callerVars, CallerInv, StrandedWasNeverSent
  <2> QED BY <2>1, <2>2, <2>3
<1>4. CASE RegisterFails(t)
  <2>1. UNCHANGED <<registered, tasks, queue, pending, fut>>
    BY <1>4 DEF RegisterFails, callerVars
  <2>2. tasks[t] = {} BY <1>4 DEF RegisterFails, CallerInv, PendingKept
  <2>3. PendingKept' BY <1>1, <1>2, <1>4, <2>1, <2>2 DEF RegisterFails, CallerInv, PendingKept
  <2>4. OnlineIsLive' BY <1>1, <1>4, <2>1 DEF RegisterFails, CallerInv, OnlineIsLive
  \* nobody can have picked a tunnel that was never registered
  <2>5. \A r \in Req : fut[r] = "pending" => via[r] # t
    BY <1>1, <1>4 DEF RegisterFails
  <2>6. StrandedWasNeverSent'
    BY <1>1, <1>2, <1>4, <2>1, <2>5 DEF RegisterFails, CallerInv, StrandedWasNeverSent
  <2> QED BY <2>3, <2>4, <2>6
\* Steps of a tunnel that goes on.
<1>5. ASSUME tun[t] = "running", UNCHANGED <<registered, tun, pending>>,
             \A u \in Conn : u # t => queue'[u] = queue[u],
             \A u \in Conn : tasks'[u] \subseteq tasks[u],
             \A q \in Req : \/ fut'[q] = fut[q]
                            \/ (fut[q] = "pending" /\ fut'[q] \in {"answer", "error", "torn"})
      PROVE  PendingKept' /\ OnlineIsLive' /\ StrandedWasNeverSent'
  <2>1. PendingKept' BY <1>1, <1>2, <1>5 DEF CallerInv, PendingKept
  <2>2. OnlineIsLive' BY <1>5 DEF CallerInv, OnlineIsLive
  <2>3. ASSUME NEW q \in Req, fut'[q] = "pending", tun[via[q]] = "ended"
        PROVE  queue'[via[q]] = queue[via[q]] /\ fut[q] = "pending"
    BY <1>1, <1>5, <2>3
  <2>4. StrandedWasNeverSent' BY <1>2, <1>5, <2>3 DEF CallerInv, StrandedWasNeverSent
  <2> QED BY <2>1, <2>2, <2>4
<1>6. tasks[t] # {} => tun[t] = "running" BY DEF CallerInv, PendingKept
<1>7. CASE Write(t)
  <2>1. UNCHANGED <<registered, tun, tasks, pending, fut>> /\ tasks[t] # {}
    BY <1>7 DEF Write, callerVars
  <2>2. \A u \in Conn : u # t => queue'[u] = queue[u] BY <1>1, <1>7 DEF Write
  <2> QED BY <1>5, <1>6, <2>1, <2>2
<1>8. CASE WriteFails(t)
  <2>1. UNCHANGED <<registered, tun, pending, fut>> /\ tasks[t] # {}
    BY <1>8 DEF WriteFails, callerVars
  <2>2. /\ \A u \in Conn : u # t => queue'[u] = queue[u]
        /\ \A u \in Conn : tasks'[u] \subseteq tasks[u]
    BY <1>1, <1>8 DEF WriteFails
  <2> QED BY <1>5, <1>6, <2>1, <2>2
<1>9. CASE Read(t)
  <2>1. \/ fut' = fut
        \/ \E r, v : v \in {"answer", "error", "torn"} /\ fut' = Resolved(t, r, v)
    BY <1>9 DEF Read
  <2>2. \A q \in Req : \/ fut'[q] = fut[q]
                       \/ (fut[q] = "pending" /\ fut'[q] \in {"answer", "error", "torn"})
    BY <1>1, <2>1 DEF Resolved
  <2> QED BY <1>5, <1>6, <1>9, <2>2 DEF Read
<1>10. CASE ReadFails(t) BY <1>1, <1>5, <1>6, <1>10 DEF ReadFails, callerVars
<1>11. CASE RunEnds(t)
  <2>1. /\ tun' = [tun EXCEPT ![t] = "ended"] /\ tasks' = [tasks EXCEPT ![t] = {}]
        /\ pending' = [pending EXCEPT ![t] = {}] /\ registered' = None /\ queue' = queue
        /\ fut' = [r \in Req |-> IF r \in pending[t] /\ fut[r] = "pending"
                                 THEN "lost" ELSE fut[r]]
    BY <1>11 DEF RunEnds
  <2>2. ASSUME NEW q \in Req
        PROVE  /\ fut'[q] = fut[q] \/ (fut[q] = "pending" /\ fut'[q] = "lost")
               /\ fut'[q] = "pending" => via[q] # t /\ fut[q] = "pending"
    BY <1>1, <2>1
  <2>3. PendingKept' BY <1>1, <1>2, <2>1, <2>2 DEF CallerInv, PendingKept
  <2>4. OnlineIsLive' BY <2>1 DEF OnlineIsLive
  <2>5. StrandedWasNeverSent'
    BY <1>1, <1>2, <2>1, <2>2 DEF CallerInv, StrandedWasNeverSent
  <2> QED BY <2>3, <2>4, <2>5
<1> QED BY <1>3, <1>4, <1>7, <1>8, <1>9, <1>10, <1>11 DEF ServerStep

LEMMA NextKeepsCallers == CallerInv /\ [Next]_vars => CallerInv'
<1> SUFFICES ASSUME CallerInv, [Next]_vars PROVE CallerInv'
  OBVIOUS
<1> DEFINE Kept == PendingKept' /\ OnlineIsLive' /\ StrandedWasNeverSent'
<1>1. TypeOK' BY NextTyped DEF CallerInv
<1>2. ASSUME NEW r \in Req, CallerStep(r) PROVE Kept BY <1>2, CallerStepKeeps
<1>3. ASSUME NEW t \in Conn, ServerStep(t) PROVE Kept BY <1>3, ServerStepKeeps
<1>4. ASSUME UNCHANGED <<serverVars, callerVars>> PROVE Kept
  BY <1>4, ServerUntouched DEF serverVars, callerVars
<1>5. ASSUME NEW r \in Req, WorkStep(r) PROVE Kept
  BY <1>4, <1>5 DEF WorkStep, Answer, NextChunk, AnswerFails, SendLast, SendUp
<1>6. ASSUME NEW t \in Conn, Connect(t) PROVE Kept
  <2>1. UNCHANGED <<registered, queue, pending, caller, via, fut, tasks>>
    BY <1>6 DEF Connect, callerVars
  <2>2. \A u \in Conn : tun'[u] = tun[u] \/ (tun[u] = "unused" /\ tun'[u] = "accepted")
    BY <1>6 DEF Connect, CallerInv, TypeOK
  <2> QED BY <2>1, <2>2, ServerUntouched
<1>7. ASSUME NEW t \in Conn, Take(t) \/ Cut(t) PROVE Kept BY <1>4, <1>7 DEF Take, Cut
<1>8. ASSUME Leave PROVE Kept BY <1>4, <1>8 DEF Leave
<1>9. ASSUME UNCHANGED vars PROVE Kept BY <1>4, <1>9 DEF vars
<1> QED BY <1>1, <1>2, <1>3, <1>5, <1>6, <1>7, <1>8, <1>9 DEF CallerInv, Next

LEMMA InitCallers == Init => CallerInv
<1> SUFFICES ASSUME Init PROVE CallerInv
  OBVIOUS
<1>1. PendingKept /\ OnlineIsLive /\ StrandedWasNeverSent
  BY DEF Init, PendingKept, OnlineIsLive, StrandedWasNeverSent
<1> QED BY <1>1, InitTyped DEF CallerInv

\* Every variable of the access server and of the host's client keeps its type.
THEOREM HostTunnelTyped == Spec => []TypeOK
<1>1. CallerInv => TypeOK BY DEF CallerInv
<1> QED BY <1>1, InitCallers, NextKeepsCallers, PTL DEF Spec

\* The registry never leads a browser to a tunnel whose tasks have stopped,
\* however many connections of the host come and go, and in whatever order.
THEOREM OnlineIsAlwaysLive == Spec => []OnlineIsLive
<1>1. CallerInv => OnlineIsLive BY DEF CallerInv
<1> QED BY <1>1, InitCallers, NextKeepsCallers, PTL DEF Spec

\* A request whose caller nobody will wake before the timeout is still in the
\* queue of a tunnel that has ended: the host has never been sent it.
THEOREM StrandedWereNeverSent == Spec => []StrandedWasNeverSent
<1>1. CallerInv => StrandedWasNeverSent BY DEF CallerInv
<1> QED BY <1>1, InitCallers, NextKeepsCallers, PTL DEF Spec

-----------------------------------------------------------------------------
(* Copies of a request, and answers                                        *)

CallsInv == CallerInv /\ OneCopy /\ AnswersEarned

\* Requests may get lost, and nothing else may become of them, in a step that
\* neither issues, writes nor takes one.
LEMMA CopiesDwindle ==
  ASSUME OneCopy, runs' = runs,
         \A t \in Conn : Once(queue'[t]) /\ Once(down'[t]),
         \A t \in Conn, r \in Req : In(r, queue'[t]) => In(r, queue[t]),
         \A t \in Conn, r \in Req : In(r, down'[t]) => In(r, down[t]),
         \A r \in Req : Handled(r)' <=> Handled(r),
         \A r \in Req : Issued(r) => Issued(r)' /\ via'[r] = via[r]
  PROVE  OneCopy'
<1>1. /\ \A t \in Conn, r \in Req : In(r, queue'[t]) \/ In(r, down'[t])
                                    => via'[r] = t /\ ~Handled(r)' /\ Issued(r)'
      /\ \A t \in Conn, r \in Req : ~(In(r, queue'[t]) /\ In(r, down'[t]))
  BY DEF OneCopy
<1>2. /\ \A r \in Req : Handled(r)' => Issued(r)'
      /\ \A r \in Req : runs'[r] = IF Handled(r)' THEN 1 ELSE 0
  BY DEF OneCopy
<1> QED BY <1>1, <1>2 DEF OneCopy

\* What the client has dealt with stays dealt with.
LEMMA EarnedStays ==
  ASSUME AnswersEarned, \A r \in Req : Handled(r) => Handled(r)',
         (\A t \in Conn : \A i \in DOMAIN up[t] : Handled(up[t][i].req))',
         \A r \in Req : fut'[r] \in {"answer", "error", "torn"}
                        => fut'[r] = fut[r] \/ Handled(r)
  PROVE  AnswersEarned'
BY DEF AnswersEarned

LEMMA CallerStepCalls ==
  ASSUME CallsInv, NEW r \in Req, CallerStep(r)
  PROVE  OneCopy' /\ AnswersEarned'
<1>1. /\ caller \in [Req -> Callers] /\ fut \in [Req -> Futures]
      /\ via \in [Req -> Conn \cup {None}] /\ queue \in [Conn -> Seq(Req)]
      /\ \A q \in Req : caller[q] = "body" => via[q] \in Conn
      /\ \A q \in Req : caller[q] = "waiting"
                        => fut[q] \in {"pending", "answer", "error", "torn", "lost"}
  BY DEF CallsInv, CallerInv, TypeOK, PendingKept
<1>2. UNCHANGED <<work, runs, down, up>>
  BY DEF CallerStep, Pick, Issue, Return, Timeout, hostVars, wireVars
<1>3. \A q \in Req : Handled(q)' <=> Handled(q) BY <1>2 DEF Handled
<1>4. \A q \in Req : fut'[q] = fut[q] \/ fut'[q] \notin {"answer", "error", "torn"}
  <2>1. \/ fut' = fut
        \/ fut' = [fut EXCEPT ![r] = "pending"]
        \/ fut' = [fut EXCEPT ![r] = "cancelled"]
    BY DEF CallerStep, Pick, Issue, Return, Timeout
  <2> QED BY <1>1, <2>1
<1>5. AnswersEarned'
  <2>1. (\A t \in Conn : \A i \in DOMAIN up[t] : Handled(up[t][i].req))'
    BY <1>2 DEF CallsInv, AnswersEarned, Handled
  <2> QED BY <1>3, <1>4, <2>1, EarnedStays DEF CallsInv
<1>6. CASE Issue(r)
  <2> DEFINE t == via[r]
  <2>1. /\ t \in Conn /\ via' = via /\ caller' = [caller EXCEPT ![r] = "waiting"]
        /\ queue' = [queue EXCEPT ![t] = Append(@, r)] /\ ~Issued(r)
    BY <1>1, <1>6 DEF Issue, Issued
  <2>2. \A u \in Conn : ~In(r, queue[u]) /\ ~In(r, down[u]) BY <2>1 DEF CallsInv, OneCopy
  <2>3. ~Handled(r) BY <2>1 DEF CallsInv, OneCopy
  <2>4. Issued(r)' /\ \A q \in Req : q # r => (Issued(q)' <=> Issued(q))
    <3>1. caller'[r] = "waiting" /\ \A q \in Req : q # r => caller'[q] = caller[q]
      BY <1>1, <2>1
    <3> QED BY <3>1 DEF Issued
  <2>5. queue[t] \in Seq(Req) /\ queue'[t] = Append(queue[t], r)
        /\ \A u \in Conn : u # t => queue'[u] = queue[u]
    BY <1>1, <2>1
  <2>6. \A q \in Req : In(q, queue'[t]) <=> In(q, queue[t]) \/ q = r BY <2>5, AppendIn
  <2>7. Once(queue'[t])
    <3>1. Once(queue[t]) /\ ~In(r, queue[t]) BY <2>1, <2>2 DEF CallsInv, OneCopy
    <3> QED BY <2>5, <3>1, AppendIn
  <2> HIDE DEF t
  <2>8. \A u \in Conn : Once(queue'[u]) /\ Once(down'[u])
    BY <1>2, <2>5, <2>7 DEF CallsInv, OneCopy
  <2>9. ASSUME NEW u \in Conn, NEW q \in Req
        PROVE  /\ In(q, queue'[u]) \/ In(q, down'[u])
                    => via'[q] = u /\ ~Handled(q)' /\ Issued(q)'
               /\ ~(In(q, queue'[u]) /\ In(q, down'[u]))
    <3>1. CASE q = r BY <1>2, <1>3, <2>1, <2>2, <2>3, <2>4, <2>5, <3>1 DEF t
    <3>2. CASE q # r
      <4>1. In(q, queue'[u]) <=> In(q, queue[u]) BY <2>5, <2>6, <3>2
      <4> QED BY <1>2, <1>3, <2>1, <2>4, <3>2, <4>1 DEF CallsInv, OneCopy
    <3> QED BY <3>1, <3>2
  <2>10. /\ \A q \in Req : Handled(q)' => Issued(q)'
         /\ \A q \in Req : runs'[q] = IF Handled(q)' THEN 1 ELSE 0
    BY <1>2, <1>3, <2>4 DEF CallsInv, OneCopy
  <2>11. OneCopy' BY <2>8, <2>9, <2>10 DEF OneCopy
  <2> QED BY <1>5, <2>11
<1>7. CASE Pick(r) \/ Return(r) \/ Timeout(r)
  <2>1. queue' = queue BY <1>7 DEF Pick, Return, Timeout, serverVars
  <2>2. \A q \in Req : Issued(q) => Issued(q)' /\ via'[q] = via[q]
    BY <1>1, <1>7 DEF Pick, Return, Timeout, Issued
  <2>3. OneCopy' BY <1>2, <1>3, <2>1, <2>2, CopiesDwindle DEF CallsInv, OneCopy
  <2> QED BY <1>5, <2>3
<1> QED BY <1>6, <1>7 DEF CallerStep

\* The first message of a queue is lost, or goes on to the host.
LEMMA WriteCopies ==
  ASSUME CallsInv, NEW t \in Conn, queue[t] # <<>>, UNCHANGED <<work, runs, caller, via>>,
         queue' = [queue EXCEPT ![t] = Tail(@)],
         down' = down \/ down' = [down EXCEPT ![t] = Append(@, Head(queue[t]))]
  PROVE  OneCopy'
<1> DEFINE r == Head(queue[t])
<1>1. /\ queue \in [Conn -> Seq(Req)] /\ down \in [Conn -> Seq(Req)]
      /\ queue[t] \in Seq(Req) /\ down[t] \in Seq(Req)
      /\ \A u \in Conn : u # t => queue'[u] = queue[u] /\ down'[u] = down[u]
      /\ queue'[t] = Tail(queue[t]) /\ (down'[t] = down[t] \/ down'[t] = Append(down[t], r))
  BY DEF CallsInv, CallerInv, TypeOK
<1>2. \A q \in Req : (Handled(q)' <=> Handled(q)) /\ (Issued(q)' <=> Issued(q))
  BY DEF Handled, Issued
<1>3. \A u \in Conn : Once(queue[u]) /\ Once(down[u]) BY DEF CallsInv, OneCopy
<1>4. r \in Req /\ In(r, queue[t]) BY <1>1, TailIn
<1>5. ~In(r, down[t]) BY <1>4 DEF CallsInv, OneCopy
<1>6. Once(queue'[t]) /\ ~In(r, queue'[t]) BY <1>1, <1>3, TailIn
<1>7. \A q \in Req : In(q, queue'[t]) => In(q, queue[t]) BY <1>1, TailIn
<1>8. Once(down'[t]) /\ \A q \in Req : In(q, down'[t]) => In(q, down[t]) \/ q = r
  <2> HIDE DEF r
  <2>1. Once(Append(down[t], r)) BY <1>1, <1>3, <1>4, <1>5, AppendIn
  <2>2. \A q \in Req : In(q, Append(down[t], r)) => In(q, down[t]) \/ q = r
    BY <1>1, <1>4, AppendIn
  <2> QED BY <1>1, <1>3, <2>1, <2>2
<1> HIDE DEF r
<1>9. \A u \in Conn : Once(queue'[u]) /\ Once(down'[u]) BY <1>1, <1>3, <1>6, <1>8
<1>10. ASSUME NEW u \in Conn, NEW q \in Req
       PROVE  /\ In(q, queue'[u]) \/ In(q, down'[u]) => In(q, queue[u]) \/ In(q, down[u])
              /\ ~(In(q, queue'[u]) /\ In(q, down'[u]))
  <2>1. CASE u = t BY <1>4, <1>6, <1>7, <1>8, <2>1 DEF CallsInv, OneCopy
  <2>2. CASE u # t BY <1>1, <2>2 DEF CallsInv, OneCopy
  <2> QED BY <2>1, <2>2
<1>11. \A u \in Conn, q \in Req : In(q, queue'[u]) \/ In(q, down'[u])
                                  => via'[q] = u /\ ~Handled(q)' /\ Issued(q)'
  BY <1>2, <1>10 DEF CallsInv, OneCopy
<1>12. /\ \A q \in Req : Handled(q)' => Issued(q)'
       /\ \A q \in Req : runs'[q] = IF Handled(q)' THEN 1 ELSE 0
  BY <1>2 DEF CallsInv, OneCopy
<1> QED BY <1>9, <1>10, <1>11, <1>12 DEF OneCopy

LEMMA ServerStepCalls ==
  ASSUME CallsInv, NEW t \in Conn, ServerStep(t)
  PROVE  OneCopy' /\ AnswersEarned'
<1>1. UNCHANGED <<caller, via, work, runs>>
  BY DEF ServerStep, Register, RegisterFails, Write, WriteFails, Read, ReadFails, RunEnds,
         callerVars, hostVars
<1>2. \A q \in Req : (Handled(q)' <=> Handled(q)) /\ (Issued(q)' <=> Issued(q))
  BY <1>1 DEF Handled, Issued
<1>3. /\ queue \in [Conn -> Seq(Req)] /\ down \in [Conn -> Seq(Req)]
      /\ up \in [Conn -> Seq(Message)] /\ fut \in [Req -> Futures]
  BY DEF CallsInv, CallerInv, TypeOK
<1>4. ASSUME UNCHANGED <<queue, down>> PROVE OneCopy'
  BY <1>1, <1>2, <1>4, CopiesDwindle DEF CallsInv, OneCopy
<1>5. ASSUME UNCHANGED <<up, fut>> PROVE AnswersEarned'
  <2>1. (\A u \in Conn : \A i \in DOMAIN up[u] : Handled(up[u][i].req))'
    BY <1>1, <1>5 DEF CallsInv, AnswersEarned, Handled
  <2> QED BY <1>2, <1>5, <2>1, EarnedStays DEF CallsInv
<1>6. CASE Register(t) \/ RegisterFails(t) \/ ReadFails(t)
  BY <1>4, <1>5, <1>6 DEF Register, RegisterFails, ReadFails, callerVars, wireVars
<1>7. CASE Write(t) \/ WriteFails(t)
  <2>1. UNCHANGED <<up, fut>> BY <1>7 DEF Write, WriteFails, callerVars, wireVars
  <2>2. queue[t] # <<>> /\ queue' = [queue EXCEPT ![t] = Tail(@)]
    BY <1>7 DEF Write, WriteFails
  <2>3. down' = down \/ down' = [down EXCEPT ![t] = Append(@, Head(queue[t]))]
    <3>1. down[t] \in Seq(Req) /\ Head(queue[t]) \in Req
      BY <1>3, <2>2, TailIn
    <3>2. down[t] \o <<Head(queue[t])>> = Append(down[t], Head(queue[t])) BY <3>1
    <3> QED BY <1>7, <3>2 DEF Write, WriteFails, Arrives, wireVars
  <2> QED BY <1>1, <1>5, <2>1, <2>2, <2>3, WriteCopies
<1>8. CASE Read(t)
  <2> DEFINE m == Head(up[t])
  <2>1. OneCopy' BY <1>4, <1>8 DEF Read
  <2>2. /\ up[t] \in Seq(Message) /\ up[t] # <<>> /\ up' = [up EXCEPT ![t] = Tail(@)]
        /\ \/ fut' = fut
           \/ \E v \in {"answer", "error", "torn"} : fut' = Resolved(t, m.req, v)
    BY <1>3, <1>8 DEF Read
  <2>3. Handled(m.req)
    <3>1. 1 \in DOMAIN up[t] /\ m = up[t][1] BY <2>2
    <3> QED BY <3>1 DEF CallsInv, AnswersEarned
  <2>4. (\A u \in Conn : \A i \in DOMAIN up[u] : Handled(up[u][i].req))'
    <3>1. SUFFICES ASSUME NEW u \in Conn, NEW i \in DOMAIN up'[u]
                   PROVE  work[up'[u][i].req].state # "none"
      BY <1>1 DEF Handled
    <3>2. \E j \in DOMAIN up[u] : up'[u][i] = up[u][j]
      <4>1. CASE u = t
        <5>1. DOMAIN up[t] = 1..Len(up[t]) /\ Len(up[t]) \in Nat \ {0}
              /\ up'[t] = Tail(up[t])
              /\ DOMAIN Tail(up[t]) = 1..(Len(up[t]) - 1)
              /\ \A k \in 1..(Len(up[t]) - 1) : Tail(up[t])[k] = up[t][k + 1]
          BY <1>3, <2>2
        <5> QED BY <3>1, <4>1, <5>1
      <4>2. CASE u # t BY <1>3, <2>2, <3>1, <4>2
      <4> QED BY <4>1, <4>2
    <3> QED BY <3>2 DEF CallsInv, AnswersEarned, Handled
  <2>5. \A q \in Req : fut'[q] \in {"answer", "error", "torn"} => fut'[q] = fut[q] \/ Handled(q)
    <3> HIDE DEF m
    <3>1. ASSUME NEW q \in Req PROVE q = m.req \/ fut'[q] = fut[q]
      BY <1>3, <2>2 DEF Resolved
    <3> QED BY <2>3, <3>1
  <2>6. AnswersEarned' BY <1>2, <2>4, <2>5, EarnedStays DEF CallsInv
  <2> QED BY <2>1, <2>6
<1>9. CASE RunEnds(t)
  <2>1. OneCopy' BY <1>4, <1>9 DEF RunEnds
  <2>2. \A q \in Req : fut'[q] = fut[q] \/ fut'[q] = "lost" BY <1>3, <1>9 DEF RunEnds
  <2>3. (\A u \in Conn : \A i \in DOMAIN up[u] : Handled(up[u][i].req))'
    <3>1. \A u \in Conn : up'[u] = up[u] \/ up'[u] = <<>> BY <1>3, <1>9 DEF RunEnds
    <3> QED BY <1>1, <3>1 DEF CallsInv, AnswersEarned, Handled
  <2>4. AnswersEarned' BY <1>2, <2>2, <2>3, EarnedStays DEF CallsInv
  <2> QED BY <2>1, <2>4
<1> QED BY <1>6, <1>7, <1>8, <1>9 DEF ServerStep

\* A task of the client sends, of the request it has, what it likes.
LEMMA SendUpCalls ==
  ASSUME CallsInv, NEW r \in Req, NEW msgs \in Seq(Message), NEW w,
         Handled(r), w.state # "none",
         \A i \in DOMAIN msgs : msgs[i].req = r,
         SendUp(r, msgs, w)
  PROVE  OneCopy' /\ AnswersEarned'
<1>1. /\ UNCHANGED <<queue, down, caller, via, fut, runs>>
      /\ work \in [Req -> WorkRec] /\ up \in [Conn -> Seq(Message)]
      /\ work' = [work EXCEPT ![r] = w] \/ work' = [work EXCEPT ![r] = Finished]
      /\ up' = up \/ up' = [up EXCEPT ![work[r].conn] = @ \o msgs]
  BY DEF CallsInv, CallerInv, TypeOK, WorkRec, SendUp, serverVars, callerVars, Arrives
<1>2. Finished.state = "done" BY DEF Finished, NoWork
<1>3. \A q \in Req : (Handled(q)' <=> Handled(q)) /\ (Issued(q)' <=> Issued(q))
  BY <1>1, <1>2 DEF Handled, Issued
<1>4. OneCopy' BY <1>1, <1>3, CopiesDwindle DEF CallsInv, OneCopy
<1>5. ASSUME NEW u \in Conn, NEW i \in DOMAIN up'[u] PROVE Handled(up[u][i].req)'
  <2>1. \/ i \in DOMAIN up[u] /\ up'[u][i] = up[u][i]
        \/ \E j \in DOMAIN msgs : up'[u][i] = msgs[j]
    <3>1. CASE up'[u] = up[u] BY <1>5, <3>1
    <3>2. CASE up'[u] = up[u] \o msgs
      <4>1. up[u] \in Seq(Message) BY <1>1
      <4> QED BY <1>5, <3>2, <4>1, ConcatIn
    <3>3. up'[u] = up[u] \/ up'[u] = up[u] \o msgs BY <1>1
    <3> QED BY <3>1, <3>2, <3>3
  <2>2. \A q \in Req : work'[q].state = work[q].state \/ work'[q].state # "none"
    BY <1>1, <1>2
  <2>3. CASE i \in DOMAIN up[u] /\ up'[u][i] = up[u][i]
    <3>1. up[u][i] \in Message BY <1>1, <2>3
    <3>2. up[u][i].req \in Req BY <3>1 DEF Message
    <3> QED BY <2>2, <2>3, <3>2 DEF CallsInv, AnswersEarned, Handled
  <2>4. CASE \E j \in DOMAIN msgs : up'[u][i] = msgs[j]
    BY <1>3, <2>4 DEF Handled
  <2> QED BY <2>1, <2>3, <2>4
<1>6. AnswersEarned' BY <1>1, <1>3, <1>5, EarnedStays DEF CallsInv
<1> QED BY <1>4, <1>6

LEMMA WorkStepCalls ==
  ASSUME CallsInv, NEW r \in Req, WorkStep(r)
  PROVE  OneCopy' /\ AnswersEarned'
<1>1. TypeOK BY DEF CallsInv, CallerInv
<1>2. Handled(r) BY <1>1, WorkStepSends DEF Handled
<1>3. PICK msgs \in Seq(Message), w \in WorkRec : Sends(r, msgs, w) BY <1>1, WorkStepSends
<1> QED BY <1>2, <1>3, SendUpCalls DEF Sends

\* The client takes the only copy of a request, which no local server has seen.
LEMMA TakeCalls ==
  ASSUME CallsInv, NEW t \in Conn, Take(t)
  PROVE  /\ OneCopy' /\ AnswersEarned'
         /\ \E r \in Req : /\ Issued(r) /\ runs[r] = 0
                           /\ runs' = [runs EXCEPT ![r] = 1]
<1>1. /\ down \in [Conn -> Seq(Req)] /\ down[t] \in Seq(Req) /\ down[t] # <<>>
      /\ work \in [Req -> WorkRec] /\ runs \in [Req -> Nat] /\ up \in [Conn -> Seq(Message)]
  BY DEF CallsInv, CallerInv, TypeOK, WorkRec, Take
<1>2. PICK r \in Req : r = Head(down[t]) /\ In(r, down[t]) BY <1>1, TailIn
<1>3. /\ down' = [down EXCEPT ![t] = Tail(@)]
      /\ runs' = [runs EXCEPT ![r] = @ + 1]
      /\ \E w : w.state = "local" /\ work' = [work EXCEPT ![r] = w]
      /\ UNCHANGED <<queue, caller, via, fut, up>>
  <2>1. [state |-> "local", conn |-> t, total |-> 0, next |-> 0].state = "local" OBVIOUS
  <2> QED BY <1>2, <2>1 DEF Take, serverVars, callerVars
<1>4. Once(down'[t]) /\ ~In(r, down'[t]) /\ \A q \in Req : In(q, down'[t]) => In(q, down[t])
  BY <1>1, <1>2, <1>3, TailIn DEF CallsInv, OneCopy
<1>5. /\ via[r] = t /\ ~Handled(r) /\ Issued(r) /\ runs[r] = 0 /\ ~In(r, queue[t])
      /\ \A u \in Conn : u # t => ~In(r, queue[u]) /\ ~In(r, down[u])
  BY <1>2 DEF CallsInv, OneCopy
<1>6. /\ Handled(r)' /\ \A q \in Req : q # r => (Handled(q)' <=> Handled(q))
      /\ \A q \in Req : Issued(q)' <=> Issued(q)
  <2>1. work'[r].state = "local" /\ \A q \in Req : q # r => work'[q] = work[q]
    BY <1>1, <1>2, <1>3
  <2>2. Handled(r)' /\ \A q \in Req : q # r => (Handled(q)' <=> Handled(q))
    BY <2>1 DEF Handled
  <2>3. \A q \in Req : Issued(q)' <=> Issued(q) BY <1>3 DEF Issued
  <2> QED BY <2>2, <2>3
<1>7. /\ runs'[r] = 1 /\ runs' = [runs EXCEPT ![r] = 1]
      /\ \A q \in Req : q # r => runs'[q] = runs[q]
  BY <1>1, <1>2, <1>3, <1>5
<1>8. \A u \in Conn : Once(queue'[u]) /\ Once(down'[u])
  BY <1>1, <1>3, <1>4 DEF CallsInv, OneCopy
<1>9. ASSUME NEW u \in Conn, NEW q \in Req
      PROVE  /\ In(q, queue'[u]) \/ In(q, down'[u])
                  => q # r /\ (In(q, queue[u]) \/ In(q, down[u]))
             /\ ~(In(q, queue'[u]) /\ In(q, down'[u]))
  <2>1. CASE u = t BY <1>3, <1>4, <1>5, <2>1 DEF CallsInv, OneCopy
  <2>2. CASE u # t
    <3>1. down'[u] = down[u] BY <1>1, <1>3, <2>2
    <3> QED BY <1>3, <1>5, <2>2, <3>1 DEF CallsInv, OneCopy
  <2> QED BY <2>1, <2>2
<1>10. \A u \in Conn, q \in Req : In(q, queue'[u]) \/ In(q, down'[u])
                                  => via'[q] = u /\ ~Handled(q)' /\ Issued(q)'
  BY <1>3, <1>6, <1>9 DEF CallsInv, OneCopy
<1>11. /\ \A q \in Req : Handled(q)' => Issued(q)'
       /\ \A q \in Req : runs'[q] = IF Handled(q)' THEN 1 ELSE 0
  <2>1. ASSUME NEW q \in Req, q # r
        PROVE  /\ Handled(q)' => Issued(q)'
               /\ runs'[q] = IF Handled(q)' THEN 1 ELSE 0
    <3>1. (Handled(q)' <=> Handled(q)) /\ (Issued(q)' <=> Issued(q)) /\ runs'[q] = runs[q]
      BY <1>6, <1>7, <2>1
    <3>2. (Handled(q) => Issued(q)) /\ runs[q] = IF Handled(q) THEN 1 ELSE 0
      BY DEF CallsInv, OneCopy
    <3> QED BY <3>1, <3>2 DEF Handled, Issued
  <2>2. Issued(r)' /\ runs'[r] = IF Handled(r)' THEN 1 ELSE 0
    BY <1>2, <1>5, <1>6, <1>7 DEF Handled, Issued
  <2> QED BY <2>1, <2>2 DEF Handled, Issued
<1>12. OneCopy' BY <1>8, <1>9, <1>10, <1>11 DEF OneCopy
<1>13. (\A u \in Conn : \A i \in DOMAIN up[u] : Handled(up[u][i].req))'
  <2>1. SUFFICES ASSUME NEW u \in Conn, NEW i \in DOMAIN up[u]
                 PROVE  work'[up[u][i].req].state # "none"
    BY <1>3 DEF Handled
  <2>2. up[u][i] \in Message BY <1>1, <2>1
  <2>3. up[u][i].req \in Req BY <2>2 DEF Message
  <2>4. Handled(up[u][i].req) BY <2>1 DEF CallsInv, AnswersEarned
  <2>5. work'[up[u][i].req] = work[up[u][i].req] BY <1>1, <1>3, <1>5, <2>3, <2>4
  <2> QED BY <2>4, <2>5 DEF Handled
<1>14. AnswersEarned'
  <2>1. \A q \in Req : Handled(q) => Handled(q)' BY <1>6
  <2> QED BY <1>3, <1>13, <2>1, EarnedStays DEF CallsInv
<1> QED BY <1>2, <1>5, <1>7, <1>12, <1>14

\* The steps that touch no request, but may lose what is on the wire.
LEMMA WireCalls ==
  ASSUME CallsInv, UNCHANGED <<queue, caller, via, fut, work, runs>>,
         \A t \in Conn : down'[t] = down[t] \/ down'[t] = <<>>,
         \A t \in Conn : up'[t] = up[t] \/ up'[t] = <<>>
  PROVE  OneCopy' /\ AnswersEarned'
<1>1. \A q \in Req : (Handled(q)' <=> Handled(q)) /\ (Issued(q)' <=> Issued(q))
  BY DEF Handled, Issued
<1>2. Once(<<>>) /\ \A q : ~In(q, <<>>) BY DEF Once, In
<1>3. \A t \in Conn : Once(queue'[t]) /\ Once(down'[t]) BY <1>2 DEF CallsInv, OneCopy
<1>4. \A t \in Conn, q \in Req : In(q, down'[t]) => In(q, down[t]) BY <1>2
<1>5. OneCopy' BY <1>1, <1>3, <1>4, CopiesDwindle DEF CallsInv
<1>6. (\A t \in Conn : \A i \in DOMAIN up[t] : Handled(up[t][i].req))'
  BY DEF CallsInv, AnswersEarned, Handled
<1>7. AnswersEarned' BY <1>1, <1>6, EarnedStays DEF CallsInv
<1> QED BY <1>5, <1>7

LEMMA NextKeepsCalls == CallsInv /\ [Next]_vars => CallsInv'
<1> SUFFICES ASSUME CallsInv, [Next]_vars PROVE CallsInv'
  OBVIOUS
<1> DEFINE Kept == OneCopy' /\ AnswersEarned'
<1>1. CallerInv' BY NextKeepsCallers DEF CallsInv
<1>2. ASSUME NEW r \in Req, CallerStep(r) PROVE Kept BY <1>2, CallerStepCalls
<1>3. ASSUME NEW r \in Req, WorkStep(r) PROVE Kept BY <1>3, WorkStepCalls
<1>4. ASSUME NEW t \in Conn, ServerStep(t) PROVE Kept BY <1>4, ServerStepCalls
<1>5. ASSUME NEW t \in Conn, Take(t) PROVE Kept BY <1>5, TakeCalls
<1>6. ASSUME NEW t \in Conn, Connect(t) PROVE Kept
  BY <1>6, WireCalls DEF Connect, callerVars
<1>7. ASSUME NEW t \in Conn, Cut(t) PROVE Kept
  <2>1. UNCHANGED <<queue, caller, via, fut, work, runs>>
    BY <1>7 DEF Cut, serverVars, callerVars, hostVars
  <2>2. /\ \A u \in Conn : down'[u] = down[u] \/ down'[u] = <<>>
        /\ \A u \in Conn : up'[u] = up[u] \/ up'[u] = <<>>
    BY <1>7 DEF Cut, CallsInv, CallerInv, TypeOK
  <2> QED BY <2>1, <2>2, WireCalls
<1>8. ASSUME Leave PROVE Kept
  <2>1. UNCHANGED <<queue, caller, via, fut, work, runs, up>>
    BY <1>8 DEF Leave, serverVars, callerVars
  <2>2. \A u \in Conn : down'[u] = down[u] \/ down'[u] = <<>>
    BY <1>8 DEF Leave, CallsInv, CallerInv, TypeOK
  <2> QED BY <2>1, <2>2, WireCalls
<1>9. ASSUME UNCHANGED vars PROVE Kept
  BY <1>9, WireCalls DEF vars, serverVars, callerVars, hostVars, wireVars
<1> QED
  BY <1>1, <1>2, <1>3, <1>4, <1>5, <1>6, <1>7, <1>8, <1>9 DEF CallsInv, Next

LEMMA InitCallsInv == Init => CallsInv
<1> SUFFICES ASSUME Init PROVE CallsInv
  OBVIOUS
<1>1. Once(<<>>) /\ \A q : ~In(q, <<>>) BY DEF Once, In
<1>2. \A r \in Req : ~Handled(r) BY DEF Init, Handled, NoWork
<1>3. OneCopy BY <1>1, <1>2 DEF Init, OneCopy
<1>4. AnswersEarned BY DEF Init, AnswersEarned
<1> QED BY <1>3, <1>4, InitCallers DEF CallsInv

-----------------------------------------------------------------------------
(* The implementation of at-most-once calls                                *)

Told == [r \in Req |-> Status(r)]

\* A step that changes what one caller knows, as its caller sees it.
LEMMA ToldChanges ==
  ASSUME NEW r \in Req, NEW c, caller \in [Req -> Callers],
         caller' = [caller EXCEPT ![r] = c]
  PROVE  /\ c \in {"idle", "body"} => Told' = [Told EXCEPT ![r] = "idle"]
         /\ c = "waiting" => Told' = [Told EXCEPT ![r] = "waiting"]
         /\ c \in {"answer", "error", "torn"} => Told' = [Told EXCEPT ![r] = "answered"]
         /\ c \in {"lost", "timeout", "refused"} => Told' = [Told EXCEPT ![r] = "failed"]
<1>1. caller'[r] = c /\ \A q \in Req : q # r => caller'[q] = caller[q] OBVIOUS
<1>2. \A q \in Req : q # r => Status(q)' = Status(q) BY <1>1 DEF Status
<1>3. c \in {"idle", "body"} => Status(r)' = "idle" BY <1>1 DEF Status
<1>4. c = "waiting" => Status(r)' = "waiting" BY <1>1 DEF Status
<1>5. c \in {"answer", "error", "torn"} => Status(r)' = "answered" BY <1>1 DEF Status
<1>6. c \in {"lost", "timeout", "refused"} => Status(r)' = "failed" BY <1>1 DEF Status
<1> QED BY <1>2, <1>3, <1>4, <1>5, <1>6 DEF Told

LEMMA CallerStepImplements ==
  ASSUME CallsInv, NEW r \in Req, CallerStep(r)
  PROVE  Abstract!NextCalls \/ UNCHANGED <<Told, runs>>
<1>1. /\ caller \in [Req -> Callers] /\ runs' = runs
      /\ \A q \in Req : caller[q] = "waiting"
                        => fut[q] \in {"pending", "answer", "error", "torn", "lost"}
  BY DEF CallsInv, CallerInv, TypeOK, PendingKept, CallerStep, Pick, Issue, Return, Timeout,
         hostVars
<1>2. Told[r] = Status(r) BY DEF Told
<1>3. CASE Pick(r)
  <2>1. Told[r] = "idle" BY <1>2, <1>3 DEF Pick, Status
  <2>2. CASE caller' = [caller EXCEPT ![r] = "refused"]
    <3>1. Told' = [Told EXCEPT ![r] = "failed"] BY <1>1, <2>2, ToldChanges
    <3>2. Abstract!Refuse(r) BY <1>1, <2>1, <3>1 DEF Abstract!Refuse, Told
    <3> QED BY <3>2 DEF Abstract!NextCalls
  <2>3. CASE caller' = [caller EXCEPT ![r] = "body"]
    <3>1. Told' = [Told EXCEPT ![r] = "idle"] BY <1>1, <2>3, ToldChanges
    <3>2. Told' = Told BY <2>1, <3>1 DEF Told
    <3> QED BY <1>1, <3>2
  <2> QED BY <1>3, <2>2, <2>3 DEF Pick
<1>4. CASE Issue(r)
  <2>1. Told[r] = "idle" BY <1>2, <1>4 DEF Issue, Status
  <2>2. Told' = [Told EXCEPT ![r] = "waiting"] BY <1>1, <1>4, ToldChanges DEF Issue
  <2>3. Abstract!Issue(r) BY <1>1, <2>1, <2>2 DEF Abstract!Issue, Told
  <2> QED BY <2>3 DEF Abstract!NextCalls
<1>5. CASE Return(r)
  <2>1. Told[r] = "waiting" BY <1>2, <1>5 DEF Return, Status
  <2>2. CASE fut[r] \in {"answer", "error", "torn"}
    <3>1. runs[r] = 1 BY <2>2 DEF CallsInv, OneCopy, AnswersEarned
    <3>2. Told' = [Told EXCEPT ![r] = "answered"] BY <1>1, <1>5, <2>2, ToldChanges DEF Return
    <3>3. Abstract!Answer(r) BY <1>1, <2>1, <3>1, <3>2 DEF Abstract!Answer, Told
    <3> QED BY <3>3 DEF Abstract!NextCalls
  <2>3. CASE fut[r] = "lost"
    <3>1. Told' = [Told EXCEPT ![r] = "failed"] BY <1>1, <1>5, <2>3, ToldChanges DEF Return
    <3>2. Abstract!Fail(r) BY <1>1, <2>1, <3>1 DEF Abstract!Fail, Told
    <3> QED BY <3>2 DEF Abstract!NextCalls
  <2> QED BY <1>1, <1>5, <2>2, <2>3 DEF Return
<1>6. CASE Timeout(r)
  <2>1. Told[r] = "waiting" BY <1>2, <1>6 DEF Timeout, Status
  <2>2. Told' = [Told EXCEPT ![r] = "failed"] BY <1>1, <1>6, ToldChanges DEF Timeout
  <2>3. Abstract!Fail(r) BY <1>1, <2>1, <2>2 DEF Abstract!Fail, Told
  <2> QED BY <2>3 DEF Abstract!NextCalls
<1> QED BY <1>3, <1>4, <1>5, <1>6 DEF CallerStep

LEMMA NextImplements ==
  CallsInv /\ [Next]_vars => [Abstract!NextCalls]_<<Told, runs>>
<1> SUFFICES ASSUME CallsInv, [Next]_vars
             PROVE  Abstract!NextCalls \/ UNCHANGED <<Told, runs>>
  OBVIOUS
<1>1. ASSUME NEW r \in Req, CallerStep(r) PROVE Abstract!NextCalls \/ UNCHANGED <<Told, runs>>
  BY <1>1, CallerStepImplements
<1>2. ASSUME NEW t \in Conn, Take(t) PROVE Abstract!NextCalls
  <2>1. PICK r \in Req : Issued(r) /\ runs[r] = 0 /\ runs' = [runs EXCEPT ![r] = 1]
    BY <1>2, TakeCalls
  <2>2. caller' = caller BY <1>2 DEF Take, callerVars
  <2>3. Told' = Told BY <2>2 DEF Told, Status
  <2>4. Told[r] # "idle" BY <2>1 DEF Told, Status, Issued
  <2>5. Abstract!Run(r) BY <2>1, <2>3, <2>4 DEF Abstract!Run, Told
  <2> QED BY <2>5 DEF Abstract!NextCalls
<1>3. ASSUME UNCHANGED <<caller, runs>> PROVE UNCHANGED <<Told, runs>>
  BY <1>3 DEF Told, Status
<1>4. ASSUME NEW t \in Conn, ServerStep(t) PROVE UNCHANGED <<caller, runs>>
  BY <1>4 DEF ServerStep, Register, RegisterFails, Write, WriteFails, Read, ReadFails, RunEnds,
              callerVars, hostVars
<1>5. ASSUME NEW r \in Req, WorkStep(r) PROVE UNCHANGED <<caller, runs>>
  BY <1>5 DEF WorkStep, Answer, NextChunk, AnswerFails, SendLast, SendUp, callerVars
<1>6. ASSUME NEW t \in Conn, Connect(t) \/ Cut(t) PROVE UNCHANGED <<caller, runs>>
  BY <1>6 DEF Connect, Cut, callerVars, hostVars
<1>7. ASSUME Leave \/ UNCHANGED vars PROVE UNCHANGED <<caller, runs>>
  BY <1>7 DEF Leave, vars, callerVars, hostVars
<1> QED BY <1>1, <1>2, <1>3, <1>4, <1>5, <1>6, <1>7 DEF Next

\* A request of a browser is put to the host's local server at most once,
\* whatever becomes of the connections; its caller hears one outcome; and an
\* answer, an error of the client included, means that it was put to it.
THEOREM RequestsAreAtMostOnce == Spec => AtMostOnce
<1>1. Init => Abstract!InitCalls
  BY DEF Init, Abstract!InitCalls, Status
<1>2. CallsInv /\ [Next]_vars => [Abstract!NextCalls]_<<Told, runs>> BY NextImplements
<1> QED
  BY <1>1, <1>2, InitCallsInv, NextKeepsCalls, PTL DEF Spec, AtMostOnce, Abstract!Calls, Told

-----------------------------------------------------------------------------
(* Whole answers                                                           *)

\* Whoever knows the number of chunks of r's answer knows the same one: the
\* chunks under way (u), what has been received (c), the task that sends (w).
Part(m, r) == m.req = r /\ m.kind \in {"start", "chunk"}
Tells(r, n, u, c, w) ==
  \/ \E t \in Conn : \E i \in DOMAIN u[t] : Part(u[t][i], r) /\ u[t][i].total = n
  \/ \E t \in Conn : c[t][r].total # 0 /\ c[t][r].total = n
  \/ w[r].state = "sending" /\ w[r].total = n
OneTotal(u, c, w) ==
  /\ \A r \in Req : \A n, k \in Nat : Tells(r, n, u, c, w) /\ Tells(r, k, u, c, w) => n = k
  /\ \A r \in Req : \A n \in Nat : Tells(r, n, u, c, w) => w[r].state \in {"sending", "done"}
  /\ \A t \in Conn : \A i \in DOMAIN u[t], r \in Req :
       Part(u[t][i], r) => u[t][i].index < u[t][i].total
  /\ \A t \in Conn, r \in Req : c[t][r].got \subseteq 0..(c[t][r].total - 1)
WholeInv == CallsInv /\ OneTotal(up, chunked, work) /\ WholeAnswers

\* So many of the chunks are all of them.
LEMMA EnoughIsAll ==
  ASSUME NEW c \in ChunkRec, c.got \subseteq 0..(c.total - 1), Complete(c)
  PROVE  c.got = 0..(c.total - 1)
<1>1. c.total \in Nat \ {0} /\ Cardinality(c.got) >= c.total BY Bounds DEF ChunkRec, Complete
<1>2. /\ IsFiniteSet(0..(c.total - 1)) /\ Cardinality(0..(c.total - 1)) = c.total
  <2> DEFINE last == c.total - 1
  <2>1. 0 \in Int /\ last \in Int /\ ~(0 > last) /\ last - 0 + 1 = c.total BY <1>1
  <2> HIDE DEF last
  <2>2. IsFiniteSet(0..last) /\ Cardinality(0..last) = IF 0 > last THEN 0 ELSE last - 0 + 1
    BY <2>1, FS_Interval
  <2>3. IsFiniteSet(0..last) /\ Cardinality(0..last) = c.total BY <2>1, <2>2
  <2> QED BY <2>3 DEF last
<1>3. /\ IsFiniteSet(c.got) /\ Cardinality(c.got) <= c.total
      /\ Cardinality(0..(c.total - 1)) = Cardinality(c.got) => 0..(c.total - 1) = c.got
  BY <1>2, FS_Subset
<1>4. Cardinality(c.got) \in Nat BY <1>3, FS_CardinalityType
<1> QED BY <1>1, <1>2, <1>3, <1>4

\* What nobody learns more of stays so.
LEMMA TellsDwindle ==
  ASSUME OneTotal(up, chunked, work),
         NEW u, NEW c, NEW w,
         \A r \in Req : \A n \in Nat : Tells(r, n, u, c, w) => Tells(r, n, up, chunked, work),
         \A r \in Req : work[r].state \in {"sending", "done"} => w[r].state \in {"sending", "done"},
         \A t \in Conn : \A i \in DOMAIN u[t] : \E j \in DOMAIN up[t] : u[t][i] = up[t][j],
         \A t \in Conn, r \in Req : c[t][r].got \subseteq 0..(c[t][r].total - 1)
  PROVE  OneTotal(u, c, w)
<1>1. \A r \in Req : \A n, k \in Nat : Tells(r, n, u, c, w) /\ Tells(r, k, u, c, w) => n = k
  BY DEF OneTotal
<1>2. \A r \in Req : \A n \in Nat : Tells(r, n, u, c, w) => w[r].state \in {"sending", "done"}
  BY DEF OneTotal
<1>3. \A t \in Conn : \A i \in DOMAIN u[t], r \in Req :
        Part(u[t][i], r) => u[t][i].index < u[t][i].total
  BY DEF OneTotal
<1> QED BY <1>1, <1>2, <1>3 DEF OneTotal

\* The steps that send nothing to the server and read nothing there.
LEMMA QuietWhole ==
  ASSUME WholeInv, UNCHANGED <<chunked, work>>,
         \A t \in Conn : up'[t] = up[t] \/ up'[t] = <<>>
  PROVE  OneTotal(up', chunked', work')
<1>1. \A t \in Conn : \A i \in DOMAIN up'[t] : i \in DOMAIN up[t] /\ up'[t][i] = up[t][i]
  <2>1. DOMAIN <<>> = {} OBVIOUS
  <2> QED BY <2>1
<1>2. \A r \in Req : \A n \in Nat :
        Tells(r, n, up', chunked', work') => Tells(r, n, up, chunked, work)
  BY <1>1 DEF Tells
<1>3. \A t \in Conn, r \in Req : chunked'[t][r].got \subseteq 0..(chunked'[t][r].total - 1)
  BY DEF WholeInv, OneTotal
<1> QED BY <1>1, <1>2, <1>3, TellsDwindle DEF WholeInv

\* reader(): a chunk adds its index to those received, and tells nothing new.
LEMMA ReadWhole ==
  ASSUME WholeInv, NEW t \in Conn, Read(t)
  PROVE  OneTotal(up', chunked', work') /\ WholeAnswers'
<1> DEFINE m == Head(up[t])
           c == Collected(t, m)
<1>1. /\ up \in [Conn -> Seq(Message)] /\ up[t] \in Seq(Message) /\ up[t] # <<>>
      /\ chunked \in [Conn -> [Req -> ChunkRec]] /\ fut \in [Req -> Futures]
  BY DEF WholeInv, CallsInv, CallerInv, TypeOK, ChunkRec, Read
<1>2. /\ 1 \in DOMAIN up[t] /\ m = up[t][1] /\ m \in Message
      /\ \A i \in DOMAIN Tail(up[t]) : i + 1 \in DOMAIN up[t] /\ Tail(up[t])[i] = up[t][i + 1]
  BY <1>1
<1>3. /\ m.req \in Req /\ m.total \in Nat \ {0} /\ m.index \in Nat
      /\ m.kind \in {"answer", "error", "start", "chunk"}
  BY <1>2, Bounds DEF Message
<1>4. /\ up' = [up EXCEPT ![t] = Tail(@)] /\ work' = work
  BY DEF Read, hostVars
<1>5. \A v \in Conn : \A i \in DOMAIN up'[v] : \E j \in DOMAIN up[v] : up'[v][i] = up[v][j]
  BY <1>1, <1>2, <1>4
<1>6. /\ \A v \in Conn, r \in Req : chunked[v][r].got \subseteq 0..(chunked[v][r].total - 1)
      /\ \A r \in Req : fut[r] # "torn"
  BY DEF WholeInv, OneTotal, WholeAnswers
<1>7. CASE m.kind \in {"answer", "error"}
  <2>1. chunked' = chunked /\ fut' = Resolved(t, m.req, m.kind) BY <1>7 DEF Read
  <2>2. WholeAnswers' BY <1>1, <1>6, <1>7, <2>1 DEF WholeAnswers, Resolved
  <2>3. \A r \in Req : \A n \in Nat :
          Tells(r, n, up', chunked', work') => Tells(r, n, up, chunked, work)
    BY <1>4, <1>5, <2>1 DEF Tells
  <2> QED BY <1>4, <1>5, <1>6, <2>1, <2>2, <2>3, TellsDwindle DEF WholeInv
<1>8. CASE m.kind \in {"start", "chunk"}
  <2>1. Part(m, m.req) /\ m.index < m.total
    BY <1>2, <1>3, <1>8 DEF Part, WholeInv, OneTotal
  <2>2. Tells(m.req, m.total, up, chunked, work) BY <1>2, <2>1 DEF Tells
  <2>3. chunked[t][m.req] \in ChunkRec /\ chunked[t][m.req].total \in Nat
    <3> HIDE DEF m
    <3>1. chunked[t][m.req] \in ChunkRec BY <1>1, <1>3
    <3> QED BY <3>1, Bounds DEF ChunkRec
  <2>4. chunked[t][m.req].total # 0 => chunked[t][m.req].total = m.total
    <3>1. chunked[t][m.req].total # 0
            => Tells(m.req, chunked[t][m.req].total, up, chunked, work)
      BY DEF Tells
    <3> QED BY <1>3, <2>2, <2>3, <3>1 DEF WholeInv, OneTotal
  <2>5. chunked[t][m.req].total = 0 => chunked[t][m.req] = Absent
    <3>1. chunked[t][m.req].got \subseteq 0..(chunked[t][m.req].total - 1) BY <1>3, <1>6
    <3>2. chunked[t][m.req].total = 0 => chunked[t][m.req].got = {} BY <3>1
    <3> HIDE DEF m
    <3> QED BY <2>3, <3>2 DEF ChunkRec, Absent
  <2>6. /\ c \in ChunkRec /\ c.total \in {0, m.total}
        /\ c.got \subseteq 0..(c.total - 1)
    <3>1. CASE m.kind = "start"
      <4>1. c = [total |-> m.total, got |-> {m.index}] BY <3>1 DEF Collected
      <4>2. m.total \in 0..MaxTotal /\ m.index \in 0..MaxTotal BY <1>2, Bounds DEF Message
      <4> QED BY <1>3, <2>1, <4>1, <4>2 DEF ChunkRec
    <3>2. CASE m.kind # "start" /\ chunked[t][m.req] = Absent
      <4>1. c = Absent BY <3>2 DEF Collected
      <4> QED BY <4>1, Bounds DEF Absent, ChunkRec
    <3>3. CASE m.kind # "start" /\ chunked[t][m.req] # Absent
      <4>1. c = [chunked[t][m.req] EXCEPT !.got = @ \cup {m.index}] BY <3>3 DEF Collected
      <4>2. /\ c.total = chunked[t][m.req].total /\ c.got = chunked[t][m.req].got \cup {m.index}
            /\ c \in ChunkRec
        <5>1. m.index \in 0..MaxTotal BY <1>2 DEF Message
        <5> HIDE DEF m, c
        <5> QED BY <2>3, <4>1, <5>1 DEF ChunkRec
      <4>3. c.total = m.total BY <2>4, <2>5, <3>3, <4>2
      <4>4. chunked[t][m.req].got \subseteq 0..(m.total - 1) BY <1>3, <1>6, <4>2, <4>3
      <4> HIDE DEF m, c
      <4> QED BY <1>3, <2>1, <4>2, <4>3, <4>4
    <3> QED BY <3>1, <3>2, <3>3
  <2> HIDE DEF c
  <2>7. /\ \/ chunked' = [chunked EXCEPT ![t][m.req] = Absent]
           \/ chunked' = [chunked EXCEPT ![t][m.req] = c]
        /\ \/ fut' = fut
           \/ /\ Complete(c)
              /\ fut' = Resolved(t, m.req, IF c.got = 0..(c.total - 1) THEN "answer" ELSE "torn")
    BY <1>8 DEF Read, c
  <2>8. Absent \in ChunkRec /\ Absent.total = 0 /\ Absent.got = {}
    BY Bounds DEF Absent, ChunkRec
  <2>9. WholeAnswers'
    <3>1. CASE fut' = fut BY <1>6, <3>1 DEF WholeAnswers
    <3>2. CASE Complete(c) /\ fut' = Resolved(t, m.req, IF c.got = 0..(c.total - 1)
                                                        THEN "answer" ELSE "torn")
      <4>1. fut' = Resolved(t, m.req, "answer") BY <2>6, <3>2, EnoughIsAll
      <4> QED BY <1>1, <1>6, <4>1 DEF WholeAnswers, Resolved
    <3> QED BY <2>7, <3>1, <3>2
  <2>10. /\ \A v \in Conn, r \in Req : \/ chunked'[v][r] = chunked[v][r]
                                       \/ (r = m.req /\ chunked'[v][r] \in {Absent, c})
    <3> HIDE DEF m
    <3> QED BY <1>1, <2>7
  <2>11. \A v \in Conn, r \in Req : chunked'[v][r].got \subseteq 0..(chunked'[v][r].total - 1)
    BY <1>6, <2>6, <2>8, <2>10
  <2>12. ASSUME NEW r \in Req, NEW n \in Nat, Tells(r, n, up', chunked', work')
         PROVE  Tells(r, n, up, chunked, work)
    <3>1. ASSUME NEW v \in Conn, chunked'[v][r].total # 0, chunked'[v][r].total = n
          PROVE  Tells(r, n, up, chunked, work)
      <4>1. CASE chunked'[v][r] = chunked[v][r] BY <3>1, <4>1 DEF Tells
      <4>2. CASE r = m.req /\ chunked'[v][r] \in {Absent, c}
        <5>1. n = m.total BY <2>6, <2>8, <3>1, <4>2
        <5> QED BY <2>2, <4>2, <5>1
      <4> QED BY <2>10, <4>1, <4>2
    <3>2. ASSUME NEW v \in Conn, NEW i \in DOMAIN up'[v],
                 Part(up'[v][i], r), up'[v][i].total = n
          PROVE  Tells(r, n, up, chunked, work)
      BY <1>5, <3>2 DEF Tells
    <3>3. ASSUME work'[r].state = "sending", work'[r].total = n
          PROVE  Tells(r, n, up, chunked, work)
      <4> HIDE DEF m
      <4>1. work[r].state = "sending" /\ work[r].total = n BY <1>4, <3>3
      <4> QED BY <4>1 DEF Tells
    <3> QED BY <2>12, <3>1, <3>2, <3>3 DEF Tells
  <2> HIDE DEF m
  <2>13. OneTotal(up, chunked, work) BY DEF WholeInv
  <2>14. \A r \in Req : \A n \in Nat :
           Tells(r, n, up', chunked', work') => Tells(r, n, up, chunked, work)
    BY <2>12
  <2>15. \A r \in Req : work[r].state \in {"sending", "done"} => work'[r].state \in {"sending", "done"}
    BY <1>4
  <2>16. OneTotal(up', chunked', work') BY <1>5, <2>11, <2>13, <2>14, <2>15, TellsDwindle
  <2> QED BY <2>9, <2>16
<1> QED BY <1>3, <1>7, <1>8

\* The chunks of one step of a task have the total of the task, or a new one.
SendsOf(r, n, msgs, w) ==
  /\ SendUp(r, msgs, w)
  /\ work[r].state = "sending" => n = work[r].total
  /\ w.state = "done" \/ (w.state = "sending" /\ w.total = n)
  /\ \A i \in DOMAIN msgs : /\ msgs[i].req = r
                            /\ Part(msgs[i], r) => msgs[i].total = n /\ msgs[i].index < n
LEMMA WorkStepTotals ==
  ASSUME TypeOK, NEW r \in Req, WorkStep(r)
  PROVE  \E n \in Nat, msgs \in Seq(Message) : \E w : SendsOf(r, n, msgs, w)
<1> DEFINE Goal == \E n \in Nat, msgs \in Seq(Message) : \E w : SendsOf(r, n, msgs, w)
<1>1. /\ work[r] \in WorkRec /\ work[r].state \in {"local", "sending"}
      /\ work[r].total \in Nat /\ work[r].next \in Nat
      /\ work[r].state = "sending" => work[r].next < work[r].total
  <2>1. work[r] \in WorkRec BY DEF TypeOK, WorkRec
  <2>2. work[r].state \in {"local", "sending"} BY DEF WorkStep, Answer, NextChunk, AnswerFails
  <2>3. work[r].state = "sending" => work[r].next < work[r].total BY <2>2 DEF TypeOK
  <2>4. work[r].total \in Nat /\ work[r].next \in Nat BY <2>1, Bounds DEF WorkRec
  <2> QED BY <2>1, <2>2, <2>3, <2>4
<1>2. Finished.state = "done" BY DEF Finished, NoWork
<1>3. ASSUME NEW kind \in {"answer", "error"}
      PROVE  /\ Whole(kind, r) \in Message /\ Whole(kind, r).req = r
             /\ \A q : ~Part(Whole(kind, r), q)
  BY Bounds DEF Whole, Message, Part
<1>4. ASSUME NEW n \in Nat, NEW msg \in Message, NEW w,
             work[r].state = "sending" => n = work[r].total,
             w.state = "done" \/ (w.state = "sending" /\ w.total = n),
             msg.req = r, Part(msg, r) => msg.total = n /\ msg.index < n,
             SendUp(r, <<msg>>, w)
      PROVE  Goal
  <2> DEFINE one == <<msg>>
  <2>1. one \in Seq(Message) /\ \A i \in DOMAIN one : one[i] = msg BY <1>4
  <2>2. SendUp(r, one, w) BY <1>4
  <2> HIDE DEF one
  <2>3. SendsOf(r, n, one, w) BY <1>4, <2>1, <2>2 DEF SendsOf
  <2> QED BY <2>1, <2>3
<1>5. ASSUME NEW n \in Nat, NEW msg \in Message,
             work[r].state = "sending" => n = work[r].total,
             msg.req = r, Part(msg, r) => msg.total = n /\ msg.index < n,
             SendLast(r, msg)
      PROVE  Goal
  <2> DEFINE err == Whole("error", r)
             one == <<msg>>
  <2>1. PICK after \in {<<>>, <<err>>} : SendUp(r, one \o after, Finished)
    BY <1>5 DEF SendLast
  <2>2. err \in Message /\ err.req = r /\ ~Part(err, r) BY <1>3
  <2>3. one \in Seq(Message) /\ \A i \in DOMAIN one : one[i] = msg BY <1>5
  <2> HIDE DEF err, one
  <2>4. after \in Seq(Message) /\ \A i \in DOMAIN after : after[i] = err
    <3>1. CASE after = <<>> BY <3>1
    <3>2. CASE after = <<err>> BY <2>2, <3>2
    <3> QED BY <2>1, <3>1, <3>2
  <2>5. /\ one \o after \in Seq(Message)
        /\ \A i \in DOMAIN (one \o after) : (one \o after)[i] \in {msg, err}
    BY <2>3, <2>4, ConcatIn
  <2>6. SendsOf(r, n, one \o after, Finished) BY <1>2, <1>5, <2>1, <2>2, <2>5 DEF SendsOf
  <2> QED BY <2>5, <2>6
<1> HIDE DEF Goal
<1>6. ASSUME Answer(r) PROVE Goal
  <2>1. work[r].state = "local" BY <1>6 DEF Answer
  <2>2. ASSUME SendLast(r, Whole("answer", r)) PROVE Goal
    <3>1. 0 \in Nat OBVIOUS
    <3> QED BY <1>3, <1>5, <2>1, <2>2, <3>1
  <2>3. ASSUME NEW n \in 2..MaxTotal,
               SendUp(r, <<Chunk(r, n, 0)>>,
                      [state |-> "sending", conn |-> work[r].conn, total |-> n, next |-> 1])
        PROVE  Goal
    <3> DEFINE w == [state |-> "sending", conn |-> work[r].conn, total |-> n, next |-> 1]
               msg == Chunk(r, n, 0)
    <3>1. msg \in Message /\ msg.req = r /\ msg.total = n /\ msg.index < n
      BY Bounds DEF Chunk, Message
    <3>2. w.state = "sending" /\ w.total = n /\ n \in Nat BY Bounds
    <3>3. SendUp(r, <<msg>>, w) BY <2>3
    <3> HIDE DEF w, msg
    <3> QED BY <1>4, <2>1, <3>1, <3>2, <3>3
  <2> QED BY <1>6, <2>2, <2>3 DEF Answer
<1>7. ASSUME NextChunk(r) PROVE Goal
  <2> DEFINE msg == Chunk(r, work[r].total, work[r].next)
             w == [work[r] EXCEPT !.next = @ + 1]
  <2>1. work[r].state = "sending" /\ work[r].next < work[r].total BY <1>1, <1>7 DEF NextChunk
  <2>2. msg \in Message /\ msg.req = r /\ msg.total = work[r].total /\ msg.index < work[r].total
    <3>1. work[r].total \in 1..MaxTotal /\ work[r].next \in 0..MaxTotal
      BY <1>1, <2>1, Bounds DEF WorkRec
    <3> QED BY <2>1, <3>1 DEF Chunk, Message
  <2>3. w.state = "sending" /\ w.total = work[r].total BY <1>1, <2>1 DEF WorkRec
  <2>4. SendLast(r, msg) \/ SendUp(r, <<msg>>, w) BY <1>7 DEF NextChunk
  <2> HIDE DEF msg, w
  <2> QED BY <1>1, <1>4, <1>5, <2>2, <2>3, <2>4
<1>8. ASSUME AnswerFails(r) PROVE Goal
  <2>1. SendUp(r, <<Whole("error", r)>>, Finished) BY <1>8 DEF AnswerFails
  <2> DEFINE msg == Whole("error", r)
  <2>2. msg \in Message /\ msg.req = r /\ ~Part(msg, r) BY <1>3
  <2>3. SendUp(r, <<msg>>, Finished) BY <2>1
  <2> HIDE DEF msg
  <2> QED BY <1>1, <1>2, <1>4, <2>2, <2>3
<1> QED BY <1>6, <1>7, <1>8 DEF WorkStep, Goal

LEMMA WorkStepWhole ==
  ASSUME WholeInv, NEW r \in Req, WorkStep(r)
  PROVE  OneTotal(up', chunked', work')
<1>1. TypeOK BY DEF WholeInv, CallsInv, CallerInv
<1>2. PICK n \in Nat, msgs \in Seq(Message) : \E w : SendsOf(r, n, msgs, w)
  BY <1>1, WorkStepTotals
<1>3. PICK w : SendsOf(r, n, msgs, w) BY <1>2
<1>4. /\ up \in [Conn -> Seq(Message)] /\ work \in [Req -> WorkRec]
      /\ work[r].state \in {"local", "sending"}
      /\ chunked' = chunked
      /\ work' = [work EXCEPT ![r] = w] \/ work' = [work EXCEPT ![r] = Finished]
      /\ up' = up \/ up' = [up EXCEPT ![work[r].conn] = @ \o msgs]
  BY <1>1, <1>3, WorkStepSends DEF TypeOK, WorkRec, SendsOf, SendUp, serverVars, Arrives
<1>5. Finished.state = "done" BY DEF Finished, NoWork
<1>6. /\ work'[r].state = "done" \/ (work'[r].state = "sending" /\ work'[r].total = n)
      /\ \A q \in Req : q # r => work'[q] = work[q]
  BY <1>3, <1>4, <1>5 DEF SendsOf
<1>7. ASSUME NEW t \in Conn, NEW i \in DOMAIN up'[t]
      PROVE  \/ \E j \in DOMAIN up[t] : up'[t][i] = up[t][j]
             \/ \E j \in DOMAIN msgs : up'[t][i] = msgs[j]
  <2>1. CASE up'[t] = up[t] BY <1>7, <2>1
  <2>2. CASE up'[t] = up[t] \o msgs
    <3>1. up[t] \in Seq(Message) BY <1>4
    <3> QED BY <1>7, <2>2, <3>1, ConcatIn
  <2>3. up'[t] = up[t] \/ up'[t] = up[t] \o msgs BY <1>4
  <2> QED BY <2>1, <2>2, <2>3
<1>8. ASSUME NEW q \in Req, NEW k \in Nat, Tells(q, k, up', chunked', work')
      PROVE  Tells(q, k, up, chunked, work) \/ (q = r /\ k = n)
  <2>1. ASSUME NEW t \in Conn, NEW i \in DOMAIN up'[t], Part(up'[t][i], q), up'[t][i].total = k
        PROVE  Tells(q, k, up, chunked, work) \/ (q = r /\ k = n)
    <3>1. CASE \E j \in DOMAIN up[t] : up'[t][i] = up[t][j] BY <2>1, <3>1 DEF Tells
    <3>2. CASE \E j \in DOMAIN msgs : up'[t][i] = msgs[j]
      BY <1>3, <2>1, <3>2 DEF SendsOf, Part
    <3> QED BY <1>7, <3>1, <3>2
  <2>2. ASSUME work'[q].state = "sending", work'[q].total = k
        PROVE  Tells(q, k, up, chunked, work) \/ (q = r /\ k = n)
    BY <1>6, <2>2 DEF Tells
  <2>3. ASSUME NEW t \in Conn, chunked'[t][q].total # 0, chunked'[t][q].total = k
        PROVE  Tells(q, k, up, chunked, work)
    BY <1>4, <2>3 DEF Tells
  <2> QED BY <1>8, <2>1, <2>2, <2>3 DEF Tells
<1>9. ASSUME NEW k \in Nat, Tells(r, k, up, chunked, work) PROVE k = n
  <2>1. work[r].state = "sending" BY <1>4, <1>9 DEF WholeInv, OneTotal
  <2>2. Tells(r, work[r].total, up, chunked, work) BY <2>1 DEF Tells
  <2>3. n = work[r].total BY <1>3, <2>1 DEF SendsOf
  <2> QED BY <1>9, <2>2, <2>3 DEF WholeInv, OneTotal
<1>10. \A q \in Req : \A j, k \in Nat :
         Tells(q, j, up', chunked', work') /\ Tells(q, k, up', chunked', work') => j = k
  BY <1>8, <1>9 DEF WholeInv, OneTotal
<1>11. \A q \in Req : \A k \in Nat :
         Tells(q, k, up', chunked', work') => work'[q].state \in {"sending", "done"}
  BY <1>6, <1>8 DEF WholeInv, OneTotal
<1>12. ASSUME NEW t \in Conn, NEW i \in DOMAIN up'[t], NEW q \in Req, Part(up'[t][i], q)
       PROVE  up'[t][i].index < up'[t][i].total
  <2>1. CASE \E j \in DOMAIN up[t] : up'[t][i] = up[t][j]
    BY <1>12, <2>1 DEF WholeInv, OneTotal
  <2>2. CASE \E j \in DOMAIN msgs : up'[t][i] = msgs[j]
    BY <1>3, <1>12, <2>2 DEF SendsOf, Part
  <2> QED BY <1>7, <2>1, <2>2
<1>13. \A t \in Conn, q \in Req : chunked'[t][q].got \subseteq 0..(chunked'[t][q].total - 1)
  BY <1>4 DEF WholeInv, OneTotal
<1> QED BY <1>10, <1>11, <1>12, <1>13 DEF OneTotal

\* A request that is taken is one of which no chunk was ever sent.
LEMMA TakeWhole ==
  ASSUME WholeInv, NEW t \in Conn, Take(t)
  PROVE  OneTotal(up', chunked', work')
<1>1. /\ down[t] \in Seq(Req) /\ down[t] # <<>> /\ work \in [Req -> WorkRec]
  BY DEF WholeInv, CallsInv, CallerInv, TypeOK, WorkRec, Take
<1>2. PICK r \in Req : r = Head(down[t]) /\ In(r, down[t]) BY <1>1, TailIn
<1>3. work[r].state = "none" BY <1>2 DEF WholeInv, CallsInv, OneCopy, Handled
<1>4. /\ UNCHANGED <<up, chunked>>
      /\ work'[r].state = "local" /\ \A q \in Req : q # r => work'[q] = work[q]
  BY <1>1, <1>2 DEF Take, serverVars
<1>5. \A q \in Req : \A n \in Nat :
        Tells(q, n, up', chunked', work') => Tells(q, n, up, chunked, work)
  BY <1>4 DEF Tells
<1>6. \A q \in Req : work[q].state \in {"sending", "done"} => work'[q].state \in {"sending", "done"}
  BY <1>3, <1>4
<1>7. \A v \in Conn, q \in Req : chunked'[v][q].got \subseteq 0..(chunked'[v][q].total - 1)
  BY <1>4 DEF WholeInv, OneTotal
<1> QED BY <1>4, <1>5, <1>6, <1>7, TellsDwindle DEF WholeInv

LEMMA NextKeepsWhole == WholeInv /\ [Next]_vars => WholeInv'
<1> SUFFICES ASSUME WholeInv, [Next]_vars PROVE WholeInv'
  OBVIOUS
<1> DEFINE Kept == OneTotal(up', chunked', work') /\ WholeAnswers'
<1>1. CallsInv' BY NextKeepsCalls DEF WholeInv
<1>2. fut \in [Req -> Futures] /\ \A r \in Req : fut[r] # "torn"
  BY DEF WholeInv, WholeAnswers, CallsInv, CallerInv, TypeOK
<1>3. ASSUME NEW r \in Req, CallerStep(r) PROVE Kept
  <2>1. UNCHANGED <<chunked, work, up>>
    BY <1>3 DEF CallerStep, Pick, Issue, Return, Timeout, serverVars, hostVars, wireVars
  <2>2. \A q \in Req : fut'[q] \in {fut[q], "pending", "cancelled"}
    BY <1>2, <1>3 DEF CallerStep, Pick, Issue, Return, Timeout
  <2> QED BY <1>2, <2>1, <2>2, QuietWhole DEF WholeAnswers
<1>4. ASSUME NEW r \in Req, WorkStep(r) PROVE Kept
  <2>1. fut' = fut
    BY <1>4 DEF WorkStep, Answer, NextChunk, AnswerFails, SendLast, SendUp, callerVars
  <2> QED BY <1>2, <1>4, <2>1, WorkStepWhole DEF WholeAnswers
<1>5. ASSUME NEW t \in Conn, Read(t) PROVE Kept BY <1>5, ReadWhole
<1>6. ASSUME NEW t \in Conn, RunEnds(t) PROVE Kept
  <2>1. UNCHANGED <<chunked, work>> /\ up' = [up EXCEPT ![t] = <<>>]
    BY <1>6 DEF RunEnds, hostVars
  <2>2. \A u \in Conn : up'[u] = up[u] \/ up'[u] = <<>>
    BY <2>1 DEF WholeInv, CallsInv, CallerInv, TypeOK
  <2>3. \A q \in Req : fut'[q] \in {fut[q], "lost"} BY <1>2, <1>6 DEF RunEnds
  <2> QED BY <1>2, <2>1, <2>2, <2>3, QuietWhole DEF WholeAnswers
<1>7. ASSUME NEW t \in Conn,
             Register(t) \/ RegisterFails(t) \/ Write(t) \/ WriteFails(t) \/ ReadFails(t)
               \/ Connect(t)
      PROVE  Kept
  <2>1. UNCHANGED <<chunked, work, up, fut>>
    BY <1>7 DEF Register, RegisterFails, Write, WriteFails, ReadFails, Connect,
                callerVars, hostVars, wireVars
  <2> QED BY <1>2, <2>1, QuietWhole DEF WholeAnswers
<1>8. ASSUME NEW t \in Conn, Take(t) PROVE Kept
  <2>1. fut' = fut BY <1>8 DEF Take, callerVars
  <2> QED BY <1>2, <1>8, <2>1, TakeWhole DEF WholeAnswers
<1>9. ASSUME NEW t \in Conn, Cut(t) PROVE Kept
  <2>1. UNCHANGED <<chunked, work, fut>> /\ up' = [up EXCEPT ![t] = <<>>]
    BY <1>9 DEF Cut, serverVars, callerVars, hostVars
  <2>2. \A u \in Conn : up'[u] = up[u] \/ up'[u] = <<>>
    BY <2>1 DEF WholeInv, CallsInv, CallerInv, TypeOK
  <2> QED BY <1>2, <2>1, <2>2, QuietWhole DEF WholeAnswers
<1>10. ASSUME Leave \/ UNCHANGED vars PROVE Kept
  <2>1. UNCHANGED <<chunked, work, up, fut>>
    BY <1>10 DEF Leave, vars, serverVars, callerVars, hostVars, wireVars
  <2> QED BY <1>2, <2>1, QuietWhole DEF WholeAnswers
<1>11. Kept
  BY <1>3, <1>4, <1>5, <1>6, <1>7, <1>8, <1>9, <1>10 DEF Next, ServerStep
<1>12. OneTotal(up, chunked, work)' BY <1>11
<1> QED BY <1>1, <1>11, <1>12 DEF WholeInv

LEMMA InitWhole == Init => WholeInv
<1> SUFFICES ASSUME Init PROVE WholeInv
  OBVIOUS
<1>1. /\ \A t \in Conn : up[t] = <<>>
      /\ \A t \in Conn, r \in Req : chunked[t][r].total = 0 /\ chunked[t][r].got = {}
      /\ \A r \in Req : work[r].state = "none" /\ fut[r] = "none"
  BY DEF Init, Absent, NoWork
<1>2. \A r \in Req : \A n \in Nat : ~Tells(r, n, up, chunked, work) BY <1>1 DEF Tells
<1> QED BY <1>1, <1>2, InitCallsInv DEF WholeInv, OneTotal, WholeAnswers

\* The answer a browser gets is never put together of fewer chunks than the host
\* sends, whatever interleaves with them on the tunnel and whatever is cut.
THEOREM AnswersAreWhole == Spec => []WholeAnswers
<1>1. WholeInv => WholeAnswers BY DEF WholeInv
<1> QED BY <1>1, InitWhole, NextKeepsWhole, PTL DEF Spec

=============================================================================
