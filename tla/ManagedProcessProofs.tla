------------------------ MODULE ManagedProcessProofs ------------------------
(***************************************************************************)
(* Proofs, for any number of workers, connections and monitors, of the     *)
(* invariants of ManagedProcess that hold in every interleaving.           *)
(***************************************************************************)
EXTENDS ManagedProcess, FiniteSetTheorems, TLAPS

-----------------------------------------------------------------------------
(* The operators on one worker's record return such a record.  HasConn is  *)
(* the conjunct of TypeOK that relates two of its fields.                  *)

HasConn(w) == w.phase # "idle" => w.conn # None

LEMMA WorkerOps ==
  ASSUME NEW w \in WorkerRec, HasConn(w)
  PROVE  /\ Ended(w) \in WorkerRec /\ HasConn(Ended(w))
         /\ Dropped(w) \in WorkerRec /\ HasConn(Dropped(w))
         /\ Usr1(w) \in WorkerRec /\ HasConn(Usr1(w))
         /\ Term(w) \in WorkerRec /\ HasConn(Term(w))
<1>1. /\ Ended(w) \in WorkerRec /\ HasConn(Ended(w))
      /\ Dropped(w) \in WorkerRec /\ HasConn(Dropped(w))
  BY DEF WorkerRec, Ended, Dropped, LiveStates, HasConn
<1>2. /\ [w EXCEPT !.usr1 = TRUE] \in WorkerRec /\ HasConn([w EXCEPT !.usr1 = TRUE])
      /\ [w EXCEPT !.term = TRUE] \in WorkerRec /\ HasConn([w EXCEPT !.term = TRUE])
  BY DEF WorkerRec, HasConn
<1>3. QED
  BY <1>1, <1>2 DEF Usr1, Term

LEMMA TaskDisjoint ==
  /\ Conn \subseteq Task /\ Monitor \subseteq Task /\ Lifespan \in Task
  /\ None \notin Task /\ Conn \cap Monitor = {} /\ Lifespan \notin Conn \cup Monitor
  /\ None \notin Pid /\ None \notin Conn /\ None \notin Monitor
BY ConstantsAssumption DEF Task

-----------------------------------------------------------------------------
(* Type correctness                                                        *)

\* The part of TypeOK that is about the OS: the workers and the connections.
WorkersOK == /\ worker \in [Pid -> WorkerRec]
             /\ \A p \in Pid : HasConn(worker[p])
ConnsOK == conn \in [Conn -> ConnRec]

\* The part about the main process and the counters.
TasksOK == /\ pc \in [Task -> PC]
           /\ rpid \in [Task -> Pid \cup {None}]
           /\ \A t \in Task : pc[t] \in {"rebound", "reconnecting"} => rpid[t] # None
FieldsOK == /\ pidFile \in Pid \cup {None}
            /\ path \in Task \cup {Field, Leaked, None}
            /\ proc \in Pid \cup {None}
            /\ writer \in Conn \cup {None}
            /\ connected \in BOOLEAN
            /\ stopping \in BOOLEAN
            /\ monitorTask \in Monitor \cup {None}
EnvOK == /\ phase \in {"fresh", "started", "stopped", "detached"}
         /\ version \in Version
         /\ exits \in 0..MaxExits
         /\ crashes \in 0..MaxCrashes

LEMMA TypeParts == TypeOK <=> WorkersOK /\ ConnsOK /\ TasksOK /\ FieldsOK /\ EnvOK
BY DEF TypeOK, WorkersOK, ConnsOK, TasksOK, FieldsOK, EnvOK, HasConn

LEMMA TypePartsNext == TypeOK' <=> WorkersOK' /\ ConnsOK' /\ TasksOK' /\ FieldsOK' /\ EnvOK'
BY DEF TypeOK, WorkersOK, ConnsOK, TasksOK, FieldsOK, EnvOK, HasConn

LEMMA UpdateWorker ==
  ASSUME WorkersOK, NEW p \in Pid, NEW r \in WorkerRec, HasConn(r),
         worker' = [worker EXCEPT ![p] = r]
  PROVE  WorkersOK'
BY DEF WorkersOK

\* What an action leaves alone stays typed.
LEMMA Untouched ==
  ASSUME TypeOK
  PROVE  /\ UNCHANGED worker => WorkersOK'
         /\ UNCHANGED conn => ConnsOK'
         /\ UNCHANGED <<pc, rpid>> => TasksOK'
         /\ UNCHANGED <<pidFile, path, fieldVars>> => FieldsOK'
         /\ UNCHANGED envVars => EnvOK'
BY TypeParts DEF WorkersOK, ConnsOK, TasksOK, FieldsOK, EnvOK, fieldVars, envVars

LEMMA InitTypeOK == Init => TypeOK
<1> SUFFICES ASSUME Init PROVE TypeOK
  OBVIOUS
<1>1. NoWorker \in WorkerRec /\ HasConn(NoWorker)
  BY DEF NoWorker, WorkerRec, LiveStates, HasConn
<1>2. WorkersOK
  BY <1>1 DEF Init, WorkersOK
<1>3. ConnsOK
  BY DEF Init, ConnsOK, ConnRec
<1>4. TasksOK /\ FieldsOK
  BY DEF Init, TasksOK, FieldsOK, PC
<1>5. EnvOK
  BY ConstantsAssumption DEF Init, EnvOK
<1>6. QED
  BY <1>2, <1>3, <1>4, <1>5, TypeParts

\* What start() does before its first await keeps tasks and fields typed.
LEMMA BeginStartType ==
  ASSUME TasksOK, FieldsOK, NEW t \in Task, NEW w, BeginStart(t, w)
  PROVE  TasksOK' /\ pidFile' \in Pid \cup {None} /\ path' \in Task
BY DEF BeginStart, TasksOK, FieldsOK, PC, InStart

LEMMA WorkerStepType ==
  ASSUME TypeOK, NEW p \in Pid, WorkerStep(p) \/ WorkerCrash(p)
  PROVE  TypeOK'
<1> USE TypePartsNext, Untouched
<1>p. WorkersOK /\ ConnsOK /\ TasksOK /\ EnvOK
  BY TypeParts
<1>0. worker[p] \in WorkerRec /\ HasConn(worker[p])
  BY <1>p DEF WorkersOK
<1>1. CASE WorkerBoot(p)
  <2> DEFINE r == [worker[p] EXCEPT !.state = "running"]
  <2>1. r \in WorkerRec /\ HasConn(r)
    BY <1>0 DEF WorkerRec, LiveStates, HasConn
  <2>2. worker' = [worker EXCEPT ![p] = r]
    BY <1>1 DEF WorkerBoot
  <2>3. WorkersOK'
    BY <1>p, <2>1, <2>2, UpdateWorker
  <2>4. QED
    BY <1>1, <2>3 DEF WorkerBoot
<1>2. ASSUME NEW c \in Conn, WorkerConnect(p, c)
      PROVE  TypeOK'
  <2> DEFINE r == [worker[p] EXCEPT !.phase = "hello", !.conn = c]
  <2>1. r \in WorkerRec /\ HasConn(r)
    BY <1>0, TaskDisjoint DEF WorkerRec, HasConn
  <2>2. worker' = [worker EXCEPT ![p] = r]
    BY <1>2 DEF WorkerConnect
  <2>3. WorkersOK'
    BY <1>p, <2>1, <2>2, UpdateWorker
  <2>4. [open |-> TRUE, inbox |-> <<>>, ver |-> worker[p].ver] \in ConnRec
    BY <1>0 DEF ConnRec, WorkerRec
  <2>5. ConnsOK'
    BY <1>p, <1>2, <2>4 DEF WorkerConnect, ConnsOK
  <2>6. TasksOK'
    BY <1>p, <1>2, TaskDisjoint DEF WorkerConnect, TasksOK, PC
  <2>7. QED
    BY <1>2, <2>3, <2>5, <2>6 DEF WorkerConnect
<1>3. CASE WorkerHandshake(p) \/ WorkerRead(p)
  <2> DEFINE c == worker[p].conn
             up == [worker[p] EXCEPT !.phase = "up"]
             dropped == Dropped(worker[p])
             ending == [Dropped(worker[p]) EXCEPT !.state = "stopping"]
  <2>1. c \in Conn
    BY <1>0, <1>3 DEF WorkerHandshake, WorkerRead, HasConn, WorkerRec
  <2>2. up \in WorkerRec /\ HasConn(up)
    BY <1>0, <2>1, TaskDisjoint DEF WorkerRec, HasConn
  <2>3. dropped \in WorkerRec /\ HasConn(dropped)
    BY <1>0, WorkerOps
  <2>4. ending \in WorkerRec /\ HasConn(ending)
    BY <2>3 DEF WorkerRec, LiveStates, HasConn
  <2>5. \E r \in {up, dropped, ending} : worker' = [worker EXCEPT ![p] = r]
    BY <1>3 DEF WorkerHandshake, WorkerRead
  <2>6. WorkersOK'
    BY <1>p, <2>2, <2>3, <2>4, <2>5, UpdateWorker
  <2>7. ConnsOK'
    <3>1. CASE UNCHANGED conn
      BY <3>1
    <3>2. CASE /\ conn[c].inbox # <<>>
               /\ conn' = [conn EXCEPT ![c].inbox = Tail(@)]
      <4>1. conn[c].inbox \in Seq(Lines)
        BY <2>1, <1>p DEF ConnsOK, ConnRec
      <4>2. Tail(conn[c].inbox) \in Seq(Lines)
        BY <3>2, <4>1
      <4>3. [conn[c] EXCEPT !.inbox = Tail(conn[c].inbox)] \in ConnRec
        BY <2>1, <4>2, <1>p DEF ConnsOK, ConnRec
      <4>4. QED
        BY <3>2, <2>1, <4>3, <1>p DEF ConnsOK
    <3>3. QED
      BY <1>3, <3>1, <3>2 DEF WorkerHandshake, WorkerRead
  <2>8. QED
    BY <1>3, <2>6, <2>7 DEF WorkerHandshake, WorkerRead
<1>4. CASE WorkerUsr1(p) \/ WorkerTerm(p)
  <2> DEFINE u == [Dropped(worker[p]) EXCEPT !.usr1 = FALSE]
             v == [worker[p] EXCEPT !.term = FALSE, !.state = "stopping"]
  <2>1. Dropped(worker[p]) \in WorkerRec /\ HasConn(Dropped(worker[p]))
    BY <1>0, WorkerOps
  <2>2. u \in WorkerRec /\ HasConn(u)
    BY <2>1 DEF WorkerRec, HasConn
  <2>3. v \in WorkerRec /\ HasConn(v)
    BY <1>0 DEF WorkerRec, LiveStates, HasConn
  <2>4. \/ worker' = [worker EXCEPT ![p] = u]
        \/ worker' = [worker EXCEPT ![p] = v]
    BY <1>4 DEF WorkerUsr1, WorkerTerm
  <2>5. WorkersOK'
    BY <1>p, <2>2, <2>3, <2>4, UpdateWorker
  <2>6. QED
    BY <1>4, <2>5 DEF WorkerUsr1, WorkerTerm
<1>5. CASE WorkerExit(p) \/ WorkerCrash(p)
  <2>1. Ended(worker[p]) \in WorkerRec /\ HasConn(Ended(worker[p]))
    BY <1>0, WorkerOps
  <2>2. worker' = [worker EXCEPT ![p] = Ended(worker[p])]
    BY <1>5 DEF WorkerExit, WorkerCrash
  <2>3. WorkersOK'
    BY <1>p, <2>1, <2>2, UpdateWorker
  <2>4. EnvOK'
    BY <1>p, <1>5, ConstantsAssumption DEF WorkerExit, WorkerCrash, EnvOK, envVars
  <2>5. QED
    BY <1>5, <2>3, <2>4 DEF WorkerExit, WorkerCrash
<1>6. QED
  BY <1>1, <1>2, <1>3, <1>4, <1>5 DEF WorkerStep

LEMMA StartStepType ==
  ASSUME TypeOK, NEW t \in Task, StartStep(t)
  PROVE  TypeOK'
<1> USE TypePartsNext, Untouched
<1>p. WorkersOK /\ TasksOK /\ FieldsOK
  BY TypeParts
<1>1. CASE Resignal(t)
  <2>1. rpid[t] \in Pid
    BY <1>1, <1>p DEF Resignal, TasksOK
  <2>2. worker[rpid[t]] \in WorkerRec /\ HasConn(worker[rpid[t]])
    BY <1>p, <2>1 DEF WorkersOK
  <2>3. Usr1(worker[rpid[t]]) \in WorkerRec /\ HasConn(Usr1(worker[rpid[t]]))
    BY <2>2, WorkerOps
  <2>4. \/ UNCHANGED worker
        \/ worker' = [worker EXCEPT ![rpid[t]] = Usr1(worker[rpid[t]])]
    BY <1>1 DEF Resignal
  <2>5. WorkersOK'
    BY <1>p, <2>1, <2>3, <2>4, UpdateWorker
  <2>6. TasksOK'
    BY <1>1, <1>p DEF Resignal, TasksOK, PC, InStart
  <2>7. FieldsOK'
    BY <1>1, <1>p DEF Resignal, FieldsOK, Adopt
  <2>8. QED
    BY <1>1, <2>5, <2>6, <2>7 DEF Resignal
<1>2. ASSUME NEW m \in Monitor, Reconnected(t, m)
      PROVE  TypeOK'
  <2>1. TasksOK'
    BY <1>2, <1>p, TaskDisjoint DEF Reconnected, TasksOK, PC, Resume
  <2>2. FieldsOK'
    BY <1>2, <1>p DEF Reconnected, FieldsOK
  <2>3. QED
    BY <1>2, <2>1, <2>2 DEF Reconnected, osVars
<1>3. CASE ReconnectTimeout(t)
  <2>1. rpid[t] \in Pid
    BY <1>3, <1>p DEF ReconnectTimeout, TasksOK
  <2>2. worker[rpid[t]] \in WorkerRec /\ HasConn(worker[rpid[t]])
    BY <1>p, <2>1 DEF WorkersOK
  <2>3. Term(worker[rpid[t]]) \in WorkerRec /\ HasConn(Term(worker[rpid[t]]))
    BY <2>2, WorkerOps
  <2>4. worker' = [worker EXCEPT ![rpid[t]] = Term(worker[rpid[t]])]
    BY <1>3 DEF ReconnectTimeout
  <2>5. WorkersOK'
    BY <1>p, <2>1, <2>3, <2>4, UpdateWorker
  <2>6. TasksOK'
    BY <1>3, <1>p DEF ReconnectTimeout, TasksOK, PC, InStart
  <2>7. FieldsOK'
    BY <1>3, <1>p DEF ReconnectTimeout, FieldsOK, fieldVars
  <2>8. QED
    BY <1>3, <2>5, <2>6, <2>7 DEF ReconnectTimeout
<1>4. ASSUME NEW p \in Pid, NEW m \in Monitor, Spawn(t, p, m)
      PROVE  TypeOK'
  <2> DEFINE r == [NoWorker EXCEPT !.state = "booting", !.child = TRUE, !.ver = version]
  <2>1. version \in Version
    BY TypeParts DEF EnvOK
  <2>2. r \in WorkerRec /\ HasConn(r)
    BY <2>1 DEF NoWorker, WorkerRec, LiveStates, HasConn
  <2>3. worker' = [worker EXCEPT ![p] = r]
    BY <1>4 DEF Spawn
  <2>4. WorkersOK'
    BY <1>p, <2>2, <2>3, UpdateWorker
  <2>5. TasksOK'
    BY <1>4, <1>p, TaskDisjoint DEF Spawn, TasksOK, PC, InStart
  <2>6. FieldsOK'
    BY <1>4, <1>p DEF Spawn, FieldsOK, Adopt
  <2>7. QED
    BY <1>4, <2>4, <2>5, <2>6 DEF Spawn
<1>5. CASE StartReturns(t)
  <2>1. TasksOK'
    BY <1>5, <1>p DEF StartReturns, TasksOK, PC, Resume
  <2>2. QED
    BY <1>5, <2>1 DEF StartReturns, osVars
<1>6. CASE Restart(t)
  <2>1. CASE stopping
    <3>1. TasksOK'
      BY <1>6, <2>1, <1>p DEF Restart, TasksOK, PC
    <3>2. QED
      BY <1>6, <2>1, <3>1 DEF Restart, fieldVars
  <2>2. CASE ~stopping
    <3>1. worker' = [p \in Pid |-> IF p = proc THEN Ended(worker[p]) ELSE worker[p]]
      BY <1>6, <2>2 DEF Restart
    <3>2. \A p \in Pid : worker'[p] \in WorkerRec /\ HasConn(worker'[p])
      BY <3>1, <1>p, WorkerOps DEF WorkersOK
    <3>3. WorkersOK'
      BY <3>1, <3>2 DEF WorkersOK
    <3>4. TasksOK' /\ pidFile' \in Pid \cup {None} /\ path' \in Task
      BY <1>6, <2>2, <1>p, BeginStartType DEF Restart
    <3>5. FieldsOK'
      BY <1>6, <2>2, <3>4, <1>p DEF Restart, FieldsOK
    <3>6. QED
      BY <1>6, <3>3, <3>4, <3>5 DEF Restart
  <2>3. QED
    BY <2>1, <2>2
<1>7. QED
  BY <1>1, <1>2, <1>3, <1>4, <1>5, <1>6 DEF StartStep

LEMMA MonitorStepType ==
  ASSUME TypeOK, NEW m \in Monitor, MonitorStep(m)
  PROVE  TypeOK'
<1>1. TasksOK /\ FieldsOK
  BY TypeParts
<1>2. TasksOK'
  BY <1>1, TaskDisjoint DEF MonitorStep, MonitorNotices, MonitorQuits, TasksOK, PC
<1>3. FieldsOK'
  BY <1>1 DEF MonitorStep, MonitorNotices, MonitorQuits, FieldsOK, fieldVars
<1>4. QED
  BY <1>2, <1>3, TypePartsNext, Untouched
     DEF MonitorStep, MonitorNotices, MonitorQuits, osVars

LEMMA HandlerStepType ==
  ASSUME TypeOK, NEW c \in Conn, HandlerStep(c)
  PROVE  TypeOK'
<1> USE DEF HandlerStep, Accept, HandshakeOk, HandshakeMismatch, HandshakeFails, HandlerEnds
<1>1. ConnsOK /\ TasksOK /\ FieldsOK
  BY TypeParts
<1>2. TasksOK'
  BY <1>1, TaskDisjoint DEF TasksOK, PC
<1>3. FieldsOK'
  BY <1>1 DEF FieldsOK, fieldVars
<1>4. conn[c] \in ConnRec /\ conn[c].inbox \in Seq(Lines)
  BY <1>1 DEF ConnsOK, ConnRec
<1>5. Append(conn[c].inbox, "ack") \in Seq(Lines)
  BY <1>4 DEF Lines
<1>6. /\ Closed(conn[c]) \in ConnRec
      /\ [conn[c] EXCEPT !.inbox = Append(conn[c].inbox, "ack")] \in ConnRec
  BY <1>4, <1>5 DEF ConnRec, Closed
<1>7. \/ UNCHANGED conn
      \/ conn' = [conn EXCEPT ![c] = Closed(conn[c])]
      \/ conn' = [conn EXCEPT ![c] = [conn[c] EXCEPT !.inbox = Append(conn[c].inbox, "ack")]]
  BY DEF osVars
<1>8. ConnsOK'
  BY <1>1, <1>6, <1>7 DEF ConnsOK
<1>9. QED
  BY <1>2, <1>3, <1>8, TypePartsNext, Untouched DEF osVars

\* The connections after a last line has been written to the current one.
LEMMA HangUpType ==
  ASSUME ConnsOK, NEW line \in Lines, HangUp(line)
  PROVE  ConnsOK'
<1>1. ASSUME NEW c \in Conn
      PROVE  conn'[c] \in ConnRec
  <2>1. conn[c] \in ConnRec /\ conn[c].inbox \in Seq(Lines)
    BY DEF ConnsOK, ConnRec
  <2>2. Append(conn[c].inbox, line) \in Seq(Lines)
    BY <2>1
  <2>3. [Closed(conn[c]) EXCEPT !.inbox = Append(conn[c].inbox, line)] \in ConnRec
    BY <2>1, <2>2 DEF ConnRec, Closed
  <2>4. \/ conn'[c] = conn[c]
        \/ conn'[c] = [Closed(conn[c]) EXCEPT !.inbox = Append(conn[c].inbox, line)]
    BY <2>1 DEF HangUp, Closed, ConnRec
  <2>5. QED
    BY <2>1, <2>3, <2>4
<1>2. QED
  BY <1>1 DEF HangUp, ConnsOK

LEMMA LifecycleType ==
  ASSUME TypeOK, Start \/ Stop \/ Detach \/ MainExit
  PROVE  TypeOK'
<1> USE TypePartsNext, Untouched
<1>p. WorkersOK /\ ConnsOK /\ TasksOK /\ FieldsOK /\ EnvOK
  BY TypeParts
<1>1. CASE Start
  <2>1. TasksOK' /\ pidFile' \in Pid \cup {None} /\ path' \in Task
    BY <1>1, <1>p, BeginStartType, TaskDisjoint DEF Start
  <2>2. FieldsOK'
    BY <1>1, <2>1, <1>p DEF Start, FieldsOK, fieldVars
  <2>3. EnvOK'
    BY <1>1, <1>p DEF Start, EnvOK
  <2>4. QED
    BY <1>1, <2>1, <2>2, <2>3 DEF Start, osVars
<1>2. CASE Stop \/ Detach
  <2>1. ConnsOK'
    BY <1>2, <1>p, HangUpType DEF Stop, Detach, Lines
  <2>2. WorkersOK'
    <3>1. CASE Detach
      BY <3>1 DEF Detach
    <3>2. CASE Stop
      <4>1. worker' = [p \in Pid |-> IF p = proc THEN Ended(worker[p]) ELSE worker[p]]
        BY <3>2 DEF Stop
      <4>2. \A p \in Pid : worker'[p] \in WorkerRec /\ HasConn(worker'[p])
        BY <4>1, <1>p, WorkerOps DEF WorkersOK
      <4>3. QED
        BY <4>1, <4>2 DEF WorkersOK
    <3>3. QED
      BY <1>2, <3>1, <3>2
  <2>3. TasksOK'
    BY <1>2, <1>p DEF Stop, Detach, CancelMonitor, TasksOK, PC
  <2>4. FieldsOK'
    BY <1>2, <1>p DEF Stop, Detach, FieldsOK
  <2>5. EnvOK'
    BY <1>2, <1>p DEF Stop, Detach, EnvOK
  <2>6. QED
    BY <2>1, <2>2, <2>3, <2>4, <2>5
<1>3. CASE MainExit
  <2>1. WorkersOK'
    <3>1. ASSUME NEW p \in Pid
          PROVE  /\ [worker[p] EXCEPT !.child = FALSE] \in WorkerRec
                 /\ HasConn([worker[p] EXCEPT !.child = FALSE])
      <4>1. worker[p] \in WorkerRec /\ HasConn(worker[p])
        BY <1>p DEF WorkersOK
      <4>2. QED
        BY <4>1 DEF WorkerRec, HasConn
    <3>2. QED
      BY <1>3, <3>1 DEF MainExit, WorkersOK
  <2>2. ConnsOK'
    <3>1. \A c \in Conn : Closed(conn[c]) \in ConnRec
      BY <1>p DEF ConnsOK, ConnRec, Closed
    <3>2. QED
      BY <1>3, <3>1 DEF MainExit, ConnsOK
  <2>3. TasksOK' /\ FieldsOK'
    BY <1>3, <1>p DEF MainExit, TasksOK, FieldsOK, PC
  <2>4. EnvOK'
    BY <1>3, <1>p, ConstantsAssumption DEF MainExit, EnvOK
  <2>5. QED
    BY <2>1, <2>2, <2>3, <2>4
<1>4. QED
  BY <1>1, <1>2, <1>3

LEMMA TypeStep == TypeOK /\ [Next]_vars => TypeOK'
<1> SUFFICES ASSUME TypeOK, [Next]_vars
             PROVE  TypeOK'
  OBVIOUS
<1>1. CASE UNCHANGED vars
  BY <1>1, TypePartsNext, Untouched DEF vars, osVars
<1>2. CASE Next
  BY <1>2, WorkerStepType, StartStepType, MonitorStepType, HandlerStepType,
     LifecycleType DEF Next
<1>3. QED
  BY <1>1, <1>2

\* Every reachable state is well typed: no path through start(), a restart,
\* stop() or a reload leaves a task waiting for a worker it does not name or a
\* worker in service without a connection (manager.py, worker.py).
THEOREM TypeCorrect == Spec => []TypeOK
BY InitTypeOK, TypeStep, PTL DEF Spec

-----------------------------------------------------------------------------
(* A crash of a worker in the object's charge is never overlooked          *)

\* Supervised alone is not inductive: a monitor that sleeps may leave when it
\* sees `stopping`.  While a handle is held `stopping` is FALSE.
SupervisedInv == proc # None => /\ ~stopping
                                /\ \E m \in Monitor : pc[m] = "sleep"

LEMMA SupervisedStep ==
  ASSUME TypeOK, TypeOK', SupervisedInv, [Next]_vars
  PROVE  SupervisedInv'
<1> USE DEF SupervisedInv
<1>p. pc \in [Task -> PC] /\ pc' \in [Task -> PC]
  BY DEF TypeOK
<1>k. ASSUME proc' = proc, stopping' = stopping,
             \A m \in Monitor : pc[m] = "sleep" => pc'[m] = "sleep"
      PROVE  SupervisedInv'
  BY <1>k
<1>1. CASE UNCHANGED vars
  BY <1>1, <1>k DEF vars, fieldVars
<1>2. ASSUME NEW p \in Pid, WorkerStep(p) \/ WorkerCrash(p)
      PROVE  SupervisedInv'
  <2>1. UNCHANGED fieldVars
    BY <1>2 DEF WorkerStep, WorkerBoot, WorkerConnect, WorkerHandshake, WorkerRead,
                WorkerUsr1, WorkerTerm, WorkerExit, WorkerCrash
  <2>2. \/ UNCHANGED pc
        \/ \E c \in Conn : pc' = [pc EXCEPT ![c] = "accepted"]
    BY <1>2 DEF WorkerStep, WorkerBoot, WorkerConnect, WorkerHandshake, WorkerRead,
                WorkerUsr1, WorkerTerm, WorkerExit, WorkerCrash
  <2>3. \A m \in Monitor : pc'[m] = pc[m]
    BY <2>2, <1>p, TaskDisjoint
  <2>4. QED
    BY <2>1, <2>3, <1>k DEF fieldVars
<1>3. ASSUME NEW t \in Task, StartStep(t)
      PROVE  SupervisedInv'
  <2>1. CASE Resignal(t)
    <3>1. pc[t] = "rebound" /\ \E s \in PC : pc' = [pc EXCEPT ![t] = s]
      BY <2>1 DEF Resignal, PC, InStart
    <3>2. \A m \in Monitor : pc[m] = "sleep" => pc'[m] = "sleep"
      BY <3>1, <1>p, TaskDisjoint
    <3>3. QED
      BY <2>1, <3>2, <1>k DEF Resignal
  <2>2. ASSUME NEW m \in Monitor, Reconnected(t, m)
        PROVE  SupervisedInv'
    <3>1. pc'[m] = "sleep"
      BY <2>2, <1>p, TaskDisjoint DEF Reconnected, Resume
    <3>2. QED
      BY <2>2, <3>1 DEF Reconnected
  <2>3. CASE ReconnectTimeout(t)
    BY <2>3, <1>k, <1>p DEF ReconnectTimeout, fieldVars
  <2>4. ASSUME NEW p \in Pid, NEW m \in Monitor, Spawn(t, p, m)
        PROVE  SupervisedInv'
    <3>1. t # m
      BY <2>4 DEF Spawn, NewMonitor
    <3>2. pc'[m] = "sleep"
      BY <2>4, <3>1, <1>p, TaskDisjoint DEF Spawn
    <3>3. QED
      BY <2>4, <3>2 DEF Spawn
  <2>5. CASE StartReturns(t)
    BY <2>5, <1>k, <1>p DEF StartReturns, fieldVars
  <2>6. CASE Restart(t)
    BY <2>6, <1>k, <1>p DEF Restart
  <2>7. QED
    BY <1>3, <2>1, <2>2, <2>3, <2>4, <2>5, <2>6 DEF StartStep
<1>4. ASSUME NEW m \in Monitor, MonitorStep(m)
      PROVE  SupervisedInv'
  BY <1>4 DEF MonitorStep, MonitorNotices, MonitorQuits, fieldVars
<1>5. ASSUME NEW c \in Conn, HandlerStep(c)
      PROVE  SupervisedInv'
  <2>1. proc' = proc /\ stopping' = stopping
    BY <1>5 DEF HandlerStep, Accept, HandshakeOk, HandshakeMismatch, HandshakeFails,
                HandlerEnds, fieldVars
  <2>2. \E s \in PC : pc' = [pc EXCEPT ![c] = s]
    BY <1>5 DEF HandlerStep, Accept, HandshakeOk, HandshakeMismatch, HandshakeFails,
                HandlerEnds, PC
  <2>3. QED
    BY <2>1, <2>2, <1>k, <1>p, TaskDisjoint
<1>6. CASE Start
  BY <1>6, <1>k, <1>p, TaskDisjoint DEF Start, BeginStart, fieldVars
<1>7. CASE Stop \/ Detach \/ MainExit
  BY <1>7 DEF Stop, Detach, MainExit
<1>8. QED
  BY <1>1, <1>2, <1>3, <1>4, <1>5, <1>6, <1>7 DEF Next

\* A main process that holds a worker's handle always has a monitor asleep
\* that will look at it: none of the returns of _monitor_loop, the monitors
\* that _monitor_task forgets and the restarts leaves the handle unwatched.
THEOREM AlwaysSupervised == Spec => []Supervised
<1>1. Init => SupervisedInv
  BY DEF Init, SupervisedInv
<1>2. TypeOK /\ TypeOK' /\ SupervisedInv /\ [Next]_vars => SupervisedInv'
  BY SupervisedStep
<1>3. SupervisedInv => Supervised
  BY DEF SupervisedInv, Supervised
<1>4. QED
  BY <1>1, <1>2, <1>3, TypeCorrect, PTL DEF Spec

-----------------------------------------------------------------------------
(* `connected` is never left TRUE without a handler                        *)

\* ConnectedIsServed is inductive.  A step that leaves `connected` and
\* `writer` as they are, and the handlers in "hello" or "reading" among those,
\* keeps it.
Serving(c) == pc[c] \in {"hello", "reading"}

LEMMA ServedStep ==
  ASSUME TypeOK, TypeOK', ConnectedIsServed, [Next]_vars
  PROVE  ConnectedIsServed'
<1> USE DEF ConnectedIsServed
<1>p. pc \in [Task -> PC] /\ pc' \in [Task -> PC] /\ writer \in Conn \cup {None}
  BY DEF TypeOK
<1>b. connected \in BOOLEAN /\ connected' \in BOOLEAN
  BY DEF TypeOK
<1>k. ASSUME connected' => connected, writer' = writer,
             \A c \in Conn : Serving(c) => Serving(c)'
      PROVE  ConnectedIsServed'
  BY <1>k, <1>p DEF Serving
<1>1. CASE UNCHANGED vars
  BY <1>1, <1>k DEF vars, fieldVars, Serving
<1>2. ASSUME NEW p \in Pid, WorkerStep(p) \/ WorkerCrash(p)
      PROVE  ConnectedIsServed'
  <2> USE DEF WorkerStep, WorkerBoot, WorkerConnect, WorkerHandshake, WorkerRead,
              WorkerUsr1, WorkerTerm, WorkerExit, WorkerCrash
  <2>1. UNCHANGED fieldVars
    BY <1>2
  <2>2. \/ UNCHANGED pc
        \/ \E c \in Conn : pc[c] = "none" /\ pc' = [pc EXCEPT ![c] = "accepted"]
    BY <1>2 DEF Free
  <2>3. \A c \in Conn : Serving(c) => Serving(c)'
    BY <2>2, <1>p, TaskDisjoint DEF Serving
  <2>4. QED
    BY <2>1, <2>3, <1>k DEF fieldVars
<1>3. ASSUME NEW t \in Task, StartStep(t)
      PROVE  ConnectedIsServed'
  <2>1. /\ connected' => connected
        /\ writer' = writer
        /\ \A c \in Conn : c # t => pc'[c] = pc[c]
    <3>1. CASE Resignal(t)
      <4>1. \E s \in PC : pc' = [pc EXCEPT ![t] = s]
        BY <3>1 DEF Resignal, PC, InStart
      <4>2. (connected' => connected) /\ writer' = writer
        BY <3>1, <1>b DEF Resignal
      <4>3. QED
        BY <4>1, <4>2, <1>p, TaskDisjoint
    <3>2. ASSUME NEW m \in Monitor, Reconnected(t, m)
          PROVE  /\ connected' => connected
                 /\ writer' = writer
                 /\ \A c \in Conn : c # t => pc'[c] = pc[c]
      <4>1. pc' = [pc EXCEPT ![m] = "sleep", ![t] = Resume(t, FALSE)]
        BY <3>2 DEF Reconnected
      <4>2. \A c \in Conn : c # t => pc'[c] = pc[c]
        BY <4>1, <1>p, TaskDisjoint
      <4>3. QED
        BY <3>2, <4>2 DEF Reconnected
    <3>3. CASE ReconnectTimeout(t) \/ StartReturns(t)
      <4>1. \A c \in Conn : c # t => pc'[c] = pc[c]
        BY <3>3, <1>p, TaskDisjoint DEF ReconnectTimeout, StartReturns
      <4>2. QED
        BY <3>3, <4>1, <1>b DEF ReconnectTimeout, StartReturns, fieldVars
    <3>4. ASSUME NEW p \in Pid, NEW m \in Monitor, Spawn(t, p, m)
          PROVE  /\ connected' => connected
                 /\ writer' = writer
                 /\ \A c \in Conn : c # t => pc'[c] = pc[c]
      <4>1. pc' = [pc EXCEPT ![m] = "sleep", ![t] = "connecting"]
        BY <3>4 DEF Spawn
      <4>2. \A c \in Conn : c # t => pc'[c] = pc[c]
        BY <4>1, <1>p, TaskDisjoint
      <4>3. QED
        BY <3>4, <4>2 DEF Spawn
    <3>5. CASE Restart(t)
      <4>1. \A c \in Conn : c # t => pc'[c] = pc[c]
        BY <3>5, <1>p, TaskDisjoint DEF Restart, BeginStart
      <4>2. QED
        BY <3>5, <4>1, <1>b DEF Restart
    <3>6. QED
      BY <1>3, <3>1, <3>2, <3>3, <3>4, <3>5 DEF StartStep
  <2>2. pc[t] \in InStart \cup {"backoff"}
    BY <1>3 DEF StartStep, Resignal, Reconnected, ReconnectTimeout, Spawn,
                StartReturns, Restart, InStart
  <2>3. \A c \in Conn : Serving(c) => Serving(c)'
    BY <2>1, <2>2 DEF Serving, InStart
  <2>4. QED
    BY <2>1, <2>3, <1>k
<1>4. ASSUME NEW m \in Monitor, MonitorStep(m)
      PROVE  ConnectedIsServed'
  <2>1. \A c \in Conn : Serving(c) => Serving(c)'
    BY <1>4, <1>p, TaskDisjoint DEF MonitorStep, MonitorNotices, MonitorQuits, Serving
  <2>2. QED
    BY <1>4, <2>1, <1>k DEF MonitorStep, MonitorNotices, MonitorQuits, fieldVars
<1>5. ASSUME NEW c \in Conn, HandlerStep(c)
      PROVE  ConnectedIsServed'
  <2>1. CASE Accept(c)
    BY <2>1, <1>p, TaskDisjoint DEF Accept
  <2>2. CASE HandshakeOk(c)
    <3>1. \A d \in Conn : Serving(d) => Serving(d)'
      BY <2>2, <1>p, TaskDisjoint DEF HandshakeOk, Serving
    <3>2. QED
      BY <2>2, <3>1, <1>k DEF HandshakeOk, fieldVars
  <2>3. CASE HandshakeMismatch(c) \/ HandshakeFails(c) \/ HandlerEnds(c)
    BY <2>3 DEF HandshakeMismatch, HandshakeFails, HandlerEnds
  <2>4. QED
    BY <1>5, <2>1, <2>2, <2>3 DEF HandlerStep
<1>6. CASE Start
  <2>1. \E s \in PC : pc' = [pc EXCEPT ![Lifespan] = s]
    BY <1>6 DEF Start, BeginStart, PC, InStart
  <2>2. \A c \in Conn : Serving(c) => Serving(c)'
    BY <2>1, <1>p, TaskDisjoint DEF Serving
  <2>3. QED
    BY <1>6, <2>2, <1>k DEF Start, fieldVars
<1>7. CASE Stop \/ Detach \/ MainExit
  <2>1. ~connected'
    BY <1>7 DEF Stop, Detach, MainExit
  <2>2. QED
    BY <2>1
<1>8. QED
  BY <1>1, <1>2, <1>3, <1>4, <1>5, <1>6, <1>7 DEF Next

\* is_connected is TRUE only while the handler of the current connection is in
\* its handshake or its read loop: however the handlers of old connections,
\* monitors, restarts and stop() interleave, send() has a reader behind it.
THEOREM ConnectedIsAlwaysServed == Spec => []ConnectedIsServed
<1>1. Init => ConnectedIsServed
  BY DEF Init, ConnectedIsServed
<1>2. TypeOK /\ TypeOK' /\ ConnectedIsServed /\ [Next]_vars => ConnectedIsServed'
  BY ServedStep
<1>3. QED
  BY <1>1, <1>2, TypeCorrect, PTL DEF Spec

-----------------------------------------------------------------------------
(* No worker of another protocol version is ever in service                *)

\* VersionsAgree alone is not inductive: a connection has the version that its
\* worker put in the hello, and one that is read has the running code's.
VersionInv ==
  /\ \A p \in Pid : worker[p].conn # None => conn[worker[p].conn].ver = worker[p].ver
  /\ \A c \in Conn : pc[c] = "reading" => conn[c].ver = version

\* A worker that was v and is w keeps its connection and version, or has none.
SameHello(v, w) == w.conn = None \/ (w.conn = v.conn /\ w.ver = v.ver)

LEMMA SameHelloOps ==
  ASSUME NEW v \in WorkerRec
  PROVE  /\ SameHello(v, v) /\ SameHello(v, Ended(v)) /\ SameHello(v, Dropped(v))
         /\ SameHello(v, Usr1(v)) /\ SameHello(v, Term(v))
         /\ SameHello(v, [v EXCEPT !.child = FALSE])
<1>1. /\ SameHello(v, v) /\ SameHello(v, Ended(v)) /\ SameHello(v, Dropped(v))
      /\ SameHello(v, [v EXCEPT !.child = FALSE])
  BY DEF WorkerRec, SameHello, Ended, Dropped
<1>2. SameHello(v, [v EXCEPT !.usr1 = TRUE]) /\ SameHello(v, [v EXCEPT !.term = TRUE])
  BY DEF WorkerRec, SameHello
<1> QED BY <1>1, <1>2 DEF Usr1, Term

\* What is done to a connection leaves the version of its hello alone.
LEMMA ConnOps ==
  ASSUME NEW k \in ConnRec, NEW q
  PROVE  /\ Closed(k).ver = k.ver
         /\ [k EXCEPT !.inbox = q].ver = k.ver
         /\ [Closed(k) EXCEPT !.inbox = q].ver = k.ver
<1> DEFINE h == [k EXCEPT !.open = FALSE]
<1>1. h \in [open : BOOLEAN, inbox : Seq(Lines), ver : Version \cup {None}] /\ h.ver = k.ver
  BY DEF ConnRec
<1>2. [k EXCEPT !.inbox = q].ver = k.ver BY DEF ConnRec
<1>3. [h EXCEPT !.inbox = q].ver = h.ver
  <2> HIDE DEF h
  <2> QED BY <1>1
<1> QED BY <1>1, <1>2, <1>3 DEF Closed

LEMMA HandlerKeepsVer ==
  ASSUME conn \in [Conn -> ConnRec], NEW c \in Conn, HandlerStep(c)
  PROVE  \A d \in Conn : conn'[d].ver = conn[d].ver
<1>1. \/ conn' = conn \/ conn' = [conn EXCEPT ![c] = Closed(@)]
      \/ conn' = [conn EXCEPT ![c].inbox = Append(@, "ack")]
  BY DEF HandlerStep, Accept, HandshakeOk, HandshakeMismatch, HandshakeFails,
         HandlerEnds, osVars
<1> DEFINE acked == [conn[c] EXCEPT !.inbox = Append(conn[c].inbox, "ack")]
<1>2. conn[c] \in ConnRec OBVIOUS
<1>3. Closed(conn[c]).ver = conn[c].ver /\ acked.ver = conn[c].ver BY <1>2, ConnOps
<1>4. \A d \in Conn : conn'[d] \in {conn[d], Closed(conn[d])} \/ (d = c /\ conn'[d] = acked)
  BY <1>1
<1> HIDE DEF acked
<1>5. \A d \in Conn : Closed(conn[d]).ver = conn[d].ver BY ConnOps
<1> QED BY <1>3, <1>4, <1>5

LEMMA HangUpKeepsVer ==
  ASSUME conn \in [Conn -> ConnRec], Stop \/ Detach
  PROVE  \A d \in Conn : conn'[d].ver = conn[d].ver
<1>1. \E line \in Lines : HangUp(line) BY DEF Stop, Detach, Lines
<1>2. PICK line \in Lines : HangUp(line) BY <1>1
<1>3. SUFFICES ASSUME NEW d \in Conn PROVE conn'[d].ver = conn[d].ver
  OBVIOUS
<1> DEFINE last == [Closed(conn[d]) EXCEPT !.inbox = Append(@, line)]
<1>4. last.ver = conn[d].ver BY ConnOps
<1>5. conn'[d] = conn[d] \/ conn'[d] = last BY <1>2 DEF HangUp
<1> HIDE DEF last
<1> QED BY <1>4, <1>5

\* One worker changes and keeps its hello, the others are as they were.
LEMMA OneSameHello ==
  ASSUME TypeOK, NEW p \in Pid, NEW w, SameHello(worker[p], w),
         worker' = [worker EXCEPT ![p] = w]
  PROVE  \A q \in Pid : SameHello(worker[q], worker'[q])
BY DEF TypeOK, SameHello

\* Steps that open no connection and do not change the running code.
LEMMA VersionKept ==
  ASSUME TypeOK, VersionInv, version' = version,
         \A p \in Pid : SameHello(worker[p], worker'[p]),
         \A c \in Conn : conn'[c].ver = conn[c].ver,
         \A c \in Conn : pc'[c] = "reading" => pc[c] = "reading" \/ conn[c].ver = version
  PROVE  VersionInv'
<1>1. ASSUME NEW p \in Pid, worker'[p].conn # None
      PROVE  conn'[worker'[p].conn].ver = worker'[p].ver
  <2>1. worker'[p].conn = worker[p].conn /\ worker'[p].ver = worker[p].ver
    BY <1>1 DEF SameHello
  <2>2. worker[p].conn \in Conn BY <1>1, <2>1 DEF TypeOK, WorkerRec
  <2> QED BY <1>1, <2>1, <2>2 DEF VersionInv
<1>2. \A c \in Conn : pc'[c] = "reading" => conn'[c].ver = version' BY DEF VersionInv
<1> QED BY <1>1, <1>2 DEF VersionInv

LEMMA WorkerVersion ==
  ASSUME TypeOK, VersionInv, NEW p \in Pid, WorkerStep(p) \/ WorkerCrash(p)
  PROVE  VersionInv'
<1>0. /\ worker \in [Pid -> WorkerRec] /\ worker[p] \in WorkerRec
      /\ conn \in [Conn -> ConnRec] /\ pc \in [Task -> PC]
  BY DEF TypeOK
<1>1. ASSUME NEW c \in Conn, WorkerConnect(p, c) PROVE VersionInv'
  <2>1. /\ \A q \in Pid : worker[q].conn # c
        /\ conn'[c].ver = worker[p].ver /\ \A d \in Conn \ {c} : conn'[d] = conn[d]
        /\ worker'[p].conn = c /\ worker'[p].ver = worker[p].ver
        /\ \A q \in Pid \ {p} : worker'[q] = worker[q]
        /\ pc'[c] = "accepted" /\ \A d \in Conn \ {c} : pc'[d] = pc[d]
        /\ version' = version
    BY <1>0, <1>1, TaskDisjoint DEF WorkerConnect, Free, Peer, WorkerRec, envVars
  <2>2. ASSUME NEW q \in Pid, worker'[q].conn # None
        PROVE  conn'[worker'[q].conn].ver = worker'[q].ver
    <3>1. CASE q = p BY <2>1, <3>1
    <3>2. CASE q # p
      <4>1. worker'[q] = worker[q] /\ worker[q].conn \in Conn \ {c}
        BY <2>1, <2>2, <3>2 DEF TypeOK, WorkerRec
      <4> QED BY <2>1, <2>2, <4>1 DEF VersionInv
    <3> QED BY <3>1, <3>2
  <2>3. \A d \in Conn : pc'[d] = "reading" => conn'[d].ver = version'
    BY <2>1 DEF VersionInv
  <2> QED BY <2>2, <2>3 DEF VersionInv
<1>2. CASE \/ WorkerBoot(p) \/ WorkerHandshake(p) \/ WorkerRead(p) \/ WorkerUsr1(p)
           \/ WorkerTerm(p) \/ WorkerExit(p) \/ WorkerCrash(p)
  <2>1. \E w : SameHello(worker[p], w) /\ worker' = [worker EXCEPT ![p] = w]
    <3> DEFINE boot == [worker[p] EXCEPT !.state = "running"]
               gone == Dropped(worker[p])
               up == [worker[p] EXCEPT !.phase = "up"]
               ending == [Dropped(worker[p]) EXCEPT !.state = "stopping"]
               usr1 == [Dropped(worker[p]) EXCEPT !.usr1 = FALSE]
               term == [worker[p] EXCEPT !.term = FALSE, !.state = "stopping"]
               ended == Ended(worker[p])
    <3>1. SameHello(worker[p], gone) /\ SameHello(worker[p], ended) BY <1>0, SameHelloOps
    <3>2. \A w \in {boot, up, ending, usr1, term} : SameHello(worker[p], w)
      BY <1>0 DEF WorkerRec, SameHello, Dropped
    <3>3. \E w \in {boot, gone, up, ending, usr1, term, ended} :
            worker' = [worker EXCEPT ![p] = w]
      BY <1>2 DEF WorkerBoot, WorkerHandshake, WorkerRead, WorkerUsr1, WorkerTerm,
                  WorkerExit, WorkerCrash
    <3> HIDE DEF boot, gone, up, ending, usr1, term, ended
    <3> QED BY <3>1, <3>2, <3>3
  <2>2. \A q \in Pid : SameHello(worker[q], worker'[q]) BY <2>1, OneSameHello
  <2>3. \A c \in Conn : conn'[c].ver = conn[c].ver
    <3>1. \/ conn' = conn
          \/ conn' = [conn EXCEPT ![worker[p].conn].inbox = Tail(@)]
      BY <1>2 DEF WorkerBoot, WorkerHandshake, WorkerRead, WorkerUsr1, WorkerTerm,
                  WorkerExit, WorkerCrash
    <3> QED BY <1>0, <3>1 DEF ConnRec
  <2>4. UNCHANGED <<pc, version>>
    BY <1>2 DEF WorkerBoot, WorkerHandshake, WorkerRead, WorkerUsr1, WorkerTerm,
                WorkerExit, WorkerCrash, envVars
  <2> QED BY <2>2, <2>3, <2>4, VersionKept
<1> QED BY <1>1, <1>2 DEF WorkerStep

LEMMA StartVersion ==
  ASSUME TypeOK, VersionInv, NEW t \in Task, StartStep(t)
  PROVE  VersionInv'
<1>0. /\ worker \in [Pid -> WorkerRec] /\ pc \in [Task -> PC]
      /\ pc[t] \in {"rebound", "reconnecting"} => rpid[t] \in Pid
  BY DEF TypeOK
<1>1. conn' = conn /\ version' = version
  BY DEF StartStep, Resignal, Reconnected, ReconnectTimeout, Spawn, StartReturns, Restart,
         osVars, envVars
<1>2. \A c \in Conn : pc'[c] = "reading" => pc[c] = "reading"
  <2>1. CASE Resignal(t) \/ ReconnectTimeout(t) \/ StartReturns(t) \/ Restart(t)
    <3>1. \E s \in PC \ {"reading"} : pc' = [pc EXCEPT ![t] = s]
      BY <2>1 DEF Resignal, ReconnectTimeout, StartReturns, Restart, BeginStart, Resume, PC, InStart
    <3> QED BY <1>0, <3>1, TaskDisjoint
  <2>2. ASSUME NEW m \in Monitor, NEW s \in PC \ {"reading"},
               pc' = [pc EXCEPT ![m] = "sleep", ![t] = s]
        PROVE  \A c \in Conn : pc'[c] = "reading" => pc[c] = "reading"
    BY <1>0, <2>2, TaskDisjoint
  <2>3. ASSUME NEW m \in Monitor, Reconnected(t, m)
        PROVE  \A c \in Conn : pc'[c] = "reading" => pc[c] = "reading"
    BY <2>2, <2>3 DEF Reconnected, Resume, PC
  <2>4. ASSUME NEW p \in Pid, NEW m \in Monitor, Spawn(t, p, m)
        PROVE  \A c \in Conn : pc'[c] = "reading" => pc[c] = "reading"
    BY <2>2, <2>4 DEF Spawn, PC, InStart
  <2> QED BY <2>1, <2>3, <2>4 DEF StartStep
<1>3. \A q \in Pid : SameHello(worker[q], worker'[q])
  <2>1. CASE Resignal(t) \/ ReconnectTimeout(t)
    <3>1. /\ rpid[t] \in Pid
          /\ \/ worker' = worker
             \/ \E w \in {Usr1(worker[rpid[t]]), Term(worker[rpid[t]])} :
                  worker' = [worker EXCEPT ![rpid[t]] = w]
      BY <1>0, <2>1 DEF Resignal, ReconnectTimeout
    <3>2. \A q \in Pid : SameHello(worker[q], worker[q]) BY <1>0, SameHelloOps
    <3>3. \A w \in {Usr1(worker[rpid[t]]), Term(worker[rpid[t]])} : SameHello(worker[rpid[t]], w)
      BY <1>0, <3>1, SameHelloOps
    <3> QED BY <3>1, <3>2, <3>3, OneSameHello
  <2>2. ASSUME NEW p \in Pid, NEW m \in Monitor, Spawn(t, p, m)
        PROVE  \A q \in Pid : SameHello(worker[q], worker'[q])
    <3> DEFINE w == [NoWorker EXCEPT !.state = "booting", !.child = TRUE, !.ver = version]
    <3>1. w.conn = None BY DEF NoWorker
    <3>2. worker' = [worker EXCEPT ![p] = w] BY <2>2 DEF Spawn
    <3> HIDE DEF w
    <3> QED BY <3>1, <3>2, OneSameHello DEF SameHello
  <2>3. CASE Restart(t)
    <3>1. \/ worker' = worker
          \/ worker' = [p \in Pid |-> IF p = proc THEN Ended(worker[p]) ELSE worker[p]]
      BY <2>3 DEF Restart
    <3> QED BY <1>0, <3>1, SameHelloOps
  <2>4. CASE StartReturns(t) \/ \E m \in Monitor : Reconnected(t, m)
    <3>1. worker' = worker BY <2>4 DEF StartReturns, Reconnected, osVars
    <3> QED BY <1>0, <3>1, SameHelloOps
  <2> QED BY <2>1, <2>2, <2>3, <2>4 DEF StartStep
<1> QED BY <1>1, <1>2, <1>3, VersionKept

LEMMA VersionStep ==
  ASSUME TypeOK, VersionInv, [Next]_vars
  PROVE  VersionInv'
<1>0. /\ worker \in [Pid -> WorkerRec] /\ conn \in [Conn -> ConnRec] /\ pc \in [Task -> PC]
  BY DEF TypeOK
<1>1. \A p \in Pid : SameHello(worker[p], worker[p]) BY <1>0, SameHelloOps
<1>2. ASSUME NEW c \in Conn, HandlerStep(c) PROVE VersionInv'
  <2>1. worker' = worker /\ version' = version
    BY <1>2 DEF HandlerStep, Accept, HandshakeOk, HandshakeMismatch, HandshakeFails,
                HandlerEnds, osVars, envVars
  <2>2. \A d \in Conn : conn'[d].ver = conn[d].ver BY <1>0, <1>2, HandlerKeepsVer
  <2>3. \A d \in Conn : pc'[d] = "reading" => pc[d] = "reading" \/ conn[d].ver = version
    BY <1>0, <1>2, TaskDisjoint DEF HandlerStep, Accept, HandshakeOk, HandshakeMismatch,
                                    HandshakeFails, HandlerEnds
  <2> QED BY <1>1, <2>1, <2>2, <2>3, VersionKept
<1>3. ASSUME NEW m \in Monitor, MonitorStep(m) PROVE VersionInv'
  <2>1. UNCHANGED <<worker, conn, version>>
    BY <1>3 DEF MonitorStep, MonitorNotices, MonitorQuits, osVars, envVars
  <2>2. \A d \in Conn : pc'[d] = pc[d]
    BY <1>0, <1>3, TaskDisjoint DEF MonitorStep, MonitorNotices, MonitorQuits
  <2> QED BY <1>1, <2>1, <2>2, VersionKept
<1>4. CASE Start
  <2>1. UNCHANGED <<worker, conn, version>> BY <1>4 DEF Start, osVars
  <2>2. \A d \in Conn : pc'[d] = pc[d]
    BY <1>0, <1>4, TaskDisjoint DEF Start, BeginStart
  <2> QED BY <1>1, <2>1, <2>2, VersionKept
<1>5. CASE Stop \/ Detach
  <2>1. \A p \in Pid : SameHello(worker[p], worker'[p])
    BY <1>0, <1>1, <1>5, SameHelloOps DEF Stop, Detach
  <2>2. \A d \in Conn : conn'[d].ver = conn[d].ver BY <1>0, <1>5, HangUpKeepsVer
  <2>3. \A d \in Conn : pc'[d] \in {"none", pc[d]}
    BY <1>5, TaskDisjoint DEF Stop, Detach, CancelMonitor
  <2>4. version' = version BY <1>5 DEF Stop, Detach
  <2> QED BY <2>1, <2>2, <2>3, <2>4, VersionKept
<1>6. CASE MainExit
  <2>1. /\ \A p \in Pid : worker'[p].conn = worker[p].conn /\ worker'[p].ver = worker[p].ver
        /\ \A d \in Conn : conn'[d].ver = conn[d].ver
        /\ \A d \in Conn : pc'[d] = "none"
    BY <1>0, <1>6, TaskDisjoint DEF MainExit, Closed, ConnRec, WorkerRec
  <2>2. \A p \in Pid : worker[p].conn \in Conn \cup {None} BY <1>0 DEF WorkerRec
  <2>3. \A p \in Pid : worker'[p].conn # None => conn'[worker'[p].conn].ver = worker'[p].ver
    BY <2>1, <2>2 DEF VersionInv
  <2> QED BY <2>1, <2>3 DEF VersionInv
<1>7. CASE UNCHANGED vars
  BY <1>1, <1>7, VersionKept DEF vars, osVars, envVars
<1> QED
  BY <1>2, <1>3, <1>4, <1>5, <1>6, <1>7, WorkerVersion, StartVersion DEF Next

\* No worker speaks another protocol version than the main process that serves
\* it: its hello was compared with the running code (_handle_ipc_connection),
\* and no reload, reused connection or restart inside the handshake undoes that.
THEOREM VersionsAlwaysAgree == Spec => []VersionsAgree
<1>1. Init => VersionInv
  BY TaskDisjoint DEF Init, VersionInv, NoWorker
<1>2. TypeOK /\ VersionInv => VersionsAgree
  BY DEF TypeOK, WorkerRec, VersionInv, VersionsAgree
<1>3. TypeOK /\ VersionInv /\ [Next]_vars => VersionInv'
  BY VersionStep
<1> QED BY <1>1, <1>2, <1>3, TypeCorrect, PTL DEF Spec

-----------------------------------------------------------------------------
(***************************************************************************)
(* While there has been no reload: for any number of workers, connections, *)
(* monitors and crashes there is one worker at a time, which the PID file  *)
(* names, and restarts spare it; and stop() is final as long as there has  *)
(* been one crash at the most.                                             *)
(***************************************************************************)

-----------------------------------------------------------------------------
(* The inductive invariants                                                *)

\* A task that has seen a worker dead or none, and has not spawned the next.
Between == {"backoff", "rebound", "reconnecting", "bound"}

\* Nobody has sent SIGTERM, who has a connection is alive, and workers and the
\* connections still in their handshake are of the running code's version.
WorkerOk(w) ==
  /\ ~w.term
  /\ w.phase # "idle" => w.state \in LiveStates
  /\ w.state \in LiveStates => w.ver = version
OsInv ==
  /\ \A p \in Pid : WorkerOk(worker[p])
  /\ \A c \in Conn : pc[c] \in {"accepted", "hello"} => conn[c].ver = version

\* One task at most is on its way from a death to the next spawn, no handler
\* is, and then there is no worker; a worker is named by the PID file and by
\* _proc, of which only detach() lets go.
OneAtWork ==
  /\ \A t, u \in Task : pc[t] \in Between /\ pc[u] \in Between => t = u
  /\ \A c \in Conn : pc[c] \notin Between
  /\ \A t \in Task : pc[t] \in Between =>
       pc[t] \in {"backoff", "bound"} /\ proc = None /\ \A p \in Pid : ~Live(p)
  /\ \A p \in Pid : Live(p) => pidFile = p /\ (proc = p \/ (proc = None /\ phase = "detached"))
  /\ phase = "fresh" => proc = None /\ (\A t \in Task : pc[t] = "none") /\ \A p \in Pid : ~Live(p)

LoneInv == exits = 0 => OsInv /\ OneAtWork

-----------------------------------------------------------------------------
(* OsInv, which lasts while every worker that is sent SIGTERM is dead      *)

\* Workers stay in order and no handshake begins.
LEMMA OsQuiet ==
  ASSUME TypeOK, OsInv, version' = version,
         \A p \in Pid : WorkerOk(worker'[p]),
         \A c \in Conn : conn'[c].ver = conn[c].ver,
         \A c \in Conn : pc'[c] \in {"accepted", "hello"} => pc[c] \in {"accepted", "hello"}
  PROVE  OsInv'
BY DEF OsInv, WorkerOk

\* What a step of a worker does to the rest: none comes to life, and the only
\* task it starts is the handler of a new connection.
LEMMA WorkerOs ==
  ASSUME TypeOK, OsInv, NEW p \in Pid, WorkerStep(p) \/ WorkerCrash(p)
  PROVE  /\ OsInv'
         /\ UNCHANGED <<pidFile, path, proc, rpid, phase, version>>
         /\ \A q \in Pid : worker'[q].state \in LiveStates => Live(q)
         /\ \/ pc' = pc
            \/ /\ \E c \in Conn : pc' = [pc EXCEPT ![c] = "accepted"]
               /\ path # None /\ Live(p)
<1>0. /\ worker \in [Pid -> WorkerRec] /\ worker[p] \in WorkerRec /\ WorkerOk(worker[p])
      /\ conn \in [Conn -> ConnRec] /\ pc \in [Task -> PC]
  BY DEF TypeOK, OsInv
<1>1. UNCHANGED <<pidFile, path, proc, rpid, phase, version>>
  BY DEF WorkerStep, WorkerBoot, WorkerConnect, WorkerHandshake, WorkerRead, WorkerUsr1,
         WorkerTerm, WorkerExit, WorkerCrash, fieldVars, envVars
<1>2. \E w : /\ worker' = [worker EXCEPT ![p] = w]
             /\ WorkerOk(w) /\ (w.state \in LiveStates => Live(p))
  <2> DEFINE boot == [worker[p] EXCEPT !.state = "running"]
             gone == Dropped(worker[p])
             up == [worker[p] EXCEPT !.phase = "up"]
             ending == [Dropped(worker[p]) EXCEPT !.state = "stopping"]
             usr1 == [Dropped(worker[p]) EXCEPT !.usr1 = FALSE]
             ended == Ended(worker[p])
  <2>1. WorkerOk(gone) /\ WorkerOk(usr1) /\ WorkerOk(ended)
    BY <1>0 DEF WorkerRec, WorkerOk, Dropped, Ended, LiveStates
  <2>2. gone.state = worker[p].state /\ usr1.state = worker[p].state /\ ended.state = "dead"
    BY <1>0 DEF WorkerRec, Dropped, Ended
  <2>3. CASE WorkerBoot(p)
    <3>1. worker' = [worker EXCEPT ![p] = boot] /\ Live(p) BY <2>3 DEF WorkerBoot, Live, LiveStates
    <3>2. WorkerOk(boot)
      BY <1>0, <2>3 DEF WorkerBoot, WorkerRec, WorkerOk, LiveStates
    <3> QED BY <3>1, <3>2
  <2>4. ASSUME NEW c \in Conn, WorkerConnect(p, c)
        PROVE  \E w : /\ worker' = [worker EXCEPT ![p] = w]
                      /\ WorkerOk(w) /\ (w.state \in LiveStates => Live(p))
    <3> DEFINE w == [worker[p] EXCEPT !.phase = "hello", !.conn = c]
    <3>1. worker' = [worker EXCEPT ![p] = w] /\ Live(p)
      BY <2>4 DEF WorkerConnect, Live, LiveStates
    <3>2. WorkerOk(w) BY <1>0, <2>4 DEF WorkerConnect, WorkerRec, WorkerOk, LiveStates
    <3> QED BY <3>1, <3>2
  <2>5. CASE WorkerHandshake(p) \/ WorkerRead(p)
    <3>1. Live(p) BY <1>0, <2>5 DEF WorkerHandshake, WorkerRead, WorkerOk, Live
    <3>2. WorkerOk(up) /\ WorkerOk(ending)
      BY <1>0, <3>1 DEF WorkerRec, WorkerOk, Live, Dropped, LiveStates
    <3>3. \E w \in {gone, up, ending} : worker' = [worker EXCEPT ![p] = w]
      BY <2>5 DEF WorkerHandshake, WorkerRead
    <3> HIDE DEF gone, up, ending
    <3> QED BY <2>1, <3>1, <3>2, <3>3
  <2>6. CASE WorkerUsr1(p) \/ WorkerExit(p) \/ WorkerCrash(p)
    <3>1. \/ worker' = [worker EXCEPT ![p] = usr1] \/ worker' = [worker EXCEPT ![p] = ended]
      BY <2>6 DEF WorkerUsr1, WorkerExit, WorkerCrash
    <3>2. (usr1.state \in LiveStates => Live(p)) /\ (ended.state \in LiveStates => Live(p))
      BY <2>2 DEF Live, LiveStates
    <3> HIDE DEF usr1, ended
    <3> QED BY <2>1, <3>1, <3>2
  <2>7. ~WorkerTerm(p) BY <1>0 DEF WorkerTerm, WorkerOk
  <2> QED BY <2>3, <2>4, <2>5, <2>6, <2>7 DEF WorkerStep
<1>3. /\ \A q \in Pid : WorkerOk(worker'[q])
      /\ \A q \in Pid : worker'[q].state \in LiveStates => Live(q)
  BY <1>0, <1>2 DEF OsInv, Live
<1>4. ASSUME NEW c \in Conn, WorkerConnect(p, c)
      PROVE  OsInv' /\ pc' = [pc EXCEPT ![c] = "accepted"] /\ path # None /\ Live(p)
  <2>1. /\ worker[p].state \in LiveStates
        /\ conn'[c].ver = worker[p].ver /\ \A d \in Conn \ {c} : conn'[d] = conn[d]
        /\ pc' = [pc EXCEPT ![c] = "accepted"] /\ path # None
    BY <1>0, <1>4 DEF WorkerConnect, LiveStates
  <2>2. conn'[c].ver = version' BY <1>0, <1>1, <2>1 DEF WorkerOk
  <2>3. \A d \in Conn : pc'[d] \in {"accepted", "hello"} => conn'[d].ver = version'
    BY <1>0, <1>1, <2>1, <2>2, TaskDisjoint DEF OsInv
  <2>4. OsInv' BY <1>1, <1>3, <2>3 DEF OsInv, WorkerOk
  <2> QED BY <2>1, <2>4 DEF Live
<1>5. CASE ~ \E c \in Conn : WorkerConnect(p, c)
  <2>1. pc' = pc
    BY <1>5 DEF WorkerStep, WorkerBoot, WorkerHandshake, WorkerRead, WorkerUsr1,
                WorkerTerm, WorkerExit, WorkerCrash
  <2>2. conn' = conn \/ conn' = [conn EXCEPT ![worker[p].conn].inbox = Tail(@)]
    BY <1>5 DEF WorkerStep, WorkerBoot, WorkerHandshake, WorkerRead, WorkerUsr1,
                WorkerTerm, WorkerExit, WorkerCrash
  <2>3. \A c \in Conn : conn'[c].ver = conn[c].ver BY <1>0, <2>2 DEF ConnRec
  <2>4. OsInv' BY <1>1, <1>3, <2>1, <2>3, OsQuiet
  <2> QED BY <1>1, <1>3, <2>1, <2>4
<1> QED BY <1>1, <1>3, <1>4, <1>5

LEMMA StartOs ==
  ASSUME TypeOK, OsInv, NEW t \in Task, StartStep(t),
         ReconnectTimeout(t) => ~Live(rpid[t])
  PROVE  OsInv'
<1>0. /\ worker \in [Pid -> WorkerRec] /\ pc \in [Task -> PC]
      /\ \A p \in Pid : WorkerOk(worker[p])
  BY DEF TypeOK, OsInv
<1>1. UNCHANGED <<conn, version>>
  BY DEF StartStep, Resignal, Reconnected, ReconnectTimeout, Spawn, StartReturns, Restart,
         osVars, envVars
<1>2. \A c \in Conn : pc'[c] \in {"accepted", "hello"} => pc[c] \in {"accepted", "hello"}
  <2>1. CASE \E m \in Monitor : Reconnected(t, m) \/ \E p \in Pid : Spawn(t, p, m)
    BY <1>0, <2>1, TaskDisjoint DEF Reconnected, Spawn, Resume
  <2>2. CASE Resignal(t) \/ ReconnectTimeout(t) \/ StartReturns(t) \/ Restart(t)
    <3>1. \E s \in PC \ {"accepted", "hello"} : pc' = [pc EXCEPT ![t] = s]
      BY <2>2 DEF Resignal, ReconnectTimeout, StartReturns, Resume, Restart, BeginStart,
                  PC, InStart
    <3> QED BY <1>0, <3>1, TaskDisjoint
  <2> QED BY <2>1, <2>2 DEF StartStep
<1>3. \A p \in Pid : WorkerOk(worker'[p])
  <2>1. \A p \in Pid : WorkerOk(Ended(worker[p])) /\ WorkerOk(Usr1(worker[p]))
    BY <1>0 DEF WorkerRec, WorkerOk, Usr1, Ended, LiveStates
  <2>2. CASE Resignal(t)
    <3>1. \/ worker' = worker \/ worker' = [worker EXCEPT ![rpid[t]] = Usr1(worker[rpid[t]])]
      BY <2>2 DEF Resignal
    <3> QED BY <1>0, <2>1, <3>1
  <2>3. CASE ReconnectTimeout(t)
    <3>1. Term(worker[rpid[t]]) = worker[rpid[t]] BY <2>3 DEF Term, Live, LiveStates
    <3>2. worker' = [worker EXCEPT ![rpid[t]] = worker[rpid[t]]]
      BY <2>3, <3>1 DEF ReconnectTimeout
    <3> QED BY <1>0, <3>2
  <2>4. CASE \E p \in Pid, m \in Monitor : Spawn(t, p, m)
    <3> DEFINE w == [NoWorker EXCEPT !.state = "booting", !.child = TRUE, !.ver = version]
    <3>1. \E p \in Pid : worker' = [worker EXCEPT ![p] = w] BY <2>4 DEF Spawn
    <3>2. WorkerOk(w) BY DEF NoWorker, WorkerOk, LiveStates
    <3> HIDE DEF w
    <3> QED BY <1>0, <3>1, <3>2
  <2>5. CASE StartReturns(t) \/ \E m \in Monitor : Reconnected(t, m)
    BY <1>0, <2>5 DEF StartReturns, Reconnected, osVars
  <2>6. CASE Restart(t)
    <3>1. \A p \in Pid : worker'[p] \in {worker[p], Ended(worker[p])}
      BY <1>0, <2>6 DEF Restart
    <3> QED BY <1>0, <2>1, <3>1
  <2> QED BY <2>2, <2>3, <2>4, <2>5, <2>6 DEF StartStep
<1> QED BY <1>1, <1>2, <1>3, OsQuiet

\* No handshake fails for its version, so no handler begins a restart.
LEMMA HandlerOs ==
  ASSUME TypeOK, OsInv, NEW c \in Conn, HandlerStep(c)
  PROVE  /\ OsInv'
         /\ UNCHANGED <<worker, pidFile, path, proc, rpid, phase>> /\ pc[c] # "none"
         /\ \E s \in {"none", "hello", "reading"} : pc' = [pc EXCEPT ![c] = s]
<1>0. pc \in [Task -> PC] /\ conn \in [Conn -> ConnRec] /\ \A p \in Pid : WorkerOk(worker[p])
  BY DEF TypeOK, OsInv
<1>1. UNCHANGED <<worker, pidFile, path, proc, rpid, phase, version>> /\ pc[c] # "none"
  BY DEF HandlerStep, Accept, HandshakeOk, HandshakeMismatch, HandshakeFails, HandlerEnds,
         osVars, fieldVars, envVars
<1>2. ~HandshakeMismatch(c) BY DEF HandshakeMismatch, OsInv
<1>3. \/ pc[c] = "accepted" /\ pc' = [pc EXCEPT ![c] = "hello"]
      \/ \E s \in {"none", "reading"} : pc' = [pc EXCEPT ![c] = s]
  BY <1>2 DEF HandlerStep, Accept, HandshakeOk, HandshakeFails, HandlerEnds
<1>4. \A d \in Conn : conn'[d].ver = conn[d].ver BY <1>0, HandlerKeepsVer
<1>5. \A d \in Conn : pc'[d] \in {"accepted", "hello"} => pc[d] \in {"accepted", "hello"}
  BY <1>0, <1>3, TaskDisjoint
<1>6. OsInv' BY <1>0, <1>1, <1>4, <1>5, OsQuiet
<1> QED BY <1>1, <1>3, <1>6

LEMMA MonitorOs ==
  ASSUME TypeOK, OsInv, NEW m \in Monitor, MonitorStep(m)
  PROVE  OsInv'
<1>0. pc \in [Task -> PC] /\ \A p \in Pid : WorkerOk(worker[p]) BY DEF TypeOK, OsInv
<1>1. UNCHANGED <<worker, conn, version>> /\ \E s \in {"none", "backoff"} : pc' = [pc EXCEPT ![m] = s]
  BY DEF MonitorStep, MonitorNotices, MonitorQuits, osVars, envVars
<1>2. \A c \in Conn : pc'[c] = pc[c] BY <1>0, <1>1, TaskDisjoint
<1> QED BY <1>0, <1>1, <1>2, OsQuiet

\* stop() kills the worker it has a handle of, detach() none.
LEMMA CloseOs ==
  ASSUME TypeOK, OsInv, Stop \/ Detach
  PROVE  /\ OsInv'
         /\ phase = "started" /\ proc' = None /\ rpid' = rpid
         /\ \A t \in Task : pc'[t] \in {"none", pc[t]}
         /\ \A p \in Pid : Live(p)' => Live(p) /\ (phase' = "stopped" => p # proc)
         /\ \/ phase' = "detached" /\ pidFile' = pidFile
            \/ phase' = "stopped"
<1>0. /\ worker \in [Pid -> WorkerRec] /\ pc \in [Task -> PC] /\ conn \in [Conn -> ConnRec]
      /\ \A p \in Pid : WorkerOk(worker[p])
  BY DEF TypeOK, OsInv
<1>1. /\ phase = "started" /\ UNCHANGED <<version, rpid>> /\ proc' = None
      /\ \A t \in Task : pc'[t] \in {"none", pc[t]}
  BY <1>0 DEF Stop, Detach, MayClose, CancelMonitor
<1>2. \A c \in Conn : conn'[c].ver = conn[c].ver BY <1>0, HangUpKeepsVer
<1>3. \A p \in Pid : WorkerOk(Ended(worker[p])) /\ Ended(worker[p]).state = "dead"
  BY <1>0 DEF WorkerRec, WorkerOk, Ended, LiveStates
<1>4. \A p \in Pid : worker'[p] = worker[p] \/ worker'[p] = Ended(worker[p])
  BY DEF Stop, Detach
<1>5. OsInv'
  <2>1. \A p \in Pid : WorkerOk(worker'[p]) BY <1>0, <1>3, <1>4
  <2>2. \A c \in Conn : pc'[c] \in {"accepted", "hello"} => pc[c] \in {"accepted", "hello"}
    BY <1>1, TaskDisjoint
  <2> QED BY <1>1, <1>2, <2>1, <2>2, OsQuiet
<1>6. \A p \in Pid : Live(p)' => Live(p) BY <1>3, <1>4 DEF Live, LiveStates
<1>7. CASE Stop
  <2>1. \A p \in Pid : Live(p)' => p # proc BY <1>3, <1>7 DEF Stop, Live, LiveStates
  <2> QED BY <1>1, <1>5, <1>6, <1>7, <2>1 DEF Stop
<1>8. CASE Detach BY <1>1, <1>5, <1>6, <1>8 DEF Detach
<1> QED BY <1>7, <1>8

LEMMA BeginOs == ASSUME TypeOK, OsInv, Start PROVE OsInv'
<1>0. pc \in [Task -> PC] /\ \A p \in Pid : WorkerOk(worker[p]) BY DEF TypeOK, OsInv
<1>1. UNCHANGED <<worker, conn, version>> /\ \A c \in Conn : pc'[c] = pc[c]
  BY <1>0, TaskDisjoint DEF Start, BeginStart, osVars
<1> QED BY <1>0, <1>1, OsQuiet

-----------------------------------------------------------------------------
(* OneAtWork                                                               *)

\* No worker comes to life, and no task begins to look for the next one.
LEMMA Quiet ==
  ASSUME TypeOK, OneAtWork, UNCHANGED <<pidFile, proc, phase>>,
         \A p \in Pid : worker'[p].state \in LiveStates => Live(p),
         \A t \in Task : pc'[t] = pc[t] \/ pc'[t] \notin Between,
         phase = "fresh" => \A t \in Task : pc'[t] = pc[t]
  PROVE  OneAtWork'
<1>1. \A p \in Pid : Live(p)' => Live(p) BY DEF Live
<1>2. \A t, u \in Task : pc'[t] \in Between /\ pc'[u] \in Between => t = u BY DEF OneAtWork
<1>3. \A c \in Conn : pc'[c] \notin Between BY TaskDisjoint DEF OneAtWork
<1>4. \A t \in Task : pc'[t] \in Between =>
        pc'[t] \in {"backoff", "bound"} /\ proc' = None /\ \A p \in Pid : ~Live(p)'
  BY <1>1 DEF OneAtWork
<1>5. \A p \in Pid : Live(p)' => pidFile' = p /\ (proc' = p \/ (proc' = None /\ phase' = "detached"))
  BY <1>1 DEF OneAtWork
<1>6. phase' = "fresh" => proc' = None /\ (\A t \in Task : pc'[t] = "none") /\ \A p \in Pid : ~Live(p)'
  BY <1>1 DEF OneAtWork
<1> QED BY <1>2, <1>3, <1>4, <1>5, <1>6 DEF OneAtWork

LEMMA WorkerLone ==
  ASSUME TypeOK, OsInv, OneAtWork, NEW p \in Pid, WorkerStep(p) \/ WorkerCrash(p)
  PROVE  OneAtWork'
<1>1. pc \in [Task -> PC] BY DEF TypeOK
<1>2. \A t \in Task : pc'[t] = pc[t] \/ pc'[t] \notin Between
  BY <1>1, WorkerOs, TaskDisjoint DEF Between
<1>3. phase = "fresh" => pc' = pc BY WorkerOs DEF OneAtWork
<1> QED BY <1>2, <1>3, WorkerOs, Quiet

LEMMA StartLone ==
  ASSUME TypeOK, OneAtWork, NEW t \in Task, StartStep(t)
  PROVE  OneAtWork'
<1>0. worker \in [Pid -> WorkerRec] /\ pc \in [Task -> PC] /\ pc[t] # "none"
  BY DEF TypeOK, StartStep, Resignal, Reconnected, ReconnectTimeout, Spawn,
         StartReturns, Restart
<1>f. phase # "fresh" BY <1>0 DEF OneAtWork
<1>1. ~Resignal(t) /\ ~ReconnectTimeout(t) /\ ~ \E m \in Monitor : Reconnected(t, m)
  BY DEF OneAtWork, Between, Resignal, ReconnectTimeout, Reconnected
<1>2. ASSUME NEW p \in Pid, NEW m \in Monitor, Spawn(t, p, m)
      PROVE  OneAtWork'
  <2>1. /\ worker' = [worker EXCEPT ![p] = worker'[p]]
        /\ phase' = phase /\ proc' = p /\ pidFile' = p
        /\ pc' = [pc EXCEPT ![m] = "sleep", ![t] = "connecting"] /\ pc[t] = "bound"
    BY <1>0, <1>2 DEF Spawn, envVars
  <2>2. \A u \in Task : pc'[u] \notin Between
    <3>1. \A u \in Task : pc[u] \in Between => u = t BY <2>1 DEF OneAtWork, Between
    <3> QED BY <1>0, <2>1, <3>1, TaskDisjoint DEF Between
  <2>3. \A q \in Pid : Live(q)' => q = p
    <3>1. \A q \in Pid : ~Live(q) BY <2>1 DEF OneAtWork, Between
    <3> QED BY <1>0, <2>1, <3>1 DEF Live
  <2>4. \A c \in Conn : pc'[c] \notin Between BY <2>2, TaskDisjoint
  <2> QED BY <1>f, <2>1, <2>2, <2>3, <2>4 DEF OneAtWork
<1>3. CASE StartReturns(t)
  <2>1. UNCHANGED <<worker, pidFile, proc, phase>>
    BY <1>3 DEF StartReturns, osVars, fieldVars, envVars
  <2>2. \E s \in {"none", "sleep"} : pc' = [pc EXCEPT ![t] = s]
    BY <1>3 DEF StartReturns, Resume
  <2>3. \A u \in Task : pc'[u] = pc[u] \/ pc'[u] \in {"none", "sleep"} BY <1>0, <2>2
  <2> QED BY <1>f, <2>1, <2>3, Quiet DEF Live, Between
<1>4. CASE Restart(t)
  <2>1. /\ pc[t] = "backoff" /\ phase' = phase
        /\ proc = None /\ \A p \in Pid : ~Live(p)
    BY <1>4 DEF Restart, OneAtWork, Between, envVars
  <2>2. \A p \in Pid : worker'[p] = worker[p]
    BY <1>0, <1>4, <2>1, TaskDisjoint DEF Restart
  <2>3. proc' = None BY <1>4, <2>1 DEF Restart
  <2>4. \E s \in {"none", "bound"} : pc' = [pc EXCEPT ![t] = s]
    <3>1. CASE stopping BY <1>4, <3>1 DEF Restart
    <3>2. CASE ~stopping
      <4>1. BeginStart(t, worker') BY <1>4, <3>2 DEF Restart
      <4>2. pidFile \in Pid \cup {None} BY DEF TypeOK
      <4>3. ~(pidFile # None /\ worker'[pidFile].state \in LiveStates)
        BY <2>1, <2>2, <4>2 DEF Live
      <4> QED BY <4>1, <4>3 DEF BeginStart
    <3> QED BY <3>1, <3>2
  <2>5. /\ \A p \in Pid : ~Live(p)'
        /\ t \notin Conn
        /\ \A u \in Task : pc[u] \in Between => u = t
    BY <2>1, <2>2 DEF Live, OneAtWork, Between
  <2>6. \A u \in Task : pc'[u] \in Between => u = t /\ pc'[u] = "bound"
    BY <1>0, <2>4, <2>5 DEF Between
  <2>7. \A c \in Conn : pc'[c] \notin Between BY <2>5, <2>6, TaskDisjoint
  <2> QED BY <1>f, <2>1, <2>3, <2>5, <2>6, <2>7 DEF OneAtWork
<1> QED BY <1>1, <1>2, <1>3, <1>4 DEF StartStep

LEMMA MonitorLone ==
  ASSUME TypeOK, OneAtWork, NEW m \in Monitor, MonitorStep(m)
  PROVE  OneAtWork'
<1>0. pc \in [Task -> PC] BY DEF TypeOK
<1>1. UNCHANGED <<worker, pidFile, phase>> /\ pc[m] = "sleep"
  BY DEF MonitorStep, MonitorNotices, MonitorQuits, osVars, fieldVars, envVars
<1>f. phase # "fresh" BY <1>1, TaskDisjoint DEF OneAtWork
<1>2. CASE MonitorQuits(m)
  <2>1. proc' = proc /\ \A t \in Task : pc'[t] = pc[t] \/ pc'[t] \notin Between
    BY <1>0, <1>2 DEF MonitorQuits, fieldVars, Between
  <2> QED BY <1>f, <1>1, <2>1, Quiet DEF Live
<1>3. CASE MonitorNotices(m)
  <2>1. proc # None /\ ~Live(proc) /\ proc' = None /\ pc' = [pc EXCEPT ![m] = "backoff"]
    BY <1>3 DEF MonitorNotices
  <2>2. \A p \in Pid : ~Live(p) BY <2>1 DEF OneAtWork
  <2>3. \A p \in Pid : ~Live(p)' BY <1>1, <2>2 DEF Live
  <2>4. \A t \in Task : pc[t] \notin Between BY <2>1 DEF OneAtWork
  <2>5. \A t \in Task : pc'[t] \in Between => t = m /\ pc'[t] = "backoff"
    BY <1>0, <2>1, <2>4 DEF Between
  <2>6. \A c \in Conn : pc'[c] \notin Between BY <2>5, TaskDisjoint
  <2> QED BY <1>f, <1>1, <2>1, <2>3, <2>5, <2>6 DEF OneAtWork
<1> QED BY <1>2, <1>3 DEF MonitorStep

LEMMA HandlerLone ==
  ASSUME TypeOK, OsInv, OneAtWork, NEW c \in Conn, HandlerStep(c)
  PROVE  OneAtWork'
<1>1. pc \in [Task -> PC] BY DEF TypeOK
<1>2. phase # "fresh" BY HandlerOs, TaskDisjoint DEF OneAtWork
<1>3. \A t \in Task : pc'[t] = pc[t] \/ pc'[t] \notin Between
  BY <1>1, HandlerOs, TaskDisjoint DEF Between
<1> QED BY <1>2, <1>3, HandlerOs, Quiet DEF Live

LEMMA LifecycleLone ==
  ASSUME TypeOK, OsInv, OneAtWork, Start \/ Stop \/ Detach
  PROVE  OneAtWork'
<1>0. pc \in [Task -> PC] /\ pidFile \in Pid \cup {None}
  BY DEF TypeOK
<1>1. CASE Start
  <2>1. UNCHANGED <<worker, proc>> /\ phase = "fresh" /\ phase' = "started"
    BY <1>1 DEF Start, osVars, fieldVars
  <2>2. proc = None /\ (\A t \in Task : pc[t] = "none") /\ \A p \in Pid : ~Live(p)
    BY <2>1 DEF OneAtWork
  <2>3. pc' = [pc EXCEPT ![Lifespan] = "bound"]
    <3>1. pidFile # None => ~(worker[pidFile].state \in LiveStates)
      BY <1>0, <2>2 DEF Live
    <3> QED BY <1>1, <3>1 DEF Start, BeginStart
  <2>4. \A t \in Task : pc'[t] \in Between => t = Lifespan /\ pc'[t] = "bound"
    BY <1>0, <2>2, <2>3 DEF Between
  <2>5. \A p \in Pid : ~Live(p)' BY <2>1, <2>2 DEF Live
  <2>6. \A c \in Conn : pc'[c] \notin Between BY <2>4, TaskDisjoint
  <2> QED BY <2>1, <2>2, <2>4, <2>5, <2>6 DEF OneAtWork
<1>2. CASE Stop \/ Detach
  <2>1. \A p \in Pid : Live(p)' => Live(p) /\ phase' = "detached" /\ pidFile' = pidFile
    <3>1. \A p \in Pid : Live(p) => proc = p BY <1>2, CloseOs DEF OneAtWork
    <3> QED BY <1>2, <3>1, CloseOs
  <2>2. /\ \A t, u \in Task : pc'[t] \in Between /\ pc'[u] \in Between => t = u
        /\ \A t \in Task : pc'[t] \in Between =>
             pc'[t] \in {"backoff", "bound"} /\ proc' = None /\ \A p \in Pid : ~Live(p)'
        /\ \A c \in Conn : pc'[c] \notin Between
    BY <1>2, <2>1, CloseOs, TaskDisjoint DEF OneAtWork, Between
  <2>3. \A p \in Pid : Live(p)' => pidFile' = p /\ proc' = None /\ phase' = "detached"
    BY <1>2, <2>1, CloseOs DEF OneAtWork
  <2>4. phase' # "fresh" BY <1>2, CloseOs
  <2> QED BY <2>2, <2>3, <2>4 DEF OneAtWork
<1> QED BY <1>1, <1>2

LEMMA UntilReload == TypeOK /\ [Next]_vars /\ exits' = 0 => exits = 0 /\ ~MainExit
<1> SUFFICES ASSUME TypeOK, [Next]_vars, exits' = 0 PROVE exits = 0 /\ ~MainExit OBVIOUS
<1>1. exits \in Nat BY ConstantsAssumption DEF TypeOK
<1>2. ~MainExit BY <1>1 DEF MainExit
<1>3. exits = 0
  BY <1>2 DEF Next, WorkerStep, WorkerBoot, WorkerConnect, WorkerHandshake, WorkerRead,
     WorkerUsr1, WorkerTerm, WorkerExit, WorkerCrash, StartStep, Resignal, Reconnected,
     ReconnectTimeout, Spawn, StartReturns, Restart, MonitorStep, MonitorNotices,
     MonitorQuits, HandlerStep, Accept, HandshakeOk, HandshakeMismatch, HandshakeFails,
     HandlerEnds, Start, Stop, Detach, envVars, vars
<1> QED BY <1>2, <1>3

LEMMA LoneStep == TypeOK /\ LoneInv /\ [Next]_vars => LoneInv'
<1> SUFFICES ASSUME TypeOK, LoneInv, [Next]_vars, exits' = 0 PROVE OsInv' /\ OneAtWork'
  BY DEF LoneInv
<1>2. exits = 0 /\ ~MainExit BY UntilReload
<1>4. OsInv /\ OneAtWork BY <1>2 DEF LoneInv
<1>5. CASE UNCHANGED vars
  <2>1. UNCHANGED <<worker, conn, pidFile, proc, pc, phase, version>>
    BY <1>5 DEF vars, osVars, fieldVars, envVars
  <2> QED BY <1>4, <2>1, Quiet, OsQuiet DEF OsInv, Live
<1>6. ASSUME NEW t \in Task, StartStep(t) PROVE OsInv' /\ OneAtWork'
  <2>1. ~ReconnectTimeout(t) BY <1>4 DEF OneAtWork, Between, ReconnectTimeout
  <2> QED BY <1>4, <1>6, <2>1, StartOs, StartLone
<1>7. CASE \E p \in Pid : WorkerStep(p) \/ WorkerCrash(p) BY <1>4, <1>7, WorkerOs, WorkerLone
<1>8. CASE \E m \in Monitor : MonitorStep(m) BY <1>4, <1>8, MonitorOs, MonitorLone
<1>9. CASE \E c \in Conn : HandlerStep(c) BY <1>4, <1>9, HandlerOs, HandlerLone
<1>10. CASE Start \/ Stop \/ Detach BY <1>4, <1>10, BeginOs, CloseOs, LifecycleLone
<1> QED BY <1>2, <1>5, <1>6, <1>7, <1>8, <1>9, <1>10 DEF Next

LEMMA InitLone == Init => LoneInv
<1> SUFFICES ASSUME Init PROVE OsInv /\ OneAtWork BY DEF LoneInv
<1>1. ~NoWorker.term /\ NoWorker.phase = "idle" /\ NoWorker.state \notin LiveStates
  BY DEF NoWorker, LiveStates
<1>2. OsInv BY <1>1, TaskDisjoint DEF Init, OsInv, WorkerOk
<1>3. \A p \in Pid : ~Live(p) BY <1>1 DEF Init, Live
<1>4. \A t \in Task : pc[t] = "none" BY DEF Init
<1>5. OneAtWork BY <1>3, <1>4, TaskDisjoint DEF Init, OneAtWork, Between
<1> QED BY <1>2, <1>5

LEMMA AlwaysLone == Spec => []LoneInv
BY InitLone, LoneStep, TypeCorrect, PTL DEF Spec

-----------------------------------------------------------------------------
(* One worker at a time, and its PID on file                               *)

LEMMA LoneFacts == OneAtWork => LoneWorkerIsFound
<1> SUFFICES ASSUME OneAtWork PROVE LoneWorkerIsFound OBVIOUS
<1>1. NoOverlap
  <2>1. CASE pidFile \in Pid
    <3>1. {p \in Pid : Live(p)} \subseteq {pidFile} BY DEF OneAtWork
    <3>2. Cardinality({pidFile}) = 1 /\ IsFiniteSet({pidFile}) BY FS_Singleton
    <3>3. IsFiniteSet({p \in Pid : Live(p)}) BY <3>1, <3>2, FS_Subset
    <3>4. Cardinality({p \in Pid : Live(p)}) <= 1 BY <3>1, <3>2, FS_Subset
    <3> QED BY <3>4 DEF NoOverlap
  <2>2. CASE pidFile \notin Pid
    <3>1. {p \in Pid : Live(p)} = {} BY <2>2 DEF OneAtWork
    <3>2. Cardinality({p \in Pid : Live(p)}) = 0 BY <3>1, FS_EmptySet
    <3> QED BY <3>2 DEF NoOverlap
  <2> QED BY <2>1, <2>2
<1>2. Recoverable BY DEF Recoverable, Wanted, Live, LiveStates, OneAtWork
<1> QED BY <1>1, <1>2 DEF LoneWorkerIsFound

\* Until the first reload workers never overlap and the PID file names the one
\* that is left, however crashes, restarts in several tasks, slow handlers,
\* stop() and detach() interleave (start, _restart, _health_monitor).
THEOREM LoneWorkerIsAlwaysFound == Spec => [](exits = 0 => LoneWorkerIsFound)
<1>1. LoneInv => (exits = 0 => LoneWorkerIsFound) BY LoneFacts DEF LoneInv
<1> QED BY <1>1, AlwaysLone, PTL

-----------------------------------------------------------------------------
(***************************************************************************)
(* Across one reload of the same protocol version, for any number of       *)
(* crashes: when nobody is slower than the pauses the code allots, one     *)
(* worker is left, and until a stop it can be found.  A worker that was    *)
(* taken over has no handle, so that a stop() may leave it behind, running *)
(* and in no PID file.                                                     *)
(***************************************************************************)

\* As in OneAtWork, but the task on its way may be waiting for a worker that
\* was taken over, the only one there is, and stop() may have left one.
OneLeft ==
  /\ \A t, u \in Task : pc[t] \in Between /\ pc[u] \in Between => t = u
  /\ \A c \in Conn : pc[c] \notin Between
  /\ \A t \in Task : pc[t] \in Between => proc = None
  /\ \A t \in Task : pc[t] \in {"backoff", "bound"} => \A p \in Pid : ~Live(p)
  /\ \A t \in Task : pc[t] \in {"rebound", "reconnecting"} => \A p \in Pid : Live(p) => p = rpid[t]
  /\ \A p, q \in Pid : Live(p) /\ Live(q) => p = q
  /\ \A p \in Pid : Live(p) => (pidFile = p \/ phase = "stopped") /\ proc \in {p, None}
  /\ phase = "fresh" => proc = None /\ path = None /\ \A t \in Task : pc[t] = "none"

TakenInv == exits <= 1 => OsInv /\ OneLeft

\* No worker comes to life, and no task begins to look for the next one.
LEMMA LeftQuiet ==
  ASSUME TypeOK, OneLeft, UNCHANGED <<pidFile, proc, rpid, phase>>,
         \A p \in Pid : worker'[p].state \in LiveStates => Live(p),
         \A t \in Task : pc'[t] = pc[t] \/ pc'[t] \notin Between,
         phase = "fresh" => path' = path /\ \A t \in Task : pc'[t] = pc[t]
  PROVE  OneLeft'
<1>1. \A p \in Pid : Live(p)' => Live(p) BY DEF Live
<1>2. \A t \in Task : pc'[t] \in Between => pc'[t] = pc[t] OBVIOUS
<1>3. /\ \A t, u \in Task : pc'[t] \in Between /\ pc'[u] \in Between => t = u
      /\ \A c \in Conn : pc'[c] \notin Between
      /\ \A t \in Task : pc'[t] \in Between => proc' = None
  BY <1>2, TaskDisjoint DEF OneLeft
<1>4. /\ \A t \in Task : pc'[t] \in {"backoff", "bound"} => \A p \in Pid : ~Live(p)'
      /\ \A t \in Task : pc'[t] \in {"rebound", "reconnecting"} =>
           \A p \in Pid : Live(p)' => p = rpid'[t]
  BY <1>1, <1>2 DEF OneLeft, Between
<1>5. /\ \A p, q \in Pid : Live(p)' /\ Live(q)' => p = q
      /\ \A p \in Pid : Live(p)' => (pidFile' = p \/ phase' = "stopped") /\ proc' \in {p, None}
      /\ phase' = "fresh" => proc' = None /\ path' = None /\ \A t \in Task : pc'[t] = "none"
  BY <1>1 DEF OneLeft
<1> QED BY <1>3, <1>4, <1>5 DEF OneLeft

LEMMA WorkerLeft ==
  ASSUME TypeOK, OsInv, OneLeft, NEW p \in Pid, WorkerStep(p) \/ WorkerCrash(p)
  PROVE  OneLeft'
<1>1. pc \in [Task -> PC] BY DEF TypeOK
<1>2. \A t \in Task : pc'[t] = pc[t] \/ pc'[t] \notin Between
  BY <1>1, WorkerOs, TaskDisjoint DEF Between
<1>3. phase = "fresh" => pc' = pc BY WorkerOs DEF OneLeft
<1> QED BY <1>2, <1>3, WorkerOs, LeftQuiet

\* A PID file that is not empty names the worker there is, if there is one.
LEMMA BeginLeft ==
  ASSUME TypeOK, NEW t \in Task \ Conn, UNCHANGED worker, BeginStart(t, worker),
         \A p \in Pid : Live(p) => pidFile = p,
         \A u \in Task : pc[u] \in Between => u = t,
         proc' = None, phase' # "fresh"
  PROVE  OneLeft'
<1>0. /\ pc \in [Task -> PC] /\ rpid \in [Task -> Pid \cup {None}]
      /\ pidFile \in Pid \cup {None}
  BY DEF TypeOK
<1>1. \A p \in Pid : Live(p)' <=> Live(p) BY DEF Live
<1>2. CASE pidFile # None /\ worker[pidFile].state \in LiveStates
  <2>1. /\ pc' = [pc EXCEPT ![t] = "rebound"] /\ rpid' = [rpid EXCEPT ![t] = pidFile]
        /\ pidFile' = pidFile
    BY <1>2 DEF BeginStart
  <2>2. \A u \in Task : pc'[u] \in Between => u = t /\ pc'[u] = "rebound"
    BY <1>0, <2>1 DEF Between
  <2>3. rpid'[t] = pidFile BY <1>0, <2>1
  <2> HIDE DEF Between
  <2>4. \A p \in Pid : Live(p)' => pidFile' = p /\ rpid'[t] = p BY <1>1, <2>1, <2>3
  <2>5. \A c \in Conn : pc'[c] \notin Between BY <2>2, TaskDisjoint
  <2> QED BY <2>2, <2>4, <2>5 DEF OneLeft, Between
<1>3. CASE ~(pidFile # None /\ worker[pidFile].state \in LiveStates)
  <2>1. pc' = [pc EXCEPT ![t] = "bound"] BY <1>3 DEF BeginStart
  <2>2. \A u \in Task : pc'[u] \in Between => u = t /\ pc'[u] = "bound"
    BY <1>0, <2>1 DEF Between
  <2>3. \A p \in Pid : ~Live(p)' BY <1>1, <1>3, TaskDisjoint DEF Live
  <2>4. \A c \in Conn : pc'[c] \notin Between BY <2>2, TaskDisjoint
  <2> QED BY <2>2, <2>3, <2>4 DEF OneLeft, Between
<1> QED BY <1>2, <1>3

\* The only worker there is reconnects in time, or is dead by then.
LEMMA OnlyDeadTimeOut ==
  ASSUME TypeOK, OsInv, Prompt, NEW t \in Task, ReconnectTimeout(t)
  PROVE  ~Live(rpid[t])
<1>1. rpid[t] \in Pid BY DEF TypeOK, ReconnectTimeout
<1> QED BY <1>1 DEF ReconnectTimeout, OsInv, WorkerOk, Live

LEMMA StartLeft ==
  ASSUME TypeOK, OsInv, OneLeft, Prompt, NEW t \in Task, StartStep(t)
  PROVE  OneLeft'
<1>0. worker \in [Pid -> WorkerRec] /\ pc \in [Task -> PC] /\ pc[t] # "none"
  BY DEF TypeOK, StartStep, Resignal, Reconnected, ReconnectTimeout, Spawn,
         StartReturns, Restart
<1>f. phase # "fresh" BY <1>0 DEF OneLeft
<1>1. CASE Resignal(t)
  <2>1. /\ UNCHANGED <<pidFile, proc, rpid, phase>> /\ pc[t] = "rebound"
        /\ \E s \in {"none", "reconnecting"} : pc' = [pc EXCEPT ![t] = s]
        /\ \/ worker' = worker \/ worker' = [worker EXCEPT ![rpid[t]] = Usr1(worker[rpid[t]])]
    BY <1>1 DEF Resignal, envVars
  <2>2. \A p \in Pid : Usr1(worker[p]).state \in LiveStates => Live(p)
    BY <1>0 DEF Usr1, Ended, WorkerRec, Live, LiveStates
  <2>3. \A p \in Pid : Live(p)' => Live(p) BY <1>0, <2>1, <2>2 DEF Live
  <2>4. \A u \in Task : u # t => pc'[u] = pc[u] BY <1>0, <2>1
  <2>5. pc'[t] \in {"none", "reconnecting"} BY <1>0, <2>1
  <2>6. pc[t] \in Between /\ t \notin Conn /\ proc = None /\ \A p \in Pid : Live(p) => p = rpid[t]
    BY <2>1 DEF OneLeft, Between
  <2>7. \A u \in Task : pc'[u] \in Between => u = t BY <2>4, <2>6 DEF OneLeft
  <2>8. /\ \A c \in Conn : pc'[c] \notin Between
        /\ \A u \in Task : pc'[u] \in {"backoff", "bound"} => FALSE
        /\ \A u \in Task : pc'[u] \in {"rebound", "reconnecting"} => u = t
    BY <2>5, <2>6, <2>7, TaskDisjoint DEF Between
  <2>9. \A p, q \in Pid : Live(p)' /\ Live(q)' => p = q BY <2>3 DEF OneLeft
  <2>10. \A p \in Pid : Live(p)' => (pidFile' = p \/ phase' = "stopped") /\ proc' \in {p, None}
    BY <2>1, <2>3 DEF OneLeft
  <2> QED BY <1>f, <2>1, <2>3, <2>6, <2>7, <2>8, <2>9, <2>10 DEF OneLeft
<1>2. CASE \E m \in Monitor : Reconnected(t, m)
  <2>1. UNCHANGED <<worker, pidFile, proc, rpid, phase>>
    BY <1>2 DEF Reconnected, osVars, envVars
  <2>2. \A u \in Task : pc'[u] = pc[u] \/ pc'[u] \in {"none", "sleep"}
    BY <1>0, <1>2, TaskDisjoint DEF Reconnected, Resume
  <2> QED BY <1>f, <2>1, <2>2, LeftQuiet DEF Live, Between
<1>3. CASE ReconnectTimeout(t)
  <2>1. /\ pc[t] = "reconnecting" /\ pc' = [pc EXCEPT ![t] = "bound"]
        /\ UNCHANGED <<proc, phase>>
    BY <1>3 DEF ReconnectTimeout, fieldVars, envVars
  <2>2. /\ pc[t] \in Between /\ t \notin Conn /\ proc = None
        /\ \A u \in Task : pc[u] \in Between => u = t
        /\ \A p \in Pid : Live(p) => p = rpid[t]
    BY <2>1 DEF OneLeft, Between
  <2>3. \A p \in Pid : ~Live(p) BY <1>3, <2>2, OnlyDeadTimeOut
  <2>4. worker' = [worker EXCEPT ![rpid[t]] = Term(worker[rpid[t]])]
    BY <1>3 DEF ReconnectTimeout
  <2>5. \A p \in Pid : Term(worker[p]) = worker[p] BY <2>3 DEF Term, Live, LiveStates
  <2>6. \A p \in Pid : ~Live(p)' BY <1>0, <2>3, <2>4, <2>5 DEF Live
  <2>7. \A u \in Task : pc'[u] \in Between => u = t /\ pc'[u] = "bound"
    BY <1>0, <2>1, <2>2 DEF Between
  <2>8. \A c \in Conn : pc'[c] \notin Between BY <2>2, <2>7, TaskDisjoint
  <2> QED BY <1>f, <2>1, <2>2, <2>6, <2>7, <2>8 DEF OneLeft, Between
<1>4. ASSUME NEW p \in Pid, NEW m \in Monitor, Spawn(t, p, m)
      PROVE  OneLeft'
  <2>1. /\ worker' = [worker EXCEPT ![p] = worker'[p]]
        /\ phase' = phase /\ proc' = p /\ pidFile' = p
        /\ pc' = [pc EXCEPT ![m] = "sleep", ![t] = "connecting"] /\ pc[t] = "bound"
    BY <1>0, <1>4 DEF Spawn, envVars
  <2>2. \A u \in Task : pc'[u] \notin Between
    <3>1. \A u \in Task : pc[u] \in Between => u = t BY <2>1 DEF OneLeft, Between
    <3> QED BY <1>0, <2>1, <3>1, TaskDisjoint DEF Between
  <2>3. \A q \in Pid : Live(q)' => q = p
    <3>1. \A q \in Pid : ~Live(q) BY <2>1 DEF OneLeft
    <3> QED BY <1>0, <2>1, <3>1 DEF Live
  <2>4. \A u \in Task : pc'[u] \notin {"backoff", "bound", "rebound", "reconnecting"}
    BY <2>2 DEF Between
  <2>5. \A c \in Conn : pc'[c] \notin Between BY <2>2, TaskDisjoint
  <2> QED BY <1>f, <2>1, <2>2, <2>3, <2>4, <2>5 DEF OneLeft
<1>5. CASE StartReturns(t)
  <2>1. UNCHANGED <<worker, pidFile, proc, rpid, phase>>
    BY <1>5 DEF StartReturns, osVars, fieldVars, envVars
  <2>2. \E s \in {"none", "sleep"} : pc' = [pc EXCEPT ![t] = s]
    BY <1>5 DEF StartReturns, Resume
  <2>3. \A u \in Task : pc'[u] = pc[u] \/ pc'[u] \in {"none", "sleep"} BY <1>0, <2>2
  <2> QED BY <1>f, <2>1, <2>3, LeftQuiet DEF Live, Between
<1>6. CASE Restart(t)
  <2>1. /\ pc[t] \in Between /\ pc[t] = "backoff" /\ phase' = phase /\ t \notin Conn
        /\ proc = None /\ \A p \in Pid : ~Live(p)
        /\ \A u \in Task : pc[u] \in Between => u = t
    BY <1>6 DEF Restart, OneLeft, Between, envVars
  <2>2. CASE stopping
    <3>1. /\ UNCHANGED <<worker, pidFile, proc, rpid>> /\ pc' = [pc EXCEPT ![t] = "none"]
      BY <1>6, <2>2 DEF Restart
    <3>2. \A u \in Task : pc'[u] = pc[u] \/ pc'[u] \notin Between BY <1>0, <3>1 DEF Between
    <3> QED BY <1>f, <2>1, <3>1, <3>2, LeftQuiet DEF Live
  <2>3. CASE ~stopping
    <3>1. /\ worker' = [p \in Pid |-> IF p = proc THEN Ended(worker[p]) ELSE worker[p]]
          /\ proc' = None /\ BeginStart(t, worker')
      BY <1>6, <2>3 DEF Restart
    <3>2. worker' = worker BY <1>0, <2>1, <3>1, TaskDisjoint
    <3>3. BeginStart(t, worker) BY <3>1, <3>2
    <3> QED BY <1>f, <2>1, <3>1, <3>2, <3>3, BeginLeft
  <2> QED BY <2>2, <2>3
<1> QED BY <1>1, <1>2, <1>3, <1>4, <1>5, <1>6 DEF StartStep

LEMMA MonitorLeft ==
  ASSUME TypeOK, OneLeft, NEW m \in Monitor, MonitorStep(m)
  PROVE  OneLeft'
<1>0. pc \in [Task -> PC] BY DEF TypeOK
<1>1. UNCHANGED <<worker, pidFile, rpid, phase>> /\ pc[m] = "sleep"
  BY DEF MonitorStep, MonitorNotices, MonitorQuits, osVars, fieldVars, envVars
<1>f. phase # "fresh" BY <1>1, TaskDisjoint DEF OneLeft
<1>2. CASE MonitorQuits(m)
  <2>1. proc' = proc /\ \A t \in Task : pc'[t] = pc[t] \/ pc'[t] \notin Between
    BY <1>0, <1>2 DEF MonitorQuits, fieldVars, Between
  <2> QED BY <1>f, <1>1, <2>1, LeftQuiet DEF Live
<1>3. CASE MonitorNotices(m)
  <2>1. proc # None /\ ~Live(proc) /\ proc' = None /\ pc' = [pc EXCEPT ![m] = "backoff"]
    BY <1>3 DEF MonitorNotices
  <2>2. \A p \in Pid : ~Live(p) BY <2>1 DEF OneLeft
  <2>3. \A p \in Pid : ~Live(p)' BY <1>1, <2>2 DEF Live
  <2>4. \A t \in Task : pc[t] \notin Between BY <2>1 DEF OneLeft
  <2>5. \A t \in Task : pc'[t] \in Between => t = m /\ pc'[t] = "backoff"
    BY <1>0, <2>1, <2>4 DEF Between
  <2>6. \A c \in Conn : pc'[c] \notin Between BY <2>5, TaskDisjoint
  <2> QED BY <1>f, <1>1, <2>1, <2>3, <2>5, <2>6 DEF OneLeft, Between
<1> QED BY <1>2, <1>3 DEF MonitorStep

LEMMA HandlerLeft ==
  ASSUME TypeOK, OsInv, OneLeft, NEW c \in Conn, HandlerStep(c)
  PROVE  OneLeft'
<1>1. pc \in [Task -> PC] BY DEF TypeOK
<1>2. phase # "fresh" BY HandlerOs, TaskDisjoint DEF OneLeft
<1>3. \A t \in Task : pc'[t] = pc[t] \/ pc'[t] \notin Between
  BY <1>1, HandlerOs, TaskDisjoint DEF Between
<1> QED BY <1>2, <1>3, HandlerOs, LeftQuiet DEF Live

LEMMA LifecycleLeft ==
  ASSUME TypeOK, OsInv, OneLeft, Start \/ Stop \/ Detach
  PROVE  OneLeft'
<1>1. CASE Start
  <2>1. /\ UNCHANGED <<worker, proc>> /\ phase = "fresh" /\ phase' # "fresh"
        /\ BeginStart(Lifespan, worker)
    BY <1>1 DEF Start, osVars, fieldVars
  <2>2. /\ proc = None /\ \A t \in Task : pc[t] \notin Between
        /\ \A p \in Pid : Live(p) => pidFile = p
    BY <2>1 DEF OneLeft, Between
  <2> QED BY <2>1, <2>2, BeginLeft, TaskDisjoint
<1>2. CASE Stop \/ Detach
  <2>1. /\ phase' # "fresh" /\ proc' = None /\ rpid' = rpid
        /\ \A t \in Task : pc'[t] \in Between => pc'[t] = pc[t]
        /\ \A p \in Pid : Live(p)' => Live(p)
    BY <1>2, CloseOs DEF Between
  <2>2. /\ \A t, u \in Task : pc'[t] \in Between /\ pc'[u] \in Between => t = u
        /\ \A c \in Conn : pc'[c] \notin Between
        /\ \A t \in Task : pc'[t] \in {"backoff", "bound"} => \A p \in Pid : ~Live(p)'
        /\ \A t \in Task : pc'[t] \in {"rebound", "reconnecting"} =>
             \A p \in Pid : Live(p)' => p = rpid'[t]
    BY <2>1, TaskDisjoint DEF OneLeft, Between
  <2>3. /\ \A p, q \in Pid : Live(p)' /\ Live(q)' => p = q
        /\ \A p \in Pid : Live(p)' => pidFile' = p \/ phase' = "stopped"
    BY <1>2, <2>1, CloseOs DEF OneLeft
  <2> QED BY <2>1, <2>2, <2>3 DEF OneLeft
<1> QED BY <1>1, <1>2

\* A main process that exits has left the worker that its PID file names.
LEMMA ReloadLeft ==
  ASSUME TypeOK, OsInv, OneAtWork, \A v, w \in Version : v = w, MainExit
  PROVE  OsInv' /\ OneLeft'
<1>0. worker \in [Pid -> WorkerRec] /\ \A p \in Pid : WorkerOk(worker[p])
  BY DEF TypeOK, OsInv
<1>1. /\ phase' = "fresh" /\ proc' = None /\ path' = None /\ pidFile' = pidFile
      /\ \A t \in Task : pc'[t] = "none"
  BY DEF MainExit
<1>2. version' = version BY DEF MainExit, TypeOK
<1>3. \A p \in Pid : worker'[p].state = worker[p].state /\ WorkerOk(worker'[p])
  BY <1>0 DEF MainExit, WorkerRec, WorkerOk
<1>4. OsInv' BY <1>1, <1>2, <1>3, TaskDisjoint DEF OsInv, WorkerOk
<1>5. \A p \in Pid : Live(p)' => pidFile' = p BY <1>1, <1>3 DEF OneAtWork, Live
<1>6. \A c \in Conn : pc'[c] \notin Between BY <1>1, TaskDisjoint DEF Between
<1>7. OneLeft' BY <1>1, <1>5, <1>6 DEF OneLeft, Between
<1> QED BY <1>4, <1>7

LEMMA UntilSecondReload ==
  TypeOK /\ [Next]_vars /\ exits' <= 1 => exits <= 1 /\ (MainExit => exits = 0)
<1> SUFFICES ASSUME TypeOK, [Next]_vars, exits' <= 1 PROVE exits <= 1 /\ (MainExit => exits = 0)
  OBVIOUS
<1>1. exits \in Nat BY ConstantsAssumption DEF TypeOK
<1>2. CASE MainExit BY <1>1, <1>2 DEF MainExit
<1>3. CASE ~MainExit
  <2>1. exits' = exits
    BY <1>3 DEF Next, WorkerStep, WorkerBoot, WorkerConnect, WorkerHandshake, WorkerRead,
       WorkerUsr1, WorkerTerm, WorkerExit, WorkerCrash, StartStep, Resignal, Reconnected,
       ReconnectTimeout, Spawn, StartReturns, Restart, MonitorStep, MonitorNotices,
       MonitorQuits, HandlerStep, Accept, HandshakeOk, HandshakeMismatch, HandshakeFails,
       HandlerEnds, Start, Stop, Detach, envVars, vars
  <2> QED BY <1>3, <2>1
<1> QED BY <1>2, <1>3

LEMMA LeftStep ==
  ASSUME Prompt, \A v, w \in Version : v = w, TypeOK, LoneInv, TakenInv, [Next]_vars
  PROVE  TakenInv'
<1> SUFFICES ASSUME exits' <= 1 PROVE OsInv' /\ OneLeft' BY DEF TakenInv
<1>1. exits <= 1 /\ (MainExit => exits = 0) BY UntilSecondReload
<1>2. OsInv /\ OneLeft BY <1>1 DEF TakenInv
<1>3. CASE UNCHANGED vars
  <2>1. UNCHANGED <<worker, conn, pidFile, path, proc, pc, rpid, phase, version>>
    BY <1>3 DEF vars, osVars, fieldVars, envVars
  <2> QED BY <1>2, <2>1, LeftQuiet, OsQuiet DEF OsInv, Live
<1>4. CASE \E p \in Pid : WorkerStep(p) \/ WorkerCrash(p) BY <1>2, <1>4, WorkerOs, WorkerLeft
<1>5. CASE \E t \in Task : StartStep(t) BY <1>2, <1>5, OnlyDeadTimeOut, StartOs, StartLeft
<1>6. CASE \E m \in Monitor : MonitorStep(m) BY <1>2, <1>6, MonitorOs, MonitorLeft
<1>7. CASE \E c \in Conn : HandlerStep(c) BY <1>2, <1>7, HandlerOs, HandlerLeft
<1>8. CASE Start \/ Stop \/ Detach BY <1>2, <1>8, BeginOs, CloseOs, LifecycleLeft
<1>9. CASE MainExit BY <1>1, <1>2, <1>9, ReloadLeft DEF LoneInv
<1> QED BY <1>3, <1>4, <1>5, <1>6, <1>7, <1>8, <1>9 DEF Next

LEMMA InitLeft == Init => TakenInv
<1> SUFFICES ASSUME Init PROVE OsInv /\ OneLeft BY DEF TakenInv
<1>1. OsInv BY InitLone DEF Init, LoneInv
<1>2. /\ \A t \in Task : pc[t] = "none"
      /\ \A p \in Pid : ~Live(p)
      /\ proc = None /\ path = None
  BY DEF Init, NoWorker, Live, LiveStates
<1>3. OneLeft BY <1>2, TaskDisjoint DEF OneLeft, Between
<1> QED BY <1>1, <1>3

LEMMA LeftFacts == TypeOK /\ OneLeft => WantedWorkerIsFound
<1> SUFFICES ASSUME TypeOK, OneLeft PROVE WantedWorkerIsFound OBVIOUS
<1>1. \A p \in Pid : Wanted(p) => Live(p) BY DEF Wanted, Live, LiveStates
<1>2. NoDuplicate
  <2>1. CASE \E p \in Pid : Wanted(p)
    <3>1. PICK p \in Pid : Wanted(p) BY <2>1
    <3>2. {q \in Pid : Wanted(q)} \subseteq {p} BY <1>1, <3>1 DEF OneLeft
    <3>3. Cardinality({p}) = 1 /\ IsFiniteSet({p}) BY FS_Singleton
    <3>4. IsFiniteSet({q \in Pid : Wanted(q)}) BY <3>2, <3>3, FS_Subset
    <3>5. Cardinality({q \in Pid : Wanted(q)}) <= 1 BY <3>2, <3>3, FS_Subset
    <3> QED BY <3>5 DEF NoDuplicate
  <2>2. CASE ~ \E p \in Pid : Wanted(p)
    <3>1. {q \in Pid : Wanted(q)} = {} BY <2>2
    <3>2. Cardinality({q \in Pid : Wanted(q)}) = 0 BY <3>1, FS_EmptySet
    <3> QED BY <3>2 DEF NoDuplicate
  <2> QED BY <2>1, <2>2
<1>3. RecoverableUntilStop BY <1>1 DEF RecoverableUntilStop, Recoverable, OneLeft
<1> QED BY <1>2, <1>3 DEF WantedWorkerIsFound

\* A main process that takes over after one reload or crash leaves one worker
\* to run, and until a stop the PID file names it, however crashes, restarts,
\* reconnections, stop() and detach() interleave (_try_reconnect, start).
THEOREM WantedIsAlwaysFound ==
  ASSUME Prompt, \A v, w \in Version : v = w
  PROVE  Spec => [](exits <= 1 => WantedWorkerIsFound)
<1>1. TypeOK /\ TakenInv => (exits <= 1 => WantedWorkerIsFound) BY LeftFacts DEF TakenInv
<1>2. TypeOK /\ LoneInv /\ TakenInv /\ [Next]_vars => TakenInv' BY LeftStep
<1> QED BY <1>1, <1>2, InitLeft, AlwaysLone, TypeCorrect, PTL DEF Spec

-----------------------------------------------------------------------------
(* Restarts spare a worker in service                                      *)

\* No shutdown order among the lines.
Clean(q) == \A i \in DOMAIN q : q[i] # "shutdown"

LEMMA CleanOps ==
  ASSUME NEW q \in Seq(Lines), Clean(q)
  PROVE  /\ q # <<>> => Clean(Tail(q)) /\ Head(q) # "shutdown"
         /\ Clean(Append(q, "ack")) /\ Clean(Append(q, "detach"))
<1>1. q # <<>> => Clean(Tail(q)) /\ Head(q) # "shutdown" BY DEF Clean
<1>2. Clean(Append(q, "ack")) /\ Clean(Append(q, "detach")) BY DEF Clean
<1> QED BY <1>1, <1>2

\* stop() alone writes it.
LEMMA CleanStep ==
  ASSUME TypeOK, [Next]_vars, ~Stop, NEW c \in Conn, Clean(conn[c].inbox)
  PROVE  Clean(conn'[c].inbox)
<1>0. conn \in [Conn -> ConnRec] /\ conn[c].inbox \in Seq(Lines) BY DEF TypeOK, ConnRec
<1>2. ASSUME NEW p \in Pid, WorkerStep(p) \/ WorkerCrash(p) PROVE Clean(conn'[c].inbox)
  <2>1. ASSUME NEW d \in Conn, WorkerConnect(p, d) PROVE Clean(conn'[c].inbox)
    <3>1. conn'[c].inbox = conn[c].inbox \/ conn'[c].inbox = <<>>
      BY <1>0, <2>1 DEF WorkerConnect
    <3> QED BY <3>1 DEF Clean
  <2>2. CASE WorkerHandshake(p) \/ WorkerRead(p)
    <3> DEFINE k == worker[p].conn
    <3>1. CASE conn[k].inbox # <<>> /\ conn' = [conn EXCEPT ![k].inbox = Tail(@)]
      <4>1. CASE k = c
        <5>1. conn'[c].inbox = Tail(conn[c].inbox) /\ conn[c].inbox # <<>>
          BY <1>0, <3>1, <4>1 DEF ConnRec
        <5> QED BY <1>0, <5>1, CleanOps
      <4>2. CASE k # c BY <1>0, <3>1, <4>2
      <4> QED BY <4>1, <4>2
    <3>2. CASE conn' = conn BY <3>2
    <3> QED BY <2>2, <3>1, <3>2 DEF WorkerHandshake, WorkerRead
  <2>3. CASE \/ WorkerBoot(p) \/ WorkerUsr1(p) \/ WorkerTerm(p) \/ WorkerExit(p) \/ WorkerCrash(p)
    BY <2>3 DEF WorkerBoot, WorkerUsr1, WorkerTerm, WorkerExit, WorkerCrash
  <2> QED BY <1>2, <2>1, <2>2, <2>3 DEF WorkerStep
<1>3. ASSUME NEW d \in Conn, HandlerStep(d) PROVE Clean(conn'[c].inbox)
  <2>1. CASE HandshakeOk(d)
    <3>1. conn' = [conn EXCEPT ![d].inbox = Append(@, "ack")] BY <2>1 DEF HandshakeOk
    <3>2. conn'[c].inbox = conn[c].inbox \/ conn'[c].inbox = Append(conn[c].inbox, "ack")
      BY <1>0, <3>1 DEF ConnRec
    <3> QED BY <1>0, <3>2, CleanOps
  <2>2. CASE HandshakeMismatch(d) \/ HandshakeFails(d)
    <3>1. conn' = [conn EXCEPT ![d] = Closed(@)] BY <2>2 DEF HandshakeMismatch, HandshakeFails
    <3>2. conn'[c].inbox = conn[c].inbox BY <1>0, <3>1 DEF ConnRec, Closed
    <3> QED BY <3>2
  <2>3. CASE Accept(d) \/ HandlerEnds(d) BY <2>3 DEF Accept, HandlerEnds, osVars
  <2> QED BY <1>3, <2>1, <2>2, <2>3 DEF HandlerStep
<1>4. CASE Detach
  <2>1. HangUp("detach") BY <1>4 DEF Detach
  <2>2. conn'[c].inbox = conn[c].inbox \/ conn'[c].inbox = Append(conn[c].inbox, "detach")
    BY <1>0, <2>1 DEF HangUp, Closed, ConnRec
  <2> QED BY <1>0, <2>2, CleanOps
<1>5. CASE MainExit
  <2>1. conn'[c].inbox = conn[c].inbox BY <1>0, <1>5 DEF MainExit, Closed, ConnRec
  <2> QED BY <2>1
<1>6. CASE \/ \E t \in Task : StartStep(t)
           \/ \E m \in Monitor : MonitorStep(m)
           \/ Start \/ UNCHANGED vars
  <2>1. conn' = conn
    BY <1>6 DEF StartStep, Resignal, Reconnected, ReconnectTimeout, Spawn, StartReturns,
                Restart, MonitorStep, MonitorNotices, MonitorQuits, Start, osVars, vars
  <2> QED BY <2>1
<1> QED BY <1>2, <1>3, <1>4, <1>5, <1>6 DEF Next

\* What keeps a worker wanted.
LEMMA StaysWanted ==
  ASSUME NEW p \in Pid, worker'[p].state \in {"booting", "running"}, ~worker'[p].term,
         worker'[p].conn # None => Clean(conn'[worker'[p].conn].inbox), None \notin Conn
  PROVE  Wanted(p)'
BY DEF Wanted, Clean

LEMMA Spared ==
  ASSUME TypeOK, OsInv, OneAtWork, [Next]_vars, ~MainExit, ~Stop,
         NEW p \in Pid, InService(p), crashes' = crashes
  PROVE  Wanted(p)'
<1> DEFINE k == worker[p].conn
<1>0. /\ worker \in [Pid -> WorkerRec] /\ worker[p] \in WorkerRec /\ k \in Conn
      /\ WorkerOk(worker[p]) /\ Live(p)
      /\ worker[p].state \in {"booting", "running"} /\ worker[p].phase = "up" /\ ~worker[p].term
      /\ conn[k].inbox \in Seq(Lines) /\ None \notin Conn
  BY TaskDisjoint DEF TypeOK, WorkerRec, OsInv, InService, Wanted, Live, LiveStates, ConnRec
<1>1. Clean(conn[k].inbox) BY <1>0 DEF InService, Wanted, Clean
<1>2. Clean(conn'[k].inbox) BY <1>0, <1>1, CleanStep
<1>3. CASE worker'[p] = worker[p] BY <1>0, <1>2, <1>3, StaysWanted
<1>4. CASE WorkerStep(p) \/ WorkerCrash(p)
  <2>1. ~WorkerCrash(p)
    <3>1. crashes \in Nat BY ConstantsAssumption DEF TypeOK
    <3> QED BY <3>1 DEF WorkerCrash
  <2>2. ~WorkerTerm(p) /\ ~WorkerExit(p) /\ ~WorkerHandshake(p)
        /\ ~ \E c \in Conn : WorkerConnect(p, c)
    BY <1>0 DEF WorkerTerm, WorkerExit, WorkerHandshake, WorkerConnect
  <2>3. CASE WorkerBoot(p)
    <3>1. worker'[p] = [worker[p] EXCEPT !.state = "running"] BY <1>0, <2>3 DEF WorkerBoot
    <3> QED BY <1>0, <1>2, <3>1, StaysWanted DEF WorkerRec
  <2>4. CASE WorkerRead(p)
    <3>1. conn[k].inbox # <<>> => Head(conn[k].inbox) # "shutdown" BY <1>0, <1>1, CleanOps
    <3>2. worker'[p] = Dropped(worker[p]) BY <1>0, <2>4, <3>1 DEF WorkerRead
    <3> QED BY <1>0, <3>2, StaysWanted DEF WorkerRec, Dropped
  <2>5. CASE WorkerUsr1(p)
    <3>1. worker'[p] = [Dropped(worker[p]) EXCEPT !.usr1 = FALSE] BY <1>0, <2>5 DEF WorkerUsr1
    <3> QED BY <1>0, <3>1, StaysWanted DEF WorkerRec, Dropped
  <2> QED BY <1>4, <2>1, <2>2, <2>3, <2>4, <2>5 DEF WorkerStep
<1>5. ASSUME NEW q \in Pid \ {p}, WorkerStep(q) \/ WorkerCrash(q) PROVE worker'[p] = worker[p]
  <2>1. \E w : worker' = [worker EXCEPT ![q] = w]
    BY <1>5 DEF WorkerStep, WorkerBoot, WorkerConnect, WorkerHandshake, WorkerRead,
                WorkerUsr1, WorkerTerm, WorkerExit, WorkerCrash
  <2> QED BY <1>0, <2>1
<1>6. ASSUME NEW t \in Task, StartStep(t) PROVE worker'[p] = worker[p]
  <2>1. pc[t] \notin Between BY <1>0 DEF OneAtWork
  <2>2. StartReturns(t)
    BY <1>6, <2>1 DEF Between, StartStep, Resignal, Reconnected, ReconnectTimeout, Spawn, Restart
  <2> QED BY <2>2 DEF StartReturns, osVars
<1>7. ASSUME \/ \E m \in Monitor : MonitorStep(m)
             \/ \E c \in Conn : HandlerStep(c)
             \/ Start \/ Detach \/ UNCHANGED vars
      PROVE  worker'[p] = worker[p]
  BY <1>7 DEF MonitorStep, MonitorNotices, MonitorQuits, HandlerStep, Accept, HandshakeOk,
              HandshakeMismatch, HandshakeFails, HandlerEnds, Start, Detach, osVars, vars
<1> QED BY <1>3, <1>4, <1>5, <1>6, <1>7 DEF Next

\* With one main process, nothing but stop() kills or dismisses a worker whose
\* handshake is done on both ends: no monitor, restart or old handler does
\* (_restart, _health_monitor, _handle_ipc_connection).
THEOREM HealthyIsAlwaysSpared == MaxExits = 0 /\ Spec => HealthyIsSpared
<1> SUFFICES ASSUME MaxExits = 0 PROVE Spec => HealthyIsSpared OBVIOUS
<1>1. TypeOK /\ LoneInv /\ [Next]_vars =>
        [\A p \in Pid : InService(p) /\ crashes' = crashes => Wanted(p)' \/ phase' = "stopped"]_vars
  <2> SUFFICES ASSUME TypeOK, LoneInv, [Next]_vars, NEW p \in Pid, InService(p), crashes' = crashes
               PROVE  Wanted(p)' \/ phase' = "stopped"
    OBVIOUS
  <2>1. exits = 0 /\ ~MainExit BY DEF TypeOK, MainExit
  <2>2. OsInv /\ OneAtWork BY <2>1 DEF LoneInv
  <2>3. Stop => phase' = "stopped" BY DEF Stop
  <2> QED BY <2>1, <2>2, <2>3, Spared
<1> QED BY <1>1, TypeCorrect, AlwaysLone, PTL DEF Spec, HealthyIsSpared

-----------------------------------------------------------------------------
(* stop() is final                                                         *)

\* Until stop() is called nobody is told to shut down, and nobody does.
Calm ==
  phase \in {"fresh", "started"} =>
    /\ \A c \in Conn : Clean(conn[c].inbox)
    /\ \A p \in Pid : worker[p].state # "stopping"

\* Only one monitor is there, the one that stop() cancels, unless the worker
\* that replaced the one that crashed lives; then nobody restarts anything.
OneMonitor ==
  phase = "started" =>
    /\ crashes = 0 /\ proc # None => Live(proc)
    /\ crashes = 0 => \A m \in Monitor : pc[m] \notin Between
    /\ pc[Lifespan] # "backoff"
    /\ pc[Lifespan] = "bound" => \A m \in Monitor : pc[m] = "none"
    /\ \/ \A m \in Monitor : pc[m] # "none" => m = monitorTask
       \/ crashes = 1 /\ proc # None /\ Live(proc)

Stopped == phase = "stopped" => stopping /\ proc = None /\ \A t \in Task : pc[t] # "bound"

StopInv == exits = 0 => Calm /\ OneMonitor /\ Stopped

LEMMA CalmStep ==
  ASSUME TypeOK, OsInv, OneAtWork, Calm, [Next]_vars, ~MainExit
  PROVE  Calm'
<1> SUFFICES ASSUME phase' \in {"fresh", "started"}
             PROVE  /\ \A c \in Conn : Clean(conn'[c].inbox)
                    /\ \A p \in Pid : worker'[p].state # "stopping"
  BY DEF Calm, Clean
<1>0. /\ worker \in [Pid -> WorkerRec] /\ conn \in [Conn -> ConnRec]
      /\ \A c \in Conn : conn[c].inbox \in Seq(Lines)
      /\ \A p \in Pid : WorkerOk(worker[p])
  BY DEF TypeOK, ConnRec, OsInv
<1>1. ~Stop /\ ~Detach BY DEF Stop, Detach
<1>2. phase \in {"fresh", "started"}
  BY <1>1 DEF Next, WorkerStep, WorkerBoot, WorkerConnect, WorkerHandshake, WorkerRead,
     WorkerUsr1, WorkerTerm, WorkerExit, WorkerCrash, StartStep, Resignal, Reconnected,
     ReconnectTimeout, Spawn, StartReturns, Restart, MonitorStep, MonitorNotices,
     MonitorQuits, HandlerStep, Accept, HandshakeOk, HandshakeMismatch, HandshakeFails,
     HandlerEnds, Start, envVars, vars
<1>3. \A c \in Conn : Clean(conn[c].inbox) BY <1>2 DEF Calm
<1>4. \A p \in Pid : worker[p].state # "stopping" BY <1>2 DEF Calm
<1>5. \A c \in Conn : Clean(conn'[c].inbox) BY <1>1, <1>3, CleanStep
<1>6. ASSUME NEW p \in Pid, WorkerStep(p) \/ WorkerCrash(p)
      PROVE  \A q \in Pid : worker'[q].state # "stopping"
  <2>0. worker[p] \in WorkerRec BY <1>0
  <2>1. ~WorkerTerm(p) /\ ~WorkerExit(p) BY <1>0, <1>4 DEF WorkerTerm, WorkerExit, WorkerOk
  <2>2. \E w : worker' = [worker EXCEPT ![p] = w] /\ w.state # "stopping"
    <3>1. CASE WorkerRead(p)
      <4>1. worker[p].conn \in Conn BY <2>0, <3>1 DEF WorkerRead, TypeOK, WorkerRec
      <4>2. worker' = [worker EXCEPT ![p] = Dropped(@)]
        BY <1>0, <1>3, <3>1, <4>1, CleanOps DEF WorkerRead
      <4>3. Dropped(worker[p]).state = worker[p].state BY <2>0 DEF WorkerRec, Dropped
      <4> QED BY <1>4, <4>2, <4>3
    <3>2. CASE WorkerHandshake(p) \/ WorkerUsr1(p)
      <4>1. \E w \in {Dropped(worker[p]), [worker[p] EXCEPT !.phase = "up"],
                      [Dropped(worker[p]) EXCEPT !.usr1 = FALSE]} :
              worker' = [worker EXCEPT ![p] = w]
        BY <3>2 DEF WorkerHandshake, WorkerUsr1
      <4>2. \A w \in {Dropped(worker[p]), [worker[p] EXCEPT !.phase = "up"],
                      [Dropped(worker[p]) EXCEPT !.usr1 = FALSE]} : w.state = worker[p].state
        BY <2>0 DEF WorkerRec, Dropped
      <4> QED BY <1>4, <4>1, <4>2
    <3>3. CASE WorkerBoot(p) \/ WorkerCrash(p)
      <4>1. \E w \in {[worker[p] EXCEPT !.state = "running"], Ended(worker[p])} :
              worker' = [worker EXCEPT ![p] = w]
        BY <3>3 DEF WorkerBoot, WorkerCrash
      <4>2. \A w \in {[worker[p] EXCEPT !.state = "running"], Ended(worker[p])} : w.state # "stopping"
        BY <2>0 DEF WorkerRec, Ended
      <4> QED BY <4>1, <4>2
    <3>4. ASSUME NEW c \in Conn, WorkerConnect(p, c)
          PROVE  \E w : worker' = [worker EXCEPT ![p] = w] /\ w.state # "stopping"
      <4> DEFINE w == [worker[p] EXCEPT !.phase = "hello", !.conn = c]
      <4>1. worker' = [worker EXCEPT ![p] = w] BY <3>4 DEF WorkerConnect
      <4>2. w.state = worker[p].state BY <2>0 DEF WorkerRec
      <4> HIDE DEF w
      <4> QED BY <1>4, <4>1, <4>2
    <3> QED BY <1>6, <2>1, <3>1, <3>2, <3>3, <3>4 DEF WorkerStep
  <2> QED BY <1>0, <1>4, <2>2
<1>7. ASSUME NEW t \in Task, StartStep(t)
      PROVE  \A q \in Pid : worker'[q].state # "stopping"
  <2>1. ASSUME NEW p \in Pid, NEW m \in Monitor, Spawn(t, p, m)
        PROVE  \A q \in Pid : worker'[q].state # "stopping"
    <3> DEFINE w == [NoWorker EXCEPT !.state = "booting", !.child = TRUE, !.ver = version]
    <3>1. worker' = [worker EXCEPT ![p] = w] BY <2>1 DEF Spawn
    <3>2. w.state = "booting" BY DEF NoWorker
    <3> HIDE DEF w
    <3> QED BY <1>0, <1>4, <3>1, <3>2
  <2>2. CASE Restart(t)
    <3>1. \A p \in Pid : worker'[p] = worker[p] \/ worker'[p] = Ended(worker[p])
      BY <2>2 DEF Restart
    <3>2. \A p \in Pid : Ended(worker[p]).state = "dead" BY <1>0 DEF WorkerRec, Ended
    <3> QED BY <1>4, <3>1, <3>2
  <2>3. ~Resignal(t) /\ ~ReconnectTimeout(t) /\ ~ \E m \in Monitor : Reconnected(t, m)
    BY DEF OneAtWork, Between, Resignal, ReconnectTimeout, Reconnected
  <2>4. CASE StartReturns(t) BY <1>4, <2>4 DEF StartReturns, osVars
  <2> QED BY <1>7, <2>1, <2>2, <2>3, <2>4 DEF StartStep
<1>8. ASSUME \/ \E m \in Monitor : MonitorStep(m)
             \/ \E c \in Conn : HandlerStep(c)
             \/ Start \/ UNCHANGED vars
      PROVE  worker' = worker
  BY <1>8 DEF MonitorStep, MonitorNotices, MonitorQuits, HandlerStep, Accept, HandshakeOk,
              HandshakeMismatch, HandshakeFails, HandlerEnds, Start, osVars, vars
<1>9. \A p \in Pid : worker'[p].state # "stopping"
  BY <1>1, <1>4, <1>6, <1>7, <1>8 DEF Next
<1> QED BY <1>5, <1>9

\* Steps in which no worker dies, no monitor wakes, and no task begins to look
\* for the next worker.
LEMMA Settled ==
  ASSUME OneMonitor, phase = "started", UNCHANGED <<crashes, proc, monitorTask>>,
         proc # None /\ Live(proc) => Live(proc)',
         \A m \in Monitor : pc'[m] # "none" => pc[m] # "none",
         \A t \in Task : pc'[t] \in Between => pc[t] \in Between,
         pc'[Lifespan] \in {"backoff", "bound"} => pc[Lifespan] = pc'[Lifespan]
  PROVE  OneMonitor'
BY TaskDisjoint DEF OneMonitor, Live

LEMMA OneMonitorStep ==
  ASSUME TypeOK, OsInv, OneAtWork, Calm, OneMonitor, [Next]_vars, ~MainExit, MaxCrashes <= 1
  PROVE  OneMonitor'
<1> SUFFICES ASSUME phase' = "started" PROVE OneMonitor' BY DEF OneMonitor
<1>0. /\ pc \in [Task -> PC] /\ crashes \in Nat /\ crashes <= 1
      /\ Monitor \subseteq Task /\ Lifespan \in Task \ (Conn \cup Monitor) /\ Conn \cap Monitor = {}
  BY TaskDisjoint, ConstantsAssumption DEF TypeOK
<1>1. ~Stop /\ ~Detach BY DEF Stop, Detach
<1>2. CASE Start
  <2>1. /\ phase = "fresh" /\ proc' = proc /\ crashes' = crashes
        /\ \E s \in PC : pc' = [pc EXCEPT ![Lifespan] = s] /\ s # "backoff"
    BY <1>2 DEF Start, BeginStart, fieldVars, PC, InStart
  <2>2. proc = None /\ \A t \in Task : pc[t] = "none" BY <2>1 DEF OneAtWork
  <2>3. \A m \in Monitor : pc'[m] = "none" BY <1>0, <2>1, <2>2
  <2> QED BY <1>0, <2>1, <2>2, <2>3 DEF OneMonitor, Between
<1>3. CASE ~Start
  <2>1. phase = "started"
    BY <1>1, <1>3 DEF Next, WorkerStep, WorkerBoot, WorkerConnect, WorkerHandshake,
       WorkerRead, WorkerUsr1, WorkerTerm, WorkerExit, WorkerCrash, StartStep, Resignal,
       Reconnected, ReconnectTimeout, Spawn, StartReturns, Restart, MonitorStep,
       MonitorNotices, MonitorQuits, HandlerStep, Accept, HandshakeOk, HandshakeMismatch,
       HandshakeFails, HandlerEnds, envVars, vars
  <2>2. ASSUME NEW p \in Pid, WorkerStep(p) PROVE OneMonitor'
    <3>1. UNCHANGED <<crashes, proc, monitorTask>>
      BY <2>2 DEF WorkerStep, WorkerBoot, WorkerConnect, WorkerHandshake, WorkerRead,
                  WorkerUsr1, WorkerTerm, WorkerExit, fieldVars, envVars
    <3>2. \A t \in Task : pc'[t] = pc[t] \/ (t \in Conn /\ pc'[t] = "accepted")
      BY <1>0, <2>2, TaskDisjoint DEF WorkerStep, WorkerBoot, WorkerConnect, WorkerHandshake,
           WorkerRead, WorkerUsr1, WorkerTerm, WorkerExit
    <3>3. \A q \in Pid : Live(q) => worker'[q].state \in LiveStates
      <4>0. /\ worker \in [Pid -> WorkerRec] /\ worker[p] \in WorkerRec /\ WorkerOk(worker[p])
        BY DEF TypeOK, OsInv
      <4>1. ~WorkerExit(p) /\ ~WorkerTerm(p)
        BY <2>1, <4>0 DEF WorkerExit, WorkerTerm, WorkerOk, Calm
      <4> DEFINE S == {[worker[p] EXCEPT !.state = "running"], Dropped(worker[p]),
                       [worker[p] EXCEPT !.phase = "up"],
                       [Dropped(worker[p]) EXCEPT !.state = "stopping"],
                       [Dropped(worker[p]) EXCEPT !.usr1 = FALSE]}
      <4>2. \A w \in S : Live(p) => w.state \in LiveStates
        BY <4>0 DEF WorkerRec, Dropped, Live, LiveStates
      <4>3. CASE \E w \in S : worker' = [worker EXCEPT ![p] = w]
        <5> HIDE DEF S
        <5> QED BY <4>0, <4>2, <4>3 DEF Live
      <4>4. ASSUME NEW c \in Conn, WorkerConnect(p, c)
            PROVE  \A q \in Pid : Live(q) => worker'[q].state \in LiveStates
        <5> DEFINE w == [worker[p] EXCEPT !.phase = "hello", !.conn = c]
        <5>1. worker' = [worker EXCEPT ![p] = w] BY <4>4 DEF WorkerConnect
        <5>2. w.state = worker[p].state BY <4>0 DEF WorkerRec
        <5> HIDE DEF w
        <5> QED BY <4>0, <5>1, <5>2 DEF Live
      <4>5. ASSUME WorkerBoot(p) \/ WorkerHandshake(p) \/ WorkerRead(p) \/ WorkerUsr1(p)
            PROVE  \E w \in S : worker' = [worker EXCEPT ![p] = w]
        BY <4>5 DEF WorkerBoot, WorkerHandshake, WorkerRead, WorkerUsr1
      <4> HIDE DEF S
      <4> QED BY <2>2, <4>1, <4>3, <4>4, <4>5 DEF WorkerStep
    <3>4. proc # None /\ Live(proc) => Live(proc)'
      <4>1. proc # None => proc \in Pid BY DEF TypeOK
      <4> QED BY <3>1, <3>3, <4>1 DEF Live
    <3> QED BY <1>0, <2>1, <3>1, <3>2, <3>4, Settled DEF Between
  <2>3. ASSUME NEW p \in Pid, WorkerCrash(p) PROVE OneMonitor'
    <3>1. crashes = 0 /\ crashes' = 1 /\ UNCHANGED <<pc, monitorTask>>
      BY <1>0, <2>3, ConstantsAssumption DEF WorkerCrash, fieldVars
    <3> QED BY <2>1, <3>1 DEF OneMonitor
  <2>4. ASSUME NEW t \in Task, NEW p \in Pid, NEW m \in Monitor, Spawn(t, p, m) PROVE OneMonitor'
    <3>1. /\ pc[t] = "bound" /\ proc' = p /\ crashes' = crashes /\ monitorTask' = m
          /\ pc' = [pc EXCEPT ![m] = "sleep", ![t] = "connecting"]
          /\ worker' = [worker EXCEPT ![p] = [NoWorker EXCEPT !.state = "booting",
                                                !.child = TRUE, !.ver = version]]
      BY <2>4 DEF Spawn, envVars
    <3>2. Live(p)' /\ p # None
      <4>1. worker'[p].state = "booting" BY <3>1 DEF TypeOK, NoWorker
      <4> QED BY <4>1, TaskDisjoint DEF Live, LiveStates
    <3>3. t \notin Conn /\ \A u \in Task : pc[u] \in Between => u = t
      BY <3>1 DEF OneAtWork, Between
    <3>4. \A u \in Task : pc'[u] \notin Between BY <1>0, <3>1, <3>3 DEF Between
    <3>5. CASE t = Lifespan
      <4>1. \A n \in Monitor : pc[n] = "none" BY <2>1, <3>1, <3>5 DEF OneMonitor
      <4>2. \A n \in Monitor : pc'[n] # "none" => n = m BY <1>0, <3>1, <3>5, <4>1
      <4> QED BY <1>0, <3>1, <3>2, <3>4, <4>2 DEF OneMonitor, Between, Live
    <3>6. CASE t \in Monitor
      <4>1. crashes = 1 BY <1>0, <2>1, <3>1, <3>6 DEF OneMonitor, Between
      <4> QED BY <1>0, <3>1, <3>2, <3>4, <4>1 DEF OneMonitor, Between, Live
    <3> QED BY <3>3, <3>5, <3>6 DEF Task
  <2>5. ASSUME NEW t \in Task, StartReturns(t) PROVE OneMonitor'
    <3>1. UNCHANGED <<worker, crashes, proc, monitorTask>>
      BY <2>5 DEF StartReturns, osVars, fieldVars, envVars
    <3>2. pc[t] = "connecting" /\ \E s \in {"none", "sleep"} : pc' = [pc EXCEPT ![t] = s]
      BY <2>5 DEF StartReturns, Resume
    <3> QED BY <1>0, <2>1, <3>1, <3>2, Settled DEF Between, Live
  <2>6. ASSUME NEW t \in Task, Restart(t) PROVE OneMonitor'
    <3>1. pc[t] = "backoff" /\ proc = None /\ UNCHANGED <<crashes, monitorTask>>
      BY <2>6 DEF Restart, OneAtWork, Between, envVars
    <3>2. proc' = None BY <2>6, <3>1 DEF Restart
    <3>3. \E s \in PC : pc' = [pc EXCEPT ![t] = s]
      BY <2>6 DEF Restart, BeginStart, PC, InStart
    <3>4. t # Lifespan BY <2>1, <3>1 DEF OneMonitor
    <3> QED BY <1>0, <2>1, <3>1, <3>2, <3>3, <3>4, Settled DEF Between
  <2>7. ASSUME NEW m \in Monitor, MonitorStep(m) PROVE OneMonitor'
    <3>1. pc[m] = "sleep" /\ UNCHANGED <<worker, crashes, monitorTask>>
      BY <2>7 DEF MonitorStep, MonitorNotices, MonitorQuits, osVars, fieldVars, envVars
    <3>2. CASE MonitorQuits(m)
      <4>1. proc' = proc /\ pc' = [pc EXCEPT ![m] = "none"] BY <3>2 DEF MonitorQuits, fieldVars
      <4> QED BY <1>0, <2>1, <3>1, <4>1, Settled DEF Between, Live
    <3>3. CASE MonitorNotices(m)
      <4>1. proc # None /\ ~Live(proc) /\ proc' = None /\ pc' = [pc EXCEPT ![m] = "backoff"]
        BY <3>3 DEF MonitorNotices
      <4>2. crashes = 1 /\ (\A n \in Monitor : pc[n] # "none" => n = monitorTask)
        BY <1>0, <2>1, <4>1 DEF OneMonitor
      <4>3. \A n \in Monitor : pc'[n] # "none" => n = monitorTask BY <1>0, <3>1, <4>1, <4>2
      <4>4. pc'[Lifespan] = pc[Lifespan] BY <1>0, <4>1
      <4>5. pc[Lifespan] # "bound" /\ pc[Lifespan] # "backoff" BY <2>1, <3>1 DEF OneMonitor
      <4> QED BY <3>1, <4>1, <4>2, <4>3, <4>4, <4>5 DEF OneMonitor
    <3> QED BY <2>7, <3>2, <3>3 DEF MonitorStep
  <2>8. ASSUME NEW c \in Conn, HandlerStep(c) PROVE OneMonitor'
    <3>1. UNCHANGED <<worker, crashes, proc, monitorTask>>
      BY <2>8 DEF HandlerStep, Accept, HandshakeOk, HandshakeMismatch, HandshakeFails,
                  HandlerEnds, osVars, fieldVars, envVars
    <3>2. \A t \in Task : pc'[t] = pc[t] \/ (t \in Conn /\ pc'[t] \notin Between)
      <4>1. ~HandshakeMismatch(c) BY DEF HandshakeMismatch, OsInv
      <4> QED BY <1>0, <2>8, <4>1, TaskDisjoint
              DEF HandlerStep, Accept, HandshakeOk, HandshakeFails, HandlerEnds, Between
    <3> QED BY <1>0, <2>1, <3>1, <3>2, Settled DEF Between, Live
  <2>9. CASE UNCHANGED vars
    <3>1. UNCHANGED <<worker, pc, crashes, proc, monitorTask>>
      BY <2>9 DEF vars, osVars, fieldVars, envVars
    <3> QED BY <2>1, <3>1, Settled DEF Between, Live
  <2>10. ASSUME NEW t \in Task
         PROVE  ~Resignal(t) /\ ~ReconnectTimeout(t) /\ ~ \E m \in Monitor : Reconnected(t, m)
    BY DEF OneAtWork, Between, Resignal, ReconnectTimeout, Reconnected
  <2> QED
    BY <1>1, <1>3, <2>2, <2>3, <2>4, <2>5, <2>6, <2>7, <2>8, <2>9, <2>10 DEF Next, StartStep
<1> QED BY <1>2, <1>3

LEMMA StoppedStep ==
  ASSUME TypeOK, OneAtWork, OneMonitor, Stopped, [Next]_vars, ~MainExit, StartsAwaited
  PROVE  Stopped'
<1> SUFFICES ASSUME phase' = "stopped" PROVE Stopped' BY DEF Stopped
<1>0. pc \in [Task -> PC] BY DEF TypeOK
<1>1. CASE Stop
  <2>1. phase = "started" /\ pc[Lifespan] = "none" BY <1>1 DEF Stop, MayClose
  <2>2. stopping' /\ proc' = None BY <1>1 DEF Stop
  <2>3. ASSUME NEW t \in Task, pc'[t] = "bound" PROVE FALSE
    <3>1. t # monitorTask /\ pc[t] = "bound" BY <1>1, <2>3 DEF Stop, CancelMonitor
    <3>2. t \notin Conn /\ proc = None BY <3>1 DEF OneAtWork, Between
    <3>3. t \in Monitor BY <2>1, <3>1, <3>2 DEF Task
    <3> QED BY <2>1, <3>1, <3>2, <3>3 DEF OneMonitor
  <2> QED BY <2>2, <2>3 DEF Stopped
<1>2. CASE ~Stop
  <2>1. phase = "stopped" /\ ~Start /\ ~Detach
    BY <1>2 DEF Next, WorkerStep, WorkerBoot, WorkerConnect, WorkerHandshake,
       WorkerRead, WorkerUsr1, WorkerTerm, WorkerExit, WorkerCrash, StartStep, Resignal,
       Reconnected, ReconnectTimeout, Spawn, StartReturns, Restart, MonitorStep,
       MonitorNotices, MonitorQuits, HandlerStep, Accept, HandshakeOk, HandshakeMismatch,
       HandshakeFails, HandlerEnds, Start, Detach, envVars, vars
  <2>2. stopping /\ proc = None /\ \A t \in Task : pc[t] # "bound" BY <2>1 DEF Stopped
  <2>3. ASSUME NEW p \in Pid, WorkerStep(p) \/ WorkerCrash(p) PROVE Stopped'
    <3>1. /\ UNCHANGED <<stopping, proc>>
          /\ \A t \in Task : pc'[t] = pc[t] \/ pc'[t] = "accepted"
      BY <1>0, <2>3, TaskDisjoint DEF WorkerStep, WorkerBoot, WorkerConnect, WorkerHandshake,
           WorkerRead, WorkerUsr1, WorkerTerm, WorkerExit, WorkerCrash, fieldVars
    <3> QED BY <2>2, <3>1 DEF Stopped
  <2>4. ASSUME NEW t \in Task, StartStep(t) PROVE Stopped'
    <3>1. StartReturns(t) \/ Restart(t)
      BY <2>2, <2>4 DEF StartStep, Spawn, OneAtWork, Between, Resignal, ReconnectTimeout, Reconnected
    <3>2. /\ UNCHANGED <<stopping, proc>>
          /\ \E s \in {"none", "sleep"} : pc' = [pc EXCEPT ![t] = s]
      BY <2>2, <3>1 DEF StartReturns, Restart, Resume, fieldVars
    <3> QED BY <1>0, <2>2, <3>2 DEF Stopped
  <2>5. ASSUME NEW m \in Monitor, MonitorStep(m) PROVE Stopped'
    <3>1. MonitorQuits(m) BY <2>2, <2>5 DEF MonitorStep, MonitorNotices
    <3> QED BY <1>0, <2>2, <3>1 DEF MonitorQuits, fieldVars, Stopped
  <2>6. ASSUME NEW c \in Conn, HandlerStep(c) PROVE Stopped'
    <3>1. /\ UNCHANGED <<stopping, proc>>
          /\ \A t \in Task : pc'[t] = pc[t] \/ pc'[t] # "bound"
      BY <1>0, <2>6, TaskDisjoint DEF HandlerStep, Accept, HandshakeOk, HandshakeMismatch,
           HandshakeFails, HandlerEnds, fieldVars
    <3> QED BY <2>2, <3>1 DEF Stopped
  <2>7. CASE UNCHANGED vars BY <2>2, <2>7 DEF vars, fieldVars, Stopped
  <2> QED BY <1>2, <2>1, <2>3, <2>4, <2>5, <2>6, <2>7 DEF Next
<1> QED BY <1>1, <1>2

LEMMA StopStep ==
  StartsAwaited /\ MaxCrashes <= 1 /\ TypeOK /\ LoneInv /\ StopInv /\ [Next]_vars => StopInv'
<1> SUFFICES ASSUME StartsAwaited, MaxCrashes <= 1, TypeOK, LoneInv, StopInv, [Next]_vars, exits' = 0
             PROVE  Calm' /\ OneMonitor' /\ Stopped'
  BY DEF StopInv
<1>1. exits = 0 /\ ~MainExit BY UntilReload
<1>2. OsInv /\ OneAtWork /\ Calm /\ OneMonitor /\ Stopped BY <1>1 DEF LoneInv, StopInv
<1> QED BY <1>1, <1>2, CalmStep, OneMonitorStep, StoppedStep

LEMMA InitStop == Init => StopInv
<1> SUFFICES ASSUME Init PROVE Calm /\ OneMonitor /\ Stopped BY DEF StopInv
<1>1. \A c \in Conn : Clean(conn[c].inbox) BY DEF Init, Clean
<1>2. \A p \in Pid : worker[p].state # "stopping" BY DEF Init, NoWorker
<1> QED BY <1>1, <1>2 DEF Init, Calm, OneMonitor, Stopped

\* A service that its owner has started and then stops is stopped for good, as
\* long as there was no reload and one crash at the most: whatever was under
\* way, no monitor or restart brings the worker back (stop, _restart).
THEOREM StopIsFinalAfterOneCrash ==
  StartsAwaited /\ MaxCrashes <= 1 /\ Spec => []StopIsFinalBeforeReload
<1> SUFFICES ASSUME StartsAwaited, MaxCrashes <= 1 PROVE Spec => []StopIsFinalBeforeReload OBVIOUS
<1>1. LoneInv /\ StopInv => StopIsFinalBeforeReload
  <2> SUFFICES ASSUME LoneInv, StopInv, exits = 0, phase = "stopped", NEW p \in Pid
               PROVE  ~Wanted(p)
    BY DEF StopIsFinalBeforeReload, StopIsFinal
  <2>1. OneAtWork /\ proc = None BY DEF LoneInv, StopInv, Stopped
  <2>2. ~Live(p) BY <2>1, TaskDisjoint DEF OneAtWork
  <2> QED BY <2>2 DEF Wanted, Live, LiveStates
<1>2. TypeOK /\ LoneInv /\ StopInv /\ [Next]_vars => StopInv' BY StopStep
<1> QED BY <1>1, <1>2, InitStop, TypeCorrect, AlwaysLone, PTL DEF Spec

=============================================================================
