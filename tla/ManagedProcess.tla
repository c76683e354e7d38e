--------------------------- MODULE ManagedProcess ---------------------------
(***************************************************************************)
(* One ManagedProcess of hort/lifecycle/manager.py, the worker processes   *)
(* it spawns (hort/lifecycle/worker.py), the PID file and the Unix socket  *)
(* through which successive main processes find and reach them.            *)
(*                                                                         *)
(* The main process runs on one asyncio loop: an action is the code        *)
(* between two awaits of one coroutine.  Coroutines ("tasks") are the      *)
(* caller of start() (Lifespan), the health monitors, and one handler per  *)
(* accepted connection; several of them may be inside start() at once.     *)
(* Delays are abstracted: a timeout may fire at any moment it is armed.    *)
(***************************************************************************)
EXTENDS Naturals, Sequences, FiniteSets

CONSTANTS
  Pid,            \* worker processes the OS can create (none is reused)
  Conn,           \* IPC connections (a free one is reused)
  Monitor,        \* health-monitor tasks (a finished one is reused; when none is
                  \* left a new monitor is merged with an old one that sleeps)
  Lifespan,       \* the task that calls start()
  Version,        \* protocol versions the code may have after a reload
  None, Field, Leaked,
  MaxExits,       \* bound: exits of a main process
  MaxCrashes,     \* bound: crashes of a worker
  StartsAwaited,  \* TRUE: start() is awaited before stop()/detach() (Telegram);
                  \* FALSE: it runs as a background task (camera, llming groups)
  Prompt          \* TRUE: nobody is slower than the pauses the code allots: a
                  \* handler notices its connection's end within the 2 seconds
                  \* of a retry or backoff, a worker reconnects within 5; FALSE:
                  \* they may be (Telegram awaits an AI answer in on_message)

ASSUME ConstantsAssumption ==
  /\ None \notin Pid \cup Conn \cup Monitor \cup {Lifespan, Field, Leaked}
  /\ Conn \cap Monitor = {}
  /\ Lifespan \notin Conn \cup Monitor
  /\ {Field, Leaked} \cap (Conn \cup Monitor \cup {Lifespan}) = {}
  /\ Field # Leaked
  /\ MaxExits \in Nat /\ MaxCrashes \in Nat
  /\ StartsAwaited \in BOOLEAN /\ Prompt \in BOOLEAN

Task == Conn \cup Monitor \cup {Lifespan}

VARIABLES
  worker,      \* [Pid -> the worker's process state, connection and pending signals]
  conn,        \* [Conn -> main's end, lines main wrote to the worker, version in the hello]
  pidFile,     \* the PID in {name}.pid, or None
  path,        \* who owns the listening server the socket path leads to:
               \* Field (self._ipc_server), a task that has just bound it, Leaked, None
  proc,        \* self._proc
  writer,      \* self._ipc_writer
  connected,   \* self._connected
  stopping,    \* self._stopping
  monitorTask, \* self._monitor_task
  pc,          \* where each task of the main process is suspended
  rpid,        \* the local `pid` of _try_reconnect, per task
  phase,       \* what the owner of the object has called last
  version,     \* protocol_version of the running main's code
  exits, crashes

osVars    == <<worker, conn>>
fieldVars == <<proc, writer, connected, stopping, monitorTask>>
envVars   == <<phase, version, exits, crashes>>
vars      == <<osVars, pidFile, path, fieldVars, pc, rpid, envVars>>

LiveStates == {"booting", "running", "stopping"}
Lines      == {"ack", "shutdown", "detach"}

(***************************************************************************)
(* Suspension points.  "sleep" and "backoff" are the monitor's and         *)
(* _restart's sleeps; "accepted", "hello", "reading" the handler's; the    *)
(* other four are inside start(): binding and waiting for the old worker   *)
(* (_try_reconnect), then binding and waiting for a new one.               *)
(***************************************************************************)
InStart == {"rebound", "reconnecting", "bound", "connecting"}
PC == {"none", "sleep", "backoff", "accepted", "hello", "reading"} \cup InStart

NoWorker == [state |-> "unused", phase |-> "idle", conn |-> None,
             usr1 |-> FALSE, term |-> FALSE, child |-> FALSE, ver |-> None]

Ended(w) == [w EXCEPT !.state = "dead", !.phase = "idle", !.conn = None,
                      !.usr1 = FALSE, !.term = FALSE]

Dropped(w) == [w EXCEPT !.phase = "idle", !.conn = None]

Live(p) == worker[p].state \in LiveStates

\* kill(pid, SIGUSR1): fatal until the worker has installed its handler
Usr1(w) == CASE w.state = "booting"               -> Ended(w)
             [] w.state \in {"running", "stopping"} -> [w EXCEPT !.usr1 = TRUE]
             [] OTHER                             -> w

\* kill(pid, SIGTERM), likewise
Term(w) == CASE w.state = "booting"               -> Ended(w)
             [] w.state \in {"running", "stopping"} -> [w EXCEPT !.term = TRUE]
             [] OTHER                             -> w

\* the worker's end of connection c is open
Peer(c) == \E p \in Pid : worker[p].conn = c

Free(c) == pc[c] = "none" /\ writer # c /\ ~Peer(c)

\* Two seconds pass; a prompt handler has seen its connection end by then.
Pause == Prompt =>
           \A c \in Conn : pc[c] \in {"accepted", "hello", "reading"}
                           => conn[c].open /\ Peer(c)

\* create_task(_monitor_loop()).  A monitor replaced in _monitor_task is not
\* cancelled and goes on watching.
NewMonitor(m) ==
  /\ m # monitorTask
  /\ pc[m] = "sleep" => \A n \in Monitor : pc[n] # "none" \/ n = monitorTask
  /\ pc[m] \in {"none", "sleep"}

Closed(k) == [k EXCEPT !.open = FALSE]

-----------------------------------------------------------------------------
(* The worker process: Worker._main, _connect, _read_loop, signal handlers *)

WorkerBoot(p) ==
  /\ worker[p].state = "booting"
  /\ worker' = [worker EXCEPT ![p].state = "running"]
  /\ UNCHANGED <<conn, pidFile, path, fieldVars, pc, rpid, envVars>>

\* open_unix_connection succeeds and the hello is written.  The retry in
\* _main tests _running only before its last sleep, so a worker that has been
\* told to stop may connect once more.
WorkerConnect(p, c) ==
  /\ worker[p].state \in {"running", "stopping"}
  /\ worker[p].phase = "idle"
  /\ path # None
  /\ Free(c)
  /\ Pause
  /\ worker' = [worker EXCEPT ![p].phase = "hello", ![p].conn = c]
  /\ conn' = [conn EXCEPT ![c] = [open |-> TRUE, inbox |-> <<>>, ver |-> worker[p].ver]]
  /\ pc' = [pc EXCEPT ![c] = "accepted"]
  /\ UNCHANGED <<pidFile, path, fieldVars, rpid, envVars>>

\* The first line main sends decides the handshake: anything but hello_ack
\* makes the worker hang up, a shutdown order included.
WorkerHandshake(p) ==
  /\ worker[p].phase = "hello"
  /\ LET c == worker[p].conn IN
       \/ /\ conn[c].inbox # <<>>
          /\ conn' = [conn EXCEPT ![c].inbox = Tail(@)]
          /\ worker' = [worker EXCEPT ![p] =
                          IF Head(conn[c].inbox) = "ack"
                          THEN [@ EXCEPT !.phase = "up"] ELSE Dropped(@)]
       \/ /\ conn[c].inbox = <<>>
          /\ ~conn[c].open
          /\ worker' = [worker EXCEPT ![p] = Dropped(@)]
          /\ UNCHANGED conn
  /\ UNCHANGED <<pidFile, path, fieldVars, pc, rpid, envVars>>

\* _read_loop: a shutdown ends the worker, a detach or EOF ends the loop;
\* its finally clause closes the worker's end.
WorkerRead(p) ==
  /\ worker[p].phase = "up"
  /\ LET c == worker[p].conn IN
       \/ /\ conn[c].inbox # <<>>
          /\ conn' = [conn EXCEPT ![c].inbox = Tail(@)]
          /\ worker' = [worker EXCEPT ![p] =
                          IF Head(conn[c].inbox) = "shutdown"
                          THEN [Dropped(@) EXCEPT !.state = "stopping"] ELSE Dropped(@)]
       \/ /\ conn[c].inbox = <<>>
          /\ ~conn[c].open
          /\ worker' = [worker EXCEPT ![p] = Dropped(@)]
          /\ UNCHANGED conn
  /\ UNCHANGED <<pidFile, path, fieldVars, pc, rpid, envVars>>

\* _handle_reconnect_signal closes the connection; _main will connect again
WorkerUsr1(p) ==
  /\ worker[p].usr1
  /\ worker' = [worker EXCEPT ![p] = [Dropped(@) EXCEPT !.usr1 = FALSE]]
  /\ UNCHANGED <<conn, pidFile, path, fieldVars, pc, rpid, envVars>>

\* _handle_shutdown_signal clears _running
WorkerTerm(p) ==
  /\ worker[p].term
  /\ worker' = [worker EXCEPT ![p].term = FALSE, ![p].state = "stopping"]
  /\ UNCHANGED <<conn, pidFile, path, fieldVars, pc, rpid, envVars>>

WorkerExit(p) ==
  /\ worker[p].state = "stopping"
  /\ worker' = [worker EXCEPT ![p] = Ended(@)]
  /\ UNCHANGED <<conn, pidFile, path, fieldVars, pc, rpid, envVars>>

WorkerCrash(p) ==
  /\ crashes < MaxCrashes
  /\ Live(p)
  /\ crashes' = crashes + 1
  /\ worker' = [worker EXCEPT ![p] = Ended(@)]
  /\ UNCHANGED <<conn, pidFile, path, fieldVars, pc, rpid, phase, version, exits>>

-----------------------------------------------------------------------------
(* start() and _try_reconnect()                                            *)

\* Mutant: the worker that the PID file names is ignored.
BeginStart_IgnoresPidFile(t, w) ==
  /\ path' = t
  /\ pc' = [pc EXCEPT ![t] = "bound"]
  /\ pidFile' = None
  /\ UNCHANGED rpid

\* The code of start() up to its first await, given the workers `w` as the
\* caller leaves them: the PID file decides between reconnecting and spawning;
\* either way the socket path is unlinked and bound anew.
BeginStart(t, w) ==
  /\ path' = t
  /\ IF pidFile # None /\ w[pidFile].state \in LiveStates
     THEN /\ pc' = [pc EXCEPT ![t] = "rebound"]
          /\ rpid' = [rpid EXCEPT ![t] = pidFile]
          /\ UNCHANGED pidFile
     ELSE /\ pc' = [pc EXCEPT ![t] = "bound"]
          /\ pidFile' = None
          /\ UNCHANGED rpid

\* self._ipc_server = <the server t has bound>
Adopt(t) == CASE path = t     -> Field
              [] path = Field -> Leaked
              [] OTHER        -> path

\* Mutant: a handler that has restarted the worker goes on with the handshake.
Resume_Handshake(t, stop) == IF t \in Monitor /\ ~stop THEN "sleep" ELSE "ack"

\* Where task t goes on once its start() has returned.
Resume(t, stop) == IF t \in Monitor /\ ~stop THEN "sleep" ELSE "none"

Start ==
  /\ phase = "fresh"
  /\ phase' = "started"
  /\ BeginStart(Lifespan, worker)
  /\ UNCHANGED <<osVars, fieldVars, version, exits, crashes>>

\* os.kill(pid, SIGUSR1).  It raises when the process is gone; a dead child
\* that has not been waited for can still be signalled.  The exception ends a
\* monitor, and in a handler the clause for failed handshakes catches it.
Resignal(t) ==
  /\ pc[t] = "rebound"
  /\ path' = Adopt(t)
  /\ \/ /\ ~Live(rpid[t])
        /\ pc' = [pc EXCEPT ![t] = "none"]
        /\ connected' = (connected /\ t \notin Conn)
        /\ UNCHANGED worker
     \/ /\ Live(rpid[t]) \/ worker[rpid[t]].child
        /\ pc' = [pc EXCEPT ![t] = "reconnecting"]
        /\ worker' = [worker EXCEPT ![rpid[t]] = Usr1(@)]
        /\ UNCHANGED connected
  /\ UNCHANGED <<conn, pidFile, proc, writer, stopping, monitorTask, rpid, envVars>>

\* The loop of _try_reconnect sees _connected: whatever connection set it.
Reconnected(t, m) ==
  /\ pc[t] = "reconnecting"
  /\ connected
  /\ NewMonitor(m)
  /\ stopping' = FALSE
  /\ monitorTask' = m
  /\ pc' = [pc EXCEPT ![m] = "sleep", ![t] = Resume(t, FALSE)]
  /\ UNCHANGED <<osVars, pidFile, path, proc, writer, connected, rpid, envVars>>

\* The loop runs out (its last sleep is not followed by a test of _connected):
\* SIGTERM, PID file and server go, and start() falls through to the spawn,
\* where _cleanup_orphan finds no PID file to act on.
ReconnectTimeout(t) ==
  /\ pc[t] = "reconnecting"
  /\ Prompt => ~Live(rpid[t]) \/ worker[rpid[t]].ver # version
  /\ worker' = [worker EXCEPT ![rpid[t]] = Term(@)]
  /\ pidFile' = None
  /\ path' = t
  /\ pc' = [pc EXCEPT ![t] = "bound"]
  /\ UNCHANGED <<conn, fieldVars, rpid, envVars>>

\* Mutant: the PID file is not written.
Spawn_NoPidFile(t, p, m) ==
  /\ pc[t] = "bound"
  /\ worker[p].state = "unused"
  /\ NewMonitor(m)
  /\ path' = Adopt(t)
  /\ worker' = [worker EXCEPT ![p] = [NoWorker EXCEPT !.state = "booting",
                                        !.child = TRUE, !.ver = version]]
  /\ proc' = p
  /\ stopping' = FALSE
  /\ monitorTask' = m
  /\ pc' = [pc EXCEPT ![m] = "sleep", ![t] = "connecting"]
  /\ UNCHANGED <<conn, pidFile, writer, connected, rpid, envVars>>

Spawn(t, p, m) ==
  /\ pc[t] = "bound"
  /\ worker[p].state = "unused"
  /\ NewMonitor(m)
  /\ path' = Adopt(t)
  /\ worker' = [worker EXCEPT ![p] = [NoWorker EXCEPT !.state = "booting",
                                        !.child = TRUE, !.ver = version]]
  /\ proc' = p
  /\ pidFile' = p
  /\ stopping' = FALSE
  /\ monitorTask' = m
  /\ pc' = [pc EXCEPT ![m] = "sleep", ![t] = "connecting"]
  /\ UNCHANGED <<conn, writer, connected, rpid, envVars>>

\* Connected, or 10 seconds are over.
StartReturns(t) ==
  /\ pc[t] = "connecting"
  /\ pc' = [pc EXCEPT ![t] = Resume(t, stopping)]
  /\ UNCHANGED <<osVars, pidFile, path, fieldVars, rpid, envVars>>

-----------------------------------------------------------------------------
(* _monitor_loop and _restart                                              *)

\* Mutant: the monitor restarts when the IPC connection is down, dead or not.
MonitorNotices_IpcDown(m) ==
  /\ pc[m] = "sleep"
  /\ ~stopping
  /\ proc # None
  /\ ~connected
  /\ proc' = None
  /\ pc' = [pc EXCEPT ![m] = "backoff"]
  /\ UNCHANGED <<osVars, pidFile, path, writer, connected, stopping, monitorTask, rpid, envVars>>

\* Mutant: the handle of the dead process is kept.
MonitorNotices_KeepsHandle(m) ==
  /\ pc[m] = "sleep"
  /\ ~stopping
  /\ proc # None
  /\ ~Live(proc)
  /\ connected' = FALSE
  /\ pc' = [pc EXCEPT ![m] = "backoff"]
  /\ UNCHANGED <<osVars, pidFile, path, proc, writer, stopping, monitorTask, rpid, envVars>>

\* Mutant: the crash is logged and the monitor ends.
MonitorNotices_NoRestart(m) ==
  /\ pc[m] = "sleep"
  /\ ~stopping
  /\ proc # None
  /\ ~Live(proc)
  /\ proc' = None
  /\ connected' = FALSE
  /\ pc' = [pc EXCEPT ![m] = "none"]
  /\ UNCHANGED <<osVars, pidFile, path, writer, stopping, monitorTask, rpid, envVars>>

MonitorNotices(m) ==
  /\ pc[m] = "sleep"
  /\ ~stopping
  /\ proc # None
  /\ ~Live(proc)
  /\ proc' = None
  /\ connected' = FALSE
  /\ pc' = [pc EXCEPT ![m] = "backoff"]
  /\ UNCHANGED <<osVars, pidFile, path, writer, stopping, monitorTask, rpid, envVars>>

MonitorQuits(m) ==
  /\ pc[m] = "sleep"
  /\ stopping
  /\ pc' = [pc EXCEPT ![m] = "none"]
  /\ UNCHANGED <<osVars, pidFile, path, fieldVars, rpid, envVars>>

\* _restart after its sleep, up to the first await of the start() it calls.
Restart(t) ==
  /\ pc[t] = "backoff"
  /\ Pause
  /\ \/ /\ stopping
        /\ pc' = [pc EXCEPT ![t] = "none"]
        /\ UNCHANGED <<worker, pidFile, path, proc, rpid>>
     \/ /\ ~stopping
        /\ worker' = [p \in Pid |-> IF p = proc THEN Ended(worker[p]) ELSE worker[p]]
        /\ proc' = None
        /\ BeginStart(t, worker')
  /\ UNCHANGED <<conn, writer, connected, stopping, monitorTask, envVars>>

-----------------------------------------------------------------------------
(* _handle_ipc_connection                                                  *)

Accept(c) ==
  /\ pc[c] = "accepted"
  /\ writer' = c
  /\ connected' = TRUE
  /\ pc' = [pc EXCEPT ![c] = "hello"]
  /\ UNCHANGED <<osVars, pidFile, path, proc, stopping, monitorTask, rpid, envVars>>

\* Mutant: the version in the hello is not compared.
HandshakeOk_AnyVersion(c) ==
  /\ pc[c] = "hello"
  /\ conn[c].open
  /\ conn' = [conn EXCEPT ![c].inbox = Append(@, "ack")]
  /\ pc' = [pc EXCEPT ![c] = "reading"]
  /\ UNCHANGED <<worker, pidFile, path, fieldVars, rpid, envVars>>

HandshakeOk(c) ==
  /\ pc[c] = "hello"
  /\ conn[c].ver = version
  /\ conn[c].open
  /\ conn' = [conn EXCEPT ![c].inbox = Append(@, "ack")]
  /\ pc' = [pc EXCEPT ![c] = "reading"]
  /\ UNCHANGED <<worker, pidFile, path, fieldVars, rpid, envVars>>

HandshakeMismatch(c) ==
  /\ pc[c] = "hello"
  /\ conn[c].ver # version
  /\ conn' = [conn EXCEPT ![c] = Closed(@)]
  /\ connected' = FALSE
  /\ pc' = [pc EXCEPT ![c] = "backoff"]
  /\ UNCHANGED <<worker, pidFile, path, proc, writer, stopping, monitorTask, rpid, envVars>>

\* Mutant: a failed handshake leaves _connected set.
HandshakeFails_StaysConnected(c) ==
  /\ pc[c] = "hello"
  /\ ~conn[c].open \/ ~Peer(c)
  /\ conn' = [conn EXCEPT ![c] = Closed(@)]
  /\ pc' = [pc EXCEPT ![c] = "none"]
  /\ UNCHANGED <<worker, pidFile, path, fieldVars, rpid, envVars>>

\* The peer or our own end is gone.  self._ipc_writer keeps the dead stream.
HandshakeFails(c) ==
  /\ pc[c] = "hello"
  /\ ~conn[c].open \/ ~Peer(c)
  /\ conn' = [conn EXCEPT ![c] = Closed(@)]
  /\ connected' = FALSE
  /\ pc' = [pc EXCEPT ![c] = "none"]
  /\ UNCHANGED <<worker, pidFile, path, proc, writer, stopping, monitorTask, rpid, envVars>>

\* The read loop ends at EOF, or at the next line once _connected is FALSE;
\* the finally clause resets the object's connection, whichever it is now.
HandlerEnds(c) ==
  /\ pc[c] = "reading"
  /\ ~conn[c].open \/ ~Peer(c) \/ ~connected
  /\ connected' = FALSE
  /\ writer' = None
  /\ pc' = [pc EXCEPT ![c] = "none"]
  /\ UNCHANGED <<osVars, pidFile, path, proc, stopping, monitorTask, rpid, envVars>>

-----------------------------------------------------------------------------
(* stop(), detach() and the end of the main process                        *)

MayClose == phase = "started" /\ (StartsAwaited => pc[Lifespan] = "none")

\* Write a last line to the current connection and close our end of it.
HangUp(line) ==
  conn' = [c \in Conn |->
             IF c # writer THEN conn[c]
             ELSE IF conn[c].open
                  THEN [Closed(conn[c]) EXCEPT !.inbox = Append(@, line)]
                  ELSE conn[c]]

CancelMonitor == pc' = [t \in Task |-> IF t = monitorTask THEN "none" ELSE pc[t]]

\* Mutant: stop() relies on the shutdown line alone.
Stop_NoKill ==
  /\ MayClose
  /\ phase' = "stopped"
  /\ stopping' = TRUE
  /\ CancelMonitor
  /\ HangUp("shutdown")
  /\ connected' = (connected /\ writer = None)
  /\ monitorTask' = None /\ writer' = None /\ proc' = None
  /\ path' = None
  /\ pidFile' = None
  /\ UNCHANGED <<worker, rpid, version, exits, crashes>>

\* proc.terminate(), wait(5), kill(), wait(2) without leaving the event loop:
\* a worker whose handle is held is dead afterwards.
Stop ==
  /\ MayClose
  /\ phase' = "stopped"
  /\ stopping' = TRUE
  /\ CancelMonitor
  /\ HangUp("shutdown")
  /\ worker' = [p \in Pid |-> IF p = proc THEN Ended(worker[p]) ELSE worker[p]]
  /\ connected' = (connected /\ writer = None)
  /\ monitorTask' = None /\ writer' = None /\ proc' = None
  /\ path' = None
  /\ pidFile' = None
  /\ UNCHANGED <<rpid, version, exits, crashes>>

Detach ==
  /\ MayClose
  /\ phase' = "detached"
  /\ CancelMonitor
  /\ HangUp("detach")
  /\ connected' = (connected /\ writer = None)
  /\ monitorTask' = None /\ writer' = None /\ proc' = None
  /\ path' = CASE path = Field                             -> None
               [] path = monitorTask /\ monitorTask # None -> Leaked
               [] OTHER                                    -> path
  /\ UNCHANGED <<worker, pidFile, stopping, rpid, version, exits, crashes>>

\* The main process exits or crashes, at any point; the next one may run
\* newer code.  Its sockets close, its tasks vanish, its children are adopted.
MainExit ==
  /\ exits < MaxExits
  /\ phase # "fresh"
  /\ exits' = exits + 1
  /\ phase' = "fresh"
  /\ version' \in Version
  /\ worker' = [p \in Pid |-> [worker[p] EXCEPT !.child = FALSE]]
  /\ conn' = [c \in Conn |-> Closed(conn[c])]
  /\ path' = None
  /\ proc' = None /\ writer' = None /\ connected' = FALSE
  /\ stopping' = FALSE /\ monitorTask' = None
  /\ pc' = [t \in Task |-> "none"]
  /\ rpid' = [t \in Task |-> None]
  /\ UNCHANGED <<pidFile, crashes>>

-----------------------------------------------------------------------------
Init ==
  /\ worker = [p \in Pid |-> NoWorker]
  /\ conn = [c \in Conn |-> [open |-> FALSE, inbox |-> <<>>, ver |-> None]]
  /\ pidFile = None /\ path = None
  /\ proc = None /\ writer = None /\ connected = FALSE
  /\ stopping = FALSE /\ monitorTask = None
  /\ pc = [t \in Task |-> "none"]
  /\ rpid = [t \in Task |-> None]
  /\ phase = "fresh" /\ version \in Version
  /\ exits = 0 /\ crashes = 0

WorkerStep(p) ==
  \/ WorkerBoot(p)
  \/ \E c \in Conn : WorkerConnect(p, c)
  \/ WorkerHandshake(p)
  \/ WorkerRead(p)
  \/ WorkerUsr1(p)
  \/ WorkerTerm(p)
  \/ WorkerExit(p)

StartStep(t) ==
  \/ Resignal(t)
  \/ \E m \in Monitor : Reconnected(t, m)
  \/ ReconnectTimeout(t)
  \/ \E p \in Pid, m \in Monitor : Spawn(t, p, m)
  \/ StartReturns(t)
  \/ Restart(t)

MonitorStep(m) == MonitorNotices(m) \/ MonitorQuits(m)

HandlerStep(c) ==
  \/ Accept(c)
  \/ HandshakeOk(c)
  \/ HandshakeMismatch(c)
  \/ HandshakeFails(c)
  \/ HandlerEnds(c)

Next ==
  \/ \E p \in Pid : WorkerStep(p) \/ WorkerCrash(p)
  \/ \E t \in Task : StartStep(t)
  \/ \E m \in Monitor : MonitorStep(m)
  \/ \E c \in Conn : HandlerStep(c)
  \/ Start
  \/ Stop
  \/ Detach
  \/ MainExit

Spec == Init /\ [][Next]_vars

\* The event loop runs every task that can go on, the OS every worker: no task
\* or worker hangs for ever.  Nobody is obliged to crash, stop, detach or exit.
FairSpec ==
  /\ Spec
  /\ WF_vars(Start)
  /\ \A p \in Pid : WF_vars(WorkerStep(p))
  /\ \A t \in Task : WF_vars(StartStep(t))
  /\ \A m \in Monitor : WF_vars(MonitorStep(m))
  /\ \A c \in Conn : WF_vars(HandlerStep(c))

-----------------------------------------------------------------------------
(* Invariants that hold whatever the interleaving                          *)

WorkerRec == [state : LiveStates \cup {"unused", "dead"},
              phase : {"idle", "hello", "up"}, conn : Conn \cup {None},
              usr1 : BOOLEAN, term : BOOLEAN, child : BOOLEAN,
              ver : Version \cup {None}]

ConnRec == [open : BOOLEAN, inbox : Seq(Lines), ver : Version \cup {None}]

\* Every variable has a value of its type; a worker in a handshake or in
\* service has a connection, and a task that waits for an old worker its PID.
TypeOK ==
  /\ worker \in [Pid -> WorkerRec]
  /\ conn \in [Conn -> ConnRec]
  /\ pidFile \in Pid \cup {None}
  /\ path \in Task \cup {Field, Leaked, None}
  /\ proc \in Pid \cup {None}
  /\ writer \in Conn \cup {None}
  /\ connected \in BOOLEAN
  /\ stopping \in BOOLEAN
  /\ monitorTask \in Monitor \cup {None}
  /\ pc \in [Task -> PC]
  /\ rpid \in [Task -> Pid \cup {None}]
  /\ \A p \in Pid : worker[p].phase # "idle" => worker[p].conn # None
  /\ \A t \in Task : pc[t] \in {"rebound", "reconnecting"} => rpid[t] # None
  /\ phase \in {"fresh", "started", "stopped", "detached"}
  /\ version \in Version
  /\ exits \in 0..MaxExits
  /\ crashes \in 0..MaxCrashes

\* While the object holds a process handle some monitor is awake to notice
\* its death: a crash of a worker this main spawned is never overlooked, even
\* when restarts have left older monitors and handlers inside start().
Supervised == proc # None => \E m \in Monitor : pc[m] = "sleep"

\* `connected` never lies about there being a current connection: the handler
\* of self._ipc_writer is running, though an older handler, a restart or
\* stop() may have changed either field in between.
ConnectedIsServed ==
  connected => /\ writer # None
               /\ pc[writer] \in {"hello", "reading"}

\* A worker that nobody has told to end: no signal, no shutdown on its way.
Wanted(p) ==
  /\ worker[p].state \in {"booting", "running"}
  /\ ~worker[p].term
  /\ ~ \E c \in Conn : /\ worker[p].conn = c
                      /\ \E i \in DOMAIN conn[c].inbox :
                           /\ conn[c].inbox[i] = "shutdown"
                           /\ worker[p].phase = "up" \/ conn[c].inbox[1] = "ack"

-----------------------------------------------------------------------------
(* Promises of docs/manual/internals/process-lifecycle.md                  *)

\* "No overlap, no duplicates": at most one worker process is alive.
NoOverlap == Cardinality({p \in Pid : Live(p)}) <= 1

\* At most one worker is left to run: any other has been told to end.
NoDuplicate == Cardinality({p \in Pid : Wanted(p)}) <= 1

\* A worker left to run can be found by the next main process, crash or not.
Recoverable == \A p \in Pid : Wanted(p) => pidFile = p

\* The same across hot reloads, as long as stop() has not been called.
RecoverableUntilStop == phase # "stopped" => Recoverable

\* With one main process: workers never overlap, and one that is left can be found.
LoneWorkerIsFound == NoOverlap /\ Recoverable

\* Across hot reloads: one worker is left to run, and until a stop it can be found.
WantedWorkerIsFound == NoDuplicate /\ RecoverableUntilStop

\* stop() "kills everything": once it has returned nothing is left to run.
StopIsFinal == phase = "stopped" => \A p \in Pid : ~Wanted(p)

\* The same for a main process that has spawned its worker itself.
StopIsFinalBeforeReload == exits = 0 => StopIsFinal

\* No worker of another protocol version is ever in service.
VersionsAgree ==
  \A p \in Pid : worker[p].conn # None /\ pc[worker[p].conn] = "reading"
                => worker[p].ver = version

\* A worker in service (handshake done on both ends) is only ever told to
\* end, or killed, by stop(): no restart of the object hits a healthy one.
InService(p) ==
  /\ Wanted(p)
  /\ worker[p].phase = "up"
  /\ pc[worker[p].conn] = "reading"
HealthyIsSpared ==
  [][\A p \in Pid : InService(p) /\ crashes' = crashes => Wanted(p)' \/ phase' = "stopped"]_vars

\* The one way out of supervision: the object has reconnected to a worker, so
\* it has no handle of it, and the worker has died; nobody is starting another.
Abandoned ==
  /\ exits > 0 /\ proc = None
  /\ \A p \in Pid : ~Live(p)
  /\ \A t \in Task : pc[t] \notin InStart \cup {"backoff"}

\* Unless a worker that was taken over dies, a started service that nobody stops
\* or detaches is in service again after every crash and every reload.
ServedOrAbandoned ==
  (phase = "started") ~> (phase # "started" \/ Abandoned \/ \E p \in Pid : InService(p))

\* "No manual intervention needed": as long as the object is started and not
\* stopped, a worker is in service again after every crash and every reload.
AlwaysServed ==
  (phase = "started") ~> (phase # "started" \/ \E p \in Pid : InService(p))

=============================================================================
