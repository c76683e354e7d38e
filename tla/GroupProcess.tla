---------------------------- MODULE GroupProcess ----------------------------
(***************************************************************************)
(* A group of llmings behind one GroupProcess (hort/lifecycle/             *)
(* llming_process.py): requests correlated by id over the IPC connection,  *)
(* their 30 s timeout, what a disconnection does to them, and the          *)
(* subprocess side (hort/lifecycle/runner.py on hort/lifecycle/worker.py). *)
(* _spawn_group of hort/plugins.py starts the group, activates its llmings *)
(* and registers the proxies through which everybody else calls.           *)
(*                                                                         *)
(* The supervision of the subprocess is ManagedProcess; here a dead one is *)
(* simply spawned anew.  An action is the code between two awaits of one   *)
(* coroutine of the main process or of the subprocess.                     *)
(***************************************************************************)
EXTENDS Naturals, Sequences

CONSTANTS
  Llming,      \* the llmings of the group; each names its activate message
  Call,        \* execute_power messages (a message id is used once)
  Conn,        \* IPC connections (a finished one is reused)
  None,
  MaxCrashes   \* bound: crashes of the subprocess

ASSUME GroupAssumption ==
  /\ Llming \cap Call = {}
  /\ None \notin Llming \cup Call \cup Conn
  /\ "ack" \notin Llming \cup Call
  /\ MaxCrashes \in Nat

Msg == Llming \cup Call

VARIABLES
  writer,    \* self._ipc_writer
  connected, \* self._connected
  hpc,       \* [Conn -> where its handler in the main process is]
  ready,     \* self._ready_event
  fut,       \* [Msg -> the future of the request]
  pending,   \* the keys of self._pending
  outcome,   \* [Msg -> what request() has returned or raised]
  sentOn,    \* [Msg -> the connection the request was written to]
  spawn,     \* where _spawn_group is
  down, up,  \* [Conn -> lines under way to the subprocess, to the main process]
  mopen, wopen, \* [Conn -> main's, the subprocess's end is open]
  wphase,    \* where the subprocess is
  wconn,     \* its connection
  wmsg,      \* the message its on_message works on
  active,    \* the llmings it has activated since it loaded them
  runs,      \* [Msg -> how often the subprocess has begun to work on it]
  crashes

mainVars   == <<writer, connected, hpc, ready>>
callVars   == <<fut, pending, outcome, sentOn>>
wireVars   == <<down, up, mopen, wopen>>
workerVars == <<wphase, wconn, wmsg, active, runs>>
vars       == <<mainVars, callVars, spawn, wireVars, workerVars, crashes>>

Answers == [kind : {"result", "error"}, id : Msg]
Ready   == [kind |-> "ready", id |-> None]

-----------------------------------------------------------------------------
(* The subprocess                                                          *)

\* The monitor of ManagedProcess replaces a dead subprocess.
Respawn ==
  /\ wphase = "dead"
  /\ spawn # "stopped"
  /\ wphase' = "idle"
  /\ active' = {}
  /\ UNCHANGED <<mainVars, callVars, spawn, wireVars, wconn, wmsg, runs, crashes>>

\* Before it connects again the subprocess has slept, or a new one has booted:
\* the handlers, which wait for nothing but the next line, have by then seen
\* the end of their connections.
Prompt == \A c \in Conn : hpc[c] \in {"accepted", "hello", "reading"} => wopen[c] /\ mopen[c]

Connect(c) ==
  /\ wphase = "idle"
  /\ spawn # "stopped"
  /\ Prompt
  /\ hpc[c] \in {"none", "failed"} /\ writer # c
  /\ wphase' = "hello" /\ wconn' = c
  /\ hpc' = [hpc EXCEPT ![c] = "accepted"]
  /\ down' = [down EXCEPT ![c] = <<>>] /\ up' = [up EXCEPT ![c] = <<>>]
  /\ mopen' = [mopen EXCEPT ![c] = TRUE] /\ wopen' = [wopen EXCEPT ![c] = TRUE]
  /\ UNCHANGED <<writer, connected, ready, callVars, spawn, wmsg, active, runs, crashes>>

\* Mutant: the connection is dropped, but not the state that goes with it.
WorkerHangsUp_KeepsPhase ==
  /\ wphase' = wphase /\ wconn' = None
  /\ wopen' = [wopen EXCEPT ![wconn] = FALSE]

\* The subprocess closes its end and will connect again.
WorkerHangsUp ==
  /\ wphase' = "idle" /\ wconn' = None
  /\ wopen' = [wopen EXCEPT ![wconn] = FALSE]

\* _connect takes the first line for the answer to its hello.
WorkerHandshake ==
  /\ wphase = "hello"
  /\ down[wconn] # <<>>
  /\ down' = [down EXCEPT ![wconn] = Tail(@)]
  /\ IF Head(down[wconn]) = "ack"
     THEN wphase' = "loading" /\ UNCHANGED <<wconn, wopen>>
     ELSE WorkerHangsUp
  /\ UNCHANGED <<mainVars, callVars, spawn, up, mopen, wmsg, active, runs, crashes>>

\* GroupRunner.on_connected: every llming is loaded anew, its powers and then
\* "ready" are sent; only then does _read_loop start.
Load ==
  /\ wphase = "loading"
  /\ wphase' = "up"
  /\ active' = {}
  /\ up' = [up EXCEPT ![wconn] = Append(@, Ready)]
  /\ UNCHANGED <<mainVars, callVars, spawn, down, mopen, wopen, wconn, wmsg, runs, crashes>>

\* _read_loop hands a message to on_message and awaits it.
Take ==
  /\ wphase = "up"
  /\ down[wconn] # <<>>
  /\ down' = [down EXCEPT ![wconn] = Tail(@)]
  /\ wphase' = "busy"
  /\ wmsg' = Head(down[wconn])
  /\ runs' = [runs EXCEPT ![wmsg'] = @ + 1]
  /\ UNCHANGED <<mainVars, callVars, spawn, up, mopen, wopen, wconn, active, crashes>>

\* on_message is done: it sends a result, or the error that was raised.
Reply(kind) ==
  /\ wphase = "busy"
  /\ wphase' = "up"
  /\ wmsg' = None
  /\ up' = [up EXCEPT ![wconn] = Append(@, [kind |-> kind, id |-> wmsg])]
  /\ active' = IF kind = "result" THEN active \cup ({wmsg} \cap Llming) ELSE active
  /\ UNCHANGED <<mainVars, callVars, spawn, down, mopen, wopen, wconn, runs, crashes>>

\* What the death of the subprocess leaves behind.
Dies ==
  /\ wphase' = "dead"
  /\ wconn' = None /\ wmsg' = None
  /\ active' = {}
  /\ wopen' = [c \in Conn |-> wopen[c] /\ c # wconn]

Crash ==
  /\ crashes < MaxCrashes
  /\ wphase # "dead"
  /\ crashes' = crashes + 1
  /\ Dies
  /\ UNCHANGED <<mainVars, callVars, spawn, down, up, mopen, runs>>

-----------------------------------------------------------------------------
(* The handler of a connection in the main process                         *)

Accept(c) ==
  /\ hpc[c] = "accepted"
  /\ hpc' = [hpc EXCEPT ![c] = "hello"]
  /\ writer' = c /\ connected' = TRUE
  /\ UNCHANGED <<ready, callVars, spawn, wireVars, workerVars, crashes>>

\* The hello has been read (the versions agree: there is one) and answered.
HandshakeOk(c) ==
  /\ hpc[c] = "hello"
  /\ mopen[c]
  /\ hpc' = [hpc EXCEPT ![c] = "reading"]
  /\ down' = [down EXCEPT ![c] = Append(@, "ack")]
  /\ UNCHANGED <<writer, connected, ready, callVars, spawn, up, mopen, wopen, workerVars, crashes>>

\* The peer has gone: on_disconnected is not called.
HandshakeFails(c) ==
  /\ hpc[c] = "hello"
  /\ ~wopen[c] \/ ~mopen[c]
  /\ hpc' = [hpc EXCEPT ![c] = "failed"]
  /\ mopen' = [mopen EXCEPT ![c] = FALSE]
  /\ connected' = FALSE
  /\ UNCHANGED <<writer, ready, callVars, spawn, down, up, wopen, workerVars, crashes>>

\* The futures after on_message has handled a line.
Settled(line) ==
  [m \in Msg |-> IF line.id = m /\ m \in pending /\ fut[m] = "pending"
                 THEN line.kind ELSE fut[m]]

\* Mutant: futures that are already settled are rejected as well.
End_NotDone(c, f) ==
  /\ fut' = [m \in Msg |-> IF m \in pending THEN "lost" ELSE f[m]]
  /\ pending' = {}
  /\ connected' = FALSE /\ writer' = None
  /\ hpc' = [hpc EXCEPT ![c] = "none"]

\* Mutant: the pending requests are forgotten, not rejected.
End_Forgets(c, f) ==
  /\ fut' = f
  /\ pending' = {}
  /\ connected' = FALSE /\ writer' = None
  /\ hpc' = [hpc EXCEPT ![c] = "none"]

\* The handler's finally clause, on_disconnected included: whatever is
\* pending is rejected, on whichever connection it was sent.
End(c, f) ==
  /\ fut' = [m \in Msg |-> IF m \in pending /\ f[m] = "pending" THEN "lost" ELSE f[m]]
  /\ pending' = {}
  /\ connected' = FALSE /\ writer' = None
  /\ hpc' = [hpc EXCEPT ![c] = "none"]

\* A line is read; the loop goes on unless _connected has meanwhile been reset.
Read(c) ==
  /\ hpc[c] = "reading"
  /\ up[c] # <<>>
  /\ up' = [up EXCEPT ![c] = Tail(@)]
  /\ ready' = (ready \/ Head(up[c]) = Ready)
  /\ IF connected
     THEN fut' = Settled(Head(up[c])) /\ UNCHANGED <<pending, connected, writer, hpc>>
     ELSE End(c, Settled(Head(up[c])))
  /\ UNCHANGED <<outcome, sentOn, spawn, down, mopen, wopen, workerVars, crashes>>

\* Mutant: an empty line does not end the loop.
HandlerEnds_IgnoresEof(c) ==
  /\ hpc[c] = "reading"
  /\ ~mopen[c]
  /\ End(c, fut)
  /\ UNCHANGED <<ready, outcome, sentOn, spawn, wireVars, workerVars, crashes>>

\* EOF or a reset (which may overtake lines not read yet).
HandlerEnds(c) ==
  /\ hpc[c] = "reading"
  /\ ~wopen[c] \/ ~mopen[c]
  /\ End(c, fut)
  /\ UNCHANGED <<ready, outcome, sentOn, spawn, wireVars, workerVars, crashes>>

-----------------------------------------------------------------------------
(* request(), called through a proxy or by activate_llming                 *)

\* Without a writer send() raises; so does drain() on a closed transport, and
\* it may when the peer has gone.
Request(m) ==
  /\ outcome[m] = "none"
  /\ \/ /\ writer # None /\ mopen[writer]
        /\ fut' = [fut EXCEPT ![m] = "pending"]
        /\ pending' = pending \cup {m}
        /\ outcome' = [outcome EXCEPT ![m] = "waiting"]
        /\ sentOn' = [sentOn EXCEPT ![m] = writer]
        /\ down' = [down EXCEPT ![writer] = Append(@, m)]
     \/ /\ writer # None => ~mopen[writer] \/ ~wopen[writer]
        /\ outcome' = [outcome EXCEPT ![m] = "refused"]
        /\ UNCHANGED <<fut, pending, sentOn, down>>
  /\ UNCHANGED <<mainVars, up, mopen, wopen, workerVars, crashes>>

\* Mutant: whatever has settled the future, the caller gets a value.
Return_AnyValue(m) ==
  /\ outcome[m] = "waiting"
  /\ fut[m] # "pending"
  /\ outcome' = [outcome EXCEPT ![m] = "result"]
  /\ pending' = pending \ {m}
  /\ UNCHANGED <<mainVars, fut, sentOn, spawn, wireVars, workerVars, crashes>>

\* The caller's task runs again and its finally clause pops the id.
Return(m) ==
  /\ outcome[m] = "waiting"
  /\ fut[m] # "pending"
  /\ outcome' = [outcome EXCEPT ![m] = fut[m]]
  /\ pending' = pending \ {m}
  /\ UNCHANGED <<mainVars, fut, sentOn, spawn, wireVars, workerVars, crashes>>

Timeout(m) ==
  /\ outcome[m] = "waiting"
  /\ fut[m] = "pending"
  /\ fut' = [fut EXCEPT ![m] = "cancelled"]
  /\ outcome' = [outcome EXCEPT ![m] = "timeout"]
  /\ pending' = pending \ {m}
  /\ UNCHANGED <<mainVars, sentOn, spawn, wireVars, workerVars, crashes>>

\* The proxies are in the registry once the group has been set up.
CallPower(m) ==
  /\ m \in Call
  /\ spawn = "registered"
  /\ Request(m)
  /\ UNCHANGED spawn

-----------------------------------------------------------------------------
(* _spawn_group, and stop()                                                *)

\* start() returns: connected, or after 10 s whether the subprocess runs.
StartReturns ==
  /\ spawn = "starting"
  /\ spawn' = IF connected \/ wphase # "dead" THEN "waiting" ELSE "failed"
  /\ UNCHANGED <<mainVars, callVars, wireVars, workerVars, crashes>>

\* wait_ready() returns; its timeout is only logged.
WaitReady ==
  /\ spawn = "waiting"
  /\ spawn' = "activating"
  /\ UNCHANGED <<mainVars, callVars, wireVars, workerVars, crashes>>

\* The llmings are activated one after the other: the next when the last one's
\* request has returned ({"error": "timeout"} is a return).
Activate(l) ==
  /\ spawn = "activating"
  /\ \A k \in Llming : outcome[k] \in {"none", "result", "timeout"}
  /\ Request(l)
  /\ UNCHANGED spawn

Registered ==
  /\ spawn = "activating"
  /\ \A k \in Llming : outcome[k] \in {"result", "timeout"}
  /\ spawn' = "registered"
  /\ UNCHANGED <<mainVars, callVars, wireVars, workerVars, crashes>>

\* An activation raised: the group is never registered.
SpawnFails ==
  /\ spawn = "activating"
  /\ \E k \in Llming : outcome[k] \in {"refused", "lost", "error"}
  /\ spawn' = "failed"
  /\ UNCHANGED <<mainVars, callVars, wireVars, workerVars, crashes>>

\* ManagedProcess.stop(): the subprocess is killed, the socket removed.
Stop ==
  /\ spawn \in {"registered", "failed"}
  /\ spawn' = "stopped"
  /\ mopen' = [c \in Conn |-> mopen[c] /\ c # writer]
  /\ connected' = (connected /\ writer = None)
  /\ writer' = None
  /\ Dies
  /\ UNCHANGED <<hpc, ready, callVars, down, up, runs, crashes>>

-----------------------------------------------------------------------------
\* A subprocess may have survived the previous main process.
Init ==
  /\ writer = None /\ connected = FALSE /\ ready = FALSE
  /\ hpc = [c \in Conn |-> "none"]
  /\ fut = [m \in Msg |-> "none"] /\ pending = {}
  /\ outcome = [m \in Msg |-> "none"] /\ sentOn = [m \in Msg |-> None]
  /\ spawn = "starting"
  /\ down = [c \in Conn |-> <<>>] /\ up = [c \in Conn |-> <<>>]
  /\ mopen = [c \in Conn |-> FALSE] /\ wopen = [c \in Conn |-> FALSE]
  /\ wphase \in {"idle", "dead"} /\ wconn = None /\ wmsg = None
  /\ active = {} /\ runs = [m \in Msg |-> 0]
  /\ crashes = 0

WorkerStep ==
  \/ Respawn
  \/ \E c \in Conn : Connect(c)
  \/ WorkerHandshake
  \/ Load
  \/ Take
  \/ \E kind \in {"result", "error"} : Reply(kind)

HandlerStep(c) ==
  Accept(c) \/ HandshakeOk(c) \/ HandshakeFails(c) \/ Read(c) \/ HandlerEnds(c)

SpawnStep ==
  \/ StartReturns
  \/ WaitReady
  \/ \E l \in Llming : Activate(l)
  \/ Registered
  \/ SpawnFails

CallerStep(m) == Return(m) \/ Timeout(m)

Next ==
  \/ WorkerStep
  \/ Crash
  \/ \E c \in Conn : HandlerStep(c)
  \/ \E m \in Msg : CallPower(m) \/ CallerStep(m)
  \/ SpawnStep
  \/ Stop

Spec == Init /\ [][Next]_vars

\* Both event loops run every task that can go on; nobody has to call a power,
\* crash or stop.
FairSpec ==
  /\ Spec
  /\ WF_vars(WorkerStep)
  /\ \A c \in Conn : WF_vars(HandlerStep(c))
  /\ \A m \in Msg : WF_vars(CallerStep(m))
  /\ WF_vars(SpawnStep)

-----------------------------------------------------------------------------
Futures  == {"none", "pending", "result", "error", "lost", "cancelled"}
Outcomes == {"none", "waiting", "result", "error", "lost", "timeout", "refused"}

\* Every variable has a value of its type, and the subprocess a connection
\* whenever it is past the opening of one.
TypeOK ==
  /\ writer \in Conn \cup {None}
  /\ connected \in BOOLEAN /\ ready \in BOOLEAN
  /\ hpc \in [Conn -> {"none", "accepted", "hello", "reading", "failed"}]
  /\ fut \in [Msg -> Futures]
  /\ pending \subseteq Msg
  /\ outcome \in [Msg -> Outcomes]
  /\ sentOn \in [Msg -> Conn \cup {None}]
  /\ spawn \in {"starting", "waiting", "activating", "registered", "failed", "stopped"}
  /\ down \in [Conn -> Seq(Msg \cup {"ack"})]
  /\ up \in [Conn -> Seq(Answers \cup {Ready})]
  /\ mopen \in [Conn -> BOOLEAN] /\ wopen \in [Conn -> BOOLEAN]
  /\ wphase \in {"dead", "idle", "hello", "loading", "up", "busy"}
  /\ wconn \in Conn \cup {None}
  /\ wmsg \in Msg \cup {None}
  /\ wphase \notin {"dead", "idle"} => wconn # None
  /\ wphase = "busy" => wmsg # None
  /\ active \subseteq Llming
  /\ runs \in [Msg -> Nat]
  /\ crashes \in 0..MaxCrashes

\* Nobody waits on a connection that has come and gone: when the handler of
\* the connection a request went out on has ended, the request is settled,
\* answered or not.  (The handler of a failed handshake does not end that way:
\* requests written during it are left to their timeout.)
DisconnectReleasesCallers ==
  \A m \in Msg : fut[m] = "pending" => hpc[sentOn[m]] # "none"

\* A future is settled once: an answer that races a disconnection or a timeout
\* never changes, and never raises on, what the caller is about to be told.
SettledOnce ==
  [][\A m \in Msg : fut[m] \notin {"none", "pending"} => fut'[m] = fut[m]]_vars

\* Whoever waits when the connection ends is released, and told one thing.
CallersReleasedOnce == []DisconnectReleasesCallers /\ SettledOnce

\* request() implements at-most-once calls whose answers are honest.
Status(m) == CASE outcome[m] = "none"                -> "idle"
               [] outcome[m] = "waiting"             -> "waiting"
               [] outcome[m] \in {"result", "error"} -> "answered"
               [] OTHER                              -> "failed"

Abstract == INSTANCE AtMostOnceCalls WITH status <- [m \in Msg |-> Status(m)]

AtMostOnce == Abstract!Calls

\* A registered group that nobody stops is served again after every crash,
\* calls that come in while the new subprocess connects notwithstanding.
InService == /\ wphase \in {"up", "busy"}
             /\ hpc[wconn] = "reading" /\ writer = wconn

ServiceResumes == spawn = "registered" ~> (InService \/ spawn = "stopped")

-----------------------------------------------------------------------------
(* Promises of the documentation                                           *)

\* docs/manual/develop/plugins.md: "activate() is always called on every
\* plugin".  So a group whose llmings have been activated has them active
\* again, or is not served, some time after whatever happened to it.
Reactivated ==
  (spawn = "registered" /\ \A l \in Llming : outcome[l] = "result")
    ~> (active = Llming \/ ~InService)

=============================================================================
