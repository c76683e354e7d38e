----------------------------- MODULE Streaming -----------------------------
(***************************************************************************)
(* One viewer's session: the coroutines of its stream WebSockets           *)
(* (run_stream in hort/stream.py), the handlers of its control WebSocket   *)
(* (hort/controller.py), and the session entry both work on.               *)
(*                                                                         *)
(* The control handlers run one at a time; every run_stream is a coroutine *)
(* of its own.  Nothing reads the stream WebSocket, and a failed send only *)
(* ends the sending task: a run_stream whose viewer has gone, or that a    *)
(* newer one has superseded, goes on capturing for the same entry.         *)
(***************************************************************************)
EXTENDS Integers, FiniteSets

CONSTANTS Stream,      \* the session's stream connections, numbered as they are accepted
          Window, Camera,
          Target,      \* registered targets
          Owner,       \* Window -> Target
          MaxUnacked,  \* bound: _max_unacked, 5 or 2 in the code
          MaxChanges,  \* bound: configurations the viewer sends
          Video,       \* the viewer may ask for vp8 or vp9
          Failing,     \* listing the windows may fail
          None

\* What the constants have to be.
StreamingAssumption ==
  /\ Owner \in [Window -> Target] /\ Stream \subseteq Nat /\ MaxUnacked \in Nat \ {0} /\ MaxChanges \in Nat
  /\ {Video, Failing} \subseteq BOOLEAN /\ None \notin Stream \cup Window \cup Camera \cup Target

VARIABLES
  ws, config, onTarget, owner,  \* the entry: stream_ws, stream_config, active_target_id,
                                \* and whose StreamState is in stream_states[0]
  target, win, prov, busy,      \* the controller: _target_id, _cached_window, _cached_provider,
                                \* and the configuration whose windows are being listed
  changes,
  pc, open, got, codec, src,    \* per stream: where it is, its socket, its config, prev_codec,
                                \* _prev_source_id
  unacked, age, queue,          \* per stream: seq - last_acked_seq, last_acked_time, _jpeg_queue
  windows, on                   \* the windows there are, the cameras that run

entry   == <<ws, config, onTarget, owner>>
control == <<target, win, prov, busy, changes>>
flow    == <<unacked, age, queue>>
loops   == <<pc, open, got, codec, src>>
world   == <<windows, on>>
vars == <<entry, control, loops, flow, world>>

Source   == Window \cup Camera
NoConfig == [src |-> None, codec |-> "none"]
Configs  == [src : Source, codec : {"webp"} \cup (IF Video THEN {"video"} ELSE {})]

Init ==
  /\ ws = None /\ config = NoConfig /\ onTarget = None /\ owner = None
  /\ target = "all" /\ win = None /\ prov = None /\ busy = NoConfig /\ changes = 0
  /\ pc = [s \in Stream |-> "new"] /\ open = [s \in Stream |-> FALSE]
  /\ got = [s \in Stream |-> NoConfig] /\ codec = [s \in Stream |-> "none"]
  /\ src = [s \in Stream |-> None] /\ unacked = [s \in Stream |-> 0]
  /\ age = [s \in Stream |-> 0] /\ queue = [s \in Stream |-> FALSE]
  /\ windows = Window /\ on = {}

\* What is queued for a socket that is closed is not sent any more.
Closed(s) ==
  /\ open' = [x \in Stream |-> open[x] /\ x # s]
  /\ queue' = [x \in Stream |-> queue[x] /\ x # s]

At(s, here, there) == pc[s] = here /\ pc' = [pc EXCEPT ![s] = there]

-----------------------------------------------------------------------------
(* A stream connects, and ends                                             *)

\* The entry's stream is closed first; nobody ends its coroutine.
Supersedes(s) ==
  /\ At(s, "new", "accept")
  /\ Closed(ws)
  /\ UNCHANGED <<entry, control, got, codec, src, unacked, age, world>>

Accepts(s) ==
  /\ At(s, "accept", "loop") /\ \A r \in Stream : r < s => pc[r] \notin {"new", "accept"}
  /\ open' = [open EXCEPT ![s] = TRUE] /\ ws' = s
  /\ UNCHANGED <<config, onTarget, owner, control, got, codec, src, flow, world>>

\* The viewer goes: no receive() is waiting for it.
ViewerGoes(s) ==
  /\ open[s] /\ Closed(s)
  /\ UNCHANGED <<entry, control, pc, got, codec, src, unacked, age, world>>

\* The finally clause, for an entry that may belong to another stream by now.
Ends(s) ==
  /\ pc' = [pc EXCEPT ![s] = "ended"] /\ Closed(s)
  /\ ws' = None /\ config' = NoConfig /\ owner' = None
  /\ on' = on \ {src[s]}

-----------------------------------------------------------------------------
(* The loop of a stream                                                    *)

\* A change of codec recreates the queue and enters the flow state in the entry; the
\* source it leaves is stopped, the camera it comes to is started.
Reads(s) ==
  /\ config # NoConfig /\ At(s, "loop", "ready")
  /\ got' = [got EXCEPT ![s] = config]
  /\ codec' = [codec EXCEPT ![s] = config.codec]
  /\ IF config.codec # codec[s]
     THEN owner' = s /\ queue' = [queue EXCEPT ![s] = FALSE]
     ELSE UNCHANGED <<owner, queue>>
  /\ UNCHANGED <<ws, config, onTarget, control, open, src, unacked, age, world>>

\* Mutant: no recovery after five seconds without an acknowledgement.
Recovers_Never(s) == FALSE

\* should_pause: five seconds without an acknowledgement count as one.
Recovers(s) == age[s] = 2

TooMany(s) == unacked[s] > MaxUnacked \/ (age[s] >= 1 /\ unacked[s] > 1)

Pauses(s) ==
  /\ ~Recovers(s) /\ TooMany(s) /\ At(s, "ready", "loop")
  /\ UNCHANGED <<entry, control, open, got, codec, src, flow, world>>

Goes(s) ==
  /\ Recovers(s) \/ ~TooMany(s)
  /\ At(s, "ready", "capture")
  /\ IF Recovers(s) THEN unacked' = [unacked EXCEPT ![s] = 0] /\ age' = [age EXCEPT ![s] = 0]
     ELSE UNCHANGED <<unacked, age>>
  /\ src' = [src EXCEPT ![s] = got[s].src]
  /\ on' = IF src[s] = got[s].src THEN on ELSE (on \ {src[s]}) \cup ({got[s].src} \cap Camera)
  /\ UNCHANGED <<entry, control, open, got, codec, queue, windows>>

\* A window is captured, cropped and scaled by the provider it belongs to.
Visible(w, t) == w \in windows /\ t = Owner[w]

\* A camera gives its latest frame, a window what the entry's target shows of it.
HasFrame(s) == IF src[s] \in Camera THEN src[s] \in on ELSE Visible(src[s], onTarget)

\* A frame in the queue is replaced by the newer one.
Captures(s) ==
  /\ HasFrame(s) /\ got[s].codec = "webp" /\ At(s, "capture", "loop")
  /\ unacked' = [unacked EXCEPT ![s] = @ + 1] /\ queue' = [queue EXCEPT ![s] = open[s]]
  /\ UNCHANGED <<entry, control, open, got, codec, src, age, world>>

\* The branch for vp8 and vp9 names variables that do not exist.
CapturesVideo(s) ==
  /\ HasFrame(s) /\ got[s].codec = "video" /\ pc[s] = "capture"
  /\ Ends(s)
  /\ UNCHANGED <<onTarget, control, got, codec, src, unacked, age, windows>>

NoPicture(s) ==
  /\ ~HasFrame(s) /\ src[s] \in Camera /\ At(s, "capture", "loop")
  /\ UNCHANGED <<entry, control, open, got, codec, src, flow, world>>

\* "Window not found" is sent at once; a second later the configuration is dropped,
\* whichever it is by then.
NotFound(s) ==
  /\ ~HasFrame(s) /\ src[s] \in Window /\ At(s, "capture", "failing")
  /\ UNCHANGED <<entry, control, open, got, codec, src, flow, world>>

GivesUp(s) ==
  /\ At(s, "failing", "loop") /\ config' = NoConfig
  /\ UNCHANGED <<ws, onTarget, owner, control, open, got, codec, src, flow, world>>

\* The sending task, and the clock of the flow state.
Sends(s) ==
  /\ queue[s] /\ open[s] /\ queue' = [queue EXCEPT ![s] = FALSE]
  /\ UNCHANGED <<entry, control, loops, unacked, age, world>>

Ages(s) ==
  /\ unacked[s] # 0 /\ age[s] < 2 /\ age' = [age EXCEPT ![s] = @ + 1]
  /\ UNCHANGED <<entry, control, loops, unacked, queue, world>>

-----------------------------------------------------------------------------
(* The control connection                                                  *)

ControlFree == busy = NoConfig

\* The last frame's leaves one; an acknowledgement of another stream may name a number this one has not come to.
Ack ==
  /\ ControlFree /\ owner # None
  /\ \E n \in -1..MaxUnacked :
       /\ n < unacked[owner]
       /\ n < 1 => \E s \in Stream \ {owner} : codec[s] # "none"
       /\ unacked' = [unacked EXCEPT ![owner] = n] /\ age' = [age EXCEPT ![owner] = 0]
  /\ UNCHANGED <<entry, control, loops, queue, world>>

SetTarget(t) ==
  /\ ControlFree /\ target # t
  /\ target' = t /\ config' = NoConfig /\ win' = None /\ prov' = None
  /\ UNCHANGED <<ws, onTarget, owner, busy, changes, loops, flow, world>>

\* The target the viewer names, or has chosen, or whose windows include this one.
Provider(c, t) ==
  IF t # None THEN t ELSE IF target # "all" THEN target
  ELSE IF c.src \in windows THEN Owner[c.src] ELSE None

\* The entry is changed at once, and the provider input goes to; then its windows are
\* listed in a thread.
StreamConfig(c, t) ==
  /\ ControlFree /\ changes < MaxChanges /\ changes' = changes + 1
  /\ config' = c /\ onTarget' = Provider(c, t)
  /\ prov' = IF target # "all" THEN target ELSE Provider(c, t)
  /\ busy' = IF prov' = None THEN NoConfig ELSE c
  /\ UNCHANGED <<ws, owner, target, win, loops, flow, world>>

FindsWindow(c) == IF c.src \in Window /\ Visible(c.src, prov) THEN c.src ELSE None

WindowsListed ==
  /\ busy # NoConfig /\ busy' = NoConfig
  /\ win' = FindsWindow(busy)
  /\ UNCHANGED <<entry, target, prov, changes, loops, flow, world>>

\* "Invalid stream config", but the entry and the provider are the new ones.
ListingFails ==
  /\ Failing /\ busy # NoConfig /\ busy' = NoConfig
  /\ UNCHANGED <<entry, target, win, prov, changes, loops, flow, world>>

StreamStop ==
  /\ ControlFree /\ config # NoConfig
  /\ config' = NoConfig /\ Closed(ws)
  /\ UNCHANGED <<ws, onTarget, owner, control, pc, got, codec, src, unacked, age, world>>

WindowCloses(w) ==
  /\ w \in windows /\ windows' = windows \ {w}
  /\ UNCHANGED <<entry, control, loops, flow, on>>

Loop(s) == Reads(s) \/ Pauses(s) \/ Goes(s) \/ Captures(s) \/ CapturesVideo(s) \/ NoPicture(s)
           \/ NotFound(s) \/ GivesUp(s)

Next ==
  \/ \E s \in Stream : Supersedes(s) \/ Accepts(s) \/ ViewerGoes(s) \/ Loop(s) \/ Sends(s) \/ Ages(s)
  \/ Ack \/ WindowsListed \/ ListingFails \/ StreamStop
  \/ \E t \in Target \cup {"all"} : SetTarget(t)
  \/ \E c \in Configs, t \in Target \cup {None} : StreamConfig(c, t)
  \/ \E w \in Window : WindowCloses(w)

\* The event loop resumes every coroutine, the sockets take what is sent, time passes.
Fairness == \A s \in Stream : WF_vars(Loop(s)) /\ WF_vars(Sends(s)) /\ WF_vars(Ages(s))

Spec == Init /\ [][Next]_vars /\ Fairness

-----------------------------------------------------------------------------
(* Properties                                                              *)

\* The sockets and the configuration in use are among those there are.
StreamingTypeOK ==
  /\ {ws, owner} \subseteq Stream \cup {None} /\ {config, busy} \subseteq Configs \cup {NoConfig}
  /\ {onTarget, prov} \subseteq Target \cup {None} /\ target \in Target \cup {"all"}
  /\ win \in Window \cup {None} /\ changes \in 0..MaxChanges
  /\ pc \in [Stream -> {"new", "accept", "loop", "ready", "capture", "failing", "ended"}]
  /\ open \in [Stream -> BOOLEAN] /\ got \in [Stream -> Configs \cup {NoConfig}]
  /\ codec \in [Stream -> {"none", "webp", "video"}] /\ src \in [Stream -> Source \cup {None}]
  /\ unacked \in [Stream -> -1..MaxUnacked + 1] /\ age \in [Stream -> 0..2]
  /\ queue \in [Stream -> BOOLEAN] /\ windows \subseteq Window /\ on \subseteq Camera

\* The viewer asks for a window that can be captured, and its stream is there.
Streaming(s) ==
  /\ open[s] /\ pc[s] \in {"loop", "ready", "capture", "failing"}
  /\ config.src \in Window /\ Visible(config.src, onTarget) /\ config.codec = "webp"

\* "auto-recovery": whatever acknowledgements are lost, and whatever other streams the
\* session has, a stream that stays asked for goes on sending frames.
StreamGoesOn ==
  \A s \in Stream : []<><<Sends(s)>>_vars \/ []<>~Streaming(s)

\* "stream_config    -> updates session stream config": a configuration that has been
\* acknowledged is dropped only by the viewer, or because its own window has gone.
DropsItsOwn == \A s \in Stream : pc[s] = "failing" => config \in {NoConfig, got[s]}
=============================================================================
