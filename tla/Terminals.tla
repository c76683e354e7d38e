------------------------------- MODULE Terminals -------------------------------
(***************************************************************************)
(* The terminal daemon (hort/termd.py), the shells it holds behind         *)
(* pseudo-terminals (hort/terminal.py), and the web server's bridges from  *)
(* browsers to it (hort/termd_client.py).  The daemon is one event loop: a *)
(* read loop per terminal, a handler per connection.  File descriptors are *)
(* numbers, the lowest free one is taken; what the loop's selector has on  *)
(* record for a number and what the kernel watches are two things.         *)
(***************************************************************************)
EXTENDS Integers, Sequences, FiniteSets, FiniteSetsExt

CONSTANTS
  Term, Viewer,
  MaxFd,    \* bound: descriptors 1..MaxFd
  MaxOut,   \* bound: chunks of output of a shell
  MaxLine,  \* chunks of scrollback that fit a line of the bridge's reader (64 KB)
  None

\* What the constants have to be.
TerminalsAssumption == MaxFd \in Nat /\ MaxOut \in Nat /\ MaxLine \in Nat

Fd == 1..MaxFd
Eof == 0   \* b"" in a queue

VARIABLES
  shell,     \* [Term -> "none", "alive", "exited" or "closed"]
  fd,        \* [Term -> descriptor of the master side, 0: none yet]
  written,   \* [Term -> chunks the shell has written]
  read,      \* [Term -> chunks of them that have been read]
  queue,     \* [Term -> chunks on_readable has put, and the read loop not taken]
  scroll,    \* [Term -> the scrollback]
  loop,      \* [Term -> "none", "waits", "sends" or "ended"]
  todo,      \* [Term -> viewers the last chunk has still to be sent to]
  failed,    \* [Term -> viewers it could not be sent to]
  size,      \* [Term -> size of the set iterated over, -1: no longer the one in use]
  attached,  \* _attachments: [Term -> set of viewers]
  viewer,    \* [Viewer -> "off", "shown", "overrun", "broken" or "left"]
  on,        \* [Viewer -> its terminal]
  conn,      \* [Viewer -> descriptor of its connection, 0: none]
  got,       \* [Viewer -> the chunks it has received]
  used,      \* descriptors in use
  record,    \* the selector: [Fd -> Term, "conn" or None]
  watched    \* the descriptors the kernel watches

shells == <<shell, fd, written>>
loops == <<read, queue, scroll, loop, todo, failed, size>>
viewers == <<attached, viewer, on, conn, got>>
fds == <<used, record, watched>>
vars == <<shells, loops, viewers, fds>>

-----------------------------------------------------------------------------
(* Descriptors                                                             *)

Lowest(taken) == IF Fd \subseteq taken THEN 0 ELSE Min(Fd \ taken)

\* add_reader: for a number that is on record only the callback is replaced, the
\* kernel is not told.
AddReader(f, who) ==
  /\ record' = [record EXCEPT ![f] = who]
  /\ watched' = IF record[f] = None THEN watched \cup {f} ELSE watched

RemoveReader(f) == record' = [record EXCEPT ![f] = None] /\ watched' = watched \ {f}

Heard(f) == f # 0 /\ record[f] = None

\* A command comes on a connection of its own; if the kernel does not watch that,
\* the client gives up after ten seconds and the daemon keeps the descriptor.
Unheard(f) ==
  /\ f # 0 /\ ~Heard(f)
  /\ used' = used \cup {f} /\ AddReader(f, "conn")
  /\ UNCHANGED <<shells, loops, viewers>>

-----------------------------------------------------------------------------
(* Commands                                                                *)

\* _handle_spawn, while its connection has a descriptor too
Spawn(t) ==
  LET c == Lowest(used)
      m == Lowest(used \cup {c})
  IN  /\ shell[t] = "none"
      /\ \/ Unheard(c)
         \/ /\ Heard(c) /\ m # 0
            /\ shell' = [shell EXCEPT ![t] = "alive"] /\ fd' = [fd EXCEPT ![t] = m]
            /\ loop' = [loop EXCEPT ![t] = "waits"]
            /\ used' = used \cup {m} /\ AddReader(m, t)
            /\ UNCHANGED <<written, read, queue, scroll, todo, failed, size, viewers>>

\* _handle_close: the shell is killed and the descriptor closed, which the kernel
\* forgets and the selector does not; viewers are not told.
Close(t) ==
  LET c == Lowest(used)
  IN  /\ shell[t] \in {"alive", "exited"}
      /\ \/ Unheard(c)
         \/ /\ Heard(c)
            /\ shell' = [shell EXCEPT ![t] = "closed"]
            /\ used' = used \ {fd[t]} /\ watched' = watched \ {fd[t]}
            /\ attached' = [attached EXCEPT ![t] = {}] /\ size' = [size EXCEPT ![t] = -1]
            /\ UNCHANGED <<fd, written, read, queue, scroll, loop, todo, failed, viewer, on, conn, got, record>>

-----------------------------------------------------------------------------
(* Shells and their read loops                                             *)

ShellWrites(t) ==
  /\ shell[t] = "alive" /\ written[t] < MaxOut
  /\ written' = [written EXCEPT ![t] = @ + 1]
  /\ UNCHANGED <<shell, fd, loops, viewers, fds>>

ShellExits(t) ==
  /\ shell[t] = "alive" /\ shell' = [shell EXCEPT ![t] = "exited"]
  /\ UNCHANGED <<fd, written, loops, viewers, fds>>

\* Mutant: output that nobody watches is dropped.
Taken_Watched(t, x) == IF attached[t] = {} THEN queue[t] ELSE Append(queue[t], x)

Taken(t, x) == Append(queue[t], x)

\* on_readable, which the event loop calls for a descriptor the kernel watches
OnReadable(t) ==
  /\ shell[t] \in {"alive", "exited"} /\ record[fd[t]] = t /\ fd[t] \in watched
  /\ \/ /\ read[t] < written[t] /\ read' = [read EXCEPT ![t] = @ + 1]
        /\ queue' = [queue EXCEPT ![t] = Taken(t, read[t] + 1)]
     \/ /\ read[t] = written[t] /\ shell[t] = "exited" /\ Eof \notin {queue[t][i] : i \in DOMAIN queue[t]}
        /\ queue' = [queue EXCEPT ![t] = Append(@, Eof)] /\ read' = read
  /\ UNCHANGED <<shells, scroll, loop, todo, failed, size, viewers, fds>>

LoopEnds(t) == loop' = [loop EXCEPT ![t] = "ended"] /\ RemoveReader(fd[t]) /\ used' = used

\* _read_loop: a chunk goes to the scrollback and, one viewer after another, out.
Forward(t) ==
  /\ loop[t] = "waits" /\ queue[t] # <<>> /\ queue' = [queue EXCEPT ![t] = Tail(@)]
  /\ IF Head(queue[t]) = Eof
     THEN LoopEnds(t) /\ UNCHANGED <<scroll, todo, failed, size>>
     ELSE /\ scroll' = [scroll EXCEPT ![t] = Append(@, Head(queue[t]))]
          /\ loop' = [loop EXCEPT ![t] = "sends"] /\ todo' = [todo EXCEPT ![t] = attached[t]]
          /\ failed' = [failed EXCEPT ![t] = {}]
          /\ size' = [size EXCEPT ![t] = IF attached[t] = {} THEN -1 ELSE Cardinality(attached[t])]
          /\ UNCHANGED fds
  /\ UNCHANGED <<shells, read, viewers>>

\* The set has changed its size during the iteration: a RuntimeError.
Changed(t) == size[t] # -1 /\ Cardinality(attached[t]) # size[t]

\* A write to a connection that has broken fails; drain() may let others run.
SendTo(t, v) ==
  /\ loop[t] = "sends" /\ v \in todo[t] /\ ~Changed(t)
  /\ todo' = [todo EXCEPT ![t] = @ \ {v}]
  /\ IF viewer[v] \in {"shown", "overrun"}
     THEN got' = [got EXCEPT ![v] = Append(@, scroll[t][Len(scroll[t])])] /\ failed' = failed
     ELSE failed' = [failed EXCEPT ![t] = @ \cup {v}] /\ got' = got
  /\ UNCHANGED <<shells, read, queue, scroll, loop, size, attached, viewer, on, conn, fds>>

\* After the last viewer the failed ones are dropped; a shell that has exited ends
\* the loop, with what is left in the queue.
Sent(t) ==
  /\ loop[t] = "sends" /\ todo[t] = {} /\ ~Changed(t)
  /\ attached' = [attached EXCEPT ![t] = @ \ failed[t]]
  /\ failed' = [failed EXCEPT ![t] = {}] /\ size' = [size EXCEPT ![t] = -1]
  /\ IF shell[t] = "alive" THEN loop' = [loop EXCEPT ![t] = "waits"] /\ UNCHANGED fds ELSE LoopEnds(t)
  /\ UNCHANGED <<shells, read, queue, scroll, todo, viewer, on, conn, got>>

LoopFails(t) ==
  /\ loop[t] = "sends" /\ Changed(t) /\ LoopEnds(t) /\ todo' = [todo EXCEPT ![t] = {}]
  /\ UNCHANGED <<shells, read, queue, scroll, failed, size, viewers>>

-----------------------------------------------------------------------------
(* Viewers                                                                 *)

\* _handle_attach: the writer joins, and the scrollback is the answer.
Attached(v, t) ==
  /\ attached' = [attached EXCEPT ![t] = @ \cup {v}]
  /\ on' = [on EXCEPT ![v] = t] /\ got' = [got EXCEPT ![v] = scroll[t]]

\* The bridge of a browser connects and attaches; the answer is one line, which its
\* reader refuses when it is too long.
Attach(v, t) ==
  LET c == Lowest(used)
  IN  /\ viewer[v] = "off"
      /\ \/ Unheard(c)
         \/ /\ Heard(c) /\ shell[t] \in {"alive", "exited"}
            /\ viewer' = [viewer EXCEPT ![v] = IF Len(scroll[t]) > MaxLine THEN "overrun" ELSE "shown"]
            /\ Attached(v, t)
            /\ conn' = [conn EXCEPT ![v] = c] /\ used' = used \cup {c} /\ AddReader(c, "conn")
            /\ UNCHANGED <<shells, loops>>

Breaks(v) ==
  /\ viewer[v] \in {"shown", "overrun"} /\ viewer' = [viewer EXCEPT ![v] = "broken"]
  /\ UNCHANGED <<shells, loops, attached, on, conn, got, fds>>

\* _detach, when handle_client ends
Detached(v) == attached' = [attached EXCEPT ![on[v]] = @ \ {v}]

\* Mutant: the descriptor of a connection that was closed is still watched.
Leave_Watched(v) ==
  /\ viewer[v] \in {"shown", "overrun", "broken"}
  /\ viewer' = [viewer EXCEPT ![v] = "left"]
  /\ Detached(v) /\ used' = used \ {conn[v]}
  /\ UNCHANGED <<shells, loops, on, conn, got, record, watched>>

\* The browser has gone, the bridge has failed, or the connection has broken.
Leave(v) ==
  /\ viewer[v] \in {"shown", "overrun", "broken"}
  /\ viewer' = [viewer EXCEPT ![v] = "left"]
  /\ Detached(v) /\ used' = used \ {conn[v]} /\ RemoveReader(conn[v])
  /\ UNCHANGED <<shells, loops, on, conn, got>>

-----------------------------------------------------------------------------
Init ==
  /\ shell = [t \in Term |-> "none"] /\ fd = [t \in Term |-> 0] /\ written = [t \in Term |-> 0]
  /\ read = [t \in Term |-> 0] /\ queue = [t \in Term |-> <<>>] /\ scroll = [t \in Term |-> <<>>]
  /\ loop = [t \in Term |-> "none"] /\ todo = [t \in Term |-> {}] /\ failed = [t \in Term |-> {}]
  /\ size = [t \in Term |-> -1]
  /\ attached = [t \in Term |-> {}] /\ viewer = [v \in Viewer |-> "off"]
  /\ on \in [Viewer -> {CHOOSE t \in Term : TRUE}] /\ conn = [v \in Viewer |-> 0]
  /\ got = [v \in Viewer |-> <<>>]
  /\ used = {} /\ record = [f \in Fd |-> None] /\ watched = {}

Next ==
  \/ \E t \in Term : \/ Spawn(t) \/ Close(t) \/ ShellWrites(t) \/ ShellExits(t) \/ OnReadable(t)
                     \/ Forward(t) \/ Sent(t) \/ LoopFails(t)
                     \/ \E v \in Viewer : SendTo(t, v) \/ Attach(v, t)
  \/ \E v \in Viewer : Breaks(v) \/ Leave(v)

Spec == Init /\ [][Next]_vars

-----------------------------------------------------------------------------
\* Shells, viewers and file descriptors have their shape.
TerminalsTypeOK ==
  /\ shell \in [Term -> {"none", "alive", "exited", "closed"}] /\ fd \in [Term -> 0..MaxFd]
  /\ loop \in [Term -> {"none", "waits", "sends", "ended"}]
  /\ viewer \in [Viewer -> {"off", "shown", "overrun", "broken", "left"}]
  /\ \A t \in Term : attached[t] \subseteq Viewer /\ todo[t] \subseteq Viewer
  /\ used \subseteq Fd /\ watched \subseteq used /\ record \in [Fd -> Term \cup {"conn", None}]

\* Whoever attaches, leaves or breaks while a chunk is being sent: what a viewer has
\* is the shell's output from its beginning, nothing missing and nothing twice
\* (termd.py:186-217).
NoGaps == \A v \in Viewer : got[v] = [i \in 1..Len(got[v]) |-> i]

\* A terminal that has been spawned is read as long as its shell lives: termd.py:114
\* "Start reading PTY output and forwarding to attached clients".  It is not when it
\* gets the descriptor number of one that was closed alive.
SpawnedIsRead == \A t \in Term : shell[t] = "alive" /\ loop[t] = "waits" => fd[t] \in watched
=============================================================================
