------------------------------ MODULE Sandbox ------------------------------
(***************************************************************************)
(* Sandbox sessions (hort/sandbox/session.py) and their reaper             *)
(* (hort/sandbox/reaper.py).  A session is a container, a volume and a     *)
(* metadata file; the server and the command line tools are processes that *)
(* share all three and coordinate through nothing else.                    *)
(*                                                                         *)
(* An action is one docker command or one access to a file: the process    *)
(* that runs it blocks, the others go on.  A process may die at any point. *)
(***************************************************************************)
EXTENDS Naturals, FiniteSets

CONSTANTS
  User, Reaper, \* processes: the server and the chats; the clean-up command
  Sid, None,
  Timeout,     \* timeout_minutes of every session
  MaxSessions, \* max_sessions of reap_by_count
  MaxVolumes,  \* max_bytes of reap_by_space: every volume counts one
  Racing,      \* may a session be destroyed while another process works on it?
  MaxTime,     \* bound: the clock
  MaxCrashes   \* bound: processes that die

\* What the constants have to be.
SandboxAssumption ==
  /\ None \notin Sid \cup Nat /\ IsFiniteSet(Sid) /\ User \cap Reaper = {}
  /\ {Timeout, MaxSessions, MaxVolumes, MaxTime, MaxCrashes} \subseteq Nat
  /\ Racing \in BOOLEAN

VARIABLES
  active,  \* [Sid -> last_active in its metadata file, None if there is none]
  box,     \* [Sid -> its container]
  volume,  \* [Sid -> is there a volume?]
  used,    \* the ids that have been given out
  held,    \* [Proc -> the sessions it has a Session object of]
  doing,   \* [Proc -> the method it is in, and where]
  clock, crashes

Proc == User \cup Reaper

vars == <<active, box, volume, used, held, doing, clock, crashes>>
dockerVars == <<box, volume>>

\* A reaper's pass has entries of its listing to destroy, and the others.
Idle == [op |-> "idle", at |-> "idle", sid |-> None, todo |-> {}, spared |-> {}]

Busy(s) == \E p \in Proc : doing[p].sid = s

Go(p, at) == doing' = [doing EXCEPT ![p].at = at]
Leave(p)  == doing' = [doing EXCEPT ![p] = Idle]

-----------------------------------------------------------------------------
(* SessionManager, and the methods of Session                              *)

Create(p, s) ==
  /\ doing[p] = Idle /\ s \notin used /\ clock < MaxTime
  /\ used' = used \cup {s}
  /\ active' = [active EXCEPT ![s] = clock]
  /\ clock' = clock + 1
  /\ held' = [held EXCEPT ![p] = @ \cup {s}]
  /\ UNCHANGED <<dockerVars, doing, crashes>>

\* get, list_sessions: an object made from the file.
Get(p, s) ==
  /\ doing[p] = Idle /\ s \notin held[p] /\ active[s] # None
  /\ held' = [held EXCEPT ![p] = @ \cup {s}]
  /\ UNCHANGED <<active, dockerVars, used, doing, clock, crashes>>

\* The object outlives the session: nothing looks for the file.
Begin(p, s, op) ==
  /\ doing[p] = Idle /\ s \in held[p]
  /\ Racing \/ ~Busy(s)
  /\ doing' = [doing EXCEPT ![p] =
                  [op |-> op, at |-> IF op = "destroy" THEN "rm" ELSE "running?",
                   sid |-> s, todo |-> {}, spared |-> {}]]
  /\ UNCHANGED <<active, dockerVars, used, held, clock, crashes>>

\* is_running, of stop() and of _ensure_running and start()
IsRunning(p) ==
  LET s == doing[p].sid IN
  /\ doing[p].at = "running?"
  /\ Go(p, IF doing[p].op = "stop"
           THEN IF box[s] = "running" THEN "halt" ELSE "touch"
           ELSE IF box[s] # "running" THEN "exists?"
           ELSE IF doing[p].op = "start" THEN "touch" ELSE "use")
  /\ UNCHANGED <<active, dockerVars, used, held, clock, crashes>>

Exists(p) ==
  /\ doing[p].at = "exists?"
  /\ Go(p, IF box[doing[p].sid] = "absent" THEN "run" ELSE "launch")
  /\ UNCHANGED <<active, dockerVars, used, held, clock, crashes>>

\* docker start, docker run: checked.  When the container has gone, or its name
\* has been taken meanwhile, the method raises.
Launch(p) ==
  LET s == doing[p].sid IN
  /\ doing[p].at = "launch"
  /\ IF box[s] # "absent" THEN box' = [box EXCEPT ![s] = "running"] /\ Go(p, "started")
                          ELSE Leave(p) /\ UNCHANGED box
  /\ UNCHANGED <<active, volume, used, held, clock, crashes>>

Run(p) ==
  LET s == doing[p].sid IN
  /\ doing[p].at = "run"
  /\ IF box[s] = "absent"
     THEN /\ box' = [box EXCEPT ![s] = "running"]
          /\ volume' = [volume EXCEPT ![s] = TRUE]
          /\ Go(p, "started")
     ELSE Leave(p) /\ UNCHANGED dockerVars
  /\ UNCHANGED <<active, used, held, clock, crashes>>

\* _touch writes the whole file, whether there still is one or not.
Touch(p) ==
  /\ doing[p].at \in {"started", "touch"} /\ clock < MaxTime
  /\ active' = [active EXCEPT ![doing[p].sid] = clock]
  /\ clock' = clock + 1
  /\ IF doing[p].at = "started" /\ doing[p].op \in {"exec", "write"}
     THEN Go(p, "use") ELSE Leave(p)
  /\ UNCHANGED <<dockerVars, used, held, crashes>>

\* docker exec: exec() touches the session when the command has ended,
\* write_file() does not.
Use(p) ==
  /\ doing[p].at = "use"
  /\ IF doing[p].op = "exec" THEN Go(p, "touch") ELSE Leave(p)
  /\ UNCHANGED <<active, dockerVars, used, held, clock, crashes>>

Halt(p) ==
  LET s == doing[p].sid IN
  /\ doing[p].at = "halt"
  /\ box' = [box EXCEPT ![s] = IF @ = "running" THEN "stopped" ELSE @]
  /\ Go(p, "touch")
  /\ UNCHANGED <<active, volume, used, held, clock, crashes>>

\* Mutant: the volume is removed first, while the container still uses it.
RemoveContainer_VolumeFirst(p) ==
  LET s == doing[p].sid IN
  /\ doing[p].at = "rm"
  /\ volume' = [volume EXCEPT ![s] = @ /\ box[s] # "absent"]
  /\ box' = [box EXCEPT ![s] = "absent"]
  /\ Go(p, "unlink")
  /\ UNCHANGED <<active, used, held, clock, crashes>>

\* destroy(): docker's answers are ignored.
RemoveContainer(p) ==
  /\ doing[p].at = "rm"
  /\ box' = [box EXCEPT ![doing[p].sid] = "absent"]
  /\ Go(p, "volume")
  /\ UNCHANGED <<active, volume, used, held, clock, crashes>>

\* A volume that a container uses stays.
RemoveVolume(p) ==
  LET s == doing[p].sid IN
  /\ doing[p].at = "volume"
  /\ volume' = [volume EXCEPT ![s] = @ /\ box[s] # "absent"]
  /\ Go(p, "unlink")
  /\ UNCHANGED <<active, box, used, held, clock, crashes>>

Unlink(p) ==
  /\ doing[p].at = "unlink"
  /\ active' = [active EXCEPT ![doing[p].sid] = None]
  /\ IF doing[p].op = "destroy" THEN Leave(p)
     ELSE doing' = [doing EXCEPT ![p].at = "next", ![p].sid = None]
  /\ UNCHANGED <<dockerVars, used, held, clock, crashes>>

-----------------------------------------------------------------------------
(* reap                                                                    *)

\* list_sessions, with last_active
Listing == {<<s, active[s]>> : s \in {t \in Sid : active[t] # None}}

\* What comes before e in list_sessions reversed.
\* Mutant: the listing is not reversed.
Older_Newer(e) == {d \in Listing : d[2] > e[2]}

Older(e) == {d \in Listing : d[2] < e[2]}

Excess(n, max) == IF n > max THEN n - max ELSE 0

\* The three passes; each decides on what it has listed, then destroys.  The
\* space pass stops when what it has subtracted is enough: sessions without
\* a volume are destroyed on the way and subtract nothing.
Victims(pass) ==
  CASE pass = "expired" -> {e \in Listing : clock - e[2] > Timeout}
    [] pass = "count" ->
         {e \in Listing :
            Cardinality(Older(e)) < Excess(Cardinality(Listing), MaxSessions)}
    [] pass = "space" ->
         {e \in Listing : Cardinality({d \in Older(e) : volume[d[1]]})
                            < Excess(Cardinality({s \in Sid : volume[s]}), MaxVolumes)}

Reap(p, pass) ==
  /\ \/ pass = "expired" /\ doing[p] = Idle
     \/ /\ doing[p].at = "next" /\ doing[p].todo = {}
        /\ <<doing[p].op, pass>> \in {<<"expired", "count">>, <<"count", "space">>}
  /\ doing' = [doing EXCEPT ![p] = [op |-> pass, at |-> "next", sid |-> None,
                 todo |-> Victims(pass), spared |-> Listing \ Victims(pass)]]
  /\ UNCHANGED <<active, dockerVars, used, held, clock, crashes>>

\* The pass for the expired goes from the newest to the oldest, the others the
\* other way round.
Foremost(p, e) ==
  \A d \in doing[p].todo : IF doing[p].op = "expired" THEN d[2] <= e[2] ELSE e[2] <= d[2]

ReapNext(p) ==
  /\ doing[p].at = "next"
  /\ \E e \in doing[p].todo :
       /\ Foremost(p, e)
       /\ Racing \/ ~Busy(e[1])
       /\ doing' = [doing EXCEPT ![p].at = "rm", ![p].sid = e[1], ![p].todo = @ \ {e}]
  /\ UNCHANGED <<active, dockerVars, used, held, clock, crashes>>

ReapEnds(p) ==
  /\ doing[p].at = "next" /\ doing[p].op = "space" /\ doing[p].todo = {}
  /\ Leave(p)
  /\ UNCHANGED <<active, dockerVars, used, held, clock, crashes>>

-----------------------------------------------------------------------------
Tick ==
  /\ clock < MaxTime
  /\ clock' = clock + 1
  /\ UNCHANGED <<active, dockerVars, used, held, doing, crashes>>

Crash(p) ==
  /\ crashes < MaxCrashes
  /\ crashes' = crashes + 1
  /\ doing' = [doing EXCEPT ![p] = Idle]
  /\ held' = [held EXCEPT ![p] = {}]
  /\ UNCHANGED <<active, dockerVars, used, clock>>

Init ==
  /\ active = [s \in Sid |-> None]
  /\ box = [s \in Sid |-> "absent"]
  /\ volume = [s \in Sid |-> FALSE]
  /\ used = {}
  /\ held = [p \in Proc |-> {}]
  /\ doing = [p \in Proc |-> Idle]
  /\ clock = 0 /\ crashes = 0

Next ==
  \/ \E p \in User, s \in Sid :
       \/ Create(p, s) \/ Get(p, s)
       \/ \E op \in {"start", "exec", "write", "stop", "destroy"} : Begin(p, s, op)
  \/ \E p \in Proc :
       \/ IsRunning(p) \/ Exists(p) \/ Launch(p) \/ Run(p) \/ Touch(p) \/ Use(p) \/ Halt(p)
       \/ RemoveContainer(p) \/ RemoveVolume(p) \/ Unlink(p) \/ Crash(p)
  \/ \E p \in Reaper :
       \/ ReapNext(p) \/ ReapEnds(p)
       \/ \E pass \in {"expired", "count", "space"} : Reap(p, pass)
  \/ Tick

Spec == Init /\ [][Next]_vars

-----------------------------------------------------------------------------
Stages == {"idle", "running?", "exists?", "launch", "run", "started", "touch", "use",
           "halt", "rm", "volume", "unlink", "next"}

\* The state has its shape; a session that is worked on was given out.
SandboxTypeOK ==
  /\ active \in [Sid -> 0..MaxTime \cup {None}]
  /\ box \in [Sid -> {"absent", "stopped", "running"}]
  /\ volume \in [Sid -> BOOLEAN]
  /\ held \in [Proc -> SUBSET used] /\ used \subseteq Sid
  /\ \A p \in Proc : doing[p].at \in Stages /\ doing[p].sid \in used \cup {None}
  /\ clock \in 0..MaxTime /\ crashes \in 0..MaxCrashes

\* The metadata file is the only trace the reaper can follow: when it goes, the
\* container and the volume have gone before, whatever deaths and half-done
\* destroys came before.
UnlinkedIsGone ==
  \A s \in Sid : active[s] # None /\ active'[s] = None => box[s] = "absent" /\ ~volume[s]

\* The reaper's limits cost the sessions that have been idle longest: what a
\* count or space pass is still to destroy was, when it listed the sessions, no
\* younger than any session it lets live.
IdleLongestGoFirst ==
  \A p \in Proc : doing[p].op \in {"count", "space"} =>
    \A v \in doing[p].todo, k \in doing[p].spared : v[2] <= k[2]

=============================================================================
