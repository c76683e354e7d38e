------------------------------ MODULE Llmings ------------------------------
(***************************************************************************)
(* How the main process loads, wires, unloads and stops its llmings:       *)
(* hort/plugins.py, hort/ext/registry.py, hort/ext/scheduler.py,           *)
(* hort/llming/pulse.py, hort/llming/bus.py and the command registry of    *)
(* hort/ext/connectors.py.                                                 *)
(*                                                                         *)
(* Llmings without a group live in this process; those of a group live in  *)
(* a subprocess and are registered here as proxies by a task of their own, *)
(* which runs whenever the start-up or the shutdown awaits.  Both of them  *)
(* iterate over the very dictionary that task inserts into.                *)
(***************************************************************************)
EXTENDS Integers, FiniteSets, Sequences, Functions

CONSTANTS Local,      \* the in-process llmings, in manifest order
          Member,     \* group -> its llmings, in manifest order
          Waits,      \* llming with an @on_ready handler -> what it waits for
          Connector,  \* in-process llmings whose stop() awaits the network
          Listens,    \* a handler of "llming:started" / "llming:stopped" awaits
          Unloads     \* an administrator may unload llmings

Group  == DOMAIN Member
Proxy  == UNION {Range(Member[g]) : g \in Group}
Llming == Range(Local) \cup Proxy

\* What the constants have to be.
LlmingsAssumption ==
  /\ Local \in Seq(Range(Local)) /\ IsInjective(Local) /\ Range(Local) \cap Proxy = {}
  /\ \A g, h \in Group : g # h => Range(Member[g]) \cap Range(Member[h]) = {}
  /\ Connector \subseteq Range(Local)
  /\ DOMAIN Waits \subseteq Range(Local)
  /\ \A n \in DOMAIN Waits : Waits[n] \subseteq Llming

VARIABLES
  instances,  \* registry._instances: its keys, in insertion order
  bus,        \* the names the MessageBus knows
  active,     \* activated and not deactivated since
  channels,   \* llmings whose handlers are subscribed to named channels
  jobs,       \* llmings whose scheduler has a live task
  working,    \* llmings with a job function in an executor thread
  starter,    \* start_llmings(): where it is, and the iteration it is in
  stopper,    \* stop_llmings(), likewise
  ready,      \* ready_set
  fired,      \* llmings whose @on_ready handler has been called
  commands,   \* llmings the command registry dispatches to
  task,       \* group -> how far its _spawn_group task has come
  process     \* groups whose subprocess runs

vars == <<instances, bus, active, channels, jobs, working, starter, stopper,
          ready, fired, commands, task, process>>

Idle == [at |-> "idle", k |-> 0, size |-> 0]

Init ==
  /\ instances = <<>> /\ bus = {} /\ active = {} /\ channels = {}
  /\ jobs = {} /\ working = {} /\ ready = {} /\ fired = {} /\ commands = {}
  /\ starter = Idle /\ stopper = Idle
  /\ task = [g \in Group |-> [at |-> "none", k |-> 0]] /\ process = {}

-----------------------------------------------------------------------------
(* The registries a llming is entered into                                 *)

OnBus(ns)    == bus \cup ns
OffBus(ns)   == bus \ ns
Subscribed(n) == channels \cup {n}

\* The commands of every llming but the connectors; nothing takes one out again.
Dispatched(names) == commands \cup (Range(names) \ Connector)

\* n has an @on_ready handler, was wired, and all it waits for has started.
Met(n) == n \in DOMAIN Waits /\ n \in channels /\ Waits[n] \subseteq ready

-----------------------------------------------------------------------------
(* Iterating a dictionary across awaits                                    *)

\* `for name, inst in registry._instances.items()`, about to ask for the k-th.
Iterating(at) == [at |-> at, k |-> 1, size |-> Len(instances)]

\* The iterator raises RuntimeError when the size is no longer what it was.
Changed(loop) == Len(instances) # loop.size

Finished(loop) == ~Changed(loop) /\ loop.k > loop.size

\* Tasks run only while nobody is inside a loop body that never awaits.
Yielded ==
  /\ starter.at = "wiring" => Listens
  /\ stopper.at = "stopping" =>
        \/ Listens
        \/ stopper.k > 1 /\ stopper.k - 1 <= Len(instances)
             /\ instances[stopper.k - 1] \in Connector

-----------------------------------------------------------------------------
(* Start-up                                                                *)

\* load_llmings_sync(): each is put on the bus, then activated, then kept.  A
\* module that cannot be found is skipped; an activate() that raises ends the
\* start-up, and the server with it.
Load ==
  /\ starter.at = "idle"
  /\ \E missing \in SUBSET Range(Local), bad \in 0..Len(Local) :
       LET tried == SubSeq(Local, 1, IF bad = 0 THEN Len(Local) ELSE bad - 1)
           kept  == Range(tried) \ missing
       IN /\ bad # 0 => Local[bad] \notin missing
          /\ instances' = SelectSeq(tried, LAMBDA n : n \in kept)
          /\ active' = kept
          /\ bus' = OnBus(kept \cup {Local[i] : i \in {bad} \ {0}})
          /\ starter' = [Idle EXCEPT !.at = IF bad = 0 THEN "loaded" ELSE "failed"]
  /\ UNCHANGED <<channels, jobs, working, stopper, ready, fired, commands, task, process>>

\* start_llmings() up to its first iteration: one task for each group.
SpawnGroups ==
  /\ starter.at = "loaded"
  /\ task' = [g \in Group |-> [at |-> "start", k |-> 0]]
  /\ starter' = Iterating("wiring")
  /\ UNCHANGED <<instances, bus, active, channels, jobs, working, stopper, ready,
                 fired, commands, process>>

\* One llming is wired: its subscriptions, its jobs; then "llming:started".
WireNext ==
  /\ starter.at = "wiring" /\ ~Changed(starter) /\ ~Finished(starter)
  /\ LET n == instances[starter.k]
     IN /\ channels' = Subscribed(n)
        /\ jobs' = jobs \cup ({n} \ Proxy)
        /\ ready' = ready \cup {n}
  /\ starter' = [starter EXCEPT !.k = @ + 1]
  /\ UNCHANGED <<instances, bus, active, working, stopper, fired, commands, task, process>>

\* RuntimeError: dictionary changed size during iteration; the start-up ends.
WireBreaks ==
  /\ starter.at = "wiring" /\ Changed(starter)
  /\ starter' = [starter EXCEPT !.at = "failed"]
  /\ UNCHANGED <<instances, bus, active, channels, jobs, working, stopper, ready, fired,
                 commands, task, process>>

\* The command registry is built and the connectors are started.
BuildCommands ==
  /\ starter.at = "wiring" /\ Finished(starter)
  /\ commands' = Dispatched(instances)
  /\ starter' = [at |-> "ready", k |-> 1, size |-> Len(Local)]
  /\ UNCHANGED <<instances, bus, active, channels, jobs, working, stopper, ready, fired, task, process>>

\* Each @on_ready handler is considered once; one whose dependencies are not
\* all in ready_set now is never looked at again.
FireReady ==
  /\ starter.at = "ready" /\ starter.k <= starter.size
  /\ LET n == Local[starter.k]
     IN fired' = IF Met(n) THEN fired \cup {n} ELSE fired
  /\ starter' = [starter EXCEPT !.k = @ + 1]
  /\ UNCHANGED <<instances, bus, active, channels, jobs, working, stopper, ready, commands, task, process>>

\* The first ticks are emitted and the tick loop is started.
StartTicks ==
  /\ starter.at = "ready" /\ starter.k > starter.size
  /\ starter' = [Idle EXCEPT !.at = "up"]
  /\ UNCHANGED <<instances, bus, active, channels, jobs, working, stopper, ready, fired,
                 commands, task, process>>

-----------------------------------------------------------------------------
(* _spawn_group(): one task for each group                                 *)

StartGroup(g) ==
  /\ task[g].at = "start" /\ Yielded
  /\ \/ process' = process \cup {g} /\ task' = [task EXCEPT ![g] = [at |-> "activate", k |-> 1]]
     \/ process' = process /\ task' = [task EXCEPT ![g].at = "ended"]
  /\ UNCHANGED <<instances, bus, active, channels, jobs, working, starter, stopper,
                 ready, fired, commands>>

\* proc.activate_llming(): done, timed out (taken for done), or refused, which
\* ends the task with the subprocess still running.
Activate(g) ==
  /\ task[g].at = "activate" /\ task[g].k <= Len(Member[g]) /\ Yielded
  /\ \/ /\ active' = active \cup {Member[g][task[g].k]}
        /\ task' = [task EXCEPT ![g].k = @ + 1]
     \/ active' = active /\ task' = [task EXCEPT ![g].k = @ + 1]
     \/ active' = active /\ task' = [task EXCEPT ![g].at = "ended"]
  /\ UNCHANGED <<instances, bus, channels, jobs, working, starter, stopper, ready,
                 fired, commands, process>>

\* Mutant: each is registered as soon as it is activated.
Registers_Each(g, k) == SubSeq(Member[g], 1, k - 1)

\* Which of a group's llmings are registered after so many activations.
Registers(g, k) == IF k > Len(Member[g]) THEN Member[g] ELSE <<>>

\* Every proxy is registered, without an await between them.
RegisterGroup(g) ==
  /\ task[g].at = "activate" /\ Registers(g, task[g].k) # <<>> /\ Yielded
  /\ LET news == SelectSeq(Registers(g, task[g].k), LAMBDA n : n \notin Range(instances))
     IN /\ instances' = instances \o news
        /\ commands' = IF starter.at \in {"ready", "up"}
                       THEN Dispatched(instances') ELSE commands
  /\ bus' = OnBus(Range(Registers(g, task[g].k)))
  /\ ready' = ready \cup Range(Registers(g, task[g].k))
  /\ task' = [task EXCEPT ![g].at = IF task[g].k > Len(Member[g]) THEN "ended" ELSE @]
  /\ UNCHANGED <<active, channels, jobs, working, starter, stopper, fired, process>>

-----------------------------------------------------------------------------
(* A running server                                                        *)

\* An interval job hands its function to an executor thread, and awaits it.
JobStarts(n) ==
  /\ n \in jobs \ working /\ Yielded
  /\ working' = working \cup {n}
  /\ UNCHANGED <<instances, bus, active, channels, jobs, starter, stopper, ready,
                 fired, commands, task, process>>

JobEnds(n) ==
  /\ n \in working
  /\ working' = working \ {n}
  /\ UNCHANGED <<instances, bus, active, channels, jobs, starter, stopper, ready,
                 fired, commands, task, process>>

\* POST /{llming_id}/unload: deactivated and forgotten, and nothing else: the
\* scheduler, the bus, the channels and the commands keep it.
Unload(n) ==
  /\ Unloads /\ starter.at = "up" /\ stopper.at = "idle" /\ n \in Range(instances)
  /\ instances' = SelectSeq(instances, LAMBDA m : m # n)
  /\ active' = IF n \in Proxy THEN active ELSE active \ {n}
  /\ UNCHANGED <<bus, channels, jobs, working, starter, stopper, ready, fired,
                 commands, task, process>>

-----------------------------------------------------------------------------
(* Shutdown                                                                *)

Stop ==
  /\ starter.at = "up" /\ stopper.at = "idle"
  /\ stopper' = Iterating("stopping")
  /\ UNCHANGED <<instances, bus, active, channels, jobs, working, starter, ready,
                 fired, commands, task, process>>

\* The jobs that are left when n's scheduler was told to stop_all().
StopAll(n) == jobs \ {n}

\* Announced, stopped, deactivated, off the bus; named channels keep it.  A
\* proxy's deactivate() does nothing.
StopNext ==
  /\ stopper.at = "stopping" /\ ~Changed(stopper) /\ ~Finished(stopper)
  /\ LET n == instances[stopper.k]
     IN /\ jobs' = StopAll(n)
        /\ active' = active \ ({n} \ Proxy)
        /\ bus' = OffBus({n})
  /\ stopper' = [stopper EXCEPT !.k = @ + 1]
  /\ UNCHANGED <<instances, channels, working, starter, ready, fired, commands, task, process>>

\* A group that registered in between breaks the loop; the rest is not stopped.
StopEnds ==
  /\ stopper.at = "stopping" /\ (Changed(stopper) \/ Finished(stopper))
  /\ stopper' = [stopper EXCEPT !.at = IF Changed(stopper) THEN "broken" ELSE "stopped"]
  /\ UNCHANGED <<instances, bus, active, channels, jobs, working, starter, ready,
                 fired, commands, task, process>>

Startup  == Load \/ SpawnGroups \/ WireNext \/ WireBreaks \/ BuildCommands \/ FireReady \/ StartTicks
GroupTask(g) == StartGroup(g) \/ Activate(g) \/ RegisterGroup(g)

Next ==
  \/ Startup \/ Stop \/ StopNext \/ StopEnds
  \/ \E g \in Group : GroupTask(g)
  \/ \E n \in Llming : JobStarts(n) \/ JobEnds(n) \/ Unload(n)

\* The event loop runs the start-up and every task it has created.
Spec == Init /\ [][Next]_vars /\ WF_vars(Startup) /\ \A g \in Group : WF_vars(GroupTask(g))

-----------------------------------------------------------------------------
(* Properties                                                              *)

\* An llming is started at most once, and every task and job is at one of its steps.
LlmingsTypeOK ==
  /\ instances \in Seq(Llming) /\ IsInjective(instances)
  /\ bus \subseteq Llming /\ active \subseteq Llming /\ channels \subseteq Llming
  /\ jobs \subseteq Range(Local) /\ working \subseteq Range(Local)
  /\ ready \subseteq Llming /\ fired \subseteq DOMAIN Waits /\ commands \subseteq Llming
  /\ {starter.at, stopper.at} \subseteq {"idle", "loaded", "wiring", "ready", "up",
                                         "failed", "stopping", "stopped", "broken"}
  /\ DOMAIN task = Group /\ process \subseteq Group

\* An activation that fails midway must not leave half a group reachable: until
\* the shutdown takes them off, a group's llmings are on the bus together or
\* not at all, whatever start-up and other groups do meanwhile.
GroupComesWhole ==
  stopper.at = "idle" =>
    \A g \in Group : Range(Member[g]) \subseteq bus \/ Range(Member[g]) \cap bus = {}

\* What unload_extension() promises: "Scheduler cleanup for Llming instances is
\* handled by stop_plugins()": no job is left once the shutdown has run through.
StopEndsJobs == stopper.at = "stopped" => jobs = {}

\* What @on_ready promises: "Call a method once when all listed llmings have
\* started."
OnReadyCalled ==
  \A n \in DOMAIN Waits :
    Met(n) ~> (n \in fired \/ starter.at = "failed")
=============================================================================
