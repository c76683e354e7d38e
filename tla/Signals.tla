------------------------------ MODULE Signals ------------------------------
(* Signals and the triggers that react to them (hort/signals/bus.py,         *)
(* engine.py, processors.py, models.py), with the watchers that emit them    *)
(* (watchers.py) and the screen watcher llming, which has the same loop.     *)
(* All run in one event loop: what lies between two awaits is not            *)
(* interrupted, so `busy` names the emitter in the middle of such a stretch. *)
EXTENDS Integers, Sequences

CONSTANTS
    Timer, Poller, Screen,  \* the emitters: TimerWatcher's schedules,
                            \* PollingWatchers, rules of the screen watcher
    Value,      \* what a polled value or a screen can be, and timers send
    Trigger,    \* the registered triggers, a sequence
    Hears,      \* per trigger, the emitters its pattern and source_filter match
    Wants,      \* per trigger, the values that meet its conditions
    Pipeline,   \* per trigger, "none", "debounce" or "aggregate"
    Cooldown,   \* per trigger, cooldown_seconds
    Window, Count, Idle,  \* window_seconds, count, idle_threshold
    MaxTime,    \* bound
    None

VARIABLES
    now,        \* time.monotonic()
    on,         \* the engine is subscribed
    job,        \* per emitter, where its loop is
    sig,        \* per emitter, the signal it emits or the value it has read
    rest,       \* per emitter, the triggers its signal has still to meet
    busy,       \* the emitter that holds the event loop
    world, last,  \* per emitter, what there is to see; last_hash, _last_value
    since, idle,  \* per screen rule: last_change_time, idle_emitted
    cooled,     \* TriggerEngine._cooldowns
    debounced, gathered,  \* _debounce_state, _aggregate_state, per source
    fired, starved  \* history: when a trigger last reacted; the triggers whose
                    \* debounce dropped a signal it was the first to meet

vars == <<now, on, job, sig, rest, busy, world, last, since, idle, cooled,
          debounced, gathered, fired, starved>>
seen == <<world, last, since, idle>>
engine == <<cooled, debounced, gathered, fired, starved>>

Emitter == Timer \cup Poller \cup Screen
Triggers == {Trigger[i] : i \in 1..Len(Trigger)}

(* What the constants have to be.                                            *)
SignalsAssumption == Trigger \in Seq(Triggers)

(* "{signal_type}:{source}"; a screen rule has a type for either signal.     *)
Key == (Emitter \ Screen) \X {None} \cup Screen \X {"changed", "idle"}
KeyOf(e) == <<e, IF e \in Screen THEN sig[e] ELSE None>>

Init ==
    /\ now = 0 /\ on = TRUE /\ busy = None
    /\ job = [e \in Emitter |-> "sleep"]
    /\ sig = [e \in Emitter |-> None]
    /\ rest = [e \in Emitter |-> << >>]
    /\ world \in [Emitter -> Value]
    /\ last = [e \in Emitter |-> None]
    /\ since = [e \in Screen |-> 0] /\ idle = [e \in Screen |-> FALSE]
    /\ cooled = [t \in Triggers |-> 0]
    /\ debounced = [k \in Key |-> 0]
    /\ gathered = [k \in Key |-> 0]
    /\ fired = [t \in Triggers |-> None]
    /\ starved = {}

Free(e) == busy \in {None, e}

(* SignalBus.emit(): the subscribers there are now, one after the other; the *)
(* first is a listener that takes its time, the engine may be the second.    *)
Emits(e, v) ==
    /\ sig' = [sig EXCEPT ![e] = v]
    /\ job' = [job EXCEPT ![e] = IF on THEN "listener" ELSE "last listener"]

(* TimerWatcher._loop.                                                       *)
Rings(e) ==
    /\ busy = None /\ e \in Timer /\ job[e] = "sleep"
    /\ \E v \in Value : Emits(e, v)
    /\ UNCHANGED <<now, on, rest, busy, seen, engine>>

(* A poller or a screen rule looks, in the executor.                         *)
Looks(e) ==
    /\ busy = None /\ e \notin Timer /\ job[e] = "sleep"
    /\ sig' = [sig EXCEPT ![e] = world[e]]
    /\ job' = [job EXCEPT ![e] = "look"]
    /\ UNCHANGED <<now, on, rest, busy, seen, engine>>

(* An exception of poll_fn ends PollingWatcher._loop; the screen watcher     *)
(* catches it, and treats a window that is gone in the same way.             *)
LookFails(e) ==
    /\ busy = None /\ job[e] = "look"
    /\ job' = [job EXCEPT ![e] = IF e \in Screen THEN "sleep" ELSE "dead"]
    /\ UNCHANGED <<now, on, sig, rest, busy, seen, engine>>

(* PollingWatcher._loop: a value that differs from the last is a signal.     *)
Compares(e) ==
    /\ busy = None /\ e \in Poller /\ job[e] = "look"
    /\ IF sig[e] = last[e]
         THEN job' = [job EXCEPT ![e] = "sleep"] /\ UNCHANGED <<sig, last>>
         ELSE last' = [last EXCEPT ![e] = sig[e]] /\ Emits(e, sig[e])
    /\ UNCHANGED <<now, on, rest, busy, world, since, idle, engine>>

(* ScreenWatcher._poll_once: a change is a signal, and the first look after  *)
(* idle_threshold without one is another.                                    *)
ScreenCompares(e) ==
    /\ busy = None /\ e \in Screen /\ job[e] = "look"
    /\ \/ /\ sig[e] # last[e]
          /\ last' = [last EXCEPT ![e] = sig[e]]
          /\ since' = [since EXCEPT ![e] = now]
          /\ idle' = [idle EXCEPT ![e] = FALSE]
          /\ Emits(e, "changed")
       \/ /\ sig[e] = last[e] /\ now - since[e] >= Idle /\ ~idle[e]
          /\ idle' = [idle EXCEPT ![e] = TRUE]
          /\ Emits(e, "idle")
          /\ UNCHANGED <<last, since>>
       \/ /\ sig[e] = last[e] /\ (now - since[e] < Idle \/ idle[e])
          /\ job' = [job EXCEPT ![e] = "sleep"]
          /\ UNCHANGED <<sig, last, since, idle>>
    /\ UNCHANGED <<now, on, rest, busy, world, engine>>

(* The listener is done: TriggerEngine._on_signal begins, also when the      *)
(* engine was stopped meanwhile, since emit() goes through a copy.           *)
Heard(e) ==
    /\ busy = None
    /\ \/ /\ job[e] = "last listener"
          /\ job' = [job EXCEPT ![e] = "sleep"]
          /\ UNCHANGED <<rest, busy>>
       \/ /\ job[e] = "listener"
          /\ job' = [job EXCEPT ![e] = "engine"]
          /\ rest' = [rest EXCEPT ![e] = Trigger]
          /\ busy' = e
    /\ UNCHANGED <<now, on, sig, seen, engine>>

(* _matches, source_filter, _check_conditions.                               *)
Meets(t, e) == e \in Hears[t] /\ sig[e] \in Wants[t]

(* _check_cooldown, before the pipeline runs.                                *)
Ready(t) == now - cooled[t] >= Cooldown[t]

(* run_pipeline: the processors keep their state per source, not per         *)
(* trigger.                                                                  *)
Passes(t, e) ==
    CASE Pipeline[t] = "debounce" -> now - debounced[KeyOf(e)] >= Window
      [] Pipeline[t] = "aggregate" -> gathered[KeyOf(e)] + 1 >= Count
      [] OTHER -> TRUE

Processed(t, e) ==
    /\ debounced' = [debounced EXCEPT ![KeyOf(e)] =
                       IF Pipeline[t] = "debounce" /\ Passes(t, e) THEN now ELSE @]
    /\ gathered' = [gathered EXCEPT ![KeyOf(e)] =
                      IF Pipeline[t] # "aggregate" THEN @
                      ELSE IF Passes(t, e) THEN 0 ELSE @ + 1]

Cooled_Once(t) == IF cooled[t] = 0 THEN [cooled EXCEPT ![t] = now] ELSE cooled
Cooled(t) == [cooled EXCEPT ![t] = now]

(* _on_signal for one trigger.  The reaction is awaited; between the check   *)
(* of the cooldown and its renewal nothing else runs.                        *)
Evaluates(e) ==
    /\ Free(e) /\ job[e] = "engine" /\ rest[e] # << >>
    /\ LET t == Head(rest[e]) IN
       IF Meets(t, e) /\ Ready(t)
         THEN /\ Processed(t, e)
              /\ starved' = IF /\ Pipeline[t] = "debounce" /\ ~Passes(t, e)
                               /\ now >= Window /\ fired[t] = None
                              THEN starved \cup {t} ELSE starved
              /\ IF Passes(t, e)
                   THEN /\ cooled' = Cooled(t)
                        /\ fired' = [fired EXCEPT ![t] = now]
                        /\ job' = [job EXCEPT ![e] = "reaction"]
                        /\ busy' = None
                   ELSE busy' = e /\ UNCHANGED <<cooled, fired, job>>
         ELSE busy' = e /\ UNCHANGED <<engine, job>>
    /\ rest' = [rest EXCEPT ![e] = Tail(@)]
    /\ UNCHANGED <<now, on, sig, seen>>

(* The handler returns, or raises, which is logged.                          *)
Reacted(e) ==
    /\ busy = None /\ job[e] = "reaction"
    /\ job' = [job EXCEPT ![e] = "engine"] /\ busy' = e
    /\ UNCHANGED <<now, on, sig, rest, seen, engine>>

Done(e) ==
    /\ Free(e) /\ job[e] = "engine" /\ rest[e] = << >>
    /\ job' = [job EXCEPT ![e] = "sleep"] /\ busy' = None
    /\ UNCHANGED <<now, on, sig, rest, seen, engine>>

(* stop() of a watcher cancels the loop where it waits, in the middle of an  *)
(* emit() too: the triggers left never meet the signal.                      *)
StopWatcher(e) ==
    /\ busy = None /\ job[e] # "dead"
    /\ job' = [job EXCEPT ![e] = "dead"] /\ rest' = [rest EXCEPT ![e] = << >>]
    /\ UNCHANGED <<now, on, sig, busy, seen, engine>>

StopEngine ==
    /\ busy = None /\ on /\ on' = FALSE
    /\ UNCHANGED <<now, job, sig, rest, busy, seen, engine>>

Changes(e) ==
    /\ busy = None /\ e \notin Timer
    /\ \E v \in Value \ {world[e]} : world' = [world EXCEPT ![e] = v]
    /\ UNCHANGED <<now, on, job, sig, rest, busy, last, since, idle, engine>>

Tick ==
    /\ busy = None /\ now < MaxTime /\ now' = now + 1
    /\ UNCHANGED <<on, job, sig, rest, busy, seen, engine>>

Next ==
    \/ \E e \in Emitter :
         \/ Rings(e) \/ Looks(e) \/ LookFails(e) \/ Compares(e) \/ ScreenCompares(e)
         \/ Heard(e) \/ Evaluates(e) \/ Reacted(e) \/ Done(e)
         \/ StopWatcher(e) \/ Changes(e)
    \/ StopEngine \/ Tick

Spec == Init /\ [][Next]_vars

-----------------------------------------------------------------------------
(* Type correctness.                                                         *)
SignalsTypeOK ==
    /\ now \in 0..MaxTime /\ on \in BOOLEAN /\ busy \in Emitter \cup {None}
    /\ \A e \in Emitter :
         /\ job[e] \in {"sleep", "look", "listener", "last listener", "engine",
                        "reaction", "dead"}
         /\ rest[e] # << >> => job[e] \in {"engine", "reaction"}
    /\ \A k \in Key : gathered[k] \in 0..(Count - 1) /\ debounced[k] <= now
    /\ starved \subseteq Triggers

(* Two reactions of a trigger are at least its cooldown apart, also when     *)
(* several emitters' signals meet it while a reaction is awaited.  About the *)
(* order of check, renewal and await in TriggerEngine._on_signal.            *)
CooldownKept ==
    \A e \in Emitter :
      (job[e] = "engine" /\ job'[e] = "reaction") =>
        LET t == Head(rest[e]) IN
        fired[t] = None \/ now - fired[t] >= Cooldown[t]

(* A debounced trigger that has not reacted yet reacts to the first signal   *)
(* it meets.  About the debounce processor.                                  *)
FirstGetsThrough == starved = {}
=============================================================================
