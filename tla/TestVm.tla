------------------------------- MODULE TestVm -------------------------------
(* The Azure VM that the peer2peer llming keeps for hole punch tests (llmings*)
(* /core/peer2peer/peer2peer.py, azure_vm.py).  Tools and chat commands      *)
(* create, start, stop and destroy it through the `az` program, several at a *)
(* time, while a job polls its state from another thread; all of them        *)
(* overwrite _vm_status, which dashboards see through the vault.             *)
EXTENDS Integers, Sequences

CONSTANTS
    Command,    \* tool calls and /vm commands, each carried out once
    MaxFailures \* bound: `az` calls that fail for no reason of the VM's

VARIABLES
    group,   \* the resource group: "none", "there" or "going"
    vm,      \* "none", "running" or "deallocated"
    shuts,   \* auto-shutdown is set
    status,  \* _vm_status: what vm is said to be
    state,   \* the vault's "state", as get_pulse() wrote it
    job,     \* per command and for the poll, the az calls it has left
    seen,    \* per command and for the poll, what get_status() read
    started, \* the commands that have begun
    failures

cloud == <<group, vm, shuts>>
vars == <<cloud, status, state, job, seen, started, failures>>

Caller == Command \cup {"poll"}
Known == {"none", "running", "deallocated"}

Init ==
    /\ group \in {"none", "there"} /\ shuts \in BOOLEAN
    /\ vm \in IF group = "none" THEN {"none"} ELSE Known
    /\ status = "none" /\ state = "none"
    /\ job = [c \in Caller |-> << >>] /\ seen = [c \in Caller |-> "none"]
    /\ started = {} /\ failures = 0

(* The az calls of a command; each ends with get_status(), but for destroy,  *)
(* which is told not to wait.                                                *)
Calls(op) ==
    CASE op = "create" -> <<"group", "create", "shutdown", "show", "assign">>
      [] op = "start" -> <<"start", "show", "assign">>
      [] op = "stop" -> <<"deallocate", "show", "assign">>
      [] op = "destroy" -> <<"delete", "forget">>
      [] op = "status" -> <<"show", "assign">>

(* execute_power() and _cmd_vm(): /vm create looks at `az account` first.    *)
Begin(c) ==
    /\ c \notin started /\ started' = started \cup {c}
    /\ \/ \E op \in {"create", "start", "stop", "destroy", "status"} :
            job' = [job EXCEPT ![c] = Calls(op)]
       \/ UNCHANGED job
    /\ UNCHANGED <<cloud, status, state, seen, failures>>

(* The interval job check_vm_status(), in an executor thread.                *)
Poll ==
    /\ job["poll"] = << >> /\ job' = [job EXCEPT !["poll"] = <<"show", "assign", "tell">>]
    /\ UNCHANGED <<cloud, status, state, seen, started, failures>>

Is(c, call) == job[c] # << >> /\ Head(job[c]) = call
Continues(c) == job' = [job EXCEPT ![c] = Tail(@)]

(* `az` fails: the network, a quota, the login.  Only create looks at the    *)
(* code of `vm create`, and ends; show takes a failure for an absent VM.     *)
AzFails(c) ==
    /\ failures < MaxFailures /\ failures' = failures + 1
    /\ job[c] # << >> /\ Head(job[c]) \notin {"assign", "tell", "forget"}
    /\ job' = [job EXCEPT ![c] = IF Head(@) = "create" THEN << >> ELSE Tail(@)]
    /\ seen' = [seen EXCEPT ![c] = IF Is(c, "show") THEN "none" ELSE @]
    /\ UNCHANGED <<cloud, status, state, started>>

(* ensure_resource_group(): a group that is being deleted is still shown.    *)
Group(c) ==
    /\ Is(c, "group") /\ Continues(c)
    /\ group' = IF group = "none" THEN "there" ELSE group
    /\ UNCHANGED <<vm, shuts, status, state, seen, started, failures>>

(* `vm create`, also of a VM that exists; the ports are opened after it.     *)
Create(c) ==
    /\ Is(c, "create")
    /\ IF group = "there" THEN vm' = "running" /\ Continues(c)
       ELSE job' = [job EXCEPT ![c] = << >>] /\ UNCHANGED vm
    /\ UNCHANGED <<group, shuts, status, state, seen, started, failures>>

Shutdown(c) ==
    /\ Is(c, "shutdown") /\ Continues(c)
    /\ shuts' = (vm # "none" \/ shuts)
    /\ UNCHANGED <<group, vm, status, state, seen, started, failures>>

Power(c) ==
    /\ Is(c, "start") \/ Is(c, "deallocate")
    /\ vm' = IF vm = "none" THEN vm ELSE IF Is(c, "start") THEN "running" ELSE "deallocated"
    /\ Continues(c)
    /\ UNCHANGED <<group, shuts, status, state, seen, started, failures>>

(* `group delete --no-wait`: accepted.                                       *)
Destroy(c) ==
    /\ Is(c, "delete") /\ Continues(c)
    /\ group' = IF group = "there" THEN "going" ELSE group
    /\ UNCHANGED <<vm, shuts, status, state, seen, started, failures>>

(* The outcome is forgotten with the VM, whether the delete was accepted or  *)
(* not.                                                                      *)
Forget(c) ==
    /\ Is(c, "forget") /\ Continues(c) /\ status' = "none"
    /\ UNCHANGED <<cloud, state, seen, started, failures>>

Show(c) ==
    /\ Is(c, "show") /\ Continues(c)
    /\ seen' = [seen EXCEPT ![c] = vm]
    /\ UNCHANGED <<cloud, status, state, started, failures>>

Assign(c) ==
    /\ Is(c, "assign") /\ Continues(c) /\ status' = seen[c]
    /\ UNCHANGED <<cloud, state, seen, started, failures>>

Pulse_Grown == IF status = "none" THEN state ELSE status

(* get_pulse() into the vault; a STUN discovery writes it too.               *)
Pulse == status

Tell(c) ==
    /\ Is(c, "tell") /\ Continues(c) /\ state' = Pulse
    /\ UNCHANGED <<cloud, status, seen, started, failures>>

Discover ==
    /\ state' = Pulse
    /\ UNCHANGED <<cloud, status, job, seen, started, failures>>

(* Azure deletes, and shuts down at midnight.                                *)
Deleted ==
    /\ group = "going" /\ group' = "none" /\ vm' = "none" /\ shuts' = FALSE
    /\ UNCHANGED <<status, state, job, seen, started, failures>>

Midnight ==
    /\ shuts /\ vm = "running" /\ vm' = "deallocated"
    /\ UNCHANGED <<group, shuts, status, state, job, seen, started, failures>>

Step(c) ==
    \/ Group(c) \/ Create(c) \/ Shutdown(c) \/ Power(c) \/ Destroy(c)
    \/ Forget(c) \/ Show(c) \/ Assign(c) \/ Tell(c)

Next ==
    \/ \E c \in Command : Begin(c)
    \/ \E c \in Caller : Step(c) \/ AzFails(c)
    \/ Poll \/ Discover \/ Deleted \/ Midnight

(* `az` calls end, the job's interval comes round, and Azure finishes what   *)
(* it accepted.                                                              *)
Fairness ==
    /\ \A c \in Caller : WF_vars(Step(c))
    /\ WF_vars(Poll) /\ WF_vars(Deleted) /\ WF_vars(Midnight)

Spec == Init /\ [][Next]_vars /\ Fairness

-----------------------------------------------------------------------------
(* Type correctness.                                                         *)
TestVmTypeOK ==
    /\ group \in {"none", "there", "going"} /\ shuts \in BOOLEAN
    /\ {vm, status, state} \subseteq Known
    /\ \A c \in Caller : seen[c] \in Known /\ Len(job[c]) <= 5
    /\ group = "none" => vm = "none"

ShownAsItIs == state = vm

(* Whatever commands overlapped, failed or overwrote each other's answer,    *)
(* the dashboard ends up showing the VM as it is.  About _vm_status, which   *)
(* commands and the polling thread all write.                                *)
DashboardCatchesUp == <>[]ShownAsItIs
=============================================================================
