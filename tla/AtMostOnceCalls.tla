--------------------------- MODULE AtMostOnceCalls ---------------------------
(***************************************************************************)
(* What a call that is relayed to another process promises its caller:     *)
(* GroupProcess.request (hort/lifecycle/llming_process.py) and             *)
(* HostTunnel.proxy_request (hort/access/server.py).  It runs at most once *)
(* there, whatever becomes of the connection; its caller hears exactly one *)
(* outcome; and an answer means that it did run.  A caller that hears of a *)
(* failure cannot tell whether the call has run, will run, or never will.  *)
(***************************************************************************)
EXTENDS Naturals

CONSTANT Msg

VARIABLES status, runs

InitCalls == /\ status = [m \in Msg |-> "idle"]
             /\ runs = [m \in Msg |-> 0]

Issue(m) == /\ status[m] = "idle"
            /\ status' = [status EXCEPT ![m] = "waiting"]
            /\ UNCHANGED runs

Refuse(m) == /\ status[m] = "idle"
             /\ status' = [status EXCEPT ![m] = "failed"]
             /\ UNCHANGED runs

Run(m) == /\ status[m] # "idle"
          /\ runs[m] = 0
          /\ runs' = [runs EXCEPT ![m] = 1]
          /\ UNCHANGED status

Answer(m) == /\ status[m] = "waiting"
             /\ runs[m] = 1
             /\ status' = [status EXCEPT ![m] = "answered"]
             /\ UNCHANGED runs

Fail(m) == /\ status[m] = "waiting"
           /\ status' = [status EXCEPT ![m] = "failed"]
           /\ UNCHANGED runs

NextCalls == \E m \in Msg : Issue(m) \/ Refuse(m) \/ Run(m) \/ Answer(m) \/ Fail(m)

Calls == InitCalls /\ [][NextCalls]_<<status, runs>>

=============================================================================
