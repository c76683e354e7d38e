------------------------------ MODULE MCDevices -------------------------------
(***************************************************************************)
(* Small instances, for TLC, of the devices that a session watches and of  *)
(* the cloud VM, with the fairness under which they make progress.  They   *)
(* share no state: a behaviour of this module is one of a single           *)
(* component.                                                              *)
(***************************************************************************)
EXTENDS Naturals, TLC

CONSTANTS m1, m2, m3, m4, None

VARIABLES
  part,  \* the component this behaviour is one of
  v1, v2, v3, v4, v5, v6, v7, v8, v9, v10, v11, v12, v13, v14, v15, v16, v17, v18, v19

all == <<part, v1, v2, v3, v4, v5, v6, v7, v8, v9, v10, v11, v12, v13, v14, v15, v16,
          v17, v18, v19>>

\* A behaviour is of one component, which has the first n variables; the others rest.
Is(p) == part = p

Unused(n) ==
  /\ (n < 10 => v10 = 0) /\ (n < 11 => v11 = 0) /\ (n < 12 => v12 = 0) /\ (n < 13 => v13 = 0)
  /\ (n < 14 => v14 = 0) /\ (n < 15 => v15 = 0) /\ (n < 16 => v16 = 0) /\ (n < 17 => v17 = 0)
  /\ (n < 18 => v18 = 0) /\ (n < 19 => v19 = 0)

Resting(n) ==
  /\ part' = part
  /\ (n < 10 => v10' = v10) /\ (n < 11 => v11' = v11) /\ (n < 12 => v12' = v12)
  /\ (n < 13 => v13' = v13) /\ (n < 14 => v14' = v14) /\ (n < 15 => v15' = v15)
  /\ (n < 16 => v16' = v16) /\ (n < 17 => v17' = v17) /\ (n < 18 => v18' = v18)
  /\ (n < 19 => v19' = v19)

-------------------------------------------------------------------------------
St == INSTANCE Streaming WITH Stream <- 1..2, Window <- {m3}, Camera <- {},
  Target <- {m4}, Owner <- (m3 :> m4), MaxUnacked <- 1, MaxChanges <- 1, Video <- FALSE,
  Failing <- TRUE, ws <- v1, config <- v2, onTarget <- v3, owner <- v4, target <- v5,
  win <- v6, prov <- v7, busy <- v8, changes <- v9, pc <- v10, open <- v11, got <- v12,
  codec <- v13, src <- v14, unacked <- v15, age <- v16, queue <- v17, windows <- v18,
  on <- v19

Vi == INSTANCE Streaming WITH Stream <- {1}, Window <- {m3}, Camera <- {m1},
  Target <- {m4}, Owner <- (m3 :> m4), MaxUnacked <- 1, MaxChanges <- 2, Video <- TRUE,
  Failing <- TRUE, ws <- v1, config <- v2, onTarget <- v3, owner <- v4, target <- v5,
  win <- v6, prov <- v7, busy <- v8, changes <- v9, pc <- v10, open <- v11, got <- v12,
  codec <- v13, src <- v14, unacked <- v15, age <- v16, queue <- v17, windows <- v18,
  on <- v19

Ca == INSTANCE Cameras WITH Native <- {m1}, Browser <- {}, MaxViews <- 2,
  MaxOffers <- 1, MaxRestarts <- 1, plugged <- v1, known <- v2, sess <- v3, ref <- v4,
  idle <- v5, orphan <- v6, wanted <- v7, policy <- v8, saved <- v9, views <- v10,
  disc <- v11, offers <- v12, feeds <- v13, mine <- v14, restarts <- v15

Br == INSTANCE Cameras WITH Native <- {}, Browser <- {m2}, MaxViews <- 2,
  MaxOffers <- 2, MaxRestarts <- 1, plugged <- v1, known <- v2, sess <- v3, ref <- v4,
  idle <- v5, orphan <- v6, wanted <- v7, policy <- v8, saved <- v9, views <- v10,
  disc <- v11, offers <- v12, feeds <- v13, mine <- v14, restarts <- v15

Vm == INSTANCE TestVm WITH Command <- {m1, m2}, MaxFailures <- 1, group <- v1, vm <- v2,
  shuts <- v3, status <- v4, state <- v5, job <- v6, seen <- v7, started <- v8,
  failures <- v9

\* The constants of every component are as it assumes.
ASSUME MCDevicesAssumption ==
  /\ St!StreamingAssumption /\ Vi!StreamingAssumption
  /\ Ca!CamerasAssumption /\ Br!CamerasAssumption

-------------------------------------------------------------------------------
Init ==
  \/ Is("stream")  /\ St!Init /\ Unused(19)
  \/ Is("video")   /\ Vi!Init /\ Unused(19)
  \/ Is("cameras") /\ Ca!Init /\ Unused(15)
  \/ Is("browser") /\ Br!Init /\ Unused(15)
  \/ Is("vm")      /\ Vm!Init /\ Unused(9)

Next ==
  \/ Is("stream")  /\ St!Next /\ Resting(19)
  \/ Is("video")   /\ Vi!Next /\ Resting(19)
  \/ Is("cameras") /\ Ca!Next /\ Resting(15)
  \/ Is("browser") /\ Br!Next /\ Resting(15)
  \/ Is("vm")      /\ Vm!Next /\ Resting(9)

\* The fairness of each component, as its module states it.
Fairness ==
  /\ WF_all(Is("video") /\ Vi!Loop(1) /\ Resting(19))
  /\ WF_all(Is("video") /\ Vi!Sends(1) /\ Resting(19))
  /\ WF_all(Is("video") /\ Vi!Ages(1) /\ Resting(19))
  /\ \A s \in 1..2 :
       /\ WF_all(Is("stream") /\ St!Loop(s) /\ Resting(19))
       /\ WF_all(Is("stream") /\ St!Sends(s) /\ Resting(19))
       /\ WF_all(Is("stream") /\ St!Ages(s) /\ Resting(19))
  /\ WF_all(Is("cameras") /\ Ca!Discovery(m1) /\ Resting(15))
  /\ \A u \in Vm!Caller : WF_all(Is("vm") /\ Vm!Step(u) /\ Resting(9))
  /\ WF_all(Is("vm") /\ Vm!Poll /\ Resting(9))
  /\ WF_all(Is("vm") /\ Vm!Deleted /\ Resting(9))
  /\ WF_all(Is("vm") /\ Vm!Midnight /\ Resting(9))

Spec == Init /\ [][Next]_all /\ Fairness

-------------------------------------------------------------------------------
\* The state of every component has its shape, whatever happens to it.
TypesOK ==
  /\ Is("stream")  => St!StreamingTypeOK
  /\ Is("video")   => Vi!StreamingTypeOK
  /\ Is("cameras") => Ca!CamerasTypeOK
  /\ Is("browser") => Br!CamerasTypeOK
  /\ Is("vm")      => Vm!TestVmTypeOK

\* "auto-recovery": whatever acknowledgements are lost and whatever other streams the
\* session has, a stream that stays asked for goes on sending (stream.py).
StreamGoesOn ==
  /\ \A s \in 1..2 : []<><<Is("stream") /\ St!Sends(s)>>_all
                     \/ []<>~(Is("stream") /\ St!Streaming(s))
  /\ []<><<Is("video") /\ Vi!Sends(1)>>_all \/ []<>~(Is("video") /\ Vi!Streaming(1))

\* A camera that is wanted and stays there is captured again and again, whoever
\* watches, unplugs, restarts or lets it idle (camera.py).
WantedComesBack ==
  []<>(Is("cameras") => Ca!NotMissed(m1))

\* Whatever commands overlapped, failed or overwrote each other's answer, the
\* dashboard ends up showing the VM as it is (llmings/core/peer2peer).
DashboardCatchesUp == <>[](Is("vm") => Vm!ShownAsItIs)

===============================================================================
