------------------------------ MODULE Cameras ------------------------------
(***************************************************************************)
(* The camera llming: CameraProvider and its capture sessions              *)
(* (llmings/core/llming_cam/camera.py), the powers that set policies and   *)
(* the state they persist (llming_cam.py), and the cameras a browser       *)
(* offers and uploads (hort/controller.py, hort/app.py,                    *)
(* hort/media_browser_cam.py).                                             *)
(*                                                                         *)
(* Everything but discovery runs on the event loop; discovery is a thread  *)
(* that works on the same dictionaries.                                    *)
(***************************************************************************)
EXTENDS Integers, FiniteSets

CONSTANTS Native, Browser,  \* the sources: cameras of the host, and of a browser
          MaxViews,         \* bound: streams that watch one camera
          MaxOffers,        \* bound: times the browser offers its camera
          MaxRestarts       \* bound: restarts of the host

\* What the constants have to be.
CamerasAssumption ==
  /\ Cardinality(Native) <= 1  \* the thread treats each camera on its own
  /\ Native \cap Browser = {} /\ {MaxViews, MaxOffers, MaxRestarts} \subseteq Nat

VARIABLES
  plugged,   \* the native cameras that are there
  known,     \* _cached_sources
  sess,      \* _sessions: no entry, one that has stopped, one that captures
  ref,       \* its ref_count
  idle,      \* its last_access: just now, 10 s ago, 30 s ago
  orphan,    \* cameras captured by a session that is in no dictionary
  wanted,    \* _wanted
  policy,    \* _policies; "unset" without an entry
  saved,     \* the vault's wanted_cameras
  views,     \* streams that watch the camera
  disc,      \* the discovery thread
  offers, feeds, mine,  \* browser: offers made, upload sockets by offer, the session's offer
  restarts

capture == <<sess, ref, idle, orphan>>
rules   == <<wanted, policy>>
uploads == <<offers, feeds, mine>>
vars == <<plugged, known, capture, rules, saved, views, disc, uploads, restarts>>

Source == Native \cup Browser

NothingRuns(s, r, i, o, w, p, v) ==
  /\ s = [c \in Source |-> "none"] /\ r = [c \in Source |-> 0] /\ i = [c \in Source |-> 0]
  /\ o = {} /\ w = {} /\ p = [c \in Source |-> "unset"] /\ v = [c \in Source |-> 0]

Init ==
  /\ NothingRuns(sess, ref, idle, orphan, wanted, policy, views)
  /\ plugged = Native /\ known = {} /\ saved = [ids |-> {}, policies |-> policy]
  /\ disc = "enumerate" /\ restarts = 0
  /\ offers = 0 /\ feeds = {} /\ mine = 0

\* The policy in force: a camera somebody wants is on without being set so.
Policy(c) == IF policy[c] # "unset" THEN policy[c] ELSE IF c \in wanted THEN "on" ELSE "off"

\* A capture can be opened on a device that is there.
Opens(c) == c \in plugged

\* A capture session is opened for c; one that still captures is forgotten.
Opened(c) ==
  /\ orphan' = IF sess[c] = "on" THEN orphan \cup {c} ELSE orphan
  /\ sess' = [sess EXCEPT ![c] = "on"] /\ ref' = [ref EXCEPT ![c] = 1]
  /\ idle' = [idle EXCEPT ![c] = 0]

\* A session that stops is left in the dictionary, or taken out of it.
Stopped(c, left) ==
  /\ sess' = [sess EXCEPT ![c] = left]
  /\ ref' = [ref EXCEPT ![c] = 0] /\ idle' = [idle EXCEPT ![c] = 0]
  /\ UNCHANGED orphan

-----------------------------------------------------------------------------
(* Starting, stopping and capturing                                        *)

StartSource(c) ==
  /\ policy' = IF Policy(c) = "off" THEN [policy EXCEPT ![c] = "on"] ELSE policy
  /\ wanted' = wanted \cup {c}
  /\ IF sess[c] = "on"
     THEN ref[c] <= MaxViews /\ ref' = [ref EXCEPT ![c] = @ + 1] /\ UNCHANGED <<sess, idle, orphan>>
     ELSE IF Opens(c) THEN Opened(c) ELSE UNCHANGED capture

\* Mutant: the reference count is lowered also when nobody holds a reference.
StopSource_NoFloor(c, p) ==
  /\ wanted' = wanted \ {c}
  /\ policy' = [policy EXCEPT ![c] = IF p = "on" THEN "auto" ELSE p]
  /\ IF sess[c] = "none" THEN UNCHANGED capture
     ELSE IF ref[c] = 1 THEN Stopped(c, "none")
     ELSE ref' = [ref EXCEPT ![c] = @ - 1] /\ UNCHANGED <<sess, idle, orphan>>

\* A stop takes the wish and the policy back, also when others still watch.
StopSource(c, p) ==
  /\ wanted' = wanted \ {c}
  /\ policy' = [policy EXCEPT ![c] = IF p = "on" THEN "auto" ELSE p]
  /\ IF sess[c] = "none" THEN UNCHANGED capture
     ELSE IF ref[c] <= 1 THEN Stopped(c, "none")
     ELSE ref' = [ref EXCEPT ![c] = @ - 1] /\ UNCHANGED <<sess, idle, orphan>>

Persisted == saved' = [ids |-> wanted', policies |-> policy']

\* The start_camera and stop_camera powers.
StartCamera(c) ==
  /\ c \in Native /\ StartSource(c) /\ Persisted
  /\ UNCHANGED <<plugged, known, views, disc, uploads, restarts>>

StopCamera(c) ==
  /\ StopSource(c, policy[c]) /\ Persisted
  /\ UNCHANGED <<plugged, known, views, disc, uploads, restarts>>

\* A stream turns to the camera, and away from it; nothing is persisted.
Watch(c) ==
  /\ views[c] < MaxViews /\ views' = [views EXCEPT ![c] = @ + 1]
  /\ StartSource(c)
  /\ UNCHANGED <<plugged, known, saved, disc, uploads, restarts>>

Unwatch(c) ==
  /\ views[c] > 0 /\ views' = [views EXCEPT ![c] = @ - 1]
  /\ StopSource(c, policy[c])
  /\ UNCHANGED <<plugged, known, saved, disc, uploads, restarts>>

\* capture_frame(): opens a camera that is not active for one frame, without wanting it.
Capture(c) ==
  /\ Policy(c) # "off"
  /\ IF sess[c] = "on" THEN idle' = [idle EXCEPT ![c] = 0] /\ UNCHANGED <<sess, ref, orphan>>
     ELSE Opens(c) /\ Opened(c)
  /\ UNCHANGED <<plugged, known, rules, saved, views, disc, uploads, restarts>>

\* set_camera_policy: "auto" and "off" stop the camera once, whoever watches it.
SetPolicy(c, p) ==
  /\ IF p = "on"
     THEN /\ policy' = [policy EXCEPT ![c] = p] /\ wanted' = wanted \cup {c}
          /\ IF sess[c] = "on"
             THEN ref[c] <= MaxViews /\ ref' = [ref EXCEPT ![c] = @ + 1] /\ UNCHANGED <<sess, idle, orphan>>
             ELSE IF Opens(c) THEN Opened(c) ELSE UNCHANGED capture
     ELSE IF p = "auto" /\ sess[c] # "on"
          THEN /\ policy' = [policy EXCEPT ![c] = p] /\ wanted' = wanted \ {c}
               /\ UNCHANGED capture
          ELSE StopSource(c, p)
  /\ Persisted
  /\ UNCHANGED <<plugged, known, views, disc, uploads, restarts>>

-----------------------------------------------------------------------------
(* The discovery thread                                                    *)

\* One enumeration: a wanted camera that has appeared is started, one that has gone
\* is stopped and stays wanted.
Enumerate(c) ==
  /\ disc = "enumerate" /\ disc' = "reconnect"
  /\ known' = plugged
  /\ IF c \in (plugged \ known) \cap wanted
     THEN Opened(c) \/ (sess[c] = "on" /\ UNCHANGED capture)  \* busy, on some systems
     ELSE IF c \in known \ plugged /\ sess[c] = "on" THEN Stopped(c, "stopped")
     ELSE UNCHANGED capture
  /\ UNCHANGED <<plugged, rules, saved, views, uploads, restarts>>

\* Mutant: a session that has stopped by itself is not looked at.
Dropped_Absent(c) == c \in wanted /\ c \in known /\ sess[c] = "none"

\* A wanted camera without a session, or whose session has stopped.
Dropped(c) == c \in wanted /\ (sess[c] = "stopped" \/ (c \in known /\ sess[c] = "none"))

\* The stopped session is taken out before the new one opens.
TakesOut(c) ==
  /\ disc = "reconnect" /\ Dropped(c)
  /\ disc' = "open" /\ sess' = [sess EXCEPT ![c] = "none"]
  /\ UNCHANGED <<plugged, known, ref, idle, orphan, rules, saved, views, uploads, restarts>>

Reopens(c) ==
  /\ disc = "open" /\ disc' = "cleanup"
  /\ IF c \in known /\ Opens(c) THEN Opened(c) ELSE UNCHANGED capture
  /\ UNCHANGED <<plugged, known, rules, saved, views, uploads, restarts>>

NothingDropped(c) ==
  /\ disc = "reconnect" /\ ~Dropped(c) /\ disc' = "cleanup"
  /\ UNCHANGED <<plugged, known, capture, rules, saved, views, uploads, restarts>>

\* cleanup_idle: ten seconds for a transient camera, thirty for one nobody refers to.
CleanupIdle(c) ==
  /\ disc = "cleanup" /\ disc' = "enumerate"
  /\ IF /\ sess[c] = "on"
        /\ IF Policy(c) = "auto" /\ c \notin wanted THEN idle[c] >= 1
           ELSE ref[c] = 0 /\ idle[c] = 2
     THEN Stopped(c, "none") ELSE UNCHANGED capture
  /\ UNCHANGED <<plugged, known, rules, saved, views, uploads, restarts>>

Discovery(c) == Enumerate(c) \/ TakesOut(c) \/ Reopens(c) \/ NothingDropped(c) \/ CleanupIdle(c)

TimePasses(c) ==
  /\ sess[c] = "on" /\ idle[c] < 2 /\ idle' = [idle EXCEPT ![c] = @ + 1]
  /\ UNCHANGED <<plugged, known, sess, ref, orphan, rules, saved, views, disc, uploads, restarts>>

\* A hundred and fifty reads have failed.
CaptureDies(c) ==
  /\ c \in Native /\ sess[c] = "on" /\ sess' = [sess EXCEPT ![c] = "stopped"]
  /\ UNCHANGED <<plugged, known, ref, idle, orphan, rules, saved, views, disc, uploads, restarts>>

Plug(c) ==
  /\ plugged' = IF c \in plugged THEN plugged \ {c} ELSE plugged \cup {c}
  /\ UNCHANGED <<known, capture, rules, saved, views, disc, uploads, restarts>>

-----------------------------------------------------------------------------
(* Browser cameras                                                         *)

\* camera_offer: a session of its own, in the place of any there was.
Offer(b) ==
  /\ offers < MaxOffers /\ offers' = offers + 1 /\ mine' = offers'
  /\ sess' = [sess EXCEPT ![b] = "on"] /\ ref' = [ref EXCEPT ![b] = 1]
  /\ UNCHANGED <<plugged, known, idle, orphan, rules, saved, views, disc, feeds, restarts>>

\* The upload socket of an offer; its end stops whatever session the source has then.
Upload(b) ==
  /\ sess[b] = "on" /\ mine \notin feeds /\ feeds' = feeds \cup {mine}
  /\ UNCHANGED <<plugged, known, capture, rules, saved, views, disc, offers, mine, restarts>>

UploadEnds(b, o) ==
  /\ o \in feeds /\ feeds' = feeds \ {o}
  /\ Stopped(b, "none")
  /\ UNCHANGED <<plugged, known, rules, saved, views, disc, offers, mine, restarts>>

\* camera_stop, a stop by policy, and the end of the viewer's control connection.
Withdraw(b) ==
  /\ sess[b] # "none" /\ Stopped(b, "none")
  /\ UNCHANGED <<plugged, known, rules, saved, views, disc, uploads, restarts>>

\* "on" and "off" for a browser camera: the browser is told, and offers, or not.
BrowserPolicy(b, p) ==
  /\ policy' = [policy EXCEPT ![b] = p]
  /\ IF p = "on" THEN UNCHANGED <<wanted, capture>>
     ELSE wanted' = wanted \ {b} /\ Stopped(b, "none")
  /\ Persisted
  /\ UNCHANGED <<plugged, known, views, disc, uploads, restarts>>

\* The host starts again: policies come back, then the cameras that were wanted or on.
Restart(c) ==
  /\ restarts < MaxRestarts /\ restarts' = restarts + 1
  /\ disc' = "enumerate" /\ known' = {} /\ feeds' = {} /\ views' = [x \in Source |-> 0]
  /\ LET start == c \in saved.ids \/ saved.policies[c] = "on" IN
     /\ wanted' = IF start THEN {c} ELSE {}
     /\ policy' = IF start /\ saved.policies[c] \in {"off", "unset"}
                  THEN [saved.policies EXCEPT ![c] = "on"] ELSE saved.policies
     /\ sess' = [x \in Source |-> IF x = c /\ start /\ Opens(c) THEN "on" ELSE "none"]
     /\ ref'  = [x \in Source |-> IF sess'[x] = "on" THEN 1 ELSE 0]
  /\ idle' = [x \in Source |-> 0] /\ orphan' = {}
  /\ UNCHANGED <<plugged, saved, offers, mine>>

Next ==
  \/ \E c \in Native :
       \/ StartCamera(c) \/ StopCamera(c) \/ Capture(c) \/ Plug(c) \/ CaptureDies(c)
       \/ TimePasses(c) \/ Restart(c) \/ Discovery(c)
       \/ \E p \in {"on", "auto", "off"} : SetPolicy(c, p)
  \/ \E c \in Source : Watch(c) \/ Unwatch(c)
  \/ \E b \in Browser :
       \/ Offer(b) \/ Upload(b) \/ Withdraw(b) \/ \E o \in feeds : UploadEnds(b, o)
       \/ \E p \in {"on", "auto", "off"} : BrowserPolicy(b, p)

\* The thread goes round every five seconds.
Spec == Init /\ [][Next]_vars /\ \A c \in Native : WF_vars(Discovery(c))

-----------------------------------------------------------------------------
(* Properties                                                              *)

\* Discovery, sessions and wishes name devices and sources only.
CamerasTypeOK ==
  /\ {plugged, known} \subseteq SUBSET Native /\ {wanted, orphan} \subseteq SUBSET Source
  /\ sess \in [Source -> {"none", "stopped", "on"}] /\ ref \in [Source -> 0..MaxViews + 1]
  /\ idle \in [Source -> 0..2] /\ policy \in [Source -> {"unset", "off", "on", "auto"}]
  /\ saved.ids \subseteq Source /\ views \in [Source -> 0..MaxViews]
  /\ disc \in {"enumerate", "reconnect", "open", "cleanup"}
  /\ offers \in 0..MaxOffers /\ feeds \subseteq 1..MaxOffers /\ mine \in 0..MaxOffers

NotMissed(c) == c \notin wanted \/ c \notin plugged \/ sess[c] = "on"

\* "Cameras that were active and got disconnected are auto-restarted when they
\* reappear": a wanted camera that stays there is captured again and again.
WantedComesBack ==
  \A c \in Native : []<>NotMissed(c)

\* "off" is "disabled, nobody can use it".
OffIsOff == \A c \in Native : policy[c] = "off" => sess[c] # "on" /\ c \notin orphan
=============================================================================
