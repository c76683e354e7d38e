--------------------------- MODULE RelaySessions ---------------------------
(***************************************************************************)
(* Remote viewers come in through a mailbox at a relay                     *)
(* (hort/peer2peer/relay_poller.py, started by the peer2peer llming).  A   *)
(* paired device (device_tokens.py) asks for a link; the poller posts one  *)
(* with a fresh token (relay_listener.py, TokenStore) and waits for the    *)
(* viewer's offer; an offer with a valid token becomes a WebRTC session.   *)
(* Everything runs on one event loop; an action is the code between awaits.*)
(***************************************************************************)
EXTENDS Naturals, Sequences, FiniteSets, Functions

CONSTANTS
  Device,   \* hashes of device tokens
  Link,     \* listen_for_sdp_once tasks, each with the token of its link
  Offer,    \* SDP offers of viewers, each the start of one session
  MaxFailures, \* MAX_FAILURES_BEFORE_BACKOFF
  None

\* What the constants have to be.
RelaySessionsAssumption ==
  MaxFailures \in Nat /\ None \notin Device \cup Link \cup Offer /\ "loop" \notin Link

VARIABLES
  running,  \* _running, with _http
  paired,   \* device hashes in the store
  pending,  \* mailbox: devices that ask for a link
  inbox,    \* mailbox: offers that nobody has fetched
  asks,     \* [Link -> "idle", "poll", "auth", "clean", "accept" or "done"]
  batch,    \* [Link -> offers it has fetched]
  token,    \* [Link -> "none", "valid", "expired"]
  carries,  \* [Offer -> the link or earlier offer whose token it carries, or None]
  reconnect,\* offers whose session has a valid reconnect token
  failures, \* TokenStore._failures, up to MaxFailures
  pc,       \* [Offer -> connectionState]
  told,     \* offers whose on_state_change is due
  sessions, \* _sessions
  finishing,\* offers whose _finish_session is under way
  dead,     \* [Cleaner -> sessions _cleanup_dead_sessions has yet to close]
  closing,  \* offers whose _close_session is awaited
  loop      \* the _cleanup_loop task: "off", "sleep", "clean", "failed", "stopped"

mailVars  == <<paired, pending, inbox>>
authVars  == <<token, carries, reconnect, failures>>
taskVars  == <<asks, batch>>
cleanVars == <<dead, closing, loop>>
vars == <<running, mailVars, taskVars, authVars, pc, told, sessions, finishing, cleanVars>>

Loop == "loop"
Cleaner == Link \cup {Loop}
Gone == {"disconnected", "failed", "closed"}

-----------------------------------------------------------------------------
(* The poller                                                              *)

Start ==
  /\ ~running /\ loop = "off"
  /\ running' = TRUE /\ loop' = "sleep"
  /\ UNCHANGED <<mailVars, taskVars, authVars, pc, told, sessions, finishing, dead, closing>>

\* DeviceTokenStore.create and revoke (the commands /pair and /devices)
Pair(d)   == /\ paired' = paired \cup {d}
             /\ UNCHANGED <<running, pending, inbox, taskVars, authVars, pc, told, sessions, finishing, cleanVars>>
Revoke(d) == /\ paired' = paired \ {d}
             /\ UNCHANGED <<running, pending, inbox, taskVars, authVars, pc, told, sessions, finishing, cleanVars>>

Request(d) ==
  /\ d \notin pending
  /\ pending' = pending \cup {d}
  /\ UNCHANGED <<running, paired, inbox, taskVars, authVars, pc, told, sessions, finishing, cleanVars>>

\* _poll_once, and _handle_request of each request of a device that is known:
\* a token, the link, and a task that waits for the offer
PollOnce ==
  /\ running /\ pending # {}
  /\ pending' = {}
  /\ \E ls \in SUBSET {l \in Link : asks[l] = "idle"} :
       /\ Cardinality(ls) = Cardinality(pending \cap paired)
       /\ asks' = [l \in Link |-> IF l \in ls THEN "poll" ELSE asks[l]]
       /\ token' = [l \in Link |-> IF l \in ls THEN "valid" ELSE token[l]]
  /\ UNCHANGED <<running, paired, inbox, batch, carries, reconnect, failures, pc, told, sessions, finishing, cleanVars>>

\* 60 seconds, or 4 minutes without a ping, have passed.
Expire ==
  /\ \/ \E l \in Link : token[l] = "valid" /\ token' = [token EXCEPT ![l] = "expired"] /\ UNCHANGED reconnect
     \/ \E o \in reconnect : reconnect' = reconnect \ {o} /\ UNCHANGED token
  /\ UNCHANGED <<running, mailVars, taskVars, carries, failures, pc, told, sessions, finishing, cleanVars>>

\* A viewer posts its offer, with the token of a link, with that of a session
\* it had, or with one that never was.
PostOffer(o, x) ==
  /\ carries[o] = None /\ pc[o] = "none" /\ o \notin Range(inbox)
  /\ \A l \in Link : o \notin Range(batch[l])
  /\ x \in {l \in Link : token[l] # "none"} \cup {s \in Offer : pc[s] # "none"} \cup {o}
  /\ carries' = [carries EXCEPT ![o] = x]
  /\ inbox' = Append(inbox, o)
  /\ UNCHANGED <<running, paired, pending, taskVars, token, reconnect, failures, pc, told, sessions, finishing, cleanVars>>

-----------------------------------------------------------------------------
(* listen_for_sdp_once                                                     *)

\* A GET takes everything that is there, whoever it is meant for.
Fetch(l) ==
  /\ running /\ asks[l] = "poll" /\ inbox # <<>>
  /\ batch' = [batch EXCEPT ![l] = inbox] /\ inbox' = <<>>
  /\ asks' = [asks EXCEPT ![l] = "auth"]
  /\ UNCHANGED <<running, paired, pending, authVars, pc, told, sessions, finishing, cleanVars>>

\* 60 seconds without an offer
TimeOut(l) ==
  /\ asks[l] = "poll" /\ asks' = [asks EXCEPT ![l] = "done"]
  /\ UNCHANGED <<running, mailVars, batch, authVars, pc, told, sessions, finishing, cleanVars>>

Valid(o) == carries[o] \in reconnect \/ (carries[o] \in Link /\ token[carries[o]] = "valid")

\* Dead sessions are listed before a new one is created; the list is not taken
\* again while they are closed one after the other.  A session that has not
\* connected for 30 seconds counts as dead.
Listed == {o \in sessions : pc[o] \in Gone}
Stale  == {o \in sessions : pc[o] = "new"}

\* _cleanup_dead_sessions: the first is taken from the table at once.
Sweep(t, s) ==
  IF s = {} THEN UNCHANGED <<dead, closing, sessions>>
  ELSE \E o \in s : /\ dead' = [dead EXCEPT ![t] = s \ {o}]
                    /\ closing' = closing \cup {<<t, o>>}
                    /\ sessions' = sessions \ {o}

\* TokenStore.verify, rate limit included, and the reconnect tokens: the next
\* offer of the batch
Authenticate(l) ==
  /\ asks[l] = "auth" /\ batch[l] # <<>>
  /\ LET o == Head(batch[l]) IN
     \/ /\ Valid(o)
        /\ failures' = IF carries[o] \in Link THEN 0 ELSE failures
        /\ asks' = [asks EXCEPT ![l] = "clean"]
        /\ \E s \in SUBSET Stale : Sweep(l, Listed \cup s)
        /\ UNCHANGED batch
     \/ /\ ~Valid(o) \/ (carries[o] \in Link /\ failures = MaxFailures)
        /\ failures' = IF failures < MaxFailures /\ ~Valid(o) THEN failures + 1 ELSE failures
        /\ batch' = [batch EXCEPT ![l] = Tail(@)]
        /\ asks' = [asks EXCEPT ![l] = IF Len(batch[l]) = 1 THEN "poll" ELSE "auth"]
        /\ UNCHANGED <<dead, closing, sessions>>
  /\ UNCHANGED <<running, mailVars, token, carries, reconnect, pc, told, finishing, loop>>

\* accept_offer: the answer is posted and the listener returns, with whatever
\* else it had fetched.
Accept(l) ==
  /\ asks[l] = "clean" /\ dead[l] = {} /\ closing \cap {<<l, o>> : o \in Offer} = {}
  /\ LET o == Head(batch[l]) IN
       \/ pc' = [pc EXCEPT ![o] = "new"] /\ finishing' = finishing \cup {o}
       \/ pc' = [pc EXCEPT ![o] = "refused"] /\ UNCHANGED finishing
  /\ asks' = [asks EXCEPT ![l] = "done"] /\ batch' = [batch EXCEPT ![l] = <<>>]
  /\ UNCHANGED <<running, mailVars, authVars, told, sessions, cleanVars>>

\* _finish_session: a task of its own
FinishSession(o) ==
  /\ o \in finishing
  /\ finishing' = finishing \ {o} /\ sessions' = sessions \cup {o}
  /\ UNCHANGED <<running, mailVars, taskVars, authVars, pc, told, cleanVars>>

\* DataChannelProxy.handle_message: a ping issues or refreshes the reconnect token.
Ping(o) ==
  /\ o \in sessions /\ pc[o] = "connected" /\ o \notin reconnect
  /\ reconnect' = reconnect \cup {o}
  /\ UNCHANGED <<running, mailVars, taskVars, token, carries, failures, pc, told, sessions, finishing, cleanVars>>

-----------------------------------------------------------------------------
(* The end of sessions                                                     *)

Transport(o, s) ==
  /\ pc[o] \in {"new", "connected", "disconnected"} /\ s # pc[o]
  /\ pc' = [pc EXCEPT ![o] = s]
  /\ told' = IF s \in Gone THEN told \cup {o} ELSE told
  /\ UNCHANGED <<running, mailVars, taskVars, authVars, sessions, finishing, cleanVars>>

\* Mutant: the session is forgotten without being closed.
Closes_Forgets(o) == {}

Closes(o) == IF o \in sessions THEN {<<o, o>>} ELSE {}

\* on_state_change: nothing to do for a session that is not registered (yet).
OnStateChange(o) ==
  /\ o \in told /\ told' = told \ {o}
  /\ sessions' = sessions \ {o}
  /\ closing' = closing \cup Closes(o)
  /\ UNCHANGED <<running, mailVars, taskVars, authVars, pc, finishing, dead, loop>>

\* _cleanup_loop, every 15 seconds
CleanupBegins ==
  /\ running /\ loop = "sleep"
  /\ loop' = "clean"
  /\ \E s \in SUBSET Stale : Sweep(Loop, Listed \cup s)
  /\ UNCHANGED <<running, mailVars, taskVars, authVars, pc, told, finishing>>

\* The next session of the list: it may have been closed in between, and then
\* _sessions.pop raises; in a listener the offer is lost with it.
CleanNext(t) ==
  /\ \A o \in Offer : <<t, o>> \notin closing
  /\ \E o \in dead[t] :
       IF o \in sessions
       THEN /\ sessions' = sessions \ {o} /\ closing' = closing \cup {<<t, o>>}
            /\ dead' = [dead EXCEPT ![t] = @ \ {o}]
            /\ UNCHANGED <<loop, asks, batch>>
       ELSE /\ dead' = [dead EXCEPT ![t] = {}]
            /\ IF t = Loop THEN loop' = "failed" /\ UNCHANGED <<asks, batch>>
               ELSE /\ asks' = [asks EXCEPT ![t] = "poll"] /\ batch' = [batch EXCEPT ![t] = <<>>]
                    /\ UNCHANGED loop
            /\ UNCHANGED <<sessions, closing>>
  /\ UNCHANGED <<running, mailVars, authVars, pc, told, finishing>>

CleanupEnds ==
  /\ loop = "clean" /\ dead[Loop] = {} /\ \A o \in Offer : <<Loop, o>> \notin closing
  /\ loop' = "sleep"
  /\ UNCHANGED <<running, mailVars, taskVars, authVars, pc, told, sessions, finishing, dead, closing>>

\* _close_session has closed the proxy and the peer.
Closed(c) ==
  /\ c \in closing /\ closing' = closing \ {c}
  /\ pc' = [pc EXCEPT ![c[2]] = "closed"]
  /\ told' = IF pc[c[2]] # "closed" THEN told \cup {c[2]} ELSE told
  /\ UNCHANGED <<running, mailVars, taskVars, authVars, sessions, finishing, dead, loop>>

\* stop(): the loops are cancelled, the closing of a session included; the
\* sessions are closed.  Listeners and _finish_session tasks go on.
Stop ==
  /\ running /\ running' = FALSE /\ loop' = "stopped"
  /\ dead' = [dead EXCEPT ![Loop] = {}]
  /\ closing' = {c \in closing : c[1] # Loop} \cup {<<o, o>> : o \in sessions}
  /\ sessions' = {}
  /\ UNCHANGED <<mailVars, taskVars, authVars, pc, told, finishing>>

-----------------------------------------------------------------------------
Init ==
  /\ running = FALSE /\ paired = {} /\ pending = {} /\ inbox = <<>>
  /\ asks = [l \in Link |-> "idle"] /\ batch = [l \in Link |-> <<>>]
  /\ token = [l \in Link |-> "none"] /\ carries = [o \in Offer |-> None]
  /\ reconnect = {} /\ failures = 0
  /\ pc = [o \in Offer |-> "none"] /\ told = {} /\ sessions = {} /\ finishing = {}
  /\ dead = [t \in Cleaner |-> {}] /\ closing = {} /\ loop = "off"

States == {"connected", "disconnected", "failed", "closed"}

Next ==
  \/ \E d \in Device : Pair(d) \/ Revoke(d) \/ Request(d)
  \/ \E l \in Link : Fetch(l) \/ TimeOut(l) \/ Authenticate(l) \/ Accept(l)
  \/ \E o \in Offer : \/ FinishSession(o) \/ Ping(o) \/ OnStateChange(o)
                      \/ \E s \in States : Transport(o, s)
                      \/ \E x \in Link \cup Offer : PostOffer(o, x)
  \/ \E t \in Cleaner : CleanNext(t)
  \/ \E c \in closing : Closed(c)
  \/ Start \/ PollOnce \/ Expire \/ CleanupBegins \/ CleanupEnds \/ Stop

Spec == Init /\ [][Next]_vars

-----------------------------------------------------------------------------
\* Sessions, requests and rooms belong to known devices.
RelayTypeOK ==
  /\ running \in BOOLEAN /\ paired \subseteq Device /\ pending \subseteq Device
  /\ asks \in [Link -> {"idle", "poll", "auth", "clean", "done"}]
  /\ token \in [Link -> {"none", "valid", "expired"}] /\ failures \in 0..MaxFailures
  /\ pc \in [Offer -> {"none", "new", "refused"} \cup States]
  /\ dead \in [Cleaner -> SUBSET Offer] /\ closing \subseteq (Cleaner \cup Offer) \X Offer
  /\ loop \in {"off", "sleep", "clean", "failed", "stopped"}

\* Over state changes, two kinds of clean-up and new sessions that interleave,
\* a connection that was answered is in the table, on its way there, or being
\* closed: until the poller is stopped none is left open that nobody knows of.
NoPeerLost ==
  loop # "stopped" => \A o \in Offer : pc[o] \notin {"none", "refused", "closed"} =>
    o \in sessions \cup finishing \/ \E t \in Cleaner \cup Offer : <<t, o>> \in closing

\* "Periodically clean up dead peer connections"
\* (hort/peer2peer/relay_poller.py, _cleanup_loop): it does so while the poller runs.
CleanupKeepsRunning == running => loop # "failed"

=============================================================================
