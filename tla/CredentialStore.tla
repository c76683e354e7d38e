-------------------------- MODULE CredentialStore --------------------------
(* CredentialStore (hort/ext/credentials.py), the login of one llming at an  *)
(* outside service, and the routes and commands that drive it (hort/         *)
(* plugins.py, hort/commands/credentials.py).  Credential and metadata are   *)
(* two documents of the llming's store; every read and write of either, and  *)
(* every request to the provider, is awaited, and other calls run meanwhile. *)
EXTENDS Integers

CONSTANTS
    Call,       \* calls that may be under way at a time
    MaxFlows,   \* bound: authorization URLs and device codes asked for
    MaxRestarts,
    None

VARIABLES
    cred, meta,     \* the documents: a token, a state; or None
    state, loaded,  \* _info.state, _loaded
    nonce, code,    \* _pending_state, _pending_device_code, 0 for none
    flows,          \* the nonces and codes handed out
    job,            \* per call, where it waits and with what
    restarts

memory == <<state, loaded, nonce, code>>
vars == <<cred, meta, memory, flows, job, restarts>>

(* A token: a login or a refresh gave it, with a refresh token or without;   *)
(* `can` remembers whether the login it stems from came with one.            *)
Token == [fresh : BOOLEAN, refresh : BOOLEAN, can : BOOLEAN]
NewToken == {[fresh |-> TRUE, refresh |-> b, can |-> b] : b \in BOOLEAN}
State == {"ok", "expired", "not_configured", "error"}

Idle == [at |-> "idle", tok |-> None, tried |-> FALSE, flow |-> 0]

Init ==
    /\ cred = None /\ meta = None
    /\ state = "not_configured" /\ loaded = FALSE /\ nonce = 0 /\ code = 0
    /\ flows = 0 /\ restarts = 0
    /\ job = [c \in Call |-> Idle]

At(c, at) == job[c].at = at
Goes(c, at) == job' = [job EXCEPT ![c].at = at]
GoesWith(c, at, tok) == job' = [job EXCEPT ![c].at = at, ![c].tok = tok]
Returns(c) == job' = [job EXCEPT ![c] = Idle]

(* _save_meta(): what is written is the state of the moment it begins.       *)
Saves(c, s) == /\ state' = s /\ GoesWith(c, "saves", s)

Save(c) ==
    /\ At(c, "saves") /\ Returns(c)
    /\ meta' = job[c].tok
    /\ \/ job[c].flow = 0 /\ UNCHANGED <<nonce, code>>
       \* exchange_code() and poll_device_code() drop what is pending by now
       \/ job[c].flow = 1 /\ nonce' = 0 /\ UNCHANGED code
       \/ job[c].flow = 2 /\ code' = 0 /\ UNCHANGED nonce
    /\ UNCHANGED <<cred, state, loaded, flows, restarts>>

-----------------------------------------------------------------------------
(* get_token() and load()                                                    *)

GetToken(c) ==
    /\ At(c, "idle") /\ Goes(c, IF loaded THEN "checks" ELSE "loads")
    /\ UNCHANGED <<cred, meta, memory, flows, restarts>>

ReadMeta(c) ==
    /\ At(c, "loads") /\ GoesWith(c, "applies", meta)
    /\ UNCHANGED <<cred, meta, memory, flows, restarts>>

(* The metadata has the credential's time to live; once it is over, the      *)
(* state is "expired" and get_token() ends there.                            *)
Load(c) ==
    /\ At(c, "applies") /\ Goes(c, "checks") /\ loaded' = TRUE
    /\ state' = CASE job[c].tok = None -> "not_configured"
                  [] job[c].tok = "ok" /\ cred # None /\ ~cred.fresh -> "expired"
                  [] OTHER -> job[c].tok
    /\ UNCHANGED <<cred, meta, nonce, code, flows, restarts>>

Checks(c) ==
    /\ At(c, "checks")
    /\ IF state = "ok" THEN Goes(c, "reads") ELSE Returns(c)
    /\ UNCHANGED <<cred, meta, memory, flows, restarts>>

ReadCred(c) ==
    /\ At(c, "reads") /\ GoesWith(c, "decides", cred)
    /\ UNCHANGED <<cred, meta, memory, flows, restarts>>

Decides(c) ==
    LET tok == job[c].tok IN
    /\ At(c, "decides")
    /\ \/ /\ tok = None /\ state' = "not_configured" /\ Returns(c)
       \/ /\ tok # None /\ tok.fresh /\ Returns(c) /\ UNCHANGED state
       \/ /\ tok # None /\ ~tok.fresh
          /\ Goes(c, IF tok.refresh THEN "refreshes" ELSE "gives up")
          /\ UNCHANGED state
    /\ UNCHANGED <<cred, meta, loaded, nonce, code, flows, restarts>>

Refreshed_AsAnswered(tok, new) == [new EXCEPT !.can = tok.can]

(* "Preserve refresh_token if not included in response".                     *)
Refreshed(tok, new) == [new EXCEPT !.refresh = TRUE, !.can = tok.can]

(* _try_refresh(): the provider answers, refuses, or is out of reach.        *)
Refresh(c) ==
    /\ At(c, "refreshes")
    /\ \/ \E new \in NewToken : GoesWith(c, "stores", Refreshed(job[c].tok, new))
       \/ job' = [job EXCEPT ![c].at = "gives up", ![c].tried = TRUE]
    /\ UNCHANGED <<cred, meta, memory, flows, restarts>>

GiveUp(c) ==
    /\ At(c, "gives up") /\ Saves(c, "expired")
    /\ UNCHANGED <<cred, meta, loaded, nonce, code, flows, restarts>>

-----------------------------------------------------------------------------
(* set_token(), clear(), mark_expired() and mark_error()                     *)

(* A token that was typed in.                                                *)
StoreToken(c) ==
    /\ At(c, "idle") /\ \E tok \in NewToken : GoesWith(c, "stores", tok)
    /\ UNCHANGED <<cred, meta, memory, flows, restarts>>

PutCred(c) ==
    /\ At(c, "stores") /\ Goes(c, "stored")
    /\ cred' = job[c].tok
    /\ UNCHANGED <<meta, memory, flows, restarts>>

Stored(c) ==
    /\ At(c, "stored") /\ Saves(c, "ok") /\ loaded' = TRUE
    /\ UNCHANGED <<cred, meta, nonce, code, flows, restarts>>

Clear(c) ==
    /\ At(c, "idle") /\ Goes(c, "deletes")
    /\ UNCHANGED <<cred, meta, memory, flows, restarts>>

DeleteCred(c) ==
    /\ At(c, "deletes") /\ Goes(c, "deleted") /\ cred' = None
    /\ UNCHANGED <<meta, memory, flows, restarts>>

Cleared(c) ==
    /\ At(c, "deleted") /\ Saves(c, "not_configured")
    /\ UNCHANGED <<cred, meta, loaded, nonce, code, flows, restarts>>

(* The llming found that the service refuses the token.                      *)
Mark(c) ==
    /\ At(c, "idle") /\ \E s \in {"expired", "error"} : Saves(c, s)
    /\ UNCHANGED <<cred, meta, loaded, nonce, code, flows, restarts>>

-----------------------------------------------------------------------------
(* The browser flow and the device flow                                      *)

AuthUrl ==
    /\ flows < MaxFlows /\ flows' = flows + 1 /\ nonce' = flows + 1
    /\ UNCHANGED <<cred, meta, state, loaded, code, job, restarts>>

(* The provider redirects back; a state that is not the pending one is       *)
(* refused, the pending one is accepted until an exchange has succeeded.     *)
Callback(c) ==
    /\ At(c, "idle") /\ nonce # 0
    /\ job' = [job EXCEPT ![c].at = "exchanges", ![c].flow = 1]
    /\ UNCHANGED <<cred, meta, memory, flows, restarts>>

Exchange(c) ==
    /\ At(c, "exchanges")
    /\ \/ \E tok \in NewToken : GoesWith(c, "stores", tok) /\ UNCHANGED state
       \/ /\ state' = "error"
          /\ job' = [job EXCEPT ![c].at = "saves", ![c].tok = "error", ![c].flow = 0]
    /\ UNCHANGED <<cred, meta, loaded, nonce, code, flows, restarts>>

DeviceCode ==
    /\ flows < MaxFlows /\ flows' = flows + 1 /\ code' = flows + 1
    /\ UNCHANGED <<cred, meta, state, loaded, nonce, job, restarts>>

Poll(c) ==
    /\ At(c, "idle") /\ code # 0
    /\ job' = [job EXCEPT ![c].at = "polls", ![c].flow = 2]
    /\ UNCHANGED <<cred, meta, memory, flows, restarts>>

(* Not yet (or slow_down, or no answer); an error; or the tokens.            *)
Polled(c) ==
    /\ At(c, "polls")
    /\ \/ Returns(c) /\ UNCHANGED state
       \/ Saves(c, "error")
       \/ \E tok \in NewToken : GoesWith(c, "stores", tok) /\ UNCHANGED state
    /\ UNCHANGED <<cred, meta, loaded, nonce, code, flows, restarts>>

-----------------------------------------------------------------------------
Expire ==
    /\ cred # None /\ cred.fresh /\ cred' = [cred EXCEPT !.fresh = FALSE]
    /\ UNCHANGED <<meta, memory, flows, job, restarts>>

Restart ==
    /\ restarts < MaxRestarts /\ restarts' = restarts + 1
    /\ state' = "not_configured" /\ loaded' = FALSE /\ nonce' = 0 /\ code' = 0
    /\ job' = [c \in Call |-> Idle]
    /\ UNCHANGED <<cred, meta, flows>>

Next ==
    \/ \E c \in Call :
         \/ GetToken(c) \/ ReadMeta(c) \/ Load(c) \/ Checks(c) \/ ReadCred(c)
         \/ Decides(c) \/ Refresh(c) \/ GiveUp(c) \/ Save(c)
         \/ StoreToken(c) \/ PutCred(c) \/ Stored(c)
         \/ Clear(c) \/ DeleteCred(c) \/ Cleared(c) \/ Mark(c)
         \/ Callback(c) \/ Exchange(c) \/ Poll(c) \/ Polled(c)
    \/ AuthUrl \/ DeviceCode \/ Expire \/ Restart

Spec == Init /\ [][Next]_vars

-----------------------------------------------------------------------------
(* Type correctness.                                                         *)
CredentialStoreTypeOK ==
    /\ cred # None => cred \in Token
    /\ meta # None => meta \in State
    /\ state \in State /\ loaded \in BOOLEAN
    /\ {nonce, code} \subseteq 0..flows
    /\ \A c \in Call : job[c].tried \in BOOLEAN /\ job[c].flow \in 0..2

(* A login that came with a refresh token is given up only after the         *)
(* provider refused to refresh it, or did not answer, however often it was   *)
(* refreshed and whatever else ran meanwhile.  About get_token().            *)
RefreshedWhilePossible ==
    \A c \in Call : At(c, "gives up") => (job[c].tok.can => job[c].tried)
=============================================================================
