------------------------------ MODULE Credentials ------------------------------
(***************************************************************************)
(* The credential vault and its manager (hort/credentials): rows of an     *)
(* encrypted SQLite table, the posts and OAuth flows of the REST API that  *)
(* fill them, and the health check that refreshes tokens and writes        *)
(* statuses.  Requests and the check are coroutines of one loop: what one  *)
(* has read before an await may have changed when it goes on.  The vault's *)
(* key comes from the keychain of the system or from a file, at each start.*)
(***************************************************************************)
EXTENDS Naturals, Sequences, SequencesExt, FiniteSets

CONSTANTS
  Cred,      \* credentials, each of one llming and declared by it
  Oauth,     \* the ones of type oauth2, whose tokens can be refreshed
  Checked,   \* the ones with an endpoint that validates them
  Flow,      \* OAuth redirect flows (their states)
  Keychain,  \* "works", "absent", "flaky" (fails at some starts) or
             \* "ignored" (a system _write_keychain does nothing on)
  MaxSets, MaxStarts   \* bounds: posts, and starts of the process

\* What the constants have to be.
CredentialsAssumption ==
  /\ Oauth \subseteq Cred /\ Checked \subseteq Cred
  /\ Keychain \in {"works", "absent", "flaky", "ignored"}
  /\ MaxSets \in Nat /\ MaxStarts \in Nat \ {0}

VARIABLES
  row,      \* [Cred -> status, expiry, key it was encrypted with, whether its type
            \*  is oauth2, and what the value has: nothing, a secret, or a
            \*  refresh token too]
  alerts,   \* credentials with an alert in the manager
  posts,    \* credentials with a post under validation
  flow,     \* [Flow -> "none", "pending", "old", "exchanging" or "popped"]
  of,       \* [Flow -> its credential]
  check,    \* the health check: the infos still to do, and what it waits for
  key, keychain, file,   \* keys are numbers, 0 is none
  sets, starts

store == <<key, keychain, file, starts>>
vars == <<row, alerts, posts, flow, of, check, store, sets>>

Status == {"none", "valid", "expiring", "expired", "error", "revoked"}
Expiry == {"never", "long", "soon", "over"}
NoRow == [st |-> "none", exp |-> "never", key |-> 0, oauth |-> FALSE, has |-> "nothing"]

-----------------------------------------------------------------------------
(* The vault                                                               *)

\* Mutant: the file is not looked at.
GetKey_NoFile(kc, f, readable, new) ==
  IF readable /\ kc # 0 THEN <<kc, kc, f>>
  ELSE IF readable THEN <<new, new, f>> ELSE <<new, kc, new>>

\* _get_or_create_key, given what keychain and file hold: the key to use, and
\* what they hold then
GetKey(kc, f, readable, new) ==
  IF readable /\ kc # 0 THEN <<kc, kc, f>>
  ELSE IF f # 0 THEN <<f, kc, f>>
  ELSE IF readable THEN <<new, new, f>>
  ELSE IF Keychain = "ignored" THEN <<new, kc, f>>
  ELSE <<new, kc, new>>

\* Can the keychain be read (and written) at a start?
KeychainAnswers == CASE Keychain = "works" -> {TRUE} [] Keychain = "flaky" -> BOOLEAN [] OTHER -> {FALSE}

\* retrieve: is there a value to use?
Retrievable(c) == row[c].st # "revoked" /\ row[c].has # "nothing" /\ row[c].key = key

\* store: an upsert, which leaves the type of an existing row as it is
Stored(c, exp, oauth, has) ==
  [row EXCEPT ![c] = [st |-> "valid", exp |-> exp, key |-> key, has |-> has,
                      oauth |-> IF row[c].st = "none" THEN oauth ELSE row[c].oauth]]

UpdateStatus(c, s) == IF row[c].st = "none" THEN row ELSE [row EXCEPT ![c].st = s]

\* manager.set
Put(c, exp, oauth, has) == row' = Stored(c, exp, oauth, has) /\ alerts' = alerts \ {c}

\* manager.revoke: the value is overwritten with an empty one; the alert stays.
Revoke(c) ==
  /\ row[c].st # "none"
  /\ row' = [row EXCEPT ![c].st = "revoked", ![c].key = key, ![c].has = "nothing"]
  /\ UNCHANGED <<alerts, posts, flow, of, check, store, sets>>

\* request_update, whatever the status was
RequestUpdate(c) ==
  /\ row' = UpdateStatus(c, "expired") /\ alerts' = alerts \cup {c}
  /\ UNCHANGED <<posts, flow, of, check, store, sets>>

ClearAlert(c) ==
  /\ alerts' = alerts \ {c}
  /\ UNCHANGED <<row, posts, flow, of, check, store, sets>>

-----------------------------------------------------------------------------
(* The REST API                                                            *)

\* A post waits for the validation of its value, if there is an endpoint.
Post(c) ==
  /\ c \notin posts /\ sets < MaxSets
  /\ posts' = posts \cup {c} /\ sets' = sets + 1
  /\ UNCHANGED <<row, alerts, flow, of, check, store>>

Validated(c) ==
  /\ c \in posts /\ posts' = posts \ {c}
  /\ \/ \E exp \in {"never", "long", "soon"}, oauth \in {FALSE, (c \in Oauth)} : Put(c, exp, oauth, "secret")
     \/ c \in Checked /\ UNCHANGED <<row, alerts>>   \* refused
  /\ UNCHANGED <<flow, of, check, store, sets>>

StartOauth(f, c) ==
  /\ c \in Oauth /\ flow[f] = "none"
  /\ flow' = [flow EXCEPT ![f] = "pending"] /\ of' = [of EXCEPT ![f] = c]
  /\ UNCHANGED <<row, alerts, posts, check, store, sets>>

TenMinutes(f) ==
  /\ flow[f] = "pending" /\ flow' = [flow EXCEPT ![f] = "old"]
  /\ UNCHANGED <<row, alerts, posts, of, check, store, sets>>

CleanupExpiredFlows ==
  /\ flow' = [f \in Flow |-> IF flow[f] = "old" THEN "popped" ELSE flow[f]] /\ flow' # flow
  /\ UNCHANGED <<row, alerts, posts, of, check, store, sets>>

\* The provider redirects the browser to /auth/callback: exchange_code pops the
\* flow before it asks for the tokens, so another redirect finds none.
Callback(f) ==
  /\ flow[f] \in {"pending", "old"} /\ flow' = [flow EXCEPT ![f] = "exchanging"]
  /\ UNCHANGED <<row, alerts, posts, of, check, store, sets>>

Exchanged(f) ==
  /\ flow[f] = "exchanging" /\ flow' = [flow EXCEPT ![f] = "popped"]
  /\ \/ \E has \in {"secret", "refresh"}, exp \in {"long", "soon"} : Put(of[f], exp, TRUE, has)
     \/ UNCHANGED <<row, alerts>>
  /\ UNCHANGED <<posts, of, check, store, sets>>

-----------------------------------------------------------------------------
(* The health check                                                        *)

Idle == [todo |-> <<>>, at |-> "idle"]

Info(c) == [c |-> c, st |-> row[c].st, exp |-> row[c].exp, oauth |-> row[c].oauth]

\* check_all_credentials: the infos are read once, before the first await.
CheckBegins ==
  /\ check = Idle
  /\ check' = [todo |-> SetToSeq({Info(c) : c \in {d \in Cred : row[d].st \notin {"none", "revoked"}}}),
               at |-> "expiry"]
  /\ check'.todo # <<>>
  /\ UNCHANGED <<row, alerts, posts, flow, of, store, sets>>

This == Head(check.todo)
GoesTo(stage) == check' = [check EXCEPT !.at = stage]
NextCredential ==
  check' = IF Len(check.todo) = 1 THEN Idle ELSE [todo |-> Tail(check.todo), at |-> "expiry"]

Lapsed == UpdateStatus(This.c, IF This.exp = "over" THEN "expired" ELSE "expiring")

\* The token has expired or will soon: it is refreshed if its type, its value
\* and its specification allow it.
CheckExpiry ==
  /\ check.at = "expiry"
  /\ IF This.exp \notin {"soon", "over"} THEN row' = row /\ GoesTo("endpoint")
     ELSE IF This.oauth /\ This.c \in Oauth /\ Retrievable(This.c) /\ row[This.c].has = "refresh"
          THEN row' = row /\ GoesTo("refresh")
          ELSE row' = Lapsed /\ GoesTo("endpoint")
  /\ UNCHANGED <<alerts, posts, flow, of, store, sets>>

\* The provider's answer: new tokens are stored whatever became of the row.
Refreshed ==
  /\ check.at = "refresh" /\ GoesTo("endpoint")
  /\ \/ \E exp \in {"long", "soon"} : Put(This.c, exp, TRUE, "refresh")
     \/ row' = Lapsed /\ alerts' = alerts
  /\ UNCHANGED <<posts, flow, of, store, sets>>

Unhealthy == UpdateStatus(This.c, "error")

\* Only what was valid when the infos were read is sent to its endpoint.
CheckEndpoint ==
  /\ check.at = "endpoint"
  /\ IF This.c \notin Checked \/ This.st # "valid" THEN row' = row /\ NextCredential
     ELSE IF Retrievable(This.c) THEN row' = row /\ GoesTo("answer")
     ELSE row' = Unhealthy /\ NextCredential
  /\ UNCHANGED <<alerts, posts, flow, of, store, sets>>

EndpointAnswers ==
  /\ check.at = "answer" /\ NextCredential
  /\ row' \in {row, Unhealthy}
  /\ UNCHANGED <<alerts, posts, flow, of, store, sets>>

-----------------------------------------------------------------------------
\* Time passes, for the rows and for the infos read.
Later(exp) == CASE exp = "long" -> "soon" [] exp = "soon" -> "over" [] OTHER -> exp

HourPasses ==
  /\ row' = [c \in Cred |-> [row[c] EXCEPT !.exp = Later(@)]] /\ row' # row
  /\ check' = [check EXCEPT !.todo = [i \in DOMAIN @ |-> 
               IF i = 1 /\ check.at # "expiry" THEN @[i] ELSE [@[i] EXCEPT !.exp = Later(@)]]]
  /\ UNCHANGED <<alerts, posts, flow, of, store, sets>>

\* The process ends at any moment and starts again: the table, keychain and file stay.
Restart ==
  /\ starts < MaxStarts
  /\ \E readable \in KeychainAnswers :
       LET k == GetKey(keychain, file, readable, starts + 1)
       IN  key' = k[1] /\ keychain' = k[2] /\ file' = k[3] /\ starts' = starts + 1
  /\ alerts' = {} /\ posts' = {} /\ check' = Idle /\ of' = of
  /\ flow' = [f \in Flow |-> IF flow[f] = "none" THEN "none" ELSE "popped"]
  /\ UNCHANGED <<row, sets>>

-----------------------------------------------------------------------------
Init ==
  /\ row = [c \in Cred |-> NoRow] /\ alerts = {} /\ posts = {}
  /\ flow = [f \in Flow |-> "none"] /\ of \in [Flow -> Oauth] /\ check = Idle
  /\ \E readable \in KeychainAnswers :
       LET k == GetKey(0, 0, readable, 1) IN key = k[1] /\ keychain = k[2] /\ file = k[3]
  /\ sets = 0 /\ starts = 1

Next ==
  \/ \E c \in Cred : Revoke(c) \/ RequestUpdate(c) \/ ClearAlert(c) \/ Post(c) \/ Validated(c)
  \/ \E f \in Flow : \/ TenMinutes(f) \/ Callback(f) \/ Exchanged(f)
                      \/ \E c \in Cred : StartOauth(f, c)
  \/ CleanupExpiredFlows \/ CheckBegins \/ CheckExpiry \/ Refreshed \/ CheckEndpoint
  \/ EndpointAnswers \/ HourPasses \/ Restart

Spec == Init /\ [][Next]_vars

-----------------------------------------------------------------------------
\* Rows, flows and the key have their shape through refreshes, revocations and restarts.
CredentialsTypeOK ==
  /\ row \in [Cred -> [st : Status, exp : Expiry, key : 0..MaxStarts, oauth : BOOLEAN, 
                   has : {"nothing", "secret", "refresh"}]]
  /\ alerts \subseteq Cred /\ posts \subseteq Cred
  /\ flow \in [Flow -> {"none", "pending", "old", "exchanging", "popped"}] /\ of \in [Flow -> Oauth]
  /\ check.at \in {"idle", "expiry", "refresh", "endpoint", "answer"}

\* What the vault holds can be decrypted with the key of the process that runs,
\* however often it has been started: vault.py:199-233.
Readable == \A c \in Cred : row[c].st # "none" => row[c].key = key

\* A revoked credential comes back only with a value that the user supplies:
\* types.py:31 "explicitly revoked by user".  health.py:150-158 stores what a
\* refresh brought although the credential was revoked meanwhile.
RevokedStays ==
  [][\A c \in Cred : row[c].st = "revoked" /\ row'[c].st # "revoked"
       => posts' # posts \/ flow' # flow]_vars
=============================================================================
