-------------------------------- MODULE Accounts --------------------------------
(***************************************************************************)
(* Who may come in.  The access server keeps users and hosts in a store    *)
(* (access/store.py), limits attempts to sign in (access/auth.py) and asks *)
(* the host to verify a token (access/server.py); the host keeps its       *)
(* tokens in a file (access/tokens.py) that every request loads anew, and  *)
(* guards its own API (hort/auth.py).  The browsers share one address.     *)
(***************************************************************************)
EXTENDS Integers, FiniteSets, FiniteSetsExt

CONSTANTS
  User, Host, Browser,
  Process,      \* the host's processes that open the token file
  Home,         \* the host whose tokens are modelled
  Mongo,        \* the access server's store is a database, not a file it holds a copy of
  FixedSecret,  \* ACCESS_SESSION_SECRET is set
  MaxAttempts, MaxFailures,
  MaxTokens,    \* bound on the tokens ever created
  MaxStarts,    \* bound on the access server's starts
  MaxCrashes,   \* bound on crashes of the host's processes
  None

\* What the constants have to be.
AccountsAssumption ==
  /\ Home \in Host /\ {Mongo, FixedSecret} \subseteq BOOLEAN
  /\ {MaxAttempts, MaxFailures, MaxTokens, MaxStarts, MaxCrashes} \subseteq Nat
  /\ IsFiniteSet(Browser) /\ MaxAttempts > 0

Token == 1..MaxTokens
Empty == [users |-> {}, owner |-> [h \in Host |-> None]]

VARIABLES
  stored, copy,   \* the store, and what the running server knows of it
  starts, up,     \* starts of the access server, and whether it runs
  tunnel,         \* the hosts that are connected
  login,          \* [Browser -> None or the attempt it has under way]
  session,        \* [Browser -> the user its cookie names, or None]
  attempts,       \* attempts recorded within the window
  file,           \* the tokens of tokens.json; {0} when its writing was cut off
  current,        \* current-temp-token: 0 or a token
  held,           \* [Process -> Idle or the write it is about to do]
  kind,           \* [Token -> "new", "temp" or "perm"]
  ended,          \* tokens that expired, were revoked or replaced
  failures,       \* hort/auth.py: failures within the window
  crashes

server == <<stored, copy, starts, up, tunnel, login, session, attempts>>
tokens == <<file, current, held, kind, ended, crashes>>
vars == <<server, tokens, failures>>

-----------------------------------------------------------------------------
(* The store and the people                                                *)

\* The store as the server sees it: FileStore loads the file once.
Known == IF Mongo THEN stored ELSE copy

Saved(d) == stored' = d /\ copy' = IF Mongo THEN copy ELSE d

\* main with --setup-user or --setup-host: a process of its own
Setup(u, h) ==
  /\ stored' = IF h = None THEN [stored EXCEPT !.users = @ \cup {u}]
                           ELSE [stored EXCEPT !.owner[h] = u]
  /\ IF h = None THEN u \notin stored.users ELSE u \in stored.users /\ stored.owner[h] = None
  /\ UNCHANGED <<copy, starts, up, tunnel, login, session, attempts, tokens, failures>>

\* main: there is a user.  Without a fixed secret the cookies of the last run are void.
StartServer ==
  /\ ~up /\ starts < MaxStarts /\ stored.users # {}
  /\ up' = TRUE /\ starts' = starts + 1 /\ copy' = stored /\ attempts' = 0
  /\ session' = IF FixedSecret THEN session ELSE [b \in Browser |-> None]
  /\ UNCHANGED <<stored, tunnel, login, tokens, failures>>

StopServer ==
  /\ up /\ up' = FALSE /\ tunnel' = {} /\ login' = [b \in Browser |-> None]
  /\ UNCHANGED <<stored, copy, starts, session, attempts, tokens, failures>>

\* create_host
CreateHost(b, h) ==
  /\ up /\ session[b] # None /\ Known.owner[h] = None /\ stored.owner[h] = None
  /\ Saved([Known EXCEPT !.owner[h] = session[b]])
  /\ UNCHANGED <<starts, up, tunnel, login, session, attempts, tokens, failures>>

\* host_tunnel: the key is of a known host, its owner exists
Connect(h) ==
  /\ up /\ Known.owner[h] \in Known.users /\ tunnel' = tunnel \cup {h}
  /\ UNCHANGED <<stored, copy, starts, up, login, session, attempts, tokens, failures>>

Disconnect(h) ==
  /\ h \in tunnel /\ tunnel' = tunnel \ {h}
  /\ login' = [b \in Browser |-> IF login[b] # None /\ login[b].stage = "asking" /\ login[b].host = h
                                 THEN None ELSE login[b]]   \* ConnectionError: 502
  /\ UNCHANGED <<stored, copy, starts, up, session, attempts, tokens, failures>>

-----------------------------------------------------------------------------
(* Signing in                                                              *)

Attempt(stage, u, h, t) == [stage |-> stage, user |-> u, host |-> h, token |-> t]

\* RateLimiter.check, before the delay
Begin(b, u, h, t) ==
  /\ up /\ login[b] = None /\ attempts < MaxAttempts
  /\ login' = [login EXCEPT ![b] = Attempt("delayed", u, h, t)]
  /\ UNCHANGED <<stored, copy, starts, up, tunnel, session, attempts, tokens, failures>>

\* the delay is over: record, and the password right or wrong
PasswordLogin(b, right) ==
  /\ login[b] # None /\ login[b].stage = "delayed" /\ login[b].host = None
  /\ attempts' = attempts + 1 /\ login' = [login EXCEPT ![b] = None]
  /\ session' = IF right /\ login[b].user \in Known.users
                THEN [session EXCEPT ![b] = login[b].user] ELSE session
  /\ UNCHANGED <<stored, copy, starts, up, tunnel, tokens, failures>>

\* _do_token_login up to the request through the tunnel
TokenLogin(b) ==
  /\ login[b] # None /\ login[b].stage = "delayed" /\ login[b].host # None
  /\ attempts' = attempts + 1
  /\ login' = [login EXCEPT ![b] = IF login[b].host \in tunnel THEN [@ EXCEPT !.stage = "asking"] ELSE None]
  /\ UNCHANGED <<stored, copy, starts, up, tunnel, session, tokens, failures>>

\* its answer: the browser is signed in as the owner of the host
Answered(b, valid) ==
  LET owner == Known.owner[login[b].host]
  IN  /\ login' = [login EXCEPT ![b] = None]
      /\ session' = IF valid /\ owner \in Known.users THEN [session EXCEPT ![b] = owner] ELSE session

Logout(b) ==
  /\ up /\ session[b] # None /\ session' = [session EXCEPT ![b] = None]
  /\ UNCHANGED <<stored, copy, starts, up, tunnel, login, attempts, tokens, failures>>

AttemptAges ==
  /\ attempts > 0 /\ attempts' = attempts - 1
  /\ UNCHANGED <<stored, copy, starts, up, tunnel, login, session, tokens, failures>>

-----------------------------------------------------------------------------
(* The host's tokens.  Each operation makes a TokenStore, which loads the  *)
(* file; a writing operation rewrites it whole.                            *)

Perm == {t \in Token : kind[t] = "perm"}

\* Mutant: a new TokenStore does not load the file.
Loaded_Never == {}

\* _load: a file that does not parse is an empty one
Loaded == file \ {0}

\* what is about to be written, the tokens this creates and those it ends
Write(set, new, over) == [to |-> set, new |-> new, over |-> over]
Idle == Write({0}, {}, {})

\* create_temporary; create_permanent (over the one with its label); revoke_all_temporary
Create(p, t, k) ==
  /\ held[p] = Idle /\ kind[t] = "new" /\ \A s \in Token : s < t => kind[s] # "new"
  /\ kind' = [kind EXCEPT ![t] = k]
  /\ held' = [held EXCEPT ![p] =
       IF k = "temp" THEN Write(Loaded \cup {t}, {t}, {})
       ELSE Write((Loaded \ Perm) \cup {t}, {t}, Loaded \cap Perm)]
  /\ UNCHANGED <<server, file, current, ended, crashes, failures>>

RevokeTemporary(p) ==
  /\ held[p] = Idle
  /\ held' = [held EXCEPT ![p] = Write(Loaded \cap Perm, {}, Loaded \ Perm)]
  /\ UNCHANGED <<server, file, current, kind, ended, crashes, failures>>

\* verify, asked for by browser b's sign-in: the expired ones go with the next save
Verify(p, b) ==
  LET t == login[b].token
      live == Loaded \ {s \in ended : kind[s] = "temp"}
  IN  /\ held[p] = Idle /\ login[b] # None /\ login[b].stage = "asking" /\ login[b].host = Home
      /\ Answered(b, t \in live)
      /\ held' = IF t \in live THEN [held EXCEPT ![p] = Write(live, {}, {})] ELSE held
      /\ UNCHANGED <<stored, copy, starts, up, tunnel, attempts, file, current, kind, ended, crashes, failures>>

\* _save; a new temporary token of create_cloud_token or of the start is written down too
Save(p) ==
  LET w == held[p]
  IN  /\ w # Idle /\ file' = w.to /\ held' = [held EXCEPT ![p] = Idle]
      /\ ended' = ended \cup w.over
      /\ \/ UNCHANGED current
         \/ \E t \in w.new : kind[t] = "temp" /\ current' = t
      /\ UNCHANGED <<server, kind, crashes, failures>>

\* A crash while write_text has truncated the file
CrashSaving(p) ==
  /\ held[p] # Idle /\ crashes < MaxCrashes /\ crashes' = crashes + 1
  /\ file' = {0} /\ held' = [held EXCEPT ![p] = Idle]
  /\ ended' = ended \cup held[p].over \cup held[p].new
  /\ UNCHANGED <<server, current, kind, failures>>

\* _create_startup_tokens: the token written down is used again if it verifies
Startup(p) ==
  /\ held[p] = Idle /\ current # 0 /\ current \in Loaded \ ended
  /\ held' = [held EXCEPT ![p] = Write(Loaded \ {s \in ended : kind[s] = "temp"}, {}, {})]
  /\ UNCHANGED <<server, file, current, kind, ended, crashes, failures>>

Expire(t) ==
  /\ kind[t] = "temp" /\ t \in file \ ended /\ ended' = ended \cup {t}
  /\ UNCHANGED <<server, file, current, held, kind, crashes, failures>>

-----------------------------------------------------------------------------
(* AuthMiddleware: what remote requests to the host's API meet             *)

Remote(valid) ==
  /\ failures < MaxFailures   \* else 429
  /\ failures' = IF valid THEN 0 ELSE failures + 1
  /\ UNCHANGED <<server, tokens>>

FailureAges == failures > 0 /\ failures' = failures - 1 /\ UNCHANGED <<server, tokens>>

-----------------------------------------------------------------------------
Init ==
  /\ stored = Empty /\ copy = Empty /\ starts = 0 /\ up = FALSE /\ tunnel = {}
  /\ login = [b \in Browser |-> None] /\ session = [b \in Browser |-> None] /\ attempts = 0
  /\ file = {} /\ current = 0 /\ held = [p \in Process |-> Idle]
  /\ kind = [t \in Token |-> "new"] /\ ended = {} /\ failures = 0 /\ crashes = 0

Next ==
  \/ \E u \in User, h \in Host \cup {None} : Setup(u, h)
  \/ StartServer \/ StopServer
  \/ \E b \in Browser, h \in Host : CreateHost(b, h)
  \/ \E h \in Host : Connect(h) \/ Disconnect(h)
  \/ \E b \in Browser, u \in User : Begin(b, u, None, 0)
  \/ \E b \in Browser, t \in Token : Begin(b, None, Home, t)
  \/ \E b \in Browser : TokenLogin(b) \/ Logout(b)
  \/ \E b \in Browser, right \in BOOLEAN : PasswordLogin(b, right)
  \/ AttemptAges
  \/ \E p \in Process, t \in Token, k \in {"temp", "perm"} : Create(p, t, k)
  \/ \E p \in Process : RevokeTemporary(p) \/ Save(p) \/ CrashSaving(p) \/ Startup(p)
  \/ \E p \in Process, b \in Browser : Verify(p, b)
  \/ \E t \in Token : Expire(t)
  \/ \E valid \in BOOLEAN : Remote(valid)
  \/ FailureAges

Spec == Init /\ [][Next]_vars

-----------------------------------------------------------------------------
(* Properties                                                              *)

\* The token file, the hosts and the sessions have their shape, whoever restarts or signs in.
AccountsTypeOK ==
  /\ stored \in [users : SUBSET User, owner : [Host -> User \cup {None}]]
  /\ copy \in [users : SUBSET User, owner : [Host -> User \cup {None}]]
  /\ starts \in 0..MaxStarts /\ up \in BOOLEAN /\ tunnel \subseteq Host
  /\ session \in [Browser -> User \cup {None}]
  /\ attempts \in 0..(MaxAttempts + Cardinality(Browser) - 1)
  /\ file \subseteq Token \cup {0} /\ current \in Token \cup {0}
  /\ kind \in [Token -> {"new", "temp", "perm"}] /\ ended \subseteq Token
  /\ failures \in 0..MaxFailures /\ crashes \in 0..MaxCrashes

\* A token that was handed out is in the file until it expires or is revoked or
\* replaced, whatever requests create, verify or revoke others meanwhile, unless a
\* crash cut the file off.
KeysKept ==
  \A t \in Token : crashes = 0 /\ kind[t] # "new" /\ t \notin ended
    /\ (\A p \in Process : t \notin held[p].new) => t \in file
=============================================================================
