------------------------------- MODULE Vaults -------------------------------
(***************************************************************************)
(* One key of one llming's vault (hort/llming/handles.py), the document    *)
(* rows that hold it (hort/storage/scrolls), the storage's garbage         *)
(* collector (hort/storage/store.py), and the viewers whose cards read,    *)
(* write and watch it (hort/commands/card_api.py).                         *)
(*                                                                         *)
(* Vault.set() deletes the old row and inserts a new one in two            *)
(* transactions, keeps its own cache, and pushes to the watching viewers   *)
(* at most once in 200 ms.  Writes come from the event loop and, for       *)
(* interval jobs and synchronous powers, from executor threads.            *)
(***************************************************************************)
EXTENDS Integers, FiniteSets, FiniteSetsExt

CONSTANTS Viewer,
          MaxVersion,  \* bound: writes; every write stores a fresh version
          MaxCrashes,  \* bound: restarts of the process
          InThread,    \* the llming also writes from an executor thread
          Cards,       \* cards write the key as well
          Ttl          \* a write may carry a time to live

\* What the constants have to be.
VaultsAssumption ==
  /\ {MaxVersion, MaxCrashes} \subseteq Nat
  /\ {InThread, Cards, Ttl} \subseteq BOOLEAN

VARIABLES
  rows,     \* the key's documents: rowid, version, and when it ends
  version,  \* the last version any write began with
  writer,   \* thread -> the set() it is in
  cache,    \* Vault._cache: 0 for absent
  bound,    \* what a VaultRef of another llming holds
  watch,    \* _vault_watchers: no entry, an empty set, or watching the key
  recent,   \* the last push was less than _VAULT_PUSH_MIN_INTERVAL ago
  pending,  \* _vault_pending_data: 0 for absent
  timer,    \* _vault_pending_handle is there
  shown,    \* what each viewer was last sent
  due,      \* what each viewer should come to see
  crashes

memVars  == <<cache, bound>>
pushVars == <<recent, pending, timer, shown, due>>
vars == <<rows, version, writer, memVars, watch, pushVars, crashes>>

Idle    == [at |-> "idle", val |-> 0, found |-> 0, card |-> FALSE]
Writers == {"loop"} \cup (IF InThread THEN {"thread"} ELSE {})

Memory(w, c, b, wa, r, p, t, s, d) ==
  /\ w = [x \in Writers |-> Idle] /\ c = 0 /\ b = 0 /\ wa = [v \in Viewer |-> "none"]
  /\ r = FALSE /\ p = 0 /\ t = FALSE /\ s = [v \in Viewer |-> 0] /\ d = [v \in Viewer |-> 0]

Init ==
  /\ rows = {} /\ version = 0 /\ crashes = 0
  /\ Memory(writer, cache, bound, watch, recent, pending, timer, shown, due)

\* Nothing else runs on the event loop while a set() is in progress there.
LoopFree == writer["loop"] = Idle

-----------------------------------------------------------------------------
(* The document store                                                      *)

Row(id, v, ends) == [id |-> id, val |-> v, ends |-> ends]

Live == {r \in rows : r.ends # "ended"}

\* A scan of the table goes by rowid, and a new row's is larger than any there is: the
\* order among one key's rows is all that shows.
First(docs) == CHOOSE r \in docs : \A s \in docs \ {r} : r.id < s.id
NewId == 1 + Max({0} \cup {r.id : r \in rows})

\* find_one(): the first document that has not expired.
FindOne == IF Live = {} THEN 0 ELSE First(Live).val

Without(v)        == {r \in rows : r.val # v}
Inserted(v, ends) == rows \cup {Row(NewId, v, ends)}

Expire ==
  /\ \E r \in rows : r.ends = "ttl" /\ rows' = (rows \ {r}) \cup {Row(r.id, r.val, "ended")}
  /\ UNCHANGED <<version, writer, memVars, watch, pushVars, crashes>>

\* The storage's own thread, once a minute.
Collect ==
  /\ Live # rows /\ rows' = Live
  /\ UNCHANGED <<version, writer, memVars, watch, pushVars, crashes>>

-----------------------------------------------------------------------------
(* The throttled push                                                      *)

Watching == {v \in Viewer : watch[v] = "on"}
Sent(to, val) == [v \in Viewer |-> IF v \in to THEN val ELSE shown[v]]

\* Mutant: the delayed push is not cancelled.
PushNow_KeepsPending(val, inLoop) ==
  /\ recent' = TRUE /\ pending' = pending /\ timer' = timer
  /\ shown' = IF inLoop THEN Sent(Watching, val) ELSE shown

\* The window is over: what was pending is forgotten and its timer cancelled.
\* A thread has no running loop to create the sending tasks on.
PushNow(val, inLoop) ==
  /\ recent' = TRUE /\ pending' = 0 /\ timer' = FALSE
  /\ shown' = IF inLoop THEN Sent(Watching, val) ELSE shown

\* Only the latest is kept; a thread cannot schedule the delayed push.
PushLater(val, inLoop) ==
  /\ pending' = val /\ timer' = (timer \/ inLoop)
  /\ UNCHANGED <<recent, shown>>

Notify(val, inLoop) ==
  /\ due' = [v \in Viewer |-> IF v \in Watching THEN val ELSE due[v]]
  /\ IF \A v \in Viewer : watch[v] = "none" THEN UNCHANGED <<recent, pending, timer, shown>>
     ELSE IF recent THEN PushLater(val, inLoop) ELSE PushNow(val, inLoop)

WindowEnds ==
  /\ recent /\ recent' = FALSE
  /\ UNCHANGED <<rows, version, writer, memVars, watch, pending, timer, shown, due, crashes>>

Flush ==
  /\ timer /\ ~recent /\ LoopFree
  /\ timer' = FALSE /\ pending' = 0
  /\ recent' = (pending # 0)
  /\ shown' = IF pending # 0 THEN Sent(Watching, pending) ELSE shown
  /\ UNCHANGED <<rows, version, writer, memVars, watch, due, crashes>>

-----------------------------------------------------------------------------
(* Writing                                                                 *)

\* Vault.set(), or a card's vault.write: first the old document is looked up.
SetFinds(w, card) ==
  /\ writer[w] = Idle /\ version < MaxVersion
  /\ w = "thread" => ~card
  /\ card => Cards /\ \E v \in Viewer : watch[v] # "none"
  /\ version' = version + 1
  /\ writer' = [writer EXCEPT ![w] = [at |-> "delete", val |-> version + 1, found |-> FindOne,
                                     card |-> card]]
  /\ UNCHANGED <<rows, memVars, watch, pushVars, crashes>>

SetDeletes(w) ==
  /\ writer[w].at = "delete"
  /\ rows' = Without(writer[w].found)
  /\ writer' = [writer EXCEPT ![w].at = "insert"]
  /\ UNCHANGED <<version, memVars, watch, pushVars, crashes>>

SetInserts(w) ==
  /\ writer[w].at = "insert"
  /\ \E ends \in {"never"} \cup (IF Ttl /\ ~writer[w].card THEN {"ttl"} ELSE {}) :
       rows' = Inserted(writer[w].val, ends)
  /\ writer' = [writer EXCEPT ![w].at = "tell"]
  /\ UNCHANGED <<version, memVars, watch, pushVars, crashes>>

\* The llming's own write also enters its cache and the Python bindings.
SetTells(w) ==
  /\ writer[w].at = "tell"
  /\ Notify(writer[w].val, w = "loop")
  /\ IF writer[w].card THEN UNCHANGED memVars
     ELSE cache' = writer[w].val /\ bound' = writer[w].val
  /\ writer' = [writer EXCEPT ![w] = Idle]
  /\ UNCHANGED <<rows, version, watch, crashes>>

\* Vault.delete(): the cache and the first document; nobody is told.
Delete ==
  /\ LoopFree /\ cache' = 0 /\ rows' = Without(FindOne)
  /\ UNCHANGED <<version, writer, bound, watch, pushVars, crashes>>

\* Vault.get(): a cached value is never looked up again.
Get ==
  /\ LoopFree /\ cache = 0 /\ cache' = FindOne
  /\ UNCHANGED <<rows, version, writer, bound, watch, pushVars, crashes>>

-----------------------------------------------------------------------------
(* Viewers                                                                 *)

\* vault.watch answers with the stored value, which is sent at once; a push that
\* is pending will follow it, also when its value has been deleted meanwhile.
Watch(v) ==
  /\ LoopFree
  /\ watch' = [watch EXCEPT ![v] = "on"]
  /\ shown' = Sent({v}, FindOne)
  /\ due' = [due EXCEPT ![v] = IF timer THEN pending ELSE FindOne]
  /\ UNCHANGED <<rows, version, writer, memVars, recent, pending, timer, crashes>>

Unwatch(v) ==
  /\ LoopFree /\ watch[v] = "on"
  /\ watch' = [watch EXCEPT ![v] = "empty"]
  /\ UNCHANGED <<rows, version, writer, memVars, pushVars, crashes>>

\* remove_viewer() when its control connection ends.
Leave(v) ==
  /\ LoopFree /\ watch[v] # "none"
  /\ watch' = [watch EXCEPT ![v] = "none"]
  /\ shown' = Sent({v}, 0) /\ due' = [due EXCEPT ![v] = 0]
  /\ UNCHANGED <<rows, version, writer, memVars, recent, pending, timer, crashes>>

\* The process dies between any two transactions; the rows are on the host.
Crash ==
  /\ crashes < MaxCrashes /\ crashes' = crashes + 1
  /\ Memory(writer', cache', bound', watch', recent', pending', timer', shown', due')
  /\ UNCHANGED <<rows, version>>

Next ==
  \/ Expire \/ Collect \/ WindowEnds \/ Flush \/ Delete \/ Get \/ Crash
  \/ \E w \in Writers :
       \/ \E card \in BOOLEAN : SetFinds(w, card)
       \/ SetDeletes(w) \/ SetInserts(w) \/ SetTells(w)
  \/ \E v \in Viewer : Watch(v) \/ Unwatch(v) \/ Leave(v)

Spec == Init /\ [][Next]_vars

-----------------------------------------------------------------------------
(* Properties                                                              *)

\* Rows, caches and pending pushes have their shape.
VaultsTypeOK ==
  /\ rows \subseteq [id : Nat, val : 1..MaxVersion, ends : {"never", "ttl", "ended"}]
  /\ {version, cache, bound, pending} \subseteq 0..MaxVersion
  /\ writer \in [Writers -> [at : {"idle", "delete", "insert", "tell"}, val : 0..MaxVersion,
                             found : 0..MaxVersion, card : BOOLEAN]]
  /\ watch \in [Viewer -> {"none", "empty", "on"}] /\ {recent, timer} \subseteq BOOLEAN
  /\ {shown, due} \subseteq [Viewer -> 0..MaxVersion] /\ crashes \in 0..MaxCrashes

\* "If writes happen faster than 5Hz, only the latest value is pushed at the next
\* throttle window": a watching viewer has the latest value, or a timer is running
\* that will send exactly that value.
ViewersCatchUp ==
  \A v \in Watching : shown[v] = due[v] \/ (timer /\ pending = due[v])

\* A key has one document, unless two threads set it at the same time.
OneDocument == \A r, s \in Live : r = s

\* The cache answers what the store would: not once a card has written the key, or
\* a document has expired.
CacheIsCurrent == LoopFree /\ cache # 0 => cache = FindOne
=============================================================================
