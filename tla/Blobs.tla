------------------------------- MODULE Blobs -------------------------------
(* LocalBlobStore (hort/ext/blobstore.py), behind the llmings' key-value     *)
(* store and file store (store.py, file_store.py), which call it from        *)
(* executor threads.  A blob is a file and a sidecar with its time to live,  *)
(* each replaced atomically, one after the other, without a lock.            *)
EXTENDS Integers

CONSTANTS
    Key,        \* keys of one namespace
    Thread,     \* executor threads, of one process or of several
    MaxVersion, \* bound: puts
    MaxCrashes, \* bound: processes killed
    None

(* What the constants have to be.                                            *)
BlobsAssumption == {MaxVersion, MaxCrashes} \subseteq Nat

VARIABLES
    data,    \* per key, the version in the file, Torn or None
    meta,    \* per key, the sidecar: "never", "later" or "over", or None
    version, \* the last version a put began with
    job,     \* per thread, the call it is in
    kept,    \* history: per key, what a reader may be given from now on
    got,     \* history: what each thread's last get() returned, or None
    crashes

vars == <<data, meta, version, job, kept, got, crashes>>

Torn == 0
Idle == [at |-> "idle", key |-> None, ver |-> 0, ends |-> "never", then |-> "idle"]

Init ==
    /\ data = [k \in Key |-> None] /\ meta = [k \in Key |-> None]
    /\ version = 0 /\ crashes = 0
    /\ job = [t \in Thread |-> Idle]
    /\ kept = [k \in Key |-> {None}]
    /\ got = [t \in Thread |-> None]

Begins(t, at, k, ver, ends, then) ==
    /\ job[t] = Idle
    /\ job' = [job EXCEPT ![t] =
                 [at |-> at, key |-> k, ver |-> ver, ends |-> ends, then |-> then]]
Goes(t, at) == job' = [job EXCEPT ![t].at = at]
Returns(t) == job' = [job EXCEPT ![t] = Idle]

(* _read_meta(): a blob without a sidecar is there, and never expires.       *)
Meta(k) == IF meta[k] = None /\ data[k] # None THEN "never" ELSE meta[k]

-----------------------------------------------------------------------------
(* put(): the data, then the sidecar.  kept is what the key may hold until   *)
(* the put is over: the old blob or the new.                                 *)
BeginPut(t, k) ==
    /\ version < MaxVersion /\ version' = version + 1
    /\ \E ends \in {"never", "later"} : Begins(t, "writes", k, version', ends, "idle")
    /\ kept' = [kept EXCEPT ![k] = @ \cup {version'}]
    /\ UNCHANGED <<data, meta, got, crashes>>

Opened_InPlace(k) == [data EXCEPT ![k] = Torn]

(* _atomic_write(): a temporary file, which no reader sees.                  *)
Opened(k) == data

Opens(t) ==
    /\ job[t].at = "writes" /\ Goes(t, "replaces")
    /\ data' = Opened(job[t].key)
    /\ UNCHANGED <<meta, version, kept, got, crashes>>

Replaces(t) ==
    /\ job[t].at = "replaces" /\ Goes(t, "records")
    /\ data' = [data EXCEPT ![job[t].key] = job[t].ver]
    /\ UNCHANGED <<meta, version, kept, got, crashes>>

Records(t) ==
    /\ job[t].at = "records" /\ Returns(t)
    /\ meta' = [meta EXCEPT ![job[t].key] = job[t].ends]
    /\ kept' = [kept EXCEPT ![job[t].key] =
                  {job[t].ver} \cup IF job[t].ends = "never" THEN {} ELSE {None}]
    /\ UNCHANGED <<data, version, got, crashes>>

(* get() and get_json(), a read of the sidecar first: an expired blob is     *)
(* deleted there and then.                                                   *)
Looks(t, k) ==
    /\ \/ /\ Meta(k) = None /\ job[t] = Idle
          /\ got' = [got EXCEPT ![t] = [key |-> k, ver |-> None]]
          /\ UNCHANGED job
       \/ /\ Meta(k) = "over" /\ Begins(t, "unlinks", k, 0, "never", "get")
          /\ UNCHANGED got
       \/ /\ Meta(k) \in {"never", "later"} /\ Begins(t, "reads", k, 0, "never", "get")
          /\ UNCHANGED got
    /\ UNCHANGED <<data, meta, version, kept, crashes>>

Reads(t) ==
    /\ job[t].at = "reads" /\ Returns(t)
    /\ got' = [got EXCEPT ![t] = [key |-> job[t].key, ver |-> data[job[t].key]]]
    /\ UNCHANGED <<data, meta, version, kept, crashes>>

(* delete(), of the caller, of a get() that found the blob expired, or of    *)
(* cleanup_expired(): the file, then the sidecar.                            *)
BeginDelete(t, k) ==
    /\ Begins(t, "unlinks", k, 0, "never", "delete")
    /\ kept' = [kept EXCEPT ![k] = @ \cup {None}]
    /\ UNCHANGED <<data, meta, version, got, crashes>>

(* cleanup_expired() and list_keys() go through the directory.               *)
Cleans(t, k) ==
    /\ data[k] # None /\ Meta(k) = "over"
    /\ Begins(t, "unlinks", k, 0, "never", "cleanup")
    /\ UNCHANGED <<data, meta, version, kept, got, crashes>>

Unlinks(t) ==
    /\ job[t].at = "unlinks" /\ Goes(t, "forgets")
    /\ data' = [data EXCEPT ![job[t].key] = None]
    /\ UNCHANGED <<meta, version, kept, got, crashes>>

Forgets(t) ==
    LET k == job[t].key IN
    /\ job[t].at = "forgets" /\ Returns(t)
    /\ meta' = [meta EXCEPT ![k] = None]
    /\ kept' = [kept EXCEPT ![k] = IF job[t].then = "delete" THEN {None} ELSE @]
    /\ got' = [got EXCEPT ![t] =
                 IF job[t].then = "get" THEN [key |-> k, ver |-> None] ELSE @]
    /\ UNCHANGED <<data, version, crashes>>

Expire(k) ==
    /\ meta[k] = "later" /\ meta' = [meta EXCEPT ![k] = "over"]
    /\ UNCHANGED <<data, version, job, kept, got, crashes>>

(* A process is killed: its calls end where they are.                        *)
Crash(t) ==
    /\ job[t] # Idle /\ Returns(t)
    /\ crashes < MaxCrashes /\ crashes' = crashes + 1
    /\ UNCHANGED <<data, meta, version, kept, got>>

Next ==
    \/ \E t \in Thread :
         \/ Opens(t) \/ Replaces(t) \/ Records(t) \/ Reads(t)
         \/ Unlinks(t) \/ Forgets(t) \/ Crash(t)
         \/ \E k \in Key : BeginPut(t, k) \/ Looks(t, k) \/ BeginDelete(t, k) \/ Cleans(t, k)
    \/ \E k \in Key : Expire(k)

Spec == Init /\ [][Next]_vars

-----------------------------------------------------------------------------
(* Type correctness.                                                         *)
BlobsTypeOK ==
    /\ version \in 0..MaxVersion /\ crashes \in 0..MaxCrashes
    /\ \A k \in Key :
         /\ data[k] # None => data[k] \in Torn..version
         /\ meta[k] \in {None, "never", "later", "over"}
    /\ \A t \in Thread :
         job[t].at \in {"idle", "writes", "replaces", "records", "reads", "unlinks",
                        "forgets"}

(* A get() returns what the last put that returned stored, or what one cut   *)
(* short by a crash meant to, never a part of it and never nothing for a     *)
(* blob without a time to live.  About _atomic_write and the order of the    *)
(* two files in put, get and delete.                                         *)
ReadsWhatWasPut ==
    \A t \in Thread :
      got'[t] # got[t] => got'[t].ver \in kept[got'[t].key]
=============================================================================
