------------------------------ MODULE Scrolls ------------------------------
(* The document store (hort/storage/scrolls) as several processes share it:  *)
(* the host and the llming's subprocess each open the same SQLite file, call *)
(* it from one thread and collect expired documents from another             *)
(* (hort/storage/store.py).  In WAL mode readers never wait, and one         *)
(* connection at a time holds the write lock, from its first write until its *)
(* commit; another writer waits for it five seconds and then raises.         *)
(* Documents are one per collection.                                         *)
EXTENDS Integers, FiniteSets

CONSTANTS
    Process,    \* the processes that opened the storage
    Doc,        \* documents, each in a collection of its own
    MaxCount,   \* bound: the counter a document holds
    MaxCrashes, \* bound: processes killed
    None

(* What the constants have to be.                                            *)
ScrollsAssumption == {MaxCount, MaxCrashes} \subseteq Nat

VARIABLES
    row,    \* committed rows: the counter and the time to live, or None
    tables, \* the collections that exist
    lock,   \* the process whose collector holds the write lock, or None
    job,    \* per process, what its thread does after a find
    gc,     \* per process, where the collector's thread is
    todo,   \* per process, the collections the round has left
    swept,  \* per process, the documents the open transaction removed
    told,   \* per process, how its last write ended
    crashes

vars == <<row, tables, lock, job, gc, todo, swept, told, crashes>>
collector == <<gc, todo, swept>>

Idle == [op |-> "idle"]

Init ==
    /\ row = [d \in Doc |-> None] /\ tables = {} /\ lock = None /\ crashes = 0
    /\ job = [p \in Process |-> Idle]
    /\ gc = [p \in Process |-> "sleep"]
    /\ todo = [p \in Process |-> {}] /\ swept = [p \in Process |-> {}]
    /\ told = [p \in Process |-> "ok"]

(* find(): what the collector removed and has not committed is expired, so   *)
(* that readers do not see it either way.                                    *)
Seen(d) == row[d] # None /\ row[d].ends # "over"

(* Whoever writes commits within the call; only a collector keeps the lock.  *)
Writes(p, op) ==
    /\ job[p] = op /\ lock = None
    /\ job' = [job EXCEPT ![p] = Idle]
    /\ told' = [told EXCEPT ![p] = "ok"]

(* insert(): INSERT OR REPLACE, with or without a time to live.              *)
Insert(p, d) ==
    /\ Writes(p, Idle)
    /\ \E ends \in {"never", "later"} :
         row' = [row EXCEPT ![d] = [n |-> 0, ends |-> ends]]
    /\ tables' = tables \cup {d}
    /\ UNCHANGED <<lock, collector, crashes>>

(* update_one, update_many, delete_one and delete_many with a filter read    *)
(* first, in a transaction of its own.                                       *)
Find(p, d) ==
    /\ job[p] = Idle
    /\ tables' = tables \cup {d}    \* _ensure_collection
    /\ \/ /\ Seen(d)
          /\ \E op \in {"update", "renew", "delete"} :
               job' = [job EXCEPT ![p] = [op |-> op, doc |-> d, n |-> row[d].n]]
          /\ UNCHANGED told
       \/ /\ ~Seen(d)
          /\ told' = [told EXCEPT ![p] = "not matched"]
          /\ UNCHANGED job
    /\ UNCHANGED <<row, lock, collector, crashes>>

Changed_Upsert(d, n, ends) == [row EXCEPT ![d] = [n |-> n, ends |-> ends]]

(* _apply_update on the document found, then UPDATE ... WHERE _id: a row     *)
(* that is gone by now stays gone.                                           *)
Changed(d, n, ends) ==
    IF row[d] = None THEN row ELSE [row EXCEPT ![d] = [n |-> n, ends |-> ends]]

Update(p) ==
    /\ job[p].op \in {"update", "renew"} /\ Writes(p, job[p])
    /\ LET d == job[p].doc
           n == IF job[p].n < MaxCount THEN job[p].n + 1 ELSE 0 IN
       row' = Changed(d, n,
                IF job[p].op = "renew" THEN "later"
                ELSE IF row[d] = None THEN "never" ELSE row[d].ends)
    /\ UNCHANGED <<tables, lock, collector, crashes>>

Delete(p) ==
    /\ job[p].op = "delete" /\ Writes(p, job[p])
    /\ row' = [row EXCEPT ![job[p].doc] = None]
    /\ UNCHANGED <<tables, lock, collector, crashes>>

(* delete_many without a filter.                                             *)
DeleteAll(p, d) ==
    /\ Writes(p, Idle) /\ d \in tables
    /\ row' = [row EXCEPT ![d] = None]
    /\ UNCHANGED <<tables, lock, collector, crashes>>

(* "database is locked": the lock was not released within five seconds,      *)
(* though nobody is writing.                                                 *)
Refused(p) ==
    /\ lock # None /\ gc[lock] # "round"
    /\ job' = [job EXCEPT ![p] = Idle]
    /\ told' = [told EXCEPT ![p] = "locked"]
    /\ UNCHANGED <<row, tables, lock, collector, crashes>>

Expire(d) ==
    /\ row[d] # None /\ row[d].ends = "later"
    /\ row' = [row EXCEPT ![d].ends = "over"]
    /\ UNCHANGED <<tables, lock, job, collector, told, crashes>>

(* Storage._gc_loop wakes; gc() lists the collections.                       *)
GcWakes(p) ==
    /\ gc[p] = "sleep"
    /\ gc' = [gc EXCEPT ![p] = "round"]
    /\ todo' = [todo EXCEPT ![p] = tables]
    /\ swept' = [swept EXCEPT ![p] = {}]
    /\ UNCHANGED <<row, tables, lock, job, told, crashes>>

(* DELETE of one collection's expired rows.  It takes the lock whether there *)
(* are any or not; when another connection has it the error is swallowed.    *)
GcDeletes(p, d) ==
    /\ gc[p] = "round" /\ d \in todo[p]
    /\ todo' = [todo EXCEPT ![p] = @ \ {d}]
    /\ IF lock \in {None, p}
         THEN /\ lock' = p
              /\ swept' = [swept EXCEPT ![p] = @ \cup
                   {x \in {d} : row[x] # None /\ row[x].ends = "over"}]
         ELSE UNCHANGED <<lock, swept>>
    /\ UNCHANGED <<row, tables, job, gc, told, crashes>>

(* The end of gc(): a commit, if anything was removed.                       *)
GcEnds(p) ==
    /\ gc[p] = "round" /\ todo[p] = {}
    /\ IF swept[p] # {}
         THEN /\ row' = [d \in Doc |-> IF d \in swept[p] THEN None ELSE row[d]]
              /\ lock' = None
         ELSE UNCHANGED <<row, lock>>
    /\ gc' = [gc EXCEPT ![p] = "sleep"]
    /\ UNCHANGED <<tables, job, todo, swept, told, crashes>>

(* Storage.close() closes the caller's connection; the collector's goes with *)
(* its thread, which first sleeps to the end of its minute.                  *)
Close(p) ==
    /\ gc[p] = "sleep" /\ job[p] = Idle
    /\ gc' = [gc EXCEPT ![p] = "stopping"]
    /\ UNCHANGED <<row, tables, lock, job, todo, swept, told, crashes>>

Unlocked(p) == IF lock = p THEN None ELSE lock

GcExits(p) ==
    /\ gc[p] = "stopping"
    /\ gc' = [gc EXCEPT ![p] = "gone"]
    /\ lock' = Unlocked(p)
    /\ UNCHANGED <<row, tables, job, todo, swept, told, crashes>>

(* The process is killed and started again; SQLite rolls back.               *)
Crash(p) ==
    /\ crashes < MaxCrashes /\ crashes' = crashes + 1
    /\ lock' = Unlocked(p)
    /\ job' = [job EXCEPT ![p] = Idle]
    /\ gc' = [gc EXCEPT ![p] = "sleep"]
    /\ todo' = [todo EXCEPT ![p] = {}] /\ swept' = [swept EXCEPT ![p] = {}]
    /\ UNCHANGED <<row, tables, told>>

Next ==
    \/ \E p \in Process :
         \/ Update(p) \/ Delete(p) \/ Refused(p) \/ GcWakes(p) \/ GcEnds(p)
         \/ Close(p) \/ GcExits(p) \/ Crash(p)
         \/ \E d \in Doc : Insert(p, d) \/ Find(p, d) \/ DeleteAll(p, d) \/ GcDeletes(p, d)
    \/ \E d \in Doc : Expire(d)

Spec == Init /\ [][Next]_vars

-----------------------------------------------------------------------------
(* Type correctness.                                                         *)
ScrollsTypeOK ==
    /\ tables \subseteq Doc /\ lock \in Process \cup {None}
    /\ \A d \in Doc : row[d] # None =>
         row[d].n \in 0..MaxCount /\ row[d].ends \in {"never", "later", "over"}
    /\ \A p \in Process :
         /\ gc[p] \in {"sleep", "round", "stopping", "gone"}
         /\ job[p].op \in {"idle", "update", "renew", "delete"}
         /\ todo[p] \cup swept[p] \subseteq Doc
         /\ told[p] \in {"ok", "not matched", "locked"}

(* A document that was deleted, or collected, while another process was      *)
(* between the two halves of an update comes back only by an insert.  About  *)
(* the find-then-write of update_one and update_many.                        *)
DeletedStaysDeleted ==
    \A d \in Doc :
      (row[d] = None /\ row'[d] # None) => \E p \in Process : Insert(p, d)

(* A write fails only while another write is under way.  About insert, which *)
(* returns the document's id, beside a collector that sleeps.                *)
WritesGoThrough == \A p \in Process : told[p] # "locked"
=============================================================================
