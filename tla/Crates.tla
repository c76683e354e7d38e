------------------------------- MODULE Crates -------------------------------
(* The binary files of a llming's vault: CrateStore (hort/storage/crates)    *)
(* behind Hold (vault.py), Vault.put_file and its siblings (llming/          *)
(* handles.py) and PulseRouter (pulses).  A crate is a file and a row that   *)
(* describes it, and nothing ties the two: the owner puts and deletes,       *)
(* other llmings and processes read, and a thread collects what expired.     *)
EXTENDS Integers, Sequences

CONSTANTS
    Name,       \* crates of one container
    FileOf,     \* the file a crate is kept in
    Owner,      \* threads of the llming that owns the container
    Reader,     \* threads of whoever reads it
    MaxVersion, \* bound: puts
    None

(* What the constants have to be.                                            *)
CratesAssumption == MaxVersion \in Nat

VARIABLES
    file,       \* the files: a version, Torn, or None
    row,        \* the rows: the version described and its time to live, or None
    version,    \* the last version a put began with
    job,        \* per owner and reader, the call it is in
    listed,     \* the rows the collector's round selected
    left,       \* those whose files it has still to remove
    got         \* history: what each get() returned last, data and info

vars == <<file, row, version, job, listed, left, got>>
collector == <<listed, left>>

(* put() keeps a crate in a file of its name, with `/` and `\` replaced.     *)
Path == {FileOf[n] : n \in Name}
Torn == 0
Idle == [at |-> "idle", name |-> None, ver |-> 0, ends |-> "never"]

Init ==
    /\ file = [f \in Path |-> None] /\ row = [n \in Name |-> None]
    /\ version = 0 /\ listed = {} /\ left = {}
    /\ job = [t \in Owner \cup Reader |-> Idle]
    /\ got = [r \in Reader |-> None]

Goes(t, at) == job' = [job EXCEPT ![t].at = at]
Returns(t) == job' = [job EXCEPT ![t] = Idle]
Begins(t, at, n, ver, ends) ==
    /\ job[t] = Idle
    /\ job' = [job EXCEPT ![t] = [at |-> at, name |-> n, ver |-> ver, ends |-> ends]]

Holds(f, v) == file' = [file EXCEPT ![f] = v]
Tells(n, r) == row' = [row EXCEPT ![n] = r]

(* head(): the row, unless it has expired.                                   *)
Live(n) == row[n] # None /\ row[n].ends # "over"

-----------------------------------------------------------------------------
(* The owner                                                                 *)

Stage_RowFirst == <<"records", "opens", "writes">>

(* put(): write_bytes() truncates the file and writes it; the row follows.   *)
Stage == <<"opens", "writes", "records">>

Following(at) ==
    LET k == CHOOSE i \in 1..3 : Stage[i] = at IN
    IF k = 3 THEN "done" ELSE Stage[k + 1]

BeginPut(o, n) ==
    /\ version < MaxVersion /\ version' = version + 1
    /\ \E ends \in {"never", "later"} : Begins(o, Stage[1], n, version', ends)
    /\ UNCHANGED <<file, row, collector, got>>

Puts(o) ==
    LET n == job[o].name
        f == FileOf[n] IN
    /\ job[o].at \in {"opens", "writes", "records"}
    /\ \/ job[o].at = "opens" /\ Holds(f, Torn) /\ UNCHANGED row
       \/ job[o].at = "writes" /\ Holds(f, job[o].ver) /\ UNCHANGED row
       \/ /\ job[o].at = "records"
          /\ Tells(n, [ver |-> job[o].ver, ends |-> job[o].ends]) /\ UNCHANGED file
    /\ IF Following(job[o].at) = "done" THEN Returns(o) ELSE Goes(o, Following(job[o].at))
    /\ UNCHANGED <<version, collector, got>>

(* delete() and, for a container of one crate, delete_container(): the row   *)
(* is read, then the file removed, then the row.                             *)
BeginDelete(o, n) ==
    /\ row[n] # None /\ Begins(o, "unlinks", n, 0, "never")
    /\ UNCHANGED <<file, row, version, collector, got>>

Deletes(o) ==
    \/ /\ job[o].at = "unlinks"
       /\ Holds(FileOf[job[o].name], None) /\ Goes(o, "forgets")
       /\ UNCHANGED <<row, version, collector, got>>
    \/ /\ job[o].at = "forgets"
       /\ Tells(job[o].name, None) /\ Returns(o)
       /\ UNCHANGED <<file, version, collector, got>>

-----------------------------------------------------------------------------
(* Readers                                                                   *)

(* get(): head(), then the row again for the path, then the file.            *)
Looks(r, n) ==
    /\ IF Live(n) THEN Begins(r, "reads", n, row[n].ver, "never")
       ELSE job[r] = Idle /\ UNCHANGED job
    /\ got' = [got EXCEPT ![r] = None]
    /\ UNCHANGED <<file, row, version, collector>>

Reads(r) ==
    LET f == FileOf[job[r].name] IN
    /\ job[r].at = "reads"
    /\ \/ row[job[r].name] = None /\ Returns(r) /\ UNCHANGED got
       \/ /\ row[job[r].name] # None /\ file[f] # None
          /\ got' = [got EXCEPT ![r] = [data |-> file[f], info |-> job[r].ver]]
          /\ Returns(r)
       \/ /\ row[job[r].name] # None /\ file[f] = None
          /\ Goes(r, "cleans") /\ UNCHANGED got
    /\ UNCHANGED <<file, row, version, collector>>

(* "File deleted but metadata remains": the row goes, whatever it is by now. *)
Cleans(r) ==
    /\ job[r].at = "cleans"
    /\ Tells(job[r].name, None) /\ Returns(r)
    /\ UNCHANGED <<file, version, collector, got>>

-----------------------------------------------------------------------------
(* The collector                                                             *)

Expire(n) ==
    /\ row[n] # None /\ row[n].ends = "later"
    /\ Tells(n, [row[n] EXCEPT !.ends = "over"])
    /\ UNCHANGED <<file, version, job, collector, got>>

(* gc(): selects the expired rows, removes their files one by one, and then  *)
(* the rows that had expired when it began.                                  *)
Expired == {n \in Name : row[n] # None /\ row[n].ends = "over"}

GcSelects ==
    /\ listed = {} /\ Expired # {}
    /\ listed' = {<<n, row[n].ver>> : n \in Expired} /\ left' = Expired
    /\ UNCHANGED <<file, row, version, job, got>>

GcUnlinks(n) ==
    /\ n \in left /\ left' = left \ {n}
    /\ Holds(FileOf[n], None)
    /\ UNCHANGED <<row, version, job, listed, got>>

GcForgets ==
    /\ listed # {} /\ left = {}
    /\ row' = [n \in Name |-> IF row[n] # None /\ <<n, row[n].ver>> \in listed
                              THEN None ELSE row[n]]
    /\ listed' = {}
    /\ UNCHANGED <<file, version, job, left, got>>

(* A put that raises ends there, in Vault.put_file() and PulseRouter alike,  *)
(* and so does the call of a process that is killed; nothing repairs the     *)
(* file that is cut short or that no row describes.                          *)
Fails(o) ==
    /\ job[o] # Idle /\ Returns(o)
    /\ UNCHANGED <<file, row, version, collector, got>>

Next ==
    \/ \E o \in Owner :
         \/ Puts(o) \/ Deletes(o) \/ Fails(o)
         \/ \E n \in Name : BeginPut(o, n) \/ BeginDelete(o, n)
    \/ \E r \in Reader :
         \/ Reads(r) \/ Cleans(r)
         \/ \E n \in Name : Looks(r, n)
    \/ GcSelects \/ GcForgets
    \/ \E n \in Name : Expire(n) \/ GcUnlinks(n)

Spec == Init /\ [][Next]_vars

-----------------------------------------------------------------------------
(* Type correctness.                                                         *)
CratesTypeOK ==
    /\ version \in 0..MaxVersion
    /\ \A f \in Path : file[f] # None => file[f] \in 0..version
    /\ \A n \in Name : row[n] # None =>
         row[n].ver \in 1..version /\ row[n].ends \in {"never", "later", "over"}
    /\ \A t \in Owner \cup Reader :
         job[t].at \in {"idle", "opens", "writes", "records", "unlinks", "forgets",
                       "reads", "cleans"}
    /\ listed \subseteq Name \X (1..version) /\ left \subseteq {x[1] : x \in listed}

(* The data a get() returns is cut short, by a put that is under way or      *)
(* failed, or at least as new as the info returned with it: info never       *)
(* announces what is not there yet.  About the order of file and row in put  *)
(* and of row and file in get.                                               *)
InfoNotAhead ==
    \A r \in Reader : got[r] # None => got[r].data = Torn \/ got[r].data >= got[r].info
=============================================================================
