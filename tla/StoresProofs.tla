----------------------------- MODULE StoresProofs -----------------------------
(***************************************************************************)
(* Proofs about the components that MCStores puts side by side: what a     *)
(* listing announces is there, stores keep their word, secrets stay        *)
(* usable, viewers of vaults and terminals miss nothing, and the planners' *)
(* documents are whole.                                                    *)
(***************************************************************************)
EXTENDS MCStores, Integers, Sequences, FiniteSets, FiniteSetTheorems,
        WellFoundedInduction, TLAPS

-----------------------------------------------------------------------------
(* A behaviour is one of a single component                                *)

LEMMA PartStays == [Next]_all => part' = part
BY DEF Next, Resting, all

-----------------------------------------------------------------------------
(* Crates: file is v1, row v2, version v3, job v4, listed v5, left v6 and  *)
(* got v7.                                                                 *)

LEMMA CratesOnly ==
  /\ Init /\ Is("crates") => Cr!Init
  /\ [Next]_all /\ Is("crates") => [Cr!Next]_(Cr!vars)
BY DEF Init, Next, Is, Cr!vars, all

CrateAt == {"idle", "opens", "writes", "records", "unlinks", "forgets", "reads", "cleans"}
Ends == {"never", "later", "over"}
CrateJob == [at : CrateAt, name : Crate \cup {None}, ver : Nat, ends : Ends]
CrateRow == [ver : Nat, ends : Ends]

\* A file is whole and not older than v.
NotOlder(f, v) == v1[f] # None /\ v1[f] # Cr!Torn => v1[f] >= v

CratesTypes ==
  /\ v1 \in [Cr!Path -> Nat \cup {None}] /\ v2 \in [Crate -> CrateRow \cup {None}]
  /\ v3 \in Nat /\ v4 \in [Owner \cup Reader -> CrateJob]

\* What a put is about to record, what a get is about to read and what a row says
\* is not newer than the file.
RowsBacked ==
  /\ \A f \in Cr!Path : v1[f] # None => v1[f] <= v3
  /\ \A n \in Crate : v2[n] # None => v2[n].ver <= v3 /\ NotOlder(FileOf[n], v2[n].ver)

JobBacked(t) ==
  /\ v4[t].ver <= v3
  /\ v4[t].at \in {"opens", "writes", "records"} => t \in Owner /\ v4[t].ver = v3
  /\ v4[t].at # "idle" => v4[t].name \in Crate
  /\ v4[t].at \in {"reads", "records"} => NotOlder(FileOf[v4[t].name], v4[t].ver)

CratesInv ==
  /\ CratesTypes /\ RowsBacked
  /\ \A t \in Owner \cup Reader : JobBacked(t)
  /\ Cr!InfoNotAhead

LEMMA FollowingStage ==
  /\ Cr!Stage[1] = "opens"
  /\ Cr!Following("opens") = "writes" /\ Cr!Following("writes") = "records"
  /\ Cr!Following("records") = "done"
<1>1. \A i \in 1..3 : (Cr!Stage[i] = "opens" <=> i = 1) /\ (Cr!Stage[i] = "writes" <=> i = 2)
                     /\ (Cr!Stage[i] = "records" <=> i = 3)
  BY DEF Cr!Stage
<1>2. ASSUME NEW x, \E i \in 1..3 : Cr!Stage[i] = x
      PROVE  /\ (CHOOSE i \in 1..3 : Cr!Stage[i] = x) \in 1..3
             /\ Cr!Stage[CHOOSE i \in 1..3 : Cr!Stage[i] = x] = x
  BY <1>2, Zenon
<1>3. /\ (CHOOSE i \in 1..3 : Cr!Stage[i] = "opens") = 1
      /\ (CHOOSE i \in 1..3 : Cr!Stage[i] = "writes") = 2
      /\ (CHOOSE i \in 1..3 : Cr!Stage[i] = "records") = 3
  <2>1. 1 \in 1..3 /\ 2 \in 1..3 /\ 3 \in 1..3 OBVIOUS
  <2> QED BY <1>1, <1>2, <2>1, Zenon
<1> QED BY <1>3 DEF Cr!Following, Cr!Stage

\* The records of jobs and rows.
LEMMA CrateRecords ==
  /\ Cr!Idle \in CrateJob
  /\ \A j \in CrateJob, at \in CrateAt :
       /\ [j EXCEPT !.at = at] \in CrateJob
       /\ [j EXCEPT !.at = at].at = at /\ [j EXCEPT !.at = at].name = j.name
       /\ [j EXCEPT !.at = at].ver = j.ver
  /\ \A r \in CrateRow, e \in Ends :
       [r EXCEPT !.ends = e] \in CrateRow /\ [r EXCEPT !.ends = e].ver = r.ver
  /\ \A v \in Nat, e \in Ends : [ver |-> v, ends |-> e] \in CrateRow
<1>1. Cr!Idle \in CrateJob BY DEF CrateJob, CrateAt, Ends, Cr!Idle
<1>2. ASSUME NEW j \in CrateJob, NEW at \in CrateAt
      PROVE  /\ [j EXCEPT !.at = at] \in CrateJob
             /\ [j EXCEPT !.at = at].at = at /\ [j EXCEPT !.at = at].name = j.name
             /\ [j EXCEPT !.at = at].ver = j.ver
  BY DEF CrateJob
<1>3. ASSUME NEW r \in CrateRow, NEW e \in Ends
      PROVE  [r EXCEPT !.ends = e] \in CrateRow /\ [r EXCEPT !.ends = e].ver = r.ver
  BY DEF CrateRow
<1>4. ASSUME NEW v \in Nat, NEW e \in Ends PROVE [ver |-> v, ends |-> e] \in CrateRow
  BY DEF CrateRow
<1> QED BY <1>1, <1>2, <1>3, <1>4

LEMMA InitCrates == Cr!Init => CratesInv
<1>1. SUFFICES ASSUME Cr!Init PROVE CratesInv OBVIOUS
<1>2. CratesTypes BY <1>1, CrateRecords DEF Cr!Init, CratesTypes
<1>3. RowsBacked BY <1>1 DEF Cr!Init, RowsBacked
<1>4. \A t \in Owner \cup Reader : JobBacked(t) BY <1>1 DEF Cr!Init, JobBacked, Cr!Idle
<1>5. Cr!InfoNotAhead BY <1>1 DEF Cr!Init, Cr!InfoNotAhead
<1> QED BY <1>2, <1>3, <1>4, <1>5 DEF CratesInv

\* The files and rows stay, are removed, cut short, or written by a put.
LEMMA FilesKeep ==
  ASSUME CratesInv, v3' = v3, CratesTypes',
         \A f \in Cr!Path : v1'[f] \in {v1[f], None, Cr!Torn, v3},
         \A n \in Crate : \/ v2'[n] = None
                          \/ v2'[n] # None /\ v2[n] # None /\ v2'[n].ver = v2[n].ver
                          \/ v2'[n].ver = v3 /\ NotOlder(FileOf[n], v3)'
  PROVE  RowsBacked'
<1>1. \A n \in Crate : FileOf[n] \in Cr!Path BY DEF Cr!Path
<1> QED BY <1>1 DEF CratesInv, CratesTypes, RowsBacked, NotOlder, CrateRow, Cr!Torn

\* A thread whose call stays at its step, or one that goes on.
LEMMA JobStays ==
  ASSUME CratesInv, v3' = v3, CratesTypes',
         \A f \in Cr!Path : v1'[f] \in {v1[f], None, Cr!Torn, v3},
         NEW t \in Owner \cup Reader, v4'[t] = v4[t]
  PROVE  JobBacked(t)'
<1>1. \A n \in Crate : FileOf[n] \in Cr!Path BY DEF Cr!Path
<1>2. v4[t].ver \in Nat /\ v3 \in Nat /\ JobBacked(t) BY DEF CratesInv, CratesTypes, CrateJob
<1> QED BY <1>1, <1>2 DEF JobBacked, NotOlder, Cr!Torn

LEMMA JobIdle ==
  ASSUME CratesInv, NEW t \in Owner \cup Reader, v3' \in Nat, v4'[t] = Cr!Idle
  PROVE  JobBacked(t)'
BY DEF JobBacked, Cr!Idle

\* The call of one thread goes on, the others' stay.
LEMMA JobsKeep ==
  ASSUME CratesInv, NEW t \in Owner \cup Reader, NEW j \in CrateJob, v4' = [v4 EXCEPT ![t] = j]
  PROVE  /\ v4' \in [Owner \cup Reader -> CrateJob] /\ v4'[t] = j
         /\ \A u \in Owner \cup Reader : u # t => v4'[u] = v4[u]
BY DEF CratesInv, CratesTypes

\* One thread goes on, files stay, are removed or written: it remains to show that
\* its own call is backed.
LEMMA CratesKeep ==
  ASSUME CratesInv, v3' = v3, v7' = v7, NEW t \in Owner \cup Reader,
         NEW j \in CrateJob, v4' = [v4 EXCEPT ![t] = j],
         v1' \in [Cr!Path -> Nat \cup {None}], v2' \in [Crate -> CrateRow \cup {None}],
         \A f \in Cr!Path : v1'[f] \in {v1[f], None, Cr!Torn, v3},
         \A n \in Crate : \/ v2'[n] = None
                          \/ v2'[n] # None /\ v2[n] # None /\ v2'[n].ver = v2[n].ver
                          \/ v2'[n].ver = v3 /\ NotOlder(FileOf[n], v3)',
         JobBacked(t)'
  PROVE  CratesInv'
<1>1. CratesTypes' BY JobsKeep DEF CratesInv, CratesTypes
<1>2. RowsBacked' BY <1>1, FilesKeep
<1>3. \A u \in Owner \cup Reader : JobBacked(u)' BY <1>1, JobsKeep, JobStays
<1>4. Cr!InfoNotAhead' BY DEF CratesInv, Cr!InfoNotAhead
<1> QED BY <1>1, <1>2, <1>3, <1>4 DEF CratesInv

LEMMA NextCrates == CratesInv /\ [Cr!Next]_(Cr!vars) => CratesInv'
<1>1. SUFFICES ASSUME CratesInv, [Cr!Next]_(Cr!vars) PROVE CratesInv' OBVIOUS
<1>2. /\ CratesTypes /\ RowsBacked /\ \A t \in Owner \cup Reader : JobBacked(t)
      /\ Cr!InfoNotAhead /\ \A n \in Crate : FileOf[n] \in Cr!Path
  BY <1>1 DEF CratesInv, CratesTypes, Cr!Path
<1>0. /\ v3 \in Nat /\ v1 \in [Cr!Path -> Nat \cup {None}]
      /\ v2 \in [Crate -> CrateRow \cup {None}] /\ v4 \in [Owner \cup Reader -> CrateJob]
  BY <1>1 DEF CratesInv, CratesTypes
<1>3. ASSUME NEW o \in Owner, Cr!Puts(o) PROVE CratesInv'
  <2>1. PICK n \in Crate :
          v4[o].name = n /\ v4[o].ver = v3 /\ v4[o] \in CrateJob /\ v4[o].ends \in Ends
    BY <1>0, <1>2, <1>3 DEF Cr!Puts, JobBacked, CrateJob
  <2>2. UNCHANGED <<v3, v5, v6, v7>> BY <1>3 DEF Cr!Puts, Cr!collector
  <2>3. ASSUME NEW at \in CrateAt, NEW x \in {0, v3}, at \in {"writes", "records"},
               v1' = [v1 EXCEPT ![FileOf[n]] = x], v2' = v2,
               v4' = [v4 EXCEPT ![o].at = at],
               at = "records" => x = v3
        PROVE  CratesInv'
    <3> DEFINE j == [v4[o] EXCEPT !.at = at]
    <3>1. j \in CrateJob /\ j.at = at /\ j.name = n /\ j.ver = v3 BY <2>1, CrateRecords
    <3>2. v4' = [v4 EXCEPT ![o] = j] BY <1>0, <2>3
    <3> HIDE DEF j
    <3>3. v4'[o] = j BY <1>1, <3>1, <3>2, JobsKeep
    <3>4. JobBacked(o)'
      <4>2. v1'[FileOf[n]] = x BY <1>0, <1>2, <2>3
      <4>3. v3' \in Nat /\ v3 = v3' BY <1>0, <2>2
      <4>4. at = "records" => NotOlder(FileOf[n], v3)' BY <2>3, <4>2, <4>3 DEF NotOlder
      <4>5. v3 <= v3 BY <1>0
      <4> QED BY <1>3, <2>3, <3>1, <3>3, <4>3, <4>4, <4>5 DEF JobBacked
    <3>5. v1' \in [Cr!Path -> Nat \cup {None}]
      <4>1. x \in Nat BY <1>0, <2>3
      <4> QED BY <1>0, <2>3, <4>1
    <3>6. \A f \in Cr!Path : v1'[f] \in {v1[f], None, Cr!Torn, v3}
      BY <1>0, <2>3 DEF Cr!Torn
    <3> QED BY <1>1, <1>0, <1>2, <2>2, <2>3, <3>1, <3>2, <3>4, <3>5, <3>6, CratesKeep
  <2>4. CASE v4[o].at = "opens"
    <3>1. v1' = [v1 EXCEPT ![FileOf[n]] = 0] /\ v2' = v2 /\ v4' = [v4 EXCEPT ![o].at = "writes"]
      BY <1>3, <2>1, <2>4, FollowingStage DEF Cr!Puts, Cr!Holds, Cr!Goes, Cr!Torn
    <3> QED BY <2>3, <3>1 DEF CrateAt
  <2>5. CASE v4[o].at = "writes"
    <3>1. v1' = [v1 EXCEPT ![FileOf[n]] = v3] /\ v2' = v2 /\ v4' = [v4 EXCEPT ![o].at = "records"]
      BY <1>3, <2>1, <2>5, FollowingStage DEF Cr!Puts, Cr!Holds, Cr!Goes
    <3> QED BY <2>3, <3>1 DEF CrateAt
  <2>6. CASE v4[o].at = "records"
    <3> DEFINE r == [ver |-> v3, ends |-> v4[o].ends]
    <3>1. v1' = v1 /\ v2' = [v2 EXCEPT ![n] = r] /\ v4' = [v4 EXCEPT ![o] = Cr!Idle]
      BY <1>3, <2>1, <2>6, FollowingStage DEF Cr!Puts, Cr!Tells, Cr!Returns
    <3>2. r \in CrateRow /\ r.ver = v3 BY <1>0, <1>2, <2>1, CrateRecords
    <3>3. NotOlder(FileOf[n], v3)'
      <4>1. NotOlder(FileOf[n], v3) BY <1>2, <2>1, <2>6 DEF JobBacked
      <4> QED BY <2>2, <3>1, <4>1 DEF NotOlder
    <3> HIDE DEF r
    <3>4. v2' \in [Crate -> CrateRow \cup {None}] BY <1>0, <3>1, <3>2
    <3>5. \A m \in Crate : v2'[m] = v2[m] \/ (m = n /\ v2'[m] = r) BY <1>0, <3>1
    <3>6. \A m \in Crate : \/ v2'[m] = None
                           \/ v2'[m] # None /\ v2[m] # None /\ v2'[m].ver = v2[m].ver
                           \/ v2'[m].ver = v3 /\ NotOlder(FileOf[m], v3)'
      BY <3>2, <3>3, <3>5
    <3>7. Cr!Idle \in CrateJob /\ v4'[o] = Cr!Idle BY <1>1, <3>1, CrateRecords, JobsKeep
    <3>8. JobBacked(o)' BY <1>1, <1>0, <1>2, <2>2, <3>7, JobIdle
    <3> QED BY <1>1, <1>0, <1>2, <2>2, <3>1, <3>4, <3>6, <3>7, <3>8, CratesKeep
  <2> QED BY <1>3, <2>4, <2>5, <2>6 DEF Cr!Puts
<1>4. ASSUME NEW t \in Owner \cup Reader, NEW at \in CrateAt, at \in {"forgets", "cleans"},
             v4[t].at # "idle", v4' = [v4 EXCEPT ![t].at = at],
             UNCHANGED <<v2, v3, v7>>,
             v1' = v1 \/ \E f \in Cr!Path : v1' = [v1 EXCEPT ![f] = None]
      PROVE  CratesInv'
  <2> DEFINE j == [v4[t] EXCEPT !.at = at]
  <2>1. v4[t] \in CrateJob BY <1>0, <1>2
  <2>2. j \in CrateJob /\ j.at = at /\ j.name = v4[t].name /\ j.ver = v4[t].ver
    BY <2>1, CrateRecords
  <2>3. v4' = [v4 EXCEPT ![t] = j] BY <1>0, <1>2, <1>4
  <2> HIDE DEF j
  <2>4. v4'[t] = j BY <1>1, <2>2, <2>3, JobsKeep
  <2>5. JobBacked(t)' BY <1>0, <1>2, <1>4, <2>2, <2>4 DEF JobBacked
  <2>6. v1' \in [Cr!Path -> Nat \cup {None}] /\ \A f \in Cr!Path : v1'[f] \in {v1[f], None, Cr!Torn, v3}
    BY <1>0, <1>2, <1>4
  <2> QED BY <1>1, <1>0, <1>2, <1>4, <2>2, <2>3, <2>5, <2>6, CratesKeep
<1>5. ASSUME NEW t \in Owner \cup Reader, v4' = [v4 EXCEPT ![t] = Cr!Idle],
             UNCHANGED <<v1, v3>>,
             v2' = v2 \/ \E n \in Crate : v2' = [v2 EXCEPT ![n] = None], Cr!InfoNotAhead'
      PROVE  CratesInv'
  <2>1. Cr!Idle \in CrateJob /\ v4'[t] = Cr!Idle /\ v4' \in [Owner \cup Reader -> CrateJob]
        /\ \A u \in Owner \cup Reader : u # t => v4'[u] = v4[u]
    BY <1>1, <1>5, CrateRecords, JobsKeep
  <2>2. v2' \in [Crate -> CrateRow \cup {None}] /\ \A m \in Crate : v2'[m] \in {v2[m], None}
    BY <1>0, <1>2, <1>5
  <2>3. CratesTypes' BY <1>0, <1>2, <1>5, <2>1, <2>2 DEF CratesTypes
  <2>4. RowsBacked' BY <1>1, <1>0, <1>2, <1>5, <2>2, <2>3, FilesKeep
  <2>5. \A u \in Owner \cup Reader : JobBacked(u)' BY <1>1, <1>0, <1>2, <1>5, <2>1, <2>3, JobStays, JobIdle
  <2> QED BY <1>5, <2>3, <2>4, <2>5 DEF CratesInv
<1>6. ASSUME NEW o \in Owner, Cr!Deletes(o) PROVE CratesInv'
  <2>1. CASE v4[o].at = "unlinks"
    <3>1. v4[o].name \in Crate BY <1>0, <1>2, <2>1 DEF JobBacked
    <3> QED BY <1>0, <1>2, <1>4, <1>6, <2>1, <3>1 DEF Cr!Deletes, Cr!Holds, Cr!Goes, CrateAt
  <2>2. CASE v4[o].at = "forgets"
    <3>1. v4[o].name \in Crate BY <1>0, <1>2, <2>2 DEF JobBacked
    <3> QED BY <1>0, <1>2, <1>5, <1>6, <2>2, <3>1 DEF Cr!Deletes, Cr!Tells, Cr!Returns, Cr!InfoNotAhead
  <2> QED BY <1>6, <2>1, <2>2 DEF Cr!Deletes
<1>7. ASSUME NEW o \in Owner, Cr!Fails(o) PROVE CratesInv'
  BY <1>0, <1>2, <1>5, <1>7 DEF Cr!Fails, Cr!Returns, Cr!InfoNotAhead
<1>8. ASSUME NEW o \in Owner, NEW n \in Crate, Cr!BeginPut(o, n) PROVE CratesInv'
  <2>1. UNCHANGED <<v1, v2, v7>> /\ v3' = v3 + 1 /\ v4[o] = Cr!Idle
    BY <1>8, FollowingStage DEF Cr!BeginPut, Cr!Begins
  <2>2. PICK e \in Ends :
          v4' = [v4 EXCEPT ![o] = [at |-> "opens", name |-> n, ver |-> v3 + 1, ends |-> e]]
    BY <1>8, FollowingStage DEF Cr!BeginPut, Cr!Begins, Ends
  <2> DEFINE j == [at |-> "opens", name |-> n, ver |-> v3 + 1, ends |-> e]
  <2>3. j \in CrateJob /\ j.at = "opens" /\ j.name = n /\ j.ver = v3 + 1
    BY <1>0, <1>2 DEF CrateJob, CrateAt
  <2> HIDE DEF j
  <2>4. /\ v4'[o] = j /\ v4' \in [Owner \cup Reader -> CrateJob]
        /\ \A u \in Owner \cup Reader : u # o => v4'[u] = v4[u]
    BY <1>1, <2>2, <2>3, JobsKeep DEF j
  <2>5. CratesTypes' BY <1>0, <1>2, <2>1, <2>4 DEF CratesTypes
  <2>6. RowsBacked'
    <3>1. \A r \in CrateRow : r.ver \in Nat BY DEF CrateRow
    <3>2. \A m \in Crate : v2[m] # None => v2[m].ver \in Nat BY <1>0, <1>2, <3>1
    <3> QED BY <1>0, <1>2, <2>1, <3>2 DEF RowsBacked, NotOlder
  <2>7. JobBacked(o)' BY <2>1, <2>3, <2>4 DEF JobBacked
  <2>8. ASSUME NEW u \in Owner \cup Reader, u # o PROVE JobBacked(u)'
    <3>1. u \notin Owner BY <2>8, MCStoresAssumption DEF Single
    <3>2. v4[u].ver \in Nat BY <1>0, <1>2 DEF CrateJob
    <3> QED BY <1>0, <1>2, <2>1, <2>4, <2>8, <3>1, <3>2 DEF JobBacked, NotOlder
  <2> QED BY <1>0, <1>2, <2>1, <2>5, <2>6, <2>7, <2>8 DEF CratesInv, Cr!InfoNotAhead
<1>9. ASSUME NEW o \in Owner, NEW n \in Crate, Cr!BeginDelete(o, n) PROVE CratesInv'
  <2> DEFINE j == [at |-> "unlinks", name |-> n, ver |-> 0, ends |-> "never"]
  <2>1. UNCHANGED <<v1, v2, v3, v7>> /\ v4' = [v4 EXCEPT ![o] = j]
    BY <1>9 DEF Cr!BeginDelete, Cr!Begins
  <2>2. j \in CrateJob /\ j.at = "unlinks" /\ j.name = n /\ j.ver = 0
    BY DEF CrateJob, CrateAt, Ends
  <2> HIDE DEF j
  <2>3. v4'[o] = j BY <1>1, <2>1, <2>2, JobsKeep
  <2>4. JobBacked(o)' BY <1>0, <1>2, <2>1, <2>2, <2>3 DEF JobBacked
  <2> QED BY <1>1, <1>0, <1>2, <2>1, <2>2, <2>4, CratesKeep
<1>10. ASSUME NEW r \in Reader, NEW n \in Crate, Cr!Looks(r, n) PROVE CratesInv'
  <2>1. UNCHANGED <<v1, v2, v3>> /\ v7' = [v7 EXCEPT ![r] = None]
    BY <1>10 DEF Cr!Looks
  <2>2. Cr!InfoNotAhead' BY <1>2, <2>1 DEF Cr!InfoNotAhead
  <2>3. CASE Cr!Live(n)
    <3>1. PICK j \in CrateJob :
            /\ v4' = [v4 EXCEPT ![r] = j] /\ j.at = "reads" /\ j.name = n /\ j.ver = v2[n].ver
      <4>1. v2[n] \in CrateRow BY <1>0, <2>3 DEF Cr!Live
      <4>2. v2[n].ver \in Nat BY <4>1 DEF CrateRow
      <4>3. [at |-> "reads", name |-> n, ver |-> v2[n].ver, ends |-> "never"] \in CrateJob
        BY <4>2 DEF CrateJob, CrateAt, Ends
      <4> QED BY <1>10, <2>3, <4>3 DEF Cr!Looks, Cr!Begins
    <3>2. /\ v4'[r] = j /\ v4' \in [Owner \cup Reader -> CrateJob]
          /\ \A u \in Owner \cup Reader : u # r => v4'[u] = v4[u]
      BY <1>1, <3>1, JobsKeep
    <3>3. CratesTypes' BY <1>0, <2>1, <3>2 DEF CratesTypes
    <3>4. RowsBacked' BY <1>2, <2>1 DEF RowsBacked, NotOlder
    <3>5. v2[n].ver <= v3 /\ NotOlder(FileOf[n], v2[n].ver)
      BY <1>2, <2>3 DEF RowsBacked, Cr!Live
    <3>6. JobBacked(r)' BY <2>1, <3>1, <3>2, <3>5 DEF JobBacked, NotOlder
    <3>7. \A u \in Owner \cup Reader : JobBacked(u)'
      BY <1>1, <1>0, <2>1, <3>2, <3>3, <3>6, JobStays
    <3> QED BY <2>2, <3>3, <3>4, <3>7 DEF CratesInv
  <2>4. CASE ~Cr!Live(n)
    <3>1. v4' = v4 BY <1>10, <2>4 DEF Cr!Looks
    <3> QED BY <1>2, <2>1, <2>2, <3>1 DEF CratesInv, CratesTypes, RowsBacked, JobBacked, NotOlder
  <2> QED BY <2>3, <2>4
<1>11. ASSUME NEW r \in Reader, Cr!Reads(r) PROVE CratesInv'
  <2>1. PICK n \in Crate : v4[r].name = n BY <1>2, <1>11 DEF Cr!Reads, JobBacked
  <2>2. UNCHANGED <<v1, v2, v3>> /\ v4[r].at = "reads" BY <1>11 DEF Cr!Reads
  <2>3. CASE v2[n] # None /\ v1[FileOf[n]] = None
    <3>1. v4' = [v4 EXCEPT ![r].at = "cleans"] /\ v7' = v7
      BY <1>11, <2>1, <2>3 DEF Cr!Reads, Cr!Goes
    <3> QED BY <1>4, <2>2, <3>1 DEF CrateAt
  <2>4. CASE v2[n] = None
    <3>1. v4' = [v4 EXCEPT ![r] = Cr!Idle] /\ v7' = v7
      BY <1>11, <2>1, <2>4 DEF Cr!Reads, Cr!Returns
    <3> QED BY <1>2, <1>5, <2>2, <3>1 DEF Cr!InfoNotAhead
  <2>5. CASE v2[n] # None /\ v1[FileOf[n]] # None
    <3>1. /\ v4' = [v4 EXCEPT ![r] = Cr!Idle]
          /\ v7' = [v7 EXCEPT ![r] = [data |-> v1[FileOf[n]], info |-> v4[r].ver]]
      BY <1>11, <2>1, <2>5 DEF Cr!Reads, Cr!Returns
    <3>2. v1[FileOf[n]] = Cr!Torn \/ v1[FileOf[n]] >= v4[r].ver
      BY <1>2, <2>1, <2>2, <2>5 DEF JobBacked, NotOlder
    <3>3. \A u \in Reader : v7'[u] = v7[u] \/ v7'[u] = [data |-> v1[FileOf[n]], info |-> v4[r].ver]
      BY <3>1
    <3>4. Cr!InfoNotAhead' BY <1>2, <3>2, <3>3 DEF Cr!InfoNotAhead
    <3> QED BY <1>5, <2>2, <3>1, <3>4
  <2> QED BY <2>3, <2>4, <2>5
<1>12. ASSUME NEW r \in Reader, Cr!Cleans(r) PROVE CratesInv'
  <2>1. v4[r].name \in Crate BY <1>2, <1>12 DEF Cr!Cleans, JobBacked
  <2> QED BY <1>2, <1>5, <1>12, <2>1 DEF Cr!Cleans, Cr!Tells, Cr!Returns, Cr!InfoNotAhead
\* The collector and the clock: no call goes on.
<1>13. ASSUME UNCHANGED <<v3, v4, v7>>,
              v1' = v1 \/ \E f \in Cr!Path : v1' = [v1 EXCEPT ![f] = None],
              v2' \in [Crate -> CrateRow \cup {None}],
              \A n \in Crate : \/ v2'[n] = None
                               \/ v2'[n] # None /\ v2[n] # None /\ v2'[n].ver = v2[n].ver
       PROVE  CratesInv'
  <2>1. v1' \in [Cr!Path -> Nat \cup {None}] /\ \A f \in Cr!Path : v1'[f] \in {v1[f], None, Cr!Torn, v3}
    BY <1>0, <1>13
  <2>2. CratesTypes' BY <1>0, <1>13, <2>1 DEF CratesTypes
  <2>3. RowsBacked' BY <1>1, <1>13, <2>1, <2>2, FilesKeep
  <2>4. \A u \in Owner \cup Reader : JobBacked(u)' BY <1>1, <1>13, <2>1, <2>2, JobStays
  <2> QED BY <1>2, <1>13, <2>2, <2>3, <2>4 DEF CratesInv, Cr!InfoNotAhead
<1>14. CASE Cr!GcSelects \/ UNCHANGED Cr!vars
  <2>1. UNCHANGED <<v1, v2, v3, v4, v7>> BY <1>14 DEF Cr!GcSelects, Cr!vars
  <2> QED BY <1>0, <1>13, <2>1
<1>15. CASE Cr!GcForgets
  <2>1. /\ UNCHANGED <<v1, v3, v4, v7>>
        /\ v2' \in [Crate -> CrateRow \cup {None}] /\ \A n \in Crate : v2'[n] \in {v2[n], None}
    BY <1>0, <1>15 DEF Cr!GcForgets
  <2> QED BY <1>13, <2>1
<1>16. ASSUME NEW n \in Crate, Cr!GcUnlinks(n) PROVE CratesInv'
  BY <1>0, <1>2, <1>13, <1>16 DEF Cr!GcUnlinks, Cr!Holds
<1>17. ASSUME NEW n \in Crate, Cr!Expire(n) PROVE CratesInv'
  <2>1. v2[n] \in CrateRow BY <1>0, <1>17 DEF Cr!Expire
  <2> DEFINE r == [v2[n] EXCEPT !.ends = "over"]
  <2>2. r \in CrateRow /\ r.ver = v2[n].ver BY <2>1, CrateRecords DEF Ends
  <2>3. v2' = [v2 EXCEPT ![n] = r] /\ UNCHANGED <<v1, v3, v4, v7>> /\ v2[n] # None
    BY <1>17 DEF Cr!Expire, Cr!Tells
  <2> HIDE DEF r
  <2>4. /\ v2' \in [Crate -> CrateRow \cup {None}]
        /\ \A m \in Crate : v2'[m] = v2[m] \/ (m = n /\ v2'[m] = r)
    BY <1>0, <2>2, <2>3
  <2>5. \A m \in Crate : \/ v2'[m] = None
                         \/ v2'[m] # None /\ v2[m] # None /\ v2'[m].ver = v2[m].ver
    BY <2>2, <2>3, <2>4
  <2> QED BY <1>13, <2>3, <2>4, <2>5
<1> QED
  BY <1>1, <1>3, <1>6, <1>7, <1>8, <1>9, <1>10, <1>11, <1>12, <1>14, <1>15, <1>16, <1>17
  DEF Cr!Next

-----------------------------------------------------------------------------
(* Hosted apps: container is v1, volume v2, made v4, instance v5 and       *)
(* thread v6.                                                              *)

LEMMA AppsOnly ==
  /\ Init /\ Is("apps") => Ha!Init
  /\ [Next]_all /\ Is("apps") => [Ha!Next]_(Ha!vars)
BY DEF Init, Next, Is, Ha!vars, Ha!docker, Ha!browser, all

Task == [op : {"none", "create", "start", "stop", "destroy"},
         at : {"none", "first", "volume", "container", "started", "told", "removed"},
         name : App \cup {None}, no : Nat]
AppRecord == [no : Nat, running : BOOLEAN]

Destroys(t, n) == v6[t].op = "destroy" /\ v6[t].name = n
Makes(t, n) == v6[t].op = "create" /\ v6[t].at \in {"container", "started"} /\ v6[t].name = n

AppsTypes ==
  /\ v1 \in [App -> Nat] /\ v2 \in [App -> Nat] /\ v4 \in Nat
  /\ v5 \in [App -> AppRecord] /\ v6 \in [Worker -> Task]
  /\ \A t \in Worker : v6[t].op # "none" => v6[t].name \in App

\* At most one thread makes, and at most one destroys, what has a name; whoever has
\* made a container not yet listed still has it, and it is there to be destroyed.
Listed(n) == v5[n].no # 0 => v1[n] # 0 \/ \E t \in Worker : Destroys(t, n)
OneDestroyer(n) == \A t, u \in Worker : Destroys(t, n) /\ Destroys(u, n) => t = u
OneMaker(n) == \A t, u \in Worker : Makes(t, n) /\ Makes(u, n) => t = u
MakerHas(n) ==
  \A t \in Worker : Makes(t, n) =>
    v1[n] # 0 /\ (v5[n].no # 0 => \E u \in Worker : Destroys(u, n))
DestroyerHas(n) ==
  \A t \in Worker : Destroys(t, n) /\ v6[t].at = "first" =>
    v1[n] # 0 /\ \A u \in Worker : ~Makes(u, n)

AppInv(n) ==
  /\ v1[n] # 0 => v2[n] # 0
  /\ Listed(n) /\ OneDestroyer(n) /\ OneMaker(n) /\ MakerHas(n) /\ DestroyerHas(n)

AppsInv == AppsTypes /\ \A n \in App : AppInv(n)

LEMMA TaskRecords ==
  /\ Ha!Idle \in Task /\ Ha!Idle.op = "none" /\ Ha!Idle.at = "none"
  /\ \A j \in Task, at \in {"volume", "container", "started", "told", "removed"} :
       /\ [j EXCEPT !.at = at] \in Task
       /\ [j EXCEPT !.at = at].at = at /\ [j EXCEPT !.at = at].op = j.op
       /\ [j EXCEPT !.at = at].name = j.name
  /\ \A j \in Task, m \in Nat :
       /\ [j EXCEPT !.at = "container", !.no = m] \in Task
       /\ [j EXCEPT !.at = "container", !.no = m].at = "container"
       /\ [j EXCEPT !.at = "container", !.no = m].op = j.op
       /\ [j EXCEPT !.at = "container", !.no = m].name = j.name
  /\ Ha!NoInstance \in AppRecord /\ Ha!NoInstance.no = 0
  /\ \A r \in AppRecord, b \in BOOLEAN :
       [r EXCEPT !.running = b] \in AppRecord /\ [r EXCEPT !.running = b].no = r.no
<1>1. Ha!Idle \in Task /\ Ha!Idle.op = "none" /\ Ha!Idle.at = "none" BY DEF Task, Ha!Idle
<1>2. ASSUME NEW j \in Task, NEW at \in {"volume", "container", "started", "told", "removed"}
      PROVE  /\ [j EXCEPT !.at = at] \in Task
             /\ [j EXCEPT !.at = at].at = at /\ [j EXCEPT !.at = at].op = j.op
             /\ [j EXCEPT !.at = at].name = j.name
  BY DEF Task
<1>3. ASSUME NEW j \in Task, NEW m \in Nat
      PROVE  /\ [j EXCEPT !.at = "container", !.no = m] \in Task
             /\ [j EXCEPT !.at = "container", !.no = m].at = "container"
             /\ [j EXCEPT !.at = "container", !.no = m].op = j.op
             /\ [j EXCEPT !.at = "container", !.no = m].name = j.name
  BY DEF Task
<1>4. Ha!NoInstance \in AppRecord /\ Ha!NoInstance.no = 0 BY DEF AppRecord, Ha!NoInstance
<1>5. ASSUME NEW r \in AppRecord, NEW b \in BOOLEAN
      PROVE  [r EXCEPT !.running = b] \in AppRecord /\ [r EXCEPT !.running = b].no = r.no
  BY DEF AppRecord
<1> QED BY <1>1, <1>2, <1>3, <1>4, <1>5

LEMMA InitApps == Ha!Init => AppsInv
<1>1. SUFFICES ASSUME Ha!Init PROVE AppsInv OBVIOUS
<1>2. AppsTypes BY <1>1, TaskRecords DEF Ha!Init, AppsTypes, Ha!Idle
<1>3. /\ \A n \in App : v1[n] = 0 /\ v5[n].no = 0
      /\ \A t \in Worker : v6[t].op = "none"
  BY <1>1, TaskRecords DEF Ha!Init, Ha!Idle
<1>4. \A n \in App, t \in Worker : ~Destroys(t, n) /\ ~Makes(t, n) BY <1>3 DEF Destroys, Makes
<1> QED
  BY <1>2, <1>3, <1>4 DEF AppsInv, AppInv, Listed, OneDestroyer, OneMaker, MakerHas, DestroyerHas

\* One thread goes on to task j.
LEMMA TasksKeep ==
  ASSUME AppsTypes, NEW t \in Worker, NEW j \in Task, v6' = [v6 EXCEPT ![t] = j],
         j.op # "none" => j.name \in App
  PROVE  /\ v6' \in [Worker -> Task] /\ v6'[t] = j
         /\ \A u \in Worker : v6'[u].op # "none" => v6'[u].name \in App
         /\ \A u \in Worker : u # t => v6'[u] = v6[u]
BY DEF AppsTypes

LEMMA NextApps == AppsInv /\ [Ha!Next]_(Ha!vars) => AppsInv'
<1>1. SUFFICES ASSUME AppsInv, [Ha!Next]_(Ha!vars) PROVE AppsInv' OBVIOUS
<1>2. AppsTypes BY <1>1 DEF AppsInv
<1>20. \A n \in App : AppInv(n) BY <1>1 DEF AppsInv
<1>3. ASSUME NEW t \in Worker, NEW n \in App,
             NEW op \in {"create", "start", "stop", "destroy"}, Ha!Begin(t, op, n)
      PROVE  AppsInv'
  <2> DEFINE j == [op |-> op, at |-> "first", name |-> n, no |-> v5[n].no]
  <2>1. /\ UNCHANGED <<v1, v2, v4, v5>> /\ v6' = [v6 EXCEPT ![t] = j]
        /\ v6[t] = Ha!Idle /\ (op = "destroy" => v5[n].no # 0)
        /\ op = "destroy" => \A u \in Worker : ~Destroys(u, n)
    BY <1>3 DEF Ha!Begin, Ha!docker, Ha!Known, Destroys
  <2>2. j \in Task /\ j.op = op /\ j.at = "first" /\ j.name = n
    <3>1. v5[n] \in AppRecord BY <1>2 DEF AppsTypes
    <3>2. v5[n].no \in Nat BY <3>1 DEF AppRecord
    <3> QED BY <3>2 DEF Task
  <2> HIDE DEF j
  <2>3. /\ v6' \in [Worker -> Task] /\ v6'[t] = j
        /\ \A u \in Worker : v6'[u].op # "none" => v6'[u].name \in App
        /\ \A u \in Worker : u # t => v6'[u] = v6[u]
    BY <1>2, <2>1, <2>2, TasksKeep
  <2>4. AppsTypes' BY <1>2, <2>1, <2>3 DEF AppsTypes
  <2>5. \A u \in Worker, m \in App :
          /\ Makes(u, m)' <=> Makes(u, m)
          /\ Destroys(u, m)' <=> Destroys(u, m) \/ (op = "destroy" /\ u = t /\ m = n)
    BY <2>1, <2>2, <2>3 DEF Makes, Destroys, Ha!Idle
  <2>6. ASSUME NEW m \in App PROVE AppInv(m)'
    <3>1. AppInv(m) /\ v1'[m] = v1[m] /\ v2'[m] = v2[m] /\ v5'[m] = v5[m] BY <1>20, <2>1
    <3>2. Listed(m)' BY <2>5, <3>1 DEF AppInv, Listed
    <3>3. OneDestroyer(m)' /\ OneMaker(m)' BY <2>1, <2>5, <3>1 DEF AppInv, OneDestroyer, OneMaker
    <3>4. MakerHas(m)' BY <2>5, <3>1 DEF AppInv, MakerHas
    <3>5. DestroyerHas(m)'
      <4>1. SUFFICES ASSUME NEW u \in Worker, Destroys(u, m)', v6'[u].at = "first"
                     PROVE  v1[m] # 0 /\ \A x \in Worker : ~Makes(x, m)
        BY <2>5, <3>1 DEF DestroyerHas
      <4>2. CASE Destroys(u, m)
        <5>1. u # t BY <2>1, <4>2 DEF Destroys, Ha!Idle
        <5> QED BY <2>3, <3>1, <4>1, <4>2, <5>1 DEF AppInv, DestroyerHas
      <4>3. CASE op = "destroy" /\ m = n
        BY <2>1, <3>1, <4>3 DEF AppInv, MakerHas, Listed
      <4> QED BY <2>5, <4>1, <4>2, <4>3
    <3> QED BY <3>1, <3>2, <3>3, <3>4, <3>5 DEF AppInv
  <2> QED BY <2>4, <2>6 DEF AppsInv
\* A thread goes on which is not about to make anything, and nothing is removed.
<1>4. ASSUME NEW t \in Worker, NEW j \in Task, v6' = [v6 EXCEPT ![t] = j],
             j = Ha!Idle \/ (j.op = v6[t].op /\ j.name = v6[t].name /\ j.at # "first" /\ v6[t].op # "none"),
             j.at \in {"container", "started"} => v6[t].at \in {"container", "started"} \/ j.op # "create",
             j = Ha!Idle => v6[t].op # "destroy",
             UNCHANGED <<v1, v4, v5>>, v2' \in [App -> Nat],
             \A n \in App : v2[n] # 0 => v2'[n] # 0
      PROVE  AppsInv'
  <2>1. v6[t] \in Task /\ (v6[t].op # "none" => v6[t].name \in App) BY <1>2 DEF AppsTypes
  <2>2. Ha!Idle.op = "none" /\ Ha!Idle.at = "none" BY DEF Ha!Idle
  <2>3. j.op # "none" => j.name \in App BY <1>4, <2>1, <2>2
  <2>4. /\ v6' \in [Worker -> Task] /\ v6'[t] = j
        /\ \A u \in Worker : v6'[u].op # "none" => v6'[u].name \in App
        /\ \A u \in Worker : u # t => v6'[u] = v6[u]
    BY <1>2, <1>4, <2>3, TasksKeep
  <2>5. AppsTypes' BY <1>2, <1>4, <2>4 DEF AppsTypes
  <2>6. \A u \in Worker, m \in App :
          /\ Makes(u, m)' => Makes(u, m)
          /\ Destroys(u, m)' <=> Destroys(u, m)
    BY <1>4, <2>2, <2>4 DEF Makes, Destroys
  <2>7. \A u \in Worker : v6'[u].at = "first" => v6[u].at = "first"
    BY <1>4, <2>2, <2>4
  <2>8. ASSUME NEW m \in App PROVE AppInv(m)'
    <3>1. AppInv(m) /\ v1'[m] = v1[m] /\ v5'[m] = v5[m] BY <1>20, <1>4
    <3>2. Listed(m)' BY <2>6, <3>1 DEF AppInv, Listed
    <3>3. OneDestroyer(m)' /\ OneMaker(m)' BY <2>6, <3>1 DEF AppInv, OneDestroyer, OneMaker
    <3>4. MakerHas(m)' BY <2>6, <3>1 DEF AppInv, MakerHas
    <3>5. DestroyerHas(m)' BY <2>6, <2>7, <3>1 DEF AppInv, DestroyerHas
    <3> QED BY <1>4, <3>1, <3>2, <3>3, <3>4, <3>5 DEF AppInv
  <2> QED BY <2>5, <2>8 DEF AppsInv
<1>5. ASSUME NEW t \in Worker, Ha!MakeVolume(t) PROVE AppsInv'
  <2> DEFINE j == [v6[t] EXCEPT !.at = "volume"]
  <2>1. v6[t] \in Task /\ v6[t].op = "create" BY <1>2, <1>5 DEF AppsTypes, Ha!MakeVolume, Ha!At
  <2>2. j \in Task /\ j.at = "volume" /\ j.op = v6[t].op /\ j.name = v6[t].name
    BY <2>1, TaskRecords
  <2>3. v6' = [v6 EXCEPT ![t] = j] /\ UNCHANGED <<v1, v4, v5>>
    BY <1>2, <1>5 DEF Ha!MakeVolume, Ha!Go, AppsTypes
  <2> HIDE DEF j
  <2>4. v2' \in [App -> Nat] /\ \A n \in App : v2[n] # 0 => v2'[n] # 0
    <3>1. PICK n \in App : v2' = [v2 EXCEPT ![n] = IF v2[n] = 0 THEN v4 + 1 ELSE v2[n]]
      BY <1>2, <1>5, <2>1 DEF Ha!MakeVolume, AppsTypes
    <3>2. v4 + 1 \in Nat /\ v4 + 1 # 0 /\ v2 \in [App -> Nat] BY <1>2 DEF AppsTypes
    <3> QED BY <3>1, <3>2
  <2> QED BY <1>4, <2>1, <2>2, <2>3, <2>4, TaskRecords DEF Ha!Idle
<1>6. ASSUME NEW t \in Worker, Ha!MakeContainer(t) PROVE AppsInv'
  <2>1. PICK n \in App : v6[t] \in Task /\ v6[t].op = "create" /\ v6[t].at = "volume" /\ v6[t].name = n
    BY <1>2, <1>6 DEF AppsTypes, Ha!MakeContainer, Ha!At
  <2>2. CASE v1[n] # 0
    <3>1. v6' = [v6 EXCEPT ![t] = Ha!Idle] /\ UNCHANGED <<v1, v2, v4, v5>>
      BY <1>6, <2>1, <2>2 DEF Ha!MakeContainer, Ha!Done, Ha!docker
    <3> QED BY <1>2, <1>4, <2>1, <3>1, TaskRecords DEF Ha!Idle, AppsTypes
  <2>3. CASE v1[n] = 0
    <3> DEFINE j == [v6[t] EXCEPT !.at = "container", !.no = v4 + 1]
    <3>1. v4 \in Nat /\ v4 + 1 \in Nat /\ v4 + 1 # 0 BY <1>2 DEF AppsTypes
    <3>2. j \in Task /\ j.at = "container" /\ j.op = "create" /\ j.name = n
      BY <2>1, <3>1 DEF Task
    <3>3. /\ v6' = [v6 EXCEPT ![t] = j] /\ v4' = v4 + 1 /\ v5' = v5
          /\ v1' = [v1 EXCEPT ![n] = v4 + 1]
          /\ v2' = [v2 EXCEPT ![n] = IF @ = 0 THEN v4 + 1 ELSE @]
      BY <1>2, <1>6, <2>1, <2>3 DEF Ha!MakeContainer, AppsTypes
    <3> HIDE DEF j
    <3>4. /\ v6' \in [Worker -> Task] /\ v6'[t] = j
          /\ \A u \in Worker : v6'[u].op # "none" => v6'[u].name \in App
          /\ \A u \in Worker : u # t => v6'[u] = v6[u]
      BY <1>2, <2>1, <3>2, <3>3, TasksKeep
    <3>5. /\ v1' \in [App -> Nat] /\ v2' \in [App -> Nat] /\ v1'[n] # 0 /\ v2'[n] # 0
          /\ \A m \in App : m # n => v1'[m] = v1[m] /\ v2'[m] = v2[m]
      BY <1>2, <3>1, <3>3 DEF AppsTypes
    <3>6. AppsTypes' BY <1>2, <3>1, <3>3, <3>4, <3>5 DEF AppsTypes
    <3>7. \A u \in Worker, m \in App :
            /\ Makes(u, m)' <=> Makes(u, m) \/ (u = t /\ m = n)
            /\ Destroys(u, m)' <=> Destroys(u, m)
      BY <2>1, <3>2, <3>4 DEF Makes, Destroys
    <3>8. \A u \in Worker : v6'[u].at = "first" => v6[u].at = "first" BY <3>2, <3>4
    <3>9. ASSUME NEW m \in App PROVE AppInv(m)'
      <4>1. AppInv(m) /\ v5'[m] = v5[m] BY <1>20, <3>3
      <4>2. m = n => \A u \in Worker : ~Makes(u, m) /\ ~(Destroys(u, m) /\ v6[u].at = "first")
        BY <2>3, <4>1 DEF AppInv, MakerHas, DestroyerHas
      <4>3. Listed(m)' BY <3>5, <3>7, <4>1 DEF AppInv, Listed
      <4>4. OneDestroyer(m)' /\ OneMaker(m)'
        <5>1. CASE m = n
          <6>1. \A u \in Worker : (Makes(u, m)' <=> u = t) /\ (Destroys(u, m)' <=> Destroys(u, m))
            BY <3>7, <4>2, <5>1
          <6> QED BY <4>1, <6>1 DEF AppInv, OneDestroyer, OneMaker
        <5>2. CASE m # n BY <3>7, <4>1, <5>2 DEF AppInv, OneDestroyer, OneMaker
        <5> QED BY <5>1, <5>2
      <4>5. MakerHas(m)' BY <2>3, <3>5, <3>7, <4>1 DEF AppInv, MakerHas, Listed
      <4>6. DestroyerHas(m)'
        BY <3>5, <3>7, <3>8, <4>1, <4>2 DEF AppInv, DestroyerHas
      <4> QED BY <3>5, <4>1, <4>3, <4>4, <4>5, <4>6 DEF AppInv
    <3> QED BY <3>6, <3>9 DEF AppsInv
  <2> QED BY <2>2, <2>3
<1>7. ASSUME NEW t \in Worker, Ha!StartMade(t) PROVE AppsInv'
  <2> DEFINE j == [v6[t] EXCEPT !.at = "started"]
  <2>1. v6[t] \in Task /\ v6[t].op = "create" /\ v6[t].at = "container"
    BY <1>2, <1>7 DEF AppsTypes, Ha!StartMade, Ha!At
  <2>2. j \in Task /\ j.at = "started" /\ j.op = v6[t].op /\ j.name = v6[t].name
    BY <2>1, TaskRecords
  <2>3. UNCHANGED <<v1, v2, v4, v5>> /\ (v6' = [v6 EXCEPT ![t] = j] \/ v6' = [v6 EXCEPT ![t] = Ha!Idle])
    BY <1>2, <1>7 DEF Ha!StartMade, Ha!Go, Ha!Done, AppsTypes
  <2> HIDE DEF j
  <2>4. v2' \in [App -> Nat] /\ \A n \in App : v2[n] # 0 => v2'[n] # 0
    BY <1>2, <2>3 DEF AppsTypes
  <2>5. CASE v6' = [v6 EXCEPT ![t] = j]
    BY <1>4, <2>1, <2>2, <2>3, <2>4, <2>5
  <2>6. CASE v6' = [v6 EXCEPT ![t] = Ha!Idle]
    BY <1>4, <2>1, <2>3, <2>4, <2>6, TaskRecords DEF Ha!Idle
  <2> QED BY <2>3, <2>5, <2>6
<1>8. ASSUME NEW t \in Worker, Ha!Record(t) PROVE AppsInv'
  <2>1. PICK n \in App : v6[t] \in Task /\ v6[t].op = "create" /\ v6[t].at = "started" /\ v6[t].name = n
    BY <1>2, <1>8 DEF AppsTypes, Ha!Record, Ha!At
  <2> DEFINE r == [no |-> v6[t].no, running |-> TRUE]
  <2>2. /\ v6' = [v6 EXCEPT ![t] = Ha!Idle] /\ UNCHANGED <<v1, v2, v4>>
        /\ v5' = [v5 EXCEPT ![n] = r] /\ r \in AppRecord
    <3>1. v6[t].no \in Nat BY <2>1 DEF Task
    <3> QED BY <1>8, <2>1, <3>1 DEF Ha!Record, Ha!Done, Ha!docker, AppRecord
  <2> HIDE DEF r
  <2>3. /\ v6' \in [Worker -> Task] /\ v6'[t] = Ha!Idle
        /\ \A u \in Worker : v6'[u].op # "none" => v6'[u].name \in App
        /\ \A u \in Worker : u # t => v6'[u] = v6[u]
    BY <1>2, <2>2, TasksKeep, TaskRecords
  <2>4. v5' \in [App -> AppRecord] /\ \A m \in App : m # n => v5'[m] = v5[m]
    BY <1>2, <2>2 DEF AppsTypes
  <2>5. AppsTypes' BY <1>2, <2>2, <2>3, <2>4 DEF AppsTypes
  <2>6. \A u \in Worker, m \in App :
          /\ Makes(u, m)' <=> Makes(u, m) /\ u # t
          /\ Destroys(u, m)' <=> Destroys(u, m)
    BY <2>1, <2>3 DEF Makes, Destroys, Ha!Idle
  <2>7. \A u \in Worker : v6'[u].at = "first" => v6[u].at = "first" BY <2>3 DEF Ha!Idle
  <2>8. ASSUME NEW m \in App PROVE AppInv(m)'
    <3>1. AppInv(m) /\ v1'[m] = v1[m] /\ v2'[m] = v2[m] /\ (m # n => v5'[m] = v5[m])
      BY <1>20, <2>2, <2>4
    <3>2. m = n => Makes(t, m) /\ v1[m] # 0 /\ \A u \in Worker : u # t => ~Makes(u, m)
      BY <2>1, <3>1 DEF AppInv, Makes, MakerHas, OneDestroyer, OneMaker
    <3>3. Listed(m)' BY <2>6, <3>1, <3>2 DEF AppInv, Listed
    <3>4. OneDestroyer(m)' /\ OneMaker(m)' BY <2>6, <3>1 DEF AppInv, OneDestroyer, OneMaker
    <3>5. MakerHas(m)' BY <2>6, <3>1, <3>2 DEF AppInv, MakerHas
    <3>6. DestroyerHas(m)' BY <2>6, <2>7, <3>1 DEF AppInv, DestroyerHas
    <3> QED BY <3>1, <3>3, <3>4, <3>5, <3>6 DEF AppInv
  <2> QED BY <2>5, <2>8 DEF AppsInv
<1>9. ASSUME NEW t \in Worker, Ha!Command(t) PROVE AppsInv'
  <2>1. /\ v6[t] \in Task /\ v6[t].op \in {"stop", "start", "destroy"}
        /\ v6[t].at \in {"first", "removed"} /\ UNCHANGED <<v4, v5>>
    BY <1>2, <1>9 DEF AppsTypes, Ha!Command, Ha!At
  <2>2. PICK n \in App : v6[t].name = n BY <1>2, <2>1 DEF AppsTypes
  <2>3. ASSUME NEW at \in {"told", "removed"}, v6' = [v6 EXCEPT ![t].at = at],
               v1' = v1, v2' \in [App -> Nat], \A m \in App : v2[m] # 0 => v2'[m] # 0
        PROVE  AppsInv'
    <3> DEFINE j == [v6[t] EXCEPT !.at = at]
    <3>1. j \in Task /\ j.at = at /\ j.op = v6[t].op /\ j.name = v6[t].name
      BY <2>1 DEF Task
    <3>2. v6' = [v6 EXCEPT ![t] = j] BY <1>2, <2>3 DEF AppsTypes
    <3> HIDE DEF j
    <3>3. j.at # "first" /\ j.at \notin {"container", "started"} /\ v6[t].op # "none"
      BY <2>1, <3>1
    <3>4. j # Ha!Idle BY <3>1 DEF Ha!Idle
    <3> QED BY <1>2, <1>4, <2>1, <2>3, <3>1, <3>2, <3>3, <3>4 DEF AppsTypes
  <2>4. CASE v6[t].op \in {"stop", "start"}
    <3>1. v6' = [v6 EXCEPT ![t].at = "told"] /\ UNCHANGED <<v1, v2>>
      BY <1>9, <2>1, <2>4 DEF Ha!Command, Ha!At, Ha!Go
    <3> QED BY <1>2, <2>3, <3>1 DEF AppsTypes
  <2>5. CASE v6[t].op = "destroy" /\ v6[t].at = "first"
    <3> DEFINE j == [v6[t] EXCEPT !.at = "removed"]
    <3>1. j \in Task /\ j.at = "removed" /\ j.op = "destroy" /\ j.name = n
      BY <2>1, <2>2, <2>5, TaskRecords
    <3>2. v6' = [v6 EXCEPT ![t] = j] /\ v2' = v2 /\ v1' = [v1 EXCEPT ![n] = 0]
      BY <1>2, <1>9, <2>2, <2>5 DEF Ha!Command, Ha!At, Ha!Go, AppsTypes
    <3> HIDE DEF j
    <3>3. /\ v6' \in [Worker -> Task] /\ v6'[t] = j
          /\ \A u \in Worker : v6'[u].op # "none" => v6'[u].name \in App
          /\ \A u \in Worker : u # t => v6'[u] = v6[u]
      BY <1>2, <3>1, <3>2, TasksKeep
    <3>4. /\ v1' \in [App -> Nat] /\ v1'[n] = 0 /\ \A m \in App : m # n => v1'[m] = v1[m]
      BY <1>2, <3>2 DEF AppsTypes
    <3>5. AppsTypes' BY <1>2, <2>1, <3>2, <3>3, <3>4 DEF AppsTypes
    <3>6. \A u \in Worker, m \in App :
            (Makes(u, m)' <=> Makes(u, m)) /\ (Destroys(u, m)' <=> Destroys(u, m))
      BY <2>2, <2>5, <3>1, <3>3 DEF Makes, Destroys
    <3>7. \A u \in Worker : v6'[u].at = "first" => v6[u].at = "first" /\ u # t
      BY <3>1, <3>3
    <3>8. ASSUME NEW m \in App PROVE AppInv(m)'
      <4>1. AppInv(m) /\ v2'[m] = v2[m] /\ v5'[m] = v5[m] BY <1>20, <2>1, <3>2
      <4>2. m = n => Destroys(t, m) /\ \A u \in Worker : ~Makes(u, m)
        BY <2>2, <2>5, <4>1 DEF Destroys, AppInv, DestroyerHas
      <4>3. m = n => \A u \in Worker : Destroys(u, m) => u = t
        BY <4>1, <4>2 DEF AppInv, OneDestroyer
      <4>4. Listed(m)' BY <3>4, <3>6, <4>1, <4>2 DEF AppInv, Listed
      <4>5. OneDestroyer(m)' /\ OneMaker(m)' BY <3>6, <4>1 DEF AppInv, OneDestroyer, OneMaker
      <4>6. MakerHas(m)' BY <3>4, <3>6, <4>1, <4>2 DEF AppInv, MakerHas
      <4>7. DestroyerHas(m)' BY <3>4, <3>6, <3>7, <4>1, <4>3 DEF AppInv, DestroyerHas
      <4>8. v1'[m] # 0 => v2'[m] # 0 BY <3>4, <4>1 DEF AppInv
      <4> QED BY <4>4, <4>5, <4>6, <4>7, <4>8 DEF AppInv
    <3> QED BY <3>5, <3>8 DEF AppsInv
  <2>6. CASE v6[t].op = "destroy" /\ v6[t].at = "removed"
    <3> DEFINE j == [v6[t] EXCEPT !.at = "told"]
    <3>1. j \in Task /\ j.at = "told" /\ j.op = "destroy" /\ j.name = n
      BY <2>1, <2>2, <2>6, TaskRecords
    <3>2. /\ v6' = [v6 EXCEPT ![t] = j] /\ v1' = v1
          /\ v2' = [v2 EXCEPT ![n] = IF v1[n] = 0 THEN 0 ELSE v2[n]]
      BY <1>2, <1>9, <2>2, <2>6 DEF Ha!Command, Ha!At, Ha!Go, AppsTypes
    <3> HIDE DEF j
    <3>3. /\ v6' \in [Worker -> Task] /\ v6'[t] = j
          /\ \A u \in Worker : v6'[u].op # "none" => v6'[u].name \in App
          /\ \A u \in Worker : u # t => v6'[u] = v6[u]
      BY <1>2, <3>1, <3>2, TasksKeep
    <3>4. /\ v2' \in [App -> Nat] /\ \A m \in App : v1[m] # 0 => v2'[m] = v2[m]
      BY <1>2, <3>2 DEF AppsTypes
    <3>5. AppsTypes' BY <1>2, <2>1, <3>2, <3>3, <3>4 DEF AppsTypes
    <3>6. \A u \in Worker, m \in App :
            (Makes(u, m)' <=> Makes(u, m)) /\ (Destroys(u, m)' <=> Destroys(u, m))
      BY <2>2, <2>6, <3>1, <3>3 DEF Makes, Destroys
    <3>7. \A u \in Worker : v6'[u].at = "first" => v6[u].at = "first" BY <3>1, <3>3
    <3>8. ASSUME NEW m \in App PROVE AppInv(m)'
      <4>1. AppInv(m) /\ v1'[m] = v1[m] /\ v5'[m] = v5[m] BY <1>20, <2>1, <3>2
      <4>2. Listed(m)' BY <3>6, <4>1 DEF AppInv, Listed
      <4>3. OneDestroyer(m)' /\ OneMaker(m)' BY <3>6, <4>1 DEF AppInv, OneDestroyer, OneMaker
      <4>4. MakerHas(m)' BY <3>6, <4>1 DEF AppInv, MakerHas
      <4>5. DestroyerHas(m)' BY <3>6, <3>7, <4>1 DEF AppInv, DestroyerHas
      <4> QED BY <3>4, <4>1, <4>2, <4>3, <4>4, <4>5 DEF AppInv
    <3> QED BY <3>5, <3>8 DEF AppsInv
  <2> QED BY <2>1, <2>4, <2>5, <2>6
<1>10. ASSUME NEW t \in Worker, Ha!Finish(t) PROVE AppsInv'
  <2>1. v6[t] \in Task /\ v6[t].at = "told" /\ v6' = [v6 EXCEPT ![t] = Ha!Idle]
        /\ UNCHANGED <<v1, v2, v4>>
    BY <1>2, <1>10 DEF AppsTypes, Ha!Finish, Ha!Done, Ha!docker
  <2> DEFINE n == v6[t].name
  <2>2. /\ v5' \in [App -> AppRecord]
        /\ \A m \in App : v5'[m].no = IF v6[t].op = "destroy" /\ m = n THEN 0 ELSE v5[m].no
    <3>1. PICK r : v5' = [v5 EXCEPT ![n] = r]
                   /\ r = IF v6[t].op = "destroy" THEN Ha!NoInstance
                          ELSE Ha!WithStatus(t, n, v6[t].op = "start")
      BY <1>10 DEF Ha!Finish
    <3>2. n \in App => r \in AppRecord /\ r.no = IF v6[t].op = "destroy" THEN 0 ELSE v5[n].no
      <4>1. SUFFICES ASSUME n \in App, v6[t].op # "destroy"
                     PROVE  r \in AppRecord /\ r.no = v5[n].no
        BY <3>1, TaskRecords
      <4>2. v5[n] \in AppRecord BY <1>2, <4>1 DEF AppsTypes
      <4>3. (v6[t].op = "start") \in BOOLEAN OBVIOUS
      <4>4. r = v5[n] \/ r = [v5[n] EXCEPT !.running = (v6[t].op = "start")]
        BY <3>1, <4>1 DEF Ha!WithStatus
      <4>5. ASSUME NEW b \in BOOLEAN
            PROVE  [v5[n] EXCEPT !.running = b] \in AppRecord
                   /\ [v5[n] EXCEPT !.running = b].no = v5[n].no
        BY <4>2, TaskRecords
      <4> QED BY <4>2, <4>3, <4>4, <4>5
    <3> QED BY <1>2, <3>1, <3>2 DEF AppsTypes
  <2>3. /\ v6' \in [Worker -> Task] /\ v6'[t] = Ha!Idle
        /\ \A u \in Worker : v6'[u].op # "none" => v6'[u].name \in App
        /\ \A u \in Worker : u # t => v6'[u] = v6[u]
    BY <1>2, <2>1, TasksKeep, TaskRecords
  <2>4. AppsTypes' BY <1>2, <2>1, <2>2, <2>3 DEF AppsTypes
  <2>5. \A u \in Worker, m \in App :
          /\ Makes(u, m)' <=> Makes(u, m)
          /\ Destroys(u, m)' <=> Destroys(u, m) /\ u # t
    BY <2>1, <2>3, TaskRecords DEF Makes, Destroys
  <2>6. \A u \in Worker : v6'[u].at = "first" => v6[u].at = "first" BY <2>3, TaskRecords
  <2>7. ASSUME NEW m \in App PROVE AppInv(m)'
    <3>1. AppInv(m) /\ v1'[m] = v1[m] /\ v2'[m] = v2[m] BY <1>20, <2>1
    <3>2. Destroys(t, m) => v5'[m].no = 0 BY <2>2 DEF Destroys
    <3>3. v5'[m].no # 0 => v5[m].no # 0 BY <2>2
    <3>4. Listed(m)' BY <2>5, <3>1, <3>2, <3>3 DEF AppInv, Listed
    <3>5. OneDestroyer(m)' /\ OneMaker(m)' BY <2>5, <3>1 DEF AppInv, OneDestroyer, OneMaker
    <3>6. MakerHas(m)' BY <2>5, <3>1, <3>2, <3>3 DEF AppInv, MakerHas
    <3>7. DestroyerHas(m)' BY <2>5, <2>6, <3>1 DEF AppInv, DestroyerHas
    <3> QED BY <3>1, <3>4, <3>5, <3>6, <3>7 DEF AppInv
  <2> QED BY <2>4, <2>7 DEF AppsInv
\* What polls see, and what the browsers do, changes no record but its status.
<1>11. ASSUME UNCHANGED <<v1, v2, v4, v6>>, v5' \in [App -> AppRecord],
              \A m \in App : v5'[m].no = v5[m].no
       PROVE  AppsInv'
  <2>1. AppsTypes' BY <1>2, <1>11 DEF AppsTypes
  <2>2. \A u \in Worker, m \in App :
          (Makes(u, m)' <=> Makes(u, m)) /\ (Destroys(u, m)' <=> Destroys(u, m))
    BY <1>11 DEF Makes, Destroys
  <2>3. ASSUME NEW m \in App PROVE AppInv(m)'
    BY <1>11, <1>20, <2>2
    DEF AppInv, Listed, OneDestroyer, OneMaker, MakerHas, DestroyerHas
  <2> QED BY <2>1, <2>3 DEF AppsInv
<1>12. CASE Ha!PollWrites
  <2>1. v5' = [n \in App |-> IF v5[n].no # 0 THEN [v5[n] EXCEPT !.running = (n \in v7)] ELSE Ha!NoInstance]
        /\ UNCHANGED <<v1, v2, v4, v6>>
    BY <1>12 DEF Ha!PollWrites, Ha!Known, Ha!docker
  <2>2. ASSUME NEW m \in App PROVE v5'[m] \in AppRecord /\ v5'[m].no = v5[m].no
    <3>1. v5[m] \in AppRecord /\ (m \in v7) \in BOOLEAN BY <1>2 DEF AppsTypes
    <3> QED BY <2>1, <3>1, TaskRecords
  <2>3. v5' \in [App -> AppRecord] BY <2>1, <2>2
  <2> QED BY <1>11, <2>1, <2>2, <2>3
<1>13. CASE Ha!Restart
  <2>1. /\ UNCHANGED <<v1, v2, v4>> /\ v6' = [t \in Worker |-> Ha!Idle]
        /\ v5' = [n \in App |-> [no |-> v1[n], running |-> (n \in Ha!Running)]]
    BY <1>13 DEF Ha!Restart, Ha!docker
  <2>2. \A n \in App : (n \in Ha!Running) \in BOOLEAN /\ v1[n] \in Nat BY <1>2 DEF AppsTypes
  <2>3. v5' \in [App -> AppRecord] /\ \A n \in App : v5'[n].no = v1[n]
    BY <2>1, <2>2 DEF AppRecord
  <2>4. \A u \in Worker, m \in App : ~Makes(u, m)' /\ ~Destroys(u, m)'
    BY <2>1, TaskRecords DEF Makes, Destroys
  <2>5. AppsTypes' BY <1>2, <2>1, <2>3, TaskRecords DEF AppsTypes
  <2>6. ASSUME NEW m \in App PROVE AppInv(m)'
    BY <1>20, <2>1, <2>3, <2>4
    DEF AppInv, Listed, OneDestroyer, OneMaker, MakerHas, DestroyerHas
  <2> QED BY <2>5, <2>6 DEF AppsInv
<1>14. ASSUME UNCHANGED <<v1, v2, v4, v5, v6>> PROVE AppsInv'
  BY <1>2, <1>11, <1>14 DEF AppsTypes
<1>15. CASE Ha!PollReads \/ UNCHANGED Ha!vars
  BY <1>14, <1>15 DEF Ha!PollReads, Ha!vars, Ha!docker
<1>16. ASSUME NEW b \in Tab, \/ Ha!Fetch(b) \/ Ha!Forward(b) \/ Ha!SocketOpens(b) \/ Ha!AppCloses(b)
                             \/ Ha!BrowserCloses(b) \/ (\E n \in App : Ha!Open(b, n))
                             \/ \E r \in BOOLEAN : Ha!FetchRooted(b, r)
       PROVE  AppsInv'
  <2>1. UNCHANGED <<v1, v2, v4, v5, v6>>
    BY <1>16 DEF Ha!Fetch, Ha!Forward, Ha!SocketOpens, Ha!AppCloses, Ha!BrowserCloses, Ha!Open,
                 Ha!FetchRooted, Ha!Look, Ha!docker
  <2> QED BY <1>14, <2>1
<1> QED
  BY <1>1, <1>3, <1>5, <1>6, <1>7, <1>8, <1>9, <1>10, <1>12, <1>13, <1>15, <1>16 DEF Ha!Next

\* What a listing or an entry announces is there: an app that is listed, for any
\* names, threads, ports and tabs, has its container and its volume until a thread
\* destroys it, whatever Docker refuses and whenever the server restarts; and what
\* is read of a crate is cut short or as new as its row said, for any crates, files
\* and readers (hosted_apps.py, storage/crates).
THEOREM ListedIsAlwaysThere == Spec => []ListedIsThere
<1> DEFINE Inv == (Is("apps") => AppsInv) /\ (Is("crates") => CratesInv)
<1>1. Init => Inv BY AppsOnly, CratesOnly, InitApps, InitCrates
<1>2. Inv /\ [Next]_all => Inv'
  <2>1. ASSUME Inv, [Next]_all, Is("apps")' PROVE AppsInv'
    BY <2>1, PartStays, AppsOnly, NextApps DEF Is
  <2>2. ASSUME Inv, [Next]_all, Is("crates")' PROVE CratesInv'
    BY <2>2, PartStays, CratesOnly, NextCrates DEF Is
  <2> QED BY <2>1, <2>2
<1>3. Inv => ListedIsThere
  <2>1. AppsInv => Ha!ListedHasData
    BY DEF AppsInv, AppInv, Listed, Ha!ListedHasData, Ha!Known, Destroys
  <2> QED BY <2>1 DEF ListedIsThere, CratesInv
<1> QED BY <1>1, <1>2, <1>3, PTL DEF Spec

-----------------------------------------------------------------------------
(* Scrolls: row is v1.                                                     *)

LEMMA ScrollsOnly ==
  /\ Init /\ Is("scrolls") => Sc!Init
  /\ [Next]_all /\ Is("scrolls") => [Sc!Next]_(Sc!vars)
BY DEF Init, Next, Is, Sc!vars, all

RowsOfDocs == DOMAIN v1 = Doc /\ v1 = [d \in Doc |-> v1[d]]

LEMMA ScrollsStep ==
  ASSUME RowsOfDocs, [Sc!Next]_(Sc!vars)
  PROVE  RowsOfDocs' /\ Sc!DeletedStaysDeleted
<1>1. ASSUME NEW p \in Process, NEW d \in Doc, Sc!Insert(p, d)
      PROVE  RowsOfDocs' /\ Sc!DeletedStaysDeleted
  <2>1. PICK r : v1' = [v1 EXCEPT ![d] = r] BY <1>1 DEF Sc!Insert
  <2>2. RowsOfDocs' BY <2>1 DEF RowsOfDocs
  <2>3. \A e \in Doc : e # d => v1'[e] = v1[e] BY <2>1 DEF RowsOfDocs
  <2> QED BY <1>1, <2>2, <2>3 DEF Sc!DeletedStaysDeleted
<1>2. ASSUME NEW d, NEW r, v1' = [v1 EXCEPT ![d] = r], r # None => v1[d] # None
      PROVE  RowsOfDocs' /\ Sc!DeletedStaysDeleted
  <2>1. RowsOfDocs' BY <1>2 DEF RowsOfDocs
  <2>2. \A e \in Doc : v1'[e] = v1[e] \/ (e = d /\ v1'[e] = r) BY <1>2 DEF RowsOfDocs
  <2> QED BY <1>2, <2>1, <2>2 DEF Sc!DeletedStaysDeleted
<1>3. ASSUME v1' = v1 PROVE RowsOfDocs' /\ Sc!DeletedStaysDeleted
  BY <1>3 DEF RowsOfDocs, Sc!DeletedStaysDeleted
<1>4. ASSUME NEW p \in Process, Sc!Update(p) PROVE RowsOfDocs' /\ Sc!DeletedStaysDeleted
  <2>1. PICK n, e : v1' = Sc!Changed(v4[p].doc, n, e) BY <1>4, Zenon DEF Sc!Update
  <2>2. CASE v1[v4[p].doc] = None BY <1>3, <2>1, <2>2 DEF Sc!Changed
  <2>3. CASE v1[v4[p].doc] # None BY <1>2, <2>1, <2>3 DEF Sc!Changed
  <2> QED BY <2>2, <2>3
<1>5. ASSUME NEW p \in Process, Sc!Delete(p) PROVE RowsOfDocs' /\ Sc!DeletedStaysDeleted
  BY <1>2, <1>5 DEF Sc!Delete
<1>6. ASSUME NEW p \in Process, NEW d \in Doc, Sc!DeleteAll(p, d)
      PROVE  RowsOfDocs' /\ Sc!DeletedStaysDeleted
  BY <1>2, <1>6 DEF Sc!DeleteAll
<1>7. ASSUME NEW d \in Doc, Sc!Expire(d) PROVE RowsOfDocs' /\ Sc!DeletedStaysDeleted
  BY <1>2, <1>7 DEF Sc!Expire
<1>8. ASSUME NEW p \in Process, Sc!GcEnds(p) PROVE RowsOfDocs' /\ Sc!DeletedStaysDeleted
  <2>1. CASE v7[p] # {}
    <3>1. v1' = [d \in Doc |-> IF d \in v7[p] THEN None ELSE v1[d]]
      BY <1>8, <2>1 DEF Sc!GcEnds
    <3> QED BY <3>1 DEF RowsOfDocs, Sc!DeletedStaysDeleted
  <2>2. CASE v7[p] = {} BY <1>3, <1>8, <2>2 DEF Sc!GcEnds
  <2> QED BY <2>1, <2>2
<1>9. ASSUME NEW p \in Process,
             \/ Sc!Refused(p) \/ Sc!GcWakes(p) \/ Sc!Close(p) \/ Sc!GcExits(p) \/ Sc!Crash(p)
             \/ \E d \in Doc : Sc!Find(p, d) \/ Sc!GcDeletes(p, d)
      PROVE  v1' = v1
  BY <1>9 DEF Sc!Refused, Sc!GcWakes, Sc!Close, Sc!GcExits, Sc!Crash, Sc!Find, Sc!GcDeletes
<1>10. CASE UNCHANGED Sc!vars BY <1>3, <1>10 DEF Sc!vars
<1> QED
  BY <1>1, <1>3, <1>4, <1>5, <1>6, <1>7, <1>8, <1>9, <1>10 DEF Sc!Next

-----------------------------------------------------------------------------
(* Blobs: data is v1, meta v2, version v3, job v4, kept v5 and got v6.     *)

LEMMA BlobsOnly ==
  /\ Init /\ Is("blobs") => Bl!Init
  /\ [Next]_all /\ Is("blobs") => [Bl!Next]_(Bl!vars)
BY DEF Init, Next, Is, Bl!vars, all

BlobJob ==
  [at : {"idle", "writes", "replaces", "records", "reads", "unlinks", "forgets"},
   key : Key \cup {None}, ver : Nat, ends : {"never", "later"},
   then : {"idle", "get", "delete", "cleanup"}]

BlobsTypes ==
  /\ v1 \in [Key -> Nat \cup {None}] /\ v3 \in Nat /\ v4 \in [Executor -> BlobJob]
  /\ DOMAIN v2 = Key /\ v2 = [k \in Key |-> v2[k]]
  /\ DOMAIN v6 = Executor /\ v6 = [t \in Executor |-> v6[t]]
  /\ v5 \in [Key -> SUBSET (Nat \cup {None})]
  /\ \A t \in Executor : v4[t].at # "idle" => v4[t].key \in Key

\* What a file holds may be read, and so may nothing where the sidecar lets the blob
\* expire; the same of what the call that is under way will write.
BlobsInv ==
  /\ BlobsTypes
  /\ \A k \in Key :
       v1[k] \in v5[k] /\ (v2[k] \in {"later", "over"} => None \in v5[k])
  /\ \A t \in Executor :
       /\ v4[t].at \in {"writes", "replaces", "records"} => v4[t].ver \in v5[v4[t].key]
       /\ v4[t].at = "records" => v1[v4[t].key] = v4[t].ver
       /\ v4[t].at \in {"unlinks", "forgets"} => None \in v5[v4[t].key]
       /\ v4[t].at = "forgets" => v1[v4[t].key] = None

LEMMA BlobJobs ==
  /\ Bl!Idle \in BlobJob /\ Bl!Idle.at = "idle"
  /\ \A j \in BlobJob, at \in {"replaces", "records", "forgets"} :
       /\ [j EXCEPT !.at = at] \in BlobJob /\ [j EXCEPT !.at = at].at = at
       /\ [j EXCEPT !.at = at].key = j.key /\ [j EXCEPT !.at = at].ver = j.ver
<1>1. Bl!Idle \in BlobJob /\ Bl!Idle.at = "idle" BY DEF BlobJob, Bl!Idle
<1>2. ASSUME NEW j \in BlobJob, NEW at \in {"replaces", "records", "forgets"}
      PROVE  /\ [j EXCEPT !.at = at] \in BlobJob /\ [j EXCEPT !.at = at].at = at
             /\ [j EXCEPT !.at = at].key = j.key /\ [j EXCEPT !.at = at].ver = j.ver
  BY DEF BlobJob
<1> QED BY <1>1, <1>2

LEMMA BlobBegins ==
  ASSUME NEW t, NEW at \in {"writes", "reads", "unlinks"}, NEW k \in Key, NEW n \in Nat,
         NEW e \in {"never", "later"}, NEW next \in {"idle", "get", "delete", "cleanup"},
         Bl!Begins(t, at, k, n, e, next)
  PROVE  \E j \in BlobJob : /\ v4' = [v4 EXCEPT ![t] = j] /\ j.at = at /\ j.key = k
                            /\ j.ver = n
<1> DEFINE j == [at |-> at, key |-> k, ver |-> n, ends |-> e, then |-> next]
<1>1. j \in BlobJob /\ j.at = at /\ j.key = k /\ j.ver = n BY DEF BlobJob
<1>2. v4' = [v4 EXCEPT ![t] = j] BY DEF Bl!Begins
<1> QED BY <1>1, <1>2

LEMMA BlobGoes ==
  ASSUME BlobsTypes, NEW t \in Executor, NEW at \in {"replaces", "records", "forgets"},
         Bl!Goes(t, at)
  PROVE  \E j \in BlobJob : /\ v4' = [v4 EXCEPT ![t] = j] /\ j.at = at
                            /\ j.key = v4[t].key /\ j.ver = v4[t].ver
<1> DEFINE j == [v4[t] EXCEPT !.at = at]
<1>1. v4[t] \in BlobJob BY DEF BlobsTypes
<1>2. j \in BlobJob /\ j.at = at /\ j.key = v4[t].key /\ j.ver = v4[t].ver BY <1>1, BlobJobs
<1>3. v4' = [v4 EXCEPT ![t] = j] BY DEF Bl!Goes, BlobsTypes
<1> QED BY <1>2, <1>3

LEMMA InitBlobs == Bl!Init => BlobsInv
<1>1. SUFFICES ASSUME Bl!Init PROVE BlobsInv OBVIOUS
<1>2. BlobsTypes BY <1>1, BlobJobs DEF Bl!Init, BlobsTypes
<1>3. \A t \in Executor : v4[t].at = "idle" BY <1>1, BlobJobs DEF Bl!Init
<1> QED BY <1>1, <1>2, <1>3 DEF BlobsInv, Bl!Init

LEMMA BlobsStep ==
  ASSUME BlobsInv, [Bl!Next]_(Bl!vars)
  PROVE  BlobsInv' /\ Bl!ReadsWhatWasPut
<1>1. BlobsTypes BY DEF BlobsInv
<1>2. \A t, u \in Executor : t = u BY MCStoresAssumption DEF Single
<1> USE <1>1, <1>2
<1>3. ASSUME NEW t \in Executor, NEW j \in BlobJob, v4' = [v4 EXCEPT ![t] = j]
      PROVE  v4' \in [Executor -> BlobJob] /\ v4'[t] = j /\ \A u \in Executor : v4'[u] = j
  BY <1>3 DEF BlobsTypes
<1>4. ASSUME NEW t \in Executor, NEW k \in Key, Bl!BeginPut(t, k)
      PROVE  BlobsInv' /\ Bl!ReadsWhatWasPut
  <2>1. /\ v3' = v3 + 1 /\ v5' = [v5 EXCEPT ![k] = @ \cup {v3 + 1}] /\ UNCHANGED <<v1, v2, v6>>
    BY <1>4 DEF Bl!BeginPut
  <2>2. PICK j \in BlobJob : /\ v4' = [v4 EXCEPT ![t] = j] /\ j.at = "writes" /\ j.key = k
                             /\ j.ver = v3 + 1
    <3>1. v3 + 1 \in Nat BY DEF BlobsTypes
    <3>2. PICK e \in {"never", "later"} : Bl!Begins(t, "writes", k, v3 + 1, e, "idle")
      BY <1>4 DEF Bl!BeginPut
    <3> QED BY <3>1, <3>2, BlobBegins
  <2>3. v4' \in [Executor -> BlobJob] /\ \A u \in Executor : v4'[u] = j BY <1>3, <2>2
  <2>4. /\ v5' \in [Key -> SUBSET (Nat \cup {None})] /\ v3 + 1 \in v5'[k]
        /\ \A x \in Key : v5[x] \subseteq v5'[x]
    BY <2>1 DEF BlobsTypes
  <2>5. BlobsTypes' BY <2>1, <2>2, <2>3, <2>4 DEF BlobsTypes
  <2>6. \A x \in Key : v1'[x] \in v5'[x] /\ (v2'[x] \in {"later", "over"} => None \in v5'[x])
    BY <2>1, <2>4 DEF BlobsInv
  <2> QED BY <2>1, <2>2, <2>3, <2>4, <2>5, <2>6 DEF BlobsInv, Bl!ReadsWhatWasPut
<1>5. ASSUME NEW t \in Executor, NEW j \in BlobJob, v4' = [v4 EXCEPT ![t] = j],
             j.at # "idle" => j.key \in Key, UNCHANGED <<v1, v2, v3>>,
             j.at \in {"idle", "reads"} \/ (j.at = "unlinks" /\ None \in v5'[j.key]),
             v5' \in [Key -> SUBSET (Nat \cup {None})], \A k \in Key : v5[k] \subseteq v5'[k],
             DOMAIN v6' = Executor /\ v6' = [u \in Executor |-> v6'[u]]
      PROVE  BlobsInv'
  <2>0. v4' = [v4 EXCEPT ![t] = j] BY <1>5
  <2>1. v4' \in [Executor -> BlobJob] /\ \A u \in Executor : v4'[u] = j BY <1>3, <2>0
  <2>2. BlobsTypes' BY <1>5, <2>1 DEF BlobsTypes
  <2>3. \A k \in Key : v1'[k] \in v5'[k] /\ (v2'[k] \in {"later", "over"} => None \in v5'[k])
    BY <1>5 DEF BlobsInv
  <2> QED BY <1>5, <2>1, <2>2, <2>3 DEF BlobsInv
<1>5a. ASSUME NEW t \in Executor, NEW j \in BlobJob, v4' = [v4 EXCEPT ![t] = j],
              j.at # "idle" => j.key \in Key, UNCHANGED <<v1, v2, v3, v5>>,
              j.at \in {"idle", "reads"} \/ (j.at = "unlinks" /\ None \in v5[j.key]),
              DOMAIN v6' = Executor /\ v6' = [u \in Executor |-> v6'[u]]
       PROVE  BlobsInv'
  <2>1. v5' \in [Key -> SUBSET (Nat \cup {None})] /\ \A k \in Key : v5[k] \subseteq v5'[k]
    BY <1>5a DEF BlobsTypes
  <2>2. UNCHANGED <<v1, v2, v3>> /\ v4' = [v4 EXCEPT ![t] = j] BY <1>5a
  <2>3. j.at \in {"idle", "reads"} \/ (j.at = "unlinks" /\ None \in v5'[j.key]) BY <1>5a
  <2> QED BY <1>5, <1>5a, <2>1, <2>2, <2>3
<1>6. ASSUME NEW t \in Executor, Bl!Opens(t) PROVE BlobsInv' /\ Bl!ReadsWhatWasPut
  <2>1. /\ v4[t].at = "writes"
        /\ UNCHANGED <<v1, v2, v3, v5, v6>>
    BY <1>6 DEF Bl!Opens, Bl!Opened
  <2>2. PICK j \in BlobJob : /\ v4' = [v4 EXCEPT ![t] = j] /\ j.at = "replaces"
                             /\ j.key = v4[t].key /\ j.ver = v4[t].ver
    BY <1>6, BlobGoes DEF Bl!Opens
  <2>3. v4' \in [Executor -> BlobJob] /\ \A u \in Executor : v4'[u] = j BY <1>3, <2>2
  <2>4. BlobsTypes' BY <2>1, <2>2, <2>3 DEF BlobsTypes
  <2> QED BY <2>1, <2>2, <2>3, <2>4 DEF BlobsInv, Bl!ReadsWhatWasPut
<1>7. ASSUME NEW t \in Executor, Bl!Replaces(t) PROVE BlobsInv' /\ Bl!ReadsWhatWasPut
  <2>1. /\ v4[t].at = "replaces"
        /\ v1' = [v1 EXCEPT ![v4[t].key] = v4[t].ver] /\ UNCHANGED <<v2, v3, v5, v6>>
    BY <1>7 DEF Bl!Replaces
  <2>2. PICK j \in BlobJob : /\ v4' = [v4 EXCEPT ![t] = j] /\ j.at = "records"
                             /\ j.key = v4[t].key /\ j.ver = v4[t].ver
    BY <1>7, BlobGoes DEF Bl!Replaces
  <2>3. v4' \in [Executor -> BlobJob] /\ \A u \in Executor : v4'[u] = j BY <1>3, <2>2
  <2>4. j.key \in Key /\ j.ver \in Nat /\ j.ver \in v5[j.key]
    BY <2>1, <2>2 DEF BlobsInv, BlobsTypes, BlobJob
  <2>5. v1' \in [Key -> Nat \cup {None}] /\ v1'[j.key] = j.ver
        /\ \A x \in Key : x # j.key => v1'[x] = v1[x]
    BY <2>1, <2>2, <2>4 DEF BlobsTypes
  <2>6. BlobsTypes' BY <2>1, <2>2, <2>3, <2>4, <2>5 DEF BlobsTypes
  <2>7. \A x \in Key : v1'[x] \in v5'[x] /\ (v2'[x] \in {"later", "over"} => None \in v5'[x])
    BY <2>1, <2>4, <2>5 DEF BlobsInv
  <2> QED BY <2>1, <2>2, <2>3, <2>4, <2>5, <2>6, <2>7 DEF BlobsInv, Bl!ReadsWhatWasPut
<1>8. ASSUME NEW t \in Executor, Bl!Records(t) PROVE BlobsInv' /\ Bl!ReadsWhatWasPut
  <2> DEFINE x == v4[t].key
  <2>1. /\ v4[t].at = "records" /\ v4' = [v4 EXCEPT ![t] = Bl!Idle]
        /\ v2' = [v2 EXCEPT ![x] = v4[t].ends] /\ UNCHANGED <<v1, v3, v6>>
        /\ v5' = [v5 EXCEPT ![x] = {v4[t].ver} \cup IF v4[t].ends = "never" THEN {} ELSE {None}]
    BY <1>8 DEF Bl!Records, Bl!Returns
  <2>2. x \in Key /\ v4[t].ver \in Nat /\ v4[t].ends \in {"never", "later"} /\ v1[x] = v4[t].ver
    BY <2>1 DEF BlobsInv, BlobsTypes, BlobJob
  <2>3. v4' \in [Executor -> BlobJob] /\ \A u \in Executor : v4'[u] = Bl!Idle
    BY <1>3, <2>1, BlobJobs
  <2>4. /\ v5' \in [Key -> SUBSET (Nat \cup {None})] /\ v4[t].ver \in v5'[x]
        /\ v4[t].ends # "never" => None \in v5'[x]
        /\ \A k \in Key : k # x => v5'[k] = v5[k]
    BY <2>1, <2>2 DEF BlobsTypes
  <2>5. /\ DOMAIN v2' = Key /\ v2' = [k \in Key |-> v2'[k]] /\ v2'[x] = v4[t].ends
        /\ \A k \in Key : k # x => v2'[k] = v2[k]
    BY <2>1, <2>2 DEF BlobsTypes
  <2>6. BlobsTypes' BY <2>1, <2>3, <2>4, <2>5, BlobJobs DEF BlobsTypes
  <2>7. \A k \in Key : v1'[k] \in v5'[k] /\ (v2'[k] \in {"later", "over"} => None \in v5'[k])
    BY <2>1, <2>2, <2>4, <2>5 DEF BlobsInv
  <2> QED BY <2>1, <2>3, <2>6, <2>7, BlobJobs DEF BlobsInv, Bl!ReadsWhatWasPut
<1>9. ASSUME NEW t \in Executor, NEW r, v6' = [v6 EXCEPT ![t] = r], r = v6[t] \/ r.ver \in v5[r.key]
      PROVE  Bl!ReadsWhatWasPut
  <2>1. DOMAIN v6 = Executor BY DEF BlobsTypes
  <2>2. v6'[t] = r /\ \A u \in Executor : u # t => v6'[u] = v6[u] BY <1>9, <2>1
  <2> QED BY <1>9, <2>2 DEF Bl!ReadsWhatWasPut
<1>10. ASSUME NEW t \in Executor, NEW k \in Key, Bl!Looks(t, k)
       PROVE  BlobsInv' /\ Bl!ReadsWhatWasPut
  <2>1. UNCHANGED <<v1, v2, v3, v5>> BY <1>10 DEF Bl!Looks
  <2>2. CASE /\ Bl!Meta(k) = None /\ v6' = [v6 EXCEPT ![t] = [key |-> k, ver |-> None]]
             /\ v4' = v4
    <3>1. v1[k] = None BY <2>2, MCStoresAssumption DEF Bl!Meta
    <3>2. None \in v5[k] /\ None \in v5'[k] BY <2>1, <3>1 DEF BlobsInv
    <3>3. Bl!ReadsWhatWasPut BY <1>9, <2>2, <3>2
    <3>4. v6' = [u \in Executor |-> v6'[u]] /\ DOMAIN v6' = Executor BY <2>2 DEF BlobsTypes
    <3> QED BY <2>1, <2>2, <3>3, <3>4 DEF BlobsInv, BlobsTypes
  <2>3. CASE Bl!Meta(k) = "over" /\ Bl!Begins(t, "unlinks", k, 0, "never", "get") /\ v6' = v6
    <3>1. None \in v5[k] BY <2>3 DEF Bl!Meta, BlobsInv
    <3>2. PICK j \in BlobJob : v4' = [v4 EXCEPT ![t] = j] /\ j.at = "unlinks" /\ j.key = k
      BY <2>3, BlobBegins
    <3>3. DOMAIN v6' = Executor /\ v6' = [u \in Executor |-> v6'[u]] BY <2>3 DEF BlobsTypes
    <3>4. BlobsInv' BY <1>5a, <2>1, <3>1, <3>2, <3>3
    <3> QED BY <2>3, <3>4 DEF Bl!ReadsWhatWasPut
  <2>4. CASE Bl!Begins(t, "reads", k, 0, "never", "get") /\ v6' = v6
    <3>1. PICK j \in BlobJob : v4' = [v4 EXCEPT ![t] = j] /\ j.at = "reads" /\ j.key = k
      BY <2>4, BlobBegins
    <3>2. DOMAIN v6' = Executor /\ v6' = [u \in Executor |-> v6'[u]] BY <2>4 DEF BlobsTypes
    <3>3. BlobsInv' BY <1>5a, <2>1, <3>1, <3>2
    <3> QED BY <2>4, <3>3 DEF Bl!ReadsWhatWasPut
  <2> QED BY <1>10, <2>2, <2>3, <2>4 DEF Bl!Looks
<1>11. ASSUME NEW t \in Executor, Bl!Reads(t) PROVE BlobsInv' /\ Bl!ReadsWhatWasPut
  <2>1. /\ v4[t].at = "reads" /\ v4' = [v4 EXCEPT ![t] = Bl!Idle] /\ UNCHANGED <<v1, v2, v3, v5>>
        /\ v6' = [v6 EXCEPT ![t] = [key |-> v4[t].key, ver |-> v1[v4[t].key]]]
    BY <1>11 DEF Bl!Reads, Bl!Returns
  <2>2. v1[v4[t].key] \in v5[v4[t].key] BY <2>1 DEF BlobsInv, BlobsTypes
  <2>3. v6' = [u \in Executor |-> v6'[u]] /\ DOMAIN v6' = Executor BY <2>1 DEF BlobsTypes
  <2>4. BlobsInv' BY <1>5a, <2>1, <2>3, BlobJobs
  <2>5. Bl!ReadsWhatWasPut BY <1>9, <2>1, <2>2
  <2> QED BY <2>4, <2>5
<1>12. ASSUME NEW t \in Executor, NEW k \in Key, Bl!BeginDelete(t, k)
       PROVE  BlobsInv' /\ Bl!ReadsWhatWasPut
  <2>1. v5' = [v5 EXCEPT ![k] = @ \cup {None}] /\ UNCHANGED <<v1, v2, v3, v6>>
    BY <1>12 DEF Bl!BeginDelete
  <2>2. PICK j \in BlobJob : v4' = [v4 EXCEPT ![t] = j] /\ j.at = "unlinks" /\ j.key = k
    BY <1>12, BlobBegins DEF Bl!BeginDelete
  <2>3. /\ v5' \in [Key -> SUBSET (Nat \cup {None})] /\ None \in v5'[k]
        /\ \A x \in Key : v5[x] \subseteq v5'[x]
    BY <2>1 DEF BlobsTypes
  <2>4. DOMAIN v6' = Executor /\ v6' = [u \in Executor |-> v6'[u]] BY <2>1 DEF BlobsTypes
  <2>5. BlobsInv' BY <1>5, <2>1, <2>2, <2>3, <2>4
  <2> QED BY <2>1, <2>5 DEF Bl!ReadsWhatWasPut
<1>13. ASSUME NEW t \in Executor, NEW k \in Key, Bl!Cleans(t, k)
       PROVE  BlobsInv' /\ Bl!ReadsWhatWasPut
  <2>1. UNCHANGED <<v1, v2, v3, v5, v6>> BY <1>13 DEF Bl!Cleans
  <2>2. None \in v5[k] BY <1>13 DEF Bl!Cleans, Bl!Meta, BlobsInv
  <2>3. PICK j \in BlobJob : v4' = [v4 EXCEPT ![t] = j] /\ j.at = "unlinks" /\ j.key = k
    BY <1>13, BlobBegins DEF Bl!Cleans
  <2>4. DOMAIN v6' = Executor /\ v6' = [u \in Executor |-> v6'[u]] BY <2>1 DEF BlobsTypes
  <2>5. BlobsInv' BY <1>5a, <2>1, <2>2, <2>3, <2>4
  <2> QED BY <2>1, <2>5 DEF Bl!ReadsWhatWasPut
<1>14. ASSUME NEW t \in Executor, Bl!Unlinks(t) PROVE BlobsInv' /\ Bl!ReadsWhatWasPut
  <2>1. /\ v4[t].at = "unlinks"
        /\ v1' = [v1 EXCEPT ![v4[t].key] = None] /\ UNCHANGED <<v2, v3, v5, v6>>
    BY <1>14 DEF Bl!Unlinks
  <2>2. PICK j \in BlobJob : /\ v4' = [v4 EXCEPT ![t] = j] /\ j.at = "forgets"
                             /\ j.key = v4[t].key
    BY <1>14, BlobGoes DEF Bl!Unlinks
  <2>3. v4' \in [Executor -> BlobJob] /\ \A u \in Executor : v4'[u] = j BY <1>3, <2>2
  <2>4. j.key \in Key /\ None \in v5[j.key] BY <2>1, <2>2 DEF BlobsInv, BlobsTypes
  <2>5. v1' \in [Key -> Nat \cup {None}] /\ v1'[j.key] = None
        /\ \A x \in Key : x # j.key => v1'[x] = v1[x]
    BY <2>1, <2>2, <2>4 DEF BlobsTypes
  <2>6. BlobsTypes' BY <2>1, <2>2, <2>3, <2>4, <2>5 DEF BlobsTypes
  <2>7. \A x \in Key : v1'[x] \in v5'[x] /\ (v2'[x] \in {"later", "over"} => None \in v5'[x])
    BY <2>1, <2>4, <2>5 DEF BlobsInv
  <2> QED BY <2>1, <2>2, <2>3, <2>4, <2>5, <2>6, <2>7 DEF BlobsInv, Bl!ReadsWhatWasPut
<1>15. ASSUME NEW t \in Executor, Bl!Forgets(t) PROVE BlobsInv' /\ Bl!ReadsWhatWasPut
  <2> DEFINE x == v4[t].key
             K == IF v4[t].then = "delete" THEN {None} ELSE v5[x]
             G == IF v4[t].then = "get" THEN [key |-> x, ver |-> None] ELSE v6[t]
  <2>1. /\ v4[t].at = "forgets" /\ v4' = [v4 EXCEPT ![t] = Bl!Idle]
        /\ v2' = [v2 EXCEPT ![x] = None] /\ UNCHANGED <<v1, v3>>
        /\ v5' = [v5 EXCEPT ![x] = K] /\ v6' = [v6 EXCEPT ![t] = G]
    BY <1>15 DEF Bl!Forgets, Bl!Returns
  <2>2. x \in Key /\ v1[x] = None /\ None \in v5[x] BY <2>1 DEF BlobsInv, BlobsTypes
  <2>3. v4' \in [Executor -> BlobJob] /\ \A u \in Executor : v4'[u] = Bl!Idle
    BY <1>3, <2>1, BlobJobs
  <2>4. /\ v5' \in [Key -> SUBSET (Nat \cup {None})] /\ None \in v5'[x]
        /\ \A k \in Key : k # x => v5'[k] = v5[k]
    BY <2>1, <2>2 DEF BlobsTypes
  <2>5. /\ DOMAIN v2' = Key /\ v2' = [k \in Key |-> v2'[k]]
        /\ \A k \in Key : k # x => v2'[k] = v2[k]
    BY <2>1, <2>2 DEF BlobsTypes
  <2>6. v6' = [u \in Executor |-> v6'[u]] /\ DOMAIN v6' = Executor BY <2>1 DEF BlobsTypes
  <2>7. BlobsTypes' BY <2>1, <2>3, <2>4, <2>5, <2>6, BlobJobs DEF BlobsTypes
  <2>8. \A k \in Key : v1'[k] \in v5'[k] /\ (v2'[k] \in {"later", "over"} => None \in v5'[k])
    BY <2>1, <2>2, <2>4, <2>5 DEF BlobsInv
  <2>9. BlobsInv' BY <2>1, <2>3, <2>7, <2>8, BlobJobs DEF BlobsInv
  <2>10. G = v6[t] \/ (G.ver = None /\ G.key = x) OBVIOUS
  <2> HIDE DEF G
  <2>11. Bl!ReadsWhatWasPut BY <1>9, <2>1, <2>2, <2>10
  <2> QED BY <2>9, <2>11
<1>16. ASSUME NEW k \in Key, Bl!Expire(k) PROVE BlobsInv' /\ Bl!ReadsWhatWasPut
  <2>1. v2[k] = "later" /\ v2' = [v2 EXCEPT ![k] = "over"] /\ UNCHANGED <<v1, v3, v4, v5, v6>>
    BY <1>16 DEF Bl!Expire
  <2>2. /\ DOMAIN v2' = Key /\ v2' = [x \in Key |-> v2'[x]]
        /\ \A x \in Key : x # k => v2'[x] = v2[x]
    BY <2>1 DEF BlobsTypes
  <2>3. BlobsTypes' BY <2>1, <2>2 DEF BlobsTypes
  <2>4. \A x \in Key : v1'[x] \in v5'[x] /\ (v2'[x] \in {"later", "over"} => None \in v5'[x])
    BY <2>1, <2>2 DEF BlobsInv
  <2> QED BY <2>1, <2>3, <2>4 DEF BlobsInv, Bl!ReadsWhatWasPut
<1>17. ASSUME NEW t \in Executor, Bl!Crash(t) PROVE BlobsInv' /\ Bl!ReadsWhatWasPut
  <2>1. v4' = [v4 EXCEPT ![t] = Bl!Idle] /\ UNCHANGED <<v1, v2, v3, v5, v6>>
    BY <1>17 DEF Bl!Crash, Bl!Returns
  <2>2. DOMAIN v6' = Executor /\ v6' = [u \in Executor |-> v6'[u]] BY <2>1 DEF BlobsTypes
  <2>3. BlobsInv' BY <1>5a, <2>1, <2>2, BlobJobs
  <2> QED BY <2>1, <2>3 DEF Bl!ReadsWhatWasPut
<1>18. CASE UNCHANGED Bl!vars
  BY <1>18 DEF Bl!vars, BlobsInv, BlobsTypes, Bl!ReadsWhatWasPut
<1> QED
  BY <1>4, <1>6, <1>7, <1>8, <1>10, <1>11, <1>12, <1>13, <1>14, <1>15, <1>16, <1>17, <1>18
  DEF Bl!Next

-----------------------------------------------------------------------------
\* A deleted document comes back only by an insert, for any processes and documents,
\* and a blob read is one that a put stored, whole, for any keys and over crashes at any
\* point (storage/scrolls, blobstore.py).
THEOREM StoresAlwaysKeepTheirWord == Spec => StoresKeepTheirWord
<1> DEFINE Inv == (Is("scrolls") => RowsOfDocs) /\ (Is("blobs") => BlobsInv)
           Word == /\ Is("scrolls") => Sc!DeletedStaysDeleted
                   /\ Is("blobs")   => Bl!ReadsWhatWasPut
<1>1. Init => Inv
  <2>1. Sc!Init => RowsOfDocs BY DEF Sc!Init, RowsOfDocs
  <2> QED BY <2>1, ScrollsOnly, BlobsOnly, InitBlobs
<1>2. Inv /\ [Next]_all => Inv' /\ Word
  <2>1. ASSUME Inv, [Next]_all, Is("scrolls") PROVE RowsOfDocs' /\ Sc!DeletedStaysDeleted
    BY <2>1, ScrollsOnly, ScrollsStep
  <2>2. ASSUME Inv, [Next]_all, Is("blobs") PROVE BlobsInv' /\ Bl!ReadsWhatWasPut
    BY <2>2, BlobsOnly, BlobsStep
  <2>3. ASSUME [Next]_all PROVE /\ Is("scrolls")' => Is("scrolls")
                                /\ Is("blobs")' => Is("blobs")
    BY <2>3, PartStays DEF Is
  <2> QED BY <2>1, <2>2, <2>3
<1> QED BY <1>1, <1>2, PTL DEF Spec, StoresKeepTheirWord

-----------------------------------------------------------------------------
(* Credentials: row is v1, key v7, keychain v8 and file v9.                *)

LEMMA CredentialsOnly ==
  /\ Init /\ Is("credentials") => Cd!Init
  /\ [Next]_all /\ Is("credentials") => [Cd!Next]_(Cd!vars)
BY DEF Init, Next, Is, Cd!vars, Cd!store, all

CredRow ==
  [st : {"none", "valid", "expiring", "expired", "error", "revoked"},
   exp : {"never", "long", "soon", "over"}, key : Nat, oauth : BOOLEAN,
   has : {"nothing", "secret", "refresh"}]

\* The key is in the keychain, or in the file where there is none, and every row was
\* encrypted with it.
CredentialsInv ==
  /\ v1 \in [Cred -> CredRow] /\ v7 \in Nat \ {0}
  /\ Keychain = "works" => v8 = v7
  /\ Keychain = "absent" => v9 = v7
  /\ \A c \in Cred : v1[c].st # "none" => v1[c].key = v7

LEMMA InitCredentials == Cd!Init => CredentialsInv
<1>1. SUFFICES ASSUME Cd!Init PROVE CredentialsInv OBVIOUS
<1>2. Cd!NoRow \in CredRow /\ Cd!NoRow.st = "none" BY DEF Cd!NoRow, CredRow
<1>3. v1 = [c \in Cred |-> Cd!NoRow] BY <1>1 DEF Cd!Init
<1>4. Keychain = "works" => v7 = 1 /\ v8 = 1
  BY <1>1 DEF Cd!Init, Cd!KeychainAnswers, Cd!GetKey
<1>5. Keychain = "absent" => v7 = 1 /\ v9 = 1
  BY <1>1 DEF Cd!Init, Cd!KeychainAnswers, Cd!GetKey
<1>6. Keychain = "works" \/ Keychain = "absent" BY MCStoresAssumption
<1> QED BY <1>2, <1>3, <1>4, <1>5, <1>6 DEF CredentialsInv

\* A row's status, its validity and its value.
LEMMA CredRows ==
  /\ \A r \in CredRow, s \in {"expiring", "expired", "error"} :
       [r EXCEPT !.st = s] \in CredRow /\ [r EXCEPT !.st = s].key = r.key
  /\ \A r \in CredRow, k \in Nat :
       /\ [r EXCEPT !.st = "revoked", !.key = k, !.has = "nothing"] \in CredRow
       /\ [r EXCEPT !.st = "revoked", !.key = k, !.has = "nothing"].key = k
  /\ \A r \in CredRow :
       /\ [r EXCEPT !.exp = Cd!Later(@)] \in CredRow
       /\ [r EXCEPT !.exp = Cd!Later(@)].key = r.key
       /\ [r EXCEPT !.exp = Cd!Later(@)].st = r.st
<1>1. ASSUME NEW r \in CredRow, NEW s \in {"expiring", "expired", "error"}
      PROVE  [r EXCEPT !.st = s] \in CredRow /\ [r EXCEPT !.st = s].key = r.key
  BY DEF CredRow
<1>2. ASSUME NEW r \in CredRow, NEW k \in Nat
      PROVE  /\ [r EXCEPT !.st = "revoked", !.key = k, !.has = "nothing"] \in CredRow
             /\ [r EXCEPT !.st = "revoked", !.key = k, !.has = "nothing"].key = k
  BY DEF CredRow
<1>3. ASSUME NEW r \in CredRow
      PROVE  /\ [r EXCEPT !.exp = Cd!Later(@)] \in CredRow
             /\ [r EXCEPT !.exp = Cd!Later(@)].key = r.key
             /\ [r EXCEPT !.exp = Cd!Later(@)].st = r.st
  BY DEF CredRow, Cd!Later
<1> QED BY <1>1, <1>2, <1>3

LEMMA NextCredentials == CredentialsInv /\ [Cd!Next]_(Cd!vars) => CredentialsInv'
<1> SUFFICES ASSUME CredentialsInv, [Cd!Next]_(Cd!vars) PROVE CredentialsInv' OBVIOUS
<1>1. ASSUME NEW c, NEW r \in CredRow, r.key = v7, v1' = [v1 EXCEPT ![c] = r],
             UNCHANGED Cd!store
      PROVE  CredentialsInv'
  <2>1. v1' \in [Cred -> CredRow] BY <1>1 DEF CredentialsInv
  <2>2. \A d \in Cred : v1'[d] = v1[d] \/ v1'[d] = r BY <1>1 DEF CredentialsInv
  <2> QED BY <1>1, <2>1, <2>2 DEF CredentialsInv, Cd!store
<1>2. ASSUME v1' = v1, UNCHANGED Cd!store PROVE CredentialsInv'
  BY <1>2 DEF CredentialsInv, Cd!store
<1>3. ASSUME NEW c, NEW s \in {"expiring", "expired", "error"},
             v1' = Cd!UpdateStatus(c, s), UNCHANGED Cd!store
      PROVE  CredentialsInv'
  <2>1. CASE c \in Cred /\ v1[c].st # "none"
    <3>1. v1' = [v1 EXCEPT ![c] = [v1[c] EXCEPT !.st = s]]
      BY <1>3, <2>1 DEF Cd!UpdateStatus, CredentialsInv
    <3>2. v1[c] \in CredRow /\ v1[c].key = v7 BY <2>1 DEF CredentialsInv
    <3>3. [v1[c] EXCEPT !.st = s] \in CredRow /\ [v1[c] EXCEPT !.st = s].key = v7
      BY <3>2, CredRows
    <3> QED BY <1>1, <1>3, <3>1, <3>3
  <2>2. CASE ~(c \in Cred /\ v1[c].st # "none")
    <3>1. v1' = v1 BY <1>3, <2>2 DEF Cd!UpdateStatus, CredentialsInv
    <3> QED BY <1>2, <1>3, <3>1
  <2> QED BY <2>1, <2>2
<1>4. ASSUME NEW c, NEW exp \in {"never", "long", "soon"}, NEW oauth \in BOOLEAN,
             NEW has \in {"secret", "refresh"}, Cd!Put(c, exp, oauth, has), UNCHANGED Cd!store
      PROVE  CredentialsInv'
  <2> DEFINE o == IF v1[c].st = "none" THEN oauth ELSE v1[c].oauth
             r == [st |-> "valid", exp |-> exp, key |-> v7, has |-> has, oauth |-> o]
  <2>1. v1' = [v1 EXCEPT ![c] = r] BY <1>4 DEF Cd!Put, Cd!Stored
  <2>2. CASE c \in Cred
    <3>1. o \in BOOLEAN BY <2>2 DEF CredentialsInv, CredRow
    <3> HIDE DEF o
    <3>2. r \in CredRow /\ r.key = v7 BY <3>1 DEF CredRow, CredentialsInv
    <3> HIDE DEF r
    <3> QED BY <1>1, <1>4, <2>1, <3>2
  <2>3. CASE c \notin Cred
    <3>1. v1' = v1 BY <2>1, <2>3 DEF CredentialsInv
    <3> QED BY <1>2, <1>4, <3>1
  <2> QED BY <2>2, <2>3
<1>5. ASSUME NEW c \in Cred, Cd!Revoke(c) PROVE CredentialsInv'
  <2> DEFINE r == [v1[c] EXCEPT !.st = "revoked", !.key = v7, !.has = "nothing"]
  <2>1. v1' = [v1 EXCEPT ![c] = r] BY <1>5 DEF Cd!Revoke, CredentialsInv
  <2>2. r \in CredRow /\ r.key = v7 BY CredRows DEF CredentialsInv
  <2> HIDE DEF r
  <2> QED BY <1>1, <1>5, <2>1, <2>2 DEF Cd!Revoke
<1>6. ASSUME NEW c \in Cred, Cd!RequestUpdate(c) PROVE CredentialsInv'
  BY <1>3, <1>6 DEF Cd!RequestUpdate
<1>7. ASSUME NEW c \in Cred, Cd!Validated(c) PROVE CredentialsInv'
  <2>1. CASE \E exp \in {"never", "long", "soon"}, oauth \in {FALSE, (c \in Oauth)} :
               Cd!Put(c, exp, oauth, "secret")
    <3>1. PICK exp \in {"never", "long", "soon"}, oauth \in {FALSE, (c \in Oauth)} :
            Cd!Put(c, exp, oauth, "secret")
      BY <2>1
    <3>2. oauth \in BOOLEAN
      <4>1. CASE oauth = FALSE BY <4>1
      <4>2. CASE oauth = (c \in Oauth) BY <4>2
      <4> QED BY <4>1, <4>2
    <3>3. UNCHANGED Cd!store BY <1>7 DEF Cd!Validated
    <3> QED BY <1>4, <3>1, <3>2, <3>3
  <2> QED BY <1>2, <1>7, <2>1 DEF Cd!Validated
<1>8. ASSUME NEW f \in Flow, Cd!Exchanged(f) PROVE CredentialsInv'
  <2>1. CASE \E has \in {"secret", "refresh"}, exp \in {"long", "soon"} :
               Cd!Put(v5[f], exp, TRUE, has)
    <3>1. PICK has \in {"secret", "refresh"}, exp \in {"long", "soon"} :
            Cd!Put(v5[f], exp, TRUE, has)
      BY <2>1
    <3> QED BY <1>4, <1>8, <3>1 DEF Cd!Exchanged
  <2> QED BY <1>2, <1>8, <2>1 DEF Cd!Exchanged
<1>9. CASE Cd!CheckExpiry
  <2>1. UNCHANGED Cd!store BY <1>9 DEF Cd!CheckExpiry
  <2>2. v1' = v1 \/ v1' = Cd!Lapsed BY <1>9 DEF Cd!CheckExpiry
  <2>3. v1' = v1 \/ v1' = Cd!UpdateStatus(Cd!This.c, "expired")
                \/ v1' = Cd!UpdateStatus(Cd!This.c, "expiring")
    BY <2>2 DEF Cd!Lapsed
  <2> QED BY <1>2, <1>3, <2>1, <2>3
<1>10. CASE Cd!Refreshed
  <2>1. UNCHANGED Cd!store BY <1>10 DEF Cd!Refreshed
  <2>2. CASE \E exp \in {"long", "soon"} : Cd!Put(Cd!This.c, exp, TRUE, "refresh")
    <3>1. PICK exp \in {"long", "soon"} : Cd!Put(Cd!This.c, exp, TRUE, "refresh") BY <2>2
    <3> QED BY <1>4, <2>1, <3>1
  <2>3. CASE v1' = Cd!Lapsed
    <3>1. \/ v1' = Cd!UpdateStatus(Cd!This.c, "expired")
          \/ v1' = Cd!UpdateStatus(Cd!This.c, "expiring")
      BY <2>3 DEF Cd!Lapsed
    <3> QED BY <1>3, <2>1, <3>1
  <2> QED BY <1>10, <2>2, <2>3 DEF Cd!Refreshed
<1>11. CASE Cd!CheckEndpoint \/ Cd!EndpointAnswers
  <2>1. UNCHANGED Cd!store BY <1>11 DEF Cd!CheckEndpoint, Cd!EndpointAnswers
  <2>2. v1' = v1 \/ v1' = Cd!Unhealthy BY <1>11 DEF Cd!CheckEndpoint, Cd!EndpointAnswers
  <2> QED BY <1>2, <1>3, <2>1, <2>2 DEF Cd!Unhealthy
<1>12. CASE Cd!HourPasses
  <2>1. v1' = [c \in Cred |-> [v1[c] EXCEPT !.exp = Cd!Later(@)]] /\ UNCHANGED Cd!store
    BY <1>12 DEF Cd!HourPasses
  <2>2. \A c \in Cred : v1'[c] \in CredRow /\ v1'[c].key = v1[c].key /\ v1'[c].st = v1[c].st
    BY <2>1, CredRows DEF CredentialsInv
  <2>3. v1' \in [Cred -> CredRow] BY <2>1, <2>2
  <2> QED BY <2>1, <2>2, <2>3 DEF CredentialsInv, Cd!store
<1>13. CASE Cd!Restart
  <2>1. v1' = v1 BY <1>13 DEF Cd!Restart
  <2>2. Keychain = "works" => v7' = v8 /\ v8' = v8 /\ v9' = v9
    BY <1>13 DEF Cd!Restart, Cd!KeychainAnswers, Cd!GetKey, CredentialsInv
  <2>3. Keychain = "absent" => v7' = v9 /\ v8' = v8 /\ v9' = v9
    BY <1>13 DEF Cd!Restart, Cd!KeychainAnswers, Cd!GetKey, CredentialsInv
  <2>4. Keychain = "works" \/ Keychain = "absent" BY MCStoresAssumption
  <2> QED BY <2>1, <2>2, <2>3, <2>4 DEF CredentialsInv
<1>14. CASE UNCHANGED Cd!vars BY <1>2, <1>14 DEF Cd!vars
<1>15. ASSUME \/ \E c \in Cred : Cd!ClearAlert(c) \/ Cd!Post(c)
              \/ \E f \in Flow : \/ Cd!TenMinutes(f) \/ Cd!Callback(f)
                                  \/ \E c \in Cred : Cd!StartOauth(f, c)
              \/ Cd!CleanupExpiredFlows \/ Cd!CheckBegins
       PROVE  CredentialsInv'
  <2>1. v1' = v1 /\ UNCHANGED Cd!store
    BY <1>15 DEF Cd!ClearAlert, Cd!Post, Cd!TenMinutes, Cd!Callback, Cd!StartOauth,
                 Cd!CleanupExpiredFlows, Cd!CheckBegins
  <2> QED BY <1>2, <2>1
<1> QED
  BY <1>5, <1>6, <1>7, <1>8, <1>9, <1>10, <1>11, <1>12, <1>13, <1>14, <1>15 DEF Cd!Next

-----------------------------------------------------------------------------
(* Logins: cred is v1, meta v2 and job v8.                                 *)

LEMMA LoginsOnly ==
  /\ Init /\ Is("logins") => Cs!Init
  /\ [Next]_all /\ Is("logins") => [Cs!Next]_(Cs!vars)
BY DEF Init, Next, Is, Cs!vars, Cs!memory, all

LoginToken == [fresh : BOOLEAN, refresh : BOOLEAN, can : BOOLEAN]

\* What a call carries: a token, nothing, or a state.
Carried == LoginToken \cup {None, "ok", "expired", "not_configured", "error"}

LoginStage ==
  {"idle", "checks", "loads", "applies", "reads", "decides", "refreshes", "gives up", "saves",
   "stores", "stored", "deletes", "deleted", "exchanges", "polls"}

LoginJob == [at : LoginStage, tok : Carried, tried : BOOLEAN, flow : {0, 1, 2}]

\* A token that may be refreshed has what refreshes it.
Kept(tok) == tok \in LoginToken /\ (tok.can => tok.refresh)

LoginJobInv(j) ==
  /\ j \in LoginJob
  /\ j.at \in {"refreshes", "stores"} => Kept(j.tok)
  /\ j.at = "decides" => j.tok = None \/ Kept(j.tok)
  /\ j.at = "gives up" => (j.tok.can => j.tried)

LoginsInv ==
  /\ v1 = None \/ Kept(v1)
  /\ v2 \in Carried /\ v1 \in Carried
  /\ DOMAIN v8 = Call /\ v8 = [c \in Call |-> v8[c]]
  /\ \A c \in Call : LoginJobInv(v8[c])

LEMMA InitLogins == Cs!Init => LoginsInv
<1>1. SUFFICES ASSUME Cs!Init PROVE LoginsInv OBVIOUS
<1>2. LoginJobInv(Cs!Idle) BY DEF LoginJobInv, LoginJob, LoginStage, Cs!Idle, Carried
<1> QED BY <1>1, <1>2 DEF LoginsInv, Cs!Init, Carried

\* A call moves on, with what it has or with something else.
LEMMA LoginGoes ==
  \A j \in LoginJob, at \in LoginStage :
    /\ [j EXCEPT !.at = at] \in LoginJob /\ [j EXCEPT !.at = at].at = at
    /\ [j EXCEPT !.at = at].tok = j.tok /\ [j EXCEPT !.at = at].tried = j.tried
BY DEF LoginJob

LEMMA LoginFails ==
  ASSUME NEW j \in LoginJob
  PROVE  /\ [j EXCEPT !.at = "gives up", !.tried = TRUE] \in LoginJob
         /\ [j EXCEPT !.at = "gives up", !.tried = TRUE].at = "gives up"
         /\ [j EXCEPT !.at = "gives up", !.tried = TRUE].tried = TRUE
         /\ [j EXCEPT !.at = "saves", !.tok = "error", !.flow = 0] \in LoginJob
         /\ [j EXCEPT !.at = "saves", !.tok = "error", !.flow = 0].at = "saves"
BY DEF LoginJob, LoginStage, Carried

\* A new token, one that a refresh brought, and one that time has passed over.
LEMMA LoginTokens ==
  /\ \A new \in Cs!NewToken : new \in LoginToken /\ Kept(new)
  /\ \A tok \in LoginToken, new \in Cs!NewToken :
       Cs!Refreshed(tok, new) \in LoginToken /\ Kept(Cs!Refreshed(tok, new))
  /\ \A tok : Kept(tok) => Kept([tok EXCEPT !.fresh = FALSE])
<1>1. ASSUME NEW new \in Cs!NewToken PROVE new \in LoginToken /\ Kept(new)
  <2>1. PICK b \in BOOLEAN : new = [fresh |-> TRUE, refresh |-> b, can |-> b]
    BY DEF Cs!NewToken
  <2>2. [fresh |-> TRUE, refresh |-> b, can |-> b] \in LoginToken BY DEF LoginToken
  <2> QED BY <2>1, <2>2 DEF Kept
<1>2. ASSUME NEW tok \in LoginToken, NEW new \in Cs!NewToken
      PROVE  Cs!Refreshed(tok, new) \in LoginToken /\ Kept(Cs!Refreshed(tok, new))
  <2>1. new \in LoginToken BY <1>1
  <2> QED BY <2>1 DEF Cs!Refreshed, Kept, LoginToken
<1>3. ASSUME NEW tok, Kept(tok) PROVE Kept([tok EXCEPT !.fresh = FALSE])
  BY <1>3 DEF Kept, LoginToken
<1> QED BY <1>1, <1>2, <1>3

LEMMA NextLogins == LoginsInv /\ [Cs!Next]_(Cs!vars) => LoginsInv'
<1> SUFFICES ASSUME LoginsInv, [Cs!Next]_(Cs!vars) PROVE LoginsInv' OBVIOUS
<1>1. \A c \in Call : LoginJobInv(v8[c]) /\ v8[c] \in LoginJob BY DEF LoginsInv, LoginJobInv
<1>2. ASSUME NEW c \in Call, NEW j, v8' = [v8 EXCEPT ![c] = j], LoginJobInv(j),
             v1' = None \/ Kept(v1'), v1' \in Carried, v2' \in Carried
      PROVE  LoginsInv'
  <2>1. /\ DOMAIN v8' = Call /\ v8' = [d \in Call |-> v8'[d]]
        /\ v8'[c] = j /\ \A d \in Call : d # c => v8'[d] = v8[d]
    BY <1>2 DEF LoginsInv
  <2>2. \A d \in Call : LoginJobInv(v8'[d]) BY <1>1, <1>2, <2>1
  <2> QED BY <1>2, <2>1, <2>2 DEF LoginsInv, LoginJobInv
<1>3. ASSUME NEW c \in Call, NEW j, v8' = [v8 EXCEPT ![c] = j], LoginJobInv(j),
             UNCHANGED <<v1, v2>>
      PROVE  LoginsInv'
  BY <1>2, <1>3 DEF LoginsInv
\* the calls that move on with what they have, and the ones that return
<1>4. ASSUME NEW c \in Call, UNCHANGED <<v1, v2>>, v8[c].at # "gives up",
             NEW at \in {"checks", "loads", "stored", "deletes", "deleted", "reads"},
             Cs!Goes(c, at)
      PROVE  LoginsInv'
  <2> DEFINE j == [v8[c] EXCEPT !.at = at]
  <2>1. v8' = [v8 EXCEPT ![c] = j] BY <1>4 DEF Cs!Goes, LoginsInv
  <2>2a. v8[c] \in LoginJob /\ at \in LoginStage BY <1>1 DEF LoginStage
  <2>2. j \in LoginJob /\ j.at = at BY <2>2a, LoginGoes
  <2>3. LoginJobInv(j) BY <2>2 DEF LoginJobInv
  <2> HIDE DEF j
  <2> QED BY <1>3, <1>4, <2>1, <2>3
<1>5. ASSUME NEW c \in Call, Cs!Returns(c), v1' = v1, v2' \in Carried PROVE LoginsInv'
  <2>1. LoginJobInv(Cs!Idle) BY DEF LoginJobInv, LoginJob, LoginStage, Cs!Idle, Carried
  <2> QED BY <1>2, <1>5, <2>1 DEF Cs!Returns, LoginsInv
<1>6. ASSUME NEW c \in Call, UNCHANGED <<v1, v2>>,
             NEW at \in {"applies", "decides", "stores", "saves"}, NEW tok \in Carried,
             Cs!GoesWith(c, at, tok), at = "stores" => Kept(tok),
             at = "decides" => tok = None \/ Kept(tok)
      PROVE  LoginsInv'
  <2> DEFINE j == [v8[c] EXCEPT !.at = at, !.tok = tok]
  <2>1. v8' = [v8 EXCEPT ![c] = j] BY <1>6 DEF Cs!GoesWith, LoginsInv
  <2>2a. v8[c] \in LoginJob /\ at \in LoginStage BY <1>1 DEF LoginStage
  <2>2. j \in LoginJob /\ j.at = at /\ j.tok = tok BY <2>2a DEF LoginJob
  <2>3. LoginJobInv(j) BY <1>6, <2>2 DEF LoginJobInv
  <2> HIDE DEF j
  <2> QED BY <1>3, <1>6, <2>1, <2>3
<1>7. ASSUME NEW c \in Call, UNCHANGED <<v1, v2>>,
             NEW s \in {"ok", "expired", "not_configured", "error"}, Cs!Saves(c, s)
      PROVE  LoginsInv'
  BY <1>6, <1>7 DEF Cs!Saves, Carried
<1>8. ASSUME NEW c \in Call, UNCHANGED <<v1, v2>>,
             \E tok \in Cs!NewToken : Cs!GoesWith(c, "stores", tok)
      PROVE  LoginsInv'
  <2>1. PICK tok \in Cs!NewToken : Cs!GoesWith(c, "stores", tok) BY <1>8
  <2>2. tok \in Carried /\ Kept(tok) BY LoginTokens DEF Carried
  <2> QED BY <1>6, <1>8, <2>1, <2>2
<1>9. ASSUME NEW c \in Call, Cs!Save(c) PROVE LoginsInv'
  <2>1. v2' \in Carried BY <1>1, <1>9 DEF Cs!Save, LoginJob
  <2> QED BY <1>5, <1>9, <2>1 DEF Cs!Save
<1>10. ASSUME NEW c \in Call, Cs!ReadMeta(c) \/ Cs!ReadCred(c) PROVE LoginsInv'
  <2>1. /\ UNCHANGED <<v1, v2>>
        /\ Cs!GoesWith(c, "applies", v2) \/ Cs!GoesWith(c, "decides", v1)
    BY <1>10 DEF Cs!ReadMeta, Cs!ReadCred
  <2>2. v1 \in Carried /\ v2 \in Carried /\ (v1 = None \/ Kept(v1)) BY DEF LoginsInv
  <2> QED BY <1>6, <2>1, <2>2
<1>11. ASSUME NEW c \in Call, Cs!Decides(c) PROVE LoginsInv'
  <2>1. UNCHANGED <<v1, v2>> /\ v8[c].at = "decides" BY <1>11 DEF Cs!Decides, Cs!At
  <2>2. CASE Cs!Returns(c) BY <1>5, <2>1, <2>2 DEF LoginsInv
  <2>3. CASE /\ v8[c].tok # None /\ ~v8[c].tok.fresh
             /\ Cs!Goes(c, IF v8[c].tok.refresh THEN "refreshes" ELSE "gives up")
    <3>1. Kept(v8[c].tok) BY <1>1, <2>1, <2>3 DEF LoginJobInv
    <3>2. PICK at \in {"refreshes", "gives up"} :
            /\ Cs!Goes(c, at)
            /\ at = "gives up" => ~v8[c].tok.can
      BY <2>3, <3>1 DEF Kept
    <3> DEFINE j == [v8[c] EXCEPT !.at = at]
    <3>3. v8' = [v8 EXCEPT ![c] = j] BY <3>2 DEF Cs!Goes, LoginsInv
    <3>4a. v8[c] \in LoginJob /\ at \in LoginStage BY <1>1 DEF LoginStage
    <3>4. j \in LoginJob /\ j.at = at /\ j.tok = v8[c].tok BY <3>4a, LoginGoes
    <3>5. LoginJobInv(j) BY <3>1, <3>2, <3>4 DEF LoginJobInv
    <3> HIDE DEF j
    <3> QED BY <1>3, <2>1, <3>3, <3>5
  <2> QED BY <1>11, <2>2, <2>3 DEF Cs!Decides
<1>12. ASSUME NEW c \in Call, Cs!Refresh(c) PROVE LoginsInv'
  <2>1. UNCHANGED <<v1, v2>> /\ v8[c].at = "refreshes" BY <1>12 DEF Cs!Refresh, Cs!At
  <2>2. CASE \E new \in Cs!NewToken : Cs!GoesWith(c, "stores", Cs!Refreshed(v8[c].tok, new))
    <3>1. PICK new \in Cs!NewToken : Cs!GoesWith(c, "stores", Cs!Refreshed(v8[c].tok, new))
      BY <2>2
    <3>2. v8[c].tok \in LoginToken BY <1>1, <2>1 DEF LoginJobInv, Kept
    <3>3. Cs!Refreshed(v8[c].tok, new) \in Carried /\ Kept(Cs!Refreshed(v8[c].tok, new))
      BY <3>2, LoginTokens DEF Carried
    <3> QED BY <1>6, <2>1, <3>1, <3>3
  <2>3. CASE v8' = [v8 EXCEPT ![c].at = "gives up", ![c].tried = TRUE]
    <3> DEFINE j == [v8[c] EXCEPT !.at = "gives up", !.tried = TRUE]
    <3>1. v8' = [v8 EXCEPT ![c] = j] BY <2>3 DEF LoginsInv
    <3>2a. v8[c] \in LoginJob BY <1>1
    <3>2. j \in LoginJob /\ j.at = "gives up" /\ j.tried = TRUE BY <3>2a, LoginFails
    <3>3. LoginJobInv(j) BY <3>2 DEF LoginJobInv
    <3> HIDE DEF j
    <3> QED BY <1>3, <2>1, <3>1, <3>3
  <2> QED BY <1>12, <2>2, <2>3 DEF Cs!Refresh
<1>13. ASSUME NEW c \in Call, Cs!PutCred(c) \/ Cs!DeleteCred(c) PROVE LoginsInv'
  <2>1. PICK at \in {"stored", "deleted"} : Cs!Goes(c, at)
    BY <1>13 DEF Cs!PutCred, Cs!DeleteCred
  <2> DEFINE j == [v8[c] EXCEPT !.at = at]
  <2>2. v8' = [v8 EXCEPT ![c] = j] BY <2>1 DEF Cs!Goes, LoginsInv
  <2>3a. v8[c] \in LoginJob /\ at \in LoginStage BY <1>1 DEF LoginStage
  <2>3. j \in LoginJob /\ j.at = at BY <2>3a, LoginGoes
  <2>4. LoginJobInv(j) BY <2>3 DEF LoginJobInv
  <2> HIDE DEF j
  <2>5. v8[c].at = "stores" => Kept(v8[c].tok) BY <1>1 DEF LoginJobInv
  <2>6. v1' = None \/ Kept(v1')
    BY <1>13, <2>5 DEF Cs!PutCred, Cs!DeleteCred, Cs!At
  <2>7. v1' \in Carried BY <2>6 DEF Carried, Kept
  <2>8. v2' \in Carried BY <1>13 DEF Cs!PutCred, Cs!DeleteCred, LoginsInv
  <2> QED BY <1>2, <2>2, <2>4, <2>6, <2>7, <2>8
<1>14. ASSUME NEW c \in Call, Cs!Callback(c) \/ Cs!Poll(c) PROVE LoginsInv'
  <2>1. UNCHANGED <<v1, v2>> BY <1>14 DEF Cs!Callback, Cs!Poll
  <2>2. PICK at \in {"exchanges", "polls"}, f \in {1, 2} :
          v8' = [v8 EXCEPT ![c].at = at, ![c].flow = f]
    BY <1>14 DEF Cs!Callback, Cs!Poll
  <2> DEFINE j == [v8[c] EXCEPT !.at = at, !.flow = f]
  <2>3. v8' = [v8 EXCEPT ![c] = j] BY <2>2 DEF LoginsInv
  <2>4a. v8[c] \in LoginJob /\ at \in LoginStage BY <1>1 DEF LoginStage
  <2>4. j \in LoginJob /\ j.at = at BY <2>4a DEF LoginJob
  <2>5. LoginJobInv(j) BY <2>4 DEF LoginJobInv
  <2> HIDE DEF j
  <2> QED BY <1>3, <2>1, <2>3, <2>5
<1>15. ASSUME NEW c \in Call, Cs!Exchange(c) PROVE LoginsInv'
  <2>1. UNCHANGED <<v1, v2>> BY <1>15 DEF Cs!Exchange
  <2>2. CASE \E tok \in Cs!NewToken : Cs!GoesWith(c, "stores", tok) BY <1>8, <2>1, <2>2
  <2>3. CASE v8' = [v8 EXCEPT ![c].at = "saves", ![c].tok = "error", ![c].flow = 0]
    <3> DEFINE j == [v8[c] EXCEPT !.at = "saves", !.tok = "error", !.flow = 0]
    <3>1. v8' = [v8 EXCEPT ![c] = j] BY <2>3 DEF LoginsInv
    <3>2a. v8[c] \in LoginJob BY <1>1
    <3>2. j \in LoginJob /\ j.at = "saves" BY <3>2a, LoginFails
    <3>3. LoginJobInv(j) BY <3>2 DEF LoginJobInv
    <3> HIDE DEF j
    <3> QED BY <1>3, <2>1, <3>1, <3>3
  <2> QED BY <1>15, <2>2, <2>3 DEF Cs!Exchange
<1>16. ASSUME NEW c \in Call, Cs!Polled(c) PROVE LoginsInv'
  <2>1. UNCHANGED <<v1, v2>> BY <1>16 DEF Cs!Polled
  <2>2. v2' \in Carried BY <2>1 DEF LoginsInv
  <2> QED BY <1>5, <1>7, <1>8, <1>16, <2>1, <2>2 DEF Cs!Polled
<1>17. ASSUME NEW c \in Call, Cs!GiveUp(c) \/ Cs!Cleared(c) \/ Cs!Mark(c) \/ Cs!Stored(c)
       PROVE  LoginsInv'
  <2>1. UNCHANGED <<v1, v2>>
    BY <1>17 DEF Cs!GiveUp, Cs!Cleared, Cs!Mark, Cs!Stored
  <2>2. \E s \in {"ok", "expired", "not_configured", "error"} : Cs!Saves(c, s)
    BY <1>17 DEF Cs!GiveUp, Cs!Cleared, Cs!Mark, Cs!Stored
  <2> QED BY <1>7, <2>1, <2>2
<1>18. ASSUME NEW c \in Call, Cs!GetToken(c) \/ Cs!Load(c) \/ Cs!Clear(c)
       PROVE  LoginsInv'
  <2>1. UNCHANGED <<v1, v2>> /\ v8[c].at # "gives up"
    BY <1>18 DEF Cs!GetToken, Cs!Load, Cs!Clear, Cs!At
  <2>2. \E at \in {"checks", "loads", "deletes"} : Cs!Goes(c, at)
    BY <1>18 DEF Cs!GetToken, Cs!Load, Cs!Clear
  <2> QED BY <1>4, <2>1, <2>2
<1>19. ASSUME NEW c \in Call, Cs!Checks(c) PROVE LoginsInv'
  <2>1. UNCHANGED <<v1, v2>> /\ v8[c].at # "gives up" BY <1>19 DEF Cs!Checks, Cs!At
  <2>2. v2' \in Carried BY <2>1 DEF LoginsInv
  <2> QED BY <1>4, <1>5, <1>19, <2>1, <2>2 DEF Cs!Checks
<1>20. ASSUME NEW c \in Call, Cs!StoreToken(c) PROVE LoginsInv'
  BY <1>8, <1>20 DEF Cs!StoreToken
<1>21. ASSUME UNCHANGED <<v1, v2, v8>> PROVE LoginsInv'
  BY <1>21 DEF LoginsInv
<1>22. CASE Cs!AuthUrl \/ Cs!DeviceCode \/ UNCHANGED Cs!vars
  BY <1>21, <1>22 DEF Cs!AuthUrl, Cs!DeviceCode, Cs!vars
<1>23. CASE Cs!Expire
  <2>1. v1 # None /\ v1' = [v1 EXCEPT !.fresh = FALSE] /\ UNCHANGED <<v2, v8>>
    BY <1>23 DEF Cs!Expire
  <2>2. Kept(v1') BY <2>1, LoginTokens DEF LoginsInv
  <2>3. v1' \in Carried BY <2>2 DEF Kept, Carried
  <2> QED BY <2>1, <2>2, <2>3 DEF LoginsInv
<1>24. CASE Cs!Restart
  <2>1. v8' = [c \in Call |-> Cs!Idle] /\ UNCHANGED <<v1, v2>> BY <1>24 DEF Cs!Restart
  <2>2. LoginJobInv(Cs!Idle) BY DEF LoginJobInv, LoginJob, LoginStage, Cs!Idle, Carried
  <2> QED BY <2>1, <2>2 DEF LoginsInv
<1> QED
  BY <1>9, <1>10, <1>11, <1>12, <1>13, <1>14, <1>15, <1>16, <1>17, <1>18, <1>19, <1>20,
     <1>22, <1>23, <1>24
  DEF Cs!Next

-----------------------------------------------------------------------------
(* Tokens: file is v9, held v11, kind v12, ended v13 and crashes v15.      *)

LEMMA AccountsOnly ==
  /\ Init /\ Is("accounts") => Ac!Init
  /\ [Next]_all /\ Is("accounts") => [Ac!Next]_(Ac!vars)
BY DEF Init, Next, Is, Ac!vars, Ac!server, Ac!tokens, all

TokenWrite == [to : SUBSET Nat, new : SUBSET Nat, over : SUBSET Nat]

TokensTypes ==
  /\ v9 \subseteq Nat /\ v13 \subseteq Nat /\ v15 \in Nat
  /\ v11 \in [Server -> TokenWrite]
  /\ DOMAIN v12 = Ac!Token /\ v12 = [t \in Ac!Token |-> v12[t]]

\* Handed out and neither expired nor revoked.
Good(t) == v12[t] # "new" /\ t \notin v13

\* What is about to be written has every token that it does not end.
TokensInv ==
  /\ TokensTypes
  /\ v15 = 0 => \A t \in Ac!Token :
       /\ Good(t) /\ (\A p \in Server : t \notin v11[p].new) => t \in v9
       /\ \A p \in Server : v11[p] # Ac!Idle /\ Good(t) /\ t \notin v11[p].over => t \in v11[p].to

LEMMA InitAccounts == Ac!Init => TokensInv
<1>1. SUFFICES ASSUME Ac!Init PROVE TokensInv OBVIOUS
<1>2. Ac!Idle \in TokenWrite BY DEF Ac!Idle, Ac!Write, TokenWrite
<1>3. TokensTypes BY <1>1, <1>2 DEF Ac!Init, TokensTypes
<1>4. \A t \in Ac!Token : ~Good(t) BY <1>1 DEF Ac!Init, Good
<1> QED BY <1>3, <1>4 DEF TokensInv

LEMMA TokenWrites ==
  ASSUME NEW to \in SUBSET Nat, NEW new \in SUBSET Nat, NEW over \in SUBSET Nat
  PROVE  /\ Ac!Write(to, new, over) \in TokenWrite
         /\ Ac!Write(to, new, over).to = to /\ Ac!Write(to, new, over).new = new
         /\ Ac!Write(to, new, over).over = over
BY DEF Ac!Write, TokenWrite

LEMMA NextAccounts == TokensInv /\ [Ac!Next]_(Ac!vars) => TokensInv'
<1> SUFFICES ASSUME TokensInv, [Ac!Next]_(Ac!vars) PROVE TokensInv' OBVIOUS
<1>1. TokensTypes BY DEF TokensInv
<1>2. \A p, q \in Server : p = q BY MCStoresAssumption DEF Single
<1>3. Ac!Token \subseteq Nat /\ 0 \notin Ac!Token
  BY MCStoresAssumption DEF Ac!Token, Ac!AccountsAssumption
<1>4. Ac!Idle \in TokenWrite /\ Ac!Idle.new = {}
  <2>1. {0} \in SUBSET Nat /\ {} \in SUBSET Nat OBVIOUS
  <2> QED BY <2>1, TokenWrites DEF Ac!Idle
<1>5. Ac!Loaded \subseteq Nat /\ Ac!Loaded \subseteq v9 BY <1>1 DEF Ac!Loaded, TokensTypes
<1>6. ASSUME NEW p \in Server, v15 = 0, v11[p] = Ac!Idle, NEW t \in Ac!Token, Good(t)
      PROVE  t \in v9 /\ t \in Ac!Loaded
  <2>1. \A q \in Server : v11[q].new = {} BY <1>2, <1>4, <1>6
  <2>2. t \in v9 BY <1>6, <2>1 DEF TokensInv
  <2> QED BY <1>3, <2>2 DEF Ac!Loaded
\* a process begins to write tokens that it has just read, without the ones that ended
<1>7. ASSUME NEW p \in Server, v11[p] = Ac!Idle, NEW to \in SUBSET Nat, NEW over \in SUBSET Nat,
             \A t \in Ac!Loaded : t \notin v13 /\ t \notin over => t \in to,
             v11' = [v11 EXCEPT ![p] = Ac!Write(to, {}, over)], UNCHANGED <<v9, v12, v13, v15>>
      PROVE  TokensInv'
  <2> DEFINE w == Ac!Write(to, {}, over)
  <2>1. {} \in SUBSET Nat OBVIOUS
  <2>2. w \in TokenWrite /\ w.to = to /\ w.new = {} /\ w.over = over BY <2>1, TokenWrites
  <2> HIDE DEF w
  <2>3. v11' \in [Server -> TokenWrite] /\ \A q \in Server : v11'[q] = w
    BY <1>1, <1>2, <1>7, <2>2 DEF TokensTypes, w
  <2>4. TokensTypes' BY <1>1, <1>7, <2>3 DEF TokensTypes
  <2>5. ASSUME v15' = 0, NEW t \in Ac!Token, Good(t)'
        PROVE  t \in v9' /\ \A q \in Server : t \notin v11'[q].over => t \in v11'[q].to
    <3>1. Good(t) /\ v15 = 0 BY <1>7, <2>5 DEF Good
    <3>2. t \in v9 /\ t \in Ac!Loaded BY <1>6, <1>7, <3>1
    <3> QED BY <1>7, <2>2, <2>3, <3>1, <3>2 DEF Good
  <2> QED BY <2>4, <2>5 DEF TokensInv
<1>8. ASSUME NEW p \in Server, NEW t \in Ac!Token, NEW k \in {"temp", "perm"}, Ac!Create(p, t, k)
      PROVE  TokensInv'
  <2>1. /\ v11[p] = Ac!Idle /\ v12[t] = "new" /\ v12' = [v12 EXCEPT ![t] = k]
        /\ UNCHANGED <<v9, v13, v15>>
    BY <1>8 DEF Ac!Create
  <2>2. PICK to \in SUBSET Nat, over \in SUBSET Nat :
          /\ v11' = [v11 EXCEPT ![p] = Ac!Write(to, {t}, over)]
          /\ t \in to /\ \A s \in Ac!Loaded : s \notin over => s \in to
    <3>1. CASE k = "temp"
      <4>1. v11' = [v11 EXCEPT ![p] = Ac!Write(Ac!Loaded \cup {t}, {t}, {})]
        BY <1>8, <3>1 DEF Ac!Create
      <4>2. Ac!Loaded \cup {t} \in SUBSET Nat /\ {} \in SUBSET Nat BY <1>3, <1>5
      <4> QED BY <4>1, <4>2
    <3>2. CASE k = "perm"
      <4>1. v11' = [v11 EXCEPT ![p] = Ac!Write((Ac!Loaded \ Ac!Perm) \cup {t}, {t},
                                               Ac!Loaded \cap Ac!Perm)]
        BY <1>8, <3>2 DEF Ac!Create
      <4>2. (Ac!Loaded \ Ac!Perm) \cup {t} \in SUBSET Nat /\ Ac!Loaded \cap Ac!Perm \in SUBSET Nat
        BY <1>3, <1>5
      <4> QED BY <4>1, <4>2
    <3> QED BY <3>1, <3>2
  <2> DEFINE w == Ac!Write(to, {t}, over)
  <2>3. {t} \in SUBSET Nat BY <1>3
  <2>4. w \in TokenWrite /\ w.to = to /\ w.new = {t} /\ w.over = over 
    BY <2>3 DEF Ac!Write, TokenWrite
  <2> HIDE DEF w
  <2>5. v11' \in [Server -> TokenWrite] /\ \A q \in Server : v11'[q] = w
    BY <1>1, <1>2, <2>2, <2>4 DEF TokensTypes, w
  <2>6. /\ DOMAIN v12' = Ac!Token /\ v12' = [s \in Ac!Token |-> v12'[s]]
        /\ \A s \in Ac!Token : s # t => v12'[s] = v12[s]
    BY <1>1, <2>1 DEF TokensTypes
  <2>7. TokensTypes' BY <1>1, <2>1, <2>5, <2>6 DEF TokensTypes
  <2>8. ASSUME v15' = 0, NEW s \in Ac!Token, Good(s)', s # t PROVE s \in v9' /\ s \in Ac!Loaded
    <3>1. Good(s) /\ v15 = 0 BY <2>1, <2>6, <2>8 DEF Good
    <3> QED BY <1>6, <2>1, <3>1
  <2>9. ASSUME v15' = 0, NEW s \in Ac!Token, Good(s)'
        PROVE  /\ (\A q \in Server : s \notin v11'[q].new) => s \in v9'
               /\ \A q \in Server : s \notin v11'[q].over => s \in v11'[q].to
    BY <2>2, <2>4, <2>5, <2>8, <2>9
  <2> QED BY <2>7, <2>9 DEF TokensInv
<1>9. ASSUME NEW p \in Server, Ac!RevokeTemporary(p) PROVE TokensInv'
  <2>1. /\ v11[p] = Ac!Idle /\ UNCHANGED <<v9, v12, v13, v15>>
        /\ v11' = [v11 EXCEPT ![p] = Ac!Write(Ac!Loaded \cap Ac!Perm, {}, Ac!Loaded \ Ac!Perm)]
    BY <1>9 DEF Ac!RevokeTemporary
  <2>2. Ac!Loaded \cap Ac!Perm \in SUBSET Nat /\ Ac!Loaded \ Ac!Perm \in SUBSET Nat BY <1>5
  <2>3. \A t \in Ac!Loaded : t \notin Ac!Loaded \ Ac!Perm => t \in Ac!Loaded \cap Ac!Perm OBVIOUS
  <2> QED BY <1>7, <2>1, <2>2, <2>3
<1>10. ASSUME NEW p \in Server, v11[p] = Ac!Idle, UNCHANGED <<v9, v12, v13, v15>>,
              v11' = [v11 EXCEPT ![p] =
                Ac!Write(Ac!Loaded \ {s \in v13 : v12[s] = "temp"}, {}, {})]
       PROVE  TokensInv'
  <2>1. Ac!Loaded \ {s \in v13 : v12[s] = "temp"} \in SUBSET Nat /\ {} \in SUBSET Nat BY <1>5
  <2>2. \A t \in Ac!Loaded : t \notin v13 => t \in Ac!Loaded \ {s \in v13 : v12[s] = "temp"}
    OBVIOUS
  <2> QED BY <1>7, <1>10, <2>1, <2>2
<1>11. ASSUME UNCHANGED <<v9, v11, v12, v13, v15>> PROVE TokensInv'
  BY <1>1, <1>11 DEF TokensInv, TokensTypes, Good
<1>12. ASSUME NEW p \in Server, NEW b \in Browser, Ac!Verify(p, b) PROVE TokensInv'
  <2> DEFINE live == Ac!Loaded \ {s \in v13 : v12[s] = "temp"}
  <2>1. /\ v11[p] = Ac!Idle /\ UNCHANGED <<v9, v12, v13, v15>>
        /\ v11' = [v11 EXCEPT ![p] = Ac!Write(live, {}, {})] \/ v11' = v11
    BY <1>12 DEF Ac!Verify
  <2> QED BY <1>10, <1>11, <2>1
<1>13. ASSUME NEW p \in Server, Ac!Startup(p) PROVE TokensInv'
  BY <1>10, <1>13 DEF Ac!Startup
<1>14. ASSUME NEW p \in Server, Ac!Save(p) PROVE TokensInv'
  <2>1. /\ v11[p] # Ac!Idle /\ v9' = v11[p].to /\ v11' = [v11 EXCEPT ![p] = Ac!Idle]
        /\ v13' = v13 \cup v11[p].over /\ UNCHANGED <<v12, v15>>
    BY <1>14 DEF Ac!Save
  <2>2. v11[p].to \subseteq Nat /\ v11[p].over \subseteq Nat BY <1>1 DEF TokensTypes, TokenWrite
  <2>3. v11' \in [Server -> TokenWrite] /\ \A q \in Server : v11'[q] = Ac!Idle
    BY <1>1, <1>2, <1>4, <2>1 DEF TokensTypes
  <2>4. TokensTypes' BY <1>1, <2>1, <2>2, <2>3 DEF TokensTypes
  <2>5. ASSUME v15' = 0, NEW t \in Ac!Token, Good(t)' PROVE t \in v9'
    <3>1. v15 = 0 /\ Good(t) /\ t \notin v11[p].over BY <2>1, <2>5 DEF Good
    <3> QED BY <2>1, <3>1 DEF TokensInv
  <2> QED BY <2>3, <2>4, <2>5 DEF TokensInv
<1>15. ASSUME NEW p \in Server, Ac!CrashSaving(p) PROVE TokensInv'
  <2>1. /\ v15' = v15 + 1 /\ v9' = {0} /\ v11' = [v11 EXCEPT ![p] = Ac!Idle]
        /\ v13' = v13 \cup v11[p].over \cup v11[p].new /\ v12' = v12
    BY <1>15 DEF Ac!CrashSaving
  <2>2. v11[p].new \subseteq Nat /\ v11[p].over \subseteq Nat BY <1>1 DEF TokensTypes, TokenWrite
  <2>3. v15' \in Nat /\ v15' # 0 BY <1>1, <2>1 DEF TokensTypes
  <2>4. v11' \in [Server -> TokenWrite] BY <1>1, <1>4, <2>1 DEF TokensTypes
  <2>5. v9' \subseteq Nat /\ v13' \subseteq Nat BY <1>1, <2>1, <2>2 DEF TokensTypes
  <2>6. TokensTypes' BY <1>1, <2>1, <2>3, <2>4, <2>5 DEF TokensTypes
  <2> QED BY <2>3, <2>6 DEF TokensInv
<1>16. ASSUME NEW t \in Ac!Token, Ac!Expire(t) PROVE TokensInv'
  <2>1. v13' = v13 \cup {t} /\ UNCHANGED <<v9, v11, v12, v15>> BY <1>16 DEF Ac!Expire
  <2>2. TokensTypes' BY <1>1, <1>3, <2>1 DEF TokensTypes
  <2>3. \A s \in Ac!Token : Good(s)' => Good(s) BY <2>1 DEF Good
  <2> QED BY <2>1, <2>2, <2>3 DEF TokensInv
<1>17. ASSUME UNCHANGED Ac!tokens PROVE TokensInv'
  BY <1>11, <1>17 DEF Ac!tokens
<1>18. CASE UNCHANGED Ac!vars BY <1>17, <1>18 DEF Ac!vars
<1>19. ASSUME \/ \E u \in User, h \in Host \cup {None} : Ac!Setup(u, h)
              \/ Ac!StartServer \/ Ac!StopServer
              \/ \E b \in Browser, h \in Host : Ac!CreateHost(b, h)
              \/ \E h \in Host : Ac!Connect(h) \/ Ac!Disconnect(h)
              \/ \E b \in Browser, u \in User : Ac!Begin(b, u, None, 0)
              \/ \E b \in Browser, t \in Ac!Token : Ac!Begin(b, None, Home, t)
              \/ \E b \in Browser : Ac!TokenLogin(b) \/ Ac!Logout(b)
              \/ \E b \in Browser, right \in BOOLEAN : Ac!PasswordLogin(b, right)
              \/ Ac!AttemptAges \/ Ac!FailureAges
              \/ \E valid \in BOOLEAN : Ac!Remote(valid)
       PROVE  TokensInv'
  <2>1. UNCHANGED Ac!tokens
    BY <1>19 DEF Ac!Setup, Ac!StartServer, Ac!StopServer, Ac!CreateHost, Ac!Connect,
                 Ac!Disconnect, Ac!Begin, Ac!TokenLogin, Ac!Logout, Ac!PasswordLogin,
                 Ac!AttemptAges, Ac!FailureAges, Ac!Remote
  <2> QED BY <1>17, <2>1
<1> QED
  BY <1>8, <1>9, <1>12, <1>13, <1>14, <1>15, <1>16, <1>18, <1>19 DEF Ac!Next

-----------------------------------------------------------------------------
\* What was stored stays usable: for any credentials, flows and starts, every row was
\* encrypted with the key in use, where the keychain always answers or never does; for
\* any calls, a login that has a refresh token is given up only after it was tried; and
\* for any tokens and browsers, what one process handed out is in its file
\* (credentials/vault.py, ext/credentials.py, access/tokens.py).
THEOREM SecretsAreAlwaysUsable == Spec => []SecretsUsable
<1> DEFINE Inv == /\ Is("credentials") => CredentialsInv
                  /\ Is("logins") => LoginsInv
                  /\ Is("accounts") => TokensInv
<1>1. Init => Inv
  BY CredentialsOnly, InitCredentials, LoginsOnly, InitLogins, AccountsOnly, InitAccounts
<1>2. Inv /\ [Next]_all => Inv'
  <2>1. ASSUME Inv, [Next]_all, Is("credentials")' PROVE CredentialsInv'
    BY <2>1, PartStays, CredentialsOnly, NextCredentials DEF Is
  <2>2. ASSUME Inv, [Next]_all, Is("logins")' PROVE LoginsInv'
    BY <2>2, PartStays, LoginsOnly, NextLogins DEF Is
  <2>3. ASSUME Inv, [Next]_all, Is("accounts")' PROVE TokensInv'
    BY <2>3, PartStays, AccountsOnly, NextAccounts DEF Is
  <2> QED BY <2>1, <2>2, <2>3
<1>3. Inv => SecretsUsable
  <2>1. CredentialsInv => Cd!Readable BY DEF CredentialsInv, Cd!Readable
  <2>2. LoginsInv => Cs!RefreshedWhilePossible
    BY DEF LoginsInv, LoginJobInv, Cs!RefreshedWhilePossible, Cs!At
  <2>3. TokensInv => Ac!KeysKept BY DEF TokensInv, Good, Ac!KeysKept
  <2> QED BY <2>1, <2>2, <2>3 DEF SecretsUsable
<1> QED BY <1>1, <1>2, <1>3, PTL DEF Spec

-----------------------------------------------------------------------------
(* Vaults: rows is v1, version v2, writer v3, watch v6, recent v7, pending *)
(* v8, timer v9, shown v10 and due v11.                                    *)

LEMMA VaultsOnly ==
  /\ Init /\ Is("vaults") => Va!Init
  /\ [Next]_all /\ Is("vaults") => [Va!Next]_(Va!vars)
BY DEF Init, Next, Is, Va!vars, Va!memVars, Va!pushVars, all

\* The loop's set(): v3 has no other, as no thread writes.
IsWrite(j) == j = [at |-> j.at, val |-> j.val, found |-> j.found, card |-> j.card]

LEMMA WriteGoes ==
  ASSUME NEW j, IsWrite(j), NEW at
  PROVE  /\ IsWrite([j EXCEPT !.at = at]) /\ [j EXCEPT !.at = at].at = at
         /\ [j EXCEPT !.at = at].val = j.val /\ [j EXCEPT !.at = at].found = j.found
BY DEF IsWrite

\* One document at most is not over, and none while a write has deleted the old one.
RowsInv ==
  /\ v2 \in Nat /\ DOMAIN v3 = {"loop"} /\ v3 = [w \in {"loop"} |-> v3[w]]
  /\ IsWrite(v3["loop"])
  /\ v3["loop"].at # "idle" => v3["loop"].val \in Nat \ {0}
  /\ \A r, s \in Va!Live : r = s
  /\ v3["loop"].at = "delete" => \A r \in Va!Live : r.val = v3["loop"].found
  /\ v3["loop"].at = "insert" => Va!Live = {}

\* While the timer runs, what is pending is what every watching viewer should come to
\* see; while it does not, each has seen that.
PushInv ==
  /\ DOMAIN v6 = Viewer /\ v6 = [v \in Viewer |-> v6[v]]
  /\ DOMAIN v11 = Viewer /\ v11 = [v \in Viewer |-> v11[v]]
  /\ v9 \in BOOLEAN
  /\ v9 => v8 # 0 /\ \A v \in Viewer : v6[v] = "on" => v11[v] = v8
  /\ ~v9 => \A v \in Viewer : v6[v] = "on" => v11[v] = v10[v]

LEMMA InitVaults == Va!Init => RowsInv /\ PushInv
<1>1. SUFFICES ASSUME Va!Init PROVE RowsInv /\ PushInv OBVIOUS
<1>2. v1 = {} /\ v2 = 0 /\ v3 = [w \in {"loop"} |-> Va!Idle] /\ v6 = [v \in Viewer |-> "none"]
      /\ v9 = FALSE /\ v11 = [v \in Viewer |-> 0]
  BY <1>1 DEF Va!Init, Va!Memory, Va!Writers
<1>3. IsWrite(Va!Idle) /\ Va!Idle.at = "idle" BY DEF IsWrite, Va!Idle
<1> QED BY <1>2, <1>3 DEF RowsInv, PushInv, Va!Live

LEMMA NextRows == RowsInv /\ [Va!Next]_(Va!vars) => RowsInv'
<1> SUFFICES ASSUME RowsInv, [Va!Next]_(Va!vars) PROVE RowsInv' OBVIOUS
<1>1. IsWrite(v3["loop"]) BY DEF RowsInv
\* the writer rests, and no document comes back
<1>2. ASSUME v3' = v3, v2' = v2, Va!Live' \subseteq Va!Live PROVE RowsInv'
  BY <1>2 DEF RowsInv
<1>3. ASSUME NEW j, v3' = [v3 EXCEPT !["loop"] = j]
      PROVE  DOMAIN v3' = {"loop"} /\ v3' = [w \in {"loop"} |-> v3'[w]] /\ v3'["loop"] = j
  BY <1>3 DEF RowsInv
<1>4. CASE Va!Expire
  <2>1. PICK r \in v1 : v1' = (v1 \ {r}) \cup {Va!Row(r.id, r.val, "ended")}
    BY <1>4 DEF Va!Expire
  <2>2. Va!Row(r.id, r.val, "ended").ends = "ended" BY DEF Va!Row
  <2>3. Va!Live' \subseteq Va!Live BY <2>1, <2>2 DEF Va!Live
  <2> QED BY <1>2, <1>4, <2>3 DEF Va!Expire
<1>5. CASE Va!Collect
  <2>1. Va!Live' \subseteq Va!Live BY <1>5 DEF Va!Collect, Va!Live
  <2> QED BY <1>2, <1>5, <2>1 DEF Va!Collect
<1>6. CASE Va!Delete
  <2>1. Va!Live' \subseteq Va!Live BY <1>6 DEF Va!Delete, Va!Without, Va!Live
  <2> QED BY <1>2, <1>6, <2>1 DEF Va!Delete
<1>7. ASSUME UNCHANGED <<v1, v2, v3>> PROVE RowsInv'
  BY <1>2, <1>7 DEF Va!Live
<1>8. ASSUME NEW card \in BOOLEAN, Va!SetFinds("loop", card) PROVE RowsInv'
  <2> DEFINE j == [at |-> "delete", val |-> v2 + 1, found |-> Va!FindOne, card |-> card]
  <2>1. v3' = [v3 EXCEPT !["loop"] = j] /\ v1' = v1 /\ v2' = v2 + 1 BY <1>8 DEF Va!SetFinds
  <2>2. IsWrite(j) /\ j.at = "delete" /\ j.val = v2 + 1 /\ j.found = Va!FindOne BY DEF IsWrite
  <2>3. v2 + 1 \in Nat \ {0} BY DEF RowsInv
  <2>4. ASSUME NEW r \in Va!Live PROVE r.val = Va!FindOne
    <3>1. \A s \in Va!Live : s = r BY DEF RowsInv
    <3>2. \E f \in Va!Live : \A s \in Va!Live \ {f} : f.id < s.id BY <3>1
    <3>3. Va!First(Va!Live) \in Va!Live BY <3>2 DEF Va!First
    <3>4. Va!First(Va!Live) = r BY <3>1, <3>3
    <3> QED BY <3>4 DEF Va!FindOne
  <2> HIDE DEF j
  <2>5. DOMAIN v3' = {"loop"} /\ v3' = [w \in {"loop"} |-> v3'[w]] /\ v3'["loop"] = j
    BY <1>3, <2>1
  <2>6. Va!Live' = Va!Live BY <2>1 DEF Va!Live
  <2>7. \A r, s \in Va!Live : r = s BY DEF RowsInv
  <2> QED BY <2>1, <2>2, <2>3, <2>4, <2>5, <2>6, <2>7 DEF RowsInv
<1>9. CASE Va!SetDeletes("loop")
  <2> DEFINE j == [v3["loop"] EXCEPT !.at = "insert"]
  <2>1. /\ v3["loop"].at = "delete" /\ v1' = Va!Without(v3["loop"].found) /\ v2' = v2
        /\ v3' = [v3 EXCEPT !["loop"] = j]
    BY <1>9 DEF Va!SetDeletes, RowsInv
  <2>2. IsWrite(j) /\ j.at = "insert" /\ j.val = v3["loop"].val BY <1>1, WriteGoes
  <2> HIDE DEF j
  <2>3. DOMAIN v3' = {"loop"} /\ v3' = [w \in {"loop"} |-> v3'[w]] /\ v3'["loop"] = j
    BY <1>3, <2>1
  <2>4. Va!Live' = {} BY <2>1 DEF RowsInv, Va!Without, Va!Live
  <2>5. v3["loop"].val \in Nat \ {0} /\ v2 \in Nat BY <2>1 DEF RowsInv
  <2> QED BY <2>1, <2>2, <2>3, <2>4, <2>5 DEF RowsInv
<1>10. CASE Va!SetInserts("loop")
  <2> DEFINE j == [v3["loop"] EXCEPT !.at = "tell"]
  <2>1. v3["loop"].at = "insert" /\ v2' = v2 /\ v3' = [v3 EXCEPT !["loop"] = j]
    BY <1>10 DEF Va!SetInserts, RowsInv
  <2>2. IsWrite(j) /\ j.at = "tell" /\ j.val = v3["loop"].val BY <1>1, WriteGoes
  <2> HIDE DEF j
  <2>3. DOMAIN v3' = {"loop"} /\ v3' = [w \in {"loop"} |-> v3'[w]] /\ v3'["loop"] = j
    BY <1>3, <2>1
  <2>4. PICK r : v1' = v1 \cup {r} BY <1>10 DEF Va!SetInserts, Va!Inserted
  <2>5. Va!Live' \subseteq {r} BY <2>1, <2>4 DEF RowsInv, Va!Live
  <2>6. v3["loop"].val \in Nat \ {0} /\ v2 \in Nat BY <2>1 DEF RowsInv
  <2> QED BY <2>1, <2>2, <2>3, <2>5, <2>6 DEF RowsInv
<1>11. CASE Va!SetTells("loop")
  <2>1. v3' = [v3 EXCEPT !["loop"] = Va!Idle] /\ UNCHANGED <<v1, v2>> BY <1>11 DEF Va!SetTells
  <2>2. IsWrite(Va!Idle) /\ Va!Idle.at = "idle" BY DEF IsWrite, Va!Idle
  <2>3. DOMAIN v3' = {"loop"} /\ v3' = [w \in {"loop"} |-> v3'[w]] /\ v3'["loop"] = Va!Idle
    BY <1>3, <2>1
  <2>4. Va!Live' = Va!Live BY <2>1 DEF Va!Live
  <2> QED BY <2>1, <2>2, <2>3, <2>4 DEF RowsInv
<1>12. CASE Va!Crash
  <2>1. v3' = [w \in {"loop"} |-> Va!Idle] /\ UNCHANGED <<v1, v2>>
    BY <1>12 DEF Va!Crash, Va!Memory, Va!Writers
  <2>2. IsWrite(Va!Idle) /\ Va!Idle.at = "idle" BY DEF IsWrite, Va!Idle
  <2>3. DOMAIN v3' = {"loop"} /\ v3' = [w \in {"loop"} |-> v3'[w]] /\ v3'["loop"] = Va!Idle
    BY <2>1
  <2>4. Va!Live' = Va!Live BY <2>1 DEF Va!Live
  <2> QED BY <2>1, <2>2, <2>3, <2>4 DEF RowsInv
<1>13. CASE \/ Va!WindowEnds \/ Va!Flush \/ Va!Get \/ UNCHANGED Va!vars
            \/ \E v \in Viewer : Va!Watch(v) \/ Va!Unwatch(v) \/ Va!Leave(v)
  <2>1. UNCHANGED <<v1, v2, v3>>
    BY <1>13 DEF Va!WindowEnds, Va!Flush, Va!Get, Va!vars, Va!Watch, Va!Unwatch, Va!Leave
  <2> QED BY <1>7, <2>1
<1> QED
  BY <1>4, <1>5, <1>6, <1>8, <1>9, <1>10, <1>11, <1>12, <1>13 DEF Va!Next, Va!Writers

LEMMA NextPush == RowsInv /\ PushInv /\ [Va!Next]_(Va!vars) => PushInv'
<1> SUFFICES ASSUME RowsInv, PushInv, [Va!Next]_(Va!vars) PROVE PushInv' OBVIOUS
<1>1. ASSUME UNCHANGED <<v6, v8, v9, v10, v11>> PROVE PushInv'
  BY <1>1 DEF PushInv
<1>2. CASE Va!Flush
  <2>1. v9 /\ v8 # 0 BY <1>2 DEF Va!Flush, PushInv
  <2>2. v10' = Va!Sent(Va!Watching, v8) /\ v9' = FALSE /\ UNCHANGED <<v6, v11>>
    BY <1>2, <2>1 DEF Va!Flush
  <2>3. \A v \in Viewer : v6[v] = "on" => v10'[v] = v8 /\ v11[v] = v8
    BY <2>1, <2>2 DEF Va!Sent, Va!Watching, PushInv
  <2> QED BY <2>2, <2>3 DEF PushInv
<1>3. CASE Va!SetTells("loop")
  <2> DEFINE x == v3["loop"].val
  <2>1. Va!Notify(x, TRUE) /\ v6' = v6 /\ x # 0
    BY <1>3 DEF Va!SetTells, RowsInv
  <2>2. v11' = [v \in Viewer |-> IF v \in Va!Watching THEN x ELSE v11[v]]
    BY <2>1 DEF Va!Notify
  <2>3. DOMAIN v11' = Viewer /\ v11' = [v \in Viewer |-> v11'[v]] BY <2>2
  <2>4. \A v \in Viewer : v6[v] = "on" => v11'[v] = x BY <2>2 DEF Va!Watching
  <2>5. CASE \A v \in Viewer : v6[v] = "none"
    <3>1. UNCHANGED <<v8, v9, v10>> BY <2>1, <2>5 DEF Va!Notify
    <3> QED BY <2>1, <2>3, <2>5, <3>1 DEF PushInv
  <2>6. CASE Va!PushLater(x, TRUE)
    <3>1. v8' = x /\ v9' = TRUE
      <4>1. v8' = x /\ v9' = (v9 \/ TRUE) BY <2>6 DEF Va!PushLater
      <4> QED BY <4>1
    <3> QED BY <2>1, <2>3, <2>4, <3>1 DEF PushInv
  <2>7. CASE Va!PushNow(x, TRUE)
    <3>1. v9' = FALSE /\ v10' = Va!Sent(Va!Watching, x) BY <2>7 DEF Va!PushNow
    <3>2. \A v \in Viewer : v6[v] = "on" => v10'[v] = x BY <3>1 DEF Va!Sent, Va!Watching
    <3> QED BY <2>1, <2>3, <2>4, <3>1, <3>2 DEF PushInv
  <2> QED BY <2>1, <2>5, <2>6, <2>7 DEF Va!Notify
<1>4. ASSUME NEW w \in Viewer, Va!Watch(w) PROVE PushInv'
  <2> DEFINE x == IF v9 THEN v8 ELSE Va!FindOne
  <2>1. /\ v6' = [v6 EXCEPT ![w] = "on"] /\ v10' = Va!Sent({w}, Va!FindOne)
        /\ v11' = [v11 EXCEPT ![w] = x] /\ UNCHANGED <<v8, v9>>
    BY <1>4 DEF Va!Watch
  <2> HIDE DEF x
  <2>2. /\ DOMAIN v6' = Viewer /\ v6' = [v \in Viewer |-> v6'[v]]
        /\ \A v \in Viewer : v # w => v6'[v] = v6[v]
    BY <2>1 DEF PushInv
  <2>3. /\ DOMAIN v11' = Viewer /\ v11' = [v \in Viewer |-> v11'[v]] /\ v11'[w] = x
        /\ \A v \in Viewer : v # w => v11'[v] = v11[v]
    BY <2>1 DEF PushInv
  <2>4. v10'[w] = Va!FindOne /\ \A v \in Viewer : v # w => v10'[v] = v10[v]
    BY <2>1 DEF Va!Sent
  <2> USE DEF x
  <2>5. CASE v9 BY <2>1, <2>2, <2>3, <2>5 DEF PushInv
  <2>6. CASE ~v9 BY <2>1, <2>2, <2>3, <2>4, <2>6 DEF PushInv
  <2> QED BY <2>5, <2>6
<1>5. ASSUME NEW w \in Viewer, Va!Unwatch(w) \/ Va!Leave(w) PROVE PushInv'
  <2>1. PICK x \in {"empty", "none"} : v6' = [v6 EXCEPT ![w] = x] /\ UNCHANGED <<v8, v9>>
    BY <1>5 DEF Va!Unwatch, Va!Leave, Va!pushVars
  <2>2. /\ DOMAIN v6' = Viewer /\ v6' = [v \in Viewer |-> v6'[v]] /\ v6'[w] # "on"
        /\ \A v \in Viewer : v # w => v6'[v] = v6[v]
    BY <2>1 DEF PushInv
  <2>3. /\ DOMAIN v11' = Viewer /\ v11' = [v \in Viewer |-> v11'[v]]
        /\ \A v \in Viewer : v # w => v11'[v] = v11[v] /\ v10'[v] = v10[v]
    <3>1. CASE Va!Unwatch(w) BY <3>1 DEF Va!Unwatch, Va!pushVars, PushInv
    <3>2. CASE Va!Leave(w)
      <4>1. v11' = [v11 EXCEPT ![w] = 0] /\ v10' = Va!Sent({w}, 0) BY <3>2 DEF Va!Leave
      <4> QED BY <4>1 DEF Va!Sent, PushInv
    <3> QED BY <1>5, <3>1, <3>2
  <2> QED BY <2>1, <2>2, <2>3 DEF PushInv
<1>6. CASE Va!Crash
  <2>1. /\ v6' = [v \in Viewer |-> "none"] /\ v9' = FALSE /\ v11' = [v \in Viewer |-> 0]
    BY <1>6 DEF Va!Crash, Va!Memory
  <2> QED BY <2>1 DEF PushInv
<1>7. CASE \/ Va!Expire \/ Va!Collect \/ Va!WindowEnds \/ Va!Delete \/ Va!Get
           \/ \E card \in BOOLEAN : Va!SetFinds("loop", card)
           \/ Va!SetDeletes("loop") \/ Va!SetInserts("loop") \/ UNCHANGED Va!vars
  <2>1. UNCHANGED <<v6, v8, v9, v10, v11>>
    BY <1>7 DEF Va!Expire, Va!Collect, Va!WindowEnds, Va!Delete, Va!Get, Va!SetFinds,
                Va!SetDeletes, Va!SetInserts, Va!vars, Va!pushVars
  <2> QED BY <1>1, <2>1
<1> QED
  BY <1>2, <1>3, <1>4, <1>5, <1>6, <1>7 DEF Va!Next, Va!Writers

LEMMA VaultsCatchUp == RowsInv /\ PushInv => Va!ViewersCatchUp /\ Va!OneDocument
<1> SUFFICES ASSUME RowsInv, PushInv PROVE Va!ViewersCatchUp /\ Va!OneDocument OBVIOUS
<1>2. Va!OneDocument BY DEF RowsInv, Va!OneDocument, Va!Live
<1>3. ASSUME NEW v \in Va!Watching PROVE v10[v] = v11[v] \/ (v9 /\ v8 = v11[v])
  <2>1. v \in Viewer /\ v6[v] = "on" BY DEF Va!Watching
  <2>2. CASE v9 BY <2>1, <2>2 DEF PushInv
  <2>3. CASE ~v9 BY <2>1, <2>3 DEF PushInv
  <2> QED BY <2>2, <2>3
<1> QED BY <1>2, <1>3 DEF Va!ViewersCatchUp

-----------------------------------------------------------------------------
(* Terminals: shell is v1, written v3, read v4, queue v5, scroll v6, loop  *)
(* v7, todo v8, attached v11, viewer v12, on v13 and got v15.              *)

LEMMA TerminalsOnly ==
  /\ Init /\ Is("terminals") => Te!Init
  /\ [Next]_all /\ Is("terminals") => [Te!Next]_(Te!vars)
BY DEF Init, Next, Is, Te!vars, Te!shells, Te!loops, Te!viewers, Te!fds, all

\* The chunks from the first on, in their order.
Counts(s) == \A i \in 1..Len(s) : s[i] = i

LEMMA CountOn ==
  ASSUME NEW s \in Seq(Nat), Counts(s), NEW x \in Nat, x = Len(s) + 1
  PROVE  /\ Append(s, x) \in Seq(Nat) /\ Counts(Append(s, x))
         /\ Len(Append(s, x)) = Len(s) + 1
BY DEF Counts

Shows(v) == v12[v] \in {"shown", "overrun"}

GapsTypes ==
  /\ v1 \in [Term -> {"none", "alive", "exited", "closed"}]
  /\ v3 \in [Term -> Nat] /\ v4 \in [Term -> Nat]
  /\ v5 \in [Term -> Seq(Nat)] /\ v6 \in [Term -> Seq(Nat)]
  /\ v7 \in [Term -> {"none", "waits", "sends", "ended"}]
  /\ v8 \in [Term -> SUBSET Watcher] /\ v11 \in [Term -> SUBSET Watcher]
  /\ v12 \in [Watcher -> {"off", "shown", "overrun", "broken", "left"}]
  /\ DOMAIN v13 = Watcher /\ v13 = [v \in Watcher |-> v13[v]]
  /\ v15 \in [Watcher -> Seq(Nat)]

\* The end of the output is the last of the queue, and comes when all has been read.
Queued(t, i) ==
  \/ v5[t][i] = Len(v6[t]) + i
  \/ /\ i = Len(v5[t]) /\ v5[t][i] = 0
     /\ v1[t] \notin {"none", "alive"} /\ v4[t] = v3[t]

ReadSoFar(t) ==
  \/ v4[t] = Len(v6[t]) + Len(v5[t])
  \/ Len(v5[t]) > 0 /\ v5[t][Len(v5[t])] = 0

TermInv(t) ==
  /\ Counts(v6[t]) /\ (v1[t] = "none" => v7[t] = "none")
  /\ v7[t] # "ended" => ReadSoFar(t) /\ \A i \in 1..Len(v5[t]) : Queued(t, i)

\* A viewer that still has to be sent the last chunk has all the others; one that is
\* attached and has not, has them all.
PairInv(t, v) ==
  /\ v \in v11[t] \/ v \in v8[t] => v12[v] # "off" /\ v13[v] = t
  /\ v \in v8[t] => v7[t] = "sends"
  /\ Shows(v) /\ v \in v8[t] => Len(v15[v]) + 1 = Len(v6[t])
  /\ Shows(v) /\ v \in v11[t] /\ v \notin v8[t] /\ v7[t] # "ended" => Len(v15[v]) = Len(v6[t])

GapsInv ==
  /\ GapsTypes
  /\ \A t \in Term : TermInv(t)
  /\ \A v \in Watcher : Counts(v15[v])
  /\ \A t \in Term, v \in Watcher : PairInv(t, v)

LEMMA InitTerminals == Te!Init => GapsInv
<1>1. SUFFICES ASSUME Te!Init PROVE GapsInv OBVIOUS
<1>2. GapsTypes BY <1>1 DEF Te!Init, GapsTypes
<1>3. \A t \in Term : /\ v1[t] = "none" /\ v4[t] = 0 /\ v5[t] = <<>> /\ v6[t] = <<>>
                      /\ v7[t] = "none" /\ v8[t] = {} /\ v11[t] = {}
  BY <1>1 DEF Te!Init
<1>4. \A t \in Term : TermInv(t)
  <2>1. SUFFICES ASSUME NEW t \in Term PROVE TermInv(t) OBVIOUS
  <2>2. Len(v5[t]) = 0 /\ Len(v6[t]) = 0 BY <1>3
  <2>3. \A i \in 1..Len(v5[t]) : FALSE BY <2>2
  <2>4. \A i \in 1..Len(v6[t]) : FALSE BY <2>2
  <2> QED BY <1>3, <2>2, <2>3, <2>4 DEF TermInv, Counts, ReadSoFar
<1>5. \A v \in Watcher : Counts(v15[v]) BY <1>1 DEF Te!Init, Counts
<1>6. \A t \in Term, v \in Watcher : PairInv(t, v) BY <1>1, <1>3 DEF Te!Init, PairInv, Shows
<1> QED BY <1>2, <1>4, <1>5, <1>6 DEF GapsInv

\* What is read goes on where the queue ends.
LEMMA ReadOn ==
  ASSUME NEW q \in Seq(Nat), NEW m \in Nat, NEW n \in Nat, n = m + Len(q),
         \A i \in 1..Len(q) : q[i] = m + i
  PROVE  /\ n + 1 = m + Len(Append(q, n + 1))
         /\ \A i \in 1..Len(Append(q, n + 1)) : Append(q, n + 1)[i] = m + i
OBVIOUS

LEMMA NoEndYet ==
  ASSUME NEW q \in Seq(Nat), NEW m \in Nat, \A i \in 1..Len(q) : q[i] = m + i
  PROVE  ~(Len(q) > 0 /\ q[Len(q)] = 0)
OBVIOUS

\* A chunk that is taken from the queue is the next of the scrollback.
LEMMA TakeOn ==
  ASSUME NEW q \in Seq(Nat), NEW m \in Nat, q # <<>>, q[1] # 0,
         \A i \in 1..Len(q) : q[i] = m + i \/ (i = Len(q) /\ q[i] = 0)
  PROVE  /\ Tail(q) \in Seq(Nat) /\ Len(q) = Len(Tail(q)) + 1 /\ Head(q) = m + 1
         /\ \A i \in 1..Len(Tail(q)) : \/ Tail(q)[i] = m + 1 + i
                                       \/ i = Len(Tail(q)) /\ Tail(q)[i] = 0
         /\ Len(q) > 0 /\ q[Len(q)] = 0 => Len(Tail(q)) > 0 /\ Tail(q)[Len(Tail(q))] = 0
         /\ Len(Tail(q)) > 0 => Tail(q)[Len(Tail(q))] = q[Len(q)]
<1>1. Tail(q) \in Seq(Nat) OBVIOUS
<1>2. PICK n \in Nat : n = Len(Tail(q)) /\ Len(q) = n + 1 OBVIOUS
<1>3. \A i \in 1..n : Tail(q)[i] = q[i + 1] BY <1>2
<1>4. 1 \in 1..Len(q) /\ Head(q) = q[1] BY <1>2
<1>5. q[1] = m + 1 BY <1>4
<1>6. ASSUME NEW i \in 1..n PROVE Tail(q)[i] = m + 1 + i \/ (i = n /\ Tail(q)[i] = 0)
  <2>1. i + 1 \in 1..Len(q) /\ Tail(q)[i] = q[i + 1] BY <1>2, <1>3
  <2>2. q[i + 1] = m + (i + 1) \/ (i + 1 = Len(q) /\ q[i + 1] = 0) BY <2>1
  <2> QED BY <1>2, <2>1, <2>2
<1>7. ASSUME q[Len(q)] = 0 PROVE n > 0 /\ Tail(q)[n] = 0
  <2>1. Len(q) # 1 BY <1>7
  <2>2. n \in 1..n BY <1>2, <2>1
  <2> QED BY <1>2, <1>3, <1>7, <2>2
<1>8. n > 0 => Tail(q)[n] = q[n + 1]
  <2>1. n > 0 => n \in 1..n OBVIOUS
  <2> QED BY <1>3, <2>1
<1> QED BY <1>1, <1>2, <1>4, <1>5, <1>6, <1>7, <1>8

\* A step that only takes viewers away, or ends a loop.
TakesAway ==
  /\ GapsTypes' /\ UNCHANGED <<v3, v4, v5, v6, v13, v15>>
  /\ \A u \in Term :
       /\ v11'[u] \subseteq v11[u] /\ v8'[u] \subseteq v8[u]
       /\ \/ v7'[u] = v7[u]
          \/ v7[u] = "sends" /\ v8'[u] = {} /\ v7'[u] \in {"waits", "ended"}
       /\ v1'[u] = v1[u] \/ (v1[u] # "none" /\ v1'[u] = "closed")
       /\ \A v \in v8[u] \ v8'[u] : v7'[u] = "ended" \/ ~Shows(v)
  /\ \A v \in Watcher : v12'[v] = v12[v] \/ (v12[v] # "off" /\ v12'[v] \in {"broken", "left"})

LEMMA NextTerminals == GapsInv /\ [Te!Next]_(Te!vars) => GapsInv'
<1> SUFFICES ASSUME GapsInv, [Te!Next]_(Te!vars) PROVE GapsInv' OBVIOUS
<1>1. GapsTypes BY DEF GapsInv
<1>2. ASSUME UNCHANGED <<Te!shells, Te!loops, Te!viewers>> PROVE GapsInv'
  BY <1>2 DEF GapsInv, GapsTypes, TermInv, ReadSoFar, Queued, PairInv, Shows,
              Te!shells, Te!loops, Te!viewers
\* a step of one terminal's shell and queue, that leaves the scrollback and the viewers
<1>3. ASSUME NEW t \in Term, GapsTypes', TermInv(t)', UNCHANGED <<v6, v8, v11, v12, v13, v15>>,
             \A u \in Term : u # t => v1'[u] = v1[u] /\ v3'[u] = v3[u] /\ v4'[u] = v4[u]
                                      /\ v5'[u] = v5[u] /\ v7'[u] = v7[u],
             v7'[t] = v7[t] \/ v7[t] = "none" \/ (v7[t] = "waits" /\ v7'[t] = "ended")
      PROVE  GapsInv'
  <2>1. ASSUME NEW u \in Term PROVE TermInv(u)'
    <3>1. CASE u = t BY <1>3, <3>1
    <3>2. CASE u # t
      <4>1. TermInv(u) BY DEF GapsInv
      <4>2. /\ v1'[u] = v1[u] /\ v3'[u] = v3[u] /\ v4'[u] = v4[u] /\ v5'[u] = v5[u]
            /\ v6'[u] = v6[u] /\ v7'[u] = v7[u]
        BY <1>3, <3>2
      <4> QED BY <4>1, <4>2 DEF TermInv, ReadSoFar, Queued
    <3> QED BY <3>1, <3>2
  <2>2. ASSUME NEW u \in Term, NEW v \in Watcher PROVE PairInv(u, v)'
    <3>1. PairInv(u, v) BY DEF GapsInv
    <3>2. CASE v7'[u] = v7[u] BY <1>3, <3>1, <3>2 DEF PairInv, Shows
    <3>3. CASE v7[u] = "none" BY <1>3, <3>1, <3>3 DEF PairInv, Shows
    <3>4. CASE v7[u] = "waits" /\ v7'[u] = "ended" BY <1>3, <3>1, <3>4 DEF PairInv, Shows
    <3> QED BY <1>3, <3>2, <3>3, <3>4
  <2>3. \A v \in Watcher : Counts(v15'[v]) BY <1>3 DEF GapsInv
  <2> QED BY <1>3, <2>1, <2>2, <2>3 DEF GapsInv
<1>4. ASSUME NEW t \in Term, Te!Spawn(t) PROVE GapsInv'
  <2>1. CASE UNCHANGED <<Te!shells, Te!loops, Te!viewers>> BY <1>2, <2>1
  <2>2. CASE /\ v1[t] = "none" /\ v1' = [v1 EXCEPT ![t] = "alive"]
             /\ v7' = [v7 EXCEPT ![t] = "waits"]
             /\ UNCHANGED <<v3, v4, v5, v6, v8, v11, v12, v13, v15>>
    <3>1. TermInv(t) /\ v7[t] = "none" BY <2>2 DEF GapsInv, TermInv
    <3>2. GapsTypes' BY <1>1, <2>2 DEF GapsTypes
    <3>3. /\ v1'[t] = "alive" /\ v7'[t] = "waits"
          /\ \A u \in Term : u # t => v1'[u] = v1[u] /\ v7'[u] = v7[u]
      BY <1>1, <2>2 DEF GapsTypes
    <3>4. TermInv(t)' BY <2>2, <3>1, <3>3 DEF TermInv, ReadSoFar, Queued
    <3> QED BY <1>3, <2>2, <3>1, <3>2, <3>3, <3>4
  <2> QED BY <1>4, <2>1, <2>2 DEF Te!Spawn, Te!Unheard, Te!viewers
<1>5. ASSUME NEW t \in Term, Te!ShellWrites(t) \/ Te!ShellExits(t) PROVE GapsInv'
  <2>1. /\ v1[t] = "alive" /\ UNCHANGED <<v4, v5, v6, v7, v8, v11, v12, v13, v15>>
        /\ \/ v3' = [v3 EXCEPT ![t] = @ + 1] /\ v1' = v1
           \/ v3' = v3 /\ v1' = [v1 EXCEPT ![t] = "exited"]
    BY <1>5 DEF Te!ShellWrites, Te!ShellExits, Te!loops, Te!viewers
  <2>2. TermInv(t) BY DEF GapsInv
  <2>3. v3' \in [Term -> Nat] /\ v1' \in [Term -> {"none", "alive", "exited", "closed"}]
    <3>1. CASE v3' = [v3 EXCEPT ![t] = @ + 1] /\ v1' = v1
      <4>1. v3[t] + 1 \in Nat BY <1>1 DEF GapsTypes
      <4> QED BY <1>1, <3>1, <4>1 DEF GapsTypes
    <3>2. CASE v3' = v3 /\ v1' = [v1 EXCEPT ![t] = "exited"] BY <1>1, <3>2 DEF GapsTypes
    <3> QED BY <2>1, <3>1, <3>2
  <2>3a. GapsTypes' BY <1>1, <2>1, <2>3 DEF GapsTypes
  <2>4. v1'[t] # "none" /\ \A u \in Term : u # t => v1'[u] = v1[u] /\ v3'[u] = v3[u]
    BY <1>1, <2>1 DEF GapsTypes
  <2>5. TermInv(t)' BY <2>1, <2>2, <2>4 DEF TermInv, ReadSoFar, Queued
  <2> QED BY <1>3, <2>1, <2>3a, <2>4, <2>5
<1>6. ASSUME NEW t \in Term, Te!OnReadable(t) PROVE GapsInv'
  <2>1. /\ v1[t] \notin {"none", "alive"} \/ v4[t] < v3[t] \/ v4[t] = v3[t]
        /\ v1[t] \in {"alive", "exited"} /\ UNCHANGED <<v1, v3, v6, v7, v8, v11, v12, v13, v15>>
    BY <1>6 DEF Te!OnReadable, Te!shells, Te!viewers
  <2>2. TermInv(t) /\ v6[t] \in Seq(Nat) /\ v5[t] \in Seq(Nat) /\ v4[t] \in Nat /\ v3[t] \in Nat
    BY <1>1 DEF GapsInv, GapsTypes
  <2>2a. Len(v5[t]) \in Nat /\ Len(v6[t]) \in Nat /\ v6'[t] = v6[t] /\ v7'[t] = v7[t]
    BY <2>1, <2>2
  <2>2b. Len(v6[t]) \in Nat BY <2>2
  <2>3. CASE /\ v4[t] < v3[t] /\ v4' = [v4 EXCEPT ![t] = @ + 1]
             /\ v5' = [v5 EXCEPT ![t] = Append(v5[t], v4[t] + 1)]
    <3>1. /\ v4'[t] = v4[t] + 1 /\ v5'[t] = Append(v5[t], v4[t] + 1)
          /\ \A u \in Term : u # t => v4'[u] = v4[u] /\ v5'[u] = v5[u]
      BY <1>1, <2>3 DEF GapsTypes
    <3>2. v4[t] + 1 \in Nat /\ Append(v5[t], v4[t] + 1) \in Seq(Nat) BY <2>2
    <3>3. GapsTypes' BY <1>1, <2>1, <2>3, <3>2 DEF GapsTypes
    <3>4. ASSUME v7[t] # "ended"
          PROVE  v4[t] = Len(v6[t]) + Len(v5[t])
                 /\ \A i \in 1..Len(v5[t]) : v5[t][i] = Len(v6[t]) + i
      <4>0. v4[t] # v3[t] BY <2>2, <2>3
      <4>1. ASSUME NEW i \in 1..Len(v5[t]) PROVE v5[t][i] = Len(v6[t]) + i
        <5>1. Queued(t, i) BY <2>2, <3>4 DEF TermInv
        <5> QED BY <4>0, <5>1 DEF Queued
      <4>2. ~(Len(v5[t]) > 0 /\ v5[t][Len(v5[t])] = 0) BY <2>2, <2>2b, <4>1, NoEndYet
      <4> QED BY <2>2, <3>4, <4>1, <4>2 DEF TermInv, ReadSoFar
    <3>6. ASSUME v7[t] # "ended"
          PROVE  ReadSoFar(t)' /\ \A i \in 1..Len(v5'[t]) : Queued(t, i)'
      <4>1. /\ v4[t] + 1 = Len(v6[t]) + Len(v5'[t])
            /\ \A i \in 1..Len(v5'[t]) : v5'[t][i] = Len(v6[t]) + i
        <5>1. PICK m \in Nat, n \in Nat, q \in Seq(Nat) : m = Len(v6[t]) /\ n = v4[t] /\ q = v5[t]
          BY <2>2
        <5>2. n = m + Len(q) /\ \A i \in 1..Len(q) : q[i] = m + i BY <3>4, <3>6, <5>1
        <5>3. /\ n + 1 = m + Len(Append(q, n + 1))
              /\ \A i \in 1..Len(Append(q, n + 1)) : Append(q, n + 1)[i] = m + i
          BY <5>2, ReadOn
        <5>4. v5'[t] = Append(q, n + 1) BY <3>1, <5>1
        <5> QED BY <5>1, <5>3, <5>4
      <4> QED BY <2>2a, <3>1, <4>1 DEF ReadSoFar, Queued
    <3>7. TermInv(t)' BY <2>1, <2>2, <3>6 DEF TermInv
    <3> QED BY <1>3, <2>1, <3>1, <3>3, <3>7
  <2>4. CASE /\ v4[t] = v3[t] /\ v1[t] = "exited" /\ v4' = v4
             /\ 0 \notin {v5[t][i] : i \in DOMAIN v5[t]} /\ v5' = [v5 EXCEPT ![t] = Append(@, 0)]
    <3>1. v5'[t] = Append(v5[t], 0) /\ \A u \in Term : u # t => v5'[u] = v5[u]
      BY <1>1, <2>4 DEF GapsTypes
    <3>2. Append(v5[t], 0) \in Seq(Nat) BY <2>2
    <3>3. GapsTypes' BY <1>1, <2>1, <2>4, <3>2 DEF GapsTypes
    <3>4. ASSUME v7[t] # "ended" PROVE \A i \in 1..Len(v5[t]) : v5[t][i] = Len(v6[t]) + i
      BY <2>2, <2>4, <3>4 DEF TermInv, Queued
    <3>5. /\ Len(v5'[t]) = Len(v5[t]) + 1 /\ v5'[t][Len(v5[t]) + 1] = 0
          /\ \A i \in 1..Len(v5[t]) : v5'[t][i] = v5[t][i]
      BY <2>2, <3>1, <3>2
    <3>6. ASSUME v7[t] # "ended"
          PROVE  ReadSoFar(t)' /\ \A i \in 1..Len(v5'[t]) : Queued(t, i)'
      <4>1. Len(v5'[t]) > 0 /\ v5'[t][Len(v5'[t])] = 0 BY <2>2a, <3>5
      <4>2. ASSUME NEW i \in 1..Len(v5'[t]) PROVE Queued(t, i)'
        <5>1. CASE i = Len(v5[t]) + 1 BY <2>1, <2>4, <3>5, <5>1 DEF Queued
        <5>2. CASE i \in 1..Len(v5[t])
          <6>1. v5'[t][i] = Len(v6'[t]) + i BY <2>1, <3>4, <3>5, <3>6, <5>2
          <6> QED BY <6>1 DEF Queued
        <5> QED BY <2>2, <3>5, <5>1, <5>2
      <4> QED BY <4>1, <4>2 DEF ReadSoFar
    <3>7. TermInv(t)' BY <2>1, <2>2, <3>6 DEF TermInv
    <3> QED BY <1>3, <2>1, <2>4, <3>1, <3>3, <3>7
  <2> QED BY <1>6, <2>3, <2>4 DEF Te!OnReadable, Te!Taken, Te!Eof
\* a step that only takes viewers away
<1>7. ASSUME TakesAway
      PROVE  GapsInv'
  <2>1. ASSUME NEW u \in Term PROVE TermInv(u)'
    <3>1. TermInv(u) BY DEF GapsInv
    <3>2. v7'[u] # "ended" => v7[u] # "ended" BY <1>7 DEF TakesAway
    <3>3. v1'[u] = "none" => v7'[u] = "none" BY <1>7, <3>1 DEF TakesAway, TermInv
    <3>4. ReadSoFar(u) => ReadSoFar(u)' BY <1>7 DEF TakesAway, ReadSoFar
    <3>5. ASSUME NEW i \in 1..Len(v5[u]), Queued(u, i) PROVE Queued(u, i)'
      BY <1>7, <3>5 DEF TakesAway, Queued
    <3> QED BY <1>7, <3>1, <3>2, <3>3, <3>4, <3>5 DEF TakesAway, TermInv
  <2>2. ASSUME NEW u \in Term, NEW v \in Watcher PROVE PairInv(u, v)'
    <3>1. PairInv(u, v) BY DEF GapsInv
    <3>2. Shows(v)' => Shows(v) /\ v12'[v] = v12[v] BY <1>7 DEF TakesAway, Shows
    <3>3. v12[v] # "off" => v12'[v] # "off" BY <1>7 DEF TakesAway
    <3>4. (v \in v11'[u] => v \in v11[u]) /\ (v \in v8'[u] => v \in v8[u]) BY <1>7 DEF TakesAway
    <3>5. v \in v8'[u] => v7'[u] = v7[u] BY <1>7 DEF TakesAway
    <3>6. v \in v8[u] /\ v \notin v8'[u] => v7'[u] = "ended" \/ ~Shows(v) BY <1>7 DEF TakesAway
    <3>7. v7'[u] # "ended" => v7[u] # "ended" BY <1>7 DEF TakesAway
    <3> QED BY <1>7, <3>1, <3>2, <3>3, <3>4, <3>5, <3>6, <3>7 DEF TakesAway, PairInv
  <2>3. \A v \in Watcher : Counts(v15'[v]) BY <1>7 DEF TakesAway, GapsInv
  <2> QED BY <1>7, <2>1, <2>2, <2>3 DEF TakesAway, GapsInv
<1>8. ASSUME NEW v \in Watcher, Te!Breaks(v) \/ Te!Leave(v) PROVE GapsInv'
  <2>1. /\ UNCHANGED <<v1, v3, v4, v5, v6, v7, v8, v13, v15>>
        /\ v12[v] # "off" /\ \E x \in {"broken", "left"} : v12' = [v12 EXCEPT ![v] = x]
        /\ v11' = v11 \/ v11' = [v11 EXCEPT ![v13[v]] = @ \ {v}]
    BY <1>8 DEF Te!Breaks, Te!Leave, Te!Detached, Te!shells, Te!loops
  <2>2. v11' \in [Term -> SUBSET Watcher] /\ \A u \in Term : v11'[u] \subseteq v11[u]
    <3>1. v11 \in [Term -> SUBSET Watcher] BY <1>1 DEF GapsTypes
    <3>2. CASE v11' = v11 BY <3>1, <3>2
    <3>3. CASE v11' = [v11 EXCEPT ![v13[v]] = @ \ {v}]
      <4>1. PICK z : z = v13[v] OBVIOUS
      <4>2. v11' = [v11 EXCEPT ![z] = @ \ {v}] BY <3>3, <4>1
      <4> QED BY <3>1, <4>2
    <3> QED BY <2>1, <3>2, <3>3
  <2>3. /\ v12' \in [Watcher -> {"off", "shown", "overrun", "broken", "left"}]
        /\ \A w \in Watcher : v12'[w] = v12[w] \/ (v12[w] # "off" /\ v12'[w] \in {"broken", "left"})
    BY <1>1, <2>1 DEF GapsTypes
  <2>4. GapsTypes' BY <1>1, <2>1, <2>2, <2>3 DEF GapsTypes
  <2>5. \A u \in Term : v8'[u] \subseteq v8[u] /\ v7'[u] = v7[u] /\ v1'[u] = v1[u]
    BY <2>1
  <2>6. \A u \in Term : v8[u] \ v8'[u] = {} BY <2>1
  <2>7. UNCHANGED <<v3, v4, v5, v6, v13, v15>> BY <2>1
  <2>8. TakesAway BY <2>2, <2>3, <2>4, <2>5, <2>6, <2>7 DEF TakesAway
  <2> QED BY <1>7, <2>8
<1>9. ASSUME NEW t \in Term, Te!Close(t) PROVE GapsInv'
  <2>1. CASE UNCHANGED <<Te!shells, Te!loops, Te!viewers>> BY <1>2, <2>1
  <2>2. CASE /\ v1[t] # "none" /\ v1' = [v1 EXCEPT ![t] = "closed"]
             /\ v11' = [v11 EXCEPT ![t] = {}]
             /\ UNCHANGED <<v3, v4, v5, v6, v7, v8, v12, v13, v15>>
    <3>1. GapsTypes' BY <1>1, <2>2 DEF GapsTypes
    <3>2. \A u \in Term : v11'[u] \subseteq v11[u] BY <1>1, <2>2 DEF GapsTypes
    <3>3. \A u \in Term : v1'[u] = v1[u] \/ (v1[u] # "none" /\ v1'[u] = "closed")
      BY <1>1, <2>2 DEF GapsTypes
    <3>4. \A u \in Term : v8'[u] \subseteq v8[u] /\ v7'[u] = v7[u] /\ v8[u] \ v8'[u] = {}
      BY <2>2
    <3>5. UNCHANGED <<v3, v4, v5, v6, v12, v13, v15>> BY <2>2
    <3>6. TakesAway BY <3>1, <3>2, <3>3, <3>4, <3>5 DEF TakesAway
    <3> QED BY <1>7, <3>6
  <2> QED BY <1>9, <2>1, <2>2 DEF Te!Close, Te!Unheard, Te!viewers
<1>10. ASSUME NEW t \in Term, Te!Sent(t) \/ Te!LoopFails(t) PROVE GapsInv'
  <2>1. PICK x \in {"waits", "ended"} :
          /\ v7[t] = "sends" /\ v7' = [v7 EXCEPT ![t] = x]
          /\ UNCHANGED <<v1, v3, v4, v5, v6, v12, v13, v15>>
          /\ \/ v8[t] = {} /\ v8' = v8 /\ v11' = [v11 EXCEPT ![t] = @ \ v9[t]]
             \/ x = "ended" /\ v8' = [v8 EXCEPT ![t] = {}] /\ v11' = v11
    <3>1. CASE Te!Sent(t)
      <4>1. v7' = [v7 EXCEPT ![t] = "waits"] \/ v7' = [v7 EXCEPT ![t] = "ended"]
        BY <3>1 DEF Te!Sent, Te!LoopEnds
      <4> QED BY <3>1, <4>1 DEF Te!Sent, Te!shells
    <3>2. CASE Te!LoopFails(t) BY <3>2 DEF Te!LoopFails, Te!LoopEnds, Te!shells, Te!viewers
    <3> QED BY <1>10, <3>1, <3>2
  <2>2. /\ v11' \in [Term -> SUBSET Watcher] /\ v8' \in [Term -> SUBSET Watcher]
        /\ \A u \in Term : v11'[u] \subseteq v11[u] /\ v8'[u] \subseteq v8[u]
    <3>1. v11 \in [Term -> SUBSET Watcher] /\ v8 \in [Term -> SUBSET Watcher]
      BY <1>1 DEF GapsTypes
    <3>2. CASE v8' = v8 /\ v11' = [v11 EXCEPT ![t] = @ \ v9[t]] BY <3>1, <3>2
    <3>3. CASE v8' = [v8 EXCEPT ![t] = {}] /\ v11' = v11 BY <3>1, <3>3
    <3> QED BY <2>1, <3>2, <3>3
  <2>3. /\ v7' \in [Term -> {"none", "waits", "sends", "ended"}]
        /\ v7'[t] = x /\ \A u \in Term : u # t => v7'[u] = v7[u] /\ v8'[u] = v8[u]
    BY <1>1, <2>1 DEF GapsTypes
  <2>4. v8'[t] = {} /\ (v8[t] = {} \/ x = "ended") BY <1>1, <2>1 DEF GapsTypes
  <2>5. GapsTypes' BY <1>1, <2>1, <2>2, <2>3 DEF GapsTypes
  <2>6. \A u \in Term : \A v \in v8[u] \ v8'[u] : v7'[u] = "ended" \/ ~Shows(v)
    BY <2>3, <2>4
  <2>7. \A u \in Term : \/ v7'[u] = v7[u]
                        \/ v7[u] = "sends" /\ v8'[u] = {} /\ v7'[u] \in {"waits", "ended"}
    BY <2>1, <2>3, <2>4
  <2>8. \A u \in Term : v1'[u] = v1[u] BY <2>1
  <2>9. UNCHANGED <<v3, v4, v5, v6, v12, v13, v15>> BY <2>1
  <2>10. TakesAway BY <2>2, <2>5, <2>6, <2>7, <2>8, <2>9 DEF TakesAway
  <2> QED BY <1>7, <2>10
<1>11. ASSUME NEW t \in Term, NEW v \in Watcher, Te!SendTo(t, v) PROVE GapsInv'
  <2>1. /\ v \in v8[t] /\ v8' = [v8 EXCEPT ![t] = @ \ {v}]
        /\ UNCHANGED <<v1, v3, v4, v5, v6, v7, v11, v12, v13>>
        /\ \/ Shows(v) /\ v15' = [v15 EXCEPT ![v] = Append(@, v6[t][Len(v6[t])])]
           \/ ~Shows(v) /\ v15' = v15
    BY <1>11 DEF Te!SendTo, Te!shells, Shows
  <2>2. /\ v8' \in [Term -> SUBSET Watcher] /\ v8'[t] = v8[t] \ {v}
        /\ \A u \in Term : u # t => v8'[u] = v8[u]
    BY <1>1, <2>1 DEF GapsTypes
  <2>3. CASE ~Shows(v) /\ v15' = v15
    <3>1. GapsTypes' BY <1>1, <2>1, <2>2, <2>3 DEF GapsTypes
    <3>2. \A u \in Term : /\ v11'[u] \subseteq v11[u] /\ v8'[u] \subseteq v8[u]
                          /\ v7'[u] = v7[u] /\ v1'[u] = v1[u]
                          /\ \A w \in v8[u] \ v8'[u] : ~Shows(w)
      BY <2>1, <2>2, <2>3
    <3>3. TakesAway BY <2>1, <2>3, <3>1, <3>2 DEF TakesAway
    <3> QED BY <1>7, <3>3
  <2>4. CASE Shows(v) /\ v15' = [v15 EXCEPT ![v] = Append(@, v6[t][Len(v6[t])])]
    <3>1. PICK s \in Seq(Nat), g \in Seq(Nat), n \in Nat, m \in Nat :
            s = v6[t] /\ g = v15[v] /\ n = Len(s) /\ m = Len(g)
      <4>1. v6[t] \in Seq(Nat) /\ v15[v] \in Seq(Nat) BY <1>1 DEF GapsTypes
      <4>2. Len(v6[t]) \in Nat /\ Len(v15[v]) \in Nat BY <4>1
      <4> QED BY <4>1, <4>2
    <3>2. Counts(s) /\ Counts(g) /\ PairInv(t, v) BY <3>1 DEF GapsInv, TermInv
    <3>3. n = m + 1 BY <2>1, <2>4, <3>1, <3>2 DEF PairInv
    <3>4. s[n] = n
      <4>1. n \in 1..n BY <3>3
      <4> QED BY <3>1, <3>2, <4>1 DEF Counts
    <3>5. Append(g, n) \in Seq(Nat) /\ Counts(Append(g, n)) /\ Len(Append(g, n)) = n
      BY <3>1, <3>2, <3>3, CountOn
    <3>6. v15' = [v15 EXCEPT ![v] = Append(g, n)] BY <2>4, <3>1, <3>4
    <3>7. /\ v15' \in [Watcher -> Seq(Nat)] /\ v15'[v] = Append(g, n)
          /\ \A w \in Watcher : w # v => v15'[w] = v15[w]
      BY <1>1, <3>5, <3>6 DEF GapsTypes
    <3>8. GapsTypes' BY <1>1, <2>1, <2>2, <3>7 DEF GapsTypes
    <3>9. ASSUME NEW w \in Watcher PROVE Counts(v15'[w])
      <4>1. Counts(v15[w]) BY DEF GapsInv
      <4> QED BY <3>5, <3>7, <4>1
    <3>10. ASSUME NEW u \in Term PROVE TermInv(u)'
      <4>1. TermInv(u) BY DEF GapsInv
      <4> QED BY <2>1, <4>1 DEF TermInv, ReadSoFar, Queued
    <3>11. ASSUME NEW u \in Term, NEW w \in Watcher PROVE PairInv(u, w)'
      <4>1. PairInv(u, w) BY DEF GapsInv
      <4>2. CASE w # v
        <5>1. v15'[w] = v15[w] /\ (w \in v8'[u] <=> w \in v8[u]) BY <2>2, <3>7, <4>2
        <5> QED BY <2>1, <4>1, <5>1 DEF PairInv, Shows
      <4>3. CASE w = v /\ u = t
        <5>1. w \notin v8'[u] /\ Len(v15'[w]) = Len(v6'[u]) BY <2>1, <2>2, <3>1, <3>5, <3>7, <4>3
        <5>2. v12'[w] # "off" /\ v13'[w] = u BY <2>1, <3>2, <4>3 DEF PairInv
        <5> QED BY <5>1, <5>2 DEF PairInv
      <4>4. CASE w = v /\ u # t
        <5>1. v13[v] = t BY <2>1, <3>2 DEF PairInv
        <5>2. w \notin v11[u] /\ w \notin v8[u] BY <4>1, <4>4, <5>1 DEF PairInv
        <5>3. w \notin v11'[u] /\ w \notin v8'[u] BY <2>1, <2>2, <4>4, <5>2
        <5> QED BY <5>3 DEF PairInv
      <4> QED BY <4>2, <4>3, <4>4
    <3> QED BY <3>8, <3>9, <3>10, <3>11 DEF GapsInv
  <2> QED BY <2>1, <2>3, <2>4
<1>12. ASSUME NEW t \in Term, NEW v \in Watcher, Te!Attach(v, t) PROVE GapsInv'
  <2>1. CASE UNCHANGED <<Te!shells, Te!loops, Te!viewers>> BY <1>2, <2>1
  <2>2. CASE /\ v12[v] = "off" /\ \E x \in {"shown", "overrun"} : v12' = [v12 EXCEPT ![v] = x]
             /\ v11' = [v11 EXCEPT ![t] = @ \cup {v}] /\ v13' = [v13 EXCEPT ![v] = t]
             /\ v15' = [v15 EXCEPT ![v] = v6[t]]
             /\ UNCHANGED <<v1, v3, v4, v5, v6, v7, v8>>
    <3>1. /\ v12' \in [Watcher -> {"off", "shown", "overrun", "broken", "left"}]
          /\ v12'[v] # "off" /\ \A w \in Watcher : w # v => v12'[w] = v12[w]
      BY <1>1, <2>2 DEF GapsTypes
    <3>2. /\ v11' \in [Term -> SUBSET Watcher] /\ v11'[t] = v11[t] \cup {v}
          /\ \A u \in Term : u # t => v11'[u] = v11[u]
      BY <1>1, <2>2 DEF GapsTypes
    <3>3. /\ DOMAIN v13' = Watcher /\ v13' = [w \in Watcher |-> v13'[w]] /\ v13'[v] = t
          /\ \A w \in Watcher : w # v => v13'[w] = v13[w]
      <4>1. v13' = [v13 EXCEPT ![v] = t] /\ DOMAIN v13 = Watcher BY <1>1, <2>2 DEF GapsTypes
      <4> QED BY <4>1
    <3>4. v6[t] \in Seq(Nat) BY <1>1 DEF GapsTypes
    <3>5. /\ v15' \in [Watcher -> Seq(Nat)] /\ v15'[v] = v6[t]
          /\ \A w \in Watcher : w # v => v15'[w] = v15[w]
      BY <1>1, <2>2, <3>4 DEF GapsTypes
    <3>6. GapsTypes' BY <1>1, <2>2, <3>1, <3>2, <3>3, <3>5 DEF GapsTypes
    <3>7. ASSUME NEW w \in Watcher PROVE Counts(v15'[w])
      <4>1. Counts(v15[w]) /\ Counts(v6[t]) BY DEF GapsInv, TermInv
      <4> QED BY <3>5, <4>1
    <3>8. ASSUME NEW u \in Term PROVE TermInv(u)'
      <4>1. TermInv(u) BY DEF GapsInv
      <4> QED BY <2>2, <4>1 DEF TermInv, ReadSoFar, Queued
    <3>9. ASSUME NEW u \in Term, NEW w \in Watcher PROVE PairInv(u, w)'
      <4>1. PairInv(u, w) BY DEF GapsInv
      <4>2. CASE w # v
        <5>1. w \in v11'[u] <=> w \in v11[u] BY <3>2, <4>2
        <5>2. v12'[w] = v12[w] /\ v13'[w] = v13[w] /\ v15'[w] = v15[w]
          BY <3>1, <3>3, <3>5, <4>2
        <5> QED BY <2>2, <4>1, <5>1, <5>2 DEF PairInv, Shows
      <4>3. CASE w = v
        <5>1. w \notin v11[u] /\ w \notin v8'[u] BY <2>2, <4>1, <4>3 DEF PairInv
        <5>2. w \in v11'[u] => u = t BY <3>2, <5>1
        <5>3. v12'[w] # "off" /\ v13'[w] = t /\ Len(v15'[w]) = Len(v6'[t])
          BY <2>2, <3>1, <3>3, <3>5, <4>3
        <5> QED BY <5>1, <5>2, <5>3 DEF PairInv
      <4> QED BY <4>2, <4>3
    <3> QED BY <3>6, <3>7, <3>8, <3>9 DEF GapsInv
  <2>3. ASSUME Te!Attached(v, t), v12[v] = "off", UNCHANGED <<Te!shells, Te!loops>>,
               v12' = [v12 EXCEPT ![v] = IF Len(v6[t]) > MaxLine THEN "overrun" ELSE "shown"]
        PROVE  GapsInv'
    <3>1. \E x \in {"shown", "overrun"} : v12' = [v12 EXCEPT ![v] = x] BY <2>3
    <3> QED BY <2>2, <2>3, <3>1 DEF Te!Attached, Te!shells, Te!loops
  <2> QED BY <1>12, <2>1, <2>3 DEF Te!Attach, Te!Unheard
<1>13. ASSUME NEW t \in Term, Te!Forward(t) PROVE GapsInv'
  <2>1. /\ v7[t] = "waits" /\ v5[t] # <<>> /\ v5' = [v5 EXCEPT ![t] = Tail(@)]
        /\ UNCHANGED <<v1, v3, v4, v11, v12, v13, v15>>
    BY <1>13 DEF Te!Forward, Te!shells, Te!viewers
  <2>2. PICK q \in Seq(Nat), s \in Seq(Nat), m \in Nat : q = v5[t] /\ s = v6[t] /\ m = Len(s)
    <3>1. v5[t] \in Seq(Nat) /\ v6[t] \in Seq(Nat) BY <1>1 DEF GapsTypes
    <3>2. Len(v6[t]) \in Nat BY <3>1
    <3> QED BY <3>1, <3>2
  <2>3. TermInv(t) /\ \A w \in Watcher : PairInv(t, w) BY DEF GapsInv
  <2>4. /\ Counts(s) /\ v1[t] # "none"
        /\ v4[t] = m + Len(q) \/ (Len(q) > 0 /\ q[Len(q)] = 0)
    BY <2>1, <2>2, <2>3 DEF TermInv, ReadSoFar
  <2>5. \A i \in 1..Len(q) : \/ q[i] = m + i
                             \/ i = Len(q) /\ q[i] = 0
    BY <2>1, <2>2, <2>3 DEF TermInv, Queued
  <2>6. Len(q) > 0 /\ Head(q) = q[1] /\ Tail(q) \in Seq(Nat) BY <2>1, <2>2
  <2>7. /\ v5' \in [Term -> Seq(Nat)] /\ v5'[t] = Tail(q)
        /\ \A u \in Term : u # t => v5'[u] = v5[u]
    <3>1. v5' = [v5 EXCEPT ![t] = Tail(q)] BY <2>1, <2>2
    <3> QED BY <1>1, <2>6, <3>1 DEF GapsTypes
  <2>8. CASE v7' = [v7 EXCEPT ![t] = "ended"] /\ UNCHANGED <<v6, v8>>
    <3>1. v7'[t] = "ended" /\ \A u \in Term : u # t => v7'[u] = v7[u]
      BY <1>1, <2>8 DEF GapsTypes
    <3>2. GapsTypes' BY <1>1, <2>1, <2>7, <2>8 DEF GapsTypes
    <3>3. TermInv(t)' BY <2>1, <2>2, <2>4, <2>8, <3>1 DEF TermInv
    <3> QED BY <1>3, <2>1, <2>7, <2>8, <3>1, <3>2, <3>3
  <2>9. CASE /\ Head(q) # 0 /\ v6' = [v6 EXCEPT ![t] = Append(@, Head(q))]
             /\ v7' = [v7 EXCEPT ![t] = "sends"] /\ v8' = [v8 EXCEPT ![t] = v11[t]]
    <3>1. q[1] # 0 /\ q # <<>> BY <2>1, <2>2, <2>6, <2>9
    <3>2. PICK r \in Seq(Nat), n \in Nat :
            /\ r = Tail(q) /\ n = Len(r) /\ Len(q) = n + 1 /\ Head(q) = m + 1
            /\ \A i \in 1..n : r[i] = m + 1 + i \/ (i = n /\ r[i] = 0)
            /\ (q[Len(q)] = 0 => n > 0 /\ r[n] = 0) /\ (n > 0 => r[n] = q[Len(q)])
      <4>1. Len(Tail(q)) \in Nat BY <2>6
      <4> QED BY <2>5, <2>6, <3>1, <4>1, TakeOn
    <3>3. PICK z \in Seq(Nat) : z = Append(s, m + 1) /\ Counts(z) /\ Len(z) = m + 1
      <4>1. m + 1 \in Nat OBVIOUS
      <4>2. PICK x \in Nat : x = m + 1 BY <4>1
      <4>3. x = Len(s) + 1 BY <2>2, <4>2
      <4>4. /\ Append(s, x) \in Seq(Nat) /\ Counts(Append(s, x))
            /\ Len(Append(s, x)) = Len(s) + 1
        BY <2>4, <4>3, CountOn
      <4> QED BY <2>2, <4>2, <4>4
    <3>4. v6' = [v6 EXCEPT ![t] = z] BY <2>2, <2>9, <3>2, <3>3
    <3>5. /\ v6' \in [Term -> Seq(Nat)] /\ v6'[t] = z
          /\ \A u \in Term : u # t => v6'[u] = v6[u]
      BY <1>1, <3>4 DEF GapsTypes
    <3>6. /\ v7' \in [Term -> {"none", "waits", "sends", "ended"}] /\ v7'[t] = "sends"
          /\ \A u \in Term : u # t => v7'[u] = v7[u]
      BY <1>1, <2>9 DEF GapsTypes
    <3>7. /\ v8' \in [Term -> SUBSET Watcher] /\ v8'[t] = v11[t]
          /\ \A u \in Term : u # t => v8'[u] = v8[u]
      BY <1>1, <2>9 DEF GapsTypes
    <3>8. GapsTypes' BY <1>1, <2>1, <2>7, <3>5, <3>6, <3>7 DEF GapsTypes
    <3>9. ReadSoFar(t)'
      <4>1. CASE v4[t] = m + Len(q)
        <5>1. v4[t] = (m + 1) + n BY <3>2, <4>1
        <5> QED BY <2>1, <2>7, <3>2, <3>3, <3>5, <5>1 DEF ReadSoFar
      <4>2. CASE q[Len(q)] = 0 BY <2>7, <3>2, <4>2 DEF ReadSoFar
      <4> QED BY <2>4, <4>1, <4>2
    <3>10. ASSUME NEW i \in 1..n PROVE Queued(t, i)'
      <4>1. CASE r[i] = m + 1 + i BY <2>7, <3>2, <3>3, <3>5, <4>1 DEF Queued
      <4>2. CASE i = n /\ r[i] = 0
        <5>1. Len(q) \in 1..Len(q) /\ q[Len(q)] = 0 BY <3>2, <4>2
        <5>2. Queued(t, Len(q)) BY <2>1, <2>2, <2>3, <5>1 DEF TermInv
        <5>3. q[Len(q)] # m + Len(q) BY <3>2, <5>1
        <5>4. v1[t] \notin {"none", "alive"} /\ v4[t] = v3[t] BY <2>2, <5>2, <5>3 DEF Queued
        <5> QED BY <2>1, <2>7, <3>2, <4>2, <5>4 DEF Queued
      <4> QED BY <3>2, <4>1, <4>2
    <3>11. ASSUME NEW u \in Term PROVE TermInv(u)'
      <4>1. TermInv(u) BY DEF GapsInv
      <4>2. CASE u = t BY <2>1, <2>4, <2>7, <3>2, <3>3, <3>5, <3>9, <3>10, <4>2 DEF TermInv
      <4>3. CASE u # t
        <5>1. v5'[u] = v5[u] /\ v6'[u] = v6[u] /\ v7'[u] = v7[u]
          BY <2>7, <3>5, <3>6, <4>3
        <5> QED BY <2>1, <4>1, <5>1 DEF TermInv, ReadSoFar, Queued
      <4> QED BY <4>2, <4>3
    <3>12. ASSUME NEW u \in Term, NEW w \in Watcher PROVE PairInv(u, w)'
      <4>1. PairInv(u, w) BY DEF GapsInv
      <4>2. CASE u = t
        <5>1. w \notin v8[t] BY <2>1, <4>1, <4>2 DEF PairInv
        <5>2. Shows(w) /\ w \in v11[t] => Len(v15[w]) = m
          BY <2>1, <2>2, <4>1, <4>2, <5>1 DEF PairInv
        <5>3. Shows(w)' <=> Shows(w) BY <2>1 DEF Shows
        <5>4. Shows(w)' /\ w \in v8'[t] => Len(v15'[w]) + 1 = Len(v6'[t])
          BY <2>1, <3>3, <3>5, <3>7, <5>2, <5>3
        <5>5. w \in v11[t] => v12[w] # "off" /\ v13[w] = t BY <4>1, <4>2 DEF PairInv
        <5> QED BY <2>1, <3>6, <3>7, <4>2, <5>4, <5>5 DEF PairInv
      <4>3. CASE u # t
        <5>1. v8'[u] = v8[u] /\ v6'[u] = v6[u] /\ v7'[u] = v7[u]
          BY <3>5, <3>6, <3>7, <4>3
        <5> QED BY <2>1, <4>1, <5>1 DEF PairInv, Shows
      <4> QED BY <4>2, <4>3
    <3>13. \A w \in Watcher : Counts(v15'[w]) BY <2>1 DEF GapsInv
    <3> QED BY <3>8, <3>11, <3>12, <3>13 DEF GapsInv
  <2>10. CASE Te!LoopEnds(t) /\ UNCHANGED <<v6, v8>> BY <2>8, <2>10 DEF Te!LoopEnds
  <2> QED BY <1>13, <2>2, <2>9, <2>10 DEF Te!Forward, Te!Eof
<1> QED
  BY <1>2, <1>4, <1>5, <1>6, <1>8, <1>9, <1>10, <1>11, <1>12, <1>13 DEF Te!Next, Te!vars

-----------------------------------------------------------------------------
\* Nobody misses what was shown to them.  For any viewers, rows that end at any moment
\* and crashes, while the event loop alone writes a vault: a viewer that watches its key
\* has the newest value or is about to get it, and one document at most holds it.  For
\* any terminals, viewers and descriptors: what a viewer has received of a terminal is
\* the shell's output from its beginning (handles.py, card_api.py, termd.py:186-217).
THEOREM ViewersNeverMissAnything == Spec => []ViewersMissNothing
<1> DEFINE Inv == (Is("vaults") => RowsInv /\ PushInv) /\ (Is("terminals") => GapsInv)
<1>1. Init => Inv BY VaultsOnly, InitVaults, TerminalsOnly, InitTerminals
<1>2. Inv /\ [Next]_all => Inv'
  <2>1. ASSUME Inv, [Next]_all, Is("vaults")' PROVE (RowsInv /\ PushInv)'
    BY <2>1, PartStays, VaultsOnly, NextRows, NextPush DEF Is
  <2>2. ASSUME Inv, [Next]_all, Is("terminals")' PROVE GapsInv'
    BY <2>2, PartStays, TerminalsOnly, NextTerminals DEF Is
  <2> QED BY <2>1, <2>2
<1>3. Inv => ViewersMissNothing
  <2>1. GapsInv => Te!NoGaps
    <3> SUFFICES ASSUME GapsInv, NEW v \in Watcher PROVE v15[v] = [i \in 1..Len(v15[v]) |-> i]
      BY DEF Te!NoGaps
    <3>1. v15[v] \in Seq(Nat) /\ Counts(v15[v]) BY DEF GapsInv, GapsTypes
    <3> QED BY <3>1 DEF Counts
  <2> QED BY <2>1, VaultsCatchUp DEF ViewersMissNothing
<1> QED BY <1>1, <1>2, <1>3, PTL DEF Spec

-----------------------------------------------------------------------------
(* The planner: components is v1, nextId v2, world v3, inner v4, undoStack *)
(* v5, redoStack v6, pending v7 and drag v11.                              *)

PlanPart == [parent : Nat, at : Int, foot : Int, width : Int, size : Nat, children : SUBSET Nat]
PlanAct  == [type : {"place", "move", "resize"}, id : Nat, old : Int, new : Int]
PlanCell(x, i) == [at |-> x, id |-> i, content |-> TRUE]

PlanTypes ==
  /\ v2 \in 1..(MaxId + 1) /\ DOMAIN v4 = 1..MaxId
  /\ \A i \in DOMAIN v1 : i \in 1..(v2 - 1) /\ v1[i] \in PlanPart
  /\ v5 \in Seq(PlanAct) /\ v6 \in Seq(PlanAct)
  /\ v11 = <<>> \/ v11[2] \in Int

\* What waits for a mesh is alone; its component is not there yet, and the cell of a
\* child is taken already.
Awaits(p) ==
  /\ p.op \in {"place", "child"} => p.id \in 1..(v2 - 1) /\ p.id \notin DOMAIN v1 /\ p.at \in Int
  /\ p.op \in {"child", "grow"} => p.parent \in DOMAIN v1 /\ v11 = <<>> /\ p.at \in Int
  /\ p.op = "child" => p.size \in Nat /\ PlanCell(p.at, p.id) \in v4[p.parent]
  /\ p.op = "grow" => ~Pl!Taken(v4[p.parent], p.at, 1)
  /\ p.op = "resize" => p.id \in 1..(v2 - 1)

Family(i) ==
  /\ v1[i].parent # 0 => v1[i].parent \in DOMAIN v1 /\ i \in v1[v1[i].parent].children
  /\ \A j \in v1[i].children :
       j \in DOMAIN v1 /\ v1[j].parent = i /\ PlanCell(v1[j].at, j) \in v4[i]

\* A cell of container i is that of a child of it, or of one that is awaited.
OwnCell(i, c) ==
  \/ c.id \in DOMAIN v1 /\ v1[c.id].parent = i /\ v1[c.id].at = c.at
  \/ \E p \in v7 : p.op = "child" /\ p.id = c.id /\ p.parent = i /\ p.at = c.at

\* What is recorded as moved is a machine for as long as it is there.
Past(a) ==
  /\ a.id < v2
  /\ a.type = "move" => /\ a.id \in DOMAIN v1 => v1[a.id].parent = 0
                        /\ \A p \in v7 : p.op = "child" => p.id # a.id

PlanInv ==
  /\ PlanTypes
  /\ \A p, q \in v7 : p = q
  /\ \A p \in v7 : Awaits(p)
  /\ \A i \in DOMAIN v1 : Family(i)
  /\ \A i \in 1..MaxId : \A c \in v4[i] : c.content => OwnCell(i, c)
  /\ \A k \in DOMAIN v5 : Past(v5[k])
  /\ \A k \in DOMAIN v6 : Past(v6[k])

LEMMA PlanConstants ==
  /\ MaxId \in Nat /\ MaxWidth \in Nat /\ MachineInner \in Nat /\ SubInner \in Nat
  /\ MinInner \in Nat /\ LetGo \subseteq Nat
BY MCStoresAssumption DEF Pl!PlannerAssumption

LEMMA PlannerOnly ==
  /\ Init /\ Is("planner") => Pl!Init
  /\ [Next]_all /\ Is("planner") => [Pl!Next]_(Pl!vars)
BY DEF Init, Next, Is, Pl!vars, Pl!editor, all

\* A set of natural numbers has a least one, a pair of integers a least and a greatest.
LEMMA LeastOf ==
  ASSUME NEW S, S \subseteq Nat, S # {}
  PROVE  Pl!Min(S) \in S /\ \A y \in S : Pl!Min(S) <= y
<1>1. PICK n \in S : TRUE OBVIOUS
<1> DEFINE below(y) == 0..(y - 1)
           R == StrictSubsetOrdering(0..n)
           T == {below(y) : y \in {z \in S : z <= n}}
<1>2. IsWellFoundedOn(R, SUBSET (0..n))
  <2>1. IsFiniteSet(0..n) BY FS_Interval
  <2>2. FiniteSubsetsOf(0..n) = SUBSET (0..n) BY <2>1, FS_FiniteSubsetsOfFinite
  <2>3. IsWellFoundedOn(R, FiniteSubsetsOf(0..n)) BY FS_StrictSubsetOrderingWellFounded
  <2> QED BY <2>2, <2>3
<1>3. T \subseteq SUBSET (0..n) /\ T # {} BY <1>1
<1>4. PICK m \in T : \A k \in T : ~(<<k, m>> \in R) BY <1>2, <1>3, WFMin
<1>5. PICK x \in S : x <= n /\ m = below(x) BY <1>4
<1>6. ASSUME NEW y \in S, y < x PROVE FALSE
  <2>1. y \in Nat /\ x \in Nat /\ n \in Nat BY <1>1
  <2>2. below(y) \in T BY <1>5, <1>6, <2>1
  <2>3. below(y) \subseteq below(x) /\ y \in below(x) /\ y \notin below(y) BY <1>6, <2>1
  <2>4. below(y) \in SUBSET (0..n) /\ below(x) \in SUBSET (0..n) BY <1>3, <1>4, <1>5, <2>2
  <2>5. <<below(y), m>> \in R BY <1>5, <2>3, <2>4 DEF StrictSubsetOrdering
  <2> QED BY <1>4, <2>2, <2>5
<1>7. \A y \in S : x <= y BY <1>6
<1> QED BY <1>7 DEF Pl!Min

LEMMA LeastOfTwo ==
  ASSUME NEW a \in Int, NEW b \in Int
  PROVE  Pl!Min({a, b}) \in Int
<1>1. \E x \in {a, b} : \A y \in {a, b} : x <= y
  <2>1. CASE a <= b BY <2>1
  <2>2. CASE b <= a BY <2>2
  <2> QED BY <2>1, <2>2
<1> QED BY <1>1 DEF Pl!Min

LEMMA GreaterOf ==
  ASSUME NEW a \in Int, NEW b \in Int
  PROVE  Pl!Max({a, b}) \in Int /\ Pl!Max({a, b}) >= a /\ Pl!Max({a, b}) >= b
<1>1. \E x \in {a, b} : \A y \in {a, b} : x >= y
  <2>1. CASE a >= b BY <2>1
  <2>2. CASE b >= a BY <2>2
  <2> QED BY <2>1, <2>2
<1> QED BY <1>1 DEF Pl!Max

\* Where there is space, it is found.
LEMMA SpaceFound ==
  ASSUME NEW cells, NEW size \in Nat, Pl!HasSpace(cells, size)
  PROVE  Pl!Fits(cells, size, Pl!FindSpace(cells, size))
<1> DEFINE S == {x \in 0..(size - 1) : Pl!Fits(cells, size, x)} \cup {size}
<1>1. PICK x \in 0..(size - 1) : Pl!Fits(cells, size, x) BY DEF Pl!HasSpace
<1>2. S \subseteq Nat /\ S # {} OBVIOUS
<1>3. Pl!Min(S) \in S /\ \A y \in S : Pl!Min(S) <= y BY <1>2, LeastOf
<1>4. x \in S BY <1>1
<1>5. Pl!Min(S) # size /\ Pl!Min(S) \in 0..(size - 1) /\ Pl!Fits(cells, size, Pl!Min(S))
  BY <1>1, <1>3, <1>4
<1>6. \A m \in 0..(size - 1) : m % size = m OBVIOUS
<1>7. Pl!FindSpace(cells, size) = Pl!Min(S) BY <1>5, <1>6 DEF Pl!FindSpace
<1> QED BY <1>5, <1>7

\* The free slot x of a grid goes to i: the other cells stay.
LEMMA TakesSlot ==
  ASSUME NEW cells, NEW i, NEW x \in Int, ~Pl!Taken(cells, x, 1)
  PROVE  /\ PlanCell(x, i) \in Pl!Occupy(cells, i, x, 1)
         /\ \A c \in cells : c \in Pl!Occupy(cells, i, x, 1)
         /\ \A c \in Pl!Occupy(cells, i, x, 1) :
              c.content => c \in cells \/ (c.at = x /\ c.id = i)
<1>1. x..(x + 1 - 1) = {x} OBVIOUS
<1>2. \A c \in cells : c.at # x BY <1>1 DEF Pl!Taken
<1>3. Pl!Occupy(cells, i, x, 1) =
        LET kept == {c \in cells : c.at \notin {x}}
            gap  == {x - 1, x + 1} \ {c.at : c \in kept}
        IN  kept \cup {[at |-> y, id |-> i, content |-> TRUE] : y \in {x}}
                 \cup {[at |-> y, id |-> i, content |-> FALSE] : y \in gap}
  BY <1>1 DEF Pl!Occupy
<1> QED BY <1>2, <1>3 DEF PlanCell

\* A history without its last action.
LEMMA FrontOf ==
  ASSUME NEW S, NEW s \in Seq(S), s # <<>>
  PROVE  /\ Pl!Front(s) \in Seq(S) /\ Pl!Last(s) \in S
         /\ \E k \in DOMAIN s : Pl!Last(s) = s[k]
         /\ \A k \in DOMAIN Pl!Front(s) : k \in DOMAIN s /\ Pl!Front(s)[k] = s[k]
BY DEF Pl!Front, Pl!Last

LEMMA AppendOf ==
  ASSUME NEW S, NEW s \in Seq(S), NEW a \in S
  PROVE  /\ Append(s, a) \in Seq(S)
         /\ \A k \in DOMAIN Append(s, a) :
              Append(s, a)[k] = a \/ (k \in DOMAIN s /\ Append(s, a)[k] = s[k])
<1>1. /\ DOMAIN s = 1..Len(s) /\ Len(s) \in Nat
      /\ DOMAIN Append(s, a) = 1..(Len(s) + 1)
      /\ \A k \in 1..Len(s) : Append(s, a)[k] = s[k]
      /\ Append(s, a)[Len(s) + 1] = a
  OBVIOUS
<1> QED BY <1>1

LEMMA PlanInit == Pl!Init => PlanInv
<1> SUFFICES ASSUME Pl!Init PROVE PlanInv OBVIOUS
<1>1. DOMAIN v1 = {} BY DEF Pl!Init
<1>2. PlanTypes BY <1>1, PlanConstants DEF Pl!Init, PlanTypes, Pl!Id
<1> QED BY <1>1, <1>2 DEF Pl!Init, PlanInv, Pl!Id

\* Components get other sizes, and machines other places: the tree is as it was.
Alike ==
  /\ v2' \in v2..(MaxId + 1) /\ DOMAIN v1' = DOMAIN v1
  /\ \A i \in DOMAIN v1 :
       /\ v1'[i] \in PlanPart /\ v1'[i].parent = v1[i].parent
       /\ v1'[i].children = v1[i].children
       /\ v1'[i].at = v1[i].at \/ v1[i].parent = 0

SameChildren == \A p \in v7 \cup v7' : p.op = "child" => p \in v7 /\ p \in v7'

LEMMA TreeStays ==
  ASSUME PlanInv, Alike, SameChildren, v4' = v4
  PROVE  /\ \A i \in DOMAIN v1' : Family(i)' /\ i \in 1..(v2' - 1) /\ v1'[i] \in PlanPart
         /\ \A i \in 1..MaxId : \A c \in v4'[i] : c.content => OwnCell(i, c)'
         /\ \A a : a.id \in Nat /\ Past(a) => Past(a)'
         /\ \A p : Awaits(p) /\ (p.op \in {"child", "grow"} => v11' = <<>>) => Awaits(p)'
<1>1. /\ PlanTypes /\ \A i \in DOMAIN v1 : Family(i)
      /\ \A i \in 1..MaxId : \A c \in v4[i] : c.content => OwnCell(i, c)
      /\ v2 \in Nat /\ v2' \in Nat /\ v2 <= v2' /\ MaxId \in Nat
  BY PlanConstants DEF PlanInv, PlanTypes, Alike
<1>2. \A i \in DOMAIN v1' : i \in 1..(v2' - 1) /\ v1'[i] \in PlanPart
  BY <1>1 DEF Alike, PlanTypes
<1>3. ASSUME NEW i \in DOMAIN v1' PROVE Family(i)'
  <2>1. i \in DOMAIN v1 /\ Family(i) /\ v1'[i].parent = v1[i].parent
        /\ v1'[i].children = v1[i].children /\ i # 0 /\ v4' = v4
    BY <1>1, <1>3 DEF Alike, PlanTypes
  <2>2. ASSUME v1'[i].parent # 0
        PROVE  v1'[i].parent \in DOMAIN v1' /\ i \in v1'[v1'[i].parent].children
    BY <2>1, <2>2 DEF Family, Alike
  <2>3. ASSUME NEW j \in v1'[i].children
        PROVE  j \in DOMAIN v1' /\ v1'[j].parent = i /\ PlanCell(v1'[j].at, j) \in v4'[i]
    <3>1. j \in DOMAIN v1 /\ v1[j].parent = i /\ PlanCell(v1[j].at, j) \in v4[i]
      BY <2>1, <2>3 DEF Family
    <3> QED BY <2>1, <3>1 DEF Alike
  <2> QED BY <2>2, <2>3 DEF Family
<1>4. ASSUME NEW i \in 1..MaxId, NEW c \in v4'[i], c.content PROVE OwnCell(i, c)'
  <2>1. OwnCell(i, c) /\ i # 0 BY <1>1, <1>4 DEF Alike
  <2>2. CASE c.id \in DOMAIN v1 /\ v1[c.id].parent = i /\ v1[c.id].at = c.at
    BY <2>1, <2>2 DEF OwnCell, Alike
  <2>3. CASE \E p \in v7 : p.op = "child" /\ p.id = c.id /\ p.parent = i /\ p.at = c.at
    BY <2>3 DEF OwnCell, SameChildren
  <2> QED BY <2>1, <2>2, <2>3 DEF OwnCell
<1>5. ASSUME NEW a, a.id \in Nat, Past(a) PROVE Past(a)'
  BY <1>1, <1>5 DEF Past, Alike, SameChildren
<1>6. ASSUME NEW p, Awaits(p), p.op \in {"child", "grow"} => v11' = <<>> PROVE Awaits(p)'
  <2>1. v4' = v4 /\ DOMAIN v1' = DOMAIN v1 BY DEF Alike
  <2> QED BY <1>1, <1>6, <2>1 DEF Awaits, Pl!Taken
<1> QED BY <1>2, <1>3, <1>4, <1>5, <1>6

\* ... and so the plan is whole again, if the histories and what is awaited are.
LEMMA PlanStays ==
  ASSUME PlanInv, Alike, SameChildren, v4' = v4,
         v5' \in Seq(PlanAct), \A k \in DOMAIN v5' : Past(v5'[k]) \/ Past(v5[k])',
         v6' \in Seq(PlanAct), \A k \in DOMAIN v6' : Past(v6'[k]),
         \A p \in v7' : Awaits(p)' \/ p \in v7, \A p, q \in v7' : p = q,
         v11' = v11 \/ v11' = <<>> \/ (v7 = {} /\ v11'[2] \in Int)
  PROVE  PlanInv'
<1>1. /\ \A i \in DOMAIN v1' : Family(i)' /\ i \in 1..(v2' - 1) /\ v1'[i] \in PlanPart
      /\ \A i \in 1..MaxId : \A c \in v4'[i] : c.content => OwnCell(i, c)'
      /\ \A a : a.id \in Nat /\ Past(a) => Past(a)'
      /\ \A p : Awaits(p) /\ (p.op \in {"child", "grow"} => v11' = <<>>) => Awaits(p)'
  BY TreeStays
<1>2. PlanTypes /\ \A p \in v7 : Awaits(p) BY DEF PlanInv
<1>3. PlanTypes'
  <2>1. v2' \in 1..(MaxId + 1) /\ DOMAIN v4' = 1..MaxId
    BY <1>2, PlanConstants DEF PlanTypes, Alike
  <2>2. v11' = <<>> \/ v11'[2] \in Int BY <1>2 DEF PlanTypes
  <2> QED BY <1>1, <2>1, <2>2 DEF PlanTypes
<1>4. ASSUME NEW a \in PlanAct, Past(a) \/ Past(a)' PROVE Past(a)'
  BY <1>1, <1>4 DEF PlanAct
<1>5. \A k \in DOMAIN v5' : Past(v5[k])'
  <2>1. SUFFICES ASSUME NEW k \in DOMAIN v5' PROVE Past(v5[k])' OBVIOUS
  <2>2. PICK a \in PlanAct : a = v5'[k] OBVIOUS
  <2>3. Past(a) \/ Past(a)' BY <2>2
  <2> QED BY <1>4, <2>2, <2>3
<1>6. \A k \in DOMAIN v6' : Past(v6[k])'
  <2>1. SUFFICES ASSUME NEW k \in DOMAIN v6' PROVE Past(v6[k])' OBVIOUS
  <2>2. PICK a \in PlanAct : a = v6'[k] OBVIOUS
  <2>3. Past(a) \/ Past(a)' BY <2>2
  <2> QED BY <1>4, <2>2, <2>3
<1>7. ASSUME NEW p \in v7' PROVE Awaits(p)'
  <2>1. CASE p \in v7
    <3>1. Awaits(p) BY <1>2, <2>1
    <3>2. p.op \in {"child", "grow"} => v11' = <<>> BY <2>1, <3>1 DEF Awaits
    <3> QED BY <1>1, <3>1, <3>2
  <2> QED BY <1>7, <2>1
<1> QED BY <1>1, <1>3, <1>5, <1>6, <1>7 DEF PlanInv

LEMMA SameParts ==
  ASSUME PlanInv, v1' = v1, v2' = v2 \/ (v2 <= MaxId /\ v2' = v2 + 1)
  PROVE  Alike
BY PlanConstants DEF PlanInv, PlanTypes, Alike

\* Component q gets other sizes, or a machine another place.
LEMMA OnePart ==
  ASSUME PlanInv, NEW q \in DOMAIN v1, NEW new \in PlanPart,
         v1' = [v1 EXCEPT ![q] = new], new.parent = v1[q].parent,
         new.children = v1[q].children, new.at = v1[q].at \/ v1[q].parent = 0,
         v2' = v2 \/ (v2 <= MaxId /\ v2' = v2 + 1)
  PROVE  Alike
<1>1. /\ DOMAIN v1' = DOMAIN v1 /\ v1'[q] = new
      /\ \A i \in DOMAIN v1 : i # q => v1'[i] = v1[i]
  OBVIOUS
<1>2. \A i \in DOMAIN v1 : v1[i] \in PlanPart BY DEF PlanInv, PlanTypes
<1>3. v2' \in v2..(MaxId + 1) BY PlanConstants DEF PlanInv, PlanTypes
<1> QED BY <1>1, <1>2, <1>3 DEF Alike

\* Nothing but what a user looks at changes.
LEMMA PlanLooks ==
  ASSUME PlanInv, UNCHANGED <<v1, v2, v4, v5, v6, v7>>,
         v11' = v11 \/ v11' = <<>> \/ (v7 = {} /\ v11'[2] \in Int)
  PROVE  PlanInv'
<1>1. Alike BY SameParts
<1>2. SameChildren BY DEF SameChildren
<1> QED BY <1>1, <1>2, PlanStays DEF PlanInv, PlanTypes

LEMMA PlanDropMachine ==
  ASSUME PlanInv, NEW x \in LetGo, Pl!DropMachine(x)
  PROVE  PlanInv'
<1>1. PICK p : p = [op |-> "place", id |-> v2, at |-> x, size |-> 0] OBVIOUS
<1>2. /\ v7 = {} /\ v7' = {p} /\ v2 <= MaxId /\ v2' = v2 + 1 /\ v11' = v11
      /\ UNCHANGED <<v1, v4, v5, v6>>
  BY <1>1 DEF Pl!DropMachine, Pl!Free, Pl!Ready, Pl!Await, Pl!history, Pl!editor
<1>3. Alike BY <1>2, SameParts
<1>4. SameChildren BY <1>1, <1>2 DEF SameChildren
<1>5. p.op = "place" /\ p.id = v2 /\ p.at = x BY <1>1
<1>6. Awaits(p)'
  <2>1. v2 \in Nat /\ v2 >= 1 /\ v2 \notin DOMAIN v1 BY PlanConstants DEF PlanInv, PlanTypes
  <2>2. x \in Int BY PlanConstants
  <2> QED BY <1>2, <1>5, <2>1, <2>2 DEF Awaits
<1> QED BY <1>2, <1>3, <1>4, <1>6, PlanStays DEF PlanInv, PlanTypes

LEMMA PlanDragMachine ==
  ASSUME PlanInv, NEW id, NEW x \in LetGo, Pl!DragMachine(id, x)
  PROVE  PlanInv'
<1>1. v7 = {} /\ v11' = <<id, x>> /\ UNCHANGED <<v1, v2, v4, v5, v6, v7>>
  BY DEF Pl!DragMachine, Pl!Ready, Pl!history
<1>2. v11'[2] \in Int BY <1>1, PlanConstants
<1> QED BY <1>1, <1>2, PlanLooks

LEMMA PlanDragChild ==
  ASSUME PlanInv, NEW id, NEW x \in LetGo, Pl!DragChild(id, x)
  PROVE  PlanInv'
<1>1. PICK q : q = v1[id].parent OBVIOUS
<1>2. PICK c : c = v1[q] OBVIOUS
<1>3. PICK w : w = Pl!Max({c.width, x + 2}) OBVIOUS
<1>4. PICK y : y = Pl!Min({x, c.width - 1}) OBVIOUS
<1>5. PICK size : size = Pl!Max({c.size, w}) OBVIOUS
<1>6. /\ v7 = {} /\ q \in DOMAIN v1 /\ v11' \in {<<id, x>>, <<id, y>>}
      /\ \/ v1' = v1
         \/ v1' = [v1 EXCEPT ![q] = [c EXCEPT !.width = w, !.size = size,
                     !.foot = IF c.parent = 0 THEN w ELSE c.foot]]
      /\ UNCHANGED <<v2, v4, v5, v6, v7>>
  BY <1>1, <1>2, <1>3, <1>4, <1>5 DEF Pl!DragChild, Pl!Ready, Pl!history, Pl!Exists, Pl!NoId
<1>7. c \in PlanPart /\ x \in Nat BY <1>2, <1>6, PlanConstants DEF PlanInv, PlanTypes
<1>8. c.width \in Int /\ c.size \in Nat /\ x + 2 \in Int /\ c.width - 1 \in Int /\ x \in Int
  BY <1>7 DEF PlanPart
<1>9. w \in Int /\ y \in Int BY <1>3, <1>4, <1>8, GreaterOf, LeastOfTwo
<1>10. size \in Nat
  <2>1. c.size \in Int BY <1>8
  <2>2. size \in Int /\ size >= c.size BY <1>5, <1>9, <2>1, GreaterOf
  <2> QED BY <1>8, <2>2
<1>11. PICK new : new = [c EXCEPT !.width = w, !.size = size,
                           !.foot = IF c.parent = 0 THEN w ELSE c.foot]
  OBVIOUS
<1>12. new \in PlanPart /\ new.parent = c.parent /\ new.children = c.children /\ new.at = c.at
  BY <1>7, <1>9, <1>10, <1>11 DEF PlanPart
<1>13. Alike
  <2>1. CASE v1' = v1 BY <1>6, <2>1, SameParts
  <2>2. CASE v1' = [v1 EXCEPT ![q] = new] BY <1>2, <1>6, <1>12, <2>2, OnePart
  <2> QED BY <1>6, <1>11, <2>1, <2>2
<1>14. SameChildren BY <1>6 DEF SameChildren
<1>15. v11'[2] \in Int BY <1>6, <1>8, <1>9
<1> QED BY <1>6, <1>13, <1>14, <1>15, PlanStays DEF PlanInv, PlanTypes

LEMMA PlanResize ==
  ASSUME PlanInv, NEW id, NEW d \in {-1, 1}, Pl!Resize(id, d)
  PROVE  PlanInv'
<1>1. PICK c : c = v1[id] OBVIOUS
<1>2. PICK w : w = Pl!Max({MinInner, c.width + d}) OBVIOUS
<1>3. PICK size : size = Pl!Max({c.size, w}) OBVIOUS
<1> DEFINE wait == [op |-> "resize", id |-> id]
<1>4. /\ v7 = {} /\ id \in DOMAIN v1 /\ UNCHANGED <<v2, v4, v5, v6, v11>>
      /\ \/ v1' = [v1 EXCEPT ![id] = [c EXCEPT !.size = size]]
         \/ v1' = [v1 EXCEPT ![id] = [[c EXCEPT !.size = size] EXCEPT !.width = w,
                     !.foot = IF c.parent = 0 THEN w ELSE c.foot]]
      /\ v7' \in {v7, {wait}}
  BY <1>1, <1>2, <1>3 DEF Pl!Resize, Pl!Ready, Pl!Free, Pl!history, Pl!Container, Pl!Exists, Pl!NoId,
     Pl!editor, Pl!Await
<1>5. c \in PlanPart BY <1>1, <1>4 DEF PlanInv, PlanTypes
<1>6. c.width \in Int /\ c.size \in Nat /\ c.width + d \in Int /\ MinInner \in Int
  BY <1>5, PlanConstants DEF PlanPart
<1>7. w \in Int BY <1>2, <1>6, GreaterOf
<1>8. size \in Nat
  <2>1. c.size \in Int BY <1>6
  <2>2. size \in Int /\ size >= c.size BY <1>3, <1>7, <2>1, GreaterOf
  <2> QED BY <1>6, <2>2
<1>9. PICK new : /\ new \in {[c EXCEPT !.size = size],
                             [[c EXCEPT !.size = size] EXCEPT !.width = w,
                                !.foot = IF c.parent = 0 THEN w ELSE c.foot]}
                 /\ v1' = [v1 EXCEPT ![id] = new]
  BY <1>4
<1>10. new \in PlanPart /\ new.parent = c.parent /\ new.children = c.children /\ new.at = c.at
  BY <1>5, <1>7, <1>8, <1>9 DEF PlanPart
<1>11. Alike BY <1>1, <1>4, <1>9, <1>10, OnePart
<1>12. SameChildren /\ wait.op = "resize" /\ wait.id = id BY <1>4 DEF SameChildren
<1>13. Awaits(wait)' BY <1>4, <1>12 DEF Awaits, PlanInv, PlanTypes
<1> HIDE DEF wait
<1> QED BY <1>4, <1>11, <1>12, <1>13, PlanStays DEF PlanInv, PlanTypes

\* What is recorded of component i, which is a machine if it has moved.
LEMMA Recorded ==
  ASSUME PlanInv, Alike, SameChildren, v4' = v4,
         NEW a \in PlanAct, Past(a), Pl!Record(a),
         \A p \in v7' : Awaits(p)' \/ p \in v7, \A p, q \in v7' : p = q, v11' \in {v11, <<>>}
  PROVE  PlanInv'
<1>1. /\ v5 \in Seq(PlanAct) /\ \A k \in DOMAIN v5 : Past(v5[k])
      /\ v5' = Append(v5, a) /\ v6' = <<>>
  BY DEF PlanInv, PlanTypes, Pl!Record
<1>2. v5' \in Seq(PlanAct) /\ \A k \in DOMAIN v5' : v5'[k] = a \/ (k \in DOMAIN v5 /\ v5'[k] = v5[k])
  BY <1>1, AppendOf
<1>3. \A k \in DOMAIN v5' : Past(v5'[k])
  <2>1. SUFFICES ASSUME NEW k \in DOMAIN v5' PROVE Past(v5'[k]) OBVIOUS
  <2>2. CASE v5'[k] = a BY <2>2
  <2>3. CASE k \in DOMAIN v5 /\ v5'[k] = v5[k] BY <1>1, <2>3
  <2> QED BY <1>2, <2>1, <2>2, <2>3
<1>4. v6' \in Seq(PlanAct) /\ DOMAIN v6' = {} BY <1>1
<1> QED BY <1>2, <1>3, <1>4, PlanStays

LEMMA PlanResized ==
  ASSUME PlanInv, NEW p, Pl!Resized(p)
  PROVE  PlanInv'
<1> DEFINE a == [type |-> "resize", id |-> p.id, old |-> 0, new |-> 0]
<1>1. /\ p \in v7 /\ p.op = "resize" /\ v7' = v7 \ {p} /\ Pl!Record(a)
      /\ UNCHANGED <<v1, v2, v4, v11>>
  BY DEF Pl!Resized, Pl!editor
<1>2. Awaits(p) /\ \A q \in v7 : q = p BY <1>1 DEF PlanInv
<1>3. p.id \in 1..(v2 - 1) /\ v2 \in Nat BY <1>1, <1>2 DEF Awaits, PlanInv, PlanTypes
<1>4. a \in PlanAct /\ a.id = p.id /\ a.type = "resize" BY <1>3 DEF PlanAct
<1>5. Past(a) BY <1>3, <1>4 DEF Past
<1>6. Alike BY <1>1, SameParts
<1>7. SameChildren /\ v7' = {} BY <1>1, <1>2 DEF SameChildren
<1> HIDE DEF a
<1> QED BY <1>1, <1>4, <1>5, <1>6, <1>7, Recorded

LEMMA PlanLooking ==
  ASSUME PlanInv,
         \/ \E id \in 1..MaxId : Pl!Enter(id) \/ Pl!ClickPort(id)
         \/ Pl!Exit \/ Pl!CancelConnection \/ \E c \in v10 : Pl!RemoveConnection(c)
         \/ UNCHANGED Pl!vars
  PROVE  PlanInv'
<1>1. UNCHANGED <<v1, v2, v4, v5, v6, v7>> /\ v11' = v11
  BY DEF Pl!Enter, Pl!ClickPort, Pl!Exit, Pl!CancelConnection, Pl!RemoveConnection, Pl!history,
     Pl!vars, Pl!editor
<1> QED BY <1>1, PlanLooks

\* The free slot x of container q goes to a child that is awaited.
LEMMA ChildStays ==
  ASSUME PlanInv, Alike, \A p \in v7 : p.op # "child", NEW q \in DOMAIN v1,
         NEW x \in Int, NEW n \in Nat, ~Pl!Taken(v4[q], x, 1),
         v2 <= MaxId, v2' = v2 + 1, v4' = [v4 EXCEPT ![q] = Pl!Occupy(@, v2, x, 1)],
         v7' = {[op |-> "child", id |-> v2, at |-> x, size |-> n, parent |-> q]},
         v11 = <<>>, UNCHANGED <<v5, v6, v11>>
  PROVE  PlanInv'
<1>1. PICK p : p = [op |-> "child", id |-> v2, at |-> x, size |-> n, parent |-> q] OBVIOUS
<1>2. /\ p.op = "child" /\ p.id = v2 /\ p.at = x /\ p.size = n /\ p.parent = q /\ v7' = {p}
  BY <1>1
<1>3. PICK old, new : old = v4[q] /\ new = Pl!Occupy(old, v2, x, 1) OBVIOUS
<1>4. /\ PlanTypes /\ \A i \in DOMAIN v1 : Family(i)
      /\ \A i \in 1..MaxId : \A c \in v4[i] : c.content => OwnCell(i, c)
      /\ v2 \in Nat /\ v2 >= 1 /\ MaxId \in Nat /\ v2 \notin DOMAIN v1
  BY PlanConstants DEF PlanInv, PlanTypes
<1>5. q \in 1..MaxId /\ DOMAIN v4 = 1..MaxId BY <1>4 DEF PlanTypes
<1>6. DOMAIN v4' = 1..MaxId /\ v4'[q] = new /\ \A i \in 1..MaxId : i # q => v4'[i] = v4[i]
  BY <1>3, <1>5
<1>7. PICK i : i = v2 BY <1>4
<1>8. /\ PlanCell(x, v2) \in new /\ \A c \in old : c \in new
      /\ \A c \in new : c.content => c \in old \/ (c.at = x /\ c.id = v2)
  BY <1>3, <1>7, TakesSlot
<1>9. \A j \in 1..MaxId : \A c \in v4[j] : c \in v4'[j] BY <1>3, <1>6, <1>8
<1>10. PlanTypes' BY <1>4, <1>6 DEF PlanTypes, Alike
<1>11. ASSUME NEW j \in DOMAIN v1' PROVE Family(j)'
  <2>1. /\ j \in DOMAIN v1 /\ Family(j) /\ v1'[j].parent = v1[j].parent
        /\ v1'[j].children = v1[j].children /\ j # 0 /\ j \in 1..MaxId
    BY <1>4, <1>11 DEF Alike, PlanTypes
  <2>2. ASSUME v1'[j].parent # 0
        PROVE  v1'[j].parent \in DOMAIN v1' /\ j \in v1'[v1'[j].parent].children
    BY <2>1, <2>2 DEF Family, Alike
  <2>3. ASSUME NEW k \in v1'[j].children
        PROVE  k \in DOMAIN v1' /\ v1'[k].parent = j /\ PlanCell(v1'[k].at, k) \in v4'[j]
    <3>1. k \in DOMAIN v1 /\ v1[k].parent = j /\ PlanCell(v1[k].at, k) \in v4[j]
      BY <2>1, <2>3 DEF Family
    <3> QED BY <1>9, <2>1, <3>1 DEF Alike
  <2> QED BY <2>2, <2>3 DEF Family
<1>12. ASSUME NEW j \in 1..MaxId, NEW c \in v4'[j], c.content PROVE OwnCell(j, c)'
  <2>1. CASE j = q /\ c.at = x /\ c.id = v2 BY <1>2, <2>1 DEF OwnCell
  <2>2. CASE c \in v4[j]
    <3>1. OwnCell(j, c) /\ j # 0 BY <1>4, <1>12, <2>2
    <3>2. c.id \in DOMAIN v1 /\ v1[c.id].parent = j /\ v1[c.id].at = c.at BY <3>1 DEF OwnCell
    <3> QED BY <3>1, <3>2 DEF OwnCell, Alike
  <2> QED BY <1>3, <1>6, <1>8, <1>12, <2>1, <2>2
<1>13. Awaits(p)'
  <2>1. p.id \in 1..(v2' - 1) /\ p.id \notin DOMAIN v1' BY <1>2, <1>4 DEF Alike
  <2>2. q \in DOMAIN v1' /\ PlanCell(p.at, p.id) \in v4'[q] BY <1>2, <1>6, <1>8 DEF Alike
  <2> QED BY <1>2, <2>1, <2>2 DEF Awaits
<1>14. ASSUME NEW a \in PlanAct, Past(a) PROVE Past(a)'
  <2>1. a.id < v2 /\ a.id \in Nat BY <1>14 DEF Past, PlanAct
  <2>2. a.type = "move" /\ a.id \in DOMAIN v1' => v1'[a.id].parent = 0
    BY <1>14 DEF Past, Alike
  <2>3. \A r \in v7' : r.id # a.id BY <1>2, <1>4, <2>1
  <2> QED BY <1>4, <2>1, <2>2, <2>3 DEF Past
<1>15. (\A k \in DOMAIN v5 : Past(v5[k])) /\ (\A k \in DOMAIN v6 : Past(v6[k]))
  BY DEF PlanInv
<1>16. ASSUME NEW k \in DOMAIN v5 PROVE Past(v5[k])'
  <2>1. PICK a \in PlanAct : a = v5[k] BY <1>4, <1>16 DEF PlanTypes
  <2>2. Past(a)' BY <1>14, <1>15, <1>16, <2>1
  <2> QED BY <2>1, <2>2
<1>17. ASSUME NEW k \in DOMAIN v6 PROVE Past(v6[k])'
  <2>1. PICK a \in PlanAct : a = v6[k] BY <1>4, <1>17 DEF PlanTypes
  <2>2. Past(a)' BY <1>14, <1>15, <1>17, <2>1
  <2> QED BY <2>1, <2>2
<1> QED BY <1>2, <1>10, <1>11, <1>12, <1>13, <1>16, <1>17 DEF PlanInv

LEMMA PlanAddChild ==
  ASSUME PlanInv, NEW sub \in BOOLEAN, Pl!AddChild(sub)
  PROVE  PlanInv'
<1>1. PICK q : /\ v7 = {} /\ v11 = <<>> /\ v2 <= MaxId /\ q \in DOMAIN v1
               /\ Pl!HasSpace(v4[q], v1[q].size)
               /\ Pl!Child(v2, q, Pl!FindSpace(v4[q], v1[q].size), sub)
               /\ UNCHANGED <<v1, v5, v6, v11>>
  BY DEF Pl!AddChild, Pl!Free, Pl!Ready, Pl!Container, Pl!Exists, Pl!history, Pl!editor
<1>2. PICK size : size = v1[q].size OBVIOUS
<1>3. PICK cells : cells = v4[q] OBVIOUS
<1>4. PICK x : x = Pl!FindSpace(cells, size) OBVIOUS
<1>5. PICK n \in Nat : n = IF sub THEN SubInner ELSE 0 BY PlanConstants
<1>6. size \in Nat BY <1>1, <1>2 DEF PlanInv, PlanTypes, PlanPart
<1>7. Pl!Fits(cells, size, x) BY <1>1, <1>2, <1>3, <1>4, <1>6, SpaceFound
<1>8. x \in Int /\ ~Pl!Taken(cells, x, 1) BY <1>6, <1>7 DEF Pl!Fits
<1>9. /\ v2' = v2 + 1 /\ v4' = [v4 EXCEPT ![q] = Pl!Occupy(@, v2, x, 1)]
      /\ v7' = {[op |-> "child", id |-> v2, at |-> x, size |-> n, parent |-> q]}
  BY <1>1, <1>2, <1>3, <1>4, <1>5 DEF Pl!Child, Pl!Await
<1>10. Alike BY <1>1, <1>9, SameParts
<1>11. \A p \in v7 : p.op # "child" BY <1>1
<1> QED BY <1>1, <1>3, <1>8, <1>9, <1>10, <1>11, ChildStays

LEMMA PlanGrown ==
  ASSUME PlanInv, NEW p, Pl!Grown(p)
  PROVE  PlanInv'
<1>1. PICK q, x : q = p.parent /\ x = p.at OBVIOUS
<1>2. PICK n \in Nat : n = IF p.sub THEN SubInner ELSE 0 BY PlanConstants
<1>3. /\ p \in v7 /\ p.op = "grow" /\ v2 <= MaxId /\ v2' = v2 + 1
      /\ v4' = [v4 EXCEPT ![q] = Pl!Occupy(@, v2, x, 1)]
      /\ v7' = (v7 \ {p}) \cup {[op |-> "child", id |-> v2, at |-> x, size |-> n, parent |-> q]}
      /\ UNCHANGED <<v1, v5, v6, v11>>
  BY <1>1, <1>2 DEF Pl!Grown, Pl!history, Pl!editor
<1>4. Awaits(p) /\ \A r \in v7 : r = p BY <1>3 DEF PlanInv
<1>5. q \in DOMAIN v1 /\ v11 = <<>> /\ x \in Int /\ ~Pl!Taken(v4[q], x, 1)
  BY <1>1, <1>3, <1>4 DEF Awaits
<1>6. /\ v7' = {[op |-> "child", id |-> v2, at |-> x, size |-> n, parent |-> q]}
      /\ \A r \in v7 : r.op # "child"
  BY <1>3, <1>4
<1>7. Alike BY <1>3, SameParts
<1> QED BY <1>3, <1>5, <1>6, <1>7, ChildStays

LEMMA PlanAddGrowing ==
  ASSUME PlanInv, NEW sub \in BOOLEAN, Pl!AddGrowing(sub)
  PROVE  PlanInv'
<1> DEFINE More(q) == {n \in 1 .. MaxWidth - v1[q].width :
                         Pl!HasSpace(v4[q], Pl!Max({v1[q].size, v1[q].width + n}))}
<1> DEFINE Step(q, c, w, size, free) ==
       LET grown == [c EXCEPT !.width = w, !.size = size]
       IN  /\ Pl!Free /\ v2 <= MaxId /\ Pl!Container(q) /\ ~Pl!HasSpace(v4[q], c.size)
           /\ More(q) # {}
           /\ \/ /\ ~Pl!Machine(q)
                 /\ v1' = [v1 EXCEPT ![q] = grown]
                 /\ Pl!Child(v2, q, Pl!FindSpace(v4[q], size), sub) /\ v3' = v3
              \/ /\ Pl!Machine(q) /\ ~Pl!CanPlace(free, c.at, w)
                 /\ v1' = [v1 EXCEPT ![q] = grown] /\ v3' = free
                 /\ UNCHANGED <<v4, v2, v7>>
              \/ /\ Pl!Machine(q) /\ Pl!CanPlace(free, c.at, w)
                 /\ v1' = [v1 EXCEPT ![q] = [grown EXCEPT !.foot = w]]
                 /\ v3' = Pl!Occupy(free, q, c.at, w)
                 /\ Pl!Await([op |-> "grow", at |-> Pl!FindSpace(v4[q], size), sub |-> sub, parent |-> q])
                 /\ UNCHANGED <<v4, v2>>
           /\ UNCHANGED <<Pl!history, Pl!editor>>
<1>1. PICK q : LET w == v1[q].width + Pl!Min(More(q))
               IN  Step(q, v1[q], w, Pl!Max({v1[q].size, w}), Pl!Vacate(v3, q))
  BY DEF Pl!AddGrowing
<1>2. PICK c, m, w, cells, size : /\ c = v1[q] /\ m = Pl!Min(More(q)) /\ w = c.width + m
                                  /\ cells = v4[q] /\ size = Pl!Max({c.size, w})
  OBVIOUS
<1>3. PICK x : x = Pl!FindSpace(cells, size) OBVIOUS
<1>4. PICK grown : grown = [c EXCEPT !.width = w, !.size = size] OBVIOUS
<1>5. PICK n \in Nat : n = IF sub THEN SubInner ELSE 0 BY PlanConstants
<1>6. /\ v7 = {} /\ v11 = <<>> /\ v2 <= MaxId /\ q \in DOMAIN v1 /\ More(q) # {}
       /\ UNCHANGED <<v5, v6, v11>>
       /\ \/ v1' = [v1 EXCEPT ![q] = grown] /\ Pl!Child(v2, q, x, sub)
          \/ v1' = [v1 EXCEPT ![q] = grown] /\ UNCHANGED <<v2, v4, v7>>
          \/ /\ v1' = [v1 EXCEPT ![q] = [grown EXCEPT !.foot = w]]
             /\ v7' = {[op |-> "grow", at |-> x, sub |-> sub, parent |-> q]}
             /\ UNCHANGED <<v2, v4>>
  <2> HIDE DEF More
  <2>1. Step(q, c, w, size, Pl!Vacate(v3, q)) BY <1>1, <1>2
  <2> QED BY <1>2, <1>3, <1>4, <2>1 DEF Pl!Free, Pl!Ready, Pl!Container, Pl!Exists, Pl!history,
     Pl!editor, Pl!Await
<1> HIDE DEF Step
<1>7. c \in PlanPart BY <1>6, <1>2 DEF PlanInv, PlanTypes
<1>8. c.width \in Int /\ c.size \in Nat /\ c.size \in Int BY <1>7 DEF PlanPart
<1>9. More(q) \subseteq Nat BY <1>2, <1>8, PlanConstants
<1>10. m \in More(q)
  <2>1. PICK S : S = More(q) OBVIOUS
  <2>2. S \subseteq Nat /\ S # {} BY <1>9, <1>6, <2>1
  <2> QED BY <1>2, <2>1, <2>2, LeastOf
<1>11. m \in Nat /\ w \in Int BY <1>2, <1>8, <1>9, <1>10
<1>12. size \in Int /\ size >= c.size BY <1>2, <1>8, <1>11, GreaterOf
<1>13. size \in Nat BY <1>8, <1>12
<1>14. Pl!HasSpace(cells, size) BY <1>2, <1>10
<1> HIDE DEF More
<1>15. Pl!Fits(cells, size, x) BY <1>3, <1>13, <1>14, SpaceFound
<1>16. x \in Int /\ ~Pl!Taken(cells, x, 1) BY <1>13, <1>15 DEF Pl!Fits
<1>17. /\ grown \in PlanPart /\ grown.parent = c.parent /\ grown.children = c.children
       /\ grown.at = c.at
  BY <1>4, <1>7, <1>11, <1>13 DEF PlanPart
<1>18. PICK wide : wide = [grown EXCEPT !.foot = w] OBVIOUS
<1>19. /\ wide \in PlanPart /\ wide.parent = c.parent /\ wide.children = c.children
       /\ wide.at = c.at
  BY <1>11, <1>17, <1>18 DEF PlanPart
<1>20. PICK p : p = [op |-> "grow", at |-> x, sub |-> sub, parent |-> q] OBVIOUS
<1>21. \/ v1' = [v1 EXCEPT ![q] = grown] /\ Pl!Child(v2, q, x, sub)
       \/ v1' = [v1 EXCEPT ![q] = grown] /\ UNCHANGED <<v2, v4, v7>>
       \/ v1' = [v1 EXCEPT ![q] = wide] /\ v7' = {p} /\ UNCHANGED <<v2, v4>>
  BY <1>18, <1>20, <1>6
<1>22. CASE v1' = [v1 EXCEPT ![q] = grown] /\ Pl!Child(v2, q, x, sub)
  <2>1. /\ v2' = v2 + 1 /\ v4' = [v4 EXCEPT ![q] = Pl!Occupy(@, v2, x, 1)]
        /\ v7' = {[op |-> "child", id |-> v2, at |-> x, size |-> n, parent |-> q]}
    BY <1>5, <1>6, <1>22 DEF Pl!Child, Pl!Await
  <2>2. Alike BY <1>2, <1>17, <1>6, <1>22, <2>1, OnePart
  <2>3. \A r \in v7 : r.op # "child" BY <1>6
  <2> QED BY <1>2, <1>16, <1>6, <2>1, <2>2, <2>3, ChildStays
<1>23. CASE v1' = [v1 EXCEPT ![q] = grown] /\ UNCHANGED <<v2, v4, v7>>
  <2>1. Alike BY <1>2, <1>17, <1>6, <1>23, OnePart
  <2>2. SameChildren BY <1>23 DEF SameChildren
  <2> QED BY <1>6, <1>23, <2>1, <2>2, PlanStays DEF PlanInv, PlanTypes
<1>24. CASE v1' = [v1 EXCEPT ![q] = wide] /\ v7' = {p} /\ UNCHANGED <<v2, v4>>
  <2>1. Alike BY <1>2, <1>19, <1>6, <1>24, OnePart
  <2>2. p.op = "grow" /\ p.parent = q /\ p.at = x BY <1>20
  <2>3. SameChildren BY <1>6, <1>24, <2>2 DEF SameChildren
  <2>4. Awaits(p)'
    <3>1. ~Pl!Taken(v4'[q], x, 1) BY <1>2, <1>16, <1>24
    <3>2. q \in DOMAIN v1' /\ v11' = <<>> BY <1>6, <2>1 DEF Alike
    <3> QED BY <1>16, <2>2, <3>1, <3>2 DEF Awaits
  <2> QED BY <1>6, <1>24, <2>1, <2>3, <2>4, PlanStays DEF PlanInv, PlanTypes
<1> QED BY <1>22, <1>23, <1>24, <1>21

\* An action of history s goes to the end of history t.
LEMMA Shifted ==
  ASSUME NEW s \in Seq(PlanAct), NEW t \in Seq(PlanAct), s # <<>>,
         \A k \in DOMAIN s : Past(s[k]), \A k \in DOMAIN t : Past(t[k]),
         NEW u, u = Append(t, Pl!Last(s)), NEW r, r = Pl!Front(s)
  PROVE  /\ Pl!Last(s) \in PlanAct /\ Past(Pl!Last(s))
         /\ r \in Seq(PlanAct) /\ \A k \in DOMAIN r : Past(r[k])
         /\ u \in Seq(PlanAct) /\ \A k \in DOMAIN u : Past(u[k])
<1>1. /\ r \in Seq(PlanAct) /\ Pl!Last(s) \in PlanAct
      /\ \E k \in DOMAIN s : Pl!Last(s) = s[k]
      /\ \A k \in DOMAIN r : k \in DOMAIN s /\ r[k] = s[k]
  BY FrontOf
<1>2. PICK a \in PlanAct : a = Pl!Last(s) BY <1>1
<1>3. Past(a) BY <1>1, <1>2
<1>4. ASSUME NEW k \in DOMAIN r PROVE Past(r[k]) BY <1>1
<1>5. u = Append(t, a) BY <1>2
<1>6. u \in Seq(PlanAct) /\ \A k \in DOMAIN u : u[k] = a \/ (k \in DOMAIN t /\ u[k] = t[k])
  BY <1>5, AppendOf
<1>7. ASSUME NEW k \in DOMAIN u PROVE Past(u[k])
  <2>1. CASE u[k] = a BY <1>3, <2>1
  <2>2. CASE k \in DOMAIN t /\ u[k] = t[k] BY <2>2
  <2> QED BY <1>6, <1>7, <2>1, <2>2
<1> QED BY <1>1, <1>2, <1>3, <1>4, <1>6, <1>7

LEMMA ReplayAlike ==
  ASSUME PlanInv, NEW a \in PlanAct, Past(a), a.type = "move", NEW x \in Int,
         Pl!Replay(a.id, x), v2' = v2
  PROVE  Alike
<1>1. CASE a.id \in DOMAIN v1
  <2>1. PICK c : c = v1[a.id] OBVIOUS
  <2>2. PICK new : new = [c EXCEPT !.at = x] OBVIOUS
  <2>3. v1' = [v1 EXCEPT ![a.id] = new] BY <1>1, <2>1, <2>2 DEF Pl!Replay, Pl!Exists
  <2>4. c \in PlanPart BY <1>1, <2>1 DEF PlanInv, PlanTypes
  <2>5. new \in PlanPart /\ new.parent = c.parent /\ new.children = c.children
    BY <2>2, <2>4 DEF PlanPart
  <2>6. v1[a.id].parent = 0 BY <1>1 DEF Past
  <2>7. PICK q \in DOMAIN v1 : q = a.id BY <1>1
  <2> QED BY <2>1, <2>3, <2>5, <2>6, <2>7, OnePart
<1>2. CASE a.id \notin DOMAIN v1
  <2>1. v1' = v1 BY <1>2 DEF Pl!Replay, Pl!Exists
  <2> QED BY <2>1, SameParts
<1> QED BY <1>1, <1>2

LEMMA PlanRedo ==
  ASSUME PlanInv, Pl!Redo
  PROVE  PlanInv'
<1>1. PICK s, t, u, r : s = v6 /\ t = v5 /\ u = v5' /\ r = v6' OBVIOUS
<1>2. PICK a : a = Pl!Last(s) OBVIOUS
<1>3. PICK p : p = [op |-> "place", id |-> v2, at |-> a.new, size |-> 0] OBVIOUS
<1>4. /\ v7 = {} /\ s # <<>> /\ r = Pl!Front(s) /\ u = Append(t, a) /\ UNCHANGED <<v4, v11>>
      /\ \/ v2 <= MaxId /\ v2' = v2 + 1 /\ v7' = {p} /\ v1' = v1
         \/ a.type = "move" /\ Pl!Replay(a.id, a.new) /\ v2' = v2 /\ v7' = v7
         \/ UNCHANGED <<v1, v2, v7>>
  BY <1>1, <1>2, <1>3 DEF Pl!Redo, Pl!Ready, Pl!Await, Pl!editor
<1>5. /\ s \in Seq(PlanAct) /\ \A k \in DOMAIN s : Past(s[k])
      /\ t \in Seq(PlanAct) /\ \A k \in DOMAIN t : Past(t[k])
  BY <1>1 DEF PlanInv, PlanTypes
<1>6. /\ a \in PlanAct /\ Past(a)
      /\ r \in Seq(PlanAct) /\ \A k \in DOMAIN r : Past(r[k])
      /\ u \in Seq(PlanAct) /\ \A k \in DOMAIN u : Past(u[k])
  BY <1>2, <1>4, <1>5, Shifted
<1>7. Alike
  <2>1. CASE v1' = v1 BY <1>4, <2>1, SameParts
  <2>2. CASE a.type = "move" /\ Pl!Replay(a.id, a.new) /\ v2' = v2
    <3>1. PICK x \in Int : x = a.new BY <1>6 DEF PlanAct
    <3> QED BY <1>6, <2>2, <3>1, ReplayAlike
  <2> QED BY <1>4, <2>1, <2>2
<1>8. p.op = "place" /\ p.id = v2 /\ p.at = a.new BY <1>3
<1>9. SameChildren BY <1>4, <1>8 DEF SameChildren
<1>10. ASSUME NEW q \in v7' PROVE Awaits(q)'
  <2>1. q = p /\ v2' = v2 + 1 /\ v1' = v1 BY <1>4, <1>10
  <2>2. v2 \in Nat /\ v2 >= 1 /\ v2 \notin DOMAIN v1 BY PlanConstants DEF PlanInv, PlanTypes
  <2>3. p.at \in Int BY <1>6, <1>8 DEF PlanAct
  <2> QED BY <1>8, <2>1, <2>2, <2>3 DEF Awaits
<1>11. \A q, w \in v7' : q = w BY <1>4
<1>12. v5' \in Seq(PlanAct) /\ \A k \in DOMAIN v5' : Past(v5'[k]) BY <1>1, <1>6
<1>13. v6' \in Seq(PlanAct) /\ \A k \in DOMAIN v6' : Past(v6'[k]) BY <1>1, <1>6
<1> QED BY <1>4, <1>7, <1>9, <1>10, <1>11, <1>12, <1>13, PlanStays

\* With a component go all that it has inside, and the rest stays a tree.
LEMMA Removed ==
  ASSUME PlanInv, v7 = {}, NEW id, Pl!RemoveComponent(id), UNCHANGED <<v2, v7, v11>>,
         v5' \in Seq(PlanAct), \A k \in DOMAIN v5' : Past(v5'[k]),
         v6' \in Seq(PlanAct), \A k \in DOMAIN v6' : Past(v6'[k])
  PROVE  PlanInv'
<1>1. PICK gone : gone = IF Pl!Exists(id) THEN Pl!Subtree(id) ELSE {} OBVIOUS
<1>2. /\ v1' = [i \in DOMAIN v1 \ gone |-> [v1[i] EXCEPT !.children = @ \ gone]]
      /\ v4' = [i \in 1..MaxId |-> {c \in v4[i] : c.id \notin gone}]
  BY <1>1 DEF Pl!RemoveComponent, Pl!Id
<1>3. /\ PlanTypes /\ \A i \in DOMAIN v1 : Family(i)
      /\ \A i \in 1..MaxId : \A c \in v4[i] : c.content => OwnCell(i, c)
      /\ v2 \in Nat /\ v2 <= MaxId + 1 /\ MaxId \in Nat
  BY PlanConstants DEF PlanInv, PlanTypes
<1>4. \A i \in DOMAIN v1 : i \in 1..MaxId /\ i # 0 /\ v1[i] \in PlanPart BY <1>3 DEF PlanTypes
<1>5. ASSUME NEW q \in DOMAIN v1, q \in gone, NEW i \in v1[q].children PROVE i \in gone
  <2>1. q \in Pl!Subtree(id) BY <1>1, <1>5
  <2>2. i \in 1..MaxId BY <1>3, <1>4 DEF Family
  <2>3. ASSUME NEW S \in SUBSET Pl!Id, id \in S, Pl!Closed(S) PROVE i \in S
    BY <2>1, <2>3 DEF Pl!Subtree, Pl!Closed
  <2> QED BY <1>1, <1>5, <2>2, <2>3 DEF Pl!Subtree, Pl!Id
<1>6. ASSUME NEW i \in DOMAIN v1, i \notin gone
      PROVE  /\ i \in DOMAIN v1' /\ v1'[i] \in PlanPart /\ v1'[i].parent = v1[i].parent
             /\ v1'[i].at = v1[i].at /\ v1'[i].children = v1[i].children \ gone
  <2>1. PICK c \in PlanPart : c = v1[i] BY <1>4
  <2>2. v1'[i] = [c EXCEPT !.children = @ \ gone] /\ i \in DOMAIN v1' BY <1>2, <1>6, <2>1
  <2> QED BY <2>1, <2>2 DEF PlanPart
<1>7. \A i \in DOMAIN v1' : i \in DOMAIN v1 /\ i \notin gone BY <1>2
<1>8. PlanTypes' BY <1>2, <1>3, <1>6, <1>7 DEF PlanTypes
<1>9. ASSUME NEW i \in DOMAIN v1' PROVE Family(i)'
  <2>1. i \in DOMAIN v1 /\ i \notin gone /\ Family(i) /\ i \in 1..MaxId BY <1>3, <1>4, <1>7
  <2>2. ASSUME v1'[i].parent # 0
        PROVE  v1'[i].parent \in DOMAIN v1' /\ i \in v1'[v1'[i].parent].children
    <3>1. PICK q : q = v1[i].parent OBVIOUS
    <3>2. q \in DOMAIN v1 /\ i \in v1[q].children /\ v1'[i].parent = q
      BY <1>6, <2>1, <2>2, <3>1 DEF Family
    <3>3. q \notin gone BY <1>5, <2>1, <3>2
    <3> QED BY <1>6, <2>1, <3>2, <3>3
  <2>3. ASSUME NEW j \in v1'[i].children
        PROVE  j \in DOMAIN v1' /\ v1'[j].parent = i /\ PlanCell(v1'[j].at, j) \in v4'[i]
    <3>1. j \in v1[i].children /\ j \notin gone BY <1>6, <2>1, <2>3
    <3>2. j \in DOMAIN v1 /\ v1[j].parent = i /\ PlanCell(v1[j].at, j) \in v4[i]
      BY <2>1, <3>1 DEF Family
    <3>3. PICK d : d = PlanCell(v1[j].at, j) OBVIOUS
    <3>4. d \in v4[i] /\ d.id = j BY <3>2, <3>3 DEF PlanCell
    <3>5. d \in v4'[i] BY <1>2, <2>1, <3>1, <3>4
    <3>6. j \in DOMAIN v1' /\ v1'[j].parent = i /\ v1'[j].at = v1[j].at
      BY <1>6, <3>1, <3>2
    <3> QED BY <3>3, <3>5, <3>6
  <2> QED BY <2>2, <2>3 DEF Family
<1>10. ASSUME NEW i \in 1..MaxId, NEW c \in v4'[i], c.content PROVE OwnCell(i, c)'
  <2>1. c \in v4[i] /\ c.id \notin gone BY <1>2
  <2>2. c.id \in DOMAIN v1 /\ v1[c.id].parent = i /\ v1[c.id].at = c.at
    BY <1>3, <1>10, <2>1 DEF OwnCell
  <2>3. PICK j : j = c.id OBVIOUS
  <2> QED BY <1>6, <2>1, <2>2, <2>3 DEF OwnCell
<1>11. ASSUME NEW a, Past(a) PROVE Past(a)'
  BY <1>6, <1>7, <1>11 DEF Past
<1>12. ASSUME NEW k \in DOMAIN v5' PROVE Past(v5[k])'
  <2>1. PICK a : a = v5'[k] OBVIOUS
  <2>2. Past(a) BY <2>1
  <2>3. Past(a)' BY <1>11, <2>2
  <2> QED BY <2>1, <2>3
<1>13. ASSUME NEW k \in DOMAIN v6' PROVE Past(v6[k])'
  <2>1. PICK a : a = v6'[k] OBVIOUS
  <2>2. Past(a) BY <2>1
  <2>3. Past(a)' BY <1>11, <2>2
  <2> QED BY <2>1, <2>3
<1> QED BY <1>8, <1>9, <1>10, <1>12, <1>13 DEF PlanInv

LEMMA PlanDelete ==
  ASSUME PlanInv, NEW id \in 1..MaxId, Pl!Delete(id)
  PROVE  PlanInv'
<1>1. v7 = {} /\ Pl!RemoveComponent(id) /\ UNCHANGED <<v2, v7, v11, v5, v6>>
  BY DEF Pl!Delete, Pl!Ready, Pl!history
<1> QED BY <1>1, Removed DEF PlanInv, PlanTypes

LEMMA PlanUndo ==
  ASSUME PlanInv, Pl!Undo
  PROVE  PlanInv'
<1>1. PICK s, t, u, r : s = v5 /\ t = v6 /\ u = v6' /\ r = v5' OBVIOUS
<1>2. PICK a : a = Pl!Last(s) OBVIOUS
<1>3. /\ v7 = {} /\ s # <<>> /\ r = Pl!Front(s) /\ u = Append(t, a) /\ UNCHANGED <<v2, v7, v11>>
      /\ \/ Pl!RemoveComponent(a.id)
         \/ a.type = "move" /\ Pl!Replay(a.id, a.old) /\ v4' = v4
         \/ UNCHANGED <<v1, v4>>
  BY <1>1, <1>2 DEF Pl!Undo, Pl!Ready
<1>4. /\ s \in Seq(PlanAct) /\ \A k \in DOMAIN s : Past(s[k])
      /\ t \in Seq(PlanAct) /\ \A k \in DOMAIN t : Past(t[k])
  BY <1>1 DEF PlanInv, PlanTypes
<1>5. /\ a \in PlanAct /\ Past(a)
      /\ r \in Seq(PlanAct) /\ \A k \in DOMAIN r : Past(r[k])
      /\ u \in Seq(PlanAct) /\ \A k \in DOMAIN u : Past(u[k])
  BY <1>2, <1>3, <1>4, Shifted
<1>6. v5' \in Seq(PlanAct) /\ \A k \in DOMAIN v5' : Past(v5'[k]) BY <1>1, <1>5
<1>7. v6' \in Seq(PlanAct) /\ \A k \in DOMAIN v6' : Past(v6'[k]) BY <1>1, <1>5
<1>8. CASE Pl!RemoveComponent(a.id)
  <2>1. PICK id : id = a.id OBVIOUS
  <2> QED BY <1>3, <1>6, <1>7, <1>8, <2>1, Removed
<1>9. ASSUME v4' = v4, v1' = v1 \/ (a.type = "move" /\ Pl!Replay(a.id, a.old)) PROVE PlanInv'
  <2>1. Alike
    <3>1. CASE v1' = v1 BY <1>3, <3>1, SameParts
    <3>2. CASE a.type = "move" /\ Pl!Replay(a.id, a.old)
      <4>1. PICK x \in Int : x = a.old BY <1>5 DEF PlanAct
      <4> QED BY <1>3, <1>5, <3>2, <4>1, ReplayAlike
    <3> QED BY <1>9, <3>1, <3>2
  <2>2. SameChildren BY <1>3 DEF SameChildren
  <2> QED BY <1>3, <1>6, <1>7, <1>9, <2>1, <2>2, PlanStays
<1> QED BY <1>3, <1>8, <1>9

LEMMA PlanClearAll ==
  ASSUME PlanInv, Pl!ClearAll
  PROVE  PlanInv'
<1>1. /\ v7 = {} /\ v1' = <<>> /\ v4' = [i \in 1..MaxId |-> {}] /\ v11' = <<>>
      /\ UNCHANGED <<v2, v5, v6, v7>>
  BY DEF Pl!ClearAll, Pl!Free, Pl!Ready, Pl!Id, Pl!history
<1>2. DOMAIN v1' = {} BY <1>1
<1>3. PlanTypes' BY <1>1, <1>2 DEF PlanInv, PlanTypes
<1>4. ASSUME NEW a, Past(a) PROVE Past(a)' BY <1>1, <1>2, <1>4 DEF Past
<1>5. (\A k \in DOMAIN v5 : Past(v5[k])) /\ (\A k \in DOMAIN v6 : Past(v6[k]))
  BY DEF PlanInv
<1>6. (\A k \in DOMAIN v5 : Past(v5[k]))' /\ (\A k \in DOMAIN v6 : Past(v6[k]))'
  BY <1>1, <1>2, <1>5 DEF Past
<1> QED BY <1>1, <1>2, <1>3, <1>6 DEF PlanInv

\* The mesh of p is there and its component joins the others, in the container it is for.
Joined(p, n) ==
  /\ DOMAIN v1' = DOMAIN v1 \cup {p.id}
  /\ v1'[p.id] \in PlanPart /\ v1'[p.id].children = {}
  /\ v1'[p.id].parent = n /\ v1'[p.id].at = p.at
  /\ \A i \in DOMAIN v1 :
       /\ v1'[i] \in PlanPart /\ v1'[i].parent = v1[i].parent /\ v1'[i].at = v1[i].at
       /\ v1'[i].children = v1[i].children \cup (IF i = n THEN {p.id} ELSE {})

LEMMA JoinStays ==
  ASSUME PlanInv, NEW p \in v7, p.op \in {"place", "child"}, NEW n,
         n = IF p.op = "child" THEN p.parent ELSE 0, Joined(p, n),
         v7' = {}, UNCHANGED <<v2, v4, v11>>,
         v5' \in Seq(PlanAct), \A k \in DOMAIN v5' : Past(v5'[k]) \/ Past(v5[k])',
         v6' \in Seq(PlanAct), \A k \in DOMAIN v6' : Past(v6'[k])
  PROVE  PlanInv'
<1>1. /\ PlanTypes /\ \A i \in DOMAIN v1 : Family(i)
      /\ \A i \in 1..MaxId : \A c \in v4[i] : c.content => OwnCell(i, c)
      /\ v2 \in Nat /\ MaxId \in Nat /\ \A i \in DOMAIN v1 : i # 0
  BY PlanConstants DEF PlanInv, PlanTypes
<1>2. Awaits(p) /\ \A q \in v7 : q = p BY DEF PlanInv
<1>3. PICK new : new = p.id OBVIOUS
<1>4. /\ new \in 1..(v2 - 1) /\ new \notin DOMAIN v1 /\ new # 0 /\ p.at \in Int
      /\ p.op = "child" => n \in DOMAIN v1 /\ PlanCell(p.at, new) \in v4[n]
      /\ p.op # "child" => n = 0
  BY <1>1, <1>2, <1>3 DEF Awaits
<1>5. PlanTypes' BY <1>1, <1>3, <1>4 DEF PlanTypes, Joined
<1>6. ASSUME NEW i \in DOMAIN v1', i = new PROVE Family(i)'
  <2>1. v1'[i].children = {} /\ v1'[i].parent = n BY <1>3, <1>6 DEF Joined
  <2>2. n # 0 => n \in DOMAIN v1 BY <1>4
  <2>3. n # 0 => n \in DOMAIN v1' /\ i \in v1'[n].children BY <1>3, <1>6, <2>2 DEF Joined
  <2> QED BY <2>1, <2>3 DEF Family
<1>7. ASSUME NEW i \in DOMAIN v1', i # new PROVE Family(i)'
  <2>1. /\ i \in DOMAIN v1 /\ Family(i) /\ v1'[i].parent = v1[i].parent /\ i # 0
        /\ v1'[i].children = v1[i].children \cup (IF i = n THEN {new} ELSE {})
    BY <1>1, <1>3, <1>7 DEF Joined
  <2>2. ASSUME v1'[i].parent # 0
        PROVE  v1'[i].parent \in DOMAIN v1' /\ i \in v1'[v1'[i].parent].children
    <3>1. PICK q : q = v1[i].parent OBVIOUS
    <3>2. q \in DOMAIN v1 /\ i \in v1[q].children BY <2>1, <2>2, <3>1 DEF Family
    <3>3. q \in DOMAIN v1' /\ i \in v1'[q].children BY <3>2 DEF Joined
    <3> QED BY <2>1, <3>1, <3>3
  <2>3. ASSUME NEW j \in v1'[i].children
        PROVE  j \in DOMAIN v1' /\ v1'[j].parent = i /\ PlanCell(v1'[j].at, j) \in v4'[i]
    <3>1. CASE j \in v1[i].children
      <4>1. j \in DOMAIN v1 /\ v1[j].parent = i /\ PlanCell(v1[j].at, j) \in v4[i]
        BY <2>1, <3>1 DEF Family
      <4> QED BY <4>1 DEF Joined
    <3>2. CASE i = n /\ j = new
      <4>1. p.op = "child" /\ PlanCell(p.at, new) \in v4[n] BY <1>4, <2>1, <3>2
      <4> QED BY <1>3, <3>2, <4>1 DEF Joined
    <3> QED BY <2>1, <2>3, <3>1, <3>2
  <2> QED BY <2>2, <2>3 DEF Family
<1>8. ASSUME NEW i \in 1..MaxId, NEW c \in v4'[i], c.content PROVE OwnCell(i, c)'
  <2>1. OwnCell(i, c) BY <1>1, <1>8
  <2>2. PICK j : j = c.id OBVIOUS
  <2>3. CASE j \in DOMAIN v1 /\ v1[j].parent = i /\ v1[j].at = c.at
    <3>1. j \in DOMAIN v1' /\ v1'[j].parent = i /\ v1'[j].at = c.at BY <2>3 DEF Joined
    <3> QED BY <2>2, <3>1 DEF OwnCell
  <2>4. CASE \E q \in v7 : q.op = "child" /\ q.id = c.id /\ q.parent = i /\ q.at = c.at
    <3>0. PICK q \in v7 : q.op = "child" /\ q.id = c.id /\ q.parent = i /\ q.at = c.at
      BY <2>4
    <3>1. q = p BY <1>2, <3>0
    <3>2. p.op = "child" /\ new = j /\ n = i /\ p.at = c.at BY <1>3, <2>2, <3>0, <3>1
    <3>3. j \in DOMAIN v1' /\ v1'[j].parent = i /\ v1'[j].at = c.at BY <1>3, <3>2 DEF Joined
    <3> QED BY <2>2, <3>3 DEF OwnCell
  <2> QED BY <2>1, <2>2, <2>3, <2>4 DEF OwnCell
<1>9. ASSUME NEW a, Past(a) PROVE Past(a)'
  <2>1. PICK j : j = a.id OBVIOUS
  <2>2. j < v2 /\ a.type = "move" => (j \in DOMAIN v1 => v1[j].parent = 0)
                                     /\ (p.op = "child" => j # new)
    BY <1>3, <1>9, <2>1 DEF Past
  <2>3. a.type = "move" /\ j \in DOMAIN v1' => v1'[j].parent = 0
    <3>1. CASE j = new BY <1>3, <1>4, <2>2, <3>1, <1>9, <2>1 DEF Joined, Past
    <3>2. CASE j # new BY <1>3, <2>1, <3>2, <1>9 DEF Joined, Past
    <3> QED BY <3>1, <3>2
  <2> QED BY <1>9, <2>1, <2>3 DEF Past
<1>10. ASSUME NEW k \in DOMAIN v5' PROVE Past(v5[k])'
  <2>1. PICK a : a = v5'[k] OBVIOUS
  <2>2. Past(a) \/ Past(a)' BY <2>1
  <2>3. Past(a)' BY <1>9, <2>2
  <2> QED BY <2>1, <2>3
<1>11. ASSUME NEW k \in DOMAIN v6' PROVE Past(v6[k])'
  <2>1. PICK a : a = v6'[k] OBVIOUS
  <2>2. Past(a) BY <2>1
  <2>3. Past(a)' BY <1>9, <2>2
  <2> QED BY <2>1, <2>3
<1> QED BY <1>5, <1>6, <1>7, <1>8, <1>10, <1>11 DEF PlanInv

LEMMA PlanPlaced ==
  ASSUME PlanInv, NEW p, Pl!Placed(p)
  PROVE  PlanInv'
<1>1. PICK new, x : new = p.id /\ x = p.at OBVIOUS
<1>2. PICK c : c = [parent |-> 0, at |-> x, foot |-> MachineInner, width |-> MachineInner,
                    size |-> MachineInner, children |-> {}]
  OBVIOUS
<1>3. PICK a : a = [type |-> "place", id |-> new, old |-> 0, new |-> x] OBVIOUS
<1>4. /\ p \in v7 /\ p.op = "place" /\ v7' = v7 \ {p} /\ v1' = Pl!With(v1, new, c)
      /\ Pl!Record(a) /\ UNCHANGED <<v2, v4, v11>>
  BY <1>1, <1>2, <1>3 DEF Pl!Placed, Pl!editor, Pl!NoId
<1>5. Awaits(p) /\ v7' = {} BY <1>4 DEF PlanInv
<1>6. new \in 1..(v2 - 1) /\ new \notin DOMAIN v1 /\ x \in Int /\ v2 \in Nat
  BY <1>1, <1>4, <1>5 DEF Awaits, PlanInv, PlanTypes
<1>7. /\ DOMAIN v1' = DOMAIN v1 \cup {new} /\ v1'[new] = c
      /\ \A i \in DOMAIN v1 : v1'[i] = v1[i]
  BY <1>4, <1>6 DEF Pl!With
<1>8. c \in PlanPart /\ c.children = {} /\ c.parent = 0 /\ c.at = x
  BY <1>2, <1>6, PlanConstants DEF PlanPart
<1>9. Joined(p, 0)
  <2>1. \A i \in DOMAIN v1 : i # 0 /\ v1[i] \in PlanPart BY DEF PlanInv, PlanTypes
  <2> QED BY <1>1, <1>7, <1>8, <2>1 DEF Joined
<1>10. a \in PlanAct /\ a.type = "place" /\ a.id = new BY <1>3, <1>6 DEF PlanAct
<1>11. Past(a) BY <1>6, <1>10 DEF Past
<1>12. /\ v5 \in Seq(PlanAct) /\ v5' = Append(v5, a) /\ v6' = <<>>
       /\ \A k \in DOMAIN v5 : Past(v5[k])
  BY <1>4 DEF Pl!Record, PlanInv, PlanTypes
<1>13. /\ v5' \in Seq(PlanAct)
       /\ \A k \in DOMAIN v5' : v5'[k] = a \/ (k \in DOMAIN v5 /\ v5'[k] = v5[k])
  BY <1>10, <1>12, AppendOf
<1>14. ASSUME NEW k \in DOMAIN v5' PROVE Past(v5'[k])
  <2>1. CASE v5'[k] = a BY <1>11, <2>1
  <2>2. CASE k \in DOMAIN v5 /\ v5'[k] = v5[k] BY <1>12, <2>2
  <2> QED BY <1>13, <1>14, <2>1, <2>2
<1>15. v6' \in Seq(PlanAct) /\ DOMAIN v6' = {} BY <1>12
<1>16. PICK n : n = 0 OBVIOUS
<1> QED BY <1>4, <1>5, <1>9, <1>13, <1>14, <1>15, <1>16, JoinStays

LEMMA PlanAdded ==
  ASSUME PlanInv, NEW p, Pl!Added(p)
  PROVE  PlanInv'
<1>1. PICK new, x, n, size : new = p.id /\ x = p.at /\ n = p.parent /\ size = p.size OBVIOUS
<1>2. PICK c : c = [parent |-> n, at |-> x, foot |-> 1, width |-> size, size |-> size,
                    children |-> {}]
  OBVIOUS
<1>3. PICK g : g = [i \in DOMAIN v1 |->
                      IF i = n THEN [v1[i] EXCEPT !.children = @ \cup {new}] ELSE v1[i]]
  OBVIOUS
<1>4. /\ p \in v7 /\ p.op = "child" /\ v7' = v7 \ {p} /\ v1' = Pl!With(g, new, c)
      /\ UNCHANGED <<v2, v4, v5, v6, v11>>
  BY <1>1, <1>2, <1>3 DEF Pl!Added, Pl!editor, Pl!history
<1>5. Awaits(p) /\ v7' = {} BY <1>4 DEF PlanInv
<1>6. /\ new \in 1..(v2 - 1) /\ new \notin DOMAIN v1 /\ x \in Int /\ n \in DOMAIN v1
      /\ size \in Nat /\ v2 \in Nat
  BY <1>1, <1>4, <1>5 DEF Awaits, PlanInv, PlanTypes
<1>7. \A i \in DOMAIN v1 : i \in Nat /\ v1[i] \in PlanPart
  BY PlanConstants DEF PlanInv, PlanTypes
<1>8. DOMAIN g = DOMAIN v1 BY <1>3
<1>9. /\ DOMAIN v1' = DOMAIN v1 \cup {new} /\ v1'[new] = c
      /\ \A i \in DOMAIN v1 : v1'[i] = g[i]
  BY <1>4, <1>6, <1>8 DEF Pl!With
<1>10. c \in PlanPart /\ c.children = {} /\ c.parent = n /\ c.at = x
  BY <1>2, <1>6, <1>7 DEF PlanPart
<1>11. ASSUME NEW i \in DOMAIN v1
       PROVE  /\ v1'[i] \in PlanPart /\ v1'[i].parent = v1[i].parent /\ v1'[i].at = v1[i].at
              /\ v1'[i].children = v1[i].children \cup (IF i = n THEN {new} ELSE {})
  <2>1. PICK d \in PlanPart : d = v1[i] BY <1>7
  <2>2. CASE i = n
    <3>1. v1'[i] = [d EXCEPT !.children = @ \cup {new}] BY <1>3, <1>9, <2>1, <2>2
    <3>2. new \in Nat BY <1>6
    <3> QED BY <2>1, <2>2, <3>1, <3>2 DEF PlanPart
  <2>3. CASE i # n
    <3>1. v1'[i] = d BY <1>3, <1>9, <2>1, <2>3
    <3> QED BY <2>1, <2>3, <3>1
  <2> QED BY <2>2, <2>3
<1>12. Joined(p, n) BY <1>1, <1>9, <1>10, <1>11 DEF Joined
<1>13. /\ v5' \in Seq(PlanAct) /\ \A k \in DOMAIN v5' : Past(v5'[k])
       /\ v6' \in Seq(PlanAct) /\ \A k \in DOMAIN v6' : Past(v6'[k])
  BY <1>4 DEF PlanInv, PlanTypes
<1> QED BY <1>1, <1>4, <1>5, <1>12, <1>13, JoinStays

\* A child let go at a free place of its container goes there.
LEMMA ChildMoves ==
  ASSUME PlanInv, NEW id \in DOMAIN v1, v1[id].parent # 0, NEW x \in Int,
         ~Pl!Taken(Pl!Vacate(v4[v1[id].parent], id), x, 1),
         \A p \in v7 : p.op \notin {"child", "grow"},
         v1' = [v1 EXCEPT ![id].at = x],
         v4' = [v4 EXCEPT ![v1[id].parent] = Pl!Occupy(Pl!Vacate(@, id), id, x, 1)],
         v11' = <<>>, UNCHANGED <<v2, v5, v6, v7>>
  PROVE  PlanInv'
<1>1. PICK q, old : q = v1[id].parent /\ old = v4[q] OBVIOUS
<1>2. PICK free : free = Pl!Vacate(old, id) OBVIOUS
<1>3. PICK new : new = Pl!Occupy(free, id, x, 1) OBVIOUS
<1>4. /\ PlanTypes /\ \A i \in DOMAIN v1 : Family(i)
      /\ \A i \in 1..MaxId : \A c \in v4[i] : c.content => OwnCell(i, c)
      /\ v2 \in Nat /\ v2 <= MaxId + 1 /\ MaxId \in Nat
  BY PlanConstants DEF PlanInv, PlanTypes
<1>5. \A i \in DOMAIN v1 : i \in 1..MaxId /\ i # 0 /\ v1[i] \in PlanPart BY <1>4 DEF PlanTypes
<1>6. q \in DOMAIN v1 /\ q \in 1..MaxId BY <1>1, <1>4, <1>5 DEF Family
<1>7. DOMAIN v4' = 1..MaxId /\ v4'[q] = new /\ \A i \in 1..MaxId : i # q => v4'[i] = v4[i]
  BY <1>1, <1>2, <1>3, <1>4, <1>6 DEF PlanTypes
<1>8. /\ PlanCell(x, id) \in new /\ \A c \in free : c \in new
      /\ \A c \in new : c.content => c \in free \/ (c.at = x /\ c.id = id)
  BY <1>1, <1>2, <1>3, TakesSlot
<1>9. free = {c \in old : c.id # id} BY <1>2 DEF Pl!Vacate
<1>10. ASSUME NEW i \in DOMAIN v1
       PROVE  /\ i \in DOMAIN v1' /\ v1'[i] \in PlanPart /\ v1'[i].parent = v1[i].parent
              /\ v1'[i].children = v1[i].children
              /\ v1'[i].at = IF i = id THEN x ELSE v1[i].at
  <2>1. PICK d \in PlanPart : d = v1[i] BY <1>5
  <2>2. v1'[i] = IF i = id THEN [d EXCEPT !.at = x] ELSE d BY <2>1
  <2> QED BY <2>1, <2>2 DEF PlanPart
<1>11. DOMAIN v1' = DOMAIN v1 OBVIOUS
<1>12. PlanTypes' BY <1>4, <1>7, <1>10, <1>11 DEF PlanTypes
<1>13. ASSUME NEW i \in DOMAIN v1' PROVE Family(i)'
  <2>1. i \in DOMAIN v1 /\ Family(i) /\ i \in 1..MaxId BY <1>4, <1>5, <1>11
  <2>2. ASSUME v1'[i].parent # 0
        PROVE  v1'[i].parent \in DOMAIN v1' /\ i \in v1'[v1'[i].parent].children
    <3>1. PICK r : r = v1[i].parent OBVIOUS
    <3>2. r \in DOMAIN v1 /\ i \in v1[r].children /\ v1'[i].parent = r
      BY <1>10, <2>1, <2>2, <3>1 DEF Family
    <3> QED BY <1>10, <3>2
  <2>3. ASSUME NEW j \in v1'[i].children
        PROVE  j \in DOMAIN v1' /\ v1'[j].parent = i /\ PlanCell(v1'[j].at, j) \in v4'[i]
    <3>1. j \in v1[i].children BY <1>10, <2>1, <2>3
    <3>2. j \in DOMAIN v1 /\ v1[j].parent = i /\ PlanCell(v1[j].at, j) \in v4[i]
      BY <2>1, <3>1 DEF Family
    <3>3. j \in DOMAIN v1' /\ v1'[j].parent = i BY <1>10, <3>2
    <3>4. CASE j = id
      <4>1. i = q /\ v1'[j].at = x BY <1>1, <1>10, <3>2, <3>4
      <4> QED BY <1>7, <1>8, <3>3, <3>4, <4>1
    <3>5. CASE j # id
      <4>1. PICK c : c = PlanCell(v1[j].at, j) OBVIOUS
      <4>2. c \in v4[i] /\ c.id = j BY <3>2, <4>1 DEF PlanCell
      <4>3. c \in v4'[i]
        <5>1. CASE i = q BY <1>1, <1>7, <1>8, <1>9, <3>5, <4>2, <5>1
        <5>2. CASE i # q BY <1>7, <2>1, <4>2, <5>2
        <5> QED BY <5>1, <5>2
      <4>4. v1'[j].at = v1[j].at BY <1>10, <3>2, <3>5
      <4> QED BY <3>3, <4>1, <4>3, <4>4
    <3> QED BY <3>4, <3>5
  <2> QED BY <2>2, <2>3 DEF Family
<1>14. ASSUME NEW i \in 1..MaxId, NEW c \in v4'[i], c.content PROVE OwnCell(i, c)'
  <2>1. PICK j : j = c.id OBVIOUS
  <2>2. CASE i = q /\ c.at = x /\ j = id
    <3>1. j \in DOMAIN v1' /\ v1'[j].parent = i /\ v1'[j].at = c.at BY <1>1, <1>10, <2>2
    <3> QED BY <2>1, <3>1 DEF OwnCell
  <2>3. CASE c \in v4[i] /\ (i = q => j # id)
    <3>1. OwnCell(i, c) BY <1>4, <1>14, <2>3
    <3>2. j \in DOMAIN v1 /\ v1[j].parent = i /\ v1[j].at = c.at BY <2>1, <3>1 DEF OwnCell
    <3>3. j # id BY <1>1, <2>3, <3>2
    <3>4. j \in DOMAIN v1' /\ v1'[j].parent = i /\ v1'[j].at = c.at BY <1>10, <3>2, <3>3
    <3> QED BY <2>1, <3>4 DEF OwnCell
  <2> QED BY <1>1, <1>7, <1>8, <1>9, <1>14, <2>1, <2>2, <2>3
<1>15. ASSUME NEW a, Past(a) PROVE Past(a)'
  <2>1. PICK j : j = a.id OBVIOUS
  <2>2. a.type = "move" /\ j \in DOMAIN v1' => v1'[j].parent = 0
    BY <1>10, <1>11, <1>15, <2>1 DEF Past
  <2> QED BY <1>15, <2>1, <2>2 DEF Past
<1>16. ASSUME NEW k \in DOMAIN v5 PROVE Past(v5[k])'
  <2>1. PICK a : a = v5[k] OBVIOUS
  <2>2. Past(a)' BY <1>15, <1>16, <2>1 DEF PlanInv
  <2> QED BY <2>1, <2>2
<1>17. ASSUME NEW k \in DOMAIN v6 PROVE Past(v6[k])'
  <2>1. PICK a : a = v6[k] OBVIOUS
  <2>2. Past(a)' BY <1>15, <1>17, <2>1 DEF PlanInv
  <2> QED BY <2>1, <2>2
<1>18. ASSUME NEW p \in v7' PROVE Awaits(p)'
  <2>1. p \in v7 /\ Awaits(p) /\ p.op \notin {"child", "grow"} BY DEF PlanInv
  <2> QED BY <1>11, <2>1 DEF Awaits
<1>19. \A p, r \in v7' : p = r BY DEF PlanInv
<1> QED BY <1>12, <1>13, <1>14, <1>16, <1>17, <1>18, <1>19 DEF PlanInv

LEMMA PlanRelease ==
  ASSUME PlanInv, Pl!Release
  PROVE  PlanInv'
<1>1. PICK id, x : id = v11[1] /\ x = v11[2] OBVIOUS
<1>2. PICK c, q : c = v1[id] /\ q = c.parent OBVIOUS
<1>3. PICK a : a = [type |-> "move", id |-> id, old |-> c.at, new |-> x] OBVIOUS
<1>4. /\ v11 # <<>> /\ v11' = <<>> /\ UNCHANGED <<v2, v7>>
      /\ \/ UNCHANGED <<v1, v4, v5, v6>>
         \/ /\ id \in DOMAIN v1 /\ q = 0 /\ v1' = [v1 EXCEPT ![id].at = x] /\ v4' = v4
            /\ Pl!Record(a)
         \/ /\ id \in DOMAIN v1 /\ q # 0 /\ Pl!Fits(Pl!Vacate(v4[q], id), v1[q].size, x)
            /\ v1' = [v1 EXCEPT ![id].at = x]
            /\ v4' = [v4 EXCEPT ![q] = Pl!Moved(@, id, x, 1, TRUE)]
            /\ UNCHANGED <<v5, v6>>
  BY <1>1, <1>2, <1>3 DEF Pl!Release, Pl!Exists, Pl!NoId, Pl!history
<1>5. x \in Int /\ \A p \in v7 : Awaits(p) BY <1>1, <1>4 DEF PlanInv, PlanTypes
<1>6. \A p \in v7 : p.op \notin {"child", "grow"} BY <1>4, <1>5 DEF Awaits
<1>7. CASE UNCHANGED <<v1, v4, v5, v6>> BY <1>4, <1>7, PlanLooks
<1>8. CASE /\ id \in DOMAIN v1 /\ q = 0 /\ v1' = [v1 EXCEPT ![id].at = x] /\ v4' = v4
           /\ Pl!Record(a)
  <2>1. c \in PlanPart /\ id \in 1..(v2 - 1) /\ v2 \in Nat
    BY <1>2, <1>8, PlanConstants DEF PlanInv, PlanTypes
  <2>2. a \in PlanAct /\ a.type = "move" /\ a.id = id
    BY <1>3, <1>5, <2>1 DEF PlanAct, PlanPart
  <2>3. PICK new : new = [c EXCEPT !.at = x] OBVIOUS
  <2>4. new \in PlanPart /\ new.parent = c.parent /\ new.children = c.children
    BY <1>5, <2>1, <2>3 DEF PlanPart
  <2>5. v1' = [v1 EXCEPT ![id] = new] BY <1>2, <1>8, <2>3
  <2>6. Alike BY <1>2, <1>4, <1>8, <2>4, <2>5, OnePart
  <2>7. Past(a)
    <3>1. id < v2 /\ v1[id].parent = 0 BY <1>2, <1>8, <2>1
    <3>2. \A p \in v7 : p.op # "child" BY <1>6
    <3> QED BY <2>2, <3>1, <3>2 DEF Past
  <2>8. SameChildren /\ \A p \in v7' : p \in v7 BY <1>4 DEF SameChildren
  <2>9. \A p, r \in v7' : p = r BY <1>4 DEF PlanInv
  <2> QED BY <1>4, <1>8, <2>2, <2>6, <2>7, <2>8, <2>9, Recorded
<1>9. CASE /\ id \in DOMAIN v1 /\ q # 0 /\ Pl!Fits(Pl!Vacate(v4[q], id), v1[q].size, x)
           /\ v1' = [v1 EXCEPT ![id].at = x]
           /\ v4' = [v4 EXCEPT ![q] = Pl!Moved(@, id, x, 1, TRUE)]
           /\ UNCHANGED <<v5, v6>>
  <2>1. ~Pl!Taken(Pl!Vacate(v4[q], id), x, 1) BY <1>9 DEF Pl!Fits
  <2>2. v4' = [v4 EXCEPT ![q] = Pl!Occupy(Pl!Vacate(@, id), id, x, 1)] BY <1>9 DEF Pl!Moved
  <2> QED BY <1>2, <1>4, <1>5, <1>6, <1>9, <2>1, <2>2, ChildMoves
<1> QED BY <1>4, <1>7, <1>8, <1>9

LEMMA PlanStep == PlanInv /\ [Pl!Next]_(Pl!vars) => PlanInv'
<1> SUFFICES ASSUME PlanInv, [Pl!Next]_(Pl!vars) PROVE PlanInv' OBVIOUS
<1>1. CASE \E x \in LetGo : Pl!DropMachine(x) BY <1>1, PlanDropMachine
<1>2. CASE \E sub \in BOOLEAN : Pl!AddChild(sub) \/ Pl!AddGrowing(sub)
  BY <1>2, PlanAddChild, PlanAddGrowing
<1>3. CASE \E p \in v7 : Pl!Placed(p) \/ Pl!Grown(p) \/ Pl!Added(p) \/ Pl!Resized(p)
  BY <1>3, PlanPlaced, PlanGrown, PlanAdded, PlanResized
<1>4. CASE \E id \in 1..MaxId : Pl!Delete(id) BY <1>4, PlanDelete
<1>5. CASE \E id \in 1..MaxId : \E x \in LetGo : Pl!DragMachine(id, x) \/ Pl!DragChild(id, x)
  BY <1>5, PlanDragMachine, PlanDragChild
<1>6. CASE \E id \in 1..MaxId : \E d \in {-1, 1} : Pl!Resize(id, d) BY <1>6, PlanResize
<1>7. CASE Pl!ClearAll \/ Pl!Release \/ Pl!Undo \/ Pl!Redo
  BY <1>7, PlanClearAll, PlanRelease, PlanUndo, PlanRedo
<1>8. CASE \/ \E id \in 1..MaxId : Pl!Enter(id) \/ Pl!ClickPort(id)
           \/ Pl!Exit \/ Pl!CancelConnection \/ \E c \in v10 : Pl!RemoveConnection(c)
           \/ UNCHANGED Pl!vars
  BY <1>8, PlanLooking
<1> QED BY <1>1, <1>2, <1>3, <1>4, <1>5, <1>6, <1>7, <1>8 DEF Pl!Next, Pl!Id

LEMMA PlanIsWhole == PlanInv => Pl!WholeTree
<1> SUFFICES ASSUME PlanInv PROVE Pl!WholeTree OBVIOUS
<1>1. /\ \A i \in DOMAIN v1 : Family(i)
      /\ \A i \in 1..MaxId : \A c \in v4[i] : c.content => OwnCell(i, c)
  BY DEF PlanInv
<1> QED BY <1>1 DEF Pl!WholeTree, Family, OwnCell, PlanCell, Pl!Exists, Pl!NoId, Pl!Id

-----------------------------------------------------------------------------
(* The home planner: order is v1, walls v2, furn v3, active v5, drawn v11, *)
(* scene v12, meshes v13 and tasks v14.                                    *)

HomeTask(t) == t = [n |-> t.n, left |-> t.left, then |-> t.then, id |-> t.id]

HomeTypes ==
  /\ v1 \in Seq(Floor) /\ v5 \in Floor
  /\ DOMAIN v2 = Floor /\ DOMAIN v3 = Floor
  /\ \A f \in Floor : IsFiniteSet(DOMAIN v3[f])

\* The scene has a mesh of every piece that is drawn, of which the rebuild under way
\* has the others to draw.
Drawing ==
  /\ v11 = DOMAIN v2[v5]
  /\ \A m : m \in v12 <=> \E i \in DOMAIN v13 : m = v13[i]
  /\ \A i \in DOMAIN v13 : v13[i][1] = i
  /\ v14 = {} => DOMAIN v13 = DOMAIN v3[v5]
  /\ \A t \in v14 : t.then # "preset" =>
       /\ t.left \cap DOMAIN v13 = {}
       /\ t.left \cup DOMAIN v13 = DOMAIN v3[v5]

HomeInv ==
  /\ HomeTypes /\ Drawing
  /\ \A t, u \in v14 : t = u
  /\ \A t \in v14 : HomeTask(t) /\ (t.then = "preset" => t.id \in Preset)

LEMMA HomeOnly ==
  /\ Init /\ Is("home") => Ho!Init
  /\ [Next]_all /\ Is("home") => [Ho!Next]_(Ho!vars)
BY DEF Init, Next, Is, Ho!vars, all

\* Finite sets and their sizes are the same for the module instantiated.
LEMMA SameSize ==
  ASSUME NEW S
  PROVE  (Ho!IsFiniteSet(S) <=> IsFiniteSet(S)) /\ Ho!Cardinality(S) = Cardinality(S)
<1>1. Ho!IsFiniteSet(S) <=> IsFiniteSet(S) BY DEF Ho!IsFiniteSet, IsFiniteSet
<1>2. Ho!Cardinality(S) = Cardinality(S) BY DEF Ho!Cardinality, Cardinality
<1> QED BY <1>1, <1>2

LEMMA HomeConstants ==
  /\ Floor \subseteq Nat /\ 0 \in Floor
  /\ \A p \in Preset : /\ DOMAIN p \subseteq Floor /\ IsFiniteSet(DOMAIN p)
                       /\ \A f \in DOMAIN p : p[f] \in Seq(Int)
<1>1. Ho!HomePlannerAssumption BY MCStoresAssumption
<1>2. ASSUME NEW p \in Preset PROVE IsFiniteSet(DOMAIN p)
  <2>1. PICK S : S = DOMAIN p OBVIOUS
  <2>2. Ho!IsFiniteSet(S) BY <1>1, <2>1 DEF Ho!HomePlannerAssumption
  <2> QED BY <2>1, <2>2, SameSize
<1> QED BY <1>1, <1>2 DEF Ho!HomePlannerAssumption

LEMMA HomeInit == Ho!Init => HomeInv
<1> SUFFICES ASSUME Ho!Init PROVE HomeInv OBVIOUS
<1>1. /\ v1 = <<0>> /\ v5 = 0 /\ v2 = [f \in Floor |-> <<>>] /\ v3 = [f \in Floor |-> <<>>]
      /\ v11 = {} /\ v12 = {} /\ v13 = <<>> /\ v14 = {}
  BY DEF Ho!Init, Ho!Empty
<1>2. /\ DOMAIN v13 = {} /\ \A f \in Floor : DOMAIN v2[f] = {} /\ DOMAIN v3[f] = {}
  BY <1>1
<1>3. IsFiniteSet({}) BY FS_EmptySet
<1>4. HomeTypes BY <1>1, <1>2, <1>3, HomeConstants DEF HomeTypes
<1>5. Drawing BY <1>1, <1>2, HomeConstants DEF Drawing
<1> QED BY <1>1, <1>4, <1>5 DEF HomeInv

\* Floors, walls and furniture have changed; all is drawn again.
LEMMA HomeRebuilt ==
  ASSUME HomeInv, HomeTypes', v11' = DOMAIN v2'[v5'], v12' = Ho!Cleared(v13), v13' = Ho!Empty,
         NEW n, NEW then, NEW id, then # "preset",
         v14' = {[n |-> n, left |-> DOMAIN v3'[v5'], then |-> then, id |-> id]}
  PROVE  HomeInv'
<1>1. PICK left : left = DOMAIN v3'[v5'] OBVIOUS
<1>2. PICK t : t = [n |-> n, left |-> left, then |-> then, id |-> id] OBVIOUS
<1>3. t.left = left /\ t.then = then /\ HomeTask(t) BY <1>2 DEF HomeTask
<1>4. v12' = {}
  <2>1. \A m \in v12 : m \in Ho!Range(v13) BY DEF HomeInv, Drawing, Ho!Range
  <2> QED BY <2>1 DEF Ho!Cleared
<1>5. DOMAIN v13' = {} BY DEF Ho!Empty
<1>6. v14' = {t} BY <1>1, <1>2
<1>7. Drawing' BY <1>1, <1>3, <1>4, <1>5, <1>6 DEF Drawing
<1> QED BY <1>3, <1>6, <1>7 DEF HomeInv

\* The same of a rebuild that nothing was waited for.
LEMMA RebuildStays ==
  ASSUME HomeInv, HomeTypes', v14 = {}, NEW then, NEW id, then # "preset",
         Ho!Rebuild(v13, v2'[v5'], v3'[v5'], then, id)
  PROVE  HomeInv'
<1>1. PICK n : n = v15 + 1 OBVIOUS
<1>2. /\ v11' = DOMAIN v2'[v5'] /\ v12' = Ho!Cleared(v13) /\ v13' = Ho!Empty
      /\ v14' = {[n |-> n, left |-> DOMAIN v3'[v5'], then |-> then, id |-> id]}
  BY <1>1 DEF Ho!Rebuild, Ho!Drawn
<1> QED BY <1>2, HomeRebuilt

LEMMA HomeLoaded ==
  ASSUME HomeInv, NEW t \in v14, NEW i \in t.left, Ho!Loaded(t, i)
  PROVE  HomeInv'
<1>1. PICK m : m = <<i, t.n>> OBVIOUS
<1>2. PICK u : u = [t EXCEPT !.left = @ \ {i}] OBVIOUS
<1>3. /\ t.then # "preset" /\ v12' = v12 \cup {m} /\ v13' = Ho!With(v13, i, m)
      /\ v14' = (v14 \ {t}) \cup {u} /\ UNCHANGED <<v1, v2, v3, v5, v11>>
  BY <1>1, <1>2 DEF Ho!Loaded, Ho!home
<1>4. /\ HomeTypes /\ Drawing /\ \A x \in v14 : x = t
      /\ t = [n |-> t.n, left |-> t.left, then |-> t.then, id |-> t.id]
  BY DEF HomeInv, HomeTask
<1>5. v14' = {u} BY <1>3, <1>4
<1>6. u = [n |-> t.n, left |-> t.left \ {i}, then |-> t.then, id |-> t.id] BY <1>2, <1>4
<1>7. u.left = t.left \ {i} /\ u.then = t.then /\ u.then # "preset" /\ HomeTask(u)
  BY <1>3, <1>6 DEF HomeTask
<1>8. /\ DOMAIN v13' = DOMAIN v13 \cup {i} /\ v13'[i] = m
      /\ \A j \in DOMAIN v13 : j # i => v13'[j] = v13[j]
  BY <1>3 DEF Ho!With
<1>9. m[1] = i BY <1>1
<1>10. t.left \cap DOMAIN v13 = {} /\ t.left \cup DOMAIN v13 = DOMAIN v3[v5]
  BY <1>3, <1>4 DEF Drawing
<1>11. Drawing'
  <2>1. \A x : x \in v12' <=> \E j \in DOMAIN v13' : x = v13'[j]
    <3>1. i \notin DOMAIN v13 BY <1>10
    <3> QED BY <1>3, <1>4, <1>8, <3>1 DEF Drawing
  <2>2. \A j \in DOMAIN v13' : v13'[j][1] = j BY <1>4, <1>8, <1>9 DEF Drawing
  <2>3. v11' = DOMAIN v2'[v5'] BY <1>3, <1>4 DEF Drawing
  <2>4. u.left \cap DOMAIN v13' = {} /\ u.left \cup DOMAIN v13' = DOMAIN v3'[v5']
    BY <1>3, <1>7, <1>8, <1>10
  <2> QED BY <1>5, <2>1, <2>2, <2>3, <2>4 DEF Drawing
<1>12. HomeTypes' BY <1>3, <1>4 DEF HomeTypes
<1> QED BY <1>5, <1>7, <1>11, <1>12 DEF HomeInv

LEMMA HomeComplete ==
  ASSUME HomeInv, NEW t \in v14, Ho!Complete(t)
  PROVE  HomeInv'
<1>1. /\ t.then # "preset" /\ t.left = {} /\ v14' = v14 \ {t}
      /\ UNCHANGED <<v1, v2, v3, v5, v11, v12, v13>>
  BY DEF Ho!Complete, Ho!home
<1>2. HomeTypes /\ Drawing /\ \A x \in v14 : x = t BY DEF HomeInv
<1>3. v14' = {} BY <1>1, <1>2
<1>4. DOMAIN v13 = DOMAIN v3[v5] BY <1>1, <1>2 DEF Drawing
<1>5. Drawing' BY <1>1, <1>2, <1>3, <1>4 DEF Drawing
<1>6. HomeTypes' BY <1>1, <1>2 DEF HomeTypes
<1> QED BY <1>3, <1>5, <1>6 DEF HomeInv

\* What is drawn is as it was.
LEMMA HomeLooks ==
  ASSUME HomeInv, UNCHANGED <<v1, v2, v5, v11, v12, v13, v14>>, DOMAIN v3' = DOMAIN v3,
         \A f \in Floor : DOMAIN v3'[f] = DOMAIN v3[f]
  PROVE  HomeInv'
<1>1. HomeTypes /\ Drawing BY DEF HomeInv
<1>2. HomeTypes' BY <1>1 DEF HomeTypes
<1>3. Drawing' BY <1>1 DEF Drawing, HomeTypes
<1> QED BY <1>2, <1>3 DEF HomeInv

LEMMA HomeDrag ==
  ASSUME HomeInv, NEW x, Ho!Drag(x)
  PROVE  HomeInv'
<1>1. /\ UNCHANGED <<v1, v2, v5, v11, v12, v13, v14>>
      /\ v3' = [v3 EXCEPT ![v5][v7].at = x]
  BY DEF Ho!Drag, Ho!picture
<1>2. DOMAIN v3 = Floor BY DEF HomeInv, HomeTypes
<1>3. DOMAIN v3' = Floor /\ \A f \in Floor : DOMAIN v3'[f] = DOMAIN v3[f] BY <1>1, <1>2
<1> QED BY <1>1, <1>2, <1>3, HomeLooks

LEMMA HomeLooking ==
  ASSUME HomeInv, UNCHANGED <<v1, v2, v3, v5, v11, v12, v13, v14>>
  PROVE  HomeInv'
BY HomeLooks

\* The walls of the active floor change, or its furniture, which stays finite.
LEMMA TypesStay ==
  ASSUME HomeInv, UNCHANGED v1, v5' \in Floor, DOMAIN v2' = Floor, DOMAIN v3' = Floor,
         \A f \in Floor : DOMAIN v3'[f] = DOMAIN v3[f] \/ IsFiniteSet(DOMAIN v3'[f])
  PROVE  HomeTypes'
<1>1. HomeTypes BY DEF HomeInv
<1>2. ASSUME NEW f \in Floor PROVE IsFiniteSet(DOMAIN v3'[f])
  <2>1. CASE DOMAIN v3'[f] = DOMAIN v3[f] BY <1>1, <2>1 DEF HomeTypes
  <2>2. CASE IsFiniteSet(DOMAIN v3'[f]) BY <2>2
  <2> QED BY <2>1, <2>2
<1> QED BY <1>1, <1>2 DEF HomeTypes

LEMMA HomeWalls ==
  ASSUME HomeInv, NEW e, Ho!StartWall(e) \/ Ho!DragWall(e) \/ Ho!Open(e)
  PROVE  HomeInv'
<1>1. v5 \in Floor /\ DOMAIN v2 = Floor /\ DOMAIN v3 = Floor BY DEF HomeInv, HomeTypes
<1>2. PICK then : /\ v14 = {} /\ then # "preset"
                  /\ Ho!Rebuild(v13, v2'[v5], v3[v5], then, None)
                  /\ UNCHANGED <<v1, v3, v5>>
                  /\ \E w : v2' = [v2 EXCEPT ![v5] = w]
  <2>1. CASE Ho!StartWall(e)
    <3>1. /\ v14 = {} /\ Ho!Rebuild(v13, v2'[v5], v3[v5], "wall", None)
          /\ UNCHANGED <<v1, v3, v5>>
      BY <2>1 DEF Ho!StartWall, Ho!Acts
    <3>2. \E w : v2' = [v2 EXCEPT ![v5] = w] BY <2>1 DEF Ho!StartWall, Ho!SetWalls
    <3> QED BY <3>1, <3>2
  <2>2. CASE Ho!DragWall(e)
    <3>1. /\ v14 = {} /\ Ho!Rebuild(v13, v2'[v5], v3[v5], "nothing", None)
          /\ UNCHANGED <<v1, v3, v5>>
      BY <2>2 DEF Ho!DragWall, Ho!Acts
    <3>2. \E w : v2' = [v2 EXCEPT ![v5] = w] BY <2>2 DEF Ho!DragWall, Ho!SetWalls
    <3> QED BY <3>1, <3>2
  <2>3. CASE Ho!Open(e)
    <3>1. /\ v14 = {} /\ Ho!Rebuild(v13, v2'[v5], v3[v5], "nothing", None)
          /\ UNCHANGED <<v1, v3, v5>>
      BY <2>3 DEF Ho!Open, Ho!Acts
    <3>2. \E w : v2' = [v2 EXCEPT ![v5] = w] BY <2>3 DEF Ho!Open, Ho!SetWalls
    <3> QED BY <3>1, <3>2
  <2> QED BY <2>1, <2>2, <2>3
<1>3. DOMAIN v2' = Floor BY <1>1, <1>2
<1>4. HomeTypes' BY <1>1, <1>2, <1>3, TypesStay
<1>5. PICK id : id = None OBVIOUS
<1>6. Ho!Rebuild(v13, v2'[v5'], v3'[v5'], then, id) BY <1>2, <1>5
<1> QED BY <1>2, <1>4, <1>6, RebuildStays

LEMMA HomePlace ==
  ASSUME HomeInv, NEW x, Ho!Place(x)
  PROVE  HomeInv'
<1>1. PICK i, d : i = v4 /\ d = [at |-> x, rot |-> 0] OBVIOUS
<1>2. /\ v14 = {} /\ v3' = [v3 EXCEPT ![v5] = Ho!With(@, i, d)]
      /\ Ho!Rebuild(v13, v2[v5], v3'[v5], "place", i) /\ UNCHANGED <<v1, v2, v5>>
  BY <1>1 DEF Ho!Place, Ho!Acts
<1>3. HomeTypes BY DEF HomeInv
<1>4. PICK g : g = v3[v5] OBVIOUS
<1>5. IsFiniteSet(DOMAIN g \cup {i}) BY <1>3, <1>4, FS_AddElement DEF HomeTypes
<1>6. v3'[v5] = Ho!With(g, i, d) BY <1>2, <1>3, <1>4 DEF HomeTypes
<1>7. DOMAIN v3'[v5] = DOMAIN g \cup {i} BY <1>6 DEF Ho!With
<1>8. /\ DOMAIN v3' = Floor /\ IsFiniteSet(DOMAIN v3'[v5])
      /\ \A f \in Floor : f # v5 => v3'[f] = v3[f]
  BY <1>2, <1>3, <1>5, <1>7 DEF HomeTypes
<1>9. HomeTypes'
  <2>1. v5' \in Floor /\ DOMAIN v2' = Floor BY <1>2, <1>3 DEF HomeTypes
  <2>2. \A f \in Floor : DOMAIN v3'[f] = DOMAIN v3[f] \/ IsFiniteSet(DOMAIN v3'[f]) BY <1>8
  <2> QED BY <1>2, <1>8, <2>1, <2>2, TypesStay
<1>10. Ho!Rebuild(v13, v2'[v5'], v3'[v5'], "place", i) BY <1>2
<1> QED BY <1>2, <1>9, <1>10, RebuildStays

LEMMA HomeTurn ==
  ASSUME HomeInv, NEW by, Ho!Turn(by)
  PROVE  HomeInv'
<1>1. /\ v14 = {} /\ v3' = [v3 EXCEPT ![v5][v7].rot = (@ + by) % 8]
      /\ Ho!Rebuild(v13, v2[v5], v3'[v5], "turn", None) /\ UNCHANGED <<v1, v2, v5>>
  BY DEF Ho!Turn, Ho!Acts
<1>2. HomeTypes BY DEF HomeInv
<1>3. DOMAIN v3' = Floor /\ \A f \in Floor : DOMAIN v3'[f] = DOMAIN v3[f]
  BY <1>1, <1>2 DEF HomeTypes
<1>4. v5' \in Floor /\ DOMAIN v2' = Floor BY <1>1, <1>2 DEF HomeTypes
<1>5. HomeTypes' BY <1>1, <1>3, <1>4, TypesStay
<1>6. PICK id : id = None OBVIOUS
<1>7. Ho!Rebuild(v13, v2'[v5'], v3'[v5'], "turn", id) BY <1>1, <1>6
<1> QED BY <1>1, <1>5, <1>7, RebuildStays

LEMMA HomeDelete ==
  ASSUME HomeInv, Ho!Delete
  PROVE  HomeInv'
<1>1. HomeTypes BY DEF HomeInv
<1>2. v14 = {} /\ UNCHANGED <<v1, v2, v5>> BY DEF Ho!Delete, Ho!Acts
<1>3. CASE UNCHANGED <<v3, Ho!picture>>
  <2>1. UNCHANGED <<v11, v12, v13, v14>> BY <1>3 DEF Ho!picture
  <2> QED BY <1>2, <1>3, <2>1, HomeLooking
<1>4. ASSUME v3' = v3 \/ v3' = [v3 EXCEPT ![Ho!Holder(v7)[1]] = Ho!But(@, v7)],
             Ho!Rebuild(v13, v2[v5], v3'[v5], "nothing", None)
      PROVE  HomeInv'
  <2>1. DOMAIN v3' = Floor
        /\ \A f \in Floor : DOMAIN v3'[f] = DOMAIN v3[f] \/ IsFiniteSet(DOMAIN v3'[f])
    <3>1. CASE v3' = v3 BY <1>1, <3>1 DEF HomeTypes
    <3>2. CASE v3' = [v3 EXCEPT ![Ho!Holder(v7)[1]] = Ho!But(@, v7)]
      <4>1. PICK h, i : h = Ho!Holder(v7)[1] /\ i = v7 OBVIOUS
      <4>2. v3' = [v3 EXCEPT ![h] = Ho!But(@, i)] BY <3>2, <4>1
      <4>3. DOMAIN v3' = Floor /\ \A f \in Floor : v3'[f] = IF f = h THEN Ho!But(v3[f], i) ELSE v3[f]
        BY <1>1, <4>2 DEF HomeTypes
      <4>4. ASSUME NEW f \in Floor, f = h PROVE IsFiniteSet(DOMAIN v3'[f])
        <5>1. v3'[f] = Ho!But(v3[f], i) BY <4>3, <4>4
        <5>2. DOMAIN v3'[f] \subseteq DOMAIN v3[f] BY <5>1 DEF Ho!But
        <5> QED BY <1>1, <5>2, FS_Subset DEF HomeTypes
      <4> QED BY <4>3, <4>4
    <3> QED BY <1>4, <3>1, <3>2
  <2>2. v5' \in Floor /\ DOMAIN v2' = Floor BY <1>1, <1>2 DEF HomeTypes
  <2>3. HomeTypes' BY <1>2, <2>1, <2>2, TypesStay
  <2>4. PICK id : id = None OBVIOUS
  <2>5. Ho!Rebuild(v13, v2'[v5'], v3'[v5'], "nothing", id) BY <1>2, <1>4, <2>4
  <2> QED BY <1>2, <2>3, <2>5, RebuildStays
<1>5. \/ UNCHANGED <<v3, Ho!picture>>
      \/ /\ v3' = v3 \/ v3' = [v3 EXCEPT ![Ho!Holder(v7)[1]] = Ho!But(@, v7)]
         /\ Ho!Rebuild(v13, v2[v5], v3'[v5], "nothing", None)
  <2>1. CASE v7 = None BY <2>1 DEF Ho!Delete
  <2>2. CASE v7 # None
    <3>1. v3' = v3 \/ v3' = [v3 EXCEPT ![Ho!Holder(v7)[1]] = Ho!But(@, v7)]
      BY <2>2 DEF Ho!Delete
    <3>2. Ho!Rebuild(v13, v2[v5], v3'[v5], "nothing", None) BY <2>2 DEF Ho!Delete
    <3> QED BY <3>1, <3>2
  <2> QED BY <2>1, <2>2
<1> QED BY <1>3, <1>4, <1>5

LEMMA HomePointerUp ==
  ASSUME HomeInv, Ho!PointerUp
  PROVE  HomeInv'
<1>1. UNCHANGED <<v1, v2, v3, v5>> BY DEF Ho!PointerUp, Ho!home
<1>2. CASE v8
  <2>1. v14 = {} /\ Ho!Rebuild(v13, v2[v5], v3[v5], "nothing", None)
    BY <1>2 DEF Ho!PointerUp, Ho!Acts
  <2>2. HomeTypes' BY <1>1 DEF HomeInv, HomeTypes
  <2>3. PICK id : id = None OBVIOUS
  <2>4. Ho!Rebuild(v13, v2'[v5'], v3'[v5'], "nothing", id) BY <1>1, <2>1, <2>3
  <2> QED BY <2>1, <2>2, <2>4, RebuildStays
<1>3. CASE ~v8
  <2>1. UNCHANGED <<v11, v12, v13, v14>> BY <1>3 DEF Ho!PointerUp, Ho!picture
  <2> QED BY <1>1, <2>1, HomeLooking
<1> QED BY <1>2, <1>3

LEMMA HomeSetFloor ==
  ASSUME HomeInv, NEW f, Ho!SetFloor(f)
  PROVE  HomeInv'
<1>1. HomeTypes BY DEF HomeInv
<1>2. /\ v14 = {} /\ UNCHANGED <<v1, v2, v3>> /\ v5' = IF f \in Ho!Range(v1) THEN f ELSE v5
      /\ Ho!Rebuild(v13, v2[v5'], v3[v5'], "floor", f)
  BY DEF Ho!SetFloor, Ho!Acts
<1>3. v5' \in Floor
  <2>1. \A i \in DOMAIN v1 : v1[i] \in Floor BY <1>1 DEF HomeTypes
  <2> QED BY <1>1, <1>2, <2>1 DEF HomeTypes, Ho!Range
<1>4. HomeTypes' BY <1>1, <1>2, <1>3 DEF HomeTypes
<1>5. Ho!Rebuild(v13, v2'[v5'], v3'[v5'], "floor", f) BY <1>2
<1> QED BY <1>2, <1>4, <1>5, RebuildStays

LEMMA HomeAddFloor ==
  ASSUME HomeInv, Ho!AddFloor
  PROVE  HomeInv'
<1>1. HomeTypes BY DEF HomeInv
<1>2. PICK f : /\ v14 = {} /\ f \in Floor /\ v1' = Append(v1, f) /\ v5' = f
               /\ Ho!Rebuild(v13, v2[f], v3[f], "floor", f) /\ UNCHANGED <<v2, v3>>
  BY DEF Ho!AddFloor, Ho!Acts
<1>3. v1' \in Seq(Floor) BY <1>1, <1>2 DEF HomeTypes
<1>4. HomeTypes' BY <1>1, <1>2, <1>3 DEF HomeTypes
<1>5. Ho!Rebuild(v13, v2'[v5'], v3'[v5'], "floor", f) BY <1>2
<1> QED BY <1>2, <1>4, <1>5, RebuildStays

LEMMA HomeAskPreset ==
  ASSUME HomeInv, NEW p \in Preset, Ho!AskPreset(p)
  PROVE  HomeInv'
<1>1. PICK t : t = [n |-> 0, left |-> {}, then |-> "preset", id |-> p] OBVIOUS
<1>2. v14 = {} /\ v14' = {t} /\ UNCHANGED <<v1, v2, v3, v5, v11, v12, v13>>
  BY <1>1 DEF Ho!AskPreset, Ho!Acts, Ho!home
<1>3. t.then = "preset" /\ t.id = p /\ HomeTask(t) BY <1>1 DEF HomeTask
<1>4. HomeTypes' /\ Drawing' BY <1>2, <1>3 DEF HomeInv, HomeTypes, Drawing
<1> QED BY <1>2, <1>3, <1>4 DEF HomeInv

LEMMA HomeLoadPreset ==
  ASSUME HomeInv, NEW t \in v14, Ho!LoadPreset(t)
  PROVE  HomeInv'
<1>1. HomeTypes /\ (\A u \in v14 : u = t) /\ t.then = "preset" /\ t.id \in Preset
  BY DEF HomeInv, Ho!LoadPreset
<1>2. PICK p \in Preset : p = t.id BY <1>1
<1>3. /\ DOMAIN p \subseteq Floor /\ IsFiniteSet(DOMAIN p) /\ Floor \subseteq Nat /\ 0 \in Floor
      /\ \A f \in DOMAIN p : p[f] \in Seq(Int)
  BY HomeConstants
<1>4. PICK low : low = CHOOSE f \in {0} \cup DOMAIN p : \A g \in {0} \cup DOMAIN p : f <= g OBVIOUS
<1>5. low \in {0} \cup DOMAIN p
  <2>1. \A g \in {0} \cup DOMAIN p : 0 <= g BY <1>3
  <2> QED BY <1>4, <2>1
<1>6. PICK n : n = v15 + 1 OBVIOUS
<1>7. /\ \E s \in Ho!Upper(p) : v1' = <<0>> \o s
      /\ v2' = [f \in Floor |-> IF f \in DOMAIN p THEN [e \in Edge |-> "wall"] ELSE Ho!Empty]
      /\ v3' = [f \in Floor |-> IF f \in DOMAIN p THEN Ho!Furnished(p[f]) ELSE Ho!Empty]
      /\ v5' = low /\ v11' = DOMAIN v2'[low] /\ v12' = Ho!Cleared(v13) /\ v13' = Ho!Empty
      /\ v14' = (v14 \ {t}) \cup {[n |-> n, left |-> DOMAIN v3'[low], then |-> "loaded", id |-> None]}
  BY <1>2, <1>4, <1>6 DEF Ho!LoadPreset, Ho!Drawn
<1>8. v1' \in Seq(Floor)
  <2>1. PICK s \in Ho!Upper(p) : v1' = <<0>> \o s BY <1>7
  <2>2. IsFiniteSet(DOMAIN p \ {0}) BY <1>3, FS_Subset
  <2>3. PICK k \in Nat : k = Cardinality(DOMAIN p \ {0}) BY <2>2, FS_CardinalityType
  <2>4. s \in [1..k -> DOMAIN p \ {0}]
    <3>1. PICK S : S = DOMAIN p \ {0} OBVIOUS
    <3>2. Ho!Cardinality(S) = k BY <2>3, <3>1, SameSize
    <3> QED BY <2>1, <3>1, <3>2 DEF Ho!Upper
  <2>5. s \in [1..k -> Floor] BY <1>3, <2>4
  <2>6. s \in Seq(Floor) /\ <<0>> \in Seq(Floor) BY <1>3, <2>5
  <2> QED BY <2>1, <2>6
<1>9. ASSUME NEW f \in Floor PROVE IsFiniteSet(DOMAIN v3'[f])
  <2>1. CASE f \in DOMAIN p
    <3>1. PICK s \in Seq(Int) : s = p[f] BY <1>3, <2>1
    <3>2. DOMAIN v3'[f] = 1..Len(s) BY <1>7, <2>1, <3>1 DEF Ho!Furnished
    <3>3. Len(s) \in Nat OBVIOUS
    <3> QED BY <3>2, <3>3, FS_Interval
  <2>2. CASE f \notin DOMAIN p
    <3>1. DOMAIN v3'[f] = {} BY <1>7, <2>2 DEF Ho!Empty
    <3> QED BY <3>1, FS_EmptySet
  <2> QED BY <2>1, <2>2
<1>10. HomeTypes'
  <2>1. DOMAIN v2' = Floor /\ DOMAIN v3' = Floor /\ v5' \in Floor BY <1>3, <1>5, <1>7
  <2> QED BY <1>8, <1>9, <2>1 DEF HomeTypes
<1>11. PICK id : id = None OBVIOUS
<1>12. v14' = {[n |-> n, left |-> DOMAIN v3'[v5'], then |-> "loaded", id |-> id]}
  BY <1>1, <1>7, <1>11
<1>13. v11' = DOMAIN v2'[v5'] BY <1>7
<1> QED BY <1>7, <1>10, <1>12, <1>13, HomeRebuilt

LEMMA HomeStep == HomeInv /\ [Ho!Next]_(Ho!vars) => HomeInv'
<1> SUFFICES ASSUME HomeInv, [Ho!Next]_(Ho!vars) PROVE HomeInv' OBVIOUS
<1>1. CASE \E t \in v14 : Ho!Complete(t) \/ Ho!LoadPreset(t) \/ \E i \in t.left : Ho!Loaded(t, i)
  BY <1>1, HomeComplete, HomeLoadPreset, HomeLoaded
<1>2. CASE \E e \in Edge : Ho!StartWall(e) \/ Ho!DragWall(e) \/ Ho!Open(e)
  BY <1>2, HomeWalls
<1>3. CASE \E x \in Spot : Ho!Place(x) \/ Ho!Drag(x) BY <1>3, HomePlace, HomeDrag
<1>4. CASE Ho!PointerUp \/ Ho!Delete \/ Ho!AddFloor
  BY <1>4, HomePointerUp, HomeDelete, HomeAddFloor
<1>5. CASE Ho!Turn(1) \/ Ho!Turn(4) BY <1>5, HomeTurn
<1>6. CASE \E f \in v18 : Ho!SetFloor(f) BY <1>6, HomeSetFloor
<1>7. CASE \E p \in Preset : Ho!AskPreset(p) BY <1>7, HomeAskPreset
<1>8. CASE \/ \E x \in {"wall", "furniture"} \cup DOMAIN Width : Ho!PickTool(x)
           \/ \E m \in v12 : Ho!Pick(m)
           \/ Ho!PickNothing \/ UNCHANGED Ho!vars
  <2>1. UNCHANGED <<v1, v2, v3, v5, v11, v12, v13, v14>>
    BY <1>8 DEF Ho!PickTool, Ho!Pick, Ho!PickNothing, Ho!vars, Ho!home, Ho!picture
  <2> QED BY <2>1, HomeLooking
<1> QED BY <1>1, <1>2, <1>3, <1>4, <1>5, <1>6, <1>7, <1>8 DEF Ho!Next

LEMMA HomeIsShown == HomeInv => Ho!SceneShowsFloor
<1> SUFFICES ASSUME HomeInv, v14 = {}
             PROVE  /\ v11 = DOMAIN v2[v5]
                    /\ {m[1] : m \in v12} = DOMAIN v3[v5]
                    /\ Ho!Cardinality(v12) = Ho!Cardinality(DOMAIN v3[v5])
  BY DEF Ho!SceneShowsFloor
<1>1. PICK D : D = DOMAIN v3[v5] OBVIOUS
<1>2. /\ v11 = DOMAIN v2[v5] /\ DOMAIN v13 = D /\ IsFiniteSet(D)
      /\ \A m : m \in v12 <=> \E i \in D : m = v13[i]
      /\ \A i \in D : v13[i][1] = i
  BY <1>1 DEF HomeInv, HomeTypes, Drawing
<1>3. {m[1] : m \in v12} = D BY <1>2
<1>4. PICK f : f = [i \in D |-> v13[i]] OBVIOUS
<1>5. PICK S : S = v12 OBVIOUS
<1>6. f \in Bijection(D, S)
  <2>1. f \in [D -> S] BY <1>2, <1>4, <1>5
  <2>2. \A i, j \in D : f[i] = f[j] => i = j BY <1>2, <1>4
  <2>3. \A m \in S : \E i \in D : f[i] = m BY <1>2, <1>4, <1>5
  <2> QED BY <2>1, <2>2, <2>3 DEF Bijection, Injection, Surjection, IsInjective
<1>7. Cardinality(S) = Cardinality(D)
  <2>1. ExistsBijection(D, S) BY <1>6 DEF ExistsBijection
  <2> QED BY <1>2, <2>1, FS_Bijection
<1>8. Ho!Cardinality(S) = Ho!Cardinality(D) BY <1>7, SameSize
<1> QED BY <1>1, <1>2, <1>3, <1>5, <1>8

-----------------------------------------------------------------------------
PlansInv == (Is("planner") => PlanInv) /\ (Is("home") => HomeInv)

\* A plan stays whole over any edits, undone and redone: parents and children agree
\* and the cells of a container are those of its children.  When nothing is being
\* loaded, the scene of the home planner shows the floor that is edited, its walls and
\* every piece of it once (hortplanner/static/js/engine.js, engine-home.js).
THEOREM PlansAreWhole == Spec => []PlansWhole
<1>1. Init => PlansInv BY PlannerOnly, HomeOnly, PlanInit, HomeInit DEF PlansInv
<1>2. PlansInv /\ [Next]_all => PlansInv'
  <2> SUFFICES ASSUME PlansInv, [Next]_all PROVE PlansInv' OBVIOUS
  <2>1. part' = part BY PartStays
  <2>2. CASE Is("planner")
    <3>1. ~Is("home") /\ Is("planner")' /\ ~Is("home")' BY <2>1, <2>2 DEF Is
    <3> QED BY <2>2, <3>1, PlannerOnly, PlanStep DEF PlansInv
  <2>3. CASE Is("home")
    <3>1. ~Is("planner") /\ Is("home")' /\ ~Is("planner")' BY <2>1, <2>3 DEF Is
    <3> QED BY <2>3, <3>1, HomeOnly, HomeStep DEF PlansInv
  <2>4. CASE ~Is("planner") /\ ~Is("home") BY <2>1, <2>4 DEF PlansInv, Is
  <2> QED BY <2>2, <2>3, <2>4
<1>3. PlansInv => PlansWhole BY PlanIsWhole, HomeIsShown DEF PlansInv, PlansWhole
<1> QED BY <1>1, <1>2, <1>3, PTL DEF Spec

-----------------------------------------------------------------------------
(* The shape of the state: scrolls                                         *)

\* What a find keeps for the write that follows it, and a row.
Count == 0..MaxCount
LEMMA ScrollCounts ==
  /\ MaxCount \in Nat /\ 0 \in Count
  /\ \A n \in Count : (IF n < MaxCount THEN n + 1 ELSE 0) \in Count
<1>1. MaxCount \in Nat BY MCStoresAssumption DEF Sc!ScrollsAssumption
<1> QED BY <1>1 DEF Count

ScrollOp == {"update", "renew", "delete"}
ScrollFound == [op : ScrollOp, doc : Doc, n : Count]
ScrollRow == [n : Count, ends : Ends]

ScrollsTypes ==
  /\ v1 \in [Doc -> ScrollRow \cup {None}] /\ v2 \subseteq Doc /\ v3 \in Process \cup {None}
  /\ v4 \in [Process -> {Sc!Idle} \cup ScrollFound]
  /\ v5 \in [Process -> {"sleep", "round", "stopping", "gone"}]
  /\ v6 \in [Process -> SUBSET Doc] /\ v7 \in [Process -> SUBSET Doc]
  /\ v8 \in [Process -> {"ok", "not matched", "locked"}]

LEMMA ScrollsInit == Sc!Init => ScrollsTypes
BY DEF Sc!Init, ScrollsTypes

LEMMA ScrollsTyped == ScrollsTypes /\ [Sc!Next]_(Sc!vars) => ScrollsTypes'
<1> SUFFICES ASSUME ScrollsTypes, [Sc!Next]_(Sc!vars) PROVE ScrollsTypes' OBVIOUS
<1> USE DEF ScrollsTypes, Sc!collector
<1>0. MaxCount \in Nat /\ 0 \in Count BY ScrollCounts
<1>1. ASSUME NEW p \in Process, NEW d \in Doc, Sc!Insert(p, d) PROVE ScrollsTypes'
  <2>1. PICK e \in Ends : v1' = [v1 EXCEPT ![d] = [n |-> 0, ends |-> e]]
    BY <1>1 DEF Sc!Insert, Ends
  <2>2. [n |-> 0, ends |-> e] \in ScrollRow BY <1>0 DEF ScrollRow
  <2>3. v4' = [v4 EXCEPT ![p] = Sc!Idle] /\ v8' = [v8 EXCEPT ![p] = "ok"]
    BY <1>1 DEF Sc!Insert, Sc!Writes
  <2> QED BY <1>1, <2>1, <2>2, <2>3 DEF Sc!Insert
<1>2. ASSUME NEW p \in Process, NEW d \in Doc, Sc!Find(p, d) PROVE ScrollsTypes'
  <2>1. CASE Sc!Seen(d)
    <3>1. v1[d] \in ScrollRow BY <2>1 DEF Sc!Seen
    <3>2. PICK op \in ScrollOp :
            v4' = [v4 EXCEPT ![p] = [op |-> op, doc |-> d, n |-> v1[d].n]]
      BY <1>2, <2>1 DEF Sc!Find, ScrollOp
    <3>3. [op |-> op, doc |-> d, n |-> v1[d].n] \in ScrollFound
      BY <3>1 DEF ScrollRow, ScrollFound
    <3> QED BY <1>2, <2>1, <3>2, <3>3 DEF Sc!Find
  <2>2. CASE ~Sc!Seen(d) BY <1>2, <2>2 DEF Sc!Find
  <2> QED BY <2>1, <2>2
<1>3. ASSUME NEW p \in Process, Sc!Update(p) PROVE ScrollsTypes'
  <2>0. v4[p] # Sc!Idle
    <3>1. v4[p].op \in {"update", "renew"} BY <1>3 DEF Sc!Update
    <3>2. Sc!Idle.op = "idle" BY DEF Sc!Idle
    <3> QED BY <3>1, <3>2
  <2>1. v4[p] \in ScrollFound BY <2>0
  <2>2. v4[p].doc \in Doc /\ v4[p].n \in Count BY <2>1 DEF ScrollFound
  <2>3. (IF v4[p].n < MaxCount THEN v4[p].n + 1 ELSE 0) \in Count BY ScrollCounts, <2>2
  <2> DEFINE e == IF v4[p].op = "renew" THEN "later"
                  ELSE IF v1[v4[p].doc] = None THEN "never" ELSE v1[v4[p].doc].ends
  <2>4. PICK n \in Count : v1' = Sc!Changed(v4[p].doc, n, e)
    BY <1>3, <2>3 DEF Sc!Update
  <2>5. e \in Ends BY <2>2, <2>4 DEF ScrollRow, Ends
  <2>6. [n |-> n, ends |-> e] \in ScrollRow BY <2>5 DEF ScrollRow
  <2>7. v1' \in [Doc -> ScrollRow \cup {None}] BY <2>2, <2>4, <2>6 DEF Sc!Changed
  <2> QED BY <1>3, <2>7 DEF Sc!Update, Sc!Writes
<1>4. ASSUME NEW p \in Process, Sc!Delete(p) PROVE ScrollsTypes'
  BY <1>4 DEF Sc!Delete, Sc!Writes
<1>5. ASSUME NEW p \in Process, NEW d \in Doc, Sc!DeleteAll(p, d) PROVE ScrollsTypes'
  BY <1>5 DEF Sc!DeleteAll, Sc!Writes
<1>6. ASSUME NEW p \in Process, Sc!Refused(p) PROVE ScrollsTypes'
  BY <1>6 DEF Sc!Refused
<1>7. ASSUME NEW d \in Doc, Sc!Expire(d) PROVE ScrollsTypes'
  <2>1. v1[d] \in ScrollRow BY <1>7 DEF Sc!Expire
  <2>2. [v1[d] EXCEPT !.ends = "over"] \in ScrollRow BY <2>1 DEF ScrollRow, Ends
  <2>3. v1' = [v1 EXCEPT ![d] = [v1[d] EXCEPT !.ends = "over"]] BY <1>7 DEF Sc!Expire
  <2> QED BY <1>7, <2>2, <2>3 DEF Sc!Expire
<1>8. ASSUME NEW p \in Process, Sc!GcWakes(p) PROVE ScrollsTypes'
  BY <1>8 DEF Sc!GcWakes
<1>9. ASSUME NEW p \in Process, NEW d \in Doc, Sc!GcDeletes(p, d) PROVE ScrollsTypes'
  <2>1. v6' \in [Process -> SUBSET Doc] BY <1>9 DEF Sc!GcDeletes
  <2>2. v3' \in Process \cup {None} /\ v7' \in [Process -> SUBSET Doc]
    <3>1. {x \in {d} : v1[x] # None /\ v1[x].ends = "over"} \subseteq Doc OBVIOUS
    <3> QED BY <1>9, <3>1 DEF Sc!GcDeletes
  <2> QED BY <1>9, <2>1, <2>2 DEF Sc!GcDeletes
<1>10. ASSUME NEW p \in Process, Sc!GcEnds(p) PROVE ScrollsTypes'
  BY <1>10 DEF Sc!GcEnds
<1>11. ASSUME NEW p \in Process, Sc!Close(p) \/ Sc!GcExits(p) \/ Sc!Crash(p) PROVE ScrollsTypes'
  BY <1>11 DEF Sc!Close, Sc!GcExits, Sc!Crash, Sc!Unlocked
<1>12. CASE UNCHANGED Sc!vars BY <1>12 DEF Sc!vars
<1> QED
  BY <1>1, <1>2, <1>3, <1>4, <1>5, <1>6, <1>7, <1>8, <1>9, <1>10, <1>11, <1>12 DEF Sc!Next

LEMMA ScrollsShape == ScrollsTypes => Sc!ScrollsTypeOK
<1> SUFFICES ASSUME ScrollsTypes PROVE Sc!ScrollsTypeOK OBVIOUS
<1>1. \A d \in Doc : v1[d] # None => v1[d].n \in Count /\ v1[d].ends \in Ends
  BY DEF ScrollsTypes, ScrollRow
<1>2. \A p \in Process : v4[p].op \in {"idle", "update", "renew", "delete"}
  <2>1. SUFFICES ASSUME NEW p \in Process
                 PROVE  v4[p].op \in {"idle", "update", "renew", "delete"}
    OBVIOUS
  <2>2. v4[p] = Sc!Idle \/ v4[p] \in ScrollFound BY DEF ScrollsTypes
  <2>3. v4[p] \in ScrollFound => v4[p].op \in ScrollOp BY DEF ScrollFound
  <2> QED BY <2>2, <2>3 DEF Sc!Idle, ScrollOp
<1> QED BY <1>1, <1>2 DEF ScrollsTypes, Sc!ScrollsTypeOK, Ends, Count

-----------------------------------------------------------------------------
(* The shape of the state: crates                                          *)

Putting == {"opens", "writes", "records"}

CratesBounds ==
  /\ v3 <= MaxVersion
  /\ \A n \in Crate : v2[n] # None => v2[n].ver >= 1
  /\ v5 \subseteq Crate \X (1..v3) /\ v6 \subseteq {x[1] : x \in v5}
  /\ \A t \in Owner \cup Reader : v4[t].at \in Putting => v4[t].ver >= 1

LEMMA CratesBoundsInit == Cr!Init => CratesBounds
<1> SUFFICES ASSUME Cr!Init PROVE CratesBounds OBVIOUS
<1>1. MaxVersion \in Nat BY MCStoresAssumption DEF Cr!CratesAssumption
<1>2. Cr!Idle.at \notin Putting BY DEF Cr!Idle, Putting
<1> QED BY <1>1, <1>2 DEF Cr!Init, CratesBounds

\* Rows keep what they describe or go, puts go on with what they began with.
LEMMA CratesBoundsStay ==
  ASSUME CratesBounds, v3' = v3, v5' = v5, v6' \subseteq v6,
         \A n \in Crate : v2'[n] = None \/ (v2[n] # None /\ v2'[n].ver = v2[n].ver),
         \A t \in Owner \cup Reader :
           v4'[t].at \in Putting => v4[t].at \in Putting /\ v4'[t].ver = v4[t].ver
  PROVE  CratesBounds'
BY DEF CratesBounds

LEMMA CratesBounded ==
  ASSUME CratesInv, CratesBounds, [Cr!Next]_(Cr!vars)
  PROVE  CratesBounds'
<1>1. /\ v3 \in Nat /\ v2 \in [Crate -> CrateRow \cup {None}]
      /\ v4 \in [Owner \cup Reader -> CrateJob]
      /\ \A t \in Owner \cup Reader : JobBacked(t)
  BY DEF CratesInv, CratesTypes
<1>2. MaxVersion \in Nat BY MCStoresAssumption DEF Cr!CratesAssumption
\* A call that ends, goes on to a step that writes nothing, or begins with one.
<1>3. ASSUME NEW t \in Owner \cup Reader, NEW j, v4' = [v4 EXCEPT ![t] = j],
             j.at \notin Putting, v3' = v3, v5' = v5, v6' = v6,
             v2' = v2 \/ \E n \in Crate : v2' = [v2 EXCEPT ![n] = None]
      PROVE  CratesBounds'
  <2>1. \A u \in Owner \cup Reader :
          v4'[u].at \in Putting => v4[u].at \in Putting /\ v4'[u].ver = v4[u].ver
    BY <1>1, <1>3
  <2>2. \A n \in Crate : v2'[n] = None \/ v2'[n] = v2[n] BY <1>1, <1>3
  <2> QED BY <1>3, <2>1, <2>2, CratesBoundsStay
<1>4. Cr!Idle.at \notin Putting BY DEF Cr!Idle, Putting
<1>5. ASSUME NEW t \in Owner \cup Reader, NEW at \in CrateAt \ Putting
      PROVE  [v4[t] EXCEPT !.at = at].at \notin Putting
  BY <1>1 DEF CrateJob
<1>6. ASSUME NEW t \in Owner \cup Reader, NEW at \in CrateAt \ Putting, NEW n, NEW v, NEW e,
             Cr!Begins(t, at, n, v, e)
      PROVE  \E j : v4' = [v4 EXCEPT ![t] = j] /\ j.at \notin Putting
  <2> DEFINE j == [at |-> at, name |-> n, ver |-> v, ends |-> e]
  <2>1. j.at \notin Putting OBVIOUS
  <2>2. v4' = [v4 EXCEPT ![t] = j] BY <1>6 DEF Cr!Begins
  <2> QED BY <2>1, <2>2
<1>7. ASSUME NEW o \in Owner, NEW n \in Crate, Cr!BeginPut(o, n) PROVE CratesBounds'
  <2>1. v3' = v3 + 1 /\ v3' <= MaxVersion /\ UNCHANGED <<v1, v2, v5, v6, v7>>
    BY <1>1, <1>2, <1>7 DEF Cr!BeginPut, Cr!collector
  <2>2. PICK e : v4' = [v4 EXCEPT ![o] =
                          [at |-> Cr!Stage[1], name |-> n, ver |-> v3', ends |-> e]]
    BY <1>7 DEF Cr!BeginPut, Cr!Begins
  <2>3. \A u \in Owner \cup Reader : u # o => v4'[u] = v4[u] BY <1>1, <2>2
  <2>4. v4'[o].ver = v3' BY <1>1, <2>2
  <2>5. v5' \subseteq Crate \X (1..v3')
    <3>1. 1..v3 \subseteq 1..v3' BY <1>1, <2>1
    <3> QED BY <2>1, <3>1 DEF CratesBounds
  <2>6. v3' >= 1 BY <1>1, <2>1
  <2> QED BY <2>1, <2>3, <2>4, <2>5, <2>6 DEF CratesBounds
<1>8. ASSUME NEW o \in Owner, Cr!Puts(o) PROVE CratesBounds'
  <2>1. UNCHANGED <<v3, v5, v6>> BY <1>8 DEF Cr!Puts, Cr!collector
  <2>2. v4[o].at \in Putting /\ v4[o].ver >= 1 BY <1>8 DEF Cr!Puts, Putting, CratesBounds
  <2>3. v4[o] \in CrateJob /\ v4[o].name \in Crate
    BY <1>1, <2>2 DEF JobBacked, Putting
  <2>4. \A u \in Owner \cup Reader :
          v4'[u].at \in Putting => v4[u].at \in Putting /\ v4'[u].ver = v4[u].ver
    <3>1. ASSUME NEW at, v4' = [v4 EXCEPT ![o].at = at]
          PROVE  v4'[o].ver = v4[o].ver /\ \A u \in Owner \cup Reader : u # o => v4'[u] = v4[u]
      BY <1>1, <2>3, <3>1 DEF CrateJob
    <3>2. (\E at : v4' = [v4 EXCEPT ![o].at = at]) \/ v4' = [v4 EXCEPT ![o] = Cr!Idle]
      BY <1>8 DEF Cr!Puts, Cr!Goes, Cr!Returns
    <3> QED BY <1>1, <1>4, <2>2, <3>1, <3>2
  <2>5. CASE v2' = v2 BY <2>1, <2>4, <2>5, CratesBoundsStay
  <2>6. CASE v2' # v2
    <3>1. v2' = [v2 EXCEPT ![v4[o].name] = [ver |-> v4[o].ver, ends |-> v4[o].ends]]
      BY <1>8, <2>6 DEF Cr!Puts, Cr!Tells
    <3>2. \A n \in Crate : v2'[n] # None => v2'[n].ver >= 1
      BY <1>1, <2>2, <3>1 DEF CratesBounds
    <3> QED BY <2>1, <2>2, <2>4, <3>2 DEF CratesBounds
  <2> QED BY <2>5, <2>6
<1>9. ASSUME NEW o \in Owner, NEW n \in Crate, Cr!BeginDelete(o, n) PROVE CratesBounds'
  <2>1. "unlinks" \in CrateAt \ Putting BY DEF CrateAt, Putting
  <2> QED BY <1>3, <1>6, <1>9, <2>1 DEF Cr!BeginDelete, Cr!collector
<1>10. ASSUME NEW o \in Owner, Cr!Deletes(o) PROVE CratesBounds'
  <2>1. CASE v4[o].at = "unlinks"
    <3>1. "forgets" \in CrateAt \ Putting BY DEF CrateAt, Putting
    <3>2. v4' = [v4 EXCEPT ![o] = [v4[o] EXCEPT !.at = "forgets"]] /\ UNCHANGED <<v2, v3, v5, v6>>
      BY <1>10, <2>1 DEF Cr!Deletes, Cr!Goes, Cr!collector
    <3> QED BY <1>3, <1>5, <3>1, <3>2
  <2>2. CASE v4[o].at = "forgets"
    <3>1. v4[o].name \in Crate BY <1>1, <2>2 DEF JobBacked
    <3> QED BY <1>3, <1>4, <1>10, <2>2, <3>1 DEF Cr!Deletes, Cr!Tells, Cr!Returns, Cr!collector
  <2> QED BY <1>10, <2>1, <2>2 DEF Cr!Deletes
<1>11. ASSUME NEW r \in Reader, NEW n \in Crate, Cr!Looks(r, n) PROVE CratesBounds'
  <2>1. CASE Cr!Live(n)
    <3>1. "reads" \in CrateAt \ Putting BY DEF CrateAt, Putting
    <3> QED BY <1>3, <1>6, <1>11, <2>1, <3>1 DEF Cr!Looks, Cr!collector
  <2>2. CASE ~Cr!Live(n)
    <3>1. UNCHANGED <<v2, v3, v4, v5, v6>> BY <1>11, <2>2 DEF Cr!Looks, Cr!collector
    <3> QED BY <3>1 DEF CratesBounds
  <2> QED BY <2>1, <2>2
<1>12. ASSUME NEW r \in Reader, Cr!Reads(r) PROVE CratesBounds'
  <2>1. UNCHANGED <<v2, v3, v5, v6>> BY <1>12 DEF Cr!Reads, Cr!collector
  <2>2. CASE v4' = [v4 EXCEPT ![r] = Cr!Idle] BY <1>3, <1>4, <2>1, <2>2
  <2>3. CASE v4' = [v4 EXCEPT ![r].at = "cleans"]
    <3>1. "cleans" \in CrateAt \ Putting BY DEF CrateAt, Putting
    <3> QED BY <1>3, <1>5, <2>1, <2>3, <3>1
  <2> QED BY <1>12, <2>2, <2>3 DEF Cr!Reads, Cr!Goes, Cr!Returns
<1>13. ASSUME NEW r \in Reader, Cr!Cleans(r) PROVE CratesBounds'
  <2>1. v4[r].name \in Crate BY <1>1, <1>13 DEF Cr!Cleans, JobBacked
  <2> QED BY <1>3, <1>4, <1>13, <2>1 DEF Cr!Cleans, Cr!Tells, Cr!Returns, Cr!collector
<1>14. ASSUME NEW o \in Owner, Cr!Fails(o) PROVE CratesBounds'
  BY <1>3, <1>4, <1>14 DEF Cr!Fails, Cr!Returns, Cr!collector
<1>15. ASSUME NEW n \in Crate, Cr!Expire(n) PROVE CratesBounds'
  <2>1. v2[n] \in CrateRow BY <1>1, <1>15 DEF Cr!Expire
  <2>2. [v2[n] EXCEPT !.ends = "over"].ver = v2[n].ver BY <2>1, CrateRecords DEF Ends
  <2>3. \A m \in Crate : v2'[m] = v2[m] \/ (v2[m] # None /\ v2'[m].ver = v2[m].ver)
    BY <1>1, <1>15, <2>2 DEF Cr!Expire, Cr!Tells
  <2>4. UNCHANGED <<v3, v4, v5, v6>> BY <1>15 DEF Cr!Expire, Cr!collector
  <2> QED BY <2>3, <2>4, CratesBoundsStay
<1>16. CASE Cr!GcSelects
  <2>1. \A n \in Cr!Expired : v2[n] \in CrateRow /\ n \in Crate /\ v2[n].ver >= 1
    BY <1>1 DEF Cr!Expired, CratesBounds
  <2>2. \A n \in Cr!Expired : v2[n].ver \in 1..v3
    <3>1. \A n \in Cr!Expired : v2[n].ver <= v3 BY DEF CratesInv, RowsBacked, Cr!Expired
    <3> QED BY <1>1, <2>1, <3>1 DEF CrateRow
  <2>3. v5' = {<<n, v2[n].ver>> : n \in Cr!Expired} /\ v6' = Cr!Expired
        /\ UNCHANGED <<v2, v3, v4>>
    BY <1>16 DEF Cr!GcSelects
  <2>4. v5' \subseteq Crate \X (1..v3) BY <2>1, <2>2, <2>3
  <2>5. v6' \subseteq {x[1] : x \in v5'}
    <3>1. ASSUME NEW n \in Cr!Expired PROVE n \in {x[1] : x \in v5'}
      <4>1. <<n, v2[n].ver>> \in v5' BY <2>3
      <4>2. <<n, v2[n].ver>>[1] = n OBVIOUS
      <4> QED BY <4>1, <4>2, Zenon
    <3> QED BY <2>3, <3>1
  <2> QED BY <2>3, <2>4, <2>5 DEF CratesBounds
<1>17. ASSUME NEW n \in Crate, Cr!GcUnlinks(n) PROVE CratesBounds'
  <2>1. UNCHANGED <<v2, v3, v4, v5>> /\ v6' \subseteq v6 BY <1>17 DEF Cr!GcUnlinks
  <2> QED BY <2>1 DEF CratesBounds
<1>18. CASE Cr!GcForgets
  <2>1. \A n \in Crate : v2'[n] = None \/ v2'[n] = v2[n] BY <1>18 DEF Cr!GcForgets
  <2>2. v5' = {} /\ v6' = {} /\ UNCHANGED <<v3, v4>> BY <1>18 DEF Cr!GcForgets
  <2> QED BY <2>1, <2>2 DEF CratesBounds
<1>19. CASE UNCHANGED Cr!vars BY <1>19 DEF Cr!vars, CratesBounds
<1> QED
  BY <1>7, <1>8, <1>9, <1>10, <1>11, <1>12, <1>13, <1>14, <1>15, <1>16, <1>17, <1>18, <1>19
  DEF Cr!Next

LEMMA CratesShape == CratesInv /\ CratesBounds => Cr!CratesTypeOK
<1> SUFFICES ASSUME CratesInv, CratesBounds PROVE Cr!CratesTypeOK OBVIOUS
<1>1. CratesTypes /\ RowsBacked BY DEF CratesInv
<1>2. v3 \in 0..MaxVersion
  <2>1. MaxVersion \in Nat BY MCStoresAssumption DEF Cr!CratesAssumption
  <2> QED BY <1>1, <2>1 DEF CratesTypes, CratesBounds
<1>3. \A f \in Cr!Path : v1[f] # None => v1[f] \in 0..v3 BY <1>1 DEF CratesTypes, RowsBacked
<1>4. \A n \in Crate : v2[n] # None => v2[n].ver \in 1..v3 /\ v2[n].ends \in Ends
  <2>1. \A n \in Crate : v2[n] # None => v2[n].ver \in Nat /\ v2[n].ends \in Ends
    BY <1>1 DEF CratesTypes, CrateRow
  <2> QED BY <1>1, <2>1 DEF CratesTypes, RowsBacked, CratesBounds
<1>5. \A t \in Owner \cup Reader : v4[t].at \in CrateAt BY <1>1 DEF CratesTypes, CrateJob
<1> QED BY <1>2, <1>3, <1>4, <1>5 DEF Cr!CratesTypeOK, CratesBounds, Ends, CrateAt

-----------------------------------------------------------------------------
(* The shape of the state: blobs                                           *)

BlobsBounds ==
  /\ v3 <= MaxVersion /\ v7 \in 0..MaxKills
  /\ \A k \in Key : v1[k] # None => v1[k] <= v3
  /\ v2 \in [Key -> {None, "never", "later", "over"}]
  /\ \A t \in Executor : v4[t].ver <= v3

LEMMA BlobsBoundsInit == Bl!Init => BlobsBounds
<1> SUFFICES ASSUME Bl!Init PROVE BlobsBounds OBVIOUS
<1>1. MaxVersion \in Nat /\ MaxKills \in Nat BY MCStoresAssumption DEF Bl!BlobsAssumption
<1>2. Bl!Idle.ver = 0 BY DEF Bl!Idle
<1> QED BY <1>1, <1>2 DEF Bl!Init, BlobsBounds

LEMMA BlobWith ==
  ASSUME NEW t, NEW at, NEW k, NEW v, NEW e, NEW then, Bl!Begins(t, at, k, v, e, then)
  PROVE  \E j : v4' = [v4 EXCEPT ![t] = j] /\ j.ver = v
<1> DEFINE j == [at |-> at, key |-> k, ver |-> v, ends |-> e, then |-> then]
<1>1. j.ver = v OBVIOUS
<1>2. v4' = [v4 EXCEPT ![t] = j] BY DEF Bl!Begins
<1> HIDE DEF j
<1> QED BY <1>1, <1>2

LEMMA BlobsBounded ==
  ASSUME BlobsInv, BlobsBounds, [Bl!Next]_(Bl!vars)
  PROVE  BlobsBounds'
<1>1. /\ v1 \in [Key -> Nat \cup {None}] /\ v3 \in Nat /\ v4 \in [Executor -> BlobJob]
  BY DEF BlobsInv, BlobsTypes
<1>2. MaxVersion \in Nat /\ MaxKills \in Nat BY MCStoresAssumption DEF Bl!BlobsAssumption
\* A call ends, goes on, or begins with something else than a put.
<1>3. ASSUME NEW t \in Executor, NEW j, v4' = [v4 EXCEPT ![t] = j], j.ver <= v3,
             v3' = v3, v7' \in 0..MaxKills,
             \A k \in Key : v1'[k] \in {v1[k], None, v4[t].ver},
             v2' \in [Key -> {None, "never", "later", "over"}]
      PROVE  BlobsBounds'
  BY <1>1, <1>3 DEF BlobsBounds
<1>4. ASSUME NEW t \in Executor, NEW at
      PROVE  [v4[t] EXCEPT !.at = at].ver <= v3
  BY <1>1 DEF BlobJob, BlobsBounds
<1>5. Bl!Idle.ver <= v3 BY <1>1 DEF Bl!Idle
<1>6. ASSUME NEW t \in Executor, NEW k \in Key, Bl!BeginPut(t, k) PROVE BlobsBounds'
  <2>1. v3' = v3 + 1 /\ v3' <= MaxVersion /\ UNCHANGED <<v1, v2, v7>>
    BY <1>1, <1>2, <1>6 DEF Bl!BeginPut
  <2>2. PICK j : v4' = [v4 EXCEPT ![t] = j] /\ j.ver = v3'
    <3>1. PICK e : Bl!Begins(t, "writes", k, v3', e, "idle") BY <1>6 DEF Bl!BeginPut
    <3> QED BY <3>1, BlobWith
  <2> QED BY <1>1, <2>1, <2>2 DEF BlobsBounds, BlobJob
<1>7. ASSUME NEW t \in Executor, Bl!Opens(t) PROVE BlobsBounds'
  <2>1. v4' = [v4 EXCEPT ![t] = [v4[t] EXCEPT !.at = "replaces"]] /\ UNCHANGED <<v1, v2, v3, v7>>
    BY <1>7 DEF Bl!Opens, Bl!Goes, Bl!Opened
  <2> QED BY <1>3, <1>4, <2>1 DEF BlobsBounds
<1>8. ASSUME NEW t \in Executor, Bl!Replaces(t) PROVE BlobsBounds'
  <2>1. /\ v4' = [v4 EXCEPT ![t] = [v4[t] EXCEPT !.at = "records"]]
        /\ v1' = [v1 EXCEPT ![v4[t].key] = v4[t].ver] /\ UNCHANGED <<v2, v3, v7>>
    BY <1>8 DEF Bl!Replaces, Bl!Goes
  <2>2. \A k \in Key : v1'[k] \in {v1[k], None, v4[t].ver} BY <1>1, <2>1
  <2> QED BY <1>3, <1>4, <2>1, <2>2 DEF BlobsBounds
<1>9. ASSUME NEW t \in Executor, Bl!Records(t) PROVE BlobsBounds'
  <2>1. /\ v4' = [v4 EXCEPT ![t] = Bl!Idle] /\ UNCHANGED <<v1, v3, v7>>
        /\ v2' = [v2 EXCEPT ![v4[t].key] = v4[t].ends]
    BY <1>9 DEF Bl!Records, Bl!Returns
  <2>2. v4[t].ends \in {"never", "later"} BY <1>1 DEF BlobJob
  <2>3. v2' \in [Key -> {None, "never", "later", "over"}] BY <2>1, <2>2 DEF BlobsBounds
  <2> QED BY <1>3, <1>5, <2>1, <2>3 DEF BlobsBounds
<1>10. ASSUME NEW t \in Executor, NEW at, NEW k, NEW e, NEW then, Bl!Begins(t, at, k, 0, e, then),
              UNCHANGED <<v1, v2, v3, v7>>
       PROVE  BlobsBounds'
  <2>1. PICK j : v4' = [v4 EXCEPT ![t] = j] /\ j.ver = 0 BY <1>10, BlobWith
  <2> QED BY <1>1, <1>3, <1>10, <2>1 DEF BlobsBounds
<1>11. ASSUME NEW t \in Executor, NEW k \in Key, Bl!Looks(t, k) PROVE BlobsBounds'
  <2>1. CASE v4' = v4 BY <1>11, <2>1 DEF Bl!Looks, BlobsBounds
  <2> QED BY <1>10, <1>11, <2>1 DEF Bl!Looks
<1>12. ASSUME NEW t \in Executor, NEW k \in Key, Bl!BeginDelete(t, k) \/ Bl!Cleans(t, k)
       PROVE  BlobsBounds'
  BY <1>10, <1>12 DEF Bl!BeginDelete, Bl!Cleans
<1>13. ASSUME NEW t \in Executor, Bl!Reads(t) PROVE BlobsBounds'
  <2>1. v4' = [v4 EXCEPT ![t] = Bl!Idle] /\ UNCHANGED <<v1, v2, v3, v7>>
    BY <1>13 DEF Bl!Reads, Bl!Returns
  <2> QED BY <1>3, <1>5, <2>1 DEF BlobsBounds
<1>14. ASSUME NEW t \in Executor, Bl!Unlinks(t) PROVE BlobsBounds'
  <2>1. /\ v4' = [v4 EXCEPT ![t] = [v4[t] EXCEPT !.at = "forgets"]]
        /\ v1' = [v1 EXCEPT ![v4[t].key] = None] /\ UNCHANGED <<v2, v3, v7>>
    BY <1>14 DEF Bl!Unlinks, Bl!Goes
  <2>2. \A k \in Key : v1'[k] \in {v1[k], None, v4[t].ver} BY <1>1, <2>1
  <2> QED BY <1>3, <1>4, <2>1, <2>2 DEF BlobsBounds
<1>15. ASSUME NEW t \in Executor, Bl!Forgets(t) PROVE BlobsBounds'
  <2>1. /\ v4' = [v4 EXCEPT ![t] = Bl!Idle] /\ UNCHANGED <<v1, v3, v7>>
        /\ v2' = [v2 EXCEPT ![v4[t].key] = None]
    BY <1>15 DEF Bl!Forgets, Bl!Returns
  <2>2. v2' \in [Key -> {None, "never", "later", "over"}] BY <2>1 DEF BlobsBounds
  <2> QED BY <1>3, <1>5, <2>1, <2>2 DEF BlobsBounds
<1>16. ASSUME NEW t \in Executor, Bl!Crash(t) PROVE BlobsBounds'
  <2>1. v4' = [v4 EXCEPT ![t] = Bl!Idle] /\ UNCHANGED <<v1, v2, v3>>
    BY <1>16 DEF Bl!Crash, Bl!Returns
  <2>2. v7' \in 0..MaxKills BY <1>2, <1>16 DEF Bl!Crash, BlobsBounds
  <2> QED BY <1>3, <1>5, <2>1, <2>2 DEF BlobsBounds
<1>17. ASSUME NEW k \in Key, Bl!Expire(k) PROVE BlobsBounds'
  BY <1>17 DEF Bl!Expire, BlobsBounds
<1>18. CASE UNCHANGED Bl!vars BY <1>18 DEF Bl!vars, BlobsBounds
<1> QED
  BY <1>6, <1>7, <1>8, <1>9, <1>11, <1>12, <1>13, <1>14, <1>15, <1>16, <1>17, <1>18
  DEF Bl!Next

LEMMA BlobsShape == BlobsInv /\ BlobsBounds => Bl!BlobsTypeOK
<1> SUFFICES ASSUME BlobsInv, BlobsBounds PROVE Bl!BlobsTypeOK OBVIOUS
<1>1. MaxVersion \in Nat BY MCStoresAssumption DEF Bl!BlobsAssumption
<1>2. BlobsTypes BY DEF BlobsInv
<1>3. v3 \in 0..MaxVersion BY <1>1, <1>2 DEF BlobsTypes, BlobsBounds
<1>4. \A k \in Key : v1[k] # None => v1[k] \in 0..v3 BY <1>2 DEF BlobsTypes, BlobsBounds
<1>5. \A t \in Executor :
        v4[t].at \in {"idle", "writes", "replaces", "records", "reads", "unlinks", "forgets"}
  BY <1>2 DEF BlobsTypes, BlobJob
<1> QED BY <1>3, <1>4, <1>5 DEF Bl!BlobsTypeOK, BlobsBounds, Bl!Torn

-----------------------------------------------------------------------------
(* The shape of the state: vaults                                          *)

VaultRow == [id : Nat, val : 1..MaxVersion, ends : {"never", "ttl", "ended"}]
Value == 0..MaxVersion
VaultWrite == [at : {"idle", "delete", "insert", "tell"}, val : Value, found : Value,
               card : BOOLEAN]

VaultsTypes ==
  /\ v1 \subseteq VaultRow /\ \E n \in Nat : \A r \in v1 : r.id <= n
  /\ v2 \in Value /\ v4 \in Value /\ v5 \in Value /\ v8 \in Value
  /\ v3 \in [{"loop"} -> VaultWrite]
  /\ v6 \in [Viewer -> {"none", "empty", "on"}] /\ v7 \in BOOLEAN /\ v9 \in BOOLEAN
  /\ v10 \in [Viewer -> Value] /\ v11 \in [Viewer -> Value] /\ v12 \in 0..MaxCrashes

LEMMA VaultConstants ==
  /\ MaxVersion \in Nat /\ MaxCrashes \in Nat /\ 0 \in Value /\ 0 \in 0..MaxCrashes
  /\ \A x : x \in 1..MaxVersion <=> x \in Value /\ x # 0
<1>1. MaxVersion \in Nat /\ MaxCrashes \in Nat BY MCStoresAssumption DEF Va!VaultsAssumption
<1> QED BY <1>1 DEF Value

\* A new row's id is larger than any there is.
LEMMA NewRowId ==
  ASSUME VaultsTypes
  PROVE  Va!NewId \in Nat /\ \A r \in v1 : r.id <= Va!NewId
<1> DEFINE S == {0} \cup {r.id : r \in v1}
           U == {b \in Nat : \A y \in S : y <= b}
<1>1. S \subseteq Nat /\ 0 \in S BY DEF VaultsTypes, VaultRow
<1>2. PICK n \in Nat : \A r \in v1 : r.id <= n BY DEF VaultsTypes
<1>3. n \in U BY <1>2
<1>4. PICK m : m = Pl!Min(U) OBVIOUS
<1>5. m \in U /\ \A b \in U : m <= b
  <2>1. U \subseteq Nat /\ U # {} BY <1>3
  <2> HIDE DEF U
  <2> QED BY <1>4, <2>1, LeastOf
<1>6. m \in S
  <2>1. SUFFICES ASSUME m \notin S PROVE FALSE OBVIOUS
  <2>2. m \in Nat /\ m # 0 BY <1>1, <1>5, <2>1
  <2>3. \A y \in S : y <= m /\ y # m BY <1>5, <2>1
  <2>4. \A y \in S : y <= m - 1 BY <1>1, <2>2, <2>3
  <2>5. m - 1 \in U BY <2>2, <2>4
  <2>6. m <= m - 1 BY <1>5, <2>5
  <2> QED BY <2>2, <2>6
<1>7. \A y \in S : m >= y BY <1>1, <1>5
<1>8. Va!Max(S) \in S /\ \A y \in S : Va!Max(S) >= y
  <2>1. PICK T : T = S OBVIOUS
  <2>2. Va!Max(T) \in T /\ \A y \in T : Va!Max(T) >= y BY <1>6, <1>7, <2>1 DEF Va!Max
  <2> QED BY <2>1, <2>2
<1>9. \A r \in v1 : r.id \in S OBVIOUS
<1>10. Va!NewId = 1 + Va!Max(S) BY DEF Va!NewId
<1>11. Va!Max(S) \in Nat /\ \A r \in v1 : r.id \in Nat /\ r.id <= Va!Max(S)
  BY <1>1, <1>8, <1>9
<1>12. PICK k : k = Va!Max(S) OBVIOUS
<1>13. k \in Nat /\ Va!NewId = 1 + k /\ \A r \in v1 : r.id \in Nat /\ r.id <= k
  BY <1>10, <1>11, <1>12
<1> HIDE DEF S
<1> QED BY <1>13

\* What is found is a version, or 0.
LEMMA Found == VaultsTypes /\ RowsInv => Va!FindOne \in Value
<1> SUFFICES ASSUME VaultsTypes, RowsInv, Va!Live # {} PROVE Va!First(Va!Live).val \in Value
  BY VaultConstants DEF Va!FindOne
<1>1. PICK r \in Va!Live : \A s \in Va!Live : s = r BY DEF RowsInv
<1>2. \E f \in Va!Live : \A s \in Va!Live \ {f} : f.id < s.id BY <1>1
<1>3. Va!First(Va!Live) \in Va!Live BY <1>2 DEF Va!First
<1>4. r \in VaultRow BY DEF Va!Live, VaultsTypes
<1>5. r.val \in 1..MaxVersion BY <1>4 DEF VaultRow
<1>6. Va!First(Va!Live) = r BY <1>1, <1>3
<1> QED BY <1>5, <1>6, VaultConstants

LEMMA VaultsTypesInit == Va!Init => VaultsTypes
<1> SUFFICES ASSUME Va!Init PROVE VaultsTypes OBVIOUS
<1>1. Va!Idle \in VaultWrite BY VaultConstants DEF Va!Idle, VaultWrite
<1> QED BY <1>1, VaultConstants DEF Va!Init, Va!Memory, Va!Writers, VaultsTypes

LEMMA VaultsTyped ==
  ASSUME VaultsTypes, RowsInv, [Va!Next]_(Va!vars)
  PROVE  VaultsTypes'
<1> USE VaultConstants
<1>1. Va!Idle \in VaultWrite BY DEF Va!Idle, VaultWrite
<1>2. ASSUME NEW to, NEW x \in Value PROVE Va!Sent(to, x) \in [Viewer -> Value]
  BY <1>2 DEF Va!Sent, VaultsTypes
<1>3. CASE Va!Expire
  <2>1. PICK r \in v1 : v1' = (v1 \ {r}) \cup {Va!Row(r.id, r.val, "ended")}
    BY <1>3 DEF Va!Expire
  <2>2. r \in VaultRow BY DEF VaultsTypes
  <2>3. Va!Row(r.id, r.val, "ended") \in VaultRow /\ Va!Row(r.id, r.val, "ended").id = r.id
    BY <2>2 DEF Va!Row, VaultRow
  <2>4. v1' \subseteq VaultRow /\ \A s \in v1' : \E q \in v1 : s.id = q.id
    BY <2>1, <2>3 DEF VaultsTypes
  <2> QED BY <1>3, <2>4 DEF Va!Expire, Va!memVars, Va!pushVars, VaultsTypes
<1>4. CASE Va!Collect \/ Va!Delete
  <2>1. v1' \subseteq v1 BY <1>4 DEF Va!Collect, Va!Delete, Va!Live, Va!Without
  <2> QED BY <1>4, <2>1 DEF Va!Collect, Va!Delete, Va!memVars, Va!pushVars, VaultsTypes
<1>5. CASE Va!WindowEnds
  BY <1>5 DEF Va!WindowEnds, Va!memVars, VaultsTypes
<1>17. CASE Va!Flush
  <2>1. Va!Sent(Va!Watching, v8) \in [Viewer -> Value] BY <1>2 DEF VaultsTypes
  <2>2. v10' \in [Viewer -> Value] BY <1>17, <2>1 DEF Va!Flush, VaultsTypes
  <2>3. v7' \in BOOLEAN /\ v8' = 0 /\ v9' = FALSE /\ UNCHANGED <<v1, v2, v3, v4, v5, v6, v11, v12>>
    BY <1>17 DEF Va!Flush, Va!memVars
  <2> QED BY <2>2, <2>3 DEF VaultsTypes
<1>6. CASE Va!Get
  BY <1>6, Found DEF Va!Get, Va!pushVars, VaultsTypes
<1>7. CASE Va!Crash
  <2>1. v12' \in 0..MaxCrashes BY <1>7 DEF Va!Crash, VaultsTypes
  <2> QED BY <1>1, <1>7, <2>1 DEF Va!Crash, Va!Memory, Va!Writers, VaultsTypes
<1>8. ASSUME NEW card \in BOOLEAN, Va!SetFinds("loop", card) PROVE VaultsTypes'
  <2> DEFINE j == [at |-> "delete", val |-> v2 + 1, found |-> Va!FindOne, card |-> card]
  <2>1. v2 + 1 \in Value BY <1>8 DEF Va!SetFinds, VaultsTypes, Value
  <2>2. j \in VaultWrite BY <2>1, Found DEF VaultWrite
  <2>3. v3' = [v3 EXCEPT !["loop"] = j] /\ v2' = v2 + 1 BY <1>8 DEF Va!SetFinds
  <2> HIDE DEF j
  <2> QED BY <1>8, <2>1, <2>2, <2>3 DEF Va!SetFinds, Va!memVars, Va!pushVars, VaultsTypes
<1>9. ASSUME NEW at \in {"insert", "tell"}
      PROVE  [v3["loop"] EXCEPT !.at = at] \in VaultWrite
  BY DEF VaultWrite, VaultsTypes
<1>10. CASE Va!SetDeletes("loop")
  <2>1. v1' \subseteq v1 BY <1>10 DEF Va!SetDeletes, Va!Without
  <2>2. v3' = [v3 EXCEPT !["loop"] = [v3["loop"] EXCEPT !.at = "insert"]]
    BY <1>10 DEF Va!SetDeletes
  <2> QED BY <1>9, <1>10, <2>1, <2>2 DEF Va!SetDeletes, Va!memVars, Va!pushVars, VaultsTypes
<1>11. CASE Va!SetInserts("loop")
  <2>1. v3' = [v3 EXCEPT !["loop"] = [v3["loop"] EXCEPT !.at = "tell"]]
    BY <1>11 DEF Va!SetInserts
  <2>2. PICK ends \in {"never", "ttl"} : v1' = v1 \cup {Va!Row(Va!NewId, v3["loop"].val, ends)}
    BY <1>11 DEF Va!SetInserts, Va!Inserted
  <2>3. v3["loop"].val \in 1..MaxVersion
    <3>1. v3["loop"] \in VaultWrite BY DEF VaultsTypes
    <3>2. v3["loop"].val \in Value BY <3>1 DEF VaultWrite
    <3>3. v3["loop"].val # 0 BY <1>11 DEF Va!SetInserts, RowsInv
    <3> QED BY <3>2, <3>3
  <2>4. /\ Va!Row(Va!NewId, v3["loop"].val, ends) \in VaultRow
        /\ Va!Row(Va!NewId, v3["loop"].val, ends).id = Va!NewId
    BY <2>3, NewRowId DEF Va!Row, VaultRow
  <2>5. v1' \subseteq VaultRow BY <2>2, <2>4 DEF VaultsTypes
  <2>6. \A r \in v1' : r.id <= Va!NewId BY <2>2, <2>4, NewRowId
  <2>7. \E n \in Nat : \A r \in v1' : r.id <= n BY <2>6, NewRowId
  <2> QED
    BY <1>9, <1>11, <2>1, <2>5, <2>7 DEF Va!SetInserts, Va!memVars, Va!pushVars, VaultsTypes
<1>12. CASE Va!SetTells("loop")
  <2>1. v3["loop"] \in VaultWrite BY DEF VaultsTypes
  <2>2. v3["loop"].val \in Value BY <2>1 DEF VaultWrite
  <2>3. v8' \in Value /\ v7' \in BOOLEAN /\ v9' \in BOOLEAN /\ v10' \in [Viewer -> Value]
    <3>1. Va!Notify(v3["loop"].val, TRUE) BY <1>12 DEF Va!SetTells
    <3>2. CASE \A v \in Viewer : v6[v] = "none" BY <3>1, <3>2 DEF Va!Notify, VaultsTypes
    <3>3. CASE ~(\A v \in Viewer : v6[v] = "none") /\ v7
      BY <2>2, <3>1, <3>3 DEF Va!Notify, Va!PushLater, VaultsTypes
    <3>4. CASE ~(\A v \in Viewer : v6[v] = "none") /\ ~v7
      <4>1. v7' = TRUE /\ v8' = 0 /\ v9' = FALSE /\ v10' = Va!Sent(Va!Watching, v3["loop"].val)
        BY <3>1, <3>4 DEF Va!Notify, Va!PushNow
      <4> QED BY <1>2, <2>2, <4>1
    <3> QED BY <3>2, <3>3, <3>4
  <2>4. v11' \in [Viewer -> Value] BY <1>12, <2>2 DEF Va!SetTells, Va!Notify, VaultsTypes
  <2>5. v4' \in Value /\ v5' \in Value BY <1>12, <2>2 DEF Va!SetTells, Va!memVars, VaultsTypes
  <2>6. v3' \in [{"loop"} -> VaultWrite] BY <1>1, <1>12 DEF Va!SetTells, VaultsTypes
  <2> QED BY <1>12, <2>3, <2>4, <2>5, <2>6 DEF Va!SetTells, VaultsTypes
<1>13. ASSUME NEW v \in Viewer, Va!Watch(v) PROVE VaultsTypes'
  <2>1. v10' \in [Viewer -> Value] BY <1>2, <1>13, Found DEF Va!Watch
  <2>2. v11' \in [Viewer -> Value] BY <1>13, Found DEF Va!Watch, VaultsTypes
  <2> QED BY <1>13, <2>1, <2>2 DEF Va!Watch, Va!memVars, VaultsTypes
<1>14. ASSUME NEW v \in Viewer, Va!Unwatch(v) PROVE VaultsTypes'
  BY <1>14 DEF Va!Unwatch, Va!memVars, Va!pushVars, VaultsTypes
<1>15. ASSUME NEW v \in Viewer, Va!Leave(v) PROVE VaultsTypes'
  <2>1. v10' \in [Viewer -> Value] BY <1>2, <1>15 DEF Va!Leave
  <2> QED BY <1>15, <2>1 DEF Va!Leave, Va!memVars, VaultsTypes
<1>16. CASE UNCHANGED Va!vars BY <1>16 DEF Va!vars, Va!memVars, Va!pushVars, VaultsTypes
<1> QED
  BY <1>3, <1>4, <1>5, <1>6, <1>7, <1>8, <1>10, <1>11, <1>12, <1>13, <1>14, <1>15, <1>16, <1>17
  DEF Va!Next, Va!Writers

LEMMA VaultsShape == VaultsTypes => Va!VaultsTypeOK
BY DEF VaultsTypes, Va!VaultsTypeOK, VaultRow, VaultWrite, Value, Va!Writers

-----------------------------------------------------------------------------
(* The shape of the state: credentials                                     *)

FlowStage == {"none", "pending", "old", "exchanging", "popped"}
CheckAt == {"idle", "expiry", "refresh", "endpoint", "answer"}
IsCheck(k) == k = [todo |-> k.todo, at |-> k.at] /\ k.at \in CheckAt

\* There is one key, from the first start on.
CredentialsBounds ==
  /\ \A c \in Cred : v1[c].st = "none" => v1[c].key = 0
  /\ v7 <= MaxStarts
  /\ v2 \subseteq Cred /\ v3 \subseteq Cred
  /\ v4 \in [Flow -> FlowStage] /\ v5 \in [Flow -> Oauth] /\ IsCheck(v6)

LEMMA Checks ==
  /\ IsCheck(Cd!Idle)
  /\ \A k, x : IsCheck(k) => IsCheck([k EXCEPT !.todo = x])
  /\ \A k, s : IsCheck(k) /\ s \in CheckAt => IsCheck([k EXCEPT !.at = s])
  /\ \A x, s : s \in CheckAt => IsCheck([todo |-> x, at |-> s])
BY DEF IsCheck, CheckAt, Cd!Idle

LEMMA CredentialsBoundsInit == Cd!Init => CredentialsBounds
<1> SUFFICES ASSUME Cd!Init PROVE CredentialsBounds OBVIOUS
<1>1. MaxStarts \in Nat \ {0} BY MCStoresAssumption DEF Cd!CredentialsAssumption
<1>2. v7 = 1 BY DEF Cd!Init, Cd!KeychainAnswers, Cd!GetKey
<1>3. Cd!NoRow.key = 0 BY DEF Cd!NoRow
<1>4. v2 = {} /\ v3 = {} /\ v4 = [f \in Flow |-> "none"] /\ v5 \in [Flow -> Oauth]
      /\ v6 = Cd!Idle /\ v1 = [c \in Cred |-> Cd!NoRow]
  BY DEF Cd!Init
<1> QED BY <1>1, <1>2, <1>3, <1>4, Checks DEF CredentialsBounds, FlowStage

\* A row that there is not, there was not.
RowsStay ==
  \A c \in Cred : v1'[c].st = "none" => v1[c].st = "none" /\ v1'[c].key = v1[c].key

LEMMA RowUpdated ==
  ASSUME CredentialsInv, NEW c, NEW s \in {"expiring", "expired", "error"},
         v1' = Cd!UpdateStatus(c, s)
  PROVE  RowsStay
<1>1. CASE c \in Cred /\ v1[c].st # "none"
  <2>1. v1' = [v1 EXCEPT ![c].st = s] /\ v1[c] \in CredRow
    BY <1>1 DEF Cd!UpdateStatus, CredentialsInv
  <2>2. v1'[c].st = s /\ \A d \in Cred : d # c => v1'[d] = v1[d]
    BY <1>1, <2>1 DEF CredentialsInv, CredRow
  <2> QED BY <2>2 DEF RowsStay
<1>2. CASE ~(c \in Cred /\ v1[c].st # "none")
  <2>1. v1' = v1 BY <1>2 DEF Cd!UpdateStatus, CredentialsInv
  <2> QED BY <2>1 DEF RowsStay
<1> QED BY <1>1, <1>2

LEMMA RowPut ==
  ASSUME CredentialsInv, NEW c, NEW exp, NEW oauth, NEW has, Cd!Put(c, exp, oauth, has)
  PROVE  RowsStay /\ v2' = v2 \ {c}
<1> DEFINE r == [st |-> "valid", exp |-> exp, key |-> v7, has |-> has,
                 oauth |-> IF v1[c].st = "none" THEN oauth ELSE v1[c].oauth]
<1>1. v1' = [v1 EXCEPT ![c] = r] /\ v2' = v2 \ {c} BY DEF Cd!Put, Cd!Stored
<1>2. r.st = "valid" OBVIOUS
<1> HIDE DEF r
<1>3. \A d \in Cred : v1'[d] = v1[d] \/ v1'[d] = r BY <1>1 DEF CredentialsInv
<1> QED BY <1>1, <1>2, <1>3 DEF RowsStay

LEMMA CredentialsBoundsStay ==
  ASSUME CredentialsInv, CredentialsBounds, RowsStay, v7' = v7, v2' \subseteq Cred,
         v3' \subseteq Cred, v4' \in [Flow -> FlowStage], v5' \in [Flow -> Oauth],
         IsCheck(v6')
  PROVE  CredentialsBounds'
BY DEF CredentialsBounds, RowsStay, IsCheck

LEMMA CredentialsBounded ==
  ASSUME CredentialsInv, CredentialsBounds, [Cd!Next]_(Cd!vars)
  PROVE  CredentialsBounds'
<1>1. /\ v2 \subseteq Cred /\ v3 \subseteq Cred /\ v4 \in [Flow -> FlowStage]
      /\ v5 \in [Flow -> Oauth] /\ IsCheck(v6)
  BY DEF CredentialsBounds
<1>2. v1' = v1 => RowsStay BY DEF RowsStay
<1>3. UNCHANGED Cd!store => v7' = v7 BY DEF Cd!store
<1>4. Cd!GoesTo("endpoint") \/ Cd!GoesTo("refresh") \/ Cd!GoesTo("answer") \/ Cd!NextCredential
        => IsCheck(v6')
  <2>1. {"endpoint", "refresh", "answer", "expiry"} \subseteq CheckAt BY DEF CheckAt
  <2>2. ASSUME NEW s \in CheckAt, Cd!GoesTo(s) PROVE IsCheck(v6')
    <3>1. v6' = [v6 EXCEPT !.at = s] BY <2>2 DEF Cd!GoesTo
    <3>2. IsCheck([v6 EXCEPT !.at = s]) BY <1>1, Checks
    <3> QED BY <3>1, <3>2
  <2>3. ASSUME Cd!NextCredential PROVE IsCheck(v6')
    <3>1. v6' = Cd!Idle \/ v6' = [todo |-> Tail(v6.todo), at |-> "expiry"]
      BY <2>3 DEF Cd!NextCredential
    <3>2. IsCheck([todo |-> Tail(v6.todo), at |-> "expiry"]) BY <2>1, Checks
    <3> QED BY <3>1, <3>2, Checks
  <2> QED BY <2>1, <2>2, <2>3
<1>5. \A c, s : v1' = Cd!UpdateStatus(c, s) /\ s \in {"expiring", "expired", "error"} => RowsStay
  BY RowUpdated
<1>6. v1' = Cd!Lapsed \/ v1' = Cd!Unhealthy => RowsStay
  BY <1>5 DEF Cd!Lapsed, Cd!Unhealthy
<1>7. ASSUME NEW c \in Cred, Cd!Revoke(c) PROVE CredentialsBounds'
  <2>1. v1' = [v1 EXCEPT ![c].st = "revoked", ![c].key = v7, ![c].has = "nothing"]
        /\ UNCHANGED <<v2, v3, v4, v5, v6>> /\ v7' = v7
    BY <1>7 DEF Cd!Revoke, Cd!store
  <2>2. v1[c] \in CredRow BY DEF CredentialsInv
  <2>3. v1'[c].st = "revoked" /\ \A d \in Cred : d # c => v1'[d] = v1[d]
    BY <2>1, <2>2 DEF CredentialsInv, CredRow
  <2>4. RowsStay BY <2>3 DEF RowsStay
  <2> QED BY <1>1, <2>1, <2>4, CredentialsBoundsStay
<1>8. ASSUME NEW c \in Cred, Cd!RequestUpdate(c) PROVE CredentialsBounds'
  <2>1. RowsStay BY <1>5, <1>8 DEF Cd!RequestUpdate
  <2>2. v2' \subseteq Cred /\ UNCHANGED <<v3, v4, v5, v6, v7>>
    BY <1>1, <1>8 DEF Cd!RequestUpdate, Cd!store
  <2> QED BY <1>1, <2>1, <2>2, CredentialsBoundsStay
<1>9. ASSUME NEW c \in Cred, Cd!ClearAlert(c) \/ Cd!Post(c) PROVE CredentialsBounds'
  <2>1. v2' \subseteq Cred /\ v3' \subseteq Cred /\ UNCHANGED <<v1, v4, v5, v6, v7>>
    BY <1>1, <1>9 DEF Cd!ClearAlert, Cd!Post, Cd!store
  <2> QED BY <1>1, <1>2, <2>1, CredentialsBoundsStay
<1>10. ASSUME NEW c \in Cred, Cd!Validated(c) PROVE CredentialsBounds'
  <2>1. v3' \subseteq Cred /\ UNCHANGED <<v4, v5, v6, v7>>
    BY <1>1, <1>10 DEF Cd!Validated, Cd!store
  <2>2. (\E exp, oauth : Cd!Put(c, exp, oauth, "secret")) \/ UNCHANGED <<v1, v2>>
    BY <1>10 DEF Cd!Validated
  <2>3. RowsStay /\ v2' \subseteq Cred BY <1>1, <1>2, <2>2, RowPut
  <2> QED BY <1>1, <2>1, <2>3, CredentialsBoundsStay
<1>11. ASSUME NEW f \in Flow, NEW c \in Cred, Cd!StartOauth(f, c) PROVE CredentialsBounds'
  <2>1. v4' \in [Flow -> FlowStage] /\ v5' \in [Flow -> Oauth] /\ UNCHANGED <<v1, v2, v3, v6, v7>>
    BY <1>1, <1>11 DEF Cd!StartOauth, Cd!store, FlowStage
  <2> QED BY <1>1, <1>2, <2>1, CredentialsBoundsStay
<1>12. ASSUME NEW f \in Flow, Cd!TenMinutes(f) \/ Cd!Callback(f) PROVE CredentialsBounds'
  <2>1. v4' \in [Flow -> FlowStage] /\ UNCHANGED <<v1, v2, v3, v5, v6, v7>>
    BY <1>1, <1>12 DEF Cd!TenMinutes, Cd!Callback, Cd!store, FlowStage
  <2> QED BY <1>1, <1>2, <2>1, CredentialsBoundsStay
<1>13. CASE Cd!CleanupExpiredFlows
  <2>1. v4' \in [Flow -> FlowStage] /\ UNCHANGED <<v1, v2, v3, v5, v6, v7>>
    BY <1>1, <1>13 DEF Cd!CleanupExpiredFlows, Cd!store, FlowStage
  <2> QED BY <1>1, <1>2, <2>1, CredentialsBoundsStay
<1>14. ASSUME NEW f \in Flow, Cd!Exchanged(f) PROVE CredentialsBounds'
  <2>1. v4' \in [Flow -> FlowStage] /\ UNCHANGED <<v3, v5, v6, v7>>
    BY <1>1, <1>14 DEF Cd!Exchanged, Cd!store, FlowStage
  <2>2. (\E exp, has : Cd!Put(v5[f], exp, TRUE, has)) \/ UNCHANGED <<v1, v2>>
    BY <1>14 DEF Cd!Exchanged
  <2>3. RowsStay /\ v2' \subseteq Cred BY <1>1, <1>2, <2>2, RowPut
  <2> QED BY <1>1, <2>1, <2>3, CredentialsBoundsStay
<1>15. CASE Cd!CheckBegins
  <2>1. UNCHANGED <<v1, v2, v3, v4, v5, v7>> BY <1>15 DEF Cd!CheckBegins, Cd!store
  <2>2. IsCheck(v6') BY <1>15, Checks DEF Cd!CheckBegins, CheckAt
  <2> QED BY <1>1, <1>2, <2>1, <2>2, CredentialsBoundsStay
<1>16. CASE Cd!CheckExpiry
  <2>1. UNCHANGED <<v2, v3, v4, v5, v7>> BY <1>16 DEF Cd!CheckExpiry, Cd!store
  <2>2. (v1' = v1 \/ v1' = Cd!Lapsed) /\ (Cd!GoesTo("endpoint") \/ Cd!GoesTo("refresh"))
    BY <1>16 DEF Cd!CheckExpiry
  <2> QED BY <1>1, <1>2, <1>4, <1>6, <2>1, <2>2, CredentialsBoundsStay
<1>17. CASE Cd!Refreshed
  <2>1. UNCHANGED <<v3, v4, v5, v7>> /\ Cd!GoesTo("endpoint")
    BY <1>17 DEF Cd!Refreshed, Cd!store
  <2>2. (\E exp : Cd!Put(Cd!This.c, exp, TRUE, "refresh")) \/ (v1' = Cd!Lapsed /\ v2' = v2)
    BY <1>17 DEF Cd!Refreshed
  <2>3. RowsStay /\ v2' \subseteq Cred BY <1>1, <1>6, <2>2, RowPut
  <2> QED BY <1>1, <1>4, <2>1, <2>3, CredentialsBoundsStay
<1>18. CASE Cd!CheckEndpoint \/ Cd!EndpointAnswers
  <2>1. UNCHANGED <<v2, v3, v4, v5, v7>>
    BY <1>18 DEF Cd!CheckEndpoint, Cd!EndpointAnswers, Cd!store
  <2>2. (v1' = v1 \/ v1' = Cd!Unhealthy) /\ (Cd!GoesTo("answer") \/ Cd!NextCredential)
    BY <1>18 DEF Cd!CheckEndpoint, Cd!EndpointAnswers
  <2> QED BY <1>1, <1>2, <1>4, <1>6, <2>1, <2>2, CredentialsBoundsStay
<1>19. CASE Cd!HourPasses
  <2>1. UNCHANGED <<v2, v3, v4, v5, v7>> /\ \E x : v6' = [v6 EXCEPT !.todo = x]
    BY <1>19 DEF Cd!HourPasses, Cd!store
  <2>2. v1' = [c \in Cred |-> [v1[c] EXCEPT !.exp = Cd!Later(@)]] BY <1>19 DEF Cd!HourPasses
  <2>3. RowsStay BY <2>2, CredRows DEF RowsStay, CredentialsInv
  <2> QED BY <1>1, <2>1, <2>3, Checks, CredentialsBoundsStay
<1>20. CASE Cd!Restart
  <2>1. v1' = v1 /\ v2' = {} /\ v3' = {} /\ v6' = Cd!Idle /\ v5' = v5
    BY <1>20 DEF Cd!Restart
  <2>2. v4' \in [Flow -> FlowStage] BY <1>1, <1>20 DEF Cd!Restart, FlowStage
  <2>3. v7' = v7
    <3>1. Keychain = "works" => v7' = v7
      BY <1>20 DEF Cd!Restart, Cd!KeychainAnswers, Cd!GetKey, CredentialsInv
    <3>2. Keychain = "absent" => v7' = v7
      BY <1>20 DEF Cd!Restart, Cd!KeychainAnswers, Cd!GetKey, CredentialsInv
    <3> QED BY <3>1, <3>2, MCStoresAssumption
  <2> QED BY <1>1, <1>2, <2>1, <2>2, <2>3, Checks, CredentialsBoundsStay
<1>21. CASE UNCHANGED Cd!vars
  BY <1>1, <1>2, <1>3, <1>21, CredentialsBoundsStay DEF Cd!vars
<1> QED
  BY <1>7, <1>8, <1>9, <1>10, <1>11, <1>12, <1>13, <1>14, <1>15, <1>16, <1>17, <1>18, <1>19,
     <1>20, <1>21
  DEF Cd!Next

LEMMA CredentialsShape == CredentialsInv /\ CredentialsBounds => Cd!CredentialsTypeOK
<1> SUFFICES ASSUME CredentialsInv, CredentialsBounds PROVE Cd!CredentialsTypeOK OBVIOUS
<1> DEFINE Keyed == [st : Cd!Status, exp : Cd!Expiry, key : 0..MaxStarts, oauth : BOOLEAN,
                     has : {"nothing", "secret", "refresh"}]
<1>1. MaxStarts \in Nat BY MCStoresAssumption DEF Cd!CredentialsAssumption
<1>2. ASSUME NEW c \in Cred PROVE v1[c] \in Keyed
  <2>1. v1[c] \in CredRow BY DEF CredentialsInv
  <2>2. v1[c].key \in 0..MaxStarts BY <1>1 DEF CredentialsInv, CredentialsBounds
  <2> QED BY <2>1, <2>2 DEF CredRow, Cd!Status, Cd!Expiry
<1>3. v1 \in [Cred -> Keyed] BY <1>2 DEF CredentialsInv
<1> QED
  BY <1>3 DEF Cd!CredentialsTypeOK, CredentialsBounds, IsCheck, CheckAt, FlowStage

-----------------------------------------------------------------------------
(* The shape of the state: logins                                          *)

LoginState == {"ok", "expired", "not_configured", "error"}

\* What a call saves is a state; what it applies is one that it read, if there was any.
CallBounds(j) ==
  /\ j.at = "saves" => j.tok \in LoginState
  /\ j.at = "applies" => j.tok \in LoginState \cup {None}
  /\ j.flow \in {0, 1, 2}

LoginsBounds ==
  /\ v2 \in LoginState \cup {None} /\ v3 \in LoginState /\ v4 \in BOOLEAN
  /\ v7 \in Nat /\ v5 \in 0..v7 /\ v6 \in 0..v7
  /\ \A c \in Call : CallBounds(v8[c])

LEMMA CallMoves ==
  ASSUME NEW j \in LoginJob, CallBounds(j)
  PROVE  /\ \A at : at \notin {"saves", "applies"} => CallBounds([j EXCEPT !.at = at])
         /\ \A at, tok : /\ at = "saves" => tok \in LoginState
                         /\ at = "applies" => tok \in LoginState \cup {None}
                         => CallBounds([j EXCEPT !.at = at, !.tok = tok])
         /\ CallBounds([j EXCEPT !.at = "gives up", !.tried = TRUE])
         /\ \A at \in {"exchanges", "polls"}, f \in {1, 2} :
              CallBounds([j EXCEPT !.at = at, !.flow = f])
         /\ CallBounds([j EXCEPT !.at = "saves", !.tok = "error", !.flow = 0])
BY DEF CallBounds, LoginJob, LoginState

LEMMA LoginsBoundsInit == Cs!Init => LoginsBounds
<1>1. CallBounds(Cs!Idle) BY DEF CallBounds, Cs!Idle
<1> SUFFICES ASSUME Cs!Init PROVE LoginsBounds OBVIOUS
<1>2. v2 = None /\ v3 = "not_configured" /\ v4 = FALSE /\ v5 = 0 /\ v6 = 0 /\ v7 = 0
  BY DEF Cs!Init
<1>3. \A c \in Call : v8[c] = Cs!Idle BY DEF Cs!Init
<1>4. v3 \in LoginState /\ v4 \in BOOLEAN BY <1>2 DEF LoginState
<1>5. v7 \in Nat /\ v5 \in 0..v7 /\ v6 \in 0..v7 BY <1>2
<1>6. \A c \in Call : CallBounds(v8[c]) BY <1>1, <1>3
<1> QED BY <1>2, <1>4, <1>5, <1>6 DEF LoginsBounds

LEMMA CallsBounded ==
  ASSUME LoginsInv, LoginsBounds, NEW c \in Call,
         NEW j, CallBounds(j), v8' = [v8 EXCEPT ![c] = j]
  PROVE  \A d \in Call : CallBounds(v8'[d])
<1>1. v8'[c] = j /\ \A d \in Call : d # c => v8'[d] = v8[d] BY DEF LoginsInv
<1> QED BY <1>1 DEF LoginsBounds

LEMMA LoginsBounded ==
  ASSUME LoginsInv, LoginsBounds, [Cs!Next]_(Cs!vars)
  PROVE  LoginsBounds'
<1> DEFINE Calls == \A d \in Call : CallBounds(v8'[d])
<1>1. /\ v2 \in LoginState \cup {None} /\ v3 \in LoginState /\ v4 \in BOOLEAN
      /\ v7 \in Nat /\ v5 \in 0..v7 /\ v6 \in 0..v7
  BY DEF LoginsBounds
<1>2. \A c \in Call : v8[c] \in LoginJob /\ CallBounds(v8[c])
  BY DEF LoginsInv, LoginJobInv, LoginsBounds
<1>3. ASSUME NEW c \in Call, Cs!Returns(c) PROVE Calls
  <2>1. v8' = [v8 EXCEPT ![c] = Cs!Idle] BY <1>3 DEF Cs!Returns
  <2>2. CallBounds(Cs!Idle) BY DEF CallBounds, Cs!Idle
  <2> QED BY <2>1, <2>2, CallsBounded
<1>4. ASSUME NEW c \in Call, NEW at, at \notin {"saves", "applies"}, Cs!Goes(c, at)
      PROVE  Calls
  <2> DEFINE j == [v8[c] EXCEPT !.at = at]
  <2>1. v8' = [v8 EXCEPT ![c] = j] BY <1>4 DEF Cs!Goes, LoginsInv
  <2>2. CallBounds(j) BY <1>2, <1>4, CallMoves
  <2> HIDE DEF j
  <2> QED BY <2>1, <2>2, CallsBounded
<1>5. ASSUME NEW c \in Call, NEW at, NEW tok, Cs!GoesWith(c, at, tok),
             at = "saves" => tok \in LoginState,
             at = "applies" => tok \in LoginState \cup {None}
      PROVE  Calls
  <2> DEFINE j == [v8[c] EXCEPT !.at = at, !.tok = tok]
  <2>1. v8' = [v8 EXCEPT ![c] = j] BY <1>5 DEF Cs!GoesWith, LoginsInv
  <2>2. CallBounds(j) BY <1>2, <1>5, CallMoves
  <2> HIDE DEF j
  <2> QED BY <2>1, <2>2, CallsBounded
<1>6. ASSUME NEW c \in Call, NEW s \in LoginState, Cs!Saves(c, s)
      PROVE  Calls /\ v3' \in LoginState
  BY <1>5, <1>6 DEF Cs!Saves
<1>7. ASSUME NEW c \in Call, \E tok \in Cs!NewToken : Cs!GoesWith(c, "stores", tok) PROVE Calls
  BY <1>5, <1>7
\* the calls that only move
<1>8. ASSUME NEW c \in Call,
             \/ Cs!GetToken(c) \/ Cs!ReadMeta(c) \/ Cs!Checks(c) \/ Cs!ReadCred(c)
             \/ Cs!Refresh(c) \/ Cs!StoreToken(c) \/ Cs!PutCred(c) \/ Cs!Clear(c)
             \/ Cs!DeleteCred(c) \/ Cs!Callback(c) \/ Cs!Poll(c)
      PROVE  LoginsBounds'
  <2>1. UNCHANGED <<v2, v3, v4, v5, v6, v7>>
    BY <1>8 DEF Cs!GetToken, Cs!ReadMeta, Cs!Checks, Cs!ReadCred, Cs!Refresh, Cs!StoreToken,
       Cs!PutCred, Cs!Clear, Cs!DeleteCred, Cs!Callback, Cs!Poll, Cs!memory
  <2>2. CASE Cs!GetToken(c) \/ Cs!Checks(c) \/ Cs!PutCred(c) \/ Cs!Clear(c) \/ Cs!DeleteCred(c)
    <3>1. Calls
      BY <1>3, <1>4, <2>2 DEF Cs!GetToken, Cs!Checks, Cs!PutCred, Cs!Clear, Cs!DeleteCred
    <3> QED BY <1>1, <2>1, <3>1 DEF LoginsBounds
  <2>3. CASE Cs!ReadMeta(c) \/ Cs!ReadCred(c) \/ Cs!StoreToken(c)
    <3>1. Calls BY <1>1, <1>5, <1>7, <2>3 DEF Cs!ReadMeta, Cs!ReadCred, Cs!StoreToken
    <3> QED BY <1>1, <2>1, <3>1 DEF LoginsBounds
  <2>4. CASE Cs!Refresh(c)
    <3>1. ASSUME v8' = [v8 EXCEPT ![c].at = "gives up", ![c].tried = TRUE] PROVE Calls
      <4> DEFINE j == [v8[c] EXCEPT !.at = "gives up", !.tried = TRUE]
      <4>1. v8' = [v8 EXCEPT ![c] = j] BY <3>1 DEF LoginsInv
      <4>2. CallBounds(j) BY <1>2, CallMoves
      <4> HIDE DEF j
      <4> QED BY <4>1, <4>2, CallsBounded
    <3>2. ASSUME \E new \in Cs!NewToken :
                   Cs!GoesWith(c, "stores", Cs!Refreshed(v8[c].tok, new))
          PROVE  Calls
      BY <1>5, <3>2
    <3>3. Calls BY <2>4, <3>1, <3>2 DEF Cs!Refresh
    <3> QED BY <1>1, <2>1, <3>3 DEF LoginsBounds
  <2>5. CASE Cs!Callback(c) \/ Cs!Poll(c)
    <3>1. PICK at \in {"exchanges", "polls"}, f \in {1, 2} :
            v8' = [v8 EXCEPT ![c].at = at, ![c].flow = f]
      BY <2>5 DEF Cs!Callback, Cs!Poll
    <3> DEFINE j == [v8[c] EXCEPT !.at = at, !.flow = f]
    <3>2. v8' = [v8 EXCEPT ![c] = j] BY <3>1 DEF LoginsInv
    <3>3. CallBounds(j) BY <1>2, CallMoves
    <3> HIDE DEF j
    <3>4. Calls BY <3>2, <3>3, CallsBounded
    <3> QED BY <1>1, <2>1, <3>4 DEF LoginsBounds
  <2> QED BY <1>8, <2>2, <2>3, <2>4, <2>5
<1>9. ASSUME NEW c \in Call, Cs!Load(c) PROVE LoginsBounds'
  <2>1. Calls BY <1>4, <1>9 DEF Cs!Load
  <2>2. v3' \in LoginState
    <3>1. v8[c].tok \in LoginState \cup {None} BY <1>2, <1>9 DEF Cs!Load, Cs!At, CallBounds
    <3> QED BY <1>9, <3>1 DEF Cs!Load, LoginState
  <2>3. v4' \in BOOLEAN /\ UNCHANGED <<v2, v5, v6, v7>> BY <1>9 DEF Cs!Load
  <2> QED BY <1>1, <2>1, <2>2, <2>3 DEF LoginsBounds
<1>10. ASSUME NEW c \in Call, Cs!Decides(c) PROVE LoginsBounds'
  <2>1. Calls BY <1>3, <1>4, <1>10 DEF Cs!Decides
  <2>2. v3' \in LoginState BY <1>1, <1>10 DEF Cs!Decides, LoginState
  <2>3. UNCHANGED <<v2, v4, v5, v6, v7>> BY <1>10 DEF Cs!Decides
  <2> QED BY <1>1, <2>1, <2>2, <2>3 DEF LoginsBounds
<1>11. ASSUME NEW c \in Call, Cs!GiveUp(c) \/ Cs!Cleared(c) \/ Cs!Mark(c) \/ Cs!Stored(c)
       PROVE  LoginsBounds'
  <2>1. \E s \in LoginState : Cs!Saves(c, s)
    BY <1>11 DEF Cs!GiveUp, Cs!Cleared, Cs!Mark, Cs!Stored, LoginState
  <2>2. v4' \in BOOLEAN /\ UNCHANGED <<v2, v5, v6, v7>>
    BY <1>1, <1>11 DEF Cs!GiveUp, Cs!Cleared, Cs!Mark, Cs!Stored
  <2> QED BY <1>1, <1>6, <2>1, <2>2 DEF LoginsBounds
<1>12. ASSUME NEW c \in Call, Cs!Save(c) PROVE LoginsBounds'
  <2>1. Calls BY <1>3, <1>12 DEF Cs!Save
  <2>2. v2' \in LoginState BY <1>2, <1>12 DEF Cs!Save, Cs!At, CallBounds
  <2>3. v5' \in {0, v5} /\ v6' \in {0, v6} /\ UNCHANGED <<v3, v4, v7>> BY <1>12 DEF Cs!Save
  <2> QED BY <1>1, <2>1, <2>2, <2>3 DEF LoginsBounds
<1>13. ASSUME NEW c \in Call, Cs!Exchange(c) PROVE LoginsBounds'
  <2>1. ASSUME v8' = [v8 EXCEPT ![c].at = "saves", ![c].tok = "error", ![c].flow = 0]
        PROVE  Calls
    <3> DEFINE j == [v8[c] EXCEPT !.at = "saves", !.tok = "error", !.flow = 0]
    <3>1. v8' = [v8 EXCEPT ![c] = j] BY <2>1 DEF LoginsInv
    <3>2. CallBounds(j) BY <1>2, CallMoves
    <3> HIDE DEF j
    <3> QED BY <3>1, <3>2, CallsBounded
  <2>2. Calls BY <1>7, <1>13, <2>1 DEF Cs!Exchange
  <2>3. v3' \in LoginState BY <1>1, <1>13 DEF Cs!Exchange, LoginState
  <2>4. UNCHANGED <<v2, v4, v5, v6, v7>> BY <1>13 DEF Cs!Exchange
  <2> QED BY <1>1, <2>2, <2>3, <2>4 DEF LoginsBounds
<1>14. ASSUME NEW c \in Call, Cs!Polled(c) PROVE LoginsBounds'
  <2>1. "error" \in LoginState BY DEF LoginState
  <2>2. Calls /\ v3' \in LoginState BY <1>1, <1>3, <1>6, <1>7, <1>14, <2>1 DEF Cs!Polled
  <2>3. UNCHANGED <<v2, v4, v5, v6, v7>> BY <1>14 DEF Cs!Polled
  <2> QED BY <1>1, <2>2, <2>3 DEF LoginsBounds
<1>15. CASE Cs!AuthUrl \/ Cs!DeviceCode
  <2>1. UNCHANGED <<v2, v3, v4, v8>> /\ v7' = v7 + 1
        /\ v5' \in {v5, v7 + 1} /\ v6' \in {v6, v7 + 1}
    BY <1>15 DEF Cs!AuthUrl, Cs!DeviceCode
  <2>2. v7' \in Nat /\ v5' \in 0..v7' /\ v6' \in 0..v7' BY <1>1, <2>1
  <2> QED BY <1>1, <1>2, <2>1, <2>2 DEF LoginsBounds
<1>16. CASE Cs!Expire \/ UNCHANGED Cs!vars
  BY <1>1, <1>2, <1>16 DEF Cs!Expire, Cs!vars, Cs!memory, LoginsBounds
<1>17. CASE Cs!Restart
  <2>1. /\ v3' = "not_configured" /\ v4' = FALSE /\ v5' = 0 /\ v6' = 0
        /\ v8' = [c \in Call |-> Cs!Idle] /\ UNCHANGED <<v2, v7>>
    BY <1>17 DEF Cs!Restart
  <2>2. CallBounds(Cs!Idle) BY DEF CallBounds, Cs!Idle
  <2>3. \A c \in Call : CallBounds(v8'[c]) BY <2>1, <2>2
  <2>4. v3' \in LoginState /\ v4' \in BOOLEAN BY <2>1 DEF LoginState
  <2>5. v7' \in Nat /\ v5' \in 0..v7' /\ v6' \in 0..v7' BY <1>1, <2>1
  <2> QED BY <1>1, <2>1, <2>3, <2>4, <2>5 DEF LoginsBounds
<1> QED
  BY <1>8, <1>9, <1>10, <1>11, <1>12, <1>13, <1>14, <1>15, <1>16, <1>17 DEF Cs!Next

LEMMA LoginsShape == LoginsInv /\ LoginsBounds => Cs!CredentialStoreTypeOK
<1> SUFFICES ASSUME LoginsInv, LoginsBounds PROVE Cs!CredentialStoreTypeOK OBVIOUS
<1>1. v1 # None => v1 \in Cs!Token
  BY DEF LoginsInv, Kept, LoginToken, Cs!Token
<1>2. \A c \in Call : v8[c].tried \in BOOLEAN /\ v8[c].flow \in 0..2
  <2>1. \A c \in Call : v8[c] \in LoginJob BY DEF LoginsInv, LoginJobInv
  <2> QED BY <2>1 DEF LoginJob
<1> QED
  BY <1>1, <1>2 DEF LoginsBounds, LoginState, Cs!CredentialStoreTypeOK, Cs!State

-----------------------------------------------------------------------------
(* The shape of the state: accounts: people and their sessions             *)

\* Cardinality is the one of the library.
LEMMA SameCount ==
  ASSUME NEW S
  PROVE  (Ac!IsFiniteSet(S) <=> IsFiniteSet(S)) /\ Ac!Cardinality(S) = Cardinality(S)
<1>1. Ac!IsFiniteSet(S) <=> IsFiniteSet(S) BY DEF Ac!IsFiniteSet, IsFiniteSet
<1>2. Ac!Cardinality(S) = Cardinality(S) BY DEF Ac!Cardinality, Cardinality
<1> QED BY <1>1, <1>2

StoreOf == [users : SUBSET User, owner : [Host -> User \cup {None}]]

LEMMA StoreKept ==
  ASSUME NEW d \in StoreOf
  PROVE  /\ \A u \in User : [d EXCEPT !.users = @ \cup {u}] \in StoreOf
         /\ \A h \in Host, o \in User \cup {None} : [d EXCEPT !.owner[h] = o] \in StoreOf
<1>1. d.owner \in [Host -> User \cup {None}] /\ d.users \in SUBSET User BY DEF StoreOf
<1>2. ASSUME NEW h \in Host, NEW o \in User \cup {None}
      PROVE  [d EXCEPT !.owner[h] = o] \in StoreOf
  <2>1. [d.owner EXCEPT ![h] = o] \in [Host -> User \cup {None}] BY <1>1
  <2>2. [d EXCEPT !.owner[h] = o] = [d EXCEPT !.owner = [d.owner EXCEPT ![h] = o]]
    BY DEF StoreOf
  <2> QED BY <2>1, <2>2 DEF StoreOf
<1>3. ASSUME NEW u \in User PROVE [d EXCEPT !.users = @ \cup {u}] \in StoreOf
  BY <1>1, <1>3 DEF StoreOf
<1> QED BY <1>2, <1>3

\* An attempt to sign in that waits for the delay has been let in but is not counted yet.
IsAttempt(a) == a = [stage |-> a.stage, user |-> a.user, host |-> a.host, token |-> a.token]
Delayed == {b \in Browser : v6[b] # None /\ v6[b].stage = "delayed"}

PeopleBounds ==
  /\ v1 \in StoreOf /\ v2 \in StoreOf /\ v3 \in 0..MaxServerStarts /\ v4 \in BOOLEAN
  /\ v5 \subseteq Host /\ v7 \in [Browser -> User \cup {None}]
  /\ DOMAIN v6 = Browser /\ \A b \in Browser : v6[b] = None \/ IsAttempt(v6[b])
  /\ v8 \in Nat
  /\ v8 + Cardinality(Delayed) <= MaxAttempts + Cardinality(Browser) - 1

LEMMA Browsers ==
  /\ MaxAttempts \in Nat /\ MaxAttempts > 0 /\ MaxServerStarts \in Nat
  /\ IsFiniteSet(Browser) /\ Cardinality(Browser) \in Nat
  /\ \A S, T : IsFiniteSet(T) /\ S \subseteq T =>
        IsFiniteSet(S) /\ Cardinality(S) \in Nat /\ Cardinality(T) \in Nat
        /\ Cardinality(S) <= Cardinality(T)
<1>1. Ac!AccountsAssumption BY MCStoresAssumption
<1>2. Ac!IsFiniteSet(Browser) /\ MaxAttempts \in Nat /\ MaxAttempts > 0 /\ MaxServerStarts \in Nat
  BY <1>1 DEF Ac!AccountsAssumption
<1>3. IsFiniteSet(Browser) BY <1>2, SameCount
<1> QED BY <1>2, <1>3, FS_Subset, FS_CardinalityType

LEMMA PeopleInit == Ac!Init => PeopleBounds
<1> SUFFICES ASSUME Ac!Init PROVE PeopleBounds OBVIOUS
<1>1. /\ v1 = Ac!Empty /\ v2 = Ac!Empty /\ v3 = 0 /\ v4 = FALSE /\ v5 = {} /\ v8 = 0
      /\ v6 = [b \in Browser |-> None] /\ v7 = [b \in Browser |-> None]
  BY DEF Ac!Init
<1>2. Ac!Empty \in StoreOf BY DEF Ac!Empty, StoreOf
<1>3. Delayed = {} BY <1>1 DEF Delayed
<1>4. Cardinality({}) = 0 BY FS_EmptySet
<1>5. v4 \in BOOLEAN BY <1>1
<1>6. v8 + Cardinality(Delayed) <= MaxAttempts + Cardinality(Browser) - 1
  BY <1>1, <1>3, <1>4, Browsers
<1> QED BY <1>1, <1>2, <1>5, <1>6, Browsers DEF PeopleBounds

\* What a step leaves alone.
LEMMA PeopleStay ==
  ASSUME PeopleBounds, v1' \in StoreOf, v2' \in StoreOf, v3' = v3, v4' \in BOOLEAN,
         v5' \subseteq Host, v7' \in [Browser -> User \cup {None}],
         DOMAIN v6' = Browser, \A b \in Browser : v6'[b] = None \/ IsAttempt(v6'[b]),
         v8' \in Nat, v8' <= v8, Delayed' \subseteq Delayed
  PROVE  PeopleBounds'
<1>1. IsFiniteSet(Delayed) BY Browsers DEF Delayed
<1>2. /\ Cardinality(Delayed) \in Nat /\ Cardinality(Delayed') \in Nat
      /\ Cardinality(Delayed') <= Cardinality(Delayed)
  BY <1>1, Browsers
<1>3. v8' + Cardinality(Delayed') <= MaxAttempts + Cardinality(Browser) - 1
  BY <1>2, Browsers DEF PeopleBounds
<1> QED BY <1>3 DEF PeopleBounds

LEMMA PeopleRest ==
  ASSUME PeopleBounds, v1' \in StoreOf, v2' \in StoreOf, v3' = v3, v4' \in BOOLEAN,
         v5' \subseteq Host, v7' \in [Browser -> User \cup {None}], v6' = v6, v8' = v8
  PROVE  PeopleBounds'
<1>1. Delayed' = Delayed BY DEF Delayed
<1> QED BY <1>1, PeopleStay DEF PeopleBounds

\* A browser's attempt ends, or goes on.
LEMMA AttemptEnds ==
  ASSUME PeopleBounds, NEW b \in Browser, NEW a, a = None \/ (IsAttempt(a) /\ a.stage # "delayed"),
         v6' = [v6 EXCEPT ![b] = a]
  PROVE  /\ DOMAIN v6' = Browser /\ \A d \in Browser : v6'[d] = None \/ IsAttempt(v6'[d])
         /\ Delayed' = Delayed \ {b}
<1>1. DOMAIN v6' = Browser /\ v6'[b] = a /\ \A d \in Browser : d # b => v6'[d] = v6[d]
  BY DEF PeopleBounds
<1>2. Delayed' = Delayed \ {b} BY <1>1 DEF Delayed
<1> QED BY <1>1, <1>2 DEF PeopleBounds

LEMMA AttemptDropped ==
  ASSUME PeopleBounds, NEW b \in Browser, v6' = [v6 EXCEPT ![b] = None]
  PROVE  /\ DOMAIN v6' = Browser /\ \A d \in Browser : v6'[d] = None \/ IsAttempt(v6'[d])
         /\ Delayed' = Delayed \ {b}
<1>1. DOMAIN v6' = Browser /\ v6'[b] = None /\ \A d \in Browser : d # b => v6'[d] = v6[d]
  BY DEF PeopleBounds
<1>2. Delayed' = Delayed \ {b} BY <1>1 DEF Delayed
<1> QED BY <1>1, <1>2 DEF PeopleBounds

LEMMA AttemptAsks ==
  ASSUME NEW a, IsAttempt(a)
  PROVE  IsAttempt([a EXCEPT !.stage = "asking"]) /\ [a EXCEPT !.stage = "asking"].stage = "asking"
BY DEF IsAttempt

LEMMA PeopleBounded ==
  ASSUME PeopleBounds, [Ac!Next]_(Ac!vars)
  PROVE  PeopleBounds'
<1>1. /\ v1 \in StoreOf /\ v2 \in StoreOf /\ v3 \in 0..MaxServerStarts /\ v4 \in BOOLEAN
      /\ v5 \subseteq Host /\ v7 \in [Browser -> User \cup {None}]
      /\ DOMAIN v6 = Browser /\ v8 \in Nat
      /\ v8 + Cardinality(Delayed) <= MaxAttempts + Cardinality(Browser) - 1
  BY DEF PeopleBounds
<1>2. \A b \in Browser : v6[b] = None \/ IsAttempt(v6[b]) BY DEF PeopleBounds
<1>3. Ac!Known \in StoreOf BY <1>1 DEF Ac!Known
<1>4. IsFiniteSet(Delayed) /\ Delayed \subseteq Browser BY Browsers DEF Delayed
<1>5. Cardinality(Delayed) \in Nat BY <1>4, Browsers
\* an attempt is counted
<1>6. ASSUME NEW b \in Browser, b \in Delayed, Delayed' = Delayed \ {b}, v8' = v8 + 1
      PROVE  v8' \in Nat
             /\ v8' + Cardinality(Delayed') <= MaxAttempts + Cardinality(Browser) - 1
  <2>1. Cardinality(Delayed') = Cardinality(Delayed) - 1
    BY <1>4, <1>6, FS_RemoveElement
  <2> QED BY <1>1, <1>5, <1>6, <2>1, Browsers
<1>7. ASSUME NEW u \in User, NEW h \in Host \cup {None}, Ac!Setup(u, h) PROVE PeopleBounds'
  <2>1. UNCHANGED <<v2, v3, v4, v5, v6, v7, v8>> BY <1>7 DEF Ac!Setup
  <2>2. CASE h = None
    <3>1. v1' = [v1 EXCEPT !.users = @ \cup {u}] BY <1>7, <2>2 DEF Ac!Setup
    <3>2. v1' \in StoreOf BY <1>1, <3>1, StoreKept
    <3> QED BY <1>1, <2>1, <3>2, PeopleRest
  <2>3. CASE h # None
    <3>1. v1' = [v1 EXCEPT !.owner[h] = u] /\ h \in Host BY <1>7, <2>3 DEF Ac!Setup
    <3>2. v1' \in StoreOf BY <1>1, <3>1, StoreKept
    <3> QED BY <1>1, <2>1, <3>2, PeopleRest
  <2> QED BY <2>2, <2>3
<1>8. CASE Ac!StartServer
  <2>1. /\ v3 < MaxServerStarts /\ v3' = v3 + 1 /\ v4' = TRUE /\ v2' = v1 /\ v8' = 0
        /\ UNCHANGED <<v1, v5, v6>>
    BY <1>8 DEF Ac!StartServer
  <2>2. v7' \in [Browser -> User \cup {None}] BY <1>1, <1>8 DEF Ac!StartServer
  <2>3. v3' \in 0..MaxServerStarts BY <1>1, <2>1, Browsers
  <2>4. Delayed' = Delayed BY <2>1 DEF Delayed
  <2>5. Cardinality(Delayed) <= Cardinality(Browser) BY <1>4, Browsers
  <2>6. v8' + Cardinality(Delayed') <= MaxAttempts + Cardinality(Browser) - 1
    BY <1>5, <2>1, <2>4, <2>5, Browsers
  <2>7. v4' \in BOOLEAN BY <2>1
  <2>8. v8' \in Nat BY <2>1
  <2> QED BY <1>1, <1>2, <2>1, <2>2, <2>3, <2>6, <2>7, <2>8 DEF PeopleBounds
<1>9. CASE Ac!StopServer
  <2>1. /\ v4' = FALSE /\ v5' = {} /\ v6' = [b \in Browser |-> None]
        /\ UNCHANGED <<v1, v2, v3, v7, v8>>
    BY <1>9 DEF Ac!StopServer
  <2>2. Delayed' = {} BY <2>1 DEF Delayed
  <2>3. v4' \in BOOLEAN BY <2>1
  <2>4. DOMAIN v6' = Browser /\ \A b \in Browser : v6'[b] = None BY <2>1
  <2>5. v8' <= v8 BY <1>1, <2>1
  <2> QED BY <1>1, <2>1, <2>2, <2>3, <2>4, <2>5, PeopleStay
<1>10. ASSUME NEW b \in Browser, NEW h \in Host, Ac!CreateHost(b, h) PROVE PeopleBounds'
  <2> DEFINE d == [Ac!Known EXCEPT !.owner[h] = v7[b]]
  <2>1. v7[b] \in User \cup {None} BY <1>1
  <2>2. d \in StoreOf BY <1>3, <2>1, StoreKept
  <2>3. Ac!Saved(d) /\ UNCHANGED <<v3, v4, v5, v6, v7, v8>> BY <1>10 DEF Ac!CreateHost
  <2> HIDE DEF d
  <2>4. v1' \in StoreOf /\ v2' \in StoreOf BY <1>1, <2>2, <2>3 DEF Ac!Saved
  <2> QED BY <1>1, <2>3, <2>4, PeopleRest
<1>11. ASSUME NEW h \in Host, Ac!Connect(h) PROVE PeopleBounds'
  <2>1. v5' = v5 \cup {h} /\ UNCHANGED <<v1, v2, v3, v4, v6, v7, v8>> BY <1>11 DEF Ac!Connect
  <2> QED BY <1>1, <2>1, PeopleRest
<1>12. ASSUME NEW h \in Host, Ac!Disconnect(h) PROVE PeopleBounds'
  <2>1. /\ v5' \subseteq v5 /\ UNCHANGED <<v1, v2, v3, v4, v7, v8>> /\ DOMAIN v6' = Browser
        /\ \A b \in Browser : v6'[b] \in {None, v6[b]}
    BY <1>12 DEF Ac!Disconnect
  <2>2. Delayed' \subseteq Delayed BY <2>1 DEF Delayed
  <2>3. \A b \in Browser : v6'[b] = None \/ IsAttempt(v6'[b]) BY <1>2, <2>1
  <2>4. v5' \subseteq Host /\ v8' \in Nat /\ v8' <= v8 BY <1>1, <2>1
  <2> QED BY <1>1, <2>1, <2>2, <2>3, <2>4, PeopleStay
<1>13. ASSUME NEW b \in Browser, NEW u, NEW h, NEW t, Ac!Begin(b, u, h, t) PROVE PeopleBounds'
  <2> DEFINE a == Ac!Attempt("delayed", u, h, t)
  <2>1. /\ v6' = [v6 EXCEPT ![b] = a] /\ v8 < MaxAttempts
        /\ UNCHANGED <<v1, v2, v3, v4, v5, v7, v8>>
    BY <1>13 DEF Ac!Begin
  <2>2. IsAttempt(a) BY DEF IsAttempt, Ac!Attempt
  <2> HIDE DEF a
  <2>3. DOMAIN v6' = Browser /\ \A d \in Browser : v6'[d] \in {v6[d], a} BY <1>1, <2>1
  <2>4. Delayed' \subseteq Browser BY DEF Delayed
  <2>5. Cardinality(Delayed') \in Nat /\ Cardinality(Delayed') <= Cardinality(Browser)
    BY <2>4, Browsers
  <2>6. v8' + Cardinality(Delayed') <= MaxAttempts + Cardinality(Browser) - 1
    BY <1>1, <2>1, <2>5, Browsers
  <2>7. \A d \in Browser : v6'[d] = None \/ IsAttempt(v6'[d]) BY <1>2, <2>2, <2>3
  <2> QED BY <1>1, <2>1, <2>3, <2>6, <2>7 DEF PeopleBounds
<1>14. ASSUME NEW b \in Browser, NEW right \in BOOLEAN, Ac!PasswordLogin(b, right)
       PROVE  PeopleBounds'
  <2>1. /\ v8' = v8 + 1 /\ v6' = [v6 EXCEPT ![b] = None] /\ b \in Delayed
        /\ UNCHANGED <<v1, v2, v3, v4, v5>>
    BY <1>14 DEF Ac!PasswordLogin, Delayed
  <2>2. Ac!Known.users \subseteq User BY <1>3 DEF StoreOf
  <2>3. v7' \in [Browser -> User \cup {None}] BY <1>1, <1>14, <2>2 DEF Ac!PasswordLogin
  <2>4. /\ DOMAIN v6' = Browser /\ \A d \in Browser : v6'[d] = None \/ IsAttempt(v6'[d])
        /\ Delayed' = Delayed \ {b}
    BY <2>1, AttemptDropped
  <2> QED BY <1>1, <1>6, <2>1, <2>3, <2>4 DEF PeopleBounds
<1>15. ASSUME NEW b \in Browser, Ac!TokenLogin(b) PROVE PeopleBounds'
  <2> DEFINE a == IF v6[b].host \in v5 THEN [v6[b] EXCEPT !.stage = "asking"] ELSE None
  <2>1. /\ v8' = v8 + 1 /\ v6' = [v6 EXCEPT ![b] = a] /\ b \in Delayed
        /\ UNCHANGED <<v1, v2, v3, v4, v5, v7>>
    BY <1>1, <1>15 DEF Ac!TokenLogin, Delayed
  <2>2. IsAttempt(v6[b]) BY <1>2, <2>1 DEF Delayed
  <2>3. a = None \/ (IsAttempt(a) /\ a.stage # "delayed")
    <3>1. v6[b].host \notin v5 => a = None OBVIOUS
    <3>2. CASE v6[b].host \in v5
      <4> DEFINE k == v6[b]
      <4>1. IsAttempt(k) /\ a = [k EXCEPT !.stage = "asking"] BY <2>2, <3>2
      <4> HIDE DEF k, a
      <4>2. IsAttempt([k EXCEPT !.stage = "asking"])
            /\ [k EXCEPT !.stage = "asking"].stage = "asking"
        BY <4>1, AttemptAsks
      <4> QED BY <4>1, <4>2
    <3> HIDE DEF a
    <3> QED BY <3>1, <3>2
  <2> HIDE DEF a
  <2>4. /\ DOMAIN v6' = Browser /\ \A d \in Browser : v6'[d] = None \/ IsAttempt(v6'[d])
        /\ Delayed' = Delayed \ {b}
    BY <2>1, <2>3, AttemptEnds
  <2> QED BY <1>1, <1>6, <2>1, <2>4 DEF PeopleBounds
<1>16. ASSUME NEW b \in Browser, Ac!Logout(b) PROVE PeopleBounds'
  <2>1. v7' = [v7 EXCEPT ![b] = None] /\ UNCHANGED <<v1, v2, v3, v4, v5, v6, v8>>
    BY <1>16 DEF Ac!Logout
  <2>2. v7' \in [Browser -> User \cup {None}] BY <1>1, <2>1
  <2> QED BY <1>1, <2>1, <2>2, PeopleRest
<1>17. CASE Ac!AttemptAges
  <2>1. v8 > 0 /\ v8' = v8 - 1 /\ UNCHANGED <<v1, v2, v3, v4, v5, v6, v7>>
    BY <1>17 DEF Ac!AttemptAges
  <2>2. v8' \in Nat /\ v8' <= v8 BY <1>1, <2>1
  <2>3. Delayed' = Delayed BY <2>1 DEF Delayed
  <2> QED BY <1>1, <1>2, <2>1, <2>2, <2>3, PeopleStay
<1>18. ASSUME NEW p \in Server, NEW b \in Browser, Ac!Verify(p, b) PROVE PeopleBounds'
  <2>2. UNCHANGED <<v1, v2, v3, v4, v5, v8>> BY <1>18 DEF Ac!Verify
  <2>3. v6' = [v6 EXCEPT ![b] = None] BY <1>18 DEF Ac!Verify, Ac!Answered
  <2>4. Ac!Known.users \subseteq User BY <1>3 DEF StoreOf
  <2>5. v7' \in [Browser -> User \cup {None}] BY <1>1, <1>18, <2>4 DEF Ac!Verify, Ac!Answered
  <2>6. /\ DOMAIN v6' = Browser /\ \A d \in Browser : v6'[d] = None \/ IsAttempt(v6'[d])
        /\ Delayed' = Delayed \ {b}
    BY <2>3, AttemptDropped
  <2>7. Delayed' \subseteq Delayed /\ v8' \in Nat /\ v8' <= v8 BY <1>1, <2>2, <2>6
  <2> QED BY <1>1, <2>2, <2>5, <2>6, <2>7, PeopleStay
<1>19. ASSUME UNCHANGED Ac!server PROVE PeopleBounds'
  BY <1>1, <1>19, PeopleRest DEF Ac!server
<1>20. ASSUME \/ \E p \in Server, t \in Ac!Token, k \in {"temp", "perm"} : Ac!Create(p, t, k)
              \/ \E p \in Server : \/ Ac!RevokeTemporary(p) \/ Ac!Save(p)
                                   \/ Ac!CrashSaving(p) \/ Ac!Startup(p)
              \/ \E t \in Ac!Token : Ac!Expire(t)
              \/ \E valid \in BOOLEAN : Ac!Remote(valid)
              \/ Ac!FailureAges \/ UNCHANGED Ac!vars
       PROVE  PeopleBounds'
  <2>1. UNCHANGED Ac!server
    BY <1>20 DEF Ac!Create, Ac!RevokeTemporary, Ac!Save, Ac!CrashSaving, Ac!Startup, Ac!Expire,
                 Ac!Remote, Ac!FailureAges, Ac!vars
  <2> QED BY <1>19, <2>1
<1> QED
  BY <1>7, <1>8, <1>9, <1>10, <1>11, <1>12, <1>13, <1>14, <1>15, <1>16, <1>17, <1>18, <1>20
  DEF Ac!Next

-----------------------------------------------------------------------------
(* The shape of the state: accounts: tokens of hosts                       *)

\* What is about to be written: tokens, or {0}, when there is nothing to write.
WriteOf(w) == w.to \subseteq Ac!Token \cup {0} /\ w.new \subseteq Ac!Token /\ w.over \subseteq Ac!Token

TokenBounds ==
  /\ v9 \subseteq Ac!Token \cup {0} /\ v10 \in Ac!Token \cup {0}
  /\ \A p \in Server : WriteOf(v11[p])
  /\ v12 \in [Ac!Token -> {"new", "temp", "perm"}] /\ v13 \subseteq Ac!Token
  /\ v14 \in 0..MaxFailures /\ v15 \in 0..MaxCrashes

LEMMA WritesOf ==
  ASSUME NEW to, NEW new, NEW over, to \subseteq Ac!Token \cup {0}, new \subseteq Ac!Token,
         over \subseteq Ac!Token
  PROVE  WriteOf(Ac!Write(to, new, over))
BY DEF WriteOf, Ac!Write

LEMMA NothingToWrite == WriteOf(Ac!Idle)
<1>1. {0} \subseteq Ac!Token \cup {0} /\ {} \subseteq Ac!Token OBVIOUS
<1> QED BY <1>1, WritesOf DEF Ac!Idle

LEMMA TokenBoundsInit == Ac!Init => TokenBounds
<1> SUFFICES ASSUME Ac!Init PROVE TokenBounds OBVIOUS
<1>1. /\ v9 = {} /\ v10 = 0 /\ v11 = [p \in Server |-> Ac!Idle]
      /\ v12 = [t \in Ac!Token |-> "new"] /\ v13 = {} /\ v14 = 0 /\ v15 = 0
  BY DEF Ac!Init
<1>2. MaxFailures \in Nat /\ MaxCrashes \in Nat
  BY MCStoresAssumption DEF Ac!AccountsAssumption
<1>3. \A p \in Server : WriteOf(v11[p]) BY <1>1, NothingToWrite
<1> QED BY <1>1, <1>2, <1>3 DEF TokenBounds

\* A process begins to write, or has written.
LEMMA WriteBegun ==
  ASSUME TokensTypes, TokenBounds, NEW p \in Server, NEW w, WriteOf(w),
         v11' = [v11 EXCEPT ![p] = w]
  PROVE  \A q \in Server : WriteOf(v11'[q])
<1>1. v11'[p] = w /\ \A q \in Server : q # p => v11'[q] = v11[q] BY DEF TokensTypes
<1> QED BY <1>1 DEF TokenBounds

LEMMA TokensBounded ==
  ASSUME TokensInv, TokenBounds, [Ac!Next]_(Ac!vars)
  PROVE  TokenBounds'
<1>1. TokensTypes BY DEF TokensInv
<1>2. MaxFailures \in Nat /\ MaxCrashes \in Nat
  BY MCStoresAssumption DEF Ac!AccountsAssumption
<1>3. Ac!Loaded \subseteq Ac!Token BY DEF Ac!Loaded, TokenBounds
<1>4. /\ v9 \subseteq Ac!Token \cup {0} /\ v10 \in Ac!Token \cup {0}
      /\ v12 \in [Ac!Token -> {"new", "temp", "perm"}] /\ v13 \subseteq Ac!Token
      /\ v14 \in 0..MaxFailures /\ v15 \in 0..MaxCrashes
  BY DEF TokenBounds
<1>5. \A p \in Server : WriteOf(v11[p]) BY DEF TokenBounds
<1>6. ASSUME NEW p \in Server, NEW t \in Ac!Token, NEW k \in {"temp", "perm"}, Ac!Create(p, t, k)
      PROVE  TokenBounds'
  <2>1. v12' = [v12 EXCEPT ![t] = k] /\ UNCHANGED <<v9, v10, v13, v14, v15>>
    BY <1>6 DEF Ac!Create
  <2>2. v12' \in [Ac!Token -> {"new", "temp", "perm"}] BY <1>4, <2>1
  <2>3. PICK w : WriteOf(w) /\ v11' = [v11 EXCEPT ![p] = w]
    <3> DEFINE w1 == Ac!Write(Ac!Loaded \cup {t}, {t}, {})
               w2 == Ac!Write((Ac!Loaded \ Ac!Perm) \cup {t}, {t}, Ac!Loaded \cap Ac!Perm)
    <3>1. Ac!Loaded \cup {t} \subseteq Ac!Token \cup {0} /\ {t} \subseteq Ac!Token
      BY <1>3
    <3>2. (Ac!Loaded \ Ac!Perm) \cup {t} \subseteq Ac!Token \cup {0}
          /\ Ac!Loaded \cap Ac!Perm \subseteq Ac!Token /\ {} \subseteq Ac!Token
      BY <1>3
    <3>3. WriteOf(w1) BY <3>1, <3>2, WritesOf
    <3>4. WriteOf(w2) BY <3>1, <3>2, WritesOf
    <3>5. v11' = [v11 EXCEPT ![p] = w1] \/ v11' = [v11 EXCEPT ![p] = w2]
      BY <1>6 DEF Ac!Create
    <3> HIDE DEF w1, w2
    <3> QED BY <3>3, <3>4, <3>5
  <2>4. \A q \in Server : WriteOf(v11'[q]) BY <1>1, <2>3, WriteBegun
  <2> QED BY <1>4, <2>1, <2>2, <2>4 DEF TokenBounds
<1>7. ASSUME NEW p \in Server, NEW to, NEW over, to \subseteq Ac!Loaded, over \subseteq Ac!Loaded,
             v11' = [v11 EXCEPT ![p] = Ac!Write(to, {}, over)],
             UNCHANGED <<v9, v10, v12, v13, v14, v15>>
      PROVE  TokenBounds'
  <2>1. /\ to \subseteq Ac!Token \cup {0} /\ over \subseteq Ac!Token /\ {} \subseteq Ac!Token
    BY <1>3, <1>7
  <2>2. WriteOf(Ac!Write(to, {}, over)) BY <2>1, WritesOf
  <2>3. \A q \in Server : WriteOf(v11'[q]) BY <1>1, <1>7, <2>2, WriteBegun
  <2> QED BY <1>4, <1>7, <2>3 DEF TokenBounds
<1>8. ASSUME NEW p \in Server, Ac!RevokeTemporary(p) PROVE TokenBounds'
  <2>1. /\ v11' = [v11 EXCEPT ![p] = Ac!Write(Ac!Loaded \cap Ac!Perm, {}, Ac!Loaded \ Ac!Perm)]
        /\ UNCHANGED <<v9, v10, v12, v13, v14, v15>>
    BY <1>8 DEF Ac!RevokeTemporary
  <2>2. Ac!Loaded \cap Ac!Perm \subseteq Ac!Loaded /\ Ac!Loaded \ Ac!Perm \subseteq Ac!Loaded
    OBVIOUS
  <2> QED BY <1>7, <2>1, <2>2
<1>9. ASSUME NEW p \in Server, Ac!Startup(p) \/ \E b \in Browser : Ac!Verify(p, b)
      PROVE  TokenBounds'
  <2> DEFINE live == Ac!Loaded \ {s \in v13 : v12[s] = "temp"}
  <2>1. /\ v11' = [v11 EXCEPT ![p] = Ac!Write(live, {}, {})] \/ v11' = v11
        /\ UNCHANGED <<v9, v10, v12, v13, v14, v15>>
    BY <1>9 DEF Ac!Startup, Ac!Verify
  <2>2. live \subseteq Ac!Loaded /\ {} \subseteq Ac!Loaded OBVIOUS
  <2> HIDE DEF live
  <2>3. v11' = v11 => TokenBounds' BY <1>4, <1>5, <2>1 DEF TokenBounds
  <2> QED BY <1>7, <2>1, <2>2, <2>3
<1>10. ASSUME NEW p \in Server, Ac!Save(p) PROVE TokenBounds'
  <2>1. /\ v9' = v11[p].to /\ v11' = [v11 EXCEPT ![p] = Ac!Idle] /\ v13' = v13 \cup v11[p].over
        /\ v10' = v10 \/ v10' \in v11[p].new
        /\ UNCHANGED <<v12, v14, v15>>
    BY <1>10 DEF Ac!Save
  <2>2. WriteOf(v11[p]) BY <1>5
  <2>3. v9' \subseteq Ac!Token \cup {0} /\ v10' \in Ac!Token \cup {0} /\ v13' \subseteq Ac!Token
    BY <1>4, <2>1, <2>2 DEF WriteOf
  <2>4. \A q \in Server : WriteOf(v11'[q]) BY <1>1, <2>1, NothingToWrite, WriteBegun
  <2> QED BY <1>4, <2>1, <2>3, <2>4 DEF TokenBounds
<1>11. ASSUME NEW p \in Server, Ac!CrashSaving(p) PROVE TokenBounds'
  <2>1. /\ v15 < MaxCrashes /\ v15' = v15 + 1 /\ v9' = {0} /\ v11' = [v11 EXCEPT ![p] = Ac!Idle]
        /\ v13' = v13 \cup v11[p].over \cup v11[p].new
        /\ UNCHANGED <<v10, v12, v14>>
    BY <1>11 DEF Ac!CrashSaving
  <2>2. WriteOf(v11[p]) BY <1>5
  <2>3. v9' \subseteq Ac!Token \cup {0} /\ v13' \subseteq Ac!Token
    BY <1>4, <2>1, <2>2 DEF WriteOf
  <2>4. \A q \in Server : WriteOf(v11'[q]) BY <1>1, <2>1, NothingToWrite, WriteBegun
  <2>5. v15' \in 0..MaxCrashes BY <1>2, <1>4, <2>1
  <2> QED BY <1>4, <2>1, <2>3, <2>4, <2>5 DEF TokenBounds
<1>12. ASSUME NEW t \in Ac!Token, Ac!Expire(t) PROVE TokenBounds'
  <2>1. v13' = v13 \cup {t} /\ UNCHANGED <<v9, v10, v11, v12, v14, v15>> BY <1>12 DEF Ac!Expire
  <2> QED BY <1>4, <1>5, <2>1 DEF TokenBounds
<1>13. ASSUME Ac!FailureAges \/ \E valid \in BOOLEAN : Ac!Remote(valid) PROVE TokenBounds'
  <2>1. UNCHANGED Ac!tokens BY <1>13 DEF Ac!FailureAges, Ac!Remote
  <2>2. v14' \in 0..MaxFailures BY <1>2, <1>4, <1>13 DEF Ac!FailureAges, Ac!Remote
  <2>3. UNCHANGED <<v9, v10, v11, v12, v13, v15>> BY <2>1 DEF Ac!tokens
  <2> QED BY <1>4, <1>5, <2>2, <2>3 DEF TokenBounds
<1>14. ASSUME UNCHANGED <<Ac!tokens, v14>> PROVE TokenBounds'
  <2>1. UNCHANGED <<v9, v10, v11, v12, v13, v14, v15>> BY <1>14 DEF Ac!tokens
  <2> QED BY <1>4, <1>5, <2>1 DEF TokenBounds
<1>15. ASSUME \/ \E u \in User, h \in Host \cup {None} : Ac!Setup(u, h)
              \/ Ac!StartServer \/ Ac!StopServer
              \/ \E b \in Browser, h \in Host : Ac!CreateHost(b, h)
              \/ \E h \in Host : Ac!Connect(h) \/ Ac!Disconnect(h)
              \/ \E b \in Browser, u \in User : Ac!Begin(b, u, None, 0)
              \/ \E b \in Browser, t \in Ac!Token : Ac!Begin(b, None, Home, t)
              \/ \E b \in Browser : Ac!TokenLogin(b) \/ Ac!Logout(b)
              \/ \E b \in Browser, right \in BOOLEAN : Ac!PasswordLogin(b, right)
              \/ Ac!AttemptAges \/ UNCHANGED Ac!vars
       PROVE  TokenBounds'
  <2>1. UNCHANGED <<Ac!tokens, v14>>
    BY <1>15 DEF Ac!Setup, Ac!StartServer, Ac!StopServer, Ac!CreateHost, Ac!Connect,
                 Ac!Disconnect, Ac!Begin, Ac!TokenLogin, Ac!Logout, Ac!PasswordLogin,
                 Ac!AttemptAges, Ac!vars
  <2> QED BY <1>14, <2>1
<1> QED
  BY <1>6, <1>8, <1>9, <1>10, <1>11, <1>12, <1>13, <1>15 DEF Ac!Next

LEMMA AccountsShape ==
  ASSUME PeopleBounds, TokenBounds
  PROVE  Ac!AccountsTypeOK
<1>1. IsFiniteSet(Delayed) /\ Cardinality(Delayed) \in Nat BY Browsers DEF Delayed
<1>2. v8 \in 0..(MaxAttempts + Cardinality(Browser) - 1)
  BY <1>1, Browsers DEF PeopleBounds
<1>3. Ac!Cardinality(Browser) = Cardinality(Browser) BY SameCount
<1>4. v1 \in StoreOf /\ v2 \in StoreOf /\ v3 \in 0..MaxServerStarts /\ v4 \in BOOLEAN
      /\ v5 \subseteq Host /\ v7 \in [Browser -> User \cup {None}]
  BY DEF PeopleBounds
<1>5. v8 \in 0..(MaxAttempts + Ac!Cardinality(Browser) - 1) BY <1>2, <1>3
<1> QED BY <1>4, <1>5 DEF TokenBounds, StoreOf, Ac!AccountsTypeOK

-----------------------------------------------------------------------------
(* The shape of the state: the planner of clusters                         *)

\* Connections are of ids that have been given out.
PlanLinks ==
  v9 \in (1..MaxId) \cup {0} /\ v10 \subseteq (1..MaxId) \X (1..MaxId)

LEMMA PlanLinked ==
  ASSUME PlanLinks, [Pl!Next]_(Pl!vars)
  PROVE  PlanLinks'
<1>1. CASE \/ \E x \in LetGo : Pl!DropMachine(x)
           \/ \E sub \in BOOLEAN : Pl!AddChild(sub) \/ Pl!AddGrowing(sub)
           \/ \E p \in v7 : Pl!Placed(p) \/ Pl!Grown(p) \/ Pl!Added(p) \/ Pl!Resized(p)
           \/ \E id \in 1..MaxId : \/ Pl!Enter(id)
                                   \/ \E x \in LetGo : Pl!DragMachine(id, x) \/ Pl!DragChild(id, x)
                                   \/ \E d \in {-1, 1} : Pl!Resize(id, d)
           \/ Pl!Release \/ Pl!Redo \/ Pl!Exit \/ UNCHANGED Pl!vars
  <2>1. UNCHANGED <<v9, v10>>
    BY <1>1 DEF Pl!DropMachine, Pl!AddChild, Pl!AddGrowing, Pl!Placed, Pl!Grown, Pl!Added,
       Pl!Resized, Pl!Enter, Pl!DragMachine, Pl!DragChild, Pl!Resize, Pl!Release, Pl!Redo,
       Pl!Exit, Pl!vars, Pl!editor
  <2> QED BY <2>1 DEF PlanLinks
<1>2. ASSUME NEW id, Pl!RemoveComponent(id), v9' = v9 PROVE PlanLinks'
  <2>1. v10' \subseteq v10 BY <1>2 DEF Pl!RemoveComponent
  <2> QED BY <1>2, <2>1 DEF PlanLinks
<1>3. CASE \E id \in 1..MaxId : Pl!Delete(id)
  <2>1. PICK id \in 1..MaxId : Pl!RemoveComponent(id) /\ v9' = v9 BY <1>3 DEF Pl!Delete
  <2> QED BY <1>2, <2>1
<1>4. CASE Pl!Undo
  <2>1. PICK a : a = Pl!Last(v5) OBVIOUS
  <2>2. /\ v9' = v9
        /\ Pl!RemoveComponent(a.id) \/ v10' = v10
    BY <1>4, <2>1 DEF Pl!Undo
  <2>3. PICK id : id = a.id OBVIOUS
  <2>4. Pl!RemoveComponent(id) \/ v10' = v10 BY <2>2, <2>3
  <2> QED BY <1>2, <2>2, <2>4 DEF PlanLinks
<1>5. ASSUME NEW id \in 1..MaxId, Pl!ClickPort(id) PROVE PlanLinks'
  <2>1. /\ v9' \in {id, 0}
        /\ v10' = v10 \/ (v9 # 0 /\ v10' = v10 \cup {<<v9, id>>})
    BY <1>5 DEF Pl!ClickPort, Pl!NoId
  <2> QED BY <2>1 DEF PlanLinks
<1>6. CASE \/ Pl!ClearAll \/ Pl!CancelConnection
           \/ \E c \in v10 : Pl!RemoveConnection(c)
  <2>1. v9' \in {0, v9} /\ v10' \subseteq v10
    BY <1>6 DEF Pl!ClearAll, Pl!CancelConnection, Pl!RemoveConnection, Pl!NoId
  <2> QED BY <2>1 DEF PlanLinks
<1> QED BY <1>1, <1>3, <1>4, <1>5, <1>6 DEF Pl!Next, Pl!Id

LEMMA PlanLinksInit == Pl!Init => PlanLinks
BY DEF Pl!Init, Pl!NoId, PlanLinks

LEMMA PlannerShape == PlanInv /\ PlanLinks => Pl!PlannerTypeOK
<1> SUFFICES ASSUME PlanInv, PlanLinks PROVE Pl!PlannerTypeOK OBVIOUS
<1>1. v2 \in 1..(MaxId + 1) /\ DOMAIN v1 \subseteq 1..MaxId
  BY PlanConstants DEF PlanInv, PlanTypes
<1> QED BY <1>1 DEF PlanLinks, Pl!PlannerTypeOK, Pl!Id, Pl!NoId

-----------------------------------------------------------------------------
(* The shape of the state: the planner of homes                            *)

\* The floor that is edited is one of the floors.
FloorShown == \E k \in DOMAIN v1 : v1[k] = v5

LEMMA FloorsBounded ==
  ASSUME HomeInv, FloorShown, [Ho!Next]_(Ho!vars)
  PROVE  FloorShown'
<1>1. v1 \in Seq(Floor) BY DEF HomeInv, HomeTypes
<1>2. ASSUME UNCHANGED <<v1, v5>> PROVE FloorShown' BY <1>2 DEF FloorShown
<1>3. ASSUME NEW f, Ho!SetFloor(f) PROVE FloorShown'
  <2>1. v1' = v1 /\ v5' = IF f \in Ho!Range(v1) THEN f ELSE v5 BY <1>3 DEF Ho!SetFloor
  <2> QED BY <2>1 DEF FloorShown, Ho!Range
<1>4. CASE Ho!AddFloor
  <2>1. PICK f : f \in Floor /\ v1' = Append(v1, f) /\ v5' = f BY <1>4 DEF Ho!AddFloor
  <2>2. /\ Len(v1) + 1 \in DOMAIN v1' /\ v1'[Len(v1) + 1] = f BY <1>1, <2>1
  <2> QED BY <2>1, <2>2 DEF FloorShown
<1>5. ASSUME NEW t \in v14, Ho!LoadPreset(t) PROVE FloorShown'
  <2>1. t.then = "preset" /\ t.id \in Preset BY <1>5 DEF HomeInv, Ho!LoadPreset
  <2>2. PICK p \in Preset : p = t.id BY <2>1
  <2>3. DOMAIN p \subseteq Floor /\ IsFiniteSet(DOMAIN p) /\ Floor \subseteq Nat /\ 0 \in Floor
    BY HomeConstants
  <2>4. PICK s \in Ho!Upper(p) : v1' = <<0>> \o s BY <1>5, <2>2 DEF Ho!LoadPreset
  <2>5. v5' = CHOOSE f \in {0} \cup DOMAIN p : \A g \in {0} \cup DOMAIN p : f <= g
    BY <1>5, <2>2 DEF Ho!LoadPreset
  <2>6. v5' = 0
    <3>1. \A g \in {0} \cup DOMAIN p : g \in Nat /\ 0 <= g BY <2>3
    <3>2. v5' \in {0} \cup DOMAIN p /\ v5' <= 0 BY <2>5, <3>1
    <3> QED BY <3>1, <3>2
  <2>7. s \in Seq(Floor)
    <3>1. PICK S : S = DOMAIN p \ {0} OBVIOUS
    <3>2. IsFiniteSet(S) BY <2>3, <3>1, FS_Subset
    <3>3. PICK k \in Nat : k = Ho!Cardinality(S) BY <3>2, FS_CardinalityType, SameSize
    <3>4. s \in [1..k -> S] BY <2>4, <3>1, <3>3 DEF Ho!Upper
    <3>5. s \in [1..k -> Floor] BY <2>3, <3>1, <3>4
    <3> QED BY <3>5
  <2>8. 1 \in DOMAIN v1' /\ v1'[1] = 0 BY <2>3, <2>4, <2>7
  <2> QED BY <2>6, <2>8 DEF FloorShown
<1>6. CASE \/ \E t \in v14 : Ho!Complete(t) \/ \E i \in t.left : Ho!Loaded(t, i)
           \/ \E x \in {"wall", "furniture"} \cup DOMAIN Width : Ho!PickTool(x)
           \/ \E e \in Edge : Ho!StartWall(e) \/ Ho!DragWall(e) \/ Ho!Open(e)
           \/ \E x \in Spot : Ho!Place(x) \/ Ho!Drag(x)
           \/ \E m \in v12 : Ho!Pick(m)
           \/ Ho!PickNothing \/ Ho!PointerUp \/ Ho!Turn(1) \/ Ho!Turn(4) \/ Ho!Delete
           \/ \E p \in Preset : Ho!AskPreset(p)
           \/ UNCHANGED Ho!vars
  <2>1. UNCHANGED <<v1, v5>>
    BY <1>6 DEF Ho!Complete, Ho!Loaded, Ho!PickTool, Ho!StartWall, Ho!DragWall, Ho!Open,
       Ho!Place, Ho!Drag, Ho!Pick, Ho!PickNothing, Ho!PointerUp, Ho!Turn, Ho!Delete,
       Ho!AskPreset, Ho!home, Ho!vars
  <2> QED BY <1>2, <2>1
<1> QED BY <1>3, <1>4, <1>5, <1>6 DEF Ho!Next

\* Pieces have numbers.
FurnNumbered == v4 \in Nat /\ \A f \in Floor : DOMAIN v3[f] \subseteq Nat

LEMMA FurnBounded ==
  ASSUME HomeInv, FurnNumbered, [Ho!Next]_(Ho!vars)
  PROVE  FurnNumbered'
<1>1. DOMAIN v3 = Floor /\ v5 \in Floor BY DEF HomeInv, HomeTypes
<1>2. ASSUME UNCHANGED <<v3, v4>> PROVE FurnNumbered' BY <1>2 DEF FurnNumbered
<1>3. ASSUME v4' = v4, \A f \in Floor : DOMAIN v3'[f] \subseteq DOMAIN v3[f] PROVE FurnNumbered'
  BY <1>3 DEF FurnNumbered
<1>4. ASSUME NEW x, Ho!Place(x) PROVE FurnNumbered'
  <2>1. PICK i, d : i = v4 /\ d = [at |-> x, rot |-> 0] OBVIOUS
  <2>2. v3' = [v3 EXCEPT ![v5] = Ho!With(@, i, d)] /\ v4' = v4 + 1
    BY <1>4, <2>1 DEF Ho!Place
  <2>3. PICK g : g = v3[v5] OBVIOUS
  <2>4. v3'[v5] = Ho!With(g, i, d) /\ \A f \in Floor : f # v5 => v3'[f] = v3[f]
    BY <1>1, <2>2, <2>3
  <2>5. DOMAIN v3'[v5] = DOMAIN g \cup {i} BY <2>4 DEF Ho!With
  <2>6. v4' \in Nat /\ i \in Nat BY <2>1, <2>2 DEF FurnNumbered
  <2>7. DOMAIN v3'[v5] \subseteq Nat BY <1>1, <2>3, <2>5, <2>6 DEF FurnNumbered
  <2> QED BY <2>4, <2>6, <2>7 DEF FurnNumbered
<1>5. ASSUME NEW x, Ho!Drag(x) PROVE FurnNumbered'
  <2>1. v3' = [v3 EXCEPT ![v5][v7].at = x] /\ v4' = v4 BY <1>5 DEF Ho!Drag
  <2>2. \A f \in Floor : DOMAIN v3'[f] = DOMAIN v3[f] BY <1>1, <2>1
  <2> QED BY <1>3, <2>1, <2>2
<1>6. ASSUME NEW by, Ho!Turn(by) PROVE FurnNumbered'
  <2>1. v3' = [v3 EXCEPT ![v5][v7].rot = (@ + by) % 8] /\ v4' = v4 BY <1>6 DEF Ho!Turn
  <2>2. \A f \in Floor : DOMAIN v3'[f] = DOMAIN v3[f] BY <1>1, <2>1
  <2> QED BY <1>3, <2>1, <2>2
<1>7. CASE Ho!Delete
  <2>1. /\ v4' = v4
        /\ v3' = v3 \/ v3' = [v3 EXCEPT ![Ho!Holder(v7)[1]] = Ho!But(@, v7)]
    BY <1>7 DEF Ho!Delete
  <2>2. PICK h, i : h = Ho!Holder(v7)[1] /\ i = v7 OBVIOUS
  <2>3. CASE v3' = [v3 EXCEPT ![h] = Ho!But(@, i)]
    <3>1. \A f \in Floor : v3'[f] = IF f = h THEN Ho!But(v3[f], i) ELSE v3[f] BY <1>1, <2>3
    <3>2. \A f \in Floor : DOMAIN Ho!But(v3[f], i) \subseteq DOMAIN v3[f] BY DEF Ho!But
    <3>3. \A f \in Floor : DOMAIN v3'[f] \subseteq DOMAIN v3[f] BY <3>1, <3>2
    <3> QED BY <1>3, <2>1, <3>3
  <2> QED BY <1>2, <2>1, <2>2, <2>3
<1>8. ASSUME NEW t \in v14, Ho!LoadPreset(t) PROVE FurnNumbered'
  <2>1. t.then = "preset" /\ t.id \in Preset BY <1>8 DEF HomeInv, Ho!LoadPreset
  <2>2. PICK p \in Preset : p = t.id BY <2>1
  <2>3. \A f \in DOMAIN p : p[f] \in Seq(Int) BY HomeConstants
  <2>4. v3' = [f \in Floor |-> IF f \in DOMAIN p THEN Ho!Furnished(p[f]) ELSE Ho!Empty]
        /\ v4' = 1
    BY <1>8, <2>2 DEF Ho!LoadPreset
  <2>5. ASSUME NEW f \in Floor PROVE DOMAIN v3'[f] \subseteq Nat
    <3>1. CASE f \in DOMAIN p
      <4>1. PICK s \in Seq(Int) : s = p[f] BY <2>3, <3>1
      <4>2. DOMAIN v3'[f] = 1..Len(s) BY <2>4, <3>1, <4>1 DEF Ho!Furnished
      <4> QED BY <4>2
    <3>2. CASE f \notin DOMAIN p
      <4>1. DOMAIN v3'[f] = {} BY <2>4, <3>2 DEF Ho!Empty
      <4> QED BY <4>1
    <3> QED BY <3>1, <3>2
  <2> QED BY <2>4, <2>5 DEF FurnNumbered
<1>9. CASE \/ \E t \in v14 : Ho!Complete(t) \/ \E i \in t.left : Ho!Loaded(t, i)
           \/ \E x \in {"wall", "furniture"} \cup DOMAIN Width : Ho!PickTool(x)
           \/ \E e \in Edge : Ho!StartWall(e) \/ Ho!DragWall(e) \/ Ho!Open(e)
           \/ \E m \in v12 : Ho!Pick(m)
           \/ Ho!PickNothing \/ Ho!PointerUp \/ Ho!AddFloor
           \/ \E f \in v18 : Ho!SetFloor(f)
           \/ \E p \in Preset : Ho!AskPreset(p)
           \/ UNCHANGED Ho!vars
  <2>1. UNCHANGED <<v3, v4>>
    BY <1>9 DEF Ho!Complete, Ho!Loaded, Ho!PickTool, Ho!StartWall, Ho!DragWall, Ho!Open,
       Ho!Pick, Ho!PickNothing, Ho!PointerUp, Ho!AddFloor, Ho!SetFloor, Ho!AskPreset,
       Ho!home, Ho!vars
  <2> QED BY <1>2, <2>1
<1> QED BY <1>4, <1>5, <1>6, <1>7, <1>8, <1>9 DEF Ho!Next

\* A rebuild has the number of its edit, and what it places a number.
RebuildOf(t) == t.n \in Nat /\ t.n <= v15 /\ (t.then = "place" => t.id \in Nat)
EditsNumbered == v15 \in 0..MaxEdits /\ \A t \in v14 : RebuildOf(t)

LEMMA EditNumbered ==
  ASSUME EditsNumbered, NEW left, NEW then, NEW id, v15 < MaxEdits, v15' = v15 + 1,
         then = "place" => id \in Nat,
         \A t \in v14' : t \in v14 \/ t = [n |-> v15 + 1, left |-> left, then |-> then, id |-> id]
  PROVE  EditsNumbered'
<1>1. MaxEdits \in Nat BY MCStoresAssumption DEF Ho!HomePlannerAssumption
<1>2. v15 \in Nat /\ v15' \in 0..MaxEdits BY <1>1 DEF EditsNumbered
<1>3. ASSUME NEW t \in v14 PROVE RebuildOf(t)' BY <1>2 DEF EditsNumbered, RebuildOf
<1>4. ASSUME NEW t, t = [n |-> v15 + 1, left |-> left, then |-> then, id |-> id]
      PROVE  RebuildOf(t)'
  <2>1. t.n = v15 + 1 /\ t.then = then /\ t.id = id BY <1>4
  <2> QED BY <1>2, <2>1 DEF RebuildOf
<1>5. \A t \in v14' : RebuildOf(t)' BY <1>3, <1>4
<1> QED BY <1>2, <1>5 DEF EditsNumbered, RebuildOf

LEMMA RebuildNumbered ==
  ASSUME EditsNumbered, NEW ms, NEW w, NEW f, NEW then, NEW id, Ho!Rebuild(ms, w, f, then, id),
         then = "place" => id \in Nat
  PROVE  EditsNumbered'
BY EditNumbered DEF Ho!Rebuild

LEMMA EditsBounded ==
  ASSUME HomeInv, FurnNumbered, EditsNumbered, [Ho!Next]_(Ho!vars)
  PROVE  EditsNumbered'
<1>1. ASSUME NEW e, Ho!StartWall(e) \/ Ho!DragWall(e) \/ Ho!Open(e) PROVE EditsNumbered'
  <2>1. PICK then, w, id : /\ then # "place"
                           /\ Ho!Rebuild(v13, w, v3[v5], then, id)
    BY <1>1 DEF Ho!StartWall, Ho!DragWall, Ho!Open
  <2> QED BY <2>1, RebuildNumbered
<1>2. ASSUME NEW x, Ho!Place(x) PROVE EditsNumbered'
  <2>1. Ho!Rebuild(v13, v2[v5], v3'[v5], "place", v4) BY <1>2 DEF Ho!Place
  <2>2. PICK f : f = v3'[v5] OBVIOUS
  <2>3. Ho!Rebuild(v13, v2[v5], f, "place", v4) BY <2>1, <2>2
  <2> QED BY <2>3, RebuildNumbered DEF FurnNumbered
<1>3. ASSUME \/ Ho!PointerUp \/ Ho!Delete \/ Ho!AddFloor \/ Ho!Turn(1) \/ Ho!Turn(4)
             \/ \E f \in v18 : Ho!SetFloor(f)
      PROVE  EditsNumbered'
  <2>1. \/ UNCHANGED <<v14, v15>>
        \/ \E w, f, then, id : then # "place" /\ Ho!Rebuild(v13, w, f, then, id)
    <3>1. CASE Ho!PointerUp BY <3>1 DEF Ho!PointerUp, Ho!picture
    <3>2. CASE Ho!Delete BY <3>2 DEF Ho!Delete, Ho!picture
    <3>3. CASE Ho!AddFloor BY <3>3 DEF Ho!AddFloor
    <3>4. CASE Ho!Turn(1) \/ Ho!Turn(4) BY <3>4 DEF Ho!Turn
    <3>5. CASE \E f \in v18 : Ho!SetFloor(f) BY <3>5 DEF Ho!SetFloor
    <3> QED BY <1>3, <3>1, <3>2, <3>3, <3>4, <3>5
  <2>2. UNCHANGED <<v14, v15>> => EditsNumbered' BY DEF EditsNumbered, RebuildOf
  <2> QED BY <2>1, <2>2, RebuildNumbered
<1>4. ASSUME NEW p \in Preset, Ho!AskPreset(p) PROVE EditsNumbered'
  <2> DEFINE t == [n |-> 0, left |-> {}, then |-> "preset", id |-> p]
  <2>1. v14' = v14 \cup {t} /\ v15' = v15 BY <1>4 DEF Ho!AskPreset
  <2>2. t.n = 0 /\ t.then = "preset" OBVIOUS
  <2> HIDE DEF t
  <2>3. RebuildOf(t)' BY <2>1, <2>2 DEF RebuildOf, EditsNumbered
  <2> QED BY <2>1, <2>3 DEF EditsNumbered, RebuildOf
<1>5. ASSUME NEW t \in v14, Ho!LoadPreset(t) PROVE EditsNumbered'
  <2>1. PICK left : /\ v15 < MaxEdits /\ v15' = v15 + 1
                    /\ v14' = (v14 \ {t}) \cup {[n |-> v15 + 1, left |-> left,
                                                 then |-> "loaded", id |-> None]}
    BY <1>5 DEF Ho!LoadPreset
  <2>2. PICK id : id = None OBVIOUS
  <2>3. \A u \in v14' : u \in v14 \/ u = [n |-> v15 + 1, left |-> left, then |-> "loaded", id |-> id]
    BY <2>1, <2>2
  <2> QED BY <2>1, <2>3, EditNumbered
<1>6. ASSUME NEW t \in v14, NEW i, Ho!Loaded(t, i) PROVE EditsNumbered'
  <2> DEFINE u == [t EXCEPT !.left = @ \ {i}]
  <2>1. v14' = (v14 \ {t}) \cup {u} /\ v15' = v15 BY <1>6 DEF Ho!Loaded
  <2>2. t = [n |-> t.n, left |-> t.left, then |-> t.then, id |-> t.id] BY DEF HomeInv, HomeTask
  <2>3. u.n = t.n /\ u.then = t.then /\ u.id = t.id BY <2>2
  <2> HIDE DEF u
  <2>4. RebuildOf(u)' BY <2>1, <2>3 DEF RebuildOf, EditsNumbered
  <2> QED BY <2>1, <2>4 DEF EditsNumbered, RebuildOf
<1>7. ASSUME v14' \subseteq v14, v15' = v15 PROVE EditsNumbered'
  BY <1>7 DEF EditsNumbered, RebuildOf
<1>8. CASE \/ \E t \in v14 : Ho!Complete(t)
           \/ \E x \in {"wall", "furniture"} \cup DOMAIN Width : Ho!PickTool(x)
           \/ \E x \in Spot : Ho!Drag(x)
           \/ \E m \in v12 : Ho!Pick(m)
           \/ Ho!PickNothing \/ UNCHANGED Ho!vars
  <2>1. v14' \subseteq v14 /\ v15' = v15
    BY <1>8 DEF Ho!Complete, Ho!PickTool, Ho!Drag, Ho!Pick, Ho!PickNothing, Ho!picture, Ho!vars
  <2> QED BY <1>7, <2>1
<1> QED BY <1>1, <1>2, <1>3, <1>4, <1>5, <1>6, <1>8 DEF Ho!Next

\* What the pointer does, and what is selected.
Pointing ==
  /\ v7 \in Nat \cup {None} /\ v8 \in BOOLEAN /\ v10 \in BOOLEAN
  /\ v9 \in {None, "add", "remove"}

LEMMA PointingStays ==
  ASSUME HomeInv, FurnNumbered, EditsNumbered, Pointing, [Ho!Next]_(Ho!vars)
  PROVE  Pointing'
<1>1. ASSUME NEW m \in v12, Ho!Pick(m) PROVE Pointing'
  <2>1. v14 = {} BY <1>1 DEF Ho!Pick, Ho!Acts
  <2>2. m[1] \in DOMAIN v3[v5] BY <2>1 DEF HomeInv, Drawing
  <2>3. m[1] \in Nat BY <2>2 DEF HomeInv, HomeTypes, FurnNumbered
  <2>4. v7' = m[1] /\ v9' = v9 BY <1>1 DEF Ho!Pick
  <2>5. v8' \in BOOLEAN /\ v10' \in BOOLEAN BY <1>1 DEF Ho!Pick, Pointing
  <2> QED BY <2>3, <2>4, <2>5 DEF Pointing
<1>2. ASSUME NEW t \in v14, Ho!Complete(t) PROVE Pointing'
  <2>1. t.then = "place" => t.id \in Nat BY DEF EditsNumbered, RebuildOf
  <2>2. v7' \in {t.id, v7, None} /\ (v7' = t.id => t.then = "place" \/ v7' \in {v7, None})
        /\ UNCHANGED <<v8, v9>>
    BY <1>2 DEF Ho!Complete
  <2>3. v10' \in BOOLEAN BY <1>2 DEF Ho!Complete
  <2> QED BY <2>1, <2>2, <2>3 DEF Pointing
<1>3. ASSUME v7' \in {v7, None}, UNCHANGED <<v8, v9, v10>> PROVE Pointing'
  BY <1>3 DEF Pointing
<1>4. ASSUME NEW e, Ho!StartWall(e) PROVE Pointing'
  <2>1. v9' \in {"add", "remove"} /\ UNCHANGED <<v7, v8, v10>> BY <1>4 DEF Ho!StartWall
  <2> QED BY <2>1 DEF Pointing
<1>5. CASE Ho!PointerUp
  <2>1. v7' = v7 /\ v9' = None BY <1>5 DEF Ho!PointerUp
  <2>2. v8' \in BOOLEAN /\ v10' \in BOOLEAN BY <1>5 DEF Ho!PointerUp
  <2> QED BY <2>1, <2>2 DEF Pointing
<1>6. CASE \/ \E t \in v14 : Ho!LoadPreset(t) \/ \E i \in t.left : Ho!Loaded(t, i)
           \/ \E x \in {"wall", "furniture"} \cup DOMAIN Width : Ho!PickTool(x)
           \/ \E e \in Edge : Ho!DragWall(e) \/ Ho!Open(e)
           \/ \E x \in Spot : Ho!Place(x) \/ Ho!Drag(x)
           \/ Ho!PickNothing \/ Ho!Turn(1) \/ Ho!Turn(4) \/ Ho!Delete
           \/ \E f \in v18 : Ho!SetFloor(f)
           \/ Ho!AddFloor
           \/ \E p \in Preset : Ho!AskPreset(p)
           \/ UNCHANGED Ho!vars
  <2>1. v7' \in {v7, None} /\ UNCHANGED <<v8, v9, v10>>
    BY <1>6 DEF Ho!LoadPreset, Ho!Loaded, Ho!PickTool, Ho!DragWall, Ho!Open, Ho!Place, Ho!Drag,
       Ho!PickNothing, Ho!Turn, Ho!Delete, Ho!SetFloor, Ho!AddFloor, Ho!AskPreset, Ho!vars
  <2> QED BY <1>3, <2>1
<1> QED BY <1>1, <1>2, <1>4, <1>5, <1>6 DEF Ho!Next

HomeBounds == FloorShown /\ FurnNumbered /\ EditsNumbered /\ Pointing

LEMMA HomeBoundsInit == Ho!Init => HomeBounds
<1> SUFFICES ASSUME Ho!Init PROVE HomeBounds OBVIOUS
<1>1. MaxEdits \in Nat BY MCStoresAssumption DEF Ho!HomePlannerAssumption
<1>2. /\ v1 = <<0>> /\ v3 = [f \in Floor |-> <<>>] /\ v4 = 1 /\ v5 = 0 /\ v7 = None
      /\ v9 = None /\ v14 = {} /\ v15 = 0
  BY DEF Ho!Init, Ho!Empty
<1>3. v8 \in BOOLEAN /\ v10 \in BOOLEAN BY DEF Ho!Init
<1>4. FloorShown BY <1>2 DEF FloorShown
<1>5. FurnNumbered BY <1>2 DEF FurnNumbered
<1>6. EditsNumbered BY <1>1, <1>2 DEF EditsNumbered
<1>7. Pointing BY <1>2, <1>3 DEF Pointing
<1> QED BY <1>4, <1>5, <1>6, <1>7 DEF HomeBounds

LEMMA HomeBounded ==
  ASSUME HomeInv, HomeBounds, [Ho!Next]_(Ho!vars)
  PROVE  HomeBounds'
BY FloorsBounded, FurnBounded, EditsBounded, PointingStays DEF HomeBounds

LEMMA HomeShape == HomeInv /\ HomeBounds => Ho!HomePlannerTypeOK
<1> SUFFICES ASSUME HomeInv, HomeBounds PROVE Ho!HomePlannerTypeOK OBVIOUS
<1>1. v5 \in Ho!Range(v1) BY DEF HomeBounds, FloorShown, Ho!Range
<1>2. Ho!Range(v1) \subseteq Floor
  <2>1. \A i \in DOMAIN v1 : v1[i] \in Floor BY DEF HomeInv, HomeTypes
  <2> QED BY <2>1 DEF Ho!Range
<1>3. \A i \in DOMAIN v13 : v13[i] \in v12 BY DEF HomeInv, Drawing
<1>4. v4 \in Nat /\ v15 \in 0..MaxEdits /\ \A t \in v14 : t.n <= v15
  BY DEF HomeBounds, FurnNumbered, EditsNumbered, RebuildOf
<1>5. /\ v7 \in Nat \cup {None} /\ v8 \in BOOLEAN /\ v10 \in BOOLEAN
      /\ v9 \in {None, "add", "remove"}
  BY DEF HomeBounds, Pointing
<1> QED BY <1>1, <1>2, <1>3, <1>4, <1>5 DEF Ho!HomePlannerTypeOK

-----------------------------------------------------------------------------
(* The shape of the state: hosted apps                                     *)

\* Nothing has a number that no container had, but a volume made ahead of its container.
MadeBounds ==
  /\ v4 \in Nat /\ v4 <= MaxMade
  /\ \A n \in App : v1[n] <= v4 /\ v2[n] <= v4 + 1 /\ v5[n].no <= v4
  /\ \A t \in Worker : v6[t].no <= v4

LEMMA MadeBoundsInit == Ha!Init => MadeBounds
<1> SUFFICES ASSUME Ha!Init PROVE MadeBounds OBVIOUS
<1>1. MaxMade \in Nat BY MCStoresAssumption DEF Ha!HostedAppsAssumption
<1>2. v4 = 0 /\ (\A n \in App : v1[n] = 0 /\ v2[n] = 0 /\ v5[n].no = 0) /\ \A t \in Worker : v6[t].no = 0
  BY DEF Ha!Init, Ha!NoInstance, Ha!Idle
<1> QED BY <1>1, <1>2 DEF MadeBounds

LEMMA AppNumbers ==
  ASSUME AppsInv
  PROVE  /\ v4 \in Nat /\ \A n \in App : v1[n] \in Nat /\ v2[n] \in Nat /\ v5[n].no \in Nat
         /\ \A t \in Worker : v6[t].no \in Nat
<1>1. AppsTypes BY DEF AppsInv
<1>2. \A n \in App : v5[n] \in AppRecord BY <1>1 DEF AppsTypes
<1>3. \A t \in Worker : v6[t] \in Task BY <1>1 DEF AppsTypes
<1>4. \A n \in App : v5[n].no \in Nat BY <1>2 DEF AppRecord
<1>5. \A t \in Worker : v6[t].no \in Nat BY <1>3 DEF Task
<1> QED BY <1>1, <1>4, <1>5 DEF AppsTypes

\* A step that makes no container copies the numbers there are.
LEMMA MadeKeeps ==
  ASSUME AppsInv, MadeBounds, v4' = v4,
         \A n \in App : v1'[n] \in {v1[n], 0} /\ v2'[n] \in {v2[n], 0, v4 + 1},
         \A n \in App : v5'[n].no \in {v5[n].no, v1[n], 0} \/ \E t \in Worker : v5'[n].no = v6[t].no,
         \A t \in Worker : v6'[t].no \in {v6[t].no, 0} \/ \E n \in App : v6'[t].no = v5[n].no
  PROVE  MadeBounds'
<1>1. v4 \in Nat BY AppNumbers
<1>2. \A n \in App : v5'[n].no <= v4 BY <1>1 DEF MadeBounds
<1>3. \A t \in Worker : v6'[t].no <= v4 BY <1>1 DEF MadeBounds
<1>4. \A n \in App : v1'[n] <= v4 /\ v2'[n] <= v4 + 1 BY <1>1 DEF MadeBounds
<1> QED BY <1>1, <1>2, <1>3, <1>4 DEF MadeBounds

LEMMA MadeBounded ==
  ASSUME AppsInv, MadeBounds, [Ha!Next]_(Ha!vars)
  PROVE  MadeBounds'
<1>0. AppsTypes BY DEF AppsInv
<1>1. /\ \A n \in App : v5[n] \in AppRecord
      /\ \A t \in Worker : v6[t] \in Task /\ v6[t] = [op |-> v6[t].op, at |-> v6[t].at, name |-> v6[t].name, no |-> v6[t].no]
  <2>1. \A t \in Worker : v6[t] \in Task BY <1>0 DEF AppsTypes
  <2>2. \A t \in Worker : v6[t] = [op |-> v6[t].op, at |-> v6[t].at, name |-> v6[t].name, no |-> v6[t].no]
    BY <2>1 DEF Task
  <2> QED BY <1>0, <2>1, <2>2 DEF AppsTypes
<1>2. ASSUME UNCHANGED <<v1, v2, v4, v5, v6>> PROVE MadeBounds' BY <1>2, MadeKeeps
\* A thread goes on, and its task keeps its number or gets that of a record.
<1>3. ASSUME NEW t \in Worker, NEW at PROVE
        /\ v6' = [v6 EXCEPT ![t].at = at] => \A u \in Worker : v6'[u].no = v6[u].no
        /\ v6' = [v6 EXCEPT ![t] = Ha!Idle] => \A u \in Worker : v6'[u].no \in {v6[u].no, 0}
  <2>1. ASSUME v6' = [v6 EXCEPT ![t].at = at] PROVE \A u \in Worker : v6'[u].no = v6[u].no
    <3> DEFINE j == [v6[t] EXCEPT !.at = at]
    <3>1. j.no = v6[t].no BY <1>1
    <3>2. v6' = [v6 EXCEPT ![t] = j] BY <1>0, <2>1 DEF AppsTypes
    <3> HIDE DEF j
    <3> QED BY <1>0, <3>1, <3>2 DEF AppsTypes
  <2>2. Ha!Idle.no = 0 BY DEF Ha!Idle
  <2>3. ASSUME v6' = [v6 EXCEPT ![t] = Ha!Idle]
        PROVE  \A u \in Worker : v6'[u].no \in {v6[u].no, 0}
    BY <1>0, <2>2, <2>3 DEF AppsTypes
  <2> QED BY <2>1, <2>3
<1>4. ASSUME NEW t \in Worker, NEW n \in App,
             NEW op \in {"create", "start", "stop", "destroy"}, Ha!Begin(t, op, n)
      PROVE  MadeBounds'
  <2> DEFINE j == [op |-> op, at |-> "first", name |-> n, no |-> v5[n].no]
  <2>1. UNCHANGED <<v1, v2, v4, v5>> /\ v6' = [v6 EXCEPT ![t] = j] BY <1>4 DEF Ha!Begin, Ha!docker
  <2>2. j.no = v5[n].no OBVIOUS
  <2> HIDE DEF j
  <2>3. \A u \in Worker : v6'[u].no \in {v6[u].no, v5[n].no} BY <1>0, <2>1, <2>2 DEF AppsTypes
  <2> QED BY <2>1, <2>3, MadeKeeps
<1>5. ASSUME NEW t \in Worker, Ha!MakeVolume(t) PROVE MadeBounds'
  <2>1. PICK n : n = v6[t].name OBVIOUS
  <2>2. /\ v6' = [v6 EXCEPT ![t].at = "volume"] /\ UNCHANGED <<v1, v4, v5>>
        /\ v2' = [v2 EXCEPT ![n] = IF v2[n] = 0 THEN v4 + 1 ELSE v2[n]]
    BY <1>0, <1>5, <2>1 DEF Ha!MakeVolume, Ha!Go, AppsTypes
  <2>3. \A m \in App : v2'[m] \in {v2[m], v4 + 1} BY <1>0, <2>2 DEF AppsTypes
  <2>4. \A u \in Worker : v6'[u].no = v6[u].no BY <1>3, <2>2
  <2> QED BY <2>2, <2>3, <2>4, MadeKeeps
<1>6. ASSUME NEW t \in Worker, Ha!MakeContainer(t) PROVE MadeBounds'
  <2>1. PICK n \in App : n = v6[t].name BY <1>0, <1>6 DEF AppsTypes, Ha!MakeContainer, Ha!At
  <2>2. CASE v1[n] # 0
    <3>1. v6' = [v6 EXCEPT ![t] = Ha!Idle] /\ UNCHANGED <<v1, v2, v4, v5>>
      BY <1>6, <2>1, <2>2 DEF Ha!MakeContainer, Ha!Done, Ha!docker
    <3> QED BY <1>3, <3>1, MadeKeeps
  <2>3. CASE v1[n] = 0
    <3> DEFINE j == [v6[t] EXCEPT !.at = "container", !.no = v4 + 1]
    <3>1. /\ v6' = [v6 EXCEPT ![t] = j] /\ v4 < MaxMade /\ v4' = v4 + 1 /\ v5' = v5
          /\ v1' = [v1 EXCEPT ![n] = v4 + 1]
          /\ v2' = [v2 EXCEPT ![n] = IF @ = 0 THEN v4 + 1 ELSE @]
      BY <1>0, <1>6, <2>1, <2>3 DEF Ha!MakeContainer, AppsTypes
    <3>2. j.no = v4 + 1 BY <1>1
    <3> HIDE DEF j
    <3>3. \A u \in Worker : v6'[u].no \in {v6[u].no, v4 + 1} BY <1>0, <3>1, <3>2 DEF AppsTypes
    <3>4. \A m \in App : v1'[m] \in {v1[m], v4 + 1} /\ v2'[m] \in {v2[m], v4 + 1}
      BY <1>0, <3>1 DEF AppsTypes
    <3>5. /\ v4 \in Nat /\ \A m \in App : v1[m] \in Nat /\ v2[m] \in Nat /\ v5[m].no \in Nat
          /\ \A u \in Worker : v6[u].no \in Nat
      BY AppNumbers
    <3>6. v4' \in Nat /\ v4' <= MaxMade
      <4>1. MaxMade \in Nat BY MCStoresAssumption DEF Ha!HostedAppsAssumption
      <4> QED BY <3>1, <3>5, <4>1
    <3>7. \A m \in App : v1'[m] <= v4' /\ v2'[m] <= v4' + 1 /\ v5'[m].no <= v4'
      BY <3>1, <3>4, <3>5 DEF MadeBounds
    <3>8. \A u \in Worker : v6'[u].no <= v4' BY <3>1, <3>3, <3>5 DEF MadeBounds
    <3> QED BY <3>6, <3>7, <3>8 DEF MadeBounds
  <2> QED BY <2>2, <2>3
<1>7. ASSUME NEW t \in Worker, Ha!StartMade(t) PROVE MadeBounds'
  <2>1. /\ UNCHANGED <<v1, v2, v4, v5>>
        /\ v6' = [v6 EXCEPT ![t].at = "started"] \/ v6' = [v6 EXCEPT ![t] = Ha!Idle]
    BY <1>7 DEF Ha!StartMade, Ha!Go, Ha!Done
  <2>2. \A u \in Worker : v6'[u].no \in {v6[u].no, 0} BY <1>3, <2>1
  <2> QED BY <2>1, <2>2, MadeKeeps
<1>8. ASSUME NEW t \in Worker, Ha!Record(t) PROVE MadeBounds'
  <2> DEFINE r == [no |-> v6[t].no, running |-> TRUE]
  <2>1. PICK n : n = v6[t].name OBVIOUS
  <2>2. /\ v6' = [v6 EXCEPT ![t] = Ha!Idle] /\ UNCHANGED <<v1, v2, v4>> /\ v5' = [v5 EXCEPT ![n] = r]
    BY <1>8, <2>1 DEF Ha!Record, Ha!Done, Ha!docker
  <2>3. r.no = v6[t].no OBVIOUS
  <2> HIDE DEF r
  <2>4. \A m \in App : v5'[m].no \in {v5[m].no, v6[t].no} BY <1>0, <2>2, <2>3 DEF AppsTypes
  <2>5. \A u \in Worker : v6'[u].no \in {v6[u].no, 0} BY <1>3, <2>2
  <2> QED BY <2>2, <2>4, <2>5, MadeKeeps
<1>9. ASSUME NEW t \in Worker, Ha!Command(t) PROVE MadeBounds'
  <2>1. PICK n : n = v6[t].name OBVIOUS
  <2>2. /\ UNCHANGED <<v4, v5>> /\ \E at : v6' = [v6 EXCEPT ![t].at = at]
        /\ v1' = v1 \/ v1' = [v1 EXCEPT ![n] = 0]
        /\ v2' = v2 \/ v2' = [v2 EXCEPT ![n] = IF v1[n] = 0 THEN 0 ELSE v2[n]]
    BY <1>0, <1>9, <2>1 DEF Ha!Command, Ha!Go, AppsTypes
  <2>3. \A m \in App : v1'[m] \in {v1[m], 0} /\ v2'[m] \in {v2[m], 0} BY <1>0, <2>2 DEF AppsTypes
  <2>4. \A u \in Worker : v6'[u].no = v6[u].no BY <1>3, <2>2
  <2> QED BY <2>2, <2>3, <2>4, MadeKeeps
<1>10. ASSUME NEW t \in Worker, Ha!Finish(t) PROVE MadeBounds'
  <2>1. PICK n : n = v6[t].name OBVIOUS
  <2>2. PICK b \in BOOLEAN : b = (v6[t].op = "start") OBVIOUS
  <2>3. PICK r : /\ v5' = [v5 EXCEPT ![n] = r]
                 /\ r = IF v6[t].op = "destroy" THEN Ha!NoInstance ELSE Ha!WithStatus(t, n, b)
    BY <1>10, <2>1, <2>2 DEF Ha!Finish
  <2>4. n \in App => r.no \in {v5[n].no, 0}
    <3>1. SUFFICES ASSUME n \in App PROVE r.no \in {v5[n].no, 0} OBVIOUS
    <3>2. [v5[n] EXCEPT !.running = b].no = v5[n].no BY <1>1, <3>1, TaskRecords
    <3>3. Ha!NoInstance.no = 0 BY TaskRecords
    <3>4. r \in {Ha!NoInstance, v5[n], [v5[n] EXCEPT !.running = b]} BY <2>3 DEF Ha!WithStatus
    <3> QED BY <3>2, <3>3, <3>4
  <2>5. \A m \in App : v5'[m].no \in {v5[m].no, 0} BY <1>0, <2>3, <2>4 DEF AppsTypes
  <2>6. UNCHANGED <<v1, v2, v4>> /\ \A u \in Worker : v6'[u].no \in {v6[u].no, 0}
    <3>1. UNCHANGED <<v1, v2, v4>> /\ v6' = [v6 EXCEPT ![t] = Ha!Idle]
      BY <1>10 DEF Ha!Finish, Ha!Done, Ha!docker
    <3> QED BY <1>3, <3>1
  <2> QED BY <2>5, <2>6, MadeKeeps
<1>11. CASE Ha!PollWrites
  <2>1. v5' = [n \in App |-> IF v5[n].no # 0 THEN [v5[n] EXCEPT !.running = (n \in v7)] ELSE Ha!NoInstance]
        /\ UNCHANGED <<v1, v2, v4, v6>>
    BY <1>11 DEF Ha!PollWrites, Ha!Known, Ha!docker
  <2>2. ASSUME NEW m \in App PROVE v5'[m].no \in {v5[m].no, 0}
    <3>1. v5[m] \in AppRecord /\ (m \in v7) \in BOOLEAN BY <1>1
    <3> QED BY <2>1, <3>1, TaskRecords
  <2> QED BY <2>1, <2>2, MadeKeeps
<1>12. CASE Ha!Restart
  <2>1. /\ UNCHANGED <<v1, v2, v4>> /\ v6' = [t \in Worker |-> Ha!Idle]
        /\ v5' = [n \in App |-> [no |-> v1[n], running |-> (n \in Ha!Running)]]
    BY <1>12 DEF Ha!Restart, Ha!docker
  <2>2. \A n \in App : v5'[n].no = v1[n] BY <2>1
  <2>3. \A t \in Worker : v6'[t].no = 0 BY <2>1 DEF Ha!Idle
  <2> QED BY <2>1, <2>2, <2>3, MadeKeeps
<1>13. CASE Ha!PollReads \/ UNCHANGED Ha!vars
  BY <1>2, <1>13 DEF Ha!PollReads, Ha!vars, Ha!docker
<1>14. ASSUME NEW b \in Tab, \/ Ha!Fetch(b) \/ Ha!Forward(b) \/ Ha!SocketOpens(b) \/ Ha!AppCloses(b)
                             \/ Ha!BrowserCloses(b) \/ (\E n \in App : Ha!Open(b, n))
                             \/ \E r \in BOOLEAN : Ha!FetchRooted(b, r)
       PROVE  MadeBounds'
  <2>1. UNCHANGED <<v1, v2, v4, v5, v6>>
    BY <1>14 DEF Ha!Fetch, Ha!Forward, Ha!SocketOpens, Ha!AppCloses, Ha!BrowserCloses, Ha!Open,
                 Ha!FetchRooted, Ha!Look, Ha!docker
  <2> QED BY <1>2, <2>1
<1> QED
  BY <1>4, <1>5, <1>6, <1>7, <1>8, <1>9, <1>10, <1>11, <1>12, <1>13, <1>14 DEF Ha!Next

\* No two containers publish the same port.
PortsApart ==
  /\ v3 \in [App -> Port \cup {None}]
  /\ \A n, m \in App : n # m /\ v3[n] # None => v3[n] # v3[m]

LEMMA PortsRun ==
  ASSUME PortsApart, NEW n \in App, v3' = [v3 EXCEPT ![n] = None] \/ Ha!Runs(n) \/ v3' = v3
  PROVE  PortsApart'
<1>1. CASE v3' = v3 BY <1>1 DEF PortsApart
<1>2. CASE v3' = [v3 EXCEPT ![n] = None]
  <2>1. v3' \in [App -> Port \cup {None}] /\ v3'[n] = None /\ \A m \in App : m # n => v3'[m] = v3[m]
    BY <1>2 DEF PortsApart
  <2> QED BY <2>1 DEF PortsApart
<1>3. ASSUME NEW p \in Ha!FreePorts, v3' = [v3 EXCEPT ![n] = p] PROVE PortsApart'
  <2>1. p \in Port /\ \A m \in App : v3[m] # p BY DEF Ha!FreePorts
  <2>2. v3' \in [App -> Port \cup {None}] /\ v3'[n] = p /\ \A m \in App : m # n => v3'[m] = v3[m]
    BY <1>3, <2>1 DEF PortsApart
  <2> QED BY <2>1, <2>2 DEF PortsApart
<1> QED BY <1>1, <1>2, <1>3 DEF Ha!Runs

LEMMA PortsBounded ==
  ASSUME AppsInv, PortsApart, [Ha!Next]_(Ha!vars)
  PROVE  PortsApart'
<1>1. AppsTypes BY DEF AppsInv
<1>2. ASSUME v3' = v3 PROVE PortsApart' BY <1>2 DEF PortsApart
<1>3. ASSUME NEW t \in Worker, Ha!Command(t) PROVE PortsApart'
  <2>1. PICK n \in App : n = v6[t].name BY <1>1, <1>3 DEF AppsTypes, Ha!Command, Ha!At
  <2>2. v3' = [v3 EXCEPT ![n] = None] \/ Ha!Runs(n) \/ v3' = v3
    BY <1>3, <2>1 DEF Ha!Command
  <2> QED BY <2>2, PortsRun
<1>4. ASSUME NEW t \in Worker, Ha!StartMade(t) PROVE PortsApart'
  <2>1. PICK n \in App : n = v6[t].name BY <1>1, <1>4 DEF AppsTypes, Ha!StartMade, Ha!At
  <2>2. Ha!Runs(n) \/ v3' = v3 BY <1>4, <2>1 DEF Ha!StartMade
  <2> QED BY <2>2, PortsRun
<1>5. ASSUME NEW t \in Worker, \/ Ha!MakeVolume(t) \/ Ha!MakeContainer(t) \/ Ha!Record(t) \/ Ha!Finish(t)
                               \/ \E n \in App, op \in {"create", "start", "stop", "destroy"} :
                                    Ha!Begin(t, op, n)
      PROVE  PortsApart'
  <2>1. v3' = v3
    BY <1>5 DEF Ha!MakeVolume, Ha!MakeContainer, Ha!Record, Ha!Finish, Ha!Begin, Ha!docker
  <2> QED BY <1>2, <2>1
<1>6. CASE \/ Ha!PollReads \/ Ha!PollWrites \/ Ha!Restart \/ UNCHANGED Ha!vars
           \/ \E b \in Tab : \/ Ha!Fetch(b) \/ Ha!Forward(b) \/ Ha!SocketOpens(b) \/ Ha!AppCloses(b)
                             \/ Ha!BrowserCloses(b) \/ (\E n \in App : Ha!Open(b, n))
                             \/ \E r \in BOOLEAN : Ha!FetchRooted(b, r)
  <2>1. v3' = v3
    BY <1>6 DEF Ha!PollReads, Ha!PollWrites, Ha!Restart, Ha!vars, Ha!Fetch, Ha!Forward,
                Ha!SocketOpens, Ha!AppCloses, Ha!BrowserCloses, Ha!Open, Ha!FetchRooted,
                Ha!Look, Ha!docker
  <2> QED BY <1>2, <2>1
<1> QED BY <1>3, <1>4, <1>5, <1>6 DEF Ha!Next

\* A tab shows an app, and the cookie names the one opened last.
TabsShow == v8 \in [Tab -> App \cup {None}] /\ v9 \in App \cup {None}

LEMMA TabsBounded ==
  ASSUME TabsShow, [Ha!Next]_(Ha!vars)
  PROVE  TabsShow'
<1>1. ASSUME UNCHANGED <<v8, v9>> PROVE TabsShow' BY <1>1 DEF TabsShow
<1>2. ASSUME NEW b \in Tab, NEW n \in App, Ha!Open(b, n) PROVE TabsShow'
  BY <1>2 DEF Ha!Open, TabsShow
<1>3. CASE \/ \E t \in Worker :
                \/ Ha!MakeVolume(t) \/ Ha!MakeContainer(t) \/ Ha!StartMade(t) \/ Ha!Record(t)
                \/ Ha!Command(t) \/ Ha!Finish(t)
                \/ \E n \in App, op \in {"create", "start", "stop", "destroy"} : Ha!Begin(t, op, n)
           \/ Ha!PollReads \/ Ha!PollWrites \/ Ha!Restart \/ UNCHANGED Ha!vars
           \/ \E b \in Tab : \/ Ha!Fetch(b) \/ Ha!Forward(b) \/ Ha!SocketOpens(b) \/ Ha!AppCloses(b)
                             \/ Ha!BrowserCloses(b) \/ \E r \in BOOLEAN : Ha!FetchRooted(b, r)
  <2>1. UNCHANGED <<v8, v9>>
    BY <1>3 DEF Ha!MakeVolume, Ha!MakeContainer, Ha!StartMade, Ha!Record, Ha!Command, Ha!Finish,
                Ha!Begin, Ha!PollReads, Ha!PollWrites, Ha!Restart, Ha!Fetch, Ha!Forward,
                Ha!SocketOpens, Ha!AppCloses, Ha!BrowserCloses, Ha!FetchRooted, Ha!browser, Ha!vars
  <2> QED BY <1>1, <2>1
<1> QED BY <1>2, <1>3 DEF Ha!Next

AppsBounds == MadeBounds /\ PortsApart /\ TabsShow

LEMMA AppsBoundsInit == Ha!Init => AppsBounds
BY MadeBoundsInit DEF Ha!Init, AppsBounds, PortsApart, TabsShow

LEMMA AppsBounded ==
  ASSUME AppsInv, AppsBounds, [Ha!Next]_(Ha!vars)
  PROVE  AppsBounds'
BY MadeBounded, PortsBounded, TabsBounded DEF AppsBounds

LEMMA AppsShape == AppsInv /\ AppsBounds => Ha!HostedAppsTypeOK
<1> SUFFICES ASSUME AppsInv, AppsBounds PROVE Ha!HostedAppsTypeOK OBVIOUS
<1> DEFINE Listing == [no : 0..MaxMade, running : BOOLEAN]
<1>1. /\ v4 \in Nat /\ \A n \in App : v1[n] \in Nat /\ v2[n] \in Nat /\ v5[n].no \in Nat
  BY AppNumbers
<1>2. MadeBounds /\ MaxMade \in Nat
  BY MCStoresAssumption DEF AppsBounds, Ha!HostedAppsAssumption
<1>3. v4 \in 0..MaxMade /\ \A n \in App : v1[n] \in 0..MaxMade /\ v2[n] \in 0..MaxMade + 1
                                          /\ v5[n].no \in 0..MaxMade
  BY <1>1, <1>2 DEF MadeBounds
<1>4. v1 \in [App -> 0..MaxMade] /\ v2 \in [App -> 0..MaxMade + 1]
  <2>1. v1 \in [App -> Nat] /\ v2 \in [App -> Nat] BY DEF AppsInv, AppsTypes
  <2> QED BY <1>3, <2>1
<1>5. v5 \in [App -> Listing]
  <2>1. v5 \in [App -> AppRecord] BY DEF AppsInv, AppsTypes
  <2>2. ASSUME NEW n \in App PROVE v5[n] \in Listing
    <3>1. v5[n] \in AppRecord /\ v5[n].no \in 0..MaxMade BY <1>3, <2>1
    <3> QED BY <3>1 DEF AppRecord
  <2> HIDE DEF Listing
  <2> QED BY <2>1, <2>2
<1> HIDE DEF Listing
<1>6. v5 \in [App -> [no : 0..MaxMade, running : BOOLEAN]] BY <1>5 DEF Listing
<1>7. PortsApart /\ TabsShow BY DEF AppsBounds
<1> QED BY <1>3, <1>4, <1>6, <1>7 DEF Ha!HostedAppsTypeOK, PortsApart, TabsShow

-----------------------------------------------------------------------------
(* The shape of the state: terminals                                       *)

\* Descriptors are within the bound, and what the kernel watches is in use.
Descriptors ==
  /\ v2 \in [Term -> 0..MaxFd] /\ v16 \subseteq Te!Fd /\ v18 \subseteq v16
  /\ v17 \in [Te!Fd -> Term \cup {"conn", None}]

LEMMA DescriptorsInit == Te!Init => Descriptors
<1> SUFFICES ASSUME Te!Init PROVE Descriptors OBVIOUS
<1>1. MaxFd \in Nat BY MCStoresAssumption DEF Te!TerminalsAssumption
<1>2. 0 \in 0..MaxFd BY <1>1
<1> QED BY <1>2 DEF Te!Init, Descriptors

LEMMA LowestIsFree ==
  ASSUME NEW taken, Te!Lowest(taken) # 0
  PROVE  Te!Lowest(taken) \in Te!Fd
<1> DEFINE free == Te!Fd \ taken
<1>1. free # {} BY DEF Te!Lowest
<1>2. MaxFd \in Nat BY MCStoresAssumption DEF Te!TerminalsAssumption
<1>3. free \subseteq Nat BY <1>2 DEF Te!Fd
<1>4. PICK m : m = Te!Min(free) OBVIOUS
<1>5. Te!Lowest(taken) = m BY <1>1, <1>4 DEF Te!Lowest
<1>6. m = Pl!Min(free) BY <1>4 DEF Te!Min, Pl!Min
<1> HIDE DEF free
<1>7. m \in free BY <1>1, <1>3, <1>6, LeastOf
<1> QED BY <1>5, <1>7 DEF free

LEMMA ReaderAdded ==
  ASSUME Descriptors, NEW f \in Te!Fd, NEW who \in Term \cup {"conn"}, v2' \in [Term -> 0..MaxFd],
         v16' = v16 \cup {f}, Te!AddReader(f, who)
  PROVE  Descriptors'
<1>1. v17' = [v17 EXCEPT ![f] = who] /\ v18' \in {v18 \cup {f}, v18} BY DEF Te!AddReader
<1>2. v17' \in [Te!Fd -> Term \cup {"conn", None}] BY <1>1 DEF Descriptors
<1> QED BY <1>1, <1>2 DEF Descriptors, Te!Fd

LEMMA ReaderRemoved ==
  ASSUME Descriptors, NEW f, v2' = v2, v16' \in {v16, v16 \ {f}}, Te!RemoveReader(f)
  PROVE  Descriptors'
<1>1. v17' = [v17 EXCEPT ![f] = None] /\ v18' = v18 \ {f} BY DEF Te!RemoveReader
<1>2. v17' \in [Te!Fd -> Term \cup {"conn", None}] BY <1>1 DEF Descriptors
<1> QED BY <1>1, <1>2 DEF Descriptors, Te!Fd

LEMMA DescriptorsBounded ==
  ASSUME Descriptors, [Te!Next]_(Te!vars)
  PROVE  Descriptors'
<1>1. ASSUME UNCHANGED <<v2, v16, v17, v18>> PROVE Descriptors' BY <1>1 DEF Descriptors, Te!Fd
<1>2. ASSUME NEW taken, Te!Unheard(Te!Lowest(taken)) PROVE Descriptors'
  <2>1. PICK c : c = Te!Lowest(taken) OBVIOUS
  <2>2. c \in Te!Fd BY <1>2, <2>1, LowestIsFree DEF Te!Unheard
  <2>3. Te!Unheard(c) BY <1>2, <2>1
  <2>4. v2' = v2 /\ v16' = v16 \cup {c} /\ Te!AddReader(c, "conn")
    BY <2>3 DEF Te!Unheard, Te!shells
  <2> QED BY <2>2, <2>4, ReaderAdded DEF Descriptors
<1>3. ASSUME NEW t \in Term, Te!Spawn(t) PROVE Descriptors'
  <2>1. PICK c : c = Te!Lowest(v16) OBVIOUS
  <2>2. PICK m : m = Te!Lowest(v16 \cup {c}) OBVIOUS
  <2>3. ASSUME m # 0, v2' = [v2 EXCEPT ![t] = m], v16' = v16 \cup {m}, Te!AddReader(m, t)
        PROVE  Descriptors'
    <3>1. m \in Te!Fd BY <2>2, <2>3, LowestIsFree
    <3>2. m \in 0..MaxFd
      <4>1. MaxFd \in Nat BY MCStoresAssumption DEF Te!TerminalsAssumption
      <4> QED BY <3>1, <4>1 DEF Te!Fd
    <3>3. v2' \in [Term -> 0..MaxFd] BY <2>3, <3>2 DEF Descriptors
    <3> QED BY <2>3, <3>1, <3>3, ReaderAdded
  <2>4. \/ Te!Unheard(Te!Lowest(v16))
        \/ m # 0 /\ v2' = [v2 EXCEPT ![t] = m] /\ v16' = v16 \cup {m} /\ Te!AddReader(m, t)
    BY <1>3, <2>1, <2>2 DEF Te!Spawn
  <2> QED BY <1>2, <2>3, <2>4
<1>4. ASSUME NEW t \in Term, Te!Close(t) PROVE Descriptors'
  <2>1. PICK f : f = v2[t] OBVIOUS
  <2>2. \/ Te!Unheard(Te!Lowest(v16))
        \/ v2' = v2 /\ v16' = v16 \ {f} /\ v18' = v18 \ {f} /\ v17' = v17
    BY <1>4, <2>1 DEF Te!Close
  <2>3. ASSUME v2' = v2 /\ v16' = v16 \ {f} /\ v18' = v18 \ {f} /\ v17' = v17 PROVE Descriptors'
    BY <2>3 DEF Descriptors, Te!Fd
  <2> QED BY <1>2, <2>2, <2>3
<1>5. ASSUME NEW t \in Term, NEW v \in Watcher, Te!Attach(v, t) PROVE Descriptors'
  <2>1. PICK c : c = Te!Lowest(v16) OBVIOUS
  <2>2. \/ Te!Unheard(Te!Lowest(v16))
        \/ c # 0 /\ v2' = v2 /\ v16' = v16 \cup {c} /\ Te!AddReader(c, "conn")
    BY <1>5, <2>1 DEF Te!Attach, Te!Heard, Te!shells
  <2>3. ASSUME c # 0 /\ v2' = v2 /\ v16' = v16 \cup {c} /\ Te!AddReader(c, "conn")
        PROVE  Descriptors'
    <3>1. c \in Te!Fd BY <2>1, <2>3, LowestIsFree
    <3> QED BY <2>3, <3>1, ReaderAdded DEF Descriptors
  <2> QED BY <1>2, <2>2, <2>3
<1>6. ASSUME NEW t \in Term, Te!LoopEnds(t), v2' = v2 PROVE Descriptors'
  <2>1. PICK f : f = v2[t] OBVIOUS
  <2>2. Te!RemoveReader(f) /\ v16' = v16 BY <1>6, <2>1 DEF Te!LoopEnds
  <2> QED BY <1>6, <2>2, ReaderRemoved
<1>7. ASSUME NEW t \in Term, Te!Forward(t) \/ Te!Sent(t) \/ Te!LoopFails(t) PROVE Descriptors'
  <2>1. v2' = v2 /\ (Te!LoopEnds(t) \/ UNCHANGED <<v16, v17, v18>>)
    BY <1>7 DEF Te!Forward, Te!Sent, Te!LoopFails, Te!shells, Te!fds
  <2> QED BY <1>1, <1>6, <2>1
<1>8. ASSUME NEW v \in Watcher, Te!Leave(v) PROVE Descriptors'
  <2>1. PICK f : f = v14[v] OBVIOUS
  <2>2. v2' = v2 /\ v16' = v16 \ {f} /\ Te!RemoveReader(f) BY <1>8, <2>1 DEF Te!Leave, Te!shells
  <2> QED BY <2>2, ReaderRemoved
<1>9. CASE \/ \E t \in Term : \/ Te!ShellWrites(t) \/ Te!ShellExits(t) \/ Te!OnReadable(t)
                              \/ \E v \in Watcher : Te!SendTo(t, v)
           \/ \E v \in Watcher : Te!Breaks(v)
           \/ UNCHANGED Te!vars
  <2>1. UNCHANGED <<v2, v16, v17, v18>>
    BY <1>9 DEF Te!ShellWrites, Te!ShellExits, Te!OnReadable, Te!SendTo, Te!Breaks, Te!vars,
                Te!shells, Te!fds
  <2> QED BY <1>1, <2>1
<1> QED BY <1>3, <1>4, <1>5, <1>7, <1>8, <1>9 DEF Te!Next

LEMMA TerminalsShape == GapsInv /\ Descriptors => Te!TerminalsTypeOK
BY DEF GapsInv, GapsTypes, Descriptors, Te!TerminalsTypeOK

-----------------------------------------------------------------------------
(* All the components together: for each, what keeps its shape             *)

StoresTyped ==
  /\ Is("vaults") => RowsInv /\ VaultsTypes
  /\ Is("scrolls") => ScrollsTypes
  /\ Is("crates") => CratesInv /\ CratesBounds
  /\ Is("blobs") => BlobsInv /\ BlobsBounds
  /\ Is("credentials") => CredentialsInv /\ CredentialsBounds
  /\ Is("logins") => LoginsInv /\ LoginsBounds
  /\ Is("accounts") => TokensInv /\ TokenBounds /\ PeopleBounds
  /\ Is("planner") => PlanInv /\ PlanLinks
  /\ Is("home") => HomeInv /\ HomeBounds
  /\ Is("apps") => AppsInv /\ AppsBounds
  /\ Is("terminals") => GapsInv /\ Descriptors

\* The state of every store, planner, app and terminal has its shape, for any sets of
\* processes, threads, users and browsers and any bounds, over crashes and restarts:
\* rows, jobs and records are of the kinds the code makes, counters and numbers stay
\* within what has been handed out, no two containers publish one port, the kernel
\* watches descriptors in use alone, and the floor edited is one of the house's.
THEOREM StoresAreTyped == Spec => []TypesOK
<1>1. Init => StoresTyped
  <2> SUFFICES ASSUME Init PROVE StoresTyped OBVIOUS
  <2>1. Is("vaults") => RowsInv /\ VaultsTypes
    BY VaultsOnly, InitVaults, VaultsTypesInit
  <2>2. Is("scrolls") => ScrollsTypes
    BY ScrollsOnly, ScrollsInit
  <2>3. Is("crates") => CratesInv /\ CratesBounds
    BY CratesOnly, InitCrates, CratesBoundsInit
  <2>4. Is("blobs") => BlobsInv /\ BlobsBounds
    BY BlobsOnly, InitBlobs, BlobsBoundsInit
  <2>5. Is("credentials") => CredentialsInv /\ CredentialsBounds
    BY CredentialsOnly, InitCredentials, CredentialsBoundsInit
  <2>6. Is("logins") => LoginsInv /\ LoginsBounds
    BY LoginsOnly, InitLogins, LoginsBoundsInit
  <2>7. Is("accounts") => TokensInv /\ TokenBounds /\ PeopleBounds
    BY AccountsOnly, InitAccounts, TokenBoundsInit, PeopleInit
  <2>8. Is("planner") => PlanInv /\ PlanLinks
    BY PlannerOnly, PlanInit, PlanLinksInit
  <2>9. Is("home") => HomeInv /\ HomeBounds
    BY HomeOnly, HomeInit, HomeBoundsInit
  <2>10. Is("apps") => AppsInv /\ AppsBounds
    BY AppsOnly, InitApps, AppsBoundsInit
  <2>11. Is("terminals") => GapsInv /\ Descriptors
    BY TerminalsOnly, InitTerminals, DescriptorsInit
  <2> QED
    BY <2>1, <2>2, <2>3, <2>4, <2>5, <2>6, <2>7, <2>8, <2>9, <2>10, <2>11 DEF StoresTyped
<1>2. StoresTyped /\ [Next]_all => StoresTyped'
  <2> SUFFICES ASSUME StoresTyped, [Next]_all PROVE StoresTyped' OBVIOUS
  <2>0. part' = part BY PartStays
  <2>1. ASSUME Is("vaults")' PROVE (RowsInv /\ VaultsTypes)'
    <3>1. Is("vaults") /\ [Va!Next]_(Va!vars) BY <2>0, <2>1, VaultsOnly DEF Is
    <3>2. RowsInv /\ VaultsTypes BY <3>1 DEF StoresTyped
    <3> QED BY <3>1, <3>2, NextRows, VaultsTyped
  <2>2. ASSUME Is("scrolls")' PROVE ScrollsTypes'
    <3>1. Is("scrolls") /\ [Sc!Next]_(Sc!vars) BY <2>0, <2>2, ScrollsOnly DEF Is
    <3>2. ScrollsTypes BY <3>1 DEF StoresTyped
    <3> QED BY <3>1, <3>2, ScrollsTyped
  <2>3. ASSUME Is("crates")' PROVE (CratesInv /\ CratesBounds)'
    <3>1. Is("crates") /\ [Cr!Next]_(Cr!vars) BY <2>0, <2>3, CratesOnly DEF Is
    <3>2. CratesInv /\ CratesBounds BY <3>1 DEF StoresTyped
    <3> QED BY <3>1, <3>2, NextCrates, CratesBounded
  <2>4. ASSUME Is("blobs")' PROVE (BlobsInv /\ BlobsBounds)'
    <3>1. Is("blobs") /\ [Bl!Next]_(Bl!vars) BY <2>0, <2>4, BlobsOnly DEF Is
    <3>2. BlobsInv /\ BlobsBounds BY <3>1 DEF StoresTyped
    <3> QED BY <3>1, <3>2, BlobsStep, BlobsBounded
  <2>5. ASSUME Is("credentials")' PROVE (CredentialsInv /\ CredentialsBounds)'
    <3>1. Is("credentials") /\ [Cd!Next]_(Cd!vars) BY <2>0, <2>5, CredentialsOnly DEF Is
    <3>2. CredentialsInv /\ CredentialsBounds BY <3>1 DEF StoresTyped
    <3> QED BY <3>1, <3>2, NextCredentials, CredentialsBounded
  <2>6. ASSUME Is("logins")' PROVE (LoginsInv /\ LoginsBounds)'
    <3>1. Is("logins") /\ [Cs!Next]_(Cs!vars) BY <2>0, <2>6, LoginsOnly DEF Is
    <3>2. LoginsInv /\ LoginsBounds BY <3>1 DEF StoresTyped
    <3> QED BY <3>1, <3>2, NextLogins, LoginsBounded
  <2>7. ASSUME Is("accounts")' PROVE (TokensInv /\ TokenBounds /\ PeopleBounds)'
    <3>1. Is("accounts") /\ [Ac!Next]_(Ac!vars) BY <2>0, <2>7, AccountsOnly DEF Is
    <3>2. TokensInv /\ TokenBounds /\ PeopleBounds BY <3>1 DEF StoresTyped
    <3> QED BY <3>1, <3>2, NextAccounts, TokensBounded, PeopleBounded
  <2>8. ASSUME Is("planner")' PROVE (PlanInv /\ PlanLinks)'
    <3>1. Is("planner") /\ [Pl!Next]_(Pl!vars) BY <2>0, <2>8, PlannerOnly DEF Is
    <3>2. PlanInv /\ PlanLinks BY <3>1 DEF StoresTyped
    <3> QED BY <3>1, <3>2, PlanStep, PlanLinked
  <2>9. ASSUME Is("home")' PROVE (HomeInv /\ HomeBounds)'
    <3>1. Is("home") /\ [Ho!Next]_(Ho!vars) BY <2>0, <2>9, HomeOnly DEF Is
    <3>2. HomeInv /\ HomeBounds BY <3>1 DEF StoresTyped
    <3> QED BY <3>1, <3>2, HomeStep, HomeBounded
  <2>10. ASSUME Is("apps")' PROVE (AppsInv /\ AppsBounds)'
    <3>1. Is("apps") /\ [Ha!Next]_(Ha!vars) BY <2>0, <2>10, AppsOnly DEF Is
    <3>2. AppsInv /\ AppsBounds BY <3>1 DEF StoresTyped
    <3> QED BY <3>1, <3>2, NextApps, AppsBounded
  <2>11. ASSUME Is("terminals")' PROVE (GapsInv /\ Descriptors)'
    <3>1. Is("terminals") /\ [Te!Next]_(Te!vars) BY <2>0, <2>11, TerminalsOnly DEF Is
    <3>2. GapsInv /\ Descriptors BY <3>1 DEF StoresTyped
    <3> QED BY <3>1, <3>2, NextTerminals, DescriptorsBounded
  <2> QED
    BY <2>1, <2>2, <2>3, <2>4, <2>5, <2>6, <2>7, <2>8, <2>9, <2>10, <2>11 DEF StoresTyped
<1>3. StoresTyped => TypesOK
  BY VaultsShape, ScrollsShape, CratesShape, BlobsShape, CredentialsShape, LoginsShape, AccountsShape, PlannerShape, HomeShape, AppsShape, TerminalsShape
  DEF StoresTyped, TypesOK
<1> QED BY <1>1, <1>2, <1>3, PTL DEF Spec
===============================================================================
