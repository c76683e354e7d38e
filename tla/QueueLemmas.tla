----------------------------- MODULE QueueLemmas -----------------------------
(***************************************************************************)
(* Lines under way on a connection are a sequence, to which one end        *)
(* appends and from which the other takes the head: what that does to      *)
(* membership, and to there being one copy of each line.                   *)
(***************************************************************************)
EXTENDS Naturals, Sequences, TLAPS, SequenceTheorems

In(x, s) == \E i \in DOMAIN s : s[i] = x
Once(s)  == \A i, j \in DOMAIN s : s[i] = s[j] => i = j

-----------------------------------------------------------------------------
\* What Append and Tail do to membership and uniqueness.
LEMMA AppendIn ==
  ASSUME NEW S, NEW s \in Seq(S), NEW x \in S, NEW y
  PROVE  /\ In(y, Append(s, x)) <=> In(y, s) \/ y = x
         /\ Once(s) /\ ~In(x, s) => Once(Append(s, x))
<1>1. /\ DOMAIN s = 1..Len(s) /\ Len(s) \in Nat
      /\ DOMAIN Append(s, x) = 1..(Len(s) + 1)
      /\ \A i \in 1..Len(s) : Append(s, x)[i] = s[i]
      /\ Append(s, x)[Len(s) + 1] = x
  OBVIOUS
<1>2. In(y, Append(s, x)) <=> In(y, s) \/ y = x BY <1>1 DEF In
<1>3. ASSUME Once(s), ~In(x, s) PROVE Once(Append(s, x)) BY <1>1, <1>3 DEF In, Once
<1> QED BY <1>2, <1>3

LEMMA TailIn ==
  ASSUME NEW S, NEW s \in Seq(S), s # <<>>, NEW y
  PROVE  /\ Tail(s) \in Seq(S) /\ Head(s) \in S
         /\ In(Head(s), s)
         /\ In(y, Tail(s)) => In(y, s)
         /\ Once(s) => Once(Tail(s)) /\ ~In(Head(s), Tail(s))
<1>1. /\ DOMAIN s = 1..Len(s) /\ Len(s) \in Nat \ {0}
      /\ Tail(s) \in Seq(S) /\ Head(s) = s[1]
      /\ DOMAIN Tail(s) = 1..(Len(s) - 1)
      /\ \A i \in 1..(Len(s) - 1) : Tail(s)[i] = s[i + 1]
  OBVIOUS
<1>2. In(Head(s), s) /\ Head(s) \in S BY <1>1 DEF In
<1>3. In(y, Tail(s)) => In(y, s) BY <1>1 DEF In
<1>4. ASSUME Once(s) PROVE Once(Tail(s)) BY <1>1, <1>4 DEF Once
<1>5. ASSUME Once(s) PROVE ~In(Head(s), Tail(s))
  <2>1. SUFFICES ASSUME NEW i \in 1..(Len(s) - 1), Tail(s)[i] = Head(s) PROVE FALSE
    BY <1>1 DEF In
  <2>2. i + 1 \in DOMAIN s /\ 1 \in DOMAIN s /\ s[i + 1] = s[1] /\ i + 1 # 1
    BY <1>1, <2>1
  <2> QED BY <1>5, <2>2 DEF Once
<1> QED BY <1>1, <1>2, <1>3, <1>4, <1>5

\* An element of a concatenation is one of the first sequence or of the second.
LEMMA ConcatIn ==
  ASSUME NEW S, NEW s \in Seq(S), NEW t \in Seq(S)
  PROVE  /\ s \o t \in Seq(S)
         /\ \A i \in DOMAIN (s \o t) : \/ i \in DOMAIN s /\ (s \o t)[i] = s[i]
                                      \/ \E j \in DOMAIN t : (s \o t)[i] = t[j]
<1>1. /\ s \o t \in Seq(S)
      /\ DOMAIN (s \o t) = 1..(Len(s) + Len(t))
      /\ DOMAIN s = 1..Len(s) /\ DOMAIN t = 1..Len(t)
      /\ Len(s) \in Nat /\ Len(t) \in Nat
      /\ \A k \in 1..(Len(s) + Len(t)) :
           (s \o t)[k] = IF k <= Len(s) THEN s[k] ELSE t[k - Len(s)]
  OBVIOUS
<1>2. ASSUME NEW i \in 1..(Len(s) + Len(t))
      PROVE  \/ i \in DOMAIN s /\ (s \o t)[i] = s[i]
             \/ \E j \in DOMAIN t : (s \o t)[i] = t[j]
  <2>1. CASE i <= Len(s) BY <1>1, <2>1
  <2>2. CASE i > Len(s)
    <3>1. i - Len(s) \in DOMAIN t /\ (s \o t)[i] = t[i - Len(s)] BY <1>1, <2>2
    <3> QED BY <3>1
  <2> QED BY <1>1, <2>1, <2>2
<1> QED BY <1>1, <1>2

-----------------------------------------------------------------------------
\* There is at most one copy of x in s.
Sole(x, s) == \A i, j \in DOMAIN s : s[i] = x /\ s[j] = x => i = j

LEMMA AppendSole ==
  ASSUME NEW S, NEW s \in Seq(S), NEW x \in S, NEW y, Sole(y, s), x = y => ~In(y, s)
  PROVE  Sole(y, Append(s, x))
<1>1. /\ DOMAIN s = 1..Len(s) /\ Len(s) \in Nat
      /\ DOMAIN Append(s, x) = 1..(Len(s) + 1)
      /\ \A i \in 1..Len(s) : Append(s, x)[i] = s[i]
      /\ Append(s, x)[Len(s) + 1] = x
  OBVIOUS
<1> QED BY <1>1 DEF In, Sole

LEMMA TailSole ==
  ASSUME NEW S, NEW s \in Seq(S), s # <<>>, NEW y, Sole(y, s)
  PROVE  Sole(y, Tail(s)) /\ (y = Head(s) => ~In(y, Tail(s)))
<1>1. /\ DOMAIN s = 1..Len(s) /\ Len(s) \in Nat \ {0}
      /\ Head(s) = s[1]
      /\ DOMAIN Tail(s) = 1..(Len(s) - 1)
      /\ \A i \in 1..(Len(s) - 1) : Tail(s)[i] = s[i + 1]
  OBVIOUS
<1>2. Sole(y, Tail(s)) BY <1>1 DEF Sole
<1>3. ASSUME y = Head(s) PROVE ~In(y, Tail(s))
  <2>1. SUFFICES ASSUME NEW i \in 1..(Len(s) - 1), Tail(s)[i] = y PROVE FALSE BY <1>1 DEF In
  <2>2. i + 1 \in DOMAIN s /\ 1 \in DOMAIN s /\ s[i + 1] = y /\ s[1] = y /\ i + 1 # 1
    BY <1>1, <1>3, <2>1
  <2> QED BY <2>2 DEF Sole
<1> QED BY <1>2, <1>3

===============================================================================
