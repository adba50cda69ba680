---------------------------- MODULE CommonLemmas ----------------------------
(***************************************************************************)
(* Lemmas that have nothing to do with one component.  Least elements: the *)
(* program takes the first of a list that will do, the modules CHOOSE a    *)
(* least index, key or slot, which exists by what is proved here.  Queues: *)
(* what one holds, and what is in it behind what.                          *)
(***************************************************************************)
EXTENDS Integers, SequenceTheorems, WellFoundedInduction, TLAPS

\* A non-empty set of naturals has a least element.
LEMMA SmallestNat ==
    ASSUME NEW T, T \subseteq Nat, T # {}
    PROVE  \E x \in T : \A y \in T : x <= y
<1> DEFINE R == OpToRel(<, Nat)
<1>1. PICK x \in T : \A y \in T : <<y, x>> \notin R
  BY NatLessThanWellFounded, WFMin
<1>2. ASSUME NEW y \in T PROVE x <= y
  <2>1. <<y, x>> \in Nat \X Nat
    OBVIOUS
  <2>2. ~(y < x)
    BY <1>1, <2>1 DEF OpToRel
  <2> QED BY <2>2
<1> QED BY <1>2

\* Of things that have a rank one has the lowest.
LEMMA LowestRank ==
    ASSUME NEW T, T # {}, NEW rank, \A x \in T : rank[x] \in Nat
    PROVE  \E x \in T : \A y \in T : rank[x] <= rank[y]
<1> DEFINE ranks == {rank[x] : x \in T}
<1>1. ranks \subseteq Nat /\ ranks # {}
  OBVIOUS
<1> HIDE DEF ranks
<1>2. PICK r \in ranks : \A s \in ranks : r <= s
  BY <1>1, SmallestNat
<1>3. PICK x \in T : rank[x] = r
  BY DEF ranks
<1>4. \A y \in T : rank[x] <= rank[y]
  BY <1>2, <1>3 DEF ranks
<1> QED BY <1>4

\* Of pairs of naturals one comes first in lexicographic order.
LEMMA FirstPair ==
    ASSUME NEW T, T # {}, T \subseteq Nat \X Nat
    PROVE  \E x \in T : \A y \in T : x[1] < y[1] \/ (x[1] = y[1] /\ x[2] <= y[2])
<1> DEFINE major == [x \in T |-> x[1]]
<1>1. PICK x1 \in T : \A y \in T : x1[1] <= y[1]
  <2>1. \A x \in T : major[x] \in Nat
    OBVIOUS
  <2>2. \E x \in T : \A y \in T : major[x] <= major[y]
    BY <2>1, LowestRank
  <2> QED BY <2>2
<1> DEFINE ties == {y \in T : y[1] = x1[1]}
           minor == [y \in ties |-> y[2]]
<1>2. PICK x \in ties : \A y \in ties : x[2] <= y[2]
  <2>1. \A y \in ties : minor[y] \in Nat
    OBVIOUS
  <2>2. ties # {}
    BY <1>1
  <2> HIDE DEF ties
  <2>3. \E x \in ties : \A y \in ties : minor[x] <= minor[y]
    <3> HIDE DEF minor
    <3> QED BY <2>1, <2>2, LowestRank
  <2> QED BY <2>3
<1>3. ASSUME NEW y \in T PROVE x[1] < y[1] \/ (x[1] = y[1] /\ x[2] <= y[2])
  <2>1. x[1] = x1[1] /\ x1[1] <= y[1] /\ x[1] \in Nat /\ y[1] \in Nat
    BY <1>1, <1>2
  <2>2. CASE y \in ties
    BY <1>2, <2>2
  <2>3. CASE y \notin ties
    BY <2>1, <2>3
  <2> QED BY <2>2, <2>3
<1> QED BY <1>2, <1>3

------------------------------------------------------------------------------
(* Lemmas about queues of events. *)

Held(q) == {q[i] : i \in DOMAIN q}

\* After every x in the queue there is a y.
Followed(q, x, y) ==
    \A i \in DOMAIN q : q[i] = x => \E j \in DOMAIN q : j > i /\ q[j] = y

LEMMA EmptyQueue ==
    /\ Held(<< >>) = {}
    /\ \A x, y : Followed(<< >>, x, y)
BY DEF Held, Followed

\* What taking the first event leaves.
LEMMA TakeFirst ==
    ASSUME NEW S, NEW q \in Seq(S), q # << >>
    PROVE  /\ Head(q) \in S /\ Tail(q) \in Seq(S)
           /\ Held(q) = {Head(q)} \cup Held(Tail(q))
           /\ \A x, y : Followed(q, x, y) =>
                /\ Followed(Tail(q), x, y)
                /\ Head(q) = x => y \in Held(Tail(q))
<1> DEFINE t == Tail(q)
<1>1. /\ Len(q) \in Nat /\ Len(q) >= 1 /\ DOMAIN q = 1..Len(q)
      /\ Head(q) = q[1] /\ Head(q) \in S
      /\ t \in Seq(S) /\ DOMAIN t = 1..(Len(q) - 1)
      /\ \A i \in 1..(Len(q) - 1) : t[i] = q[i + 1]
  BY EmptySeq, HeadTailProperties
<1> HIDE DEF t
<1>2. \A i \in DOMAIN q : i \in Nat /\ (i = 1 \/ (i - 1 \in DOMAIN t /\ t[i - 1] = q[i]))
  BY <1>1
<1>3. \A i \in DOMAIN t : i + 1 \in DOMAIN q /\ t[i] = q[i + 1] /\ i \in Nat
  BY <1>1
<1>4. Held(q) = {Head(q)} \cup Held(t)
  <2>1. 1 \in DOMAIN q
    BY <1>1
  <2>2. Held(q) \subseteq {Head(q)} \cup Held(t)
    BY <1>1, <1>2 DEF Held
  <2>3. {Head(q)} \cup Held(t) \subseteq Held(q)
    BY <1>1, <1>3, <2>1 DEF Held
  <2> QED BY <2>2, <2>3
<1>5. ASSUME NEW x, NEW y, Followed(q, x, y)
      PROVE  Followed(t, x, y) /\ (Head(q) = x => y \in Held(t))
  <2>1. ASSUME NEW i \in DOMAIN t, t[i] = x
        PROVE  \E j \in DOMAIN t : j > i /\ t[j] = y
    <3>1. i + 1 \in DOMAIN q /\ q[i + 1] = x /\ i \in Nat
      BY <1>3, <2>1
    <3>2. PICK j \in DOMAIN q : j > i + 1 /\ q[j] = y
      BY <1>5, <3>1 DEF Followed
    <3>3. j \in Nat /\ j # 1 /\ j - 1 > i
      BY <1>2, <3>1, <3>2
    <3> QED BY <1>2, <3>2, <3>3
  <2>2. ASSUME Head(q) = x
        PROVE  y \in Held(t)
    <3>1. PICK j \in DOMAIN q : j > 1 /\ q[j] = y
      BY <1>1, <1>5, <2>2 DEF Followed
    <3>2. j - 1 \in DOMAIN t /\ t[j - 1] = y
      BY <1>2, <3>1
    <3> QED BY <3>2 DEF Held
  <2> QED BY <2>1, <2>2 DEF Followed
<1> QED BY <1>1, <1>4, <1>5 DEF t

\* What adding an event does.
LEMMA AddLast ==
    ASSUME NEW S, NEW q \in Seq(S), NEW e \in S
    PROVE  /\ Append(q, e) \in Seq(S)
           /\ Held(Append(q, e)) = Held(q) \cup {e}
           /\ \A x, y : x # e /\ (y = e \/ Followed(q, x, y)) => Followed(Append(q, e), x, y)
<1> DEFINE r == Append(q, e)
<1>1. /\ r \in Seq(S) /\ Len(q) \in Nat /\ DOMAIN q = 1..Len(q)
      /\ DOMAIN r = 1..(Len(q) + 1) /\ r[Len(q) + 1] = e
      /\ \A i \in 1..Len(q) : r[i] = q[i]
  BY AppendProperties
<1> HIDE DEF r
<1>2. Held(r) = Held(q) \cup {e}
  BY <1>1 DEF Held
<1>3. ASSUME NEW x, NEW y, x # e, y = e \/ Followed(q, x, y)
      PROVE  Followed(r, x, y)
  <2> SUFFICES ASSUME NEW i \in DOMAIN r, r[i] = x
               PROVE  \E j \in DOMAIN r : j > i /\ r[j] = y
    BY DEF Followed
  <2>1. i \in DOMAIN q /\ q[i] = x /\ i < Len(q) + 1 /\ Len(q) + 1 \in DOMAIN r
    BY <1>1, <1>3
  <2>2. CASE y = e
    BY <1>1, <2>1, <2>2
  <2>3. CASE Followed(q, x, y)
    <3>1. PICK j \in DOMAIN q : j > i /\ q[j] = y
      BY <2>1, <2>3 DEF Followed
    <3>2. j \in DOMAIN r /\ r[j] = y
      BY <1>1, <3>1
    <3> QED BY <3>1, <3>2
  <2> QED BY <1>3, <2>2, <2>3
<1> QED BY <1>1, <1>2, <1>3 DEF r

=============================================================================
