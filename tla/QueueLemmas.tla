---------------------------- MODULE QueueLemmas -----------------------------
(***************************************************************************)
(* Facts about queues: what Append and Tail do to the elements of a        *)
(* sequence and to how often each occurs; and induction over numbers.      *)
(***************************************************************************)
EXTENDS Integers, Sequences, FiniteSets, FiniteSetTheorems, TLAPS

\* The places of a sequence where x is.
At(s, x) == {i \in DOMAIN s : s[i] = x}

\* The places of an element are finitely many.
LEMMA AtIsFinite ==
  ASSUME NEW S, NEW s \in Seq(S), NEW x
  PROVE  IsFiniteSet(At(s, x)) /\ Cardinality(At(s, x)) \in Nat
<1>1. IsFiniteSet(1..Len(s))
  BY FS_Interval
<1>2. At(s, x) \in SUBSET (1..Len(s))
  BY DEF At
<1>3. IsFiniteSet(At(s, x))
  BY <1>1, <1>2, FS_Subset
<1> QED BY <1>3, FS_CardinalityType

\* Append adds one occurrence of the element appended.
LEMMA AppendAt ==
  ASSUME NEW S, NEW s \in Seq(S), NEW y \in S, NEW x
  PROVE  Cardinality(At(Append(s, y), x))
           = Cardinality(At(s, x)) + (IF x = y THEN 1 ELSE 0)
<1>0. IsFiniteSet(At(s, x)) /\ Cardinality(At(s, x)) \in Nat
  BY AtIsFinite
<1>1. CASE x = y
  <2>1. At(Append(s, y), x) = At(s, x) \cup {Len(s) + 1}
    BY <1>1 DEF At
  <2>2. Len(s) + 1 \notin At(s, x)
    BY DEF At
  <2> QED BY <1>0, <1>1, <2>1, <2>2, FS_AddElement
<1>2. CASE x # y
  <2>1. At(Append(s, y), x) = At(s, x)
    BY <1>2 DEF At
  <2> QED BY <1>0, <1>2, <2>1
<1> QED BY <1>1, <1>2

\* Tail takes one occurrence of the head away.
LEMMA TailAt ==
  ASSUME NEW S, NEW s \in Seq(S), s # <<>>, NEW x
  PROVE  Cardinality(At(s, x))
           = Cardinality(At(Tail(s), x)) + (IF x = Head(s) THEN 1 ELSE 0)
<1> DEFINE A == At(s, x) \ {1}
           B == At(Tail(s), x)
           f == [i \in B |-> i + 1]
<1>1. IsFiniteSet(At(s, x)) /\ IsFiniteSet(B) /\ Cardinality(B) \in Nat
  <2>1. Tail(s) \in Seq(S)
    OBVIOUS
  <2> QED BY <2>1, AtIsFinite
<1>2. f \in Bijection(B, A)
  <2>1. \A i \in B : i \in 1..(Len(s) - 1) /\ s[i + 1] = x
    BY DEF At
  <2>2. f \in [B -> A]
    BY <2>1 DEF At
  <2>3. \A i, j \in B : f[i] = f[j] => i = j
    BY <2>1
  <2>4. \A a \in A : a - 1 \in B /\ f[a - 1] = a
    BY DEF At
  <2>5. f \in Injection(B, A)
    BY <2>2, <2>3 DEF Injection, IsInjective
  <2>6. f \in Surjection(B, A)
    BY <2>2, <2>4 DEF Surjection
  <2> QED BY <2>5, <2>6 DEF Bijection
<1>3. IsFiniteSet(A) /\ Cardinality(A) = Cardinality(B)
  BY <1>1, <1>2, FS_Bijection DEF ExistsBijection
<1>4. 1 \in At(s, x) <=> x = Head(s)
  BY DEF At
<1> HIDE DEF B
<1>5. CASE x = Head(s)
  <2>1. At(s, x) = A \cup {1} /\ 1 \notin A
    BY <1>4, <1>5
  <2> HIDE DEF A
  <2>2. Cardinality(A \cup {1}) = Cardinality(A) + 1
    BY <1>3, <2>1, FS_AddElement
  <2> QED BY <1>1, <1>3, <1>5, <2>1, <2>2 DEF B
<1>6. CASE x # Head(s)
  <2>1. At(s, x) = A
    BY <1>4, <1>6
  <2> HIDE DEF A
  <2> QED BY <1>1, <1>3, <1>6, <2>1 DEF B
<1> QED BY <1>5, <1>6

\* In a sequence without repetition an element occurs once or not at all.
LEMMA OnceAt ==
  ASSUME NEW S, NEW s \in Seq(S), NEW x,
         \A i, j \in DOMAIN s : s[i] = s[j] => i = j
  PROVE  Cardinality(At(s, x))
           = IF \E i \in DOMAIN s : s[i] = x THEN 1 ELSE 0
<1>1. CASE \E i \in DOMAIN s : s[i] = x
  <2>1. PICK i \in DOMAIN s : s[i] = x
    BY <1>1
  <2>2. At(s, x) = {i}
    BY <2>1 DEF At
  <2> QED BY <1>1, <2>2, FS_Singleton
<1>2. CASE ~ \E i \in DOMAIN s : s[i] = x
  <2>1. At(s, x) = {}
    BY <1>2 DEF At
  <2> QED BY <1>2, <2>1, FS_EmptySet
<1> QED BY <1>1, <1>2

\* The cardinality by which the model counts a condition.
LEMMA OneIf ==
  ASSUME NEW P \in BOOLEAN
  PROVE  Cardinality({x \in {1} : P}) = IF P THEN 1 ELSE 0
<1>1. CASE P
  <2>1. {x \in {1} : P} = {1}
    BY <1>1
  <2> QED BY <1>1, <2>1, FS_Singleton
<1>2. CASE ~P
  <2>1. {x \in {1} : P} = {}
    BY <1>2
  <2>2. Cardinality({}) = 0
    BY FS_EmptySet
  <2> QED BY <1>2, <2>1, <2>2
<1> QED BY <1>1, <1>2

\* A sequence without repetition is no longer than its set.
LEMMA NoMoreThan ==
  ASSUME NEW S, IsFiniteSet(S), NEW s \in Seq(S),
         \A i, j \in DOMAIN s : s[i] = s[j] => i = j
  PROVE  Len(s) <= Cardinality(S)
<1>1. s \in Injection(1..Len(s), S)
  BY DEF Injection, IsInjective
<1>2. Cardinality(1..Len(s)) <= Cardinality(S)
  BY <1>1, FS_Injection
<1>3. Len(s) \in Nat
  OBVIOUS
<1>4. Cardinality(1..Len(s)) = IF 1 > Len(s) THEN 0 ELSE Len(s) - 1 + 1
  BY <1>3, FS_Interval
<1> QED BY <1>2, <1>3, <1>4

\* Append adds its element, keeps the head, and repeats nothing new.
LEMMA AppendElements ==
  ASSUME NEW S, NEW s \in Seq(S), NEW y \in S
  PROVE  /\ Append(s, y) \in Seq(S) /\ Len(Append(s, y)) = Len(s) + 1
         /\ \A x : (\E i \in DOMAIN Append(s, y) : Append(s, y)[i] = x)
                     <=> (\E i \in DOMAIN s : s[i] = x) \/ x = y
         /\ s # <<>> => Head(Append(s, y)) = Head(s)
         /\ /\ \A i, j \in DOMAIN s : s[i] = s[j] => i = j
            /\ ~ \E i \in DOMAIN s : s[i] = y
            => \A i, j \in DOMAIN Append(s, y) :
                 Append(s, y)[i] = Append(s, y)[j] => i = j
<1> DEFINE t == Append(s, y)
<1>1. /\ t \in Seq(S) /\ Len(t) = Len(s) + 1 /\ t[Len(s) + 1] = y
      /\ \A i \in 1..Len(s) : t[i] = s[i]
      /\ Len(s) \in Nat /\ DOMAIN t = 1..(Len(s) + 1)
      /\ DOMAIN s = 1..Len(s)
  OBVIOUS
<1>2. s # <<>> => Head(t) = Head(s)
  OBVIOUS
<1> HIDE DEF t
<1>3. \A x : (\E i \in DOMAIN t : t[i] = x)
                     <=> (\E i \in DOMAIN s : s[i] = x) \/ x = y
  BY <1>1
<1>4. /\ \A i, j \in DOMAIN s : s[i] = s[j] => i = j
      /\ ~ \E i \in DOMAIN s : s[i] = y
      => \A i, j \in DOMAIN t : t[i] = t[j] => i = j
  BY <1>1
<1> QED BY <1>1, <1>2, <1>3, <1>4 DEF t

\* Tail drops the head and nothing else, of a sequence without repetition.
LEMMA TailElements ==
  ASSUME NEW S, NEW s \in Seq(S), s # <<>>,
         \A i, j \in DOMAIN s : s[i] = s[j] => i = j
  PROVE  /\ Head(s) \in S /\ Tail(s) \in Seq(S) /\ Len(Tail(s)) = Len(s) - 1
         /\ \E i \in DOMAIN s : s[i] = Head(s)
         /\ \A x : (\E i \in DOMAIN Tail(s) : Tail(s)[i] = x)
                     <=> (\E i \in DOMAIN s : s[i] = x) /\ x # Head(s)
         /\ \A i, j \in DOMAIN Tail(s) : Tail(s)[i] = Tail(s)[j] => i = j
<1> DEFINE t == Tail(s)
<1>1. /\ Head(s) \in S /\ t \in Seq(S) /\ Len(t) = Len(s) - 1
      /\ Head(s) = s[1] /\ \A i \in 1..(Len(s) - 1) : t[i] = s[i + 1]
      /\ Len(s) \in Nat /\ Len(s) > 0 /\ DOMAIN t = 1..(Len(s) - 1)
      /\ DOMAIN s = 1..Len(s)
  OBVIOUS
<1> HIDE DEF t
<1>2. \A x : (\E i \in DOMAIN t : t[i] = x)
                     <=> (\E i \in DOMAIN s : s[i] = x) /\ x # Head(s)
  <2> SUFFICES ASSUME NEW x
               PROVE  (\E i \in DOMAIN t : t[i] = x)
                        <=> (\E i \in DOMAIN s : s[i] = x) /\ x # Head(s)
    OBVIOUS
  <2>1. ASSUME NEW i \in DOMAIN t, t[i] = x
        PROVE  (\E k \in DOMAIN s : s[k] = x) /\ x # Head(s)
    <3>1. i + 1 \in DOMAIN s /\ s[i + 1] = x /\ 1 \in DOMAIN s /\ i + 1 # 1
      BY <1>1, <2>1
    <3> QED BY <1>1, <3>1
  <2>2. ASSUME NEW k \in DOMAIN s, s[k] = x, x # Head(s)
        PROVE  \E i \in DOMAIN t : t[i] = x
    <3>1. k - 1 \in DOMAIN t /\ t[k - 1] = x
      BY <1>1, <2>2
    <3> QED BY <3>1
  <2> QED BY <2>1, <2>2
<1>3. \A i, j \in DOMAIN t : t[i] = t[j] => i = j
  <2> SUFFICES ASSUME NEW i \in DOMAIN t, NEW j \in DOMAIN t, t[i] = t[j]
               PROVE  i = j
    OBVIOUS
  <2>1. i + 1 \in DOMAIN s /\ j + 1 \in DOMAIN s /\ s[i + 1] = s[j + 1]
    BY <1>1
  <2>2. i + 1 = j + 1
    BY <2>1
  <2> QED BY <1>1, <2>2
<1>4. \E i \in DOMAIN s : s[i] = Head(s)
  BY <1>1
<1> QED BY <1>1, <1>2, <1>3, <1>4 DEF t

(***************************************************************************)
(* Induction over numbers, as a fact about sets: the intervals 0 .. n are  *)
(* finite sets, which strict inclusion orders without end below, so that a *)
(* set of natural numbers has a least element.                             *)
(***************************************************************************)
LEMMA LeastElement ==
  ASSUME NEW S \in SUBSET Nat, S # {}
  PROVE  \E m \in S : \A n \in S : m <= n
<1> DEFINE T == {0 .. n : n \in S}
<1>1. T \subseteq FiniteSubsetsOf(Nat)
  <2> SUFFICES ASSUME NEW n \in S PROVE (0 .. n) \in FiniteSubsetsOf(Nat)
    OBVIOUS
  <2>1. IsFiniteSet(0 .. n)
    BY FS_Interval
  <2> QED BY <2>1 DEF FiniteSubsetsOf
<1>2. T # {}
  OBVIOUS
<1>3. IsWellFoundedOn(StrictSubsetOrdering(Nat), FiniteSubsetsOf(Nat))
  BY FS_StrictSubsetOrderingWellFounded
<1>4. \E x \in T : \A y \in T : <<y, x>> \notin StrictSubsetOrdering(Nat)
  <2> HIDE DEF T
  <2> QED BY <1>1, <1>2, <1>3, WFMin
<1>5. PICK m \in S :
        \A n \in S : <<0 .. n, 0 .. m>> \notin StrictSubsetOrdering(Nat)
  BY <1>4
<1>6. ASSUME NEW n \in S, n < m PROVE FALSE
  <2>1. /\ (0 .. n) \in SUBSET Nat /\ (0 .. m) \in SUBSET Nat
        /\ (0 .. n) \subseteq (0 .. m) /\ m \in 0 .. m /\ m \notin 0 .. n
    BY <1>6
  <2>2. (0 .. n) # (0 .. m)
    BY <2>1
  <2>3. <<0 .. n, 0 .. m>> \in StrictSubsetOrdering(Nat)
    BY <2>1, <2>2 DEF StrictSubsetOrdering
  <2> QED BY <1>5, <2>3
<1> QED BY <1>5, <1>6

\* A set that has 0 and with a number below N the next has all up to N.
LEMMA Induction ==
  ASSUME NEW N \in Nat, NEW S, 0 \in S,
         \A n \in 0 .. N - 1 : n \in S => n + 1 \in S
  PROVE  \A n \in 0 .. N : n \in S
<1> DEFINE B == {n \in 0 .. N : n \notin S}
<1>1. SUFFICES ASSUME B # {} PROVE FALSE
  OBVIOUS
<1>2. B \in SUBSET Nat
  OBVIOUS
<1>3. PICK m \in B : \A n \in B : m <= n
  <2> HIDE DEF B
  <2> QED BY <1>1, <1>2, LeastElement
<1>4. m # 0 /\ m - 1 \in 0 .. N - 1 /\ m - 1 \notin B
  BY <1>3
<1>5. m - 1 \in S /\ (m - 1) + 1 = m
  BY <1>4
<1> QED BY <1>3, <1>4, <1>5

\* The same downwards, from N.
LEMMA DownwardInduction ==
  ASSUME NEW N \in Nat, NEW S, N \in S,
         \A n \in 1 .. N : n \in S => n - 1 \in S
  PROVE  \A n \in 0 .. N : n \in S
<1> DEFINE R == {n \in 0 .. N : N - n \in S}
<1>1. 0 \in R
  OBVIOUS
<1>2. ASSUME NEW n \in 0 .. N - 1, n \in R PROVE n + 1 \in R
  <2>1. N - n \in 1 .. N /\ N - n \in S
    BY <1>2
  <2>2. (N - n) - 1 \in S
    BY <2>1
  <2>3. N - (n + 1) = (N - n) - 1 /\ n + 1 \in 0 .. N
    BY <1>2
  <2> QED BY <2>2, <2>3
<1>3. \A n \in 0 .. N : n \in R
  <2> HIDE DEF R
  <2> QED BY <1>1, <1>2, Induction
<1>4. ASSUME NEW n \in 0 .. N PROVE n \in S
  <2>1. N - n \in R
    BY <1>3
  <2>2. N - (N - n) = n
    OBVIOUS
  <2> QED BY <2>1, <2>2
<1> QED BY <1>4
=============================================================================
