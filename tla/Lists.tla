-------------------------------- MODULE Lists --------------------------------
(***************************************************************************)
(* Facts about the lists of the program: the sequences with no element     *)
(* twice, and what the operators on sequences do to them.  The program     *)
(* keeps its objects in linked lists; the models keep these as sequences,  *)
(* an element is added at an end or taken out, and the lists are searched  *)
(* for the first element of some kind.                                     *)
(***************************************************************************)
EXTENDS Integers, Sequences, FiniteSets, SequencesExt, FiniteSetTheorems, SequenceTheorems,
        WellFoundedInduction, TLAPS

\* The least element of a set of numbers, without which no search can be reasoned about.
LEMMA NatMin ==
  ASSUME NEW T, T \subseteq Nat, T # {}
  PROVE  \E n \in T : \A m \in T : n <= m
<1>1. IsWellFoundedOn(OpToRel(<, Nat), Nat)
  BY NatLessThanWellFounded
<1>2. PICK n \in T : \A m \in T : <<m, n>> \notin OpToRel(<, Nat)
  BY <1>1, WFMin
<1>3. ASSUME NEW m \in T, m < n PROVE FALSE
  <2>1. <<m, n>> \in OpToRel(<, Nat)
    BY <1>3 DEF OpToRel
  <2> QED BY <1>2, <2>1
<1> QED BY <1>3

\* Induction over the numbers, stated with a set in place of a predicate.
LEMMA SetInd ==
  ASSUME NEW S, 0 \in S, \A n \in Nat : n \in S => n + 1 \in S
  PROVE  Nat \subseteq S
<1> DEFINE T == Nat \ S
<1> SUFFICES ASSUME T # {} PROVE FALSE
  OBVIOUS
<1>1. PICK n \in T : \A m \in T : n <= m
  BY NatMin
<1>2. n - 1 \in Nat /\ n - 1 \notin T
  BY <1>1
<1> QED BY <1>2, <1>1

\* The place that a search finds, the least of those that will do.
LEMMA MinIn ==
  ASSUME NEW I, I \subseteq Nat, I # {}
  PROVE  Min(I) \in I /\ \A j \in I : Min(I) <= j
<1>1. \E n \in I : \A m \in I : n <= m
  BY NatMin
<1> QED BY <1>1, Zenon DEF Min

\* The elements of a list.
LEMMA Elements ==
  ASSUME NEW S, NEW s \in Seq(S)
  PROVE  /\ ToSet(s) \subseteq S
         /\ Len(s) \in Nat /\ DOMAIN s = 1..Len(s)
         /\ \A i \in 1..Len(s) : s[i] \in ToSet(s) /\ s[i] \in S
         /\ \A x \in ToSet(s) : \E i \in 1..Len(s) : s[i] = x
         /\ (s = <<>>) <=> (ToSet(s) = {})
<1>1. Len(s) \in Nat /\ DOMAIN s = 1..Len(s) /\ \A i \in 1..Len(s) : s[i] \in S
  OBVIOUS
<1>2. ASSUME ToSet(s) = {} PROVE s = <<>>
  <2>1. 1 \notin 1..Len(s)
    BY <1>1, <1>2 DEF ToSet
  <2>2. Len(s) = 0
    BY <1>1, <2>1
  <2> QED BY <2>2
<1>3. ASSUME s = <<>> PROVE ToSet(s) = {}
  BY <1>3 DEF ToSet
<1> QED BY <1>1, <1>2, <1>3 DEF ToSet

\* A list of elements of one set whose elements are all of another.
LEMMA Retyped ==
  ASSUME NEW S, NEW T, NEW s \in Seq(S), ToSet(s) \subseteq T
  PROVE  s \in Seq(T)
<1>1. s \in [1..Len(s) -> T] /\ Len(s) \in Nat
  BY DEF ToSet
<1> QED BY <1>1

\* The empty list.
LEMMA EmptyList ==
  /\ ToSet(<<>>) = {} /\ IsInjective(<<>>) /\ \A S : <<>> \in Seq(S)
BY DEF ToSet, IsInjective

\* An element added at the end, elist_add_tail for one.
LEMMA Appended ==
  ASSUME NEW S, NEW s \in Seq(S), NEW e \in S
  PROVE  /\ Append(s, e) \in Seq(S)
         /\ ToSet(Append(s, e)) = ToSet(s) \cup {e}
         /\ IsInjective(s) /\ e \notin ToSet(s) => IsInjective(Append(s, e))
         /\ Append(s, e)[1] = IF s = <<>> THEN e ELSE s[1]
<1> DEFINE t == Append(s, e)
<1>1. /\ t \in Seq(S) /\ Len(t) = Len(s) + 1 /\ DOMAIN t = 1..(Len(s) + 1)
      /\ t[Len(s) + 1] = e /\ \A i \in 1..Len(s) : t[i] = s[i]
  OBVIOUS
<1>2. DOMAIN s = 1..Len(s) /\ Len(s) \in Nat
  OBVIOUS
<1> HIDE DEF t
<1>3. ToSet(t) = ToSet(s) \cup {e}
  <2>1. ASSUME NEW x \in ToSet(t) PROVE x \in ToSet(s) \cup {e}
    <3>1. PICK i \in 1..(Len(s) + 1) : t[i] = x
      BY <1>1 DEF ToSet
    <3>2. i = Len(s) + 1 \/ i \in 1..Len(s)
      BY <1>2
    <3> QED BY <1>1, <1>2, <3>1, <3>2 DEF ToSet
  <2>2. ASSUME NEW x \in ToSet(s) \cup {e} PROVE x \in ToSet(t)
    <3>1. CASE x = e
      <4>1. Len(s) + 1 \in DOMAIN t
        BY <1>1, <1>2
      <4> QED BY <1>1, <3>1, <4>1 DEF ToSet
    <3>2. CASE x \in ToSet(s)
      <4>1. PICK i \in 1..Len(s) : s[i] = x
        BY <1>2, <3>2 DEF ToSet
      <4>2. i \in DOMAIN t
        BY <1>1, <1>2
      <4> QED BY <1>1, <4>1, <4>2 DEF ToSet
    <3> QED BY <3>1, <3>2
  <2> QED BY <2>1, <2>2
<1>4. ASSUME IsInjective(s), e \notin ToSet(s) PROVE IsInjective(t)
  <2> SUFFICES ASSUME NEW i \in 1..(Len(s) + 1), NEW j \in 1..(Len(s) + 1), t[i] = t[j]
               PROVE  i = j
    BY <1>1 DEF IsInjective
  <2>1. \A k \in 1..Len(s) : s[k] # e
    BY <1>2, <1>4 DEF ToSet
  <2>2. CASE i \in 1..Len(s) /\ j \in 1..Len(s)
    BY <1>1, <1>2, <1>4, <2>2 DEF IsInjective
  <2>3. CASE i = Len(s) + 1 \/ j = Len(s) + 1
    BY <1>1, <1>2, <2>1, <2>3
  <2> QED BY <1>2, <2>2, <2>3
<1>5. t[1] = IF s = <<>> THEN e ELSE s[1]
  BY <1>1, <1>2
<1> QED BY <1>1, <1>3, <1>4, <1>5 DEF t

\* The list without its element at a place.
LEMMA RemovedAt ==
  ASSUME NEW S, NEW s \in Seq(S), NEW k \in 1..Len(s)
  PROVE  LET t == RemoveAt(s, k)
         IN  /\ t \in Seq(S) /\ Len(t) = Len(s) - 1
             /\ \A i \in 1..Len(t) : t[i] = IF i < k THEN s[i] ELSE s[i + 1]
<1> DEFINE a == SubSeq(s, 1, k - 1)
           b == SubSeq(s, k + 1, Len(s))
<1>1. a \in Seq(S) /\ Len(a) = k - 1 /\ \A i \in 1..(k - 1) : a[i] = s[i]
  OBVIOUS
<1>2. b \in Seq(S) /\ Len(b) = Len(s) - k /\ \A i \in 1..(Len(s) - k) : b[i] = s[k + i]
  <2>1. k + 1 \in 1..(Len(s) + 1) /\ Len(s) \in Nat
    OBVIOUS
  <2>2. \A i \in (k + 1)..Len(s) : s[i] \in S
    OBVIOUS
  <2>3. Len(b) = Len(s) - k /\ \A i \in 1..(Len(s) - k) : b[i] = s[k + i]
    BY <2>1
  <2> QED BY <2>1, <2>2, <2>3
<1>3. RemoveAt(s, k) = a \o b
  BY DEF RemoveAt
<1> HIDE DEF a, b
<1>4. /\ a \o b \in Seq(S) /\ Len(a \o b) = Len(s) - 1
      /\ \A i \in 1..(Len(s) - 1) : (a \o b)[i] = IF i < k THEN s[i] ELSE s[i + 1]
  <2>1. a \o b \in Seq(S) /\ Len(a \o b) = Len(a) + Len(b)
    BY <1>1, <1>2, ConcatProperties
  <2>2. ASSUME NEW i \in 1..(Len(s) - 1)
        PROVE  (a \o b)[i] = IF i < k THEN s[i] ELSE s[i + 1]
    <3>1. (a \o b)[i] = IF i <= Len(a) THEN a[i] ELSE b[i - Len(a)]
      BY <1>1, <1>2
    <3>2. CASE i < k
      BY <1>1, <3>1, <3>2
    <3>3. CASE i >= k
      <4>1. i - Len(a) \in 1..(Len(s) - k) /\ ~(i <= Len(a))
        BY <1>1, <3>3
      <4>2. b[i - Len(a)] = s[k + (i - Len(a))]
        BY <1>2, <4>1
      <4>3. k + (i - Len(a)) = i + 1
        BY <1>1
      <4> QED BY <3>1, <3>3, <4>1, <4>2, <4>3
    <3>4. i < k \/ i >= k
      OBVIOUS
    <3> QED BY <3>2, <3>3, <3>4
  <2> QED BY <1>1, <1>2, <2>1, <2>2
<1> QED BY <1>3, <1>4

\* An element put in front of a list.
LEMMA PutInFront ==
  ASSUME NEW S, NEW s \in Seq(S), NEW e \in S
  PROVE  LET t == <<e>> \o s
         IN  /\ t \in Seq(S) /\ ToSet(t) = {e} \cup ToSet(s)
             /\ IsInjective(s) /\ e \notin ToSet(s) => IsInjective(t)
<1> DEFINE t == <<e>> \o s
<1>1. /\ t \in Seq(S) /\ Len(t) = Len(s) + 1 /\ t[1] = e
      /\ \A i \in 1..Len(s) : t[i + 1] = s[i]
  <2>1. <<e>> \in Seq(S) /\ Len(<<e>>) = 1 /\ <<e>>[1] = e
    OBVIOUS
  <2>2. /\ t \in Seq(S) /\ Len(t) = 1 + Len(s)
        /\ \A i \in 1..(1 + Len(s)) : t[i] = IF i <= 1 THEN <<e>>[i] ELSE s[i - 1]
    BY <2>1, ConcatProperties
  <2> HIDE DEF t
  <2>3. Len(s) \in Nat
    OBVIOUS
  <2>4. 1 \in 1..(1 + Len(s)) /\ 1 <= 1
    BY <2>3
  <2>5. t[1] = e
    BY <2>1, <2>2, <2>4
  <2>6. \A i \in 1..Len(s) : t[i + 1] = s[i]
    <3> TAKE i \in 1..Len(s)
    <3>1. i + 1 \in 1..(1 + Len(s)) /\ ~(i + 1 <= 1) /\ (i + 1) - 1 = i
      BY <2>3
    <3> QED BY <2>2, <3>1
  <2> QED BY <2>2, <2>3, <2>5, <2>6
<1> HIDE DEF t
<1>2. Len(s) \in Nat /\ DOMAIN s = 1..Len(s) /\ DOMAIN t = 1..(Len(s) + 1)
  BY <1>1
<1>3. \A i \in 1..(Len(s) + 1) : i = 1 \/ (i - 1 \in 1..Len(s) /\ t[i] = s[i - 1])
  <2> TAKE i \in 1..(Len(s) + 1)
  <2> SUFFICES ASSUME i # 1 PROVE i - 1 \in 1..Len(s) /\ t[i] = s[i - 1]
    OBVIOUS
  <2>1. i - 1 \in 1..Len(s) /\ (i - 1) + 1 = i
    BY <1>2
  <2> QED BY <1>1, <2>1
<1>4. ToSet(t) = {e} \cup ToSet(s)
  <2>1. ASSUME NEW x \in ToSet(t) PROVE x \in {e} \cup ToSet(s)
    <3>1. PICK i \in 1..(Len(s) + 1) : t[i] = x
      BY <1>2 DEF ToSet
    <3> QED BY <1>1, <1>2, <1>3, <3>1 DEF ToSet
  <2>2. ASSUME NEW x \in {e} \cup ToSet(s) PROVE x \in ToSet(t)
    <3>1. CASE x = e
      <4>1. 1 \in DOMAIN t
        BY <1>2
      <4> QED BY <1>1, <3>1, <4>1 DEF ToSet
    <3>2. CASE x \in ToSet(s)
      <4>1. PICK i \in 1..Len(s) : s[i] = x
        BY <1>2, <3>2 DEF ToSet
      <4>2. i + 1 \in DOMAIN t /\ t[i + 1] = x
        BY <1>1, <1>2, <4>1
      <4> QED BY <4>2 DEF ToSet
    <3> QED BY <3>1, <3>2
  <2> QED BY <2>1, <2>2
<1>5. ASSUME IsInjective(s), e \notin ToSet(s) PROVE IsInjective(t)
  <2> SUFFICES ASSUME NEW i \in 1..(Len(s) + 1), NEW j \in 1..(Len(s) + 1), t[i] = t[j]
               PROVE  i = j
    BY <1>2 DEF IsInjective
  <2>1. \A k \in 1..Len(s) : s[k] # e
    BY <1>2, <1>5 DEF ToSet
  <2>2. CASE i = 1 \/ j = 1
    BY <1>1, <1>3, <2>1, <2>2
  <2>3. CASE i # 1 /\ j # 1
    <3>1. i - 1 = j - 1
      BY <1>2, <1>3, <1>5, <2>3 DEF IsInjective
    <3> QED BY <3>1
  <2> QED BY <2>2, <2>3
<1> QED BY <1>1, <1>4, <1>5 DEF t

\* An element taken out of a list, elist_del for one.
LEMMA Removed ==
  ASSUME NEW S, NEW s \in Seq(S), NEW e
  PROVE  LET t == RemoveFirst(s, e)
         IN  /\ t \in Seq(S)
             /\ ToSet(t) \subseteq ToSet(s) /\ ToSet(s) \ {e} \subseteq ToSet(t)
             /\ IsInjective(s) => IsInjective(t) /\ ToSet(t) = ToSet(s) \ {e}
             /\ e \notin ToSet(s) => t = s
             /\ e \in ToSet(s) => Len(t) = Len(s) - 1
<1> DEFINE t == RemoveFirst(s, e)
<1>1. CASE e \notin ToSet(s)
  <2>1. t = s
    BY <1>1 DEF RemoveFirst, ToSet
  <2> QED BY <1>1, <2>1
<1>2. CASE e \in ToSet(s)
  <2> DEFINE I == {i \in 1..Len(s) : s[i] = e}
             k == Min(I)
  <2>1. I # {} /\ I \subseteq Nat
    BY <1>2 DEF ToSet
  <2>2. k \in I
    BY <2>1, MinIn
  <2>3. t = RemoveAt(s, k)
    BY <2>1 DEF RemoveFirst, SelectInSeq
  <2>4. k \in 1..Len(s) /\ s[k] = e
    BY <2>2
  <2>5. /\ t \in Seq(S) /\ Len(t) = Len(s) - 1
        /\ \A i \in 1..Len(t) : t[i] = IF i < k THEN s[i] ELSE s[i + 1]
    BY <2>3, <2>4, RemovedAt
  <2> HIDE DEF t, k, I
  <2>6. Len(s) \in Nat /\ DOMAIN s = 1..Len(s) /\ DOMAIN t = 1..Len(t)
    BY <2>5
  <2>7. ASSUME NEW x \in ToSet(t) PROVE x \in ToSet(s)
    <3>1. PICK i \in 1..Len(t) : t[i] = x
      BY <2>6 DEF ToSet
    <3>2. i \in 1..Len(s) /\ i + 1 \in 1..Len(s)
      BY <2>5, <2>6
    <3> QED BY <2>5, <2>6, <3>1, <3>2 DEF ToSet
  <2>8. ASSUME NEW x \in ToSet(s), x # e PROVE x \in ToSet(t)
    <3>1. PICK i \in 1..Len(s) : s[i] = x
      BY <2>6 DEF ToSet
    <3>2. i < k \/ i > k
      BY <2>4, <2>8, <3>1
    <3>3. CASE i < k
      <4>1. i \in 1..Len(t) /\ t[i] = x
        BY <2>4, <2>5, <2>6, <3>1, <3>3
      <4> QED BY <2>6, <4>1 DEF ToSet
    <3>4. CASE i > k
      <4>1. i - 1 \in 1..Len(t) /\ ~(i - 1 < k) /\ (i - 1) + 1 = i
        BY <2>4, <2>5, <2>6, <3>4
      <4>2. t[i - 1] = x
        BY <2>5, <3>1, <4>1
      <4> QED BY <2>6, <4>1, <4>2 DEF ToSet
    <3> QED BY <3>2, <3>3, <3>4
  <2>9. ASSUME IsInjective(s) PROVE IsInjective(t) /\ e \notin ToSet(t)
    <3> DEFINE at(i) == IF i < k THEN i ELSE i + 1
    <3>1. \A i \in 1..Len(t) : at(i) \in 1..Len(s) /\ at(i) # k /\ t[i] = s[at(i)]
      BY <2>4, <2>5, <2>6
    <3>2. \A i, j \in 1..Len(t) : at(i) = at(j) => i = j
      BY <2>4, <2>5, <2>6
    <3>3. \A i, j \in 1..Len(s) : s[i] = s[j] => i = j
      BY <2>6, <2>9 DEF IsInjective
    <3> HIDE DEF at
    <3>4. \A i, j \in 1..Len(t) : t[i] = t[j] => i = j
      BY <3>1, <3>2, <3>3
    <3>5. \A i \in 1..Len(t) : t[i] # e
      BY <2>4, <3>1, <3>3
    <3> QED BY <2>6, <3>4, <3>5 DEF IsInjective, ToSet
  <2>10. ToSet(t) \subseteq ToSet(s) /\ ToSet(s) \ {e} \subseteq ToSet(t)
    BY <2>7, <2>8
  <2>11. IsInjective(s) => IsInjective(t) /\ ToSet(t) = ToSet(s) \ {e}
    BY <2>9, <2>10
  <2> QED BY <1>2, <2>5, <2>10, <2>11 DEF t
<1> QED BY <1>1, <1>2

\* What is at the tail of a list with no element twice is not at its head.
LEMMA TailOf ==
  ASSUME NEW S, NEW s \in Seq(S), s # <<>>
  PROVE  /\ Tail(s) \in Seq(S) /\ Len(Tail(s)) = Len(s) - 1 /\ Head(s) \in ToSet(s)
         /\ ToSet(s) = {Head(s)} \cup ToSet(Tail(s))
         /\ IsInjective(s) => IsInjective(Tail(s)) /\ ToSet(Tail(s)) = ToSet(s) \ {Head(s)}
<1>1. /\ Tail(s) \in Seq(S) /\ Len(Tail(s)) = Len(s) - 1 /\ Len(s) \in Nat \ {0}
      /\ DOMAIN s = 1..Len(s) /\ DOMAIN Tail(s) = 1..(Len(s) - 1)
      /\ Head(s) = s[1] /\ \A i \in 1..(Len(s) - 1) : Tail(s)[i] = s[i + 1]
  OBVIOUS
<1> DEFINE t == Tail(s)
<1> HIDE DEF t
<1>2. Head(s) \in ToSet(s)
  BY <1>1 DEF ToSet
<1>3. ASSUME NEW x \in ToSet(t) PROVE x \in ToSet(s)
  <2>1. PICK i \in 1..(Len(s) - 1) : t[i] = x
    BY <1>1 DEF ToSet, t
  <2>2. i + 1 \in 1..Len(s) /\ s[i + 1] = x
    BY <1>1, <2>1 DEF t
  <2> QED BY <1>1, <2>2 DEF ToSet
<1>4. ASSUME NEW x \in ToSet(s), x # Head(s) PROVE x \in ToSet(t)
  <2>1. PICK i \in 1..Len(s) : s[i] = x
    BY <1>1 DEF ToSet
  <2>2. i - 1 \in 1..(Len(s) - 1) /\ (i - 1) + 1 = i
    BY <1>1, <1>4, <2>1
  <2>3. t[i - 1] = x
    BY <1>1, <2>1, <2>2 DEF t
  <2> QED BY <1>1, <2>2, <2>3 DEF ToSet, t
<1>5. ASSUME IsInjective(s) PROVE IsInjective(t) /\ Head(s) \notin ToSet(t)
  <2>1. \A i, j \in 1..Len(s) : s[i] = s[j] => i = j
    BY <1>1, <1>5 DEF IsInjective
  <2>2. \A i, j \in 1..(Len(s) - 1) : t[i] = t[j] => i = j
    <3> TAKE i, j \in 1..(Len(s) - 1)
    <3>1. i + 1 \in 1..Len(s) /\ j + 1 \in 1..Len(s) /\ (i + 1 = j + 1 => i = j)
      BY <1>1
    <3> QED BY <1>1, <2>1, <3>1 DEF t
  <2>3. \A i \in 1..(Len(s) - 1) : t[i] # Head(s)
    <3> TAKE i \in 1..(Len(s) - 1)
    <3>1. i + 1 \in 1..Len(s) /\ i + 1 # 1 /\ 1 \in 1..Len(s)
      BY <1>1
    <3> QED BY <1>1, <2>1, <3>1 DEF t
  <2> QED BY <1>1, <2>2, <2>3 DEF IsInjective, ToSet, t
<1>6. ToSet(s) = {Head(s)} \cup ToSet(t)
  BY <1>2, <1>3, <1>4
<1> QED BY <1>1, <1>2, <1>5, <1>6 DEF t

\* The first element taken out of a list.
LEMMA HeadRemoved ==
  ASSUME NEW S, NEW s \in Seq(S), s # <<>>
  PROVE  RemoveFirst(s, Head(s)) = Tail(s)
<1> DEFINE I == {i \in 1..Len(s) : s[i] = Head(s)}
           t == RemoveFirst(s, Head(s))
<1>1. Len(s) \in Nat /\ 1 \in 1..Len(s) /\ Head(s) = s[1]
  OBVIOUS
<1>2. 1 \in I /\ I \subseteq Nat
  BY <1>1
<1>3. t = RemoveAt(s, Min(I))
  BY <1>2 DEF RemoveFirst, SelectInSeq
<1>4. Min(I) \in I /\ Min(I) <= 1
  BY <1>2, MinIn
<1> HIDE DEF t
<1>5. Min(I) = 1
  <2>1. I \subseteq 1..Len(s)
    OBVIOUS
  <2>2. Min(I) \in 1..Len(s)
    BY <1>4, <2>1
  <2>3. \A m \in 1..Len(s) : m <= 1 => m = 1
    BY <1>1
  <2> HIDE DEF I
  <2> QED BY <1>4, <2>2, <2>3
<1> HIDE DEF I
<1>6. /\ t \in Seq(S) /\ Len(t) = Len(s) - 1
      /\ \A i \in 1..Len(t) : t[i] = IF i < 1 THEN s[i] ELSE s[i + 1]
  BY <1>1, <1>3, <1>5, RemovedAt
<1>7. \A i \in 1..Len(t) : t[i] = s[i + 1]
  <2> TAKE i \in 1..Len(t)
  <2>1. ~(i < 1)
    BY <1>1, <1>6
  <2> QED BY <1>6, <2>1
<1>8. Tail(s) \in Seq(S) /\ Len(Tail(s)) = Len(s) - 1 /\ \A i \in 1..(Len(s) - 1) : Tail(s)[i] = s[i + 1]
  OBVIOUS
<1>9. t = Tail(s)
  BY <1>6, <1>7, <1>8, SeqEqual
<1> QED BY <1>9 DEF t

\* The first n numbers are n.
LEMMA IntervalSize ==
  ASSUME NEW n \in Nat
  PROVE  IsFiniteSet(1..n) /\ Cardinality(1..n) = n
<1>1. 1 \in Int /\ n \in Int
  OBVIOUS
<1>2. IsFiniteSet(1..n) /\ Cardinality(1..n) = IF 1 > n THEN 0 ELSE n - 1 + 1
  BY <1>1, FS_Interval, ZenonT(30)
<1>3. (IF 1 > n THEN 0 ELSE n - 1 + 1) = n
  OBVIOUS
<1> QED BY <1>2, <1>3

\* A list with no element twice is no longer than the set of what it may hold.
LEMMA LengthBound ==
  ASSUME NEW S, NEW s \in Seq(S), IsFiniteSet(S), IsInjective(s)
  PROVE  Len(s) <= Cardinality(S) /\ Cardinality(S) \in Nat
<1>1. s \in Injection(1..Len(s), S)
  BY DEF Injection, IsInjective
<1>2. Cardinality(1..Len(s)) = Len(s)
  <2> DEFINE n == Len(s)
  <2>1. n \in Nat
    OBVIOUS
  <2> HIDE DEF n
  <2>2. Cardinality(1..n) = n
    BY <2>1, IntervalSize
  <2> QED BY <2>2 DEF n
<1>3. Cardinality(1..Len(s)) <= Cardinality(S)
  BY <1>1, FS_Injection
<1> QED BY <1>2, <1>3, FS_CardinalityType

\* The elements of a finite set, in some order.
LEMMA SetAsList ==
  ASSUME NEW S, IsFiniteSet(S)
  PROVE  LET s == SetToSeq(S) IN s \in Seq(S) /\ ToSet(s) = S /\ IsInjective(s)
<1> DEFINE n == Cardinality(S)
<1>1. n \in Nat /\ ExistsBijection(1..n, S)
  BY FS_CardinalityType
<1>2. PICK f \in [1..n -> S] : IsInjective(f) /\ \A x \in S : \E i \in 1..n : f[i] = x
  BY <1>1 DEF ExistsBijection, Bijection, Injection, Surjection, IsInjective
<1> DEFINE s == SetToSeq(S)
<1>3. s \in [1..n -> S] /\ IsInjective(s)
  BY <1>2 DEF SetToSeq
<1> HIDE DEF s
<1>4. s \in Injection(1..n, S)
  BY <1>3 DEF Injection, IsInjective
<1>5. Cardinality(1..n) = n
  <2> HIDE DEF n
  <2> QED BY <1>1, IntervalSize
<1>6. s \in Surjection(1..n, S)
  BY <1>4, <1>5, FS_Injection
<1>7. ToSet(s) = S
  BY <1>3, <1>6 DEF ToSet, Surjection
<1> QED BY <1>1, <1>3, <1>7 DEF s
=============================================================================
