---------------------------- MODULE FoldInduction ----------------------------
(***************************************************************************)
(* Induction along FoldLeft, for the models that say by a fold what a loop *)
(* of the program does.  The library's theorems on folds take operators as *)
(* parameters; here the operator of the fold and its invariant are         *)
(* constants, and a module of proofs takes an instance for each loop:      *)
(* c is what the loop does not change, Inv(c, k, a) says that a may be the *)
(* value after the first k elements.                                       *)
(***************************************************************************)
EXTENDS Integers, WellFoundedInduction, TLAPS

CONSTANTS Op(_, _, _), Inv(_, _, _)

\* These two facts of Lists are stated here as well, so that an instance brings along no more
\* than it needs.  A set of numbers has a least element.
LEMMA Least ==
  ASSUME NEW T, T \subseteq Nat, T # {}
  PROVE  \E n \in T : \A m \in T : n <= m
<1>1. IsWellFoundedOn(OpToRel(<, Nat), Nat)
  BY NatLessThanWellFounded
<1>2. PICK n \in T : \A m \in T : <<m, n>> \notin OpToRel(<, Nat)
  BY <1>1, WFMin
<1>3. ASSUME NEW m \in T, m < n PROVE FALSE
  <2>1. <<m, n>> \in OpToRel(<, Nat)
    BY <1>3 DEF OpToRel
  <2> QED BY <1>2, <2>1
<1> QED BY <1>3

\* Induction over the numbers, stated with a set in place of a predicate.
LEMMA Induct ==
  ASSUME NEW S, 0 \in S, \A n \in Nat : n \in S => n + 1 \in S
  PROVE  Nat \subseteq S
<1> DEFINE T == Nat \ S
<1> SUFFICES ASSUME T # {} PROVE FALSE
  OBVIOUS
<1>1. PICK n \in T : \A m \in T : n <= m
  BY Least
<1>2. n - 1 \in Nat /\ n - 1 \notin T
  BY <1>1
<1> QED BY <1>2, <1>1

\* What FoldLeft takes next, as Max of the library.
Greatest(S) == CHOOSE x \in S : \A y \in S : x >= y

\* The greatest element of a set of numbers is the one found.
LEMMA MaxOf ==
  ASSUME NEW s, NEW m \in s, s \subseteq Int, \A x \in s : m >= x
  PROVE  Greatest(s) = m
<1>1. /\ Greatest(s) \in s
      /\ \A x \in s : Greatest(s) >= x
  BY Zenon DEF Greatest
<1>2. Greatest(s) >= m /\ m >= Greatest(s) /\ Greatest(s) \in Int /\ m \in Int
  BY <1>1
<1> HIDE DEF Greatest
<1> QED BY <1>2

\* g is the function by which the fold is defined, on the subsets of D.
Iter(c, g, base, seq, D) ==
  g = [s \in SUBSET D |-> IF s = {} THEN base ELSE Op(c, g[s \ {Greatest(s)}], seq[Greatest(s)])]

\* A set of some of the first k numbers has a greatest one.
LEMMA MaxIn ==
  ASSUME NEW k \in Nat, NEW s, s \subseteq 1..k, s # {}
  PROVE  /\ Greatest(s) \in s
         /\ \A x \in s : Greatest(s) >= x
<1>1. \E m \in s : \A x \in s : m >= x
  <2> DEFINE T == {n \in Nat : k - n \in s}
  <2>1. T \subseteq Nat /\ T # {}
    <3>1. PICK x \in s : TRUE
      OBVIOUS
    <3>2. k - x \in T
      BY <3>1
    <3> QED BY <3>2
  <2>2. PICK n \in T : \A m \in T : n <= m
    BY <2>1, Least
  <2>3. ASSUME NEW x \in s PROVE k - n >= x
    <3>1. k - x \in T
      OBVIOUS
    <3> QED BY <2>2, <3>1
  <2> QED BY <2>3
<1> QED BY <1>1, Zenon DEF Greatest

\* There is such a function for every D.
LEMMA IterExists ==
  ASSUME NEW c, NEW base, NEW seq
  PROVE  \A n \in Nat : \E g : Iter(c, g, base, seq, 1..n)
<1> DEFINE S == {n \in Nat : \E g : Iter(c, g, base, seq, 1..n)}
<1>1. 0 \in S
  <2> DEFINE g == [s \in SUBSET (1..0) |-> base]
  <2>1. Iter(c, g, base, seq, 1..0)
    BY DEF Iter
  <2> QED BY <2>1
<1>2. ASSUME NEW n \in Nat, n \in S PROVE n + 1 \in S
  <2>1. PICK g : Iter(c, g, base, seq, 1..n)
    BY <1>2
  <2> DEFINE h == [s \in SUBSET (1..n+1) |->
                     IF n + 1 \in s THEN Op(c, g[s \ {n+1}], seq[n+1]) ELSE g[s]]
  <2>2. ASSUME NEW s \in SUBSET (1..n+1)
        PROVE  h[s] = IF s = {} THEN base ELSE Op(c, h[s \ {Greatest(s)}], seq[Greatest(s)])
    <3>1. CASE n + 1 \in s
      <4>1. Greatest(s) = n + 1
        <5>1. s \subseteq Int /\ \A x \in s : n + 1 >= x
          OBVIOUS
        <5> QED BY <3>1, <5>1, MaxOf
      <4>2. h[s \ {n+1}] = g[s \ {n+1}]
        OBVIOUS
      <4> QED BY <3>1, <4>1, <4>2
    <3>2. CASE n + 1 \notin s
      <4>1. s \in SUBSET (1..n)
        BY <3>2
      <4>2. CASE s = {}
        BY <2>1, <4>1, <4>2 DEF Iter
      <4>3. CASE s # {}
        <5>1. Greatest(s) \in s
          BY <4>1, <4>3, MaxIn
        <5>2. h[s \ {Greatest(s)}] = g[s \ {Greatest(s)}]
          <6>1. s \ {Greatest(s)} \in SUBSET (1..n+1) /\ n + 1 \notin s \ {Greatest(s)}
            <7>1. s \subseteq 1..n+1 /\ n + 1 \notin s \ {Greatest(s)} /\ s \ {Greatest(s)} \subseteq s
              <8> HIDE DEF h, S
              <8> QED BY <4>1
            <7> QED BY <7>1, Zenon
          <6> QED BY <6>1
        <5>3. g[s] = Op(c, g[s \ {Greatest(s)}], seq[Greatest(s)])
          BY <2>1, <4>1, <4>3 DEF Iter
        <5>4. h[s] = g[s]
          BY <3>2
        <5> QED BY <4>3, <5>2, <5>3, <5>4
      <4> QED BY <4>2, <4>3
    <3> QED BY <3>1, <3>2
  <2>3. Iter(c, h, base, seq, 1..n+1)
    BY <2>2 DEF Iter
  <2> QED BY <2>3
<1> HIDE DEF S
<1>3. Nat \subseteq S
  BY <1>1, <1>2, Induct
<1> QED BY <1>3 DEF S

\* The fold, as FoldLeft of SequencesExt unfolds.
Fold(c, base, seq) ==
  LET iter[s \in SUBSET DOMAIN seq] ==
        IF s = {} THEN base ELSE LET x == Greatest(s) IN Op(c, iter[s \ {x}], seq[x])
  IN  iter[DOMAIN seq]

\* What holds at the start and is kept by each turn holds at the end.
THEOREM FoldLeftInv ==
  ASSUME NEW c, NEW base, NEW seq, NEW n \in Nat, DOMAIN seq = 1..n,
         Inv(c, 0, base),
         \A a : \A i \in 1..n : Inv(c, i - 1, a) => Inv(c, i, Op(c, a, seq[i]))
  PROVE  Inv(c, n, Fold(c, base, seq))
<1> DEFINE iter == CHOOSE g : Iter(c, g, base, seq, 1..n)
<1>1. Iter(c, iter, base, seq, 1..n)
  BY IterExists
<1>2. Fold(c, base, seq) = iter[1..n]
  BY DEF Fold, Iter
<1> DEFINE S == {k \in Nat : k <= n => Inv(c, k, iter[1..k])}
<1> HIDE DEF iter
<1>3. 0 \in S
  BY <1>1 DEF Iter
<1>4. ASSUME NEW k \in Nat, k \in S PROVE k + 1 \in S
  <2> SUFFICES ASSUME k + 1 <= n PROVE Inv(c, k + 1, iter[1..k+1])
    OBVIOUS
  <2>1. Greatest(1..k+1) = k + 1
    <3>1. 1..k+1 \subseteq Int /\ k + 1 \in 1..k+1 /\ \A x \in 1..k+1 : k + 1 >= x
      OBVIOUS
    <3> QED BY <3>1, MaxOf, Zenon
  <2>2. iter[1..k+1] = Op(c, iter[(1..k+1) \ {k+1}], seq[k+1])
    <3>1. 1..k+1 \in SUBSET (1..n) /\ 1..k+1 # {}
      <4>1. k + 1 \in 1..k+1 /\ \A i \in 1..k+1 : i \in 1..n
        OBVIOUS
      <4> QED BY <4>1, Zenon
    <3> QED BY <1>1, <2>1, <3>1 DEF Iter
  <2>3. (1..k+1) \ {k+1} = 1..k
    OBVIOUS
  <2>4. Inv(c, k, iter[1..k]) /\ k + 1 \in 1..n /\ (k + 1) - 1 = k
    BY <1>4
  <2>5. Inv(c, k + 1, Op(c, iter[1..k], seq[k + 1]))
    BY <2>4
  <2> QED BY <2>2, <2>3, <2>5
<1> HIDE DEF S
<1>5. Nat \subseteq S
  BY <1>3, <1>4, Induct
<1>6. Inv(c, n, iter[1..n])
  BY <1>5 DEF S
<1> QED BY <1>2, <1>6
=============================================================================
