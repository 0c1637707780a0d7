---------------------------- MODULE Tables_proofs ----------------------------
(***************************************************************************)
(* Theorems about two tables.  The locks of the characters as d2dbs stores *)
(* them, for any characters, servers, sizes of the tables and number of    *)
(* cells: the lists are well formed, and the table implements CharLock.    *)
(* The games of bnetd, for any players, names, number of games and of      *)
(* seats: types, players and their seats, and the results that accounts    *)
(* are given when a game ends.                                             *)
(***************************************************************************)
EXTENDS CharLockList, Game, Lists

-----------------------------------------------------------------------------
(***************************************************************************)
(* Locks.  The inductive invariant, on the two tables cl and gq and the    *)
(* cells hp.                                                               *)
(***************************************************************************)
NextOf(hp) == [p \in Ptr |-> IF p \in DOMAIN hp THEN hp[p].next ELSE Null]
GsqNextOf(hp) == [p \in Ptr |-> IF p \in DOMAIN hp THEN hp[p].gsqnext ELSE Null]
HChain(cl, hp, h) == ChainFrom(cl[h], NextOf(hp))
GChain(gq, hp, s) == ChainFrom(gq[s], GsqNextOf(hp))

First(c) == IF c = <<>> THEN Null ELSE c[1]
After(c, i) == IF i = Len(c) THEN Null ELSE c[i + 1]
Before(c, i) == IF i = 1 THEN Null ELSE c[i - 1]

\* c is the hash chain of h: its cells and their links.
HashOK(c, cl, hp, h) ==
  /\ c \in Seq(Cells) /\ IsInjective(c)
  /\ ToSet(c) = {p \in DOMAIN hp : Bucket(hp[p].charname) = h}
  /\ cl[h] = First(c)
  /\ \A i \in 1..Len(c) : hp[c[i]].next = After(c, i)

\* c is the list of the slot s.
GsqOK(c, gq, hp, s) ==
  /\ c \in Seq(Cells) /\ IsInjective(c)
  /\ ToSet(c) = {p \in DOMAIN hp : Slot(hp[p].gsid) = s}
  /\ gq[s] = First(c)
  /\ \A i \in 1..Len(c) : hp[c[i]].gsqnext = After(c, i) /\ hp[c[i]].gsqprev = Before(c, i)

Buckets == 0..TblLen - 1
Slots == 0..GsqLen - 1
CellsOK(cl, gq, hp) ==
  /\ cl \in [Buckets -> DOMAIN hp \cup {Null}] /\ gq \in [Slots -> DOMAIN hp \cup {Null}]
  /\ DOMAIN hp \subseteq Cells
  /\ \A p \in DOMAIN hp : hp[p] \in CharLockInfo

\* A character has one cell at most.
OneEach(hp) == \A p, q \in DOMAIN hp : hp[p].charname = hp[q].charname => p = q

TableOK(cl, gq, hp) ==
  /\ CellsOK(cl, gq, hp)
  /\ OneEach(hp)
  /\ \A h \in Buckets : HashOK(HChain(cl, hp, h), cl, hp, h)
  /\ \A s \in Slots : GsqOK(GChain(gq, hp, s), gq, hp, s)

\* The loop of cl_unlock_all_char_by_gsid is at a cell of the slot's list, and the locks of the
\* server that are left are there or after it.
WalkOK(gq, hp, w) ==
  \/ w = NoWalk
  \/ /\ w \in [gsid : Gsids, pcl : DOMAIN hp \cup {Null}]
     /\ LET c == GChain(gq, hp, Slot(w.gsid))
        IN  \E k \in 1..(Len(c) + 1) :
              /\ w.pcl = IF k = Len(c) + 1 THEN Null ELSE c[k]
              /\ \A i \in 1..Len(c) : hp[c[i]].gsid = w.gsid => k <= i

ListInv == TableOK(clitbl, gsqtbl, heap) /\ WalkOK(gsqtbl, heap, walk)

-----------------------------------------------------------------------------
\* Lemmas about the chains.

\* The buckets and the slots are places of the tables.
LEMMA Places ==
  /\ \A c \in Chars : Bucket(c) \in Buckets
  /\ \A g \in Gsids : Slot(g) \in Slots
<1>1. \A a \in Nat, b \in Nat \ {0} : a % b \in 0..b - 1
  OBVIOUS
<1>2. \A c \in Chars : Hash[c] \in Nat
  BY ListAssumption
<1>3. \A g \in Gsids : g \in Nat
  BY ListAssumption
<1> QED BY <1>1, <1>2, <1>3, ListAssumption DEF Bucket, Slot, Buckets, Slots

\* A walk along a list without repetition meets its cells.
LEMMA ChainIs ==
  ASSUME NEW c \in Seq(Cells), IsInjective(c), NEW head, NEW succ, head = First(c), succ[Null] = Null,
         \A i \in 1..Len(c) : succ[c[i]] = After(c, i)
  PROVE  ChainFrom(head, succ) = c
<1> DEFINE n == Len(c)
           D == 1..MaxCells + 1
           At(f) == f = [i \in D |-> IF i = 1 THEN head ELSE succ[f[i - 1]]]
           f0 == [i \in D |-> IF i <= n THEN c[i] ELSE Null]
           at == CHOOSE f : At(f)
<1>1. n \in Nat /\ DOMAIN c = 1..n /\ \A i \in 1..n : c[i] \in Cells
  BY Elements
<1>2. n <= MaxCells /\ MaxCells \in Nat
  <2>1. IsFiniteSet(Cells) /\ Cardinality(Cells) = MaxCells
    <3>1. 1 \in Int /\ MaxCells \in Nat
      BY ListAssumption
    <3> QED BY <3>1, IntervalSize DEF Cells
  <2> QED BY <2>1, LengthBound, ListAssumption
<1>3. c # <<>> <=> n # 0
  BY <1>1
<1> HIDE DEF n
<1>4. At(f0)
  <2>1. ASSUME NEW i \in D PROVE f0[i] = IF i = 1 THEN head ELSE succ[f0[i - 1]]
    <3>1. CASE i = 1
      BY <1>1, <1>2, <1>3, <3>1 DEF First
    <3>2. CASE i # 1
      <4>1. i - 1 \in D /\ i - 1 \in Nat /\ i \in Nat
        BY <1>2, <3>2
      <4>2. CASE i - 1 <= n
        <5>1. i - 1 \in 1..n /\ f0[i - 1] = c[i - 1]
          BY <1>1, <3>2, <4>1, <4>2
        <5>2. succ[c[i - 1]] = IF i - 1 = n THEN Null ELSE c[i]
          BY <4>1, <5>1 DEF After, n
        <5> QED BY <1>1, <3>2, <4>1, <4>2, <5>1, <5>2
      <4>3. CASE ~(i - 1 <= n)
        BY <1>1, <3>2, <4>1, <4>3
      <4> QED BY <4>2, <4>3
    <3> QED BY <3>1, <3>2
  <2> QED BY <2>1
<1>5. At(at)
  BY <1>4
<1>6. \A i \in D : at[i] = f0[i]
  <2> DEFINE S == {i \in Nat : i + 1 \in D => at[i + 1] = f0[i + 1]}
  <2> HIDE DEF at, f0
  <2>1. 0 \in S
    BY <1>4, <1>5
  <2>2. ASSUME NEW i \in Nat, i \in S PROVE i + 1 \in S
    <3> SUFFICES ASSUME (i + 1) + 1 \in D PROVE at[(i + 1) + 1] = f0[(i + 1) + 1]
      OBVIOUS
    <3>1. i + 1 \in D /\ (i + 1) + 1 # 1 /\ ((i + 1) + 1) - 1 = i + 1
      BY <1>2
    <3>2. at[i + 1] = f0[i + 1]
      BY <2>2, <3>1
    <3> QED BY <1>4, <1>5, <3>1, <3>2
  <2> HIDE DEF S
  <2>3. Nat \subseteq S
    BY <2>1, <2>2, SetInd
  <2>4. ASSUME NEW i \in D PROVE at[i] = f0[i]
    <3>1. i - 1 \in Nat /\ (i - 1) + 1 = i
      BY <1>2
    <3> QED BY <2>3, <3>1 DEF S
  <2> QED BY <2>4
<1> DEFINE met == {i \in D : at[i] # Null}
<1>7. ChainFrom(head, succ) = IF head = Null THEN <<>> ELSE [i \in 1..Cardinality(met) |-> at[i]]
  BY DEF ChainFrom
<1> HIDE DEF at
<1>8. met = 1..n
  <2>1. \A i \in D : at[i] # Null <=> i <= n
    BY <1>1, <1>2, <1>6 DEF Cells, Null
  <2> QED BY <1>1, <1>2, <2>1
<1>9. Cardinality(1..n) = n
  BY <1>1, IntervalSize
<1>10. [i \in 1..n |-> at[i]] = c
  <2>1. \A i \in 1..n : at[i] = c[i]
    BY <1>1, <1>2, <1>6
  <2>2. c = [i \in 1..n |-> c[i]]
    BY <1>1
  <2> HIDE DEF met, f0
  <2> QED BY <2>1, <2>2
<1>11. head = Null => c = <<>>
  BY <1>1, <1>3 DEF First, Cells, Null
<1> QED BY <1>7, <1>8, <1>9, <1>10, <1>11

\* The chain of a bucket is what is linked there.
LEMMA HashChainIs ==
  ASSUME NEW cl, NEW hp, NEW h, NEW c, HashOK(c, cl, hp, h), DOMAIN hp \subseteq Cells
  PROVE  HChain(cl, hp, h) = c
<1>1. c \in Seq(Cells) /\ IsInjective(c) /\ cl[h] = First(c)
  BY DEF HashOK
<1>2. NextOf(hp)[Null] = Null
  BY DEF NextOf, Ptr, Cells, Null
<1>3. ASSUME NEW i \in 1..Len(c) PROVE NextOf(hp)[c[i]] = After(c, i)
  <2>1. c[i] \in Cells /\ c[i] \in DOMAIN hp
    BY <1>1, Elements DEF HashOK
  <2> QED BY <2>1 DEF NextOf, Ptr, HashOK
<1> QED BY <1>1, <1>2, <1>3, ChainIs DEF HChain

\* The list of a slot is what is linked there.
LEMMA GsqChainIs ==
  ASSUME NEW gq, NEW hp, NEW s, NEW c, GsqOK(c, gq, hp, s), DOMAIN hp \subseteq Cells
  PROVE  GChain(gq, hp, s) = c
<1>1. c \in Seq(Cells) /\ IsInjective(c) /\ gq[s] = First(c)
  BY DEF GsqOK
<1>2. GsqNextOf(hp)[Null] = Null
  BY DEF GsqNextOf, Ptr, Cells, Null
<1>3. ASSUME NEW i \in 1..Len(c) PROVE GsqNextOf(hp)[c[i]] = After(c, i)
  <2>1. c[i] \in Cells /\ c[i] \in DOMAIN hp
    BY <1>1, Elements DEF GsqOK
  <2> QED BY <2>1 DEF GsqNextOf, Ptr, GsqOK
<1> QED BY <1>1, <1>2, <1>3, ChainIs DEF GChain

\* What FirstIn computes.
Found(hits) == IF hits = {} THEN 0 ELSE CHOOSE i \in hits : \A j \in hits : i <= j

\* A search finds one of what it looks for, if there is any.
LEMMA FoundIs ==
  ASSUME NEW hits, hits \subseteq Nat \ {0}
  PROVE  /\ hits # {} => Found(hits) \in hits /\ Found(hits) # 0
         /\ hits = {} => Found(hits) = 0
<1>1. hits # {} => \E i \in hits : \A j \in hits : i <= j
  BY NatMin
<1> QED BY <1>1, Zenon DEF Found

\* A cell is in the chain of its character, and in the list of its server's slot.
LEMMA Linked ==
  ASSUME NEW cl, NEW gq, NEW hp, TableOK(cl, gq, hp), NEW p \in DOMAIN hp
  PROVE  /\ hp[p] \in CharLockInfo /\ p \in Cells
         /\ Bucket(hp[p].charname) \in Buckets /\ Slot(hp[p].gsid) \in Slots
         /\ p \in ToSet(HChain(cl, hp, Bucket(hp[p].charname)))
         /\ p \in ToSet(GChain(gq, hp, Slot(hp[p].gsid)))
<1>1. hp[p] \in CharLockInfo /\ p \in Cells
  BY DEF TableOK, CellsOK
<1>2. Bucket(hp[p].charname) \in Buckets /\ Slot(hp[p].gsid) \in Slots
  BY <1>1, Places DEF CharLockInfo
<1>3. /\ HashOK(HChain(cl, hp, Bucket(hp[p].charname)), cl, hp, Bucket(hp[p].charname))
      /\ GsqOK(GChain(gq, hp, Slot(hp[p].gsid)), gq, hp, Slot(hp[p].gsid))
  BY <1>2 DEF TableOK
<1> QED BY <1>1, <1>2, <1>3 DEF HashOK, GsqOK

\* The cells of a chain.
LEMMA InChain ==
  ASSUME NEW cl, NEW gq, NEW hp, TableOK(cl, gq, hp), NEW h \in Buckets
  PROVE  LET c == HChain(cl, hp, h)
         IN  /\ c \in Seq(Cells) /\ Len(c) \in Nat /\ DOMAIN c = 1..Len(c)
             /\ \A i \in 1..Len(c) : /\ c[i] \in Cells /\ c[i] \in DOMAIN hp
                                     /\ Bucket(hp[c[i]].charname) = h /\ hp[c[i]].next = After(c, i)
             /\ \A i, j \in 1..Len(c) : c[i] = c[j] => i = j
             /\ \A p \in DOMAIN hp : Bucket(hp[p].charname) = h => \E i \in 1..Len(c) : c[i] = p
             /\ cl[h] = First(c)
<1> DEFINE c == HChain(cl, hp, h)
<1>1. HashOK(c, cl, hp, h)
  BY DEF TableOK
<1> HIDE DEF c
<1>2. /\ c \in Seq(Cells) /\ IsInjective(c) /\ cl[h] = First(c)
      /\ ToSet(c) = {p \in DOMAIN hp : Bucket(hp[p].charname) = h}
      /\ \A i \in 1..Len(c) : hp[c[i]].next = After(c, i)
  BY <1>1 DEF HashOK
<1>3. /\ Len(c) \in Nat /\ DOMAIN c = 1..Len(c)
      /\ \A i \in 1..Len(c) : c[i] \in ToSet(c) /\ c[i] \in Cells
      /\ \A x \in ToSet(c) : \E i \in 1..Len(c) : c[i] = x
  BY <1>2, Elements
<1>4. \A i, j \in 1..Len(c) : c[i] = c[j] => i = j
  BY <1>2, <1>3 DEF IsInjective
<1> QED BY <1>2, <1>3, <1>4 DEF c

\* The cells of a list.
LEMMA InList ==
  ASSUME NEW cl, NEW gq, NEW hp, TableOK(cl, gq, hp), NEW s \in Slots
  PROVE  LET c == GChain(gq, hp, s)
         IN  /\ c \in Seq(Cells) /\ Len(c) \in Nat /\ DOMAIN c = 1..Len(c)
             /\ \A i \in 1..Len(c) : /\ c[i] \in Cells /\ c[i] \in DOMAIN hp /\ Slot(hp[c[i]].gsid) = s
                                     /\ hp[c[i]].gsqnext = After(c, i) /\ hp[c[i]].gsqprev = Before(c, i)
             /\ \A i, j \in 1..Len(c) : c[i] = c[j] => i = j
             /\ \A p \in DOMAIN hp : Slot(hp[p].gsid) = s => \E i \in 1..Len(c) : c[i] = p
             /\ gq[s] = First(c)
<1> DEFINE c == GChain(gq, hp, s)
<1>1. GsqOK(c, gq, hp, s)
  BY DEF TableOK
<1> HIDE DEF c
<1>2. /\ c \in Seq(Cells) /\ IsInjective(c) /\ gq[s] = First(c)
      /\ ToSet(c) = {p \in DOMAIN hp : Slot(hp[p].gsid) = s}
      /\ \A i \in 1..Len(c) : hp[c[i]].gsqnext = After(c, i) /\ hp[c[i]].gsqprev = Before(c, i)
  BY <1>1 DEF GsqOK
<1>3. /\ Len(c) \in Nat /\ DOMAIN c = 1..Len(c)
      /\ \A i \in 1..Len(c) : c[i] \in ToSet(c) /\ c[i] \in Cells
      /\ \A x \in ToSet(c) : \E i \in 1..Len(c) : c[i] = x
  BY <1>2, Elements
<1>4. \A i, j \in 1..Len(c) : c[i] = c[j] => i = j
  BY <1>2, <1>3 DEF IsInjective
<1> QED BY <1>2, <1>3, <1>4 DEF c

\* cl_query_charlock_status, of any tables: it finds the owner.
Query(cl, hp, c) ==
  LET chain == HChain(cl, hp, Bucket(c))
      i == FirstIn(chain, LAMBDA p : hp[p].charname = c)
  IN IF i = 0 THEN 0 ELSE hp[chain[i]].gsid

\* The answer for a character is the owner of its cell, and 0 if it has none.
LEMMA QueryIs ==
  ASSUME NEW cl, NEW gq, NEW hp, TableOK(cl, gq, hp), NEW c \in Chars
  PROVE  /\ \A p \in DOMAIN hp : hp[p].charname = c => Query(cl, hp, c) = hp[p].gsid
         /\ (\A p \in DOMAIN hp : hp[p].charname # c) => Query(cl, hp, c) = 0
<1> DEFINE chain == HChain(cl, hp, Bucket(c))
           hits == {i \in 1..Len(chain) : hp[chain[i]].charname = c}
<1>1. Query(cl, hp, c) = IF Found(hits) = 0 THEN 0 ELSE hp[chain[Found(hits)]].gsid
  BY DEF Query, FirstIn, Found
<1>2. /\ Len(chain) \in Nat
      /\ \A i \in 1..Len(chain) : chain[i] \in DOMAIN hp
      /\ \A p \in DOMAIN hp : hp[p].charname = c => \E i \in 1..Len(chain) : chain[i] = p
  BY Places, InChain
<1> HIDE DEF chain
<1>3. hits \subseteq Nat \ {0}
  BY <1>2
<1>4. OneEach(hp)
  BY DEF TableOK
<1>5. ASSUME NEW p \in DOMAIN hp, hp[p].charname = c PROVE Query(cl, hp, c) = hp[p].gsid
  <2>1. \E i \in 1..Len(chain) : chain[i] = p
    BY <1>2, <1>5
  <2>2. hits # {}
    BY <1>5, <2>1
  <2>3. Found(hits) \in hits /\ Found(hits) # 0
    BY <1>3, <2>2, FoundIs
  <2>4. chain[Found(hits)] = p
    BY <1>2, <1>4, <1>5, <2>3 DEF OneEach
  <2> HIDE DEF hits
  <2> QED BY <1>1, <2>3, <2>4
<1>6. ASSUME \A p \in DOMAIN hp : hp[p].charname # c PROVE Query(cl, hp, c) = 0
  <2>1. hits = {}
    BY <1>2, <1>6
  <2>2. Found(hits) = 0
    BY <1>3, <2>1, FoundIs
  <2> HIDE DEF hits
  <2> QED BY <1>1, <2>2
<1> QED BY <1>5, <1>6

\* The cell that malloc gives is a free one.
LEMMA FreeCellIs ==
  ASSUME DOMAIN heap \subseteq Cells, Cells # DOMAIN heap
  PROVE  FreeCell \in Cells \ DOMAIN heap
<1> DEFINE T == Cells \ DOMAIN heap
<1>1. T \subseteq Nat
  BY DEF Cells
<1>3. \E p \in Cells : p \notin DOMAIN heap
  BY Zenon
<1>4. T # {}
  BY <1>3
<1>2. \E p \in T : \A q \in T : p <= q
  BY <1>1, <1>4, NatMin
<1> QED BY <1>2, Zenon DEF FreeCell

-----------------------------------------------------------------------------
\* A cell is added: to the end of its chain, and to the front of its slot's list.
Adds(cl, gq, hp, c, g, new, cl2, gq2, hp2) ==
  LET hc == HChain(cl, hp, Bucket(c))
      old == gq[Slot(g)]
  IN  /\ c \in Chars /\ g \in Gsids /\ new \in Cells \ DOMAIN hp
      /\ \A p \in DOMAIN hp : hp[p].charname # c
      /\ DOMAIN hp2 = DOMAIN hp \cup {new}
      /\ \A p \in DOMAIN hp : /\ hp2[p].charname = hp[p].charname /\ hp2[p].gsid = hp[p].gsid
                              /\ hp2[p].next = IF hc # <<>> /\ p = hc[Len(hc)] THEN new ELSE hp[p].next
                              /\ hp2[p].gsqnext = hp[p].gsqnext
                              /\ hp2[p].gsqprev = IF p = old THEN new ELSE hp[p].gsqprev
                              /\ hp2[p] \in CharLockInfo
      /\ hp2[new] = [charname |-> c, gsid |-> g, next |-> Null, gsqnext |-> old, gsqprev |-> Null]
      /\ cl2 = IF hc = <<>> THEN [cl EXCEPT ![Bucket(c)] = new] ELSE cl
      /\ gq2 = [gq EXCEPT ![Slot(g)] = new]

\* Adding a cell keeps the tables well formed.
LEMMA Added ==
  ASSUME NEW cl, NEW gq, NEW hp, TableOK(cl, gq, hp), NEW c, NEW g, NEW new,
         NEW cl2, NEW gq2, NEW hp2, Adds(cl, gq, hp, c, g, new, cl2, gq2, hp2)
  PROVE  TableOK(cl2, gq2, hp2)
<1> DEFINE hc == HChain(cl, hp, Bucket(c))
           old == gq[Slot(g)]
<1>0. /\ c \in Chars /\ g \in Gsids /\ new \in Cells /\ new \notin DOMAIN hp /\ new # Null
      /\ Bucket(c) \in Buckets /\ Slot(g) \in Slots
      /\ \A p \in DOMAIN hp : hp[p].charname # c
      /\ DOMAIN hp2 = DOMAIN hp \cup {new}
      /\ \A p \in DOMAIN hp : /\ hp2[p].charname = hp[p].charname /\ hp2[p].gsid = hp[p].gsid
                              /\ hp2[p].next = IF hc # <<>> /\ p = hc[Len(hc)] THEN new ELSE hp[p].next
                              /\ hp2[p].gsqnext = hp[p].gsqnext
                              /\ hp2[p].gsqprev = IF p = old THEN new ELSE hp[p].gsqprev
                              /\ hp2[p] \in CharLockInfo
      /\ hp2[new] = [charname |-> c, gsid |-> g, next |-> Null, gsqnext |-> old, gsqprev |-> Null]
      /\ hp2[new].charname = c /\ hp2[new].gsid = g /\ hp2[new].next = Null
      /\ hp2[new].gsqnext = old /\ hp2[new].gsqprev = Null
      /\ cl2 = IF hc = <<>> THEN [cl EXCEPT ![Bucket(c)] = new] ELSE cl
      /\ gq2 = [gq EXCEPT ![Slot(g)] = new]
  BY Places DEF Adds, Cells, Null
<1>1. /\ cl \in [Buckets -> DOMAIN hp \cup {Null}] /\ gq \in [Slots -> DOMAIN hp \cup {Null}]
      /\ DOMAIN hp \subseteq Cells /\ \A p \in DOMAIN hp : hp[p] \in CharLockInfo
      /\ OneEach(hp)
  BY DEF TableOK, CellsOK
<1>2. CellsOK(cl2, gq2, hp2)
  <2>1. old \in Ptr
    BY <1>0, <1>1 DEF Ptr
  <2>2. hp2[new] \in CharLockInfo
    BY <1>0, <2>1 DEF CharLockInfo, Ptr
  <2> HIDE DEF hc, old
  <2>3. cl2 \in [Buckets -> DOMAIN hp2 \cup {Null}]
    BY <1>0, <1>1
  <2>4. gq2 \in [Slots -> DOMAIN hp2 \cup {Null}]
    BY <1>0, <1>1
  <2> QED BY <1>0, <1>1, <2>2, <2>3, <2>4 DEF CellsOK
<1>3. OneEach(hp2)
  <2> HIDE DEF hc, old
  <2> QED BY <1>0, <1>1 DEF OneEach
<1>4. ASSUME NEW h \in Buckets PROVE HashOK(HChain(cl2, hp2, h), cl2, hp2, h)
  <2> DEFINE C == HChain(cl, hp, h)
             E == IF h = Bucket(c) THEN Append(C, new) ELSE C
  <2>1. /\ C \in Seq(Cells) /\ Len(C) \in Nat /\ DOMAIN C = 1..Len(C)
        /\ \A i \in 1..Len(C) : /\ C[i] \in Cells /\ C[i] \in DOMAIN hp
                                /\ Bucket(hp[C[i]].charname) = h /\ hp[C[i]].next = After(C, i)
        /\ \A i, j \in 1..Len(C) : C[i] = C[j] => i = j
        /\ \A p \in DOMAIN hp : Bucket(hp[p].charname) = h => \E i \in 1..Len(C) : C[i] = p
        /\ cl[h] = First(C)
    BY InChain
  <2>2. HashOK(C, cl, hp, h)
    BY DEF TableOK
  <2>3. HashOK(E, cl2, hp2, h)
    <3>1. CASE h = Bucket(c)
      <4>1. C = hc /\ E = Append(C, new)
        BY <3>1
      <4> HIDE DEF C, E
      <4>2. new \notin ToSet(C)
        BY <1>0, <2>2 DEF HashOK
      <4>3. E \in Seq(Cells) /\ IsInjective(E) /\ ToSet(E) = ToSet(C) \cup {new}
        BY <1>0, <2>1, <2>2, <4>1, <4>2, Appended DEF HashOK
      <4>4. ToSet(E) = {p \in DOMAIN hp2 : Bucket(hp2[p].charname) = h}
        BY <1>0, <2>2, <3>1, <4>3 DEF HashOK
      <4>5. Len(E) = Len(C) + 1 /\ E[Len(C) + 1] = new /\ \A i \in 1..Len(C) : E[i] = C[i]
        BY <1>0, <2>1, <4>1
      <4>6. C = <<>> <=> Len(C) = 0
        BY <2>1
      <4>7. cl2[h] = First(E)
        <5>1. CASE C = <<>>
          BY <1>0, <1>1, <3>1, <4>1, <4>5, <4>6, <5>1 DEF First
        <5>2. CASE C # <<>>
          <6>1. cl2 = cl /\ E # <<>> /\ E[1] = C[1]
            BY <1>0, <2>1, <4>1, <4>5, <4>6, <5>2
          <6> QED BY <2>1, <5>2, <6>1 DEF First
        <5> QED BY <5>1, <5>2
      <4>8. ASSUME NEW i \in 1..Len(E) PROVE hp2[E[i]].next = After(E, i)
        <5>1. CASE i = Len(C) + 1
          BY <1>0, <4>5, <5>1 DEF After
        <5>2. CASE i # Len(C) + 1
          <6>1. i \in 1..Len(C) /\ E[i] = C[i] /\ C[i] \in DOMAIN hp /\ C # <<>>
            BY <2>1, <4>5, <4>6, <5>2
          <6>6. Len(C) \in 1..Len(C) /\ i + 1 \in 1..Len(C) + 1
            BY <2>1, <6>1, SMTT(40)
          <6>2. C[i] = C[Len(C)] <=> i = Len(C)
            BY <2>1, <6>1, <6>6
          <6>3. hp[C[i]].next = IF i = Len(C) THEN Null ELSE C[i + 1]
            BY <2>1, <6>1, Zenon DEF After
          <6>4. hp2[C[i]].next = IF i = Len(C) THEN new ELSE C[i + 1]
            BY <1>0, <4>1, <6>1, <6>2, <6>3
          <6>5. E[i + 1] = IF i = Len(C) THEN new ELSE C[i + 1]
            <7>1. CASE i = Len(C)
              BY <4>5, <7>1
            <7>2. CASE i # Len(C)
              <8>2. Len(C) \in Nat /\ i \in 1..Len(C)
                BY <2>1, <6>1
              <8>1. i + 1 \in 1..Len(C)
                BY <7>2, <8>2
              <8> QED BY <4>5, <7>2, <8>1
            <7> QED BY <7>1, <7>2
          <6> QED BY <4>5, <5>2, <6>1, <6>4, <6>5 DEF After
        <5> QED BY <5>1, <5>2
      <4> QED BY <4>3, <4>4, <4>7, <4>8 DEF HashOK
    <3>2. CASE h # Bucket(c)
      <4>1. E = C
        BY <3>2
      <4> HIDE DEF C, E
      <4>2. cl2[h] = cl[h]
        BY <1>0, <1>1, <3>2
      <4>3. ToSet(C) = {p \in DOMAIN hp2 : Bucket(hp2[p].charname) = h}
        <5>1. ToSet(C) = {p \in DOMAIN hp : Bucket(hp[p].charname) = h}
          BY <2>2 DEF HashOK
        <5> HIDE DEF hc, old
        <5> QED BY <1>0, <3>2, <5>1
      <4>4. ASSUME NEW i \in 1..Len(C) PROVE hp2[C[i]].next = After(C, i)
        <5>1. C[i] \in DOMAIN hp /\ Bucket(hp[C[i]].charname) = h /\ hp[C[i]].next = After(C, i)
          BY <2>1
        <5>2. hc # <<>> => C[i] # hc[Len(hc)]
          <6>1. /\ Len(hc) \in Nat /\ hc \in Seq(Cells)
                /\ \A j \in 1..Len(hc) : Bucket(hp[hc[j]].charname) = Bucket(c)
            BY <1>0, InChain
          <6> HIDE DEF hc
          <6>2. hc # <<>> => Len(hc) \in 1..Len(hc)
            BY <6>1
          <6> QED BY <3>2, <5>1, <6>1, <6>2
        <5> HIDE DEF hc, old
        <5> QED BY <1>0, <5>1, <5>2
      <4> QED BY <2>1, <2>2, <4>1, <4>2, <4>3, <4>4 DEF HashOK
    <3> QED BY <3>1, <3>2
  <2> HIDE DEF E
  <2>4. HChain(cl2, hp2, h) = E
    BY <1>2, <2>3, HashChainIs DEF CellsOK
  <2> QED BY <2>3, <2>4
<1>5. ASSUME NEW s \in Slots PROVE GsqOK(GChain(gq2, hp2, s), gq2, hp2, s)
  <2> DEFINE C == GChain(gq, hp, s)
             E == IF s = Slot(g) THEN <<new>> \o C ELSE C
  <2>1. /\ C \in Seq(Cells) /\ Len(C) \in Nat /\ DOMAIN C = 1..Len(C)
        /\ \A i \in 1..Len(C) : /\ C[i] \in Cells /\ C[i] \in DOMAIN hp /\ Slot(hp[C[i]].gsid) = s
                                /\ hp[C[i]].gsqnext = After(C, i) /\ hp[C[i]].gsqprev = Before(C, i)
        /\ \A i, j \in 1..Len(C) : C[i] = C[j] => i = j
        /\ \A p \in DOMAIN hp : Slot(hp[p].gsid) = s => \E i \in 1..Len(C) : C[i] = p
        /\ gq[s] = First(C)
    BY InList
  <2>2. GsqOK(C, gq, hp, s)
    BY DEF TableOK
  <2>3. GsqOK(E, gq2, hp2, s)
    <3>1. CASE s = Slot(g)
      <4>1. old = First(C) /\ E = <<new>> \o C
        BY <2>1, <3>1
      <4> HIDE DEF C, E, hc, old
      <4>2. new \notin ToSet(C)
        BY <1>0, <2>2 DEF GsqOK
      <4>3. E \in Seq(Cells) /\ IsInjective(E) /\ ToSet(E) = ToSet(C) \cup {new}
        BY <1>0, <2>1, <2>2, <4>1, <4>2, PutInFront DEF GsqOK
      <4>4. ToSet(E) = {p \in DOMAIN hp2 : Slot(hp2[p].gsid) = s}
        BY <1>0, <2>2, <3>1, <4>3 DEF GsqOK
      <4>5. Len(E) = Len(C) + 1 /\ E[1] = new /\ \A i \in 1..Len(C) : E[i + 1] = C[i]
        BY <1>0, <2>1, <4>1
      <4>6. C = <<>> <=> Len(C) = 0
        BY <2>1
      <4>7. gq2[s] = First(E)
        BY <1>0, <1>1, <2>1, <3>1, <4>5 DEF First
      <4>8. ASSUME NEW i \in 1..Len(E)
            PROVE  hp2[E[i]].gsqnext = After(E, i) /\ hp2[E[i]].gsqprev = Before(E, i)
        <5>1. CASE i = 1
          <6>1. old = IF Len(C) = 0 THEN Null ELSE C[1]
            BY <4>1, <4>6 DEF First
          <6>2. 1 = Len(E) <=> Len(C) = 0
            BY <2>1, <4>5
          <6>3. Len(C) # 0 => E[1 + 1] = C[1]
            BY <2>1, <4>5
          <6> QED BY <1>0, <4>5, <5>1, <6>1, <6>2, <6>3 DEF After, Before
        <5>2. CASE i # 1
          <6>1. i - 1 \in 1..Len(C) /\ E[i] = C[i - 1] /\ (i - 1) + 1 = i
            BY <2>1, <4>5, <5>2
          <6>2. /\ C[i - 1] \in DOMAIN hp /\ hp[C[i - 1]].gsqnext = After(C, i - 1)
                /\ hp[C[i - 1]].gsqprev = Before(C, i - 1)
            BY <2>1, <6>1
          <6>3. After(C, i - 1) = After(E, i)
            <7>1. i - 1 = Len(C) <=> i = Len(E)
              BY <2>1, <4>5
            <7>2. i # Len(E) => E[i + 1] = C[i]
              BY <2>1, <4>5, <5>2
            <7> QED BY <6>1, <7>1, <7>2 DEF After
          <6>4. C[i - 1] = old <=> i - 1 = 1
            <7>1. C # <<>> /\ 1 \in 1..Len(C)
              BY <2>1, <4>6, <6>1
            <7> QED BY <2>1, <4>1, <6>1, <7>1 DEF First
          <6>5. (IF C[i - 1] = old THEN new ELSE Before(C, i - 1)) = Before(E, i)
            <7>1. CASE i - 1 = 1
              BY <4>5, <5>2, <6>4, <7>1 DEF Before
            <7>2. CASE i - 1 # 1
              <8>1. (i - 1) - 1 \in 1..Len(C) /\ ((i - 1) - 1) + 1 = i - 1
                BY <2>1, <6>1, <7>2
              <8>2. E[i - 1] = C[(i - 1) - 1]
                BY <4>5, <8>1
              <8> QED BY <5>2, <6>4, <7>2, <8>2 DEF Before
            <7> QED BY <7>1, <7>2
          <6> QED BY <1>0, <6>1, <6>2, <6>3, <6>5
        <5> QED BY <5>1, <5>2
      <4> QED BY <4>3, <4>4, <4>7, <4>8 DEF GsqOK
    <3>2. CASE s # Slot(g)
      <4>1. E = C
        BY <3>2
      <4>2. old = Null \/ (old \in DOMAIN hp /\ Slot(hp[old].gsid) = Slot(g))
        <5> DEFINE D == GChain(gq, hp, Slot(g))
        <5>1. /\ Len(D) \in Nat /\ D \in Seq(Cells) /\ old = First(D)
              /\ \A j \in 1..Len(D) : D[j] \in DOMAIN hp /\ Slot(hp[D[j]].gsid) = Slot(g)
          BY <1>0, InList
        <5> HIDE DEF D, old
        <5>2. CASE D = <<>>
          <6>1. old = Null
            BY <5>1, <5>2, Zenon DEF First
          <6> QED BY <6>1
        <5>3. CASE D # <<>>
          <6>1. old = D[1]
            BY <5>1, <5>3 DEF First
          <6>2. 1 \in 1..Len(D)
            BY <5>1, <5>3
          <6> QED BY <5>1, <6>1, <6>2
        <5> QED BY <5>2, <5>3
      <4> HIDE DEF C, E, hc, old
      <4>3. gq2[s] = gq[s]
        BY <1>0, <1>1, <3>2
      <4>4. ToSet(C) = {p \in DOMAIN hp2 : Slot(hp2[p].gsid) = s}
        <5>1. ToSet(C) = {p \in DOMAIN hp : Slot(hp[p].gsid) = s}
          BY <2>2 DEF GsqOK
        <5> QED BY <1>0, <3>2, <5>1
      <4>5. ASSUME NEW i \in 1..Len(C)
            PROVE  hp2[C[i]].gsqnext = After(C, i) /\ hp2[C[i]].gsqprev = Before(C, i)
        <5>1. /\ C[i] \in DOMAIN hp /\ Slot(hp[C[i]].gsid) = s
              /\ hp[C[i]].gsqnext = After(C, i) /\ hp[C[i]].gsqprev = Before(C, i)
          BY <2>1
        <5>2. C[i] # old
          BY <1>1, <3>2, <4>2, <5>1 DEF Cells, Null
        <5> QED BY <1>0, <5>1, <5>2
      <4> QED BY <2>1, <2>2, <4>1, <4>3, <4>4, <4>5 DEF GsqOK
    <3> QED BY <3>1, <3>2
  <2> HIDE DEF E
  <2>4. GChain(gq2, hp2, s) = E
    BY <1>2, <2>3, GsqChainIs DEF CellsOK
  <2> QED BY <2>3, <2>4
<1> QED BY <1>2, <1>3, <1>4, <1>5 DEF TableOK

\* cl_lock_char of a character that has no lock adds a cell.
LEMMA LockAdds ==
  ASSUME TableOK(clitbl, gsqtbl, heap), NEW c \in Chars, NEW g \in Gsids, cl_lock_char(c, g),
         \A p \in DOMAIN heap : heap[p].charname # c
  PROVE  Adds(clitbl, gsqtbl, heap, c, g, FreeCell, clitbl', gsqtbl', heap')
<1> DEFINE chain == HChain(clitbl, heap, Bucket(c))
           new == FreeCell
           last == chain[Len(chain)]
           old == gsqtbl[Slot(g)]
           info == [charname |-> c, gsid |-> g, next |-> Null, gsqnext |-> Null, gsqprev |-> Null]
           stored == [p \in DOMAIN heap \cup {new} |-> IF p = new THEN info ELSE heap[p]]
           tied == IF chain = <<>> THEN stored ELSE [stored EXCEPT ![last].next = new]
<1>1. HashChain(Bucket(c)) = chain
  BY DEF HashChain, HChain, NextOf
<1>2. /\ chain \in Seq(Cells) /\ Len(chain) \in Nat
      /\ \A i \in 1..Len(chain) : chain[i] \in Cells /\ chain[i] \in DOMAIN heap
  BY Places, InChain
<1>3. /\ clitbl' = IF chain = <<>> THEN [clitbl EXCEPT ![Bucket(c)] = new] ELSE clitbl
      /\ heap' = InsertedIntoGsq(tied, g, new)
      /\ gsqtbl' = [gsqtbl EXCEPT ![Slot(g)] = new]
      /\ Cells # DOMAIN heap
  <2>1. ~ \E i \in 1..Len(chain) : heap[chain[i]].charname = c
    BY <1>2
  <2> HIDE DEF chain
  <2> QED BY <1>1, <2>1 DEF cl_lock_char
<1>4. /\ gsqtbl \in [Slots -> DOMAIN heap \cup {Null}] /\ DOMAIN heap \subseteq Cells
      /\ \A p \in DOMAIN heap : heap[p] \in CharLockInfo
  BY DEF TableOK, CellsOK
<1>5. new \in Cells /\ new \notin DOMAIN heap /\ new # Null
  BY <1>3, <1>4, FreeCellIs DEF Cells, Null
<1>6. old \in DOMAIN heap \cup {Null} /\ old \in Ptr /\ Null \in Ptr /\ new \in Ptr
  BY <1>4, <1>5, Places DEF Ptr
<1>7. chain # <<>> => last \in DOMAIN heap
  <2>1. chain # <<>> => Len(chain) \in 1..Len(chain)
    BY <1>2
  <2> QED BY <1>2, <2>1
<1> HIDE DEF chain, new, last, old
<1>8. /\ DOMAIN stored = DOMAIN heap \cup {new} /\ stored[new] = info
      /\ \A p \in DOMAIN heap : stored[p] = heap[p]
  BY <1>5
<1> HIDE DEF stored, info
<1>9. /\ DOMAIN tied = DOMAIN heap \cup {new} /\ tied[new] = info
      /\ \A p \in DOMAIN heap : /\ tied[p] \in CharLockInfo
                                /\ tied[p].charname = heap[p].charname /\ tied[p].gsid = heap[p].gsid
                                /\ tied[p].next = IF chain # <<>> /\ p = last THEN new ELSE heap[p].next
                                /\ tied[p].gsqnext = heap[p].gsqnext
                                /\ tied[p].gsqprev = heap[p].gsqprev
  <2>1. CASE chain = <<>>
    BY <1>4, <1>8, <2>1
  <2>2. CASE chain # <<>>
    <3>1. DOMAIN tied = DOMAIN heap \cup {new} /\ tied[new] = info
      BY <1>5, <1>7, <1>8, <2>2
    <3>2. ASSUME NEW p \in DOMAIN heap, p # last PROVE tied[p] = heap[p]
      BY <1>5, <1>7, <1>8, <2>2, <3>2
    <3>3. tied[last] = [heap[last] EXCEPT !.next = new] /\ heap[last] \in CharLockInfo
      BY <1>4, <1>7, <1>8, <2>2
    <3> HIDE DEF tied
    <3>4. /\ tied[last] \in CharLockInfo
          /\ tied[last].charname = heap[last].charname /\ tied[last].gsid = heap[last].gsid
          /\ tied[last].next = new
          /\ tied[last].gsqnext = heap[last].gsqnext /\ tied[last].gsqprev = heap[last].gsqprev
      BY <1>6, <3>3 DEF CharLockInfo
    <3> QED BY <1>4, <2>2, <3>1, <3>2, <3>4
  <2> QED BY <2>1, <2>2
<1> HIDE DEF tied
<1>10. /\ DOMAIN heap' = DOMAIN heap \cup {new}
       /\ heap'[new] = [info EXCEPT !.gsqnext = old]
       /\ \A p \in DOMAIN heap :
            heap'[p] = IF p = old THEN [tied[p] EXCEPT !.gsqprev = new] ELSE tied[p]
  <2>1. CASE old = Null
    <3>1. heap' = tied
      BY <1>3, <2>1 DEF InsertedIntoGsq, old
    <3>2. info = [info EXCEPT !.gsqnext = old]
      BY <2>1 DEF info
    <3>3. \A p \in DOMAIN heap : p # old
      BY <1>4, <2>1 DEF Cells, Null
    <3> QED BY <1>9, <3>1, <3>2, <3>3
  <2>2. CASE old # Null
    <3>1. heap' = [tied EXCEPT ![new].gsqnext = old, ![old].gsqprev = new]
      BY <1>3, <2>2 DEF InsertedIntoGsq, old
    <3> QED BY <1>5, <1>6, <1>9, <2>2, <3>1
  <2> QED BY <2>1, <2>2
<1>11. heap'[new] = [charname |-> c, gsid |-> g, next |-> Null, gsqnext |-> old, gsqprev |-> Null]
  BY <1>10 DEF info
<1>12. ASSUME NEW p \in DOMAIN heap
       PROVE  /\ heap'[p] \in CharLockInfo
              /\ heap'[p].charname = tied[p].charname /\ heap'[p].gsid = tied[p].gsid
              /\ heap'[p].next = tied[p].next /\ heap'[p].gsqnext = tied[p].gsqnext
              /\ heap'[p].gsqprev = IF p = old THEN new ELSE tied[p].gsqprev
  <2>1. tied[p] \in CharLockInfo
    BY <1>9
  <2> QED BY <1>6, <1>10, <2>1 DEF CharLockInfo
<1>13. \A p \in DOMAIN heap : /\ heap'[p].charname = heap[p].charname /\ heap'[p].gsid = heap[p].gsid
                              /\ heap'[p].next = IF chain # <<>> /\ p = last THEN new ELSE heap[p].next
                              /\ heap'[p].gsqnext = heap[p].gsqnext
                              /\ heap'[p].gsqprev = IF p = old THEN new ELSE heap[p].gsqprev
                              /\ heap'[p] \in CharLockInfo
  BY <1>9, <1>12
<1> QED BY <1>3, <1>5, <1>10, <1>11, <1>13 DEF Adds, chain, last, new, old

-----------------------------------------------------------------------------
\* What is linked when the element at the place k is taken out of a list.
LEMMA Relinked ==
  ASSUME NEW c \in Seq(Cells), IsInjective(c), NEW k \in 1..Len(c)
  PROVE  LET e == RemoveAt(c, k)
         IN  /\ e \in Seq(Cells) /\ IsInjective(e) /\ ToSet(e) = ToSet(c) \ {c[k]}
             /\ Len(e) = Len(c) - 1
             /\ First(e) = IF k = 1 THEN After(c, 1) ELSE First(c)
             /\ \A j \in 1..Len(e) :
                  LET i == IF j < k THEN j ELSE j + 1
                  IN  /\ i \in 1..Len(c) /\ i # k /\ e[j] = c[i]
                      /\ After(e, j) = IF i = k - 1 THEN After(c, k) ELSE After(c, i)
                      /\ Before(e, j) = IF i = k + 1 THEN Before(c, k) ELSE Before(c, i)
<1> DEFINE e == RemoveAt(c, k)
           n == Len(c)
           At(j) == IF j < k THEN j ELSE j + 1
<1>1. /\ e \in Seq(Cells) /\ Len(e) = n - 1
      /\ \A j \in 1..Len(e) : e[j] = IF j < k THEN c[j] ELSE c[j + 1]
  BY RemovedAt
<1>2. n \in Nat /\ k \in 1..n /\ k \in Nat
  OBVIOUS
<1>3. \A i, j \in 1..n : c[i] = c[j] => i = j
  BY Elements DEF IsInjective
<1> HIDE DEF e, n
<1>4. \A j \in 1..(n - 1) : At(j) \in 1..n /\ At(j) # k /\ e[j] = c[At(j)]
  BY <1>1, <1>2
<1>5. \A i, j \in 1..(n - 1) : At(i) = At(j) => i = j
  BY <1>2
<1>6. ASSUME NEW i \in 1..n, i # k PROVE \E j \in 1..(n - 1) : At(j) = i
  <2>1. CASE i < k
    <3>1. i \in 1..(n - 1) /\ At(i) = i
      BY <1>2, <2>1
    <3> QED BY <3>1
  <2>2. CASE i > k
    <3>1. i - 1 \in 1..(n - 1) /\ At(i - 1) = i
      BY <1>2, <2>2
    <3> QED BY <3>1
  <2> QED BY <1>2, <1>6, <2>1, <2>2
<1>7. /\ ToSet(c) = {c[i] : i \in 1..n} /\ ToSet(e) = {e[j] : j \in 1..(n - 1)}
      /\ DOMAIN e = 1..(n - 1)
  BY <1>1, Elements DEF n, ToSet
<1>8. IsInjective(e)
  <2> HIDE DEF At
  <2>1. \A i, j \in 1..(n - 1) : e[i] = e[j] => i = j
    BY <1>3, <1>4, <1>5
  <2> QED BY <1>7, <2>1 DEF IsInjective
<1>9. ToSet(e) = ToSet(c) \ {c[k]}
  <2> HIDE DEF At
  <2>1. ASSUME NEW x \in ToSet(e) PROVE x \in ToSet(c) /\ x # c[k]
    <3>1. PICK j \in 1..(n - 1) : x = e[j]
      BY <1>7
    <3> QED BY <1>2, <1>3, <1>4, <1>7, <3>1
  <2>2. ASSUME NEW x \in ToSet(c), x # c[k] PROVE x \in ToSet(e)
    <3>1. PICK i \in 1..n : x = c[i]
      BY <1>7
    <3>2. PICK j \in 1..(n - 1) : At(j) = i
      BY <1>6, <2>2, <3>1
    <3> QED BY <1>4, <1>7, <3>1, <3>2
  <2> QED BY <2>1, <2>2
<1>10. First(e) = IF k = 1 THEN After(c, 1) ELSE First(c)
  <2>1. (e = <<>> <=> n - 1 = 0) /\ c # <<>>
    BY <1>1, <1>2 DEF n
  <2>2. First(c) = c[1]
    BY <2>1 DEF First
  <2>3. CASE n - 1 = 0
    <3>1. k = 1 /\ n = 1 /\ First(e) = Null
      BY <1>2, <2>1, <2>3 DEF First
    <3>2. After(c, 1) = Null
      BY <3>1 DEF After, n
    <3> QED BY <3>1, <3>2
  <2>4. CASE n - 1 # 0
    <3>1. 1 \in 1..(n - 1) /\ First(e) = e[1] /\ 1 # n
      BY <1>2, <2>1, <2>4 DEF First
    <3>2. After(c, 1) = c[2]
      BY <3>1 DEF After, n
    <3>3. k = 1 => At(1) = 2
      OBVIOUS
    <3>4. k # 1 => At(1) = 1
      BY <1>2
    <3> HIDE DEF At
    <3> QED BY <1>4, <2>2, <3>1, <3>2, <3>3, <3>4
  <2> QED BY <2>3, <2>4
<1>11. ASSUME NEW j \in 1..(n - 1)
       PROVE  /\ After(e, j) = IF At(j) = k - 1 THEN After(c, k) ELSE After(c, At(j))
              /\ Before(e, j) = IF At(j) = k + 1 THEN Before(c, k) ELSE Before(c, At(j))
  <2>1. After(e, j) = (IF j = n - 1 THEN Null ELSE e[j + 1]) /\ Before(e, j) = IF j = 1 THEN Null ELSE e[j - 1]
    BY <1>1 DEF After, Before
  <2>2. \A i : After(c, i) = (IF i = n THEN Null ELSE c[i + 1]) /\ Before(c, i) = IF i = 1 THEN Null ELSE c[i - 1]
    BY DEF After, Before, n
  <2>3. After(e, j) = IF At(j) = k - 1 THEN After(c, k) ELSE After(c, At(j))
    <3>1. CASE j = n - 1
      <4>1. IF At(j) = k - 1 THEN k = n ELSE At(j) = n
        BY <1>2, <3>1
      <4> QED BY <2>1, <2>2, <3>1, <4>1
    <3>2. CASE j # n - 1
      <4>1. /\ j + 1 \in 1..(n - 1) /\ At(j + 1) = IF At(j) = k - 1 THEN k + 1 ELSE At(j) + 1
            /\ IF At(j) = k - 1 THEN k # n ELSE At(j) # n
        BY <1>2, <3>2
      <4>2. e[j + 1] = c[At(j + 1)]
        BY <1>4, <4>1
      <4> HIDE DEF At
      <4> QED BY <2>1, <2>2, <3>2, <4>1, <4>2
    <3> QED BY <3>1, <3>2
  <2>4. Before(e, j) = IF At(j) = k + 1 THEN Before(c, k) ELSE Before(c, At(j))
    <3>1. CASE j = 1
      <4>1. IF At(j) = k + 1 THEN k = 1 ELSE At(j) = 1
        BY <1>2, <3>1
      <4> QED BY <2>1, <2>2, <3>1, <4>1
    <3>2. CASE j # 1
      <4>1. /\ j - 1 \in 1..(n - 1) /\ At(j - 1) = IF At(j) = k + 1 THEN k - 1 ELSE At(j) - 1
            /\ IF At(j) = k + 1 THEN k # 1 ELSE At(j) # 1
        BY <1>2, <3>2
      <4>2. e[j - 1] = c[At(j - 1)]
        BY <1>4, <4>1
      <4> HIDE DEF At
      <4> QED BY <2>1, <2>2, <3>2, <4>1, <4>2
    <3> QED BY <3>1, <3>2
  <2> QED BY <2>3, <2>4
<1> HIDE DEF At
<1>12. ASSUME NEW j \in 1..Len(e)
       PROVE  /\ At(j) \in 1..n /\ At(j) # k /\ e[j] = c[At(j)]
              /\ After(e, j) = IF At(j) = k - 1 THEN After(c, k) ELSE After(c, At(j))
              /\ Before(e, j) = IF At(j) = k + 1 THEN Before(c, k) ELSE Before(c, At(j))
  BY <1>1, <1>4, <1>11
<1> QED BY <1>1, <1>8, <1>9, <1>10, <1>12 DEF At, e, n

\* A cell is taken out of its chain and of its slot's list, and freed.
Drops(cl, gq, hp, pcl, cl2, gq2, hp2) ==
  LET name == hp[pcl].charname
      hc == HChain(cl, hp, Bucket(name))
      prev == hp[pcl].gsqprev
      nxt == hp[pcl].gsqnext
  IN  /\ pcl \in DOMAIN hp /\ DOMAIN hp2 = DOMAIN hp \ {pcl}
      /\ \E i \in 1..Len(hc) :
           /\ hc[i] = pcl
           /\ \A p \in DOMAIN hp2 :
                hp2[p].next = IF i # 1 /\ p = hc[i - 1] THEN hp[pcl].next ELSE hp[p].next
           /\ cl2 = IF i = 1 THEN [cl EXCEPT ![Bucket(name)] = hp[pcl].next] ELSE cl
      /\ \A p \in DOMAIN hp2 : /\ hp2[p] \in CharLockInfo
                               /\ hp2[p].charname = hp[p].charname /\ hp2[p].gsid = hp[p].gsid
                               /\ hp2[p].gsqnext = IF p = prev THEN nxt ELSE hp[p].gsqnext
                               /\ hp2[p].gsqprev = IF p = nxt THEN prev ELSE hp[p].gsqprev
      /\ gq2 = IF prev = Null THEN [gq EXCEPT ![Slot(hp[pcl].gsid)] = nxt] ELSE gq

\* Taking a cell out keeps the tables well formed, and each list but for the cell.
LEMMA Dropped ==
  ASSUME NEW cl, NEW gq, NEW hp, TableOK(cl, gq, hp), NEW pcl,
         NEW cl2, NEW gq2, NEW hp2, Drops(cl, gq, hp, pcl, cl2, gq2, hp2)
  PROVE  /\ TableOK(cl2, gq2, hp2)
         /\ \A s \in Slots : s # Slot(hp[pcl].gsid) => GChain(gq2, hp2, s) = GChain(gq, hp, s)
         /\ LET s == Slot(hp[pcl].gsid)
            IN  \A k \in 1..Len(GChain(gq, hp, s)) :
                  GChain(gq, hp, s)[k] = pcl => GChain(gq2, hp2, s) = RemoveAt(GChain(gq, hp, s), k)
<1> DEFINE b == Bucket(hp[pcl].charname)
           s0 == Slot(hp[pcl].gsid)
           hc == HChain(cl, hp, b)
           gc == GChain(gq, hp, s0)
           prev == hp[pcl].gsqprev
           nxt == hp[pcl].gsqnext
<1>0. /\ cl \in [Buckets -> DOMAIN hp \cup {Null}] /\ gq \in [Slots -> DOMAIN hp \cup {Null}]
      /\ DOMAIN hp \subseteq Cells /\ OneEach(hp)
  BY DEF TableOK, CellsOK
<1>1. pcl \in DOMAIN hp /\ pcl # Null /\ b \in Buckets /\ s0 \in Slots /\ DOMAIN hp2 = DOMAIN hp \ {pcl}
  BY <1>0, Linked DEF Drops, Cells, Null
<1>2. PICK i \in 1..Len(hc) :
        /\ hc[i] = pcl
        /\ \A p \in DOMAIN hp2 :
             hp2[p].next = IF i # 1 /\ p = hc[i - 1] THEN hp[pcl].next ELSE hp[p].next
        /\ cl2 = IF i = 1 THEN [cl EXCEPT ![b] = hp[pcl].next] ELSE cl
  BY DEF Drops
<1>3. /\ \A p \in DOMAIN hp2 : /\ hp2[p] \in CharLockInfo
                               /\ hp2[p].charname = hp[p].charname /\ hp2[p].gsid = hp[p].gsid
                               /\ hp2[p].gsqnext = IF p = prev THEN nxt ELSE hp[p].gsqnext
                               /\ hp2[p].gsqprev = IF p = nxt THEN prev ELSE hp[p].gsqprev
      /\ gq2 = IF prev = Null THEN [gq EXCEPT ![s0] = nxt] ELSE gq
  BY DEF Drops
<1>4. /\ hc \in Seq(Cells) /\ Len(hc) \in Nat
      /\ \A j \in 1..Len(hc) : /\ hc[j] \in Cells /\ hc[j] \in DOMAIN hp
                               /\ Bucket(hp[hc[j]].charname) = b /\ hp[hc[j]].next = After(hc, j)
      /\ \A j, m \in 1..Len(hc) : hc[j] = hc[m] => j = m
      /\ cl[b] = First(hc)
  BY <1>1, InChain
<1>5. /\ gc \in Seq(Cells) /\ Len(gc) \in Nat
      /\ \A j \in 1..Len(gc) : /\ gc[j] \in Cells /\ gc[j] \in DOMAIN hp /\ Slot(hp[gc[j]].gsid) = s0
                               /\ hp[gc[j]].gsqnext = After(gc, j) /\ hp[gc[j]].gsqprev = Before(gc, j)
      /\ \A j, m \in 1..Len(gc) : gc[j] = gc[m] => j = m
      /\ \A p \in DOMAIN hp : Slot(hp[p].gsid) = s0 => \E j \in 1..Len(gc) : gc[j] = p
      /\ gq[s0] = First(gc)
  BY <1>1, InList
<1>6. PICK k \in 1..Len(gc) : gc[k] = pcl
  BY <1>1, <1>5
<1>7. HashOK(hc, cl, hp, b) /\ GsqOK(gc, gq, hp, s0)
  BY <1>1, SMTT(40) DEF TableOK
<1>8. hp[pcl].next = After(hc, i) /\ nxt = After(gc, k) /\ prev = Before(gc, k)
  BY <1>2, <1>4, <1>5, <1>6
<1>9. hp[pcl].next \in DOMAIN hp2 \cup {Null}
  <2>1. CASE i = Len(hc)
    BY <1>8, <2>1 DEF After
  <2>2. CASE i # Len(hc)
    <3>1. i + 1 \in 1..Len(hc) /\ i + 1 # i
      BY <1>4, <2>2
    <3>2. hc[i + 1] \in DOMAIN hp /\ hc[i + 1] # pcl
      BY <1>2, <1>4, <3>1
    <3> QED BY <1>1, <1>8, <2>2, <3>2 DEF After
  <2> QED BY <2>1, <2>2
<1>10. nxt \in DOMAIN hp2 \cup {Null}
  <2>1. CASE k = Len(gc)
    BY <1>8, <2>1 DEF After
  <2>2. CASE k # Len(gc)
    <3>1. k + 1 \in 1..Len(gc) /\ k + 1 # k
      BY <1>5, <2>2
    <3>2. gc[k + 1] \in DOMAIN hp /\ gc[k + 1] # pcl
      BY <1>5, <1>6, <3>1
    <3> QED BY <1>1, <1>8, <2>2, <3>2 DEF After
  <2> QED BY <2>1, <2>2
<1>11. /\ cl2 \in [Buckets -> DOMAIN hp \cup {Null}] /\ gq2 \in [Slots -> DOMAIN hp \cup {Null}]
       /\ cl2[b] = IF i = 1 THEN hp[pcl].next ELSE cl[b]
       /\ \A h \in Buckets : h # b => cl2[h] = cl[h]
       /\ gq2[s0] = IF prev = Null THEN nxt ELSE gq[s0]
       /\ \A s \in Slots : s # s0 => gq2[s] = gq[s]
  <2> HIDE DEF hc, b, s0, prev, nxt
  <2> QED BY <1>0, <1>1, <1>2, <1>3, <1>9, <1>10
<1> DEFINE ChainOf(h) == HChain(cl, hp, h)
           ListOf(s) == GChain(gq, hp, s)
           NewChain(h) == IF h = b THEN RemoveAt(hc, i) ELSE ChainOf(h)
           NewList(s) == IF s = s0 THEN RemoveAt(gc, k) ELSE ListOf(s)
<1>12. ASSUME NEW h \in Buckets PROVE HashOK(NewChain(h), cl2, hp2, h)
  <2>1. CASE h = b
    <3> DEFINE E == RemoveAt(hc, i)
               At(j) == IF j < i THEN j ELSE j + 1
    <3>1. /\ E \in Seq(Cells) /\ IsInjective(E) /\ ToSet(E) = ToSet(hc) \ {pcl}
          /\ First(E) = IF i = 1 THEN After(hc, 1) ELSE First(hc)
          /\ \A j \in 1..Len(E) :
               /\ At(j) \in 1..Len(hc) /\ At(j) # i /\ E[j] = hc[At(j)]
               /\ After(E, j) = IF At(j) = i - 1 THEN After(hc, i) ELSE After(hc, At(j))
      <4>1. hc \in Seq(Cells) /\ IsInjective(hc) /\ i \in 1..Len(hc)
        BY <1>7 DEF HashOK
      <4> HIDE DEF hc
      <4> QED BY <1>2, <4>1, Relinked, SMTT(40)
    <3> HIDE DEF E, At
    <3>2. NewChain(h) = E
      BY <2>1 DEF E
    <3>3. ToSet(E) = {p \in DOMAIN hp2 : Bucket(hp2[p].charname) = h}
      <4>1. ToSet(hc) = {p \in DOMAIN hp : Bucket(hp[p].charname) = h}
        BY <1>7, <2>1 DEF HashOK
      <4> HIDE DEF hc
      <4> QED BY <1>1, <1>3, <3>1, <4>1
    <3>4. cl2[h] = First(E)
      BY <1>4, <1>8, <1>11, <2>1, <3>1
    <3>5. ASSUME NEW j \in 1..Len(E) PROVE hp2[E[j]].next = After(E, j)
      <4>1. /\ At(j) \in 1..Len(hc) /\ At(j) # i /\ E[j] = hc[At(j)]
            /\ After(E, j) = IF At(j) = i - 1 THEN After(hc, i) ELSE After(hc, At(j))
        BY <3>1
      <4>2. hc[At(j)] \in DOMAIN hp2 /\ hp[hc[At(j)]].next = After(hc, At(j))
        BY <1>1, <1>2, <1>4, <4>1
      <4>3. i # 1 /\ hc[At(j)] = hc[i - 1] <=> At(j) = i - 1
        <5>1. i # 1 => i - 1 \in 1..Len(hc)
          BY <1>4
        <5>2. At(j) = i - 1 => i # 1
          BY <1>4, <4>1
        <5> QED BY <1>4, <4>1, <5>1, <5>2
      <4> HIDE DEF hc
      <4> QED BY <1>2, <1>8, <4>1, <4>2, <4>3
    <3> HIDE DEF NewChain
    <3> QED BY <3>1, <3>2, <3>3, <3>4, <3>5 DEF HashOK
  <2>2. CASE h # b
    <3> DEFINE C == ChainOf(h)
    <3>1. /\ C \in Seq(Cells) /\ Len(C) \in Nat
          /\ \A j \in 1..Len(C) : /\ C[j] \in DOMAIN hp
                                  /\ Bucket(hp[C[j]].charname) = h /\ hp[C[j]].next = After(C, j)
          /\ cl[h] = First(C)
      BY InChain
    <3>2. HashOK(C, cl, hp, h)
      BY DEF TableOK
    <3>3. NewChain(h) = C
      BY <2>2
    <3> HIDE DEF C
    <3>4. ToSet(C) = {p \in DOMAIN hp2 : Bucket(hp2[p].charname) = h}
      <4>1. ToSet(C) = {p \in DOMAIN hp : Bucket(hp[p].charname) = h}
        BY <3>2 DEF HashOK
      <4>2. Bucket(hp[pcl].charname) # h
        BY <2>2
      <4> HIDE DEF b, hc
      <4> QED BY <1>1, <1>3, <4>1, <4>2
    <3>5. ASSUME NEW j \in 1..Len(C) PROVE hp2[C[j]].next = After(C, j)
      <4>1. C[j] \in DOMAIN hp2 /\ hp[C[j]].next = After(C, j) /\ Bucket(hp[C[j]].charname) # b
        BY <1>1, <2>2, <3>1
      <4>2. i # 1 => C[j] # hc[i - 1]
        <5>1. i # 1 => i - 1 \in 1..Len(hc)
          BY <1>4
        <5> HIDE DEF b, hc
        <5> QED BY <1>4, <4>1, <5>1
      <4> HIDE DEF b, hc
      <4> QED BY <1>2, <4>1, <4>2
    <3> HIDE DEF NewChain
    <3> QED BY <1>11, <2>2, <3>1, <3>2, <3>3, <3>4, <3>5 DEF HashOK
  <2> QED BY <2>1, <2>2
<1>13. ASSUME NEW s \in Slots PROVE GsqOK(NewList(s), gq2, hp2, s)
  <2>1. CASE s = s0
    <3> DEFINE E == RemoveAt(gc, k)
               At(j) == IF j < k THEN j ELSE j + 1
    <3>1. /\ E \in Seq(Cells) /\ IsInjective(E) /\ ToSet(E) = ToSet(gc) \ {pcl}
          /\ First(E) = IF k = 1 THEN After(gc, 1) ELSE First(gc)
          /\ \A j \in 1..Len(E) :
               /\ At(j) \in 1..Len(gc) /\ At(j) # k /\ E[j] = gc[At(j)]
               /\ After(E, j) = IF At(j) = k - 1 THEN After(gc, k) ELSE After(gc, At(j))
               /\ Before(E, j) = IF At(j) = k + 1 THEN Before(gc, k) ELSE Before(gc, At(j))
      <4>1. gc \in Seq(Cells) /\ IsInjective(gc) /\ k \in 1..Len(gc)
        BY <1>7 DEF GsqOK
      <4> HIDE DEF gc
      <4> QED BY <1>6, <4>1, Relinked, SMTT(40)
    <3> HIDE DEF E, At
    <3>2. NewList(s) = E
      BY <2>1 DEF E
    <3>3. ToSet(E) = {p \in DOMAIN hp2 : Slot(hp2[p].gsid) = s}
      <4>1. ToSet(gc) = {p \in DOMAIN hp : Slot(hp[p].gsid) = s}
        BY <1>7, <2>1 DEF GsqOK
      <4> HIDE DEF gc
      <4> QED BY <1>1, <1>3, <3>1, <4>1
    <3>6. prev = Null <=> k = 1
      <4>1. k # 1 => k - 1 \in 1..Len(gc)
        BY <1>5
      <4> HIDE DEF gc, prev
      <4> QED BY <1>5, <1>8, <4>1 DEF Before, Cells, Null
    <3>4. gq2[s] = First(E)
      <4> HIDE DEF gc, prev, nxt, s0
      <4> QED BY <1>5, <1>8, <1>11, <2>1, <3>1, <3>6
    <3>5. ASSUME NEW j \in 1..Len(E)
          PROVE  hp2[E[j]].gsqnext = After(E, j) /\ hp2[E[j]].gsqprev = Before(E, j)
      <4>1. /\ At(j) \in 1..Len(gc) /\ At(j) # k /\ E[j] = gc[At(j)]
            /\ After(E, j) = IF At(j) = k - 1 THEN After(gc, k) ELSE After(gc, At(j))
            /\ Before(E, j) = IF At(j) = k + 1 THEN Before(gc, k) ELSE Before(gc, At(j))
        BY <3>1
      <4>2. /\ gc[At(j)] \in DOMAIN hp2 /\ gc[At(j)] \in Cells
            /\ hp[gc[At(j)]].gsqnext = After(gc, At(j)) /\ hp[gc[At(j)]].gsqprev = Before(gc, At(j))
        BY <1>1, <1>5, <1>6, <4>1, SMTT(40)
      <4>3. gc[At(j)] = prev <=> At(j) = k - 1
        <5>1. CASE k = 1
          BY <1>5, <3>6, <4>1, <4>2, <5>1 DEF Cells, Null
        <5>2. CASE k # 1
          <6>1. k - 1 \in 1..Len(gc) /\ prev = gc[k - 1]
            BY <1>5, <1>8, <5>2 DEF Before
          <6> HIDE DEF gc, prev
          <6> QED BY <1>5, <4>1, <6>1
        <5> QED BY <5>1, <5>2
      <4>4. gc[At(j)] = nxt <=> At(j) = k + 1
        <5>1. CASE k = Len(gc)
          <6>1. nxt = Null /\ At(j) # k + 1
            BY <1>5, <1>8, <4>1, <5>1 DEF After
          <6> QED BY <4>2, <6>1, SMTT(40) DEF Cells, Null
        <5>2. CASE k # Len(gc)
          <6>1. k + 1 \in 1..Len(gc) /\ nxt = gc[k + 1]
            BY <1>5, <1>8, <5>2, SMTT(40) DEF After
          <6> HIDE DEF gc, nxt
          <6> QED BY <1>5, <4>1, <6>1, SMTT(40)
        <5> QED BY <5>1, <5>2
      <4> HIDE DEF gc, prev, nxt
      <4> QED BY <1>3, <1>8, <4>1, <4>2, <4>3, <4>4
    <3> HIDE DEF NewList
    <3> QED BY <3>1, <3>2, <3>3, <3>4, <3>5 DEF GsqOK
  <2>2. CASE s # s0
    <3> DEFINE C == ListOf(s)
    <3>1. /\ C \in Seq(Cells) /\ Len(C) \in Nat
          /\ \A j \in 1..Len(C) : /\ C[j] \in DOMAIN hp /\ Slot(hp[C[j]].gsid) = s
                                  /\ hp[C[j]].gsqnext = After(C, j) /\ hp[C[j]].gsqprev = Before(C, j)
          /\ gq[s] = First(C)
      BY InList
    <3>2. GsqOK(C, gq, hp, s)
      BY DEF TableOK
    <3>3. NewList(s) = C
      BY <2>2
    <3> HIDE DEF C
    <3>4. ToSet(C) = {p \in DOMAIN hp2 : Slot(hp2[p].gsid) = s}
      <4>1. ToSet(C) = {p \in DOMAIN hp : Slot(hp[p].gsid) = s}
        BY <3>2 DEF GsqOK
      <4>2. Slot(hp[pcl].gsid) # s
        BY <2>2
      <4> HIDE DEF s0, gc, prev, nxt
      <4> QED BY <1>1, <1>3, <4>1, <4>2
    <3>6. \A p \in {prev, nxt} : p = Null \/ (p \in DOMAIN hp /\ Slot(hp[p].gsid) = s0)
      <4>1. k # 1 => k - 1 \in 1..Len(gc)
        BY <1>5
      <4>2. k # Len(gc) => k + 1 \in 1..Len(gc)
        BY <1>5
      <4> HIDE DEF gc, prev, nxt, s0
      <4>3. prev = Null \/ (prev \in DOMAIN hp /\ Slot(hp[prev].gsid) = s0)
        BY <1>5, <1>8, <4>1 DEF Before
      <4>4. nxt = Null \/ (nxt \in DOMAIN hp /\ Slot(hp[nxt].gsid) = s0)
        BY <1>5, <1>8, <4>2 DEF After
      <4> QED BY <4>3, <4>4
    <3>5. ASSUME NEW j \in 1..Len(C)
          PROVE  hp2[C[j]].gsqnext = After(C, j) /\ hp2[C[j]].gsqprev = Before(C, j)
      <4>1. /\ C[j] \in DOMAIN hp2 /\ C[j] # Null /\ Slot(hp[C[j]].gsid) = s
            /\ hp[C[j]].gsqnext = After(C, j) /\ hp[C[j]].gsqprev = Before(C, j)
        BY <1>0, <1>1, <2>2, <3>1 DEF Cells, Null
      <4> HIDE DEF gc, prev, nxt, s0
      <4>2. C[j] # prev /\ C[j] # nxt
        BY <2>2, <3>6, <4>1
      <4> QED BY <1>3, <4>1, <4>2
    <3> HIDE DEF NewList
    <3> QED BY <1>11, <2>2, <3>1, <3>2, <3>3, <3>4, <3>5 DEF GsqOK
  <2> QED BY <2>1, <2>2
<1> HIDE DEF ChainOf, ListOf, NewChain, NewList
<1>14. DOMAIN hp2 \subseteq Cells
  BY <1>0, <1>1
<1>15. \A h \in Buckets : HChain(cl2, hp2, h) = NewChain(h)
  BY <1>12, <1>14, HashChainIs
<1>16. \A s \in Slots : GChain(gq2, hp2, s) = NewList(s)
  BY <1>13, <1>14, GsqChainIs
<1>17. CellsOK(cl2, gq2, hp2)
  <2>1. \A h \in Buckets : cl2[h] \in DOMAIN hp2 \cup {Null}
    <3>1. ASSUME NEW h \in Buckets PROVE cl2[h] \in DOMAIN hp2 \cup {Null}
      <4> DEFINE E == NewChain(h)
      <4>1. E \in Seq(Cells) /\ cl2[h] = First(E) /\ ToSet(E) \subseteq DOMAIN hp2
        BY <1>12 DEF HashOK
      <4> HIDE DEF E
      <4>2. CASE E = <<>>
        BY <4>1, <4>2 DEF First
      <4>3. CASE E # <<>>
        <5>1. 1 \in 1..Len(E) /\ First(E) = E[1]
          BY <4>1, <4>3 DEF First
        <5>2. E[1] \in ToSet(E)
          BY <4>1, <5>1, Elements
        <5> QED BY <4>1, <5>1, <5>2
      <4> QED BY <4>2, <4>3
    <3> QED BY <3>1
  <2>2. \A s \in Slots : gq2[s] \in DOMAIN hp2 \cup {Null}
    <3>1. ASSUME NEW s \in Slots PROVE gq2[s] \in DOMAIN hp2 \cup {Null}
      <4> DEFINE E == NewList(s)
      <4>1. E \in Seq(Cells) /\ gq2[s] = First(E) /\ ToSet(E) \subseteq DOMAIN hp2
        BY <1>13 DEF GsqOK
      <4> HIDE DEF E
      <4>2. CASE E = <<>>
        BY <4>1, <4>2 DEF First
      <4>3. CASE E # <<>>
        <5>1. 1 \in 1..Len(E) /\ First(E) = E[1]
          BY <4>1, <4>3 DEF First
        <5>2. E[1] \in ToSet(E)
          BY <4>1, <5>1, Elements
        <5> QED BY <4>1, <5>1, <5>2
      <4> QED BY <4>2, <4>3
    <3> QED BY <3>1
  <2>3. cl2 \in [Buckets -> DOMAIN hp2 \cup {Null}] /\ gq2 \in [Slots -> DOMAIN hp2 \cup {Null}]
    BY <1>11, <2>1, <2>2
  <2> QED BY <1>3, <1>14, <2>3 DEF CellsOK
<1>18. OneEach(hp2)
  <2> HIDE DEF b, s0, hc, gc, prev, nxt
  <2> QED BY <1>0, <1>1, <1>3 DEF OneEach
<1>19. TableOK(cl2, gq2, hp2)
  BY <1>12, <1>13, <1>15, <1>16, <1>17, <1>18 DEF TableOK
<1>20. \A s \in Slots : s # s0 => GChain(gq2, hp2, s) = ListOf(s)
  BY <1>16 DEF NewList
<1>21. \A m \in 1..Len(gc) : gc[m] = pcl => GChain(gq2, hp2, s0) = RemoveAt(gc, m)
  <2>1. GChain(gq2, hp2, s0) = RemoveAt(gc, k)
    BY <1>1, <1>16 DEF NewList
  <2> HIDE DEF gc
  <2> QED BY <1>5, <1>6, <2>1
<1> QED BY <1>19, <1>20, <1>21 DEF ListOf

\* cl_unlock_char, and each step of the loop: a lock of this owner is taken out, if there is one.
LEMMA FreeDrops ==
  ASSUME TableOK(clitbl, gsqtbl, heap), NEW c \in Chars, NEW g \in Gsids, FreeLock(c, g)
  PROVE  /\ \A pcl \in DOMAIN heap :
              (heap[pcl].charname = c /\ heap[pcl].gsid = g) =>
                 Drops(clitbl, gsqtbl, heap, pcl, clitbl', gsqtbl', heap')
         /\ (\A p \in DOMAIN heap : ~(heap[p].charname = c /\ heap[p].gsid = g)) =>
               UNCHANGED <<clitbl, gsqtbl, heap>>
<1> DEFINE chain == HChain(clitbl, heap, Bucket(c))
           hits == {i \in 1..Len(chain) : heap[chain[i]].charname = c /\ heap[chain[i]].gsid = g}
           i == Found(hits)
           unq == DeletedFromGsq(chain[i])
           linked == IF i = 1 THEN unq ELSE [unq EXCEPT ![chain[i - 1]].next = heap[chain[i]].next]
<1>1. HashChain(Bucket(c)) = chain
  BY DEF HashChain, HChain, NextOf
<1>2. FoundOwned(chain, c, g) = i
  BY DEF FoundOwned, FirstIn, Found
<1>3. IF i = 0 THEN UNCHANGED <<clitbl, gsqtbl, heap>>
      ELSE /\ clitbl' = IF i = 1 THEN [clitbl EXCEPT ![Bucket(c)] = heap[chain[i]].next] ELSE clitbl
           /\ gsqtbl' = IF heap[chain[i]].gsqprev = Null
                        THEN [gsqtbl EXCEPT ![Slot(heap[chain[i]].gsid)] = heap[chain[i]].gsqnext]
                        ELSE gsqtbl
           /\ heap' = [p \in DOMAIN heap \ {chain[i]} |-> linked[p]]
  <2> HIDE DEF chain, hits
  <2> QED BY <1>1, <1>2 DEF FreeLock
<1>4. /\ chain \in Seq(Cells) /\ Len(chain) \in Nat
      /\ \A j \in 1..Len(chain) : /\ chain[j] \in Cells /\ chain[j] \in DOMAIN heap
                                  /\ heap[chain[j]].next = After(chain, j)
      /\ \A j, m \in 1..Len(chain) : chain[j] = chain[m] => j = m
      /\ \A p \in DOMAIN heap : Bucket(heap[p].charname) = Bucket(c) => \E j \in 1..Len(chain) : chain[j] = p
  BY Places, InChain
<1>5. /\ DOMAIN heap \subseteq Cells /\ \A p \in DOMAIN heap : heap[p] \in CharLockInfo
      /\ OneEach(heap)
  BY DEF TableOK, CellsOK
<1>6. hits \subseteq Nat \ {0}
  BY <1>4
<1>7. ASSUME NEW pcl \in DOMAIN heap, heap[pcl].charname = c, heap[pcl].gsid = g
      PROVE  Drops(clitbl, gsqtbl, heap, pcl, clitbl', gsqtbl', heap')
  <2>1. PICK j \in 1..Len(chain) : chain[j] = pcl
    BY <1>4, <1>7
  <2>2. hits # {}
    BY <1>7, <2>1, SMTT(40)
  <2>3. i \in hits /\ i # 0
    BY <1>6, <2>2, FoundIs
  <2>4. i \in 1..Len(chain) /\ chain[i] = pcl
    <3> HIDE DEF chain, i
    <3>1. i \in 1..Len(chain) /\ heap[chain[i]].charname = c
      BY <2>3
    <3> QED BY <1>4, <1>5, <1>7, <3>1 DEF OneEach
  <2>5. i # 1 => i - 1 \in 1..Len(chain) /\ chain[i - 1] \in DOMAIN heap /\ chain[i - 1] # pcl
    <3> HIDE DEF chain, i
    <3>1. i # 1 => i - 1 \in 1..Len(chain) /\ i - 1 # i
      BY <1>4, <2>4
    <3> QED BY <1>4, <2>4, <3>1
  <2> DEFINE prev == heap[pcl].gsqprev
             nxt == heap[pcl].gsqnext
             nx == heap[pcl].next
  <2>6. unq = [p \in DOMAIN heap |-> [heap[p] EXCEPT !.gsqnext = IF p = prev THEN nxt ELSE @,
                                                     !.gsqprev = IF p = nxt THEN prev ELSE @]]
    BY <2>4 DEF DeletedFromGsq
  <2>7. prev \in Ptr /\ nxt \in Ptr /\ nx \in Ptr
    BY <1>5 DEF CharLockInfo
  <2> HIDE DEF chain, hits, i, unq, prev, nxt, nx
  <2>8. ASSUME NEW p \in DOMAIN heap
        PROVE  /\ unq[p] \in CharLockInfo
               /\ unq[p].charname = heap[p].charname /\ unq[p].gsid = heap[p].gsid
               /\ unq[p].next = heap[p].next
               /\ unq[p].gsqnext = IF p = prev THEN nxt ELSE heap[p].gsqnext
               /\ unq[p].gsqprev = IF p = nxt THEN prev ELSE heap[p].gsqprev
    <3>1. heap[p] \in CharLockInfo
      BY <1>5
    <3>2. unq[p] = [heap[p] EXCEPT !.gsqnext = IF p = prev THEN nxt ELSE @,
                                   !.gsqprev = IF p = nxt THEN prev ELSE @]
      BY <2>6
    <3> QED BY <2>7, <3>1, <3>2 DEF CharLockInfo
  <2>9. DOMAIN unq = DOMAIN heap
    BY <2>6
  <2>10. ASSUME NEW p \in DOMAIN heap
         PROVE  /\ linked[p] \in CharLockInfo
                /\ linked[p].charname = heap[p].charname /\ linked[p].gsid = heap[p].gsid
                /\ linked[p].next = IF i # 1 /\ p = chain[i - 1] THEN nx ELSE heap[p].next
                /\ linked[p].gsqnext = IF p = prev THEN nxt ELSE heap[p].gsqnext
                /\ linked[p].gsqprev = IF p = nxt THEN prev ELSE heap[p].gsqprev
    <3>1. CASE i # 1 /\ p = chain[i - 1]
      <4>1. linked[p] = [unq[p] EXCEPT !.next = nx]
        BY <2>4, <2>9, <3>1 DEF nx
      <4>2. unq[p] \in CharLockInfo
        BY <2>8
      <4> HIDE DEF linked
      <4>3. /\ linked[p] \in CharLockInfo
            /\ linked[p].charname = unq[p].charname /\ linked[p].gsid = unq[p].gsid
            /\ linked[p].next = nx
            /\ linked[p].gsqnext = unq[p].gsqnext /\ linked[p].gsqprev = unq[p].gsqprev
        BY <2>7, <4>1, <4>2 DEF CharLockInfo
      <4> QED BY <2>8, <3>1, <4>3
    <3>2. CASE ~(i # 1 /\ p = chain[i - 1])
      <4>1. linked[p] = unq[p]
        BY <2>5, <2>9, <3>2
      <4> HIDE DEF linked
      <4> QED BY <2>8, <3>2, <4>1
    <3> QED BY <3>1, <3>2
  <2> HIDE DEF linked
  <2>11. /\ clitbl' = IF i = 1 THEN [clitbl EXCEPT ![Bucket(c)] = nx] ELSE clitbl
         /\ gsqtbl' = IF prev = Null THEN [gsqtbl EXCEPT ![Slot(heap[pcl].gsid)] = nxt] ELSE gsqtbl
         /\ heap' = [p \in DOMAIN heap \ {pcl} |-> linked[p]]
    BY <1>3, <2>3, <2>4 DEF prev, nxt, nx
  <2>12. /\ DOMAIN heap' = DOMAIN heap \ {pcl}
         /\ \A p \in DOMAIN heap' : p \in DOMAIN heap /\ heap'[p] = linked[p]
    BY <2>11
  <2>13. \A p \in DOMAIN heap' :
                /\ heap'[p] \in CharLockInfo
                /\ heap'[p].charname = heap[p].charname /\ heap'[p].gsid = heap[p].gsid
                /\ heap'[p].next = IF i # 1 /\ p = chain[i - 1] THEN nx ELSE heap[p].next
                /\ heap'[p].gsqnext = IF p = prev THEN nxt ELSE heap[p].gsqnext
                /\ heap'[p].gsqprev = IF p = nxt THEN prev ELSE heap[p].gsqprev
    BY <2>10, <2>12
  <2> QED BY <1>7, <2>4, <2>11, <2>12, <2>13 DEF Drops, chain, prev, nxt, nx
<1>8. ASSUME \A p \in DOMAIN heap : ~(heap[p].charname = c /\ heap[p].gsid = g)
      PROVE  UNCHANGED <<clitbl, gsqtbl, heap>>
  <2>1. hits = {}
    BY <1>4, <1>8
  <2>2. i = 0
    BY <1>6, <2>1, FoundIs
  <2> HIDE DEF i
  <2> QED BY <1>3, <2>2
<1> QED BY <1>7, <1>8

\* A character that has a lock gets no other.
LEMMA Relocked ==
  ASSUME TableOK(clitbl, gsqtbl, heap), NEW c \in Chars, NEW g \in Gsids, cl_lock_char(c, g),
         \E p \in DOMAIN heap : heap[p].charname = c
  PROVE  UNCHANGED <<clitbl, gsqtbl, heap>>
<1> DEFINE chain == HChain(clitbl, heap, Bucket(c))
<1>1. HashChain(Bucket(c)) = chain
  BY DEF HashChain, HChain, NextOf
<1>2. \A p \in DOMAIN heap : Bucket(heap[p].charname) = Bucket(c) => \E i \in 1..Len(chain) : chain[i] = p
  BY Places, InChain
<1>3. \E i \in 1..Len(chain) : heap[chain[i]].charname = c
  BY <1>2
<1> HIDE DEF chain
<1> QED BY <1>1, <1>3 DEF cl_lock_char

-----------------------------------------------------------------------------
(***************************************************************************)
(* The invariant holds, and what follows from it.                          *)
(***************************************************************************)

\* Empty tables are well formed.
LEMMA InitOK == ASSUME Init PROVE ListInv
<1>1. /\ clitbl = [h \in Buckets |-> Null] /\ gsqtbl = [s \in Slots |-> Null]
      /\ heap = <<>> /\ DOMAIN heap = {} /\ walk = NoWalk
  BY DEF Init, Buckets, Slots
<1>2. <<>> \in Seq(Cells) /\ IsInjective(<<>>) /\ ToSet(<<>>) = {} /\ Len(<<>>) = 0
  BY EmptyList
<1> HIDE DEF Init
<1>3. ASSUME NEW h \in Buckets PROVE HashOK(HChain(clitbl, heap, h), clitbl, heap, h)
  <2>1. clitbl[h] = First(<<>>)
    BY <1>1 DEF First
  <2>2. HashOK(<<>>, clitbl, heap, h)
    BY <1>1, <1>2, <2>1 DEF HashOK
  <2>3. HChain(clitbl, heap, h) = <<>>
    BY <1>1, <2>2, HashChainIs
  <2> QED BY <2>2, <2>3
<1>4. ASSUME NEW s \in Slots PROVE GsqOK(GChain(gsqtbl, heap, s), gsqtbl, heap, s)
  <2>1. gsqtbl[s] = First(<<>>)
    BY <1>1 DEF First
  <2>2. GsqOK(<<>>, gsqtbl, heap, s)
    BY <1>1, <1>2, <2>1 DEF GsqOK
  <2>3. GChain(gsqtbl, heap, s) = <<>>
    BY <1>1, <2>2, GsqChainIs
  <2> QED BY <2>2, <2>3
<1>5. CellsOK(clitbl, gsqtbl, heap) /\ OneEach(heap)
  BY <1>1 DEF CellsOK, OneEach
<1> QED BY <1>1, <1>3, <1>4, <1>5 DEF ListInv, TableOK, WalkOK

\* A lock is taken.
LEMMA LockStep ==
  ASSUME ListInv, NEW c \in Chars, NEW g \in Gsids, cl_lock_char(c, g) PROVE ListInv'
<1>1. TableOK(clitbl, gsqtbl, heap) /\ walk = NoWalk /\ walk' = walk
  BY DEF ListInv, cl_lock_char, Idle
<1>2. CASE \A p \in DOMAIN heap : heap[p].charname # c
  <2>1. Adds(clitbl, gsqtbl, heap, c, g, FreeCell, clitbl', gsqtbl', heap')
    BY <1>1, <1>2, LockAdds
  <2>2. TableOK(clitbl', gsqtbl', heap')
    BY <1>1, <2>1, Added
  <2> QED BY <1>1, <2>2 DEF ListInv, WalkOK
<1>3. CASE \E p \in DOMAIN heap : heap[p].charname = c
  <2>1. UNCHANGED <<clitbl, gsqtbl, heap>>
    BY <1>1, <1>3, Relocked
  <2> QED BY <1>1, <2>1 DEF ListInv, WalkOK
<1> QED BY <1>2, <1>3

\* A lock is released.
LEMMA UnlockStep ==
  ASSUME ListInv, NEW c \in Chars, NEW g \in Gsids, cl_unlock_char(c, g) PROVE ListInv'
<1>1. TableOK(clitbl, gsqtbl, heap) /\ walk = NoWalk /\ walk' = walk /\ FreeLock(c, g)
  BY DEF ListInv, cl_unlock_char, Idle
<1>2. CASE \E p \in DOMAIN heap : heap[p].charname = c /\ heap[p].gsid = g
  <2>1. PICK p \in DOMAIN heap : heap[p].charname = c /\ heap[p].gsid = g
    BY <1>2
  <2>2. Drops(clitbl, gsqtbl, heap, p, clitbl', gsqtbl', heap')
    BY <1>1, <2>1, FreeDrops
  <2>3. TableOK(clitbl', gsqtbl', heap')
    BY <1>1, <2>2, Dropped
  <2> QED BY <1>1, <2>3 DEF ListInv, WalkOK
<1>3. CASE \A p \in DOMAIN heap : ~(heap[p].charname = c /\ heap[p].gsid = g)
  <2>1. UNCHANGED <<clitbl, gsqtbl, heap>>
    BY <1>1, <1>3, FreeDrops
  <2> QED BY <1>1, <2>1 DEF ListInv, WalkOK
<1> QED BY <1>2, <1>3

\* The loop begins at the head of the slot's list.
LEMMA BeginStep == ASSUME ListInv, NEW g \in Gsids, UnlockAllBegin(g) PROVE ListInv'
<1> DEFINE c == GChain(gsqtbl, heap, Slot(g))
<1>1. /\ TableOK(clitbl, gsqtbl, heap) /\ walk' = [gsid |-> g, pcl |-> gsqtbl[Slot(g)]]
      /\ clitbl' = clitbl /\ gsqtbl' = gsqtbl /\ heap' = heap
  BY DEF ListInv, UnlockAllBegin
<1>2. Len(c) \in Nat /\ c \in Seq(Cells) /\ gsqtbl[Slot(g)] = First(c)
  BY <1>1, Places, InList
<1>3. gsqtbl[Slot(g)] \in DOMAIN heap \cup {Null}
  BY <1>1, Places DEF TableOK, CellsOK
<1>4. walk'.gsid = g /\ walk'.pcl = First(c) /\ walk' \in [gsid : Gsids, pcl : DOMAIN heap \cup {Null}]
  BY <1>1, <1>2, <1>3
<1> HIDE DEF c
<1>5. /\ 1 \in 1..(Len(c) + 1) /\ walk'.pcl = IF 1 = Len(c) + 1 THEN Null ELSE c[1]
      /\ \A i \in 1..Len(c) : 1 <= i
  <2>1. c = <<>> <=> Len(c) = 0
    BY <1>2
  <2> QED BY <1>2, <1>4, <2>1 DEF First
<1>6. WalkOK(gsqtbl, heap, walk')
  BY <1>4, <1>5 DEF WalkOK, c
<1> QED BY <1>1, <1>6 DEF ListInv

\* What the loop knows of its list, at a cell.
LEMMA AtCell ==
  ASSUME ListInv, walk.pcl # Null
  PROVE  LET s == Slot(walk.gsid)
             c == GChain(gsqtbl, heap, s)
         IN  /\ walk \in [gsid : Gsids, pcl : DOMAIN heap] /\ s \in Slots
             /\ heap[walk.pcl].charname \in Chars /\ Slot(heap[walk.pcl].gsid) = s
             /\ \E k \in 1..Len(c) : /\ walk.pcl = c[k]
                                     /\ \A i \in 1..Len(c) : heap[c[i]].gsid = walk.gsid => k <= i
<1> DEFINE s == Slot(walk.gsid)
           c == GChain(gsqtbl, heap, s)
<1>1. walk # NoWalk
  BY DEF NoWalk
<1>2. /\ walk \in [gsid : Gsids, pcl : DOMAIN heap \cup {Null}]
      /\ \E k \in 1..(Len(c) + 1) :
           /\ walk.pcl = IF k = Len(c) + 1 THEN Null ELSE c[k]
           /\ \A i \in 1..Len(c) : heap[c[i]].gsid = walk.gsid => k <= i
  BY <1>1 DEF ListInv, WalkOK
<1>3. walk \in [gsid : Gsids, pcl : DOMAIN heap] /\ walk.gsid \in Gsids /\ s \in Slots
  BY <1>2, Places
<1>4. /\ Len(c) \in Nat
      /\ \A i \in 1..Len(c) : c[i] \in DOMAIN heap /\ Slot(heap[c[i]].gsid) = s
  BY <1>3, InList DEF ListInv
<1> HIDE DEF c, s
<1>5. PICK k \in 1..(Len(c) + 1) :
           /\ walk.pcl = IF k = Len(c) + 1 THEN Null ELSE c[k]
           /\ \A i \in 1..Len(c) : heap[c[i]].gsid = walk.gsid => k <= i
  BY <1>2
<1>6. k \in 1..Len(c) /\ walk.pcl = c[k]
  BY <1>4, <1>5
<1>7. heap[c[k]] \in CharLockInfo
  BY <1>4, <1>6 DEF ListInv, TableOK, CellsOK
<1>8. heap[walk.pcl].charname \in Chars /\ Slot(heap[walk.pcl].gsid) = s
  BY <1>4, <1>6, <1>7 DEF CharLockInfo
<1> QED BY <1>3, <1>5, <1>6, <1>8 DEF c, s

\* The loop goes on to the cell that followed, whether it freed the one it was at or not.
LEMMA IterateStep == ASSUME ListInv, UnlockAllIterate PROVE ListInv'
<1> DEFINE g == walk.gsid
           pcl == walk.pcl
           s == Slot(g)
           c == GChain(gsqtbl, heap, s)
           name == heap[pcl].charname
<1>1. /\ TableOK(clitbl, gsqtbl, heap) /\ pcl # Null
      /\ FreeLock(name, g) /\ walk' = [walk EXCEPT !.pcl = heap[pcl].gsqnext]
  BY DEF ListInv, UnlockAllIterate
<1>2. /\ walk \in [gsid : Gsids, pcl : DOMAIN heap] /\ s \in Slots
      /\ name \in Chars /\ Slot(heap[pcl].gsid) = s
      /\ \E k \in 1..Len(c) : /\ pcl = c[k]
                              /\ \A i \in 1..Len(c) : heap[c[i]].gsid = g => k <= i
  BY <1>1, AtCell
<1>3. pcl \in DOMAIN heap /\ g \in Gsids
  BY <1>2
<1>4. /\ c \in Seq(Cells) /\ Len(c) \in Nat
      /\ \A i \in 1..Len(c) : c[i] \in DOMAIN heap /\ heap[c[i]].gsqnext = After(c, i)
      /\ \A i, j \in 1..Len(c) : c[i] = c[j] => i = j
  BY <1>1, <1>2, InList
<1>5. PICK k \in 1..Len(c) : pcl = c[k] /\ \A i \in 1..Len(c) : heap[c[i]].gsid = g => k <= i
  BY <1>2
<1>6. OneEach(heap)
  BY <1>1 DEF TableOK
<1> DEFINE nxt == After(c, k)
<1>7. heap[pcl].gsqnext = nxt
  BY <1>4, <1>5
<1>8. /\ walk'.gsid = g /\ walk'.pcl = nxt
      /\ \A S : nxt \in S => walk' \in [gsid : Gsids, pcl : S]
  BY <1>1, <1>2, <1>7
<1> HIDE DEF g, pcl, s, c, name, nxt
<1>9. k \in Nat /\ nxt = IF k = Len(c) THEN Null ELSE c[k + 1]
  BY <1>4 DEF nxt, After
<1>10. k # Len(c) => k + 1 \in 1..Len(c) /\ c[k + 1] \in DOMAIN heap /\ c[k + 1] # pcl
  <2>1. k # Len(c) => k + 1 \in 1..Len(c) /\ k + 1 # k
    BY <1>4
  <2> QED BY <1>4, <1>5, <2>1
<1>11. CASE heap[pcl].gsid = g
  <2>1. Drops(clitbl, gsqtbl, heap, pcl, clitbl', gsqtbl', heap')
    BY <1>1, <1>2, <1>3, <1>11, FreeDrops DEF name
  <2>2. TableOK(clitbl', gsqtbl', heap')
    BY <1>1, <2>1, Dropped
  <2>3. GChain(gsqtbl', heap', s) = RemoveAt(c, k)
    BY <1>1, <1>2, <1>5, <2>1, Dropped DEF c
  <2> DEFINE d == RemoveAt(c, k)
  <2>4. /\ Len(d) = Len(c) - 1
        /\ \A i \in 1..Len(d) : d[i] = IF i < k THEN c[i] ELSE c[i + 1]
    BY <1>4, RemovedAt
  <2>5. DOMAIN heap' = DOMAIN heap \ {pcl} /\ \A p \in DOMAIN heap' : heap'[p].gsid = heap[p].gsid
    BY <2>1 DEF Drops
  <2> HIDE DEF d
  <2>6. k \in 1..(Len(d) + 1) /\ walk'.pcl = IF k = Len(d) + 1 THEN Null ELSE d[k]
    <3>1. CASE k = Len(c)
      BY <1>4, <1>8, <1>9, <2>4, <3>1
    <3>2. CASE k # Len(c)
      <4>1. k \in 1..Len(d) /\ k # Len(d) + 1
        BY <1>4, <2>4, <3>2
      <4>2. d[k] = c[k + 1]
        BY <1>9, <2>4, <4>1
      <4> QED BY <1>8, <1>9, <3>2, <4>1, <4>2
    <3> QED BY <3>1, <3>2
  <2>7. ASSUME NEW i \in 1..Len(d), heap'[d[i]].gsid = g PROVE k <= i
    <3> SUFFICES ASSUME i < k PROVE FALSE
      BY <1>9, <2>4
    <3>1. i \in 1..Len(c) /\ i # k /\ d[i] = c[i]
      BY <1>4, <2>4
    <3>2. c[i] \in DOMAIN heap /\ c[i] # pcl
      BY <1>4, <1>5, <3>1
    <3>3. heap[c[i]].gsid = g
      BY <2>5, <2>7, <3>1, <3>2
    <3> QED BY <1>5, <1>9, <3>1, <3>3
  <2>8. walk' \in [gsid : Gsids, pcl : DOMAIN heap' \cup {Null}]
    <3>1. nxt \in DOMAIN heap' \cup {Null}
      BY <1>9, <1>10, <2>5
    <3> QED BY <1>8, <3>1
  <2>9. WalkOK(gsqtbl', heap', walk')
    BY <1>8, <2>3, <2>6, <2>7, <2>8 DEF WalkOK, s, d
  <2> QED BY <2>2, <2>9 DEF ListInv
<1>12. CASE heap[pcl].gsid # g
  <2>1. \A p \in DOMAIN heap : ~(heap[p].charname = name /\ heap[p].gsid = g)
    BY <1>3, <1>6, <1>12 DEF OneEach, name
  <2>2. clitbl' = clitbl /\ gsqtbl' = gsqtbl /\ heap' = heap
    BY <1>1, <1>2, <1>3, <2>1, FreeDrops
  <2>3. k + 1 \in 1..(Len(c) + 1) /\ walk'.pcl = IF k + 1 = Len(c) + 1 THEN Null ELSE c[k + 1]
    BY <1>4, <1>8, <1>9
  <2>4. ASSUME NEW i \in 1..Len(c), heap[c[i]].gsid = g PROVE k + 1 <= i
    <3>1. k <= i /\ i # k
      BY <1>5, <1>12, <2>4
    <3> QED BY <1>9, <3>1
  <2>5. walk' \in [gsid : Gsids, pcl : DOMAIN heap \cup {Null}]
    <3>1. nxt \in DOMAIN heap \cup {Null}
      BY <1>9, <1>10
    <3> QED BY <1>8, <3>1
  <2>6. WalkOK(gsqtbl, heap, walk')
    BY <1>8, <2>3, <2>4, <2>5 DEF WalkOK, c, s
  <2> QED BY <1>1, <2>2, <2>6 DEF ListInv
<1> QED BY <1>11, <1>12

\* Every call, and every step of the loop, keeps the invariant.
LEMMA StepOK == ASSUME ListInv, [Next]_vars PROVE ListInv'
<1>1. ASSUME NEW g \in Gsids, UnlockAllBegin(g) PROVE ListInv'
  BY <1>1, BeginStep
<1>2. ASSUME NEW g \in Gsids, NEW c \in Chars, cl_lock_char(c, g) PROVE ListInv'
  BY <1>2, LockStep
<1>3. ASSUME NEW g \in Gsids, NEW c \in Chars, cl_unlock_char(c, g) PROVE ListInv'
  BY <1>3, UnlockStep
<1>4. CASE UnlockAllIterate
  BY <1>4, IterateStep
<1>5. CASE UnlockAllEnd
  BY <1>5 DEF ListInv, UnlockAllEnd, WalkOK
<1>6. CASE UNCHANGED vars
  BY <1>6 DEF ListInv, vars
<1> QED BY <1>1, <1>2, <1>3, <1>4, <1>5, <1>6 DEF Next

\* The chains and the lists are linked as they should be, and the loop of
\* cl_unlock_all_char_by_gsid has passed no lock of its server, in every reachable state.
THEOREM ListInvHolds == Spec => []ListInv
<1>1. Init => ListInv
  BY InitOK
<1>2. ListInv /\ [Next]_vars => ListInv'
  BY StepOK
<1> QED BY <1>1, <1>2, PTL DEF Spec

\* No head of a list and no cursor of the loop points at a freed t_charlockinfo.
THEOREM TableTypeCorrect == Spec => []TypeOK
<1>1. ListInv => TypeOK
  <2> SUFFICES ASSUME ListInv PROVE TypeOK
    OBVIOUS
  <2>1. walk \in [gsid : Gsids, pcl : DOMAIN heap \cup {Null}] \cup {NoWalk}
    BY DEF ListInv, WalkOK
  <2> QED BY <2>1 DEF ListInv, TableOK, CellsOK, Buckets, Slots, TypeOK
<1> QED BY <1>1, ListInvHolds, PTL

\* An element is in a list once or not at all.
LEMMA CountIs ==
  ASSUME NEW c \in Seq(Cells), IsInjective(c), NEW p
  PROVE  Cardinality({i \in 1..Len(c) : c[i] = p}) = IF p \in ToSet(c) THEN 1 ELSE 0
<1> DEFINE S == {i \in 1..Len(c) : c[i] = p}
<1>1. /\ \A x \in ToSet(c) : \E i \in 1..Len(c) : c[i] = x
      /\ \A i \in 1..Len(c) : c[i] \in ToSet(c)
      /\ \A i, j \in 1..Len(c) : c[i] = c[j] => i = j
  BY Elements DEF IsInjective
<1>2. CASE p \in ToSet(c)
  <2>1. PICK i \in 1..Len(c) : c[i] = p
    BY <1>1, <1>2
  <2>2. S = {i}
    BY <1>1, <2>1
  <2> QED BY <1>2, <2>2, FS_Singleton
<1>3. CASE p \notin ToSet(c)
  <2>1. S = {}
    BY <1>1, <1>3
  <2> QED BY <1>3, <2>1, FS_EmptySet
<1> QED BY <1>2, <1>3

\* Every cell is once in the chain of its character's name and once in the list of its server's
\* slot, nothing else is in a list, and the back pointers mirror the forward ones.
THEOREM WellFormedLists == Spec => []ListsWellFormed
<1>1. ASSUME ListInv PROVE ListsWellFormed
  <2>1. ASSUME NEW h \in Buckets, NEW p \in Cells
        PROVE  Cardinality({i \in 1..Len(HashChain(h)) : HashChain(h)[i] = p})
                 = IF p \in DOMAIN heap /\ Bucket(heap[p].charname) = h THEN 1 ELSE 0
    <3> DEFINE chain == HashChain(h)
    <3>1. HashOK(chain, clitbl, heap, h)
      BY <1>1 DEF ListInv, TableOK, HashChain, HChain, NextOf
    <3> HIDE DEF chain
    <3>2. /\ chain \in Seq(Cells) /\ IsInjective(chain)
          /\ p \in ToSet(chain) <=> (p \in DOMAIN heap /\ Bucket(heap[p].charname) = h)
      BY <3>1 DEF HashOK
    <3>3. Cardinality({i \in 1..Len(chain) : chain[i] = p}) = IF p \in ToSet(chain) THEN 1 ELSE 0
      BY <3>2, CountIs
    <3> QED BY <3>2, <3>3 DEF chain
  <2>2. ASSUME NEW s \in Slots
        PROVE  /\ \A p \in Cells : Cardinality({i \in 1..Len(GsqChain(s)) : GsqChain(s)[i] = p})
                    = IF p \in DOMAIN heap /\ Slot(heap[p].gsid) = s THEN 1 ELSE 0
               /\ \A i \in 1..Len(GsqChain(s)) :
                    heap[GsqChain(s)[i]].gsqprev = IF i = 1 THEN Null ELSE GsqChain(s)[i - 1]
    <3> DEFINE chain == GsqChain(s)
    <3>1. GsqOK(chain, gsqtbl, heap, s)
      BY <1>1 DEF ListInv, TableOK, GsqChain, GChain, GsqNextOf
    <3> HIDE DEF chain
    <3>2. /\ chain \in Seq(Cells) /\ IsInjective(chain)
          /\ ToSet(chain) = {p \in DOMAIN heap : Slot(heap[p].gsid) = s}
          /\ \A i \in 1..Len(chain) : heap[chain[i]].gsqprev = Before(chain, i)
      BY <3>1 DEF GsqOK
    <3>3. ASSUME NEW p \in Cells
          PROVE  Cardinality({i \in 1..Len(chain) : chain[i] = p})
                   = IF p \in DOMAIN heap /\ Slot(heap[p].gsid) = s THEN 1 ELSE 0
      <4>1. Cardinality({i \in 1..Len(chain) : chain[i] = p}) = IF p \in ToSet(chain) THEN 1 ELSE 0
        BY <3>2, CountIs
      <4>2. p \in ToSet(chain) <=> (p \in DOMAIN heap /\ Slot(heap[p].gsid) = s)
        BY <3>2
      <4> QED BY <4>1, <4>2
    <3> QED BY <3>2, <3>3 DEF chain, Before
  <2> QED BY <2>1, <2>2 DEF ListsWellFormed, Buckets, Slots
<1> QED BY <1>1, ListInvHolds, PTL

-----------------------------------------------------------------------------
(***************************************************************************)
(* The table implements CharLock, under the mapping Owners.                *)
(***************************************************************************)

\* The owner that cl_query_charlock_status reads is a server's id or 0, which is none.
Q(c) == Query(clitbl, heap, c)

\* What the refinement mapping is, before and after a step.
LEMMA OwnersAre ==
  /\ Owners = [c \in Chars |-> IF Q(c) = walk.gsid THEN 0 ELSE Q(c)]
  /\ Owners' = [c \in Chars |-> IF Q(c)' = walk'.gsid THEN 0 ELSE Q(c)']
<1>1. \A c : cl_query_charlock_status(c) = Q(c)
  BY DEF cl_query_charlock_status, Q, Query, HashChain, HChain, NextOf
<1>2. \A c : cl_query_charlock_status(c)' = Q(c)'
  BY DEF cl_query_charlock_status, Q, Query, HashChain, HChain, NextOf
<1> HIDE DEF Q, cl_query_charlock_status
<1> QED BY <1>1, <1>2 DEF Owners

\* An answer is the owner of the one cell of the character, or 0 where there is none.
Answers(cl, hp) ==
  \A c \in Chars : /\ Query(cl, hp, c) \in Gsids \cup {0}
                   /\ \A p \in DOMAIN hp : hp[p].charname = c => Query(cl, hp, c) = hp[p].gsid
                   /\ (\A p \in DOMAIN hp : hp[p].charname # c) => Query(cl, hp, c) = 0

\* The answers of well-formed tables are such answers.
LEMMA AnswersAre ==
  ASSUME NEW cl, NEW gq, NEW hp, TableOK(cl, gq, hp) PROVE Answers(cl, hp)
<1>1. ASSUME NEW c \in Chars
      PROVE  /\ \A p \in DOMAIN hp : hp[p].charname = c => Query(cl, hp, c) = hp[p].gsid
             /\ (\A p \in DOMAIN hp : hp[p].charname # c) => Query(cl, hp, c) = 0
  BY QueryIs
<1>2. \A p \in DOMAIN hp : hp[p].gsid \in Gsids
  BY DEF TableOK, CellsOK, CharLockInfo
<1>3. \A c \in Chars : Query(cl, hp, c) \in Gsids \cup {0}
  BY <1>1, <1>2
<1> QED BY <1>1, <1>3 DEF Answers

\* Between the calls the mapping is what is read.
LEMMA IdleOwners ==
  ASSUME ListInv, Idle PROVE Owners = [c \in Chars |-> Q(c)]
<1>1. walk.gsid = 0
  BY DEF Idle, NoWalk
<1> QED BY <1>1, OwnersAre

\* The answers after a cell was added.
LEMMA AnswersAdded ==
  ASSUME NEW cl, NEW gq, NEW hp, NEW c, NEW g, NEW new, NEW cl2, NEW gq2, NEW hp2,
         TableOK(cl, gq, hp), TableOK(cl2, gq2, hp2), Adds(cl, gq, hp, c, g, new, cl2, gq2, hp2)
  PROVE  \A d \in Chars : Query(cl2, hp2, d) = IF d = c THEN g ELSE Query(cl, hp, d)
<1>1. Answers(cl, hp) /\ Answers(cl2, hp2)
  BY AnswersAre
<1>2. /\ new \notin DOMAIN hp /\ DOMAIN hp2 = DOMAIN hp \cup {new}
      /\ \A p \in DOMAIN hp : hp2[p].charname = hp[p].charname /\ hp2[p].gsid = hp[p].gsid
      /\ hp2[new].charname = c /\ hp2[new].gsid = g
  BY DEF Adds
<1> QED BY <1>1, <1>2 DEF Answers

\* The same of a cell taken out.
LEMMA AnswersDropped ==
  ASSUME NEW cl, NEW gq, NEW hp, NEW pcl, NEW cl2, NEW gq2, NEW hp2,
         TableOK(cl, gq, hp), TableOK(cl2, gq2, hp2), Drops(cl, gq, hp, pcl, cl2, gq2, hp2)
  PROVE  /\ pcl \in DOMAIN hp
         /\ \A d \in Chars : Query(cl2, hp2, d) = IF d = hp[pcl].charname THEN 0 ELSE Query(cl, hp, d)
<1>1. Answers(cl, hp) /\ Answers(cl2, hp2)
  BY AnswersAre
<1>2. /\ pcl \in DOMAIN hp /\ DOMAIN hp2 = DOMAIN hp \ {pcl}
      /\ \A p \in DOMAIN hp2 : hp2[p].charname = hp[p].charname /\ hp2[p].gsid = hp[p].gsid
  BY DEF Drops
<1>3. \A p \in DOMAIN hp2 : hp[p].charname # hp[pcl].charname
  BY <1>2 DEF TableOK, OneEach
<1> QED BY <1>1, <1>2, <1>3 DEF Answers

\* cl_lock_char is Lock.
LEMMA LockRefines ==
  ASSUME ListInv, ListInv', NEW c \in Chars, NEW g \in Gsids, cl_lock_char(c, g)
  PROVE  Abs!Lock(c, g)
<1>1. TableOK(clitbl, gsqtbl, heap) /\ TableOK(clitbl', gsqtbl', heap')
  BY DEF ListInv
<1>2. Idle /\ Idle'
  BY DEF cl_lock_char, Idle
<1>3. /\ Owners = [d \in Chars |-> Q(d)] /\ Owners' = [d \in Chars |-> Q(d)']
  <2>1. walk.gsid = 0 /\ walk'.gsid = 0
    BY <1>2 DEF Idle, NoWalk
  <2> QED BY <2>1, OwnersAre
<1>4. Answers(clitbl, heap) /\ 0 \notin Gsids
  BY <1>1, AnswersAre, ListAssumption
<1>5. Abs!Lock(c, g) <=> Owners' = IF Owners[c] # 0 THEN Owners ELSE [Owners EXCEPT ![c] = g]
  BY DEF Abs!Lock, Abs!LockChar, Abs!IsLocked, Abs!NoGs
<1>6. CASE \A p \in DOMAIN heap : heap[p].charname # c
  <2>1. Adds(clitbl, gsqtbl, heap, c, g, FreeCell, clitbl', gsqtbl', heap')
    BY <1>1, <1>6, LockAdds
  <2>2. \A d \in Chars : Q(d)' = IF d = c THEN g ELSE Q(d)
    BY <1>1, <2>1, AnswersAdded DEF Q
  <2>3. Q(c) = 0
    BY <1>4, <1>6 DEF Answers, Q
  <2> HIDE DEF Q
  <2>4. Owners[c] = 0 /\ Owners' = [Owners EXCEPT ![c] = g]
    BY <1>3, <2>2, <2>3
  <2> QED BY <1>5, <2>4
<1>7. CASE \E p \in DOMAIN heap : heap[p].charname = c
  <2>1. UNCHANGED <<clitbl, gsqtbl, heap>>
    BY <1>1, <1>7, Relocked
  <2>2. Q(c) \in Gsids
    <3>1. \A p \in DOMAIN heap : heap[p].gsid \in Gsids
      BY <1>1 DEF TableOK, CellsOK, CharLockInfo
    <3> QED BY <1>4, <1>7, <3>1 DEF Answers, Q
  <2>3. \A d \in Chars : Q(d)' = Q(d)
    BY <2>1 DEF Q
  <2> HIDE DEF Q
  <2>4. Owners[c] # 0 /\ Owners' = Owners
    BY <1>3, <1>4, <2>2, <2>3
  <2> QED BY <1>5, <2>4
<1> QED BY <1>6, <1>7

\* cl_unlock_char is Unlock.
LEMMA UnlockRefines ==
  ASSUME ListInv, ListInv', NEW c \in Chars, NEW g \in Gsids, cl_unlock_char(c, g)
  PROVE  Abs!Unlock(c, g)
<1>1. TableOK(clitbl, gsqtbl, heap) /\ TableOK(clitbl', gsqtbl', heap') /\ FreeLock(c, g)
  BY DEF ListInv, cl_unlock_char
<1>2. Idle /\ Idle'
  BY DEF cl_unlock_char, Idle
<1>3. /\ Owners = [d \in Chars |-> Q(d)] /\ Owners' = [d \in Chars |-> Q(d)']
  <2>1. walk.gsid = 0 /\ walk'.gsid = 0
    BY <1>2 DEF Idle, NoWalk
  <2> QED BY <2>1, OwnersAre
<1>4. Answers(clitbl, heap) /\ 0 \notin Gsids
  BY <1>1, AnswersAre, ListAssumption
<1>5. Abs!Unlock(c, g) <=> Owners' = IF Owners[c] = g THEN [Owners EXCEPT ![c] = 0] ELSE Owners
  BY DEF Abs!Unlock, Abs!UnlockChar, Abs!NoGs
<1>6. CASE \E p \in DOMAIN heap : heap[p].charname = c /\ heap[p].gsid = g
  <2>1. PICK p \in DOMAIN heap : heap[p].charname = c /\ heap[p].gsid = g
    BY <1>6
  <2>2. Drops(clitbl, gsqtbl, heap, p, clitbl', gsqtbl', heap')
    BY <1>1, <2>1, FreeDrops
  <2>3. \A d \in Chars : Q(d)' = IF d = c THEN 0 ELSE Q(d)
    BY <1>1, <2>1, <2>2, AnswersDropped DEF Q
  <2>4. Q(c) = g
    BY <1>4, <2>1 DEF Answers, Q
  <2> HIDE DEF Q
  <2>5. Owners[c] = g /\ Owners' = [Owners EXCEPT ![c] = 0]
    BY <1>3, <2>3, <2>4
  <2> QED BY <1>5, <2>5
<1>7. CASE \A p \in DOMAIN heap : ~(heap[p].charname = c /\ heap[p].gsid = g)
  <2>1. UNCHANGED <<clitbl, gsqtbl, heap>>
    BY <1>1, <1>7, FreeDrops
  <2>2. Q(c) # g
    BY <1>4, <1>7 DEF Answers, Q
  <2>3. \A d \in Chars : Q(d)' = Q(d)
    BY <2>1 DEF Q
  <2> HIDE DEF Q
  <2>4. Owners[c] # g /\ Owners' = Owners
    BY <1>3, <2>2, <2>3
  <2> QED BY <1>5, <2>4
<1> QED BY <1>6, <1>7

\* cl_unlock_all_char_by_gsid is UnlockAll, as it begins.
LEMMA BeginRefines ==
  ASSUME ListInv, NEW g \in Gsids, UnlockAllBegin(g) PROVE Abs!UnlockAll(g)
<1>1. TableOK(clitbl, gsqtbl, heap) /\ walk.gsid = 0 /\ walk'.gsid = g
  BY DEF ListInv, UnlockAllBegin, Idle, NoWalk
<1>2. \A d \in Chars : Q(d)' = Q(d)
  BY DEF Q, UnlockAllBegin
<1> HIDE DEF Q
<1>3. Owners = [d \in Chars |-> Q(d)] /\ Owners' = [d \in Chars |-> IF Q(d) = g THEN 0 ELSE Q(d)]
  BY <1>1, <1>2, OwnersAre
<1>4. Abs!UnlockAll(g) <=> Owners' = [d \in DOMAIN Owners |-> IF Owners[d] \in {g} THEN 0 ELSE Owners[d]]
  BY DEF Abs!UnlockAll, Abs!UnlockAllByGsids, Abs!NoGs
<1> QED BY <1>3, <1>4

\* What its loop does after that is not seen.
LEMMA LoopUnseen ==
  ASSUME ListInv, ListInv', UnlockAllIterate \/ UnlockAllEnd PROVE UNCHANGED Owners
<1>1. TableOK(clitbl, gsqtbl, heap) /\ TableOK(clitbl', gsqtbl', heap')
  BY DEF ListInv
<1>2. CASE UnlockAllIterate
  <2> DEFINE pcl == walk.pcl
             name == heap[pcl].charname
  <2>1. /\ FreeLock(name, walk.gsid) /\ pcl # Null
        /\ walk' = [walk EXCEPT !.pcl = heap[pcl].gsqnext]
    BY <1>2 DEF UnlockAllIterate
  <2>2. walk \in [gsid : Gsids, pcl : DOMAIN heap] /\ name \in Chars
    BY <2>1, AtCell
  <2>3. walk.gsid \in Gsids /\ pcl \in DOMAIN heap /\ walk'.gsid = walk.gsid
    BY <2>1, <2>2
  <2> HIDE DEF pcl, name
  <2>4. CASE \E p \in DOMAIN heap : heap[p].charname = name /\ heap[p].gsid = walk.gsid
    <3>1. PICK p \in DOMAIN heap : heap[p].charname = name /\ heap[p].gsid = walk.gsid
      BY <2>4
    <3>2. Drops(clitbl, gsqtbl, heap, p, clitbl', gsqtbl', heap')
      BY <1>1, <2>1, <2>2, <2>3, <3>1, FreeDrops
    <3>3. \A d \in Chars : Q(d)' = IF d = name THEN 0 ELSE Q(d)
      BY <1>1, <3>1, <3>2, AnswersDropped DEF Q
    <3>4. Q(name) = walk.gsid
      BY <1>1, <2>2, <3>1, AnswersAre DEF Answers, Q
    <3> HIDE DEF Q
    <3>5. \A d \in Chars : (IF Q(d)' = walk'.gsid THEN 0 ELSE Q(d)') = IF Q(d) = walk.gsid THEN 0 ELSE Q(d)
      BY <2>3, <3>3, <3>4
    <3> QED BY <3>5, OwnersAre
  <2>5. CASE \A p \in DOMAIN heap : ~(heap[p].charname = name /\ heap[p].gsid = walk.gsid)
    <3>1. UNCHANGED <<clitbl, gsqtbl, heap>>
      BY <1>1, <2>1, <2>2, <2>3, <2>5, FreeDrops
    <3>2. \A d \in Chars : Q(d)' = Q(d)
      BY <3>1 DEF Q
    <3> HIDE DEF Q
    <3> QED BY <2>3, <3>2, OwnersAre
  <2> QED BY <2>4, <2>5
<1>3. CASE UnlockAllEnd
  <2> DEFINE c == GChain(gsqtbl, heap, Slot(walk.gsid))
  <2>1. /\ walk # NoWalk /\ walk.pcl = Null /\ walk'.gsid = 0
        /\ clitbl' = clitbl /\ gsqtbl' = gsqtbl /\ heap' = heap
    BY <1>3 DEF UnlockAllEnd, Idle, NoWalk
  <2>2. /\ walk.gsid \in Gsids
        /\ \E k \in 1..(Len(c) + 1) :
             /\ walk.pcl = IF k = Len(c) + 1 THEN Null ELSE c[k]
             /\ \A i \in 1..Len(c) : heap[c[i]].gsid = walk.gsid => k <= i
    BY <2>1 DEF ListInv, WalkOK
  <2>3. /\ Len(c) \in Nat /\ \A i \in 1..Len(c) : c[i] \in Cells
        /\ \A p \in DOMAIN heap : Slot(heap[p].gsid) = Slot(walk.gsid) => \E i \in 1..Len(c) : c[i] = p
    BY <1>1, <2>2, Places, InList
  <2> HIDE DEF c
  <2>4. PICK k \in 1..(Len(c) + 1) :
             /\ walk.pcl = IF k = Len(c) + 1 THEN Null ELSE c[k]
             /\ \A i \in 1..Len(c) : heap[c[i]].gsid = walk.gsid => k <= i
    BY <2>2
  <2>5. k = Len(c) + 1
    <3>1. k # Len(c) + 1 => k \in 1..Len(c)
      BY <2>3
    <3> QED BY <2>1, <2>3, <2>4, <3>1 DEF Cells, Null
  <2>6. \A p \in DOMAIN heap : heap[p].gsid # walk.gsid
    BY <2>3, <2>4, <2>5
  <2>7. \A d \in Chars : Q(d)' = Q(d)
    BY <2>1 DEF Q
  <2>8. \A d \in Chars : Q(d) # walk.gsid
    <3>1. Answers(clitbl, heap) /\ 0 \notin Gsids
      BY <1>1, AnswersAre, ListAssumption
    <3> QED BY <2>2, <2>6, <3>1 DEF Answers, Q
  <2> HIDE DEF Q
  <2>9. \A d \in Chars : (IF Q(d)' = walk'.gsid THEN 0 ELSE Q(d)') = IF Q(d) = walk.gsid THEN 0 ELSE Q(d)
    BY <2>1, <2>7, <2>8
  <2> QED BY <2>9, OwnersAre
<1> QED BY <1>2, <1>3

\* The cells implement the promised table: every call of cl_lock_char, cl_unlock_char and
\* cl_unlock_all_char_by_gsid changes the answers of cl_query_charlock_status as CharLock says,
\* and the steps of the loop change none.
THEOREM Implements == Spec => ImplementsCharLock
<1>1. Init => Abs!LockInit
  <2> SUFFICES ASSUME Init PROVE Abs!LockInit
    OBVIOUS
  <2>1. ListInv /\ heap = <<>> /\ DOMAIN heap = {} /\ Idle
    BY InitOK DEF Init, Idle
  <2>2. Answers(clitbl, heap)
    BY <2>1, AnswersAre DEF ListInv
  <2>3. \A c \in Chars : Q(c) = 0
    BY <2>1, <2>2 DEF Answers, Q
  <2> HIDE DEF Q
  <2> QED BY <2>1, <2>3, IdleOwners DEF Abs!LockInit, Abs!NoGs
<1>2. ListInv /\ ListInv' /\ [Next]_vars => [Abs!LockNext]_Owners /\ [~Idle => UNCHANGED Owners]_vars
  <2> SUFFICES ASSUME ListInv, ListInv', [Next]_vars
               PROVE  [Abs!LockNext]_Owners /\ [~Idle => UNCHANGED Owners]_vars
    OBVIOUS
  <2>1. ASSUME NEW g \in Gsids, UnlockAllBegin(g) PROVE Abs!LockNext /\ Idle
    BY <2>1, BeginRefines DEF Abs!LockNext, UnlockAllBegin
  <2>2. ASSUME NEW g \in Gsids, NEW c \in Chars, cl_lock_char(c, g) PROVE Abs!LockNext /\ Idle
    BY <2>2, LockRefines DEF Abs!LockNext, cl_lock_char
  <2>3. ASSUME NEW g \in Gsids, NEW c \in Chars, cl_unlock_char(c, g) PROVE Abs!LockNext /\ Idle
    BY <2>3, UnlockRefines DEF Abs!LockNext, cl_unlock_char
  <2>4. CASE UnlockAllIterate \/ UnlockAllEnd
    BY <2>4, LoopUnseen
  <2>5. CASE UNCHANGED vars
    <3>1. \A c \in Chars : Q(c)' = Q(c)
      BY <2>5 DEF Q, vars
    <3>2. walk' = walk
      BY <2>5 DEF vars
    <3> HIDE DEF Q
    <3>3. UNCHANGED Owners
      BY <3>1, <3>2, OwnersAre
    <3> QED BY <2>5, <3>3
  <2> QED BY <2>1, <2>2, <2>3, <2>4, <2>5 DEF Next
<1> QED BY <1>1, <1>2, ListInvHolds, PTL DEF Spec, ImplementsCharLock, Abs!LockSpec

-----------------------------------------------------------------------------
(***************************************************************************)
(* Games.  The inductive invariant.  It is about a state s, since a        *)
(* request goes through several operations.  Reports(s, W) is apart from   *)
(* StateOK because it does not hold, for the player who leaves, between    *)
(* his report and his leaving.                                             *)
(***************************************************************************)
Statuses == {"open", "full", "loaded", "started", "done"}
SeatRec == [acc : Players, here : BOOLEAN, report : Seq(Results)]
Tells == {<<>>} \cup UNION {[S -> Results] : S \in SUBSET Players}
GameRec == [name : GameNames \cup {Nobody}, ladder : BOOLEAN, status : Statuses,
            seats : Seq(SeatRec), ref : Nat, owner : Players \cup {Nobody},
            starters : SUBSET Players, told : [Players -> Tells], clean : BOOLEAN]
Given == [seat : Nat, acc : Players, result : Results]
EndRec == [clean : BOOLEAN, ladder : BOOLEAN, starters : SUBSET Players,
           told : {<<>>} \cup [Players -> Tells], given : SUBSET Given]
StateRec == [games : [Games -> GameRec], list : Seq(Games),
             game : [Players -> Games \cup {NotInGame}], ended : EndRec]

\* The seats with a player on them.
On(G) == {i \in DOMAIN G.seats : G.seats[i].here}

\* What is known of a game that nobody has joined after its start, and where no
\* account has two seats: the reports are what was told.
CleanOK(G) ==
  /\ \A i, j \in DOMAIN G.seats : G.seats[i].acc = G.seats[j].acc => i = j
  /\ G.starters = {} => \A i \in DOMAIN G.seats : G.seats[i].report = <<>>
  /\ G.starters = {} => \A v \in Players : G.told[v] = <<>>
  /\ G.starters # {} => \A i \in On(G) : G.seats[i].acc \in G.starters
  /\ \A v \in G.starters : \E i \in DOMAIN G.seats : G.seats[i].acc = v
  /\ \A j \in DOMAIN G.seats : G.seats[j].report # <<>> =>
       /\ G.seats[j].acc \in G.starters
       /\ G.told[G.seats[j].acc] \in [G.starters -> Results]
       /\ \A i \in DOMAIN G.seats :
            G.seats[j].report[i] = IF G.seats[i].acc \in G.starters
                                   THEN G.told[G.seats[j].acc][G.seats[i].acc] ELSE "none"
  /\ \A v \in G.starters : G.told[v] # <<>> =>
       \E j \in DOMAIN G.seats : G.seats[j].acc = v /\ G.seats[j].report # <<>>

\* The count, the seats, the owner, and that a report has a result for each seat.
SeatsOK(G) ==
  /\ G.ref = Cardinality(On(G))
  /\ \A i, j \in On(G) : G.seats[i].acc = G.seats[j].acc => i = j
  /\ G.seats # <<>> => \E i \in On(G) : G.owner = G.seats[i].acc /\ \A j \in On(G) : i <= j
  /\ \A i \in DOMAIN G.seats : G.seats[i].report # <<>> => Len(G.seats[i].report) = Len(G.seats)

GameOK(G) ==
  /\ G \in GameRec
  /\ SeatsOK(G)
  /\ G.status = "started" => G.starters # {}
  /\ G.clean => CleanOK(G)

\* A seat is that of a player who is in the game.
Seating(s) ==
  /\ \A g \in Games : \A i \in On(s.games[g]) : s.game[s.games[g].seats[i].acc] = g
  /\ \A u \in Players : s.game[u] # NotInGame =>
       \E i \in On(s.games[s.game[u]]) : s.games[s.game[u]].seats[i].acc = u

\* The same as ResultsAreReported, of the game that has ended.
EndOK(e) ==
  LET Said(p) == {e.told[v][p] : v \in {w \in e.starters : e.told[w] # <<>>}} \ {"none"}
      Lost(p) == IF e.ladder /\ "disconnect" \in Said(p) THEN {"loss"} ELSE {}
  IN  e.clean =>
        /\ \A a, b \in e.given : a.acc = b.acc => a = b
        /\ {a.acc : a \in e.given} \subseteq e.starters
        /\ \A a \in e.given : a.result \in Said(a.acc) \cup Lost(a.acc)
        /\ e.given = {} \/ \A p \in e.starters : Said(p) # {} => \E a \in e.given : a.acc = p
        /\ e.ladder \/ \A p \in e.starters : Said(p) # {} => e.given # {}

StateOK(s) ==
  /\ s \in StateRec
  /\ IsInjective(s.list) /\ ToSet(s.list) = {g \in Games : s.games[g] # NoGame}
  /\ \A g \in Games : GameOK(s.games[g]) /\ (s.games[g] = NoGame \/ s.games[g].name \in GameNames)
  /\ Seating(s)
  /\ EndOK(s.ended)

\* Who is on a seat with a report, is one of W.
Reports(s, W) ==
  \A g \in Games : \A i \in On(s.games[g]) :
    s.games[g].seats[i].report # <<>> => s.games[g].seats[i].acc \in W

InTheRoom(s) == \A g \in Games : Len(s.games[g].seats) <= MaxSeats

GameInv == StateOK(gs) /\ Reports(gs, {}) /\ InTheRoom(gs)

-----------------------------------------------------------------------------
\* Lemmas about a game.

\* A seat that somebody is on is that player's.
LEMMA SeatedHere ==
  ASSUME NEW s, Seating(s), NEW g \in Games, NEW i \in On(s.games[g])
  PROVE  s.game[s.games[g].seats[i].acc] = g
BY Zenon DEF Seating

\* A game has the fields that Created gives it.
LEMMA NewGame ==
  ASSUME NEW name \in GameNames \cup {Nobody}, NEW ladder \in BOOLEAN
  PROVE  GameOK(Created(name, ladder)) /\ On(Created(name, ladder)) = {}
<1> DEFINE G == Created(name, ladder)
<1>1. /\ G.name = name /\ G.ladder = ladder /\ G.status = "open" /\ G.seats = <<>> /\ G.ref = 0
      /\ G.owner = Nobody /\ G.starters = {} /\ G.told = [u \in Players |-> <<>>] /\ G.clean = TRUE
  BY DEF Created
<1>2. G.seats \in Seq(SeatRec) /\ DOMAIN G.seats = {}
  BY <1>1
<1>3. G.told \in [Players -> Tells]
  BY <1>1 DEF Tells
<1>4. G \in GameRec
  BY <1>1, <1>2, <1>3 DEF GameRec, Statuses, Created
<1> HIDE DEF G
<1>5. On(G) = {}
  BY <1>2 DEF On
<1>6. SeatsOK(G)
  BY <1>1, <1>2, <1>5, FS_EmptySet DEF SeatsOK
<1>7. CleanOK(G)
  BY <1>1, <1>2, <1>5 DEF CleanOK
<1>8. GameOK(G)
  BY <1>1, <1>4, <1>6, <1>7 DEF GameOK
<1> QED BY <1>5, <1>8 DEF G

\* The seats are finitely many.
LEMMA OnFinite ==
  ASSUME NEW G \in GameRec
  PROVE  /\ IsFiniteSet(On(G)) /\ Cardinality(On(G)) \in Nat /\ Cardinality(On(G)) <= Len(G.seats)
         /\ DOMAIN G.seats = 1..Len(G.seats) /\ Len(G.seats) \in Nat
         /\ IsFiniteSet(DOMAIN G.seats)
         /\ \A i \in DOMAIN G.seats : G.seats[i] \in SeatRec
         /\ On(G) \subseteq DOMAIN G.seats
<1>1. G.seats \in Seq(SeatRec)
  BY DEF GameRec
<1>2. DOMAIN G.seats = 1..Len(G.seats) /\ Len(G.seats) \in Nat /\ \A i \in DOMAIN G.seats : G.seats[i] \in SeatRec
  BY <1>1
<1>3. IsFiniteSet(1..Len(G.seats)) /\ Cardinality(1..Len(G.seats)) = Len(G.seats)
  <2> DEFINE n == Len(G.seats)
  <2>1. n \in Nat
    BY <1>2
  <2> HIDE DEF n
  <2>2. IsFiniteSet(1..n) /\ Cardinality(1..n) = n
    BY <2>1, IntervalSize
  <2> QED BY <2>2 DEF n
<1>4. On(G) \subseteq 1..Len(G.seats)
  BY <1>2 DEF On
<1>5. IsFiniteSet(On(G)) /\ Cardinality(On(G)) \in Nat /\ Cardinality(On(G)) <= Len(G.seats)
  BY <1>3, <1>4, FS_Subset, FS_CardinalityType
<1> QED BY <1>2, <1>3, <1>4, <1>5

\* The seat that game_choose_host takes is the first one with a player on it.
LEMMA HostChosen ==
  ASSUME NEW s, NEW g, s.games[g] \in GameRec, On(s.games[g]) # {}
  PROVE  \E i \in On(s.games[g]) :
           /\ \A j \in On(s.games[g]) : i <= j
           /\ game_choose_host(s, g) = [s EXCEPT !.games[g].owner = s.games[g].seats[i].acc]
<1> DEFINE G == s.games[g]
           I == {i \in 1..Len(G.seats) : G.seats[i].here}
<1>0. DOMAIN G.seats = 1..Len(G.seats) /\ Len(G.seats) \in Nat
  BY OnFinite
<1>1. On(G) = I /\ I \subseteq Nat
  BY <1>0, SMTT(40) DEF On
<1>2. Min(I) \in I /\ \A j \in I : Min(I) <= j
  BY <1>1, MinIn
<1>3. Min(I) # 0
  <2>1. \A n \in 1..Len(G.seats) : n # 0
    BY <1>0
  <2>2. I \subseteq 1..Len(G.seats)
    BY Zenon
  <2> HIDE DEF G, I
  <2> QED BY <1>2, <2>1, <2>2, Zenon
<1>4. SelectInSeq(G.seats, LAMBDA x : x.here) = Min(I)
  BY <1>1 DEF SelectInSeq
<1>5. game_choose_host(s, g) = [s EXCEPT !.games[g].owner = G.seats[Min(I)].acc]
  BY <1>3, <1>4, Zenon DEF game_choose_host
<1> QED BY <1>1, <1>2, <1>5, Zenon

\* The seat that game_add_player takes has nobody on it; all are taken if it is new.
LEMMA FreeSeatIs ==
  ASSUME NEW G \in GameRec
  PROVE  LET at == FreeSeat(G.seats)
         IN  /\ at \in 1..(Len(G.seats) + 1) /\ at \notin On(G)
             /\ at = Len(G.seats) + 1 => On(G) = DOMAIN G.seats
<1> DEFINE I == {i \in 1..Len(G.seats) : ~G.seats[i].here}
<1>1. DOMAIN G.seats = 1..Len(G.seats) /\ Len(G.seats) \in Nat /\ I \subseteq Nat
  BY OnFinite
<1>2. CASE I = {}
  <2>1. FreeSeat(G.seats) = Len(G.seats) + 1
    BY <1>2 DEF FreeSeat, SelectInSeq
  <2>2. On(G) = DOMAIN G.seats
    BY <1>1, <1>2 DEF On
  <2> QED BY <1>1, <2>1, <2>2
<1>3. CASE I # {}
  <2>1. Min(I) \in I
    BY <1>1, <1>3, MinIn
  <2>2. SelectInSeq(G.seats, LAMBDA x : ~x.here) = Min(I)
    BY <1>3 DEF SelectInSeq
  <2>3. Min(I) \in 1..Len(G.seats) /\ ~G.seats[Min(I)].here
    BY <2>1
  <2>4. FreeSeat(G.seats) = Min(I)
    BY <1>1, <2>2, <2>3 DEF FreeSeat
  <2> HIDE DEF I
  <2> QED BY <1>1, <2>3, <2>4 DEF On
<1> QED BY <1>2, <1>3

\* A player takes the free seat, as in game_add_player.
Takes(G, u, at, H) ==
  /\ \A i \in On(G) : G.seats[i].acc # u /\ G.seats[i].report = <<>>
  /\ at = FreeSeat(G.seats)
  /\ H \in GameRec
  /\ H.seats = IF at > Len(G.seats) THEN Append(G.seats, Seat(u)) ELSE [G.seats EXCEPT ![at] = Seat(u)]
  /\ H.ref = G.ref + 1 /\ H.status = G.status /\ H.starters = G.starters
  /\ H.clean => /\ G.clean /\ G.starters = {}
                /\ u \notin {G.seats[i].acc : i \in DOMAIN G.seats \ {at}}
  /\ G.starters = {} => H.told = G.told
  /\ \E i \in On(H) : H.owner = H.seats[i].acc /\ \A j \in On(H) : i <= j

\* The game is as it should be, with one player more.
LEMMA SeatTaken ==
  ASSUME NEW G, GameOK(G), NEW u \in Players, NEW at, NEW H, Takes(G, u, at, H)
  PROVE  /\ GameOK(H) /\ On(H) # {}
         /\ \A i \in On(H) : H.seats[i].report = <<>>
         /\ \A i \in On(H) : H.seats[i].acc = u \/ \E j \in On(G) : G.seats[j].acc = H.seats[i].acc
         /\ \A j \in On(G) : \E i \in On(H) : G.seats[j].acc = H.seats[i].acc
         /\ \E i \in On(H) : H.seats[i].acc = u
<1>0. /\ \A i \in On(G) : G.seats[i].acc # u /\ G.seats[i].report = <<>>
      /\ at = FreeSeat(G.seats)
      /\ H \in GameRec
      /\ H.seats = IF at > Len(G.seats) THEN Append(G.seats, Seat(u)) ELSE [G.seats EXCEPT ![at] = Seat(u)]
      /\ H.ref = G.ref + 1 /\ H.status = G.status /\ H.starters = G.starters
      /\ H.clean => /\ G.clean /\ G.starters = {}
                    /\ u \notin {G.seats[i].acc : i \in DOMAIN G.seats \ {at}}
      /\ G.starters = {} => H.told = G.told
      /\ \E i \in On(H) : H.owner = H.seats[i].acc /\ \A j \in On(H) : i <= j
  BY DEF Takes
<1>1. G \in GameRec /\ SeatsOK(G)
  BY DEF GameOK
<1>2. /\ at \in 1..(Len(G.seats) + 1) /\ at \notin On(G)
      /\ at = Len(G.seats) + 1 => On(G) = DOMAIN G.seats
  BY <1>0, <1>1, FreeSeatIs
<1>3. /\ G.seats \in Seq(SeatRec) /\ DOMAIN G.seats = 1..Len(G.seats) /\ Len(G.seats) \in Nat
      /\ IsFiniteSet(On(G)) /\ On(G) \subseteq DOMAIN G.seats
  BY <1>0, <1>1, OnFinite DEF GameRec
<1>4. /\ Seat(u) \in SeatRec /\ Seat(u).acc = u /\ Seat(u).here = TRUE /\ Seat(u).report = <<>>
  <2>1. <<>> \in Seq(Results)
    OBVIOUS
  <2> QED BY <1>0, <2>1 DEF Seat, SeatRec
<1>5. /\ Len(H.seats) = IF at > Len(G.seats) THEN Len(G.seats) + 1 ELSE Len(G.seats)
      /\ DOMAIN H.seats = DOMAIN G.seats \cup {at}
      /\ H.seats[at] = Seat(u)
      /\ \A i \in DOMAIN H.seats : i # at => i \in DOMAIN G.seats /\ H.seats[i] = G.seats[i]
  <2>1. CASE at > Len(G.seats)
    <3>1. H.seats = Append(G.seats, Seat(u)) /\ at = Len(G.seats) + 1
      BY <1>0, <1>2, <1>3, <2>1
    <3> QED BY <1>0, <1>3, <1>4, <2>1, <3>1
  <2>2. CASE ~(at > Len(G.seats))
    <3>1. H.seats = [G.seats EXCEPT ![at] = Seat(u)] /\ at \in DOMAIN G.seats
      BY <1>0, <1>2, <1>3, <2>2
    <3>2. Len(H.seats) = Len(G.seats)
      BY <1>0, <1>3, <3>1
    <3> QED BY <1>0, <1>3, <2>2, <3>1, <3>2
  <2> QED BY <1>0, <2>1, <2>2
<1>6. On(H) = On(G) \cup {at}
  BY <1>0, <1>3, <1>4, <1>5, <1>2 DEF On
<1>7. H.ref = Cardinality(On(H))
  <2>1. Cardinality(On(H)) = Cardinality(On(G)) + 1
    <3>1. Cardinality(On(G) \cup {at}) = Cardinality(On(G)) + 1
      BY <1>0, <1>2, <1>3, FS_AddElement
    <3> QED BY <1>0, <1>6, <3>1
  <2> QED BY <1>0, <1>1, <2>1 DEF SeatsOK
<1>8. \A i \in On(H) : i = at \/ (i \in On(G) /\ H.seats[i] = G.seats[i])
  BY <1>0, <1>3, <1>5, <1>6
<1>9. at \in On(H) /\ H.seats[at].acc = u
  BY <1>0, <1>4, <1>5, <1>6
<1>10. \A i, j \in On(H) : H.seats[i].acc = H.seats[j].acc => i = j
  <2>1. \A i \in On(H) : i = at \/ H.seats[i].acc # u
    BY <1>0, <1>8
  <2>2. \A i, j \in On(G) : G.seats[i].acc = G.seats[j].acc => i = j
    BY <1>0, <1>1 DEF SeatsOK
  <2>3. \A i, j \in On(H) : i # at /\ j # at /\ H.seats[i].acc = H.seats[j].acc => i = j
    <3> TAKE i, j \in On(H)
    <3> SUFFICES ASSUME i # at, j # at, H.seats[i].acc = H.seats[j].acc PROVE i = j
      OBVIOUS
    <3>1. i \in On(G) /\ H.seats[i] = G.seats[i] /\ j \in On(G) /\ H.seats[j] = G.seats[j]
      BY <1>0, <1>8
    <3>2. G.seats[i].acc = G.seats[j].acc
      BY <1>0, <3>1
    <3> QED BY <1>0, <2>2, <3>1, <3>2
  <2> QED BY <1>0, <1>9, <2>1, <2>3, ZenonT(60)
<1>11. \A i \in DOMAIN H.seats : H.seats[i].report # <<>> => Len(H.seats[i].report) = Len(H.seats)
  <2> SUFFICES ASSUME NEW i \in DOMAIN H.seats, H.seats[i].report # <<>>
               PROVE  Len(H.seats[i].report) = Len(H.seats)
    OBVIOUS
  <2>1. i # at
    BY <1>0, <1>4, <1>5
  <2>2. i \in DOMAIN G.seats /\ H.seats[i] = G.seats[i]
    BY <1>0, <1>5, <2>1
  <2>3. i \notin On(G)
    BY <1>0, <2>2
  <2>4. Len(H.seats) = Len(G.seats)
    BY <1>0, <1>2, <1>3, <1>5, <2>2, <2>3
  <2>5. Len(G.seats[i].report) = Len(G.seats)
    BY <1>0, <1>1, <2>2, SMTT(40) DEF SeatsOK
  <2> QED BY <1>0, <2>2, <2>4, <2>5
<1>12. SeatsOK(H)
  BY <1>0, <1>7, <1>10, <1>11 DEF SeatsOK
<1>13. ASSUME H.clean PROVE CleanOK(H)
  <2>1. CleanOK(G) /\ G.starters = {} /\ H.starters = {} /\ H.told = G.told
    BY <1>0, <1>13 DEF GameOK
  <2>2. \A i \in DOMAIN G.seats \ {at} : G.seats[i].acc # u
    BY <1>0, <1>13
  <2>3. \A i, j \in DOMAIN H.seats : H.seats[i].acc = H.seats[j].acc => i = j
    BY <1>0, <1>5, <1>9, <2>1, <2>2, SMTT(40) DEF CleanOK
  <2>4. \A i \in DOMAIN H.seats : H.seats[i].report = <<>>
    BY <1>0, <1>4, <1>5, <2>1 DEF CleanOK
  <2> QED BY <1>0, <2>1, <2>3, <2>4 DEF CleanOK
<1>14. GameOK(H)
  BY <1>0, <1>12, <1>13 DEF GameOK
<1>15. \A i \in On(H) : H.seats[i].report = <<>>
  BY <1>0, <1>4, <1>5, <1>8, ZenonT(60)
<1>16. \A j \in On(G) : j \in On(H) /\ H.seats[j] = G.seats[j]
  BY <1>0, <1>2, <1>3, <1>5, <1>6
<1> QED BY <1>0, <1>8, <1>9, <1>14, <1>15, <1>16

\* A player has left the seat at, which is kept, and the owner is chosen anew.
Leaves(G, at, H) ==
  /\ G.ref >= 2 /\ H \in GameRec
  /\ DOMAIN H.seats = DOMAIN G.seats
  /\ \A i \in DOMAIN G.seats : /\ H.seats[i].acc = G.seats[i].acc
                               /\ H.seats[i].report = G.seats[i].report
                               /\ H.seats[i].here <=> (i # at /\ G.seats[i].here)
  /\ H.ref = G.ref - 1 /\ H.status = G.status /\ H.starters = G.starters
  /\ H.clean = G.clean /\ H.told = G.told
  /\ On(H) # {} => \E i \in On(H) : H.owner = H.seats[i].acc /\ \A j \in On(H) : i <= j

\* The game is as it should be, with one player less.
LEMMA SeatLeft ==
  ASSUME NEW G, GameOK(G), NEW at \in On(G), NEW H, Leaves(G, at, H)
  PROVE  /\ GameOK(H) /\ On(H) = On(G) \ {at} /\ On(H) # {}
         /\ \A i \in DOMAIN H.seats : i \in DOMAIN G.seats /\ H.seats[i].acc = G.seats[i].acc
         /\ \A i \in DOMAIN H.seats : H.seats[i].report = G.seats[i].report
<1>0. /\ G.ref >= 2 /\ H \in GameRec
      /\ DOMAIN H.seats = DOMAIN G.seats
      /\ \A i \in DOMAIN G.seats : /\ H.seats[i].acc = G.seats[i].acc
                                   /\ H.seats[i].report = G.seats[i].report
                                   /\ H.seats[i].here <=> (i # at /\ G.seats[i].here)
      /\ H.ref = G.ref - 1 /\ H.status = G.status /\ H.starters = G.starters
      /\ H.clean = G.clean /\ H.told = G.told
      /\ On(H) # {} => \E i \in On(H) : H.owner = H.seats[i].acc /\ \A j \in On(H) : i <= j
  BY DEF Leaves
<1>1. G \in GameRec /\ SeatsOK(G)
  BY DEF GameOK
<1>2. /\ G.seats \in Seq(SeatRec) /\ DOMAIN G.seats = 1..Len(G.seats) /\ Len(G.seats) \in Nat
      /\ IsFiniteSet(On(G)) /\ On(G) \subseteq DOMAIN G.seats /\ at \in DOMAIN G.seats
      /\ \A i \in DOMAIN G.seats : G.seats[i] \in SeatRec
  BY <1>0, <1>1, OnFinite DEF GameRec
<1>3. /\ Len(H.seats) = Len(G.seats) /\ DOMAIN H.seats = DOMAIN G.seats
      /\ \A i \in DOMAIN H.seats :
            /\ H.seats[i].acc = G.seats[i].acc /\ H.seats[i].report = G.seats[i].report
            /\ H.seats[i].here <=> (i # at /\ G.seats[i].here)
  <2>1. DOMAIN H.seats = 1..Len(H.seats) /\ Len(H.seats) \in Nat
    BY <1>0, OnFinite
  <2>2. Len(H.seats) = Len(G.seats)
    BY <1>0, <1>2, <2>1
  <2> QED BY <1>0, <2>2
<1>4. On(H) = On(G) \ {at}
  BY <1>0, <1>3 DEF On
<1>5. G.ref = Cardinality(On(G))
  BY <1>0, <1>1 DEF SeatsOK
<1>6. H.ref = Cardinality(On(H))
  BY <1>0, <1>2, <1>4, <1>5, FS_RemoveElement, ZenonT(60)
<1>7. On(H) # {}
  <2>1. H.ref # 0
    BY <1>0, <1>1 DEF GameRec
  <2> QED BY <1>0, <1>6, <2>1, FS_EmptySet
<1>8. \A i, j \in On(H) : H.seats[i].acc = H.seats[j].acc => i = j
  BY <1>0, <1>1, <1>2, <1>3, <1>4 DEF SeatsOK
<1>9. \A i \in DOMAIN H.seats : H.seats[i].report # <<>> => Len(H.seats[i].report) = Len(H.seats)
  BY <1>0, <1>1, <1>3 DEF SeatsOK
<1>10. SeatsOK(H)
  BY <1>0, <1>6, <1>7, <1>8, <1>9 DEF SeatsOK
<1>11. ASSUME H.clean PROVE CleanOK(H)
  <2>1. CleanOK(G)
    BY <1>0, <1>11 DEF GameOK
  <2>2. \A i, j \in DOMAIN H.seats : H.seats[i].acc = H.seats[j].acc => i = j
    BY <1>0, <1>3, <2>1 DEF CleanOK
  <2>3. H.starters = {} => \A i \in DOMAIN H.seats : H.seats[i].report = <<>>
    BY <1>0, <1>3, <2>1 DEF CleanOK
  <2>4. H.starters # {} => \A i \in On(H) : H.seats[i].acc \in H.starters
    BY <1>0, <1>2, <1>3, <1>4, <2>1, ZenonT(60) DEF CleanOK
  <2>5. \A v \in H.starters : \E i \in DOMAIN H.seats : H.seats[i].acc = v
    BY <1>0, <1>3, <2>1, SMTT(40) DEF CleanOK
  <2>6. \A j \in DOMAIN H.seats : H.seats[j].report # <<>> =>
       /\ H.seats[j].acc \in H.starters
       /\ H.told[H.seats[j].acc] \in [H.starters -> Results]
       /\ \A i \in DOMAIN H.seats :
            H.seats[j].report[i] = IF H.seats[i].acc \in H.starters
                                   THEN H.told[H.seats[j].acc][H.seats[i].acc] ELSE "none"
    <3>1. /\ DOMAIN H.seats = DOMAIN G.seats
          /\ \A i \in DOMAIN H.seats : H.seats[i].acc = G.seats[i].acc /\ H.seats[i].report = G.seats[i].report
      BY <1>0, <1>3
    <3> QED BY <1>0, <2>1, <3>1, SMTT(40) DEF CleanOK
  <2>7. \A v \in H.starters : H.told[v] # <<>> =>
       \E j \in DOMAIN H.seats : H.seats[j].acc = v /\ H.seats[j].report # <<>>
    BY <1>0, <1>3, <2>1, SMTT(40) DEF CleanOK
  <2>8. H.starters = {} => \A v \in Players : H.told[v] = <<>>
    BY <1>0, <2>1 DEF CleanOK
  <2> QED BY <1>0, <2>2, <2>3, <2>4, <2>5, <2>6, <2>7, <2>8 DEF CleanOK
<1>12. GameOK(H)
  BY <1>0, <1>10, <1>11 DEF GameOK
<1> QED BY <1>0, <1>3, <1>4, <1>7, <1>12

\* The status changes, and with the first start those who are there are the starters.
LEMMA StatusSet ==
  ASSUME NEW G, GameOK(G), On(G) # {}, NEW H \in GameRec,
         H.seats = G.seats, H.ref = G.ref, H.clean = G.clean, H.told = G.told, H.owner = G.owner,
         \/ H.starters = G.starters /\ (H.status = "started" => G.starters # {})
         \/ G.starters = {} /\ H.starters = Here(G.seats)
  PROVE  GameOK(H) /\ On(H) = On(G)
<1>1. On(H) = On(G)
  BY DEF On
<1>2. SeatsOK(H)
  BY <1>1 DEF GameOK, SeatsOK
<1>3. Here(G.seats) = {G.seats[i].acc : i \in On(G)} /\ Here(G.seats) # {}
  BY DEF Here, On
<1>4. H.status = "started" => H.starters # {}
  BY <1>3 DEF GameOK
<1>5. ASSUME H.clean PROVE CleanOK(H)
  <2>1. CleanOK(G)
    BY <1>5, SMTT(40) DEF GameOK
  <2>2. CASE H.starters = G.starters
    BY <1>1, <2>1, <2>2, SMTT(40) DEF CleanOK
  <2>3. CASE G.starters = {} /\ H.starters = Here(G.seats)
    <3>1. \A i \in DOMAIN H.seats : H.seats[i].report = <<>>
      BY <2>1, <2>3 DEF CleanOK
    <3>2. \A v \in H.starters : H.told[v] = <<>>
      <4>1. H.starters \subseteq Players
        BY DEF GameRec
      <4> QED BY <2>1, <2>3, <4>1 DEF CleanOK
    <3>3. \A v \in H.starters : \E i \in DOMAIN H.seats : H.seats[i].acc = v
      BY <1>3, <2>3 DEF On
    <3>4. \A i \in On(H) : H.seats[i].acc \in H.starters
      BY <1>1, <1>3, <2>3
    <3>5. \A i, j \in DOMAIN H.seats : H.seats[i].acc = H.seats[j].acc => i = j
      BY <2>1, SMTT(40) DEF CleanOK
    <3> QED BY <1>3, <2>3, <3>1, <3>2, <3>3, <3>4, <3>5 DEF CleanOK
  <2> QED BY <2>2, <2>3
<1> QED BY <1>1, <1>2, <1>4, <1>5 DEF GameOK

\* A report goes to the first seat of the account, unless that has one.
Agree(G, u, results, told) ==
  /\ results \in [DOMAIN G.seats -> Results] /\ told \in Tells
  /\ G.clean =>
       /\ u \in G.starters /\ told \in [G.starters -> Results]
       /\ \A i \in DOMAIN G.seats :
            results[i] = IF G.seats[i].acc \in G.starters THEN told[G.seats[i].acc] ELSE "none"
Telling(G, u, at, results, told, H) ==
  /\ Agree(G, u, results, told)
  /\ at = FirstSeat(G.seats, u)
  /\ H \in GameRec
  /\ H.seats = [G.seats EXCEPT ![at] = [G.seats[at] EXCEPT !.report = IF @ = <<>> THEN results ELSE @]]
  /\ H.ref = G.ref /\ H.status = G.status /\ H.starters = G.starters /\ H.clean = G.clean /\ H.owner = G.owner
  /\ H.told = [G.told EXCEPT ![u] = IF G.clean THEN told ELSE <<>>]

\* The game is as it should be, with what the player has told.
LEMMA Reported ==
  ASSUME NEW G, GameOK(G), NEW u \in Players, NEW k \in On(G), G.seats[k].acc = u,
         G.seats[k].report = <<>>, NEW results, NEW told,
         NEW at, NEW H, Telling(G, u, at, results, told, H)
  PROVE  /\ GameOK(H) /\ On(H) = On(G)
         /\ \A i \in DOMAIN H.seats : i \in DOMAIN G.seats /\ H.seats[i].acc = G.seats[i].acc
         /\ \A i \in DOMAIN H.seats : H.seats[i].report # <<>> => H.seats[i].report = G.seats[i].report \/ H.seats[i].acc = u
<1>0. /\ results \in [DOMAIN G.seats -> Results] /\ told \in Tells
      /\ G.clean =>
           /\ u \in G.starters /\ told \in [G.starters -> Results]
           /\ \A i \in DOMAIN G.seats :
                results[i] = IF G.seats[i].acc \in G.starters THEN told[G.seats[i].acc] ELSE "none"
      /\ at = FirstSeat(G.seats, u)
      /\ H \in GameRec
      /\ H.seats = [G.seats EXCEPT ![at] = [G.seats[at] EXCEPT !.report = IF @ = <<>> THEN results ELSE @]]
      /\ H.ref = G.ref /\ H.status = G.status /\ H.starters = G.starters /\ H.clean = G.clean /\ H.owner = G.owner
      /\ H.told = [G.told EXCEPT ![u] = IF G.clean THEN told ELSE <<>>]
  BY DEF Telling, Agree
<1>1. G \in GameRec /\ SeatsOK(G)
  BY DEF GameOK
<1>2. /\ G.seats \in Seq(SeatRec) /\ DOMAIN G.seats = 1..Len(G.seats) /\ Len(G.seats) \in Nat
      /\ On(G) \subseteq DOMAIN G.seats /\ k \in DOMAIN G.seats
      /\ \A i \in DOMAIN G.seats : G.seats[i] \in SeatRec
      /\ G.told \in [Players -> Tells]
  BY <1>0, <1>1, OnFinite DEF GameRec
<1>3. at \in DOMAIN G.seats /\ G.seats[at].acc = u
  <2> DEFINE I == {i \in 1..Len(G.seats) : G.seats[i].acc = u}
  <2>1. k \in I /\ I \subseteq Nat
    BY <1>0, <1>2
  <2>2. Min(I) \in I
    BY <1>0, <2>1, MinIn
  <2>3. at = Min(I)
    BY <1>0, <2>1, Zenon DEF FirstSeat, SelectInSeq
  <2>4. at \in 1..Len(G.seats) /\ G.seats[at].acc = u
    BY <1>0, <2>2, <2>3
  <2> QED BY <1>0, <1>2, <2>4
<1>4. results # <<>> /\ results \in Seq(Results) /\ Len(results) = Len(G.seats)
  <2>1. results \in [1..Len(G.seats) -> Results]
    BY <1>0, <1>2
  <2>2. Len(G.seats) # 0
    BY <1>0, <1>2
  <2>3. results \in Seq(Results)
    BY <1>0, <1>2, <2>1, SMTT(40)
  <2>5. Len(results) = Len(G.seats)
    <3>1. DOMAIN results = 1..Len(G.seats)
      BY <1>0, <2>1
    <3> QED BY <1>0, <1>2, <2>3, <3>1
  <2>4. Len(<<>>) = 0
    OBVIOUS
  <2> QED BY <1>0, <2>2, <2>3, <2>4, <2>5
<1> DEFINE new == IF G.seats[at].report = <<>> THEN results ELSE G.seats[at].report
<1>5. /\ Len(H.seats) = Len(G.seats) /\ DOMAIN H.seats = DOMAIN G.seats
      /\ \A i \in DOMAIN H.seats :
            /\ H.seats[i].acc = G.seats[i].acc /\ H.seats[i].here = G.seats[i].here
            /\ H.seats[i].report = IF i = at THEN new ELSE G.seats[i].report
  <2>1. Len(H.seats) = Len(G.seats) /\ DOMAIN H.seats = DOMAIN G.seats
    BY <1>0, <1>2
  <2>2. \A i \in DOMAIN H.seats : H.seats[i] = IF i = at THEN [G.seats[i] EXCEPT !.report = new] ELSE G.seats[i]
    BY <1>0, <1>2, <1>3, <2>1, SMTT(40)
  <2> HIDE DEF new
  <2>3. ASSUME NEW i \in DOMAIN H.seats
        PROVE  /\ H.seats[i].acc = G.seats[i].acc /\ H.seats[i].here = G.seats[i].here
               /\ H.seats[i].report = IF i = at THEN new ELSE G.seats[i].report
    <3>1. G.seats[i] \in SeatRec
      BY <1>0, <1>2, <2>1
    <3>2. CASE i = at
      <4>1. H.seats[i] = [G.seats[i] EXCEPT !.report = new]
        BY <1>0, <2>2, <3>2
      <4> QED BY <1>0, <3>1, <3>2, <4>1 DEF SeatRec
    <3>3. CASE i # at
      BY <1>0, <2>2, <3>3
    <3> QED BY <1>0, <3>2, <3>3
  <2> QED BY <1>0, <2>1, <2>3
<1>6. On(H) = On(G)
  BY <1>0, <1>5 DEF On
<1>7. new # <<>> /\ Len(new) = Len(G.seats)
  BY <1>0, <1>1, <1>3, <1>4, SMTT(40) DEF SeatsOK
<1> HIDE DEF new
<1>8. SeatsOK(H)
  <2>1. H.ref = Cardinality(On(H))
    BY <1>0, <1>1, <1>6 DEF SeatsOK
  <2>2. \A i, j \in On(H) : H.seats[i].acc = H.seats[j].acc => i = j
    BY <1>0, <1>1, <1>2, <1>5, <1>6, SMTT(40) DEF SeatsOK
  <2>3. H.seats # <<>> => \E i \in On(H) : H.owner = H.seats[i].acc /\ \A j \in On(H) : i <= j
    <3>1. G.seats # <<>>
      BY <1>0, <1>2
    <3>2. PICK i \in On(G) : G.owner = G.seats[i].acc /\ \A j \in On(G) : i <= j
      BY <1>0, <1>1, <3>1 DEF SeatsOK
    <3> QED BY <1>0, <1>2, <1>5, <1>6, <3>2, SMTT(40)
  <2>4. \A i \in DOMAIN H.seats : H.seats[i].report # <<>> => Len(H.seats[i].report) = Len(H.seats)
    BY <1>0, <1>1, <1>5, <1>7 DEF SeatsOK
  <2> QED BY <1>0, <2>1, <2>2, <2>3, <2>4 DEF SeatsOK
<1>9. ASSUME H.clean PROVE CleanOK(H)
  <2>1. /\ CleanOK(G) /\ G.clean /\ u \in G.starters /\ told \in [G.starters -> Results]
        /\ \A i \in DOMAIN G.seats :
             results[i] = IF G.seats[i].acc \in G.starters THEN told[G.seats[i].acc] ELSE "none"
    BY <1>0, <1>9 DEF GameOK
  <2>2. H.told = [G.told EXCEPT ![u] = told]
    BY <1>0, <2>1, SMTT(40)
  <2>3. \A i, j \in DOMAIN H.seats : H.seats[i].acc = H.seats[j].acc => i = j
    BY <1>0, <1>5, <2>1, SMTT(40) DEF CleanOK
  <2>4. at = k
    BY <1>0, <1>2, <1>3, <2>1 DEF CleanOK
  <2>5. new = results
    BY <1>0, <2>4 DEF new
  <2>6. H.starters # {}
    BY <1>0, <2>1, SMTT(40)
  <2>7. \A i \in On(H) : H.seats[i].acc \in H.starters
    BY <1>0, <1>2, <1>5, <1>6, <2>1, <2>6, SMTT(40) DEF CleanOK
  <2>8. \A v \in H.starters : \E i \in DOMAIN H.seats : H.seats[i].acc = v
    BY <1>0, <1>5, <2>1 DEF CleanOK
  <2>9. H.told[u] = told /\ \A v \in Players : v # u => H.told[v] = G.told[v]
    BY <1>0, <1>2, <2>2
  <2>10. \A j \in DOMAIN H.seats : H.seats[j].report # <<>> =>
           /\ H.seats[j].acc \in H.starters
           /\ H.told[H.seats[j].acc] \in [H.starters -> Results]
           /\ \A i \in DOMAIN H.seats :
                H.seats[j].report[i] = IF H.seats[i].acc \in H.starters
                                       THEN H.told[H.seats[j].acc][H.seats[i].acc] ELSE "none"
    <3> SUFFICES ASSUME NEW j \in DOMAIN H.seats, H.seats[j].report # <<>>
                 PROVE  /\ H.seats[j].acc \in H.starters
                        /\ H.told[H.seats[j].acc] \in [H.starters -> Results]
                        /\ \A i \in DOMAIN H.seats :
                             H.seats[j].report[i] = IF H.seats[i].acc \in H.starters
                                                    THEN H.told[H.seats[j].acc][H.seats[i].acc] ELSE "none"
      OBVIOUS
    <3>1. CASE j = at
      <4>1. H.seats[j].acc = u /\ H.seats[j].report = results
        BY <1>0, <1>3, <1>5, <2>5, <3>1
      <4>2. H.starters = G.starters /\ DOMAIN H.seats = DOMAIN G.seats /\ H.told[u] = told
        BY <1>0, <1>5, <2>9
      <4>3. \A i \in DOMAIN H.seats : H.seats[i].acc = G.seats[i].acc
        BY <1>5
      <4> QED BY <2>1, <4>1, <4>2, <4>3
    <3>2. CASE j # at
      <4>1. /\ H.seats[j].acc = G.seats[j].acc /\ H.seats[j].report = G.seats[j].report /\ G.seats[j].acc # u
            /\ G.seats[j].acc \in Players
        <5>1. G.seats[j].acc # u
          BY <1>0, <1>3, <1>5, <2>1, <3>2 DEF CleanOK
        <5>2. G.seats[j] \in SeatRec
          BY <1>0, <1>2, <1>5
        <5> QED BY <1>0, <1>5, <3>2, <5>1, <5>2, SMTT(40) DEF SeatRec
      <4>2. /\ G.seats[j].acc \in G.starters
            /\ G.told[G.seats[j].acc] \in [G.starters -> Results]
            /\ \A i \in DOMAIN G.seats :
                 G.seats[j].report[i] = IF G.seats[i].acc \in G.starters
                                        THEN G.told[G.seats[j].acc][G.seats[i].acc] ELSE "none"
        BY <1>0, <1>5, <2>1, <4>1, ZenonT(60) DEF CleanOK
      <4>3. H.told[H.seats[j].acc] = G.told[G.seats[j].acc]
        BY <1>0, <2>9, <4>1
      <4>4. H.seats[j].acc \in H.starters /\ H.told[H.seats[j].acc] \in [H.starters -> Results]
        BY <1>0, <4>1, <4>2, <4>3, Zenon
      <4>5. \A i \in DOMAIN H.seats : i \in DOMAIN G.seats /\ H.seats[i].acc = G.seats[i].acc
        BY <1>0, <1>5
      <4>6. \A i \in DOMAIN H.seats :
              H.seats[j].report[i] = IF H.seats[i].acc \in H.starters
                                     THEN H.told[H.seats[j].acc][H.seats[i].acc] ELSE "none"
        <5> TAKE i \in DOMAIN H.seats
        <5>1. /\ i \in DOMAIN G.seats /\ H.seats[i].acc = G.seats[i].acc
              /\ H.seats[j].report[i] = G.seats[j].report[i]
          BY <1>0, <4>1, <4>5
        <5>2. H.told[H.seats[j].acc][H.seats[i].acc] = G.told[G.seats[j].acc][G.seats[i].acc]
          BY <1>0, <4>3, <5>1
        <5> QED BY <1>0, <4>2, <5>1, <5>2, ZenonT(60)
      <4> QED BY <1>0, <4>4, <4>6, Zenon
    <3> QED BY <1>0, <3>1, <3>2, ZenonT(60)
  <2>11. \A v \in H.starters : H.told[v] # <<>> =>
           \E j \in DOMAIN H.seats : H.seats[j].acc = v /\ H.seats[j].report # <<>>
    <3> SUFFICES ASSUME NEW v \in H.starters, H.told[v] # <<>>
                 PROVE  \E j \in DOMAIN H.seats : H.seats[j].acc = v /\ H.seats[j].report # <<>>
      OBVIOUS
    <3>0. v \in Players
      BY <1>0, <1>1 DEF GameRec
    <3>1. CASE v = u
      BY <1>0, <1>3, <1>5, <1>7, <3>1, SMTT(40)
    <3>2. CASE v # u
      <4>1. G.told[v] # <<>>
        BY <1>0, <2>9, <3>0, <3>2, SMTT(40)
      <4>2. PICK j \in DOMAIN G.seats : G.seats[j].acc = v /\ G.seats[j].report # <<>>
        BY <1>0, <2>1, <4>1 DEF CleanOK
      <4> QED BY <1>0, <1>3, <1>5, <3>2, <4>2
    <3> QED BY <1>0, <3>1, <3>2
  <2> QED BY <1>0, <2>3, <2>6, <2>7, <2>8, <2>10, <2>11, Zenon DEF CleanOK
<1>10. GameOK(H)
  BY <1>0, <1>8, <1>9 DEF GameOK
<1>11. \A i \in DOMAIN H.seats : H.seats[i].report # <<>> => H.seats[i].report = G.seats[i].report \/ H.seats[i].acc = u
  BY <1>0, <1>3, <1>5
<1> QED BY <1>0, <1>5, <1>6, <1>10, <1>11

\* The results of game_report are what the players of the game have said.
LEMMA EndingGame ==
  ASSUME NEW G, GameOK(G)
  PROVE  LET e == [clean |-> G.clean, ladder |-> G.ladder, starters |-> G.starters, told |-> G.told,
                   given |-> game_report(G)]
         IN  e \in EndRec /\ EndOK(e)
<1> DEFINE e == [clean |-> G.clean, ladder |-> G.ladder, starters |-> G.starters, told |-> G.told,
                 given |-> game_report(G)]
           R(i) == game_evaluate_results(G, i)
           all == {x \in {[seat |-> i, acc |-> G.seats[i].acc, result |-> R(i)] : i \in DOMAIN G.seats} :
                     x.result # "none"}
           Sayers(i, r) == {j \in DOMAIN G.seats : G.seats[j].report # <<>> /\ G.seats[j].report[i] = r}
           Said(p) == {G.told[v][p] : v \in {w \in G.starters : G.told[w] # <<>>}} \ {"none"}
           Lost(p) == IF G.ladder /\ "disconnect" \in Said(p) THEN {"loss"} ELSE {}
<1>1. G \in GameRec /\ SeatsOK(G) /\ (G.clean => CleanOK(G))
  BY DEF GameOK
<1>2. /\ DOMAIN G.seats = 1..Len(G.seats) /\ Len(G.seats) \in Nat /\ IsFiniteSet(DOMAIN G.seats)
      /\ \A i \in DOMAIN G.seats : G.seats[i] \in SeatRec
  BY <1>1, OnFinite
<1>3. /\ G.clean \in BOOLEAN /\ G.ladder \in BOOLEAN /\ G.starters \subseteq Players
      /\ G.told \in [Players -> Tells]
  BY <1>1 DEF GameRec
<1>4. ASSUME NEW i \in DOMAIN G.seats, NEW r
      PROVE  /\ Cardinality(Sayers(i, r)) \in Nat
             /\ Cardinality(Sayers(i, r)) # 0 <=> \E j \in DOMAIN G.seats : G.seats[j].report # <<>> /\ G.seats[j].report[i] = r
  <2>1. Sayers(i, r) \subseteq DOMAIN G.seats
    OBVIOUS
  <2>2. IsFiniteSet(Sayers(i, r))
    BY <1>2, <2>1, FS_Subset
  <2>3. Cardinality(Sayers(i, r)) \in Nat /\ (Cardinality(Sayers(i, r)) = 0 <=> Sayers(i, r) = {})
    BY <2>2, FS_CardinalityType, FS_EmptySet
  <2> QED BY <2>3
<1>5. ASSUME NEW i \in DOMAIN G.seats
      PROVE  /\ R(i) \in Results
             /\ R(i) # "none" <=> \E r \in Results \ {"none"} : Cardinality(Sayers(i, r)) # 0
             /\ R(i) # "none" => \/ Cardinality(Sayers(i, R(i))) # 0
                                 \/ G.ladder /\ R(i) = "loss" /\ Cardinality(Sayers(i, "disconnect")) # 0
  <2> DEFINE w == Cardinality(Sayers(i, "win"))
             l == Cardinality(Sayers(i, "loss"))
             d == Cardinality(Sayers(i, "disconnect"))
  <2>1. w \in Nat /\ l \in Nat /\ d \in Nat
    BY <1>4, ZenonT(60)
  <2>2. R(i) = IF w + l + d = 0 THEN "none"
               ELSE IF d >= l /\ d >= w THEN IF G.ladder THEN "loss" ELSE "disconnect"
               ELSE IF l >= w THEN "loss" ELSE "win"
    BY DEF game_evaluate_results
  <2>3. (\E r \in Results \ {"none"} : Cardinality(Sayers(i, r)) # 0) <=> w # 0 \/ l # 0 \/ d # 0
    BY DEF Results
  <2>4. /\ R(i) = "win" => Cardinality(Sayers(i, R(i))) = w
        /\ R(i) = "loss" => Cardinality(Sayers(i, R(i))) = l
        /\ R(i) = "disconnect" => Cardinality(Sayers(i, R(i))) = d
    OBVIOUS
  <2> HIDE DEF R, w, l, d
  <2>5. R(i) \in Results
    BY <2>2 DEF Results
  <2>6. R(i) # "none" <=> w # 0 \/ l # 0 \/ d # 0
    BY <2>1, <2>2
  <2>7. ASSUME R(i) # "none"
        PROVE  \/ R(i) = "win" /\ w # 0
               \/ R(i) = "loss" /\ l # 0
               \/ R(i) = "disconnect" /\ d # 0
               \/ G.ladder /\ R(i) = "loss" /\ d # 0
    <3>1. ~(w + l + d = 0)
      BY <2>2, <2>7
    <3>2. CASE d >= l /\ d >= w
      <4>1. d # 0
        BY <2>1, <3>1, <3>2
      <4> QED BY <2>2, <3>1, <3>2, <4>1
    <3>3. CASE ~(d >= l /\ d >= w) /\ l >= w
      <4>1. l # 0
        BY <2>1, <3>1, <3>3
      <4>2. R(i) = "loss"
        BY <2>2, <3>1, <3>3
      <4> QED BY <4>1, <4>2
    <3>4. CASE ~(d >= l /\ d >= w) /\ ~(l >= w)
      <4>1. w # 0
        BY <2>1, <3>1, <3>4
      <4>2. R(i) = "win"
        BY <2>2, <3>1, <3>4
      <4> QED BY <4>1, <4>2
    <3> QED BY <3>2, <3>3, <3>4
  <2> QED BY <2>3, <2>4, <2>5, <2>6, <2>7 DEF d
<1>6. game_report(G) = all \/ (G.ladder /\ game_report(G) = {})
  BY DEF game_report
<1> HIDE DEF R
<1>7. all \subseteq Given
  <2> SUFFICES ASSUME NEW i \in DOMAIN G.seats
               PROVE  [seat |-> i, acc |-> G.seats[i].acc, result |-> R(i)] \in Given
    OBVIOUS
  <2>1. i \in Nat /\ G.seats[i].acc \in Players /\ R(i) \in Results
    <3>1. i \in Nat
      BY <1>2
    <3>2. G.seats[i] \in SeatRec
      BY <1>2
    <3> QED BY <1>5, <3>1, <3>2 DEF SeatRec
  <2> QED BY <2>1 DEF Given
<1>8. e \in EndRec
  <2>1. game_report(G) \in SUBSET Given
    BY <1>6, <1>7
  <2> HIDE DEF all
  <2> QED BY <1>3, <2>1 DEF EndRec
<1>9. \A a \in all : \E i \in DOMAIN G.seats : a.acc = G.seats[i].acc /\ a.result = R(i) /\ a.seat = i /\ R(i) # "none"
  OBVIOUS
<1>10. \A i \in DOMAIN G.seats : R(i) # "none" => \E a \in all : a.acc = G.seats[i].acc
  <2> TAKE i \in DOMAIN G.seats
  <2> HAVE R(i) # "none"
  <2> WITNESS [seat |-> i, acc |-> G.seats[i].acc, result |-> R(i)] \in all
  <2> QED OBVIOUS
<1>11. all \subseteq {[seat |-> i, acc |-> G.seats[i].acc, result |-> R(i)] : i \in DOMAIN G.seats}
  OBVIOUS
<1> HIDE DEF all, Sayers
<1>12. ASSUME G.clean
       PROVE  /\ \A a, b \in all : a.acc = b.acc => a = b
              /\ \A a \in all : a.acc \in G.starters /\ a.result \in Said(a.acc) \cup Lost(a.acc)
              /\ \A p \in G.starters : Said(p) # {} => \E a \in all : a.acc = p
  <2>1. CleanOK(G)
    BY <1>1, <1>12
  <2>2. ASSUME NEW a \in all, NEW b \in all, a.acc = b.acc PROVE a = b
    <3>1. PICK i \in DOMAIN G.seats : a = [seat |-> i, acc |-> G.seats[i].acc, result |-> R(i)]
      BY <1>11
    <3>2. PICK j \in DOMAIN G.seats : b = [seat |-> j, acc |-> G.seats[j].acc, result |-> R(j)]
      BY <1>11
    <3>3. i = j
      BY <2>1, <2>2, <3>1, <3>2 DEF CleanOK
    <3> QED BY <3>1, <3>2, <3>3
  <2>3. ASSUME NEW i \in DOMAIN G.seats, NEW r \in Results \ {"none"}, Cardinality(Sayers(i, r)) # 0
        PROVE  G.seats[i].acc \in G.starters /\ r \in Said(G.seats[i].acc)
    <3>1. PICK j \in DOMAIN G.seats : G.seats[j].report # <<>> /\ G.seats[j].report[i] = r
      BY <1>4, <2>3, SMTT(40)
    <3>2. /\ G.seats[j].acc \in G.starters
          /\ G.told[G.seats[j].acc] \in [G.starters -> Results]
          /\ G.seats[j].report[i] = IF G.seats[i].acc \in G.starters
                                    THEN G.told[G.seats[j].acc][G.seats[i].acc] ELSE "none"
      BY <2>1, <3>1, SMTT(40) DEF CleanOK
    <3>3. G.seats[i].acc \in G.starters /\ G.told[G.seats[j].acc][G.seats[i].acc] = r
      BY <3>1, <3>2
    <3>4. G.told[G.seats[j].acc] # <<>>
      BY <3>2, <3>3
    <3> QED BY <3>2, <3>3, <3>4
  <2>4. ASSUME NEW a \in all PROVE a.acc \in G.starters /\ a.result \in Said(a.acc) \cup Lost(a.acc)
    <3>1. PICK i \in DOMAIN G.seats : a.acc = G.seats[i].acc /\ a.result = R(i) /\ R(i) # "none"
      BY <1>9
    <3>2. R(i) \in Results \ {"none"} /\ "disconnect" \in Results \ {"none"}
      BY <1>5, <3>1 DEF Results
    <3>3. CASE Cardinality(Sayers(i, R(i))) # 0
      BY <2>3, <3>1, <3>2, <3>3
    <3>4. CASE G.ladder /\ R(i) = "loss" /\ Cardinality(Sayers(i, "disconnect")) # 0
      <4>1. a.acc \in G.starters /\ "disconnect" \in Said(a.acc)
        BY <2>3, <3>1, <3>2, <3>4
      <4> QED BY <3>1, <3>4, <4>1
    <3> QED BY <1>5, <3>1, <3>3, <3>4
  <2>5. ASSUME NEW p \in G.starters, Said(p) # {} PROVE \E a \in all : a.acc = p
    <3>1. PICK v \in G.starters : G.told[v] # <<>> /\ G.told[v][p] # "none"
      BY <2>5
    <3>2. PICK j \in DOMAIN G.seats : G.seats[j].acc = v /\ G.seats[j].report # <<>>
      BY <2>1, <3>1, SMTT(40) DEF CleanOK
    <3>3. PICK i \in DOMAIN G.seats : G.seats[i].acc = p
      BY <2>1 DEF CleanOK
    <3>4. G.told[v] \in [G.starters -> Results] /\ G.seats[j].report[i] = G.told[v][p]
      BY <2>1, <3>2, <3>3 DEF CleanOK
    <3>5. G.told[v][p] \in Results \ {"none"}
      BY <3>1, <3>4
    <3>6. Cardinality(Sayers(i, G.told[v][p])) # 0
      BY <1>4, <3>2, <3>4
    <3>7. R(i) # "none"
      BY <1>5, <3>5, <3>6
    <3> QED BY <1>10, <3>3, <3>7
  <2> QED BY <2>2, <2>4, <2>5
<1>13. EndOK(e)
  <2>1. /\ e.clean = G.clean /\ e.ladder = G.ladder /\ e.starters = G.starters /\ e.told = G.told
        /\ e.given = all \/ (G.ladder /\ e.given = {})
    BY <1>6
  <2> HIDE DEF e
  <2>2. CASE e.given = all
    <3> DEFINE said(p) == {e.told[v][p] : v \in {w \in e.starters : e.told[w] # <<>>}} \ {"none"}
               lost(p) == IF e.ladder /\ "disconnect" \in said(p) THEN {"loss"} ELSE {}
    <3>1. \A p : said(p) = Said(p) /\ lost(p) = Lost(p)
      BY <2>1
    <3> HIDE DEF said, Said, lost, Lost
    <3>2. e.clean =>
            /\ \A a, b \in e.given : a.acc = b.acc => a = b
            /\ {a.acc : a \in e.given} \subseteq e.starters
            /\ \A a \in e.given : a.result \in said(a.acc) \cup lost(a.acc)
            /\ e.given = {} \/ \A p \in e.starters : said(p) # {} => \E a \in e.given : a.acc = p
            /\ e.ladder \/ \A p \in e.starters : said(p) # {} => e.given # {}
      BY <1>12, <2>1, <2>2, <3>1
    <3> QED BY <3>2 DEF EndOK, said, lost
  <2>3. CASE G.ladder /\ e.given = {}
    BY <2>1, <2>3 DEF EndOK
  <2> QED BY <2>1, <2>2, <2>3
<1> QED BY <1>8, <1>13

-----------------------------------------------------------------------------
\* Lemmas about the operations.

\* A game that exists has a name of its own.
LEMMA Exists ==
  ASSUME NEW H, H.name \in GameNames
  PROVE  H # NoGame
<1>1. NoGame.name = Nobody
  BY DEF NoGame, Created
<1> QED BY <1>1, GameAssumption

\* The state's parts have their types.
LEMMA Parts ==
  ASSUME NEW s \in StateRec
  PROVE  /\ s.games \in [Games -> GameRec] /\ s.list \in Seq(Games) /\ s.ended \in EndRec
         /\ s.game \in [Players -> Games \cup {NotInGame}]
         /\ NotInGame \notin Games /\ Games \subseteq Nat
BY SMTT(40) DEF StateRec, Games, NotInGame

\* A player of a game is on a seat of it.
LEMMA OnHisSeat ==
  ASSUME NEW s, StateOK(s), NEW u \in Players, s.game[u] # NotInGame
  PROVE  /\ s.game[u] \in Games /\ s.games[s.game[u]] # NoGame /\ s.games[s.game[u]].name \in GameNames
         /\ GameOK(s.games[s.game[u]]) /\ s.games[s.game[u]] \in GameRec
         /\ \E i \in On(s.games[s.game[u]]) : s.games[s.game[u]].seats[i].acc = u
<1> DEFINE g == s.game[u]
<1>1. g \in Games /\ s.games[g] \in GameRec
  BY Parts, SMTT(40) DEF StateOK
<1>2. PICK i \in On(s.games[g]) : s.games[g].seats[i].acc = u
  BY DEF StateOK, Seating
<1>3. GameOK(s.games[g]) /\ (s.games[g] = NoGame \/ s.games[g].name \in GameNames)
  BY <1>1 DEF StateOK
<1>4. s.games[g] # NoGame
  <2>1. On(NoGame) = {}
    BY NewGame DEF NoGame
  <2> QED BY <1>2, <2>1
<1> QED BY <1>1, <1>2, <1>3, <1>4

\* The step from s to t changes the game g to H, and at most whether u is in it.
Changes(s, t, g, u, H) ==
  /\ g \in Games /\ s.games[g] # NoGame /\ s.game[u] \in {NotInGame, g}
  /\ GameOK(H) /\ H.name \in GameNames
  /\ t \in StateRec /\ t.list = s.list /\ t.ended = s.ended
  /\ t.games[g] = H
  /\ \A h \in Games : h # g => t.games[h] = s.games[h]
  /\ t.game[u] \in {NotInGame, g}
  /\ \A v \in Players : v # u => t.game[v] = s.game[v]
  /\ \A i \in On(H) : t.game[H.seats[i].acc] = g
  /\ \A v \in Players : t.game[v] = g => \E i \in On(H) : H.seats[i].acc = v

\* Such a step keeps the state in order.
LEMMA Replaced ==
  ASSUME NEW s, StateOK(s), NEW g, NEW H, NEW t, NEW u \in Players, Changes(s, t, g, u, H)
  PROVE  /\ StateOK(t)
         /\ \A W, V : Reports(s, W) /\ W \ {u} \subseteq V
                        /\ (\A i \in On(H) : H.seats[i].report # <<>> => H.seats[i].acc \in V)
                      => Reports(t, V)
<1>0. /\ g \in Games /\ s.games[g] # NoGame /\ s.game[u] \in {NotInGame, g}
      /\ GameOK(H) /\ H.name \in GameNames
      /\ t \in StateRec /\ t.list = s.list /\ t.ended = s.ended
      /\ t.games[g] = H
      /\ \A h \in Games : h # g => t.games[h] = s.games[h]
      /\ t.game[u] \in {NotInGame, g}
      /\ \A v \in Players : v # u => t.game[v] = s.game[v]
      /\ \A i \in On(H) : t.game[H.seats[i].acc] = g
      /\ \A v \in Players : t.game[v] = g => \E i \in On(H) : H.seats[i].acc = v
  BY DEF Changes
<1>1. /\ s.games \in [Games -> GameRec] /\ NotInGame \notin Games
      /\ s.game \in [Players -> Games \cup {NotInGame}]
      /\ Seating(s) /\ IsInjective(s.list) /\ ToSet(s.list) = {h \in Games : s.games[h] # NoGame}
      /\ EndOK(s.ended)
      /\ \A h \in Games : GameOK(s.games[h]) /\ (s.games[h] = NoGame \/ s.games[h].name \in GameNames)
  BY Parts DEF StateOK
<1>2. H # NoGame
  BY <1>0, Exists
<1>3. \A h \in Games : t.games[h] = IF h = g THEN H ELSE s.games[h]
  BY <1>0, <1>1
<1>4. t.game[u] \in {NotInGame, g} /\ \A v \in Players : v # u => t.game[v] = s.game[v]
  BY <1>0
<1>5. ToSet(t.list) = {h \in Games : t.games[h] # NoGame}
  BY <1>0, <1>1, <1>2, <1>3
<1>6. ASSUME NEW h \in Games, h # g, NEW i \in On(s.games[h])
      PROVE  /\ s.games[h].seats[i].acc \in Players \ {u} /\ s.game[s.games[h].seats[i].acc] = h
  <2>1. s.game[s.games[h].seats[i].acc] = h
    BY <1>0, <1>1, <1>6 DEF Seating
  <2>2. s.games[h].seats[i] \in SeatRec
    BY <1>0, <1>1, <1>6, OnFinite
  <2>3. s.games[h].seats[i].acc \in Players
    BY <1>0, <2>2, SMTT(40) DEF SeatRec
  <2> QED BY <1>0, <1>1, <1>6, <2>1, <2>3, SMTT(40)
<1>7. Seating(t)
  <2>1. ASSUME NEW h \in Games, NEW i \in On(t.games[h]) PROVE t.game[t.games[h].seats[i].acc] = h
    <3>1. CASE h = g
      BY <1>0, <1>3, <2>1, <3>1
    <3>2. CASE h # g
      BY <1>0, <1>3, <1>4, <1>6, <2>1, <3>2, SMTT(40)
    <3> QED BY <1>0, <3>1, <3>2
  <2>2. ASSUME NEW v \in Players, t.game[v] # NotInGame
        PROVE  \E i \in On(t.games[t.game[v]]) : t.games[t.game[v]].seats[i].acc = v
    <3>1. CASE t.game[v] = g
      BY <1>0, <1>3, <3>1, SMTT(40)
    <3>2. CASE t.game[v] # g
      <4>1. v # u /\ t.game[v] = s.game[v] /\ s.game[v] \in Games
        BY <1>0, <1>1, <1>4, <2>2, <3>2
      <4>2. t.games[t.game[v]] = s.games[s.game[v]]
        BY <1>0, <1>3, <3>2, <4>1
      <4> QED BY <1>0, <1>1, <2>2, <4>1, <4>2 DEF Seating
    <3> QED BY <1>0, <3>1, <3>2
  <2> QED BY <1>0, <2>1, <2>2 DEF Seating
<1>8. \A h \in Games : GameOK(t.games[h]) /\ (t.games[h] = NoGame \/ t.games[h].name \in GameNames)
  BY <1>0, <1>1, <1>3
<1>9. StateOK(t)
  BY <1>0, <1>1, <1>5, <1>7, <1>8 DEF StateOK
<1>10. ASSUME NEW W, NEW V, Reports(s, W),
              \A i \in On(H) : H.seats[i].report # <<>> => H.seats[i].acc \in V, W \ {u} \subseteq V
       PROVE  Reports(t, V)
  <2> SUFFICES ASSUME NEW h \in Games, NEW i \in On(t.games[h]), t.games[h].seats[i].report # <<>>
               PROVE  t.games[h].seats[i].acc \in V
    BY DEF Reports
  <2>1. CASE h = g
    BY <1>0, <1>3, <1>10, <2>1
  <2>2. CASE h # g
    <3>1. i \in On(s.games[h]) /\ t.games[h] = s.games[h]
      BY <1>0, <1>3, <2>2
    <3>2. s.games[h].seats[i].acc \in W
      BY <1>0, <1>10, <3>1 DEF Reports
    <3>3. s.games[h].seats[i].acc # u
      BY <1>0, <1>6, <2>2, <3>1
    <3> QED BY <1>0, <1>10, <3>1, <3>2, <3>3
  <2> QED BY <1>0, <2>1, <2>2
<1> QED BY <1>0, <1>9, <1>10

\* A game that is found is in the list and is as was asked for; if none is found, none is.
LEMMA FoundAvailable ==
  ASSUME NEW s, StateOK(s), NEW name, NEW types
  PROVE  LET g == gamelist_find_game_available(s, name, types)
             Fits(h) == /\ s.games[h].name = name /\ s.games[h].ladder \in types
                        /\ s.games[h].status \notin {"started", "done"}
         IN  \/ g \in Games /\ s.games[g] # NoGame /\ Fits(g)
             \/ g = NotInGame /\ (\A h \in Games : s.games[h] # NoGame => ~Fits(h))
<1> DEFINE g == gamelist_find_game_available(s, name, types)
           Fits(h) == /\ s.games[h].name = name /\ s.games[h].ladder \in types
                      /\ s.games[h].status \notin {"started", "done"}
           I == {i \in 1..Len(s.list) : Fits(s.list[i])}
           at == SelectInSeq(s.list, LAMBDA h : Fits(h))
<1>1. /\ s.list \in Seq(Games) /\ ToSet(s.list) = {h \in Games : s.games[h] # NoGame}
      /\ NotInGame = 0 /\ Len(s.list) \in Nat
  BY Parts DEF StateOK, NotInGame
<1>2. g = IF at = 0 THEN NotInGame ELSE s.list[at]
  BY DEF gamelist_find_game_available
<1>3. CASE I = {}
  <2>1. g = NotInGame
    BY <1>2, <1>3, Zenon DEF SelectInSeq
  <2>2. ASSUME NEW h \in Games, s.games[h] # NoGame PROVE ~Fits(h)
    <3>1. PICK i \in 1..Len(s.list) : s.list[i] = h
      BY <1>1, <2>2, Elements
    <3>2. i \notin I
      BY <1>3
    <3> HIDE DEF Fits
    <3> QED BY <3>1, <3>2
  <2> QED BY <2>1, <2>2
<1>4. CASE I # {}
  <2>1. at = Min(I)
    BY <1>4 DEF SelectInSeq
  <2>2. I \subseteq Nat
    BY <1>1
  <2>3. at \in I
    BY <1>4, <2>1, <2>2, MinIn, Zenon
  <2>4. at \in 1..Len(s.list) /\ Fits(s.list[at])
    BY <2>3, Zenon
  <2> HIDE DEF at, I
  <2>5. at # 0
    BY <1>1, <2>4
  <2>6. s.list[at] \in ToSet(s.list)
    BY <1>1, <2>4, Elements
  <2>7. g = s.list[at]
    BY <1>2, <2>5
  <2>8. g \in Games /\ s.games[g] # NoGame /\ Fits(g)
    <3> HIDE DEF g, Fits
    <3> QED BY <1>1, <2>4, <2>6, <2>7
  <2> QED BY <2>8, SMTT(40)
<1> QED BY <1>3, <1>4

\* A new game is put in front of the list.
LEMMA GameCreated ==
  ASSUME NEW s, StateOK(s), NEW name \in GameNames, NEW ladder \in BOOLEAN,
         \E g \in Games : s.games[g] = NoGame
  PROVE  LET t == game_create(s, name, ladder)
         IN  /\ StateOK(t) /\ t.game = s.game /\ t.ended = s.ended
             /\ \E g \in Games : /\ t.games[g].name = name /\ t.games[g].ladder = ladder
                                 /\ t.games[g].status = "open" /\ t.games[g] # NoGame
             /\ \A W : Reports(s, W) => Reports(t, W)
<1> DEFINE F(g) == /\ s.games[g] = NoGame
                   /\ \A h \in 1..(g - 1) : s.games[h] # NoGame
           k == CHOOSE g \in Games : F(g)
           t == game_create(s, name, ladder)
           C == Created(name, ladder)
<1>1. k \in Games /\ s.games[k] = NoGame
  <2> DEFINE I == {g \in Games : s.games[g] = NoGame}
  <2>1. I # {} /\ I \subseteq Nat
    BY DEF Games
  <2>2. PICK g \in I : \A h \in I : g <= h
    BY <2>1, NatMin
  <2>3. \A h \in 1..(g - 1) : h \in Games /\ ~(g <= h)
    BY <2>2, GameAssumption DEF Games
  <2>4. F(g) /\ g \in Games
    BY <2>2, <2>3
  <2> HIDE DEF F
  <2>5. k \in Games /\ F(k)
    BY <2>4
  <2> QED BY <2>5 DEF F
<1>2. t = [s EXCEPT !.games[k] = C, !.list = <<k>> \o @]
  BY DEF game_create
<1> HIDE DEF k, t, C
<1>3. /\ s.games \in [Games -> GameRec] /\ s.list \in Seq(Games) /\ s.ended \in EndRec
      /\ s.game \in [Players -> Games \cup {NotInGame}]
      /\ Seating(s) /\ IsInjective(s.list) /\ ToSet(s.list) = {h \in Games : s.games[h] # NoGame}
      /\ EndOK(s.ended) /\ s \in StateRec
      /\ \A h \in Games : GameOK(s.games[h]) /\ (s.games[h] = NoGame \/ s.games[h].name \in GameNames)
  BY Parts DEF StateOK
<1>4. /\ GameOK(C) /\ On(C) = {} /\ C \in GameRec /\ C.name = name /\ C.ladder = ladder /\ C.status = "open"
      /\ C # NoGame /\ On(NoGame) = {}
  <2>1. GameOK(C) /\ On(C) = {} /\ C.name = name /\ C.ladder = ladder /\ C.status = "open"
    BY NewGame DEF C, Created
  <2>2. On(NoGame) = {}
    BY NewGame DEF NoGame
  <2> QED BY <2>1, <2>2, Exists DEF GameOK
<1>5. /\ t.games = [s.games EXCEPT ![k] = C] /\ t.list = <<k>> \o s.list /\ t.game = s.game /\ t.ended = s.ended
  BY <1>2, <1>3 DEF StateRec
<1>6. /\ <<k>> \o s.list \in Seq(Games) /\ ToSet(<<k>> \o s.list) = {k} \cup ToSet(s.list)
      /\ IsInjective(<<k>> \o s.list)
  <2>1. k \notin ToSet(s.list)
    BY <1>1, <1>3
  <2> QED BY <1>1, <1>3, <2>1, PutInFront
<1>7. t.games \in [Games -> GameRec]
  BY <1>1, <1>3, <1>4, <1>5
<1>8. t \in StateRec
  BY <1>2, <1>3, <1>5, <1>6, <1>7 DEF StateRec
<1>9. \A h \in Games : t.games[h] = IF h = k THEN C ELSE s.games[h]
  BY <1>3, <1>5
<1>10. ToSet(t.list) = {h \in Games : t.games[h] # NoGame}
  BY <1>1, <1>3, <1>4, <1>5, <1>6, <1>9
<1>11. \A h \in Games : On(t.games[h]) = On(s.games[h]) /\ (On(s.games[h]) # {} => t.games[h] = s.games[h])
  BY <1>1, <1>4, <1>9, SMTT(40)
<1>12. Seating(t)
  <2>1. ASSUME NEW h \in Games, NEW i \in On(t.games[h]) PROVE t.game[t.games[h].seats[i].acc] = h
    <3>1. i \in On(s.games[h]) /\ t.games[h] = s.games[h]
      BY <1>11, <2>1
    <3>2. s.game[s.games[h].seats[i].acc] = h
      BY <1>3, <3>1 DEF Seating
    <3> QED BY <1>5, <3>1, <3>2
  <2>2. ASSUME NEW v \in Players, t.game[v] # NotInGame
        PROVE  \E i \in On(t.games[t.game[v]]) : t.games[t.game[v]].seats[i].acc = v
    <3>1. t.game[v] = s.game[v] /\ s.game[v] \in Games
      BY <1>3, <1>5, <2>2
    <3>2. PICK i \in On(s.games[s.game[v]]) : s.games[s.game[v]].seats[i].acc = v
      BY <1>3, <2>2, <3>1 DEF Seating
    <3> QED BY <1>11, <3>1, <3>2, SMTT(40)
  <2> QED BY <2>1, <2>2 DEF Seating
<1>13. \A h \in Games : GameOK(t.games[h]) /\ (t.games[h] = NoGame \/ t.games[h].name \in GameNames)
  BY <1>3, <1>4, <1>9
<1>14. StateOK(t)
  BY <1>3, <1>5, <1>6, <1>8, <1>10, <1>12, <1>13 DEF StateOK
<1>15. \A W : Reports(s, W) => Reports(t, W)
  BY <1>11 DEF Reports
<1>16. \E g \in Games : /\ t.games[g].name = name /\ t.games[g].ladder = ladder
                        /\ t.games[g].status = "open" /\ t.games[g] # NoGame
  BY <1>1, <1>4, <1>9
<1> QED BY <1>5, <1>14, <1>15, <1>16 DEF t

\* The last player of a game leaves, and the game ends.
LEMMA GameDestroyed ==
  ASSUME NEW s, StateOK(s), NEW u \in Players, s.game[u] # NotInGame,
         NEW at, On(s.games[s.game[u]]) = {at}, s.games[s.game[u]].seats[at].acc = u,
         Reports(s, {u})
  PROVE  LET t == game_destroy([s EXCEPT !.game[u] = NotInGame], s.game[u])
         IN  /\ StateOK(t) /\ Reports(t, {}) /\ t.game = [s.game EXCEPT ![u] = NotInGame]
             /\ t.games = [s.games EXCEPT ![s.game[u]] = NoGame]
<1> DEFINE g == s.game[u]
           left == [s EXCEPT !.game[u] = NotInGame]
           t == game_destroy(left, g)
           G == s.games[g]
           e == [clean |-> G.clean, ladder |-> G.ladder, starters |-> G.starters, told |-> G.told,
                 given |-> game_report(G)]
<1>1. /\ s.games \in [Games -> GameRec] /\ s.list \in Seq(Games) /\ s.ended \in EndRec
      /\ s.game \in [Players -> Games \cup {NotInGame}]
      /\ Seating(s) /\ IsInjective(s.list) /\ ToSet(s.list) = {h \in Games : s.games[h] # NoGame}
      /\ s \in StateRec
      /\ \A h \in Games : GameOK(s.games[h]) /\ (s.games[h] = NoGame \/ s.games[h].name \in GameNames)
  BY Parts DEF StateOK
<1>2. g \in Games /\ GameOK(G) /\ G \in GameRec /\ NotInGame \notin Games
  BY OnHisSeat, <1>1, Parts
<1>3. e \in EndRec /\ EndOK(e)
  BY <1>2, EndingGame
<1> HIDE DEF e
<1>4. /\ left.games = s.games /\ left.list = s.list /\ left.game = [s.game EXCEPT ![u] = NotInGame]
      /\ left \in StateRec
  BY <1>1 DEF StateRec
<1>5. t = [left EXCEPT !.games[g] = NoGame, !.list = RemoveFirst(@, g), !.ended = e]
  BY <1>4 DEF game_destroy, e
<1> HIDE DEF left, t, g
<1>6. NoGame \in GameRec /\ On(NoGame) = {} /\ GameOK(NoGame)
  <2>1. GameOK(NoGame) /\ On(NoGame) = {}
    BY NewGame DEF NoGame
  <2> QED BY <2>1 DEF GameOK
<1>7. /\ t.games = [s.games EXCEPT ![g] = NoGame] /\ t.list = RemoveFirst(s.list, g)
      /\ t.game = [s.game EXCEPT ![u] = NotInGame] /\ t.ended = e
  BY <1>4, <1>5 DEF StateRec
<1>8. /\ RemoveFirst(s.list, g) \in Seq(Games) /\ IsInjective(RemoveFirst(s.list, g))
      /\ ToSet(RemoveFirst(s.list, g)) = ToSet(s.list) \ {g}
  BY <1>1, Removed, SMTT(40)
<1>9. t \in StateRec
  <2>1. t.games \in [Games -> GameRec]
    BY <1>1, <1>2, <1>6, <1>7
  <2>2. t.game \in [Players -> Games \cup {NotInGame}]
    BY <1>1, <1>7
  <2> QED BY <1>3, <1>4, <1>5, <1>7, <1>8, <2>1, <2>2 DEF StateRec
<1>10. \A h \in Games : t.games[h] = IF h = g THEN NoGame ELSE s.games[h]
  BY <1>1, <1>7
<1>11. \A v \in Players : t.game[v] = IF v = u THEN NotInGame ELSE s.game[v]
  BY <1>1, <1>7, SMTT(40)
<1>12. \A v \in Players : s.game[v] = g => v = u
  BY <1>1, <1>2 DEF Seating, g
<1>13. ASSUME NEW h \in Games, h # g, NEW i \in On(s.games[h])
       PROVE  s.games[h].seats[i].acc \in Players \ {u} /\ s.game[s.games[h].seats[i].acc] = h
  <2>1. s.game[s.games[h].seats[i].acc] = h
    BY <1>1, <1>13 DEF Seating
  <2>2. s.games[h].seats[i] \in SeatRec
    BY <1>1, <1>13, OnFinite
  <2>3. s.games[h].seats[i].acc \in Players
    BY <2>2, SMTT(40) DEF SeatRec
  <2> QED BY <1>1, <1>13, <2>1, <2>3, SMTT(40) DEF g
<1>14. Seating(t)
  <2>1. ASSUME NEW h \in Games, NEW i \in On(t.games[h]) PROVE t.game[t.games[h].seats[i].acc] = h
    <3>1. h # g
      BY <1>6, <1>10, <2>1
    <3> QED BY <1>10, <1>11, <1>13, <2>1, <3>1, SMTT(40)
  <2>2. ASSUME NEW v \in Players, t.game[v] # NotInGame
        PROVE  \E i \in On(t.games[t.game[v]]) : t.games[t.game[v]].seats[i].acc = v
    <3>1. v # u /\ t.game[v] = s.game[v] /\ s.game[v] \in Games
      BY <1>1, <1>11, <2>2
    <3>2. t.games[t.game[v]] = s.games[s.game[v]]
      BY <1>10, <1>12, <3>1
    <3> QED BY <1>1, <2>2, <3>1, <3>2 DEF Seating
  <2> QED BY <2>1, <2>2 DEF Seating
<1>15. ToSet(t.list) = {h \in Games : t.games[h] # NoGame}
  BY <1>1, <1>7, <1>8, <1>10
<1>16. \A h \in Games : GameOK(t.games[h]) /\ (t.games[h] = NoGame \/ t.games[h].name \in GameNames)
  BY <1>1, <1>6, <1>10
<1>17. StateOK(t)
  BY <1>3, <1>7, <1>8, <1>9, <1>14, <1>15, <1>16, SMTT(40) DEF StateOK
<1>18. Reports(t, {})
  <2> SUFFICES ASSUME NEW h \in Games, NEW i \in On(t.games[h]), t.games[h].seats[i].report # <<>>
               PROVE  FALSE
    BY DEF Reports
  <2>1. h # g /\ t.games[h] = s.games[h]
    BY <1>6, <1>10
  <2>2. s.games[h].seats[i].acc \in {u}
    BY <2>1, SMTT(40) DEF Reports
  <2> QED BY <1>13, <2>1, <2>2
<1> QED BY <1>7, <1>17, <1>18 DEF t, left, g

\* A player leaves his game: he is in none, the others are where they were, and a game
\* that goes on has its name, kind and status.
LEMMA PlayerDeleted ==
  ASSUME NEW s, StateOK(s), NEW u \in Players, s.game[u] # NotInGame, Reports(s, {u})
  PROVE  LET g == s.game[u]
             t == game_del_player(s, g, u)
         IN  /\ StateOK(t) /\ Reports(t, {}) /\ t.game[u] = NotInGame
             /\ \A h \in Games : h # g => t.games[h] = s.games[h]
             /\ \/ t.games[g] = NoGame
                \/ /\ t.games[g].name = s.games[g].name /\ t.games[g].ladder = s.games[g].ladder
                   /\ t.games[g].status = s.games[g].status
<1> DEFINE g == s.game[u]
           G == s.games[g]
           left == [s EXCEPT !.game[u] = NotInGame]
           t == game_del_player(s, g, u)
           I == {i \in 1..Len(G.seats) : G.seats[i].acc = u /\ G.seats[i].here}
           at == SelectInSeq(G.seats, LAMBDA x : x.acc = u /\ x.here)
           seats == [G.seats EXCEPT ![at].here = FALSE]
           m == [left EXCEPT !.games[g].seats[at].here = FALSE, !.games[g].ref = @ - 1]
<1>1. /\ s.games \in [Games -> GameRec] /\ s.game \in [Players -> Games \cup {NotInGame}]
      /\ s \in StateRec /\ Seating(s) /\ s.list \in Seq(Games) /\ s.ended \in EndRec
  BY Parts DEF StateOK
<1>2. /\ g \in Games /\ G # NoGame /\ G.name \in GameNames /\ GameOK(G) /\ G \in GameRec
      /\ \E i \in On(G) : G.seats[i].acc = u
  BY OnHisSeat, SMTT(40)
<1>3. /\ DOMAIN G.seats = 1..Len(G.seats) /\ Len(G.seats) \in Nat /\ On(G) \subseteq DOMAIN G.seats
      /\ G.seats \in Seq(SeatRec) /\ IsFiniteSet(On(G))
      /\ \A i \in DOMAIN G.seats : G.seats[i] \in SeatRec
  BY <1>2, OnFinite, SMTT(40) DEF GameRec
<1>4. at \in On(G) /\ G.seats[at].acc = u /\ at # 0
  <2>0. PICK i \in On(G) : G.seats[i].acc = u
    BY <1>2
  <2>1. I # {} /\ I \subseteq Nat
    <3>1. i \in 1..Len(G.seats) /\ G.seats[i].here
      BY <1>3, Zenon DEF On
    <3> HIDE DEF G
    <3> QED BY <1>3, <2>0, <3>1
  <2>2. at = Min(I)
    BY <2>1, Zenon DEF SelectInSeq
  <2>3. at \in I
    BY <2>1, <2>2, MinIn, Zenon
  <2>4. at \in 1..Len(G.seats) /\ G.seats[at].acc = u /\ G.seats[at].here
    BY <2>3, Zenon
  <2> HIDE DEF at, I, G
  <2>5. at \in On(G)
    BY <1>3, <2>4 DEF On
  <2>6. at # 0
    BY <1>3, <2>4, SMTT(40)
  <2> QED BY <2>4, <2>5, <2>6
<1>5. t = IF G.ref < 2 THEN game_destroy(left, g) ELSE game_choose_host(m, g)
  <2>1. /\ left.games = s.games
    BY <1>1 DEF StateRec
  <2> QED BY <1>4, <2>1 DEF game_del_player
<1> HIDE DEF at, I
<1>6. G.ref = Cardinality(On(G)) /\ G.ref \in Nat
  BY <1>2, Zenon DEF GameOK, SeatsOK, GameRec
<1>7. CASE G.ref < 2
  <2>1. On(G) = {at}
    <3>1. Cardinality(On(G) \ {at}) = Cardinality(On(G)) - 1 /\ IsFiniteSet(On(G) \ {at})
      <4> HIDE DEF G
      <4> QED BY <1>3, <1>4, FS_RemoveElement
    <3>2. Cardinality(On(G) \ {at}) \in Nat
      BY <3>1, FS_CardinalityType
    <3>3. Cardinality(On(G) \ {at}) = 0
      BY <1>6, <1>7, <3>1, <3>2
    <3>4. On(G) \ {at} = {}
      BY <3>1, <3>3, FS_EmptySet
    <3> QED BY <1>4, <3>4
  <2>2. t = game_destroy(left, g)
    BY <1>5, <1>7
  <2> HIDE DEF at, t, left, m, seats
  <2>3. /\ StateOK(t) /\ Reports(t, {}) /\ t.game = [s.game EXCEPT ![u] = NotInGame]
        /\ t.games = [s.games EXCEPT ![g] = NoGame]
    BY <1>4, <2>1, <2>2, GameDestroyed DEF left
  <2>4. t.game[u] = NotInGame /\ t.games[g] = NoGame /\ \A h \in Games : h # g => t.games[h] = s.games[h]
    BY <1>1, <1>2, <2>3
  <2> QED BY <2>3, <2>4 DEF t
<1>8. CASE ~(G.ref < 2)
  <2> DEFINE H0 == [G EXCEPT !.seats = seats, !.ref = @ - 1]
  <2>1. seats \in Seq(SeatRec) /\ DOMAIN seats = DOMAIN G.seats
    <3>1. at \in DOMAIN G.seats /\ [G.seats[at] EXCEPT !.here = FALSE] \in SeatRec
      BY <1>3, <1>4, Zenon DEF SeatRec
    <3>2. seats = [G.seats EXCEPT ![at] = [G.seats[at] EXCEPT !.here = FALSE]]
      OBVIOUS
    <3> HIDE DEF seats, G
    <3>3. G.seats \in [1..Len(G.seats) -> SeatRec]
      BY <1>3
    <3>4. seats \in [1..Len(G.seats) -> SeatRec]
      BY <1>3, <3>1, <3>2, <3>3
    <3> QED BY <1>3, <3>4
  <2>2. H0 \in GameRec /\ H0.seats = seats /\ H0.ref = G.ref - 1
    <3> HIDE DEF seats, G
    <3>1. G.ref - 1 \in Nat
      BY <1>6, <1>8
    <3> QED BY <1>2, <2>1, <3>1 DEF GameRec
  <2>3. m = [left EXCEPT !.games = [s.games EXCEPT ![g] = H0]]
    <3>1. left.games = s.games /\ left \in StateRec
      BY <1>1, Parts DEF StateRec
    <3> HIDE DEF left, at
    <3>2. g \in DOMAIN left.games
      BY <1>1, <1>2, <3>1
    <3> QED BY <1>1, <1>2, <3>1, <3>2, ZenonT(60) DEF StateRec, GameRec
  <2> HIDE DEF at, t, seats, I
  <2>4. /\ m.games = [s.games EXCEPT ![g] = H0] /\ m.list = s.list /\ m.ended = s.ended
        /\ m.game = [s.game EXCEPT ![u] = NotInGame] /\ m \in StateRec
    <3>1. /\ left.games = s.games /\ left.list = s.list /\ left.ended = s.ended /\ left \in StateRec
          /\ left.game = [s.game EXCEPT ![u] = NotInGame]
      BY <1>1 DEF StateRec
    <3>2. [s.games EXCEPT ![g] = H0] \in [Games -> GameRec]
      BY <1>1, <2>2
    <3> HIDE DEF left, m, H0
    <3> QED BY <2>3, <3>1, <3>2 DEF StateRec
  <2> HIDE DEF m, H0
  <2>5. m.games[g] = H0
    BY <1>1, <1>2, <2>4, SMTT(40)
  <2>6. \A i \in DOMAIN G.seats : /\ seats[i].acc = G.seats[i].acc
                                  /\ seats[i].report = G.seats[i].report
                                  /\ seats[i].here <=> (i # at /\ G.seats[i].here)
    <3> TAKE i \in DOMAIN G.seats
    <3>1. G.seats[i] \in SeatRec
      BY <1>3, SMTT(40)
    <3>2. CASE i = at
      <4>1. seats[i] = [G.seats[i] EXCEPT !.here = FALSE]
        BY <2>1, <3>2, SMTT(40) DEF seats
      <4> QED BY <3>1, <3>2, <4>1, SMTT(40) DEF SeatRec
    <3>3. CASE i # at
      BY <2>1, <3>3 DEF seats
    <3> QED BY <3>2, <3>3, SMTT(40)
  <2>6a. On(H0) = On(G) \ {at}
    BY <2>1, <2>2, <2>6, Zenon DEF On
  <2>7. On(H0) # {}
    <3>1. Cardinality(On(G) \ {at}) = Cardinality(On(G)) - 1
      BY <1>3, <1>4, FS_RemoveElement
    <3> QED BY <1>6, <1>8, <2>6a, <3>1, FS_EmptySet, SMTT(40)
  <2>8. PICK i \in On(H0) : /\ \A j \in On(H0) : i <= j
                            /\ game_choose_host(m, g) = [m EXCEPT !.games[g].owner = H0.seats[i].acc]
    BY <2>2, <2>5, <2>7, HostChosen
  <2> DEFINE H == [H0 EXCEPT !.owner = H0.seats[i].acc]
  <2>9. H0.seats[i].acc \in Players
    <3>1. H0.seats[i] \in SeatRec
      BY <2>2, <2>8, OnFinite
    <3> QED BY <3>1 DEF SeatRec
  <2>10. /\ H \in GameRec /\ H.seats = seats /\ H.ref = G.ref - 1 /\ H.name = G.name /\ H.ladder = G.ladder
         /\ H.status = G.status /\ H.starters = G.starters /\ H.clean = G.clean /\ H.told = G.told
         /\ H.owner = H0.seats[i].acc
    BY <1>2, <2>2, <2>9, ZenonT(60) DEF H0, GameRec
  <2>11. t = [m EXCEPT !.games[g].owner = H0.seats[i].acc]
    BY <1>5, <1>8, <2>8
  <2>12. t = [m EXCEPT !.games = [m.games EXCEPT ![g] = H]]
    BY <1>1, <1>2, <2>4, <2>5, <2>11 DEF StateRec
  <2> HIDE DEF H
  <2>13. /\ t.games = [s.games EXCEPT ![g] = H] /\ t.list = s.list /\ t.ended = s.ended
         /\ t.game = [s.game EXCEPT ![u] = NotInGame] /\ t \in StateRec
    <3>1. [m.games EXCEPT ![g] = H] = [s.games EXCEPT ![g] = H]
      BY <1>1, <1>2, <2>4
    <3>2. [s.games EXCEPT ![g] = H] \in [Games -> GameRec]
      BY <1>1, <2>10
    <3> QED BY <2>4, <2>12, <3>1, <3>2 DEF StateRec
  <2>14. On(H) = On(H0)
    BY <2>2, <2>10 DEF On
  <2>15. On(H) # {} => \E k \in On(H) : H.owner = H.seats[k].acc /\ \A j \in On(H) : k <= j
    BY <2>2, <2>8, <2>10, <2>14
  <2>16. /\ GameOK(H) /\ On(H) = On(G) \ {at}
         /\ \A k \in DOMAIN H.seats : k \in DOMAIN G.seats /\ H.seats[k].acc = G.seats[k].acc
         /\ \A k \in DOMAIN H.seats : H.seats[k].report = G.seats[k].report
    <3>1. /\ DOMAIN H.seats = DOMAIN G.seats
          /\ \A k \in DOMAIN G.seats : /\ H.seats[k].acc = G.seats[k].acc
                                       /\ H.seats[k].report = G.seats[k].report
                                       /\ H.seats[k].here <=> (k # at /\ G.seats[k].here)
      BY <2>1, <2>6, <2>10, Zenon
    <3>2. G.ref >= 2
      BY <1>6, <1>8
    <3> HIDE DEF G, g
    <3>3. H \in GameRec /\ H.ref = G.ref - 1 /\ H.status = G.status /\ H.starters = G.starters
          /\ H.clean = G.clean /\ H.told = G.told /\ GameOK(G) /\ at \in On(G)
      BY <1>2, <1>4, <2>10
    <3>4. Leaves(G, at, H)
      <4>1. \A k \in DOMAIN G.seats : /\ H.seats[k].acc = G.seats[k].acc
                                      /\ H.seats[k].report = G.seats[k].report
                                      /\ H.seats[k].here <=> (k # at /\ G.seats[k].here)
        BY <3>1
      <4>2. DOMAIN H.seats = DOMAIN G.seats
        BY <3>1
      <4>3. On(H) # {} => \E k \in On(H) : H.owner = H.seats[k].acc /\ \A j \in On(H) : k <= j
        BY <2>15
      <4>4. /\ G.ref >= 2 /\ H \in GameRec /\ H.ref = G.ref - 1 /\ H.status = G.status /\ H.starters = G.starters
            /\ H.clean = G.clean /\ H.told = G.told
        BY <3>2, <3>3, SMTT(40)
      <4> QED BY <4>1, <4>2, <4>3, <4>4, Zenon DEF Leaves
    <3> QED BY <3>3, <3>4, SeatLeft
  <2>17. \A k \in On(H) : k \in On(G) /\ H.seats[k].acc = G.seats[k].acc /\ H.seats[k].report = G.seats[k].report
                          /\ G.seats[k].acc # u /\ G.seats[k].acc \in Players
    <3> SUFFICES ASSUME NEW k \in On(H)
                 PROVE  k \in On(G) /\ H.seats[k].acc = G.seats[k].acc /\ H.seats[k].report = G.seats[k].report
                        /\ G.seats[k].acc # u /\ G.seats[k].acc \in Players
      BY Zenon, ZenonT(60)
    <3>1. k \in On(G) /\ k # at /\ k \in DOMAIN H.seats
      BY <2>16 DEF On
    <3>2. G.seats[k].acc # u
      BY <1>2, <1>4, <3>1, ZenonT(60) DEF GameOK, SeatsOK
    <3>3. G.seats[k] \in SeatRec
      BY <1>3, <3>1
    <3> QED BY <2>16, <3>1, <3>2, <3>3, SMTT(40) DEF SeatRec
  <2>18. \A k \in On(H) : t.game[H.seats[k].acc] = g
    <3> SUFFICES ASSUME NEW k \in On(H) PROVE t.game[H.seats[k].acc] = g
      BY Zenon, ZenonT(60)
    <3>1. k \in On(s.games[g]) /\ H.seats[k].acc = G.seats[k].acc /\ G.seats[k].acc # u /\ G.seats[k].acc \in Players
      BY <2>17
    <3>2. s.game[G.seats[k].acc] = g
      BY <1>1, <1>2, <3>1, ZenonT(60) DEF Seating
    <3> HIDE DEF g, G
    <3> QED BY <1>1, <2>13, <3>1, <3>2
  <2>19. \A v \in Players : t.game[v] = g => \E k \in On(H) : H.seats[k].acc = v
    <3> SUFFICES ASSUME NEW v \in Players, t.game[v] = g PROVE \E k \in On(H) : H.seats[k].acc = v
      OBVIOUS
    <3>1. v # u /\ s.game[v] = g
      <4>1. g # NotInGame
        BY SMTT(40)
      <4> QED BY <1>1, <2>13, <4>1
    <3>2. PICK k \in On(G) : G.seats[k].acc = v
      BY <1>1, <3>1, SMTT(40) DEF Seating
    <3>3. k \in On(H) /\ k \in DOMAIN H.seats
      BY <1>4, <2>16, <3>1, <3>2, SMTT(40) DEF On
    <3> QED BY <2>16, <3>2, <3>3
  <2>20. \A k \in On(H) : H.seats[k].report # <<>> => FALSE
    <3>1. \A k \in On(G) : G.seats[k].report # <<>> => G.seats[k].acc \in {u}
      BY <1>2 DEF Reports
    <3> QED BY <2>17, <3>1, SMTT(40)
  <2> HIDE DEF g, G, left
  <2>21. H.name \in GameNames
    BY <1>2, <2>10
  <2>22. /\ StateOK(t)
         /\ \A W, V : Reports(s, W) /\ W \ {u} \subseteq V
                        /\ (\A k \in On(H) : H.seats[k].report # <<>> => H.seats[k].acc \in V)
                      => Reports(t, V)
    <3>1. s.game[u] \in {NotInGame, g} /\ NotInGame \in {NotInGame, g} /\ s.games[g] # NoGame
      BY <1>2 DEF g, G
    <3>2. g \in Games /\ GameOK(H)
      BY <1>2, <2>16
    <3>3. /\ t \in StateRec /\ t.list = s.list /\ t.ended = s.ended
          /\ t.games[g] = H /\ \A h \in Games : h # g => t.games[h] = s.games[h]
      BY <1>1, <1>2, <2>13
    <3>4. t.game[u] \in {NotInGame, g} /\ \A v \in Players : v # u => t.game[v] = s.game[v]
      BY <1>1, <2>13
    <3>5. Changes(s, t, g, u, H)
      BY <2>18, <2>19, <2>21, <3>1, <3>2, <3>3, <3>4 DEF Changes
    <3> QED BY <3>5, Replaced
  <2>23. Reports(t, {})
    <3>1. {u} \ {u} \subseteq {}
      OBVIOUS
    <3> QED BY <2>20, <2>22, <3>1
  <2>24. t.game[u] = NotInGame /\ t.games[g] = H /\ \A h \in Games : h # g => t.games[h] = s.games[h]
    BY <1>1, <1>2, <2>13
  <2> QED BY <2>10, <2>22, <2>23, <2>24 DEF t, g, G
<1> QED BY <1>7, <1>8

\* The status of a game changes.
LEMMA StatusChanged ==
  ASSUME NEW s, StateOK(s), Reports(s, {}), NEW u \in Players, s.game[u] # NotInGame,
         NEW status \in Statuses
  PROVE  LET t == game_set_status(s, s.game[u], status)
         IN  StateOK(t) /\ Reports(t, {})
<1> DEFINE g == s.game[u]
           G == s.games[g]
           starters == IF status = "started" /\ G.starters = {} THEN Here(G.seats) ELSE G.starters
           H == [G EXCEPT !.status = status, !.starters = starters]
           t == game_set_status(s, g, status)
<1>1. /\ s.games \in [Games -> GameRec] /\ s.game \in [Players -> Games \cup {NotInGame}]
      /\ s \in StateRec /\ Seating(s) /\ s.list \in Seq(Games) /\ s.ended \in EndRec
  BY Parts DEF StateOK
<1>2. /\ g \in Games /\ G # NoGame /\ G.name \in GameNames /\ GameOK(G) /\ G \in GameRec
      /\ On(G) # {}
  BY OnHisSeat, SMTT(40)
<1>3. t = s \/ t = [s EXCEPT !.games[g].status = status, !.games[g].starters = starters]
  <2>1. [s EXCEPT !.games[g].status = status].games[g].starters = G.starters
    BY <1>1, <1>2 DEF StateRec, GameRec
  <2> QED BY <2>1 DEF game_set_status
<1>4. CASE t = s
  BY <1>4
<1>5. CASE t # s
  <2>1. starters \in SUBSET Players
    <3>1. G.starters \in SUBSET Players
      BY <1>2 DEF GameRec
    <3>2. \A i \in On(G) : G.seats[i].acc \in Players
      <4> TAKE i \in On(G)
      <4>1. G.seats[i] \in SeatRec
        BY <1>2, OnFinite, SMTT(40)
      <4> QED BY <4>1 DEF SeatRec
    <3>3. Here(G.seats) \subseteq Players
      BY <3>2 DEF Here, On
    <3> QED BY <3>1, <3>3
  <2>2. t = [s EXCEPT !.games = [s.games EXCEPT ![g] = H]]
    <3> HIDE DEF starters
    <3> QED BY <1>1, <1>2, <1>3, <1>5, ZenonT(60) DEF StateRec, GameRec
  <2>3. /\ H \in GameRec /\ H.name = G.name /\ H.seats = G.seats /\ H.ref = G.ref /\ H.clean = G.clean
        /\ H.told = G.told /\ H.owner = G.owner /\ H.status = status /\ H.starters = starters
    <3> HIDE DEF starters, G
    <3> QED BY <1>2, <2>1 DEF GameRec
  <2>4. \/ H.starters = G.starters /\ (H.status = "started" => G.starters # {})
        \/ G.starters = {} /\ H.starters = Here(G.seats)
    BY <2>3, Zenon
  <2> HIDE DEF H, t, starters
  <2>5. /\ t.games = [s.games EXCEPT ![g] = H] /\ t.list = s.list /\ t.ended = s.ended
        /\ t.game = s.game /\ t \in StateRec
    <3>1. [s.games EXCEPT ![g] = H] \in [Games -> GameRec]
      BY <1>1, <2>3
    <3> HIDE DEF g, G
    <3> QED BY <1>1, <2>2, <3>1 DEF StateRec
  <2>6. GameOK(H) /\ On(H) = On(G)
    <3> HIDE DEF g, G
    <3> QED BY <1>2, <2>3, <2>4, StatusSet
  <2>7. \A k \in On(H) : t.game[H.seats[k].acc] = g
    <3> SUFFICES ASSUME NEW k \in On(H) PROVE t.game[H.seats[k].acc] = g
      BY Zenon
    <3>1. k \in On(s.games[g]) /\ H.seats[k].acc = s.games[g].seats[k].acc
      BY <2>3, <2>6, SMTT(40)
    <3>2. s.game[s.games[g].seats[k].acc] = g
      <4> HIDE DEF g, G
      <4> QED BY <1>1, <1>2, <3>1, SeatedHere
    <3> QED BY <2>5, <3>1, <3>2
  <2>8. \A v \in Players : t.game[v] = g => \E k \in On(H) : H.seats[k].acc = v
    <3> SUFFICES ASSUME NEW v \in Players, s.game[v] = g PROVE \E k \in On(G) : G.seats[k].acc = v
      BY <2>3, <2>5, <2>6, ZenonT(60)
    <3> QED BY <1>1 DEF Seating
  <2>9. /\ t.games[g] = H /\ \A h \in Games : h # g => t.games[h] = s.games[h]
    BY <1>1, <1>2, <2>5, SMTT(40)
  <2>10. \A k \in On(H) : H.seats[k].report # <<>> => H.seats[k].acc \in {}
    BY <1>2, <2>3, <2>6 DEF Reports
  <2>11. H.name \in GameNames /\ s.game[u] \in {NotInGame, g} /\ s.games[g] # NoGame /\ g \in Games
    BY <1>2, <2>3
  <2> HIDE DEF g, G
  <2>12. /\ StateOK(t)
         /\ \A W, V : Reports(s, W) /\ W \ {u} \subseteq V
                        /\ (\A k \in On(H) : H.seats[k].report # <<>> => H.seats[k].acc \in V)
                      => Reports(t, V)
    <3>1. t.game[u] \in {NotInGame, g} /\ \A v \in Players : v # u => t.game[v] = s.game[v]
      BY <2>5, <2>11
    <3>2. Changes(s, t, g, u, H)
      BY <2>5, <2>6, <2>7, <2>8, <2>9, <2>11, <3>1 DEF Changes
    <3> QED BY <3>2, Replaced
  <2>13. {} \ {u} \subseteq {}
    OBVIOUS
  <2>14. Reports(t, {})
    BY <2>10, <2>12, <2>13
  <2> QED BY <2>12, <2>14 DEF t, g
<1> QED BY <1>4, <1>5

\* A game is given another name.
LEMMA Renamed ==
  ASSUME NEW s, StateOK(s), Reports(s, {}), NEW u \in Players, s.game[u] # NotInGame,
         NEW name \in GameNames
  PROVE  LET t == [s EXCEPT !.games[s.game[u]].name = name]
         IN  StateOK(t) /\ Reports(t, {}) /\ t.game = s.game
<1> DEFINE g == s.game[u]
           G == s.games[g]
           H == [G EXCEPT !.name = name]
           t == [s EXCEPT !.games[g].name = name]
<1>1. /\ s.games \in [Games -> GameRec] /\ s.game \in [Players -> Games \cup {NotInGame}]
      /\ s \in StateRec /\ Seating(s) /\ s.list \in Seq(Games) /\ s.ended \in EndRec
  BY Parts DEF StateOK
<1>2. g \in Games /\ G # NoGame /\ GameOK(G) /\ G \in GameRec
  BY OnHisSeat
<1>3. /\ H \in GameRec /\ H.name = name /\ H.seats = G.seats /\ H.ref = G.ref /\ H.clean = G.clean
      /\ H.told = G.told /\ H.owner = G.owner /\ H.status = G.status /\ H.starters = G.starters
  <2> HIDE DEF G
  <2> QED BY <1>2 DEF GameRec
<1>4. t = [s EXCEPT !.games = [s.games EXCEPT ![g] = H]]
  BY <1>1, <1>2 DEF StateRec
<1> HIDE DEF H, t
<1>5. /\ t.games = [s.games EXCEPT ![g] = H] /\ t.list = s.list /\ t.ended = s.ended
      /\ t.game = s.game /\ t \in StateRec
  <2>1. [s.games EXCEPT ![g] = H] \in [Games -> GameRec]
    BY <1>1, <1>3
  <2> HIDE DEF g, G
  <2> QED BY <1>1, <1>4, <2>1 DEF StateRec
<1>6. On(H) = On(G)
  BY <1>3, SMTT(40) DEF On
<1>7. GameOK(H)
  <2>1. SeatsOK(H)
    BY <1>2, <1>3, <1>6, ZenonT(60) DEF GameOK, SeatsOK
  <2>2. CleanOK(G) => CleanOK(H)
    <3> HIDE DEF G
    <3> QED BY <1>3, <1>6, SMTT(40) DEF CleanOK
  <2> QED BY <1>2, <1>3, <2>1, <2>2 DEF GameOK
<1>8. \A k \in On(H) : t.game[H.seats[k].acc] = g
  <2> TAKE k \in On(H)
  <2>1. k \in On(s.games[g]) /\ H.seats[k].acc = s.games[g].seats[k].acc
    BY <1>3, <1>6, SMTT(40)
  <2>2. s.game[s.games[g].seats[k].acc] = g
    <3> HIDE DEF g, G
    <3> QED BY <1>1, <1>2, <2>1, SeatedHere
  <2> QED BY <1>5, <2>1, <2>2
<1>9. \A v \in Players : t.game[v] = g => \E k \in On(H) : H.seats[k].acc = v
  <2> TAKE v \in Players
  <2> HAVE t.game[v] = g
  <2>1. s.game[v] = g /\ g # NotInGame
    BY <1>5
  <2>2. PICK k \in On(G) : G.seats[k].acc = v
    <3> HIDE DEF g
    <3> QED BY <1>1, <2>1 DEF Seating
  <2>3. k \in On(H) /\ H.seats[k].acc = v
    BY <1>3, <1>6, <2>2
  <2> QED BY <2>3
<1>10. t.games[g] = H /\ \A h \in Games : h # g => t.games[h] = s.games[h]
  BY <1>1, <1>2, <1>5, SMTT(40)
<1>11. \A k \in On(H) : H.seats[k].report # <<>> => H.seats[k].acc \in {}
  BY <1>2, <1>3, <1>6 DEF Reports
<1>12. H.name \in GameNames /\ s.game[u] \in {NotInGame, g} /\ s.games[g] # NoGame /\ g \in Games
  BY <1>2, <1>3
<1> HIDE DEF g, G
<1>13. /\ StateOK(t)
       /\ \A W, V : Reports(s, W) /\ W \ {u} \subseteq V
                      /\ (\A k \in On(H) : H.seats[k].report # <<>> => H.seats[k].acc \in V)
                    => Reports(t, V)
  <2>1. t.game[u] \in {NotInGame, g} /\ \A v \in Players : v # u => t.game[v] = s.game[v]
    BY <1>5, <1>12
  <2>2. Changes(s, t, g, u, H)
    BY <1>5, <1>7, <1>8, <1>9, <1>10, <1>12, <2>1 DEF Changes
  <2> QED BY <2>2, Replaced
<1>14. {} \ {u} \subseteq {}
  OBVIOUS
<1>15. Reports(t, {})
  BY <1>11, <1>13, <1>14
<1> QED BY <1>5, <1>13, <1>15 DEF t, g

\* A player who is in no game joins one.
LEMMA PlayerAdded ==
  ASSUME NEW s, StateOK(s), Reports(s, {}), NEW u \in Players, s.game[u] = NotInGame,
         NEW g \in Games, s.games[g] # NoGame
  PROVE  LET t == game_add_player(s, g, u)
         IN  StateOK(t) /\ Reports(t, {}) /\ t.game[u] = g
<1> DEFINE G == s.games[g]
           at == FreeSeat(G.seats)
           others == {G.seats[i].acc : i \in DOMAIN G.seats \ {at}}
           seats == IF at > Len(G.seats) THEN Append(G.seats, Seat(u)) ELSE [G.seats EXCEPT ![at] = Seat(u)]
           clean == G.clean /\ u \notin others /\ G.starters = {}
           told == IF G.starters = {} THEN G.told ELSE [v \in Players |-> <<>>]
           H0 == [G EXCEPT !.seats = seats, !.ref = @ + 1, !.clean = clean, !.told = told]
           m == [s EXCEPT !.games[g] = H0, !.game[u] = g]
           t == game_add_player(s, g, u)
<1>1. /\ s.games \in [Games -> GameRec] /\ s.game \in [Players -> Games \cup {NotInGame}]
      /\ s \in StateRec /\ Seating(s) /\ s.list \in Seq(Games) /\ s.ended \in EndRec /\ NotInGame \notin Games
  BY Parts DEF StateOK
<1>2. G \in GameRec /\ GameOK(G) /\ G.name \in GameNames
  BY <1>1 DEF StateOK
<1>3. /\ G.seats \in Seq(SeatRec) /\ G.told \in [Players -> Tells] /\ G.ref \in Nat /\ G.clean \in BOOLEAN
      /\ DOMAIN G.seats = 1..Len(G.seats) /\ Len(G.seats) \in Nat
  BY <1>2, OnFinite DEF GameRec
<1>4. /\ at \in 1..(Len(G.seats) + 1) /\ at \notin On(G)
      /\ at = Len(G.seats) + 1 => On(G) = DOMAIN G.seats
  BY <1>2, FreeSeatIs
<1>5. t = game_choose_host(m, g)
  BY DEF game_add_player
<1>6. Seat(u) \in SeatRec /\ Seat(u).here = TRUE /\ Seat(u).acc = u
  <2>1. <<>> \in Seq(Results)
    OBVIOUS
  <2> QED BY <2>1 DEF Seat, SeatRec
<1> HIDE DEF at
<1>7. seats \in Seq(SeatRec)
  <2>1. CASE at > Len(G.seats)
    BY <1>3, <1>6, <2>1
  <2>2. CASE ~(at > Len(G.seats))
    <3>1. G.seats \in [1..Len(G.seats) -> SeatRec]
      BY <1>3
    <3>2. [G.seats EXCEPT ![at] = Seat(u)] \in [1..Len(G.seats) -> SeatRec]
      BY <1>6, <3>1
    <3> QED BY <1>3, <2>2, <3>2
  <2> QED BY <2>1, <2>2
<1>8. clean \in BOOLEAN
  OBVIOUS
<1>9. told \in [Players -> Tells]
  BY <1>3 DEF Tells
<1>10. m = [s EXCEPT !.games = [s.games EXCEPT ![g] = H0], !.game = [s.game EXCEPT ![u] = g]]
  <2> HIDE DEF H0
  <2> QED BY <1>1 DEF StateRec
<1> HIDE DEF seats, clean, told, m, t
<1>11. /\ H0 \in GameRec /\ H0.seats = seats /\ H0.ref = G.ref + 1 /\ H0.name = G.name /\ H0.status = G.status
       /\ H0.starters = G.starters /\ H0.told = told /\ H0.clean = clean
  <2>1. G.ref + 1 \in Nat
    BY <1>3
  <2> HIDE DEF G
  <2> QED BY <1>2, <1>7, <1>8, <1>9, <2>1 DEF GameRec
<1> HIDE DEF H0
<1>12. /\ m.games = [s.games EXCEPT ![g] = H0] /\ m.game = [s.game EXCEPT ![u] = g]
       /\ m.list = s.list /\ m.ended = s.ended /\ m \in StateRec
  <2>1. [s.games EXCEPT ![g] = H0] \in [Games -> GameRec] /\ [s.game EXCEPT ![u] = g] \in [Players -> Games \cup {NotInGame}]
    BY <1>1, <1>11
  <2> QED BY <1>1, <1>10, <2>1 DEF StateRec
<1>13. m.games[g] = H0
  BY <1>1, <1>12
<1>14. at \in On(H0)
  <2>1. CASE at > Len(G.seats)
    <3>1. at = Len(G.seats) + 1 /\ seats = Append(G.seats, Seat(u))
      BY <1>3, <1>4, <2>1, SMTT(40) DEF seats
    <3>2. at \in DOMAIN seats /\ seats[at] = Seat(u)
      BY <1>3, <1>6, <3>1, SMTT(40)
    <3> QED BY <1>6, <1>11, <3>2 DEF On
  <2>2. CASE ~(at > Len(G.seats))
    <3>1. at \in DOMAIN G.seats /\ seats = [G.seats EXCEPT ![at] = Seat(u)]
      BY <1>3, <1>4, <2>2 DEF seats
    <3>2. at \in DOMAIN seats /\ seats[at] = Seat(u)
      BY <3>1
    <3> QED BY <1>6, <1>11, <3>2 DEF On
  <2> QED BY <2>1, <2>2
<1>15. PICK i \in On(H0) : /\ \A j \in On(H0) : i <= j
                           /\ game_choose_host(m, g) = [m EXCEPT !.games[g].owner = H0.seats[i].acc]
  BY <1>11, <1>13, <1>14, HostChosen
<1> DEFINE H == [H0 EXCEPT !.owner = H0.seats[i].acc]
<1>16. H0.seats[i].acc \in Players
  <2>1. H0.seats[i] \in SeatRec
    BY <1>11, <1>15, OnFinite
  <2> QED BY <2>1 DEF SeatRec
<1>17. /\ H \in GameRec /\ H.seats = seats /\ H.ref = G.ref + 1 /\ H.name = G.name /\ H.status = G.status
       /\ H.starters = G.starters /\ H.told = told /\ H.clean = clean /\ H.owner = H0.seats[i].acc
  BY <1>11, <1>16 DEF GameRec
<1>18. t = [m EXCEPT !.games = [m.games EXCEPT ![g] = H]]
  BY <1>5, <1>12, <1>13, <1>15 DEF StateRec
<1> HIDE DEF H
<1>19. /\ t.games = [s.games EXCEPT ![g] = H] /\ t.game = [s.game EXCEPT ![u] = g]
       /\ t.list = s.list /\ t.ended = s.ended /\ t \in StateRec
  <2>1. [m.games EXCEPT ![g] = H] = [s.games EXCEPT ![g] = H]
    BY <1>1, <1>12
  <2>2. [s.games EXCEPT ![g] = H] \in [Games -> GameRec]
    BY <1>1, <1>17
  <2> QED BY <1>12, <1>18, <2>1, <2>2 DEF StateRec
<1>20. On(H) = On(H0)
  BY <1>11, <1>17 DEF On
<1>21. \E k \in On(H) : H.owner = H.seats[k].acc /\ \A j \in On(H) : k <= j
  BY <1>11, <1>15, <1>17, <1>20
<1>22. \A k \in On(G) : /\ G.seats[k].acc # u
                        /\ G.seats[k].report = <<>>
                        /\ s.game[G.seats[k].acc] = g
                        /\ G.seats[k].acc \in Players
  <2> TAKE k \in On(G)
  <2>1. s.game[G.seats[k].acc] = g
    BY <1>1 DEF Seating
  <2>2. G.seats[k].report = <<>>
    BY DEF Reports
  <2>3. G.seats[k] \in SeatRec
    BY <1>2, OnFinite
  <2> QED BY <1>1, <2>1, <2>2, <2>3 DEF SeatRec
<1>23. /\ GameOK(H) /\ On(H) # {}
       /\ \A k \in On(H) : H.seats[k].report = <<>>
       /\ \A k \in On(H) : H.seats[k].acc = u \/ \E j \in On(G) : G.seats[j].acc = H.seats[k].acc
       /\ \A j \in On(G) : \E k \in On(H) : G.seats[j].acc = H.seats[k].acc
       /\ \E k \in On(H) : H.seats[k].acc = u
  <2>1. H.seats = IF at > Len(G.seats) THEN Append(G.seats, Seat(u)) ELSE [G.seats EXCEPT ![at] = Seat(u)]
    BY <1>17 DEF seats
  <2>2. H.clean => /\ G.clean /\ G.starters = {}
                   /\ u \notin {G.seats[k].acc : k \in DOMAIN G.seats \ {at}}
    BY <1>17 DEF clean
  <2>3. G.starters = {} => H.told = G.told
    BY <1>17 DEF told
  <2>4. at = FreeSeat(G.seats)
    BY DEF at
  <2> HIDE DEF G
  <2>5. Takes(G, u, at, H)
    BY <1>17, <1>21, <1>22, <2>1, <2>2, <2>3, <2>4 DEF Takes
  <2> QED BY <1>2, <2>5, SeatTaken
<1>24. \A k \in On(H) : t.game[H.seats[k].acc] = g
  <2> TAKE k \in On(H)
  <2>1. CASE H.seats[k].acc = u
    BY <1>1, <1>19, <2>1
  <2>2. CASE H.seats[k].acc # u
    <3>1. PICK j \in On(G) : G.seats[j].acc = H.seats[k].acc
      BY <1>23, <2>2
    <3> HIDE DEF G
    <3> QED BY <1>1, <1>19, <1>22, <3>1
  <2> QED BY <2>1, <2>2
<1>25. \A v \in Players : t.game[v] = g => \E k \in On(H) : H.seats[k].acc = v
  <2> SUFFICES ASSUME NEW v \in Players, t.game[v] = g PROVE \E k \in On(H) : H.seats[k].acc = v
    OBVIOUS
  <2>1. CASE v = u
    BY <1>23, <2>1
  <2>2. CASE v # u
    <3>1. s.game[v] = g
      BY <1>1, <1>19, <2>2
    <3>2. g # NotInGame
      BY <1>1
    <3>3. PICK j \in On(G) : G.seats[j].acc = v
      BY <1>1, <3>1, <3>2 DEF Seating
    <3> QED BY <1>23, <3>3, SMTT(40)
  <2> QED BY <2>1, <2>2
<1>26. /\ t.games[g] = H /\ \A h \in Games : h # g => t.games[h] = s.games[h]
       /\ t.game[u] = g /\ \A v \in Players : v # u => t.game[v] = s.game[v]
  BY <1>1, <1>19
<1>27. H.name \in GameNames
  BY <1>2, <1>17
<1> HIDE DEF G
<1>28. Changes(s, t, g, u, H)
  BY <1>19, <1>23, <1>24, <1>25, <1>26, <1>27 DEF Changes
<1>29. /\ StateOK(t)
       /\ \A W, V : Reports(s, W) /\ W \ {u} \subseteq V
                      /\ (\A k \in On(H) : H.seats[k].report # <<>> => H.seats[k].acc \in V)
                    => Reports(t, V)
  BY <1>28, Replaced
<1>30. {} \ {u} \subseteq {}
  OBVIOUS
<1>31. Reports(t, {})
  BY <1>23, <1>29, <1>30
<1> QED BY <1>26, <1>29, <1>31 DEF t

\* A player reports, by game_set_reported_results after Told.
LEMMA ReportSet ==
  ASSUME NEW s, StateOK(s), Reports(s, {}), NEW u \in Players, s.game[u] # NotInGame,
         NEW results, NEW told, Agree(s.games[s.game[u]], u, results, told)
  PROVE  LET t == game_set_reported_results(Told(s, s.game[u], u, told), s.game[u], u, results)
         IN  StateOK(t) /\ Reports(t, {u}) /\ t.game = s.game
<1> DEFINE g == s.game[u]
           G == s.games[g]
           said == IF G.clean THEN told ELSE <<>>
           G1 == [G EXCEPT !.told = [@ EXCEPT ![u] = said]]
           m == Told(s, g, u, told)
           at == FirstSeat(G.seats, u)
           report == IF G.seats[at].report = <<>> THEN results ELSE G.seats[at].report
           seats == [G.seats EXCEPT ![at] = [G.seats[at] EXCEPT !.report = report]]
           H == [G1 EXCEPT !.seats = seats]
           t == game_set_reported_results(m, g, u, results)
<1>1. /\ s.games \in [Games -> GameRec] /\ s.game \in [Players -> Games \cup {NotInGame}]
      /\ s \in StateRec /\ Seating(s) /\ s.list \in Seq(Games) /\ s.ended \in EndRec /\ NotInGame \notin Games
  BY Parts, SMTT(40) DEF StateOK
<1>2. /\ g \in Games /\ G # NoGame /\ G.name \in GameNames /\ GameOK(G) /\ G \in GameRec
      /\ \E i \in On(G) : G.seats[i].acc = u
  BY OnHisSeat, SMTT(40)
<1>3. /\ G.seats \in Seq(SeatRec) /\ G.told \in [Players -> Tells]
      /\ DOMAIN G.seats = 1..Len(G.seats) /\ Len(G.seats) \in Nat
      /\ \A i \in DOMAIN G.seats : G.seats[i] \in SeatRec
      /\ On(G) \subseteq DOMAIN G.seats
  BY <1>2, OnFinite, SMTT(40) DEF GameRec
<1>4. PICK k \in On(G) : G.seats[k].acc = u
  BY <1>2, SMTT(40)
<1>5. at \in DOMAIN G.seats
  <2> DEFINE I == {i \in 1..Len(G.seats) : G.seats[i].acc = u}
  <2>1. k \in I /\ I \subseteq Nat
    <3> HIDE DEF G
    <3> QED BY <1>3, <1>4
  <2>2. Min(I) \in I
    BY <2>1, MinIn, Zenon
  <2>3. at = Min(I)
    BY <2>1, Zenon DEF FirstSeat, SelectInSeq
  <2>4. at \in 1..Len(G.seats)
    BY <2>2, <2>3, Zenon
  <2> QED BY <1>3, <2>4
<1> HIDE DEF at
<1>6. results \in Seq(Results) /\ told \in Tells
  <2>1. results \in [DOMAIN G.seats -> Results] /\ told \in Tells
    BY Zenon DEF Agree
  <2> HIDE DEF G
  <2>2. results \in [1..Len(G.seats) -> Results]
    BY <1>3, <2>1
  <2> QED BY <1>3, <2>1, <2>2, SMTT(40)
<1>7. report \in Seq(Results) /\ [G.seats[at] EXCEPT !.report = report] \in SeatRec
  <2>1. G.seats[at] \in SeatRec
    BY <1>3, <1>5, SMTT(40)
  <2>2. report \in Seq(Results)
    BY <1>6, <2>1 DEF SeatRec
  <2> HIDE DEF report, G
  <2> QED BY <2>1, <2>2, SMTT(40) DEF SeatRec
<1>8. seats \in Seq(SeatRec)
  <2> HIDE DEF report, G
  <2>1. G.seats \in [1..Len(G.seats) -> SeatRec]
    BY <1>3
  <2>2. seats \in [1..Len(G.seats) -> SeatRec]
    BY <1>7, <2>1
  <2> QED BY <1>3, <2>2
<1>9. [G.told EXCEPT ![u] = said] \in [Players -> Tells]
  <2>1. said \in Tells
    BY <1>6 DEF Tells
  <2> QED BY <1>3, <2>1
<1>10. G1 \in GameRec /\ G1.seats = G.seats
  <2> HIDE DEF G, said
  <2> QED BY <1>2, <1>9 DEF GameRec
<1>11. /\ H \in GameRec /\ H.seats = seats /\ H.told = [G.told EXCEPT ![u] = said] /\ H.name = G.name
       /\ H.ref = G.ref /\ H.status = G.status /\ H.starters = G.starters /\ H.clean = G.clean /\ H.owner = G.owner
  <2> HIDE DEF G, said, seats
  <2> QED BY <1>2, <1>8, <1>9 DEF GameRec
<1>12. m = [s EXCEPT !.games = [s.games EXCEPT ![g] = G1]]
  BY <1>1, <1>2 DEF Told, StateRec, GameRec
<1> HIDE DEF m, G1
<1>13. m.games = [s.games EXCEPT ![g] = G1] /\ m.games[g] = G1 /\ m \in StateRec
  <2>1. [s.games EXCEPT ![g] = G1] \in [Games -> GameRec] /\ [s.games EXCEPT ![g] = G1][g] = G1
    BY <1>1, <1>2, <1>10, SMTT(40)
  <2> HIDE DEF G, g
  <2> QED BY <1>1, <1>12, <2>1 DEF StateRec
<1>14. t = [m EXCEPT !.games = [m.games EXCEPT ![g] = H]]
  <2>1. m.games[g].seats = G.seats
    BY <1>10, <1>13
  <2>2. t = [m EXCEPT !.games[g].seats[at].report = IF @ = <<>> THEN results ELSE @]
    BY <2>1, SMTT(40) DEF game_set_reported_results, at
  <2>3. t = [m EXCEPT !.games[g].seats[at].report = report]
    BY <2>1, <2>2
  <2> HIDE DEF report, G
  <2> QED BY <1>2, <1>5, <1>10, <1>13, <2>1, <2>3 DEF StateRec, GameRec
<1> HIDE DEF t, said, seats, report, H
<1>15. /\ t.games = [s.games EXCEPT ![g] = H] /\ t.list = s.list /\ t.ended = s.ended
       /\ t.game = s.game /\ t \in StateRec
  <2>1. [m.games EXCEPT ![g] = H] = [s.games EXCEPT ![g] = H]
    BY <1>1, <1>2, <1>13
  <2>2. [s.games EXCEPT ![g] = H] \in [Games -> GameRec]
    BY <1>1, <1>11
  <2>3. m.list = s.list /\ m.ended = s.ended /\ m.game = s.game
    <3> HIDE DEF g, G
    <3> QED BY <1>1, <1>12 DEF StateRec
  <2> HIDE DEF g, G
  <2> QED BY <1>13, <1>14, <2>1, <2>2, <2>3 DEF StateRec
<1>16. /\ GameOK(H) /\ On(H) = On(G)
       /\ \A i \in DOMAIN H.seats : i \in DOMAIN G.seats /\ H.seats[i].acc = G.seats[i].acc
       /\ \A i \in DOMAIN H.seats : H.seats[i].report # <<>> => H.seats[i].report = G.seats[i].report \/ H.seats[i].acc = u
  <2>1. G.seats[k].report = <<>>
    BY <1>2, SMTT(40) DEF Reports
  <2>2. Agree(G, u, results, told)
    OBVIOUS
  <2>4. H.seats = [G.seats EXCEPT ![at] = [G.seats[at] EXCEPT !.report = IF @ = <<>> THEN results ELSE @]]
    BY <1>11, Zenon DEF seats, report
  <2>5. H.told = [G.told EXCEPT ![u] = IF G.clean THEN told ELSE <<>>]
    BY <1>11 DEF said
  <2>6. at = FirstSeat(G.seats, u)
    BY DEF at
  <2> HIDE DEF G, g
  <2>7. Telling(G, u, at, results, told, H)
    BY <1>11, <2>2, <2>4, <2>5, <2>6, SMTT(40) DEF Telling
  <2> QED BY <1>2, <1>4, <2>1, <2>7, Reported, SMTT(40)
<1>17. \A i \in On(H) : t.game[H.seats[i].acc] = g
  <2> SUFFICES ASSUME NEW i \in On(H) PROVE t.game[H.seats[i].acc] = g
    BY Zenon, ZenonT(60)
  <2>1. i \in On(s.games[g]) /\ H.seats[i].acc = s.games[g].seats[i].acc
    BY <1>16 DEF On
  <2>2. s.game[s.games[g].seats[i].acc] = g
    BY <1>1, <1>2, <2>1, ZenonT(60) DEF Seating
  <2> QED BY <1>15, <2>1, <2>2
<1>18. \A v \in Players : t.game[v] = g => \E i \in On(H) : H.seats[i].acc = v
  <2> SUFFICES ASSUME NEW v \in Players, s.game[v] = g PROVE \E i \in On(H) : H.seats[i].acc = v
    BY <1>15
  <2>1. g # NotInGame
    OBVIOUS
  <2>2. PICK i \in On(G) : G.seats[i].acc = v
    <3> HIDE DEF g
    <3> QED BY <1>1, <2>1, SMTT(40) DEF Seating
  <2>3. i \in On(H) /\ i \in DOMAIN H.seats
    BY <1>16 DEF On
  <2> QED BY <1>16, <2>2, <2>3
<1>19. /\ t.games[g] = H /\ \A h \in Games : h # g => t.games[h] = s.games[h]
  BY <1>1, <1>2, <1>15
<1>20. \A i \in On(H) : H.seats[i].report # <<>> => H.seats[i].acc \in {u}
  <2>1. \A i \in On(G) : G.seats[i].report = <<>>
    BY <1>2, SMTT(40) DEF Reports
  <2> HIDE DEF G
  <2> QED BY <1>16, <2>1, SMTT(40) DEF On
<1>21. H.name \in GameNames /\ s.game[u] \in {NotInGame, g} /\ s.games[g] # NoGame /\ g \in Games
  BY <1>2, <1>11
<1> HIDE DEF g, G
<1>22. t.game[u] \in {NotInGame, g} /\ \A v \in Players : v # u => t.game[v] = s.game[v]
  BY <1>15, <1>21
<1>23. Changes(s, t, g, u, H)
  BY <1>15, <1>16, <1>17, <1>18, <1>19, <1>21, <1>22 DEF Changes
<1>24. /\ StateOK(t)
       /\ \A W, V : Reports(s, W) /\ W \ {u} \subseteq V
                      /\ (\A i \in On(H) : H.seats[i].report # <<>> => H.seats[i].acc \in V)
                    => Reports(t, V)
  BY <1>23, Replaced
<1>25. {} \ {u} \subseteq {u}
  OBVIOUS
<1>26. Reports(t, {u})
  BY <1>20, <1>24, <1>25
<1> QED BY <1>15, <1>24, <1>26 DEF t, m, g

\* A player is put in a game of some name, that there is or that there is room for.
LEMMA GameSet ==
  ASSUME NEW s, StateOK(s), Reports(s, {}), NEW u \in Players, NEW name \in GameNames,
         NEW ladder \in BOOLEAN, NEW refused \in BOOLEAN,
         \/ gamelist_find_game_available(s, name, BOOLEAN) # NotInGame
         \/ s.game[u] = NotInGame /\ \E g \in Games : s.games[g] = NoGame
  PROVE  LET t == conn_set_game(s, u, name, ladder, refused)
         IN  /\ StateOK(t) /\ Reports(t, {})
             /\ (/\ s.game[u] = NotInGame /\ ~refused
                 /\ gamelist_find_game_available(s, name, BOOLEAN) = NotInGame) => t.game[u] # NotInGame
<1> DEFINE own == s.game[u]
           left == IF own = NotInGame THEN s ELSE game_del_player(s, own, u)
           new == gamelist_find_game_available(left, name, BOOLEAN) = NotInGame
           m == IF new THEN game_create(left, name, ladder) ELSE left
           g == gamelist_find_game_available(m, name, {ladder})
           t == conn_set_game(s, u, name, ladder, refused)
<1>1. t = IF own # NotInGame /\ s.games[own].name = name THEN s
          ELSE IF g = NotInGame \/ refused THEN m ELSE game_add_player(m, g, u)
  BY DEF conn_set_game
<1>2. NotInGame \notin Games
  BY Parts DEF StateOK
<1>3. StateOK(left) /\ Reports(left, {}) /\ left.game[u] = NotInGame
  <2>1. CASE own = NotInGame
    BY <2>1
  <2>2. CASE own # NotInGame
    <3>1. Reports(s, {u})
      BY DEF Reports
    <3>2. LET h == s.game[u]
              l == game_del_player(s, h, u)
          IN  StateOK(l) /\ Reports(l, {}) /\ l.game[u] = NotInGame
      BY <2>2, <3>1, PlayerDeleted
    <3> QED BY <2>2, <3>2
  <2> QED BY <2>1, <2>2
<1>4. CASE own # NotInGame /\ s.games[own].name = name
  <2>1. t = s
    BY <1>1, <1>4
  <2> HIDE DEF t
  <2> QED BY <1>4, <2>1 DEF t
<1>5. CASE ~(own # NotInGame /\ s.games[own].name = name)
  <2>1. new => \E h \in Games : left.games[h] = NoGame
    <3>1. CASE own = NotInGame
      BY <3>1
    <3>2. CASE own # NotInGame
      <4> DEFINE h == gamelist_find_game_available(s, name, BOOLEAN)
      <4>1. h # NotInGame
        BY <3>2
      <4>2. h \in Games /\ s.games[h] # NoGame /\ s.games[h].name = name /\ s.games[h].ladder \in BOOLEAN
            /\ s.games[h].status \notin {"started", "done"}
        BY <4>1, FoundAvailable
      <4>3. h # own
        BY <1>5, <3>2, <4>2
      <4> HIDE DEF h
      <4>4. left.games[h] = s.games[h]
        <5>1. Reports(s, {u})
          BY DEF Reports
        <5>2. \A k \in Games : k # s.game[u] => game_del_player(s, s.game[u], u).games[k] = s.games[k]
          BY <3>2, <5>1, PlayerDeleted
        <5> QED BY <3>2, <4>2, <4>3, <5>2
      <4> HIDE DEF left
      <4>5. gamelist_find_game_available(left, name, BOOLEAN) # NotInGame
        <5>1. \/ gamelist_find_game_available(left, name, BOOLEAN) \in Games
              \/ \A k \in Games : left.games[k] # NoGame =>
                   ~(/\ left.games[k].name = name /\ left.games[k].ladder \in BOOLEAN
                     /\ left.games[k].status \notin {"started", "done"})
          BY <1>3, FoundAvailable
        <5> QED BY <1>2, <4>2, <4>4, <5>1
      <4> QED BY <4>5
    <3> QED BY <3>1, <3>2
  <2>2. CASE new
    <3> HIDE DEF left
    <3>1. m = game_create(left, name, ladder)
      BY <2>2
    <3>2. \E h \in Games : left.games[h] = NoGame
      BY <2>1, <2>2
    <3>3. /\ StateOK(m) /\ m.game = left.game
          /\ \E k \in Games : /\ m.games[k].name = name /\ m.games[k].ladder = ladder
                              /\ m.games[k].status = "open" /\ m.games[k] # NoGame
          /\ \A W : Reports(left, W) => Reports(m, W)
      BY <1>3, <3>1, <3>2, GameCreated
    <3> HIDE DEF m, new
    <3>4. m.game[u] = NotInGame /\ Reports(m, {})
      BY <1>3, <3>3
    <3>5. g \in Games /\ m.games[g] # NoGame
      <4>1. \/ g \in Games /\ m.games[g] # NoGame
            \/ \A k \in Games : m.games[k] # NoGame =>
                   ~(/\ m.games[k].name = name /\ m.games[k].ladder \in {ladder}
                     /\ m.games[k].status \notin {"started", "done"})
        BY <3>3, FoundAvailable
      <4> QED BY <3>3, <4>1
    <3> HIDE DEF g
    <3>6. CASE refused
      <4>1. t = m
        BY <1>1, <1>5, <3>6
      <4> HIDE DEF t
      <4> QED BY <3>3, <3>4, <3>6, <4>1 DEF t
    <3>7. CASE ~refused
      <4>1. t = game_add_player(m, g, u)
        BY <1>1, <1>2, <1>5, <3>5, <3>7
      <4>2. StateOK(t) /\ Reports(t, {}) /\ t.game[u] = g
        <5> HIDE DEF t
        <5> QED BY <3>3, <3>4, <3>5, <4>1, PlayerAdded
      <4> HIDE DEF t
      <4> QED BY <1>2, <3>5, <4>2 DEF t
    <3> QED BY <3>6, <3>7
  <2>3. CASE ~new
    <3>1. m = left
      BY <2>3
    <3>2. ~(own = NotInGame /\ gamelist_find_game_available(s, name, BOOLEAN) = NotInGame)
      BY <2>3
    <3> HIDE DEF m, new, left
    <3>3. \/ g \in Games /\ m.games[g] # NoGame
          \/ g = NotInGame
      BY <1>3, <3>1, FoundAvailable
    <3> HIDE DEF g
    <3>4. CASE g = NotInGame \/ refused
      <4>1. t = m
        BY <1>1, <1>5, <3>4
      <4> HIDE DEF t
      <4> QED BY <1>3, <3>1, <3>2, <4>1 DEF t
    <3>5. CASE ~(g = NotInGame \/ refused)
      <4>1. t = game_add_player(m, g, u)
        BY <1>1, <1>5, <3>5
      <4> HIDE DEF t
      <4>2. StateOK(t) /\ Reports(t, {}) /\ t.game[u] = g
        BY <1>3, <3>1, <3>3, <3>5, <4>1, PlayerAdded
      <4> QED BY <3>2, <4>2 DEF t
    <3> QED BY <3>4, <3>5
  <2> QED BY <2>2, <2>3
<1> QED BY <1>4, <1>5

-----------------------------------------------------------------------------
\* The steps.

\* A step begins without the news of a game that has ended.
LEMMA NowOK ==
  ASSUME StateOK(gs), Reports(gs, {})
  PROVE  StateOK(Now) /\ Reports(Now, {}) /\ Now.games = gs.games /\ Now.game = gs.game /\ Now.list = gs.list
<1>1. NoEnd \in EndRec /\ EndOK(NoEnd)
  BY DEF NoEnd, EndRec, EndOK
<1>2. gs \in StateRec
  BY DEF StateOK
<1>3. /\ Now \in StateRec /\ Now.games = gs.games /\ Now.game = gs.game /\ Now.list = gs.list
      /\ Now.ended = NoEnd
  BY <1>1, <1>2 DEF Now, StateRec
<1>4. Seating(Now)
  BY <1>3 DEF StateOK, Seating
<1>5. StateOK(Now)
  BY <1>1, <1>3, <1>4 DEF StateOK
<1> QED BY <1>3, <1>5 DEF Reports

\* What is found now is what was found.
LEMMA FoundNow ==
  ASSUME StateOK(gs), Reports(gs, {}), NEW name, NEW types
  PROVE  gamelist_find_game_available(Now, name, types) = gamelist_find_game_available(gs, name, types)
<1>1. Now.games = gs.games /\ Now.list = gs.list
  BY NowOK
<1> HIDE DEF Now
<1> QED BY <1>1 DEF gamelist_find_game_available, SelectInSeq

\* client_joingame.
LEMMA JoinGame ==
  ASSUME GameInv, NEW u \in Players, NEW name \in GameNames, NEW refused \in BOOLEAN,
         client_joingame(u, name, refused)
  PROVE  GameInv'
<1> DEFINE g == gamelist_find_game_available(gs, name, BOOLEAN)
           s == conn_set_game(Now, u, name, gs.games[g].ladder, refused)
<1>1. g # NotInGame /\ InRoom(s)
  BY DEF client_joingame
<1>2. StateOK(gs) /\ Reports(gs, {})
  BY DEF GameInv
<1>3. StateOK(Now) /\ Reports(Now, {}) /\ gamelist_find_game_available(Now, name, BOOLEAN) # NotInGame
  BY <1>1, <1>2, NowOK, FoundNow
<1>4. gs.games[g].ladder \in BOOLEAN
  BY <1>1, <1>2, FoundAvailable
<1> DEFINE ladder == gs.games[g].ladder
<1> HIDE DEF ladder, g
<1>5. ladder \in BOOLEAN /\ s = conn_set_game(Now, u, name, ladder, refused)
  BY <1>4 DEF ladder
<1> HIDE DEF s
<1>6. StateOK(s) /\ Reports(s, {})
  BY <1>3, <1>5, GameSet
<1> QED BY <1>1, <1>6 DEF GameInv, InRoom, InTheRoom

\* client_startgame.
LEMMA StartGame ==
  ASSUME GameInv, NEW u \in Players, NEW name \in GameNames, NEW ladder \in BOOLEAN, NEW refused \in BOOLEAN,
         client_startgame(u, name, ladder, refused)
  PROVE  GameInv'
<1> DEFINE s == conn_set_game(Now, u, name, ladder, refused)
<1>1. /\ gs.game[u] = NotInGame /\ InRoom(s)
      /\ \/ gamelist_find_game_available(gs, name, BOOLEAN) # NotInGame
         \/ \E g \in Games : gs.games[g] = NoGame
  BY DEF client_startgame, InGame, RoomFor
<1>2. StateOK(gs) /\ Reports(gs, {})
  BY DEF GameInv
<1>3. /\ StateOK(Now) /\ Reports(Now, {})
      /\ \/ gamelist_find_game_available(Now, name, BOOLEAN) # NotInGame
         \/ Now.game[u] = NotInGame /\ \E g \in Games : Now.games[g] = NoGame
  BY <1>1, <1>2, NowOK, FoundNow
<1>4. StateOK(s) /\ Reports(s, {})
  BY <1>3, GameSet
<1> HIDE DEF s
<1> QED BY <1>1, <1>4 DEF GameInv, InRoom, InTheRoom

\* client_startgame4 of a player who is in no game.
LEMMA StartGame4 ==
  ASSUME GameInv, NEW u \in Players, NEW name \in GameNames, NEW ladder \in BOOLEAN, NEW refused \in BOOLEAN,
         NEW status \in Statuses, client_startgame4(u, name, ladder, status, refused)
  PROVE  GameInv'
<1> DEFINE s == conn_set_game(Now, u, name, ladder, refused)
           t == IF refused THEN s ELSE game_set_status(s, s.game[u], status)
<1>1. /\ gs.game[u] = NotInGame /\ InRoom(t)
      /\ gamelist_find_game_available(gs, name, BOOLEAN) = NotInGame
      /\ \E g \in Games : gs.games[g] = NoGame
  BY DEF client_startgame4, InGame, RoomFor
<1>2. StateOK(gs) /\ Reports(gs, {})
  BY DEF GameInv
<1>3. /\ StateOK(Now) /\ Reports(Now, {})
      /\ gamelist_find_game_available(Now, name, BOOLEAN) = NotInGame
      /\ Now.game[u] = NotInGame /\ \E g \in Games : Now.games[g] = NoGame
  BY <1>1, <1>2, NowOK, FoundNow
<1>4. StateOK(s) /\ Reports(s, {}) /\ (~refused => s.game[u] # NotInGame)
  BY <1>3, GameSet
<1> HIDE DEF s
<1>5. StateOK(t) /\ Reports(t, {})
  <2>1. CASE refused
    BY <1>4, <2>1
  <2>2. CASE ~refused
    BY <1>4, <2>2, StatusChanged
  <2> QED BY <2>1, <2>2
<1> HIDE DEF t
<1> QED BY <1>1, <1>5 DEF GameInv, InRoom, InTheRoom

\* client_startgame_status and client_mapauthreq.
LEMMA SetStatus ==
  ASSUME GameInv, NEW u \in Players, NEW status \in Statuses,
         InGame(u), InRoom(game_set_status(Now, gs.game[u], status))
  PROVE  GameInv'
<1> DEFINE s == game_set_status(Now, gs.game[u], status)
<1>1. StateOK(Now) /\ Reports(Now, {}) /\ Now.game[u] = gs.game[u] /\ Now.game[u] # NotInGame
  BY NowOK DEF GameInv, InGame
<1>2. StateOK(s) /\ Reports(s, {})
  BY <1>1, StatusChanged
<1> HIDE DEF s
<1>3. InRoom(s)
  BY DEF s
<1> QED BY <1>2, <1>3 DEF GameInv, InRoom, InTheRoom

\* client_startgame4 of a player who is in a game.
LEMMA StartGame4Status ==
  ASSUME GameInv, NEW u \in Players, NEW name \in GameNames, NEW status \in Statuses \cup {"unknown"},
         client_startgame4_status(u, name, status)
  PROVE  GameInv'
<1> DEFINE g == gs.game[u]
           s == [Now EXCEPT !.games[g].name = name]
           t == IF status = "unknown" THEN s ELSE game_set_status(s, g, status)
<1>1. g # NotInGame /\ InRoom(t)
  BY DEF client_startgame4_status, InGame
<1>2. StateOK(Now) /\ Reports(Now, {}) /\ g = Now.game[u] /\ Now.game[u] # NotInGame
  BY <1>1, NowOK DEF GameInv
<1>3. s = [Now EXCEPT !.games[Now.game[u]].name = name]
  BY <1>2
<1> HIDE DEF g, s
<1>4. StateOK(s) /\ Reports(s, {}) /\ s.game = Now.game
  BY <1>2, <1>3, Renamed
<1>5. StateOK(t) /\ Reports(t, {})
  <2>1. CASE status = "unknown"
    BY <1>4, <2>1
  <2>2. CASE status # "unknown"
    <3>1. status \in Statuses /\ g = s.game[u] /\ s.game[u] # NotInGame
      BY <1>1, <1>2, <1>4, <2>2
    <3> QED BY <1>4, <2>2, <3>1, StatusChanged
  <2> QED BY <2>1, <2>2
<1> HIDE DEF t
<1> QED BY <1>1, <1>5 DEF GameInv, InRoom, InTheRoom

\* client_closegame, and conn_destroy when the game has not been started.
LEMMA CloseGame ==
  ASSUME GameInv, NEW u \in Players, InGame(u), InRoom(game_del_player(Now, gs.game[u], u))
  PROVE  GameInv'
<1> DEFINE s == game_del_player(Now, gs.game[u], u)
<1>1. StateOK(Now) /\ Reports(Now, {}) /\ Now.game[u] = gs.game[u] /\ Now.game[u] # NotInGame
  BY NowOK DEF GameInv, InGame
<1>2. Reports(Now, {u})
  BY <1>1, SMTT(40) DEF Reports
<1>3. StateOK(s) /\ Reports(s, {})
  BY <1>1, <1>2, PlayerDeleted
<1> HIDE DEF s
<1>4. InRoom(s)
  BY DEF s
<1> QED BY <1>3, <1>4 DEF GameInv, InRoom, InTheRoom

\* A player reports and leaves.
LEMMA ReportAndLeave ==
  ASSUME GameInv, NEW u \in Players, InGame(u), NEW results, NEW told,
         Agree(gs.games[gs.game[u]], u, results, told),
         InRoom(game_del_player(
           game_set_reported_results(Told(Now, gs.game[u], u, told), gs.game[u], u, results), gs.game[u], u))
  PROVE  GameInv'
<1> DEFINE g == gs.game[u]
           s == game_set_reported_results(Told(Now, g, u, told), g, u, results)
           t == game_del_player(s, g, u)
<1>1. StateOK(Now) /\ Reports(Now, {}) /\ Now.game[u] = g /\ Now.game[u] # NotInGame /\ Now.games = gs.games
  BY NowOK DEF GameInv, InGame
<1>2. Agree(Now.games[Now.game[u]], u, results, told)
  BY <1>1
<1>3. StateOK(s) /\ Reports(s, {u}) /\ s.game = Now.game
  BY <1>1, <1>2, ReportSet, SMTT(40)
<1>4. InRoom(t)
  OBVIOUS
<1> HIDE DEF s, g
<1>5. StateOK(t) /\ Reports(t, {})
  BY <1>1, <1>3, PlayerDeleted
<1> HIDE DEF t
<1> QED BY <1>4, <1>5 DEF GameInv, InRoom, InTheRoom

\* client_gamereport.
LEMMA GameReport ==
  ASSUME GameInv, NEW u \in Players, InGame(u),
         NEW report \in [gs.games[gs.game[u]].starters -> {"win", "loss"}], client_gamereport(u, report)
  PROVE  GameInv'
<1> DEFINE g == gs.game[u]
           G == gs.games[g]
           Of(i) == IF FirstSeat(G.seats, G.seats[i].acc) = i /\ G.seats[i].acc \in G.starters
                    THEN report[G.seats[i].acc] ELSE "none"
           results == [i \in DOMAIN G.seats |-> Of(i)]
<1>1. /\ u \in G.starters
      /\ InRoom(game_del_player(game_set_reported_results(Told(Now, g, u, report), g, u, results), g, u))
  BY Zenon DEF client_gamereport
<1>2. GameOK(G) /\ G \in GameRec
  BY OnHisSeat DEF GameInv, InGame
<1>3. DOMAIN G.seats \subseteq Nat /\ G.starters \subseteq Players
  BY <1>2, OnFinite, SMTT(40) DEF GameRec
<1>4. Agree(G, u, results, report)
  <2> HIDE DEF G
  <2>1. report \in [G.starters -> Results]
    BY DEF G, Results
  <2>2. report \in Tells
    BY <1>3, <2>1, SMTT(40) DEF Tells
  <2>3. results \in [DOMAIN G.seats -> Results]
    BY <2>1, SMTT(40) DEF Results
  <2>4. ASSUME G.clean, NEW i \in DOMAIN G.seats
        PROVE  results[i] = IF G.seats[i].acc \in G.starters THEN report[G.seats[i].acc] ELSE "none"
    <3>1. \A k, j \in DOMAIN G.seats : G.seats[k].acc = G.seats[j].acc => k = j
      BY <1>2, <2>4 DEF GameOK, CleanOK
    <3> DEFINE I == {j \in 1..Len(G.seats) : G.seats[j].acc = G.seats[i].acc}
    <3>2. I = {i}
      BY <1>2, <2>4, <3>1, OnFinite
    <3>3. FirstSeat(G.seats, G.seats[i].acc) = Min(I)
      BY <3>2 DEF FirstSeat, SelectInSeq
    <3>4. Min(I) = i
      BY <1>3, <2>4, <3>2, MinIn, ZenonT(60)
    <3> QED BY <2>4, <3>3, <3>4, SMTT(40)
  <2> QED BY <1>1, <2>1, <2>2, <2>3, <2>4, Zenon DEF Agree
<1> HIDE DEF results
<1> QED BY <1>1, <1>4, ReportAndLeave

\* conn_destroy.
LEMMA ConnDestroy ==
  ASSUME GameInv, NEW u \in Players, conn_destroy(u)
  PROVE  GameInv'
<1> DEFINE g == gs.game[u]
           G == gs.games[g]
           results == [i \in DOMAIN G.seats |-> IF G.seats[i].acc = u THEN "disconnect" ELSE "none"]
           told == [p \in G.starters |-> IF p = u THEN "disconnect" ELSE "none"]
           s == Told(Now, g, u, told)
<1>1. /\ InGame(u)
      /\ InRoom(game_del_player(IF G.status = "started" THEN game_set_reported_results(s, g, u, results)
                                ELSE Now, g, u))
  BY Zenon DEF conn_destroy
<1>2. CASE G.status = "started"
  <2>1. GameOK(G) /\ G \in GameRec /\ \E i \in On(G) : G.seats[i].acc = u
    BY <1>1, OnHisSeat, Zenon DEF GameInv, InGame
  <2>2. G.starters \subseteq Players
    BY <2>1 DEF GameRec
  <2>3. Agree(G, u, results, told)
    <3> HIDE DEF G
    <3>1. told \in [G.starters -> Results] /\ results \in [DOMAIN G.seats -> Results]
      BY DEF Results
    <3>2. told \in Tells
      BY <2>2, <3>1 DEF Tells
    <3>3. G.clean => u \in G.starters
      BY <1>2, <2>1 DEF GameOK, CleanOK
    <3>4. ASSUME G.clean, NEW i \in DOMAIN G.seats
          PROVE  results[i] = IF G.seats[i].acc \in G.starters THEN told[G.seats[i].acc] ELSE "none"
      BY <3>3, <3>4, SMTT(40)
    <3> QED BY <3>1, <3>2, <3>3, <3>4 DEF Agree
  <2>4. InRoom(game_del_player(game_set_reported_results(Told(Now, g, u, told), g, u, results), g, u))
    BY <1>1, <1>2, ZenonT(60)
  <2> HIDE DEF results, told
  <2> QED BY <1>1, <2>3, <2>4, ReportAndLeave
<1>3. CASE G.status # "started"
  <2>1. InRoom(game_del_player(Now, g, u))
    BY <1>1, <1>3
  <2> QED BY <1>1, <2>1, CloseGame
<1> QED BY <1>2, <1>3

\* At first there is no game.
LEMMA AtFirst ==
  ASSUME GameInit
  PROVE  GameInv
<1>1. /\ gs.games = [g \in Games |-> NoGame] /\ gs.list = <<>>
      /\ gs.game = [u \in Players |-> NotInGame] /\ gs.ended = NoEnd
      /\ gs = [games |-> gs.games, list |-> gs.list, game |-> gs.game, ended |-> gs.ended]
  BY DEF GameInit
<1>2. NoEnd \in EndRec /\ EndOK(NoEnd)
  BY DEF NoEnd, EndRec, EndOK
<1>3. GameOK(NoGame) /\ On(NoGame) = {} /\ NoGame \in GameRec /\ NoGame.seats = <<>>
  <2>1. GameOK(NoGame) /\ On(NoGame) = {}
    BY NewGame DEF NoGame
  <2>2. NoGame.seats = <<>>
    BY DEF NoGame, Created
  <2> QED BY <2>1, <2>2 DEF GameOK
<1> HIDE DEF NoGame
<1>4. gs \in StateRec
  <2>1. gs.games \in [Games -> GameRec]
    BY <1>1, <1>3
  <2>2. gs.game \in [Players -> Games \cup {NotInGame}]
    BY <1>1
  <2>3. gs.list \in Seq(Games)
    BY <1>1
  <2> QED BY <1>1, <1>2, <2>1, <2>2, <2>3 DEF StateRec
<1>5. IsInjective(gs.list) /\ ToSet(gs.list) = {g \in Games : gs.games[g] # NoGame}
  <2>1. DOMAIN gs.list = {}
    BY <1>1
  <2> QED BY <1>1, <2>1 DEF IsInjective, ToSet
<1>6. Seating(gs)
  BY <1>1, <1>3 DEF Seating
<1>7. StateOK(gs)
  BY <1>1, <1>2, <1>3, <1>4, <1>5, <1>6 DEF StateOK
<1>8. Reports(gs, {})
  BY <1>1, <1>3 DEF Reports
<1>9. InTheRoom(gs)
  <2>1. Len(NoGame.seats) = 0 /\ 0 <= MaxSeats
    BY <1>3, GameAssumption
  <2> QED BY <1>1, <2>1 DEF InTheRoom
<1> QED BY <1>7, <1>8, <1>9 DEF GameInv

\* A step keeps the invariant.
LEMMA NextKeeps == GameInv /\ [GameNext]_gs => GameInv'
<1> SUFFICES ASSUME GameInv, [GameNext]_gs PROVE GameInv'
  OBVIOUS
<1>1. CASE UNCHANGED gs
  BY <1>1, SMTT(40) DEF GameInv
<1>2. CASE GameNext
  <2> PICK u \in Players :
    \/ \E name \in GameNames, refused \in BOOLEAN :
         \/ client_joingame(u, name, refused)
         \/ \E ladder \in BOOLEAN :
              \/ client_startgame(u, name, ladder, refused)
              \/ \E status \in {"open", "full", "loaded"} :
                   client_startgame4(u, name, ladder, status, refused)
    \/ \E status \in {"started", "full", "open", "done"} : client_startgame_status(u, status)
    \/ \E name \in GameNames, status \in {"started", "full", "open", "unknown"} :
         client_startgame4_status(u, name, status)
    \/ client_mapauthreq(u) \/ client_closegame(u) \/ conn_destroy(u)
    \/ /\ InGame(u)
       /\ \E report \in [gs.games[gs.game[u]].starters -> {"win", "loss"}] : client_gamereport(u, report)
    BY <1>2 DEF GameNext
  <2>1. ASSUME NEW name \in GameNames, NEW refused \in BOOLEAN, client_joingame(u, name, refused) PROVE GameInv'
    BY <2>1, JoinGame
  <2>2. ASSUME NEW name \in GameNames, NEW refused \in BOOLEAN, NEW ladder \in BOOLEAN,
               client_startgame(u, name, ladder, refused)
        PROVE  GameInv'
    BY <2>2, StartGame
  <2>3. ASSUME NEW name \in GameNames, NEW refused \in BOOLEAN, NEW ladder \in BOOLEAN,
               NEW status \in {"open", "full", "loaded"}, client_startgame4(u, name, ladder, status, refused)
        PROVE  GameInv'
    <3>1. status \in Statuses
      BY DEF Statuses
    <3> QED BY <2>3, <3>1, StartGame4
  <2>4. ASSUME NEW status \in {"started", "full", "open", "done"}, client_startgame_status(u, status)
        PROVE  GameInv'
    <3>1. status \in Statuses
      BY DEF Statuses
    <3> QED BY <2>4, <3>1, SetStatus DEF client_startgame_status
  <2>5. ASSUME NEW name \in GameNames, NEW status \in {"started", "full", "open", "unknown"},
               client_startgame4_status(u, name, status)
        PROVE  GameInv'
    <3>1. status \in Statuses \cup {"unknown"}
      BY DEF Statuses
    <3> QED BY <2>5, <3>1, StartGame4Status
  <2>6. CASE client_mapauthreq(u)
    <3>1. "started" \in Statuses
      BY DEF Statuses
    <3> QED BY <2>6, <3>1, SetStatus DEF client_mapauthreq
  <2>7. CASE client_closegame(u)
    BY <2>7, CloseGame DEF client_closegame
  <2>8. CASE conn_destroy(u)
    BY <2>8, ConnDestroy, SMTT(40)
  <2>9. ASSUME InGame(u), NEW report \in [gs.games[gs.game[u]].starters -> {"win", "loss"}],
               client_gamereport(u, report)
        PROVE  GameInv'
    BY <2>9, GameReport
  <2> QED BY <2>1, <2>2, <2>3, <2>4, <2>5, <2>6, <2>7, <2>8, <2>9, SMTT(40)
<1> QED BY <1>1, <1>2

-----------------------------------------------------------------------------
\* The theorems.

\* Every state that is reached is in order: the games, the list, the seats and the
\* players agree, and what a game without latecomers keeps is what was told of it.
THEOREM GameInvHolds == GameSpec => []GameInv
<1>1. GameInit => GameInv
  BY AtFirst
<1> QED BY <1>1, NextKeeps, PTL DEF GameSpec

\* The list has the games there are, and all values are of their types (game_create,
\* game_destroy, game_add_player, game_del_player).
THEOREM GameTypeCorrect == GameSpec => []GameTypeOK
<1>1. GameInv => GameTypeOK
  <2> SUFFICES ASSUME GameInv PROVE GameTypeOK
    OBVIOUS
  <2>1. StateOK(gs) /\ InTheRoom(gs) /\ gs \in StateRec
    BY DEF GameInv, StateOK
  <2>2. ASSUME NEW g \in Games
        PROVE  LET G == gs.games[g]
               IN  /\ G.name \in GameNames \cup {Nobody} /\ G.ladder \in BOOLEAN
                   /\ G.status \in {"open", "full", "loaded", "started", "done"}
                   /\ G.ref \in 0..MaxSeats /\ G.owner \in Players \cup {Nobody}
                   /\ \A i \in DOMAIN G.seats : /\ G.seats[i].acc \in Players
                                                /\ G.seats[i].report \in Seq(Results)
                   /\ G.starters \subseteq Players
    <3> DEFINE G == gs.games[g]
    <3>1. G \in GameRec /\ GameOK(G) /\ Len(G.seats) <= MaxSeats
      BY <2>1, Parts DEF StateOK, InTheRoom
    <3> HIDE DEF G
    <3>2. G.ref = Cardinality(On(G))
      BY <3>1 DEF GameOK, SeatsOK
    <3>3. G.ref \in 0..MaxSeats
      BY <3>1, <3>2, OnFinite, GameAssumption
    <3>4. \A i \in DOMAIN G.seats : G.seats[i].acc \in Players /\ G.seats[i].report \in Seq(Results)
      BY <3>1, OnFinite DEF SeatRec
    <3>5. /\ G.name \in GameNames \cup {Nobody} /\ G.ladder \in BOOLEAN
          /\ G.status \in {"open", "full", "loaded", "started", "done"}
          /\ G.owner \in Players \cup {Nobody} /\ G.starters \subseteq Players
      BY <3>1 DEF GameRec, Statuses
    <3> QED BY <3>3, <3>4, <3>5 DEF G
  <2>3. ToSet(gs.list) = {g \in Games : gs.games[g] # NoGame}
    BY <2>1 DEF StateOK
  <2>4. gs.game \in [Players -> Games \cup {NotInGame}]
    BY <2>1, Parts, SMTT(40)
  <2> QED BY <2>2, <2>3, <2>4 DEF GameTypeOK
<1> QED BY <1>1, GameInvHolds, PTL

\* Every player of a game is on one seat of it and on none of another, the count is that of
\* the seats that are taken and the owner is on the first of them; who has reported is not on
\* his seat, and a report has a result for each seat (game_add_player, game_del_player,
\* game_choose_host, game_set_reported_results).
THEOREM SeatedPlayers == GameSpec => []PlayersAreSeated
<1>1. GameInv => PlayersAreSeated
  <2> SUFFICES ASSUME GameInv PROVE PlayersAreSeated
    OBVIOUS
  <2>1. StateOK(gs) /\ Reports(gs, {}) /\ Seating(gs) /\ gs \in StateRec
    BY SMTT(40) DEF GameInv, StateOK
  <2>2. ASSUME NEW g \in Games
        PROVE  LET G == gs.games[g]
                   on == {i \in DOMAIN G.seats : G.seats[i].here}
               IN  /\ G.ref = Cardinality(on)
                   /\ \A i \in on : /\ gs.game[G.seats[i].acc] = g
                                    /\ \A j \in on : G.seats[i].acc = G.seats[j].acc => i = j
                   /\ G.seats # <<>> => \E i \in on : G.owner = G.seats[i].acc /\ \A j \in on : i <= j
                   /\ \A i \in DOMAIN G.seats : G.seats[i].report # <<>> =>
                        ~G.seats[i].here /\ Len(G.seats[i].report) = Len(G.seats)
    <3> DEFINE G == gs.games[g]
    <3>1. GameOK(G)
      BY <2>1 DEF StateOK
    <3>2. \A i \in On(G) : gs.game[G.seats[i].acc] = g /\ G.seats[i].report = <<>>
      BY <2>1 DEF Seating, Reports
    <3> HIDE DEF G
    <3>3. SeatsOK(G)
      BY <3>1 DEF GameOK
    <3>4. \A i \in DOMAIN G.seats : G.seats[i].report # <<>> =>
                        ~G.seats[i].here /\ Len(G.seats[i].report) = Len(G.seats)
      BY <3>2, <3>3 DEF SeatsOK, On
    <3>5. On(G) = {i \in DOMAIN G.seats : G.seats[i].here}
      BY DEF On
    <3>6. /\ G.ref = Cardinality(On(G))
          /\ \A i \in On(G) : /\ gs.game[G.seats[i].acc] = g
                              /\ \A j \in On(G) : G.seats[i].acc = G.seats[j].acc => i = j
          /\ G.seats # <<>> => \E i \in On(G) : G.owner = G.seats[i].acc /\ \A j \in On(G) : i <= j
      BY <3>2, <3>3, SMTT(40) DEF SeatsOK
    <3> QED BY <3>4, <3>5, <3>6, ZenonT(60) DEF G
  <2>3. ASSUME NEW u \in Players, InGame(u)
        PROVE  u \in Here(gs.games[gs.game[u]].seats)
    <3>1. \E i \in On(gs.games[gs.game[u]]) : gs.games[gs.game[u]].seats[i].acc = u
      BY <2>1, <2>3, SMTT(40) DEF Seating, InGame
    <3> QED BY <3>1 DEF Here, On
  <2> QED BY <2>2, <2>3 DEF PlayersAreSeated
<1> QED BY <1>1, GameInvHolds, PTL

\* The results that the accounts are given at the end of a game are what its players have
\* said (game_report, game_evaluate_results, game_sanity_check, conn_destroy).
THEOREM ReportedResults == GameSpec => []ResultsAreReported
<1>1. GameInv => ResultsAreReported
  BY DEF GameInv, StateOK, EndOK, ResultsAreReported
<1> QED BY <1>1, GameInvHolds, PTL
=============================================================================
