---------------------------- MODULE CharLockList ----------------------------
(***************************************************************************)
(* The lock table of src/d2dbs/charlock.cpp as it is stored: one           *)
(* t_charlockinfo per lock, linked into a singly linked hash chain         *)
(* (clitbl, "next") and into a doubly linked list per game server slot     *)
(* (gsqtbl, "gsqnext"/"gsqprev").  Two servers whose ids agree modulo      *)
(* gsqtbl_len share a slot.  d2dbs is single threaded: a call is a step,   *)
(* except that the loop of cl_unlock_all_char_by_gsid takes one step per   *)
(* iteration, with every other call disabled until it is over.             *)
(***************************************************************************)
EXTENDS Integers, Sequences, FiniteSets

CONSTANTS Chars,      \* character names
          Gsids,      \* game server ids
          MaxCells,   \* bound: cells malloc can hand out
          TblLen,     \* clitbl_len
          GsqLen,     \* gsqtbl_len
          Hash        \* string_hash(charname) for each character

ASSUME ListAssumption ==
  /\ MaxCells \in Nat /\ TblLen \in Nat \ {0} /\ GsqLen \in Nat \ {0}
  /\ Hash \in [Chars -> Nat]
  /\ Gsids \subseteq Nat \ {0}

VARIABLES clitbl,     \* heads of the hash chains
          gsqtbl,     \* heads of the per-server lists
          heap,       \* the allocated t_charlockinfo cells
          walk        \* cl_unlock_all_char_by_gsid: its gsid and pcl

vars == <<clitbl, gsqtbl, heap, walk>>

Null == 0
Cells == 1..MaxCells
Ptr == Cells \cup {Null}
CharLockInfo == [charname : Chars, gsid : Gsids, next : Ptr, gsqnext : Ptr, gsqprev : Ptr]

NoWalk == [gsid |-> 0, pcl |-> Null]
Idle == walk = NoWalk

\* The tables point at allocated cells only, and so does the loop's cursor:
\* no list head and no cursor outlives the cell it points to.
TypeOK == /\ clitbl \in [0..TblLen - 1 -> DOMAIN heap \cup {Null}]
          /\ gsqtbl \in [0..GsqLen - 1 -> DOMAIN heap \cup {Null}]
          /\ DOMAIN heap \subseteq Cells
          /\ \A p \in DOMAIN heap : heap[p] \in CharLockInfo
          /\ walk \in [gsid : Gsids, pcl : DOMAIN heap \cup {Null}] \cup {NoWalk}

\* cl_init: both tables are cleared.
Init == /\ clitbl = [h \in 0..TblLen - 1 |-> Null]
        /\ gsqtbl = [i \in 0..GsqLen - 1 |-> Null]
        /\ heap = <<>>
        /\ walk = NoWalk

-----------------------------------------------------------------------------
\* The cells met when following succ from head; Null leads to Null.  The walk is cut
\* after one cell more than there are, which only a cyclic list has.
ChainFrom(head, succ) ==
  LET at[n \in 1..MaxCells + 1] == IF n = 1 THEN head ELSE succ[at[n - 1]]
      met == {n \in 1..MaxCells + 1 : at[n] # Null}
  IN IF head = Null THEN <<>> ELSE [n \in 1..Cardinality(met) |-> at[n]]

Bucket(c) == Hash[c] % TblLen
Slot(g) == g % GsqLen

\* A freed cell leads nowhere.
HashChain(h) ==
  ChainFrom(clitbl[h], [p \in Ptr |-> IF p \in DOMAIN heap THEN heap[p].next ELSE Null])
GsqChain(s) ==
  ChainFrom(gsqtbl[s], [p \in Ptr |-> IF p \in DOMAIN heap THEN heap[p].gsqnext ELSE Null])

\* Position of the first cell of the chain that satisfies P; 0 if none does.
FirstIn(chain, P(_)) ==
  LET hits == {i \in 1..Len(chain) : P(chain[i])}
  IN IF hits = {} THEN 0 ELSE CHOOSE i \in hits : \A j \in hits : i <= j

cl_query_charlock_status(c) ==
  LET chain == HashChain(Bucket(c))
      i == FirstIn(chain, LAMBDA p : heap[p].charname = c)
  IN IF i = 0 THEN 0 ELSE heap[chain[i]].gsid

-----------------------------------------------------------------------------
\* cl_insert_to_gsq_list on the cells hp: push pcl on the front of its list.
InsertedIntoGsq(hp, g, pcl) ==
  LET old == gsqtbl[Slot(g)]
  IN IF old = Null THEN hp
     ELSE [hp EXCEPT ![pcl].gsqnext = old, ![old].gsqprev = pcl]

\* A slip such a list invites: the back pointer of the successor is forgotten.
Mut_DeletedKeepsPrev(pcl) ==
  [p \in DOMAIN heap |->
     IF p = heap[pcl].gsqprev THEN [heap[p] EXCEPT !.gsqnext = heap[pcl].gsqnext] ELSE heap[p]]

\* cl_delete_from_gsq_list: the cells after pcl's neighbours are joined.
DeletedFromGsq(pcl) ==
  LET prev == heap[pcl].gsqprev
      nxt == heap[pcl].gsqnext
  IN [p \in DOMAIN heap |-> [heap[p] EXCEPT !.gsqnext = IF p = prev THEN nxt ELSE @,
                                            !.gsqprev = IF p = nxt THEN prev ELSE @]]

\* Which free cell malloc returns is immaterial: addresses are not compared.
FreeCell == CHOOSE p \in Cells \ DOMAIN heap : \A q \in Cells \ DOMAIN heap : p <= q

\* Append a cell to its hash chain unless the character is in it already.
cl_lock_char(c, g) ==
  LET chain == HashChain(Bucket(c))
      new == FreeCell
      info == [charname |-> c, gsid |-> g, next |-> Null, gsqnext |-> Null, gsqprev |-> Null]
      stored == [p \in DOMAIN heap \cup {new} |-> IF p = new THEN info ELSE heap[p]]
  IN /\ Idle /\ Cells # DOMAIN heap
     /\ IF \E i \in 1..Len(chain) : heap[chain[i]].charname = c
        THEN UNCHANGED <<clitbl, gsqtbl, heap>>
        ELSE /\ clitbl' = IF chain = <<>> THEN [clitbl EXCEPT ![Bucket(c)] = new] ELSE clitbl
             /\ heap' = InsertedIntoGsq(IF chain = <<>> THEN stored
                                        ELSE [stored EXCEPT ![chain[Len(chain)]].next = new],
                                        g, new)
             /\ gsqtbl' = [gsqtbl EXCEPT ![Slot(g)] = new]
     /\ UNCHANGED walk

\* The cell cl_unlock_char looks for: the name and the owner must both match.
FoundOwned(chain, c, g) ==
  FirstIn(chain, LAMBDA p : heap[p].charname = c /\ heap[p].gsid = g)

\* The body of cl_unlock_char: unlink the cell from both lists and free it.
FreeLock(c, g) ==
  LET chain == HashChain(Bucket(c))
      i == FoundOwned(chain, c, g)
      pcl == chain[i]
      unq == DeletedFromGsq(pcl)
      linked == IF i = 1 THEN unq ELSE [unq EXCEPT ![chain[i - 1]].next = heap[pcl].next]
  IN IF i = 0 THEN UNCHANGED <<clitbl, gsqtbl, heap>>
     ELSE /\ clitbl' = IF i = 1 THEN [clitbl EXCEPT ![Bucket(c)] = heap[pcl].next] ELSE clitbl
          /\ gsqtbl' = IF heap[pcl].gsqprev = Null
                       THEN [gsqtbl EXCEPT ![Slot(heap[pcl].gsid)] = heap[pcl].gsqnext]
                       ELSE gsqtbl
          /\ heap' = [p \in DOMAIN heap \ {pcl} |-> linked[p]]

cl_unlock_char(c, g) == Idle /\ FreeLock(c, g) /\ UNCHANGED walk

\* cl_unlock_all_char_by_gsid: start at the head of the server's slot ...
UnlockAllBegin(g) ==
  /\ Idle
  /\ walk' = [gsid |-> g, pcl |-> gsqtbl[Slot(g)]]
  /\ UNCHANGED <<clitbl, gsqtbl, heap>>

\* A loop that stops at the first cell of another server in the shared slot.
Mut_StopsAtOtherServer ==
  /\ walk.pcl # Null
  /\ FreeLock(heap[walk.pcl].charname, walk.gsid)
  /\ walk' = [walk EXCEPT !.pcl = IF heap[walk.pcl].gsid = walk.gsid
                                  THEN heap[walk.pcl].gsqnext ELSE Null]

\* ... and per iteration take pnext before the cell may be freed.
UnlockAllIterate ==
  /\ walk.pcl # Null
  /\ FreeLock(heap[walk.pcl].charname, walk.gsid)
  /\ walk' = [walk EXCEPT !.pcl = heap[walk.pcl].gsqnext]

UnlockAllEnd == ~Idle /\ walk.pcl = Null /\ walk' = NoWalk /\ UNCHANGED <<clitbl, gsqtbl, heap>>

Next == \/ \E g \in Gsids :
              \/ UnlockAllBegin(g)
              \/ \E c \in Chars : cl_lock_char(c, g) \/ cl_unlock_char(c, g)
        \/ UnlockAllIterate
        \/ UnlockAllEnd

Spec == Init /\ [][Next]_vars

-----------------------------------------------------------------------------
\* Every allocated cell is in the hash chain of its name and in the list of
\* its server's slot, once in each, nothing else is in a list, and the back
\* pointers of a server list mirror its forward pointers (charlock.cpp keeps
\* one cell on two lists by hand).
ListsWellFormed ==
  /\ \A h \in 0..TblLen - 1 :
       LET chain == HashChain(h)
       IN \A p \in Cells : Cardinality({i \in 1..Len(chain) : chain[i] = p})
            = IF p \in DOMAIN heap /\ Bucket(heap[p].charname) = h THEN 1 ELSE 0
  /\ \A s \in 0..GsqLen - 1 :
       LET chain == GsqChain(s)
       IN /\ \A p \in Cells : Cardinality({i \in 1..Len(chain) : chain[i] = p})
               = IF p \in DOMAIN heap /\ Slot(heap[p].gsid) = s THEN 1 ELSE 0
          /\ \A i \in 1..Len(chain) :
               heap[chain[i]].gsqprev = IF i = 1 THEN Null ELSE chain[i - 1]

\* The cells implement the promised table: cl_query_charlock_status reads the
\* abstract owner of every character, and each call changes it as CharLock says.
\* All locks of a server go in one step, as cl_unlock_all_char_by_gsid begins: what
\* its loop does after that, in a list that loses cells under it and holds other
\* servers' cells too, is not seen, and nothing is left when it is over.
Owners == [c \in Chars |-> LET g == cl_query_charlock_status(c)
                           IN  IF g = walk.gsid THEN 0 ELSE g]
Abs == INSTANCE CharLock WITH lock <- Owners
ImplementsCharLock == Abs!LockSpec /\ [][~Idle => UNCHANGED Owners]_vars
=============================================================================
