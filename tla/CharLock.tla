------------------------------ MODULE CharLock ------------------------------
(***************************************************************************)
(* What the character lock table of d2dbs promises (src/d2dbs/charlock.h): *)
(* a closed-realm character is locked by at most one game server, only     *)
(* that server's id releases it, and a lock is never handed over while it  *)
(* is held.  The operators are the calls as the packet handlers see them;  *)
(* CharLockList has the hash chains and per-server lists behind them.      *)
(***************************************************************************)
EXTENDS Naturals

CONSTANTS Chars,    \* character names
          Gsids     \* ids a game server connection can have

\* dbs_packet_gs_id is incremented before it is handed out, so 0 is free to
\* stand for "no entry in the table".
NoGs == 0

ASSUME GsidsAssumption == Gsids \subseteq (Nat \ {NoGs})

VARIABLE lock       \* the lock table: [Chars -> Gsids \cup {NoGs}]

LockTables == [Chars -> Gsids \cup {NoGs}]

-----------------------------------------------------------------------------
\* The four calls, as functions of the table.

IsLocked(lk, c) == lk[c] # NoGs

\* Returns 0 whether the entry is new or somebody else's.
LockChar(lk, c, g) == IF IsLocked(lk, c) THEN lk ELSE [lk EXCEPT ![c] = g]

\* Releasing by name alone.
Mut_UnlockChar(lk, c, g) == [lk EXCEPT ![c] = NoGs]

UnlockChar(lk, c, g) == IF lk[c] = g THEN [lk EXCEPT ![c] = NoGs] ELSE lk

UnlockAllByGsids(lk, G) == [c \in DOMAIN lk |-> IF lk[c] \in G THEN NoGs ELSE lk[c]]

-----------------------------------------------------------------------------
\* The table on its own, driven by any sequence of calls.

LockInit == lock = [c \in Chars |-> NoGs]

Lock(c, g) == lock' = LockChar(lock, c, g)
Unlock(c, g) == lock' = UnlockChar(lock, c, g)
UnlockAll(g) == lock' = UnlockAllByGsids(lock, {g})

LockNext == \E g \in Gsids :
               \/ UnlockAll(g)
               \/ \E c \in Chars : Lock(c, g) \/ Unlock(c, g)

LockSpec == LockInit /\ [][LockNext]_lock
=============================================================================
