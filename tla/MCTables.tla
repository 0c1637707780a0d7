------------------------------ MODULE MCTables ------------------------------
(***************************************************************************)
(* Two tables, each one alone: the locks of the characters (d2dbs) and the *)
(* games (bnetd).  A behaviour is one of one of them.                      *)
(***************************************************************************)
EXTENDS CharLockList, Game, TLC

CONSTANTS c1, c2, c3

VARIABLE table    \* the table that the behaviour is about

\* Three characters that share a hash bucket although their hashes differ,
\* three servers in two slots (ids 1 and 3 collide), a cell more than is used.
MCHash == (c1 :> 0) @@ (c2 :> 2) @@ (c3 :> 4)

MCInit == Init /\ GameInit /\ table \in {"locks", "games"}
MCNext ==
  /\ \/ table = "locks" /\ Next /\ UNCHANGED gs
     \/ table = "games" /\ GameNext /\ UNCHANGED vars
  /\ UNCHANGED table
MCSpec == MCInit /\ [][MCNext]_<<vars, gs, table>>

\* Both tables hold values of their types.
TablesTypeOK == TypeOK /\ GameTypeOK

-----------------------------------------------------------------------------
\* Players are alike, the names of games as well.
MCSymmetry == Permutations(Players) \cup Permutations(GameNames)

\* Games: one with everything that may happen to it, or two of three players without results.  In
\* one that players have come back to after the start, one of them reports at most.
Reported(G) == {i \in DOMAIN G.seats : G.seats[i].report # <<>>}
OneGame ==
  /\ ToSet(gs.list) \subseteq {1}
  /\ \A g \in Games :
       LET G == gs.games[g]
       IN  /\ G.status \in {"open", "started", "done"}
           /\ ~G.clean => ~G.ladder /\ Cardinality(Reported(G)) <= 1 /\ G.status # "done"
TwoGames ==
  /\ \A g \in Games :
       LET G == gs.games[g]
       IN  /\ G.status \in {"open", "started"} /\ Reported(G) = {}
           /\ G.status = "open" => G.starters = {}
  /\ Len(gs.games[1].seats) + Len(gs.games[2].seats) <= 3
MCRegions == OneGame \/ TwoGames
=============================================================================
