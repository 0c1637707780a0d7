-------------------------------- MODULE Game --------------------------------
(***************************************************************************)
(* The games of bnetd: their players by seat, the status that any of them  *)
(* may set, the results that each reports when he leaves, and what is made *)
(* of these for the accounts when the last one has left (src/bnetd/        *)
(* game.cpp), by the requests of the clients (handle_bnet.cpp) and the end *)
(* of a connection (connection.cpp).                                       *)
(*                                                                         *)
(* All clients are of one kind, whose results are counted here (StarCraft, *)
(* for one).  A missing authority and a realm change nothing but that a    *)
(* request is refused.  Whether the password is right, and whether a       *)
(* player has won the ten games that a ladder game asks for, is open.      *)
(* Draws are left out.                                                     *)
(***************************************************************************)
EXTENDS Integers, FiniteSets, Sequences, SequencesExt

CONSTANTS
  Players, GameNames,
  MaxGames, MaxSeats    \* the games that fit in the memory, their seats (bounds)

\* NULL, where the code has it for a player or a name.
Nobody == "nobody"

ASSUME GameAssumption == /\ MaxGames \in Nat \ {0} /\ MaxSeats \in Nat \ {0}
                         /\ Nobody \notin Players \cup GameNames

VARIABLE gs    \* the games, their list, and the game of each player

-----------------------------------------------------------------------------
Games == 1..MaxGames
NotInGame == 0

\* A seat is kept when its player has left, with his account and his results.
Seat(u) == [acc |-> u, here |-> TRUE, report |-> <<>>]

\* The last three are history: who was there when the game was first started,
\* what each of them told of the results, and whether each account has had one seat,
\* taken before that.
Created(name, ladder) ==
  [name |-> name, ladder |-> ladder, status |-> "open", seats |-> <<>>, ref |-> 0,
   owner |-> Nobody, starters |-> {}, told |-> [u \in Players |-> <<>>], clean |-> TRUE]
NoGame == Created(Nobody, FALSE)

\* ended is history: the game that the last step has ended, and the results given.
NoEnd == [clean |-> FALSE, ladder |-> FALSE, starters |-> {}, told |-> <<>>, given |-> {}]

GameInit == gs = [games |-> [g \in Games |-> NoGame], list |-> <<>>,
                  game |-> [u \in Players |-> NotInGame], ended |-> NoEnd]

-----------------------------------------------------------------------------
\* The operations, as functions on s, the value of gs.
FirstSeat(seats, u) == SelectInSeq(seats, LAMBDA x : x.acc = u)
Here(seats) == {seats[i].acc : i \in {j \in DOMAIN seats : seats[j].here}}

\* A ladder game or one of the others.
gamelist_find_game_available(s, name, types) ==
  LET at == SelectInSeq(s.list, LAMBDA g : /\ s.games[g].name = name
                                           /\ s.games[g].ladder \in types
                                           /\ s.games[g].status \notin {"started", "done"})
  IN  IF at = 0 THEN NotInGame ELSE s.list[at]

game_choose_host(s, g) ==
  LET seats == s.games[g].seats
      at == SelectInSeq(seats, LAMBDA x : x.here)
  IN  IF at = 0 THEN s ELSE [s EXCEPT !.games[g].owner = seats[at].acc]

\* The first seat that nobody is on, or a new one.
FreeSeat(seats) ==
  LET at == SelectInSeq(seats, LAMBDA x : ~x.here) IN IF at = 0 THEN Len(seats) + 1 ELSE at
game_add_player(s, g, u) ==
  LET G == s.games[g]
      at == FreeSeat(G.seats)
      others == {G.seats[i].acc : i \in DOMAIN G.seats \ {at}}
      H == [G EXCEPT !.seats = IF at > Len(@) THEN Append(@, Seat(u)) ELSE [@ EXCEPT ![at] = Seat(u)],
                     !.ref = @ + 1,
                     !.clean = @ /\ u \notin others /\ G.starters = {},
                     !.told = IF G.starters = {} THEN @ ELSE [v \in Players |-> <<>>]]
  IN  game_choose_host([s EXCEPT !.games[g] = H, !.game[u] = g], g)

game_set_status(s, g, status) ==
  LET G == s.games[g]
  IN  IF G.status = "done" /\ status # "done" THEN s
      ELSE [s EXCEPT !.games[g].status = status,
                     !.games[g].starters = IF status = "started" /\ @ = {} THEN Here(G.seats) ELSE @]

\* What most say, and the worst of that.  Ladder games are those where a player who
\* disconnects has lost.
game_evaluate_results(G, i) ==
  LET Say(r) == Cardinality({j \in DOMAIN G.seats :
                               G.seats[j].report # <<>> /\ G.seats[j].report[i] = r})
  IN  IF Say("win") + Say("loss") + Say("disconnect") = 0 THEN "none"
      ELSE IF Say("disconnect") >= Say("loss") /\ Say("disconnect") >= Say("win")
      THEN IF G.ladder THEN "loss" ELSE "disconnect"
      ELSE IF Say("loss") >= Say("win") THEN "loss" ELSE "win"

game_sanity_check(given) ==
  LET With(r) == Cardinality({x \in given : x.result = r})
  IN  /\ With("loss") >= 1 /\ With("win") >= 1
      /\ With("win") > 1 => With("win") = With("loss")

\* The results that accounts are given, each for a seat.
game_report(G) ==
  LET given == {x \in {[seat |-> i, acc |-> G.seats[i].acc, result |-> game_evaluate_results(G, i)] :
                         i \in DOMAIN G.seats} : x.result # "none"}
  IN  IF G.ladder /\ ~game_sanity_check(given) THEN {} ELSE given

game_destroy(s, g) ==
  [s EXCEPT !.games[g] = NoGame, !.list = RemoveFirst(@, g),
            !.ended = [clean |-> s.games[g].clean, ladder |-> s.games[g].ladder,
                       starters |-> s.games[g].starters, told |-> s.games[g].told,
                       given |-> game_report(s.games[g])]]

Mut_game_del_player(s, g, u) ==
  LET at == SelectInSeq(s.games[g].seats, LAMBDA x : x.acc = u /\ x.here)
      left == [s EXCEPT !.game[u] = NotInGame]
  IN  IF at = 0 THEN left
      ELSE IF s.games[g].ref < 2 THEN game_destroy(left, g)
      ELSE [left EXCEPT !.games[g].seats[at].here = FALSE, !.games[g].ref = @ - 1]
\* The last one who leaves ends the game.  The callers forget the game of the player
\* in any case.
game_del_player(s, g, u) ==
  LET at == SelectInSeq(s.games[g].seats, LAMBDA x : x.acc = u /\ x.here)
      left == [s EXCEPT !.game[u] = NotInGame]
  IN  IF at = 0 THEN left
      ELSE IF s.games[g].ref < 2 THEN game_destroy(left, g)
      ELSE game_choose_host([left EXCEPT !.games[g].seats[at].here = FALSE,
                                         !.games[g].ref = @ - 1], g)

\* The report of u, a result for each seat, goes to the first seat of his account, which
\* keeps the first one it gets.
game_set_reported_results(s, g, u, results) ==
  LET at == FirstSeat(s.games[g].seats, u)
  IN  [s EXCEPT !.games[g].seats[at].report = IF @ = <<>> THEN results ELSE @]

game_create(s, name, ladder) ==
  LET g == CHOOSE g \in Games : /\ s.games[g] = NoGame
                                /\ \A h \in 1..(g - 1) : s.games[h] # NoGame
  IN  [s EXCEPT !.games[g] = Created(name, ladder), !.list = <<g>> \o @]

\* A player who goes to a game of another name leaves the one where he is.  One who is
\* refused is in no game, and if he has created it, nobody is in that.
conn_set_game(s, u, name, ladder, refused) ==
  LET own == s.game[u]
      left == IF own = NotInGame THEN s ELSE game_del_player(s, own, u)
      new == gamelist_find_game_available(left, name, BOOLEAN) = NotInGame
      m == IF new THEN game_create(left, name, ladder) ELSE left
      g == gamelist_find_game_available(m, name, {ladder})
  IN  IF own # NotInGame /\ s.games[own].name = name THEN s
      ELSE IF g = NotInGame \/ refused THEN m
      ELSE game_add_player(m, g, u)

-----------------------------------------------------------------------------
\* The requests.
Now == [gs EXCEPT !.ended = NoEnd]
InRoom(s) == gs' = s /\ \A g \in Games : Len(gs'.games[g].seats) <= MaxSeats
RoomFor(name) == \/ gamelist_find_game_available(gs, name, BOOLEAN) # NotInGame
                 \/ \E g \in Games : gs.games[g] = NoGame
InGame(u) == gs.game[u] # NotInGame

client_joingame(u, name, refused) ==
  LET g == gamelist_find_game_available(gs, name, BOOLEAN)
  IN  /\ g # NotInGame
      /\ InRoom(conn_set_game(Now, u, name, gs.games[g].ladder, refused))

\* startgame1 and startgame3, from a player who is in a game and from one who is not.
client_startgame_status(u, status) ==
  /\ InGame(u) /\ InRoom(game_set_status(Now, gs.game[u], status))
client_startgame(u, name, ladder, refused) ==
  /\ ~InGame(u) /\ RoomFor(name)
  /\ refused => ladder \/ gamelist_find_game_available(gs, name, {ladder}) # NotInGame
  /\ InRoom(conn_set_game(Now, u, name, ladder, refused))

\* startgame4.  A game is given another name, whether another one has it or not.
client_startgame4_status(u, name, status) ==
  LET s == [Now EXCEPT !.games[gs.game[u]].name = name]
  IN  InGame(u) /\ InRoom(IF status = "unknown" THEN s ELSE game_set_status(s, gs.game[u], status))
client_startgame4(u, name, ladder, status, refused) ==
  /\ ~InGame(u) /\ (refused => ladder)
  /\ gamelist_find_game_available(gs, name, BOOLEAN) = NotInGame /\ RoomFor(name)
  /\ LET s == conn_set_game(Now, u, name, ladder, refused)
     IN  InRoom(IF refused THEN s ELSE game_set_status(s, s.game[u], status))

\* The check of the map, by either request for it.
client_mapauthreq(u) == InGame(u) /\ InRoom(game_set_status(Now, gs.game[u], "started"))

\* A game is closed; the player asks for the news, or enters a channel.
client_closegame(u) == InGame(u) /\ InRoom(game_del_player(Now, gs.game[u], u))

Told(s, g, u, told) == [s EXCEPT !.games[g].told[u] = IF s.games[g].clean THEN told ELSE <<>>]

\* After the game a client tells the results of those who were there when it was started,
\* himself included, and leaves.
client_gamereport(u, report) ==
  LET g == gs.game[u]
      G == gs.games[g]
      Of(i) == IF FirstSeat(G.seats, G.seats[i].acc) = i /\ G.seats[i].acc \in G.starters
               THEN report[G.seats[i].acc] ELSE "none"
      s == Told(Now, g, u, report)
  IN  /\ InGame(u) /\ u \in G.starters
      /\ InRoom(game_del_player(
           game_set_reported_results(s, g, u, [i \in DOMAIN G.seats |-> Of(i)]), g, u))

\* With game_set_self_report.
Mut_conn_destroy(u) ==
  LET g == gs.game[u]
      G == gs.games[g]
      results == [i \in DOMAIN G.seats |-> IF G.seats[i].acc = u THEN "disconnect" ELSE "none"]
      s == Told(Now, g, u, [p \in G.starters |-> IF p = u THEN "disconnect" ELSE "none"])
  IN  InGame(u) /\ InRoom(game_del_player(game_set_reported_results(s, g, u, results), g, u))
conn_destroy(u) ==
  LET g == gs.game[u]
      G == gs.games[g]
      results == [i \in DOMAIN G.seats |-> IF G.seats[i].acc = u THEN "disconnect" ELSE "none"]
      s == Told(Now, g, u, [p \in G.starters |-> IF p = u THEN "disconnect" ELSE "none"])
  IN  /\ InGame(u)
      /\ InRoom(game_del_player(IF G.status = "started" THEN game_set_reported_results(s, g, u, results)
                                ELSE Now, g, u))

GameNext ==
  \E u \in Players :
    \/ \E name \in GameNames, refused \in BOOLEAN :
         \/ client_joingame(u, name, refused)
         \/ \E ladder \in BOOLEAN :
              \/ client_startgame(u, name, ladder, refused)
              \/ \E status \in {"open", "full", "loaded"} :
                   client_startgame4(u, name, ladder, status, refused)
    \/ \E status \in {"started", "full", "open", "done"} : client_startgame_status(u, status)
    \/ \E name \in GameNames, status \in {"started", "full", "open", "unknown"} :
         client_startgame4_status(u, name, status)
    \/ client_mapauthreq(u) \/ client_closegame(u) \/ conn_destroy(u)
    \/ /\ InGame(u)
       /\ \E report \in [gs.games[gs.game[u]].starters -> {"win", "loss"}] : client_gamereport(u, report)

GameSpec == GameInit /\ [][GameNext]_gs

-----------------------------------------------------------------------------
Results == {"none", "win", "loss", "disconnect"}

\* The list has the games there are, and all values are of their types.
GameTypeOK ==
  /\ \A g \in Games :
       LET G == gs.games[g]
       IN  /\ G.name \in GameNames \cup {Nobody} /\ G.ladder \in BOOLEAN
           /\ G.status \in {"open", "full", "loaded", "started", "done"}
           /\ G.ref \in 0..MaxSeats /\ G.owner \in Players \cup {Nobody}
           /\ \A i \in DOMAIN G.seats : /\ G.seats[i].acc \in Players
                                        /\ G.seats[i].report \in Seq(Results)
           /\ G.starters \subseteq Players
  /\ ToSet(gs.list) = {g \in Games : gs.games[g] # NoGame}
  /\ gs.game \in [Players -> Games \cup {NotInGame}]

\* A player who is in a game has one seat there that he is on, and none in another; the count
\* of a game is that of those seats, and its owner is on the first of them.  A game
\* that nobody is in has never had a player.  A report has a result for each seat, also for
\* those that were added since, and whoever has reported is not on his seat any more.
PlayersAreSeated ==
  /\ \A g \in Games :
       LET G == gs.games[g]
           on == {i \in DOMAIN G.seats : G.seats[i].here}
       IN  /\ G.ref = Cardinality(on)
           /\ \A i \in on : /\ gs.game[G.seats[i].acc] = g
                            /\ \A j \in on : G.seats[i].acc = G.seats[j].acc => i = j
           /\ G.seats # <<>> => \E i \in on : G.owner = G.seats[i].acc /\ \A j \in on : i <= j
           /\ \A i \in DOMAIN G.seats : G.seats[i].report # <<>> =>
                ~G.seats[i].here /\ Len(G.seats[i].report) = Len(G.seats)
  /\ \A u \in Players : InGame(u) => u \in Here(gs.games[gs.game[u]].seats)

\* When a game that nobody has joined after its start has ended, the accounts that were
\* there then, and no other, are given results: each one that anybody has said something of,
\* one result, and one that somebody has said.
ResultsAreReported ==
  LET e == gs.ended
      Said(p) == {e.told[v][p] : v \in {w \in e.starters : e.told[w] # <<>>}} \ {"none"}
      Lost(p) == IF e.ladder /\ "disconnect" \in Said(p) THEN {"loss"} ELSE {}
  IN  e.clean =>
        /\ \A a, b \in e.given : a.acc = b.acc => a = b
        /\ {a.acc : a \in e.given} \subseteq e.starters
        /\ \A a \in e.given : a.result \in Said(a.acc) \cup Lost(a.acc)
        /\ e.given = {} \/ \A p \in e.starters : Said(p) # {} => \E a \in e.given : a.acc = p
        /\ e.ladder \/ \A p \in e.starters : Said(p) # {} => e.given # {}
=============================================================================
