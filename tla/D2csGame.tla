------------------------------ MODULE D2csGame ------------------------------
(***************************************************************************)
(* Games of a Diablo II realm: d2cs hands the games that players ask for   *)
(* to the game servers connected to it, lets players wait while all of     *)
(* them are full, and keeps a copy of the games and of who is in them      *)
(* (src/d2cs/game.cpp, d2gs.cpp, gamequeue.cpp, serverqueue.cpp,           *)
(* handle_d2gs.cpp and the game requests of handle_d2cs.cpp).  d2cs is one *)
(* thread: the handling of a packet or of a timer is one step.             *)
(*                                                                         *)
(* The game servers are external.  What is modelled of one is its side of  *)
(* the protocol: it makes, fills, empties and closes games, and may lose   *)
(* its connection or be started again.  The packets between it and d2cs    *)
(* are in two sequences per connection; what it had sent before a          *)
(* connection broke may still be read afterwards.                          *)
(***************************************************************************)
EXTENDS Integers, Sequences, FiniteSets, FiniteSetsExt, SequencesExt

CONSTANTS
  Clients,       \* session numbers of players; each is used once
  Names,         \* names of games
  Char,          \* the character of each client
  Dead,          \* characters that are hardcore and dead
  Ips,           \* addresses of game servers, all in the d2gs_list preference
  Conns,         \* connections of game servers that can be open at once (a bound)
  NoConn,
  MaxGames,      \* values of maxgame that a game server announces
  MaxChar,       \* maxchar of every game
  Multilogin,    \* the check_multilogin preference
  IdleGamesEnd,  \* max_game_idletime is not 0
  Overlap,       \* a game server may be back before d2cs has noticed it was gone
  MaxGameId, MaxGsId, MaxSeqno, MaxGid, MaxLink    \* bounds

ASSUME D2csGameAssumption ==
  /\ MaxGames \subseteq Nat /\ MaxChar \in Nat
  /\ Multilogin \in BOOLEAN /\ IdleGamesEnd \in BOOLEAN /\ Overlap \in BOOLEAN
  /\ NoConn \notin Conns
  /\ IsFiniteSet(Ips) /\ Cardinality(Ips) <= MaxGsId
  /\ {MaxGameId, MaxGsId, MaxSeqno, MaxGid, MaxLink} \subseteq Nat

VARIABLES
  online,        \* clients whose character is logged in
  gamequeue,     \* those with a gamequeue pointer
  gq,            \* gqlist: creations that wait for a server
  sqs,           \* sqlist: requests sent to a game server, by seqno
  games,         \* gamelist, by id; the list is in decreasing order of it
  gs,            \* d2gslist, by id
  conns,         \* connections of game servers with the packets under way
  last,          \* the last game id, d2gs id and seqno given out
  srv            \* game servers: their games, by their own numbers, and the next number

vars == <<online, gamequeue, gq, sqs, games, gs, conns, last, srv>>

Chars == {Char[u] : u \in Clients}

-----------------------------------------------------------------------------
\* The records.  Packets carry what their handler reads.

Game == [name : Names, d2gs : 1..MaxGsId, created : BOOLEAN, gid : 0..MaxGid,
         chars : SUBSET Chars]
D2gs == [ip : Ips, conn : Conns \cup {NoConn}, gamenum : Int, maxgame : Nat]
ToGs == [op : {"create"}, seqno : 1..MaxSeqno]
        \cup [op : {"join"}, seqno : 1..MaxSeqno, gid : 0..MaxGid, char : Chars]
FromGs == [op : {"auth"}]
          \cup [op : {"info"}, maxgame : MaxGames]
          \cup [op : {"created"}, seqno : 1..MaxSeqno, gid : 1..MaxGid]
          \cup [op : {"failed", "joined"}, seqno : 1..MaxSeqno]
          \cup [op : {"enter", "leave"}, gid : 1..MaxGid, char : Chars]
          \cup [op : {"close"}, gid : 1..MaxGid]
Connections == [d2gs : 1..MaxGsId, ip : Ips, authed : BOOLEAN, peer : BOOLEAN,
                in : Seq(FromGs), out : Seq(ToGs)]
ServerGame == [chars : SUBSET Chars, coming : SUBSET Chars]

TypeOK ==
  /\ online \subseteq Clients /\ gamequeue \subseteq online
  /\ gq \in Seq([client : Clients, name : Names])
  /\ DOMAIN sqs \subseteq 1..MaxSeqno
  /\ \A n \in DOMAIN sqs : sqs[n] \in [client : Clients, gameid : 1..MaxGameId]
  /\ DOMAIN games \subseteq 1..MaxGameId /\ \A i \in DOMAIN games : games[i] \in Game
  /\ DOMAIN gs \subseteq 1..MaxGsId /\ \A g \in DOMAIN gs : gs[g] \in D2gs
  /\ DOMAIN conns \subseteq Conns /\ \A k \in DOMAIN conns : conns[k] \in Connections
  /\ last \in [game : 0..MaxGameId, d2gs : 0..MaxGsId, seqno : 0..MaxSeqno]
  /\ \A a \in Ips : /\ srv[a].next \in 1..MaxGid + 1
                    /\ \A i \in DOMAIN srv[a].games : srv[a].games[i] \in ServerGame

Without(f, x) == [y \in DOMAIN f \ {x} |-> f[y]]
With(f, x, v) == [y \in DOMAIN f \cup {x} |-> IF y = x THEN v ELSE f[y]]

\* What the handlers work on and pass to each other.
State == [online |-> online, gamequeue |-> gamequeue, gq |-> gq, sqs |-> sqs,
          games |-> games, gs |-> gs, conns |-> conns, last |-> last]
Set(s) == /\ online' = s.online /\ gamequeue' = s.gamequeue /\ gq' = s.gq
          /\ sqs' = s.sqs /\ games' = s.games /\ gs' = s.gs
          /\ conns' = s.conns /\ last' = s.last

\* d2gslist_create.
Init ==
  /\ online = {} /\ gamequeue = {} /\ gq = <<>>
  /\ sqs = <<>> /\ games = <<>> /\ conns = <<>>
  /\ LET ips == SetToSeq(Ips)
     IN gs = [g \in 1..Len(ips) |-> [ip |-> ips[g], conn |-> NoConn, gamenum |-> 0, maxgame |-> 0]]
  /\ last = [game |-> 0, d2gs |-> Cardinality(Ips), seqno |-> 0]
  /\ srv = [a \in Ips |-> [next |-> 1, games |-> <<>>]]

-----------------------------------------------------------------------------
\* Finding things.

\* d2gs_active and d2gs_deactive set active, state and connection together.
Active(s, g) == g \in DOMAIN s.gs /\ s.gs[g].conn # NoConn
Room(s, g) == IF Active(s, g) THEN s.gs[g].maxgame - s.gs[g].gamenum ELSE 0
WithRoom(s) == {g \in DOMAIN s.gs : Room(s, g) > 0}
Percent(s, g) == (100 * s.gs[g].gamenum) \div s.gs[g].maxgame

\* d2gslist_choose_server: the first of the least loaded.
choose_server(s) ==
  CHOOSE g \in WithRoom(s) :
    \A h \in WithRoom(s) \ {g} :
      Percent(s, g) < Percent(s, h) \/ (Percent(s, g) = Percent(s, h) /\ g < h)

GamesNamed(s, name) == {i \in DOMAIN s.games : s.games[i].name = name}
GamesOn(s, g) == {i \in DOMAIN s.games : s.games[i].d2gs = g}
QueueFor(s, u) == {i \in DOMAIN s.gq : s.gq[i].client = u}

\* A lookup by the server's number alone.
Mut_FindByGid(s, g, gid) == {i \in DOMAIN s.games : s.games[i].created /\ s.games[i].gid = gid}

\* gamelist_find_game_by_d2gs_and_id; at most one, see GidsAreUnique.
FindByGid(s, g, gid) ==
  {i \in GamesOn(s, g) : s.games[i].created /\ s.games[i].gid = gid}

-----------------------------------------------------------------------------
\* Creating a game: on_client_creategamereq, called for a packet of the client
\* and for the packet kept in the queue.

\* conn_push_outqueue, which refuses a missing connection; what is sent to a
\* server that has hung up is lost.
SentTo(s, k, p) ==
  IF k # NoConn /\ s.conns[k].peer THEN [s EXCEPT !.conns[k].out = Append(@, p)] ELSE s

\* The request to the game server, and sq_create.
Requested(s, u, i, p) ==
  LET n == s.last.seqno + 1
  IN SentTo([s EXCEPT !.last.seqno = n, !.sqs = With(@, n, [client |-> u, gameid |-> i])],
            s.gs[s.games[i].d2gs].conn, With(p, "seqno", n))

\* The slot is taken when the server answers, not before.
Mut_GameMade(s, u, name) ==
  LET g == choose_server(s)
      i == s.last.game + 1
  IN Requested([s EXCEPT !.last.game = i,
                  !.games = With(@, i, [name |-> name, d2gs |-> g, created |-> FALSE,
                                        gid |-> 0, chars |-> {}])],
               u, i, [op |-> "create"])

\* d2cs_game_create, game_set_d2gs, d2gs_add_gamenum.
GameMade(s, u, name) ==
  LET g == choose_server(s)
      i == s.last.game + 1
  IN Requested([s EXCEPT !.last.game = i,
                  !.games = With(@, i, [name |-> name, d2gs |-> g, created |-> FALSE,
                                        gid |-> 0, chars |-> {}]),
                  !.gs[g].gamenum = @ + 1],
               u, i, [op |-> "create"])

\* The pointer of the connection is left behind.
Mut_Dequeued(s, u) == [s EXCEPT !.gq = RemoveFirstMatch(@, LAMBDA e : e.client = u)]

\* gq_destroy and conn_set_gamequeue(c, NULL).  The pointer is to one entry.
Dequeued(s, u) ==
  [s EXCEPT !.gamequeue = @ \ {u}, !.gq = RemoveFirstMatch(@, LAMBDA e : e.client = u)]

Enqueued(s, u, name) ==
  [s EXCEPT !.gamequeue = @ \cup {u}, !.gq = Append(@, [client |-> u, name |-> name])]

creategame(s, u, name) ==
  CASE GamesNamed(s, name) # {} -> s
    [] GamesNamed(s, name) = {} /\ u \notin s.gamequeue
       /\ \E i \in DOMAIN s.gq : s.gq[i].name = name -> s
    [] OTHER ->
       IF WithRoom(s) = {}
       THEN IF u \in s.gamequeue THEN Dequeued(s, u) ELSE Enqueued(s, u, name)
       ELSE IF Char[u] \in Dead THEN s ELSE GameMade(s, u, name)

\* One turn of the loop of gqlist_check_creategame, for the first entry.  That
\* the entry is of a client that is online and waits for it is WaitersWait.
\* Without a server the handler drops the entry itself, and the loop, left
\* without its place in the list, ends.
ServeFirst(r) ==
  LET e == Head(r.s.gq)
  IN [s |-> Dequeued(creategame(r.s, e.client, e.name), e.client),
      go |-> WithRoom(r.s) # {}]

\* Room is offered to as many waiting players as it holds; one whose game
\* cannot be made uses up a place of it all the same.
check_creategame(s, number) ==
  FoldLeft(LAMBDA r, n : IF r.go /\ r.s.gq # <<>> THEN ServeFirst(r) ELSE r,
           [s |-> s, go |-> TRUE], [n \in 1..number |-> n]).s

-----------------------------------------------------------------------------
\* The end of a game and of a game server's connection.

\* The place is given back, and nobody told.
Mut_game_destroy(s, i) ==
  [s EXCEPT !.games = Without(@, i), !.gs[s.games[i].d2gs].gamenum = @ - 1]

\* game_destroy.
game_destroy(s, i) ==
  LET g == s.games[i].d2gs
      t == [s EXCEPT !.games = Without(@, i), !.gs[g].gamenum = @ - 1]
  IN check_creategame(t, t.gs[g].maxgame - t.gs[g].gamenum)

\* The loops over the list of games, in which new games are put in front.
DestroyAll(s, S) ==
  FoldLeft(LAMBDA t, i : IF i \in S THEN game_destroy(t, i) ELSE t, s,
           [n \in 1..s.last.game |-> s.last.game + 1 - n])

\* The games of a server that is gone stay in the list.
Mut_deactive(s, g, k) ==
  IF ~Active(s, g) \/ s.gs[g].conn # k THEN s
  ELSE [s EXCEPT !.gs[g].conn = NoConn, !.gs[g].maxgame = 0, !.gs[g].gamenum = 0]

\* d2gs_deactive.
deactive(s, g, k) ==
  IF ~Active(s, g) \/ s.gs[g].conn # k THEN s
  ELSE [DestroyAll([s EXCEPT !.gs[g].conn = NoConn, !.gs[g].maxgame = 0], GamesOn(s, g))
          EXCEPT !.gs[g].gamenum = 0]

\* d2gs_active.
active(s, g, k) ==
  [deactive(s, g, s.gs[g].conn)
     EXCEPT !.gs[g] = [ip |-> @.ip, conn |-> k, gamenum |-> 0, maxgame |-> 0]]

\* d2cs_conn_destroy.
ServerConnDestroyed(s, k) == [deactive(s, s.conns[k].d2gs, k) EXCEPT !.conns = Without(@, k)]

\* A connection destroyed with its entry left in the queue.
Mut_ClientDestroyed(s, u) == [s EXCEPT !.online = @ \ {u}, !.gamequeue = @ \ {u}]

ClientDestroyed(s, u) == [Dequeued(s, u) EXCEPT !.online = @ \ {u}]

-----------------------------------------------------------------------------
\* Requests of clients.  A client that quit does not come back with the same
\* session number, which online alone cannot tell: a client is new while
\* nothing else mentions it, which is all that the code could notice.

Mentioned(u) == u \in online \/ \E n \in DOMAIN sqs : sqs[n].client = u

\* The end of logging in a character, which is not modelled here.
ClientLogin(u) ==
  /\ ~Mentioned(u)
  /\ Set([State EXCEPT !.online = @ \cup {u}])
  /\ UNCHANGED srv

\* Bounds: the ids that the waiting players may yet need are kept for them.
ClientCreate(u, name) ==
  /\ u \in online
  /\ last.game + Len(gq) < MaxGameId /\ last.seqno + Len(gq) < MaxSeqno
  /\ Set(creategame(State, u, name))
  /\ UNCHANGED srv

\* on_client_cancelcreategame.
ClientCancel(u) ==
  /\ u \in gamequeue
  /\ Set(Dequeued(State, u))
  /\ UNCHANGED srv

\* conn_check_multilogin, of which the list of games is the part that works.
Refused(u) == Multilogin /\ \E i \in DOMAIN games : Char[u] \in games[i].chars

\* on_client_joingamereq: a client refused as logged in elsewhere is cut off.
\* The refusals of d2cs_try_joingame that depend on the kind of character or on
\* a password change nothing either.
ClientJoin(u, name) ==
  /\ u \in online /\ last.seqno + Len(gq) < MaxSeqno
  /\ IF Refused(u) THEN Set(ClientDestroyed(State, u))
     ELSE \E i \in GamesNamed(State, name) :
            /\ games[i].created /\ Cardinality(games[i].chars) < MaxChar
            /\ Set(Requested(State, u, i, [op |-> "join", gid |-> games[i].gid, char |-> Char[u]]))
  /\ UNCHANGED srv

\* The client closes its connection, fails, or is idle for too long.
ClientGone(u) ==
  /\ u \in online
  /\ Set(ClientDestroyed(State, u))
  /\ UNCHANGED srv

-----------------------------------------------------------------------------
\* Packets of game servers, with the first packet of conns[k].in taken.

on_setgsinfo(s, k, p) ==
  LET g == s.conns[k].d2gs
  IN IF g \in DOMAIN s.gs
     THEN check_creategame([s EXCEPT !.gs[g].maxgame = p.maxgame], p.maxgame - s.gs[g].gamenum)
     ELSE s

on_authreply(s, k) ==
  LET g == s.conns[k].d2gs
  IN IF g \in DOMAIN s.gs THEN active([s EXCEPT !.conns[k].authed = TRUE], g, k) ELSE s

\* The request is found, its client is still there and its game too; in all
\* other cases the reply is dropped, with the request.
Answers(s, p) == /\ p.seqno \in DOMAIN s.sqs
                 /\ s.sqs[p.seqno].client \in s.online
                 /\ s.sqs[p.seqno].gameid \in DOMAIN s.games
SqDestroyed(s, n) == [s EXCEPT !.sqs = Without(@, n)]

\* The reply is matched with the client instead of the request.
Mut_on_creategamereply(s, p) ==
  IF ~Answers(s, p) \/ p.op = "failed" THEN SqDestroyed(s, p.seqno)
  ELSE LET mine == {s.sqs[n].gameid : n \in {m \in DOMAIN s.sqs : s.sqs[m].client = s.sqs[p.seqno].client}}
       IN SqDestroyed([s EXCEPT !.games = [i \in DOMAIN @ |->
                         IF i \in mine THEN [@[i] EXCEPT !.gid = p.gid, !.created = TRUE] ELSE @[i]]],
                      p.seqno)

on_creategamereply(s, p) ==
  IF ~Answers(s, p) THEN SqDestroyed(s, p.seqno)
  ELSE LET i == s.sqs[p.seqno].gameid
       IN SqDestroyed(IF p.op = "failed" THEN game_destroy(s, i)
                      ELSE [s EXCEPT !.games[i].gid = p.gid, !.games[i].created = TRUE],
                      p.seqno)

\* A character that leaves is not taken out.
Mut_on_updategameinfo(s, k, p) ==
  [s EXCEPT !.games = [i \in DOMAIN s.games |->
     IF i \in FindByGid(s, s.conns[k].d2gs, p.gid) /\ p.op = "enter"
     THEN [s.games[i] EXCEPT !.chars = @ \cup {p.char}] ELSE s.games[i]]]

\* game_add_character, game_del_character.
on_updategameinfo(s, k, p) ==
  [s EXCEPT !.games = [i \in DOMAIN s.games |->
     IF i \in FindByGid(s, s.conns[k].d2gs, p.gid)
     THEN [s.games[i] EXCEPT !.chars = IF p.op = "enter" THEN @ \cup {p.char} ELSE @ \ {p.char}]
     ELSE s.games[i]]]

on_closegame(s, k, p) == DestroyAll(s, FindByGid(s, s.conns[k].d2gs, p.gid))

\* handle_d2gs_packet: a packet out of place is ignored.
Handled(s, k, p) ==
  CASE p.op = "auth" -> IF s.conns[k].authed THEN s ELSE on_authreply(s, k)
    [] p.op # "auth" /\ ~s.conns[k].authed -> s
    [] p.op = "info" /\ s.conns[k].authed -> on_setgsinfo(s, k, p)
    [] p.op \in {"created", "failed"} /\ s.conns[k].authed -> on_creategamereply(s, p)
    [] p.op = "joined" /\ s.conns[k].authed -> SqDestroyed(s, p.seqno)
    [] p.op \in {"enter", "leave"} /\ s.conns[k].authed -> on_updategameinfo(s, k, p)
    [] p.op = "close" /\ s.conns[k].authed -> on_closegame(s, k, p)

ServerPacket(k) ==
  /\ k \in DOMAIN conns /\ conns[k].in # <<>>
  /\ Set(Handled([State EXCEPT !.conns[k].in = Tail(@)], k, Head(conns[k].in)))
  /\ UNCHANGED srv

-----------------------------------------------------------------------------
\* Timers and signals.

\* sqlist_check_timeout: requests are in the order of their time.
SqTimeout ==
  \E n \in DOMAIN sqs :
    /\ Set([State EXCEPT !.sqs = [m \in {x \in DOMAIN sqs : x > n} |-> sqs[m]]])
    /\ UNCHANGED srv

Void == {i \in DOMAIN games : games[i].chars = {}}

\* d2cs_gamelist_check_voidgame, for the games of S empty for too long.
check_voidgame(S) ==
  /\ IdleGamesEnd /\ S # {} /\ S \subseteq Void
  /\ Set(DestroyAll(State, S))
  /\ UNCHANGED srv

\* d2gslist_reload: a server has gone from the preference, or come to it.
DropServer(g) ==
  /\ g \in DOMAIN gs
  /\ LET s == IF Active(State, g)
              THEN ServerConnDestroyed(State, gs[g].conn) ELSE State
     IN Set([s EXCEPT !.gs = Without(@, g)])
  /\ UNCHANGED srv

AddServer(a) ==
  /\ last.d2gs < MaxGsId
  /\ \A g \in DOMAIN gs : gs[g].ip # a
  /\ LET n == last.d2gs + 1
     IN Set([State EXCEPT !.last.d2gs = n,
               !.gs = With(@, n, [ip |-> a, conn |-> NoConn, gamenum |-> 0, maxgame |-> 0])])
  /\ UNCHANGED srv

\* A game server's connection fails, is closed by it, or is idle for too long.
ServerConnGone(k) ==
  /\ k \in DOMAIN conns
  /\ Set(ServerConnDestroyed(State, k))
  /\ UNCHANGED srv

-----------------------------------------------------------------------------
\* The game servers (external).

Links(a) == {k \in DOMAIN conns : conns[k].ip = a /\ conns[k].peer}
CanTell(a) == \A k \in Links(a) : Len(conns[k].in) < MaxLink

\* A packet to d2cs, with the first one from d2cs taken if taken holds; nobody
\* is told while there is no connection.
Tell(a, p, taken) ==
  conns' = [k \in DOMAIN conns |->
              IF k \in Links(a)
              THEN [conns[k] EXCEPT !.in = Append(@, p),
                                    !.out = IF taken THEN Tail(@) ELSE @]
              ELSE conns[k]]
Kept == UNCHANGED <<online, gamequeue, gq, sqs, games, gs, last>>
GameAt(a, i) == i \in DOMAIN srv[a].games
Asked(a, op) == \E k \in Links(a) : conns[k].out # <<>> /\ Head(conns[k].out).op = op
Request(a) == Head(conns[CHOOSE k \in Links(a) : TRUE].out)

\* It connects and answers the challenge that d2cs sends.
GsConnect(k, a) ==
  /\ k \notin DOMAIN conns /\ Links(a) = {}
  /\ Overlap \/ \A j \in DOMAIN conns : conns[j].ip # a
  /\ \E g \in DOMAIN gs :
       /\ gs[g].ip = a
       /\ conns' = With(conns, k, [d2gs |-> g, ip |-> a, authed |-> FALSE, peer |-> TRUE,
                                   in |-> <<[op |-> "auth"]>>, out |-> <<>>])
  /\ UNCHANGED srv /\ Kept

\* It says how many games it takes: when it is accepted, and when that changes.
GsInfo(a, m) ==
  /\ \E k \in Links(a) : conns[k].authed
  /\ CanTell(a) /\ Tell(a, [op |-> "info", maxgame |-> m], FALSE)
  /\ UNCHANGED srv /\ Kept

GsCreate(a) ==
  /\ Asked(a, "create") /\ CanTell(a)
  /\ \/ /\ srv[a].next <= MaxGid
        /\ srv' = [srv EXCEPT ![a].games = With(@, srv[a].next, [chars |-> {}, coming |-> {}]),
                              ![a].next = @ + 1]
        /\ Tell(a, [op |-> "created", seqno |-> Request(a).seqno, gid |-> srv[a].next], TRUE)
     \/ /\ UNCHANGED srv
        /\ Tell(a, [op |-> "failed", seqno |-> Request(a).seqno], TRUE)
  /\ Kept

\* It lets the character in, or the game is over.
GsJoin(a) ==
  /\ Asked(a, "join") /\ CanTell(a)
  /\ LET r == Request(a)
     IN /\ srv' = IF GameAt(a, r.gid)
                  THEN [srv EXCEPT ![a].games[r.gid].coming = @ \cup {r.char}] ELSE srv
        /\ Tell(a, [op |-> "joined", seqno |-> r.seqno], TRUE)
  /\ Kept

GsEnter(a, i, c) ==
  /\ GameAt(a, i) /\ c \in srv[a].games[i].coming /\ CanTell(a)
  /\ srv' = [srv EXCEPT ![a].games[i] = [chars |-> @.chars \cup {c}, coming |-> @.coming \ {c}]]
  /\ Tell(a, [op |-> "enter", gid |-> i, char |-> c], FALSE)
  /\ Kept

GsLeave(a, i, c) ==
  /\ GameAt(a, i) /\ c \in srv[a].games[i].chars /\ CanTell(a)
  /\ srv' = [srv EXCEPT ![a].games[i].chars = @ \ {c}]
  /\ Tell(a, [op |-> "leave", gid |-> i, char |-> c], FALSE)
  /\ Kept

GsClose(a, i) ==
  /\ GameAt(a, i) /\ srv[a].games[i].chars = {} /\ CanTell(a)
  /\ srv' = [srv EXCEPT ![a].games = Without(@, i)]
  /\ Tell(a, [op |-> "close", gid |-> i], FALSE)
  /\ Kept

\* Its side of the connection is gone, alone or with the process, whose next
\* one counts its games from the start again.
HangUp(a) == conns' = [k \in DOMAIN conns |-> IF k \in Links(a)
                         THEN [conns[k] EXCEPT !.peer = FALSE, !.out = <<>>] ELSE conns[k]]
GsDrop(a) == Links(a) # {} /\ HangUp(a) /\ UNCHANGED srv /\ Kept
GsRestart(a) == /\ srv[a].next > 1
                /\ HangUp(a) /\ srv' = [srv EXCEPT ![a] = [next |-> 1, games |-> <<>>]]
                /\ Kept

GameServer(a) ==
  \/ \E k \in Conns : GsConnect(k, a)
  \/ \E m \in MaxGames : GsInfo(a, m)
  \/ GsCreate(a) \/ GsJoin(a)
  \/ \E i \in DOMAIN srv[a].games, c \in Chars : GsEnter(a, i, c) \/ GsLeave(a, i, c)
  \/ \E i \in DOMAIN srv[a].games : GsClose(a, i)
  \/ GsDrop(a) \/ GsRestart(a)

-----------------------------------------------------------------------------
Client(u) ==
  \/ ClientLogin(u) \/ ClientCancel(u) \/ ClientGone(u)
  \/ \E name \in Names : ClientCreate(u, name) \/ ClientJoin(u, name)

Next ==
  \/ \E u \in Clients : Client(u)
  \/ \E k \in Conns : ServerPacket(k) \/ ServerConnGone(k)
  \/ SqTimeout
  \/ \E S \in SUBSET DOMAIN games : check_voidgame(S)
  \/ \E g \in DOMAIN gs : DropServer(g)
  \/ \E a \in Ips : AddServer(a) \/ GameServer(a)

Spec == Init /\ [][Next]_vars

-----------------------------------------------------------------------------
\* Properties.

\* gamenum, which decides who waits, counts the games that hold a place on the
\* server, through failed creations, lost servers, reconnects and reloads; a
\* server without a connection has none (the error that d2gs_deactive logs).
GamenumCounts ==
  \A g \in DOMAIN gs : /\ gs[g].gamenum = Cardinality(GamesOn(State, g))
                       /\ ~Active(State, g) => gs[g].gamenum = 0

\* Packets about a game name it by the server's number, which a restarted
\* server uses again: among the games d2cs knows it means one.
GidsAreUnique ==
  \A i, j \in DOMAIN games :
    games[i].created /\ games[j].created /\ games[i].d2gs = games[j].d2gs
    /\ games[i].gid = games[j].gid => i = j

\* The queue and the gamequeue pointers of the connections agree: no entry is
\* left of a client that has gone, no pointer to an entry that is.
WaitersWait ==
  /\ \A i \in DOMAIN gq : gq[i].client \in gamequeue
  /\ \A u \in gamequeue : Cardinality(QueueFor(State, u)) = 1

\* When a server gets room, the first who waits gets a turn in the same step,
\* also when those before could not use theirs.
RoomIsOffered ==
  [][\A g \in DOMAIN gs \cap DOMAIN gs' :
       (/\ gq # <<>> /\ gs'[g].conn # NoConn
        /\ \/ gs'[g].maxgame > gs[g].maxgame
           \/ \E i \in GamesOn(State, g) : i \notin DOMAIN games')
       => gs'[g].gamenum >= gs'[g].maxgame \/ Head(gq) \notin ToSet(gq')]_vars

\* What d2cs shows of a game is what the game server has, once all that the
\* server has sent is read: the game exists, with these characters.
MirrorsServer ==
  \A k \in DOMAIN conns : \A i \in DOMAIN games :
    (/\ conns[k].authed /\ conns[k].peer /\ conns[k].in = <<>>
     /\ games[i].d2gs = conns[k].d2gs /\ games[i].created)
    => /\ GameAt(conns[k].ip, games[i].gid)
       /\ srv[conns[k].ip].games[games[i].gid].chars = games[i].chars

\* The log of d2gs_active: "deactive previous connection first".  A connection
\* that is no longer a server's changes neither its games nor its limits.
PreviousIsDeactive ==
  [][\A k \in DOMAIN conns \cap DOMAIN conns' :
       (/\ conns[k].authed /\ conns[k].in # <<>> /\ conns'[k].in = Tail(conns[k].in)
        /\ \A g \in DOMAIN gs : gs[g].conn # k)
       => games' = games /\ gs' = gs]_vars
=============================================================================
