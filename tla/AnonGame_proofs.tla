--------------------------- MODULE AnonGame_proofs ---------------------------
(***************************************************************************)
(* Theorems about AnonGame, for any players, maps, versions, queues and    *)
(* numbers of games: its types, one match for each player, what is matched *)
(* and what is counted.                                                    *)
(*                                                                         *)
(* The invariant is about the record that the handlers pass through their  *)
(* operators: clients, teams, queues and games each have a part of it, and *)
(* each operator a lemma that it keeps them.  The loops of the search, of  *)
(* a cancellation and of a team's inviter are folds.                       *)
(***************************************************************************)
EXTENDS AnonGame, Lists
-----------------------------------------------------------------------------
\* The types of the parts of the state.
ConnRec == [cl : {"off", "idle", "search", "found"}, team : Teams, tried : BOOLEAN,
            level : 0..TopLevel, version : Versions \cup {None}]
AnonRec == [queue : AnonTypes \cup {None}, prefs : SUBSET Maps, tid : {0, 1},
            tc : Seq(Gamers \cup {Freed}), info : AnonGames \cup {0}, num : Nat,
            joined : BOOLEAN, loaded : BOOLEAN]
EntryRec == [c : Gamers, level : 0..TopLevel, prefs : SUBSET Maps, version : Versions \cup {None}]
Report == {<<>>} \cup UNION {[1..n -> {"win", "loss"}] : n \in Nat}
InfoRec == [queue : AnonTypes \cup {None}, player : Seq(Gamers \cup {None}), account : Seq(Gamers),
            cur : Nat, results : Seq(Report), start : BOOLEAN, ready : BOOLEAN,
            made : SUBSET EntryRec, told : Seq(Report), times : Nat]
AnonState(s) ==
  s \in [conn : [Gamers -> ConnRec], anon : [Gamers -> AnonRec], route : [Gamers -> BOOLEAN],
         lists : [AnonTypes -> Seq(EntryRec)], infos : [AnonGames -> InfoRec], ended : {s.ended}]

\* A client that is off has nothing; what a client without t_anongame does not have; who is in
\* a game has been told so; who asks, or plays alone, has sent the search of the present attempt.
TeamOf(conn, c) == ToSet(conn[c].team)
ClientInv(conn, a, c) ==
  /\ conn[c].cl = "off" => a.queue = None /\ conn[c].team = <<>>
  /\ a.queue = None => a.info = 0 /\ a.tid = 0 /\ a.tc = <<>>
  /\ a.tc # <<>> => c \in ToSet(a.tc)
  /\ ToSet(a.tc) \subseteq TeamOf(conn, c) \cup {c, Freed}
  /\ a.info # 0 => conn[c].cl = "found"
  /\ conn[c].cl = "found" /\ a.queue # None => a.info # 0
  /\ conn[c].cl \in {"search", "found"} => conn[c].tried
  /\ conn[c].cl # "off" /\ conn[c].team = <<>> => conn[c].tried
  /\ a.tid = 1 => conn[c].cl \in {"search", "found"}
ClientsInv(conn, anon) == \A c \in Gamers : ClientInv(conn, anon[c], c)

\* Who is in a team has one mate, and those who are on are of one team or of teams apart; a
\* player is told of a game when all of his team have asked.
IsOn(conn, c) == conn[c].cl # "off"
Same(conn, c, d) == conn[c].team # <<>> /\ conn[c].team = conn[d].team
Apart(conn, c, d) == ({c} \cup TeamOf(conn, c)) \cap ({d} \cup TeamOf(conn, d)) = {}
TeamsInv(conn) ==
  /\ \A c \in Gamers : conn[c].team # <<>> => IsInjective(conn[c].team) /\ c \in TeamOf(conn, c)
  /\ \A c, d \in Gamers : IsOn(conn, c) /\ IsOn(conn, d) /\ c # d => Same(conn, c, d) \/ Apart(conn, c, d)
  /\ \A c, d \in Gamers : IsOn(conn, c) /\ d \in TeamOf(conn, c) /\ conn[d].cl = "found" => conn[c].tried

\* As long as all of a team may still ask in the attempt that the inviter has asked in, they
\* have got their places in it from him.
Open(conn, anon, c) ==
  /\ conn[c].team # <<>> /\ c = Head(conn[c].team) /\ anon[c].tid = 1
  /\ \A d \in TeamOf(conn, c) : IsOn(conn, d) /\ (conn[d].tried => anon[d].tid = 1)
AskedInv(conn, anon) ==
  \A c \in Gamers : Open(conn, anon, c) =>
    \A d \in TeamOf(conn, c) : anon[d].queue = "at2v2" /\ anon[d].tc = conn[c].team

\* Whom an entry is for waits, and belongs to no game.
Waiting(conn, anon, q, d) == conn[d].cl = "search" /\ anon[d].queue = q /\ anon[d].info = 0
Waits(conn, anon, q, c) ==
  IF anongame_arranged(q)
  THEN /\ conn[c].team # <<>> /\ c = Head(conn[c].team)
       /\ \A d \in TeamOf(conn, c) : Waiting(conn, anon, q, d) /\ anon[d].tc = conn[c].team
  ELSE conn[c].team = <<>> /\ Waiting(conn, anon, q, c)
OneEach(l) == \A i, j \in DOMAIN l : l[i].c = l[j].c => i = j
QueueInv(conn, anon, q, l) == OneEach(l) /\ \A i \in DOMAIN l : Waits(conn, anon, q, l[i].c)

\* A game, in which x may just have reported and, as the last, ended it.
Taken(I) == {n \in DOMAIN I.player : I.player[n] # None}
SeatInv(I, g, n, anon, route, x) ==
  LET c == I.player[n]
  IN  /\ anon[c].info = g /\ anon[c].num = n
      /\ c # x => I.told[n] = <<>>
      /\ I.ready => route[c]
GameInv(I, g, anon, route, x) ==
  /\ DOMAIN I.told = DOMAIN I.player /\ DOMAIN I.account = DOMAIN I.player /\ I.told = I.results
  /\ I.cur = Cardinality(Taken(I)) /\ I.cur > 0
  /\ I.times = 0 \/ \A n \in Taken(I) : I.player[n] = x
  /\ \A n \in Taken(I) : SeatInv(I, g, n, anon, route, x)
  /\ SuitsAll(I.made)
  /\ (\E n \in DOMAIN I.told : I.told[n] # <<>>) => I.ready
GamesInv(infos, anon, route, x) ==
  /\ \A g \in AnonGames : infos[g] = NoInfo \/ GameInv(infos[g], g, anon, route, x)
  /\ \A c \in Gamers : anon[c].info # 0 =>
       LET I == infos[anon[c].info]
       IN  anon[c].num \in DOMAIN I.player /\ I.player[anon[c].num] = c
RoutesInv(anon, route) == \A c \in Gamers : route[c] => anon[c].info # 0

\* The state while a handler runs, and between two of them.
Sound(s, x) ==
  /\ AnonState(s) /\ ClientsInv(s.conn, s.anon) /\ TeamsInv(s.conn)
  /\ \A q \in AnonTypes : QueueInv(s.conn, s.anon, q, s.lists[q])
  /\ GamesInv(s.infos, s.anon, s.route, x)
AnonInv == Sound(ag, None) /\ RoutesInv(ag.anon, ag.route) /\ AskedInv(ag.conn, ag.anon)
-----------------------------------------------------------------------------
\* The parts of a state.
LEMMA AnonParts ==
  ASSUME NEW s, AnonState(s)
  PROVE  /\ s.conn \in [Gamers -> ConnRec] /\ s.anon \in [Gamers -> AnonRec]
         /\ s.route \in [Gamers -> BOOLEAN] /\ s.lists \in [AnonTypes -> Seq(EntryRec)]
         /\ s.infos \in [AnonGames -> InfoRec]
BY DEF AnonState

\* What is known of a connection.
LEMMA ConnFields ==
  ASSUME NEW r \in ConnRec
  PROVE  /\ r.cl \in {"off", "idle", "search", "found"} /\ r.team \in Teams /\ r.tried \in BOOLEAN
         /\ r.level \in 0..TopLevel /\ r.version \in Versions \cup {None}
BY DEF ConnRec

\* What t_anongame holds.
LEMMA AnonFields ==
  ASSUME NEW r \in AnonRec
  PROVE  /\ r.queue \in AnonTypes \cup {None} /\ r.prefs \subseteq Maps /\ r.tid \in {0, 1}
         /\ r.tc \in Seq(Gamers \cup {Freed}) /\ r.info \in AnonGames \cup {0} /\ r.num \in Nat
         /\ r.joined \in BOOLEAN /\ r.loaded \in BOOLEAN
BY DEF AnonRec

\* What t_anongameinfo holds.
LEMMA InfoFields ==
  ASSUME NEW r \in InfoRec
  PROVE  /\ r.queue \in AnonTypes \cup {None} /\ r.player \in Seq(Gamers \cup {None})
         /\ r.account \in Seq(Gamers) /\ r.cur \in Nat /\ r.results \in Seq(Report)
         /\ r.start \in BOOLEAN /\ r.ready \in BOOLEAN /\ r.made \subseteq EntryRec
         /\ r.told \in Seq(Report) /\ r.times \in Nat
BY DEF InfoRec

\* What nobody has, and no game.
LEMMA Nothing ==
  /\ NoAnon \in AnonRec /\ NoInfo \in InfoRec /\ Off \in ConnRec
  /\ NoAnon.queue = None /\ NoAnon.info = 0 /\ NoAnon.tid = 0 /\ NoAnon.tc = <<>>
  /\ NoInfo.cur = 0 /\ NoInfo.player = <<>>
  /\ Off.cl = "off" /\ Off.team = <<>>
<1>1. <<>> \in Seq(Gamers \cup {Freed}) /\ <<>> \in Seq(Gamers \cup {None}) /\ <<>> \in Seq(Gamers) /\ <<>> \in Seq(Report)
  BY EmptyList
<1> QED BY <1>1, AnonGameAssumption DEF NoAnon, NoInfo, Off, AnonRec, InfoRec, ConnRec, Teams

\* The strings that the handlers compare.
LEMMA Words ==
  /\ \A q \in AnonTypes : q # None
  /\ None \notin Gamers /\ Freed \notin Gamers
  /\ "1v1" \in AnonTypes /\ "at2v2" \in AnonTypes /\ AnonQueues \subseteq AnonTypes
BY AnonGameAssumption DEF AnonTypes, None

\* conn_create_anongame.
LEMMA CreateIs ==
  ASSUME NEW s, AnonState(s), NEW c \in Gamers
  PROVE  LET t == conn_create_anongame(s, c)
         IN  /\ AnonState(t) /\ HasAnon(t, c)
             /\ t.conn = s.conn /\ t.route = s.route /\ t.lists = s.lists /\ t.infos = s.infos
             /\ t.ended = s.ended
             /\ \A d \in Gamers : d # c \/ HasAnon(s, c) => t.anon[d] = s.anon[d]
             /\ ~HasAnon(s, c) => /\ t.anon[c].queue = "1v1" /\ t.anon[c].info = 0
                                  /\ t.anon[c].tid = 0 /\ t.anon[c].tc = <<>>
<1> DEFINE a == [NoAnon EXCEPT !.queue = "1v1", !.prefs = Maps]
<1>1. a \in AnonRec /\ a.queue = "1v1" /\ a.info = 0 /\ a.tid = 0 /\ a.tc = <<>>
  BY Nothing, Words DEF NoAnon, AnonRec
<1> HIDE DEF a
<1>2. s.anon \in [Gamers -> AnonRec]
  BY AnonParts
<1>3. CASE HasAnon(s, c)
  BY <1>3 DEF conn_create_anongame
<1>4. CASE ~HasAnon(s, c)
  <2> DEFINE t == [s EXCEPT !.anon[c] = a]
  <2>1. conn_create_anongame(s, c) = t
    BY <1>4 DEF conn_create_anongame, a
  <2>2. /\ AnonState(t) /\ t.conn = s.conn /\ t.route = s.route /\ t.lists = s.lists
        /\ t.infos = s.infos /\ t.ended = s.ended /\ t.anon = [s.anon EXCEPT ![c] = a]
    BY <1>1 DEF AnonState
  <2> HIDE DEF t
  <2>3. HasAnon(t, c)
    BY <1>1, <1>2, <2>2, Words DEF HasAnon
  <2> QED BY <1>1, <1>2, <1>4, <2>1, <2>2, <2>3
<1> QED BY <1>3, <1>4

-----------------------------------------------------------------------------
\* What is left of a list when entries of C have been taken out.
Fewer(l, m, C) ==
  /\ m \in Seq(EntryRec) /\ OneEach(m)
  /\ \A i \in DOMAIN m : m[i].c \notin C /\ \E j \in DOMAIN l : l[j] = m[i]

\* States that differ in the list of a queue.
OtherList(s, t, q) ==
  /\ AnonState(t) /\ t.conn = s.conn /\ t.anon = s.anon /\ t.route = s.route
  /\ t.infos = s.infos /\ t.ended = s.ended
  /\ \A r \in AnonTypes \ {q} : t.lists[r] = s.lists[r]

\* anongame_unqueue.
LEMMA UnqueueIs ==
  ASSUME NEW s, AnonState(s), NEW c \in Gamers, NEW q \in AnonTypes, OneEach(s.lists[q])
  PROVE  LET t == anongame_unqueue(s, c, q)
         IN  OtherList(s, t, q) /\ Fewer(s.lists[q], t.lists[q], {c})
<1> DEFINE l == s.lists[q]
           its == {i \in DOMAIN l : l[i].c = c}
           Lowest(i) == \A j \in its : \/ l[i].level < l[j].level
                                       \/ l[i].level = l[j].level /\ i <= j
           first == CHOOSE i \in its : Lowest(i)
           t == anongame_unqueue(s, c, q)
<1>1. s.lists \in [AnonTypes -> Seq(EntryRec)] /\ l \in Seq(EntryRec)
  BY AnonParts
<1>2. DOMAIN l = 1..Len(l) /\ Len(l) \in Nat
  BY <1>1
<1>3. CASE its = {}
  <2>1. t = s
    BY <1>3 DEF anongame_unqueue
  <2>2. \A i \in DOMAIN l : l[i].c \notin {c}
    BY <1>3
  <2>3. Fewer(l, l, {c})
    BY <1>1, <2>2 DEF Fewer
  <2> QED BY <2>1, <2>3 DEF OtherList
<1>4. CASE its # {}
  <2>1. PICK k \in its : TRUE
    BY <1>4
  <2>2. \A j \in its : j = k
    BY <2>1 DEF OneEach
  <2>3. k \in 1..Len(l) /\ l[k].c = c
    BY <1>2, <2>1
  <2>4. Lowest(k)
    <3> TAKE j \in its
    <3>1. j = k /\ k <= k
      BY <1>2, <2>2, <2>3
    <3> QED BY <3>1
  <2>5. first = k
    <3> HIDE DEF Lowest, its
    <3>1. first \in its
      BY <2>1, <2>4
    <3> QED BY <2>2, <3>1
  <2> DEFINE m == RemoveAt(l, k)
  <2>6. t = [s EXCEPT !.lists[q] = RemoveAt(@, first)]
    BY <1>4 DEF anongame_unqueue
  <2> HIDE DEF first, t
  <2>7. t = [s EXCEPT !.lists[q] = m]
    BY <2>5, <2>6
  <2>8. /\ m \in Seq(EntryRec) /\ Len(m) = Len(l) - 1
        /\ \A i \in 1..Len(m) : m[i] = IF i < k THEN l[i] ELSE l[i + 1]
    BY <1>1, <2>3, RemovedAt
  <2> HIDE DEF m
  <2>9. OtherList(s, t, q) /\ t.lists[q] = m
    BY <1>1, <2>7, <2>8 DEF AnonState, OtherList
  <2> DEFINE at(i) == IF i < k THEN i ELSE i + 1
  <2>10. DOMAIN m = 1..(Len(l) - 1)
    BY <1>2, <2>8
  <2>11. \A i \in DOMAIN m : at(i) \in DOMAIN l /\ at(i) # k /\ m[i] = l[at(i)]
    BY <1>2, <2>3, <2>8, <2>10, SMTT(40)
  <2>12. \A i, j \in DOMAIN m : at(i) = at(j) => i = j
    BY <1>2, <2>3, <2>10
  <2> HIDE DEF at
  <2>13. OneEach(m)
    <3> SUFFICES ASSUME NEW i \in DOMAIN m, NEW j \in DOMAIN m, m[i].c = m[j].c PROVE i = j
      BY DEF OneEach
    <3>1. at(i) = at(j)
      BY <2>11 DEF OneEach
    <3> QED BY <2>12, <3>1
  <2>14. \A i \in DOMAIN m : m[i].c \notin {c} /\ \E j \in DOMAIN l : l[j] = m[i]
    <3> TAKE i \in DOMAIN m
    <3>1. l[at(i)].c # c
      BY <1>2, <2>3, <2>11 DEF OneEach
    <3> QED BY <2>11, <3>1
  <2>15. Fewer(l, m, {c})
    BY <2>8, <2>13, <2>14 DEF Fewer
  <2> QED BY <2>9, <2>15 DEF t
<1> QED BY <1>3, <1>4

\* Those who are left wait as before.
LEMMA FewerWait ==
  ASSUME NEW conn, NEW anon, NEW q, NEW l, NEW m, NEW C, Fewer(l, m, C), QueueInv(conn, anon, q, l)
  PROVE  QueueInv(conn, anon, q, m)
BY DEF Fewer, QueueInv

\* Taking out twice.
LEMMA FewerStill ==
  ASSUME NEW l, NEW m, NEW n, NEW C, NEW D, Fewer(l, m, C), Fewer(m, n, D)
  PROVE  Fewer(l, n, C \cup D)
<1>1. ASSUME NEW i \in DOMAIN n
      PROVE  n[i].c \notin C \cup D /\ \E j \in DOMAIN l : l[j] = n[i]
  <2>1. PICK k \in DOMAIN m : m[k] = n[i] /\ n[i].c \notin D
    BY DEF Fewer
  <2>2. PICK j \in DOMAIN l : l[j] = m[k] /\ m[k].c \notin C
    BY DEF Fewer
  <2> QED BY <2>1, <2>2
<1> QED BY <1>1 DEF Fewer

\* _anongame_queue.
LEMMA QueueIs ==
  ASSUME NEW s, AnonState(s), NEW c \in Gamers, NEW q \in AnonTypes, NEW prefs \in SUBSET Maps
  PROVE  LET t == _anongame_queue(s, c, q, prefs)
             l == s.lists[q]
         IN  /\ OtherList(s, t, q) /\ DOMAIN t.lists[q] = 1..(Len(l) + 1)
             /\ t.lists[q][Len(l) + 1].c = c /\ \A i \in DOMAIN l : t.lists[q][i] = l[i]
<1> DEFINE l == s.lists[q]
           e == [c |-> c, level |-> level_by_queue(s, c, q), prefs |-> prefs,
                 version |-> s.conn[c].version]
           m == Append(l, e)
           t == _anongame_queue(s, c, q, prefs)
<1>1. s.lists \in [AnonTypes -> Seq(EntryRec)] /\ l \in Seq(EntryRec) /\ s.conn[c] \in ConnRec
  BY AnonParts
<1>2. e \in EntryRec
  <2>1. s.conn[c].level \in 0..TopLevel /\ s.conn[c].version \in Versions \cup {None}
    BY <1>1, ConnFields
  <2>2. level_by_queue(s, c, q) \in 0..TopLevel
    BY <2>1, AnonGameAssumption DEF level_by_queue
  <2> QED BY <2>1, <2>2 DEF EntryRec
<1>3. e.c = c
  OBVIOUS
<1>4. t = [s EXCEPT !.lists[q] = m]
  BY DEF _anongame_queue
<1> HIDE DEF e, t
<1>5. m \in Seq(EntryRec) /\ DOMAIN m = 1..(Len(l) + 1) /\ m[Len(l) + 1] = e /\ \A i \in 1..Len(l) : m[i] = l[i]
  BY <1>1, <1>2
<1>6. DOMAIN l = 1..Len(l)
  BY <1>1
<1> HIDE DEF m
<1>7. OtherList(s, t, q) /\ t.lists[q] = m
  BY <1>1, <1>4, <1>5 DEF AnonState, OtherList
<1> QED BY <1>3, <1>5, <1>6, <1>7 DEF t

-----------------------------------------------------------------------------
\* A seat of a player, and the game it is in.
LEMMA SeatOf ==
  ASSUME NEW s, NEW x, Sound(s, x), NEW c \in Gamers, s.anon[c].info # 0
  PROVE  LET g == s.anon[c].info
             n == s.anon[c].num
             I == s.infos[g]
         IN  /\ g \in AnonGames /\ I \in InfoRec /\ I # NoInfo /\ GameInv(I, g, s.anon, s.route, x)
             /\ n \in DOMAIN I.player /\ I.player[n] = c /\ n \in Taken(I)
<1> DEFINE g == s.anon[c].info
           n == s.anon[c].num
           I == s.infos[g]
<1>1. AnonState(s) /\ GamesInv(s.infos, s.anon, s.route, x)
  BY DEF Sound
<1>2. s.anon[c] \in AnonRec /\ s.infos \in [AnonGames -> InfoRec]
  BY <1>1, AnonParts
<1>3. g \in AnonGames /\ I \in InfoRec
  BY <1>2, AnonFields
<1>4. n \in DOMAIN I.player /\ I.player[n] = c
  BY <1>1 DEF GamesInv
<1>5. I # NoInfo
  <2>1. DOMAIN NoInfo.player = {}
    BY Nothing
  <2> QED BY <1>4, <2>1
<1>6. GameInv(I, g, s.anon, s.route, x)
  BY <1>1, <1>3, <1>5, SMTT(40) DEF GamesInv
<1>7. n \in Taken(I)
  BY <1>4, Words DEF Taken
<1> QED BY <1>3, <1>4, <1>5, <1>6, <1>7

\* A game with a seat less.
LEMMA SeatLess ==
  ASSUME NEW I \in InfoRec, NEW n \in Taken(I), I.cur = Cardinality(Taken(I))
  PROVE  LET J == [I EXCEPT !.player[n] = None, !.cur = @ - 1]
         IN  /\ I.cur > 0 /\ I.cur = 1 => Taken(I) = {n}
             /\ I.cur # 1 => /\ J \in InfoRec /\ J.cur > 0 /\ J.cur = Cardinality(Taken(J))
                             /\ Taken(J) = Taken(I) \ {n} /\ DOMAIN J.player = DOMAIN I.player
                             /\ \A k \in Taken(J) : J.player[k] = I.player[k]
                             /\ J.told = I.told /\ J.results = I.results /\ J.account = I.account
                             /\ J.times = I.times /\ J.ready = I.ready /\ J.made = I.made
<1> DEFINE J == [I EXCEPT !.player[n] = None, !.cur = @ - 1]
<1>1. I.player \in Seq(Gamers \cup {None}) /\ I.cur \in Nat
  BY InfoFields
<1>2. DOMAIN I.player = 1..Len(I.player) /\ Len(I.player) \in Nat
  BY <1>1
<1>3. IsFiniteSet(Taken(I))
  <2>1. Taken(I) \in SUBSET (1..Len(I.player))
    BY <1>2 DEF Taken
  <2>2. IsFiniteSet(1..Len(I.player))
    BY <1>2, FS_Interval
  <2> QED BY <2>1, <2>2, FS_Subset
<1>4. Cardinality(Taken(I) \ {n}) = I.cur - 1 /\ IsFiniteSet(Taken(I) \ {n})
  BY <1>3, FS_RemoveElement
<1>5. I.cur > 0
  <2>1. Cardinality(Taken(I)) # 0
    BY <1>3, FS_EmptySet
  <2> QED BY <1>1, <2>1
<1>6. ASSUME I.cur = 1 PROVE Taken(I) = {n}
  <2>1. Cardinality(Taken(I) \ {n}) = 0
    BY <1>4, <1>6
  <2>2. Taken(I) \ {n} = {}
    BY <1>4, <2>1, FS_EmptySet
  <2> QED BY <2>2
<1>7. n \in DOMAIN I.player /\ n \in 1..Len(I.player)
  BY <1>2 DEF Taken
<1>8. [I.player EXCEPT ![n] = None] \in Seq(Gamers \cup {None})
  BY <1>1, <1>7
<1>9. ASSUME I.cur # 1
      PROVE  /\ J \in InfoRec /\ J.cur = I.cur - 1 /\ J.player = [I.player EXCEPT ![n] = None]
             /\ J.told = I.told /\ J.results = I.results /\ J.account = I.account
             /\ J.times = I.times /\ J.ready = I.ready /\ J.made = I.made
  <2>1. I.cur - 1 \in Nat
    BY <1>1, <1>5
  <2> QED BY <1>8, <2>1 DEF InfoRec
<1> HIDE DEF J
<1>10. ASSUME I.cur # 1
       PROVE  /\ Taken(J) = Taken(I) \ {n} /\ DOMAIN J.player = DOMAIN I.player
              /\ \A k \in Taken(J) : J.player[k] = I.player[k]
  BY <1>7, <1>9, <1>10 DEF Taken
<1>11. ASSUME I.cur # 1 PROVE J.cur > 0 /\ J.cur = Cardinality(Taken(J))
  <2>1. Cardinality(Taken(J)) = I.cur - 1
    BY <1>4, <1>10, <1>11
  <2>2. J.cur = I.cur - 1 /\ I.cur - 1 > 0
    <3>1. J.cur = I.cur - 1
      BY <1>9, <1>11
    <3>2. I.cur - 1 > 0
      BY <1>1, <1>5, <1>11
    <3> QED BY <3>1, <3>2
  <2> QED BY <2>1, <2>2
<1> QED BY <1>5, <1>6, <1>9, <1>10, <1>11 DEF J

\* The part of conn_destroy_anongame that takes a player off his seat; anon is what the

\* players have when he has nothing any more.
LEMMA OffSeatIs ==
  ASSUME NEW s, NEW x, Sound(s, x), NEW c \in Gamers, s.anon[c].info # 0,
         NEW anon, \A d \in Gamers \ {c} : anon[d] = s.anon[d], anon[c].info = 0,
         NEW y, y = x \/ (x = c /\ y = None)
  PROVE  LET t == OffSeat(s, s.anon[c].info, s.anon[c].num)
         IN  /\ AnonState(t) /\ t.conn = s.conn /\ t.anon = s.anon /\ t.route = s.route
             /\ t.lists = s.lists /\ t.ended = s.ended
             /\ GamesInv(t.infos, anon, s.route, y)
<1> DEFINE g == s.anon[c].info
           n == s.anon[c].num
           I == s.infos[g]
           J == [I EXCEPT !.player[n] = None, !.cur = @ - 1]
           K == Unseated(I, n)
           t == OffSeat(s, g, n)
<1>1. /\ g \in AnonGames /\ I \in InfoRec /\ I # NoInfo /\ GameInv(I, g, s.anon, s.route, x)
      /\ n \in DOMAIN I.player /\ I.player[n] = c /\ n \in Taken(I)
  BY SeatOf
<1>2. AnonState(s) /\ GamesInv(s.infos, s.anon, s.route, x) /\ s.infos \in [AnonGames -> InfoRec]
  BY AnonParts DEF Sound
<1>3. I.cur = Cardinality(Taken(I))
  BY <1>1, ZenonT(60) DEF GameInv
<1>4. /\ I.cur > 0 /\ I.cur = 1 => Taken(I) = {n}
      /\ I.cur # 1 => /\ J \in InfoRec /\ J.cur > 0 /\ J.cur = Cardinality(Taken(J))
                      /\ Taken(J) = Taken(I) \ {n} /\ DOMAIN J.player = DOMAIN I.player
                      /\ \A k \in Taken(J) : J.player[k] = I.player[k]
                      /\ J.told = I.told /\ J.results = I.results /\ J.account = I.account
                      /\ J.times = I.times /\ J.ready = I.ready /\ J.made = I.made
  BY <1>1, <1>3, SeatLess, ZenonT(60)
<1>5. t = [s EXCEPT !.infos[g] = K]
  BY Zenon DEF OffSeat
<1> HIDE DEF t, J
<1>6. K = (IF I.cur = 1 THEN NoInfo ELSE J) /\ K \in InfoRec
  <2>1. K = (IF I.cur = 1 THEN NoInfo ELSE J)
    BY Zenon DEF Unseated, J
  <2> HIDE DEF K
  <2> QED BY <1>4, <2>1, Nothing
<1> HIDE DEF K, I
<1>7. /\ AnonState(t) /\ t.conn = s.conn /\ t.anon = s.anon /\ t.route = s.route
      /\ t.lists = s.lists /\ t.ended = s.ended /\ t.infos = [s.infos EXCEPT ![g] = K]
  BY <1>2, <1>5, <1>6 DEF AnonState
<1> DEFINE P == t.infos
<1>8. P \in [AnonGames -> InfoRec] /\ P[g] = K /\ \A h \in AnonGames \ {g} : P[h] = s.infos[h]
  BY <1>1, <1>2, <1>6, <1>7
<1> HIDE DEF P, g, n
<1>9. \A k \in Taken(I) : /\ I.player[k] \in Gamers /\ s.anon[I.player[k]].info = g
                          /\ s.anon[I.player[k]].num = k
  <2> TAKE k \in Taken(I)
  <2>1. SeatInv(I, g, k, s.anon, s.route, x)
    BY <1>1 DEF GameInv
  <2>2. I.player \in Seq(Gamers \cup {None})
    BY <1>1, InfoFields
  <2>3. I.player[k] \in Gamers
    BY <2>2 DEF Taken
  <2> QED BY <2>1, <2>3 DEF SeatInv
<1>10. \A k \in Taken(I) : I.player[k] = c => k = n
  BY <1>1, <1>9 DEF n
<1>11. \A h \in AnonGames : P[h] = NoInfo \/ GameInv(P[h], h, anon, s.route, y)
  <2> TAKE h \in AnonGames
  <2>1. CASE h # g
    <3> DEFINE H == s.infos[h]
    <3>1. P[h] = H /\ H \in InfoRec
      BY <1>2, <1>8, <2>1
    <3> SUFFICES ASSUME H # NoInfo PROVE GameInv(H, h, anon, s.route, y)
      BY <3>1
    <3>2. GameInv(H, h, s.anon, s.route, x)
      BY <1>2 DEF GamesInv
    <3>3. H.player \in Seq(Gamers \cup {None})
      BY <3>1, InfoFields
    <3> HIDE DEF H
    <3>4. \A k \in Taken(H) : H.player[k] \in Gamers /\ SeatInv(H, h, k, s.anon, s.route, x)
      BY <3>2, <3>3 DEF GameInv, Taken
    <3>5. ASSUME NEW k \in Taken(H)
          PROVE  H.player[k] \in Gamers \ {c} /\ SeatInv(H, h, k, anon, s.route, y)
      <4>1. H.player[k] \in Gamers /\ SeatInv(H, h, k, s.anon, s.route, x)
        BY <3>4
      <4>2. H.player[k] # c
        BY <2>1, <4>1 DEF SeatInv, g
      <4>3. anon[H.player[k]] = s.anon[H.player[k]]
        BY <4>1, <4>2
      <4> QED BY <4>1, <4>2, <4>3 DEF SeatInv
    <3>6. H.times = 0 \/ \A k \in Taken(H) : H.player[k] = y
      BY <3>2, <3>5 DEF GameInv
    <3> QED BY <3>2, <3>5, <3>6 DEF GameInv
  <2>2. CASE h = g /\ I.cur = 1
    BY <1>6, <1>8, <2>2
  <2>3. CASE h = g /\ I.cur # 1
    <3>1. P[h] = J
      BY <1>6, <1>8, <2>3
    <3>2. ASSUME NEW k \in Taken(J) PROVE J.player[k] \in Gamers \ {c} /\ SeatInv(J, g, k, anon, s.route, y)
      <4>1. k \in Taken(I) /\ k # n /\ J.player[k] = I.player[k]
        BY <1>4, <2>3
      <4>2. SeatInv(I, g, k, s.anon, s.route, x)
        BY <1>1, <4>1 DEF GameInv
      <4>3. I.player[k] \in Gamers /\ I.player[k] # c
        BY <1>9, <1>10, <4>1
      <4>4. anon[I.player[k]] = s.anon[I.player[k]]
        BY <4>3
      <4>5. J.told = I.told /\ J.ready = I.ready
        BY <1>4, <2>3
      <4> QED BY <4>1, <4>2, <4>3, <4>4, <4>5 DEF SeatInv
    <3>3. J.times = 0
      <4>1. I.times = 0 \/ \A k \in Taken(I) : I.player[k] = x
        BY <1>1 DEF GameInv
      <4>2. ASSUME \A k \in Taken(I) : I.player[k] = x PROVE FALSE
        <5>1. x = c
          BY <1>1, <4>2
        <5>2. Taken(I) = {n}
          BY <1>1, <1>10, <4>2, <5>1
        <5>3. Taken(J) = {}
          BY <1>4, <2>3, <5>2
        <5>4. J.cur = 0
          BY <1>4, <2>3, <5>3, FS_EmptySet
        <5> QED BY <1>4, <2>3, <5>4
      <4> QED BY <1>4, <2>3, <4>1, <4>2
    <3>4. GameInv(J, g, anon, s.route, y)
      <4>1. /\ DOMAIN I.told = DOMAIN I.player /\ DOMAIN I.account = DOMAIN I.player /\ I.told = I.results
            /\ SuitsAll(I.made)
            /\ (\E k \in DOMAIN I.told : I.told[k] # <<>>) => I.ready
        BY <1>1 DEF GameInv
      <4>2. /\ J.cur > 0 /\ J.cur = Cardinality(Taken(J)) /\ DOMAIN J.player = DOMAIN I.player
            /\ J.told = I.told /\ J.results = I.results /\ J.account = I.account
            /\ J.ready = I.ready /\ J.made = I.made
        BY <1>4, <2>3
      <4>3. \A k \in Taken(J) : SeatInv(J, g, k, anon, s.route, y)
        BY <3>2
      <4>4. (\E k \in DOMAIN J.told : J.told[k] # <<>>) => J.ready
        BY <4>1, <4>2
      <4>5. DOMAIN J.told = DOMAIN J.player /\ DOMAIN J.account = DOMAIN J.player /\ J.told = J.results
        BY <4>1, <4>2
      <4>6. SuitsAll(J.made)
        BY <4>1, <4>2
      <4> QED BY <3>3, <4>2, <4>3, <4>4, <4>5, <4>6 DEF GameInv
    <3> QED BY <2>3, <3>1, <3>4
  <2> QED BY <2>1, <2>2, <2>3
<1>12. ASSUME NEW d \in Gamers, anon[d].info # 0
       PROVE  /\ anon[d].num \in DOMAIN P[anon[d].info].player
              /\ P[anon[d].info].player[anon[d].num] = d
  <2>1. d # c /\ anon[d] = s.anon[d]
    BY <1>12
  <2> DEFINE h == s.anon[d].info
             k == s.anon[d].num
  <2>2. h \in AnonGames
    <3>1. s.anon[d] \in AnonRec
      BY <1>2, AnonParts
    <3> QED BY <1>12, <2>1, <3>1, AnonFields
  <2>3. k \in DOMAIN s.infos[h].player /\ s.infos[h].player[k] = d
    BY <1>2, <1>12, <2>1 DEF GamesInv
  <2> HIDE DEF h, k
  <2>4. CASE h # g
    BY <1>8, <1>12, <2>1, <2>2, <2>3, <2>4 DEF h, k
  <2>5. CASE h = g
    <3>1. k \in DOMAIN I.player /\ I.player[k] = d
      BY <2>3, <2>5 DEF I
    <3>2. k \in Taken(I) /\ k # n
      BY <1>1, <2>1, <3>1, Words DEF Taken
    <3>3. I.cur # 1
      BY <1>4, <3>2
    <3>4. K = J
      BY <1>6, <3>3
    <3>5. k \in Taken(J) /\ k \in DOMAIN J.player /\ J.player[k] = d
      BY <1>4, <3>1, <3>2, <3>3
    <3> QED BY <1>8, <2>1, <2>5, <3>4, <3>5 DEF h, k
  <2> QED BY <2>4, <2>5
<1>13. GamesInv(P, anon, s.route, y)
  BY <1>11, <1>12 DEF GamesInv
<1> QED BY <1>7, <1>13, SMTT(40) DEF t, P, g, n

-----------------------------------------------------------------------------
\* States in which only c has lost what he had.
Unfound(s, t, c) ==
  /\ t.conn = s.conn /\ t.route = s.route /\ t.ended = s.ended
  /\ \A d \in Gamers \ {c} : t.anon[d] = s.anon[d]
  /\ t.anon[c].queue = None /\ t.anon[c].info = 0 /\ t.anon[c].tid = 0 /\ t.anon[c].tc = <<>>

\* What players have does not matter to an entry for others.
LEMMA WaitsStill ==
  ASSUME NEW conn, NEW anon, NEW other, NEW q, NEW c,
         NEW D, \A d \in Gamers \ D : other[d] = anon[d],
         Waits(conn, anon, q, c), c \in Gamers, TeamOf(conn, c) \subseteq Gamers,
         IF anongame_arranged(q) THEN TeamOf(conn, c) \cap D = {} ELSE c \notin D
  PROVE  Waits(conn, other, q, c)
<1>1. CASE anongame_arranged(q)
  <2>1. ASSUME NEW d \in TeamOf(conn, c)
        PROVE  Waiting(conn, other, q, d) /\ other[d].tc = conn[c].team
    <3>1. d \in Gamers \ D
      BY <1>1
    <3>2. other[d] = anon[d] /\ Waiting(conn, anon, q, d) /\ anon[d].tc = conn[c].team
      BY <1>1, <3>1 DEF Waits
    <3> QED BY <3>2 DEF Waiting
  <2> QED BY <1>1, <2>1 DEF Waits
<1>2. CASE ~anongame_arranged(q)
  <2>1. other[c] = anon[c]
    BY <1>2
  <2> QED BY <1>2, <2>1 DEF Waits, Waiting
<1> QED BY <1>1, <1>2

\* The players of teams.
LEMMA TeamsAre ==
  ASSUME NEW s, AnonState(s), NEW c \in Gamers
  PROVE  /\ s.conn[c].team \in Seq(Gamers) /\ TeamOf(s.conn, c) \subseteq Gamers
         /\ s.conn[c].team # <<>> => /\ Head(s.conn[c].team) = s.conn[c].team[1]
                                     /\ Head(s.conn[c].team) \in TeamOf(s.conn, c)
                                     /\ DOMAIN s.conn[c].team = {1, 2}
                                     /\ TeamOf(s.conn, c) = {s.conn[c].team[1], s.conn[c].team[2]}
<1> DEFINE m == s.conn[c].team
<1>1. m \in Teams
  BY AnonParts, ConnFields
<1>2. m = <<>> \/ \E a, b \in Gamers : m = <<a, b>>
  BY <1>1 DEF Teams
<1> HIDE DEF m
<1>3. CASE m = <<>>
  BY <1>3, EmptyList DEF TeamOf, m
<1>4. CASE \E a, b \in Gamers : m = <<a, b>>
  <2>1. PICK a \in Gamers, b \in Gamers : m = <<a, b>>
    BY <1>4
  <2>2. m \in Seq(Gamers) /\ m[1] = a /\ m[2] = b /\ DOMAIN m = 1..2 /\ Head(m) = m[1]
    BY <2>1
  <2>3. ToSet(m) = {m[1], m[2]}
    <3>1. \A k \in 1..2 : k = 1 \/ k = 2
      OBVIOUS
    <3>2. 1 \in 1..2 /\ 2 \in 1..2
      OBVIOUS
    <3> QED BY <2>2, <3>1, <3>2 DEF ToSet
  <2>4. 1..2 = {1, 2}
    OBVIOUS
  <2> QED BY <2>2, <2>3, <2>4 DEF TeamOf, m
<1> QED BY <1>2, <1>3, <1>4

\* The list of q without the entry that is for c, who has a.
OutFor(q, a, c, l, m) ==
  IF q # a.queue THEN m = l
  ELSE IF ~anongame_arranged(q) THEN Fewer(l, m, {c})
  ELSE Fewer(l, m, {a.tc[1]}) \/ (m = l /\ (a.tc = <<>> \/ a.tc[1] \notin Gamers))

\* The queues, when c has been taken out with the entry that is for him.
LEMMA QueuesLeft ==
  ASSUME NEW s, NEW x, Sound(s, x), NEW c \in Gamers, HasAnon(s, c),
         NEW t, AnonState(t), t.conn = s.conn, Unfound(s, t, c),
         \A q \in AnonTypes : OutFor(q, s.anon[c], c, s.lists[q], t.lists[q])
  PROVE  \A q \in AnonTypes : QueueInv(t.conn, t.anon, q, t.lists[q])
<1> TAKE q \in AnonTypes
<1> DEFINE a == s.anon[c]
           l == s.lists[q]
           m == t.lists[q]
<1>1. AnonState(s) /\ QueueInv(s.conn, s.anon, q, l) /\ ClientsInv(s.conn, s.anon)
  BY DEF Sound
<1>2. OneEach(m) /\ \A i \in DOMAIN m : \E j \in DOMAIN l : l[j] = m[i]
  <2>1. OutFor(q, a, c, l, m)
    OBVIOUS
  <2>2. m = l \/ \E C : Fewer(l, m, C)
    BY <2>1 DEF OutFor
  <2> QED BY <1>1, <2>2 DEF Fewer, QueueInv
<1>3. s.lists \in [AnonTypes -> Seq(EntryRec)] /\ t.lists \in [AnonTypes -> Seq(EntryRec)]
  BY <1>1, AnonParts
<1>4. ASSUME NEW i \in DOMAIN m
      PROVE  Waits(t.conn, t.anon, q, m[i].c)
  <2> DEFINE e == m[i].c
  <2>1. Waits(s.conn, s.anon, q, e)
    BY <1>1, <1>2 DEF QueueInv
  <2>2. e \in Gamers
    <3>1. m \in Seq(EntryRec)
      BY <1>3
    <3>2. m[i] \in EntryRec
      BY <3>1
    <3> QED BY <3>2 DEF EntryRec
  <2>3. TeamOf(s.conn, e) \subseteq Gamers
    BY <1>1, <2>2, TeamsAre
  <2> HIDE DEF e
  <2>0. OutFor(q, a, c, l, m)
    OBVIOUS
  <2>4. ASSUME anongame_arranged(q), c \in TeamOf(s.conn, e) PROVE FALSE
    <3>1. a.queue = q /\ a.tc = s.conn[e].team /\ s.conn[e].team # <<>> /\ e = Head(s.conn[e].team)
      BY <2>1, <2>4 DEF Waits, Waiting
    <3>2. a.tc[1] = e
      BY <1>1, <2>2, <3>1, TeamsAre
    <3>3. Fewer(l, m, {e})
      BY <2>0, <2>2, <2>4, <3>1, <3>2, EmptyList DEF OutFor
    <3> QED BY <3>3 DEF Fewer, e
  <2>5. ASSUME ~anongame_arranged(q), e = c PROVE FALSE
    <3>1. a.queue = q
      BY <2>1, <2>5 DEF Waits, Waiting
    <3>2. Fewer(l, m, {c})
      BY <2>0, <2>5, <3>1 DEF OutFor
    <3> QED BY <2>5, <3>2 DEF Fewer, e
  <2>6. IF anongame_arranged(q) THEN TeamOf(s.conn, e) \cap {c} = {} ELSE e \notin {c}
    BY <2>4, <2>5
  <2>7. \A d \in Gamers \ {c} : t.anon[d] = s.anon[d]
    BY DEF Unfound
  <2>8. Waits(s.conn, t.anon, q, e)
    BY <2>1, <2>2, <2>3, <2>6, <2>7, WaitsStill
  <2> QED BY <2>8 DEF e
<1> QED BY <1>2, <1>4 DEF QueueInv

\* conn_destroy_anongame.
LEMMA DestroyIs ==
  ASSUME NEW s, NEW x, Sound(s, x), NEW c \in Gamers,
         NEW y, y = x \/ (x = c /\ y = None)
  PROVE  LET t == conn_destroy_anongame(s, c)
         IN  Sound(t, y) /\ Unfound(s, t, c)
<1> DEFINE a == s.anon[c]
           t0 == IF a.info = 0 THEN s ELSE OffSeat(s, a.info, a.num)
           queued == IF ~anongame_arranged(a.queue) THEN {c}
                     ELSE IF a.tc = <<>> THEN {} ELSE {a.tc[1]} \cap Gamers
           u == IF queued = {} THEN t0 ELSE anongame_unqueue(t0, CHOOSE d \in queued : TRUE, a.queue)
           v == [u EXCEPT !.anon[c] = NoAnon]
           t == conn_destroy_anongame(s, c)
<1>1. /\ AnonState(s) /\ ClientsInv(s.conn, s.anon) /\ TeamsInv(s.conn)
      /\ \A q \in AnonTypes : QueueInv(s.conn, s.anon, q, s.lists[q])
      /\ GamesInv(s.infos, s.anon, s.route, x)
  BY DEF Sound
<1>2. a \in AnonRec /\ s.anon \in [Gamers -> AnonRec]
  BY <1>1, AnonParts
<1>3. t = IF HasAnon(s, c) THEN v ELSE s
  BY DEF conn_destroy_anongame
<1>4. ASSUME NEW anon, \A d \in Gamers \ {c} : anon[d] = s.anon[d], anon[c].info = 0
      PROVE  /\ AnonState(t0) /\ t0.conn = s.conn /\ t0.anon = s.anon /\ t0.route = s.route
             /\ t0.lists = s.lists /\ t0.ended = s.ended
             /\ GamesInv(t0.infos, anon, s.route, y)
  <2>1. CASE a.info # 0
    BY <1>4, <2>1, OffSeatIs
  <2>2. CASE a.info = 0
    <3>1. \A d \in Gamers : anon[d].info = s.anon[d].info /\ (anon[d].info # 0 => anon[d] = s.anon[d])
      BY <1>4, <2>2
    <3>2. ASSUME NEW g \in AnonGames, s.infos[g] # NoInfo
          PROVE  GameInv(s.infos[g], g, anon, s.route, y)
      <4> DEFINE I == s.infos[g]
      <4>1. GameInv(I, g, s.anon, s.route, x)
        BY <1>1, <3>2 DEF GamesInv
      <4>2. I \in InfoRec
        BY <1>1, AnonParts
      <4>3. I.player \in Seq(Gamers \cup {None})
        BY <4>2, InfoFields
      <4> HIDE DEF I
      <4>4. ASSUME NEW n \in Taken(I)
            PROVE  I.player[n] # c /\ SeatInv(I, g, n, anon, s.route, y)
        <5>1. SeatInv(I, g, n, s.anon, s.route, x) /\ I.player[n] \in Gamers
          BY <4>1, <4>3 DEF GameInv, Taken
        <5>2. s.anon[I.player[n]].info # 0
          <6>1. g # 0
            BY AnonGameAssumption DEF AnonGames
          <6> QED BY <5>1, <6>1 DEF SeatInv
        <5>3. I.player[n] # c /\ anon[I.player[n]] = s.anon[I.player[n]]
          BY <2>2, <3>1, <5>1, <5>2
        <5> QED BY <5>1, <5>3 DEF SeatInv
      <4>5. I.times = 0 \/ \A n \in Taken(I) : I.player[n] = y
        BY <4>1, <4>4 DEF GameInv
      <4>6. GameInv(I, g, anon, s.route, y)
        BY <4>1, <4>4, <4>5 DEF GameInv
      <4> QED BY <4>6 DEF I
    <3>3. GamesInv(s.infos, anon, s.route, y)
      BY <1>1, <3>1, <3>2 DEF GamesInv
    <3> QED BY <1>1, <2>2, <3>3
  <2> QED BY <2>1, <2>2
<1>5. CASE ~HasAnon(s, c)
  <2>1. t = s /\ a.queue = None
    BY <1>3, <1>5 DEF HasAnon
  <2>2. a.info = 0 /\ a.tid = 0 /\ a.tc = <<>>
    BY <1>1, <2>1 DEF ClientsInv, ClientInv
  <2>3. GamesInv(s.infos, s.anon, s.route, y)
    <3> HIDE DEF t0
    <3>1. t0.infos = s.infos
      BY <2>2 DEF t0
    <3>2. GamesInv(t0.infos, s.anon, s.route, y)
      BY <1>4, <2>2
    <3> QED BY <3>1, <3>2
  <2> QED BY <1>1, <2>1, <2>2, <2>3 DEF Unfound, Sound
<1>6. CASE HasAnon(s, c)
  <2> DEFINE anon == [s.anon EXCEPT ![c] = NoAnon]
  <2>1. anon \in [Gamers -> AnonRec] /\ (\A d \in Gamers \ {c} : anon[d] = s.anon[d]) /\ anon[c] = NoAnon
    BY <1>2, Nothing
  <2> HIDE DEF anon
  <2>2. anon[c].info = 0
    BY <2>1, Nothing
  <2>3. /\ AnonState(t0) /\ t0.conn = s.conn /\ t0.anon = s.anon /\ t0.route = s.route
        /\ t0.lists = s.lists /\ t0.ended = s.ended
        /\ GamesInv(t0.infos, anon, s.route, y)
    <3> HIDE DEF t0
    <3> QED BY <1>4, <2>1, <2>2
  <2> HIDE DEF t0
  <2>4. a.queue \in AnonTypes
    BY <1>2, <1>6, AnonFields DEF HasAnon
  <2>5. OneEach(t0.lists[a.queue])
    BY <1>1, <2>3, <2>4 DEF QueueInv
  <2>6. /\ OtherList(t0, u, a.queue)
        /\ \/ ~anongame_arranged(a.queue) /\ Fewer(s.lists[a.queue], u.lists[a.queue], {c})
           \/ anongame_arranged(a.queue) /\ Fewer(s.lists[a.queue], u.lists[a.queue], {a.tc[1]})
           \/ /\ anongame_arranged(a.queue) /\ u.lists[a.queue] = s.lists[a.queue]
              /\ a.tc = <<>> \/ a.tc[1] \notin Gamers
    <3>1. CASE queued = {}
      <4>1. u = t0 /\ anongame_arranged(a.queue) /\ (a.tc = <<>> \/ a.tc[1] \notin Gamers)
        BY <3>1
      <4> HIDE DEF u
      <4> QED BY <2>3, <4>1 DEF OtherList
    <3>2. CASE queued # {}
      <4> DEFINE d == CHOOSE d \in queued : TRUE
      <4>1. d \in queued /\ u = anongame_unqueue(t0, d, a.queue)
        BY <3>2
      <4>2. d \in Gamers /\ IF anongame_arranged(a.queue) THEN d = a.tc[1] ELSE d = c
        BY <4>1
      <4> HIDE DEF d, u
      <4>3. OtherList(t0, u, a.queue) /\ Fewer(t0.lists[a.queue], u.lists[a.queue], {d})
        BY <2>3, <2>4, <2>5, <4>1, <4>2, UnqueueIs
      <4> QED BY <2>3, <4>2, <4>3
    <3> QED BY <3>1, <3>2, ZenonT(60)
  <2> HIDE DEF u, queued
  <2>7. AnonState(u) /\ u.conn = s.conn /\ u.anon = s.anon /\ u.route = s.route
        /\ u.infos = t0.infos /\ u.ended = s.ended
    BY <2>3, <2>6 DEF OtherList
  <2>8. /\ AnonState(v) /\ v.conn = s.conn /\ v.anon = anon /\ v.route = s.route
        /\ v.infos = t0.infos /\ v.ended = s.ended /\ v.lists = u.lists
    BY <2>1, <2>7, Nothing DEF AnonState, anon
  <2>9. t = v
    BY <1>3, <1>6
  <2> HIDE DEF v, t
  <2>10. Unfound(s, v, c)
    BY <2>1, <2>8, Nothing DEF Unfound
  <2>11. \A q \in AnonTypes : QueueInv(v.conn, v.anon, q, v.lists[q])
    <3>1. \A q \in AnonTypes : OutFor(q, a, c, s.lists[q], v.lists[q])
      <4> TAKE q \in AnonTypes
      <4>1. CASE q # a.queue
        BY <2>3, <2>6, <2>8, <4>1 DEF OtherList, OutFor
      <4>2. CASE q = a.queue
        BY <2>6, <2>8, <4>2 DEF OutFor
      <4> QED BY <4>1, <4>2
    <3> QED BY <1>6, <2>8, <2>10, <3>1, QueuesLeft
  <2>12. ClientsInv(v.conn, v.anon)
    <3> SUFFICES ASSUME NEW d \in Gamers PROVE ClientInv(v.conn, v.anon[d], d)
      BY DEF ClientsInv
    <3>1. CASE d = c
      <4>1. v.anon[d].queue = None /\ v.anon[d].info = 0 /\ v.anon[d].tid = 0 /\ v.anon[d].tc = <<>>
        BY <2>10, <3>1 DEF Unfound
      <4>2. ClientInv(s.conn, s.anon[d], d)
        BY <1>1 DEF ClientsInv
      <4> QED BY <2>8, <4>1, <4>2, EmptyList DEF ClientInv
    <3>2. CASE d # c
      <4>1. v.anon[d] = s.anon[d]
        BY <2>10, <3>2 DEF Unfound
      <4> QED BY <1>1, <2>8, <4>1 DEF ClientsInv
    <3> QED BY <3>1, <3>2
  <2>13. GamesInv(v.infos, v.anon, v.route, y) /\ TeamsInv(v.conn)
    BY <1>1, <2>3, <2>8
  <2> QED BY <2>8, <2>9, <2>10, <2>11, <2>12, <2>13 DEF Sound, t
<1> QED BY <1>5, <1>6

-----------------------------------------------------------------------------
\* A player who has nothing any more changes what he does; from the teams that others know he
\* may vanish.
Fades(s, t, c) ==
  /\ \A d \in Gamers \ {c} :
       /\ t.conn[d] = s.conn[d]
       /\ t.anon[d].queue = s.anon[d].queue /\ t.anon[d].info = s.anon[d].info
       /\ t.anon[d].num = s.anon[d].num /\ t.anon[d].tid = s.anon[d].tid
       /\ \/ t.anon[d].tc = s.anon[d].tc
          \/ /\ c \in ToSet(s.anon[d].tc) /\ d \in ToSet(t.anon[d].tc)
             /\ ToSet(t.anon[d].tc) \subseteq ToSet(s.anon[d].tc) \cup {Freed}
       /\ t.route[d] = s.route[d]
  /\ t.anon[c].queue = None /\ t.anon[c].info = 0 /\ t.anon[c].tid = 0 /\ t.anon[c].tc = <<>>
  /\ t.conn[c].cl \in {"off", "idle"} /\ (t.conn[c].cl = "off" => t.conn[c].team = <<>>)
  /\ t.conn[c].cl # "off" /\ t.conn[c].team = <<>> => t.conn[c].tried

\* What remains when a player fades is sound.
LEMMA FadesSound ==
  ASSUME NEW s, NEW x, Sound(s, x), NEW c \in Gamers,
         s.anon[c].queue = None,
         NEW t, AnonState(t), TeamsInv(t.conn), t.lists = s.lists, t.infos = s.infos,
         Fades(s, t, c)
  PROVE  Sound(t, x)
<1>1. /\ AnonState(s) /\ ClientsInv(s.conn, s.anon)
      /\ \A q \in AnonTypes : QueueInv(s.conn, s.anon, q, s.lists[q])
      /\ GamesInv(s.infos, s.anon, s.route, x)
  BY DEF Sound
<1>2. s.anon[c].info = 0
  BY <1>1 DEF ClientsInv, ClientInv
<1>3. ClientsInv(t.conn, t.anon)
  <2> SUFFICES ASSUME NEW d \in Gamers PROVE ClientInv(t.conn, t.anon[d], d)
    BY DEF ClientsInv
  <2>1. CASE d = c
    BY <2>1, EmptyList DEF Fades, ClientInv
  <2>2. CASE d # c
    <3>1. ClientInv(s.conn, s.anon[d], d)
      BY <1>1 DEF ClientsInv
    <3>2. t.conn[d] = s.conn[d] /\ TeamOf(t.conn, d) = TeamOf(s.conn, d)
      BY <2>2 DEF Fades, TeamOf
    <3>3. /\ t.anon[d].tc # <<>> => d \in ToSet(t.anon[d].tc)
          /\ ToSet(t.anon[d].tc) \subseteq TeamOf(t.conn, d) \cup {d, Freed}
          /\ t.anon[d].queue = None => t.anon[d].tc = <<>>
      <4>1. CASE t.anon[d].tc = s.anon[d].tc
        BY <2>2, <3>1, <3>2, <4>1 DEF ClientInv, Fades
      <4>2. CASE t.anon[d].tc # s.anon[d].tc
        <5>1. /\ c \in ToSet(s.anon[d].tc) /\ d \in ToSet(t.anon[d].tc)
              /\ ToSet(t.anon[d].tc) \subseteq ToSet(s.anon[d].tc) \cup {Freed}
              /\ t.anon[d].queue = s.anon[d].queue
          BY <2>2, <4>2 DEF Fades
        <5>2. s.anon[d].tc # <<>>
          BY <5>1, EmptyList
        <5> QED BY <3>1, <3>2, <5>1, <5>2 DEF ClientInv
      <4> QED BY <4>1, <4>2
    <3> QED BY <2>2, <3>1, <3>2, <3>3 DEF ClientInv, Fades
  <2> QED BY <2>1, <2>2
<1>4. \A q \in AnonTypes : QueueInv(t.conn, t.anon, q, t.lists[q])
  <2> TAKE q \in AnonTypes
  <2>1. QueueInv(s.conn, s.anon, q, s.lists[q]) /\ t.lists[q] = s.lists[q]
    BY <1>1
  <2>2. s.lists \in [AnonTypes -> Seq(EntryRec)]
    BY <1>1, AnonParts
  <2>3. ASSUME NEW i \in DOMAIN s.lists[q]
        PROVE  Waits(t.conn, t.anon, q, s.lists[q][i].c)
    <3> DEFINE e == s.lists[q][i].c
    <3>1. e \in Gamers
      <4>1. s.lists[q] \in Seq(EntryRec)
        BY <2>2
      <4>2. s.lists[q][i] \in EntryRec
        BY <4>1
      <4> QED BY <4>2 DEF EntryRec
    <3>2. Waits(s.conn, s.anon, q, e)
      BY <2>1 DEF QueueInv
    <3> HIDE DEF e
    <3>3. /\ TeamOf(s.conn, e) \subseteq Gamers
          /\ s.conn[e].team # <<>> => Head(s.conn[e].team) \in TeamOf(s.conn, e)
      BY <1>1, <3>1, TeamsAre
    <3>4. \A d \in Gamers : Waiting(s.conn, s.anon, q, d) => d # c
      BY Words, SMTT(40) DEF Waiting
    <3>5. CASE ~anongame_arranged(q)
      <4>1. s.conn[e].team = <<>> /\ Waiting(s.conn, s.anon, q, e) /\ e # c
        BY <3>1, <3>2, <3>4, <3>5 DEF Waits
      <4>2. t.conn[e] = s.conn[e] /\ t.anon[e].queue = s.anon[e].queue /\ t.anon[e].info = s.anon[e].info
        BY <3>1, <4>1 DEF Fades
      <4> QED BY <3>5, <4>1, <4>2 DEF Waits, Waiting, e
    <3>6. CASE anongame_arranged(q)
      <4>1. /\ s.conn[e].team # <<>> /\ e = Head(s.conn[e].team)
            /\ \A d \in TeamOf(s.conn, e) : Waiting(s.conn, s.anon, q, d) /\ s.anon[d].tc = s.conn[e].team
        BY <3>2, <3>6 DEF Waits
      <4>2. c \notin TeamOf(s.conn, e) /\ e # c
        BY <3>3, <3>4, <4>1
      <4>3. t.conn[e] = s.conn[e] /\ TeamOf(t.conn, e) = TeamOf(s.conn, e)
        BY <3>1, <4>2 DEF Fades, TeamOf
      <4>4. ASSUME NEW d \in TeamOf(s.conn, e)
            PROVE  Waiting(t.conn, t.anon, q, d) /\ t.anon[d].tc = t.conn[e].team
        <5>1. d \in Gamers \ {c}
          BY <3>3, <4>2
        <5>2. c \notin ToSet(s.anon[d].tc)
          BY <4>1, <4>2 DEF TeamOf
        <5>3. /\ t.conn[d] = s.conn[d] /\ t.anon[d].queue = s.anon[d].queue
              /\ t.anon[d].info = s.anon[d].info /\ t.anon[d].tc = s.anon[d].tc
          BY <5>1, <5>2 DEF Fades
        <5> QED BY <4>1, <4>3, <5>3 DEF Waiting
      <4> QED BY <3>6, <4>1, <4>3, <4>4, ZenonT(60) DEF Waits, e
    <3> QED BY <3>5, <3>6
  <2> QED BY <2>1, <2>3 DEF QueueInv
<1>5. GamesInv(t.infos, t.anon, t.route, x)
  <2>1. \A d \in Gamers : t.anon[d].info = s.anon[d].info /\ (t.anon[d].info # 0 =>
          d # c /\ t.anon[d].num = s.anon[d].num /\ t.route[d] = s.route[d])
    BY <1>2 DEF Fades
  <2>2. ASSUME NEW g \in AnonGames, s.infos[g] # NoInfo
        PROVE  GameInv(s.infos[g], g, t.anon, t.route, x)
    <3> DEFINE I == s.infos[g]
    <3>1. GameInv(I, g, s.anon, s.route, x)
      BY <1>1, <2>2 DEF GamesInv
    <3>2. I \in InfoRec
      BY <1>1, AnonParts
    <3>3. I.player \in Seq(Gamers \cup {None}) /\ g # 0
      BY <3>2, InfoFields DEF AnonGames
    <3> HIDE DEF I
    <3>4. ASSUME NEW n \in Taken(I)
          PROVE  SeatInv(I, g, n, t.anon, t.route, x)
      <4>1. SeatInv(I, g, n, s.anon, s.route, x) /\ I.player[n] \in Gamers
        BY <3>1, <3>3 DEF GameInv, Taken
      <4>2. t.anon[I.player[n]].info = g /\ t.anon[I.player[n]].num = n /\ t.route[I.player[n]] = s.route[I.player[n]]
        BY <2>1, <3>3, <4>1 DEF SeatInv
      <4> QED BY <4>1, <4>2 DEF SeatInv
    <3>5. GameInv(I, g, t.anon, t.route, x)
      BY <3>1, <3>4 DEF GameInv
    <3> QED BY <3>5 DEF I
  <2> QED BY <1>1, <2>1, <2>2 DEF GamesInv
<1> QED BY <1>3, <1>4, <1>5 DEF Sound

\* Teams are the same, and no more players are told of a game or have yet to ask.
LEMMA TeamsStill ==
  ASSUME NEW conn, NEW other, TeamsInv(conn),
         \A d \in Gamers : other[d].team = conn[d].team,
         \A d \in Gamers : IsOn(other, d) => IsOn(conn, d),
         \A d \in Gamers : other[d].cl = "found" => conn[d].cl = "found",
         \A d \in Gamers : conn[d].tried => other[d].tried
  PROVE  TeamsInv(other)
BY ZenonT(60) DEF TeamsInv, TeamOf, Same, Apart

\* The promise of an inviter to his team stands, or is void because c may not ask.
LEMMA AskedStill ==
  ASSUME NEW conn, NEW anon, NEW conn2, NEW anon2, AskedInv(conn, anon),
         \A c \in Gamers : TeamOf(conn, c) \subseteq Gamers,
         NEW C,
         \A d \in Gamers \ C :
           /\ conn2[d].team = conn[d].team /\ conn2[d].tried = conn[d].tried
           /\ IsOn(conn2, d) = IsOn(conn, d)
           /\ anon2[d].queue = anon[d].queue /\ anon2[d].tid = anon[d].tid
           /\ anon2[d].tc = anon[d].tc \/ ToSet(anon[d].tc) \cap C # {},
         \A c \in Gamers : c \in C \/ TeamOf(conn2, c) \cap C # {} => ~Open(conn2, anon2, c)
  PROVE  AskedInv(conn2, anon2)
<1> SUFFICES ASSUME NEW c \in Gamers, Open(conn2, anon2, c), NEW d \in TeamOf(conn2, c)
             PROVE  anon2[d].queue = "at2v2" /\ anon2[d].tc = conn2[c].team
  BY DEF AskedInv
<1>1. c \notin C /\ TeamOf(conn2, c) \cap C = {}
  OBVIOUS
<1>2. conn2[c].team = conn[c].team /\ TeamOf(conn2, c) = TeamOf(conn, c) /\ anon2[c].tid = anon[c].tid
  BY <1>1 DEF TeamOf
<1>3. \A e \in TeamOf(conn, c) : e \in Gamers \ C
  BY <1>1, <1>2
<1>4. Open(conn, anon, c)
  BY <1>2, <1>3 DEF Open
<1>5. anon[d].queue = "at2v2" /\ anon[d].tc = conn[c].team /\ d \in Gamers \ C
  BY <1>2, <1>3, <1>4 DEF AskedInv
<1>6. ToSet(anon[d].tc) \cap C = {}
  BY <1>1, <1>2, <1>5 DEF TeamOf
<1> QED BY <1>2, <1>5, <1>6

-----------------------------------------------------------------------------
\* Cancelling for all of a team.
Gone(s, d) ==
  s.anon[d].queue = None /\ s.anon[d].info = 0 /\ s.anon[d].tid = 0 /\ s.anon[d].tc = <<>>
AllGone(s, t, D) ==
  /\ Sound(t, None) /\ t.conn = s.conn /\ t.route = s.route /\ t.ended = s.ended
  /\ \A d \in Gamers : IF d \in D THEN Gone(t, d) ELSE t.anon[d] = s.anon[d]
CancelTurn(p, a, d) == Cancelled(a, d)
CancelTo(p, k, a) == AllGone(p[1], a, {p[2][j] : j \in 1..k})
CancelFold == INSTANCE FoldInduction WITH Op <- CancelTurn, Inv <- CancelTo

\* Nobody of the team has anything after it, and others have what they had.
LEMMA CancelledIs ==
  ASSUME NEW s, Sound(s, None), NEW tc \in Seq(Gamers \cup {Freed})
  PROVE  AllGone(s, FoldLeft(Cancelled, s, tc), ToSet(tc))
<1> DEFINE p == <<s, tc>>
           n == Len(tc)
<1>1. p[1] = s /\ p[2] = tc /\ n \in Nat /\ DOMAIN tc = 1..n
  OBVIOUS
<1> HIDE DEF p, n
<1>2. CancelTo(p, 0, s)
  <2>1. {p[2][j] : j \in 1..0} = {}
    OBVIOUS
  <2> QED BY <1>1, <2>1 DEF CancelTo, AllGone
<1>3. \A a : \A i \in 1..n : CancelTo(p, i - 1, a) => CancelTo(p, i, CancelTurn(p, a, tc[i]))
  <2> SUFFICES ASSUME NEW a, NEW i \in 1..n, CancelTo(p, i - 1, a)
               PROVE  CancelTo(p, i, CancelTurn(p, a, tc[i]))
    OBVIOUS
  <2> DEFINE D == {tc[j] : j \in 1..(i - 1)}
             E == {tc[j] : j \in 1..i}
             t == CancelTurn(p, a, tc[i])
  <2>1. AllGone(s, a, D)
    BY <1>1 DEF CancelTo
  <2>2. E = D \cup {tc[i]}
    <3>1. \A j \in 1..i : j = i \/ j \in 1..(i - 1)
      BY <1>1
    <3>2. i \in 1..i /\ \A j \in 1..(i - 1) : j \in 1..i
      BY <1>1
    <3> QED BY <3>1, <3>2
  <2>3. tc[i] \in Gamers \cup {Freed}
    BY <1>1
  <2>4. Sound(a, None)
    BY <2>1 DEF AllGone
  <2> HIDE DEF D, E
  <2>5. CASE tc[i] = Freed
    <3>1. t = a
      BY <2>5 DEF CancelTurn, Cancelled
    <3>2. AllGone(s, t, E)
      BY <2>1, <2>2, <2>5, <3>1, Words DEF AllGone
    <3> QED BY <1>1, <3>2 DEF CancelTo, E
  <2>6. CASE tc[i] # Freed
    <3>1. t = conn_destroy_anongame(a, tc[i]) /\ tc[i] \in Gamers
      BY <2>3, <2>6 DEF CancelTurn, Cancelled
    <3>2. Sound(t, None) /\ Unfound(a, t, tc[i])
      <4> HIDE DEF t
      <4> QED BY <2>4, <3>1, DestroyIs
    <3> HIDE DEF t
    <3>3. AllGone(s, t, E)
      <4>1. t.conn = s.conn /\ t.route = s.route /\ t.ended = s.ended
        BY <2>1, <3>2 DEF AllGone, Unfound
      <4>2. \A d \in Gamers : IF d \in E THEN Gone(t, d) ELSE t.anon[d] = s.anon[d]
        <5> TAKE d \in Gamers
        <5>1. CASE d = tc[i]
          BY <2>2, <3>2, <5>1 DEF Unfound, Gone
        <5>2. CASE d # tc[i]
          <6>1. t.anon[d] = a.anon[d] /\ (d \in E <=> d \in D)
            BY <2>2, <3>2, <5>2 DEF Unfound
          <6> QED BY <2>1, <6>1 DEF AllGone, Gone
        <5> QED BY <5>1, <5>2
      <4> QED BY <3>2, <4>1, <4>2 DEF AllGone
    <3> QED BY <1>1, <3>3 DEF CancelTo, E, t
  <2> QED BY <2>5, <2>6
<1>4. CancelTo(p, n, CancelFold!Fold(p, s, tc))
  BY <1>1, <1>2, <1>3, CancelFold!FoldLeftInv
<1>5. FoldLeft(Cancelled, s, tc) = CancelFold!Fold(p, s, tc)
  BY DEF CancelTurn, FoldLeft, MapThenFoldSet, Max,
         CancelFold!Fold, CancelFold!Greatest
<1>6. {p[2][j] : j \in 1..n} = ToSet(tc)
  BY <1>1 DEF ToSet
<1> QED BY <1>1, <1>4, <1>5, <1>6 DEF CancelTo

\* The state without the results of the last step.
LEMMA NowIs ==
  ASSUME AnonInv
  PROVE  /\ Sound(Now, None) /\ Now.conn = ag.conn /\ Now.anon = ag.anon /\ Now.route = ag.route
         /\ Now.lists = ag.lists /\ Now.infos = ag.infos /\ Now.ended = NotEnded
<1>1. AnonState(ag)
  BY DEF AnonInv, Sound
<1>2. /\ AnonState(Now) /\ Now.conn = ag.conn /\ Now.anon = ag.anon /\ Now.route = ag.route
      /\ Now.lists = ag.lists /\ Now.infos = ag.infos /\ Now.ended = NotEnded
  BY <1>1 DEF AnonState, Now
<1> QED BY <1>2 DEF AnonInv, Sound

\* What the steps show.
EndedOK(e) ==
  LET Said(n, result) == Cardinality({i \in DOMAIN e.told : e.told[i] # <<>> /\ e.told[i][n] = result})
  IN  e # NotEnded =>
        /\ e.times = 1
        /\ \A n \in DOMAIN e.given : e.given[n] = "win" <=> Said(n, "win") > Said(n, "loss")
        /\ \E n \in DOMAIN e.given : e.given[n] = "win"
Good(s) ==
  Sound(s, None) /\ RoutesInv(s.anon, s.route) /\ AskedInv(s.conn, s.anon) /\ EndedOK(s.ended)

\* The teams that the invariants are about.
LEMMA TeamsTyped ==
  ASSUME NEW s, AnonState(s)
  PROVE  \A c \in Gamers : TeamOf(s.conn, c) \subseteq Gamers
BY TeamsAre

\* Cancelling.
LEMMA CancelGood ==
  ASSUME AnonInv, NEW c \in Gamers, anongame_cancel(c)
  PROVE  Good(ag')
<1> DEFINE tc == ag.anon[c].tc
           s == FoldLeft(Cancelled, Now, tc)
           t == [s EXCEPT !.conn[c].cl = "idle"]
<1>1. /\ Sound(Now, None) /\ Now.conn = ag.conn /\ Now.anon = ag.anon /\ Now.route = ag.route
      /\ Now.ended = NotEnded /\ AnonState(ag)
  BY NowIs DEF AnonInv, Sound
<1>2. ag.anon[c] \in AnonRec /\ ag.conn \in [Gamers -> ConnRec] /\ ClientsInv(ag.conn, ag.anon)
  BY <1>1, AnonParts DEF AnonInv, Sound
<1>3. tc \in Seq(Gamers \cup {Freed})
  BY <1>2, AnonFields
<1>4. ag' = t /\ CancelsInTime(c)
  BY DEF anongame_cancel
<1>5. AllGone(Now, s, ToSet(tc))
  BY <1>1, <1>3, CancelledIs
<1> HIDE DEF s
<1>6. Sound(s, None) /\ s.conn = ag.conn /\ s.route = ag.route /\ s.ended = NotEnded
  BY <1>1, <1>5 DEF AllGone
<1>7. /\ AnonState(t) /\ t.anon = s.anon /\ t.route = ag.route /\ t.lists = s.lists
      /\ t.infos = s.infos /\ t.ended = NotEnded /\ t.conn[c].cl = "idle"
      /\ \A d \in Gamers \ {c} : t.conn[d] = ag.conn[d]
      /\ t.conn[c].team = ag.conn[c].team /\ t.conn[c].tried = ag.conn[c].tried
  <2>1. AnonState(s)
    BY <1>6 DEF Sound
  <2>2. ag.conn[c] \in ConnRec
    BY <1>2
  <2>3. [ag.conn EXCEPT ![c].cl = "idle"] \in [Gamers -> ConnRec]
    BY <1>2, <2>2 DEF ConnRec
  <2> QED BY <1>2, <1>6, <2>1, <2>2, <2>3, ZenonT(60) DEF AnonState, ConnRec
<1> HIDE DEF t
<1>8. ClientInv(ag.conn, ag.anon[c], c) /\ ag.conn[c].cl \in {"search", "found"} /\ ~ag.route[c]
  BY <1>2, <1>4 DEF ClientsInv, CancelsInTime
<1>9. Gone(s, c)
  <2>1. CASE HasAnon(ag, c)
    <3>1. c \in ToSet(tc)
      BY <1>4, <1>8, <2>1 DEF CancelsInTime, ClientInv
    <3> QED BY <1>5, <3>1 DEF AllGone
  <2>2. CASE ~HasAnon(ag, c)
    <3>1. ag.anon[c].queue = None
      BY <2>2 DEF HasAnon
    <3>2. tc = <<>> /\ Gone(ag, c)
      BY <1>8, <3>1 DEF ClientInv, Gone
    <3>3. c \notin ToSet(tc)
      BY <3>2, EmptyList
    <3>4. s.anon[c] = ag.anon[c]
      BY <1>1, <1>5, <3>3 DEF AllGone
    <3> QED BY <3>2, <3>4 DEF Gone
  <2> QED BY <2>1, <2>2
<1>10. TeamsInv(t.conn)
  <2>1. TeamsInv(ag.conn)
    BY DEF AnonInv, Sound
  <2>2. \A d \in Gamers : t.conn[d].team = ag.conn[d].team /\ t.conn[d].tried = ag.conn[d].tried
    BY <1>7
  <2>3. \A d \in Gamers : /\ IsOn(t.conn, d) => IsOn(ag.conn, d)
                          /\ t.conn[d].cl = "found" => ag.conn[d].cl = "found"
    BY <1>7, <1>8 DEF IsOn
  <2> QED BY <2>1, <2>2, <2>3, TeamsStill
<1>11. Sound(t, None)
  <2>1. Fades(s, t, c)
    <3>1. t.conn[c].tried
      BY <1>7, <1>8 DEF ClientInv
    <3> QED BY <1>6, <1>7, <1>9, <3>1 DEF Fades, Gone
  <2>2. s.anon[c].queue = None
    BY <1>9 DEF Gone
  <2> QED BY <1>6, <1>7, <1>10, <2>1, <2>2, FadesSound
<1>12. RoutesInv(t.anon, t.route)
  <2> SUFFICES ASSUME NEW d \in Gamers, ag.route[d] PROVE s.anon[d].info # 0
    BY <1>7 DEF RoutesInv
  <2>1. ag.anon[d].info # 0
    BY DEF AnonInv, RoutesInv
  <2>2. d \notin ToSet(tc)
    <3>1. CASE HasAnon(ag, c)
      BY <1>4, <3>1 DEF CancelsInTime
    <3>2. CASE ~HasAnon(ag, c)
      BY <1>8, <3>2, EmptyList DEF ClientInv, HasAnon
    <3> QED BY <3>1, <3>2
  <2> QED BY <1>1, <1>5, <2>1, <2>2 DEF AllGone
<1>13. AskedInv(t.conn, t.anon)
  <2> DEFINE C == ToSet(tc) \cap Gamers
  <2>1. AskedInv(ag.conn, ag.anon) /\ TeamsInv(ag.conn)
    BY DEF AnonInv, Sound
  <2>2. \A d \in Gamers : TeamOf(ag.conn, d) \subseteq Gamers
    BY <1>1, TeamsTyped
  <2>3. \A d \in Gamers : /\ t.conn[d].team = ag.conn[d].team /\ t.conn[d].tried = ag.conn[d].tried
                          /\ IsOn(t.conn, d) = IsOn(ag.conn, d)
                          /\ TeamOf(t.conn, d) = TeamOf(ag.conn, d)
    BY <1>7, <1>8 DEF IsOn, TeamOf
  <2>4. \A d \in Gamers \ C : t.anon[d] = ag.anon[d]
    BY <1>1, <1>5, <1>7 DEF AllGone
  <2>5. \A d \in C : t.anon[d].tid = 0
    BY <1>5, <1>7 DEF AllGone, Gone
  <2>6. ASSUME NEW h \in Gamers, h \in C \/ TeamOf(t.conn, h) \cap C # {}, Open(t.conn, t.anon, h)
        PROVE  FALSE
    <3>1. h \notin C /\ TeamOf(ag.conn, h) \cap C # {}
      BY <2>3, <2>5, <2>6 DEF Open
    <3>2. PICK d \in TeamOf(ag.conn, h) : d \in C
      BY <3>1
    <3>3. ~t.conn[d].tried /\ IsOn(t.conn, d) /\ t.conn[h].team # <<>>
      BY <2>3, <2>5, <2>6, <3>2 DEF Open
    <3>4. ag.conn[c].tried
      BY <1>8 DEF ClientInv
    <3>5. d # c
      BY <2>3, <3>2, <3>3, <3>4
    <3>6. ToSet(tc) # {}
      BY <3>2
    <3>7. c \in C
      <4>1. tc # <<>>
        BY <3>6, EmptyList
      <4> QED BY <1>8, <4>1 DEF ClientInv
    <3>8. d \in TeamOf(ag.conn, c)
      <4>1. ToSet(tc) \subseteq TeamOf(ag.conn, c) \cup {c, Freed}
        BY <1>8 DEF ClientInv
      <4> QED BY <3>2, <3>5, <4>1, Words
    <3>9. h # c /\ IsOn(ag.conn, c)
      BY <1>8, <3>1, <3>7 DEF IsOn
    <3>10. IsOn(ag.conn, h)
      <4>1. h \in TeamOf(ag.conn, h)
        BY <2>1, <2>3, <3>3 DEF TeamsInv
      <4> QED BY <2>3, <2>6, <4>1 DEF Open
    <3>11. ag.conn[c].team = ag.conn[h].team /\ ag.conn[c].team # <<>>
      <4>1. ~Apart(ag.conn, c, h)
        BY <3>2, <3>8 DEF Apart
      <4> QED BY <2>1, <3>9, <3>10, <4>1 DEF TeamsInv, Same
    <3>12. h \in TeamOf(ag.conn, c) /\ c \in TeamOf(ag.conn, c)
      BY <2>1, <3>11 DEF TeamsInv, TeamOf
    <3>13. h # d
      BY <3>1, <3>2
    <3>14. TeamOf(ag.conn, c) = {ag.conn[c].team[1], ag.conn[c].team[2]}
      BY <1>1, <3>11, TeamsAre
    <3> QED BY <3>5, <3>8, <3>9, <3>12, <3>13, <3>14
  <2> QED BY <2>1, <2>2, <2>3, <2>4, <2>6, AskedStill
<1>14. EndedOK(t.ended)
  BY <1>7 DEF EndedOK
<1> QED BY <1>4, <1>11, <1>12, <1>13, <1>14 DEF Good

-----------------------------------------------------------------------------
\* Steps that leave everybody where he is.
Steady(s, t) ==
  /\ \A d \in Gamers :
       /\ t.conn[d].cl = s.conn[d].cl /\ t.conn[d].team = s.conn[d].team
       /\ t.conn[d].tried = s.conn[d].tried
       /\ t.anon[d].queue = s.anon[d].queue /\ t.anon[d].info = s.anon[d].info
       /\ t.anon[d].num = s.anon[d].num /\ t.anon[d].tid = s.anon[d].tid
       /\ t.anon[d].tc = s.anon[d].tc
  /\ t.lists = s.lists

\* Where players are steady, games only have to be looked at.
LEMMA SteadySound ==
  ASSUME NEW s, NEW x, Sound(s, x), NEW t, AnonState(t), Steady(s, t),
         NEW y, GamesInv(t.infos, t.anon, t.route, y)
  PROVE  Sound(t, y)
<1>1. /\ AnonState(s) /\ ClientsInv(s.conn, s.anon) /\ TeamsInv(s.conn)
      /\ \A q \in AnonTypes : QueueInv(s.conn, s.anon, q, s.lists[q])
  BY DEF Sound
<1>2. \A d \in Gamers : TeamOf(t.conn, d) = TeamOf(s.conn, d)
  BY DEF Steady, TeamOf
<1>3. ClientsInv(t.conn, t.anon)
  <2> SUFFICES ASSUME NEW d \in Gamers PROVE ClientInv(t.conn, t.anon[d], d)
    BY DEF ClientsInv
  <2>1. ClientInv(s.conn, s.anon[d], d)
    BY <1>1 DEF ClientsInv
  <2> QED BY <1>2, <2>1 DEF ClientInv, Steady
<1>4. TeamsInv(t.conn)
  <2>1. \A d \in Gamers : IsOn(t.conn, d) => IsOn(s.conn, d)
    BY DEF Steady, IsOn
  <2>2. \A d \in Gamers : /\ t.conn[d].team = s.conn[d].team
                          /\ t.conn[d].cl = "found" => s.conn[d].cl = "found"
                          /\ s.conn[d].tried => t.conn[d].tried
    BY DEF Steady
  <2> QED BY <1>1, <2>1, <2>2, TeamsStill
<1>5. \A q \in AnonTypes : QueueInv(t.conn, t.anon, q, t.lists[q])
  <2> TAKE q \in AnonTypes
  <2>1. t.lists[q] = s.lists[q] /\ QueueInv(s.conn, s.anon, q, s.lists[q])
    BY <1>1 DEF Steady
  <2>2. s.lists[q] \in Seq(EntryRec)
    BY <1>1, AnonParts
  <2>3. ASSUME NEW c \in Gamers, Waits(s.conn, s.anon, q, c) PROVE Waits(t.conn, t.anon, q, c)
    <3>1. TeamOf(s.conn, c) \subseteq Gamers
      BY <1>1, TeamsAre
    <3>2. \A d \in Gamers : Waiting(s.conn, s.anon, q, d) => Waiting(t.conn, t.anon, q, d)
      BY DEF Steady, Waiting
    <3>3. t.conn[c].team = s.conn[c].team /\ \A d \in TeamOf(s.conn, c) : t.anon[d].tc = s.anon[d].tc
      BY <3>1 DEF Steady
    <3> QED BY <1>2, <2>3, <3>1, <3>2, <3>3 DEF Waits
  <2>4. \A i \in DOMAIN s.lists[q] : s.lists[q][i].c \in Gamers
    <3> TAKE i \in DOMAIN s.lists[q]
    <3>1. s.lists[q][i] \in EntryRec
      BY <2>2
    <3> QED BY <3>1 DEF EntryRec
  <2> QED BY <2>1, <2>3, <2>4 DEF QueueInv
<1> QED BY <1>3, <1>4, <1>5 DEF Sound

\* Where players are steady, teams have asked for what they asked for.
LEMMA SteadyAsked ==
  ASSUME NEW s, AnonState(s), AskedInv(s.conn, s.anon), NEW t, Steady(s, t)
  PROVE  AskedInv(t.conn, t.anon)
<1> DEFINE C == {}
<1>1. \A d \in Gamers : TeamOf(s.conn, d) \subseteq Gamers
  BY TeamsTyped
<1>2. \A d \in Gamers \ C :
        /\ t.conn[d].team = s.conn[d].team /\ t.conn[d].tried = s.conn[d].tried
        /\ IsOn(t.conn, d) = IsOn(s.conn, d)
        /\ t.anon[d].queue = s.anon[d].queue /\ t.anon[d].tid = s.anon[d].tid
        /\ t.anon[d].tc = s.anon[d].tc \/ ToSet(s.anon[d].tc) \cap C # {}
  BY DEF Steady, IsOn
<1>3. \A c \in Gamers : c \in C \/ TeamOf(t.conn, c) \cap C # {} => ~Open(t.conn, t.anon, c)
  OBVIOUS
<1> HIDE DEF C
<1> QED BY <1>1, <1>2, <1>3, AskedStill

\* Nobody has ended a game while nobody reports.
LEMMA NotYet ==
  ASSUME NEW I, NEW g, NEW anon, NEW route, GameInv(I, g, anon, route, None)
  PROVE  I.times = 0
<1>1. Taken(I) # {}
  <2>1. ASSUME Taken(I) = {} PROVE FALSE
    <3>1. Cardinality(Taken(I)) = 0
      BY <2>1, FS_EmptySet
    <3>2. I.cur = Cardinality(Taken(I)) /\ I.cur > 0
      BY DEF GameInv
    <3> QED BY <3>1, <3>2
  <2> QED BY <2>1
<1>2. \A n \in Taken(I) : I.player[n] # None
  BY DEF Taken
<1> QED BY <1>1, <1>2 DEF GameInv

\* Another state of the same game.
LEMMA GameReplaced ==
  ASSUME NEW s, NEW x, Sound(s, x), NEW g \in AnonGames, s.infos[g] # NoInfo,
         NEW infos, infos \in [AnonGames -> InfoRec], \A h \in AnonGames \ {g} : infos[h] = s.infos[h],
         infos[g].player = s.infos[g].player,
         NEW anon, \A d \in Gamers : anon[d].info = s.anon[d].info /\ anon[d].num = s.anon[d].num,
         NEW route, \A d \in Gamers : s.route[d] => route[d],
         NEW y, y = x \/ x = None, GameInv(infos[g], g, anon, route, y)
  PROVE  GamesInv(infos, anon, route, y)
<1>1. AnonState(s) /\ GamesInv(s.infos, s.anon, s.route, x)
  BY DEF Sound
<1>2. ASSUME NEW h \in AnonGames, h # g, s.infos[h] # NoInfo
      PROVE  GameInv(s.infos[h], h, anon, route, y)
  <2> DEFINE I == s.infos[h]
  <2>1. GameInv(I, h, s.anon, s.route, x)
    BY <1>1, <1>2 DEF GamesInv
  <2>2. I \in InfoRec
    BY <1>1, AnonParts
  <2>3. I.player \in Seq(Gamers \cup {None})
    BY <2>2, InfoFields
  <2> HIDE DEF I
  <2>4. ASSUME NEW n \in Taken(I) PROVE SeatInv(I, h, n, anon, route, y)
    <3>1. SeatInv(I, h, n, s.anon, s.route, x) /\ I.player[n] \in Gamers /\ I.player[n] # None
      BY <2>1, <2>3 DEF GameInv, Taken
    <3> QED BY <3>1 DEF SeatInv
  <2>5. I.times = 0 \/ \A n \in Taken(I) : I.player[n] = y
    <3>1. CASE y = x
      BY <2>1, <3>1 DEF GameInv
    <3>2. CASE x = None
      BY <2>1, <3>2, NotYet
    <3> QED BY <3>1, <3>2
  <2>6. GameInv(I, h, anon, route, y)
    BY <2>1, <2>4, <2>5 DEF GameInv
  <2> QED BY <2>6 DEF I
<1>3. ASSUME NEW d \in Gamers, anon[d].info # 0
      PROVE  /\ anon[d].num \in DOMAIN infos[anon[d].info].player
             /\ infos[anon[d].info].player[anon[d].num] = d
  <2>1. s.anon[d].info \in AnonGames
    <3>1. s.anon[d] \in AnonRec
      BY <1>1, AnonParts
    <3> QED BY <1>3, <3>1, AnonFields
  <2>2. \A h \in AnonGames : infos[h].player = s.infos[h].player
    <3> TAKE h \in AnonGames
    <3>1. CASE h = g
      BY <3>1
    <3>2. CASE h # g
      BY <3>2
    <3> QED BY <3>1, <3>2
  <2>3. anon[d].info = s.anon[d].info /\ anon[d].num = s.anon[d].num
    OBVIOUS
  <2>4. s.anon[d].info # 0
    BY <1>3, <2>3, SMTT(40)
  <2>5. /\ s.anon[d].num \in DOMAIN s.infos[s.anon[d].info].player
        /\ s.infos[s.anon[d].info].player[s.anon[d].num] = d
    BY <1>1, <2>4 DEF GamesInv
  <2> QED BY <2>1, <2>2, <2>3, <2>5
<1> QED BY <1>2, <1>3 DEF GamesInv

\* The numbers of reports.
LEMMA ReportsAre ==
  ASSUME NEW I \in InfoRec, NEW n, NEW r
  PROVE  /\ Reports(I, n, r) \in Nat
         /\ Reports(I, n, r) > 0 => \E i \in DOMAIN I.results : I.results[i] # <<>>
<1> DEFINE D == {i \in DOMAIN I.results : I.results[i] # <<>> /\ I.results[i][n] = r}
<1>1. I.results \in Seq(Report)
  BY InfoFields
<1>2. DOMAIN I.results = 1..Len(I.results) /\ Len(I.results) \in Nat
  BY <1>1
<1>3. IsFiniteSet(DOMAIN I.results)
  BY <1>2, FS_Interval
<1>4. IsFiniteSet(D)
  BY <1>3, FS_Subset
<1>5. Cardinality(D) \in Nat /\ (Cardinality(D) = 0 <=> D = {})
  BY <1>4, FS_CardinalityType, FS_EmptySet
<1>6. Reports(I, n, r) = Cardinality(D)
  BY DEF Reports
<1>7. D # {} => \E i \in DOMAIN I.results : I.results[i] # <<>>
  OBVIOUS
<1> HIDE DEF D
<1> QED BY <1>5, <1>6, <1>7

-----------------------------------------------------------------------------
\* The results of a game are counted when its last player is about to go.
LEMMA CountsIs ==
  ASSUME NEW s, NEW c \in Gamers, NEW x \in {None, c}, Sound(s, x), s.anon[c].info # 0,
         InfoOf(s, c).times = 0, Counts(s, c),
         LET given == anongame_evaluate_results(InfoOf(s, c))
         IN  Cardinality({n \in DOMAIN given : given[n] = "win"}) > 0
  PROVE  LET I == InfoOf(s, c)
             J == [I EXCEPT !.times = @ + 1]
             given == anongame_evaluate_results(I)
         IN  /\ I \in InfoRec /\ J \in InfoRec /\ I # NoInfo /\ s.anon[c].info \in AnonGames
             /\ J.player = I.player
             /\ GameInv(J, s.anon[c].info, s.anon, s.route, c)
             /\ EndedOK([told |-> I.told, given |-> given, times |-> I.times + 1])
<1> DEFINE g == s.anon[c].info
           I == s.infos[g]
           J == [I EXCEPT !.times = @ + 1]
           given == anongame_evaluate_results(I)
           winners == {n \in DOMAIN given : given[n] = "win"}
           e == [told |-> I.told, given |-> given, times |-> I.times + 1]
<1>1. /\ g \in AnonGames /\ I \in InfoRec /\ I # NoInfo /\ GameInv(I, g, s.anon, s.route, x)
      /\ s.anon[c].num \in Taken(I) /\ I.player[s.anon[c].num] = c
  BY SeatOf
<1>2. I = InfoOf(s, c) /\ I.times = 0
  BY DEF InfoOf
<1>3. Cardinality(winners) > 0
  BY <1>2
<1>4. winners # {}
  <2>1. ASSUME winners = {} PROVE FALSE
    <3>1. Cardinality(winners) = 0
      BY <2>1, FS_EmptySet
    <3> QED BY <1>3, <3>1
  <2> QED BY <2>1, SMTT(40)
<1>5. /\ DOMAIN given = DOMAIN I.player
      /\ \A n \in DOMAIN given : given[n] = "win" <=> Reports(I, n, "win") > Reports(I, n, "loss")
  BY DEF anongame_evaluate_results
<1> HIDE DEF given
<1>6. PICK n \in DOMAIN given : given[n] = "win"
  BY <1>4
<1> HIDE DEF winners, I
<1>7. I.told = I.results /\ DOMAIN I.told = DOMAIN I.player /\ I.ready
  <2>1. Reports(I, n, "win") > Reports(I, n, "loss")
    BY <1>5, <1>6
  <2>2. Reports(I, n, "win") \in Nat /\ Reports(I, n, "loss") \in Nat
    BY <1>1, ReportsAre
  <2>3. Reports(I, n, "win") > 0
    BY <2>1, <2>2
  <2>4. \E i \in DOMAIN I.results : I.results[i] # <<>>
    BY <1>1, <2>3, ReportsAre
  <2>5. I.told = I.results /\ DOMAIN I.told = DOMAIN I.player
    BY <1>1 DEF GameInv
  <2>6. (\E k \in DOMAIN I.told : I.told[k] # <<>>) => I.ready
    BY <1>1 DEF GameInv
  <2> QED BY <2>4, <2>5, <2>6
<1>8. \A k \in Taken(I) : I.player[k] = c
  <2> TAKE k \in Taken(I)
  <2>1. s.route[I.player[k]]
    BY <1>1, <1>7 DEF GameInv, SeatInv
  <2>2. I.player[k] \in ToSet(I.player) /\ I.player[k] # None
    BY DEF Taken, ToSet
  <2>3. ~OthersPlay(s, c)
    BY DEF Counts
  <2> QED BY <1>2, <2>1, <2>2, <2>3 DEF OthersPlay
<1>9. /\ J \in InfoRec /\ J.player = I.player /\ J.told = I.told /\ J.results = I.results
      /\ J.account = I.account /\ J.cur = I.cur /\ J.ready = I.ready /\ J.made = I.made
  <2>1. I.times + 1 \in Nat
    BY <1>2
  <2> QED BY <1>1, <2>1 DEF InfoRec
<1> HIDE DEF J
<1>10. Taken(J) = Taken(I)
  BY <1>9 DEF Taken
<1>11. GameInv(J, g, s.anon, s.route, c)
  <2>1. \A k \in Taken(J) : SeatInv(J, g, k, s.anon, s.route, c)
    <3> TAKE k \in Taken(J)
    <3>1. SeatInv(I, g, k, s.anon, s.route, x)
      BY <1>1, <1>10 DEF GameInv
    <3>2. I.player[k] = c
      BY <1>8, <1>10
    <3> QED BY <1>9, <3>1, <3>2 DEF SeatInv
  <2>2. \A k \in Taken(J) : J.player[k] = c
    BY <1>8, <1>9, <1>10
  <2>3. /\ DOMAIN I.told = DOMAIN I.player /\ DOMAIN I.account = DOMAIN I.player /\ I.told = I.results
        /\ I.cur = Cardinality(Taken(I)) /\ I.cur > 0 /\ SuitsAll(I.made)
    BY <1>1 DEF GameInv
  <2>4. J.cur = Cardinality(Taken(J)) /\ J.cur > 0
    BY <1>9, <1>10, <2>3
  <2> QED BY <1>7, <1>9, <2>1, <2>2, <2>3, <2>4 DEF GameInv
<1>12. EndedOK(e)
  <2>1. e.told = I.told /\ e.given = given /\ e.times = 1
    BY <1>2
  <2> HIDE DEF e
  <2> DEFINE Said(k, r) == Cardinality({i \in DOMAIN e.told : e.told[i] # <<>> /\ e.told[i][k] = r})
  <2>2. \A k, r : Said(k, r) = Reports(I, k, r)
    BY <1>7, <2>1 DEF Reports
  <2> HIDE DEF Said
  <2>3. \A k \in DOMAIN e.given : e.given[k] = "win" <=> Said(k, "win") > Said(k, "loss")
    BY <1>5, <2>1, <2>2
  <2>4. \E k \in DOMAIN e.given : e.given[k] = "win"
    BY <1>6, <2>1
  <2> QED BY <2>1, <2>3, <2>4 DEF EndedOK, Said
<1> QED BY <1>1, <1>2, <1>9, <1>11, <1>12 DEF J, e, given, g

\* anongame_stats.
LEMMA StatsIs ==
  ASSUME NEW s, NEW c \in Gamers, NEW x \in {None, c}, Sound(s, x), s.anon[c].info # 0,
         InfoOf(s, c).times = 0, EndedOK(s.ended), NEW moves
  PROVE  LET t == anongame_stats(s, c, moves)
         IN  /\ \E y \in {None, c} : Sound(t, y)
             /\ Steady(s, t) /\ t.anon = s.anon /\ t.route = s.route /\ EndedOK(t.ended)
<1> DEFINE I == InfoOf(s, c)
           given == anongame_evaluate_results(I)
           wins == Cardinality({n \in DOMAIN given : given[n] = "win"})
           Level(d) == IF given[CHOOSE n \in DOMAIN given : I.account[n] = d] = "win"
                       THEN Lesser(s.conn[d].level + 1, TopLevel) ELSE Greater(s.conn[d].level - 1, 0)
           counted == Counts(s, c) /\ wins > 0 /\ 2 * wins <= Len(given)
           g == s.anon[c].info
           J == [I EXCEPT !.times = @ + 1]
           e == [told |-> I.told, given |-> given, times |-> I.times + 1]
           conn == [d \in Gamers |-> IF d \in moves \cap ToSet(I.account) /\ s.conn[d].cl # "off"
                                     THEN [s.conn[d] EXCEPT !.level = Level(d)] ELSE s.conn[d]]
           r == [s EXCEPT !.ended = e, !.infos[g].times = @ + 1, !.conn = conn]
           t == anongame_stats(s, c, moves)
<1>1. t = IF counted THEN r ELSE s
  BY DEF anongame_stats
<1>2. CASE ~counted
  BY <1>1, <1>2 DEF Steady
<1>3. CASE counted
  <2>1. /\ I \in InfoRec /\ J \in InfoRec /\ I # NoInfo /\ g \in AnonGames
        /\ J.player = I.player /\ GameInv(J, g, s.anon, s.route, c) /\ EndedOK(e)
    <3>1. Counts(s, c) /\ wins > 0
      BY <1>3
    <3> QED BY <3>1, CountsIs
  <2>2. AnonState(s) /\ s.conn \in [Gamers -> ConnRec] /\ s.infos \in [AnonGames -> InfoRec]
    BY AnonParts DEF Sound
  <2>3. /\ conn \in [Gamers -> ConnRec]
        /\ \A d \in Gamers : /\ conn[d].cl = s.conn[d].cl /\ conn[d].team = s.conn[d].team
                             /\ conn[d].tried = s.conn[d].tried
    <3>1. ASSUME NEW d \in Gamers PROVE Level(d) \in 0..TopLevel
      <4>1. s.conn[d].level \in 0..TopLevel /\ TopLevel \in Nat
        BY <2>2, ConnFields, AnonGameAssumption
      <4>2. Lesser(s.conn[d].level + 1, TopLevel) \in 0..TopLevel
        BY <4>1 DEF Lesser
      <4>3. Greater(s.conn[d].level - 1, 0) \in 0..TopLevel
        BY <4>1 DEF Greater
      <4> HIDE DEF given, I
      <4> QED BY <4>2, <4>3
    <3> HIDE DEF Level, I
    <3>2. ASSUME NEW d \in Gamers
          PROVE  /\ conn[d] \in ConnRec /\ conn[d].cl = s.conn[d].cl /\ conn[d].team = s.conn[d].team
                 /\ conn[d].tried = s.conn[d].tried
      <4>1. s.conn[d] \in ConnRec
        BY <2>2
      <4> QED BY <3>1, <4>1 DEF ConnRec
    <3> HIDE DEF conn
    <3>3. conn = [d \in Gamers |-> conn[d]]
      BY DEF conn
    <3> QED BY <3>2, <3>3
  <2> HIDE DEF conn, e, given, counted, wins
  <2>4. I = s.infos[g]
    BY DEF InfoOf
  <2>5. /\ r \in [conn : {conn}, anon : {s.anon}, route : {s.route}, lists : {s.lists},
                  infos : {[s.infos EXCEPT ![g] = J]}, ended : {e}]
    BY <2>2, <2>4 DEF AnonState
  <2>6. t = r
    BY <1>1, <1>3
  <2> HIDE DEF r, J, g, I, t
  <2>7. [s.infos EXCEPT ![g] = J] \in [AnonGames -> InfoRec]
    BY <2>1, <2>2
  <2>8. /\ AnonState(r) /\ r.conn = conn /\ r.anon = s.anon /\ r.route = s.route
        /\ r.lists = s.lists /\ r.infos = [s.infos EXCEPT ![g] = J] /\ r.ended = e
    BY <2>2, <2>3, <2>5, <2>7 DEF AnonState
  <2>9. Steady(s, r)
    BY <2>3, <2>8 DEF Steady
  <2>10. r.infos[g] = J /\ \A h \in AnonGames \ {g} : r.infos[h] = s.infos[h]
    BY <2>1, <2>2, <2>8
  <2>11. GamesInv(r.infos, r.anon, r.route, c)
    <3>1. r.infos \in [AnonGames -> InfoRec] /\ r.infos[g].player = s.infos[g].player
          /\ s.infos[g] # NoInfo /\ GameInv(r.infos[g], g, r.anon, r.route, c)
      BY <2>1, <2>4, <2>7, <2>8, <2>10
    <3>2. /\ \A d \in Gamers : r.anon[d].info = s.anon[d].info /\ r.anon[d].num = s.anon[d].num
          /\ \A d \in Gamers : s.route[d] => r.route[d]
      BY <2>8
    <3>3. c = x \/ x = None
      OBVIOUS
    <3> QED BY <2>1, <2>10, <3>1, <3>2, <3>3, GameReplaced
  <2>12. Sound(r, c)
    BY <2>8, <2>9, <2>11, SteadySound
  <2> QED BY <2>1, <2>6, <2>8, <2>9, <2>12 DEF t
<1> QED BY <1>2, <1>3

-----------------------------------------------------------------------------
\* The end of a w3route connection.
LEMMA RouteEndsGood ==
  ASSUME NEW s, NEW c \in Gamers, NEW x \in {None, c}, Sound(s, x), s.anon[c].info # 0,
         InfoOf(s, c).times = 0, EndedOK(s.ended), RoutesInv(s.anon, s.route),
         AskedInv(s.conn, s.anon), NEW moves
  PROVE  Good(RouteEnds(s, c, moves))
<1> DEFINE u == anongame_stats(s, c, moves)
           v == conn_destroy_anongame(u, c)
           t == [v EXCEPT !.route[c] = FALSE, !.conn[c].cl = "idle"]
<1>1. /\ \E y \in {None, c} : Sound(u, y)
      /\ Steady(s, u) /\ u.anon = s.anon /\ u.route = s.route /\ EndedOK(u.ended)
  BY StatsIs
<1> HIDE DEF u
<1>2. Sound(v, None) /\ Unfound(u, v, c)
  BY <1>1, DestroyIs
<1> HIDE DEF v
<1>3. RouteEnds(s, c, moves) = t
  BY DEF RouteEnds, t, u, v
<1>4. AnonState(s) /\ AnonState(v) /\ ClientsInv(s.conn, s.anon)
  BY <1>2 DEF Sound
<1>5. /\ v.conn \in [Gamers -> ConnRec] /\ v.conn[c] \in ConnRec /\ v.route \in [Gamers -> BOOLEAN]
  BY <1>4, AnonParts
<1>6. [v.conn EXCEPT ![c].cl = "idle"] \in [Gamers -> ConnRec]
  BY <1>5 DEF ConnRec
<1>7. /\ AnonState(t) /\ t.anon = v.anon /\ t.lists = v.lists /\ t.infos = v.infos /\ t.ended = v.ended
      /\ t.conn[c].cl = "idle" /\ t.conn[c].team = v.conn[c].team /\ t.conn[c].tried = v.conn[c].tried
      /\ ~t.route[c]
      /\ \A d \in Gamers \ {c} : t.conn[d] = v.conn[d] /\ t.route[d] = v.route[d]
  BY <1>4, <1>5, <1>6, ZenonT(60) DEF AnonState, ConnRec
<1> HIDE DEF t
<1>8. s.conn[c].cl = "found" /\ s.conn[c].tried
  BY <1>4 DEF ClientsInv, ClientInv
<1>9. /\ \A d \in Gamers : /\ v.conn[d].cl = s.conn[d].cl /\ v.conn[d].team = s.conn[d].team
                           /\ v.conn[d].tried = s.conn[d].tried
      /\ v.route = s.route /\ v.ended = u.ended
      /\ \A d \in Gamers \ {c} : v.anon[d] = s.anon[d]
      /\ Gone(v, c)
  BY <1>1, <1>2 DEF Steady, Unfound, Gone
<1>10. TeamsInv(t.conn)
  <2>1. TeamsInv(v.conn)
    BY <1>2 DEF Sound
  <2>2. \A d \in Gamers : t.conn[d].team = v.conn[d].team /\ t.conn[d].tried = v.conn[d].tried
    BY <1>7
  <2>3. \A d \in Gamers : /\ IsOn(t.conn, d) => IsOn(v.conn, d)
                          /\ t.conn[d].cl = "found" => v.conn[d].cl = "found"
    BY <1>7, <1>8, <1>9 DEF IsOn
  <2> QED BY <2>1, <2>2, <2>3, TeamsStill
<1>11. Sound(t, None)
  <2>1. Fades(v, t, c)
    BY <1>7, <1>8, <1>9 DEF Fades, Gone
  <2>2. v.anon[c].queue = None
    BY <1>9 DEF Gone
  <2> QED BY <1>2, <1>7, <1>10, <2>1, <2>2, FadesSound
<1>12. RoutesInv(t.anon, t.route)
  <2> SUFFICES ASSUME NEW d \in Gamers, t.route[d] PROVE t.anon[d].info # 0
    BY DEF RoutesInv
  <2>1. d # c
    BY <1>7
  <2> QED BY <1>7, <1>9, <2>1 DEF RoutesInv
<1>13. AskedInv(t.conn, t.anon)
  <2> DEFINE C == {c}
  <2>1. \A d \in Gamers : TeamOf(s.conn, d) \subseteq Gamers
    BY <1>4, TeamsTyped
  <2>2. \A d \in Gamers : t.conn[d].team = s.conn[d].team /\ t.conn[d].tried = s.conn[d].tried
                          /\ IsOn(t.conn, d) = IsOn(s.conn, d)
    BY <1>7, <1>8, <1>9 DEF IsOn
  <2>3. \A d \in Gamers \ C : t.anon[d] = s.anon[d]
    BY <1>7, <1>9
  <2>4. \A h \in Gamers : h \in C \/ TeamOf(t.conn, h) \cap C # {} => ~Open(t.conn, t.anon, h)
    <3> SUFFICES ASSUME NEW h \in Gamers, h = c \/ c \in TeamOf(t.conn, h), Open(t.conn, t.anon, h)
                 PROVE  FALSE
      OBVIOUS
    <3>1. t.anon[c].tid = 0 /\ t.conn[c].tried
      BY <1>7, <1>8, <1>9 DEF Gone
    <3> QED BY <3>1 DEF Open
  <2> HIDE DEF C
  <2>5. \A d \in Gamers \ C :
           /\ t.conn[d].team = s.conn[d].team /\ t.conn[d].tried = s.conn[d].tried
           /\ IsOn(t.conn, d) = IsOn(s.conn, d)
           /\ t.anon[d].queue = s.anon[d].queue /\ t.anon[d].tid = s.anon[d].tid
           /\ t.anon[d].tc = s.anon[d].tc \/ ToSet(s.anon[d].tc) \cap C # {}
    BY <2>2, <2>3
  <2> QED BY <2>1, <2>4, <2>5, AskedStill
<1> QED BY <1>1, <1>3, <1>7, <1>9, <1>11, <1>12, <1>13 DEF Good

\* The second connection of a player fails.
LEMMA CloseGood ==
  ASSUME AnonInv, NEW c \in Gamers, NEW moves, w3route_close(c, moves)
  PROVE  Good(ag')
<1>1. /\ Sound(Now, None) /\ Now.conn = ag.conn /\ Now.anon = ag.anon /\ Now.route = ag.route
      /\ Now.infos = ag.infos /\ Now.ended = NotEnded
  BY NowIs
<1>2. ag' = RouteEnds(Now, c, moves) /\ ag.route[c]
  BY DEF w3route_close
<1>3. RoutesInv(Now.anon, Now.route) /\ AskedInv(Now.conn, Now.anon) /\ Now.anon[c].info # 0
  BY <1>1, <1>2 DEF AnonInv, RoutesInv
<1>4. InfoOf(Now, c).times = 0
  BY <1>1, <1>3, SeatOf, NotYet DEF InfoOf
<1>5. EndedOK(Now.ended)
  BY <1>1 DEF EndedOK
<1> QED BY <1>1, <1>2, <1>3, <1>4, <1>5, RouteEndsGood

\* CLIENT_W3ROUTE_GAMERESULT.
LEMMA ResultGood ==
  ASSUME AnonInv, NEW c \in Gamers, NEW moves, NEW report \in Report,
         w3route_gameresult(c, report, moves)
  PROVE  Good(ag')
<1> DEFINE a == ag.anon[c]
           g == a.info
           n == a.num
           I == ag.infos[g]
           J == [I EXCEPT !.results[n] = report, !.told[n] = report]
           s == [Now EXCEPT !.infos[g].results[n] = report, !.infos[g].told[n] = report]
<1>1. /\ Sound(Now, None) /\ Now.conn = ag.conn /\ Now.anon = ag.anon /\ Now.route = ag.route
      /\ Now.lists = ag.lists /\ Now.infos = ag.infos /\ Now.ended = NotEnded
  BY NowIs
<1>2. ag' = RouteEnds(s, c, moves) /\ ag.route[c] /\ I.ready
  BY DEF w3route_gameresult, InfoOf
<1> HIDE DEF s, J
<1>3. g # 0
  BY <1>2, SMTT(40) DEF AnonInv, RoutesInv
<1>4. /\ g \in AnonGames /\ I \in InfoRec /\ I # NoInfo /\ GameInv(I, g, ag.anon, ag.route, None)
      /\ n \in DOMAIN I.player /\ I.player[n] = c
  BY <1>1, <1>3, SeatOf, SMTT(40)
<1>5. /\ I.times = 0 /\ DOMAIN I.told = DOMAIN I.player /\ DOMAIN I.account = DOMAIN I.player
      /\ I.told = I.results
      /\ I.cur = Cardinality(Taken(I)) /\ I.cur > 0 /\ SuitsAll(I.made)
  BY <1>4, NotYet, ZenonT(60) DEF GameInv
<1> DEFINE told == [I.told EXCEPT ![n] = report]
<1>6. told \in Seq(Report) /\ DOMAIN told = DOMAIN I.told /\ \A k \in DOMAIN I.told : k # n => told[k] = I.told[k]
  <2>1. I.told \in Seq(Report)
    BY <1>4, InfoFields
  <2> HIDE DEF I, n, told
  <2>2. DOMAIN I.told = 1..Len(I.told) /\ n \in DOMAIN I.told
    BY <1>4, <1>5, <2>1
  <2> USE DEF told
  <2>3. told \in Seq(Report)
    BY <2>1, <2>2
  <2> QED BY <2>2, <2>3
<1> HIDE DEF told, I
<1>7. /\ J \in InfoRec /\ J.player = I.player /\ J.told = told /\ J.results = told
      /\ J.account = I.account /\ J.cur = I.cur /\ J.ready = I.ready /\ J.made = I.made
      /\ J.times = I.times
  <2>1. [I.results EXCEPT ![n] = report] = told
    BY <1>5 DEF told
  <2> QED BY <1>4, <1>6, <2>1 DEF InfoRec, told, J
<1>8. s.infos = [Now.infos EXCEPT ![g] = J]
  <2>1. AnonState(Now) /\ Now.infos \in [AnonGames -> InfoRec]
    BY <1>1, AnonParts DEF Sound
  <2>2. Now.infos[g] = I
    BY <1>1 DEF I
  <2> QED BY <1>4, <2>1, <2>2 DEF AnonState, InfoRec, s, J
<1>9. /\ AnonState(s) /\ s.conn = Now.conn /\ s.anon = Now.anon /\ s.route = Now.route
      /\ s.lists = Now.lists /\ s.ended = Now.ended
  <2>1. AnonState(Now) /\ Now.infos \in [AnonGames -> InfoRec]
    BY <1>1, AnonParts DEF Sound
  <2>2. [Now.infos EXCEPT ![g] = J] \in [AnonGames -> InfoRec]
    BY <1>7, <2>1
  <2> QED BY <1>8, <2>1, <2>2, ZenonT(60) DEF AnonState, s
<1> HIDE DEF g, n, a
<1>10. s.infos \in [AnonGames -> InfoRec] /\ s.infos[g] = J /\ \A h \in AnonGames \ {g} : s.infos[h] = Now.infos[h]
  BY <1>4, <1>7, <1>8, <1>9, AnonParts
<1>a. /\ ag.infos[g] = I /\ s.anon[c].info = g
  BY <1>1, <1>9 DEF I, g, a
<1>11. GameInv(J, g, s.anon, s.route, c)
  <2>1. Taken(J) = Taken(I)
    BY <1>7 DEF Taken
  <2>2. \A k \in Taken(J) : SeatInv(J, g, k, s.anon, s.route, c)
    <3> TAKE k \in Taken(J)
    <3>1. SeatInv(I, g, k, ag.anon, ag.route, None)
      BY <1>4, <2>1 DEF GameInv
    <3>2. I.player[k] # c => k # n
      BY <1>4
    <3>3. k \in DOMAIN I.told /\ I.player[k] # None
      BY <1>5, <2>1 DEF Taken
    <3> QED BY <1>1, <1>6, <1>7, <1>9, <3>1, <3>2, <3>3 DEF SeatInv
  <2> QED BY <1>2, <1>5, <1>6, <1>7, <2>1, <2>2 DEF GameInv
<1>12. Steady(Now, s)
  BY <1>9 DEF Steady
<1>13. GamesInv(s.infos, s.anon, s.route, c)
  <2>1. Now.infos[g] # NoInfo /\ s.infos[g].player = Now.infos[g].player /\ GameInv(s.infos[g], g, s.anon, s.route, c)
    BY <1>1, <1>4, <1>7, <1>10, <1>11, <1>a
  <2>2. /\ \A d \in Gamers : s.anon[d].info = Now.anon[d].info /\ s.anon[d].num = Now.anon[d].num
        /\ \A d \in Gamers : Now.route[d] => s.route[d]
    BY <1>9
  <2>3. c = None \/ None = None
    OBVIOUS
  <2> QED BY <1>1, <1>4, <1>10, <2>1, <2>2, <2>3, GameReplaced
<1>14. Sound(s, c)
  BY <1>1, <1>9, <1>12, <1>13, SteadySound
<1>15. RoutesInv(s.anon, s.route) /\ AskedInv(s.conn, s.anon) /\ s.anon[c].info # 0 /\ EndedOK(s.ended)
  BY <1>1, <1>3, <1>9, <1>a DEF AnonInv, EndedOK
<1>16. InfoOf(s, c).times = 0
  BY <1>5, <1>7, <1>10, <1>a DEF InfoOf
<1> QED BY <1>2, <1>14, <1>15, <1>16, RouteEndsGood

-----------------------------------------------------------------------------
\* Nobody's part in his team changes.
LEMMA AskedSame ==
  ASSUME NEW s, AnonState(s), AskedInv(s.conn, s.anon), NEW t,
         \A d \in Gamers :
           /\ t.conn[d].team = s.conn[d].team /\ t.conn[d].tried = s.conn[d].tried
           /\ IsOn(t.conn, d) = IsOn(s.conn, d)
           /\ t.anon[d].queue = s.anon[d].queue /\ t.anon[d].tid = s.anon[d].tid
           /\ t.anon[d].tc = s.anon[d].tc
  PROVE  AskedInv(t.conn, t.anon)
<1> DEFINE C == {}
<1>1. \A d \in Gamers : TeamOf(s.conn, d) \subseteq Gamers
  BY TeamsTyped
<1>2. \A d \in Gamers \ C :
        /\ t.conn[d].team = s.conn[d].team /\ t.conn[d].tried = s.conn[d].tried
        /\ IsOn(t.conn, d) = IsOn(s.conn, d)
        /\ t.anon[d].queue = s.anon[d].queue /\ t.anon[d].tid = s.anon[d].tid
        /\ t.anon[d].tc = s.anon[d].tc \/ ToSet(s.anon[d].tc) \cap C # {}
  OBVIOUS
<1>3. \A c \in Gamers : c \in C \/ TeamOf(t.conn, c) \cap C # {} => ~Open(t.conn, t.anon, c)
  OBVIOUS
<1> HIDE DEF C
<1> QED BY <1>1, <1>2, <1>3, AskedStill

\* The game of a player, its seats and routes.
LEMMA GameOf ==
  ASSUME AnonInv, NEW c \in Gamers, ag.anon[c].info # 0
  PROVE  LET g == ag.anon[c].info
             n == ag.anon[c].num
             I == ag.infos[g]
         IN  /\ g \in AnonGames /\ I \in InfoRec /\ I # NoInfo /\ GameInv(I, g, ag.anon, ag.route, None)
             /\ n \in DOMAIN I.player /\ I.player[n] = c /\ n \in Taken(I) /\ I.told[n] = <<>>
             /\ \A k \in Taken(I) : /\ I.player[k] \in Gamers /\ I.player[k] \in Present(ag, c)
                                    /\ I.ready => ag.route[I.player[k]]
<1> DEFINE g == ag.anon[c].info
           n == ag.anon[c].num
           I == ag.infos[g]
<1>1. Sound(ag, None)
  BY DEF AnonInv
<1>2. /\ g \in AnonGames /\ I \in InfoRec /\ I # NoInfo /\ GameInv(I, g, ag.anon, ag.route, None)
      /\ n \in DOMAIN I.player /\ I.player[n] = c /\ n \in Taken(I)
  BY <1>1, SeatOf, SMTT(40)
<1>3. I.player \in Seq(Gamers \cup {None}) /\ I = InfoOf(ag, c)
  BY <1>2, InfoFields DEF InfoOf
<1> HIDE DEF I
<1>4. I.told[n] = <<>>
  <2>1. SeatInv(I, g, n, ag.anon, ag.route, None)
    BY <1>2 DEF GameInv
  <2>2. I.player[n] # None
    BY <1>2 DEF Taken
  <2> QED BY <2>1, <2>2 DEF SeatInv
<1>5. ASSUME NEW k \in Taken(I)
      PROVE  /\ I.player[k] \in Gamers /\ I.player[k] \in Present(ag, c)
             /\ I.ready => ag.route[I.player[k]]
  <2>1. SeatInv(I, g, k, ag.anon, ag.route, None)
    BY <1>2 DEF GameInv
  <2>2. k \in DOMAIN I.player /\ I.player[k] # None
    BY DEF Taken
  <2>3. I.player[k] \in Gamers
    BY <1>3, <2>2
  <2> QED BY <1>3, <2>1, <2>2, <2>3 DEF SeatInv, Present, ToSet
<1> QED BY <1>2, <1>4, <1>5, ZenonT(60) DEF I

\* A step of a player in a game that changes the game, what he has in it and his route.
LEMMA GameStep ==
  ASSUME AnonInv, NEW c \in Gamers, ag.anon[c].info # 0,
         NEW t, AnonState(t), Steady(Now, t), t.ended = NotEnded,
         \A h \in AnonGames \ {ag.anon[c].info} : t.infos[h] = ag.infos[h],
         t.infos[ag.anon[c].info].player = InfoOf(ag, c).player,
         GameInv(t.infos[ag.anon[c].info], ag.anon[c].info, t.anon, t.route, None),
         \A d \in Gamers : ag.route[d] => t.route[d],
         \A d \in Gamers : t.route[d] => ag.route[d] \/ d = c
  PROVE  Good(t)
<1> DEFINE g == ag.anon[c].info
<1>1. /\ Sound(Now, None) /\ Now.conn = ag.conn /\ Now.anon = ag.anon /\ Now.route = ag.route
      /\ Now.lists = ag.lists /\ Now.infos = ag.infos
  BY NowIs
<1>2. g \in AnonGames /\ Now.infos[g] # NoInfo
  <2>1. g \in AnonGames /\ ag.infos[g] # NoInfo
    BY GameOf, ZenonT(60)
  <2> QED BY <1>1, <2>1
<1>3. GamesInv(t.infos, t.anon, t.route, None)
  <2>1. t.infos \in [AnonGames -> InfoRec]
    BY AnonParts
  <2>2. /\ \A h \in AnonGames \ {g} : t.infos[h] = Now.infos[h]
        /\ t.infos[g].player = Now.infos[g].player
    BY <1>1 DEF InfoOf
  <2>3. \A d \in Gamers : t.anon[d].info = Now.anon[d].info /\ t.anon[d].num = Now.anon[d].num
    BY DEF Steady
  <2>4. \A d \in Gamers : Now.route[d] => t.route[d]
    BY <1>1
  <2>5. GameInv(t.infos[g], g, t.anon, t.route, None)
    OBVIOUS
  <2> QED BY <1>1, <1>2, <2>1, <2>2, <2>3, <2>4, <2>5, GameReplaced
<1>4. Sound(t, None)
  BY <1>1, <1>3, SteadySound
<1>5. RoutesInv(t.anon, t.route)
  <2> SUFFICES ASSUME NEW d \in Gamers, t.route[d] PROVE t.anon[d].info # 0
    BY DEF RoutesInv
  <2>1. t.anon[d].info = ag.anon[d].info
    BY <1>1 DEF Steady
  <2> QED BY <2>1 DEF AnonInv, RoutesInv
<1>6. AskedInv(t.conn, t.anon)
  <2>1. AskedInv(Now.conn, Now.anon) /\ AnonState(Now)
    BY <1>1 DEF AnonInv, Sound
  <2> QED BY <2>1, SteadyAsked
<1> QED BY <1>4, <1>5, <1>6 DEF Good, EndedOK

\* What a game may change without harm.
LEMMA GameGoesOn ==
  ASSUME NEW I, NEW g, NEW anon, NEW route, GameInv(I, g, anon, route, None),
         NEW J, J.player = I.player, J.account = I.account, J.told = I.told, J.results = I.results,
         J.cur = I.cur, J.made = I.made, J.times = I.times, I.ready => J.ready,
         NEW anon2, NEW route2,
         \A n \in Taken(I) : /\ anon2[I.player[n]].info = anon[I.player[n]].info
                             /\ anon2[I.player[n]].num = anon[I.player[n]].num
                             /\ J.ready => route2[I.player[n]]
  PROVE  GameInv(J, g, anon2, route2, None)
<1>1. Taken(J) = Taken(I)
  BY DEF Taken
<1>2. \A n \in Taken(J) : SeatInv(J, g, n, anon2, route2, None)
  <2> TAKE n \in Taken(J)
  <2>1. SeatInv(I, g, n, anon, route, None)
    BY <1>1 DEF GameInv
  <2> QED BY <1>1, <2>1 DEF SeatInv
<1>3. J.times = 0
  BY NotYet, SMTT(40)
<1> QED BY <1>1, <1>2, <1>3 DEF GameInv

\* handle_anongame_join.
LEMMA JoinGood ==
  ASSUME AnonInv, NEW c \in Gamers, anongame_join(c)
  PROVE  Good(ag')
<1> DEFINE g == ag.anon[c].info
           I == ag.infos[g]
           s == [Now EXCEPT !.anon[c].joined = TRUE]
           r == [s EXCEPT !.infos[g].start = TRUE]
<1>1. /\ Sound(Now, None) /\ Now.conn = ag.conn /\ Now.anon = ag.anon /\ Now.route = ag.route
      /\ Now.lists = ag.lists /\ Now.infos = ag.infos /\ Now.ended = NotEnded /\ AnonState(Now)
  BY NowIs DEF Sound
<1>2. g # 0 /\ (ag' = r \/ ag' = s)
  <2>1. ag.route[c]
    BY DEF anongame_join
  <2> QED BY <2>1, ZenonT(60) DEF anongame_join, AnonInv, RoutesInv
<1>3. /\ g \in AnonGames /\ I \in InfoRec /\ GameInv(I, g, ag.anon, ag.route, None)
      /\ \A k \in Taken(I) : I.player[k] \in Gamers /\ (I.ready => ag.route[I.player[k]])
  BY <1>2, GameOf, ZenonT(60)
<1>4. /\ Now.anon \in [Gamers -> AnonRec] /\ Now.infos \in [AnonGames -> InfoRec]
      /\ Now.anon[c] \in AnonRec
  BY <1>1, AnonParts
<1>5. /\ AnonState(s) /\ s.conn = ag.conn /\ s.route = ag.route /\ s.lists = ag.lists
      /\ s.infos = ag.infos /\ s.ended = NotEnded
      /\ \A d \in Gamers : /\ s.anon[d].queue = ag.anon[d].queue /\ s.anon[d].info = ag.anon[d].info
                           /\ s.anon[d].num = ag.anon[d].num /\ s.anon[d].tid = ag.anon[d].tid
                           /\ s.anon[d].tc = ag.anon[d].tc
  <2>1. [Now.anon EXCEPT ![c].joined = TRUE] \in [Gamers -> AnonRec]
    BY <1>4 DEF AnonRec
  <2> QED BY <1>1, <1>4, <2>1 DEF AnonState, AnonRec
<1> HIDE DEF s
<1> DEFINE J == [I EXCEPT !.start = TRUE]
<1>6. /\ J \in InfoRec /\ J.player = I.player /\ J.account = I.account /\ J.told = I.told
      /\ J.results = I.results /\ J.cur = I.cur /\ J.made = I.made /\ J.times = I.times
      /\ J.ready = I.ready
  BY <1>3, ZenonT(60) DEF InfoRec
<1>7. /\ AnonState(r) /\ r.conn = s.conn /\ r.route = s.route /\ r.lists = s.lists /\ r.anon = s.anon
      /\ r.infos = [s.infos EXCEPT ![g] = J] /\ r.ended = s.ended
  <2>1. [s.infos EXCEPT ![g] = J] \in [AnonGames -> InfoRec]
    BY <1>1, <1>4, <1>5, <1>6
  <2>2. s.infos[g] = I
    BY <1>5
  <2> HIDE DEF I
  <2> QED BY <1>3, <1>5, <2>1, <2>2 DEF AnonState
<1> HIDE DEF J, r
<1>8. r.infos[g] = J /\ \A h \in AnonGames \ {g} : r.infos[h] = ag.infos[h]
  <2>1. s.infos \in [AnonGames -> InfoRec] /\ g \in AnonGames
    BY <1>1, <1>3, <1>4, <1>5, ZenonT(60)
  <2> HIDE DEF g
  <2>2. r.infos[g] = J /\ \A h \in AnonGames \ {g} : r.infos[h] = s.infos[h]
    BY <1>7, <2>1
  <2> QED BY <1>5, <2>2
<1> DEFINE t == ag'
<1>9. /\ AnonState(t) /\ t.conn = ag.conn /\ t.route = ag.route /\ t.lists = ag.lists /\ t.anon = s.anon
      /\ t.ended = NotEnded /\ (t.infos[g] = I \/ t.infos[g] = J)
      /\ \A h \in AnonGames \ {g} : t.infos[h] = ag.infos[h]
  BY <1>2, <1>5, <1>7, <1>8, ZenonT(60)
<1> HIDE DEF t
<1>10. Steady(Now, t)
  BY <1>1, <1>5, <1>9 DEF Steady
<1>11. GameInv(t.infos[g], g, t.anon, t.route, None)
  <2>1. \A n \in Taken(I) : /\ s.anon[I.player[n]].info = ag.anon[I.player[n]].info
                            /\ s.anon[I.player[n]].num = ag.anon[I.player[n]].num
                            /\ I.ready => ag.route[I.player[n]]
    BY <1>3, <1>5, ZenonT(60)
  <2> HIDE DEF I, g
  <2>2. GameInv(J, g, s.anon, ag.route, None)
    <3>1. \A n \in Taken(I) : /\ s.anon[I.player[n]].info = ag.anon[I.player[n]].info
                              /\ s.anon[I.player[n]].num = ag.anon[I.player[n]].num
                              /\ J.ready => ag.route[I.player[n]]
      BY <1>6, <2>1
    <3>2. I.ready => J.ready
      BY <1>6
    <3>3. GameInv(I, g, ag.anon, ag.route, None)
      BY <1>3
    <3> QED BY <1>6, <3>1, <3>2, <3>3, GameGoesOn
  <2>3. GameInv(I, g, s.anon, ag.route, None)
    <3>1. GameInv(I, g, ag.anon, ag.route, None)
      BY <1>3
    <3> QED BY <2>1, <3>1, GameGoesOn
  <2> QED BY <1>9, <2>2, <2>3
<1>12. t.infos[g].player = InfoOf(ag, c).player
  BY <1>6, <1>9 DEF InfoOf
<1> QED BY <1>2, <1>9, <1>10, <1>11, <1>12, GameStep DEF t

\* CLIENT_W3ROUTE_LOADINGDONE.
LEMMA LoadedGood ==
  ASSUME AnonInv, NEW c \in Gamers, w3route_loadingdone(c)
  PROVE  Good(ag')
<1> DEFINE g == ag.anon[c].info
           I == ag.infos[g]
           s == [Now EXCEPT !.anon[c].loaded = TRUE]
           r == [s EXCEPT !.infos[g].ready = TRUE]
<1>1. /\ Sound(Now, None) /\ Now.conn = ag.conn /\ Now.anon = ag.anon /\ Now.route = ag.route
      /\ Now.lists = ag.lists /\ Now.infos = ag.infos /\ Now.ended = NotEnded /\ AnonState(Now)
  BY NowIs DEF Sound
<1>2. g # 0 /\ (ag' = r \/ ag' = s)
  <2>1. ag.route[c]
    BY DEF w3route_loadingdone
  <2> QED BY <2>1, ZenonT(60) DEF w3route_loadingdone, AnonInv, RoutesInv
<1>3. /\ g \in AnonGames /\ I \in InfoRec /\ GameInv(I, g, ag.anon, ag.route, None)
      /\ \A k \in Taken(I) : I.player[k] \in Gamers /\ ag.route[I.player[k]]
  <2>1. \A d \in Present(ag, c) : ag.route[d]
    BY DEF w3route_loadingdone
  <2> QED BY <1>2, <2>1, GameOf, ZenonT(60)
<1>4. /\ Now.anon \in [Gamers -> AnonRec] /\ Now.infos \in [AnonGames -> InfoRec]
      /\ Now.anon[c] \in AnonRec
  BY <1>1, AnonParts
<1>5. /\ AnonState(s) /\ s.conn = ag.conn /\ s.route = ag.route /\ s.lists = ag.lists
      /\ s.infos = ag.infos /\ s.ended = NotEnded
      /\ \A d \in Gamers : /\ s.anon[d].queue = ag.anon[d].queue /\ s.anon[d].info = ag.anon[d].info
                           /\ s.anon[d].num = ag.anon[d].num /\ s.anon[d].tid = ag.anon[d].tid
                           /\ s.anon[d].tc = ag.anon[d].tc
  <2>1. [Now.anon EXCEPT ![c].loaded = TRUE] \in [Gamers -> AnonRec]
    BY <1>4 DEF AnonRec
  <2> QED BY <1>1, <1>4, <2>1 DEF AnonState, AnonRec
<1> HIDE DEF s
<1> DEFINE J == [I EXCEPT !.ready = TRUE]
<1>6. /\ J \in InfoRec /\ J.player = I.player /\ J.account = I.account /\ J.told = I.told
      /\ J.results = I.results /\ J.cur = I.cur /\ J.made = I.made /\ J.times = I.times
      /\ J.ready
  BY <1>3, ZenonT(60) DEF InfoRec
<1>7. /\ AnonState(r) /\ r.conn = s.conn /\ r.route = s.route /\ r.lists = s.lists /\ r.anon = s.anon
      /\ r.infos = [s.infos EXCEPT ![g] = J] /\ r.ended = s.ended
  <2>1. [s.infos EXCEPT ![g] = J] \in [AnonGames -> InfoRec]
    BY <1>1, <1>4, <1>5, <1>6
  <2>2. s.infos[g] = I
    BY <1>5
  <2> HIDE DEF I
  <2> QED BY <1>3, <1>5, <2>1, <2>2 DEF AnonState
<1> HIDE DEF J, r
<1>8. r.infos[g] = J /\ \A h \in AnonGames \ {g} : r.infos[h] = ag.infos[h]
  <2>1. s.infos \in [AnonGames -> InfoRec] /\ g \in AnonGames
    BY <1>1, <1>3, <1>4, <1>5, ZenonT(60)
  <2> HIDE DEF g
  <2>2. r.infos[g] = J /\ \A h \in AnonGames \ {g} : r.infos[h] = s.infos[h]
    BY <1>7, <2>1
  <2> QED BY <1>5, <2>2
<1> DEFINE t == ag'
<1>9. /\ AnonState(t) /\ t.conn = ag.conn /\ t.route = ag.route /\ t.lists = ag.lists /\ t.anon = s.anon
      /\ t.ended = NotEnded /\ (t.infos[g] = I \/ t.infos[g] = J)
      /\ \A h \in AnonGames \ {g} : t.infos[h] = ag.infos[h]
  BY <1>2, <1>5, <1>7, <1>8
<1> HIDE DEF t
<1>10. Steady(Now, t)
  BY <1>1, <1>5, <1>9 DEF Steady
<1>11. GameInv(t.infos[g], g, t.anon, t.route, None)
  <2>1. \A n \in Taken(I) : /\ s.anon[I.player[n]].info = ag.anon[I.player[n]].info
                            /\ s.anon[I.player[n]].num = ag.anon[I.player[n]].num
                            /\ ag.route[I.player[n]]
    BY <1>3, <1>5, ZenonT(60)
  <2> HIDE DEF I, g
  <2>2. GameInv(J, g, s.anon, ag.route, None)
    <3>1. \A n \in Taken(I) : /\ s.anon[I.player[n]].info = ag.anon[I.player[n]].info
                              /\ s.anon[I.player[n]].num = ag.anon[I.player[n]].num
                              /\ J.ready => ag.route[I.player[n]]
      BY <1>6, <2>1
    <3>2. I.ready => J.ready
      BY <1>6
    <3>3. GameInv(I, g, ag.anon, ag.route, None)
      BY <1>3
    <3> QED BY <1>6, <3>1, <3>2, <3>3, GameGoesOn
  <2>3. GameInv(I, g, s.anon, ag.route, None)
    <3>1. GameInv(I, g, ag.anon, ag.route, None)
      BY <1>3
    <3> QED BY <2>1, <3>1, GameGoesOn
  <2> QED BY <1>9, <2>2, <2>3
<1>12. t.infos[g].player = InfoOf(ag, c).player
  BY <1>6, <1>9 DEF InfoOf
<1> QED BY <1>2, <1>9, <1>10, <1>11, <1>12, GameStep DEF t

\* CLIENT_W3ROUTE_REQ.
LEMMA RouteReqGood ==
  ASSUME AnonInv, NEW c \in Gamers, w3route_req(c)
  PROVE  Good(ag')
<1> DEFINE g == ag.anon[c].info
           n == ag.anon[c].num
           I == ag.infos[g]
<1>1. /\ Sound(Now, None) /\ Now.conn = ag.conn /\ Now.anon = ag.anon /\ Now.route = ag.route
      /\ Now.lists = ag.lists /\ Now.infos = ag.infos /\ Now.ended = NotEnded /\ AnonState(Now)
  BY NowIs DEF Sound
<1>2. /\ Now.anon \in [Gamers -> AnonRec] /\ Now.infos \in [AnonGames -> InfoRec]
      /\ Now.conn \in [Gamers -> ConnRec] /\ Now.route \in [Gamers -> BOOLEAN]
      /\ Now.anon[c] \in AnonRec
  BY <1>1, AnonParts
<1>3. ag.conn[c].cl = "found"
  BY DEF w3route_req
<1>4. ClientInv(ag.conn, ag.anon[c], c)
  BY DEF AnonInv, Sound, ClientsInv
<1>5. CASE ~HasAnon(ag, c)
  <2> DEFINE t == [Now EXCEPT !.conn[c].cl = "idle"]
  <2>1. ag' = t
    BY <1>5 DEF w3route_req
  <2>2. [Now.conn EXCEPT ![c].cl = "idle"] \in [Gamers -> ConnRec]
    BY <1>2 DEF ConnRec
  <2>3. /\ AnonState(t) /\ t.anon = ag.anon /\ t.route = ag.route /\ t.lists = ag.lists
        /\ t.infos = ag.infos /\ t.ended = NotEnded
        /\ t.conn[c].cl = "idle" /\ t.conn[c].team = ag.conn[c].team /\ t.conn[c].tried = ag.conn[c].tried
        /\ \A d \in Gamers \ {c} : t.conn[d] = ag.conn[d]
    BY <1>1, <1>2, <2>2, ZenonT(60) DEF AnonState, ConnRec
  <2> HIDE DEF t
  <2>4. Now.anon[c].queue = None /\ Gone(Now, c)
    BY <1>1, <1>4, <1>5 DEF ClientInv, HasAnon, Gone
  <2>5. TeamsInv(t.conn)
    <3>1. TeamsInv(ag.conn)
      BY DEF AnonInv, Sound
    <3>2. \A d \in Gamers : t.conn[d].team = ag.conn[d].team /\ (ag.conn[d].tried => t.conn[d].tried)
      BY <2>3
    <3>3. \A d \in Gamers : t.conn[d].cl = "found" => ag.conn[d].cl = "found"
      BY <2>3
    <3>4. \A d \in Gamers : IsOn(t.conn, d) => IsOn(ag.conn, d)
      BY <1>3, <2>3 DEF IsOn
    <3> QED BY <3>1, <3>2, <3>3, <3>4, TeamsStill
  <2>6. Fades(Now, t, c)
    <3>1. t.conn[c].tried
      BY <1>3, <1>4, <2>3 DEF ClientInv
    <3> QED BY <1>1, <2>3, <2>4, <3>1 DEF Fades, Gone
  <2>7. t.lists = Now.lists /\ t.infos = Now.infos
    BY <1>1, <2>3
  <2>8. Sound(t, None)
    BY <1>1, <2>3, <2>4, <2>5, <2>6, <2>7, FadesSound
  <2>9. RoutesInv(t.anon, t.route)
    BY <2>3 DEF AnonInv
  <2>10. AskedInv(t.conn, t.anon)
    <3>1. AnonState(ag) /\ AskedInv(ag.conn, ag.anon)
      BY DEF AnonInv, Sound
    <3>2. \A d \in Gamers :
            /\ t.conn[d].team = ag.conn[d].team /\ t.conn[d].tried = ag.conn[d].tried
            /\ IsOn(t.conn, d) = IsOn(ag.conn, d)
            /\ t.anon[d].queue = ag.anon[d].queue /\ t.anon[d].tid = ag.anon[d].tid
            /\ t.anon[d].tc = ag.anon[d].tc
      BY <1>3, <2>3, SMTT(40) DEF IsOn
    <3> QED BY <3>1, <3>2, AskedSame
  <2> QED BY <2>1, <2>3, <2>8, <2>9, <2>10 DEF Good, EndedOK
<1>6. CASE HasAnon(ag, c)
  <2> DEFINE J == [I EXCEPT !.results[n] = <<>>]
             t == [Now EXCEPT !.route[c] = TRUE, !.anon[c].joined = FALSE,
                              !.anon[c].loaded = FALSE, !.infos[g].results[n] = <<>>]
  <2>1. ag' = t
    BY <1>6 DEF w3route_req
  <2>2. g # 0
    BY <1>3, <1>4, <1>6 DEF ClientInv, HasAnon
  <2>3. /\ g \in AnonGames /\ I \in InfoRec /\ GameInv(I, g, ag.anon, ag.route, None)
        /\ n \in DOMAIN I.player /\ I.told[n] = <<>>
        /\ \A k \in Taken(I) : I.player[k] \in Gamers /\ (I.ready => ag.route[I.player[k]])
    BY <2>2, GameOf, ZenonT(60)
  <2>4. I.results = I.told /\ DOMAIN I.told = DOMAIN I.player
    BY <2>3, ZenonT(60) DEF GameInv
  <2>5. I.results \in Seq(Report)
    BY <2>3, InfoFields, ZenonT(60)
  <2>6. J = I
    <3>1. I.results[n] = <<>> /\ n \in DOMAIN I.results
      BY <2>3, <2>4, ZenonT(60)
    <3>2. [I.results EXCEPT ![n] = <<>>] = I.results
      BY <2>5, <3>1
    <3> HIDE DEF I
    <3> QED BY <2>3, <3>2 DEF InfoRec
  <2>7. [Now.infos EXCEPT ![g].results[n] = <<>>] = ag.infos
    <3> HIDE DEF g, n
    <3>1. [ag.infos[g] EXCEPT !.results[n] = <<>>] = ag.infos[g]
      BY <2>6
    <3>2. ag.infos \in [AnonGames -> InfoRec]
      BY <1>1, <1>2
    <3> QED BY <1>1, <2>3, <3>1, <3>2
  <2>8. [Now.anon EXCEPT ![c].joined = FALSE, ![c].loaded = FALSE] \in [Gamers -> AnonRec]
    BY <1>2 DEF AnonRec
  <2>9. t.infos = [Now.infos EXCEPT ![g].results[n] = <<>>]
    BY <1>1 DEF AnonState
  <2>10. /\ AnonState(t) /\ t.conn = ag.conn /\ t.lists = ag.lists /\ t.ended = NotEnded
         /\ t.route[c] /\ (\A d \in Gamers \ {c} : t.route[d] = ag.route[d])
         /\ \A d \in Gamers : /\ t.anon[d].queue = ag.anon[d].queue /\ t.anon[d].info = ag.anon[d].info
                              /\ t.anon[d].num = ag.anon[d].num /\ t.anon[d].tid = ag.anon[d].tid
                              /\ t.anon[d].tc = ag.anon[d].tc
    <3> HIDE DEF g, n
    <3>1. ag.infos \in [AnonGames -> InfoRec]
      BY <1>1, <1>2
    <3> QED BY <1>1, <1>2, <2>7, <2>8, <3>1, ZenonT(60) DEF AnonState, AnonRec
  <2> HIDE DEF t
  <2>11. t.infos = ag.infos
    BY <2>7, <2>9
  <2>12. Steady(Now, t)
    BY <1>1, <2>10 DEF Steady
  <2>13. GameInv(t.infos[g], g, t.anon, t.route, None)
    <3> DEFINE G == t.infos[g]
    <3>1. G = I
      BY <2>11
    <3>2. \A k \in Taken(I) : /\ t.anon[I.player[k]].info = ag.anon[I.player[k]].info
                              /\ t.anon[I.player[k]].num = ag.anon[I.player[k]].num
                              /\ G.ready => t.route[I.player[k]]
      BY <2>3, <2>10, <3>1, ZenonT(60)
    <3>3. GameInv(I, g, ag.anon, ag.route, None)
      BY <2>3, ZenonT(60)
    <3> HIDE DEF G, I, g
    <3> QED BY <3>1, <3>2, <3>3, GameGoesOn DEF G
  <2>14. t.infos[g].player = InfoOf(ag, c).player /\ \A h \in AnonGames \ {g} : t.infos[h] = ag.infos[h]
    BY <2>11 DEF InfoOf
  <2>15. /\ \A d \in Gamers : ag.route[d] => t.route[d]
         /\ \A d \in Gamers : t.route[d] => ag.route[d] \/ d = c
    BY <2>10
  <2> QED BY <2>1, <2>2, <2>10, <2>12, <2>13, <2>14, <2>15, GameStep
<1> QED BY <1>5, <1>6

\* A player logs in.
LEMMA LoginGood ==
  ASSUME AnonInv, NEW c \in Gamers, NEW level \in 0..TopLevel, NEW version \in Versions,
         NEW team \in Teams, anon_login(c, level, version, team)
  PROVE  Good(ag')
<1> DEFINE R == [Off EXCEPT !.cl = "idle", !.level = level, !.version = version, !.team = team,
                            !.tried = TRUE]
           t == [Now EXCEPT !.conn[c] = R]
<1>1. /\ Sound(Now, None) /\ Now.conn = ag.conn /\ Now.anon = ag.anon /\ Now.route = ag.route
      /\ Now.lists = ag.lists /\ Now.infos = ag.infos /\ Now.ended = NotEnded /\ AnonState(Now)
  BY NowIs DEF Sound
<1>2. /\ Now.anon \in [Gamers -> AnonRec] /\ Now.conn \in [Gamers -> ConnRec]
  BY <1>1, AnonParts
<1>3. /\ ag.conn[c].cl = "off" /\ ag' = t
      /\ team # <<>> => c \in ToSet(team) /\ IsInjective(team)
      /\ \A d \in Gamers \ {c} : ag.conn[d].cl # "off" =>
           \/ team # <<>> /\ ag.conn[d].team = team
           \/ ({c} \cup ToSet(team)) \cap ({d} \cup TeamOf(ag.conn, d)) = {}
  BY DEF anon_login, Mates, TeamOf
<1>4. R \in ConnRec /\ R.cl = "idle" /\ R.team = team /\ R.tried
  BY DEF Off, ConnRec
<1> HIDE DEF R
<1>5. /\ AnonState(t) /\ t.anon = ag.anon /\ t.route = ag.route /\ t.lists = ag.lists
      /\ t.infos = ag.infos /\ t.ended = NotEnded
      /\ t.conn[c] = R /\ \A d \in Gamers \ {c} : t.conn[d] = ag.conn[d]
  BY <1>1, <1>2, <1>4 DEF AnonState
<1> HIDE DEF t
<1>6. Gone(Now, c) /\ Now.anon[c].queue = None
  <2>1. ClientInv(ag.conn, ag.anon[c], c)
    BY DEF AnonInv, Sound, ClientsInv
  <2> QED BY <1>1, <1>3, <2>1 DEF ClientInv, Gone
<1>7. TeamsInv(t.conn)
  <2>1. TeamsInv(ag.conn)
    BY DEF AnonInv, Sound
  <2>2. ASSUME NEW d \in Gamers, t.conn[d].team # <<>>
        PROVE  IsInjective(t.conn[d].team) /\ d \in TeamOf(t.conn, d)
    <3>1. CASE d = c
      BY <1>3, <1>4, <1>5, <2>2, <3>1 DEF TeamOf
    <3>2. CASE d # c
      BY <1>5, <2>1, <2>2, <3>2 DEF TeamsInv, TeamOf
    <3> QED BY <3>1, <3>2
  <2>3. ASSUME NEW d \in Gamers \ {c}, IsOn(t.conn, d)
        PROVE  /\ Same(t.conn, c, d) \/ Apart(t.conn, c, d)
               /\ Same(t.conn, d, c) \/ Apart(t.conn, d, c)
    <3>1. t.conn[d] = ag.conn[d] /\ t.conn[c].team = team /\ ag.conn[d].cl # "off"
      BY <1>4, <1>5, <2>3 DEF IsOn
    <3>2. TeamOf(t.conn, d) = TeamOf(ag.conn, d) /\ TeamOf(t.conn, c) = ToSet(team)
      BY <3>1 DEF TeamOf
    <3> QED BY <1>3, <3>1, <3>2 DEF Same, Apart
  <2>4. ASSUME NEW d \in Gamers, NEW e \in Gamers, IsOn(t.conn, d), IsOn(t.conn, e), d # e
        PROVE  Same(t.conn, d, e) \/ Apart(t.conn, d, e)
    <3>1. CASE d # c /\ e # c
      <4>1. IsOn(ag.conn, d) /\ IsOn(ag.conn, e)
        BY <1>5, <2>4, <3>1 DEF IsOn
      <4>2. Same(ag.conn, d, e) \/ Apart(ag.conn, d, e)
        BY <2>1, <2>4, <4>1 DEF TeamsInv
      <4> QED BY <1>5, <3>1, <4>2 DEF Same, Apart, TeamOf
    <3> QED BY <2>3, <2>4, <3>1
  <2>5. ASSUME NEW d \in Gamers, NEW e \in Gamers, IsOn(t.conn, d), e \in TeamOf(t.conn, d),
               t.conn[e].cl = "found"
        PROVE  t.conn[d].tried
    <3>1. CASE d = c
      BY <1>4, <1>5, <3>1
    <3>2. CASE d # c
      <4>1. e # c
        BY <1>4, <1>5, <2>5
      <4> QED BY <1>5, <2>1, <2>5, <3>2, <4>1 DEF TeamsInv, IsOn, TeamOf
    <3> QED BY <3>1, <3>2
  <2> QED BY <2>2, <2>4, <2>5 DEF TeamsInv
<1>8. Fades(Now, t, c)
  BY <1>1, <1>4, <1>5, <1>6 DEF Fades, Gone
<1>9. Sound(t, None)
  <2>1. t.lists = Now.lists /\ t.infos = Now.infos
    BY <1>1, <1>5
  <2> QED BY <1>1, <1>5, <1>6, <1>7, <1>8, <2>1, FadesSound
<1>10. RoutesInv(t.anon, t.route)
  BY <1>5 DEF AnonInv
<1>11. AskedInv(t.conn, t.anon)
  <2> DEFINE C == {c}
  <2>1. AskedInv(ag.conn, ag.anon) /\ \A d \in Gamers : TeamOf(ag.conn, d) \subseteq Gamers
    BY TeamsTyped DEF AnonInv, Sound
  <2>2. \A d \in Gamers \ C :
          /\ t.conn[d].team = ag.conn[d].team /\ t.conn[d].tried = ag.conn[d].tried
          /\ IsOn(t.conn, d) = IsOn(ag.conn, d)
          /\ t.anon[d].queue = ag.anon[d].queue /\ t.anon[d].tid = ag.anon[d].tid
          /\ t.anon[d].tc = ag.anon[d].tc \/ ToSet(ag.anon[d].tc) \cap C # {}
    BY <1>5 DEF IsOn
  <2>3. ASSUME NEW d \in Gamers, d \in C \/ TeamOf(t.conn, d) \cap C # {}
        PROVE  ~Open(t.conn, t.anon, d)
    <3>1. t.anon[c].tid = 0 /\ t.conn[c].tried
      BY <1>1, <1>4, <1>5, <1>6 DEF Gone
    <3>2. CASE d = c
      BY <3>1, <3>2 DEF Open
    <3>3. CASE c \in TeamOf(t.conn, d)
      BY <3>1, <3>3 DEF Open
    <3> QED BY <2>3, <3>2, <3>3
  <2> HIDE DEF C
  <2> QED BY <2>1, <2>2, <2>3, AskedStill
<1> QED BY <1>3, <1>5, <1>9, <1>10, <1>11 DEF Good, EndedOK

\* The first connection of a player is destroyed.
LEMMA GoneGood ==
  ASSUME AnonInv, NEW c \in Gamers, anon_conn_destroy(c)
  PROVE  Good(ag')
<1> DEFINE s == conn_destroy_anongame(Now, c)
           Tc(d) == [k \in DOMAIN s.anon[d].tc |->
                      IF s.anon[d].tc[k] = c THEN Freed ELSE s.anon[d].tc[k]]
           A == [d \in Gamers |-> [s.anon[d] EXCEPT !.tc = Tc(d)]]
           t == [s EXCEPT !.route[c] = FALSE, !.conn[c] = Off, !.anon = A]
<1>1. /\ Sound(Now, None) /\ Now.conn = ag.conn /\ Now.anon = ag.anon /\ Now.route = ag.route
      /\ Now.lists = ag.lists /\ Now.infos = ag.infos /\ Now.ended = NotEnded
  BY NowIs
<1>2. ag' = t
  BY DEF anon_conn_destroy
<1>3. Sound(s, None) /\ Unfound(Now, s, c)
  BY <1>1, DestroyIs
<1> HIDE DEF s
<1>4. /\ AnonState(s) /\ s.anon \in [Gamers -> AnonRec] /\ s.conn \in [Gamers -> ConnRec]
      /\ s.route \in [Gamers -> BOOLEAN]
  BY <1>3, AnonParts DEF Sound
<1>5. /\ s.conn = ag.conn /\ s.route = ag.route /\ s.ended = NotEnded
      /\ \A d \in Gamers \ {c} : s.anon[d] = ag.anon[d]
      /\ s.anon[c].queue = None /\ s.anon[c].info = 0 /\ s.anon[c].tid = 0 /\ s.anon[c].tc = <<>>
  BY <1>1, <1>3 DEF Unfound
<1>6. ASSUME NEW d \in Gamers
      PROVE  /\ Tc(d) \in Seq(Gamers \cup {Freed})
             /\ c \notin ToSet(s.anon[d].tc) => Tc(d) = s.anon[d].tc
             /\ ToSet(Tc(d)) \subseteq ToSet(s.anon[d].tc) \cup {Freed}
             /\ d # c /\ d \in ToSet(s.anon[d].tc) => d \in ToSet(Tc(d))
  <2> DEFINE l == s.anon[d].tc
             m == Tc(d)
  <2>1. l \in Seq(Gamers \cup {Freed})
    BY <1>4, AnonFields
  <2>2. DOMAIN l = 1..Len(l) /\ Len(l) \in Nat
    BY <2>1
  <2>3. m = [k \in DOMAIN l |-> IF l[k] = c THEN Freed ELSE l[k]]
    OBVIOUS
  <2> HIDE DEF l, m
  <2>4. m \in Seq(Gamers \cup {Freed})
    <3>1. m \in [1..Len(l) -> Gamers \cup {Freed}]
      BY <2>1, <2>2, <2>3
    <3> QED BY <2>2, <3>1
  <2>5. c \notin ToSet(l) => m = l
    <3> HAVE c \notin ToSet(l)
    <3>1. \A k \in DOMAIN l : m[k] = l[k]
      BY <2>3 DEF ToSet
    <3>2. DOMAIN m = DOMAIN l
      BY <2>3
    <3> QED BY <2>1, <2>4, <3>1, <3>2, SeqEqual
  <2>6. ToSet(m) \subseteq ToSet(l) \cup {Freed}
    BY <2>3 DEF ToSet
  <2>7. d # c /\ d \in ToSet(l) => d \in ToSet(m)
    BY <2>3 DEF ToSet
  <2> QED BY <2>4, <2>5, <2>6, <2>7 DEF l, m
<1>7. ASSUME NEW d \in Gamers
      PROVE  /\ A[d] \in AnonRec /\ A[d].queue = s.anon[d].queue /\ A[d].info = s.anon[d].info
             /\ A[d].num = s.anon[d].num /\ A[d].tid = s.anon[d].tid /\ A[d].tc = Tc(d)
  <2>1. Tc(d) \in Seq(Gamers \cup {Freed}) /\ s.anon[d] \in AnonRec
    BY <1>4, <1>6
  <2>2. A[d] = [s.anon[d] EXCEPT !.tc = Tc(d)]
    OBVIOUS
  <2> HIDE DEF A, Tc
  <2> QED BY <2>1, <2>2 DEF AnonRec
<1>8. A \in [Gamers -> AnonRec]
  BY <1>7
<1> HIDE DEF A, Tc
<1>9. /\ AnonState(t) /\ t.anon = A /\ t.lists = s.lists /\ t.infos = s.infos /\ t.ended = NotEnded
      /\ t.conn[c] = Off /\ (\A d \in Gamers \ {c} : t.conn[d] = ag.conn[d])
      /\ ~t.route[c] /\ \A d \in Gamers \ {c} : t.route[d] = ag.route[d]
  BY <1>4, <1>5, <1>8, Nothing DEF AnonState
<1> HIDE DEF t
<1>10. t.conn[c].cl = "off" /\ t.conn[c].team = <<>>
  BY <1>9, Nothing
<1>11. TeamsInv(t.conn)
  <2>1. TeamsInv(ag.conn)
    BY DEF AnonInv, Sound
  <2>2. ASSUME NEW d \in Gamers, t.conn[d].team # <<>>
        PROVE  IsInjective(t.conn[d].team) /\ d \in TeamOf(t.conn, d)
    BY <1>9, <1>10, <2>1, <2>2 DEF TeamsInv, TeamOf
  <2>3. ASSUME NEW d \in Gamers, NEW e \in Gamers, IsOn(t.conn, d), IsOn(t.conn, e), d # e
        PROVE  Same(t.conn, d, e) \/ Apart(t.conn, d, e)
    <3>1. t.conn[d] = ag.conn[d] /\ t.conn[e] = ag.conn[e]
      BY <1>9, <1>10, <2>3 DEF IsOn
    <3>2. Same(ag.conn, d, e) \/ Apart(ag.conn, d, e)
      BY <2>1, <2>3, <3>1 DEF TeamsInv, IsOn
    <3> QED BY <3>1, <3>2 DEF Same, Apart, TeamOf
  <2>4. ASSUME NEW d \in Gamers, NEW e \in Gamers, IsOn(t.conn, d), e \in TeamOf(t.conn, d),
               t.conn[e].cl = "found"
        PROVE  t.conn[d].tried
    <3>1. t.conn[d] = ag.conn[d] /\ t.conn[e] = ag.conn[e]
      BY <1>9, <1>10, <2>4 DEF IsOn
    <3> QED BY <2>1, <2>4, <3>1 DEF TeamsInv, IsOn, TeamOf
  <2> QED BY <2>2, <2>3, <2>4 DEF TeamsInv
<1>12. Fades(s, t, c)
  <2>1. ASSUME NEW d \in Gamers \ {c}
        PROVE  \/ t.anon[d].tc = s.anon[d].tc
               \/ /\ c \in ToSet(s.anon[d].tc) /\ d \in ToSet(t.anon[d].tc)
                  /\ ToSet(t.anon[d].tc) \subseteq ToSet(s.anon[d].tc) \cup {Freed}
    <3>1. CASE c \notin ToSet(s.anon[d].tc)
      BY <1>6, <1>7, <1>9, <3>1
    <3>2. CASE c \in ToSet(s.anon[d].tc)
      <4>1. s.anon[d].tc # <<>>
        BY <3>2 DEF ToSet
      <4>2. d \in ToSet(s.anon[d].tc)
        BY <1>3, <4>1 DEF Sound, ClientsInv, ClientInv
      <4> QED BY <1>6, <1>7, <1>9, <3>2, <4>2
    <3> QED BY <3>1, <3>2
  <2>2. \A d \in Gamers \ {c} :
          /\ t.conn[d] = s.conn[d] /\ t.route[d] = s.route[d]
          /\ t.anon[d].queue = s.anon[d].queue /\ t.anon[d].info = s.anon[d].info
          /\ t.anon[d].num = s.anon[d].num /\ t.anon[d].tid = s.anon[d].tid
    BY <1>5, <1>7, <1>9
  <2>3. t.anon[c].queue = None /\ t.anon[c].info = 0 /\ t.anon[c].tid = 0
    BY <1>5, <1>7, <1>9
  <2>4. t.anon[c].tc = <<>>
    <3>1. c \notin ToSet(s.anon[c].tc)
      BY <1>5 DEF ToSet
    <3> QED BY <1>5, <1>6, <1>7, <1>9, <3>1
  <2> QED BY <1>10, <2>1, <2>2, <2>3, <2>4 DEF Fades
<1>13. Sound(t, None)
  BY <1>3, <1>5, <1>9, <1>11, <1>12, FadesSound
<1>14. RoutesInv(t.anon, t.route)
  <2> SUFFICES ASSUME NEW d \in Gamers, t.route[d] PROVE t.anon[d].info # 0
    BY DEF RoutesInv
  <2>1. d # c /\ ag.route[d]
    BY <1>9
  <2>2. t.anon[d].info = ag.anon[d].info
    BY <1>5, <1>7, <1>9, <2>1
  <2> QED BY <2>1, <2>2 DEF AnonInv, RoutesInv
<1>15. AskedInv(t.conn, t.anon)
  <2> DEFINE C == {c}
  <2>1. AskedInv(ag.conn, ag.anon) /\ \A d \in Gamers : TeamOf(ag.conn, d) \subseteq Gamers
    BY TeamsTyped DEF AnonInv, Sound
  <2>2. \A d \in Gamers \ C :
          /\ t.conn[d].team = ag.conn[d].team /\ t.conn[d].tried = ag.conn[d].tried
          /\ IsOn(t.conn, d) = IsOn(ag.conn, d)
          /\ t.anon[d].queue = ag.anon[d].queue /\ t.anon[d].tid = ag.anon[d].tid
          /\ t.anon[d].tc = ag.anon[d].tc \/ ToSet(ag.anon[d].tc) \cap C # {}
    BY <1>5, <1>6, <1>7, <1>9 DEF IsOn
  <2>3. ASSUME NEW d \in Gamers, d \in C \/ TeamOf(t.conn, d) \cap C # {}
        PROVE  ~Open(t.conn, t.anon, d)
    <3>1. CASE d = c
      BY <1>10, <3>1 DEF Open
    <3>2. CASE c \in TeamOf(t.conn, d)
      BY <1>10, <3>2 DEF Open, IsOn
    <3> QED BY <2>3, <3>1, <3>2
  <2> HIDE DEF C
  <2> QED BY <2>1, <2>2, <2>3, AskedStill
<1> QED BY <1>2, <1>9, <1>13, <1>14, <1>15 DEF Good, EndedOK

-----------------------------------------------------------------------------
\* The levels that are searched.  The search goes away from the player's own level: the n-th
\* difference, 0, 1, -1, 2, ..., has the place n - 1.
Place(d) == IF d > 0 THEN 2 * d - 1 ELSE -(2 * d)

\* The next difference has a later place.
LEMMA NextIsLater ==
  ASSUME NEW level \in 0..TopLevel, NEW d \in Int, Abs(d) <= MaxDiff
  PROVE  NextDelta(level, d) \in Int /\ Place(d) < Place(NextDelta(level, d))
<1> DEFINE e == IF d <= 0 \/ level - d < 0 THEN Abs(d) + 1 ELSE -d
<1>1. MaxDiff \in Nat /\ TopLevel \in Nat /\ TopLevel + MaxDiff < 100
  BY AnonGameAssumption
<1>2. e \in Int /\ Place(d) < Place(e)
  <2>1. CASE d <= 0
    BY <2>1 DEF Abs, Place
  <2>2. CASE d > 0
    BY <2>2 DEF Abs, Place
  <2> QED BY <2>1, <2>2
<1>3. level + e <= 100
  <2>1. CASE d <= 0
    BY <1>1, <2>1 DEF Abs
  <2>2. CASE d > 0
    BY <1>1, <2>2 DEF Abs
  <2> QED BY <2>1, <2>2
<1>4. NextDelta(level, d) = e
  <2> HIDE DEF e
  <2>1. ~(level + e > 100)
    BY <1>2, <1>3
  <2> QED BY <2>1 DEF NextDelta, e
<1> QED BY <1>2, <1>4

\* The levels so far, and the next one.
LevelsSoFar(level, r) ==
  /\ r.delta \in Int /\ r.levels \in Seq(Int) /\ IsInjective(r.levels)
  /\ \A l \in ToSet(r.levels) : Place(l - level) < Place(r.delta)
LevelTurn(level, r, i) == NextLevel(level, r)
LevelTo(level, k, r) == LevelsSoFar(level, r)
LevelFold == INSTANCE FoldInduction WITH Op <- LevelTurn, Inv <- LevelTo

\* No level is searched twice.
LEMMA LevelsApart ==
  ASSUME NEW level \in 0..TopLevel
  PROVE  LevelsFrom(level) \in Seq(Int) /\ IsInjective(LevelsFrom(level))
<1> DEFINE base == [delta |-> 0, levels |-> <<>>]
           seq == [i \in 1..(2 * MaxDiff + 2) |-> i]
           n == 2 * MaxDiff + 2
<1>1. MaxDiff \in Nat
  BY AnonGameAssumption
<1>2. n \in Nat /\ DOMAIN seq = 1..n
  BY <1>1
<1>3. LevelTo(level, 0, base)
  BY EmptyList DEF LevelTo, LevelsSoFar
<1>4. \A r : \A i \in 1..n :
        LevelTo(level, i - 1, r) => LevelTo(level, i, LevelTurn(level, r, seq[i]))
  <2> SUFFICES ASSUME NEW r, LevelsSoFar(level, r) PROVE LevelsSoFar(level, NextLevel(level, r))
    BY DEF LevelTo, LevelTurn
  <2>1. r.delta \in Int /\ r.levels \in Seq(Int)
    BY DEF LevelsSoFar
  <2>2. CASE Abs(r.delta) > MaxDiff \/ level + r.delta < 0
    BY <2>2 DEF NextLevel
  <2>3. CASE ~(Abs(r.delta) > MaxDiff) /\ ~(level + r.delta < 0)
    <3> DEFINE l == level + r.delta
               e == NextDelta(level, r.delta)
               t == [delta |-> e, levels |-> Append(r.levels, l)]
    <3>1. NextLevel(level, r) = t
      BY <2>3 DEF NextLevel
    <3>2. Abs(r.delta) <= MaxDiff
      BY <1>1, <2>1, <2>3 DEF Abs
    <3>3. e \in Int /\ Place(r.delta) < Place(e)
      BY <2>1, <3>2, NextIsLater
    <3> HIDE DEF e
    <3>4. l \in Int /\ l - level = r.delta
      BY <2>1
    <3>5. l \notin ToSet(r.levels)
      <4>1. Place(r.delta) \in Int
        BY <2>1 DEF Place
      <4> HIDE DEF l
      <4> SUFFICES ASSUME l \in ToSet(r.levels) PROVE FALSE
        OBVIOUS
      <4>2. Place(l - level) < Place(r.delta)
        BY DEF LevelsSoFar
      <4> QED BY <3>4, <4>1, <4>2
    <3>6. /\ t.levels \in Seq(Int) /\ IsInjective(t.levels) /\ ToSet(t.levels) = ToSet(r.levels) \cup {l}
      BY <2>1, <3>4, <3>5, Appended DEF LevelsSoFar
    <3>7. \A x \in Int : Place(x) \in Int
      BY DEF Place
    <3>8. ASSUME NEW x \in ToSet(t.levels) PROVE Place(x - level) < Place(e)
      <4>1. CASE x = l
        BY <3>3, <3>4, <4>1
      <4>2. CASE x \in ToSet(r.levels)
        <5>1. x \in Int /\ x - level \in Int
          BY <2>1, <4>2, Elements
        <5>2. Place(x - level) < Place(r.delta)
          BY <4>2 DEF LevelsSoFar
        <5>3. Place(x - level) \in Int /\ Place(r.delta) \in Int /\ Place(e) \in Int
          BY <2>1, <3>3, <3>7, <5>1
        <5> QED BY <3>3, <5>2, <5>3
      <4> QED BY <3>6, <4>1, <4>2
    <3> QED BY <3>1, <3>3, <3>6, <3>8 DEF LevelsSoFar
  <2> QED BY <2>2, <2>3
<1>5. LevelTo(level, n, LevelFold!Fold(level, base, seq))
  <2> HIDE DEF base, seq, n
  <2> QED BY <1>2, <1>3, <1>4, LevelFold!FoldLeftInv
<1>6. FoldLeft(LAMBDA r, i : NextLevel(level, r), base, seq) = LevelFold!Fold(level, base, seq)
  BY DEF LevelTurn, FoldLeft, MapThenFoldSet, Max,
         LevelFold!Fold, LevelFold!Greatest
<1> QED BY <1>5, <1>6, ZenonT(60) DEF LevelTo, LevelsSoFar, LevelsFrom

-----------------------------------------------------------------------------
\* What a search has taken so far, from the places P of the list l.
TakenFrom(l, P, m, version) ==
  /\ m.min \in Int /\ m.max \in Int /\ m.prefs \subseteq Maps /\ m.picked \in Seq(EntryRec)
  /\ OneEach(m.picked)
  /\ \A i \in DOMAIN m.picked :
       /\ \E j \in P : l[j] = m.picked[i]
       /\ m.picked[i].version = version /\ m.prefs \subseteq m.picked[i].prefs
       /\ m.picked[i].level - MaxDiff <= m.min /\ m.max <= m.picked[i].level + MaxDiff
  /\ m.picked # <<>> => m.prefs # {}
  /\ \A i, j \in DOMAIN m.picked : m.picked[i].level - m.picked[j].level <= MaxDiff

\* Numbers in a window.
LEMMA Windows ==
  ASSUME NEW a \in Int, NEW b \in Int, NEW c \in Int, NEW d \in Nat
  PROVE  /\ a - d <= b /\ b <= c => a - d <= c /\ a - c <= d
         /\ c <= b /\ b <= a + d => c <= a + d /\ c - a <= d
<1>1. ASSUME a - d <= b /\ b <= c PROVE a - d <= c /\ a - c <= d
  BY <1>1
<1>2. ASSUME c <= b /\ b <= a + d PROVE c <= a + d /\ c - a <= d
  BY <1>2
<1> QED BY <1>1, <1>2

\* An entry more.
LEMMA TookIs ==
  ASSUME NEW l \in Seq(EntryRec), OneEach(l), NEW P \in SUBSET DOMAIN l, NEW k \in DOMAIN l, k \notin P,
         NEW m, NEW version, TakenFrom(l, P, m, version), Fits(m, l[k], version)
  PROVE  TakenFrom(l, P \cup {k}, Took(m, l[k]), version)
<1> DEFINE e == l[k]
           t == Took(m, e)
           n == Len(m.picked)
<1>1. e \in EntryRec /\ MaxDiff \in Nat /\ TopLevel \in Nat
  BY Elements, AnonGameAssumption
<1>2. e.level \in Int /\ e.prefs \subseteq Maps
  BY <1>1 DEF EntryRec
<1>3. /\ m.min \in Int /\ m.max \in Int /\ m.prefs \subseteq Maps /\ m.picked \in Seq(EntryRec)
      /\ n \in Nat /\ DOMAIN m.picked = 1..n
  BY DEF TakenFrom
<1>4. m.min <= e.level /\ e.level <= m.max /\ e.version = version /\ m.prefs \cap e.prefs # {}
  BY DEF Fits
<1>5. /\ t.min = Greater(e.level - MaxDiff, m.min) /\ t.max = Lesser(e.level + MaxDiff, m.max)
      /\ t.prefs = m.prefs \cap e.prefs /\ t.picked = Append(m.picked, e)
  BY DEF Took
<1> HIDE DEF e, t
<1>6. /\ t.picked \in Seq(EntryRec) /\ DOMAIN t.picked = 1..(n + 1) /\ t.picked[n + 1] = e
      /\ \A i \in 1..n : t.picked[i] = m.picked[i]
  BY <1>1, <1>3, <1>5
<1>7. /\ t.min \in Int /\ t.max \in Int /\ t.prefs \subseteq Maps
      /\ e.level - MaxDiff <= t.min /\ m.min <= t.min /\ t.max <= e.level + MaxDiff /\ t.max <= m.max
  <2> DEFINE low == e.level - MaxDiff  high == e.level + MaxDiff
  <2>1. low \in Int /\ high \in Int
    BY <1>1, <1>2
  <2> HIDE DEF low, high
  <2>2. Greater(low, m.min) \in Int /\ low <= Greater(low, m.min) /\ m.min <= Greater(low, m.min)
    BY <1>3, <2>1 DEF Greater
  <2>3. Lesser(high, m.max) \in Int /\ Lesser(high, m.max) <= high /\ Lesser(high, m.max) <= m.max
    BY <1>3, <2>1 DEF Lesser
  <2>4. t.min = Greater(low, m.min) /\ t.max = Lesser(high, m.max) /\ t.prefs = m.prefs \cap e.prefs
    BY <1>5 DEF low, high
  <2>5. t.prefs \subseteq Maps
    BY <1>3, <2>4
  <2> QED BY <2>2, <2>3, <2>4, <2>5 DEF low, high
<1>8. ASSUME NEW i \in 1..n
      PROVE  /\ m.picked[i].level \in Int /\ m.picked[i].c # e.c
             /\ \E j \in P : l[j] = m.picked[i]
             /\ m.picked[i].version = version /\ m.prefs \subseteq m.picked[i].prefs
             /\ m.picked[i].level - MaxDiff <= m.min /\ m.max <= m.picked[i].level + MaxDiff
  <2>1. m.picked[i] \in EntryRec
    BY <1>3
  <2>2. m.picked[i].level \in Int
    BY <1>1, <2>1 DEF EntryRec
  <2>3. PICK j \in P : l[j] = m.picked[i]
    BY <1>3 DEF TakenFrom
  <2>4. m.picked[i].c # e.c
    BY <2>3 DEF OneEach, e
  <2> QED BY <1>3, <2>2, <2>3, <2>4 DEF TakenFrom
<1>9. OneEach(t.picked)
  <2> SUFFICES ASSUME NEW i \in 1..(n + 1), NEW j \in 1..(n + 1), t.picked[i].c = t.picked[j].c
               PROVE  i = j
    BY <1>6 DEF OneEach
  <2>1. i \in 1..n \/ i = n + 1
    BY <1>3
  <2>2. j \in 1..n \/ j = n + 1
    BY <1>3
  <2>3. CASE i \in 1..n /\ j \in 1..n
    <3>1. OneEach(m.picked)
      BY DEF TakenFrom
    <3> QED BY <1>3, <1>6, <2>3, <3>1 DEF OneEach
  <2>4. CASE i = n + 1 /\ j # n + 1
    BY <1>6, <1>8, <2>2, <2>4
  <2>5. CASE j = n + 1 /\ i # n + 1
    BY <1>6, <1>8, <2>1, <2>5
  <2> QED BY <2>1, <2>2, <2>3, <2>4, <2>5
<1>10. ASSUME NEW i \in DOMAIN t.picked
       PROVE  /\ \E j \in P \cup {k} : l[j] = t.picked[i]
              /\ t.picked[i].version = version /\ t.prefs \subseteq t.picked[i].prefs
              /\ t.picked[i].level - MaxDiff <= t.min /\ t.max <= t.picked[i].level + MaxDiff
  <2>1. i \in 1..n \/ i = n + 1
    BY <1>3, <1>6
  <2>2. CASE i = n + 1
    BY <1>4, <1>5, <1>6, <1>7, <2>2 DEF e
  <2>3. CASE i \in 1..n
    <3>1. t.picked[i] = m.picked[i]
      BY <1>6, <2>3
    <3>2. m.picked[i].level - MaxDiff <= t.min /\ t.max <= m.picked[i].level + MaxDiff
      <4> DEFINE x == m.picked[i].level
      <4>1. x \in Int /\ x - MaxDiff <= m.min /\ m.max <= x + MaxDiff
        BY <1>8, <2>3
      <4> HIDE DEF x
      <4>2. x - MaxDiff <= t.min /\ t.max <= x + MaxDiff
        BY <1>1, <1>3, <1>7, <4>1, Windows
      <4> QED BY <4>2 DEF x
    <3> QED BY <1>5, <1>8, <2>3, <3>1, <3>2
  <2> QED BY <2>1, <2>2, <2>3
<1>11. ASSUME NEW i \in DOMAIN t.picked, NEW j \in DOMAIN t.picked
       PROVE  t.picked[i].level - t.picked[j].level <= MaxDiff
  <2>1. (i \in 1..n \/ i = n + 1) /\ (j \in 1..n \/ j = n + 1)
    BY <1>3, <1>6
  <2>2. CASE i \in 1..n /\ j \in 1..n
    BY <1>3, <1>6, <2>2 DEF TakenFrom
  <2>3. CASE i = n + 1 /\ j \in 1..n
    <3> DEFINE x == m.picked[j].level
    <3>1. x \in Int /\ m.max <= x + MaxDiff
      BY <1>8, <2>3
    <3>2. t.picked[i] = e /\ t.picked[j].level = x
      BY <1>6, <2>3
    <3> HIDE DEF x
    <3>3. e.level - x <= MaxDiff
      BY <1>1, <1>2, <1>3, <1>4, <3>1, Windows
    <3> QED BY <3>2, <3>3
  <2>4. CASE i \in 1..n /\ j = n + 1
    <3> DEFINE x == m.picked[i].level
    <3>1. x \in Int /\ x - MaxDiff <= m.min
      BY <1>8, <2>4
    <3>2. t.picked[j] = e /\ t.picked[i].level = x
      BY <1>6, <2>4
    <3> HIDE DEF x
    <3>3. x - e.level <= MaxDiff
      BY <1>1, <1>2, <1>3, <1>4, <3>1, Windows
    <3> QED BY <3>2, <3>3
  <2>5. CASE i = n + 1 /\ j = n + 1
    <3>1. e.level - e.level <= MaxDiff
      BY <1>1, <1>2
    <3> QED BY <1>6, <2>5, <3>1
  <2> QED BY <2>1, <2>2, <2>3, <2>4, <2>5
<1>12. t.prefs # {}
  BY <1>4, <1>5
<1> QED BY <1>6, <1>7, <1>9, <1>10, <1>11, <1>12 DEF TakenFrom, t, e

\* The list of a level is searched: p has the state, the queue, the version and the level that
\* the search is for, and the places that former levels have taken from.
TriedPlaces(p, k) == p.P \cup {j \in 1..k : p.s.lists[p.q][j].level = p.l}
TriedTurn(p, m, e) == Tried(p.q, p.l, p.version, m, e)
TriedTo(p, k, m) == TakenFrom(p.s.lists[p.q], TriedPlaces(p, k), m, p.version)
TriedFold == INSTANCE FoldInduction WITH Op <- TriedTurn, Inv <- TriedTo

\* What the search of a level takes are entries of that level.
LEMMA TraversedIs ==
  ASSUME NEW p, p.s.lists[p.q] \in Seq(EntryRec), OneEach(p.s.lists[p.q]),
         p.P \subseteq DOMAIN p.s.lists[p.q], \A j \in p.P : p.s.lists[p.q][j].level # p.l,
         NEW m, TakenFrom(p.s.lists[p.q], p.P, m, p.version)
  PROVE  TakenFrom(p.s.lists[p.q], TriedPlaces(p, Len(p.s.lists[p.q])),
                   Traversed(p.s, p.q, p.version, m, p.l), p.version)
<1> DEFINE l == p.s.lists[p.q]
           n == Len(l)
<1>1. n \in Nat /\ DOMAIN l = 1..n
  BY Elements
<1>2. TriedTo(p, 0, m)
  <2>1. TriedPlaces(p, 0) = p.P
    BY DEF TriedPlaces
  <2> QED BY <2>1 DEF TriedTo
<1>3. \A a : \A i \in 1..n : TriedTo(p, i - 1, a) => TriedTo(p, i, TriedTurn(p, a, l[i]))
  <2> SUFFICES ASSUME NEW a, NEW i \in 1..n, TriedTo(p, i - 1, a)
               PROVE  TriedTo(p, i, TriedTurn(p, a, l[i]))
    OBVIOUS
  <2> DEFINE P == TriedPlaces(p, i - 1)
             Q == TriedPlaces(p, i)
  <2>1. TakenFrom(l, P, a, p.version)
    BY DEF TriedTo
  <2>2. P \subseteq Q /\ P \in SUBSET DOMAIN l
    BY <1>1 DEF TriedPlaces
  <2>3. CASE TriedTurn(p, a, l[i]) = a
    <3> HIDE DEF P, Q
    <3>1. TakenFrom(l, Q, a, p.version)
      BY <2>1, <2>2, SMTT(40) DEF TakenFrom
    <3> QED BY <2>3, <3>1 DEF TriedTo, Q
  <2>4. CASE TriedTurn(p, a, l[i]) # a
    <3>1. l[i].level = p.l /\ Fits(a, l[i], p.version) /\ TriedTurn(p, a, l[i]) = Took(a, l[i])
      BY <2>4 DEF TriedTurn, Tried
    <3>2. i \notin P
      BY <1>1, <3>1, SMTT(40) DEF TriedPlaces
    <3>3. Q = P \cup {i}
      BY <1>1, <3>1 DEF TriedPlaces
    <3> HIDE DEF P, Q
    <3>4. TakenFrom(l, P \cup {i}, Took(a, l[i]), p.version)
      <4>1. i \in DOMAIN l
        BY <1>1
      <4> HIDE DEF l
      <4>2. l \in Seq(EntryRec) /\ OneEach(l)
        BY DEF l
      <4> QED BY <2>1, <2>2, <3>1, <3>2, <4>1, <4>2, TookIs
    <3> QED BY <3>1, <3>3, <3>4 DEF TriedTo, Q
  <2> QED BY <2>3, <2>4
<1>4. TriedTo(p, n, TriedFold!Fold(p, m, l))
  <2> HIDE DEF l, n
  <2> QED BY <1>1, <1>2, <1>3, TriedFold!FoldLeftInv
<1>5. Traversed(p.s, p.q, p.version, m, p.l) = TriedFold!Fold(p, m, l)
  BY DEF Traversed, TriedTurn, FoldLeft, MapThenFoldSet, Max,
         TriedFold!Fold, TriedFold!Greatest
<1> QED BY <1>4, <1>5 DEF TriedTo

\* Level after level is searched: p has the state, the player who asks and the queue.
MatchLevels(p) == LevelsFrom(level_by_queue(p.s, p.c, p.q))
MatchPlaces(p, k) ==
  {j \in DOMAIN p.s.lists[p.q] : \E h \in 1..k : MatchLevels(p)[h] = p.s.lists[p.q][j].level}
MatchTurn(p, m, l) == Traversed(p.s, p.q, p.s.conn[p.c].version, m, l)
MatchTo(p, k, m) ==
  TakenFrom(p.s.lists[p.q], MatchPlaces(p, k), m, p.s.conn[p.c].version)
MatchFold == INSTANCE FoldInduction WITH Op <- MatchTurn, Inv <- MatchTo

\* What the search has taken fits together, and each entry is taken once (_anongame_match).
LEMMA MatchTakes ==
  ASSUME NEW p, AnonState(p.s), p.c \in Gamers, p.q \in AnonTypes, OneEach(p.s.lists[p.q])
  PROVE  \E m : /\ TakenFrom(p.s.lists[p.q], DOMAIN p.s.lists[p.q], m, p.s.conn[p.c].version)
                /\ _anongame_match(p.s, p.c, p.q) = m.picked
<1> DEFINE l == p.s.lists[p.q]
           level == level_by_queue(p.s, p.c, p.q)
           levels == LevelsFrom(level)
           version == p.s.conn[p.c].version
           n == Len(levels)
           none == [min |-> level - MaxDiff, max |-> level + MaxDiff, prefs |-> p.s.anon[p.c].prefs,
                    picked |-> <<>>]
<1>1. /\ p.s.lists \in [AnonTypes -> Seq(EntryRec)] /\ l \in Seq(EntryRec)
      /\ p.s.conn[p.c] \in ConnRec /\ p.s.anon[p.c] \in AnonRec
  BY AnonParts
<1>2. level \in 0..TopLevel /\ MaxDiff \in Nat /\ TopLevel \in Nat
  <2>1. p.s.conn[p.c].level \in 0..TopLevel
    BY <1>1, ConnFields
  <2> QED BY <2>1, AnonGameAssumption DEF level_by_queue
<1>3. levels \in Seq(Int) /\ IsInjective(levels) /\ MatchLevels(p) = levels
  BY <1>2, LevelsApart DEF MatchLevels
<1>4. n \in Nat /\ DOMAIN levels = 1..n
  BY <1>3
<1>5. MatchTo(p, 0, none)
  <2>1. p.s.anon[p.c].prefs \subseteq Maps
    BY <1>1, AnonFields
  <2>2. level \in Int
    BY <1>2
  <2> HIDE DEF level
  <2>3. none.min \in Int /\ none.max \in Int
    BY <1>2, <2>2
  <2>4. none.picked = <<>> /\ <<>> \in Seq(EntryRec) /\ DOMAIN none.picked = {}
    BY EmptyList
  <2>5. none.prefs \subseteq Maps
    BY <2>1
  <2> HIDE DEF none
  <2> QED BY <2>3, <2>4, <2>5 DEF MatchTo, TakenFrom, OneEach
<1>6. \A a : \A i \in 1..n : MatchTo(p, i - 1, a) => MatchTo(p, i, MatchTurn(p, a, levels[i]))
  <2> SUFFICES ASSUME NEW a, NEW i \in 1..n, MatchTo(p, i - 1, a)
               PROVE  MatchTo(p, i, MatchTurn(p, a, levels[i]))
    OBVIOUS
  <2> DEFINE P == MatchPlaces(p, i - 1)
             r == [s |-> p.s, q |-> p.q, l |-> levels[i], version |-> version, P |-> P]
  <2>1. r.s = p.s /\ r.q = p.q /\ r.l = levels[i] /\ r.version = version /\ r.P = P
    OBVIOUS
  <2> HIDE DEF r
  <2>2. P \subseteq DOMAIN l
    BY DEF MatchPlaces
  <2>3. \A j \in P : l[j].level # levels[i]
    <3> SUFFICES ASSUME NEW j \in P, l[j].level = levels[i] PROVE FALSE
      OBVIOUS
    <3>1. PICK h \in 1..(i - 1) : levels[h] = l[j].level
      BY <1>3 DEF MatchPlaces
    <3>2. h \in 1..n /\ h # i
      BY <1>4
    <3> HIDE DEF levels
    <3> QED BY <1>3, <1>4, <3>1, <3>2 DEF IsInjective
  <2> HIDE DEF P
  <2>4. TakenFrom(l, P, a, version)
    BY SMTT(40) DEF MatchTo, P
  <2> DEFINE t == Traversed(p.s, p.q, version, a, levels[i])
             Q == TriedPlaces(r, Len(l))
  <2>5. TakenFrom(l, Q, t, version)
    <3> HIDE DEF levels
    <3> QED BY <1>1, <2>1, <2>2, <2>3, <2>4, TraversedIs
  <2>6. Q \subseteq MatchPlaces(p, i)
    <3> SUFFICES ASSUME NEW j \in Q PROVE j \in MatchPlaces(p, i)
      OBVIOUS
    <3>1. DOMAIN l = 1..Len(l) /\ i \in 1..i
      BY <1>1, <1>4
    <3>2. CASE j \in P
      <4>1. PICK h \in 1..(i - 1) : levels[h] = l[j].level
        BY <1>3, <3>2 DEF P, MatchPlaces
      <4>2. h \in 1..i
        BY <1>4
      <4> QED BY <1>3, <2>2, <3>2, <4>1, <4>2 DEF MatchPlaces
    <3>3. CASE j \in 1..Len(l) /\ l[j].level = levels[i]
      BY <1>3, <3>1, <3>3 DEF MatchPlaces
    <3> HIDE DEF levels
    <3> QED BY <2>1, <3>2, <3>3 DEF TriedPlaces
  <2> HIDE DEF Q, t
  <2>7. TakenFrom(l, MatchPlaces(p, i), t, version)
    BY <2>5, <2>6 DEF TakenFrom
  <2> QED BY <2>7 DEF MatchTo, MatchTurn, t
<1> DEFINE m == MatchFold!Fold(p, none, levels)
<1>7. MatchTo(p, n, m)
  <2> HIDE DEF none, levels, n
  <2> QED BY <1>4, <1>5, <1>6, MatchFold!FoldLeftInv
<1>8. _anongame_match(p.s, p.c, p.q) = m.picked
  BY DEF _anongame_match, MatchTurn, FoldLeft, MapThenFoldSet, Max,
         MatchFold!Fold, MatchFold!Greatest
<1> HIDE DEF m
<1>9. TakenFrom(l, DOMAIN l, m, version)
  <2>1. MatchPlaces(p, n) \subseteq DOMAIN l
    BY DEF MatchPlaces
  <2> QED BY <1>7, <2>1 DEF MatchTo, TakenFrom
<1> QED BY <1>8, <1>9

\* _anongame_match.
LEMMA MatchIs ==
  ASSUME NEW s, AnonState(s), NEW c \in Gamers, NEW q \in AnonTypes, OneEach(s.lists[q])
  PROVE  LET picked == _anongame_match(s, c, q)
         IN  /\ picked \in Seq(EntryRec) /\ OneEach(picked)
             /\ \A i \in DOMAIN picked : \E j \in DOMAIN s.lists[q] : s.lists[q][j] = picked[i]
             /\ picked # <<>> => SuitsAll(ToSet(picked))
<1> DEFINE p == [s |-> s, c |-> c, q |-> q]
           l == s.lists[q]
           picked == _anongame_match(s, c, q)
           version == s.conn[c].version
<1>1. p.s = s /\ p.c = c /\ p.q = q
  OBVIOUS
<1> HIDE DEF p
<1>2. PICK m : TakenFrom(l, DOMAIN l, m, version) /\ picked = m.picked
  BY <1>1, MatchTakes
<1> HIDE DEF picked, version
<1>3. /\ picked \in Seq(EntryRec) /\ OneEach(picked)
      /\ \A i \in DOMAIN picked : \E j \in DOMAIN l : l[j] = picked[i]
  BY <1>2 DEF TakenFrom
<1>4. ASSUME picked # <<>> PROVE SuitsAll(ToSet(picked))
  <2>1. \A e \in ToSet(picked) : \E i \in DOMAIN picked : picked[i] = e
    BY <1>3, Elements
  <2>2. \A e, f \in ToSet(picked) : e.level - f.level <= MaxDiff /\ e.version = f.version
    <3> TAKE e, f \in ToSet(picked)
    <3>1. PICK i \in DOMAIN picked : picked[i] = e
      BY <2>1
    <3>2. PICK j \in DOMAIN picked : picked[j] = f
      BY <2>1
    <3>3. /\ picked[i].version = version /\ picked[j].version = version
          /\ picked[i].level - picked[j].level <= MaxDiff
      BY <1>2 DEF TakenFrom
    <3> QED BY <3>1, <3>2, <3>3
  <2>3. PICK map \in m.prefs : TRUE
    BY <1>2, <1>4 DEF TakenFrom
  <2>4. map \in Maps /\ \A e \in ToSet(picked) : map \in e.prefs
    BY <1>2, <2>1, <2>3 DEF TakenFrom
  <2> QED BY <2>2, <2>4 DEF SuitsAll
<1> QED BY <1>3, <1>4 DEF picked

-----------------------------------------------------------------------------
\* Who is matched is taken out of the queue: p has the state, the queue and the entries.
Heads(picked) == {picked[i].c : i \in DOMAIN picked}
TakeTurn(p, t, e) == anongame_unqueue(t, e.c, p.q)
TakeTo(p, k, t) ==
  /\ OtherList(p.s, t, p.q)
  /\ Fewer(p.s.lists[p.q], t.lists[p.q], {p.picked[j].c : j \in 1..k})
TakeFold == INSTANCE FoldInduction WITH Op <- TakeTurn, Inv <- TakeTo

\* Entries that are matched are no longer in the queue (_anongame_search_found).
LEMMA AllTaken ==
  ASSUME NEW p, AnonState(p.s), p.q \in AnonTypes, OneEach(p.s.lists[p.q]), p.picked \in Seq(EntryRec)
  PROVE  LET t == Unqueued(p.s, p.q, p.picked)
         IN  OtherList(p.s, t, p.q) /\ Fewer(p.s.lists[p.q], t.lists[p.q], Heads(p.picked))
<1> DEFINE n == Len(p.picked)
           l == p.s.lists[p.q]
<1>1. n \in Nat /\ DOMAIN p.picked = 1..n
  BY Elements
<1>2. TakeTo(p, 0, p.s)
  <2>1. l \in Seq(EntryRec)
    BY AnonParts
  <2>2. {p.picked[j].c : j \in 1..0} = {}
    OBVIOUS
  <2> QED BY <2>1, <2>2 DEF TakeTo, OtherList, Fewer
<1>3. \A t : \A i \in 1..n : TakeTo(p, i - 1, t) => TakeTo(p, i, TakeTurn(p, t, p.picked[i]))
  <2> SUFFICES ASSUME NEW t, NEW i \in 1..n, TakeTo(p, i - 1, t)
               PROVE  TakeTo(p, i, TakeTurn(p, t, p.picked[i]))
    OBVIOUS
  <2> DEFINE c == p.picked[i].c
             C == {p.picked[j].c : j \in 1..(i - 1)}
             D == {p.picked[j].c : j \in 1..i}
             u == anongame_unqueue(t, c, p.q)
  <2>1. OtherList(p.s, t, p.q) /\ Fewer(l, t.lists[p.q], C)
    BY DEF TakeTo
  <2>2. AnonState(t) /\ OneEach(t.lists[p.q])
    BY <2>1 DEF OtherList, Fewer
  <2>3. c \in Gamers
    <3>1. p.picked[i] \in EntryRec
      BY <1>1
    <3> QED BY <3>1 DEF EntryRec
  <2>4. D = C \cup {c}
    <3>1. \A j \in 1..i : j = i \/ j \in 1..(i - 1)
      BY <1>1
    <3>2. i \in 1..i /\ \A j \in 1..(i - 1) : j \in 1..i
      BY <1>1
    <3> QED BY <3>1, <3>2
  <2>5. OtherList(t, u, p.q) /\ Fewer(t.lists[p.q], u.lists[p.q], {c})
    <3> HIDE DEF c
    <3> QED BY <2>2, <2>3, UnqueueIs
  <2> HIDE DEF c, C, D, u
  <2>6. OtherList(p.s, u, p.q)
    BY <2>1, <2>5 DEF OtherList
  <2>7. Fewer(l, u.lists[p.q], C \cup {c})
    <3> HIDE DEF l
    <3> QED BY <2>1, <2>5, FewerStill
  <2> QED BY <2>4, <2>6, <2>7 DEF TakeTo, TakeTurn, D, u, c
<1> DEFINE t == TakeFold!Fold(p, p.s, p.picked)
<1>4. TakeTo(p, n, t)
  <2> HIDE DEF n
  <2> QED BY <1>1, <1>2, <1>3, TakeFold!FoldLeftInv
<1>5. Unqueued(p.s, p.q, p.picked) = t
  BY DEF Unqueued, TakeTurn, FoldLeft, MapThenFoldSet, Max,
         TakeFold!Fold, TakeFold!Greatest
<1> HIDE DEF t
<1> QED BY <1>1, <1>4, <1>5 DEF TakeTo, Heads

-----------------------------------------------------------------------------
\* Sorting: the place of a player is the number of those before him.
LEMMA BeforeIs ==
  ASSUME NEW s, AnonState(s), NEW l \in Seq(Gamers),
         NEW i \in DOMAIN l, NEW j \in DOMAIN l, NEW k \in DOMAIN l
  PROVE  /\ ~Before(s, l, i, i)
         /\ i # j => Before(s, l, i, j) \/ Before(s, l, j, i)
         /\ Before(s, l, i, j) /\ Before(s, l, j, k) => Before(s, l, i, k)
<1>1. i \in Int /\ j \in Int /\ k \in Int
  OBVIOUS
<1>2. l[i] \in Gamers /\ l[j] \in Gamers /\ l[k] \in Gamers
  OBVIOUS
<1>3. s.conn[l[i]].level \in Int /\ s.conn[l[j]].level \in Int /\ s.conn[l[k]].level \in Int
  <2>1. \A c \in Gamers : s.conn[c].level \in 0..TopLevel
    BY AnonParts, ConnFields
  <2> QED BY <1>2, <2>1, AnonGameAssumption
<1> QED BY <1>1, <1>3 DEF Before

\* For each place there is a player who has as many before him.
LEMMA Ranks ==
  ASSUME NEW s, AnonState(s), NEW l \in Seq(Gamers)
  PROVE  LET Rank(j) == Cardinality({i \in DOMAIN l : Before(s, l, i, j)})
         IN  \A k \in DOMAIN l : \E j \in DOMAIN l : Rank(j) = k - 1
<1> DEFINE n == Len(l)
           B(j) == {i \in DOMAIN l : Before(s, l, i, j)}
           Rank(j) == Cardinality(B(j))
           f == [j \in 1..n |-> Rank(j)]
<1>1. n \in Nat /\ DOMAIN l = 1..n /\ IsFiniteSet(1..n) /\ Cardinality(1..n) = n
  <2>1. n \in Nat /\ DOMAIN l = 1..n
    BY Elements
  <2> HIDE DEF n
  <2> QED BY <2>1, IntervalSize
<1>2. ASSUME NEW j \in 1..n
      PROVE  B(j) \in SUBSET (1..n) /\ j \notin B(j) /\ IsFiniteSet(B(j)) /\ Rank(j) \in 0..(n - 1)
  <2>1. B(j) \in SUBSET (1..n) /\ j \notin B(j)
    BY <1>1, BeforeIs
  <2> HIDE DEF B
  <2>2. B(j) \in SUBSET ((1..n) \ {j}) /\ IsFiniteSet((1..n) \ {j}) /\ Cardinality((1..n) \ {j}) = n - 1
    BY <1>1, <2>1, FS_RemoveElement, ZenonT(60)
  <2>3. IsFiniteSet(B(j)) /\ Cardinality(B(j)) <= n - 1 /\ Cardinality(B(j)) \in Nat
    BY <2>2, FS_Subset, FS_CardinalityType
  <2> QED BY <1>1, <2>1, <2>3
<1>3. ASSUME NEW i \in 1..n, NEW j \in 1..n, Before(s, l, i, j) PROVE Rank(i) < Rank(j)
  <2>1. B(i) \subseteq B(j) /\ i \in B(j) /\ i \notin B(i)
    BY <1>1, <1>3, BeforeIs
  <2> HIDE DEF B
  <2>2. IsFiniteSet(B(i)) /\ IsFiniteSet(B(j)) /\ Rank(i) \in Nat /\ Rank(j) \in Nat
    <3> HIDE DEF Rank
    <3>1. 0..(n - 1) \subseteq Nat
      BY <1>1
    <3> QED BY <1>2, <3>1
  <2>3. Cardinality(B(i)) <= Cardinality(B(j)) /\ (Cardinality(B(i)) = Cardinality(B(j)) => B(i) = B(j))
    BY <2>1, <2>2, FS_Subset
  <2> QED BY <2>1, <2>2, <2>3
<1>4. ASSUME NEW i \in 1..n, NEW j \in 1..n, Rank(i) = Rank(j) PROVE i = j
  <2> HIDE DEF Rank, B
  <2>1. Rank(i) \in Int /\ Rank(j) \in Int
    <3>1. 0..(n - 1) \subseteq Int
      BY <1>1
    <3> QED BY <1>2, <3>1
  <2>2. ~Before(s, l, i, j) /\ ~Before(s, l, j, i)
    BY <1>3, <1>4, <2>1
  <2> QED BY <1>1, <2>2, BeforeIs
<1>5. f \in [1..n -> 0..(n - 1)]
  <2> HIDE DEF Rank
  <2> QED BY <1>2
<1>6. \A i, j \in 1..n : f[i] = f[j] => i = j
  <2> HIDE DEF Rank
  <2> QED BY <1>4
<1>7. IsFiniteSet(0..(n - 1)) /\ Cardinality(0..(n - 1)) = n
  <2>1. 0 \in Int /\ n - 1 \in Int
    BY <1>1
  <2> HIDE DEF n
  <2>2. /\ IsFiniteSet(0..(n - 1))
        /\ Cardinality(0..(n - 1)) = IF 0 > n - 1 THEN 0 ELSE (n - 1) - 0 + 1
    BY <2>1, FS_Interval
  <2>3. (IF 0 > n - 1 THEN 0 ELSE (n - 1) - 0 + 1) = n
    BY <1>1
  <2> QED BY <2>2, <2>3
<1>8. \A k \in 0..(n - 1) : \E j \in 1..n : f[j] = k
  <2> HIDE DEF f
  <2>1. f \in Injection(1..n, 0..(n - 1))
    BY <1>5, <1>6 DEF Injection, IsInjective
  <2>2. f \in Surjection(1..n, 0..(n - 1))
    BY <1>1, <1>7, <2>1, FS_Injection
  <2> QED BY <2>2 DEF Surjection
<1>9. ASSUME NEW k \in 1..n PROVE \E j \in 1..n : Rank(j) = k - 1
  <2>1. k - 1 \in 0..(n - 1)
    BY <1>1
  <2> HIDE DEF Rank
  <2> QED BY <1>8, <2>1
<1> QED BY <1>1, <1>9

\* A list is a function on the first numbers.
LEMMA ListOf ==
  ASSUME NEW S, NEW n \in Nat, NEW f \in [1..n -> S]
  PROVE  f \in Seq(S) /\ Len(f) = n
OBVIOUS

\* The sorted list has the same players.
LEMMA ByLevelIs ==
  ASSUME NEW s, AnonState(s), NEW l \in Seq(Gamers), IsInjective(l)
  PROVE  LET m == ByLevel(s, l)
         IN  m \in Seq(Gamers) /\ DOMAIN m = DOMAIN l /\ IsInjective(m) /\ ToSet(m) \subseteq ToSet(l)
<1> DEFINE Rank(j) == Cardinality({i \in DOMAIN l : Before(s, l, i, j)})
           f(k) == CHOOSE j \in DOMAIN l : Rank(j) = k - 1
           m == ByLevel(s, l)
<1>1. DOMAIN l = 1..Len(l) /\ Len(l) \in Nat
  OBVIOUS
<1>2. m = [k \in DOMAIN l |-> l[f(k)]]
  BY DEF ByLevel
<1>3. \A k \in DOMAIN l : \E j \in DOMAIN l : Rank(j) = k - 1
  BY Ranks
<1> HIDE DEF Rank, m
<1>4. \A k \in DOMAIN l : f(k) \in DOMAIN l /\ Rank(f(k)) = k - 1
  BY <1>3
<1> HIDE DEF f
<1>5. \A k, h \in DOMAIN l : f(k) = f(h) => k = h
  <2> TAKE k, h \in DOMAIN l
  <2> HAVE f(k) = f(h)
  <2>1. k - 1 = h - 1
    BY <1>4
  <2> QED BY <1>1, <2>1
<1>6. DOMAIN m = DOMAIN l /\ \A k \in DOMAIN l : m[k] = l[f(k)]
  BY <1>2
<1>7. m \in Seq(Gamers)
  <2>1. m \in [1..Len(l) -> Gamers]
    BY <1>1, <1>2, <1>4
  <2> QED BY <1>1, <2>1
<1>8. IsInjective(m)
  BY <1>4, <1>5, <1>6 DEF IsInjective
<1>9. ToSet(m) \subseteq ToSet(l)
  BY <1>4, <1>6 DEF ToSet
<1> QED BY <1>6, <1>7, <1>8, <1>9 DEF m

\* The players of an entry.
PlayersOf(conn, q, c) == IF anongame_arranged(q) THEN TeamOf(conn, c) ELSE {c}

\* A seat for each player of the entries of a full game, and none for others.
LEMMA SeatingIs ==
  ASSUME NEW s, AnonState(s), TeamsInv(s.conn),
         NEW q \in AnonTypes, NEW picked \in Seq(EntryRec),
         OneEach(picked), \A i \in DOMAIN picked : Waits(s.conn, s.anon, q, picked[i].c),
         PerEntry(q) * Len(picked) = totalplayers(q)
  PROVE  LET seats == Seating(s, q, picked)
         IN  /\ seats \in Seq(Gamers) /\ IsInjective(seats) /\ Len(seats) > 0
             /\ \A k \in DOMAIN seats :
                  \E i \in DOMAIN picked : seats[k] \in PlayersOf(s.conn, q, picked[i].c)
<1> DEFINE seats == Seating(s, q, picked)
           n == Len(picked)
<1>1. n \in Nat /\ DOMAIN picked = 1..n /\ \A i \in 1..n : picked[i] \in EntryRec /\ picked[i].c \in Gamers
  <2>1. n \in Nat /\ DOMAIN picked = 1..n /\ \A i \in 1..n : picked[i] \in EntryRec
    BY Elements
  <2>2. \A e \in EntryRec : e.c \in Gamers
    BY DEF EntryRec
  <2> QED BY <2>1, <2>2
<1>2. CASE ~anongame_arranged(q)
  <2> DEFINE l == [k \in DOMAIN picked |-> picked[k].c]
             m == ByLevel(s, l)
  <2>1. n = totalplayers(q) /\ n \in {2, 4}
    BY <1>1, <1>2 DEF PerEntry, totalplayers
  <2>2. l \in Seq(Gamers) /\ DOMAIN l = 1..n /\ IsInjective(l) /\ \A k \in 1..n : l[k] = picked[k].c
    <3>1. l \in [1..n -> Gamers]
      BY <1>1
    <3>2. IsInjective(l)
      BY <1>1 DEF IsInjective, OneEach
    <3> QED BY <1>1, <3>1, <3>2
  <2> HIDE DEF l
  <2>3. m \in Seq(Gamers) /\ DOMAIN m = DOMAIN l /\ IsInjective(m) /\ ToSet(m) \subseteq ToSet(l)
    BY <2>2, ByLevelIs
  <2>4. seats = _anongame_order_queue(q, m)
    BY <1>2 DEF Seating, l
  <2> HIDE DEF m, n
  <2>5. Len(m) = n
    BY <1>1, <2>2, <2>3
  <2>6. \A k \in 1..n : \E i \in 1..n : m[k] = picked[i].c
    <3> TAKE k \in 1..n
    <3>1. m[k] \in ToSet(m)
      BY <2>2, <2>3 DEF ToSet
    <3>2. m[k] \in ToSet(l)
      BY <2>3, <3>1
    <3> QED BY <2>2, <3>2 DEF ToSet
  <2>7. CASE totalteams(q) # 2
    <3>1. seats = m
      BY <2>4, <2>7 DEF _anongame_order_queue
    <3> HIDE DEF seats
    <3>2. \A k \in DOMAIN seats : \E i \in DOMAIN picked : seats[k] \in PlayersOf(s.conn, q, picked[i].c)
      BY <1>1, <1>2, <2>2, <2>3, <2>6, <3>1 DEF PlayersOf
    <3>3. Len(seats) > 0
      BY <2>1, <2>5, <3>1
    <3> QED BY <2>3, <3>1, <3>2, <3>3 DEF seats
  <2>8. CASE totalteams(q) = 2
    <3>1. n = 4
      BY <2>1, <2>8 DEF totalplayers, totalteams
    <3>2. seats = <<m[1], m[2], m[4], m[3]>>
      BY <2>4, <2>8 DEF _anongame_order_queue
    <3> HIDE DEF seats
    <3>3. m[1] \in Gamers /\ m[2] \in Gamers /\ m[3] \in Gamers /\ m[4] \in Gamers
      <4>1. 1 \in 1..4 /\ 2 \in 1..4 /\ 3 \in 1..4 /\ 4 \in 1..4
        OBVIOUS
      <4>2. \A k \in 1..4 : m[k] \in Gamers
        <5>1. \A k \in 1..Len(m) : m[k] \in Gamers
          BY <2>3, Elements
        <5> QED BY <2>5, <3>1, <5>1
      <4> QED BY <4>1, <4>2
    <3>4. /\ m[1] # m[2] /\ m[1] # m[3] /\ m[1] # m[4] /\ m[2] # m[3] /\ m[2] # m[4] /\ m[3] # m[4]
      BY <2>2, <2>3, <3>1 DEF IsInjective
    <3>5. seats \in Seq(Gamers) /\ Len(seats) = 4 /\ DOMAIN seats = 1..4
      BY <3>2, <3>3
    <3>6. seats[1] = m[1] /\ seats[2] = m[2] /\ seats[3] = m[4] /\ seats[4] = m[3]
      BY <3>2
    <3>7. \A k \in 1..4 : k = 1 \/ k = 2 \/ k = 3 \/ k = 4
      OBVIOUS
    <3>8. IsInjective(seats)
      BY <3>4, <3>5, <3>6, <3>7 DEF IsInjective
    <3>9. \A k \in DOMAIN seats : \E i \in DOMAIN picked : seats[k] \in PlayersOf(s.conn, q, picked[i].c)
      <4> TAKE k \in DOMAIN seats
      <4>1. \E j \in 1..n : seats[k] = m[j]
        BY <3>1, <3>5, <3>6, <3>7
      <4> QED BY <1>1, <1>2, <2>6, <4>1, ZenonT(60) DEF PlayersOf
    <3> QED BY <3>5, <3>8, <3>9 DEF seats
  <2> QED BY <2>7, <2>8
<1>3. CASE anongame_arranged(q)
  <2> DEFINE g == picked[1].c
             h == picked[2].c
             u == s.conn[g].team
             v == s.conn[h].team
  <2>1. totalplayers(q) = 4 /\ totalteams(q) = 2
    BY <1>3 DEF anongame_arranged, totalplayers, totalteams
  <2>2. n = 2
    <3>1. PerEntry(q) = 2
      <4>1. 4 \div 2 = 2
        OBVIOUS
      <4> QED BY <1>3, <2>1, <4>1 DEF PerEntry
    <3> QED BY <1>1, <2>1, <3>1
  <2>3. g \in Gamers /\ h \in Gamers /\ g # h /\ 1 \in DOMAIN picked /\ 2 \in DOMAIN picked
    BY <1>1, <2>2 DEF OneEach
  <2> HIDE DEF n
  <2>4. Waits(s.conn, s.anon, q, g) /\ Waits(s.conn, s.anon, q, h)
    BY <2>3
  <2>5. seats = [k \in 1..4 |-> s.anon[picked[((k - 1) % 2) + 1].c].tc[((k - 1) \div 2) + 1]]
    BY <1>3, <2>1 DEF Seating
  <2> HIDE DEF seats
  <2>6. /\ seats[1] = s.anon[g].tc[1] /\ seats[2] = s.anon[h].tc[1]
        /\ seats[3] = s.anon[g].tc[2] /\ seats[4] = s.anon[h].tc[2] /\ DOMAIN seats = 1..4
    <3>1. /\ ((1 - 1) % 2) + 1 = 1 /\ ((1 - 1) \div 2) + 1 = 1
          /\ ((2 - 1) % 2) + 1 = 2 /\ ((2 - 1) \div 2) + 1 = 1
          /\ ((3 - 1) % 2) + 1 = 1 /\ ((3 - 1) \div 2) + 1 = 2
          /\ ((4 - 1) % 2) + 1 = 2 /\ ((4 - 1) \div 2) + 1 = 2
      BY SMTT(40)
    <3>2. 1 \in 1..4 /\ 2 \in 1..4 /\ 3 \in 1..4 /\ 4 \in 1..4
      OBVIOUS
    <3> QED BY <2>5, <3>1, <3>2
  <2> HIDE DEF g, h
  <2>7. ASSUME NEW c \in {g, h}
        PROVE  /\ c \in Gamers /\ s.conn[c].team # <<>> /\ c = Head(s.conn[c].team) /\ IsOn(s.conn, c)
               /\ s.anon[c].tc = s.conn[c].team
               /\ s.conn[c].team \in Seq(Gamers) /\ DOMAIN s.conn[c].team = {1, 2}
               /\ TeamOf(s.conn, c) = {s.conn[c].team[1], s.conn[c].team[2]}
               /\ s.conn[c].team[1] \in Gamers /\ s.conn[c].team[2] \in Gamers
               /\ s.conn[c].team[1] # s.conn[c].team[2]
    <3>1. c \in Gamers
      BY <2>3
    <3>2. /\ s.conn[c].team # <<>> /\ c = Head(s.conn[c].team)
          /\ \A d \in TeamOf(s.conn, c) : s.conn[d].cl = "search" /\ s.anon[d].tc = s.conn[c].team
      BY <1>3, <2>4 DEF Waits, Waiting
    <3>3. /\ s.conn[c].team \in Seq(Gamers) /\ DOMAIN s.conn[c].team = {1, 2}
          /\ TeamOf(s.conn, c) = {s.conn[c].team[1], s.conn[c].team[2]}
          /\ Head(s.conn[c].team) \in TeamOf(s.conn, c)
      BY <3>1, <3>2, TeamsAre
    <3>4. s.conn[c].cl = "search" /\ s.anon[c].tc = s.conn[c].team
      BY <3>2, <3>3
    <3>5. IsInjective(s.conn[c].team)
      BY <3>1, <3>2 DEF TeamsInv
    <3>6. s.conn[c].team[1] # s.conn[c].team[2]
      BY <3>3, <3>5 DEF IsInjective
    <3> QED BY <3>1, <3>2, <3>3, <3>4, <3>6 DEF IsOn
  <2>8. /\ u[1] \in Gamers /\ u[2] \in Gamers /\ u[1] # u[2] /\ TeamOf(s.conn, g) = {u[1], u[2]}
        /\ v[1] \in Gamers /\ v[2] \in Gamers /\ v[1] # v[2] /\ TeamOf(s.conn, h) = {v[1], v[2]}
        /\ s.anon[g].tc = u /\ s.anon[h].tc = v
    BY <2>7
  <2>9. {u[1], u[2]} \cap {v[1], v[2]} = {}
    <3>1. Same(s.conn, g, h) \/ Apart(s.conn, g, h)
      BY <2>3, <2>7 DEF TeamsInv
    <3>2. ~Same(s.conn, g, h)
      BY <2>3, <2>7 DEF Same
    <3>3. ({g} \cup TeamOf(s.conn, g)) \cap ({h} \cup TeamOf(s.conn, h)) = {}
      BY <3>1, <3>2 DEF Apart
    <3> QED BY <2>8, <3>3
  <2> HIDE DEF u, v
  <2>10. seats[1] = u[1] /\ seats[2] = v[1] /\ seats[3] = u[2] /\ seats[4] = v[2]
    BY <2>6, <2>8
  <2>11. \A k \in 1..4 : k = 1 \/ k = 2 \/ k = 3 \/ k = 4
    OBVIOUS
  <2>12. seats \in Seq(Gamers) /\ Len(seats) = 4
    <3>1. \A k \in 1..4 : seats[k] \in Gamers
      BY <2>8, <2>10, <2>11
    <3>2. seats \in [1..4 -> Gamers]
      BY <2>5, <3>1
    <3> QED BY <3>2, ListOf, ZenonT(60)
  <2>13. IsInjective(seats)
    <3>1. /\ seats[1] # seats[2] /\ seats[1] # seats[3] /\ seats[1] # seats[4]
          /\ seats[2] # seats[3] /\ seats[2] # seats[4] /\ seats[3] # seats[4]
      BY <2>8, <2>9, <2>10, ZenonT(60)
    <3> QED BY <2>6, <2>11, <3>1 DEF IsInjective
  <2>14. \A k \in DOMAIN seats : \E i \in DOMAIN picked : seats[k] \in PlayersOf(s.conn, q, picked[i].c)
    <3> TAKE k \in DOMAIN seats
    <3>1. seats[k] \in TeamOf(s.conn, g) \/ seats[k] \in TeamOf(s.conn, h)
      BY <2>6, <2>8, <2>10, <2>11
    <3> QED BY <1>3, <2>3, <3>1 DEF PlayersOf, g, h
  <2> QED BY <2>12, <2>13, <2>14 DEF seats
<1> QED BY <1>2, <1>3

-----------------------------------------------------------------------------
\* An entry for players of whom nothing changes.
LEMMA WaitsApart ==
  ASSUME NEW conn, NEW anon, NEW conn2, NEW anon2, NEW q, NEW c \in Gamers,
         \A d \in Gamers : conn2[d].team = conn[d].team,
         \A d \in PlayersOf(conn, q, c) : conn2[d].cl = conn[d].cl /\ anon2[d] = anon[d],
         Waits(conn, anon, q, c)
  PROVE  Waits(conn2, anon2, q, c)
<1>1. conn2[c].team = conn[c].team /\ TeamOf(conn2, c) = TeamOf(conn, c)
  BY DEF TeamOf
<1>2. CASE anongame_arranged(q)
  <2>1. \A d \in TeamOf(conn, c) : conn2[d].cl = conn[d].cl /\ anon2[d] = anon[d]
    BY <1>2 DEF PlayersOf
  <2> QED BY <1>1, <1>2, <2>1 DEF Waits, Waiting
<1>3. CASE ~anongame_arranged(q)
  <2>1. conn2[c].cl = conn[c].cl /\ anon2[c] = anon[c]
    BY <1>3 DEF PlayersOf
  <2> QED BY <1>1, <1>3, <2>1 DEF Waits, Waiting
<1> QED BY <1>2, <1>3

\* Whom an entry is for waits.
LEMMA PlayersWait ==
  ASSUME NEW conn, NEW anon, NEW q, NEW c, Waits(conn, anon, q, c), NEW d \in PlayersOf(conn, q, c)
  PROVE  Waiting(conn, anon, q, d)
BY DEF Waits, PlayersOf

\* Nobody waits in two entries.
LEMMA EntriesApart ==
  ASSUME NEW s, AnonState(s), TeamsInv(s.conn), NEW q, NEW r, NEW c \in Gamers, NEW d \in Gamers,
         Waits(s.conn, s.anon, q, c), Waits(s.conn, s.anon, r, d), q # r \/ c # d
  PROVE  PlayersOf(s.conn, q, c) \cap PlayersOf(s.conn, r, d) = {}
<1>1. CASE q # r
  BY <1>1, PlayersWait DEF Waiting
<1>2. CASE q = r /\ c # d /\ ~anongame_arranged(q)
  BY <1>2 DEF PlayersOf
<1>3. CASE q = r /\ c # d /\ anongame_arranged(q)
  <2>1. /\ s.conn[c].team # <<>> /\ c = Head(s.conn[c].team)
        /\ s.conn[d].team # <<>> /\ d = Head(s.conn[d].team)
    BY <1>3 DEF Waits
  <2>2. c \in TeamOf(s.conn, c) /\ d \in TeamOf(s.conn, d)
    BY <2>1, TeamsAre
  <2>3. IsOn(s.conn, c) /\ IsOn(s.conn, d)
    BY <1>3, <2>2 DEF Waits, Waiting, IsOn
  <2>4. Same(s.conn, c, d) \/ Apart(s.conn, c, d)
    BY <1>3, <2>3 DEF TeamsInv
  <2>5. ~Same(s.conn, c, d)
    BY <1>3, <2>1 DEF Same
  <2> QED BY <1>3, <2>4, <2>5 DEF PlayersOf, Apart
<1> QED BY <1>1, <1>2, <1>3

\* A game that has just been made.
LEMMA NewGame ==
  ASSUME NEW q \in AnonTypes, NEW seats \in Seq(Gamers), IsInjective(seats), Len(seats) > 0,
         NEW made \in SUBSET EntryRec
  PROVE  LET nothing == [k \in DOMAIN seats |-> <<>>]
             J == [NoInfo EXCEPT !.queue = q, !.player = seats, !.account = seats,
                                 !.cur = Len(seats), !.results = nothing, !.told = nothing,
                                 !.made = made]
         IN  /\ J \in InfoRec /\ J.player = seats /\ J.account = seats /\ J.cur = Len(seats)
             /\ J.results = J.told /\ J.told = nothing /\ J.made = made /\ J.times = 0 /\ ~J.ready
             /\ Taken(J) = DOMAIN seats /\ J.cur = Cardinality(Taken(J)) /\ J.cur > 0
<1> DEFINE nothing == [k \in DOMAIN seats |-> <<>>]
           J == [NoInfo EXCEPT !.queue = q, !.player = seats, !.account = seats,
                               !.cur = Len(seats), !.results = nothing, !.told = nothing,
                               !.made = made]
<1>1. DOMAIN seats = 1..Len(seats) /\ Len(seats) \in Nat /\ \A k \in 1..Len(seats) : seats[k] \in Gamers
  BY Elements
<1>2. seats \in Seq(Gamers \cup {None})
  <2>1. ToSet(seats) \subseteq Gamers \cup {None}
    BY Elements
  <2> QED BY <2>1, Retyped
<1>3. nothing \in Seq(Report)
  <2>1. nothing \in [1..Len(seats) -> Report]
    BY <1>1 DEF Report
  <2> QED BY <1>1, <2>1, ListOf
<1> HIDE DEF nothing
<1>4. /\ J \in InfoRec /\ J.player = seats /\ J.account = seats /\ J.cur = Len(seats)
      /\ J.results = nothing /\ J.told = nothing /\ J.made = made /\ J.times = 0 /\ ~J.ready
  BY <1>1, <1>2, <1>3, ZenonT(60) DEF NoInfo, InfoRec
<1> HIDE DEF J
<1>5. Taken(J) = DOMAIN seats
  BY <1>1, <1>4, Words DEF Taken
<1>6. Cardinality(1..Len(seats)) = Len(seats)
  <2> DEFINE n == Len(seats)
  <2>1. n \in Nat
    BY <1>1
  <2> HIDE DEF n
  <2>2. Cardinality(1..n) = IF 1 > n THEN 0 ELSE n - 1 + 1
    BY <2>1, FS_Interval
  <2>3. (IF 1 > n THEN 0 ELSE n - 1 + 1) = n
    BY <2>1
  <2> QED BY <2>2, <2>3 DEF n
<1> QED BY <1>1, <1>4, <1>5, <1>6 DEF J, nothing

\* _anongame_search_found.
LEMMA FoundGood ==
  ASSUME NEW s, Sound(s, None), RoutesInv(s.anon, s.route), AskedInv(s.conn, s.anon), s.ended = NotEnded,
         FreeInfos(s) # {}, NEW q \in AnonTypes, NEW picked \in Seq(EntryRec), OneEach(picked),
         \A i \in DOMAIN picked : \E j \in DOMAIN s.lists[q] : s.lists[q][j] = picked[i],
         SuitsAll(ToSet(picked)), PerEntry(q) * Len(picked) = totalplayers(q)
  PROVE  Good(_anongame_search_found(s, q, picked))
<1> DEFINE seats == Seating(s, q, picked)
           g == CHOOSE i \in FreeInfos(s) : \A j \in FreeInfos(s) : i <= j
           Seat(c) == CHOOSE k \in DOMAIN seats : seats[k] = c
           gone == Unqueued(s, q, picked)
           nothing == [k \in DOMAIN seats |-> <<>>]
           J == [NoInfo EXCEPT !.queue = q, !.player = seats, !.account = seats,
                               !.cur = Len(seats), !.results = nothing, !.told = nothing,
                               !.made = ToSet(picked)]
           D == ToSet(seats)
           A == [c \in Gamers |-> IF c \in D THEN [gone.anon[c] EXCEPT !.info = g, !.num = Seat(c)]
                                  ELSE gone.anon[c]]
           C == [c \in Gamers |-> IF c \in D /\ gone.conn[c].cl = "search"
                                  THEN [gone.conn[c] EXCEPT !.cl = "found"] ELSE gone.conn[c]]
           r == [gone EXCEPT !.infos[g] = J, !.anon = A, !.conn = C]
<1>1. _anongame_search_found(s, q, picked) = r
  BY DEF _anongame_search_found
<1>2. /\ AnonState(s) /\ TeamsInv(s.conn) /\ ClientsInv(s.conn, s.anon)
      /\ (\A p \in AnonTypes : QueueInv(s.conn, s.anon, p, s.lists[p]))
      /\ GamesInv(s.infos, s.anon, s.route, None)
      /\ s.conn \in [Gamers -> ConnRec] /\ s.anon \in [Gamers -> AnonRec]
      /\ s.route \in [Gamers -> BOOLEAN] /\ s.lists \in [AnonTypes -> Seq(EntryRec)]
      /\ s.infos \in [AnonGames -> InfoRec]
  BY AnonParts DEF Sound
<1>3. g \in AnonGames /\ s.infos[g] = NoInfo
  <2>1. FreeInfos(s) \subseteq Nat
    BY AnonGameAssumption DEF FreeInfos, AnonGames
  <2>2. \E i \in FreeInfos(s) : \A j \in FreeInfos(s) : i <= j
    BY <2>1, NatMin
  <2>3. g \in FreeInfos(s)
    BY <2>2
  <2> QED BY <2>3 DEF FreeInfos
<1>4. \A i \in DOMAIN picked : Waits(s.conn, s.anon, q, picked[i].c)
  BY <1>2 DEF QueueInv
<1>5. /\ seats \in Seq(Gamers) /\ IsInjective(seats) /\ Len(seats) > 0
      /\ \A k \in DOMAIN seats :
           \E i \in DOMAIN picked : seats[k] \in PlayersOf(s.conn, q, picked[i].c)
  BY <1>2, <1>4, SeatingIs
<1>6. OtherList(s, gone, q) /\ Fewer(s.lists[q], gone.lists[q], Heads(picked))
  <2> DEFINE p == [s |-> s, q |-> q, picked |-> picked]
  <2>1. p.s = s /\ p.q = q /\ p.picked = picked
    OBVIOUS
  <2>2. OneEach(s.lists[q])
    BY <1>2 DEF QueueInv
  <2> HIDE DEF p
  <2>3. LET t == Unqueued(p.s, p.q, p.picked)
        IN  OtherList(p.s, t, p.q) /\ Fewer(p.s.lists[p.q], t.lists[p.q], Heads(p.picked))
    BY <1>2, <2>1, <2>2, AllTaken
  <2> QED BY <2>1, <2>3
<1> HIDE DEF seats, g, gone
<1>7. /\ gone.conn = s.conn /\ gone.anon = s.anon /\ gone.route = s.route /\ gone.infos = s.infos
      /\ gone.ended = s.ended /\ AnonState(gone)
      /\ \A p \in AnonTypes \ {q} : gone.lists[p] = s.lists[p]
  BY <1>6 DEF OtherList
<1>8. \A d \in D : Seat(d) \in DOMAIN seats /\ seats[Seat(d)] = d
  BY DEF ToSet
<1>9. ASSUME NEW k \in DOMAIN seats
      PROVE  seats[k] \in D /\ Seat(seats[k]) = k
  BY <1>5 DEF IsInjective, ToSet
<1>10. \A d \in D : d \in Gamers /\ Seat(d) \in Nat
  BY <1>5, <1>8, Elements
<1> HIDE DEF Seat, D
<1>11. ASSUME NEW d \in D
       PROVE  /\ \E i \in DOMAIN picked : d \in PlayersOf(s.conn, q, picked[i].c)
              /\ s.conn[d].cl = "search" /\ s.anon[d].queue = q /\ s.anon[d].info = 0
  <2>1. PICK i \in DOMAIN picked : d \in PlayersOf(s.conn, q, picked[i].c)
    BY <1>5, <1>8
  <2> QED BY <1>4, <2>1, PlayersWait DEF Waiting
<1>12. ToSet(picked) \subseteq EntryRec
  BY Elements
<1>13. /\ J \in InfoRec /\ J.player = seats /\ J.account = seats /\ J.cur = Len(seats)
       /\ J.results = J.told /\ J.told = nothing /\ J.made = ToSet(picked) /\ J.times = 0 /\ ~J.ready
       /\ Taken(J) = DOMAIN seats /\ J.cur = Cardinality(Taken(J)) /\ J.cur > 0
  BY <1>5, <1>12, NewGame, ZenonT(60)
<1> HIDE DEF J
<1>14. ASSUME NEW d \in Gamers
       PROVE  /\ A[d] \in AnonRec /\ A[d].queue = s.anon[d].queue /\ A[d].tid = s.anon[d].tid
              /\ A[d].tc = s.anon[d].tc
              /\ d \in D => A[d].info = g /\ A[d].num = Seat(d)
              /\ d \notin D => A[d] = s.anon[d]
  <2>1. s.anon[d] \in AnonRec
    BY <1>2
  <2>2. A[d] = IF d \in D THEN [s.anon[d] EXCEPT !.info = g, !.num = Seat(d)] ELSE s.anon[d]
    BY <1>7
  <2> HIDE DEF A
  <2> QED BY <1>3, <1>10, <2>1, <2>2, ZenonT(60) DEF AnonRec
<1>15. ASSUME NEW d \in Gamers
       PROVE  /\ C[d] \in ConnRec /\ C[d].team = s.conn[d].team /\ C[d].tried = s.conn[d].tried
              /\ d \in D => C[d].cl = "found"
              /\ d \notin D => C[d] = s.conn[d]
  <2>1. s.conn[d] \in ConnRec
    BY <1>2
  <2>2. C[d] = IF d \in D THEN [s.conn[d] EXCEPT !.cl = "found"] ELSE s.conn[d]
    BY <1>7, <1>11
  <2> HIDE DEF C
  <2> QED BY <2>1, <2>2 DEF ConnRec
<1>16. A \in [Gamers -> AnonRec] /\ C \in [Gamers -> ConnRec]
  <2>1. A = [c \in Gamers |-> A[c]] /\ C = [c \in Gamers |-> C[c]]
    OBVIOUS
  <2> HIDE DEF A, C
  <2> QED BY <1>14, <1>15, <2>1
<1> HIDE DEF A, C, nothing
<1>17. /\ AnonState(r) /\ r.conn = C /\ r.anon = A /\ r.route = s.route /\ r.lists = gone.lists
       /\ r.ended = NotEnded /\ r.infos[g] = J /\ \A h \in AnonGames \ {g} : r.infos[h] = s.infos[h]
  BY <1>2, <1>3, <1>7, <1>13, <1>16 DEF AnonState
<1> HIDE DEF r
<1>18. ClientsInv(r.conn, r.anon)
  <2> SUFFICES ASSUME NEW c \in Gamers PROVE ClientInv(C, A[c], c)
    BY <1>17 DEF ClientsInv
  <2>1. ClientInv(s.conn, s.anon[c], c)
    BY <1>2 DEF ClientsInv
  <2>2. TeamOf(C, c) = TeamOf(s.conn, c)
    BY <1>15 DEF TeamOf
  <2>3. CASE c \in D
    <3>1. /\ s.conn[c].cl = "search" /\ s.anon[c].queue = q /\ q # None /\ C[c].cl = "found"
          /\ A[c].info = g /\ g # 0
      BY <1>3, <1>11, <1>14, <1>15, <2>3, Words, AnonGameAssumption DEF AnonGames
    <3> QED BY <1>14, <1>15, <2>1, <2>2, <3>1 DEF ClientInv
  <2>4. CASE c \notin D
    BY <1>14, <1>15, <2>1, <2>2, <2>4 DEF ClientInv
  <2> QED BY <2>3, <2>4
<1>19. \A d \in Gamers : IsOn(C, d) = IsOn(s.conn, d) /\ TeamOf(C, d) = TeamOf(s.conn, d)
  <2> TAKE d \in Gamers
  <2>1. TeamOf(C, d) = TeamOf(s.conn, d)
    BY <1>15 DEF TeamOf
  <2>2. CASE d \in D
    BY <1>11, <1>15, <2>1, <2>2 DEF IsOn
  <2>3. CASE d \notin D
    BY <1>15, <2>1, <2>3 DEF IsOn
  <2> QED BY <2>2, <2>3
<1>20. TeamsInv(C)
  <2>1. \A c \in Gamers : C[c].team # <<>> => IsInjective(C[c].team) /\ c \in TeamOf(C, c)
    BY <1>2, <1>15, <1>19 DEF TeamsInv
  <2>2. \A c, d \in Gamers : IsOn(C, c) /\ IsOn(C, d) /\ c # d => Same(C, c, d) \/ Apart(C, c, d)
    BY <1>2, <1>15, <1>19 DEF TeamsInv, Same, Apart
  <2>3. ASSUME NEW c \in Gamers, NEW d \in Gamers, IsOn(C, c), d \in TeamOf(C, c), C[d].cl = "found"
        PROVE  C[c].tried
    <3>1. IsOn(s.conn, c) /\ d \in TeamOf(s.conn, c) /\ C[c].tried = s.conn[c].tried
      BY <1>15, <1>19, <2>3
    <3>2. CASE d \notin D
      <4>1. s.conn[d].cl = "found"
        BY <1>15, <2>3, <3>2
      <4> QED BY <1>2, <3>1, <4>1 DEF TeamsInv
    <3>3. CASE d \in D
      <4>1. PICK i \in DOMAIN picked : d \in PlayersOf(s.conn, q, picked[i].c)
        BY <1>11, <3>3
      <4> DEFINE h == picked[i].c
      <4>2. h \in Gamers /\ Waits(s.conn, s.anon, q, h)
        <5>1. picked[i] \in EntryRec
          BY Elements
        <5>2. h \in Gamers
          BY <5>1 DEF EntryRec
        <5> QED BY <1>4, <5>2
      <4> HIDE DEF h
      <4>3. d \in PlayersOf(s.conn, q, h)
        BY <4>1 DEF h
      <4>4. s.conn[d].cl = "search" /\ IsOn(s.conn, d)
        BY <1>11, <3>3 DEF IsOn
      <4>5. s.conn[c].team # <<>>
        BY <3>1, EmptyList DEF TeamOf
      <4>6. c = d \/ Same(s.conn, c, d)
        <5>1. c # d => Same(s.conn, c, d) \/ Apart(s.conn, c, d)
          BY <1>2, <3>1, <4>4 DEF TeamsInv
        <5> QED BY <3>1, <5>1 DEF Apart
      <4>7. CASE c = d
        BY <1>2, <3>1, <4>4, <4>7 DEF ClientsInv, ClientInv
      <4>8. CASE c # d
        <5>1. s.conn[d].team = s.conn[c].team /\ s.conn[d].team # <<>>
          BY <4>5, <4>6, <4>8 DEF Same
        <5>2. anongame_arranged(q)
          <6> SUFFICES ASSUME ~anongame_arranged(q) PROVE FALSE
            OBVIOUS
          <6>1. d = h /\ s.conn[h].team = <<>>
            BY <4>2, <4>3 DEF PlayersOf, Waits
          <6> QED BY <5>1, <6>1
        <5>3. s.conn[h].team # <<>> /\ h = Head(s.conn[h].team) /\ d \in TeamOf(s.conn, h)
          BY <4>2, <4>3, <5>2 DEF Waits, PlayersOf
        <5>4. IsOn(s.conn, h)
          <6>1. h \in TeamOf(s.conn, h)
            BY <1>2, <4>2, <5>3, TeamsAre
          <6> QED BY <4>2, <5>2, <6>1 DEF Waits, Waiting, IsOn
        <5>5. TeamOf(s.conn, h) = TeamOf(s.conn, d)
          <6>1. h # d => Same(s.conn, h, d) \/ Apart(s.conn, h, d)
            BY <1>2, <4>2, <4>4, <5>4 DEF TeamsInv
          <6> QED BY <5>3, <6>1 DEF Same, Apart, TeamOf
        <5>6. c \in TeamOf(s.conn, h)
          <6>1. c \in TeamOf(s.conn, c)
            BY <1>2, <4>5 DEF TeamsInv
          <6> QED BY <5>1, <5>5, <6>1 DEF TeamOf
        <5>7. s.conn[c].cl = "search"
          BY <4>2, <5>2, <5>6 DEF Waits, Waiting
        <5> QED BY <1>2, <3>1, <5>7 DEF ClientsInv, ClientInv
      <4> QED BY <4>7, <4>8
    <3> QED BY <3>2, <3>3
  <2> QED BY <2>1, <2>2, <2>3 DEF TeamsInv
<1>21. \A p \in AnonTypes : QueueInv(r.conn, r.anon, p, r.lists[p])
  <2> TAKE p \in AnonTypes
  <2> DEFINE l == s.lists[p]
             m == r.lists[p]
  <2>1. /\ OneEach(m) /\ \A i \in DOMAIN m : \E j \in DOMAIN l : l[j] = m[i]
        /\ p = q => \A i \in DOMAIN m : m[i].c \notin Heads(picked)
    <3>1. CASE p = q
      BY <1>6, <1>17, <3>1 DEF Fewer
    <3>2. CASE p # q
      <4>1. m = l
        BY <1>7, <1>17, <3>2
      <4> QED BY <1>2, <3>2, <4>1 DEF QueueInv
    <3> QED BY <3>1, <3>2
  <2>2. ASSUME NEW i \in DOMAIN m PROVE Waits(C, A, p, m[i].c)
    <3> DEFINE c == m[i].c
    <3>1. PICK j \in DOMAIN l : l[j] = m[i]
      BY <2>1
    <3>2. c \in Gamers /\ Waits(s.conn, s.anon, p, c)
      <4>1. l[j] \in EntryRec
        BY <1>2, Elements
      <4>2. c \in Gamers
        BY <3>1, <4>1 DEF EntryRec
      <4> QED BY <1>2, <3>1, <4>2 DEF QueueInv
    <3> HIDE DEF c
    <3>3. PlayersOf(s.conn, p, c) \cap D = {}
      <4> SUFFICES ASSUME NEW d \in D, d \in PlayersOf(s.conn, p, c) PROVE FALSE
        OBVIOUS
      <4>1. PICK k \in DOMAIN picked : d \in PlayersOf(s.conn, q, picked[k].c)
        BY <1>11
      <4>2. Waits(s.conn, s.anon, q, picked[k].c) /\ picked[k].c \in Gamers /\ picked[k].c \in Heads(picked)
        <5>1. picked[k] \in EntryRec
          BY Elements
        <5>2. picked[k].c \in Gamers
          BY <5>1 DEF EntryRec
        <5> QED BY <1>4, <5>2 DEF Heads
      <4>3. q # p \/ picked[k].c # c
        BY <2>1, <4>2 DEF c
      <4>4. PlayersOf(s.conn, q, picked[k].c) \cap PlayersOf(s.conn, p, c) = {}
        BY <1>2, <3>2, <4>2, <4>3, EntriesApart
      <4> QED BY <4>1, <4>4
    <3>4. \A d \in Gamers : C[d].team = s.conn[d].team
      BY <1>15
    <3>5. PlayersOf(s.conn, p, c) \subseteq Gamers
      <4>1. TeamOf(s.conn, c) \subseteq Gamers
        BY <1>2, <3>2, TeamsTyped
      <4> QED BY <3>2, <4>1 DEF PlayersOf
    <3>6. \A d \in PlayersOf(s.conn, p, c) : C[d].cl = s.conn[d].cl /\ A[d] = s.anon[d]
      BY <1>14, <1>15, <3>3, <3>5
    <3>7. Waits(C, A, p, c)
      BY <3>2, <3>4, <3>6, WaitsApart
    <3> QED BY <3>7 DEF c
  <2> HIDE DEF l, m
  <2> QED BY <1>17, <2>1, <2>2 DEF QueueInv, m
<1>22. GamesInv(r.infos, r.anon, r.route, None)
  <2>1. GameInv(J, g, A, s.route, None)
    <3>1. \A k \in Taken(J) : SeatInv(J, g, k, A, s.route, None)
      <4> TAKE k \in Taken(J)
      <4>1. k \in DOMAIN seats /\ seats[k] \in D /\ Seat(seats[k]) = k /\ seats[k] \in Gamers
        BY <1>9, <1>10, <1>13
      <4>2. A[seats[k]].info = g /\ A[seats[k]].num = k
        BY <1>14, <4>1
      <4>3. J.told[k] = <<>>
        BY <1>13, <4>1 DEF nothing
      <4> QED BY <1>13, <4>2, <4>3 DEF SeatInv
    <3>2. \A k \in DOMAIN J.told : J.told[k] = <<>>
      BY <1>13 DEF nothing
    <3>3. DOMAIN J.told = DOMAIN J.player /\ DOMAIN J.account = DOMAIN J.player
      BY <1>13 DEF nothing
    <3> QED BY <1>13, <3>1, <3>2, <3>3 DEF GameInv
  <2>2. ASSUME NEW h \in AnonGames \ {g} PROVE r.infos[h] = NoInfo \/ GameInv(r.infos[h], h, A, s.route, None)
    <3> DEFINE I == s.infos[h]
    <3>1. r.infos[h] = I
      BY <1>17
    <3>2. SUFFICES ASSUME I # NoInfo PROVE GameInv(I, h, A, s.route, None)
      BY <3>1
    <3>3. GameInv(I, h, s.anon, s.route, None) /\ I \in InfoRec
      BY <1>2, <3>2 DEF GamesInv
    <3> HIDE DEF I
    <3>4. \A n \in Taken(I) : SeatInv(I, h, n, A, s.route, None)
      <4> TAKE n \in Taken(I)
      <4>1. SeatInv(I, h, n, s.anon, s.route, None)
        BY <3>3 DEF GameInv
      <4>2. I.player[n] \in Gamers
        <5>1. I.player \in Seq(Gamers \cup {None})
          BY <3>3, InfoFields
        <5>2. n \in DOMAIN I.player /\ I.player[n] # None
          BY DEF Taken
        <5> QED BY <5>1, <5>2
      <4>3. s.anon[I.player[n]].info = h /\ h # 0
        BY <4>1, AnonGameAssumption DEF SeatInv, AnonGames
      <4>4. I.player[n] \notin D
        BY <1>11, <4>3
      <4>5. A[I.player[n]] = s.anon[I.player[n]]
        BY <1>14, <4>2, <4>4
      <4> QED BY <4>1, <4>5 DEF SeatInv
    <3> QED BY <3>3, <3>4 DEF GameInv
  <2>3. ASSUME NEW c \in Gamers, A[c].info # 0
        PROVE  A[c].num \in DOMAIN r.infos[A[c].info].player /\ r.infos[A[c].info].player[A[c].num] = c
    <3>1. CASE c \in D
      BY <1>8, <1>13, <1>14, <1>17, <3>1
    <3>2. CASE c \notin D
      <4>1. A[c] = s.anon[c]
        BY <1>14, <3>2, SMTT(40)
      <4> DEFINE h == s.anon[c].info
      <4>2. s.infos[h] # NoInfo /\ h \in AnonGames
        BY <2>3, <4>1, SeatOf
      <4>3. h # g
        BY <1>3, <4>2
      <4>4. r.infos[h] = s.infos[h]
        BY <1>17, <4>2, <4>3, SMTT(40)
      <4>5. s.anon[c].num \in DOMAIN s.infos[h].player /\ s.infos[h].player[s.anon[c].num] = c
        BY <1>2, <2>3, <4>1 DEF GamesInv
      <4> QED BY <4>1, <4>4, <4>5
    <3> QED BY <3>1, <3>2
  <2> QED BY <1>17, <2>1, <2>2, <2>3 DEF GamesInv
<1>23. RoutesInv(r.anon, r.route)
  <2> SUFFICES ASSUME NEW c \in Gamers, s.route[c] PROVE A[c].info # 0
    BY <1>17 DEF RoutesInv
  <2>1. s.anon[c].info # 0
    BY DEF RoutesInv
  <2>2. c \notin D
    BY <1>11, <2>1
  <2> QED BY <1>14, <2>1, <2>2
<1>24. AskedInv(r.conn, r.anon)
  <2>1. \A d \in Gamers :
          /\ r.conn[d].team = s.conn[d].team /\ r.conn[d].tried = s.conn[d].tried
          /\ IsOn(r.conn, d) = IsOn(s.conn, d)
          /\ r.anon[d].queue = s.anon[d].queue /\ r.anon[d].tid = s.anon[d].tid
          /\ r.anon[d].tc = s.anon[d].tc
    BY <1>14, <1>15, <1>17, <1>19
  <2> QED BY <1>2, <2>1, AskedSame
<1>25. Sound(r, None)
  BY <1>17, <1>18, <1>20, <1>21, <1>22 DEF Sound
<1> QED BY <1>1, <1>17, <1>23, <1>24, <1>25 DEF Good, EndedOK

-----------------------------------------------------------------------------
\* The last part of a search, when the entry that is to be queued is for players who wait in no

\* other.
LEMMA SearchedGood ==
  ASSUME NEW s, Sound(s, None), RoutesInv(s.anon, s.route), AskedInv(s.conn, s.anon), s.ended = NotEnded,
         FreeInfos(s) # {}, NEW q \in AnonTypes, NEW c \in Gamers, NEW first \in Gamers,
         NEW prefs \in SUBSET Maps, Waits(s.conn, s.anon, q, first),
         \A i \in DOMAIN s.lists[q] : s.lists[q][i].c # first
  PROVE  Good(Searched(s, c, first, q, prefs))
<1> DEFINE t == _anongame_queue(s, first, q, prefs)
           picked == _anongame_match(t, c, q)
           l == s.lists[q]
           m == t.lists[q]
<1>1. /\ AnonState(s) /\ s.lists \in [AnonTypes -> Seq(EntryRec)]
      /\ \A p \in AnonTypes : QueueInv(s.conn, s.anon, p, s.lists[p])
  BY AnonParts DEF Sound
<1>2. /\ OtherList(s, t, q) /\ DOMAIN m = 1..(Len(l) + 1)
      /\ m[Len(l) + 1].c = first /\ \A i \in DOMAIN l : m[i] = l[i]
  BY <1>1, QueueIs
<1> HIDE DEF t
<1>3. /\ AnonState(t) /\ t.conn = s.conn /\ t.anon = s.anon /\ t.route = s.route
      /\ t.infos = s.infos /\ t.ended = s.ended
      /\ \A r \in AnonTypes \ {q} : t.lists[r] = s.lists[r]
  BY <1>2 DEF OtherList
<1>4. QueueInv(t.conn, t.anon, q, m)
  <2>1. QueueInv(s.conn, s.anon, q, l)
    BY <1>1
  <2>2. l \in Seq(EntryRec) /\ DOMAIN l = 1..Len(l) /\ Len(l) \in Nat
    BY <1>1, Elements
  <2>3. \A i \in DOMAIN m : i \in DOMAIN l \/ i = Len(l) + 1
    BY <1>2, <2>2
  <2> HIDE DEF l, m
  <2>4. \A i \in DOMAIN l : l[i].c # first /\ m[i] = l[i]
    BY <1>2 DEF l
  <2>5. OneEach(m)
    <3> SUFFICES ASSUME NEW i \in DOMAIN m, NEW j \in DOMAIN m, m[i].c = m[j].c PROVE i = j
      BY DEF OneEach
    <3>1. CASE i \in DOMAIN l /\ j \in DOMAIN l
      <4>1. l[i].c = l[j].c
        BY <2>4, <3>1
      <4> QED BY <2>1, <3>1, <4>1 DEF QueueInv, OneEach
    <3>2. CASE i \notin DOMAIN l
      BY <1>2, <2>3, <2>4, <3>2
    <3>3. CASE j \notin DOMAIN l
      BY <1>2, <2>3, <2>4, <3>3
    <3> QED BY <3>1, <3>2, <3>3
  <2>6. \A i \in DOMAIN m : Waits(t.conn, t.anon, q, m[i].c)
    <3> TAKE i \in DOMAIN m
    <3>1. CASE i \in DOMAIN l
      BY <1>3, <2>1, <2>4, <3>1 DEF QueueInv
    <3>2. CASE i \notin DOMAIN l
      BY <1>2, <1>3, <2>3, <3>2
    <3> QED BY <3>1, <3>2
  <2> QED BY <2>5, <2>6 DEF QueueInv
<1>5. Sound(t, None)
  <2>1. \A r \in AnonTypes : QueueInv(t.conn, t.anon, r, t.lists[r])
    BY <1>1, <1>3, <1>4
  <2> QED BY <1>3, <2>1 DEF Sound
<1>6. RoutesInv(t.anon, t.route) /\ AskedInv(t.conn, t.anon) /\ t.ended = NotEnded /\ FreeInfos(t) # {}
  BY <1>3 DEF FreeInfos
<1>7. CASE PerEntry(q) * Len(picked) = totalplayers(q)
  <2>1. /\ picked \in Seq(EntryRec) /\ OneEach(picked)
        /\ \A i \in DOMAIN picked : \E j \in DOMAIN m : m[j] = picked[i]
        /\ picked # <<>> => SuitsAll(ToSet(picked))
    BY <1>3, <1>4, MatchIs DEF QueueInv
  <2> HIDE DEF picked
  <2>2. picked # <<>>
    <3> SUFFICES ASSUME picked = <<>> PROVE FALSE
      OBVIOUS
    <3>1. Len(picked) = 0 /\ PerEntry(q) \in Nat
      <4>1. 4 \div 2 = 2
        OBVIOUS
      <4>2. anongame_arranged(q) => totalplayers(q) = 4 /\ totalteams(q) = 2
        BY DEF anongame_arranged, totalplayers, totalteams
      <4> QED BY <4>1, <4>2 DEF PerEntry
    <3>2. totalplayers(q) = 0
      <4> DEFINE n == PerEntry(q)
      <4>1. n \in Nat
        BY <3>1
      <4> HIDE DEF n
      <4>2. n * 0 = 0
        BY <4>1
      <4> QED BY <1>7, <3>1, <4>2 DEF n
    <3> QED BY <3>2 DEF totalplayers
  <2>3. Good(_anongame_search_found(t, q, picked))
    BY <1>5, <1>6, <1>7, <2>1, <2>2, FoundGood
  <2> QED BY <1>7, <2>3 DEF Searched, t, picked
<1>8. CASE PerEntry(q) * Len(picked) # totalplayers(q)
  <2>1. Searched(s, c, first, q, prefs) = t
    BY <1>8 DEF Searched, t
  <2> QED BY <1>5, <1>6, <2>1 DEF Good, EndedOK
<1> QED BY <1>7, <1>8

-----------------------------------------------------------------------------
\* Who is in a team with a player who is on, and is on himself, is in no other.
LEMMA TeamIs ==
  ASSUME NEW s, TeamsInv(s.conn), NEW c \in Gamers, IsOn(s.conn, c),
         NEW d \in Gamers, d \in {c} \cup TeamOf(s.conn, c), IsOn(s.conn, d)
  PROVE  s.conn[d].team = s.conn[c].team
<1>1. d # c => Same(s.conn, c, d) \/ Apart(s.conn, c, d)
  BY DEF TeamsInv
<1> QED BY <1>1 DEF Same, Apart

\* The player, and those in a team with him.
Circle(s, c) == {c} \cup TeamOf(s.conn, c)

\* Nobody of a team waits in an entry when one of them is idle.
LEMMA TeamNotQueued ==
  ASSUME NEW s, AnonState(s), TeamsInv(s.conn), NEW c \in Gamers, s.conn[c].cl = "idle",
         NEW d \in Circle(s, c), NEW q, NEW h \in Gamers, Waits(s.conn, s.anon, q, h)
  PROVE  d \notin PlayersOf(s.conn, q, h)
<1> SUFFICES ASSUME d \in PlayersOf(s.conn, q, h) PROVE FALSE
  OBVIOUS
<1>1. TeamOf(s.conn, c) \subseteq Gamers /\ d \in Gamers
  BY TeamsTyped DEF Circle
<1>2. IsOn(s.conn, c)
  BY DEF IsOn
<1>3. s.conn[d].cl = "search"
  BY PlayersWait DEF Waiting
<1>4. s.conn[d].team = s.conn[c].team
  <2>1. IsOn(s.conn, d)
    BY <1>3 DEF IsOn
  <2>2. d \in {c} \cup TeamOf(s.conn, c)
    BY DEF Circle
  <2> QED BY <1>1, <1>2, <2>1, <2>2, TeamIs
<1>5. d # c
  BY <1>3
<1>6. s.conn[c].team # <<>> /\ d \in TeamOf(s.conn, c)
  <2>1. d \in TeamOf(s.conn, c)
    BY <1>5 DEF Circle
  <2> QED BY <2>1, EmptyList DEF TeamOf
<1>7. anongame_arranged(q)
  <2> SUFFICES ASSUME ~anongame_arranged(q) PROVE FALSE
    OBVIOUS
  <2>1. d = h /\ s.conn[h].team = <<>>
    BY DEF PlayersOf, Waits
  <2> QED BY <1>4, <1>6, <2>1
<1>8. s.conn[h].team # <<>> /\ h = Head(s.conn[h].team) /\ d \in TeamOf(s.conn, h)
  BY <1>7 DEF Waits, PlayersOf
<1>9. IsOn(s.conn, h)
  <2>1. h \in TeamOf(s.conn, h)
    BY <1>8, TeamsAre
  <2> QED BY <1>7, <2>1 DEF Waits, Waiting, IsOn
<1>10. s.conn[d].team = s.conn[h].team
  <2>1. IsOn(s.conn, d) /\ d \in {h} \cup TeamOf(s.conn, h)
    BY <1>3, <1>8 DEF IsOn
  <2> QED BY <1>1, <1>9, <2>1, TeamIs
<1>11. c \in TeamOf(s.conn, h)
  <2>1. c \in TeamOf(s.conn, c)
    BY <1>6 DEF TeamsInv
  <2> QED BY <1>4, <1>10, <2>1 DEF TeamOf
<1>12. s.conn[c].cl = "search"
  BY <1>7, <1>11 DEF Waits, Waiting
<1> QED BY <1>12

\* A player who is idle asks, and what he and his team have may change.
Asking(s, t, c) ==
  /\ t.lists = s.lists /\ t.infos = s.infos /\ t.route = s.route /\ t.ended = s.ended
  /\ \A d \in Gamers \ Circle(s, c) : t.conn[d] = s.conn[d] /\ t.anon[d] = s.anon[d]
  /\ \A d \in Circle(s, c) :
       /\ t.conn[d].team = s.conn[d].team /\ IsOn(t.conn, d) = IsOn(s.conn, d)
       /\ t.conn[d].cl # "found" /\ s.conn[d].cl # "found"
       /\ ClientInv(t.conn, t.anon[d], d)

\* What is sound stays so when a player asks.
LEMMA AskingSound ==
  ASSUME NEW s, Sound(s, None), RoutesInv(s.anon, s.route), NEW c \in Gamers, s.conn[c].cl = "idle",
         NEW t, AnonState(t), Asking(s, t, c)
  PROVE  Sound(t, None) /\ RoutesInv(t.anon, t.route)
<1> DEFINE D == Circle(s, c)
<1>1. /\ AnonState(s) /\ TeamsInv(s.conn) /\ ClientsInv(s.conn, s.anon)
      /\ (\A p \in AnonTypes : QueueInv(s.conn, s.anon, p, s.lists[p]))
      /\ GamesInv(s.infos, s.anon, s.route, None)
      /\ s.lists \in [AnonTypes -> Seq(EntryRec)] /\ s.infos \in [AnonGames -> InfoRec]
  BY AnonParts DEF Sound
<1>2. D \subseteq Gamers /\ IsOn(s.conn, c)
  BY <1>1, TeamsTyped DEF Circle, IsOn
<1>3. /\ t.lists = s.lists /\ t.infos = s.infos /\ t.route = s.route
      /\ \A d \in Gamers \ D : t.conn[d] = s.conn[d] /\ t.anon[d] = s.anon[d]
      /\ \A d \in D :
           /\ t.conn[d].team = s.conn[d].team /\ IsOn(t.conn, d) = IsOn(s.conn, d)
           /\ t.conn[d].cl # "found" /\ s.conn[d].cl # "found"
           /\ ClientInv(t.conn, t.anon[d], d)
  BY DEF Asking
<1>4. \A d \in Gamers : t.conn[d].team = s.conn[d].team /\ TeamOf(t.conn, d) = TeamOf(s.conn, d)
                        /\ IsOn(t.conn, d) = IsOn(s.conn, d)
  <2> TAKE d \in Gamers
  <2>1. t.conn[d].team = s.conn[d].team
    BY <1>3
  <2>2. IsOn(t.conn, d) = IsOn(s.conn, d)
    <3>1. CASE d \in D
      BY <1>3, <3>1
    <3>2. CASE d \notin D
      BY <1>3, <3>2 DEF IsOn
    <3> QED BY <3>1, <3>2
  <2> QED BY <2>1, <2>2 DEF TeamOf
<1>5. \A d \in D : s.anon[d].info = 0 /\ t.anon[d].info = 0
  BY <1>1, <1>2, <1>3 DEF ClientsInv, ClientInv
<1>6. \A d \in Gamers \ D : t.conn[d] = s.conn[d] /\ t.anon[d] = s.anon[d]
  BY <1>3
<1>7. ClientsInv(t.conn, t.anon)
  <2> SUFFICES ASSUME NEW d \in Gamers PROVE ClientInv(t.conn, t.anon[d], d)
    BY DEF ClientsInv
  <2>1. CASE d \in D
    BY <1>3, <2>1
  <2>2. CASE d \notin D
    <3>1. ClientInv(s.conn, s.anon[d], d) /\ t.conn[d] = s.conn[d] /\ t.anon[d] = s.anon[d]
      BY <1>1, <1>6, <2>2 DEF ClientsInv
    <3> QED BY <1>4, <3>1 DEF ClientInv
  <2> QED BY <2>1, <2>2
<1>8. TeamsInv(t.conn)
  <2>1. \A x \in Gamers : t.conn[x].team # <<>> => IsInjective(t.conn[x].team) /\ x \in TeamOf(t.conn, x)
    BY <1>1, <1>4 DEF TeamsInv
  <2>2. \A x, d \in Gamers : IsOn(t.conn, x) /\ IsOn(t.conn, d) /\ x # d
                               => Same(t.conn, x, d) \/ Apart(t.conn, x, d)
    BY <1>1, <1>4 DEF TeamsInv, Same, Apart
  <2>3. ASSUME NEW x \in Gamers, NEW d \in Gamers, IsOn(t.conn, x), d \in TeamOf(t.conn, x),
               t.conn[d].cl = "found"
        PROVE  t.conn[x].tried
    <3>1. d \notin D
      BY <1>3, <2>3
    <3>2. s.conn[d].cl = "found" /\ IsOn(s.conn, x) /\ d \in TeamOf(s.conn, x)
      BY <1>4, <1>6, <2>3, <3>1
    <3>3. CASE x \in D
      <4>1. s.conn[x].team = s.conn[c].team
        BY <1>1, <1>2, <3>2, <3>3, TeamIs DEF Circle
      <4> QED BY <3>1, <3>2, <4>1 DEF Circle, TeamOf
    <3>4. CASE x \notin D
      BY <1>1, <1>6, <3>2, <3>4 DEF TeamsInv
    <3> QED BY <3>3, <3>4
  <2> QED BY <2>1, <2>2, <2>3 DEF TeamsInv
<1>9. \A p \in AnonTypes : QueueInv(t.conn, t.anon, p, t.lists[p])
  <2> TAKE p \in AnonTypes
  <2> DEFINE l == s.lists[p]
  <2>1. QueueInv(s.conn, s.anon, p, l)
    BY <1>1
  <2>2. ASSUME NEW i \in DOMAIN l PROVE Waits(t.conn, t.anon, p, l[i].c)
    <3> DEFINE h == l[i].c
    <3>1. h \in Gamers
      <4>1. l[i] \in EntryRec
        BY <1>1, Elements
      <4> QED BY <4>1 DEF EntryRec
    <3>2. Waits(s.conn, s.anon, p, h)
      BY <2>1 DEF QueueInv
    <3> HIDE DEF h
    <3>3. PlayersOf(s.conn, p, h) \subseteq Gamers
      <4>1. TeamOf(s.conn, h) \subseteq Gamers
        BY <1>1, <3>1, TeamsTyped
      <4> QED BY <3>1, <4>1 DEF PlayersOf
    <3>4. \A d \in D : d \notin PlayersOf(s.conn, p, h)
      BY <1>1, <3>1, <3>2, TeamNotQueued
    <3>5. \A d \in PlayersOf(s.conn, p, h) : t.conn[d].cl = s.conn[d].cl /\ t.anon[d] = s.anon[d]
      BY <1>6, <3>3, <3>4
    <3>6. Waits(t.conn, t.anon, p, h)
      BY <1>4, <3>1, <3>2, <3>5, WaitsApart
    <3> QED BY <3>6 DEF h
  <2> QED BY <1>3, <2>1, <2>2 DEF QueueInv
<1>10. \A d \in Gamers : t.anon[d].info = s.anon[d].info /\ (d \notin D => t.anon[d] = s.anon[d])
  <2> TAKE d \in Gamers
  <2> QED BY <1>5, <1>6
<1>11. GamesInv(t.infos, t.anon, t.route, None)
  <2>1. ASSUME NEW g \in AnonGames, s.infos[g] # NoInfo
        PROVE  GameInv(s.infos[g], g, t.anon, s.route, None)
    <3> DEFINE I == s.infos[g]
    <3>1. GameInv(I, g, s.anon, s.route, None) /\ I \in InfoRec
      BY <1>1, <2>1 DEF GamesInv
    <3> HIDE DEF I
    <3>2. \A n \in Taken(I) : SeatInv(I, g, n, t.anon, s.route, None)
      <4> TAKE n \in Taken(I)
      <4>1. SeatInv(I, g, n, s.anon, s.route, None)
        BY <3>1 DEF GameInv
      <4>2. I.player[n] \in Gamers
        <5>1. I.player \in Seq(Gamers \cup {None})
          BY <3>1, InfoFields
        <5>2. n \in DOMAIN I.player /\ I.player[n] # None
          BY DEF Taken
        <5> QED BY <5>1, <5>2
      <4>3. s.anon[I.player[n]].info = g /\ g # 0
        BY <4>1, AnonGameAssumption DEF SeatInv, AnonGames
      <4>4. t.anon[I.player[n]] = s.anon[I.player[n]]
        BY <1>5, <1>6, <4>2, <4>3, SMTT(40)
      <4> QED BY <4>1, <4>4 DEF SeatInv
    <3> QED BY <3>1, <3>2 DEF GameInv, I
  <2>2. ASSUME NEW d \in Gamers, t.anon[d].info # 0
        PROVE  t.anon[d].num \in DOMAIN s.infos[t.anon[d].info].player
               /\ s.infos[t.anon[d].info].player[t.anon[d].num] = d
    <3>1. t.anon[d] = s.anon[d]
      BY <1>5, <1>6, <2>2
    <3> QED BY <1>1, <2>2, <3>1 DEF GamesInv
  <2> QED BY <1>3, <2>1, <2>2 DEF GamesInv
<1>12. RoutesInv(t.anon, t.route)
  BY <1>3, <1>10 DEF RoutesInv
<1> QED BY <1>7, <1>8, <1>9, <1>11, <1>12 DEF Sound

\* The promise of the inviter, when one of the team asks.
LEMMA AskingAsked ==
  ASSUME NEW s, AnonState(s), TeamsInv(s.conn), AskedInv(s.conn, s.anon), NEW c \in Gamers, IsOn(s.conn, c),
         NEW t, Asking(s, t, c),
         s.conn[c].team # <<>> /\ Open(t.conn, t.anon, Head(s.conn[c].team)) =>
           \A d \in TeamOf(s.conn, c) : t.anon[d].queue = "at2v2" /\ t.anon[d].tc = s.conn[c].team
  PROVE  AskedInv(t.conn, t.anon)
<1> DEFINE D == Circle(s, c)
<1>1. D \subseteq Gamers /\ \A d \in Gamers : TeamOf(s.conn, d) \subseteq Gamers
  BY TeamsTyped DEF Circle
<1>2. /\ \A d \in Gamers \ D : t.conn[d] = s.conn[d] /\ t.anon[d] = s.anon[d]
      /\ \A d \in D : t.conn[d].team = s.conn[d].team /\ IsOn(t.conn, d) = IsOn(s.conn, d)
  BY DEF Asking
<1>3. \A d \in Gamers : /\ t.conn[d].team = s.conn[d].team /\ TeamOf(t.conn, d) = TeamOf(s.conn, d)
                        /\ IsOn(t.conn, d) = IsOn(s.conn, d)
  <2> TAKE d \in Gamers
  <2>1. CASE d \in D
    BY <1>2, <2>1 DEF TeamOf
  <2>2. CASE d \notin D
    BY <1>2, <2>2 DEF TeamOf, IsOn
  <2> QED BY <2>1, <2>2
<1> SUFFICES ASSUME NEW h \in Gamers, Open(t.conn, t.anon, h)
             PROVE  \A d \in TeamOf(t.conn, h) : t.anon[d].queue = "at2v2" /\ t.anon[d].tc = t.conn[h].team
  BY DEF AskedInv
<1>4. /\ s.conn[h].team # <<>> /\ h = Head(s.conn[h].team) /\ h \in TeamOf(s.conn, h)
      /\ \A d \in TeamOf(s.conn, h) : IsOn(s.conn, d)
  <2>1. s.conn[h].team # <<>> /\ h = Head(s.conn[h].team) /\ \A d \in TeamOf(s.conn, h) : IsOn(s.conn, d)
    BY <1>1, <1>3 DEF Open
  <2> QED BY <2>1, TeamsAre
<1>5. CASE TeamOf(s.conn, h) \cap D = {}
  <2>1. \A d \in TeamOf(s.conn, h) : t.conn[d] = s.conn[d] /\ t.anon[d] = s.anon[d]
    BY <1>1, <1>2, <1>5, SMTT(40)
  <2>2. Open(s.conn, s.anon, h)
    BY <1>3, <1>4, <2>1 DEF Open
  <2> QED BY <1>3, <2>1, <2>2 DEF AskedInv
<1>6. CASE TeamOf(s.conn, h) \cap D # {}
  <2>1. PICK d \in Gamers : d \in TeamOf(s.conn, h) /\ d \in D
    BY <1>1, <1>6
  <2>2. IsOn(s.conn, h) /\ IsOn(s.conn, d)
    BY <1>4, <2>1
  <2>3. s.conn[d].team = s.conn[h].team /\ s.conn[d].team = s.conn[c].team
    BY <2>1, <2>2, TeamIs DEF Circle
  <2>4. TeamOf(s.conn, h) = TeamOf(s.conn, c)
    BY <2>3 DEF TeamOf
  <2> QED BY <1>3, <1>4, <2>3, <2>4
<1> QED BY <1>5, <1>6

-----------------------------------------------------------------------------
\* What a player is doing when he asks.
LEMMA AsksIs ==
  ASSUME NEW s, AnonState(s), NEW c \in Gamers
  PROVE  LET a == Asks(s, c)
         IN  /\ AnonState(a) /\ a.anon = s.anon /\ a.route = s.route /\ a.lists = s.lists
             /\ a.infos = s.infos /\ a.ended = s.ended
             /\ a.conn[c].cl = "search" /\ a.conn[c].team = s.conn[c].team
             /\ a.conn[c].tried = s.conn[c].tried
             /\ \A d \in Gamers \ {c} : a.conn[d] = s.conn[d]
<1> DEFINE a == [s EXCEPT !.conn[c].cl = "search"]
<1>1. s.conn \in [Gamers -> ConnRec] /\ s.conn[c] \in ConnRec
  BY AnonParts
<1>2. [s.conn EXCEPT ![c].cl = "search"] \in [Gamers -> ConnRec]
  BY <1>1 DEF ConnRec
<1>3. /\ AnonState(a) /\ a.anon = s.anon /\ a.route = s.route /\ a.lists = s.lists
      /\ a.infos = s.infos /\ a.ended = s.ended
      /\ a.conn[c].cl = "search" /\ a.conn[c].team = s.conn[c].team
      /\ a.conn[c].tried = s.conn[c].tried
      /\ \A d \in Gamers \ {c} : a.conn[d] = s.conn[d]
  BY <1>1, <1>2 DEF AnonState, ConnRec
<1> QED BY <1>3 DEF Asks

\* A player who is idle has neither a game nor a part in the present attempt.
LEMMA IdleHas ==
  ASSUME AnonInv, NEW c \in Gamers, ag.conn[c].cl = "idle"
  PROVE  /\ ag.anon[c].info = 0 /\ ag.anon[c].tid = 0 /\ (ag.anon[c].tc # <<>> => c \in ToSet(ag.anon[c].tc))
         /\ ToSet(ag.anon[c].tc) \subseteq TeamOf(ag.conn, c) \cup {c, Freed}
<1>1. ClientInv(ag.conn, ag.anon[c], c) /\ ag.anon \in [Gamers -> AnonRec]
  BY AnonParts DEF AnonInv, Sound, ClientsInv
<1>2. ag.anon[c].tid \in {0, 1}
  BY <1>1, AnonFields
<1> QED BY <1>1, <1>2 DEF ClientInv

\* No entry is for the team of a player who is idle.
LEMMA NoEntry ==
  ASSUME AnonInv, NEW c \in Gamers, ag.conn[c].cl = "idle", NEW q \in AnonTypes,
         NEW h \in Gamers, h \in PlayersOf(ag.conn, q, h), h \in Circle(ag, c)
  PROVE  \A i \in DOMAIN ag.lists[q] : ag.lists[q][i].c # h
<1> TAKE i \in DOMAIN ag.lists[q]
<1>1. AnonState(ag) /\ TeamsInv(ag.conn) /\ QueueInv(ag.conn, ag.anon, q, ag.lists[q])
  BY DEF AnonInv, Sound
<1>2. Waits(ag.conn, ag.anon, q, ag.lists[q][i].c)
  BY <1>1 DEF QueueInv
<1> SUFFICES ASSUME ag.lists[q][i].c = h PROVE FALSE
  OBVIOUS
<1>3. Waits(ag.conn, ag.anon, q, h)
  BY <1>2
<1> QED BY <1>1, <1>3, TeamNotQueued

\* handle_anongame_search.
LEMMA SearchGood ==
  ASSUME AnonInv, NEW c \in Gamers, NEW q \in AnonQueues, NEW prefs \in PrefsSent,
         anongame_search(c, q, prefs)
  PROVE  Good(ag')
<1> DEFINE a == Asks(Now, c)
           u == conn_create_anongame(a, c)
           s == [u EXCEPT !.anon[c].queue = q, !.anon[c].prefs = prefs, !.anon[c].tc = <<c>>]
<1>1. /\ Sound(Now, None) /\ Now.conn = ag.conn /\ Now.anon = ag.anon /\ Now.route = ag.route
      /\ Now.lists = ag.lists /\ Now.infos = ag.infos /\ Now.ended = NotEnded
      /\ AnonState(Now) /\ TeamsInv(ag.conn)
  BY NowIs DEF Sound
<1>2. /\ ag.conn[c].cl = "idle" /\ ag.conn[c].team = <<>> /\ ~anongame_arranged(q) /\ FreeInfos(ag) # {}
      /\ ag' = Searched(s, c, c, q, prefs)
  BY DEF anongame_search
<1>3. q \in AnonTypes /\ prefs \in SUBSET Maps
  BY AnonGameAssumption
<1>4. /\ AnonState(a) /\ a.anon = ag.anon /\ a.route = ag.route /\ a.lists = ag.lists
      /\ a.infos = ag.infos /\ a.ended = NotEnded
      /\ a.conn[c].cl = "search" /\ a.conn[c].team = <<>> /\ a.conn[c].tried = ag.conn[c].tried
      /\ \A d \in Gamers \ {c} : a.conn[d] = ag.conn[d]
  BY <1>1, <1>2, AsksIs
<1> HIDE DEF a
<1>5. /\ AnonState(u) /\ u.conn = a.conn /\ u.route = a.route /\ u.lists = a.lists
      /\ u.infos = a.infos /\ u.ended = a.ended
      /\ \A d \in Gamers \ {c} : u.anon[d] = a.anon[d]
      /\ u.anon[c].info = 0 /\ u.anon[c].tid = 0
  BY <1>2, <1>4, CreateIs, IdleHas
<1> HIDE DEF u
<1>6. u.anon \in [Gamers -> AnonRec] /\ u.anon[c] \in AnonRec
  BY <1>5, AnonParts
<1>7. <<c>> \in Seq(Gamers \cup {Freed}) /\ ToSet(<<c>>) = {c}
  <2> DEFINE l == <<c>>
  <2>1. l \in Seq(Gamers \cup {Freed}) /\ Len(l) = 1 /\ l[1] = c /\ DOMAIN l = 1..1
    OBVIOUS
  <2> HIDE DEF l
  <2>2. ToSet(l) = {c}
    BY <2>1 DEF ToSet
  <2> QED BY <2>1, <2>2 DEF l
<1> DEFINE l == <<c>>
<1>8. l \in Seq(Gamers \cup {Freed}) /\ ToSet(l) = {c} /\ s = [u EXCEPT !.anon[c].queue = q, !.anon[c].prefs = prefs, !.anon[c].tc = l]
  BY <1>7
<1> HIDE DEF s, l
<1>9. /\ AnonState(s) /\ s.conn = u.conn /\ s.route = u.route /\ s.lists = u.lists
      /\ s.infos = u.infos /\ s.ended = u.ended
      /\ \A d \in Gamers \ {c} : s.anon[d] = u.anon[d]
      /\ s.anon[c].info = 0 /\ s.anon[c].tid = 0 /\ s.anon[c].queue = q /\ s.anon[c].tc = l
  BY <1>3, <1>5, <1>6, <1>8, ZenonT(60) DEF AnonState, AnonRec
<1>10. /\ s.conn[c].cl = "search" /\ s.conn[c].team = <<>> /\ s.conn[c].tried
       /\ TeamOf(s.conn, c) = {} /\ TeamOf(ag.conn, c) = {}
  <2>1. ag.conn[c].tried
    BY <1>2 DEF AnonInv, Sound, ClientsInv, ClientInv
  <2> QED BY <1>2, <1>4, <1>5, <1>9, <2>1, EmptyList, ZenonT(60) DEF TeamOf
<1>11. Circle(Now, c) = {c}
  BY <1>1, <1>10 DEF Circle
<1>12. Asking(Now, s, c)
  <2>1. ClientInv(s.conn, s.anon[c], c)
    BY <1>3, <1>8, <1>9, <1>10, Words DEF ClientInv
  <2>2. IsOn(s.conn, c) = IsOn(Now.conn, c)
    BY <1>1, <1>2, <1>10 DEF IsOn
  <2> QED BY <1>1, <1>2, <1>4, <1>5, <1>9, <1>10, <1>11, <2>1, <2>2 DEF Asking
<1>13. Sound(s, None) /\ RoutesInv(s.anon, s.route)
  BY <1>1, <1>2, <1>9, <1>12, AskingSound DEF AnonInv
<1>14. AskedInv(s.conn, s.anon)
  <2>1. AskedInv(Now.conn, Now.anon) /\ TeamsInv(Now.conn) /\ IsOn(Now.conn, c) /\ Now.conn[c].team = <<>>
    BY <1>1, <1>2 DEF AnonInv, IsOn
  <2> QED BY <1>1, <1>12, <2>1, AskingAsked
<1>15. Waits(s.conn, s.anon, q, c)
  BY <1>2, <1>9, <1>10 DEF Waits, Waiting
<1>16. \A i \in DOMAIN s.lists[q] : s.lists[q][i].c # c
  <2>1. c \in PlayersOf(ag.conn, q, c) /\ c \in Circle(ag, c)
    BY <1>2 DEF PlayersOf, Circle
  <2>2. \A i \in DOMAIN ag.lists[q] : ag.lists[q][i].c # c
    BY <1>2, <1>3, <2>1, NoEntry
  <2> QED BY <1>4, <1>5, <1>9, <2>2
<1>17. FreeInfos(s) # {} /\ s.ended = NotEnded
  BY <1>2, <1>4, <1>5, <1>9 DEF FreeInfos
<1> QED BY <1>2, <1>3, <1>13, <1>14, <1>15, <1>16, <1>17, SearchedGood

-----------------------------------------------------------------------------
\* A player of a team asks in the present attempt, or begins a new one.
Former(c, new) == IF new THEN Mates(c) ELSE {}

\* A new attempt changes nothing but what belongs to the former one.
LEMMA AttemptIs ==
  ASSUME NEW s, AnonState(s), NEW c \in Gamers, NEW new \in BOOLEAN
  PROVE  LET t == AttemptOf(s, c, new)
         IN  /\ AnonState(t) /\ t.route = s.route /\ t.lists = s.lists /\ t.infos = s.infos
             /\ t.ended = s.ended
             /\ \A d \in Gamers :
                  /\ t.conn[d].cl = s.conn[d].cl /\ t.conn[d].team = s.conn[d].team
                  /\ t.conn[d].tried <=> (d = c \/ (s.conn[d].tried /\ d \notin Former(c, new)))
                  /\ d # c /\ d \notin Former(c, new) => t.conn[d] = s.conn[d]
                  /\ t.anon[d].queue = s.anon[d].queue /\ t.anon[d].info = s.anon[d].info
                  /\ t.anon[d].tc = s.anon[d].tc
                  /\ t.anon[d].tid = IF d \in Former(c, new) THEN 0 ELSE s.anon[d].tid
                  /\ d \notin Former(c, new) => t.anon[d] = s.anon[d]
<1> DEFINE old == Former(c, new)
           Tried1(d) == d = c \/ (s.conn[d].tried /\ d \notin old)
           C == [d \in Gamers |-> [s.conn[d] EXCEPT !.tried = Tried1(d)]]
           A == [d \in Gamers |-> IF d \in old THEN [s.anon[d] EXCEPT !.tid = 0] ELSE s.anon[d]]
           t == [s EXCEPT !.conn = C, !.anon = A]
<1>1. AttemptOf(s, c, new) = t
  BY DEF AttemptOf, Former
<1>2. s.conn \in [Gamers -> ConnRec] /\ s.anon \in [Gamers -> AnonRec]
  BY AnonParts
<1>3. ASSUME NEW d \in Gamers
      PROVE  /\ C[d] \in ConnRec /\ C[d].cl = s.conn[d].cl /\ C[d].team = s.conn[d].team
             /\ C[d].tried <=> Tried1(d)
             /\ d # c /\ d \notin old => C[d] = s.conn[d]
  <2>1. s.conn[d] \in ConnRec /\ s.conn[d].tried \in BOOLEAN
    BY <1>2, ConnFields
  <2>2. C[d] = [s.conn[d] EXCEPT !.tried = Tried1(d)] /\ Tried1(d) \in BOOLEAN
    BY <2>1
  <2>3. d # c /\ d \notin old => Tried1(d) = s.conn[d].tried
    BY <2>1
  <2> HIDE DEF C, Tried1, old
  <2>4. /\ C[d] \in ConnRec /\ C[d].cl = s.conn[d].cl /\ C[d].team = s.conn[d].team
        /\ C[d].tried = Tried1(d)
    BY <2>1, <2>2 DEF ConnRec
  <2>5. d # c /\ d \notin old => C[d] = s.conn[d]
    BY <2>1, <2>2, <2>3 DEF ConnRec
  <2> QED BY <2>4, <2>5
<1>4. ASSUME NEW d \in Gamers
      PROVE  /\ A[d] \in AnonRec /\ A[d].queue = s.anon[d].queue /\ A[d].info = s.anon[d].info
             /\ A[d].tc = s.anon[d].tc /\ A[d].tid = IF d \in old THEN 0 ELSE s.anon[d].tid
             /\ d \notin old => A[d] = s.anon[d]
  <2>1. s.anon[d] \in AnonRec
    BY <1>2
  <2>2. A[d] = IF d \in old THEN [s.anon[d] EXCEPT !.tid = 0] ELSE s.anon[d]
    OBVIOUS
  <2> HIDE DEF A, old
  <2> QED BY <2>1, <2>2 DEF AnonRec
<1>5. C \in [Gamers -> ConnRec] /\ A \in [Gamers -> AnonRec]
  <2>1. C = [d \in Gamers |-> C[d]] /\ A = [d \in Gamers |-> A[d]]
    OBVIOUS
  <2> HIDE DEF C, A
  <2> QED BY <1>3, <1>4, <2>1
<1> HIDE DEF C, A
<1>6. /\ AnonState(t) /\ t.route = s.route /\ t.lists = s.lists /\ t.infos = s.infos
      /\ t.ended = s.ended /\ t.conn = C /\ t.anon = A
  BY <1>5 DEF AnonState
<1> HIDE DEF t
<1> QED BY <1>1, <1>3, <1>4, <1>6

\* What the request of a member does first.
Start(c, new) == conn_create_anongame(Asks(AttemptOf(Now, c, new), c), c)

\* What is there after the first part of a request: the asking player searches, others keep what they have.
LEMMA StartIs ==
  ASSUME AnonInv, NEW c \in Gamers, NEW new \in BOOLEAN
  PROVE  LET s == Start(c, new)
         IN  /\ AnonState(s) /\ s.route = ag.route /\ s.lists = ag.lists /\ s.infos = ag.infos
             /\ s.ended = NotEnded /\ HasAnon(s, c)
             /\ s.conn[c].cl = "search" /\ s.conn[c].team = ag.conn[c].team /\ s.conn[c].tried
             /\ \A d \in Gamers \ {c} :
                  /\ s.conn[d].cl = ag.conn[d].cl /\ s.conn[d].team = ag.conn[d].team
                  /\ s.conn[d].tried <=> (ag.conn[d].tried /\ d \notin Former(c, new))
                  /\ s.anon[d].queue = ag.anon[d].queue /\ s.anon[d].info = ag.anon[d].info
                  /\ s.anon[d].tc = ag.anon[d].tc
                  /\ s.anon[d].tid = IF d \in Former(c, new) THEN 0 ELSE ag.anon[d].tid
                  /\ d \notin Former(c, new) => s.conn[d] = ag.conn[d] /\ s.anon[d] = ag.anon[d]
             /\ IF HasAnon(ag, c)
                THEN s.anon[c].queue = ag.anon[c].queue /\ s.anon[c].info = ag.anon[c].info
                     /\ s.anon[c].tc = ag.anon[c].tc
                ELSE s.anon[c].info = 0 /\ s.anon[c].tc = <<>>
<1> DEFINE p == AttemptOf(Now, c, new)
           a == Asks(p, c)
           s == conn_create_anongame(a, c)
<1>1. /\ Now.conn = ag.conn /\ Now.anon = ag.anon /\ Now.route = ag.route
      /\ Now.lists = ag.lists /\ Now.infos = ag.infos /\ Now.ended = NotEnded
      /\ AnonState(Now)
  BY NowIs DEF Sound
<1>2. /\ AnonState(p) /\ p.route = ag.route /\ p.lists = ag.lists /\ p.infos = ag.infos
      /\ p.ended = NotEnded
      /\ \A d \in Gamers :
           /\ p.conn[d].cl = ag.conn[d].cl /\ p.conn[d].team = ag.conn[d].team
           /\ p.conn[d].tried <=> (d = c \/ (ag.conn[d].tried /\ d \notin Former(c, new)))
           /\ d # c /\ d \notin Former(c, new) => p.conn[d] = ag.conn[d]
           /\ p.anon[d].queue = ag.anon[d].queue /\ p.anon[d].info = ag.anon[d].info
           /\ p.anon[d].tc = ag.anon[d].tc
           /\ p.anon[d].tid = IF d \in Former(c, new) THEN 0 ELSE ag.anon[d].tid
           /\ d \notin Former(c, new) => p.anon[d] = ag.anon[d]
  BY <1>1, AttemptIs
<1> HIDE DEF p
<1>3. /\ AnonState(a) /\ a.anon = p.anon /\ a.route = p.route /\ a.lists = p.lists
      /\ a.infos = p.infos /\ a.ended = p.ended
      /\ a.conn[c].cl = "search" /\ a.conn[c].team = p.conn[c].team
      /\ a.conn[c].tried = p.conn[c].tried
      /\ \A d \in Gamers \ {c} : a.conn[d] = p.conn[d]
  BY <1>2, AsksIs
<1> HIDE DEF a
<1>4. /\ AnonState(s) /\ HasAnon(s, c) /\ s.conn = a.conn /\ s.route = a.route /\ s.lists = a.lists
      /\ s.infos = a.infos /\ s.ended = a.ended
      /\ \A d \in Gamers \ {c} : s.anon[d] = a.anon[d]
      /\ HasAnon(a, c) => s.anon[c] = a.anon[c]
      /\ ~HasAnon(a, c) => s.anon[c].info = 0 /\ s.anon[c].tc = <<>>
  BY <1>3, CreateIs
<1> HIDE DEF s
<1>5. HasAnon(a, c) = HasAnon(ag, c)
  BY <1>2, <1>3 DEF HasAnon
<1>6. Start(c, new) = s
  BY DEF Start, s, a, p
<1>7. \A d \in Gamers \ {c} :
        /\ s.conn[d].cl = ag.conn[d].cl /\ s.conn[d].team = ag.conn[d].team
        /\ s.conn[d].tried <=> (ag.conn[d].tried /\ d \notin Former(c, new))
        /\ s.anon[d].queue = ag.anon[d].queue /\ s.anon[d].info = ag.anon[d].info
        /\ s.anon[d].tc = ag.anon[d].tc
        /\ s.anon[d].tid = IF d \in Former(c, new) THEN 0 ELSE ag.anon[d].tid
        /\ d \notin Former(c, new) => s.conn[d] = ag.conn[d] /\ s.anon[d] = ag.anon[d]
  BY <1>2, <1>3, <1>4
<1>8. s.conn[c].cl = "search" /\ s.conn[c].team = ag.conn[c].team /\ s.conn[c].tried
  BY <1>2, <1>3, <1>4
<1>9. IF HasAnon(ag, c)
      THEN s.anon[c].queue = ag.anon[c].queue /\ s.anon[c].info = ag.anon[c].info
           /\ s.anon[c].tc = ag.anon[c].tc
      ELSE s.anon[c].info = 0 /\ s.anon[c].tc = <<>>
  BY <1>2, <1>3, <1>4, <1>5
<1>10. /\ s.route = ag.route /\ s.lists = ag.lists /\ s.infos = ag.infos /\ s.ended = NotEnded
  BY <1>2, <1>3, <1>4
<1> QED BY <1>4, <1>6, <1>7, <1>8, <1>9, <1>10

\* Who asks for a team that may ask, and what the others of it are.
LEMMA MatesAre ==
  ASSUME AnonInv, NEW c \in Gamers, NEW new \in BOOLEAN, MayAsk(c, new)
  PROVE  /\ ag.conn[c].cl = "idle" /\ ag.conn[c].team # <<>> /\ FreeInfos(ag) # {}
         /\ Mates(c) = TeamOf(ag.conn, c) /\ Mates(c) \subseteq Gamers /\ c \in Mates(c)
         /\ Circle(Now, c) = Mates(c) /\ Circle(ag, c) = Mates(c)
         /\ Head(ag.conn[c].team) \in Mates(c)
         /\ Former(c, new) = IF new THEN Mates(c) ELSE {}
         /\ \A d \in Mates(c) :
              /\ IsOn(ag.conn, d) => ag.conn[d].team = ag.conn[c].team
              /\ ag.conn[d].cl # "found" /\ ag.anon[d].info = 0
              /\ new => ag.conn[d].cl = "idle"
<1>1. /\ AnonState(ag) /\ TeamsInv(ag.conn) /\ Now.conn = ag.conn
  BY NowIs DEF AnonInv, Sound
<1>2. /\ ag.conn[c].cl = "idle" /\ ag.conn[c].team # <<>> /\ FreeInfos(ag) # {}
      /\ IF new THEN \A d \in Mates(c) : ag.conn[d].cl = "idle" ELSE ~ag.conn[c].tried
  BY DEF MayAsk
<1>3. Mates(c) = TeamOf(ag.conn, c) /\ Former(c, new) = IF new THEN Mates(c) ELSE {}
  BY DEF Mates, TeamOf, Former
<1>4. c \in TeamOf(ag.conn, c) /\ TeamOf(ag.conn, c) \subseteq Gamers
  BY <1>1, <1>2, TeamsAre DEF TeamsInv
<1>5. Head(ag.conn[c].team) \in TeamOf(ag.conn, c)
  BY <1>1, <1>2, TeamsAre
<1>6. Circle(Now, c) = Mates(c) /\ Circle(ag, c) = Mates(c)
  BY <1>1, <1>3, <1>4 DEF Circle
<1>7. ASSUME NEW d \in Mates(c)
      PROVE  /\ IsOn(ag.conn, d) => ag.conn[d].team = ag.conn[c].team
             /\ ag.conn[d].cl # "found" /\ ag.anon[d].info = 0
             /\ new => ag.conn[d].cl = "idle"
  <2>1. d \in Gamers /\ d \in TeamOf(ag.conn, c) /\ IsOn(ag.conn, c)
    BY <1>2, <1>3, <1>4, <1>7 DEF IsOn
  <2>2. IsOn(ag.conn, d) => ag.conn[d].team = ag.conn[c].team
    <3> SUFFICES ASSUME IsOn(ag.conn, d) PROVE ag.conn[d].team = ag.conn[c].team
      OBVIOUS
    <3>1. d \in {c} \cup TeamOf(ag.conn, c)
      BY <2>1
    <3> QED BY <1>1, <2>1, <3>1, TeamIs
  <2>3. ag.conn[d].cl # "found"
    <3> SUFFICES ASSUME ag.conn[d].cl = "found" PROVE FALSE
      OBVIOUS
    <3>1. ag.conn[c].tried
      BY <1>1, <2>1 DEF TeamsInv
    <3> QED BY <1>2, <1>7, <3>1
  <2>4. ag.anon[d].info = 0
    <3>1. ClientInv(ag.conn, ag.anon[d], d)
      BY <2>1 DEF AnonInv, Sound, ClientsInv
    <3> QED BY <2>3, <3>1 DEF ClientInv
  <2> QED BY <1>2, <1>7, <2>2, <2>3, <2>4
<1> QED BY <1>2, <1>3, <1>4, <1>5, <1>6, <1>7

\* The others of the team keep what there is of them.
LEMMA MatesStart ==
  ASSUME AnonInv, NEW c \in Gamers, NEW new \in BOOLEAN, MayAsk(c, new),
         NEW d \in Gamers \ {c}, d \in Mates(c)
  PROVE  LET s == Start(c, new)
         IN  s.conn[d].cl # "found" /\ ClientInv(s.conn, s.anon[d], d)
<1> DEFINE s == Start(c, new)
<1>1. /\ s.conn[d].cl = ag.conn[d].cl /\ s.conn[d].team = ag.conn[d].team
      /\ s.conn[d].tried <=> (ag.conn[d].tried /\ d \notin Former(c, new))
      /\ s.anon[d].queue = ag.anon[d].queue /\ s.anon[d].info = ag.anon[d].info
      /\ s.anon[d].tc = ag.anon[d].tc
      /\ s.anon[d].tid = IF d \in Former(c, new) THEN 0 ELSE ag.anon[d].tid
  BY StartIs
<1> HIDE DEF s
<1>2. /\ Former(c, new) = IF new THEN Mates(c) ELSE {}
      /\ ag.conn[c].team # <<>>
      /\ IsOn(ag.conn, d) => ag.conn[d].team = ag.conn[c].team
      /\ ag.conn[d].cl # "found" /\ (new => ag.conn[d].cl = "idle")
  BY MatesAre
<1>3. ClientInv(ag.conn, ag.anon[d], d)
  BY DEF AnonInv, Sound, ClientsInv
<1>4. TeamOf(s.conn, d) = TeamOf(ag.conn, d)
  BY <1>1 DEF TeamOf
<1>5. /\ s.conn[d].cl = "off" => s.anon[d].queue = None /\ s.conn[d].team = <<>>
      /\ s.anon[d].queue = None => s.anon[d].info = 0 /\ s.anon[d].tid = 0 /\ s.anon[d].tc = <<>>
      /\ s.anon[d].tc # <<>> => d \in ToSet(s.anon[d].tc)
      /\ ToSet(s.anon[d].tc) \subseteq TeamOf(s.conn, d) \cup {d, Freed}
      /\ s.anon[d].info # 0 => s.conn[d].cl = "found"
  BY <1>1, <1>3, <1>4 DEF ClientInv
<1>6. /\ s.conn[d].cl \in {"search", "found"} => s.conn[d].tried
      /\ s.anon[d].tid = 1 => s.conn[d].cl \in {"search", "found"}
  <2>1. CASE new
    BY <1>1, <1>2, <2>1
  <2>2. CASE ~new
    BY <1>1, <1>2, <1>3, <2>2 DEF ClientInv
  <2> QED BY <2>1, <2>2
<1>7. s.conn[d].cl # "off" => s.conn[d].team # <<>>
  BY <1>1, <1>2 DEF IsOn
<1>8. s.conn[d].cl # "found"
  BY <1>1, <1>2
<1>9. ClientInv(s.conn, s.anon[d], d)
  BY <1>5, <1>6, <1>7, <1>8 DEF ClientInv
<1> QED BY <1>8, <1>9 DEF s

\* What is true of a team where one has asked.
LEMMA StartAsking ==
  ASSUME AnonInv, NEW c \in Gamers, NEW new \in BOOLEAN, MayAsk(c, new),
         NEW t, t.conn = Start(c, new).conn, t.lists = ag.lists, t.infos = ag.infos,
         t.route = ag.route, t.ended = NotEnded,
         \A d \in Gamers \ Mates(c) : t.anon[d] = ag.anon[d],
         \A d \in Mates(c) : ClientInv(t.conn, t.anon[d], d)
  PROVE  Asking(Now, t, c)
<1> DEFINE s == Start(c, new)
<1>1. /\ s.conn[c].cl = "search" /\ s.conn[c].team = ag.conn[c].team
      /\ \A d \in Gamers \ {c} :
           /\ s.conn[d].cl = ag.conn[d].cl /\ s.conn[d].team = ag.conn[d].team
           /\ d \notin Former(c, new) => s.conn[d] = ag.conn[d]
  BY StartIs
<1>2. t.conn = s.conn
  OBVIOUS
<1> HIDE DEF s
<1>3. /\ Now.conn = ag.conn /\ Now.anon = ag.anon /\ Now.route = ag.route
      /\ Now.lists = ag.lists /\ Now.infos = ag.infos /\ Now.ended = NotEnded
  BY NowIs
<1>4. /\ ag.conn[c].cl = "idle" /\ Mates(c) \subseteq Gamers /\ c \in Mates(c)
      /\ Circle(Now, c) = Mates(c) /\ Former(c, new) = IF new THEN Mates(c) ELSE {}
      /\ \A d \in Mates(c) : ag.conn[d].cl # "found"
  BY MatesAre
<1>5. ASSUME NEW d \in Gamers \ Circle(Now, c)
      PROVE  t.conn[d] = Now.conn[d] /\ t.anon[d] = Now.anon[d]
  BY <1>1, <1>2, <1>3, <1>4, <1>5
<1>6. ASSUME NEW d \in Circle(Now, c)
      PROVE  /\ t.conn[d].team = Now.conn[d].team /\ IsOn(t.conn, d) = IsOn(Now.conn, d)
             /\ t.conn[d].cl # "found" /\ Now.conn[d].cl # "found"
             /\ ClientInv(t.conn, t.anon[d], d)
  <2>1. d \in Gamers /\ d \in Mates(c) /\ Now.conn[d].cl # "found" /\ ClientInv(t.conn, t.anon[d], d)
    BY <1>3, <1>4, <1>6
  <2>2. t.conn[d].team = Now.conn[d].team /\ IsOn(t.conn, d) = IsOn(Now.conn, d) /\ t.conn[d].cl # "found"
    <3>1. CASE d = c
      BY <1>1, <1>2, <1>3, <1>4, <3>1 DEF IsOn
    <3>2. CASE d # c
      BY <1>1, <1>2, <1>3, <1>4, <2>1, <3>2 DEF IsOn
    <3> QED BY <3>1, <3>2
  <2> QED BY <2>1, <2>2
<1> QED BY <1>3, <1>5, <1>6 DEF Asking

\* When one of a team has asked, everything is sound; and if all ask, the search of the team goes on.
LEMMA TeamGood ==
  ASSUME AnonInv, NEW c \in Gamers, NEW new \in BOOLEAN, MayAsk(c, new),
         NEW t, AnonState(t), t.conn = Start(c, new).conn, t.lists = ag.lists, t.infos = ag.infos,
         t.route = ag.route, t.ended = NotEnded,
         \A d \in Gamers \ Mates(c) : t.anon[d] = ag.anon[d],
         \A d \in Mates(c) : ClientInv(t.conn, t.anon[d], d),
         \A d \in Mates(c) : t.anon[d].info = 0,
         Open(t.conn, t.anon, Head(ag.conn[c].team)) =>
           \A d \in Mates(c) : t.anon[d].queue = "at2v2" /\ t.anon[d].tc = ag.conn[c].team
  PROVE  /\ Good(t)
         /\ AllOn(t, c) /\ AllAsk(t, c) =>
              /\ \A d \in Mates(c) : t.anon[d].queue = "at2v2"
              /\ \A prefs \in SUBSET Maps :
                   Good(Searched(t, c, Head(ag.conn[c].team), "at2v2", prefs))
<1> DEFINE h == Head(ag.conn[c].team)
           q == "at2v2"
<1>1. /\ ag.conn[c].cl = "idle" /\ ag.conn[c].team # <<>> /\ FreeInfos(ag) # {}
      /\ Mates(c) = TeamOf(ag.conn, c) /\ Mates(c) \subseteq Gamers /\ c \in Mates(c)
      /\ Circle(Now, c) = Mates(c) /\ Circle(ag, c) = Mates(c) /\ h \in Mates(c)
      /\ \A d \in Mates(c) : IsOn(ag.conn, d) => ag.conn[d].team = ag.conn[c].team
  BY MatesAre
<1>2. h = Head(ag.conn[c].team) /\ q = "at2v2" /\ q \in AnonTypes /\ anongame_arranged(q)
  BY Words DEF anongame_arranged
<1> HIDE DEF h, q
<1>3. /\ Sound(Now, None) /\ Now.conn = ag.conn /\ Now.anon = ag.anon /\ Now.route = ag.route
      /\ Now.lists = ag.lists /\ Now.infos = ag.infos /\ Now.ended = NotEnded
      /\ AnonState(Now) /\ TeamsInv(ag.conn) /\ AskedInv(Now.conn, Now.anon) /\ RoutesInv(Now.anon, Now.route)
  BY NowIs DEF Sound, AnonInv
<1>4. Asking(Now, t, c)
  BY StartAsking
<1>5. Sound(t, None) /\ RoutesInv(t.anon, t.route)
  <2>1. Now.conn[c].cl = "idle"
    BY <1>1, <1>3
  <2> QED BY <1>3, <1>4, <2>1, AskingSound
<1>6. AskedInv(t.conn, t.anon)
  <2>1. Now.conn[c].team # <<>> /\ Open(t.conn, t.anon, Head(Now.conn[c].team)) =>
          \A d \in TeamOf(Now.conn, c) : t.anon[d].queue = "at2v2" /\ t.anon[d].tc = Now.conn[c].team
    BY <1>1, <1>3
  <2>2. IsOn(Now.conn, c) /\ TeamsInv(Now.conn)
    BY <1>1, <1>3 DEF IsOn
  <2> QED BY <1>3, <1>4, <2>1, <2>2, AskingAsked
<1>7. Good(t)
  BY <1>5, <1>6 DEF Good, EndedOK
<1>8. ASSUME AllOn(t, c), AllAsk(t, c)
      PROVE  /\ \A d \in Mates(c) : t.anon[d].queue = "at2v2"
             /\ \A prefs \in SUBSET Maps : Good(Searched(t, c, h, q, prefs))
  <2>1. \A d \in Mates(c) : /\ IsOn(t.conn, d) /\ t.anon[d].tid = 1
                            /\ t.conn[d].team = ag.conn[d].team /\ IsOn(ag.conn, d)
                            /\ t.conn[d].cl # "found"
    BY <1>1, <1>3, <1>4, <1>8 DEF AllOn, AllAsk, IsOn, Asking
  <2>2. t.conn[h].team = ag.conn[c].team /\ ag.conn[h].team = ag.conn[c].team
    BY <1>1, <2>1
  <2>3. TeamOf(t.conn, h) = Mates(c) /\ TeamOf(ag.conn, h) = Mates(c)
    BY <1>1, <2>2, SMTT(40) DEF TeamOf
  <2>4. Open(t.conn, t.anon, h)
    BY <1>1, <1>2, <2>1, <2>2, <2>3 DEF Open
  <2>5. \A d \in Mates(c) : t.anon[d].queue = q /\ t.anon[d].tc = ag.conn[c].team
    BY <1>2, <2>4
  <2>6. \A d \in Mates(c) : t.conn[d].cl = "search"
    BY <2>1, SMTT(40) DEF ClientInv
  <2>7. Waits(t.conn, t.anon, q, h)
    BY <1>1, <1>2, <2>2, <2>3, <2>5, <2>6 DEF Waits, Waiting
  <2>8. \A i \in DOMAIN t.lists[q] : t.lists[q][i].c # h
    <3>1. h \in PlayersOf(ag.conn, q, h) /\ h \in Circle(ag, c) /\ h \in Gamers
      BY <1>1, <1>2, <2>3 DEF PlayersOf
    <3>2. \A i \in DOMAIN ag.lists[q] : ag.lists[q][i].c # h
      BY <1>1, <1>2, <3>1, NoEntry
    <3> QED BY <3>2
  <2>9. FreeInfos(t) # {} /\ h \in Gamers
    BY <1>1 DEF FreeInfos
  <2>10. \A prefs \in SUBSET Maps : Good(Searched(t, c, h, q, prefs))
    <3> TAKE prefs \in SUBSET Maps
    <3> QED BY <1>2, <1>5, <1>6, <2>7, <2>8, <2>9, SearchedGood
  <2> QED BY <1>2, <2>5, <2>10
<1> QED BY <1>2, <1>7, <1>8

\* What one who has asked has.
LEMMA AskerIs ==
  ASSUME AnonInv, NEW c \in Gamers, NEW new \in BOOLEAN, ag.conn[c].cl = "idle"
  PROVE  LET s == Start(c, new)
         IN  /\ s.anon[c].info = 0 /\ s.anon[c].queue # None
             /\ s.anon[c].tc # <<>> => c \in ToSet(s.anon[c].tc)
             /\ ToSet(s.anon[c].tc) \subseteq TeamOf(s.conn, c) \cup {c, Freed}
<1> DEFINE s == Start(c, new)
<1>1. /\ HasAnon(s, c) /\ s.conn[c].team = ag.conn[c].team
      /\ IF HasAnon(ag, c)
         THEN s.anon[c].queue = ag.anon[c].queue /\ s.anon[c].info = ag.anon[c].info
              /\ s.anon[c].tc = ag.anon[c].tc
         ELSE s.anon[c].info = 0 /\ s.anon[c].tc = <<>>
  BY StartIs
<1> HIDE DEF s
<1>2. /\ ag.anon[c].info = 0 /\ (ag.anon[c].tc # <<>> => c \in ToSet(ag.anon[c].tc))
      /\ ToSet(ag.anon[c].tc) \subseteq TeamOf(ag.conn, c) \cup {c, Freed}
  BY IdleHas
<1>3. TeamOf(s.conn, c) = TeamOf(ag.conn, c)
  BY <1>1 DEF TeamOf
<1>4. CASE HasAnon(ag, c)
  BY <1>1, <1>2, <1>3, <1>4 DEF s, HasAnon
<1>5. CASE ~HasAnon(ag, c)
  <2>1. s.anon[c].info = 0 /\ s.anon[c].tc = <<>> /\ s.anon[c].queue # None
    BY <1>1, <1>5 DEF HasAnon
  <2>2. ToSet(s.anon[c].tc) = {}
    BY <2>1, EmptyList
  <2> QED BY <2>1, <2>2 DEF s
<1> QED BY <1>4, <1>5

\* The search of a member who is not the inviter.
LEMMA TeamSearchGood ==
  ASSUME AnonInv, NEW c \in Gamers, NEW new \in BOOLEAN, at_search(c, new)
  PROVE  Good(ag')
<1> DEFINE s == Start(c, new)
           t == [s EXCEPT !.anon[c].tid = 1]
           h == Head(ag.conn[c].team)
<1>1. /\ MayAsk(c, new) /\ c # h
      /\ ag' = IF AllOn(t, c) /\ AllAsk(t, c)
               THEN Searched(t, c, h, t.anon[c].queue, t.anon[c].prefs) ELSE t
  BY DEF at_search, Start
<1>2. /\ ag.conn[c].cl = "idle" /\ ag.conn[c].team # <<>>
      /\ Mates(c) = TeamOf(ag.conn, c) /\ Mates(c) \subseteq Gamers /\ c \in Mates(c)
      /\ h \in Mates(c) /\ Former(c, new) = (IF new THEN Mates(c) ELSE {})
      /\ \A d \in Mates(c) : IsOn(ag.conn, d) => ag.conn[d].team = ag.conn[c].team
      /\ \A d \in Mates(c) : ag.anon[d].info = 0
  BY <1>1, MatesAre
<1>3. /\ AnonState(s) /\ s.route = ag.route /\ s.lists = ag.lists /\ s.infos = ag.infos
      /\ s.ended = NotEnded /\ HasAnon(s, c)
      /\ s.conn[c].cl = "search" /\ s.conn[c].team = ag.conn[c].team /\ s.conn[c].tried
      /\ \A d \in Gamers \ {c} :
           /\ s.conn[d].cl = ag.conn[d].cl /\ s.conn[d].team = ag.conn[d].team
           /\ s.anon[d].info = ag.anon[d].info
           /\ s.anon[d].tid = IF d \in Former(c, new) THEN 0 ELSE ag.anon[d].tid
           /\ d \notin Former(c, new) => s.conn[d] = ag.conn[d] /\ s.anon[d] = ag.anon[d]
      /\ HasAnon(ag, c) => s.anon[c].queue = ag.anon[c].queue /\ s.anon[c].tc = ag.anon[c].tc
  BY StartIs
<1>4. /\ s.anon[c].info = 0 /\ s.anon[c].queue # None
      /\ s.anon[c].tc # <<>> => c \in ToSet(s.anon[c].tc)
      /\ ToSet(s.anon[c].tc) \subseteq TeamOf(s.conn, c) \cup {c, Freed}
  BY <1>2, AskerIs
<1>5. s = Start(c, new) /\ h = Head(ag.conn[c].team)
  OBVIOUS
<1>6. ASSUME NEW d \in Gamers \ {c}, d \in Mates(c)
      PROVE  ClientInv(s.conn, s.anon[d], d)
  BY <1>1, <1>5, <1>6, MatesStart
<1> HIDE DEF s, h
<1>7. s.anon \in [Gamers -> AnonRec] /\ s.anon[c] \in AnonRec
  BY <1>3, AnonParts
<1>8. /\ AnonState(t) /\ t.conn = s.conn /\ t.route = s.route /\ t.lists = s.lists
      /\ t.infos = s.infos /\ t.ended = s.ended
      /\ \A d \in Gamers \ {c} : t.anon[d] = s.anon[d]
      /\ t.anon[c].tid = 1 /\ t.anon[c].queue = s.anon[c].queue /\ t.anon[c].tc = s.anon[c].tc
      /\ t.anon[c].info = s.anon[c].info /\ t.anon[c].prefs \in SUBSET Maps
  BY <1>3, <1>7, ZenonT(60) DEF AnonState, AnonRec
<1> HIDE DEF t
<1>9. ClientInv(t.conn, t.anon[c], c)
  BY <1>2, <1>3, <1>4, <1>8 DEF ClientInv
<1>10. \A d \in Mates(c) : ClientInv(t.conn, t.anon[d], d)
  BY <1>2, <1>6, <1>8, <1>9
<1>11. \A d \in Mates(c) : t.anon[d].info = 0
  BY <1>2, <1>3, <1>4, <1>8
<1>12. \A d \in Gamers \ Mates(c) : t.anon[d] = ag.anon[d]
  BY <1>2, <1>3, <1>8
<1>13. ASSUME Open(t.conn, t.anon, h)
       PROVE  \A d \in Mates(c) : t.anon[d].queue = "at2v2" /\ t.anon[d].tc = ag.conn[c].team
  <2>1. h \in Gamers \ {c} /\ t.anon[h].tid = 1 /\ t.conn[h].team # <<>> /\ h = Head(t.conn[h].team)
    BY <1>1, <1>2, <1>13 DEF Open
  <2>2. ~new /\ Former(c, new) = {} /\ ~ag.conn[c].tried
    BY <1>1, <1>2, <1>3, <1>8, <2>1 DEF MayAsk
  <2>3. \A d \in Gamers \ {c} : t.conn[d] = ag.conn[d] /\ t.anon[d] = ag.anon[d]
    BY <1>3, <1>8, <2>2
  <2>4. TeamOf(t.conn, h) = TeamOf(ag.conn, h) /\ TeamOf(ag.conn, h) \subseteq Gamers
    <3>1. AnonState(ag)
      BY DEF AnonInv, Sound
    <3> QED BY <2>1, <2>3, <3>1, TeamsAre DEF TeamOf
  <2>5. IsOn(ag.conn, c)
    BY <1>2 DEF IsOn
  <2>6. Open(ag.conn, ag.anon, h)
    BY <1>13, <2>1, <2>2, <2>3, <2>4, <2>5 DEF Open, IsOn
  <2>7. h \in TeamOf(ag.conn, h)
    BY <2>1, <2>6 DEF AnonInv, Sound, TeamsInv, Open
  <2>8. ag.conn[h].team = ag.conn[c].team
    BY <1>2, <2>6, <2>7 DEF Open
  <2>9. \A d \in Mates(c) : ag.anon[d].queue = "at2v2" /\ ag.anon[d].tc = ag.conn[c].team
    <3>1. TeamOf(ag.conn, h) = Mates(c)
      BY <1>2, <2>8 DEF TeamOf
    <3> QED BY <2>1, <2>6, <2>8, <3>1 DEF AnonInv, AskedInv
  <2>10. HasAnon(ag, c)
    BY <1>2, <2>9, Words DEF HasAnon
  <2> QED BY <1>2, <1>3, <1>8, <2>3, <2>9, <2>10
<1>14. /\ Good(t)
       /\ AllOn(t, c) /\ AllAsk(t, c) =>
            /\ \A d \in Mates(c) : t.anon[d].queue = "at2v2"
            /\ \A prefs \in SUBSET Maps : Good(Searched(t, c, h, "at2v2", prefs))
  <2>1. t.conn = Start(c, new).conn /\ t.lists = ag.lists /\ t.infos = ag.infos /\ t.route = ag.route
        /\ t.ended = NotEnded
    BY <1>3, <1>5, <1>8
  <2>2. Open(t.conn, t.anon, Head(ag.conn[c].team)) =>
          \A d \in Mates(c) : t.anon[d].queue = "at2v2" /\ t.anon[d].tc = ag.conn[c].team
    BY <1>5, <1>13
  <2>3. /\ Good(t)
        /\ AllOn(t, c) /\ AllAsk(t, c) =>
             /\ \A d \in Mates(c) : t.anon[d].queue = "at2v2"
             /\ \A prefs \in SUBSET Maps :
                  Good(Searched(t, c, Head(ag.conn[c].team), "at2v2", prefs))
    BY <1>1, <1>8, <1>10, <1>11, <1>12, <2>1, <2>2, TeamGood
  <2> QED BY <1>5, <2>3
<1> QED BY <1>1, <1>2, <1>8, <1>14

-----------------------------------------------------------------------------
\* What the others of a team are given.
Given(s, t) ==
  /\ AnonState(t) /\ t.conn = s.conn /\ t.route = s.route /\ t.lists = s.lists
  /\ t.infos = s.infos /\ t.ended = s.ended
  /\ \A d \in Gamers : t.anon[d] = s.anon[d] \/ (t.anon[d].info = 0 /\ t.anon[d].tid = 0)
GivenTo(s, t, D) == Given(s, t) /\ \A d \in Gamers \ D : t.anon[d] = s.anon[d]
CreateTurn(p, a, d) == conn_create_anongame(a, d)
CreateTo(p, k, a) == GivenTo(p[1], a, {p[2][j] : j \in 1..k})
CreateFold == INSTANCE FoldInduction WITH Op <- CreateTurn, Inv <- CreateTo

\* A game structure is made for each of a team who has none.
LEMMA CreatedIs ==
  ASSUME NEW s, AnonState(s), NEW team \in Seq(Gamers)
  PROVE  GivenTo(s, FoldLeft(conn_create_anongame, s, team), ToSet(team))
<1> DEFINE p == <<s, team>>
           n == Len(team)
<1>1. p[1] = s /\ p[2] = team /\ n \in Nat /\ DOMAIN team = 1..n
  OBVIOUS
<1> HIDE DEF p, n
<1>2. CreateTo(p, 0, s)
  <2>1. {p[2][j] : j \in 1..0} = {}
    OBVIOUS
  <2> QED BY <1>1, <2>1 DEF CreateTo, GivenTo, Given
<1>3. \A a : \A i \in 1..n : CreateTo(p, i - 1, a) => CreateTo(p, i, CreateTurn(p, a, team[i]))
  <2> SUFFICES ASSUME NEW a, NEW i \in 1..n, CreateTo(p, i - 1, a)
               PROVE  CreateTo(p, i, CreateTurn(p, a, team[i]))
    OBVIOUS
  <2> DEFINE D == {team[j] : j \in 1..(i - 1)}
             E == {team[j] : j \in 1..i}
             c == team[i]
             t == conn_create_anongame(a, c)
  <2>1. GivenTo(s, a, D)
    BY <1>1 DEF CreateTo
  <2>2. E = D \cup {c}
    <3>1. \A j \in 1..i : j = i \/ j \in 1..(i - 1)
      BY <1>1
    <3>2. i \in 1..i /\ \A j \in 1..(i - 1) : j \in 1..i
      BY <1>1
    <3> QED BY <3>1, <3>2
  <2>3. c \in Gamers
    BY <1>1
  <2> HIDE DEF D, E, c
  <2>4. AnonState(a)
    BY <2>1 DEF GivenTo, Given
  <2>5. /\ AnonState(t) /\ t.conn = a.conn /\ t.route = a.route /\ t.lists = a.lists
        /\ t.infos = a.infos /\ t.ended = a.ended
        /\ \A d \in Gamers : d # c => t.anon[d] = a.anon[d]
        /\ t.anon[c] = a.anon[c] \/ (t.anon[c].info = 0 /\ t.anon[c].tid = 0)
    BY <2>3, <2>4, CreateIs
  <2> HIDE DEF t
  <2>6. Given(s, t)
    <3>1. ASSUME NEW d \in Gamers
          PROVE  t.anon[d] = s.anon[d] \/ (t.anon[d].info = 0 /\ t.anon[d].tid = 0)
      BY <2>1, <2>5 DEF GivenTo, Given
    <3> QED BY <2>1, <2>5, <3>1 DEF GivenTo, Given
  <2>7. \A d \in Gamers \ E : t.anon[d] = s.anon[d]
    BY <2>1, <2>2, <2>5 DEF GivenTo
  <2>8. GivenTo(s, t, E)
    BY <2>6, <2>7 DEF GivenTo
  <2> QED BY <1>1, <2>8 DEF CreateTo, CreateTurn, E, t, c
<1>4. CreateTo(p, n, CreateFold!Fold(p, s, team))
  BY <1>1, <1>2, <1>3, CreateFold!FoldLeftInv
<1>5. FoldLeft(conn_create_anongame, s, team) = CreateFold!Fold(p, s, team)
  BY DEF CreateTurn, FoldLeft, MapThenFoldSet, Max,
         CreateFold!Fold, CreateFold!Greatest
<1>6. {p[2][j] : j \in 1..n} = ToSet(team)
  BY <1>1 DEF ToSet
<1> QED BY <1>1, <1>4, <1>5, <1>6 DEF CreateTo

\* The search of the inviter, which names the team and what it wants.
LEMMA InviterGood ==
  ASSUME AnonInv, NEW c \in Gamers, NEW new \in BOOLEAN, NEW prefs \in PrefsSent,
         at_inviter_search(c, prefs, new)
  PROVE  Good(ag')
<1> DEFINE s == Start(c, new)
           own == [s EXCEPT !.anon[c].queue = "at2v2", !.anon[c].prefs = prefs, !.anon[c].tid = 1]
           team == ag.conn[c].team
           all == FoldLeft(conn_create_anongame, own, team)
           A == [d \in Gamers |->
                  IF d \in Mates(c)
                  THEN [all.anon[d] EXCEPT !.tc = team, !.queue = "at2v2", !.prefs = prefs]
                  ELSE all.anon[d]]
           t == [all EXCEPT !.anon = A]
<1>1. /\ MayAsk(c, new) /\ c = Head(team)
      /\ ag' = IF ~AllOn(own, c) THEN own
               ELSE IF ~AllAsk(t, c) THEN t
               ELSE Searched(t, c, c, "at2v2", prefs)
  BY ZenonT(60) DEF at_inviter_search, Start
<1>2. /\ ag.conn[c].cl = "idle" /\ team # <<>>
      /\ Mates(c) = TeamOf(ag.conn, c) /\ Mates(c) \subseteq Gamers /\ c \in Mates(c)
      /\ \A d \in Mates(c) : IsOn(ag.conn, d) => ag.conn[d].team = team
      /\ \A d \in Mates(c) : ag.anon[d].info = 0
  BY <1>1, MatesAre, ZenonT(60)
<1>3. prefs \in SUBSET Maps /\ "at2v2" \in AnonTypes /\ "at2v2" # None
  BY AnonGameAssumption, Words
<1>4. team \in Seq(Gamers) /\ ToSet(team) = Mates(c)
  <2>1. AnonState(ag)
    BY DEF AnonInv, Sound
  <2> QED BY <2>1, TeamsAre DEF Mates
<1>5. /\ AnonState(s) /\ s.route = ag.route /\ s.lists = ag.lists /\ s.infos = ag.infos
      /\ s.ended = NotEnded
      /\ s.conn[c].cl = "search" /\ s.conn[c].team = team /\ s.conn[c].tried
      /\ \A d \in Gamers \ {c} :
           /\ s.conn[d].cl = ag.conn[d].cl /\ s.conn[d].team = ag.conn[d].team
           /\ s.anon[d].info = ag.anon[d].info
           /\ d \notin Former(c, new) => s.anon[d] = ag.anon[d]
  BY StartIs
<1>6. /\ s.anon[c].info = 0 /\ s.anon[c].queue # None
      /\ s.anon[c].tc # <<>> => c \in ToSet(s.anon[c].tc)
      /\ ToSet(s.anon[c].tc) \subseteq TeamOf(s.conn, c) \cup {c, Freed}
  BY <1>2, AskerIs
<1>7. ASSUME NEW d \in Gamers \ {c}, d \in Mates(c)
      PROVE  s.conn[d].cl # "found" /\ ClientInv(s.conn, s.anon[d], d)
  BY <1>1, <1>7, MatesStart, ZenonT(60)
<1>8. s.conn = Start(c, new).conn /\ team = ag.conn[c].team
  OBVIOUS
<1>9. Former(c, new) \subseteq Mates(c)
  BY DEF Former
<1>10. own = [s EXCEPT !.anon[c].queue = "at2v2", !.anon[c].prefs = prefs, !.anon[c].tid = 1]
  OBVIOUS
<1> HIDE DEF s, own, all, A, t, team
<1>11. s.anon \in [Gamers -> AnonRec] /\ s.anon[c] \in AnonRec
  BY <1>5, AnonParts
<1>12. /\ AnonState(own) /\ own.conn = s.conn /\ own.route = s.route /\ own.lists = s.lists
       /\ own.infos = s.infos /\ own.ended = s.ended
       /\ \A d \in Gamers \ {c} : own.anon[d] = s.anon[d]
       /\ own.anon[c].tid = 1 /\ own.anon[c].queue = "at2v2" /\ own.anon[c].tc = s.anon[c].tc
       /\ own.anon[c].info = s.anon[c].info
  BY <1>3, <1>5, <1>10, <1>11, ZenonT(60) DEF AnonState, AnonRec
<1>13. ClientInv(own.conn, own.anon[c], c)
  BY <1>2, <1>3, <1>5, <1>6, <1>12 DEF ClientInv
<1>14. \A d \in Mates(c) : ClientInv(own.conn, own.anon[d], d)
  BY <1>2, <1>7, <1>12, <1>13
<1>15. \A d \in Mates(c) : own.anon[d].info = 0 /\ own.conn[d].cl # "found"
  BY <1>2, <1>5, <1>6, <1>7, <1>12
<1>16. \A d \in Gamers \ Mates(c) : own.anon[d] = ag.anon[d]
  BY <1>2, <1>5, <1>9, <1>12
<1>17. CASE ~AllOn(own, c)
  <2>1. own.conn = Start(c, new).conn /\ own.lists = ag.lists /\ own.infos = ag.infos
        /\ own.route = ag.route /\ own.ended = NotEnded
    BY <1>5, <1>8, <1>12
  <2>2. ~Open(own.conn, own.anon, c)
    <3>1. TeamOf(own.conn, c) = Mates(c)
      BY <1>4, <1>5, <1>12 DEF TeamOf
    <3> QED BY <1>17, <3>1 DEF Open, AllOn, IsOn
  <2>3. Open(own.conn, own.anon, Head(ag.conn[c].team)) =>
          \A d \in Mates(c) : own.anon[d].queue = "at2v2" /\ own.anon[d].tc = ag.conn[c].team
    BY <1>1, <1>8, <2>2, ZenonT(60)
  <2>4. \A d \in Mates(c) : own.anon[d].info = 0
    BY <1>15
  <2>5. Good(own)
    BY <1>1, <1>12, <1>14, <1>16, <2>1, <2>3, <2>4, TeamGood
  <2> QED BY <1>1, <1>17, <2>5
<1>18. CASE AllOn(own, c)
  <2>1. GivenTo(own, all, Mates(c))
    BY <1>4, <1>12, CreatedIs DEF all
  <2>2. /\ AnonState(all) /\ all.conn = own.conn /\ all.route = own.route /\ all.lists = own.lists
        /\ all.infos = own.infos /\ all.ended = own.ended
        /\ \A d \in Gamers : all.anon[d] = own.anon[d] \/ (all.anon[d].info = 0 /\ all.anon[d].tid = 0)
        /\ \A d \in Gamers \ Mates(c) : all.anon[d] = own.anon[d]
    BY <2>1 DEF GivenTo, Given
  <2>3. all.anon \in [Gamers -> AnonRec]
    BY <2>2, AnonParts
  <2>4. team \in Seq(Gamers \cup {Freed})
    BY <1>4
  <2>5. ASSUME NEW d \in Gamers
        PROVE  /\ A[d] \in AnonRec
               /\ d \in Mates(c) => /\ A[d].tc = team /\ A[d].queue = "at2v2"
                                    /\ A[d].info = all.anon[d].info /\ A[d].tid = all.anon[d].tid
               /\ d \notin Mates(c) => A[d] = all.anon[d]
    <3>1. all.anon[d] \in AnonRec
      BY <2>3
    <3>2. A[d] = IF d \in Mates(c)
                 THEN [all.anon[d] EXCEPT !.tc = team, !.queue = "at2v2", !.prefs = prefs]
                 ELSE all.anon[d]
      BY DEF A
    <3> QED BY <1>3, <2>4, <3>1, <3>2, ZenonT(60) DEF AnonRec
  <2>6. A \in [Gamers -> AnonRec]
    <3>1. A = [d \in Gamers |-> A[d]]
      BY DEF A
    <3> QED BY <2>5, <3>1
  <2>7. /\ AnonState(t) /\ t.conn = all.conn /\ t.route = all.route /\ t.lists = all.lists
        /\ t.infos = all.infos /\ t.ended = all.ended /\ t.anon = A
    BY <2>2, <2>6 DEF AnonState, t
  <2>8. ASSUME NEW d \in Mates(c)
        PROVE  /\ t.anon[d].tc = team /\ t.anon[d].queue = "at2v2" /\ t.anon[d].info = 0
               /\ ClientInv(t.conn, t.anon[d], d)
    <3>1. d \in Gamers
      BY <1>2
    <3>2. /\ t.anon[d].tc = team /\ t.anon[d].queue = "at2v2"
          /\ t.anon[d].info = all.anon[d].info /\ t.anon[d].tid = all.anon[d].tid
      BY <2>5, <2>7, <3>1
    <3>3. all.anon[d] = own.anon[d] \/ (all.anon[d].info = 0 /\ all.anon[d].tid = 0)
      BY <2>2, <3>1
    <3>4. t.anon[d].info = 0 /\ t.anon[d].tid \in {0, own.anon[d].tid}
      BY <1>15, <3>2, <3>3
    <3>5. ClientInv(own.conn, own.anon[d], d) /\ t.conn = own.conn /\ t.conn[d].cl # "found"
      BY <1>14, <1>15, <2>2, <2>7
    <3>6. t.conn[d].cl # "off" /\ t.conn[d].team = team
      <4>1. own.conn[d].cl # "off"
        BY <1>18 DEF AllOn
      <4>2. CASE d = c
        BY <1>5, <1>12, <3>5, <4>1, <4>2
      <4>3. CASE d # c
        BY <1>2, <1>5, <1>12, <3>1, <3>5, <4>1, <4>3 DEF IsOn
      <4> QED BY <4>2, <4>3
    <3>7. ToSet(t.anon[d].tc) = TeamOf(t.conn, d) /\ d \in ToSet(t.anon[d].tc)
      BY <1>4, <3>2, <3>6 DEF TeamOf
    <3>8. ClientInv(t.conn, t.anon[d], d)
      BY <1>2, <1>3, <3>2, <3>4, <3>5, <3>6, <3>7 DEF ClientInv
    <3> QED BY <3>2, <3>4, <3>8
  <2>9. \A d \in Gamers \ Mates(c) : t.anon[d] = ag.anon[d]
    BY <1>16, <2>2, <2>5, <2>7
  <2>10. t.conn = Start(c, new).conn /\ t.lists = ag.lists /\ t.infos = ag.infos
         /\ t.route = ag.route /\ t.ended = NotEnded
    BY <1>5, <1>8, <1>12, <2>2, <2>7
  <2>11. Open(t.conn, t.anon, Head(ag.conn[c].team)) =>
           \A d \in Mates(c) : t.anon[d].queue = "at2v2" /\ t.anon[d].tc = ag.conn[c].team
    BY <1>8, <2>8
  <2>12. /\ \A d \in Mates(c) : ClientInv(t.conn, t.anon[d], d)
         /\ \A d \in Mates(c) : t.anon[d].info = 0
    BY <2>8
  <2>13. /\ Good(t)
         /\ AllOn(t, c) /\ AllAsk(t, c) =>
              /\ \A d \in Mates(c) : t.anon[d].queue = "at2v2"
              /\ \A wanted \in SUBSET Maps :
                   Good(Searched(t, c, Head(ag.conn[c].team), "at2v2", wanted))
    BY <1>1, <2>7, <2>9, <2>10, <2>11, <2>12, TeamGood
  <2>14. AllOn(t, c)
    BY <1>18, <2>2, <2>7 DEF AllOn
  <2> QED BY <1>1, <1>3, <1>8, <1>18, <2>13, <2>14, ZenonT(60)
<1> QED BY <1>17, <1>18

-----------------------------------------------------------------------------
\* The invariant, with the results of the last step.
AnonSafe == AnonInv /\ EndedOK(ag.ended)

\* Nobody is there at the start.
LEMMA AnonInitSafe == AnonInit => AnonSafe
<1> SUFFICES ASSUME AnonInit PROVE AnonSafe
  OBVIOUS
<1>1. /\ ag.conn = [c \in Gamers |-> Off] /\ ag.anon = [c \in Gamers |-> NoAnon]
      /\ ag.route = [c \in Gamers |-> FALSE] /\ ag.lists = [q \in AnonTypes |-> <<>>]
      /\ ag.infos = [g \in AnonGames |-> NoInfo] /\ ag.ended = NotEnded
  BY DEF AnonInit
<1>2. /\ NoAnon \in AnonRec /\ NoInfo \in InfoRec /\ Off \in ConnRec
      /\ NoAnon.queue = None /\ NoAnon.info = 0 /\ NoAnon.tid = 0 /\ NoAnon.tc = <<>>
      /\ Off.cl = "off" /\ Off.team = <<>>
  BY Nothing
<1>3. AnonState(ag)
  <2> DEFINE C == [c \in Gamers |-> Off]
             A == [c \in Gamers |-> NoAnon]
             R == [c \in Gamers |-> FALSE]
             L == [q \in AnonTypes |-> <<>>]
             I == [g \in AnonGames |-> NoInfo]
  <2>1. /\ C \in [Gamers -> ConnRec] /\ A \in [Gamers -> AnonRec] /\ R \in [Gamers -> BOOLEAN]
        /\ L \in [AnonTypes -> Seq(EntryRec)] /\ I \in [AnonGames -> InfoRec]
    BY <1>2
  <2>2. ag = [conn |-> C, anon |-> A, route |-> R, lists |-> L, infos |-> I, ended |-> NotEnded]
    BY DEF AnonInit
  <2> HIDE DEF C, A, R, L, I
  <2> QED BY <2>1, <2>2 DEF AnonState
<1>4. ToSet(<<>>) = {} /\ DOMAIN <<>> = {}
  BY EmptyList
<1>5. \A c \in Gamers : ag.conn[c] = Off /\ ag.anon[c] = NoAnon /\ ~ag.route[c]
  BY <1>1
<1>6. ClientsInv(ag.conn, ag.anon)
  <2> SUFFICES ASSUME NEW c \in Gamers PROVE ClientInv(ag.conn, ag.anon[c], c)
    BY DEF ClientsInv
  <2> QED BY <1>2, <1>4, <1>5 DEF ClientInv
<1>7. TeamsInv(ag.conn)
  BY <1>2, <1>5 DEF TeamsInv, IsOn
<1>8. \A q \in AnonTypes : QueueInv(ag.conn, ag.anon, q, ag.lists[q])
  <2> TAKE q \in AnonTypes
  <2>1. ag.lists[q] = <<>>
    BY <1>1
  <2> QED BY <1>4, <2>1 DEF QueueInv, OneEach
<1>9. GamesInv(ag.infos, ag.anon, ag.route, None)
  BY <1>1, <1>2, <1>5 DEF GamesInv
<1>10. RoutesInv(ag.anon, ag.route)
  BY <1>5 DEF RoutesInv
<1>11. AskedInv(ag.conn, ag.anon)
  <2> SUFFICES ASSUME NEW c \in Gamers, Open(ag.conn, ag.anon, c) PROVE FALSE
    BY DEF AskedInv
  <2> QED BY <1>2, <1>5 DEF Open
<1> QED BY <1>1, <1>3, <1>6, <1>7, <1>8, <1>9, <1>10, <1>11 DEF AnonSafe, AnonInv, Sound, EndedOK

\* What clients report is a list of results.
LEMMA ToldAre ==
  ASSUME AnonInv, NEW c \in Gamers, ag.route[c]
  PROVE  Told(c) \subseteq Report
<1>1. ag.anon[c].info # 0
  BY DEF AnonInv, RoutesInv
<1>2. InfoOf(ag, c) \in InfoRec
  BY <1>1, GameOf, ZenonT(60) DEF InfoOf
<1>3. InfoOf(ag, c).player \in Seq(Gamers \cup {None})
  BY <1>2, InfoFields
<1> DEFINE n == Len(InfoOf(ag, c).player)
<1>4. n \in Nat /\ DOMAIN InfoOf(ag, c).player = 1..n
  BY <1>3, Elements
<1>5. Told(c) = {<<>>} \cup [1..n -> {"win", "loss"}]
  BY <1>4 DEF Told
<1> HIDE DEF n
<1> QED BY <1>4, <1>5 DEF Report

\* Every handler keeps the invariant.
LEMMA AnonNextGood == ASSUME AnonInv, AnonNext PROVE Good(ag')
<1>1. PICK c \in Gamers :
        \/ \E level \in 0..TopLevel, version \in Versions, team \in Teams :
             anon_login(c, level, version, team)
        \/ \E q \in AnonQueues, prefs \in PrefsSent : anongame_search(c, q, prefs)
        \/ \E new \in BOOLEAN :
             at_search(c, new) \/ \E prefs \in PrefsSent : at_inviter_search(c, prefs, new)
        \/ anongame_cancel(c) \/ w3route_req(c) \/ anongame_join(c) \/ w3route_loadingdone(c)
        \/ /\ ag.route[c]
           /\ \E moves \in SUBSET ToSet(InfoOf(ag, c).account) :
                \/ w3route_close(c, moves)
                \/ \E report \in Told(c) : w3route_gameresult(c, report, moves)
        \/ anon_conn_destroy(c)
  BY DEF AnonNext
<1>2. CASE \E level \in 0..TopLevel, version \in Versions, team \in Teams :
             anon_login(c, level, version, team)
  BY <1>2, LoginGood
<1>3. CASE \E q \in AnonQueues, prefs \in PrefsSent : anongame_search(c, q, prefs)
  BY <1>3, SearchGood
<1>4. CASE \E new \in BOOLEAN :
             at_search(c, new) \/ \E prefs \in PrefsSent : at_inviter_search(c, prefs, new)
  BY <1>4, TeamSearchGood, InviterGood
<1>5. CASE anongame_cancel(c)
  BY <1>5, CancelGood
<1>6. CASE w3route_req(c)
  BY <1>6, RouteReqGood
<1>7. CASE anongame_join(c)
  BY <1>7, JoinGood
<1>8. CASE w3route_loadingdone(c)
  BY <1>8, LoadedGood
<1>9. CASE /\ ag.route[c]
           /\ \E moves \in SUBSET ToSet(InfoOf(ag, c).account) :
                \/ w3route_close(c, moves)
                \/ \E report \in Told(c) : w3route_gameresult(c, report, moves)
  <2>1. Told(c) \subseteq Report
    BY <1>9, ToldAre
  <2> QED BY <1>9, <2>1, CloseGood, ResultGood
<1>10. CASE anon_conn_destroy(c)
  BY <1>10, GoneGood
<1> QED BY <1>1, <1>2, <1>3, <1>4, <1>5, <1>6, <1>7, <1>8, <1>9, <1>10

\* Clients, teams, queues, games and routes are in step with each other, always: the invariant
\* of anonymous games, with what has been told and counted (anongame.cpp, handle_anongame.cpp).
THEOREM AnonInvHolds == AnonSpec => []AnonSafe
<1>1. AnonInit => AnonSafe
  BY AnonInitSafe
<1>2. AnonSafe /\ [AnonNext]_ag => AnonSafe'
  <2> SUFFICES ASSUME AnonSafe, [AnonNext]_ag PROVE AnonSafe'
    OBVIOUS
  <2>1. CASE AnonNext
    <3>1. Good(ag')
      BY <2>1, AnonNextGood DEF AnonSafe
    <3> QED BY <3>1 DEF Good, AnonSafe, AnonInv
  <2>2. CASE UNCHANGED ag
    BY <2>2 DEF AnonSafe, AnonInv
  <2> QED BY <2>1, <2>2
<1> QED BY <1>1, <1>2, PTL DEF AnonSpec

\* All values are of their types, and a w3route connection is that of a player in a game.
THEOREM AnonTypeCorrect == AnonSpec => []AnonTypeOK
<1>1. AnonSafe => AnonTypeOK
  <2> SUFFICES ASSUME AnonInv, NEW c \in Gamers
               PROVE  LET a == ag.anon[c]
                      IN  /\ ag.conn[c].cl \in {"off", "idle", "search", "found"}
                          /\ ag.conn[c].level \in 0..TopLevel /\ ag.route[c] \in BOOLEAN
                          /\ a.queue \in AnonTypes \cup {None} /\ a.prefs \subseteq Maps /\ a.tid \in {0, 1}
                          /\ a.tc \in Seq(Gamers \cup {Freed}) /\ a.info \in AnonGames \cup {0}
                          /\ a.joined \in BOOLEAN /\ a.loaded \in BOOLEAN
                          /\ ag.route[c] => HasAnon(ag, c) /\ a.info # 0
    BY DEF AnonSafe, AnonTypeOK
  <2>1. ag.conn[c] \in ConnRec /\ ag.anon[c] \in AnonRec /\ ag.route[c] \in BOOLEAN
    BY AnonParts DEF AnonInv, Sound
  <2>2. ag.route[c] => HasAnon(ag, c) /\ ag.anon[c].info # 0
    <3>1. ClientInv(ag.conn, ag.anon[c], c)
      BY SMTT(40) DEF AnonInv, Sound, ClientsInv
    <3> QED BY <3>1 DEF AnonInv, RoutesInv, ClientInv, HasAnon
  <2> QED BY <2>1, <2>2, ConnFields, AnonFields
<1> QED BY <1>1, AnonInvHolds, PTL

\* Everybody is in one match at most, of which his connection knows; a game counts who is
\* still there: for any number of players, maps, versions, queues and games.
THEOREM AnonEachInOneMatch == AnonSpec => []EachInOneMatch
<1>1. AnonSafe => EachInOneMatch
  <2> SUFFICES ASSUME AnonInv PROVE EachInOneMatch
    BY DEF AnonSafe
  <2>0. /\ AnonState(ag) /\ TeamsInv(ag.conn) /\ GamesInv(ag.infos, ag.anon, ag.route, None)
        /\ \A q \in AnonTypes : QueueInv(ag.conn, ag.anon, q, ag.lists[q])
    BY DEF AnonInv, Sound
  <2>1. ASSUME NEW g \in AnonGames, ag.infos[g] # NoInfo
        PROVE  LET I == ag.infos[g]
                   taken == {n \in DOMAIN I.player : I.player[n] # None}
               IN  /\ I.cur = Cardinality(taken) /\ I.cur > 0
                   /\ \A n \in taken : ag.anon[I.player[n]].info = g /\ ag.anon[I.player[n]].num = n
    <3>1. GameInv(ag.infos[g], g, ag.anon, ag.route, None)
      BY <2>0, <2>1, SMTT(40) DEF GamesInv
    <3> QED BY <3>1, ZenonT(60) DEF GameInv, SeatInv, Taken
  <2>2. ASSUME NEW c \in Gamers, ag.anon[c].info # 0
        PROVE  c \in Seated(ag.anon[c].info)
    <3>1. /\ ag.anon[c].num \in DOMAIN ag.infos[ag.anon[c].info].player
          /\ ag.infos[ag.anon[c].info].player[ag.anon[c].num] = c
      BY <2>0, <2>2 DEF GamesInv
    <3> QED BY <3>1, Words, SMTT(40) DEF Seated, ToSet
  <2>3. ASSUME NEW q \in AnonTypes, NEW i \in DOMAIN ag.lists[q],
               NEW c \in Players(ag.lists[q][i], q)
        PROVE  /\ ag.anon[c].queue = q /\ ag.anon[c].info = 0 /\ ag.conn[c].cl = "search"
               /\ \A r \in AnonTypes : \A j \in DOMAIN ag.lists[r] :
                    <<r, j>> # <<q, i>> => c \notin Players(ag.lists[r][j], r)
    <3>1. \A r \in AnonTypes : \A j \in DOMAIN ag.lists[r] :
            /\ Players(ag.lists[r][j], r) = PlayersOf(ag.conn, r, ag.lists[r][j].c)
            /\ Waits(ag.conn, ag.anon, r, ag.lists[r][j].c) /\ ag.lists[r][j].c \in Gamers
      <4> TAKE r \in AnonTypes
      <4> TAKE j \in DOMAIN ag.lists[r]
      <4>1. ag.lists[r] \in Seq(EntryRec)
        BY <2>0, AnonParts
      <4>2. ag.lists[r][j] \in EntryRec
        BY <4>1, Elements
      <4> QED BY <2>0, <4>2 DEF Players, PlayersOf, Mates, TeamOf, QueueInv, EntryRec
    <3>2. Waiting(ag.conn, ag.anon, q, c)
      BY <2>3, <3>1, PlayersWait
    <3>3. ASSUME NEW r \in AnonTypes, NEW j \in DOMAIN ag.lists[r], <<r, j>> # <<q, i>>
          PROVE  c \notin Players(ag.lists[r][j], r)
      <4>1. q # r \/ ag.lists[q][i].c # ag.lists[r][j].c
        BY <2>0, <3>3 DEF QueueInv, OneEach
      <4>2. /\ Waits(ag.conn, ag.anon, q, ag.lists[q][i].c) /\ ag.lists[q][i].c \in Gamers
            /\ Waits(ag.conn, ag.anon, r, ag.lists[r][j].c) /\ ag.lists[r][j].c \in Gamers
        BY <3>1
      <4>3. PlayersOf(ag.conn, q, ag.lists[q][i].c) \cap PlayersOf(ag.conn, r, ag.lists[r][j].c) = {}
        BY <2>0, <4>1, <4>2, EntriesApart
      <4> QED BY <2>3, <3>1, <4>3
    <3> QED BY <3>2, <3>3 DEF Waiting
  <2> QED BY <2>1, <2>2, <2>3 DEF EachInOneMatch
<1> QED BY <1>1, AnonInvHolds, PTL

\* What has been matched suits each other (_anongame_match): levels, versions and maps, however
\* many levels are searched.
THEOREM AnonMatchedSuit == AnonSpec => []MatchedSuit
<1>1. AnonSafe => MatchedSuit
  BY DEF AnonSafe, AnonInv, Sound, GamesInv, GameInv, MatchedSuit
<1> QED BY <1>1, AnonInvHolds, PTL

\* Results are counted once, when no more can come, by what more of the reports say
\* (anongame_stats, anongame_evaluate_results).
THEOREM AnonResultIsFinal == AnonSpec => []ResultIsFinal
<1>1. AnonSafe => ResultIsFinal
  BY DEF AnonSafe, EndedOK, ResultIsFinal
<1> QED BY <1>1, AnonInvHolds, PTL
=============================================================================
