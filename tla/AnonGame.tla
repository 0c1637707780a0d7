------------------------------ MODULE AnonGame ------------------------------
(***************************************************************************)
(* Anonymous games of bnetd (Warcraft III): players ask for an opponent,   *)
(* wait in a queue by their level, are put into a game with others, meet   *)
(* there over a second connection each (w3route), and report who has won.  *)
(* Arranged teams wait as one entry, made once all their members have      *)
(* asked.  Each handler is one step, an operator over the state ag.        *)
(***************************************************************************)
EXTENDS Integers, FiniteSets, SequencesExt, TLC

CONSTANTS
  Gamers,                  \* the connections of players
  Maps, PrefsSent,         \* maps, and the sets of them that players ask for
  Versions,                \* of the game; what is not checked has none ("none")
  AnonQueues,              \* the queues in use
  MaxDiff,                 \* war3_get_maxleveldiff
  TopLevel, MaxAnonGames   \* bounds

None == "none"
Freed == "freed"
Abs(n) == IF n < 0 THEN -n ELSE n
AnonTypes == {"1v1", "2v2", "at2v2"}

ASSUME AnonGameAssumption ==
  /\ None \notin Gamers /\ Freed \notin Gamers
  /\ PrefsSent \subseteq SUBSET Maps /\ AnonQueues \subseteq AnonTypes
  /\ MaxDiff \in Nat /\ TopLevel \in Nat /\ TopLevel + MaxDiff < 100 /\ MaxAnonGames \in Nat

VARIABLE ag
\* conn[c]    what the client is doing (off, idle, search, found), its arranged team (<<>> if it
\*            plays alone), whether it has sent the search of the team's present attempt, and
\*            level and version of its player
\* anon[c]    t_anongame of the connection; tid is 1 for the present attempt, 0 for others
\* route[c]   whether it has a w3route connection
\* lists[q]   matchlists: what waits, the oldest first, with the level of its list
\* infos[g]   t_anongameinfo, with history: made (the entries it was matched from), told
\*            (all reports) and times (how often its results have been counted)
\* ended      history: the results that the last step has counted

NoAnon == [queue |-> None, prefs |-> {}, tid |-> 0, tc |-> <<>>, info |-> 0, num |-> 0,
           joined |-> FALSE, loaded |-> FALSE]
NoInfo == [queue |-> None, player |-> <<>>, account |-> <<>>, cur |-> 0, results |-> <<>>,
           start |-> FALSE, ready |-> FALSE, made |-> {}, told |-> <<>>, times |-> 0]
NotEnded == [told |-> <<>>, given |-> <<>>, times |-> 0]
Off == [cl |-> "off", team |-> <<>>, tried |-> FALSE, level |-> 0, version |-> None]
AnonGames == 1..MaxAnonGames

AnonInit ==
  ag = [conn |-> [c \in Gamers |-> Off], anon |-> [c \in Gamers |-> NoAnon],
        route |-> [c \in Gamers |-> FALSE], lists |-> [q \in AnonTypes |-> <<>>],
        infos |-> [g \in AnonGames |-> NoInfo], ended |-> NotEnded]

Now == [ag EXCEPT !.ended = NotEnded]
HasAnon(s, c) == s.anon[c].queue # None
InfoOf(s, c) == s.infos[s.anon[c].info]

totalplayers(q) == IF q = "1v1" THEN 2 ELSE 4
totalteams(q) == IF q = "1v1" THEN 0 ELSE 2
anongame_arranged(q) == q = "at2v2"
PerEntry(q) == IF anongame_arranged(q) THEN totalplayers(q) \div totalteams(q) ELSE 1

-----------------------------------------------------------------------------
\* The queue.

conn_create_anongame(s, c) ==
  IF HasAnon(s, c) THEN s
  ELSE [s EXCEPT !.anon[c] = [NoAnon EXCEPT !.queue = "1v1", !.prefs = Maps]]

level_by_queue(s, c, q) == IF anongame_arranged(q) THEN 0 ELSE s.conn[c].level

\* A connection is taken out of the lowest list of the queue that it is in.
anongame_unqueue(s, c, q) ==
  LET its == {i \in DOMAIN s.lists[q] : s.lists[q][i].c = c}
      first == CHOOSE i \in its : \A j \in its :
                 \/ s.lists[q][i].level < s.lists[q][j].level
                 \/ s.lists[q][i].level = s.lists[q][j].level /\ i <= j
  IN  IF its = {} THEN s ELSE [s EXCEPT !.lists[q] = RemoveAt(@, first)]

_anongame_queue(s, c, q, prefs) ==
  [s EXCEPT !.lists[q] = Append(@, [c |-> c, level |-> level_by_queue(s, c, q),
                                    prefs |-> prefs, version |-> s.conn[c].version])]

\* The levels that are searched, as far from the player's own as may be: 0, 1, -1, 2, -2, ...
\* A plausible slip: no levels below once one of them would be negative.
Mut_NextDelta(level, d) == IF d <= 0 \/ level - d <= 0 THEN Abs(d) + 1 ELSE -d
NextDelta(level, d) ==
  LET e == IF d <= 0 \/ level - d < 0 THEN Abs(d) + 1 ELSE -d
  IN  IF level + e > 100 THEN -e ELSE e
NextLevel(level, r) ==
  IF Abs(r.delta) > MaxDiff \/ level + r.delta < 0 THEN r
  ELSE [delta |-> NextDelta(level, r.delta), levels |-> Append(r.levels, level + r.delta)]
LevelsFrom(level) ==
  FoldLeft(LAMBDA r, i : NextLevel(level, r), [delta |-> 0, levels |-> <<>>],
           [i \in 1..(2 * MaxDiff + 2) |-> i]).levels

\* What is still allowed after the entries taken so far; with an entry more.
Fits(m, e, version) ==
  /\ m.min <= e.level /\ e.level <= m.max
  /\ e.version # None /\ e.version = version
  /\ m.prefs \cap e.prefs # {}
Lesser(a, b) == IF a < b THEN a ELSE b
Greater(a, b) == IF a < b THEN b ELSE a
\* A plausible slip: the window stays that of the player who asked.
Mut_Took(m, e) == [m EXCEPT !.prefs = @ \cap e.prefs, !.picked = Append(@, e)]
Took(m, e) ==
  [min |-> Greater(e.level - MaxDiff, m.min), max |-> Lesser(e.level + MaxDiff, m.max),
   prefs |-> m.prefs \cap e.prefs, picked |-> Append(m.picked, e)]

\* _anongame_match: entries for a full game that c's search finds, or less than that.  Level by
\* level, the oldest entry of each comes first.
Full(q, m) == PerEntry(q) * Len(m.picked) = totalplayers(q)
Tried(q, l, version, m, e) ==
  IF Full(q, m) \/ e.level # l \/ ~Fits(m, e, version) THEN m ELSE Took(m, e)
Traversed(s, q, version, m, l) ==
  FoldLeft(LAMBDA n, e : Tried(q, l, version, n, e), m, s.lists[q])
_anongame_match(s, c, q) ==
  LET level == level_by_queue(s, c, q)
      none == [min |-> level - MaxDiff, max |-> level + MaxDiff, prefs |-> s.anon[c].prefs,
               picked |-> <<>>]
  IN  FoldLeft(LAMBDA m, l : Traversed(s, q, s.conn[c].version, m, l), none, LevelsFrom(level)).picked

\* The seats: teams alternate.  In two teams of two the third and the fourth best change
\* places, so that the best is with the worst.
_anongame_order_queue(q, best) ==
  IF totalteams(q) = 2 THEN <<best[1], best[2], best[4], best[3]>> ELSE best
\* Sorted by level; of equal ones, who was taken first comes first.
Before(s, l, i, j) ==
  LET a == s.conn[l[i]].level
      b == s.conn[l[j]].level
  IN  a > b \/ (a = b /\ i < j)
ByLevel(s, l) ==
  [k \in DOMAIN l |->
    l[CHOOSE j \in DOMAIN l : Cardinality({i \in DOMAIN l : Before(s, l, i, j)}) = k - 1]]
Seating(s, q, picked) ==
  IF anongame_arranged(q)
  THEN [k \in 1..totalplayers(q) |->
         s.anon[picked[((k - 1) % totalteams(q)) + 1].c].tc[((k - 1) \div totalteams(q)) + 1]]
  ELSE _anongame_order_queue(q, ByLevel(s, [k \in DOMAIN picked |-> picked[k].c]))

\* _anongame_search_found: the game and everybody's place in it.
Unqueued(s, q, picked) == FoldLeft(LAMBDA t, e : anongame_unqueue(t, e.c, q), s, picked)
FreeInfos(s) == {g \in AnonGames : s.infos[g] = NoInfo}
_anongame_search_found(s, q, picked) ==
  LET seats == Seating(s, q, picked)
      g == CHOOSE i \in FreeInfos(s) : \A j \in FreeInfos(s) : i <= j
      Seat(c) == CHOOSE k \in DOMAIN seats : seats[k] = c
      gone == Unqueued(s, q, picked)
      nothing == [k \in DOMAIN seats |-> <<>>]
  IN  [gone EXCEPT
        !.infos[g] = [NoInfo EXCEPT !.queue = q, !.player = seats, !.account = seats,
                                    !.cur = Len(seats), !.results = nothing, !.told = nothing,
                                    !.made = ToSet(picked)],
        !.anon = [c \in Gamers |-> IF c \in ToSet(seats)
                                   THEN [@[c] EXCEPT !.info = g, !.num = Seat(c)] ELSE @[c]],
        !.conn = [c \in Gamers |-> IF c \in ToSet(seats) /\ @[c].cl = "search"
                                   THEN [@[c] EXCEPT !.cl = "found"] ELSE @[c]]]

\* The last part of a search of c, whose entry is that of first.
Searched(s, c, first, q, prefs) ==
  LET t == _anongame_queue(s, first, q, prefs)
      picked == _anongame_match(t, c, q)
  IN  IF PerEntry(q) * Len(picked) = totalplayers(q)
      THEN _anongame_search_found(t, q, picked) ELSE t

-----------------------------------------------------------------------------
\* Leaving.

\* The part of conn_destroy_anongame that takes a player off his seat.
\* A plausible slip: the counter goes down and the seat keeps its pointer.
Mut_OffSeat(s, g, n) ==
  [s EXCEPT !.infos[g] = IF @.cur = 1 THEN NoInfo ELSE [@ EXCEPT !.cur = @ - 1]]
Unseated(I, n) == IF I.cur = 1 THEN NoInfo ELSE [I EXCEPT !.player[n] = None, !.cur = @ - 1]
OffSeat(s, g, n) == [s EXCEPT !.infos[g] = Unseated(s.infos[g], n)]

conn_destroy_anongame(s, c) ==
  LET a == s.anon[c]
      t == IF a.info = 0 THEN s ELSE OffSeat(s, a.info, a.num)
      queued == IF ~anongame_arranged(a.queue) THEN {c}
                ELSE IF a.tc = <<>> THEN {} ELSE {a.tc[1]} \cap Gamers
      u == IF queued = {} THEN t ELSE anongame_unqueue(t, CHOOSE d \in queued : TRUE, a.queue)
  IN  IF HasAnon(s, c) THEN [u EXCEPT !.anon[c] = NoAnon] ELSE s

\* anongame_evaluate_results: a player has won if more reports say so than the contrary.
Reports(I, n, result) ==
  Cardinality({i \in DOMAIN I.results : I.results[i] # <<>> /\ I.results[i][n] = result})
anongame_evaluate_results(I) ==
  [n \in DOMAIN I.player |-> IF Reports(I, n, "win") > Reports(I, n, "loss") THEN "win" ELSE "loss"]

\* anongame_stats, when the route of c ends: nothing as long as another player of the game has
\* his; nothing if nobody, or more than half, has won.  The levels of the accounts in moves
\* change by that.
OthersPlay(s, c) ==
  \E d \in ToSet(InfoOf(s, c).player) \ {None, c} : s.route[d]
\* A plausible slip: a player's results are counted once he has reported.
Mut_Counts(s, c) == InfoOf(s, c).results[s.anon[c].num] # <<>>
Counts(s, c) == ~OthersPlay(s, c)
anongame_stats(s, c, moves) ==
  LET I == InfoOf(s, c)
      given == anongame_evaluate_results(I)
      wins == Cardinality({n \in DOMAIN given : given[n] = "win"})
      Level(d) == IF given[CHOOSE n \in DOMAIN given : I.account[n] = d] = "win"
                  THEN Lesser(s.conn[d].level + 1, TopLevel) ELSE Greater(s.conn[d].level - 1, 0)
  IN  IF Counts(s, c) /\ wins > 0 /\ 2 * wins <= Len(given)
      THEN [s EXCEPT !.ended = [told |-> I.told, given |-> given, times |-> I.times + 1],
                     !.infos[s.anon[c].info].times = @ + 1,
                     !.conn = [d \in Gamers |-> IF d \in moves \cap ToSet(I.account)
                                                   /\ @[d].cl # "off"
                                                 THEN [@[d] EXCEPT !.level = Level(d)] ELSE @[d]]]
      ELSE s

\* conn_destroy of a w3route connection, and what its client does then.
RouteEnds(s, c, moves) ==
  LET t == conn_destroy_anongame(anongame_stats(s, c, moves), c)
  IN  [t EXCEPT !.route[c] = FALSE, !.conn[c].cl = "idle"]

-----------------------------------------------------------------------------
\* Requests of clients.

\* A player logs in, whose level and version may be any, and who plays alone or in a team.
Mates(c) == ToSet(ag.conn[c].team)
Teams == {<<>>} \cup {<<c, d>> : c, d \in Gamers}
anon_login(c, level, version, team) ==
  /\ ag.conn[c].cl = "off"
  /\ team # <<>> => c \in ToSet(team) /\ IsInjective(team)
  /\ \A d \in Gamers \ {c} : ag.conn[d].cl # "off" =>
       \/ team # <<>> /\ ag.conn[d].team = team
       \/ ({c} \cup ToSet(team)) \cap ({d} \cup Mates(d)) = {}
  /\ ag' = [Now EXCEPT !.conn[c] = [Off EXCEPT !.cl = "idle", !.level = level,
                                               !.version = version, !.team = team,
                                               !.tried = TRUE]]

\* handle_anongame_search.  A client asks when it is idle.
Asks(s, c) == [s EXCEPT !.conn[c].cl = "search"]
anongame_search(c, q, prefs) ==
  LET s == conn_create_anongame(Asks(Now, c), c)
  IN  /\ ag.conn[c].cl = "idle" /\ ag.conn[c].team = <<>> /\ ~anongame_arranged(q) /\ FreeInfos(ag) # {}
      /\ ag' = Searched([s EXCEPT !.anon[c].queue = q, !.anon[c].prefs = prefs,
                                  !.anon[c].tc = <<c>>], c, c, q, prefs)

\* Of an arranged team, one member is the inviter, whose search names what all want.  A new
\* attempt, which makes the searches of the former one old, begins when all are idle.
AttemptOf(s, c, new) ==
  LET old == IF new THEN Mates(c) ELSE {}
  IN  [s EXCEPT !.conn = [d \in Gamers |->
                           [s.conn[d] EXCEPT !.tried = d = c \/ (s.conn[d].tried /\ d \notin old)]],
                !.anon = [d \in Gamers |-> IF d \in old THEN [@[d] EXCEPT !.tid = 0] ELSE @[d]]]
MayAsk(c, new) ==
  /\ ag.conn[c].cl = "idle" /\ ag.conn[c].team # <<>> /\ FreeInfos(ag) # {}
  /\ IF new THEN \A d \in Mates(c) : ag.conn[d].cl = "idle" ELSE ~ag.conn[c].tried
AllOn(s, c) == \A d \in Mates(c) : s.conn[d].cl # "off"
AllAsk(s, c) == \A d \in Mates(c) : HasAnon(s, d) /\ s.anon[d].tid = 1

at_inviter_search(c, prefs, new) ==
  LET s == conn_create_anongame(Asks(AttemptOf(Now, c, new), c), c)
      own == [s EXCEPT !.anon[c].queue = "at2v2", !.anon[c].prefs = prefs, !.anon[c].tid = 1]
      all == FoldLeft(conn_create_anongame, own, ag.conn[c].team)
      t == [all EXCEPT !.anon = [d \in Gamers |->
              IF d \in Mates(c)
              THEN [@[d] EXCEPT !.tc = ag.conn[c].team, !.queue = "at2v2", !.prefs = prefs] ELSE @[d]]]
  IN  /\ MayAsk(c, new) /\ c = Head(ag.conn[c].team)
      /\ ag' = IF ~AllOn(own, c) THEN own
               ELSE IF ~AllAsk(t, c) THEN t
               ELSE Searched(t, c, c, "at2v2", prefs)

at_search(c, new) ==
  LET s == conn_create_anongame(Asks(AttemptOf(Now, c, new), c), c)
      t == [s EXCEPT !.anon[c].tid = 1]
  IN  /\ MayAsk(c, new) /\ c # Head(ag.conn[c].team)
      /\ ag' = IF AllOn(t, c) /\ AllAsk(t, c)
               THEN Searched(t, c, Head(ag.conn[c].team), t.anon[c].queue, t.anon[c].prefs) ELSE t

\* _client_anongame_cancel, for all of the team.  A client cancels before its second connection,
\* or that of a mate, is there, and not before the inviter has asked.
CancelsInTime(c) ==
  /\ ag.conn[c].cl \in {"search", "found"} /\ ~ag.route[c]
  /\ HasAnon(ag, c) => /\ ag.anon[c].tc # <<>>
                       /\ \A d \in ToSet(ag.anon[c].tc) \cap Gamers : ~ag.route[d]
Cancelled(s, d) == IF d = Freed THEN s ELSE conn_destroy_anongame(s, d)
anongame_cancel(c) ==
  /\ CancelsInTime(c)
  /\ ag' = [FoldLeft(Cancelled, Now, ag.anon[c].tc) EXCEPT !.conn[c].cl = "idle"]

\* CLIENT_W3ROUTE_REQ of a client that has been told of a game; once more if it has lost the
\* connection and the server has not noticed.
w3route_req(c) ==
  LET a == ag.anon[c]
  IN  /\ ag.conn[c].cl = "found"
      /\ ag' = IF ~HasAnon(ag, c) THEN [Now EXCEPT !.conn[c].cl = "idle"]
               ELSE [Now EXCEPT !.route[c] = TRUE, !.anon[c].joined = FALSE,
                                !.anon[c].loaded = FALSE, !.infos[a.info].results[a.num] = <<>>]

\* handle_anongame_join: the game starts when all who are still in it have joined.
Present(s, c) == ToSet(InfoOf(s, c).player) \ {None}
anongame_join(c) ==
  LET s == [Now EXCEPT !.anon[c].joined = TRUE]
  IN  /\ ag.route[c] /\ HasAnon(ag, c)
      /\ ag' = IF \A d \in Present(s, c) : s.route[d] /\ s.anon[d].joined
               THEN [s EXCEPT !.infos[ag.anon[c].info].start = TRUE] ELSE s

\* CLIENT_W3ROUTE_LOADINGDONE, which a client sends after the start.
w3route_loadingdone(c) ==
  LET s == [Now EXCEPT !.anon[c].loaded = TRUE]
  IN  /\ ag.route[c] /\ HasAnon(ag, c) /\ InfoOf(ag, c).start
      /\ \A d \in Present(ag, c) : ag.route[d]
      /\ ag' = IF \A d \in Present(s, c) : s.anon[d].loaded
               THEN [s EXCEPT !.infos[ag.anon[c].info].ready = TRUE] ELSE s

\* CLIENT_W3ROUTE_GAMERESULT, which ends the connection; <<>> is a report that cannot be read.
w3route_gameresult(c, report, moves) ==
  LET a == ag.anon[c]
      s == [Now EXCEPT !.infos[a.info].results[a.num] = report, !.infos[a.info].told[a.num] = report]
  IN  /\ ag.route[c] /\ HasAnon(ag, c) /\ InfoOf(ag, c).ready
      /\ ag' = RouteEnds(s, c, moves)

\* A w3route connection fails, or is ended by the timer that the first winner has set.
w3route_close(c, moves) == ag.route[c] /\ ag' = RouteEnds(Now, c, moves)

\* conn_destroy of the first connection, which takes the second one with it.  What is left
\* in the teams of others are pointers to freed memory.
anon_conn_destroy(c) ==
  LET s == conn_destroy_anongame(Now, c)
      Left(d) == [k \in DOMAIN s.anon[d].tc |->
                   IF s.anon[d].tc[k] = c THEN Freed ELSE s.anon[d].tc[k]]
  IN  /\ ag.conn[c].cl # "off"
      /\ ag' = [s EXCEPT !.route[c] = FALSE, !.conn[c] = Off,
                         !.anon = [d \in Gamers |-> [@[d] EXCEPT !.tc = Left(d)]]]

-----------------------------------------------------------------------------
Told(c) == {<<>>} \cup [DOMAIN InfoOf(ag, c).player -> {"win", "loss"}]
AnonNext ==
  \E c \in Gamers :
    \/ \E level \in 0..TopLevel, version \in Versions, team \in Teams :
         anon_login(c, level, version, team)
    \/ \E q \in AnonQueues, prefs \in PrefsSent : anongame_search(c, q, prefs)
    \/ \E new \in BOOLEAN :
         at_search(c, new) \/ \E prefs \in PrefsSent : at_inviter_search(c, prefs, new)
    \/ anongame_cancel(c) \/ w3route_req(c) \/ anongame_join(c) \/ w3route_loadingdone(c)
    \/ /\ ag.route[c]
       /\ \E moves \in SUBSET ToSet(InfoOf(ag, c).account) :
            \/ w3route_close(c, moves)
            \/ \E report \in Told(c) : w3route_gameresult(c, report, moves)
    \/ anon_conn_destroy(c)

AnonSpec == AnonInit /\ [][AnonNext]_ag

-----------------------------------------------------------------------------
Seated(g) == ToSet(ag.infos[g].player) \ {None}
Players(e, q) == IF anongame_arranged(q) THEN Mates(e.c) ELSE {e.c}

\* All values are of their types.
AnonTypeOK ==
  \A c \in Gamers :
    LET a == ag.anon[c]
    IN  /\ ag.conn[c].cl \in {"off", "idle", "search", "found"}
        /\ ag.conn[c].level \in 0..TopLevel /\ ag.route[c] \in BOOLEAN
        /\ a.queue \in AnonTypes \cup {None} /\ a.prefs \subseteq Maps /\ a.tid \in {0, 1}
        /\ a.tc \in Seq(Gamers \cup {Freed}) /\ a.info \in AnonGames \cup {0}
        /\ a.joined \in BOOLEAN /\ a.loaded \in BOOLEAN
        /\ ag.route[c] => HasAnon(ag, c) /\ a.info # 0

\* Everybody is in one match at most: he waits in one entry of one queue, or has one seat
\* of a game, and then his connection knows which; a game counts who is still there, and is
\* freed with the last one.  Search, match, cancellation and the ends of two connections
\* keep that in step.
EachInOneMatch ==
  /\ \A g \in AnonGames : ag.infos[g] # NoInfo =>
       LET I == ag.infos[g]
           taken == {n \in DOMAIN I.player : I.player[n] # None}
       IN  /\ I.cur = Cardinality(taken) /\ I.cur > 0
           /\ \A n \in taken : ag.anon[I.player[n]].info = g /\ ag.anon[I.player[n]].num = n
  /\ \A c \in Gamers : ag.anon[c].info # 0 => c \in Seated(ag.anon[c].info)
  /\ \A q \in AnonTypes : \A i \in DOMAIN ag.lists[q] :
       \A c \in Players(ag.lists[q][i], q) :
         /\ ag.anon[c].queue = q /\ ag.anon[c].info = 0 /\ ag.conn[c].cl = "search"
         /\ \A r \in AnonTypes : \A j \in DOMAIN ag.lists[r] :
              <<r, j>> # <<q, i>> => c \notin Players(ag.lists[r][j], r)

\* What is matched suits each other, which the search keeps to while it takes one after
\* the other: levels within MaxDiff, one version, a map that all of them want.
SuitsAll(E) ==
  /\ \A e, f \in E : e.level - f.level <= MaxDiff /\ e.version = f.version
  /\ \E map \in Maps : \A e \in E : map \in e.prefs
MatchedSuit == \A g \in AnonGames : ag.infos[g] # NoInfo => SuitsAll(ag.infos[g].made)

\* Where two entries make a game, no two that suit each other are waiting: whoever comes
\* finds what there is at any level near his, in the order in which the levels are searched.
NoPairWaits ==
  \A q \in AnonTypes : 2 * PerEntry(q) = totalplayers(q) =>
    \A i, j \in DOMAIN ag.lists[q] :
      i # j => LET E == {ag.lists[q][i], ag.lists[q][j]}
               IN  ~SuitsAll(E) \/ None \in {e.version : e \in E}

\* The results of a game are counted once, when all reports are in that ever will be, and
\* are what more of them say than the contrary; nobody loses where nobody wins.
ResultIsFinal ==
  LET e == ag.ended
      Said(n, result) == Cardinality({i \in DOMAIN e.told : e.told[i] # <<>> /\ e.told[i][n] = result})
  IN  e # NotEnded =>
        /\ e.times = 1
        /\ \A n \in DOMAIN e.given : e.given[n] = "win" <=> Said(n, "win") > Said(n, "loss")
        /\ \E n \in DOMAIN e.given : e.given[n] = "win"
=============================================================================
