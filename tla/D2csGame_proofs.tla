--------------------------- MODULE D2csGame_proofs ---------------------------
(***************************************************************************)
(* Proofs about the games of d2cs (D2csGame): the types of the state, that *)
(* gamenum counts the games that hold a place, that the queue of those who *)
(* wait and the pointers of their connections agree, and that a game       *)
(* server's number for a game means one game.                              *)
(*                                                                         *)
(* The invariant is one of the record that the handlers pass to each       *)
(* other, so that a lemma can be said of each of them; v is the state of   *)
(* the game servers, and x is the server whose games d2gs_deactive is      *)
(* about to destroy, 0 if there is none.  Its last part is about packets   *)
(* under way: an answer to a creation is about a game of the server that   *)
(* the connection it comes on belongs to, or about none, with a number     *)
(* that no other game of that connection and no other answer has.          *)
(***************************************************************************)
EXTENDS D2csGame, Lists

Entry == [client : Clients, name : Names]
Fields == {"online", "gamequeue", "gq", "sqs", "games", "gs", "conns", "last"}

QueueInv(s) ==
  /\ s.online \subseteq Clients /\ s.gamequeue \subseteq s.online
  /\ s.gq \in Seq(Entry)
  /\ \A i \in 1..Len(s.gq) : s.gq[i].client \in s.gamequeue
  /\ \A i, j \in 1..Len(s.gq) : s.gq[i].client = s.gq[j].client => i = j
  /\ \A u \in s.gamequeue : \E i \in 1..Len(s.gq) : s.gq[i].client = u

LastInv(s) == s.last \in [game : 0..MaxGameId, d2gs : 0..MaxGsId, seqno : 0..MaxSeqno]

RequestsInv(s) ==
  /\ DOMAIN s.sqs \subseteq 1..s.last.seqno
  /\ \A n \in DOMAIN s.sqs : s.sqs[n] \in [client : Clients, gameid : 1..s.last.game]

ServersInv(s) ==
  /\ DOMAIN s.conns \subseteq Conns /\ \A k \in DOMAIN s.conns : s.conns[k] \in Connections
  /\ DOMAIN s.gs \subseteq 1..s.last.d2gs /\ \A g \in DOMAIN s.gs : s.gs[g] \in D2gs
  /\ \A g \in DOMAIN s.gs : s.gs[g].conn # NoConn =>
       s.gs[g].conn \in DOMAIN s.conns /\ s.conns[s.gs[g].conn].d2gs = g
  /\ \A j, k \in DOMAIN s.conns :
       s.conns[j].peer /\ s.conns[k].peer /\ s.conns[j].ip = s.conns[k].ip => j = k

GamesInv(s, x) ==
  /\ DOMAIN s.games \subseteq 1..s.last.game /\ \A i \in DOMAIN s.games : s.games[i] \in Game
  /\ \A i \in DOMAIN s.games :
       s.games[i].d2gs \in DOMAIN s.gs /\ (Active(s, s.games[i].d2gs) \/ s.games[i].d2gs = x)
  /\ \A g \in DOMAIN s.gs : s.gs[g].gamenum = Cardinality(GamesOn(s, g))

\* The games whose server is connected by k.
Hosts(s, k, i) == s.gs[s.games[i].d2gs].conn = k
\* What the answer to request n would be about, coming on k.
Pending(s, x, k, n) ==
  /\ n <= s.last.seqno
  /\ n \in DOMAIN s.sqs /\ s.sqs[n].gameid \in DOMAIN s.games
     => Hosts(s, k, s.sqs[n].gameid) \/ s.games[s.sqs[n].gameid].d2gs = x
\* A number that a game on k may be given.
Unused(s, v, k, gid) ==
  /\ \A i \in DOMAIN s.games : s.games[i].created /\ Hosts(s, k, i) => s.games[i].gid # gid
  /\ s.conns[k].peer => gid < v[s.conns[k].ip].next
Coming(s, k) == {j \in 1..Len(s.conns[k].in) : s.conns[k].in[j].op = "created"}

NumbersInv(s, v, x) ==
  /\ \A k \in DOMAIN s.conns : \A j \in Coming(s, k) :
       /\ Pending(s, x, k, s.conns[k].in[j].seqno)
       /\ Unused(s, v, k, s.conns[k].in[j].gid)
       /\ \A h \in Coming(s, k) : s.conns[k].in[h].gid = s.conns[k].in[j].gid => h = j
  /\ \A k \in DOMAIN s.conns : \A j \in 1..Len(s.conns[k].out) :
       s.conns[k].out[j].op = "create" => Pending(s, x, k, s.conns[k].out[j].seqno)
  /\ \A k \in DOMAIN s.conns : \A i \in DOMAIN s.games :
       s.games[i].created /\ Hosts(s, k, i) /\ s.conns[k].peer
       => s.games[i].gid < v[s.conns[k].ip].next
  /\ \A i, j \in DOMAIN s.games :
       s.games[i].created /\ s.games[j].created /\ s.games[i].d2gs = s.games[j].d2gs
       /\ s.games[i].gid = s.games[j].gid => i = j

StateInv(s, v, x) ==
  /\ DOMAIN s = Fields
  /\ QueueInv(s) /\ LastInv(s) /\ RequestsInv(s) /\ ServersInv(s)
  /\ GamesInv(s, x) /\ NumbersInv(s, v, x)

GameServersInv(v) ==
  /\ DOMAIN v = Ips
  /\ \A a \in Ips : /\ DOMAIN v[a] = {"next", "games"} /\ v[a].next \in 1..MaxGid + 1
                    /\ DOMAIN v[a].games \subseteq 1..MaxGid
                    /\ \A i \in DOMAIN v[a].games : v[a].games[i] \in ServerGame

\* The ids that the waiting players may need are there.
Spare(s) == s.last.game + Len(s.gq) <= MaxGameId /\ s.last.seqno + Len(s.gq) <= MaxSeqno

D2csInv == StateInv(State, srv, 0) /\ Spare(State) /\ GameServersInv(srv)

-----------------------------------------------------------------------------
\* The numbers by which a state is bounded are natural.
LEMMA BoundTypes ==
  /\ MaxGameId \in Nat /\ MaxGsId \in Nat /\ MaxSeqno \in Nat /\ MaxGid \in Nat
  /\ MaxGames \subseteq Nat /\ NoConn \notin Conns
  /\ IsFiniteSet(Ips) /\ Cardinality(Ips) <= MaxGsId
BY D2csGameAssumption DEF D2csGameAssumption

\* A change to the queue alone, which keeps it in order, keeps the invariant.
LEMMA QueueChanged ==
  ASSUME NEW s, NEW t, NEW v, NEW x, StateInv(s, v, x), DOMAIN t = Fields,
         QueueInv(t),
         t.sqs = s.sqs, t.games = s.games, t.gs = s.gs, t.conns = s.conns, t.last = s.last
  PROVE  StateInv(t, v, x)
<1>1. RequestsInv(t)
  BY DEF StateInv, RequestsInv
<1>2. ServersInv(t)
  BY DEF StateInv, ServersInv
<1>3. GamesInv(t, x)
  BY DEF StateInv, GamesInv, Active, GamesOn
<1>4. NumbersInv(t, v, x)
  <2>1. /\ \A k, i : Hosts(t, k, i) = Hosts(s, k, i)
        /\ \A k : Coming(t, k) = Coming(s, k)
    BY DEF Coming, Hosts
  <2>2. /\ \A k, n : Pending(t, x, k, n) = Pending(s, x, k, n)
        /\ \A k, n : Unused(t, v, k, n) = Unused(s, v, k, n)
    BY <2>1 DEF Pending, Unused
  <2> QED BY <2>1, <2>2 DEF StateInv, NumbersInv
<1>5. LastInv(t)
  BY DEF StateInv, LastInv
<1> QED BY <1>1, <1>2, <1>3, <1>4, <1>5 DEF StateInv

\* The queue without a client.
QueueWithout(s, u) == RemoveFirstMatch(s.gq, LAMBDA e : e.client = u)
\* gq_destroy takes out the entry of the client, if it has one, and no other.
LEMMA DequeuedList ==
  ASSUME NEW s, QueueInv(s), NEW u
  PROVE  LET q == QueueWithout(s, u)
         IN  /\ q \in Seq(Entry)
             /\ u \notin s.gamequeue => q = s.gq
             /\ u \in s.gamequeue => Len(q) = Len(s.gq) - 1
             /\ \A i \in 1..Len(q) : q[i].client \in s.gamequeue \ {u}
             /\ \A i, j \in 1..Len(q) : q[i].client = q[j].client => i = j
             /\ \A w \in s.gamequeue \ {u} : \E i \in 1..Len(q) : q[i].client = w
<1> DEFINE q == QueueWithout(s, u)
           I == {i \in 1..Len(s.gq) : s.gq[i].client = u}
           k == Min(I)
<1>0a. /\ s.gq \in Seq(Entry)
       /\ \A i \in 1..Len(s.gq) : s.gq[i].client \in s.gamequeue
       /\ \A i, j \in 1..Len(s.gq) : s.gq[i].client = s.gq[j].client => i = j
       /\ \A w \in s.gamequeue : \E i \in 1..Len(s.gq) : s.gq[i].client = w
  BY Zenon DEF QueueInv
<1>0c. s.gq \in Seq(Entry)
  BY <1>0a
<1>0b. Len(s.gq) \in Nat
  BY <1>0a
<1>1. CASE u \notin s.gamequeue
  <2>1. ~ \E i \in 1..Len(s.gq) : s.gq[i].client = u
    BY <1>0a, <1>0b, <1>1, SMTT(40)
  <2>2. q = s.gq
    BY <2>1 DEF QueueWithout, RemoveFirstMatch
  <2> HIDE DEF q
  <2>3. \A i \in 1..Len(q) : q[i].client \in s.gamequeue \ {u}
    BY <1>0a, <1>0b, <1>1, <2>2
  <2> QED BY <1>0a, <1>0b, <1>1, <2>2, <2>3 DEF q
<1>2. CASE u \in s.gamequeue
  <2>1. I # {} /\ I \subseteq Nat
    BY <1>0a, <1>0b, <1>2, SMTT(40)
  <2>2. k \in I
    BY <2>1, MinIn
  <2>3. q = RemoveAt(s.gq, k)
    BY <2>1 DEF QueueWithout, RemoveFirstMatch, SelectInSeq
  <2>4. k \in 1..Len(s.gq) /\ s.gq[k].client = u
    BY <2>2
  <2>5. /\ q \in Seq(Entry) /\ Len(q) = Len(s.gq) - 1
        /\ \A i \in 1..Len(q) : q[i] = IF i < k THEN s.gq[i] ELSE s.gq[i + 1]
    BY <1>0c, <2>3, <2>4, RemovedAt, ZenonT(60)
  <2> HIDE DEF q, k, I
  <2> DEFINE at(i) == IF i < k THEN i ELSE i + 1
  <2>6. \A i \in 1..Len(q) : at(i) \in 1..Len(s.gq) /\ at(i) # k /\ q[i] = s.gq[at(i)]
    BY <1>0b, <2>4, <2>5, SMTT(40)
  <2>7. \A i, j \in 1..Len(q) : at(i) = at(j) => i = j
    BY <2>4, <2>5
  <2>8. \A j \in 1..Len(s.gq) : j # k => \E i \in 1..Len(q) : at(i) = j
    <3> TAKE j \in 1..Len(s.gq)
    <3>1. CASE j < k
      BY <1>0a, <1>0b, <2>4, <2>5, <3>1
    <3>2. CASE j > k
      <4>1. j - 1 \in 1..Len(q) /\ at(j - 1) = j
        BY <1>0a, <1>0b, <2>4, <2>5, <3>2
      <4> QED BY <4>1
    <3>3. j < k \/ j > k \/ j = k
      BY <2>4
    <3> QED BY <3>1, <3>2, <3>3
  <2> HIDE DEF at
  <2>8a. \A i \in 1..Len(q) : q[i].client = s.gq[at(i)].client
    BY <2>6
  <2>9. \A i \in 1..Len(q) : q[i].client \in s.gamequeue \ {u}
    <3> TAKE i \in 1..Len(q)
    <3>1. at(i) \in 1..Len(s.gq) /\ at(i) # k /\ q[i].client = s.gq[at(i)].client
      BY <2>6, <2>8a
    <3>2. s.gq[at(i)].client \in s.gamequeue /\ s.gq[at(i)].client # s.gq[k].client
      BY <1>0a, <2>4, <3>1
    <3> QED BY <2>4, <3>1, <3>2
  <2>10. \A i, j \in 1..Len(q) : q[i].client = q[j].client => i = j
    BY <1>0a, <2>6, <2>7, <2>8a, SMTT(40)
  <2>11. ASSUME NEW w \in s.gamequeue \ {u} PROVE \E i \in 1..Len(q) : q[i].client = w
    <3>1. PICK j \in 1..Len(s.gq) : s.gq[j].client = w
      BY <1>0a, <1>0b, <2>11
    <3>2. j # k
      BY <2>4, <2>11, <3>1
    <3>3. PICK i \in 1..Len(q) : at(i) = j
      BY <2>8, <3>2
    <3>4. q[i].client = w
      BY <2>6, <3>1, <3>3
    <3> QED BY <3>4
  <2> QED BY <1>2, <2>5, <2>9, <2>10, <2>11 DEF q
<1> QED BY <1>1, <1>2

\* The client's place in the queue, or none, is given up.
LEMMA DequeuedInv ==
  ASSUME NEW s, NEW v, NEW x, StateInv(s, v, x), NEW u
  PROVE  LET t == Dequeued(s, u)
         IN  /\ StateInv(t, v, x) /\ u \notin t.gamequeue
             /\ t.gamequeue = s.gamequeue \ {u} /\ t.online = s.online
             /\ u \notin s.gamequeue => t.gq = s.gq
             /\ u \in s.gamequeue => Len(t.gq) = Len(s.gq) - 1
             /\ t.sqs = s.sqs /\ t.games = s.games /\ t.gs = s.gs
             /\ t.conns = s.conns /\ t.last = s.last
<1> DEFINE t == Dequeued(s, u)
           q == QueueWithout(s, u)
<1>1. /\ DOMAIN t = Fields /\ t.gamequeue = s.gamequeue \ {u} /\ t.gq = q
      /\ t.online = s.online /\ t.sqs = s.sqs /\ t.games = s.games /\ t.gs = s.gs
      /\ t.conns = s.conns /\ t.last = s.last
  BY DEF Dequeued, QueueWithout, StateInv, Fields
<1>2. /\ q \in Seq(Entry)
      /\ u \notin s.gamequeue => q = s.gq
      /\ u \in s.gamequeue => Len(q) = Len(s.gq) - 1
      /\ \A i \in 1..Len(q) : q[i].client \in s.gamequeue \ {u}
      /\ \A i, j \in 1..Len(q) : q[i].client = q[j].client => i = j
      /\ \A w \in s.gamequeue \ {u} : \E i \in 1..Len(q) : q[i].client = w
  <2>1. QueueInv(s)
    BY DEF StateInv
  <2> QED BY <2>1, DequeuedList
<1> HIDE DEF t, q
<1>3. QueueInv(t)
  BY <1>1, <1>2 DEF QueueInv, StateInv
<1>5. StateInv(t, v, x)
  BY <1>1, <1>3, QueueChanged
<1> QED BY <1>1, <1>2, <1>5 DEF t

-----------------------------------------------------------------------------
\* What the tables of objects look up.
LEMMA WithFacts ==
  ASSUME NEW f, NEW x, NEW e
  PROVE  /\ DOMAIN With(f, x, e) = DOMAIN f \cup {x} /\ With(f, x, e)[x] = e
         /\ \A y \in DOMAIN f \ {x} : With(f, x, e)[y] = f[y]
BY DEF With

\* A table without one object.
LEMMA WithoutFacts ==
  ASSUME NEW f, NEW x
  PROVE  /\ DOMAIN Without(f, x) = DOMAIN f \ {x}
         /\ \A y \in DOMAIN f \ {x} : Without(f, x)[y] = f[y]
BY DEF Without

\* The games of a server can be counted.
LEMMA GamesFinite ==
  ASSUME NEW s, NEW x, LastInv(s), GamesInv(s, x), NEW g
  PROVE  IsFiniteSet(DOMAIN s.games) /\ IsFiniteSet(GamesOn(s, g))
         /\ Cardinality(GamesOn(s, g)) \in Nat
<1>1. s.last.game \in Int /\ 1 \in Int
  BY BoundTypes DEF LastInv
<1>2. IsFiniteSet(1..s.last.game)
  BY <1>1, FS_Interval
<1>3. IsFiniteSet(DOMAIN s.games)
  BY <1>2, FS_Subset DEF GamesInv
<1>4. IsFiniteSet(GamesOn(s, g))
  <2>1. GamesOn(s, g) \subseteq DOMAIN s.games
    BY DEF GamesOn
  <2> QED BY <1>3, <2>1, FS_Subset
<1> QED BY <1>3, <1>4, FS_CardinalityType

\* A step that brings no packets, no numbers and no connections, and leaves what
\* a request is about alone or forgets it.
Aged(s, x, t, y) ==
  /\ DOMAIN t.conns \subseteq DOMAIN s.conns
  /\ \A k \in DOMAIN t.conns :
       /\ t.conns[k].in = s.conns[k].in /\ t.conns[k].out = s.conns[k].out
       /\ t.conns[k].peer = s.conns[k].peer /\ t.conns[k].ip = s.conns[k].ip
  /\ \A k \in DOMAIN t.conns : \A n \in 1..MaxSeqno : Pending(s, x, k, n) => Pending(t, y, k, n)
  /\ \A i \in DOMAIN t.games :
       t.games[i].created =>
         /\ i \in DOMAIN s.games /\ s.games[i].created
         /\ t.games[i].gid = s.games[i].gid /\ t.games[i].d2gs = s.games[i].d2gs
         /\ \A k \in DOMAIN t.conns : Hosts(t, k, i) => Hosts(s, k, i)

\* Such a step keeps the numbers of games apart.
LEMMA AgedNumbers ==
  ASSUME NEW s, NEW x, NEW t, NEW y, NEW v, NumbersInv(s, v, x), ServersInv(s), Aged(s, x, t, y)
  PROVE  NumbersInv(t, v, y)
<1>1. ASSUME NEW k \in DOMAIN t.conns
      PROVE  /\ k \in DOMAIN s.conns /\ Coming(t, k) = Coming(s, k)
             /\ t.conns[k].in = s.conns[k].in /\ t.conns[k].out = s.conns[k].out
             /\ t.conns[k].peer = s.conns[k].peer /\ t.conns[k].ip = s.conns[k].ip
  BY DEF Aged, Coming
<1>2. ASSUME NEW k \in DOMAIN t.conns, NEW j \in Coming(t, k)
      PROVE  s.conns[k].in[j].seqno \in 1..MaxSeqno
  <2>1. k \in DOMAIN s.conns /\ j \in Coming(s, k)
    BY <1>1
  <2>2. s.conns[k] \in Connections
    BY <2>1 DEF ServersInv
  <2>3. s.conns[k].in \in Seq(FromGs) /\ j \in 1..Len(s.conns[k].in) /\ s.conns[k].in[j].op = "created"
    BY <2>1, <2>2 DEF Connections, Coming
  <2>4. s.conns[k].in[j] \in FromGs
    BY <2>3
  <2> QED BY <2>3, <2>4 DEF FromGs
<1>3. ASSUME NEW k \in DOMAIN t.conns, NEW j \in 1..Len(t.conns[k].out)
      PROVE  s.conns[k].out[j].seqno \in 1..MaxSeqno
  <2>1. k \in DOMAIN s.conns /\ j \in 1..Len(s.conns[k].out)
    BY <1>1
  <2>2. s.conns[k] \in Connections
    BY <2>1 DEF ServersInv
  <2>3. s.conns[k].out \in Seq(ToGs)
    BY <2>2 DEF Connections
  <2>4. s.conns[k].out[j] \in ToGs
    BY <2>1, <2>3, SMTT(40)
  <2> QED BY <2>4 DEF ToGs
<1>4. ASSUME NEW k \in DOMAIN t.conns, NEW j \in Coming(t, k)
      PROVE  /\ Pending(t, y, k, t.conns[k].in[j].seqno)
             /\ Unused(t, v, k, t.conns[k].in[j].gid)
             /\ \A h \in Coming(t, k) : t.conns[k].in[h].gid = t.conns[k].in[j].gid => h = j
  <2>1. /\ Pending(s, x, k, s.conns[k].in[j].seqno) /\ Unused(s, v, k, s.conns[k].in[j].gid)
        /\ \A h \in Coming(s, k) : s.conns[k].in[h].gid = s.conns[k].in[j].gid => h = j
    BY <1>1, SMTT(40) DEF NumbersInv
  <2>2. Pending(t, y, k, s.conns[k].in[j].seqno)
    BY <1>2, <2>1, SMTT(40) DEF Aged
  <2>3. Unused(t, v, k, s.conns[k].in[j].gid)
    BY <1>1, <2>1 DEF Aged, Unused
  <2> QED BY <1>1, <2>1, <2>2, <2>3
<1>5. ASSUME NEW k \in DOMAIN t.conns, NEW j \in 1..Len(t.conns[k].out),
             t.conns[k].out[j].op = "create"
      PROVE  Pending(t, y, k, t.conns[k].out[j].seqno)
  <2>1. Pending(s, x, k, s.conns[k].out[j].seqno)
    BY <1>1, <1>5 DEF NumbersInv
  <2> QED BY <1>1, <1>3, <2>1 DEF Aged
<1>6. ASSUME NEW k \in DOMAIN t.conns, NEW i \in DOMAIN t.games,
             t.games[i].created, Hosts(t, k, i), t.conns[k].peer
      PROVE  t.games[i].gid < v[t.conns[k].ip].next
  <2>1. /\ i \in DOMAIN s.games /\ s.games[i].created /\ t.games[i].gid = s.games[i].gid
        /\ Hosts(s, k, i)
    BY <1>6 DEF Aged
  <2> QED BY <1>1, <1>6, <2>1 DEF NumbersInv
<1>7. ASSUME NEW i \in DOMAIN t.games, NEW j \in DOMAIN t.games, t.games[i].created,
             t.games[j].created, t.games[i].d2gs = t.games[j].d2gs, t.games[i].gid = t.games[j].gid
      PROVE  i = j
  <2>1. /\ i \in DOMAIN s.games /\ s.games[i].created /\ t.games[i].gid = s.games[i].gid
        /\ t.games[i].d2gs = s.games[i].d2gs
    BY <1>7 DEF Aged
  <2>2. /\ j \in DOMAIN s.games /\ s.games[j].created /\ t.games[j].gid = s.games[j].gid
        /\ t.games[j].d2gs = s.games[j].d2gs
    BY <1>7 DEF Aged
  <2> QED BY <1>7, <2>1, <2>2 DEF NumbersInv
<1> QED BY <1>4, <1>5, <1>6, <1>7 DEF NumbersInv

-----------------------------------------------------------------------------
\* What the handlers leave of a connection.
SameConns(s, t) ==
  /\ DOMAIN t.conns = DOMAIN s.conns
  /\ \A k \in DOMAIN s.conns :
       /\ t.conns[k].d2gs = s.conns[k].d2gs /\ t.conns[k].ip = s.conns[k].ip
       /\ t.conns[k].authed = s.conns[k].authed /\ t.conns[k].peer = s.conns[k].peer
       /\ t.conns[k].in = s.conns[k].in

\* sq_create gives the request a number of its own.
Registered(s, u, i) ==
  [s EXCEPT !.last.seqno = s.last.seqno + 1,
            !.sqs = With(@, s.last.seqno + 1, [client |-> u, gameid |-> i])]

\* A request for a game that there is keeps the invariant.
LEMMA RegisteredInv ==
  ASSUME NEW s, NEW v, NEW x, StateInv(s, v, x), s.last.seqno < MaxSeqno,
         NEW u \in Clients, NEW i \in DOMAIN s.games
  PROVE  LET t == Registered(s, u, i)
         IN  /\ StateInv(t, v, x)
             /\ t.online = s.online /\ t.gamequeue = s.gamequeue /\ t.gq = s.gq
             /\ t.games = s.games /\ t.gs = s.gs /\ t.conns = s.conns
             /\ t.last.seqno = s.last.seqno + 1 /\ t.last.game = s.last.game
             /\ t.last.d2gs = s.last.d2gs
             /\ s.last.seqno + 1 \in DOMAIN t.sqs /\ t.sqs[s.last.seqno + 1].gameid = i
<1> DEFINE t == Registered(s, u, i)
           n == s.last.seqno + 1
           e == [client |-> u, gameid |-> i]
<1>0. /\ DOMAIN s = Fields /\ QueueInv(s) /\ LastInv(s) /\ RequestsInv(s) /\ ServersInv(s)
      /\ GamesInv(s, x) /\ NumbersInv(s, v, x)
  BY DEF StateInv
<1>1. s.last.seqno \in 0..MaxSeqno /\ n \in 1..MaxSeqno
  BY <1>0, BoundTypes DEF LastInv
<1>2. /\ DOMAIN t = Fields /\ t.last = [s.last EXCEPT !.seqno = n] /\ t.sqs = With(s.sqs, n, e)
      /\ t.online = s.online /\ t.gamequeue = s.gamequeue /\ t.gq = s.gq
      /\ t.games = s.games /\ t.gs = s.gs /\ t.conns = s.conns
  BY <1>0 DEF Registered, Fields
<1>3. /\ DOMAIN t.sqs = DOMAIN s.sqs \cup {n} /\ t.sqs[n] = e
      /\ \A m \in DOMAIN s.sqs \ {n} : t.sqs[m] = s.sqs[m]
  <2>1. t.sqs = With(s.sqs, n, e)
    BY <1>2
  <2> HIDE DEF t, n, e
  <2>2. /\ DOMAIN With(s.sqs, n, e) = DOMAIN s.sqs \cup {n} /\ With(s.sqs, n, e)[n] = e
        /\ \A y \in DOMAIN s.sqs \ {n} : With(s.sqs, n, e)[y] = s.sqs[y]
    BY DEF With
  <2> QED BY <2>1, <2>2
<1> HIDE DEF t
<1>4. t.last.seqno = n /\ t.last.game = s.last.game /\ t.last.d2gs = s.last.d2gs
  BY <1>0, <1>2 DEF LastInv
<1>5. LastInv(t)
  BY <1>0, <1>1, <1>2 DEF LastInv
<1>6. QueueInv(t)
  BY <1>0, <1>2 DEF QueueInv
<1>7. RequestsInv(t)
  <2>1. e \in [client : Clients, gameid : 1..s.last.game]
    BY <1>0 DEF GamesInv
  <2>2. DOMAIN s.sqs \subseteq 1..s.last.seqno /\ \A m \in 1..s.last.seqno : m \in 1..n /\ m # n
    BY <1>0, <1>1 DEF RequestsInv
  <2> HIDE DEF e, n
  <2>3. DOMAIN t.sqs \subseteq 1..n
    BY <1>1, <1>3, <2>2
  <2> QED BY <1>0, <1>3, <1>4, <2>1, <2>3 DEF RequestsInv
<1>8. ServersInv(t)
  BY <1>0, <1>2, <1>4 DEF ServersInv
<1>9. GamesInv(t, x)
  BY <1>0, <1>2, <1>4 DEF GamesInv, Active, GamesOn
<1>10. NumbersInv(t, v, x)
  <2>1. \A k, j : Hosts(t, k, j) = Hosts(s, k, j)
    BY <1>2 DEF Hosts
  <2>2. ASSUME NEW k \in DOMAIN t.conns, NEW m \in 1..MaxSeqno, Pending(s, x, k, m)
        PROVE  Pending(t, x, k, m)
    <3>1. m <= s.last.seqno /\ m # n /\ m <= n
      BY <1>1, <2>2 DEF Pending
    <3> HIDE DEF n
    <3>2. m \in DOMAIN t.sqs => m \in DOMAIN s.sqs /\ t.sqs[m] = s.sqs[m]
      BY <1>3, <3>1
    <3> QED BY <1>2, <1>4, <2>1, <2>2, <3>1, <3>2 DEF Pending
  <2>3. Aged(s, x, t, x)
    BY <1>2, <2>1, <2>2 DEF Aged
  <2> QED BY <1>0, <2>3, AgedNumbers
<1> HIDE DEF n, e
<1>11. StateInv(t, v, x)
  BY <1>0, <1>2, <1>5, <1>6, <1>7, <1>8, <1>9, <1>10 DEF StateInv
<1> QED BY <1>2, <1>3, <1>4, <1>11 DEF t, n, e

\* conn_push_outqueue adds a packet for the game server.
LEMMA SentInv ==
  ASSUME NEW s, NEW v, NEW x, StateInv(s, v, x), NEW k \in DOMAIN s.conns,
         NEW p \in ToGs, p.op = "create" => Pending(s, x, k, p.seqno)
  PROVE  LET t == SentTo(s, k, p)
         IN  /\ StateInv(t, v, x) /\ SameConns(s, t)
             /\ t.online = s.online /\ t.gamequeue = s.gamequeue /\ t.gq = s.gq
             /\ t.sqs = s.sqs /\ t.games = s.games /\ t.gs = s.gs /\ t.last = s.last
<1> DEFINE t == SentTo(s, k, p)
<1>0. /\ DOMAIN s = Fields /\ QueueInv(s) /\ LastInv(s) /\ RequestsInv(s) /\ ServersInv(s)
      /\ GamesInv(s, x) /\ NumbersInv(s, v, x)
  BY DEF StateInv
<1>1. CASE k = NoConn \/ ~s.conns[k].peer
  <2>1. t = s
    BY <1>1 DEF SentTo
  <2> QED BY <2>1 DEF SameConns
<1>2. CASE k # NoConn /\ s.conns[k].peer
  <2> DEFINE q == Append(s.conns[k].out, p)
             c == [s.conns[k] EXCEPT !.out = q]
  <2>1. /\ DOMAIN t = Fields /\ t.conns = [s.conns EXCEPT ![k] = c]
        /\ t.online = s.online /\ t.gamequeue = s.gamequeue /\ t.gq = s.gq
        /\ t.sqs = s.sqs /\ t.games = s.games /\ t.gs = s.gs /\ t.last = s.last
    BY <1>0, <1>2 DEF SentTo, Fields
  <2> HIDE DEF t
  <2>2. s.conns[k] \in Connections /\ s.conns[k].out \in Seq(ToGs)
    BY <1>0 DEF ServersInv, Connections
  <2>3. /\ q \in Seq(ToGs) /\ Len(q) = Len(s.conns[k].out) + 1 /\ Len(s.conns[k].out) \in Nat
        /\ q[Len(s.conns[k].out) + 1] = p
        /\ \A j \in 1..Len(s.conns[k].out) : q[j] = s.conns[k].out[j]
    BY <2>2
  <2> HIDE DEF q
  <2>4. /\ c \in Connections /\ c.out = q /\ c.in = s.conns[k].in /\ c.peer = s.conns[k].peer
        /\ c.ip = s.conns[k].ip /\ c.d2gs = s.conns[k].d2gs /\ c.authed = s.conns[k].authed
    BY <2>2, <2>3 DEF Connections
  <2> HIDE DEF c
  <2>5. SameConns(s, t)
    BY <2>1, <2>4 DEF SameConns
  <2>6. QueueInv(t) /\ LastInv(t) /\ RequestsInv(t)
    <3>1. QueueInv(t)
      BY <1>0, <2>1 DEF QueueInv
    <3>2. LastInv(t)
      BY <1>0, <2>1 DEF LastInv
    <3>3. RequestsInv(t)
      BY <1>0, <2>1 DEF RequestsInv
    <3> QED BY <3>1, <3>2, <3>3
  <2>7. ServersInv(t)
    <3>1. \A j \in DOMAIN t.conns : t.conns[j] \in Connections
      BY <1>0, <2>1, <2>4 DEF ServersInv
    <3> QED BY <1>0, <2>1, <2>5, <3>1 DEF ServersInv, SameConns
  <2>8. GamesInv(t, x)
    BY <1>0, <2>1, SMTT(40) DEF GamesInv, Active, GamesOn
  <2>9. NumbersInv(t, v, x)
    <3>1. /\ \A j, i : Hosts(t, j, i) = Hosts(s, j, i)
          /\ \A j \in DOMAIN s.conns : Coming(t, j) = Coming(s, j)
      BY <2>1, <2>5, SMTT(40) DEF Coming, Hosts, SameConns
    <3>2. /\ \A j, n : Pending(t, x, j, n) = Pending(s, x, j, n)
          /\ \A j \in DOMAIN s.conns : \A n : Unused(t, v, j, n) = Unused(s, v, j, n)
      BY <2>1, <2>5, <3>1 DEF Pending, Unused, SameConns
    <3>3. ASSUME NEW j \in DOMAIN t.conns, NEW n \in 1..Len(t.conns[j].out),
                 t.conns[j].out[n].op = "create"
          PROVE  Pending(t, x, j, t.conns[j].out[n].seqno)
      <4>0. j \in DOMAIN s.conns
        BY <2>1
      <4>1. CASE j # k
        <5>1. t.conns[j] = s.conns[j]
          BY <2>1, <4>0, <4>1
        <5> QED BY <1>0, <3>2, <3>3, <4>0, <5>1 DEF NumbersInv
      <4>2. CASE j = k
        <5>1. t.conns[j].out = q
          BY <2>1, <2>4, <4>2
        <5>2. CASE n = Len(s.conns[k].out) + 1
          BY <2>3, <3>2, <3>3, <4>2, <5>1, <5>2
        <5>3. CASE n \in 1..Len(s.conns[k].out)
          <6>1. t.conns[j].out[n] = s.conns[k].out[n]
            BY <2>3, <5>1, <5>3
          <6> QED BY <1>0, <3>2, <3>3, <4>2, <5>3, <6>1 DEF NumbersInv
        <5> QED BY <2>3, <5>1, <5>2, <5>3, SMTT(40)
      <4> QED BY <4>1, <4>2
    <3>4. ASSUME NEW j \in DOMAIN t.conns
          PROVE  /\ j \in DOMAIN s.conns /\ t.conns[j].in = s.conns[j].in
                 /\ t.conns[j].peer = s.conns[j].peer /\ t.conns[j].ip = s.conns[j].ip
      BY <2>5 DEF SameConns
    <3> QED BY <1>0, <2>1, <3>1, <3>2, <3>3, <3>4, SMTT(40) DEF NumbersInv
  <2> QED BY <2>1, <2>5, <2>6, <2>7, <2>8, <2>9 DEF StateInv, t
<1> QED BY <1>1, <1>2

\* The record on_client_creategamereq makes of the request, its number and the packet.
LEMMA RequestedInv ==
  ASSUME NEW s, NEW v, NEW x, StateInv(s, v, x), s.last.seqno < MaxSeqno,
         NEW u \in Clients, NEW i \in DOMAIN s.games, Active(s, s.games[i].d2gs),
         NEW p, With(p, "seqno", s.last.seqno + 1) \in ToGs
  PROVE  LET t == Requested(s, u, i, p)
         IN  /\ StateInv(t, v, x) /\ SameConns(s, t)
             /\ t.online = s.online /\ t.gamequeue = s.gamequeue /\ t.gq = s.gq
             /\ t.games = s.games /\ t.gs = s.gs
             /\ t.last.seqno = s.last.seqno + 1 /\ t.last.game = s.last.game
             /\ t.last.d2gs = s.last.d2gs
<1> DEFINE n == s.last.seqno + 1
           r == Registered(s, u, i)
           k == s.gs[s.games[i].d2gs].conn
           q == With(p, "seqno", n)
           t == Requested(s, u, i, p)
<1>1. t = SentTo(r, k, q)
  BY DEF Requested, Registered
<1>2. /\ StateInv(r, v, x)
      /\ r.online = s.online /\ r.gamequeue = s.gamequeue /\ r.gq = s.gq
      /\ r.games = s.games /\ r.gs = s.gs /\ r.conns = s.conns
      /\ r.last.seqno = n /\ r.last.game = s.last.game /\ r.last.d2gs = s.last.d2gs
      /\ n \in DOMAIN r.sqs /\ r.sqs[n].gameid = i
  BY RegisteredInv
<1>3. q.seqno = n /\ q \in ToGs
  BY DEF With
<1> HIDE DEF t, r, q, n
<1>4. s.games[i].d2gs \in DOMAIN s.gs /\ k # NoConn
  BY DEF Active
<1>5. k \in DOMAIN s.conns
  BY <1>4 DEF StateInv, ServersInv
<1>6. Pending(r, x, k, n)
  <2>1. n <= r.last.seqno
    <3>1. n = r.last.seqno /\ s.last.seqno \in Int
      BY <1>2 DEF StateInv, LastInv
    <3> QED BY <3>1 DEF n
  <2>2. Hosts(r, k, i)
    BY <1>2 DEF Hosts
  <2> QED BY <1>2, <2>1, <2>2 DEF Pending
<1>7. /\ StateInv(t, v, x) /\ SameConns(r, t)
      /\ t.online = r.online /\ t.gamequeue = r.gamequeue /\ t.gq = r.gq
      /\ t.sqs = r.sqs /\ t.games = r.games /\ t.gs = r.gs /\ t.last = r.last
  <2>1. /\ k \in DOMAIN r.conns /\ q \in ToGs /\ StateInv(r, v, x)
        /\ q.op = "create" => Pending(r, x, k, q.seqno)
    BY <1>2, <1>3, <1>5, <1>6
  <2> HIDE DEF k
  <2> QED BY <1>1, <2>1, SentInv
<1>8. SameConns(s, t)
  BY <1>2, <1>7 DEF SameConns
<1> QED BY <1>2, <1>7, <1>8 DEF t, n

\* d2gslist_choose_server finds a server that has room.
LEMMA ServerChosen ==
  ASSUME NEW s, NEW v, NEW x, StateInv(s, v, x), WithRoom(s) # {}
  PROVE  /\ choose_server(s) \in WithRoom(s)
         /\ choose_server(s) \in DOMAIN s.gs /\ Active(s, choose_server(s))
<1> DEFINE W == WithRoom(s)
           load(g) == Percent(s, g)
<1>0. LastInv(s) /\ ServersInv(s) /\ GamesInv(s, x)
  BY DEF StateInv
<1>1. W \subseteq Nat /\ W \subseteq DOMAIN s.gs
  BY <1>0 DEF WithRoom, ServersInv, LastInv
<1>2. ASSUME NEW g \in W PROVE load(g) \in Nat /\ Active(s, g)
  <2>1. g \in DOMAIN s.gs /\ Room(s, g) > 0
    BY DEF WithRoom
  <2>2. Active(s, g)
    <3> SUFFICES ASSUME ~Active(s, g) PROVE FALSE
      OBVIOUS
    <3> QED BY <2>1 DEF Room
  <2>3. s.gs[g].gamenum = Cardinality(GamesOn(s, g)) /\ Cardinality(GamesOn(s, g)) \in Nat
    BY <1>0, <2>1, GamesFinite DEF GamesInv
  <2>4. s.gs[g].maxgame \in Nat
    BY <1>0, <2>1 DEF ServersInv, D2gs
  <2>5. s.gs[g].maxgame - s.gs[g].gamenum > 0
    BY <2>1, <2>2 DEF Room
  <2>6. ASSUME NEW a \in Nat, NEW b \in Nat, b > 0 PROVE a \div b \in Nat
    BY <2>6
  <2>7. 100 * s.gs[g].gamenum \in Nat /\ s.gs[g].maxgame > 0
    BY <2>3, <2>4, <2>5
  <2> QED BY <2>2, <2>4, <2>6, <2>7 DEF Percent
<1> HIDE DEF W, load
<1>3. \E g \in W : \A h \in W \ {g} : load(g) < load(h) \/ (load(g) = load(h) /\ g < h)
  <2> DEFINE L == {load(g) : g \in W}
  <2>1. L \subseteq Nat /\ L # {}
    BY <1>2 DEF W
  <2>2. PICK l \in L : \A m \in L : l <= m
    BY <2>1, NatMin
  <2> DEFINE B == {g \in W : load(g) = l}
  <2>3. B \subseteq Nat /\ B # {}
    BY <1>1
  <2>4. PICK g \in B : \A h \in B : g <= h
    BY <2>3, NatMin
  <2>5. ASSUME NEW h \in W \ {g} PROVE load(g) < load(h) \/ (load(g) = load(h) /\ g < h)
    <3>1. load(h) \in L /\ load(g) = l /\ l <= load(h) /\ load(h) \in Nat /\ l \in Nat
      BY <1>2, <2>1, <2>2
    <3>2. CASE load(h) = l
      <4>1. h \in B /\ g <= h /\ g \in Nat /\ h \in Nat /\ g # h
        BY <1>1, <2>4, <3>2
      <4> QED BY <3>1, <3>2, <4>1
    <3>3. CASE load(h) # l
      BY <3>1, <3>3
    <3> QED BY <3>2, <3>3
  <2> QED BY <2>4, <2>5
<1>4. choose_server(s) \in W
  BY <1>3, Zenon DEF choose_server, W, load
<1> QED BY <1>1, <1>2, <1>4 DEF W

\* A game that has been created on a server with room, before the request is made.
GameAdded(s, name, g) ==
  [s EXCEPT !.last.game = s.last.game + 1,
            !.games = With(@, s.last.game + 1,
                           [name |-> name, d2gs |-> g, created |-> FALSE, gid |-> 0, chars |-> {}]),
            !.gs[g].gamenum = @ + 1]

\* d2cs_game_create, and the place taken on the server.
LEMMA GameAddedInv ==
  ASSUME NEW s, NEW v, NEW x, StateInv(s, v, x), s.last.game < MaxGameId,
         NEW name \in Names, NEW g \in DOMAIN s.gs, Active(s, g)
  PROVE  LET t == GameAdded(s, name, g)
             i == s.last.game + 1
         IN  /\ StateInv(t, v, x)
             /\ t.online = s.online /\ t.gamequeue = s.gamequeue /\ t.gq = s.gq
             /\ t.sqs = s.sqs /\ t.conns = s.conns
             /\ t.last.seqno = s.last.seqno /\ t.last.game = i /\ t.last.d2gs = s.last.d2gs
             /\ i \in DOMAIN t.games /\ t.games[i].d2gs = g /\ Active(t, g)
             /\ i \notin DOMAIN s.games /\ DOMAIN t.games = DOMAIN s.games \cup {i}
             /\ \A j \in DOMAIN s.games : t.games[j] = s.games[j]
             /\ DOMAIN t.gs = DOMAIN s.gs
             /\ \A h \in DOMAIN s.gs : /\ t.gs[h].conn = s.gs[h].conn /\ t.gs[h].ip = s.gs[h].ip
                                       /\ t.gs[h].maxgame = s.gs[h].maxgame
<1> DEFINE t == GameAdded(s, name, g)
           i == s.last.game + 1
           e == [name |-> name, d2gs |-> g, created |-> FALSE, gid |-> 0, chars |-> {}]
           d == [s.gs[g] EXCEPT !.gamenum = s.gs[g].gamenum + 1]
<1>0. /\ DOMAIN s = Fields /\ QueueInv(s) /\ LastInv(s) /\ RequestsInv(s) /\ ServersInv(s)
      /\ GamesInv(s, x) /\ NumbersInv(s, v, x)
  BY DEF StateInv
<1>1. s.last.game \in 0..MaxGameId /\ i \in 1..MaxGameId /\ i \notin 1..s.last.game
  BY <1>0, BoundTypes DEF LastInv
<1>2. /\ DOMAIN t = Fields /\ t.last = [s.last EXCEPT !.game = i] /\ t.games = With(s.games, i, e)
      /\ t.gs = [s.gs EXCEPT ![g] = d]
      /\ t.online = s.online /\ t.gamequeue = s.gamequeue /\ t.gq = s.gq
      /\ t.sqs = s.sqs /\ t.conns = s.conns
  BY <1>0 DEF GameAdded, Fields
<1> HIDE DEF t
<1>3. /\ DOMAIN t.games = DOMAIN s.games \cup {i} /\ t.games[i] = e
      /\ \A j \in DOMAIN s.games \ {i} : t.games[j] = s.games[j]
  <2>1. t.games = With(s.games, i, e)
    BY <1>2
  <2> HIDE DEF i, e
  <2> QED BY <2>1 DEF With
<1>4. t.last.seqno = s.last.seqno /\ t.last.game = i /\ t.last.d2gs = s.last.d2gs
  BY <1>0, <1>2 DEF LastInv
<1>5. LastInv(t)
  BY <1>0, <1>1, <1>2 DEF LastInv
<1>6. QueueInv(t)
  BY <1>0, <1>2 DEF QueueInv
<1>7. RequestsInv(t)
  <2>1. \A j \in 1..s.last.game : j \in 1..i
    BY <1>1
  <2> HIDE DEF i
  <2> QED BY <1>0, <1>2, <1>4, <2>1 DEF RequestsInv
<1>8. i \notin DOMAIN s.games
  BY <1>0, <1>1 DEF GamesInv
<1> HIDE DEF i
<1>9. /\ s.gs[g] \in D2gs /\ d \in D2gs /\ d.conn = s.gs[g].conn /\ d.ip = s.gs[g].ip
      /\ d.maxgame = s.gs[g].maxgame /\ d.gamenum = s.gs[g].gamenum + 1
  <2>1. s.gs[g] \in D2gs
    BY <1>0 DEF ServersInv
  <2> QED BY <2>1 DEF D2gs
<1> HIDE DEF d
<1>10. /\ DOMAIN t.gs = DOMAIN s.gs /\ t.gs[g] = d
       /\ \A h \in DOMAIN s.gs \ {g} : t.gs[h] = s.gs[h]
       /\ \A h \in DOMAIN s.gs : /\ t.gs[h].conn = s.gs[h].conn /\ t.gs[h].ip = s.gs[h].ip
                                 /\ t.gs[h].maxgame = s.gs[h].maxgame
  BY <1>2, <1>9
<1>11. ServersInv(t)
  <2>1. \A h \in DOMAIN t.gs : t.gs[h] \in D2gs
    BY <1>0, <1>9, <1>10 DEF ServersInv
  <2> QED BY <1>0, <1>2, <1>4, <1>10, <2>1 DEF ServersInv
<1>12. \A h : Active(t, h) <=> Active(s, h)
  BY <1>10 DEF Active
<1>13. /\ e.d2gs = g /\ ~e.created /\ e \in Game
  <2>1. g \in 1..MaxGsId
    <3>1. g \in 1..s.last.d2gs /\ s.last.d2gs \in 0..MaxGsId
      BY <1>0 DEF ServersInv, LastInv
    <3> QED BY <3>1, BoundTypes
  <2> QED BY <2>1, BoundTypes DEF Game
<1> HIDE DEF e
<1>14. GamesInv(t, x)
  <2>1. DOMAIN t.games \subseteq 1..t.last.game
    <3>1. 1..s.last.game \subseteq 1..i /\ i \in 1..i
      BY <1>1 DEF i
    <3> QED BY <1>0, <1>3, <1>4, <3>1 DEF GamesInv
  <2>2. ASSUME NEW j \in DOMAIN t.games
        PROVE  /\ t.games[j] \in Game /\ t.games[j].d2gs \in DOMAIN t.gs
               /\ Active(t, t.games[j].d2gs) \/ t.games[j].d2gs = x
    <3>1. CASE j = i
      BY <1>3, <1>10, <1>12, <1>13, <3>1
    <3>2. CASE j # i
      <4>1. j \in DOMAIN s.games /\ t.games[j] = s.games[j]
        BY <1>3, <3>2
      <4> QED BY <1>0, <1>10, <1>12, <4>1 DEF GamesInv
    <3> QED BY <3>1, <3>2
  <2>3. ASSUME NEW h \in DOMAIN t.gs
        PROVE  t.gs[h].gamenum = Cardinality(GamesOn(t, h))
    <3>1. h \in DOMAIN s.gs /\ s.gs[h].gamenum = Cardinality(GamesOn(s, h))
      BY <1>0, <1>10 DEF GamesInv
    <3>2. CASE h = g
      <4>1. GamesOn(t, h) = GamesOn(s, h) \cup {i} /\ i \notin GamesOn(s, h)
        BY <1>3, <1>8, <1>13, <3>2 DEF GamesOn
      <4>2. IsFiniteSet(GamesOn(s, h))
        BY <1>0, GamesFinite
      <4>3. Cardinality(GamesOn(t, h)) = Cardinality(GamesOn(s, h)) + 1
        BY <4>1, <4>2, FS_AddElement
      <4> QED BY <1>9, <1>10, <3>1, <3>2, <4>3
    <3>3. CASE h # g
      <4>1. GamesOn(t, h) = GamesOn(s, h)
        BY <1>3, <1>8, <1>13, <3>3 DEF GamesOn
      <4>2. t.gs[h] = s.gs[h]
        BY <1>10, <3>1, <3>3
      <4> QED BY <3>1, <4>1, <4>2
    <3> QED BY <3>2, <3>3
  <2> QED BY <2>1, <2>2, <2>3 DEF GamesInv
<1>15. NumbersInv(t, v, x)
  <2>1. ASSUME NEW j \in DOMAIN s.games
        PROVE  /\ j \in DOMAIN t.games /\ t.games[j] = s.games[j]
               /\ \A k : Hosts(t, k, j) <=> Hosts(s, k, j)
    <3>1. t.games[j] = s.games[j] /\ s.games[j].d2gs \in DOMAIN s.gs /\ j \in DOMAIN t.games
      BY <1>0, <1>3, <1>8 DEF GamesInv
    <3> QED BY <1>10, <3>1 DEF Hosts
  <2>2. ASSUME NEW k \in DOMAIN t.conns, NEW m \in 1..MaxSeqno, Pending(s, x, k, m)
        PROVE  Pending(t, x, k, m)
    <3>1. ASSUME m \in DOMAIN s.sqs, s.sqs[m].gameid \in DOMAIN t.games
          PROVE  s.sqs[m].gameid \in DOMAIN s.games
      <4>1. s.sqs[m].gameid \in 1..s.last.game
        BY <1>0, <3>1 DEF RequestsInv
      <4>2. s.sqs[m].gameid # i
        BY <1>1, <4>1 DEF i
      <4> QED BY <1>3, <3>1, <4>2
    <3> QED BY <1>2, <1>4, <2>1, <2>2, <3>1 DEF Pending
  <2>3. Aged(s, x, t, x)
    <3>1. ASSUME NEW j \in DOMAIN t.games, t.games[j].created
          PROVE  /\ j \in DOMAIN s.games /\ s.games[j].created
                 /\ t.games[j].gid = s.games[j].gid /\ t.games[j].d2gs = s.games[j].d2gs
                 /\ \A k \in DOMAIN t.conns : Hosts(t, k, j) => Hosts(s, k, j)
      <4>1. j \in DOMAIN s.games
        BY <1>3, <1>13, <3>1
      <4> QED BY <2>1, <3>1, <4>1
    <3> QED BY <1>2, <2>2, <3>1 DEF Aged
  <2> QED BY <1>0, <2>3, AgedNumbers
<1>16. StateInv(t, v, x)
  BY <1>0, <1>2, <1>5, <1>6, <1>7, <1>11, <1>14, <1>15 DEF StateInv
<1>17. i \in DOMAIN t.games /\ t.games[i].d2gs = g /\ Active(t, g)
  BY <1>3, <1>12, <1>13
<1>18. \A j \in DOMAIN s.games : t.games[j] = s.games[j]
  BY <1>3, <1>8
<1> QED BY <1>2, <1>3, <1>4, <1>8, <1>10, <1>16, <1>17, <1>18 DEF t, i

-----------------------------------------------------------------------------
\* What the handlers change besides the queue and the requests: the games of D are
\* gone, there may be new ones on servers that were connected, and servers and
\* connections are the same.
Changed(s, t, D) ==
  /\ t.online = s.online /\ t.last.d2gs = s.last.d2gs /\ t.last.game >= s.last.game
  /\ \A i \in DOMAIN s.games : i \notin D => i \in DOMAIN t.games /\ t.games[i] = s.games[i]
  /\ \A i \in DOMAIN t.games :
       \/ i \in DOMAIN s.games /\ i \notin D
       \/ i \notin 1..s.last.game /\ Active(s, t.games[i].d2gs)
  /\ DOMAIN t.gs = DOMAIN s.gs
  /\ \A g \in DOMAIN s.gs : /\ t.gs[g].conn = s.gs[g].conn /\ t.gs[g].ip = s.gs[g].ip
                            /\ t.gs[g].maxgame = s.gs[g].maxgame
  /\ SameConns(s, t)
Grown(s, t) == Changed(s, t, {})

\* Nothing is created when nothing is done.
LEMMA GrownSame ==
  ASSUME NEW s, NEW t, LastInv(s), t.online = s.online, t.last = s.last, t.games = s.games,
         t.gs = s.gs, t.conns = s.conns
  PROVE  Grown(s, t)
<1>1. s.last.game \in Int
  BY DEF LastInv
<1> QED BY <1>1 DEF Grown, Changed, SameConns

\* One change after the other.
LEMMA ChangedTwice ==
  ASSUME NEW r, NEW s, NEW t, NEW D, NEW E, LastInv(r), LastInv(s), LastInv(t),
         Changed(r, s, D), Changed(s, t, E)
  PROVE  Changed(r, t, D \cup E)
<1>1. r.last.game \in Int /\ s.last.game \in Int /\ t.last.game \in Int
  BY DEF LastInv
<1>2. /\ t.online = r.online /\ t.last.d2gs = r.last.d2gs /\ t.last.game >= r.last.game
      /\ DOMAIN t.gs = DOMAIN r.gs
      /\ \A g \in DOMAIN r.gs : /\ t.gs[g].conn = r.gs[g].conn /\ t.gs[g].ip = r.gs[g].ip
                                /\ t.gs[g].maxgame = r.gs[g].maxgame
  BY <1>1 DEF Changed
<1>3. SameConns(r, t)
  BY DEF Changed, SameConns
<1>4. \A i \in DOMAIN r.games :
        i \notin D \cup E => i \in DOMAIN t.games /\ t.games[i] = r.games[i]
  BY DEF Changed
<1>5. \A g : Active(s, g) <=> Active(r, g)
  BY DEF Changed, Active
<1>6. ASSUME NEW i \in DOMAIN t.games
      PROVE  \/ i \in DOMAIN r.games /\ i \notin D \cup E
             \/ i \notin 1..r.last.game /\ Active(r, t.games[i].d2gs)
  <2>1. CASE i \in DOMAIN s.games /\ i \notin E
    <3>1. t.games[i] = s.games[i]
      BY <2>1 DEF Changed
    <3>2. \/ i \in DOMAIN r.games /\ i \notin D
          \/ i \notin 1..r.last.game /\ Active(r, s.games[i].d2gs)
      BY <2>1 DEF Changed
    <3> QED BY <2>1, <3>1, <3>2
  <2>2. CASE i \notin 1..s.last.game /\ Active(s, t.games[i].d2gs)
    <3>1. 1..r.last.game \subseteq 1..s.last.game
      BY <1>1 DEF Changed
    <3> QED BY <1>5, <2>2, <3>1
  <2>3. \/ i \in DOMAIN s.games /\ i \notin E
        \/ i \notin 1..s.last.game /\ Active(s, t.games[i].d2gs)
    BY DEF Changed
  <2> QED BY <2>1, <2>2, <2>3
<1> QED BY <1>2, <1>3, <1>4, <1>6 DEF Changed

\* One creation after the other.
LEMMA GrownTwice ==
  ASSUME NEW r, NEW s, NEW t, LastInv(r), LastInv(s), LastInv(t), Grown(r, s), Grown(s, t)
  PROVE  Grown(r, t)
<1>1. {} \cup {} = {}
  OBVIOUS
<1>2. Changed(r, t, {} \cup {})
  BY ChangedTwice DEF Grown
<1> QED BY <1>1, <1>2 DEF Grown

\* A game made for a client, with the request to its server.
LEMMA GameMadeInv ==
  ASSUME NEW s, NEW v, NEW x, StateInv(s, v, x), WithRoom(s) # {}, NEW u \in Clients,
         NEW name \in Names, s.last.game < MaxGameId, s.last.seqno < MaxSeqno
  PROVE  LET t == GameMade(s, u, name)
         IN  /\ StateInv(t, v, x) /\ Grown(s, t)
             /\ t.gamequeue = s.gamequeue /\ t.gq = s.gq
             /\ t.last.game = s.last.game + 1 /\ t.last.seqno = s.last.seqno + 1
<1> DEFINE g == choose_server(s)
           i == s.last.game + 1
           r == GameAdded(s, name, g)
           p == [op |-> "create"]
           t == GameMade(s, u, name)
<1>1. t = Requested(r, u, i, p)
  BY DEF GameMade, GameAdded
<1>2. g \in DOMAIN s.gs /\ Active(s, g)
  BY ServerChosen
<1>0. LastInv(s) /\ s.last.seqno \in Nat /\ s.last.game \in Nat
  BY BoundTypes DEF StateInv, LastInv
<1> HIDE DEF g
<1>3. /\ StateInv(r, v, x)
      /\ r.online = s.online /\ r.gamequeue = s.gamequeue /\ r.gq = s.gq
      /\ r.sqs = s.sqs /\ r.conns = s.conns
      /\ r.last.seqno = s.last.seqno /\ r.last.game = i /\ r.last.d2gs = s.last.d2gs
      /\ i \in DOMAIN r.games /\ r.games[i].d2gs = g /\ Active(r, g)
      /\ i \notin DOMAIN s.games /\ DOMAIN r.games = DOMAIN s.games \cup {i}
      /\ \A j \in DOMAIN s.games : r.games[j] = s.games[j]
      /\ DOMAIN r.gs = DOMAIN s.gs
      /\ \A h \in DOMAIN s.gs : /\ r.gs[h].conn = s.gs[h].conn /\ r.gs[h].ip = s.gs[h].ip
                                /\ r.gs[h].maxgame = s.gs[h].maxgame
  BY <1>2, GameAddedInv
<1> HIDE DEF t, r
<1>4. With(p, "seqno", r.last.seqno + 1) \in ToGs
  <2> DEFINE n == r.last.seqno + 1
  <2>1. n \in 1..MaxSeqno
    BY <1>0, <1>3, BoundTypes
  <2> HIDE DEF n
  <2>2. With(p, "seqno", n) = [op |-> "create", seqno |-> n]
    BY DEF With
  <2>3. With(p, "seqno", n) \in ToGs
    BY <2>1, <2>2 DEF ToGs
  <2> QED BY <2>3 DEF n
<1> HIDE DEF p
<1>5. r.last.seqno < MaxSeqno /\ i \in DOMAIN r.games /\ Active(r, r.games[i].d2gs)
  BY <1>3
<1> HIDE DEF i
<1>6. /\ StateInv(t, v, x) /\ SameConns(r, t)
      /\ t.online = r.online /\ t.gamequeue = r.gamequeue /\ t.gq = r.gq
      /\ t.games = r.games /\ t.gs = r.gs
      /\ t.last.seqno = r.last.seqno + 1 /\ t.last.game = r.last.game
      /\ t.last.d2gs = r.last.d2gs
  BY <1>1, <1>3, <1>4, <1>5, RequestedInv
<1>7. Grown(s, t)
  <2>1. i \notin 1..s.last.game /\ i >= s.last.game
    BY <1>0 DEF i
  <2>2. SameConns(s, t)
    BY <1>3, <1>6 DEF SameConns
  <2>3. \A j \in DOMAIN t.games : j \notin DOMAIN s.games => j = i
    BY <1>3, <1>6
  <2> QED BY <1>2, <1>3, <1>6, <2>1, <2>2, <2>3 DEF Grown, Changed
<1> QED BY <1>3, <1>6, <1>7 DEF t, i

\* A client that does not wait is put at the end of the queue.
LEMMA EnqueuedInv ==
  ASSUME NEW s, NEW v, NEW x, StateInv(s, v, x), NEW u \in s.online, u \notin s.gamequeue,
         NEW name \in Names
  PROVE  LET t == Enqueued(s, u, name)
         IN  /\ StateInv(t, v, x) /\ Grown(s, t)
             /\ Len(t.gq) = Len(s.gq) + 1 /\ t.last = s.last
<1> DEFINE t == Enqueued(s, u, name)
           e == [client |-> u, name |-> name]
           n == Len(s.gq)
<1>1. /\ DOMAIN t = Fields /\ t.gamequeue = s.gamequeue \cup {u} /\ t.gq = Append(s.gq, e)
      /\ t.online = s.online /\ t.sqs = s.sqs /\ t.games = s.games /\ t.gs = s.gs
      /\ t.conns = s.conns /\ t.last = s.last
  BY DEF Enqueued, StateInv, Fields
<1> HIDE DEF t
<1>2. /\ s.online \subseteq Clients /\ s.gamequeue \subseteq s.online /\ s.gq \in Seq(Entry)
      /\ \A i \in 1..n : s.gq[i].client \in s.gamequeue
      /\ \A i, j \in 1..n : s.gq[i].client = s.gq[j].client => i = j
      /\ \A w \in s.gamequeue : \E i \in 1..n : s.gq[i].client = w
  BY Zenon DEF StateInv, QueueInv
<1>3. s.gq \in Seq(Entry) /\ e \in Entry /\ e.client = u
  BY <1>2 DEF Entry
<1> HIDE DEF e
<1>4. /\ t.gq \in Seq(Entry) /\ Len(t.gq) = n + 1 /\ n \in Nat /\ t.gq[n + 1] = e
      /\ \A i \in 1..n : t.gq[i] = s.gq[i]
  BY <1>1, <1>3
<1> HIDE DEF n
<1>5. QueueInv(t)
  <2>1. \A i \in 1..(n + 1) : i \in 1..n \/ i = n + 1
    BY <1>4
  <2>2. n + 1 \in 1..(n + 1) /\ \A i \in 1..n : i \in 1..(n + 1)
    BY <1>4
  <2>3. \A i \in 1..(n + 1) : t.gq[i].client \in t.gamequeue
    BY <1>1, <1>2, <1>3, <1>4, <2>1
  <2>4. \A i \in 1..n : t.gq[i].client = s.gq[i].client /\ t.gq[i].client # u
    <3> TAKE i \in 1..n
    <3>1. t.gq[i] = s.gq[i] /\ s.gq[i].client \in s.gamequeue
      BY <1>2, <1>4
    <3> QED BY <3>1
  <2>5. \A i, j \in 1..(n + 1) : t.gq[i].client = t.gq[j].client => i = j
    <3> TAKE i, j \in 1..(n + 1)
    <3>1. CASE i \in 1..n /\ j \in 1..n
      BY <1>2, <2>4, <3>1
    <3>2. CASE i = n + 1 \/ j = n + 1
      BY <1>3, <1>4, <2>1, <2>4, <3>2
    <3> QED BY <2>1, <3>1, <3>2
  <2>6. ASSUME NEW w \in t.gamequeue PROVE \E i \in 1..(n + 1) : t.gq[i].client = w
    <3>1. CASE w = u
      BY <1>3, <1>4, <2>2, <3>1
    <3>2. CASE w \in s.gamequeue
      BY <1>2, <2>2, <2>4, <3>2
    <3> QED BY <1>1, <3>1, <3>2
  <2>7. t.online \subseteq Clients /\ t.gamequeue \subseteq t.online
    BY <1>1, <1>2
  <2> QED BY <1>4, <2>3, <2>5, <2>6, <2>7 DEF QueueInv
<1>6. StateInv(t, v, x)
  BY <1>1, <1>5, QueueChanged
<1>7. Grown(s, t)
  <2>1. LastInv(s)
    BY DEF StateInv
  <2> QED BY <1>1, <2>1, GrownSame
<1> QED BY <1>1, <1>4, <1>6, <1>7 DEF t, n

\* on_client_creategamereq does nothing, makes the game, lets the client wait, or
\* gives up its place when there is no server.
LEMMA CreateCases ==
  ASSUME NEW s, NEW u, NEW name, NEW t, t = creategame(s, u, name)
  PROVE  \/ t = s
         \/ WithRoom(s) # {} /\ t = GameMade(s, u, name)
         \/ WithRoom(s) = {} /\ u \in s.gamequeue /\ t = Dequeued(s, u)
         \/ WithRoom(s) = {} /\ u \notin s.gamequeue /\ t = Enqueued(s, u, name)
BY DEF creategame

\* The request of a client: the invariant, and the ids that are left.
LEMMA CreateGameInv ==
  ASSUME NEW s, NEW v, NEW x, StateInv(s, v, x), NEW u \in s.online, NEW name \in Names,
         s.last.game < MaxGameId, s.last.seqno < MaxSeqno
  PROVE  LET t == creategame(s, u, name)
         IN  /\ StateInv(t, v, x) /\ Grown(s, t)
             /\ \/ /\ t.gq = s.gq /\ t.gamequeue = s.gamequeue
                   /\ t.last.game <= s.last.game + 1 /\ t.last.seqno <= s.last.seqno + 1
                \/ /\ u \in s.gamequeue /\ u \notin t.gamequeue
                   /\ Len(t.gq) = Len(s.gq) - 1 /\ t.last = s.last
                \/ /\ u \notin s.gamequeue
                   /\ Len(t.gq) = Len(s.gq) + 1 /\ t.last = s.last
<1> DEFINE t == creategame(s, u, name)
<1>0. LastInv(s) /\ u \in Clients /\ s.last.game \in Int /\ s.last.seqno \in Int
  BY DEF StateInv, LastInv, QueueInv
<1>1. \/ t = s
      \/ WithRoom(s) # {} /\ t = GameMade(s, u, name)
      \/ WithRoom(s) = {} /\ u \in s.gamequeue /\ t = Dequeued(s, u)
      \/ WithRoom(s) = {} /\ u \notin s.gamequeue /\ t = Enqueued(s, u, name)
  BY CreateCases
<1> HIDE DEF t
<1>2. CASE t = s
  BY <1>0, <1>2, GrownSame DEF t
<1>3. CASE WithRoom(s) # {} /\ t = GameMade(s, u, name)
  <2>1. /\ StateInv(t, v, x) /\ Grown(s, t)
        /\ t.gamequeue = s.gamequeue /\ t.gq = s.gq
        /\ t.last.game = s.last.game + 1 /\ t.last.seqno = s.last.seqno + 1
    BY <1>0, <1>3, GameMadeInv
  <2> QED BY <1>0, <2>1 DEF t
<1>4. CASE u \in s.gamequeue /\ t = Dequeued(s, u)
  <2>1. /\ StateInv(t, v, x) /\ u \notin t.gamequeue /\ t.online = s.online
        /\ Len(t.gq) = Len(s.gq) - 1 /\ t.games = s.games /\ t.gs = s.gs
        /\ t.conns = s.conns /\ t.last = s.last
    BY <1>4, DequeuedInv
  <2>2. Grown(s, t)
    BY <1>0, <2>1, GrownSame
  <2> QED BY <1>4, <2>1, <2>2 DEF t
<1>5. CASE u \notin s.gamequeue /\ t = Enqueued(s, u, name)
  <2>1. StateInv(t, v, x) /\ Grown(s, t) /\ Len(t.gq) = Len(s.gq) + 1 /\ t.last = s.last
    BY <1>5, EnqueuedInv
  <2> QED BY <1>5, <2>1 DEF t
<1> QED BY <1>1, <1>2, <1>3, <1>4, <1>5

-----------------------------------------------------------------------------
\* A sum that one part of makes up for the other.
LEMMA SumKept ==
  ASSUME NEW a \in Int, NEW b \in Int, NEW l \in Nat, NEW m, m = l - 1, NEW max \in Nat,
         a + l <= max, b <= a + 1
  PROVE  b + m <= max
OBVIOUS

\* Who leaves the queue leaves room for the ids that are given in its place.
LEMMA SpareAfterTurn ==
  ASSUME NEW s, NEW t, Spare(s), s.last.game \in Int, s.last.seqno \in Int, Len(s.gq) \in Nat,
         t.last.game \in Int, t.last.seqno \in Int, Len(t.gq) = Len(s.gq) - 1,
         t.last.game <= s.last.game + 1, t.last.seqno <= s.last.seqno + 1
  PROVE  Spare(t)
<1>1. t.last.game + Len(t.gq) <= MaxGameId
  BY SumKept, BoundTypes DEF Spare
<1>2. t.last.seqno + Len(t.gq) <= MaxSeqno
  BY SumKept, BoundTypes DEF Spare
<1> QED BY <1>1, <1>2 DEF Spare

\* One turn of the loop over the queue.
LEMMA ServeFirstInv ==
  ASSUME NEW r, NEW v, NEW x, StateInv(r.s, v, x), Spare(r.s), r.s.gq # <<>>
  PROVE  LET t == ServeFirst(r).s
         IN  StateInv(t, v, x) /\ Spare(t) /\ Grown(r.s, t)
<1> DEFINE s == r.s
           e == Head(s.gq)
           q == creategame(s, e.client, e.name)
           t == ServeFirst(r).s
<1>0. LastInv(s) /\ QueueInv(s) /\ s.last.game \in Int /\ s.last.seqno \in Int
  BY DEF StateInv, LastInv
<1>1. s.gq \in Seq(Entry) /\ s.gq # <<>>
  BY <1>0 DEF QueueInv
<1>2. e \in Entry /\ e = s.gq[1] /\ 1 \in 1..Len(s.gq) /\ Len(s.gq) \in Nat /\ Len(s.gq) >= 1
  BY <1>1
<1>3. e.client \in s.gamequeue /\ e.client \in s.online /\ e.name \in Names
  <2>1. e.client \in s.gamequeue
    BY <1>0, <1>2 DEF QueueInv
  <2> QED BY <1>0, <1>2, <2>1 DEF QueueInv, Entry
<1>4. t = Dequeued(q, e.client)
  BY DEF ServeFirst
<1>5. s.last.game < MaxGameId /\ s.last.seqno < MaxSeqno
  BY <1>0, <1>2, BoundTypes, SMTT(40) DEF Spare
<1> HIDE DEF t, e, s
<1>6. /\ StateInv(q, v, x) /\ Grown(s, q)
      /\ \/ /\ q.gq = s.gq /\ q.gamequeue = s.gamequeue
            /\ q.last.game <= s.last.game + 1 /\ q.last.seqno <= s.last.seqno + 1
         \/ /\ e.client \notin q.gamequeue
            /\ Len(q.gq) = Len(s.gq) - 1 /\ q.last = s.last
  <2>1. StateInv(s, v, x)
    BY DEF s
  <2> QED BY <1>3, <1>5, <2>1, CreateGameInv
<1> HIDE DEF q
<1>7. /\ StateInv(t, v, x) /\ t.online = q.online
      /\ e.client \notin q.gamequeue => t.gq = q.gq
      /\ e.client \in q.gamequeue => Len(t.gq) = Len(q.gq) - 1
      /\ t.games = q.games /\ t.gs = q.gs /\ t.conns = q.conns /\ t.last = q.last
  BY <1>4, <1>6, DequeuedInv
<1>8. LastInv(q) /\ LastInv(t) /\ q.last.game \in Int /\ q.last.seqno \in Int
  BY <1>6, <1>7 DEF StateInv, LastInv
<1>9. Grown(s, t)
  <2>1. Grown(q, t)
    BY <1>7, <1>8, GrownSame
  <2> QED BY <1>0, <1>6, <1>8, <2>1, GrownTwice
<1>10. Spare(t)
  <2>1. Spare(s)
    BY DEF s
  <2>2. CASE /\ q.gq = s.gq /\ q.gamequeue = s.gamequeue
             /\ q.last.game <= s.last.game + 1 /\ q.last.seqno <= s.last.seqno + 1
    <3>1. Len(t.gq) = Len(s.gq) - 1
      BY <1>3, <1>7, <2>2
    <3>2. /\ t.last.game <= s.last.game + 1 /\ t.last.seqno <= s.last.seqno + 1
          /\ t.last.game \in Int /\ t.last.seqno \in Int
      BY <1>7, <1>8, <2>2
    <3> QED BY <1>0, <1>2, <2>1, <3>1, <3>2, SpareAfterTurn
  <2>3. CASE /\ e.client \notin q.gamequeue
             /\ Len(q.gq) = Len(s.gq) - 1 /\ q.last = s.last
    <3>1. Len(t.gq) = Len(s.gq) - 1
      BY <1>7, <2>3
    <3>2. /\ t.last.game <= s.last.game + 1 /\ t.last.seqno <= s.last.seqno + 1
          /\ t.last.game \in Int /\ t.last.seqno \in Int
      <4>1. t.last.game = s.last.game /\ t.last.seqno = s.last.seqno
        BY <1>7, <2>3
      <4> QED BY <1>0, <4>1
    <3> QED BY <1>0, <1>2, <2>1, <3>1, <3>2, SpareAfterTurn
  <2> QED BY <1>6, <2>2, <2>3
<1> QED BY <1>7, <1>9, <1>10 DEF t, s

\* The loop, and what it keeps: c is where it starts.
ServeTurn(c, r, n) == IF r.go /\ r.s.gq # <<>> THEN ServeFirst(r) ELSE r
ServeLoopInv(c, k, r) == StateInv(r.s, c.v, c.x) /\ Spare(r.s) /\ Grown(c.s, r.s)
ServeFold == INSTANCE FoldInduction WITH Op <- ServeTurn, Inv <- ServeLoopInv

\* gqlist_check_creategame, for as many as are offered a place.
LEMMA CheckCreateInv ==
  ASSUME NEW s, NEW v, NEW x, StateInv(s, v, x), Spare(s), NEW number \in Int
  PROVE  LET t == check_creategame(s, number)
         IN  StateInv(t, v, x) /\ Spare(t) /\ Grown(s, t)
<1> DEFINE c == [s |-> s, v |-> v, x |-> x]
           b == [s |-> s, go |-> TRUE]
           seq == [n \in 1..number |-> n]
           l == ServeFold!Fold(c, b, seq)
           t == check_creategame(s, number)
<1>0. c.s = s /\ c.v = v /\ c.x = x /\ b.s = s
  OBVIOUS
<1>1. PICK m \in Nat : DOMAIN seq = 1..m
  <2>1. CASE number \in Nat
    BY <2>1
  <2>2. CASE number \notin Nat
    <3>1. DOMAIN seq = 1..0
      BY <2>2
    <3> QED BY <3>1
  <2> QED BY <2>1, <2>2
<1>2. t = l.s
  BY DEF check_creategame, ServeTurn, FoldLeft, MapThenFoldSet, Max, ServeFold!Fold, ServeFold!Greatest
<1> HIDE DEF t, l, c, b, seq
<1>3. ServeLoopInv(c, 0, b)
  <2>1. Grown(s, s)
    <3>1. LastInv(s)
      BY DEF StateInv
    <3> QED BY <3>1, GrownSame
  <2> QED BY <1>0, <2>1 DEF ServeLoopInv
<1>4. \A a : \A i \in 1..m : ServeLoopInv(c, i - 1, a) => ServeLoopInv(c, i, ServeTurn(c, a, seq[i]))
  <2> TAKE a
  <2> TAKE i \in 1..m
  <2> HAVE ServeLoopInv(c, i - 1, a)
  <2> DEFINE r == ServeTurn(c, a, seq[i])
  <2>1. StateInv(a.s, c.v, c.x) /\ Spare(a.s) /\ Grown(c.s, a.s) /\ StateInv(c.s, c.v, c.x)
    BY <1>0 DEF ServeLoopInv
  <2>2. CASE a.go /\ a.s.gq # <<>>
    <3>1. r = ServeFirst(a)
      BY <2>2 DEF ServeTurn
    <3> HIDE DEF r
    <3>2. StateInv(r.s, c.v, c.x) /\ Spare(r.s) /\ Grown(a.s, r.s)
      BY <2>1, <2>2, <3>1, ServeFirstInv
    <3>3. LastInv(c.s) /\ LastInv(a.s) /\ LastInv(r.s)
      BY <2>1, <3>2 DEF StateInv
    <3>4. Grown(c.s, r.s)
      BY <2>1, <3>2, <3>3, GrownTwice
    <3> QED BY <3>2, <3>4 DEF ServeLoopInv, r
  <2>3. CASE ~(a.go /\ a.s.gq # <<>>)
    <3>1. r = a
      BY <2>3 DEF ServeTurn
    <3> QED BY <2>1, <3>1 DEF ServeLoopInv
  <2> QED BY <2>2, <2>3
<1>5. ServeLoopInv(c, m, l)
  BY <1>1, <1>3, <1>4, ServeFold!FoldLeftInv DEF l
<1> QED BY <1>0, <1>2, <1>5 DEF ServeLoopInv, t

-----------------------------------------------------------------------------
\* A game taken out of the list, with its place.
GameRemoved(s, i) ==
  [s EXCEPT !.games = Without(@, i), !.gs[s.games[i].d2gs].gamenum = @ - 1]

\* The first half of game_destroy, before the place is offered to those who wait.
LEMMA GameRemovedInv ==
  ASSUME NEW s, NEW v, NEW x, StateInv(s, v, x), NEW i \in DOMAIN s.games
  PROVE  LET t == GameRemoved(s, i)
         IN  /\ StateInv(t, v, x) /\ Changed(s, t, {i})
             /\ t.gq = s.gq /\ t.last = s.last
             /\ s.games[i].d2gs \in DOMAIN t.gs
<1> DEFINE t == GameRemoved(s, i)
           g == s.games[i].d2gs
           d == [s.gs[g] EXCEPT !.gamenum = s.gs[g].gamenum - 1]
<1>0. /\ DOMAIN s = Fields /\ QueueInv(s) /\ LastInv(s) /\ RequestsInv(s) /\ ServersInv(s)
      /\ GamesInv(s, x) /\ NumbersInv(s, v, x)
  BY DEF StateInv
<1>1. g \in DOMAIN s.gs
  BY <1>0 DEF GamesInv
<1>2. /\ DOMAIN t = Fields /\ t.games = Without(s.games, i) /\ t.gs = [s.gs EXCEPT ![g] = d]
      /\ t.online = s.online /\ t.gamequeue = s.gamequeue /\ t.gq = s.gq
      /\ t.sqs = s.sqs /\ t.conns = s.conns /\ t.last = s.last
  BY <1>0 DEF GameRemoved, Fields
<1> HIDE DEF t
<1>3. /\ DOMAIN t.games = DOMAIN s.games \ {i}
      /\ \A j \in DOMAIN t.games : t.games[j] = s.games[j]
  <2>1. t.games = Without(s.games, i)
    BY <1>2
  <2> QED BY <2>1 DEF Without
<1>4. QueueInv(t) /\ LastInv(t) /\ RequestsInv(t)
  <2>1. QueueInv(t)
    BY <1>0, <1>2 DEF QueueInv
  <2>2. LastInv(t)
    BY <1>0, <1>2, SMTT(40) DEF LastInv
  <2>3. RequestsInv(t)
    BY <1>0, <1>2, SMTT(40) DEF RequestsInv
  <2> QED BY <2>1, <2>2, <2>3, SMTT(40)
<1>5. /\ s.gs[g] \in D2gs /\ d \in D2gs /\ d.conn = s.gs[g].conn /\ d.ip = s.gs[g].ip
      /\ d.maxgame = s.gs[g].maxgame /\ d.gamenum = s.gs[g].gamenum - 1
  <2>1. s.gs[g] \in D2gs
    BY <1>0, <1>1, SMTT(40) DEF ServersInv
  <2> QED BY <2>1 DEF D2gs
<1> HIDE DEF d
<1>6. /\ DOMAIN t.gs = DOMAIN s.gs /\ t.gs[g] = d
      /\ \A h \in DOMAIN s.gs \ {g} : t.gs[h] = s.gs[h]
      /\ \A h \in DOMAIN s.gs : /\ t.gs[h].conn = s.gs[h].conn /\ t.gs[h].ip = s.gs[h].ip
                                /\ t.gs[h].maxgame = s.gs[h].maxgame
  BY <1>1, <1>2, <1>5
<1>7. ServersInv(t)
  <2>1. \A h \in DOMAIN t.gs : t.gs[h] \in D2gs
    BY <1>0, <1>5, <1>6 DEF ServersInv
  <2> QED BY <1>0, <1>2, <1>6, <2>1, SMTT(40) DEF ServersInv
<1>8. \A h : Active(t, h) <=> Active(s, h)
  BY <1>6 DEF Active
<1>9. GamesInv(t, x)
  <2>1. ASSUME NEW j \in DOMAIN t.games
        PROVE  /\ j \in 1..t.last.game /\ t.games[j] \in Game /\ t.games[j].d2gs \in DOMAIN t.gs
               /\ Active(t, t.games[j].d2gs) \/ t.games[j].d2gs = x
    BY <1>0, <1>2, <1>3, <1>6, <1>8 DEF GamesInv
  <2>2. ASSUME NEW h \in DOMAIN t.gs
        PROVE  t.gs[h].gamenum = Cardinality(GamesOn(t, h))
    <3>1. h \in DOMAIN s.gs /\ s.gs[h].gamenum = Cardinality(GamesOn(s, h))
      BY <1>0, <1>6, SMTT(40) DEF GamesInv
    <3>2. CASE h = g
      <4>1. GamesOn(t, h) = GamesOn(s, h) \ {i} /\ i \in GamesOn(s, h)
        BY <1>3, <3>2 DEF GamesOn
      <4>2. IsFiniteSet(GamesOn(s, h))
        BY <1>0, GamesFinite
      <4>3. Cardinality(GamesOn(t, h)) = Cardinality(GamesOn(s, h)) - 1
        BY <4>1, <4>2, FS_RemoveElement
      <4> QED BY <1>5, <1>6, <3>1, <3>2, <4>3
    <3>3. CASE h # g
      <4>1. GamesOn(t, h) = GamesOn(s, h)
        BY <1>3, <3>3 DEF GamesOn
      <4>2. t.gs[h] = s.gs[h]
        BY <1>6, <3>1, <3>3
      <4> QED BY <3>1, <4>1, <4>2
    <3> QED BY <3>2, <3>3
  <2> QED BY <2>1, <2>2 DEF GamesInv
<1>10. NumbersInv(t, v, x)
  <2>1. ASSUME NEW j \in DOMAIN t.games
        PROVE  /\ j \in DOMAIN s.games /\ t.games[j] = s.games[j]
               /\ \A k : Hosts(t, k, j) <=> Hosts(s, k, j)
    <3>1. t.games[j] = s.games[j] /\ s.games[j].d2gs \in DOMAIN s.gs /\ j \in DOMAIN s.games
      BY <1>0, <1>3 DEF GamesInv
    <3> QED BY <1>6, <3>1 DEF Hosts
  <2>2. \A k, m : Pending(s, x, k, m) => Pending(t, x, k, m)
    BY <1>2, <2>1 DEF Pending
  <2>3. Aged(s, x, t, x)
    BY <1>2, <2>1, <2>2 DEF Aged
  <2> QED BY <1>0, <2>3, AgedNumbers
<1>11. StateInv(t, v, x)
  BY <1>0, <1>2, <1>4, <1>7, <1>9, <1>10 DEF StateInv
<1>12. Changed(s, t, {i})
  <2>1. s.last.game \in Int
    BY <1>0 DEF LastInv
  <2> QED BY <1>2, <1>3, <1>6, <2>1 DEF Changed, SameConns
<1> QED BY <1>1, <1>2, <1>6, <1>11, <1>12 DEF t

\* game_destroy.
LEMMA GameDestroyInv ==
  ASSUME NEW s, NEW v, NEW x, StateInv(s, v, x), Spare(s), NEW i \in DOMAIN s.games
  PROVE  LET t == game_destroy(s, i)
         IN  StateInv(t, v, x) /\ Spare(t) /\ Changed(s, t, {i})
<1> DEFINE r == GameRemoved(s, i)
           g == s.games[i].d2gs
           n == r.gs[g].maxgame - r.gs[g].gamenum
           t == game_destroy(s, i)
<1>1. t = check_creategame(r, n)
  BY DEF game_destroy, GameRemoved
<1>2. /\ StateInv(r, v, x) /\ Changed(s, r, {i}) /\ r.gq = s.gq /\ r.last = s.last
      /\ g \in DOMAIN r.gs
  BY GameRemovedInv
<1> HIDE DEF r, t
<1>3. Spare(r)
  BY <1>2 DEF Spare
<1>4. n \in Int
  <2>1. r.gs[g] \in D2gs
    BY <1>2 DEF StateInv, ServersInv
  <2> QED BY <2>1 DEF D2gs
<1> HIDE DEF n
<1>5. StateInv(t, v, x) /\ Spare(t) /\ Grown(r, t)
  BY <1>1, <1>2, <1>3, <1>4, CheckCreateInv
<1>6. Changed(s, t, {i} \cup {})
  <2>1. LastInv(s) /\ LastInv(r) /\ LastInv(t)
    BY <1>2, <1>5 DEF StateInv
  <2> QED BY <1>2, <1>5, <2>1, ChangedTwice DEF Grown
<1>7. {i} \cup {} = {i}
  OBVIOUS
<1> QED BY <1>5, <1>6, <1>7 DEF t

\* The loop over the list of games, and what it has done when it has passed the
\* first k of the ids that there were: c is where it starts, c.set what it destroys.
DestroyTurn(c, t, i) == IF i \in c.set THEN game_destroy(t, i) ELSE t
DestroyLoopInv(c, k, t) ==
  /\ StateInv(t, c.v, c.x) /\ Spare(t)
  /\ Changed(c.s, t, {i \in c.set : i > c.s.last.game - k})
DestroyFold == INSTANCE FoldInduction WITH Op <- DestroyTurn, Inv <- DestroyLoopInv

\* One turn of that loop.
LEMMA DestroyTurnKeeps ==
  ASSUME NEW c, LastInv(c.s), DOMAIN c.s.games \subseteq 1..c.s.last.game,
         c.set \subseteq DOMAIN c.s.games,
         NEW k \in 1..c.s.last.game, NEW t, DestroyLoopInv(c, k - 1, t)
  PROVE  DestroyLoopInv(c, k, DestroyTurn(c, t, c.s.last.game + 1 - k))
<1> DEFINE m == c.s.last.game
           i == m + 1 - k
           D == {j \in c.set : j > m - (k - 1)}
           E == {j \in c.set : j > m - k}
           u == DestroyTurn(c, t, i)
<1>0. m \in Nat /\ c.set \subseteq Int
  BY BoundTypes DEF LastInv
<1>1. StateInv(t, c.v, c.x) /\ Spare(t) /\ Changed(c.s, t, D)
  BY DEF DestroyLoopInv
<1>2. i \notin D /\ \A j \in c.set : j \in E <=> j \in D \/ j = i
  BY <1>0
<1>3. CASE i \in c.set
  <2>1. u = game_destroy(t, i)
    BY <1>3 DEF DestroyTurn
  <2>2. i \in DOMAIN t.games
    BY <1>1, <1>2, <1>3 DEF Changed
  <2>3. E = D \cup {i}
    BY <1>2, <1>3
  <2> HIDE DEF u, i, D, E
  <2>4. StateInv(u, c.v, c.x) /\ Spare(u) /\ Changed(t, u, {i})
    BY <1>1, <2>1, <2>2, GameDestroyInv
  <2>5. Changed(c.s, u, D \cup {i})
    <3>1. LastInv(t) /\ LastInv(u)
      BY <1>1, <2>4 DEF StateInv
    <3> QED BY <1>1, <2>4, <3>1, ChangedTwice
  <2> QED BY <2>3, <2>4, <2>5 DEF DestroyLoopInv, u, i, E
<1>4. CASE i \notin c.set
  <2>1. u = t
    BY <1>4 DEF DestroyTurn
  <2>2. E = D
    BY <1>2, <1>4
  <2> HIDE DEF u, D, E
  <2> QED BY <1>1, <2>1, <2>2 DEF DestroyLoopInv, u, E
<1> QED BY <1>3, <1>4

\* The loops that destroy some of the games.
LEMMA DestroyAllInv ==
  ASSUME NEW s, NEW v, NEW x, StateInv(s, v, x), Spare(s), NEW S \in SUBSET DOMAIN s.games
  PROVE  LET t == DestroyAll(s, S)
         IN  StateInv(t, v, x) /\ Spare(t) /\ Changed(s, t, S)
<1> DEFINE c == [s |-> s, v |-> v, x |-> x, set |-> S]
           m == s.last.game
           seq == [n \in 1..m |-> m + 1 - n]
           l == DestroyFold!Fold(c, s, seq)
           t == DestroyAll(s, S)
<1>0. c.s = s /\ c.v = v /\ c.x = x /\ c.set = S
  OBVIOUS
<1>1. LastInv(s) /\ m \in Nat /\ DOMAIN s.games \subseteq 1..m
  BY BoundTypes DEF StateInv, LastInv, GamesInv
<1>2. DOMAIN seq = 1..m /\ \A n \in 1..m : seq[n] = m + 1 - n
  OBVIOUS
<1>3. t = l
  BY DEF DestroyAll, DestroyTurn, FoldLeft, MapThenFoldSet, Max, DestroyFold!Fold, DestroyFold!Greatest
<1> HIDE DEF t, l, c, seq
<1>4. DestroyLoopInv(c, 0, s)
  <2>1. {i \in S : i > m - 0} = {}
    BY <1>1
  <2>2. Changed(s, s, {})
    BY <1>1, GrownSame DEF Grown
  <2> QED BY <1>0, <2>1, <2>2 DEF DestroyLoopInv
<1>5. \A a : \A n \in 1..m : DestroyLoopInv(c, n - 1, a) => DestroyLoopInv(c, n, DestroyTurn(c, a, seq[n]))
  <2> TAKE a
  <2> TAKE n \in 1..m
  <2> HAVE DestroyLoopInv(c, n - 1, a)
  <2>1. DestroyLoopInv(c, n, DestroyTurn(c, a, c.s.last.game + 1 - n))
    BY <1>0, <1>1, DestroyTurnKeeps
  <2> QED BY <1>0, <1>2, <2>1
<1>6. DestroyLoopInv(c, m, l)
  BY <1>1, <1>2, <1>4, <1>5, DestroyFold!FoldLeftInv DEF l
<1>7. {i \in S : i > m - m} = S
  BY <1>1
<1> QED BY <1>0, <1>3, <1>6, <1>7 DEF DestroyLoopInv, t

-----------------------------------------------------------------------------
\* Only the record of server g is changed, to d: its connection stays, or goes and
\* the games on it are about to be destroyed.
ServerIs(s, t, x, y, g, d) ==
  /\ g \in DOMAIN s.gs /\ d \in D2gs /\ d.gamenum = Cardinality(GamesOn(s, g))
  /\ DOMAIN t = Fields /\ t.gs = [s.gs EXCEPT ![g] = d]
  /\ t.online = s.online /\ t.gamequeue = s.gamequeue /\ t.gq = s.gq /\ t.sqs = s.sqs
  /\ t.games = s.games /\ t.conns = s.conns /\ t.last = s.last
  /\ d.conn # NoConn => d.conn \in DOMAIN s.conns /\ s.conns[d.conn].d2gs = g
  /\ \/ GamesOn(s, g) = {}
     \/ d.conn = s.gs[g].conn /\ x = y
     \/ d.conn = NoConn /\ y = g
  /\ x = y \/ GamesOn(s, x) = {}

\* Such a change keeps the invariant.
LEMMA ServerSet ==
  ASSUME NEW s, NEW v, NEW x, NEW y, NEW g, NEW d, NEW t,
         StateInv(s, v, x), ServerIs(s, t, x, y, g, d)
  PROVE  StateInv(t, v, y)
<1>a. /\ g \in DOMAIN s.gs /\ d \in D2gs /\ d.gamenum = Cardinality(GamesOn(s, g))
      /\ DOMAIN t = Fields /\ t.gs = [s.gs EXCEPT ![g] = d]
      /\ t.online = s.online /\ t.gamequeue = s.gamequeue /\ t.gq = s.gq /\ t.sqs = s.sqs
      /\ t.games = s.games /\ t.conns = s.conns /\ t.last = s.last
      /\ d.conn # NoConn => d.conn \in DOMAIN s.conns /\ s.conns[d.conn].d2gs = g
  BY Zenon DEF ServerIs
<1>b. \A i \in DOMAIN s.games : s.games[i].d2gs = g => i \in GamesOn(s, g)
  BY DEF GamesOn
<1>c. \A i \in DOMAIN s.games : s.games[i].d2gs = x => i \in GamesOn(s, x)
  BY DEF GamesOn
<1>d. /\ \A i \in DOMAIN s.games :
           s.games[i].d2gs = g => (d.conn = s.gs[g].conn /\ x = y) \/ (d.conn = NoConn /\ y = g)
      /\ x = y \/ \A i \in DOMAIN s.games : s.games[i].d2gs # x
  BY <1>b, <1>c DEF ServerIs
<1> USE <1>a, <1>d
<1>0. /\ DOMAIN s = Fields /\ QueueInv(s) /\ LastInv(s) /\ RequestsInv(s) /\ ServersInv(s)
      /\ GamesInv(s, x) /\ NumbersInv(s, v, x)
  BY DEF StateInv
<1>1. QueueInv(t) /\ LastInv(t) /\ RequestsInv(t)
  <2>1. QueueInv(t)
    BY <1>0, SMTT(40) DEF QueueInv
  <2>2. LastInv(t)
    BY <1>0 DEF LastInv
  <2>3. RequestsInv(t)
    BY <1>0 DEF RequestsInv
  <2> QED BY <2>1, <2>2, <2>3
<1>2. DOMAIN t.gs = DOMAIN s.gs /\ t.gs[g] = d /\ \A h \in DOMAIN s.gs \ {g} : t.gs[h] = s.gs[h]
  BY SMTT(40)
<1>3. ServersInv(t)
  <2>1. \A h \in DOMAIN t.gs :
          /\ t.gs[h] \in D2gs
          /\ t.gs[h].conn # NoConn =>
               t.gs[h].conn \in DOMAIN t.conns /\ t.conns[t.gs[h].conn].d2gs = h
    BY <1>0, <1>2 DEF ServersInv
  <2> QED BY <1>0, <1>2, <2>1 DEF ServersInv
<1>4. \A h : GamesOn(t, h) = GamesOn(s, h)
  BY DEF GamesOn
<1>5. ASSUME NEW i \in DOMAIN t.games
      PROVE  /\ i \in 1..t.last.game /\ t.games[i] \in Game /\ t.games[i].d2gs \in DOMAIN t.gs
             /\ Active(t, t.games[i].d2gs) \/ t.games[i].d2gs = y
  <2>1. /\ i \in 1..t.last.game /\ t.games[i] \in Game /\ t.games[i].d2gs \in DOMAIN t.gs
        /\ Active(s, s.games[i].d2gs) \/ s.games[i].d2gs = x
    BY <1>0, <1>2 DEF GamesInv
  <2>2. CASE t.games[i].d2gs = g
    BY <1>2, <2>1, <2>2, SMTT(40) DEF Active
  <2>3. CASE t.games[i].d2gs # g
    BY <1>2, <2>1, <2>3 DEF Active
  <2> QED BY <2>1, <2>2, <2>3
<1>6. GamesInv(t, y)
  <2>1. \A h \in DOMAIN t.gs : t.gs[h].gamenum = Cardinality(GamesOn(t, h))
    BY <1>0, <1>2, <1>4 DEF GamesInv
  <2> QED BY <1>5, <2>1 DEF GamesInv
<1>7. NumbersInv(t, v, y)
  <2>1. ASSUME NEW i \in DOMAIN s.games, NEW k \in DOMAIN s.conns
        PROVE  /\ Hosts(t, k, i) => Hosts(s, k, i)
               /\ Hosts(s, k, i) \/ s.games[i].d2gs = x => Hosts(t, k, i) \/ s.games[i].d2gs = y
    <3>1. k # NoConn /\ s.games[i].d2gs \in DOMAIN s.gs
      BY <1>0, BoundTypes DEF ServersInv, GamesInv
    <3>2. CASE s.games[i].d2gs = g
      BY <1>2, <3>1, <3>2, SMTT(40) DEF Hosts
    <3>3. CASE s.games[i].d2gs # g
      BY <1>2, <3>1, <3>3 DEF Hosts
    <3> QED BY <3>2, <3>3
  <2>2. \A k \in DOMAIN t.conns : \A m : Pending(s, x, k, m) => Pending(t, y, k, m)
    BY <2>1 DEF Pending
  <2>3. Aged(s, x, t, y)
    BY <2>1, <2>2 DEF Aged
  <2> QED BY <1>0, <2>3, AgedNumbers
<1> QED BY <1>0, <1>1, <1>3, <1>6, <1>7 DEF StateInv

\* Servers and connections as before, but for the one server g.
SameServers(s, t, g) ==
  /\ t.online = s.online /\ t.last.d2gs = s.last.d2gs /\ SameConns(s, t)
  /\ DOMAIN t.gs = DOMAIN s.gs
  /\ \A h \in DOMAIN s.gs : t.gs[h].ip = s.gs[h].ip
  /\ \A h \in DOMAIN s.gs \ {g} : t.gs[h].conn = s.gs[h].conn

\* d2gs_deactive: the server has neither a connection nor games any more.
LEMMA DeactiveInv ==
  ASSUME NEW s, NEW v, StateInv(s, v, 0), Spare(s), NEW g, NEW k
  PROVE  LET t == deactive(s, g, k)
         IN  /\ StateInv(t, v, 0) /\ Spare(t) /\ SameServers(s, t, g)
             /\ IF Active(s, g) /\ s.gs[g].conn = k
                THEN t.gs[g].conn = NoConn /\ GamesOn(t, g) = {}
                ELSE t = s
<1> DEFINE t == deactive(s, g, k)
<1>0. ServersInv(s) /\ GamesInv(s, 0) /\ LastInv(s) /\ DOMAIN s = Fields
  BY DEF StateInv
<1>1. CASE ~(Active(s, g) /\ s.gs[g].conn = k)
  <2>1. t = s
    BY <1>1 DEF deactive
  <2> QED BY <1>1, <2>1 DEF SameServers, SameConns
<1>2. CASE Active(s, g) /\ s.gs[g].conn = k
  <2> DEFINE d == [s.gs[g] EXCEPT !.conn = NoConn, !.maxgame = 0]
             r == [s EXCEPT !.gs = [s.gs EXCEPT ![g] = d]]
             S == GamesOn(s, g)
             q == DestroyAll(r, S)
             e == [q.gs[g] EXCEPT !.gamenum = 0]
  <2>1. g \in DOMAIN s.gs
    BY <1>2 DEF Active
  <2>2. [s EXCEPT !.gs[g].conn = NoConn, !.gs[g].maxgame = 0] = r
    BY <2>1
  <2>3. t = [q EXCEPT !.gs = [q.gs EXCEPT ![g] = e]]
    BY <1>2, <2>2 DEF deactive
  <2>4. /\ DOMAIN r = Fields /\ r.gs = [s.gs EXCEPT ![g] = d]
        /\ r.online = s.online /\ r.gamequeue = s.gamequeue /\ r.gq = s.gq /\ r.sqs = s.sqs
        /\ r.games = s.games /\ r.conns = s.conns /\ r.last = s.last
    BY <1>0 DEF Fields
  <2>5. s.gs[g] \in D2gs /\ s.gs[g].gamenum = Cardinality(S)
    BY <1>0, <2>1 DEF ServersInv, GamesInv
  <2>6. /\ d \in D2gs /\ d.conn = NoConn /\ d.ip = s.gs[g].ip /\ d.maxgame = 0
        /\ d.gamenum = s.gs[g].gamenum
    BY <2>5 DEF D2gs
  <2>7. g # 0 /\ \A i \in DOMAIN s.games : s.games[i].d2gs # 0
    BY <1>0, <2>1 DEF ServersInv, GamesInv, LastInv
  <2> HIDE DEF t, q, r, d
  <2>8. StateInv(r, v, g)
    <3>1. GamesOn(s, 0) = {}
      BY <2>7 DEF GamesOn
    <3>2. ServerIs(s, r, 0, g, g, d)
      BY <2>1, <2>4, <2>5, <2>6, <3>1 DEF ServerIs
    <3> QED BY <3>2, ServerSet
  <2>9. Spare(r)
    BY <2>4 DEF Spare
  <2>10. S \in SUBSET DOMAIN r.games
    BY <2>4 DEF GamesOn
  <2>11. StateInv(q, v, g) /\ Spare(q) /\ Changed(r, q, S)
    BY <2>8, <2>9, <2>10, DestroyAllInv DEF q
  <2>12. /\ DOMAIN r.gs = DOMAIN s.gs /\ r.gs[g] = d
         /\ \A h \in DOMAIN s.gs \ {g} : r.gs[h] = s.gs[h]
    BY <2>1, <2>4
  <2>13. ~Active(r, g)
    BY <2>6, <2>12 DEF Active
  <2>14. \A i \in DOMAIN q.games : q.games[i].d2gs # g
    <3> TAKE i \in DOMAIN q.games
    <3>1. CASE i \in DOMAIN r.games /\ i \notin S
      <4>1. q.games[i] = s.games[i] /\ i \in DOMAIN s.games
        BY <2>4, <2>11, <3>1 DEF Changed
      <4> QED BY <3>1, <4>1 DEF GamesOn
    <3>2. CASE i \notin DOMAIN r.games \/ i \in S
      <4>1. Active(r, q.games[i].d2gs)
        BY <2>11, <3>2 DEF Changed
      <4> QED BY <2>13, <4>1
    <3> QED BY <3>1, <3>2
  <2>15. GamesOn(q, g) = {} /\ Cardinality(GamesOn(q, g)) = 0
    <3>1. GamesOn(q, g) = {}
      BY <2>14, SMTT(40) DEF GamesOn
    <3> QED BY <3>1, FS_EmptySet
  <2>16. /\ g \in DOMAIN q.gs /\ q.gs[g].conn = NoConn /\ DOMAIN q = Fields
         /\ q.gs[g] \in D2gs
    BY <2>1, <2>6, <2>11, <2>12 DEF Changed, StateInv, ServersInv
  <2>17. /\ e \in D2gs /\ e.conn = NoConn /\ e.gamenum = 0 /\ e.ip = q.gs[g].ip
    BY <2>16 DEF D2gs
  <2>18. /\ DOMAIN t = Fields /\ t.gs = [q.gs EXCEPT ![g] = e]
         /\ t.online = q.online /\ t.gamequeue = q.gamequeue /\ t.gq = q.gq /\ t.sqs = q.sqs
         /\ t.games = q.games /\ t.conns = q.conns /\ t.last = q.last
    BY <2>3, <2>16 DEF Fields
  <2> HIDE DEF e, S
  <2>19. StateInv(t, v, 0)
    <3>1. ServerIs(q, t, g, 0, g, e)
      BY <2>15, <2>16, <2>17, <2>18 DEF ServerIs
    <3> QED BY <2>11, <3>1, ServerSet
  <2>20. Spare(t)
    BY <2>11, <2>18 DEF Spare
  <2>21. SameServers(s, t, g)
    <3>1. SameConns(s, t)
      BY <2>4, <2>11, <2>18 DEF Changed, SameConns
    <3>2. /\ t.online = s.online /\ t.last.d2gs = s.last.d2gs /\ DOMAIN t.gs = DOMAIN s.gs
      BY <2>4, <2>11, <2>12, <2>18 DEF Changed
    <3>3. ASSUME NEW h \in DOMAIN s.gs
          PROVE  t.gs[h].ip = s.gs[h].ip /\ (h # g => t.gs[h].conn = s.gs[h].conn)
      <4>1. q.gs[h].ip = r.gs[h].ip /\ q.gs[h].conn = r.gs[h].conn
        BY <2>11, <2>12, <3>3 DEF Changed
      <4>2. CASE h = g
        BY <2>6, <2>12, <2>16, <2>17, <2>18, <4>1, <4>2
      <4>3. CASE h # g
        BY <2>12, <2>18, <3>2, <4>1, <4>3
      <4> QED BY <4>2, <4>3
    <3> QED BY <3>1, <3>2, <3>3, SMTT(40) DEF SameServers
  <2>22. t.gs[g].conn = NoConn /\ GamesOn(t, g) = {}
    BY <2>15, <2>16, <2>17, <2>18 DEF GamesOn
  <2> QED BY <1>2, <2>19, <2>20, <2>21, <2>22 DEF t
<1> QED BY <1>1, <1>2

\* d2gs_active: the server's games are gone, and it has a connection.
LEMMA ActiveInv ==
  ASSUME NEW s, NEW v, StateInv(s, v, 0), Spare(s), NEW k \in DOMAIN s.conns,
         NEW g \in DOMAIN s.gs, s.conns[k].d2gs = g
  PROVE  LET t == active(s, g, k) IN StateInv(t, v, 0) /\ Spare(t)
<1> DEFINE q == deactive(s, g, s.gs[g].conn)
           d == [ip |-> q.gs[g].ip, conn |-> k, gamenum |-> 0, maxgame |-> 0]
           t == active(s, g, k)
<1>0. ServersInv(s) /\ GamesInv(s, 0) /\ LastInv(s)
  BY DEF StateInv
<1>1. /\ StateInv(q, v, 0) /\ Spare(q) /\ SameServers(s, q, g)
      /\ IF Active(s, g) /\ s.gs[g].conn = s.gs[g].conn
         THEN q.gs[g].conn = NoConn /\ GamesOn(q, g) = {}
         ELSE q = s
  BY DeactiveInv
<1>2. GamesOn(q, g) = {}
  <2>1. CASE Active(s, g)
    BY <1>1, <2>1
  <2>2. CASE ~Active(s, g)
    <3>1. q = s
      BY <1>1, <2>2
    <3>2. \A i \in DOMAIN s.games : s.games[i].d2gs # g
      BY <1>0, <2>2 DEF GamesInv, ServersInv, LastInv
    <3> QED BY <3>1, <3>2 DEF GamesOn
  <2> QED BY <2>1, <2>2
<1> HIDE DEF q
<1>3. /\ DOMAIN q = Fields /\ g \in DOMAIN q.gs /\ q.gs[g] \in D2gs
      /\ k \in DOMAIN q.conns /\ q.conns[k].d2gs = g /\ k \in Conns
  <2>1. g \in DOMAIN q.gs /\ k \in DOMAIN q.conns /\ q.conns[k].d2gs = g
    BY <1>1 DEF SameServers, SameConns
  <2> QED BY <1>1, <2>1 DEF StateInv, ServersInv
<1>4. t = [q EXCEPT !.gs = [q.gs EXCEPT ![g] = d]]
  BY <1>3 DEF active, q
<1>5. /\ DOMAIN t = Fields /\ t.gs = [q.gs EXCEPT ![g] = d]
      /\ t.online = q.online /\ t.gamequeue = q.gamequeue /\ t.gq = q.gq /\ t.sqs = q.sqs
      /\ t.games = q.games /\ t.conns = q.conns /\ t.last = q.last
  BY <1>3, <1>4 DEF Fields
<1>6. d \in D2gs /\ d.conn = k /\ d.gamenum = 0
  BY <1>3 DEF D2gs
<1> HIDE DEF t, d
<1>7. d.gamenum = Cardinality(GamesOn(q, g))
  BY <1>2, <1>6, FS_EmptySet
<1>8. ServerIs(q, t, 0, 0, g, d)
  BY <1>2, <1>3, <1>5, <1>6, <1>7 DEF ServerIs
<1>9. StateInv(t, v, 0)
  BY <1>1, <1>8, ServerSet
<1>10. Spare(t)
  BY <1>1, <1>5 DEF Spare
<1> QED BY <1>9, <1>10 DEF t

-----------------------------------------------------------------------------
\* Some connections are gone, or some packets of them, from the front.
FromFront(new, old) ==
  \E a \in Nat : \A j \in 1..Len(new) : j + a \in 1..Len(old) /\ new[j] = old[j + a]
Lessened(s, t) ==
  /\ DOMAIN t = Fields
  /\ t.online = s.online /\ t.gamequeue = s.gamequeue /\ t.gq = s.gq /\ t.sqs = s.sqs
  /\ t.games = s.games /\ t.gs = s.gs /\ t.last = s.last
  /\ DOMAIN t.conns \subseteq DOMAIN s.conns
  /\ \A k \in DOMAIN t.conns :
       /\ t.conns[k] \in Connections
       /\ t.conns[k].d2gs = s.conns[k].d2gs /\ t.conns[k].ip = s.conns[k].ip
       /\ t.conns[k].peer => s.conns[k].peer
       /\ FromFront(t.conns[k].in, s.conns[k].in) /\ FromFront(t.conns[k].out, s.conns[k].out)
  /\ \A g \in DOMAIN s.gs : s.gs[g].conn # NoConn => s.gs[g].conn \in DOMAIN t.conns

\* The invariant says nothing that this could break.
LEMMA LessenedInv ==
  ASSUME NEW s, NEW v, NEW x, StateInv(s, v, x), NEW t, Lessened(s, t)
  PROVE  StateInv(t, v, x) /\ (Spare(s) => Spare(t))
<1>0. /\ DOMAIN s = Fields /\ QueueInv(s) /\ LastInv(s) /\ RequestsInv(s) /\ ServersInv(s)
      /\ GamesInv(s, x) /\ NumbersInv(s, v, x)
  BY DEF StateInv
<1>1. /\ DOMAIN t = Fields
      /\ t.online = s.online /\ t.gamequeue = s.gamequeue /\ t.gq = s.gq /\ t.sqs = s.sqs
      /\ t.games = s.games /\ t.gs = s.gs /\ t.last = s.last
      /\ DOMAIN t.conns \subseteq DOMAIN s.conns
      /\ \A k \in DOMAIN t.conns :
           /\ t.conns[k] \in Connections
           /\ t.conns[k].d2gs = s.conns[k].d2gs /\ t.conns[k].ip = s.conns[k].ip
           /\ t.conns[k].peer => s.conns[k].peer
      /\ \A g \in DOMAIN s.gs : s.gs[g].conn # NoConn => s.gs[g].conn \in DOMAIN t.conns
  BY Zenon DEF Lessened
<1>2. QueueInv(t) /\ LastInv(t) /\ RequestsInv(t)
  <2>1. QueueInv(t)
    BY <1>0, <1>1 DEF QueueInv
  <2>2. LastInv(t)
    BY <1>0, <1>1 DEF LastInv
  <2>3. RequestsInv(t)
    BY <1>0, <1>1 DEF RequestsInv
  <2> QED BY <2>1, <2>2, <2>3
<1>3. ServersInv(t)
  <2>1. \A j, k \in DOMAIN t.conns :
          t.conns[j].peer /\ t.conns[k].peer /\ t.conns[j].ip = t.conns[k].ip => j = k
    <3> SUFFICES ASSUME NEW j \in DOMAIN t.conns, NEW k \in DOMAIN t.conns,
                        t.conns[j].peer, t.conns[k].peer, t.conns[j].ip = t.conns[k].ip
                 PROVE  j = k
      OBVIOUS
    <3>1. s.conns[j].peer /\ s.conns[k].peer /\ s.conns[j].ip = s.conns[k].ip
      BY <1>1
    <3> QED BY <1>0, <1>1, <3>1 DEF ServersInv
  <2>2. DOMAIN t.conns \subseteq Conns
    BY <1>0, <1>1 DEF ServersInv
  <2>3. \A g \in DOMAIN t.gs : t.gs[g].conn # NoConn =>
          t.gs[g].conn \in DOMAIN t.conns /\ t.conns[t.gs[g].conn].d2gs = g
    BY <1>0, <1>1 DEF ServersInv
  <2>4. DOMAIN t.gs \subseteq 1..t.last.d2gs /\ \A g \in DOMAIN t.gs : t.gs[g] \in D2gs
    BY <1>0, <1>1 DEF ServersInv
  <2> QED BY <1>1, <2>1, <2>2, <2>3, <2>4 DEF ServersInv
<1>4. GamesInv(t, x)
  BY <1>0, <1>1 DEF GamesInv, Active, GamesOn
<1>5. /\ \A k, i : Hosts(t, k, i) = Hosts(s, k, i)
      /\ \A k, n : Pending(t, x, k, n) = Pending(s, x, k, n)
  <2>1. \A k, i : Hosts(t, k, i) = Hosts(s, k, i)
    BY <1>1 DEF Hosts
  <2> QED BY <1>1, <2>1 DEF Pending
<1>6. \A k \in DOMAIN t.conns : \A n : Unused(s, v, k, n) => Unused(t, v, k, n)
  BY <1>1, <1>5 DEF Unused
<1>7. NumbersInv(t, v, x)
  <2>1. ASSUME NEW k \in DOMAIN t.conns, NEW j \in Coming(t, k)
        PROVE  /\ Pending(t, x, k, t.conns[k].in[j].seqno)
               /\ Unused(t, v, k, t.conns[k].in[j].gid)
               /\ \A h \in Coming(t, k) : t.conns[k].in[h].gid = t.conns[k].in[j].gid => h = j
    <3>1. PICK a \in Nat : \A m \in 1..Len(t.conns[k].in) :
            m + a \in 1..Len(s.conns[k].in) /\ t.conns[k].in[m] = s.conns[k].in[m + a]
      BY DEF Lessened, FromFront
    <3>2. \A m \in Coming(t, k) : /\ m \in Int /\ m + a \in Coming(s, k)
                                  /\ t.conns[k].in[m] = s.conns[k].in[m + a]
      <4> TAKE m \in Coming(t, k)
      <4>1. m \in 1..Len(t.conns[k].in) /\ t.conns[k].in[m].op = "created"
        BY DEF Coming
      <4>2. m + a \in 1..Len(s.conns[k].in) /\ t.conns[k].in[m] = s.conns[k].in[m + a]
        BY <3>1, <4>1
      <4> QED BY <4>1, <4>2 DEF Coming
    <3>3. k \in DOMAIN s.conns
      BY <1>1
    <3>4. /\ Pending(s, x, k, s.conns[k].in[j + a].seqno)
          /\ Unused(s, v, k, s.conns[k].in[j + a].gid)
          /\ \A h \in Coming(s, k) : s.conns[k].in[h].gid = s.conns[k].in[j + a].gid => h = j + a
      BY <1>0, <3>2, <3>3 DEF NumbersInv
    <3>5. ASSUME NEW h \in Coming(t, k), t.conns[k].in[h].gid = t.conns[k].in[j].gid
          PROVE  h = j
      <4>1. h + a = j + a /\ h \in Int /\ j \in Int
        BY <3>2, <3>4, <3>5
      <4> QED BY <4>1, SMTT(40)
    <3> QED BY <1>5, <1>6, <3>2, <3>4, <3>5
  <2>2. ASSUME NEW k \in DOMAIN t.conns, NEW j \in 1..Len(t.conns[k].out),
               t.conns[k].out[j].op = "create"
        PROVE  Pending(t, x, k, t.conns[k].out[j].seqno)
    <3>1. PICK a \in Nat : \A m \in 1..Len(t.conns[k].out) :
            m + a \in 1..Len(s.conns[k].out) /\ t.conns[k].out[m] = s.conns[k].out[m + a]
      BY DEF Lessened, FromFront
    <3>2. k \in DOMAIN s.conns
      BY <1>1, SMTT(40)
    <3> QED BY <1>0, <1>5, <2>2, <3>1, <3>2 DEF NumbersInv
  <2>3. ASSUME NEW k \in DOMAIN t.conns, NEW i \in DOMAIN t.games,
               t.games[i].created, Hosts(t, k, i), t.conns[k].peer
        PROVE  t.games[i].gid < v[t.conns[k].ip].next
    BY <1>0, <1>1, <1>5, <2>3 DEF NumbersInv
  <2>4. \A i, j \in DOMAIN t.games :
          t.games[i].created /\ t.games[j].created /\ t.games[i].d2gs = t.games[j].d2gs
          /\ t.games[i].gid = t.games[j].gid => i = j
    BY <1>0, <1>1 DEF NumbersInv
  <2> QED BY <2>1, <2>2, <2>3, <2>4, SMTT(40) DEF NumbersInv
<1>8. Spare(s) => Spare(t)
  BY <1>1 DEF Spare
<1> QED BY <1>1, <1>2, <1>3, <1>4, <1>7, <1>8 DEF StateInv

\* All packets, none, and all but the first.
LEMMA Fronts ==
  /\ \A q : FromFront(q, q) \/ Len(q) \notin Nat
  /\ \A q : FromFront(<<>>, q)
  /\ \A S : \A q \in Seq(S) : q # <<>> => FromFront(Tail(q), q)
<1>1. ASSUME NEW q, Len(q) \in Nat PROVE FromFront(q, q)
  <2>1. \A j \in 1..Len(q) : j + 0 \in 1..Len(q) /\ q[j] = q[j + 0]
    BY <1>1
  <2> QED BY <2>1 DEF FromFront
<1>2. ASSUME NEW q PROVE FromFront(<<>>, q)
  <2>1. Len(<<>>) = 0
    OBVIOUS
  <2>2. \A j \in 1..0 : FALSE
    OBVIOUS
  <2> QED BY <2>1, <2>2 DEF FromFront
<1>3. ASSUME NEW S, NEW q \in Seq(S), q # <<>> PROVE FromFront(Tail(q), q)
  <2>1. Len(Tail(q)) = Len(q) - 1 /\ Len(q) \in Nat /\ \A j \in 1..(Len(q) - 1) : Tail(q)[j] = q[j + 1]
    BY <1>3
  <2>2. \A j \in 1..Len(Tail(q)) : j + 1 \in 1..Len(q) /\ Tail(q)[j] = q[j + 1]
    BY <2>1
  <2> QED BY <2>2 DEF FromFront
<1> QED BY <1>1, <1>2, <1>3

\* d2cs_conn_destroy for a game server's connection.
LEMMA ServerConnDestroyedInv ==
  ASSUME NEW s, NEW v, StateInv(s, v, 0), Spare(s), NEW k \in DOMAIN s.conns
  PROVE  LET t == ServerConnDestroyed(s, k)
             g == s.conns[k].d2gs
         IN  /\ StateInv(t, v, 0) /\ Spare(t) /\ DOMAIN t.gs = DOMAIN s.gs
             /\ Active(s, g) /\ s.gs[g].conn = k => t.gs[g].conn = NoConn /\ GamesOn(t, g) = {}
<1> DEFINE t == ServerConnDestroyed(s, k)
           g == s.conns[k].d2gs
           q == deactive(s, g, k)
<1>0. ServersInv(s) /\ k \in Conns /\ k # NoConn
  BY BoundTypes DEF StateInv, ServersInv
<1>1. /\ StateInv(q, v, 0) /\ Spare(q) /\ SameServers(s, q, g)
      /\ IF Active(s, g) /\ s.gs[g].conn = k
         THEN q.gs[g].conn = NoConn /\ GamesOn(q, g) = {}
         ELSE q = s
  BY DeactiveInv, SMTT(40)
<1>2. DOMAIN q = Fields /\ ServersInv(q)
  BY <1>1 DEF StateInv
<1>3. t = [q EXCEPT !.conns = Without(@, k)]
  BY DEF ServerConnDestroyed
<1> HIDE DEF q, t
<1>4. /\ DOMAIN t = Fields /\ t.conns = Without(q.conns, k)
      /\ t.online = q.online /\ t.gamequeue = q.gamequeue /\ t.gq = q.gq /\ t.sqs = q.sqs
      /\ t.games = q.games /\ t.gs = q.gs /\ t.last = q.last
  BY <1>2, <1>3 DEF Fields
<1>5. /\ DOMAIN t.conns = DOMAIN q.conns \ {k}
      /\ \A j \in DOMAIN t.conns : t.conns[j] = q.conns[j]
  BY <1>4 DEF Without
<1>6. \A h \in DOMAIN q.gs : q.gs[h].conn # k
  <2> SUFFICES ASSUME NEW h \in DOMAIN q.gs, q.gs[h].conn = k PROVE FALSE
    OBVIOUS
  <2>1. h \in DOMAIN s.gs /\ (h # g => s.gs[h].conn = k)
    BY <1>1 DEF SameServers
  <2>2. CASE Active(s, g) /\ s.gs[g].conn = k
    <3>1. h # g
      BY <1>0, <1>1, <2>2
    <3>2. s.conns[k].d2gs = h
      BY <1>0, <2>1, <3>1 DEF ServersInv
    <3> QED BY <3>1, <3>2
  <2>3. CASE ~(Active(s, g) /\ s.gs[g].conn = k)
    <3>1. q = s
      BY <1>1, <2>3
    <3>2. s.conns[k].d2gs = h
      BY <1>0, <2>1, <3>1 DEF ServersInv
    <3> QED BY <1>0, <2>1, <2>3, <3>1, <3>2 DEF Active
  <2> QED BY <2>2, <2>3
<1>7. ASSUME NEW j \in DOMAIN t.conns
      PROVE  /\ t.conns[j] \in Connections
             /\ FromFront(t.conns[j].in, q.conns[j].in) /\ FromFront(t.conns[j].out, q.conns[j].out)
  <2>1. j \in DOMAIN q.conns /\ t.conns[j] = q.conns[j] /\ q.conns[j] \in Connections
    BY <1>2, <1>5 DEF ServersInv
  <2>2. q.conns[j].in \in Seq(FromGs) /\ q.conns[j].out \in Seq(ToGs)
    BY <2>1 DEF Connections
  <2>3. Len(q.conns[j].in) \in Nat /\ Len(q.conns[j].out) \in Nat
    BY <2>2
  <2> QED BY <2>1, <2>3, Fronts
<1>8. Lessened(q, t)
  <2>1. \A h \in DOMAIN q.gs : q.gs[h].conn # NoConn => q.gs[h].conn \in DOMAIN t.conns
    BY <1>2, <1>5, <1>6 DEF ServersInv
  <2> QED BY <1>4, <1>5, <1>7, <2>1 DEF Lessened
<1>9. StateInv(t, v, 0) /\ Spare(t)
  BY <1>1, <1>8, LessenedInv
<1>10. DOMAIN t.gs = DOMAIN s.gs
  BY <1>1, <1>4 DEF SameServers
<1>11. Active(s, g) /\ s.gs[g].conn = k => t.gs[g].conn = NoConn /\ GamesOn(t, g) = {}
  BY <1>1, <1>4 DEF GamesOn
<1> QED BY <1>9, <1>10, <1>11 DEF t

\* Who leaves the queue leaves its room.
LEMMA DequeuedSpare ==
  ASSUME NEW s, NEW v, NEW x, StateInv(s, v, x), Spare(s), NEW u
  PROVE  Spare(Dequeued(s, u))
<1> DEFINE t == Dequeued(s, u)
<1>1. /\ u \notin s.gamequeue => t.gq = s.gq
      /\ u \in s.gamequeue => Len(t.gq) = Len(s.gq) - 1
      /\ t.last = s.last
  BY DequeuedInv
<1>2. s.last.game \in Int /\ s.last.seqno \in Int /\ Len(s.gq) \in Nat
  BY DEF StateInv, LastInv, QueueInv
<1> HIDE DEF t
<1>3. CASE u \notin s.gamequeue
  BY <1>1, <1>3 DEF Spare, t
<1>4. CASE u \in s.gamequeue
  <2>1. /\ t.last.game \in Int /\ t.last.seqno \in Int
        /\ t.last.game <= s.last.game + 1 /\ t.last.seqno <= s.last.seqno + 1
    BY <1>1, <1>2
  <2>2. Spare(t)
    BY <1>1, <1>2, <1>4, <2>1, SpareAfterTurn
  <2> QED BY <2>2 DEF t
<1> QED BY <1>3, <1>4

\* d2cs_conn_destroy for a client.
LEMMA ClientDestroyedInv ==
  ASSUME NEW s, NEW v, StateInv(s, v, 0), Spare(s), NEW u
  PROVE  LET t == ClientDestroyed(s, u) IN StateInv(t, v, 0) /\ Spare(t)
<1> DEFINE q == Dequeued(s, u)
           t == ClientDestroyed(s, u)
<1>1. StateInv(q, v, 0) /\ u \notin q.gamequeue /\ Spare(q)
  BY DequeuedInv, DequeuedSpare
<1>2. t = [q EXCEPT !.online = @ \ {u}]
  BY DEF ClientDestroyed
<1> HIDE DEF q, t
<1>3. DOMAIN q = Fields /\ QueueInv(q)
  BY <1>1 DEF StateInv
<1>4. /\ DOMAIN t = Fields /\ t.online = q.online \ {u} /\ t.gamequeue = q.gamequeue
      /\ t.gq = q.gq /\ t.sqs = q.sqs /\ t.games = q.games /\ t.gs = q.gs
      /\ t.conns = q.conns /\ t.last = q.last
  BY <1>2, <1>3 DEF Fields
<1>5. QueueInv(t)
  BY <1>1, <1>3, <1>4, SMTT(40) DEF QueueInv
<1>6. StateInv(t, v, 0)
  BY <1>1, <1>4, <1>5, QueueChanged
<1>7. Spare(t)
  BY <1>1, <1>4 DEF Spare
<1> QED BY <1>6, <1>7 DEF t

\* Some requests are forgotten: answered, or too old.
LEMMA RequestsForgotten ==
  ASSUME NEW s, NEW v, StateInv(s, v, 0), Spare(s), NEW N \in SUBSET DOMAIN s.sqs
  PROVE  LET t == [s EXCEPT !.sqs = [n \in N |-> s.sqs[n]]]
         IN  StateInv(t, v, 0) /\ Spare(t)
<1> DEFINE t == [s EXCEPT !.sqs = [n \in N |-> s.sqs[n]]]
<1>0. /\ DOMAIN s = Fields /\ QueueInv(s) /\ LastInv(s) /\ RequestsInv(s) /\ ServersInv(s)
      /\ GamesInv(s, 0) /\ NumbersInv(s, v, 0)
  BY DEF StateInv
<1>1. /\ DOMAIN t = Fields /\ t.sqs = [n \in N |-> s.sqs[n]]
      /\ t.online = s.online /\ t.gamequeue = s.gamequeue /\ t.gq = s.gq
      /\ t.games = s.games /\ t.gs = s.gs /\ t.conns = s.conns /\ t.last = s.last
  BY <1>0 DEF Fields
<1> HIDE DEF t
<1>2. QueueInv(t)
  BY <1>0, <1>1 DEF QueueInv
<1>3. LastInv(t)
  BY <1>0, <1>1 DEF LastInv
<1>4. RequestsInv(t)
  BY <1>0, <1>1 DEF RequestsInv
<1>5. ServersInv(t)
  BY <1>0, <1>1 DEF ServersInv
<1>6. GamesInv(t, 0)
  BY <1>0, <1>1 DEF GamesInv, Active, GamesOn
<1>7. NumbersInv(t, v, 0)
  <2>1. \A k, i : Hosts(t, k, i) = Hosts(s, k, i)
    BY <1>1 DEF Hosts
  <2>2. \A k, n : Pending(s, 0, k, n) => Pending(t, 0, k, n)
    BY <1>1, <2>1 DEF Pending
  <2>3. Aged(s, 0, t, 0)
    BY <1>1, <2>1, <2>2 DEF Aged
  <2> QED BY <1>0, <2>3, AgedNumbers
<1>8. Spare(t)
  BY <1>1 DEF Spare
<1> QED BY <1>1, <1>2, <1>3, <1>4, <1>5, <1>6, <1>7, <1>8 DEF StateInv, t

\* sq_destroy.
LEMMA SqDestroyedInv ==
  ASSUME NEW s, NEW v, StateInv(s, v, 0), Spare(s), NEW n
  PROVE  LET t == SqDestroyed(s, n) IN StateInv(t, v, 0) /\ Spare(t)
<1>1. SqDestroyed(s, n) = [s EXCEPT !.sqs = [m \in DOMAIN s.sqs \ {n} |-> s.sqs[m]]]
  BY DEF SqDestroyed, Without
<1>2. DOMAIN s.sqs \ {n} \in SUBSET DOMAIN s.sqs
  OBVIOUS
<1> QED BY <1>1, <1>2, RequestsForgotten

-----------------------------------------------------------------------------
\* A server says how many games it takes.
LEMMA InfoHandled ==
  ASSUME NEW s, NEW v, StateInv(s, v, 0), Spare(s), NEW k \in DOMAIN s.conns,
         NEW p, p.maxgame \in MaxGames
  PROVE  LET t == on_setgsinfo(s, k, p) IN StateInv(t, v, 0) /\ Spare(t)
<1> DEFINE g == s.conns[k].d2gs
           d == [s.gs[g] EXCEPT !.maxgame = p.maxgame]
           r == [s EXCEPT !.gs = [s.gs EXCEPT ![g] = d]]
           n == p.maxgame - s.gs[g].gamenum
           t == on_setgsinfo(s, k, p)
<1>0. ServersInv(s) /\ GamesInv(s, 0) /\ DOMAIN s = Fields /\ p.maxgame \in Nat
  BY BoundTypes DEF StateInv
<1>1. CASE g \notin DOMAIN s.gs
  BY <1>1 DEF on_setgsinfo
<1>2. CASE g \in DOMAIN s.gs
  <2>1. t = check_creategame(r, n)
    BY <1>0, <1>2 DEF on_setgsinfo
  <2>2. s.gs[g] \in D2gs /\ s.gs[g].gamenum = Cardinality(GamesOn(s, g))
    BY <1>0, <1>2, SMTT(40) DEF ServersInv, GamesInv
  <2>3. d \in D2gs /\ d.conn = s.gs[g].conn /\ d.gamenum = s.gs[g].gamenum /\ n \in Int
    BY <1>0, <2>2 DEF D2gs
  <2>4. /\ DOMAIN r = Fields /\ r.gs = [s.gs EXCEPT ![g] = d]
        /\ r.online = s.online /\ r.gamequeue = s.gamequeue /\ r.gq = s.gq /\ r.sqs = s.sqs
        /\ r.games = s.games /\ r.conns = s.conns /\ r.last = s.last
    BY <1>0, SMTT(40) DEF Fields
  <2> HIDE DEF t, r, d, n
  <2>5. ServerIs(s, r, 0, 0, g, d)
    <3>1. d.conn # NoConn => d.conn \in DOMAIN s.conns /\ s.conns[d.conn].d2gs = g
      BY <1>0, <1>2, <2>3 DEF ServersInv
    <3> QED BY <1>2, <2>2, <2>3, <2>4, <3>1, SMTT(40) DEF ServerIs
  <2> HIDE DEF g
  <2>9. StateInv(r, v, 0)
    BY <2>5, ServerSet
  <2>10. Spare(r)
    BY <2>4 DEF Spare
  <2>11. StateInv(t, v, 0) /\ Spare(t)
    BY <2>1, <2>3, <2>9, <2>10, CheckCreateInv
  <2> QED BY <2>11 DEF t
<1> QED BY <1>1, <1>2

\* A server's answer to the challenge is right.
LEMMA AuthHandled ==
  ASSUME NEW s, NEW v, StateInv(s, v, 0), Spare(s), NEW k \in DOMAIN s.conns
  PROVE  LET t == on_authreply(s, k) IN StateInv(t, v, 0) /\ Spare(t)
<1> DEFINE g == s.conns[k].d2gs
           c == [s.conns[k] EXCEPT !.authed = TRUE]
           r == [s EXCEPT !.conns = [s.conns EXCEPT ![k] = c]]
           t == on_authreply(s, k)
<1>0. ServersInv(s) /\ DOMAIN s = Fields
  BY DEF StateInv
<1>1. CASE g \notin DOMAIN s.gs
  BY <1>1 DEF on_authreply
<1>2. CASE g \in DOMAIN s.gs
  <2>1. t = active(r, g, k)
    BY <1>0, <1>2 DEF on_authreply
  <2>2. s.conns[k] \in Connections
    BY <1>0 DEF ServersInv
  <2>3. /\ c \in Connections /\ c.d2gs = g /\ c.ip = s.conns[k].ip /\ c.peer = s.conns[k].peer
        /\ c.in = s.conns[k].in /\ c.out = s.conns[k].out
    BY <2>2 DEF Connections
  <2>4. /\ DOMAIN r = Fields /\ r.conns = [s.conns EXCEPT ![k] = c]
        /\ r.online = s.online /\ r.gamequeue = s.gamequeue /\ r.gq = s.gq /\ r.sqs = s.sqs
        /\ r.games = s.games /\ r.gs = s.gs /\ r.last = s.last
    BY <1>0 DEF Fields
  <2> HIDE DEF t, r, c
  <2>5. ASSUME NEW j \in DOMAIN s.conns
        PROVE  /\ r.conns[j] \in Connections
               /\ r.conns[j].d2gs = s.conns[j].d2gs /\ r.conns[j].ip = s.conns[j].ip
               /\ r.conns[j].peer = s.conns[j].peer
               /\ r.conns[j].in = s.conns[j].in /\ r.conns[j].out = s.conns[j].out
    <3>1. CASE j = k
      BY <2>3, <2>4, <3>1
    <3>2. CASE j # k
      BY <1>0, <2>4, <3>2 DEF ServersInv
    <3> QED BY <3>1, <3>2
  <2>6. ASSUME NEW j \in DOMAIN s.conns
        PROVE  FromFront(r.conns[j].in, s.conns[j].in) /\ FromFront(r.conns[j].out, s.conns[j].out)
    <3>1. s.conns[j] \in Connections
      BY <1>0 DEF ServersInv
    <3>2. s.conns[j].in \in Seq(FromGs) /\ s.conns[j].out \in Seq(ToGs)
      BY <3>1 DEF Connections
    <3>3. Len(s.conns[j].in) \in Nat /\ Len(s.conns[j].out) \in Nat
      BY <3>2
    <3> QED BY <2>5, <3>3, Fronts
  <2>7. DOMAIN r.conns = DOMAIN s.conns
    BY <2>4, SMTT(40)
  <2>8. Lessened(s, r)
    BY <1>0, <2>4, <2>5, <2>6, <2>7 DEF Lessened, ServersInv
  <2>9. StateInv(r, v, 0) /\ Spare(r)
    BY <2>8, LessenedInv
  <2>10. k \in DOMAIN r.conns /\ g \in DOMAIN r.gs /\ r.conns[k].d2gs = g
    BY <1>2, <2>4, <2>5, <2>7
  <2> HIDE DEF g
  <2>11. StateInv(t, v, 0) /\ Spare(t)
    BY <2>1, <2>9, <2>10, ActiveInv
  <2> QED BY <2>11 DEF t
<1> QED BY <1>1, <1>2

\* The end of a game, as a server tells it.
LEMMA CloseHandled ==
  ASSUME NEW s, NEW v, StateInv(s, v, 0), Spare(s), NEW k, NEW p
  PROVE  LET t == on_closegame(s, k, p) IN StateInv(t, v, 0) /\ Spare(t)
<1> DEFINE S == FindByGid(s, s.conns[k].d2gs, p.gid)
<1>1. S \in SUBSET DOMAIN s.games
  BY DEF FindByGid, GamesOn
<1>2. on_closegame(s, k, p) = DestroyAll(s, S)
  BY DEF on_closegame
<1> HIDE DEF S
<1> QED BY <1>1, <1>2, DestroyAllInv

\* Who is in a game, as a server tells it.
LEMMA UpdateHandled ==
  ASSUME NEW s, NEW v, StateInv(s, v, 0), Spare(s), NEW k, NEW p, p.char \in Chars
  PROVE  LET t == on_updategameinfo(s, k, p) IN StateInv(t, v, 0) /\ Spare(t)
<1> DEFINE t == on_updategameinfo(s, k, p)
           S == FindByGid(s, s.conns[k].d2gs, p.gid)
           chars(i) == IF p.op = "enter" THEN s.games[i].chars \cup {p.char}
                       ELSE s.games[i].chars \ {p.char}
           G == [i \in DOMAIN s.games |->
                   IF i \in S THEN [s.games[i] EXCEPT !.chars = chars(i)] ELSE s.games[i]]
<1>0. /\ DOMAIN s = Fields /\ QueueInv(s) /\ LastInv(s) /\ RequestsInv(s) /\ ServersInv(s)
      /\ GamesInv(s, 0) /\ NumbersInv(s, v, 0)
  BY DEF StateInv
<1>a. t = [s EXCEPT !.games = G]
  BY DEF on_updategameinfo
<1> HIDE DEF t, G, S
<1>1. /\ DOMAIN t = Fields /\ t.games = G
      /\ t.online = s.online /\ t.gamequeue = s.gamequeue /\ t.gq = s.gq /\ t.sqs = s.sqs
      /\ t.gs = s.gs /\ t.conns = s.conns /\ t.last = s.last
  BY <1>0, <1>a DEF Fields
<1> USE DEF G
<1>2. ASSUME NEW i \in DOMAIN s.games
      PROVE  /\ t.games[i] \in Game
             /\ t.games[i].d2gs = s.games[i].d2gs /\ t.games[i].created = s.games[i].created
             /\ t.games[i].gid = s.games[i].gid
  <2>1. s.games[i] \in Game
    BY <1>0 DEF GamesInv
  <2>2. CASE i \in S
    <3> DEFINE C == chars(i)
    <3>1. t.games[i] = [s.games[i] EXCEPT !.chars = C]
      BY <1>1, <2>2
    <3>2. C \in SUBSET Chars
      BY <2>1 DEF Game
    <3> HIDE DEF C
    <3> QED BY <2>1, <3>1, <3>2 DEF Game
  <2>3. CASE i \notin S
    BY <1>1, <2>1, <2>3
  <2> QED BY <2>2, <2>3
<1>3. DOMAIN t.games = DOMAIN s.games
  BY <1>1
<1> HIDE DEF G
<1>4. QueueInv(t) /\ LastInv(t) /\ RequestsInv(t)
  <2>1. QueueInv(t)
    BY <1>0, <1>1, SMTT(40) DEF QueueInv
  <2>2. LastInv(t)
    BY <1>0, <1>1 DEF LastInv
  <2>3. RequestsInv(t)
    BY <1>0, <1>1 DEF RequestsInv
  <2> QED BY <2>1, <2>2, <2>3
<1>5. ServersInv(t)
  BY <1>0, <1>1 DEF ServersInv
<1>6. \A h : GamesOn(t, h) = GamesOn(s, h)
  BY <1>2, <1>3 DEF GamesOn
<1>7. GamesInv(t, 0)
  <2>1. \A h \in DOMAIN t.gs : t.gs[h].gamenum = Cardinality(GamesOn(t, h))
    BY <1>0, <1>1, <1>6 DEF GamesInv
  <2>2. \A i \in DOMAIN t.games :
          t.games[i].d2gs \in DOMAIN t.gs /\ (Active(t, t.games[i].d2gs) \/ t.games[i].d2gs = 0)
    BY <1>0, <1>1, <1>2, <1>3 DEF GamesInv, Active
  <2>3. DOMAIN t.games \subseteq 1..t.last.game
    BY <1>0, <1>1, <1>3 DEF GamesInv
  <2> QED BY <1>2, <1>3, <2>1, <2>2, <2>3 DEF GamesInv
<1>8. NumbersInv(t, v, 0)
  <2>1. \A h \in DOMAIN s.conns, i \in DOMAIN s.games : Hosts(t, h, i) = Hosts(s, h, i)
    BY <1>1, <1>2 DEF Hosts
  <2>2. \A h \in DOMAIN s.conns : \A n : Pending(s, 0, h, n) => Pending(t, 0, h, n)
    BY <1>1, <1>2, <1>3, <2>1 DEF Pending
  <2>3. Aged(s, 0, t, 0)
    BY <1>1, <1>2, <1>3, <2>1, <2>2 DEF Aged
  <2> QED BY <1>0, <2>3, AgedNumbers
<1>9. Spare(t)
  BY <1>1 DEF Spare
<1> QED BY <1>1, <1>4, <1>5, <1>7, <1>8, <1>9 DEF StateInv, t

\* What is so of a packet that comes on k: if it answers that a game was made, no
\* other game that k is about has its number, nor will one.
Fresh(s, v, k, p) ==
  p.op = "created" => /\ Pending(s, 0, k, p.seqno) /\ Unused(s, v, k, p.gid)
                      /\ \A h \in Coming(s, k) : s.conns[k].in[h].gid # p.gid

\* A game with a number from its server.
GameNumbered(s, i, gid) == [s EXCEPT !.games[i].gid = gid, !.games[i].created = TRUE]

\* A game that gets a number which is unused on its server keeps the invariant.
LEMMA GameNumberedInv ==
  ASSUME NEW s, NEW v, StateInv(s, v, 0), NEW k \in DOMAIN s.conns, NEW i \in DOMAIN s.games,
         Hosts(s, k, i), NEW gid \in 1..MaxGid, Unused(s, v, k, gid),
         \A h \in Coming(s, k) : s.conns[k].in[h].gid # gid
  PROVE  LET t == GameNumbered(s, i, gid)
         IN  StateInv(t, v, 0) /\ t.gq = s.gq /\ t.last = s.last
<1> DEFINE e == [s.games[i] EXCEPT !.gid = gid, !.created = TRUE]
           t == GameNumbered(s, i, gid)
<1>0. /\ DOMAIN s = Fields /\ QueueInv(s) /\ LastInv(s) /\ RequestsInv(s) /\ ServersInv(s)
      /\ GamesInv(s, 0) /\ NumbersInv(s, v, 0)
  BY DEF StateInv
<1>1. /\ DOMAIN t = Fields /\ t.games = [s.games EXCEPT ![i] = e]
      /\ t.online = s.online /\ t.gamequeue = s.gamequeue /\ t.gq = s.gq /\ t.sqs = s.sqs
      /\ t.gs = s.gs /\ t.conns = s.conns /\ t.last = s.last
  BY <1>0 DEF GameNumbered, Fields
<1>2. s.games[i] \in Game /\ gid \in 0..MaxGid
  BY <1>0 DEF GamesInv
<1>3. e \in Game /\ e.gid = gid /\ e.created = TRUE /\ e.d2gs = s.games[i].d2gs
  BY <1>2 DEF Game
<1> HIDE DEF t, e
<1>4. /\ DOMAIN t.games = DOMAIN s.games /\ t.games[i] = e
      /\ \A j \in DOMAIN s.games : /\ j # i => t.games[j] = s.games[j]
                                   /\ t.games[j].d2gs = s.games[j].d2gs
                                   /\ t.games[j] \in Game
  <2>1. DOMAIN t.games = DOMAIN s.games /\ t.games[i] = e
    BY <1>1
  <2>2. ASSUME NEW j \in DOMAIN s.games
        PROVE  /\ j # i => t.games[j] = s.games[j]
               /\ t.games[j].d2gs = s.games[j].d2gs /\ t.games[j] \in Game
    <3>1. CASE j = i
      BY <1>3, <2>1, <3>1
    <3>2. CASE j # i
      <4>1. t.games[j] = s.games[j]
        BY <1>1, <3>2
      <4> QED BY <1>0, <4>1 DEF GamesInv
    <3> QED BY <3>1, <3>2
  <2> QED BY <2>1, <2>2
<1>5. QueueInv(t) /\ LastInv(t) /\ RequestsInv(t)
  <2>1. QueueInv(t)
    BY <1>0, <1>1 DEF QueueInv
  <2>2. LastInv(t)
    BY <1>0, <1>1 DEF LastInv
  <2>3. RequestsInv(t)
    BY <1>0, <1>1 DEF RequestsInv
  <2> QED BY <2>1, <2>2, <2>3
<1>6. ServersInv(t)
  BY <1>0, <1>1 DEF ServersInv
<1>7. GamesInv(t, 0)
  <2>1. \A h : GamesOn(t, h) = GamesOn(s, h)
    BY <1>4 DEF GamesOn
  <2>2. \A h \in DOMAIN t.gs : t.gs[h].gamenum = Cardinality(GamesOn(t, h))
    BY <1>0, <1>1, <2>1, SMTT(40) DEF GamesInv
  <2>3. \A j \in DOMAIN t.games :
          t.games[j].d2gs \in DOMAIN t.gs /\ (Active(t, t.games[j].d2gs) \/ t.games[j].d2gs = 0)
    BY <1>0, <1>1, <1>4 DEF GamesInv, Active
  <2>4. DOMAIN t.games \subseteq 1..t.last.game
    BY <1>0, <1>1, <1>4, SMTT(40) DEF GamesInv
  <2> QED BY <1>4, <2>2, <2>3, <2>4 DEF GamesInv
<1>8. NumbersInv(t, v, 0)
  <2>1. \A h \in DOMAIN s.conns, j \in DOMAIN s.games : Hosts(t, h, j) = Hosts(s, h, j)
    BY <1>1, <1>4 DEF Hosts
  <2>2. \A h \in DOMAIN s.conns : \A n : Pending(s, 0, h, n) => Pending(t, 0, h, n)
    BY <1>1, <1>4, <2>1 DEF Pending
  <2>3. \A h : Coming(t, h) = Coming(s, h)
    BY <1>1 DEF Coming
  <2>4. ASSUME NEW h \in DOMAIN t.conns, NEW j \in Coming(t, h)
        PROVE  Unused(t, v, h, t.conns[h].in[j].gid)
    <3> DEFINE z == t.conns[h].in[j].gid
    <3>1. /\ h \in DOMAIN s.conns /\ j \in Coming(s, h) /\ z = s.conns[h].in[j].gid
          /\ t.conns = s.conns
      BY <1>1, <2>3
    <3>2. Unused(s, v, h, z)
      BY <1>0, <3>1 DEF NumbersInv
    <3>3. ASSUME NEW l \in DOMAIN t.games, t.games[l].created, Hosts(t, h, l)
          PROVE  t.games[l].gid # z
      <4>1. CASE l = i
        <5>1. h = k
          BY <1>4, <2>1, <3>1, <3>3, <4>1 DEF Hosts
        <5> QED BY <1>3, <1>4, <3>1, <4>1, <5>1
      <4>2. CASE l # i
        BY <1>4, <2>1, <3>1, <3>2, <3>3, <4>2 DEF Unused
      <4> QED BY <4>1, <4>2
    <3> HIDE DEF z
    <3>4. Unused(t, v, h, z)
      BY <3>1, <3>2, <3>3 DEF Unused
    <3> QED BY <3>4 DEF z
  <2>5. ASSUME NEW h \in DOMAIN t.conns, NEW j \in DOMAIN t.games,
               t.games[j].created, Hosts(t, h, j), t.conns[h].peer
        PROVE  t.games[j].gid < v[t.conns[h].ip].next
    <3>1. h \in DOMAIN s.conns /\ j \in DOMAIN s.games /\ Hosts(s, h, j) /\ s.conns[h].peer
      BY <1>1, <1>4, <2>1, <2>5
    <3>2. CASE j = i
      <4>1. h = k
        BY <3>1, <3>2, SMTT(40) DEF Hosts
      <4> QED BY <1>1, <1>3, <1>4, <3>1, <3>2, <4>1 DEF Unused
    <3>3. CASE j # i
      BY <1>0, <1>1, <1>4, <2>5, <3>1, <3>3 DEF NumbersInv
    <3> QED BY <3>2, <3>3
  <2>6. ASSUME NEW j \in DOMAIN s.games, j # i, s.games[j].created,
               s.games[j].d2gs = s.games[i].d2gs
        PROVE  s.games[j].gid # gid
    <3>1. Hosts(s, k, j)
      BY <2>6 DEF Hosts
    <3> QED BY <2>6, <3>1 DEF Unused
  <2>7. ASSUME NEW j \in DOMAIN t.games, NEW l \in DOMAIN t.games,
               t.games[j].created, t.games[l].created, t.games[j].d2gs = t.games[l].d2gs,
               t.games[j].gid = t.games[l].gid
        PROVE  j = l
    <3>1. CASE j = i
      BY <1>3, <1>4, <2>6, <2>7, <3>1
    <3>2. CASE l = i
      BY <1>3, <1>4, <2>6, <2>7, <3>2
    <3>3. CASE j # i /\ l # i
      BY <1>0, <1>4, <2>7, <3>3, SMTT(40) DEF NumbersInv
    <3> QED BY <3>1, <3>2, <3>3
  <2>8. ASSUME NEW h \in DOMAIN t.conns, NEW j \in Coming(t, h)
        PROVE  /\ Pending(t, 0, h, t.conns[h].in[j].seqno)
               /\ \A l \in Coming(t, h) : t.conns[h].in[l].gid = t.conns[h].in[j].gid => l = j
    BY <1>0, <1>1, <2>2, <2>3, SMTT(40) DEF NumbersInv
  <2>9. ASSUME NEW h \in DOMAIN t.conns, NEW j \in 1..Len(t.conns[h].out),
               t.conns[h].out[j].op = "create"
        PROVE  Pending(t, 0, h, t.conns[h].out[j].seqno)
    BY <1>0, <1>1, <2>2, <2>9 DEF NumbersInv
  <2> QED BY <2>4, <2>5, <2>7, <2>8, <2>9 DEF NumbersInv
<1> QED BY <1>1, <1>5, <1>6, <1>7, <1>8 DEF StateInv, t

\* The answer to a creation.
LEMMA CreateReplyHandled ==
  ASSUME NEW s, NEW v, StateInv(s, v, 0), Spare(s), NEW k \in DOMAIN s.conns,
         NEW p \in FromGs, p.op \in {"created", "failed"}, Fresh(s, v, k, p)
  PROVE  LET t == on_creategamereply(s, p) IN StateInv(t, v, 0) /\ Spare(t)
<1> DEFINE n == p.seqno
           i == s.sqs[p.seqno].gameid
           t == on_creategamereply(s, p)
<1>1. CASE ~Answers(s, p)
  <2>1. t = SqDestroyed(s, n)
    BY <1>1 DEF on_creategamereply
  <2> HIDE DEF t, n
  <2>2. StateInv(t, v, 0) /\ Spare(t)
    BY <2>1, SqDestroyedInv
  <2> QED BY <2>2 DEF t
<1>2. CASE Answers(s, p) /\ p.op = "failed"
  <2> DEFINE r == game_destroy(s, i)
  <2>1. t = SqDestroyed(r, n)
    BY <1>2 DEF on_creategamereply
  <2>2. i \in DOMAIN s.games
    BY <1>2 DEF Answers
  <2> HIDE DEF t, n, i
  <2>3. StateInv(r, v, 0) /\ Spare(r)
    BY <2>2, GameDestroyInv
  <2> HIDE DEF r
  <2>4. StateInv(t, v, 0) /\ Spare(t)
    BY <2>1, <2>3, SqDestroyedInv
  <2> QED BY <2>4 DEF t
<1>3. CASE Answers(s, p) /\ p.op = "created"
  <2> DEFINE r == GameNumbered(s, i, p.gid)
  <2>1. t = SqDestroyed(r, n)
    BY <1>3 DEF on_creategamereply, GameNumbered
  <2>2. n \in DOMAIN s.sqs /\ i \in DOMAIN s.games
    BY <1>3 DEF Answers
  <2>3. p.gid \in 1..MaxGid
    BY <1>3, SMTT(40) DEF FromGs
  <2>4. /\ Unused(s, v, k, p.gid) /\ \A h \in Coming(s, k) : s.conns[k].in[h].gid # p.gid
        /\ Hosts(s, k, i) \/ s.games[i].d2gs = 0
    BY <1>3, <2>2, SMTT(40) DEF Fresh, Pending
  <2>5. s.games[i].d2gs # 0
    BY <2>2 DEF StateInv, GamesInv, ServersInv, LastInv
  <2> HIDE DEF t, n, i
  <2>6. StateInv(r, v, 0) /\ r.gq = s.gq /\ r.last = s.last
    BY <2>2, <2>3, <2>4, <2>5, GameNumberedInv
  <2>7. Spare(r)
    BY <2>6 DEF Spare
  <2> HIDE DEF r
  <2>8. StateInv(t, v, 0) /\ Spare(t)
    BY <2>1, <2>6, <2>7, SqDestroyedInv
  <2> QED BY <2>8 DEF t
<1> QED BY <1>1, <1>2, <1>3

\* handle_d2gs_packet.
LEMMA HandledInv ==
  ASSUME NEW s, NEW v, StateInv(s, v, 0), Spare(s), NEW k \in DOMAIN s.conns,
         NEW p \in FromGs, Fresh(s, v, k, p)
  PROVE  LET t == Handled(s, k, p) IN StateInv(t, v, 0) /\ Spare(t)
<1> DEFINE t == Handled(s, k, p)
<1>1. /\ p.op \in {"auth", "info", "created", "failed", "joined", "enter", "leave", "close"}
      /\ p.op = "info" => p.maxgame \in MaxGames
      /\ p.op \in {"enter", "leave"} => p.char \in Chars
  BY DEF FromGs
<1>2. CASE p.op = "auth"
  <2>1. t = IF s.conns[k].authed THEN s ELSE on_authreply(s, k)
    BY <1>2 DEF Handled
  <2> HIDE DEF t
  <2>2. StateInv(t, v, 0) /\ Spare(t)
    BY <2>1, AuthHandled
  <2> QED BY <2>2 DEF t
<1>3. CASE p.op # "auth" /\ ~s.conns[k].authed
  <2>1. t = s
    BY <1>3 DEF Handled
  <2> QED BY <2>1
<1>4. CASE p.op = "info" /\ s.conns[k].authed
  <2>1. t = on_setgsinfo(s, k, p)
    BY <1>4 DEF Handled
  <2> QED BY <1>1, <1>4, <2>1, InfoHandled
<1>5. CASE p.op \in {"created", "failed"} /\ s.conns[k].authed
  <2>1. t = on_creategamereply(s, p)
    BY <1>5 DEF Handled
  <2> QED BY <1>5, <2>1, CreateReplyHandled
<1>6. CASE p.op = "joined" /\ s.conns[k].authed
  <2>1. t = SqDestroyed(s, p.seqno)
    BY <1>6 DEF Handled
  <2> QED BY <2>1, SqDestroyedInv
<1>7. CASE p.op \in {"enter", "leave"} /\ s.conns[k].authed
  <2>1. t = on_updategameinfo(s, k, p)
    BY <1>7 DEF Handled
  <2> QED BY <1>1, <1>7, <2>1, UpdateHandled
<1>8. CASE p.op = "close" /\ s.conns[k].authed
  <2>1. t = on_closegame(s, k, p)
    BY <1>8 DEF Handled
  <2> QED BY <2>1, CloseHandled
<1> QED BY <1>1, <1>2, <1>3, <1>4, <1>5, <1>6, <1>7, <1>8

\* The first packet of k is taken, and handled.
PacketTaken(s, k) == [s EXCEPT !.conns[k].in = Tail(@)]
PacketHandled(s, k) == Handled(PacketTaken(s, k), k, Head(s.conns[k].in))

\* What was so of the packet when it came is so when it is handled.
LEMMA PacketHandledInv ==
  ASSUME NEW s, NEW v, StateInv(s, v, 0), Spare(s), NEW k \in DOMAIN s.conns,
         s.conns[k].in # <<>>
  PROVE  LET t == PacketHandled(s, k) IN StateInv(t, v, 0) /\ Spare(t)
<1> DEFINE q == s.conns[k].in
           p == Head(q)
           c == [s.conns[k] EXCEPT !.in = Tail(q)]
           r == PacketTaken(s, k)
           t == PacketHandled(s, k)
<1>0. ServersInv(s) /\ NumbersInv(s, v, 0) /\ DOMAIN s = Fields
  BY DEF StateInv
<1>1. s.conns[k] \in Connections
  BY <1>0 DEF ServersInv
<1>2. q \in Seq(FromGs) /\ q # <<>>
  BY <1>1 DEF Connections
<1>3. /\ p \in FromGs /\ q[1] = p /\ 1 \in 1..Len(q) /\ Len(q) \in Nat
      /\ Tail(q) \in Seq(FromGs) /\ Len(Tail(q)) = Len(q) - 1
      /\ \A j \in 1..(Len(q) - 1) : Tail(q)[j] = q[j + 1]
  <2> HIDE DEF q
  <2> QED BY <1>2
<1>4. /\ c \in Connections /\ c.d2gs = s.conns[k].d2gs /\ c.ip = s.conns[k].ip
      /\ c.peer = s.conns[k].peer /\ c.in = Tail(q) /\ c.out = s.conns[k].out
  BY <1>1, <1>3 DEF Connections
<1>5. /\ DOMAIN r = Fields /\ r.conns = [s.conns EXCEPT ![k] = c]
      /\ r.online = s.online /\ r.gamequeue = s.gamequeue /\ r.gq = s.gq /\ r.sqs = s.sqs
      /\ r.games = s.games /\ r.gs = s.gs /\ r.last = s.last
  BY <1>0 DEF PacketTaken, Fields
<1>6. t = Handled(r, k, p)
  BY DEF PacketHandled
<1> HIDE DEF t, r, c, p
<1>7. DOMAIN r.conns = DOMAIN s.conns /\ r.conns[k] = c
      /\ \A j \in DOMAIN s.conns : j # k => r.conns[j] = s.conns[j]
  BY <1>5
<1>8. ASSUME NEW j \in DOMAIN r.conns
      PROVE  /\ r.conns[j] \in Connections
             /\ r.conns[j].d2gs = s.conns[j].d2gs /\ r.conns[j].ip = s.conns[j].ip
             /\ r.conns[j].peer = s.conns[j].peer
             /\ FromFront(r.conns[j].in, s.conns[j].in)
             /\ FromFront(r.conns[j].out, s.conns[j].out)
  <2>1. s.conns[j] \in Connections
    BY <1>0, <1>7 DEF ServersInv
  <2>2. s.conns[j].in \in Seq(FromGs) /\ s.conns[j].out \in Seq(ToGs)
    BY <2>1 DEF Connections
  <2>3. Len(s.conns[j].in) \in Nat /\ Len(s.conns[j].out) \in Nat
    BY <2>2, SMTT(40)
  <2>4. FromFront(s.conns[j].in, s.conns[j].in) /\ FromFront(s.conns[j].out, s.conns[j].out)
    BY <2>3, Fronts
  <2>5. CASE j = k
    <3>1. FromFront(Tail(q), q)
      BY <1>2, Fronts
    <3> QED BY <1>4, <1>7, <2>4, <2>5, <3>1
  <2>6. CASE j # k
    BY <1>7, <2>1, <2>4, <2>6
  <2> QED BY <2>5, <2>6
<1>9. Lessened(s, r)
  BY <1>0, <1>5, <1>7, <1>8 DEF Lessened, ServersInv
<1>10. StateInv(r, v, 0) /\ Spare(r)
  BY <1>9, LessenedInv
<1>11. Fresh(r, v, k, p)
  <2> SUFFICES ASSUME p.op = "created" PROVE Fresh(r, v, k, p)
    BY DEF Fresh
  <2>1. 1 \in Coming(s, k)
    BY <1>3, SMTT(40) DEF Coming
  <2>2. /\ Pending(s, 0, k, p.seqno) /\ Unused(s, v, k, p.gid)
        /\ \A h \in Coming(s, k) : s.conns[k].in[h].gid = p.gid => h = 1
    BY <1>0, <1>3, <2>1 DEF NumbersInv
  <2>3. Pending(r, 0, k, p.seqno)
    BY <1>5, <2>2, ZenonT(60) DEF Pending, Hosts
  <2>4. Unused(r, v, k, p.gid)
    BY <1>4, <1>5, <1>7, <2>2 DEF Unused, Hosts
  <2>5. ASSUME NEW h \in Coming(r, k) PROVE r.conns[k].in[h].gid # p.gid
    <3>1. h \in 1..Len(Tail(q)) /\ r.conns[k].in = Tail(q) /\ Tail(q)[h].op = "created"
      BY <1>4, <1>7 DEF Coming
    <3> HIDE DEF q
    <3>2. h + 1 \in 1..Len(q) /\ Tail(q)[h] = q[h + 1] /\ h + 1 # 1
      BY <1>3, <3>1
    <3>3. h + 1 \in Coming(s, k)
      BY <3>1, <3>2 DEF Coming, q
    <3>4. q[h + 1].gid # p.gid
      BY <2>2, <3>2, <3>3 DEF q
    <3> QED BY <3>1, <3>2, <3>4
  <2> QED BY <2>3, <2>4, <2>5 DEF Fresh
<1>12. k \in DOMAIN r.conns
  BY <1>7
<1>13. StateInv(t, v, 0) /\ Spare(t)
  BY <1>3, <1>6, <1>10, <1>11, <1>12, HandledInv
<1> QED BY <1>13 DEF t

-----------------------------------------------------------------------------
\* The steps of d2cs.  What a step sets is what the invariant is about afterwards.
LEMMA SetKeeps ==
  ASSUME NEW s, StateInv(s, srv, 0), Spare(s), GameServersInv(srv), Set(s), srv' = srv
  PROVE  D2csInv'
<1> DEFINE t == State'
<1>1. /\ DOMAIN t = Fields
      /\ t.online = s.online /\ t.gamequeue = s.gamequeue /\ t.gq = s.gq /\ t.sqs = s.sqs
      /\ t.games = s.games /\ t.gs = s.gs /\ t.conns = s.conns /\ t.last = s.last
  BY DEF State, Set, Fields
<1> HIDE DEF t
<1>2. QueueInv(t)
  <2>1. QueueInv(s)
    BY DEF StateInv
  <2> QED BY <1>1, <2>1 DEF QueueInv
<1>3. StateInv(t, srv, 0)
  BY <1>1, <1>2, QueueChanged
<1>4. Spare(t)
  BY <1>1 DEF Spare
<1>5. StateInv(State', srv', 0) /\ Spare(State') /\ GameServersInv(srv')
  BY <1>3, <1>4 DEF t
<1> QED BY <1>5 DEF D2csInv

\* The variables are the fields of the state.
LEMMA StateFields ==
  /\ DOMAIN State = Fields
  /\ State.online = online /\ State.gamequeue = gamequeue /\ State.gq = gq /\ State.sqs = sqs
  /\ State.games = games /\ State.gs = gs /\ State.conns = conns /\ State.last = last
BY DEF State, Fields

\* The end of logging in keeps the invariant.
LEMMA ClientLoginKeeps ==
  ASSUME D2csInv, NEW u \in Clients, ClientLogin(u)
  PROVE  D2csInv'
<1> DEFINE s == State
           t == [s EXCEPT !.online = @ \cup {u}]
<1>1. StateInv(s, srv, 0) /\ Spare(s) /\ GameServersInv(srv)
  BY DEF D2csInv
<1>2. Set(t) /\ srv' = srv
  BY DEF ClientLogin
<1> HIDE DEF s
<1>3. /\ DOMAIN t = Fields /\ t.online = s.online \cup {u} /\ t.gamequeue = s.gamequeue
      /\ t.gq = s.gq /\ t.sqs = s.sqs /\ t.games = s.games /\ t.gs = s.gs
      /\ t.conns = s.conns /\ t.last = s.last
  BY <1>1 DEF StateInv, Fields
<1> HIDE DEF t
<1>4. QueueInv(t)
  <2>1. QueueInv(s)
    BY <1>1 DEF StateInv
  <2>2. /\ s.online \subseteq Clients /\ s.gamequeue \subseteq s.online
        /\ s.gq \in Seq(Entry)
        /\ \A i \in 1..Len(s.gq) : s.gq[i].client \in s.gamequeue
        /\ \A i, j \in 1..Len(s.gq) : s.gq[i].client = s.gq[j].client => i = j
        /\ \A w \in s.gamequeue : \E i \in 1..Len(s.gq) : s.gq[i].client = w
    BY <2>1, Zenon DEF QueueInv
  <2>3. t.online \subseteq Clients /\ t.gamequeue \subseteq t.online
    BY <1>3, <2>2
  <2>4. t.gq = s.gq /\ t.gamequeue = s.gamequeue
    BY <1>3
  <2>5. /\ t.gq \in Seq(Entry)
        /\ \A i \in 1..Len(t.gq) : t.gq[i].client \in t.gamequeue
        /\ \A i, j \in 1..Len(t.gq) : t.gq[i].client = t.gq[j].client => i = j
        /\ \A w \in t.gamequeue : \E i \in 1..Len(t.gq) : t.gq[i].client = w
    BY <2>2, <2>4, Zenon
  <2> QED BY <2>3, <2>5, Zenon DEF QueueInv
<1>5. StateInv(t, srv, 0)
  BY <1>1, <1>3, <1>4, QueueChanged
<1>6. Spare(t)
  BY <1>1, <1>3 DEF Spare
<1> QED BY <1>1, <1>2, <1>5, <1>6, SetKeeps

\* A request for a new game keeps the invariant.
LEMMA ClientCreateKeeps ==
  ASSUME D2csInv, NEW u \in Clients, NEW name \in Names, ClientCreate(u, name)
  PROVE  D2csInv'
<1> DEFINE s == State
           t == creategame(s, u, name)
<1>1. StateInv(s, srv, 0) /\ Spare(s) /\ GameServersInv(srv)
  BY DEF D2csInv
<1>2. /\ Set(t) /\ srv' = srv /\ u \in s.online
      /\ s.last.game + Len(s.gq) < MaxGameId /\ s.last.seqno + Len(s.gq) < MaxSeqno
  BY StateFields DEF ClientCreate
<1> HIDE DEF s
<1>3. s.last.game \in Nat /\ s.last.seqno \in Nat /\ Len(s.gq) \in Nat
  BY <1>1, BoundTypes DEF StateInv, LastInv, QueueInv
<1>4. s.last.game < MaxGameId /\ s.last.seqno < MaxSeqno
  BY <1>2, <1>3, BoundTypes, SMTT(40)
<1>5. /\ StateInv(t, srv, 0)
      /\ \/ /\ t.gq = s.gq /\ t.gamequeue = s.gamequeue
            /\ t.last.game <= s.last.game + 1 /\ t.last.seqno <= s.last.seqno + 1
         \/ /\ u \in s.gamequeue /\ u \notin t.gamequeue
            /\ Len(t.gq) = Len(s.gq) - 1 /\ t.last = s.last
         \/ /\ u \notin s.gamequeue
            /\ Len(t.gq) = Len(s.gq) + 1 /\ t.last = s.last
  BY <1>1, <1>2, <1>4, CreateGameInv
<1>6. t.last.game \in Nat /\ t.last.seqno \in Nat /\ Len(t.gq) \in Nat
  <2> HIDE DEF t
  <2> QED BY <1>5, BoundTypes, SMTT(40) DEF StateInv, LastInv, QueueInv
<1> HIDE DEF t
<1>7. Spare(t)
  <2> DEFINE a == s.last.game
             b == t.last.game
             c == s.last.seqno
             d == t.last.seqno
             l == Len(s.gq)
             m == Len(t.gq)
  <2>1. /\ {a, b, c, d, l, m, MaxGameId, MaxSeqno} \subseteq Int
        /\ a + l < MaxGameId /\ c + l < MaxSeqno
    BY <1>2, <1>3, <1>6, BoundTypes, SMTT(40)
  <2>2. m <= l + 1 /\ ((m = l /\ b <= a + 1 /\ d <= c + 1) \/ (b = a /\ d = c))
    <3>1. CASE t.gq = s.gq
      BY <1>3, <1>5, <1>6, <3>1
    <3>2. CASE t.last = s.last /\ m = l - 1
      BY <1>3, <1>6, <3>2
    <3>3. CASE t.last = s.last /\ m = l + 1
      BY <1>3, <1>6, <3>3
    <3> QED BY <1>5, <3>1, <3>2, <3>3
  <2> HIDE DEF a, b, c, d, l, m
  <2>3. b + m <= MaxGameId /\ d + m <= MaxSeqno
    BY <2>1, <2>2
  <2> QED BY <2>3 DEF Spare, b, d, m
<1> QED BY <1>1, <1>2, <1>5, <1>7, SetKeeps

\* A client that does not want to wait keeps the invariant.
LEMMA ClientCancelKeeps ==
  ASSUME D2csInv, NEW u \in Clients, ClientCancel(u)
  PROVE  D2csInv'
<1> DEFINE s == State
           t == Dequeued(s, u)
<1>1. StateInv(s, srv, 0) /\ Spare(s) /\ GameServersInv(srv)
  BY DEF D2csInv
<1>2. Set(t) /\ srv' = srv
  BY DEF ClientCancel
<1> HIDE DEF s
<1>3. StateInv(t, srv, 0) /\ Spare(t)
  BY <1>1, DequeuedInv, DequeuedSpare
<1> HIDE DEF t
<1> QED BY <1>1, <1>2, <1>3, SetKeeps

\* The end of a client's connection keeps the invariant.
LEMMA ClientDestroyedKeeps ==
  ASSUME D2csInv, NEW u, Set(ClientDestroyed(State, u)), srv' = srv
  PROVE  D2csInv'
<1> DEFINE s == State
           t == ClientDestroyed(s, u)
<1>1. StateInv(s, srv, 0) /\ Spare(s) /\ GameServersInv(srv)
  BY DEF D2csInv
<1>2. Set(t)
  OBVIOUS
<1> HIDE DEF s
<1>3. StateInv(t, srv, 0) /\ Spare(t)
  BY <1>1, ClientDestroyedInv
<1> HIDE DEF t
<1> QED BY <1>1, <1>2, <1>3, SetKeeps

\* A request to join a game keeps the invariant.
LEMMA ClientJoinKeeps ==
  ASSUME D2csInv, NEW u \in Clients, NEW name \in Names, ClientJoin(u, name)
  PROVE  D2csInv'
<1>1. CASE Refused(u)
  BY <1>1, ClientDestroyedKeeps DEF ClientJoin
<1>2. CASE ~Refused(u)
  <2> DEFINE s == State
  <2>1. StateInv(s, srv, 0) /\ Spare(s) /\ GameServersInv(srv)
    BY DEF D2csInv
  <2>2. PICK i \in DOMAIN s.games :
          Set(Requested(s, u, i, [op |-> "join", gid |-> games[i].gid, char |-> Char[u]]))
    BY <1>2, StateFields DEF ClientJoin, GamesNamed
  <2> DEFINE p == [op |-> "join", gid |-> s.games[i].gid, char |-> Char[u]]
             t == Requested(s, u, i, p)
             n == s.last.seqno + 1
  <2>3. Set(t) /\ srv' = srv /\ s.last.seqno + Len(s.gq) < MaxSeqno
    BY <2>2, StateFields DEF ClientJoin
  <2> HIDE DEF s
  <2>4. s.last.seqno \in Nat /\ Len(s.gq) \in Nat
    BY <2>1, BoundTypes DEF StateInv, LastInv, QueueInv
  <2>5. s.last.seqno < MaxSeqno /\ n \in 1..MaxSeqno
    BY <2>3, <2>4, BoundTypes, SMTT(40)
  <2>6. s.games[i].gid \in 0..MaxGid /\ Char[u] \in Chars
    BY <2>1, <2>2 DEF StateInv, GamesInv, Game, Chars
  <2>7. With(p, "seqno", n) \in ToGs
    <3>1. With(p, "seqno", n) = [op |-> "join", seqno |-> n, gid |-> s.games[i].gid, char |-> Char[u]]
      BY DEF With
    <3> HIDE DEF n
    <3> QED BY <2>5, <2>6, <3>1 DEF ToGs
  <2>8. Active(s, s.games[i].d2gs)
    <3>1. s.games[i].d2gs # 0
      BY <2>1, <2>2 DEF StateInv, GamesInv, ServersInv, LastInv
    <3> QED BY <2>1, <2>2, <3>1, SMTT(40) DEF StateInv, GamesInv
  <2> HIDE DEF p
  <2>9. StateInv(t, srv, 0) /\ t.gq = s.gq /\ t.last.seqno = n /\ t.last.game = s.last.game
    BY <2>1, <2>2, <2>5, <2>7, <2>8, RequestedInv
  <2> HIDE DEF t
  <2>10. Spare(t)
    <3>1. t.last.seqno + Len(t.gq) <= MaxSeqno
      BY <2>3, <2>4, <2>9, BoundTypes, SMTT(40)
    <3> QED BY <2>1, <2>9, <3>1 DEF Spare
  <2> QED BY <2>1, <2>3, <2>9, <2>10, SetKeeps
<1> QED BY <1>1, <1>2

\* What a client does keeps the invariant.
LEMMA ClientKeeps ==
  ASSUME D2csInv, NEW u \in Clients, Client(u)
  PROVE  D2csInv'
<1>1. ClientGone(u) => D2csInv'
  BY ClientDestroyedKeeps DEF ClientGone
<1> QED BY <1>1, ClientLoginKeeps, ClientCreateKeeps, ClientCancelKeeps, ClientJoinKeeps DEF Client

\* What times out keeps the invariant.
LEMMA TimersKeep ==
  ASSUME D2csInv, SqTimeout \/ \E S \in SUBSET DOMAIN games : check_voidgame(S)
  PROVE  D2csInv'
<1> DEFINE s == State
<1>1. StateInv(s, srv, 0) /\ Spare(s) /\ GameServersInv(srv)
  BY DEF D2csInv
<1>2. CASE SqTimeout
  <2>1. PICK n \in DOMAIN s.sqs :
          /\ Set([s EXCEPT !.sqs = [m \in {x \in DOMAIN s.sqs : x > n} |-> s.sqs[m]]])
          /\ srv' = srv
    BY <1>2, StateFields DEF SqTimeout
  <2> DEFINE N == {x \in DOMAIN s.sqs : x > n}
             t == [s EXCEPT !.sqs = [m \in N |-> s.sqs[m]]]
  <2>2. N \in SUBSET DOMAIN s.sqs
    OBVIOUS
  <2>3. Set(t)
    BY <2>1
  <2> HIDE DEF s, N
  <2>4. StateInv(t, srv, 0) /\ Spare(t)
    BY <1>1, <2>2, RequestsForgotten
  <2> HIDE DEF t
  <2> QED BY <1>1, <2>1, <2>3, <2>4, SetKeeps
<1>3. CASE \E S \in SUBSET DOMAIN games : check_voidgame(S)
  <2>1. PICK S \in SUBSET DOMAIN s.games : Set(DestroyAll(s, S)) /\ srv' = srv
    BY <1>3, StateFields DEF check_voidgame
  <2> DEFINE t == DestroyAll(s, S)
  <2> HIDE DEF s
  <2>2. StateInv(t, srv, 0) /\ Spare(t)
    BY <1>1, <2>1, DestroyAllInv
  <2> QED BY <1>1, <2>1, <2>2, SetKeeps
<1> QED BY <1>2, <1>3

\* A packet of a game server, or the end of its connection, keeps the invariant.
LEMMA ServerPacketKeeps ==
  ASSUME D2csInv, NEW k \in Conns, ServerPacket(k) \/ ServerConnGone(k)
  PROVE  D2csInv'
<1> DEFINE s == State
<1>1. StateInv(s, srv, 0) /\ Spare(s) /\ GameServersInv(srv)
  BY DEF D2csInv
<1>2. CASE ServerPacket(k)
  <2> DEFINE t == PacketHandled(s, k)
  <2>1. /\ k \in DOMAIN s.conns /\ s.conns[k].in # <<>>
        /\ Set(t) /\ srv' = srv
    BY <1>2, StateFields DEF ServerPacket, PacketHandled, PacketTaken
  <2> HIDE DEF s
  <2>2. StateInv(t, srv, 0) /\ Spare(t)
    BY <1>1, <2>1, PacketHandledInv
  <2> HIDE DEF t
  <2> QED BY <1>1, <2>1, <2>2, SetKeeps
<1>3. CASE ServerConnGone(k)
  <2> DEFINE t == ServerConnDestroyed(s, k)
  <2>1. k \in DOMAIN s.conns /\ Set(t) /\ srv' = srv
    BY <1>3, StateFields DEF ServerConnGone
  <2> HIDE DEF s
  <2>2. StateInv(t, srv, 0) /\ Spare(t)
    BY <1>1, <2>1, ServerConnDestroyedInv
  <2> HIDE DEF t
  <2> QED BY <1>1, <2>1, <2>2, SetKeeps
<1> QED BY <1>2, <1>3

\* A server without games or a connection is forgotten.
LEMMA ServerForgottenInv ==
  ASSUME NEW s, NEW v, StateInv(s, v, 0), NEW g \in DOMAIN s.gs, GamesOn(s, g) = {}
  PROVE  LET t == [s EXCEPT !.gs = Without(@, g)]
         IN  StateInv(t, v, 0) /\ (Spare(s) => Spare(t))
<1> DEFINE t == [s EXCEPT !.gs = Without(@, g)]
<1>0. /\ DOMAIN s = Fields /\ QueueInv(s) /\ LastInv(s) /\ RequestsInv(s) /\ ServersInv(s)
      /\ GamesInv(s, 0) /\ NumbersInv(s, v, 0)
  BY DEF StateInv
<1>1. /\ DOMAIN t = Fields /\ t.gs = Without(s.gs, g)
      /\ t.online = s.online /\ t.gamequeue = s.gamequeue /\ t.gq = s.gq /\ t.sqs = s.sqs
      /\ t.games = s.games /\ t.conns = s.conns /\ t.last = s.last
  BY <1>0 DEF Fields
<1> HIDE DEF t
<1>2. DOMAIN t.gs = DOMAIN s.gs \ {g} /\ \A h \in DOMAIN t.gs : t.gs[h] = s.gs[h]
  BY <1>1 DEF Without
<1>3. QueueInv(t) /\ LastInv(t) /\ RequestsInv(t)
  <2>1. QueueInv(t)
    BY <1>0, <1>1, SMTT(40) DEF QueueInv
  <2>2. LastInv(t)
    BY <1>0, <1>1 DEF LastInv
  <2>3. RequestsInv(t)
    BY <1>0, <1>1 DEF RequestsInv
  <2> QED BY <2>1, <2>2, <2>3
<1>4. ServersInv(t)
  <2>1. DOMAIN t.gs \subseteq 1..t.last.d2gs /\ \A h \in DOMAIN t.gs : t.gs[h] \in D2gs
    BY <1>0, <1>1, <1>2 DEF ServersInv
  <2>2. \A h \in DOMAIN t.gs : t.gs[h].conn # NoConn =>
          t.gs[h].conn \in DOMAIN t.conns /\ t.conns[t.gs[h].conn].d2gs = h
    BY <1>0, <1>1, <1>2 DEF ServersInv
  <2>3. DOMAIN t.conns \subseteq Conns /\ \A k \in DOMAIN t.conns : t.conns[k] \in Connections
    BY <1>0, <1>1 DEF ServersInv
  <2>4. \A j, k \in DOMAIN t.conns :
          t.conns[j].peer /\ t.conns[k].peer /\ t.conns[j].ip = t.conns[k].ip => j = k
    BY <1>0, <1>1 DEF ServersInv
  <2> QED BY <2>1, <2>2, <2>3, <2>4 DEF ServersInv
<1>5. \A i \in DOMAIN s.games : /\ s.games[i].d2gs # g /\ s.games[i].d2gs \in DOMAIN t.gs
                                /\ t.gs[s.games[i].d2gs] = s.gs[s.games[i].d2gs]
  <2> TAKE i \in DOMAIN s.games
  <2>1. s.games[i].d2gs # g
    BY DEF GamesOn
  <2>2. s.games[i].d2gs \in DOMAIN s.gs
    BY <1>0 DEF GamesInv
  <2> QED BY <1>2, <2>1, <2>2
<1>6. GamesInv(t, 0)
  <2>1. \A h \in DOMAIN t.gs : t.gs[h].gamenum = Cardinality(GamesOn(t, h))
    <3>1. \A h : GamesOn(t, h) = GamesOn(s, h)
      BY <1>1 DEF GamesOn
    <3> QED BY <1>0, <1>2, <3>1 DEF GamesInv
  <2>2. \A i \in DOMAIN t.games :
          t.games[i].d2gs \in DOMAIN t.gs /\ (Active(t, t.games[i].d2gs) \/ t.games[i].d2gs = 0)
    BY <1>0, <1>1, <1>5 DEF GamesInv, Active
  <2> QED BY <1>0, <1>1, <2>1, <2>2 DEF GamesInv
<1>7. NumbersInv(t, v, 0)
  <2>1. \A k, i : i \in DOMAIN s.games => Hosts(t, k, i) = Hosts(s, k, i)
    BY <1>1, <1>5 DEF Hosts
  <2>2. \A k, n : Pending(s, 0, k, n) => Pending(t, 0, k, n)
    BY <1>1, <2>1 DEF Pending
  <2>3. Aged(s, 0, t, 0)
    BY <1>1, <2>1, <2>2 DEF Aged
  <2> QED BY <1>0, <2>3, AgedNumbers
<1>8. Spare(s) => Spare(t)
  BY <1>1 DEF Spare
<1> QED BY <1>1, <1>3, <1>4, <1>6, <1>7, <1>8 DEF StateInv, t

\* d2gslist_reload for a server that is gone keeps the invariant.
LEMMA DropServerKeeps ==
  ASSUME D2csInv, NEW g \in DOMAIN gs, DropServer(g)
  PROVE  D2csInv'
<1> DEFINE s == State
           k == s.gs[g].conn
           r == IF Active(s, g) THEN ServerConnDestroyed(s, k) ELSE s
           t == [r EXCEPT !.gs = Without(@, g)]
<1>1. StateInv(s, srv, 0) /\ Spare(s) /\ GameServersInv(srv)
  BY DEF D2csInv
<1>2. g \in DOMAIN s.gs /\ Set(t) /\ srv' = srv
  BY StateFields DEF DropServer
<1> HIDE DEF s
<1>3. StateInv(r, srv, 0) /\ Spare(r) /\ g \in DOMAIN r.gs /\ GamesOn(r, g) = {}
  <2>1. CASE Active(s, g)
    <3>1. k \in DOMAIN s.conns /\ s.conns[k].d2gs = g
      BY <1>1, <2>1 DEF StateInv, ServersInv, Active
    <3>2. r = ServerConnDestroyed(s, k)
      BY <2>1
    <3> DEFINE q == ServerConnDestroyed(s, k)
               h == s.conns[k].d2gs
    <3>3. /\ StateInv(q, srv, 0) /\ Spare(q) /\ DOMAIN q.gs = DOMAIN s.gs
          /\ Active(s, h) /\ s.gs[h].conn = k => q.gs[h].conn = NoConn /\ GamesOn(q, h) = {}
      BY <1>1, <3>1, ServerConnDestroyedInv
    <3> QED BY <1>2, <2>1, <3>1, <3>2, <3>3
  <2>2. CASE ~Active(s, g)
    <3>1. \A i \in DOMAIN s.games : s.games[i].d2gs # g
      BY <1>1, <2>2 DEF StateInv, GamesInv, ServersInv, LastInv
    <3> QED BY <1>1, <1>2, <2>2, <3>1 DEF GamesOn
  <2> QED BY <2>1, <2>2
<1> HIDE DEF r
<1>4. StateInv(t, srv, 0) /\ Spare(t)
  BY <1>3, ServerForgottenInv
<1> HIDE DEF t
<1> QED BY <1>1, <1>2, <1>4, SetKeeps

\* d2gslist_reload for a server that is new keeps the invariant.
LEMMA AddServerKeeps ==
  ASSUME D2csInv, NEW a \in Ips, AddServer(a)
  PROVE  D2csInv'
<1> DEFINE s == State
           n == s.last.d2gs + 1
           d == [ip |-> a, conn |-> NoConn, gamenum |-> 0, maxgame |-> 0]
           t == [s EXCEPT !.last.d2gs = n, !.gs = With(@, n, d)]
<1>1. StateInv(s, srv, 0) /\ Spare(s) /\ GameServersInv(srv)
  BY DEF D2csInv
<1>2. s.last.d2gs < MaxGsId /\ Set(t) /\ srv' = srv
  BY StateFields DEF AddServer
<1> HIDE DEF s
<1>0. /\ DOMAIN s = Fields /\ QueueInv(s) /\ LastInv(s) /\ RequestsInv(s) /\ ServersInv(s)
      /\ GamesInv(s, 0) /\ NumbersInv(s, srv, 0)
  BY <1>1 DEF StateInv
<1>3. /\ DOMAIN t = Fields /\ t.gs = With(s.gs, n, d)
      /\ t.online = s.online /\ t.gamequeue = s.gamequeue /\ t.gq = s.gq /\ t.sqs = s.sqs
      /\ t.games = s.games /\ t.conns = s.conns /\ t.last = [s.last EXCEPT !.d2gs = n]
  BY <1>0 DEF Fields
<1>4. n \in 1..MaxGsId /\ n \notin 1..s.last.d2gs /\ 1..s.last.d2gs \subseteq 1..n
  BY <1>0, <1>2, BoundTypes DEF LastInv
<1>5. /\ t.last.game = s.last.game /\ t.last.seqno = s.last.seqno /\ t.last.d2gs = n
      /\ LastInv(t)
  <2> HIDE DEF n, t
  <2> QED BY <1>0, <1>3, <1>4 DEF LastInv
<1>6. d \in D2gs /\ d.conn = NoConn /\ d.gamenum = 0
  BY DEF D2gs
<1> HIDE DEF t, n, d
<1>7. n \notin DOMAIN s.gs
  BY <1>0, <1>4 DEF ServersInv
<1>8. /\ DOMAIN t.gs = DOMAIN s.gs \cup {n} /\ t.gs[n] = d
      /\ \A h \in DOMAIN s.gs : t.gs[h] = s.gs[h]
  BY <1>3, <1>7 DEF With
<1>9. QueueInv(t) /\ RequestsInv(t)
  <2>1. QueueInv(t)
    BY <1>0, <1>3 DEF QueueInv
  <2>2. RequestsInv(t)
    BY <1>0, <1>3, <1>5 DEF RequestsInv
  <2> QED BY <2>1, <2>2
<1>10. ServersInv(t)
  <2>1. DOMAIN t.gs \subseteq 1..t.last.d2gs
    BY <1>0, <1>4, <1>5, <1>8 DEF ServersInv
  <2>2. \A h \in DOMAIN t.gs : t.gs[h] \in D2gs
    BY <1>0, <1>6, <1>8 DEF ServersInv
  <2>3. \A h \in DOMAIN t.gs : t.gs[h].conn # NoConn =>
          t.gs[h].conn \in DOMAIN t.conns /\ t.conns[t.gs[h].conn].d2gs = h
    BY <1>0, <1>3, <1>6, <1>8 DEF ServersInv
  <2>4. DOMAIN t.conns \subseteq Conns /\ \A k \in DOMAIN t.conns : t.conns[k] \in Connections
    BY <1>0, <1>3 DEF ServersInv
  <2>5. \A j, k \in DOMAIN t.conns :
          t.conns[j].peer /\ t.conns[k].peer /\ t.conns[j].ip = t.conns[k].ip => j = k
    BY <1>0, <1>3 DEF ServersInv
  <2> QED BY <2>1, <2>2, <2>3, <2>4, <2>5 DEF ServersInv
<1>11. \A i \in DOMAIN s.games : /\ s.games[i].d2gs \in DOMAIN s.gs /\ s.games[i].d2gs # n
                                 /\ s.games[i].d2gs \in DOMAIN t.gs
                                 /\ t.gs[s.games[i].d2gs] = s.gs[s.games[i].d2gs]
  <2> TAKE i \in DOMAIN s.games
  <2>1. s.games[i].d2gs \in DOMAIN s.gs
    BY <1>0 DEF GamesInv
  <2> QED BY <1>7, <1>8, <2>1
<1>12. GamesInv(t, 0)
  <2>1. \A h : GamesOn(t, h) = GamesOn(s, h)
    BY <1>3 DEF GamesOn
  <2>2. GamesOn(s, n) = {}
    BY <1>11 DEF GamesOn
  <2>3. \A h \in DOMAIN t.gs : t.gs[h].gamenum = Cardinality(GamesOn(t, h))
    <3> TAKE h \in DOMAIN t.gs
    <3>1. CASE h = n
      BY <1>6, <1>8, <2>1, <2>2, <3>1, FS_EmptySet
    <3>2. CASE h \in DOMAIN s.gs
      BY <1>0, <1>8, <2>1, <3>2 DEF GamesInv
    <3> QED BY <1>8, <3>1, <3>2
  <2>4. \A i \in DOMAIN t.games :
          t.games[i].d2gs \in DOMAIN t.gs /\ (Active(t, t.games[i].d2gs) \/ t.games[i].d2gs = 0)
    BY <1>0, <1>3, <1>11 DEF GamesInv, Active
  <2> QED BY <1>0, <1>3, <1>5, <2>3, <2>4 DEF GamesInv
<1>13. NumbersInv(t, srv, 0)
  <2>1. \A k, i : i \in DOMAIN s.games => Hosts(t, k, i) = Hosts(s, k, i)
    BY <1>3, <1>11 DEF Hosts
  <2>2. \A k, m : Pending(s, 0, k, m) => Pending(t, 0, k, m)
    BY <1>3, <1>5, <2>1 DEF Pending
  <2>3. Aged(s, 0, t, 0)
    BY <1>3, <2>1, <2>2 DEF Aged
  <2> QED BY <1>0, <2>3, AgedNumbers
<1>14. StateInv(t, srv, 0)
  BY <1>3, <1>5, <1>9, <1>10, <1>12, <1>13 DEF StateInv
<1>15. Spare(t)
  BY <1>1, <1>3, <1>5 DEF Spare
<1> QED BY <1>1, <1>2, <1>14, <1>15, SetKeeps

-----------------------------------------------------------------------------
\* The steps of the game servers.  A server that has gone on counting, or that no
\* connection leads to, is as good for the invariant as before.
LEMMA ServersCount ==
  ASSUME NEW s, NEW v, NEW w, StateInv(s, v, 0), GameServersInv(v), GameServersInv(w),
         \A k \in DOMAIN s.conns :
           s.conns[k].peer => v[s.conns[k].ip].next <= w[s.conns[k].ip].next
  PROVE  StateInv(s, w, 0)
<1>0. ServersInv(s) /\ GamesInv(s, 0) /\ NumbersInv(s, v, 0)
  BY DEF StateInv
<1>1. ASSUME NEW k \in DOMAIN s.conns, s.conns[k].peer, NEW n \in Int, n < v[s.conns[k].ip].next
      PROVE  n < w[s.conns[k].ip].next
  <2> DEFINE a == s.conns[k].ip
  <2>1. a \in Ips
    BY <1>0 DEF ServersInv, Connections
  <2>2. v[a].next \in Int /\ w[a].next \in Int
    BY <2>1, BoundTypes DEF GameServersInv
  <2>3. v[a].next <= w[a].next /\ n < v[a].next
    BY <1>1
  <2> HIDE DEF a
  <2>4. n < w[a].next
    BY <2>2, <2>3
  <2> QED BY <2>4 DEF a
<1>2. ASSUME NEW k \in DOMAIN s.conns, NEW j \in Coming(s, k)
      PROVE  Unused(s, w, k, s.conns[k].in[j].gid)
  <2>1. s.conns[k] \in Connections
    BY <1>0 DEF ServersInv
  <2>2. s.conns[k].in \in Seq(FromGs) /\ j \in 1..Len(s.conns[k].in) /\ s.conns[k].in[j].op = "created"
    BY <2>1 DEF Connections, Coming
  <2>3. s.conns[k].in[j] \in FromGs
    BY <2>2
  <2>4. s.conns[k].in[j].gid \in Int
    BY <2>2, <2>3 DEF FromGs
  <2>5. Unused(s, v, k, s.conns[k].in[j].gid)
    BY <1>0 DEF NumbersInv
  <2> QED BY <1>1, <2>4, <2>5 DEF Unused
<1>3. ASSUME NEW k \in DOMAIN s.conns, NEW i \in DOMAIN s.games,
             s.games[i].created, Hosts(s, k, i), s.conns[k].peer
      PROVE  s.games[i].gid < w[s.conns[k].ip].next
  <2>1. s.games[i].gid \in Int
    BY <1>0 DEF GamesInv, Game
  <2>2. s.games[i].gid < v[s.conns[k].ip].next
    BY <1>0, <1>3 DEF NumbersInv
  <2> QED BY <1>1, <1>3, <2>1, <2>2
<1>4. NumbersInv(s, w, 0)
  BY <1>0, <1>2, <1>3 DEF NumbersInv
<1> QED BY <1>4 DEF StateInv

\* A packet for d2cs, added to those under way.
Reached(s, k, p) == [s EXCEPT !.conns[k].in = Append(@, p)]

\* It keeps the invariant if what it says of a new game is so.
LEMMA ReachedInv ==
  ASSUME NEW s, NEW v, StateInv(s, v, 0), NEW k \in DOMAIN s.conns, NEW p \in FromGs,
         Fresh(s, v, k, p)
  PROVE  LET t == Reached(s, k, p) IN StateInv(t, v, 0) /\ t.gq = s.gq /\ t.last = s.last
<1> DEFINE q == s.conns[k].in
           n == Len(q)
           c == [s.conns[k] EXCEPT !.in = Append(q, p)]
           t == Reached(s, k, p)
<1>0. /\ DOMAIN s = Fields /\ QueueInv(s) /\ LastInv(s) /\ RequestsInv(s) /\ ServersInv(s)
      /\ GamesInv(s, 0) /\ NumbersInv(s, v, 0)
  BY DEF StateInv
<1>1. s.conns[k] \in Connections /\ q \in Seq(FromGs)
  BY <1>0 DEF ServersInv, Connections
<1>2. /\ Append(q, p) \in Seq(FromGs) /\ Len(Append(q, p)) = n + 1 /\ n \in Nat
      /\ Append(q, p)[n + 1] = p /\ \A j \in 1..n : Append(q, p)[j] = q[j]
  <2> HIDE DEF q
  <2> QED BY <1>1
<1>3. /\ c \in Connections /\ c.d2gs = s.conns[k].d2gs /\ c.ip = s.conns[k].ip
      /\ c.peer = s.conns[k].peer /\ c.in = Append(q, p) /\ c.out = s.conns[k].out
  BY <1>1, <1>2 DEF Connections
<1>4. /\ DOMAIN t = Fields /\ t.conns = [s.conns EXCEPT ![k] = c]
      /\ t.online = s.online /\ t.gamequeue = s.gamequeue /\ t.gq = s.gq /\ t.sqs = s.sqs
      /\ t.games = s.games /\ t.gs = s.gs /\ t.last = s.last
  BY <1>0 DEF Reached, Fields
<1> HIDE DEF t, c
<1>5. DOMAIN t.conns = DOMAIN s.conns /\ t.conns[k] = c
      /\ \A j \in DOMAIN s.conns : j # k => t.conns[j] = s.conns[j]
  BY <1>4
<1>6. ASSUME NEW j \in DOMAIN s.conns
      PROVE  /\ t.conns[j] \in Connections /\ t.conns[j].d2gs = s.conns[j].d2gs
             /\ t.conns[j].ip = s.conns[j].ip /\ t.conns[j].peer = s.conns[j].peer
             /\ t.conns[j].out = s.conns[j].out
  <2>1. CASE j = k
    BY <1>3, <1>5, <2>1
  <2>2. CASE j # k
    BY <1>0, <1>5, <2>2 DEF ServersInv
  <2> QED BY <2>1, <2>2
<1>7. QueueInv(t) /\ LastInv(t) /\ RequestsInv(t)
  <2>1. QueueInv(t)
    BY <1>0, <1>4 DEF QueueInv
  <2>2. LastInv(t)
    BY <1>0, <1>4 DEF LastInv
  <2>3. RequestsInv(t)
    BY <1>0, <1>4 DEF RequestsInv
  <2> QED BY <2>1, <2>2, <2>3
<1>8. ServersInv(t)
  <2>1. DOMAIN t.gs \subseteq 1..t.last.d2gs /\ \A g \in DOMAIN t.gs : t.gs[g] \in D2gs
    BY <1>0, <1>4 DEF ServersInv
  <2>2. \A g \in DOMAIN t.gs : t.gs[g].conn # NoConn =>
          t.gs[g].conn \in DOMAIN t.conns /\ t.conns[t.gs[g].conn].d2gs = g
    BY <1>0, <1>4, <1>5, <1>6 DEF ServersInv
  <2>3. \A i, j \in DOMAIN t.conns :
          t.conns[i].peer /\ t.conns[j].peer /\ t.conns[i].ip = t.conns[j].ip => i = j
    <3> TAKE i, j \in DOMAIN t.conns
    <3>1. /\ t.conns[i].peer = s.conns[i].peer /\ t.conns[j].peer = s.conns[j].peer
          /\ t.conns[i].ip = s.conns[i].ip /\ t.conns[j].ip = s.conns[j].ip
          /\ i \in DOMAIN s.conns /\ j \in DOMAIN s.conns
      BY <1>5, <1>6
    <3> QED BY <1>0, <3>1, ZenonT(60) DEF ServersInv
  <2>4. DOMAIN t.conns \subseteq Conns /\ \A j \in DOMAIN t.conns : t.conns[j] \in Connections
    BY <1>0, <1>5, <1>6 DEF ServersInv
  <2> QED BY <2>1, <2>2, <2>3, <2>4 DEF ServersInv
<1>9. GamesInv(t, 0)
  BY <1>0, <1>4 DEF GamesInv, Active, GamesOn
<1>10. NumbersInv(t, v, 0)
  <2>1. /\ \A h, i : Hosts(t, h, i) = Hosts(s, h, i)
        /\ \A h, m : Pending(t, 0, h, m) = Pending(s, 0, h, m)
    <3>1. \A h, i : Hosts(t, h, i) = Hosts(s, h, i)
      BY <1>4 DEF Hosts
    <3> QED BY <1>4, <3>1 DEF Pending
  <2>2. \A h \in DOMAIN s.conns : \A m : Unused(s, v, h, m) => Unused(t, v, h, m)
    BY <1>4, <1>6, <2>1 DEF Unused
  <2>3. ASSUME NEW j \in Coming(t, k)
        PROVE  \/ j = n + 1 /\ t.conns[k].in[j] = p /\ p.op = "created"
               \/ j \in Coming(s, k) /\ t.conns[k].in[j] = q[j]
    <3>1. j \in 1..(n + 1) /\ t.conns[k].in = Append(q, p) /\ Append(q, p)[j].op = "created"
      BY <1>2, <1>3, <1>5 DEF Coming
    <3>2. CASE j = n + 1
      BY <1>2, <3>1, <3>2
    <3>3. CASE j \in 1..n
      BY <1>2, <3>1, <3>3 DEF Coming
    <3> QED BY <1>2, <3>1, <3>2, <3>3
  <2> HIDE DEF n, q
  <2>4. ASSUME NEW h \in DOMAIN t.conns, NEW j \in Coming(t, h)
        PROVE  /\ Pending(t, 0, h, t.conns[h].in[j].seqno)
               /\ Unused(t, v, h, t.conns[h].in[j].gid)
               /\ \A l \in Coming(t, h) : t.conns[h].in[l].gid = t.conns[h].in[j].gid => l = j
    <3>1. CASE h # k
      <4>1. /\ h \in DOMAIN s.conns /\ t.conns[h] = s.conns[h] /\ Coming(t, h) = Coming(s, h)
        BY <1>5, <3>1 DEF Coming
      <4> QED BY <1>0, <2>1, <2>2, <4>1 DEF NumbersInv
    <3>2. CASE h = k
      <4>1. CASE j = n + 1 /\ t.conns[k].in[j] = p /\ p.op = "created"
        <5>1. /\ Pending(s, 0, k, p.seqno) /\ Unused(s, v, k, p.gid)
              /\ \A l \in Coming(s, k) : q[l].gid # p.gid
          BY <4>1 DEF Fresh, q
        <5> QED BY <2>1, <2>2, <2>3, <3>2, <4>1, <5>1
      <4>2. CASE j \in Coming(s, k) /\ t.conns[k].in[j] = q[j]
        <5>1. /\ Pending(s, 0, k, q[j].seqno) /\ Unused(s, v, k, q[j].gid)
              /\ \A l \in Coming(s, k) : q[l].gid = q[j].gid => l = j
          BY <1>0, <4>2 DEF NumbersInv, q
        <5>2. p.op = "created" => q[j].gid # p.gid
          BY <4>2, SMTT(40) DEF Fresh, q
        <5> QED BY <2>1, <2>2, <2>3, <3>2, <4>2, <5>1, <5>2
      <4> QED BY <2>3, <3>2, <4>1, <4>2
    <3> QED BY <3>1, <3>2
  <2>5. ASSUME NEW h \in DOMAIN t.conns, NEW j \in 1..Len(t.conns[h].out),
               t.conns[h].out[j].op = "create"
        PROVE  Pending(t, 0, h, t.conns[h].out[j].seqno)
    <3>1. h \in DOMAIN s.conns /\ t.conns[h].out = s.conns[h].out
      BY <1>5, <1>6
    <3> QED BY <1>0, <2>1, <2>5, <3>1 DEF NumbersInv
  <2>6. ASSUME NEW h \in DOMAIN t.conns, NEW i \in DOMAIN t.games,
               t.games[i].created, Hosts(t, h, i), t.conns[h].peer
        PROVE  t.games[i].gid < v[t.conns[h].ip].next
    <3>1. /\ h \in DOMAIN s.conns /\ t.conns[h].ip = s.conns[h].ip /\ s.conns[h].peer
          /\ t.games = s.games /\ Hosts(s, h, i)
      BY <1>4, <1>5, <1>6, <2>1, <2>6
    <3> QED BY <1>0, <2>6, <3>1 DEF NumbersInv
  <2>7. \A i, j \in DOMAIN t.games :
          t.games[i].created /\ t.games[j].created /\ t.games[i].d2gs = t.games[j].d2gs
          /\ t.games[i].gid = t.games[j].gid => i = j
    BY <1>0, <1>4 DEF NumbersInv
  <2> QED BY <2>4, <2>5, <2>6, <2>7 DEF NumbersInv
<1> QED BY <1>4, <1>7, <1>8, <1>9, <1>10 DEF StateInv, t

\* The first packet of d2cs is taken by the server.
LEMMA TakenInv ==
  ASSUME NEW s, NEW v, StateInv(s, v, 0), NEW k \in DOMAIN s.conns, s.conns[k].out # <<>>
  PROVE  LET t == [s EXCEPT !.conns[k].out = Tail(@)]
         IN  Lessened(s, t) /\ StateInv(t, v, 0)
<1> DEFINE q == s.conns[k].out
           c == [s.conns[k] EXCEPT !.out = Tail(q)]
           t == [s EXCEPT !.conns[k].out = Tail(@)]
<1>0. ServersInv(s) /\ DOMAIN s = Fields
  BY DEF StateInv
<1>1. s.conns[k] \in Connections /\ q \in Seq(ToGs) /\ q # <<>>
  BY <1>0 DEF ServersInv, Connections
<1>2. Tail(q) \in Seq(ToGs)
  <2> HIDE DEF q
  <2> QED BY <1>1
<1>3. /\ c \in Connections /\ c.d2gs = s.conns[k].d2gs /\ c.ip = s.conns[k].ip
      /\ c.peer = s.conns[k].peer /\ c.in = s.conns[k].in /\ c.out = Tail(q)
  BY <1>1, <1>2 DEF Connections
<1>4. /\ DOMAIN t = Fields /\ t.conns = [s.conns EXCEPT ![k] = c]
      /\ t.online = s.online /\ t.gamequeue = s.gamequeue /\ t.gq = s.gq /\ t.sqs = s.sqs
      /\ t.games = s.games /\ t.gs = s.gs /\ t.last = s.last
  BY <1>0 DEF Fields
<1> HIDE DEF t, c
<1>5. DOMAIN t.conns = DOMAIN s.conns /\ t.conns[k] = c
      /\ \A j \in DOMAIN s.conns : j # k => t.conns[j] = s.conns[j]
  BY <1>4
<1>6. ASSUME NEW j \in DOMAIN t.conns
      PROVE  /\ t.conns[j] \in Connections
             /\ t.conns[j].d2gs = s.conns[j].d2gs /\ t.conns[j].ip = s.conns[j].ip
             /\ t.conns[j].peer = s.conns[j].peer
             /\ FromFront(t.conns[j].in, s.conns[j].in)
             /\ FromFront(t.conns[j].out, s.conns[j].out)
  <2>1. s.conns[j] \in Connections
    BY <1>0, <1>5 DEF ServersInv
  <2>2. s.conns[j].in \in Seq(FromGs) /\ s.conns[j].out \in Seq(ToGs)
    BY <2>1 DEF Connections
  <2>3. Len(s.conns[j].in) \in Nat /\ Len(s.conns[j].out) \in Nat
    BY <2>2, SMTT(40)
  <2>4. FromFront(s.conns[j].in, s.conns[j].in) /\ FromFront(s.conns[j].out, s.conns[j].out)
    BY <2>3, Fronts
  <2>5. CASE j = k
    <3>1. FromFront(Tail(q), q)
      BY <1>1, Fronts
    <3> QED BY <1>3, <1>5, <2>4, <2>5, <3>1
  <2>6. CASE j # k
    BY <1>5, <2>1, <2>4, <2>6, SMTT(40)
  <2> QED BY <2>5, <2>6
<1>7. Lessened(s, t)
  BY <1>0, <1>4, <1>5, <1>6 DEF Lessened, ServersInv
<1>8. StateInv(t, v, 0)
  BY <1>7, LessenedInv
<1> QED BY <1>7, <1>8 DEF t

\* A step of the game servers changes the connections alone.
LEMMA ConnsKeep ==
  ASSUME NEW t, NEW v, StateInv(t, v, 0), Spare(t), GameServersInv(v), Kept, srv' = v,
         t.online = online, t.gamequeue = gamequeue, t.gq = gq, t.sqs = sqs,
         t.games = games, t.gs = gs, t.last = last,
         DOMAIN conns' = DOMAIN t.conns, \A k \in DOMAIN t.conns : conns'[k] = t.conns[k]
  PROVE  D2csInv'
<1> DEFINE u == State'
<1>1. /\ DOMAIN u = Fields
      /\ u.online = t.online /\ u.gamequeue = t.gamequeue /\ u.gq = t.gq /\ u.sqs = t.sqs
      /\ u.games = t.games /\ u.gs = t.gs /\ u.conns = conns' /\ u.last = t.last
  BY DEF State, Kept, Fields
<1> HIDE DEF u
<1>2. ServersInv(t)
  BY DEF StateInv
<1>3. ASSUME NEW j \in DOMAIN u.conns
      PROVE  /\ j \in DOMAIN t.conns /\ u.conns[j] = t.conns[j] /\ u.conns[j] \in Connections
             /\ FromFront(u.conns[j].in, t.conns[j].in)
             /\ FromFront(u.conns[j].out, t.conns[j].out)
  <2>1. j \in DOMAIN t.conns /\ u.conns[j] = t.conns[j] /\ t.conns[j] \in Connections
    BY <1>1, <1>2 DEF ServersInv
  <2>2. t.conns[j].in \in Seq(FromGs) /\ t.conns[j].out \in Seq(ToGs)
    BY <2>1 DEF Connections
  <2>3. Len(t.conns[j].in) \in Nat /\ Len(t.conns[j].out) \in Nat
    BY <2>2, SMTT(40)
  <2> QED BY <2>1, <2>3, Fronts
<1>4. Lessened(t, u)
  BY <1>1, <1>2, <1>3 DEF Lessened, ServersInv
<1>5. StateInv(u, v, 0) /\ Spare(u)
  BY <1>4, LessenedInv
<1>6. StateInv(State', srv', 0) /\ Spare(State') /\ GameServersInv(srv')
  BY <1>5 DEF u
<1> QED BY <1>6 DEF D2csInv

\* At most one connection leads to a server.
LEMMA OneLink ==
  ASSUME D2csInv, NEW a, NEW k \in Links(a)
  PROVE  /\ Links(a) = {k} /\ k \in DOMAIN conns /\ conns[k] \in Connections
         /\ conns[k].ip = a /\ conns[k].peer
<1>1. ServersInv(State)
  BY DEF D2csInv, StateInv
<1>2. /\ \A j \in DOMAIN conns : conns[j] \in Connections
      /\ \A i, j \in DOMAIN conns :
           conns[i].peer /\ conns[j].peer /\ conns[i].ip = conns[j].ip => i = j
  BY <1>1, StateFields DEF ServersInv
<1> QED BY <1>2 DEF Links

\* A packet to d2cs keeps the invariant, if what it says of a new game is so: that the
\* server was asked for it, and gave it its next number.
LEMMA TellKeeps ==
  ASSUME D2csInv, NEW a \in Ips, NEW p \in FromGs, NEW taken \in BOOLEAN,
         Tell(a, p, taken), Kept, GameServersInv(srv'),
         \A b \in Ips : srv[b].next <= srv'[b].next,
         \A k \in Links(a) : taken => conns[k].out # <<>>,
         p.op = "created" => /\ p.gid = srv[a].next /\ p.gid < srv'[a].next
                             /\ \A k \in Links(a) : Pending(State, 0, k, p.seqno)
  PROVE  D2csInv'
<1> DEFINE s == State
           w == srv'
<1>1. StateInv(s, srv, 0) /\ Spare(s) /\ GameServersInv(srv)
  BY DEF D2csInv
<1>0. /\ s.online = online /\ s.gamequeue = gamequeue /\ s.gq = gq /\ s.sqs = sqs
      /\ s.games = games /\ s.gs = gs /\ s.conns = conns /\ s.last = last
  BY StateFields
<1> HIDE DEF s, w
<1>2. ServersInv(s) /\ NumbersInv(s, srv, 0) /\ DOMAIN s = Fields
  BY <1>1 DEF StateInv
<1>3. StateInv(s, w, 0)
  <2>1. \A j \in DOMAIN s.conns :
          s.conns[j].peer => srv[s.conns[j].ip].next <= w[s.conns[j].ip].next
    BY <1>2 DEF ServersInv, Connections, w
  <2> QED BY <1>1, <2>1, ServersCount DEF w
<1>4. CASE Links(a) = {}
  <2>1. DOMAIN conns' = DOMAIN s.conns /\ \A k \in DOMAIN s.conns : conns'[k] = s.conns[k]
    BY <1>0, <1>4 DEF Tell
  <2> QED BY <1>0, <1>1, <1>3, <2>1, ConnsKeep DEF w
<1>5. CASE Links(a) # {}
  <2>1. PICK k : k \in Links(a)
    BY <1>5
  <2>2. /\ k \in DOMAIN s.conns /\ s.conns[k] \in Connections /\ s.conns[k].ip = a
        /\ s.conns[k].peer /\ \A j : j \in Links(a) <=> j = k
    BY <1>0, <2>1, OneLink
  <2> DEFINE c == s.conns[k]
             r == IF taken THEN [s EXCEPT !.conns[k].out = Tail(@)] ELSE s
             t == Reached(r, k, p)
  <2>3. /\ StateInv(r, w, 0) /\ r.online = s.online /\ r.gamequeue = s.gamequeue
        /\ r.gq = s.gq /\ r.sqs = s.sqs /\ r.games = s.games /\ r.gs = s.gs /\ r.last = s.last
    <3>1. CASE taken
      <4> DEFINE q == [s EXCEPT !.conns[k].out = Tail(@)]
      <4>1. s.conns[k].out # <<>>
        BY <1>0, <2>1, <3>1
      <4>2. Lessened(s, q) /\ StateInv(q, w, 0)
        BY <1>3, <2>2, <4>1, TakenInv
      <4>3. r = q
        BY <3>1
      <4> HIDE DEF r, q
      <4> QED BY <4>2, <4>3 DEF Lessened
    <3>2. CASE ~taken
      BY <1>3, <3>2
    <3> QED BY <3>1, <3>2
  <2>4. /\ DOMAIN r.conns = DOMAIN s.conns
        /\ r.conns[k] = [c EXCEPT !.out = IF taken THEN Tail(@) ELSE @]
        /\ \A j \in DOMAIN s.conns : j # k => r.conns[j] = s.conns[j]
    <3>1. CASE taken
      <4>1. r.conns = [s.conns EXCEPT ![k] = [c EXCEPT !.out = Tail(@)]]
        BY <1>2, <3>1 DEF Fields
      <4> QED BY <2>2, <3>1, <4>1
    <3>2. CASE ~taken
      BY <2>2, <3>2 DEF Connections
    <3> QED BY <3>1, <3>2
  <2> HIDE DEF r
  <2>5. /\ r.conns[k].in = c.in /\ r.conns[k].ip = a /\ r.conns[k].peer = c.peer
    BY <2>2, <2>4 DEF Connections
  <2>6. Fresh(r, w, k, p)
    <3> SUFFICES ASSUME p.op = "created" PROVE Fresh(r, w, k, p)
      BY DEF Fresh
    <3>1. p.gid = srv[a].next /\ p.gid < w[a].next /\ Pending(s, 0, k, p.seqno)
      BY <2>1 DEF s, w
    <3>2. Pending(r, 0, k, p.seqno)
      BY <2>3, <3>1, Zenon DEF Pending, Hosts
    <3>3. \A i \in DOMAIN s.games : s.games[i].created /\ Hosts(s, k, i) => s.games[i].gid < p.gid
      BY <1>2, <2>2, <3>1 DEF NumbersInv
    <3>4. p.gid \in Int /\ \A i \in DOMAIN s.games : s.games[i].gid \in Int
      BY <1>1, <3>1, BoundTypes DEF StateInv, GamesInv, Game, GameServersInv
    <3>5. \A i \in DOMAIN s.games : s.games[i].created /\ Hosts(s, k, i) => s.games[i].gid # p.gid
      BY <3>3, <3>4
    <3>6. Unused(r, w, k, p.gid)
      BY <2>3, <2>5, <3>1, <3>5 DEF Unused, Hosts
    <3>7. ASSUME NEW h \in Coming(r, k) PROVE r.conns[k].in[h].gid # p.gid
      <4>1. h \in Coming(s, k)
        BY <2>5 DEF Coming
      <4>2. s.conns[k].in[h].gid < srv[a].next
        BY <1>2, <2>2, <4>1 DEF NumbersInv, Unused
      <4>3. s.conns[k].in \in Seq(FromGs) /\ h \in 1..Len(s.conns[k].in)
            /\ s.conns[k].in[h].op = "created"
        BY <2>2, <4>1 DEF Connections, Coming
      <4>4. s.conns[k].in[h] \in FromGs
        BY <4>3, SMTT(40)
      <4>5. s.conns[k].in[h].gid \in Int
        BY <4>3, <4>4, SMTT(40) DEF FromGs
      <4>6. s.conns[k].in[h].gid # p.gid
        BY <3>1, <3>4, <4>2, <4>5
      <4> QED BY <2>5, <4>6
    <3> QED BY <3>2, <3>6, <3>7 DEF Fresh
  <2>7. k \in DOMAIN r.conns /\ DOMAIN r = Fields
    BY <2>2, <2>3, <2>4 DEF StateInv
  <2>8. StateInv(t, w, 0) /\ t.gq = r.gq /\ t.last = r.last
    BY <2>3, <2>6, <2>7, ReachedInv
  <2>9. /\ t.online = r.online /\ t.gamequeue = r.gamequeue /\ t.sqs = r.sqs
        /\ t.games = r.games /\ t.gs = r.gs
        /\ t.conns = [r.conns EXCEPT ![k] = [r.conns[k] EXCEPT !.in = Append(@, p)]]
    BY <2>7, SMTT(40) DEF Reached, Fields
  <2> HIDE DEF t
  <2>10. DOMAIN conns' = DOMAIN s.conns /\ \A j \in DOMAIN s.conns : j # k => conns'[j] = s.conns[j]
    BY <1>0, <2>2, ZenonT(60) DEF Tell
  <2>11. conns'[k] = [c EXCEPT !.in = Append(@, p), !.out = IF taken THEN Tail(@) ELSE @]
    BY <1>0, <2>2 DEF Tell
  <2>12. conns'[k] = t.conns[k]
    <3>1. t.conns[k] = [r.conns[k] EXCEPT !.in = Append(c.in, p)]
      BY <2>5, <2>7, <2>9
    <3> DEFINE i == Append(c.in, p)
               o == IF taken THEN Tail(c.out) ELSE c.out
    <3>2. conns'[k] = [c EXCEPT !.in = i, !.out = o] /\ r.conns[k] = [c EXCEPT !.out = o]
      BY <2>4, <2>11
    <3>3. t.conns[k] = [[c EXCEPT !.out = o] EXCEPT !.in = i]
      BY <3>1, <3>2
    <3> HIDE DEF i, o
    <3>4. c = [d2gs |-> c.d2gs, ip |-> c.ip, authed |-> c.authed, peer |-> c.peer,
               in |-> c.in, out |-> c.out]
      BY <2>2 DEF Connections
    <3> HIDE DEF c
    <3>5. conns'[k] = [d2gs |-> c.d2gs, ip |-> c.ip, authed |-> c.authed, peer |-> c.peer,
                       in |-> i, out |-> o]
      BY <3>2, <3>4
    <3>6. t.conns[k] = [d2gs |-> c.d2gs, ip |-> c.ip, authed |-> c.authed, peer |-> c.peer,
                        in |-> i, out |-> o]
      BY <3>3, <3>4
    <3> QED BY <3>5, <3>6
  <2>13. DOMAIN conns' = DOMAIN t.conns /\ \A j \in DOMAIN t.conns : conns'[j] = t.conns[j]
    BY <2>4, <2>9, <2>10, <2>12
  <2>14. Spare(t)
    BY <1>1, <2>3, <2>8 DEF Spare
  <2> QED BY <1>0, <2>3, <2>8, <2>9, <2>13, <2>14, ConnsKeep DEF w
<1> QED BY <1>4, <1>5

\* What a server reads next, when it was asked for something.
LEMMA RequestFacts ==
  ASSUME D2csInv, NEW a \in Ips, NEW op, Asked(a, op)
  PROVE  LET r == Request(a)
         IN  /\ r \in ToGs /\ r.op = op /\ \A k \in Links(a) : conns[k].out # <<>>
             /\ op = "create" => \A k \in Links(a) : Pending(State, 0, k, r.seqno)
<1>1. PICK k \in Links(a) : conns[k].out # <<>> /\ Head(conns[k].out).op = op
  BY DEF Asked
<1>2. /\ Links(a) = {k} /\ k \in DOMAIN conns /\ conns[k] \in Connections
  BY OneLink
<1>3. Request(a) = Head(conns[k].out)
  BY <1>2 DEF Request
<1> DEFINE q == conns[k].out
<1>4. q \in Seq(ToGs) /\ q # <<>>
  BY <1>1, <1>2 DEF Connections
<1>5. Head(q) \in ToGs /\ Head(q) = q[1] /\ 1 \in 1..Len(q)
  <2> HIDE DEF q
  <2> QED BY <1>4
<1>6. op = "create" => Pending(State, 0, k, q[1].seqno)
  <2>1. NumbersInv(State, srv, 0)
    BY DEF D2csInv, StateInv
  <2> QED BY <1>1, <1>2, <1>5, <2>1, StateFields DEF NumbersInv
<1> QED BY <1>1, <1>2, <1>3, <1>5, <1>6

\* A new connection keeps the invariant.
LEMMA GsConnectKeeps ==
  ASSUME D2csInv, NEW a \in Ips, NEW k \in Conns, GsConnect(k, a)
  PROVE  D2csInv'
<1> DEFINE s == State
           t == State'
<1>1. StateInv(s, srv, 0) /\ Spare(s) /\ GameServersInv(srv)
  BY DEF D2csInv
<1>0. /\ s.online = online /\ s.gamequeue = gamequeue /\ s.gq = gq /\ s.sqs = sqs
      /\ s.games = games /\ s.gs = gs /\ s.conns = conns /\ s.last = last
  BY StateFields
<1>2. PICK g \in DOMAIN gs :
        conns' = With(conns, k, [d2gs |-> g, ip |-> a, authed |-> FALSE, peer |-> TRUE,
                                 in |-> <<[op |-> "auth"]>>, out |-> <<>>])
  BY DEF GsConnect
<1> DEFINE c == [d2gs |-> g, ip |-> a, authed |-> FALSE, peer |-> TRUE,
                 in |-> <<[op |-> "auth"]>>, out |-> <<>>]
<1>3. k \notin DOMAIN s.conns /\ Links(a) = {} /\ srv' = srv /\ g \in DOMAIN s.gs
  BY <1>0 DEF GsConnect
<1>4. /\ DOMAIN t = Fields /\ t.conns = With(s.conns, k, c)
      /\ t.online = s.online /\ t.gamequeue = s.gamequeue /\ t.gq = s.gq /\ t.sqs = s.sqs
      /\ t.games = s.games /\ t.gs = s.gs /\ t.last = s.last
  BY <1>2 DEF GsConnect, Kept, State, Fields
<1>5. \A j \in DOMAIN s.conns : s.conns[j].ip = a => ~s.conns[j].peer
  BY <1>0, <1>3 DEF Links
<1> HIDE DEF s, t
<1>6. /\ DOMAIN s = Fields /\ QueueInv(s) /\ LastInv(s) /\ RequestsInv(s) /\ ServersInv(s)
      /\ GamesInv(s, 0) /\ NumbersInv(s, srv, 0)
  BY <1>1 DEF StateInv
<1>7. /\ c.d2gs = g /\ c.ip = a /\ c.peer = TRUE /\ Len(c.in) = 1 /\ c.in[1].op = "auth"
      /\ Len(c.out) = 0
  OBVIOUS
<1>8. c \in Connections
  <2>1. g \in 1..MaxGsId
    BY <1>3, <1>6, BoundTypes DEF ServersInv, LastInv
  <2>2. [op |-> "auth"] \in FromGs
    BY DEF FromGs
  <2>3. <<[op |-> "auth"]>> \in Seq(FromGs)
    BY <2>2
  <2>4. <<>> \in Seq(ToGs)
    OBVIOUS
  <2> QED BY <2>1, <2>3, <2>4 DEF Connections
<1> HIDE DEF c
<1>9. /\ DOMAIN t.conns = DOMAIN s.conns \cup {k} /\ t.conns[k] = c
      /\ \A j \in DOMAIN s.conns : t.conns[j] = s.conns[j]
  BY <1>3, <1>4 DEF With
<1>10. QueueInv(t) /\ LastInv(t) /\ RequestsInv(t)
  <2>1. QueueInv(t)
    BY <1>4, <1>6 DEF QueueInv
  <2>2. LastInv(t)
    BY <1>4, <1>6 DEF LastInv
  <2>3. RequestsInv(t)
    BY <1>4, <1>6 DEF RequestsInv
  <2> QED BY <2>1, <2>2, <2>3
<1>11. \A h \in DOMAIN s.gs : s.gs[h].conn # k
  BY <1>3, <1>6, BoundTypes DEF ServersInv
<1>12. ServersInv(t)
  <2>1. DOMAIN t.gs \subseteq 1..t.last.d2gs /\ \A h \in DOMAIN t.gs : t.gs[h] \in D2gs
    BY <1>4, <1>6 DEF ServersInv
  <2>2. \A h \in DOMAIN t.gs : t.gs[h].conn # NoConn =>
          t.gs[h].conn \in DOMAIN t.conns /\ t.conns[t.gs[h].conn].d2gs = h
    BY <1>4, <1>6, <1>9 DEF ServersInv
  <2>3. \A i, j \in DOMAIN t.conns :
          t.conns[i].peer /\ t.conns[j].peer /\ t.conns[i].ip = t.conns[j].ip => i = j
    <3> SUFFICES ASSUME NEW i \in DOMAIN t.conns, NEW j \in DOMAIN t.conns,
                        t.conns[i].peer, t.conns[j].peer, t.conns[i].ip = t.conns[j].ip
                 PROVE  i = j
      OBVIOUS
    <3>1. CASE i = k
      BY <1>5, <1>7, <1>9, <3>1
    <3>2. CASE j = k
      BY <1>5, <1>7, <1>9, <3>2
    <3>3. CASE i # k /\ j # k
      BY <1>6, <1>9, <3>3 DEF ServersInv
    <3> QED BY <3>1, <3>2, <3>3
  <2>4. DOMAIN t.conns \subseteq Conns /\ \A j \in DOMAIN t.conns : t.conns[j] \in Connections
    BY <1>6, <1>8, <1>9, SMTT(40) DEF ServersInv
  <2> QED BY <2>1, <2>2, <2>3, <2>4 DEF ServersInv
<1>13. GamesInv(t, 0)
  BY <1>4, <1>6 DEF GamesInv, Active, GamesOn
<1>14. NumbersInv(t, srv, 0)
  <2>1. /\ \A h, i : Hosts(t, h, i) = Hosts(s, h, i)
        /\ \A h, m : Pending(t, 0, h, m) = Pending(s, 0, h, m)
    <3>1. \A h, i : Hosts(t, h, i) = Hosts(s, h, i)
      BY <1>4 DEF Hosts
    <3> QED BY <1>4, <3>1 DEF Pending
  <2>2. \A h \in DOMAIN s.conns : \A m : Unused(t, srv, h, m) = Unused(s, srv, h, m)
    BY <1>4, <1>9, <2>1 DEF Unused
  <2>3. \A h \in DOMAIN s.conns : Coming(t, h) = Coming(s, h)
    BY <1>9 DEF Coming
  <2>4. Coming(t, k) = {}
    BY <1>7, <1>9 DEF Coming
  <2>5. ASSUME NEW h \in DOMAIN t.conns, NEW j \in Coming(t, h)
        PROVE  /\ Pending(t, 0, h, t.conns[h].in[j].seqno)
               /\ Unused(t, srv, h, t.conns[h].in[j].gid)
               /\ \A l \in Coming(t, h) : t.conns[h].in[l].gid = t.conns[h].in[j].gid => l = j
    <3>1. h \in DOMAIN s.conns /\ t.conns[h] = s.conns[h]
      BY <1>9, <2>4
    <3> QED BY <1>6, <2>1, <2>2, <2>3, <3>1 DEF NumbersInv
  <2>6. ASSUME NEW h \in DOMAIN t.conns, NEW j \in 1..Len(t.conns[h].out),
               t.conns[h].out[j].op = "create"
        PROVE  Pending(t, 0, h, t.conns[h].out[j].seqno)
    <3>1. h \in DOMAIN s.conns /\ t.conns[h] = s.conns[h]
      BY <1>7, <1>9
    <3> QED BY <1>6, <2>1, <2>6, <3>1 DEF NumbersInv
  <2>7. ASSUME NEW h \in DOMAIN t.conns, NEW i \in DOMAIN t.games,
               t.games[i].created, Hosts(t, h, i), t.conns[h].peer
        PROVE  t.games[i].gid < srv[t.conns[h].ip].next
    <3>1. Hosts(s, h, i) /\ i \in DOMAIN s.games /\ s.games[i].d2gs \in DOMAIN s.gs
      BY <1>4, <1>6, <2>1, <2>7 DEF GamesInv
    <3>2. h # k
      BY <1>11, <3>1 DEF Hosts
    <3>3. h \in DOMAIN s.conns /\ t.conns[h] = s.conns[h]
      BY <1>9, <3>2
    <3> QED BY <1>4, <1>6, <2>7, <3>1, <3>3 DEF NumbersInv
  <2>8. \A i, j \in DOMAIN t.games :
          t.games[i].created /\ t.games[j].created /\ t.games[i].d2gs = t.games[j].d2gs
          /\ t.games[i].gid = t.games[j].gid => i = j
    BY <1>4, <1>6 DEF NumbersInv
  <2> QED BY <2>5, <2>6, <2>7, <2>8 DEF NumbersInv
<1>15. StateInv(t, srv, 0) /\ Spare(t)
  <2>1. Spare(t)
    BY <1>1, <1>4 DEF Spare
  <2> QED BY <1>4, <1>10, <1>12, <1>13, <1>14, <2>1 DEF StateInv
<1>16. StateInv(State', srv', 0) /\ Spare(State') /\ GameServersInv(srv')
  BY <1>1, <1>3, <1>15 DEF t
<1> QED BY <1>16 DEF D2csInv

\* What a server may be.
ServerOK(e) ==
  /\ DOMAIN e = {"next", "games"} /\ e.next \in 1..MaxGid + 1
  /\ DOMAIN e.games \subseteq 1..MaxGid
  /\ \A i \in DOMAIN e.games : e.games[i] \in ServerGame

Becomes(v, w, a, e) == w = [v EXCEPT ![a] = e]

\* One server changes, and does not count back.
LEMMA ServerChanged ==
  ASSUME NEW v, NEW w, NEW a \in Ips, NEW e, GameServersInv(v), ServerOK(e), Becomes(v, w, a, e)
  PROVE  /\ GameServersInv(w)
         /\ v[a].next <= e.next => \A b \in Ips : v[b].next <= w[b].next
<1>1. DOMAIN w = Ips /\ w[a] = e /\ \A b \in Ips : b # a => w[b] = v[b]
  BY DEF GameServersInv, Becomes
<1>2. GameServersInv(w)
  BY <1>1 DEF GameServersInv, ServerOK
<1>3. \A b \in Ips : v[b].next \in Int
  BY BoundTypes DEF GameServersInv
<1>4. v[a].next <= e.next => \A b \in Ips : v[b].next <= w[b].next
  BY <1>1, <1>3
<1> QED BY <1>1, <1>2, <1>4

\* The games of a server change, with its numbers as they are.
LEMMA ServerGamesChanged ==
  ASSUME D2csInv, NEW a \in Ips, NEW f, DOMAIN f \subseteq 1..MaxGid,
         \A i \in DOMAIN f : f[i] \in ServerGame, srv' = [srv EXCEPT ![a].games = f]
  PROVE  GameServersInv(srv') /\ \A b \in Ips : srv[b].next <= srv'[b].next
<1> DEFINE e == [srv[a] EXCEPT !.games = f]
           v == srv
           w == srv'
<1>1. GameServersInv(v)
  BY DEF D2csInv
<1>2. Becomes(v, w, a, e)
  BY DEF Becomes
<1>3. DOMAIN v[a] = {"next", "games"} /\ v[a].next \in 1..MaxGid + 1
  BY <1>1 DEF GameServersInv
<1>4. DOMAIN e = {"next", "games"} /\ e.next = v[a].next /\ e.games = f
  BY <1>3
<1> HIDE DEF e
<1>5. ServerOK(e) /\ v[a].next <= e.next
  <2>1. v[a].next \in Int
    BY <1>3, BoundTypes
  <2> QED BY <1>3, <1>4, <2>1 DEF ServerOK
<1> HIDE DEF v, w
<1>6. GameServersInv(w) /\ \A b \in Ips : v[b].next <= w[b].next
  BY <1>1, <1>2, <1>5, ServerChanged
<1> QED BY <1>6 DEF v, w

\* A packet about nothing new keeps the invariant.
LEMMA GsInfoKeeps ==
  ASSUME D2csInv, NEW a \in Ips, NEW m \in MaxGames, GsInfo(a, m)
  PROVE  D2csInv'
<1> DEFINE p == [op |-> "info", maxgame |-> m]
<1>1. p \in FromGs /\ p.op # "created"
  BY DEF FromGs
<1>2. Tell(a, p, FALSE) /\ Kept /\ srv' = srv
  BY DEF GsInfo
<1>3. GameServersInv(srv') /\ \A b \in Ips : srv[b].next <= srv'[b].next
  <2>1. GameServersInv(srv)
    BY DEF D2csInv
  <2>2. \A b \in Ips : srv[b].next \in Int
    BY <2>1, BoundTypes DEF GameServersInv
  <2>3. GameServersInv(srv')
    BY <1>2, <2>1
  <2> QED BY <1>2, <2>2, <2>3
<1> HIDE DEF p
<1> QED BY <1>1, <1>2, <1>3, TellKeeps

\* The making of a game, or the failure of it, keeps the invariant.
LEMMA GsCreateKeeps ==
  ASSUME D2csInv, NEW a \in Ips, GsCreate(a)
  PROVE  D2csInv'
<1> DEFINE r == Request(a)
           n == srv[a].next
<1>1. /\ r \in ToGs /\ \A k \in Links(a) : conns[k].out # <<>> /\ Pending(State, 0, k, r.seqno)
      /\ Kept
  BY RequestFacts DEF GsCreate
<1>2. r.seqno \in 1..MaxSeqno
  BY <1>1 DEF ToGs
<1>3. GameServersInv(srv)
  BY DEF D2csInv
<1>4. DOMAIN srv[a] = {"next", "games"} /\ n \in 1..MaxGid + 1 /\ n \in Int
  BY <1>3, BoundTypes DEF GameServersInv
<1>5. \A b \in Ips : srv[b].next \in Int
  BY <1>3, BoundTypes DEF GameServersInv
<1>6. CASE /\ n <= MaxGid
           /\ srv' = [srv EXCEPT ![a].games = With(@, n, [chars |-> {}, coming |-> {}]),
                                 ![a].next = @ + 1]
           /\ Tell(a, [op |-> "created", seqno |-> r.seqno, gid |-> n], TRUE)
  <2> DEFINE p == [op |-> "created", seqno |-> r.seqno, gid |-> n]
             h == [chars |-> {}, coming |-> {}]
             f == With(srv[a].games, n, h)
             e == [srv[a] EXCEPT !.games = f, !.next = n + 1]
  <2>1. p \in FromGs /\ p.op = "created" /\ p.gid = n /\ p.seqno = r.seqno /\ Tell(a, p, TRUE)
    <3>1. n \in 1..MaxGid
      BY <1>4, <1>6, BoundTypes
    <3> HIDE DEF n, r
    <3> QED BY <1>2, <1>6, <3>1 DEF FromGs
  <2>2. srv' = [srv EXCEPT ![a] = e]
    BY <1>3, <1>4, <1>6 DEF GameServersInv
  <2>3. DOMAIN e = {"next", "games"} /\ e.next = n + 1 /\ e.games = f
    BY <1>4
  <2>4. DOMAIN f \subseteq 1..MaxGid /\ \A i \in DOMAIN f : f[i] \in ServerGame
    <3>1. n \in 1..MaxGid
      BY <1>4, <1>6, BoundTypes
    <3>2. h \in ServerGame
      BY DEF ServerGame
    <3> HIDE DEF h, n
    <3> QED BY <1>3, <3>1, <3>2 DEF With, GameServersInv
  <2>5. n + 1 \in 1..MaxGid + 1 /\ n <= n + 1 /\ n < n + 1
    BY <1>4, <1>6, BoundTypes
  <2> HIDE DEF e, f
  <2>6. ServerOK(e) /\ srv[a].next <= e.next /\ srv[a].next < e.next
    BY <2>3, <2>4, <2>5 DEF ServerOK
  <2>7. GameServersInv(srv') /\ srv'[a] = e /\ \A b \in Ips : srv[b].next <= srv'[b].next
    <3> DEFINE v == srv
               w == srv'
    <3>1. GameServersInv(v) /\ Becomes(v, w, a, e) /\ v[a].next <= e.next
      BY <1>3, <2>2, <2>6 DEF Becomes
    <3> HIDE DEF v, w
    <3>a. GameServersInv(v) /\ ServerOK(e) /\ Becomes(v, w, a, e)
      BY <2>6, <3>1
    <3>b. GameServersInv(w) /\ \A b \in Ips : v[b].next <= w[b].next
      BY <3>1, <3>a, ServerChanged
    <3>c. w[a] = e
      BY <3>a DEF Becomes, GameServersInv
    <3>2. GameServersInv(w) /\ w[a] = e /\ \A b \in Ips : v[b].next <= w[b].next
      BY <3>b, <3>c
    <3> QED BY <3>2 DEF v, w
  <2>8. p.gid = srv[a].next /\ p.gid < srv'[a].next /\ TRUE \in BOOLEAN
    BY <2>1, <2>6, <2>7
  <2>9. \A k \in Links(a) : Pending(State, 0, k, p.seqno)
    BY <1>1, <2>1
  <2>10. \A k \in Links(a) : TRUE => conns[k].out # <<>>
    BY <1>1
  <2> HIDE DEF p, r, n
  <2> QED BY <1>1, <2>1, <2>7, <2>8, <2>9, <2>10, TellKeeps
<1>7. CASE srv' = srv /\ Tell(a, [op |-> "failed", seqno |-> r.seqno], TRUE)
  <2> DEFINE p == [op |-> "failed", seqno |-> r.seqno]
  <2>1. p \in FromGs /\ p.op # "created" /\ Tell(a, p, TRUE)
    <3> HIDE DEF r
    <3> QED BY <1>2, <1>7 DEF FromGs
  <2>2. GameServersInv(srv')
    BY <1>3, <1>7
  <2>3. \A b \in Ips : srv[b].next <= srv'[b].next
    BY <1>5, <1>7
  <2>4. TRUE \in BOOLEAN /\ \A k \in Links(a) : TRUE => conns[k].out # <<>>
    BY <1>1, SMTT(40)
  <2> HIDE DEF p, r
  <2> QED BY <1>1, <2>1, <2>2, <2>3, <2>4, TellKeeps
<1> QED BY <1>6, <1>7 DEF GsCreate

\* A character let in, or not, keeps the invariant.
LEMMA GsJoinKeeps ==
  ASSUME D2csInv, NEW a \in Ips, GsJoin(a)
  PROVE  D2csInv'
<1> DEFINE r == Request(a)
           p == [op |-> "joined", seqno |-> r.seqno]
<1>1. /\ r \in ToGs /\ r.op = "join" /\ \A k \in Links(a) : conns[k].out # <<>>
      /\ Kept /\ Tell(a, p, TRUE)
      /\ srv' = IF GameAt(a, r.gid)
                THEN [srv EXCEPT ![a].games[r.gid].coming = @ \cup {r.char}] ELSE srv
  BY RequestFacts DEF GsJoin
<1> HIDE DEF r
<1>2. r.seqno \in 1..MaxSeqno /\ r.char \in Chars
  BY <1>1 DEF ToGs
<1>3. p \in FromGs /\ p.op # "created"
  BY <1>2 DEF FromGs
<1>4. GameServersInv(srv)
  BY DEF D2csInv
<1>5. GameServersInv(srv') /\ \A b \in Ips : srv[b].next <= srv'[b].next
  <2>1. CASE GameAt(a, r.gid)
    <3> DEFINE i == r.gid
               o == [srv[a].games[i] EXCEPT !.coming = @ \cup {r.char}]
               f == [srv[a].games EXCEPT ![i] = o]
    <3>1. srv' = [srv EXCEPT ![a].games = f]
      BY <1>1, <2>1
    <3>2. i \in DOMAIN srv[a].games /\ srv[a].games[i] \in ServerGame
      BY <1>4, <2>1 DEF GameAt, GameServersInv
    <3>3. o \in ServerGame
      BY <1>2, <3>2 DEF ServerGame
    <3> HIDE DEF o, i
    <3>4. DOMAIN f \subseteq 1..MaxGid /\ \A j \in DOMAIN f : f[j] \in ServerGame
      BY <1>4, <3>3 DEF GameServersInv
    <3> HIDE DEF f
    <3> QED BY <3>1, <3>4, ServerGamesChanged
  <2>2. CASE ~GameAt(a, r.gid)
    <3>1. srv' = srv
      BY <1>1, <2>2
    <3>2. \A b \in Ips : srv[b].next \in Int
      BY <1>4, BoundTypes DEF GameServersInv
    <3>3. GameServersInv(srv')
      BY <1>4, <3>1
    <3> QED BY <3>1, <3>2, <3>3
  <2> QED BY <2>1, <2>2
<1>6. TRUE \in BOOLEAN /\ \A k \in Links(a) : TRUE => conns[k].out # <<>>
  BY <1>1
<1> HIDE DEF p
<1> QED BY <1>1, <1>3, <1>5, <1>6, TellKeeps

\* Characters that come and go, and the end of a game, keep the invariant.
LEMMA GsGameKeeps ==
  ASSUME D2csInv, NEW a \in Ips, NEW i \in DOMAIN srv[a].games, NEW c,
         (c \in Chars /\ (GsEnter(a, i, c) \/ GsLeave(a, i, c))) \/ GsClose(a, i)
  PROVE  D2csInv'
<1> DEFINE h == srv[a].games[i]
<1>1. GameServersInv(srv)
  BY DEF D2csInv
<1>2. i \in 1..MaxGid /\ h \in ServerGame
  BY <1>1 DEF GameServersInv
<1>3. CASE c \in Chars /\ GsEnter(a, i, c)
  <2> DEFINE p == [op |-> "enter", gid |-> i, char |-> c]
             o == [chars |-> h.chars \cup {c}, coming |-> h.coming \ {c}]
             f == [srv[a].games EXCEPT ![i] = o]
  <2>1. p \in FromGs /\ p.op # "created" /\ Tell(a, p, FALSE) /\ Kept
    BY <1>2, <1>3 DEF FromGs, GsEnter
  <2>2. srv' = [srv EXCEPT ![a].games = f]
    BY <1>3 DEF GsEnter
  <2>3. o \in ServerGame
    BY <1>2, <1>3 DEF ServerGame
  <2> HIDE DEF o, p
  <2>4. DOMAIN f \subseteq 1..MaxGid /\ \A j \in DOMAIN f : f[j] \in ServerGame
    BY <1>1, <2>3 DEF GameServersInv
  <2> HIDE DEF f
  <2>5. GameServersInv(srv') /\ \A b \in Ips : srv[b].next <= srv'[b].next
    BY <2>2, <2>4, ServerGamesChanged
  <2> QED BY <2>1, <2>5, TellKeeps
<1>4. CASE c \in Chars /\ GsLeave(a, i, c)
  <2> DEFINE p == [op |-> "leave", gid |-> i, char |-> c]
             o == [h EXCEPT !.chars = @ \ {c}]
             f == [srv[a].games EXCEPT ![i] = o]
  <2>1. p \in FromGs /\ p.op # "created" /\ Tell(a, p, FALSE) /\ Kept
    BY <1>2, <1>4 DEF FromGs, GsLeave
  <2>2. srv' = [srv EXCEPT ![a].games = f]
    BY <1>4 DEF GsLeave
  <2>3. o \in ServerGame
    BY <1>2 DEF ServerGame
  <2> HIDE DEF o, p
  <2>4. DOMAIN f \subseteq 1..MaxGid /\ \A j \in DOMAIN f : f[j] \in ServerGame
    BY <1>1, <2>3 DEF GameServersInv
  <2> HIDE DEF f
  <2>5. GameServersInv(srv') /\ \A b \in Ips : srv[b].next <= srv'[b].next
    BY <2>2, <2>4, ServerGamesChanged
  <2> QED BY <2>1, <2>5, TellKeeps
<1>5. CASE GsClose(a, i)
  <2> DEFINE p == [op |-> "close", gid |-> i]
             f == Without(srv[a].games, i)
  <2>1. p \in FromGs /\ p.op # "created" /\ Tell(a, p, FALSE) /\ Kept
    BY <1>2, <1>5 DEF FromGs, GsClose
  <2>2. srv' = [srv EXCEPT ![a].games = f]
    BY <1>5 DEF GsClose
  <2> HIDE DEF p
  <2>3. DOMAIN f \subseteq 1..MaxGid /\ \A j \in DOMAIN f : f[j] \in ServerGame
    BY <1>1 DEF GameServersInv, Without
  <2> HIDE DEF f
  <2>4. GameServersInv(srv') /\ \A b \in Ips : srv[b].next <= srv'[b].next
    BY <2>2, <2>3, ServerGamesChanged
  <2> QED BY <2>1, <2>4, TellKeeps
<1> QED BY <1>3, <1>4, <1>5

\* A server that hangs up or starts again keeps the invariant.
LEMMA GsGoneKeeps ==
  ASSUME D2csInv, NEW a \in Ips, GsDrop(a) \/ GsRestart(a)
  PROVE  D2csInv'
<1> DEFINE s == State
           t == State'
           w == srv'
<1>1. StateInv(s, srv, 0) /\ Spare(s) /\ GameServersInv(srv)
  BY DEF D2csInv
<1>2. HangUp(a) /\ Kept
  BY DEF GsDrop, GsRestart
<1>3. /\ s.conns = conns /\ t.conns = conns' /\ DOMAIN t = Fields
      /\ t.online = s.online /\ t.gamequeue = s.gamequeue /\ t.gq = s.gq /\ t.sqs = s.sqs
      /\ t.games = s.games /\ t.gs = s.gs /\ t.last = s.last
  BY <1>2 DEF Kept, State, Fields
<1> HIDE DEF s, t, w
<1>4. ServersInv(s)
  BY <1>1 DEF StateInv
<1>5. ASSUME NEW j \in DOMAIN t.conns
      PROVE  /\ j \in DOMAIN s.conns /\ t.conns[j] \in Connections
             /\ t.conns[j].d2gs = s.conns[j].d2gs /\ t.conns[j].ip = s.conns[j].ip
             /\ t.conns[j].peer => s.conns[j].peer /\ s.conns[j].ip # a
             /\ FromFront(t.conns[j].in, s.conns[j].in)
             /\ FromFront(t.conns[j].out, s.conns[j].out)
  <2>1. j \in DOMAIN s.conns
    BY <1>2, <1>3 DEF HangUp
  <2>2. s.conns[j] \in Connections
    BY <1>4, <2>1 DEF ServersInv
  <2>3. s.conns[j].in \in Seq(FromGs) /\ s.conns[j].out \in Seq(ToGs)
    BY <2>2 DEF Connections
  <2>4. Len(s.conns[j].in) \in Nat /\ Len(s.conns[j].out) \in Nat
    BY <2>3, SMTT(40)
  <2>5. /\ FromFront(s.conns[j].in, s.conns[j].in) /\ FromFront(s.conns[j].out, s.conns[j].out)
        /\ FromFront(<<>>, s.conns[j].out)
    BY <2>4, Fronts
  <2>6. CASE j \in Links(a)
    <3> DEFINE c == [s.conns[j] EXCEPT !.peer = FALSE, !.out = <<>>]
    <3>1. t.conns[j] = c
      BY <1>2, <1>3, <2>1, <2>6 DEF HangUp
    <3>2. <<>> \in Seq(ToGs)
      OBVIOUS
    <3>3. /\ c \in Connections /\ c.d2gs = s.conns[j].d2gs /\ c.ip = s.conns[j].ip
          /\ c.peer = FALSE /\ c.in = s.conns[j].in /\ c.out = <<>>
      BY <2>2, <3>2 DEF Connections
    <3> QED BY <2>1, <2>5, <3>1, <3>3
  <2>7. CASE j \notin Links(a)
    <3>1. t.conns[j] = s.conns[j]
      BY <1>2, <1>3, <2>1, <2>7, ZenonT(60) DEF HangUp
    <3> QED BY <1>3, <2>1, <2>2, <2>5, <2>7, <3>1 DEF Links
  <2> QED BY <2>6, <2>7
<1>6. DOMAIN t.conns = DOMAIN s.conns
  BY <1>2, <1>3 DEF HangUp
<1>7. Lessened(s, t)
  BY <1>3, <1>4, <1>5, <1>6 DEF Lessened, ServersInv
<1>8. StateInv(t, srv, 0) /\ Spare(t)
  BY <1>1, <1>7, LessenedInv
<1>9. GameServersInv(w) /\ \A b \in Ips : b # a => srv[b] = w[b]
  <2>1. CASE w = srv
    BY <1>1, <2>1
  <2>2. CASE w = [srv EXCEPT ![a] = [next |-> 1, games |-> <<>>]]
    <3> DEFINE e == [next |-> 1, games |-> <<>>]
    <3>1. DOMAIN e = {"next", "games"} /\ e.next = 1 /\ e.games = <<>>
      OBVIOUS
    <3>2. DOMAIN <<>> = {} /\ 1 \in 1..MaxGid + 1
      BY BoundTypes
    <3>3. ServerOK(e)
      BY <3>1, <3>2 DEF ServerOK
    <3> HIDE DEF e
    <3>4. Becomes(srv, w, a, e)
      BY <2>2 DEF e, Becomes
    <3> DEFINE v == srv
    <3>5. GameServersInv(v) /\ ServerOK(e) /\ Becomes(v, w, a, e)
      BY <1>1, <3>3, <3>4
    <3> HIDE DEF v
    <3>6. GameServersInv(w)
      BY <3>5, ServerChanged
    <3>7. \A b \in Ips : b # a => w[b] = v[b]
      BY <3>5 DEF Becomes, GameServersInv
    <3> QED BY <3>6, <3>7 DEF v
  <2> QED BY <2>1, <2>2 DEF GsDrop, GsRestart, w
<1>10. StateInv(t, w, 0)
  <2>1. \A j \in DOMAIN t.conns :
          t.conns[j].peer => srv[t.conns[j].ip].next <= w[t.conns[j].ip].next
    <3> SUFFICES ASSUME NEW j \in DOMAIN t.conns, t.conns[j].peer
                 PROVE  srv[t.conns[j].ip].next <= w[t.conns[j].ip].next
      OBVIOUS
    <3> DEFINE b == t.conns[j].ip
    <3>1. b \in Ips /\ b # a
      BY <1>5 DEF Connections
    <3>2. srv[b].next \in Int
      BY <1>1, <3>1, BoundTypes DEF GameServersInv
    <3>3. srv[b] = w[b]
      BY <1>9, <3>1
    <3> HIDE DEF b
    <3>4. srv[b].next <= w[b].next
      BY <3>2, <3>3
    <3> QED BY <3>4 DEF b
  <2> QED BY <1>1, <1>8, <1>9, <2>1, ServersCount
<1>11. StateInv(State', srv', 0) /\ Spare(State') /\ GameServersInv(srv')
  BY <1>8, <1>9, <1>10 DEF t, w
<1> QED BY <1>11 DEF D2csInv

\* What a game server does keeps the invariant.
LEMMA GameServerKeeps ==
  ASSUME D2csInv, NEW a \in Ips, GameServer(a)
  PROVE  D2csInv'
<1>1. ASSUME NEW k \in Conns, GsConnect(k, a) PROVE D2csInv'
  BY <1>1, GsConnectKeeps
<1>2. ASSUME NEW m \in MaxGames, GsInfo(a, m) PROVE D2csInv'
  BY <1>2, GsInfoKeeps
<1>3. ASSUME NEW i \in DOMAIN srv[a].games, NEW c \in Chars, GsEnter(a, i, c) \/ GsLeave(a, i, c)
      PROVE  D2csInv'
  BY <1>3, GsGameKeeps
<1>4. ASSUME NEW i \in DOMAIN srv[a].games, GsClose(a, i) PROVE D2csInv'
  BY <1>4, GsGameKeeps
<1>5. GsCreate(a) \/ GsJoin(a) \/ GsDrop(a) \/ GsRestart(a) => D2csInv'
  BY GsCreateKeeps, GsJoinKeeps, GsGoneKeeps
<1> QED BY <1>1, <1>2, <1>3, <1>4, <1>5 DEF GameServer

\* No step breaks the invariant.
LEMMA NextKeeps ==
  ASSUME D2csInv, [Next]_vars
  PROVE  D2csInv'
<1>1. ASSUME NEW u \in Clients, Client(u) PROVE D2csInv'
  BY <1>1, ClientKeeps
<1>2. ASSUME NEW k \in Conns, ServerPacket(k) \/ ServerConnGone(k) PROVE D2csInv'
  BY <1>2, ServerPacketKeeps
<1>3. SqTimeout \/ (\E S \in SUBSET DOMAIN games : check_voidgame(S)) => D2csInv'
  BY TimersKeep
<1>4. ASSUME NEW g \in DOMAIN gs, DropServer(g) PROVE D2csInv'
  BY <1>4, DropServerKeeps
<1>5. ASSUME NEW a \in Ips, AddServer(a) PROVE D2csInv'
  BY <1>5, AddServerKeeps
<1>6. ASSUME NEW a \in Ips, GameServer(a) PROVE D2csInv'
  BY <1>6, GameServerKeeps
<1>7. CASE UNCHANGED vars
  <2>1. State' = State /\ srv' = srv
    BY <1>7 DEF State, vars
  <2>2. StateInv(State', srv', 0) /\ Spare(State') /\ GameServersInv(srv')
    BY <2>1 DEF D2csInv
  <2> QED BY <2>2 DEF D2csInv
<1> QED BY <1>1, <1>2, <1>3, <1>4, <1>5, <1>6, <1>7 DEF Next

\* d2cs starts with no game, no player and no connection: the invariant holds.
LEMMA InitKeeps ==
  ASSUME Init
  PROVE  D2csInv
<1> DEFINE s == State
           ips == SetToSeq(Ips)
           n == Cardinality(Ips)
<1>1. ips \in Seq(Ips) /\ Len(ips) <= n /\ n \in 0..MaxGsId /\ Len(ips) \in Nat /\ MaxGsId \in Nat
  <2>1. ips \in Seq(Ips) /\ IsInjective(ips)
    BY BoundTypes, SetAsList
  <2> HIDE DEF ips
  <2>2. Len(ips) <= n /\ n \in Nat
    BY <2>1, BoundTypes, LengthBound
  <2> QED BY <2>1, <2>2, BoundTypes
<1>2. /\ DOMAIN s = Fields
      /\ s.online = {} /\ s.gamequeue = {} /\ s.gq = <<>> /\ s.sqs = <<>> /\ s.games = <<>>
      /\ s.conns = <<>> /\ s.last = [game |-> 0, d2gs |-> n, seqno |-> 0]
      /\ s.gs = [g \in 1..Len(ips) |-> [ip |-> ips[g], conn |-> NoConn, gamenum |-> 0, maxgame |-> 0]]
  BY DEF Init, State, Fields
<1> HIDE DEF s, ips, n
<1>3. DOMAIN s.sqs = {} /\ DOMAIN s.games = {} /\ DOMAIN s.conns = {} /\ Len(s.gq) = 0
  BY <1>2
<1>4. /\ DOMAIN s.gs = 1..Len(ips)
      /\ \A g \in DOMAIN s.gs : s.gs[g] \in D2gs /\ s.gs[g].conn = NoConn /\ s.gs[g].gamenum = 0
  <2>1. \A g \in 1..Len(ips) : ips[g] \in Ips
    BY <1>1
  <2> QED BY <1>2, <2>1 DEF D2gs
<1>5. s.last.game = 0 /\ s.last.d2gs = n /\ s.last.seqno = 0
  BY <1>2
<1>6. QueueInv(s)
  BY <1>2 DEF QueueInv
<1>7. LastInv(s)
  BY <1>1, <1>2, BoundTypes DEF LastInv
<1>8. RequestsInv(s)
  BY <1>3 DEF RequestsInv
<1>9. ServersInv(s)
  <2>1. 1..Len(ips) \subseteq 1..n
    BY <1>1
  <2> QED BY <1>3, <1>4, <1>5, <2>1 DEF ServersInv
<1>10. GamesInv(s, 0)
  <2>1. \A g : GamesOn(s, g) = {}
    BY <1>3 DEF GamesOn
  <2> QED BY <1>3, <1>4, <2>1, FS_EmptySet DEF GamesInv
<1>11. NumbersInv(s, srv, 0)
  BY <1>3 DEF NumbersInv
<1>12. Spare(s)
  BY <1>3, <1>5, BoundTypes DEF Spare
<1>13. GameServersInv(srv)
  <2>1. srv = [a \in Ips |-> [next |-> 1, games |-> <<>>]]
    BY DEF Init
  <2>2. 1 \in 1..MaxGid + 1
    BY BoundTypes
  <2> QED BY <2>1, <2>2 DEF GameServersInv
<1> QED BY <1>2, <1>6, <1>7, <1>8, <1>9, <1>10, <1>11, <1>12, <1>13 DEF D2csInv, StateInv, s

-----------------------------------------------------------------------------
\* The invariant holds of every behaviour: the queue and the pointers of the clients, the
\* games and the counts of their servers, and the packets under way stay in step (d2cs game.cpp,
\* gamequeue.cpp, serverqueue.cpp, d2gs.cpp, handle_d2gs.cpp, handle_d2cs.cpp).
THEOREM D2csInvHolds == Spec => []D2csInv
<1>1. Init => D2csInv
  BY InitKeeps
<1>2. D2csInv /\ [Next]_vars => D2csInv'
  BY NextKeeps
<1> QED BY <1>1, <1>2, PTL DEF Spec

\* Every variable keeps its type; the ids of the games, of the requests and of the game servers
\* stay within the bounds under which they are given out (Game, D2gs and the packets of
\* d2cs_d2gs_protocol.h).
THEOREM TypeCorrect == Spec => []TypeOK
<1>1. D2csInv => TypeOK
  <2> SUFFICES ASSUME D2csInv PROVE TypeOK
    OBVIOUS
  <2> DEFINE s == State
  <2>1. /\ s.online = online /\ s.gamequeue = gamequeue /\ s.gq = gq /\ s.sqs = sqs
        /\ s.games = games /\ s.gs = gs /\ s.conns = conns /\ s.last = last
    BY DEF State
  <2>2. /\ QueueInv(s) /\ LastInv(s) /\ RequestsInv(s) /\ ServersInv(s) /\ GamesInv(s, 0)
        /\ GameServersInv(srv)
    BY DEF D2csInv, StateInv
  <2> HIDE DEF s
  <2>3. /\ last.game \in 0..MaxGameId /\ last.d2gs \in 0..MaxGsId /\ last.seqno \in 0..MaxSeqno
        /\ last \in [game : 0..MaxGameId, d2gs : 0..MaxGsId, seqno : 0..MaxSeqno]
    BY <2>1, <2>2 DEF LastInv
  <2>4. /\ 1..last.game \subseteq 1..MaxGameId /\ 1..last.d2gs \subseteq 1..MaxGsId
        /\ 1..last.seqno \subseteq 1..MaxSeqno
    BY <2>3, BoundTypes
  <2>5. online \subseteq Clients /\ gamequeue \subseteq online
        /\ gq \in Seq([client : Clients, name : Names])
    BY <2>1, <2>2 DEF QueueInv, Entry
  <2>6. /\ DOMAIN sqs \subseteq 1..MaxSeqno
        /\ \A n \in DOMAIN sqs : sqs[n] \in [client : Clients, gameid : 1..MaxGameId]
    BY <2>1, <2>2, <2>4 DEF RequestsInv
  <2>7. DOMAIN games \subseteq 1..MaxGameId /\ \A i \in DOMAIN games : games[i] \in Game
    BY <2>1, <2>2, <2>4 DEF GamesInv
  <2>8. /\ DOMAIN gs \subseteq 1..MaxGsId /\ \A g \in DOMAIN gs : gs[g] \in D2gs
        /\ DOMAIN conns \subseteq Conns /\ \A k \in DOMAIN conns : conns[k] \in Connections
    BY <2>1, <2>2, <2>4 DEF ServersInv
  <2>9. \A a \in Ips : /\ srv[a].next \in 1..MaxGid + 1
                       /\ \A i \in DOMAIN srv[a].games : srv[a].games[i] \in ServerGame
    BY <2>2 DEF GameServersInv
  <2> QED BY <2>3, <2>5, <2>6, <2>7, <2>8, <2>9 DEF TypeOK
<1> QED BY <1>1, D2csInvHolds, PTL

\* gamenum of a game server, by which d2gslist_choose_server and gqlist_check_creategame decide
\* who waits, counts the games that are on it, and a server without a connection has none: the
\* d2gs_deactive that takes the connection away ends them all.
THEOREM GamesAreCounted == Spec => []GamenumCounts
<1>1. D2csInv => GamenumCounts
  <2> SUFFICES ASSUME D2csInv, NEW g \in DOMAIN gs
               PROVE  /\ gs[g].gamenum = Cardinality(GamesOn(State, g))
                      /\ ~Active(State, g) => gs[g].gamenum = 0
    BY DEF GamenumCounts
  <2> DEFINE s == State
  <2>1. GamesInv(s, 0) /\ ServersInv(s) /\ s.gs = gs
    BY DEF D2csInv, StateInv, State
  <2> HIDE DEF s
  <2>2. gs[g].gamenum = Cardinality(GamesOn(s, g))
    BY <2>1 DEF GamesInv
  <2>3. ASSUME ~Active(s, g) PROVE gs[g].gamenum = 0
    <3>1. g # 0
      <4>1. g \in 1..s.last.d2gs
        BY <2>1 DEF ServersInv
      <4> QED BY <4>1
    <3>2. GamesOn(s, g) = {}
      BY <2>1, <2>3, <3>1 DEF GamesInv, GamesOn
    <3> QED BY <2>2, <3>2, FS_EmptySet
  <2> QED BY <2>2, <2>3 DEF s
<1> QED BY <1>1, D2csInvHolds, PTL

\* Who waits for a game has one entry in the queue and the pointer to it, and nobody else has
\* either, whichever way he leaves (client_creategame, gqlist_check_creategame,
\* on_client_cancelcreategame, conn_set_gamequeue_gamename, d2cs_conn_destroy).
THEOREM QueueAgrees == Spec => []WaitersWait
<1>1. D2csInv => WaitersWait
  <2> SUFFICES ASSUME D2csInv PROVE WaitersWait
    OBVIOUS
  <2> DEFINE s == State
  <2>1. QueueInv(s) /\ s.gq = gq /\ s.gamequeue = gamequeue
    BY DEF D2csInv, StateInv, State
  <2> HIDE DEF s
  <2>2. DOMAIN gq = 1..Len(gq)
    BY <2>1 DEF QueueInv
  <2>3. \A i \in DOMAIN gq : gq[i].client \in gamequeue
    BY <2>1, <2>2 DEF QueueInv
  <2>4. ASSUME NEW u \in gamequeue PROVE Cardinality(QueueFor(s, u)) = 1
    <3>1. PICK i \in 1..Len(gq) : gq[i].client = u
      BY <2>1 DEF QueueInv
    <3>2. \A j \in 1..Len(gq) : gq[j].client = u => j = i
      BY <2>1, <3>1 DEF QueueInv
    <3>3. QueueFor(s, u) = {i}
      BY <2>1, <2>2, <3>1, <3>2 DEF QueueFor
    <3> QED BY <3>3, FS_Singleton
  <2> QED BY <2>3, <2>4 DEF WaitersWait, s
<1> QED BY <1>1, D2csInvHolds, PTL

\* The number by which a game server names a game is one game's, of those that d2cs knows to be
\* on that server, also after the server has started its numbers again: the restart ends the
\* connection, and d2gs_deactive the games, before an answer with an old number can be one of
\* the new connection (game_find_by_d2gs_and_id, on_d2gs_creategamereply, d2gs_active).
THEOREM NumbersAreUnique == Spec => []GidsAreUnique
<1>1. D2csInv => GidsAreUnique
  <2> SUFFICES ASSUME D2csInv PROVE GidsAreUnique
    OBVIOUS
  <2> DEFINE s == State
  <2>1. NumbersInv(s, srv, 0) /\ s.games = games
    BY DEF D2csInv, StateInv, State
  <2> HIDE DEF s
  <2> QED BY <2>1 DEF NumbersInv, GidsAreUnique
<1> QED BY <1>1, D2csInvHolds, PTL
=============================================================================
