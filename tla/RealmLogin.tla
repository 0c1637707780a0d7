----------------------------- MODULE RealmLogin -----------------------------
(***************************************************************************)
(* Logging in to a realm.  A player who is connected to bnetd connects to  *)
(* d2cs as well and names his bnetd session; d2cs asks bnetd, over the one *)
(* connection between them, whether that session is his, and asks again    *)
(* when he chooses or creates a character (src/d2cs/connection.cpp,        *)
(* handle_d2cs.cpp, handle_bnetd.cpp, bnetd.cpp, s2s.cpp, serverqueue.cpp; *)
(* src/bnetd/handle_d2cs.cpp, realm.cpp and parts of connection.cpp).      *)
(*                                                                         *)
(* Each program is one thread, so that the handling of a packet or a timer *)
(* is one step.  Players are external: they send what the state of their   *)
(* connection allows, whether or not the answer to an earlier request has  *)
(* come, and leave at any time.  Either program may be started again, and  *)
(* the network may fail; each end then notices on its own.                 *)
(***************************************************************************)
EXTENDS Naturals, Sequences, FiniteSets, SequencesExt

CONSTANTS
  Accounts, Characters,
  None,             \* no account, no character
  FirstOwner,       \* the account that has each character at first, or None
  CharHash,         \* conn_charname_hash of each character's name
  CheckMultilogin,  \* the check_multilogin preference
  Slots,            \* the number of entries of connarray
  MaxClient, MaxSeqno, MaxLink, MaxFaults   \* bounds

ASSUME RealmLoginAssumption ==
  /\ None \notin Accounts \cup Characters /\ CheckMultilogin \in BOOLEAN
  /\ FirstOwner \in [Characters -> Accounts \cup {None}] /\ CharHash \in [Characters -> Nat]
  /\ {Slots, MaxClient, MaxSeqno, MaxLink, MaxFaults} \subseteq Nat

VARIABLES
  sessions,   \* bnetd: connarray, the connections of players
  freelist,   \* bnetd: arrayflist, the free entries in the order of their use
  realm,      \* bnetd: the realm: active, and its conn
  links,      \* connections between d2cs and bnetd, with the packets under way
  dconn,      \* d2cs: bnetd_connection, 0 if there is none
  clients,    \* d2cs: connections of players, by session number
  sqs,        \* d2cs: sqlist
  owner,      \* the character files: the account that has a character
  ingame,     \* d2cs: the characters that gamelist_find_character finds
  last,       \* d2cs: the last sessionnum and seqno given out
  faults,     \* failures and restarts so far (a bound)
  granted     \* history: what bnetd has granted to which connection of d2cs

loginVars == <<sessions, freelist, realm, links, dconn, clients, sqs, owner, ingame,
               last, faults, granted>>

-----------------------------------------------------------------------------
\* The records.  A request remembers the connection it was made for (`for'),
\* which is history only: what d2cs has to go by is the seqno.

Session == [user : Accounts, realm : BOOLEAN, char : Characters \cup {None}]
NoSession == [user |-> None, realm |-> FALSE, char |-> None]

Request == [op : {"login"}, acct : Accounts, slot : 1..Slots]
           \cup [op : {"create", "char"}, char : Characters, slot : 1..Slots]
Sq == [seqno : 1..MaxSeqno, client : 1..MaxClient, req : Request]
ToB == [op : {"init", "authreply"}] \cup [op : {"request"}, sq : Sq]
ToD == [op : {"authreq", "authreply"}]
       \cup [op : {"reply"}, seqno : 1..MaxSeqno, what : {"login", "char"}, ok : BOOLEAN]
Link == [d : {"closed", "connecting", "connected", "authed"},
         b : {"closed", "init", "connected", "loggedin", "destroy"},
         realm : BOOLEAN, up : BOOLEAN, toB : Seq(ToB), toD : Seq(ToD)]
NoLink == [d |-> "closed", b |-> "closed", realm |-> FALSE, up |-> FALSE,
           toB |-> <<>>, toD |-> <<>>]
Client == [st : {"none", "connected", "authed", "char_authed", "gone"},
           slot : 0..Slots, acct : Accounts \cup {None}, char : Characters \cup {None},
           info : Characters \cup {None}]
NoClient == [st |-> "none", slot |-> 0, acct |-> None, char |-> None, info |-> None]

LoginTypeOK ==
  /\ sessions \in [1..Slots -> Session \cup {NoSession}]
  /\ freelist \in Seq(1..Slots) /\ IsInjective(freelist)
  /\ realm \in [active : BOOLEAN, conn : 0..MaxLink]
  /\ links \in [1..MaxLink -> Link] /\ dconn \in 0..MaxLink
  /\ clients \in [1..MaxClient -> Client]
  /\ sqs \subseteq Sq
  /\ owner \in [Characters -> Accounts \cup {None}] /\ ingame \subseteq Characters
  /\ last \in [client : 0..MaxClient, seqno : 0..MaxSeqno] /\ faults \in 0..MaxFaults
  /\ granted \subseteq (1..MaxClient) \X (Accounts \cup Characters)

LoginInit ==
  /\ sessions = [s \in 1..Slots |-> NoSession]
  /\ freelist = [s \in 1..Slots |-> s]
  /\ realm = [active |-> FALSE, conn |-> 0]
  /\ links = [l \in 1..MaxLink |-> NoLink] /\ dconn = 0
  /\ clients = [k \in 1..MaxClient |-> NoClient]
  /\ sqs = {} /\ owner = FirstOwner /\ ingame = {}
  /\ last = [client |-> 0, seqno |-> 0] /\ faults = 0 /\ granted = {}

Alive(k) == clients[k].st \in {"connected", "authed", "char_authed"}

\* A packet pushed on a connection that the network has dropped, or that is
\* not there, goes nowhere.
Pushed(ls, l, queue, p) ==
  IF l # 0 /\ ls[l].up THEN [ls EXCEPT ![l][queue] = Append(@, p)] ELSE ls

-----------------------------------------------------------------------------
\* bnetd: players.

\* A connection takes the first free entry of connarray; its index is the
\* session number that the player will name to d2cs.
connarray_add_conn(u) ==
  /\ freelist # <<>> /\ \A s \in 1..Slots : sessions[s].user # u
  /\ sessions' = [sessions EXCEPT ![Head(freelist)] =
                    [user |-> u, realm |-> FALSE, char |-> None]]
  /\ freelist' = Tail(freelist)
  /\ UNCHANGED <<realm, links, dconn, clients, sqs, owner, ingame, last, faults, granted>>

\* The realm's d2cs need not be there.
client_realmjoinreq(s) ==
  /\ sessions[s].user # None /\ ~sessions[s].realm
  /\ sessions' = [sessions EXCEPT ![s].realm = TRUE]
  /\ UNCHANGED <<freelist, realm, links, dconn, clients, sqs, owner, ingame, last, faults,
                 granted>>

Mut_connarray_del_conn(s) ==
  /\ sessions[s].user # None
  /\ freelist' = Append(freelist, s)
  /\ UNCHANGED <<sessions, realm, links, dconn, clients, sqs, owner, ingame, last, faults,
                 granted>>

connarray_del_conn(s) ==
  /\ sessions[s].user # None
  /\ sessions' = [sessions EXCEPT ![s] = NoSession]
  /\ freelist' = Append(freelist, s)
  /\ UNCHANGED <<realm, links, dconn, clients, sqs, owner, ingame, last, faults, granted>>

-----------------------------------------------------------------------------
\* bnetd: the realm and its connection.

\* Deactivating an active realm marks the connection it has for destruction;
\* the pointer to it stays.
realm_deactive(r, ls) ==
  IF r.active
  THEN [realm |-> [r EXCEPT !.active = FALSE],
        links |-> IF r.conn # 0 /\ ls[r.conn].b # "closed"
                  THEN [ls EXCEPT ![r.conn].b = "destroy"] ELSE ls]
  ELSE [realm |-> r, links |-> ls]

Mut_realm_active(r, ls, l) ==
  [realm |-> [active |-> TRUE, conn |-> l],
   links |-> [ls EXCEPT ![l].b = "loggedin", ![l].realm = TRUE]]

realm_active(r, ls, l) ==
  LET before == realm_deactive(r, ls)
  IN  [realm |-> [active |-> TRUE, conn |-> l],
       links |-> [before.links EXCEPT ![l].b = "loggedin", ![l].realm = TRUE]]

on_d2cs_authreply(l) ==
  LET after == realm_active(realm, [links EXCEPT ![l].toB = Tail(@)], l)
  IN  /\ realm' = after.realm
      /\ links' = Pushed(after.links, l, "toD", [op |-> "authreply"])
      /\ UNCHANGED <<sessions, granted>>

\* The account must be the one that is logged in at the session named, and the
\* secret be that session's, which the model takes to be the same.
AccountAccepted(req) == sessions[req.slot].user = req.acct

\* The session of a request for a character is not checked in any way.
CharAccepted(req) == sessions[req.slot].user # None /\ sessions[req.slot].realm

Reply(l, sq, what, ok) ==
  links' = Pushed([links EXCEPT ![l].toB = Tail(@)], l, "toD",
                  [op |-> "reply", seqno |-> sq.seqno, what |-> what, ok |-> ok])

on_d2cs_accountloginreq(l, sq) ==
  LET ok == AccountAccepted(sq.req)
  IN  /\ Reply(l, sq, "login", ok)
      /\ granted' = IF ok THEN granted \cup {<<sq.client, sq.req.acct>>} ELSE granted
      /\ UNCHANGED <<sessions, realm>>

on_d2cs_charloginreq(l, sq) ==
  LET ok == CharAccepted(sq.req)
  IN  /\ Reply(l, sq, "char", ok)
      /\ granted' = IF ok THEN granted \cup {<<sq.client, sq.req.char>>} ELSE granted
      /\ sessions' = IF ok THEN [sessions EXCEPT ![sq.req.slot].char = sq.req.char]
                     ELSE sessions
      /\ UNCHANGED realm

\* handle_init_packet and handle_d2cs_packet: what comes first must be the
\* packet that says what the connection is for; a request that comes before
\* the realm is active is not answered.
BnetdHandles(l) ==
  /\ links[l].b \in {"init", "connected", "loggedin"} /\ links[l].toB # <<>>
  /\ LET p == Head(links[l].toB)
         rest == [links EXCEPT ![l].toB = Tail(@)]
     IN  \/ /\ links[l].b = "init" /\ p.op = "init"
            /\ links' = Pushed([rest EXCEPT ![l].b = "connected"], l, "toD", [op |-> "authreq"])
            /\ UNCHANGED <<sessions, realm, granted>>
         \/ /\ links[l].b = "init" /\ p.op # "init"
            /\ links' = [rest EXCEPT ![l].b = "destroy"]
            /\ UNCHANGED <<sessions, realm, granted>>
         \/ /\ links[l].b = "connected" /\ p.op = "authreply" /\ on_d2cs_authreply(l)
         \/ /\ links[l].b = "connected" /\ p.op # "authreply"
            /\ links' = rest /\ UNCHANGED <<sessions, realm, granted>>
         \/ /\ links[l].b = "loggedin" /\ p.op = "request" /\ p.sq.req.op = "login"
            /\ on_d2cs_accountloginreq(l, p.sq)
         \/ /\ links[l].b = "loggedin" /\ p.op = "request" /\ p.sq.req.op # "login"
            /\ on_d2cs_charloginreq(l, p.sq)
  /\ UNCHANGED <<freelist, dconn, clients, sqs, owner, ingame, last, faults>>

\* A read error, or the end of the stream, marks the connection.
BnetdNotices(l) ==
  /\ links[l].b \in {"init", "connected", "loggedin"}
  /\ ~links[l].up \/ links[l].d = "closed"
  /\ links' = [links EXCEPT ![l].b = "destroy"]
  /\ UNCHANGED <<sessions, freelist, realm, dconn, clients, sqs, owner, ingame, last, faults,
                 granted>>

\* connlist_reap: the end of a connection of d2cs deactivates the realm that it
\* belongs to, whichever connection that realm has by now.
conn_destroy(l) ==
  /\ links[l].b = "destroy"
  /\ LET after == IF links[l].realm THEN realm_deactive(realm, links)
                  ELSE [realm |-> realm, links |-> links]
         ls == [after.links EXCEPT ![l].b = "closed", ![l].realm = FALSE, ![l].toB = <<>>]
     IN  /\ realm' = after.realm
         /\ links' = IF ls[l].d = "closed" THEN [ls EXCEPT ![l] = NoLink] ELSE ls
  /\ UNCHANGED <<sessions, freelist, dconn, clients, sqs, owner, ingame, last, faults, granted>>

\* The list of realms is read again: the realm is a new one, to which players
\* and the connection of d2cs are moved, and the old one is deactivated.
realmlist_reload ==
  /\ faults < MaxFaults /\ faults' = faults + 1
  /\ realm.active
  /\ realm' = [active |-> FALSE, conn |-> 0]
  /\ links' = realm_deactive(realm, links).links
  /\ UNCHANGED <<sessions, freelist, dconn, clients, sqs, owner, ingame, last, granted>>

-----------------------------------------------------------------------------
\* d2cs: the connection to bnetd.

\* d2cs_conn_destroy for it: bnetd_connection is reset by s2s_destroy.
Closed(ls, l) == IF ls[l].b = "closed" THEN [ls EXCEPT ![l] = NoLink]
                 ELSE [ls EXCEPT ![l].d = "closed", ![l].toD = <<>>]

\* bnetd_check makes a connection when there is none.
bnetd_check(l) ==
  /\ dconn = 0 /\ links[l] = NoLink
  /\ dconn' = l
  /\ links' = [links EXCEPT ![l].d = "connecting", ![l].up = TRUE]
  /\ UNCHANGED <<sessions, freelist, realm, clients, sqs, owner, ingame, last, faults, granted>>

\* conn_handle_connecting and handle_bnetd_init: the packet for bnetd's
\* handle_init_packet is pushed behind those that are in the queue already.
conn_handle_connecting(l) ==
  /\ links[l].d = "connecting" /\ links[l].up
  /\ links' = Pushed([links EXCEPT ![l].d = "connected", ![l].b = "init"], l, "toB",
                     [op |-> "init"])
  /\ UNCHANGED <<sessions, freelist, realm, dconn, clients, sqs, owner, ingame, last, faults,
                 granted>>

Mut_D2csNotices(l) ==
  /\ links[l].d # "closed" /\ dconn = l
  /\ ~links[l].up \/ (links[l].b = "closed" /\ links[l].d # "connecting")
  /\ links' = Closed(links, l)
  /\ UNCHANGED <<sessions, freelist, realm, dconn, clients, sqs, owner, ingame, last, faults,
                 granted>>

\* The connection ends: bnetd has closed it, the network has failed, or it was
\* not made in time.
D2csNotices(l) ==
  /\ links[l].d # "closed" /\ dconn = l
  /\ ~links[l].up \/ (links[l].b = "closed" /\ links[l].d # "connecting")
  /\ links' = Closed(links, l) /\ dconn' = 0
  /\ UNCHANGED <<sessions, freelist, realm, clients, sqs, owner, ingame, last, faults, granted>>

\* conn_check_multilogin: the table that is searched is the one by session
\* numbers, with the hash of a name.
find_connection_by_charname(c) ==
  {j \in 1..MaxClient : j = CharHash[c] /\ Alive(j) /\ clients[j].char = c}

conn_check_multilogin(k, c) ==
  CheckMultilogin => c \notin ingame /\ find_connection_by_charname(c) \subseteq {k}

\* The client is the one whose session number the request was made with.
on_bnetd_accountloginreply(sq, ok) ==
  LET k == sq.client
  IN  /\ clients' = IF ok /\ Alive(k)
                    THEN [clients EXCEPT ![k].acct = sq.req.acct, ![k].st = "authed"]
                    ELSE clients
      /\ sqs' = sqs \ {sq}

\* For a character created and for one chosen alike.
on_bnetd_charloginreply(sq, ok) ==
  LET k == sq.client
      c == sq.req.char
  IN  /\ clients' = IF ok /\ Alive(k) /\ conn_check_multilogin(k, c)
                    THEN [clients EXCEPT ![k].char = c, ![k].st = "char_authed"]
                    ELSE clients
      /\ sqs' = sqs \ {sq}

\* handle_bnetd_packet; sqlist_find_sq finds nothing when the request has
\* expired.
D2csHandles(l) ==
  /\ links[l].d \in {"connected", "authed"} /\ links[l].toD # <<>>
  /\ LET p == Head(links[l].toD)
         rest == [links EXCEPT ![l].toD = Tail(@)]
         asked == {sq \in sqs : p.op = "reply" /\ sq.seqno = p.seqno}
     IN  \/ /\ p.op = "authreq" /\ links[l].d = "connected"
            /\ links' = Pushed(rest, l, "toB", [op |-> "authreply"])
            /\ UNCHANGED <<clients, sqs>>
         \/ /\ p.op = "authreply" /\ links[l].d = "connected"
            /\ links' = [rest EXCEPT ![l].d = "authed"]
            /\ UNCHANGED <<clients, sqs>>
         \/ /\ p.op = "reply" /\ asked = {}
            /\ links' = rest /\ UNCHANGED <<clients, sqs>>
         \/ /\ p.op = "reply" /\ links[l].d = "authed"
            /\ \E sq \in asked :
                 IF p.what = "login" THEN on_bnetd_accountloginreply(sq, p.ok)
                 ELSE on_bnetd_charloginreply(sq, p.ok)
            /\ links' = rest
  /\ UNCHANGED <<sessions, freelist, realm, dconn, owner, ingame, last, faults, granted>>

-----------------------------------------------------------------------------
\* d2cs: the connections of players.

d2cs_conn_create ==
  /\ last.client < MaxClient
  /\ last' = [last EXCEPT !.client = @ + 1]
  /\ clients' = [clients EXCEPT ![last.client + 1] = [NoClient EXCEPT !.st = "connected"]]
  /\ UNCHANGED <<sessions, freelist, realm, links, dconn, sqs, owner, ingame, faults, granted>>

\* d2cs_conn_destroy, after an error of a handler, a time-out or the player's
\* leaving.  What it has asked bnetd stays in sqlist.
Destroyed(k) == [clients EXCEPT ![k] = [NoClient EXCEPT !.st = "gone"]]

d2cs_conn_destroy(k) ==
  /\ Alive(k)
  /\ clients' = Destroyed(k)
  /\ UNCHANGED <<sessions, freelist, realm, links, dconn, sqs, owner, ingame, last, faults,
                 granted>>

Mut_sq_create(k, req) ==
  LET sq == [seqno |-> Cardinality(sqs) + 1, client |-> k, req |-> req]
  IN  /\ last.seqno < MaxSeqno
      /\ last' = [last EXCEPT !.seqno = @ + 1]
      /\ sqs' = sqs \cup {sq}
      /\ links' = Pushed(links, dconn, "toB", [op |-> "request", sq |-> sq])

\* A request is kept, under the next seqno, until its answer comes or it
\* expires; without a connection it goes nowhere.
sq_create(k, req) ==
  LET sq == [seqno |-> last.seqno + 1, client |-> k, req |-> req]
  IN  /\ last.seqno < MaxSeqno
      /\ last' = [last EXCEPT !.seqno = @ + 1]
      /\ sqs' = sqs \cup {sq}
      /\ links' = Pushed(links, dconn, "toB", [op |-> "request", sq |-> sq])

on_client_loginreq(k, a, s) ==
  /\ clients[k].st = "connected"
  /\ \/ /\ dconn = 0
        /\ clients' = Destroyed(k) /\ UNCHANGED <<sqs, last, links>>
     \/ /\ dconn # 0
        /\ clients' = [clients EXCEPT ![k].slot = s]
        /\ sq_create(k, [op |-> "login", acct |-> a, slot |-> s])
  /\ UNCHANGED <<sessions, freelist, realm, dconn, owner, ingame, faults, granted>>

\* The summary of the character is the connection's from now on, whatever the
\* answer will be.
on_client_charloginreq(k, c) ==
  /\ clients[k].st \in {"authed", "char_authed"}
  /\ \/ /\ owner[c] # clients[k].acct \/ dconn = 0
        /\ clients' = Destroyed(k) /\ UNCHANGED <<sqs, last, links>>
     \/ /\ owner[c] = clients[k].acct /\ dconn # 0
        /\ clients' = [clients EXCEPT ![k].info = c]
        /\ sq_create(k, [op |-> "char", char |-> c, slot |-> clients[k].slot])
  /\ UNCHANGED <<sessions, freelist, realm, dconn, owner, ingame, faults, granted>>

\* d2char_create refuses a name that is taken by any account.  Whether there is
\* a connection to bnetd is not looked at.
on_client_createcharreq(k, c) ==
  /\ clients[k].st \in {"authed", "char_authed"}
  /\ owner[c] = None
  /\ owner' = [owner EXCEPT ![c] = clients[k].acct]
  /\ clients' = [clients EXCEPT ![k].info = c]
  /\ sq_create(k, [op |-> "create", char |-> c, slot |-> clients[k].slot])
  /\ UNCHANGED <<sessions, freelist, realm, dconn, ingame, faults, granted>>

\* The connection's character is forgotten, be it the one deleted or not; its
\* state stays.
on_client_deletecharreq(k, c) ==
  /\ clients[k].st \in {"authed", "char_authed"}
  /\ IF conn_check_multilogin(k, c)
     THEN /\ clients' = [clients EXCEPT ![k].char = None]
          /\ owner' = IF owner[c] = clients[k].acct THEN [owner EXCEPT ![c] = None] ELSE owner
     ELSE clients' = Destroyed(k) /\ UNCHANGED owner
  /\ UNCHANGED <<sessions, freelist, realm, links, dconn, sqs, ingame, last, faults, granted>>

\* on_client_joingamereq, as far as the login goes; the game server then lets
\* the character in.
on_client_joingamereq(k) ==
  /\ clients[k].st = "char_authed"
  /\ IF clients[k].char # None /\ conn_check_multilogin(k, clients[k].char)
     THEN ingame' = ingame \cup {clients[k].char} /\ UNCHANGED clients
     ELSE clients' = Destroyed(k) /\ UNCHANGED ingame
  /\ UNCHANGED <<sessions, freelist, realm, links, dconn, sqs, owner, last, faults, granted>>

\* A character leaves its game.
GameLeft(c) ==
  /\ c \in ingame /\ ingame' = ingame \ {c}
  /\ UNCHANGED <<sessions, freelist, realm, links, dconn, clients, sqs, owner, last, faults,
                 granted>>

sqlist_check_timeout(sq) ==
  /\ sq \in sqs /\ sqs' = sqs \ {sq}
  /\ UNCHANGED <<sessions, freelist, realm, links, dconn, clients, owner, ingame, last, faults,
                 granted>>

-----------------------------------------------------------------------------
\* Failures.

NetworkFails(l) ==
  /\ faults < MaxFaults /\ faults' = faults + 1
  /\ links[l].up
  /\ links' = [links EXCEPT ![l].up = FALSE, ![l].toB = <<>>, ![l].toD = <<>>]
  /\ UNCHANGED <<sessions, freelist, realm, dconn, clients, sqs, owner, ingame, last, granted>>

D2csRestarts ==
  /\ faults < MaxFaults /\ faults' = faults + 1
  /\ links' = IF dconn = 0 THEN links ELSE Closed(links, dconn)
  /\ dconn' = 0
  /\ clients' = [k \in 1..MaxClient |-> NoClient]
  /\ sqs' = {} /\ ingame' = {} /\ granted' = {}
  /\ last' = [client |-> 0, seqno |-> 0]
  /\ UNCHANGED <<sessions, freelist, realm, owner>>

BnetdRestarts ==
  /\ faults < MaxFaults /\ faults' = faults + 1
  /\ sessions' = [s \in 1..Slots |-> NoSession]
  /\ freelist' = [s \in 1..Slots |-> s]
  /\ realm' = [active |-> FALSE, conn |-> 0]
  /\ links' = [l \in 1..MaxLink |->
                 IF links[l].d = "closed" THEN NoLink
                 ELSE [links[l] EXCEPT !.b = "closed", !.realm = FALSE,
                         !.toB = IF links[l].d = "connecting" THEN @ ELSE <<>>]]
  /\ UNCHANGED <<dconn, clients, sqs, owner, ingame, last, granted>>

-----------------------------------------------------------------------------
BnetdStep ==
  \/ \E u \in Accounts : connarray_add_conn(u)
  \/ \E s \in 1..Slots : client_realmjoinreq(s) \/ connarray_del_conn(s)
  \/ \E l \in 1..MaxLink : BnetdHandles(l) \/ BnetdNotices(l) \/ conn_destroy(l)
  \/ realmlist_reload

D2csStep ==
  \/ \E l \in 1..MaxLink : \/ bnetd_check(l) \/ conn_handle_connecting(l)
                           \/ D2csHandles(l) \/ D2csNotices(l)
  \/ \E sq \in sqs : sqlist_check_timeout(sq)

ClientStep ==
  \/ d2cs_conn_create
  \/ \E k \in 1..MaxClient :
       \/ d2cs_conn_destroy(k) \/ on_client_joingamereq(k)
       \/ \E a \in Accounts, s \in 1..Slots : on_client_loginreq(k, a, s)
       \/ \E c \in Characters : \/ on_client_charloginreq(k, c)
                           \/ on_client_createcharreq(k, c)
                           \/ on_client_deletecharreq(k, c)
  \/ \E c \in Characters : GameLeft(c)

Failure ==
  \/ \E l \in 1..MaxLink : NetworkFails(l)
  \/ D2csRestarts
  \/ BnetdRestarts

LoginNext == BnetdStep \/ D2csStep \/ ClientStep \/ Failure

\* What the main loops of the two programs do by themselves.
LoginFairness ==
  /\ WF_loginVars(\E l \in 1..MaxLink : bnetd_check(l))
  /\ \A l \in 1..MaxLink :
       /\ WF_loginVars(conn_handle_connecting(l))
       /\ WF_loginVars(BnetdHandles(l)) /\ WF_loginVars(BnetdNotices(l))
       /\ WF_loginVars(conn_destroy(l))
       /\ WF_loginVars(D2csHandles(l)) /\ WF_loginVars(D2csNotices(l))

LoginSpec == LoginInit /\ [][LoginNext]_loginVars /\ LoginFairness

-----------------------------------------------------------------------------
\* d2cs takes a connection for that of an account, or of a character, only when
\* bnetd has granted it to that very connection: answers of another request, of
\* a connection that has gone, or of an earlier run of either program never count.
GrantedByBnetd ==
  \A k \in 1..MaxClient :
    /\ clients[k].acct # None => <<k, clients[k].acct>> \in granted
    /\ clients[k].char # None => <<k, clients[k].char>> \in granted

\* A connection over which bnetd serves d2cs is the one that its realm has, so
\* that there is never more than one, whatever order the end of an old
\* connection and the start of a new one are seen in.
ServedIsActive ==
  \A l \in 1..MaxLink :
    links[l].b = "loggedin" => realm.active /\ realm.conn = l

\* Once nothing fails any more the two programs are connected again for good,
\* though the end of an old connection ends the new one with it.
LinkComesBack ==
  <>[](/\ dconn # 0 /\ links[dconn].d = "authed" /\ links[dconn].b = "loggedin"
       /\ realm.active)
=============================================================================
