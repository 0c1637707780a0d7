---------------------------- MODULE Realm_proofs ----------------------------
(***************************************************************************)
(* Theorems about the servers of a Diablo II realm: D2dbs, for any number  *)
(* of characters, servers and connections and any sizes of the buffers,    *)
(* and RealmLogin, for any accounts, characters, session numbers,          *)
(* connections and failures.                                               *)
(***************************************************************************)
EXTENDS D2dbs, RealmLogin, SequenceTheorems, TLAPS

-----------------------------------------------------------------------------
\* Lemmas about the operators of the module.

\* Every change of the lock table yields a lock table.
LEMMA LockTypes ==
  ASSUME NEW lk \in LockTables, NEW c \in Chars, NEW g \in Gsids, NEW h, NEW G
  PROVE  /\ LockChar(lk, c, g) \in LockTables
         /\ UnlockChar(lk, c, h) \in LockTables
         /\ UnlockAllByGsids(lk, G) \in LockTables
BY DEF LockTables, LockChar, UnlockChar, UnlockAllByGsids, IsLocked

\* Closing connections keeps the types, whichever connections they are.
LEMMA ShutdownType == ASSUME TypeOK, NEW S, Shutdown(S) PROVE TypeOK'
<1>1. /\ Keep(S) \in [DOMAIN Keep(S) -> Connections]
      /\ DOMAIN Keep(S) \subseteq Conns
  BY DEF Keep, TypeOK, Live
<1>2. UnlockedBy(S) \in LockTables
  BY LockTypes DEF UnlockedBy, TypeOK, UnlockAllByGsids, LockTables
<1>3. /\ loaded' \in [Conns -> SUBSET Chars]
      /\ owes' \in [Conns -> BOOLEAN]
      /\ hung' \in [Conns -> BOOLEAN]
  BY DEF TypeOK, Shutdown, ForgetPeers
<1> QED BY <1>1, <1>2, <1>3 DEF TypeOK, Shutdown, Live

\* Requests are consumed from the front and added at the back.
LEMMA ReadBufType ==
  ASSUME TypeOK, NEW k \in Live, NEW q \in Seq(Requests)
  PROVE  LET new == [conns EXCEPT ![k].ReadBuf = q]
         IN new \in [Live -> Connections] /\ DOMAIN new = Live
BY ZenonT(60) DEF TypeOK, Connections, Live

\* The idle counter of a connection stays in its range when it is reset or runs.
LEMMA IdleRange == /\ 0 \in 0..IdleTime + 1
                   /\ \A n \in 0..IdleTime + 1 :
                        (IF n <= IdleTime THEN n + 1 ELSE n) \in 0..IdleTime + 1
BY D2dbsAssumption DEF D2dbsAssumption

LEMMA InitType == Init => TypeOK
BY DEF Init, TypeOK, Live, LockInit, LockTables, Connections

\* A step that rewrites one connection to another of the right type, and keeps
\* the ids, keeps the types.
LEMMA UpdateType ==
  ASSUME TypeOK, NEW k \in Live, NEW r \in Connections,
         conns' = [conns EXCEPT ![k] = r], UNCHANGED <<preset, gs_id>>,
         lock' \in LockTables,
         loaded' \in [Conns -> SUBSET Chars],
         owes' \in [Conns -> BOOLEAN], hung' \in [Conns -> BOOLEAN]
  PROVE  TypeOK'
BY DEF TypeOK, Live

\* Handling a packet with a reply.
LEMMA ReplyType ==
  ASSUME TypeOK, NEW k \in Live, NEW r \in Replies,
         conns[k].ReadBuf # <<>>, ConsumeWithReply(k, r),
         UNCHANGED <<preset, gs_id, loaded, owes, hung>>, lock' \in LockTables
  PROVE  TypeOK'
<1>1. CASE Fits(k, r)
  <2> DEFINE new == [conns[k] EXCEPT !.ReadBuf = Tail(@), !.WriteBuf = Append(@, r)]
  <2>1. conns[k] \in Connections
    BY DEF TypeOK, Live
  <2>2. /\ Tail(conns[k].ReadBuf) \in Seq(Requests)
        /\ Append(conns[k].WriteBuf, r) \in Seq(Replies)
    BY <2>1 DEF Connections
  <2>3. new \in Connections
    BY <2>1, <2>2 DEF Connections
  <2>4. conns' = [conns EXCEPT ![k] = new]
    BY <1>1 DEF ConsumeWithReply
  <2> QED BY <2>3, <2>4, UpdateType DEF TypeOK
<1>2. CASE ~Fits(k, r)
  BY <1>2 DEF ConsumeWithReply, TypeOK, Live
<1> QED BY <1>1, <1>2

-----------------------------------------------------------------------------
\* TypeOK is inductive by itself.
LEMMA NextType == TypeOK /\ [Next]_vars => TypeOK'
<1> SUFFICES ASSUME TypeOK, [Next]_vars PROVE TypeOK'
  OBVIOUS
<1>1. ASSUME NEW k \in Conns, NEW i \in Ips, Accept(k, i) PROVE TypeOK'
  <2>1. /\ preset' \in [DOMAIN preset' -> Gsids] /\ DOMAIN preset' \subseteq Ips
        /\ gs_id' \in Nat /\ i \in DOMAIN preset'
    BY <1>1, GsidsAssumption DEF Accept, get_preset_d2gsid, TypeOK
  <2> DEFINE new == [ipaddr |-> i, serverid |-> preset'[i], stats |-> 0,
                     verified |-> FALSE, idle |-> 0, ReadBuf |-> <<>>, WriteBuf |-> <<>>]
  <2>2. new \in Connections
    BY <2>1, D2dbsAssumption DEF Connections
  <2>3. /\ conns' \in [Live \cup {k} -> Connections]
        /\ DOMAIN conns' = Live \cup {k}
    BY <1>1, <2>2 DEF Accept, TypeOK, Live
  <2> QED BY <1>1, <2>1, <2>3 DEF TypeOK, Live, Accept
<1>2. ASSUME NEW k \in Live, Handle(k) PROVE TypeOK'
  <2> USE DEF Verified
  <2>0. /\ conns[k] \in Connections
        /\ conns[k].ReadBuf # <<>> =>
             /\ Head(conns[k].ReadBuf) \in Requests
             /\ Tail(conns[k].ReadBuf) \in Seq(Requests)
    BY DEF TypeOK, Live, Connections
  <2>1. ASSUME conns[k].ReadBuf # <<>>, Head(conns[k].ReadBuf).op \notin {"hello", "echo"}
        PROVE  Head(conns[k].ReadBuf).char \in Chars
    BY <2>0, <2>1 DEF Requests
  <2>2. CASE Handshake(k)
    <3>1. CASE conns[k].ipaddr \in D2gsList
      <4> DEFINE new == [conns[k] EXCEPT !.stats = 1, !.verified = TRUE, !.ReadBuf = Tail(@)]
      <4>1. new \in Connections
        BY <2>0, <2>2 DEF Handshake, Pending, Connections
      <4>2. /\ conns' \in [DOMAIN conns' -> Connections]
            /\ DOMAIN conns' \subseteq Conns
        BY <2>2, <3>1, <4>1 DEF Handshake, TypeOK, Live
      <4>3. UnlockedBy(Previous(k)) \in LockTables
        BY LockTypes DEF UnlockedBy, TypeOK, UnlockAllByGsids, LockTables
      <4> QED BY <2>2, <3>1, <4>2, <4>3 DEF Handshake, ForgetPeers, TypeOK, Live
    <3>2. CASE conns[k].ipaddr \notin D2gsList
      BY <2>2, <3>2, ShutdownType DEF Handshake
    <3> QED BY <3>1, <3>2
  <2>3. ASSUME NEW load \in {"ok", "nosave", "noinfo"},
               NEW gsid \in {conns[k].serverid, NoGs}, GetCharsave(k, load, gsid)
        PROVE  TypeOK'
    <3> DEFINE c == Head(conns[k].ReadBuf).char
               r == [op |-> "get", char |-> c,
                     result |-> IF ~Free(c) THEN "CHARLOCKED"
                                ELSE IF load = "ok" THEN "SUCCESS" ELSE "FAILED",
                     data |-> Free(c) /\ load # "nosave"]
    <3>1. c \in Chars
      BY <2>1, <2>3 DEF GetCharsave, Pending
    <3>2. r \in Replies
      BY <3>1 DEF Replies
    <3>3. conns[k].serverid \in Gsids
      BY <2>0 DEF Connections
    <3>4. lock' \in LockTables
      <4>1. LockChar(lock, c, conns[k].serverid) \in LockTables
        BY <3>1, <3>3, LockTypes DEF TypeOK
      <4>2. UnlockChar(LockChar(lock, c, conns[k].serverid), c, gsid) \in LockTables
        BY <3>1, <3>3, <4>1, LockTypes
      <4> QED BY <2>3, <4>1, <4>2 DEF GetCharsave, GetLock, TypeOK
    <3> QED BY <2>3, <3>2, <3>4, ReplyType DEF GetCharsave, Pending
  <2>4. ASSUME NEW found \in BOOLEAN, GetPortrait(k, found) PROVE TypeOK'
    <3>1. [op |-> "portrait", char |-> Head(conns[k].ReadBuf).char, data |-> found] \in Replies
      BY <2>1, <2>4 DEF GetPortrait, Pending, Replies
    <3> QED BY <2>4, <3>1, ReplyType DEF GetPortrait, Pending, TypeOK
  <2>5. CASE SaveData(k)
    <3>1. [op |-> "save", char |-> Head(conns[k].ReadBuf).char, data |-> FALSE] \in Replies
      BY <2>1, <2>5 DEF SaveData, Pending, Replies
    <3> QED BY <2>5, <3>1, ReplyType DEF SaveData, Pending, TypeOK
  <2>6. ASSUME conns[k].ReadBuf # <<>>, Consume(k), UNCHANGED <<preset, gs_id, loaded, owes, hung>>,
               lock' \in LockTables
        PROVE  TypeOK'
    <3> DEFINE new == [conns[k] EXCEPT !.ReadBuf = Tail(@)]
    <3>1. new \in Connections
      BY <2>0, <2>6 DEF Connections
    <3>2. conns' = [conns EXCEPT ![k] = new]
      BY <2>6 DEF Consume
    <3> QED BY <2>6, <3>1, <3>2, UpdateType DEF TypeOK
  <2>7. CASE CharLockRequest(k)
    <3>1. lock' \in LockTables
      BY <2>0, <2>1, <2>7, LockTypes DEF CharLockRequest, Pending, TypeOK, Connections
    <3> QED BY <2>6, <2>7, <3>1 DEF CharLockRequest, Pending
  <2>8. CASE CharUnlockRequest(k)
    <3>1. lock' \in LockTables
      BY <2>0, <2>1, <2>8, LockTypes DEF CharUnlockRequest, Pending, TypeOK, Connections
    <3> QED BY <2>6, <2>8, <3>1 DEF CharUnlockRequest, Pending
  <2>9. CASE EchoReply(k)
    <3> DEFINE new == [conns[k] EXCEPT !.ReadBuf = Tail(@), !.idle = 0]
    <3>1. new \in Connections
      BY <2>0, <2>9, IdleRange DEF EchoReply, Pending, Connections
    <3>2. conns' = [conns EXCEPT ![k] = new]
      BY <2>9 DEF EchoReply
    <3> QED BY <2>9, <3>1, <3>2, UpdateType DEF EchoReply, TypeOK
  <2> QED BY <1>2, <2>2, <2>3, <2>4, <2>5, <2>7, <2>8, <2>9 DEF Handle
<1>3. ASSUME NEW k \in Live, Deliver(k) PROVE TypeOK'
  <2> DEFINE new == [conns[k] EXCEPT !.WriteBuf = Tail(@)]
             r == Head(conns[k].WriteBuf)
  <2>1. conns[k] \in Connections /\ k \in Conns
    BY DEF TypeOK, Live
  <2>2. r \in Replies /\ Tail(conns[k].WriteBuf) \in Seq(Replies)
    BY <1>3, <2>1 DEF Deliver, Connections
  <2>3. new \in Connections
    BY <2>1, <2>2 DEF Connections
  <2>4. conns' = [conns EXCEPT ![k] = new]
    BY <1>3 DEF Deliver
  <2>5. loaded' \in [Conns -> SUBSET Chars]
    <3>1. r.op = "get" => r.char \in Chars
      BY <2>2 DEF Replies
    <3> QED BY <1>3, <2>1, <3>1 DEF Deliver, TypeOK
  <2>6. owes' \in [Conns -> BOOLEAN]
    <3>1. owes' = [owes EXCEPT ![k] = @ \/ r.op = "echo"]
      BY <1>3 DEF Deliver
    <3> QED BY <3>1 DEF TypeOK
  <2> QED BY <1>3, <2>3, <2>4, <2>5, <2>6, UpdateType DEF Deliver, TypeOK
<1>4. ASSUME NEW k \in Live, Fail(k) PROVE TypeOK'
  BY <1>4, ShutdownType DEF Fail
<1>5. ASSUME NEW k \in Live, GameServer(k) PROVE TypeOK'
  <2>1. conns[k] \in Connections /\ k \in Conns
    BY DEF TypeOK, Live
  <2>2. ASSUME NEW r \in Requests, Send(k, r),
               loaded' \in [Conns -> SUBSET Chars], owes' \in [Conns -> BOOLEAN]
        PROVE  TypeOK'
    <3> DEFINE new == [conns[k] EXCEPT !.ReadBuf = Append(@, r)]
    <3>1. Append(conns[k].ReadBuf, r) \in Seq(Requests)
      BY <2>1 DEF Connections
    <3>2. new \in Connections
      BY <2>1, <3>1 DEF Connections
    <3>3. conns' = [conns EXCEPT ![k] = new]
      BY <2>2 DEF Send
    <3> QED BY <2>2, <3>2, <3>3, UpdateType DEF Send, TypeOK
  <2>3. CASE GsHello(k)
    <3>1. [op |-> "hello"] \in Requests
      BY DEF Requests
    <3> QED BY <2>2, <2>3, <3>1 DEF GsHello, TypeOK
  <2>4. ASSUME NEW op \in Ops, NEW c \in Chars, GsRequest(k, op, c) PROVE TypeOK'
    <3>1. [op |-> op, char |-> c] \in Requests
      BY DEF Requests
    <3>2. loaded' \in [Conns -> SUBSET Chars]
      BY <2>4, <2>1 DEF GsRequest, TypeOK
    <3> QED BY <2>2, <2>4, <3>1, <3>2 DEF GsRequest, TypeOK
  <2>5. CASE GsEchoReply(k)
    <3>1. [op |-> "echo"] \in Requests
      BY DEF Requests
    <3> QED BY <2>1, <2>2, <2>5, <3>1 DEF GsEchoReply, TypeOK
  <2>6. CASE GsHangs(k)
    BY <2>6, <2>1 DEF GsHangs, TypeOK, Live
  <2> QED BY <1>5, <2>3, <2>4, <2>5, <2>6 DEF GameServer
<1>6. CASE Tick
  <2>1. ASSUME NEW k \in Live
        PROVE  [conns[k] EXCEPT !.idle = IF @ <= IdleTime THEN @ + 1 ELSE @] \in Connections
    <3>1. conns[k] \in Connections
      BY DEF TypeOK, Live
    <3>2. (IF conns[k].idle <= IdleTime THEN conns[k].idle + 1 ELSE conns[k].idle) \in 0..IdleTime + 1
      BY <3>1, IdleRange DEF Connections
    <3> QED BY <3>1, <3>2 DEF Connections
  <2> QED BY <1>6, <2>1 DEF Tick, TypeOK, Live
<1>7. CASE Keepalive
  <2>1. EchoRequest \in Replies
    BY DEF EchoRequest, Replies
  <2>2. ASSUME NEW k \in Live
        PROVE  [conns[k] EXCEPT !.WriteBuf = Append(@, EchoRequest)] \in Connections
    <3>1. conns[k] \in Connections
      BY DEF TypeOK, Live
    <3>2. Append(conns[k].WriteBuf, EchoRequest) \in Seq(Replies)
      BY <2>1, <3>1 DEF Connections
    <3> QED BY <3>1, <3>2 DEF Connections
  <2> QED BY <1>7, <2>2 DEF Keepalive, TypeOK, Live
<1>8. CASE CheckTimeout
  BY <1>8, ShutdownType DEF CheckTimeout
<1>9. CASE Restart
  BY <1>9 DEF Restart, TypeOK, Live, LockTables
<1>10. CASE UNCHANGED vars
  BY <1>10 DEF vars, TypeOK, Live
<1> QED BY <1>1, <1>2, <1>3, <1>4, <1>5, <1>6, <1>7, <1>8, <1>9, <1>10 DEF Next

\* Type correctness: the connection list, the id table and the lock table keep
\* their shape whatever the order of packets, errors and time-outs.
THEOREM TypeCorrect == Spec => []TypeOK
<1>1. Init => TypeOK
  BY InitType
<1>2. TypeOK /\ [Next]_vars => TypeOK'
  BY NextType
<1> QED BY <1>1, <1>2, PTL DEF Spec

-----------------------------------------------------------------------------
\* The inductive invariant behind the safety properties.

\* Ids are given out once: they identify addresses, and the connection of an
\* address carries its id.
IdsInv ==
  /\ \A i \in DOMAIN preset : preset[i] <= gs_id
  /\ \A i, j \in DOMAIN preset : preset[i] = preset[j] => i = j
  /\ \A k \in Live : /\ conns[k].ipaddr \in DOMAIN preset
                      /\ conns[k].serverid = preset[conns[k].ipaddr]
                      /\ conns[k].verified = (conns[k].stats = 1)

\* An address has at most one verified connection.
OneVerified ==
  \A j, k \in Live : (/\ conns[j].verified /\ conns[k].verified
                      /\ conns[j].ipaddr = conns[k].ipaddr) => j = k

\* The order of one connection's requests about character c: in the read
\* buffer rb, on the way back in the write buffer wb, and known to the server
\* (has: it holds c).  Nothing but a lock request follows a load, no save
\* follows a release, and a load is outstanding only once.
GetOf(c) == [op |-> "get", char |-> c]
SaveOf(c) == [op |-> "save", char |-> c]
UnlockOf(c) == [op |-> "unlock", char |-> c]
Answer(r, c) == r.op = "get" /\ r.char = c
Grant(r, c) == Answer(r, c) /\ r.result = "SUCCESS"

Ordered(rb, wb, has, c) ==
  /\ has => /\ ~Occurs(GetOf(c), rb) /\ ~Occurs(UnlockOf(c), rb)
            /\ \A i \in 1..Len(wb) : ~Answer(wb[i], c)
  /\ (\E i \in 1..Len(wb) : Answer(wb[i], c))
        => ~Occurs(GetOf(c), rb) /\ ~Occurs(UnlockOf(c), rb)
  /\ \A i, j \in 1..Len(wb) : Answer(wb[i], c) /\ Answer(wb[j], c) => i = j
  /\ \A i, j \in 1..Len(rb) :
        i < j => /\ rb[i] = GetOf(c) => rb[j] \notin {GetOf(c), SaveOf(c), UnlockOf(c)}
                 /\ rb[i] = UnlockOf(c) => rb[j] # SaveOf(c)

OrderInv == \A k \in Live, c \in Chars :
              Ordered(conns[k].ReadBuf, conns[k].WriteBuf, c \in loaded[k], c)

\* A connection depends on a lock if its server holds the character or has
\* sent a save of it.
Uses(rb, wb, has, c) ==
  has \/ (\E i \in 1..Len(wb) : Grant(wb[i], c)) \/ Occurs(SaveOf(c), rb)

UseInv == \A k \in Live, c \in Chars :
            Uses(conns[k].ReadBuf, conns[k].WriteBuf, c \in loaded[k], c)
              => conns[k].verified /\ lock[c] = conns[k].serverid

\* Nothing is held over a connection that does not exist.
ClosedInv == \A k \in Conns \ Live : loaded[k] = {}

IInv == /\ TypeOK /\ IdsInv /\ OneVerified /\ LockedByConnected
        /\ ClosedInv /\ OrderInv /\ UseInv

-----------------------------------------------------------------------------
\* Lemmas about the queues of one connection.  Only the order of the requests
\* matters here, so they hold for queues of any packets.

\* A request that neither loads, saves nor releases c.
LEMMA SendOther ==
  ASSUME NEW R, NEW rb \in Seq(R), NEW x \in R, NEW wb, NEW has, NEW c,
         x \notin {GetOf(c), SaveOf(c), UnlockOf(c)},
         Ordered(rb, wb, has, c)
  PROVE  /\ Ordered(Append(rb, x), wb, has, c)
         /\ Uses(Append(rb, x), wb, has, c) => Uses(rb, wb, has, c)
BY SMTT(40) DEF Ordered, Uses, Occurs

\* A load is asked for by a server that neither has c nor waits for it.
LEMMA SendGet ==
  ASSUME NEW R, NEW rb \in Seq(R), NEW wb, NEW has \in BOOLEAN, NEW c,
         GetOf(c) \in R, ~has, ~Occurs(GetOf(c), rb),
         \A i \in 1..Len(wb) : ~Answer(wb[i], c),
         Ordered(rb, wb, has, c)
  PROVE  /\ Ordered(Append(rb, GetOf(c)), wb, has, c)
         /\ Uses(Append(rb, GetOf(c)), wb, has, c) => Uses(rb, wb, has, c)
BY DEF Ordered, Uses, Occurs, GetOf, SaveOf, UnlockOf

\* A save is sent by a server that has c.
LEMMA SendSave ==
  ASSUME NEW R, NEW rb \in Seq(R), NEW wb, NEW has, NEW c,
         SaveOf(c) \in R, has,
         Ordered(rb, wb, has, c)
  PROVE  Ordered(Append(rb, SaveOf(c)), wb, has, c) /\ Uses(rb, wb, has, c)
BY DEF Ordered, Uses, Occurs, GetOf, SaveOf, UnlockOf

\* A release is not sent by a server that waits for c, and ends its holding it.
LEMMA SendUnlock ==
  ASSUME NEW R, NEW rb \in Seq(R), NEW wb, NEW has \in BOOLEAN, NEW now \in BOOLEAN, NEW c,
         UnlockOf(c) \in R, ~now, ~Occurs(GetOf(c), rb),
         \A i \in 1..Len(wb) : ~Answer(wb[i], c),
         Ordered(rb, wb, has, c)
  PROVE  /\ Ordered(Append(rb, UnlockOf(c)), wb, now, c)
         /\ Uses(Append(rb, UnlockOf(c)), wb, now, c) => Uses(rb, wb, has, c)
BY SMTT(40) DEF Ordered, Uses, Occurs, GetOf, SaveOf, UnlockOf

\* Handling the first request keeps the order of the rest.
LEMMA TakeRequest ==
  ASSUME NEW R, NEW rb \in Seq(R), NEW wb, NEW has, NEW c, rb # <<>>,
         Ordered(rb, wb, has, c)
  PROVE  /\ Ordered(Tail(rb), wb, has, c)
         /\ Uses(Tail(rb), wb, has, c) => Uses(rb, wb, has, c)
BY DEF Ordered, Uses, Occurs

\* A reply that answers no load of c.
LEMMA ReplyOther ==
  ASSUME NEW W, NEW wb \in Seq(W), NEW r \in W, NEW rb, NEW has, NEW c,
         ~Answer(r, c), Ordered(rb, wb, has, c)
  PROVE  /\ Ordered(rb, Append(wb, r), has, c)
         /\ Uses(rb, Append(wb, r), has, c) => Uses(rb, wb, has, c)
BY DEF Ordered, Uses, Answer, Grant

\* The answer to a load: before it the server depended on nothing, and after it
\* on the lock only if the answer grants the character.
LEMMA AnswerGet ==
  ASSUME NEW R, NEW rb \in Seq(R), NEW W, NEW wb \in Seq(W), NEW r \in W,
         NEW has \in BOOLEAN, NEW c,
         rb # <<>>, Head(rb) = GetOf(c), Answer(r, c),
         Ordered(rb, wb, has, c)
  PROVE  /\ Ordered(Tail(rb), Append(wb, r), has, c)
         /\ ~Uses(Tail(rb), wb, has, c)
         /\ Uses(Tail(rb), Append(wb, r), has, c) => Grant(r, c)
<1>1. /\ Occurs(GetOf(c), rb)
      /\ \A j \in 1..Len(rb) : 1 < j => rb[j] \notin {GetOf(c), SaveOf(c), UnlockOf(c)}
  BY DEF Ordered, Occurs
<1>2. \A j \in 1..Len(Tail(rb)) : Tail(rb)[j] \notin {GetOf(c), SaveOf(c), UnlockOf(c)}
  BY <1>1
<1>3. ~has /\ \A i \in 1..Len(wb) : ~Answer(wb[i], c)
  BY <1>1 DEF Ordered
<1> QED BY <1>2, <1>3 DEF Ordered, Uses, Occurs, Grant, Answer

\* A load that fails or finds the character locked leaves what was there: the
\* server depends on nothing while its load is first in the buffer.
LEMMA PendingGet ==
  ASSUME NEW R, NEW rb \in Seq(R), NEW wb, NEW has \in BOOLEAN, NEW c,
         rb # <<>>, Head(rb) = GetOf(c), Ordered(rb, wb, has, c)
  PROVE  ~Uses(rb, wb, has, c)
<1>1. /\ Occurs(GetOf(c), rb)
      /\ \A j \in 1..Len(rb) : 1 < j => rb[j] # SaveOf(c)
  BY DEF Ordered, Occurs
<1>2. ~Occurs(SaveOf(c), rb)
  BY <1>1 DEF Occurs, GetOf, SaveOf
<1> QED BY <1>1, <1>2 DEF Ordered, Uses, Grant

\* When a release is handled, the server no longer depends on the lock.
LEMMA TakeUnlock ==
  ASSUME NEW R, NEW rb \in Seq(R), NEW wb, NEW has \in BOOLEAN, NEW c,
         rb # <<>>, Head(rb) = UnlockOf(c), Ordered(rb, wb, has, c)
  PROVE  ~Uses(Tail(rb), wb, has, c)
<1>1. /\ Occurs(UnlockOf(c), rb)
      /\ \A j \in 1..Len(rb) : 1 < j => rb[j] # SaveOf(c)
  BY DEF Ordered, Occurs
<1>2. ~Occurs(SaveOf(c), Tail(rb))
  BY <1>1 DEF Occurs
<1> QED BY <1>1, <1>2 DEF Ordered, Uses, Grant

\* The server reads a reply, and has c if the reply grants it.
LEMMA ReadReply ==
  ASSUME NEW W, NEW wb \in Seq(W), NEW rb, NEW has \in BOOLEAN, NEW c, wb # <<>>,
         Ordered(rb, wb, has, c)
  PROVE  LET now == has \/ Grant(Head(wb), c)
         IN /\ Ordered(rb, Tail(wb), now, c)
            /\ Uses(rb, Tail(wb), now, c) => Uses(rb, wb, has, c)
<1>1. CASE Grant(Head(wb), c)
  <2>1. /\ Head(wb) = wb[1] /\ 1 \in 1..Len(wb) /\ Answer(wb[1], c)
    BY <1>1 DEF Grant
  <2>2. \A i \in 1..Len(Tail(wb)) : Tail(wb)[i] = wb[i + 1] /\ i + 1 \in 1..Len(wb)
    OBVIOUS
  <2>3. \A i \in 1..Len(Tail(wb)) : ~Answer(Tail(wb)[i], c)
    BY <2>1, <2>2 DEF Ordered
  <2> QED BY <1>1, <2>1, <2>3 DEF Ordered, Uses, Grant
<1>2. CASE ~Grant(Head(wb), c)
  BY <1>2 DEF Ordered, Uses, Grant
<1> QED BY <1>1, <1>2

-----------------------------------------------------------------------------
\* Lemmas about steps.

\* Two verified connections of one server id are the same connection.
LEMMA OnePerServer ==
  ASSUME IdsInv, OneVerified, NEW j \in Live, NEW k \in Live,
         conns[j].verified, conns[k].verified, conns[j].serverid = conns[k].serverid
  PROVE  j = k
<1> DEFINE a == conns[j].ipaddr
           b == conns[k].ipaddr
<1>1. a \in DOMAIN preset /\ b \in DOMAIN preset /\ preset[a] = preset[b]
  BY DEF IdsInv
<1>2. \A x, y \in DOMAIN preset : preset[x] = preset[y] => x = y
  BY Zenon DEF IdsInv
<1>3. a = b
  BY <1>1, <1>2
<1> QED BY <1>3, Zenon DEF OneVerified

\* A step in which connection k becomes r, an update of its queues, and changes
\* only locks that are free or its own, and those only if it is verified.
LEMMA LocalStep ==
  ASSUME IInv, TypeOK', NEW k \in Live, NEW r,
         conns' = [conns EXCEPT ![k] = r], UNCHANGED <<preset, gs_id>>,
         /\ r.ipaddr = conns[k].ipaddr /\ r.serverid = conns[k].serverid
         /\ r.stats = conns[k].stats /\ r.verified = conns[k].verified,
         \A j \in Conns : j # k => loaded'[j] = loaded[j],
         \A c \in Chars : Ordered(r.ReadBuf, r.WriteBuf, c \in loaded'[k], c),
         \A c \in Chars : Uses(r.ReadBuf, r.WriteBuf, c \in loaded'[k], c)
                            => r.verified /\ lock'[c] = r.serverid,
         \A c \in Chars : \/ lock'[c] = lock[c]
                          \/ r.verified /\ {lock[c], lock'[c]} \subseteq {NoGs, r.serverid}
  PROVE  IInv'
<1>0. Live \subseteq Conns
  BY DEF IInv, TypeOK
<1>1. Live' = Live /\ conns'[k] = r /\ \A j \in Live : j # k => conns'[j] = conns[j]
  BY DEF IInv, TypeOK, Live
<1>6. ClosedInv'
  BY <1>0, <1>1 DEF IInv, ClosedInv
<1>2. IdsInv' /\ OneVerified'
  BY <1>1 DEF IInv, IdsInv, OneVerified
<1>3. LockedByConnected'
  <2> SUFFICES ASSUME NEW c \in Chars, IsLocked(lock', c)
               PROVE  \E j \in Live' : conns'[j].verified /\ conns'[j].serverid = lock'[c]
    BY DEF LockedByConnected
  <2>1. CASE lock'[c] = lock[c]
    <3>1. PICK j \in Live : conns[j].verified /\ conns[j].serverid = lock[c]
      BY <2>1 DEF IInv, LockedByConnected, IsLocked
    <3> QED BY <1>1, <2>1, <3>1
  <2>2. CASE lock'[c] # lock[c]
    BY <1>1, <2>2 DEF IsLocked
  <2> QED BY <2>1, <2>2
<1>4. OrderInv'
  BY <1>0, <1>1 DEF IInv, OrderInv
<1>5. UseInv'
  <2> SUFFICES ASSUME NEW j \in Live, NEW c \in Chars, j # k,
                      Uses(conns[j].ReadBuf, conns[j].WriteBuf, c \in loaded[j], c)
               PROVE  conns[j].verified /\ lock'[c] = conns[j].serverid
    BY <1>0, <1>1 DEF UseInv
  <2>1. conns[j].verified /\ lock[c] = conns[j].serverid
    BY DEF IInv, UseInv
  <2>2. lock[c] # NoGs
    <3>1. conns[j].serverid \in Gsids
      BY DEF IInv, TypeOK, Live, Connections
    <3> QED BY <2>1, <3>1, GsidsAssumption DEF GsidsAssumption
  <2>3. ~(r.verified /\ lock[c] = r.serverid)
    BY <2>1, OnePerServer DEF IInv
  <2>4. lock'[c] = lock[c]
    BY <2>2, <2>3
  <2> QED BY <2>1, <2>4
<1> QED BY <1>2, <1>3, <1>4, <1>5, <1>6 DEF IInv

\* Closing connections takes the locks of the verified ones and no others.
LEMMA UnlockedByClosed ==
  ASSUME IInv, NEW S \in SUBSET Live, NEW c \in Chars
  PROVE  UnlockedBy(S)[c] =
           IF \E k \in S : conns[k].verified /\ conns[k].serverid = lock[c]
           THEN NoGs ELSE lock[c]
<1>1. lock \in LockTables
  BY DEF IInv, TypeOK
<1> DEFINE G == {conns[k].serverid : k \in {j \in S : conns[j].verified}}
<1>2. UnlockedBy(S)[c] = IF lock[c] \in G THEN NoGs ELSE lock[c]
  BY <1>1 DEF UnlockedBy, UnlockAllByGsids, LockTables
<1>3. lock[c] \in G <=> \E k \in S : conns[k].verified /\ conns[k].serverid = lock[c]
  OBVIOUS
<1> QED BY <1>2, <1>3

\* Closing connections.
LEMMA CloseStep ==
  ASSUME IInv, TypeOK', NEW S \in SUBSET Live, Shutdown(S) PROVE IInv'
<1>1. /\ Live' = Live \ S
      /\ \A k \in Live' : conns'[k] = conns[k] /\ loaded'[k] = loaded[k]
  <2>1. Live \subseteq Conns
    BY DEF IInv, TypeOK
  <2> QED BY <2>1 DEF Shutdown, Keep, ForgetPeers, Live
<1>2. IdsInv' /\ OneVerified'
  BY <1>1 DEF IInv, IdsInv, OneVerified, Shutdown
<1>3. LockedByConnected'
  <2> SUFFICES ASSUME NEW c \in Chars, IsLocked(lock', c)
               PROVE  \E j \in Live' : conns'[j].verified /\ conns'[j].serverid = lock'[c]
    BY DEF LockedByConnected
  <2>1. /\ lock'[c] = lock[c] /\ IsLocked(lock, c)
        /\ \A k \in S : ~(conns[k].verified /\ conns[k].serverid = lock[c])
    BY UnlockedByClosed DEF Shutdown, IsLocked
  <2>2. PICK j \in Live : conns[j].verified /\ conns[j].serverid = lock[c]
    BY <2>1 DEF IInv, LockedByConnected
  <2> QED BY <1>1, <2>1, <2>2
<1>4. OrderInv'
  BY <1>1 DEF IInv, OrderInv
<1>5. UseInv'
  <2> SUFFICES ASSUME NEW j \in Live, j \notin S, NEW c \in Chars,
                      Uses(conns[j].ReadBuf, conns[j].WriteBuf, c \in loaded[j], c)
               PROVE  conns[j].verified /\ lock'[c] = conns[j].serverid
    BY <1>1 DEF UseInv
  <2>1. conns[j].verified /\ lock[c] = conns[j].serverid
    BY DEF IInv, UseInv
  <2>2. \A k \in S : ~(conns[k].verified /\ conns[k].serverid = lock[c])
    BY <2>1, OnePerServer DEF IInv
  <2> QED BY <2>1, <2>2, UnlockedByClosed DEF Shutdown
<1>6. ClosedInv'
  BY <1>1 DEF IInv, ClosedInv, Shutdown, ForgetPeers
<1> QED BY <1>2, <1>3, <1>4, <1>5, <1>6 DEF IInv

\* A step that touches the write buffers only by adding replies that answer no
\* load, and the idle counters.
LEMMA TimerStep ==
  ASSUME IInv, TypeOK', Live' = Live, UNCHANGED <<preset, gs_id, lock, loaded>>,
         \A k \in Live :
           /\ conns'[k].ipaddr = conns[k].ipaddr /\ conns'[k].serverid = conns[k].serverid
           /\ conns'[k].stats = conns[k].stats /\ conns'[k].verified = conns[k].verified
           /\ conns'[k].ReadBuf = conns[k].ReadBuf
           /\ conns'[k].WriteBuf \in {conns[k].WriteBuf, Append(conns[k].WriteBuf, EchoRequest)}
  PROVE  IInv'
<1>1. IdsInv' /\ OneVerified' /\ LockedByConnected' /\ ClosedInv'
  BY DEF IInv, IdsInv, OneVerified, LockedByConnected, ClosedInv
<1>2. ASSUME NEW k \in Live, NEW c \in Chars
      PROVE  /\ Ordered(conns'[k].ReadBuf, conns'[k].WriteBuf, c \in loaded[k], c)
             /\ Uses(conns'[k].ReadBuf, conns'[k].WriteBuf, c \in loaded[k], c)
                  => Uses(conns[k].ReadBuf, conns[k].WriteBuf, c \in loaded[k], c)
  <2> DEFINE wb == conns[k].WriteBuf
  <2>1. wb \in Seq(Replies) /\ EchoRequest \in Replies /\ ~Answer(EchoRequest, c)
    BY DEF IInv, TypeOK, Live, Connections, EchoRequest, Replies, Answer
  <2>2. Ordered(conns[k].ReadBuf, wb, c \in loaded[k], c)
    BY DEF IInv, OrderInv
  <2>3. /\ Ordered(conns[k].ReadBuf, Append(wb, EchoRequest), c \in loaded[k], c)
        /\ Uses(conns[k].ReadBuf, Append(wb, EchoRequest), c \in loaded[k], c)
             => Uses(conns[k].ReadBuf, wb, c \in loaded[k], c)
    BY <2>1, <2>2, ReplyOther
  <2> QED BY <2>2, <2>3
<1>3. OrderInv' /\ UseInv'
  BY <1>2 DEF IInv, OrderInv, UseInv
<1> QED BY <1>1, <1>3 DEF IInv

-----------------------------------------------------------------------------
\* The invariant holds initially and is kept by every step.

LEMMA InitInv == Init => IInv
<1> SUFFICES ASSUME Init PROVE IInv
  OBVIOUS
<1>1. TypeOK
  BY InitType
<1>2. Live = {} /\ DOMAIN preset = {}
  BY DEF Init, Live
<1>3. LockedByConnected
  BY DEF Init, LockInit, LockedByConnected, IsLocked
<1> QED BY <1>1, <1>2, <1>3 DEF Init, IInv, IdsInv, OneVerified, ClosedInv, OrderInv, UseInv

\* A new connection has a fresh structure: nothing depends on a lock through it.
LEMMA AcceptInv ==
  ASSUME IInv, TypeOK', NEW k \in Conns, NEW i \in Ips, Accept(k, i) PROVE IInv'
<1>1. /\ Live' = Live \cup {k} /\ k \notin Live
      /\ \A j \in Live : conns'[j] = conns[j]
      /\ conns'[k] = [ipaddr |-> i, serverid |-> preset'[i], stats |-> 0, verified |-> FALSE,
                      idle |-> 0, ReadBuf |-> <<>>, WriteBuf |-> <<>>]
  BY DEF Accept, Live
<1>2. /\ \A j \in DOMAIN preset' : preset'[j] <= gs_id'
      /\ \A x, y \in DOMAIN preset' : preset'[x] = preset'[y] => x = y
      /\ DOMAIN preset \subseteq DOMAIN preset' /\ i \in DOMAIN preset'
      /\ \A j \in DOMAIN preset : preset'[j] = preset[j]
  <2>1. CASE i \in DOMAIN preset
    BY <2>1 DEF Accept, get_preset_d2gsid, IInv, IdsInv
  <2>2. CASE i \notin DOMAIN preset
    <3>1. /\ gs_id \in Nat /\ gs_id' = gs_id + 1
          /\ preset' = [j \in DOMAIN preset \cup {i} |-> IF j = i THEN gs_id + 1 ELSE preset[j]]
      BY <2>2 DEF Accept, get_preset_d2gsid, IInv, TypeOK
    <3>2. \A j \in DOMAIN preset : preset[j] \in Nat /\ preset[j] <= gs_id
      BY GsidsAssumption DEF GsidsAssumption, IInv, IdsInv, TypeOK
    <3>3. \A x, y \in DOMAIN preset : preset[x] = preset[y] => x = y
      BY DEF IInv, IdsInv
    <3> QED BY <2>2, <3>1, <3>2, <3>3
  <2> QED BY <2>1, <2>2
<1>3. IdsInv'
  <2>1. \A j \in Live : /\ conns[j].ipaddr \in DOMAIN preset
                        /\ conns[j].serverid = preset[conns[j].ipaddr]
                        /\ conns[j].verified = (conns[j].stats = 1)
    BY DEF IInv, IdsInv
  <2>2. ASSUME NEW j \in Live'
        PROVE  /\ conns'[j].ipaddr \in DOMAIN preset'
               /\ conns'[j].serverid = preset'[conns'[j].ipaddr]
               /\ conns'[j].verified = (conns'[j].stats = 1)
    <3>1. CASE j = k
      <4>1. /\ conns'[j].ipaddr = i /\ conns'[j].serverid = preset'[i]
            /\ conns'[j].verified = FALSE /\ conns'[j].stats = 0
        BY <1>1, <3>1
      <4>2. FALSE = (0 = 1)
        OBVIOUS
      <4> QED BY <1>2, <4>1, <4>2
    <3>2. CASE j \in Live
      BY <1>1, <1>2, <2>1, <3>2
    <3> QED BY <1>1, <2>2, <3>1, <3>2
  <2> QED BY <1>2, <2>2 DEF IdsInv
<1>4. OneVerified' /\ LockedByConnected' /\ ClosedInv'
  BY <1>1 DEF IInv, OneVerified, LockedByConnected, ClosedInv, Accept
<1>5. loaded'[k] = {} /\ loaded' = loaded /\ lock' = lock
  BY <1>1 DEF IInv, ClosedInv, Accept
<1>6. OrderInv'
  <2>1. ASSUME NEW c PROVE Ordered(<<>>, <<>>, FALSE, c)
    BY DEF Ordered, Occurs
  <2>2. ASSUME NEW j \in Live', NEW c \in Chars
        PROVE  Ordered(conns'[j].ReadBuf, conns'[j].WriteBuf, c \in loaded[j], c)
    <3>1. CASE j = k
      <4>1. /\ conns'[j].ReadBuf = <<>> /\ conns'[j].WriteBuf = <<>>
            /\ (c \in loaded[j]) = FALSE
        BY <1>1, <1>5, <3>1
      <4> QED BY <4>1, <2>1
    <3>2. CASE j \in Live
      BY <1>1, <3>2 DEF IInv, OrderInv
    <3> QED BY <1>1, <2>2, <3>1, <3>2
  <2> QED BY <1>5, <2>2 DEF OrderInv
<1>7. UseInv'
  <2>1. ASSUME NEW c PROVE ~Uses(<<>>, <<>>, FALSE, c)
    BY DEF Uses, Occurs
  <2>2. ASSUME NEW j \in Live', NEW c \in Chars,
               Uses(conns'[j].ReadBuf, conns'[j].WriteBuf, c \in loaded[j], c)
        PROVE  conns'[j].verified /\ lock[c] = conns'[j].serverid
    <3>1. j # k
      <4> SUFFICES ASSUME j = k PROVE FALSE
        OBVIOUS
      <4>1. /\ conns'[j].ReadBuf = <<>> /\ conns'[j].WriteBuf = <<>>
            /\ (c \in loaded[j]) = FALSE
        BY <1>1, <1>5
      <4> QED BY <4>1, <2>1, <2>2
    <3> QED BY <1>1, <2>2, <3>1 DEF IInv, UseInv
  <2> QED BY <1>5, <2>2 DEF UseInv
<1> QED BY <1>3, <1>4, <1>6, <1>7 DEF IInv

\* What IInv says of one connection.
LEMMA AtConnection ==
  ASSUME IInv, NEW k \in Live
  PROVE  /\ k \in Conns /\ conns[k] \in Connections
         /\ conns[k].ReadBuf \in Seq(Requests) /\ conns[k].WriteBuf \in Seq(Replies)
         /\ conns[k].stats = 1 => conns[k].verified
         /\ \A c \in Chars :
              /\ Ordered(conns[k].ReadBuf, conns[k].WriteBuf, c \in loaded[k], c)
              /\ Uses(conns[k].ReadBuf, conns[k].WriteBuf, c \in loaded[k], c)
                   => conns[k].verified /\ lock[c] = conns[k].serverid
<1>1. k \in Conns /\ conns[k] \in Connections
  BY DEF IInv, TypeOK, Live
<1>2. conns[k].stats = 1 => conns[k].verified
  BY DEF IInv, IdsInv
<1> QED BY <1>1, <1>2 DEF IInv, OrderInv, UseInv, Connections

\* A packet that is handled without a reply and without touching a lock.
LEMMA TakeInv ==
  ASSUME IInv, TypeOK', NEW k \in Live, conns[k].ReadBuf # <<>>, NEW n,
         conns' = [conns EXCEPT ![k].ReadBuf = Tail(@), ![k].idle = n],
         UNCHANGED <<preset, gs_id, lock, loaded>>
  PROVE  IInv'
<1> DEFINE r == [conns[k] EXCEPT !.ReadBuf = Tail(@), !.idle = n]
<1>1. conns' = [conns EXCEPT ![k] = r]
  OBVIOUS
<1>2. /\ r.ipaddr = conns[k].ipaddr /\ r.serverid = conns[k].serverid
      /\ r.stats = conns[k].stats /\ r.verified = conns[k].verified
      /\ r.ReadBuf = Tail(conns[k].ReadBuf) /\ r.WriteBuf = conns[k].WriteBuf
  BY AtConnection DEF Connections
<1>3. \A c \in Chars :
        /\ Ordered(r.ReadBuf, r.WriteBuf, c \in loaded'[k], c)
        /\ Uses(r.ReadBuf, r.WriteBuf, c \in loaded'[k], c)
             => r.verified /\ lock'[c] = r.serverid
  BY <1>2, AtConnection, TakeRequest
<1> HIDE DEF r
<1> QED BY <1>1, <1>2, <1>3, LocalStep

\* A reply that answers no load.
LEMMA ReplyInv ==
  ASSUME IInv, TypeOK', NEW k \in Live, NEW x \in Replies,
         conns[k].ReadBuf # <<>>, x.op # "get", ConsumeWithReply(k, x),
         UNCHANGED <<preset, gs_id, lock, loaded>>
  PROVE  IInv'
<1>1. CASE ~Fits(k, x)
  BY <1>1 DEF ConsumeWithReply, IInv, IdsInv, OneVerified, LockedByConnected, ClosedInv,
              OrderInv, UseInv, Live
<1>2. CASE Fits(k, x)
  <2> DEFINE r == [conns[k] EXCEPT !.ReadBuf = Tail(@), !.WriteBuf = Append(@, x)]
  <2>1. conns' = [conns EXCEPT ![k] = r]
    BY <1>2 DEF ConsumeWithReply
  <2>2. /\ r.ipaddr = conns[k].ipaddr /\ r.serverid = conns[k].serverid
        /\ r.stats = conns[k].stats /\ r.verified = conns[k].verified
        /\ r.ReadBuf = Tail(conns[k].ReadBuf) /\ r.WriteBuf = Append(conns[k].WriteBuf, x)
    BY AtConnection DEF Connections
  <2>3. ASSUME NEW c \in Chars
        PROVE  /\ Ordered(r.ReadBuf, r.WriteBuf, c \in loaded'[k], c)
               /\ Uses(r.ReadBuf, r.WriteBuf, c \in loaded'[k], c)
                    => r.verified /\ lock'[c] = r.serverid
    <3> DEFINE rb == Tail(conns[k].ReadBuf)
               wb == conns[k].WriteBuf
               has == c \in loaded[k]
    <3>1. /\ Ordered(rb, wb, has, c)
          /\ Uses(rb, wb, has, c) => conns[k].verified /\ lock[c] = conns[k].serverid
      BY AtConnection, TakeRequest
    <3>2. /\ Ordered(rb, Append(wb, x), has, c)
          /\ Uses(rb, Append(wb, x), has, c) => Uses(rb, wb, has, c)
      <4>1. ~Answer(x, c) /\ wb \in Seq(Replies)
        BY AtConnection DEF Answer
      <4> QED BY <3>1, <4>1, ReplyOther
    <3> QED BY <2>2, <3>1, <3>2
  <2> HIDE DEF r
  <2> QED BY <2>1, <2>2, <2>3, LocalStep
<1> QED BY <1>1, <1>2

\* A lock or unlock request.  Only locks that are free or the sender's change,
\* and an unlock is sent by a server that no longer depends on the lock.
LEMMA CharLockInv ==
  ASSUME IInv, TypeOK', NEW k \in Live, CharLockRequest(k) \/ CharUnlockRequest(k)
  PROVE  IInv'
<1> DEFINE r == [conns[k] EXCEPT !.ReadBuf = Tail(@)]
           x == Head(conns[k].ReadBuf)
<1>1. /\ conns' = [conns EXCEPT ![k] = r] /\ conns[k].ReadBuf # <<>>
      /\ UNCHANGED <<preset, gs_id, loaded>> /\ conns[k].stats = 1
  BY DEF CharLockRequest, CharUnlockRequest, Consume, Pending, Verified
<1>2. /\ r.ipaddr = conns[k].ipaddr /\ r.serverid = conns[k].serverid
      /\ r.stats = conns[k].stats /\ r.verified = conns[k].verified /\ r.verified
      /\ r.ReadBuf = Tail(conns[k].ReadBuf) /\ r.WriteBuf = conns[k].WriteBuf
  BY <1>1, AtConnection DEF Connections
<1>3. x \in Requests /\ x.op \in {"lock", "unlock"}
  BY <1>1, AtConnection DEF CharLockRequest, CharUnlockRequest, Pending
<1>4. x.char \in Chars /\ x = [op |-> x.op, char |-> x.char]
  BY <1>3 DEF Requests
<1>5. conns[k].serverid \in Gsids /\ lock \in LockTables
  BY AtConnection, SMTT(40) DEF IInv, TypeOK, Connections
<1>6. /\ \A c \in Chars : c # x.char => lock'[c] = lock[c]
      /\ \/ lock'[x.char] = lock[x.char]
         \/ {lock[x.char], lock'[x.char]} \subseteq {NoGs, conns[k].serverid}
  BY <1>4, <1>5 DEF CharLockRequest, CharUnlockRequest, LockChar, UnlockChar, IsLocked, LockTables
<1>7. ASSUME NEW c \in Chars
      PROVE  /\ Ordered(r.ReadBuf, r.WriteBuf, c \in loaded'[k], c)
             /\ Uses(r.ReadBuf, r.WriteBuf, c \in loaded'[k], c)
                  => r.verified /\ lock'[c] = r.serverid
  <2> DEFINE rb == conns[k].ReadBuf
             wb == conns[k].WriteBuf
             has == c \in loaded[k]
  <2>1. /\ Ordered(Tail(rb), wb, has, c)
        /\ Uses(Tail(rb), wb, has, c) => lock[c] = conns[k].serverid
    BY <1>1, AtConnection, TakeRequest
  <2>2. ASSUME Uses(Tail(rb), wb, has, c) PROVE lock'[c] = conns[k].serverid
    <3>1. CASE c # x.char
      BY <1>6, <2>1, <2>2, <3>1
    <3>2. CASE c = x.char /\ CharLockRequest(k)
      <4>1. lock[c] # NoGs
        BY <1>5, <2>1, <2>2, GsidsAssumption DEF GsidsAssumption
      <4> QED BY <2>1, <2>2, <3>2, <4>1 DEF CharLockRequest, LockChar, IsLocked
    <3>3. CASE c = x.char /\ CharUnlockRequest(k)
      <4>1. Head(rb) = UnlockOf(c)
        BY <1>4, <3>3 DEF UnlockOf, CharUnlockRequest, Pending
      <4>2. rb \in Seq(Requests) /\ has \in BOOLEAN /\ Ordered(rb, wb, has, c)
        BY AtConnection
      <4> QED BY <1>1, <2>2, <4>1, <4>2, TakeUnlock
    <3> QED BY <3>1, <3>2, <3>3
  <2> QED BY <1>1, <1>2, <2>1, <2>2
<1>8. \A c \in Chars : \/ lock'[c] = lock[c]
                       \/ r.verified /\ {lock[c], lock'[c]} \subseteq {NoGs, r.serverid}
  BY <1>2, <1>6
<1> HIDE DEF r, x
<1> QED BY <1>1, <1>2, <1>7, <1>8, LocalStep

\* A load.  The character was free or stays as it is, so no other connection
\* depends on its lock, and this one only if the answer grants it.
LEMMA GetInv ==
  ASSUME IInv, TypeOK', NEW k \in Live, NEW load \in {"ok", "nosave", "noinfo"},
         NEW gsid \in {conns[k].serverid, NoGs}, GetCharsave(k, load, gsid)
  PROVE  IInv'
<1> DEFINE d == Head(conns[k].ReadBuf).char
           x == [op |-> "get", char |-> d,
                 result |-> IF ~Free(d) THEN "CHARLOCKED"
                            ELSE IF load = "ok" THEN "SUCCESS" ELSE "FAILED",
                 data |-> Free(d) /\ load # "nosave"]
           r == IF Fits(k, x)
                THEN [conns[k] EXCEPT !.ReadBuf = Tail(@), !.WriteBuf = Append(@, x)]
                ELSE conns[k]
<1>1. /\ conns[k].ReadBuf # <<>> /\ conns[k].stats = 1 /\ Head(conns[k].ReadBuf).op = "get"
      /\ ConsumeWithReply(k, x) /\ lock' = GetLock(k, d, load, gsid)
      /\ UNCHANGED <<preset, gs_id, loaded>>
  BY DEF GetCharsave, Pending, Verified
<1>2. d \in Chars /\ Head(conns[k].ReadBuf) = GetOf(d)
  <2>1. Head(conns[k].ReadBuf) \in Requests
    BY <1>1, AtConnection
  <2> QED BY <1>1, <2>1 DEF Requests, GetOf
<1>3. x \in Replies /\ Answer(x, d) /\ \A c : c # d => ~Answer(x, c)
  BY <1>2 DEF Replies, Answer
<1>4. conns' = [conns EXCEPT ![k] = r]
  <2>1. CASE Fits(k, x)
    BY <1>1, <2>1 DEF ConsumeWithReply
  <2>2. CASE ~Fits(k, x)
    BY <1>1, <2>2 DEF ConsumeWithReply, IInv, TypeOK, Live
  <2> QED BY <2>1, <2>2
<1>5. /\ r.ipaddr = conns[k].ipaddr /\ r.serverid = conns[k].serverid
      /\ r.stats = conns[k].stats /\ r.verified = conns[k].verified /\ r.verified
  BY <1>1, AtConnection DEF Connections
<1>6. /\ Fits(k, x) => /\ r.ReadBuf = Tail(conns[k].ReadBuf)
                        /\ r.WriteBuf = Append(conns[k].WriteBuf, x)
      /\ ~Fits(k, x) => r = conns[k]
  BY AtConnection, SMTT(40) DEF Connections
<1>7. /\ conns[k].serverid \in Gsids /\ conns[k].serverid # NoGs /\ lock \in LockTables
  BY AtConnection, GsidsAssumption, SMTT(40) DEF GsidsAssumption, IInv, TypeOK, Connections
<1>8. /\ \A c \in Chars : c # d => lock'[c] = lock[c]
      /\ \/ lock'[d] = lock[d]
         \/ lock[d] = NoGs /\ lock'[d] \in {NoGs, conns[k].serverid}
      /\ Grant(x, d) => lock'[d] = conns[k].serverid
  BY <1>1, <1>2, <1>7 DEF GetLock, Free, LockChar, UnlockChar, IsLocked, LockTables, Grant, Answer
<1>9. ASSUME NEW c \in Chars
      PROVE  /\ Ordered(r.ReadBuf, r.WriteBuf, c \in loaded'[k], c)
             /\ Uses(r.ReadBuf, r.WriteBuf, c \in loaded'[k], c)
                  => r.verified /\ lock'[c] = r.serverid
  <2> DEFINE rb == conns[k].ReadBuf
             wb == conns[k].WriteBuf
             has == c \in loaded[k]
  <2>0. rb \in Seq(Requests) /\ wb \in Seq(Replies) /\ has \in BOOLEAN /\ rb # <<>>
    BY <1>1, AtConnection
  <2>1. /\ Ordered(rb, wb, has, c)
        /\ Uses(rb, wb, has, c) => lock[c] = conns[k].serverid
    BY AtConnection
  <2>2. /\ Ordered(Tail(rb), wb, has, c)
        /\ Uses(Tail(rb), wb, has, c) => Uses(rb, wb, has, c)
    BY <2>0, <2>1, TakeRequest, SMTT(40)
  <2>3. CASE c # d /\ Fits(k, x)
    <3>1. /\ Ordered(Tail(rb), Append(wb, x), has, c)
          /\ Uses(Tail(rb), Append(wb, x), has, c) => Uses(Tail(rb), wb, has, c)
      BY <1>3, <2>0, <2>2, <2>3, ReplyOther, SMTT(40)
    <3> QED BY <1>1, <1>5, <1>6, <1>8, <2>1, <2>2, <2>3, <3>1
  <2>4. CASE c = d /\ Fits(k, x)
    <3>1. /\ Ordered(Tail(rb), Append(wb, x), has, c)
          /\ Uses(Tail(rb), Append(wb, x), has, c) => Grant(x, c)
      <4>1. Head(rb) = GetOf(c) /\ Answer(x, c) /\ x \in Replies
        BY <1>2, <1>3, <2>4
      <4> HIDE DEF x, d
      <4> QED BY <4>1, <2>0, <2>1, AnswerGet, ZenonT(60)
    <3> QED BY <1>1, <1>5, <1>6, <1>8, <2>4, <3>1
  <2>5. CASE c # d /\ ~Fits(k, x)
    BY <1>1, <1>5, <1>6, <1>8, <2>1, <2>5, SMTT(40)
  <2>6. CASE c = d /\ ~Fits(k, x)
    <3>1. ~Uses(rb, wb, has, c)
      BY <1>2, <2>0, <2>1, <2>6, PendingGet
    <3> QED BY <1>1, <1>6, <2>1, <2>6, <3>1
  <2> QED BY <2>3, <2>4, <2>5, <2>6
<1>10. \A c \in Chars : \/ lock'[c] = lock[c]
                        \/ r.verified /\ {lock[c], lock'[c]} \subseteq {NoGs, r.serverid}
  BY <1>5, <1>8
<1> HIDE DEF r, x, d
<1> QED BY <1>1, <1>4, <1>5, <1>9, <1>10, LocalStep

\* A reply is read: what it grants, the server now has.
LEMMA DeliverInv ==
  ASSUME IInv, TypeOK', NEW k \in Live, Deliver(k) PROVE IInv'
<1> DEFINE r == [conns[k] EXCEPT !.WriteBuf = Tail(@)]
           x == Head(conns[k].WriteBuf)
<1>1. /\ conns' = [conns EXCEPT ![k] = r] /\ conns[k].WriteBuf # <<>>
      /\ UNCHANGED <<preset, gs_id, lock>>
  BY DEF Deliver
<1>2. /\ r.ipaddr = conns[k].ipaddr /\ r.serverid = conns[k].serverid
      /\ r.stats = conns[k].stats /\ r.verified = conns[k].verified
      /\ r.ReadBuf = conns[k].ReadBuf /\ r.WriteBuf = Tail(conns[k].WriteBuf)
  BY AtConnection DEF Connections
<1>3. /\ \A j \in Conns : j # k => loaded'[j] = loaded[j]
      /\ \A c \in Chars : (c \in loaded'[k]) = (c \in loaded[k] \/ Grant(x, c))
  <2>1. loaded \in [Conns -> SUBSET Chars] /\ k \in Conns
    BY AtConnection DEF IInv, TypeOK
  <2> QED BY <2>1 DEF Deliver, Grant, Answer
<1>4. ASSUME NEW c \in Chars
      PROVE  /\ Ordered(r.ReadBuf, r.WriteBuf, c \in loaded'[k], c)
             /\ Uses(r.ReadBuf, r.WriteBuf, c \in loaded'[k], c)
                  => r.verified /\ lock'[c] = r.serverid
  <2> DEFINE rb == conns[k].ReadBuf
             wb == conns[k].WriteBuf
             has == c \in loaded[k]
             now == has \/ Grant(Head(wb), c)
  <2>1. /\ wb \in Seq(Replies) /\ has \in BOOLEAN /\ Ordered(rb, wb, has, c)
        /\ Uses(rb, wb, has, c) => conns[k].verified /\ lock[c] = conns[k].serverid
    BY AtConnection
  <2>2. Ordered(rb, Tail(wb), now, c) /\ (Uses(rb, Tail(wb), now, c) => Uses(rb, wb, has, c))
    BY <1>1, <2>1, ReadReply
  <2>3. (c \in loaded'[k]) = now
    BY <1>3
  <2> HIDE DEF now
  <2> QED BY <1>1, <1>2, <2>1, <2>2, <2>3
<1> HIDE DEF r, x
<1> QED BY <1>1, <1>2, <1>3, <1>4, LocalStep

\* The handshake: the address's other connections go, with what was locked for
\* their server, and this one, over which nothing is held yet, is verified.
LEMMA HandshakeInv ==
  ASSUME IInv, TypeOK', NEW k \in Live, Handshake(k) PROVE IInv'
<1>1. CASE conns[k].ipaddr \notin D2gsList
  BY <1>1, CloseStep DEF Handshake
<1>2. CASE conns[k].ipaddr \in D2gsList
  <2> DEFINE P == Previous(k)
             new == [conns[k] EXCEPT !.stats = 1, !.verified = TRUE, !.ReadBuf = Tail(@)]
  <2>1. /\ P \in SUBSET Live /\ k \notin P
        /\ \A j \in Live \ P : j # k => conns[j].ipaddr # conns[k].ipaddr
    BY DEF Previous
  <2>2. /\ conns' = [j \in Live \ P |-> IF j = k THEN new ELSE conns[j]]
        /\ lock' = UnlockedBy(P) /\ ForgetPeers(P) /\ UNCHANGED <<preset, gs_id>>
        /\ conns[k].ReadBuf # <<>> /\ conns[k].stats = 0
    BY <1>2 DEF Handshake, Pending
  <2>3. /\ new.ipaddr = conns[k].ipaddr /\ new.serverid = conns[k].serverid
        /\ new.stats = 1 /\ new.verified = TRUE
        /\ new.ReadBuf = Tail(conns[k].ReadBuf) /\ new.WriteBuf = conns[k].WriteBuf
    BY AtConnection DEF Connections
  <2> HIDE DEF P, new
  <2>4. /\ Live' = Live \ P /\ k \in Live' /\ conns'[k] = new
        /\ \A j \in Live' : j # k => conns'[j] = conns[j]
        /\ \A j \in Live' : loaded'[j] = loaded[j]
    <3>1. Live \subseteq Conns
      BY DEF IInv, TypeOK
    <3> QED BY <2>1, <2>2, <3>1 DEF Live, ForgetPeers
  <2>5. ~conns[k].verified
    <3>1. conns[k].verified = (conns[k].stats = 1)
      BY DEF IInv, IdsInv
    <3>2. conns[k].stats # 1
      BY <2>2
    <3> QED BY <3>1, <3>2, Zenon
  <2>6. IdsInv'
    <3>1. ASSUME NEW j \in Live'
          PROVE  /\ conns'[j].ipaddr \in DOMAIN preset
                 /\ conns'[j].serverid = preset[conns'[j].ipaddr]
                 /\ conns'[j].verified = (conns'[j].stats = 1)
      <4>1. CASE j = k
        BY <2>3, <2>4, <4>1, ZenonT(60) DEF IInv, IdsInv
      <4>2. CASE j # k
        BY <2>4, <4>2, <3>1 DEF IInv, IdsInv
      <4> QED BY <4>1, <4>2
    <3>2. /\ preset' = preset /\ gs_id' = gs_id
          /\ \A i \in DOMAIN preset : preset[i] <= gs_id
          /\ \A i, j \in DOMAIN preset : preset[i] = preset[j] => i = j
      BY <2>2 DEF IInv, IdsInv
    <3> QED BY <3>1, <3>2 DEF IdsInv
  <2>7. OneVerified'
    BY <2>1, <2>3, <2>4 DEF IInv, OneVerified
  <2>8. LockedByConnected'
    <3> SUFFICES ASSUME NEW c \in Chars, IsLocked(lock', c)
                 PROVE  \E j \in Live' : conns'[j].verified /\ conns'[j].serverid = lock'[c]
      BY DEF LockedByConnected
    <3>1. /\ lock'[c] = lock[c] /\ IsLocked(lock, c)
          /\ \A j \in P : ~(conns[j].verified /\ conns[j].serverid = lock[c])
      BY <2>1, <2>2, UnlockedByClosed DEF IsLocked
    <3>2. PICK j \in Live : conns[j].verified /\ conns[j].serverid = lock[c]
      BY <3>1 DEF IInv, LockedByConnected
    <3> QED BY <2>4, <2>5, <3>1, <3>2
  <2>9. ClosedInv'
    BY <2>2, <2>4 DEF IInv, ClosedInv, ForgetPeers
  <2>10. ASSUME NEW c \in Chars
         PROVE  /\ Ordered(new.ReadBuf, new.WriteBuf, c \in loaded[k], c)
                /\ ~Uses(new.ReadBuf, new.WriteBuf, c \in loaded[k], c)
    <3>1. /\ Ordered(new.ReadBuf, new.WriteBuf, c \in loaded[k], c)
          /\ Uses(new.ReadBuf, new.WriteBuf, c \in loaded[k], c)
               => Uses(conns[k].ReadBuf, conns[k].WriteBuf, c \in loaded[k], c)
      BY <2>2, <2>3, AtConnection, TakeRequest
    <3> QED BY <2>5, <3>1, AtConnection
  <2>11. OrderInv'
    BY <2>4, <2>10 DEF IInv, OrderInv
  <2>12. UseInv'
    <3> SUFFICES ASSUME NEW j \in Live', j # k, NEW c \in Chars,
                        Uses(conns[j].ReadBuf, conns[j].WriteBuf, c \in loaded[j], c)
                 PROVE  conns[j].verified /\ lock'[c] = conns[j].serverid
      BY <2>4, <2>10 DEF UseInv
    <3>1. conns[j].verified /\ lock[c] = conns[j].serverid
      BY <2>4 DEF IInv, UseInv
    <3>2. \A i \in P : ~(conns[i].verified /\ conns[i].serverid = lock[c])
      BY <2>1, <2>4, <3>1, OnePerServer DEF IInv
    <3> QED BY <2>1, <2>2, <3>1, <3>2, UnlockedByClosed
  <2> QED BY <2>6, <2>7, <2>8, <2>9, <2>11, <2>12 DEF IInv
<1> QED BY <1>1, <1>2

\* A packet of the game server that leaves its holdings alone, or releases c.
LEMMA SendInv ==
  ASSUME IInv, TypeOK', NEW k \in Live, NEW x \in Requests, Send(k, x),
         \A j \in Conns : j # k => loaded'[j] = loaded[j],
         \A c \in Chars :
           /\ Ordered(Append(conns[k].ReadBuf, x), conns[k].WriteBuf, c \in loaded'[k], c)
           /\ Uses(Append(conns[k].ReadBuf, x), conns[k].WriteBuf, c \in loaded'[k], c)
                => Uses(conns[k].ReadBuf, conns[k].WriteBuf, c \in loaded[k], c)
  PROVE  IInv'
<1> DEFINE r == [conns[k] EXCEPT !.ReadBuf = Append(@, x)]
<1>1. conns' = [conns EXCEPT ![k] = r] /\ UNCHANGED <<preset, gs_id, lock>>
  BY DEF Send
<1>2. /\ r.ipaddr = conns[k].ipaddr /\ r.serverid = conns[k].serverid
      /\ r.stats = conns[k].stats /\ r.verified = conns[k].verified
      /\ r.ReadBuf = Append(conns[k].ReadBuf, x) /\ r.WriteBuf = conns[k].WriteBuf
  BY AtConnection DEF Connections
<1>3. \A c \in Chars :
        /\ Ordered(r.ReadBuf, r.WriteBuf, c \in loaded'[k], c)
        /\ Uses(r.ReadBuf, r.WriteBuf, c \in loaded'[k], c)
             => r.verified /\ lock'[c] = r.serverid
  BY <1>1, <1>2, AtConnection
<1> HIDE DEF r
<1> QED BY <1>1, <1>2, <1>3, LocalStep

\* A request about character d.
LEMMA GsRequestInv ==
  ASSUME IInv, TypeOK', NEW k \in Live, NEW op \in Ops, NEW d \in Chars, GsRequest(k, op, d)
  PROVE  IInv'
<1> DEFINE x == [op |-> op, char |-> d]
           rb == conns[k].ReadBuf
           wb == conns[k].WriteBuf
<1>1. x \in Requests /\ Send(k, x)
  BY DEF GsRequest, Requests
<1>2. loaded \in [Conns -> SUBSET Chars] /\ k \in Conns
  BY AtConnection DEF IInv, TypeOK
<1>3. /\ \A j \in Conns : j # k => loaded'[j] = loaded[j]
      /\ loaded'[k] = IF op = "unlock" THEN loaded[k] \ {d} ELSE loaded[k]
  BY <1>2 DEF GsRequest
<1>4. ASSUME NEW c \in Chars
      PROVE  /\ Ordered(Append(rb, x), wb, c \in loaded'[k], c)
             /\ Uses(Append(rb, x), wb, c \in loaded'[k], c)
                  => Uses(rb, wb, c \in loaded[k], c)
  <2> DEFINE has == c \in loaded[k]
  <2>1. rb \in Seq(Requests) /\ has \in BOOLEAN /\ Ordered(rb, wb, has, c)
    BY AtConnection
  <2>2. CASE x \notin {GetOf(c), SaveOf(c), UnlockOf(c)}
    <3>1. (c \in loaded'[k]) = has
      BY <1>3, <2>2 DEF UnlockOf
    <3> QED BY <1>1, <2>1, <2>2, <3>1, SendOther
  <2>3. CASE x = GetOf(c)
    <3>1. op = "get" /\ d = c
      BY <2>3 DEF GetOf
    <3>2. /\ ~has /\ ~Occurs(GetOf(c), rb) /\ \A i \in 1..Len(wb) : ~Answer(wb[i], c)
          /\ (c \in loaded'[k]) = has
      BY <1>3, <3>1 DEF GsRequest, Outstanding, GetOf, Answer
    <3> QED BY <1>1, <2>1, <2>3, <3>2, SendGet
  <2>4. CASE x = SaveOf(c)
    <3>1. op = "save" /\ d = c
      BY <2>4 DEF SaveOf
    <3>2. has /\ (c \in loaded'[k]) = has
      BY <1>3, <3>1 DEF GsRequest
    <3>3. Ordered(Append(rb, x), wb, has, c) /\ Uses(rb, wb, has, c)
      BY <1>1, <2>1, <2>4, <3>2, SendSave
    <3> QED BY <3>2, <3>3
  <2>5. CASE x = UnlockOf(c)
    <3>1. op = "unlock" /\ d = c
      BY <2>5 DEF UnlockOf
    <3>2. /\ ~Occurs(GetOf(c), rb) /\ \A i \in 1..Len(wb) : ~Answer(wb[i], c)
          /\ c \notin loaded'[k]
      BY <1>3, <3>1 DEF GsRequest, Outstanding, GetOf, Answer
    <3> DEFINE now == c \in loaded'[k]
    <3>3. now \in BOOLEAN /\ ~now /\ UnlockOf(c) \in Requests
      BY <1>1, <2>5, <3>2
    <3> HIDE DEF now, has, rb, wb
    <3>4. /\ Ordered(Append(rb, UnlockOf(c)), wb, now, c)
          /\ Uses(Append(rb, UnlockOf(c)), wb, now, c) => Uses(rb, wb, has, c)
      BY <2>1, <3>2, <3>3, SendUnlock
    <3> QED BY <2>5, <3>4 DEF now, has
  <2> QED BY <2>2, <2>3, <2>4, <2>5
<1> HIDE DEF x
<1> QED BY <1>1, <1>3, <1>4, SendInv

LEMMA NextInv == IInv /\ [Next]_vars => IInv'
<1> SUFFICES ASSUME IInv, [Next]_vars PROVE IInv'
  OBVIOUS
<1>0. TypeOK'
  BY NextType DEF IInv
<1>1. ASSUME NEW k \in Conns, NEW i \in Ips, Accept(k, i) PROVE IInv'
  BY <1>0, <1>1, AcceptInv
<1>2. ASSUME NEW k \in Live, Handle(k) PROVE IInv'
  <2>1. CASE Handshake(k)
    BY <1>0, <2>1, HandshakeInv
  <2>2. ASSUME NEW load \in {"ok", "nosave", "noinfo"},
               NEW gsid \in {conns[k].serverid, NoGs}, GetCharsave(k, load, gsid)
        PROVE  IInv'
    BY <1>0, <2>2, GetInv
  <2>3. ASSUME NEW found \in BOOLEAN, GetPortrait(k, found) PROVE IInv'
    <3> DEFINE x == [op |-> "portrait", char |-> Head(conns[k].ReadBuf).char, data |-> found]
    <3>1. Head(conns[k].ReadBuf) \in Requests
      BY <2>3, AtConnection DEF GetPortrait, Pending
    <3>2. x \in Replies /\ x.op # "get"
      BY <2>3, <3>1 DEF GetPortrait, Pending, Requests, Replies
    <3> QED BY <1>0, <2>3, <3>2, ReplyInv DEF GetPortrait, Pending
  <2>4. CASE SaveData(k)
    <3> DEFINE x == [op |-> "save", char |-> Head(conns[k].ReadBuf).char, data |-> FALSE]
    <3>1. Head(conns[k].ReadBuf) \in Requests
      BY <2>4, AtConnection DEF SaveData, Pending
    <3>2. x \in Replies /\ x.op # "get"
      BY <2>4, <3>1 DEF SaveData, Pending, Requests, Replies
    <3> QED BY <1>0, <2>4, <3>2, ReplyInv DEF SaveData, Pending
  <2>5. CASE CharLockRequest(k) \/ CharUnlockRequest(k)
    BY <1>0, <2>5, CharLockInv
  <2>6. CASE EchoReply(k)
    BY <1>0, <2>6, TakeInv DEF EchoReply, Pending
  <2> QED BY <1>2, <2>1, <2>2, <2>3, <2>4, <2>5, <2>6 DEF Handle
<1>3. ASSUME NEW k \in Live, Deliver(k) PROVE IInv'
  BY <1>0, <1>3, DeliverInv
<1>4. ASSUME NEW k \in Live, Fail(k) PROVE IInv'
  BY <1>0, <1>4, CloseStep DEF Fail
<1>5. ASSUME NEW k \in Live, GameServer(k) PROVE IInv'
  <2>1. ASSUME NEW x \in Requests, Send(k, x), loaded' = loaded, x.op \in {"hello", "echo"}
        PROVE  IInv'
    <3>1. \A c \in Chars : x \notin {GetOf(c), SaveOf(c), UnlockOf(c)}
      BY <2>1 DEF GetOf, SaveOf, UnlockOf
    <3> QED BY <1>0, <2>1, <3>1, AtConnection, SendOther, SendInv
  <2>2. CASE GsHello(k)
    <3>1. [op |-> "hello"] \in Requests
      BY DEF Requests
    <3> QED BY <2>1, <2>2, <3>1 DEF GsHello
  <2>3. ASSUME NEW op \in Ops, NEW c \in Chars, GsRequest(k, op, c) PROVE IInv'
    BY <1>0, <2>3, GsRequestInv
  <2>4. CASE GsEchoReply(k)
    <3>1. [op |-> "echo"] \in Requests
      BY DEF Requests
    <3> QED BY <2>1, <2>4, <3>1 DEF GsEchoReply
  <2>5. CASE GsHangs(k)
    BY <1>0, <2>5 DEF GsHangs, IInv, IdsInv, OneVerified, LockedByConnected, ClosedInv,
                      OrderInv, UseInv, Live
  <2> QED BY <1>5, <2>2, <2>3, <2>4, <2>5 DEF GameServer
<1>6. CASE Tick
  <2>1. ASSUME NEW k \in Live
        PROVE  /\ conns'[k].ipaddr = conns[k].ipaddr /\ conns'[k].serverid = conns[k].serverid
               /\ conns'[k].stats = conns[k].stats /\ conns'[k].verified = conns[k].verified
               /\ conns'[k].ReadBuf = conns[k].ReadBuf
               /\ conns'[k].WriteBuf = conns[k].WriteBuf
    BY <1>6, AtConnection DEF Tick, Connections
  <2>2. Live' = Live
    BY <1>6 DEF Tick, Live
  <2> QED BY <1>0, <1>6, <2>1, <2>2, TimerStep DEF Tick
<1>7. CASE Keepalive
  <2>1. ASSUME NEW k \in Live
        PROVE  /\ conns'[k].ipaddr = conns[k].ipaddr /\ conns'[k].serverid = conns[k].serverid
               /\ conns'[k].stats = conns[k].stats /\ conns'[k].verified = conns[k].verified
               /\ conns'[k].ReadBuf = conns[k].ReadBuf
               /\ conns'[k].WriteBuf \in {conns[k].WriteBuf, Append(conns[k].WriteBuf, EchoRequest)}
    BY <1>7, AtConnection DEF Keepalive, Connections
  <2>2. Live' = Live
    BY <1>7 DEF Keepalive, Live
  <2> QED BY <1>0, <1>7, <2>1, <2>2, TimerStep DEF Keepalive
<1>8. CASE CheckTimeout
  <2>1. TimedOut \in SUBSET Live
    BY DEF TimedOut
  <2> QED BY <1>0, <1>8, <2>1, CloseStep DEF CheckTimeout
<1>9. CASE Restart
  <2>1. Live' = {} /\ DOMAIN preset' = {}
    BY <1>9 DEF Restart, Live
  <2>2. LockedByConnected'
    BY <1>9 DEF Restart, LockedByConnected, IsLocked
  <2> QED BY <1>0, <1>9, <2>1, <2>2
          DEF Restart, IInv, IdsInv, OneVerified, ClosedInv, OrderInv, UseInv
<1>10. CASE UNCHANGED vars
  BY <1>10 DEF vars, IInv, TypeOK, IdsInv, OneVerified, LockedByConnected, ClosedInv, OrderInv,
               UseInv, Live
<1> QED BY <1>1, <1>2, <1>3, <1>4, <1>5, <1>6, <1>7, <1>8, <1>9, <1>10 DEF Next

LEMMA Inductive == Spec => []IInv
<1> QED BY InitInv, NextInv, PTL DEF Spec

-----------------------------------------------------------------------------
\* A locked character is locked for a server that is connected: however the
\* connections of d2dbs come and go, no lock outlives the last of its owner's.
THEOREM LockedByConnectedHolds == Spec => []LockedByConnected
<1>1. IInv => LockedByConnected
  BY DEF IInv
<1> QED BY Inductive, <1>1, PTL

\* What a server has got, or is being sent, it has the lock of.
THEOREM HeldIsLockedHolds == Spec => []HeldIsLocked
<1>1. IInv => HeldIsLocked
  <2> SUFFICES ASSUME IInv, NEW k \in Live, NEW c \in Chars, Holds(k, c)
               PROVE  lock[c] = conns[k].serverid
    BY DEF HeldIsLocked
  <2>1. Uses(conns[k].ReadBuf, conns[k].WriteBuf, c \in loaded[k], c)
    BY DEF Holds, Uses, Grant, Answer
  <2> QED BY <2>1, AtConnection
<1> QED BY Inductive, <1>1, PTL

\* No character is in play on two game servers, for any number of servers.
THEOREM NoTwoHoldersHolds == Spec => []NoTwoHolders
<1>1. IInv => NoTwoHolders
  <2> SUFFICES ASSUME IInv, NEW j \in Live, NEW k \in Live, NEW c \in Chars,
                      Holds(j, c), Holds(k, c)
               PROVE  j = k
    BY DEF NoTwoHolders
  <2>1. ASSUME NEW i \in Live, Holds(i, c)
        PROVE  conns[i].verified /\ lock[c] = conns[i].serverid
    <3>1. Uses(conns[i].ReadBuf, conns[i].WriteBuf, c \in loaded[i], c)
      BY <2>1 DEF Holds, Uses, Grant, Answer
    <3> QED BY <3>1, AtConnection
  <2> QED BY <2>1, OnePerServer DEF IInv
<1> QED BY Inductive, <1>1, PTL

\* A save that waits to be handled comes from the holder of the lock, which is
\* why dbs_packet_savedata need not look.
THEOREM SavesByHolderHolds == Spec => []SavesByHolder
<1>1. IInv => SavesByHolder
  <2> SUFFICES ASSUME IInv, NEW k \in Live, NEW c \in Chars,
                      Occurs([op |-> "save", char |-> c], conns[k].ReadBuf)
               PROVE  lock[c] = conns[k].serverid
    BY DEF SavesByHolder
  <2>1. Uses(conns[k].ReadBuf, conns[k].WriteBuf, c \in loaded[k], c)
    BY DEF Uses, SaveOf
  <2> QED BY <2>1, AtConnection
<1> QED BY Inductive, <1>1, PTL

-----------------------------------------------------------------------------
\* The inductive invariant.

\* A free entry of connarray is empty, so that no session is in use twice.
FreeInv == \A i \in DOMAIN freelist : sessions[freelist[i]] = NoSession

\* d2cs has one connection to bnetd at most: the one it knows.
OneLink == \A l \in 1..MaxLink : links[l].d # "closed" => dconn = l

\* Session numbers are given out in order; a client that has logged in, or
\* tried to, has named a session; one that is not there has nothing.
ClientsInv ==
  /\ \A k \in 1..MaxClient :
       /\ clients[k].st # "none" => k <= last.client
       /\ clients[k].st \in {"authed", "char_authed"} => clients[k].slot # 0
       /\ ~Alive(k) => clients[k].acct = None /\ clients[k].char = None
  /\ \A sq \in sqs : /\ sq.client <= last.client
                     /\ Alive(sq.client) => clients[sq.client].slot # 0

\* A seqno is that of one request.
AsksInv ==
  /\ \A x, y \in sqs : x.seqno = y.seqno => x = y
  /\ \A x \in sqs : x.seqno <= last.seqno

\* The packets that may be on the way.  A request is the one that d2cs keeps
\* under its seqno, if it keeps one; an answer is of the kind asked for, and
\* a good one says what bnetd has granted to the client that asked.
Kind(sq) == IF sq.req.op = "login" THEN "login" ELSE "char"
Given(sq) == <<sq.client, IF sq.req.op = "login" THEN sq.req.acct ELSE sq.req.char>>
Asked == {p \in ToB : p.op = "request" =>
            /\ p.sq.seqno <= last.seqno
            /\ \A x \in sqs : x.seqno = p.sq.seqno => x = p.sq}
Answered == {p \in ToD : p.op = "reply" =>
               /\ p.seqno <= last.seqno
               /\ \A x \in sqs : x.seqno = p.seqno =>
                    p.what = Kind(x) /\ (p.ok => Given(x) \in granted)}

AnswersInv ==
  \A l \in 1..MaxLink :
    links[l].d # "closed" => links[l].toB \in Seq(Asked) /\ links[l].toD \in Seq(Answered)

LoginInv == /\ LoginTypeOK /\ FreeInv /\ OneLink /\ ClientsInv /\ AsksInv /\ AnswersInv
            /\ GrantedByBnetd /\ ServedIsActive

-----------------------------------------------------------------------------
\* Lemmas about one connection between the programs.

\* A packet is put behind the others of its queue, or lost; nothing else of
\* the connection changes.
LEMMA PushedToB ==
  ASSUME NEW ls \in [1..MaxLink -> Link], NEW l \in 1..MaxLink, NEW r \in Link,
         NEW p \in ToB
  PROVE  \E q \in Link :
           /\ Pushed([ls EXCEPT ![l] = r], l, "toB", p) = [ls EXCEPT ![l] = q]
           /\ q.d = r.d /\ q.b = r.b /\ q.realm = r.realm /\ q.up = r.up
           /\ q.toD = r.toD /\ q.toB \in {r.toB, Append(r.toB, p)}
<1> DEFINE q == IF r.up THEN [r EXCEPT !.toB = Append(@, p)] ELSE r
<1>1. Append(r.toB, p) \in Seq(ToB)
  BY DEF Link
<1>2. q \in Link
  BY <1>1 DEF Link
<1>3. /\ q.d = r.d /\ q.b = r.b /\ q.realm = r.realm /\ q.up = r.up
      /\ q.toD = r.toD /\ q.toB \in {r.toB, Append(r.toB, p)}
  BY DEF Link
<1>4. Pushed([ls EXCEPT ![l] = r], l, "toB", p) = [ls EXCEPT ![l] = q]
  <2> DEFINE mid == [ls EXCEPT ![l] = r]
  <2>1. mid[l] = r /\ l # 0
    OBVIOUS
  <2>2. CASE r.up
    <3>1. Pushed(mid, l, "toB", p) = [mid EXCEPT ![l] = [r EXCEPT !.toB = Append(@, p)]]
      BY <2>1, <2>2 DEF Pushed
    <3> QED BY <2>2, <3>1
  <2>3. CASE ~r.up
    BY <2>1, <2>3 DEF Pushed
  <2> QED BY <2>2, <2>3
<1> QED BY <1>2, <1>3, <1>4

\* The same for a packet for d2cs.
LEMMA PushedToD ==
  ASSUME NEW ls \in [1..MaxLink -> Link], NEW l \in 1..MaxLink, NEW r \in Link,
         NEW p \in ToD
  PROVE  \E q \in Link :
           /\ Pushed([ls EXCEPT ![l] = r], l, "toD", p) = [ls EXCEPT ![l] = q]
           /\ q.d = r.d /\ q.b = r.b /\ q.realm = r.realm /\ q.up = r.up
           /\ q.toB = r.toB /\ q.toD \in {r.toD, Append(r.toD, p)}
<1> DEFINE q == IF r.up THEN [r EXCEPT !.toD = Append(@, p)] ELSE r
<1>1. Append(r.toD, p) \in Seq(ToD)
  BY DEF Link
<1>2. q \in Link
  BY <1>1 DEF Link
<1>3. /\ q.d = r.d /\ q.b = r.b /\ q.realm = r.realm /\ q.up = r.up
      /\ q.toB = r.toB /\ q.toD \in {r.toD, Append(r.toD, p)}
  BY DEF Link
<1>4. Pushed([ls EXCEPT ![l] = r], l, "toD", p) = [ls EXCEPT ![l] = q]
  <2> DEFINE mid == [ls EXCEPT ![l] = r]
  <2>1. mid[l] = r /\ l # 0
    OBVIOUS
  <2>2. CASE r.up
    <3>1. Pushed(mid, l, "toD", p) = [mid EXCEPT ![l] = [r EXCEPT !.toD = Append(@, p)]]
      BY <2>1, <2>2 DEF Pushed
    <3> QED BY <2>2, <3>1
  <2>3. CASE ~r.up
    BY <2>1, <2>3 DEF Pushed
  <2> QED BY <2>2, <2>3
<1> QED BY <1>2, <1>3, <1>4

\* Deactivating the realm marks one connection at most; if the realm's is the
\* one that is served, none is served afterwards.
LEMMA Deactivated ==
  ASSUME NEW r \in [active : BOOLEAN, conn : 0..MaxLink], NEW ls \in [1..MaxLink -> Link]
  PROVE  /\ realm_deactive(r, ls).realm \in [active : BOOLEAN, conn : 0..MaxLink]
         /\ ~realm_deactive(r, ls).realm.active
         /\ realm_deactive(r, ls).links \in [1..MaxLink -> Link]
         /\ \A m \in 1..MaxLink :
              /\ realm_deactive(r, ls).links[m] \in {ls[m], [ls[m] EXCEPT !.b = "destroy"]}
              /\ r.active /\ r.conn = m => realm_deactive(r, ls).links[m].b # "loggedin"
<1> DEFINE after == realm_deactive(r, ls)
<1>1. CASE ~r.active
  BY <1>1 DEF realm_deactive
<1>2. CASE r.active
  <2>1. /\ after.realm = [r EXCEPT !.active = FALSE]
        /\ [r EXCEPT !.active = FALSE] \in [active : BOOLEAN, conn : 0..MaxLink]
        /\ [r EXCEPT !.active = FALSE].active = FALSE
    BY <1>2 DEF realm_deactive
  <2>2. CASE r.conn = 0 \/ ls[r.conn].b = "closed"
    <3>1. after.links = ls
      BY <1>2, <2>2 DEF realm_deactive
    <3> HIDE DEF after
    <3>2. \A m \in 1..MaxLink : r.conn = m => ls[m].b # "loggedin"
      BY <2>2
    <3> QED BY <2>1, <3>1, <3>2 DEF after
  <2>3. CASE r.conn # 0 /\ ls[r.conn].b # "closed"
    <3> DEFINE k == r.conn
    <3>1. k \in 1..MaxLink /\ ls[k] \in Link
      BY <2>3, RealmLoginAssumption
    <3>2. after.links = [ls EXCEPT ![k] = [ls[k] EXCEPT !.b = "destroy"]]
      BY <1>2, <2>3 DEF realm_deactive
    <3>3. [ls[k] EXCEPT !.b = "destroy"] \in Link
          /\ [ls[k] EXCEPT !.b = "destroy"].b = "destroy"
      BY <3>1 DEF Link
    <3> HIDE DEF after, k
    <3>4. after.links \in [1..MaxLink -> Link]
      BY <3>1, <3>2, <3>3
    <3>5. ASSUME NEW m \in 1..MaxLink
          PROVE  /\ after.links[m] \in {ls[m], [ls[m] EXCEPT !.b = "destroy"]}
                 /\ k = m => after.links[m].b # "loggedin"
      <4>1. CASE m = k
        BY <3>1, <3>2, <3>3, <4>1
      <4>2. CASE m # k
        BY <3>1, <3>2, <4>2
      <4> QED BY <4>1, <4>2
    <3> QED BY <2>1, <3>4, <3>5 DEF after, k
  <2> QED BY <2>2, <2>3
<1> QED BY <1>1, <1>2

-----------------------------------------------------------------------------
\* What a conjunct of the invariant does not mention does not disturb it.
LEMMA Frames ==
  /\ FreeInv /\ UNCHANGED <<sessions, freelist>> => FreeInv'
  /\ OneLink /\ UNCHANGED <<links, dconn>> => OneLink'
  /\ ClientsInv /\ UNCHANGED <<clients, sqs, last>> => ClientsInv'
  /\ AsksInv /\ UNCHANGED <<sqs, last>> => AsksInv'
  /\ AnswersInv /\ UNCHANGED <<links, sqs, last, granted>> => AnswersInv'
  /\ GrantedByBnetd /\ UNCHANGED <<clients, granted>> => GrantedByBnetd'
  /\ ServedIsActive /\ UNCHANGED <<links, realm>> => ServedIsActive'
BY DEF FreeInv, OneLink, ClientsInv, AsksInv, AnswersInv, GrantedByBnetd, ServedIsActive,
       Alive, Asked, Answered

\* A sequence over a set is one over any greater set, and so are what is left
\* of it and what is made of it.
LEMMA Queues ==
  ASSUME NEW S, NEW T, S \subseteq T, NEW q \in Seq(S)
  PROVE  /\ q \in Seq(T) /\ <<>> \in Seq(T)
         /\ q # <<>> => Head(q) \in S /\ Tail(q) \in Seq(T)
         /\ \A p \in T : Append(q, p) \in Seq(T)
<1>1. q \in Seq(T)
  OBVIOUS
<1> QED BY <1>1

\* New requests take new seqnos, and what has been granted stays granted: a
\* packet that may be on the way still may be.
LEMMA PacketsStay ==
  ASSUME \A x \in sqs' : x \in sqs \/ x.seqno > last.seqno,
         LoginTypeOK, last'.seqno \in Nat, last'.seqno >= last.seqno, granted \subseteq granted'
  PROVE  Asked \subseteq Asked' /\ Answered \subseteq Answered'
<1>1. last.seqno \in Nat /\ last'.seqno \in Nat /\ sqs \subseteq Sq
  BY RealmLoginAssumption DEF LoginTypeOK
<1>2. ASSUME NEW p \in Asked PROVE p \in Asked'
  <2>1. CASE p.op = "request"
    <3>1. p.sq.seqno \in Nat /\ p \in ToB
      BY <2>1 DEF Asked, ToB, Sq
    <3> QED BY <1>1, <2>1, <3>1 DEF Asked
  <2>2. CASE p.op # "request"
    BY <2>2 DEF Asked
  <2> QED BY <2>1, <2>2
<1>3. ASSUME NEW p \in Answered PROVE p \in Answered'
  <2>1. CASE p.op = "reply"
    <3>1. p.seqno \in Nat /\ p \in ToD
      BY <2>1 DEF Answered, ToD
    <3> QED BY <1>1, <2>1, <3>1 DEF Answered, Given, Kind
  <2>2. CASE p.op # "reply"
    BY <2>2 DEF Answered
  <2> QED BY <2>1, <2>2
<1> QED BY <1>2, <1>3

\* A step that gives one connection new contents, all of which may be on the
\* way, and that takes nothing from what may be on the way elsewhere.
LEMMA OneConnection ==
  ASSUME LoginTypeOK, AnswersInv, Asked \subseteq Asked', Answered \subseteq Answered',
         NEW l \in 1..MaxLink, NEW r \in Link, links' = [links EXCEPT ![l] = r],
         r.d # "closed" => r.toB \in Seq(Asked') /\ r.toD \in Seq(Answered')
  PROVE  links' \in [1..MaxLink -> Link] /\ AnswersInv'
<1>1. links \in [1..MaxLink -> Link]
  BY DEF LoginTypeOK
<1>2. ASSUME NEW m \in 1..MaxLink, links'[m].d # "closed"
      PROVE  links'[m].toB \in Seq(Asked') /\ links'[m].toD \in Seq(Answered')
  <2>1. CASE m = l
    BY <1>1, <1>2, <2>1
  <2>2. CASE m # l
    <3>1. links'[m] = links[m]
      BY <1>1, <2>2
    <3>2. links[m].toB \in Seq(Asked) /\ links[m].toD \in Seq(Answered)
      BY <1>2, <3>1 DEF AnswersInv
    <3> QED BY <3>1, <3>2, Queues
  <2> QED BY <2>1, <2>2
<1> QED BY <1>1, <1>2 DEF AnswersInv

-----------------------------------------------------------------------------
\* The steps of bnetd.

\* Connections of players come and go: a session number is given to one player
\* at a time.
LEMMA PlayersStep ==
  ASSUME LoginInv,
         \/ \E u \in Accounts : connarray_add_conn(u)
         \/ \E s \in 1..Slots : client_realmjoinreq(s) \/ connarray_del_conn(s)
  PROVE  LoginInv'
<1> USE DEF LoginInv
<1>1. ASSUME NEW u \in Accounts, connarray_add_conn(u) PROVE LoginInv'
  <2>1. /\ Head(freelist) \in 1..Slots /\ Tail(freelist) \in Seq(1..Slots)
        /\ Len(freelist) \in Nat /\ freelist # <<>> /\ Len(Tail(freelist)) = Len(freelist) - 1
        /\ \A i \in 1..(Len(freelist) - 1) : Tail(freelist)[i] = freelist[i + 1]
    <3>1. freelist \in Seq(1..Slots) /\ freelist # <<>>
      BY <1>1 DEF connarray_add_conn, LoginTypeOK
    <3>2. /\ Head(freelist) \in 1..Slots /\ Tail(freelist) \in Seq(1..Slots)
          /\ Len(Tail(freelist)) = Len(freelist) - 1
          /\ \A i \in 1..Len(Tail(freelist)) : Tail(freelist)[i] = freelist[i + 1]
      BY <3>1, HeadTailProperties
    <3> QED BY <3>1, <3>2
  <2>2. \A i, j \in DOMAIN freelist : freelist[i] = freelist[j] => i = j
    BY DEF LoginTypeOK, IsInjective
  <2>3. LoginTypeOK'
    <3>1. sessions' \in [1..Slots -> Session \cup {NoSession}]
      BY <1>1, <2>1 DEF connarray_add_conn, LoginTypeOK, Session
    <3>2. freelist' \in Seq(1..Slots) /\ IsInjective(freelist')
      BY <1>1, <2>1, <2>2 DEF connarray_add_conn, IsInjective
    <3> QED BY <1>1, <3>1, <3>2 DEF connarray_add_conn, LoginTypeOK
  <2>4. FreeInv'
    <3>1. ASSUME NEW i \in DOMAIN freelist' PROVE sessions'[freelist'[i]] = NoSession
      <4>1. /\ i \in 1..(Len(freelist) - 1) /\ i + 1 \in DOMAIN freelist /\ 1 \in DOMAIN freelist
            /\ freelist'[i] = freelist[i + 1] /\ Head(freelist) = freelist[1]
        BY <1>1, <2>1, <3>1, SMTT(40) DEF connarray_add_conn, LoginTypeOK
      <4>2. freelist[i + 1] # Head(freelist) /\ sessions[freelist[i + 1]] = NoSession
        BY <2>2, <4>1 DEF FreeInv
      <4> QED BY <1>1, <4>1, <4>2 DEF connarray_add_conn, LoginTypeOK
    <3> QED BY <3>1 DEF FreeInv
  <2> QED BY <1>1, <2>3, <2>4, Frames DEF connarray_add_conn
<1>2. ASSUME NEW s \in 1..Slots, client_realmjoinreq(s) PROVE LoginInv'
  <2>1. sessions[s] \in Session
    BY <1>2, RealmLoginAssumption DEF client_realmjoinreq, LoginTypeOK, NoSession
  <2>2. LoginTypeOK'
    <3>1. [sessions[s] EXCEPT !.realm = TRUE] \in Session
      BY <2>1 DEF Session
    <3> QED BY <1>2, <3>1 DEF client_realmjoinreq, LoginTypeOK
  <2>3. FreeInv'
    <3>1. sessions[s] # NoSession
      BY <2>1, RealmLoginAssumption DEF Session, NoSession
    <3> QED BY <1>2, <3>1 DEF client_realmjoinreq, FreeInv, LoginTypeOK
  <2> QED BY <1>2, <2>2, <2>3, Frames DEF client_realmjoinreq
<1>3. ASSUME NEW s \in 1..Slots, connarray_del_conn(s) PROVE LoginInv'
  <2>1. \A i \in DOMAIN freelist : freelist[i] # s
    BY <1>3 DEF connarray_del_conn, FreeInv, NoSession
  <2>2. /\ Len(freelist) \in Nat /\ DOMAIN freelist = 1..Len(freelist)
        /\ freelist' = Append(freelist, s) /\ freelist' \in Seq(1..Slots)
        /\ Len(freelist') = Len(freelist) + 1
        /\ \A i \in 1..Len(freelist) : freelist'[i] = freelist[i]
        /\ freelist'[Len(freelist) + 1] = s
    BY <1>3 DEF connarray_del_conn, LoginTypeOK
  <2>3. LoginTypeOK'
    <3>1. sessions' \in [1..Slots -> Session \cup {NoSession}]
      BY <1>3 DEF connarray_del_conn, LoginTypeOK
    <3>2. IsInjective(freelist')
      BY <2>1, <2>2 DEF IsInjective, LoginTypeOK
    <3> QED BY <1>3, <2>2, <3>1, <3>2 DEF connarray_del_conn, LoginTypeOK
  <2>4. FreeInv'
    BY <1>3, <2>1, <2>2, SMTT(40) DEF connarray_del_conn, FreeInv, LoginTypeOK
  <2> QED BY <1>3, <2>3, <2>4, Frames DEF connarray_del_conn
<1> QED BY <1>1, <1>2, <1>3

\* bnetd handles the first packet of a connection; every packet may be on the
\* way, and so may the answer.
LEMMA BnetdHandlesStep ==
  ASSUME LoginInv, NEW l \in 1..MaxLink, BnetdHandles(l)
  PROVE  LoginInv'
<1> DEFINE p == Head(links[l].toB)
           t == [links[l] EXCEPT !.toB = Tail(@)]
           rest == [links EXCEPT ![l].toB = Tail(@)]
<1>1. /\ LoginTypeOK /\ FreeInv /\ OneLink /\ ClientsInv /\ AsksInv /\ AnswersInv
      /\ GrantedByBnetd /\ ServedIsActive
      /\ links \in [1..MaxLink -> Link] /\ links[l] \in Link
      /\ realm \in [active : BOOLEAN, conn : 0..MaxLink]
  BY SMTT(40) DEF LoginInv, LoginTypeOK
<1>2. /\ links[l].toB # <<>> /\ links[l].b \in {"init", "connected", "loggedin"}
      /\ UNCHANGED <<freelist, dconn, clients, sqs, owner, ingame, last, faults>>
  BY DEF BnetdHandles
<1>3. p \in ToB /\ (links[l].d # "closed" => p \in Asked)
  BY <1>1, <1>2 DEF Link, AnswersInv
<1>4. /\ t \in Link /\ rest = [links EXCEPT ![l] = t]
      /\ t.d = links[l].d /\ t.b = links[l].b /\ t.toB = Tail(links[l].toB)
      /\ t.toD = links[l].toD
  <2>1. Tail(links[l].toB) \in Seq(ToB)
    BY <1>1, <1>2 DEF Link
  <2> QED BY <1>1, <2>1 DEF Link
<1>5. t.d # "closed" => t.toB \in Seq(Asked) /\ t.toD \in Seq(Answered)
  BY <1>1, <1>2, <1>4 DEF AnswersInv
<1> HIDE DEF p, t, rest
\* A packet that is answered with `authreq' or not at all.
<1>6. ASSUME NEW r \in Link, links' = [links EXCEPT ![l] = r],
             UNCHANGED <<sessions, realm, granted>>,
             r.d = t.d, r.b # "loggedin" \/ r.b = links[l].b,
             r.toB = t.toB, r.toD \in {t.toD, Append(t.toD, [op |-> "authreq"])}
      PROVE  LoginInv'
  <2>1. [op |-> "authreq"] \in Answered
    BY DEF ToD, Answered
  <2>2. Asked' = Asked /\ Answered' = Answered
    BY <1>2, <1>6 DEF Asked, Answered
  <2>3. r.d # "closed" => r.toB \in Seq(Asked') /\ r.toD \in Seq(Answered')
    <3> DEFINE a == [op |-> "authreq"]
    <3>1. a \in Answered' /\ r.toD \in {t.toD, Append(t.toD, a)}
      BY <1>6, <2>1, <2>2
    <3> HIDE DEF a
    <3>2. r.d # "closed" => Append(t.toD, a) \in Seq(Answered')
      BY <1>5, <1>6, <2>2, <3>1
    <3> QED BY <1>5, <1>6, <2>2, <3>1, <3>2
  <2>4. links' \in [1..MaxLink -> Link] /\ AnswersInv'
    BY <1>1, <1>6, <2>2, <2>3, OneConnection
  <2>5. LoginTypeOK'
    BY <1>1, <1>2, <1>6, <2>4 DEF LoginTypeOK
  <2>6. OneLink' /\ ServedIsActive'
    BY <1>1, <1>2, <1>4, <1>6 DEF OneLink, ServedIsActive
  <2> QED BY <1>1, <1>2, <1>6, <2>4, <2>5, <2>6, Frames DEF LoginInv
<1>7. CASE /\ links[l].b = "init" /\ p.op = "init"
           /\ links' = Pushed([rest EXCEPT ![l].b = "connected"], l, "toD", [op |-> "authreq"])
           /\ UNCHANGED <<sessions, realm, granted>>
  <2>1. /\ [t EXCEPT !.b = "connected"] \in Link
        /\ [rest EXCEPT ![l].b = "connected"] = [links EXCEPT ![l] = [t EXCEPT !.b = "connected"]]
        /\ [op |-> "authreq"] \in ToD
    BY <1>1, <1>4 DEF Link, ToD
  <2>2. PICK q \in Link :
          /\ links' = [links EXCEPT ![l] = q] /\ q.d = t.d /\ q.b = "connected"
          /\ q.toB = t.toB /\ q.toD \in {t.toD, Append(t.toD, [op |-> "authreq"])}
    BY <1>1, <1>4, <1>7, <2>1, PushedToD, SMTT(40) DEF Link
  <2> QED BY <1>6, <1>7, <2>2
<1>8. CASE /\ links[l].b = "init" /\ p.op # "init"
           /\ links' = [rest EXCEPT ![l].b = "destroy"]
           /\ UNCHANGED <<sessions, realm, granted>>
  <2>1. /\ [t EXCEPT !.b = "destroy"] \in Link
        /\ links' = [links EXCEPT ![l] = [t EXCEPT !.b = "destroy"]]
    BY <1>1, <1>4, <1>8 DEF Link
  <2>2. PICK q \in Link : /\ links' = [links EXCEPT ![l] = q] /\ q.d = t.d /\ q.b = "destroy"
                          /\ q.toB = t.toB /\ q.toD = t.toD
    BY <1>4, <2>1 DEF Link
  <2> QED BY <1>6, <1>8, <2>2
<1>9. CASE /\ links[l].b = "connected" /\ p.op # "authreply"
           /\ links' = rest /\ UNCHANGED <<sessions, realm, granted>>
  BY <1>4, <1>6, <1>9
<1>10. CASE links[l].b = "connected" /\ p.op = "authreply" /\ on_d2cs_authreply(l)
  <2> DEFINE before == realm_deactive(realm, rest)
             u == [before.links[l] EXCEPT !.b = "loggedin", !.realm = TRUE]
             a == [op |-> "authreply"]
  <2>1. rest \in [1..MaxLink -> Link]
    BY <1>1, <1>4
  <2>2. /\ before.links \in [1..MaxLink -> Link]
        /\ \A m \in 1..MaxLink :
             /\ before.links[m] \in {rest[m], [rest[m] EXCEPT !.b = "destroy"]}
             /\ realm.active /\ realm.conn = m => before.links[m].b # "loggedin"
    BY <1>1, <2>1, Deactivated
  <2>3. /\ realm' = [active |-> TRUE, conn |-> l]
        /\ links' = Pushed([before.links EXCEPT ![l].b = "loggedin", ![l].realm = TRUE],
                           l, "toD", a)
        /\ UNCHANGED <<sessions, granted>>
    BY <1>10 DEF on_d2cs_authreply, realm_active, rest
  <2> HIDE DEF before
  <2>4. before.links[l] \in Link /\ rest[l] = t /\ a \in ToD
    BY <1>1, <1>4, <2>2 DEF ToD
  <2>5. /\ u \in Link /\ u.d = t.d /\ u.b = "loggedin" /\ u.toB = t.toB /\ u.toD = t.toD
    <3>1. before.links[l].d = t.d /\ before.links[l].toB = t.toB /\ before.links[l].toD = t.toD
      <4>1. before.links[l] \in {t, [t EXCEPT !.b = "destroy"]}
        BY <2>2, <2>4
      <4>2. t \in Link
        BY <1>4
      <4> QED BY <4>1, <4>2 DEF Link
    <3> QED BY <2>4, <3>1 DEF Link
  <2>6. [before.links EXCEPT ![l].b = "loggedin", ![l].realm = TRUE]
          = [before.links EXCEPT ![l] = u]
    BY <2>2
  <2> HIDE DEF u
  <2>7. PICK q \in Link :
          /\ links' = [before.links EXCEPT ![l] = q]
          /\ q.d = t.d /\ q.b = "loggedin" /\ q.toB = t.toB /\ q.toD \in {t.toD, Append(t.toD, a)}
    <3>1. links' = Pushed([before.links EXCEPT ![l] = u], l, "toD", a)
      BY <2>3, <2>6
    <3> HIDE DEF a
    <3>2. PICK q \in Link :
            /\ links' = [before.links EXCEPT ![l] = q]
            /\ q.d = u.d /\ q.b = u.b /\ q.toB = u.toB /\ q.toD \in {u.toD, Append(u.toD, a)}
      BY <2>2, <2>4, <2>5, <3>1, PushedToD, ZenonT(60)
    <3> QED BY <2>5, <3>2
  <2>8. ASSUME NEW m \in 1..MaxLink, m # l
        PROVE  /\ links'[m] \in Link /\ links'[m].d = links[m].d /\ links'[m].b # "loggedin"
               /\ links'[m].toB = links[m].toB /\ links'[m].toD = links[m].toD
    <3>1. rest[m] = links[m] /\ links[m] \in Link /\ links'[m] = before.links[m]
      BY <1>1, <1>4, <2>2, <2>7, <2>8
    <3>2. links[m].b = "loggedin" => realm.active /\ realm.conn = m
      BY <1>1 DEF ServedIsActive
    <3>3. /\ [links[m] EXCEPT !.b = "destroy"] \in Link
          /\ [links[m] EXCEPT !.b = "destroy"].b = "destroy"
          /\ [links[m] EXCEPT !.b = "destroy"].d = links[m].d
          /\ [links[m] EXCEPT !.b = "destroy"].toB = links[m].toB
          /\ [links[m] EXCEPT !.b = "destroy"].toD = links[m].toD
      BY <3>1 DEF Link
    <3> QED BY <2>2, <3>1, <3>2, <3>3, ZenonT(60)
  <2>9. links' \in [1..MaxLink -> Link] /\ links'[l] = q
    BY <2>2, <2>7
  <2>10. LoginTypeOK'
    <3>1. realm' \in [active : BOOLEAN, conn : 0..MaxLink]
      BY <2>3, RealmLoginAssumption
    <3> QED BY <1>1, <1>2, <2>3, <2>9, <3>1 DEF LoginTypeOK
  <2>11. OneLink' /\ ServedIsActive'
    BY <1>1, <1>2, <1>4, <2>3, <2>7, <2>8, <2>9, ZenonT(60) DEF OneLink, ServedIsActive
  <2>12. AnswersInv'
    <3>1. Asked' = Asked /\ Answered' = Answered /\ a \in Answered
      BY <1>2, <2>3 DEF Asked, Answered, ToD
    <3> HIDE DEF a
    <3>2. q.d # "closed" => q.toB \in Seq(Asked') /\ q.toD \in Seq(Answered')
      <4>1. q.d # "closed" => t.toB \in Seq(Asked') /\ t.toD \in Seq(Answered')
        BY <1>5, <2>7, <3>1
      <4>2. q.d # "closed" => Append(t.toD, a) \in Seq(Answered')
        BY <3>1, <4>1
      <4> QED BY <2>7, <4>1, <4>2 DEF a
    <3> QED BY <1>1, <2>8, <2>9, <3>1, <3>2 DEF AnswersInv
  <2> QED BY <1>1, <1>2, <2>3, <2>10, <2>11, <2>12, Frames DEF LoginInv
\* A request that is answered: the answer says what has been granted.
<1>11. ASSUME p.op = "request", NEW ok \in BOOLEAN,
              links[l].b = "loggedin", Reply(l, p.sq, Kind(p.sq), ok), UNCHANGED realm,
              granted' = IF ok THEN granted \cup {Given(p.sq)} ELSE granted,
              sessions' \in [1..Slots -> Session \cup {NoSession}], FreeInv'
       PROVE  LoginInv'
  <2> DEFINE a == [op |-> "reply", seqno |-> p.sq.seqno, what |-> Kind(p.sq), ok |-> ok]
  <2>1. p.sq \in Sq /\ Given(p.sq) \in (1..MaxClient) \X (Accounts \cup Characters)
    BY <1>3, <1>11 DEF ToB, Sq, Request, Given
  <2>2. a \in ToD
    BY <1>11, <2>1 DEF ToD, Sq, Kind
  <2>3. PICK q \in Link :
          /\ links' = [links EXCEPT ![l] = q]
          /\ q.d = t.d /\ q.b = t.b /\ q.toB = t.toB /\ q.toD \in {t.toD, Append(t.toD, a)}
    <3>1. links' = Pushed([links EXCEPT ![l] = t], l, "toD", a)
      BY <1>4, <1>11 DEF Reply, rest
    <3> HIDE DEF a
    <3> QED BY <1>1, <1>4, <2>2, <3>1, PushedToD, ZenonT(60)
  <2>4. granted \subseteq granted' /\ granted' \subseteq (1..MaxClient) \X (Accounts \cup Characters)
    BY <1>1, <1>11, <2>1 DEF LoginTypeOK
  <2>5. LoginTypeOK'
    <3>1. links' \in [1..MaxLink -> Link]
      BY <1>1, <2>3
    <3> QED BY <1>1, <1>2, <1>11, <2>4, <3>1 DEF LoginTypeOK
  <2>6. OneLink' /\ ServedIsActive'
    BY <1>1, <1>2, <1>4, <1>11, <2>3 DEF OneLink, ServedIsActive
  <2>7. Asked \subseteq Asked' /\ Answered \subseteq Answered'
    <3>1. last.seqno \in Nat
      BY <1>1, RealmLoginAssumption DEF LoginTypeOK
    <3> QED BY <1>1, <1>2, <2>4, <3>1, PacketsStay
  <2>8. ASSUME links[l].d # "closed" PROVE a \in Answered'
    <3>1. p.sq.seqno <= last.seqno /\ \A x \in sqs : x.seqno = p.sq.seqno => x = p.sq
      BY <1>3, <1>11, <2>8 DEF Asked
    <3>2. a.op = "reply" /\ a.seqno = p.sq.seqno /\ a.what = Kind(p.sq) /\ a.ok = ok
      OBVIOUS
    <3> HIDE DEF a
    <3>3. ok => Given(p.sq) \in granted'
      BY <1>11
    <3>4. a.seqno <= last'.seqno
          /\ \A x \in sqs' : x.seqno = a.seqno =>
               a.what = Kind(x) /\ (a.ok => Given(x) \in granted')
      BY <1>2, <3>1, <3>2, <3>3
    <3> QED BY <2>2, <3>4 DEF Answered, Given, Kind, a
  <2> HIDE DEF a
  <2>9. q.d # "closed" => q.toB \in Seq(Asked') /\ q.toD \in Seq(Answered')
    <3> SUFFICES ASSUME q.d # "closed"
                 PROVE  q.toB \in Seq(Asked') /\ q.toD \in Seq(Answered')
      OBVIOUS
    <3>1. t.toB \in Seq(Asked') /\ t.toD \in Seq(Answered')
      BY <1>5, <2>3, <2>7, Queues
    <3>2. a \in Answered'
      BY <1>4, <2>3, <2>8
    <3>3. Append(t.toD, a) \in Seq(Answered')
      BY <3>1, <3>2
    <3> QED BY <2>3, <3>1, <3>3
  <2>10. AnswersInv'
    BY <1>1, <2>3, <2>7, <2>9, OneConnection
  <2>11. GrantedByBnetd'
    BY <1>1, <1>2, <2>4 DEF GrantedByBnetd
  <2> QED BY <1>1, <1>2, <1>11, <2>5, <2>6, <2>10, <2>11, Frames DEF LoginInv
<1>12. CASE /\ links[l].b = "loggedin" /\ p.op = "request" /\ p.sq.req.op = "login"
            /\ on_d2cs_accountloginreq(l, p.sq)
  <2>1. AccountAccepted(p.sq.req) \in BOOLEAN
    BY DEF AccountAccepted
  <2>2. /\ Reply(l, p.sq, Kind(p.sq), AccountAccepted(p.sq.req)) /\ UNCHANGED <<sessions, realm>>
        /\ granted' = IF AccountAccepted(p.sq.req) THEN granted \cup {Given(p.sq)} ELSE granted
    BY <1>12 DEF on_d2cs_accountloginreq, Kind, Given
  <2>3. sessions' \in [1..Slots -> Session \cup {NoSession}] /\ FreeInv'
    BY <1>1, <1>2, <2>2, Frames DEF LoginTypeOK
  <2> QED BY <1>11, <1>12, <2>1, <2>2, <2>3
<1>13. CASE /\ links[l].b = "loggedin" /\ p.op = "request" /\ p.sq.req.op # "login"
            /\ on_d2cs_charloginreq(l, p.sq)
  <2> DEFINE s == p.sq.req.slot
             ok == CharAccepted(p.sq.req)
  <2>1. s \in 1..Slots /\ p.sq.req.char \in Characters
    BY <1>3, <1>13 DEF ToB, Sq, Request
  <2>2. ok => sessions[s] \in Session /\ sessions[s] # NoSession
    BY <1>1, <2>1, RealmLoginAssumption, SMTT(40) DEF CharAccepted, LoginTypeOK, NoSession
  <2>3. ok \in BOOLEAN
    BY <1>1, <2>1 DEF CharAccepted, LoginTypeOK, Session, NoSession
  <2>4. sessions' = IF ok THEN [sessions EXCEPT ![s].char = p.sq.req.char] ELSE sessions
    BY <1>13 DEF on_d2cs_charloginreq
  <2>5. /\ Reply(l, p.sq, Kind(p.sq), ok) /\ UNCHANGED realm
        /\ granted' = IF ok THEN granted \cup {Given(p.sq)} ELSE granted
    BY <1>13 DEF on_d2cs_charloginreq, Given, Kind
  <2> HIDE DEF ok
  <2>6. sessions' \in [1..Slots -> Session \cup {NoSession}]
    <3>1. ok => [sessions[s] EXCEPT !.char = p.sq.req.char] \in Session
      BY <2>1, <2>2 DEF Session
    <3> QED BY <1>1, <2>1, <2>4, <3>1 DEF LoginTypeOK
  <2>7. FreeInv'
    BY <1>1, <1>2, <2>1, <2>2, <2>4 DEF FreeInv, LoginTypeOK
  <2> QED BY <1>11, <1>13, <2>3, <2>5, <2>6, <2>7
<1> QED BY <1>7, <1>8, <1>9, <1>10, <1>12, <1>13 DEF BnetdHandles, p, rest

\* bnetd's other steps only give a connection another state, or end it.
LEMMA BnetdOtherStep ==
  ASSUME LoginInv,
         \/ \E l \in 1..MaxLink : BnetdNotices(l) \/ conn_destroy(l)
         \/ realmlist_reload
  PROVE  LoginInv'
<1>1. /\ LoginTypeOK /\ FreeInv /\ OneLink /\ ClientsInv /\ AsksInv /\ AnswersInv
      /\ GrantedByBnetd /\ ServedIsActive
      /\ links \in [1..MaxLink -> Link]
      /\ realm \in [active : BOOLEAN, conn : 0..MaxLink]
  BY DEF LoginInv, LoginTypeOK
<1>2. ASSUME UNCHANGED <<sessions, freelist, dconn, clients, sqs, owner, ingame, last, granted>>,
             faults' \in 0..MaxFaults, realm' \in [active : BOOLEAN, conn : 0..MaxLink],
             links' \in [1..MaxLink -> Link],
             \A m \in 1..MaxLink :
               /\ links'[m].d = links[m].d
               /\ links'[m].toB \in {links[m].toB, <<>>} /\ links'[m].toD = links[m].toD,
             ServedIsActive'
      PROVE  LoginInv'
  <2>1. LoginTypeOK'
    BY <1>1, <1>2 DEF LoginTypeOK
  <2>2. OneLink'
    BY <1>1, <1>2 DEF OneLink
  <2>3. AnswersInv'
    <3>1. Asked' = Asked /\ Answered' = Answered
      BY <1>2 DEF Asked, Answered
    <3>2. <<>> \in Seq(Asked)
      OBVIOUS
    <3>3. \A m \in 1..MaxLink : links[m].d # "closed" =>
            links'[m].toB \in Seq(Asked) /\ links'[m].toD \in Seq(Answered)
      BY <1>1, <1>2, <3>2 DEF AnswersInv
    <3> QED BY <1>2, <3>1, <3>3 DEF AnswersInv
  <2> QED BY <1>1, <1>2, <2>1, <2>2, <2>3, Frames DEF LoginInv
<1>3. ASSUME NEW l \in 1..MaxLink, BnetdNotices(l) PROVE LoginInv'
  <2> DEFINE r == [links[l] EXCEPT !.b = "destroy"]
  <2>1. /\ r \in Link /\ r.d = links[l].d /\ r.b = "destroy" /\ r.toB = links[l].toB
        /\ r.toD = links[l].toD
    BY <1>1 DEF Link
  <2>2. /\ links' = [links EXCEPT ![l] = r]
        /\ UNCHANGED <<sessions, freelist, realm, dconn, clients, sqs, owner, ingame, last,
                       faults, granted>>
    BY <1>3 DEF BnetdNotices
  <2> HIDE DEF r
  <2>3. ServedIsActive'
    BY <1>1, <2>1, <2>2 DEF ServedIsActive
  <2>4. faults' \in 0..MaxFaults
    BY <1>1, <2>2 DEF LoginTypeOK
  <2> QED BY <1>1, <1>2, <2>1, <2>2, <2>3, <2>4
<1>4. ASSUME NEW m \in 1..MaxLink
      PROVE  LET after == realm_deactive(realm, links)
             IN  /\ after.links[m] \in Link /\ after.links[m].d = links[m].d
                 /\ after.links[m].toB = links[m].toB /\ after.links[m].toD = links[m].toD
                 /\ after.links[m].b # "loggedin"
  <2> DEFINE after == realm_deactive(realm, links)
  <2>1. after.links[m] \in {links[m], [links[m] EXCEPT !.b = "destroy"]}
        /\ (realm.active /\ realm.conn = m => after.links[m].b # "loggedin")
    BY <1>1, Deactivated
  <2>2. links[m] \in Link /\ (links[m].b = "loggedin" => realm.active /\ realm.conn = m)
    BY <1>1 DEF ServedIsActive
  <2> HIDE DEF after
  <2>3. after.links[m] \in Link /\ after.links[m].d = links[m].d
        /\ after.links[m].toB = links[m].toB /\ after.links[m].toD = links[m].toD
    BY <2>1, <2>2 DEF Link
  <2>4. after.links[m].b # "loggedin"
    BY <2>1, <2>2 DEF Link
  <2> QED BY <2>3, <2>4 DEF after
<1>5. ASSUME realmlist_reload PROVE LoginInv'
  <2>1. /\ links' = realm_deactive(realm, links).links
        /\ realm' = [active |-> FALSE, conn |-> 0] /\ faults' = faults + 1 /\ faults < MaxFaults
        /\ UNCHANGED <<sessions, freelist, dconn, clients, sqs, owner, ingame, last, granted>>
    BY <1>5 DEF realmlist_reload
  <2>2. links' \in [1..MaxLink -> Link]
    BY <1>1, <2>1, Deactivated
  <2>3. realm' \in [active : BOOLEAN, conn : 0..MaxLink] /\ faults' \in 0..MaxFaults
    BY <1>1, <2>1, RealmLoginAssumption, SMTT(40) DEF LoginTypeOK
  <2>4. ServedIsActive'
    BY <1>4, <2>1 DEF ServedIsActive
  <2> QED BY <1>2, <1>4, <2>1, <2>2, <2>3, <2>4
<1>6. ASSUME NEW l \in 1..MaxLink, conn_destroy(l) PROVE LoginInv'
  <2> DEFINE after == IF links[l].realm THEN realm_deactive(realm, links)
                      ELSE [realm |-> realm, links |-> links]
             r == [after.links[l] EXCEPT !.b = "closed", !.realm = FALSE, !.toB = <<>>]
             ls == [after.links EXCEPT ![l].b = "closed", ![l].realm = FALSE, ![l].toB = <<>>]
  <2>1. /\ realm' = after.realm
        /\ links' = IF ls[l].d = "closed" THEN [ls EXCEPT ![l] = NoLink] ELSE ls
        /\ links[l].b = "destroy"
        /\ UNCHANGED <<sessions, freelist, dconn, clients, sqs, owner, ingame, last, faults,
                       granted>>
    BY <1>6, ZenonT(60) DEF conn_destroy
  <2>2. after.links \in [1..MaxLink -> Link] /\ realm' \in [active : BOOLEAN, conn : 0..MaxLink]
    BY <1>1, <2>1, Deactivated
  <2>3. ASSUME NEW m \in 1..MaxLink
        PROVE  /\ after.links[m] \in Link /\ after.links[m].d = links[m].d
               /\ after.links[m].toB = links[m].toB /\ after.links[m].toD = links[m].toD
               /\ after.links[m].b = "loggedin" => realm' = realm /\ links[m].b = "loggedin"
    <3>1. CASE links[l].realm
      BY <1>4, <3>1
    <3>2. CASE ~links[l].realm
      BY <1>1, <2>1, <3>2
    <3> QED BY <3>1, <3>2
  <2> HIDE DEF after
  <2>4. /\ r \in Link /\ r.d = links[l].d /\ r.b = "closed" /\ r.toB = <<>>
        /\ r.toD = links[l].toD
    <3>1. after.links[l] \in Link /\ <<>> \in Seq(ToB)
      BY <2>3
    <3>2. r \in Link /\ r.d = after.links[l].d /\ r.b = "closed" /\ r.toB = <<>>
          /\ r.toD = after.links[l].toD
      BY <3>1 DEF Link
    <3> QED BY <2>3, <3>2
  <2>5. ls = [after.links EXCEPT ![l] = r]
    BY <2>2
  <2> HIDE DEF r, ls
  <2>6. PICK q \in Link : links' = [after.links EXCEPT ![l] = q] /\ q.b = "closed"
                          /\ q.toB = <<>> /\ q.d = links[l].d
                          /\ (q = r \/ (q = NoLink /\ links[l].d = "closed"))
    <3>1. ls[l] = r
      BY <2>2, <2>5
    <3>2. CASE r.d = "closed"
      <4>1. links' = [after.links EXCEPT ![l] = NoLink]
        BY <2>1, <2>5, <3>1, <3>2
      <4>2. NoLink \in Link /\ NoLink.b = "closed" /\ NoLink.toB = <<>> /\ NoLink.d = "closed"
        BY DEF NoLink, Link
      <4> QED BY <2>4, <3>2, <4>1, <4>2
    <3>3. CASE r.d # "closed"
      BY <2>1, <2>4, <2>5, <3>1, <3>3
    <3> QED BY <3>2, <3>3
  <2>7. links' \in [1..MaxLink -> Link]
    BY <2>2, <2>6
  <2>8. ServedIsActive'
    BY <1>1, <2>2, <2>3, <2>6 DEF ServedIsActive
  <2>9. LoginTypeOK'
    BY <1>1, <2>1, <2>2, <2>7 DEF LoginTypeOK
  <2>10. OneLink'
    BY <1>1, <2>1, <2>2, <2>3, <2>6, ZenonT(60) DEF OneLink
  <2>11. AnswersInv'
    <3>1. Asked' = Asked /\ Answered' = Answered
      BY <2>1 DEF Asked, Answered
    <3>2. ASSUME NEW m \in 1..MaxLink, links'[m].d # "closed"
          PROVE  links'[m].toB \in Seq(Asked) /\ links'[m].toD \in Seq(Answered)
      <4>1. CASE m = l
        <5>1. links'[l] = q
          BY <2>2, <2>6
        <5>2. links[l].d # "closed" /\ q = r
          BY <2>6, <3>2, <4>1, <5>1
        <5>3. <<>> \in Seq(Asked)
          OBVIOUS
        <5> QED BY <1>1, <2>4, <4>1, <5>1, <5>2, <5>3 DEF AnswersInv
      <4>2. CASE m # l
        BY <1>1, <2>2, <2>3, <2>6, <3>2, <4>2 DEF AnswersInv
      <4> QED BY <4>1, <4>2
    <3> QED BY <3>1, <3>2 DEF AnswersInv
  <2> QED BY <1>1, <2>1, <2>8, <2>9, <2>10, <2>11, Frames DEF LoginInv
<1> QED BY <1>3, <1>5, <1>6

-----------------------------------------------------------------------------
\* The steps of d2cs on its connection to bnetd.

\* Closing its end leaves bnetd's state of the connection.
LEMMA ClosedFields ==
  ASSUME NEW ls \in [1..MaxLink -> Link], NEW l \in 1..MaxLink
  PROVE  \E q \in Link : Closed(ls, l) = [ls EXCEPT ![l] = q] /\ q.d = "closed" /\ q.b = ls[l].b
<1>1. CASE ls[l].b = "closed"
  <2>1. NoLink \in Link /\ NoLink.d = "closed" /\ NoLink.b = "closed"
    BY DEF NoLink, Link
  <2> QED BY <1>1, <2>1 DEF Closed
<1>2. CASE ls[l].b # "closed"
  <2> DEFINE q == [ls[l] EXCEPT !.d = "closed", !.toD = <<>>]
  <2>1. q \in Link /\ q.d = "closed" /\ q.b = ls[l].b
    <3>1. ls[l] \in Link /\ <<>> \in Seq(ToD)
      OBVIOUS
    <3> QED BY <3>1 DEF Link
  <2>2. Closed(ls, l) = [ls EXCEPT ![l] = q]
    BY <1>2 DEF Closed
  <2> QED BY <2>1, <2>2
<1> QED BY <1>1, <1>2

\* One connection of a player changes, in a way that bnetd has granted.
LEMMA OneClient ==
  ASSUME LoginTypeOK, ClientsInv, GrantedByBnetd, granted' = granted,
         NEW k \in 1..MaxClient, NEW c \in Client, clients' = [clients EXCEPT ![k] = c],
         last' \in [client : 0..MaxClient, seqno : 0..MaxSeqno],
         last.client <= last'.client, c.st # "none" => k <= last'.client,
         c.st \in {"authed", "char_authed"} => c.slot # 0,
         c.st \notin {"connected", "authed", "char_authed"} => c.acct = None /\ c.char = None,
         c.acct # None => <<k, c.acct>> \in granted,
         c.char # None => <<k, c.char>> \in granted,
         \A sq \in sqs' : sq \in sqs \/ (sq.client = k /\ k <= last'.client),
         c.st \in {"connected", "authed", "char_authed"} =>
           \A sq \in sqs' : sq.client = k => c.slot # 0
  PROVE  clients' \in [1..MaxClient -> Client] /\ ClientsInv' /\ GrantedByBnetd'
<1>1. /\ clients \in [1..MaxClient -> Client] /\ sqs \subseteq Sq
      /\ last \in [client : 0..MaxClient, seqno : 0..MaxSeqno] /\ MaxClient \in Nat
  BY RealmLoginAssumption DEF LoginTypeOK
<1>2. clients' \in [1..MaxClient -> Client] /\ clients'[k] = c
  BY <1>1
<1>3. \A j \in 1..MaxClient : j # k => clients'[j] = clients[j]
  BY <1>1
<1>4. ASSUME NEW j \in 1..MaxClient
      PROVE  /\ clients'[j].st # "none" => j <= last'.client
             /\ clients'[j].st \in {"authed", "char_authed"} => clients'[j].slot # 0
             /\ ~Alive(j)' => clients'[j].acct = None /\ clients'[j].char = None
             /\ clients'[j].acct # None => <<j, clients'[j].acct>> \in granted'
             /\ clients'[j].char # None => <<j, clients'[j].char>> \in granted'
  <2>1. CASE j = k
    BY <1>2, <2>1 DEF Alive
  <2>2. CASE j # k
    <3>1. clients'[j] = clients[j] /\ j \in Nat /\ last.client \in Nat /\ last'.client \in Nat
      BY <1>1, <1>3, <2>2
    <3> QED BY <3>1 DEF ClientsInv, GrantedByBnetd, Alive
  <2> QED BY <2>1, <2>2
<1>5. ASSUME NEW sq \in sqs'
      PROVE  sq.client <= last'.client /\ (Alive(sq.client)' => clients'[sq.client].slot # 0)
  <2>1. CASE sq.client = k
    <3>1. sq.client <= last'.client
      <4>1. CASE sq \in sqs
        <5>1. sq.client \in Nat /\ sq.client <= last.client
          BY <1>1, <4>1 DEF Sq, ClientsInv
        <5> QED BY <1>1, <5>1
      <4> QED BY <2>1, <4>1
    <3> QED BY <1>2, <2>1, <3>1 DEF Alive
  <2>2. CASE sq.client # k
    <3>1. sq \in sqs
      BY <2>2
    <3>2. sq.client \in 1..MaxClient
      BY <1>1, <3>1 DEF Sq
    <3>3. clients'[sq.client] = clients[sq.client]
      BY <1>3, <2>2, <3>2
    <3>4. sq.client <= last.client /\ (Alive(sq.client) => clients[sq.client].slot # 0)
      BY <3>1, SMTT(40) DEF ClientsInv
    <3> QED BY <1>1, <3>2, <3>3, <3>4 DEF Alive
  <2> QED BY <2>1, <2>2
<1> QED BY <1>2, <1>4, <1>5 DEF ClientsInv, GrantedByBnetd

\* d2cs handles the first packet of its connection.
LEMMA D2csHandlesStep ==
  ASSUME LoginInv, NEW l \in 1..MaxLink, D2csHandles(l)
  PROVE  LoginInv'
<1> DEFINE p == Head(links[l].toD)
           t == [links[l] EXCEPT !.toD = Tail(@)]
           rest == [links EXCEPT ![l].toD = Tail(@)]
           asked == {sq \in sqs : p.op = "reply" /\ sq.seqno = p.seqno}
<1>1. /\ LoginTypeOK /\ FreeInv /\ OneLink /\ ClientsInv /\ AsksInv /\ AnswersInv
      /\ GrantedByBnetd /\ ServedIsActive
      /\ links \in [1..MaxLink -> Link] /\ links[l] \in Link
      /\ last \in [client : 0..MaxClient, seqno : 0..MaxSeqno]
  BY SMTT(40) DEF LoginInv, LoginTypeOK
<1>2. /\ links[l].toD # <<>> /\ links[l].d \in {"connected", "authed"}
      /\ UNCHANGED <<sessions, freelist, realm, dconn, owner, ingame, last, faults, granted>>
  BY DEF D2csHandles
<1>3. /\ t \in Link /\ rest = [links EXCEPT ![l] = t]
      /\ t.d = links[l].d /\ t.b = links[l].b /\ t.toD = Tail(links[l].toD)
      /\ t.toB = links[l].toB
  <2>1. Tail(links[l].toD) \in Seq(ToD)
    BY <1>1, <1>2 DEF Link
  <2> QED BY <1>1, <2>1 DEF Link
<1>4. p \in Answered /\ t.toB \in Seq(Asked) /\ t.toD \in Seq(Answered)
  BY <1>1, <1>2, <1>3 DEF AnswersInv
<1> HIDE DEF p, t, rest
\* The packets that remain, and the one that may be sent.
<1>5. ASSUME NEW r \in Link, links' = [links EXCEPT ![l] = r],
             r.d # "closed", r.b = links[l].b, r.toD = t.toD,
             r.toB \in {t.toB, Append(t.toB, [op |-> "authreply"])}, sqs' \subseteq sqs
      PROVE  links' \in [1..MaxLink -> Link] /\ OneLink' /\ AnswersInv' /\ ServedIsActive'
  <2> DEFINE a == [op |-> "authreply"]
  <2>1. Asked \subseteq Asked' /\ Answered \subseteq Answered'
    <3>1. last.seqno \in Nat
      BY <1>1, RealmLoginAssumption
    <3> QED BY <1>1, <1>2, <1>5, <3>1, PacketsStay
  <2>2. a \in Asked' /\ r.toB \in {t.toB, Append(t.toB, a)}
    BY <1>5 DEF Asked, ToB
  <2> HIDE DEF a
  <2>3. t.toB \in Seq(Asked') /\ t.toD \in Seq(Answered')
    BY <1>4, <2>1, Queues
  <2>4. Append(t.toB, a) \in Seq(Asked')
    BY <2>2, <2>3
  <2>5. links' \in [1..MaxLink -> Link] /\ AnswersInv'
    BY <1>1, <1>5, <2>1, <2>2, <2>3, <2>4, OneConnection
  <2>6. OneLink' /\ ServedIsActive'
    BY <1>1, <1>2, <1>5 DEF OneLink, ServedIsActive
  <2> QED BY <2>5, <2>6
<1>6. CASE /\ p.op = "authreq" /\ links[l].d = "connected"
           /\ links' = Pushed(rest, l, "toB", [op |-> "authreply"])
           /\ UNCHANGED <<clients, sqs>>
  <2> DEFINE a == [op |-> "authreply"]
  <2>1. a \in ToB /\ links' = Pushed([links EXCEPT ![l] = t], l, "toB", a)
    BY <1>3, <1>6 DEF ToB
  <2> HIDE DEF a
  <2>2. PICK q \in Link : /\ links' = [links EXCEPT ![l] = q] /\ q.d = t.d /\ q.b = t.b
                          /\ q.toD = t.toD /\ q.toB \in {t.toB, Append(t.toB, a)}
    BY <1>1, <1>3, <2>1, PushedToB, ZenonT(60)
  <2>3. links' \in [1..MaxLink -> Link] /\ OneLink' /\ AnswersInv' /\ ServedIsActive'
    BY <1>2, <1>3, <1>5, <1>6, <2>2 DEF a
  <2>4. LoginTypeOK'
    BY <1>1, <1>2, <1>6, <2>3 DEF LoginTypeOK
  <2> QED BY <1>1, <1>2, <1>6, <2>3, <2>4, Frames DEF LoginInv
<1>7. CASE /\ p.op = "authreply" /\ links[l].d = "connected"
           /\ links' = [rest EXCEPT ![l].d = "authed"] /\ UNCHANGED <<clients, sqs>>
  <2>1. /\ [t EXCEPT !.d = "authed"] \in Link
        /\ links' = [links EXCEPT ![l] = [t EXCEPT !.d = "authed"]]
    BY <1>1, <1>3, <1>7 DEF Link
  <2>2. PICK q \in Link : /\ links' = [links EXCEPT ![l] = q] /\ q.d = "authed" /\ q.b = t.b
                          /\ q.toB = t.toB /\ q.toD = t.toD
    BY <1>3, <2>1 DEF Link
  <2>3. links' \in [1..MaxLink -> Link] /\ OneLink' /\ AnswersInv' /\ ServedIsActive'
    BY <1>3, <1>5, <1>7, <2>2
  <2>4. LoginTypeOK'
    BY <1>1, <1>2, <1>7, <2>3 DEF LoginTypeOK
  <2> QED BY <1>1, <1>2, <1>7, <2>3, <2>4, Frames DEF LoginInv
<1>8. CASE p.op = "reply" /\ asked = {} /\ links' = rest /\ UNCHANGED <<clients, sqs>>
  <2>1. links' \in [1..MaxLink -> Link] /\ OneLink' /\ AnswersInv' /\ ServedIsActive'
    BY <1>2, <1>3, <1>5, <1>8
  <2>2. LoginTypeOK'
    BY <1>1, <1>2, <1>8, <2>1 DEF LoginTypeOK
  <2> QED BY <1>1, <1>2, <1>8, <2>1, <2>2, Frames DEF LoginInv
\* The answer is for the request that has its seqno, and of its kind.
<1>9. ASSUME NEW sq \in asked, links' = rest,
             IF p.what = "login" THEN on_bnetd_accountloginreply(sq, p.ok)
             ELSE on_bnetd_charloginreply(sq, p.ok)
      PROVE  LoginInv'
  <2> DEFINE k == sq.client
  <2>1. /\ sq \in sqs /\ sq \in Sq /\ k \in 1..MaxClient /\ sq.req \in Request
        /\ p.what = Kind(sq) /\ (p.ok => Given(sq) \in granted)
    BY <1>1, <1>4, <1>9 DEF Answered, LoginTypeOK, Sq
  <2>2. /\ sqs' = sqs \ {sq}
        /\ \/ clients' = clients
           \/ /\ Kind(sq) = "login" /\ p.ok /\ Alive(k)
              /\ clients' = [clients EXCEPT ![k] = [clients[k] EXCEPT !.acct = sq.req.acct,
                                                                    !.st = "authed"]]
           \/ /\ Kind(sq) = "char" /\ p.ok /\ Alive(k)
              /\ clients' = [clients EXCEPT ![k] = [clients[k] EXCEPT !.char = sq.req.char,
                                                                    !.st = "char_authed"]]
    BY <1>9, <2>1 DEF on_bnetd_accountloginreply, on_bnetd_charloginreply, Kind
  <2>3. links' \in [1..MaxLink -> Link] /\ OneLink' /\ AnswersInv' /\ ServedIsActive'
    BY <1>2, <1>3, <1>5, <1>9, <2>2
  <2>4. clients \in [1..MaxClient -> Client] /\ clients[k] \in Client
    BY <1>1, <2>1 DEF LoginTypeOK
  <2>5. last.client \in Nat /\ (Alive(k) => clients[k].slot # 0 /\ k <= last.client)
    BY <1>1, <2>1, RealmLoginAssumption DEF ClientsInv, Alive
  <2>6. /\ clients[k].acct # None => <<k, clients[k].acct>> \in granted
        /\ clients[k].char # None => <<k, clients[k].char>> \in granted
    BY <1>1, <2>1 DEF GrantedByBnetd
  <2>7. clients' \in [1..MaxClient -> Client] /\ ClientsInv' /\ GrantedByBnetd'
    <3>1. CASE clients' = clients
      BY <1>1, <1>2, <2>2, <2>4, <3>1 DEF ClientsInv, GrantedByBnetd, Alive
    <3>2. CASE /\ Kind(sq) = "login" /\ p.ok /\ Alive(k)
               /\ clients' = [clients EXCEPT ![k] = [clients[k] EXCEPT !.acct = sq.req.acct,
                                                                     !.st = "authed"]]
      <4> DEFINE c == [clients[k] EXCEPT !.acct = sq.req.acct, !.st = "authed"]
      <4>1. sq.req.acct \in Accounts /\ <<k, sq.req.acct>> \in granted
        BY <2>1, <3>2 DEF Kind, Given, Request
      <4>2. /\ c \in Client /\ c.st = "authed" /\ c.acct = sq.req.acct
            /\ c.char = clients[k].char /\ c.slot = clients[k].slot
        BY <2>4, <4>1 DEF Client
      <4>3. clients' = [clients EXCEPT ![k] = c]
        BY <3>2
      <4> HIDE DEF c
      <4>4. /\ last' \in [client : 0..MaxClient, seqno : 0..MaxSeqno] /\ granted' = granted
            /\ last.client <= last'.client /\ k <= last'.client /\ c.slot # 0
            /\ c.st \in {"authed", "char_authed"}
        BY <1>1, <1>2, <2>5, <3>2, <4>2
      <4>5. /\ c.acct # None => <<k, c.acct>> \in granted
            /\ c.char # None => <<k, c.char>> \in granted
        BY <2>6, <4>1, <4>2
      <4>6. \A x \in sqs' : x \in sqs
        BY <2>2
      <4> HIDE DEF k
      <4> QED BY <1>1, <2>1, <4>2, <4>3, <4>4, <4>5, <4>6, OneClient
    <3>3. CASE /\ Kind(sq) = "char" /\ p.ok /\ Alive(k)
               /\ clients' = [clients EXCEPT ![k] = [clients[k] EXCEPT !.char = sq.req.char,
                                                                     !.st = "char_authed"]]
      <4> DEFINE c == [clients[k] EXCEPT !.char = sq.req.char, !.st = "char_authed"]
      <4>1. sq.req.char \in Characters /\ <<k, sq.req.char>> \in granted
        BY <2>1, <3>3 DEF Kind, Given, Request
      <4>2. /\ c \in Client /\ c.st = "char_authed" /\ c.char = sq.req.char
            /\ c.acct = clients[k].acct /\ c.slot = clients[k].slot
        BY <2>4, <4>1 DEF Client
      <4>3. clients' = [clients EXCEPT ![k] = c]
        BY <3>3
      <4> HIDE DEF c
      <4>4. /\ last' \in [client : 0..MaxClient, seqno : 0..MaxSeqno] /\ granted' = granted
            /\ last.client <= last'.client /\ k <= last'.client /\ c.slot # 0
            /\ c.st \in {"authed", "char_authed"}
        BY <1>1, <1>2, <2>5, <3>3, <4>2
      <4>5. /\ c.acct # None => <<k, c.acct>> \in granted
            /\ c.char # None => <<k, c.char>> \in granted
        BY <2>6, <4>1, <4>2
      <4>6. \A x \in sqs' : x \in sqs
        BY <2>2
      <4> HIDE DEF k
      <4> QED BY <1>1, <2>1, <4>2, <4>3, <4>4, <4>5, <4>6, OneClient
    <3> QED BY <2>2, <3>1, <3>2, <3>3
  <2>8. LoginTypeOK'
    BY <1>1, <1>2, <2>2, <2>3, <2>7 DEF LoginTypeOK
  <2>9. AsksInv'
    BY <1>1, <1>2, <2>2 DEF AsksInv
  <2> QED BY <1>1, <1>2, <2>3, <2>7, <2>8, <2>9, Frames DEF LoginInv
<1> QED BY <1>6, <1>7, <1>8, <1>9 DEF D2csHandles, p, rest

\* The start and the end of the connection, and a request that expires.
LEMMA D2csOtherStep ==
  ASSUME LoginInv,
         \/ \E l \in 1..MaxLink : bnetd_check(l) \/ conn_handle_connecting(l) \/ D2csNotices(l)
         \/ \E sq \in sqs : sqlist_check_timeout(sq)
  PROVE  LoginInv'
<1>1. /\ LoginTypeOK /\ FreeInv /\ OneLink /\ ClientsInv /\ AsksInv /\ AnswersInv
      /\ GrantedByBnetd /\ ServedIsActive
      /\ links \in [1..MaxLink -> Link]
  BY DEF LoginInv, LoginTypeOK
<1>2. ASSUME NEW l \in 1..MaxLink, bnetd_check(l) PROVE LoginInv'
  <2> DEFINE r == [NoLink EXCEPT !.d = "connecting", !.up = TRUE]
  <2>1. /\ dconn = 0 /\ links[l] = NoLink /\ dconn' = l /\ links' = [links EXCEPT ![l] = r]
        /\ UNCHANGED <<sessions, freelist, realm, clients, sqs, owner, ingame, last, faults,
                       granted>>
    BY <1>1, <1>2 DEF bnetd_check
  <2>2. /\ r \in Link /\ r.d = "connecting" /\ r.b = "closed"
        /\ r.toB = <<>> /\ r.toD = <<>>
    <3>1. <<>> \in Seq(ToB) /\ <<>> \in Seq(ToD)
      OBVIOUS
    <3> QED BY <3>1 DEF NoLink, Link
  <2> HIDE DEF r
  <2>3. Asked' = Asked /\ Answered' = Answered
    BY <2>1 DEF Asked, Answered
  <2>4. links' \in [1..MaxLink -> Link] /\ AnswersInv'
    <3>1. r.toB \in Seq(Asked') /\ r.toD \in Seq(Answered')
      BY <2>2
    <3> QED BY <1>1, <2>1, <2>2, <2>3, <3>1, OneConnection
  <2>5. LoginTypeOK'
    BY <1>1, <2>1, <2>4, RealmLoginAssumption, SMTT(40) DEF LoginTypeOK
  <2>6. OneLink'
    <3>1. \A m \in 1..MaxLink : links[m].d = "closed"
      BY <1>1, <2>1 DEF OneLink
    <3> QED BY <1>1, <2>1, <3>1 DEF OneLink
  <2>7. ServedIsActive'
    BY <1>1, <2>1, <2>2 DEF ServedIsActive
  <2> QED BY <1>1, <2>1, <2>4, <2>5, <2>6, <2>7, Frames DEF LoginInv
<1>3. ASSUME NEW l \in 1..MaxLink, conn_handle_connecting(l) PROVE LoginInv'
  <2> DEFINE r == [links[l] EXCEPT !.d = "connected", !.b = "init"]
             a == [op |-> "init"]
  <2>1. /\ r \in Link /\ r.d = "connected" /\ r.b = "init" /\ r.toB = links[l].toB
        /\ r.toD = links[l].toD
    BY <1>1, ZenonT(60) DEF Link
  <2>2. /\ links[l].d = "connecting"
        /\ links' = Pushed([links EXCEPT ![l].d = "connected", ![l].b = "init"], l, "toB", a)
        /\ [links EXCEPT ![l].d = "connected", ![l].b = "init"] = [links EXCEPT ![l] = r]
        /\ UNCHANGED <<sessions, freelist, realm, dconn, clients, sqs, owner, ingame, last,
                       faults, granted>>
    BY <1>1, <1>3 DEF conn_handle_connecting
  <2>3. a \in ToB /\ a \in Asked
    BY DEF Asked, ToB
  <2> HIDE DEF r, a
  <2>4. PICK q \in Link : /\ links' = [links EXCEPT ![l] = q] /\ q.d = r.d /\ q.b = r.b
                          /\ q.toD = r.toD /\ q.toB \in {r.toB, Append(r.toB, a)}
    <3>1. links' = Pushed([links EXCEPT ![l] = r], l, "toB", a)
      BY <2>2
    <3> QED BY <1>1, <2>1, <2>3, <3>1, PushedToB
  <2>5. Asked' = Asked /\ Answered' = Answered
    BY <2>2 DEF Asked, Answered
  <2>6. q.toB \in Seq(Asked') /\ q.toD \in Seq(Answered')
    <3>1. r.toB \in Seq(Asked) /\ r.toD \in Seq(Answered)
      BY <1>1, <2>1, <2>2 DEF AnswersInv
    <3>2. Append(r.toB, a) \in Seq(Asked)
      BY <2>3, <3>1
    <3> QED BY <2>4, <2>5, <3>1, <3>2
  <2>7. links' \in [1..MaxLink -> Link] /\ AnswersInv'
    BY <1>1, <2>4, <2>5, <2>6, OneConnection
  <2>8. LoginTypeOK'
    BY <1>1, <2>2, <2>7 DEF LoginTypeOK
  <2>9. OneLink' /\ ServedIsActive'
    BY <1>1, <2>1, <2>2, <2>4, ZenonT(60) DEF OneLink, ServedIsActive
  <2> QED BY <1>1, <2>2, <2>7, <2>8, <2>9, Frames DEF LoginInv
<1>4. ASSUME NEW l \in 1..MaxLink, D2csNotices(l) PROVE LoginInv'
  <2>1. /\ dconn = l /\ links' = Closed(links, l) /\ dconn' = 0
        /\ UNCHANGED <<sessions, freelist, realm, clients, sqs, owner, ingame, last, faults,
                       granted>>
    BY <1>4 DEF D2csNotices
  <2>2. PICK q \in Link : /\ links' = [links EXCEPT ![l] = q] /\ q.d = "closed"
                          /\ q.b = links[l].b
    <3>1. links' = Closed(links, l)
      BY <2>1
    <3>2. links \in [1..MaxLink -> Link]
      BY <1>1
    <3>3. \E q \in Link : /\ Closed(links, l) = [links EXCEPT ![l] = q] /\ q.d = "closed"
                          /\ q.b = links[l].b
      BY <3>2, ClosedFields
    <3> QED BY <3>1, <3>3
  <2>3. \A m \in 1..MaxLink : links'[m].d = "closed"
    BY <1>1, <2>1, <2>2 DEF OneLink
  <2>4. LoginTypeOK'
    BY <1>1, <2>1, <2>2, RealmLoginAssumption, SMTT(40) DEF LoginTypeOK
  <2>5. OneLink' /\ AnswersInv'
    BY <2>3 DEF OneLink, AnswersInv
  <2>6. ServedIsActive'
    BY <1>1, <2>1, <2>2 DEF ServedIsActive
  <2> QED BY <1>1, <2>1, <2>4, <2>5, <2>6, Frames DEF LoginInv
<1>5. ASSUME NEW sq \in sqs, sqlist_check_timeout(sq) PROVE LoginInv'
  <2>1. /\ sqs' = sqs \ {sq}
        /\ UNCHANGED <<sessions, freelist, realm, links, dconn, clients, owner, ingame, last,
                       faults, granted>>
    BY <1>5 DEF sqlist_check_timeout
  <2>2. LoginTypeOK'
    BY <1>1, <2>1 DEF LoginTypeOK
  <2>3. ClientsInv' /\ AsksInv'
    BY <1>1, <2>1 DEF ClientsInv, AsksInv, Alive
  <2>4. AnswersInv'
    <3>1. last.seqno \in Nat
      BY <1>1, RealmLoginAssumption DEF LoginTypeOK
    <3>2. Asked \subseteq Asked' /\ Answered \subseteq Answered'
      BY <1>1, <2>1, <3>1, PacketsStay
    <3> QED BY <1>1, <2>1, <3>2, Queues DEF AnswersInv
  <2> QED BY <1>1, <2>1, <2>2, <2>3, <2>4, Frames DEF LoginInv
<1> QED BY <1>2, <1>3, <1>4, <1>5

-----------------------------------------------------------------------------
\* The steps of the players' connections to d2cs.

\* A request takes a new seqno, is kept, and is pushed on the connection if
\* there is one.
LEMMA Asking ==
  ASSUME LoginInv, NEW k \in 1..MaxClient, NEW req \in Request, sq_create(k, req),
         UNCHANGED <<realm, dconn, granted>>
  PROVE  /\ links' \in [1..MaxLink -> Link] /\ sqs' \subseteq Sq
         /\ last' \in [client : 0..MaxClient, seqno : 0..MaxSeqno]
         /\ last'.client = last.client
         /\ \A sq \in sqs' : sq \in sqs \/ sq.client = k
         /\ OneLink' /\ AsksInv' /\ AnswersInv' /\ ServedIsActive'
<1> DEFINE sq == [seqno |-> last.seqno + 1, client |-> k, req |-> req]
           p == [op |-> "request", sq |-> sq]
<1>1. /\ LoginTypeOK /\ OneLink /\ AsksInv /\ AnswersInv /\ ServedIsActive
      /\ links \in [1..MaxLink -> Link] /\ dconn \in 0..MaxLink /\ sqs \subseteq Sq
      /\ last \in [client : 0..MaxClient, seqno : 0..MaxSeqno] /\ MaxSeqno \in Nat
  BY RealmLoginAssumption DEF LoginInv, LoginTypeOK
<1>2. /\ last.seqno < MaxSeqno /\ last' = [last EXCEPT !.seqno = @ + 1]
      /\ sqs' = sqs \cup {sq} /\ links' = Pushed(links, dconn, "toB", p)
  BY DEF sq_create
<1>3. /\ last.seqno \in Nat /\ last'.seqno = last.seqno + 1 /\ last'.client = last.client
      /\ last' \in [client : 0..MaxClient, seqno : 0..MaxSeqno]
  BY <1>1, <1>2
<1>4. sq \in Sq /\ sq.seqno = last.seqno + 1 /\ sq.client = k
  BY <1>1, <1>2, <1>3 DEF Sq
<1>5. p \in ToB /\ p.op = "request" /\ p.sq = sq
  BY <1>4 DEF ToB
<1> HIDE DEF sq, p
<1>6. sqs' \subseteq Sq
  BY <1>1, <1>2, <1>4
<1>7. \A x \in sqs : x.seqno \in Nat /\ x.seqno <= last.seqno
  BY <1>1 DEF AsksInv, Sq
<1>8. AsksInv'
  BY <1>1, <1>2, <1>3, <1>4, <1>7 DEF AsksInv
<1>9. Asked \subseteq Asked' /\ Answered \subseteq Answered'
  BY <1>1, <1>2, <1>3, <1>4, PacketsStay
<1>10. p \in Asked'
  BY <1>2, <1>3, <1>4, <1>5, <1>7 DEF Asked
<1>11. CASE dconn = 0
  <2>1. links' = links
    BY <1>2, <1>11 DEF Pushed
  <2>2. AnswersInv'
    BY <1>1, <1>9, <2>1, Queues DEF AnswersInv
  <2> QED BY <1>1, <1>2, <1>3, <1>4, <1>6, <1>8, <2>1, <2>2, Frames
<1>12. CASE dconn # 0
  <2> DEFINE l == dconn
             r == links[l]
  <2>1. l \in 1..MaxLink /\ r \in Link /\ links = [links EXCEPT ![l] = r]
    BY <1>1, <1>12
  <2>2. links' = Pushed([links EXCEPT ![l] = r], l, "toB", p)
    BY <1>2, <2>1
  <2> HIDE DEF l, r
  <2>3. PICK q \in Link : /\ links' = [links EXCEPT ![l] = q] /\ q.d = r.d /\ q.b = r.b
                          /\ q.toD = r.toD /\ q.toB \in {r.toB, Append(r.toB, p)}
    BY <1>1, <1>5, <2>1, <2>2, PushedToB
  <2>4. q.d # "closed" => q.toB \in Seq(Asked') /\ q.toD \in Seq(Answered')
    <3> SUFFICES ASSUME q.d # "closed"
                 PROVE  q.toB \in Seq(Asked') /\ q.toD \in Seq(Answered')
      OBVIOUS
    <3>1. r.toB \in Seq(Asked) /\ r.toD \in Seq(Answered)
      BY <1>1, <2>1, <2>3 DEF AnswersInv, r
    <3>2. r.toB \in Seq(Asked') /\ r.toD \in Seq(Answered')
      BY <1>9, <3>1, Queues
    <3>3. Append(r.toB, p) \in Seq(Asked')
      BY <1>10, <3>2
    <3> QED BY <2>3, <3>2, <3>3
  <2>5. links' \in [1..MaxLink -> Link] /\ AnswersInv'
    BY <1>1, <1>9, <2>1, <2>3, <2>4, OneConnection
  <2>6. OneLink' /\ ServedIsActive'
    BY <1>1, <2>1, <2>3 DEF OneLink, ServedIsActive, l, r
  <2> QED BY <1>2, <1>3, <1>4, <1>6, <1>8, <2>5, <2>6
<1> QED BY <1>11, <1>12

\* A connection that ends takes what it has with it; its requests stay.
LEMMA DestroyedStep ==
  ASSUME LoginInv, NEW k \in 1..MaxClient, Alive(k), clients' = Destroyed(k),
         UNCHANGED <<sessions, freelist, realm, links, dconn, sqs, owner, ingame, last,
                     faults, granted>>
  PROVE  LoginInv'
<1> DEFINE c == [NoClient EXCEPT !.st = "gone"]
<1>1. /\ LoginTypeOK /\ FreeInv /\ OneLink /\ ClientsInv /\ AsksInv /\ AnswersInv
      /\ GrantedByBnetd /\ ServedIsActive
      /\ last \in [client : 0..MaxClient, seqno : 0..MaxSeqno] /\ last.client \in Nat
  BY RealmLoginAssumption, SMTT(40) DEF LoginInv, LoginTypeOK
<1>2. c \in Client /\ c.st = "gone" /\ c.acct = None /\ c.char = None
  BY RealmLoginAssumption DEF NoClient, Client
<1>3. clients' = [clients EXCEPT ![k] = c] /\ k <= last.client
  BY <1>1 DEF Destroyed, ClientsInv, Alive
<1> HIDE DEF c
<1>4. clients' \in [1..MaxClient -> Client] /\ ClientsInv' /\ GrantedByBnetd'
  <2>1. /\ last' \in [client : 0..MaxClient, seqno : 0..MaxSeqno] /\ granted' = granted
        /\ last.client <= last'.client /\ k <= last'.client
        /\ \A sq \in sqs' : sq \in sqs
    BY <1>1, <1>3
  <2> QED BY <1>1, <1>2, <1>3, <2>1, OneClient
<1>5. LoginTypeOK'
  BY <1>1, <1>4 DEF LoginTypeOK
<1> QED BY <1>1, <1>4, <1>5, Frames DEF LoginInv

\* A player's connection makes a request and changes with it.
LEMMA RequestStep ==
  ASSUME LoginInv, NEW k \in 1..MaxClient, Alive(k), NEW req \in Request, sq_create(k, req),
         UNCHANGED <<sessions, freelist, realm, dconn, ingame, faults, granted>>,
         owner' \in [Characters -> Accounts \cup {None}],
         NEW c \in Client, clients' = [clients EXCEPT ![k] = c],
         c.st = clients[k].st, c.acct = clients[k].acct, c.char = clients[k].char, c.slot # 0
  PROVE  LoginInv'
<1>1. /\ LoginTypeOK /\ FreeInv /\ OneLink /\ ClientsInv /\ AsksInv /\ AnswersInv
      /\ GrantedByBnetd /\ ServedIsActive
      /\ last \in [client : 0..MaxClient, seqno : 0..MaxSeqno] /\ last.client \in Nat
  BY RealmLoginAssumption, SMTT(40) DEF LoginInv, LoginTypeOK
<1>2. /\ links' \in [1..MaxLink -> Link] /\ sqs' \subseteq Sq
      /\ last' \in [client : 0..MaxClient, seqno : 0..MaxSeqno]
      /\ last'.client = last.client
      /\ \A sq \in sqs' : sq \in sqs \/ sq.client = k
      /\ OneLink' /\ AsksInv' /\ AnswersInv' /\ ServedIsActive'
  BY Asking
<1>3. k <= last.client
  BY <1>1 DEF ClientsInv, Alive
<1>4. /\ c.acct # None => <<k, c.acct>> \in granted
      /\ c.char # None => <<k, c.char>> \in granted
  BY <1>1 DEF GrantedByBnetd
<1>5. c.st \in {"connected", "authed", "char_authed"}
  BY DEF Alive
<1>6. clients' \in [1..MaxClient -> Client] /\ ClientsInv' /\ GrantedByBnetd'
  <2>1. /\ granted' = granted /\ last.client <= last'.client /\ k <= last'.client
        /\ \A sq \in sqs' : sq \in sqs \/ (sq.client = k /\ k <= last'.client)
    BY <1>1, <1>2, <1>3
  <2> QED BY <1>1, <1>2, <1>4, <1>5, <2>1, OneClient
<1>7. LoginTypeOK'
  BY <1>1, <1>2, <1>6 DEF LoginTypeOK
<1> QED BY <1>1, <1>2, <1>6, <1>7, Frames DEF LoginInv

\* What the players of d2cs do.
LEMMA ClientsStep ==
  ASSUME LoginInv, ClientStep
  PROVE  LoginInv'
<1>1. /\ LoginTypeOK /\ FreeInv /\ OneLink /\ ClientsInv /\ AsksInv /\ AnswersInv
      /\ GrantedByBnetd /\ ServedIsActive
      /\ clients \in [1..MaxClient -> Client]
      /\ last \in [client : 0..MaxClient, seqno : 0..MaxSeqno] /\ last.client \in Nat
  BY RealmLoginAssumption, SMTT(40) DEF LoginInv, LoginTypeOK
<1>2. CASE d2cs_conn_create
  <2> DEFINE k == last.client + 1
             c == [NoClient EXCEPT !.st = "connected"]
  <2>1. /\ last.client < MaxClient /\ last' = [last EXCEPT !.client = @ + 1]
        /\ clients' = [clients EXCEPT ![k] = c]
        /\ UNCHANGED <<sessions, freelist, realm, links, dconn, sqs, owner, ingame, faults,
                       granted>>
    BY <1>2 DEF d2cs_conn_create
  <2>2. c \in Client /\ c.st = "connected" /\ c.acct = None /\ c.char = None
    BY RealmLoginAssumption DEF NoClient, Client
  <2>3. /\ k \in 1..MaxClient /\ last'.client = k /\ last'.seqno = last.seqno
        /\ last' \in [client : 0..MaxClient, seqno : 0..MaxSeqno]
    <3>1. /\ k \in 1..MaxClient /\ last.seqno \in 0..MaxSeqno
      BY <1>1, <2>1, RealmLoginAssumption
    <3>2. last' = [last EXCEPT !.client = k]
      BY <2>1
    <3> HIDE DEF k
    <3> QED BY <1>1, <3>1, <3>2
  <2>4. \A sq \in sqs : sq.client # k
    BY <1>1 DEF ClientsInv
  <2> HIDE DEF c
  <2>5. clients' \in [1..MaxClient -> Client] /\ ClientsInv' /\ GrantedByBnetd'
    <3>1. last.client <= last'.client /\ k <= last'.client
      BY <1>1, <2>3
    <3> HIDE DEF k
    <3> QED BY <1>1, <2>1, <2>2, <2>3, <2>4, <3>1, OneClient
  <2>6. LoginTypeOK'
    BY <1>1, <2>1, <2>3, <2>5 DEF LoginTypeOK
  <2>7. AsksInv' /\ AnswersInv'
    BY <1>1, <2>1, <2>3, ZenonT(60) DEF AsksInv, AnswersInv, Asked, Answered
  <2> QED BY <1>1, <2>1, <2>5, <2>6, <2>7, Frames DEF LoginInv
<1>3. ASSUME NEW k \in 1..MaxClient, d2cs_conn_destroy(k) PROVE LoginInv'
  BY <1>3, DestroyedStep DEF d2cs_conn_destroy
<1>4. ASSUME NEW k \in 1..MaxClient, on_client_joingamereq(k) PROVE LoginInv'
  <2>1. CASE clients' = Destroyed(k) /\ ingame' = ingame
    BY <1>4, <2>1, DestroyedStep DEF on_client_joingamereq, Alive
  <2>2. CASE clients[k].char # None /\ ingame' = ingame \cup {clients[k].char}
             /\ clients' = clients
    <3>1. /\ UNCHANGED <<sessions, freelist, realm, links, dconn, clients, sqs, owner, last,
                         faults, granted>>
          /\ ingame' \subseteq Characters
      BY <1>1, <1>4, <2>2 DEF on_client_joingamereq, LoginTypeOK, Client
    <3>2. LoginTypeOK'
      BY <1>1, <3>1 DEF LoginTypeOK
    <3> QED BY <1>1, <3>1, <3>2, Frames DEF LoginInv
  <2> QED BY <1>4, <2>1, <2>2 DEF on_client_joingamereq
<1>5. ASSUME NEW k \in 1..MaxClient, NEW a \in Accounts, NEW s \in 1..Slots,
             on_client_loginreq(k, a, s)
      PROVE  LoginInv'
  <2>1. CASE clients' = Destroyed(k) /\ UNCHANGED <<sqs, last, links>>
    BY <1>5, <2>1, DestroyedStep DEF on_client_loginreq, Alive
  <2>2. CASE /\ clients' = [clients EXCEPT ![k].slot = s]
             /\ sq_create(k, [op |-> "login", acct |-> a, slot |-> s])
    <3> DEFINE req == [op |-> "login", acct |-> a, slot |-> s]
               c == [clients[k] EXCEPT !.slot = s]
    <3>1. req \in Request /\ sq_create(k, req)
      BY <2>2 DEF Request
    <3>2. /\ c \in Client /\ c.st = clients[k].st /\ c.acct = clients[k].acct
          /\ c.char = clients[k].char /\ c.slot # 0 /\ clients' = [clients EXCEPT ![k] = c]
      BY <1>1, <2>2 DEF Client
    <3>3. /\ Alive(k) /\ UNCHANGED <<sessions, freelist, realm, dconn, ingame, faults, granted>>
          /\ owner' \in [Characters -> Accounts \cup {None}]
      BY <1>1, <1>5 DEF on_client_loginreq, Alive, LoginTypeOK
    <3> HIDE DEF req, c
    <3> QED BY <3>1, <3>2, <3>3, RequestStep
  <2> QED BY <1>5, <2>1, <2>2 DEF on_client_loginreq
<1>6. ASSUME NEW k \in 1..MaxClient, NEW ch \in Characters,
             clients[k].st \in {"authed", "char_authed"},
             NEW op \in {"create", "char"},
             clients' = [clients EXCEPT ![k].info = ch],
             sq_create(k, [op |-> op, char |-> ch, slot |-> clients[k].slot]),
             UNCHANGED <<sessions, freelist, realm, dconn, ingame, faults, granted>>,
             owner' \in [Characters -> Accounts \cup {None}]
      PROVE  LoginInv'
  <2> DEFINE req == [op |-> op, char |-> ch, slot |-> clients[k].slot]
             c == [clients[k] EXCEPT !.info = ch]
  <2>1. clients[k] \in Client /\ clients[k].slot \in 0..Slots /\ clients[k].slot # 0
    BY <1>1, <1>6 DEF Client, ClientsInv
  <2>2. clients[k].slot \in 1..Slots
    BY <2>1, RealmLoginAssumption
  <2>3. req \in Request /\ sq_create(k, req)
    BY <1>6, <2>2 DEF Request
  <2>4. /\ c \in Client /\ c.st = clients[k].st /\ c.acct = clients[k].acct
        /\ c.char = clients[k].char /\ c.slot # 0 /\ clients' = [clients EXCEPT ![k] = c]
    BY <1>1, <1>6, <2>1 DEF Client
  <2>5. Alive(k)
    BY <1>6 DEF Alive
  <2> HIDE DEF req, c
  <2> QED BY <1>6, <2>3, <2>4, <2>5, RequestStep
<1>7. ASSUME NEW k \in 1..MaxClient, NEW ch \in Characters, on_client_charloginreq(k, ch)
      PROVE  LoginInv'
  <2>1. CASE clients' = Destroyed(k) /\ UNCHANGED <<sqs, last, links>>
    BY <1>7, <2>1, DestroyedStep DEF on_client_charloginreq, Alive
  <2>2. CASE /\ clients' = [clients EXCEPT ![k].info = ch]
             /\ sq_create(k, [op |-> "char", char |-> ch, slot |-> clients[k].slot])
    BY <1>1, <1>6, <1>7, <2>2 DEF on_client_charloginreq, LoginTypeOK
  <2> QED BY <1>7, <2>1, <2>2 DEF on_client_charloginreq
<1>8. ASSUME NEW k \in 1..MaxClient, NEW ch \in Characters, on_client_createcharreq(k, ch)
      PROVE  LoginInv'
  <2>1. owner' \in [Characters -> Accounts \cup {None}]
    BY <1>1, <1>8 DEF on_client_createcharreq, LoginTypeOK, Client
  <2> QED BY <1>6, <1>8, <2>1 DEF on_client_createcharreq
<1>9. ASSUME NEW k \in 1..MaxClient, NEW ch \in Characters, on_client_deletecharreq(k, ch)
      PROVE  LoginInv'
  <2>1. CASE clients' = Destroyed(k) /\ UNCHANGED owner
    BY <1>9, <2>1, DestroyedStep DEF on_client_deletecharreq, Alive
  <2>2. CASE /\ clients' = [clients EXCEPT ![k].char = None]
             /\ owner' = IF owner[ch] = clients[k].acct THEN [owner EXCEPT ![ch] = None] ELSE owner
    <3> DEFINE c == [clients[k] EXCEPT !.char = None]
    <3>1. /\ UNCHANGED <<sessions, freelist, realm, links, dconn, sqs, ingame, last, faults,
                         granted>>
          /\ owner' \in [Characters -> Accounts \cup {None}]
          /\ clients[k].st \in {"authed", "char_authed"}
      BY <1>1, <1>9, <2>2 DEF on_client_deletecharreq, LoginTypeOK
    <3>2. /\ c \in Client /\ c.st = clients[k].st /\ c.acct = clients[k].acct
          /\ c.char = None /\ c.slot = clients[k].slot /\ clients' = [clients EXCEPT ![k] = c]
      BY <1>1, <2>2 DEF Client
    <3>3. k <= last.client /\ clients[k].slot # 0
          /\ (clients[k].acct # None => <<k, clients[k].acct>> \in granted)
      BY <1>1, <3>1 DEF ClientsInv, GrantedByBnetd
    <3> HIDE DEF c
    <3>4. clients' \in [1..MaxClient -> Client] /\ ClientsInv' /\ GrantedByBnetd'
      <4>1. /\ last' \in [client : 0..MaxClient, seqno : 0..MaxSeqno] /\ granted' = granted
            /\ last.client <= last'.client /\ k <= last'.client
            /\ \A sq \in sqs' : sq \in sqs
        BY <1>1, <3>1, <3>3
      <4>2. c.slot # 0 /\ c.st \in {"authed", "char_authed"}
            /\ (c.acct # None => <<k, c.acct>> \in granted)
        BY <3>1, <3>2, <3>3
      <4> QED BY <1>1, <3>2, <4>1, <4>2, OneClient
    <3>5. LoginTypeOK'
      BY <1>1, <3>1, <3>4 DEF LoginTypeOK
    <3> QED BY <1>1, <3>1, <3>4, <3>5, Frames DEF LoginInv
  <2> QED BY <1>9, <2>1, <2>2 DEF on_client_deletecharreq
<1>10. ASSUME NEW ch \in Characters, GameLeft(ch) PROVE LoginInv'
  <2>1. LoginTypeOK'
    BY <1>1, <1>10 DEF GameLeft, LoginTypeOK
  <2> QED BY <1>1, <1>10, <2>1, Frames DEF GameLeft, LoginInv
<1> QED BY <1>2, <1>3, <1>4, <1>5, <1>7, <1>8, <1>9, <1>10 DEF ClientStep

-----------------------------------------------------------------------------
\* Failures.

\* After the network fails or a program starts again, what is on the way is gone,
\* or belongs to a connection that d2cs has closed.
LEMMA FailureStep ==
  ASSUME LoginInv, Failure
  PROVE  LoginInv'
<1>1. /\ LoginTypeOK /\ FreeInv /\ OneLink /\ ClientsInv /\ AsksInv /\ AnswersInv
      /\ GrantedByBnetd /\ ServedIsActive
      /\ links \in [1..MaxLink -> Link] /\ MaxFaults \in Nat /\ faults \in 0..MaxFaults
  BY RealmLoginAssumption DEF LoginInv, LoginTypeOK
<1>2. ASSUME NEW l \in 1..MaxLink, NetworkFails(l) PROVE LoginInv'
  <2> DEFINE r == [links[l] EXCEPT !.up = FALSE, !.toB = <<>>, !.toD = <<>>]
  <2>1. /\ links' = [links EXCEPT ![l] = r] /\ faults' = faults + 1 /\ faults < MaxFaults
        /\ UNCHANGED <<sessions, freelist, realm, dconn, clients, sqs, owner, ingame, last,
                       granted>>
    BY <1>1, <1>2 DEF NetworkFails
  <2>2. /\ r \in Link /\ r.d = links[l].d /\ r.b = links[l].b /\ r.toB = <<>> /\ r.toD = <<>>
    <3>1. <<>> \in Seq(ToB) /\ <<>> \in Seq(ToD) /\ links[l] \in Link
      BY <1>1
    <3> QED BY <3>1 DEF Link
  <2> HIDE DEF r
  <2>3. Asked' = Asked /\ Answered' = Answered
    BY <2>1 DEF Asked, Answered
  <2>4. links' \in [1..MaxLink -> Link] /\ AnswersInv'
    <3>1. r.toB \in Seq(Asked') /\ r.toD \in Seq(Answered')
      BY <2>2
    <3> QED BY <1>1, <2>1, <2>2, <2>3, <3>1, OneConnection
  <2>5. LoginTypeOK'
    BY <1>1, <2>1, <2>4 DEF LoginTypeOK
  <2>6. OneLink' /\ ServedIsActive'
    BY <1>1, <2>1, <2>2 DEF OneLink, ServedIsActive
  <2> QED BY <1>1, <2>1, <2>4, <2>5, <2>6, Frames DEF LoginInv
<1>3. CASE D2csRestarts
  <2>1. /\ links' = (IF dconn = 0 THEN links ELSE Closed(links, dconn)) /\ dconn' = 0
        /\ clients' = [k \in 1..MaxClient |-> NoClient]
        /\ sqs' = {} /\ ingame' = {} /\ granted' = {}
        /\ last' = [client |-> 0, seqno |-> 0] /\ faults' = faults + 1 /\ faults < MaxFaults
        /\ UNCHANGED <<sessions, freelist, realm, owner>>
    BY <1>3 DEF D2csRestarts
  <2>2. /\ links' \in [1..MaxLink -> Link]
        /\ \A m \in 1..MaxLink : links'[m].d = "closed" /\ links'[m].b = links[m].b
    <3>1. CASE dconn = 0
      BY <1>1, <2>1, <3>1 DEF OneLink
    <3>2. CASE dconn # 0
      <4>1. dconn \in 1..MaxLink
        BY <1>1, <3>2, RealmLoginAssumption DEF LoginTypeOK
      <4>2. links \in [1..MaxLink -> Link]
        BY <1>1
      <4>3. PICK q \in Link : /\ Closed(links, dconn) = [links EXCEPT ![dconn] = q]
                              /\ q.d = "closed" /\ q.b = links[dconn].b
        BY <4>1, <4>2, ClosedFields, ZenonT(60)
      <4>4. links' = [links EXCEPT ![dconn] = q]
        BY <2>1, <3>2, <4>3
      <4> QED BY <1>1, <4>1, <4>3, <4>4 DEF OneLink
    <3> QED BY <3>1, <3>2
  <2>3. NoClient \in Client /\ NoClient.st = "none" /\ NoClient.acct = None /\ NoClient.char = None
    BY RealmLoginAssumption DEF NoClient, Client
  <2>4. LoginTypeOK'
    <3>1. /\ clients' \in [1..MaxClient -> Client]
          /\ last' \in [client : 0..MaxClient, seqno : 0..MaxSeqno]
          /\ dconn' \in 0..MaxLink /\ faults' \in 0..MaxFaults
      BY <1>1, <2>1, <2>3, RealmLoginAssumption
    <3> QED BY <1>1, <2>1, <2>2, <3>1 DEF LoginTypeOK
  <2>5. OneLink' /\ AnswersInv'
    BY <2>2 DEF OneLink, AnswersInv
  <2>6. ServedIsActive'
    BY <1>1, <2>1, <2>2 DEF ServedIsActive
  <2>7. ClientsInv' /\ AsksInv' /\ GrantedByBnetd'
    BY <2>1, <2>3 DEF ClientsInv, AsksInv, GrantedByBnetd, Alive
  <2> QED BY <1>1, <2>1, <2>4, <2>5, <2>6, <2>7, Frames DEF LoginInv
<1>4. CASE BnetdRestarts
  <2> DEFINE r(m) == IF links[m].d = "closed" THEN NoLink
                     ELSE [links[m] EXCEPT !.b = "closed", !.realm = FALSE,
                             !.toB = IF links[m].d = "connecting" THEN @ ELSE <<>>]
  <2>1. /\ sessions' = [s \in 1..Slots |-> NoSession] /\ freelist' = [s \in 1..Slots |-> s]
        /\ realm' = [active |-> FALSE, conn |-> 0]
        /\ links' = [m \in 1..MaxLink |-> r(m)] /\ faults' = faults + 1 /\ faults < MaxFaults
        /\ UNCHANGED <<dconn, clients, sqs, owner, ingame, last, granted>>
    BY <1>4 DEF BnetdRestarts
  <2>2. ASSUME NEW m \in 1..MaxLink
        PROVE  /\ r(m) \in Link /\ r(m).d = links[m].d /\ r(m).b = "closed"
               /\ r(m).d # "closed" => r(m).toB \in {links[m].toB, <<>>} /\ r(m).toD = links[m].toD
    <3>1. links[m] \in Link /\ <<>> \in Seq(ToB)
      BY <1>1
    <3>2. CASE links[m].d = "closed"
      <4>1. r(m) = NoLink
        BY <3>2
      <4>2. NoLink \in Link /\ NoLink.d = "closed" /\ NoLink.b = "closed"
        BY DEF NoLink, Link
      <4> HIDE DEF r
      <4> QED BY <3>2, <4>1, <4>2
    <3>3. CASE links[m].d # "closed"
      BY <3>1, <3>3 DEF Link
    <3> QED BY <3>2, <3>3
  <2> HIDE DEF r
  <2>3. /\ freelist' \in Seq(1..Slots) /\ IsInjective(freelist')
        /\ sessions' \in [1..Slots -> Session \cup {NoSession}] /\ DOMAIN freelist' = 1..Slots
    <3>1. Slots \in Nat
      BY RealmLoginAssumption
    <3> QED BY <2>1, <3>1 DEF IsInjective
  <2>4. LoginTypeOK'
    <3>1. realm' \in [active : BOOLEAN, conn : 0..MaxLink] /\ faults' \in 0..MaxFaults
      BY <1>1, <2>1, RealmLoginAssumption
    <3>2. links' \in [1..MaxLink -> Link]
      BY <2>1, <2>2
    <3> QED BY <1>1, <2>1, <2>3, <3>1, <3>2 DEF LoginTypeOK
  <2>5. FreeInv'
    BY <2>1, <2>3 DEF FreeInv
  <2>6. OneLink' /\ ServedIsActive'
    BY <1>1, <2>1, <2>2 DEF OneLink, ServedIsActive
  <2>7. AnswersInv'
    <3>1. Asked' = Asked /\ Answered' = Answered /\ <<>> \in Seq(Asked)
      BY <2>1 DEF Asked, Answered
    <3>2. ASSUME NEW m \in 1..MaxLink, links'[m].d # "closed"
          PROVE  links'[m].toB \in Seq(Asked) /\ links'[m].toD \in Seq(Answered)
      <4>1. links'[m] = r(m) /\ links[m].d # "closed"
        BY <2>1, <2>2, <3>2
      <4> QED BY <1>1, <2>2, <3>1, <3>2, <4>1 DEF AnswersInv
    <3> QED BY <3>1, <3>2 DEF AnswersInv
  <2> QED BY <1>1, <2>1, <2>4, <2>5, <2>6, <2>7, Frames DEF LoginInv
<1> QED BY <1>2, <1>3, <1>4 DEF Failure

-----------------------------------------------------------------------------
\* The theorems.

\* At first nobody is connected.
LEMMA LoginInvInit == LoginInit => LoginInv
<1> SUFFICES ASSUME LoginInit PROVE LoginInv
  OBVIOUS
<1>1. /\ NoLink \in Link /\ NoLink.d = "closed" /\ NoLink.b = "closed"
      /\ NoClient \in Client /\ NoClient.st = "none" /\ NoClient.acct = None
      /\ NoClient.char = None
  <2>1. <<>> \in Seq(ToB) /\ <<>> \in Seq(ToD)
    OBVIOUS
  <2> QED BY <2>1, RealmLoginAssumption DEF NoLink, Link, NoClient, Client
<1>2. LoginTypeOK
  <2>1. freelist \in Seq(1..Slots) /\ IsInjective(freelist)
    BY RealmLoginAssumption DEF LoginInit, IsInjective
  <2>2. /\ links \in [1..MaxLink -> Link] /\ clients \in [1..MaxClient -> Client]
        /\ sessions \in [1..Slots -> Session \cup {NoSession}]
    BY <1>1 DEF LoginInit
  <2>3. /\ realm \in [active : BOOLEAN, conn : 0..MaxLink] /\ dconn \in 0..MaxLink
        /\ last \in [client : 0..MaxClient, seqno : 0..MaxSeqno] /\ faults \in 0..MaxFaults
        /\ owner \in [Characters -> Accounts \cup {None}]
    BY RealmLoginAssumption DEF LoginInit
  <2> QED BY <2>1, <2>2, <2>3 DEF LoginInit, LoginTypeOK
<1>3. FreeInv /\ OneLink /\ ServedIsActive /\ AnswersInv
  BY <1>1, RealmLoginAssumption DEF LoginInit, FreeInv, OneLink, ServedIsActive, AnswersInv
<1>4. ClientsInv /\ AsksInv /\ GrantedByBnetd
  BY <1>1 DEF LoginInit, ClientsInv, AsksInv, GrantedByBnetd, Alive
<1> QED BY <1>2, <1>3, <1>4 DEF LoginInv

\* Every step of either program, of a player and of the network keeps the
\* invariant.
LEMMA LoginInvStep == LoginInv /\ [LoginNext]_loginVars => LoginInv'
<1> SUFFICES ASSUME LoginInv, [LoginNext]_loginVars PROVE LoginInv'
  OBVIOUS
<1>1. CASE BnetdStep
  BY <1>1, PlayersStep, BnetdHandlesStep, BnetdOtherStep DEF BnetdStep
<1>2. CASE D2csStep
  BY <1>2, D2csHandlesStep, D2csOtherStep DEF D2csStep
<1>3. CASE ClientStep
  BY <1>3, ClientsStep
<1>4. CASE Failure
  BY <1>4, FailureStep
<1>5. CASE UNCHANGED loginVars
  <2>1. LoginTypeOK'
    BY <1>5 DEF loginVars, LoginInv, LoginTypeOK
  <2> QED BY <1>5, <2>1, Frames DEF loginVars, LoginInv
<1> QED BY <1>1, <1>2, <1>3, <1>4, <1>5 DEF LoginNext

\* The invariant holds, whatever is lost and whichever program starts again.
THEOREM LoginInvHolds == LoginSpec => []LoginInv
BY LoginInvInit, LoginInvStep, PTL DEF LoginSpec

\* No handler leaves a connection, a session or a request in a state that it
\* has no name for; a free session number is free once.
THEOREM LoginTypeCorrect == LoginSpec => []LoginTypeOK
<1>1. LoginInv => LoginTypeOK
  BY DEF LoginInv
<1> QED BY <1>1, LoginInvHolds, PTL

\* d2cs never takes a connection for that of an account or a character unless
\* bnetd has granted it to that connection (on_bnetd_accountloginreply,
\* on_bnetd_charloginreply): no late answer and no answer of an earlier run of a
\* program counts for another client.
THEOREM AnswersAreGrants == LoginSpec => []GrantedByBnetd
<1>1. LoginInv => GrantedByBnetd
  BY DEF LoginInv
<1> QED BY <1>1, LoginInvHolds, PTL

\* bnetd serves d2cs over the connection of its realm only (realm_active,
\* realm_deactive), in whatever order the old connection's end is noticed.
THEOREM OneServedConnection == LoginSpec => []ServedIsActive
<1>1. LoginInv => ServedIsActive
  BY DEF LoginInv
<1> QED BY <1>1, LoginInvHolds, PTL
=============================================================================
