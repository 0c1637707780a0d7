------------------------------- MODULE D2dbs --------------------------------
(***************************************************************************)
(* The Diablo II database server (src/d2dbs/dbserver.cpp, dbspacket.cpp)   *)
(* with the game servers connected to it.  d2dbs is one thread: its loop   *)
(* takes each connection in turn, and within a turn handles one packet     *)
(* after the other, so the handling of one packet is one step.  Splitting  *)
(* a turn into its packets only adds interleavings.                        *)
(*                                                                         *)
(* The game server is external.  It is modelled by what its protocol lets  *)
(* it do: it loads and saves characters over a connection, releases them,  *)
(* answers echo requests, and may stop reacting or lose the connection.    *)
(***************************************************************************)
EXTENDS CharLock, Sequences

CONSTANTS
  Ops,          \* requests about a character that game servers send
  Conns,        \* connection structures that can be in use at once (a bound)
  Ips,          \* addresses connections come from
  D2gsList,     \* the addresses of the d2gs_list preference
  WriteRoom,    \* kBufferSize, in units of a reply without data
  DataSize,     \* size of a reply that carries a character, in those units
  MaxPending,   \* bound: packets in a read buffer
  IdleTime      \* the idletime preference, in clock ticks

ASSUME D2dbsAssumption ==
  /\ Ops \subseteq {"get", "portrait", "save", "lock", "unlock"}
  /\ D2gsList \subseteq Ips
  /\ WriteRoom \in Nat /\ DataSize \in Nat /\ MaxPending \in Nat /\ IdleTime \in Nat

VARIABLES
  conns,        \* dbs_server_connection_list: its domain are the live connections
  preset,       \* preset_d2gsid list: the server id an address was given
  gs_id,        \* dbs_packet_gs_id: the last id given out
  loaded,       \* game server: characters it holds, obtained over this connection
  owes,         \* game server: it has an echo request to answer
  hung          \* game server: it has stopped reacting, the socket stays open

vars == <<conns, preset, gs_id, lock, loaded, owes, hung>>

-----------------------------------------------------------------------------
\* Packets.  A request names its character; "hello" is the class byte of the
\* handshake and "echo" an echo reply, which carry none.

Requests == [op : Ops, char : Chars] \cup [op : {"hello", "echo"}]
Replies == [op : {"get"}, char : Chars, result : {"SUCCESS", "FAILED", "CHARLOCKED"},
            data : BOOLEAN]
           \cup [op : {"portrait", "save"}, char : Chars, data : BOOLEAN]
           \cup [op : {"echo"}, data : {FALSE}]

Connections == [ipaddr : Ips, serverid : Gsids, stats : {0, 1}, verified : BOOLEAN,
                idle : 0..IdleTime + 1, ReadBuf : Seq(Requests), WriteBuf : Seq(Replies)]

Live == DOMAIN conns
Occurs(r, q) == \E i \in 1..Len(q) : q[i] = r

\* nCharsInWriteBuffer, counted from the replies.
Size(r) == IF r.data THEN DataSize ELSE 1
Used(q) == LET sum[i \in 0..Len(q)] == IF i = 0 THEN 0 ELSE sum[i - 1] + Size(q[i])
           IN sum[Len(q)]
Fits(k, r) == Used(conns[k].WriteBuf) + Size(r) <= WriteRoom

TypeOK ==
  /\ Live \subseteq Conns
  /\ conns \in [Live -> Connections]
  /\ DOMAIN preset \subseteq Ips
  /\ preset \in [DOMAIN preset -> Gsids]
  /\ gs_id \in Nat
  /\ lock \in LockTables
  /\ loaded \in [Conns -> SUBSET Chars]
  /\ owes \in [Conns -> BOOLEAN]
  /\ hung \in [Conns -> BOOLEAN]

Init ==
  /\ conns = <<>> /\ preset = <<>> /\ gs_id = 0
  /\ LockInit
  /\ loaded = [k \in Conns |-> {}]
  /\ owes = [k \in Conns |-> FALSE]
  /\ hung = [k \in Conns |-> FALSE]

-----------------------------------------------------------------------------
\* Closing connections.

\* A slip: only the socket is closed.
Mut_UnlockedBy(S) == lock

\* dbs_server_shutdown_connection releases every lock of a verified server.
UnlockedBy(S) == UnlockAllByGsids(lock, {conns[k].serverid : k \in {j \in S : conns[j].verified}})

\* What is left of the connection list, and of the game servers' view, once
\* the connections of S are shut down and removed.
Keep(S) == [k \in Live \ S |-> conns[k]]
ForgetPeers(S) ==
  /\ loaded' = [k \in Conns |-> IF k \in S THEN {} ELSE loaded[k]]
  /\ owes' = [k \in Conns |-> owes[k] /\ k \notin S]
  /\ hung' = [k \in Conns |-> hung[k] /\ k \notin S]

Shutdown(S) ==
  /\ conns' = Keep(S)
  /\ lock' = UnlockedBy(S)
  /\ ForgetPeers(S)
  /\ UNCHANGED <<preset, gs_id>>

-----------------------------------------------------------------------------
\* The main loop.

\* A plausible slip: the id is read before the counter is incremented.
Mut_get_preset_d2gsid(i) ==
  IF i \in DOMAIN preset THEN UNCHANGED <<preset, gs_id>>
  ELSE /\ gs_id + 1 \in Gsids
       /\ gs_id' = gs_id + 1
       /\ preset' = [j \in DOMAIN preset \cup {i} |-> IF j = i THEN gs_id ELSE preset[j]]

\* An address keeps its id for the life of the process.  The bound on the
\* counter is that the new id is one of Gsids.
get_preset_d2gsid(i) ==
  IF i \in DOMAIN preset THEN UNCHANGED <<preset, gs_id>>
  ELSE /\ gs_id + 1 \in Gsids
       /\ gs_id' = gs_id + 1
       /\ preset' = [j \in DOMAIN preset \cup {i} |-> IF j = i THEN gs_id + 1 ELSE preset[j]]

\* dbs_server_list_add_socket: a connection is accepted.
Accept(k, i) ==
  /\ k \notin Live
  /\ get_preset_d2gsid(i)
  /\ conns' = [j \in Live \cup {k} |->
                 IF j = k THEN [ipaddr |-> i, serverid |-> preset'[i], stats |-> 0,
                                verified |-> FALSE, idle |-> 0,
                                ReadBuf |-> <<>>, WriteBuf |-> <<>>]
                 ELSE conns[j]]
  /\ UNCHANGED <<lock, loaded, owes, hung>>

\* A socket error, the peer closing, a malformed packet or an unknown
\* connection class: the connection is shut down and removed.
Fail(k) == k \in Live /\ Shutdown({k})

\* Part of a reply buffer has been sent and read by the game server, up to and
\* including its first reply (dbs_server_write_data).
Deliver(k) ==
  /\ k \in Live /\ ~hung[k]
  /\ conns[k].WriteBuf # <<>>
  /\ conns' = [conns EXCEPT ![k].WriteBuf = Tail(@)]
  /\ LET r == Head(conns[k].WriteBuf)
     IN /\ loaded' = IF r.op = "get" /\ r.result = "SUCCESS"
                     THEN [loaded EXCEPT ![k] = @ \cup {r.char}] ELSE loaded
        /\ owes' = [owes EXCEPT ![k] = @ \/ r.op = "echo"]
  /\ UNCHANGED <<preset, gs_id, lock, hung>>

\* The clock.
Tick ==
  /\ \E k \in Live : conns[k].idle <= IdleTime
  /\ conns' = [k \in Live |-> [conns[k] EXCEPT !.idle = IF @ <= IdleTime THEN @ + 1 ELSE @]]
  /\ UNCHANGED <<preset, gs_id, lock, loaded, owes, hung>>

\* dbs_keepalive, when keepalive_interval has passed: a full buffer is skipped.
EchoRequest == [op |-> "echo", data |-> FALSE]
Keepalive ==
  /\ \E k \in Live : Fits(k, EchoRequest)
  /\ conns' = [k \in Live |-> IF Fits(k, EchoRequest)
                              THEN [conns[k] EXCEPT !.WriteBuf = Append(@, EchoRequest)]
                              ELSE conns[k]]
  /\ UNCHANGED <<preset, gs_id, lock, loaded, owes, hung>>

\* A slip: only connections that have not finished the handshake time out.
Mut_TimedOut == {k \in Live : conns[k].idle > IdleTime /\ conns[k].stats = 0}

TimedOut == {k \in Live : conns[k].idle > IdleTime}
\* dbs_check_timeout, when timeout_checkinterval has passed.
CheckTimeout == TimedOut # {} /\ Shutdown(TimedOut)

\* d2dbs stops (dbs_on_exit) or crashes and is started again: nothing of this
\* state is on disk.
Restart ==
  /\ conns' = <<>> /\ preset' = <<>> /\ gs_id' = 0
  /\ lock' = [c \in Chars |-> NoGs]
  /\ loaded' = [k \in Conns |-> {}]
  /\ owes' = [k \in Conns |-> FALSE]
  /\ hung' = [k \in Conns |-> FALSE]

-----------------------------------------------------------------------------
\* dbs_packet_handle takes the first packet of the read buffer.

Pending(k, op) == k \in Live /\ conns[k].ReadBuf # <<>> /\ Head(conns[k].ReadBuf).op = op
Verified(k) == k \in Live /\ conns[k].stats = 1

Consume(k) == conns' = [conns EXCEPT ![k].ReadBuf = Tail(@)]

\* The packet is consumed only if its reply fits (retval 1); otherwise it stays
\* and is handled again in the next turn (retval 0).
ConsumeWithReply(k, r) ==
  IF Fits(k, r)
  THEN conns' = [conns EXCEPT ![k].ReadBuf = Tail(@), ![k].WriteBuf = Append(@, r)]
  ELSE UNCHANGED conns

\* A handshake that leaves the address's previous connection in place.
Mut_Previous(k) == {}

\* dbs_verify_ipaddr destroys the other connections of the same address.
Previous(k) == {j \in Live \ {k} : conns[j].ipaddr = conns[k].ipaddr}

\* The handshake (stats 0): an address of d2gs_list is verified, another one is
\* shut down without having held anything.
Handshake(k) ==
  /\ Pending(k, "hello") /\ conns[k].stats = 0
  /\ IF conns[k].ipaddr \in D2gsList
     THEN /\ conns' = [j \in Live \ Previous(k) |->
                         IF j = k THEN [conns[k] EXCEPT !.stats = 1, !.verified = TRUE,
                                                        !.ReadBuf = Tail(@)]
                         ELSE conns[j]]
          /\ lock' = UnlockedBy(Previous(k))
          /\ ForgetPeers(Previous(k))
          /\ UNCHANGED <<preset, gs_id>>
     ELSE Shutdown({k})

\* dbs_packet_getdata relying on the result of cl_lock_char, which is 0 for a
\* character somebody else has locked.
Mut_Free(c) == TRUE

\* cl_query_charlock_status finds no entry.
Free(c) == ~IsLocked(lock, c)

\* What dbs_packet_getdata does to the lock table.  When the files cannot be
\* loaded it calls cl_unlock_char with the variable gsid, which nothing has
\* assigned on this path: any value, of which only the server's own matters.
GetLock(k, c, load, gsid) ==
  IF ~Free(c) THEN lock
  ELSE LET locked == LockChar(lock, c, conns[k].serverid)
       IN IF load = "ok" THEN locked ELSE UnlockChar(locked, c, gsid)

\* dbs_packet_getdata, charsave: lock, then load charsave and charinfo.
GetCharsave(k, load, gsid) ==
  /\ Pending(k, "get") /\ Verified(k)
  /\ LET c == Head(conns[k].ReadBuf).char
         free == Free(c)
     IN /\ lock' = GetLock(k, c, load, gsid)
        /\ ConsumeWithReply(k, [op |-> "get", char |-> c,
                                result |-> IF ~free THEN "CHARLOCKED"
                                           ELSE IF load = "ok" THEN "SUCCESS" ELSE "FAILED",
                                data |-> free /\ load # "nosave"])
  /\ UNCHANGED <<preset, gs_id, loaded, owes, hung>>

\* dbs_packet_getdata, portrait: reads charinfo, takes no lock.
GetPortrait(k, found) ==
  /\ Pending(k, "portrait") /\ Verified(k)
  /\ ConsumeWithReply(k, [op |-> "portrait", char |-> Head(conns[k].ReadBuf).char, data |-> found])
  /\ UNCHANGED <<preset, gs_id, lock, loaded, owes, hung>>

\* dbs_packet_savedata: writes the files, which are not modelled, and looks at no lock.
SaveData(k) ==
  /\ Pending(k, "save") /\ Verified(k)
  /\ ConsumeWithReply(k, [op |-> "save", char |-> Head(conns[k].ReadBuf).char, data |-> FALSE])
  /\ UNCHANGED <<preset, gs_id, lock, loaded, owes, hung>>

\* dbs_packet_charlock has no reply and cannot fail.
CharLockRequest(k) ==
  /\ Pending(k, "lock") /\ Verified(k)
  /\ lock' = LockChar(lock, Head(conns[k].ReadBuf).char, conns[k].serverid)
  /\ Consume(k)
  /\ UNCHANGED <<preset, gs_id, loaded, owes, hung>>

CharUnlockRequest(k) ==
  /\ Pending(k, "unlock") /\ Verified(k)
  /\ lock' = UnlockChar(lock, Head(conns[k].ReadBuf).char, conns[k].serverid)
  /\ Consume(k)
  /\ UNCHANGED <<preset, gs_id, loaded, owes, hung>>

\* dbs_packet_echoreply is the only packet that refreshes last_active.
EchoReply(k) ==
  /\ Pending(k, "echo") /\ Verified(k)
  /\ conns' = [conns EXCEPT ![k].ReadBuf = Tail(@), ![k].idle = 0]
  /\ UNCHANGED <<preset, gs_id, lock, loaded, owes, hung>>

Handle(k) ==
  \/ Handshake(k)
  \/ \E load \in {"ok", "nosave", "noinfo"} :
       \E gsid \in {conns[k].serverid, NoGs} : GetCharsave(k, load, gsid)
  \/ \E found \in BOOLEAN : GetPortrait(k, found)
  \/ SaveData(k)
  \/ CharLockRequest(k)
  \/ CharUnlockRequest(k)
  \/ EchoReply(k)

-----------------------------------------------------------------------------
\* The game server (external).  It knows what it has sent and received over
\* the connection; it asks for a character it does not have and has not asked
\* for, saves the ones it has, and does not release one it is waiting for.

Outstanding(k, c) ==
  \/ Occurs([op |-> "get", char |-> c], conns[k].ReadBuf)
  \/ \E i \in 1..Len(conns[k].WriteBuf) :
       conns[k].WriteBuf[i].op = "get" /\ conns[k].WriteBuf[i].char = c

Send(k, r) ==
  /\ k \in Live /\ ~hung[k]
  /\ Len(conns[k].ReadBuf) < MaxPending
  /\ conns' = [conns EXCEPT ![k].ReadBuf = Append(@, r)]
  /\ UNCHANGED <<preset, gs_id, lock, hung>>

GsHello(k) == /\ conns[k].stats = 0 /\ conns[k].ReadBuf = <<>>
              /\ Send(k, [op |-> "hello"])
              /\ UNCHANGED <<loaded, owes>>

Greeted(k) == conns[k].stats = 1 \/ conns[k].ReadBuf # <<>>

GsRequest(k, op, c) ==
  /\ Greeted(k)
  /\ op = "get" => c \notin loaded[k]
  /\ op = "save" => c \in loaded[k]
  /\ op \in {"get", "unlock"} => ~Outstanding(k, c)
  /\ Send(k, [op |-> op, char |-> c])
  /\ loaded' = [loaded EXCEPT ![k] = IF op = "unlock" THEN @ \ {c} ELSE @]
  /\ UNCHANGED owes

GsEchoReply(k) == /\ Greeted(k) /\ owes[k]
                  /\ Send(k, [op |-> "echo"])
                  /\ owes' = [owes EXCEPT ![k] = FALSE]
                  /\ UNCHANGED loaded

GsHangs(k) == /\ k \in Live /\ ~hung[k]
              /\ hung' = [hung EXCEPT ![k] = TRUE]
              /\ UNCHANGED <<conns, preset, gs_id, lock, loaded, owes>>

GameServer(k) ==
  \/ GsHello(k)
  \/ \E op \in Ops, c \in Chars : GsRequest(k, op, c)
  \/ GsEchoReply(k)
  \/ GsHangs(k)

-----------------------------------------------------------------------------
Next ==
  \/ \E k \in Conns, i \in Ips : Accept(k, i)
  \/ \E k \in Live : Handle(k) \/ Deliver(k) \/ Fail(k) \/ GameServer(k)
  \/ Tick \/ Keepalive \/ CheckTimeout \/ Restart

Spec == Init /\ [][Next]_vars

\* The clock runs, the loop comes round to its timers, and in every turn sends
\* what it can and handles each connection's packets.  A packet that waits for
\* room is handled anew in every turn, so also between a send and the next echo
\* request, which is why strong fairness is right for it.  Nothing obliges a
\* game server to send, and no failure or restart has to happen.
Fairness ==
  /\ WF_vars(Tick) /\ WF_vars(CheckTimeout)
  /\ \A k \in Conns : WF_vars(Deliver(k)) /\ SF_vars(k \in Live /\ Handle(k))

FairSpec == Spec /\ Fairness

-----------------------------------------------------------------------------
\* Properties.

\* A locked character is locked for a server that is connected: whichever way
\* a connection ends, its locks go with it, and only its own.
LockedByConnected ==
  \A c \in Chars : IsLocked(lock, c) =>
     \E k \in Live : conns[k].verified /\ conns[k].serverid = lock[c]

\* The game server has the character, or the answer that gives it is on its way.
Holds(k, c) ==
  \/ c \in loaded[k]
  \/ \E i \in 1..Len(conns[k].WriteBuf) :
       LET r == conns[k].WriteBuf[i] IN r.op = "get" /\ r.char = c /\ r.result = "SUCCESS"

\* A character handed to a game server stays locked for that server until the
\* server releases it or its connection ends, whatever the other connections do
\* (reconnects of the same address, time-outs, failed loads, unlock requests).
HeldIsLocked ==
  \A k \in Live, c \in Chars : Holds(k, c) => lock[c] = conns[k].serverid

\* What the locks are for: no character is in play on two game servers.
NoTwoHolders ==
  \A j, k \in Live, c \in Chars : Holds(j, c) /\ Holds(k, c) => j = k

\* dbs_packet_savedata does not look at the lock, and need not: a save that
\* waits in a read buffer comes from the server that has the lock.
SavesByHolder ==
  \A k \in Live, c \in Chars :
     Occurs([op |-> "save", char |-> c], conns[k].ReadBuf) => lock[c] = conns[k].serverid

\* The locks of a server that stops reacting without closing its socket are
\* released (dbs_check_timeout), although echo requests keep being sent to it.
HungServerReleased ==
  \A g \in Gsids, c \in Chars :
     (/\ lock[c] = g
      /\ \E k \in Live : hung[k] /\ conns[k].verified /\ conns[k].serverid = g)
     ~> lock[c] # g

\* Every request for a character is answered or its connection ends, also when
\* the server does not read its replies and the request waits for room forever.
RequestsAnswered ==
  \A k \in Conns, c \in Chars :
     (k \in Live /\ Occurs([op |-> "get", char |-> c], conns[k].ReadBuf))
     ~> (k \notin Live \/ ~Occurs([op |-> "get", char |-> c], conns[k].ReadBuf))

\* The comment on dbs_packet_handle: 0 means "not get a whole packet,do
\* nothing".  A packet that stays in its buffer has changed nothing.
UnansweredChangesNothing == [][conns' = conns => lock' = lock]_vars

\* The log of dbs_packet_getdata after a failed load: "unlock char".  A failed
\* load leaves the character as free as it was.
FailedLoadUnlocks ==
  [][\A k \in Live \cap DOMAIN conns', c \in Chars :
        (/\ ~IsLocked(lock, c)
         /\ \E d \in BOOLEAN : conns'[k].WriteBuf =
              Append(conns[k].WriteBuf,
                     [op |-> "get", char |-> c, result |-> "FAILED", data |-> d]))
        => ~IsLocked(lock', c)]_vars
=============================================================================
