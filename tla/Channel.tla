------------------------------ MODULE Channel -------------------------------
(***************************************************************************)
(* Chat channels of bnetd: who is in which channel, who may do what there  *)
(* (src/bnetd/channel.cpp, conn_set_channel and its neighbours in          *)
(* connection.cpp, the channel commands of command.cpp, JOIN and MODE of   *)
(* irc.cpp).  bnetd is one thread that handles one packet at a time, so a  *)
(* handler is one step; what is hard is that a handler moves a user        *)
(* through several channels, and each leaves something behind.             *)
(*                                                                         *)
(* A user in a game or logged off is one without a channel here.  Channel  *)
(* administrators have the rights of channel operators here, global        *)
(* operators those of channel operators everywhere.                        *)
(***************************************************************************)
EXTENDS ChannelList

CONSTANTS
  Requests,     \* names a user may ask for (a bound)
  Admins,       \* accounts with the global admin flag
  IrcUsers,     \* users connected by IRC; the others are battle.net clients
  Country,      \* the country a client reported
  Void,         \* CHANNEL_NAME_BANNED and CHANNEL_NAME_KICKED
  ClanNames,    \* names that denote a clan's channel ("clan xxxx")
  ClanOf,       \* the clan channel name of a user's clan, or NoName
  Officers,     \* users of rank CLAN_SHAMAN or above in their clan
  Private,      \* clan channels of type 1
  Limits        \* limits that MODE +l sets

ASSUME ChannelAssumption ==
  /\ Admins \subseteq Users /\ IrcUsers \subseteq Users /\ Officers \subseteq Users
  /\ Country \in [Users -> STRING]
  /\ Requests \cup ClanNames \cup {Void} \subseteq Names
  /\ ClanOf \in [Users -> ClanNames \cup {NoName}]
  /\ Private \subseteq ClanNames
  /\ NoName \notin Requests \cup ClanNames \cup {Void}
  /\ Limits \subseteq Nat \ {0}

VARIABLES
  chans,        \* the t_channel structures by address
  list,         \* channellist_head
  chat,         \* conn protocol.chat.channel
  tmpOP,        \* conn protocol.chat.tmpOP_channel, a name
  tmpVOICE,     \* conn protocol.chat.tmpVOICE_channel, a name
  oper          \* account attribute: the channel names a user is operator of

vars == <<chans, list, chat, tmpOP, tmpVOICE, oper>>

State == [chans |-> chans, list |-> list, chat |-> chat, tmpOP |-> tmpOP]
Set(s) == /\ chans' = s.chans /\ list' = s.list
          /\ chat' = s.chat /\ tmpOP' = s.tmpOP

Live == DOMAIN chans
In(u) == chat[u] # Null
NameOf(s, p) == s.chans[p].name

\* account_is_operator_or_admin.
Privileged(u, name) == u \in Admins \/ name \in oper[u]

Nobody == [chans |-> <<>>, list |-> <<>>,
           chat |-> [u \in Users |-> Null], tmpOP |-> [u \in Users |-> NoName]]
Init ==
  LET s == LoadPermanent(Nobody)
  IN /\ chans = s.chans /\ list = s.list /\ chat = s.chat /\ tmpOP = s.tmpOP
     /\ tmpVOICE = [u \in Users |-> NoName]
     /\ oper = [u \in Users |-> {}]

-----------------------------------------------------------------------------
\* Leaving and entering, on a state s as State makes it.

Vanishes(ch) == ch.members = <<>> /\ ~ch.perm

Without(ch, u) == [ch EXCEPT !.members = RemoveFirst(@, u), !.curr = @ - 1]
With(ch, u) == [ch EXCEPT !.members = <<u>> \o @, !.curr = @ + 1]

\* A slip: the temporary operator right is not taken away.
Mut_Left(s, u, p) == [s EXCEPT !.chans[p] = Without(@, u)]

\* channel_del_connection: out of the member list; the temporary operator right
\* for this very channel is lost; an empty channel goes unless it is permanent.
Left(s, u, p) ==
  [s EXCEPT !.chans[p] = Without(@, u),
            !.tmpOP[u] = IF @ = NameOf(s, p) THEN NoName ELSE @]
Swept(s, p) == IF Vanishes(s.chans[p]) THEN Destroyed(s, p) ELSE s
channel_del_connection(s, u) == Swept(Left(s, u, s.chat[u]), s.chat[u])

\* conn_part_channel, conn_kick_channel and conn_quit_channel.
Parted(s, u) == [channel_del_connection(s, u) EXCEPT !.chat[u] = Null]

Favoured(u, ch) == /\ ~ch.perm /\ ch.curr = 0
                   /\ ch.short # Void /\ ch.name \notin ClanNames
                   /\ ~Privileged(u, ch.name)

\* channel_add_connection, after the ban check that its caller has made too.
\* The first one in becomes temporary operator, except in the void, in a
\* permanent channel, in a clan's channel, or as an operator anyway.
channel_add_connection(s, u, p) ==
  [s EXCEPT !.chans[p] = With(@, u),
            !.tmpOP[u] = IF Favoured(u, s.chans[p]) THEN NameOf(s, p) ELSE @,
            !.chat[u] = p]

\* A plausible slip: operators are let in whatever is said of them.
Mut_Refused(s, u, p, name) ==
  ~Privileged(u, name) /\ (u \in s.chans[p].bans \/ ~HasRoom(s.chans[p]))

\* The early returns with -1: a ban, or a limit for who has no rights under
\* the name that was asked for (limit 0 is for operators only).
Refused(s, u, p, name) ==
  \/ u \in s.chans[p].bans
  \/ ~Privileged(u, name) /\ ~HasRoom(s.chans[p])

Success(s) == [s |-> s, ok |-> TRUE]

\* The new channel, found or made, is entered once the old one has been left.
Entered(s, u, name, p) ==
  IF p = Null THEN Success(channel_add_connection(CreateTemporary(s, name), u, Fresh(s)))
  ELSE IF Refused(s, u, p, name) THEN [s |-> s, ok |-> FALSE]
  ELSE Success(channel_add_connection(s, u, p))

\* A plausible slip: the old channel is not left.
Mut_Moved(u, name, f) == Entered(f.s, u, name, f.found)

Moved(u, name, f) ==
  Entered(IF f.s.chat[u] # Null THEN Parted(f.s, u) ELSE f.s, u, name, f.found)

OfClan(u, name) == name \in ClanNames /\ u \notin Admins

\* An officer has the temporary operator right in his clan's channel.
Empowered(s, u, name) == IF u \in Officers THEN [s EXCEPT !.tmpOP[u] = name] ELSE s

\* A plausible slip: a channel that is there is taken for an ordinary one.
Mut_SetFound(s, u, name, f) ==
  IF f.found # Null /\ f.found = s.chat[u] THEN Success(s) ELSE Moved(u, name, f)

\* With the channel found: an outsider of a clan is not let into its private
\* channel; when nobody is there to let him in, he stays or goes to the void.
SetFound(s, u, name, f) ==
  IF f.found # Null /\ f.found = s.chat[u] THEN Success(s)
  ELSE IF ~OfClan(u, name) THEN Moved(u, name, f)
  ELSE IF ClanOf[u] = name
       THEN Moved(u, name, [s |-> Empowered(f.s, u, name), found |-> f.found])
  ELSE IF f.found = Null /\ s.chat[u] = Null
       THEN Moved(u, name, find_channel_by_name(f.s, Void, Country[u]))
  ELSE IF f.found = Null \/ name \in Private THEN Success(f.s)
  ELSE Moved(u, name, f)

\* conn_set_channel: [s, ok] with ok FALSE for -1.
conn_set_channel(s, u, name) ==
  SetFound(s, u, name, find_channel_by_name(s, name, Country[u]))

\* The handlers' idiom: if it fails, go to the void.
VoidIfRefused(r, u) == IF r.ok THEN r.s ELSE conn_set_channel(r.s, u, Void).s
SetOrVoid(s, u, name) == VoidIfRefused(conn_set_channel(s, u, name), u)

-----------------------------------------------------------------------------
\* Moving about.

\* _client_joinchannel and the /channel command, which IRC users have too.
JoinChannel(u, name) ==
  /\ In(u) => NameOf(State, chat[u]) # name
  /\ Set(SetOrVoid(State, u, name))
  /\ UNCHANGED <<tmpVOICE, oper>>

\* JOIN of IRC looks first, and does not go to the void.
IrcJoined(f, u, name) ==
  IF f.found # Null /\ Refused(f.s, u, f.found, name) THEN f.s
  ELSE conn_set_channel(f.s, u, name).s
IrcJoin(u, name) ==
  /\ u \in IrcUsers
  /\ Set(IrcJoined(find_channel_by_name(State, name, NoCountry), u, name))
  /\ UNCHANGED <<tmpVOICE, oper>>

\* PART, leaving for a game.
Part(u) ==
  /\ In(u)
  /\ Set(Parted(State, u))
  /\ UNCHANGED <<tmpVOICE, oper>>

\* conn_destroy: the channel is left and the connection's rights are freed.
Disconnect(u) ==
  /\ Set([(IF In(u) THEN Parted(State, u) ELSE State) EXCEPT !.tmpOP[u] = NoName])
  /\ tmpVOICE' = [tmpVOICE EXCEPT ![u] = NoName]
  /\ UNCHANGED oper

\* channel_rejoin (/rejoin, and when an icon or a flag has changed).
Rejoin(u) ==
  /\ In(u)
  /\ Set(SetOrVoid(Parted(State, u), u, NameOf(State, chat[u])))
  /\ UNCHANGED <<tmpVOICE, oper>>

-----------------------------------------------------------------------------
\* Commands of c about u, both in the same channel unless said otherwise.

Together(c, u) == In(c) /\ chat[u] = chat[c]
Here(c) == NameOf(State, chat[c])
Operates(c) == In(c) /\ Privileged(c, Here(c))
TmpOperates(c) == In(c) /\ tmpOP[c] = Here(c)

\* /kick
Kick(c, u) ==
  /\ Operates(c) \/ TmpOperates(c)
  /\ Together(c, u) /\ ~Privileged(u, Here(c))
  /\ Set(IF u \in IrcUsers THEN Parted(State, u)
         ELSE conn_set_channel(Parted(State, u), u, Void).s)
  /\ UNCHANGED <<tmpVOICE, oper>>

\* A ban like any other.
Mut_Banned(s, p, u) == [s EXCEPT !.chans[p].bans = @ \cup {u}]

\* channel_ban_user does nothing in the void.
Banned(s, p, u) == IF NameOf(s, p) = Void THEN s ELSE [s EXCEPT !.chans[p].bans = @ \cup {u}]

\* /ban: of any account, who is sent to the void if in the channel.
Ban(c, u) ==
  /\ Operates(c)
  /\ ~Privileged(u, Here(c))
  /\ Set(IF Together(c, u) THEN conn_set_channel(Banned(State, chat[c], u), u, Void).s
         ELSE Banned(State, chat[c], u))
  /\ UNCHANGED <<tmpVOICE, oper>>

Unban(c, u) ==
  /\ IF c \in IrcUsers THEN Operates(c) \/ TmpOperates(c) ELSE Operates(c)
  /\ Set([State EXCEPT !.chans[chat[c]].bans = @ \ {u}])
  /\ UNCHANGED <<tmpVOICE, oper>>

\* MODE +b: of anybody, who may stay where he is.
IrcBan(c, u) ==
  /\ c \in IrcUsers /\ (Operates(c) \/ TmpOperates(c))
  /\ Set(Banned(State, chat[c], u))
  /\ UNCHANGED <<tmpVOICE, oper>>

\* MODE +l and -l (channel_set_max).
SetMax(c, max) ==
  /\ c \in IrcUsers /\ (Operates(c) \/ TmpOperates(c))
  /\ Set([State EXCEPT !.chans[chat[c]].max = max])
  /\ UNCHANGED <<tmpVOICE, oper>>

\* /op: an operator makes others operators, a temporary one temporary ones.
Op(c, u) ==
  /\ \/ /\ Operates(c)
        /\ oper' = [oper EXCEPT ![u] = @ \cup {Here(c)}]
        /\ UNCHANGED tmpOP
     \/ /\ ~Operates(c) /\ TmpOperates(c)
        /\ Together(c, u) /\ ~Privileged(u, Here(c))
        /\ tmpOP' = [tmpOP EXCEPT ![u] = Here(c)]
        /\ UNCHANGED oper
  /\ UNCHANGED <<chans, list, chat, tmpVOICE>>

\* /tmpop
TmpOp(c, u) ==
  /\ Operates(c) \/ TmpOperates(c)
  /\ tmpOP[u] # Here(c)
  /\ Together(c, u) /\ ~Privileged(u, Here(c))
  /\ tmpOP' = [tmpOP EXCEPT ![u] = Here(c)]
  /\ UNCHANGED <<chans, list, chat, tmpVOICE, oper>>

\* /deop: of anybody; a temporary operator may only take the temporary right.
DeOp(c, u) ==
  /\ Operates(c) \/ TmpOperates(c)
  /\ tmpOP' = [tmpOP EXCEPT ![u] = IF @ = Here(c) THEN NoName ELSE @]
  /\ oper' = IF Operates(c) THEN [oper EXCEPT ![u] = @ \ {Here(c)}] ELSE oper
  /\ UNCHANGED <<chans, list, chat, tmpVOICE>>

\* /voice and /devoice
Voice(c, u) ==
  /\ Operates(c)
  /\ Together(c, u) /\ ~Privileged(u, Here(c))
  /\ tmpVOICE' = [tmpVOICE EXCEPT ![u] = Here(c)]
  /\ UNCHANGED <<chans, list, chat, tmpOP, oper>>

DeVoice(c, u) ==
  /\ Operates(c)
  /\ tmpVOICE[u] = Here(c)
  /\ tmpVOICE' = [tmpVOICE EXCEPT ![u] = NoName]
  /\ UNCHANGED <<chans, list, chat, tmpOP, oper>>

-----------------------------------------------------------------------------
\* A plausible slip: users come back under the full name.
Mut_ReturnsTo(ch) == ch.name

ReturnsTo(ch) == ch.short

\* channellist_reload: everybody is taken out, all channels are destroyed, the
\* permanent ones are loaded anew, and everybody is put into a channel of the
\* old one's short name, the last channel of the list and its oldest member
\* first.  Failures are not looked at.
Returned(s, ch) ==
  FoldLeft(LAMBDA t, u : conn_set_channel(t, u, ReturnsTo(ch)).s, s, Reverse(ch.members))
AllOut ==
  [State EXCEPT !.chat = [u \in Users |-> Null],
                !.tmpOP = [u \in Users |-> IF In(u) /\ tmpOP[u] = NameOf(State, chat[u])
                                           THEN NoName ELSE tmpOP[u]]]
channellist_reload ==
  /\ Set(FoldLeft(LAMBDA s, p : Returned(s, chans[p]), LoadPermanent(AllOut), Reverse(list)))
  /\ UNCHANGED <<tmpVOICE, oper>>

-----------------------------------------------------------------------------
Next ==
  \/ \E u \in Users :
       \/ \E name \in Requests : JoinChannel(u, name) \/ IrcJoin(u, name)
       \/ Part(u) \/ Disconnect(u) \/ Rejoin(u)
  \/ \E c, u \in Users :
       \/ Kick(c, u) \/ Ban(c, u) \/ Unban(c, u) \/ IrcBan(c, u)
       \/ Op(c, u) \/ TmpOp(c, u) \/ DeOp(c, u) \/ Voice(c, u) \/ DeVoice(c, u)
  \/ \E c \in Users, max \in Limits \cup {NoLimit} : SetMax(c, max)
  \/ channellist_reload

Spec == Init /\ [][Next]_vars

-----------------------------------------------------------------------------
\* Properties.

TypeOK ==
  /\ DOMAIN chans \subseteq Nat \ {Null}
  /\ \A p \in Live :
       /\ chans[p].members \in Seq(Users) /\ chans[p].bans \subseteq Users
       /\ chans[p].curr \in Nat /\ chans[p].max \in Int
  /\ {list[i] : i \in 1..Len(list)} = Live /\ Len(list) = Cardinality(Live)
  /\ chat \in [Users -> Live \cup {Null}]
  /\ tmpOP \in [Users -> Names] /\ tmpVOICE \in [Users -> Names]
  /\ oper \in [Users -> SUBSET Names]
  /\ NoName \notin {chans[p].name : p \in Live}

\* The member list and the connection agree, for every user and channel, and
\* the counter the limits are checked with is the length of the list: nobody is
\* in two channels, and no channel keeps a user who has left or logged off.  A
\* temporary channel goes with the last of them, so its bans and its name are
\* free for the next one.
MembershipConsistent ==
  \A p \in Live :
     /\ chans[p].curr = Len(chans[p].members)
     /\ \A u \in Users :
          Cardinality({i \in 1..Len(chans[p].members) : chans[p].members[i] = u})
            = IF chat[u] = p THEN 1 ELSE 0
     /\ ~chans[p].perm => chans[p].members # <<>>

\* The temporary operator right is kept as a name, and channels of the same
\* name come and go.  Nobody holds it for a channel he is not in, so nobody
\* finds himself operator of a channel others have made since; only the
\* officers of a clan may hold that of their clan's channel from outside.
TmpOPsAreMembers ==
  \A u \in Users : tmpOP[u] # NoName =>
     \/ In(u) /\ chans[chat[u]].name = tmpOP[u]
     \/ tmpOP[u] = ClanOf[u] /\ u \in Officers

\* Whichever way a user comes into a channel (asked, sent, reloaded), he is not
\* banned there, does not exceed its limit unless he is operator, and belongs
\* to the clan if the channel is private.
JoinsAllowed ==
  [][\A u \in Users : chat'[u] \notin {Null, chat[u]} =>
       LET ch == chans'[chat'[u]]
           entitled == \E n \in {ch.name, ch.short} : Privileged(u, n)
       IN /\ u \notin ch.bans
          /\ (ch.members[1] = u /\ ch.max # NoLimit /\ ch.curr > ch.max) => entitled
          /\ ch.name \in Private => ClanOf[u] = ch.name \/ u \in Admins]_vars

\* A refused join never leaves a user without a channel ("should not fail",
\* command.cpp:2428), as long as nobody has set a limit for the void.
VoidUnlimited == \A p \in Live : chans[p].short = Void => chans[p].max = NoLimit
RefusedGoToVoid ==
  [][\A u \in Users : (VoidUnlimited /\ In(u) /\ chat'[u] = Null)
       => ~\E name \in Requests : JoinChannel(u, name)]_vars

\* A reload brings everybody back into a channel of the short name he was in
\* or into the void; it never mixes up who was where.
Misplaced(u) == chat'[u] # Null /\
  ~(In(u) /\ chans'[chat'[u]].short \in {chans[chat[u]].short, Void})
ReloadKeepsPlaces == [][(\E u \in Users : Misplaced(u)) => ~channellist_reload]_vars

\* The comment on channellist_find_channel_by_name: "Create a new channel if it
\* is a permanent-type channel and all others are full."  So nobody ends up in
\* a temporary channel that has the short name of permanent ones.
CopiesArePermanent ==
  \A p \in Live : chans[p].name \in {Plain(Conf[i].short) : i \in 1..Len(Conf)} => chans[p].perm
=============================================================================
