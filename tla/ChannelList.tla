---------------------------- MODULE ChannelList ----------------------------
(***************************************************************************)
(* The list of chat channels of bnetd (src/bnetd/channel.cpp): creating a  *)
(* channel, destroying it, and finding the one a client means by a name.   *)
(* Permanent channels come from channel.conf.  Several share a short name, *)
(* and when all that suit a client are full, looking the name up creates a *)
(* copy.  The operators are functions of a record s with the fields        *)
(*   chans: the t_channel structures by address, list: channellist_head.   *)
(* One program thread: a lookup is atomic.                                 *)
(***************************************************************************)
EXTENDS Integers, Sequences, FiniteSets, SequencesExt

CONSTANTS
  Users,        \* accounts, each with at most one connection
  Conf,         \* channel.conf: a sequence of permanent channels
  MaxUsers      \* the limit of new temporary channels (maxusers_per_channel)

Null == 0
NoLimit == -1
NoCountry == ""
NoTag == ""

\* A full name is what channel_format_name makes of its parts.  A name that a
\* user types may be any of them; <<n, NoCountry, 0>> is the plain name n.
channel_format_name(sname, country, id) == <<sname, country, id>>
Plain(n) == <<n, NoCountry, 0>>

Names == STRING \X STRING \X Nat

\* A line of channel.conf: name is NoName for an automatic name ("NONE" in the
\* file).  No channel has the empty name: channel_create refuses it.
NoName == Plain("")
Lines == [name : Names, short : STRING, tag : STRING, country : STRING, oper : BOOLEAN, max : Int]

ASSUME ChannelListAssumption ==
  /\ {NoCountry, NoTag} \subseteq STRING
  /\ MaxUsers \in Int
  /\ Conf \in Seq(Lines)
  /\ \A i \in 1..Len(Conf) :
       /\ Conf[i].short # ""
       \* no short name is another channel's full name
       /\ \A j \in 1..Len(Conf) : Conf[j].name = Plain(Conf[i].short) => i = j

-----------------------------------------------------------------------------
\* Malloc: the least address that is free, which one is immaterial.
Fresh(s) == CHOOSE p \in 1..Cardinality(DOMAIN s.chans) + 1 :
              /\ p \notin DOMAIN s.chans
              /\ \A q \in 1..p - 1 : q \in DOMAIN s.chans

\* channellist_find_channel_by_fullname: the first in the list, if any.
FindFullname(s, name) ==
  IF \E i \in 1..Len(s.list) : s.chans[s.list[i]].name = name
  THEN s.list[CHOOSE i \in 1..Len(s.list) :
                /\ s.chans[s.list[i]].name = name
                /\ \A j \in 1..i - 1 : s.chans[s.list[j]].name # name]
  ELSE Null

AppendedAt(s, ch, p) ==
  [s EXCEPT !.chans = [q \in DOMAIN @ \cup {p} |-> IF q = p THEN ch ELSE @[q]],
            !.list = Append(@, p)]
Listed(s, ch) == AppendedAt(s, ch, Fresh(s))

NewChannel(name, short, tag, country, oper, max, auto, perm) ==
  [name |-> name, short |-> short, tag |-> tag, country |-> country, oper |-> oper,
   max |-> max, auto |-> auto, perm |-> perm, curr |-> 0, members |-> <<>>, bans |-> {}]

\* channel_create for a permanent channel is refused (found = Null) if one of
\* its name exists with the same client tag or with other parameters.  The oper
\* flag stands for the flags that are compared, which a temporary channel has
\* set otherwise.
Conflict(old, ch) == (old.tag = ch.tag /\ ch.tag # NoTag) \/ old.oper # ch.oper \/ old.max # ch.max
CreatePermanent(s, ch) ==
  IF \E p \in {FindFullname(s, ch.name)} : p # Null /\ Conflict(s.chans[p], ch)
  THEN [s |-> s, found |-> Null] ELSE [s |-> Listed(s, ch), found |-> Fresh(s)]

\* channel_create for a temporary channel, whose short name is its name.
CreateTemporary(s, name) ==
  Listed(s, NewChannel(name, name, NoTag, NoCountry, TRUE, MaxUsers, FALSE, FALSE))

\* A slip: the list keeps the address of what is freed.
Mut_Destroyed(s, p) == [s EXCEPT !.chans = [q \in DOMAIN @ \ {p} |-> @[q]]]

\* channel_destroy of an empty channel.
Destroyed(s, p) ==
  [s EXCEPT !.chans = [q \in DOMAIN @ \ {p} |-> @[q]],
            !.list = RemoveFirst(@, p)]

\* channellist_load_permanent after channellist_create: the channels of
\* channel.conf; a line that channel_create refuses is skipped.
ConfChannel(l) ==
  NewChannel(IF l.name = NoName THEN channel_format_name(l.short, l.country, 1) ELSE l.name,
             Plain(l.short), l.tag, l.country, l.oper, l.max, l.name = NoName, TRUE)
LoadPermanent(s) ==
  FoldLeft(LAMBDA t, l : CreatePermanent(t, ConfChannel(l)).s,
           [s EXCEPT !.chans = <<>>, !.list = <<>>], Conf)

-----------------------------------------------------------------------------
\* channellist_find_channel_by_name, for the short or full name a client of the
\* given country asks for.  It goes through the list once; what it remembers on
\* the way is said of the positions i, j of the list.

\* An off-by-one.
Mut_HasRoom(ch) == ch.max = NoLimit \/ ch.curr <= ch.max

HasRoom(ch) == ch.max = NoLimit \/ ch.curr < ch.max

Least(I) == CHOOSE i \in I : \A j \in I : i <= j
Greatest(I) == CHOOSE i \in I : \A j \in I : j <= i

\* What is looked at in place of a channel is the first one of its full name.
At(s, i) == s.chans[FindFullname(s, s.chans[s.list[i]].name)]

Named(s, name) == {i \in 1..Len(s.list) : s.chans[s.list[i]].short = name}

\* The channels that are for the client's country (for any, if it gave none) ...
Lang(s, name, country) ==
  {i \in Named(s, name) : \E ch \in {At(s, i)} :
     ch.country # NoCountry /\ country \in {NoCountry, ch.country}}

\* ... and all that suit it: those without a country until one of the former has
\* been met.
Suiting(s, name, country, lang) ==
  lang \cup {i \in Named(s, name) : \/ country = NoCountry
                                   \/ /\ At(s, i).country = NoCountry
                                      /\ \A j \in lang : i <= j}

\* The name of the copy that is made when all that suit are full.  The number
\* counts from the first one for the client's country, if there is one.
CopyName(s, name, country, lang, kept) ==
  LET counted == {i \in Suiting(s, name, country, lang) : lang = {} \/ i >= Least(lang)}
  IN IF \E i \in lang : i = Least(lang) /\ ~At(s, i).auto
     THEN channel_format_name(At(s, Least(lang)).name[1], NoCountry, Cardinality(counted) + 1)
     ELSE channel_format_name(name[1], IF country # NoCountry THEN country ELSE kept,
                              Cardinality(counted) + 1)

\* The copy is made with the parameters of the last channel of the name.
CopyMade(s, name, country, lang, of) ==
  CreatePermanent(s, NewChannel(CopyName(s, name, country, lang, of.country), name, of.tag,
                                IF country # NoCountry THEN country ELSE of.country,
                                of.oper, of.max, TRUE, TRUE))

Fitting(s, name, suiting) ==
  {i \in 1..Len(s.list) : \/ s.chans[s.list[i]].name = name
                          \/ i \in suiting /\ HasRoom(At(s, i))}

FirstFitting(s, name, country, lang, fits) ==
  IF fits # {} THEN [s |-> s, found |-> FindFullname(s, s.chans[s.list[Least(fits)]].name)]
  ELSE IF Named(s, name) = {} THEN [s |-> s, found |-> Null]
  ELSE CopyMade(s, name, country, lang, At(s, Greatest(Named(s, name))))

FindAmong(s, name, country, lang) ==
  FirstFitting(s, name, country, lang, Fitting(s, name, Suiting(s, name, country, lang)))

\* The channel there is or the copy that could be made (Null: neither), and
\* the list after that.
find_channel_by_name(s, name, country) == FindAmong(s, name, country, Lang(s, name, country))
=============================================================================
