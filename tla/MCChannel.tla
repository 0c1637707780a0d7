----------------------------- MODULE MCChannel ------------------------------
EXTENDS Channel, TLC

Line(name, short, tag, country, max) ==
  [name |-> name, short |-> short, tag |-> tag, country |-> country, oper |-> FALSE, max |-> max]

MCVoid == Plain("The Void")
VoidLine == Line(MCVoid, "The Void", "", "", NoLimit)

\* The lines of the shipped channel.conf that matter here, with a limit of 1.
MCConf == <<VoidLine, Line(Plain("Warcraft 3"), "W3", "W3XP", "", 1)>>

MCRequests == {Plain("x"), Plain("y"), Plain("W3"), Plain("clan a"), Plain("clan b")}
CopiesRequests == {Plain("W3"), Plain("x")}

MCClanNames == {Plain("clan a"), Plain("clan b")}
ClanB == {Plain("clan b")}
MCClanOf == [u \in Users |-> CASE u = "irc" -> Plain("clan a")
                               [] u = "bob" -> Plain("clan b")
                               [] OTHER -> NoName]
NoClans == [u \in Users |-> NoName]
NoCountries == [u \in Users |-> ""]
AllFromUsa == [u \in Users |-> "USA"]

\* Users are in channels of these short names only.
OpenTo(names) == \A p \in Live : chans[p].curr > 0 => chans[p].short \in names
\* There are no copies, and nobody has changed a limit.
AsLoaded == /\ Cardinality({p \in Live : chans[p].perm}) = Len(Conf)
            /\ \A p \in Live : ~chans[p].perm => chans[p].max = MaxUsers
Given(u) == (oper[u] \cup {tmpVOICE[u]}) \ {NoName}

\* The run covers three regions of the state space.  In the first, on rights,
\* bob alone is given permanent rights or voice, and in channel x only, where one
\* may be banned too if nobody has voice.
FewRights ==
  /\ OpenTo({MCVoid, Plain("x"), Plain("y")})
  /\ \A u \in Users : Given(u) \subseteq (IF u = "bob" THEN {Plain("x")} ELSE {})
  /\ \A p \in Live : /\ chans[p].short # Plain("y") \/ chans[p].bans = {}
                     /\ Cardinality(chans[p].bans) <= 1
                     /\ tmpVOICE["bob"] # NoName => chans[p].bans = {} /\ oper["bob"] = {}
  /\ AsLoaded

\* In the others, on copies and their limits and on clans, no rights and bans are
\* given, and there are few channels.
NoRights ==
  /\ \A u \in Users : Given(u) = {}
  /\ \A p \in Live : chans[p].bans = {}
  /\ Cardinality(Live) <= 5
Copies == NoRights /\ OpenTo({MCVoid, Plain("x"), Plain("W3")})
Clans == NoRights /\ AsLoaded /\ OpenTo({MCVoid} \cup MCClanNames)
MCRegions == FewRights \/ Copies \/ Clans
=============================================================================
