------------------------------ MODULE MCStores ------------------------------
(***************************************************************************)
(* Four components, each one alone: the files of characters, and of bnetd  *)
(* the clans, the attributes of accounts and the anonymous games.  A       *)
(* behaviour is one of one of them.                                        *)
(***************************************************************************)
EXTENDS CharFiles, Clan, AttrStore, AnonGame, FiniteSets, TLC

VARIABLE part    \* the component that the behaviour is about

MCOldLadder == {<<"a", "c">>}
MCPrefs == {{"m"}, {"n"}, {"m", "n"}}

MCInit ==
  /\ FilesInit /\ ClanInit /\ AttrInit /\ AnonInit /\ part \in {"files", "clans", "attrs", "anon"}
  /\ part # "attrs" => \A g \in Groups : ~attrs.files[g].there
MCNext ==
  /\ \/ part = "files" /\ FilesNext /\ UNCHANGED <<clanVars, attrVars, ag>>
     \/ part = "clans" /\ ClanNext /\ UNCHANGED <<filesVars, attrVars, ag>>
     \/ part = "attrs" /\ AttrNext /\ UNCHANGED <<filesVars, clanVars, ag>>
     \/ part = "anon" /\ AnonNext /\ UNCHANGED <<filesVars, clanVars, attrVars>>
  /\ UNCHANGED part
MCSpec == MCInit /\ [][MCNext]_<<filesVars, clanVars, attrVars, ag, part>>

\* Each component holds values of its types.
StoresTypeOK == CASE part = "files" -> FilesTypeOK [] part = "clans" -> ClanTypeOK
                  [] part = "attrs" -> AttrTypeOK [] part = "anon" -> AnonTypeOK

-----------------------------------------------------------------------------
\* Accounts are alike, and players as well; three of them do for the duels.
Three == Gamers \ {CHOOSE c \in Gamers : TRUE}
MCSymmetry == Permutations(Accounts) \cup Permutations(Three) 

\* Characters: one of the two accounts plays, and the other may take the name; the
\* saves of a second version are those of characters that are settled.
FilesRegion ==
  /\ \A o \in playing : o[1] = "a"
  /\ files[InfoBak("a", "c")] = Absent
  /\ files[Info("b", "c")] # Absent =>
       files[InfoTmp("a", "c")] = Absent /\ ladder = {} /\ version["c"] <= 1
  /\ ladder # {} => version["c"] <= 1

\* Clans: one with everything that may happen to it, or two without restarts, of peons
\* and chieftains.
Ranks == {mem.members[k].status : k \in Members}
OneClan == /\ Cardinality(FreeClans(mem)) >= MaxClans - 1
           /\ Cardinality(FreeMembers(mem)) >= MaxMembers - 2
TwoClans ==
  /\ clanMishaps = 0 /\ Ranks \subseteq {0, PEON, CHIEFTAIN}
  /\ (\A o \in Clans : ~mem.clans[o].old) \/ Cardinality(FreeMembers(mem)) >= MaxMembers - 2
  /\ \A o \in Clans : mem.clans[o] = NoClan \/ InClanlist(mem, o)
  /\ \A o \in Clans : mem.clans[o].created >= 0 => mem.clans[o].members # <<>>

\* Attributes: after a stop or a failure one account is loaded, and has one value; after the
\* loop has been cut off nothing saved is changed again; one account has a value saved at
\* most, and that one may be changed to the second value while the other has none.
AttrsRegion ==
  /\ attrMishaps = 0 \/ (Len(attrs.loadedlist) <= 2 /\ \A g \in Groups : lastSet[g] # 2)
  /\ attrs.cut => \A g \in Groups : lastSet[g] # NoValue => attrs.files[g].val = NoValue
  /\ \A g \in Groups : lastSet[g] = 2 =>
       attrs.files[g].val # NoValue /\ \A h \in Groups \ {g} : lastSet[h] = NoValue
  /\ \E g \in Groups : attrs.files[g].val = NoValue /\ lastSet[g] # 2

\* Anonymous games: duels of three players, one without a checked version at most, and one duel
\* to its end; teams made up of four who play alone, until one is made; two arranged teams, of
\* whom one player at most leaves while the others go on.
On == {c \in Gamers : ag.conn[c].cl # "off"}
Doing(cl) == {c \in Gamers : ag.conn[c].cl = cl}
NoGameYet == \A g \in AnonGames : ag.infos[g] = NoInfo
Checked == \A c \in On : ag.conn[c].version = "v"
LevelsTo(n) == \A c \in Gamers : ag.conn[c].level <= n
Only(q) == \A r \in AnonTypes \ {q} : ag.lists[r] = <<>> /\ \A g \in AnonGames : ag.infos[g].queue # r
Duels ==
  /\ \A c \in On : ag.conn[c].team = <<>>
  /\ Only("1v1") /\ LevelsTo(2) /\ On \subseteq Three
  /\ IF NoGameYet THEN Cardinality({c \in On : ag.conn[c].version # "v"}) <= 1
     ELSE Checked /\ LevelsTo(1) /\ (Cardinality(On) <= 2 \/ \A g \in AnonGames : ~ag.infos[g].ready)
MadeUpTeams ==
  /\ \A c \in On : ag.conn[c].team = <<>>
  /\ Only("2v2") /\ NoGameYet /\ Checked /\ Cardinality(Doing("idle")) <= 1
  /\ \A c \in Doing("search") : ag.anon[c].prefs = Maps
ArrangedTeams ==
  /\ \A c \in On : ag.conn[c].team # <<>>
  /\ LevelsTo(0) /\ Checked /\ \A c \in Doing("search") : ag.anon[c].prefs = Maps
  /\ Cardinality({c \in Gamers : Freed \in ToSet(ag.anon[c].tc)}) <= 1
  /\ \A c \in Gamers : ag.route[c] => On = Gamers /\ ~ag.anon[c].joined
  /\ Cardinality({c \in Gamers : ag.route[c]}) <= 1

MCRegions == CASE part = "files" -> FilesRegion [] part = "clans" -> OneClan \/ TwoClans
               [] part = "attrs" -> AttrsRegion
               [] part = "anon" -> Duels \/ MadeUpTeams \/ ArrangedTeams
=============================================================================
