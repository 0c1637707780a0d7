-------------------------------- MODULE Clan --------------------------------
(***************************************************************************)
(* The clans of bnetd: the records of clans and of their members, linked   *)
(* by pointers from a list of clans, from the clans and from the accounts  *)
(* (src/bnetd/clan.cpp), the requests of the clients of Warcraft III       *)
(* (handle_bnet.cpp) and the /clan commands (command.cpp), and the files   *)
(* of the clans (storage_file.cpp), written when the changes are saved.    *)
(*                                                                         *)
(* A request that changes nothing, of a client without the rank or for a   *)
(* name that nobody has, is left out; clan_newer_time is 0, so a member    *)
(* begins as a peon.                                                       *)
(***************************************************************************)
EXTENDS Integers, Sequences, FiniteSets, SequencesExt

CONSTANTS
  Accounts, Tags,
  MaxClans, MaxMembers,   \* the clans and the members that fit in the memory (bounds)
  MaxInvites,             \* the invitations of one request (a bound)
  ClanMaxMembers, ClanMinInvites,
  MaxClanMishaps          \* a bound

ASSUME ClanAssumption ==
  /\ IsFiniteSet(Tags) /\ 0 \notin Accounts \cup Tags
  /\ MaxClans \in Nat \ {0} /\ MaxMembers \in Nat \ {0} /\ MaxInvites \in Nat
  /\ ClanMaxMembers \in Nat \ {0} /\ ClanMinInvites \in Nat /\ MaxClanMishaps \in Nat

VARIABLES
  mem,          \* what bnetd has in memory: records, list, pointers of accounts
  clanFiles,    \* the file of each tag
  writer,       \* history: the clan that wrote, or was read from, the file of a tag
  clanMishaps   \* stops and failures so far (a bound)

clanVars == <<mem, clanFiles, writer, clanMishaps>>

-----------------------------------------------------------------------------
CHIEFTAIN == 4
SHAMAN == 3
GRUNT == 2
PEON == 1

\* Pointers are numbers, and 0 is NULL.
NULL == 0
Clans == 1..MaxClans
Members == 1..MaxMembers

\* created counts the invitations that are not accepted yet, below 0, and is 1 for a
\* clan that exists; old says that two minutes have passed since its creation began.
NoClan == [tag |-> NULL, created |-> 0, members |-> <<>>, modified |-> FALSE, old |-> FALSE]
NoMember == [acc |-> NULL, status |-> 0, full |-> FALSE, clan |-> NULL]

\* A file has a line for each full member, after its first.
File(lines) == [exists |-> TRUE, lines |-> lines]
NoFile == [exists |-> FALSE, lines |-> <<>>]

Empty == [clans |-> [o \in Clans |-> NoClan], members |-> [k \in Members |-> NoMember],
          clanlist |-> <<>>, clanmember |-> [a \in Accounts |-> NULL]]

ClanInit ==
  /\ mem = Empty
  /\ clanFiles = [t \in Tags |-> NoFile]
  /\ writer = [t \in Tags |-> NULL]
  /\ clanMishaps = 0

-----------------------------------------------------------------------------
\* The operations of clan.cpp, as functions on the memory m.
FreeClans(m) == {o \in Clans : m.clans[o] = NoClan}
FreeMembers(m) == {k \in Members : m.members[k] = NoMember}
Allocated(free) == CHOOSE k \in free : \A j \in free : k <= j

\* A new member of o, to whom the account points from now on.
clan_append(m, o, a, status, full) ==
  LET k == Allocated(FreeMembers(m))
  IN  [m EXCEPT !.members[k] = [acc |-> a, status |-> status, full |-> full, clan |-> o],
                !.clans[o].members = Append(@, k),
                !.clanmember[a] = k]

clan_add_member(m, o, a) ==
  [clan_append(m, o, a, PEON, FALSE) EXCEPT !.clans[o].modified = TRUE]

Mut_clan_remove_member(m, o, k) ==
  [m EXCEPT !.clans[o].members = RemoveFirst(@, k), !.clans[o].modified = TRUE,
            !.members[k] = NoMember]
Mut2_clan_remove_member(m, o, k) ==
  [m EXCEPT !.clans[o].members = RemoveFirst(@, k), !.members[k] = NoMember,
            !.clanmember[m.members[k].acc] = NULL]
clan_remove_member(m, o, k) ==
  [m EXCEPT !.clans[o].members = RemoveFirst(@, k), !.clans[o].modified = TRUE,
            !.members[k] = NoMember,
            !.clanmember[m.members[k].acc] = NULL]

clan_create(m, a, t) ==
  LET o == Allocated(FreeClans(m))
  IN  clan_append([m EXCEPT !.clans[o] = [NoClan EXCEPT !.tag = t, !.modified = TRUE],
                            !.clanlist = Append(@, o)],
                  o, a, CHIEFTAIN, TRUE)

\* With clan_remove_all_members.
clan_destroy(m, o) ==
  LET ks == ToSet(m.clans[o].members)
  IN  [clans |-> [m.clans EXCEPT ![o] = NoClan],
       members |-> [k \in Members |-> IF k \in ks THEN NoMember ELSE m.members[k]],
       clanlist |-> m.clanlist,
       clanmember |-> [a \in Accounts |-> IF \E k \in ks : m.members[k].acc = a THEN NULL
                                          ELSE m.clanmember[a]]]

InClanlist(m, o) == o \in ToSet(m.clanlist)
clanlist_remove_clan(m, o) == [m EXCEPT !.clanlist = RemoveFirst(@, o)]

\* The first entry of an account in a clan.
clan_find_member(m, o, a) ==
  LET at == SelectInSeq(m.clans[o].members, LAMBDA k : m.members[k].acc = a)
  IN  IF at = 0 THEN NULL ELSE m.clans[o].members[at]

\* A clan whose last invitation is outstanding is not found.
TagTaken(m, t) == \E o \in ToSet(m.clanlist) : m.clans[o].created # 0 /\ m.clans[o].tag = t

InClan(m, k) == m.clans[m.members[k].clan].created > 0 /\ m.members[k].full
\* The member, the clan that an account is in, and the clan that it is creating or
\* invited to.
account_get_clanmember(m, a) ==
  LET k == m.clanmember[a] IN IF k # NULL /\ InClan(m, k) THEN k ELSE NULL
account_get_clan(m, a) ==
  LET k == m.clanmember[a] IN IF k # NULL /\ InClan(m, k) THEN m.members[k].clan ELSE NULL
account_get_creating_clan(m, a) ==
  LET k == m.clanmember[a] IN IF k # NULL /\ ~InClan(m, k) THEN m.members[k].clan ELSE NULL

-----------------------------------------------------------------------------
\* file_write_clan: full members only.
Stored(m, o) ==
  LET Line(ls, k) == IF m.members[k].full
                     THEN Append(ls, <<m.members[k].acc, m.members[k].status>>) ELSE ls
  IN  File(FoldLeft(Line, <<>>, m.clans[o].members))

\* The clan is created, now.
Existing(m, o) == [m EXCEPT !.clans[o].created = 1, !.clans[o].old = FALSE]

\* clan_save of a clan that exists.  The result of the writing is not looked at.
SavedClan(m, o) == [m EXCEPT !.clans[o].modified = FALSE]
Fails == {FALSE} \cup (IF clanMishaps < MaxClanMishaps THEN {TRUE} ELSE {})
Mishap(fail) == clanMishaps' = IF fail THEN clanMishaps + 1 ELSE clanMishaps
clan_save(m, o, fail) ==
  /\ mem' = SavedClan(m, o)
  /\ clanFiles' = IF fail THEN clanFiles ELSE [clanFiles EXCEPT ![m.clans[o].tag] = Stored(m, o)]
  /\ writer' = [writer EXCEPT ![m.clans[o].tag] = IF fail THEN NULL ELSE o]
  /\ Mishap(fail)

\* The clan o is freed, and what is left of it on the disk is nobody's.
ClanFreed(m, o) ==
  /\ mem' = clan_destroy(m, o)
  /\ writer' = [t \in Tags |-> IF writer[t] = o THEN NULL ELSE writer[t]]

InMemory(m) == mem' = m /\ UNCHANGED <<clanFiles, writer, clanMishaps>>

Room(clans, members) ==
  Cardinality(FreeClans(mem)) >= clans /\ Cardinality(FreeMembers(mem)) >= members

-----------------------------------------------------------------------------
\* The requests of the clients of Warcraft III.

\* A clan of the requester and of those of the names who are online, who are full members
\* at once, whatever clan any of them is in.  The names may be more than those.
client_clan_createinvitereq(a, t, invited, membercount) ==
  /\ Len(invited) <= membercount
  /\ Room(1, 1 + Len(invited))
  /\ LET created == clan_create(mem, a, t)
         o == Allocated(FreeClans(mem))
         Invited(m, x) == [clan_append(m, o, x, PEON, TRUE) EXCEPT !.clans[o].modified = TRUE]
     IN  InMemory(FoldLeft(Invited, [created EXCEPT !.clans[o].created = -membercount], invited))

\* The answer names its inviter, and is for the clan that the inviter creates, or is
\* invited to, by now.
client_clan_createinvitereply(inviter, accept, fail) ==
  LET o == account_get_creating_clan(mem, inviter)
      created == mem.clans[o].created + 1
  IN  /\ o # NULL
      /\ \/ /\ ~accept /\ ~fail
            /\ ClanFreed(clanlist_remove_clan(mem, o), o)
            /\ UNCHANGED <<clanFiles, clanMishaps>>
         \/ /\ accept /\ created \in 0..1
            /\ clan_save(Existing(mem, o), o, fail)
         \/ /\ accept /\ created < 0 /\ ~fail
            /\ InMemory([mem EXCEPT !.clans[o].created = created])

\* clanmember_set_status
set_status(m, k, status) ==
  [m EXCEPT !.members[k].status = status,
            !.clans[m.members[k].clan].modified = @ \/ m.members[k].status # status]

client_clanmember_rankupdatereq(a, x, status) ==
  LET o == account_get_clan(mem, a)
      member == clan_find_member(mem, o, a)
      dest == clan_find_member(mem, o, x)
  IN  /\ o # NULL /\ member # NULL /\ dest # NULL /\ member # dest
      /\ status \in PEON..SHAMAN
      /\ \/ /\ mem.members[member].status = SHAMAN
            /\ status < SHAMAN /\ mem.members[dest].status < SHAMAN
         \/ mem.members[member].status = CHIEFTAIN
      /\ InMemory(set_status(mem, dest, status))

\* Of any member, by any member.
client_clanmember_removereq(a, x) ==
  LET o == account_get_clan(mem, a)
      member == clan_find_member(mem, o, x)
  IN  /\ o # NULL /\ member # NULL
      /\ InMemory(clan_remove_member(mem, o, member))

Mut_membernewchiefreq(a, x) ==
  LET oldmember == account_get_clanmember(mem, a)
      newmember == clan_find_member(mem, mem.members[oldmember].clan, x)
  IN  /\ oldmember # NULL /\ mem.members[oldmember].status = CHIEFTAIN
      /\ newmember # NULL
      /\ InMemory(set_status(mem, newmember, CHIEFTAIN))
client_clan_membernewchiefreq(a, x) ==
  LET oldmember == account_get_clanmember(mem, a)
      newmember == clan_find_member(mem, mem.members[oldmember].clan, x)
  IN  /\ oldmember # NULL /\ mem.members[oldmember].status = CHIEFTAIN
      /\ newmember # NULL
      /\ InMemory(set_status(set_status(mem, oldmember, GRUNT), newmember, CHIEFTAIN))

\* A clan that has no file, because another one of its tag was disbanded, leaves the
\* list and stays in the memory.
client_clan_disbandreq(a) ==
  LET o == account_get_clan(mem, a)
      t == mem.clans[o].tag
      left == clanlist_remove_clan(mem, o)
  IN  /\ o # NULL /\ mem.members[mem.clanmember[a]].status >= CHIEFTAIN
      /\ InClanlist(mem, o)
      /\ \/ /\ clanFiles[t].exists
            /\ clanFiles' = [clanFiles EXCEPT ![t] = NoFile]
            /\ ClanFreed(left, o)
            /\ UNCHANGED clanMishaps
         \/ /\ ~clanFiles[t].exists
            /\ InMemory(left)

client_clan_invitereq(a, x) ==
  LET o == account_get_clan(mem, a)
  IN  /\ o # NULL /\ mem.members[mem.clanmember[a]].status >= SHAMAN
      /\ mem.clanmember[x] = NULL
      /\ Len(mem.clans[o].members) < ClanMaxMembers
      /\ Room(0, 1)
      /\ InMemory(clan_add_member(mem, o, x))

\* The member who answers is in the count already.
client_clan_invitereply(x, inviter, accept) ==
  LET member == mem.clanmember[x]
      o == mem.members[member].clan
      conn_clan == account_get_clan(mem, inviter)
  IN  /\ member # NULL /\ ~mem.members[member].full
      /\ conn_clan # NULL /\ mem.members[mem.clanmember[inviter]].status >= SHAMAN
      /\ mem.clans[o].tag = mem.clans[conn_clan].tag
      /\ \/ /\ accept => Len(mem.clans[o].members) >= ClanMaxMembers
            /\ InMemory(clan_remove_member(mem, o, member))
         \/ /\ accept /\ Len(mem.clans[o].members) < ClanMaxMembers
            /\ InMemory([mem EXCEPT !.members[member].full = TRUE])

-----------------------------------------------------------------------------
\* The /clan commands.

clan_command_create(a, t, fail) ==
  /\ mem.clanmember[a] = NULL /\ ~TagTaken(mem, t)
  /\ Room(1, 1)
  /\ LET m == clan_create(mem, a, t)
         o == Allocated(FreeClans(mem))
     IN  IF ClanMinInvites = 0 THEN clan_save(Existing(m, o), o, fail)
         ELSE ~fail /\ InMemory([m EXCEPT !.clans[o].created = 1 - ClanMinInvites])

clan_command_invite(a, x) ==
  LET k == mem.clanmember[a]
  IN  /\ k # NULL /\ mem.members[k].full /\ mem.members[k].status >= SHAMAN
      /\ mem.clanmember[x] = NULL
      /\ Room(0, 1)
      /\ InMemory(clan_add_member(mem, mem.members[k].clan, x))

\* The word yes is asked for, and not waited for.
clan_command_disband(a) ==
  LET k == mem.clanmember[a]
      o == mem.members[k].clan
  IN  /\ k # NULL /\ mem.members[k].full /\ mem.members[k].status >= SHAMAN
      /\ InClanlist(mem, o)
      /\ clanFiles' = IF mem.clans[o].created = 1
                      THEN [clanFiles EXCEPT ![mem.clans[o].tag] = NoFile] ELSE clanFiles
      /\ ClanFreed(clanlist_remove_clan(mem, o), o)
      /\ UNCHANGED clanMishaps

clan_command_accept(x, fail) ==
  LET k == mem.clanmember[x]
      o == mem.members[k].clan
      created == mem.clans[o].created + 1
      m == [mem EXCEPT !.members[k].full = TRUE]
  IN  /\ k # NULL /\ ~mem.members[k].full
      /\ \/ /\ created > 1 /\ ~fail
            /\ InMemory(m)
         \/ /\ created \in 0..1
            /\ clan_save(Existing(m, o), o, fail)
         \/ /\ created < 0 /\ ~fail
            /\ InMemory([m EXCEPT !.clans[o].created = created])

clan_command_decline(x) ==
  LET k == mem.clanmember[x]
  IN  /\ k # NULL /\ ~mem.members[k].full
      /\ InMemory(clan_remove_member(mem, mem.members[k].clan, k))

-----------------------------------------------------------------------------
\* clanlist_save goes through the list.  At the first clan whose creation has lasted for
\* two minutes, clan_save frees the element that the loop is at; its link is NULL in
\* the memory freed, and the loop ends there.
Expired(m, o) == m.clans[o].modified /\ m.clans[o].created <= 0 /\ m.clans[o].old
LoopEnd(m) ==
  LET at == SelectInSeq(m.clanlist, LAMBDA o : Expired(m, o))
  IN  IF at = 0 THEN Len(m.clanlist) ELSE at
Written(m, n) ==
  {i \in 1..n : m.clans[m.clanlist[i]].modified /\ m.clans[m.clanlist[i]].created > 0}
\* The last one of its tag among those written is what the file has then.
LastWritten(m, is, t) ==
  LET of == {i \in is : m.clans[m.clanlist[i]].tag = t}
  IN  IF of = {} THEN NULL ELSE m.clanlist[CHOOSE i \in of : \A j \in of : j <= i]
FilesWritten(m, is) ==
  [t \in Tags |-> IF LastWritten(m, is, t) = NULL THEN clanFiles[t]
                  ELSE Stored(m, LastWritten(m, is, t))]

\* unwritten: those of the places of the list whose file cannot be opened.
clanlist_save(unwritten) ==
  LET end == LoopEnd(mem)
      reached == Written(mem, end)
      written == reached \ unwritten
      Saved(m, i) == SavedClan(m, mem.clanlist[i])
      saved == FoldLeft(Saved, mem, SetToSeq(reached))
      gone == {mem.clanlist[i] : i \in {j \in 1..end : Expired(mem, mem.clanlist[j])}}
      Gone(m, o) == clan_destroy(clanlist_remove_clan(m, o), o)
  IN  /\ reached \cup gone # {}
      /\ unwritten \subseteq reached
      /\ clanFiles' = FilesWritten(mem, written)
      /\ mem' = FoldLeft(Gone, saved, SetToSeq(gone))
      /\ writer' = [t \in Tags |->
           LET o == LastWritten(mem, written, t)
           IN  IF \E i \in unwritten : mem.clans[mem.clanlist[i]].tag = t THEN NULL
               ELSE IF o # NULL THEN o ELSE IF writer[t] \in gone THEN NULL ELSE writer[t]]
      /\ clanMishaps' = clanMishaps + IF unwritten = {} THEN 0 ELSE 1
      /\ clanMishaps' <= MaxClanMishaps

\* Two minutes pass.
ClanAges(o) ==
  /\ mem.clans[o].tag # NULL /\ mem.clans[o].created <= 0 /\ ~mem.clans[o].old
  /\ InMemory([mem EXCEPT !.clans[o].old = TRUE])

\* file_load_clans, for one file.
LoadedClan(files, m, t) ==
  LET o == Allocated(FreeClans(m))
      Line(n, l) == clan_append(n, o, l[1], l[2], TRUE)
  IN  FoldLeft(Line,
               [m EXCEPT !.clans[o] = [NoClan EXCEPT !.tag = t, !.created = 1],
                         !.clanlist = Append(@, o)],
               files[t].lines)

\* The clans of the files, in the order in which the directory has them.
clanlist_load(files, tags) ==
  LET Loaded(m, t) == LoadedClan(files, m, t) IN FoldLeft(Loaded, Empty, tags)

\* What is in the files fits in the memory.
Fit(files) ==
  /\ Cardinality({t \in Tags : files[t].exists}) <= MaxClans
  /\ Cardinality(UNION {{t} \X DOMAIN files[t].lines : t \in Tags}) <= MaxMembers

\* bnetd stops, after it has gone through n places of the list in clanlist_save or
\* without that, in the middle of the next writing if torn, and is started again.  A file
\* that was cut short has no first line, and is left out.
Restart(n, torn) ==
  LET cut == IF torn THEN {mem.clans[mem.clanlist[n + 1]].tag} ELSE {}
      files == [t \in Tags |-> IF t \in cut THEN NoFile
                               ELSE FilesWritten(mem, Written(mem, n))[t]]
  IN  /\ n <= LoopEnd(mem) /\ (torn => n + 1 \in Written(mem, LoopEnd(mem)))
      /\ mem # Empty
      /\ Fit(files)
      /\ clanFiles' = files
      /\ \E tags \in SetToSeqs({t \in Tags : files[t].exists}) :
           /\ mem' = clanlist_load(files, tags)
           /\ writer' = [t \in Tags |-> SelectInSeq(tags, LAMBDA u : u = t)]
      /\ clanMishaps' = clanMishaps + 1 /\ clanMishaps' <= MaxClanMishaps

ClanNext ==
  \/ \E a \in Accounts, t \in Tags, fail \in Fails :
       \/ clan_command_create(a, t, fail)
       \/ \E n \in 0..MaxInvites, c \in 0..MaxInvites : \E invited \in [1..n -> Accounts] :
            ~fail /\ client_clan_createinvitereq(a, t, invited, c)
  \/ \E a \in Accounts, fail \in Fails :
       \/ \E accept \in BOOLEAN : client_clan_createinvitereply(a, accept, fail)
       \/ clan_command_accept(a, fail)
  \/ \E a, x \in Accounts :
       \/ \E status \in PEON..CHIEFTAIN : client_clanmember_rankupdatereq(a, x, status)
       \/ client_clanmember_removereq(a, x)
       \/ client_clan_membernewchiefreq(a, x)
       \/ client_clan_invitereq(a, x)
       \/ \E accept \in BOOLEAN : client_clan_invitereply(a, x, accept)
       \/ clan_command_invite(a, x)
  \/ \E a \in Accounts : client_clan_disbandreq(a) \/ clan_command_disband(a)
                         \/ clan_command_decline(a)
  \/ \E unwritten \in SUBSET (1..Len(mem.clanlist)) : clanlist_save(unwritten)
  \/ \E o \in Clans : ClanAges(o)
  \/ \E n \in 0..Len(mem.clanlist), torn \in BOOLEAN : Restart(n, torn)

ClanSpec == ClanInit /\ [][ClanNext]_clanVars

-----------------------------------------------------------------------------
ClanTypeOK ==
  /\ mem.clans \in [Clans -> [tag : Tags \cup {NULL}, created : -(MaxInvites + ClanMinInvites)..1,
                              members : Seq(Members), modified : BOOLEAN, old : BOOLEAN]]
  /\ mem.members \in [Members -> [acc : Accounts \cup {NULL}, status : 0..CHIEFTAIN,
                                  full : BOOLEAN, clan : Clans \cup {NULL}]]
  /\ ToSet(mem.clanlist) \subseteq Clans
  /\ mem.clanmember \in [Accounts -> Members \cup {NULL}]
  /\ \A t \in Tags : ToSet(clanFiles[t].lines) \subseteq Accounts \X (PEON..CHIEFTAIN)
  /\ writer \in [Tags -> Clans \cup {NULL}]
  /\ clanMishaps \in 0..MaxClanMishaps

\* No account points to a member that is freed, or is another's, and the clan of
\* the member is one that has it, whichever clan the account was taken into or thrown out of
\* without a look at the one it was in.
PointersAreLive ==
  \A a \in Accounts :
    LET k == mem.clanmember[a]
    IN  k # NULL => /\ mem.members[k].acc = a
                    /\ mem.members[k].clan # NULL
                    /\ k \in ToSet(mem.clans[mem.members[k].clan].members)

\* A clan has one chieftain at most, in the memory and in its file, however often an
\* account is in it.
OneChieftain ==
  /\ \A k, l \in Members :
       (/\ mem.members[k].status = CHIEFTAIN /\ mem.members[l].status = CHIEFTAIN
        /\ mem.members[k].clan = mem.members[l].clan) => k = l
  /\ \A t \in Tags : LET ls == clanFiles[t].lines
                       IN  \A i, j \in DOMAIN ls :
                             ls[i][2] = CHIEFTAIN /\ ls[j][2] = CHIEFTAIN => i = j

\* Once its changes are saved, the file of a clan has no member who has left it, and no
\* rank that a member has no more: a member may only be missing, who accepted an
\* invitation after the last change that counted as one.  (A clan has lost its file
\* when another one of its tag wrote it, or when it could not be written.)
FileIsNotStale ==
  \A t \in Tags :
    LET o == writer[t]
    IN  o # NULL /\ ~mem.clans[o].modified =>
          ToSet(clanFiles[t].lines) \subseteq ToSet(Stored(mem, o).lines)
=============================================================================
