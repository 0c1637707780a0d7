---------------------------- MODULE Bnetd_proofs ----------------------------
(***************************************************************************)
(* Theorems about clans and channels of bnetd.                             *)
(*                                                                         *)
(* Clan, for any accounts, any finite set of tags and any sizes of the     *)
(* memory: its types, the pointers between accounts, members and clans,    *)
(* one chieftain for each clan, and the files of the clans.  The invariant *)
(* has two parts.  The one of the memory says that lists, members and      *)
(* pointers agree.  The one of the files follows what a step may do to a   *)
(* clan: a step that grows the memory (Grows) takes no tag and no line of  *)
(* its file from a clan that has no change to be saved.  The loops of the  *)
(* code are folds, and have an invariant each.                             *)
(*                                                                         *)
(* Channel, for any users, clans, names and channel.conf.                  *)
(***************************************************************************)
EXTENDS Clan, Channel, Lists
-----------------------------------------------------------------------------
\* The invariant of what is in the memory: the list of a clan has each of its members
\* once and nobody else's, what is not free is somebody's, an account points to a
\* member of its own, and no clan has two chieftains.
ClanRec == [tag : Tags \cup {NULL}, created : -(MaxInvites + ClanMinInvites)..1,
            members : Seq(Members), modified : BOOLEAN, old : BOOLEAN]
MemberRec == [acc : Accounts \cup {NULL}, status : 0..CHIEFTAIN, full : BOOLEAN,
              clan : Clans \cup {NULL}]
ClanMem == [clans : [Clans -> ClanRec], members : [Members -> MemberRec],
            clanlist : Seq(Clans), clanmember : [Accounts -> Members \cup {NULL}]]

Linked(m) ==
  \A o \in Clans :
    /\ IsInjective(m.clans[o].members)
    /\ \A k \in Members : k \in ToSet(m.clans[o].members) <=> m.members[k].clan = o
InUse(m) ==
  /\ \A o \in Clans : m.clans[o] = NoClan \/ m.clans[o].tag \in Tags
  /\ \A k \in Members : \/ m.members[k] = NoMember
                        \/ /\ m.members[k].acc \in Accounts /\ m.members[k].clan \in Clans
                           /\ m.members[k].status \in PEON..CHIEFTAIN
Pointed(m) ==
  \A a \in Accounts : m.clanmember[a] # NULL => m.members[m.clanmember[a]].acc = a
Headed(m) ==
  \A k, l \in Members :
    (/\ m.members[k].status = CHIEFTAIN /\ m.members[l].status = CHIEFTAIN
     /\ m.members[k].clan = m.members[l].clan) => k = l
MemInv(m) == m \in ClanMem /\ Linked(m) /\ InUse(m) /\ Pointed(m) /\ Headed(m)

\* What the file of a clan has when it is written, and the invariant of the files: the one that
\* a clan wrote, or was read from, and that has no change since, has only what it would have.
Entry(m, k) == <<m.members[k].acc, m.members[k].status>>
ClanLines(m, o) == {Entry(m, k) : k \in {j \in ToSet(m.clans[o].members) : m.members[j].full}}
LineSet == Accounts \X (PEON..CHIEFTAIN)
OneHead(ls) == \A i, j \in DOMAIN ls : ls[i][2] = CHIEFTAIN /\ ls[j][2] = CHIEFTAIN => i = j
ClanFile == [exists : BOOLEAN, lines : Seq(LineSet)]
Current(m, disk, t, o) ==
  m.clans[o].tag = t /\ (~m.clans[o].modified => ToSet(disk[t].lines) \subseteq ClanLines(m, o))
FileInv(m, disk, w) ==
  /\ disk \in [Tags -> ClanFile] /\ \A t \in Tags : OneHead(disk[t].lines)
  /\ w \in [Tags -> Clans \cup {NULL}]
  /\ \A t \in Tags : w[t] # NULL => Current(m, disk, t, w[t])
ClanInv == MemInv(mem) /\ FileInv(mem, clanFiles, writer) /\ clanMishaps \in 0..MaxClanMishaps
\* A free record is found, the first one.
LEMMA AllocatedFree ==
  ASSUME NEW free, free \subseteq Nat, free # {}
  PROVE  Allocated(free) \in free /\ \A j \in free : Allocated(free) <= j
<1>1. \E n \in free : \A j \in free : n <= j
  BY NatMin
<1> QED BY <1>1, Zenon DEF Allocated

\* The numbers of the records, and the constants.
LEMMA ClanConstants ==
  /\ Clans \subseteq Nat \ {0} /\ Members \subseteq Nat \ {0}
  /\ NULL = 0 /\ NULL \notin Accounts /\ NULL \notin Tags /\ IsFiniteSet(Tags)
  /\ NoMember.acc = NULL /\ NoMember.clan = NULL /\ NoMember.status = 0 /\ ~NoMember.full
  /\ NoClan.tag = NULL /\ NoClan.members = <<>> /\ ~NoClan.modified /\ NoClan.created = 0
  /\ NoMember \in MemberRec /\ NoClan \in ClanRec
BY ClanAssumption DEF ClanAssumption, Clans, Members, NULL, NoMember, NoClan, MemberRec, ClanRec,
   CHIEFTAIN

\* The parts of the memory and their types.
LEMMA MemTypes ==
  ASSUME NEW m, m \in ClanMem
  PROVE  /\ m.clans \in [Clans -> ClanRec] /\ m.members \in [Members -> MemberRec]
         /\ m.clanlist \in Seq(Clans) /\ m.clanmember \in [Accounts -> Members \cup {NULL}]
         /\ \A o \in Clans :
              /\ m.clans[o] \in ClanRec /\ m.clans[o].members \in Seq(Members)
              /\ ToSet(m.clans[o].members) \subseteq Members
              /\ m.clans[o].tag \in Tags \cup {NULL} /\ m.clans[o].modified \in BOOLEAN
         /\ \A k \in Members :
              /\ m.members[k] \in MemberRec /\ m.members[k].acc \in Accounts \cup {NULL}
              /\ m.members[k].status \in 0..CHIEFTAIN /\ m.members[k].full \in BOOLEAN
              /\ m.members[k].clan \in Clans \cup {NULL}
<1>1. /\ m.clans \in [Clans -> ClanRec] /\ m.members \in [Members -> MemberRec]
      /\ m.clanlist \in Seq(Clans) /\ m.clanmember \in [Accounts -> Members \cup {NULL}]
  BY DEF ClanMem
<1>2. ASSUME NEW o \in Clans
      PROVE  /\ m.clans[o] \in ClanRec /\ m.clans[o].members \in Seq(Members)
             /\ ToSet(m.clans[o].members) \subseteq Members
             /\ m.clans[o].tag \in Tags \cup {NULL} /\ m.clans[o].modified \in BOOLEAN
  <2>1. m.clans[o] \in ClanRec
    BY <1>1
  <2>2. m.clans[o].members \in Seq(Members) /\ m.clans[o].tag \in Tags \cup {NULL}
        /\ m.clans[o].modified \in BOOLEAN
    BY <2>1 DEF ClanRec
  <2>3. ToSet(m.clans[o].members) \subseteq Members
    BY <2>2, Elements
  <2> QED BY <2>1, <2>2, <2>3
<1>3. ASSUME NEW k \in Members
      PROVE  /\ m.members[k] \in MemberRec /\ m.members[k].acc \in Accounts \cup {NULL}
             /\ m.members[k].status \in 0..CHIEFTAIN /\ m.members[k].full \in BOOLEAN
             /\ m.members[k].clan \in Clans \cup {NULL}
  BY <1>1 DEF MemberRec
<1> QED BY <1>1, <1>2, <1>3

\* A clan whose list and whose members are as they were would write the same file.
LEMMA SameLines ==
  ASSUME NEW m, NEW n, NEW o, n.clans[o].members = m.clans[o].members,
         \A k \in ToSet(m.clans[o].members) : n.members[k] = m.members[k]
  PROVE  ClanLines(n, o) = ClanLines(m, o)
BY Zenon DEF ClanLines, Entry

\* No clan loses its tag or a line of the file that it has, unless its changes are to be saved.
Kept(m, n, o) ==
  /\ n.clans[o].tag = m.clans[o].tag
  /\ ~n.clans[o].modified => ~m.clans[o].modified /\ ClanLines(m, o) \subseteq ClanLines(n, o)
Grows(m, n) == \A o \in Clans : m.clans[o] # NoClan => Kept(m, n, o)

\* What the files have is as fresh after such a step as before.
LEMMA StillFresh ==
  ASSUME NEW m, NEW n, NEW disk, NEW t, NEW o, Current(m, disk, t, o), Kept(m, n, o)
  PROVE  Current(n, disk, t, o)
BY DEF Current, Kept

\* The files are as fresh after a step that only adds to the clans.
LEMMA FilesStay ==
  ASSUME NEW m, NEW n, NEW disk, NEW w, FileInv(m, disk, w), Grows(m, n)
  PROVE  FileInv(n, disk, w)
<1>1. ASSUME NEW t \in Tags, w[t] # NULL PROVE Current(n, disk, t, w[t])
  <2>1. w[t] \in Clans /\ Current(m, disk, t, w[t])
    BY <1>1 DEF FileInv
  <2>2. m.clans[w[t]] # NoClan
    BY <2>1, ClanConstants DEF Current
  <2>3. Kept(m, n, w[t])
    BY <2>1, <2>2 DEF Grows
  <2> QED BY <2>1, <2>3, StillFresh
<1> QED BY <1>1 DEF FileInv

\* One such step after another is one.
LEMMA GrowsOn ==
  ASSUME NEW l, NEW m, NEW n, Grows(l, m), Grows(m, n),
         \A o \in Clans : l.clans[o] = NoClan \/ l.clans[o].tag \in Tags
  PROVE  Grows(l, n)
<1>1. ASSUME NEW o \in Clans, l.clans[o] # NoClan PROVE Kept(l, n, o)
  <2>1. Kept(l, m, o) /\ l.clans[o].tag \in Tags
    BY <1>1 DEF Grows
  <2>2. m.clans[o] # NoClan
    BY <2>1, ClanConstants DEF Kept
  <2>3. Kept(m, n, o)
    BY <2>2 DEF Grows
  <2> QED BY <2>1, <2>3 DEF Kept
<1> QED BY <1>1 DEF Grows

\* The memory, field by field.
LEMMA MemFields ==
  ASSUME NEW m, m \in ClanMem
  PROVE  m = [clans |-> m.clans, members |-> m.members, clanlist |-> m.clanlist,
              clanmember |-> m.clanmember]
BY DEF ClanMem

\* The list of clans alone is changed.
LEMMA ListChanged ==
  ASSUME NEW m, MemInv(m), NEW l \in Seq(Clans)
  PROVE  LET n == [m EXCEPT !.clanlist = l] IN MemInv(n) /\ Grows(m, n)
<1> DEFINE n == [m EXCEPT !.clanlist = l]
<1>0. m \in ClanMem
  BY DEF MemInv
<1>1. n = [clans |-> m.clans, members |-> m.members, clanlist |-> l,
                            clanmember |-> m.clanmember]
  BY <1>0, MemFields
<1>2. /\ n.clans = m.clans /\ n.members = m.members /\ n.clanmember = m.clanmember
      /\ n \in ClanMem
  BY <1>0, <1>1, MemTypes DEF ClanMem
<1> HIDE DEF n
<1>3. MemInv(n)
  BY <1>2 DEF MemInv, Linked, InUse, Pointed, Headed
<1>4. ASSUME NEW o \in Clans PROVE ClanLines(n, o) = ClanLines(m, o)
  <2>1. /\ n.clans[o].members = m.clans[o].members
        /\ \A k \in ToSet(m.clans[o].members) : n.members[k] = m.members[k]
    BY <1>2
  <2> QED BY <2>1, SameLines
<1>5. Grows(m, n)
  BY <1>2, <1>4 DEF Grows, Kept
<1> QED BY <1>3, <1>5 DEF n

\* The fields of a clan are changed, but for its list and its tag.
LEMMA ClanChanged ==
  ASSUME NEW m, MemInv(m), NEW o \in Clans, m.clans[o] # NoClan, NEW c \in ClanRec,
         c.members = m.clans[o].members, c.tag = m.clans[o].tag
  PROVE  LET n == [m EXCEPT !.clans[o] = c]
         IN  /\ MemInv(n)
             /\ c.modified \/ ~m.clans[o].modified => Grows(m, n)
             /\ \A p \in Clans : ClanLines(n, p) = ClanLines(m, p)
<1> DEFINE n == [m EXCEPT !.clans[o] = c]
<1>0. m \in ClanMem
  BY DEF MemInv
<1>1. n = [clans |-> [m.clans EXCEPT ![o] = c], members |-> m.members,
                            clanlist |-> m.clanlist, clanmember |-> m.clanmember]
  BY <1>0, MemFields
<1>2. /\ n.members = m.members /\ n.clanmember = m.clanmember
      /\ n.clans = [m.clans EXCEPT ![o] = c]
      /\ n \in ClanMem
  BY <1>0, <1>1, MemTypes DEF ClanMem
<1> HIDE DEF n
<1>3. \A p \in Clans : n.clans[p] = IF p = o THEN c ELSE m.clans[p]
  BY <1>1, <1>2, MemTypes
<1>4. \A p \in Clans : n.clans[p].members = m.clans[p].members /\ n.clans[p].tag = m.clans[p].tag
  BY <1>3
<1>5. Linked(n) /\ Pointed(n) /\ Headed(n)
  BY <1>2, <1>4 DEF MemInv, Linked, Pointed, Headed
<1>6. InUse(n)
  BY <1>2, <1>3, <1>4 DEF MemInv, InUse
<1>7. ASSUME NEW p \in Clans PROVE ClanLines(n, p) = ClanLines(m, p)
  <2>1. /\ n.clans[p].members = m.clans[p].members
        /\ \A k \in ToSet(m.clans[p].members) : n.members[k] = m.members[k]
    BY <1>2, <1>4
  <2> QED BY <2>1, SameLines
<1>8. ASSUME c.modified \/ ~m.clans[o].modified PROVE Grows(m, n)
  BY <1>3, <1>4, <1>7, <1>8 DEF Grows, Kept
<1> QED BY <1>2, <1>5, <1>6, <1>7, <1>8 DEF n, MemInv

\* The rank of a member is changed, or he becomes a full one.
LEMMA MemberChanged ==
  ASSUME NEW m, MemInv(m), NEW k \in Members, NEW r \in MemberRec,
         r.acc = m.members[k].acc, r.clan = m.members[k].clan, m.members[k].clan \in Clans,
         r.status \in PEON..CHIEFTAIN,
         r.status = CHIEFTAIN =>
           \A j \in Members \ {k} : m.members[j].status = CHIEFTAIN => m.members[j].clan # r.clan
  PROVE  LET n == [m EXCEPT !.members[k] = r]
         IN  /\ MemInv(n)
             /\ n.clans = m.clans /\ n.members = [m.members EXCEPT ![k] = r]
             /\ \A p \in Clans \ {r.clan} : ClanLines(n, p) = ClanLines(m, p)
             /\ r.status = m.members[k].status /\ (m.members[k].full => r.full) => Grows(m, n)
<1> DEFINE n == [m EXCEPT !.members[k] = r]
<1>0. m \in ClanMem
  BY DEF MemInv
<1>1. n = [clans |-> m.clans, members |-> [m.members EXCEPT ![k] = r],
                            clanlist |-> m.clanlist, clanmember |-> m.clanmember]
  BY <1>0, MemFields
<1>2. /\ n.clans = m.clans /\ n.clanmember = m.clanmember
      /\ n.members = [m.members EXCEPT ![k] = r]
      /\ n \in ClanMem
  BY <1>0, <1>1, MemTypes DEF ClanMem
<1> HIDE DEF n
<1>3. \A j \in Members : n.members[j] = IF j = k THEN r ELSE m.members[j]
  BY <1>1, <1>2, MemTypes
<1>4. \A j \in Members : n.members[j].acc = m.members[j].acc /\ n.members[j].clan = m.members[j].clan
  BY <1>3
<1>5. Linked(n) /\ Pointed(n)
  <2>1. Linked(n)
    BY <1>2, <1>4 DEF MemInv, Linked
  <2>2. \A a \in Accounts : m.clanmember[a] # NULL => m.clanmember[a] \in Members
    BY <1>0, MemTypes
  <2>3. Pointed(n)
    BY <1>2, <1>4, <2>2 DEF MemInv, Pointed
  <2> QED BY <2>1, <2>3
<1>6. m.members[k] # NoMember /\ m.members[k].acc \in Accounts
  BY ClanConstants DEF MemInv, InUse
<1>7. InUse(n)
  BY <1>2, <1>3, <1>4, <1>6 DEF MemInv, InUse
<1>8. Headed(n)
  BY <1>3, <1>4 DEF MemInv, Headed
<1>9. ASSUME NEW p \in Clans, p # r.clan PROVE ClanLines(n, p) = ClanLines(m, p)
  <2>1. k \notin ToSet(m.clans[p].members) /\ ToSet(m.clans[p].members) \subseteq Members
    BY <1>1, <1>9, MemTypes DEF MemInv, Linked
  <2>2. /\ n.clans[p].members = m.clans[p].members
        /\ \A j \in ToSet(m.clans[p].members) : n.members[j] = m.members[j]
    BY <1>2, <1>3, <2>1
  <2> QED BY <2>2, SameLines
<1>10. ASSUME r.status = m.members[k].status, m.members[k].full => r.full PROVE Grows(m, n)
  <2>1. \A j \in Members : Entry(n, j) = Entry(m, j) /\ (m.members[j].full => n.members[j].full)
    BY <1>3, <1>4, <1>10 DEF Entry
  <2>2. ASSUME NEW p \in Clans PROVE ClanLines(m, p) \subseteq ClanLines(n, p)
    <3>1. ToSet(m.clans[p].members) \subseteq Members
      BY <1>0, MemTypes
    <3> QED BY <1>2, <2>1, <3>1, ZenonT(60) DEF ClanLines
  <2> QED BY <1>2, <2>2 DEF Grows, Kept
<1> QED BY <1>2, <1>5, <1>7, <1>8, <1>9, <1>10 DEF n, MemInv

\* Three fields of the memory are changed.
LEMMA ThreeFields ==
  ASSUME NEW m, m \in ClanMem, NEW x, NEW y, NEW z
  PROVE  [m EXCEPT !.members = x, !.clans = y, !.clanmember = z] =
           [clans |-> y, members |-> x, clanlist |-> m.clanlist, clanmember |-> z]
<1> DEFINE u == [m EXCEPT !.members = x]
           v == [u EXCEPT !.clans = y]
           w == [v EXCEPT !.clanmember = z]
<1>1. u = [clans |-> m.clans, members |-> x, clanlist |-> m.clanlist, clanmember |-> m.clanmember]
  BY MemFields
<1>2. [m EXCEPT !.members = x, !.clans = y, !.clanmember = z] = w
  OBVIOUS
<1> HIDE DEF u
<1>3. v = [clans |-> y, members |-> x, clanlist |-> m.clanlist, clanmember |-> m.clanmember]
  BY <1>1
<1> HIDE DEF v
<1>4. w = [clans |-> y, members |-> x, clanlist |-> m.clanlist, clanmember |-> z]
  BY <1>3
<1> QED BY <1>2, <1>4

\* A free member is in no list.
LEMMA FreeIsNobodys ==
  ASSUME NEW m, MemInv(m), NEW k \in FreeMembers(m)
  PROVE  /\ k \in Members /\ m.members[k] = NoMember
         /\ \A o \in Clans : k \notin ToSet(m.clans[o].members)
<1>1. k \in Members /\ m.members[k] = NoMember
  BY DEF FreeMembers
<1>2. \A o \in Clans : m.members[k].clan # o
  BY <1>1, ClanConstants
<1> QED BY <1>1, <1>2 DEF MemInv, Linked

\* A new member: what clan_append does to the memory.
Appending(m, n, o, a, k, r) ==
  /\ n.clans = [m.clans EXCEPT ![o] = [m.clans[o] EXCEPT !.members = Append(m.clans[o].members, k)]]
  /\ n.members = [m.members EXCEPT ![k] = r]
  /\ n.clanlist = m.clanlist
  /\ n.clanmember = [m.clanmember EXCEPT ![a] = k]
\* clan_append keeps the invariant; it takes the first free record.
LEMMA MemberAdded ==
  ASSUME NEW m, MemInv(m), NEW o \in Clans, m.clans[o] # NoClan, NEW a \in Accounts,
         NEW status \in PEON..CHIEFTAIN, NEW full \in BOOLEAN, FreeMembers(m) # {},
         status = CHIEFTAIN =>
           \A j \in Members : m.members[j].status = CHIEFTAIN => m.members[j].clan # o
  PROVE  LET n == clan_append(m, o, a, status, full)
             k == Allocated(FreeMembers(m))
         IN  /\ MemInv(n) /\ Grows(m, n)
             /\ k \in FreeMembers(m) /\ FreeMembers(n) = FreeMembers(m) \ {k}
             /\ Appending(m, n, o, a, k, [acc |-> a, status |-> status, full |-> full, clan |-> o])
<1> DEFINE n == clan_append(m, o, a, status, full)
           k == Allocated(FreeMembers(m))
           r == [acc |-> a, status |-> status, full |-> full, clan |-> o]
           ks == m.clans[o].members
<1>0. m \in ClanMem
  BY DEF MemInv
<1>1. k \in FreeMembers(m) /\ k \in Members /\ m.members[k] = NoMember
      /\ \A p \in Clans : k \notin ToSet(m.clans[p].members)
  <2>1. FreeMembers(m) \subseteq Nat
    BY ClanConstants DEF FreeMembers
  <2>2. k \in FreeMembers(m)
    BY <2>1, AllocatedFree
  <2> HIDE DEF k
  <2> QED BY <2>2, FreeIsNobodys
<1>2. n = [m EXCEPT !.members[k] = r, !.clans[o].members = Append(@, k), !.clanmember[a] = k]
  BY DEF clan_append
<1> HIDE DEF k
<1>3. n = [clans |-> [m.clans EXCEPT ![o] = [m.clans[o] EXCEPT !.members = Append(ks, k)]],
           members |-> [m.members EXCEPT ![k] = r], clanlist |-> m.clanlist,
           clanmember |-> [m.clanmember EXCEPT ![a] = k]]
  <2> HIDE DEF n, r
  <2>1. n = [m EXCEPT
               !.members = [m.members EXCEPT ![k] = r],
               !.clans = [m.clans EXCEPT ![o] = [m.clans[o] EXCEPT !.members = Append(ks, k)]],
               !.clanmember = [m.clanmember EXCEPT ![a] = k]]
    BY <1>2
  <2> QED BY <1>0, <2>1, ThreeFields, ZenonT(60)
<1> HIDE DEF n, r
<1>4. Appending(m, n, o, a, k, r)
  BY <1>3 DEF Appending
<1>5. r \in MemberRec /\ r.acc = a /\ r.status = status /\ r.full = full /\ r.clan = o
  BY DEF r, MemberRec, PEON, CHIEFTAIN
<1>6. ks \in Seq(Members) /\ IsInjective(ks) /\ k \notin ToSet(ks) /\ m.clans[o] \in ClanRec
  BY <1>0, <1>1, MemTypes DEF MemInv, Linked
<1> DEFINE l == Append(ks, k)
<1>7. l \in Seq(Members) /\ IsInjective(l) /\ ToSet(l) = ToSet(ks) \cup {k}
  BY <1>1, <1>6, Appended
<1> HIDE DEF l
<1> DEFINE c == [m.clans[o] EXCEPT !.members = l]
<1>8. /\ c \in ClanRec /\ c.members = l /\ c.tag = m.clans[o].tag /\ c.modified = m.clans[o].modified
      /\ n.clans = [m.clans EXCEPT ![o] = c]
  BY <1>4, <1>6, <1>7 DEF ClanRec, Appending, l
<1> HIDE DEF c
<1>9. /\ \A p \in Clans : n.clans[p] = IF p = o THEN c ELSE m.clans[p]
      /\ \A j \in Members : n.members[j] = IF j = k THEN r ELSE m.members[j]
      /\ \A b \in Accounts : n.clanmember[b] = IF b = a THEN k ELSE m.clanmember[b]
  <2>1. /\ m.clans \in [Clans -> ClanRec] /\ m.members \in [Members -> MemberRec]
        /\ m.clanmember \in [Accounts -> Members \cup {NULL}]
    BY <1>0, MemTypes
  <2>2. \A p \in Clans : n.clans[p] = IF p = o THEN c ELSE m.clans[p]
    BY <1>8, <2>1
  <2>3. \A j \in Members : n.members[j] = IF j = k THEN r ELSE m.members[j]
    BY <1>4, <2>1 DEF Appending
  <2>4. \A b \in Accounts : n.clanmember[b] = IF b = a THEN k ELSE m.clanmember[b]
    BY <1>4, <2>1 DEF Appending
  <2> QED BY <2>2, <2>3, <2>4
<1>10. n \in ClanMem
  <2>1. n.clans \in [Clans -> ClanRec]
    BY <1>0, <1>8, MemTypes
  <2>2. n.members \in [Members -> MemberRec] /\ n.clanmember \in [Accounts -> Members \cup {NULL}]
        /\ n.clanlist \in Seq(Clans)
    BY <1>0, <1>1, <1>4, <1>5, MemTypes DEF Appending
  <2> QED BY <1>3, <2>1, <2>2 DEF ClanMem
<1>11. Linked(n)
  <2>1. ASSUME NEW p \in Clans
        PROVE  /\ IsInjective(n.clans[p].members)
               /\ \A j \in Members : j \in ToSet(n.clans[p].members) <=> n.members[j].clan = p
    <3>1. /\ IsInjective(m.clans[p].members) /\ k \notin ToSet(m.clans[p].members)
          /\ \A j \in Members : j \in ToSet(m.clans[p].members) <=> m.members[j].clan = p
      BY <1>1 DEF MemInv, Linked
    <3>2. CASE p = o
      <4>1. n.clans[p].members = l /\ ToSet(l) = ToSet(m.clans[p].members) \cup {k}
        BY <1>7, <1>8, <1>9, <3>2
      <4> QED BY <1>5, <1>7, <1>9, <3>1, <3>2, <4>1
    <3>3. CASE p # o
      <4>1. n.clans[p].members = m.clans[p].members
        BY <1>9, <3>3
      <4> QED BY <1>5, <1>9, <3>1, <3>3, <4>1
    <3> QED BY <3>2, <3>3
  <2> QED BY <2>1 DEF Linked
<1>12. InUse(n)
  BY <1>5, <1>8, <1>9 DEF MemInv, InUse
<1>13. Pointed(n)
  <2>1. ASSUME NEW b \in Accounts, n.clanmember[b] # NULL PROVE n.members[n.clanmember[b]].acc = b
    <3>1. CASE b = a
      BY <1>1, <1>5, <1>9, <3>1
    <3>2. CASE b # a
      <4>1. n.clanmember[b] = m.clanmember[b] /\ m.clanmember[b] \in Members
            /\ m.members[m.clanmember[b]].acc = b
        BY <1>0, <1>9, <2>1, <3>2, MemTypes DEF MemInv, Pointed
      <4>2. m.clanmember[b] # k
        BY <1>1, <4>1, ClanConstants
      <4> QED BY <1>9, <4>1, <4>2
    <3> QED BY <3>1, <3>2
  <2> QED BY <2>1 DEF Pointed
<1>14. Headed(n)
  BY <1>5, <1>9 DEF MemInv, Headed
<1>15. Grows(m, n)
  <2>1. ASSUME NEW p \in Clans PROVE ClanLines(m, p) \subseteq ClanLines(n, p)
    <3>1. ToSet(m.clans[p].members) \subseteq ToSet(n.clans[p].members)
      BY <1>7, <1>8, <1>9
    <3>2. \A j \in ToSet(m.clans[p].members) : n.members[j] = m.members[j]
      BY <1>0, <1>1, <1>9, MemTypes
    <3> QED BY <3>1, <3>2, Zenon DEF ClanLines, Entry
  <2> QED BY <1>8, <1>9, <2>1 DEF Grows, Kept
<1>16. FreeMembers(n) = FreeMembers(m) \ {k}
  <2>1. r # NoMember
    BY <1>5, ClanConstants
  <2> QED BY <1>1, <1>9, <2>1 DEF FreeMembers
<1>17. MemInv(n)
  BY <1>10, <1>11, <1>12, <1>13, <1>14 DEF MemInv
<1> QED BY <1>1, <1>4, <1>15, <1>16, <1>17 DEF n, k, r

\* The fields that the removal of a member changes.
LEMMA RemovalFields ==
  ASSUME NEW m, NEW o, NEW k
  PROVE  clan_remove_member(m, o, k) =
         [m EXCEPT !.members = [m.members EXCEPT ![k] = NoMember],
                   !.clans = [m.clans EXCEPT
                      ![o] = [m.clans[o] EXCEPT !.members = RemoveFirst(m.clans[o].members, k),
                                                !.modified = TRUE]],
                   !.clanmember = [m.clanmember EXCEPT ![m.members[k].acc] = NULL]]
BY ZenonT(60) DEF clan_remove_member

\* A member is taken out of his clan, which is to be saved then.
LEMMA MemberRemoved ==
  ASSUME NEW m, MemInv(m), NEW k \in Members, NEW o \in Clans, m.members[k].clan = o
  PROVE  MemInv(clan_remove_member(m, o, k)) /\ Grows(m, clan_remove_member(m, o, k))
<1> DEFINE n == clan_remove_member(m, o, k)
           ks == m.clans[o].members
           a == m.members[k].acc
           l == RemoveFirst(ks, k)
           c == [m.clans[o] EXCEPT !.members = l, !.modified = TRUE]
<1>0. m \in ClanMem
  BY DEF MemInv
<1>1. m.members[k] # NoMember /\ a \in Accounts /\ k \in ToSet(ks)
  BY ClanConstants DEF MemInv, InUse, Linked
<1>3. n = [clans |-> [m.clans EXCEPT ![o] = c], members |-> [m.members EXCEPT ![k] = NoMember],
           clanlist |-> m.clanlist, clanmember |-> [m.clanmember EXCEPT ![a] = NULL]]
  <2>1. n = [m EXCEPT !.members = [m.members EXCEPT ![k] = NoMember],
                      !.clans = [m.clans EXCEPT ![o] = c],
                      !.clanmember = [m.clanmember EXCEPT ![a] = NULL]]
    BY RemovalFields, ZenonT(60)
  <2> HIDE DEF n
  <2> HIDE DEF c, a
  <2> QED BY <1>0, <2>1, ThreeFields, ZenonT(60)
<1>4. ks \in Seq(Members) /\ IsInjective(ks) /\ m.clans[o] \in ClanRec
  BY <1>0, MemTypes DEF MemInv, Linked
<1>5. l \in Seq(Members) /\ IsInjective(l) /\ ToSet(l) = ToSet(ks) \ {k}
  BY <1>4, Removed
<1> HIDE DEF n, l
<1>6. c \in ClanRec /\ c.members = l /\ c.tag = m.clans[o].tag /\ c.modified
  BY <1>4, <1>5 DEF ClanRec
<1> HIDE DEF a, c
<1>7. /\ n.clans = [m.clans EXCEPT ![o] = c] /\ n.members = [m.members EXCEPT ![k] = NoMember]
      /\ n.clanlist = m.clanlist /\ n.clanmember = [m.clanmember EXCEPT ![a] = NULL]
  BY <1>3
<1>8. /\ m.clans \in [Clans -> ClanRec] /\ m.members \in [Members -> MemberRec]
      /\ m.clanmember \in [Accounts -> Members \cup {NULL}] /\ m.clanlist \in Seq(Clans)
  BY <1>0, MemTypes
<1>9. \A p \in Clans : n.clans[p] = IF p = o THEN c ELSE m.clans[p]
  BY <1>7, <1>8
<1>10. \A j \in Members : n.members[j] = IF j = k THEN NoMember ELSE m.members[j]
  BY <1>7, <1>8
<1>11. \A b \in Accounts : n.clanmember[b] = IF b = a THEN NULL ELSE m.clanmember[b]
  BY <1>7, <1>8
<1>12. n \in ClanMem
  <2>1. n.clans \in [Clans -> ClanRec]
    BY <1>6, <1>7, <1>8
  <2>2. n.members \in [Members -> MemberRec]
    BY <1>7, <1>8, ClanConstants
  <2>3. n.clanmember \in [Accounts -> Members \cup {NULL}]
    BY <1>7, <1>8
  <2> QED BY <1>3, <1>7, <1>8, <2>1, <2>2, <2>3 DEF ClanMem
<1>13. Linked(n)
  <2>1. ASSUME NEW p \in Clans
        PROVE  /\ IsInjective(n.clans[p].members)
               /\ \A j \in Members : j \in ToSet(n.clans[p].members) <=> n.members[j].clan = p
    <3>1. /\ IsInjective(m.clans[p].members) /\ p # NULL
          /\ \A j \in Members : j \in ToSet(m.clans[p].members) <=> m.members[j].clan = p
      BY ClanConstants DEF MemInv, Linked
    <3>2. n.members[k].clan # p
      BY <1>10, <3>1, ClanConstants
    <3>3. CASE p = o
      <4>1. n.clans[p].members = l /\ ToSet(l) = ToSet(m.clans[p].members) \ {k}
        BY <1>5, <1>6, <1>9, <3>3
      <4> QED BY <1>5, <1>10, <3>1, <3>2, <4>1
    <3>4. CASE p # o
      <4>1. n.clans[p].members = m.clans[p].members
        BY <1>9, <3>4
      <4> QED BY <1>10, <3>1, <3>2, <3>4, <4>1
    <3> QED BY <3>3, <3>4
  <2> QED BY <2>1 DEF Linked
<1>14. InUse(n)
  <2>1. m.clans[o] # NoClan
    BY <1>1, ClanConstants, EmptyList
  <2> QED BY <1>6, <1>9, <1>10, <2>1 DEF MemInv, InUse
<1>15. Pointed(n)
  <2>1. ASSUME NEW b \in Accounts, n.clanmember[b] # NULL PROVE n.members[n.clanmember[b]].acc = b
    <3>1. b # a /\ n.clanmember[b] = m.clanmember[b] /\ m.clanmember[b] \in Members
      BY <1>8, <1>11, <2>1
    <3>2. m.members[m.clanmember[b]].acc = b
      BY <2>1, <3>1 DEF MemInv, Pointed
    <3>3. m.clanmember[b] # k
      BY <3>1, <3>2 DEF a
    <3> QED BY <1>10, <3>1, <3>2, <3>3
  <2> QED BY <2>1 DEF Pointed
<1>16. Headed(n)
  <2>1. NoMember.status # CHIEFTAIN
    BY ClanConstants DEF CHIEFTAIN
  <2> QED BY <1>10, <2>1 DEF MemInv, Headed
<1>17. Grows(m, n)
  <2>1. ASSUME NEW p \in Clans, p # o PROVE ClanLines(n, p) = ClanLines(m, p)
    <3>1. k \notin ToSet(m.clans[p].members) /\ ToSet(m.clans[p].members) \subseteq Members
      BY <1>0, <2>1, MemTypes DEF MemInv, Linked
    <3>2. n.clans[p].members = m.clans[p].members
          /\ \A j \in ToSet(m.clans[p].members) : n.members[j] = m.members[j]
      BY <1>9, <1>10, <2>1, <3>1
    <3> QED BY <3>2, SameLines
  <2> QED BY <1>6, <1>9, <2>1 DEF Grows, Kept
<1> QED BY <1>12, <1>13, <1>14, <1>15, <1>16, <1>17 DEF MemInv, n

\* Two fields of the memory are changed.
LEMMA TwoFields ==
  ASSUME NEW m, m \in ClanMem, NEW y, NEW z
  PROVE  [m EXCEPT !.clans = y, !.clanlist = z] =
           [clans |-> y, members |-> m.members, clanlist |-> z, clanmember |-> m.clanmember]
<1> DEFINE u == [m EXCEPT !.clans = y]
           v == [u EXCEPT !.clanlist = z]
<1>1. u = [clans |-> y, members |-> m.members, clanlist |-> m.clanlist, clanmember |-> m.clanmember]
  BY MemFields
<1>2. [m EXCEPT !.clans = y, !.clanlist = z] = v
  OBVIOUS
<1> HIDE DEF u
<1>3. v = [clans |-> y, members |-> m.members, clanlist |-> z, clanmember |-> m.clanmember]
  BY <1>1
<1> QED BY <1>2, <1>3

\* A record that is taken for a new clan, which has no member yet.
NewClan(c) == c \in ClanRec /\ c.members = <<>> /\ c.tag \in Tags
Placed(m, o, c) == [m EXCEPT !.clans[o] = c, !.clanlist = Append(@, o)]
\* A free record becomes a clan at the end of the list.
LEMMA ClanPlaced ==
  ASSUME NEW m, MemInv(m), NEW o \in FreeClans(m), NEW c, NewClan(c)
  PROVE  LET n == Placed(m, o, c)
         IN  /\ MemInv(n) /\ Grows(m, n)
             /\ FreeMembers(n) = FreeMembers(m) /\ FreeClans(n) = FreeClans(m) \ {o}
             /\ o \in Clans /\ n.clans[o] = c /\ n.clans[o] # NoClan
             /\ \A k \in Members : n.members[k].clan # o
<1> DEFINE n == Placed(m, o, c)
           l == Append(m.clanlist, o)
<1>0. m \in ClanMem /\ o \in Clans /\ m.clans[o] = NoClan
      /\ c \in ClanRec /\ c.members = <<>> /\ c.tag \in Tags
  BY DEF MemInv, FreeClans, NewClan
<1>1. /\ m.clans \in [Clans -> ClanRec] /\ m.members \in [Members -> MemberRec]
      /\ m.clanmember \in [Accounts -> Members \cup {NULL}] /\ m.clanlist \in Seq(Clans)
  BY <1>0, MemTypes
<1>2. l \in Seq(Clans)
  BY <1>0, <1>1
<1>3. n = [clans |-> [m.clans EXCEPT ![o] = c], members |-> m.members, clanlist |-> l,
           clanmember |-> m.clanmember]
  <2>1. n = [m EXCEPT !.clans = [m.clans EXCEPT ![o] = c], !.clanlist = l]
    BY DEF Placed
  <2> HIDE DEF n, l
  <2> QED BY <1>0, <2>1, TwoFields, ZenonT(60)
<1> HIDE DEF n, l
<1>4. /\ n.clans = [m.clans EXCEPT ![o] = c] /\ n.members = m.members /\ n.clanlist = l
      /\ n.clanmember = m.clanmember
  BY <1>3
<1>5. n \in ClanMem
  <2>1. n.clans \in [Clans -> ClanRec]
    BY <1>0, <1>1, <1>4
  <2> QED BY <1>1, <1>2, <1>3, <1>4, <2>1 DEF ClanMem
<1>6. \A p \in Clans : n.clans[p] = IF p = o THEN c ELSE m.clans[p]
  BY <1>1, <1>4
<1>7. /\ \A p \in Clans : n.clans[p].members = m.clans[p].members
      /\ c # NoClan
  BY <1>0, <1>6, ClanConstants
<1>8. Linked(n) /\ Pointed(n) /\ Headed(n)
  BY <1>4, <1>7 DEF MemInv, Linked, Pointed, Headed
<1>9. InUse(n)
  BY <1>0, <1>4, <1>6 DEF MemInv, InUse
<1>10. Grows(m, n)
  <2>1. ASSUME NEW p \in Clans PROVE ClanLines(n, p) = ClanLines(m, p)
    <3>1. n.clans[p].members = m.clans[p].members
          /\ \A k \in ToSet(m.clans[p].members) : n.members[k] = m.members[k]
      BY <1>4, <1>7
    <3> QED BY <3>1, SameLines
  <2> QED BY <1>0, <1>6, <2>1 DEF Grows, Kept
<1>11. \A k \in Members : n.members[k].clan # o
  <2>1. \A k \in Members : k \in ToSet(m.clans[o].members) <=> m.members[k].clan = o
    BY <1>0 DEF MemInv, Linked
  <2>2. ToSet(m.clans[o].members) = {}
    BY <1>0, ClanConstants, EmptyList
  <2> QED BY <1>4, <2>1, <2>2
<1>12. FreeMembers(n) = FreeMembers(m) /\ FreeClans(n) = FreeClans(m) \ {o}
  BY <1>0, <1>4, <1>6, <1>7 DEF FreeMembers, FreeClans
<1>13. MemInv(n)
  BY <1>5, <1>8, <1>9 DEF MemInv
<1>14. n.clans[o] = c
  BY <1>0, <1>6
<1> QED BY <1>0, <1>4, <1>7, <1>10, <1>11, <1>12, <1>13, <1>14 DEF n

\* A clan is created, with its chieftain.
LEMMA ClanCreated ==
  ASSUME NEW m, MemInv(m), NEW a \in Accounts, NEW t \in Tags,
         FreeClans(m) # {}, FreeMembers(m) # {}
  PROVE  LET n == clan_create(m, a, t)
             o == Allocated(FreeClans(m))
             k == Allocated(FreeMembers(m))
         IN  /\ MemInv(n) /\ Grows(m, n)
             /\ o \in FreeClans(m) /\ o \in Clans /\ n.clans[o] # NoClan
             /\ n.clans[o].tag = t /\ n.clans[o].created = 0
             /\ k \in FreeMembers(m) /\ FreeMembers(n) = FreeMembers(m) \ {k}
<1> DEFINE o == Allocated(FreeClans(m))
           c == [NoClan EXCEPT !.tag = t, !.modified = TRUE]
           i == Placed(m, o, c)
           f == TRUE
           k == Allocated(FreeMembers(m))
           n == clan_create(m, a, t)
<1>1. o \in FreeClans(m)
  <2>1. FreeClans(m) \subseteq Nat
    BY ClanConstants DEF FreeClans
  <2> QED BY <2>1, AllocatedFree
<1>2. c \in ClanRec /\ c.members = <<>> /\ c.tag = t /\ c.created = 0
  <2>1. NoClan \in ClanRec /\ NoClan.members = <<>> /\ NoClan.created = 0
    BY ClanConstants
  <2> QED BY <2>1 DEF ClanRec
<1>3. n = clan_append(i, o, a, CHIEFTAIN, f) /\ f \in BOOLEAN
  BY DEF clan_create, Placed
<1> HIDE DEF o, c, f, n, k
<1>4. /\ MemInv(i) /\ Grows(m, i) /\ FreeMembers(i) = FreeMembers(m)
      /\ o \in Clans /\ i.clans[o] = c /\ i.clans[o] # NoClan
      /\ \A j \in Members : i.members[j].clan # o
  <2>1. NewClan(c) /\ o \in FreeClans(m)
    BY <1>1, <1>2 DEF NewClan
  <2>2. /\ MemInv(Placed(m, o, c)) /\ Grows(m, Placed(m, o, c))
        /\ FreeMembers(Placed(m, o, c)) = FreeMembers(m)
        /\ o \in Clans /\ Placed(m, o, c).clans[o] = c /\ Placed(m, o, c).clans[o] # NoClan
        /\ \A j \in Members : Placed(m, o, c).members[j].clan # o
    BY <2>1, ClanPlaced
  <2> QED BY <2>2
<1> HIDE DEF i
<1>5. CHIEFTAIN \in PEON..CHIEFTAIN
  BY DEF CHIEFTAIN, PEON
<1>6. /\ MemInv(n) /\ Grows(i, n)
      /\ k \in FreeMembers(i) /\ FreeMembers(n) = FreeMembers(i) \ {k}
      /\ Appending(i, n, o, a, k, [acc |-> a, status |-> CHIEFTAIN, full |-> f, clan |-> o])
  <2>1. FreeMembers(i) # {}
    BY <1>4
  <2>2. \A j \in Members : i.members[j].status = CHIEFTAIN => i.members[j].clan # o
    BY <1>4
  <2>3. k = Allocated(FreeMembers(i))
    BY <1>4 DEF k
  <2> QED BY <1>3, <1>4, <1>5, <2>1, <2>2, <2>3, MemberAdded
<1>7. Grows(m, n)
  <2>1. \A p \in Clans : m.clans[p] = NoClan \/ m.clans[p].tag \in Tags
    BY DEF MemInv, InUse
  <2> QED BY <1>4, <1>6, <2>1, GrowsOn
<1>8. n.clans[o].tag = t /\ n.clans[o].created = 0
  <2>1. i.clans \in [Clans -> ClanRec]
    BY <1>4, MemTypes DEF MemInv
  <2>2. n.clans[o] = [c EXCEPT !.members = Append(c.members, k)]
    BY <1>4, <1>6, <2>1 DEF Appending
  <2> QED BY <1>2, <2>2 DEF ClanRec
<1>9. n.clans[o] # NoClan
  BY <1>8, ClanConstants
<1> QED BY <1>1, <1>4, <1>6, <1>7, <1>8, <1>9 DEF n, o, k

\* A clan is freed, and all its members are.
LEMMA ClanDestroyed ==
  ASSUME NEW m, MemInv(m), NEW o \in Clans
  PROVE  /\ MemInv(clan_destroy(m, o))
         /\ \A p \in Clans \ {o} : Kept(m, clan_destroy(m, o), p)
         /\ \A p \in Clans \ {o} : clan_destroy(m, o).clans[p] = m.clans[p]
<1> DEFINE ks == ToSet(m.clans[o].members)
           n == clan_destroy(m, o)
<1>0. m \in ClanMem
  BY DEF MemInv
<1>1. /\ m.clans \in [Clans -> ClanRec] /\ m.members \in [Members -> MemberRec]
      /\ m.clanmember \in [Accounts -> Members \cup {NULL}] /\ m.clanlist \in Seq(Clans)
      /\ ks \subseteq Members
  BY <1>0, MemTypes
<1>2. n = [clans |-> [m.clans EXCEPT ![o] = NoClan],
           members |-> [k \in Members |-> IF k \in ks THEN NoMember ELSE m.members[k]],
           clanlist |-> m.clanlist,
           clanmember |-> [a \in Accounts |-> IF \E k \in ks : m.members[k].acc = a THEN NULL
                                              ELSE m.clanmember[a]]]
  BY DEF clan_destroy
<1>3. \A j \in Members : j \in ks <=> m.members[j].clan = o
  BY DEF MemInv, Linked
<1> HIDE DEF n, ks
<1>4. /\ n.clans = [m.clans EXCEPT ![o] = NoClan]
      /\ n.members = [k \in Members |-> IF k \in ks THEN NoMember ELSE m.members[k]]
      /\ n.clanlist = m.clanlist
      /\ n.clanmember = [a \in Accounts |-> IF \E k \in ks : m.members[k].acc = a THEN NULL
                                            ELSE m.clanmember[a]]
  BY <1>2
<1>5. n \in ClanMem
  <2>1. n.clans \in [Clans -> ClanRec]
    BY <1>1, <1>4, ClanConstants
  <2>2. n.members \in [Members -> MemberRec]
    BY <1>1, <1>4, ClanConstants
  <2>3. n.clanmember \in [Accounts -> Members \cup {NULL}]
    BY <1>1, <1>4
  <2> QED BY <1>1, <1>2, <1>4, <2>1, <2>2, <2>3 DEF ClanMem
<1>6. \A p \in Clans : n.clans[p] = IF p = o THEN NoClan ELSE m.clans[p]
  BY <1>1, <1>4
<1>7. \A j \in Members : n.members[j] = IF j \in ks THEN NoMember ELSE m.members[j]
  BY <1>4
<1>8. \A a \in Accounts : n.clanmember[a] # NULL =>
        n.clanmember[a] = m.clanmember[a] /\ \A k \in ks : m.members[k].acc # a
  BY <1>4
<1>9. Linked(n)
  <2>1. ASSUME NEW p \in Clans
        PROVE  /\ IsInjective(n.clans[p].members)
               /\ \A j \in Members : j \in ToSet(n.clans[p].members) <=> n.members[j].clan = p
    <3>1. /\ IsInjective(m.clans[p].members) /\ p # NULL
          /\ \A j \in Members : j \in ToSet(m.clans[p].members) <=> m.members[j].clan = p
      BY ClanConstants DEF MemInv, Linked
    <3>2. CASE p = o
      <4>1. n.clans[p].members = <<>> /\ IsInjective(<<>>) /\ ToSet(<<>>) = {}
        BY <1>6, <3>2, ClanConstants, EmptyList
      <4>2. \A j \in Members : n.members[j].clan # p
        BY <1>3, <1>7, <3>1, <3>2, ClanConstants
      <4> QED BY <4>1, <4>2
    <3>3. CASE p # o
      <4>1. n.clans[p].members = m.clans[p].members
        BY <1>6, <3>3
      <4>2. \A j \in Members : n.members[j].clan = p <=> m.members[j].clan = p
        BY <1>3, <1>7, <3>1, <3>3, ClanConstants
      <4> QED BY <3>1, <4>1, <4>2
    <3> QED BY <3>2, <3>3
  <2> QED BY <2>1 DEF Linked
<1>10. InUse(n)
  BY <1>6, <1>7 DEF MemInv, InUse
<1>11. Pointed(n)
  <2>1. ASSUME NEW b \in Accounts, n.clanmember[b] # NULL PROVE n.members[n.clanmember[b]].acc = b
    <3>1. n.clanmember[b] = m.clanmember[b] /\ m.clanmember[b] \in Members
      BY <1>1, <1>8, <2>1
    <3>2. m.members[m.clanmember[b]].acc = b
      BY <2>1, <3>1 DEF MemInv, Pointed
    <3>3. m.clanmember[b] \notin ks
      BY <1>8, <2>1, <3>2
    <3> QED BY <1>7, <3>1, <3>2, <3>3
  <2> QED BY <2>1 DEF Pointed
<1>12. Headed(n)
  <2>1. NoMember.status # CHIEFTAIN
    BY ClanConstants DEF CHIEFTAIN
  <2> QED BY <1>7, <2>1 DEF MemInv, Headed
<1>13. ASSUME NEW p \in Clans, p # o PROVE Kept(m, n, p)
  <2>1. ToSet(m.clans[p].members) \cap ks = {} /\ ToSet(m.clans[p].members) \subseteq Members
    <3>1. \A j \in Members : j \in ToSet(m.clans[p].members) <=> m.members[j].clan = p
      BY DEF MemInv, Linked
    <3>2. ToSet(m.clans[p].members) \subseteq Members
      BY <1>0, MemTypes
    <3> QED BY <1>1, <1>3, <1>13, <3>1, <3>2
  <2>2. n.clans[p] = m.clans[p]
        /\ \A j \in ToSet(m.clans[p].members) : n.members[j] = m.members[j]
    BY <1>6, <1>7, <1>13, <2>1
  <2>3. ClanLines(n, p) = ClanLines(m, p)
    BY <2>2, SameLines
  <2> QED BY <2>2, <2>3 DEF Kept
<1>14. MemInv(n)
  BY <1>5, <1>9, <1>10, <1>11, <1>12 DEF MemInv
<1> QED BY <1>6, <1>13, <1>14 DEF n

\* The files of the clans that stay, when the others are nobody's from then on.
LEMMA FilesLeft ==
  ASSUME NEW m, NEW n, NEW disk, NEW w, NEW v, FileInv(m, disk, w),
         v \in [Tags -> Clans \cup {NULL}],
         \A t \in Tags : v[t] # NULL =>
           v[t] = w[t] /\ (m.clans[w[t]] # NoClan => Kept(m, n, w[t]))
  PROVE  FileInv(n, disk, v)
<1>1. ASSUME NEW t \in Tags, v[t] # NULL PROVE Current(n, disk, t, v[t])
  <2>1. v[t] = w[t] /\ w[t] \in Clans /\ Current(m, disk, t, w[t])
    BY <1>1 DEF FileInv
  <2>2. m.clans[w[t]] # NoClan
    BY <2>1, ClanConstants DEF Current
  <2>3. Kept(m, n, w[t])
    BY <1>1, <2>1, <2>2
  <2> QED BY <2>1, <2>3, StillFresh
<1> QED BY <1>1 DEF FileInv

\* The lines that file_write_clan has written after k members.
StoreTurn(c, ls, k) ==
  IF c.m.members[k].full THEN Append(ls, <<c.m.members[k].acc, c.m.members[k].status>>) ELSE ls
FirstOf(c, k) == {c.m.clans[c.o].members[i] : i \in 1..k}
StoreInv(c, k, ls) ==
  /\ ls \in Seq(LineSet) /\ OneHead(ls)
  /\ ToSet(ls) = {Entry(c.m, j) : j \in {j \in FirstOf(c, k) : c.m.members[j].full}}
StoreFold == INSTANCE FoldInduction WITH Op <- StoreTurn, Inv <- StoreInv

\* A line for another member leaves one chieftain in the file.
LEMMA OneHeadStays ==
  ASSUME NEW ls \in Seq(LineSet), OneHead(ls), NEW e \in LineSet,
         e[2] = CHIEFTAIN => \A l \in ToSet(ls) : l[2] # CHIEFTAIN
  PROVE  OneHead(Append(ls, e))
<1> DEFINE t == Append(ls, e)
<1>1. /\ Len(ls) \in Nat /\ DOMAIN t = 1..Len(ls) + 1 /\ t[Len(ls) + 1] = e
      /\ \A i \in 1..Len(ls) : t[i] = ls[i] /\ ls[i] \in ToSet(ls) /\ i \in DOMAIN ls
  BY Elements
<1> HIDE DEF t
<1>2. ASSUME NEW i \in DOMAIN t, NEW j \in DOMAIN t, t[i][2] = CHIEFTAIN, t[j][2] = CHIEFTAIN
      PROVE  i = j
  <2>1. i \in 1..Len(ls) \/ i = Len(ls) + 1
    BY <1>1
  <2>2. j \in 1..Len(ls) \/ j = Len(ls) + 1
    BY <1>1
  <2>3. CASE i \in 1..Len(ls) /\ j \in 1..Len(ls)
    <3>1. i \in DOMAIN ls /\ j \in DOMAIN ls /\ ls[i][2] = CHIEFTAIN /\ ls[j][2] = CHIEFTAIN
      BY <1>1, <1>2, <2>3
    <3> QED BY <3>1 DEF OneHead
  <2>4. CASE i = Len(ls) + 1 /\ j \in 1..Len(ls)
    BY <1>1, <1>2, <2>4
  <2>5. CASE j = Len(ls) + 1 /\ i \in 1..Len(ls)
    BY <1>1, <1>2, <2>5
  <2> QED BY <2>1, <2>2, <2>3, <2>4, <2>5
<1>3. OneHead(t)
  BY <1>2 DEF OneHead
<1> QED BY <1>3 DEF t

\* A member in a list is an account's, and the clan's.
LEMMA ListedMember ==
  ASSUME NEW m, MemInv(m), NEW o \in Clans, NEW k \in ToSet(m.clans[o].members)
  PROVE  /\ k \in Members /\ m.members[k].clan = o /\ m.members[k].acc \in Accounts
         /\ m.members[k].status \in PEON..CHIEFTAIN /\ Entry(m, k) \in LineSet
<1>1. k \in Members
  BY MemTypes DEF MemInv
<1>2. m.members[k].clan = o
  BY <1>1 DEF MemInv, Linked
<1>3. m.members[k] # NoMember
  BY <1>2, ClanConstants
<1>4. m.members[k].acc \in Accounts /\ m.members[k].status \in PEON..CHIEFTAIN
  BY <1>1, <1>3 DEF MemInv, InUse
<1>5. Entry(m, k) \in LineSet
  BY <1>4 DEF Entry, LineSet
<1> QED BY <1>1, <1>2, <1>4, <1>5

\* One more member is written.
LEMMA StoreTurnKeeps ==
  ASSUME NEW c, MemInv(c.m), c.o \in Clans, NEW i \in 1..Len(c.m.clans[c.o].members), NEW ls,
         StoreInv(c, i - 1, ls)
  PROVE  StoreInv(c, i, StoreTurn(c, ls, c.m.clans[c.o].members[i]))
<1> DEFINE m == c.m
           o == c.o
           ks == c.m.clans[c.o].members
           k == ks[i]
           e == Entry(c.m, k)
<1>1. ks \in Seq(Members) /\ IsInjective(ks) /\ k \in ToSet(ks) /\ Len(ks) \in Nat /\ DOMAIN ks = 1..Len(ks)
  <2>1. ks \in Seq(Members) /\ IsInjective(ks)
    BY MemTypes, SMTT(40) DEF MemInv, Linked
  <2> QED BY <2>1, Elements, SMTT(40)
<1>2. k \in Members /\ m.members[k].clan = o /\ e \in LineSet
  BY <1>1, ListedMember, SMTT(40)
<1>3. FirstOf(c, i) = FirstOf(c, i - 1) \cup {k}
  <2>1. 1..i = (1..i - 1) \cup {i}
    OBVIOUS
  <2> HIDE DEF ks
  <2>2. FirstOf(c, i) = {ks[j] : j \in 1..i} /\ FirstOf(c, i - 1) = {ks[j] : j \in 1..i - 1}
    BY DEF FirstOf, ks
  <2> QED BY <2>1, <2>2, Zenon
<1>4. FirstOf(c, i - 1) \subseteq ToSet(ks) /\ k \notin FirstOf(c, i - 1)
  <2>1. ASSUME NEW j \in 1..i - 1 PROVE ks[j] \in ToSet(ks) /\ ks[j] # k
    <3>1. i \in 1..Len(ks) /\ j \in 1..Len(ks) /\ j # i
      BY <1>1
    <3>2. ks[j] \in ToSet(ks)
      BY <1>1, <3>1, Elements, SMTT(40)
    <3> HIDE DEF ks
    <3>3. ks[j] # ks[i]
      BY <1>1, <3>1 DEF IsInjective
    <3> QED BY <3>2, <3>3
  <2>2. FirstOf(c, i - 1) = {ks[j] : j \in 1..i - 1}
    BY SMTT(40) DEF FirstOf
  <2> HIDE DEF ks, k
  <2> QED BY <2>1, <2>2, Zenon
<1> HIDE DEF ks, k
<1>5. CASE m.members[k].full
  <2>1. StoreTurn(c, ls, k) = Append(ls, e)
    BY <1>5 DEF StoreTurn, Entry
  <2>2. e[2] = m.members[k].status
    BY DEF Entry
  <2>3. ASSUME e[2] = CHIEFTAIN, NEW l \in ToSet(ls) PROVE l[2] # CHIEFTAIN
    <3>1. PICK j \in FirstOf(c, i - 1) : l = Entry(c.m, j)
      BY DEF StoreInv
    <3>2. l[2] = m.members[j].status
      BY <3>1 DEF Entry
    <3>3. j \in ToSet(ks) /\ j # k
      BY <1>4
    <3>4. j \in Members /\ m.members[j].clan = o
      BY <3>3, ListedMember DEF ks
    <3> QED BY <1>2, <2>2, <2>3, <3>2, <3>3, <3>4 DEF MemInv, Headed
  <2>4. ls \in Seq(LineSet) /\ OneHead(ls)
    BY DEF StoreInv
  <2> HIDE DEF e
  <2>5. OneHead(Append(ls, e)) /\ Append(ls, e) \in Seq(LineSet)
        /\ ToSet(Append(ls, e)) = ToSet(ls) \cup {e}
    BY <1>2, <2>3, <2>4, OneHeadStays, Appended
  <2>6. {Entry(c.m, j) : j \in {j \in FirstOf(c, i) : c.m.members[j].full}} =
        {Entry(c.m, j) : j \in {j \in FirstOf(c, i - 1) : c.m.members[j].full}} \cup {e}
    BY <1>3, <1>5, Zenon DEF e
  <2> QED BY <2>1, <2>5, <2>6 DEF StoreInv, ks, k
<1>6. CASE ~m.members[k].full
  <2>1. StoreTurn(c, ls, k) = ls
    BY <1>6 DEF StoreTurn
  <2>2. {j \in FirstOf(c, i) : c.m.members[j].full} = {j \in FirstOf(c, i - 1) : c.m.members[j].full}
    BY <1>3, <1>6
  <2> QED BY <2>1, <2>2 DEF StoreInv, ks, k
<1> QED BY <1>5, <1>6

\* What file_write_clan writes: a line for each full member, of which one is the chieftain at most.
LEMMA StoredLoop ==
  ASSUME NEW c, MemInv(c.m), c.o \in Clans
  PROVE  /\ Stored(c.m, c.o) \in ClanFile /\ Stored(c.m, c.o).exists
         /\ ToSet(Stored(c.m, c.o).lines) = ClanLines(c.m, c.o)
         /\ OneHead(Stored(c.m, c.o).lines)
<1> DEFINE ks == c.m.clans[c.o].members
           ls == StoreFold!Fold(c, <<>>, ks)
<1>1. /\ ks \in Seq(Members) /\ Len(ks) \in Nat /\ DOMAIN ks = 1..Len(ks)
  BY MemTypes DEF MemInv
<1>2. StoreInv(c, 0, <<>>)
  <2>1. FirstOf(c, 0) = {}
    BY DEF FirstOf
  <2>2. <<>> \in Seq(LineSet) /\ ToSet(<<>>) = {} /\ OneHead(<<>>)
    BY EmptyList DEF OneHead
  <2> QED BY <2>1, <2>2 DEF StoreInv
<1>3. \A ms : \A i \in 1..Len(ks) : StoreInv(c, i - 1, ms) => StoreInv(c, i, StoreTurn(c, ms, ks[i]))
  BY StoreTurnKeeps
<1>4. StoreInv(c, Len(ks), ls)
  BY <1>1, <1>2, <1>3, StoreFold!FoldLeftInv
<1>5. Stored(c.m, c.o) = File(ls)
  BY DEF Stored, StoreTurn, FoldLeft, MapThenFoldSet, Max, StoreFold!Fold, StoreFold!Greatest
<1>6. FirstOf(c, Len(ks)) = ToSet(ks)
  BY <1>1 DEF FirstOf, ToSet
<1> HIDE DEF ls
<1>7. Stored(c.m, c.o) \in ClanFile /\ Stored(c.m, c.o).exists /\ Stored(c.m, c.o).lines = ls
  BY <1>4, <1>5 DEF File, ClanFile, StoreInv
<1>8. ToSet(ls) = ClanLines(c.m, c.o)
  BY <1>4, <1>6 DEF StoreInv, ClanLines
<1> QED BY <1>4, <1>7, <1>8 DEF StoreInv

\* What file_write_clan writes: the full members with their ranks, one chieftain at most.
LEMMA StoredIs ==
  ASSUME NEW m, MemInv(m), NEW o \in Clans
  PROVE  /\ Stored(m, o) \in ClanFile /\ Stored(m, o).exists
         /\ ToSet(Stored(m, o).lines) = ClanLines(m, o)
         /\ OneHead(Stored(m, o).lines)
<1> DEFINE c == [m |-> m, o |-> o]
<1>1. c.m = m /\ c.o = o
  OBVIOUS
<1> HIDE DEF c
<1>2. MemInv(c.m) /\ c.o \in Clans
  BY <1>1
<1>3. /\ Stored(c.m, c.o) \in ClanFile /\ Stored(c.m, c.o).exists
      /\ ToSet(Stored(c.m, c.o).lines) = ClanLines(c.m, c.o)
      /\ OneHead(Stored(c.m, c.o).lines)
  BY <1>2, StoredLoop
<1> QED BY <1>1, <1>3

\* The fields of a clan that clan_save and those who create it change.
Created(m, o, x) == [m EXCEPT !.clans[o].created = x]
Aged(m, o) == [m EXCEPT !.clans[o].old = TRUE]
CreatedRange == -(MaxInvites + ClanMinInvites)..1
\* Such a change keeps the invariant, and loses no line.
LEMMA ClanFields ==
  ASSUME NEW m, MemInv(m), NEW o \in Clans, m.clans[o] # NoClan
  PROVE  /\ MemInv(Existing(m, o)) /\ Grows(m, Existing(m, o)) /\ Existing(m, o).clans[o] # NoClan
         /\ Existing(m, o).members = m.members
         /\ \A p \in Clans : Existing(m, o).clans[p].tag = m.clans[p].tag
         /\ MemInv(SavedClan(m, o)) /\ SavedClan(m, o).members = m.members
         /\ SavedClan(m, o).clanlist = m.clanlist
         /\ \A p \in Clans : /\ ClanLines(SavedClan(m, o), p) = ClanLines(m, p)
                             /\ SavedClan(m, o).clans[p].tag = m.clans[p].tag
                             /\ SavedClan(m, o).clans[p].members = m.clans[p].members
                             /\ SavedClan(m, o).clans[p].modified <=> p # o /\ m.clans[p].modified
         /\ \A x \in CreatedRange :
              /\ MemInv(Created(m, o, x)) /\ Grows(m, Created(m, o, x))
              /\ FreeMembers(Created(m, o, x)) = FreeMembers(m)
              /\ Created(m, o, x).clans[o] # NoClan
         /\ MemInv(Aged(m, o)) /\ Grows(m, Aged(m, o))
<1> DEFINE b == m.clans[o]
           e == [b EXCEPT !.created = 1, !.old = FALSE]
           s == [b EXCEPT !.modified = FALSE]
           r(x) == [b EXCEPT !.created = x]
           l == [b EXCEPT !.old = TRUE]
           with(c) == [m EXCEPT !.clans[o] = c]
<1>1. b \in ClanRec /\ b.tag \in Tags /\ m.clans \in [Clans -> ClanRec] /\ m \in ClanMem
  BY MemTypes DEF MemInv, InUse
<1>2. /\ e \in ClanRec /\ e.members = b.members /\ e.tag = b.tag /\ e.modified = b.modified
      /\ s \in ClanRec /\ s.members = b.members /\ s.tag = b.tag /\ ~s.modified
      /\ \A x \in CreatedRange : /\ r(x) \in ClanRec /\ r(x).members = b.members
                                /\ r(x).tag = b.tag /\ r(x).modified = b.modified
      /\ l \in ClanRec /\ l.members = b.members /\ l.tag = b.tag /\ l.modified = b.modified
  <2>1. 1 \in CreatedRange
    BY ClanAssumption DEF ClanAssumption, CreatedRange
  <2> HIDE DEF b
  <2>2. e \in ClanRec /\ e.members = b.members /\ e.tag = b.tag /\ e.modified = b.modified
    BY <1>1, <2>1 DEF ClanRec, CreatedRange
  <2>3. s \in ClanRec /\ s.members = b.members /\ s.tag = b.tag /\ ~s.modified
    BY <1>1 DEF ClanRec
  <2>4. ASSUME NEW x \in CreatedRange
        PROVE  /\ r(x) \in ClanRec /\ r(x).members = b.members /\ r(x).tag = b.tag
               /\ r(x).modified = b.modified
    BY <1>1 DEF ClanRec, CreatedRange
  <2>5. l \in ClanRec /\ l.members = b.members /\ l.tag = b.tag /\ l.modified = b.modified
    BY <1>1 DEF ClanRec
  <2> QED BY <2>2, <2>3, <2>4, <2>5
<1>3. /\ Existing(m, o) = with(e) /\ SavedClan(m, o) = with(s)
      /\ \A x : Created(m, o, x) = with(r(x))
      /\ Aged(m, o) = with(l)
  BY DEF Existing, SavedClan, Created, Aged
<1> HIDE DEF e, s, r, l
<1>4. ASSUME NEW c \in ClanRec, c.members = b.members, c.tag = b.tag
      PROVE  /\ MemInv(with(c)) /\ with(c).members = m.members /\ with(c).clanlist = m.clanlist
             /\ \A p \in Clans : with(c).clans[p] = IF p = o THEN c ELSE m.clans[p]
             /\ \A p \in Clans : ClanLines(with(c), p) = ClanLines(m, p)
             /\ c.modified = b.modified => Grows(m, with(c))
             /\ FreeMembers(with(c)) = FreeMembers(m) /\ with(c).clans[o] # NoClan
  <2>1. /\ MemInv(with(c)) /\ \A p \in Clans : ClanLines(with(c), p) = ClanLines(m, p)
        /\ c.modified \/ ~b.modified => Grows(m, with(c))
    BY <1>4, ClanChanged
  <2>2. with(c).members = m.members /\ with(c).clanlist = m.clanlist
        /\ with(c).clans = [m.clans EXCEPT ![o] = c]
    BY <1>1 DEF ClanMem
  <2> HIDE DEF with
  <2>3. \A p \in Clans : with(c).clans[p] = IF p = o THEN c ELSE m.clans[p]
    BY <1>1, <2>2
  <2>4. c # NoClan
    BY <1>1, <1>4, ClanConstants
  <2>5. c.modified = b.modified => c.modified \/ ~b.modified
    BY <1>1, <1>4 DEF ClanRec
  <2> QED BY <2>1, <2>2, <2>3, <2>4, <2>5 DEF FreeMembers
<1> HIDE DEF with
<1>5. /\ MemInv(with(e)) /\ Grows(m, with(e)) /\ with(e).clans[o] # NoClan
      /\ with(e).members = m.members
      /\ \A p \in Clans : with(e).clans[p].tag = m.clans[p].tag
  BY <1>2, <1>4
<1>6. /\ MemInv(with(s)) /\ with(s).members = m.members /\ with(s).clanlist = m.clanlist
      /\ \A p \in Clans : /\ ClanLines(with(s), p) = ClanLines(m, p)
                          /\ with(s).clans[p].tag = m.clans[p].tag
                          /\ with(s).clans[p].members = m.clans[p].members
                          /\ with(s).clans[p].modified <=> p # o /\ m.clans[p].modified
  BY <1>2, <1>4
<1>7. ASSUME NEW x \in CreatedRange
      PROVE  /\ MemInv(with(r(x))) /\ Grows(m, with(r(x)))
             /\ FreeMembers(with(r(x))) = FreeMembers(m) /\ with(r(x)).clans[o] # NoClan
  <2>1. /\ r(x) \in ClanRec /\ r(x).members = b.members
        /\ r(x).tag = b.tag /\ r(x).modified = b.modified
    BY <1>2
  <2> QED BY <1>4, <2>1
<1>8. MemInv(with(l)) /\ Grows(m, with(l))
  BY <1>2, <1>4
<1> QED BY <1>3, <1>5, <1>6, <1>7, <1>8

\* clan_save: the file has what the clan has now, or is nobody's if it could not be written.
LEMMA ClanSaved ==
  ASSUME NEW m, MemInv(m), NEW o \in Clans, m.clans[o] # NoClan, NEW fail \in BOOLEAN,
         FileInv(m, clanFiles, writer), clan_save(m, o, fail)
  PROVE  MemInv(mem') /\ FileInv(mem', clanFiles', writer')
<1> DEFINE n == SavedClan(m, o)
           t0 == m.clans[o].tag
<1>1. /\ MemInv(n) /\ n.members = m.members
      /\ \A p \in Clans : /\ ClanLines(n, p) = ClanLines(m, p) /\ n.clans[p].tag = m.clans[p].tag
                          /\ n.clans[p].modified <=> p # o /\ m.clans[p].modified
  BY ClanFields
<1>2. /\ mem' = n
      /\ clanFiles' = IF fail THEN clanFiles ELSE [clanFiles EXCEPT ![t0] = Stored(m, o)]
      /\ writer' = [writer EXCEPT ![t0] = IF fail THEN NULL ELSE o]
  BY DEF clan_save
<1>3. t0 \in Tags
  BY DEF MemInv, InUse
<1>4. /\ Stored(m, o) \in ClanFile /\ ToSet(Stored(m, o).lines) = ClanLines(m, o)
      /\ OneHead(Stored(m, o).lines)
  BY StoredIs
<1>5. /\ clanFiles \in [Tags -> ClanFile] /\ \A t \in Tags : OneHead(clanFiles[t].lines)
      /\ writer \in [Tags -> Clans \cup {NULL}]
      /\ \A t \in Tags : writer[t] # NULL => Current(m, clanFiles, t, writer[t])
  BY DEF FileInv
<1> HIDE DEF n, t0
<1>6. /\ clanFiles' \in [Tags -> ClanFile] /\ \A t \in Tags : OneHead(clanFiles'[t].lines)
      /\ \A t \in Tags : clanFiles'[t] = IF t = t0 /\ ~fail THEN Stored(m, o) ELSE clanFiles[t]
  BY <1>2, <1>3, <1>4, <1>5
<1>7. /\ writer' \in [Tags -> Clans \cup {NULL}]
      /\ \A t \in Tags : writer'[t] = IF t = t0 THEN (IF fail THEN NULL ELSE o) ELSE writer[t]
  BY <1>2, <1>3, <1>5
<1>8. ASSUME NEW t \in Tags, writer'[t] # NULL PROVE Current(n, clanFiles', t, writer'[t])
  <2>1. CASE t = t0
    <3>1. ~fail /\ writer'[t] = o /\ clanFiles'[t] = Stored(m, o)
      BY <1>6, <1>7, <1>8, <2>1
    <3>2. ToSet(clanFiles'[t].lines) \subseteq ClanLines(n, o) /\ n.clans[o].tag = t
      BY <1>1, <1>4, <2>1, <3>1 DEF t0
    <3> QED BY <3>1, <3>2 DEF Current
  <2>2. CASE t # t0
    <3>1. writer'[t] = writer[t] /\ clanFiles'[t] = clanFiles[t] /\ writer[t] \in Clans
          /\ Current(m, clanFiles, t, writer[t])
      BY <1>5, <1>6, <1>7, <1>8, <2>2
    <3>2. writer[t] # o
      BY <2>2, <3>1 DEF Current, t0
    <3>3. n.clans[writer[t]].tag = t /\ (~n.clans[writer[t]].modified => ~m.clans[writer[t]].modified)
          /\ ClanLines(n, writer[t]) = ClanLines(m, writer[t])
      BY <1>1, <3>1, <3>2 DEF Current
    <3> QED BY <3>1, <3>3 DEF Current
  <2> QED BY <2>1, <2>2
<1> QED BY <1>1, <1>2, <1>6, <1>7, <1>8 DEF FileInv

\* A member who is an account's, and his clan.
LEMMA MemberOf ==
  ASSUME NEW m, MemInv(m), NEW k \in Members, m.members[k] # NoMember
  PROVE  /\ m.members[k].acc \in Accounts /\ m.members[k].clan \in Clans
         /\ m.members[k].status \in PEON..CHIEFTAIN
         /\ m.clans[m.members[k].clan] # NoClan
         /\ k \in ToSet(m.clans[m.members[k].clan].members)
<1>1. /\ m.members[k].acc \in Accounts /\ m.members[k].clan \in Clans
      /\ m.members[k].status \in PEON..CHIEFTAIN
  BY DEF MemInv, InUse
<1>2. k \in ToSet(m.clans[m.members[k].clan].members)
  BY <1>1 DEF MemInv, Linked
<1>3. m.clans[m.members[k].clan] # NoClan
  BY <1>2, ClanConstants, EmptyList
<1> QED BY <1>1, <1>2, <1>3

\* The member that an account points to, and the clans that are found through it.
LEMMA PointedMember ==
  ASSUME NEW m, MemInv(m), NEW a \in Accounts, m.clanmember[a] # NULL
  PROVE  LET k == m.clanmember[a]
         IN  k \in Members /\ m.members[k].acc = a /\ m.members[k] # NoMember
<1>1. m.clanmember[a] \in Members
  BY MemTypes DEF MemInv
<1>2. m.members[m.clanmember[a]].acc = a
  BY DEF MemInv, Pointed
<1>3. m.members[m.clanmember[a]] # NoMember
  BY <1>2, ClanConstants
<1> QED BY <1>1, <1>2, <1>3

\* What an account is a member of, or creates, is a clan in use.
LEMMA AccountsClan ==
  ASSUME NEW m, MemInv(m), NEW a \in Accounts
  PROVE  /\ account_get_clan(m, a) # NULL =>
              /\ account_get_clan(m, a) \in Clans /\ m.clans[account_get_clan(m, a)] # NoClan
         /\ account_get_creating_clan(m, a) # NULL =>
              /\ account_get_creating_clan(m, a) \in Clans
              /\ m.clans[account_get_creating_clan(m, a)] # NoClan
         /\ account_get_clanmember(m, a) # NULL =>
              /\ account_get_clanmember(m, a) \in Members
              /\ m.members[account_get_clanmember(m, a)] # NoMember
<1> DEFINE k == m.clanmember[a]
<1>1. k # NULL => /\ k \in Members /\ m.members[k] # NoMember
                  /\ m.members[k].clan \in Clans /\ m.clans[m.members[k].clan] # NoClan
  BY PointedMember, MemberOf
<1>2. account_get_clan(m, a) # NULL => k # NULL /\ account_get_clan(m, a) = m.members[k].clan
  BY DEF account_get_clan
<1>3. account_get_creating_clan(m, a) # NULL =>
        k # NULL /\ account_get_creating_clan(m, a) = m.members[k].clan
  BY DEF account_get_creating_clan
<1>4. account_get_clanmember(m, a) # NULL => k # NULL /\ account_get_clanmember(m, a) = k
  BY DEF account_get_clanmember
<1> QED BY <1>1, <1>2, <1>3, <1>4

\* The member that is found in a list.
LEMMA FoundMember ==
  ASSUME NEW m, MemInv(m), NEW o \in Clans, NEW a, clan_find_member(m, o, a) # NULL
  PROVE  LET k == clan_find_member(m, o, a)
         IN  /\ k \in ToSet(m.clans[o].members) /\ k \in Members /\ m.members[k] # NoMember
             /\ m.members[k].clan = o
<1> DEFINE ks == m.clans[o].members
           I == {i \in 1..Len(ks) : m.members[ks[i]].acc = a}
           k == clan_find_member(m, o, a)
<1>1. ks \in Seq(Members)
  BY MemTypes, SMTT(40) DEF MemInv
<1>2. k = IF (IF I # {} THEN Min(I) ELSE 0) = 0 THEN NULL
          ELSE ks[IF I # {} THEN Min(I) ELSE 0]
  BY ZenonT(60) DEF clan_find_member, SelectInSeq
<1>3. I # {} => Min(I) \in I
  <2>1. I \subseteq Nat
    BY <1>1
  <2> QED BY <2>1, MinIn, ZenonT(60)
<1> HIDE DEF k
<1>4. k \in ToSet(ks)
  <2>1. I # {} /\ k = ks[Min(I)]
    BY <1>2, ZenonT(60) DEF k
  <2>2. Min(I) \in 1..Len(ks)
    BY <1>3, <2>1, ZenonT(60)
  <2> DEFINE at == Min(I)
  <2>3. at \in 1..Len(ks) /\ k = ks[at]
    BY <2>1, <2>2, ZenonT(60)
  <2> HIDE DEF at, ks
  <2> QED BY <1>1, <2>3, Elements, SMTT(40)
<1>5. k \in Members /\ m.members[k].clan = o
  BY <1>4, ListedMember
<1>6. m.members[k] # NoMember
  BY <1>5, ClanConstants
<1> QED BY <1>4, <1>5, <1>6 DEF k

\* A member gets a rank, and the clan is to be saved if it is another one than before.
LEMMA StatusSet ==
  ASSUME NEW m, MemInv(m), NEW k \in Members, m.members[k] # NoMember,
         NEW status \in PEON..CHIEFTAIN,
         status = CHIEFTAIN =>
           \A j \in Members \ {k} : m.members[j].status = CHIEFTAIN =>
                                    m.members[j].clan # m.members[k].clan
  PROVE  LET n == set_status(m, k, status)
         IN  /\ MemInv(n) /\ Grows(m, n)
             /\ \A j \in Members : /\ n.members[j].clan = m.members[j].clan
                                   /\ n.members[j].status = IF j = k THEN status
                                                            ELSE m.members[j].status
<1> DEFINE o == m.members[k].clan
           b == m.clans[o].modified \/ m.members[k].status # status
           r == [m.members[k] EXCEPT !.status = status]
           c == [m.clans[o] EXCEPT !.modified = b]
           i == [m EXCEPT !.members[k] = r]
           n == set_status(m, k, status)
<1>1. o \in Clans /\ m.clans[o] # NoClan /\ m.clans[o] \in ClanRec /\ m.members[k] \in MemberRec
      /\ m.members \in [Members -> MemberRec] /\ m.clans \in [Clans -> ClanRec]
      /\ m \in ClanMem
  BY MemberOf, MemTypes DEF MemInv
<1>2. b \in BOOLEAN /\ (b \/ ~m.clans[o].modified)
      /\ (m.members[k].status # status => b)
  BY <1>1 DEF ClanRec
<1>3. n = [i EXCEPT !.clans = [m.clans EXCEPT ![o] = c]]
  BY SMTT(40) DEF set_status
<1> HIDE DEF b
<1>4. c \in ClanRec /\ c.members = m.clans[o].members /\ c.tag = m.clans[o].tag /\ c.modified = b
  BY <1>1, <1>2 DEF ClanRec
<1>5. /\ r \in MemberRec /\ r.acc = m.members[k].acc /\ r.clan = o
      /\ r.status = status /\ r.full = m.members[k].full
  BY <1>1 DEF MemberRec, PEON, CHIEFTAIN
<1> HIDE DEF c, r, n
<1>6. /\ MemInv(i) /\ i.clans = m.clans /\ i.members = [m.members EXCEPT ![k] = r]
      /\ \A p \in Clans \ {o} : ClanLines(i, p) = ClanLines(m, p)
      /\ status = m.members[k].status => Grows(m, i)
  <2>1. r.clan \in Clans /\ m.members[k].clan \in Clans /\ r.status \in PEON..CHIEFTAIN
    BY <1>1, <1>5
  <2>2. r.status = CHIEFTAIN =>
          \A j \in Members \ {k} : m.members[j].status = CHIEFTAIN => m.members[j].clan # r.clan
    BY <1>5
  <2> HIDE DEF o
  <2> QED BY <1>5, <2>1, <2>2, MemberChanged DEF o
<1> HIDE DEF i
<1>7. n = [i EXCEPT !.clans[o] = c]
  BY <1>3, <1>6
<1>8. /\ MemInv(n) /\ Grows(i, n) /\ \A p \in Clans : ClanLines(n, p) = ClanLines(i, p)
  <2>1. i.clans[o] # NoClan /\ c.members = i.clans[o].members /\ c.tag = i.clans[o].tag
    BY <1>1, <1>4, <1>6
  <2>2. c.modified \/ ~i.clans[o].modified
    BY <1>2, <1>4, <1>6
  <2> HIDE DEF o
  <2> QED BY <1>1, <1>4, <1>6, <1>7, <2>1, <2>2, ClanChanged
<1>9. n.members = i.members /\ n.clans = [m.clans EXCEPT ![o] = c]
  BY <1>1, <1>3, <1>6 DEF MemInv, ClanMem
<1>10. \A p \in Clans : n.clans[p] = IF p = o THEN c ELSE m.clans[p]
  BY <1>1, <1>9
<1>11. Grows(m, n)
  <2>1. CASE status = m.members[k].status
    <3>1. \A p \in Clans : m.clans[p] = NoClan \/ m.clans[p].tag \in Tags
      BY SMTT(40) DEF MemInv, InUse
    <3> QED BY <1>6, <1>8, <2>1, <3>1, GrowsOn
  <2>2. CASE status # m.members[k].status
    BY <1>2, <1>4, <1>6, <1>8, <1>10, <2>2 DEF Grows, Kept
  <2> QED BY <2>1, <2>2
<1>12. ASSUME NEW j \in Members
       PROVE  /\ n.members[j].clan = m.members[j].clan
              /\ n.members[j].status = IF j = k THEN status ELSE m.members[j].status
  <2>1. n.members[j] = IF j = k THEN r ELSE m.members[j]
    BY <1>1, <1>6, <1>9
  <2> QED BY <1>5, <2>1
<1> QED BY <1>8, <1>11, <1>12 DEF n

\* A step that changes the memory only, and keeps what the clans would write.
LEMMA InMemoryKeeps ==
  ASSUME ClanInv, NEW n, MemInv(n), Grows(mem, n), InMemory(n)
  PROVE  ClanInv'
<1>1. mem' = n /\ clanFiles' = clanFiles /\ writer' = writer /\ clanMishaps' = clanMishaps
  BY DEF InMemory
<1>2. FileInv(mem, clanFiles, writer) /\ clanMishaps \in 0..MaxClanMishaps
  BY DEF ClanInv
<1>3. FileInv(n, clanFiles, writer)
  BY <1>2, FilesStay
<1> QED BY <1>1, <1>2, <1>3 DEF ClanInv

\* A clan that is saved after such a step.
LEMMA SaveKeeps ==
  ASSUME ClanInv, NEW m, MemInv(m), Grows(mem, m), NEW o \in Clans, m.clans[o] # NoClan,
         NEW fail \in Fails, clan_save(Existing(m, o), o, fail)
  PROVE  ClanInv'
<1> DEFINE n == Existing(m, o)
<1>1. MemInv(n) /\ Grows(m, n) /\ n.clans[o] # NoClan
  BY ClanFields
<1>2. FileInv(m, clanFiles, writer)
  BY FilesStay DEF ClanInv
<1> HIDE DEF n
<1>3. FileInv(n, clanFiles, writer)
  BY <1>1, <1>2, FilesStay
<1>4. fail \in BOOLEAN /\ (fail => clanMishaps < MaxClanMishaps)
  BY DEF Fails
<1>5. clan_save(n, o, fail)
  BY DEF n
<1>6. MemInv(mem') /\ FileInv(mem', clanFiles', writer')
  BY <1>1, <1>3, <1>4, <1>5, ClanSaved
<1>7. clanMishaps' \in 0..MaxClanMishaps
  <2>1. clanMishaps' = IF fail THEN clanMishaps + 1 ELSE clanMishaps
    BY <1>5 DEF clan_save, Mishap
  <2>2. clanMishaps \in 0..MaxClanMishaps /\ MaxClanMishaps \in Nat
    BY ClanAssumption DEF ClanInv, ClanAssumption
  <2> QED BY <1>4, <2>1, <2>2
<1> QED BY <1>6, <1>7 DEF ClanInv

\* A file that is removed is no staler than it was.
LEMMA Erased ==
  ASSUME NEW m, NEW disk, NEW left, NEW w, FileInv(m, disk, w), left \in [Tags -> ClanFile],
         \A t \in Tags : left[t] = disk[t] \/ left[t] = NoFile
  PROVE  FileInv(m, left, w)
<1>1. ToSet(NoFile.lines) = {} /\ OneHead(NoFile.lines)
  BY EmptyList DEF NoFile, OneHead
<1>2. ASSUME NEW t \in Tags PROVE OneHead(left[t].lines)
  BY <1>1 DEF FileInv
<1>3. ASSUME NEW t \in Tags, w[t] # NULL PROVE Current(m, left, t, w[t])
  <2>1. Current(m, disk, t, w[t])
    BY <1>3 DEF FileInv
  <2> QED BY <1>1, <2>1 DEF Current
<1> QED BY <1>2, <1>3 DEF FileInv

\* A clan leaves the list and is freed.
LEMMA DestroyKeeps ==
  ASSUME ClanInv, NEW o \in Clans, ClanFreed(clanlist_remove_clan(mem, o), o),
         clanFiles' \in [Tags -> ClanFile],
         \A t \in Tags : clanFiles'[t] = clanFiles[t] \/ clanFiles'[t] = NoFile,
         UNCHANGED clanMishaps
  PROVE  ClanInv'
<1> DEFINE m == clanlist_remove_clan(mem, o)
           n == clan_destroy(m, o)
<1>1. MemInv(mem) /\ FileInv(mem, clanFiles, writer) /\ clanMishaps \in 0..MaxClanMishaps
  BY DEF ClanInv
<1>2. MemInv(m) /\ Grows(mem, m)
  <2> DEFINE l == RemoveFirst(mem.clanlist, o)
  <2>1. mem.clanlist \in Seq(Clans)
    BY <1>1, MemTypes DEF MemInv
  <2>2. l \in Seq(Clans)
    BY <2>1, Removed
  <2>3. m = [mem EXCEPT !.clanlist = l]
    BY DEF clanlist_remove_clan
  <2> HIDE DEF l, m
  <2> QED BY <1>1, <2>2, <2>3, ListChanged
<1>3. FileInv(m, clanFiles, writer)
  BY <1>1, <1>2, FilesStay
<1>4. mem' = n /\ writer' = [t \in Tags |-> IF writer[t] = o THEN NULL ELSE writer[t]]
  BY DEF ClanFreed
<1> HIDE DEF m
<1>5. MemInv(n) /\ \A p \in Clans \ {o} : Kept(m, n, p)
  BY <1>2, ClanDestroyed
<1> HIDE DEF n
<1>6. writer \in [Tags -> Clans \cup {NULL}] /\ o # NULL
  BY <1>1, ClanConstants DEF FileInv
<1>7. /\ writer' \in [Tags -> Clans \cup {NULL}]
      /\ \A t \in Tags : writer'[t] # NULL => writer'[t] = writer[t] /\ Kept(m, n, writer[t])
  BY <1>4, <1>5, <1>6
<1>8. FileInv(n, clanFiles, writer')
  <2> DEFINE v == writer'
  <2>1. /\ v \in [Tags -> Clans \cup {NULL}]
        /\ \A t \in Tags : v[t] # NULL =>
             v[t] = writer[t] /\ (m.clans[writer[t]] # NoClan => Kept(m, n, writer[t]))
    BY <1>7
  <2> HIDE DEF v
  <2>2. FileInv(n, clanFiles, v)
    BY <1>3, <2>1, FilesLeft
  <2> QED BY <2>2 DEF v
<1>9. FileInv(n, clanFiles', writer')
  BY <1>8, Erased
<1> QED BY <1>1, <1>4, <1>5, <1>9 DEF ClanInv

\* A member who is invited, and the clan that is to be saved then.
Invitee(m, o, a, full) == [clan_append(m, o, a, PEON, full) EXCEPT !.clans[o].modified = TRUE]
\* A member who is added to a clan whose changes are to be saved.
LEMMA MemberInvited ==
  ASSUME NEW m, MemInv(m), NEW o \in Clans, m.clans[o] # NoClan, NEW a \in Accounts,
         NEW full \in BOOLEAN, FreeMembers(m) # {}
  PROVE  /\ MemInv(Invitee(m, o, a, full)) /\ Grows(m, Invitee(m, o, a, full))
         /\ Invitee(m, o, a, full).clans[o] # NoClan
         /\ \E k \in FreeMembers(m) : FreeMembers(Invitee(m, o, a, full)) = FreeMembers(m) \ {k}
<1> DEFINE i == clan_append(m, o, a, PEON, full)
           c == [i.clans[o] EXCEPT !.modified = TRUE]
           n == Invitee(m, o, a, full)
<1>1. PEON \in PEON..CHIEFTAIN /\ PEON # CHIEFTAIN
  BY DEF PEON, CHIEFTAIN
<1>2. PICK k \in FreeMembers(m) :
        /\ MemInv(i) /\ Grows(m, i) /\ FreeMembers(i) = FreeMembers(m) \ {k}
  <2> DEFINE rank == PEON
  <2>1. rank \in PEON..CHIEFTAIN /\ rank # CHIEFTAIN
    BY <1>1
  <2> DEFINE k == Allocated(FreeMembers(m))
             r == [acc |-> a, status |-> rank, full |-> full, clan |-> o]
  <2>2. i = clan_append(m, o, a, rank, full)
    OBVIOUS
  <2>3. rank = CHIEFTAIN => \A j \in Members : m.members[j].status = CHIEFTAIN => m.members[j].clan # o
    BY <2>1
  <2> HIDE DEF rank, i, k
  <2>4. /\ MemInv(i) /\ Grows(m, i) /\ k \in FreeMembers(m) /\ FreeMembers(i) = FreeMembers(m) \ {k}
        /\ Appending(m, i, o, a, k, r)
    BY <2>1, <2>2, <2>3, MemberAdded DEF k
  <2> QED BY <2>4
<1>3. n = [i EXCEPT !.clans[o] = c]
  BY DEF Invitee
<1> HIDE DEF i
<1>4. m.clans[o].tag \in Tags
  BY DEF MemInv, InUse
<1>5. i.clans[o] # NoClan /\ i.clans[o] \in ClanRec /\ i \in ClanMem
      /\ i.clans \in [Clans -> ClanRec]
  BY <1>2, <1>4, MemTypes, ClanConstants DEF Grows, Kept, MemInv
<1>6. c \in ClanRec /\ c.members = i.clans[o].members /\ c.tag = i.clans[o].tag /\ c.modified
  BY <1>5 DEF ClanRec
<1>7. n.members = i.members /\ n.clans = [i.clans EXCEPT ![o] = c]
  BY <1>3, <1>5 DEF ClanMem
<1> HIDE DEF c, n
<1>8. MemInv(n) /\ Grows(i, n)
  BY <1>2, <1>3, <1>5, <1>6, ClanChanged
<1>9. Grows(m, n)
  <2>1. \A p \in Clans : m.clans[p] = NoClan \/ m.clans[p].tag \in Tags
    BY DEF MemInv, InUse
  <2> QED BY <1>2, <1>8, <2>1, GrowsOn
<1>10. FreeMembers(n) = FreeMembers(m) \ {k}
  BY <1>2, <1>7 DEF FreeMembers
<1>11. n.clans[o] # NoClan
  BY <1>5, <1>6, <1>7, ClanConstants
<1> QED BY <1>8, <1>9, <1>10, <1>11 DEF n

\* There is room.
LEMMA RoomFor ==
  ASSUME NEW c \in Nat, NEW k \in Nat, Room(c, k)
  PROVE  (c # 0 => FreeClans(mem) # {}) /\ (k # 0 => FreeMembers(mem) # {})
<1>1. Cardinality({}) = 0
  BY FS_EmptySet
<1> QED BY <1>1 DEF Room

\* The steps, the ones of one member first.
LEMMA RankKeeps ==
  ASSUME ClanInv, NEW a \in Accounts, NEW x \in Accounts, NEW status \in PEON..CHIEFTAIN,
         client_clanmember_rankupdatereq(a, x, status)
  PROVE  ClanInv'
<1> DEFINE o == account_get_clan(mem, a)
           dest == clan_find_member(mem, o, x)
<1>1. MemInv(mem)
  BY DEF ClanInv
<1>2. /\ o # NULL /\ dest # NULL /\ status \in PEON..SHAMAN
      /\ InMemory(set_status(mem, dest, status))
  BY DEF client_clanmember_rankupdatereq
<1>3. o \in Clans
  BY <1>1, <1>2, AccountsClan
<1> HIDE DEF o
<1>4. dest \in Members /\ mem.members[dest] # NoMember
  BY <1>1, <1>2, <1>3, FoundMember
<1> HIDE DEF dest
<1>5. status # CHIEFTAIN
  BY <1>2 DEF PEON, SHAMAN, CHIEFTAIN
<1>6. MemInv(set_status(mem, dest, status)) /\ Grows(mem, set_status(mem, dest, status))
  BY <1>1, <1>4, <1>5, StatusSet
<1> QED BY <1>2, <1>6, InMemoryKeeps

\* client_clan_membernewchiefreq: the old chieftain steps down first.
LEMMA NewChiefKeeps ==
  ASSUME ClanInv, NEW a \in Accounts, NEW x \in Accounts, client_clan_membernewchiefreq(a, x)
  PROVE  ClanInv'
<1> DEFINE k == account_get_clanmember(mem, a)
           o == mem.members[k].clan
           j == clan_find_member(mem, o, x)
           m == set_status(mem, k, GRUNT)
           n == set_status(m, j, CHIEFTAIN)
<1>1. MemInv(mem)
  BY DEF ClanInv
<1>2. k # NULL /\ mem.members[k].status = CHIEFTAIN /\ j # NULL /\ InMemory(n)
  BY DEF client_clan_membernewchiefreq
<1>3. k \in Members /\ mem.members[k] # NoMember
  BY <1>1, <1>2, AccountsClan
<1> HIDE DEF k
<1>4. o \in Clans
  BY <1>1, <1>3, MemberOf
<1>5. j \in Members /\ mem.members[j] # NoMember /\ mem.members[j].clan = o
  <2> HIDE DEF o
  <2> QED BY <1>1, <1>2, <1>4, FoundMember
<1> HIDE DEF j
<1>6. GRUNT \in PEON..CHIEFTAIN /\ CHIEFTAIN \in PEON..CHIEFTAIN /\ GRUNT # CHIEFTAIN
  BY DEF PEON, GRUNT, CHIEFTAIN
<1>7. /\ MemInv(m) /\ Grows(mem, m)
      /\ \A i \in Members : /\ m.members[i].clan = mem.members[i].clan
                            /\ m.members[i].status = IF i = k THEN GRUNT ELSE mem.members[i].status
  <2> DEFINE rank == GRUNT
  <2>1. rank \in PEON..CHIEFTAIN /\ rank # CHIEFTAIN /\ m = set_status(mem, k, rank)
    BY <1>6
  <2> HIDE DEF rank, m
  <2>2. /\ MemInv(m) /\ Grows(mem, m)
        /\ \A i \in Members : /\ m.members[i].clan = mem.members[i].clan
                              /\ m.members[i].status = IF i = k THEN rank ELSE mem.members[i].status
    BY <1>1, <1>3, <2>1, StatusSet
  <2> QED BY <2>2 DEF rank
<1> HIDE DEF m
<1>8. m.members[j] # NoMember
  BY <1>4, <1>5, <1>7, ClanConstants
<1>9. \A i \in Members \ {j} : m.members[i].status = CHIEFTAIN =>
                               m.members[i].clan # m.members[j].clan
  BY <1>2, <1>3, <1>5, <1>6, <1>7, <1>1 DEF MemInv, Headed
<1>10. MemInv(n) /\ Grows(m, n)
  <2> DEFINE rank == CHIEFTAIN
  <2>1. rank \in PEON..CHIEFTAIN /\ n = set_status(m, j, rank)
    BY <1>6
  <2> HIDE DEF rank, n
  <2> QED BY <1>5, <1>7, <1>8, <1>9, <2>1, StatusSet DEF rank
<1>11. Grows(mem, n)
  <2>1. \A p \in Clans : mem.clans[p] = NoClan \/ mem.clans[p].tag \in Tags
    BY <1>1 DEF MemInv, InUse
  <2> HIDE DEF n
  <2> QED BY <1>7, <1>10, <2>1, GrowsOn
<1> HIDE DEF n
<1> QED BY <1>2, <1>10, <1>11, InMemoryKeeps

\* Those who leave, are thrown out or decline.
LEMMA RemovalKeeps ==
  ASSUME ClanInv, NEW k \in Members, mem.members[k] # NoMember,
         InMemory(clan_remove_member(mem, mem.members[k].clan, k))
  PROVE  ClanInv'
<1> DEFINE o == mem.members[k].clan
           n == clan_remove_member(mem, o, k)
<1>1. MemInv(mem)
  BY DEF ClanInv
<1>2. o \in Clans /\ mem.members[k].clan = o
  BY <1>1, MemberOf
<1>3. InMemory(n)
  OBVIOUS
<1> HIDE DEF o
<1>4. MemInv(n) /\ Grows(mem, n)
  BY <1>1, <1>2, MemberRemoved
<1> HIDE DEF n
<1> QED BY <1>3, <1>4, InMemoryKeeps

\* client_clanmember_removereq.
LEMMA RemoveKeeps ==
  ASSUME ClanInv, NEW a \in Accounts, NEW x \in Accounts, client_clanmember_removereq(a, x)
  PROVE  ClanInv'
<1> DEFINE o == account_get_clan(mem, a)
           k == clan_find_member(mem, o, x)
<1>1. MemInv(mem)
  BY DEF ClanInv
<1>2. o # NULL /\ k # NULL /\ InMemory(clan_remove_member(mem, o, k))
  BY DEF client_clanmember_removereq
<1>3. o \in Clans
  BY <1>1, <1>2, AccountsClan
<1> HIDE DEF o
<1>4. k \in Members /\ mem.members[k] # NoMember /\ mem.members[k].clan = o
  BY <1>1, <1>2, <1>3, FoundMember
<1> HIDE DEF k
<1> QED BY <1>2, <1>4, RemovalKeeps

\* clan_command_decline.
LEMMA DeclineKeeps ==
  ASSUME ClanInv, NEW x \in Accounts, clan_command_decline(x)
  PROVE  ClanInv'
<1> DEFINE k == mem.clanmember[x]
<1>1. k # NULL /\ InMemory(clan_remove_member(mem, mem.members[k].clan, k))
  BY DEF clan_command_decline
<1>2. k \in Members /\ mem.members[k] # NoMember
  BY <1>1, PointedMember DEF ClanInv
<1> HIDE DEF k
<1> QED BY <1>1, <1>2, RemovalKeeps

\* Those who are invited.
LEMMA InviteKeeps ==
  ASSUME ClanInv, NEW o \in Clans, mem.clans[o] # NoClan, NEW x \in Accounts, Room(0, 1),
         InMemory(clan_add_member(mem, o, x))
  PROVE  ClanInv'
<1> DEFINE full == FALSE
           n == Invitee(mem, o, x, full)
<1>1. full \in BOOLEAN /\ InMemory(n)
  BY DEF clan_add_member, Invitee
<1>2. FreeMembers(mem) # {}
  BY RoomFor
<1> HIDE DEF full
<1>3. MemInv(n) /\ Grows(mem, n)
  BY <1>1, <1>2, MemberInvited DEF ClanInv
<1> HIDE DEF n
<1> QED BY <1>1, <1>3, InMemoryKeeps

\* client_clan_invitereq and clan_command_invite.
LEMMA InviteReqKeeps ==
  ASSUME ClanInv, NEW a \in Accounts, NEW x \in Accounts,
         client_clan_invitereq(a, x) \/ clan_command_invite(a, x)
  PROVE  ClanInv'
<1>1. MemInv(mem)
  BY DEF ClanInv
<1>2. CASE client_clan_invitereq(a, x)
  <2> DEFINE o == account_get_clan(mem, a)
  <2>1. o # NULL /\ Room(0, 1) /\ InMemory(clan_add_member(mem, o, x))
    BY <1>2 DEF client_clan_invitereq
  <2>2. o \in Clans /\ mem.clans[o] # NoClan
    BY <1>1, <2>1, AccountsClan
  <2> HIDE DEF o
  <2> QED BY <2>1, <2>2, InviteKeeps
<1>3. CASE clan_command_invite(a, x)
  <2> DEFINE k == mem.clanmember[a]
             o == mem.members[k].clan
  <2>1. k # NULL /\ Room(0, 1) /\ InMemory(clan_add_member(mem, o, x))
    BY <1>3 DEF clan_command_invite
  <2>2. k \in Members /\ mem.members[k] # NoMember
    BY <1>1, <2>1, PointedMember
  <2> HIDE DEF k
  <2>3. o \in Clans /\ mem.clans[o] # NoClan
    BY <1>1, <2>2, MemberOf
  <2> HIDE DEF o
  <2> QED BY <2>1, <2>3, InviteKeeps
<1> QED BY <1>2, <1>3

\* Those who accept become full members.
Joined(m, k) == [m EXCEPT !.members[k].full = TRUE]
\* A member becomes a full one, and the file of his clan may lack him.
LEMMA MemberJoined ==
  ASSUME NEW m, MemInv(m), NEW k \in Members, m.members[k] # NoMember
  PROVE  MemInv(Joined(m, k)) /\ Grows(m, Joined(m, k)) /\ Joined(m, k).clans = m.clans
<1> DEFINE r == [m.members[k] EXCEPT !.full = TRUE]
           n == Joined(m, k)
<1>1. m.members[k] \in MemberRec
  BY MemTypes DEF MemInv
<1>2. m.members[k].clan \in Clans /\ m.members[k].status \in PEON..CHIEFTAIN
  BY MemberOf
<1>3. /\ r \in MemberRec /\ r.acc = m.members[k].acc /\ r.clan = m.members[k].clan
      /\ r.status = m.members[k].status /\ r.full
  BY <1>1 DEF MemberRec
<1>4. n = [m EXCEPT !.members[k] = r]
  BY DEF Joined
<1> HIDE DEF r, n
<1>5. \A j \in Members \ {k} : m.members[j].status = CHIEFTAIN /\ r.status = CHIEFTAIN =>
                               m.members[j].clan # r.clan
  BY <1>3 DEF MemInv, Headed
<1>6. r.status \in PEON..CHIEFTAIN /\ (m.members[k].full => r.full)
      /\ (r.status = CHIEFTAIN =>
           \A j \in Members \ {k} : m.members[j].status = CHIEFTAIN => m.members[j].clan # r.clan)
  BY <1>2, <1>3, <1>5
<1>7. MemInv(n) /\ Grows(m, n) /\ n.clans = m.clans
  BY <1>2, <1>3, <1>4, <1>6, MemberChanged
<1> QED BY <1>7 DEF n

\* client_clan_invitereply, whether he joins or is thrown out.
LEMMA InviteReplyKeeps ==
  ASSUME ClanInv, NEW x \in Accounts, NEW inviter \in Accounts, NEW accept \in BOOLEAN,
         client_clan_invitereply(x, inviter, accept)
  PROVE  ClanInv'
<1> DEFINE k == mem.clanmember[x]
<1>1. /\ k # NULL
      /\ \/ InMemory(clan_remove_member(mem, mem.members[k].clan, k))
         \/ InMemory(Joined(mem, k))
  BY ZenonT(60) DEF client_clan_invitereply, Joined
<1>2. k \in Members /\ mem.members[k] # NoMember
  BY <1>1, PointedMember DEF ClanInv
<1> HIDE DEF k
<1>3. MemInv(Joined(mem, k)) /\ Grows(mem, Joined(mem, k))
  BY <1>2, MemberJoined DEF ClanInv
<1> QED BY <1>1, <1>2, <1>3, RemovalKeeps, InMemoryKeeps, SMTT(40)

\* The invitations that are not accepted yet are counted from below zero.
LEMMA CountRange ==
  ASSUME NEW m, MemInv(m), NEW o \in Clans
  PROVE  /\ m.clans[o].created \in CreatedRange
         /\ m.clans[o].created + 1 < 0 => m.clans[o].created + 1 \in CreatedRange
         /\ 1 - ClanMinInvites \in CreatedRange
         /\ \A c \in 0..MaxInvites : -c \in CreatedRange
<1>1. m.clans[o].created \in CreatedRange
  BY MemTypes DEF MemInv, ClanRec, CreatedRange
<1>2. MaxInvites \in Nat /\ ClanMinInvites \in Nat
  BY ClanAssumption DEF ClanAssumption
<1> QED BY <1>1, <1>2 DEF CreatedRange

\* client_clan_createinvitereply: the clan is freed, saved, or waits for the next answer.
LEMMA CreateReplyKeeps ==
  ASSUME ClanInv, NEW inviter \in Accounts, NEW accept \in BOOLEAN, NEW fail \in Fails,
         client_clan_createinvitereply(inviter, accept, fail)
  PROVE  ClanInv'
<1> DEFINE o == account_get_creating_clan(mem, inviter)
           created == mem.clans[o].created + 1
<1>1. MemInv(mem) /\ FileInv(mem, clanFiles, writer)
  BY DEF ClanInv
<1>2. o # NULL
  BY DEF client_clan_createinvitereply
<1>3. o \in Clans /\ mem.clans[o] # NoClan
  BY <1>1, <1>2, AccountsClan
<1>4. \/ ClanFreed(clanlist_remove_clan(mem, o), o) /\ UNCHANGED <<clanFiles, clanMishaps>>
      \/ clan_save(Existing(mem, o), o, fail)
      \/ created < 0 /\ InMemory(Created(mem, o, created))
  BY DEF client_clan_createinvitereply, Created
<1> HIDE DEF o
<1>5. CASE ClanFreed(clanlist_remove_clan(mem, o), o) /\ UNCHANGED <<clanFiles, clanMishaps>>
  <2>1. clanFiles' \in [Tags -> ClanFile]
    BY <1>1, <1>5 DEF FileInv
  <2> QED BY <1>3, <1>5, <2>1, DestroyKeeps
<1>6. CASE clan_save(Existing(mem, o), o, fail)
  <2>1. Grows(mem, mem)
    BY DEF Grows, Kept
  <2> QED BY <1>1, <1>3, <1>6, <2>1, SaveKeeps
<1>7. CASE created < 0 /\ InMemory(Created(mem, o, created))
  <2>1. created \in CreatedRange
    BY <1>1, <1>3, <1>7, CountRange
  <2> HIDE DEF created
  <2>2. MemInv(Created(mem, o, created)) /\ Grows(mem, Created(mem, o, created))
    BY <1>1, <1>3, <2>1, ClanFields
  <2> QED BY <1>7, <2>2, InMemoryKeeps
<1> QED BY <1>4, <1>5, <1>6, <1>7

\* clan_command_accept.
LEMMA AcceptKeeps ==
  ASSUME ClanInv, NEW x \in Accounts, NEW fail \in Fails, clan_command_accept(x, fail)
  PROVE  ClanInv'
<1> DEFINE k == mem.clanmember[x]
           o == mem.members[k].clan
           created == mem.clans[o].created + 1
           m == Joined(mem, k)
<1>1. MemInv(mem)
  BY SMTT(40) DEF ClanInv
<1>2. /\ k # NULL
      /\ \/ InMemory(m)
         \/ clan_save(Existing(m, o), o, fail)
         \/ created < 0 /\ InMemory(Created(m, o, created))
  BY ZenonT(60) DEF clan_command_accept, Joined, Created
<1>3. k \in Members /\ mem.members[k] # NoMember
  BY <1>1, <1>2, PointedMember, ZenonT(60)
<1> HIDE DEF k
<1>4. o \in Clans /\ mem.clans[o] # NoClan
  BY <1>1, <1>3, MemberOf
<1>5. MemInv(m) /\ Grows(mem, m) /\ m.clans = mem.clans
  BY <1>1, <1>3, MemberJoined
<1> HIDE DEF o, m
<1>6. CASE InMemory(m)
  BY <1>5, <1>6, InMemoryKeeps
<1>7. CASE clan_save(Existing(m, o), o, fail)
  BY <1>4, <1>5, <1>7, SaveKeeps
<1>8. CASE created < 0 /\ InMemory(Created(m, o, created))
  <2>1. created \in CreatedRange
    BY <1>1, <1>4, <1>8, CountRange
  <2> DEFINE n == Created(m, o, created)
  <2>2. InMemory(n)
    BY <1>8
  <2> HIDE DEF created
  <2>3. MemInv(n) /\ Grows(m, n)
    BY <1>4, <1>5, <2>1, ClanFields
  <2> HIDE DEF n
  <2>4. \A p \in Clans : mem.clans[p] = NoClan \/ mem.clans[p].tag \in Tags
    BY <1>1 DEF MemInv, InUse
  <2>5. Grows(mem, n)
    BY <1>5, <2>3, <2>4, GrowsOn
  <2> QED BY <2>2, <2>3, <2>5, InMemoryKeeps
<1> QED BY <1>2, <1>6, <1>7, <1>8

\* clan_command_create.
LEMMA CreateKeeps ==
  ASSUME ClanInv, NEW a \in Accounts, NEW t \in Tags, NEW fail \in Fails,
         clan_command_create(a, t, fail)
  PROVE  ClanInv'
<1> DEFINE m == clan_create(mem, a, t)
           o == Allocated(FreeClans(mem))
           created == 1 - ClanMinInvites
           n == Created(m, o, created)
<1>1. MemInv(mem)
  BY DEF ClanInv
<1>2. /\ Room(1, 1)
      /\ clan_save(Existing(m, o), o, fail) \/ InMemory(n)
  BY DEF clan_command_create, Created
<1>3. FreeClans(mem) # {} /\ FreeMembers(mem) # {}
  BY <1>2, RoomFor
<1>4. MemInv(m) /\ Grows(mem, m) /\ o \in Clans /\ m.clans[o] # NoClan
  BY <1>1, <1>3, ClanCreated
<1> HIDE DEF m, o
<1>5. CASE clan_save(Existing(m, o), o, fail)
  BY <1>4, <1>5, SaveKeeps
<1>6. CASE InMemory(n)
  <2>1. created \in CreatedRange
    BY <1>4, CountRange
  <2> HIDE DEF created
  <2>2. MemInv(n) /\ Grows(m, n)
    BY <1>4, <2>1, ClanFields
  <2> HIDE DEF n
  <2>3. \A p \in Clans : mem.clans[p] = NoClan \/ mem.clans[p].tag \in Tags
    BY <1>1 DEF MemInv, InUse
  <2>4. Grows(mem, n)
    BY <1>4, <2>2, <2>3, GrowsOn
  <2> QED BY <1>6, <2>2, <2>4, InMemoryKeeps
<1> QED BY <1>2, <1>5, <1>6

\* A clan is disbanded, with the file or without one.
LEMMA DisbandReqKeeps ==
  ASSUME ClanInv, NEW a \in Accounts, client_clan_disbandreq(a)
  PROVE  ClanInv'
<1> DEFINE o == account_get_clan(mem, a)
           left == clanlist_remove_clan(mem, o)
           t0 == mem.clans[o].tag
<1>1. MemInv(mem) /\ FileInv(mem, clanFiles, writer)
  BY DEF ClanInv
<1>2. o # NULL
  BY DEF client_clan_disbandreq
<1>3. o \in Clans
  BY <1>1, <1>2, AccountsClan
<1>4. \/ /\ clanFiles' = [clanFiles EXCEPT ![t0] = NoFile]
         /\ ClanFreed(left, o) /\ UNCHANGED clanMishaps
      \/ InMemory(left)
  BY DEF client_clan_disbandreq
<1> HIDE DEF o
<1>5. CASE /\ clanFiles' = [clanFiles EXCEPT ![t0] = NoFile]
           /\ ClanFreed(left, o) /\ UNCHANGED clanMishaps
  <2>1. clanFiles \in [Tags -> ClanFile] /\ NoFile \in ClanFile
    BY <1>1, EmptyList DEF FileInv, ClanFile, NoFile
  <2> HIDE DEF t0
  <2>2. clanFiles' \in [Tags -> ClanFile]
        /\ \A t \in Tags : clanFiles'[t] = clanFiles[t] \/ clanFiles'[t] = NoFile
    BY <1>5, <2>1
  <2> QED BY <1>3, <1>5, <2>2, DestroyKeeps
<1>6. CASE InMemory(left)
  <2> DEFINE l == RemoveFirst(mem.clanlist, o)
  <2>1. mem.clanlist \in Seq(Clans)
    BY <1>1, MemTypes DEF MemInv
  <2>2. l \in Seq(Clans)
    BY <2>1, Removed
  <2>3. left = [mem EXCEPT !.clanlist = l]
    BY DEF clanlist_remove_clan
  <2> HIDE DEF l, left
  <2>4. MemInv(left) /\ Grows(mem, left)
    BY <1>1, <2>2, <2>3, ListChanged
  <2> QED BY <1>6, <2>4, InMemoryKeeps
<1> QED BY <1>4, <1>5, <1>6

\* clan_command_disband.
LEMMA DisbandKeeps ==
  ASSUME ClanInv, NEW a \in Accounts, clan_command_disband(a)
  PROVE  ClanInv'
<1> DEFINE k == mem.clanmember[a]
           o == mem.members[k].clan
           t0 == mem.clans[o].tag
<1>1. MemInv(mem) /\ FileInv(mem, clanFiles, writer)
  BY DEF ClanInv
<1>2. /\ k # NULL
      /\ clanFiles' = IF mem.clans[o].created = 1 THEN [clanFiles EXCEPT ![t0] = NoFile] ELSE clanFiles
      /\ ClanFreed(clanlist_remove_clan(mem, o), o) /\ UNCHANGED clanMishaps
  BY ZenonT(60) DEF clan_command_disband
<1>3. o \in Clans
  BY <1>1, <1>2, PointedMember, MemberOf, ZenonT(60)
<1> HIDE DEF o
<1>4. clanFiles \in [Tags -> ClanFile] /\ NoFile \in ClanFile
  BY <1>1, EmptyList DEF FileInv, ClanFile, NoFile
<1> HIDE DEF t0
<1>5. clanFiles' \in [Tags -> ClanFile]
      /\ \A t \in Tags : clanFiles'[t] = clanFiles[t] \/ clanFiles'[t] = NoFile
  BY <1>2, <1>4
<1> QED BY <1>2, <1>3, <1>5, DestroyKeeps, SMTT(40)

\* Two minutes pass for a clan.
LEMMA AgesKeeps ==
  ASSUME ClanInv, NEW o \in Clans, ClanAges(o)
  PROVE  ClanInv'
<1>1. MemInv(mem)
  BY DEF ClanInv
<1>2. mem.clans[o] # NoClan /\ InMemory(Aged(mem, o))
  BY ClanConstants DEF ClanAges, Aged
<1>3. MemInv(Aged(mem, o)) /\ Grows(mem, Aged(mem, o))
  BY <1>1, <1>2, ClanFields
<1> QED BY <1>2, <1>3, InMemoryKeeps

\* The members are finitely many, and so are the free ones.
LEMMA FreeAreFinite ==
  ASSUME NEW m
  PROVE  IsFiniteSet(FreeMembers(m)) /\ Cardinality(FreeMembers(m)) \in Nat
<1>1. MaxMembers \in Nat
  BY ClanAssumption DEF ClanAssumption
<1>2. IsFiniteSet(1..MaxMembers)
  BY <1>1, FS_Interval
<1>3. FreeMembers(m) \in SUBSET (1..MaxMembers)
  BY DEF FreeMembers, Members
<1>4. IsFiniteSet(FreeMembers(m))
  BY <1>2, <1>3, FS_Subset
<1> QED BY <1>4, FS_CardinalityType

\* Those who are invited to a clan that is created, one after another, o being the clan.
InviteTurn(o, m, x) == [clan_append(m, o, x, PEON, TRUE) EXCEPT !.clans[o].modified = TRUE]
InviteInv(o, k, m) ==
  /\ MemInv(m) /\ Grows(mem, m) /\ m.clans[o] # NoClan
  /\ Cardinality(FreeMembers(m)) + k + 1 >= Cardinality(FreeMembers(mem))
InviteFold == INSTANCE FoldInduction WITH Op <- InviteTurn, Inv <- InviteInv

\* One of those invited is added.
LEMMA InviteTurnKeeps ==
  ASSUME NEW o \in Clans, NEW k \in Nat, NEW m, InviteInv(o, k, m), NEW x \in Accounts, MemInv(mem),
         k + 1 < Cardinality(FreeMembers(mem))
  PROVE  InviteInv(o, k + 1, InviteTurn(o, m, x))
<1> DEFINE full == TRUE
           n == Invitee(m, o, x, full)
<1>1. n = InviteTurn(o, m, x) /\ full \in BOOLEAN
  BY DEF Invitee, InviteTurn
<1>2. /\ MemInv(m) /\ Grows(mem, m) /\ m.clans[o] # NoClan
      /\ Cardinality(FreeMembers(m)) + k + 1 >= Cardinality(FreeMembers(mem))
  BY DEF InviteInv
<1>3. /\ IsFiniteSet(FreeMembers(m)) /\ Cardinality(FreeMembers(m)) \in Nat
      /\ Cardinality(FreeMembers(mem)) \in Nat
  BY FreeAreFinite
<1>4. FreeMembers(m) # {}
  <2>1. Cardinality(FreeMembers(m)) # 0
    BY <1>2, <1>3
  <2> QED BY <2>1, FS_EmptySet
<1> HIDE DEF full
<1>5. /\ MemInv(n) /\ Grows(m, n) /\ n.clans[o] # NoClan
      /\ \E j \in FreeMembers(m) : FreeMembers(n) = FreeMembers(m) \ {j}
  BY <1>1, <1>2, <1>4, MemberInvited
<1> HIDE DEF n
<1>6. Grows(mem, n)
  <2>1. \A p \in Clans : mem.clans[p] = NoClan \/ mem.clans[p].tag \in Tags
    BY DEF MemInv, InUse
  <2> QED BY <1>2, <1>5, <2>1, GrowsOn
<1>7. Cardinality(FreeMembers(n)) = Cardinality(FreeMembers(m)) - 1
  <2>1. PICK j \in FreeMembers(m) : FreeMembers(n) = FreeMembers(m) \ {j}
    BY <1>5
  <2>2. Cardinality(FreeMembers(m) \ {j}) = Cardinality(FreeMembers(m)) - 1
    BY <1>3, <2>1, FS_RemoveElement
  <2> QED BY <2>1, <2>2
<1>8. Cardinality(FreeMembers(n)) + (k + 1) + 1 >= Cardinality(FreeMembers(mem))
  <2> DEFINE u == Cardinality(FreeMembers(n))
             v == Cardinality(FreeMembers(m))
             w == Cardinality(FreeMembers(mem))
  <2>1. v \in Nat /\ w \in Nat /\ u = v - 1 /\ v + k + 1 >= w
    BY <1>2, <1>3, <1>7
  <2> HIDE DEF u, v, w
  <2>2. u + (k + 1) + 1 >= w
    BY <2>1
  <2> QED BY <2>2 DEF u, w
<1>9. InviteInv(o, k + 1, n)
  BY <1>5, <1>6, <1>8 DEF InviteInv
<1> QED BY <1>1, <1>9

\* A clan is created with all those who are invited.
LEMMA CreateReqKeeps ==
  ASSUME ClanInv, NEW a \in Accounts, NEW t \in Tags, NEW n \in 0..MaxInvites,
         NEW c \in 0..MaxInvites, NEW invited \in [1..n -> Accounts],
         client_clan_createinvitereq(a, t, invited, c)
  PROVE  ClanInv'
<1> DEFINE l == clan_create(mem, a, t)
           o == Allocated(FreeClans(mem))
           count == -c
           m == Created(l, o, count)
           r == InviteFold!Fold(o, m, invited)
<1>1. MemInv(mem)
  BY DEF ClanInv
<1>2. n \in Nat /\ Len(invited) = n /\ DOMAIN invited = 1..n
  <2>1. n \in Nat
    BY ClanAssumption DEF ClanAssumption
  <2> QED BY <2>1
<1>3. Room(1, 1 + n)
  BY <1>2, ZenonT(60) DEF client_clan_createinvitereq
<1>4. FreeClans(mem) # {} /\ FreeMembers(mem) # {}
  BY <1>2, <1>3, RoomFor
<1>5. /\ MemInv(l) /\ Grows(mem, l) /\ o \in Clans /\ l.clans[o] # NoClan
      /\ \E k \in FreeMembers(mem) : FreeMembers(l) = FreeMembers(mem) \ {k}
  BY <1>1, <1>4, ClanCreated, SMTT(40)
<1>6. InMemory(r)
  BY DEF client_clan_createinvitereq, Created, InviteTurn, FoldLeft, MapThenFoldSet, Max,
         InviteFold!Fold, InviteFold!Greatest
<1> HIDE DEF l, o
<1>7. MemInv(m) /\ Grows(l, m) /\ FreeMembers(m) = FreeMembers(l) /\ m.clans[o] # NoClan
  <2>1. count \in CreatedRange
    BY <1>5, CountRange
  <2> HIDE DEF count
  <2> QED BY <1>5, <2>1, ClanFields
<1> HIDE DEF m
<1>8. Grows(mem, m)
  <2>1. \A p \in Clans : mem.clans[p] = NoClan \/ mem.clans[p].tag \in Tags
    BY <1>1 DEF MemInv, InUse
  <2> QED BY <1>5, <1>7, <2>1, GrowsOn
<1>9. Cardinality(FreeMembers(m)) + 1 = Cardinality(FreeMembers(mem))
      /\ Cardinality(FreeMembers(mem)) >= 1 + n /\ Cardinality(FreeMembers(mem)) \in Nat
  <2>1. PICK k \in FreeMembers(mem) : FreeMembers(m) = FreeMembers(mem) \ {k}
    BY <1>5, <1>7
  <2>2. IsFiniteSet(FreeMembers(mem)) /\ Cardinality(FreeMembers(mem)) \in Nat
    BY FreeAreFinite
  <2>3. Cardinality(FreeMembers(mem) \ {k}) = Cardinality(FreeMembers(mem)) - 1
    BY <2>1, <2>2, FS_RemoveElement
  <2>4. Cardinality(FreeMembers(mem)) >= 1 + n
    BY <1>3 DEF Room
  <2> QED BY <2>1, <2>2, <2>3, <2>4
<1>10. InviteInv(o, 0, m)
  <2>1. Cardinality(FreeMembers(m)) + 0 + 1 >= Cardinality(FreeMembers(mem))
    <3> DEFINE u == Cardinality(FreeMembers(m))
               w == Cardinality(FreeMembers(mem))
    <3>1. u + 1 = w /\ w \in Nat /\ u \in Nat
      BY <1>9, FreeAreFinite
    <3> HIDE DEF u, w
    <3>2. u + 0 + 1 >= w
      BY <3>1
    <3> QED BY <3>2 DEF u, w
  <2> QED BY <1>7, <1>8, <2>1 DEF InviteInv
<1>11. \A z : \A i \in 1..n : InviteInv(o, i - 1, z) => InviteInv(o, i, InviteTurn(o, z, invited[i]))
  <2> SUFFICES ASSUME NEW z, NEW i \in 1..n, InviteInv(o, i - 1, z)
               PROVE  InviteInv(o, i, InviteTurn(o, z, invited[i]))
    OBVIOUS
  <2> DEFINE k == i - 1
             x == invited[i]
  <2>1. k \in Nat /\ k + 1 = i /\ x \in Accounts /\ k + 1 < Cardinality(FreeMembers(mem))
    BY <1>2, <1>9
  <2>2. InviteInv(o, k, z)
    OBVIOUS
  <2> HIDE DEF k, x
  <2>3. InviteInv(o, k + 1, InviteTurn(o, z, x))
    BY <1>1, <1>5, <2>1, <2>2, InviteTurnKeeps
  <2> QED BY <2>1, <2>3 DEF x
<1>12. InviteInv(o, n, r)
  BY <1>2, <1>10, <1>11, InviteFold!FoldLeftInv
<1> HIDE DEF r
<1>13. MemInv(r) /\ Grows(mem, r)
  BY <1>12 DEF InviteInv
<1> QED BY <1>6, <1>13, InMemoryKeeps

\* The places of the list that the loop goes through, and the last clan of a tag among those
\* that are written.
LEMMA LoopEnds ==
  ASSUME NEW m, MemInv(m)
  PROVE  LoopEnd(m) \in 0..Len(m.clanlist) /\ Len(m.clanlist) \in Nat
<1> DEFINE I == {i \in 1..Len(m.clanlist) : Expired(m, m.clanlist[i])}
<1>1. m.clanlist \in Seq(Clans) /\ Len(m.clanlist) \in Nat
  BY MemTypes DEF MemInv
<1>2. I # {} => Min(I) \in I
  <2>1. I \subseteq Nat
    BY <1>1
  <2> QED BY <2>1, MinIn
<1>3. LoopEnd(m) = IF (IF I # {} THEN Min(I) ELSE 0) = 0 THEN Len(m.clanlist)
                   ELSE (IF I # {} THEN Min(I) ELSE 0)
  BY DEF LoopEnd, SelectInSeq
<1>4. I \subseteq 1..Len(m.clanlist)
  OBVIOUS
<1> DEFINE at == Min(I)
<1>5. I # {} => at \in 1..Len(m.clanlist)
  BY <1>2, <1>4
<1>6. LoopEnd(m) = IF I # {} /\ at # 0 THEN at ELSE Len(m.clanlist)
  BY <1>3
<1> HIDE DEF I, at
<1>7. CASE I # {} /\ at # 0
  BY <1>1, <1>5, <1>6, <1>7
<1>8. CASE ~(I # {} /\ at # 0)
  BY <1>1, <1>6, <1>8
<1> QED BY <1>7, <1>8

\* The last clan of a tag that is written is one of that tag; with none, no clan of it is written.
LEMMA LastOfTag ==
  ASSUME NEW m, MemInv(m), NEW is, is \subseteq 1..Len(m.clanlist), NEW t \in Tags
  PROVE  LET o == LastWritten(m, is, t)
         IN  /\ o # NULL => o \in Clans /\ \E i \in is : m.clanlist[i] = o /\ m.clans[o].tag = t
             /\ o = NULL => \A i \in is : m.clans[m.clanlist[i]].tag # t
<1> DEFINE of == {i \in is : m.clans[m.clanlist[i]].tag = t}
           last == CHOOSE i \in of : \A j \in of : j <= i
<1>1. m.clanlist \in Seq(Clans) /\ Len(m.clanlist) \in Nat
  BY MemTypes DEF MemInv
<1>2. LastWritten(m, is, t) = IF of = {} THEN NULL ELSE m.clanlist[last]
  BY DEF LastWritten
<1>3. CASE of = {}
  BY <1>2, <1>3
<1>4. CASE of # {}
  <2> DEFINE n == Len(m.clanlist)
             g == StoreFold!Greatest(of)
  <2>1. n \in Nat /\ of \subseteq 1..n
    BY <1>1
  <2> HIDE DEF n, of
  <2>2. g \in of /\ \A j \in of : g >= j
    BY <1>4, <2>1, StoreFold!MaxIn
  <2> HIDE DEF g
  <2>3. \A j \in of : j <= g
    BY <2>1, <2>2
  <2>4. last \in of
    BY <2>2, <2>3, Zenon
  <2> HIDE DEF last
  <2>5. last \in is /\ last \in 1..Len(m.clanlist) /\ m.clans[m.clanlist[last]].tag = t
    BY <2>4 DEF of
  <2>6. m.clanlist[last] \in Clans
    BY <1>1, <2>5
  <2>7. LastWritten(m, is, t) = m.clanlist[last] /\ m.clanlist[last] # NULL
    BY <1>2, <1>4, <2>6, ClanConstants
  <2> QED BY <2>5, <2>6, <2>7
<1> QED BY <1>3, <1>4

\* What the files have after that.
LEMMA FilesWrittenAre ==
  ASSUME ClanInv, NEW is, is \subseteq 1..Len(mem.clanlist)
  PROVE  /\ FilesWritten(mem, is) \in [Tags -> ClanFile]
         /\ \A t \in Tags :
              /\ OneHead(FilesWritten(mem, is)[t].lines)
              /\ LET o == LastWritten(mem, is, t)
                 IN  FilesWritten(mem, is)[t] = IF o = NULL THEN clanFiles[t] ELSE Stored(mem, o)
<1>1. /\ MemInv(mem) /\ clanFiles \in [Tags -> ClanFile]
      /\ \A t \in Tags : OneHead(clanFiles[t].lines)
  BY DEF ClanInv, FileInv
<1>2. ASSUME NEW t \in Tags, LastWritten(mem, is, t) # NULL
      PROVE  /\ Stored(mem, LastWritten(mem, is, t)) \in ClanFile
             /\ OneHead(Stored(mem, LastWritten(mem, is, t)).lines)
  <2> DEFINE o == LastWritten(mem, is, t)
  <2>1. o \in Clans
    BY <1>1, <1>2, LastOfTag
  <2> HIDE DEF o
  <2>2. Stored(mem, o) \in ClanFile /\ OneHead(Stored(mem, o).lines)
    BY <1>1, <2>1, StoredIs
  <2> QED BY <2>2 DEF o
<1>3. FilesWritten(mem, is) =
        [t \in Tags |-> IF LastWritten(mem, is, t) = NULL THEN clanFiles[t]
                        ELSE Stored(mem, LastWritten(mem, is, t))]
  BY DEF FilesWritten
<1> QED BY <1>1, <1>2, <1>3

\* The clans that are written have no change to be saved any more.
SavedTurn(c, m, i) == SavedClan(m, mem.clanlist[i])
SavedInv(c, k, m) ==
  /\ MemInv(m)
  /\ \A p \in Clans :
       /\ ClanLines(m, p) = ClanLines(mem, p) /\ m.clans[p].tag = mem.clans[p].tag
       /\ ~m.clans[p].modified => ~mem.clans[p].modified \/ \E i \in c : mem.clanlist[i] = p
SavedFold == INSTANCE FoldInduction WITH Op <- SavedTurn, Inv <- SavedInv

\* One more clan has no change to be saved.
LEMMA SavedTurnKeeps ==
  ASSUME NEW c, NEW k, NEW m, SavedInv(c, k, m), NEW i \in c, NEW l,
         mem.clanlist[i] \in Clans, mem.clans[mem.clanlist[i]].tag \in Tags
  PROVE  SavedInv(c, l, SavedTurn(c, m, i))
<1> DEFINE o == mem.clanlist[i]
           n == SavedClan(m, o)
<1>1. MemInv(m) /\ o \in Clans /\ m.clans[o] # NoClan
  BY ClanConstants, ZenonT(60) DEF SavedInv
<1>2. n = SavedTurn(c, m, i)
  BY DEF SavedTurn
<1>3. o = mem.clanlist[i]
  OBVIOUS
<1> HIDE DEF o
<1>4. /\ MemInv(n)
      /\ \A p \in Clans : /\ ClanLines(n, p) = ClanLines(m, p) /\ n.clans[p].tag = m.clans[p].tag
                          /\ n.clans[p].modified <=> p # o /\ m.clans[p].modified
  BY <1>1, ClanFields
<1> HIDE DEF n
<1>5. SavedInv(c, l, n)
  <2>1. ASSUME NEW p \in Clans
        PROVE  /\ ClanLines(n, p) = ClanLines(mem, p) /\ n.clans[p].tag = mem.clans[p].tag
               /\ ~n.clans[p].modified => ~mem.clans[p].modified \/ \E j \in c : mem.clanlist[j] = p
    BY <1>3, <1>4 DEF SavedInv
  <2> QED BY <1>4, <2>1 DEF SavedInv
<1> QED BY <1>2, <1>5

\* The clans whose creation has lasted too long are freed.
GoneTurn(c, m, o) == clan_destroy(clanlist_remove_clan(m, o), o)
GoneInv(c, k, m) ==
  MemInv(m) /\ \A p \in Clans \ c.gone : c.saved.clans[p] # NoClan => Kept(c.saved, m, p)
GoneFold == INSTANCE FoldInduction WITH Op <- GoneTurn, Inv <- GoneInv

\* One more clan leaves the list and is freed.
LEMMA GoneTurnKeeps ==
  ASSUME NEW c, MemInv(c.saved), NEW k, NEW m, GoneInv(c, k, m), NEW o \in Clans, o \in c.gone, NEW l
  PROVE  GoneInv(c, l, GoneTurn(c, m, o))
<1> DEFINE i == clanlist_remove_clan(m, o)
           n == clan_destroy(i, o)
           s == RemoveFirst(m.clanlist, o)
<1>1. MemInv(m) /\ n = GoneTurn(c, m, o)
  BY DEF GoneInv, GoneTurn
<1>2. MemInv(i) /\ Grows(m, i)
  <2>1. m.clanlist \in Seq(Clans)
    BY <1>1, MemTypes DEF MemInv
  <2>2. s \in Seq(Clans)
    BY <2>1, Removed
  <2>3. i = [m EXCEPT !.clanlist = s]
    BY DEF clanlist_remove_clan
  <2> HIDE DEF s, i
  <2> QED BY <1>1, <2>2, <2>3, ListChanged
<1> HIDE DEF i
<1>3. MemInv(n) /\ \A p \in Clans \ {o} : Kept(i, n, p)
  BY <1>2, ClanDestroyed
<1> HIDE DEF n
<1>4. ASSUME NEW p \in Clans \ c.gone, c.saved.clans[p] # NoClan PROVE Kept(c.saved, n, p)
  <2>1. Kept(c.saved, m, p) /\ c.saved.clans[p].tag \in Tags /\ p # o
    BY <1>4 DEF GoneInv, MemInv, InUse
  <2>2. m.clans[p] # NoClan
    BY <2>1, ClanConstants DEF Kept
  <2>3. Kept(m, i, p)
    BY <1>2, <2>2 DEF Grows
  <2>4. Kept(i, n, p)
    BY <1>3, <2>1
  <2> QED BY <2>1, <2>3, <2>4 DEF Kept
<1> QED BY <1>1, <1>3, <1>4 DEF GoneInv

\* The places gone through are finitely many, and so are the clans.
LEMMA ListsOfPlaces ==
  ASSUME NEW m, MemInv(m)
  PROVE  /\ \A is \in SUBSET (1..Len(m.clanlist)) : IsFiniteSet(is)
         /\ \A os \in SUBSET Clans : IsFiniteSet(os)
<1>1. Len(m.clanlist) \in Nat /\ MaxClans \in Nat
  BY LoopEnds, ClanAssumption DEF ClanAssumption
<1>2. IsFiniteSet(1..Len(m.clanlist)) /\ IsFiniteSet(Clans)
  BY <1>1, FS_Interval, SMTT(40) DEF Clans
<1> QED BY <1>2, FS_Subset

\* What the first loop leaves.
LEMMA SavedLoop ==
  ASSUME MemInv(mem), NEW c, c \in SUBSET (1..Len(mem.clanlist)),
         \A i \in c : mem.clans[mem.clanlist[i]].modified
  PROVE  SavedInv(c, 0, SavedFold!Fold(c, mem, SetToSeq(c)))
<1> DEFINE s == SetToSeq(c)
           r == SavedFold!Fold(c, mem, s)
<1>1. mem.clanlist \in Seq(Clans) /\ Len(mem.clanlist) \in Nat
  BY MemTypes DEF MemInv
<1>2. ASSUME NEW i \in c PROVE mem.clanlist[i] \in Clans /\ mem.clans[mem.clanlist[i]].tag \in Tags
  <2>1. mem.clanlist[i] \in Clans
    BY <1>1
  <2>2. mem.clans[mem.clanlist[i]] # NoClan
    BY ClanConstants
  <2> QED BY <2>1, <2>2 DEF MemInv, InUse
<1>3. IsFiniteSet(c)
  BY ListsOfPlaces
<1>4. s \in Seq(c) /\ ToSet(s) = c
  BY <1>3, SetAsList
<1> HIDE DEF s
<1>5. Len(s) \in Nat /\ DOMAIN s = 1..Len(s) /\ \A j \in 1..Len(s) : s[j] \in c
  BY <1>4
<1>6. SavedInv(c, 0, mem)
  BY DEF SavedInv
<1>7. \A z : \A j \in 1..Len(s) : SavedInv(c, j - 1, z) => SavedInv(c, j, SavedTurn(c, z, s[j]))
  <2> SUFFICES ASSUME NEW z, NEW j \in 1..Len(s), SavedInv(c, j - 1, z)
               PROVE  SavedInv(c, j, SavedTurn(c, z, s[j]))
    OBVIOUS
  <2> DEFINE i == s[j]
             k == j - 1
  <2>1. i \in c /\ mem.clanlist[i] \in Clans /\ mem.clans[mem.clanlist[i]].tag \in Tags
    BY <1>2, <1>5
  <2>2. SavedInv(c, k, z)
    OBVIOUS
  <2> HIDE DEF i, k
  <2>3. SavedInv(c, j, SavedTurn(c, z, i))
    BY <2>1, <2>2, SavedTurnKeeps
  <2> QED BY <2>3 DEF i
<1>8. SavedInv(c, Len(s), r)
  BY <1>5, <1>6, <1>7, SavedFold!FoldLeftInv
<1> QED BY <1>8 DEF SavedInv, s

\* What the second one leaves.
LEMMA GoneLoop ==
  ASSUME NEW c, MemInv(c.saved), c.gone \subseteq Clans
  PROVE  GoneInv(c, 0, GoneFold!Fold(c, c.saved, SetToSeq(c.gone)))
<1> DEFINE s == SetToSeq(c.gone)
           g == c.gone
           r == GoneFold!Fold(c, c.saved, s)
<1>1. IsFiniteSet(g)
  BY ListsOfPlaces
<1>2. s \in Seq(g) /\ ToSet(s) = g
  BY <1>1, SetAsList
<1> HIDE DEF s
<1>3. Len(s) \in Nat /\ DOMAIN s = 1..Len(s) /\ \A j \in 1..Len(s) : s[j] \in g
  BY <1>2
<1>4. GoneInv(c, 0, c.saved)
  BY DEF GoneInv, Kept
<1>5. \A z : \A j \in 1..Len(s) : GoneInv(c, j - 1, z) => GoneInv(c, j, GoneTurn(c, z, s[j]))
  <2> SUFFICES ASSUME NEW z, NEW j \in 1..Len(s), GoneInv(c, j - 1, z)
               PROVE  GoneInv(c, j, GoneTurn(c, z, s[j]))
    OBVIOUS
  <2> DEFINE o == s[j]
             k == j - 1
  <2>1. o \in Clans /\ o \in c.gone
    BY <1>3
  <2>2. GoneInv(c, k, z)
    OBVIOUS
  <2> HIDE DEF o, k
  <2>3. GoneInv(c, j, GoneTurn(c, z, o))
    BY <2>1, <2>2, GoneTurnKeeps
  <2> QED BY <2>3 DEF o
<1>6. GoneInv(c, Len(s), r)
  BY <1>3, <1>4, <1>5, GoneFold!FoldLeftInv
<1> QED BY <1>6 DEF GoneInv, s

\* clanlist_save: each clan reached is as its file then, or the file is nobody's.
LEMMA ListSaveKeeps ==
  ASSUME ClanInv, NEW unwritten, clanlist_save(unwritten)
  PROVE  ClanInv'
<1> DEFINE end == LoopEnd(mem)
           reached == Written(mem, end)
           written == reached \ unwritten
           gone == {mem.clanlist[i] : i \in {j \in 1..end : Expired(mem, mem.clanlist[j])}}
           saved == SavedFold!Fold(reached, mem, SetToSeq(reached))
           c == [saved |-> saved, gone |-> gone]
           n == GoneFold!Fold(c, saved, SetToSeq(gone))
           last(t) == LastWritten(mem, written, t)
<1>1. /\ MemInv(mem) /\ FileInv(mem, clanFiles, writer) /\ clanMishaps \in 0..MaxClanMishaps
      /\ mem.clanlist \in Seq(Clans)
  BY MemTypes DEF ClanInv, MemInv
<1>2. end \in 0..Len(mem.clanlist) /\ Len(mem.clanlist) \in Nat
  BY <1>1, LoopEnds
<1>3. /\ clanFiles' = FilesWritten(mem, written)
      /\ writer' = [t \in Tags |->
           IF \E i \in unwritten : mem.clans[mem.clanlist[i]].tag = t THEN NULL
           ELSE IF last(t) # NULL THEN last(t) ELSE IF writer[t] \in gone THEN NULL ELSE writer[t]]
      /\ clanMishaps' = clanMishaps + (IF unwritten = {} THEN 0 ELSE 1)
      /\ clanMishaps' <= MaxClanMishaps
  BY ZenonT(60) DEF clanlist_save
<1>4. mem' = n
  BY DEF clanlist_save, SavedTurn, GoneTurn, FoldLeft, MapThenFoldSet, Max,
         SavedFold!Fold, SavedFold!Greatest,
         GoneFold!Fold, GoneFold!Greatest
<1> HIDE DEF end, n, saved
<1>5. /\ reached \in SUBSET (1..Len(mem.clanlist)) /\ written \subseteq reached
      /\ \A i \in reached : /\ mem.clans[mem.clanlist[i]].modified
                            /\ mem.clans[mem.clanlist[i]].created > 0
  BY <1>2 DEF Written
<1>6. gone \subseteq Clans /\ \A o \in gone : mem.clans[o].created <= 0
  <2>1. ASSUME NEW i \in 1..end PROVE mem.clanlist[i] \in Clans
    BY <1>1, <1>2
  <2> QED BY <2>1 DEF Expired
<1>7. SavedInv(reached, 0, saved)
  <2> HIDE DEF reached
  <2> QED BY <1>1, <1>5, SavedLoop DEF saved
<1>8. c.saved = saved /\ c.gone = gone
  OBVIOUS
<1> HIDE DEF c
<1>9. GoneInv(c, 0, n)
  <2>1. MemInv(c.saved) /\ c.gone \subseteq Clans
    BY <1>6, <1>7, <1>8 DEF SavedInv
  <2>2. GoneInv(c, 0, GoneFold!Fold(c, c.saved, SetToSeq(c.gone)))
    BY <2>1, GoneLoop
  <2>3. n = GoneFold!Fold(c, c.saved, SetToSeq(c.gone))
    BY <1>8 DEF n
  <2> QED BY <2>2, <2>3
<1>10. /\ FilesWritten(mem, written) \in [Tags -> ClanFile]
       /\ \A t \in Tags :
            /\ OneHead(FilesWritten(mem, written)[t].lines)
            /\ FilesWritten(mem, written)[t] = IF last(t) = NULL THEN clanFiles[t]
                                               ELSE Stored(mem, last(t))
  <2>1. written \subseteq 1..Len(mem.clanlist)
    BY <1>5
  <2> HIDE DEF written
  <2> QED BY <2>1, FilesWrittenAre
<1>11. \A t \in Tags :
         /\ last(t) # NULL => /\ last(t) \in Clans
                              /\ \E i \in written : mem.clanlist[i] = last(t) /\ mem.clans[last(t)].tag = t
         /\ last(t) = NULL => \A i \in written : mem.clans[mem.clanlist[i]].tag # t
  <2>1. written \subseteq 1..Len(mem.clanlist)
    BY <1>5
  <2> HIDE DEF written
  <2> QED BY <1>1, <2>1, LastOfTag
<1> HIDE DEF last, gone
<1>12. writer' \in [Tags -> Clans \cup {NULL}]
  BY <1>1, <1>3, <1>11 DEF FileInv
<1>13. \A p \in Clans \ gone : saved.clans[p] # NoClan => Kept(saved, n, p)
  BY <1>8, <1>9 DEF GoneInv
<1>14. \A p \in Clans :
         /\ ClanLines(saved, p) = ClanLines(mem, p) /\ saved.clans[p].tag = mem.clans[p].tag
         /\ ~saved.clans[p].modified =>
              ~mem.clans[p].modified \/ \E i \in reached : mem.clanlist[i] = p
  BY <1>7 DEF SavedInv
<1>15. ASSUME NEW t \in Tags, writer'[t] # NULL PROVE Current(n, clanFiles', t, writer'[t])
  <2>1. \A i \in unwritten : mem.clans[mem.clanlist[i]].tag # t
    BY <1>3, <1>15
  <2>2. CASE last(t) # NULL
    <3> DEFINE o == last(t)
    <3>1. writer'[t] = o /\ o \in Clans /\ clanFiles'[t] = Stored(mem, o)
      BY <1>3, <1>10, <1>11, <2>1, <2>2
    <3>2. mem.clans[o].tag = t /\ o \notin gone
      <4>1. PICK i \in written : mem.clanlist[i] = o /\ mem.clans[o].tag = t
        BY <1>11, <2>2
      <4>2. mem.clans[o].created > 0 /\ mem.clans[o].created \in CreatedRange
        BY <1>1, <1>5, <3>1, <4>1, CountRange
      <4>3. \A x \in CreatedRange : x > 0 => ~(x <= 0)
        BY ClanAssumption DEF ClanAssumption, CreatedRange
      <4> QED BY <1>6, <4>1, <4>2, <4>3
    <3> HIDE DEF o
    <3>3. saved.clans[o].tag = t /\ ClanLines(saved, o) = ClanLines(mem, o)
      BY <1>14, <3>1, <3>2
    <3>4. Kept(saved, n, o)
      BY <1>13, <3>1, <3>2, <3>3, ClanConstants
    <3>5. ToSet(Stored(mem, o).lines) = ClanLines(mem, o)
      BY <1>1, <3>1, StoredIs
    <3> QED BY <3>1, <3>3, <3>4, <3>5 DEF Current, Kept
  <2>3. CASE last(t) = NULL
    <3> DEFINE o == writer[t]
    <3>1. writer'[t] = o /\ o \notin gone /\ clanFiles'[t] = clanFiles[t]
      BY <1>3, <1>10, <1>15, <2>1, <2>3
    <3>2. o \in Clans /\ Current(mem, clanFiles, t, o)
      BY <1>1, <1>15, <3>1 DEF FileInv
    <3> HIDE DEF o
    <3>3. mem.clans[o].tag = t /\ saved.clans[o].tag = t /\ ClanLines(saved, o) = ClanLines(mem, o)
      BY <1>14, <3>2 DEF Current
    <3>4. Kept(saved, n, o)
      BY <1>13, <3>1, <3>2, <3>3, ClanConstants
    <3>5. ~saved.clans[o].modified => ~mem.clans[o].modified
      <4> SUFFICES ASSUME NEW i \in reached, mem.clanlist[i] = o PROVE FALSE
        BY <1>14, <3>2
      <4>1. mem.clans[mem.clanlist[i]].tag = t
        BY <3>3
      <4>2. i \in written
        BY <2>1, <4>1
      <4> QED BY <1>11, <2>3, <4>1, <4>2
    <3> QED BY <3>1, <3>2, <3>3, <3>4, <3>5 DEF Current, Kept
  <2> QED BY <2>2, <2>3
<1>16. clanMishaps' \in 0..MaxClanMishaps
  BY <1>1, <1>3, ClanAssumption DEF ClanAssumption
<1>17. FileInv(n, clanFiles', writer')
  BY <1>3, <1>10, <1>12, <1>15 DEF FileInv
<1> QED BY <1>4, <1>9, <1>16, <1>17 DEF ClanInv, GoneInv

\* A clan is read from its file, line by line.
LineClan(c) == Allocated(FreeClans(c.m))
LineTurn(c, n, l) == clan_append(n, LineClan(c), l[1], l[2], TRUE)
LineInv(c, k, n) ==
  /\ MemInv(n) /\ Grows(c.m, n)
  /\ FreeClans(n) = FreeClans(c.m) \ {LineClan(c)}
  /\ n.clans[LineClan(c)].tag = c.t /\ ~n.clans[LineClan(c)].modified
  /\ \A i \in 1..k : c.disk[c.t].lines[i] \in ClanLines(n, LineClan(c))
  /\ \A j \in Members : n.members[j].clan = LineClan(c) =>
                          \E i \in 1..k : c.disk[c.t].lines[i] = Entry(n, j)
  /\ Cardinality(FreeMembers(n)) + k >= Cardinality(FreeMembers(c.m))
LineFold == INSTANCE FoldInduction WITH Op <- LineTurn, Inv <- LineInv

\* What can be read into the memory as it is.
Readable(c) ==
  /\ MemInv(c.m) /\ c.t \in Tags /\ c.disk[c.t].lines \in Seq(LineSet)
  /\ OneHead(c.disk[c.t].lines) /\ FreeClans(c.m) # {}
  /\ Len(c.disk[c.t].lines) <= Cardinality(FreeMembers(c.m))

\* The clan is a free one.
LEMMA LineClanFree ==
  ASSUME NEW c, Readable(c)
  PROVE  LineClan(c) \in FreeClans(c.m) /\ LineClan(c) \in Clans
<1>1. FreeClans(c.m) \subseteq Clans /\ FreeClans(c.m) \subseteq Nat /\ FreeClans(c.m) # {}
  BY ClanConstants DEF FreeClans, Readable
<1>2. LineClan(c) \in FreeClans(c.m)
  BY <1>1, AllocatedFree DEF LineClan
<1> QED BY <1>1, <1>2

\* A member is added to those of the lines before.
LEMMA LineTurnKeeps ==
  ASSUME NEW c, Readable(c), NEW k \in Nat, k + 1 \in 1..Len(c.disk[c.t].lines),
         NEW n, LineInv(c, k, n)
  PROVE  LineInv(c, k + 1, LineTurn(c, n, c.disk[c.t].lines[k + 1]))
<1> DEFINE o == LineClan(c)
           ls == c.disk[c.t].lines
           i == k + 1
           a == ls[i][1]
           status == ls[i][2]
           full == TRUE
           q == clan_append(n, o, a, status, full)
           j == Allocated(FreeMembers(n))
           r == [acc |-> a, status |-> status, full |-> full, clan |-> o]
<1>1. /\ MemInv(n) /\ Grows(c.m, n) /\ n \in ClanMem
      /\ FreeClans(n) = FreeClans(c.m) \ {o} /\ n.clans[o].tag = c.t /\ ~n.clans[o].modified
      /\ \A x \in 1..k : ls[x] \in ClanLines(n, o)
      /\ \A y \in Members : n.members[y].clan = o => \E x \in 1..k : ls[x] = Entry(n, y)
      /\ Cardinality(FreeMembers(n)) + k >= Cardinality(FreeMembers(c.m))
  BY DEF LineInv, MemInv
<1>2. o \in Clans /\ o \in FreeClans(c.m)
  BY LineClanFree
<1>3. q = LineTurn(c, n, ls[i]) /\ full \in BOOLEAN /\ full = TRUE
  BY DEF LineTurn
<1>4. /\ ls \in Seq(LineSet) /\ OneHead(ls) /\ c.t \in Tags /\ MemInv(c.m)
      /\ Len(ls) \in Nat /\ DOMAIN ls = 1..Len(ls) /\ i \in 1..Len(ls)
      /\ Len(ls) <= Cardinality(FreeMembers(c.m))
  BY SMTT(40) DEF Readable
<1>5. ls[i] \in LineSet /\ a \in Accounts /\ status \in PEON..CHIEFTAIN /\ ls[i] = <<a, status>>
  BY <1>4, SMTT(40) DEF LineSet
<1>6. \A x \in 1..k : x \in DOMAIN ls /\ x # i
  BY <1>4
<1>7. \A x \in 1..i : x \in 1..k \/ x = i
  OBVIOUS
<1>8. 1..k \subseteq 1..i /\ i \in 1..i
  OBVIOUS
<1>9. IsFiniteSet(FreeMembers(n)) /\ Cardinality(FreeMembers(n)) \in Nat
      /\ Cardinality(FreeMembers(c.m)) \in Nat
  BY FreeAreFinite
<1>10. FreeMembers(n) # {}
  <2>1. Cardinality(FreeMembers(n)) # 0
    <3> DEFINE u == Cardinality(FreeMembers(n))
               w == Cardinality(FreeMembers(c.m))
               len == Len(ls)
    <3>1. u + k >= w /\ u \in Nat /\ w \in Nat /\ len \in Nat /\ k + 1 <= len /\ len <= w
      BY <1>1, <1>4, <1>9
    <3> HIDE DEF u, w, len
    <3>2. u # 0
      BY <3>1
    <3> QED BY <3>2 DEF u
  <2> QED BY <1>9, <2>1, FS_EmptySet
<1> HIDE DEF o, full, ls, i
<1>11. n.clans[o] # NoClan
  BY <1>1, <1>4, ClanConstants
<1>12. status = CHIEFTAIN =>
         \A y \in Members : n.members[y].status = CHIEFTAIN => n.members[y].clan # o
  <2> SUFFICES ASSUME status = CHIEFTAIN, NEW y \in Members, n.members[y].status = CHIEFTAIN,
                      n.members[y].clan = o
               PROVE  FALSE
    OBVIOUS
  <2>1. PICK x \in 1..k : ls[x] = Entry(n, y)
    BY <1>1
  <2>2. ls[x][2] = CHIEFTAIN
    BY <2>1 DEF Entry
  <2>3. x \in DOMAIN ls /\ i \in DOMAIN ls /\ x # i
    BY <1>4, <1>6
  <2> QED BY <1>4, <2>2, <2>3 DEF OneHead
<1> HIDE DEF a, status
<1>13. /\ MemInv(q) /\ Grows(n, q)
       /\ j \in FreeMembers(n) /\ FreeMembers(q) = FreeMembers(n) \ {j}
       /\ Appending(n, q, o, a, j, r)
  BY <1>1, <1>2, <1>3, <1>5, <1>10, <1>11, <1>12, MemberAdded
<1> HIDE DEF q, j
<1>14. /\ n.clans \in [Clans -> ClanRec] /\ n.members \in [Members -> MemberRec]
       /\ j \in Members /\ n.members[j] = NoMember
  BY <1>1, <1>13, MemTypes DEF FreeMembers
<1>15. /\ q.clans = [n.clans EXCEPT ![o] = [n.clans[o] EXCEPT !.members = Append(n.clans[o].members, j)]]
       /\ q.members = [n.members EXCEPT ![j] = r]
  BY <1>13 DEF Appending
<1>16. /\ \A p \in Clans \ {o} : q.clans[p] = n.clans[p]
       /\ q.clans[o].tag = n.clans[o].tag /\ q.clans[o].modified = n.clans[o].modified
       /\ \A y \in Members : q.members[y] = IF y = j THEN r ELSE n.members[y]
  <2> DEFINE z == [n.clans[o] EXCEPT !.members = Append(n.clans[o].members, j)]
  <2>1. n.clans[o] \in ClanRec
    BY <1>2, <1>14
  <2>2. z.tag = n.clans[o].tag /\ z.modified = n.clans[o].modified
    BY <2>1 DEF ClanRec
  <2>3. q.clans = [n.clans EXCEPT ![o] = z]
    BY <1>15
  <2> HIDE DEF z, r
  <2>4. q.clans[o] = z /\ \A p \in Clans \ {o} : q.clans[p] = n.clans[p]
    BY <1>2, <1>14, <2>3
  <2>5. \A y \in Members : q.members[y] = IF y = j THEN r ELSE n.members[y]
    BY <1>14, <1>15
  <2> QED BY <2>2, <2>4, <2>5
<1>17. r.acc = a /\ r.status = status /\ r.full = full /\ r.clan = o
  OBVIOUS
<1> HIDE DEF r
<1>18. FreeClans(q) = FreeClans(n)
  <2>1. q.clans[o] # NoClan
    BY <1>1, <1>4, <1>16, ClanConstants
  <2> QED BY <1>11, <1>16, <2>1 DEF FreeClans
<1>19. Grows(c.m, q)
  <2>1. \A p \in Clans : c.m.clans[p] = NoClan \/ c.m.clans[p].tag \in Tags
    BY <1>4 DEF MemInv, InUse
  <2> QED BY <1>1, <1>13, <2>1, GrowsOn
<1>20. Entry(q, j) = ls[i] /\ Entry(q, j) \in ClanLines(q, o)
  <2>1. q.members[j] = r
    BY <1>14, <1>16
  <2>2. Entry(q, j) = ls[i]
    BY <1>5, <1>17, <2>1 DEF Entry
  <2>3. j \in ToSet(q.clans[o].members)
    BY <1>2, <1>13, <1>14, <1>17, <2>1 DEF MemInv, Linked
  <2>4. q.members[j].full
    BY <1>3, <1>17, <2>1
  <2> QED BY <2>2, <2>3, <2>4 DEF ClanLines
<1>21. \A x \in 1..i : ls[x] \in ClanLines(q, o)
  <2>1. ClanLines(n, o) \subseteq ClanLines(q, o)
    BY <1>1, <1>2, <1>11, <1>13, <1>16 DEF Grows, Kept
  <2> QED BY <1>1, <1>7, <1>20, <2>1
<1>22. \A y \in Members : q.members[y].clan = o => \E x \in 1..i : ls[x] = Entry(q, y)
  <2> SUFFICES ASSUME NEW y \in Members, q.members[y].clan = o
               PROVE  \E x \in 1..i : ls[x] = Entry(q, y)
    OBVIOUS
  <2>1. CASE y = j
    BY <1>8, <1>20, <2>1
  <2>2. CASE y # j
    <3>1. q.members[y] = n.members[y]
      BY <1>16, <2>2
    <3>2. PICK x \in 1..k : ls[x] = Entry(n, y)
      BY <1>1, <3>1
    <3> QED BY <1>8, <3>1, <3>2 DEF Entry
  <2> QED BY <2>1, <2>2
<1>23. Cardinality(FreeMembers(q)) + i >= Cardinality(FreeMembers(c.m))
  <2>1. Cardinality(FreeMembers(q)) = Cardinality(FreeMembers(n)) - 1
    BY <1>9, <1>13, FS_RemoveElement
  <2> DEFINE u == Cardinality(FreeMembers(q))
             v == Cardinality(FreeMembers(n))
             w == Cardinality(FreeMembers(c.m))
  <2>2. u = v - 1 /\ v \in Nat /\ w \in Nat /\ v + k >= w /\ i = k + 1
    BY <1>1, <1>9, <2>1 DEF i
  <2> HIDE DEF u, v, w
  <2>3. u + i >= w
    BY <2>2, SMTT(40)
  <2> QED BY <2>3 DEF u, w
<1>24. LineInv(c, i, q)
  BY <1>1, <1>13, <1>16, <1>18, <1>19, <1>21, <1>22, <1>23 DEF LineInv, o, ls
<1> QED BY <1>3, <1>24 DEF i, ls

\* The clan that file_load_clans makes of one file.
LEMMA ClanRead ==
  ASSUME NEW c, Readable(c)
  PROVE  LineInv(c, Len(c.disk[c.t].lines), LoadedClan(c.disk, c.m, c.t))
<1> DEFINE o == LineClan(c)
           new == [NoClan EXCEPT !.tag = c.t, !.created = 1]
           m == Placed(c.m, o, new)
           ls == c.disk[c.t].lines
           r == LineFold!Fold(c, m, ls)
<1>1. r = LoadedClan(c.disk, c.m, c.t)
  BY DEF LoadedClan, Placed, LineClan, LineTurn, FoldLeft, MapThenFoldSet, Max,
         LineFold!Fold, LineFold!Greatest
<1>2. /\ MemInv(c.m) /\ c.t \in Tags /\ ls \in Seq(LineSet)
      /\ Len(ls) \in Nat /\ DOMAIN ls = 1..Len(ls)
  BY DEF Readable
<1>3. new \in ClanRec /\ new.members = <<>> /\ new.tag = c.t /\ ~new.modified
  <2>1. NoClan \in ClanRec /\ NoClan.members = <<>> /\ ~NoClan.modified /\ 1 \in CreatedRange
    BY ClanConstants, ClanAssumption DEF ClanAssumption, CreatedRange
  <2> QED BY <1>2, <2>1 DEF ClanRec, CreatedRange
<1>4. NewClan(new)
  BY <1>2, <1>3 DEF NewClan
<1>5. o \in FreeClans(c.m)
  BY LineClanFree
<1> HIDE DEF new, r
<1>6. /\ MemInv(m) /\ Grows(c.m, m)
      /\ FreeMembers(m) = FreeMembers(c.m) /\ FreeClans(m) = FreeClans(c.m) \ {o}
      /\ m.clans[o] = new /\ \A k \in Members : m.members[k].clan # o
  BY <1>2, <1>4, <1>5, ClanPlaced
<1> HIDE DEF m
<1>7. LineInv(c, 0, m)
  <2>1. Cardinality(FreeMembers(m)) + 0 >= Cardinality(FreeMembers(c.m))
    <3> DEFINE u == Cardinality(FreeMembers(m))
               w == Cardinality(FreeMembers(c.m))
    <3>1. u = w /\ w \in Nat
      BY <1>6, FreeAreFinite
    <3> HIDE DEF u, w
    <3>2. u + 0 >= w
      BY <3>1
    <3> QED BY <3>2 DEF u, w
  <2>2. m.clans[o].tag = c.t /\ ~m.clans[o].modified
    BY <1>3, <1>6
  <2>3. 1..0 = {}
    OBVIOUS
  <2> QED BY <1>6, <2>1, <2>2, <2>3 DEF LineInv, o
<1> HIDE DEF o
<1>8. \A z : \A j \in 1..Len(ls) : LineInv(c, j - 1, z) => LineInv(c, j, LineTurn(c, z, ls[j]))
  <2> SUFFICES ASSUME NEW z, NEW j \in 1..Len(ls), LineInv(c, j - 1, z)
               PROVE  LineInv(c, j, LineTurn(c, z, ls[j]))
    OBVIOUS
  <2> DEFINE k == j - 1
  <2>1. k \in Nat /\ k + 1 = j /\ k + 1 \in 1..Len(c.disk[c.t].lines)
    BY <1>2
  <2>2. LineInv(c, k, z)
    OBVIOUS
  <2> HIDE DEF k
  <2>3. LineInv(c, k + 1, LineTurn(c, z, c.disk[c.t].lines[k + 1]))
    BY <2>1, <2>2, LineTurnKeeps
  <2> QED BY <2>1, <2>3
<1>9. LineInv(c, Len(ls), r)
  <2> HIDE DEF ls
  <2>1. Len(ls) \in Nat
    BY <1>2
  <2> QED BY <1>2, <1>7, <1>8, <2>1, LineFold!FoldLeftInv DEF r
<1> QED BY <1>1, <1>9

\* For any memory and files.
LEMMA ClanLoaded ==
  ASSUME NEW disk, NEW m, NEW t \in Tags, MemInv(m), disk[t].lines \in Seq(LineSet),
         OneHead(disk[t].lines), FreeClans(m) # {},
         Len(disk[t].lines) <= Cardinality(FreeMembers(m))
  PROVE  LET n == LoadedClan(disk, m, t)
             o == Allocated(FreeClans(m))
         IN  /\ MemInv(n) /\ Grows(m, n)
             /\ o \in FreeClans(m) /\ FreeClans(n) = FreeClans(m) \ {o} /\ Current(n, disk, t, o)
             /\ Cardinality(FreeMembers(n)) + Len(disk[t].lines) >= Cardinality(FreeMembers(m))
<1> DEFINE c == [disk |-> disk, m |-> m, t |-> t]
           n == LoadedClan(disk, m, t)
           o == Allocated(FreeClans(m))
           ls == disk[t].lines
<1>1. c.disk = disk /\ c.m = m /\ c.t = t
  OBVIOUS
<1> HIDE DEF c
<1>2. Readable(c)
  BY <1>1 DEF Readable
<1>3. LineInv(c, Len(ls), n) /\ LineClan(c) = o
  BY <1>1, <1>2, ClanRead DEF LineClan
<1>4. o \in FreeClans(m)
  BY <1>1, <1>2, <1>3, LineClanFree
<1> HIDE DEF n, o
<1>5. ToSet(ls) \subseteq ClanLines(n, o)
  BY <1>1, <1>3, Elements DEF LineInv
<1> QED BY <1>1, <1>3, <1>4, <1>5 DEF LineInv, Current, n, o

\* The lines of all the files: each is one of a tag and a place.
LinesOf(disk, t) == {t} \X DOMAIN disk[t].lines
LinesLeft(c, k) ==
  {l \in UNION {LinesOf(c.disk, t) : t \in Tags} : \A i \in 1..k : l[1] # c.tags[i]}

\* There are finitely many, as many for a tag as its file has.
LEMMA LinesAreFinite ==
  ASSUME NEW disk \in [Tags -> ClanFile]
  PROVE  /\ IsFiniteSet(UNION {LinesOf(disk, t) : t \in Tags})
         /\ \A t \in Tags : /\ IsFiniteSet(LinesOf(disk, t))
                            /\ Cardinality(LinesOf(disk, t)) = Len(disk[t].lines)
                            /\ Len(disk[t].lines) \in Nat
<1>1. ASSUME NEW t \in Tags
      PROVE  /\ IsFiniteSet(LinesOf(disk, t))
             /\ Cardinality(LinesOf(disk, t)) = Len(disk[t].lines)
             /\ Len(disk[t].lines) \in Nat
  <2> DEFINE n == Len(disk[t].lines)
             ts == {t}
  <2>1. n \in Nat /\ DOMAIN disk[t].lines = 1..n
    BY DEF ClanFile
  <2> HIDE DEF n
  <2>2. IsFiniteSet(1..n) /\ Cardinality(1..n) = n
    BY <2>1, IntervalSize
  <2>3. IsFiniteSet(ts) /\ Cardinality(ts) = 1
    <3>1. IsFiniteSet({} \cup {t}) /\ Cardinality({} \cup {t}) = 0 + 1
      BY FS_EmptySet, FS_AddElement
    <3>2. ts = {} \cup {t}
      OBVIOUS
    <3> QED BY <3>1, <3>2
  <2> HIDE DEF ts
  <2>4. IsFiniteSet(ts \X (1..n)) /\ Cardinality(ts \X (1..n)) = Cardinality(ts) * Cardinality(1..n)
    BY <2>2, <2>3, FS_Product
  <2>5. LinesOf(disk, t) = ts \X (1..n)
    BY <2>1 DEF LinesOf, ts
  <2>6. Cardinality(ts) * Cardinality(1..n) = n
    BY <2>1, <2>2, <2>3
  <2> QED BY <2>1, <2>4, <2>5, <2>6 DEF n
<1>2. IsFiniteSet({LinesOf(disk, t) : t \in Tags})
  <2> DEFINE f == [t \in Tags |-> LinesOf(disk, t)]
             T == {LinesOf(disk, t) : t \in Tags}
  <2>1. f \in Surjection(Tags, T)
    BY DEF Surjection
  <2> HIDE DEF f, T
  <2>2. IsFiniteSet(T)
    BY <2>1, ClanConstants, FS_Surjection
  <2> QED BY <2>2 DEF T
<1>3. IsFiniteSet(UNION {LinesOf(disk, t) : t \in Tags})
  BY <1>1, <1>2, FS_UNION, SMTT(40)
<1> QED BY <1>1, <1>3

\* The clans are loaded, one after another.
LoadTurn(c, m, t) == LoadedClan(c.disk, m, t)
LoadInv(c, k, m) ==
  /\ MemInv(m)
  /\ FreeClans(m) = {o \in Clans : o > k}
  /\ \A i \in 1..k : i \in Clans /\ Current(m, c.disk, c.tags[i], i)
  /\ Cardinality(FreeMembers(m)) >= Cardinality(LinesLeft(c, k))
LoadFold == INSTANCE FoldInduction WITH Op <- LoadTurn, Inv <- LoadInv

\* The files that fit in the memory.
Loadable(c) ==
  /\ c.disk \in [Tags -> ClanFile] /\ \A t \in Tags : OneHead(c.disk[t].lines)
  /\ c.tags \in Seq(Tags) /\ IsInjective(c.tags) /\ Len(c.tags) <= MaxClans
  /\ Cardinality(UNION {LinesOf(c.disk, t) : t \in Tags}) <= MaxMembers

\* The lines of a file leave those that are left.
LEMMA LinesTaken ==
  ASSUME NEW c, Loadable(c), NEW k \in Nat, k + 1 \in 1..Len(c.tags)
  PROVE  /\ Cardinality(LinesLeft(c, k)) =
              Cardinality(LinesLeft(c, k + 1)) + Len(c.disk[c.tags[k + 1]].lines)
         /\ Cardinality(LinesLeft(c, k)) \in Nat /\ Cardinality(LinesLeft(c, k + 1)) \in Nat
         /\ Len(c.disk[c.tags[k + 1]].lines) \in Nat
<1> DEFINE i == k + 1
           t == c.tags[i]
           all == UNION {LinesOf(c.disk, u) : u \in Tags}
           A == LinesLeft(c, i)
           B == LinesOf(c.disk, t)
           C == LinesLeft(c, k)
<1>1. /\ c.disk \in [Tags -> ClanFile] /\ c.tags \in Seq(Tags) /\ IsInjective(c.tags)
      /\ DOMAIN c.tags = 1..Len(c.tags) /\ Len(c.tags) \in Nat /\ t \in Tags
  BY DEF Loadable
<1>2. IsFiniteSet(all) /\ IsFiniteSet(B) /\ Cardinality(B) = Len(c.disk[t].lines)
      /\ Len(c.disk[t].lines) \in Nat
  BY <1>1, LinesAreFinite
<1>3. A \in SUBSET all /\ C \in SUBSET all
  BY DEF LinesLeft
<1>4. IsFiniteSet(A) /\ IsFiniteSet(C)
  <2> HIDE DEF all, A, C
  <2> QED BY <1>2, <1>3, FS_Subset
<1>5. \A l \in B : l[1] = t /\ l \in all
  BY <1>1 DEF LinesOf
<1>6. \A u \in Tags : \A l \in LinesOf(c.disk, u) : l[1] = u
  BY DEF LinesOf
<1>7. \A j \in 1..k : c.tags[j] # t
  BY <1>1 DEF IsInjective
<1>8. \A j \in 1..i : j \in 1..k \/ j = i
  OBVIOUS
<1>9. i \in 1..i /\ 1..k \subseteq 1..i
  OBVIOUS
<1>10. C = A \cup B /\ A \cap B = {}
  <2>1. ASSUME NEW l \in C PROVE l \in A \cup B
    <3>1. PICK u \in Tags : l \in LinesOf(c.disk, u)
      BY DEF LinesLeft
    <3>2. CASE u = t
      BY <3>1, <3>2
    <3>3. CASE u # t
      BY <1>6, <1>8, <3>1, <3>3 DEF LinesLeft
    <3> QED BY <3>2, <3>3
  <2>2. ASSUME NEW l \in A PROVE l \in C /\ l \notin B
    BY <1>5, <1>9 DEF LinesLeft
  <2>3. ASSUME NEW l \in B PROVE l \in C
    BY <1>5, <1>7 DEF LinesLeft
  <2> HIDE DEF A, B, C
  <2> QED BY <2>1, <2>2, <2>3
<1> HIDE DEF A, B, C
<1>11. Cardinality(A \cup B) = Cardinality(A) + Cardinality(B) - Cardinality(A \cap B)
  BY <1>2, <1>4, FS_Union
<1>12. Cardinality(A) \in Nat /\ Cardinality(C) \in Nat
  BY <1>4, FS_CardinalityType
<1>13. Cardinality(A \cap B) = 0
  BY <1>10, FS_EmptySet
<1> DEFINE x == Cardinality(A)
           y == Cardinality(B)
           z == Cardinality(C)
<1>14. z = x + y - 0 /\ x \in Nat /\ y \in Nat
  BY <1>2, <1>10, <1>11, <1>12, <1>13
<1> HIDE DEF x, y, z
<1>15. z = x + y
  BY <1>14
<1> QED BY <1>2, <1>12, <1>15 DEF x, y, z, A, B, C

\* Another clan is loaded, in the next record.
LEMMA LoadTurnKeeps ==
  ASSUME NEW c, Loadable(c), NEW k \in Nat, k + 1 \in 1..Len(c.tags), NEW m, LoadInv(c, k, m)
  PROVE  LoadInv(c, k + 1, LoadTurn(c, m, c.tags[k + 1]))
<1> DEFINE i == k + 1
           disk == c.disk
           t == c.tags[i]
           n == LoadedClan(disk, m, t)
           o == Allocated(FreeClans(m))
           len == Len(disk[t].lines)
           x == Cardinality(FreeMembers(m))
           y == Cardinality(FreeMembers(n))
           left == Cardinality(LinesLeft(c, k))
           rest == Cardinality(LinesLeft(c, i))
<1>1. /\ MemInv(m) /\ FreeClans(m) = {p \in Clans : p > k}
      /\ \A j \in 1..k : j \in Clans /\ Current(m, disk, c.tags[j], j)
      /\ x >= left
  BY DEF LoadInv
<1>2. n = LoadTurn(c, m, t)
  BY DEF LoadTurn
<1>3. left = rest + len /\ left \in Nat /\ rest \in Nat /\ len \in Nat
  BY LinesTaken
<1>4. x \in Nat /\ y \in Nat
  BY FreeAreFinite
<1>5. /\ t \in Tags /\ disk[t] \in ClanFile /\ OneHead(disk[t].lines)
      /\ c.tags \in Seq(Tags) /\ Len(c.tags) \in Nat /\ Len(c.tags) <= MaxClans /\ i \in 1..Len(c.tags)
  BY DEF Loadable
<1>6. disk[t].lines \in Seq(LineSet)
  BY <1>5 DEF ClanFile
<1>7. i \in FreeClans(m) /\ i \in Clans
  BY <1>1, <1>5, ClanAssumption DEF Clans, ClanAssumption
<1>8. Len(disk[t].lines) <= Cardinality(FreeMembers(m))
  <2>1. len <= x
    <3> HIDE DEF len, x, left, rest
    <3> QED BY <1>1, <1>3, <1>4
  <2> QED BY <2>1
<1>9. FreeClans(m) # {}
  BY <1>7
<1> HIDE DEF disk, t, i
<1>10. /\ MemInv(n) /\ Grows(m, n)
       /\ o \in FreeClans(m) /\ FreeClans(n) = FreeClans(m) \ {o} /\ Current(n, disk, t, o)
       /\ y + len >= x
  BY <1>1, <1>5, <1>6, <1>8, <1>9, ClanLoaded
<1>11. o = i
  <2>1. FreeClans(m) \subseteq Nat
    BY ClanConstants DEF FreeClans
  <2>2. o <= i /\ o > k /\ o \in Nat /\ i \in Nat
    BY <1>1, <1>7, <1>10, <2>1, AllocatedFree
  <2> HIDE DEF o
  <2> QED BY <2>2 DEF i
<1> HIDE DEF n, o
<1>12. FreeClans(n) = {p \in Clans : p > i}
  <2>1. \A p \in Clans : p > k /\ p # i <=> p > i
    BY DEF Clans, i
  <2> QED BY <1>1, <1>10, <1>11, <2>1
<1>13. ASSUME NEW j \in 1..i PROVE j \in Clans /\ Current(n, disk, c.tags[j], j)
  <2>1. CASE j = i
    BY <1>7, <1>10, <1>11, <2>1 DEF t
  <2>2. CASE j # i
    <3> DEFINE u == c.tags[j]
    <3>1. j \in 1..k /\ u \in Tags
      BY <1>5, <2>2 DEF i
    <3>2. j \in Clans /\ Current(m, disk, u, j)
      BY <1>1, <3>1
    <3> HIDE DEF u
    <3>3. m.clans[j] # NoClan
      BY <3>1, <3>2, ClanConstants DEF Current
    <3>4. Kept(m, n, j)
      BY <1>10, <3>2, <3>3 DEF Grows
    <3>5. Current(n, disk, u, j)
      BY <3>2, <3>4, StillFresh
    <3> QED BY <3>2, <3>5 DEF u
  <2> QED BY <2>1, <2>2
<1>14. Cardinality(FreeMembers(n)) >= Cardinality(LinesLeft(c, i))
  <2>1. y >= rest
    <3> HIDE DEF len, x, y, left, rest
    <3> QED BY <1>1, <1>3, <1>4, <1>10
  <2> QED BY <2>1
<1>15. LoadInv(c, i, n)
  <2> HIDE DEF x, y, left, rest, len
  <2> QED BY <1>10, <1>12, <1>13, <1>14 DEF LoadInv, disk
<1> QED BY <1>2, <1>15 DEF i, t

\* Nothing is in the memory.
LEMMA EmptyIs ==
  /\ MemInv(Empty) /\ FreeClans(Empty) = Clans /\ FreeMembers(Empty) = Members
  /\ Cardinality(FreeMembers(Empty)) = MaxMembers
<1>1. /\ Empty.clans = [o \in Clans |-> NoClan] /\ Empty.members = [k \in Members |-> NoMember]
      /\ Empty.clanlist = <<>> /\ Empty.clanmember = [a \in Accounts |-> NULL]
  BY DEF Empty
<1>2. Empty \in ClanMem
  <2>1. <<>> \in Seq(Clans)
    OBVIOUS
  <2> QED BY <2>1, ClanConstants DEF Empty, ClanMem
<1>3. \A o \in Clans : Empty.clans[o] = NoClan /\ Empty.clans[o].members = <<>>
  BY <1>1, ClanConstants
<1>4. \A k \in Members : /\ Empty.members[k] = NoMember /\ Empty.members[k].clan = NULL
                         /\ Empty.members[k].status = 0
  BY <1>1, ClanConstants
<1> HIDE DEF Empty
<1>5. Linked(Empty)
  <2>1. \A o \in Clans : IsInjective(Empty.clans[o].members) /\ ToSet(Empty.clans[o].members) = {}
    BY <1>3, EmptyList
  <2> QED BY <1>4, <2>1, ClanConstants DEF Linked
<1>6. InUse(Empty) /\ Pointed(Empty) /\ Headed(Empty)
  BY <1>1, <1>3, <1>4 DEF InUse, Pointed, Headed, CHIEFTAIN
<1>7. FreeClans(Empty) = Clans /\ FreeMembers(Empty) = Members
  BY <1>3, <1>4 DEF FreeClans, FreeMembers
<1>8. Cardinality(Members) = MaxMembers
  <2>1. MaxMembers \in Nat
    BY ClanAssumption DEF ClanAssumption
  <2>2. Cardinality(1..MaxMembers) = MaxMembers
    BY <2>1, IntervalSize
  <2> QED BY <2>2 DEF Members
<1> QED BY <1>2, <1>5, <1>6, <1>7, <1>8 DEF MemInv

\* What clanlist_load makes of the files.
LEMMA ListRead ==
  ASSUME NEW c, Loadable(c)
  PROVE  LoadInv(c, Len(c.tags), clanlist_load(c.disk, c.tags))
<1> DEFINE s == c.tags
           r == LoadFold!Fold(c, Empty, s)
<1>1. r = clanlist_load(c.disk, c.tags)
  BY DEF clanlist_load, LoadTurn, FoldLeft, MapThenFoldSet, Max,
         LoadFold!Fold, LoadFold!Greatest
<1> HIDE DEF r
<1>2. s \in Seq(Tags) /\ Len(s) \in Nat /\ DOMAIN s = 1..Len(s)
  BY DEF Loadable
<1>3. LoadInv(c, 0, Empty)
  <2> DEFINE all == UNION {LinesOf(c.disk, t) : t \in Tags}
             left == LinesLeft(c, 0)
  <2>1. IsFiniteSet(all) /\ Cardinality(all) <= MaxMembers
    BY LinesAreFinite DEF Loadable
  <2>2. left \in SUBSET all
    BY DEF LinesLeft
  <2> HIDE DEF all, left
  <2>3. /\ Cardinality(left) <= Cardinality(all) /\ IsFiniteSet(left)
        /\ Cardinality(all) \in Nat /\ Cardinality(left) \in Nat
    BY <2>1, <2>2, FS_Subset, FS_CardinalityType
  <2>4. Cardinality(FreeMembers(Empty)) >= Cardinality(left)
    <3> DEFINE x == Cardinality(FreeMembers(Empty))
               y == Cardinality(left)
               z == Cardinality(all)
    <3>1. x = MaxMembers /\ MaxMembers \in Nat /\ y <= z /\ z <= MaxMembers /\ y \in Nat /\ z \in Nat
      BY <2>1, <2>3, EmptyIs, ClanAssumption DEF ClanAssumption
    <3> HIDE DEF x, y, z
    <3>2. x >= y
      BY <3>1
    <3> QED BY <3>2 DEF x, y
  <2>5. FreeClans(Empty) = {o \in Clans : o > 0}
    BY EmptyIs DEF Clans
  <2>6. 1..0 = {}
    OBVIOUS
  <2> QED BY <2>4, <2>5, <2>6, EmptyIs DEF LoadInv, left
<1>4. \A z : \A j \in 1..Len(s) : LoadInv(c, j - 1, z) => LoadInv(c, j, LoadTurn(c, z, s[j]))
  <2> SUFFICES ASSUME NEW z, NEW j \in 1..Len(s), LoadInv(c, j - 1, z)
               PROVE  LoadInv(c, j, LoadTurn(c, z, s[j]))
    OBVIOUS
  <2> DEFINE k == j - 1
  <2>1. k \in Nat /\ k + 1 = j /\ k + 1 \in 1..Len(c.tags)
    BY <1>2
  <2>2. LoadInv(c, k, z)
    OBVIOUS
  <2> HIDE DEF k
  <2>3. LoadInv(c, k + 1, LoadTurn(c, z, c.tags[k + 1]))
    BY <2>1, <2>2, LoadTurnKeeps
  <2> QED BY <2>1, <2>3
<1>5. LoadInv(c, Len(s), r)
  <2> HIDE DEF s
  <2>1. Len(s) \in Nat
    BY <1>2
  <2> QED BY <1>2, <1>3, <1>4, <2>1, LoadFold!FoldLeftInv DEF r
<1> QED BY <1>1, <1>5

\* The clans that are loaded, for any files.
LEMMA FilesLoaded ==
  ASSUME NEW disk \in [Tags -> ClanFile], \A t \in Tags : OneHead(disk[t].lines), Fit(disk),
         NEW tags \in SetToSeqs({t \in Tags : disk[t].exists})
  PROVE  LET m == clanlist_load(disk, tags)
             at == [t \in Tags |-> SelectInSeq(tags, LAMBDA u : u = t)]
         IN  MemInv(m) /\ FileInv(m, disk, at)
<1> DEFINE S == {t \in Tags : disk[t].exists}
           c == [disk |-> disk, tags |-> tags]
           m == clanlist_load(disk, tags)
           at == [t \in Tags |-> SelectInSeq(tags, LAMBDA u : u = t)]
           len == Len(tags)
<1>1. c.disk = disk /\ c.tags = tags
  OBVIOUS
<1> HIDE DEF c
<1>2. IsFiniteSet(S) /\ Cardinality(S) \in Nat
  <2>1. S \in SUBSET Tags
    OBVIOUS
  <2> HIDE DEF S
  <2> QED BY <2>1, ClanConstants, FS_Subset, FS_CardinalityType
<1>3. /\ tags \in [1..Cardinality(S) -> S] /\ IsInjective(tags)
      /\ tags \in Seq(Tags) /\ len = Cardinality(S) /\ len <= MaxClans
  <2> DEFINE k == Cardinality(S)
  <2>0. S \subseteq Tags /\ k \in Nat
    BY <1>2
  <2>4. Cardinality(S) = k
    OBVIOUS
  <2> HIDE DEF S, k
  <2>1. tags \in [1..k -> S] /\ IsInjective(tags)
    BY <2>4 DEF S, SetToSeqs, IsInjective
  <2>2. tags \in Seq(Tags) /\ len = k
    BY <2>0, <2>1
  <2>3. Cardinality(S) <= MaxClans
    BY DEF Fit, S
  <2> QED BY <2>1, <2>2, <2>3, <2>4
<1>4. Loadable(c)
  <2>1. Cardinality(UNION {LinesOf(disk, t) : t \in Tags}) <= MaxMembers
    BY DEF Fit, LinesOf
  <2> QED BY <1>1, <1>3, <2>1 DEF Loadable
<1>5. LoadInv(c, len, m)
  BY <1>1, <1>4, ListRead
<1> HIDE DEF m, len
<1>6. MemInv(m) /\ \A i \in 1..len : i \in Clans /\ Current(m, disk, tags[i], i)
  BY <1>1, <1>5 DEF LoadInv
<1>7. ASSUME NEW t \in Tags
      PROVE  at[t] = 0 \/ (at[t] \in 1..len /\ tags[at[t]] = t)
  <2> DEFINE I == {i \in 1..Len(tags) : tags[i] = t}
  <2>1. at[t] = IF I = {} THEN 0 ELSE Min(I)
    BY DEF SelectInSeq
  <2>2. I # {} => Min(I) \in I
    <3>1. I \subseteq Nat
      OBVIOUS
    <3> QED BY <3>1, MinIn
  <2>3. \A i \in I : i \in 1..len /\ tags[i] = t
    BY DEF len
  <2> HIDE DEF I
  <2> QED BY <2>1, <2>2, <2>3
<1>8. \A t \in Tags : at[t] # NULL => at[t] \in 1..len /\ tags[at[t]] = t
  BY <1>7 DEF NULL
<1>9. at \in [Tags -> Clans \cup {NULL}]
  <2>1. \A t \in Tags : at[t] \in Clans \cup {NULL}
    BY <1>6, <1>7 DEF NULL
  <2> QED BY <2>1
<1>10. ASSUME NEW t \in Tags, at[t] # NULL PROVE Current(m, disk, t, at[t])
  BY <1>6, <1>10, <1>8
<1> HIDE DEF at
<1>11. FileInv(m, disk, at)
  BY <1>9, <1>10 DEF FileInv
<1> QED BY <1>6, <1>11 DEF m, at

\* bnetd is started again.
LEMMA RestartKeeps ==
  ASSUME ClanInv, NEW n \in 0..Len(mem.clanlist), NEW torn, Restart(n, torn)
  PROVE  ClanInv'
<1> DEFINE cut == IF torn THEN {mem.clans[mem.clanlist[n + 1]].tag} ELSE {}
           is == Written(mem, n)
           disk == [t \in Tags |-> IF t \in cut THEN NoFile ELSE FilesWritten(mem, is)[t]]
<1>1. MemInv(mem) /\ clanMishaps \in 0..MaxClanMishaps /\ Len(mem.clanlist) \in Nat
  BY LoopEnds, SMTT(40) DEF ClanInv
<1>2. PICK tags \in SetToSeqs({t \in Tags : disk[t].exists}) :
        /\ mem' = clanlist_load(disk, tags)
        /\ writer' = [t \in Tags |-> SelectInSeq(tags, LAMBDA u : u = t)]
  BY ZenonT(60) DEF Restart
<1>3. Fit(disk) /\ clanFiles' = disk
      /\ clanMishaps' = clanMishaps + 1 /\ clanMishaps' <= MaxClanMishaps
  BY ZenonT(60) DEF Restart
<1>4. is \subseteq 1..Len(mem.clanlist)
  <2>1. 1..n \subseteq 1..Len(mem.clanlist)
    BY <1>1, SMTT(40)
  <2>2. is \subseteq 1..n
    BY ZenonT(60) DEF Written
  <2> QED BY <2>1, <2>2, SMTT(40)
<1> HIDE DEF is, cut
<1>5. /\ FilesWritten(mem, is) \in [Tags -> ClanFile]
      /\ \A t \in Tags : OneHead(FilesWritten(mem, is)[t].lines)
  BY <1>4, FilesWrittenAre
<1>6. NoFile \in ClanFile /\ OneHead(NoFile.lines)
  BY DEF NoFile, ClanFile, OneHead
<1>7. disk \in [Tags -> ClanFile] /\ \A t \in Tags : OneHead(disk[t].lines)
  BY <1>5, <1>6
<1> HIDE DEF disk
<1>8. MemInv(mem') /\ FileInv(mem', disk, writer')
  BY <1>2, <1>3, <1>7, FilesLoaded
<1>9. clanMishaps' \in 0..MaxClanMishaps
  BY <1>1, <1>3, ClanAssumption DEF ClanAssumption
<1> QED BY <1>3, <1>8, <1>9 DEF ClanInv

\* Nothing is in the memory and in the files at first.
LEMMA ClanInvInit ==
  ClanInit => ClanInv
<1> SUFFICES ASSUME ClanInit PROVE ClanInv
  OBVIOUS
<1>1. /\ mem = Empty /\ clanFiles = [t \in Tags |-> NoFile] /\ writer = [t \in Tags |-> NULL]
      /\ clanMishaps = 0
  BY DEF ClanInit
<1>2. NoFile \in ClanFile /\ OneHead(NoFile.lines)
  BY DEF NoFile, ClanFile, OneHead
<1>3. FileInv(mem, clanFiles, writer)
  BY <1>1, <1>2 DEF FileInv
<1>4. clanMishaps \in 0..MaxClanMishaps
  BY <1>1, ClanAssumption DEF ClanAssumption
<1> QED BY <1>1, <1>3, <1>4, EmptyIs DEF ClanInv

\* Every operation keeps the invariant.
LEMMA ClanInvStep ==
  ClanInv /\ [ClanNext]_clanVars => ClanInv'
<1> SUFFICES ASSUME ClanInv, [ClanNext]_clanVars PROVE ClanInv'
  OBVIOUS
<1>1. CASE UNCHANGED clanVars
  BY <1>1 DEF clanVars, ClanInv
<1>2. ASSUME NEW a \in Accounts, NEW t \in Tags, NEW fail \in Fails, clan_command_create(a, t, fail)
      PROVE  ClanInv'
  BY <1>2, CreateKeeps
<1>3. ASSUME NEW a \in Accounts, NEW t \in Tags, NEW n \in 0..MaxInvites, NEW c \in 0..MaxInvites,
             NEW invited \in [1..n -> Accounts], client_clan_createinvitereq(a, t, invited, c)
      PROVE  ClanInv'
  BY <1>3, CreateReqKeeps
<1>4. ASSUME NEW a \in Accounts, NEW fail \in Fails, NEW accept \in BOOLEAN,
             client_clan_createinvitereply(a, accept, fail)
      PROVE  ClanInv'
  BY <1>4, CreateReplyKeeps
<1>5. ASSUME NEW a \in Accounts, NEW fail \in Fails, clan_command_accept(a, fail)
      PROVE  ClanInv'
  BY <1>5, AcceptKeeps
<1>6. ASSUME NEW a \in Accounts, NEW x \in Accounts, NEW status \in PEON..CHIEFTAIN,
             client_clanmember_rankupdatereq(a, x, status)
      PROVE  ClanInv'
  BY <1>6, RankKeeps
<1>7. ASSUME NEW a \in Accounts, NEW x \in Accounts, client_clanmember_removereq(a, x)
      PROVE  ClanInv'
  BY <1>7, RemoveKeeps
<1>8. ASSUME NEW a \in Accounts, NEW x \in Accounts, client_clan_membernewchiefreq(a, x)
      PROVE  ClanInv'
  BY <1>8, NewChiefKeeps
<1>9. ASSUME NEW a \in Accounts, NEW x \in Accounts,
             client_clan_invitereq(a, x) \/ clan_command_invite(a, x)
      PROVE  ClanInv'
  BY <1>9, InviteReqKeeps
<1>10. ASSUME NEW a \in Accounts, NEW x \in Accounts, NEW accept \in BOOLEAN,
              client_clan_invitereply(a, x, accept)
       PROVE  ClanInv'
  BY <1>10, InviteReplyKeeps
<1>11. ASSUME NEW a \in Accounts, client_clan_disbandreq(a) PROVE ClanInv'
  BY <1>11, DisbandReqKeeps
<1>12. ASSUME NEW a \in Accounts, clan_command_disband(a) PROVE ClanInv'
  BY <1>12, DisbandKeeps
<1>13. ASSUME NEW a \in Accounts, clan_command_decline(a) PROVE ClanInv'
  BY <1>13, DeclineKeeps
<1>14. ASSUME NEW unwritten, clanlist_save(unwritten) PROVE ClanInv'
  BY <1>14, ListSaveKeeps
<1>15. ASSUME NEW o \in Clans, ClanAges(o) PROVE ClanInv'
  BY <1>15, AgesKeeps
<1>16. ASSUME NEW n \in 0..Len(mem.clanlist), NEW torn, Restart(n, torn) PROVE ClanInv'
  BY <1>16, RestartKeeps
<1> QED BY <1>1, <1>2, <1>3, <1>4, <1>5, <1>6, <1>7, <1>8, <1>9, <1>10, <1>11, <1>12, <1>13, <1>14,
           <1>15, <1>16, Zenon DEF ClanNext

\* At all times the lists of the clans and the pointers of the accounts agree with the members,
\* and the file of a clan with what the clan has, for any accounts, tags and sizes of the memory.
THEOREM ClanInvHolds == ClanSpec => []ClanInv
BY ClanInvInit, ClanInvStep, PTL DEF ClanSpec

\* The records, lists and files have the fields that the code gives them.
LEMMA ClanInvTypes ==
  ClanInv => ClanTypeOK
<1> SUFFICES ASSUME ClanInv PROVE ClanTypeOK
  OBVIOUS
<1>1. /\ mem \in ClanMem /\ clanFiles \in [Tags -> ClanFile] /\ writer \in [Tags -> Clans \cup {NULL}]
      /\ clanMishaps \in 0..MaxClanMishaps
  BY DEF ClanInv, MemInv, FileInv
<1>2. /\ mem.clans \in [Clans -> ClanRec] /\ mem.members \in [Members -> MemberRec]
      /\ mem.clanlist \in Seq(Clans) /\ mem.clanmember \in [Accounts -> Members \cup {NULL}]
  BY <1>1, MemTypes
<1>3. ToSet(mem.clanlist) \subseteq Clans
  BY <1>2, Elements
<1>4. ASSUME NEW t \in Tags PROVE ToSet(clanFiles[t].lines) \subseteq Accounts \X (PEON..CHIEFTAIN)
  <2>1. clanFiles[t].lines \in Seq(LineSet)
    BY <1>1 DEF ClanFile
  <2> QED BY <2>1, Elements DEF LineSet
<1> QED BY <1>1, <1>2, <1>3, <1>4 DEF ClanTypeOK, ClanRec, MemberRec

\* Type correctness of the clans.
THEOREM ClanTypeCorrect == ClanSpec => []ClanTypeOK
BY ClanInvHolds, ClanInvTypes, PTL, ZenonT(60)

\* An account points to a member of its own, whose clan has it.
LEMMA ClanInvPointers ==
  ClanInv => PointersAreLive
<1> SUFFICES ASSUME ClanInv, NEW a \in Accounts, mem.clanmember[a] # NULL
             PROVE  LET k == mem.clanmember[a]
                    IN  /\ mem.members[k].acc = a
                        /\ mem.members[k].clan # NULL
                        /\ k \in ToSet(mem.clans[mem.members[k].clan].members)
  BY DEF PointersAreLive
<1> DEFINE k == mem.clanmember[a]
<1>1. MemInv(mem)
  BY DEF ClanInv
<1>2. k \in Members /\ mem.members[k].acc = a
  <2>1. mem.clanmember \in [Accounts -> Members \cup {NULL}]
    BY <1>1, MemTypes DEF MemInv
  <2> QED BY <1>1, <2>1 DEF MemInv, Pointed
<1> HIDE DEF k
<1>3. mem.members[k].clan \in Clans
  BY <1>1, <1>2, ClanConstants DEF MemInv, InUse
<1>4. k \in ToSet(mem.clans[mem.members[k].clan].members)
  BY <1>1, <1>2, <1>3 DEF MemInv, Linked
<1> QED BY <1>2, <1>3, <1>4, ClanConstants, SMTT(40) DEF k

\* No request of a client and no /clan command leaves an account with a pointer to a member that is
\* freed, is another's, or is in the list of no clan.
THEOREM ClanPointersLive == ClanSpec => []PointersAreLive
BY ClanInvHolds, ClanInvPointers, PTL

\* One chieftain in the memory and one in each file.
LEMMA ClanInvChieftain ==
  ClanInv => OneChieftain
<1> SUFFICES ASSUME ClanInv PROVE OneChieftain
  OBVIOUS
<1>1. Headed(mem)
  BY DEF ClanInv, MemInv
<1>2. \A t \in Tags : OneHead(clanFiles[t].lines)
  BY DEF ClanInv, FileInv
<1> QED BY <1>1, <1>2 DEF OneChieftain, Headed, OneHead

\* A clan has one chieftain at most, in the memory and in its file.
THEOREM ClansOneChieftain == ClanSpec => []OneChieftain
BY ClanInvHolds, ClanInvChieftain, PTL

\* The file of a clan that has no change to be saved has no line but those it would have now.
LEMMA ClanInvFiles ==
  ClanInv => FileIsNotStale
<1> SUFFICES ASSUME ClanInv, NEW t \in Tags, writer[t] # NULL, ~mem.clans[writer[t]].modified
             PROVE  ToSet(clanFiles[t].lines) \subseteq ToSet(Stored(mem, writer[t]).lines)
  BY DEF FileIsNotStale
<1> DEFINE o == writer[t]
<1>1. MemInv(mem) /\ o \in Clans /\ Current(mem, clanFiles, t, o)
  BY DEF ClanInv, FileInv
<1> HIDE DEF o
<1>2. ToSet(Stored(mem, o).lines) = ClanLines(mem, o)
  BY <1>1, StoredIs
<1>3. ~mem.clans[o].modified
  BY DEF o
<1>4. ToSet(clanFiles[t].lines) \subseteq ToSet(Stored(mem, o).lines)
  BY <1>1, <1>2, <1>3 DEF Current
<1> QED BY <1>4 DEF o

\* Once its changes are saved, the file of a clan has no member who has left it and no rank that a
\* member has no more.
THEOREM ClanFilesNotStale == ClanSpec => []FileIsNotStale
BY ClanInvHolds, ClanInvFiles, PTL

-----------------------------------------------------------------------------
(* Channels. *)

\* The invariant, of a state of the channels: the channels have the types of a
\* t_channel and a name that is not empty, ...
ChannelRec == [name : Names, short : Names, tag : STRING, country : STRING, oper : BOOLEAN,
               max : Int, auto : BOOLEAN, perm : BOOLEAN, curr : Nat,
               members : Seq(Users), bans : SUBSET Users]
ChannelsInv(C) ==
  /\ C \in [DOMAIN C -> ChannelRec] /\ DOMAIN C \subseteq Nat \ {Null} /\ IsFiniteSet(DOMAIN C)
  /\ \A p \in DOMAIN C : C[p].name # NoName /\ C[p].short # NoName

\* ... each is in the list, once, ...
ListInv(C, l) == l \in Seq(Nat) /\ IsInjective(l) /\ ToSet(l) = DOMAIN C

\* ... its members are, once each, those whose channel it is, and are counted, ...
MembersInv(ch, p, in) ==
  /\ ch.curr = Len(ch.members) /\ IsInjective(ch.members)
  /\ \A u \in Users : u \in ToSet(ch.members) <=> in[u] = p
PlacesInv(C, in) ==
  /\ in \in [Users -> Nat] /\ \A u \in Users : in[u] \in DOMAIN C \cup {Null}
  /\ \A p \in DOMAIN C : MembersInv(C[p], p, in)

\* ... a temporary channel has members, but for those of X, ...
Peopled(C, X) == \A p \in DOMAIN C \ X : ~C[p].perm => C[p].members # <<>>

\* ... and the temporary operator right is a member's or an officer's.
RightOf(C, u, p, name) ==
  name # NoName => \/ p # Null /\ C[p].name = name
                   \/ name = ClanOf[u] /\ u \in Officers
RightsInv(C, in, t) == t \in [Users -> Names] /\ \A u \in Users : RightOf(C, u, in[u], t[u])

IsState(s) == s \in [chans : {s.chans}, list : {s.list}, chat : {s.chat}, tmpOP : {s.tmpOP}]

\* X are the channels that nobody has entered yet or that the last member has left.
StateInv(s, X) ==
  /\ IsState(s) /\ ChannelsInv(s.chans) /\ ListInv(s.chans, s.list)
  /\ PlacesInv(s.chans, s.chat) /\ Peopled(s.chans, X) /\ RightsInv(s.chans, s.chat, s.tmpOP)
\* The assumptions on the constants that the proofs use.
LEMMA Constants ==
  /\ Null = 0 /\ MaxUsers \in Int /\ Conf \in Seq(Lines)
  /\ \A i \in 1..Len(Conf) : Conf[i].short # ""
  /\ Country \in [Users -> STRING] /\ ClanOf \in [Users -> ClanNames \cup {NoName}]
  /\ Requests \subseteq Names /\ ClanNames \subseteq Names /\ Void \in Names
  /\ NoName \notin Requests /\ NoName \notin ClanNames /\ NoName # Void
  /\ NoCountry \in STRING /\ NoTag \in STRING /\ Limits \subseteq Nat \ {0}
BY ChannelListAssumption, ChannelAssumption, ZenonT(60) DEF ChannelListAssumption, ChannelAssumption, Null

\* Names: what the parts make, and that none of it is empty.
LEMMA NamesMade ==
  /\ NoName \in Names
  /\ \A a, b \in STRING : \A n \in Nat : /\ channel_format_name(a, b, n) \in Names
                                         /\ n # 0 => channel_format_name(a, b, n) # NoName
  /\ \A a \in STRING : Plain(a) \in Names /\ (a # "" => Plain(a) # NoName)
  /\ \A n \in Names : n[1] \in STRING
<1>1. \A a, b : \A n : n # 0 => channel_format_name(a, b, n) # NoName
  BY ZenonT(60) DEF Plain, channel_format_name, NoName, NoCountry
<1>2. \A a : a # "" => Plain(a) # NoName
  BY ZenonT(60) DEF Plain, NoName, NoCountry
<1>3. \A n \in Names : n[1] \in STRING
  BY DEF Names
<1>4. \A a, b \in STRING : \A n \in Nat : channel_format_name(a, b, n) \in Names
  BY DEF Names, channel_format_name
<1>5. \A a \in STRING : Plain(a) \in Names
  BY Constants, ZenonT(60) DEF Names, Plain
<1>6. NoName \in Names
  BY <1>5, Constants, ZenonT(60) DEF NoName, NoCountry
<1> QED BY <1>1, <1>2, <1>3, <1>4, <1>5, <1>6, ZenonT(60)

\* The fields of a channel, and of one that is changed.
LEMMA ChannelFields ==
  ASSUME NEW ch \in ChannelRec
  PROVE  /\ ch.name \in Names /\ ch.short \in Names /\ ch.tag \in STRING /\ ch.country \in STRING
         /\ ch.oper \in BOOLEAN /\ ch.max \in Int /\ ch.auto \in BOOLEAN /\ ch.perm \in BOOLEAN
         /\ ch.curr \in Nat /\ ch.members \in Seq(Users) /\ ch.bans \subseteq Users
BY DEF ChannelRec

\* A channel without one of its members: one less, and else the same.
LEMMA WithoutIs ==
  ASSUME NEW ch \in ChannelRec, NEW u, ch.curr # 0
  PROVE  /\ Without(ch, u) \in ChannelRec
         /\ Without(ch, u).members = RemoveFirst(ch.members, u)
         /\ Without(ch, u).curr = ch.curr - 1
         /\ Without(ch, u).name = ch.name /\ Without(ch, u).short = ch.short
         /\ Without(ch, u).perm = ch.perm /\ Without(ch, u).max = ch.max
         /\ Without(ch, u).bans = ch.bans
<1> DEFINE m == RemoveFirst(ch.members, u)
<1>1. m \in Seq(Users) /\ ch.curr - 1 \in Nat
  BY ChannelFields, Removed
<1> HIDE DEF m
<1> DEFINE c == [ch EXCEPT !.members = m]
<1>2. c \in ChannelRec /\ c.members = m /\ c.curr = ch.curr
      /\ c.name = ch.name /\ c.short = ch.short /\ c.perm = ch.perm
      /\ c.max = ch.max /\ c.bans = ch.bans
  BY <1>1 DEF ChannelRec
<1>3. Without(ch, u) = [c EXCEPT !.curr = @ - 1]
  BY DEF Without, ChannelRec, m
<1> HIDE DEF c
<1> QED BY <1>1, <1>2, <1>3, ZenonT(60) DEF ChannelRec, m

\* A channel with one who enters: he is the first of its members, and it counts one more.
LEMMA WithIs ==
  ASSUME NEW ch \in ChannelRec, NEW u \in Users
  PROVE  /\ With(ch, u) \in ChannelRec
         /\ With(ch, u).members = <<u>> \o ch.members
         /\ With(ch, u).curr = ch.curr + 1
         /\ With(ch, u).name = ch.name /\ With(ch, u).short = ch.short
         /\ With(ch, u).perm = ch.perm /\ With(ch, u).max = ch.max
         /\ With(ch, u).bans = ch.bans
<1> DEFINE m == <<u>> \o ch.members
<1>1. m \in Seq(Users) /\ ch.curr + 1 \in Nat
  BY ChannelFields, PutInFront
<1> HIDE DEF m
<1> DEFINE c == [ch EXCEPT !.members = m]
<1>2. c \in ChannelRec /\ c.members = m /\ c.curr = ch.curr
      /\ c.name = ch.name /\ c.short = ch.short /\ c.perm = ch.perm
      /\ c.max = ch.max /\ c.bans = ch.bans
  BY <1>1 DEF ChannelRec
<1>3. With(ch, u) = [c EXCEPT !.curr = @ + 1]
  BY DEF With, ChannelRec, m
<1> HIDE DEF c
<1> QED BY <1>1, <1>2, <1>3, ZenonT(60) DEF ChannelRec, m

\* A new channel has what channel_create is given, and no members.
LEMMA NewChannelIs ==
  ASSUME NEW name \in Names, NEW short \in Names, NEW tag \in STRING, NEW country \in STRING,
         NEW op \in BOOLEAN, NEW max \in Int, NEW auto \in BOOLEAN, NEW perm \in BOOLEAN
  PROVE  LET ch == NewChannel(name, short, tag, country, op, max, auto, perm)
         IN  /\ ch \in ChannelRec /\ ch.name = name /\ ch.short = short /\ ch.perm = perm
             /\ ch.members = <<>> /\ ch.curr = 0
BY DEF NewChannel, ChannelRec

\* There is a free address.
LEMMA FreshIs ==
  ASSUME NEW s, ChannelsInv(s.chans)
  PROVE  Fresh(s) \in Nat \ {Null} /\ Fresh(s) \notin DOMAIN s.chans
<1> DEFINE D == DOMAIN s.chans
           n == Cardinality(D)
           T == {p \in 1..n + 1 : p \notin D}
<1>1. IsFiniteSet(D) /\ n \in Nat /\ D \subseteq Nat
  BY FS_CardinalityType DEF ChannelsInv
<1>2. T # {}
  <2> SUFFICES ASSUME 1..n + 1 \subseteq D PROVE FALSE
    OBVIOUS
  <2>1. Cardinality(1..n + 1) <= n
    BY <1>1, FS_Subset
  <2>2. Cardinality(1..n + 1) = n + 1
    <3> HIDE DEF n
    <3>1. n + 1 \in Nat
      BY <1>1
    <3> QED BY <3>1, IntervalSize
  <2> HIDE DEF n, D
  <2> QED BY <1>1, <2>1, <2>2
<1>3. PICK p \in T : \A q \in T : p <= q
  <2>1. T \subseteq Nat
    BY <1>1
  <2> HIDE DEF T
  <2> QED BY <1>2, <2>1, NatMin
<1>4. \A q \in 1..p - 1 : q \in D
  <2> SUFFICES ASSUME NEW q \in 1..p - 1, q \notin D PROVE FALSE
    OBVIOUS
  <2> HIDE DEF n, D
  <2>1. p \in 1..n + 1
    OBVIOUS
  <2>2. q \in 1..n + 1 /\ ~(p <= q)
    BY <1>1, <2>1
  <2> QED BY <1>3, <2>2
<1>5. p \in 1..n + 1 /\ p \notin D
  OBVIOUS
<1>6. Fresh(s) \in 1..n + 1 /\ Fresh(s) \notin D
  <2>1. \E r \in 1..Cardinality(DOMAIN s.chans) + 1 :
              /\ r \notin DOMAIN s.chans
              /\ \A q \in 1..r - 1 : q \in DOMAIN s.chans
    BY <1>4, <1>5, Zenon
  <2> QED BY <2>1, Zenon DEF Fresh
<1>7. \A k \in 1..n + 1 : k \in Nat \ {0}
  <2> HIDE DEF n
  <2> QED BY <1>1
<1> QED BY <1>6, <1>7, Constants, ZenonT(60)

\* What a list holds are addresses of channels.
LEMMA Listing ==
  ASSUME NEW C, NEW l, ListInv(C, l)
  PROVE  /\ Len(l) \in Nat /\ DOMAIN l = 1..Len(l)
         /\ \A i \in 1..Len(l) : l[i] \in DOMAIN C
         /\ \A p \in DOMAIN C : \E i \in 1..Len(l) : l[i] = p
<1>1. l \in Seq(Nat) /\ ToSet(l) = DOMAIN C
  BY DEF ListInv
<1> QED BY <1>1, Elements

\* A search by the full name finds a channel of the list, and one if the name is there.
LEMMA FoundIs ==
  ASSUME NEW s, NEW name, ListInv(s.chans, s.list)
  PROVE  /\ FindFullname(s, name) \in DOMAIN s.chans \cup {Null}
         /\ \A i \in 1..Len(s.list) :
              s.chans[s.list[i]].name = name => FindFullname(s, name) \in DOMAIN s.chans
<1> DEFINE I == {i \in 1..Len(s.list) : s.chans[s.list[i]].name = name}
<1>1. Len(s.list) \in Nat /\ \A i \in 1..Len(s.list) : s.list[i] \in DOMAIN s.chans
  BY Listing
<1>2. CASE I = {}
  <2>1. FindFullname(s, name) = Null
    BY <1>2, Zenon DEF FindFullname
  <2> QED BY <1>2, <2>1
<1>3. CASE I # {}
  <2>1. PICK i \in I : \A j \in I : i <= j
    <3>1. I \subseteq Nat
      BY <1>1
    <3> HIDE DEF I
    <3> QED BY <1>3, <3>1, NatMin
  <2>2. \A j \in 1..i - 1 : s.chans[s.list[j]].name # name
    <3> SUFFICES ASSUME NEW j \in 1..i - 1, s.chans[s.list[j]].name = name PROVE FALSE
      OBVIOUS
    <3> DEFINE n == Len(s.list)
    <3>1. i \in 1..n
      OBVIOUS
    <3>2. j \in 1..n /\ ~(i <= j)
      <4> HIDE DEF n, I
      <4>1. n \in Nat
        BY <1>1 DEF n
      <4> QED BY <3>1, <4>1
    <3> QED BY <2>1, <3>2
  <2>3. i \in 1..Len(s.list) /\ s.chans[s.list[i]].name = name
    OBVIOUS
  <2>4. \E k \in 1..Len(s.list) : FindFullname(s, name) = s.list[k]
    <3> DEFINE P(k) == /\ s.chans[s.list[k]].name = name
                       /\ \A j \in 1..k - 1 : s.chans[s.list[j]].name # name
    <3>1. \E k \in 1..Len(s.list) : P(k)
      BY <2>2, <2>3, Zenon
    <3>2. (CHOOSE k \in 1..Len(s.list) : P(k)) \in 1..Len(s.list)
      BY <3>1, Zenon
    <3>3. \E k \in 1..Len(s.list) : s.chans[s.list[k]].name = name
      BY <2>3, Zenon
    <3>4. FindFullname(s, name) = s.list[CHOOSE k \in 1..Len(s.list) : P(k)]
      BY <3>3, Zenon DEF FindFullname
    <3> QED BY <3>2, <3>4, Zenon
  <2> QED BY <1>1, <2>4
<1> QED BY <1>2, <1>3

\* The channels with one more.
Plus(C, p, ch) == [q \in DOMAIN C \cup {p} |-> IF q = p THEN ch ELSE C[q]]

\* What adding a channel does to each part of the state.
LEMMA AppendedIs ==
  ASSUME NEW s, IsState(s), NEW ch, NEW p
  PROVE  /\ IsState(AppendedAt(s, ch, p))
         /\ AppendedAt(s, ch, p).chans = Plus(s.chans, p, ch)
         /\ AppendedAt(s, ch, p).list = Append(s.list, p)
         /\ AppendedAt(s, ch, p).chat = s.chat /\ AppendedAt(s, ch, p).tmpOP = s.tmpOP
<1> DEFINE C == Plus(s.chans, p, ch)
           l == Append(s.list, p)
<1> DEFINE r == [s EXCEPT !.chans = C, !.list = l]
<1>1. AppendedAt(s, ch, p) = r
  BY DEF AppendedAt, IsState, Plus
<1> HIDE DEF C, l
<1>2. IsState(r) /\ r.chans = C /\ r.list = l /\ r.chat = s.chat /\ r.tmpOP = s.tmpOP
  BY DEF IsState
<1> QED BY <1>1, <1>2 DEF C, l

\* A new channel, without members, at a free address: the invariant stays, but for the
\* channel itself when it is a temporary one.
LEMMA ChannelAdded ==
  ASSUME NEW s, NEW X, StateInv(s, X), NEW ch \in ChannelRec, NEW p \in Nat \ {Null},
         p \notin DOMAIN s.chans, ch.members = <<>>, ch.curr = 0,
         ch.name # NoName, ch.short # NoName, NEW Y, X \subseteq Y, ch.perm \/ p \in Y
  PROVE  StateInv(AppendedAt(s, ch, p), Y)
<1> DEFINE C == s.chans
           r == AppendedAt(s, ch, p)
           D == r.chans
<1>1. /\ IsState(r) /\ r.list = Append(s.list, p) /\ r.chat = s.chat /\ r.tmpOP = s.tmpOP
      /\ D = Plus(C, p, ch)
  <2>1. IsState(s)
    BY DEF StateInv
  <2> QED BY <2>1, AppendedIs
<1>2. DOMAIN D = DOMAIN C \cup {p} /\ D[p] = ch /\ \A q \in DOMAIN C : D[q] = C[q]
  <2> HIDE DEF D, C
  <2> QED BY <1>1 DEF Plus, C
<1>3. /\ ChannelsInv(C) /\ ListInv(C, s.list) /\ PlacesInv(C, s.chat)
      /\ Peopled(C, X) /\ RightsInv(C, s.chat, s.tmpOP)
  BY DEF StateInv
<1> HIDE DEF r, D, C
<1>4. ChannelsInv(D)
  <2>1. \A q \in DOMAIN D : D[q] \in ChannelRec
    BY <1>2, <1>3 DEF ChannelsInv
  <2>2. D \in [DOMAIN D -> ChannelRec]
    BY <1>1, <1>2, <2>1 DEF Plus
  <2>3. IsFiniteSet(DOMAIN D)
    BY <1>2, <1>3, FS_AddElement DEF ChannelsInv
  <2> QED BY <1>2, <1>3, <2>2, <2>3 DEF ChannelsInv
<1>5. ListInv(D, r.list)
  <2>1. s.list \in Seq(Nat) /\ p \in Nat /\ IsInjective(s.list) /\ p \notin ToSet(s.list)
    BY <1>3 DEF ListInv, C
  <2>2. /\ Append(s.list, p) \in Seq(Nat) /\ IsInjective(Append(s.list, p))
        /\ ToSet(Append(s.list, p)) = ToSet(s.list) \cup {p}
    BY <2>1, Appended
  <2> QED BY <1>1, <1>2, <1>3, <2>2 DEF ListInv
<1>6. PlacesInv(D, r.chat)
  <2>1. MembersInv(ch, p, s.chat)
    <3>1. Len(ch.members) = 0 /\ IsInjective(ch.members) /\ ToSet(ch.members) = {}
      BY EmptyList
    <3>2. \A u \in Users : s.chat[u] # p
      BY <1>3, Constants, ZenonT(60) DEF PlacesInv, C
    <3> QED BY <3>1, <3>2 DEF MembersInv
  <2>2. \A q \in DOMAIN D : MembersInv(D[q], q, s.chat)
    BY <1>2, <1>3, <2>1 DEF PlacesInv
  <2> QED BY <1>1, <1>2, <1>3, <2>2 DEF PlacesInv
<1>7. Peopled(D, Y)
  BY <1>2, <1>3 DEF Peopled
<1>8. RightsInv(D, r.chat, r.tmpOP)
  <2>1. ASSUME NEW u \in Users PROVE RightOf(D, u, s.chat[u], s.tmpOP[u])
    <3>1. RightOf(C, u, s.chat[u], s.tmpOP[u]) /\ s.chat[u] \in DOMAIN C \cup {Null}
      BY <1>3 DEF RightsInv, PlacesInv
    <3> QED BY <1>2, <3>1 DEF RightOf
  <2> QED BY <1>1, <1>3, <2>1 DEF RightsInv
<1> QED BY <1>1, <1>4, <1>5, <1>6, <1>7, <1>8 DEF StateInv, D, r

\* The channels with one less.
Minus(C, p) == [q \in DOMAIN C \ {p} |-> C[q]]

\* What destroying a channel does to each part of the state.
LEMMA DestroyedIs ==
  ASSUME NEW s, IsState(s), NEW p
  PROVE  /\ IsState(Destroyed(s, p)) /\ Destroyed(s, p).chans = Minus(s.chans, p)
         /\ Destroyed(s, p).list = RemoveFirst(s.list, p)
         /\ Destroyed(s, p).chat = s.chat /\ Destroyed(s, p).tmpOP = s.tmpOP
<1> DEFINE C == Minus(s.chans, p)
           l == RemoveFirst(s.list, p)
<1> DEFINE r == [s EXCEPT !.chans = C, !.list = l]
<1>1. Destroyed(s, p) = r
  BY DEF Destroyed, IsState, Minus
<1> HIDE DEF C, l
<1>2. IsState(r) /\ r.chans = C /\ r.list = l /\ r.chat = s.chat /\ r.tmpOP = s.tmpOP
  BY DEF IsState
<1> QED BY <1>1, <1>2 DEF C, l

\* The channel that its last member left may be destroyed: nobody is in it.
LEMMA ChannelDestroyed ==
  ASSUME NEW s, NEW p \in DOMAIN s.chans, StateInv(s, {p}), s.chans[p].members = <<>>
  PROVE  /\ StateInv(Destroyed(s, p), {}) /\ Destroyed(s, p).chat = s.chat
         /\ DOMAIN Destroyed(s, p).chans = DOMAIN s.chans \ {p}
         /\ Destroyed(s, p).tmpOP = s.tmpOP
<1> DEFINE C == s.chans
           r == Destroyed(s, p)
           D == r.chans
<1>1. /\ IsState(r) /\ r.list = RemoveFirst(s.list, p) /\ r.chat = s.chat /\ r.tmpOP = s.tmpOP
      /\ D = Minus(C, p)
  <2>1. IsState(s)
    BY DEF StateInv
  <2> QED BY <2>1, DestroyedIs
<1>2. DOMAIN D = DOMAIN C \ {p} /\ \A q \in DOMAIN D : D[q] = C[q]
  <2> HIDE DEF D, C
  <2> QED BY <1>1 DEF Minus, C
<1>3. /\ ChannelsInv(C) /\ ListInv(C, s.list) /\ PlacesInv(C, s.chat)
      /\ Peopled(C, {p}) /\ RightsInv(C, s.chat, s.tmpOP)
  BY DEF StateInv
<1>4. \A u \in Users : s.chat[u] # p
  <2>1. MembersInv(C[p], p, s.chat)
    BY <1>3 DEF PlacesInv
  <2>2. ToSet(C[p].members) = {}
    BY EmptyList
  <2> QED BY <2>1, <2>2 DEF MembersInv
<1> HIDE DEF r, D, C
<1>5. ChannelsInv(D)
  <2>1. \A q \in DOMAIN D : D[q] \in ChannelRec
    BY <1>2, <1>3 DEF ChannelsInv
  <2>2. D \in [DOMAIN D -> ChannelRec]
    BY <1>1, <1>2, <2>1 DEF Minus
  <2>3. IsFiniteSet(DOMAIN D)
    BY <1>2, <1>3, FS_RemoveElement DEF ChannelsInv
  <2> QED BY <1>2, <1>3, <2>2, <2>3 DEF ChannelsInv
<1>6. ListInv(D, r.list)
  <2>1. s.list \in Seq(Nat) /\ IsInjective(s.list)
    BY <1>3 DEF ListInv, C
  <2>2. /\ RemoveFirst(s.list, p) \in Seq(Nat) /\ IsInjective(RemoveFirst(s.list, p))
        /\ ToSet(RemoveFirst(s.list, p)) = ToSet(s.list) \ {p}
    BY <2>1, Removed
  <2> QED BY <1>1, <1>2, <1>3, <2>2 DEF ListInv
<1>7. PlacesInv(D, r.chat)
  BY <1>1, <1>2, <1>3, <1>4 DEF PlacesInv
<1>8. Peopled(D, {})
  BY <1>2, <1>3 DEF Peopled
<1>9. RightsInv(D, r.chat, r.tmpOP)
  <2>1. ASSUME NEW u \in Users PROVE RightOf(D, u, s.chat[u], s.tmpOP[u])
    <3>1. RightOf(C, u, s.chat[u], s.tmpOP[u]) /\ s.chat[u] \in DOMAIN C \cup {Null}
      BY <1>3 DEF RightsInv, PlacesInv
    <3> QED BY <1>2, <1>4, <3>1 DEF RightOf
  <2> QED BY <1>1, <1>3, <2>1 DEF RightsInv
<1>10. StateInv(r, {})
  BY <1>1, <1>5, <1>6, <1>7, <1>8, <1>9 DEF StateInv, D
<1> QED BY <1>1, <1>2, <1>10 DEF r, D, C

\* Permanent channels: creating one, and those of channel.conf.
LEMMA PermanentCreated ==
  ASSUME NEW s, StateInv(s, {}), NEW ch \in ChannelRec, ch.members = <<>>, ch.curr = 0,
         ch.name # NoName, ch.short # NoName, ch.perm
  PROVE  /\ StateInv(CreatePermanent(s, ch).s, {})
         /\ CreatePermanent(s, ch).found \in DOMAIN CreatePermanent(s, ch).s.chans \cup {Null}
         /\ CreatePermanent(s, ch).s.chat = s.chat
         /\ DOMAIN s.chans \subseteq DOMAIN CreatePermanent(s, ch).s.chans
<1> DEFINE p == Fresh(s)
           t == AppendedAt(s, ch, p)
           R == CreatePermanent(s, ch)
<1>1. R = [s |-> s, found |-> Null] \/ R = [s |-> t, found |-> p]
  BY Zenon DEF CreatePermanent, Listed
<1>2. p \in Nat \ {Null} /\ p \notin DOMAIN s.chans
  BY FreshIs DEF StateInv
<1>3. StateInv(t, {})
  <2> HIDE DEF p
  <2> QED BY <1>2, ChannelAdded
<1>4. t.chat = s.chat /\ DOMAIN t.chans = DOMAIN s.chans \cup {p}
  <2>1. IsState(s)
    BY DEF StateInv
  <2> HIDE DEF p
  <2>2. t.chat = s.chat /\ t.chans = Plus(s.chans, p, ch)
    BY <2>1, AppendedIs
  <2>3. DOMAIN Plus(s.chans, p, ch) = DOMAIN s.chans \cup {p}
    BY DEF Plus
  <2> QED BY <2>2, <2>3
<1> HIDE DEF t, p, R
<1>5. CASE R = [s |-> s, found |-> Null]
  <2>1. R.s = s /\ R.found = Null
    BY <1>5
  <2> QED BY <2>1 DEF R
<1>6. CASE R = [s |-> t, found |-> p]
  <2>1. R.s = t /\ R.found = p
    BY <1>6
  <2> QED BY <1>3, <1>4, <2>1 DEF R
<1> QED BY <1>1, <1>5, <1>6

\* A line of channel.conf gives a permanent channel with a name.
LEMMA ConfChannelIs ==
  ASSUME NEW i \in 1..Len(Conf)
  PROVE  LET ch == ConfChannel(Conf[i])
         IN  /\ ch \in ChannelRec /\ ch.members = <<>> /\ ch.curr = 0
             /\ ch.name # NoName /\ ch.short # NoName /\ ch.perm
<1> DEFINE l == Conf[i]
<1>1. l \in Lines /\ l.short # ""
  <2>1. Conf \in Seq(Lines) /\ Conf[i].short # ""
    BY Constants, ZenonT(60)
  <2> QED BY <2>1, Elements, ZenonT(60)
<1> HIDE DEF l
<1>2. /\ l.name \in Names /\ l.short \in STRING /\ l.tag \in STRING /\ l.country \in STRING
      /\ l.oper \in BOOLEAN /\ l.max \in Int
  BY <1>1, ZenonT(60) DEF Lines
<1> DEFINE name == IF l.name = NoName THEN channel_format_name(l.short, l.country, 1) ELSE l.name
           short == Plain(l.short)
           auto == l.name = NoName
           perm == TRUE
<1>3. name \in Names /\ name # NoName /\ short \in Names /\ short # NoName
      /\ auto \in BOOLEAN /\ perm \in BOOLEAN /\ perm
  <2>1. 1 \in Nat /\ 1 # 0
    OBVIOUS
  <2>2. /\ channel_format_name(l.short, l.country, 1) \in Names
        /\ channel_format_name(l.short, l.country, 1) # NoName
    BY <1>2, <2>1, NamesMade, ZenonT(60)
  <2> QED BY <1>1, <1>2, <2>2, NamesMade, ZenonT(60)
<1>4. ConfChannel(l) = NewChannel(name, short, l.tag, l.country, l.oper, l.max, auto, perm)
  BY Zenon DEF ConfChannel
<1> HIDE DEF name, short, auto, perm
<1>5. LET ch == NewChannel(name, short, l.tag, l.country, l.oper, l.max, auto, perm)
      IN  /\ ch \in ChannelRec /\ ch.name = name /\ ch.short = short /\ ch.perm = perm
          /\ ch.members = <<>> /\ ch.curr = 0
  BY <1>2, <1>3 DEF NewChannel, ChannelRec
<1> QED BY <1>3, <1>4, <1>5 DEF l

\* Loading channel.conf, line by line.
ConfTurn(c, t, l) == CreatePermanent(t, ConfChannel(l)).s
ConfInv(c, k, t) == StateInv(t, {}) /\ t.chat = c
ConfFold == INSTANCE FoldInduction WITH Op <- ConfTurn, Inv <- ConfInv

\* Nobody is anywhere and has rights but those of his clan.
LEMMA Loaded ==
  ASSUME NEW s, IsState(s), s.chat = [u \in Users |-> Null], s.tmpOP \in [Users -> Names],
         \A u \in Users : s.tmpOP[u] # NoName => s.tmpOP[u] = ClanOf[u] /\ u \in Officers
  PROVE  StateInv(LoadPermanent(s), {}) /\ LoadPermanent(s).chat = s.chat
<1> DEFINE base == [s EXCEPT !.chans = <<>>, !.list = <<>>]
           n == Len(Conf)
           c == s.chat
<1>1. n \in Nat /\ DOMAIN Conf = 1..n
  <2>1. Conf \in Seq(Lines)
    BY Constants, ZenonT(60)
  <2> QED BY <2>1
<1>2. ConfInv(c, 0, base)
  <2>1. IsState(base) /\ base.chans = <<>> /\ base.list = <<>> /\ base.chat = s.chat
        /\ base.tmpOP = s.tmpOP
    BY DEF IsState
  <2> HIDE DEF base
  <2>2. DOMAIN base.chans = {}
    BY <2>1
  <2>3. ChannelsInv(base.chans)
    <3>1. base.chans \in [{} -> ChannelRec]
      BY <2>1
    <3> QED BY <2>2, <3>1, FS_EmptySet DEF ChannelsInv
  <2>4. ListInv(base.chans, base.list)
    BY <2>1, <2>2, EmptyList DEF ListInv
  <2>5. PlacesInv(base.chans, base.chat) /\ Peopled(base.chans, {})
    <3>1. base.chat \in [Users -> Nat] /\ \A u \in Users : base.chat[u] = Null
      BY <2>1 DEF Null
    <3> QED BY <2>2, <3>1 DEF PlacesInv, Peopled
  <2>6. RightsInv(base.chans, base.chat, base.tmpOP)
    BY <2>1 DEF RightsInv, RightOf
  <2> QED BY <2>1, <2>3, <2>4, <2>5, <2>6 DEF ConfInv, StateInv
<1>3. ASSUME NEW t, NEW i \in 1..n, ConfInv(c, i - 1, t)
      PROVE  ConfInv(c, i, ConfTurn(c, t, Conf[i]))
  <2> DEFINE ch == ConfChannel(Conf[i])
  <2>1. /\ ch \in ChannelRec /\ ch.members = <<>> /\ ch.curr = 0
        /\ ch.name # NoName /\ ch.short # NoName /\ ch.perm
    BY ConfChannelIs
  <2> HIDE DEF ch
  <2>2. StateInv(t, {}) /\ t.chat = c
    BY <1>3 DEF ConfInv
  <2>3. StateInv(CreatePermanent(t, ch).s, {}) /\ CreatePermanent(t, ch).s.chat = t.chat
    BY <2>1, <2>2, PermanentCreated
  <2> QED BY <2>2, <2>3 DEF ConfInv, ConfTurn, ch
<1> HIDE DEF n, base, c
<1>4. ConfInv(c, n, ConfFold!Fold(c, base, Conf))
  BY <1>1, <1>2, <1>3, ConfFold!FoldLeftInv
<1>5. LoadPermanent(s) = ConfFold!Fold(c, base, Conf)
  BY DEF LoadPermanent, ConfTurn, FoldLeft, MapThenFoldSet, Max, base, ConfFold!Fold, ConfFold!Greatest
<1> QED BY <1>4, <1>5 DEF ConfInv, c

\* Looking a name up.  What is looked at in place of a channel is a channel.
LEMMA AtIs ==
  ASSUME NEW s, StateInv(s, {}), NEW i \in 1..Len(s.list)
  PROVE  At(s, i) \in ChannelRec
<1> DEFINE name == s.chans[s.list[i]].name
<1>1. ListInv(s.chans, s.list) /\ ChannelsInv(s.chans)
  BY DEF StateInv
<1>2. FindFullname(s, name) \in DOMAIN s.chans
  BY <1>1, FoundIs
<1> QED BY <1>1, <1>2 DEF At, ChannelsInv

\* The greatest number of a set of positions is one of them.
LEMMA GreatestIn ==
  ASSUME NEW n \in Nat, NEW I, I \subseteq 1..n, I # {}
  PROVE  Greatest(I) \in I
<1> DEFINE T == {k \in Nat : n - k \in I}
<1>1. T \subseteq Nat /\ T # {}
  <2>1. PICK i \in I : TRUE
    OBVIOUS
  <2>2. n - i \in T
    BY <2>1
  <2> QED BY <2>2
<1>2. PICK k \in T : \A j \in T : k <= j
  <2> HIDE DEF T
  <2> QED BY <1>1, NatMin
<1>3. n - k \in I /\ \A j \in I : j <= n - k
  <2>1. ASSUME NEW j \in I PROVE j <= n - k
    <3>1. n - j \in T
      OBVIOUS
    <3>2. k <= n - j
      BY <1>2, <3>1
    <3> QED BY <3>2
  <2> QED BY <2>1
<1>4. \E i \in I : \A j \in I : j <= i
  BY <1>3
<1> QED BY <1>4, Zenon DEF Greatest

\* The name of a copy.
LEMMA CopyNameIs ==
  ASSUME NEW s, StateInv(s, {}), NEW name \in Names, NEW country \in STRING, NEW kept \in STRING,
         NEW lang, lang \subseteq 1..Len(s.list)
  PROVE  /\ CopyName(s, name, country, lang, kept) \in Names
         /\ CopyName(s, name, country, lang, kept) # NoName
<1> DEFINE n == Len(s.list)
           counted == {i \in Suiting(s, name, country, lang) : lang = {} \/ i >= Least(lang)}
           k == Cardinality(counted) + 1
           a == At(s, Least(lang)).name[1]
           b == name[1]
           d == IF country # NoCountry THEN country ELSE kept
           first == \E i \in lang : i = Least(lang) /\ ~At(s, i).auto
<1>1. n \in Nat
  BY Listing DEF StateInv
<1>2. k \in Nat /\ k # 0
  <2>1. counted \subseteq 1..n
    BY DEF Suiting, Named
  <2>2. IsFiniteSet(1..n)
    <3> HIDE DEF n
    <3> QED BY <1>1, IntervalSize
  <2>3. IsFiniteSet(counted)
    BY <2>1, <2>2, FS_Subset
  <2>4. Cardinality(counted) \in Nat
    BY <2>3, FS_CardinalityType
  <2> HIDE DEF counted
  <2> QED BY <2>4
<1>3. first => a \in STRING
  <2> SUFFICES ASSUME first PROVE a \in STRING
    OBVIOUS
  <2>1. Least(lang) \in 1..Len(s.list)
    OBVIOUS
  <2> DEFINE i == Least(lang)
  <2> HIDE DEF i, first
  <2>2. At(s, i) \in ChannelRec
    BY <2>1, AtIs DEF i
  <2>3. At(s, i).name \in Names
    BY <2>2, ChannelFields
  <2> QED BY <2>3, NamesMade, ZenonT(60) DEF i
<1>4. b \in STRING /\ d \in STRING
  BY NamesMade, ZenonT(60)
<1>5. CopyName(s, name, country, lang, kept) =
        IF first THEN channel_format_name(a, NoCountry, k) ELSE channel_format_name(b, d, k)
  BY Zenon DEF CopyName
<1> HIDE DEF a, b, d, k, first
<1> QED BY <1>2, <1>3, <1>4, <1>5, NamesMade, Constants, ZenonT(60)

\* A copy of a full channel is created as a permanent one is.
LEMMA CopyIs ==
  ASSUME NEW s, StateInv(s, {}), NEW name \in Names, name # NoName, NEW country \in STRING,
         NEW lang, lang \subseteq 1..Len(s.list), NEW of \in ChannelRec
  PROVE  \E ch \in ChannelRec :
            /\ ch.members = <<>> /\ ch.curr = 0 /\ ch.name # NoName /\ ch.short # NoName /\ ch.perm
            /\ CopyMade(s, name, country, lang, of) = CreatePermanent(s, ch)
<1> DEFINE full == CopyName(s, name, country, lang, of.country)
           at == IF country # NoCountry THEN country ELSE of.country
           auto == TRUE
           perm == TRUE
           ch == NewChannel(full, name, of.tag, at, of.oper, of.max, auto, perm)
<1>1. of.tag \in STRING /\ of.country \in STRING /\ of.oper \in BOOLEAN /\ of.max \in Int
  BY ChannelFields
<1>2. full \in Names /\ full # NoName
  <2> DEFINE kept == of.country
  <2>1. kept \in STRING
    BY <1>1
  <2> HIDE DEF kept
  <2>2. CopyName(s, name, country, lang, kept) \in Names
        /\ CopyName(s, name, country, lang, kept) # NoName
    BY <2>1, CopyNameIs
  <2> QED BY <2>2 DEF kept
<1>3. at \in STRING /\ auto \in BOOLEAN /\ perm \in BOOLEAN /\ perm
  BY <1>1
<1>4. CopyMade(s, name, country, lang, of) = CreatePermanent(s, ch)
  BY Zenon DEF CopyMade
<1>5. /\ ch \in ChannelRec /\ ch.members = <<>> /\ ch.curr = 0
      /\ ch.name # NoName /\ ch.short # NoName /\ ch.perm
  <2> HIDE DEF full, at, auto, perm
  <2> QED BY <1>1, <1>2, <1>3 DEF NewChannel, ChannelRec
<1> HIDE DEF ch
<1> QED BY <1>4, <1>5

\* What a lookup gives: a channel of the list after it, or none.
Known(s, f) ==
  /\ StateInv(f.s, {}) /\ f.found \in DOMAIN f.s.chans \cup {Null}
  /\ f.s.chat = s.chat /\ DOMAIN s.chans \subseteq DOMAIN f.s.chans

\* find_channel_by_name gives a channel of the list, or none, and moves nobody.
LEMMA LookedUp ==
  ASSUME NEW s, StateInv(s, {}), NEW name \in Names, name # NoName, NEW country \in STRING
  PROVE  Known(s, find_channel_by_name(s, name, country))
<1> DEFINE lang == Lang(s, name, country)
           fits == Fitting(s, name, Suiting(s, name, country, lang))
           f == find_channel_by_name(s, name, country)
           N == Named(s, name)
<1>0. f = FirstFitting(s, name, country, lang, fits)
  BY Zenon DEF find_channel_by_name, FindAmong
<1>1. lang \subseteq 1..Len(s.list) /\ fits \subseteq 1..Len(s.list) /\ N \subseteq 1..Len(s.list)
  BY DEF Lang, Fitting, Named
<1>2. Len(s.list) \in Nat
  BY Listing DEF StateInv
<1> HIDE DEF lang, fits, f, N
<1>3. CASE fits # {}
  <2> DEFINE q == FindFullname(s, s.chans[s.list[Least(fits)]].name)
  <2>1. f = [s |-> s, found |-> q]
    BY <1>0, <1>3, Zenon DEF FirstFitting
  <2>2. q \in DOMAIN s.chans \cup {Null}
    BY FoundIs DEF StateInv
  <2> HIDE DEF q
  <2>3. f.s = s /\ f.found = q
    BY <2>1
  <2> QED BY <2>2, <2>3 DEF Known, f
<1>4. CASE fits = {} /\ N = {}
  <2>1. f = [s |-> s, found |-> Null]
    BY <1>0, <1>4, Zenon DEF FirstFitting, N
  <2>2. f.s = s /\ f.found = Null
    BY <2>1
  <2> QED BY <2>2 DEF Known, f
<1>5. CASE fits = {} /\ N # {}
  <2> DEFINE g == Greatest(N)
             of == At(s, g)
  <2>1. f = CopyMade(s, name, country, lang, of)
    BY <1>0, <1>5, Zenon DEF FirstFitting, N
  <2>2. g \in 1..Len(s.list)
    BY <1>1, <1>2, <1>5, GreatestIn
  <2> HIDE DEF g
  <2>3. of \in ChannelRec
    BY <2>2, AtIs
  <2> HIDE DEF of
  <2>4. PICK ch \in ChannelRec :
            /\ ch.members = <<>> /\ ch.curr = 0 /\ ch.name # NoName /\ ch.short # NoName /\ ch.perm
            /\ CopyMade(s, name, country, lang, of) = CreatePermanent(s, ch)
    BY <1>1, <2>3, CopyIs, ZenonT(60)
  <2>5. Known(s, CreatePermanent(s, ch))
    BY <2>4, PermanentCreated DEF Known
  <2> QED BY <2>1, <2>4, <2>5 DEF f
<1> QED BY <1>3, <1>4, <1>5

\* The channels with one changed in its place.
Put(C, p, ch) == [C EXCEPT ![p] = ch]

\* A channel may change all but its names: it stays in its place of the list, and a
\* temporary right that names it stays one.
LEMMA PutIs ==
  ASSUME NEW C, ChannelsInv(C), NEW p \in DOMAIN C, NEW ch \in ChannelRec,
         ch.name = C[p].name, ch.short = C[p].short
  PROVE  /\ ChannelsInv(Put(C, p, ch)) /\ DOMAIN Put(C, p, ch) = DOMAIN C
         /\ Put(C, p, ch)[p] = ch /\ \A q \in DOMAIN C \ {p} : Put(C, p, ch)[q] = C[q]
         /\ \A u : \A q \in DOMAIN C \cup {Null} : \A n :
              RightOf(C, u, q, n) => RightOf(Put(C, p, ch), u, q, n)
         /\ \A l : ListInv(C, l) => ListInv(Put(C, p, ch), l)
<1> DEFINE D == Put(C, p, ch)
<1>1. C \in [DOMAIN C -> ChannelRec]
  BY DEF ChannelsInv
<1>2. /\ DOMAIN D = DOMAIN C /\ D[p] = ch /\ \A q \in DOMAIN C \ {p} : D[q] = C[q]
      /\ D \in [DOMAIN C -> ChannelRec]
  BY <1>1 DEF Put
<1> HIDE DEF D
<1>3. \A q \in DOMAIN C : D[q].name = C[q].name /\ D[q].short = C[q].short
  BY <1>2
<1>4. ChannelsInv(D)
  BY <1>2, <1>3 DEF ChannelsInv
<1>5. \A u : \A q \in DOMAIN C \cup {Null} : \A n : RightOf(C, u, q, n) => RightOf(D, u, q, n)
  BY <1>3 DEF RightOf
<1>6. \A l : ListInv(C, l) => ListInv(D, l)
  BY <1>2 DEF ListInv
<1> QED BY <1>2, <1>4, <1>5, <1>6 DEF D

\* Two states with the same fields.
LEMMA SameState ==
  ASSUME NEW r, NEW t, NEW X, StateInv(t, X), IsState(r), r.chans = t.chans, r.list = t.list,
         r.chat = t.chat, r.tmpOP = t.tmpOP
  PROVE  StateInv(r, X)
BY DEF StateInv

\* What leaving a channel does to each part of the state.
LEMMA LeftIs ==
  ASSUME NEW s, IsState(s), NEW u, NEW p
  PROVE  /\ IsState(Left(s, u, p))
         /\ Left(s, u, p).chans = Put(s.chans, p, Without(s.chans[p], u))
         /\ Left(s, u, p).list = s.list /\ Left(s, u, p).chat = s.chat
         /\ Left(s, u, p).tmpOP =
              Put(s.tmpOP, u, IF s.tmpOP[u] = NameOf(s, p) THEN NoName ELSE s.tmpOP[u])
<1> DEFINE C == Put(s.chans, p, Without(s.chans[p], u))
           o == Put(s.tmpOP, u, IF s.tmpOP[u] = NameOf(s, p) THEN NoName ELSE s.tmpOP[u])
           r == [s EXCEPT !.chans = C, !.tmpOP = o]
<1>1. Left(s, u, p) = r
  BY DEF Left, IsState, Put
<1> HIDE DEF C, o
<1>2. IsState(r) /\ r.chans = C /\ r.list = s.list /\ r.chat = s.chat /\ r.tmpOP = o
  BY DEF IsState
<1> QED BY <1>1, <1>2 DEF C, o

\* The state when u goes to q.
Going(s, u, q) == [s EXCEPT !.chat[u] = q]

\* What a change of the channel a user is in does to each part of the state.
LEMMA GoingIs ==
  ASSUME NEW s, IsState(s), NEW u, NEW q
  PROVE  /\ IsState(Going(s, u, q)) /\ Going(s, u, q).chans = s.chans
         /\ Going(s, u, q).list = s.list
         /\ Going(s, u, q).chat = Put(s.chat, u, q) /\ Going(s, u, q).tmpOP = s.tmpOP
<1> DEFINE c == Put(s.chat, u, q)
           r == [s EXCEPT !.chat = c]
<1>1. Going(s, u, q) = r
  BY DEF IsState, Put, Going
<1> HIDE DEF c
<1>2. IsState(r) /\ r.chans = s.chans /\ r.list = s.list /\ r.chat = c /\ r.tmpOP = s.tmpOP
  BY DEF IsState
<1> QED BY <1>1, <1>2 DEF c

\* The member list without one who leaves.
LEMMA MemberGone ==
  ASSUME NEW ch \in ChannelRec, NEW p, p # Null, NEW in \in [Users -> Nat], MembersInv(ch, p, in),
         NEW u \in Users, in[u] = p
  PROVE  MembersInv(Without(ch, u), p, Put(in, u, Null)) /\ ch.curr # 0
<1> DEFINE m == ch.members
           t == RemoveFirst(m, u)
<1>1. m \in Seq(Users) /\ IsInjective(m) /\ ch.curr = Len(m)
      /\ \A v \in Users : v \in ToSet(m) <=> in[v] = p
  BY ChannelFields DEF MembersInv
<1>2. u \in ToSet(m) /\ Len(m) \in Nat /\ Len(m) # 0
  <2>1. u \in ToSet(m)
    BY <1>1
  <2> QED BY <1>1, <2>1, Elements
<1>3. t \in Seq(Users) /\ IsInjective(t) /\ ToSet(t) = ToSet(m) \ {u} /\ Len(t) = Len(m) - 1
  BY <1>1, <1>2, Removed
<1>4. \A v \in Users : v \in ToSet(t) <=> Put(in, u, Null)[v] = p
  BY <1>1, <1>3 DEF Put
<1>5. Without(ch, u).members = t /\ Without(ch, u).curr = ch.curr - 1
  BY <1>1, <1>2, WithoutIs
<1> HIDE DEF t, m
<1> QED BY <1>1, <1>2, <1>3, <1>4, <1>5 DEF MembersInv

\* A user leaves the channel he is in.
LEMMA UserLeft ==
  ASSUME NEW s, StateInv(s, {}), NEW u \in Users, s.chat[u] # Null
  PROVE  /\ StateInv(Parted(s, u), {}) /\ Parted(s, u).chat = Put(s.chat, u, Null)
         /\ DOMAIN s.chans \ {s.chat[u]} \subseteq DOMAIN Parted(s, u).chans
         /\ DOMAIN Parted(s, u).chans \subseteq DOMAIN s.chans
<1> DEFINE p == s.chat[u]
           C == s.chans
           ch == Without(C[p], u)
           a == Left(s, u, p)
           t == Going(a, u, Null)
           D == Put(C, p, ch)
           o == IF s.tmpOP[u] = NameOf(s, p) THEN NoName ELSE s.tmpOP[u]
<1>1. /\ IsState(s) /\ ChannelsInv(C) /\ ListInv(C, s.list) /\ PlacesInv(C, s.chat)
      /\ Peopled(C, {}) /\ RightsInv(C, s.chat, s.tmpOP)
  BY DEF StateInv
<1>2. p \in DOMAIN C /\ p # Null /\ s.chat \in [Users -> Nat] /\ MembersInv(C[p], p, s.chat)
      /\ C[p] \in ChannelRec
  BY <1>1 DEF PlacesInv, ChannelsInv
<1>3. MembersInv(ch, p, Put(s.chat, u, Null)) /\ C[p].curr # 0
  <2> HIDE DEF C
  <2> DEFINE q == p
             k == C[p]
             in == s.chat
  <2>1. k \in ChannelRec /\ q # Null /\ in \in [Users -> Nat] /\ MembersInv(k, q, in) /\ in[u] = q
    BY <1>2
  <2> HIDE DEF k, q, in
  <2>2. MembersInv(Without(k, u), q, Put(in, u, Null)) /\ k.curr # 0
    BY <2>1, MemberGone
  <2> QED BY <2>2 DEF k, q, in
<1>4. /\ ch \in ChannelRec /\ ch.name = C[p].name /\ ch.short = C[p].short /\ ch.perm = C[p].perm
  BY <1>2, <1>3, WithoutIs
<1>5. /\ IsState(a) /\ a.chans = D /\ a.list = s.list /\ a.chat = s.chat
      /\ a.tmpOP = Put(s.tmpOP, u, o)
  BY <1>1, LeftIs
<1>6. /\ IsState(t) /\ t.chans = D /\ t.list = s.list /\ t.chat = Put(s.chat, u, Null)
      /\ t.tmpOP = Put(s.tmpOP, u, o)
  <2> HIDE DEF a
  <2> QED BY <1>5, GoingIs
<1> HIDE DEF ch
<1>7. /\ ChannelsInv(D) /\ DOMAIN D = DOMAIN C /\ D[p] = ch /\ \A q \in DOMAIN C \ {p} : D[q] = C[q]
      /\ \A v : \A q \in DOMAIN C \cup {Null} : \A n : RightOf(C, v, q, n) => RightOf(D, v, q, n)
      /\ ListInv(D, s.list)
  <2> HIDE DEF C, p
  <2> QED BY <1>1, <1>2, <1>4, PutIs
<1> DEFINE in == Put(s.chat, u, Null)
<1>8. in \in [Users -> Nat] /\ in[u] = Null /\ \A v \in Users \ {u} : in[v] = s.chat[v]
  BY <1>2, Constants, ZenonT(60) DEF Put
<1> HIDE DEF in, D, C, p, a, t
<1>9. PlacesInv(D, in)
  <2>1. \A v \in Users : in[v] \in DOMAIN D \cup {Null}
    BY <1>1, <1>7, <1>8 DEF PlacesInv
  <2>2. ASSUME NEW q \in DOMAIN C, q # p PROVE MembersInv(C[q], q, in)
    <3>1. MembersInv(C[q], q, s.chat) /\ q # Null
      BY <1>1 DEF PlacesInv, ChannelsInv
    <3>2. s.chat[u] # q
      BY <2>2 DEF p
    <3> QED BY <1>8, <3>1, <3>2 DEF MembersInv
  <2>3. MembersInv(ch, p, in)
    BY <1>3 DEF in
  <2> QED BY <1>7, <1>8, <2>1, <2>2, <2>3, SMTT(40) DEF PlacesInv
<1>10. Peopled(D, {p})
  BY <1>1, <1>7 DEF Peopled
<1>11. RightsInv(D, in, Put(s.tmpOP, u, o))
  <2>1. s.tmpOP \in [Users -> Names] /\ \A v \in Users : RightOf(C, v, s.chat[v], s.tmpOP[v])
    BY <1>1 DEF RightsInv
  <2>2. o \in Names /\ RightOf(C, u, Null, o)
    BY <2>1, NamesMade, ZenonT(60) DEF RightOf, NameOf, C, p
  <2> HIDE DEF o
  <2>3. /\ Put(s.tmpOP, u, o) \in [Users -> Names] /\ Put(s.tmpOP, u, o)[u] = o
        /\ \A v \in Users \ {u} : Put(s.tmpOP, u, o)[v] = s.tmpOP[v]
    BY <2>1, <2>2 DEF Put
  <2>4. RightOf(D, u, Null, o)
    BY <1>7, <2>2
  <2>5. \A v \in Users : s.chat[v] \in DOMAIN C \cup {Null}
    BY <1>1 DEF PlacesInv
  <2>6. \A v \in Users \ {u} : RightOf(D, v, s.chat[v], s.tmpOP[v])
    BY <1>7, <2>1, <2>5
  <2> DEFINE w == Put(s.tmpOP, u, o)
  <2> HIDE DEF w
  <2>7. \A v \in Users : RightOf(D, v, in[v], w[v])
    BY <1>8, <2>3, <2>4, <2>6 DEF w
  <2> QED BY <2>3, <2>7 DEF RightsInv, w
<1>12. StateInv(t, {p})
  BY <1>6, <1>7, <1>9, <1>10, <1>11 DEF StateInv, in
<1> DEFINE b == channel_del_connection(s, u)
           r == Going(b, u, Null)
<1>13. Parted(s, u) = r
  BY DEF Parted, Going
<1>14. b = IF D[p].members = <<>> /\ ~D[p].perm THEN Destroyed(a, p) ELSE a
  BY <1>5, Zenon DEF channel_del_connection, Swept, Vanishes, a, p
<1> HIDE DEF b
<1>15. CASE D[p].members = <<>> /\ ~D[p].perm
  <2>1. b = Destroyed(a, p)
    BY <1>14, <1>15
  <2>2. /\ IsState(b) /\ b.chans = Minus(D, p) /\ b.list = RemoveFirst(s.list, p)
        /\ b.chat = s.chat /\ b.tmpOP = Put(s.tmpOP, u, o)
    BY <1>5, <2>1, DestroyedIs
  <2>3. /\ IsState(r) /\ r.chans = Minus(D, p) /\ r.list = RemoveFirst(s.list, p)
        /\ r.chat = in /\ r.tmpOP = Put(s.tmpOP, u, o)
    BY <2>2, GoingIs DEF in
  <2> HIDE DEF r
  <2> DEFINE d == Destroyed(t, p)
  <2>4. /\ IsState(d) /\ d.chans = Minus(D, p) /\ d.list = RemoveFirst(s.list, p)
        /\ d.chat = in /\ d.tmpOP = Put(s.tmpOP, u, o)
    BY <1>6, DestroyedIs DEF in
  <2>5. StateInv(d, {}) /\ DOMAIN d.chans = DOMAIN D \ {p}
    BY <1>2, <1>6, <1>7, <1>12, <1>15, ChannelDestroyed
  <2> HIDE DEF d
  <2>6. StateInv(r, {})
    BY <2>3, <2>4, <2>5, SameState
  <2> QED BY <1>7, <1>13, <2>3, <2>4, <2>5, <2>6 DEF in, C, p
<1>16. CASE ~(D[p].members = <<>> /\ ~D[p].perm)
  <2>1. b = a
    BY <1>14, <1>16
  <2>2. r = t
    BY <2>1 DEF t
  <2>3. Peopled(D, {})
    BY <1>10, <1>16 DEF Peopled
  <2>4. StateInv(t, {})
    BY <1>6, <1>12, <2>3 DEF StateInv
  <2> QED BY <1>6, <1>7, <1>13, <2>2, <2>4 DEF in, C, p
<1> QED BY <1>15, <1>16

\* A user enters a channel.
LEMMA AddedIs ==
  ASSUME NEW s, IsState(s), NEW u, NEW p
  PROVE  /\ IsState(channel_add_connection(s, u, p))
         /\ channel_add_connection(s, u, p).chans = Put(s.chans, p, With(s.chans[p], u))
         /\ channel_add_connection(s, u, p).list = s.list
         /\ channel_add_connection(s, u, p).chat = Put(s.chat, u, p)
         /\ channel_add_connection(s, u, p).tmpOP =
              Put(s.tmpOP, u, IF Favoured(u, s.chans[p]) THEN NameOf(s, p) ELSE s.tmpOP[u])
<1> DEFINE C == Put(s.chans, p, With(s.chans[p], u))
           o == Put(s.tmpOP, u, IF Favoured(u, s.chans[p]) THEN NameOf(s, p) ELSE s.tmpOP[u])
           c == Put(s.chat, u, p)
           r == [s EXCEPT !.chans = C, !.tmpOP = o, !.chat = c]
<1>1. channel_add_connection(s, u, p) = r
  BY DEF channel_add_connection, IsState, Put
<1> HIDE DEF C, o, c
<1>2. IsState(r) /\ r.chans = C /\ r.list = s.list /\ r.chat = c /\ r.tmpOP = o
  BY DEF IsState
<1> QED BY <1>1, <1>2 DEF C, o, c

\* The member list with one who enters.
LEMMA MemberCome ==
  ASSUME NEW ch \in ChannelRec, NEW p, p # Null, NEW in \in [Users -> Nat], MembersInv(ch, p, in),
         p \in Nat, NEW u \in Users, in[u] = Null
  PROVE  MembersInv(With(ch, u), p, Put(in, u, p)) /\ With(ch, u).members # <<>>
<1> DEFINE m == ch.members
           t == <<u>> \o m
<1>1. m \in Seq(Users) /\ IsInjective(m) /\ ch.curr = Len(m)
      /\ \A v \in Users : v \in ToSet(m) <=> in[v] = p
  BY ChannelFields DEF MembersInv
<1>2. u \notin ToSet(m) /\ Len(m) \in Nat
  BY <1>1
<1>3. t \in Seq(Users) /\ IsInjective(t) /\ ToSet(t) = {u} \cup ToSet(m)
  BY <1>1, <1>2, PutInFront
<1>4. Len(t) = Len(m) + 1 /\ t # <<>>
  <2>1. <<u>> \in Seq(Users) /\ Len(<<u>>) = 1
    OBVIOUS
  <2>2. Len(t) = Len(m) + 1
    BY <1>1, <2>1
  <2>3. t # <<>>
    BY <1>3, EmptyList
  <2> QED BY <2>2, <2>3
<1>5. \A v \in Users : v \in ToSet(t) <=> Put(in, u, p)[v] = p
  BY <1>1, <1>3 DEF Put
<1>6. With(ch, u).members = t /\ With(ch, u).curr = ch.curr + 1
  BY WithIs
<1> HIDE DEF t, m
<1> QED BY <1>1, <1>3, <1>4, <1>5, <1>6 DEF MembersInv

\* channel_add_connection keeps the invariant, for one who is in no channel.
LEMMA UserEntered ==
  ASSUME NEW s, NEW p \in DOMAIN s.chans, StateInv(s, {p}), NEW u \in Users, s.chat[u] = Null
  PROVE  /\ StateInv(channel_add_connection(s, u, p), {})
         /\ channel_add_connection(s, u, p).chat = Put(s.chat, u, p)
         /\ DOMAIN channel_add_connection(s, u, p).chans = DOMAIN s.chans
<1> DEFINE C == s.chans
           ch == With(C[p], u)
           a == channel_add_connection(s, u, p)
           D == Put(C, p, ch)
           in == Put(s.chat, u, p)
           o == IF Favoured(u, s.chans[p]) THEN NameOf(s, p) ELSE s.tmpOP[u]
<1>1. /\ IsState(s) /\ ChannelsInv(C) /\ ListInv(C, s.list) /\ PlacesInv(C, s.chat)
      /\ Peopled(C, {p}) /\ RightsInv(C, s.chat, s.tmpOP)
  BY DEF StateInv
<1>2. p \in Nat /\ p # Null /\ s.chat \in [Users -> Nat] /\ MembersInv(C[p], p, s.chat)
      /\ C[p] \in ChannelRec
  BY <1>1 DEF PlacesInv, ChannelsInv
<1>3. MembersInv(ch, p, in) /\ ch.members # <<>>
  <2> DEFINE k == C[p]
             c == s.chat
  <2>1. k \in ChannelRec /\ c \in [Users -> Nat] /\ MembersInv(k, p, c) /\ c[u] = Null
    BY <1>2
  <2> HIDE DEF k, c
  <2>2. MembersInv(With(k, u), p, Put(c, u, p)) /\ With(k, u).members # <<>>
    BY <1>2, <2>1, MemberCome
  <2> QED BY <2>2 DEF k, c
<1>4. /\ ch \in ChannelRec /\ ch.name = C[p].name /\ ch.short = C[p].short /\ ch.perm = C[p].perm
  BY <1>2, WithIs
<1>5. /\ IsState(a) /\ a.chans = D /\ a.list = s.list /\ a.chat = in /\ a.tmpOP = Put(s.tmpOP, u, o)
  BY <1>1, AddedIs
<1> HIDE DEF ch
<1>7. /\ ChannelsInv(D) /\ DOMAIN D = DOMAIN C /\ D[p] = ch /\ \A q \in DOMAIN C \ {p} : D[q] = C[q]
      /\ \A v : \A q \in DOMAIN C \cup {Null} : \A n : RightOf(C, v, q, n) => RightOf(D, v, q, n)
      /\ ListInv(D, s.list)
  <2> HIDE DEF C
  <2>1. p \in DOMAIN C
    BY DEF C
  <2> QED BY <1>1, <1>4, <2>1, PutIs
<1>8. in \in [Users -> Nat] /\ in[u] = p /\ \A v \in Users \ {u} : in[v] = s.chat[v]
  BY <1>2 DEF Put
<1>8a. p \in DOMAIN C
  OBVIOUS
<1> HIDE DEF in, D, C, a
<1>9. PlacesInv(D, in)
  <2>1. \A v \in Users : in[v] \in DOMAIN D \cup {Null}
    BY <1>1, <1>7, <1>8, <1>8a DEF PlacesInv
  <2>2. ASSUME NEW q \in DOMAIN C, q # p PROVE MembersInv(C[q], q, in)
    <3>1. MembersInv(C[q], q, s.chat) /\ q # Null
      BY <1>1 DEF PlacesInv, ChannelsInv
    <3> QED BY <1>8, <2>2, <3>1 DEF MembersInv
  <2> QED BY <1>3, <1>7, <1>8, <2>1, <2>2 DEF PlacesInv
<1>10. Peopled(D, {})
  BY <1>1, <1>3, <1>7 DEF Peopled
<1>11. RightsInv(D, in, Put(s.tmpOP, u, o))
  <2>1. s.tmpOP \in [Users -> Names] /\ \A v \in Users : RightOf(C, v, s.chat[v], s.tmpOP[v])
    BY <1>1 DEF RightsInv
  <2>2. o \in Names /\ RightOf(D, u, p, o)
    <3>1. C[p].name \in Names /\ D[p].name = C[p].name /\ p # Null
      BY <1>2, <1>4, <1>7, ChannelFields
    <3>2. NameOf(s, p) = C[p].name
      BY DEF NameOf, C
    <3>3. RightOf(C, u, Null, s.tmpOP[u]) /\ s.tmpOP[u] \in Names
      BY <2>1
    <3> QED BY <3>1, <3>2, <3>3 DEF RightOf
  <2> HIDE DEF o
  <2>3. /\ Put(s.tmpOP, u, o) \in [Users -> Names] /\ Put(s.tmpOP, u, o)[u] = o
        /\ \A v \in Users \ {u} : Put(s.tmpOP, u, o)[v] = s.tmpOP[v]
    BY <2>1, <2>2 DEF Put
  <2>5. \A v \in Users : s.chat[v] \in DOMAIN C \cup {Null}
    BY <1>1 DEF PlacesInv
  <2>6. \A v \in Users \ {u} : RightOf(D, v, s.chat[v], s.tmpOP[v])
    BY <1>7, <2>1, <2>5
  <2> DEFINE w == Put(s.tmpOP, u, o)
  <2> HIDE DEF w
  <2>7. \A v \in Users : RightOf(D, v, in[v], w[v])
    BY <1>8, <2>2, <2>3, <2>6 DEF w
  <2> QED BY <2>3, <2>7 DEF RightsInv, w
<1>12. StateInv(a, {})
  BY <1>5, <1>7, <1>9, <1>10, <1>11 DEF StateInv
<1> QED BY <1>5, <1>7, <1>12 DEF a, in, C

\* A user without a channel enters one, found or made.
LEMMA EnteredIs ==
  ASSUME NEW s, StateInv(s, {}), NEW u \in Users, s.chat[u] = Null,
         NEW name \in Names, name # NoName,
         NEW p \in DOMAIN s.chans \cup {Null}
  PROVE  StateInv(Entered(s, u, name, p).s, {})
<1> DEFINE r == Entered(s, u, name, p)
<1>1. CASE p = Null
  <2> DEFINE op == TRUE
             no == FALSE
             q == Fresh(s)
             ch == NewChannel(name, name, NoTag, NoCountry, op, MaxUsers, no, no)
             t == AppendedAt(s, ch, q)
  <2>1. /\ ch \in ChannelRec /\ ch.members = <<>> /\ ch.curr = 0
        /\ ch.name # NoName /\ ch.short # NoName
    <3>1. op \in BOOLEAN /\ no \in BOOLEAN
      OBVIOUS
    <3>2. NoTag \in STRING /\ NoCountry \in STRING /\ MaxUsers \in Int
      BY Constants, ZenonT(60)
    <3> HIDE DEF op, no, NoTag, NoCountry
    <3> QED BY <3>1, <3>2 DEF NewChannel, ChannelRec
  <2>2. q \in Nat \ {Null} /\ q \notin DOMAIN s.chans
    BY FreshIs DEF StateInv
  <2>3. r = Success(channel_add_connection(t, u, q))
    BY <1>1, Zenon DEF Entered, CreateTemporary, Listed
  <2> HIDE DEF ch, q, r
  <2>4. StateInv(t, {q})
    BY <2>1, <2>2, ChannelAdded
  <2>5. t.chat = s.chat /\ t.chans = Plus(s.chans, q, ch)
    <3>1. IsState(s)
      BY DEF StateInv
    <3> QED BY <3>1, AppendedIs
  <2>6. q \in DOMAIN t.chans
    BY <2>5 DEF Plus
  <2> HIDE DEF t
  <2>7. StateInv(channel_add_connection(t, u, q), {})
    BY <2>4, <2>5, <2>6, UserEntered
  <2>8. r.s = channel_add_connection(t, u, q)
    BY <2>3 DEF Success
  <2> QED BY <2>7, <2>8 DEF r
<1>2. CASE p # Null
  <2>1. CASE Refused(s, u, p, name)
    <3>1. r = [s |-> s, ok |-> FALSE]
      BY <1>2, <2>1, Zenon DEF Entered
    <3> QED BY <3>1
  <2>2. CASE ~Refused(s, u, p, name)
    <3>1. r = Success(channel_add_connection(s, u, p))
      BY <1>2, <2>2, Zenon DEF Entered
    <3>2. StateInv(s, {p})
      BY DEF StateInv, Peopled
    <3>3. StateInv(channel_add_connection(s, u, p), {})
      BY <1>2, <3>2, UserEntered
    <3>4. r.s = channel_add_connection(s, u, p)
      BY <3>1 DEF Success
    <3> QED BY <3>3, <3>4
  <2> QED BY <2>1, <2>2
<1> QED BY <1>1, <1>2

\* He leaves the old one first.
LEMMA MovedIs ==
  ASSUME NEW f, StateInv(f.s, {}), f.found \in DOMAIN f.s.chans \cup {Null},
         NEW u \in Users, f.found = Null \/ f.found # f.s.chat[u],
         NEW name \in Names, name # NoName
  PROVE  StateInv(Moved(u, name, f).s, {})
<1> DEFINE t == IF f.s.chat[u] # Null THEN Parted(f.s, u) ELSE f.s
           p == f.found
<1>1. Moved(u, name, f) = Entered(t, u, name, p)
  BY Zenon DEF Moved
<1>2. StateInv(t, {}) /\ t.chat[u] = Null /\ p \in DOMAIN t.chans \cup {Null}
  <2>1. CASE f.s.chat[u] # Null
    <3>1. /\ StateInv(Parted(f.s, u), {}) /\ Parted(f.s, u).chat = Put(f.s.chat, u, Null)
          /\ DOMAIN f.s.chans \ {f.s.chat[u]} \subseteq DOMAIN Parted(f.s, u).chans
      BY <2>1, UserLeft
    <3>2. f.s.chat \in [Users -> Nat]
      BY DEF StateInv, PlacesInv
    <3>3. Put(f.s.chat, u, Null)[u] = Null
      BY <3>2 DEF Put
    <3> QED BY <2>1, <3>1, <3>3
  <2>2. CASE f.s.chat[u] = Null
    BY <2>2
  <2> QED BY <2>1, <2>2
<1> HIDE DEF t, p
<1> QED BY <1>1, <1>2, EnteredIs

\* An officer's temporary operator right for his clan's channel.
LEMMA EmpoweredIs ==
  ASSUME NEW s, StateInv(s, {}), NEW u \in Users, NEW name \in Names, name = ClanOf[u]
  PROVE  /\ StateInv(Empowered(s, u, name), {})
         /\ Empowered(s, u, name).chans = s.chans /\ Empowered(s, u, name).chat = s.chat
<1> DEFINE o == Put(s.tmpOP, u, name)
           t == [s EXCEPT !.tmpOP = o]
<1>1. IsState(s) /\ s.tmpOP \in [Users -> Names]
      /\ \A v \in Users : RightOf(s.chans, v, s.chat[v], s.tmpOP[v])
  BY DEF StateInv, RightsInv
<1>2. Empowered(s, u, name) = IF u \in Officers THEN t ELSE s
  BY <1>1 DEF Empowered, Put, IsState
<1>3. o \in [Users -> Names] /\ o[u] = name /\ \A v \in Users \ {u} : o[v] = s.tmpOP[v]
  BY <1>1 DEF Put
<1> HIDE DEF o
<1>4. IsState(t) /\ t.chans = s.chans /\ t.list = s.list /\ t.chat = s.chat /\ t.tmpOP = o
  BY <1>1 DEF IsState
<1> HIDE DEF t
<1>5. u \in Officers => \A v \in Users : RightOf(s.chans, v, s.chat[v], o[v])
  BY <1>1, <1>3 DEF RightOf
<1>6. u \in Officers => StateInv(t, {})
  BY <1>3, <1>4, <1>5 DEF StateInv, RightsInv
<1> QED BY <1>2, <1>4, <1>6

\* conn_set_channel, whether the user gets in or not.
LEMMA ChannelSet ==
  ASSUME NEW s, StateInv(s, {}), NEW u \in Users, NEW name \in Names, name # NoName
  PROVE  StateInv(conn_set_channel(s, u, name).s, {})
<1> DEFINE f == find_channel_by_name(s, name, Country[u])
           v == find_channel_by_name(f.s, Void, Country[u])
           e == [s |-> Empowered(f.s, u, name), found |-> f.found]
           r == conn_set_channel(s, u, name)
<1>1. Country[u] \in STRING /\ Void \in Names /\ Void # NoName
  BY Constants, ZenonT(60)
<1>2. Known(s, f)
  BY <1>1, LookedUp
<1>3. StateInv(f.s, {}) /\ f.found \in DOMAIN f.s.chans \cup {Null} /\ f.s.chat = s.chat
  BY <1>2 DEF Known
<1>4. r = SetFound(s, u, name, f)
  BY Zenon DEF conn_set_channel
<1>5. CASE f.found # Null /\ f.found = s.chat[u]
  <2>1. r = Success(s)
    BY <1>4, <1>5, Zenon DEF SetFound
  <2>2. r.s = s
    BY <2>1 DEF Success
  <2> QED BY <2>2
<1> HIDE DEF f, r
<1>6. ASSUME f.found = Null \/ f.found # s.chat[u] PROVE StateInv(Moved(u, name, f).s, {})
  BY <1>3, <1>6, MovedIs
<1>7. CASE ~(f.found # Null /\ f.found = s.chat[u]) /\ ~OfClan(u, name)
  <2>1. r = Moved(u, name, f)
    BY <1>4, <1>7, Zenon DEF SetFound
  <2> QED BY <1>6, <1>7, <2>1 DEF r
<1>8. CASE ~(f.found # Null /\ f.found = s.chat[u]) /\ OfClan(u, name) /\ ClanOf[u] = name
  <2>1. r = Moved(u, name, e)
    BY <1>4, <1>8, Zenon DEF SetFound
  <2>2. e.found = f.found /\ StateInv(e.s, {}) /\ e.s.chans = f.s.chans /\ e.s.chat = f.s.chat
    BY <1>3, <1>8, EmpoweredIs
  <2> HIDE DEF e
  <2>3. StateInv(Moved(u, name, e).s, {})
    BY <1>3, <1>8, <2>2, MovedIs
  <2> QED BY <2>1, <2>3 DEF r
<1>9. CASE /\ ~(f.found # Null /\ f.found = s.chat[u]) /\ OfClan(u, name) /\ ClanOf[u] # name
           /\ f.found = Null /\ s.chat[u] = Null
  <2>1. r = Moved(u, name, v)
    BY <1>4, <1>9, Zenon DEF SetFound
  <2>2. Known(f.s, v)
    BY <1>1, <1>3, LookedUp
  <2> HIDE DEF v
  <2>3. /\ StateInv(v.s, {}) /\ v.found \in DOMAIN v.s.chans \cup {Null}
        /\ v.found = Null \/ v.found # v.s.chat[u]
    BY <1>3, <1>9, <2>2 DEF Known
  <2>4. StateInv(Moved(u, name, v).s, {})
    BY <2>3, MovedIs
  <2> QED BY <2>1, <2>4 DEF r
<1>10. CASE /\ ~(f.found # Null /\ f.found = s.chat[u]) /\ OfClan(u, name) /\ ClanOf[u] # name
            /\ ~(f.found = Null /\ s.chat[u] = Null) /\ (f.found = Null \/ name \in Private)
  <2>1. r = Success(f.s)
    BY <1>4, <1>10, Zenon DEF SetFound
  <2>2. r.s = f.s
    BY <2>1 DEF Success
  <2> QED BY <1>3, <2>2 DEF r
<1>11. CASE /\ ~(f.found # Null /\ f.found = s.chat[u]) /\ OfClan(u, name) /\ ClanOf[u] # name
            /\ ~(f.found = Null /\ s.chat[u] = Null) /\ ~(f.found = Null \/ name \in Private)
  <2>1. r = Moved(u, name, f)
    BY <1>4, <1>11, Zenon DEF SetFound
  <2> QED BY <1>6, <1>11, <2>1 DEF r
<1> QED BY <1>5, <1>7, <1>8, <1>9, <1>10, <1>11 DEF r

\* A move that ends in the void when it is refused keeps the invariant.
LEMMA SetOrVoidIs ==
  ASSUME NEW s, StateInv(s, {}), NEW u \in Users, NEW name \in Names, name # NoName
  PROVE  StateInv(SetOrVoid(s, u, name), {})
<1> DEFINE r == conn_set_channel(s, u, name)
<1>1. StateInv(r.s, {})
  BY ChannelSet
<1>2. SetOrVoid(s, u, name) = IF r.ok THEN r.s ELSE conn_set_channel(r.s, u, Void).s
  BY Zenon DEF SetOrVoid, VoidIfRefused
<1>3. Void \in Names /\ Void # NoName
  BY Constants, ZenonT(60)
<1> HIDE DEF r
<1>4. StateInv(conn_set_channel(r.s, u, Void).s, {})
  BY <1>1, <1>3, ChannelSet
<1> QED BY <1>1, <1>2, <1>4

\* The state with one channel changed.
PutChannel(s, p, ch) == [s EXCEPT !.chans[p] = ch]

\* A channel whose names, kind and members stay may be changed in its place.
LEMMA ChannelPut ==
  ASSUME NEW s, StateInv(s, {}), NEW p \in DOMAIN s.chans, NEW ch \in ChannelRec,
         ch.name = s.chans[p].name, ch.short = s.chans[p].short, ch.perm = s.chans[p].perm,
         ch.curr = s.chans[p].curr, ch.members = s.chans[p].members
  PROVE  /\ StateInv(PutChannel(s, p, ch), {}) /\ PutChannel(s, p, ch).chat = s.chat
<1> DEFINE C == s.chans
           D == Put(C, p, ch)
           r == [s EXCEPT !.chans = D]
<1>1. PutChannel(s, p, ch) = r
  BY DEF PutChannel, Put, StateInv, IsState
<1>2. /\ IsState(s) /\ ChannelsInv(C) /\ ListInv(C, s.list) /\ PlacesInv(C, s.chat)
      /\ Peopled(C, {}) /\ RightsInv(C, s.chat, s.tmpOP)
  BY DEF StateInv
<1> HIDE DEF D
<1>3. IsState(r) /\ r.chans = D /\ r.list = s.list /\ r.chat = s.chat /\ r.tmpOP = s.tmpOP
  BY <1>2 DEF IsState
<1> HIDE DEF r
<1>4. p \in DOMAIN C /\ ch.name = C[p].name /\ ch.short = C[p].short
  OBVIOUS
<1>5. /\ ChannelsInv(D) /\ DOMAIN D = DOMAIN C /\ D[p] = ch /\ \A q \in DOMAIN C \ {p} : D[q] = C[q]
      /\ \A v : \A q \in DOMAIN C \cup {Null} : \A n : RightOf(C, v, q, n) => RightOf(D, v, q, n)
      /\ ListInv(D, s.list)
  <2> HIDE DEF C
  <2> QED BY <1>2, <1>4, PutIs DEF D
<1>6. \A in : MembersInv(C[p], p, in) => MembersInv(ch, p, in)
  BY DEF MembersInv
<1> HIDE DEF C
<1>7. PlacesInv(D, s.chat)
  <2>1. \A q \in DOMAIN D : MembersInv(D[q], q, s.chat)
    BY <1>2, <1>5, <1>6 DEF PlacesInv
  <2> QED BY <1>2, <1>5, <2>1 DEF PlacesInv
<1>8. Peopled(D, {})
  BY <1>2, <1>5 DEF Peopled, C
<1>9. RightsInv(D, s.chat, s.tmpOP)
  BY <1>2, <1>5 DEF RightsInv, PlacesInv
<1> QED BY <1>1, <1>3, <1>5, <1>7, <1>8, <1>9 DEF StateInv

\* The bans of a channel may change.
LEMMA BansPut ==
  ASSUME NEW s, StateInv(s, {}), NEW p \in DOMAIN s.chans, NEW b, b \subseteq Users
  PROVE  LET r == [s EXCEPT !.chans[p].bans = b] IN StateInv(r, {}) /\ r.chat = s.chat
<1> DEFINE c == s.chans[p]
           ch == [c EXCEPT !.bans = b]
<1>1. c \in ChannelRec
  BY DEF StateInv, ChannelsInv
<1>2. [s EXCEPT !.chans[p].bans = b] = PutChannel(s, p, ch)
  BY DEF PutChannel
<1>3. /\ ch \in ChannelRec /\ ch.name = c.name /\ ch.short = c.short /\ ch.perm = c.perm
      /\ ch.curr = c.curr /\ ch.members = c.members
  <2> HIDE DEF c
  <2> QED BY <1>1 DEF ChannelRec
<1> HIDE DEF ch
<1>4. StateInv(PutChannel(s, p, ch), {}) /\ PutChannel(s, p, ch).chat = s.chat
  BY <1>3, ChannelPut
<1> QED BY <1>2, <1>4

\* The limit of a channel may change.
LEMMA MaxPut ==
  ASSUME NEW s, StateInv(s, {}), NEW p \in DOMAIN s.chans, NEW max \in Int
  PROVE  StateInv([s EXCEPT !.chans[p].max = max], {})
<1> DEFINE c == s.chans[p]
           ch == [c EXCEPT !.max = max]
<1>1. c \in ChannelRec
  BY DEF StateInv, ChannelsInv
<1>2. [s EXCEPT !.chans[p].max = max] = PutChannel(s, p, ch)
  BY DEF PutChannel
<1>3. /\ ch \in ChannelRec /\ ch.name = c.name /\ ch.short = c.short /\ ch.perm = c.perm
      /\ ch.curr = c.curr /\ ch.members = c.members
  <2> HIDE DEF c
  <2> QED BY <1>1 DEF ChannelRec
<1> HIDE DEF ch
<1>4. StateInv(PutChannel(s, p, ch), {})
  BY <1>3, ChannelPut
<1> QED BY <1>2, <1>4

\* channel_ban_user keeps the invariant.
LEMMA BannedIs ==
  ASSUME NEW s, StateInv(s, {}), NEW p \in DOMAIN s.chans, NEW u \in Users
  PROVE  StateInv(Banned(s, p, u), {}) /\ Banned(s, p, u).chat = s.chat
<1> DEFINE b == s.chans[p].bans \cup {u}
           r == [s EXCEPT !.chans[p].bans = b]
<1>1. s.chans[p] \in ChannelRec
  BY DEF StateInv, ChannelsInv
<1>2. b \subseteq Users
  BY <1>1, ChannelFields
<1>3. Banned(s, p, u) = IF NameOf(s, p) = Void THEN s ELSE r
  BY DEF Banned
<1> HIDE DEF b
<1>4. StateInv(r, {}) /\ r.chat = s.chat
  BY <1>2, BansPut
<1> HIDE DEF r
<1> QED BY <1>3, <1>4

\* A temporary operator right may be taken.
LEMMA RightLost ==
  ASSUME NEW s, StateInv(s, {}), NEW u \in Users
  PROVE  StateInv([s EXCEPT !.tmpOP[u] = NoName], {})
<1> DEFINE o == Put(s.tmpOP, u, NoName)
           t == [s EXCEPT !.tmpOP = o]
<1>1. IsState(s) /\ s.tmpOP \in [Users -> Names]
      /\ \A v \in Users : RightOf(s.chans, v, s.chat[v], s.tmpOP[v])
  BY DEF StateInv, RightsInv
<1>2. [s EXCEPT !.tmpOP[u] = NoName] = t
  BY <1>1 DEF Put, IsState
<1>3. o \in [Users -> Names] /\ o[u] = NoName /\ \A v \in Users \ {u} : o[v] = s.tmpOP[v]
  BY <1>1, NamesMade, ZenonT(60) DEF Put
<1> HIDE DEF o
<1>4. IsState(t) /\ t.chans = s.chans /\ t.list = s.list /\ t.chat = s.chat /\ t.tmpOP = o
  BY <1>1 DEF IsState
<1> HIDE DEF t
<1>5. \A v \in Users : RightOf(s.chans, v, s.chat[v], o[v])
  BY <1>1, <1>3 DEF RightOf
<1>6. StateInv(t, {})
  BY <1>3, <1>4, <1>5 DEF StateInv, RightsInv
<1> QED BY <1>2, <1>6

\* A list from its end.
LEMMA Reversed ==
  ASSUME NEW S, NEW s \in Seq(S)
  PROVE  /\ Reverse(s) \in Seq(S) /\ Len(Reverse(s)) = Len(s) /\ DOMAIN Reverse(s) = 1..Len(s)
         /\ Len(s) \in Nat
<1> DEFINE n == Len(s)
           t == [i \in 1..n |-> s[(n - i) + 1]]
<1>1. n \in Nat /\ \A i \in 1..n : s[i] \in S
  OBVIOUS
<1> HIDE DEF n
<1>2. t \in Seq(S) /\ Len(t) = n /\ DOMAIN t = 1..n
  <2>1. \A i \in 1..n : (n - i) + 1 \in 1..n
    BY <1>1
  <2>2. t \in [1..n -> S]
    BY <1>1, <2>1
  <2> HIDE DEF t
  <2> QED BY <1>1, <2>2
<1>3. Reverse(s) = t
  BY DEF Reverse, n
<1> QED BY <1>1, <1>2, <1>3 DEF n

\* A reload: the members of a channel come back, those of one channel after another.
ReturnTurn(c, t, u) == conn_set_channel(t, u, ReturnsTo(c)).s
ReturnInv(c, k, t) == StateInv(t, {})
ReturnFold == INSTANCE FoldInduction WITH Op <- ReturnTurn, Inv <- ReturnInv

\* The members of one old channel come back: the invariant stays after each.
LEMMA ReturnedIs ==
  ASSUME NEW s, StateInv(s, {}), NEW ch \in ChannelRec, ch.short # NoName
  PROVE  StateInv(Returned(s, ch), {})
<1> DEFINE l == Reverse(ch.members)
           n == Len(l)
<1>1. n \in Nat /\ DOMAIN l = 1..n /\ \A i \in 1..n : l[i] \in Users
  <2>1. ch.members \in Seq(Users)
    BY ChannelFields
  <2>2. l \in Seq(Users)
    BY <2>1, Reversed
  <2> HIDE DEF l
  <2> QED BY <2>2
<1>2. ReturnInv(ch, 0, s)
  BY DEF ReturnInv
<1>3. ASSUME NEW t, NEW i \in 1..n, ReturnInv(ch, i - 1, t)
      PROVE  ReturnInv(ch, i, ReturnTurn(ch, t, l[i]))
  <2>1. StateInv(t, {}) /\ l[i] \in Users /\ ReturnsTo(ch) \in Names /\ ReturnsTo(ch) # NoName
    BY <1>1, <1>3, ChannelFields DEF ReturnInv, ReturnsTo
  <2> HIDE DEF l
  <2> QED BY <2>1, ChannelSet DEF ReturnInv, ReturnTurn
<1> HIDE DEF n, l
<1>4. ReturnInv(ch, n, ReturnFold!Fold(ch, s, l))
  BY <1>1, <1>2, <1>3, ReturnFold!FoldLeftInv
<1>5. Returned(s, ch) = ReturnFold!Fold(ch, s, l)
  BY DEF Returned, ReturnTurn, FoldLeft, MapThenFoldSet, Max, l, ReturnFold!Fold, ReturnFold!Greatest
<1> QED BY <1>4, <1>5 DEF ReturnInv

ReloadTurn(c, t, p) == Returned(t, c[p])
ReloadInv(c, k, t) == StateInv(t, {})
ReloadFold == INSTANCE FoldInduction WITH Op <- ReloadTurn, Inv <- ReloadInv

Reloaded == FoldLeft(LAMBDA s, p : Returned(s, chans[p]), LoadPermanent(AllOut), Reverse(list))
\* A reload keeps the invariant: all out, the new list, and each comes back.
LEMMA ReloadedIs ==
  ASSUME StateInv(State, {})
  PROVE  StateInv(Reloaded, {})
<1> DEFINE base == LoadPermanent(AllOut)
           l == Reverse(list)
           n == Len(l)
           c == chans
<1>0. /\ ChannelsInv(chans) /\ ListInv(chans, list) /\ PlacesInv(chans, chat)
      /\ RightsInv(chans, chat, tmpOP)
  BY DEF StateInv, State
<1>1. StateInv(base, {})
  <2> DEFINE in == [u \in Users |-> Null]
             o == [u \in Users |-> IF In(u) /\ tmpOP[u] = NameOf(State, chat[u])
                                   THEN NoName ELSE tmpOP[u]]
             t == [State EXCEPT !.chat = in, !.tmpOP = o]
  <2>1. AllOut = t
    BY DEF AllOut
  <2>2. o \in [Users -> Names]
    BY <1>0, NamesMade, ZenonT(60) DEF RightsInv
  <2>3. ASSUME NEW u \in Users, o[u] # NoName PROVE o[u] = ClanOf[u] /\ u \in Officers
    <3>1. RightOf(chans, u, chat[u], tmpOP[u])
      BY <1>0 DEF RightsInv
    <3>2. NameOf(State, chat[u]) = chans[chat[u]].name
      BY DEF NameOf, State
    <3> QED BY <2>3, <3>1, <3>2 DEF RightOf, In
  <2> HIDE DEF in, o
  <2>4. IsState(t) /\ t.chat = in /\ t.tmpOP = o
    BY DEF IsState, State
  <2> HIDE DEF t
  <2>5. StateInv(LoadPermanent(t), {})
    <3>1. t.chat = [u \in Users |-> Null]
      BY <2>4 DEF in
    <3> QED BY <2>2, <2>3, <2>4, <3>1, Loaded
  <2> QED BY <2>1, <2>5
<1>2. n \in Nat /\ DOMAIN l = 1..n /\ \A i \in 1..n : l[i] \in DOMAIN chans
  <2>1. list \in Seq(Nat) /\ ToSet(list) = DOMAIN chans
    BY <1>0 DEF ListInv
  <2>2. list \in Seq(DOMAIN chans)
    BY <2>1, Retyped
  <2>3. l \in Seq(DOMAIN chans)
    BY <2>2, Reversed
  <2> HIDE DEF l
  <2> QED BY <2>3
<1>3. ReloadInv(c, 0, base)
  BY <1>1 DEF ReloadInv
<1>4. ASSUME NEW t, NEW i \in 1..n, ReloadInv(c, i - 1, t)
      PROVE  ReloadInv(c, i, ReloadTurn(c, t, l[i]))
  <2>1. StateInv(t, {}) /\ c[l[i]] \in ChannelRec /\ c[l[i]].short # NoName
    BY <1>0, <1>2, <1>4 DEF ReloadInv, ChannelsInv
  <2> HIDE DEF l, c
  <2> QED BY <2>1, ReturnedIs DEF ReloadInv, ReloadTurn
<1> HIDE DEF n, l, base, c
<1>5. ReloadInv(c, n, ReloadFold!Fold(c, base, l))
  BY <1>2, <1>3, <1>4, ReloadFold!FoldLeftInv
<1>6. Reloaded = ReloadFold!Fold(c, base, l)
  BY DEF Reloaded, ReloadTurn, FoldLeft, MapThenFoldSet, Max, base, l, c, ReloadFold!Fold, ReloadFold!Greatest
<1> QED BY <1>5, <1>6 DEF ReloadInv

\* The invariant of the specification.
ChatInv ==
  /\ StateInv(State, {})
  /\ tmpVOICE \in [Users -> Names] /\ oper \in [Users -> SUBSET Names]

\* The state as a record is made of the variables.
LEMMA StateIs ==
  /\ State.chans = chans /\ State.list = list /\ State.chat = chat /\ State.tmpOP = tmpOP
  /\ IsState(State)
BY DEF State, IsState

\* The state that a handler leaves.
LEMMA SetIs ==
  ASSUME NEW s, StateInv(s, {}), Set(s)
  PROVE  StateInv(State, {})'
<1>1. chans' = s.chans /\ list' = s.list /\ chat' = s.chat /\ tmpOP' = s.tmpOP
  BY DEF Set
<1>2. /\ State'.chans = s.chans /\ State'.list = s.list /\ State'.chat = s.chat
      /\ State'.tmpOP = s.tmpOP
      /\ IsState(State')
  BY <1>1 DEF State, IsState
<1>3. StateInv(State', {})
  BY <1>2, SameState
<1> QED BY <1>3

\* The channel of a user who has one, and its name.
LEMMA HisChannel ==
  ASSUME StateInv(State, {}), NEW u \in Users, In(u)
  PROVE  /\ chat[u] \in DOMAIN chans /\ State.chat[u] = chat[u] /\ State.chat[u] # Null
         /\ NameOf(State, chat[u]) \in Names /\ NameOf(State, chat[u]) # NoName
         /\ NameOf(State, chat[u]) = chans[chat[u]].name
<1>1. chat[u] \in DOMAIN chans /\ chat[u] # Null
  BY StateIs DEF StateInv, PlacesInv, In
<1>2. chans[chat[u]] \in ChannelRec /\ chans[chat[u]].name # NoName
  BY <1>1, StateIs DEF StateInv, ChannelsInv
<1>3. NameOf(State, chat[u]) = chans[chat[u]].name
  BY StateIs DEF NameOf
<1> QED BY <1>1, <1>2, <1>3, StateIs, ChannelFields

\* The operator rights that are changed and nothing else.
LEMMA RightsChange ==
  ASSUME StateInv(State, {}), UNCHANGED <<chans, list, chat>>, tmpOP' \in [Users -> Names],
         \A u \in Users : RightOf(chans, u, chat[u], tmpOP'[u])
  PROVE  StateInv(State, {})'
<1>1. /\ ChannelsInv(chans) /\ ListInv(chans, list) /\ PlacesInv(chans, chat) /\ Peopled(chans, {})
  BY StateIs DEF StateInv
<1>2. State'.chans = chans /\ State'.list = list /\ State'.chat = chat
      /\ State'.tmpOP = tmpOP' /\ IsState(State')
  BY DEF State, IsState
<1>3. RightsInv(chans, chat, tmpOP')
  BY DEF RightsInv
<1>4. StateInv(State', {})
  BY <1>1, <1>2, <1>3 DEF StateInv
<1> QED BY <1>4

\* The invariant holds at the start: channel.conf is read and nobody is in a channel.
LEMMA ChatStart == Init => ChatInv
<1> SUFFICES ASSUME Init PROVE ChatInv
  OBVIOUS
<1> DEFINE s == LoadPermanent(Nobody)
<1>1. StateInv(s, {})
  <2> DEFINE t == Nobody
  <2>1. IsState(t) /\ t.chat = [u \in Users |-> Null] /\ t.tmpOP = [u \in Users |-> NoName]
    BY DEF Nobody, IsState
  <2> HIDE DEF t
  <2>2. t.tmpOP \in [Users -> Names] /\ \A u \in Users : t.tmpOP[u] = NoName
    BY <2>1, NamesMade, ZenonT(60)
  <2>3. StateInv(LoadPermanent(t), {})
    BY <2>1, <2>2, Loaded
  <2> QED BY <2>3 DEF t
<1>2. /\ chans = s.chans /\ list = s.list /\ chat = s.chat /\ tmpOP = s.tmpOP
      /\ tmpVOICE = [u \in Users |-> NoName] /\ oper = [u \in Users |-> {}]
  BY DEF Init
<1> HIDE DEF s
<1>3. StateInv(State, {})
  BY <1>1, <1>2, StateIs, SameState
<1> QED BY <1>2, <1>3, NamesMade, ZenonT(60) DEF ChatInv

\* Each step keeps the invariant: moving about, ...
LEMMA MovesKeep ==
  ASSUME StateInv(State, {}), NEW u \in Users,
         \/ \E name \in Requests : JoinChannel(u, name) \/ IrcJoin(u, name)
         \/ Part(u) \/ Disconnect(u) \/ Rejoin(u)
  PROVE  StateInv(State, {})'
<1>1. ASSUME NEW name \in Requests, JoinChannel(u, name) PROVE StateInv(State, {})'
  <2>1. name \in Names /\ name # NoName
    BY Constants, ZenonT(60)
  <2>2. StateInv(SetOrVoid(State, u, name), {})
    BY <2>1, SetOrVoidIs
  <2>3. Set(SetOrVoid(State, u, name))
    BY <1>1 DEF JoinChannel
  <2> QED BY <2>2, <2>3, SetIs
<1>2. ASSUME NEW name \in Requests, IrcJoin(u, name) PROVE StateInv(State, {})'
  <2> DEFINE f == find_channel_by_name(State, name, NoCountry)
             s == IrcJoined(f, u, name)
  <2>1. name \in Names /\ name # NoName /\ NoCountry \in STRING
    BY Constants, ZenonT(60)
  <2>2. StateInv(f.s, {})
    BY <2>1, LookedUp DEF Known
  <2> HIDE DEF f
  <2>3. StateInv(conn_set_channel(f.s, u, name).s, {})
    BY <2>1, <2>2, ChannelSet
  <2>4. s = IF f.found # Null /\ Refused(f.s, u, f.found, name) THEN f.s
            ELSE conn_set_channel(f.s, u, name).s
    BY Zenon DEF IrcJoined
  <2>5. Set(s)
    BY <1>2 DEF IrcJoin, f
  <2> HIDE DEF s
  <2>6. StateInv(s, {})
    BY <2>2, <2>3, <2>4
  <2> QED BY <2>5, <2>6, SetIs
<1>3. ASSUME In(u) PROVE StateInv(Parted(State, u), {})
  BY <1>3, HisChannel, UserLeft
<1>4. CASE Part(u)
  <2>1. In(u) /\ Set(Parted(State, u))
    BY <1>4 DEF Part
  <2> QED BY <1>3, <2>1, SetIs
<1>5. CASE Disconnect(u)
  <2> DEFINE s == IF In(u) THEN Parted(State, u) ELSE State
             t == [s EXCEPT !.tmpOP[u] = NoName]
  <2>1. StateInv(s, {})
    BY <1>3
  <2>2. Set(t)
    BY <1>5 DEF Disconnect
  <2> HIDE DEF s
  <2>3. StateInv(t, {})
    BY <2>1, RightLost
  <2> HIDE DEF t
  <2> QED BY <2>2, <2>3, SetIs
<1>6. CASE Rejoin(u)
  <2> DEFINE s == Parted(State, u)
             name == NameOf(State, chat[u])
             t == SetOrVoid(s, u, name)
  <2>1. In(u) /\ Set(t)
    BY <1>6 DEF Rejoin
  <2>2. StateInv(s, {}) /\ name \in Names /\ name # NoName
    BY <1>3, <2>1, HisChannel
  <2> HIDE DEF s, name
  <2>3. StateInv(t, {})
    BY <2>2, SetOrVoidIs
  <2> HIDE DEF t
  <2> QED BY <2>1, <2>3, SetIs
<1> QED BY <1>1, <1>2, <1>4, <1>5, <1>6

\* ... the commands that send somebody away or set a limit, ...
LEMMA CommandsKeep ==
  ASSUME StateInv(State, {}), NEW c \in Users, NEW u \in Users,
         Kick(c, u) \/ Ban(c, u) \/ Unban(c, u) \/ IrcBan(c, u)
  PROVE  StateInv(State, {})'
<1> DEFINE p == chat[c]
           b == Banned(State, p, u)
<1>1. Void \in Names /\ Void # NoName
  BY Constants, ZenonT(60)
<1>2. In(c)
  BY DEF Kick, Ban, Unban, IrcBan, Operates, TmpOperates, Together
<1>3. p \in DOMAIN State.chans
  BY <1>2, HisChannel, StateIs
<1>4. StateInv(b, {})
  <2> HIDE DEF p
  <2> QED BY <1>3, BannedIs
<1>5. CASE Kick(c, u)
  <2> DEFINE s == Parted(State, u)
             t == IF u \in IrcUsers THEN s ELSE conn_set_channel(s, u, Void).s
  <2>1. In(u) /\ Set(t)
    <3>1. chat[u] = chat[c] /\ Set(t)
      BY <1>5 DEF Kick, Together
    <3> QED BY <1>2, <3>1 DEF In
  <2>2. StateInv(s, {})
    BY <2>1, HisChannel, UserLeft
  <2> HIDE DEF s
  <2>3. StateInv(conn_set_channel(s, u, Void).s, {})
    BY <1>1, <2>2, ChannelSet
  <2>4. StateInv(t, {})
    BY <2>2, <2>3
  <2> HIDE DEF t
  <2> QED BY <2>1, <2>4, SetIs
<1>6. CASE Ban(c, u)
  <2> DEFINE t == IF Together(c, u) THEN conn_set_channel(b, u, Void).s ELSE b
  <2>1. Set(t)
    BY <1>6 DEF Ban
  <2> HIDE DEF b
  <2>2. StateInv(conn_set_channel(b, u, Void).s, {})
    BY <1>1, <1>4, ChannelSet
  <2>3. StateInv(t, {})
    BY <1>4, <2>2
  <2> HIDE DEF t
  <2> QED BY <2>1, <2>3, SetIs
<1>7. CASE Unban(c, u)
  <2> DEFINE k == State.chans[p].bans \ {u}
             t == [State EXCEPT !.chans[p].bans = k]
  <2>1. Set(t)
    BY <1>7 DEF Unban
  <2>2. State.chans[p] \in ChannelRec
    BY <1>3 DEF StateInv, ChannelsInv
  <2>3. k \subseteq Users
    BY <2>2, ChannelFields
  <2> DEFINE s == State
  <2>4. StateInv(s, {}) /\ p \in DOMAIN s.chans
    BY <1>3
  <2> HIDE DEF k, s, p
  <2>5. StateInv([s EXCEPT !.chans[p].bans = k], {})
    BY <2>3, <2>4, BansPut
  <2>6. StateInv(t, {})
    BY <2>5 DEF s
  <2> HIDE DEF t
  <2> QED BY <2>1, <2>6, SetIs
<1>8. CASE IrcBan(c, u)
  <2>1. Set(b)
    BY <1>8 DEF IrcBan
  <2> HIDE DEF b
  <2> QED BY <1>4, <2>1, SetIs
<1> QED BY <1>5, <1>6, <1>7, <1>8

\* /max keeps the invariant.
LEMMA LimitKeeps ==
  ASSUME StateInv(State, {}), NEW c \in Users, NEW max \in Limits \cup {NoLimit}, SetMax(c, max)
  PROVE  StateInv(State, {})'
<1> DEFINE p == chat[c]
           t == [State EXCEPT !.chans[p].max = max]
<1>1. In(c)
  BY DEF SetMax, Operates, TmpOperates
<1>2. p \in DOMAIN State.chans
  BY <1>1, HisChannel, StateIs
<1>3. max \in Int
  <2>1. Limits \subseteq Nat \ {0}
    BY Constants, ZenonT(60)
  <2>2. NoLimit \in Int
    BY DEF NoLimit
  <2>3. Limits \subseteq Int
    BY <2>1
  <2> HIDE DEF NoLimit
  <2> QED BY <2>2, <2>3
<1>4. Set(t)
  BY DEF SetMax
<1> DEFINE s == State
<1>5. StateInv(s, {}) /\ p \in DOMAIN s.chans
  BY <1>2
<1> HIDE DEF s, p
<1>6. StateInv([s EXCEPT !.chans[p].max = max], {})
  BY <1>3, <1>5, MaxPut
<1>7. StateInv(t, {})
  BY <1>6 DEF s
<1> HIDE DEF t
<1> QED BY <1>4, <1>7, SetIs

\* ... the commands on rights, ...
LEMMA RightsKeep ==
  ASSUME StateInv(State, {}), NEW c \in Users, NEW u \in Users,
         Op(c, u) \/ TmpOp(c, u) \/ DeOp(c, u)
  PROVE  StateInv(State, {})'
<1>1. tmpOP \in [Users -> Names] /\ \A v \in Users : RightOf(chans, v, chat[v], tmpOP[v])
  BY StateIs DEF StateInv, RightsInv
<1>2. UNCHANGED <<chans, list, chat>>
  BY DEF Op, TmpOp, DeOp
<1>3. ASSUME UNCHANGED tmpOP PROVE StateInv(State, {})'
  BY <1>1, <1>2, <1>3, RightsChange
<1>4. ASSUME Together(c, u), tmpOP' = [tmpOP EXCEPT ![u] = Here(c)] PROVE StateInv(State, {})'
  <2>1. In(c) /\ chat[u] = chat[c]
    BY <1>4 DEF Together
  <2>2. /\ Here(c) \in Names /\ Here(c) = chans[chat[u]].name /\ chat[u] # Null
    BY <2>1, HisChannel DEF Here, In
  <2> DEFINE h == Here(c)
  <2> HIDE DEF h
  <2>3. tmpOP' = [tmpOP EXCEPT ![u] = h] /\ h \in Names /\ h = chans[chat[u]].name
    BY <1>4, <2>2 DEF h
  <2>4. tmpOP' \in [Users -> Names] /\ tmpOP'[u] = h /\ \A v \in Users \ {u} : tmpOP'[v] = tmpOP[v]
    BY <1>1, <2>3
  <2>5. \A v \in Users : RightOf(chans, v, chat[v], tmpOP'[v])
    BY <1>1, <2>2, <2>3, <2>4 DEF RightOf
  <2> QED BY <1>2, <2>4, <2>5, RightsChange
<1>5. CASE DeOp(c, u)
  <2> DEFINE o == IF tmpOP[u] = Here(c) THEN NoName ELSE tmpOP[u]
  <2>1. tmpOP' = [tmpOP EXCEPT ![u] = o]
    BY <1>5 DEF DeOp
  <2>2. o \in Names /\ RightOf(chans, u, chat[u], o)
    BY <1>1, NamesMade, ZenonT(60) DEF RightOf
  <2> HIDE DEF o
  <2>3. tmpOP' \in [Users -> Names] /\ tmpOP'[u] = o /\ \A v \in Users \ {u} : tmpOP'[v] = tmpOP[v]
    BY <1>1, <2>1, <2>2
  <2>4. \A v \in Users : RightOf(chans, v, chat[v], tmpOP'[v])
    BY <1>1, <2>2, <2>3
  <2> QED BY <1>2, <2>3, <2>4, RightsChange
<1>6. CASE Op(c, u)
  <2>1. UNCHANGED tmpOP \/ (Together(c, u) /\ tmpOP' = [tmpOP EXCEPT ![u] = Here(c)])
    BY <1>6 DEF Op
  <2> QED BY <1>3, <1>4, <2>1
<1>7. CASE TmpOp(c, u)
  BY <1>4, <1>7 DEF TmpOp
<1> QED BY <1>5, <1>6, <1>7

\* ... on voice, with the types of what is given, and a reload.
LEMMA GivenTyped ==
  ASSUME ChatInv, Next
  PROVE  tmpVOICE' \in [Users -> Names] /\ oper' \in [Users -> SUBSET Names]
<1>1. StateInv(State, {}) /\ tmpVOICE \in [Users -> Names] /\ oper \in [Users -> SUBSET Names]
  BY DEF ChatInv
<1>2. ASSUME NEW c \in Users, In(c) PROVE Here(c) \in Names
  BY <1>1, <1>2, HisChannel DEF Here
<1>3. ASSUME UNCHANGED <<tmpVOICE, oper>>
      PROVE  tmpVOICE' \in [Users -> Names] /\ oper' \in [Users -> SUBSET Names]
  BY <1>1, <1>3
<1>4. ASSUME NEW u \in Users, \/ \E name \in Requests : JoinChannel(u, name) \/ IrcJoin(u, name)
                              \/ Part(u) \/ Rejoin(u)
      PROVE  tmpVOICE' \in [Users -> Names] /\ oper' \in [Users -> SUBSET Names]
  BY <1>3, <1>4 DEF JoinChannel, IrcJoin, Part, Rejoin
<1>5. ASSUME NEW u \in Users, Disconnect(u)
      PROVE  tmpVOICE' \in [Users -> Names] /\ oper' \in [Users -> SUBSET Names]
  <2>1. tmpVOICE' = [tmpVOICE EXCEPT ![u] = NoName] /\ UNCHANGED oper
    BY <1>5 DEF Disconnect
  <2> QED BY <1>1, <2>1, NamesMade, ZenonT(60)
<1>6. ASSUME NEW c \in Users, NEW u \in Users,
             Kick(c, u) \/ Ban(c, u) \/ Unban(c, u) \/ IrcBan(c, u) \/ TmpOp(c, u)
      PROVE  tmpVOICE' \in [Users -> Names] /\ oper' \in [Users -> SUBSET Names]
  BY <1>3, <1>6 DEF Kick, Ban, Unban, IrcBan, TmpOp
<1>7. ASSUME NEW c \in Users, NEW u \in Users, Op(c, u)
      PROVE  tmpVOICE' \in [Users -> Names] /\ oper' \in [Users -> SUBSET Names]
  <2>1. CASE UNCHANGED oper
    BY <1>3, <1>7, <2>1 DEF Op
  <2>2. CASE ~UNCHANGED oper
    <3>1. UNCHANGED tmpVOICE /\ In(c) /\ oper' = [oper EXCEPT ![u] = @ \cup {Here(c)}]
      BY <1>7, <2>2 DEF Op, Operates
    <3>2. Here(c) \in Names
      BY <1>2, <3>1
    <3> QED BY <1>1, <3>1, <3>2
  <2> QED BY <2>1, <2>2
<1>8. ASSUME NEW c \in Users, NEW u \in Users, DeOp(c, u)
      PROVE  tmpVOICE' \in [Users -> Names] /\ oper' \in [Users -> SUBSET Names]
  <2>1. UNCHANGED tmpVOICE /\ (oper' = oper \/ oper' = [oper EXCEPT ![u] = @ \ {Here(c)}])
    BY <1>8 DEF DeOp
  <2>2. oper' \in [Users -> SUBSET Names]
    BY <1>1, <2>1
  <2> QED BY <1>1, <2>1, <2>2
<1>9. ASSUME NEW c \in Users, NEW u \in Users, Voice(c, u) \/ DeVoice(c, u)
      PROVE  tmpVOICE' \in [Users -> Names] /\ oper' \in [Users -> SUBSET Names]
  <2>1. /\ In(c) /\ UNCHANGED oper
        /\ \/ tmpVOICE' = [tmpVOICE EXCEPT ![u] = Here(c)]
           \/ tmpVOICE' = [tmpVOICE EXCEPT ![u] = NoName]
    BY <1>9 DEF Voice, DeVoice, Operates
  <2>2. Here(c) \in Names /\ NoName \in Names
    BY <1>2, <2>1, NamesMade, ZenonT(60)
  <2>3. tmpVOICE' \in [Users -> Names]
    BY <1>1, <2>1, <2>2
  <2> QED BY <1>1, <2>1, <2>3
<1>10. ASSUME NEW c \in Users, NEW max \in Limits \cup {NoLimit}, SetMax(c, max)
       PROVE  tmpVOICE' \in [Users -> Names] /\ oper' \in [Users -> SUBSET Names]
  BY <1>3, <1>10 DEF SetMax
<1>11. CASE channellist_reload
  BY <1>3, <1>11, ZenonT(60) DEF channellist_reload
<1> QED BY <1>4, <1>5, <1>6, <1>7, <1>8, <1>9, <1>10, <1>11 DEF Next

\* Every step keeps the invariant.
LEMMA ChatStep == ChatInv /\ [Next]_vars => ChatInv'
<1> SUFFICES ASSUME ChatInv, [Next]_vars PROVE ChatInv'
  OBVIOUS
<1>1. StateInv(State, {})
  BY DEF ChatInv
<1>2. ASSUME UNCHANGED vars PROVE ChatInv'
  <2>1. UNCHANGED <<chans, list, chat, tmpOP, tmpVOICE, oper>>
    BY <1>2 DEF vars
  <2>2. tmpOP \in [Users -> Names] /\ \A v \in Users : RightOf(chans, v, chat[v], tmpOP[v])
    BY <1>1, StateIs DEF StateInv, RightsInv
  <2>3. StateInv(State, {})'
    BY <1>1, <2>1, <2>2, RightsChange
  <2> QED BY <2>1, <2>3 DEF ChatInv
<1>3. ASSUME Next PROVE ChatInv'
  <2>1. tmpVOICE' \in [Users -> Names] /\ oper' \in [Users -> SUBSET Names]
    BY <1>3, GivenTyped
  <2>2. ASSUME NEW u \in Users,
               \/ \E name \in Requests : JoinChannel(u, name) \/ IrcJoin(u, name)
               \/ Part(u) \/ Disconnect(u) \/ Rejoin(u)
        PROVE  StateInv(State, {})'
    BY <1>1, <2>2, MovesKeep
  <2>3. ASSUME NEW c \in Users, NEW u \in Users,
               Kick(c, u) \/ Ban(c, u) \/ Unban(c, u) \/ IrcBan(c, u)
        PROVE  StateInv(State, {})'
    BY <1>1, <2>3, CommandsKeep
  <2>4. ASSUME NEW c \in Users, NEW u \in Users, Op(c, u) \/ TmpOp(c, u) \/ DeOp(c, u)
        PROVE  StateInv(State, {})'
    BY <1>1, <2>4, RightsKeep
  <2>5. ASSUME NEW c \in Users, NEW u \in Users, Voice(c, u) \/ DeVoice(c, u)
        PROVE  StateInv(State, {})'
    <3>1. UNCHANGED <<chans, list, chat, tmpOP>>
      BY <2>5 DEF Voice, DeVoice
    <3>2. tmpOP \in [Users -> Names] /\ \A v \in Users : RightOf(chans, v, chat[v], tmpOP[v])
      BY <1>1, StateIs DEF StateInv, RightsInv
    <3> QED BY <1>1, <3>1, <3>2, RightsChange
  <2>6. ASSUME NEW c \in Users, NEW max \in Limits \cup {NoLimit}, SetMax(c, max)
        PROVE  StateInv(State, {})'
    BY <1>1, <2>6, LimitKeeps
  <2>7. ASSUME channellist_reload PROVE StateInv(State, {})'
    <3>1. Set(Reloaded)
      BY <2>7, ZenonT(60) DEF channellist_reload, Reloaded
    <3>2. StateInv(Reloaded, {})
      BY <1>1, ReloadedIs
    <3> QED BY <3>1, <3>2, SetIs
  <2>8. StateInv(State, {})'
    BY <1>3, <2>2, <2>3, <2>4, <2>5, <2>6, <2>7 DEF Next
  <2> QED BY <2>1, <2>8 DEF ChatInv
<1> QED BY <1>2, <1>3

\* The length of a list without repetition is the number of its elements.
LEMMA ListLength ==
  ASSUME NEW S, NEW l \in Seq(S), IsInjective(l)
  PROVE  Len(l) = Cardinality(ToSet(l))
<1> DEFINE n == Len(l)
           T == ToSet(l)
<1>1. n \in Nat /\ \A i \in 1..n : l[i] \in T
  BY Elements
<1>2. \A x \in T : \E i \in 1..n : l[i] = x
  BY Elements
<1>3. \A i, j \in 1..n : l[i] = l[j] => i = j
  BY DEF IsInjective
<1> DEFINE f == [i \in 1..n |-> l[i]]
<1> HIDE DEF n, T
<1>4. f \in Bijection(1..n, T)
  <2>1. f \in [1..n -> T]
    BY <1>1
  <2>2. \A i, j \in 1..n : f[i] = f[j] => i = j
    BY <1>3
  <2>3. \A x \in T : \E i \in 1..n : f[i] = x
    BY <1>2
  <2> HIDE DEF f
  <2> QED BY <2>1, <2>2, <2>3 DEF Bijection, Injection, Surjection, IsInjective
<1>5. ExistsBijection(1..n, T)
  BY <1>4 DEF ExistsBijection
<1>6. IsFiniteSet(1..n) /\ Cardinality(1..n) = n
  BY <1>1, IntervalSize
<1>7. Cardinality(T) = n
  <2>1. ExistsBijection(1..n, T) /\ n \in Nat
    BY <1>1, <1>5
  <2> QED BY <2>1, FS_CountingElements
<1> QED BY <1>7 DEF n, T

\* How often one is in a list without repetition.
LEMMA Occurs ==
  ASSUME NEW S, NEW l \in Seq(S), IsInjective(l), NEW x
  PROVE  Cardinality({i \in 1..Len(l) : l[i] = x}) = IF x \in ToSet(l) THEN 1 ELSE 0
<1> DEFINE I == {i \in 1..Len(l) : l[i] = x}
<1>1. CASE x \in ToSet(l)
  <2>1. PICK i \in 1..Len(l) : l[i] = x
    BY <1>1, Elements
  <2>2. \A j \in 1..Len(l) : l[j] = l[i] => j = i
    BY DEF IsInjective
  <2>3. I = {i}
    BY <2>1, <2>2
  <2>4. Cardinality({i}) = 1
    BY FS_Singleton
  <2> HIDE DEF I
  <2>5. Cardinality(I) = 1
    BY <2>3, <2>4
  <2> QED BY <1>1, <2>5 DEF I
<1>2. CASE x \notin ToSet(l)
  <2>1. I = {}
    BY <1>2, Elements
  <2>2. Cardinality({}) = 0
    BY FS_EmptySet
  <2> HIDE DEF I
  <2>3. Cardinality(I) = 0
    BY <2>1, <2>2
  <2> QED BY <1>2, <2>3 DEF I
<1> QED BY <1>1, <1>2

\* The invariant holds in every state of every behaviour.
THEOREM ChatInvHolds == Spec => []ChatInv
<1>1. Init => ChatInv
  BY ChatStart
<1>2. ChatInv /\ [Next]_vars => ChatInv'
  BY ChatStep
<1> QED BY <1>1, <1>2, PTL DEF Spec

\* The list of channels has exactly those that there are, whatever the users do: no
\* handler keeps, or leaves in the list or with a user, a channel that has gone.
THEOREM ChatTypeCorrect == Spec => []TypeOK
<1>1. ChatInv => TypeOK
  <2> SUFFICES ASSUME ChatInv PROVE TypeOK
    OBVIOUS
  <2>1. /\ ChannelsInv(chans) /\ ListInv(chans, list) /\ PlacesInv(chans, chat)
        /\ RightsInv(chans, chat, tmpOP)
        /\ tmpVOICE \in [Users -> Names] /\ oper \in [Users -> SUBSET Names]
    BY StateIs DEF ChatInv, StateInv
  <2>2. DOMAIN chans \subseteq Nat \ {Null}
        /\ \A p \in Live : chans[p] \in ChannelRec /\ chans[p].name # NoName
    BY <2>1 DEF ChannelsInv, Live
  <2>3. \A p \in Live : /\ chans[p].members \in Seq(Users) /\ chans[p].bans \subseteq Users
                        /\ chans[p].curr \in Nat /\ chans[p].max \in Int
    BY <2>2, ChannelFields
  <2>4. {list[i] : i \in 1..Len(list)} = Live
    <3>1. /\ \A i \in 1..Len(list) : list[i] \in DOMAIN chans
          /\ \A p \in DOMAIN chans : \E i \in 1..Len(list) : list[i] = p
      BY <2>1, Listing
    <3> QED BY <3>1 DEF Live
  <2>5. Len(list) = Cardinality(Live)
    BY <2>1, ListLength DEF ListInv, Live
  <2>6. chat \in [Users -> Live \cup {Null}]
    BY <2>1 DEF PlacesInv, Live
  <2>7. tmpOP \in [Users -> Names]
    BY <2>1 DEF RightsInv
  <2>8. NoName \notin {chans[p].name : p \in Live}
    BY <2>2
  <2> QED BY <2>1, <2>2, <2>3, <2>4, <2>5, <2>6, <2>7, <2>8 DEF TypeOK
<1> QED BY ChatInvHolds, <1>1, PTL

\* The member lists and the connections agree, the counters are the lengths of the lists, and
\* a temporary channel is never empty.
THEOREM MembershipsConsistent == Spec => []MembershipConsistent
<1>1. ChatInv => MembershipConsistent
  <2> SUFFICES ASSUME ChatInv, NEW p \in Live
               PROVE  /\ chans[p].curr = Len(chans[p].members)
                      /\ \A u \in Users :
                           Cardinality({i \in 1..Len(chans[p].members) : chans[p].members[i] = u})
                             = IF chat[u] = p THEN 1 ELSE 0
                      /\ ~chans[p].perm => chans[p].members # <<>>
    BY DEF MembershipConsistent
  <2>1. ChannelsInv(chans) /\ PlacesInv(chans, chat) /\ Peopled(chans, {})
    BY StateIs DEF ChatInv, StateInv
  <2> DEFINE m == chans[p].members
  <2>2. m \in Seq(Users)
    BY <2>1, ChannelFields DEF ChannelsInv, Live
  <2>3. MembersInv(chans[p], p, chat)
    BY <2>1 DEF PlacesInv, Live
  <2>4. chans[p].curr = Len(m) /\ IsInjective(m) /\ \A u \in Users : u \in ToSet(m) <=> chat[u] = p
    BY <2>3 DEF MembersInv
  <2> HIDE DEF m
  <2>5. \A u : Cardinality({i \in 1..Len(m) : m[i] = u}) = IF u \in ToSet(m) THEN 1 ELSE 0
    BY <2>2, <2>4, Occurs
  <2>6. ~chans[p].perm => m # <<>>
    BY <2>1 DEF Peopled, Live, m
  <2> QED BY <2>4, <2>5, <2>6 DEF m
<1> QED BY ChatInvHolds, <1>1, PTL

\* Nobody holds the temporary operator right for a channel he is not in, but for the
\* officers of a clan that of their clan's channel.
THEOREM TmpOPsStayMembers == Spec => []TmpOPsAreMembers
<1>1. ChatInv => TmpOPsAreMembers
  <2> SUFFICES ASSUME ChatInv, NEW u \in Users, tmpOP[u] # NoName
               PROVE  \/ In(u) /\ chans[chat[u]].name = tmpOP[u]
                      \/ tmpOP[u] = ClanOf[u] /\ u \in Officers
    BY DEF TmpOPsAreMembers
  <2>1. RightOf(chans, u, chat[u], tmpOP[u])
    BY StateIs DEF ChatInv, StateInv, RightsInv
  <2> QED BY <2>1 DEF RightOf, In
<1> QED BY ChatInvHolds, <1>1, PTL
=============================================================================
