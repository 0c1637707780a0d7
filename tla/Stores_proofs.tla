----------------------------- MODULE Stores_proofs -----------------------------
(***************************************************************************)
(* What holds of what the programs keep on the disk, for any numbers of    *)
(* accounts and characters.  Attributes of accounts: no change is lost,    *)
(* whatever is written, thrown out and read again, and the loop that saves *)
(* goes on at a dirty account.  Files of characters: a version that was    *)
(* saved is there, whatever stops or fails.                                *)
(***************************************************************************)
EXTENDS AttrStore, CharFiles, Lists

-----------------------------------------------------------------------------
\* Attributes.  A group is once at most in each of the lists; one that is in the
\* memory and not dirty is as in its file; and the loop that saves is about to go on at a
\* dirty group and then at another one, for as long as nobody else has saved these.
Elem == Groups \cup {Default}
Spot == Groups \cup {Default, End}
AttrRec == [cache : [Groups -> Held], files : [Groups -> Held],
            loadedlist : Seq(Elem), dirtylist : Seq(Groups),
            fresh : SUBSET Elem, young : SUBSET Groups, save : Places, flush : Places,
            behind : Spot, spoiled : SUBSET Groups, cut : BOOLEAN]

There(s) == {g \in Groups : s.cache[g].there}
ListsInv(s) ==
  /\ s \in AttrRec
  /\ IsInjective(s.loadedlist) /\ IsInjective(s.dirtylist)
  /\ ToSet(s.loadedlist) = {Default} \cup There(s)
  /\ ToSet(s.dirtylist) \subseteq There(s)
  /\ s.young \subseteq ToSet(s.dirtylist) /\ s.fresh \subseteq ToSet(s.loadedlist)

LastSets == [Groups -> Values \cup {NoValue}]
InFile(s, g, last) == s.files[g].val = last[g] /\ s.files[g].named = s.files[g].there
KeptInv(s, last) ==
  \A g \in Groups \ s.spoiled :
    /\ s.files[g].named = s.files[g].there
    /\ ~s.cache[g].there => s.files[g].val = last[g]
    /\ s.cache[g].there => /\ s.cache[g].val = last[g] /\ s.cache[g].named
                           /\ g \notin ToSet(s.dirtylist) => s.files[g] = s.cache[g]

OnDirty(list, curr, next) ==
  curr # End => /\ curr \in ToSet(list)
                /\ next # End => next \in ToSet(list) \ {curr}
PlaceInv(s) == s.cut \/ OnDirty(s.dirtylist, s.save.curr, s.save.next)

GroupsInv(s, last) == ListsInv(s) /\ KeptInv(s, last) /\ PlaceInv(s)
AttrInv == /\ GroupsInv(attrs, lastSet) /\ lastSet \in LastSets
           /\ attrMishaps \in 0..MaxAttrMishaps

-----------------------------------------------------------------------------
\* The constants are apart.
LEMMA Apart ==
  /\ Default \notin Groups /\ End \notin Groups /\ End # Default /\ Groups \subseteq Elem
  /\ Elem \subseteq Spot /\ Elem = Spot \ {End} /\ NoValue \notin Values /\ IsFiniteSet(Groups)
BY AttrAssumption, ValueAssumption DEF Elem, Spot

\* What a group that is not in the memory, has just been made, or could not be read, holds.
LEMMA HeldTypes ==
  Nothing \in Held /\ Bare \in Held /\ New \in Held
BY DEF Nothing, Bare, New, Held

\* What a state of the store is made of.
LEMMA FieldTypes ==
  ASSUME NEW s \in AttrRec
  PROVE  /\ s.cache \in [Groups -> Held] /\ s.files \in [Groups -> Held]
         /\ s.loadedlist \in Seq(Elem) /\ s.dirtylist \in Seq(Groups)
         /\ s.fresh \subseteq Elem /\ s.young \subseteq Groups
         /\ s.save \in Places /\ s.flush \in Places
         /\ s.behind \in Spot /\ s.spoiled \subseteq Groups /\ s.cut \in BOOLEAN
BY DEF AttrRec

\* Two states that differ in the times and the order of the loaded groups only.
Same(s, t) ==
  /\ t.cache = s.cache /\ t.files = s.files /\ t.dirtylist = s.dirtylist /\ t.young = s.young
  /\ t.save = s.save /\ t.flush = s.flush /\ t.behind = s.behind /\ t.spoiled = s.spoiled
  /\ t.cut = s.cut

\* An access moves the group to the end of the list of loaded groups, and does no more.
LEMMA Accessed ==
  ASSUME NEW s, ListsInv(s), NEW g \in ToSet(s.loadedlist)
  PROVE  LET t == set_accessed(s, g) IN ListsInv(t) /\ Same(s, t)
<1> DEFINE r == RemoveFirst(s.loadedlist, g)
           l == Append(r, g)
           t == set_accessed(s, g)
<1>1. s \in AttrRec /\ s.loadedlist \in Seq(Elem) /\ IsInjective(s.loadedlist) /\ g \in Elem
  BY FieldTypes, Elements DEF ListsInv
<1>2. r \in Seq(Elem) /\ IsInjective(r) /\ ToSet(r) = ToSet(s.loadedlist) \ {g}
  BY <1>1, Removed
<1> HIDE DEF r
<1>3. l \in Seq(Elem) /\ IsInjective(l) /\ ToSet(l) = ToSet(s.loadedlist)
  <2>1. g \notin ToSet(r)
    BY <1>2
  <2>2. l \in Seq(Elem) /\ IsInjective(l) /\ ToSet(l) = ToSet(r) \cup {g}
    BY <1>1, <1>2, <2>1, Appended
  <2> HIDE DEF l
  <2> QED BY <1>2, <2>2
<1>4. t = [s EXCEPT !.fresh = s.fresh \cup {g}, !.loadedlist = l]
  BY DEF set_accessed, r
<1> HIDE DEF l, t
<1>5. /\ t \in AttrRec /\ t.loadedlist = l /\ t.fresh = s.fresh \cup {g} /\ Same(s, t)
  BY <1>1, <1>3, <1>4 DEF AttrRec, Same
<1>6. There(t) = There(s)
  BY <1>5 DEF There, Same
<1>7. ListsInv(t)
  BY <1>3, <1>5, <1>6 DEF ListsInv, Same
<1> QED BY <1>5, <1>7 DEF t

\* Where only the times and the order of the loaded groups change, the values are kept.
LEMMA SameKept ==
  ASSUME NEW s, NEW t, Same(s, t), NEW last
  PROVE  /\ KeptInv(s, last) => KeptInv(t, last)
         /\ PlaceInv(s) => PlaceInv(t)
BY DEF Same, KeptInv, PlaceInv

\* A group that becomes dirty is at the end of the list of dirty groups.
LEMMA Dirtied ==
  ASSUME NEW s, ListsInv(s), NEW g \in There(s)
  PROVE  LET t == set_dirty(s, g)
         IN  /\ ListsInv(t) /\ ToSet(t.dirtylist) = ToSet(s.dirtylist) \cup {g}
             /\ t.cache = s.cache /\ t.files = s.files /\ t.spoiled = s.spoiled
             /\ t.save = s.save /\ t.cut = s.cut /\ t.loadedlist = s.loadedlist
<1> DEFINE t == set_dirty(s, g)
           l == Append(s.dirtylist, g)
<1>0. s \in AttrRec /\ s.dirtylist \in Seq(Groups) /\ g \in Groups
  BY FieldTypes DEF ListsInv, There
<1>1. CASE g \in ToSet(s.dirtylist)
  BY <1>1 DEF set_dirty
<1>2. CASE g \notin ToSet(s.dirtylist)
  <2>1. l \in Seq(Groups) /\ IsInjective(l) /\ ToSet(l) = ToSet(s.dirtylist) \cup {g}
    BY <1>0, <1>2, Appended DEF ListsInv
  <2>2. t = [s EXCEPT !.dirtylist = l, !.young = s.young \cup {g}]
    BY <1>2 DEF set_dirty
  <2> HIDE DEF l, t
  <2>3. /\ t \in AttrRec /\ t.dirtylist = l /\ t.young = s.young \cup {g}
        /\ t.cache = s.cache /\ t.files = s.files /\ t.spoiled = s.spoiled
        /\ t.save = s.save /\ t.cut = s.cut /\ t.loadedlist = s.loadedlist /\ t.fresh = s.fresh
    BY <1>0, <2>1, <2>2 DEF AttrRec
  <2>4. There(t) = There(s)
    BY <2>3 DEF There
  <2>5. ListsInv(t)
    BY <2>1, <2>3, <2>4 DEF ListsInv
  <2> QED BY <2>1, <2>3, <2>5 DEF t
<1> QED BY <1>1, <1>2

\* A search in a list: the element after one of the list, if any, is another one of the list.
LEMMA NextOf ==
  ASSUME NEW S, NEW s \in Seq(S), NEW g, IsInjective(s), End \notin S
  PROVE  /\ elist_next(s, g) \in ToSet(s) \cup {End}
         /\ g # End => elist_next(s, g) # g \/ elist_next(s, g) = End
         /\ s # <<>> => elist_next(s, End) = Head(s)
         /\ s = <<>> => elist_next(s, g) = End
<1>1. Len(s) \in Nat /\ DOMAIN s = 1..Len(s) /\ \A i \in 1..Len(s) : s[i] \in ToSet(s)
  BY Elements
<1>2. ASSUME g = End
      PROVE  elist_next(s, g) = IF s = <<>> THEN End ELSE s[1]
  BY <1>2 DEF elist_next
<1>3. s # <<>> => elist_next(s, End) = Head(s)
  BY DEF elist_next
<1>4. CASE g = End
  BY <1>1, <1>2, <1>3, <1>4
<1>5. CASE g # End
  <2> DEFINE I == {i \in 1..Len(s) : s[i] = g}
             at == IF I # {} THEN Min(I) ELSE 0
  <2>1. elist_next(s, g) = IF at \in 1..(Len(s) - 1) THEN s[at + 1] ELSE End
    BY <1>5 DEF elist_next, SelectInSeq
  <2>2. I # {} => Min(I) \in I
    <3>1. I \subseteq Nat
      OBVIOUS
    <3> QED BY <3>1, MinIn
  <2> HIDE DEF I
  <2>3. at \in 1..(Len(s) - 1) => s[at] = g /\ at + 1 \in 1..Len(s) /\ at \in 1..Len(s) /\ at + 1 # at
    BY <1>1, <2>2 DEF I
  <2> HIDE DEF at
  <2>4. at \in 1..(Len(s) - 1) => s[at + 1] # g /\ s[at + 1] \in ToSet(s)
    BY <1>1, <2>3 DEF IsInjective
  <2>5. s = <<>> => ~(at \in 1..(Len(s) - 1))
    BY <1>1
  <2> QED BY <1>3, <1>5, <2>1, <2>4, <2>5
<1> QED BY <1>4, <1>5

\* The second of a list is what comes after the first.
LEMMA SecondOf ==
  ASSUME NEW S, NEW s \in Seq(S), s # <<>>, End \notin S
  PROVE  elist_next(s, Head(s)) = elist_next(Tail(s), End)
<1> DEFINE g == Head(s)
           I == {i \in 1..Len(s) : s[i] = g}
           at == IF I # {} THEN Min(I) ELSE 0
<1>1. Len(s) \in Nat /\ 1 \in 1..Len(s) /\ g = s[1] /\ g # End
  OBVIOUS
<1>2. 1 \in I /\ I \subseteq Nat /\ I \subseteq 1..Len(s)
  BY <1>1
<1>3. Min(I) \in I /\ Min(I) <= 1
  BY <1>2, MinIn
<1>4. elist_next(s, g) = IF at \in 1..(Len(s) - 1) THEN s[at + 1] ELSE End
  BY <1>1 DEF elist_next, SelectInSeq
<1>5. at = Min(I)
  BY <1>2
<1> HIDE DEF at
<1>6. at = 1
  <2>1. at \in 1..Len(s) /\ at <= 1
    BY <1>2, <1>3, <1>5
  <2> QED BY <1>1, <2>1
<1>7. elist_next(s, g) = IF Len(s) > 1 THEN s[2] ELSE End
  BY <1>1, <1>4, <1>6
<1>8. /\ Len(Tail(s)) = Len(s) - 1 /\ Tail(s) \in Seq(S)
      /\ Len(s) > 1 => Tail(s)[1] = s[2]
  BY <1>1
<1>9. elist_next(Tail(s), End) = IF Tail(s) = <<>> THEN End ELSE Tail(s)[1]
  BY DEF elist_next
<1>10. (Tail(s) = <<>>) <=> ~(Len(s) > 1)
  <2>1. (Tail(s) = <<>>) <=> (Len(Tail(s)) = 0)
    BY <1>8
  <2> QED BY <1>1, <1>8, <2>1
<1> QED BY <1>7, <1>8, <1>9, <1>10

\* A group that is no longer dirty is out of the list.
LEMMA Cleared ==
  ASSUME NEW s, ListsInv(s), NEW g
  PROVE  LET t == clear_dirty(s, g)
         IN  /\ ListsInv(t) /\ ToSet(t.dirtylist) = ToSet(s.dirtylist) \ {g}
             /\ t.dirtylist = RemoveFirst(s.dirtylist, g)
             /\ t.cache = s.cache /\ t.files = s.files /\ t.spoiled = s.spoiled
             /\ t.save = s.save /\ t.flush = s.flush /\ t.cut = s.cut
             /\ t.loadedlist = s.loadedlist /\ t.fresh = s.fresh
<1> DEFINE t == clear_dirty(s, g)
           l == RemoveFirst(s.dirtylist, g)
           b == IF g = s.save.next /\ g \in ToSet(s.dirtylist)
                THEN elist_next(s.dirtylist, g) ELSE s.behind
<1>1. s \in AttrRec /\ s.dirtylist \in Seq(Groups) /\ IsInjective(s.dirtylist) /\ s.behind \in Spot
  BY FieldTypes DEF ListsInv
<1>2. l \in Seq(Groups) /\ IsInjective(l) /\ ToSet(l) = ToSet(s.dirtylist) \ {g}
  BY <1>1, Removed
<1>3. b \in Spot
  <2>1. elist_next(s.dirtylist, g) \in Spot
    BY <1>1, NextOf, Apart, Elements DEF Spot
  <2> QED BY <1>1, <2>1
<1>4. t = [s EXCEPT !.dirtylist = l, !.young = s.young \ {g}, !.behind = b]
  BY <1>1 DEF clear_dirty
<1> HIDE DEF l, b, t
<1>5. /\ t \in AttrRec /\ t.dirtylist = l /\ t.young = s.young \ {g}
      /\ t.cache = s.cache /\ t.files = s.files /\ t.spoiled = s.spoiled
      /\ t.save = s.save /\ t.flush = s.flush /\ t.cut = s.cut
      /\ t.loadedlist = s.loadedlist /\ t.fresh = s.fresh
  BY <1>1, <1>2, <1>3, <1>4 DEF AttrRec
<1>6. There(t) = There(s)
  BY <1>5 DEF There
<1>7. ListsInv(t)
  BY <1>2, <1>5, <1>6 DEF ListsInv
<1> QED BY <1>2, <1>5, <1>7 DEF t, l

\* A group that is written, or of which the write fails, is clean.
LEMMA Saved ==
  ASSUME NEW s, NEW last, ListsInv(s), KeptInv(s, last), NEW g, NEW force, NEW failing
  PROVE  LET t == attrgroup_save(s, g, force, failing)
         IN  /\ ListsInv(t) /\ KeptInv(t, last)
             /\ t.cache = s.cache /\ t.loadedlist = s.loadedlist /\ t.fresh = s.fresh
             /\ t.save = s.save /\ t.flush = s.flush /\ t.cut = s.cut
             /\ ~Saves(s, g, force) => t = s
             /\ Saves(s, g, force) => t.dirtylist = RemoveFirst(s.dirtylist, g)
             /\ Saves(s, g, force) => ToSet(t.dirtylist) = ToSet(s.dirtylist) \ {g}
<1> DEFINE t == attrgroup_save(s, g, force, failing)
<1>1. CASE ~Saves(s, g, force)
  BY <1>1 DEF attrgroup_save
<1>2. CASE Saves(s, g, force)
  <2> DEFINE u == clear_dirty(s, g)
  <2>1. /\ ListsInv(u) /\ ToSet(u.dirtylist) = ToSet(s.dirtylist) \ {g}
        /\ u.dirtylist = RemoveFirst(s.dirtylist, g)
        /\ u.cache = s.cache /\ u.files = s.files /\ u.spoiled = s.spoiled
        /\ u.save = s.save /\ u.flush = s.flush /\ u.cut = s.cut
        /\ u.loadedlist = s.loadedlist /\ u.fresh = s.fresh
    BY Cleared
  <2>2. g \in There(s) /\ g \in Groups
    BY <1>2 DEF Saves, ListsInv, There
  <2>3. t = IF g \in failing THEN [u EXCEPT !.spoiled = @ \cup {g}]
                             ELSE [u EXCEPT !.files[g] = s.cache[g]]
    BY <1>2 DEF attrgroup_save
  <2> HIDE DEF u, t
  <2>4. u \in AttrRec /\ s \in AttrRec
    BY <2>1 DEF ListsInv
  <2>5. /\ t \in AttrRec /\ t.cache = u.cache /\ t.loadedlist = u.loadedlist /\ t.fresh = u.fresh
        /\ t.save = u.save /\ t.flush = u.flush /\ t.cut = u.cut /\ t.dirtylist = u.dirtylist
        /\ t.young = u.young
        /\ g \in failing => t.spoiled = u.spoiled \cup {g} /\ t.files = u.files
        /\ g \notin failing => t.spoiled = u.spoiled /\ t.files = [u.files EXCEPT ![g] = s.cache[g]]
    <3>1. CASE g \in failing
      BY <2>2, <2>3, <2>4, <3>1 DEF AttrRec
    <3>2. CASE g \notin failing
      <4>1. [u.files EXCEPT ![g] = s.cache[g]] \in [Groups -> Held]
        BY <2>2, <2>4, FieldTypes
      <4> DEFINE f == [u.files EXCEPT ![g] = s.cache[g]]
      <4>2. t = [u EXCEPT !.files = f]
        BY <2>3, <3>2
      <4> HIDE DEF f
      <4>3. f \in [Groups -> Held]
        BY <4>1 DEF f
      <4>4. /\ t \in AttrRec /\ t.files = f /\ t.cache = u.cache /\ t.loadedlist = u.loadedlist
            /\ t.fresh = u.fresh /\ t.save = u.save /\ t.flush = u.flush /\ t.cut = u.cut
            /\ t.dirtylist = u.dirtylist /\ t.young = u.young /\ t.spoiled = u.spoiled
        BY <2>4, <4>2, <4>3 DEF AttrRec
      <4> QED BY <3>2, <4>4 DEF f
    <3> QED BY <3>1, <3>2
  <2>6. ListsInv(t)
    <3>1. There(t) = There(u)
      BY <2>5 DEF There
    <3> QED BY <2>1, <2>5, <3>1 DEF ListsInv
  <2>7. KeptInv(t, last)
    <3> SUFFICES ASSUME NEW h \in Groups \ t.spoiled
                 PROVE  /\ t.files[h].named = t.files[h].there
                        /\ ~t.cache[h].there => t.files[h].val = last[h]
                        /\ t.cache[h].there =>
                             /\ t.cache[h].val = last[h] /\ t.cache[h].named
                             /\ h \notin ToSet(t.dirtylist) => t.files[h] = t.cache[h]
      BY DEF KeptInv
    <3>1. h \in Groups \ s.spoiled /\ t.cache[h] = s.cache[h] /\ s.files \in [Groups -> Held]
      BY <2>1, <2>4, <2>5, FieldTypes
    <3>2. /\ s.files[h].named = s.files[h].there
          /\ ~s.cache[h].there => s.files[h].val = last[h]
          /\ s.cache[h].there =>
               /\ s.cache[h].val = last[h] /\ s.cache[h].named
               /\ h \notin ToSet(s.dirtylist) => s.files[h] = s.cache[h]
      BY <3>1 DEF KeptInv
    <3>3. CASE h # g
      <4>1. t.files[h] = s.files[h] /\ (h \in ToSet(t.dirtylist) <=> h \in ToSet(s.dirtylist))
        BY <2>1, <2>5, <3>1, <3>3
      <4> QED BY <3>1, <3>2, <4>1
    <3>4. CASE h = g
      <4>1. g \notin failing
        BY <2>5, <3>4
      <4>2. t.files[h] = s.cache[h] /\ s.cache[h].there
        BY <2>1, <2>2, <2>5, <3>1, <3>4, <4>1 DEF There
      <4>3. s.cache[h] \in Held
        BY <2>4, <3>1, FieldTypes
      <4> QED BY <3>1, <3>2, <4>2, <4>3 DEF Held
    <3> QED BY <3>3, <3>4
  <2> QED BY <1>2, <2>1, <2>5, <2>6, <2>7 DEF t
<1> QED BY <1>1, <1>2

SaveNow(s, g, failing) == attrgroup_save(s, g, TRUE, failing)

\* The same, where the age of the change does not matter.
LEMMA SavedNow ==
  ASSUME NEW s, NEW last, ListsInv(s), KeptInv(s, last), NEW g, NEW failing
  PROVE  LET t == SaveNow(s, g, failing)
         IN  /\ ListsInv(t) /\ KeptInv(t, last)
             /\ t.cache = s.cache /\ t.loadedlist = s.loadedlist /\ t.fresh = s.fresh
             /\ t.save = s.save /\ t.flush = s.flush /\ t.cut = s.cut
             /\ ToSet(t.dirtylist) = ToSet(s.dirtylist) \ {g}
<1> DEFINE t(force) == attrgroup_save(s, g, force, failing)
<1>1. \A force :
        /\ ListsInv(t(force)) /\ KeptInv(t(force), last)
        /\ t(force).cache = s.cache /\ t(force).loadedlist = s.loadedlist
        /\ t(force).fresh = s.fresh
        /\ t(force).save = s.save /\ t(force).flush = s.flush /\ t(force).cut = s.cut
        /\ ~Saves(s, g, force) => t(force) = s
        /\ Saves(s, g, force) => ToSet(t(force).dirtylist) = ToSet(s.dirtylist) \ {g}
  BY Saved
<1>2. Saves(s, g, TRUE) <=> g \in ToSet(s.dirtylist)
  BY DEF Saves
<1> HIDE DEF t
<1>3. PICK r : r = t(TRUE)
  OBVIOUS
<1>4. /\ ListsInv(r) /\ KeptInv(r, last)
      /\ r.cache = s.cache /\ r.loadedlist = s.loadedlist /\ r.fresh = s.fresh
      /\ r.save = s.save /\ r.flush = s.flush /\ r.cut = s.cut
      /\ ~Saves(s, g, TRUE) => r = s
      /\ Saves(s, g, TRUE) => ToSet(r.dirtylist) = ToSet(s.dirtylist) \ {g}
  BY <1>1, <1>3, Zenon
<1>5. ToSet(r.dirtylist) = ToSet(s.dirtylist) \ {g}
  BY <1>2, <1>4
<1>6. r = SaveNow(s, g, failing)
  BY <1>3, Zenon DEF t, SaveNow
<1> QED BY <1>4, <1>5, <1>6

\* A group that there is, in the memory or in a file.
KnownIn(s, g) == s.cache[g].there \/ s.files[g].there

\* A group that is asked for is in the memory afterwards, as it is in its file.
LEMMA Found ==
  ASSUME NEW s, NEW last, GroupsInv(s, last), NEW g \in Groups, NEW fail \in BOOLEAN,
         KnownIn(s, g), fail => ~s.cache[g].there
  PROVE  LET t == attrgroup_find_attr(s, g, fail)
         IN  GroupsInv(t, last) /\ g \in There(t) /\ (fail => g \in t.spoiled)
<1> DEFINE t == attrgroup_find_attr(s, g, fail)
<1>0. s \in AttrRec /\ ListsInv(s) /\ KeptInv(s, last) /\ PlaceInv(s)
  BY DEF GroupsInv, ListsInv
<1>1. CASE s.cache[g].there
  <2>1. t = set_accessed(s, g)
    BY <1>1 DEF attrgroup_find_attr, attrgroup_load
  <2>2. g \in ToSet(s.loadedlist)
    BY <1>0, <1>1 DEF ListsInv, There
  <2>3. ListsInv(t) /\ Same(s, t)
    BY <1>0, <2>1, <2>2, Accessed
  <2> HIDE DEF t
  <2>4. GroupsInv(t, last)
    BY <1>0, <2>3, SameKept DEF GroupsInv
  <2> QED BY <1>1, <2>3, <2>4 DEF t, Same, There
<1>2. CASE ~s.cache[g].there
  <2> DEFINE held == IF fail THEN Bare ELSE s.files[g]
             l == Append(s.loadedlist, g)
             c == [s.cache EXCEPT ![g] = held]
             p == IF fail THEN s.spoiled \cup {g} ELSE s.spoiled
             u == [s EXCEPT !.loadedlist = l, !.cache = c, !.spoiled = p]
  <2>1. held \in Held /\ held.there
    BY <1>0, <1>2, FieldTypes, HeldTypes DEF KnownIn, Bare
  <2>2. c \in [Groups -> Held] /\ c[g] = held /\ \A h \in Groups \ {g} : c[h] = s.cache[h]
    <3> HIDE DEF held
    <3> QED BY <1>0, <2>1, FieldTypes
  <2>3. g \notin ToSet(s.loadedlist) /\ s.loadedlist \in Seq(Elem) /\ g \in Elem
    BY <1>0, <1>2, FieldTypes, Apart DEF ListsInv, There
  <2>4. l \in Seq(Elem) /\ IsInjective(l) /\ ToSet(l) = ToSet(s.loadedlist) \cup {g}
    BY <1>0, <2>3, Appended DEF ListsInv
  <2>5. fail => attrgroup_load(s, g, fail) = u
    BY <1>2 DEF attrgroup_load
  <2>6. ~fail => attrgroup_load(s, g, fail) = set_accessed(u, g)
    BY <1>0, <1>2 DEF attrgroup_load, AttrRec
  <2> HIDE DEF held, l, c
  <2>7. p \subseteq Groups /\ s.spoiled \subseteq p
    BY <1>0, FieldTypes
  <2> HIDE DEF p
  <2>8. /\ u \in AttrRec /\ u.cache = c /\ u.loadedlist = l /\ u.spoiled = p
        /\ u.files = s.files /\ u.dirtylist = s.dirtylist /\ u.young = s.young
        /\ u.fresh = s.fresh /\ u.save = s.save /\ u.cut = s.cut
    BY <1>0, <2>2, <2>4, <2>7 DEF AttrRec
  <2> HIDE DEF u
  <2>9. There(u) = There(s) \cup {g}
    BY <2>1, <2>2, <2>8 DEF There
  <2>10. ListsInv(u)
    BY <1>0, <2>4, <2>8, <2>9 DEF ListsInv
  <2>11. KeptInv(u, last)
    <3> SUFFICES ASSUME NEW h \in Groups \ p
                 PROVE  /\ s.files[h].named = s.files[h].there
                        /\ ~c[h].there => s.files[h].val = last[h]
                        /\ c[h].there => /\ c[h].val = last[h] /\ c[h].named
                                         /\ h \notin ToSet(s.dirtylist) => s.files[h] = c[h]
      BY <2>8 DEF KeptInv
    <3>1. /\ s.files[h].named = s.files[h].there
          /\ ~s.cache[h].there => s.files[h].val = last[h]
          /\ s.cache[h].there =>
               /\ s.cache[h].val = last[h] /\ s.cache[h].named
               /\ h \notin ToSet(s.dirtylist) => s.files[h] = s.cache[h]
      BY <1>0, <2>7 DEF KeptInv
    <3>2. CASE h # g
      BY <2>2, <3>1, <3>2
    <3>3. CASE h = g
      <4>1. ~fail /\ c[h] = s.files[h]
        BY <2>2, <3>3 DEF p, held
      <4>2. c[h].there
        BY <2>1, <2>2, <3>3
      <4> QED BY <1>2, <3>1, <3>3, <4>1, <4>2
    <3> QED BY <3>2, <3>3
  <2>12. PlaceInv(u)
    BY <1>0, <2>8 DEF PlaceInv
  <2>13. g \in ToSet(u.loadedlist) /\ g \in There(u)
    BY <2>4, <2>8, <2>9
  <2>14. CASE fail
    <3>1. t = u
      BY <2>5, <2>14 DEF attrgroup_find_attr
    <3>2. g \in u.spoiled
      BY <2>8, <2>14 DEF p
    <3> QED BY <2>10, <2>11, <2>12, <2>13, <3>1, <3>2 DEF GroupsInv
  <2>15. CASE ~fail
    <3> DEFINE v == set_accessed(u, g)
    <3>1. ListsInv(v) /\ Same(u, v)
      BY <2>10, <2>13, Accessed
    <3>2. t = set_accessed(v, g)
      BY <2>6, <2>15 DEF attrgroup_find_attr
    <3> HIDE DEF v
    <3>3. There(v) = There(u) /\ g \in ToSet(v.loadedlist)
      BY <2>13, <3>1 DEF Same, There, ListsInv
    <3>4. ListsInv(t) /\ Same(v, t)
      BY <3>1, <3>2, <3>3, Accessed
    <3> HIDE DEF t
    <3>5. There(t) = There(u)
      BY <3>3, <3>4 DEF Same, There
    <3>6. GroupsInv(t, last)
      BY <2>11, <2>12, <3>1, <3>4, SameKept DEF GroupsInv
    <3> QED BY <2>13, <2>15, <3>5, <3>6 DEF t
  <2> QED BY <2>14, <2>15
<1> QED BY <1>1, <1>2

\* The loop goes on at dirty groups for as long as these stay in the list.
LEMMA PlaceKept ==
  ASSUME NEW s, NEW t, PlaceInv(s), t.save = s.save, s.cut => t.cut,
         ~t.cut => ToSet(s.dirtylist) \cap {s.save.curr, s.save.next} \subseteq ToSet(t.dirtylist)
  PROVE  PlaceInv(t)
BY DEF PlaceInv, OnDirty

\* A value is looked up: attrgroup_get_attr.
LEMMA GetKeeps ==
  ASSUME NEW s, NEW last, GroupsInv(s, last), NEW g \in Groups, NEW fail \in BOOLEAN,
         KnownIn(s, g), fail => ~s.cache[g].there
  PROVE  GroupsInv(attrgroup_get_attr(s, g, fail), last)
<1> DEFINE m == attrgroup_find_attr(s, g, fail)
           t == set_accessed(m, Default)
<1>1. GroupsInv(m, last)
  BY Found
<1>2. attrgroup_get_attr(s, g, fail) = m \/ attrgroup_get_attr(s, g, fail) = t
  BY DEF attrgroup_get_attr
<1> HIDE DEF m
<1>3. ListsInv(m) /\ KeptInv(m, last) /\ PlaceInv(m) /\ Default \in ToSet(m.loadedlist)
  BY <1>1 DEF GroupsInv, ListsInv
<1>4. ListsInv(t) /\ Same(m, t)
  BY <1>3, Accessed
<1> HIDE DEF t
<1>5. GroupsInv(t, last)
  BY <1>3, <1>4, SameKept DEF GroupsInv
<1> QED BY <1>1, <1>2, <1>5

\* A value is set: attrgroup_set_attr makes the group dirty.
LEMMA SetKeeps ==
  ASSUME NEW s, NEW last \in LastSets, GroupsInv(s, last), NEW g \in Groups, NEW fail \in BOOLEAN,
         KnownIn(s, g), fail => ~s.cache[g].there, NEW v \in Values
  PROVE  GroupsInv(attrgroup_set_attr(s, g, v, fail), [last EXCEPT ![g] = v])
<1> DEFINE m == attrgroup_find_attr(s, g, fail)
           c == [m.cache EXCEPT ![g].val = v]
           u == [m EXCEPT !.cache = c]
           t == set_dirty(u, g)
           last2 == [last EXCEPT ![g] = v]
<1>1. GroupsInv(m, last) /\ g \in There(m)
  BY Found
<1>2. attrgroup_set_attr(s, g, v, fail) = IF m.cache[g].val = v THEN m ELSE t
  BY DEF attrgroup_set_attr
<1> HIDE DEF m
<1>3. ListsInv(m) /\ KeptInv(m, last) /\ PlaceInv(m) /\ m \in AttrRec
  BY <1>1 DEF GroupsInv, ListsInv
<1>4. last2[g] = v /\ \A h \in Groups \ {g} : last2[h] = last[h]
  BY DEF LastSets
<1> HIDE DEF last2
<1>5. CASE m.cache[g].val = v
  <2>1. KeptInv(m, last2)
    BY <1>1, <1>3, <1>4, <1>5 DEF KeptInv, There
  <2> QED BY <1>2, <1>3, <1>5, <2>1 DEF GroupsInv, last2
<1>6. CASE m.cache[g].val # v
  <2>1. m.cache \in [Groups -> Held]
    BY <1>3, FieldTypes
  <2>2. m.cache[g] \in Held
    BY <2>1
  <2>3. [m.cache[g] EXCEPT !.val = v] \in Held
    BY <2>2 DEF Held
  <2>4. /\ c \in [Groups -> Held] /\ c[g] = [m.cache[g] EXCEPT !.val = v]
        /\ \A h \in Groups \ {g} : c[h] = m.cache[h]
    BY <2>1, <2>3
  <2>5. c[g].there = m.cache[g].there /\ c[g].named = m.cache[g].named /\ c[g].val = v
    BY <2>2, <2>4 DEF Held
  <2> HIDE DEF c
  <2>6. /\ u \in AttrRec /\ u.cache = c /\ u.loadedlist = m.loadedlist /\ u.spoiled = m.spoiled
        /\ u.files = m.files /\ u.dirtylist = m.dirtylist /\ u.young = m.young
        /\ u.fresh = m.fresh /\ u.save = m.save /\ u.cut = m.cut
    BY <1>3, <2>4 DEF AttrRec
  <2> HIDE DEF u
  <2>7. There(u) = There(m)
    BY <2>4, <2>5, <2>6 DEF There
  <2>8. ListsInv(u)
    BY <1>3, <2>6, <2>7 DEF ListsInv
  <2>9. /\ ListsInv(t) /\ ToSet(t.dirtylist) = ToSet(u.dirtylist) \cup {g}
        /\ t.cache = u.cache /\ t.files = u.files /\ t.spoiled = u.spoiled
        /\ t.save = u.save /\ t.cut = u.cut
    BY <1>1, <2>7, <2>8, Dirtied
  <2> HIDE DEF t
  <2>10. KeptInv(t, last2)
    <3> SUFFICES ASSUME NEW h \in Groups \ m.spoiled
                 PROVE  /\ m.files[h].named = m.files[h].there
                        /\ ~c[h].there => m.files[h].val = last2[h]
                        /\ c[h].there => /\ c[h].val = last2[h] /\ c[h].named
                                         /\ h \notin ToSet(t.dirtylist) => m.files[h] = c[h]
      BY <2>6, <2>9 DEF KeptInv
    <3>1. /\ m.files[h].named = m.files[h].there
          /\ ~m.cache[h].there => m.files[h].val = last[h]
          /\ m.cache[h].there =>
               /\ m.cache[h].val = last[h] /\ m.cache[h].named
               /\ h \notin ToSet(m.dirtylist) => m.files[h] = m.cache[h]
      BY <1>3 DEF KeptInv
    <3>2. CASE h # g
      BY <1>4, <2>4, <2>6, <2>9, <3>1, <3>2
    <3>3. CASE h = g
      BY <1>1, <1>4, <2>5, <2>9, <3>1, <3>3 DEF There
    <3> QED BY <3>2, <3>3
  <2>11. PlaceInv(t)
    BY <1>3, <2>6, <2>9, PlaceKept
  <2> QED BY <1>2, <1>6, <2>9, <2>10, <2>11 DEF GroupsInv, last2
<1> QED BY <1>5, <1>6

\* A new account is in the memory, dirty, and saved at once.
LEMMA CreateKeeps ==
  ASSUME NEW s, NEW last \in LastSets, GroupsInv(s, last), NEW g \in Groups, ~KnownIn(s, g),
         NEW failing
  PROVE  LET born == [s EXCEPT !.cache[g] = New, !.loadedlist = Append(@, g)]
         IN  GroupsInv(attrgroup_save(set_dirty(set_accessed(born, g), g), g, TRUE, failing),
                       [last EXCEPT ![g] = NoValue])
<1> DEFINE c == [s.cache EXCEPT ![g] = New]
           l == Append(s.loadedlist, g)
           u == [s EXCEPT !.cache = c, !.loadedlist = l]
           v == set_accessed(u, g)
           w == set_dirty(v, g)
           t == SaveNow(w, g, failing)
           last2 == [last EXCEPT ![g] = NoValue]
<1>0. ListsInv(s) /\ KeptInv(s, last) /\ PlaceInv(s) /\ s \in AttrRec
  BY DEF GroupsInv, ListsInv
<1>1. last2[g] = NoValue /\ \A h \in Groups \ {g} : last2[h] = last[h]
  BY DEF LastSets
<1> HIDE DEF last2
<1>2. ~s.cache[g].there /\ ~s.files[g].there
  BY DEF KnownIn
<1>3. c \in [Groups -> Held] /\ c[g] = New /\ \A h \in Groups \ {g} : c[h] = s.cache[h]
  BY <1>0, FieldTypes, HeldTypes
<1>4. g \notin ToSet(s.loadedlist) /\ s.loadedlist \in Seq(Elem) /\ g \in Elem
      /\ g \notin ToSet(s.dirtylist)
  BY <1>0, <1>2, FieldTypes, Apart DEF ListsInv, There
<1>5. l \in Seq(Elem) /\ IsInjective(l) /\ ToSet(l) = ToSet(s.loadedlist) \cup {g}
  BY <1>0, <1>4, Appended DEF ListsInv
<1> HIDE DEF c, l
<1>6. /\ u \in AttrRec /\ u.cache = c /\ u.loadedlist = l /\ u.spoiled = s.spoiled
      /\ u.files = s.files /\ u.dirtylist = s.dirtylist /\ u.young = s.young
      /\ u.fresh = s.fresh /\ u.save = s.save /\ u.cut = s.cut
  BY <1>0, <1>3, <1>5 DEF AttrRec
<1> HIDE DEF u
<1>7. There(u) = There(s) \cup {g}
  BY <1>3, <1>6 DEF There, New
<1>8. ListsInv(u)
  BY <1>0, <1>5, <1>6, <1>7 DEF ListsInv
<1>9. ListsInv(v) /\ Same(u, v)
  BY <1>5, <1>6, <1>8, Accessed
<1> HIDE DEF v
<1>10. g \in There(v)
  BY <1>7, <1>9 DEF Same, There
<1>11. /\ ListsInv(w) /\ ToSet(w.dirtylist) = ToSet(v.dirtylist) \cup {g}
       /\ w.cache = v.cache /\ w.files = v.files /\ w.spoiled = v.spoiled
       /\ w.save = v.save /\ w.cut = v.cut
  BY <1>9, <1>10, Dirtied
<1> HIDE DEF w
<1>12. /\ w.cache = c /\ w.files = s.files /\ w.spoiled = s.spoiled /\ w.save = s.save
       /\ w.cut = s.cut /\ ToSet(w.dirtylist) = ToSet(s.dirtylist) \cup {g}
  BY <1>6, <1>9, <1>11 DEF Same
<1>13. KeptInv(w, last2)
  <2> SUFFICES ASSUME NEW h \in Groups \ s.spoiled
               PROVE  /\ s.files[h].named = s.files[h].there
                      /\ ~c[h].there => s.files[h].val = last2[h]
                      /\ c[h].there => /\ c[h].val = last2[h] /\ c[h].named
                                       /\ h \notin ToSet(w.dirtylist) => s.files[h] = c[h]
    BY <1>12 DEF KeptInv
  <2>1. /\ s.files[h].named = s.files[h].there
        /\ ~s.cache[h].there => s.files[h].val = last[h]
        /\ s.cache[h].there =>
             /\ s.cache[h].val = last[h] /\ s.cache[h].named
             /\ h \notin ToSet(s.dirtylist) => s.files[h] = s.cache[h]
    BY <1>0 DEF KeptInv
  <2>2. CASE h # g
    BY <1>1, <1>3, <1>12, <2>1, <2>2
  <2>3. CASE h = g
    BY <1>1, <1>3, <1>12, <2>1, <2>3 DEF New
  <2> QED BY <2>2, <2>3
<1>15. /\ ListsInv(t) /\ KeptInv(t, last2) /\ t.save = w.save /\ t.cut = w.cut
       /\ ToSet(t.dirtylist) = ToSet(w.dirtylist) \ {g}
  BY <1>11, <1>13, SavedNow
<1> HIDE DEF t
<1>16. PlaceInv(t)
  BY <1>0, <1>4, <1>12, <1>15, PlaceKept
<1>17. GroupsInv(t, last2)
  BY <1>15, <1>16 DEF GroupsInv
<1>18. [s EXCEPT !.cache[g] = New, !.loadedlist = Append(@, g)] = u
  BY <1>0 DEF u, c, l, AttrRec
<1> QED BY <1>17, <1>18 DEF t, w, v, last2, SaveNow

\* A dirty group that somebody else saves is no longer where the loop is to go on: cut.
LEMMA CutKept ==
  ASSUME NEW s, ListsInv(s), NEW last, KeptInv(s, last), PlaceInv(s), NEW g
  PROVE  LET t == [s EXCEPT !.cut = @ \/ Cuts(s, g)]
         IN  /\ ListsInv(t) /\ KeptInv(t, last) /\ PlaceInv(t) /\ t.save = s.save
             /\ t.dirtylist = s.dirtylist /\ t.loadedlist = s.loadedlist /\ t.flush = s.flush
             /\ t.cache = s.cache /\ (t.cut <=> s.cut \/ Cuts(s, g))
<1> DEFINE b == s.cut \/ Cuts(s, g)
           t == [s EXCEPT !.cut = b]
<1>1. s \in AttrRec /\ b \in BOOLEAN
  BY FieldTypes DEF ListsInv
<1>2. [s EXCEPT !.cut = @ \/ Cuts(s, g)] = t
  BY <1>1 DEF AttrRec
<1>3. s.cut => b
  OBVIOUS
<1> HIDE DEF b
<1>4. /\ t \in AttrRec /\ t.cache = s.cache /\ t.loadedlist = s.loadedlist /\ t.spoiled = s.spoiled
      /\ t.files = s.files /\ t.dirtylist = s.dirtylist /\ t.young = s.young /\ t.flush = s.flush
      /\ t.fresh = s.fresh /\ t.save = s.save /\ t.cut = b
  BY <1>1 DEF AttrRec
<1> HIDE DEF t
<1>5. There(t) = There(s)
  BY <1>4 DEF There
<1>6. ListsInv(t) /\ KeptInv(t, last) /\ PlaceInv(t)
  BY <1>3, <1>4, <1>5 DEF ListsInv, KeptInv, PlaceInv
<1> QED BY <1>2, <1>4, <1>6 DEF b

\* An account that leaves is saved.
LEMMA LogoffKeeps ==
  ASSUME NEW s, NEW last, GroupsInv(s, last), NEW g \in Groups, NEW failing
  PROVE  GroupsInv(attrgroup_save([s EXCEPT !.cut = @ \/ Cuts(s, g)], g, TRUE, failing), last)
<1> DEFINE u == [s EXCEPT !.cut = @ \/ Cuts(s, g)]
           t == SaveNow(u, g, failing)
<1>1. /\ ListsInv(u) /\ KeptInv(u, last) /\ PlaceInv(u) /\ u.save = s.save
      /\ u.dirtylist = s.dirtylist /\ (u.cut <=> s.cut \/ Cuts(s, g))
  BY CutKept DEF GroupsInv
<1> HIDE DEF u
<1>2. /\ ListsInv(t) /\ KeptInv(t, last) /\ t.save = u.save /\ t.cut = u.cut
      /\ ToSet(t.dirtylist) = ToSet(u.dirtylist) \ {g}
  BY <1>1, SavedNow
<1> HIDE DEF t
<1>3. ~t.cut => ToSet(u.dirtylist) \cap {u.save.curr, u.save.next} \subseteq ToSet(t.dirtylist)
  BY <1>1, <1>2 DEF Cuts
<1>4. PlaceInv(t)
  BY <1>1, <1>2, <1>3, PlaceKept
<1> QED BY <1>2, <1>4 DEF GroupsInv, t, u, SaveNow

\* A group that is thrown out of the memory is written before, if it is dirty; and what
\* attrgroup_flush lets alone is accessed at most.
LEMMA FlushKeeps ==
  ASSUME NEW s, NEW last, GroupsInv(s, last), NEW g, NEW force \in BOOLEAN, NEW online,
         NEW failing, Flushed(s, g, force, online) # 0
  PROVE  LET t == attrgroup_flush(s, g, force, online, failing)
         IN  /\ GroupsInv(t, last) /\ ToSet(t.dirtylist) \subseteq ToSet(s.dirtylist)
             /\ t.save = s.save /\ t.flush = s.flush
<1> DEFINE t == attrgroup_flush(s, g, force, online, failing)
           named == IF ~FlushConnected /\ ~force /\ ~LooksDefault(g) THEN set_accessed(s, g) ELSE s
           how == Flushed(s, g, force, online)
<1>0. ListsInv(s) /\ KeptInv(s, last) /\ PlaceInv(s) /\ s \in AttrRec
  BY DEF GroupsInv, ListsInv
<1>1. g \in ToSet(s.loadedlist) /\ how \in {1, 2}
  BY DEF Flushed
<1>2. ListsInv(named) /\ Same(s, named)
  <2>1. CASE named = s
    BY <1>0, <2>1 DEF Same
  <2>2. CASE named = set_accessed(s, g)
    BY <1>0, <1>1, <2>2, Accessed
  <2> QED BY <2>1, <2>2
<1>3. KeptInv(named, last) /\ PlaceInv(named)
  BY <1>0, <1>2, SameKept
<1>4. ASSUME how = 2 PROVE t = named
  BY <1>4 DEF attrgroup_flush
<1>5. ASSUME how = 1
      PROVE  t = [attrgroup_save([named EXCEPT !.cut = @ \/ Cuts(s, g)], g, TRUE, failing)
                    EXCEPT !.cache[g] = Nothing, !.fresh = @ \ {g},
                           !.loadedlist = RemoveFirst(@, g)]
  BY <1>5 DEF attrgroup_flush
<1>6. how = 1 => g \in There(s) /\ g \in Groups
  <2>1. how = 1 => g # Default
    BY DEF Flushed, LooksDefault
  <2> QED BY <1>0, <1>1, <2>1 DEF ListsInv, There
<1>7. Cuts(s, g) <=> Cuts(named, g)
  BY <1>2 DEF Cuts, Same
<1> HIDE DEF t, named, how
<1>8. CASE how = 2
  BY <1>2, <1>3, <1>4, <1>8 DEF GroupsInv, Same, t
<1>9. CASE how = 1
  <2> DEFINE u == [named EXCEPT !.cut = @ \/ Cuts(s, g)]
             v == SaveNow(u, g, failing)
             c == [v.cache EXCEPT ![g] = Nothing]
             l == RemoveFirst(v.loadedlist, g)
  <2>1. u = [named EXCEPT !.cut = @ \/ Cuts(named, g)]
    BY <1>7, Zenon
  <2> HIDE DEF u
  <2>2. /\ ListsInv(u) /\ KeptInv(u, last) /\ PlaceInv(u) /\ u.save = named.save
        /\ u.dirtylist = named.dirtylist /\ u.loadedlist = named.loadedlist
        /\ u.flush = named.flush /\ u.cache = named.cache
        /\ (u.cut <=> named.cut \/ Cuts(named, g))
    BY <1>2, <1>3, <2>1, CutKept
  <2>3. /\ ListsInv(v) /\ KeptInv(v, last) /\ v.cache = u.cache /\ v.loadedlist = u.loadedlist
        /\ v.save = u.save /\ v.cut = u.cut /\ v.flush = u.flush
        /\ ToSet(v.dirtylist) = ToSet(u.dirtylist) \ {g}
    BY <2>2, SavedNow
  <2>4. t = [v EXCEPT !.cache[g] = Nothing, !.fresh = @ \ {g}, !.loadedlist = RemoveFirst(@, g)]
    BY <1>5, <1>9 DEF u, SaveNow
  <2> HIDE DEF v
  <2>5. v \in AttrRec /\ v.loadedlist \in Seq(Elem) /\ IsInjective(v.loadedlist)
    BY <2>3, FieldTypes DEF ListsInv
  <2>6. l \in Seq(Elem) /\ IsInjective(l) /\ ToSet(l) = ToSet(v.loadedlist) \ {g}
    BY <2>5, Removed
  <2>7. c \in [Groups -> Held] /\ c[g] = Nothing /\ \A h \in Groups \ {g} : c[h] = v.cache[h]
    BY <1>6, <1>9, <2>5, FieldTypes, HeldTypes
  <2>8. t = [v EXCEPT !.cache = c, !.fresh = v.fresh \ {g}, !.loadedlist = l]
    BY <2>4
  <2> HIDE DEF c, l
  <2>9. /\ t \in AttrRec /\ t.cache = c /\ t.fresh = v.fresh \ {g} /\ t.loadedlist = l
        /\ t.files = v.files /\ t.dirtylist = v.dirtylist /\ t.young = v.young /\ t.save = v.save
        /\ t.flush = v.flush /\ t.spoiled = v.spoiled /\ t.cut = v.cut
    BY <2>5, <2>6, <2>7, <2>8 DEF AttrRec
  <2>10. There(t) = There(v) \ {g}
    BY <2>7, <2>9 DEF There, Nothing
  <2>11. g \notin ToSet(v.dirtylist) /\ g # Default
    BY <1>6, <1>9, <2>3, Apart
  <2>12. ListsInv(t)
    BY <2>3, <2>6, <2>9, <2>10, <2>11 DEF ListsInv
  <2>13. KeptInv(t, last)
    <3> SUFFICES ASSUME NEW h \in Groups \ v.spoiled
                 PROVE  /\ v.files[h].named = v.files[h].there
                        /\ ~c[h].there => v.files[h].val = last[h]
                        /\ c[h].there => /\ c[h].val = last[h] /\ c[h].named
                                         /\ h \notin ToSet(v.dirtylist) => v.files[h] = c[h]
      BY <2>9 DEF KeptInv
    <3>1. /\ v.files[h].named = v.files[h].there
          /\ ~v.cache[h].there => v.files[h].val = last[h]
          /\ v.cache[h].there =>
               /\ v.cache[h].val = last[h] /\ v.cache[h].named
               /\ h \notin ToSet(v.dirtylist) => v.files[h] = v.cache[h]
      BY <2>3 DEF KeptInv
    <3>2. CASE h # g
      BY <2>7, <3>1, <3>2
    <3>3. CASE h = g
      BY <2>7, <2>11, <3>1, <3>3 DEF Nothing
    <3> QED BY <3>2, <3>3
  <2>14. PlaceInv(t)
    <3>1. u.cut => t.cut
      BY <2>3, <2>9
    <3>2. ~t.cut => ToSet(u.dirtylist) \cap {u.save.curr, u.save.next} \subseteq ToSet(t.dirtylist)
      BY <2>2, <2>3, <2>9 DEF Cuts
    <3> QED BY <2>2, <2>3, <2>9, <3>1, <3>2, PlaceKept
  <2>15. t.save = s.save /\ t.flush = s.flush /\ ToSet(t.dirtylist) \subseteq ToSet(s.dirtylist)
    BY <1>2, <2>2, <2>3, <2>9 DEF Same
  <2> QED BY <2>12, <2>13, <2>14, <2>15 DEF GroupsInv, t
<1> QED BY <1>1, <1>8, <1>9

\* The loops, as they are told in FoldInduction: c is what they are called with, and where
\* the loop that saves had stopped.
LoopRec == [s : AttrRec, curr : Spot, next : Spot, steps : Nat, out : BOOLEAN]

SaveTurn(c, l, i) ==
  IF Ended(l, c.all) THEN l
  ELSE IF ~Saves(l.s, l.curr, c.force) THEN [l EXCEPT !.out = TRUE]
  ELSE LET m == attrgroup_save(l.s, l.curr, c.force, c.failing)
       IN  [s |-> m, curr |-> l.next, next |-> DirtyNext(m, l.next),
            steps |-> l.steps + 1, out |-> FALSE]

\* The loop keeps the values, and is at a dirty group or at the end.  Where it saves all,
\* it is at the first dirty group, and as many turns as there are groups do for all.
AtFirst(c, k, l) ==
  /\ l.curr = elist_next(l.s.dirtylist, End)
  /\ l.curr # End => l.next = elist_next(l.s.dirtylist, l.curr)
  /\ ~l.out
  /\ l.s.dirtylist = <<>> \/ Len(l.s.dirtylist) + k <= Cardinality(Groups)
SaveLoopInv(c, k, l) ==
  /\ l \in LoopRec /\ ListsInv(l.s) /\ KeptInv(l.s, c.last)
  /\ (l.s.cut /\ ~c.all) \/ OnDirty(l.s.dirtylist, l.curr, l.next)
  /\ c.all /\ c.force => AtFirst(c, k, l)

\* Where the search for a group that is in the list goes on.
LEMMA DirtyNextOf ==
  ASSUME NEW s, ListsInv(s), NEW g \in Spot
  PROVE  /\ DirtyNext(s, g) \in Spot
         /\ g \in ToSet(s.dirtylist) =>
              /\ DirtyNext(s, g) = elist_next(s.dirtylist, g)
              /\ DirtyNext(s, g) # End => DirtyNext(s, g) \in ToSet(s.dirtylist) \ {g}
<1>1. s \in AttrRec /\ s.dirtylist \in Seq(Groups) /\ IsInjective(s.dirtylist) /\ s.behind \in Spot
      /\ ToSet(s.dirtylist) \subseteq Groups
  BY FieldTypes, Elements DEF ListsInv
<1>2. /\ elist_next(s.dirtylist, g) \in ToSet(s.dirtylist) \cup {End}
      /\ g # End => elist_next(s.dirtylist, g) # g \/ elist_next(s.dirtylist, g) = End
  BY <1>1, NextOf, Apart
<1>3. elist_next(s.dirtylist, g) \in Spot
  BY <1>1, <1>2 DEF Spot
<1>4. DirtyNext(s, g) \in Spot
  BY <1>1, <1>3 DEF DirtyNext
<1>5. ASSUME g \in ToSet(s.dirtylist)
      PROVE  DirtyNext(s, g) = elist_next(s.dirtylist, g) /\ g # End
  BY <1>1, <1>5, Apart DEF DirtyNext
<1> QED BY <1>2, <1>4, <1>5

\* A turn of the loop that saves.
LEMMA SaveTurnKeeps ==
  ASSUME NEW c, c.all \in BOOLEAN, c.force \in BOOLEAN, NEW l, NEW k \in Nat,
         SaveLoopInv(c, k, l)
  PROVE  SaveLoopInv(c, k + 1, SaveTurn(c, l, k + 1))
<1> DEFINE r == SaveTurn(c, l, k + 1)
           m == attrgroup_save(l.s, l.curr, c.force, c.failing)
           n == DirtyNext(m, l.next)
<1>0. /\ l \in LoopRec /\ ListsInv(l.s) /\ KeptInv(l.s, c.last) /\ l.s \in AttrRec
      /\ l.curr \in Spot /\ l.next \in Spot /\ l.steps \in Nat /\ l.out \in BOOLEAN
      /\ l.s.dirtylist \in Seq(Groups) /\ IsInjective(l.s.dirtylist)
  BY FieldTypes DEF SaveLoopInv, LoopRec, ListsInv
<1>1. CASE Ended(l, c.all)
  <2>1. r = l
    BY <1>1 DEF SaveTurn
  <2>2. ASSUME c.all, c.force PROVE AtFirst(c, k + 1, l)
    <3>1. AtFirst(c, k, l)
      BY <2>2 DEF SaveLoopInv
    <3>2. l.curr = End
      BY <1>1, <2>2, <3>1 DEF Ended, AtFirst
    <3>3. l.s.dirtylist = <<>>
      <4>1. l.s.dirtylist # <<>> => elist_next(l.s.dirtylist, End) = Head(l.s.dirtylist)
        BY <1>0, NextOf, Apart
      <4>2. l.s.dirtylist # <<>> => Head(l.s.dirtylist) \in Groups
        BY <1>0
      <4> QED BY <3>1, <3>2, <4>1, <4>2, Apart DEF AtFirst
    <3> QED BY <3>1, <3>3 DEF AtFirst
  <2> QED BY <2>1, <2>2 DEF SaveLoopInv
<1>2. CASE ~Ended(l, c.all) /\ ~Saves(l.s, l.curr, c.force)
  <2>1. r = [l EXCEPT !.out = TRUE]
    BY <1>2 DEF SaveTurn
  <2> HIDE DEF r
  <2>2. r \in LoopRec /\ r.s = l.s /\ r.curr = l.curr /\ r.next = l.next
    BY <1>0, <2>1 DEF LoopRec
  <2>3. ~(c.all /\ c.force)
    BY <1>2 DEF SaveLoopInv, OnDirty, Saves, Ended
  <2> QED BY <2>2, <2>3 DEF SaveLoopInv, r
<1>3. CASE ~Ended(l, c.all) /\ Saves(l.s, l.curr, c.force)
  <2>1. r = [s |-> m, curr |-> l.next, next |-> n, steps |-> l.steps + 1, out |-> FALSE]
    BY <1>3 DEF SaveTurn
  <2>2. /\ ListsInv(m) /\ KeptInv(m, c.last) /\ m.cut = l.s.cut
        /\ m.dirtylist = RemoveFirst(l.s.dirtylist, l.curr)
        /\ ToSet(m.dirtylist) = ToSet(l.s.dirtylist) \ {l.curr}
    <3> HIDE DEF m
    <3>1. m = attrgroup_save(l.s, l.curr, c.force, c.failing)
      BY DEF m
    <3>2. /\ ListsInv(m) /\ KeptInv(m, c.last) /\ m.cut = l.s.cut
          /\ Saves(l.s, l.curr, c.force) => m.dirtylist = RemoveFirst(l.s.dirtylist, l.curr)
          /\ Saves(l.s, l.curr, c.force) =>
               ToSet(m.dirtylist) = ToSet(l.s.dirtylist) \ {l.curr}
      BY <1>0, <3>1, Saved, SMTT(40)
    <3> QED BY <1>3, <3>2
  <2> HIDE DEF m
  <2>3. /\ n \in Spot
        /\ l.next \in ToSet(m.dirtylist) =>
              /\ n = elist_next(m.dirtylist, l.next)
              /\ n # End => n \in ToSet(m.dirtylist) \ {l.next}
    BY <1>0, <2>2, DirtyNextOf
  <2> HIDE DEF n, r
  <2>4. /\ r \in LoopRec /\ r.s = m /\ r.curr = l.next /\ r.next = n /\ r.out = FALSE
    BY <1>0, <2>1, <2>2, <2>3 DEF LoopRec, ListsInv
  <2>5. l.curr # End
    BY <1>3 DEF Ended
  <2>6. (l.s.cut /\ ~c.all) \/ OnDirty(m.dirtylist, l.next, n)
    BY <2>2, <2>3, <2>5 DEF SaveLoopInv, OnDirty
  <2>7. ASSUME c.all, c.force PROVE AtFirst(c, k + 1, r)
    <3> DEFINE d == l.s.dirtylist
    <3>1. AtFirst(c, k, l) /\ OnDirty(d, l.curr, l.next)
      BY <2>7 DEF SaveLoopInv
    <3>2. d # <<>>
      <4>1. d = <<>> => elist_next(d, End) = End
        BY <1>0, NextOf, Apart
      <4> QED BY <2>5, <3>1, <4>1 DEF AtFirst
    <3>3. l.curr = Head(d) /\ m.dirtylist = Tail(d)
      <4>1. l.curr = Head(d)
        BY <1>0, <3>1, <3>2, NextOf, Apart DEF AtFirst
      <4> QED BY <1>0, <2>2, <3>2, <4>1, HeadRemoved
    <3>4. Len(d) + k <= Cardinality(Groups) /\ Len(m.dirtylist) = Len(d) - 1 /\ Len(d) \in Nat
      BY <1>0, <3>1, <3>2, <3>3 DEF AtFirst
    <3>5. l.next = elist_next(Tail(d), End)
      <4>1. l.next = elist_next(d, Head(d))
        BY <2>5, <3>1, <3>3 DEF AtFirst
      <4> QED BY <1>0, <3>2, <4>1, SecondOf, Apart
    <3>6. l.next # End => n = elist_next(m.dirtylist, l.next)
      BY <2>2, <2>3, <2>5, <3>1 DEF OnDirty
    <3>7. Len(m.dirtylist) + (k + 1) <= Cardinality(Groups)
      <4>1. Cardinality(Groups) \in Nat
        BY FS_CardinalityType, Apart
      <4>2. \A a, b \in Nat : a = b - 1 => a + (k + 1) = b + k
        OBVIOUS
      <4>3. Len(m.dirtylist) \in Nat
        BY <2>2, FieldTypes DEF ListsInv
      <4>4. Len(m.dirtylist) + (k + 1) = Len(d) + k
        BY <3>4, <4>2, <4>3
      <4> QED BY <3>4, <4>4
    <3> QED BY <2>4, <3>3, <3>5, <3>6, <3>7 DEF AtFirst
  <2> QED BY <2>2, <2>4, <2>6, <2>7 DEF SaveLoopInv, r
<1> QED BY <1>1, <1>2, <1>3

\* Where the loop begins: at the first group, or where it stopped.
LEMMA SaveBegins ==
  ASSUME NEW c, c.all \in BOOLEAN, NEW s, GroupsInv(s, c.last)
  PROVE  SaveLoopInv(c, 0, Begin(s, s.dirtylist, s.save, c.all))
<1> DEFINE d == s.dirtylist
           first == elist_next(d, End)
           second == elist_next(d, first)
           b == Begin(s, s.dirtylist, s.save, c.all)
<1>0. /\ ListsInv(s) /\ KeptInv(s, c.last) /\ PlaceInv(s) /\ s \in AttrRec
      /\ d \in Seq(Groups) /\ IsInjective(d) /\ s.save \in Places
      /\ ToSet(d) \subseteq Groups
  BY FieldTypes, Elements DEF GroupsInv, ListsInv
<1>1. s.save.curr \in Spot /\ s.save.next \in Spot
  BY <1>0 DEF Places, Spot
<1>2. /\ first \in ToSet(d) \cup {End} /\ second \in ToSet(d) \cup {End}
      /\ first # End => second # first \/ second = End
      /\ d # <<>> => first = Head(d)
  BY <1>0, NextOf, Apart
<1>3. OnDirty(d, first, second)
  BY <1>2 DEF OnDirty
<1>4. first \in Spot /\ second \in Spot
  BY <1>0, <1>2 DEF Spot
<1>5. d = <<>> \/ Len(d) + 0 <= Cardinality(Groups)
  BY <1>0, LengthBound, Apart
<1>6. s.save.curr = End \/ c.all => b = Loop(first, second, s)
  BY DEF Begin
<1>7. ~(s.save.curr = End \/ c.all) => b = Loop(s.save.curr, s.save.next, s)
  BY DEF Begin
<1> HIDE DEF first, second, b
<1>8. CASE s.save.curr = End \/ c.all
  <2>1. b = [s |-> s, curr |-> first, next |-> second, steps |-> 0, out |-> FALSE]
    BY <1>6, <1>8 DEF Loop
  <2>2. /\ b \in LoopRec /\ b.s = s /\ b.curr = first /\ b.next = second /\ b.out = FALSE
    BY <1>0, <1>4, <2>1 DEF LoopRec
  <2>3. AtFirst(c, 0, b)
    BY <1>5, <2>2 DEF AtFirst, first, second
  <2> QED BY <1>0, <1>3, <2>2, <2>3 DEF SaveLoopInv, b
<1>9. CASE ~(s.save.curr = End \/ c.all)
  <2>1. b = [s |-> s, curr |-> s.save.curr, next |-> s.save.next, steps |-> 0, out |-> FALSE]
    BY <1>7, <1>9 DEF Loop
  <2>2. /\ b \in LoopRec /\ b.s = s /\ b.curr = s.save.curr /\ b.next = s.save.next
    BY <1>0, <1>1, <2>1 DEF LoopRec
  <2> QED BY <1>0, <1>9, <2>2 DEF SaveLoopInv, PlaceInv, b
<1> QED BY <1>8, <1>9

SaveFold == INSTANCE FoldInduction WITH Op <- SaveTurn, Inv <- SaveLoopInv

\* The turns are enough for every group.
LEMMA TurnsEnough ==
  ASSUME NEW n, n = UserStep + Cardinality(Groups) + 1
  PROVE  /\ n \in Nat /\ n > Cardinality(Groups) /\ Cardinality(Groups) \in Nat
         /\ DOMAIN Turns = 1..n /\ \A i \in 1..n : Turns[i] = i
<1>1. Cardinality(Groups) \in Nat /\ UserStep \in Nat
  BY FS_CardinalityType, Apart, AttrAssumption
<1>2. n \in Nat /\ n > Cardinality(Groups)
  <2> HIDE DEF Cardinality
  <2> QED BY <1>1
<1> QED BY <1>1, <1>2 DEF Turns

\* What holds at the end of the loop that saves.
LEMMA SaveLoop ==
  ASSUME NEW c, c.all \in BOOLEAN, c.force \in BOOLEAN, NEW s, GroupsInv(s, c.last)
  PROVE  LET t == attrlayer_save(s, c.force, c.all, c.failing)
         IN  GroupsInv(t, c.last) /\ (c.all /\ c.force => t.dirtylist = <<>>)
<1> DEFINE b == Begin(s, s.dirtylist, s.save, c.all)
           l == SaveFold!Fold(c, b, Turns)
           t == attrlayer_save(s, c.force, c.all, c.failing)
<1>1. SaveLoopInv(c, 0, b)
  BY SaveBegins
<1>2. PICK n : n = UserStep + Cardinality(Groups) + 1
  OBVIOUS
<1>3. /\ n \in Nat /\ n > Cardinality(Groups) /\ Cardinality(Groups) \in Nat
      /\ DOMAIN Turns = 1..n /\ \A i \in 1..n : Turns[i] = i
  BY <1>2, TurnsEnough
<1>4. \A a : \A i \in 1..n : SaveLoopInv(c, i - 1, a) => SaveLoopInv(c, i, SaveTurn(c, a, Turns[i]))
  <2> TAKE a
  <2> TAKE i \in 1..n
  <2>1. i - 1 \in Nat /\ (i - 1) + 1 = i /\ Turns[i] = i
    BY <1>3
  <2>2. SaveLoopInv(c, i - 1, a) => SaveLoopInv(c, (i - 1) + 1, SaveTurn(c, a, (i - 1) + 1))
    BY <2>1, SaveTurnKeeps
  <2> QED BY <2>1, <2>2
<1> HIDE DEF b
<1>5. SaveLoopInv(c, n, l)
  BY <1>1, <1>3, <1>4, SaveFold!FoldLeftInv
<1>6. t = [l.s EXCEPT !.save = [curr |-> l.curr, next |-> l.next], !.cut = @ /\ ~c.all]
  BY DEF attrlayer_save, SaveTurn, FoldLeft, MapThenFoldSet, Max, SaveFold!Fold, SaveFold!Greatest, b
<1> HIDE DEF l, t
<1>7. /\ ListsInv(l.s) /\ KeptInv(l.s, c.last) /\ l.s \in AttrRec
      /\ [curr |-> l.curr, next |-> l.next] \in Places
  BY <1>5 DEF SaveLoopInv, ListsInv, LoopRec, Places, Spot
<1> DEFINE p == [curr |-> l.curr, next |-> l.next]
           cut == l.s.cut /\ ~c.all
<1>8. p.curr = l.curr /\ p.next = l.next /\ cut \in BOOLEAN
  OBVIOUS
<1>9. t = [l.s EXCEPT !.save = p, !.cut = cut]
  BY <1>6, <1>7 DEF AttrRec
<1>10. ~cut => OnDirty(l.s.dirtylist, l.curr, l.next)
  BY <1>5, <1>7, FieldTypes DEF SaveLoopInv
<1> HIDE DEF p, cut
<1>11. /\ t \in AttrRec /\ t.save = p /\ t.cut = cut
       /\ t.cache = l.s.cache /\ t.files = l.s.files /\ t.loadedlist = l.s.loadedlist
       /\ t.dirtylist = l.s.dirtylist /\ t.fresh = l.s.fresh /\ t.young = l.s.young
       /\ t.spoiled = l.s.spoiled
  BY <1>7, <1>8, <1>9 DEF AttrRec, p
<1>12. There(t) = There(l.s)
  BY <1>11 DEF There
<1>13. ListsInv(t) /\ KeptInv(t, c.last)
  BY <1>7, <1>11, <1>12 DEF ListsInv, KeptInv
<1>14. PlaceInv(t)
  BY <1>8, <1>10, <1>11 DEF PlaceInv
<1>15. ASSUME c.all, c.force PROVE t.dirtylist = <<>>
  <2>1. AtFirst(c, n, l) /\ l.s.dirtylist \in Seq(Groups)
    BY <1>5, <1>7, <1>15, FieldTypes DEF SaveLoopInv
  <2>2. ~(Len(l.s.dirtylist) + n <= Cardinality(Groups))
    <3>1. Len(l.s.dirtylist) \in Nat
      BY <2>1
    <3> QED BY <1>3, <3>1
  <2> QED BY <1>11, <2>1, <2>2 DEF AtFirst
<1> QED BY <1>13, <1>14, <1>15 DEF GroupsInv, t

\* The loop that throws groups out of the memory, in the same way.
FlushTurn(c, l, i) ==
  IF Ended(l, c.all) THEN l
  ELSE IF Flushed(l.s, l.curr, c.force, c.online) = 0 THEN [l EXCEPT !.out = TRUE]
  ELSE LET m == attrgroup_flush(l.s, l.curr, c.force, c.online, c.failing)
       IN  [s |-> m, curr |-> l.next, next |-> elist_next(m.loadedlist, l.next),
            steps |-> l.steps + 1, out |-> FALSE]
FlushLoopInv(c, k, l) ==
  /\ l \in LoopRec /\ GroupsInv(l.s, c.last)
  /\ c.clean => ToSet(l.s.dirtylist) = {}

\* What comes next in the list of loaded groups.
LEMMA LoadedNext ==
  ASSUME NEW s, ListsInv(s), NEW g
  PROVE  elist_next(s.loadedlist, g) \in Spot
<1>1. s.loadedlist \in Seq(Elem) /\ IsInjective(s.loadedlist)
  BY FieldTypes DEF ListsInv
<1>2. elist_next(s.loadedlist, g) \in ToSet(s.loadedlist) \cup {End}
  BY <1>1, NextOf, Apart
<1>3. ToSet(s.loadedlist) \subseteq Elem
  BY <1>1, Elements
<1> QED BY <1>2, <1>3, Apart DEF Spot

\* A turn of it.
LEMMA FlushTurnKeeps ==
  ASSUME NEW c, c.force \in BOOLEAN, NEW l, NEW k, FlushLoopInv(c, k, l), NEW i
  PROVE  FlushLoopInv(c, i, FlushTurn(c, l, i))
<1> DEFINE r == FlushTurn(c, l, i)
<1>0. /\ l \in LoopRec /\ GroupsInv(l.s, c.last)
      /\ c.clean => ToSet(l.s.dirtylist) = {}
      /\ l.s \in AttrRec /\ l.curr \in Spot /\ l.next \in Spot /\ l.steps \in Nat
  BY DEF FlushLoopInv, LoopRec
<1>1. CASE Ended(l, c.all)
  <2>1. r = l
    BY <1>1 DEF FlushTurn
  <2> QED BY <1>0, <2>1 DEF FlushLoopInv
<1>2. CASE ~Ended(l, c.all) /\ Flushed(l.s, l.curr, c.force, c.online) = 0
  <2>1. r = [l EXCEPT !.out = TRUE]
    BY <1>2 DEF FlushTurn
  <2> HIDE DEF r
  <2>2. r \in LoopRec /\ r.s = l.s
    BY <1>0, <2>1 DEF LoopRec
  <2> QED BY <1>0, <2>2 DEF FlushLoopInv, r
<1>3. CASE ~Ended(l, c.all) /\ Flushed(l.s, l.curr, c.force, c.online) # 0
  <2> DEFINE m == attrgroup_flush(l.s, l.curr, c.force, c.online, c.failing)
             n == elist_next(m.loadedlist, l.next)
  <2>1. r = [s |-> m, curr |-> l.next, next |-> n, steps |-> l.steps + 1, out |-> FALSE]
    BY <1>3 DEF FlushTurn
  <2>2. m = attrgroup_flush(l.s, l.curr, c.force, c.online, c.failing)
    OBVIOUS
  <2> HIDE DEF m
  <2>3. GroupsInv(m, c.last) /\ ToSet(m.dirtylist) \subseteq ToSet(l.s.dirtylist)
    BY <1>0, <1>3, <2>2, FlushKeeps, SMTT(40)
  <2>4. m \in AttrRec /\ ListsInv(m)
    BY <2>3 DEF GroupsInv, ListsInv
  <2>5. n \in Spot
    BY <2>4, LoadedNext
  <2> HIDE DEF n, r
  <2>6. r \in LoopRec /\ r.s = m
    BY <1>0, <2>1, <2>4, <2>5 DEF LoopRec
  <2> QED BY <1>0, <2>3, <2>6 DEF FlushLoopInv, r
<1> QED BY <1>1, <1>2, <1>3

FlushFold == INSTANCE FoldInduction WITH Op <- FlushTurn, Inv <- FlushLoopInv

\* What holds at its end.
LEMMA FlushLoop ==
  ASSUME NEW c, c.force \in BOOLEAN, NEW s, GroupsInv(s, c.last),
         c.clean => ToSet(s.dirtylist) = {}
  PROVE  LET t == attrlayer_flush(s, c.force, c.all, c.online, c.failing)
         IN  GroupsInv(t, c.last) /\ (c.clean => ToSet(t.dirtylist) = {})
<1> DEFINE b == Begin(s, s.loadedlist, s.flush, c.all)
           l == FlushFold!Fold(c, b, Turns)
           t == attrlayer_flush(s, c.force, c.all, c.online, c.failing)
<1>0. ListsInv(s) /\ s \in AttrRec /\ s.flush.curr \in Spot /\ s.flush.next \in Spot
  BY FieldTypes DEF GroupsInv, ListsInv, Places, Spot
<1>1. FlushLoopInv(c, 0, b)
  <2> DEFINE first == elist_next(s.loadedlist, End)
             second == elist_next(s.loadedlist, first)
  <2>1. first \in Spot /\ second \in Spot
    BY <1>0, LoadedNext
  <2>2. b = Loop(first, second, s) \/ b = Loop(s.flush.curr, s.flush.next, s)
    BY DEF Begin
  <2> HIDE DEF first, second, b
  <2>3. b \in LoopRec /\ b.s = s
    <3>1. \A x, y \in Spot : Loop(x, y, s) \in LoopRec /\ Loop(x, y, s).s = s
      BY <1>0 DEF Loop, LoopRec
    <3> QED BY <1>0, <2>1, <2>2, <3>1
  <2> QED BY <2>3 DEF FlushLoopInv
<1>2. PICK n : n = UserStep + Cardinality(Groups) + 1
  OBVIOUS
<1>3. n \in Nat /\ DOMAIN Turns = 1..n /\ \A i \in 1..n : Turns[i] = i
  BY <1>2, TurnsEnough
<1>4. \A a : \A i \in 1..n : FlushLoopInv(c, i - 1, a) => FlushLoopInv(c, i, FlushTurn(c, a, Turns[i]))
  BY <1>3, FlushTurnKeeps
<1> HIDE DEF b
<1>5. FlushLoopInv(c, n, l)
  BY <1>1, <1>3, <1>4, FlushFold!FoldLeftInv
<1>6. t = [l.s EXCEPT !.flush = [curr |-> l.curr, next |-> l.next]]
  BY DEF attrlayer_flush, FlushTurn, FoldLeft, MapThenFoldSet, Max, FlushFold!Fold, FlushFold!Greatest, b
<1> DEFINE p == [curr |-> l.curr, next |-> l.next]
<1> HIDE DEF l, t
<1>7. l.s \in AttrRec /\ GroupsInv(l.s, c.last) /\ p \in Places
  BY <1>5 DEF FlushLoopInv, LoopRec, Places, Spot
<1> HIDE DEF p
<1>8. t = [l.s EXCEPT !.flush = p]
  BY <1>6 DEF p
<1>9. /\ t \in AttrRec /\ t.save = l.s.save /\ t.cut = l.s.cut
      /\ t.cache = l.s.cache /\ t.files = l.s.files /\ t.loadedlist = l.s.loadedlist
      /\ t.dirtylist = l.s.dirtylist /\ t.fresh = l.s.fresh /\ t.young = l.s.young
      /\ t.spoiled = l.s.spoiled
  BY <1>7, <1>8 DEF AttrRec
<1>10. There(t) = There(l.s)
  BY <1>9 DEF There
<1>11. GroupsInv(t, c.last)
  BY <1>7, <1>9, <1>10 DEF GroupsInv, ListsInv, KeptInv, PlaceInv
<1> QED BY <1>5, <1>9, <1>11 DEF FlushLoopInv, t

\* The two loops as the main loop calls them, and as /save and a shutdown do.
LEMMA MainLoopKeeps ==
  ASSUME NEW s, NEW last, GroupsInv(s, last), NEW online, NEW failing
  PROVE  GroupsInv(attrlayer_flush(attrlayer_save(s, FALSE, FALSE, failing),
                                   FALSE, FALSE, online, failing), last)
<1> DEFINE c == [all |-> FALSE, force |-> FALSE, failing |-> failing, last |-> last,
                 online |-> online, clean |-> FALSE]
           u == attrlayer_save(s, c.force, c.all, c.failing)
           t == attrlayer_flush(u, c.force, c.all, c.online, c.failing)
<1>1. /\ c.all = FALSE /\ c.force = FALSE /\ c.failing = failing /\ c.last = last
      /\ c.online = online /\ c.clean = FALSE
  OBVIOUS
<1> HIDE DEF c
<1>2. GroupsInv(s, c.last) /\ c.all \in BOOLEAN /\ c.force \in BOOLEAN
  BY <1>1
<1>3. GroupsInv(u, c.last)
  BY <1>2, SaveLoop
<1> HIDE DEF u
<1>4. GroupsInv(t, c.last)
  BY <1>1, <1>2, <1>3, FlushLoop
<1> QED BY <1>1, <1>4, Zenon DEF t, u

\* After /save, or before the end, nothing is dirty.
LEMMA SavedAllKeeps ==
  ASSUME NEW s, NEW last, GroupsInv(s, last), NEW failing
  PROVE  LET t == SavedAll(s, failing) IN GroupsInv(t, last) /\ ToSet(t.dirtylist) = {}
<1> DEFINE c == [all |-> TRUE, force |-> TRUE, failing |-> failing, last |-> last,
                 online |-> {}, clean |-> TRUE]
           u == attrlayer_save(s, c.force, c.all, c.failing)
           t == attrlayer_flush(u, c.force, c.all, c.online, c.failing)
<1>1. /\ c.all = TRUE /\ c.force = TRUE /\ c.failing = failing /\ c.last = last
      /\ c.online = {} /\ c.clean = TRUE
  OBVIOUS
<1> HIDE DEF c
<1>2. GroupsInv(s, c.last) /\ c.all \in BOOLEAN /\ c.force \in BOOLEAN
  BY <1>1
<1>3. GroupsInv(u, c.last) /\ (c.all /\ c.force => u.dirtylist = <<>>)
  BY <1>2, SaveLoop
<1> HIDE DEF u
<1>4. ToSet(u.dirtylist) = {}
  BY <1>1, <1>3, EmptyList
<1>5. GroupsInv(t, c.last) /\ (c.clean => ToSet(t.dirtylist) = {})
  BY <1>2, <1>3, <1>4, FlushLoop
<1>6. t = SavedAll(s, failing)
  BY <1>1, Zenon DEF t, u, SavedAll
<1> HIDE DEF t
<1> QED BY <1>1, <1>5, <1>6

-----------------------------------------------------------------------------
\* A start: the files are right, and nothing is in the memory but the default account and
\* the groups that are taken for it.
LEMMA StartedKeeps ==
  ASSUME NEW onDisk \in [Groups -> Held], NEW spoiled \in SUBSET Groups, NEW last \in LastSets,
         \A g \in Groups \ spoiled : InFile([files |-> onDisk], g, last)
  PROVE  GroupsInv(Started(onDisk, spoiled), last)
<1> DEFINE kept == {g \in LikeDefault : onDisk[g].there}
           q == SetToSeq(kept)
           l == <<Default>> \o q
           c == [g \in Groups |-> IF g \in kept THEN onDisk[g] ELSE Nothing]
           t == Started(onDisk, spoiled)
<1>1. kept \subseteq Groups /\ IsFiniteSet(kept)
  BY AttrAssumption, FS_Subset
<1>2. q \in Seq(kept) /\ ToSet(q) = kept /\ IsInjective(q)
  <2> HIDE DEF kept
  <2> QED BY <1>1, SetAsList
<1>3. q \in Seq(Elem) /\ Default \in Elem /\ Default \notin kept
  BY <1>1, <1>2, Retyped, Apart DEF Elem
<1>4. l \in Seq(Elem) /\ ToSet(l) = {Default} \cup kept /\ IsInjective(l)
  <2> HIDE DEF q, kept
  <2> QED BY <1>2, <1>3, PutInFront
<1>5. c \in [Groups -> Held] /\ \A g \in Groups : c[g] = IF g \in kept THEN onDisk[g] ELSE Nothing
  BY HeldTypes
<1>6. t = [cache |-> c, files |-> onDisk, loadedlist |-> l, dirtylist |-> <<>>,
           fresh |-> {Default} \cup kept, young |-> {}, save |-> [curr |-> End, next |-> End],
           flush |-> [curr |-> End, next |-> End], behind |-> End, spoiled |-> spoiled,
           cut |-> FALSE]
  BY DEF Started
<1> DEFINE p == [curr |-> End, next |-> End]
           e == <<>>
<1>7. p \in Places /\ p.curr = End
  BY DEF Places
<1>8. e \in Seq(Groups) /\ ToSet(e) = {} /\ IsInjective(e)
  BY EmptyList
<1>9. \A g \in Groups : c[g].there <=> g \in kept
  BY <1>1, <1>5 DEF Nothing
<1>10. t = [cache |-> c, files |-> onDisk, loadedlist |-> l, dirtylist |-> e,
            fresh |-> {Default} \cup kept, young |-> {}, save |-> p,
            flush |-> p, behind |-> End, spoiled |-> spoiled, cut |-> FALSE]
  BY <1>6
<1>11. {Default} \cup kept \subseteq Elem /\ End \in Spot
  BY <1>1 DEF Elem, Spot
<1> HIDE DEF t, c, l, p, e, kept
<1>12. /\ t \in AttrRec /\ t.cache = c /\ t.files = onDisk /\ t.loadedlist = l /\ t.dirtylist = e
       /\ t.fresh = {Default} \cup kept /\ t.young = {} /\ t.save = p /\ t.spoiled = spoiled
       /\ t.cut = FALSE
  BY <1>4, <1>5, <1>7, <1>8, <1>10, <1>11 DEF AttrRec
<1>13. There(t) = kept
  BY <1>1, <1>9, <1>12 DEF There
<1>14. ListsInv(t)
  BY <1>4, <1>8, <1>12, <1>13 DEF ListsInv
<1>15. KeptInv(t, last)
  <2> SUFFICES ASSUME NEW g \in Groups \ spoiled
               PROVE  /\ onDisk[g].named = onDisk[g].there
                      /\ ~c[g].there => onDisk[g].val = last[g]
                      /\ c[g].there => /\ c[g].val = last[g] /\ c[g].named
                                       /\ g \notin ToSet(e) => onDisk[g] = c[g]
    BY <1>12 DEF KeptInv
  <2>1. onDisk[g].val = last[g] /\ onDisk[g].named = onDisk[g].there
    BY DEF InFile
  <2>2. g \in kept => onDisk[g].there
    BY DEF kept
  <2> QED BY <1>5, <1>9, <2>1, <2>2
<1>16. PlaceInv(t)
  BY <1>7, <1>12 DEF PlaceInv, OnDirty
<1> QED BY <1>14, <1>15, <1>16 DEF GroupsInv, t

\* Where nothing is dirty the files are right.
LEMMA CleanFiles ==
  ASSUME NEW s, NEW last, GroupsInv(s, last), ToSet(s.dirtylist) = {}
  PROVE  /\ s.files \in [Groups -> Held] /\ s.spoiled \in SUBSET Groups
         /\ \A g \in Groups \ s.spoiled : InFile([files |-> s.files], g, last)
<1>1. s \in AttrRec /\ KeptInv(s, last)
  BY DEF GroupsInv, ListsInv
<1>2. ASSUME NEW g \in Groups \ s.spoiled
      PROVE  s.files[g].val = last[g] /\ s.files[g].named = s.files[g].there
  BY <1>1, <1>2 DEF KeptInv
<1> QED BY <1>1, <1>2, FieldTypes DEF InFile

\* The first states.
LEMMA AttrInvInit == AttrInit => AttrInv
<1> SUFFICES ASSUME AttrInit PROVE AttrInv
  OBVIOUS
<1>1. PICK there \in SUBSET Groups :
        attrs = Started([g \in Groups |-> IF g \in there THEN New ELSE Nothing], {})
  BY DEF AttrInit
<1> DEFINE onDisk == [g \in Groups |-> IF g \in there THEN New ELSE Nothing]
<1>2. onDisk \in [Groups -> Held]
  BY HeldTypes
<1>3. lastSet \in LastSets /\ \A g \in Groups : lastSet[g] = NoValue
  BY DEF AttrInit, LastSets
<1>4. \A g \in Groups \ {} : InFile([files |-> onDisk], g, lastSet)
  BY <1>3 DEF InFile, New, Nothing
<1> HIDE DEF onDisk
<1>5. GroupsInv(Started(onDisk, {}), lastSet)
  BY <1>2, <1>3, <1>4, StartedKeeps
<1>6. attrMishaps \in 0..MaxAttrMishaps
  BY AttrAssumption DEF AttrInit
<1> QED BY <1>1, <1>3, <1>5, <1>6 DEF AttrInv, onDisk

\* The count of mishaps stays within its bound.
LEMMA MishapsCount ==
  ASSUME attrMishaps \in 0..MaxAttrMishaps, NEW n \in {0, 1}, Mishaps(n)
  PROVE  attrMishaps' \in 0..MaxAttrMishaps
BY AttrAssumption DEF Mishaps

\* Every step.
LEMMA AttrInvStep == AttrInv /\ [AttrNext]_attrVars => AttrInv'
<1> SUFFICES ASSUME AttrInv, [AttrNext]_attrVars PROVE AttrInv'
  OBVIOUS
<1>0. GroupsInv(attrs, lastSet) /\ lastSet \in LastSets /\ attrMishaps \in 0..MaxAttrMishaps
  BY DEF AttrInv
<1>1. ASSUME NEW g \in Groups, NEW fail \in BOOLEAN, Get(g, fail) PROVE AttrInv'
  <2>1. KnownIn(attrs, g) /\ (fail => ~attrs.cache[g].there) /\ UNCHANGED lastSet
        /\ attrs' = attrgroup_get_attr(attrs, g, fail)
    BY <1>1 DEF Get, Known, KnownIn
  <2>2. GroupsInv(attrs', lastSet')
    BY <1>0, <2>1, GetKeeps
  <2>3. attrMishaps' \in 0..MaxAttrMishaps
    BY <1>0, <1>1, MishapsCount DEF Get
  <2> QED BY <1>0, <2>1, <2>2, <2>3 DEF AttrInv
<1>2. ASSUME NEW g \in Groups, NEW fail \in BOOLEAN, NEW v \in Values, Set(g, v, fail)
      PROVE  AttrInv'
  <2>1. KnownIn(attrs, g) /\ (fail => ~attrs.cache[g].there)
        /\ attrs' = attrgroup_set_attr(attrs, g, v, fail)
        /\ lastSet' = [lastSet EXCEPT ![g] = v]
    BY <1>2 DEF Set, Known, KnownIn
  <2>2. GroupsInv(attrs', lastSet')
    BY <1>0, <2>1, SetKeeps
  <2>3. attrMishaps' \in 0..MaxAttrMishaps
    BY <1>0, <1>2, MishapsCount DEF Set
  <2>4. lastSet' \in LastSets
    BY <1>0, <2>1 DEF LastSets
  <2> QED BY <2>2, <2>3, <2>4 DEF AttrInv
<1>3. ASSUME NEW g \in Groups, NEW failing, accountlist_create_account(g, failing) PROVE AttrInv'
  <2>1. ~KnownIn(attrs, g) /\ lastSet' = [lastSet EXCEPT ![g] = NoValue]
    BY <1>3 DEF accountlist_create_account, Known, KnownIn
  <2>2. attrs' = LET born == [attrs EXCEPT !.cache[g] = New, !.loadedlist = Append(@, g)]
                 IN  attrgroup_save(set_dirty(set_accessed(born, g), g), g, TRUE, failing)
    BY <1>3 DEF accountlist_create_account
  <2>3. GroupsInv(attrs', lastSet')
    BY <1>0, <2>1, <2>2, CreateKeeps, Zenon
  <2>4. attrMishaps' \in 0..MaxAttrMishaps
    BY <1>0, <1>3, MishapsCount DEF accountlist_create_account, Broken
  <2>5. lastSet' \in LastSets
    BY <1>0, <2>1 DEF LastSets
  <2> QED BY <2>3, <2>4, <2>5 DEF AttrInv
<1>4. ASSUME NEW g \in Groups, NEW failing, Logoff(g, failing) PROVE AttrInv'
  <2>1. /\ attrs' = attrgroup_save([attrs EXCEPT !.cut = @ \/ Cuts(attrs, g)], g, TRUE, failing)
        /\ UNCHANGED lastSet
    BY <1>4 DEF Logoff
  <2>2. GroupsInv(attrs', lastSet')
    BY <1>0, <2>1, LogoffKeeps, Zenon
  <2>3. attrMishaps' \in 0..MaxAttrMishaps
    BY <1>0, <1>4, MishapsCount DEF Logoff, Broken
  <2> QED BY <1>0, <2>1, <2>2, <2>3 DEF AttrInv
<1>5. ASSUME NEW online, NEW failing, MainLoop(online, failing) PROVE AttrInv'
  <2>1. /\ attrs' = attrlayer_flush(attrlayer_save(attrs, FALSE, FALSE, failing),
                                    FALSE, FALSE, online, failing)
        /\ UNCHANGED lastSet
    BY <1>5 DEF MainLoop
  <2>2. GroupsInv(attrs', lastSet')
    BY <1>0, <2>1, MainLoopKeeps, Zenon
  <2>3. attrMishaps' \in 0..MaxAttrMishaps
    BY <1>0, <1>5, MishapsCount DEF MainLoop, Broken
  <2> QED BY <1>0, <2>1, <2>2, <2>3 DEF AttrInv
<1>6. ASSUME NEW failing, SaveCommand(failing) PROVE AttrInv'
  <2>1. attrs' = SavedAll(attrs, failing) /\ UNCHANGED lastSet
    BY <1>6 DEF SaveCommand
  <2>2. GroupsInv(attrs', lastSet')
    BY <1>0, <2>1, SavedAllKeeps
  <2>3. attrMishaps' \in 0..MaxAttrMishaps
    BY <1>0, <1>6, MishapsCount DEF SaveCommand, Broken
  <2> QED BY <1>0, <2>1, <2>2, <2>3 DEF AttrInv
<1>7. ASSUME NEW failing, Shutdown(failing) PROVE AttrInv'
  <2> DEFINE s == SavedAll(attrs, failing)
  <2>1. attrs' = Started(s.files, s.spoiled) /\ UNCHANGED lastSet
    BY <1>7 DEF Shutdown
  <2>2. GroupsInv(s, lastSet) /\ ToSet(s.dirtylist) = {}
    BY <1>0, SavedAllKeeps
  <2> HIDE DEF s
  <2>3. GroupsInv(attrs', lastSet')
    BY <1>0, <2>1, <2>2, CleanFiles, StartedKeeps
  <2>4. attrMishaps' \in 0..MaxAttrMishaps
    BY <1>0, <1>7, MishapsCount DEF Shutdown
  <2> QED BY <1>0, <2>1, <2>3, <2>4 DEF AttrInv
<1>8. ASSUME Crash PROVE AttrInv'
  <2>1. /\ attrs' = Started(attrs.files, attrs.spoiled)
        /\ lastSet' = [g \in Groups |-> attrs.files[g].val]
    BY <1>8 DEF Crash
  <2>2. attrs \in AttrRec /\ KeptInv(attrs, lastSet)
    BY <1>0 DEF GroupsInv, ListsInv
  <2>3. attrs.files \in [Groups -> Held] /\ attrs.spoiled \in SUBSET Groups
    BY <2>2, FieldTypes
  <2>4. lastSet' \in LastSets
    BY <2>1, <2>3 DEF LastSets, Held
  <2>5. \A g \in Groups \ attrs.spoiled : InFile([files |-> attrs.files], g, lastSet')
    BY <2>1, <2>2 DEF InFile, KeptInv
  <2>6. GroupsInv(attrs', lastSet')
    BY <2>1, <2>3, <2>4, <2>5, StartedKeeps
  <2>7. attrMishaps' \in 0..MaxAttrMishaps
    BY <1>0, <1>8, MishapsCount DEF Crash
  <2> QED BY <2>4, <2>6, <2>7 DEF AttrInv
<1>9. ASSUME TimePasses PROVE AttrInv'
  <2>1. PICK young \in SUBSET attrs.young, fresh \in SUBSET attrs.fresh :
          attrs' = [attrs EXCEPT !.young = young, !.fresh = fresh]
    BY <1>9 DEF TimePasses
  <2>2. UNCHANGED <<lastSet, attrMishaps>>
    BY <1>9 DEF TimePasses
  <2>3. ListsInv(attrs) /\ KeptInv(attrs, lastSet) /\ PlaceInv(attrs) /\ attrs \in AttrRec
    BY <1>0 DEF GroupsInv, ListsInv
  <2>4. /\ attrs' \in AttrRec /\ attrs'.young = young /\ attrs'.fresh = fresh
        /\ attrs'.save = attrs.save /\ attrs'.cut = attrs.cut
        /\ attrs'.cache = attrs.cache /\ attrs'.files = attrs.files
        /\ attrs'.loadedlist = attrs.loadedlist /\ attrs'.dirtylist = attrs.dirtylist
        /\ attrs'.spoiled = attrs.spoiled
    BY <2>1, <2>3 DEF AttrRec
  <2>5. There(attrs') = There(attrs)
    BY <2>4 DEF There
  <2>6. GroupsInv(attrs', lastSet)
    BY <2>3, <2>4, <2>5 DEF GroupsInv, ListsInv, KeptInv, PlaceInv
  <2> QED BY <1>0, <2>2, <2>6 DEF AttrInv
<1>10. CASE UNCHANGED attrVars
  BY <1>10 DEF AttrInv, attrVars
<1> QED BY <1>1, <1>2, <1>3, <1>4, <1>5, <1>6, <1>7, <1>8, <1>9, <1>10 DEF AttrNext

-----------------------------------------------------------------------------
\* The inductive invariant holds in every state.
THEOREM AttrInvHolds == AttrSpec => []AttrInv
<1> QED BY AttrInvInit, AttrInvStep, PTL DEF AttrSpec

\* The values are of their types; the loaded list has the default account and the groups in
\* the memory, and the dirty ones are among these.
THEOREM AttrTypeCorrect == AttrSpec => []AttrTypeOK
<1>1. AttrInv => AttrTypeOK
  <2> SUFFICES ASSUME AttrInv PROVE AttrTypeOK
    OBVIOUS
  <2>1. ListsInv(attrs) /\ attrs \in AttrRec /\ lastSet \in LastSets /\ attrMishaps \in 0..MaxAttrMishaps
    BY DEF AttrInv, GroupsInv, ListsInv
  <2>2. ToSet(attrs.dirtylist) \subseteq ToSet(attrs.loadedlist) \ {Default}
    BY <2>1, Apart DEF ListsInv, There
  <2> QED BY <2>1, <2>2, FieldTypes DEF AttrTypeOK, ListsInv, There, LastSets
<1> QED BY <1>1, AttrInvHolds, PTL

\* An account has the value that was set last, and its name, in the memory or else in its
\* file: attrgroup_flush throws out nothing that has not been written, attrlayer_save and a
\* shutdown write what is dirty, and attrgroup_load reads what was written.
THEOREM ValuesKept == AttrSpec => []ValuesAreKept
<1>1. AttrInv => ValuesAreKept
  <2> SUFFICES ASSUME AttrInv PROVE ValuesAreKept
    OBVIOUS
  <2>1. KeptInv(attrs, lastSet) /\ attrs \in AttrRec
    BY DEF AttrInv, GroupsInv, ListsInv
  <2>2. ASSUME NEW g \in Groups \ attrs.spoiled, attrs.cache[g].there
        PROVE  attrs.cache[g].val = lastSet[g] /\ attrs.cache[g].named = attrs.cache[g].there
    <3>1. attrs.cache[g] \in Held /\ attrs.cache[g].named /\ attrs.cache[g].val = lastSet[g]
      BY <2>1, <2>2, FieldTypes DEF KeptInv
    <3> QED BY <2>2, <3>1 DEF Held
  <2>3. ASSUME NEW g \in Groups \ attrs.spoiled, ~attrs.cache[g].there
        PROVE  attrs.files[g].val = lastSet[g] /\ attrs.files[g].named = attrs.files[g].there
    BY <2>1, <2>3 DEF KeptInv
  <2> QED BY <2>2, <2>3 DEF ValuesAreKept
<1> QED BY <1>1, AttrInvHolds, PTL

\* The loop attrlayer_save has stopped at a dirty account, as long as nobody else has saved
\* the accounts that it was about to go on with.
THEOREM SaveGoesOn == AttrSpec => []SaveStopsAtDirty
<1>1. AttrInv => SaveStopsAtDirty
  <2> SUFFICES ASSUME AttrInv PROVE SaveStopsAtDirty
    OBVIOUS
  <2>1. PlaceInv(attrs)
    BY DEF AttrInv, GroupsInv
  <2> QED BY <2>1 DEF PlaceInv, OnDirty, SaveStopsAtDirty
<1> QED BY <1>1, AttrInvHolds, PTL

-----------------------------------------------------------------------------
\* Files of characters.  What d2cs has left to do is calls of these kinds, on the files
\* proper and the former versions; a call that needs the handle of the program finds it free.
CsPaths == {Save(c) : c \in Names} \cup {SaveBak(c) : c \in Names}
           \cup {Info(a, c) : a \in Owners, c \in Names}
           \cup {InfoBak(a, c) : a \in Owners, c \in Names}
Undoing == {e \in Seq([op : {"remove"}, at : CsPaths]) : Len(e) <= 2}
Opening == [op : {"create"}, at : CsPaths, v : {0}] \cup [op : {"openorstop"}, at : CsPaths]
Writing == [op : {"overwrite"}] \cup [op : {"close"}, error : Undoing]
CsCalls == Opening \cup Writing \cup [op : {"remove", "removeorstop"}, at : CsPaths]
           \cup [op : {"nonladder"}, owner : Owners, char : Names]

Holding(o) == o.op \in {"create", "openorstop", "overwrite"}
Using(o) == o.op \in {"overwrite", "close"}
\* A call that does not use an open file comes when there is none.
InTurn(s, h) ==
  /\ s = <<>> => h.at = <<>>
  /\ \A i \in 1..Len(s) :
       /\ ~Using(s[i]) => IF i = 1 THEN h.at = <<>> ELSE ~Holding(s[i - 1])
       /\ i = Len(s) => ~Holding(s[i])
CsInv(s, h) ==
  /\ s \in Seq(CsCalls) /\ Len(s) <= 10 /\ InTurn(s, h)
  /\ h.at \in CsPaths \cup {<<>>}

\* What is left of a handler of d2dbs after its first k calls.
Rest(P, k) == SubSeq(P, k + 1, Len(P))
Fix(a, c) == <<ReadOrStop(Info(a, c))>> \o charinfo(a, c)
SaveCalls(a, c, v) ==
  {charsave(c, v) \o fix \o <<Reply(c, v)>> : fix \in {<<>>, Fix(a, c)}}

\* What a file holds, or will hold when d2cs closes it.
Settled(p) == IF handle["d2cs"].at = p THEN handle["d2cs"].v ELSE files[p]

Between(lo, k, hi) == lo <= k /\ k <= hi
SavingAt(a, c, P, k) ==
  /\ todo["d2dbs"] = Rest(P, k)
  /\ k = 1 => handle["d2dbs"] = [at |-> SaveTmp(c), v |-> version[c]]
  /\ k = 6 => handle["d2dbs"].at = InfoTmp(a, c)
  /\ k \notin {1, 6} => handle["d2dbs"].at = <<>>
  /\ Between(2, k, 3) => files[SaveTmp(c)] = version[c]
  /\ k >= 4 => c \in exposed \/ Settled(Save(c)) >= version[c]
InfoAt(a, c, k) ==
  /\ todo["d2dbs"] = Rest(charinfo(a, c), k)
  /\ k = 1 => handle["d2dbs"].at = InfoTmp(a, c)
  /\ k # 1 => handle["d2dbs"].at = <<>>
SavingInv == \E a \in Owners, c \in Names : \E P \in SaveCalls(a, c, version[c]) :
               \E k \in 0..Len(P) - 1 : SavingAt(a, c, P, k)
InfoInv == \E a \in Owners, c \in Names : \E k \in 0..3 : InfoAt(a, c, k)
DbInv ==
  \/ todo["d2dbs"] = <<>> /\ handle["d2dbs"].at = <<>>
  \/ SavingInv
  \/ InfoInv

\* The version saved last is in the save; or there is no save, and it is in the former one.
VersionKept(c) ==
  \/ Settled(Save(c)) >= saved[c]
  \/ files[Save(c)] = Absent /\ handle["d2cs"].at # Save(c) /\ Settled(SaveBak(c)) >= saved[c]

FilesTypes ==
  /\ files \in [Paths -> Contents]
  /\ DOMAIN todo = {"d2cs", "d2dbs"}
  /\ handle \in [{"d2cs", "d2dbs"} -> [at : Paths \cup {<<>>}, v : Contents]]
  /\ ladder \subseteq Owners \X Names
  /\ playing \subseteq Owners \X Names
  /\ version \in [Names -> 0..MaxVersion]
  /\ mishaps \in 0..MaxMishaps
  /\ saved \in [Names -> {Absent} \cup 0..MaxVersion] /\ exposed \subseteq Names
FilesInv ==
  /\ FilesTypes
  /\ CsInv(todo["d2cs"], handle["d2cs"]) /\ DbInv
  /\ \A c \in Names : saved[c] <= version[c] /\ (c \in exposed \/ VersionKept(c))

-----------------------------------------------------------------------------
\* The paths of different files are different, and tell whose they are.
LEMMA PathsApart ==
  /\ \A c, d : /\ Save(c) = Save(d) => c = d
               /\ SaveBak(c) = SaveBak(d) => c = d
               /\ SaveTmp(c) = SaveTmp(d) => c = d
               /\ Save(c) # SaveBak(d) /\ Save(c) # SaveTmp(d) /\ SaveBak(c) # SaveTmp(d)
  /\ \A a, b, c, d : /\ Save(c) # Info(a, d) /\ Save(c) # InfoBak(a, d) /\ Save(c) # InfoTmp(a, d)
                     /\ SaveBak(c) # Info(a, d) /\ SaveBak(c) # InfoBak(a, d)
                     /\ SaveBak(c) # InfoTmp(a, d)
                     /\ SaveTmp(c) # Info(a, d) /\ SaveTmp(c) # InfoBak(a, d)
                     /\ SaveTmp(c) # InfoTmp(a, d)
                     /\ Info(a, c) # InfoBak(b, d) /\ Info(a, c) # InfoTmp(b, d)
                     /\ InfoBak(a, c) # InfoTmp(b, d)
<1>1. \A c : /\ Save(c)[1] = "save" /\ Save(c)[2] = c
             /\ SaveBak(c)[1] = "savebak" /\ SaveBak(c)[2] = c
             /\ SaveTmp(c)[1] = "savetmp" /\ SaveTmp(c)[2] = c
  BY DEF Save, SaveBak, SaveTmp
<1>2. \A a, c : Info(a, c)[1] = "info" /\ InfoBak(a, c)[1] = "infobak" /\ InfoTmp(a, c)[1] = "infotmp"
  BY DEF Info, InfoBak, InfoTmp
<1>3. \A c, d : /\ Save(c) = Save(d) => c = d
                /\ SaveBak(c) = SaveBak(d) => c = d
                /\ SaveTmp(c) = SaveTmp(d) => c = d
  BY <1>1
<1>4. \A c, d : /\ Save(c)[1] # SaveBak(d)[1] /\ Save(c)[1] # SaveTmp(d)[1]
                /\ SaveBak(c)[1] # SaveTmp(d)[1]
  BY <1>1
<1>5. \A a, b, c, d :
        /\ Save(c)[1] # Info(a, d)[1] /\ Save(c)[1] # InfoBak(a, d)[1] /\ Save(c)[1] # InfoTmp(a, d)[1]
        /\ SaveBak(c)[1] # Info(a, d)[1] /\ SaveBak(c)[1] # InfoBak(a, d)[1]
        /\ SaveBak(c)[1] # InfoTmp(a, d)[1]
        /\ SaveTmp(c)[1] # Info(a, d)[1] /\ SaveTmp(c)[1] # InfoBak(a, d)[1]
        /\ SaveTmp(c)[1] # InfoTmp(a, d)[1]
        /\ Info(a, c)[1] # InfoBak(b, d)[1] /\ Info(a, c)[1] # InfoTmp(b, d)[1]
        /\ InfoBak(a, c)[1] # InfoTmp(b, d)[1]
  BY <1>1, <1>2
<1> QED BY <1>3, <1>4, <1>5, SMTT(40)

\* Where the programs write, and which of these are saves.
LEMMA PathSets ==
  /\ CsPaths \subseteq Paths /\ <<>> \notin Paths
  /\ \A c \in Names : /\ Save(c) \in CsPaths /\ SaveBak(c) \in CsPaths
                      /\ SaveTmp(c) \in Paths /\ SaveTmp(c) \notin CsPaths
                      /\ IsSave(Save(c)) /\ NameOf(Save(c)) = c
                      /\ IsSave(SaveBak(c)) /\ NameOf(SaveBak(c)) = c
  /\ \A a \in Owners, c \in Names : /\ Info(a, c) \in CsPaths /\ InfoBak(a, c) \in CsPaths
                                    /\ InfoTmp(a, c) \in Paths /\ InfoTmp(a, c) \notin CsPaths
  /\ ~IsSave(<<>>)
  /\ \A p \in CsPaths : IsSave(p) => NameOf(p) \in Names
<1>1. <<>> \notin Paths
  <2>1. \A c : Save(c) # <<>> /\ SaveBak(c) # <<>> /\ SaveTmp(c) # <<>>
    BY DEF Save, SaveBak, SaveTmp
  <2>2. \A a, c : Info(a, c) # <<>> /\ InfoBak(a, c) # <<>> /\ InfoTmp(a, c) # <<>>
    BY DEF Info, InfoBak, InfoTmp
  <2> QED BY <2>1, <2>2 DEF Paths
<1>2. \A c : /\ IsSave(Save(c)) /\ NameOf(Save(c)) = c
             /\ IsSave(SaveBak(c)) /\ NameOf(SaveBak(c)) = c
  BY DEF IsSave, NameOf, Save, SaveBak
<1>3. \A a, c : ~IsSave(Info(a, c)) /\ ~IsSave(InfoBak(a, c))
  <2>1. \A a, c : Info(a, c)[1] = "info" /\ InfoBak(a, c)[1] = "infobak"
    BY DEF Info, InfoBak
  <2> QED BY <2>1 DEF IsSave
<1>4. ~IsSave(<<>>)
  BY DEF IsSave
<1>5. \A p \in CsPaths : IsSave(p) => NameOf(p) \in Names
  BY <1>2, <1>3 DEF CsPaths
<1>6. CsPaths \subseteq Paths
  BY DEF CsPaths, Paths
<1>7. \A c \in Names : /\ Save(c) \in CsPaths /\ SaveBak(c) \in CsPaths
                       /\ SaveTmp(c) \in Paths /\ SaveTmp(c) \notin CsPaths
  <2>1. ASSUME NEW c \in Names PROVE SaveTmp(c) \notin CsPaths
    BY PathsApart DEF CsPaths
  <2> QED BY <2>1 DEF CsPaths, Paths
<1>8. \A a \in Owners, c \in Names : /\ Info(a, c) \in CsPaths /\ InfoBak(a, c) \in CsPaths
                                     /\ InfoTmp(a, c) \in Paths /\ InfoTmp(a, c) \notin CsPaths
  <2>1. ASSUME NEW a \in Owners, NEW c \in Names PROVE InfoTmp(a, c) \notin CsPaths
    BY PathsApart DEF CsPaths
  <2> QED BY <2>1 DEF CsPaths, Paths
<1> QED BY <1>1, <1>2, <1>4, <1>5, <1>6, <1>7, <1>8

\* What is left of d2cs's handler, and the handle.
LEMMA CsTail ==
  ASSUME NEW s, NEW h, CsInv(s, h), s # <<>>,
         NEW k, k.at \in CsPaths \cup {<<>>}, Holding(Head(s)) \/ k.at = <<>>
  PROVE  CsInv(Tail(s), k)
<1>1. s \in Seq(CsCalls) /\ Len(s) <= 10 /\ Len(s) \in Nat /\ Len(s) # 0
  BY DEF CsInv
<1> DEFINE t == Tail(s)
<1>2. t \in Seq(CsCalls) /\ Len(t) = Len(s) - 1 /\ \A i \in 1..Len(t) : t[i] = s[i + 1]
  BY <1>1
<1>3. Head(s) = s[1]
  BY <1>1
<1> HIDE DEF t
<1>4. t = <<>> => Len(s) = 1
  <2>1. t = <<>> => Len(t) = 0
    OBVIOUS
  <2> QED BY <1>1, <1>2, <2>1
<1>5. \A i \in 1..Len(s) : /\ ~Using(s[i]) => IF i = 1 THEN h.at = <<>> ELSE ~Holding(s[i - 1])
                           /\ i = Len(s) => ~Holding(s[i])
  BY DEF CsInv, InTurn
<1>6. t = <<>> => k.at = <<>>
  BY <1>1, <1>3, <1>4, <1>5
<1>7. ASSUME NEW i \in 1..Len(t)
      PROVE  /\ ~Using(t[i]) => IF i = 1 THEN k.at = <<>> ELSE ~Holding(t[i - 1])
             /\ i = Len(t) => ~Holding(t[i])
  <2>1. i + 1 \in 1..Len(s) /\ t[i] = s[i + 1] /\ i + 1 # 1 /\ (i = Len(t) => i + 1 = Len(s))
    BY <1>1, <1>2
  <2>2. i # 1 => i - 1 \in 1..Len(t) /\ t[i - 1] = s[(i - 1) + 1] /\ (i - 1) + 1 = (i + 1) - 1
    BY <1>1, <1>2
  <2>3. i = 1 => (i + 1) - 1 = 1
    OBVIOUS
  <2>4. /\ ~Using(s[i + 1]) => ~Holding(s[(i + 1) - 1])
        /\ i + 1 = Len(s) => ~Holding(s[i + 1])
    BY <1>5, <2>1
  <2>5. CASE i = 1
    BY <1>3, <2>1, <2>3, <2>4, <2>5
  <2>6. CASE i # 1
    BY <2>1, <2>2, <2>4, <2>6
  <2> QED BY <2>5, <2>6
<1>8. InTurn(t, k)
  BY <1>6, <1>7 DEF InTurn
<1>9. CsInv(t, k)
  <2>1. Len(t) <= 10
    BY <1>1, <1>2
  <2> QED BY <1>2, <1>8, <2>1 DEF CsInv
<1> QED BY <1>9 DEF t

\* The first call: one that does not use the handle comes when there is none.
LEMMA CsHead ==
  ASSUME NEW s, NEW h, CsInv(s, h), s # <<>>
  PROVE  Head(s) \in CsCalls /\ (~Using(Head(s)) => h.at = <<>>)
<1>1. s \in Seq(CsCalls) /\ Len(s) \in Nat /\ Len(s) # 0
  BY DEF CsInv
<1>2. Head(s) = s[1] /\ 1 \in 1..Len(s) /\ s[1] \in CsCalls
  BY <1>1
<1> QED BY <1>2 DEF CsInv, InTurn

\* Nothing left, the calls after a failure, and a handle that has moved with its file.
LEMMA CsOther ==
  ASSUME NEW k
  PROVE  /\ k.at = <<>> => CsInv(<<>>, k) /\ \A e \in Undoing : CsInv(e, k)
         /\ \A s, h : CsInv(s, h) /\ k.at \in CsPaths \cup {<<>>} /\ (h.at = <<>> => k.at = <<>>)
                      => CsInv(s, k)
<1>1. k.at = <<>> => CsInv(<<>>, k)
  BY DEF CsInv, InTurn
<1>2. ASSUME k.at = <<>>, NEW e \in Undoing PROVE CsInv(e, k)
  <2> DEFINE X == [op : {"remove"}, at : CsPaths]
  <2>7. \A o \in X : ~Holding(o) /\ o \in CsCalls
    BY DEF Holding, CsCalls
  <2>8. e \in Seq(X) /\ Len(e) <= 2
    BY DEF Undoing
  <2> HIDE DEF X
  <2>1. e \in Seq(X) /\ Len(e) <= 2 /\ Len(e) \in Nat
    BY <2>8
  <2>2. ASSUME NEW i \in 1..Len(e) PROVE ~Holding(e[i]) /\ e[i] \in CsCalls
    BY <2>1, <2>7
  <2>3. e \in Seq(CsCalls)
    BY <2>1, <2>2
  <2>4. \A i \in 1..Len(e) : i # 1 => i - 1 \in 1..Len(e)
    BY <2>1
  <2>5. InTurn(e, k)
    BY <1>2, <2>2, <2>4 DEF InTurn
  <2>6. Len(e) <= 10
    BY <2>1
  <2> QED BY <1>2, <2>3, <2>5, <2>6 DEF CsInv
<1>3. \A s, h : CsInv(s, h) /\ k.at \in CsPaths \cup {<<>>} /\ (h.at = <<>> => k.at = <<>>)
                => CsInv(s, k)
  BY DEF CsInv, InTurn
<1> QED BY <1>1, <1>2, <1>3

-----------------------------------------------------------------------------
\* The calls that d2cs makes are of their kinds.
LEMMA CsKinds ==
  ASSUME NEW p \in CsPaths
  PROVE  /\ \A e \in Undoing : Close(e) \in CsCalls /\ Using(Close(e)) /\ ~Holding(Close(e))
         /\ Create(p, 0) \in CsCalls /\ ~Using(Create(p, 0))
         /\ OpenOrStop(p) \in CsCalls /\ ~Using(OpenOrStop(p))
         /\ Overwrite \in CsCalls /\ Using(Overwrite)
         /\ Unlink(p) \in CsCalls /\ ~Using(Unlink(p)) /\ ~Holding(Unlink(p))
         /\ UnlinkOrStop(p) \in CsCalls /\ ~Using(UnlinkOrStop(p)) /\ ~Holding(UnlinkOrStop(p))
         /\ \A a \in Owners, c \in Names : /\ SetNonLadder(a, c) \in CsCalls
                                           /\ ~Using(SetNonLadder(a, c)) /\ ~Holding(SetNonLadder(a, c))
         /\ <<>> \in Undoing /\ <<Unlink(p)>> \in Undoing
         /\ \A q \in CsPaths : <<Unlink(p), Unlink(q)>> \in Undoing
<1>1. \A e \in Undoing : Close(e) \in CsCalls /\ Using(Close(e)) /\ ~Holding(Close(e))
  <2>1. ASSUME NEW e \in Undoing PROVE Close(e) \in [op : {"close"}, error : Undoing]
    BY DEF Close
  <2> QED BY <2>1 DEF Close, CsCalls, Writing, Using, Holding
<1>2. Create(p, 0) \in CsCalls /\ ~Using(Create(p, 0))
  BY DEF Create, CsCalls, Opening, Using
<1>3. OpenOrStop(p) \in CsCalls /\ ~Using(OpenOrStop(p))
  BY DEF OpenOrStop, CsCalls, Opening, Using
<1>4. Overwrite \in CsCalls /\ Using(Overwrite)
  BY DEF Overwrite, CsCalls, Writing, Using
<1>5. Unlink(p) \in CsCalls /\ ~Using(Unlink(p)) /\ ~Holding(Unlink(p))
  BY DEF Unlink, CsCalls, Using, Holding
<1>6. UnlinkOrStop(p) \in CsCalls /\ ~Using(UnlinkOrStop(p)) /\ ~Holding(UnlinkOrStop(p))
  BY DEF UnlinkOrStop, CsCalls, Using, Holding
<1>7. \A a \in Owners, c \in Names :
        SetNonLadder(a, c) \in CsCalls /\ ~Using(SetNonLadder(a, c)) /\ ~Holding(SetNonLadder(a, c))
  BY DEF SetNonLadder, CsCalls, Using, Holding
<1>8. \A q \in CsPaths : Unlink(q) \in [op : {"remove"}, at : CsPaths]
  BY DEF Unlink
<1>9. /\ <<>> \in Undoing /\ <<Unlink(p)>> \in Undoing
      /\ \A q \in CsPaths : <<Unlink(p), Unlink(q)>> \in Undoing
  <2> DEFINE X == [op : {"remove"}, at : CsPaths]
             u == Unlink(p)
  <2>1. u \in X
    BY <1>8
  <2>2. \A q \in CsPaths : Unlink(q) \in X
    BY <1>8
  <2>3. Undoing = {e \in Seq(X) : Len(e) <= 2}
    BY DEF Undoing
  <2> HIDE DEF X, u
  <2>4. <<>> \in Seq(X) /\ Len(<<>>) = 0 /\ <<u>> \in Seq(X) /\ Len(<<u>>) = 1
    BY <2>1
  <2>5. \A w \in X : <<u, w>> \in Seq(X) /\ Len(<<u, w>>) = 2
    BY <2>1
  <2>6. <<>> \in Undoing /\ <<u>> \in Undoing /\ \A q \in CsPaths : <<u, Unlink(q)>> \in Undoing
    BY <2>2, <2>3, <2>4, <2>5
  <2> QED BY <2>6 DEF u
<1> QED BY <1>1, <1>2, <1>3, <1>4, <1>5, <1>6, <1>7, <1>9

\* A sequence that is one followed by another.
IsJoin(z, s, t) ==
  /\ Len(z) = Len(s) + Len(t)
  /\ \A i \in 1..Len(s) : z[i] = s[i]
  /\ \A i \in Len(s) + 1..Len(s) + Len(t) : z[i] = t[i - Len(s)]

\* Calls followed by calls.
LEMMA Joined ==
  ASSUME NEW S, NEW s \in Seq(S), NEW t \in Seq(S)
  PROVE  s \o t \in Seq(S) /\ IsJoin(s \o t, s, t)
BY DEF IsJoin

\* Two calls and two more.
LEMMA TwoAndTwo ==
  ASSUME NEW S, NEW o1 \in S, NEW o2 \in S, NEW o3 \in S, NEW o4 \in S
  PROVE  LET s == <<o1, o2>> \o <<o3, o4>>
         IN  /\ s \in Seq(S) /\ Len(s) = 4
             /\ s[1] = o1 /\ s[2] = o2 /\ s[3] = o3 /\ s[4] = o4
<1> DEFINE x == <<o1, o2>>
           y == <<o3, o4>>
<1>1. /\ x \in Seq(S) /\ Len(x) = 2 /\ x[1] = o1 /\ x[2] = o2
      /\ y \in Seq(S) /\ Len(y) = 2 /\ y[1] = o3 /\ y[2] = o4
  OBVIOUS
<1> HIDE DEF x, y
<1> DEFINE z == x \o y
<1>a. z \in Seq(S) /\ IsJoin(z, x, y)
  BY <1>1, Joined
<1> HIDE DEF z
<1>2. /\ z \in Seq(S) /\ Len(z) = 4 /\ z[1] = x[1] /\ z[2] = x[2]
      /\ z[3] = y[3 - 2] /\ z[4] = y[4 - 2]
  BY <1>1, <1>a DEF IsJoin
<1>3. 3 - 2 = 1 /\ 4 - 2 = 2
  OBVIOUS
<1> QED BY <1>1, <1>2, <1>3 DEF x, y, z

\* Three calls and three more.
LEMMA ThreeAndThree ==
  ASSUME NEW S, NEW o1 \in S, NEW o2 \in S, NEW o3 \in S,
         NEW o4 \in S, NEW o5 \in S, NEW o6 \in S
  PROVE  LET s == <<o1, o2, o3>> \o <<o4, o5, o6>>
         IN  /\ s \in Seq(S) /\ Len(s) = 6 /\ s[1] = o1 /\ s[2] = o2 /\ s[3] = o3
             /\ s[4] = o4 /\ s[5] = o5 /\ s[6] = o6
<1> DEFINE x == <<o1, o2, o3>>
           y == <<o4, o5, o6>>
<1>1. /\ x \in Seq(S) /\ Len(x) = 3 /\ x[1] = o1 /\ x[2] = o2 /\ x[3] = o3
      /\ y \in Seq(S) /\ Len(y) = 3 /\ y[1] = o4 /\ y[2] = o5 /\ y[3] = o6
  OBVIOUS
<1> HIDE DEF x, y
<1> DEFINE z == x \o y
<1>a. z \in Seq(S) /\ IsJoin(z, x, y)
  BY <1>1, Joined
<1> HIDE DEF z
<1>2. /\ z \in Seq(S) /\ Len(z) = 6
      /\ z[1] = x[1] /\ z[2] = x[2] /\ z[3] = x[3]
      /\ z[4] = y[4 - 3] /\ z[5] = y[5 - 3] /\ z[6] = y[6 - 3]
  BY <1>1, <1>a DEF IsJoin
<1>3. 4 - 3 = 1 /\ 5 - 3 = 2 /\ 6 - 3 = 3
  OBVIOUS
<1> QED BY <1>1, <1>2, <1>3 DEF x, y, z

\* Two calls, one, and three.
LEMMA TwoOneThree ==
  ASSUME NEW S, NEW o1 \in S, NEW o2 \in S, NEW o3 \in S,
         NEW o4 \in S, NEW o5 \in S, NEW o6 \in S
  PROVE  LET s == <<o1, o2>> \o <<o3>> \o <<o4, o5, o6>>
         IN  /\ s \in Seq(S) /\ Len(s) = 6 /\ s[1] = o1 /\ s[2] = o2 /\ s[3] = o3
             /\ s[4] = o4 /\ s[5] = o5 /\ s[6] = o6
<1> DEFINE x == <<o1, o2>> \o <<o3>>
           y == <<o4, o5, o6>>
<1>1. y \in Seq(S) /\ Len(y) = 3 /\ y[1] = o4 /\ y[2] = o5 /\ y[3] = o6
  OBVIOUS
<1>2. x \in Seq(S) /\ Len(x) = 3 /\ x[1] = o1 /\ x[2] = o2 /\ x[3] = o3
  <2> DEFINE u == <<o1, o2>>
             w == <<o3>>
  <2>1. /\ u \in Seq(S) /\ Len(u) = 2 /\ u[1] = o1 /\ u[2] = o2
        /\ w \in Seq(S) /\ Len(w) = 1 /\ w[1] = o3
    OBVIOUS
  <2> HIDE DEF u, w
  <2> DEFINE z == u \o w
  <2>a. z \in Seq(S) /\ IsJoin(z, u, w)
    BY <2>1, Joined
  <2> HIDE DEF z
  <2>2. /\ z \in Seq(S) /\ Len(z) = 3
        /\ z[1] = u[1] /\ z[2] = u[2] /\ z[3] = w[3 - 2]
    BY <2>1, <2>a DEF IsJoin
  <2>3. 3 - 2 = 1
    OBVIOUS
  <2> QED BY <2>1, <2>2, <2>3 DEF u, w, z
<1> HIDE DEF x, y
<1> DEFINE z == x \o y
<1>a. z \in Seq(S) /\ IsJoin(z, x, y)
  BY <1>1, <1>2, Joined
<1> HIDE DEF z
<1>3. /\ z \in Seq(S) /\ Len(z) = 6
      /\ z[1] = x[1] /\ z[2] = x[2] /\ z[3] = x[3]
      /\ z[4] = y[4 - 3] /\ z[5] = y[5 - 3] /\ z[6] = y[6 - 3]
  BY <1>1, <1>2, <1>a DEF IsJoin
<1>4. 4 - 3 = 1 /\ 5 - 3 = 2 /\ 6 - 3 = 3
  OBVIOUS
<1> QED BY <1>1, <1>2, <1>3, <1>4 DEF x, y, z

\* Handlers of four calls.
LEMMA FourCalls ==
  ASSUME NEW h, h.at = <<>>, NEW s \in Seq(CsCalls), Len(s) = 4,
         Using(s[2]) \/ ~Holding(s[1]), Using(s[3]) \/ ~Holding(s[2]),
         Using(s[4]) \/ ~Holding(s[3]), ~Holding(s[4])
  PROVE  CsInv(s, h)
<1>1. 1..Len(s) = {1, 2, 3, 4} /\ s # <<>> /\ 2 - 1 = 1 /\ 3 - 1 = 2 /\ 4 - 1 = 3
  OBVIOUS
<1>2. InTurn(s, h)
  BY <1>1 DEF InTurn
<1> QED BY <1>2 DEF CsInv

\* Handlers of six calls.
LEMMA SixCalls ==
  ASSUME NEW h, h.at = <<>>, NEW s \in Seq(CsCalls), Len(s) = 6,
         Using(s[2]) \/ ~Holding(s[1]), Using(s[3]) \/ ~Holding(s[2]),
         Using(s[4]) \/ ~Holding(s[3]), Using(s[5]) \/ ~Holding(s[4]),
         Using(s[6]) \/ ~Holding(s[5]), ~Holding(s[6])
  PROVE  CsInv(s, h)
<1>0. 2 - 1 = 1 /\ 3 - 1 = 2 /\ 4 - 1 = 3 /\ 5 - 1 = 4 /\ 6 - 1 = 5
  OBVIOUS
<1>1. s # <<>>
  <2>1. Len(<<>>) = 0 /\ 0 # 6
    OBVIOUS
  <2> QED BY <2>1, Zenon
<1>2. 1..Len(s) = {1, 2, 3, 4, 5, 6}
  OBVIOUS
<1>3. InTurn(s, h)
  BY <1>0, <1>1, <1>2 DEF InTurn
<1> QED BY <1>3 DEF CsInv

\* The handlers of d2cs start with calls of these kinds, each in its turn.
LEMMA CsHandlers ==
  ASSUME NEW h, h.at = <<>>, NEW a \in Owners, NEW c \in Names
  PROVE  /\ CsInv(FileWrite(Info(a, c), 0, <<Unlink(Info(a, c))>>)
                  \o FileWrite(Save(c), 0, <<Unlink(Info(a, c)), Unlink(Save(c))>>), h)
         /\ CsInv(Rewrite(Info(a, c)) \o Rewrite(Save(c)), h)
         /\ CsInv(<<UnlinkOrStop(Info(a, c)), Unlink(Save(c)), Unlink(InfoBak(a, c)),
                    Unlink(SaveBak(c))>>, h)
         /\ CsInv(FileWrite(Info(a, c), 0, <<>>) \o <<SetNonLadder(a, c)>> \o Rewrite(Save(c)), h)
<1> DEFINE i == Info(a, c)
           s == Save(c)
           e == <<Unlink(i)>>
           f == <<Unlink(i), Unlink(s)>>
           n == SetNonLadder(a, c)
<1>1. i \in CsPaths /\ s \in CsPaths /\ InfoBak(a, c) \in CsPaths /\ SaveBak(c) \in CsPaths
  BY PathSets
<1>2. e \in Undoing /\ f \in Undoing /\ <<>> \in Undoing
  BY <1>1, CsKinds
<1>3. /\ n \in CsCalls /\ ~Holding(n)
      /\ Create(i, 0) \in CsCalls /\ Create(s, 0) \in CsCalls
      /\ OpenOrStop(i) \in CsCalls /\ OpenOrStop(s) \in CsCalls
      /\ Overwrite \in CsCalls /\ Using(Overwrite)
  BY <1>1, CsKinds
<1>4. \A g \in {<<>>, e, f} : Close(g) \in CsCalls /\ Using(Close(g)) /\ ~Holding(Close(g))
  BY <1>1, <1>2, CsKinds
<1>5. CsInv(FileWrite(i, 0, e) \o FileWrite(s, 0, f), h)
  <2> DEFINE o1 == Create(i, 0)
             o2 == Close(e)
             o3 == Create(s, 0)
             o4 == Close(f)
             l == <<o1, o2>> \o <<o3, o4>>
  <2>1. o1 \in CsCalls /\ o2 \in CsCalls /\ o3 \in CsCalls /\ o4 \in CsCalls
        /\ Using(o2) /\ ~Holding(o2) /\ Using(o4) /\ ~Holding(o4)
    BY <1>3, <1>4
  <2>2. FileWrite(i, 0, e) \o FileWrite(s, 0, f) = l
    BY DEF FileWrite
  <2> HIDE DEF o1, o2, o3, o4
  <2>3. l \in Seq(CsCalls) /\ Len(l) = 4 /\ l[1] = o1 /\ l[2] = o2 /\ l[3] = o3 /\ l[4] = o4
    BY <2>1, TwoAndTwo
  <2> HIDE DEF l
  <2>4. CsInv(l, h)
    BY <2>1, <2>3, FourCalls
  <2> QED BY <2>2, <2>4
<1>6. CsInv(Rewrite(i) \o Rewrite(s), h)
  <2> DEFINE o1 == OpenOrStop(i)
             o2 == Overwrite
             o3 == Close(<<>>)
             o4 == OpenOrStop(s)
             l == <<o1, o2, o3>> \o <<o4, o2, o3>>
  <2>1. o1 \in CsCalls /\ o2 \in CsCalls /\ o3 \in CsCalls /\ o4 \in CsCalls
        /\ Using(o2) /\ Using(o3) /\ ~Holding(o3)
    BY <1>3, <1>4
  <2>2. Rewrite(i) \o Rewrite(s) = l
    BY DEF Rewrite
  <2> HIDE DEF o1, o2, o3, o4
  <2>3. /\ l \in Seq(CsCalls) /\ Len(l) = 6 /\ l[1] = o1 /\ l[2] = o2 /\ l[3] = o3
        /\ l[4] = o4 /\ l[5] = o2 /\ l[6] = o3
    BY <2>1, ThreeAndThree
  <2> HIDE DEF l
  <2>4. CsInv(l, h)
    BY <2>1, <2>3, SixCalls
  <2> QED BY <2>2, <2>4
<1>7. CsInv(<<UnlinkOrStop(i), Unlink(s), Unlink(InfoBak(a, c)), Unlink(SaveBak(c))>>, h)
  <2> DEFINE o1 == UnlinkOrStop(i)
             o2 == Unlink(s)
             o3 == Unlink(InfoBak(a, c))
             o4 == Unlink(SaveBak(c))
             l == <<o1, o2, o3, o4>>
  <2>1. o1 \in CsCalls /\ o2 \in CsCalls /\ o3 \in CsCalls /\ o4 \in CsCalls
        /\ ~Holding(o1) /\ ~Holding(o2) /\ ~Holding(o3) /\ ~Holding(o4)
    BY <1>1, CsKinds
  <2> HIDE DEF o1, o2, o3, o4
  <2>2. l \in Seq(CsCalls) /\ Len(l) = 4 /\ l[1] = o1 /\ l[2] = o2 /\ l[3] = o3 /\ l[4] = o4
    BY <2>1
  <2> HIDE DEF l
  <2>3. CsInv(l, h)
    BY <2>1, <2>2, FourCalls
  <2> QED BY <2>3 DEF l, o1, o2, o3, o4
<1>8. CsInv(FileWrite(i, 0, <<>>) \o <<n>> \o Rewrite(s), h)
  <2> DEFINE o1 == Create(i, 0)
             o2 == Close(<<>>)
             o4 == OpenOrStop(s)
             o5 == Overwrite
             l == <<o1, o2>> \o <<n>> \o <<o4, o5, o2>>
  <2>1. o1 \in CsCalls /\ o2 \in CsCalls /\ n \in CsCalls /\ o4 \in CsCalls /\ o5 \in CsCalls
        /\ Using(o2) /\ ~Holding(o2) /\ ~Holding(n) /\ Using(o5)
    BY <1>3, <1>4
  <2>2. FileWrite(i, 0, <<>>) \o <<n>> \o Rewrite(s) = l
    BY DEF FileWrite, Rewrite
  <2> HIDE DEF o1, o2, n, o4, o5
  <2>3. /\ l \in Seq(CsCalls) /\ Len(l) = 6 /\ l[1] = o1 /\ l[2] = o2 /\ l[3] = n
        /\ l[4] = o4 /\ l[5] = o5 /\ l[6] = o2
    BY <2>1, TwoOneThree
  <2> HIDE DEF l
  <2>4. CsInv(l, h)
    BY <2>1, <2>3, SixCalls
  <2> QED BY <2>2, <2>4
<1> QED BY <1>5, <1>6, <1>7, <1>8

\* The handlers of d2dbs, call by call.
LEMMA SaveCallsAre ==
  ASSUME NEW a, NEW c, NEW v, NEW P \in SaveCalls(a, c, v)
  PROVE  /\ \E S : P \in Seq(S)
         /\ P[1] = Create(SaveTmp(c), v) /\ P[2] = Close(<<>>)
         /\ P[3] = Rename(Save(c), SaveBak(c)) /\ P[4] = RenameOrStop(SaveTmp(c), Save(c))
         /\ \/ Len(P) = 5 /\ P[5] = Reply(c, v)
            \/ /\ Len(P) = 10 /\ P[5] = ReadOrStop(Info(a, c))
               /\ P[6] = Create(InfoTmp(a, c), 0) /\ P[7] = Close(<<>>)
               /\ P[8] = Rename(Info(a, c), InfoBak(a, c))
               /\ P[9] = RenameOrStop(InfoTmp(a, c), Info(a, c)) /\ P[10] = Reply(c, v)
<1> DEFINE o1 == Create(SaveTmp(c), v)
           o2 == Close(<<>>)
           o3 == Rename(Save(c), SaveBak(c))
           o4 == RenameOrStop(SaveTmp(c), Save(c))
           o5 == ReadOrStop(Info(a, c))
           o6 == Create(InfoTmp(a, c), 0)
           o8 == Rename(Info(a, c), InfoBak(a, c))
           o9 == RenameOrStop(InfoTmp(a, c), Info(a, c))
           r == Reply(c, v)
           S == {o1, o2, o3, o4, o5, o6, o8, o9, r}
           s == charsave(c, v)
           i == <<o6, o2>> \o <<o8, o9>>
           f == Fix(a, c)
<1>1. s = <<o1, o2>> \o <<o3, o4>>
  BY DEF charsave, FileWrite
<1>2. f = <<o5>> \o i
  BY DEF Fix, charinfo, FileWrite
<1>3. P = s \o <<>> \o <<r>> \/ P = s \o f \o <<r>>
  BY DEF SaveCalls
<1>4. o1 \in S /\ o2 \in S /\ o3 \in S /\ o4 \in S /\ o5 \in S /\ o6 \in S /\ o8 \in S
      /\ o9 \in S /\ r \in S
  OBVIOUS
<1> HIDE DEF o1, o2, o3, o4, o5, o6, o8, o9, r, s, f, S
<1>5. s \in Seq(S) /\ Len(s) = 4 /\ s[1] = o1 /\ s[2] = o2 /\ s[3] = o3 /\ s[4] = o4
  BY <1>1, <1>4, TwoAndTwo
<1>6. i \in Seq(S) /\ Len(i) = 4 /\ i[1] = o6 /\ i[2] = o2 /\ i[3] = o8 /\ i[4] = o9
  BY <1>4, TwoAndTwo
<1> HIDE DEF i
<1>7. <<>> \in Seq(S) /\ Len(<<>>) = 0 /\ <<r>> \in Seq(S) /\ Len(<<r>>) = 1 /\ <<r>>[1] = r
      /\ <<o5>> \in Seq(S) /\ Len(<<o5>>) = 1 /\ <<o5>>[1] = o5
  BY <1>4
<1>8. /\ f \in Seq(S) /\ Len(f) = 5 /\ f[1] = o5 /\ f[2] = o6 /\ f[3] = o2 /\ f[4] = o8 /\ f[5] = o9
  <2> DEFINE u == <<o5>>
  <2>1. u \in Seq(S) /\ Len(u) = 1 /\ u[1] = o5
    BY <1>7
  <2> HIDE DEF u
  <2> DEFINE z == u \o i
  <2>a. z \in Seq(S) /\ IsJoin(z, u, i)
    BY <1>6, <2>1, Joined
  <2> HIDE DEF z
  <2>2. /\ z \in Seq(S) /\ Len(z) = 5 /\ z[1] = u[1] /\ z[2] = i[2 - 1]
        /\ z[3] = i[3 - 1] /\ z[4] = i[4 - 1] /\ z[5] = i[5 - 1]
    BY <1>6, <2>1, <2>a DEF IsJoin
  <2>3. 2 - 1 = 1 /\ 3 - 1 = 2 /\ 4 - 1 = 3 /\ 5 - 1 = 4
    OBVIOUS
  <2> QED BY <1>2, <1>6, <2>1, <2>2, <2>3 DEF u, z
<1> DEFINE w == <<r>>
<1>9. w \in Seq(S) /\ Len(w) = 1 /\ w[1] = r
  BY <1>7
<1>10. CASE P = s \o <<>> \o w
  <2> DEFINE u == s \o <<>>
  <2>1. u \in Seq(S) /\ Len(u) = 4 /\ u[1] = o1 /\ u[2] = o2 /\ u[3] = o3 /\ u[4] = o4
    BY <1>5
  <2> HIDE DEF u, w
  <2> DEFINE z == u \o w
  <2>a. z \in Seq(S) /\ IsJoin(z, u, w)
    BY <1>9, <2>1, Joined
  <2> HIDE DEF z
  <2>2. /\ z \in Seq(S) /\ Len(z) = 5 /\ z[1] = u[1] /\ z[2] = u[2]
        /\ z[3] = u[3] /\ z[4] = u[4] /\ z[5] = w[5 - 4]
    BY <1>9, <2>1, <2>a DEF IsJoin
  <2>3. 5 - 4 = 1 /\ P = z
    BY <1>10 DEF u, z
  <2>4. /\ \E T : P \in Seq(T)
        /\ Len(P) = 5 /\ P[1] = o1 /\ P[2] = o2 /\ P[3] = o3 /\ P[4] = o4 /\ P[5] = r
    BY <1>9, <2>1, <2>2, <2>3
  <2> QED BY <2>4 DEF o1, o2, o3, o4, r
<1>11. CASE P = s \o f \o w
  <2> DEFINE u == s \o f
  <2>b. u \in Seq(S) /\ IsJoin(u, s, f)
    BY <1>5, <1>8, Joined
  <2> HIDE DEF u, w
  <2>1. /\ u \in Seq(S) /\ Len(u) = 9 /\ u[1] = s[1] /\ u[2] = s[2] /\ u[3] = s[3] /\ u[4] = s[4]
        /\ u[5] = f[5 - 4] /\ u[6] = f[6 - 4] /\ u[7] = f[7 - 4] /\ u[8] = f[8 - 4] /\ u[9] = f[9 - 4]
    BY <1>5, <1>8, <2>b DEF IsJoin
  <2> DEFINE z == u \o w
  <2>a. z \in Seq(S) /\ IsJoin(z, u, w)
    BY <1>9, <2>1, Joined
  <2> HIDE DEF z
  <2>2. /\ z \in Seq(S) /\ Len(z) = 10 /\ \A n \in 1..9 : z[n] = u[n]
        /\ z[10] = w[10 - 9]
    BY <1>9, <2>1, <2>a DEF IsJoin
  <2>3. P = z
    BY <1>11 DEF u, z
  <2>4. 5 - 4 = 1 /\ 6 - 4 = 2 /\ 7 - 4 = 3 /\ 8 - 4 = 4 /\ 9 - 4 = 5 /\ 10 - 9 = 1
    OBVIOUS
  <2>c. P \in Seq(S) /\ Len(P) = 10 /\ P[10] = r /\ \A n \in 1..9 : P[n] = u[n]
    BY <1>9, <2>2, <2>3, <2>4
  <2>5. /\ \E T : P \in Seq(T)
        /\ Len(P) = 10 /\ P[1] = o1 /\ P[2] = o2 /\ P[3] = o3 /\ P[4] = o4
        /\ P[5] = o5 /\ P[6] = o6 /\ P[7] = o2 /\ P[8] = o8 /\ P[9] = o9 /\ P[10] = r
    BY <1>5, <1>8, <2>1, <2>4, <2>c
  <2> QED BY <2>5 DEF o1, o2, o3, o4, o5, o6, o8, o9, r
<1> QED BY <1>3, <1>10, <1>11

\* The same of the saving of an info file alone.
LEMMA InfoCallsAre ==
  ASSUME NEW a, NEW c
  PROVE  LET P == charinfo(a, c)
         IN  /\ \E S : P \in Seq(S)
             /\ Len(P) = 4 /\ P[1] = Create(InfoTmp(a, c), 0) /\ P[2] = Close(<<>>)
             /\ P[3] = Rename(Info(a, c), InfoBak(a, c))
             /\ P[4] = RenameOrStop(InfoTmp(a, c), Info(a, c))
<1> DEFINE o1 == Create(InfoTmp(a, c), 0)
           o2 == Close(<<>>)
           o3 == Rename(Info(a, c), InfoBak(a, c))
           o4 == RenameOrStop(InfoTmp(a, c), Info(a, c))
           S == {o1, o2, o3, o4}
           l == <<o1, o2>> \o <<o3, o4>>
<1>1. charinfo(a, c) = l
  BY DEF charinfo, FileWrite
<1>2. o1 \in S /\ o2 \in S /\ o3 \in S /\ o4 \in S
  OBVIOUS
<1> HIDE DEF o1, o2, o3, o4, S
<1>3. l \in Seq(S) /\ Len(l) = 4 /\ l[1] = o1 /\ l[2] = o2 /\ l[3] = o3 /\ l[4] = o4
  BY <1>2, TwoAndTwo, SMTT(40)
<1> QED BY <1>1, <1>3 DEF o1, o2, o3, o4

\* What is left: all of a handler that starts, and a call less after each.
LEMMA RestTail ==
  ASSUME NEW S, NEW P \in Seq(S), NEW k \in 0..Len(P) - 1
  PROVE  /\ Rest(P, k) # <<>> /\ Head(Rest(P, k)) = P[k + 1] /\ Len(Rest(P, k)) = Len(P) - k
         /\ Tail(Rest(P, k)) = Rest(P, k + 1) /\ (k + 1 = Len(P) => Tail(Rest(P, k)) = <<>>)
         /\ Rest(P, 0) = P
<1> DEFINE s == Rest(P, k)
           n == Len(P) - k
           t == Rest(P, k + 1)
<1>1. Len(P) \in Nat /\ n \in Nat /\ n >= 1 /\ Len(P) - (k + 1) = n - 1 /\ n - 1 \in Nat
      /\ (k + 1 = Len(P) => n = 1)
  OBVIOUS
<1>2. s \in Seq(S) /\ Len(s) = n /\ \A i \in 1..n : s[i] = P[k + i]
  BY DEF Rest
<1>3. t \in Seq(S) /\ Len(t) = n - 1 /\ \A i \in 1..n - 1 : t[i] = P[(k + 1) + i]
  BY DEF Rest
<1> HIDE DEF s, n, t
<1>4. s # <<>> /\ Head(s) = P[k + 1]
  <2>1. 1 \in 1..n
    BY <1>1
  <2>2. s # <<>> /\ Head(s) = s[1]
    BY <1>1, <1>2
  <2> QED BY <1>2, <2>1, <2>2
<1>5. /\ Tail(s) \in Seq(S) /\ Len(Tail(s)) = n - 1
      /\ \A i \in 1..n - 1 : Tail(s)[i] = s[i + 1]
  BY <1>1, <1>2, <1>4
<1>6. Tail(s) = t
  <2>1. \A i \in 1..n - 1 : Tail(s)[i] = t[i]
    <3>1. \A i \in 1..n - 1 : i + 1 \in 1..n /\ k + (i + 1) = (k + 1) + i
      BY <1>1
    <3> QED BY <1>2, <1>3, <1>5, <3>1, SMTT(40)
  <2> QED BY <1>3, <1>5, <2>1, SeqEqual
<1>7. n = 1 => t = <<>>
  BY <1>3
<1>8. Rest(P, 0) = P
  <2>1. Rest(P, 0) \in Seq(S) /\ Len(Rest(P, 0)) = Len(P) /\ \A i \in 1..Len(P) : Rest(P, 0)[i] = P[i]
    BY <1>1 DEF Rest
  <2> QED BY <2>1, SeqEqual
<1> QED BY <1>1, <1>2, <1>4, <1>6, <1>7, <1>8 DEF s, n, t

-----------------------------------------------------------------------------
\* Steps that leave the saves as they are, but for those that they put at risk.
SavesAlike ==
  /\ version' = version /\ saved' = saved /\ exposed \subseteq exposed'
  /\ \A c \in Names \ exposed' :
       /\ Settled(Save(c))' = Settled(Save(c)) /\ Settled(SaveBak(c))' = Settled(SaveBak(c))
       /\ files[Save(c)] = Absent /\ handle["d2cs"].at # Save(c)
          => files'[Save(c)] = Absent /\ handle'["d2cs"].at # Save(c)

\* What such a step keeps.
LEMMA AlikeKeeps ==
  ASSUME FilesInv, SavesAlike
  PROVE  /\ \A c \in Names : saved'[c] <= version'[c] /\ (c \in exposed' \/ VersionKept(c)')
         /\ \A c \in Names : c \in exposed \/ Settled(Save(c)) >= version[c]
                             => c \in exposed' \/ Settled(Save(c))' >= version'[c]
<1>1. \A c \in Names : saved[c] <= version[c] /\ (c \in exposed \/ VersionKept(c))
  BY DEF FilesInv
<1>2. ASSUME NEW c \in Names
      PROVE  /\ saved'[c] <= version'[c]
             /\ c \in exposed \/ Settled(Save(c)) >= version[c]
                => c \in exposed' \/ Settled(Save(c))' >= version'[c]
  BY <1>1 DEF SavesAlike
<1>3. ASSUME NEW c \in Names, c \notin exposed' PROVE VersionKept(c)'
  <2>1. VersionKept(c) /\ c \in Names \ exposed'
    BY <1>1, <1>3 DEF SavesAlike
  <2>2. /\ saved' = saved
        /\ Settled(Save(c))' = Settled(Save(c)) /\ Settled(SaveBak(c))' = Settled(SaveBak(c))
        /\ files[Save(c)] = Absent /\ handle["d2cs"].at # Save(c)
           => files'[Save(c)] = Absent /\ handle'["d2cs"].at # Save(c)
    BY <2>1 DEF SavesAlike
  <2>3. CASE Settled(Save(c)) >= saved[c]
    BY <2>2, <2>3 DEF VersionKept
  <2>4. CASE files[Save(c)] = Absent /\ handle["d2cs"].at # Save(c) /\ Settled(SaveBak(c)) >= saved[c]
    <3>1. /\ files'[Save(c)] = Absent /\ handle'["d2cs"].at # Save(c)
          /\ Settled(SaveBak(c))' >= saved'[c]
      BY <2>2, <2>4
    <3> QED BY <3>1 DEF VersionKept
  <2> QED BY <2>1, <2>3, <2>4 DEF VersionKept
<1> QED BY <1>2, <1>3

\* What d2dbs is in the middle of goes on, whatever d2cs does.
LEMMA CsKeeps ==
  ASSUME FilesInv, FilesTypes', CsInv(todo'["d2cs"], handle'["d2cs"]), SavesAlike,
         todo'["d2dbs"] = todo["d2dbs"], handle'["d2dbs"] = handle["d2dbs"],
         \A c \in Names : files'[SaveTmp(c)] = files[SaveTmp(c)]
  PROVE  FilesInv'
<1>1. DbInv
  BY DEF FilesInv
<1>2. /\ \A c \in Names : saved'[c] <= version'[c] /\ (c \in exposed' \/ VersionKept(c)')
      /\ \A c \in Names : c \in exposed \/ Settled(Save(c)) >= version[c]
                          => c \in exposed' \/ Settled(Save(c))' >= version'[c]
  BY AlikeKeeps
<1>3. version' = version
  BY DEF SavesAlike
<1>4. ASSUME SavingInv PROVE DbInv'
  <2>a. PICK a \in Owners, c \in Names :
          \E P \in SaveCalls(a, c, version[c]) : \E k \in 0..Len(P) - 1 : SavingAt(a, c, P, k)
    BY <1>4 DEF SavingInv
  <2>b. PICK P \in SaveCalls(a, c, version[c]) : \E k \in 0..Len(P) - 1 : SavingAt(a, c, P, k)
    BY <2>a
  <2>1. PICK k \in 0..Len(P) - 1 : SavingAt(a, c, P, k)
    BY <2>b
  <2>2. P \in SaveCalls(a, c, version'[c])
    BY <1>3, <2>1
  <2>3. SavingAt(a, c, P, k)'
    BY <1>2, <1>3, <2>1 DEF SavingAt, Between
  <2>4. SavingInv'
    BY <2>2, <2>3 DEF SavingInv
  <2> QED BY <2>4 DEF DbInv
<1>5. ASSUME InfoInv PROVE DbInv'
  <2>1. PICK a \in Owners, c \in Names, k \in 0..3 : InfoAt(a, c, k)
    BY <1>5 DEF InfoInv
  <2>2. InfoAt(a, c, k)'
    BY <2>1 DEF InfoAt
  <2>3. InfoInv'
    BY <2>2 DEF InfoInv
  <2> QED BY <2>3 DEF DbInv
<1>6. ASSUME todo["d2dbs"] = <<>>, handle["d2dbs"].at = <<>> PROVE DbInv'
  BY <1>6 DEF DbInv
<1>7. DbInv'
  BY <1>1, <1>4, <1>5, <1>6 DEF DbInv
<1> QED BY <1>2, <1>7 DEF FilesInv

\* A file that is written, removed or made, by its path or by a handle.
LEMMA FilledFile ==
  ASSUME FilesTypes, NEW p \in Paths \cup {<<>>}, NEW v \in Contents
  PROVE  /\ Filled(p, v) \in [Paths -> Contents]
         /\ \A q \in Paths : Filled(p, v)[q] = IF q = p THEN v ELSE files[q]
BY PathSets DEF Filled, FilesTypes

\* Where the handles are after a file has got another name.
LEMMA MovedHandle ==
  ASSUME FilesTypes, NEW p \in Paths, NEW q \in Paths \cup {<<>>}
  PROVE  LET m == Moved(handle, p, q)
         IN  /\ m \in [{"d2cs", "d2dbs"} -> [at : Paths \cup {<<>>}, v : Contents]]
             /\ \A x \in {"d2cs", "d2dbs"} :
                  /\ handle[x].at = p => m[x] = [at |-> q, v |-> handle[x].v]
                  /\ handle[x].at # p /\ handle[x].at = q => m[x] = [at |-> <<>>, v |-> handle[x].v]
                  /\ handle[x].at \notin {p, q} => m[x] = handle[x]
<1> DEFINE m == Moved(handle, p, q)
<1>1. handle \in [{"d2cs", "d2dbs"} -> [at : Paths \cup {<<>>}, v : Contents]]
  BY DEF FilesTypes
<1>2. ASSUME NEW x \in {"d2cs", "d2dbs"}
      PROVE  /\ m[x] \in [at : Paths \cup {<<>>}, v : Contents]
             /\ handle[x].at = p => m[x] = [at |-> q, v |-> handle[x].v]
             /\ handle[x].at # p /\ handle[x].at = q => m[x] = [at |-> <<>>, v |-> handle[x].v]
             /\ handle[x].at \notin {p, q} => m[x] = handle[x]
  <2> DEFINE h == handle[x]
  <2>1. h \in [at : Paths \cup {<<>>}, v : Contents]
    BY <1>1
  <2>2. m[x] = CASE h.at = p -> [h EXCEPT !.at = q]
                 [] h.at = q /\ p # q -> [h EXCEPT !.at = <<>>]
                 [] OTHER -> h
    BY <1>1 DEF Moved
  <2> HIDE DEF h, m
  <2>3. CASE h.at = p
    <3>1. m[x] = [h EXCEPT !.at = q]
      BY <2>2, <2>3
    <3>2. m[x] = [at |-> q, v |-> h.v]
      BY <2>1, <3>1
    <3> QED BY <2>1, <2>3, <3>2 DEF h
  <2>4. CASE h.at # p /\ h.at = q
    <3>1. m[x] = [h EXCEPT !.at = <<>>]
      BY <2>2, <2>4
    <3>2. m[x] = [at |-> <<>>, v |-> h.v]
      BY <2>1, <3>1
    <3> QED BY <2>1, <2>4, <3>2 DEF h
  <2>5. CASE h.at # p /\ h.at # q
    <3>1. m[x] = h
      BY <2>2, <2>5
    <3> QED BY <2>1, <2>5, <3>1 DEF h
  <2> QED BY <2>3, <2>4, <2>5
<1>3. DOMAIN m = {"d2cs", "d2dbs"} /\ m = [x \in DOMAIN m |-> m[x]]
  BY <1>1 DEF Moved
<1> HIDE DEF m
<1>4. m \in [{"d2cs", "d2dbs"} -> [at : Paths \cup {<<>>}, v : Contents]]
  BY <1>2, <1>3
<1> QED BY <1>2, <1>4 DEF m

\* d2dbs has no file open that d2cs uses.
LEMMA DbHandle ==
  ASSUME FilesInv
  PROVE  handle["d2dbs"].at \notin CsPaths
<1>1. DbInv /\ <<>> \notin CsPaths
  BY PathSets DEF FilesInv
<1>2. CASE SavingInv
  <2>1. \E a \in Owners, c \in Names : handle["d2dbs"].at \in {SaveTmp(c), InfoTmp(a, c), <<>>}
    BY <1>2 DEF SavingInv, SavingAt
  <2> QED BY <1>1, <2>1, PathSets
<1>3. CASE InfoInv
  <2>1. \E a \in Owners, c \in Names : handle["d2dbs"].at \in {InfoTmp(a, c), <<>>}
    BY <1>3 DEF InfoInv, InfoAt
  <2> QED BY <1>1, <2>1, PathSets
<1> QED BY <1>1, <1>2, <1>3 DEF DbInv

-----------------------------------------------------------------------------
\* What is put at risk, and what is not.
LEMMA RiskedNames ==
  ASSUME FilesTypes, NEW p \in CsPaths \cup {<<>>}
  PROVE  /\ exposed \subseteq Risked(p) /\ Risked(p) \subseteq Names
         /\ \A c \in Names \ Risked(p) : p # Save(c) /\ p # SaveBak(c)
<1>1. exposed \subseteq Names
  BY DEF FilesTypes
<1>2. IsSave(p) => NameOf(p) \in Names
  BY PathSets
<1>3. ASSUME NEW c \in Names \ Risked(p) PROVE p # Save(c) /\ p # SaveBak(c)
  <2>1. p \in {Save(c), SaveBak(c)} => IsSave(p) /\ NameOf(p) = c
    BY PathSets
  <2> QED BY <1>3, <2>1 DEF Risked
<1> QED BY <1>1, <1>2, <1>3 DEF Risked

\* A write of d2cs leaves the new files of d2dbs alone.
LEMMA CsFilled ==
  ASSUME FilesTypes, NEW p \in CsPaths \cup {<<>>}, NEW v \in Contents, files' = Filled(p, v)
  PROVE  /\ files' \in [Paths -> Contents]
         /\ \A q \in Paths : files'[q] = IF q = p THEN v ELSE files[q]
         /\ \A c \in Names : files'[SaveTmp(c)] = files[SaveTmp(c)]
<1>1. p \in Paths \cup {<<>>}
  BY PathSets
<1>2. /\ files' \in [Paths -> Contents]
      /\ \A q \in Paths : files'[q] = IF q = p THEN v ELSE files[q]
  BY <1>1, FilledFile
<1>3. \A c \in Names : SaveTmp(c) \in Paths /\ SaveTmp(c) # p
  BY PathSets
<1> QED BY <1>2, <1>3

\* The paths of saves, for short.
LEMMA SavePaths ==
  \A c \in Names : Save(c) \in Paths /\ SaveBak(c) \in Paths /\ Save(c) # SaveBak(c)
                   /\ Save(c) # <<>> /\ SaveBak(c) # <<>>
BY PathsApart, PathSets

\* A call of d2cs that opens a file keeps the invariant.
LEMMA CsOpens ==
  ASSUME FilesInv, todo["d2cs"] # <<>>, OpenFile("d2cs", Head(todo["d2cs"])),
         UNCHANGED <<playing, version, mishaps>>
  PROVE  FilesInv'
<1> DEFINE h == handle["d2cs"]
           o == Head(todo["d2cs"])
           s == todo["d2cs"]
<1>1. FilesTypes /\ CsInv(s, h)
  BY DEF FilesInv
<1>2. o \in CsCalls /\ (~Using(o) => h.at = <<>>)
  BY <1>1, CsHead
<1>3. handle \in [{"d2cs", "d2dbs"} -> [at : Paths \cup {<<>>}, v : Contents]]
      /\ DOMAIN todo = {"d2cs", "d2dbs"}
  BY <1>1 DEF FilesTypes
<1>4. OpenFile("d2cs", o)
  OBVIOUS
<1>5. todo["d2cs"] # <<>>
  OBVIOUS
<1> HIDE DEF o
<1>6. CASE o.op = "create"
  <2>1. o.at \in CsPaths /\ o.v = 0 /\ ~Using(o)
    BY <1>2, <1>6 DEF CsCalls, Opening, Writing, Using
  <2>2. h.at = <<>>
    BY <1>2, <2>1
  <2>3. /\ files' = Filled(o.at, Torn) /\ exposed' = Risked(o.at)
        /\ handle' = [handle EXCEPT !["d2cs"] = [at |-> o.at, v |-> o.v]]
        /\ todo' = [todo EXCEPT !["d2cs"] = Tail(@)] /\ ladder' = ladder /\ saved' = saved
    BY <1>4, <1>6 DEF OpenFile
  <2>4. Torn \in Contents /\ 0 \in Contents
    BY CharFilesAssumption DEF Contents
  <2>5. /\ files' \in [Paths -> Contents]
        /\ \A q \in Paths : files'[q] = IF q = o.at THEN Torn ELSE files[q]
        /\ \A c \in Names : files'[SaveTmp(c)] = files[SaveTmp(c)]
    BY <1>1, <2>1, <2>3, <2>4, CsFilled
  <2>6. /\ exposed \subseteq exposed' /\ exposed' \subseteq Names
        /\ \A c \in Names \ exposed' : o.at # Save(c) /\ o.at # SaveBak(c)
    BY <1>1, <2>1, <2>3, RiskedNames
  <2> DEFINE g == [at |-> o.at, v |-> o.v]
  <2>7. /\ handle' \in [{"d2cs", "d2dbs"} -> [at : Paths \cup {<<>>}, v : Contents]]
        /\ handle'["d2cs"] = g /\ handle'["d2dbs"] = handle["d2dbs"] /\ g.at = o.at
    BY <1>3, <2>1, <2>3, <2>4, PathSets
  <2>8. /\ DOMAIN todo' = {"d2cs", "d2dbs"} /\ todo'["d2cs"] = Tail(s)
        /\ todo'["d2dbs"] = todo["d2dbs"]
    BY <1>3, <2>3
  <2> HIDE DEF g
  <2>9. CsInv(Tail(s), g)
    <3>1. Holding(Head(s)) /\ g.at \in CsPaths \cup {<<>>}
      BY <1>6, <2>1, <2>7 DEF Holding, o
    <3> HIDE DEF s, h
    <3> QED BY <1>1, <1>5, <3>1, CsTail DEF s
  <2>10. SavesAlike
    <3>1. ASSUME NEW c \in Names \ exposed'
          PROVE  /\ Settled(Save(c))' = Settled(Save(c)) /\ Settled(SaveBak(c))' = Settled(SaveBak(c))
                 /\ files[Save(c)] = Absent /\ handle["d2cs"].at # Save(c)
                    => files'[Save(c)] = Absent /\ handle'["d2cs"].at # Save(c)
      BY <2>2, <2>5, <2>6, <2>7, SavePaths DEF Settled
    <3> QED BY <2>3, <2>6, <3>1 DEF SavesAlike
  <2>11. FilesTypes'
    BY <1>1, <2>3, <2>5, <2>6, <2>7, <2>8 DEF FilesTypes
  <2> QED BY <2>5, <2>7, <2>8, <2>9, <2>10, <2>11, CsKeeps
<1>7. CASE o.op = "openorstop"
  <2>1. o.at \in CsPaths /\ ~Using(o)
    BY <1>2, <1>7 DEF CsCalls, Opening, Writing, Using
  <2>2. h.at = <<>>
    BY <1>2, <2>1
  <2>3. /\ files' = files /\ exposed' = exposed /\ ladder' = ladder /\ saved' = saved
        /\ handle' = IF files[o.at] = Absent THEN handle
                     ELSE [handle EXCEPT !["d2cs"] = [at |-> o.at, v |-> files[o.at]]]
        /\ todo' = [todo EXCEPT !["d2cs"] = IF files[o.at] = Absent THEN <<>> ELSE Tail(@)]
    BY <1>4, <1>7 DEF OpenFile
  <2>4. CASE files[o.at] = Absent
    <3>1. /\ DOMAIN todo' = {"d2cs", "d2dbs"} /\ todo'["d2cs"] = <<>>
          /\ todo'["d2dbs"] = todo["d2dbs"] /\ handle' = handle
      BY <1>3, <2>3, <2>4
    <3>2. CsInv(<<>>, h)
      <4> HIDE DEF h
      <4> QED BY <2>2, CsOther
    <3>3. SavesAlike
      BY <2>3, <3>1 DEF SavesAlike, Settled
    <3>4. FilesTypes'
      BY <1>1, <2>3, <3>1 DEF FilesTypes
    <3> QED BY <2>3, <3>1, <3>2, <3>3, <3>4, CsKeeps
  <2>5. CASE files[o.at] # Absent
    <3> DEFINE g == [at |-> o.at, v |-> files[o.at]]
    <3>1. files[o.at] \in Contents /\ o.at \in Paths
      BY <1>1, <2>1, PathSets DEF FilesTypes
    <3>2. /\ handle' \in [{"d2cs", "d2dbs"} -> [at : Paths \cup {<<>>}, v : Contents]]
          /\ handle'["d2cs"] = g /\ handle'["d2dbs"] = handle["d2dbs"]
          /\ g.at = o.at /\ g.v = files[o.at]
      BY <1>3, <2>3, <2>5, <3>1
    <3>3. /\ DOMAIN todo' = {"d2cs", "d2dbs"} /\ todo'["d2cs"] = Tail(s)
          /\ todo'["d2dbs"] = todo["d2dbs"]
      BY <1>3, <2>3, <2>5
    <3> HIDE DEF g
    <3>4. CsInv(Tail(s), g)
      <4>1. Holding(Head(s)) /\ g.at \in CsPaths \cup {<<>>}
        BY <1>7, <2>1, <3>2 DEF Holding, o
      <4> HIDE DEF s, h
      <4> QED BY <1>1, <1>5, <4>1, CsTail DEF s
    <3>5. SavesAlike
      <4>1. ASSUME NEW c \in Names \ exposed'
            PROVE  /\ Settled(Save(c))' = Settled(Save(c)) /\ Settled(SaveBak(c))' = Settled(SaveBak(c))
                   /\ files[Save(c)] = Absent /\ handle["d2cs"].at # Save(c)
                      => files'[Save(c)] = Absent /\ handle'["d2cs"].at # Save(c)
        BY <2>2, <2>3, <2>5, <3>2, SavePaths DEF Settled
      <4> QED BY <2>3, <4>1 DEF SavesAlike
    <3>6. FilesTypes'
      BY <1>1, <2>3, <3>2, <3>3 DEF FilesTypes
    <3> QED BY <2>3, <3>2, <3>3, <3>4, <3>5, <3>6, CsKeeps
  <2> QED BY <2>4, <2>5
<1> QED BY <1>4, <1>6, <1>7 DEF OpenFile

\* A call of d2cs that writes into a file keeps the invariant.
LEMMA CsWrites ==
  ASSUME FilesInv, todo["d2cs"] # <<>>, WriteFile("d2cs", Head(todo["d2cs"])),
         UNCHANGED <<playing, version, mishaps>>
  PROVE  FilesInv'
<1> DEFINE h == handle["d2cs"]
           o == Head(todo["d2cs"])
           s == todo["d2cs"]
<1>1. FilesTypes /\ CsInv(s, h)
  BY DEF FilesInv
<1>2. o \in CsCalls /\ h.at \in CsPaths \cup {<<>>}
  <2>1. h.at \in CsPaths \cup {<<>>}
    BY <1>1 DEF CsInv
  <2> QED BY <1>1, <2>1, CsHead
<1>3. /\ handle \in [{"d2cs", "d2dbs"} -> [at : Paths \cup {<<>>}, v : Contents]]
      /\ DOMAIN todo = {"d2cs", "d2dbs"} /\ h.v \in Contents
  BY <1>1 DEF FilesTypes
<1>4. WriteFile("d2cs", o)
  OBVIOUS
<1>5. todo["d2cs"] # <<>>
  OBVIOUS
<1> HIDE DEF o
<1>6. /\ DOMAIN todo' = {"d2cs", "d2dbs"} /\ todo'["d2cs"] = Tail(s)
      /\ todo'["d2dbs"] = todo["d2dbs"] /\ ladder' = ladder /\ saved' = saved /\ exposed' = exposed
  BY <1>3, <1>4 DEF WriteFile
<1>7. CASE o.op = "overwrite"
  <2>1. files' = Filled(h.at, Torn) /\ handle' = handle
    BY <1>4, <1>7 DEF WriteFile
  <2>2. Torn \in Contents
    BY DEF Contents
  <2>3. /\ files' \in [Paths -> Contents]
        /\ \A q \in Paths : files'[q] = IF q = h.at THEN Torn ELSE files[q]
        /\ \A c \in Names : files'[SaveTmp(c)] = files[SaveTmp(c)]
    <3> HIDE DEF h
    <3> QED BY <1>1, <1>2, <2>1, <2>2, CsFilled, ZenonT(60)
  <2>4. CsInv(Tail(s), h)
    <3>1. Holding(Head(s))
      BY <1>7 DEF Holding, o
    <3> HIDE DEF s, h
    <3> QED BY <1>1, <1>2, <1>5, <3>1, CsTail DEF s
  <2>5. SavesAlike
    <3>1. ASSUME NEW c \in Names \ exposed'
          PROVE  /\ Settled(Save(c))' = Settled(Save(c)) /\ Settled(SaveBak(c))' = Settled(SaveBak(c))
                 /\ files[Save(c)] = Absent /\ handle["d2cs"].at # Save(c)
                    => files'[Save(c)] = Absent /\ handle'["d2cs"].at # Save(c)
      BY <2>1, <2>3, SavePaths DEF Settled
    <3> QED BY <1>6, <3>1 DEF SavesAlike
  <2>6. FilesTypes'
    BY <1>1, <1>6, <2>1, <2>3 DEF FilesTypes
  <2> QED BY <1>6, <2>1, <2>3, <2>4, <2>5, <2>6, CsKeeps
<1>8. CASE o.op = "close"
  <2>1. files' = Filled(h.at, h.v) /\ handle' = [handle EXCEPT !["d2cs"] = NoHandle]
    BY <1>4, <1>8 DEF WriteFile
  <2>2. /\ files' \in [Paths -> Contents]
        /\ \A q \in Paths : files'[q] = IF q = h.at THEN h.v ELSE files[q]
        /\ \A c \in Names : files'[SaveTmp(c)] = files[SaveTmp(c)]
    <3>1. h.v \in Contents
      BY <1>3
    <3> HIDE DEF h
    <3> QED BY <1>1, <1>2, <2>1, <3>1, CsFilled
  <2>3. NoHandle \in [at : Paths \cup {<<>>}, v : Contents] /\ NoHandle.at = <<>>
    BY DEF NoHandle, Contents
  <2>4. /\ handle' \in [{"d2cs", "d2dbs"} -> [at : Paths \cup {<<>>}, v : Contents]]
        /\ handle'["d2cs"] = NoHandle /\ handle'["d2dbs"] = handle["d2dbs"]
    BY <1>3, <2>1, <2>3
  <2>5. CsInv(Tail(s), NoHandle)
    <3> HIDE DEF s, h
    <3> QED BY <1>1, <1>5, <2>3, CsTail DEF s
  <2>6. SavesAlike
    <3>1. ASSUME NEW c \in Names \ exposed'
          PROVE  /\ Settled(Save(c))' = Settled(Save(c)) /\ Settled(SaveBak(c))' = Settled(SaveBak(c))
                 /\ files[Save(c)] = Absent /\ handle["d2cs"].at # Save(c)
                    => files'[Save(c)] = Absent /\ handle'["d2cs"].at # Save(c)
      BY <2>2, <2>3, <2>4, SavePaths DEF Settled
    <3> QED BY <1>6, <3>1 DEF SavesAlike
  <2>7. FilesTypes'
    BY <1>1, <1>6, <2>2, <2>4 DEF FilesTypes
  <2> QED BY <1>6, <2>2, <2>4, <2>5, <2>6, <2>7, CsKeeps
<1> QED BY <1>4, <1>7, <1>8 DEF WriteFile

\* A call of d2cs that removes a file keeps the invariant.
LEMMA CsRemoves ==
  ASSUME FilesInv, todo["d2cs"] # <<>>, RemoveFile("d2cs", Head(todo["d2cs"])),
         UNCHANGED <<playing, version, mishaps>>
  PROVE  FilesInv'
<1> DEFINE h == handle["d2cs"]
           o == Head(todo["d2cs"])
           s == todo["d2cs"]
<1>1. FilesTypes /\ CsInv(s, h) /\ handle["d2dbs"].at \notin CsPaths
  BY DbHandle DEF FilesInv
<1>2. o \in CsCalls /\ (~Using(o) => h.at = <<>>)
  BY <1>1, CsHead
<1>3. /\ handle \in [{"d2cs", "d2dbs"} -> [at : Paths \cup {<<>>}, v : Contents]]
      /\ DOMAIN todo = {"d2cs", "d2dbs"}
  BY <1>1 DEF FilesTypes
<1>4. RemoveFile("d2cs", o)
  OBVIOUS
<1>5. todo["d2cs"] # <<>>
  OBVIOUS
<1> HIDE DEF o
<1>6. o.op \in {"remove", "removeorstop"}
  BY <1>4 DEF RemoveFile
<1>7. o.at \in CsPaths /\ ~Using(o) /\ ~Holding(o) /\ o.at \in Paths
  BY <1>2, <1>6, PathSets DEF CsCalls, Opening, Writing, Using, Holding
<1>8. h.at = <<>>
  BY <1>2, <1>7
<1>9. /\ files' = Filled(o.at, Absent) /\ exposed' = Risked(o.at) /\ handle' = Moved(handle, o.at, <<>>)
      /\ ladder' = ladder /\ saved' = saved
      /\ DOMAIN todo' = {"d2cs", "d2dbs"} /\ todo'["d2dbs"] = todo["d2dbs"]
      /\ todo'["d2cs"] \in {<<>>, Tail(s)}
  BY <1>3, <1>4 DEF RemoveFile
<1>10. Absent \in Contents
  BY DEF Contents
<1>11. /\ files' \in [Paths -> Contents]
       /\ \A q \in Paths : files'[q] = IF q = o.at THEN Absent ELSE files[q]
       /\ \A c \in Names : files'[SaveTmp(c)] = files[SaveTmp(c)]
  BY <1>1, <1>7, <1>9, <1>10, CsFilled
<1>12. /\ exposed \subseteq exposed' /\ exposed' \subseteq Names
       /\ \A c \in Names \ exposed' : o.at # Save(c) /\ o.at # SaveBak(c)
  BY <1>1, <1>7, <1>9, RiskedNames
<1>13. /\ handle' \in [{"d2cs", "d2dbs"} -> [at : Paths \cup {<<>>}, v : Contents]]
       /\ handle'["d2cs"].at = <<>> /\ handle'["d2dbs"] = handle["d2dbs"]
  <2> DEFINE m == Moved(handle, o.at, <<>>)
             d == handle["d2dbs"]
  <2>1. <<>> \in Paths \cup {<<>>}
    OBVIOUS
  <2>2. /\ m \in [{"d2cs", "d2dbs"} -> [at : Paths \cup {<<>>}, v : Contents]]
        /\ \A x \in {"d2cs", "d2dbs"} :
             /\ handle[x].at # o.at /\ handle[x].at = <<>> => m[x] = [at |-> <<>>, v |-> handle[x].v]
             /\ handle[x].at \notin {o.at, <<>>} => m[x] = handle[x]
    BY <1>1, <1>7, <2>1, MovedHandle
  <2> HIDE DEF m
  <2>3. o.at # <<>>
    BY <1>7, PathSets
  <2>4. m["d2cs"].at = <<>>
    BY <1>8, <2>2, <2>3
  <2>5. m["d2dbs"] = d
    <3>1. d \in [at : Paths \cup {<<>>}, v : Contents] /\ d.at # o.at
      BY <1>1, <1>3, <1>7
    <3>2. CASE d.at = <<>>
      <4>1. m["d2dbs"] = [at |-> <<>>, v |-> d.v]
        BY <2>2, <2>3, <3>2
      <4> HIDE DEF d
      <4>2. d = [at |-> d.at, v |-> d.v]
        BY <3>1
      <4> QED BY <3>2, <4>1, <4>2
    <3>3. CASE d.at # <<>>
      BY <2>2, <3>1, <3>3
    <3> QED BY <3>2, <3>3
  <2> QED BY <1>9, <2>2, <2>4, <2>5 DEF m
<1> DEFINE g == handle'["d2cs"]
<1>14. CsInv(todo'["d2cs"], g)
  <2>1. CsInv(<<>>, g)
    <3>1. g.at = <<>>
      BY <1>13
    <3> HIDE DEF g
    <3> QED BY <3>1, CsOther
  <2>2. CsInv(Tail(s), g)
    <3>1. g.at = <<>>
      BY <1>13
    <3> HIDE DEF s, h, g
    <3> QED BY <1>1, <1>5, <3>1, CsTail DEF s
  <2> QED BY <1>9, <2>1, <2>2
<1>15. SavesAlike
  <2>1. ASSUME NEW c \in Names \ exposed'
        PROVE  /\ Settled(Save(c))' = Settled(Save(c)) /\ Settled(SaveBak(c))' = Settled(SaveBak(c))
               /\ files[Save(c)] = Absent /\ handle["d2cs"].at # Save(c)
                  => files'[Save(c)] = Absent /\ handle'["d2cs"].at # Save(c)
    BY <1>8, <1>11, <1>12, <1>13, SavePaths DEF Settled
  <2> QED BY <1>9, <1>12, <2>1 DEF SavesAlike
<1>16. FilesTypes'
  BY <1>1, <1>9, <1>11, <1>12, <1>13 DEF FilesTypes
<1> QED BY <1>9, <1>11, <1>13, <1>14, <1>15, <1>16, CsKeeps

\* The calls of d2cs, and no others, keep the invariant.
LEMMA CsCallKeeps ==
  ASSUME FilesInv, Call("d2cs")
  PROVE  FilesInv'
<1> DEFINE h == handle["d2cs"]
           o == Head(todo["d2cs"])
           s == todo["d2cs"]
<1>1. FilesTypes /\ CsInv(s, h)
  BY DEF FilesInv
<1>2. /\ s # <<>> /\ UNCHANGED <<playing, version, mishaps>>
      /\ \/ OpenFile("d2cs", o) \/ WriteFile("d2cs", o) \/ RemoveFile("d2cs", o)
         \/ RenameFile("d2cs", o) \/ OtherCall("d2cs", o)
  BY DEF Call
<1>3. o \in CsCalls /\ (~Using(o) => h.at = <<>>)
  BY <1>1, <1>2, CsHead
<1>4. CASE OpenFile("d2cs", o) \/ WriteFile("d2cs", o) \/ RemoveFile("d2cs", o)
  BY <1>2, <1>4, CsOpens, CsWrites, CsRemoves
<1> HIDE DEF o
<1>5. CASE RenameFile("d2cs", o)
  BY <1>3, <1>5 DEF RenameFile, CsCalls, Opening, Writing
<1>6. CASE OtherCall("d2cs", o)
  <2>1. o.op = "nonladder"
    BY <1>3, <1>6 DEF OtherCall, CsCalls, Opening, Writing
  <2>2. ~Using(o) /\ ~Holding(o)
    BY <2>1 DEF Using, Holding
  <2>3. DOMAIN todo = {"d2cs", "d2dbs"} /\ ladder \subseteq Owners \X Names
    BY <1>1 DEF FilesTypes
  <2>4. /\ DOMAIN todo' = {"d2cs", "d2dbs"} /\ todo'["d2cs"] = Tail(s)
        /\ todo'["d2dbs"] = todo["d2dbs"] /\ ladder' \subseteq ladder /\ saved' = saved
        /\ files' = files /\ handle' = handle /\ exposed' = exposed
    BY <1>6, <2>1, <2>3 DEF OtherCall
  <2>5. CsInv(Tail(s), h)
    <3>1. h.at = <<>>
      BY <1>3, <2>2
    <3> HIDE DEF s, h
    <3> QED BY <1>1, <1>2, <3>1, CsTail
  <2>6. SavesAlike
    BY <1>2, <2>4 DEF SavesAlike, Settled
  <2>7. FilesTypes'
    BY <1>1, <1>2, <2>3, <2>4 DEF FilesTypes
  <2> QED BY <2>4, <2>5, <2>6, <2>7, CsKeeps
<1> QED BY <1>2, <1>4, <1>5, <1>6

-----------------------------------------------------------------------------
\* A handler of d2cs that starts keeps the invariant.
LEMMA CsStarts ==
  ASSUME FilesInv, NEW s, CsInv(s, handle["d2cs"]), todo' = [todo EXCEPT !["d2cs"] = s],
         UNCHANGED <<files, handle, ladder, playing, version, mishaps, saved>>,
         exposed \subseteq exposed', exposed' \subseteq Names
  PROVE  FilesInv'
<1>1. FilesTypes
  BY DEF FilesInv
<1>2. /\ DOMAIN todo' = {"d2cs", "d2dbs"} /\ todo'["d2cs"] = s /\ todo'["d2dbs"] = todo["d2dbs"]
      /\ handle'["d2cs"] = handle["d2cs"]
  BY <1>1 DEF FilesTypes
<1>3. SavesAlike
  BY DEF SavesAlike, Settled
<1>4. FilesTypes'
  BY <1>1, <1>2 DEF FilesTypes
<1>5. CsInv(todo'["d2cs"], handle'["d2cs"])
  BY <1>2
<1> QED BY <1>2, <1>3, <1>4, <1>5, CsKeeps

\* The handlers of d2cs keep the invariant where they start.
LEMMA CsStartsKeep ==
  ASSUME FilesInv, NEW a \in Owners, NEW c \in Names,
         d2char_create(a, c) \/ d2char_convert(a, c) \/ d2char_delete(a, c) \/ d2charinfo_load(a, c)
  PROVE  FilesInv'
<1> DEFINE h == handle["d2cs"]
           s1 == FileWrite(Info(a, c), 0, <<Unlink(Info(a, c))>>)
                 \o FileWrite(Save(c), 0, <<Unlink(Info(a, c)), Unlink(Save(c))>>)
           s2 == Rewrite(Info(a, c)) \o Rewrite(Save(c))
           s3 == <<UnlinkOrStop(Info(a, c)), Unlink(Save(c)), Unlink(InfoBak(a, c)), Unlink(SaveBak(c))>>
           s4 == FileWrite(Info(a, c), 0, <<>>) \o <<SetNonLadder(a, c)>> \o Rewrite(Save(c))
<1>1. CsInv(todo["d2cs"], h) /\ exposed \subseteq Names
  BY DEF FilesInv, FilesTypes
<1>2. /\ todo["d2cs"] = <<>>
      /\ \/ todo' = [todo EXCEPT !["d2cs"] = s1]
         \/ todo' = [todo EXCEPT !["d2cs"] = s2]
         \/ todo' = [todo EXCEPT !["d2cs"] = s3]
         \/ todo' = [todo EXCEPT !["d2cs"] = s4]
      /\ UNCHANGED <<files, handle, ladder, playing, version, mishaps, saved>>
      /\ exposed \subseteq exposed' /\ exposed' \subseteq Names
  BY <1>1 DEF d2char_create, d2char_convert, d2char_delete, d2charinfo_load, Starts
<1>3. h.at = <<>>
  BY <1>1, <1>2 DEF CsInv, InTurn
<1>4. CsInv(s1, h) /\ CsInv(s2, h) /\ CsInv(s3, h) /\ CsInv(s4, h)
  <2> HIDE DEF h
  <2> QED BY <1>3, CsHandlers
<1> HIDE DEF s1, s2, s3, s4
<1> QED BY <1>2, <1>4, CsStarts

\* A handler of d2cs that is given up, for a failure or a stop, keeps the invariant.
LEMMA CsAbandons ==
  ASSUME FilesInv, Abandon("d2cs"), NEW s \in Undoing, todo' = [todo EXCEPT !["d2cs"] = s],
         UNCHANGED <<files, ladder, playing, version, saved>>, mishaps' \in 0..MaxMishaps
  PROVE  FilesInv'
<1> DEFINE h == handle["d2cs"]
<1>1. FilesTypes /\ CsInv(todo["d2cs"], h)
  BY DEF FilesInv
<1>2. h.at \in CsPaths \cup {<<>>}
  BY <1>1 DEF CsInv
<1>3. handle' = [handle EXCEPT !["d2cs"] = NoHandle] /\ exposed' = Risked(h.at)
  BY DEF Abandon
<1>4. /\ exposed \subseteq exposed' /\ exposed' \subseteq Names
      /\ \A c \in Names \ exposed' : h.at # Save(c) /\ h.at # SaveBak(c)
  <2> HIDE DEF h
  <2> QED BY <1>1, <1>2, <1>3, RiskedNames
<1>5. NoHandle \in [at : Paths \cup {<<>>}, v : Contents] /\ NoHandle.at = <<>>
  BY DEF NoHandle, Contents
<1>6. /\ handle' \in [{"d2cs", "d2dbs"} -> [at : Paths \cup {<<>>}, v : Contents]]
      /\ handle'["d2cs"] = NoHandle /\ handle'["d2dbs"] = handle["d2dbs"]
  BY <1>1, <1>3, <1>5 DEF FilesTypes
<1>7. /\ DOMAIN todo' = {"d2cs", "d2dbs"} /\ todo'["d2cs"] = s /\ todo'["d2dbs"] = todo["d2dbs"]
  BY <1>1 DEF FilesTypes
<1>8. CsInv(s, NoHandle)
  BY <1>5, CsOther
<1>9. SavesAlike
  <2>1. ASSUME NEW c \in Names \ exposed'
        PROVE  /\ Settled(Save(c))' = Settled(Save(c)) /\ Settled(SaveBak(c))' = Settled(SaveBak(c))
               /\ files[Save(c)] = Absent /\ handle["d2cs"].at # Save(c)
                  => files'[Save(c)] = Absent /\ handle'["d2cs"].at # Save(c)
    BY <1>4, <1>5, <1>6, SavePaths DEF Settled
  <2> QED BY <1>4, <2>1 DEF SavesAlike
<1>10. FilesTypes'
  BY <1>1, <1>4, <1>6, <1>7 DEF FilesTypes
<1> QED BY <1>6, <1>7, <1>8, <1>9, <1>10, CsKeeps

\* The failures of d2cs keep the invariant.
LEMMA CsMishapsKeep ==
  ASSUME FilesInv, WriteFails("d2cs") \/ Stops("d2cs")
  PROVE  FilesInv'
<1>1. FilesTypes /\ CsInv(todo["d2cs"], handle["d2cs"])
  BY DEF FilesInv
<1>2. /\ todo["d2cs"] # <<>> /\ Abandon("d2cs") /\ UNCHANGED <<files, ladder, playing, version, saved>>
      /\ mishaps < MaxMishaps /\ mishaps' = mishaps + 1
  BY DEF WriteFails, Stops
<1>3. mishaps' \in 0..MaxMishaps
  <2>1. mishaps \in 0..MaxMishaps /\ MaxMishaps \in Nat
    BY <1>1, CharFilesAssumption DEF FilesTypes
  <2> QED BY <1>2, <2>1
<1> DEFINE o == Head(todo["d2cs"])
<1>4. o \in CsCalls
  BY <1>1, <1>2, CsHead
<1>5. o.op = "close" => o.error \in Undoing
  <2> HIDE DEF o
  <2> QED BY <1>4 DEF CsCalls, Opening, Writing
<1>6. <<>> \in Undoing
  <2> DEFINE X == [op : {"remove"}, at : CsPaths]
  <2>1. Undoing = {e \in Seq(X) : Len(e) <= 2}
    BY DEF Undoing
  <2> HIDE DEF X
  <2> QED BY <2>1
<1>7. \E s \in Undoing : todo' = [todo EXCEPT !["d2cs"] = s]
  BY <1>5, <1>6 DEF WriteFails, Stops
<1> QED BY <1>2, <1>3, <1>7, CsAbandons

-----------------------------------------------------------------------------
\* d2dbs.  A step of it that keeps its own part keeps the invariant, if a file that d2cs has
\* open is still one of its own, or none.
LEMMA DbKeeps ==
  ASSUME FilesInv, FilesTypes', DbInv', todo'["d2cs"] = todo["d2cs"],
         handle'["d2cs"].at \in CsPaths \cup {<<>>},
         handle["d2cs"].at = <<>> => handle'["d2cs"].at = <<>>,
         \A c \in Names : saved'[c] <= version'[c] /\ (c \in exposed' \/ VersionKept(c)')
  PROVE  FilesInv'
<1> DEFINE s == todo["d2cs"]
           h == handle["d2cs"]
           k == handle'["d2cs"]
<1>1. CsInv(s, h)
  BY DEF FilesInv
<1>2. k.at \in CsPaths \cup {<<>>} /\ (h.at = <<>> => k.at = <<>>)
  OBVIOUS
<1>3. CsInv(s, k)
  <2> HIDE DEF s, h, k
  <2> QED BY <1>1, <1>2, CsOther
<1>4. CsInv(todo'["d2cs"], handle'["d2cs"])
  BY <1>3
<1> QED BY <1>4 DEF FilesInv

\* Nothing else of the files and the handle of d2cs changes.
DbAlike(s, h) ==
  /\ FilesTypes' /\ SavesAlike
  /\ todo'["d2cs"] = todo["d2cs"] /\ todo'["d2dbs"] = s
  /\ handle'["d2cs"].at \in CsPaths \cup {<<>>}
  /\ handle["d2cs"].at = <<>> => handle'["d2cs"].at = <<>>
  /\ handle'["d2dbs"] = h

\* d2dbs opens a new file, writes into it or lets it go: the saves stay as they are.
LEMMA DbWrites ==
  ASSUME FilesInv, NEW p \in Paths \cup {<<>>}, p \notin CsPaths, NEW v \in Contents,
         files' = Filled(p, v), NEW h \in [at : Paths \cup {<<>>}, v : Contents],
         handle' = [handle EXCEPT !["d2dbs"] = h],
         NEW s, todo' = [todo EXCEPT !["d2dbs"] = s],
         UNCHANGED <<ladder, playing, version, saved, exposed>>, mishaps' \in 0..MaxMishaps
  PROVE  DbAlike(s, h) /\ \A q \in Paths : files'[q] = IF q = p THEN v ELSE files[q]
<1>1. FilesTypes /\ handle["d2cs"].at \in CsPaths \cup {<<>>}
  BY DEF FilesInv, CsInv
<1>2. /\ files' \in [Paths -> Contents]
      /\ \A q \in Paths : files'[q] = IF q = p THEN v ELSE files[q]
  BY <1>1, FilledFile, SMTT(40)
<1>3. /\ handle' \in [{"d2cs", "d2dbs"} -> [at : Paths \cup {<<>>}, v : Contents]]
      /\ handle'["d2cs"] = handle["d2cs"] /\ handle'["d2dbs"] = h
  BY <1>1 DEF FilesTypes
<1>4. /\ DOMAIN todo' = {"d2cs", "d2dbs"} /\ todo'["d2dbs"] = s /\ todo'["d2cs"] = todo["d2cs"]
  BY <1>1 DEF FilesTypes
<1>5. SavesAlike
  <2>1. ASSUME NEW c \in Names
        PROVE  files'[Save(c)] = files[Save(c)] /\ files'[SaveBak(c)] = files[SaveBak(c)]
    BY <1>2, PathSets
  <2> QED BY <1>3, <2>1 DEF SavesAlike, Settled
<1>6. FilesTypes'
  BY <1>1, <1>2, <1>3, <1>4 DEF FilesTypes
<1> QED BY <1>1, <1>2, <1>3, <1>4, <1>5, <1>6 DEF DbAlike

\* d2dbs does no more than go on.
LEMMA DbPasses ==
  ASSUME FilesInv, NEW s, todo' = [todo EXCEPT !["d2dbs"] = s],
         UNCHANGED <<files, handle, ladder, playing, version, saved, exposed, mishaps>>
  PROVE  DbAlike(s, handle["d2dbs"])
<1>1. FilesTypes /\ handle["d2cs"].at \in CsPaths \cup {<<>>}
  BY DEF FilesInv, CsInv
<1>2. DOMAIN todo' = {"d2cs", "d2dbs"} /\ todo'["d2dbs"] = s /\ todo'["d2cs"] = todo["d2cs"]
  BY <1>1 DEF FilesTypes
<1>3. SavesAlike
  BY DEF SavesAlike, Settled
<1>4. FilesTypes'
  BY <1>1, <1>2 DEF FilesTypes
<1> QED BY <1>1, <1>2, <1>3, <1>4 DEF DbAlike

\* d2dbs gives a file another name: what was, or will be, in it is at the new one.
LEMMA DbRenames ==
  ASSUME FilesInv, NEW p \in Paths, NEW q \in CsPaths, p # q,
         files' = [files EXCEPT ![q] = files[p], ![p] = Absent],
         handle' = Moved(handle, p, q), handle["d2dbs"].at = <<>>,
         NEW s, todo' = [todo EXCEPT !["d2dbs"] = s],
         UNCHANGED <<ladder, playing, version, saved, exposed, mishaps>>
  PROVE  /\ FilesTypes' /\ todo'["d2cs"] = todo["d2cs"] /\ todo'["d2dbs"] = s
         /\ handle'["d2dbs"] = handle["d2dbs"]
         /\ handle'["d2cs"].at \in CsPaths \cup {<<>>}
         /\ handle["d2cs"].at = <<>> => handle'["d2cs"].at = <<>>
         /\ Settled(q)' = Settled(p) /\ files'[p] = Absent /\ handle'["d2cs"].at # p
         /\ \A x \in Paths \ {p, q} :
              /\ Settled(x)' = Settled(x) /\ files'[x] = files[x]
              /\ handle["d2cs"].at # x => handle'["d2cs"].at # x
<1> DEFINE m == Moved(handle, p, q)
           h == handle["d2cs"]
           d == handle["d2dbs"]
<1>1. FilesTypes /\ h.at \in CsPaths \cup {<<>>}
  BY DEF FilesInv, CsInv
<1>2. q \in Paths /\ p # <<>> /\ q # <<>> /\ <<>> \notin Paths
  BY PathSets
<1>3. /\ m \in [{"d2cs", "d2dbs"} -> [at : Paths \cup {<<>>}, v : Contents]]
      /\ \A x \in {"d2cs", "d2dbs"} :
           /\ handle[x].at = p => m[x] = [at |-> q, v |-> handle[x].v]
           /\ handle[x].at # p /\ handle[x].at = q => m[x] = [at |-> <<>>, v |-> handle[x].v]
           /\ handle[x].at \notin {p, q} => m[x] = handle[x]
  BY <1>1, <1>2, MovedHandle
<1>4. handle' = m
  OBVIOUS
<1> HIDE DEF m
<1>5. m["d2dbs"] = d
  BY <1>2, <1>3
<1>6. /\ h.at = p => m["d2cs"].at = q /\ m["d2cs"].v = h.v
      /\ h.at = q => m["d2cs"].at = <<>>
      /\ h.at \notin {p, q} => m["d2cs"] = h
  BY <1>3
<1>7. files \in [Paths -> Contents] /\ Absent \in Contents
  BY <1>1 DEF FilesTypes, Contents
<1>8. /\ files' \in [Paths -> Contents] /\ files'[p] = Absent /\ files'[q] = files[p]
      /\ \A x \in Paths \ {p, q} : files'[x] = files[x]
  BY <1>2, <1>7
<1>9. DOMAIN todo' = {"d2cs", "d2dbs"} /\ todo'["d2dbs"] = s /\ todo'["d2cs"] = todo["d2cs"]
  BY <1>1 DEF FilesTypes
<1>10. FilesTypes'
  BY <1>1, <1>3, <1>4, <1>8, <1>9 DEF FilesTypes
<1>11. /\ m["d2cs"].at \in CsPaths \cup {<<>>} /\ m["d2cs"].at # p
       /\ h.at = <<>> => m["d2cs"].at = <<>>
  BY <1>1, <1>2, <1>6
<1>12. Settled(q)' = Settled(p)
  BY <1>2, <1>4, <1>6, <1>8 DEF Settled
<1>13. ASSUME NEW x \in Paths \ {p, q}
       PROVE  Settled(x)' = Settled(x) /\ (h.at # x => m["d2cs"].at # x)
  BY <1>2, <1>4, <1>6, <1>8 DEF Settled
<1> QED BY <1>4, <1>5, <1>8, <1>9, <1>10, <1>11, <1>12, <1>13

\* The save of a character, and its info file, are not the same.
LEMMA InfoPaths ==
  ASSUME NEW a \in Owners, NEW c \in Names
  PROVE  /\ Info(a, c) \in Paths /\ InfoBak(a, c) \in Paths /\ InfoTmp(a, c) \in Paths
         /\ Info(a, c) # InfoBak(a, c) /\ InfoTmp(a, c) # Info(a, c)
         /\ \A b \in Names : /\ Save(b) \in Paths \ {Info(a, c), InfoBak(a, c), InfoTmp(a, c)}
                             /\ SaveBak(b) \in Paths \ {Info(a, c), InfoBak(a, c), InfoTmp(a, c)}
<1>1. Info(a, c) # InfoBak(a, c) /\ InfoTmp(a, c) # Info(a, c)
  BY PathsApart
<1>2. ASSUME NEW b \in Names
      PROVE  /\ Save(b) \notin {Info(a, c), InfoBak(a, c), InfoTmp(a, c)}
             /\ SaveBak(b) \notin {Info(a, c), InfoBak(a, c), InfoTmp(a, c)}
  BY PathsApart
<1> QED BY <1>1, <1>2, PathSets

\* The calls of d2dbs for an info file.
InfoCalls(a, c, h) ==
  {o \in {Create(InfoTmp(a, c), 0), Close(<<>>), ReadOrStop(Info(a, c)),
          Rename(Info(a, c), InfoBak(a, c)), RenameOrStop(InfoTmp(a, c), Info(a, c))} :
     h.at = IF o.op = "close" THEN InfoTmp(a, c) ELSE <<>>}

\* They leave the saves as they are.
LEMMA InfoCallsAlike ==
  ASSUME FilesInv, Call("d2dbs"), NEW a \in Owners, NEW c \in Names,
         Head(todo["d2dbs"]) \in InfoCalls(a, c, handle["d2dbs"])
  PROVE  \E s, h : /\ DbAlike(s, h)
                   /\ h.at = IF Head(todo["d2dbs"]).op = "create" THEN InfoTmp(a, c) ELSE <<>>
                   /\ s = Tail(todo["d2dbs"]) \/ (s = <<>> /\ h.at = <<>>)
<1> DEFINE o == Head(todo["d2dbs"])
           h == handle["d2dbs"]
           t == Tail(todo["d2dbs"])
<1>1. FilesTypes
  BY DEF FilesInv
<1>2. /\ UNCHANGED <<playing, version, mishaps>>
      /\ \/ OpenFile("d2dbs", o) \/ WriteFile("d2dbs", o) \/ RemoveFile("d2dbs", o)
         \/ RenameFile("d2dbs", o) \/ OtherCall("d2dbs", o)
  BY DEF Call
<1>3. o \in InfoCalls(a, c, h)
  OBVIOUS
<1>4. /\ InfoTmp(a, c) \in Paths /\ InfoTmp(a, c) \notin CsPaths /\ <<>> \notin Paths
      /\ Info(a, c) \in CsPaths /\ InfoBak(a, c) \in CsPaths /\ Info(a, c) \in Paths
  BY PathSets
<1>5. /\ Torn \in Contents /\ 0 \in Contents /\ h \in [at : Paths \cup {<<>>}, v : Contents]
      /\ NoHandle \in [at : Paths \cup {<<>>}, v : Contents] /\ NoHandle.at = <<>>
      /\ mishaps \in 0..MaxMishaps /\ mishaps' \in 0..MaxMishaps
      /\ todo' = [todo EXCEPT !["d2dbs"] = t] \/ todo' = [todo EXCEPT !["d2dbs"] = <<>>]
  <2>1. mishaps \in 0..MaxMishaps /\ h \in [at : Paths \cup {<<>>}, v : Contents]
    BY <1>1 DEF FilesTypes
  <2>2. Torn \in Contents /\ 0 \in Contents /\ NoHandle \in [at : Paths \cup {<<>>}, v : Contents]
        /\ NoHandle.at = <<>>
    BY CharFilesAssumption DEF Contents, NoHandle
  <2>3. todo' = [todo EXCEPT !["d2dbs"] = t] \/ todo' = [todo EXCEPT !["d2dbs"] = <<>>]
    <3> HIDE DEF o
    <3> QED BY <1>2 DEF OpenFile, WriteFile, RemoveFile, RenameFile, OtherCall
  <2> QED BY <1>2, <2>1, <2>2, <2>3
<1> HIDE DEF o, t
<1>6. CASE o = Create(InfoTmp(a, c), 0)
  <2>1. o.op = "create" /\ o.at = InfoTmp(a, c) /\ o.v = 0
    BY <1>6 DEF Create
  <2> DEFINE g == [at |-> InfoTmp(a, c), v |-> 0]
  <2>2. /\ files' = Filled(InfoTmp(a, c), Torn) /\ handle' = [handle EXCEPT !["d2dbs"] = g]
        /\ todo' = [todo EXCEPT !["d2dbs"] = t]
        /\ UNCHANGED <<ladder, playing, version, saved, exposed>>
    BY <1>2, <2>1 DEF OpenFile, WriteFile, RemoveFile, RenameFile, OtherCall, t, o
  <2>3. g \in [at : Paths \cup {<<>>}, v : Contents] /\ g.at = InfoTmp(a, c)
    BY <1>4, <1>5
  <2> HIDE DEF g
  <2>4. DbAlike(t, g)
    BY <1>4, <1>5, <2>2, <2>3, DbWrites
  <2> QED BY <2>1, <2>3, <2>4 DEF o, t
<1>7. CASE o = Close(<<>>)
  <2>1. o.op = "close" /\ h.at = InfoTmp(a, c)
    BY <1>3, <1>7 DEF Close, InfoCalls
  <2>2. /\ files' = Filled(InfoTmp(a, c), h.v) /\ handle' = [handle EXCEPT !["d2dbs"] = NoHandle]
        /\ todo' = [todo EXCEPT !["d2dbs"] = t]
        /\ UNCHANGED <<ladder, playing, version, saved, exposed>>
    BY <1>2, <2>1 DEF OpenFile, WriteFile, RemoveFile, RenameFile, OtherCall, t, o
  <2>3. h.v \in Contents
    BY <1>5
  <2>4. DbAlike(t, NoHandle)
    <3> HIDE DEF h
    <3> QED BY <1>4, <1>5, <2>2, <2>3, DbWrites
  <2> QED BY <1>5, <2>1, <2>4 DEF o, t
<1>8. CASE o = ReadOrStop(Info(a, c))
  <2>1. o.op = "readorstop" /\ h.at = <<>>
    BY <1>3, <1>8 DEF ReadOrStop, InfoCalls
  <2>2. UNCHANGED <<files, handle, ladder, playing, version, saved, exposed, mishaps>>
    BY <1>2, <2>1 DEF OpenFile, WriteFile, RemoveFile, RenameFile, OtherCall
  <2>3. DbAlike(t, h) \/ DbAlike(<<>>, h)
    BY <1>5, <2>2, DbPasses
  <2> QED BY <2>1, <2>3 DEF o, t
<1>9. ASSUME NEW p \in Paths, NEW q \in CsPaths, p # q, h.at = <<>>,
             o \in {Rename(p, q), RenameOrStop(p, q)},
             \A b \in Names : Save(b) \in Paths \ {p, q} /\ SaveBak(b) \in Paths \ {p, q}
      PROVE  DbAlike(t, h) \/ DbAlike(<<>>, h)
  <2>1. o.op \in {"rename", "renameorstop"} /\ o.at = p /\ o.to = q
    BY <1>9 DEF Rename, RenameOrStop
  <2>2. RenameFile("d2dbs", o)
    BY <1>2, <2>1 DEF OpenFile, WriteFile, RemoveFile, OtherCall
  <2>3. UNCHANGED <<ladder, saved, exposed>>
    BY <2>2 DEF RenameFile
  <2>4. CASE files' = files /\ handle' = handle
    BY <1>2, <1>5, <2>3, <2>4, DbPasses
  <2>5. CASE files' = [files EXCEPT ![q] = files[p], ![p] = Absent] /\ handle' = Moved(handle, p, q)
    <3>1. ASSUME NEW s, todo' = [todo EXCEPT !["d2dbs"] = s] PROVE DbAlike(s, h)
      <4>1. /\ FilesTypes' /\ todo'["d2cs"] = todo["d2cs"] /\ todo'["d2dbs"] = s
            /\ handle'["d2dbs"] = handle["d2dbs"]
            /\ handle'["d2cs"].at \in CsPaths \cup {<<>>}
            /\ handle["d2cs"].at = <<>> => handle'["d2cs"].at = <<>>
            /\ \A x \in Paths \ {p, q} :
                 /\ Settled(x)' = Settled(x) /\ files'[x] = files[x]
                 /\ handle["d2cs"].at # x => handle'["d2cs"].at # x
        BY <1>2, <1>9, <2>3, <2>5, <3>1, DbRenames, ZenonT(60)
      <4>2. SavesAlike
        BY <1>2, <1>9, <2>3, <4>1 DEF SavesAlike
      <4> QED BY <4>1, <4>2 DEF DbAlike
    <3> QED BY <1>5, <3>1
  <2> QED BY <2>1, <2>2, <2>4, <2>5 DEF RenameFile
<1>10. CASE o \in {Rename(Info(a, c), InfoBak(a, c)), RenameOrStop(InfoTmp(a, c), Info(a, c))}
  <2>1. o.op \in {"rename", "renameorstop"} /\ h.at = <<>>
    BY <1>3, <1>10 DEF Rename, RenameOrStop, InfoCalls
  <2>2. /\ Info(a, c) # InfoBak(a, c) /\ InfoTmp(a, c) # Info(a, c)
        /\ \A b \in Names : /\ Save(b) \in Paths \ {Info(a, c), InfoBak(a, c), InfoTmp(a, c)}
                            /\ SaveBak(b) \in Paths \ {Info(a, c), InfoBak(a, c), InfoTmp(a, c)}
    BY InfoPaths
  <2>3. CASE o = Rename(Info(a, c), InfoBak(a, c))
    <3>1. DbAlike(t, h) \/ DbAlike(<<>>, h)
      BY <1>4, <1>9, <2>1, <2>2, <2>3
    <3> QED BY <2>1, <3>1 DEF o, t
  <2>4. CASE o = RenameOrStop(InfoTmp(a, c), Info(a, c))
    <3>1. DbAlike(t, h) \/ DbAlike(<<>>, h)
      BY <1>4, <1>9, <2>1, <2>2, <2>4
    <3> QED BY <2>1, <3>1 DEF o, t
  <2> QED BY <1>10, <2>3, <2>4
<1>11. o \in {Create(InfoTmp(a, c), 0), Close(<<>>), ReadOrStop(Info(a, c)),
              Rename(Info(a, c), InfoBak(a, c)), RenameOrStop(InfoTmp(a, c), Info(a, c))}
  BY <1>3 DEF InfoCalls
<1> QED BY <1>6, <1>7, <1>8, <1>10, <1>11

-----------------------------------------------------------------------------
\* Where the saving of a character is after its call k + 1.
SavedSoFar(a, c, k) ==
  /\ k = 0 => handle'["d2dbs"] = [at |-> SaveTmp(c), v |-> version[c]]
  /\ k = 5 => handle'["d2dbs"].at = InfoTmp(a, c)
  /\ k \notin {0, 5} => handle'["d2dbs"].at = <<>>
  /\ k \in {1, 2} => files'[SaveTmp(c)] = version[c]
  /\ k >= 3 => c \in exposed' \/ Settled(Save(c))' >= version[c]

\* The saving of a character goes on with the next call, or is over.
LEMMA SavingGoes ==
  ASSUME NEW a \in Owners, NEW c \in Names, version' = version,
         NEW P \in SaveCalls(a, c, version[c]), NEW k \in 0..Len(P) - 1,
         todo["d2dbs"] = Rest(P, k), todo'["d2dbs"] = Tail(todo["d2dbs"]),
         SavedSoFar(a, c, k)
  PROVE  DbInv'
<1>1. /\ \E S : P \in Seq(S)
      /\ Len(P) \in {5, 10}
  BY SaveCallsAre
<1>2. Tail(Rest(P, k)) = Rest(P, k + 1) /\ (k + 1 = Len(P) => Tail(Rest(P, k)) = <<>>)
  BY <1>1, RestTail, SMTT(40)
<1>3. CASE k + 1 = Len(P)
  <2>1. k \notin {0, 5}
    <3>1. k + 1 = 5 \/ k + 1 = 10
      BY <1>1, <1>3
    <3>2. ASSUME k = 0 \/ k = 5 PROVE FALSE
      BY <3>1, <3>2
    <3> QED BY <3>2
  <2>2. todo'["d2dbs"] = <<>> /\ handle'["d2dbs"].at = <<>>
    BY <1>2, <1>3, <2>1 DEF SavedSoFar
  <2> QED BY <2>2 DEF DbInv
<1>4. CASE k + 1 # Len(P)
  <2>1. k + 1 \in 0..Len(P) - 1
    BY <1>1, <1>4
  <2>2. /\ k + 1 = 1 => k = 0
        /\ k + 1 = 6 => k = 5
        /\ k + 1 \notin {1, 6} => k \notin {0, 5}
        /\ Between(2, k + 1, 3) => k \in {1, 2}
        /\ k + 1 >= 4 => k >= 3
    BY <1>1 DEF Between
  <2>3. todo'["d2dbs"] = Rest(P, k + 1)
    BY <1>2
  <2>4. SavingAt(a, c, P, k + 1)'
    BY <2>2, <2>3 DEF SavingAt, SavedSoFar
  <2>5. P \in SaveCalls(a, c, version'[c])
    OBVIOUS
  <2>6. SavingInv'
    BY <2>1, <2>4, <2>5 DEF SavingInv
  <2> QED BY <2>6 DEF DbInv
<1> QED BY <1>3, <1>4

\* A step of d2dbs that changes nothing of the saves, as above, keeps the invariant if d2dbs
\* is where it should be after it.
LEMMA AlikeGoes ==
  ASSUME FilesInv, NEW s, NEW h, DbAlike(s, h), DbInv'
  PROVE  FilesInv'
<1>1. \A c \in Names : saved'[c] <= version'[c] /\ (c \in exposed' \/ VersionKept(c)')
  BY AlikeKeeps DEF DbAlike
<1> QED BY <1>1, DbKeeps DEF DbAlike

\* The first two calls of a saving: the new file.
LEMMA SaveWrites ==
  ASSUME FilesInv, Call("d2dbs"), NEW a \in Owners, NEW c \in Names,
         NEW P \in SaveCalls(a, c, version[c]), NEW k \in {0, 1}, SavingAt(a, c, P, k)
  PROVE  FilesInv'
<1> DEFINE o == Head(todo["d2dbs"])
           h == handle["d2dbs"]
           t == Tail(todo["d2dbs"])
<1>1. /\ \E S : P \in Seq(S)
      /\ k \in 0..Len(P) - 1
      /\ P[1] = Create(SaveTmp(c), version[c]) /\ P[2] = Close(<<>>)
  <2>1. /\ \E S : P \in Seq(S)
        /\ Len(P) = 5 \/ Len(P) = 10
        /\ P[1] = Create(SaveTmp(c), version[c]) /\ P[2] = Close(<<>>)
    BY SaveCallsAre
  <2>2. k \in 0..Len(P) - 1
    BY <2>1
  <2> QED BY <2>1, <2>2
<1>2. todo["d2dbs"] = Rest(P, k) /\ o = P[k + 1]
  BY <1>1, RestTail DEF SavingAt
<1>3. /\ UNCHANGED <<playing, version, mishaps>>
      /\ \/ OpenFile("d2dbs", o) \/ WriteFile("d2dbs", o) \/ RemoveFile("d2dbs", o)
         \/ RenameFile("d2dbs", o) \/ OtherCall("d2dbs", o)
  BY DEF Call
<1>4. SaveTmp(c) \in Paths /\ SaveTmp(c) \notin CsPaths
  BY PathSets
<1>5. /\ version[c] \in Contents /\ Torn \in Contents /\ mishaps \in 0..MaxMishaps
      /\ mishaps' \in 0..MaxMishaps
      /\ NoHandle \in [at : Paths \cup {<<>>}, v : Contents] /\ NoHandle.at = <<>>
  BY <1>3 DEF FilesInv, FilesTypes, Contents, NoHandle
<1> HIDE DEF o, t
<1>6. CASE k = 0
  <2> DEFINE g == [at |-> SaveTmp(c), v |-> version[c]]
  <2>1. o.op = "create" /\ o.at = SaveTmp(c) /\ o.v = version[c]
    <3>1. o = Create(SaveTmp(c), version[c])
      BY <1>1, <1>2, <1>6, SMTT(40)
    <3> QED BY <3>1 DEF Create
  <2>2. /\ files' = Filled(SaveTmp(c), Torn) /\ handle' = [handle EXCEPT !["d2dbs"] = g]
        /\ todo' = [todo EXCEPT !["d2dbs"] = t]
        /\ UNCHANGED <<ladder, playing, version, saved, exposed>>
    BY <1>3, <2>1 DEF OpenFile, WriteFile, RemoveFile, RenameFile, OtherCall, t, o
  <2>3. g \in [at : Paths \cup {<<>>}, v : Contents]
    BY <1>4, <1>5
  <2>4. DbAlike(t, g)
    <3> HIDE DEF g
    <3> QED BY <1>4, <1>5, <2>2, <2>3, DbWrites
  <2>5. todo'["d2dbs"] = Tail(todo["d2dbs"]) /\ handle'["d2dbs"] = g
    BY <2>4 DEF DbAlike, t
  <2>6. SavedSoFar(a, c, k)
    BY <1>6, <2>5 DEF SavedSoFar
  <2>7. DbInv'
    BY <1>1, <1>2, <1>3, <2>5, <2>6, SavingGoes
  <2> QED BY <2>4, <2>7, AlikeGoes
<1>7. CASE k = 1
  <2>1. o.op = "close"
    <3>1. o = Close(<<>>)
      BY <1>1, <1>2, <1>7
    <3> QED BY <3>1 DEF Close
  <2>2. h.at = SaveTmp(c) /\ h.v = version[c]
    BY <1>7, SMTT(40) DEF SavingAt
  <2>3. /\ files' = Filled(SaveTmp(c), version[c]) /\ handle' = [handle EXCEPT !["d2dbs"] = NoHandle]
        /\ todo' = [todo EXCEPT !["d2dbs"] = t]
        /\ UNCHANGED <<ladder, playing, version, saved, exposed>>
    BY <1>3, <2>1, <2>2 DEF OpenFile, WriteFile, RemoveFile, RenameFile, OtherCall, t, o
  <2>4. DbAlike(t, NoHandle) /\ files'[SaveTmp(c)] = version[c]
    <3> DEFINE v == version[c]
    <3> HIDE DEF v
    <3>1. v \in Contents /\ files' = Filled(SaveTmp(c), v)
      BY <1>5, <2>3 DEF v
    <3>2. DbAlike(t, NoHandle) /\ files'[SaveTmp(c)] = v
      BY <1>4, <1>5, <2>3, <3>1, DbWrites
    <3> QED BY <3>2 DEF v
  <2>5. todo'["d2dbs"] = Tail(todo["d2dbs"]) /\ handle'["d2dbs"].at = <<>>
    BY <1>5, <2>4 DEF DbAlike, t
  <2>6. SavedSoFar(a, c, k)
    BY <1>7, <2>4, <2>5 DEF SavedSoFar
  <2>7. DbInv'
    BY <1>1, <1>2, <1>3, <2>5, <2>6, SavingGoes
  <2> QED BY <2>4, <2>7, AlikeGoes
<1> QED BY <1>6, <1>7

\* The versions of the other characters.
LEMMA OthersKept ==
  ASSUME FilesInv, NEW c \in Names, saved'[c] = saved[c], version' = version, exposed' = exposed,
         Settled(Save(c))' = Settled(Save(c)), Settled(SaveBak(c))' = Settled(SaveBak(c)),
         files'[Save(c)] = files[Save(c)],
         handle["d2cs"].at # Save(c) => handle'["d2cs"].at # Save(c)
  PROVE  saved'[c] <= version'[c] /\ (c \in exposed' \/ VersionKept(c)')
BY DEF FilesInv, VersionKept

\* The two renames of a saving: the save becomes the former version, and the new file the save.
LEMMA SaveRenames ==
  ASSUME FilesInv, Call("d2dbs"), NEW a \in Owners, NEW c \in Names,
         NEW P \in SaveCalls(a, c, version[c]), NEW k \in {2, 3}, SavingAt(a, c, P, k)
  PROVE  FilesInv'
<1> DEFINE o == Head(todo["d2dbs"])
           h == handle["d2dbs"]
           t == Tail(todo["d2dbs"])
           p == IF k = 2 THEN Save(c) ELSE SaveTmp(c)
           q == IF k = 2 THEN SaveBak(c) ELSE Save(c)
<1>1. /\ \E S : P \in Seq(S)
      /\ k \in 0..Len(P) - 1
      /\ P[3] = Rename(Save(c), SaveBak(c)) /\ P[4] = RenameOrStop(SaveTmp(c), Save(c))
  <2>1. /\ \E S : P \in Seq(S)
        /\ Len(P) = 5 \/ Len(P) = 10
        /\ P[3] = Rename(Save(c), SaveBak(c)) /\ P[4] = RenameOrStop(SaveTmp(c), Save(c))
    BY SaveCallsAre
  <2>2. k \in 0..Len(P) - 1
    BY <2>1
  <2> QED BY <2>1, <2>2
<1>2. todo["d2dbs"] = Rest(P, k) /\ o = P[k + 1]
  BY <1>1, RestTail DEF SavingAt
<1>3. /\ UNCHANGED <<playing, version, mishaps>>
      /\ \/ OpenFile("d2dbs", o) \/ WriteFile("d2dbs", o) \/ RemoveFile("d2dbs", o)
         \/ RenameFile("d2dbs", o) \/ OtherCall("d2dbs", o)
  BY DEF Call
<1>4. h.at = <<>> /\ files[SaveTmp(c)] = version[c]
  BY DEF SavingAt, Between
<1>5. FilesTypes /\ handle["d2cs"].at \in CsPaths \cup {<<>>}
  BY DEF FilesInv, CsInv
<1>6. /\ Save(c) \in Paths /\ SaveBak(c) \in Paths /\ SaveTmp(c) \in Paths
      /\ Save(c) \in CsPaths /\ SaveBak(c) \in CsPaths /\ SaveTmp(c) \notin CsPaths
      /\ Save(c) # SaveBak(c) /\ Save(c) # SaveTmp(c) /\ <<>> \notin Paths
      /\ SaveBak(c) # SaveTmp(c)
  BY PathSets, PathsApart
<1>7. /\ o.op = IF k = 2 THEN "rename" ELSE "renameorstop"
      /\ o.at = p /\ o.to = q
  <2>1. o = IF k = 2 THEN Rename(Save(c), SaveBak(c)) ELSE RenameOrStop(SaveTmp(c), Save(c))
    BY <1>1, <1>2
  <2> QED BY <2>1 DEF Rename, RenameOrStop
<1> HIDE DEF o, t
<1>8. RenameFile("d2dbs", o)
  BY <1>3, <1>7 DEF OpenFile, WriteFile, RemoveFile, OtherCall
<1>9. UNCHANGED <<ladder, playing, version, saved, exposed, mishaps>>
  BY <1>3, <1>8 DEF RenameFile
<1>10. version[c] \in 0..MaxVersion /\ saved[c] \in {Absent} \cup 0..MaxVersion
       /\ saved[c] <= version[c] /\ MaxVersion \in Nat
  BY <1>5, CharFilesAssumption DEF FilesTypes, FilesInv
<1>11. CASE files[p] = Absent
  <2>1. k = 2
    BY <1>4, <1>10, <1>11 DEF Absent
  <2>2. files' = files /\ handle' = handle /\ todo' = [todo EXCEPT !["d2dbs"] = t]
    BY <1>7, <1>8, <1>11, <2>1 DEF RenameFile, t
  <2>3. DbAlike(t, h)
    BY <1>9, <2>2, DbPasses
  <2>4. DbInv'
    <3>1. todo'["d2dbs"] = Tail(todo["d2dbs"]) /\ handle'["d2dbs"].at = <<>>
      BY <1>4, <2>3 DEF DbAlike, t
    <3>2. SavedSoFar(a, c, k)
      BY <1>4, <2>1, <2>2, <3>1 DEF SavedSoFar
    <3> QED BY <1>1, <1>2, <1>9, <3>1, <3>2, SavingGoes
  <2> QED BY <2>3, <2>4, AlikeGoes
<1>12. CASE files[p] # Absent
  <2>1. /\ files' = [files EXCEPT ![q] = files[p], ![p] = Absent] /\ handle' = Moved(handle, p, q)
        /\ todo' = [todo EXCEPT !["d2dbs"] = t]
    BY <1>7, <1>8, <1>12 DEF RenameFile, t
  <2>2. p \in Paths /\ q \in CsPaths /\ p # q
    BY <1>6
  <2> HIDE DEF p, q
  <2>3. /\ FilesTypes' /\ todo'["d2cs"] = todo["d2cs"] /\ todo'["d2dbs"] = t
        /\ handle'["d2dbs"] = handle["d2dbs"]
        /\ handle'["d2cs"].at \in CsPaths \cup {<<>>}
        /\ handle["d2cs"].at = <<>> => handle'["d2cs"].at = <<>>
        /\ Settled(q)' = Settled(p) /\ files'[p] = Absent /\ handle'["d2cs"].at # p
        /\ \A x \in Paths \ {p, q} :
             /\ Settled(x)' = Settled(x) /\ files'[x] = files[x]
             /\ handle["d2cs"].at # x => handle'["d2cs"].at # x
    BY <1>4, <1>9, <2>1, <2>2, DbRenames, ZenonT(60)
  <2>4. ASSUME NEW d \in Names, d # c
        PROVE  saved'[d] <= version'[d] /\ (d \in exposed' \/ VersionKept(d)')
    <3>1. Save(d) \in Paths \ {p, q} /\ SaveBak(d) \in Paths \ {p, q}
      BY <2>4, PathSets, PathsApart DEF p, q
    <3>2. /\ Settled(Save(d))' = Settled(Save(d)) /\ Settled(SaveBak(d))' = Settled(SaveBak(d))
          /\ files'[Save(d)] = files[Save(d)]
          /\ handle["d2cs"].at # Save(d) => handle'["d2cs"].at # Save(d)
      BY <2>3, <3>1
    <3> QED BY <1>9, <3>2, OthersKept
  <2>5. CASE k = 2
    <3>1. p = Save(c) /\ q = SaveBak(c)
      BY <2>5 DEF p, q
    <3>2. c \in exposed \/ Settled(Save(c)) >= saved[c]
      BY <1>12, <3>1 DEF FilesInv, VersionKept, p
    <3>3. c \in exposed' \/ VersionKept(c)'
      BY <1>9, <2>3, <3>1, <3>2 DEF VersionKept
    <3>4. files'[SaveTmp(c)] = version[c] /\ handle'["d2dbs"].at = <<>>
      BY <1>4, <1>6, <2>3, <3>1
    <3>5. DbInv'
      <4>1. todo'["d2dbs"] = Tail(todo["d2dbs"])
        BY <2>3 DEF t
      <4>2. SavedSoFar(a, c, k)
        BY <2>5, <3>4 DEF SavedSoFar
      <4> QED BY <1>1, <1>2, <1>9, <4>1, <4>2, SavingGoes
    <3>6. \A d \in Names : saved'[d] <= version'[d] /\ (d \in exposed' \/ VersionKept(d)')
      BY <1>9, <1>10, <2>4, <3>3
    <3> QED BY <2>3, <3>5, <3>6, DbKeeps
  <2>6. CASE k = 3
    <3>1. p = SaveTmp(c) /\ q = Save(c)
      BY <2>6 DEF p, q
    <3>2. Settled(Save(c))' = version[c]
      BY <1>4, <1>5, <1>6, <2>3, <3>1 DEF Settled
    <3>3. VersionKept(c)' /\ Settled(Save(c))' >= version[c]
      BY <1>9, <1>10, <3>2 DEF VersionKept
    <3>4. DbInv'
      <4>1. todo'["d2dbs"] = Tail(todo["d2dbs"]) /\ handle'["d2dbs"].at = <<>>
        BY <1>4, <2>3 DEF t
      <4>2. SavedSoFar(a, c, k)
        BY <2>6, <3>3, <4>1 DEF SavedSoFar
      <4> QED BY <1>1, <1>2, <1>9, <4>1, <4>2, SavingGoes
    <3>5. \A d \in Names : saved'[d] <= version'[d] /\ (d \in exposed' \/ VersionKept(d)')
      BY <1>9, <1>10, <2>4, <3>3
    <3> QED BY <2>3, <3>4, <3>5, DbKeeps
  <2> QED BY <2>5, <2>6
<1> QED BY <1>11, <1>12

\* The last call of a saving.
LEMMA LastCall ==
  ASSUME NEW a, NEW c, NEW v, NEW P \in SaveCalls(a, c, v)
  PROVE  (Len(P) = 5 /\ P[5] = Reply(c, v)) \/ (Len(P) = 10 /\ P[10] = Reply(c, v))
BY SaveCallsAre

\* The answer to the game server: the version is in the save, if that has not been put at risk.
LEMMA SaveReplies ==
  ASSUME FilesInv, Call("d2dbs"), NEW a \in Owners, NEW c \in Names,
         NEW P \in SaveCalls(a, c, version[c]), NEW k, k = (IF Len(P) = 5 THEN 4 ELSE 9),
         SavingAt(a, c, P, k)
  PROVE  FilesInv'
<1> DEFINE o == Head(todo["d2dbs"])
           h == handle["d2dbs"]
<1>1. /\ \E S : P \in Seq(S)
      /\ k \in 0..Len(P) - 1 /\ P[k + 1] = Reply(c, version[c]) /\ k + 1 = Len(P)
  <2>1. \E S : P \in Seq(S)
    BY SaveCallsAre
  <2>2. (Len(P) = 5 /\ P[5] = Reply(c, version[c])) \/ (Len(P) = 10 /\ P[10] = Reply(c, version[c]))
    BY LastCall
  <2>3. CASE Len(P) = 5 /\ P[5] = Reply(c, version[c])
    <3>1. k = 4
      BY <2>3
    <3> QED BY <2>1, <2>3, <3>1
  <2>4. CASE Len(P) = 10 /\ P[10] = Reply(c, version[c])
    <3>1. k = 9
      BY <2>4
    <3> QED BY <2>1, <2>4, <3>1
  <2> QED BY <2>2, <2>3, <2>4
<1>2. todo["d2dbs"] = Rest(P, k) /\ o = P[k + 1] /\ Tail(todo["d2dbs"]) = <<>>
  <2>1. todo["d2dbs"] = Rest(P, k)
    BY DEF SavingAt
  <2>2. Head(Rest(P, k)) = P[k + 1] /\ (k + 1 = Len(P) => Tail(Rest(P, k)) = <<>>)
    BY <1>1, RestTail, ZenonT(60)
  <2> QED BY <1>1, <2>1, <2>2
<1>3. /\ UNCHANGED <<playing, version, mishaps>>
      /\ \/ OpenFile("d2dbs", o) \/ WriteFile("d2dbs", o) \/ RemoveFile("d2dbs", o)
         \/ RenameFile("d2dbs", o) \/ OtherCall("d2dbs", o)
  BY DEF Call
<1>4. h.at = <<>> /\ (c \in exposed \/ Settled(Save(c)) >= version[c])
  BY DEF SavingAt
<1>5. FilesTypes /\ handle["d2cs"].at \in CsPaths \cup {<<>>}
  BY DEF FilesInv, CsInv
<1>6. o.op = "reply" /\ o.char = c /\ o.v = version[c]
  BY <1>1, <1>2 DEF Reply
<1> HIDE DEF o
<1>7. /\ saved' = [saved EXCEPT ![c] = version[c]] /\ todo' = [todo EXCEPT !["d2dbs"] = <<>>]
      /\ UNCHANGED <<files, handle, ladder, exposed>>
  <2>1. OtherCall("d2dbs", o)
    BY <1>3, <1>6 DEF OpenFile, WriteFile, RemoveFile, RenameFile
  <2> QED BY <1>2, <1>6, <2>1 DEF OtherCall
<1>8. /\ saved \in [Names -> {Absent} \cup 0..MaxVersion] /\ version[c] \in 0..MaxVersion
      /\ DOMAIN todo = {"d2cs", "d2dbs"} /\ MaxVersion \in Nat
  BY <1>5, CharFilesAssumption DEF FilesTypes
<1>9. /\ saved' \in [Names -> {Absent} \cup 0..MaxVersion] /\ saved'[c] = version[c]
      /\ \A d \in Names \ {c} : saved'[d] = saved[d]
      /\ DOMAIN todo' = {"d2cs", "d2dbs"} /\ todo'["d2cs"] = todo["d2cs"] /\ todo'["d2dbs"] = <<>>
  BY <1>7, <1>8
<1>10. FilesTypes'
  BY <1>3, <1>5, <1>7, <1>9 DEF FilesTypes
<1>11. DbInv'
  BY <1>4, <1>7, <1>9 DEF DbInv
<1>12. saved'[c] <= version'[c] /\ (c \in exposed' \/ VersionKept(c)')
  <2>1. saved'[c] <= version'[c]
    BY <1>3, <1>8, <1>9
  <2>2. c \notin exposed' => Settled(Save(c))' >= saved'[c]
    BY <1>4, <1>7, <1>9 DEF Settled
  <2> QED BY <2>1, <2>2 DEF VersionKept
<1>13. ASSUME NEW d \in Names \ {c}
       PROVE  saved'[d] <= version'[d] /\ (d \in exposed' \/ VersionKept(d)')
  <2>1. saved'[d] = saved[d] /\ version' = version /\ exposed' = exposed
    BY <1>3, <1>7, <1>9
  <2>2. /\ Settled(Save(d))' = Settled(Save(d)) /\ Settled(SaveBak(d))' = Settled(SaveBak(d))
        /\ files'[Save(d)] = files[Save(d)]
        /\ handle["d2cs"].at # Save(d) => handle'["d2cs"].at # Save(d)
    BY <1>7 DEF Settled
  <2> QED BY <2>1, <2>2, OthersKept
<1> QED BY <1>5, <1>7, <1>9, <1>10, <1>11, <1>12, <1>13, DbKeeps

\* The calls of a saving that writes the info file too, which are those after the renames.
LEMMA LongSaveCalls ==
  ASSUME NEW a, NEW c, NEW v, NEW P \in SaveCalls(a, c, v), Len(P) # 5
  PROVE  /\ P[5] = ReadOrStop(Info(a, c))
         /\ P[6] = Create(InfoTmp(a, c), 0) /\ P[7] = Close(<<>>)
         /\ P[8] = Rename(Info(a, c), InfoBak(a, c)) /\ P[9] = RenameOrStop(InfoTmp(a, c), Info(a, c))
<1>1. \/ Len(P) = 5 /\ P[5] = Reply(c, v)
      \/ /\ Len(P) = 10 /\ P[5] = ReadOrStop(Info(a, c))
         /\ P[6] = Create(InfoTmp(a, c), 0) /\ P[7] = Close(<<>>)
         /\ P[8] = Rename(Info(a, c), InfoBak(a, c))
         /\ P[9] = RenameOrStop(InfoTmp(a, c), Info(a, c)) /\ P[10] = Reply(c, v)
  BY SaveCallsAre
<1> QED BY <1>1, Zenon

\* The calls of a saving for the info file.
LEMMA SaveFixes ==
  ASSUME FilesInv, Call("d2dbs"), NEW a \in Owners, NEW c \in Names,
         NEW P \in SaveCalls(a, c, version[c]), NEW k \in 4..8, Len(P) = 10, SavingAt(a, c, P, k)
  PROVE  FilesInv'
<1> DEFINE o == Head(todo["d2dbs"])
           h == handle["d2dbs"]
<1>1. /\ \E S : P \in Seq(S)
      /\ k \in 0..Len(P) - 1
      /\ P[5] = ReadOrStop(Info(a, c))
      /\ P[6] = Create(InfoTmp(a, c), 0) /\ P[7] = Close(<<>>)
      /\ P[8] = Rename(Info(a, c), InfoBak(a, c)) /\ P[9] = RenameOrStop(InfoTmp(a, c), Info(a, c))
  <2>1. \E S : P \in Seq(S)
    BY SaveCallsAre
  <2>2. Len(P) # 5
    OBVIOUS
  <2>3. /\ P[5] = ReadOrStop(Info(a, c))
        /\ P[6] = Create(InfoTmp(a, c), 0) /\ P[7] = Close(<<>>)
        /\ P[8] = Rename(Info(a, c), InfoBak(a, c)) /\ P[9] = RenameOrStop(InfoTmp(a, c), Info(a, c))
    BY <2>2, LongSaveCalls, Zenon
  <2>4. k \in 0..Len(P) - 1
    OBVIOUS
  <2> QED BY <2>1, <2>3, <2>4
<1>2. todo["d2dbs"] = Rest(P, k) /\ o = P[k + 1]
  BY <1>1, RestTail, ZenonT(60) DEF SavingAt
<1>3. /\ k = 6 => h.at = InfoTmp(a, c)
      /\ k # 6 => h.at = <<>>
      /\ c \in exposed \/ Settled(Save(c)) >= version[c]
  BY DEF SavingAt
<1>4. /\ k = 4 => o = ReadOrStop(Info(a, c))
      /\ k = 5 => o = Create(InfoTmp(a, c), 0)
      /\ k = 6 => o = Close(<<>>)
      /\ k = 7 => o = Rename(Info(a, c), InfoBak(a, c))
      /\ k = 8 => o = RenameOrStop(InfoTmp(a, c), Info(a, c))
      /\ k \in {4, 5, 6, 7, 8}
  BY <1>1, <1>2
<1>5. version' = version
  BY DEF Call
<1> HIDE DEF o
<1>6. /\ o.op = "create" <=> k = 5
      /\ o.op = "close" <=> k = 6
  BY <1>4 DEF ReadOrStop, Create, Close, Rename, RenameOrStop
<1>7. o \in InfoCalls(a, c, h)
  BY <1>3, <1>4, <1>6 DEF InfoCalls
<1>8. \E s, g : /\ DbAlike(s, g)
                /\ g.at = IF o.op = "create" THEN InfoTmp(a, c) ELSE <<>>
                /\ s = Tail(todo["d2dbs"]) \/ (s = <<>> /\ g.at = <<>>)
  BY <1>7, InfoCallsAlike DEF o
<1>9. PICK s, g : /\ DbAlike(s, g)
                  /\ g.at = IF o.op = "create" THEN InfoTmp(a, c) ELSE <<>>
                  /\ s = Tail(todo["d2dbs"]) \/ (s = <<>> /\ g.at = <<>>)
  BY <1>8
<1>10. handle'["d2dbs"] = g /\ todo'["d2dbs"] = s /\ SavesAlike
  BY <1>9 DEF DbAlike
<1>11. DbInv'
  <2>1. CASE s = <<>> /\ g.at = <<>>
    BY <1>10, <2>1 DEF DbInv
  <2>2. CASE s = Tail(todo["d2dbs"])
    <3>1. c \in exposed' \/ Settled(Save(c))' >= version[c]
      BY <1>3, <1>5, <1>10, AlikeKeeps
    <3>2. SavedSoFar(a, c, k)
      BY <1>4, <1>6, <1>9, <1>10, <3>1 DEF SavedSoFar
    <3>3. todo'["d2dbs"] = Tail(todo["d2dbs"])
      BY <1>10, <2>2
    <3> QED BY <1>1, <1>2, <1>5, <3>2, <3>3, SavingGoes
  <2> QED BY <1>9, <2>1, <2>2
<1> QED BY <1>9, <1>11, AlikeGoes

\* The calls that save an info file alone.
LEMMA InfoCallKeeps ==
  ASSUME FilesInv, Call("d2dbs"), NEW a \in Owners, NEW c \in Names, NEW k \in 0..3,
         InfoAt(a, c, k)
  PROVE  FilesInv'
<1> DEFINE o == Head(todo["d2dbs"])
           h == handle["d2dbs"]
           P == charinfo(a, c)
<1>1. /\ \E S : P \in Seq(S)
      /\ Len(P) = 4 /\ P[1] = Create(InfoTmp(a, c), 0) /\ P[2] = Close(<<>>)
      /\ P[3] = Rename(Info(a, c), InfoBak(a, c))
      /\ P[4] = RenameOrStop(InfoTmp(a, c), Info(a, c))
  BY InfoCallsAre
<1> HIDE DEF P
<1>2. /\ todo["d2dbs"] = Rest(P, k)
      /\ k = 1 => h.at = InfoTmp(a, c)
      /\ k # 1 => h.at = <<>>
  BY DEF InfoAt, P
<1>3. k \in 0..Len(P) - 1
  BY <1>1
<1>4. /\ o = P[k + 1] /\ Tail(todo["d2dbs"]) = Rest(P, k + 1)
      /\ k + 1 = Len(P) => Tail(todo["d2dbs"]) = <<>>
  <2>1. /\ Head(Rest(P, k)) = P[k + 1] /\ Tail(Rest(P, k)) = Rest(P, k + 1)
        /\ k + 1 = Len(P) => Tail(Rest(P, k)) = <<>>
    BY <1>1, <1>3, RestTail, ZenonT(60)
  <2> QED BY <1>2, <2>1
<1>5. /\ k = 0 => o = Create(InfoTmp(a, c), 0)
      /\ k = 1 => o = Close(<<>>)
      /\ k = 2 => o = Rename(Info(a, c), InfoBak(a, c))
      /\ k = 3 => o = RenameOrStop(InfoTmp(a, c), Info(a, c))
      /\ k \in {0, 1, 2, 3}
  BY <1>1, <1>4
<1> HIDE DEF o
<1>6. /\ o.op = "create" <=> k = 0
      /\ o.op = "close" <=> k = 1
  BY <1>5 DEF Create, Close, Rename, RenameOrStop
<1>7. o \in InfoCalls(a, c, h)
  BY <1>2, <1>5, <1>6 DEF InfoCalls
<1>8. \E s, g : /\ DbAlike(s, g)
                /\ g.at = IF o.op = "create" THEN InfoTmp(a, c) ELSE <<>>
                /\ s = Tail(todo["d2dbs"]) \/ (s = <<>> /\ g.at = <<>>)
  BY <1>7, InfoCallsAlike DEF o
<1>9. PICK s, g : /\ DbAlike(s, g)
                  /\ g.at = IF o.op = "create" THEN InfoTmp(a, c) ELSE <<>>
                  /\ s = Tail(todo["d2dbs"]) \/ (s = <<>> /\ g.at = <<>>)
  BY <1>8
<1>10. handle'["d2dbs"] = g /\ todo'["d2dbs"] = s
  BY <1>9 DEF DbAlike
<1>11. DbInv'
  <2>1. CASE s = <<>> /\ g.at = <<>>
    BY <1>10, <2>1 DEF DbInv
  <2>2. CASE s = Tail(todo["d2dbs"]) /\ k = 3
    <3>1. todo'["d2dbs"] = <<>> /\ handle'["d2dbs"].at = <<>>
      BY <1>1, <1>4, <1>6, <1>9, <1>10, <2>2
    <3> QED BY <3>1 DEF DbInv
  <2>3. CASE s = Tail(todo["d2dbs"]) /\ k # 3
    <3>1. /\ k + 1 \in 0..3 /\ (k + 1 = 1 <=> k = 0)
          /\ todo'["d2dbs"] = Rest(P, k + 1)
          /\ handle'["d2dbs"].at = IF k = 0 THEN InfoTmp(a, c) ELSE <<>>
      BY <1>4, <1>6, <1>9, <1>10, <2>3
    <3>2. InfoAt(a, c, k + 1)'
      BY <3>1 DEF InfoAt, P
    <3>3. InfoInv'
      BY <3>1, <3>2 DEF InfoInv
    <3> QED BY <3>3 DEF DbInv
  <2> QED BY <1>9, <2>1, <2>2, <2>3
<1> QED BY <1>9, <1>11, AlikeGoes

\* The calls of d2dbs keep the invariant.
LEMMA DbCallKeeps ==
  ASSUME FilesInv, Call("d2dbs")
  PROVE  FilesInv'
<1>1. DbInv /\ todo["d2dbs"] # <<>>
  BY DEF FilesInv, Call
<1>2. CASE SavingInv
  <2>1. PICK a \in Owners, c \in Names :
          \E P \in SaveCalls(a, c, version[c]) : \E k \in 0..Len(P) - 1 : SavingAt(a, c, P, k)
    BY <1>2 DEF SavingInv
  <2>2. PICK P \in SaveCalls(a, c, version[c]) : \E k \in 0..Len(P) - 1 : SavingAt(a, c, P, k)
    BY <2>1
  <2>3. PICK k \in 0..Len(P) - 1 : SavingAt(a, c, P, k)
    BY <2>2
  <2>4. Len(P) = 5 \/ Len(P) = 10
    BY SaveCallsAre
  <2>5. k \in {0, 1} \/ k \in {2, 3} \/ (k \in {4, 9} /\ k + 1 = Len(P))
        \/ (k \in 4..8 /\ Len(P) = 10)
    <3>1. CASE Len(P) = 5
      <4>1. k \in 0..4
        BY <3>1
      <4>2. k \in {0, 1} \/ k \in {2, 3} \/ k = 4
        BY <4>1
      <4> QED BY <3>1, <4>2
    <3>2. CASE Len(P) = 10
      <4>1. k \in 0..9
        BY <3>2
      <4>2. k \in {0, 1} \/ k \in {2, 3} \/ k \in 4..8 \/ k = 9
        BY <4>1
      <4> QED BY <3>2, <4>2
    <3> QED BY <2>4, <3>1, <3>2
  <2>6. CASE k \in {0, 1}
    BY <2>3, <2>6, SaveWrites
  <2>7. CASE k \in {2, 3}
    BY <2>3, <2>7, SaveRenames
  <2>8. CASE k \in {4, 9} /\ k + 1 = Len(P)
    <3>1. k = (IF Len(P) = 5 THEN 4 ELSE 9)
      BY <2>4, <2>8
    <3> QED BY <2>3, <3>1, SaveReplies
  <2>9. CASE k \in 4..8 /\ Len(P) = 10
    BY <2>3, <2>9, SaveFixes
  <2> QED BY <2>5, <2>6, <2>7, <2>8, <2>9
<1>3. CASE InfoInv
  <2>1. PICK a \in Owners, c \in Names, k \in 0..3 : InfoAt(a, c, k)
    BY <1>3 DEF InfoInv
  <2> QED BY <2>1, InfoCallKeeps
<1> QED BY <1>1, <1>2, <1>3 DEF DbInv

-----------------------------------------------------------------------------
\* The steps of d2dbs that do not call the file system.
LEMMA DbStands ==
  ASSUME FilesInv, UNCHANGED <<files, todo, handle, ladder, version, mishaps, saved, exposed>>,
         playing' \subseteq Owners \X Names
  PROVE  FilesInv'
<1>1. FilesTypes /\ CsInv(todo["d2cs"], handle["d2cs"])
  BY DEF FilesInv
<1>2. FilesTypes'
  BY <1>1 DEF FilesTypes
<1>3. SavesAlike
  BY DEF SavesAlike, Settled
<1>4. CsInv(todo'["d2cs"], handle'["d2cs"]) /\ todo'["d2dbs"] = todo["d2dbs"]
      /\ handle'["d2dbs"] = handle["d2dbs"]
  BY <1>1
<1>5. \A c \in Names : files'[SaveTmp(c)] = files[SaveTmp(c)]
  OBVIOUS
<1> QED BY <1>2, <1>3, <1>4, <1>5, CsKeeps

\* A handler of d2dbs that starts: the saving of a character, or of an info file alone.
LEMMA DbStartKeeps ==
  ASSUME FilesInv, NEW a \in Owners, NEW c \in Names, dbs_packet_savedata(a, c)
  PROVE  FilesInv'
<1> DEFINE h == handle["d2dbs"]
           v == version[c] + 1
<1>1. FilesTypes /\ DbInv /\ handle["d2cs"].at \in CsPaths \cup {<<>>}
  BY DEF FilesInv, CsInv
<1>2. /\ DOMAIN todo = {"d2cs", "d2dbs"} /\ version \in [Names -> 0..MaxVersion] /\ MaxVersion \in Nat
      /\ saved \in [Names -> {Absent} \cup 0..MaxVersion] /\ exposed \subseteq Names
      /\ files \in [Paths -> Contents]
      /\ handle \in [{"d2cs", "d2dbs"} -> [at : Paths \cup {<<>>}, v : Contents]]
  BY <1>1, CharFilesAssumption DEF FilesTypes
<1>3. todo["d2dbs"] = <<>> /\ UNCHANGED <<files, handle, ladder, playing, mishaps>>
  BY DEF dbs_packet_savedata, Starts
<1>4. h.at = <<>>
  <2>1. ASSUME SavingInv PROVE FALSE
    <3>1. PICK a1 \in Owners, c1 \in Names :
            \E P \in SaveCalls(a1, c1, version[c1]) : \E k \in 0..Len(P) - 1 : SavingAt(a1, c1, P, k)
      BY <2>1 DEF SavingInv
    <3>2. PICK P \in SaveCalls(a1, c1, version[c1]) : \E k \in 0..Len(P) - 1 : SavingAt(a1, c1, P, k)
      BY <3>1
    <3>3. PICK k \in 0..Len(P) - 1 : SavingAt(a1, c1, P, k)
      BY <3>2
    <3>4. \E S : P \in Seq(S)
      BY SaveCallsAre
    <3>5. Rest(P, k) # <<>>
      BY <3>4, RestTail
    <3> QED BY <1>3, <3>3, <3>5 DEF SavingAt
  <2>2. ASSUME InfoInv PROVE FALSE
    <3>1. PICK a1 \in Owners, c1 \in Names, k \in 0..3 : InfoAt(a1, c1, k)
      BY <2>2 DEF InfoInv
    <3> DEFINE P == charinfo(a1, c1)
    <3>2. (\E S : P \in Seq(S)) /\ Len(P) = 4
      BY InfoCallsAre
    <3> HIDE DEF P
    <3>3. k \in 0..Len(P) - 1
      BY <3>2
    <3>4. Rest(P, k) # <<>>
      BY <3>2, <3>3, RestTail, ZenonT(60)
    <3> QED BY <1>3, <3>1, <3>4 DEF InfoAt, P
  <2> QED BY <1>1, <2>1, <2>2 DEF DbInv
<1>5. CASE /\ Starts("d2dbs", charinfo(a, c)) /\ UNCHANGED <<version, saved, exposed>>
  <2> DEFINE P == charinfo(a, c)
  <2>1. todo' = [todo EXCEPT !["d2dbs"] = P]
    BY <1>5 DEF Starts
  <2>2. DbAlike(P, h)
    <3> HIDE DEF P
    <3> QED BY <1>3, <1>5, <2>1, DbPasses
  <2>3. (\E S : P \in Seq(S)) /\ Len(P) = 4
    BY InfoCallsAre
  <2>4. Rest(P, 0) = P
    <3> HIDE DEF P
    <3>1. 0 \in 0..Len(P) - 1
      BY <2>3
    <3> QED BY <2>3, <3>1, RestTail
  <2>5. InfoAt(a, c, 0)'
    BY <1>4, <2>2, <2>4 DEF DbAlike, InfoAt
  <2>6. DbInv'
    BY <2>5 DEF DbInv, InfoInv
  <2> QED BY <2>2, <2>6, AlikeGoes
<1>6. ASSUME NEW P, P \in SaveCalls(a, c, v), version[c] < MaxVersion,
             version' = [version EXCEPT ![c] = @ + 1],
             todo' = [todo EXCEPT !["d2dbs"] = P],
             saved' = [saved EXCEPT ![c] = IF c \in exposed THEN Absent ELSE @],
             exposed' = exposed \ {c}
      PROVE  FilesInv'
  <2>1. /\ version' \in [Names -> 0..MaxVersion] /\ version'[c] = v
        /\ \A d \in Names \ {c} : version'[d] = version[d]
    <3>1. v \in 0..MaxVersion
      BY <1>2, <1>6
    <3> QED BY <1>2, <1>6, <3>1
  <2>2. /\ saved' \in [Names -> {Absent} \cup 0..MaxVersion]
        /\ saved'[c] = IF c \in exposed THEN Absent ELSE saved[c]
        /\ \A d \in Names \ {c} : saved'[d] = saved[d]
        /\ exposed' \subseteq Names
    BY <1>2, <1>6
  <2>3. DOMAIN todo' = {"d2cs", "d2dbs"} /\ todo'["d2cs"] = todo["d2cs"] /\ todo'["d2dbs"] = P
    BY <1>2, <1>6
  <2>4. FilesTypes'
    BY <1>1, <1>3, <2>1, <2>2, <2>3 DEF FilesTypes
  <2>5. (\E S : P \in Seq(S)) /\ 0 \in 0..Len(P) - 1
    <3>1. \E S : P \in Seq(S)
      BY <1>6, SaveCallsAre
    <3>2. (Len(P) = 5 /\ P[5] = Reply(c, v)) \/ (Len(P) = 10 /\ P[10] = Reply(c, v))
      BY <1>6, LastCall
    <3>3. 0 \in 0..Len(P) - 1
      BY <3>2
    <3> QED BY <3>1, <3>3
  <2>6. Rest(P, 0) = P
    BY <2>5, RestTail
  <2>7. SavingAt(a, c, P, 0)'
    BY <1>3, <1>4, <2>3, <2>6 DEF SavingAt, Between
  <2>8. DbInv'
    <3>1. P \in SaveCalls(a, c, version'[c])
      BY <1>6, <2>1
    <3>2. SavingInv'
      BY <2>5, <2>7, <3>1 DEF SavingInv
    <3> QED BY <3>2 DEF DbInv
  <2>9. ASSUME NEW d \in Names
        PROVE  saved'[d] <= version'[d] /\ (d \in exposed' \/ VersionKept(d)')
    <3>1. saved[d] <= version[d] /\ (d \in exposed \/ VersionKept(d))
      BY DEF FilesInv
    <3>2. version'[d] \in Nat /\ version[d] \in Nat /\ version[d] <= version'[d] /\ saved[d] \in Int
      BY <1>2, <1>6, <2>1 DEF Absent
    <3>3. saved'[d] = IF d \in exposed /\ d \notin exposed' THEN Absent ELSE saved[d]
      BY <1>6, <2>2
    <3>4. CASE d \in exposed /\ d \notin exposed'
      <4>1. saved'[d] = Absent /\ Settled(Save(d))' \in Contents
        BY <1>2, <1>3, <3>3, <3>4, SavePaths DEF Settled
      <4>2. \A x \in Contents : x >= Absent
        BY <1>2 DEF Contents, Absent, Torn
      <4>3. VersionKept(d)'
        BY <4>1, <4>2 DEF VersionKept
      <4>4. saved'[d] <= version'[d]
        BY <3>2, <4>1 DEF Absent
      <4> QED BY <4>3, <4>4
    <3>5. CASE ~(d \in exposed /\ d \notin exposed')
      <4>1. saved'[d] = saved[d] /\ (d \in exposed <=> d \in exposed')
        BY <1>6, <3>3, <3>5
      <4>2. saved'[d] <= version'[d]
        BY <3>1, <3>2, <4>1
      <4>3. VersionKept(d) => VersionKept(d)'
        BY <1>3, <4>1 DEF VersionKept, Settled
      <4> QED BY <3>1, <4>1, <4>2, <4>3
    <3> QED BY <3>4, <3>5
  <2>10. handle'["d2cs"] = handle["d2cs"]
    BY <1>3
  <2> QED BY <1>1, <2>3, <2>4, <2>8, <2>9, <2>10, DbKeeps
<1>7. CASE ~(Starts("d2dbs", charinfo(a, c)) /\ UNCHANGED <<version, saved, exposed>>)
  <2>1. /\ version[c] < MaxVersion
        /\ version' = [version EXCEPT ![c] = @ + 1]
        /\ \E fix \in {<<>>, <<ReadOrStop(Info(a, c))>> \o charinfo(a, c)} :
             Starts("d2dbs", charsave(c, version[c] + 1) \o fix \o <<Reply(c, version[c] + 1)>>)
        /\ saved' = [saved EXCEPT ![c] = IF c \in exposed THEN Absent ELSE @]
        /\ exposed' = exposed \ {c}
    BY <1>7 DEF dbs_packet_savedata
  <2>2. \E P : P \in SaveCalls(a, c, v) /\ todo' = [todo EXCEPT !["d2dbs"] = P]
    BY <2>1 DEF Starts, SaveCalls, Fix
  <2> HIDE DEF v
  <2> QED BY <1>6, <2>1, <2>2
<1> QED BY <1>5, <1>7

\* A file of a saving is closed without an error path.
LEMMA CloseOnly ==
  ASSUME NEW a, NEW c, NEW v, NEW P \in SaveCalls(a, c, v), NEW i \in 1..Len(P), P[i].op = "close"
  PROVE  P[i] = Close(<<>>)
<1>1. /\ P[1].op # "close" /\ P[2] = Close(<<>>) /\ P[3].op # "close" /\ P[4].op # "close"
      /\ Len(P) = 5 => P[5].op # "close"
      /\ Len(P) = 10 => /\ P[5].op # "close" /\ P[6].op # "close" /\ P[7] = Close(<<>>)
                        /\ P[8].op # "close" /\ P[9].op # "close" /\ P[10].op # "close"
      /\ Len(P) = 5 \/ Len(P) = 10
  <2>1. /\ P[1] = Create(SaveTmp(c), v) /\ P[2] = Close(<<>>)
        /\ P[3] = Rename(Save(c), SaveBak(c)) /\ P[4] = RenameOrStop(SaveTmp(c), Save(c))
        /\ \/ Len(P) = 5 /\ P[5] = Reply(c, v)
           \/ /\ Len(P) = 10 /\ P[5] = ReadOrStop(Info(a, c))
              /\ P[6] = Create(InfoTmp(a, c), 0) /\ P[7] = Close(<<>>)
              /\ P[8] = Rename(Info(a, c), InfoBak(a, c))
              /\ P[9] = RenameOrStop(InfoTmp(a, c), Info(a, c)) /\ P[10] = Reply(c, v)
    BY SaveCallsAre
  <2>2. /\ \A p, w : Create(p, w).op # "close" /\ Reply(p, w).op # "close"
        /\ \A p, q : Rename(p, q).op # "close" /\ RenameOrStop(p, q).op # "close"
        /\ \A p : ReadOrStop(p).op # "close"
    BY DEF Create, Rename, RenameOrStop, ReadOrStop, Reply
  <2> QED BY <2>1, <2>2, SMTT(40)
<1>2. CASE Len(P) = 5
  <2>1. i \in {1, 2, 3, 4, 5}
    BY <1>2
  <2> QED BY <1>1, <1>2, <2>1
<1>3. CASE Len(P) = 10
  <2>1. i \in {1, 2, 3, 4, 5, 6, 7, 8, 9, 10}
    BY <1>3
  <2> QED BY <1>1, <1>3, <2>1
<1> QED BY <1>1, <1>2, <1>3

\* A handler of d2dbs that is given up, for a failure or a stop, keeps the invariant.
LEMMA DbMishapsKeep ==
  ASSUME FilesInv, WriteFails("d2dbs") \/ Stops("d2dbs")
  PROVE  FilesInv'
<1>1. FilesTypes /\ handle["d2cs"].at \in CsPaths \cup {<<>>} /\ DbInv
  BY DEF FilesInv, CsInv
<1>2. /\ todo["d2dbs"] # <<>> /\ Abandon("d2dbs") /\ UNCHANGED <<files, ladder, playing, version, saved>>
      /\ mishaps < MaxMishaps /\ mishaps' = mishaps + 1
  BY DEF WriteFails, Stops
<1>3. mishaps' \in 0..MaxMishaps
  <2>1. mishaps \in 0..MaxMishaps /\ MaxMishaps \in Nat
    BY <1>1, CharFilesAssumption DEF FilesTypes
  <2> QED BY <1>2, <2>1
<1>4. handle' = [handle EXCEPT !["d2dbs"] = NoHandle] /\ exposed' = exposed
  BY <1>2 DEF Abandon
<1>5. NoHandle \in [at : Paths \cup {<<>>}, v : Contents] /\ NoHandle.at = <<>>
      /\ Absent \in Contents /\ <<>> \notin CsPaths
  BY PathSets DEF NoHandle, Contents
<1>6. Head(todo["d2dbs"]).op = "close" => Head(todo["d2dbs"]).error = <<>>
  <2> DEFINE o == Head(todo["d2dbs"])
  <2>1. ASSUME o.op = "close" PROVE o = Close(<<>>)
    <3>1. ASSUME SavingInv PROVE o = Close(<<>>)
      <4>1. PICK a \in Owners, c \in Names :
              \E P \in SaveCalls(a, c, version[c]) : \E k \in 0..Len(P) - 1 : SavingAt(a, c, P, k)
        BY <3>1 DEF SavingInv
      <4>2. PICK P \in SaveCalls(a, c, version[c]) : \E k \in 0..Len(P) - 1 : SavingAt(a, c, P, k)
        BY <4>1
      <4>3. PICK k \in 0..Len(P) - 1 : SavingAt(a, c, P, k)
        BY <4>2
      <4>4. \E S : P \in Seq(S)
        BY SaveCallsAre
      <4>5. o = P[k + 1]
        BY <4>3, <4>4, RestTail DEF SavingAt
      <4> HIDE DEF o
      <4>6. k + 1 \in 1..Len(P)
        BY <4>3
      <4> QED BY <2>1, <4>5, <4>6, CloseOnly
    <3>2. ASSUME InfoInv PROVE o = Close(<<>>)
      <4>1. PICK a \in Owners, c \in Names, k \in 0..3 : InfoAt(a, c, k)
        BY <3>2 DEF InfoInv
      <4> DEFINE P == charinfo(a, c)
      <4>2. /\ \E S : P \in Seq(S)
            /\ Len(P) = 4 /\ P[1] = Create(InfoTmp(a, c), 0) /\ P[2] = Close(<<>>)
            /\ P[3] = Rename(Info(a, c), InfoBak(a, c))
            /\ P[4] = RenameOrStop(InfoTmp(a, c), Info(a, c))
        BY InfoCallsAre
      <4>3. todo["d2dbs"] = Rest(P, k)
        BY <4>1 DEF InfoAt
      <4> HIDE DEF P
      <4>4. o = P[k + 1]
        <5>1. k \in 0..Len(P) - 1
          BY <4>2
        <5>2. Head(Rest(P, k)) = P[k + 1]
          BY <4>2, <5>1, RestTail
        <5> QED BY <4>3, <5>2
      <4> HIDE DEF o
      <4>5. k + 1 = 1 \/ k + 1 = 2 \/ k + 1 = 3 \/ k + 1 = 4
        BY <4>1
      <4> QED BY <2>1, <4>2, <4>4, <4>5 DEF Create, Close, Rename, RenameOrStop
    <3> QED BY <1>1, <1>2, <3>1, <3>2 DEF DbInv
  <2> QED BY <2>1 DEF Close
<1>7. todo' = [todo EXCEPT !["d2dbs"] = <<>>]
  BY <1>6 DEF WriteFails, Stops
<1>8. files' = Filled(<<>>, Absent)
  BY <1>2 DEF Filled
<1>9. DbAlike(<<>>, NoHandle)
  BY <1>2, <1>3, <1>4, <1>5, <1>7, <1>8, DbWrites
<1>10. DbInv'
  BY <1>5, <1>9 DEF DbAlike, DbInv
<1> QED BY <1>9, <1>10, AlikeGoes

-----------------------------------------------------------------------------
\* The files as they are found: nobody is in a handler and nothing has been said to be saved.
LEMMA FilesInitInv == FilesInit => FilesInv
<1> SUFFICES ASSUME FilesInit PROVE FilesInv
  OBVIOUS
<1>1. MaxVersion \in Nat /\ MaxMishaps \in Nat /\ OldLadder \subseteq Owners \X Names
  BY CharFilesAssumption
<1>2. Absent \in Contents /\ 0 \in Contents /\ \A x \in Contents : x >= Absent
  BY <1>1 DEF Contents, Absent, Torn
<1>3. NoHandle \in [at : Paths \cup {<<>>}, v : Contents] /\ NoHandle.at = <<>>
  BY <1>2 DEF NoHandle
<1>4. files \in [Paths -> Contents]
  BY <1>2 DEF FilesInit
<1>5. /\ DOMAIN todo = {"d2cs", "d2dbs"} /\ todo["d2cs"] = <<>> /\ todo["d2dbs"] = <<>>
      /\ handle \in [{"d2cs", "d2dbs"} -> [at : Paths \cup {<<>>}, v : Contents]]
      /\ handle["d2cs"] = NoHandle /\ handle["d2dbs"] = NoHandle
  BY <1>3 DEF FilesInit
<1>6. FilesTypes
  BY <1>1, <1>4, <1>5 DEF FilesInit, FilesTypes
<1>7. CsInv(<<>>, NoHandle)
  BY <1>3, CsOther
<1>8. DbInv
  BY <1>3, <1>5 DEF DbInv
<1>9. ASSUME NEW c \in Names PROVE saved[c] <= version[c] /\ VersionKept(c)
  <2>1. saved[c] = Absent /\ version[c] = 0
    BY DEF FilesInit
  <2>2. Settled(Save(c)) \in Contents
    BY <1>3, <1>4, <1>5, SavePaths DEF Settled
  <2>3. VersionKept(c)
    BY <1>2, <2>1, <2>2 DEF VersionKept
  <2> QED BY <2>1, <2>3 DEF Absent
<1> QED BY <1>5, <1>6, <1>7, <1>8, <1>9 DEF FilesInv

\* Each step of the two programs, and of the games, keeps the invariant.
LEMMA FilesNextInv == FilesInv /\ [FilesNext]_filesVars => FilesInv'
<1> SUFFICES ASSUME FilesInv, [FilesNext]_filesVars PROVE FilesInv'
  OBVIOUS
<1>1. playing \subseteq Owners \X Names
  BY DEF FilesInv, FilesTypes
<1>2. ASSUME NEW a \in Owners, NEW c \in Names,
             d2char_create(a, c) \/ d2char_convert(a, c) \/ d2char_delete(a, c) \/ d2charinfo_load(a, c)
      PROVE  FilesInv'
  BY <1>2, CsStartsKeep
<1>3. ASSUME NEW a \in Owners, NEW c \in Names, dbs_packet_getdata(a, c) PROVE FilesInv'
  <2>1. playing' \subseteq Owners \X Names
    BY <1>1, <1>3 DEF dbs_packet_getdata
  <2> QED BY <1>3, <2>1, DbStands DEF dbs_packet_getdata
<1>4. ASSUME NEW a \in Owners, NEW c \in Names, dbs_packet_savedata(a, c) PROVE FilesInv'
  BY <1>4, DbStartKeeps
<1>5. ASSUME NEW a \in Owners, NEW c \in Names, GameLeaves(a, c) PROVE FilesInv'
  <2>1. playing' \subseteq Owners \X Names
    BY <1>1, <1>5 DEF GameLeaves
  <2> QED BY <1>5, <2>1, DbStands DEF GameLeaves
<1>6. ASSUME NEW p \in {"d2cs", "d2dbs"}, Call(p) \/ WriteFails(p) \/ Stops(p) PROVE FilesInv'
  <2>1. CASE p = "d2cs"
    BY <1>6, <2>1, CsCallKeeps, CsMishapsKeep
  <2>2. CASE p = "d2dbs"
    BY <1>6, <2>2, DbCallKeeps, DbMishapsKeep
  <2> QED BY <2>1, <2>2
<1>7. CASE UNCHANGED filesVars
  <2>1. UNCHANGED <<files, todo, handle, ladder, version, mishaps, saved, exposed, playing>>
    BY <1>7 DEF filesVars
  <2> QED BY <1>1, <2>1, DbStands
<1> QED BY <1>2, <1>3, <1>4, <1>5, <1>6, <1>7 DEF FilesNext

\* The invariant of the files, their versions and the two programs in the middle of them.
THEOREM FilesInvHolds == FilesSpec => []FilesInv
<1>1. FilesInit => FilesInv
  BY FilesInitInv
<1>2. FilesInv /\ [FilesNext]_filesVars => FilesInv'
  BY FilesNextInv
<1> QED BY <1>1, <1>2, PTL DEF FilesSpec

\* What is left of a handler of d2dbs is no longer than the handler.
LEMMA DbTodoLength ==
  ASSUME DbInv
  PROVE  Len(todo["d2dbs"]) <= 10
<1>1. ASSUME NEW S, NEW P \in Seq(S), NEW k \in 0..Len(P) - 1, Len(P) \in {4, 5, 10},
             todo["d2dbs"] = Rest(P, k)
      PROVE  Len(todo["d2dbs"]) <= 10
  <2>1. Len(Rest(P, k)) = Len(P) - k
    BY RestTail
  <2>2. Len(P) - k <= 10
    <3>1. \A n \in {4, 5, 10} : \A j \in 0..n - 1 : n - j <= 10
      OBVIOUS
    <3>2. Len(P) \in {4, 5, 10} /\ k \in 0..Len(P) - 1
      BY <1>1
    <3> QED BY <3>1, <3>2
  <2> QED BY <1>1, <2>1, <2>2
<1>2. ASSUME SavingInv PROVE Len(todo["d2dbs"]) <= 10
  <2>1. PICK a \in Owners, c \in Names :
          \E P \in SaveCalls(a, c, version[c]) : \E k \in 0..Len(P) - 1 : SavingAt(a, c, P, k)
    BY <1>2 DEF SavingInv
  <2>2. PICK P \in SaveCalls(a, c, version[c]) : \E k \in 0..Len(P) - 1 : SavingAt(a, c, P, k)
    BY <2>1
  <2>3. PICK k \in 0..Len(P) - 1 : SavingAt(a, c, P, k)
    BY <2>2
  <2>4. (\E S : P \in Seq(S)) /\ Len(P) \in {4, 5, 10}
    <3>1. \E S : P \in Seq(S)
      BY SaveCallsAre
    <3>2. (Len(P) = 5 /\ P[5] = Reply(c, version[c])) \/ (Len(P) = 10 /\ P[10] = Reply(c, version[c]))
      BY LastCall
    <3> QED BY <3>1, <3>2
  <2> QED BY <1>1, <2>3, <2>4 DEF SavingAt
<1>3. ASSUME InfoInv PROVE Len(todo["d2dbs"]) <= 10
  <2>1. PICK a \in Owners, c \in Names, k \in 0..3 : InfoAt(a, c, k)
    BY <1>3 DEF InfoInv
  <2> DEFINE P == charinfo(a, c)
  <2>2. (\E S : P \in Seq(S)) /\ Len(P) = 4
    BY InfoCallsAre
  <2>3. todo["d2dbs"] = Rest(P, k)
    BY <2>1 DEF InfoAt
  <2> HIDE DEF P
  <2>4. k \in 0..Len(P) - 1 /\ Len(P) \in {4, 5, 10}
    BY <2>2
  <2> QED BY <1>1, <2>2, <2>3, <2>4
<1>4. CASE todo["d2dbs"] = <<>>
  <2>1. Len(<<>>) <= 10
    OBVIOUS
  <2> QED BY <1>4, <2>1
<1> QED BY <1>2, <1>3, <1>4 DEF DbInv

\* The types of the files, the handlers and the handles (FilesTypeOK).
THEOREM FilesTypeCorrect == FilesSpec => []FilesTypeOK
<1>1. ASSUME FilesInv PROVE FilesTypeOK
  <2>1. FilesTypes /\ Len(todo["d2cs"]) <= 10 /\ DbInv
    BY <1>1 DEF FilesInv, CsInv
  <2>2. Len(todo["d2dbs"]) <= 10
    BY <2>1, DbTodoLength
  <2> QED BY <2>1, <2>2 DEF FilesTypes, FilesTypeOK
<1> QED BY <1>1, FilesInvHolds, PTL

\* The version that d2dbs has told the game server is saved is in the save or in the former
\* version, but for what d2cs does to the save itself (SavedIsKept): whatever stops, whatever
\* fails, and however the calls of the two programs interleave.
THEOREM SavedVersionsKept == FilesSpec => []SavedIsKept
<1>1. ASSUME FilesInv, NEW c \in Names \ exposed
      PROVE  \/ files[Save(c)] >= saved[c] \/ files[SaveBak(c)] >= saved[c]
             \/ IsSave(handle["d2cs"].at) /\ NameOf(handle["d2cs"].at) = c
  <2>1. VersionKept(c)
    BY <1>1 DEF FilesInv
  <2>2. /\ IsSave(Save(c)) /\ NameOf(Save(c)) = c
        /\ IsSave(SaveBak(c)) /\ NameOf(SaveBak(c)) = c
    BY PathSets
  <2>3. CASE handle["d2cs"].at \in {Save(c), SaveBak(c)}
    BY <2>2, <2>3
  <2>4. CASE handle["d2cs"].at \notin {Save(c), SaveBak(c)}
    BY <2>1, <2>4, SMTT(40) DEF VersionKept, Settled
  <2> QED BY <2>3, <2>4
<1>2. FilesInv => SavedIsKept
  BY <1>1 DEF SavedIsKept
<1> QED BY <1>2, FilesInvHolds, PTL
=============================================================================
