------------------------------ MODULE AttrStore ------------------------------
(***************************************************************************)
(* The attributes of the accounts of bnetd: a group of attributes for each *)
(* account, read from its file when one is asked for, changed in the       *)
(* memory, and written and thrown out again by the main loop, which goes   *)
(* through the list of dirty groups and the list of loaded groups some     *)
(* steps at a time and remembers, in static variables, where it was        *)
(* (src/bnetd/attrgroup.cpp, attrlayer.cpp), with plain files              *)
(* (storage_file.cpp, file_plain.cpp).                                     *)
(*                                                                         *)
(* A group has the name of its account and one other attribute, which is   *)
(* not there, or has a value.  Time is what it makes true: the last change *)
(* was usersync seconds ago, the last access userflush seconds ago; the    *)
(* first is the shorter time, as in the configuration that is distributed. *)
(***************************************************************************)
EXTENDS Integers, FiniteSets, Sequences, SequencesExt

CONSTANTS
  Groups, Default,        \* the accounts, and the default account
  LikeDefault,            \* groups taken for the default one, see attrgroup_flush
  Values,
  UserStep, FlushConnected, SyncOnLogoff,
  MaxAttrMishaps          \* a bound

ASSUME AttrAssumption ==
  /\ IsFiniteSet(Groups) /\ Default \notin Groups /\ LikeDefault \subseteq Groups
  /\ UserStep \in Nat \ {0} /\ FlushConnected \in BOOLEAN /\ SyncOnLogoff \in BOOLEAN
  /\ MaxAttrMishaps \in Nat

VARIABLES
  attrs,         \* the groups, the lists, the places of the loops, and the files
  lastSet,       \* history: the last value set, or found at the start, of each group
  attrMishaps    \* stops and failures so far (a bound)

attrVars == <<attrs, lastSet, attrMishaps>>

-----------------------------------------------------------------------------
\* The end of a list is its head.
End == 0
NoValue == 0
ASSUME ValueAssumption == NoValue \notin Values /\ End \notin Groups \cup {Default}

\* What is in the memory or in a file of a group.
Nothing == [there |-> FALSE, named |-> FALSE, val |-> NoValue]
\* A group that is loaded and has no attribute.
Bare == [there |-> TRUE, named |-> FALSE, val |-> NoValue]
New == [there |-> TRUE, named |-> TRUE, val |-> NoValue]

Started(files, spoiled) ==
  LET kept == {g \in LikeDefault : files[g].there}
  IN  [cache |-> [g \in Groups |-> IF g \in kept THEN files[g] ELSE Nothing],
       files |-> files,
       loadedlist |-> <<Default>> \o SetToSeq(kept),
       dirtylist |-> <<>>,
       fresh |-> {Default} \cup kept,   \* accessed less than userflush seconds ago
       young |-> {},                    \* dirty for less than usersync seconds
       save |-> [curr |-> End, next |-> End],
       flush |-> [curr |-> End, next |-> End],
       behind |-> End,                  \* where a group at save.next, removed since, points
       spoiled |-> spoiled,             \* history: a read or a write of it has failed
       cut |-> FALSE]                   \* history: a group of save was saved by another

AttrInit ==
  /\ \E there \in SUBSET Groups :
       attrs = Started([g \in Groups |-> IF g \in there THEN New ELSE Nothing], {})
  /\ lastSet = [g \in Groups |-> NoValue]
  /\ attrMishaps = 0

-----------------------------------------------------------------------------
elist_next(list, g) ==
  IF g = End THEN IF list = <<>> THEN End ELSE Head(list)
  ELSE LET at == SelectInSeq(list, LAMBDA h : h = g)
       IN  IF at \in 1..(Len(list) - 1) THEN list[at + 1] ELSE End

\* The operations on groups, as functions on s, the value of attrs.
set_accessed(s, g) ==
  [s EXCEPT !.fresh = @ \cup {g}, !.loadedlist = Append(RemoveFirst(@, g), g)]

set_dirty(s, g) ==
  IF g \in ToSet(s.dirtylist) THEN s
  ELSE [s EXCEPT !.dirtylist = Append(@, g), !.young = @ \cup {g}]

\* A group removed from a list still points where it pointed.
clear_dirty(s, g) ==
  [s EXCEPT !.dirtylist = RemoveFirst(@, g), !.young = @ \ {g},
            !.behind = IF g = s.save.next /\ g \in ToSet(s.dirtylist)
                       THEN elist_next(s.dirtylist, g) ELSE @]

\* Reading sets every attribute, which accesses the group.  A group whose file cannot be
\* read is loaded all the same.
attrgroup_load(s, g, fail) ==
  IF s.cache[g].there THEN s
  ELSE LET m == [s EXCEPT !.loadedlist = Append(@, g)]
       IN  IF fail THEN [m EXCEPT !.cache[g] = Bare, !.spoiled = @ \cup {g}]
           ELSE set_accessed([m EXCEPT !.cache[g] = m.files[g]], g)

attrgroup_find_attr(s, g, fail) ==
  LET m == attrgroup_load(s, g, fail)
  IN  IF fail THEN m ELSE set_accessed(m, g)

\* The value of the default account is looked up for one that is not there.
attrgroup_get_attr(s, g, fail) ==
  LET m == attrgroup_find_attr(s, g, fail)
  IN  IF m.cache[g].val = NoValue THEN set_accessed(m, Default) ELSE m

attrgroup_set_attr(s, g, v, fail) ==
  LET m == attrgroup_find_attr(s, g, fail)
  IN  IF m.cache[g].val = v THEN m ELSE set_dirty([m EXCEPT !.cache[g].val = v], g)

\* The group is clean after a write that fails, too.
Saves(s, g, force) == g \in ToSet(s.dirtylist) /\ (force \/ g \notin s.young)
Mut_attrgroup_save(s, g, force, failing) ==
  IF ~Saves(s, g, force) \/ g \in failing THEN s ELSE [s EXCEPT !.files[g] = s.cache[g]]
attrgroup_save(s, g, force, failing) ==
  IF ~Saves(s, g, force) THEN s
  ELSE IF g \in failing THEN [clear_dirty(s, g) EXCEPT !.spoiled = @ \cup {g}]
  ELSE [clear_dirty(s, g) EXCEPT !.files[g] = s.cache[g]]

\* The loop attrlayer_save is about to go on at a group that is saved by another.
Cuts(s, g) == g \in ToSet(s.dirtylist) \cap {s.save.curr, s.save.next}

\* The first four bytes of what the storage knows of a group are compared with those of
\* the default one.  These are a number for a database, and of a path for files.
LooksDefault(g) == g = Default \/ g \in LikeDefault

\* What attrgroup_flush returns, and what it does.  The name of the account is looked
\* up before the account is looked for among those online.
Flushed(s, g, force, online) ==
  IF g \notin ToSet(s.loadedlist) \/ (~force /\ g \in s.fresh) THEN 0
  ELSE IF LooksDefault(g) THEN 2
  ELSE IF ~FlushConnected /\ ~force /\ s.cache[g].named /\ g \in online THEN 2
  ELSE 1
Mut_attrgroup_flush(s, g, force, online, failing) ==
  LET named == IF ~FlushConnected /\ ~force /\ ~LooksDefault(g) THEN set_accessed(s, g) ELSE s
  IN  CASE Flushed(s, g, force, online) = 0 -> s
        [] Flushed(s, g, force, online) = 2 -> named
        [] Flushed(s, g, force, online) = 1 ->
             [clear_dirty(named, g) EXCEPT !.cache[g] = Nothing, !.fresh = @ \ {g},
                                           !.loadedlist = RemoveFirst(@, g)]
attrgroup_flush(s, g, force, online, failing) ==
  LET named == IF ~FlushConnected /\ ~force /\ ~LooksDefault(g) THEN set_accessed(s, g) ELSE s
  IN  CASE Flushed(s, g, force, online) = 0 -> s
        [] Flushed(s, g, force, online) = 2 -> named
        [] Flushed(s, g, force, online) = 1 ->
             [attrgroup_save([named EXCEPT !.cut = @ \/ Cuts(s, g)], g, TRUE, failing)
                EXCEPT !.cache[g] = Nothing, !.fresh = @ \ {g}, !.loadedlist = RemoveFirst(@, g)]

-----------------------------------------------------------------------------
\* attrlayer_save and attrlayer_flush start where they stopped the last time, or at
\* the first group, and stop at a group that it is too early for.
Loop(curr, next, s) == [s |-> s, curr |-> curr, next |-> next, steps |-> 0, out |-> FALSE]
Begin(s, list, at, all) ==
  IF at.curr = End \/ all
  THEN Loop(elist_next(list, End), elist_next(list, elist_next(list, End)), s)
  ELSE Loop(at.curr, at.next, s)
Ended(l, all) == l.out \/ l.curr = End \/ (~all /\ l.steps >= UserStep)
Turns == [i \in 1..(UserStep + Cardinality(Groups) + 1) |-> i]

DirtyNext(s, g) ==
  IF g = s.save.next /\ g \notin ToSet(s.dirtylist) \cup {End} THEN s.behind
  ELSE elist_next(s.dirtylist, g)

Mut_attrlayer_save(s, force, all, failing) ==
  LET Turn(l, i) ==
        IF Ended(l, all) THEN l
        ELSE IF ~Saves(l.s, l.curr, force) THEN [l EXCEPT !.out = TRUE, !.curr = l.next]
        ELSE LET m == attrgroup_save(l.s, l.curr, force, failing)
             IN  [s |-> m, curr |-> l.next, next |-> DirtyNext(m, l.next),
                  steps |-> l.steps + 1, out |-> FALSE]
      l == FoldLeft(Turn, Begin(s, s.dirtylist, s.save, all), Turns)
  IN  [l.s EXCEPT !.save = [curr |-> l.curr, next |-> l.next], !.cut = @ /\ ~all]
attrlayer_save(s, force, all, failing) ==
  LET Turn(l, i) ==
        IF Ended(l, all) THEN l
        ELSE IF ~Saves(l.s, l.curr, force) THEN [l EXCEPT !.out = TRUE]
        ELSE LET m == attrgroup_save(l.s, l.curr, force, failing)
             IN  [s |-> m, curr |-> l.next, next |-> DirtyNext(m, l.next),
                  steps |-> l.steps + 1, out |-> FALSE]
      l == FoldLeft(Turn, Begin(s, s.dirtylist, s.save, all), Turns)
  IN  [l.s EXCEPT !.save = [curr |-> l.curr, next |-> l.next], !.cut = @ /\ ~all]

attrlayer_flush(s, force, all, online, failing) ==
  LET Turn(l, i) ==
        IF Ended(l, all) THEN l
        ELSE IF Flushed(l.s, l.curr, force, online) = 0 THEN [l EXCEPT !.out = TRUE]
        ELSE LET m == attrgroup_flush(l.s, l.curr, force, online, failing)
             IN  [s |-> m, curr |-> l.next, next |-> elist_next(m.loadedlist, l.next),
                  steps |-> l.steps + 1, out |-> FALSE]
      l == FoldLeft(Turn, Begin(s, s.loadedlist, s.flush, all), Turns)
  IN  [l.s EXCEPT !.flush = [curr |-> l.curr, next |-> l.next]]

-----------------------------------------------------------------------------
Mishaps(n) == attrMishaps' = attrMishaps + n /\ attrMishaps' <= MaxAttrMishaps
Broken(failing) == IF failing = {} THEN 0 ELSE 1
Known(g) == attrs.cache[g].there \/ attrs.files[g].there

\* Attributes are asked for and set when the account is.
Get(g, fail) ==
  /\ Known(g) /\ (fail => ~attrs.cache[g].there)
  /\ Mishaps(IF fail THEN 1 ELSE 0)
  /\ attrs' = attrgroup_get_attr(attrs, g, fail)
  /\ UNCHANGED lastSet

Set(g, v, fail) ==
  /\ Known(g) /\ (fail => ~attrs.cache[g].there)
  /\ Mishaps(IF fail THEN 1 ELSE 0)
  /\ attrs' = attrgroup_set_attr(attrs, g, v, fail)
  /\ lastSet' = [lastSet EXCEPT ![g] = v]

\* A new account is loaded and saved at once.
accountlist_create_account(g, failing) ==
  /\ ~Known(g) /\ failing \subseteq {g}
  /\ Mishaps(Broken(failing))
  /\ LET born == [attrs EXCEPT !.cache[g] = New, !.loadedlist = Append(@, g)]
     IN  attrs' = attrgroup_save(set_dirty(set_accessed(born, g), g), g, TRUE, failing)
  /\ lastSet' = [lastSet EXCEPT ![g] = NoValue]

\* conn_destroy, with sync_on_logoff.
Logoff(g, failing) ==
  /\ SyncOnLogoff /\ Saves(attrs, g, TRUE) /\ failing \subseteq {g}
  /\ Mishaps(Broken(failing))
  /\ attrs' = attrgroup_save([attrs EXCEPT !.cut = @ \/ Cuts(attrs, g)], g, TRUE, failing)
  /\ UNCHANGED lastSet

\* One turn of the main loop of the server, with the accounts online that are loaded.
MainLoop(online, failing) ==
  /\ online \subseteq ToSet(attrs.loadedlist) /\ failing \subseteq ToSet(attrs.dirtylist)
  /\ Mishaps(Broken(failing))
  /\ attrs' = attrlayer_flush(attrlayer_save(attrs, FALSE, FALSE, failing),
                              FALSE, FALSE, online, failing)
  /\ UNCHANGED lastSet

\* The command /save, and what is done before the server is shut down.
SavedAll(s, failing) ==
  attrlayer_flush(attrlayer_save(s, TRUE, TRUE, failing), TRUE, TRUE, {}, failing)
SaveCommand(failing) ==
  /\ failing \subseteq ToSet(attrs.dirtylist)
  /\ Mishaps(Broken(failing))
  /\ attrs' = SavedAll(attrs, failing)
  /\ UNCHANGED lastSet
Shutdown(failing) ==
  /\ failing \subseteq ToSet(attrs.dirtylist)
  /\ LET s == SavedAll(attrs, failing) IN attrs' = Started(s.files, s.spoiled)
  /\ Mishaps(1)
  /\ UNCHANGED lastSet

Crash ==
  /\ Mishaps(1)
  /\ attrs' = Started(attrs.files, attrs.spoiled)
  /\ lastSet' = [g \in Groups |-> attrs.files[g].val]

\* The lists are in the order of the times: what was changed, or accessed, first is the
\* first whose time is over, and a change is an access.
After(list, set, rest) ==
  /\ rest \subseteq set
  /\ \A i, j \in DOMAIN list : i < j /\ list[i] \in rest /\ list[j] \in set => list[j] \in rest
TimePasses ==
  \E young \in SUBSET attrs.young, fresh \in SUBSET attrs.fresh :
    /\ young # attrs.young \/ fresh # attrs.fresh
    /\ After(attrs.dirtylist, attrs.young, young)
    /\ After(attrs.loadedlist, attrs.fresh, fresh)
    /\ young \cap attrs.fresh \subseteq fresh
    /\ attrs' = [attrs EXCEPT !.young = young, !.fresh = fresh]
    /\ UNCHANGED <<lastSet, attrMishaps>>

AttrNext ==
  \/ \E g \in Groups, fail \in BOOLEAN :
       Get(g, fail) \/ \E v \in Values : Set(g, v, fail)
  \/ \E g \in Groups, failing \in SUBSET Groups :
       accountlist_create_account(g, failing) \/ Logoff(g, failing)
  \/ \E failing \in SUBSET Groups :
       \/ \E online \in SUBSET Groups : MainLoop(online, failing)
       \/ SaveCommand(failing) \/ Shutdown(failing)
  \/ Crash \/ TimePasses

AttrSpec == AttrInit /\ [][AttrNext]_attrVars

-----------------------------------------------------------------------------
Held == [there : BOOLEAN, named : BOOLEAN, val : Values \cup {NoValue}]
Places == [curr : Groups \cup {Default, End}, next : Groups \cup {Default, End}]

\* The shapes, and the lists: those loaded, and those dirty, who are loaded.
AttrTypeOK ==
  /\ attrs.cache \in [Groups -> Held] /\ attrs.files \in [Groups -> Held]
  /\ ToSet(attrs.loadedlist) = {Default} \cup {g \in Groups : attrs.cache[g].there}
  /\ ToSet(attrs.dirtylist) \subseteq ToSet(attrs.loadedlist) \ {Default}
  /\ attrs.young \subseteq ToSet(attrs.dirtylist) /\ attrs.fresh \subseteq ToSet(attrs.loadedlist)
  /\ attrs.save \in Places /\ attrs.flush \in Places
  /\ attrs.spoiled \subseteq Groups
  /\ lastSet \in [Groups -> Values \cup {NoValue}] /\ attrMishaps \in 0..MaxAttrMishaps

\* An attribute has the value that was set last, and an account its name, whatever has
\* been written, thrown out and read again since, and after a shutdown; but for accounts
\* of which a write, or a read, has failed.
ValuesAreKept ==
  \A g \in Groups \ attrs.spoiled :
    LET held == IF attrs.cache[g].there THEN attrs.cache[g] ELSE attrs.files[g]
    IN  held.val = lastSet[g] /\ held.named = held.there

\* attrlayer_save stops on the first account not saved, "ie dirty too early": the place
\* where it goes on is that of a dirty account, so that it goes on when the time has come.
\* Where that account, or the next, has been saved by a logoff or thrown out by the other
\* loop, it stops there for good, until /save.
SaveStopsAtDirty ==
  attrs.save.curr # End /\ ~attrs.cut => attrs.save.curr \in ToSet(attrs.dirtylist)
=============================================================================
