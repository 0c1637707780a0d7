----------------------------- MODULE CharFiles -----------------------------
(***************************************************************************)
(* The files of characters.  d2cs creates, converts, resets and deletes    *)
(* them (src/d2cs/d2charfile.cpp), d2dbs saves them for the game servers   *)
(* (src/d2dbs/dbspacket.cpp), in the same directories and without any lock *)
(* between the two.  A character has a save, under its name alone, an info *)
(* file under its account, and a former version of each.                   *)
(*                                                                         *)
(* A handler is the sequence of its calls to the file system, which        *)
(* interleave with those of the other program.  A program may be stopped   *)
(* between two calls, and a write may fail.  Game servers are external.    *)
(***************************************************************************)
EXTENDS Integers, Sequences

CONSTANTS
  Owners, Names,
  OldLadder,               \* <<owner, name>> of the characters of a former season
  MaxVersion, MaxMishaps   \* bounds

ASSUME CharFilesAssumption ==
  /\ OldLadder \subseteq Owners \X Names
  /\ MaxVersion \in Nat /\ MaxMishaps \in Nat

VARIABLES
  files,     \* what is at each path
  todo,      \* what is left of the handler that each program is in
  handle,    \* the file that each program has open
  ladder,    \* the info files with the ladder flag of a former season
  playing,   \* external: the characters in the game, with their accounts
  version,   \* external: the last version of each save
  mishaps,   \* stops and failures so far (a bound)
  saved,     \* history: the last version that d2dbs has said is saved
  exposed    \* history: the names whose save d2cs has put at risk since

filesVars == <<files, todo, handle, ladder, playing, version, mishaps, saved, exposed>>

-----------------------------------------------------------------------------
\* What a path may hold: nothing, a file that is not whole, or a version.  The
\* contents of an info file do not matter.
Absent == -2
Torn == -1
Contents == {Absent, Torn} \cup 0..MaxVersion

Save(c) == <<"save", c>>
SaveBak(c) == <<"savebak", c>>
SaveTmp(c) == <<"savetmp", c>>
Info(a, c) == <<"info", a, c>>
InfoBak(a, c) == <<"infobak", a, c>>
InfoTmp(a, c) == <<"infotmp", a, c>>
Paths == {Save(c) : c \in Names} \cup {SaveBak(c) : c \in Names} \cup {SaveTmp(c) : c \in Names}
         \cup {Info(a, c) : a \in Owners, c \in Names}
         \cup {InfoBak(a, c) : a \in Owners, c \in Names}
         \cup {InfoTmp(a, c) : a \in Owners, c \in Names}

\* The calls.  A file is open from its creation, which empties it, or its opening,
\* which remembers what is in it, to its closing, when it is whole.  A write that
\* fails leaves the handler on its error path.
Create(p, v) == [op |-> "create", at |-> p, v |-> v]
OpenOrStop(p) == [op |-> "openorstop", at |-> p]
Overwrite == [op |-> "overwrite"]
Close(error) == [op |-> "close", error |-> error]
Unlink(p) == [op |-> "remove", at |-> p]
UnlinkOrStop(p) == [op |-> "removeorstop", at |-> p]
Rename(p, q) == [op |-> "rename", at |-> p, to |-> q]
RenameOrStop(p, q) == [op |-> "renameorstop", at |-> p, to |-> q]
ReadOrStop(p) == [op |-> "readorstop", at |-> p]
Reply(c, v) == [op |-> "reply", char |-> c, v |-> v]
SetNonLadder(a, c) == [op |-> "nonladder", owner |-> a, char |-> c]

\* file_write, and the writing of a new file by d2dbs.
FileWrite(p, v, error) == <<Create(p, v), Close(error)>>
\* A file opened for reading and writing, and what it holds written back.
Rewrite(p) == <<OpenOrStop(p), Overwrite, Close(<<>>)>>

NoHandle == [at |-> <<>>, v |-> Absent]

FilesTypeOK ==
  /\ files \in [Paths -> Contents]
  /\ DOMAIN todo = {"d2cs", "d2dbs"} /\ \A p \in DOMAIN todo : Len(todo[p]) <= 10
  /\ handle \in [{"d2cs", "d2dbs"} -> [at : Paths \cup {<<>>}, v : Contents]]
  /\ ladder \subseteq Owners \X Names
  /\ playing \subseteq Owners \X Names
  /\ version \in [Names -> 0..MaxVersion]
  /\ mishaps \in 0..MaxMishaps
  /\ saved \in [Names -> {Absent} \cup 0..MaxVersion] /\ exposed \subseteq Names

FilesInit ==
  /\ files = [p \in Paths |->
                IF \E o \in OldLadder : p \in {Save(o[2]), Info(o[1], o[2])} THEN 0 ELSE Absent]
  /\ todo = [p \in {"d2cs", "d2dbs"} |-> <<>>]
  /\ handle = [p \in {"d2cs", "d2dbs"} |-> NoHandle] /\ ladder = OldLadder
  /\ playing = {} /\ version = [c \in Names |-> 0] /\ mishaps = 0
  /\ saved = [c \in Names |-> Absent] /\ exposed = {}

-----------------------------------------------------------------------------
\* d2cs.  A handler that starts while the one before is not finished does not
\* exist: each program is one thread.

Starts(p, ops) == /\ todo[p] = <<>> /\ todo' = [todo EXCEPT ![p] = ops]

\* Only the save is looked for, whoever has an info file of that name.
d2char_create(a, c) ==
  /\ files[Save(c)] = Absent
  /\ Starts("d2cs",
       FileWrite(Info(a, c), 0, <<Unlink(Info(a, c))>>)
       \o FileWrite(Save(c), 0, <<Unlink(Info(a, c)), Unlink(Save(c))>>))
  /\ exposed' = IF saved[c] # Absent THEN exposed \cup {c} ELSE exposed
  /\ UNCHANGED <<files, handle, ladder, playing, version, mishaps, saved>>

d2char_convert(a, c) ==
  /\ Starts("d2cs", Rewrite(Info(a, c)) \o Rewrite(Save(c)))
  /\ UNCHANGED <<files, handle, ladder, playing, version, mishaps, saved, exposed>>

\* That the character may be in a game is not looked at here.
d2char_delete(a, c) ==
  /\ Starts("d2cs", <<UnlinkOrStop(Info(a, c)), Unlink(Save(c)), Unlink(InfoBak(a, c)),
                      Unlink(SaveBak(c))>>)
  /\ UNCHANGED <<files, handle, ladder, playing, version, mishaps, saved, exposed>>

\* Loading the info file of a character of a former season resets both files;
\* the info file is truncated first.
d2charinfo_load(a, c) ==
  /\ files[Info(a, c)] >= 0 /\ <<a, c>> \in ladder
  /\ Starts("d2cs", FileWrite(Info(a, c), 0, <<>>) \o <<SetNonLadder(a, c)>> \o Rewrite(Save(c)))
  /\ UNCHANGED <<files, handle, ladder, playing, version, mishaps, saved, exposed>>

-----------------------------------------------------------------------------
\* d2dbs.

\* Loading for a game server.
dbs_packet_getdata(a, c) ==
  /\ todo["d2dbs"] = <<>>
  /\ files[Save(c)] >= 0 /\ files[Info(a, c)] >= 0
  /\ playing' = playing \cup {<<a, c>>}
  /\ UNCHANGED <<files, todo, handle, ladder, version, mishaps, saved, exposed>>

Mut_charsave(c, v) == FileWrite(Save(c), v, <<>>)

\* dbs_packet_savedata_charsave: a new file takes the place of the save, which
\* becomes the former version.
charsave(c, v) ==
  FileWrite(SaveTmp(c), v, <<>>) \o <<Rename(Save(c), SaveBak(c)), RenameOrStop(SaveTmp(c), Save(c))>>

\* dbs_packet_savedata_charinfo.
charinfo(a, c) ==
  FileWrite(InfoTmp(a, c), 0, <<>>)
  \o <<Rename(Info(a, c), InfoBak(a, c)), RenameOrStop(InfoTmp(a, c), Info(a, c))>>

\* With a save of a high level the info file is written, too
\* (dbs_packet_fix_charinfo).
dbs_packet_savedata(a, c) ==
  /\ <<a, c>> \in playing
  /\ \/ /\ version[c] < MaxVersion
        /\ version' = [version EXCEPT ![c] = @ + 1]
        /\ \E fix \in {<<>>, <<ReadOrStop(Info(a, c))>> \o charinfo(a, c)} :
             Starts("d2dbs", charsave(c, version[c] + 1) \o fix \o <<Reply(c, version[c] + 1)>>)
        /\ saved' = [saved EXCEPT ![c] = IF c \in exposed THEN Absent ELSE @]
        /\ exposed' = exposed \ {c}
     \/ Starts("d2dbs", charinfo(a, c)) /\ UNCHANGED <<version, saved, exposed>>
  /\ UNCHANGED <<files, handle, ladder, playing, mishaps>>

GameLeaves(a, c) ==
  /\ <<a, c>> \in playing /\ playing' = playing \ {<<a, c>>}
  /\ UNCHANGED <<files, todo, handle, ladder, version, mishaps, saved, exposed>>

-----------------------------------------------------------------------------
\* The calls one by one.  A handle stays with its file when that is renamed, and
\* with no path at all when the file is removed or replaced.
Moved(h, p, q) ==
  [x \in DOMAIN h |->
     CASE h[x].at = p -> [h[x] EXCEPT !.at = q]
       [] h[x].at = q /\ p # q -> [h[x] EXCEPT !.at = <<>>]
       [] OTHER -> h[x]]

NameOf(p) == p[Len(p)]
IsSave(p) == p # <<>> /\ p[1] \in {"save", "savebak"}
Filled(p, v) == IF p = <<>> THEN files ELSE [files EXCEPT ![p] = v]
Risked(p) == IF IsSave(p) THEN exposed \cup {NameOf(p)} ELSE exposed

OpenFile(p, o) ==
  \/ /\ o.op = "create"
     /\ files' = Filled(o.at, Torn)
     /\ exposed' = IF p = "d2cs" THEN Risked(o.at) ELSE exposed
     /\ handle' = [handle EXCEPT ![p] = [at |-> o.at, v |-> o.v]]
     /\ todo' = [todo EXCEPT ![p] = Tail(@)]
     /\ UNCHANGED <<ladder, saved>>
  \/ /\ o.op = "openorstop"
     /\ handle' = IF files[o.at] = Absent THEN handle
                  ELSE [handle EXCEPT ![p] = [at |-> o.at, v |-> files[o.at]]]
     /\ todo' = [todo EXCEPT ![p] = IF files[o.at] = Absent THEN <<>> ELSE Tail(@)]
     /\ UNCHANGED <<files, ladder, saved, exposed>>

WriteFile(p, o) ==
  /\ \/ /\ o.op = "overwrite"
        /\ files' = Filled(handle[p].at, Torn) /\ UNCHANGED handle
     \/ /\ o.op = "close"
        /\ files' = Filled(handle[p].at, handle[p].v)
        /\ handle' = [handle EXCEPT ![p] = NoHandle]
  /\ todo' = [todo EXCEPT ![p] = Tail(@)]
  /\ UNCHANGED <<ladder, saved, exposed>>

RemoveFile(p, o) ==
  /\ o.op \in {"remove", "removeorstop"}
  /\ files' = Filled(o.at, Absent) /\ exposed' = Risked(o.at)
  /\ handle' = Moved(handle, o.at, <<>>)
  /\ todo' = [todo EXCEPT ![p] = IF o.op = "removeorstop" /\ files[o.at] = Absent THEN <<>>
                                 ELSE Tail(@)]
  /\ UNCHANGED <<ladder, saved>>

RenameFile(p, o) ==
  /\ o.op \in {"rename", "renameorstop"}
  /\ \/ /\ files[o.at] = Absent
        /\ todo' = [todo EXCEPT ![p] = IF o.op = "renameorstop" THEN <<>> ELSE Tail(@)]
        /\ UNCHANGED <<files, handle>>
     \/ /\ files[o.at] # Absent
        /\ files' = [files EXCEPT ![o.to] = files[o.at], ![o.at] = Absent]
        /\ handle' = Moved(handle, o.at, o.to)
        /\ todo' = [todo EXCEPT ![p] = Tail(@)]
  /\ UNCHANGED <<ladder, saved, exposed>>

OtherCall(p, o) ==
  /\ \/ /\ o.op = "readorstop"
        /\ todo' = [todo EXCEPT ![p] = IF files[o.at] = Absent THEN <<>> ELSE Tail(@)]
        /\ UNCHANGED <<ladder, saved>>
     \/ /\ o.op = "reply"
        /\ saved' = [saved EXCEPT ![o.char] = o.v]
        /\ todo' = [todo EXCEPT ![p] = Tail(@)]
        /\ UNCHANGED ladder
     \/ /\ o.op = "nonladder"
        /\ ladder' = ladder \ {<<o.owner, o.char>>}
        /\ todo' = [todo EXCEPT ![p] = Tail(@)]
        /\ UNCHANGED saved
  /\ UNCHANGED <<files, handle, exposed>>

Call(p) ==
  /\ todo[p] # <<>>
  /\ LET o == Head(todo[p])
     IN  \/ OpenFile(p, o) \/ WriteFile(p, o) \/ RemoveFile(p, o) \/ RenameFile(p, o)
         \/ OtherCall(p, o)
  /\ UNCHANGED <<playing, version, mishaps>>

\* A file that is open is left as it is.
Abandon(p) ==
  /\ handle' = [handle EXCEPT ![p] = NoHandle]
  /\ exposed' = IF p = "d2cs" THEN Risked(handle[p].at) ELSE exposed

WriteFails(p) ==
  /\ mishaps < MaxMishaps /\ mishaps' = mishaps + 1
  /\ todo[p] # <<>> /\ Head(todo[p]).op = "close"
  /\ todo' = [todo EXCEPT ![p] = Head(@).error]
  /\ Abandon(p)
  /\ UNCHANGED <<files, ladder, playing, version, saved>>

\* The program ends where it is, and is started again.
Stops(p) ==
  /\ mishaps < MaxMishaps /\ mishaps' = mishaps + 1
  /\ todo[p] # <<>>
  /\ todo' = [todo EXCEPT ![p] = <<>>]
  /\ Abandon(p)
  /\ UNCHANGED <<files, ladder, playing, version, saved>>

FilesNext ==
  \/ \E a \in Owners, c \in Names :
       \/ d2char_create(a, c) \/ d2char_convert(a, c) \/ d2char_delete(a, c)
       \/ d2charinfo_load(a, c)
       \/ dbs_packet_getdata(a, c) \/ dbs_packet_savedata(a, c) \/ GameLeaves(a, c)
  \/ \E p \in {"d2cs", "d2dbs"} : Call(p) \/ WriteFails(p) \/ Stops(p)

FilesSpec == FilesInit /\ [][FilesNext]_filesVars

-----------------------------------------------------------------------------
\* A version that d2dbs has saved, as it tells the game server, is in the save or in the
\* former version, whole, whatever stops or fails and whatever d2cs does at the
\* same time, but for what d2cs does to the save itself: it deletes it, it stops
\* while it rewrites it in place, or it creates the name again when d2dbs is, or has
\* stopped, between its two renames.
SavedIsKept ==
  \A c \in Names \ exposed :
    \/ files[Save(c)] >= saved[c] \/ files[SaveBak(c)] >= saved[c]
    \/ IsSave(handle["d2cs"].at) /\ NameOf(handle["d2cs"].at) = c
=============================================================================
