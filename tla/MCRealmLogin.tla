---------------------------- MODULE MCRealmLogin ----------------------------
EXTENDS RealmLogin

MCFirstOwner == [c \in Characters |-> IF c = "c1" THEN "a1" ELSE None]
\* The hash of c1's name happens to be the session number of the second connection.
MCCharHash == [c \in Characters |-> 2]

\* Three regions of the state space: the two programs with their failures and
\* nobody logged in; one player whose first request meets a failure; and, once
\* the programs are connected and nothing fails, two players of two accounts who
\* share the one session number that bnetd has.
NoPlayers ==
  /\ sessions = [s \in 1..Slots |-> NoSession]
  /\ \A k \in 1..MaxClient : clients[k] = NoClient
OnePlayer ==
  /\ faults <= 1 /\ last.client <= 1 /\ last.seqno <= 1 /\ dconn < MaxLink
  /\ \A s \in 1..Slots : sessions[s].user # "a2"
  /\ granted = {} /\ ingame = {}
Players == faults = 0 /\ \E l \in 1..MaxLink : links[l].d = "authed"
MCRegions == NoPlayers \/ OnePlayer \/ Players
=============================================================================
