----------------------------- MODULE MCD2csGame -----------------------------
EXTENDS D2csGame, TLC

MCChar == [u \in Clients |-> CASE u = "u1" -> "c1" [] u = "u2" -> "c2" [] u = "u3" -> "c3"]

\* Connections and names are only compared.
Symmetry == Permutations(Conns) \cup Permutations(Names)

\* The run on one game server covers two regions of the state space: two living
\* players and two names, with joins and all packets, and three players, one of
\* them dead, who want a game of their own on a server of one game, which may be
\* dropped from the list and added again.
NamesInUse == {games[i].name : i \in DOMAIN games} \cup {gq[i].name : i \in 1..Len(gq)}
TwoPlayers == \A u \in Clients : Mentioned(u) => Char[u] \notin Dead
Playing == TwoPlayers /\ last.d2gs = 1 /\ Cardinality(NamesInUse) <= 2
Waiting ==
  /\ \A g \in DOMAIN gs : gs[g].maxgame <= 1
  /\ \A i \in DOMAIN games : games[i].chars = {}
  /\ \A k \in DOMAIN conns :
       /\ Len(conns[k].in) <= 1
       /\ \A i \in 1..Len(conns[k].in) : conns[k].in[i].op = "info" => conns[k].in[i].maxgame = 1
       /\ \A i \in 1..Len(conns[k].out) : conns[k].out[i].op = "create"
  /\ \A a \in Ips : \A i \in DOMAIN srv[a].games : srv[a].games[i].coming = {}
MCRegions == Playing \/ Waiting
=============================================================================
