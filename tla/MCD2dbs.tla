------------------------------ MODULE MCD2dbs -------------------------------
EXTENDS D2dbs, FiniteSetsExt, TLC

\* Connection structures are interchangeable, and so are the valid addresses.
MCSymmetry == Permutations(Conns) \cup Permutations(D2gsList)

\* The safety run covers two regions of the state space: three connections
\* without timers, portraits and lock requests, and two connections from allowed
\* addresses with all of these, but no more than two packets (or echo requests to
\* answer) on the way.  Servers that hang only ever do less; the liveness run has
\* them.
MCQuiet == \A k \in Live :
  /\ conns[k].idle = 0
  /\ ~Occurs(EchoRequest, conns[k].WriteBuf)
  /\ \A i \in 1..Len(conns[k].ReadBuf) : conns[k].ReadBuf[i].op \notin {"lock", "portrait"}
Packets(k) == Len(conns[k].ReadBuf) + Len(conns[k].WriteBuf) + IF owes[k] THEN 1 ELSE 0
MCTwo == /\ Cardinality(Live) <= 2 /\ DOMAIN preset \subseteq D2gsList
         /\ MapThenSumSet(Packets, Live) <= 2
MCRegions == (\A k \in Conns : ~hung[k]) /\ (MCQuiet \/ MCTwo)
=============================================================================
