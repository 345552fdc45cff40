----------------------------- MODULE MCRankLedger -----------------------------
(***************************************************************************)
(* Instances of RankLedger for TLC.                                        *)
(***************************************************************************)
EXTENDS RankLedger

CONSTANTS u1, t1, t2, g1, g2, r1, r2

MCUser == {u1}
MCHome == [g \in Game |-> IF g = g1 THEN t1 ELSE t2]
MCAway == [g \in Game |-> IF g = g1 THEN t2 ELSE t1]
MCYearOf == [g \in Game |-> IF g = g2 /\ 2025 \in Year THEN 2025 ELSE 2024]

\* A later start: every user has one registration for each game, made one after
\* the other, so that two requests suffice to meet on a row.
Seeded ==
  /\ \E pick \in [Game -> Team] :
       /\ \A g \in Game : Plays(g, pick[g])
       /\ reg = [u \in User |-> [g \in Game |->
                   [status |-> DetermineStatus(game[g].status, game[g].winner, pick[g]),
                    id |-> IF g = g1 THEN 1 ELSE 2, team |-> pick[g]]]]
  /\ rank = [u \in User |-> [k \in Team \X Year |->
               [c \in Result |-> Cardinality({g \in Game :
                  <<reg[u][g].team, YearOf[g]>> = k /\ reg[u][g].status = c})]]]
  /\ nextId = 3

SeededInit ==
  /\ game \in [Game -> GameRows]
  /\ Seeded
  /\ AtRest

SeededSpec == SeededInit /\ [][Next]_vars /\ Fairness
=============================================================================
