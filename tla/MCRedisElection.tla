--------------------------- MODULE MCRedisElection ---------------------------
(* RedisElection for model checking: the nodes are interchangeable, and the *)
(* heartbeat, which does not depend on other nodes, is checked on one node. *)
EXTENDS RedisElection, TLC

Symmetry == Permutations(Nodes)

Contest(veto, faults, overlap, maxLate) ==
  [members |-> Nodes, keepHeartbeat |-> FALSE, veto |-> veto, faults |-> faults,
   overlap |-> overlap, maxLate |-> maxLate]
Alone(n, faults, overlap, maxLate) ==
  [members |-> {n}, keepHeartbeat |-> TRUE, veto |-> FALSE, faults |-> faults,
   overlap |-> overlap, maxLate |-> maxLate]

\* Safety: two nodes under all failures, and without them but with lives that
\* overlap; one node with its heartbeat, with and without either.
MCSettings == {Contest(TRUE, TRUE, FALSE, 1), Contest(FALSE, FALSE, TRUE, 3)}
                \cup {Alone(n, FALSE, FALSE, 0) : n \in Nodes}
                \cup {Alone(n, TRUE, TRUE, 5) : n \in Nodes}
\* Liveness: two nodes without failures, one node with all of them.
MCLiveSettings == {Contest(FALSE, FALSE, FALSE, 0)}
                    \cup {Alone(CHOOSE n \in Nodes : TRUE, TRUE, FALSE, 1)}
\* Two nodes whose operations fail, and nothing else.
MCFaultySettings == {Contest(FALSE, TRUE, FALSE, 0)}
=============================================================================
