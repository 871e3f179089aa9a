--------------------------- MODULE MCMongoElection ---------------------------
(* MongoElection for model checking: two nodes, one with a clock ahead.     *)
EXTENDS MongoElection

CONSTANTS Ahead,          \* the nodes whose clock runs MaxSkew ahead
          Second,         \* the nodes with the second node key
          k1, k2, d1, d2

MCSkew == [n \in Nodes |-> IF n \in Ahead THEN MaxSkew ELSE 0]
OwnKeys == [n \in Nodes |-> IF n \in Second THEN k2 ELSE k1]

Contest(faults, overlap, maxLate) ==
  [members |-> Nodes, key |-> OwnKeys, domain |-> [n \in Nodes |-> d1], keepHeartbeat |-> FALSE,
   veto |-> FALSE, faults |-> faults, overlap |-> overlap, maxLate |-> maxLate]
Alone(faults, overlap, maxLate) ==
  [members |-> Second, key |-> OwnKeys, domain |-> [n \in Nodes |-> d1], keepHeartbeat |-> TRUE,
   veto |-> faults, faults |-> faults, overlap |-> overlap, maxLate |-> maxLate]

\* Two nodes under all failures, and without them but with lives that overlap
\* (of which at most the deletion is late); one node with its heartbeat, alone
\* with either and with neither.
MCSettings == {Contest(TRUE, FALSE, 1), Contest(FALSE, TRUE, 1),
               Alone(FALSE, FALSE, 0), Alone(TRUE, FALSE, 1), Alone(FALSE, TRUE, 5)}
\* One node with its heartbeat, whose writes fail and may be late.
MCLateSettings == {Alone(TRUE, FALSE, 1)}
\* Two nodes of different domains with the same node key, without failures.
MCTwinSettings ==
  {[members |-> Nodes, key |-> [n \in Nodes |-> k1],
    domain |-> [n \in Nodes |-> IF n \in Second THEN d2 ELSE d1], keepHeartbeat |-> TRUE,
    veto |-> FALSE, faults |-> FALSE, overlap |-> FALSE, maxLate |-> 0]}
=============================================================================
