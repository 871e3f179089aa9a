---------------------------- MODULE MCMongoMutex ----------------------------
(* MongoMutex for model checking: one instance's clock is ahead of the rest. *)
EXTENDS MongoMutex

CONSTANTS Ahead         \* the instances whose clock runs MaxSkew ahead

MCSkew == [m \in Mutexes |-> IF m \in Ahead THEN MaxSkew ELSE 0]

\* Late writes without identities, and identities without late writes.
MCSettings == {[identities |-> {}, sameInstant |-> FALSE, maxLate |-> 1],
               [identities |-> Identities, sameInstant |-> FALSE, maxLate |-> 0]}
\* Leases that may expire in the same millisecond.
MCInstantSettings == {[identities |-> {}, sameInstant |-> TRUE, maxLate |-> 0]}
=============================================================================
