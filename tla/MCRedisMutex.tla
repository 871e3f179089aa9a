---------------------------- MODULE MCRedisMutex ----------------------------
(* RedisMutex for model checking: tokens and instances are interchangeable. *)
EXTENDS RedisMutex, TLC

Symmetry == Permutations(Mutexes) \cup Permutations(Tokens)
=============================================================================
