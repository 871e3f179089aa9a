-------------------------------- MODULE MCKit --------------------------------
(***************************************************************************)
(* Numbers and helpers share nothing but the clock: states in which both   *)
(* have begun are not explored (Apart).                                    *)
(***************************************************************************)
EXTENDS Kit

Apart == (\A p \in Procs : help[p].calls = 0) \/ (\A p \in Procs : kit[p] = NoKit(1))
==============================================================================
