------------------------------ MODULE LeaseLock ------------------------------
(***************************************************************************)
(* What a distributed mutex of dkit promises about ONE resource key,       *)
(* whatever the backend: the lease is granted only while it is free, it    *)
(* ends by the passage of time or because its own owner asked for it to be *)
(* released, and it is never handed directly from one owner to another.    *)
(*                                                                         *)
(* An owner is a logical holder: the unique token of one acquisition, or a *)
(* reentrant identity shared by several mutex instances.                   *)
(***************************************************************************)
EXTENDS Integers

CONSTANTS Owners,       \* logical holders of the lock
          NoOwner,      \* the lease is free
          Durations     \* the lease durations an owner may ask for

VARIABLES lease,        \* the lease: its owner and the time it has left
          asked         \* the owners that asked for a release

vars == <<lease, asked>>

Free == [value |-> NoOwner, ttl |-> 0]

Init == /\ lease = Free
        /\ asked = {}

\* The lease is given to an owner; only a free lease can be.
Grant(o) == /\ lease = Free
            /\ \E d \in Durations : lease' = [value |-> o, ttl |-> d]
            /\ asked' \in {asked, asked \ {o}}

\* One unit of time passes; a lease whose time is over is free again.
Pass == /\ lease # Free
        /\ lease' = IF lease.ttl > 1 THEN [lease EXCEPT !.ttl = @ - 1] ELSE Free
        /\ UNCHANGED asked

\* The owner of the lease asked for its release and the lease ends.
Release(o) == /\ o \in asked
              /\ lease.value = o
              /\ lease' = Free
              /\ asked' \in {asked, asked \ {o}}

\* A request to release is made, or a made request is over.
Ask(o) == /\ asked' \in {asked \cup {o}, asked \ {o}}
          /\ UNCHANGED lease

Next == \/ Pass
        \/ \E o \in Owners : Grant(o) \/ Release(o) \/ Ask(o)

Spec == Init /\ [][Next]_vars
=============================================================================
