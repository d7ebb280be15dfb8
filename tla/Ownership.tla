----------------------------- MODULE Ownership -----------------------------
(***************************************************************************)
(* What a lease on a task promises: it is granted to one worker at a time, *)
(* only when nobody holds it, and passes to another worker only through    *)
(* being free.  Any number of leases may end at once.                      *)
(***************************************************************************)
CONSTANTS Things, Owners, Nobody

VARIABLE owner

Init == owner = [x \in Things |-> Nobody]

Acquire(x, o) == owner[x] = Nobody /\ owner' = [owner EXCEPT ![x] = o]

Release(S) == owner' = [x \in Things |-> IF x \in S THEN Nobody ELSE owner[x]]

Next ==
    \/ \E x \in Things, o \in Owners : Acquire(x, o)
    \/ \E S \in SUBSET Things : Release(S)

Spec == Init /\ [][Next]_owner
=============================================================================
