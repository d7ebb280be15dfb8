-------------------------------- MODULE Ids --------------------------------
(***************************************************************************)
(* The identifiers that the scheduler's database and the workers share.    *)
(***************************************************************************)
EXTENDS Integers, FiniteSets

CONSTANTS
    NumTasks,  \* how many tasks are created in the behaviour
    Workers,   \* worker ids
    NoWorker   \* the empty string in a worker-id column

\* Tasks are numbered in the order of their created_at column.
Tasks == 1 .. NumTasks

WorkerRef == Workers \cup {NoWorker}

ASSUME IdAssumption == NumTasks \in Nat /\ NoWorker \notin Workers
=============================================================================
