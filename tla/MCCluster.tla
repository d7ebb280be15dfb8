----------------------------- MODULE MCCluster -----------------------------
(* Constants for checking Cluster on small instances. *)
EXTENDS ClusterProperties, TLC

CONSTANTS w1, w2, job

MCWorkers == {w1, w2}
MCOneWorker == {w1}
MCJobs == {job}
MCJobOf == [t \in Tasks |-> job]
MCMortal == {w1}
MCImmortal == {}

Symmetric == Permutations(MCWorkers)
=============================================================================
