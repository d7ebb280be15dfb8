-------------------------------- MODULE Dag --------------------------------
(***************************************************************************)
(* internal/dag/dag.go: the dependency graph of the jobs and its           *)
(* topological sort (Kahn's algorithm).  Nothing in the repository calls   *)
(* it yet: the API stores dependencies unchecked.                          *)
(*                                                                         *)
(* deps[j] is the dependencies list of job j, as how often it names each   *)
(* id; it may name an id that is no job.  The slice edges[d] holds j that  *)
(* many times, and `range inDegree` starts the queue in any order.         *)
(***************************************************************************)
EXTENDS Integers, Sequences, FiniteSets

CONSTANTS
    Jobs,      \* ids of the jobs added to the graph
    Unknown,   \* ids that only dependencies mention
    MaxRepeat  \* bound: how often a list names the same id

ASSUME DagAssumption ==
    /\ IsFiniteSet(Jobs) /\ IsFiniteSet(Unknown)
    /\ Jobs \cap Unknown = {} /\ MaxRepeat \in Nat

VARIABLES deps, inDegree, queue, result, pc

vars == <<deps, inDegree, queue, result, pc>>

Ids == Jobs \cup Unknown

\* Mutant of InitialDegree: an id that the list names twice counts once.
DistinctDegree(d, j) == Cardinality({x \in Ids : d[j][x] > 0})

\* The places of j in edges, as far as these are edges of S
Mentions(d, j, S) == {m \in S \X (1 .. MaxRepeat) : m[2] <= d[j][m[1]]}

InitialDegree(d, j) == Cardinality(Mentions(d, j, Ids))

InQueue == {queue[i] : i \in 1 .. Len(queue)}
InResult == {result[i] : i \in 1 .. Len(result)}

TypeOK ==
    /\ deps \in [Jobs -> [Ids -> 0 .. MaxRepeat]]
    /\ inDegree \in [Jobs -> Nat]
    /\ queue \in Seq(Jobs) /\ result \in Seq(Jobs)
    /\ pc \in {"sorting", "sorted", "error"}

Orders(S) == {s \in [1 .. Cardinality(S) -> S] : \A i, k \in DOMAIN s : s[i] = s[k] => i = k}

Init ==
    /\ deps \in [Jobs -> [Ids -> 0 .. MaxRepeat]]
    /\ inDegree = [j \in Jobs |-> InitialDegree(deps, j)]
    /\ queue \in Orders({j \in Jobs : inDegree[j] = 0})
    /\ result = <<>> /\ pc = "sorting"

\* Mutant of Lowered: every child loses a degree for every job that is visited.
LoweredAll(node) == [c \in Jobs |-> inDegree[c] - 1]

\* inDegree[child]-- for every occurrence of child in edges[node]
Lowered(node) == [c \in Jobs |-> inDegree[c] - deps[c][node]]

\* Mutants of Freed: off by one, or blind to a degree that falls by more than one.
FreedEarly(node) == {c \in Jobs : deps[c][node] > 0 /\ Lowered(node)[c] <= 1}
FreedBySingle(node) == {c \in Jobs : deps[c][node] = 1 /\ Lowered(node)[c] = 0}

\* The children whose degree comes to 0 while edges[node] is traversed
Freed(node) == {c \in Jobs : deps[c][node] > 0 /\ Lowered(node)[c] = 0}

Visit ==
    /\ pc = "sorting" /\ queue # <<>>
    /\ LET node == Head(queue) IN
         /\ result' = Append(result, node)
         /\ inDegree' = Lowered(node)
         /\ \E s \in Orders(Freed(node)) : queue' = Tail(queue) \o s
    /\ UNCHANGED <<deps, pc>>

Finish ==
    /\ pc = "sorting" /\ queue = <<>>
    /\ pc' = IF Len(result) = Cardinality(Jobs) THEN "sorted" ELSE "error"
    /\ UNCHANGED <<deps, inDegree, queue, result>>

Stopped == pc # "sorting" /\ UNCHANGED vars

Next == Visit \/ Finish \/ Stopped

Spec == Init /\ [][Next]_vars

----------------------------------------------------------------------------
(* Reference definitions on the graph *)

Needs(j) == {d \in Ids : deps[j][d] > 0}

\* None of the jobs in S can be the first of them to run: each needs one of them,
\* or an id that never runs.
Stuck(S) == S # {} /\ \A j \in S : Needs(j) \cap (S \cup Unknown) # {}

----------------------------------------------------------------------------
(* Properties *)

\* The result lists each job once, after everything it depends on.
ResultOrdered ==
    \A i \in 1 .. Len(result) :
      /\ \A k \in 1 .. i - 1 : result[k] # result[i]
      /\ Needs(result[i]) \subseteq {result[k] : k \in 1 .. i - 1}

\* The degree of a job counts the dependencies not yet in the result, and the
\* jobs without any are those queued or listed, never twice.
DegreeExact ==
    /\ \A j \in Jobs :
         /\ inDegree[j] = Cardinality(Mentions(deps, j, Ids \ InResult))
         /\ inDegree[j] = 0 <=> j \in InQueue \cup InResult
    /\ Cardinality(InQueue \cup InResult) = Len(queue) + Len(result)

\* The sort succeeds exactly if no jobs are stuck.  "cycle detected in DAG" so
\* also says that a job needs an id that is no job.
SortDecides == pc # "sorting" => (pc = "sorted" <=> \A S \in SUBSET Jobs : ~ Stuck(S))
=============================================================================
