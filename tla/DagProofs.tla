----------------------------- MODULE DagProofs -----------------------------
(***************************************************************************)
(* Proofs about Dag, for any finite graph.                                 *)
(***************************************************************************)
EXTENDS Dag, FiniteSetTheorems, SequenceTheorems, WellFoundedInduction, TLAPS

USE DagAssumption

----------------------------------------------------------------------------
(* The invariant *)

Elements(s) == {s[i] : i \in 1 .. Len(s)}

Distinct(s) == \A i, k \in 1 .. Len(s) : s[i] = s[k] => i = k

Degrees ==
    \A j \in Jobs :
      /\ inDegree[j] = Cardinality(Mentions(deps, j, Ids \ InResult))
      /\ inDegree[j] = 0 <=> j \in InQueue \cup InResult

Listed == Distinct(queue) /\ Distinct(result) /\ InQueue \cap InResult = {}

Ordered ==
    \A i \in 1 .. Len(result) : Needs(result[i]) \subseteq {result[k] : k \in 1 .. i - 1}

Verdict ==
    pc # "sorting" =>
      queue = <<>> /\ (pc = "sorted" <=> Len(result) = Cardinality(Jobs))

DagInv == TypeOK /\ Degrees /\ Listed /\ Ordered /\ Verdict

----------------------------------------------------------------------------
(* Numbers of mentions *)

LEMMA MentionsNumber ==
    ASSUME NEW d, NEW j, NEW S \in SUBSET Ids
    PROVE  IsFiniteSet(Mentions(d, j, S)) /\ Cardinality(Mentions(d, j, S)) \in Nat
<1>1. IsFiniteSet(Ids) /\ IsFiniteSet(1 .. MaxRepeat)
  <2>1. IsFiniteSet(1 .. MaxRepeat)
    BY FS_Interval
  <2>2. IsFiniteSet(Ids)
    BY FS_Union DEF Ids
  <2> QED
    BY <2>1, <2>2
<1>2. IsFiniteSet(S)
  BY <1>1, FS_Subset
<1>3. IsFiniteSet(S \X (1 .. MaxRepeat))
  BY <1>1, <1>2, FS_Product
<1>4. Mentions(d, j, S) \in SUBSET (S \X (1 .. MaxRepeat))
  BY DEF Mentions
<1>5. IsFiniteSet(Mentions(d, j, S))
  BY <1>3, <1>4, FS_Subset
<1> QED
  BY <1>5, FS_CardinalityType

LEMMA MentionsFinite ==
    ASSUME TypeOK, NEW j \in Jobs, NEW S \in SUBSET Ids
    PROVE  /\ IsFiniteSet(Mentions(deps, j, S)) /\ Cardinality(Mentions(deps, j, S)) \in Nat
           /\ Cardinality(Mentions(deps, j, S)) = 0 <=> \A x \in S : deps[j][x] = 0
<1>5. IsFiniteSet(Mentions(deps, j, S))
  BY MentionsNumber
<1>6. Mentions(deps, j, S) = {} <=> \A x \in S : deps[j][x] = 0
  <2>1. ASSUME NEW x \in S, deps[j][x] # 0 PROVE <<x, 1>> \in Mentions(deps, j, S)
    BY <2>1 DEF Mentions, TypeOK
  <2>2. ASSUME NEW m \in Mentions(deps, j, S) PROVE m[1] \in S /\ deps[j][m[1]] # 0
    BY <2>2 DEF Mentions, TypeOK
  <2> QED
    BY <2>1, <2>2
<1> QED
  BY <1>5, <1>6, FS_CardinalityType, FS_EmptySet

\* Without one id there are as many mentions fewer as there were of it.
LEMMA MentionsWithout ==
    ASSUME TypeOK, NEW j \in Jobs, NEW S \in SUBSET Ids, NEW x \in S
    PROVE  Cardinality(Mentions(deps, j, S \ {x})) = Cardinality(Mentions(deps, j, S)) - deps[j][x]
<1> DEFINE A == Mentions(deps, j, S \ {x})
           B == {<<x, n>> : n \in 1 .. deps[j][x]}
           f == [n \in 1 .. deps[j][x] |-> <<x, n>>]
<1>1. deps[j][x] \in Nat /\ deps[j][x] <= MaxRepeat
  BY DEF TypeOK
<1>2. IsFiniteSet(B) /\ Cardinality(B) = deps[j][x]
  <2>1. f \in Bijection(1 .. deps[j][x], B)
    BY DEF Bijection, Injection, Surjection, IsInjective
  <2>2. ExistsBijection(1 .. deps[j][x], B)
    BY <2>1 DEF ExistsBijection
  <2>3. IsFiniteSet(1 .. deps[j][x]) /\ Cardinality(1 .. deps[j][x]) = deps[j][x]
    <3>1. PICK d \in Nat : d = deps[j][x]
      BY <1>1
    <3>2. IsFiniteSet(1 .. d) /\ Cardinality(1 .. d) = d
      BY FS_Interval
    <3> QED
      BY <3>1, <3>2
  <2> QED
    BY <2>2, <2>3, FS_Bijection
<1>3. Mentions(deps, j, S) = A \cup B
  <2>1. ASSUME NEW m \in Mentions(deps, j, S) PROVE m \in A \cup B
    BY <1>1, <2>1 DEF Mentions
  <2>2. A \subseteq Mentions(deps, j, S) /\ B \subseteq Mentions(deps, j, S)
    BY <1>1 DEF Mentions
  <2> QED
    BY <2>1, <2>2
<1>4. A \cap B = {}
  BY DEF Mentions
<1>5. IsFiniteSet(A) /\ Cardinality(A) \in Nat
  BY MentionsFinite
<1> HIDE DEF A, B
<1>6. Cardinality(A \cup B) = Cardinality(A) + Cardinality(B) - Cardinality(A \cap B)
  BY <1>2, <1>5, FS_Union
<1>7. Cardinality(A \cap B) = 0
  BY <1>4, FS_EmptySet
<1> QED
  BY <1>1, <1>2, <1>3, <1>5, <1>6, <1>7 DEF A

----------------------------------------------------------------------------
(* Sequences without repetitions *)

LEMMA DistinctLength ==
    ASSUME NEW T, NEW s \in Seq(T), Distinct(s)
    PROVE  /\ IsFiniteSet(Elements(s))
           /\ Cardinality(Elements(s)) = Len(s)
<1> DEFINE R == {s[i] : i \in 1 .. Len(s)}
           f == [i \in 1 .. Len(s) |-> s[i]]
<1>1. f \in Bijection(1 .. Len(s), R)
  BY DEF Bijection, Injection, Surjection, IsInjective, Distinct
<1>2. ExistsBijection(1 .. Len(s), R)
  BY <1>1 DEF ExistsBijection
<1>3. IsFiniteSet(1 .. Len(s)) /\ Cardinality(1 .. Len(s)) = Len(s)
  <2>1. Len(s) \in Nat
    OBVIOUS
  <2> QED
    BY <2>1, FS_Interval
<1> QED
  BY <1>2, <1>3, FS_Bijection DEF Elements

LEMMA OrdersType ==
    ASSUME NEW S, IsFiniteSet(S), NEW s \in Orders(S)
    PROVE  s \in Seq(S) /\ Distinct(s) /\ Elements(s) = S
<1>1. PICK n \in Nat : n = Cardinality(S)
  BY FS_CardinalityType
<1>2. s \in [1 .. n -> S] /\ \A i, k \in 1 .. n : s[i] = s[k] => i = k
  BY <1>1 DEF Orders
<1>3. s \in Seq(S) /\ Len(s) = n
  BY <1>2
<1>4. s \in Injection(1 .. n, S)
  BY <1>2 DEF Injection, IsInjective
<1>5. Cardinality(1 .. n) = n
  BY FS_Interval
<1>6. s \in Surjection(1 .. n, S)
  BY <1>1, <1>4, <1>5, FS_Injection
<1> QED
  BY <1>2, <1>3, <1>6 DEF Surjection, Distinct, Elements

\* What it takes from a queue is its first element, what it puts there its last.
LEMMA QueueMoves ==
    ASSUME NEW T, NEW q \in Seq(T), q # <<>>, Distinct(q),
           NEW s \in Seq(T), Distinct(s),
           Elements(q) \cap Elements(s) = {}
    PROVE  /\ Tail(q) \o s \in Seq(T) /\ Distinct(Tail(q) \o s) /\ Head(q) \in Elements(q)
           /\ Elements(Tail(q) \o s) = (Elements(q) \ {Head(q)}) \cup Elements(s)
<1>0. PICK r : r = Tail(q) \o s
  OBVIOUS
<1>1. PICK n \in Nat : Len(q) = n + 1 /\ Len(Tail(q)) = n
  <2>1. Len(q) \in Nat /\ Len(q) # 0
    BY EmptySeq
  <2>2. Len(Tail(q)) = Len(q) - 1
    BY HeadTailProperties
  <2>3. Len(q) - 1 \in Nat /\ Len(q) = (Len(q) - 1) + 1
    BY <2>1
  <2> QED
    BY <2>2, <2>3
<1>2. Head(q) = q[1] /\ Tail(q) \in Seq(T) /\ \A i \in 1 .. n : Tail(q)[i] = q[i + 1]
  BY <1>1, HeadTailProperties
<1>3. PICK m \in Nat : Len(s) = m
  OBVIOUS
<1>4. /\ r \in Seq(T) /\ Len(r) = n + m
      /\ \A i \in 1 .. n : r[i] = q[i + 1]
      /\ \A i \in 1 .. m : r[i + n] = s[i]
  <2>1. PICK t \in Seq(T) : t = Tail(q) /\ Len(t) = n
    BY <1>1, <1>2
  <2>2. /\ r \in Seq(T) /\ Len(r) = Len(t) + Len(s)
        /\ \A i \in 1 .. Len(t) + Len(s) : r[i] = IF i <= Len(t) THEN t[i] ELSE s[i - Len(t)]
    BY <1>0, <2>1, ConcatProperties
  <2>3. ASSUME NEW i \in 1 .. n PROVE r[i] = q[i + 1]
    <3>1. i \in 1 .. n + m /\ i <= n
      BY <1>3
    <3> QED
      BY <3>1, <2>1, <2>2, <1>2, <1>3
  <2>4. ASSUME NEW i \in 1 .. m PROVE r[i + n] = s[i]
    <3>1. i + n \in 1 .. n + m /\ ~ (i + n <= n) /\ (i + n) - n = i
      BY <1>3
    <3> QED
      BY <3>1, <2>1, <2>2, <1>3
  <2> QED
    BY <2>1, <2>2, <2>3, <2>4, <1>3
<1>5. Distinct(r)
  <2>1. SUFFICES ASSUME NEW i \in 1 .. n + m, NEW k \in 1 .. n + m, r[i] = r[k], i < k
                 PROVE  FALSE
    <3>1. \A i, k \in 1 .. n + m : i = k \/ i < k \/ k < i
      OBVIOUS
    <3> QED
      BY <3>1, <1>4 DEF Distinct
  <2>2. CASE k <= n
    <3>1. i \in 1 .. n /\ k \in 1 .. n /\ i + 1 \in 1 .. Len(q) /\ k + 1 \in 1 .. Len(q)
          /\ i + 1 # k + 1
      BY <2>1, <2>2, <1>1
    <3> QED
      BY <3>1, <2>1, <1>4 DEF Distinct
  <2>3. CASE i > n
    <3>1. /\ i - n \in 1 .. m /\ k - n \in 1 .. m /\ i - n # k - n
          /\ (i - n) + n = i /\ (k - n) + n = k
      BY <2>1, <2>3
    <3>2. s[i - n] = s[k - n]
      BY <3>1, <2>1, <1>4
    <3> QED
      BY <3>1, <3>2, <1>3 DEF Distinct
  <2>4. CASE i <= n /\ k > n
    <3>1. /\ i \in 1 .. n /\ k - n \in 1 .. m /\ (k - n) + n = k
          /\ i + 1 \in 1 .. Len(q) /\ k - n \in 1 .. Len(s)
      BY <2>1, <2>4, <1>1, <1>3
    <3>2. q[i + 1] = s[k - n]
      BY <3>1, <2>1, <1>4
    <3> QED
      BY <3>1, <3>2 DEF Elements
  <2> QED
    BY <2>1, <2>2, <2>3, <2>4
<1>6. 1 \in 1 .. Len(q)
  BY <1>1
<1>7. ASSUME NEW x \in Elements(r)
      PROVE  x \in (Elements(q) \ {Head(q)}) \cup Elements(s)
  <2>1. PICK i \in 1 .. n + m : x = r[i]
    BY <1>4, <1>7 DEF Elements
  <2>2. CASE i <= n
    <3>1. i \in 1 .. n /\ i + 1 \in 1 .. Len(q) /\ i + 1 # 1
      BY <2>1, <2>2, <1>1
    <3>2. x = q[i + 1] /\ q[i + 1] # q[1]
      BY <2>1, <3>1, <1>4, <1>6 DEF Distinct
    <3> QED
      BY <3>1, <3>2, <1>2 DEF Elements
  <2>3. CASE i > n
    <3>1. i - n \in 1 .. m /\ i - n \in 1 .. Len(s) /\ (i - n) + n = i
      BY <2>1, <2>3, <1>3
    <3>2. x = s[i - n]
      BY <2>1, <3>1, <1>4
    <3> QED
      BY <3>1, <3>2 DEF Elements
  <2> QED
    BY <2>2, <2>3
<1>8. ASSUME NEW x \in Elements(q) \ {Head(q)}
      PROVE  x \in Elements(r)
  <2>1. PICK i \in 1 .. n + 1 : x = q[i] /\ i # 1
    BY <1>1, <1>2, <1>8 DEF Elements
  <2>2. i - 1 \in 1 .. n /\ i - 1 \in 1 .. n + m /\ (i - 1) + 1 = i
    BY <2>1
  <2>3. x = r[i - 1]
    BY <2>1, <2>2, <1>4
  <2> QED
    BY <2>2, <2>3, <1>4 DEF Elements
<1>9. ASSUME NEW x \in Elements(s)
      PROVE  x \in Elements(r)
  <2>1. PICK i \in 1 .. m : x = s[i]
    BY <1>3, <1>9 DEF Elements
  <2>2. i + n \in 1 .. n + m
    BY <2>1
  <2>3. x = r[i + n]
    BY <2>1, <2>2, <1>4
  <2> QED
    BY <2>2, <2>3, <1>4 DEF Elements
<1> QED
  <2>1. Head(q) \in Elements(q)
    BY <1>2, <1>6 DEF Elements
  <2>2. Elements(r) = (Elements(q) \ {Head(q)}) \cup Elements(s)
    BY <1>7, <1>8, <1>9
  <2> QED
    BY <1>0, <1>4, <1>5, <2>1, <2>2

\* The same at the end of the result
LEMMA ResultGrows ==
    ASSUME NEW T, NEW s \in Seq(T), Distinct(s), NEW x \in T, x \notin Elements(s)
    PROVE  /\ Append(s, x) \in Seq(T) /\ Distinct(Append(s, x))
           /\ Len(Append(s, x)) = Len(s) + 1 /\ Append(s, x)[Len(s) + 1] = x
           /\ \A i \in 1 .. Len(s) : Append(s, x)[i] = s[i]
           /\ Elements(Append(s, x)) = Elements(s) \cup {x}
<1>0. PICK r : r = Append(s, x)
  OBVIOUS
<1>1. PICK n \in Nat : n = Len(s)
  OBVIOUS
<1>2. r \in Seq(T) /\ Len(r) = n + 1 /\ r[n + 1] = x /\ \A i \in 1 .. n : r[i] = s[i]
  BY <1>0, <1>1, AppendProperties
<1>3. \A i \in 1 .. n + 1 : i \in 1 .. n \/ i = n + 1
  OBVIOUS
<1>4. Distinct(r)
  BY <1>1, <1>2, <1>3 DEF Distinct, Elements
<1>5. \A i \in 1 .. n : i \in 1 .. n + 1
  OBVIOUS
<1>6. n + 1 \in 1 .. n + 1
  OBVIOUS
<1>7. {r[i] : i \in 1 .. n + 1} = {s[i] : i \in 1 .. n} \cup {x}
  BY <1>2, <1>3, <1>5, <1>6
<1> QED
  BY <1>0, <1>1, <1>2, <1>4, <1>7 DEF Elements

----------------------------------------------------------------------------
(* The steps *)

LEMMA DagStart == Init => DagInv
<1> SUFFICES ASSUME Init PROVE DagInv
  OBVIOUS
<1>1. result = <<>> /\ pc = "sorting" /\ InResult = {}
  BY DEF Init, InResult
<1>2. deps \in [Jobs -> [Ids -> 0 .. MaxRepeat]] /\ inDegree = [j \in Jobs |-> InitialDegree(deps, j)]
  BY DEF Init
<1>3. PICK S : S = {j \in Jobs : inDegree[j] = 0}
  OBVIOUS
<1>4. S \subseteq Jobs /\ queue \in Seq(S) /\ Distinct(queue) /\ InQueue = S
  <2>1. S \subseteq Jobs /\ IsFiniteSet(S)
    BY <1>3, FS_Subset
  <2>2. queue \in Orders(S)
    BY <1>3 DEF Init
  <2> QED
    BY <2>1, <2>2, OrdersType DEF InQueue, Elements
<1>5. queue \in Seq(Jobs)
  BY <1>4
<1>6. \A j \in Jobs : inDegree[j] = Cardinality(Mentions(deps, j, Ids))
  BY <1>2 DEF InitialDegree
<1>7. inDegree \in [Jobs -> Nat]
  <2>1. ASSUME NEW j \in Jobs PROVE Cardinality(Mentions(deps, j, Ids)) \in Nat
    BY <1>2, MentionsNumber
  <2> QED
    BY <2>1, <1>2 DEF InitialDegree
<1>8. TypeOK
  BY <1>1, <1>2, <1>5, <1>7 DEF TypeOK
<1>9. Degrees
  BY <1>1, <1>3, <1>4, <1>6 DEF Degrees
<1>10. Listed /\ Ordered /\ Verdict
  BY <1>1, <1>4 DEF Listed, Ordered, Verdict, Distinct
<1> QED
  BY <1>8, <1>9, <1>10 DEF DagInv

LEMMA VisitStep == DagInv /\ Visit => DagInv'
<1> SUFFICES ASSUME DagInv, Visit PROVE DagInv'
  OBVIOUS
<1> USE DEF DagInv
<1>1. PICK node : node = Head(queue)
  OBVIOUS
<1>2. PICK s \in Orders(Freed(node)) : queue' = Tail(queue) \o s
  BY <1>1 DEF Visit
<1>3. /\ pc = "sorting" /\ queue # <<>> /\ UNCHANGED <<deps, pc>>
      /\ result' = Append(result, node) /\ inDegree' = Lowered(node)
  BY <1>1 DEF Visit
<1>4. node \in InQueue /\ node \in Jobs /\ node \notin InResult /\ node \in Ids \ InResult
  <2>1. queue \in Seq(Jobs)
    BY DEF TypeOK
  <2>2. node \in Jobs /\ node = queue[1] /\ 1 \in 1 .. Len(queue)
    BY <2>1, <1>1, <1>3, HeadTailProperties
  <2> QED
    BY <2>2 DEF InQueue, Listed, Ids
<1>5. Freed(node) \subseteq Jobs /\ Freed(node) \cap (InQueue \cup InResult) = {}
  <2>1. ASSUME NEW c \in Freed(node) PROVE inDegree[c] # 0
    <3>1. c \in Jobs /\ deps[c][node] # 0
      BY <2>1, <1>4 DEF Freed, TypeOK, Ids
    <3> QED
      BY <3>1, <1>4, MentionsFinite DEF Degrees
  <2> QED
    BY <2>1 DEF Freed, Degrees
<1>6. s \in Seq(Freed(node)) /\ Distinct(s) /\ Elements(s) = Freed(node)
  <2>1. IsFiniteSet(Freed(node))
    BY <1>5, FS_Subset
  <2> QED
    BY <2>1, <1>2, OrdersType
<1>7. queue' \in Seq(Jobs) /\ Distinct(queue)' /\ InQueue' = (InQueue \ {node}) \cup Freed(node)
  <2>1. PICK q \in Seq(Jobs) : q = queue
    BY DEF TypeOK
  <2>2. PICK t \in Seq(Jobs) :
        /\ t = s /\ Distinct(q) /\ q # <<>> /\ Distinct(t)
        /\ Elements(q) \cap Elements(t) = {} /\ Elements(q) = InQueue /\ Elements(t) = Freed(node)
    BY <2>1, <1>3, <1>5, <1>6 DEF Listed, InQueue, Elements
  <2>3. /\ Tail(q) \o t \in Seq(Jobs) /\ Distinct(Tail(q) \o t)
        /\ Elements(Tail(q) \o t) = (Elements(q) \ {Head(q)}) \cup Elements(t)
    BY <2>2, QueueMoves
  <2>4. PICK r : r = Tail(q) \o t
    OBVIOUS
  <2>5. queue' = r
    BY <2>1, <2>2, <2>4, <1>2
  <2>6. Distinct(queue)' <=> Distinct(r)
    BY <2>5 DEF Distinct
  <2>7. InQueue' = Elements(r)
    BY <2>5 DEF InQueue, Elements
  <2> QED
    BY <2>1, <2>2, <2>3, <2>4, <2>5, <2>6, <2>7, <1>1
<1>8. /\ result' \in Seq(Jobs) /\ Distinct(result)' /\ InResult' = InResult \cup {node}
      /\ Len(result') = Len(result) + 1 /\ result'[Len(result) + 1] = node
      /\ \A i \in 1 .. Len(result) : result'[i] = result[i]
  <2>1. PICK u \in Seq(Jobs) : u = result
    BY DEF TypeOK
  <2>2. PICK x \in Jobs : x = node /\ Distinct(u) /\ x \notin Elements(u)
    BY <2>1, <1>4 DEF Listed, InResult, Elements
  <2>3. /\ Append(u, x) \in Seq(Jobs) /\ Distinct(Append(u, x))
        /\ Len(Append(u, x)) = Len(u) + 1 /\ Append(u, x)[Len(u) + 1] = x
        /\ \A i \in 1 .. Len(u) : Append(u, x)[i] = u[i]
        /\ Elements(Append(u, x)) = Elements(u) \cup {x}
    BY <2>2, ResultGrows
  <2>4. PICK r : r = Append(u, x)
    OBVIOUS
  <2>5. result' = r
    BY <2>1, <2>2, <2>4, <1>3
  <2>6. Distinct(result)' <=> Distinct(r)
    BY <2>5 DEF Distinct
  <2> QED
    BY <2>1, <2>2, <2>3, <2>4, <2>5, <2>6 DEF InResult, Elements
<1>9. \A j \in Jobs :
        /\ deps[j][node] \in Nat /\ inDegree[j] \in Nat
        /\ inDegree'[j] = inDegree[j] - deps[j][node]
        /\ inDegree'[j] = Cardinality(Mentions(deps, j, Ids \ InResult'))
        /\ inDegree'[j] \in Nat
  <2>1. SUFFICES ASSUME NEW j \in Jobs PROVE
          /\ deps[j][node] \in Nat /\ inDegree[j] \in Nat
          /\ inDegree'[j] = inDegree[j] - deps[j][node]
          /\ inDegree'[j] = Cardinality(Mentions(deps, j, Ids \ InResult'))
          /\ inDegree'[j] \in Nat
    OBVIOUS
  <2>2. deps[j][node] \in Nat /\ inDegree[j] \in Nat /\ inDegree'[j] = inDegree[j] - deps[j][node]
    BY <1>3, <1>4 DEF TypeOK, Lowered, Ids
  <2>3. (Ids \ InResult) \ {node} = Ids \ InResult'
    BY <1>8
  <2>4. Cardinality(Mentions(deps, j, (Ids \ InResult) \ {node})) = inDegree[j] - deps[j][node]
    BY <1>4, MentionsWithout DEF Degrees
  <2>5. Cardinality(Mentions(deps, j, Ids \ InResult')) \in Nat
    BY MentionsFinite
  <2> QED
    BY <2>2, <2>3, <2>4, <2>5
<1>10. TypeOK'
  <2>1. inDegree' \in [Jobs -> Nat]
    BY <1>3, <1>9 DEF Lowered
  <2> QED
    BY <2>1, <1>3, <1>7, <1>8 DEF TypeOK
<1>11. Degrees'
  <2>1. ASSUME NEW j \in Jobs PROVE inDegree'[j] = 0 <=> j \in InQueue' \cup InResult'
    <3>1. InQueue' \cup InResult' = InQueue \cup InResult \cup Freed(node)
      BY <1>4, <1>7, <1>8
    <3>2. j \in Freed(node) <=> deps[j][node] > 0 /\ inDegree'[j] = 0
      BY <1>3 DEF Freed
    <3>3. inDegree[j] = 0 <=> j \in InQueue \cup InResult
      BY DEF Degrees
    <3> QED
      BY <3>1, <3>2, <3>3, <1>9
  <2> QED
    BY <2>1, <1>3, <1>9 DEF Degrees
<1>12. Listed'
  BY <1>4, <1>5, <1>7, <1>8 DEF Listed
<1>13. Ordered'
  <2>1. \A j : Needs(j)' = Needs(j)
    BY <1>3 DEF Needs
  <2>2. PICK n \in Nat : n = Len(result) /\ Len(result') = n + 1
    BY <1>8 DEF TypeOK
  <2>3. SUFFICES ASSUME NEW i \in 1 .. n + 1
                 PROVE  Needs(result'[i]) \subseteq {result'[k] : k \in 1 .. i - 1}
    BY <2>1, <2>2 DEF Ordered
  <2>4. {result'[k] : k \in 1 .. i - 1} = {result[k] : k \in 1 .. i - 1}
    BY <2>2, <2>3, <1>8
  <2>5. CASE i \in 1 .. n
    BY <2>2, <2>4, <2>5, <1>8 DEF Ordered
  <2>6. CASE i = n + 1
    <3>1. result'[i] = node /\ {result[k] : k \in 1 .. i - 1} = InResult
      BY <2>2, <2>6, <1>8 DEF InResult
    <3>2. inDegree[node] = 0
      BY <1>4 DEF Degrees
    <3>3. \A x \in Ids \ InResult : deps[node][x] = 0
      BY <3>2, <1>4, MentionsFinite DEF Degrees
    <3>4. Needs(node) \subseteq InResult
      <4>1. \A x \in Needs(node) : x \in Ids /\ deps[node][x] # 0
        BY <1>4 DEF Needs, TypeOK
      <4> QED
        BY <4>1, <3>3
    <3> QED
      BY <3>1, <3>4, <2>4
  <2> QED
    BY <2>3, <2>5, <2>6
<1>14. Verdict'
  BY <1>3 DEF Verdict
<1> QED
  BY <1>10, <1>11, <1>12, <1>13, <1>14

LEMMA DagStep == DagInv /\ [Next]_vars => DagInv'
<1> SUFFICES ASSUME DagInv, [Next]_vars PROVE DagInv'
  OBVIOUS
<1>1. ASSUME UNCHANGED <<deps, inDegree, queue, result>>, pc' = pc \/ Finish
      PROVE  DagInv'
  <2>1. TypeOK'
    BY <1>1 DEF DagInv, TypeOK, Finish
  <2>4. (Degrees /\ Ordered)'
    BY <1>1 DEF DagInv, Degrees, InQueue, InResult, Ordered, Needs
  <2>2. Listed'
    BY <1>1 DEF DagInv, Listed, Distinct, InQueue, InResult
  <2>3. Verdict'
    BY <1>1 DEF DagInv, Verdict, Finish
  <2> QED
    BY <2>1, <2>2, <2>3, <2>4 DEF DagInv
<1>2. CASE Finish \/ UNCHANGED vars
  BY <1>1, <1>2 DEF Finish, vars
<1>3. CASE Visit
  BY <1>3, VisitStep
<1> QED
  BY <1>2, <1>3 DEF Next, Stopped

LEMMA DagReachable == Spec => []DagInv
BY DagStart, DagStep, PTL DEF Spec

----------------------------------------------------------------------------
(* What the invariant says of the sort *)

\* Of the jobs in a set, one comes first in a result that has them all.
LEMMA FirstListed ==
    ASSUME DagInv, NEW S \in SUBSET InResult, S # {}
    PROVE  \E i \in 1 .. Len(result) :
             result[i] \in S /\ \A k \in 1 .. i - 1 : result[k] \notin S
<1> DEFINE P == {i \in 1 .. Len(result) : result[i] \in S}
<1>1. P \subseteq Nat /\ P # {}
  <2>1. PICK j \in S : j \in InResult
    OBVIOUS
  <2> QED
    BY <2>1 DEF InResult
<1>2. IsWellFoundedOn({p \in Nat \X Nat : p[1] < p[2]}, Nat)
  BY NatLessThanWellFounded DEF OpToRel
<1> HIDE DEF P
<1>3. PICK i \in P : \A k \in P : ~ (<<k, i>> \in {p \in Nat \X Nat : p[1] < p[2]})
  BY <1>1, <1>2, WFMin
<1>4. i \in 1 .. Len(result) /\ result[i] \in S /\ Len(result) \in Nat
  BY <1>3 DEF P, DagInv, TypeOK
<1>5. ASSUME NEW k \in 1 .. i - 1, result[k] \in S PROVE FALSE
  <2>1. k \in P /\ k \in Nat /\ i \in Nat /\ k < i
    BY <1>4, <1>5 DEF P
  <2>2. <<k, i>> \in Nat \X Nat /\ <<k, i>>[1] < <<k, i>>[2]
    BY <2>1
  <2> QED
    BY <2>1, <2>2, <1>3, Zenon
<1> QED
  BY <1>4, <1>5

\* What is left without a degree of 0 is stuck.
LEMMA RestStuck ==
    ASSUME DagInv, queue = <<>>, InResult # Jobs
    PROVE  Stuck(Jobs \ InResult)
<1>1. InResult \subseteq Jobs /\ InQueue = {}
  BY DEF DagInv, TypeOK, InResult, InQueue
<1>2. Jobs \ InResult # {}
  BY <1>1
<1>3. ASSUME NEW j \in Jobs \ InResult
      PROVE  Needs(j) \cap ((Jobs \ InResult) \cup Unknown) # {}
  <2>1. Cardinality(Mentions(deps, j, Ids \ InResult)) # 0
    BY <1>1, <1>3 DEF DagInv, Degrees
  <2>2. PICK x \in Ids \ InResult : deps[j][x] # 0
    BY <2>1, <1>3, MentionsFinite DEF DagInv
  <2>3. deps[j][x] > 0
    BY <2>2, <1>3 DEF DagInv, TypeOK
  <2> QED
    BY <2>2, <2>3 DEF Needs, Ids
<1> QED
  BY <1>2, <1>3 DEF Stuck

\* Nothing that is in the result is stuck.
LEMMA ListedRun ==
    ASSUME DagInv, NEW S \in SUBSET InResult
    PROVE  ~ Stuck(S)
<1>1. SUFFICES ASSUME Stuck(S) PROVE FALSE
  OBVIOUS
<1>2. PICK i \in 1 .. Len(result) : result[i] \in S /\ \A k \in 1 .. i - 1 : result[k] \notin S
  BY <1>1, FirstListed DEF Stuck
<1>3. PICK x \in Needs(result[i]) : x \in S \cup Unknown
  BY <1>1, <1>2 DEF Stuck
<1>4. PICK k \in 1 .. i - 1 : x = result[k]
  BY <1>2, <1>3 DEF DagInv, Ordered
<1>5. result[k] \in Jobs
  <2>1. k \in 1 .. Len(result) /\ result \in Seq(Jobs)
    BY <1>2, <1>4 DEF DagInv, TypeOK
  <2> QED
    BY <2>1
<1> QED
  BY <1>2, <1>3, <1>4, <1>5

----------------------------------------------------------------------------
(* Theorems *)

\* The graph, the degrees and the lists of TopologicalSort keep their shapes; no
\* degree falls below 0.
THEOREM DagTyped == Spec => []TypeOK
<1>1. DagInv => TypeOK
  BY DEF DagInv
<1> QED
  BY <1>1, DagReachable, PTL

\* The sort of any finite graph lists each job once, after what it depends on.
THEOREM SortOrders == Spec => []ResultOrdered
<1>1. DagInv => ResultOrdered
  <2>1. SUFFICES ASSUME DagInv, NEW i \in 1 .. Len(result), NEW k \in 1 .. i - 1
                 PROVE  result[k] # result[i]
    BY DEF DagInv, Ordered, ResultOrdered
  <2>2. k \in 1 .. Len(result) /\ k # i
    BY <2>1 DEF DagInv, TypeOK
  <2> QED
    BY <2>1, <2>2 DEF DagInv, Listed, Distinct
<1> QED
  BY <1>1, DagReachable, PTL

\* inDegree is exact for names that are repeated any number of times, and comes
\* to 0 once.
THEOREM DegreesCount == Spec => []DegreeExact
<1>1. DagInv => DegreeExact
  <2>1. SUFFICES ASSUME DagInv
                 PROVE  Cardinality(InQueue \cup InResult) = Len(queue) + Len(result)
    BY DEF DagInv, Degrees, DegreeExact
  <2>2. PICK q \in Seq(Jobs), r \in Seq(Jobs) : q = queue /\ r = result
    BY <2>1 DEF DagInv, TypeOK
  <2>3. Distinct(q) /\ Distinct(r) /\ Elements(q) = InQueue /\ Elements(r) = InResult
        /\ Elements(q) \cap Elements(r) = {}
    BY <2>1, <2>2 DEF DagInv, Listed, InQueue, InResult, Elements
  <2>4. /\ IsFiniteSet(Elements(q)) /\ Cardinality(Elements(q)) = Len(q)
        /\ IsFiniteSet(Elements(r)) /\ Cardinality(Elements(r)) = Len(r)
    BY <2>3, DistinctLength
  <2>5. Cardinality(Elements(q) \cup Elements(r)) =
          Cardinality(Elements(q)) + Cardinality(Elements(r)) - Cardinality(Elements(q) \cap Elements(r))
    BY <2>4, FS_Union
  <2>6. Cardinality(Elements(q) \cap Elements(r)) = 0
    BY <2>3, FS_EmptySet
  <2>7. Cardinality(Elements(q) \cup Elements(r)) = Len(q) + Len(r)
    BY <2>4, <2>5, <2>6
  <2> QED
    BY <2>2, <2>3, <2>7
<1> QED
  BY <1>1, DagReachable, PTL

\* TopologicalSort succeeds exactly on the graphs, of any size, in which no jobs
\* wait for each other or for an id that is no job.
THEOREM SortDecidesCycles == Spec => []SortDecides
<1>1. DagInv => SortDecides
  <2>1. SUFFICES ASSUME DagInv, pc # "sorting"
                 PROVE  pc = "sorted" <=> \A S \in SUBSET Jobs : ~ Stuck(S)
    BY DEF SortDecides
  <2>2. queue = <<>> /\ (pc = "sorted" <=> Len(result) = Cardinality(Jobs))
    BY <2>1 DEF DagInv, Verdict
  <2>3. Len(result) = Cardinality(Jobs) <=> InResult = Jobs
    <3>1. PICK r \in Seq(Jobs) : r = result
      BY <2>1 DEF DagInv, TypeOK
    <3>2. Distinct(r) /\ Elements(r) = InResult /\ InResult \in SUBSET Jobs
      BY <2>1, <3>1 DEF DagInv, Listed, InResult, Elements
    <3>3. Cardinality(Elements(r)) = Len(r)
      BY <3>2, DistinctLength
    <3> QED
      BY <3>1, <3>2, <3>3, FS_Subset
  <2>4. CASE InResult = Jobs
    BY <2>1, <2>2, <2>3, <2>4, ListedRun
  <2>5. CASE InResult # Jobs
    <3>1. Stuck(Jobs \ InResult)
      BY <2>1, <2>2, <2>5, RestStuck
    <3> QED
      BY <3>1, <2>2, <2>3, <2>5
  <2> QED
    BY <2>4, <2>5
<1> QED
  BY <1>1, DagReachable, PTL
=============================================================================
