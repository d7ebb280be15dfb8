---------------------------- MODULE ConsoleProofs ----------------------------
(***************************************************************************)
(* Proofs about Console, for tables of any size, any limits and filters,   *)
(* any changes of the tables and any crashes.                              *)
(***************************************************************************)
EXTENDS Console, FiniteSetTheorems, WellFoundedInduction, TLAPS

USE AccessAssumption, ConsoleAssumption

----------------------------------------------------------------------------
(* The invariant *)

\* Seeding starts with the administrator and is not left before a user is there.
Seeded ==
    /\ users = {} \/ "admin" \in users
    /\ server = "up" => users # {}

Later(S, i) == {k \in S : k > i}

\* The tasks that match and that a listing by created_at DESC puts before i
Before(i) == Cardinality(Later(Matching(listing.filter), i))

\* As long as none of the wanted tasks has ceased to match, what the client has
\* not seen is behind the rows it has received, and behind the page on its way to
\* it; a page without rows leaves nothing behind.
Paged ==
    /\ listing.received = 0 => listing.seen = {}
    /\ ~ left =>
         /\ wanted \subseteq Matching(listing.filter)
         /\ listing.done => wanted \subseteq listing.seen
         /\ \A i \in wanted \ listing.seen : Before(i) >= listing.received
         /\ \A page \in answer :
              /\ page = {} => wanted \subseteq listing.seen
              /\ \A i \in wanted \ (listing.seen \cup page) :
                   Before(i) >= listing.received + Cardinality(page)

ConsoleInv == TypeOK /\ Seeded /\ Paged

----------------------------------------------------------------------------
(* Finite sets of numbers *)

LEMMA LeastNumber ==
    ASSUME NEW T \in SUBSET Nat, T # {}
    PROVE  \E x \in T : \A y \in T : x <= y
<1>1. IsWellFoundedOn({p \in Nat \X Nat : p[1] < p[2]}, Nat)
  BY NatLessThanWellFounded DEF OpToRel
<1>2. PICK x \in T : \A y \in T : ~ (<<y, x>> \in {p \in Nat \X Nat : p[1] < p[2]})
  BY <1>1, WFMin
<1>3. ASSUME NEW y \in T PROVE x <= y
  <2>1. x \in Nat /\ y \in Nat
    OBVIOUS
  <2>2. <<y, x>> \in Nat \X Nat /\ <<y, x>>[1] = y /\ <<y, x>>[2] = x
    BY <2>1
  <2>3. ~ (y < x)
    BY <1>2, <2>2, Zenon
  <2> QED
    BY <2>1, <2>3
<1> QED
  BY <1>3

LEMMA LaterType ==
    ASSUME NEW S \in SUBSET Nat, IsFiniteSet(S), NEW i
    PROVE  /\ Later(S, i) \subseteq S /\ IsFiniteSet(Later(S, i))
           /\ Cardinality(Later(S, i)) \in Nat
<1>1. Later(S, i) \subseteq S
  BY DEF Later
<1>2. IsFiniteSet(Later(S, i))
  BY <1>1, FS_Subset
<1> QED
  BY <1>1, <1>2, FS_CardinalityType

\* More elements put more of them before one.
LEMMA LaterGrows ==
    ASSUME NEW T \in SUBSET Nat, IsFiniteSet(T), NEW S \in SUBSET T, NEW i
    PROVE  Cardinality(Later(S, i)) <= Cardinality(Later(T, i))
<1>1. Later(S, i) \in SUBSET Later(T, i)
  BY DEF Later
<1>2. IsFiniteSet(Later(T, i))
  BY LaterType
<1> QED
  BY <1>1, <1>2, FS_Subset

LEMMA LaterDecreases ==
    ASSUME NEW S \in SUBSET Nat, IsFiniteSet(S), NEW i \in S, NEW j \in S, i < j
    PROVE  Cardinality(Later(S, j)) < Cardinality(Later(S, i))
<1>1. Later(S, j) \in SUBSET Later(S, i) /\ j \in Later(S, i) /\ j \notin Later(S, j)
  <2>1. /\ i \in Nat /\ j \in Nat /\ j > i /\ ~ (j > j)
        /\ \A k \in S : k > j => k > i
    OBVIOUS
  <2>2. \A k : k \in Later(S, j) => k \in Later(S, i)
    BY <2>1 DEF Later
  <2> QED
    BY <2>1, <2>2, Zenon DEF Later
<1>2. IsFiniteSet(Later(S, i)) /\ {Cardinality(Later(S, i)), Cardinality(Later(S, j))} \subseteq Nat
  BY LaterType
<1>3. /\ Cardinality(Later(S, j)) <= Cardinality(Later(S, i))
      /\ Cardinality(Later(S, i)) = Cardinality(Later(S, j)) => Later(S, i) = Later(S, j)
  BY <1>1, <1>2, FS_Subset
<1> QED
  BY <1>1, <1>2, <1>3

\* Places are taken in turn: what is at a place or behind it leaves none empty.
LEMMA PlaceTaken ==
    ASSUME NEW S \in SUBSET Nat, IsFiniteSet(S), NEW o \in Nat,
           NEW i \in S, Cardinality(Later(S, i)) >= o
    PROVE  \E j \in S : Cardinality(Later(S, j)) = o
<1> DEFINE place(j) == Cardinality(Later(S, j))
           behind == {j \in S : place(j) >= o}
           T == {place(j) : j \in behind}
<1>1. \A j : place(j) \in Nat
  BY LaterType
<1>2. PICK c \in T : \A d \in T : c <= d
  <2>1. T \subseteq Nat /\ T # {}
    BY <1>1
  <2> HIDE DEF T
  <2> QED
    BY <2>1, LeastNumber
<1>3. PICK j \in behind : place(j) = c
  BY <1>2
<1>4. SUFFICES ASSUME c > o PROVE FALSE
  BY <1>1, <1>3
<1>5. Later(S, j) # {}
  <2>1. Cardinality(Later(S, j)) # 0
    BY <1>1, <1>3, <1>4
  <2> QED
    BY <2>1, FS_EmptySet
<1>6. PICK k \in Later(S, j) : \A l \in Later(S, j) : k <= l
  BY <1>5, LaterType, LeastNumber
<1>7. Later(S, j) = Later(S, k) \cup {k} /\ k \in S /\ k \notin Later(S, k)
  <2>1. k \in S /\ k > j /\ k \in Nat /\ j \in Nat
    BY <1>6 DEF Later
  <2>2. ASSUME NEW l \in S PROVE l > j <=> l > k \/ l = k
    BY <1>6, <2>1 DEF Later
  <2>3. ~ (k > k)
    BY <2>1
  <2>4. \A l : l \in Later(S, j) <=> l \in Later(S, k) \cup {k}
    BY <2>1, <2>2 DEF Later
  <2> QED
    BY <2>1, <2>3, <2>4, Zenon DEF Later
<1>8. place(j) = place(k) + 1
  <2>1. IsFiniteSet(Later(S, k))
    BY LaterType
  <2> QED
    BY <2>1, <1>7, FS_AddElement
<1>9. place(k) \in T /\ place(k) < c
  <2>1. place(k) >= o /\ place(k) < c
    BY <1>1, <1>3, <1>4, <1>8
  <2> QED
    BY <2>1, <1>7
<1>10. c <= place(k) /\ c \in Nat /\ place(k) \in Nat
  BY <1>1, <1>2, <1>3, <1>9
<1> QED
  BY <1>9, <1>10

\* A page is not longer than its limit.
LEMMA PageBounded ==
    ASSUME NEW S \in SUBSET Nat, IsFiniteSet(S), NEW o \in Nat, NEW l \in Nat \ {0},
           NEW page, page = {i \in S : Cardinality(Later(S, i)) \in o .. o + l - 1}
    PROVE  IsFiniteSet(page) /\ Cardinality(page) \in Nat /\ Cardinality(page) <= l
<1> DEFINE f == [i \in page |-> Cardinality(Later(S, i))]
<1>1. \A i, j \in page : f[i] = f[j] => i = j
  <2>1. SUFFICES ASSUME NEW i \in page, NEW j \in page, f[i] = f[j], i < j PROVE FALSE
    <3>1. page \subseteq Nat
      OBVIOUS
    <3> QED
      BY <3>1
  <2>2. f[j] < f[i]
    BY <2>1, LaterDecreases
  <2>3. f[i] \in Nat
    BY LaterType
  <2> QED
    BY <2>1, <2>2, <2>3
<1>2. f \in Injection(page, o .. o + l - 1)
  BY <1>1 DEF Injection, IsInjective
<1>3. IsFiniteSet(o .. o + l - 1) /\ Cardinality(o .. o + l - 1) = l
  <2>1. o + l - 1 \in Int /\ ~ (o > o + l - 1) /\ (o + l - 1) - o + 1 = l
    OBVIOUS
  <2> QED
    BY <2>1, FS_Interval
<1>4. IsFiniteSet(page) /\ Cardinality(page) <= l
  BY <1>2, <1>3, FS_Injection
<1> QED
  BY <1>4, FS_CardinalityType

----------------------------------------------------------------------------
(* Types *)

LEMMA RowsFinite ==
    ASSUME NEW T, NEW t \in Seq(T), NEW S \in SUBSET DOMAIN t
    PROVE  S \in SUBSET Nat /\ IsFiniteSet(S) /\ Cardinality(S) \in Nat
<1>1. Len(t) \in Nat /\ DOMAIN t = 1 .. Len(t)
  OBVIOUS
<1>2. IsFiniteSet(DOMAIN t)
  BY <1>1, FS_Interval
<1>3. IsFiniteSet(S)
  BY <1>2, FS_Subset
<1> QED
  BY <1>1, <1>3, FS_CardinalityType

LEMMA MatchingType ==
    ASSUME TypeOK, NEW f
    PROVE  /\ Matching(f) \subseteq DOMAIN tasks /\ Matching(f) \in SUBSET Nat
           /\ IsFiniteSet(Matching(f)) /\ Cardinality(Matching(f)) \in Nat
<1>1. Matching(f) \subseteq DOMAIN tasks /\ tasks \in Seq(Statuses \cup Absent)
  BY DEF Matching, TypeOK
<1> QED
  BY <1>1, RowsFinite

LEMMA AnswerType ==
    ASSUME TypeOK, NEW page \in answer
    PROVE  page \subseteq DOMAIN tasks /\ IsFiniteSet(page) /\ Cardinality(page) \in Nat
<1>1. page \subseteq DOMAIN tasks /\ tasks \in Seq(Statuses \cup Absent)
  BY DEF TypeOK
<1> QED
  BY <1>1, RowsFinite

LEMMA ClampedType ==
    ASSUME NEW l \in Int
    PROVE  Clamped(l) \in Nat \ {0}
BY DEF Clamped

\* What changes the table leaves the rows where they are.
LEMMA RowsKept ==
    ASSUME TypeOK, StampTask \/ InsertTask \/ ChangeTask
    PROVE  /\ tasks' \in Seq(Statuses \cup Absent) /\ DOMAIN tasks \subseteq DOMAIN tasks'
           /\ StampTask \/ InsertTask =>
                Matching(listing.filter) \subseteq Matching(listing.filter)'
<1>1. PICK S : S = Statuses \cup Absent
  OBVIOUS
<1>2. /\ tasks \in Seq(S) /\ Len(tasks) \in Nat /\ DOMAIN tasks = 1 .. Len(tasks)
      /\ \A k \in 1 .. Len(tasks) : tasks[k] \in S
      /\ {"new", "deleted", "pending"} \subseteq S
  BY <1>1 DEF TypeOK, Statuses, Absent
<1>3. CASE StampTask
  <2>1. tasks' = Append(tasks, "new") /\ listing' = listing
    BY <1>3 DEF StampTask, listVars
  <2>2. /\ tasks' \in Seq(S) /\ DOMAIN tasks' = 1 .. Len(tasks) + 1
        /\ \A i \in DOMAIN tasks : tasks'[i] = tasks[i]
    BY <1>2, <2>1
  <2>3. DOMAIN tasks \subseteq DOMAIN tasks'
    BY <1>2, <2>2
  <2>4. Matching(listing.filter) \subseteq Matching(listing.filter)'
    BY <2>1, <2>2, <2>3 DEF Matching
  <2> QED
    BY <1>1, <2>2, <2>3, <2>4
<1>4. ASSUME NEW i \in DOMAIN tasks, NEW s \in S, tasks' = [tasks EXCEPT ![i] = s]
      PROVE  tasks' \in Seq(S) /\ DOMAIN tasks' = DOMAIN tasks
  <2>1. tasks' \in [1 .. Len(tasks) -> S]
    BY <1>2, <1>4
  <2> QED
    BY <1>2, <1>4, <2>1
<1>5. CASE InsertTask
  <2>1. PICK i \in DOMAIN tasks : tasks[i] = "new" /\ tasks' = [tasks EXCEPT ![i] = "pending"]
    BY <1>5 DEF InsertTask
  <2>2. tasks' \in Seq(S) /\ DOMAIN tasks' = DOMAIN tasks /\ listing' = listing
    BY <1>2, <1>4, <1>5, <2>1 DEF InsertTask, listVars
  <2>3. listing.filter \in Statuses \cup {AnyStatus}
    BY DEF TypeOK
  <2>4. i \notin Matching(listing.filter)
    BY <2>1, <2>3 DEF Matching, Statuses, Absent, AnyStatus
  <2>5. \A k \in DOMAIN tasks \ {i} : tasks'[k] = tasks[k]
    BY <2>1
  <2>6. Matching(listing.filter) \subseteq Matching(listing.filter)'
    BY <2>2, <2>4, <2>5 DEF Matching
  <2> QED
    BY <1>1, <2>2, <2>6
<1>6. CASE ChangeTask /\ ~ StampTask /\ ~ InsertTask
  <2>1. PICK i \in DOMAIN tasks, s \in Statuses \cup {"deleted"} :
          tasks' = [tasks EXCEPT ![i] = s]
    BY <1>6 DEF ChangeTask
  <2>2. s \in S
    BY <1>1, <2>1 DEF Absent
  <2>3. tasks' \in Seq(S) /\ DOMAIN tasks' = DOMAIN tasks
    BY <1>4, <2>1, <2>2
  <2> QED
    BY <1>1, <1>6, <2>3
<1> QED
  BY <1>3, <1>5, <1>6

LEMMA SeriesType == Len(Series) = 8 /\ \A n \in 1 .. 8 : Series[n] \in Gauges
<1>1. Len(Series) = 8
  BY DEF Series
<1>2. /\ Series[1] = "jobs" /\ Series[2] = "workers" /\ Series[3] = "pending"
      /\ Series[4] = "running" /\ Series[5] = "success" /\ Series[6] = "failed"
      /\ Series[7] = "retrying" /\ Series[8] = "dead_letter"
  BY DEF Series
<1>3. \A n \in 1 .. 8 : n \in {1, 2, 3, 4, 5, 6, 7, 8}
  OBVIOUS
<1> QED
  BY <1>1, <1>2, <1>3 DEF Gauges, Statuses

LEMMA CountType ==
    ASSUME TypeOK, NEW x
    PROVE  Count(x) \in Nat
<1>1. x \in DOMAIN others => others[x] \in Nat
  BY DEF TypeOK
<1> QED
  BY <1>1, MatchingType DEF Count

LEMMA AccessStepTyped ==
    ASSUME AccessTypeOK, Start \/ SeedUser \/ Login \/ TokenExpires \/ Crash
    PROVE  AccessTypeOK'
<1>1. NextSeed \in Accounts
  BY DEF NextSeed, Accounts
<1> QED
  BY <1>1 DEF AccessTypeOK, Start, SeedUser, Login, TokenExpires, Crash

\* The listing after a page, as ReceivePage writes it
Read(l, page) ==
    [l EXCEPT !.received = @ + Cardinality(page), !.seen = @ \cup page, !.done = (page = {})]

LEMMA ReadType ==
    ASSUME TypeOK, NEW page
    PROVE  Read(listing, page) =
             [filter |-> listing.filter, limit |-> listing.limit,
              received |-> listing.received + Cardinality(page), seen |-> listing.seen \cup page,
              done |-> (page = {})]
<1>1. PICK l : l = listing
  OBVIOUS
<1>2. Read(l, page) = [[[l EXCEPT !.received = l.received + Cardinality(page)]
                           EXCEPT !.seen = l.seen \cup page] EXCEPT !.done = (page = {})]
  BY DEF Read
<1>3. l = [filter |-> l.filter, limit |-> l.limit, received |-> l.received, seen |-> l.seen,
           done |-> l.done]
  BY <1>1 DEF TypeOK
<1> QED
  BY <1>1, <1>2, <1>3

LEMMA TypeStart == Init => TypeOK
<1> SUFFICES ASSUME Init PROVE TypeOK
  OBVIOUS
<1>1. AccessTypeOK
  BY DEF Init, AccessInit, AccessTypeOK
<1>2. tasks \in Seq(Statuses \cup Absent) /\ changes \in 0 .. MaxChanges
  BY DEF Init
<1>3. PICK f \in Filters, l \in Limits :
        listing = [filter |-> f, limit |-> l, received |-> 0, seen |-> {}, done |-> FALSE]
  BY DEF Init
<1>4. listing \in [filter : Filters, limit : Limits, received : 0 .. MaxReceived,
                   seen : SUBSET DOMAIN tasks, done : BOOLEAN]
  BY <1>3
<1>5. others \in [{"jobs", "workers"} -> 0 .. 1] /\ gauge \in [Gauges -> Nat]
      /\ swept \in 0 .. Len(Series) - 1
  BY SeriesType DEF Init, Unset
<1>6. answer = {} /\ wanted = {} /\ left = FALSE
  BY DEF Init
<1> QED
  BY <1>1, <1>2, <1>4, <1>5, <1>6 DEF TypeOK

LEMMA TypeStep == TypeOK /\ [Next]_vars => TypeOK'
<1> SUFFICES ASSUME TypeOK, [Next]_vars PROVE TypeOK'
  OBVIOUS
<1> USE DEF accessVars, tableVars, listVars, gaugeVars
<1>1. UNCHANGED accessVars => AccessTypeOK'
  BY DEF TypeOK, AccessTypeOK
<1>2. CASE UNCHANGED vars
  BY <1>1, <1>2 DEF vars, TypeOK
<1>3. CASE AccessStep(Start) \/ AccessStep(SeedUser) \/ AccessStep(Login)
             \/ AccessStep(TokenExpires)
  <2>1. AccessTypeOK'
    BY <1>3, AccessStepTyped DEF AccessStep, TypeOK
  <2> QED
    BY <1>3, <2>1 DEF AccessStep, TypeOK
<1>4. CASE CrashConsole
  <2>1. AccessTypeOK'
    BY <1>4, AccessStepTyped DEF CrashConsole, TypeOK
  <2>2. /\ UNCHANGED <<tasks, others, changes, listing, wanted, left>>
        /\ gauge' = Unset /\ swept' = 0 /\ answer' = {}
    BY <1>4 DEF CrashConsole
  <2> QED
    BY <2>1, <2>2, SeriesType DEF TypeOK, Unset
<1>5. CASE StampTask \/ InsertTask \/ ChangeTask
  <2>1. tasks' \in Seq(Statuses \cup Absent) /\ DOMAIN tasks \subseteq DOMAIN tasks'
    BY <1>5, RowsKept
  <2>2. /\ UNCHANGED <<accessVars, others, listing, answer, wanted, gauge, swept>>
        /\ left' \in BOOLEAN
    BY <1>5 DEF StampTask, InsertTask, ChangeTask, TypeOK
  <2>4. changes' \in 0 .. MaxChanges
    BY <1>5 DEF StampTask, InsertTask, ChangeTask, Changed, TypeOK
  <2>3. listing \in [filter : Filters, limit : Limits, received : 0 .. MaxReceived,
                     seen : SUBSET DOMAIN tasks', done : BOOLEAN]
    BY <2>1 DEF TypeOK
  <2> QED
    BY <2>1, <2>2, <2>3, <2>4, <1>1 DEF TypeOK
<1>6. CASE ChangeOther
  BY <1>6, <1>1 DEF ChangeOther, Changed, TypeOK
<1>7. CASE RequestPage
  <2>1. Page(listing.filter, Clamped(listing.limit), listing.received) \subseteq DOMAIN tasks
        /\ Matching(listing.filter) \subseteq DOMAIN tasks
    BY MatchingType DEF Page
  <2>2. answer' \subseteq SUBSET DOMAIN tasks /\ wanted' \subseteq DOMAIN tasks /\ left' \in BOOLEAN
    <3>1. answer' = {Page(listing.filter, Clamped(listing.limit), listing.received)}
      BY <1>7 DEF RequestPage
    <3>2. /\ wanted' \in {wanted, Matching(listing.filter)} /\ left' \in {left, FALSE}
          /\ wanted \subseteq DOMAIN tasks /\ left \in BOOLEAN
      BY <1>7 DEF RequestPage, TypeOK
    <3> QED
      BY <2>1, <3>1, <3>2
  <2>3. UNCHANGED <<accessVars, tasks, others, changes, listing, gauge, swept>>
    BY <1>7 DEF RequestPage
  <2> QED
    BY <2>2, <2>3, <1>1 DEF TypeOK
<1>8. CASE ReceivePage
  <2>1. PICK page \in answer :
          /\ listing.received + Cardinality(page) <= MaxReceived
          /\ listing' = [listing EXCEPT !.received = @ + Cardinality(page), !.seen = @ \cup page,
                                        !.done = (page = {})]
    BY <1>8 DEF ReceivePage
  <2>2. answer' = {} /\ UNCHANGED <<accessVars, tasks, others, changes, wanted, left, gauge, swept>>
    BY <1>8 DEF ReceivePage
  <2>3. page \subseteq DOMAIN tasks /\ Cardinality(page) \in Nat
    BY AnswerType
  <2>4. listing' \in [filter : Filters, limit : Limits, received : 0 .. MaxReceived,
                      seen : SUBSET DOMAIN tasks, done : BOOLEAN]
    <3>1. listing \in [filter : Filters, limit : Limits, received : 0 .. MaxReceived,
                       seen : SUBSET DOMAIN tasks, done : BOOLEAN]
      BY DEF TypeOK
    <3>2. listing' = Read(listing, page)
      BY <2>1 DEF Read
    <3>3. PICK n \in Nat : n = Cardinality(page)
      BY <2>3
    <3>4. Read(listing, page) =
            [filter |-> listing.filter, limit |-> listing.limit, received |-> listing.received + n,
             seen |-> listing.seen \cup page, done |-> (page = {})]
      BY <3>3, ReadType
    <3>5. listing.received + n \in 0 .. MaxReceived
      BY <3>1, <3>3, <2>1
    <3> QED
      BY <3>1, <3>2, <3>4, <3>5, <2>3
  <2> QED
    BY <2>2, <2>4, <1>1 DEF TypeOK
<1>9. CASE RefreshGauge
  <2>1. swept + 1 \in 1 .. 8 /\ SweptNext \in 0 .. 7
    BY SeriesType DEF TypeOK, SweptNext
  <2>2. Series[swept + 1] \in Gauges /\ Count(Series[swept + 1]) \in Nat
    BY <2>1, SeriesType, CountType
  <2>3. gauge' \in [Gauges -> Nat] /\ swept' \in 0 .. Len(Series) - 1
    BY <1>9, <2>1, <2>2, SeriesType DEF RefreshGauge, TypeOK
  <2>4. UNCHANGED <<accessVars, tasks, others, changes, listing, answer, wanted, left>>
    BY <1>9 DEF RefreshGauge
  <2> QED
    BY <2>3, <2>4, <1>1 DEF TypeOK
<1> QED
  BY <1>2, <1>3, <1>4, <1>5, <1>6, <1>7, <1>8, <1>9 DEF Next

----------------------------------------------------------------------------
(* The steps *)

LEMMA SeededStep == TypeOK /\ Seeded /\ [Next]_vars => Seeded'
<1> SUFFICES ASSUME TypeOK, Seeded, [Next]_vars PROVE Seeded'
  OBVIOUS
<1>1. CASE UNCHANGED <<server, users>>
  BY <1>1 DEF Seeded
<1>2. CASE AccessStep(Start)
  BY <1>2 DEF AccessStep, Start, Seeded
<1>3. CASE AccessStep(SeedUser)
  <2>1. users' = users \cup {NextSeed}
    BY <1>3 DEF AccessStep, SeedUser
  <2> QED
    BY <2>1 DEF Seeded, NextSeed
<1>4. CASE CrashConsole
  BY <1>4 DEF CrashConsole, Crash, Seeded
<1>5. CASE AccessStep(Login) \/ AccessStep(TokenExpires)
  BY <1>1, <1>5 DEF AccessStep, Login, TokenExpires
<1>6. CASE \/ StampTask \/ InsertTask \/ ChangeTask \/ ChangeOther
           \/ RequestPage \/ ReceivePage \/ RefreshGauge
  BY <1>1, <1>6 DEF StampTask, InsertTask, ChangeTask, ChangeOther, RequestPage, ReceivePage,
    RefreshGauge, accessVars
<1> QED
  BY <1>1, <1>2, <1>3, <1>4, <1>5, <1>6 DEF Next, vars, accessVars

\* Whoever leaves the listing alone and lets no wanted task cease to match
\* unnoticed moves nothing that was not seen out of reach.
LEMMA ListingKept ==
    ASSUME TypeOK, TypeOK', Paged, UNCHANGED <<listing, wanted>>, answer' \subseteq answer,
           ~ left' => ~ left /\ Matching(listing.filter) \subseteq Matching(listing.filter)'
    PROVE  Paged'
<1>1. listing.received = 0 => listing.seen = {}
  BY DEF Paged
<1>2. SUFFICES ASSUME ~ left' PROVE
        /\ wanted \subseteq Matching(listing.filter)'
        /\ listing.done => wanted \subseteq listing.seen
        /\ \A i \in wanted \ listing.seen : Before(i)' >= listing.received
        /\ \A page \in answer :
             /\ page = {} => wanted \subseteq listing.seen
             /\ \A i \in wanted \ (listing.seen \cup page) :
                  Before(i)' >= listing.received + Cardinality(page)
  BY <1>1 DEF Paged
<1>3. PICK S, T : S = Matching(listing.filter) /\ T = Matching(listing.filter)'
  OBVIOUS
<1>4. S \subseteq T /\ S \in SUBSET Nat /\ T \in SUBSET Nat /\ IsFiniteSet(S) /\ IsFiniteSet(T)
  <2>1. T \subseteq DOMAIN tasks' /\ tasks' \in Seq(Statuses \cup Absent)
    BY <1>3 DEF TypeOK, Matching
  <2>2. IsFiniteSet(T) /\ T \in SUBSET Nat
    BY <2>1, RowsFinite
  <2> QED
    BY <2>2, <1>2, <1>3, MatchingType
<1>5. \A i : /\ Before(i) = Cardinality(Later(S, i)) /\ Before(i)' = Cardinality(Later(T, i))
             /\ Before(i) \in Nat /\ Before(i)' \in Nat /\ Before(i)' >= Before(i)
  <2>1. \A i : /\ Cardinality(Later(S, i)) \in Nat /\ Cardinality(Later(T, i)) \in Nat
               /\ Cardinality(Later(S, i)) <= Cardinality(Later(T, i))
    BY <1>4, LaterType, LaterGrows
  <2>2. \A i : Before(i) = Cardinality(Later(S, i)) /\ Before(i)' = Cardinality(Later(T, i))
    BY <1>3 DEF Before, Later
  <2> QED
    BY <2>1, <2>2
<1>6. listing.received \in Nat /\ \A page \in answer : Cardinality(page) \in Nat
  BY AnswerType DEF TypeOK
<1>7. /\ wanted \subseteq Matching(listing.filter)
      /\ listing.done => wanted \subseteq listing.seen
      /\ \A i \in wanted \ listing.seen : Before(i) >= listing.received
      /\ \A page \in answer :
           /\ page = {} => wanted \subseteq listing.seen
           /\ \A i \in wanted \ (listing.seen \cup page) :
                Before(i) >= listing.received + Cardinality(page)
  BY <1>2 DEF Paged
<1> QED
  BY <1>2, <1>5, <1>6, <1>7

LEMMA RequestStep == ASSUME TypeOK, Paged, RequestPage PROVE Paged'
<1>1. PICK S : S = Matching(listing.filter)
  OBVIOUS
<1>2. PICK o \in Nat : o = listing.received
  BY DEF TypeOK
<1>3. PICK l \in Nat \ {0} : l = Clamped(listing.limit)
  <2>1. listing.limit \in Int
    BY DEF TypeOK
  <2> QED
    BY <2>1, ClampedType
<1>4. PICK page : page = {i \in S : Cardinality(Later(S, i)) \in o .. o + l - 1}
  OBVIOUS
<1>5. /\ answer' = {page} /\ UNCHANGED <<listing, tasks>> /\ ~ listing.done
      /\ IF o = 0 THEN wanted' = S /\ left' = FALSE ELSE UNCHANGED <<wanted, left>>
  <2>1. page = Page(listing.filter, l, o)
    BY <1>1, <1>4 DEF Page, Later
  <2> QED
    BY <2>1, <1>1, <1>2, <1>3 DEF RequestPage, tableVars
<1>6. /\ S \in SUBSET Nat /\ IsFiniteSet(S)
      /\ \A i : Before(i) = Cardinality(Later(S, i)) /\ Before(i)' = Before(i) /\ Before(i) \in Nat
  <2>1. S \in SUBSET Nat /\ IsFiniteSet(S)
    BY <1>1, MatchingType
  <2>2. \A i : Before(i) = Cardinality(Later(S, i)) /\ Before(i)' = Before(i)
    BY <1>1, <1>5 DEF Before, Matching
  <2> QED
    BY <2>1, <2>2, LaterType
<1>7. Cardinality(page) \in Nat /\ Cardinality(page) <= l
  BY <1>4, <1>6, PageBounded
<1>8. SUFFICES ASSUME ~ left' PROVE
        /\ wanted' \subseteq S
        /\ \A i \in wanted' \ listing.seen : Before(i) >= o
        /\ page = {} => wanted' \subseteq listing.seen
        /\ \A i \in wanted' \ (listing.seen \cup page) : Before(i) >= o + Cardinality(page)
  <2>1. Matching(listing.filter)' = S
    BY <1>1, <1>5 DEF Matching
  <2> QED
    BY <2>1, <1>2, <1>5, <1>6 DEF Paged
<1>9. wanted' \subseteq S /\ \A i \in wanted' \ listing.seen : Before(i) >= o
  <2>1. CASE o = 0
    BY <2>1, <1>5, <1>6
  <2>2. CASE o # 0
    BY <2>2, <1>1, <1>2, <1>5, <1>8 DEF Paged
  <2> QED
    BY <2>1, <2>2
<1>10. page = {} => wanted' \subseteq listing.seen
  <2>1. SUFFICES ASSUME NEW i \in wanted' \ listing.seen PROVE page # {}
    OBVIOUS
  <2>2. PICK j \in S : Cardinality(Later(S, j)) = o
    BY <1>6, <1>9, PlaceTaken
  <2>3. o \in o .. o + l - 1
    OBVIOUS
  <2> QED
    BY <2>2, <2>3, <1>4
<1>11. ASSUME NEW i \in wanted' \ (listing.seen \cup page)
       PROVE  Before(i) >= o + Cardinality(page)
  <2>1. i \in S /\ Before(i) >= o /\ Before(i) \notin o .. o + l - 1
    BY <1>4, <1>6, <1>9
  <2> QED
    BY <2>1, <1>6, <1>7
<1> QED
  BY <1>9, <1>10, <1>11

LEMMA ReceiveStep == ASSUME TypeOK, Paged, ReceivePage PROVE Paged'
<1>1. PICK page \in answer :
        listing' = [listing EXCEPT !.received = @ + Cardinality(page), !.seen = @ \cup page,
                                   !.done = (page = {})]
  BY DEF ReceivePage
<1>2. answer' = {} /\ UNCHANGED <<tasks, wanted, left>>
  BY DEF ReceivePage, tableVars
<1>3. IsFiniteSet(page) /\ Cardinality(page) \in Nat
  BY AnswerType
<1>4. PICK n \in Nat : n = Cardinality(page)
  BY <1>3
<1>5. listing' = [filter |-> listing.filter, limit |-> listing.limit,
                  received |-> listing.received + n, seen |-> listing.seen \cup page,
                  done |-> (page = {})]
  <2>1. listing' = Read(listing, page)
    BY <1>1 DEF Read
  <2> QED
    BY <2>1, <1>4, ReadType
<1>6. listing.received \in Nat /\ (listing.received = 0 => listing.seen = {})
  BY DEF TypeOK, Paged
<1>7. listing'.received = 0 => listing'.seen = {}
  <2>1. ASSUME listing.received + n = 0 PROVE listing.seen \cup page = {}
    <3>1. listing.received = 0 /\ Cardinality(page) = 0
      BY <2>1, <1>4, <1>6
    <3> QED
      BY <3>1, <1>3, <1>6, FS_EmptySet
  <2> QED
    BY <2>1, <1>5
<1>8. \A i : Before(i)' = Before(i)
  BY <1>2, <1>5 DEF Before, Matching
<1>9. Matching(listing.filter)' = Matching(listing.filter)
  BY <1>2, <1>5 DEF Matching
<1>10. ASSUME ~ left
       PROVE  /\ wanted \subseteq Matching(listing.filter)
              /\ page = {} => wanted \subseteq listing.seen
              /\ \A i \in wanted \ (listing.seen \cup page) : Before(i) >= listing.received + n
  BY <1>4, <1>10 DEF Paged
<1> QED
  BY <1>2, <1>5, <1>7, <1>8, <1>9, <1>10 DEF Paged

LEMMA PagedStep == TypeOK /\ TypeOK' /\ Paged /\ [Next]_vars => Paged'
<1> SUFFICES ASSUME TypeOK, TypeOK', Paged, [Next]_vars PROVE Paged'
  OBVIOUS
<1>1. CASE RequestPage
  BY <1>1, RequestStep
<1>2. CASE ReceivePage
  BY <1>2, ReceiveStep
<1>3. CASE StampTask \/ InsertTask
  BY <1>3, RowsKept, ListingKept DEF StampTask, InsertTask, listVars
<1>4. CASE ChangeTask
  BY <1>4, ListingKept DEF ChangeTask
<1>5. CASE UNCHANGED <<tasks, listing, wanted, left>> /\ answer' \subseteq answer
  <2>1. Matching(listing.filter)' = Matching(listing.filter)
    BY <1>5 DEF Matching
  <2> QED
    BY <2>1, <1>5, ListingKept
<1>6. CASE CrashConsole
  BY <1>5, <1>6 DEF CrashConsole, tableVars
<1>7. CASE \/ AccessStep(Start) \/ AccessStep(SeedUser) \/ AccessStep(Login)
           \/ AccessStep(TokenExpires) \/ ChangeOther \/ RefreshGauge \/ UNCHANGED vars
  BY <1>5, <1>7 DEF AccessStep, ChangeOther, RefreshGauge, vars, tableVars, listVars
<1> QED
  BY <1>1, <1>2, <1>3, <1>4, <1>6, <1>7 DEF Next

LEMMA ConsoleReachable == Spec => []ConsoleInv
<1>1. Init => ConsoleInv
  <2> SUFFICES ASSUME Init PROVE ConsoleInv
    OBVIOUS
  <2>1. server = "down" /\ users = {}
    BY DEF Init, AccessInit
  <2>2. wanted = {} /\ answer = {} /\ listing.seen = {}
    BY DEF Init
  <2> QED
    BY <2>1, <2>2, TypeStart DEF ConsoleInv, Seeded, Paged
<1>2. ConsoleInv /\ [Next]_vars => ConsoleInv'
  BY TypeStep, SeededStep, PagedStep DEF ConsoleInv
<1> QED
  BY <1>1, <1>2, PTL DEF Spec

----------------------------------------------------------------------------
(* Theorems *)

\* Accounts, tables, listings and gauges keep their shapes, and a page holds rows
\* that the tasks table has.
THEOREM ConsoleTyped == Spec => []TypeOK
<1>1. ConsoleInv => TypeOK
  BY DEF ConsoleInv
<1> QED
  BY <1>1, ConsoleReachable, PTL

\* seedUsers leaves a listening scheduler with its administrator, however often
\* and wherever crashes cut it short.
THEOREM AdministratorKnown == Spec => []AdminCanLogIn
<1>1. ConsoleInv => AdminCanLogIn
  BY DEF ConsoleInv, Seeded, AdminCanLogIn
<1> QED
  BY <1>1, ConsoleReachable, PTL

\* A listing by LIMIT and OFFSET over created_at DESC misses no task that matched
\* all the time (ListingComplete), for tables of any size, any limits and filters,
\* whatever dispatches, leases, late reports, reruns, reapers and deletions write
\* meanwhile, and for any crashes.
THEOREM ListingMissesNothing == Spec => []ListingComplete
<1>1. ConsoleInv => ListingComplete
  BY DEF ConsoleInv, Paged, ListingComplete
<1> QED
  BY <1>1, ConsoleReachable, PTL
=============================================================================
