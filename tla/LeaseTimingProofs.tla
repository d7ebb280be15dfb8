------------------------- MODULE LeaseTimingProofs -------------------------
(***************************************************************************)
(* Proofs about LeaseTiming, for any number of slots, any period, latency  *)
(* and number of failed renewals, and any lease longer than Gap.           *)
(***************************************************************************)
EXTENDS LeaseTiming, FiniteSetTheorems, TLAPS

\* n requests one after the other, n times between two rounds: the proofs use
\* what Sending and Cycling say of them, never the products.
Sends(n) == n * Latency
Cycles(n) == n * Cycle

\* Requests of this round that come after the one in flight
Waiting == Cardinality(round) + ended

\* How long the round, and how long the wait for the next, can last from now
Rest == IF sending THEN (Latency - elapsed) + Sends(Waiting) ELSE 0
NextStart == IF fired THEN Rest ELSE Larger(ticker, Rest)

\* How many more renewals of a slot may fail
Chances(s) == MaxLost - lost[s]

\* How long the answer to a poll can take from now
AnswerIn(s) == Latency - (TTL - lease[s])

\* When, at the latest, a slot that executes or is about to is renewed
RenewedIn(s) ==
    IF s \in target \cup round
    THEN IF Chances(s) = 0 THEN Rest ELSE NextStart + Cycles(Chances(s) - 1) + Round
    ELSE NextStart + Cycles(Chances(s)) + Round

RegisteredLater(s) ==
    Larger(NextStart, AnswerIn(s) + Larger(Period, Sends(Capacity - 1)))
      + Cycles(MaxLost) + Round

InTime ==
    /\ \A s \in Executing : lease[s] > RenewedIn(s)
    /\ \A s \in Answering : lease[s] > RegisteredLater(s)

Shape ==
    /\ target \cup round \subseteq Executing /\ target \cap round = {}
    /\ \A s, t \in target : s = t
    /\ sending => Waiting + 1 <= Capacity
    /\ ~ sending => target = {} /\ round = {} /\ ended = 0
    /\ \A s, t \in Answering : s = t
    /\ \A s \in Slots : slot[s] # "executing" => lost[s] = 0
    /\ \A s \in Answering : AnswerIn(s) >= 0

IInv == TypeOK /\ Shape /\ InTime

----------------------------------------------------------------------------
(* Durations *)

LEMMA Sizes ==
    /\ Capacity \in Nat \ {0} /\ Period \in Nat \ {0} /\ Latency \in Nat
    /\ MaxLost \in Nat /\ TTL \in Nat
<1>1. Cardinality(Slots) \in Nat /\ Cardinality(Slots) # 0
    BY TimingAssumption, FS_CardinalityType, FS_EmptySet
<1> QED BY <1>1, TimingAssumption DEF Capacity

LEMMA Step ==
    ASSUME NEW a \in Int, NEW c \in Int
    PROVE  (a + 1) * c = a * c + c
OBVIOUS

LEMMA Monotone ==
    ASSUME NEW a \in Nat, NEW b \in Nat, NEW c \in Nat, a <= b
    PROVE  a * c <= b * c
OBVIOUS

LEMMA Product ==
    ASSUME NEW a \in Nat, NEW c \in Nat
    PROVE  a * c \in Nat
OBVIOUS

LEMMA Sending ==
    /\ \A n \in Nat : Sends(n) \in Nat
    /\ \A n \in Nat : Sends(n + 1) = Sends(n) + Latency
    /\ \A m, n \in Nat : m <= n => Sends(m) <= Sends(n)
    /\ Sends(0) = 0
    /\ Sends(Capacity) = Round
<1>1. Latency \in Nat BY Sizes
<1>2. \A n \in Nat : Sends(n) \in Nat BY <1>1, Product DEF Sends
<1>3. \A n \in Nat : Sends(n + 1) = Sends(n) + Latency
    <2> TAKE n \in Nat
    <2> QED BY <1>1, Step DEF Sends
<1>4. \A m, n \in Nat : m <= n => Sends(m) <= Sends(n)
    BY <1>1, Monotone DEF Sends
<1>5. Sends(0) = 0 BY <1>1 DEF Sends
<1>6. Sends(Capacity) = Round BY DEF Sends, Round
<1> QED BY <1>2, <1>3, <1>4, <1>5, <1>6

LEMMA Cycling ==
    /\ Round \in Nat /\ Cycle \in Nat
    /\ Cycle >= Period /\ Cycle >= Round
    /\ Cycle = Period \/ Cycle = Round
    /\ \A n \in Nat : Cycles(n) \in Nat
    /\ \A n \in Nat : Cycles(n + 1) = Cycles(n) + Cycle
<1>1. Round \in Nat BY Sending, Sizes
<1>2. Cycle \in Nat /\ Cycle >= Period /\ Cycle >= Round /\ (Cycle = Period \/ Cycle = Round)
    BY <1>1, Sizes DEF Cycle, Larger
<1>3. \A n \in Nat : Cycles(n) \in Nat BY <1>2, Product DEF Cycles
<1>4. \A n \in Nat : Cycles(n + 1) = Cycles(n) + Cycle
    <2> TAKE n \in Nat
    <2> QED BY <1>2, Step DEF Cycles
<1> QED BY <1>1, <1>2, <1>3, <1>4

LEMMA GapBelowTTL ==
    /\ Period + Latency + Cycles(MaxLost) + Round < TTL
    /\ Round + Cycles(MaxLost) + Round < TTL
<1>1. TTL > Larger(Period + Latency, Round) + Cycles(MaxLost) + Round
    BY TimingAssumption DEF Gap, Cycles
<1>2. Cycles(MaxLost) \in Nat /\ Round \in Nat BY Cycling, Sizes
<1> QED BY <1>1, <1>2, Sizes DEF Larger

----------------------------------------------------------------------------
(* The state *)

\* What the type invariant says of the variables, with sets counted
LEMMA Counted ==
    ASSUME TypeOK
    PROVE  /\ IsFiniteSet(round) /\ Cardinality(round) \in Nat
           /\ IsFiniteSet(Executing) /\ Cardinality(Executing) \in Nat
           /\ Cardinality(Executing) <= Capacity
           /\ Answering # {} => Cardinality(Executing) <= Capacity - 1
           /\ ended \in Nat /\ Waiting \in Nat
<1>1. IsFiniteSet(Slots) BY TimingAssumption
<1>2. IsFiniteSet(round) /\ Cardinality(round) \in Nat
    BY <1>1, FS_Subset, FS_CardinalityType DEF TypeOK
<1>3. Executing \in SUBSET Slots BY DEF Executing
<1>4. IsFiniteSet(Executing) /\ Cardinality(Executing) \in Nat
    BY <1>1, <1>3, FS_Subset, FS_CardinalityType
<1>5. Cardinality(Executing) <= Capacity BY <1>1, <1>3, FS_Subset DEF Capacity
<1>6. Answering # {} => Cardinality(Executing) # Capacity
    <2> SUFFICES ASSUME Answering # {}, Cardinality(Executing) = Capacity PROVE FALSE
        OBVIOUS
    <2>1. Executing = Slots BY <1>1, <1>3, FS_Subset DEF Capacity
    <2> QED BY <2>1 DEF Executing, Answering
<1>7. ended \in Nat BY Sizes DEF TypeOK
<1>8. Waiting \in Nat BY <1>2, <1>7 DEF Waiting
<1>9. Answering # {} => Cardinality(Executing) <= Capacity - 1
    BY <1>4, <1>5, <1>6, Sizes
<1> QED BY <1>2, <1>4, <1>5, <1>7, <1>8, <1>9

\* A round lasts no longer than Round, the next one starts within Cycle.
LEMMA Awaited ==
    ASSUME TypeOK, Shape
    PROVE  /\ Rest \in Nat /\ Rest <= Round
           /\ NextStart \in Nat /\ NextStart <= Cycle /\ Rest <= NextStart
           /\ NextStart <= Period \/ NextStart <= Round
<1>1. Waiting \in Nat BY Counted
<1>2. Latency - elapsed \in Nat /\ Latency - elapsed <= Latency BY Sizes DEF TypeOK
<1>3. Sends(Waiting) \in Nat /\ Sends(Waiting + 1) = Sends(Waiting) + Latency
    BY <1>1, Sending
<1>4. sending => Sends(Waiting + 1) <= Round
    <2> SUFFICES ASSUME sending PROVE Sends(Waiting + 1) <= Sends(Capacity)
        BY Sending
    <2>1. Waiting + 1 \in Nat /\ Capacity \in Nat /\ Waiting + 1 <= Capacity
        BY <1>1, Sizes DEF Shape
    <2> QED BY <2>1, Sending
<1>5. Rest \in Nat /\ Rest <= Round
    <2>1. CASE sending BY <2>1, <1>2, <1>3, <1>4, Cycling, Sizes DEF Rest
    <2>2. CASE ~ sending BY <2>2, Cycling DEF Rest
    <2> QED BY <2>1, <2>2
<1>6. ticker \in Nat /\ ticker <= Period BY Sizes DEF TypeOK
<1> QED BY <1>5, <1>6, Cycling, Sizes DEF NextStart, Larger

\* The durations that the invariant bounds are those of the state.
LEMMA Terms ==
    ASSUME TypeOK, Shape
    PROVE  /\ \A s \in Slots : lease[s] \in Nat /\ lease[s] <= TTL
           /\ \A s \in Slots : Chances(s) \in Nat /\ Chances(s) <= MaxLost
           /\ \A s \in Slots : Cycles(Chances(s)) \in Nat
           /\ \A s \in Slots : Chances(s) # 0 =>
                /\ Chances(s) - 1 \in Nat /\ Cycles(Chances(s) - 1) \in Nat
                /\ Cycles(Chances(s)) = Cycles(Chances(s) - 1) + Cycle
           /\ \A s \in Slots : RenewedIn(s) \in Nat
           /\ Sends(Capacity - 1) \in Nat /\ Round = Sends(Capacity - 1) + Latency
           /\ \A s \in Answering : AnswerIn(s) \in Nat /\ AnswerIn(s) <= Latency
           /\ \A s \in Answering : RegisteredLater(s) \in Nat
<1>1. \A s \in Slots : lease[s] \in Nat /\ lease[s] <= TTL BY Sizes DEF TypeOK
<1>2. \A s \in Slots : Chances(s) \in Nat /\ Chances(s) <= MaxLost
    BY Sizes DEF TypeOK, Chances
<1>3. \A s \in Slots : Cycles(Chances(s)) \in Nat BY <1>2, Cycling
<1>4. \A s \in Slots : Chances(s) # 0 =>
        /\ Chances(s) - 1 \in Nat /\ Cycles(Chances(s) - 1) \in Nat
        /\ Cycles(Chances(s)) = Cycles(Chances(s) - 1) + Cycle
    <2> SUFFICES ASSUME NEW n \in Nat, n # 0
                 PROVE  /\ n - 1 \in Nat /\ Cycles(n - 1) \in Nat
                        /\ Cycles(n) = Cycles(n - 1) + Cycle
        BY <1>2
    <2>1. n - 1 \in Nat /\ (n - 1) + 1 = n OBVIOUS
    <2>2. Cycles((n - 1) + 1) = Cycles(n - 1) + Cycle BY <2>1, Cycling
    <2> QED BY <2>1, <2>2, Cycling
<1>5. \A s \in Slots : RenewedIn(s) \in Nat
    BY <1>2, <1>3, <1>4, Awaited, Cycling DEF RenewedIn
<1>6. Sends(Capacity - 1) \in Nat /\ Round = Sends(Capacity - 1) + Latency
    <2>1. Capacity - 1 \in Nat /\ (Capacity - 1) + 1 = Capacity BY Sizes
    <2>2. Sends((Capacity - 1) + 1) = Sends(Capacity - 1) + Latency BY <2>1, Sending
    <2> QED BY <2>1, <2>2, Sending
<1>7. \A s \in Answering : AnswerIn(s) \in Nat /\ AnswerIn(s) <= Latency
    BY <1>1, Sizes DEF Shape, AnswerIn, Answering
<1>8. \A s \in Answering : RegisteredLater(s) \in Nat
    BY <1>6, <1>7, Awaited, Cycling, Sizes DEF RegisteredLater, Larger
<1> QED BY <1>1, <1>2, <1>3, <1>4, <1>5, <1>6, <1>7, <1>8

----------------------------------------------------------------------------
(* The invariant holds initially, and each action preserves it. *)

LEMMA Initially == Init => IInv
<1> SUFFICES ASSUME Init PROVE IInv
    OBVIOUS
<1>1. TypeOK
    <2>1. slot \in [Slots -> {"free", "answering", "executing"}] BY DEF Init
    <2>2. lease \in [Slots -> 0 .. TTL] /\ lost \in [Slots -> 0 .. MaxLost]
        BY Sizes DEF Init
    <2>3. ticker \in 1 .. Period /\ elapsed \in 0 .. Latency /\ ended \in 0 .. Capacity
        BY Sizes DEF Init
    <2>4. fired \in BOOLEAN /\ sending \in BOOLEAN /\ target = {} /\ round = {} BY DEF Init
    <2> QED BY <2>1, <2>2, <2>3, <2>4 DEF TypeOK
<1>2. Executing = {} /\ Answering = {} BY DEF Init, Executing, Answering
<1>3. Shape BY <1>2 DEF Init, Shape
<1> QED BY <1>1, <1>2, <1>3 DEF IInv, InTime

\* A lease granted now lasts until the round after the next, at worst.
LEMMA LeaseStep ==
    ASSUME IInv, NEW s \in Slots, Lease(s)
    PROVE  IInv'
<1> USE DEF IInv
<1>1. TypeOK' BY Sizes DEF TypeOK, Lease, FullLease, loopVars
<1>2. Executing' = Executing /\ Answering' = {s} /\ s \notin Executing
    BY DEF Lease, TypeOK, Executing, Answering
<1>3. Waiting' = Waiting /\ Rest' = Rest /\ NextStart' = NextStart
    BY DEF Lease, loopVars, Waiting, Rest, NextStart
<1>4. AnswerIn(s)' = Latency /\ lease'[s] = TTL
    BY Sizes DEF Lease, TypeOK, FullLease, AnswerIn
<1>5. Shape' BY <1>2, <1>3, <1>4, Sizes DEF Shape, Lease, TypeOK, loopVars
<1>6. \A t \in Executing : RenewedIn(t)' = RenewedIn(t) /\ lease'[t] = lease[t]
    BY <1>2, <1>3 DEF Lease, TypeOK, loopVars, RenewedIn, Chances, Executing
<1>7. RegisteredLater(s)' < TTL
    <2>1. RegisteredLater(s)'
            = Larger(NextStart, Latency + Larger(Period, Sends(Capacity - 1)))
                + Cycles(MaxLost) + Round
        BY <1>3, <1>4 DEF RegisteredLater
    <2> QED BY <2>1, Awaited, Terms, Cycling, GapBelowTTL, Sizes DEF Larger
<1> QED BY <1>1, <1>2, <1>4, <1>5, <1>6, <1>7 DEF InTime

\* The answer came in time for one of the rounds that the bound allows for.
LEMMA RegisterStep ==
    ASSUME IInv, NEW s \in Slots, Register(s)
    PROVE  IInv'
<1> USE DEF IInv
<1>1. TypeOK' BY DEF TypeOK, Register, loopVars
<1>2. Executing' = Executing \cup {s} /\ Answering' = Answering \ {s} /\ s \in Answering
    BY DEF Register, TypeOK, Executing, Answering
<1>3. Waiting' = Waiting /\ Rest' = Rest /\ NextStart' = NextStart
    BY DEF Register, loopVars, Waiting, Rest, NextStart
<1>4. Shape'
    BY <1>2, <1>3 DEF Shape, Register, TypeOK, loopVars, AnswerIn
<1>5. \A t \in Slots : RenewedIn(t)' = RenewedIn(t) /\ RegisteredLater(t)' = RegisteredLater(t)
    BY <1>3 DEF Register, loopVars, RenewedIn, RegisteredLater, Chances, AnswerIn
<1>6. RenewedIn(s) <= RegisteredLater(s)
    <2>1. s \notin target \cup round /\ Chances(s) = MaxLost
        BY <1>2, Sizes DEF Shape, Chances, Executing, Answering
    <2>2. RenewedIn(s) = NextStart + Cycles(MaxLost) + Round BY <2>1 DEF RenewedIn
    <2> QED BY <1>2, <2>2, Awaited, Terms, Cycling, Sizes DEF RegisteredLater, Larger
<1>7. RenewedIn(s) \in Nat /\ RegisteredLater(s) \in Nat /\ lease[s] \in Nat
    BY <1>2, Terms
<1>8. lease[s] > RenewedIn(s) BY <1>2, <1>6, <1>7 DEF InTime
<1>9. \A t \in Executing' : lease'[t] > RenewedIn(t)'
    BY <1>2, <1>5, <1>8 DEF InTime, Register, Executing, Answering
<1>10. \A t \in Answering' : lease'[t] > RegisteredLater(t)'
    BY <1>2, <1>5 DEF InTime, Register, Executing, Answering
<1> QED BY <1>1, <1>4, <1>9, <1>10 DEF InTime

\* What is left of the round keeps its length.
LEMMA VacateStep ==
    ASSUME IInv, NEW s \in Slots, Vacate(s)
    PROVE  IInv'
<1> USE DEF IInv
<1>1. Executing' = Executing \ {s} /\ Answering' = Answering \ {s}
    BY DEF Vacate, TypeOK, Executing, Answering
<1>2. Cardinality(round') = IF s \in round THEN Cardinality(round) - 1 ELSE Cardinality(round)
    BY Counted, FS_RemoveElement DEF Vacate
<1>3. Waiting' = Waiting BY <1>2, Counted DEF Vacate, Waiting
<1>4. Rest' = Rest /\ NextStart' = NextStart
    BY <1>3 DEF Vacate, Rest, NextStart
<1>5. s \in round => sending /\ Cardinality(round) # 0
    BY Counted, FS_EmptySet DEF Shape
<1>6. ended' \in 0 .. Capacity
    BY <1>5, Counted, Sizes DEF Vacate, Shape, TypeOK, Waiting
<1>7. TypeOK' BY <1>6, Sizes DEF TypeOK, Vacate
<1>8. Shape' BY <1>1, <1>3, <1>5 DEF Shape, Vacate, TypeOK, AnswerIn, Answering
<1>9. \A t \in Slots \ {s} :
        /\ lease'[t] = lease[t]
        /\ RenewedIn(t)' = RenewedIn(t) /\ RegisteredLater(t)' = RegisteredLater(t)
    BY <1>4 DEF Vacate, TypeOK, RenewedIn, RegisteredLater, Chances, AnswerIn
<1> QED BY <1>1, <1>7, <1>8, <1>9 DEF InTime, Executing, Answering

\* A renewal makes good what was lost: the next one may come after MaxLost
\* failures.
LEMMA RenewLeaseStep ==
    ASSUME IInv, RenewLease
    PROVE  IInv'
<1> USE DEF IInv
<1> PICK s \in target : /\ lease' = [lease EXCEPT ![s] = FullLease]
                        /\ lost' = [lost EXCEPT ![s] = 0]
    BY DEF RenewLease
<1>1. s \in Executing /\ s \in Slots /\ s \notin round /\ target = {s}
    BY DEF Shape, Executing
<1>2. TypeOK' BY <1>1, Sizes DEF TypeOK, RenewLease, FullLease
<1>3. Executing' = Executing /\ Answering' = Answering
    BY DEF RenewLease, Executing, Answering
<1>4. Waiting' = Waiting /\ Rest' = Rest /\ NextStart' = NextStart
    BY DEF RenewLease, Waiting, Rest, NextStart
<1>5. \A t \in Slots \ {s} :
        /\ lease'[t] = lease[t] /\ lost'[t] = lost[t] /\ AnswerIn(t)' = AnswerIn(t)
        /\ RenewedIn(t)' = RenewedIn(t) /\ RegisteredLater(t)' = RegisteredLater(t)
    BY <1>1, <1>4 DEF RenewLease, TypeOK, RenewedIn, RegisteredLater, Chances, AnswerIn
<1>6. s \notin Answering BY <1>1 DEF Executing, Answering
<1>7. Shape' BY <1>1, <1>3, <1>4, <1>5, <1>6 DEF Shape, RenewLease, Answering, Executing
<1>8. lease'[s] = TTL /\ lost'[s] = 0 BY <1>1 DEF TypeOK, FullLease
<1>9. RenewedIn(s)' < TTL
    <2>1. RenewedIn(s)' = NextStart + Cycles(MaxLost) + Round
        BY <1>1, <1>4, <1>8, Sizes DEF RenewLease, RenewedIn, Chances
    <2> QED BY <2>1, Awaited, Cycling, GapBelowTTL, Sizes
<1> QED BY <1>2, <1>3, <1>5, <1>6, <1>7, <1>8, <1>9 DEF InTime, Executing, Answering

\* What Proceed makes of a round with S and n endings left
LEMMA Proceeding ==
    ASSUME NEW S \in SUBSET Slots, NEW n \in Nat, Proceed(S, n),
           Cardinality(S) + n <= Capacity
    PROVE  /\ target' \cup round' = S /\ target' \cap round' = {}
           /\ \A s, t \in target' : s = t
           /\ elapsed' = 0 /\ sending' \in BOOLEAN /\ ended' \in Nat
           /\ sending' => Waiting' \in Nat /\ Waiting' + 1 = Cardinality(S) + n
           /\ ~ sending' => target' = {} /\ round' = {} /\ ended' = 0 /\ S = {} /\ n = 0
<1>1. IsFiniteSet(S) /\ Cardinality(S) \in Nat
    BY TimingAssumption, FS_Subset, FS_CardinalityType
<1>2. CASE \E s \in S : target' = {s} /\ round' = S \ {s} /\ ended' = n /\ sending' = TRUE
    <2> PICK s \in S : target' = {s} /\ round' = S \ {s} /\ ended' = n /\ sending' = TRUE
        BY <1>2
    <2>1. Cardinality(round') = Cardinality(S) - 1 /\ Cardinality(round') \in Nat
        BY <1>1, FS_RemoveElement, FS_CardinalityType
    <2>2. Waiting' \in Nat /\ Waiting' + 1 = Cardinality(S) + n BY <1>1, <2>1 DEF Waiting
    <2>3. elapsed' = 0 BY DEF Proceed
    <2> QED BY <2>2, <2>3
<1>3. CASE n > 0 /\ target' = {} /\ round' = S /\ ended' = n - 1 /\ sending' = TRUE
    BY <1>1, <1>3 DEF Proceed, Waiting
<1>4. CASE S = {} /\ n = 0 /\ target' = {} /\ round' = {} /\ ended' = 0 /\ sending' = FALSE
    BY <1>4 DEF Proceed
<1> QED BY <1>2, <1>3, <1>4 DEF Proceed

\* and how long it takes from then
LEMMA ProceedingRest ==
    ASSUME NEW S \in SUBSET Slots, NEW n \in Nat, Proceed(S, n),
           Cardinality(S) + n <= Capacity
    PROVE  Rest' = Sends(Cardinality(S) + n)
<1>1. CASE sending'
    <2>1. Waiting' \in Nat /\ Waiting' + 1 = Cardinality(S) + n /\ elapsed' = 0
        BY <1>1, Proceeding
    <2>2. Rest' = Latency + Sends(Waiting') BY <1>1, <2>1, Sizes DEF Rest
    <2>3. Sends(Waiting') \in Nat /\ Sends(Waiting' + 1) = Sends(Waiting') + Latency
        BY <2>1, Sending
    <2> QED BY <2>1, <2>2, <2>3, Sizes
<1>2. CASE ~ sending'
    <2>1. S = {} /\ n = 0 BY <1>2, Proceeding
    <2>2. Cardinality(S) = 0 BY <2>1, FS_EmptySet
    <2>3. Cardinality(S) + n = 0 BY <2>1, <2>2
    <2> QED BY <1>2, <2>3, Sending DEF Rest
<1>3. sending' \in BOOLEAN BY Proceeding
<1> QED BY <1>1, <1>2, <1>3

\* A renewal that failed costs its slot one chance, and the slot waits for the
\* next round.
LEMMA RenewReturnsStep ==
    ASSUME IInv, RenewReturns
    PROVE  IInv'
<1> USE DEF IInv
<1>1. /\ round \in SUBSET Slots /\ ended \in Nat /\ Proceed(round, ended)
      /\ Waiting + 1 <= Capacity /\ Cardinality(round) \in Nat
    BY Counted DEF RenewReturns, Shape, TypeOK
<1>2. Cardinality(round) + ended <= Capacity BY <1>1, Sizes DEF Waiting
<1>3. /\ target' \cup round' = round /\ target' \cap round' = {}
      /\ \A s, t \in target' : s = t
      /\ elapsed' = 0 /\ sending' \in BOOLEAN /\ ended' \in Nat
    BY <1>1, <1>2, Proceeding
<1>4. /\ sending' => Waiting' \in Nat /\ Waiting' + 1 = Waiting
      /\ ~ sending' => target' = {} /\ round' = {} /\ ended' = 0
    BY <1>1, <1>2, Proceeding DEF Waiting
<1>5. ended' <= Capacity
    <2>1. round' \in SUBSET Slots BY <1>1, <1>3
    <2>2. Cardinality(round') \in Nat
        BY <2>1, TimingAssumption, FS_Subset, FS_CardinalityType
    <2>3. CASE sending' BY <1>1, <1>3, <1>4, <2>2, <2>3, Counted, Sizes DEF Waiting
    <2>4. CASE ~ sending' BY <1>4, <2>4, Sizes
    <2> QED BY <1>3, <2>3, <2>4
<1>6. TypeOK'
    <2>1. lost' \in [Slots -> 0 .. MaxLost] BY Sizes DEF RenewReturns, TypeOK
    <2>2. target' \in SUBSET Slots /\ round' \in SUBSET Slots BY <1>1, <1>3
    <2>3. elapsed' \in 0 .. Latency /\ ended' \in 0 .. Capacity BY <1>3, <1>5, Sizes
    <2> QED BY <1>3, <2>1, <2>2, <2>3 DEF RenewReturns, TypeOK
<1>7. Executing' = Executing /\ Answering' = Answering
    BY DEF RenewReturns, Executing, Answering
<1>8. Shape'
    <2>1. target' \cup round' \subseteq Executing' BY <1>3, <1>7 DEF Shape
    <2>2. sending' => Waiting' + 1 <= Capacity BY <1>1, <1>4, Counted, Sizes
    <2>3. \A s \in Slots : slot'[s] # "executing" => lost'[s] = 0
        BY DEF RenewReturns, Shape, Executing
    <2>4. \A s \in Answering' : AnswerIn(s)' >= 0
        BY <1>7 DEF Shape, RenewReturns, AnswerIn
    <2> QED BY <1>3, <1>4, <1>7, <2>1, <2>2, <2>3, <2>4 DEF Shape
<1>9. Rest' <= Rest /\ Rest' \in Nat
    <2>1. Rest' = Sends(Waiting) BY <1>1, <1>2, ProceedingRest DEF Waiting
    <2>2. Rest = (Latency - elapsed) + Sends(Waiting) BY DEF RenewReturns, Rest
    <2>3. Sends(Waiting) \in Nat BY Counted, Sending
    <2> QED BY <2>1, <2>2, <2>3, Sizes DEF TypeOK
<1>10. NextStart' <= NextStart /\ NextStart' \in Nat
    <2>1. fired' = fired /\ ticker' = ticker BY DEF RenewReturns
    <2>2. ticker \in Nat /\ Rest \in Nat BY Awaited, Sizes DEF TypeOK
    <2>3. Larger(ticker, Rest') <= Larger(ticker, Rest) /\ Larger(ticker, Rest') \in Nat
        BY <1>9, <2>2 DEF Larger
    <2>4. Larger(ticker, Rest) \in Nat BY <2>2 DEF Larger
    <2> QED BY <1>9, <2>1, <2>2, <2>3, <2>4 DEF NextStart
<1>11. \A s \in Executing : lease'[s] > RenewedIn(s)'
    <2> TAKE s \in Executing
    <2>1. s \in Slots /\ lease'[s] = lease[s] /\ lease[s] \in Nat /\ lease[s] > RenewedIn(s)
        BY Terms DEF InTime, RenewReturns, Executing
    <2>2. CASE s \in target
        <3>1. lost'[s] = lost[s] + 1 /\ lost[s] < MaxLost BY <2>1, <2>2 DEF RenewReturns
        <3>2. Chances(s) # 0 /\ Chances(s)' = Chances(s) - 1 /\ lost[s] \in Nat
            BY <2>1, <3>1, Sizes DEF Chances, TypeOK
        <3>3. s \notin target' \cup round' BY <1>3, <2>2 DEF Shape
        <3>4. RenewedIn(s)' = NextStart' + Cycles(Chances(s) - 1) + Round
            BY <3>2, <3>3 DEF RenewedIn
        <3>5. RenewedIn(s) = NextStart + Cycles(Chances(s) - 1) + Round
            BY <2>2, <3>2 DEF RenewedIn
        <3>6. Cycles(Chances(s) - 1) \in Nat BY <2>1, <3>2, Terms
        <3> QED BY <1>10, <2>1, <3>4, <3>5, <3>6, Awaited, Cycling
    <2>3. CASE s \notin target
        <3>1. Chances(s)' = Chances(s) BY <2>1, <2>3 DEF RenewReturns, Chances
        <3>2. s \in target' \cup round' <=> s \in target \cup round BY <1>3, <2>3
        <3>3. RenewedIn(s)' <= RenewedIn(s) /\ RenewedIn(s)' \in Nat
            BY <1>9, <1>10, <2>1, <3>1, <3>2, Awaited, Terms, Cycling DEF RenewedIn
        <3> QED BY <2>1, <3>3, Terms
    <2> QED BY <2>2, <2>3
<1>12. \A s \in Answering : lease'[s] > RegisteredLater(s)'
    <2> TAKE s \in Answering
    <2>1. s \in Slots /\ lease'[s] = lease[s] /\ lease[s] \in Nat /\ lease[s] > RegisteredLater(s)
        BY Terms DEF InTime, RenewReturns, Answering
    <2>2. AnswerIn(s)' = AnswerIn(s) BY DEF RenewReturns, AnswerIn
    <2>3. RegisteredLater(s)' <= RegisteredLater(s) /\ RegisteredLater(s)' \in Nat
        BY <1>10, <2>2, Awaited, Terms, Cycling, Sizes DEF RegisteredLater, Larger
    <2> QED BY <2>1, <2>3, Terms
<1> QED BY <1>6, <1>7, <1>8, <1>11, <1>12 DEF InTime

\* A round starts: every execution's turn comes before the next one starts.
LEMMA StartRoundStep ==
    ASSUME IInv, StartRound
    PROVE  IInv'
<1> USE DEF IInv
<1> DEFINE busy == Cardinality(Executing)
<1>1. /\ Executing \in SUBSET Slots /\ Proceed(Executing, 0)
      /\ busy \in Nat /\ busy + 0 <= Capacity /\ busy <= Capacity /\ busy + 0 = busy
    BY Counted, Sizes DEF StartRound, Executing
<1> HIDE DEF busy
<1>2. /\ target' \cup round' = Executing /\ target' \cap round' = {}
      /\ \A s, t \in target' : s = t
      /\ elapsed' = 0 /\ sending' \in BOOLEAN /\ ended' \in Nat
    BY <1>1, Proceeding DEF busy
<1>3. /\ sending' => Waiting' \in Nat /\ Waiting' + 1 = busy
      /\ ~ sending' => target' = {} /\ round' = {} /\ ended' = 0
    BY <1>1, Proceeding DEF busy
<1>4. ended' <= Capacity
    <2>1. Cardinality(round') \in Nat
        BY <1>1, <1>2, TimingAssumption, FS_Subset, FS_CardinalityType
    <2> QED BY <1>1, <1>2, <1>3, <2>1, Sizes DEF Waiting
<1>5. TypeOK'
    <2>1. target' \in SUBSET Slots /\ round' \in SUBSET Slots BY <1>1, <1>2
    <2>2. elapsed' \in 0 .. Latency /\ ended' \in 0 .. Capacity BY <1>2, <1>4, Sizes
    <2> QED BY <1>2, <2>1, <2>2 DEF StartRound, TypeOK
<1>6. Executing' = Executing /\ Answering' = Answering
    BY DEF StartRound, Executing, Answering
<1>7. Shape'
    BY <1>1, <1>2, <1>3, <1>6, Sizes DEF Shape, StartRound, AnswerIn
<1>8. Rest' = Sends(busy) /\ Sends(busy) \in Nat /\ Sends(busy) <= Round
    BY <1>1, ProceedingRest, Sending, Sizes DEF busy
<1>9. NextStart = 0 /\ target = {} /\ round = {} BY DEF StartRound, NextStart, Rest, Shape
<1>10. /\ NextStart' = Larger(ticker, Sends(busy)) /\ ticker \in Nat /\ ticker <= Period
       /\ NextStart' \in Nat /\ NextStart' <= Cycle
    BY <1>8, Cycling, Sizes DEF StartRound, NextStart, TypeOK, Larger
<1>11. \A s \in Executing : lease'[s] > RenewedIn(s)'
    <2> TAKE s \in Executing
    <2>1. s \in Slots /\ lease'[s] = lease[s] /\ lease[s] \in Nat /\ lease[s] > RenewedIn(s)
        BY Terms DEF InTime, StartRound, Executing
    <2>2. Chances(s)' = Chances(s) BY DEF StartRound, Chances
    <2>3. RenewedIn(s) = Cycles(Chances(s)) + Round
        BY <1>9, <2>1, Terms, Cycling DEF RenewedIn
    <2>4. RenewedIn(s)' = IF Chances(s) = 0 THEN Rest'
                          ELSE NextStart' + Cycles(Chances(s) - 1) + Round
        BY <1>2, <2>2 DEF RenewedIn
    <2> QED BY <1>8, <1>10, <2>1, <2>3, <2>4, Terms, Cycling
<1>12. \A s \in Answering : lease'[s] > RegisteredLater(s)'
    <2> TAKE s \in Answering
    <2>1. s \in Slots /\ lease'[s] = lease[s] /\ lease[s] \in Nat /\ lease[s] > RegisteredLater(s)
        BY Terms DEF InTime, StartRound, Answering
    <2>2. AnswerIn(s)' = AnswerIn(s) /\ AnswerIn(s) \in Nat BY Terms DEF StartRound, AnswerIn
    <2>3. busy <= Capacity - 1 /\ Capacity - 1 \in Nat BY Counted, Sizes DEF busy
    <2>4. Sends(busy) <= Sends(Capacity - 1) BY <1>1, <2>3, Sending
    <2>5. NextStart' <= Larger(Period, Sends(Capacity - 1))
        BY <1>8, <1>10, <2>4, Terms, Sizes DEF Larger
    <2>6. RegisteredLater(s)' <= RegisteredLater(s) /\ RegisteredLater(s)' \in Nat
        BY <1>9, <1>10, <2>2, <2>5, Terms, Cycling, Sizes DEF RegisteredLater, Larger
    <2> QED BY <2>1, <2>6, Terms
<1> QED BY <1>5, <1>6, <1>7, <1>11, <1>12 DEF InTime

\* Time passes for the leases and for what they wait for.
LEMMA PassStep ==
    ASSUME IInv, Pass
    PROVE  IInv'
<1> USE DEF IInv
<1>1. Executing' = Executing /\ Answering' = Answering /\ Waiting' = Waiting
    BY DEF Pass, Executing, Answering, Waiting
<1>2. ticker \in Nat \ {0} /\ ticker <= Period /\ elapsed \in Nat /\ elapsed <= Latency
    BY Sizes DEF TypeOK
<1>3. \A s \in Slots : lease[s] > 0 => lease'[s] = lease[s] - 1 BY DEF Pass
<1>4. TypeOK'
    <2>1. lease' \in [Slots -> 0 .. TTL] BY Sizes, Terms DEF Pass
    <2>2. ticker' \in 1 .. Period BY <1>2, Sizes DEF Pass, NextTick
    <2>3. elapsed' \in 0 .. Latency BY <1>2, Sizes DEF Pass
    <2>4. fired' \in BOOLEAN BY DEF Pass, TypeOK
    <2> QED BY <2>1, <2>2, <2>3, <2>4 DEF Pass, TypeOK
<1>5. \A s \in Answering :
        /\ s \in Slots /\ lease[s] > 0 /\ lease'[s] = lease[s] - 1
        /\ AnswerIn(s)' = AnswerIn(s) - 1 /\ AnswerIn(s)' \in Nat
    <2> TAKE s \in Answering
    <2>1. s \in Slots /\ lease[s] \in Nat /\ RegisteredLater(s) \in Nat
        BY Terms DEF Answering
    <2>2. lease[s] > 0 BY <2>1 DEF InTime
    <2>3. lease'[s] = lease[s] - 1 BY <1>3, <2>1, <2>2
    <2>4. TTL - lease[s] < Latency BY DEF Pass
    <2>5. AnswerIn(s)' = Latency - (TTL - lease'[s]) BY DEF AnswerIn
    <2> QED BY <2>1, <2>2, <2>3, <2>4, <2>5, Sizes DEF AnswerIn
<1>6. Shape' BY <1>1, <1>5 DEF Shape, Pass
<1>7. sending => elapsed < Latency /\ elapsed' = elapsed + 1 /\ sending'
    BY DEF Pass
<1>8. sending => Rest' = Rest - 1 /\ Rest' \in Nat
    <2> SUFFICES ASSUME sending PROVE Rest' = Rest - 1 /\ Rest' \in Nat
        OBVIOUS
    <2> DEFINE after == Sends(Waiting)
    <2>1. after \in Nat BY Counted, Sending
    <2>2. Rest = (Latency - elapsed) + after BY DEF Rest
    <2>3. Rest' = (Latency - elapsed') + after BY <1>1, <1>7 DEF Rest
    <2> HIDE DEF after
    <2> QED BY <1>2, <1>7, <2>1, <2>2, <2>3, Sizes
<1>9. ~ sending => Rest' = 0 /\ Rest = 0 /\ ~ fired BY DEF Pass, Rest
<1>10. NextStart' = NextStart - 1
    <2>1. sending \in BOOLEAN /\ fired \in BOOLEAN BY DEF TypeOK
    <2>2. Rest \in Nat BY Awaited
    <2>3. CASE fired BY <1>8, <1>9, <2>1, <2>3 DEF Pass, NextStart
    <2>4. CASE ~ fired /\ ticker = 1
        <3>1. fired' BY <2>4 DEF Pass
        <3> QED BY <1>8, <1>9, <2>1, <2>2, <2>4, <3>1 DEF NextStart, Larger
    <2>5. CASE ~ fired /\ ticker # 1
        <3>1. ~ fired' /\ ticker' = ticker - 1 BY <2>5 DEF Pass, NextTick
        <3>2. NextStart = Larger(ticker, Rest) /\ NextStart' = Larger(ticker - 1, Rest')
            BY <2>5, <3>1 DEF NextStart
        <3>3. CASE sending BY <1>2, <1>8, <2>2, <3>2, <3>3 DEF Larger
        <3>4. CASE ~ sending BY <1>2, <1>9, <2>5, <3>2, <3>4 DEF Larger
        <3> QED BY <2>1, <3>3, <3>4
    <2> QED BY <2>1, <2>3, <2>4, <2>5
<1>11. \A s \in Executing : lease'[s] > RenewedIn(s)'
    <2> TAKE s \in Executing
    <2>1. s \in Slots /\ lease[s] \in Nat /\ RenewedIn(s) \in Nat /\ lease[s] > RenewedIn(s)
        BY Terms DEF InTime, Executing
    <2>2. lease'[s] = lease[s] - 1 BY <1>3, <2>1
    <2>3. Chances(s)' = Chances(s) BY DEF Pass, Chances
    <2>4. s \in target' \cup round' <=> s \in target \cup round BY DEF Pass
    <2>5. s \in target \cup round => sending BY DEF Shape, TypeOK
    <2>6. RenewedIn(s)' = RenewedIn(s) - 1
        <3>1. CASE s \in target \cup round /\ Chances(s) = 0
            BY <1>8, <2>3, <2>4, <2>5, <3>1 DEF RenewedIn
        <3>2. CASE s \in target \cup round /\ Chances(s) # 0
            <4>1. Cycles(Chances(s) - 1) \in Nat BY <2>1, <3>2, Terms
            <4> QED BY <1>10, <2>3, <2>4, <3>2, <4>1, Awaited, Cycling DEF RenewedIn
        <3>3. CASE s \notin target \cup round
            <4>1. Cycles(Chances(s)) \in Nat BY <2>1, Terms
            <4> QED BY <1>10, <2>3, <2>4, <3>3, <4>1, Awaited, Cycling DEF RenewedIn
        <3> QED BY <3>1, <3>2, <3>3
    <2> QED BY <2>1, <2>2, <2>6
<1>12. \A s \in Answering : lease'[s] > RegisteredLater(s)'
    <2> TAKE s \in Answering
    <2>1. RegisteredLater(s) \in Nat /\ lease[s] > RegisteredLater(s) /\ lease[s] \in Nat
        BY <1>5, Terms DEF InTime
    <2>2. RegisteredLater(s)' = RegisteredLater(s) - 1
        <3> DEFINE wait == Larger(Period, Sends(Capacity - 1))
        <3>1. wait \in Nat /\ Cycles(MaxLost) \in Nat /\ Round \in Nat
            BY Terms, Cycling, Sizes DEF Larger
        <3>2. /\ RegisteredLater(s) = Larger(NextStart, AnswerIn(s) + wait) + Cycles(MaxLost) + Round
              /\ RegisteredLater(s)' = Larger(NextStart', AnswerIn(s)' + wait) + Cycles(MaxLost) + Round
            BY DEF RegisteredLater
        <3> HIDE DEF wait
        <3>3. NextStart \in Nat /\ AnswerIn(s) \in Nat BY Awaited, Terms
        <3>4. Larger(NextStart', AnswerIn(s)' + wait) = Larger(NextStart, AnswerIn(s) + wait) - 1
            BY <1>5, <1>10, <3>1, <3>3 DEF Larger
        <3>5. Larger(NextStart, AnswerIn(s) + wait) \in Nat BY <3>1, <3>3 DEF Larger
        <3> QED BY <3>1, <3>2, <3>4, <3>5
    <2> QED BY <1>5, <2>1, <2>2
<1> QED BY <1>1, <1>4, <1>6, <1>11, <1>12 DEF InTime

LEMMA Inductive == IInv /\ [Next]_vars => IInv'
<1> SUFFICES ASSUME IInv, [Next]_vars PROVE IInv'
    OBVIOUS
<1>1. ASSUME NEW s \in Slots, Lease(s) PROVE IInv' BY <1>1, LeaseStep
<1>2. ASSUME NEW s \in Slots, Register(s) PROVE IInv' BY <1>2, RegisterStep
<1>3. ASSUME NEW s \in Slots, Vacate(s) PROVE IInv' BY <1>3, VacateStep
<1>4. CASE StartRound BY <1>4, StartRoundStep
<1>5. CASE RenewLease BY <1>5, RenewLeaseStep
<1>6. CASE RenewReturns BY <1>6, RenewReturnsStep
<1>7. CASE Pass BY <1>7, PassStep
<1>8. CASE UNCHANGED vars
    BY <1>8 DEF vars, loopVars, IInv, TypeOK, Shape, InTime, Executing, Answering, Waiting,
        Rest, NextStart, Chances, AnswerIn, RenewedIn, RegisteredLater
<1> QED BY <1>1, <1>2, <1>3, <1>4, <1>5, <1>6, <1>7, <1>8 DEF Next

LEMMA Invariance == Spec => []IInv
<1> QED BY Initially, Inductive, PTL DEF Spec

----------------------------------------------------------------------------
(* Theorems *)

\* Every variable of the renewal loop and its slots keeps to its type: no lease
\* is longer than LEASE_TTL_SECONDS, no slot's renewal fails more than MaxLost
\* times in a row, no round outgrows the slots.
THEOREM LoopTypes == Spec => []TypeOK
<1>1. IInv => TypeOK BY DEF IInv
<1> QED BY <1>1, Invariance, PTL

\* With a LEASE_TTL_SECONDS above Gap no lease that leaseRenewLoop renews
\* expires, for any concurrency, ticker period, request latency and number of
\* failures in a row, and for any order in which the loop visits runningTasks.
THEOREM LeasesKept == Spec => []LeaseKept
<1>1. IInv => LeaseKept
    <2> SUFFICES ASSUME IInv, NEW s \in Slots, slot[s] # "free" PROVE lease[s] > 0
        BY DEF LeaseKept
    <2> USE DEF IInv
    <2>1. s \in Executing \/ s \in Answering BY DEF TypeOK, Executing, Answering
    <2>2. lease[s] \in Nat /\ RenewedIn(s) \in Nat BY Terms
    <2>3. s \in Answering => RegisteredLater(s) \in Nat BY Terms
    <2> QED BY <2>1, <2>2, <2>3 DEF InTime
<1> QED BY <1>1, Invariance, PTL

\* However often slots change hands while leaseRenewLoop sends a round, the
\* round has at most one renewal per slot left, those for tasks that have ended
\* included.
THEOREM RoundsBounded == Spec => []RoundBounded
<1>1. IInv => RoundBounded
    <2> SUFFICES ASSUME IInv, sending PROVE Cardinality(round) + ended + 1 <= Capacity
        BY DEF RoundBounded
    <2> QED BY Counted DEF IInv, Shape, Waiting
<1> QED BY <1>1, Invariance, PTL
=============================================================================
