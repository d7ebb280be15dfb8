--------------------------- MODULE AttemptsProofs ---------------------------
(***************************************************************************)
(* Proofs about Attempts, for any requests, limits and width of a word.    *)
(***************************************************************************)
EXTENDS Attempts, FiniteSetTheorems, TLAPS

USE AttemptsAssumption

----------------------------------------------------------------------------
(* Powers of two, as the numbers of subsets *)

LEMMA PowerType ==
    ASSUME NEW n \in Nat
    PROVE  /\ 2 ^ n \in Nat /\ IsFiniteSet(SUBSET (1 .. n))
           /\ Cardinality(SUBSET (1 .. n)) = 2 ^ n
<1>1. IsFiniteSet(1 .. n) /\ Cardinality(1 .. n) = n
  BY FS_Interval
<1>2. IsFiniteSet(SUBSET (1 .. n)) /\ Cardinality(SUBSET (1 .. n)) = 2 ^ n
  BY <1>1, FS_SUBSET
<1> QED
  BY <1>2, FS_CardinalityType

LEMMA PowerGrows ==
    ASSUME NEW m \in Nat, NEW n \in Nat, m <= n
    PROVE  2 ^ m <= 2 ^ n
<1>1. SUBSET (1 .. m) \in SUBSET (SUBSET (1 .. n))
  <2>1. 1 .. m \subseteq 1 .. n
    OBVIOUS
  <2> QED
    BY <2>1
<1> DEFINE A == SUBSET (1 .. m)
           B == SUBSET (1 .. n)
<1>2. IsFiniteSet(B) /\ Cardinality(B) = 2 ^ n /\ Cardinality(A) = 2 ^ m
  BY PowerType
<1>3. A \subseteq B
  BY <1>1
<1> HIDE DEF A, B
<1>4. Cardinality(A) <= Cardinality(B)
  BY <1>2, <1>3, FS_Subset
<1> QED
  BY <1>2, <1>4, Zenon

\* A set has as many subsets with a new element as without it.
LEMMA PowerDoubles ==
    ASSUME NEW n \in Nat
    PROVE  2 ^ (n + 1) = 2 * 2 ^ n
<1> DEFINE x == n + 1
           A == SUBSET (1 .. n)
           f == [T \in A |-> T \cup {x}]
           B == {f[T] : T \in A}
<1>1. x \in Nat /\ x \notin 1 .. n /\ 1 .. x = (1 .. n) \cup {x}
  OBVIOUS
<1>2. ExistsBijection(A, B)
  <2>1. \A T, U \in A : f[T] = f[U] => T = U
    <3>1. SUFFICES ASSUME NEW T \in A, NEW U \in A, T \cup {x} = U \cup {x} PROVE T = U
      OBVIOUS
    <3>2. x \notin T /\ x \notin U
      BY <1>1
    <3> QED
      BY <3>1, <3>2
  <2>2. f \in Bijection(A, B)
    BY <2>1 DEF Bijection, Injection, Surjection, IsInjective
  <2> QED
    BY <2>2 DEF ExistsBijection
<1>3. SUBSET (1 .. x) = A \cup B
  <2>1. ASSUME NEW T \in SUBSET (1 .. x) PROVE T \in A \cup B
    <3>1. CASE x \in T
      <4>1. T \ {x} \in A /\ f[T \ {x}] = T
        BY <1>1, <3>1
      <4> QED
        BY <4>1
    <3>2. CASE x \notin T
      BY <1>1, <3>2
    <3> QED
      BY <3>1, <3>2
  <2>2. A \subseteq SUBSET (1 .. x) /\ B \subseteq SUBSET (1 .. x)
    BY <1>1
  <2> QED
    BY <2>1, <2>2
<1>4. A \cap B = {}
  BY <1>1
<1>5. IsFiniteSet(A) /\ Cardinality(A) = 2 ^ n /\ 2 ^ n \in Nat
  BY PowerType
<1>6. IsFiniteSet(B) /\ Cardinality(B) = 2 ^ n
  BY <1>2, <1>5, FS_Bijection
<1> HIDE DEF A, B
<1>7. Cardinality(A \cup B) = Cardinality(A) + Cardinality(B) - Cardinality(A \cap B)
  BY <1>5, <1>6, FS_Union
<1>8. PICK k \in Nat : k = 2 ^ n
  BY <1>5
<1>9. Cardinality(A) = k /\ Cardinality(B) = k /\ Cardinality(A \cap B) = 0
  BY <1>4, <1>5, <1>6, <1>8, FS_EmptySet
<1>10. Cardinality(A \cup B) = 2 * k
  BY <1>7, <1>9
<1>11. Cardinality(SUBSET (1 .. x)) = 2 ^ x
  BY <1>1, PowerType
<1> QED
  BY <1>3, <1>8, <1>10, <1>11, Zenon

LEMMA PowerZero == 2 ^ 0 = 1
OBVIOUS

----------------------------------------------------------------------------
(* Words *)

LEMMA HalfType == Half \in Nat \ {0}
<1>1. 2 ^ 0 <= 2 ^ (Bits - 1) /\ 2 ^ (Bits - 1) \in Nat
  BY PowerGrows, PowerType
<1> QED
  BY <1>1, PowerZero DEF Half

\* A word is in its range, and what is in its range does not change.
LEMMA WrapType ==
    ASSUME NEW n \in Int
    PROVE  /\ Wrap(n) \in - Half .. Half - 1
           /\ n \in - Half .. Half - 1 => Wrap(n) = n
<1>1. PICK h \in Nat \ {0} : h = Half
  BY HalfType
<1>2. (n + h) % (2 * h) \in 0 .. 2 * h - 1
  OBVIOUS
<1>3. n + h \in 0 .. 2 * h - 1 => (n + h) % (2 * h) = n + h
  OBVIOUS
<1> QED
  BY <1>1, <1>2, <1>3 DEF Wrap

LEMMA FactorType ==
    ASSUME NEW k \in Nat \ {0}
    PROVE  Factor(k) \in Int
<1>1. k - 1 \in Nat
  OBVIOUS
<1>2. Wrap(2 ^ (k - 1)) \in Int
  BY <1>1, PowerType, WrapType, HalfType
<1> QED
  BY <1>2 DEF Factor, ShiftLeft

----------------------------------------------------------------------------
(* Types *)

Job == [retries : Nat, interval : Nat \ {0}, exponential : BOOLEAN]

\* The rows of the task, field by field
Row == [status : {"pending", "running", "retrying", "success", "dead_letter"},
        retry : 0 .. MaxCount, exit : Int, stderr : [length : Nat, marked : BOOLEAN]]

Typed ==
    /\ job \in Job /\ task \in Row
    /\ delay \in - Half .. Half - 1 /\ longest \in 0 .. Half - 1
    /\ report \subseteq Ends /\ last \subseteq Ends

\* The interval of a job is a Duration.
IntervalFits == job.interval * Second < Half

\* A report is of an attempt that runs, or of one that a rerun has put aside; a
\* pending task has not been retried, a retrying one has.
Reporting ==
    /\ report # {} => task.status \in {"running", "pending"}
    /\ task.status = "pending" => task.retry = 0
    /\ task.status = "retrying" => task.retry > 0

Due(k) == job.interval * Second * (IF job.exponential THEN 2 ^ (k - 1) ELSE 1)

\* What BackoffExact says, of every status: once the retry is executed, its delay
\* has been waited.
Doubling ==
    ~ edited /\ task.retry > 0 =>
      \/ 2 * longest >= Half
      \/ /\ delay = Due(task.retry)
         /\ task.status # "retrying" => longest >= delay

AttemptsInv == Typed /\ IntervalFits /\ Reporting /\ Doubling /\ RowTellsOutcome

----------------------------------------------------------------------------
(* The arithmetic of a retry *)

LEMMA IntervalType ==
    ASSUME job \in Job, NEW k \in Nat \ {0}
    PROVE  Interval(k) \in Int
<1>1. PICK f \in Int : f = Factor(k)
  BY FactorType
<1>2. job.interval * f \in Int
  BY DEF Job
<1> QED
  BY <1>1, <1>2, WrapType, HalfType DEF Interval, Job

LEMMA DueDoubles ==
    ASSUME job \in Job, NEW k \in Nat
    PROVE  /\ Due(k + 1) \in Nat
           /\ k > 0 => Due(k) \in Nat /\ Due(k + 1) <= 2 * Due(k)
<1>1. PICK b \in Nat : b = job.interval * Second
  BY DEF Job
<1>2. PICK p \in Nat : p = 2 ^ k
  BY PowerType
<1>3. Due(k + 1) = (IF job.exponential THEN b * p ELSE b)
  BY <1>1, <1>2 DEF Due
<1>4. ASSUME k > 0
      PROVE  Due(k) \in Nat /\ Due(k + 1) <= 2 * Due(k)
  <2>1. k - 1 \in Nat /\ (k - 1) + 1 = k
    BY <1>4
  <2>2. PICK q \in Nat : q = 2 ^ (k - 1)
    BY <2>1, PowerType
  <2>3. p = 2 * q
    BY <1>2, <2>1, <2>2, PowerDoubles
  <2>4. Due(k) = (IF job.exponential THEN b * q ELSE b)
    BY <1>1, <2>2 DEF Due
  <2>5. b * p = 2 * (b * q) /\ b * q \in Nat
    BY <2>3
  <2> QED
    BY <1>3, <2>4, <2>5
<1> QED
  BY <1>3, <1>4

\* No step of the arithmetic overflows as long as its result does not.
LEMMA NoOverflow ==
    ASSUME job \in Job, NEW k \in Nat, Due(k + 1) < Half
    PROVE  Wrap(Interval(k + 1) * Second) = Due(k + 1)
<1>1. PICK i \in Nat \ {0} : i = job.interval
  BY DEF Job
<1>2. PICK s \in Nat \ {0} : s = Second
  OBVIOUS
<1>3. PICK p \in Nat : p = 2 ^ k
  BY PowerType
<1>4. PICK h \in Nat \ {0} : h = Half
  BY HalfType
<1>5. CASE ~ job.exponential
  <2>1. Due(k + 1) = i * s /\ Interval(k + 1) = i
    BY <1>1, <1>2, <1>5 DEF Due, Interval
  <2>2. i * s \in - h .. h - 1
    BY <2>1, <1>4
  <2> QED
    BY <2>1, <2>2, <1>2, <1>4, WrapType
<1>6. CASE job.exponential
  <2>1. Due(k + 1) = i * s * p
    BY <1>1, <1>2, <1>3, <1>6 DEF Due
  <2>2. p <= i * p /\ i * p <= i * s * p /\ i * s * p = i * p * s
    <3>1. p <= i * p
      OBVIOUS
    <3>2. PICK n \in Nat : n = i * p
      OBVIOUS
    <3>3. n <= n * s
      OBVIOUS
    <3>4. i * s * p = i * p * s
      OBVIOUS
    <3> QED
      BY <3>1, <3>2, <3>3, <3>4
  <2>3. i * s * p < h /\ i * p < h /\ p < h
    BY <2>1, <2>2, <1>4
  <2>4. k < Bits
    <3>1. SUFFICES ASSUME k >= Bits PROVE FALSE
      OBVIOUS
    <3>2. Bits - 1 \in Nat /\ Bits - 1 <= k
      BY <3>1
    <3>3. 2 ^ (Bits - 1) <= 2 ^ k
      BY <3>2, PowerGrows
    <3>4. h <= p
      BY <3>3, <1>3, <1>4, Zenon DEF Half
    <3> QED
      BY <3>4, <2>3
  <2>5. ShiftLeft(k) = p
    <3>1. Wrap(p) = p
      BY <2>3, <1>4, WrapType
    <3> QED
      BY <3>1, <2>4, <1>3 DEF ShiftLeft
  <2>6. Factor(k + 1) = p
    <3>1. (k + 1) - 1 = k
      OBVIOUS
    <3> QED
      BY <3>1, <2>5 DEF Factor
  <2>7. Wrap(i * p) = i * p
    <3>1. i * p \in - h .. h - 1
      BY <2>3
    <3> QED
      BY <3>1, <1>4, WrapType
  <2>8. Interval(k + 1) = i * p
    BY <2>6, <2>7, <1>1, <1>6 DEF Interval
  <2>9. Wrap(i * p * s) = i * p * s
    <3>1. i * p * s \in - h .. h - 1
      BY <2>2, <2>3
    <3> QED
      BY <3>1, <1>4, WrapType
  <2> QED
    BY <2>1, <2>2, <2>8, <2>9, <1>2
<1> QED
  BY <1>5, <1>6

----------------------------------------------------------------------------
(* The steps *)

LEMMA ValidatedJob ==
    ASSUME NEW r \in Requests
    PROVE  /\ Validated(r) \in Job /\ Created(Validated(r)) \in Job
           /\ Validated(r).interval * Second < Half
           /\ Created(Validated(r)).interval * Second < Half
<1>1. PICK v : v = Validated(r)
  OBVIOUS
<1>2. v \in Job /\ v.interval \in {r.interval, DefaultInterval}
  <2>1. r \in [retries : Int, interval : Int, exponential : BOOLEAN]
    OBVIOUS
  <2>2. v = [retries |-> Larger(r.retries, 0), exponential |-> r.exponential,
             interval |-> IF r.interval <= 0 THEN DefaultInterval ELSE r.interval]
    BY <1>1, <2>1 DEF Validated
  <2> QED
    BY <2>1, <2>2 DEF Job, Larger
<1>3. v.interval * Second < Half
  BY <1>2 DEF Half
<1>4. Created(v) \in Job /\ Created(v).interval = v.interval
  BY <1>2 DEF Created, Job
<1> QED
  BY <1>1, <1>2, <1>3, <1>4

LEMMA EndType ==
    ASSUME NEW e \in Ends
    PROVE  /\ ExitCode(e) \in Int /\ Truncated(Stderr(e)) \in [length : Nat, marked : BOOLEAN]
           /\ ExitCode(e) = 0 <=> Succeeded(e)
           /\ MaxLog > 0 => Truncated(Stderr(e)).length <= MaxLog
           /\ MaxLog <= 0 \/ Marker <= MaxLog => Truncated(Stderr(e)).marked = e.late
BY DEF Ends, ExitCode, Truncated, Stderr, Fits, Succeeded

LEMMA AttemptsStart == Init => AttemptsInv
<1> SUFFICES ASSUME Init PROVE AttemptsInv
  OBVIOUS
<1>1. job \in Job /\ IntervalFits
  BY ValidatedJob DEF Init, IntervalFits
<1>2. NewTask \in Row
  BY DEF NewTask, Row
<1> QED
  BY <1>1, <1>2, HalfType
  DEF Init, AttemptsInv, Typed, Reporting, Doubling, RowTellsOutcome, NewTask

LEMMA UpdateStep == AttemptsInv /\ UpdateJob => AttemptsInv'
<1> SUFFICES ASSUME AttemptsInv, UpdateJob PROVE AttemptsInv'
  OBVIOUS
<1> USE DEF AttemptsInv
<1>1. job' \in Job /\ IntervalFits'
  BY ValidatedJob DEF UpdateJob, IntervalFits, Half
<1>2. UNCHANGED <<task, delay, report, last, longest>> /\ edited' = (edited \/ task.retry > 0)
  BY DEF UpdateJob
<1>3. Typed'
  BY <1>1, <1>2 DEF Typed, Half
<1>4. Doubling'
  BY <1>2 DEF Doubling
<1> QED
  BY <1>1, <1>2, <1>3, <1>4 DEF Reporting, RowTellsOutcome

LEMMA ExecuteStep == AttemptsInv /\ Execute => AttemptsInv'
<1> SUFFICES ASSUME AttemptsInv, Execute PROVE AttemptsInv'
  OBVIOUS
<1> USE DEF AttemptsInv
<1>1. /\ task.status \in {"pending", "retrying"} /\ task' = [task EXCEPT !.status = "running"]
      /\ longest' = Larger(longest, delay)
      /\ UNCHANGED <<job, delay, last, edited>> /\ report' \subseteq Ends
  BY DEF Execute
<1>2. PICK h \in Nat \ {0} : h = Half /\ h = Half'
  BY HalfType DEF Half
<1>3. Typed'
  BY <1>1, <1>2 DEF Typed, Row, Larger
<1>4. Doubling'
  <2>1. SUFFICES ASSUME ~ edited, task.retry > 0
                 PROVE  (2 * longest >= Half \/ (delay = Due(task.retry) /\ longest >= delay))'
    BY <1>1 DEF Doubling, Typed, Row
  <2>2. longest' >= longest /\ longest' >= delay /\ {longest, longest', delay} \subseteq Int
    BY <1>1, <1>2 DEF Larger, Typed
  <2>3. task'.retry = task.retry /\ Due(task.retry)' = Due(task.retry)
    BY <1>1 DEF Typed, Row, Due
  <2>4. CASE 2 * longest >= Half
    BY <2>2, <2>4, <1>2
  <2>5. CASE delay = Due(task.retry)
    BY <2>2, <2>3, <2>5, <1>1
  <2> QED
    BY <2>1, <2>4, <2>5 DEF Doubling
<1>5. RowTellsOutcome'
  BY <1>1 DEF RowTellsOutcome, Typed, Row, Succeeded, NewTask
<1>6. IntervalFits' /\ Reporting'
  BY <1>1 DEF IntervalFits, Half, Reporting, Typed, Row
<1> QED
  BY <1>3, <1>4, <1>5, <1>6

LEMMA RerunStep == AttemptsInv /\ RerunTask => AttemptsInv'
<1> SUFFICES ASSUME AttemptsInv, RerunTask PROVE AttemptsInv'
  OBVIOUS
<1> USE DEF AttemptsInv
<1>1. /\ task' = NewTask /\ delay' = 0 /\ longest' = 0 /\ edited' = FALSE /\ last' = {}
      /\ UNCHANGED <<job, report>>
  BY DEF RerunTask
<1>2. NewTask \in Row
  BY DEF NewTask, Row
<1>3. PICK h \in Nat \ {0} : h = Half /\ h = Half'
  BY HalfType DEF Half
<1>4. Typed'
  BY <1>1, <1>2, <1>3 DEF Typed, Row
<1> QED
  BY <1>1, <1>4 DEF IntervalFits, Half, Reporting, Doubling, RowTellsOutcome, NewTask

\* Of the three ways a report ends, only the retry touches the delay.
LEMMA ReportStep == AttemptsInv /\ ReportTask => AttemptsInv'
<1> SUFFICES ASSUME AttemptsInv, ReportTask PROVE AttemptsInv'
  OBVIOUS
<1> USE DEF AttemptsInv
<1> DEFINE Told(e, s, k) == [status |-> s, retry |-> k, exit |-> ExitCode(e),
                             stderr |-> Truncated(Stderr(e))]
<1>1. PICK e \in report :
        /\ report' = {} /\ last' = {e} /\ UNCHANGED <<job, longest, edited>>
        /\ \/ Succeeded(e) /\ task' = Told(e, "success", task.retry) /\ delay' = delay
           \/ ~ Succeeded(e) /\ task' = Told(e, "dead_letter", task.retry) /\ delay' = delay
           \/ /\ ~ Succeeded(e) /\ task.retry < MaxCount
              /\ task' = Told(e, "retrying", task.retry + 1)
              /\ delay' = Wrap(Interval(task.retry + 1) * Second)
  <2>1. task \in Row
    BY DEF Typed
  <2>2. ASSUME NEW e \in report, NEW s, NEW k
        PROVE  /\ [[task EXCEPT !.exit = ExitCode(e), !.stderr = Truncated(Stderr(e))]
                     EXCEPT !.status = s] = Told(e, s, task.retry)
               /\ [[task EXCEPT !.exit = ExitCode(e), !.stderr = Truncated(Stderr(e))]
                     EXCEPT !.status = s, !.retry = @ + 1] = Told(e, s, task.retry + 1)
    <3>1. PICK told : told = [task EXCEPT !.exit = ExitCode(e), !.stderr = Truncated(Stderr(e))]
      OBVIOUS
    <3>2. told = Told(e, task.status, task.retry)
      BY <2>1, <3>1 DEF Row
    <3>3. [told EXCEPT !.status = s] = Told(e, s, task.retry)
      BY <3>2
    <3>4. [told EXCEPT !.status = s, !.retry = @ + 1] = Told(e, s, task.retry + 1)
      <4>1. told.retry = task.retry
        BY <3>2
      <4>2. PICK n : n = task.retry + 1
        OBVIOUS
      <4>3. [told EXCEPT !.status = s, !.retry = n] = [[told EXCEPT !.status = s] EXCEPT !.retry = n]
        OBVIOUS
      <4>4. [Told(e, s, task.retry) EXCEPT !.retry = n] = Told(e, s, n)
        OBVIOUS
      <4> QED
        BY <3>3, <4>1, <4>2, <4>3, <4>4
    <3> QED
      BY <3>1, <3>3, <3>4
  <2> QED
    BY <2>2 DEF ReportTask, Status
<1>2. PICK s \in {"success", "dead_letter", "retrying"}, k \in 0 .. MaxCount :
        /\ s = "success" <=> Succeeded(e)
        /\ task' = Told(e, s, k)
        /\ \/ s # "retrying" /\ k = task.retry /\ delay' = delay
           \/ s = "retrying" /\ k = task.retry + 1 /\ delay' = Wrap(Interval(k) * Second)
  BY <1>1 DEF Typed, Row
<1>3. e \in Ends /\ task.status # "retrying" /\ task.retry \in Nat
  BY DEF Typed, Row, Reporting
<1>4. PICK h \in Nat \ {0} : h = Half /\ h = Half'
  BY HalfType DEF Half
<1>5. task' \in Row
  BY <1>2, <1>3, EndType DEF Row
<1>6. delay' \in - h .. h - 1
  <2>1. CASE s # "retrying"
    BY <2>1, <1>2, <1>4 DEF Typed
  <2>2. CASE s = "retrying"
    <3>1. k \in Nat \ {0}
      BY <2>2, <1>2, <1>3
    <3>2. Interval(k) * Second \in Int
      BY <3>1, IntervalType DEF Typed
    <3> QED
      BY <3>2, <2>2, <1>2, <1>4, WrapType
  <2> QED
    BY <2>1, <2>2
<1>7. Typed'
  BY <1>1, <1>3, <1>4, <1>5, <1>6 DEF Typed, Row, Job
<1>8. RowTellsOutcome'
  <2>1. last' = {e} /\ task'.status = s /\ task'.exit = ExitCode(e)
        /\ task'.stderr = Truncated(Stderr(e))
    BY <1>1, <1>2
  <2> QED
    BY <2>1, <1>2, <1>3, EndType DEF RowTellsOutcome, Succeeded
<1>9. Doubling'
  <2>1. SUFFICES ASSUME ~ edited, k > 0
                 PROVE  \/ 2 * longest >= Half
                        \/ delay' = Due(k) /\ (s # "retrying" => longest >= delay')
    BY <1>1, <1>2 DEF Doubling, Due, Half
  <2>2. CASE s # "retrying"
    BY <2>1, <2>2, <1>2, <1>3 DEF Doubling
  <2>3. CASE s = "retrying"
    <3>1. PICK r \in Nat : r = task.retry /\ k = r + 1 /\ delay' = Wrap(Interval(r + 1) * Second)
      BY <2>3, <1>2, <1>3
    <3>2. SUFFICES ASSUME ~ (2 * longest >= Half) PROVE Due(r + 1) < Half
      BY <2>3, <3>1, NoOverflow DEF Typed
    <3>3. CASE r = 0
      <4>1. Due(r + 1) = job.interval * Second * 1
        BY <3>3, PowerZero DEF Due, Typed, Job
      <4>2. PICK b \in Nat : b = job.interval * Second
        BY DEF Typed, Job
      <4> QED
        BY <4>1, <4>2 DEF IntervalFits
    <3>4. CASE r > 0
      <4>1. delay = Due(r) /\ longest >= delay
        BY <3>1, <3>2, <3>4, <2>1, <1>3 DEF Doubling
      <4>2. Due(r) \in Nat /\ Due(r + 1) \in Nat /\ Due(r + 1) <= 2 * Due(r)
        BY <3>4, DueDoubles DEF Typed
      <4>3. longest \in Nat
        BY <1>4 DEF Typed
      <4> QED
        BY <4>1, <4>2, <4>3, <3>2, <1>4
    <3> QED
      BY <3>3, <3>4
  <2> QED
    BY <2>2, <2>3
<1>10. Reporting'
  <2>1. report' = {} /\ task'.status = s /\ task'.retry = k /\ s # "pending"
    BY <1>1, <1>2
  <2>2. s = "retrying" => k > 0
    BY <1>2, <1>3
  <2> QED
    BY <2>1, <2>2 DEF Reporting
<1> QED
  BY <1>1, <1>7, <1>8, <1>9, <1>10 DEF IntervalFits, Half

LEMMA AttemptsStep == AttemptsInv /\ [Next]_vars => AttemptsInv'
<1> SUFFICES ASSUME AttemptsInv, [Next]_vars PROVE AttemptsInv'
  OBVIOUS
<1>1. CASE UNCHANGED vars
  BY <1>1 DEF vars, AttemptsInv, Typed, IntervalFits, Half, Reporting, Doubling, Due,
    RowTellsOutcome
<1>2. CASE Next
  BY <1>1, <1>2, UpdateStep, ExecuteStep, RerunStep, ReportStep DEF Next, Rest
<1> QED
  BY <1>1, <1>2

LEMMA AttemptsReachable == Spec => []AttemptsInv
BY AttemptsStart, AttemptsStep, PTL DEF Spec

----------------------------------------------------------------------------
(* Theorems *)

\* The job, its task and the reports keep their shapes; retry_count and the
\* delay stay in their ranges, whatever handleTaskReport multiplies and shifts.
THEOREM AttemptsTyped == Spec => []TypeOK
<1>1. AttemptsInv => TypeOK
  BY DEF AttemptsInv, Typed, Job, Row, TypeOK
<1> QED
  BY <1>1, AttemptsReachable, PTL

\* The row tells how the last attempt ended, for any limit of the log and any
\* length of the marker of executeTask's timeout.
THEOREM RowsTell == Spec => []RowTellsOutcome
<1>1. AttemptsInv => RowTellsOutcome
  BY DEF AttemptsInv
<1> QED
  BY <1>1, AttemptsReachable, PTL

\* The backoff of handleTaskReport is exact for words of any width, in every
\* unit of time that fits the intervals, until half the range has been waited.
THEOREM BackoffDoubles == Spec => []BackoffExact
<1>1. AttemptsInv => BackoffExact
  <2>1. SUFFICES ASSUME AttemptsInv, task.status = "retrying", ~ edited
                 PROVE  delay = Due(task.retry) \/ 2 * longest >= Half
    BY DEF BackoffExact, Due
  <2> QED
    <3>1. task.retry > 0
      BY <2>1 DEF AttemptsInv, Reporting
    <3> QED
      BY <2>1, <3>1 DEF AttemptsInv, Doubling
<1> QED
  BY <1>1, AttemptsReachable, PTL
=============================================================================
