--------------------------- MODULE DispatchProofs ---------------------------
(***************************************************************************)
(* Proofs about Dispatch, for any jobs, dependencies and keys, and any     *)
(* number of dispatches at the same time.                                  *)
(***************************************************************************)
EXTENDS Dispatch, TLAPS

USE DispatchAssumption

Status == {"new", "other", "success", "deleted"}

\* A row of the table is a row.
LEMMA RowTyped ==
    ASSUME TypeOK, NEW i \in Ids
    PROVE  tasks[i] \in TaskRow
BY DEF TypeOK, Ids

\* tasks' is tasks but for the status of row i.
Writes(i, s) == tasks' = [tasks EXCEPT ![i].status = s]

\* Writing the status of a row keeps the table's type and length, and the job
\* and the key of every row.
LEMMA WriteFacts ==
    ASSUME TypeOK, NEW i \in Ids, NEW s \in Status, Writes(i, s)
    PROVE  /\ tasks' \in Seq(TaskRow) /\ Len(tasks') = Len(tasks) /\ Ids' = Ids
           /\ \A k \in Ids :
                /\ tasks'[k].job = tasks[k].job /\ tasks'[k].key = tasks[k].key
                /\ tasks'[k].status = IF k = i THEN s ELSE tasks[k].status
<1> DEFINE row == [tasks[i] EXCEPT !.status = s]
<1>1. row \in TaskRow /\ row.job = tasks[i].job /\ row.key = tasks[i].key /\ row.status = s
  BY RowTyped DEF TaskRow, Status
<1>2. tasks' = [tasks EXCEPT ![i] = row]
  BY DEF Writes
<1> HIDE DEF row
<1>3. tasks' \in Seq(TaskRow) /\ Len(tasks') = Len(tasks)
  BY <1>1, <1>2 DEF TypeOK, Ids
<1>4. \A k \in Ids : tasks'[k] = IF k = i THEN row ELSE tasks[k]
  BY <1>2 DEF TypeOK, Ids
<1> QED
  BY <1>1, <1>3, <1>4 DEF Ids

\* A stamp appends one row and keeps the others.
LEMMA StampFacts ==
    ASSUME TypeOK, NEW c \in dispatches, StampTask(c)
    PROVE  /\ tasks' \in Seq(TaskRow)
           /\ Len(tasks') = Len(tasks) + 1 /\ Len(tasks') \in 1 .. MaxTasks
           /\ Ids' = Ids \cup {Len(tasks')}
           /\ tasks'[Len(tasks')] = [job |-> c.job, key |-> c.key, status |-> "new"]
           /\ \A k \in Ids : tasks'[k] = tasks[k]
<1>1. [job |-> c.job, key |-> c.key, status |-> "new"] \in TaskRow
  BY DEF TypeOK, Call, CallRecord, TaskRow
<1> QED
  BY <1>1 DEF TypeOK, StampTask, Ids

----------------------------------------------------------------------------
(* Types *)

LEMMA TypeInit == Init => TypeOK
BY DEF Init, TypeOK, TaskRow, Call, CallRecord

\* Steps that replace a call by calls keep the type of `dispatches`.
LEMMA CallsTyped ==
    ASSUME TypeOK, NEW c, NEW S \in SUBSET Call, Advance(c, S)
    PROVE  dispatches' \subseteq Call
BY DEF TypeOK, Advance

\* Every step keeps the types.
LEMMA TypeStep ==
    ASSUME TypeOK, \A c \in dispatches : c.step = "insert" => c.row \in Ids, [Next]_vars
    PROVE  TypeOK'
<1>1. ASSUME NEW j \in Jobs, NEW k \in Keys \cup {NoKey}, Trigger(j, k) PROVE TypeOK'
  BY <1>1 DEF TypeOK, Trigger, Call, CallRecord, IsLeast, jobsTable
<1>2. ASSUME NEW c \in dispatches, CheckKey(c) PROVE TypeOK'
  <2>1. [c EXCEPT !.step = "deps"] \in Call
    BY <1>2 DEF CheckKey, TypeOK, Call, CallRecord
  <2>2. dispatches' \subseteq Call
    BY <1>2, <2>1, CallsTyped DEF CheckKey, Return
  <2> QED
    BY <1>2, <2>2 DEF TypeOK, CheckKey, jobsTable
<1>3. ASSUME NEW c \in dispatches, CheckDependency(c) PROVE TypeOK'
  <2>1. \A d \in c.todo : [c EXCEPT !.todo = @ \ {d}] \in Call
    BY <1>3 DEF TypeOK, CheckDependency, Call, CallRecord
  <2>2. dispatches' \subseteq Call
    BY <1>3, <2>1, CallsTyped DEF CheckDependency, Return
  <2> QED
    BY <1>3, <2>2 DEF TypeOK, CheckDependency, jobsTable
<1>4. ASSUME NEW c \in dispatches, StampTask(c) PROVE TypeOK'
  <2>1. Len(tasks) + 1 \in 0 .. MaxTasks /\ Len(tasks') <= MaxTasks
    <3>1. Len(tasks') = Len(tasks) + 1 /\ Len(tasks') \in 1 .. MaxTasks
      BY <1>4, StampFacts
    <3> QED
      BY <3>1
  <2>2. [c EXCEPT !.step = "insert", !.row = Len(tasks) + 1] \in Call
    <3>1. c \in Call /\ c.todo = {}
      BY <1>4 DEF TypeOK, StampTask
    <3> QED
      BY <2>1, <3>1 DEF Call, CallRecord
  <2>3. dispatches' \subseteq Call
    BY <1>4, <2>2, CallsTyped DEF StampTask
  <2> QED
    BY <1>4, <2>1, <2>3, StampFacts DEF TypeOK, StampTask, jobsTable
<1>5. ASSUME NEW c \in dispatches, CreateTask(c) PROVE TypeOK'
  <2>1. dispatches' \subseteq Call
    BY <1>5, CallsTyped DEF CreateTask, Return
  <2>2. tasks' \in Seq(TaskRow) /\ Len(tasks') = Len(tasks)
    <3>1. CASE Inserts(c.key)
      BY <1>5, <3>1, WriteFacts DEF CreateTask, Writes, Status
    <3>2. CASE ~ Inserts(c.key)
      BY <1>5, <3>2 DEF CreateTask, TypeOK
    <3> QED
      BY <3>1, <3>2
  <2> QED
    BY <1>5, <2>1, <2>2 DEF TypeOK, CreateTask, jobsTable
<1>6. ASSUME NEW i \in Ids, TaskSaved(i) PROVE TypeOK'
  <2>1. tasks[i].job \in Jobs
    BY RowTyped DEF TaskRow
  <2>2. tasks' \in Seq(TaskRow) /\ Len(tasks') = Len(tasks)
    BY <1>6, WriteFacts DEF TaskSaved, Writes, Status
  <2> QED
    BY <1>6, <2>1, <2>2 DEF TaskSaved, TypeOK, jobsTable
<1>7. ASSUME NEW i \in Ids, TaskDeleted(i) PROVE TypeOK'
  <2>1. tasks' \in Seq(TaskRow) /\ Len(tasks') = Len(tasks)
    BY <1>7, WriteFacts DEF TaskDeleted, Writes, Status
  <2> QED
    BY <1>7, <2>1 DEF TaskDeleted, TypeOK, jobsTable
<1>8. ASSUME NEW j \in Jobs, DeleteJob(j) PROVE TypeOK'
  BY <1>8 DEF TypeOK, DeleteJob
<1>9. ASSUME NEW j \in Jobs, NEW D \in Lists, WriteJob(j, D) PROVE TypeOK'
  BY <1>9 DEF TypeOK, WriteJob
<1>10. CASE UNCHANGED vars
  BY <1>10 DEF vars, jobsTable, TypeOK
<1> QED
  BY <1>1, <1>2, <1>3, <1>4, <1>5, <1>6, <1>7, <1>8, <1>9, <1>10 DEF Next

----------------------------------------------------------------------------
(* The inductive invariant.  `succeeded` only grows, so what a dispatch    *)
(* has checked remains true until it stamps its row; and a row enters the  *)
(* table only while its key is free.                                       *)

\* The dependencies that a dispatch has checked off have succeeded, and it has
\* checked all before it stamps a row.
Checked(c, S) == c.needs \ c.todo \subseteq S /\ (c.step = "insert" => c.todo = {})

ChecksHold == \A c \in dispatches : Checked(c, succeeded)

\* A dispatch about to insert has a row of its own key.
StampsHold ==
    \A c \in dispatches :
      c.step = "insert" => c.row \in Ids /\ tasks[c.row].key = c.key

\* A success is recorded as long as its row is there.
RowsHold == \A i \in Ids : tasks[i].status = "success" => tasks[i].job \in succeeded

DispatchInv == TypeOK /\ ChecksHold /\ StampsHold /\ RowsHold /\ KeyUsedOnce

LEMMA InvInit == Init => DispatchInv
BY TypeInit DEF Init, DispatchInv, ChecksHold, Checked, StampsHold, RowsHold, KeyUsedOnce,
                InTable, Ids

\* A write that lets a row into the table only while its key is free, and
\* records a success, keeps what concerns rows.
LEMMA WriteKeepsRows ==
    ASSUME DispatchInv, NEW i \in Ids, NEW s \in {"other", "success", "deleted"},
           Writes(i, s), succeeded \subseteq succeeded',
           s = "success" => tasks[i].job \in succeeded',
           s # "deleted" => InTable(i) \/ ~ KeyTaken(tasks[i].key)
    PROVE  RowsHold' /\ KeyUsedOnce'
<1>1. /\ Ids' = Ids
      /\ \A k \in Ids :
           /\ tasks'[k].job = tasks[k].job /\ tasks'[k].key = tasks[k].key
           /\ tasks'[k].status = IF k = i THEN s ELSE tasks[k].status
  BY WriteFacts DEF DispatchInv, Status
<1>2. RowsHold'
  BY <1>1 DEF DispatchInv, RowsHold
<1>3. KeyUsedOnce'
  <2> SUFFICES ASSUME NEW x \in Ids, NEW y \in Ids, InTable(x)', InTable(y)',
                      tasks[x].key = tasks[y].key, tasks[x].key # NoKey
               PROVE  x = y
    BY <1>1 DEF KeyUsedOnce
  <2>1. \A k \in Ids \ {i} : InTable(k)' <=> InTable(k)
    BY <1>1 DEF InTable
  <2>2. InTable(i)' => InTable(i) \/ ~ KeyTaken(tasks[i].key)
    BY <1>1 DEF InTable
  <2> QED
    BY <2>1, <2>2 DEF DispatchInv, KeyUsedOnce, KeyTaken
<1> QED
  BY <1>2, <1>3

\* A dispatch that advances to calls S keeps the facts about calls.
LEMMA AdvanceKeepsCalls ==
    ASSUME DispatchInv, NEW c \in dispatches, NEW S, Advance(c, S),
           succeeded \subseteq succeeded', Ids \subseteq Ids',
           \A k \in Ids : tasks'[k].key = tasks[k].key,
           \A d \in S : Checked(d, succeeded'),
           \A d \in S : d.step = "insert" => d.row \in Ids' /\ tasks'[d.row].key = d.key
    PROVE  ChecksHold' /\ StampsHold'
BY DEF DispatchInv, ChecksHold, Checked, StampsHold, Advance

\* Every step keeps the invariant.
LEMMA InvStep == DispatchInv /\ [Next]_vars => DispatchInv'
<1> SUFFICES ASSUME DispatchInv, [Next]_vars PROVE DispatchInv'
  OBVIOUS
<1> USE DEF DispatchInv
<1> TypeOK'
  BY TypeStep DEF StampsHold
<1>1. ASSUME NEW j \in Jobs, NEW k \in Keys \cup {NoKey}, Trigger(j, k)
      PROVE  DispatchInv'
  BY <1>1 DEF Trigger, ChecksHold, Checked, StampsHold, RowsHold, KeyUsedOnce, InTable, Ids
<1>2. ASSUME NEW c \in dispatches, CheckKey(c) PROVE DispatchInv'
  <2> DEFINE d == [c EXCEPT !.step = "deps"]
  <2>1. d.step = "deps" /\ Checked(d, succeeded)
    BY DEF TypeOK, Call, CallRecord, ChecksHold, Checked
  <2>2. ChecksHold' /\ StampsHold'
    <3> HIDE DEF d
    <3>1. Advance(c, {}) \/ Advance(c, {d})
      BY <1>2 DEF CheckKey, Return, d
    <3> QED
      BY <1>2, <2>1, <3>1, AdvanceKeepsCalls DEF CheckKey, Ids
  <2> QED
    BY <1>2, <2>2 DEF CheckKey, RowsHold, KeyUsedOnce, InTable, Ids
<1>3. ASSUME NEW c \in dispatches, CheckDependency(c) PROVE DispatchInv'
  <2>1. PICK d \in c.todo :
          \/ DependencyMet(d) /\ Advance(c, {[c EXCEPT !.todo = @ \ {d}]})
          \/ ~ DependencyMet(d) /\ Return(c)
    BY <1>3 DEF CheckDependency
  <2>2. DependencyMet(d) => d \in succeeded
    BY DEF DependencyMet, IsLatest, RowsHold
  <2> DEFINE e == [c EXCEPT !.todo = @ \ {d}]
  <2>3. e.step = c.step /\ e.needs = c.needs /\ e.todo = c.todo \ {d}
    BY DEF TypeOK, Call, CallRecord
  <2>4. ChecksHold' /\ StampsHold'
    <3>1. CASE DependencyMet(d) /\ Advance(c, {e})
      <4>1. e.step = "deps" /\ Checked(e, succeeded)
        BY <1>3, <2>2, <2>3, <3>1 DEF CheckDependency, ChecksHold, Checked
      <4> HIDE DEF e
      <4> QED
        BY <1>3, <3>1, <4>1, AdvanceKeepsCalls DEF CheckDependency, Ids
    <3>2. CASE Return(c)
      BY <1>3, <3>2, AdvanceKeepsCalls DEF CheckDependency, Return, Ids
    <3> QED
      BY <2>1, <3>1, <3>2
  <2> QED
    BY <1>3, <2>4 DEF CheckDependency, RowsHold, KeyUsedOnce, InTable, Ids
<1>4. ASSUME NEW c \in dispatches, StampTask(c) PROVE DispatchInv'
  <2> DEFINE n == Len(tasks) + 1
             d == [c EXCEPT !.step = "insert", !.row = n]
  <2>1. d.step = "insert" /\ d.row = n /\ d.key = c.key /\ Checked(d, succeeded)
    <3>1. c \in Call
      BY DEF TypeOK
    <3>2. d.step = "insert" /\ d.row = n /\ d.key = c.key /\ d.needs = c.needs /\ d.todo = c.todo
      BY <3>1 DEF Call, CallRecord
    <3> QED
      BY <1>4, <3>2 DEF StampTask, ChecksHold, Checked
  <2>2. /\ Ids' = Ids \cup {n} /\ n \notin Ids
        /\ tasks'[n] = [job |-> c.job, key |-> c.key, status |-> "new"]
        /\ \A k \in Ids : tasks'[k] = tasks[k]
    BY <1>4, StampFacts DEF Ids, TypeOK
  <2>3. ChecksHold' /\ StampsHold'
    <3>1. Advance(c, {d}) /\ succeeded' = succeeded
      BY <1>4 DEF StampTask
    <3> HIDE DEF d, n
    <3>2. Checked(d, succeeded') /\ d.row \in Ids' /\ tasks'[d.row].key = d.key
      BY <2>1, <2>2, <3>1
    <3>3. \A k \in Ids : tasks'[k].key = tasks[k].key
      BY <2>2
    <3> QED
      BY <2>1, <2>2, <3>1, <3>2, <3>3, AdvanceKeepsCalls
  <2>4. succeeded' = succeeded
    BY <1>4 DEF StampTask
  <2>5. RowsHold'
    BY <2>2, <2>4 DEF RowsHold
  <2>6. KeyUsedOnce'
    <3>1. \A k \in Ids' : InTable(k)' => k \in Ids /\ InTable(k)
      BY <2>2 DEF InTable
    <3> QED
      BY <2>2, <3>1 DEF KeyUsedOnce
  <2> QED
    BY <2>3, <2>5, <2>6
<1>5. ASSUME NEW c \in dispatches, CreateTask(c) PROVE DispatchInv'
  <2>1. c.row \in Ids /\ tasks[c.row].key = c.key
    BY <1>5 DEF CreateTask, StampsHold
  <2>2. CASE Inserts(c.key)
    <3>1. Writes(c.row, "other")
      BY <1>5, <2>2 DEF CreateTask, Writes
    <3>2. RowsHold' /\ KeyUsedOnce'
      BY <1>5, <2>1, <2>2, <3>1, WriteKeepsRows DEF CreateTask, Inserts
    <3>3. ChecksHold' /\ StampsHold'
      BY <1>5, <2>1, <3>1, WriteFacts, AdvanceKeepsCalls DEF CreateTask, Return, Status
    <3> QED
      BY <3>2, <3>3
  <2>3. CASE ~ Inserts(c.key)
    <3>1. tasks' = tasks /\ succeeded' = succeeded /\ Advance(c, {})
      BY <1>5, <2>3 DEF CreateTask, Return
    <3>2. ChecksHold' /\ StampsHold'
      BY <3>1, AdvanceKeepsCalls DEF Ids
    <3> QED
      BY <3>1, <3>2 DEF RowsHold, KeyUsedOnce, InTable, Ids
  <2> QED
    BY <2>2, <2>3
<1>6. ASSUME NEW i \in Ids, TaskSaved(i) PROVE DispatchInv'
  <2>1. PICK s \in {"other", "success"} :
          /\ Writes(i, s)
          /\ succeeded' = succeeded \cup (IF s = "success" THEN {tasks[i].job} ELSE {})
    BY <1>6 DEF TaskSaved, Writes
  <2>2. InTable(i) \/ ~ KeyTaken(tasks[i].key)
    BY <1>6 DEF TaskSaved, InTable, Inserts
  <2>3. RowsHold' /\ KeyUsedOnce'
    BY <2>1, <2>2, WriteKeepsRows
  <2>4. ChecksHold' /\ StampsHold'
    BY <1>6, <2>1, WriteFacts DEF TaskSaved, ChecksHold, Checked, StampsHold, Status
  <2> QED
    BY <2>3, <2>4
<1>7. ASSUME NEW i \in Ids, TaskDeleted(i) PROVE DispatchInv'
  <2>1. Writes(i, "deleted") /\ succeeded' = succeeded /\ dispatches' = dispatches
    BY <1>7 DEF TaskDeleted, Writes
  <2>2. RowsHold' /\ KeyUsedOnce'
    BY <2>1, WriteKeepsRows
  <2>3. ChecksHold' /\ StampsHold'
    BY <2>1, WriteFacts DEF ChecksHold, Checked, StampsHold, Status
  <2> QED
    BY <2>2, <2>3
<1>8. ASSUME NEW j \in Jobs, DeleteJob(j) PROVE DispatchInv'
  BY <1>8 DEF DeleteJob, ChecksHold, StampsHold, RowsHold, KeyUsedOnce, InTable, Ids
<1>9. ASSUME NEW j \in Jobs, NEW D \in Lists, WriteJob(j, D) PROVE DispatchInv'
  BY <1>9 DEF WriteJob, ChecksHold, StampsHold, RowsHold, KeyUsedOnce, InTable, Ids
<1>10. CASE UNCHANGED vars
  BY <1>10 DEF vars, ChecksHold, StampsHold, RowsHold, KeyUsedOnce, InTable, Ids
<1> QED
  BY <1>1, <1>2, <1>3, <1>4, <1>5, <1>6, <1>7, <1>8, <1>9, <1>10 DEF Next

LEMMA Invariant == Spec => []DispatchInv
BY InvInit, InvStep, PTL DEF Spec

----------------------------------------------------------------------------
(* The theorems *)

\* Every variable keeps to its type (TypeOK).
THEOREM DispatchTypes == Spec => []TypeOK
<1>1. DispatchInv => TypeOK
  BY DEF DispatchInv
<1> QED
  BY <1>1, Invariant, PTL

\* However many triggers race with one key, one task at most in the table
\* carries it (KeyUsedOnce): the check before and the unique index.
THEOREM KeysUnique == Spec => []KeyUsedOnce
<1>1. DispatchInv => KeyUsedOnce
  BY DEF DispatchInv
<1> QED
  BY <1>1, Invariant, PTL

\* A task is inserted only after each dependency that its job named when the
\* dispatch began has had a success (DependenciesRan), although dispatchJob reads,
\* checks and inserts in several steps, between which the job may be edited.
THEOREM DependenciesFirst == Spec => DependenciesRan
<1>1. DispatchInv /\ [Next]_vars =>
        [\A c \in dispatches :
           c.step = "insert" /\ tasks'[c.row].status # "new" => c.needs \subseteq succeeded]_vars
  BY DEF DispatchInv, ChecksHold, Checked
<1> QED
  BY <1>1, Invariant, PTL DEF Spec, DependenciesRan

----------------------------------------------------------------------------
(* Cycles.  While nobody edits, a dispatch works with the dependencies of  *)
(* the beginning; and of a deadlocked set no job can be the first with a   *)
(* task, since it waits for one of them.                                   *)

Unedited ==
    /\ dependsOn = DependsOn
    /\ \A c \in dispatches : c.needs = DependsOn[c.job]

NoneHasRun(C) == succeeded \cap C = {} /\ \A i \in Ids : tasks[i].job \notin C

CycleInv ==
    edits = 0 => Unedited /\ \A C \in SUBSET Jobs : Deadlocked(C) => NoneHasRun(C)

LEMMA CycleInit == Init => CycleInv
BY DEF Init, CycleInv, Unedited, NoneHasRun, Ids

\* As long as nobody edits, a dispatch keeps the dependencies it has read.
LEMMA UneditedStep ==
    ASSUME DispatchInv, Unedited, [Next]_vars, edits' = 0
    PROVE  Unedited'
<1> USE DEF Unedited
<1>1. ASSUME NEW j \in Jobs, NEW k \in Keys \cup {NoKey}, Trigger(j, k) PROVE Unedited'
  BY <1>1 DEF Trigger, jobsTable
<1>2. ASSUME NEW c \in dispatches, NEW d, Advance(c, {}) \/ Advance(c, {d}),
             d.needs = c.needs, d.job = c.job, dependsOn' = dependsOn
      PROVE  Unedited'
  BY <1>2 DEF Advance
<1>3. \A c \in dispatches : c \in Call
  BY DEF DispatchInv, TypeOK
<1>4. ASSUME NEW c \in dispatches, CheckKey(c) PROVE Unedited'
  <2> DEFINE d == [c EXCEPT !.step = "deps"]
  <2>1. d.needs = c.needs /\ d.job = c.job
    BY <1>3 DEF Call, CallRecord
  <2>2. (Advance(c, {}) \/ Advance(c, {d})) /\ dependsOn' = dependsOn
    BY <1>4 DEF CheckKey, Return, jobsTable
  <2> QED
    BY <1>2, <2>1, <2>2
<1>5. ASSUME NEW c \in dispatches, CheckDependency(c) PROVE Unedited'
  <2>1. PICK x \in c.todo : Advance(c, {}) \/ Advance(c, {[c EXCEPT !.todo = @ \ {x}]})
    BY <1>5 DEF CheckDependency, Return
  <2> DEFINE d == [c EXCEPT !.todo = @ \ {x}]
  <2>2. d.needs = c.needs /\ d.job = c.job
    BY <1>3 DEF Call, CallRecord
  <2>3. dependsOn' = dependsOn
    BY <1>5 DEF CheckDependency, jobsTable
  <2> QED
    BY <1>2, <2>1, <2>2, <2>3
<1>6. ASSUME NEW c \in dispatches, StampTask(c) PROVE Unedited'
  <2> DEFINE d == [c EXCEPT !.step = "insert", !.row = Len(tasks) + 1]
  <2>1. d.needs = c.needs /\ d.job = c.job
    BY <1>3 DEF Call, CallRecord
  <2>2. Advance(c, {d}) /\ dependsOn' = dependsOn
    BY <1>6 DEF StampTask, jobsTable
  <2> QED
    BY <1>2, <2>1, <2>2
<1>7. ASSUME NEW c \in dispatches, CreateTask(c) PROVE Unedited'
  BY <1>7, <1>2 DEF CreateTask, Return, jobsTable
<1>8. ASSUME NEW i \in Ids, TaskSaved(i) \/ TaskDeleted(i) PROVE Unedited'
  BY <1>8 DEF TaskSaved, TaskDeleted, jobsTable
<1>9. ASSUME NEW j \in Jobs, DeleteJob(j) PROVE Unedited'
  BY <1>9 DEF DeleteJob
<1>10. ASSUME NEW j \in Jobs, NEW D \in Lists, WriteJob(j, D) PROVE FALSE
  BY <1>10 DEF WriteJob, DispatchInv, TypeOK
<1>11. CASE UNCHANGED vars
  BY <1>11 DEF vars, jobsTable
<1> QED
  BY <1>1, <1>4, <1>5, <1>6, <1>7, <1>8, <1>9, <1>10, <1>11 DEF Next

\* A step that edits nothing gives no job of a deadlocked set its first task.
LEMMA NoneRuns ==
    ASSUME DispatchInv, Unedited, [Next]_vars, edits' = 0,
           NEW C \in SUBSET Jobs, Deadlocked(C), NoneHasRun(C)
    PROVE  NoneHasRun(C)'
<1> USE DEF NoneHasRun
<1>1. CASE UNCHANGED <<tasks, succeeded>>
  BY <1>1 DEF Ids
<1>2. ASSUME NEW c \in dispatches, StampTask(c) PROVE NoneHasRun(C)'
  <2>1. c.job \notin C
    BY <1>2 DEF StampTask, DispatchInv, ChecksHold, Checked, Unedited, Deadlocked
  <2>2. succeeded' = succeeded
    BY <1>2 DEF StampTask
  <2>3. TypeOK
    BY DEF DispatchInv
  <2>4. /\ Ids' = Ids \cup {Len(tasks')}
        /\ tasks'[Len(tasks')] = [job |-> c.job, key |-> c.key, status |-> "new"]
        /\ \A k \in Ids : tasks'[k] = tasks[k]
    BY <1>2, <2>3, StampFacts
  <2> QED
    BY <2>1, <2>2, <2>4
<1>3. ASSUME NEW i \in Ids, NEW s \in Status, Writes(i, s),
             succeeded' \subseteq succeeded \cup {tasks[i].job}
      PROVE  NoneHasRun(C)'
  BY <1>3, WriteFacts DEF DispatchInv
<1>4. ASSUME NEW c \in dispatches, CreateTask(c) PROVE NoneHasRun(C)'
  <2>1. CASE Inserts(c.key)
    <3>1. c.row \in Ids
      BY <1>4 DEF CreateTask, DispatchInv, StampsHold
    <3>2. Writes(c.row, "other") /\ succeeded' = succeeded
      BY <1>4, <2>1 DEF CreateTask, Writes
    <3> QED
      BY <1>3, <3>1, <3>2 DEF Status
  <2>2. CASE ~ Inserts(c.key)
    BY <1>1, <1>4, <2>2 DEF CreateTask
  <2> QED
    BY <2>1, <2>2
<1>5. ASSUME NEW i \in Ids, TaskSaved(i) PROVE NoneHasRun(C)'
  BY <1>3, <1>5 DEF TaskSaved, Writes, Status
<1>6. ASSUME NEW i \in Ids, TaskDeleted(i) PROVE NoneHasRun(C)'
  BY <1>3, <1>6 DEF TaskDeleted, Writes, Status
<1>7. ASSUME NEW c \in dispatches, CheckKey(c) \/ CheckDependency(c) PROVE NoneHasRun(C)'
  BY <1>1, <1>7 DEF CheckKey, CheckDependency
<1>8. ASSUME NEW j \in Jobs, NEW k \in Keys \cup {NoKey}, Trigger(j, k) PROVE NoneHasRun(C)'
  BY <1>1, <1>8 DEF Trigger
<1>9. ASSUME NEW j \in Jobs, DeleteJob(j) \/ \E D \in Lists : WriteJob(j, D)
      PROVE  NoneHasRun(C)'
  BY <1>1, <1>9 DEF DeleteJob, WriteJob
<1>10. CASE UNCHANGED vars
  BY <1>1, <1>10 DEF vars
<1> QED
  BY <1>2, <1>4, <1>5, <1>6, <1>7, <1>8, <1>9, <1>10 DEF Next

\* Edits are only counted up.
LEMMA EditsGrow == TypeOK /\ [Next]_vars /\ edits' = 0 => edits = 0
<1>1. [Next]_vars => edits' = edits \/ edits' = edits + 1
  BY DEF Next, vars, jobsTable, Trigger, CheckKey, CheckDependency, StampTask, CreateTask,
         TaskSaved, TaskDeleted, DeleteJob, WriteJob
<1>2. TypeOK => edits \in Nat
  BY DEF TypeOK
<1> QED
  BY <1>1, <1>2

\* Until dependencies are edited, no job on a cycle or behind one ever gets a task
\* (CyclesNeverRun), whatever the graph.
THEOREM CyclesBlocked == Spec => []CyclesNeverRun
<1>1. DispatchInv /\ CycleInv /\ [Next]_vars => CycleInv'
  BY EditsGrow, UneditedStep, NoneRuns DEF CycleInv, DispatchInv, Deadlocked
<1>2. CycleInv => CyclesNeverRun
  BY DEF CycleInv, CyclesNeverRun, NoneHasRun
<1> QED
  BY CycleInit, Invariant, <1>1, <1>2, PTL DEF Spec
=============================================================================
