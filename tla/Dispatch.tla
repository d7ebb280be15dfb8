------------------------------ MODULE Dispatch ------------------------------
(***************************************************************************)
(* From a trigger to a task: Scheduler.dispatchJob with checkDependencies, *)
(* run by cron's goroutines and by handleTriggerJob, several at a time.    *)
(*                                                                         *)
(* A job may name others as dependencies; a task is created only while the *)
(* most recent task of each of them is a success.  A manual trigger may    *)
(* carry an idempotency key, on which the tasks table has a unique index.  *)
(***************************************************************************)
EXTENDS Integers, FiniteSets, Sequences

CONSTANTS
    Jobs,      \* job ids
    DependsOn, \* the dependencies they were created with: Jobs -> SUBSET Jobs
    Lists,     \* dependencies that clients send in a create or an update
    Keys,      \* idempotency keys that clients send
    NoKey,     \* a trigger without one: the scheduler generates a fresh key
    MaxEdits,  \* bound: jobs updated or created anew
    MaxTasks,  \* bound: tasks created
    MaxRunning \* bound: dispatches at the same time

ASSUME DispatchAssumption ==
    /\ DependsOn \in [Jobs -> SUBSET Jobs] /\ Lists \subseteq SUBSET Jobs
    /\ NoKey \notin Keys
    /\ MaxEdits \in Nat /\ MaxTasks \in Nat /\ MaxRunning \in Nat

VARIABLES
    present,     \* ids in the jobs table
    dependsOn,   \* the dependencies column
    edits,       \* how often one was written since
    tasks,       \* the tasks in the order of created_at
    dispatches,  \* calls of dispatchJob in progress
    succeeded    \* history: jobs that have had a successful task

jobsTable == <<present, dependsOn, edits>>

vars == <<jobsTable, tasks, dispatches, succeeded>>

\* "new": stamped with its created_at, and not inserted (yet); "other" is
\* every status but success
TaskRow == [job: Jobs, key: Keys \cup {NoKey},
            status: {"new", "other", "success", "deleted"}]

\* needs: the dependencies in the row that dispatchJob read
\* todo: the dependencies that checkDependencies has still to look at
\* row: the position of the task to insert, from step "insert" on
CallRecord == [id: 1 .. MaxRunning, job: Jobs, key: Keys \cup {NoKey},
               step: {"key", "deps", "insert"}, needs: SUBSET Jobs, todo: SUBSET Jobs,
               row: 0 .. MaxTasks]

\* Whoever inserts has looked at all of them.
Call == {c \in CallRecord : c.todo \subseteq c.needs /\ (c.step = "insert" => c.todo = {})}

Ids == 1 .. Len(tasks)

TypeOK ==
    /\ dependsOn \in [Jobs -> SUBSET Jobs] /\ edits \in 0 .. MaxEdits
    /\ present \subseteq Jobs /\ succeeded \subseteq Jobs
    /\ tasks \in Seq(TaskRow) /\ Len(tasks) <= MaxTasks
    /\ dispatches \subseteq Call

Init ==
    /\ present = Jobs /\ dependsOn = DependsOn /\ edits = 0
    /\ succeeded = {}
    /\ tasks = <<>>
    /\ dispatches = {}

InTable(i) == i \in Ids /\ tasks[i].status \notin {"new", "deleted"}

\* ListTasks(j, "", 1, 0): ORDER BY created_at DESC LIMIT 1
IsLatest(i, j) ==
    /\ InTable(i) /\ tasks[i].job = j
    /\ \A k \in Ids : InTable(k) /\ tasks[k].job = j => k <= i

\* Mutants of DependencyMet: the status of the latest task is not looked at, or
\* a job without a task counts as met.
DependencyHasTask(d) == d \in present /\ \E i \in Ids : IsLatest(i, d)
DependencyNotFailed(d) ==
    d \in present /\ \A i \in Ids : IsLatest(i, d) => tasks[i].status = "success"

DependencyMet(d) ==
    d \in present /\ \E i \in Ids : IsLatest(i, d) /\ tasks[i].status = "success"

KeyTaken(k) == k # NoKey /\ \E i \in Ids : InTable(i) /\ tasks[i].key = k

----------------------------------------------------------------------------
Advance(c, S) == dispatches' = (dispatches \ {c}) \cup S

\* dispatchJob returns; whether it created a task, nobody learns.
Return(c) == Advance(c, {})

IsLeast(n, S) == n \in S /\ \A m \in S : n <= m

\* dispatchJob begins with GetJob, for a cron entry (NoKey) or for a client
Trigger(j, k) ==
    /\ j \in present
    /\ \E id \in 1 .. MaxRunning :
         /\ IsLeast(id, (1 .. MaxRunning) \ {c.id : c \in dispatches})
         /\ dispatches' = dispatches \cup
              {[id |-> id, job |-> j, key |-> k, step |-> "key",
                needs |-> dependsOn[j], todo |-> dependsOn[j], row |-> 0]}
    /\ UNCHANGED <<jobsTable, tasks, succeeded>>

CheckKey(c) ==
    /\ c \in dispatches /\ c.step = "key"
    /\ \/ KeyTaken(c.key) /\ Return(c)
       \/ ~ KeyTaken(c.key) /\ Advance(c, {[c EXCEPT !.step = "deps"]})
    /\ UNCHANGED <<jobsTable, tasks, succeeded>>

\* One round of checkDependencies' loop; the order of the list is left open.
CheckDependency(c) ==
    /\ c \in dispatches /\ c.step = "deps" /\ c.todo # {}
    /\ \E d \in c.todo :
         \/ DependencyMet(d) /\ Advance(c, {[c EXCEPT !.todo = @ \ {d}]})
         \/ ~ DependencyMet(d) /\ Return(c)
    /\ UNCHANGED <<jobsTable, tasks, succeeded>>

\* Mutant of StampTask: checkDependencies returns true inside its loop, after the
\* first dependency that is met.
StampAfterFirst(c) ==
    /\ c \in dispatches /\ c.step = "deps" /\ (c.todo = {} \/ c.todo # c.needs)
    /\ Len(tasks) < MaxTasks
    /\ tasks' = Append(tasks, [job |-> c.job, key |-> c.key, status |-> "new"])
    /\ Advance(c, {[c EXCEPT !.step = "insert", !.row = Len(tasks) + 1]})
    /\ UNCHANGED <<jobsTable, succeeded>>

\* Store.CreateTask sets created_at, then waits for the one connection: of two
\* dispatches that overlap, the later stamp may be inserted first.
StampTask(c) ==
    /\ c \in dispatches /\ c.step = "deps" /\ c.todo = {}
    /\ Len(tasks) < MaxTasks
    /\ tasks' = Append(tasks, [job |-> c.job, key |-> c.key, status |-> "new"])
    /\ Advance(c, {[c EXCEPT !.step = "insert", !.row = Len(tasks) + 1]})
    /\ UNCHANGED <<jobsTable, succeeded>>

\* Mutant of Inserts: a table without the unique index.
InsertsAny(k) == TRUE

\* The unique index refuses a key that is already there.
Inserts(k) == ~ KeyTaken(k)

CreateTask(c) ==
    /\ c \in dispatches /\ c.step = "insert"
    /\ tasks' = IF Inserts(c.key) THEN [tasks EXCEPT ![c.row].status = "other"] ELSE tasks
    /\ Return(c)
    /\ UNCHANGED <<jobsTable, succeeded>>

\* The rest of the system saves a task: a verdict, another one by a late
\* report, a rerun.  UpdateTask inserts a deleted row anew, if its key is free.
TaskSaved(i) ==
    /\ i \in Ids /\ tasks[i].status # "new"
    /\ tasks[i].status = "deleted" => Inserts(tasks[i].key)
    /\ \E s \in {"other", "success"} :
         /\ tasks' = [tasks EXCEPT ![i].status = s]
         /\ succeeded' = succeeded \cup (IF s = "success" THEN {tasks[i].job} ELSE {})
    /\ UNCHANGED <<jobsTable, dispatches>>

TaskDeleted(i) ==
    /\ InTable(i)
    /\ tasks' = [tasks EXCEPT ![i].status = "deleted"]
    /\ UNCHANGED <<jobsTable, dispatches, succeeded>>

DeleteJob(j) ==
    /\ j \in present
    /\ present' = present \ {j}
    /\ UNCHANGED <<dependsOn, edits, tasks, dispatches, succeeded>>

\* handleUpdateJob; or handleCreateJob under an id that was deleted, whose tasks
\* are still there.
WriteJob(j, D) ==
    /\ edits < MaxEdits /\ edits' = edits + 1
    /\ present' = present \cup {j}
    /\ dependsOn' = [dependsOn EXCEPT ![j] = D]
    /\ UNCHANGED <<tasks, dispatches, succeeded>>

Next ==
    \/ \E j \in Jobs, k \in Keys \cup {NoKey} : Trigger(j, k)
    \/ \E c \in dispatches :
         CheckKey(c) \/ CheckDependency(c) \/ StampTask(c) \/ CreateTask(c)
    \/ \E i \in Ids : TaskSaved(i) \/ TaskDeleted(i)
    \/ \E j \in Jobs : DeleteJob(j) \/ \E D \in Lists : WriteJob(j, D)

Spec == Init /\ [][Next]_vars

----------------------------------------------------------------------------
(* Properties *)

\* A task is inserted only after each dependency that its job named when the
\* dispatch began has had a success: reading the job, key check, dependency
\* checks, stamp and insertion are separate steps, between which jobs are edited
\* and tasks overwritten and deleted.
DependenciesRan ==
    [][\A c \in dispatches :
         c.step = "insert" /\ tasks'[c.row].status # "new" => c.needs \subseteq succeeded]_vars

\* Each of these jobs waits for one of them: they hold a cycle, and what else is
\* in the set waits for it.
Deadlocked(C) == \A j \in C : DependsOn[j] \cap C # {}

\* Until dependencies are edited, a job that (indirectly) depends on itself never
\* gets a task, nor does one that depends on such a job; the API accepts both.
CyclesNeverRun ==
    edits = 0 => \A C \in SUBSET Jobs : Deadlocked(C) => \A i \in Ids : tasks[i].job \notin C

\* However many triggers race with one key, and whatever is deleted and saved
\* again, one task at most in the table carries it.
KeyUsedOnce ==
    \A i, k \in Ids :
      InTable(i) /\ InTable(k) /\ tasks[i].key = tasks[k].key /\ tasks[i].key # NoKey
        => i = k
=============================================================================
