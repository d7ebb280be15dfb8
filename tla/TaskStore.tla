----------------------------- MODULE TaskStore -----------------------------
(***************************************************************************)
(* The scheduler's SQLite database (internal/storage/storage.go with the   *)
(* rows of internal/model/model.go): the tables `tasks` and `workers`, and *)
(* of the table `jobs` the one fact the task protocol reads, whether a job *)
(* still exists.  Every SQL statement of the Store is an operator: its     *)
(* WHERE clause a predicate on a row, its SET list a function from row to  *)
(* row.  The store has one connection (SetMaxOpenConns(1)), so a statement *)
(* is atomic; a handler that runs several is several steps.                *)
(*                                                                         *)
(* A timestamp column is abstracted to how it compares with the clock:     *)
(* lease_expire_at is "none" (NULL), "live" or "expired", next_run_at is   *)
(* "none", "waiting" or "due", last_heartbeat is "fresh" or "stale".       *)
(***************************************************************************)
EXTENDS Ids

CONSTANTS
    Jobs,         \* job ids
    JobOf,        \* the job_id column: a task's job never changes
    MaxRetries    \* the max_retries column of every job

ASSUME StoreAssumption ==
    /\ JobOf \in [Tasks -> Jobs]
    /\ MaxRetries \in Nat

VARIABLES
    task,     \* the tasks table: Tasks -> Row
    created,  \* how many tasks were ever inserted
    jobs,     \* ids present in the jobs table
    beat      \* the workers table: last_heartbeat, "absent" without a row

storeVars == <<task, created, jobs, beat>>

Statuses == {"pending", "running", "success", "failed", "retrying", "dead_letter"}

Row == [status: Statuses \cup {"absent"}, assigned: WorkerRef, holder: WorkerRef,
        lease: {"none", "live", "expired"}, retry: 0 .. MaxRetries,
        next: {"none", "waiting", "due"}]

\* A row freshly inserted by CreateTask; Rerun resets a row to the same values.
PendingRow == [status |-> "pending", assigned |-> NoWorker, holder |-> NoWorker,
               lease |-> "none", retry |-> 0, next |-> "none"]

\* A task without a row: not created yet, or deleted.
NoRow == [PendingRow EXCEPT !.status = "absent"]

StoreTypeOK ==
    /\ task \in [Tasks -> Row]
    /\ created \in 0 .. NumTasks
    /\ jobs \subseteq Jobs
    /\ beat \in [Workers -> {"absent", "fresh", "stale"}]

StoreInit ==
    /\ task = [t \in Tasks |-> NoRow]
    /\ created = 0
    /\ jobs = Jobs
    /\ beat = [w \in Workers |-> "absent"]

----------------------------------------------------------------------------
(* WHERE clauses *)

\* Mutant of Runnable: next_run_at is not compared with the clock.
RunnableAtOnce(row) == row.status \in {"pending", "retrying"}

Runnable(row) ==
    \/ row.status = "pending"
    \/ row.status = "retrying" /\ row.next = "due"

LeaseFree(row) == row.lease # "live"

\* FindUnassignedPendingTask
Assignable(row) == row.assigned = NoWorker /\ Runnable(row) /\ LeaseFree(row)

\* FindNextTaskForWorker
Pollable(row, w) == row.assigned = w /\ Runnable(row) /\ LeaseFree(row)

\* Mutant of Leasable: it leases the task that was found, whoever has it by now.
LeasableByAnyone(row, w) == LeaseFree(row) /\ row.status \in {"pending", "retrying"}

\* LeaseTask: unlike the SELECT before it, its WHERE does not read next_run_at
Leasable(row, w) ==
    row.assigned = w /\ LeaseFree(row) /\ row.status \in {"pending", "retrying"}

\* Mutants of Reclaimable: it takes back leases that are live, or those only
\* that have no expiry.
ReclaimableAnyLease(row) == row.status = "running"
ReclaimableNoExpiry(row) == row.status = "running" /\ row.lease = "none"

\* ReclaimExpiredLeases
Reclaimable(row) == row.status = "running" /\ row.lease = "expired"

\* Mutant of OwnedByDead: tasks that the dead worker had not started are forgotten.
OwnedAndRunning(row, dead) == row.assigned \in dead /\ row.status = "running"

\* ReassignDeadWorkerTasks
OwnedByDead(row, dead) ==
    row.assigned \in dead /\ row.status \in {"pending", "retrying", "running"}

\* ORDER BY created_at ASC LIMIT 1
IsOldest(t, S) == t \in S /\ \A u \in S : t <= u

----------------------------------------------------------------------------
(* SET lists *)

Leased(row, w) ==
    [row EXCEPT !.status = "running", !.holder = w, !.lease = "live"]

\* RenewLease: WHERE lease_holder = worker, whatever the status
Renewed(row, w) == IF row.holder = w THEN [row EXCEPT !.lease = "live"] ELSE row

\* Mutant of Requeued: the lease is handed over with the task.
RequeuedTransfers(row, w) == [row EXCEPT !.holder = w, !.assigned = w]

\* What ReclaimExpiredLeases ("" as the worker) and ReassignDeadWorkerTasks set
Requeued(row, w) ==
    [row EXCEPT !.status = "pending", !.holder = NoWorker, !.lease = "none",
                !.assigned = w]

Assigned(row, w) == IF row.status = "absent" THEN row ELSE [row EXCEPT !.assigned = w]

\* UpdateTask is gorm's Save: every column is written, and a row that is gone
\* is inserted again.
UpdateTask(t, row) == task' = [task EXCEPT ![t] = row]

----------------------------------------------------------------------------
(* The workers table *)

\* Mutant of AliveWorkers: every worker that ever sent a heartbeat counts.
AliveOnce == {w \in Workers : beat[w] # "absent"}

\* Where PickMostIdleWorker chooses.  Its order, by the running_task of the
\* last heartbeats, is not modelled: any of them may be the most idle.
AliveWorkers == {w \in Workers : beat[w] = "fresh"}
DeadWorkers == {w \in Workers : beat[w] = "stale"}

----------------------------------------------------------------------------
(* Statements that are a step by themselves *)

CreateTask ==
    /\ created < NumTasks
    /\ created' = created + 1
    /\ UpdateTask(created + 1, PendingRow)
    /\ UNCHANGED <<jobs, beat>>

\* handleDeleteJob: the job's tasks stay
DeleteJob(j) ==
    /\ j \in jobs
    /\ jobs' = jobs \ {j}
    /\ UNCHANGED <<task, created, beat>>

\* Manager.Delete and BatchDelete, whatever the status of the tasks
DeleteTasks(S) ==
    /\ \E t \in S : task[t].status # "absent"
    /\ task' = [t \in Tasks |-> IF t \in S THEN NoRow ELSE task[t]]
    /\ UNCHANGED <<created, jobs, beat>>

\* CleanOldDeadLetters: S are the dead letters past their retention
CleanOldDeadLetters(S) ==
    /\ S # {} /\ \A t \in S : task[t].status = "dead_letter"
    /\ task' = [t \in Tasks |-> IF t \in S THEN NoRow ELSE task[t]]
    /\ UNCHANGED <<created, jobs, beat>>

Heartbeat(w) ==
    /\ beat' = [beat EXCEPT ![w] = "fresh"]
    /\ UNCHANGED <<task, created, jobs>>

----------------------------------------------------------------------------
(* The clock *)

LeaseExpires(t) ==
    /\ task[t].lease = "live"
    /\ task' = [task EXCEPT ![t].lease = "expired"]
    /\ UNCHANGED <<created, jobs, beat>>

RetryDue(t) ==
    /\ task[t].next = "waiting"
    /\ task' = [task EXCEPT ![t].next = "due"]
    /\ UNCHANGED <<created, jobs, beat>>

HeartbeatTimesOut(w) ==
    /\ beat[w] = "fresh"
    /\ beat' = [beat EXCEPT ![w] = "stale"]
    /\ UNCHANGED <<task, created, jobs>>

=============================================================================
