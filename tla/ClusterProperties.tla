------------------------- MODULE ClusterProperties -------------------------
(***************************************************************************)
(* What the task protocol of Cluster guarantees.                           *)
(***************************************************************************)
EXTENDS Cluster

\* Every variable keeps to its type.
TypeOK ==
    /\ StoreTypeOK /\ LoopsTypeOK /\ ApiTypeOK /\ WorkersTypeOK
    /\ disruptions \in 0 .. MaxDisruptions

----------------------------------------------------------------------------
(* Leases and assignments *)

RowConsistent(row) ==
    /\ row.status = "running" <=> row.holder # NoWorker
    /\ row.status = "running" <=> row.lease # "none"
    /\ row.status = "running" => row.assigned = row.holder

\* The columns that describe a lease agree in every row, whichever statement
\* wrote it last: a running task and only a running task has a holder and an
\* expiry, and the holder is the worker the task is assigned to.
LeaseConsistent == \A t \in Tasks : RowConsistent(task[t])

\* assignPendingTasks updates by task id alone; still, the task it is about to
\* assign has not been assigned, leased or started since it was found.
AssignerExclusive ==
    assigner.step # "idle" =>
      LET row == task[assigner.task] IN
        row.assigned = NoWorker /\ row.status # "running"

\* The leases implement exclusive ownership: no step takes one from a worker and
\* gives it to another.
Lock == INSTANCE Ownership WITH
    Things <- Tasks, Owners <- Workers, Nobody <- NoWorker,
    owner <- [t \in Tasks |-> task[t].holder]

ImplementsOwnership == Lock!Spec

----------------------------------------------------------------------------
(* Executions *)

\* Two executions of a task never belong to the same lease, and an execution
\* that belongs to the latest lease is on the worker that was granted it: when
\* the task is running, on its holder.
LatestRunOnHolder ==
    /\ \A e, f \in exec : e.task = f.task /\ e.run = f.run => e = f
    /\ \A e \in exec :
         /\ e.run <= runs[e.task]
         /\ e.run = runs[e.task] /\ task[e.task].status = "running"
              => e.worker = task[e.task].holder

\* What a lease may be in use for: an answer on its way to the worker, a
\* command that runs, or a result whose report is not saved yet.
Uses(t) ==
    {p \in polls : p.step = "leased" /\ p.task = t}
      \cup {e \in exec : e.task = t /\ (e.pc = "running" \/ ReportInFlight(e))}

\* Without a disruption every running task has exactly one use, on its holder
\* and under a live lease, and every other task has none: no task is executed
\* twice at the same time and no lease is left behind.
CalmLeaseUsedOnce ==
    disruptions = 0 =>
      \A t \in Tasks :
        IF task[t].status = "running"
        THEN /\ task[t].lease = "live"
             /\ \E u \in Uses(t) :
                  Uses(t) = {u} /\ u.worker = task[t].holder /\ u.run = runs[t]
        ELSE Uses(t) = {}

\* Without a disruption the row a report overwrites is the row it has read.
CalmReportFresh ==
    disruptions = 0 =>
      \A r \in reports : r.step = "read" => r.row = task[r.task]

\* runningTasks names only tasks that have a goroutine, and without a
\* disruption names all of them, so every lease in use is renewed.
RegisteredExact ==
    \A w \in Workers :
      LET executing == {e.task : e \in GoroutinesOf(w)} IN
        /\ registered[w] \subseteq executing
        /\ disruptions = 0 => registered[w] = executing

\* The semaphore: goroutines and the poll in flight never exceed its capacity.
ConcurrencyLimit ==
    \A w \in Workers :
      Cardinality(GoroutinesOf(w)) + (IF Polling(w) THEN 1 ELSE 0) <= Concurrency

----------------------------------------------------------------------------
(* Retries and verdicts *)

\* A dead letter has used up its retries, each in an execution of its own.
DeadLetterEarned ==
    \A t \in Tasks : task[t].status = "dead_letter" =>
      task[t].retry = MaxRetries /\ runs[t] > MaxRetries

\* Without a disruption no lease is granted before the backoff is over, though
\* LeaseTask does not read next_run_at and ReassignDeadWorkerTasks makes tasks
\* that wait for a retry pending.
BackoffRespected ==
    [][disruptions' = 0 =>
         \A t \in Tasks : runs'[t] > runs[t] => task[t].next # "waiting"]_vars

\* Which phase of its life a task is in, by its row.
Phase(t) ==
    CASE task[t].status \in {"pending", "retrying"} -> "waiting"
      [] task[t].status = "dead_letter" -> "failed"
      [] task[t].status = "absent" -> IF t <= created THEN "discarded" ELSE "none"
      [] OTHER -> task[t].status

Life == INSTANCE LifeCycle WITH
    Things <- Tasks, Retries <- MaxRetries,
    phase <- [t \in Tasks |-> Phase(t)], attempts <- runs

\* Without a disruption every task has the promised life: each attempt is one
\* lease, it fails for good after exactly max_retries + 1 of them, a verdict is
\* kept, and only dead letters are cleaned away.  Reassignment, the reapers, stale
\* reads and the reports of two tasks at once do not show.
ImplementsLifeCycle == Life!Spec

Active(t) == task[t].status \in {"pending", "running", "retrying"}

\* Every task of a job that stays gets a verdict (or is deleted), as long as
\* one worker stays up, whatever else fails in the meantime.
TaskSettles ==
    \A t \in Tasks :
      Active(t) ~> ~ Active(t) \/ JobOf[t] \notin jobs

\* A task that waits for, or runs on, a worker that stays down moves on.
OrphanRescued ==
    \A t \in Tasks, w \in Workers :
      Active(t) /\ task[t].assigned = w /\ w \notin up
        ~> ~ Active(t) \/ task[t].assigned # w \/ w \in up
=============================================================================
