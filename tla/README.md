# Formal models of go-cron

go-cron is a distributed cron: one scheduler process with an SQLite database and
an HTTP API, and worker processes that poll it for tasks, execute them and
report. This directory holds TLA+ models of its protocols, the TLC
configurations that check them on small instances and TLAPS proofs for any
instance. Paths are relative to `src/`.

## 1. The system

| component | source | state it keeps | operations |
|---|---|---|---|
| task store | `internal/storage/storage.go`, `internal/model/model.go` | tables `jobs`, `tasks`, `workers` | single SQL statements over one connection |
| scheduler loops | `internal/scheduler/scheduler.go` | locals between two statements | assigner (0.5 s), lease reaper (30 s), worker reaper (60 s), dead letter cleaner (6 h) |
| dispatch | same | calls in progress | `dispatchJob`, `checkDependencies`, by cron or by a client |
| job registry | same, `internal/api/server.go` | `jobEntries`, the cron library's entries | create, update, delete a job; `ReloadJob`, `registerJob`, `loadAllJobs` |
| worker API | `internal/api/server.go` | requests in flight | heartbeat, long poll, report, renew |
| dead letters | `internal/deadletter/deadletter.go` | none | rerun, delete, clean |
| worker | `internal/worker/worker.go` | goroutines, semaphore, `runningTasks` | poll loop, execute, report, renew and heartbeat loops |
| dependency graph | `internal/dag/dag.go` | locals of the sort | topological sort (called by nothing yet) |
| authentication | `internal/auth/auth.go`, `internal/api/server.go` | table `users`, tokens held by clients | seeding at the first start, login, middleware |
| listings | `internal/api/server.go`, `internal/storage/storage.go` | none | pages of jobs, tasks, workers, dead letters |
| metrics | `internal/metrics/metrics.go`, `internal/scheduler/scheduler.go` | gauges | the sweep of `refreshMetrics` (10 s) |
| configuration, logging | `pkg` | none | durations and limits from the environment |

The parts meet in the database. A task is inserted by a dispatch as `pending`;
the assigner writes a worker into `assigned_worker`; that worker's poll finds it
and leases it (`running`, `lease_holder`, `lease_expire_at`); the worker registers
it for renewal, executes it and reports; the report makes it `success`,
`retrying` (unassigned, with a `next_run_at`) or `dead_letter`. The lease reaper
returns expired leases to `pending`, the worker reaper gives the tasks of workers
without a heartbeat to another one. Operators may delete jobs and tasks and rerun
tasks at any moment.

What is hard here: a handler or loop runs several statements without a
transaction, so every other actor runs in between; most UPDATEs name the row by
id alone and `UpdateTask` writes all columns of a row read earlier; answers and
reports get lost; either process restarts; nothing tells a worker that its lease
is gone. `PROJECT.json` lists each such hazard with its line and the properties
that cover it.

## 2. The modules

| module | models |
|---|---|
| `Ids` | task numbers, worker ids |
| `TaskStore` | the tables and every statement on them: a WHERE clause is a predicate on a row, a SET list a function from row to row |
| `SchedulerLoops` | the scheduler's goroutines, one action per statement, their locals in `assigner` and `reaper` |
| `WorkerApi` | the handlers with several statements: poll, report, rerun; a request in flight is a record in `polls`, `reports`, `reruns` |
| `WorkerProcess` | a worker's goroutines (`exec`), `runningTasks` (`registered`), the snapshot of the renewal loop |
| `Cluster` | the composition of these: the actions joined to steps of the system, the clock, crashes, operators, the fairness |
| `Ownership` | abstract: exclusive ownership of things, which the leases implement |
| `LifeCycle` | abstract: the life of a task from submission to a final verdict, which `Cluster` implements without disruptions |
| `ClusterProperties` | what `Cluster` guarantees |
| `ClusterProofs`, `ExecutionProofs` | proofs about `Cluster`: its rows and locks; its executions and the behaviours without a disruption |
| `JobRegistry`, `RegistryProofs` | jobs, optimistic locking, cron entries, restart; proofs |
| `Dispatch`, `DispatchProofs` | from trigger to task: idempotency keys and dependencies; proofs |
| `Dag`, `DagProofs` | Kahn's algorithm on any graph; proofs |
| `LeaseTiming`, `LeaseTimingProofs` | one worker's renewal rounds and the leases of its slots, with a discrete clock; proofs |
| `Attempts`, `AttemptsProofs` | one task, attempt by attempt: exit code, timeout, truncation, retry limit, backoff in machine words; edits of the job, reruns; proofs |
| `Access` | start of the scheduler, seeding of the accounts, login and expiry |
| `Console`, `ConsoleProofs` | extends `Access`: a client that pages through tasks, and the gauges, while the tables change; proofs |
| `MC...` | constants for TLC |

`Cluster` extends `SchedulerLoops`, `WorkerApi` and `WorkerProcess`; the first two
extend `TaskStore`. The other models each stand for a question that `Cluster`
abstracts from: `LeaseTiming` says for which durations an attended lease does not
expire, which `Cluster` counts as a disruption; `Attempts` fills in the length of
the backoff and what an execution reports; `JobRegistry` and `Dispatch` produce the
tasks that `Cluster` begins with; `Console` only reads. They are not yet composed
(section 7). An operator called a mutant in its comment is used by nothing: it is
a plausible bug, with which the property named in `PROJECT.json` fails.

### How state and actions correspond to the code

* Row columns keep their names in short: `status`, `assigned` (`assigned_worker`),
  `holder` (`lease_holder`), `lease` (`lease_expire_at`), `retry` (`retry_count`),
  `next` (`next_run_at`). A timestamp is abstracted to how it compares with the
  clock (`none`, `live`/`waiting`, `expired`/`due`), and the clock moves by
  `LeaseExpires`, `RetryDue` and `HeartbeatTimesOut`.
* The store has one connection (`SetMaxOpenConns(1)`): a statement is a step. A
  statement that only reads is merged with its neighbour where it commutes with
  everything in between: `GetJob` in the report is part of the save.
* `UpdateTask` is gorm's `Save`: all columns, and an insertion if the row is gone.
* `CreateTask` does not ask for the job to be there: the dispatch read it earlier.
  In `Cluster` a task is numbered as it is inserted; `Dispatch` models that
  `created_at` is set before the insertion waits for the connection.
* `PickMostIdleWorker` may return any alive worker: the order by `running_task` of
  the last heartbeat is left out, so all properties hold for any choice.
* `runs` counts the leases granted on a task. It is history, not code, and names
  executions. `late` holds the ids of the renewal loop's snapshot that were
  unregistered since; the others are in `registered` anyway.
* A long poll that ends empty and is repeated at once is one request (`PollEmpty`
  happens only when the client has gone).
* `max_retries` is the same for all jobs and constant in `Cluster`; `Attempts` edits it.
  A job is present or deleted.
* In `JobRegistry` `entries[j]` are the cron entries added for `j` that still fire, so a
  second one or one that was left behind is visible. `by` says where the closure of an
  entry points: to the row of a request's `ReloadJob`, or to the loop variable of
  `loadAllJobs`, whose id is `loopVar`. That loop runs beside the HTTP server
  (`cmd/scheduler/main.go:39`, `:50`): `Restart` only forgets, `ListEnabledJobs` is the
  SELECT, and each `LoadListed` registers one row of `listed`, requests coming in between.
  The `enabled` of a created job is always true: gorm puts the column's default in place
  of the zero value.
* In `Dispatch` a status is `success` or `other`; the task protocol appears as
  `TaskSaved`, which may write either at any time, and `TaskDeleted`. `WriteJob` is
  an update of the `dependencies` column, or a creation under the id of a deleted
  job. `succeeded` is history.
* In `Dag` the slice `edges[d]` is how often each job is in it, and `Mentions` are these places:
  their number is the degree.
* In `LeaseTiming` a slot is `free`, `answering` (its task was leased and the answer is
  on its way) or `executing` (registered). `target` and `round` are what is left of the
  renewal loop's snapshot; ids that were unregistered since are only counted (`ended`):
  their requests still take their time. `Pass` is a unit of time and waits for what is
  due: an answer after `Latency`, a round when a tick is there. `lease` counts from the
  last grant or renewal until the slot is free; that a report clears the column a
  little earlier is left out.
* In `Attempts` an `int` and a `Duration` are words of `Bits` bits, and a second is `Second`
  units of a `Duration`. An output is its length, the marker of a timeout is whole or
  not. `Created` puts the columns' defaults in the place of zeros, as gorm does;
  `UpdateJob` writes what it is given.
* In `Console` a task is its position by `created_at` and its status, `new` between the
  stamp and the insertion and `deleted` once its row is gone. `Moves` are the changes of
  status of the whole program: the verdict of a report is written over any status, and
  over a row that was deleted, which inserts it again. A page is what one
  SELECT returns; the client asks for the next one from as many rows on as it has
  received and stops at an empty page. `RefreshGauge` is one statement of
  `refreshMetrics` with the `Set` after it.

### Disruptions

A step of `Cluster` is a *disruption* if nothing provokes it in a system whose
processes stay up, requests are answered, timeouts are not hit and no operator
intervenes. `Faults` says which kinds may happen (`timeout`, `loss`, `crash`,
`operator`) and `MaxDisruptions` how many. A lease that nobody renews expires
calmly; one that a registered execution renews, or whose answer is on its way,
only by a timeout: renewals come every 30 s against 120 s, heartbeats every 15 s
against 60 s. Some properties hold whatever happens, others are claimed for
behaviours without a disruption, because with one they are false in the code:
the late report of a worker that has lost its lease is accepted.

## 3. Runs

| run | instance | shows |
|---|---|---|
| `CalmTwoTasks` | 2 tasks, 2 workers, 2 slots, 2 retries, no disruption | without disruptions no task executes twice at once, no lease is left behind, the renewal map is exact, a report never overwrites a change, and the protocol implements `LifeCycle`: each attempt is one lease, a task fails for good after exactly `max_retries + 1`, a verdict stays |
| `Faults` | 1 task, 2 workers, 2 slots, 1 retry, 1 timeout, loss or operator action | rows stay consistent, leases are an exclusive lock, the assigner hits a free task, slots and retries are respected, and without a disruption the backoff |
| `SettlesFaults` | 1 task, 1 retry, 1 timeout, loss or operator action | every task of a job that stays settles |
| `SettlesCrash` | 1 task, 1 crash of a worker or the scheduler | every task settles, none stays with a worker that is down |
| `LeaseTiming` | 3 slots, period 5, latency 2, 1 failed renewal, TTL `Gap` + 1 | an attended lease does not expire; with a TTL of `Gap` it does, so the bound is exact |
| `Attempts` | words of 8 bits, limits -1, 2 and 9, 2 edits, 1 rerun | the row tells how the attempt ended, the backoff is exact until half the range has been waited, the attempts end |
| `RegistryRequests` | 1 job, 2 concurrent requests, 2 updates, 3 expressions | while `loadAllJobs` runs beside the requests, exactly the entry the row asks for fires, unless requests on the job overlapped or met the load; the next one repairs that |
| `Dispatch` | 3 jobs, two waiting for each other, 1 edit, 2 dispatches at a time, 2 tasks, 1 key | no dependency is skipped, no key is used twice, jobs on or behind a cycle never run until one is edited |
| `DagSort` | all graphs of 3 jobs and an unknown id, names repeated up to twice | the sort orders, keeps exact degrees, and decides; every step lengthens the result, so it ends |
| `Console` | 3 tasks at first, 2 changes, 1 crash, 1 expiry, pages of 1 | the administrator can log in, the listing misses nothing, the gauges catch up |
| `RegistryRestart` (violated) | 2 jobs | after a restart every entry dispatches the job listed last (`scheduler.go:67`, Go 1.21 loop variable) |
| `RegistryStaleUpdate` (violated) | 2 jobs, 2 updates | a stale update is not refused (`server.go:195`) |

Bounds. One task is enough for everything that concerns a task alone, since tasks
meet only in the slots, in `ORDER BY created_at` and in the bulk UPDATEs, which the
two-task run exercises. Two workers give a holder and a rival. One retry gives
both branches of a failed report. With one disruption at any point the interesting
races are reached already: an execution that outlives its lease, two executions on
one worker, a late report after a rerun. `MaxRuns` bounds the leases granted on
a task; without operators and with the given disruptions it is above what a task
can need, and for a deleted job, whose tasks are leased for ever, it stops the
counting (`TaskSettles` excludes those). Symmetry of workers is used in runs
without liveness only. Deadlock is checked except for `Dispatch`, which may stop
when all jobs are deleted or the table is full.

Three slots make a round of several renewals whose order matters, with one that
ends and one that begins in the middle of it; period and latency are chosen so that
a round can be longer than a period. Words of 8 bits overflow after a few
doublings, and the limit 9 lets the count get there; `MaxCount` is above what the
requests allow. Three tasks, of which one does not match at first and can be rerun in
between, and two changes make a row arrive twice, come late or slip past; `MaxReceived`
is above what can be received. `MCFilters` lists the pending tasks, which enter and leave most often.

Fairness (`FairSpec`). Weakly fair are: the tickers' loops, handlers that have
begun, polls and heartbeats of a process that is up, commands (they have a timeout)
and the reports' returns, and the clock's calm expiries. Nothing is assumed of
creating tasks, booting a worker, disruptions, renewals, the cleaner.
`SettlesCrash` lets only one of the two workers die: with none up nothing settles.
In `Attempts` the execution and the report are weakly fair, which is what
`TaskSettles` shows of `Cluster`. In `Console` the sweep is; nobody must start the
scheduler, and the property says so.

## 4. Proofs

Every safety property that a run checks is a theorem of its specification, proved
for every value of the constants: any number of tasks, workers, slots, retries and
disruptions and all kinds of faults at once, any graph, any width of a word, tables
of any size. The theorems assume only the named assumptions on constants:
`NoWorker` is no worker, bounds are naturals, sets that are counted are finite, the
lease is longer than `Gap`, the intervals of jobs fit a `Duration` (in `Attempts`; the
default of 60 s does, and section 5 says what becomes of others). TLC has checked the
invariants of `ExecutionProofs`, `LeaseTimingProofs`, `RegistryProofs`, `AttemptsProofs`,
`ConsoleProofs` and `DagProofs` on the instances of the runs.

`ClusterProofs`:

* `TypeCorrect`: one lemma per group of actions. Lemmas on what a SET list writes
  (`WrittenRows`) give the type of every row.
* `LeasesConsistent`, `AssignerSafe`: `LeaseConsistent` is not inductive alone. A report
  and a lease change `holder`, and `AssignTaskToWorker` sets `assigned` blindly, so the
  row it hits must not be running: that is `AssignerExclusive`. It in turn holds
  because only the assigner gives an unassigned task away, and because a leased row
  is an assigned one. The inductive invariant is `TypeOK`, `LeaseConsistent` and
  `AssignerExclusive`; `Rows` reduces every step to what it may do to a row, and
  `RowStepSafe` shows once for all that this keeps the conjuncts.
* `OwnershipImplemented`: with the invariant, a row that can be leased has
  no holder (`LeasableIsFree`), so each step is `Acquire`, `Release` or a stutter of
  `Ownership` under `owner[t] = task[t].holder`.

`ExecutionProofs`, whose invariant `ExecInv` extends that of `ClusterProofs`:

* `LatestRunSafe`: a lease is used by a poll that was granted it, then by a goroutine, then
  by a report, and `runs` names it. `RunInv` says that it is in one stage and there once,
  that its number was granted, and that the latest one is with the holder of a
  running task. The property alone forgets the polls and reports, from which
  executions come. `Carried` covers all steps but the three that pass a lease on.
* `SlotsBounded`: a worker waits for one poll at a time and then has room for its answer;
  the semaphore is taken before the request is sent.
* `VerdictsEarned`: a row may be overwritten by a report that read it long before, so a
  bound on `retry` by `runs` is lost. What is kept is that `retry`, in the row and in
  every copy that a report has read, is at most the number of leases that are over
  (`Over`), since the report that counts up ends one that no other report tells of.
* `CalmLeases`, `CalmReports`, `RegisteredTasks`, `BackoffWaited`: under `disruptions = 0` the
  invariant `CalmState` ties each row to its one user: `runs` is `retry` or one more, a poll
  that found a row can still have it, a running task has a poll or a goroutine, a
  report belongs to a goroutine and its copy is the row, who has reported has a row
  at rest, and nobody has stopped. The conjuncts are needed together: a
  report's copy stays fresh because nobody else uses the lease, which holds because
  the latest execution was the only one.
* `LifeCycleImplemented`: with it each step of `Cluster` is a step of `LifeCycle` or a stutter
  under `Phase`, one lemma per step that shows. The theorem has the hypothesis that no
  disruption ever happens, which all behaviours of `CalmTwoTasks` meet.

The other models:

* `KeysUnique`, `DependenciesFirst`, `DispatchTypes`: the invariant says that the
  dependencies a dispatch has checked off are in `succeeded`, that its stamped row
  carries its key, and that a stamped row's job has all dependencies in `succeeded`;
  `succeeded` only grows, and a row enters the table only while its key is free.
* `CyclesBlocked`: while `edits = 0` a dispatch works with the dependencies in `DependsOn`,
  and of a set in which each job waits for another one no job has a stamped row or is
  in `succeeded` (`CycleInv`): the first stamp of one would need one in `succeeded`. The
  set is fixed in the proof, so there is no induction along the cycle.
* `LeasesKept`, `RoundsBounded`, `LoopTypes`: that a lease has not expired says nothing of
  the next step, so the invariant bounds the time until it is renewed. `Rest` is how
  long the round can still last, `NextStart` how long until the next one starts. A slot
  in the round is renewed within `Rest`, or after as many more rounds as it has failures
  left; another one within `NextStart`, those rounds and its own; one whose answer
  is on its way joins the first round that starts after it. Each step keeps
  lease and bound apart: `Pass` takes one from both, a failure trades a chance for a
  `Cycle`, a grant or a renewal starts again below `Gap`, which is where the assumption
  on `TTL` is needed.

* `EntriesMatch`, `RegistryTyped`: a request that is alone on its job knows what it needs: the
  version it has read is the row's, and the row that `ReloadJob` has loaded is the
  row (`Informed`). For a job that is not in `raced` its requests are alone and come when
  it is not on the loader's list, a row on that list is the row of the table
  (`ServedWell`), and without either its entries match. That the last write and the last
  registration belong together is what overlapping requests destroy, and requests that
  come between the list and the registration.
* `RowsTell`, `AttemptsTyped`: by the types of the row, field by field.
* `BackoffDoubles`: `Doubling` keeps, for every status, that `delay` is the one due for
  `retry_count`, and that it has been waited once the retry is executed. A report then
  doubles a delay below half the range, so the result is in range, and `NoOverflow`
  shows that the shift and both products then are, too. Powers of two are numbers of subsets (`PowerGrows`, `PowerDoubles`), since the
  provers know nothing else of them.
* `ListingMissesNothing`: `Paged` says that as long as no wanted task ceased to match, each one
  not seen has at least `received` rows before it, and at least a page more once the
  page without it is on its way. Rows that appear, at the front, late or again, only push
  it back. The two lemmas on finite
  sets are that a page has at most `limit` rows (`PageBounded`) and that an empty page leaves
  nothing behind it (`PlaceTaken`), by the least number of a nonempty set.
* `AdministratorKnown`, `ConsoleTyped`: the first account seeded is the administrator, and the
  scheduler listens only when there is one.
* `DegreesCount`, `SortOrders`, `SortDecidesCycles`, `DagTyped`: without one id there are as many
  mentions fewer as there were of it (`MentionsWithout`), which is what a visit takes
  off. Queue and result repeat nothing and are disjoint; they are the jobs of degree 0.
  If the sort ends early the rest is stuck, each job of it having a mention left
  (`RestStuck`); of a set of listed jobs the first one needs none of the others, so none
  is stuck (`ListedRun`).

Model-checked only: liveness, which is out of the prover's reach: `TaskSettles`,
`OrphanRescued`, `AttemptsEnd`, `GaugesCatchUp`. That the sort of `Dag` ends needs
no fairness argument of its own, each step lengthens the result. The
two violated properties are refuted by a counterexample.

## 5. What the models say of the code

* The leases are an exclusive lock whatever happens: `LeaseTask`'s WHERE and the
  reapers see to it. Executions are not exclusive: an execution whose lease was
  lost goes on, since `handleTaskRenew` answers "renewed" whether or not a row
  matched, and its report is accepted.
* A task that was disrupted settles all the same, though perhaps executed more
  often than `max_retries + 1` times, and its verdict may be changed by a late report.
* After a disruption a backoff may be cut short: a late report makes a task `retrying`
  that the assigner is about to assign, and the worker reaper makes it `pending`, which
  a poll finds at once (`storage.go:386`).
* A worker that executes a task twice at once stops renewing it when the first of
  the two ends (`worker.go:116`).
* Tasks of a deleted job that were assigned are leased and fail for ever
  (`scheduler.go:353`).
* An attended lease is kept for certain only if `LEASE_TTL_SECONDS` is above `Gap`. With
  the defaults (120 s, renewals every 30 s, 4 slots) and no renewal lost, `Gap` is
  max(30 + L, 4 L) + 4 L for requests of at most L seconds: L may be 14, and the client's
  timeout allows 35. With one lost renewal in a row L may be 9.
  `WORKER_CONCURRENCY` enters the bound twice, since the round is sequential.
* Heartbeats are the same loop with one request: at most max(15, L) + L seconds apart,
  below the timeout of 60 s for L up to 29.
* The backoff overflows only after delays that nobody waits for, if the job is not
  edited. `exponential_backoff` switched on at a high `retry_count`, or an interval
  above 9.2e9 s, which `validateJob` lets pass, overflows at once, and the next run may
  lie in the past.
* A job cannot be created with `max_retries` 0, without exponential backoff, or
  disabled: gorm leaves the zero out of the INSERT and the column's default stands. An
  update can.
* A crash between the two insertions of `seedUsers` leaves the scheduler without the
  account `reader` for good; `admin` is always there.
* An update or a deletion that the server takes while the scheduler is still loading its
  jobs may be overtaken by `loadAllJobs`, which then registers the row it has listed
  before: the job fires by its old expression until the next request on it or the next
  start.
* Paging by rows received is safe against new tasks, also late ones and deleted ones that
  a report inserts again, a clamped limit and restarts,
  not against a task that ceases to match between two pages. A client that stops at a
  page shorter than it asked for misses rows when its limit was above 500 (it gets
  50), and one that stops at `total` may, since `total` is counted before the page is
  read. That a listing ends is not claimed: as long as new rows keep coming in at the
  front, the next page need not be empty.
* `TopologicalSort` says "cycle detected" also of a job that needs an unknown id
  (`dag.go:65`); nothing calls it yet.
* Two disagreements with the program's own messages are recorded as findings.

## 6. Not modelled

Logging and reading the environment; `RequireRole`, which is a guard in front of the
handlers and keeps no state; the reads of a single row, its logs and `/health`; the
counter and histogram of the worker; the `total` of a listing; which alive worker is
most idle. The work of a command or HTTP request is its outcome, and it
ends: a child that a command leaves in the background with its output pipe open
keeps `cmd.Run` waiting past the timeout (`worker.go:324`), and its slot taken.
gorm, SQLite, gin and the cron library appear by what the code relies on. There is
one scheduler: the code has no protocol for several. Log texts and output columns
are left out. `MarkAsDeadLetter`, `ValidateDependencies` and `GetDownstream` are called
by nothing. Database errors other than "not found" end a handler or a round of a
loop early and change nothing; a loop that gives up is one that has not run yet.

## 7. Plan

The order was: the task protocol and its locks first, then dispatch and registry,
then the sort; then what these abstract from: time, arithmetic, the clients' view.
What comes next:

1. Prove. A bound on the leases of a disrupted task, by the number of disruptions
   (`VerdictsEarned` gives the lower bound). That `Cluster` under an abstraction of its
   rows implements the life of `Attempts` without edits, which would replace the
   informal link between the two.
2. Extend. Compose `JobRegistry` and `Dispatch` (an entry that fires dispatches its
   job). Assignment by the load of the last heartbeat.
