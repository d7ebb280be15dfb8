--------------------------- MODULE WorkerProcess ---------------------------
(***************************************************************************)
(* The worker (internal/worker/worker.go): the goroutines that execute     *)
(* tasks, the runningTasks map, and leaseRenewLoop's snapshot of it.  The  *)
(* semaphore and the running counter are the number of goroutines, plus,   *)
(* for the semaphore, the poll in flight.                                  *)
(***************************************************************************)
EXTENDS Ids

CONSTANT Concurrency  \* the capacity of the semaphore

ASSUME WorkerAssumption == Concurrency \in Nat \ {0}

VARIABLES
    up,          \* workers whose process runs
    exec,        \* the goroutines executing tasks
    registered,  \* runningTasks: a set of task ids, per worker
    late         \* ids in leaseRenewLoop's snapshot that were unregistered since

workerVars == <<up, exec, registered, late>>

\* pc "running" is the command itself, "reporting" waits for reportResult.
Goroutine == [worker: Workers, task: Tasks, run: Nat, pc: {"running", "reporting"}]

WorkersTypeOK ==
    /\ up \subseteq Workers
    /\ exec \subseteq Goroutine
    /\ registered \in [Workers -> SUBSET Tasks]
    /\ late \in [Workers -> SUBSET Tasks]

WorkersInit ==
    /\ up = Workers
    /\ exec = {}
    /\ registered = [w \in Workers |-> {}]
    /\ late = [w \in Workers |-> {}]

GoroutinesOf(w) == {e \in exec : e.worker = w}

\* Mutant of HasSlot: off by one.
HasSlotOrOneMore(w) == Cardinality(GoroutinesOf(w)) <= Concurrency

HasSlot(w) == Cardinality(GoroutinesOf(w)) < Concurrency

\* Mutant of SpawnExecution: the task is not registered for renewal.
SpawnUnregistered(w, t, n) ==
    /\ exec' = exec \cup {[worker |-> w, task |-> t, run |-> n, pc |-> "running"]}
    /\ UNCHANGED <<up, registered, late>>

\* Start, on an answer to its poll: registerRunningTask and go executeTask
SpawnExecution(w, t, n) ==
    /\ exec' = exec \cup {[worker |-> w, task |-> t, run |-> n, pc |-> "running"]}
    /\ registered' = [registered EXCEPT ![w] = @ \cup {t}]
    /\ UNCHANGED <<up, late>>

\* executeTask comes to reportResult
StartReporting(e) ==
    /\ e \in exec /\ e.pc = "running"
    /\ exec' = (exec \ {e}) \cup {[e EXCEPT !.pc = "reporting"]}
    /\ UNCHANGED <<up, registered, late>>

\* Mutant of Unregister: the id stays in the map.
UnregisterNothing(w, t) == registered

\* The deferred unregisterRunningTask and release of the semaphore.  The map
\* holds an id once, however many goroutines execute that task.
Unregister(w, t) == [registered EXCEPT ![w] = @ \ {t}]

FinishExecution(e) ==
    /\ e \in exec /\ e.pc = "reporting"
    /\ exec' = exec \ {e}
    /\ registered' = Unregister(e.worker, e.task)
    /\ \/ UNCHANGED late
       \/ late' = [late EXCEPT ![e.worker] = @ \cup {e.task}]
    /\ UNCHANGED up

\* leaseRenewLoop: one request after the other, for the ids of a snapshot
SendRenewal(w, t) ==
    /\ w \in up /\ t \in registered[w] \cup late[w]
    /\ late' = [late EXCEPT ![w] = @ \ {t}]
    /\ UNCHANGED <<up, exec, registered>>

\* The process dies or is stopped: Start does not wait for executions.
Stop(w) ==
    /\ w \in up
    /\ up' = up \ {w}
    /\ exec' = exec \ GoroutinesOf(w)
    /\ registered' = [registered EXCEPT ![w] = {}]
    /\ late' = [late EXCEPT ![w] = {}]

Boot(w) ==
    /\ w \notin up
    /\ up' = up \cup {w}
    /\ UNCHANGED <<exec, registered, late>>

=============================================================================
