--------------------------- MODULE SchedulerLoops ---------------------------
(***************************************************************************)
(* The scheduler's background goroutines (internal/scheduler/scheduler.go) *)
(* that move tasks: taskAssignerLoop, leaseReaperLoop, workerReaperLoop.   *)
(* Each is one goroutine, driven by a ticker; its local variables between  *)
(* two database statements are the record of its variable here.            *)
(***************************************************************************)
EXTENDS TaskStore

VARIABLES
    assigner,  \* taskAssignerLoop: the task found, the worker picked
    reaper     \* workerReaperLoop: the workers found dead, the one picked

loopVars == <<assigner, reaper>>

AssignerIdle == [step |-> "idle", task |-> 0, worker |-> NoWorker]
ReaperIdle == [step |-> "idle", dead |-> {}, worker |-> NoWorker]

Assigner == [step: {"idle", "found", "picked"}, task: {0} \cup Tasks, worker: WorkerRef]
Reaper == [step: {"idle", "listed", "picked"}, dead: SUBSET Workers, worker: WorkerRef]

LoopsTypeOK ==
    /\ assigner \in Assigner /\ (assigner.step # "idle" => assigner.task \in Tasks)
    /\ reaper \in Reaper

LoopsInit == assigner = AssignerIdle /\ reaper = ReaperIdle

----------------------------------------------------------------------------
(* assignPendingTasks: find, pick, assign.  The UPDATE names only the task *)
(* id, so what the first statement read is not checked again.              *)

AssignFind ==
    /\ assigner.step = "idle"
    /\ \E t \in Tasks :
         /\ IsOldest(t, {u \in Tasks : Assignable(task[u])})
         /\ assigner' = [AssignerIdle EXCEPT !.step = "found", !.task = t]
    /\ UNCHANGED <<storeVars, reaper>>

AssignPick ==
    /\ assigner.step = "found"
    /\ \/ AliveWorkers = {} /\ assigner' = AssignerIdle
       \/ \E w \in AliveWorkers :
            assigner' = [assigner EXCEPT !.step = "picked", !.worker = w]
    /\ UNCHANGED <<storeVars, reaper>>

AssignTaskToWorker ==
    /\ assigner.step = "picked"
    /\ UpdateTask(assigner.task, Assigned(task[assigner.task], assigner.worker))
    /\ assigner' = AssignerIdle
    /\ UNCHANGED <<created, jobs, beat, reaper>>

----------------------------------------------------------------------------
(* leaseReaperLoop: one UPDATE over all expired leases *)

ReclaimExpiredLeases ==
    /\ \E t \in Tasks : Reclaimable(task[t])
    /\ task' = [t \in Tasks |-> IF Reclaimable(task[t])
                                THEN Requeued(task[t], NoWorker) ELSE task[t]]
    /\ UNCHANGED <<created, jobs, beat, loopVars>>

----------------------------------------------------------------------------
(* workerReaperLoop: list, pick, reassign.  The dead workers' rows stay in *)
(* the table, and a worker that was listed may beat before the UPDATE.     *)

ListDeadWorkers ==
    /\ reaper.step = "idle"
    /\ DeadWorkers # {}
    /\ reaper' = [ReaperIdle EXCEPT !.step = "listed", !.dead = DeadWorkers]
    /\ UNCHANGED <<storeVars, assigner>>

PickReplacement ==
    /\ reaper.step = "listed"
    /\ \/ AliveWorkers = {} /\ reaper' = ReaperIdle
       \/ \E w \in AliveWorkers :
            reaper' = [reaper EXCEPT !.step = "picked", !.worker = w]
    /\ UNCHANGED <<storeVars, assigner>>

ReassignDeadWorkerTasks ==
    /\ reaper.step = "picked"
    /\ task' = [t \in Tasks |-> IF OwnedByDead(task[t], reaper.dead)
                                THEN Requeued(task[t], reaper.worker) ELSE task[t]]
    /\ reaper' = ReaperIdle
    /\ UNCHANGED <<created, jobs, beat, assigner>>

=============================================================================
