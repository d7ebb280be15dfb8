--------------------------- MODULE ClusterProofs ---------------------------
(***************************************************************************)
(* Proofs about Cluster, for any number of tasks, workers, retries, slots  *)
(* and disruptions of every kind.                                          *)
(***************************************************************************)
EXTENDS ClusterProperties, TLAPS

USE IdAssumption, StoreAssumption, ApiAssumption, WorkerAssumption, ClusterAssumption

----------------------------------------------------------------------------
(* What the statements of the store return *)

\* The rows that the store writes are rows.
LEMMA NewRows == PendingRow \in Row /\ NoRow \in Row
BY DEF PendingRow, NoRow, Row, WorkerRef, Statuses

\* Every SET list of the task protocol turns a row into a row.
LEMMA WrittenRows ==
    ASSUME NEW row \in Row, NEW w \in WorkerRef, NEW outcome \in {"success", "failed"}
    PROVE  /\ Leased(row, w) \in Row
           /\ Renewed(row, w) \in Row
           /\ Requeued(row, w) \in Row
           /\ Assigned(row, w) \in Row
           /\ Reported(row, outcome) \in Row
<1>1. Leased(row, w) \in Row
  BY DEF Leased, Row, Statuses
<1>2. Renewed(row, w) \in Row
  BY DEF Renewed, Row
<1>3. Requeued(row, w) \in Row
  BY DEF Requeued, Row, Statuses, WorkerRef
<1>4. Assigned(row, w) \in Row
  BY DEF Assigned, Row
<1>5. Reported(row, outcome) \in Row
  <2>1. Released(row) \in Row /\ Released(row).retry = row.retry
    BY DEF Released, Row, WorkerRef
  <2>2. row.retry \in Nat /\ (~ row.retry >= MaxRetries => row.retry + 1 \in 0 .. MaxRetries)
    BY DEF Row
  <2>3. Verdict(row, "success") \in Row /\ Verdict(row, "dead_letter") \in Row
    BY <2>1 DEF Verdict, Row, Statuses
  <2>4. ~ row.retry >= MaxRetries => Retried(row) \in Row
    BY <2>1, <2>2 DEF Retried, Row, Statuses
  <2> QED
    BY <2>3, <2>4 DEF Reported
<1> QED
  BY <1>1, <1>2, <1>3, <1>4, <1>5

----------------------------------------------------------------------------
(* Types *)

LEMMA TypeInit == Init => TypeOK
BY NewRows
DEF Init, StoreInit, LoopsInit, ApiInit, WorkersInit, TypeOK, StoreTypeOK, LoopsTypeOK,
    ApiTypeOK, WorkersTypeOK, AssignerIdle, ReaperIdle, Assigner, Reaper, WorkerRef

\* A component whose variables a step leaves alone stays typed.
LEMMA TypeStutter ==
    /\ StoreTypeOK /\ UNCHANGED storeVars => StoreTypeOK'
    /\ LoopsTypeOK /\ UNCHANGED loopVars => LoopsTypeOK'
    /\ ApiTypeOK /\ UNCHANGED apiVars => ApiTypeOK'
    /\ WorkersTypeOK /\ UNCHANGED workerVars => WorkersTypeOK'
BY DEF StoreTypeOK, LoopsTypeOK, ApiTypeOK, WorkersTypeOK, storeVars, loopVars, apiVars,
       workerVars

\* Disruptions are counted up to their bound.
LEMMA TypeDisruptions ==
    ASSUME disruptions \in 0 .. MaxDisruptions
    PROVE  /\ Calm => disruptions' \in 0 .. MaxDisruptions
           /\ \A kind : Disrupt(kind) => disruptions' \in 0 .. MaxDisruptions
           /\ \A c : TimeoutIf(c) => disruptions' \in 0 .. MaxDisruptions
BY DEF Calm, Disrupt, TimeoutIf, ClusterAssumption

\* A step of the scheduler keeps the types.
LEMMA TypeScheduler == TypeOK /\ SchedulerNext => TypeOK'
<1> SUFFICES ASSUME TypeOK, SchedulerNext PROVE TypeOK'
  OBVIOUS
<1> USE TypeStutter, TypeDisruptions, NewRows DEF TypeOK
<1>1. CASE Create
  BY <1>1 DEF Create, CreateTask, UpdateTask, StoreTypeOK, Tasks
<1>2. CASE AssignerStep
  <2>1. CASE AssignFind
    BY <1>2, <2>1 DEF AssignerStep, AssignFind, LoopsTypeOK, Assigner, AssignerIdle, IsOldest,
                      WorkerRef
  <2>2. CASE AssignPick
    <3>1. AssignerIdle \in Assigner /\ AssignerIdle.step = "idle"
      BY DEF AssignerIdle, Assigner, WorkerRef
    <3>2. \A w \in AliveWorkers :
            LET a == [assigner EXCEPT !.step = "picked", !.worker = w]
            IN  a \in Assigner /\ a.task = assigner.task
      BY DEF LoopsTypeOK, Assigner, AliveWorkers, WorkerRef
    <3>3. LoopsTypeOK'
      BY <2>2, <3>1, <3>2 DEF AssignPick, LoopsTypeOK
    <3> QED
      BY <1>2, <2>2, <3>3 DEF AssignerStep, AssignPick
  <2>3. CASE AssignTaskToWorker
    <3>1. Assigned(task[assigner.task], assigner.worker) \in Row
      BY <2>3, WrittenRows DEF AssignTaskToWorker, LoopsTypeOK, StoreTypeOK, Assigner
    <3>2. StoreTypeOK'
      BY <2>3, <3>1 DEF AssignTaskToWorker, UpdateTask, StoreTypeOK
    <3>3. LoopsTypeOK'
      BY <2>3 DEF AssignTaskToWorker, LoopsTypeOK, Assigner, AssignerIdle, WorkerRef
    <3> QED
      BY <1>2, <3>2, <3>3 DEF AssignerStep
  <2> QED
    BY <1>2, <2>1, <2>2, <2>3 DEF AssignerStep
<1>3. CASE LeaseReaperStep
  <2>1. \A t \in Tasks : Requeued(task[t], NoWorker) \in Row
    BY WrittenRows DEF StoreTypeOK, WorkerRef
  <2>2. StoreTypeOK'
    BY <1>3, <2>1 DEF LeaseReaperStep, ReclaimExpiredLeases, StoreTypeOK
  <2> QED
    BY <1>3, <2>2 DEF LeaseReaperStep, ReclaimExpiredLeases
<1>4. CASE WorkerReaperStep
  <2>1. CASE ListDeadWorkers
    BY <1>4, <2>1 DEF WorkerReaperStep, ListDeadWorkers, LoopsTypeOK, Reaper, ReaperIdle,
                      DeadWorkers, WorkerRef
  <2>2. CASE PickReplacement
    <3>1. ReaperIdle \in Reaper
      BY DEF ReaperIdle, Reaper, WorkerRef
    <3>2. \A w \in AliveWorkers : [reaper EXCEPT !.step = "picked", !.worker = w] \in Reaper
      BY DEF LoopsTypeOK, Reaper, AliveWorkers, WorkerRef
    <3>3. LoopsTypeOK'
      BY <2>2, <3>1, <3>2 DEF PickReplacement, LoopsTypeOK
    <3> QED
      BY <1>4, <2>2, <3>3 DEF WorkerReaperStep, PickReplacement
  <2>3. CASE ReassignDeadWorkerTasks
    <3>1. \A t \in Tasks : Requeued(task[t], reaper.worker) \in Row
      BY WrittenRows DEF StoreTypeOK, LoopsTypeOK, Reaper
    <3>2. StoreTypeOK'
      BY <2>3, <3>1 DEF ReassignDeadWorkerTasks, StoreTypeOK
    <3>3. LoopsTypeOK'
      BY <2>3 DEF ReassignDeadWorkerTasks, LoopsTypeOK, Reaper, ReaperIdle, WorkerRef
    <3> QED
      BY <1>4, <3>2, <3>3 DEF WorkerReaperStep
  <2> QED
    BY <1>4, <2>1, <2>2, <2>3 DEF WorkerReaperStep
<1>5. CASE CleanerStep
  BY <1>5 DEF CleanerStep, CleanOldDeadLetters, StoreTypeOK
<1>6. CASE SchedulerRestart
  <2>1. LoopsTypeOK'
    BY <1>6 DEF SchedulerRestart, LoopsTypeOK, AssignerIdle, ReaperIdle, Assigner, Reaper,
                WorkerRef
  <2>2. ApiTypeOK'
    BY <1>6 DEF SchedulerRestart, ApiTypeOK
  <2> QED
    BY <1>6, <2>1, <2>2 DEF SchedulerRestart
<1>7. CASE RemoveJob
  BY <1>7 DEF RemoveJob, DeleteJob, StoreTypeOK
<1>8. CASE RemoveTasks
  BY <1>8 DEF RemoveTasks, DeleteTasks, StoreTypeOK
<1>9. ASSUME NEW t \in Tasks, StartRerun(t) PROVE TypeOK'
  BY <1>9 DEF StartRerun, RerunRead, ApiTypeOK
<1>10. ASSUME NEW t \in Tasks, EndRerun(t) PROVE TypeOK'
  BY <1>10 DEF EndRerun, RerunSave, UpdateTask, StoreTypeOK, ApiTypeOK
<1> QED
  BY <1>1, <1>2, <1>3, <1>4, <1>5, <1>6, <1>7, <1>8, <1>9, <1>10 DEF SchedulerNext

\* The passing of time keeps the types.
LEMMA TypeTime == TypeOK /\ TimeNext => TypeOK'
<1> SUFFICES ASSUME TypeOK, TimeNext PROVE TypeOK'
  OBVIOUS
<1> USE TypeStutter, TypeDisruptions DEF TypeOK
<1>1. ASSUME NEW t \in Tasks, LeaseTimeout(t) PROVE TypeOK'
  BY <1>1 DEF LeaseTimeout, LeaseExpires, StoreTypeOK, Row
<1>2. ASSUME NEW t \in Tasks, BackoffEnds(t) PROVE TypeOK'
  BY <1>2 DEF BackoffEnds, RetryDue, StoreTypeOK, Row
<1>3. ASSUME NEW w \in Workers, HeartbeatLost(w) PROVE TypeOK'
  BY <1>3 DEF HeartbeatLost, HeartbeatTimesOut, StoreTypeOK
<1> QED
  BY <1>1, <1>2, <1>3 DEF TimeNext

\* The steps of a poll keep the types.
LEMMA TypePolls ==
    ASSUME TypeOK, NEW w \in Workers, PollStep(w)
    PROVE  TypeOK'
<1> USE TypeStutter, TypeDisruptions DEF TypeOK
<1>1. PICK p \in polls :
        \/ (PollFind(p) \/ PollEmpty(p) \/ PollLease(p) \/ PollFails(p)) /\ UNCHANGED workerVars
        \/ Deliver(p)
  BY DEF PollStep
<1>2. disruptions' \in 0 .. MaxDisruptions /\ LoopsTypeOK'
  BY DEF PollStep
<1>3. p \in Poll
  BY DEF ApiTypeOK
<1>4. CASE PollFind(p)
  BY <1>1, <1>2, <1>3, <1>4
  DEF PollFind, Deliver, PollAnswer, ApiTypeOK, Poll, Replace, IsOldest
<1>5. CASE PollEmpty(p) \/ PollFails(p)
  BY <1>1, <1>2, <1>5 DEF PollEmpty, PollFails, Deliver, PollAnswer, ApiTypeOK
<1>6. CASE PollLease(p)
  <2>1. p.task \in Tasks /\ p.worker \in WorkerRef /\ Leased(task[p.task], p.worker) \in Row
    BY <1>3, <1>6, WrittenRows DEF PollLease, ApiTypeOK, Poll, WorkerRef, StoreTypeOK
  <2>2. StoreTypeOK'
    BY <1>6, <2>1 DEF PollLease, UpdateTask, StoreTypeOK
  <2>3. ApiTypeOK'
    <3> DEFINE leased == [p EXCEPT !.step = "leased", !.run = runs[p.task] + 1]
               again == [p EXCEPT !.step = "find", !.task = 0]
    <3>1. leased \in Poll /\ leased.task \in Tasks
      <4>1. runs[p.task] + 1 \in Nat
        BY <2>1 DEF ApiTypeOK
      <4>2. \A n \in Nat : [p EXCEPT !.step = "leased", !.run = n] \in Poll
        BY <1>3 DEF Poll
      <4>3. leased.task = p.task
        BY <1>3 DEF Poll
      <4> QED
        BY <2>1, <4>1, <4>2, <4>3
    <3>2. again \in Poll /\ again.step = "find"
      BY <1>3 DEF Poll
    <3>3. CASE polls' = Replace(polls, p, leased) /\ runs' = [runs EXCEPT ![p.task] = @ + 1]
      <4> HIDE DEF leased
      <4> QED
        BY <1>6, <2>1, <3>1, <3>3 DEF PollLease, ApiTypeOK, Replace
    <3>4. CASE polls' = Replace(polls, p, again) /\ UNCHANGED runs
      <4> HIDE DEF again
      <4> QED
        BY <1>6, <3>2, <3>4 DEF PollLease, ApiTypeOK, Replace
    <3> QED
      BY <1>6, <3>3, <3>4 DEF PollLease
  <2> QED
    BY <1>1, <1>2, <1>6, <2>2, <2>3 DEF PollLease, Deliver, PollAnswer
<1>7. CASE Deliver(p)
  <2>1. ApiTypeOK' /\ StoreTypeOK'
    BY <1>7 DEF Deliver, PollAnswer, ApiTypeOK
  <2>2. WorkersTypeOK'
    BY <1>3, <1>7 DEF Deliver, PollAnswer, SpawnExecution, WorkersTypeOK, Goroutine, ApiTypeOK,
                      Poll
  <2> QED
    BY <1>2, <2>1, <2>2
<1> QED
  BY <1>1, <1>4, <1>5, <1>6, <1>7

\* The steps of a report keep the types.
LEMMA TypeReports ==
    ASSUME TypeOK, NEW t \in Tasks, ReportStep(t)
    PROVE  TypeOK'
<1> USE TypeStutter, TypeDisruptions DEF TypeOK
<1>1. PICK r \in reports : ReportRead(r) \/ ReportSave(r) \/ ReportFails(r)
  BY DEF ReportStep
<1>2. disruptions' \in 0 .. MaxDisruptions /\ LoopsTypeOK' /\ WorkersTypeOK'
  BY DEF ReportStep
<1>3. r \in Report
  BY DEF ApiTypeOK
<1>4. CASE ReportRead(r)
  <2>1. task[r.task] \in Row
    BY <1>3 DEF Report, StoreTypeOK
  <2> QED
    BY <1>2, <1>3, <1>4, <2>1 DEF ReportRead, ApiTypeOK, Report, Replace
<1>5. CASE ReportSave(r)
  <2>1. Reported(r.row, r.outcome) \in Row
    BY <1>3, WrittenRows DEF Report, WorkerRef
  <2> QED
    BY <1>2, <1>5, <2>1 DEF ReportSave, UpdateTask, StoreTypeOK, ApiTypeOK
<1>6. CASE ReportFails(r)
  BY <1>2, <1>6 DEF ReportFails, ApiTypeOK
<1> QED
  BY <1>1, <1>4, <1>5, <1>6

\* A step of a worker or of its requests keeps the types.
LEMMA TypeWorker == TypeOK /\ WorkerNext => TypeOK'
<1> SUFFICES ASSUME TypeOK, WorkerNext PROVE TypeOK'
  OBVIOUS
<1> USE TypeStutter, TypeDisruptions DEF TypeOK
<1>1. ASSUME NEW w \in Workers, StartPoll(w) PROVE TypeOK'
  <2> DEFINE p == [worker |-> w, step |-> "find", task |-> 0, run |-> 0, waiting |-> TRUE]
  <2>1. p \in Poll /\ p.step = "find"
    BY DEF Poll
  <2>2. ApiTypeOK'
    <3> HIDE DEF p
    <3>1. polls' = polls \cup {p} /\ UNCHANGED <<reports, reruns, runs>>
      BY <1>1 DEF StartPoll, AcceptPoll, p
    <3> QED
      BY <2>1, <3>1 DEF ApiTypeOK
  <2> QED
    BY <1>1, <2>2 DEF StartPoll, AcceptPoll
<1>2. ASSUME NEW w \in Workers, FinishTask(w) PROVE TypeOK'
  <2>1. PICK e \in exec, outcome \in {"success", "failed"} :
          StartReporting(e) /\ reports' = reports \cup {ReportFor(e, outcome)}
    BY <1>2 DEF FinishTask, GoroutinesOf
  <2>2. e \in Goroutine
    BY DEF WorkersTypeOK
  <2>3. ReportFor(e, outcome) \in Report
    BY <2>2, NewRows DEF ReportFor, Report, Goroutine
  <2>4. ApiTypeOK'
    BY <1>2, <2>1, <2>3 DEF FinishTask, ApiTypeOK
  <2>5. WorkersTypeOK'
    BY <2>1, <2>2 DEF StartReporting, WorkersTypeOK, Goroutine
  <2> QED
    BY <1>2, <2>4, <2>5 DEF FinishTask
<1>3. ASSUME NEW w \in Workers, ReportReturns(w) PROVE TypeOK'
  <2>1. PICK e \in exec : EndExecution(e)
    BY <1>3 DEF ReportReturns, GoroutinesOf
  <2>2. e \in Goroutine
    BY DEF WorkersTypeOK
  <2>3. WorkersTypeOK'
    BY <2>1, <2>2 DEF EndExecution, FinishExecution, Unregister, WorkersTypeOK, Goroutine
  <2> QED
    BY <2>1, <2>3 DEF EndExecution
<1>4. ASSUME NEW w \in Workers, HeartbeatStep(w) PROVE TypeOK'
  BY <1>4 DEF HeartbeatStep, Heartbeat, StoreTypeOK
<1>5. ASSUME NEW w \in Workers, StopWorker(w) PROVE TypeOK'
  <2>1. ApiTypeOK'
    BY <1>5 DEF StopWorker, ApiTypeOK, Poll
  <2>2. WorkersTypeOK'
    BY <1>5 DEF StopWorker, Stop, WorkersTypeOK
  <2> QED
    BY <1>5, <2>1, <2>2 DEF StopWorker
<1>6. ASSUME NEW w \in Workers, BootWorker(w) PROVE TypeOK'
  BY <1>6 DEF BootWorker, Boot, WorkersTypeOK
<1>7. ASSUME NEW w \in Workers, NEW t \in Tasks, Renew(w, t) PROVE TypeOK'
  <2>1. Renewed(task[t], w) \in Row
    BY WrittenRows DEF StoreTypeOK, WorkerRef
  <2>2. StoreTypeOK'
    BY <1>7, <2>1 DEF Renew, UpdateTask, StoreTypeOK
  <2>3. WorkersTypeOK'
    BY <1>7 DEF Renew, SendRenewal, WorkersTypeOK
  <2> QED
    BY <1>7, <2>2, <2>3 DEF Renew
<1>8. CASE GiveUpPoll
  BY <1>8 DEF GiveUpPoll, AbandonPoll, ApiTypeOK, Poll, Replace
<1>9. CASE DropReport
  BY <1>9 DEF DropReport, LoseReport, ApiTypeOK
<1> QED
  BY <1>1, <1>2, <1>3, <1>4, <1>5, <1>6, <1>7, <1>8, <1>9, TypePolls, TypeReports DEF WorkerNext

\* Every variable keeps to its type (TypeOK).
THEOREM TypeCorrect == Spec => []TypeOK
<1>1. TypeOK /\ UNCHANGED vars => TypeOK'
  BY TypeStutter DEF TypeOK, vars
<1>2. TypeOK /\ [Next]_vars => TypeOK'
  BY <1>1, TypeScheduler, TypeTime, TypeWorker DEF Next
<1> QED
  BY TypeInit, <1>2, PTL DEF Spec

----------------------------------------------------------------------------
(* What a step does to the tasks table and to the assigner's locals.  The  *)
(* leases and their ownership follow from these two facts alone.           *)

\* LeaseTask succeeded.
LeaseGranted ==
    \E t \in Tasks, w \in Workers :
      /\ Leasable(task[t], w)
      /\ task' = [task EXCEPT ![t] = Leased(task[t], w)]
      /\ runs' = [runs EXCEPT ![t] = @ + 1]

\* Everything else that can happen to a row.
RowStep(t) ==
    \/ task'[t] \in {task[t], PendingRow, NoRow}
    \/ \E w \in Workers : task'[t] = Renewed(task[t], w)
    \/ \E w \in WorkerRef :
         /\ task[t].assigned # NoWorker \/ task[t].status = "running"
         /\ task'[t] = Requeued(task[t], w)
    \/ /\ assigner.step = "picked" /\ t = assigner.task /\ assigner'.step = "idle"
       /\ task'[t] = Assigned(task[t], assigner.worker)
    \/ \E r \in reports :
         /\ ReportSave(r) /\ UNCHANGED workerVars
         /\ r.task = t /\ task'[t] = Reported(r.row, r.outcome)
    \/ task[t].lease = "live" /\ task'[t] = [task[t] EXCEPT !.lease = "expired"]
    \/ task'[t] = [task[t] EXCEPT !.next = "due"]

AssignerMoves ==
    \/ assigner' = assigner
    \/ assigner'.step = "idle"
    \/ /\ UNCHANGED task
       /\ assigner.step # "idle" /\ assigner'.task = assigner.task
    \/ /\ UNCHANGED task
       /\ assigner'.task \in Tasks /\ Assignable(task[assigner'.task])

\* A step of the scheduler rewrites rows as RowStep says.
LEMMA SchedulerRows ==
    TypeOK /\ SchedulerNext => (\A t \in Tasks : RowStep(t)) /\ AssignerMoves
<1> SUFFICES ASSUME TypeOK, SchedulerNext
             PROVE  (\A t \in Tasks : RowStep(t)) /\ AssignerMoves
  OBVIOUS
<1> USE DEF TypeOK, StoreTypeOK, LoopsTypeOK
<1>1. CASE Create
  BY <1>1 DEF Create, CreateTask, UpdateTask, RowStep, AssignerMoves, loopVars
<1>2. CASE AssignerStep
  <2>1. CASE AssignFind
    BY <2>1 DEF AssignFind, AssignerIdle, IsOldest, RowStep, AssignerMoves, storeVars
  <2>2. CASE AssignPick
    <3>1. UNCHANGED task /\ assigner.step # "idle"
      BY <2>2 DEF AssignPick, storeVars
    <3>2. assigner'.step = "idle" \/ assigner'.task = assigner.task
      <4>1. CASE assigner' = AssignerIdle
        BY <4>1 DEF AssignerIdle
      <4>2. ASSUME NEW w \in Workers,
                   assigner' = [assigner EXCEPT !.step = "picked", !.worker = w]
            PROVE  assigner'.task = assigner.task
        BY <4>2 DEF Assigner
      <4> QED
        BY <2>2, <4>1, <4>2 DEF AssignPick, AliveWorkers
    <3> QED
      BY <3>1, <3>2 DEF RowStep, AssignerMoves
  <2>3. CASE AssignTaskToWorker
    BY <2>3 DEF AssignTaskToWorker, UpdateTask, AssignerIdle, RowStep, AssignerMoves
  <2> QED
    BY <1>2, <2>1, <2>2, <2>3 DEF AssignerStep
<1>3. CASE LeaseReaperStep
  BY <1>3 DEF LeaseReaperStep, ReclaimExpiredLeases, Reclaimable, WorkerRef, RowStep,
              AssignerMoves, loopVars
<1>4. CASE WorkerReaperStep
  <2>1. CASE ListDeadWorkers \/ PickReplacement
    BY <2>1 DEF ListDeadWorkers, PickReplacement, RowStep, AssignerMoves, storeVars
  <2>2. CASE ReassignDeadWorkerTasks
    BY <2>2 DEF ReassignDeadWorkerTasks, OwnedByDead, Reaper, RowStep, AssignerMoves
  <2> QED
    BY <1>4, <2>1, <2>2 DEF WorkerReaperStep
<1>5. CASE CleanerStep
  BY <1>5 DEF CleanerStep, CleanOldDeadLetters, RowStep, AssignerMoves, loopVars
<1>6. CASE SchedulerRestart
  BY <1>6 DEF SchedulerRestart, AssignerIdle, RowStep, AssignerMoves, storeVars
<1>7. CASE RemoveJob
  BY <1>7 DEF RemoveJob, DeleteJob, RowStep, AssignerMoves, loopVars
<1>8. CASE RemoveTasks
  BY <1>8 DEF RemoveTasks, DeleteTasks, RowStep, AssignerMoves, loopVars
<1>9. ASSUME NEW u \in Tasks, StartRerun(u) \/ EndRerun(u)
      PROVE  (\A t \in Tasks : RowStep(t)) /\ AssignerMoves
  BY <1>9 DEF StartRerun, EndRerun, RerunRead, RerunSave, UpdateTask, RowStep, AssignerMoves,
              storeVars, loopVars
<1> QED
  BY <1>1, <1>2, <1>3, <1>4, <1>5, <1>6, <1>7, <1>8, <1>9 DEF SchedulerNext

\* So does the passing of time.
LEMMA TimeRows == TypeOK /\ TimeNext => (\A t \in Tasks : RowStep(t)) /\ AssignerMoves
BY DEF TypeOK, StoreTypeOK, TimeNext, LeaseTimeout, LeaseExpires, BackoffEnds, RetryDue,
       HeartbeatLost, HeartbeatTimesOut, RowStep, AssignerMoves, loopVars

\* A worker's step may also be the grant of one lease.
LEMMA WorkerRows ==
    TypeOK /\ WorkerNext
      => (LeaseGranted \/ \A t \in Tasks : RowStep(t)) /\ assigner' = assigner
<1> SUFFICES ASSUME TypeOK, WorkerNext
             PROVE  (LeaseGranted \/ \A t \in Tasks : RowStep(t)) /\ assigner' = assigner
  OBVIOUS
<1> USE DEF TypeOK, StoreTypeOK
<1>1. ASSUME NEW w \in Workers, PollStep(w)
      PROVE  (LeaseGranted \/ \A t \in Tasks : RowStep(t)) /\ assigner' = assigner
  <2>1. PICK p \in polls :
          PollFind(p) \/ PollEmpty(p) \/ PollLease(p) \/ PollFails(p) \/ PollAnswer(p)
    BY <1>1 DEF PollStep, Deliver
  <2>2. assigner' = assigner
    BY <1>1 DEF PollStep, loopVars
  <2>3. CASE PollLease(p)
    <3>1. p.task \in Tasks /\ p.worker \in Workers
      BY <2>3 DEF PollLease, ApiTypeOK, Poll
    <3> QED
      BY <2>2, <2>3, <3>1 DEF PollLease, UpdateTask, LeaseGranted, RowStep
  <2>4. CASE PollFind(p) \/ PollEmpty(p) \/ PollFails(p) \/ PollAnswer(p)
    BY <2>2, <2>4 DEF PollFind, PollEmpty, PollFails, PollAnswer, RowStep, storeVars
  <2> QED
    BY <2>1, <2>3, <2>4
<1>2. ASSUME NEW w \in Workers,
             \/ StartPoll(w) \/ FinishTask(w) \/ ReportReturns(w)
             \/ HeartbeatStep(w) \/ StopWorker(w) \/ BootWorker(w)
      PROVE  (\A t \in Tasks : RowStep(t)) /\ assigner' = assigner
  BY <1>2 DEF StartPoll, AcceptPoll, FinishTask, ReportReturns, EndExecution, HeartbeatStep,
              Heartbeat, StopWorker, BootWorker, RowStep, storeVars, loopVars
<1>3. ASSUME NEW w \in Workers, NEW u \in Tasks, Renew(w, u)
      PROVE  (\A t \in Tasks : RowStep(t)) /\ assigner' = assigner
  BY <1>3 DEF Renew, UpdateTask, RowStep, loopVars
<1>4. ASSUME NEW u \in Tasks, ReportStep(u)
      PROVE  (\A t \in Tasks : RowStep(t)) /\ assigner' = assigner
  <2>1. PICK r \in reports : ReportRead(r) \/ ReportSave(r) \/ ReportFails(r)
    BY <1>4 DEF ReportStep
  <2>2. assigner' = assigner /\ UNCHANGED workerVars
    BY <1>4 DEF ReportStep, loopVars
  <2>3. CASE ReportSave(r)
    <3>1. task' = [task EXCEPT ![r.task] = Reported(r.row, r.outcome)]
      BY <2>3 DEF ReportSave, UpdateTask
    <3> QED
      BY <2>2, <2>3, <3>1 DEF RowStep
  <2>4. CASE ReportRead(r) \/ ReportFails(r)
    BY <2>2, <2>4 DEF ReportRead, ReportFails, RowStep, storeVars
  <2> QED
    BY <2>1, <2>3, <2>4
<1>5. CASE GiveUpPoll \/ DropReport
  BY <1>5 DEF GiveUpPoll, AbandonPoll, DropReport, LoseReport, RowStep, storeVars, loopVars
<1> QED
  BY <1>1, <1>2, <1>3, <1>4, <1>5 DEF WorkerNext

LEMMA Rows ==
    TypeOK /\ [Next]_vars
      => /\ (LeaseGranted /\ assigner' = assigner) \/ \A t \in Tasks : RowStep(t)
         /\ AssignerMoves
<1>1. UNCHANGED vars => (\A t \in Tasks : RowStep(t)) /\ AssignerMoves
  BY DEF vars, storeVars, loopVars, RowStep, AssignerMoves
<1> QED
  BY <1>1, SchedulerRows, TimeRows, WorkerRows DEF Next, AssignerMoves

----------------------------------------------------------------------------
(* Leases and assignments.  Neither invariant is inductive alone: a lease  *)
(* is granted on the assignment, so the assigner must not change it under  *)
(* a running task; and the assigner is safe because only a running task or *)
(* an assigned one is requeued, which needs the columns to agree.          *)

LeaseInv == TypeOK /\ LeaseConsistent /\ AssignerExclusive

\* A lease is granted only where nobody holds one, and not on the task the
\* assigner has found.
LEMMA LeasableIsFree ==
    ASSUME LeaseInv, NEW t \in Tasks, NEW w \in Workers, Leasable(task[t], w)
    PROVE  /\ task[t].holder = NoWorker
           /\ assigner.step # "idle" => assigner.task # t
           /\ RowConsistent(Leased(task[t], w))
BY DEF LeaseInv, TypeOK, StoreTypeOK, Row, LeaseConsistent, RowConsistent, AssignerExclusive,
       Leasable, LeaseFree, Leased

\* Whatever else happens to a row leaves it consistent, gives its lease to
\* nobody, and leaves it alone if the assigner has found it.
LEMMA RowStepSafe ==
    ASSUME LeaseInv, NEW t \in Tasks, RowStep(t)
    PROVE  /\ RowConsistent(task'[t])
           /\ task'[t].holder \in {NoWorker, task[t].holder}
           /\ assigner.step # "idle" /\ assigner'.step # "idle" /\ t = assigner.task
                => task'[t].assigned = NoWorker /\ task'[t].status # "running"
<1> DEFINE Safe ==
      /\ RowConsistent(task'[t])
      /\ task'[t].holder \in {NoWorker, task[t].holder}
      /\ assigner.step # "idle" /\ assigner'.step # "idle" /\ t = assigner.task
           => task'[t].assigned = NoWorker /\ task'[t].status # "running"
<1>1. task[t] \in Row /\ RowConsistent(task[t])
  BY DEF LeaseInv, TypeOK, StoreTypeOK, LeaseConsistent
<1>2. assigner.step # "idle" /\ t = assigner.task
        => task[t].assigned = NoWorker /\ task[t].status # "running"
  BY DEF LeaseInv, AssignerExclusive
<1>3. CASE task'[t] \in {task[t], PendingRow, NoRow}
  BY <1>1, <1>2, <1>3 DEF RowConsistent, PendingRow, NoRow
<1>4. ASSUME NEW w \in Workers, task'[t] = Renewed(task[t], w) PROVE Safe
  BY <1>1, <1>2, <1>4 DEF Renewed, RowConsistent, Row
<1>5. ASSUME NEW w \in WorkerRef, task'[t] = Requeued(task[t], w),
             task[t].assigned # NoWorker \/ task[t].status = "running"
      PROVE  Safe
  BY <1>1, <1>2, <1>5 DEF Requeued, RowConsistent, Row
<1>6. CASE /\ assigner.step = "picked" /\ t = assigner.task /\ assigner'.step = "idle"
           /\ task'[t] = Assigned(task[t], assigner.worker)
  BY <1>1, <1>2, <1>6 DEF Assigned, RowConsistent, Row
<1>7. ASSUME NEW r \in reports, task'[t] = Reported(r.row, r.outcome)
      PROVE  Safe
  <2> DEFINE row == r.row
  <2>0. row \in Row
    BY DEF LeaseInv, TypeOK, ApiTypeOK, Report
  <2> HIDE DEF row
  <2>1. /\ task'[t].holder = NoWorker /\ task'[t].lease = "none"
        /\ task'[t].assigned = NoWorker /\ task'[t].status # "running"
    <3>1. task'[t] = Reported(row, r.outcome)
      BY <1>7 DEF row
    <3> QED
      BY <2>0, <3>1 DEF Reported, Verdict, Retried, Released, Row
  <2> QED
    BY <2>1 DEF RowConsistent
<1>8. CASE task[t].lease = "live" /\ task'[t] = [task[t] EXCEPT !.lease = "expired"]
  BY <1>1, <1>2, <1>8 DEF RowConsistent, Row
<1>9. CASE task'[t] = [task[t] EXCEPT !.next = "due"]
  BY <1>1, <1>2, <1>9 DEF RowConsistent, Row
<1> QED
  BY <1>3, <1>4, <1>5, <1>6, <1>7, <1>8, <1>9 DEF RowStep

LEMMA LeaseInvStep == LeaseInv /\ [Next]_vars => LeaseInv'
<1> SUFFICES ASSUME LeaseInv, [Next]_vars PROVE LeaseInv'
  OBVIOUS
<1>1. TypeOK /\ TypeOK'
  BY TypeScheduler, TypeTime, TypeWorker, TypeStutter DEF LeaseInv, Next, TypeOK, vars
<1>2. AssignerMoves
  BY <1>1, Rows
<1>3. CASE LeaseGranted /\ assigner' = assigner
  <2>1. PICK t \in Tasks, w \in Workers :
          Leasable(task[t], w) /\ task' = [task EXCEPT ![t] = Leased(task[t], w)]
    BY <1>3 DEF LeaseGranted
  <2>2. LeaseConsistent'
    BY <1>1, <2>1, LeasableIsFree DEF LeaseInv, LeaseConsistent, TypeOK, StoreTypeOK
  <2>3. AssignerExclusive'
    BY <1>1, <1>3, <2>1, LeasableIsFree
    DEF LeaseInv, AssignerExclusive, TypeOK, StoreTypeOK, LoopsTypeOK
  <2> QED
    BY <1>1, <2>2, <2>3 DEF LeaseInv
<1>4. CASE \A t \in Tasks : RowStep(t)
  <2>1. LeaseConsistent'
    BY <1>4, RowStepSafe DEF LeaseConsistent
  <2>2. CASE assigner' = assigner
    BY <1>1, <1>4, <2>1, <2>2, RowStepSafe DEF LeaseInv, AssignerExclusive, TypeOK, LoopsTypeOK
  <2>3. CASE assigner'.step = "idle"
    BY <1>1, <2>1, <2>3 DEF LeaseInv, AssignerExclusive
  <2>4. CASE UNCHANGED task /\ assigner.step # "idle" /\ assigner'.task = assigner.task
    BY <1>1, <2>1, <2>4 DEF LeaseInv, AssignerExclusive
  <2>5. CASE UNCHANGED task /\ assigner'.task \in Tasks /\ Assignable(task[assigner'.task])
    BY <1>1, <2>1, <2>5 DEF LeaseInv, AssignerExclusive, Assignable, Runnable
  <2> QED
    BY <1>2, <2>2, <2>3, <2>4, <2>5 DEF AssignerMoves
<1> QED
  BY <1>1, <1>3, <1>4, Rows

LEMMA LeaseInvInit == Init => LeaseInv
BY TypeInit
DEF Init, StoreInit, LoopsInit, LeaseInv, LeaseConsistent, RowConsistent, AssignerExclusive,
    AssignerIdle, NoRow, PendingRow

\* In every reachable state the lease columns of every row agree, whichever
\* handler, loop or operator wrote it last (LeaseConsistent).
THEOREM LeasesConsistent == Spec => []LeaseConsistent
<1>1. LeaseInv => LeaseConsistent
  BY DEF LeaseInv
<1> QED
  BY <1>1, LeaseInvInit, LeaseInvStep, PTL DEF Spec

\* What the assigner found unassigned is still unassigned and not running when
\* it assigns it, although its UPDATE does not check (AssignerExclusive).
THEOREM AssignerSafe == Spec => []AssignerExclusive
<1>1. LeaseInv => AssignerExclusive
  BY DEF LeaseInv
<1> QED
  BY <1>1, LeaseInvInit, LeaseInvStep, PTL DEF Spec

\* The leases implement the exclusive ownership of Ownership
\* (ImplementsOwnership): whatever polls, reports, reapers and operators do, a
\* task is acquired only while free, by one worker at a time.
THEOREM OwnershipImplemented == Spec => ImplementsOwnership
<1> DEFINE holders == [t \in Tasks |-> task[t].holder]
<1>1. Init => Lock!Init
  BY DEF Init, StoreInit, Lock!Init, NoRow, PendingRow
<1>2. LeaseInv /\ [Next]_vars => [Lock!Next]_holders
  <2> SUFFICES ASSUME LeaseInv, [Next]_vars PROVE [Lock!Next]_holders
    OBVIOUS
  <2>1. CASE LeaseGranted
    <3>1. PICK t \in Tasks, w \in Workers :
            Leasable(task[t], w) /\ task' = [task EXCEPT ![t] = Leased(task[t], w)]
      BY <2>1 DEF LeaseGranted
    <3>2. task[t].holder = NoWorker
      BY <3>1, LeasableIsFree
    <3>3. task \in [Tasks -> Row]
      BY DEF LeaseInv, TypeOK, StoreTypeOK
    <3>4. Leased(task[t], w).holder = w
      BY <3>3 DEF Leased, Row
    <3>5. holders' = [holders EXCEPT ![t] = w]
      BY <3>1, <3>3, <3>4
    <3> QED
      BY <3>2, <3>5 DEF Lock!Next, Lock!Acquire
  <2>2. CASE \A t \in Tasks : RowStep(t)
    <3> DEFINE freed == {t \in Tasks : task'[t].holder = NoWorker}
    <3>1. \A t \in Tasks : task'[t].holder \in {NoWorker, task[t].holder}
      BY <2>2, RowStepSafe
    <3>2. holders' = [t \in Tasks |-> IF t \in freed THEN NoWorker ELSE holders[t]]
      BY <3>1
    <3>3. freed \in SUBSET Tasks
      OBVIOUS
    <3> QED
      BY <3>2, <3>3 DEF Lock!Next, Lock!Release
  <2> QED
    BY <2>1, <2>2, Rows DEF LeaseInv
<1> QED
  BY <1>1, <1>2, LeaseInvInit, LeaseInvStep, PTL DEF Spec, ImplementsOwnership, Lock!Spec
=============================================================================
