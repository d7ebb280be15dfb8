------------------------------ MODULE Cluster ------------------------------
(***************************************************************************)
(* One scheduler, its database and the workers: the life of a task from    *)
(* CreateTask to "success" or "dead_letter".  The actions of the component *)
(* modules are joined into steps of the whole system.                      *)
(*                                                                         *)
(* A step nothing provokes in a run where processes stay up, requests are  *)
(* answered, timeouts are not hit and no operator intervenes is a          *)
(* disruption: it is marked Disrupt(kind) and counted, every other step is *)
(* Calm.  The properties say what holds whatever the disruptions, and what *)
(* holds as long as there was none.                                        *)
(***************************************************************************)
EXTENDS SchedulerLoops, WorkerApi, WorkerProcess

CONSTANTS
    Mortal,         \* the workers whose process may stop
    Faults,         \* the kinds of disruption that may occur
    MaxDisruptions  \* bound: disruptions per behaviour

FaultKinds == {"timeout", "loss", "crash", "operator"}

ASSUME ClusterAssumption ==
    /\ Mortal \subseteq Workers
    /\ Faults \subseteq FaultKinds
    /\ MaxDisruptions \in Nat

VARIABLE disruptions

vars == <<storeVars, loopVars, apiVars, workerVars, disruptions>>

Disrupt(kind) ==
    /\ kind \in Faults /\ disruptions < MaxDisruptions
    /\ disruptions' = disruptions + 1

Calm == UNCHANGED disruptions

TimeoutIf(condition) == IF condition THEN Disrupt("timeout") ELSE Calm

Init == StoreInit /\ LoopsInit /\ ApiInit /\ WorkersInit /\ disruptions = 0

----------------------------------------------------------------------------
(* The scheduler's own steps.  A dispatch read the job before it inserts   *)
(* the task, so CreateTask does not depend on the job being there still.   *)

Create == CreateTask /\ Calm /\ UNCHANGED <<loopVars, apiVars, workerVars>>

AssignerStep ==
    /\ AssignFind \/ AssignPick \/ AssignTaskToWorker
    /\ Calm /\ UNCHANGED <<apiVars, workerVars>>

LeaseReaperStep == ReclaimExpiredLeases /\ Calm /\ UNCHANGED <<apiVars, workerVars>>

WorkerReaperStep ==
    /\ ListDeadWorkers \/ PickReplacement \/ ReassignDeadWorkerTasks
    /\ Calm /\ UNCHANGED <<apiVars, workerVars>>

CleanerStep ==
    /\ \E S \in SUBSET Tasks : CleanOldDeadLetters(S)
    /\ Calm /\ UNCHANGED <<loopVars, apiVars, workerVars>>

----------------------------------------------------------------------------
(* Polling and executing *)

\* Start takes a slot of the semaphore, then polls: one poll at a time.
StartPoll(w) ==
    /\ w \in up /\ ~ Polling(w) /\ HasSlot(w)
    /\ AcceptPoll(w)
    /\ Calm /\ UNCHANGED <<loopVars, workerVars>>

\* The answer reaches a worker that still waits for it, or nobody.
Deliver(p) ==
    /\ PollAnswer(p)
    /\ IF p.waiting THEN SpawnExecution(p.worker, p.task, p.run)
                    ELSE UNCHANGED workerVars

PollStep(w) ==
    /\ \E p \in polls :
         /\ p.worker = w
         /\ \/ (PollFind(p) \/ PollEmpty(p) \/ PollLease(p) \/ PollFails(p))
               /\ UNCHANGED workerVars
            \/ Deliver(p)
    /\ Calm /\ UNCHANGED loopVars

GiveUpPoll == \E p \in polls : AbandonPoll(p) /\ Disrupt("timeout")
                             /\ UNCHANGED <<loopVars, workerVars>>

ReportFor(e, outcome) ==
    [task |-> e.task, run |-> e.run, outcome |-> outcome, step |-> "sent", row |-> NoRow]

\* executeTask: the command ended, or its timeout ended it; the result goes out
FinishTask(w) ==
    /\ \E e \in GoroutinesOf(w), outcome \in {"success", "failed"} :
         /\ StartReporting(e)
         /\ reports' = reports \cup {ReportFor(e, outcome)}
    /\ Calm /\ UNCHANGED <<storeVars, loopVars, polls, reruns, runs>>

ReportStep(t) ==
    /\ \E r \in reports :
         /\ r.task = t
         /\ ReportRead(r) \/ ReportSave(r) \/ ReportFails(r)
    /\ Calm /\ UNCHANGED <<loopVars, workerVars>>

DropReport == \E r \in reports : LoseReport(r) /\ Disrupt("loss")
                               /\ UNCHANGED <<loopVars, workerVars>>

ReportInFlight(e) == \E r \in reports : r.task = e.task /\ r.run = e.run

\* reportResult returns with an answer, an error, or on the client's timeout
\* while the handler is still at work.
EndExecution(e) ==
    /\ FinishExecution(e)
    /\ TimeoutIf(ReportInFlight(e))
    /\ UNCHANGED <<storeVars, loopVars, apiVars>>

ReportReturns(w) == \E e \in GoroutinesOf(w) : EndExecution(e)

----------------------------------------------------------------------------
(* Lease renewal and heartbeats *)

\* handleTaskRenew answers "renewed" whether or not a row matched.
Renew(w, t) ==
    /\ SendRenewal(w, t)
    /\ UpdateTask(t, Renewed(task[t], w))
    /\ Calm /\ UNCHANGED <<created, jobs, beat, loopVars, apiVars>>

HeartbeatStep(w) ==
    /\ w \in up
    /\ Heartbeat(w)
    /\ Calm /\ UNCHANGED <<loopVars, apiVars, workerVars>>

----------------------------------------------------------------------------
(* Time.  Heartbeats come every 15 s against a timeout of 60 s, renewals   *)
(* every 30 s against a lease of 120 s, and an answer takes less than the  *)
(* shortest backoff: where one of these margins is used up, the expiry is  *)
(* a disruption.                                                           *)

Renewing(w, t) == w \in up /\ t \in registered[w]

\* The answer with the lease is on its way to a worker that waits for it.
Answering(w, t) ==
    \E p \in polls : p.worker = w /\ p.waiting /\ p.step = "leased"
                     /\ p.task = t /\ p.run = runs[t]

Attended(t) ==
    \E w \in Workers : w = task[t].holder /\ (Renewing(w, t) \/ Answering(w, t))

LeaseTimeout(t) ==
    /\ LeaseExpires(t) /\ TimeoutIf(Attended(t))
    /\ UNCHANGED <<loopVars, apiVars, workerVars>>

\* A goroutine whose report was handled and that is about to hear of it
Answered(t) ==
    \E e \in exec : e.task = t /\ e.pc = "reporting" /\ ~ ReportInFlight(e)

BackoffEnds(t) ==
    /\ RetryDue(t) /\ TimeoutIf(Answered(t))
    /\ UNCHANGED <<loopVars, apiVars, workerVars>>

HeartbeatLost(w) ==
    /\ HeartbeatTimesOut(w) /\ TimeoutIf(w \in up)
    /\ UNCHANGED <<loopVars, apiVars, workerVars>>

----------------------------------------------------------------------------
(* Crashes and operators *)

StopWorker(w) ==
    /\ w \in Mortal /\ Stop(w)
    /\ polls' = {IF p.worker = w THEN [p EXCEPT !.waiting = FALSE] ELSE p : p \in polls}
    /\ Disrupt("crash") /\ UNCHANGED <<storeVars, loopVars, reports, reruns, runs>>

BootWorker(w) == Boot(w) /\ Calm /\ UNCHANGED <<storeVars, loopVars, apiVars>>

\* The scheduler process dies and starts again: the database is what stays.
SchedulerRestart ==
    /\ polls' = {} /\ reports' = {} /\ reruns' = {}
    /\ assigner' = AssignerIdle /\ reaper' = ReaperIdle
    /\ Disrupt("crash") /\ UNCHANGED <<storeVars, runs, workerVars>>

RemoveJob ==
    /\ \E j \in Jobs : DeleteJob(j)
    /\ Disrupt("operator") /\ UNCHANGED <<loopVars, apiVars, workerVars>>

RemoveTasks ==
    /\ \E S \in SUBSET Tasks : DeleteTasks(S)
    /\ Disrupt("operator") /\ UNCHANGED <<loopVars, apiVars, workerVars>>

StartRerun(t) == RerunRead(t) /\ Disrupt("operator") /\ UNCHANGED <<loopVars, workerVars>>

EndRerun(t) == RerunSave(t) /\ Calm /\ UNCHANGED <<loopVars, workerVars>>

----------------------------------------------------------------------------
SchedulerNext ==
    \/ Create \/ AssignerStep \/ LeaseReaperStep \/ WorkerReaperStep \/ CleanerStep
    \/ SchedulerRestart \/ RemoveJob \/ RemoveTasks
    \/ \E t \in Tasks : StartRerun(t) \/ EndRerun(t)

TimeNext ==
    \/ \E t \in Tasks : LeaseTimeout(t) \/ BackoffEnds(t)
    \/ \E w \in Workers : HeartbeatLost(w)

WorkerNext ==
    \/ \E w \in Workers :
         \/ StartPoll(w) \/ PollStep(w) \/ FinishTask(w) \/ ReportReturns(w)
         \/ HeartbeatStep(w) \/ StopWorker(w) \/ BootWorker(w)
         \/ \E t \in Tasks : Renew(w, t)
    \/ \E t \in Tasks : ReportStep(t)
    \/ GiveUpPoll \/ DropReport

Next == SchedulerNext \/ TimeNext \/ WorkerNext

Spec == Init /\ [][Next]_vars

\* Tickers fire, handlers run on, commands end by their timeout, processes
\* that are up poll and beat.  Nobody must create tasks or boot a worker.
Fairness ==
    /\ WF_vars(AssignerStep) /\ WF_vars(LeaseReaperStep) /\ WF_vars(WorkerReaperStep)
    /\ \A w \in Workers :
         /\ WF_vars(StartPoll(w)) /\ WF_vars(PollStep(w)) /\ WF_vars(FinishTask(w))
         /\ WF_vars(Calm /\ ReportReturns(w)) /\ WF_vars(HeartbeatStep(w))
         /\ WF_vars(Calm /\ HeartbeatLost(w))
    /\ \A t \in Tasks :
         /\ WF_vars(ReportStep(t)) /\ WF_vars(EndRerun(t))
         /\ WF_vars(Calm /\ LeaseTimeout(t)) /\ WF_vars(Calm /\ BackoffEnds(t))

FairSpec == Spec /\ Fairness
=============================================================================
