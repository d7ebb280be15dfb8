-------------------------- MODULE ExecutionProofs --------------------------
(***************************************************************************)
(* Proofs about the executions of Cluster: which lease each belongs to,    *)
(* how many a worker runs, what the attempts of a dead letter were; and    *)
(* about the behaviours without a disruption, which have LifeCycle.        *)
(***************************************************************************)
EXTENDS ClusterProofs, FiniteSetTheorems

USE IdAssumption, StoreAssumption, ApiAssumption, WorkerAssumption, ClusterAssumption

----------------------------------------------------------------------------
(* The life of one lease: a poll that was granted it, then a goroutine,    *)
(* then a report.                                                          *)

LeasedPolls == {p \in polls : p.step = "leased"}

SameRun(x, y) == x.task = y.task /\ x.run = y.run

\* Each lease is in one stage, and there once.
RunsDistinct ==
    /\ \A p, q \in LeasedPolls : SameRun(p, q) => p = q
    /\ \A e, f \in exec : SameRun(e, f) => e = f
    /\ \A r, s \in reports : SameRun(r, s) => r = s
    /\ \A p \in LeasedPolls :
         (\A e \in exec : ~ SameRun(p, e)) /\ (\A r \in reports : ~ SameRun(p, r))
    /\ \A e \in exec, r \in reports : SameRun(e, r) => e.pc = "reporting"

\* It was granted ...
RunsCounted ==
    /\ \A p \in LeasedPolls : p.run \in 1 .. runs[p.task]
    /\ \A e \in exec : e.run \in 1 .. runs[e.task]
    /\ \A r \in reports : r.run \in 1 .. runs[r.task]

\* ... and the latest one to the worker that holds the task, if it is running.
OnHolder(x) ==
    x.run = runs[x.task] /\ task[x.task].status = "running" => x.worker = task[x.task].holder

LatestOnHolder == (\A p \in LeasedPolls : OnHolder(p)) /\ (\A e \in exec : OnHolder(e))

RunInv == RunsDistinct /\ RunsCounted /\ LatestOnHolder

\* A worker waits for one poll at a time, and has room for its answer.
SlotInv ==
    /\ \A p, q \in polls : p.waiting /\ q.waiting /\ p.worker = q.worker => p = q
    /\ IsFiniteSet(exec)
    /\ ConcurrencyLimit

RegisteredInv == \A w \in Workers : registered[w] \subseteq {e.task : e \in GoroutinesOf(w)}

\* A report on the lease is still to come, ...
Outstanding(t, n) ==
    \/ \E p \in LeasedPolls : p.task = t /\ p.run = n
    \/ \E e \in exec : e.task = t /\ e.run = n /\ e.pc = "running"
    \/ \E r \in reports : r.task = t /\ r.run = n

\* ... or not: the leases of a task that are over.
Over(t) == {n \in 1 .. runs[t] : ~ Outstanding(t, n)}

\* Each retry was charged for a lease of its own.
RetriesEarned ==
    /\ \A t \in Tasks : task[t].retry <= Cardinality(Over(t))
    /\ \A r \in reports : r.step = "read" => r.row.retry <= Cardinality(Over(r.task))
    /\ DeadLetterEarned

ExecInv == LeaseInv /\ RunInv /\ SlotInv /\ RegisteredInv /\ RetriesEarned

----------------------------------------------------------------------------
(* The steps that move requests and executions *)

\* None of them moves.
Quiet == UNCHANGED <<polls, reports, exec, runs, registered>>

PollMoves(p) == PollFind(p) \/ PollEmpty(p) \/ PollLease(p) \/ PollFails(p)

ReportMoves(r) == ReportRead(r) \/ ReportSave(r) \/ ReportFails(r)

LEMMA Steps ==
    ASSUME [Next]_vars
    PROVE  \/ Quiet
           \/ \E w \in Workers : StartPoll(w) \/ FinishTask(w) \/ StopWorker(w)
           \/ \E p \in polls : PollMoves(p) /\ UNCHANGED workerVars
           \/ \E p \in polls : Deliver(p)
           \/ \E r \in reports : ReportMoves(r) /\ UNCHANGED workerVars
           \/ \E e \in exec : EndExecution(e)
           \/ GiveUpPoll \/ DropReport \/ SchedulerRestart
<1>1. CASE UNCHANGED vars
  BY <1>1 DEF vars, apiVars, workerVars, Quiet
<1>2. CASE SchedulerNext /\ ~ SchedulerRestart
  BY <1>2 DEF SchedulerNext, Create, AssignerStep, LeaseReaperStep, WorkerReaperStep, CleanerStep,
    RemoveJob, RemoveTasks, StartRerun, RerunRead, EndRerun, RerunSave, apiVars, workerVars, Quiet
<1>3. CASE TimeNext
  BY <1>3 DEF TimeNext, LeaseTimeout, BackoffEnds, HeartbeatLost, apiVars, workerVars, Quiet
<1>4. CASE WorkerNext
  <2>1. ASSUME NEW w \in Workers, HeartbeatStep(w) \/ BootWorker(w) \/ \E t \in Tasks : Renew(w, t)
        PROVE  Quiet
    BY <2>1 DEF HeartbeatStep, BootWorker, Boot, Renew, SendRenewal, apiVars, workerVars, Quiet
  <2>2. ASSUME NEW w \in Workers, PollStep(w)
        PROVE  \/ \E p \in polls : PollMoves(p) /\ UNCHANGED workerVars
               \/ \E p \in polls : Deliver(p)
    BY <2>2 DEF PollStep, PollMoves
  <2>3. ASSUME NEW t \in Tasks, ReportStep(t)
        PROVE  \E r \in reports : ReportMoves(r) /\ UNCHANGED workerVars
    BY <2>3 DEF ReportStep, ReportMoves
  <2>4. ASSUME NEW w \in Workers, ReportReturns(w) PROVE \E e \in exec : EndExecution(e)
    BY <2>4 DEF ReportReturns, GoroutinesOf
  <2> QED
    BY <1>4, <2>1, <2>2, <2>3, <2>4 DEF WorkerNext
<1> QED
  BY <1>1, <1>2, <1>3, <1>4 DEF Next

\* A row that is running after a step other than a grant was so before, with the
\* same holder.
LEMMA RunningRows ==
    ASSUME TypeOK, NEW t \in Tasks, RowStep(t), task'[t].status = "running"
    PROVE  task[t].status = "running" /\ task'[t].holder = task[t].holder
<1>1. task[t] \in Row
  BY DEF TypeOK, StoreTypeOK
<1>2. task'[t] \notin {PendingRow, NoRow}
  BY DEF PendingRow, NoRow
<1>3. ASSUME NEW w, task'[t] = Renewed(task[t], w)
      PROVE  task[t].status = "running" /\ task'[t].holder = task[t].holder
  BY <1>1, <1>3 DEF Renewed, Row
<1>4. ASSUME NEW w, task'[t] = Requeued(task[t], w) PROVE FALSE
  BY <1>1, <1>4 DEF Requeued, Row
<1>5. ASSUME NEW w, task'[t] = Assigned(task[t], w)
      PROVE  task[t].status = "running" /\ task'[t].holder = task[t].holder
  BY <1>1, <1>5 DEF Assigned, Row
<1>6. ASSUME NEW r \in reports, task'[t] = Reported(r.row, r.outcome) PROVE FALSE
  <2> DEFINE row == r.row
  <2>1. row \in Row
    BY DEF TypeOK, ApiTypeOK, Report
  <2> HIDE DEF row
  <2>2. task'[t] = Reported(row, r.outcome)
    BY <1>6 DEF row
  <2> QED
    BY <2>1, <2>2 DEF Reported, Verdict, Retried, Released, Row
<1>7. CASE task'[t] = [task[t] EXCEPT !.lease = "expired"] \/ task'[t] = [task[t] EXCEPT !.next = "due"]
  BY <1>1, <1>7 DEF Row
<1> QED
  BY <1>2, <1>3, <1>4, <1>5, <1>6, <1>7 DEF RowStep

----------------------------------------------------------------------------
(* One execution per lease *)

\* No lease is granted, and those in use stay in their stage or end.
Carried ==
    /\ UNCHANGED runs
    /\ \A x \in LeasedPolls' : \E p \in LeasedPolls : SameRun(p, x) /\ p.worker = x.worker
    /\ \A x, y \in LeasedPolls' : SameRun(x, y) => x = y
    /\ exec' \subseteq exec
    /\ \A x \in reports' : \E r \in reports : SameRun(r, x)
    /\ \A x, y \in reports' : SameRun(x, y) => x = y

LEMMA RunCarried ==
    ASSUME TypeOK, TypeOK', RunInv, \A t \in Tasks : RowStep(t), Carried
    PROVE  RunInv'
<1> USE DEF RunInv, Carried
<1>1. RunsDistinct'
  <2>1. \A p \in LeasedPolls' :
          (\A e \in exec' : ~ SameRun(p, e)) /\ (\A r \in reports' : ~ SameRun(p, r))
    BY DEF RunsDistinct, SameRun
  <2>2. \A e \in exec', r \in reports' : SameRun(e, r) => e.pc = "reporting"
    BY DEF RunsDistinct, SameRun
  <2>3. \A e, f \in exec' : SameRun(e, f) => e = f
    BY DEF RunsDistinct
  <2> QED
    BY <2>1, <2>2, <2>3 DEF RunsDistinct, SameRun
<1>2. RunsCounted'
  BY DEF RunsCounted, SameRun
<1>3. LatestOnHolder'
  <2>1. \A t \in Tasks : task'[t].status = "running"
          => task[t].status = "running" /\ task'[t].holder = task[t].holder
    BY RunningRows
  <2>2. (\A x \in LeasedPolls' : x.task \in Tasks) /\ (\A e \in exec' : e.task \in Tasks)
    BY DEF TypeOK, ApiTypeOK, WorkersTypeOK, Goroutine, LeasedPolls
  <2> QED
    BY <2>1, <2>2 DEF LatestOnHolder, OnHolder, SameRun
<1> QED
  BY <1>1, <1>2, <1>3

\* PollLease is granted a lease that nobody else has.
Grant(p) ==
    /\ p \in polls /\ p.step = "found" /\ Leasable(task[p.task], p.worker)
    /\ task' = [task EXCEPT ![p.task] = Leased(task[p.task], p.worker)]
    /\ runs' = [runs EXCEPT ![p.task] = @ + 1]
    /\ polls' = Replace(polls, p, [p EXCEPT !.step = "leased", !.run = runs[p.task] + 1])
    /\ UNCHANGED <<created, jobs, beat, reports, reruns, workerVars>>

LEMMA RunGranted ==
    ASSUME TypeOK, TypeOK', RunInv, NEW p, Grant(p)
    PROVE  RunInv'
<1> USE DEF RunInv
<1> DEFINE n == runs[p.task] + 1
           q == [p EXCEPT !.step = "leased", !.run = n]
<1>1. p \in Poll /\ p.task \in Tasks /\ p.worker \in Workers
  BY DEF Grant, TypeOK, ApiTypeOK, Poll
<1>2. runs[p.task] \in Nat /\ n \in Nat
  BY <1>1 DEF TypeOK, ApiTypeOK
<1>3. q.task = p.task /\ q.worker = p.worker /\ q.run = n /\ q.step = "leased"
  BY <1>1 DEF Poll
<1>4. /\ LeasedPolls' = LeasedPolls \cup {q} /\ exec' = exec /\ reports' = reports
      /\ runs' = [runs EXCEPT ![p.task] = n]
  <2> HIDE DEF q
  <2>1. polls' = Replace(polls, p, q)
    BY DEF Grant, q
  <2> QED
    BY <1>3, <2>1 DEF Grant, LeasedPolls, Replace, workerVars
<1> HIDE DEF q, n
<1>5. \A t \in Tasks : runs[t] \in Nat /\ runs'[t] = (IF t = p.task THEN n ELSE runs[t])
  BY <1>4 DEF TypeOK, ApiTypeOK
<1>6. (\A x \in LeasedPolls \cup exec \cup reports : x.task \in Tasks /\ x.run \in 1 .. runs[x.task])
  BY DEF RunsCounted, TypeOK, ApiTypeOK, WorkersTypeOK, Goroutine, Report, LeasedPolls
<1>7. n = runs[p.task] + 1
  BY DEF n
<1>8. \A x \in LeasedPolls \cup exec \cup reports : ~ SameRun(x, q) /\ ~ SameRun(q, x)
  BY <1>2, <1>3, <1>6, <1>7 DEF SameRun
<1>9. RunsDistinct'
  BY <1>4, <1>8 DEF RunsDistinct
<1>10. RunsCounted'
  <2>1. q.run \in 1 .. runs'[q.task]
    BY <1>1, <1>2, <1>3, <1>5, <1>7
  <2>2. \A x \in LeasedPolls \cup exec \cup reports : x.run \in 1 .. runs'[x.task]
    BY <1>2, <1>5, <1>6, <1>7
  <2> QED
    BY <1>4, <2>1, <2>2 DEF RunsCounted
<1>11. LatestOnHolder'
  <2>1. task' = [task EXCEPT ![p.task] = Leased(task[p.task], p.worker)] /\ task \in [Tasks -> Row]
    BY DEF Grant, TypeOK, StoreTypeOK
  <2>2. task'[p.task].holder = p.worker
    BY <1>1, <2>1 DEF Leased, Row
  <2>3. \A t \in Tasks \ {p.task} : task'[t] = task[t]
    BY <2>1
  <2>4. \A x \in LeasedPolls \cup exec : x.run = runs'[x.task] => x.task # p.task
    BY <1>2, <1>5, <1>6, <1>7
  <2>5. \A x \in LeasedPolls \cup exec : OnHolder(x)'
    BY <1>5, <1>6, <2>3, <2>4 DEF LatestOnHolder, OnHolder
  <2>6. q.worker = task'[q.task].holder
    BY <1>3, <2>2
  <2> QED
    BY <1>4, <2>5, <2>6 DEF LatestOnHolder, OnHolder
<1> QED
  BY <1>9, <1>10, <1>11

\* The answer turns the poll into an execution of the same lease.
LEMMA RunDelivered ==
    ASSUME TypeOK, TypeOK', RunInv, NEW p, Deliver(p), p.waiting
    PROVE  RunInv'
<1> USE DEF RunInv
<1> DEFINE g == [worker |-> p.worker, task |-> p.task, run |-> p.run, pc |-> "running"]
<1>1. p \in LeasedPolls /\ LeasedPolls' = LeasedPolls \ {p}
  BY DEF Deliver, PollAnswer, LeasedPolls
<1>2. exec' = exec \cup {g} /\ UNCHANGED <<task, runs, reports>>
  BY DEF Deliver, PollAnswer, SpawnExecution, storeVars
<1>3. g.worker = p.worker /\ g.task = p.task /\ g.run = p.run
  OBVIOUS
<1> HIDE DEF g
<1>4. \A x \in LeasedPolls \ {p} : ~ SameRun(x, g)
  BY <1>1, <1>3 DEF RunsDistinct, SameRun
<1>5. \A e \in exec : ~ SameRun(g, e) /\ ~ SameRun(e, g)
  BY <1>1, <1>3 DEF RunsDistinct, SameRun
<1>6. \A r \in reports : ~ SameRun(g, r)
  BY <1>1, <1>3 DEF RunsDistinct, SameRun
<1>7. RunsDistinct'
  BY <1>1, <1>2, <1>4, <1>5, <1>6 DEF RunsDistinct
<1>8. RunsCounted'
  BY <1>1, <1>2, <1>3 DEF RunsCounted
<1>9. LatestOnHolder'
  BY <1>1, <1>2, <1>3 DEF LatestOnHolder, OnHolder
<1> QED
  BY <1>7, <1>8, <1>9

\* The goroutine sends the one report on its lease.
LEMMA RunFinished ==
    ASSUME TypeOK, TypeOK', RunInv, NEW w \in Workers, FinishTask(w)
    PROVE  RunInv'
<1> USE DEF RunInv
<1>1. PICK e \in exec, outcome \in {"success", "failed"} :
        StartReporting(e) /\ reports' = reports \cup {ReportFor(e, outcome)}
  BY DEF FinishTask, GoroutinesOf
<1> DEFINE f == [e EXCEPT !.pc = "reporting"]
           r == ReportFor(e, outcome)
<1>2. e \in Goroutine /\ f.task = e.task /\ f.run = e.run /\ f.worker = e.worker /\ f.pc = "reporting"
  BY DEF TypeOK, WorkersTypeOK, Goroutine
<1>3. r.task = e.task /\ r.run = e.run
  BY DEF ReportFor
<1>4. exec' = (exec \ {e}) \cup {f} /\ reports' = reports \cup {r} /\ e.pc = "running"
  BY <1>1 DEF StartReporting
<1>5. UNCHANGED <<task, polls, runs>>
  BY DEF FinishTask, storeVars
<1> HIDE DEF f, r
<1>6. /\ \A x \in exec \ {e} : ~ SameRun(x, f) /\ ~ SameRun(f, x) /\ ~ SameRun(x, r)
      /\ \A x \in reports : ~ SameRun(x, r) /\ ~ SameRun(r, x)
      /\ \A p \in LeasedPolls : ~ SameRun(p, f) /\ ~ SameRun(p, r)
  BY <1>2, <1>3, <1>4 DEF RunsDistinct, SameRun
<1>7. RunsDistinct'
  BY <1>2, <1>4, <1>5, <1>6 DEF RunsDistinct, LeasedPolls
<1>8. RunsCounted'
  BY <1>2, <1>3, <1>4, <1>5 DEF RunsCounted, LeasedPolls
<1>9. LatestOnHolder'
  BY <1>2, <1>4, <1>5 DEF LatestOnHolder, OnHolder, LeasedPolls
<1> QED
  BY <1>7, <1>8, <1>9

\* Every step leaves the leases as they are or ends some, or it is one of those
\* that take one on its way.
LEMMA RunSteps ==
    ASSUME LeaseInv, RunInv, [Next]_vars
    PROVE  \/ Carried
           \/ \E p \in polls : Grant(p)
           \/ \E p \in polls : Deliver(p) /\ p.waiting
           \/ \E w \in Workers : FinishTask(w)
<1>1. TypeOK
  BY DEF LeaseInv
<1> USE DEF Carried
<1>6. ASSUME UNCHANGED <<reports, runs>>, LeasedPolls' \subseteq LeasedPolls, exec' \subseteq exec
      PROVE  Carried
  BY <1>6 DEF RunInv, RunsDistinct, SameRun
<1>7. ASSUME UNCHANGED <<polls, exec, runs>>, reports' \subseteq reports PROVE Carried
  BY <1>7 DEF RunInv, RunsDistinct, SameRun, LeasedPolls
<1>8. Quiet => Carried
  BY <1>6 DEF Quiet, LeasedPolls
<1>9. ASSUME NEW w \in Workers, StartPoll(w) PROVE Carried
  <2>1. LeasedPolls' = LeasedPolls
    BY <1>9 DEF StartPoll, AcceptPoll, LeasedPolls
  <2> QED
    BY <1>6, <1>9, <2>1 DEF StartPoll, AcceptPoll, workerVars
<1>10. ASSUME NEW w \in Workers, StopWorker(w) PROVE Carried
  <2> DEFINE Left(p) == IF p.worker = w THEN [p EXCEPT !.waiting = FALSE] ELSE p
  <2>1. \A p \in polls : /\ Left(p).task = p.task /\ Left(p).run = p.run
                         /\ Left(p).worker = p.worker /\ Left(p).step = p.step
    BY <1>1 DEF TypeOK, ApiTypeOK, Poll
  <2>2. polls' = {Left(p) : p \in polls} /\ exec' \subseteq exec /\ UNCHANGED <<reports, runs>>
    BY <1>10 DEF StopWorker, Stop
  <2> HIDE DEF Left
  <2>3. \A x \in LeasedPolls' : \E p \in LeasedPolls : x = Left(p) /\ SameRun(p, x) /\ p.worker = x.worker
    BY <2>1, <2>2 DEF LeasedPolls, SameRun
  <2>4. \A x, y \in LeasedPolls' : SameRun(x, y) => x = y
    BY <2>3 DEF RunInv, RunsDistinct, SameRun
  <2> QED
    BY <2>2, <2>3, <2>4 DEF RunInv, RunsDistinct, SameRun
<1>11. ASSUME NEW p \in polls, PollMoves(p), UNCHANGED workerVars
       PROVE  Carried \/ Grant(p)
  <2>1. CASE PollFind(p)
    <3>1. PICK t \in Tasks : polls' = Replace(polls, p, [p EXCEPT !.step = "found", !.task = t])
      BY <2>1 DEF PollFind
    <3>2. LeasedPolls' = LeasedPolls
      BY <1>1, <2>1, <3>1 DEF PollFind, LeasedPolls, Replace, TypeOK, ApiTypeOK, Poll
    <3> QED
      BY <1>6, <1>11, <2>1, <3>2 DEF PollFind, workerVars
  <2>2. CASE PollEmpty(p) \/ PollFails(p)
    BY <1>6, <1>11, <2>2 DEF PollEmpty, PollFails, workerVars, LeasedPolls
  <2>3. CASE PollLease(p) /\ Leasable(task[p.task], p.worker)
    BY <1>11, <2>3 DEF PollLease, Grant, UpdateTask
  <2>4. CASE PollLease(p) /\ ~ Leasable(task[p.task], p.worker)
    <3>1. polls' = Replace(polls, p, [p EXCEPT !.step = "find", !.task = 0]) /\ UNCHANGED runs
      BY <2>4 DEF PollLease
    <3>2. LeasedPolls' = LeasedPolls
      BY <1>1, <2>4, <3>1 DEF PollLease, LeasedPolls, Replace, TypeOK, ApiTypeOK, Poll
    <3> QED
      BY <1>6, <1>11, <2>4, <3>1, <3>2 DEF PollLease, workerVars
  <2> QED
    BY <1>11, <2>1, <2>2, <2>3, <2>4 DEF PollMoves
<1>12. ASSUME NEW p \in polls, Deliver(p), ~ p.waiting PROVE Carried
  BY <1>6, <1>12 DEF Deliver, PollAnswer, workerVars, LeasedPolls
<1>13. ASSUME NEW r \in reports, ReportMoves(r), UNCHANGED workerVars PROVE Carried
  <2>1. CASE ReportSave(r) \/ ReportFails(r)
    BY <1>7, <1>13, <2>1 DEF ReportSave, ReportFails, workerVars
  <2>2. CASE ReportRead(r) /\ task[r.task].status = "absent"
    BY <1>7, <1>13, <2>2 DEF ReportRead, workerVars
  <2>3. CASE ReportRead(r) /\ task[r.task].status # "absent"
    <3> DEFINE s == [r EXCEPT !.step = "read", !.row = task[r.task]]
    <3>1. reports' = Replace(reports, r, s) /\ UNCHANGED <<polls, exec, runs>>
      BY <1>13, <2>3 DEF ReportRead, workerVars
    <3>2. s.task = r.task /\ s.run = r.run
      BY <1>1 DEF TypeOK, ApiTypeOK, Report
    <3> HIDE DEF s
    <3>3. \A x \in reports' : \E y \in reports : SameRun(y, x)
      BY <3>1, <3>2 DEF Replace, SameRun
    <3>4. \A x, y \in reports' : SameRun(x, y) => x = y
      BY <3>1, <3>2 DEF Replace, SameRun, RunInv, RunsDistinct
    <3>5. LeasedPolls' = LeasedPolls
      BY <3>1 DEF LeasedPolls
    <3> QED
      BY <3>1, <3>3, <3>4, <3>5 DEF RunInv, RunsDistinct, SameRun
  <2> QED
    BY <1>13, <2>1, <2>2, <2>3 DEF ReportMoves
<1>14. ASSUME NEW e \in exec, EndExecution(e) PROVE Carried
  BY <1>6, <1>14 DEF EndExecution, FinishExecution, apiVars, LeasedPolls
<1>15. ASSUME GiveUpPoll PROVE Carried
  <2>1. PICK p \in polls : AbandonPoll(p) /\ UNCHANGED workerVars
    BY <1>15 DEF GiveUpPoll
  <2> DEFINE q == [p EXCEPT !.waiting = FALSE]
  <2>2. q.task = p.task /\ q.run = p.run /\ q.worker = p.worker /\ q.step = p.step
    BY <1>1 DEF TypeOK, ApiTypeOK, Poll
  <2>3. polls' = Replace(polls, p, q) /\ UNCHANGED <<reports, runs, exec>>
    BY <2>1 DEF AbandonPoll, workerVars
  <2> HIDE DEF q
  <2>4. \A x \in LeasedPolls' : \E y \in LeasedPolls : SameRun(y, x) /\ y.worker = x.worker
    BY <2>2, <2>3 DEF LeasedPolls, Replace, SameRun
  <2>5. \A x, y \in LeasedPolls' : SameRun(x, y) => x = y
    BY <2>2, <2>3 DEF LeasedPolls, Replace, SameRun, RunInv, RunsDistinct
  <2> QED
    BY <2>3, <2>4, <2>5 DEF RunInv, RunsDistinct, SameRun
<1>16. ASSUME DropReport PROVE Carried
  BY <1>7, <1>16 DEF DropReport, LoseReport, workerVars
<1>17. ASSUME SchedulerRestart PROVE Carried
  BY <1>17 DEF SchedulerRestart, workerVars, LeasedPolls
<1> HIDE DEF Carried
<1> QED
  BY <1>8, <1>9, <1>10, <1>11, <1>12, <1>13, <1>14, <1>15, <1>16, <1>17, Steps

LEMMA RunInvStep == LeaseInv /\ RunInv /\ [Next]_vars => RunInv'
<1> SUFFICES ASSUME LeaseInv, RunInv, [Next]_vars PROVE RunInv'
  OBVIOUS
<1>1. TypeOK /\ TypeOK'
  BY LeaseInvStep DEF LeaseInv
<1>2. ASSUME NEW p, Grant(p) PROVE RunInv'
  BY <1>1, <1>2, RunGranted
<1>3. ASSUME NEW p, Deliver(p), p.waiting PROVE RunInv'
  BY <1>1, <1>3, RunDelivered
<1>4. ASSUME NEW w \in Workers, FinishTask(w) PROVE RunInv'
  BY <1>1, <1>4, RunFinished
<1>5. CASE Carried /\ \A t \in Tasks : RowStep(t)
  BY <1>1, <1>5, RunCarried
<1>6. CASE Carried /\ LeaseGranted
  <2>1. PICK t \in Tasks, w \in Workers :
          runs' = [runs EXCEPT ![t] = @ + 1]
    BY <1>6 DEF LeaseGranted
  <2>2. runs'[t] = runs[t] + 1 /\ runs[t] \in Nat
    BY <1>1, <2>1 DEF TypeOK, ApiTypeOK
  <2> QED
    BY <1>6, <2>2 DEF Carried
<1> QED
  BY <1>1, <1>2, <1>3, <1>4, <1>5, <1>6, RunSteps, Rows

----------------------------------------------------------------------------
(* Slots of the semaphore *)

\* What a worker that executes no more than before, and waits for nothing new,
\* uses of its slots.
LEMMA SlotsKept ==
    ASSUME SlotInv, NEW w \in Workers, exec' \subseteq exec, Polling(w)' => Polling(w)
    PROVE  Cardinality(GoroutinesOf(w)') + (IF Polling(w)' THEN 1 ELSE 0) <= Concurrency
<1>1. IsFiniteSet(GoroutinesOf(w)) /\ GoroutinesOf(w)' \subseteq GoroutinesOf(w)
  BY FS_Subset DEF SlotInv, GoroutinesOf
<1>2. /\ Cardinality(GoroutinesOf(w)') <= Cardinality(GoroutinesOf(w))
      /\ IsFiniteSet(GoroutinesOf(w)')
  BY <1>1, FS_Subset
<1>3. Cardinality(GoroutinesOf(w)) \in Nat /\ Cardinality(GoroutinesOf(w)') \in Nat
  BY <1>1, <1>2, FS_CardinalityType
<1>4. Cardinality(GoroutinesOf(w)) + (IF Polling(w) THEN 1 ELSE 0) <= Concurrency
  BY DEF SlotInv, ConcurrencyLimit
<1>5. CASE Polling(w)'
  <2>1. Polling(w) /\ Cardinality(GoroutinesOf(w)) + 1 <= Concurrency
    BY <1>4, <1>5
  <2> QED
    BY <1>2, <1>3, <1>5, <2>1
<1>6. CASE ~ Polling(w)'
  <2>1. Cardinality(GoroutinesOf(w)) <= Concurrency
    BY <1>3, <1>4
  <2> QED
    BY <1>2, <1>3, <1>6, <2>1
<1> QED
  BY <1>5, <1>6

\* Requests that a worker waits for come one at a time.
OneWait(S) == \A p, q \in S : p.waiting /\ q.waiting /\ p.worker = q.worker => p = q

LEMMA SlotsReplaced ==
    ASSUME TypeOK, SlotInv, NEW p \in polls, NEW q, q.worker = p.worker, q.waiting => p.waiting,
           polls' = Replace(polls, p, q), exec' = exec
    PROVE  SlotInv'
<1>1. OneWait(polls)'
  BY DEF SlotInv, OneWait, Replace
<1>2. \A w \in Workers : Polling(w)' => Polling(w)
  BY DEF Polling, Replace
<1> QED
  BY <1>1, <1>2, SlotsKept DEF SlotInv, OneWait, ConcurrencyLimit

\* Start polls when it has a slot, ...
LEMMA SlotsPolled ==
    ASSUME TypeOK, SlotInv, NEW w \in Workers, StartPoll(w)
    PROVE  SlotInv'
<1> DEFINE p == [worker |-> w, step |-> "find", task |-> 0, run |-> 0, waiting |-> TRUE]
<1>1. p.worker = w
  OBVIOUS
<1>2. polls' = polls \cup {p} /\ exec' = exec /\ ~ Polling(w) /\ HasSlot(w)
  BY DEF StartPoll, AcceptPoll, workerVars
<1> HIDE DEF p
<1>3. OneWait(polls)'
  BY <1>1, <1>2 DEF SlotInv, OneWait, Polling
<1>4. ASSUME NEW v \in Workers, v # w PROVE Polling(v)' => Polling(v)
  BY <1>1, <1>2, <1>4 DEF Polling
<1>5. GoroutinesOf(w)' = GoroutinesOf(w) /\ Cardinality(GoroutinesOf(w)) \in Nat
  BY <1>2, FS_Subset, FS_CardinalityType DEF GoroutinesOf, SlotInv
<1>6. Cardinality(GoroutinesOf(w)') + (IF Polling(w)' THEN 1 ELSE 0) <= Concurrency
  BY <1>2, <1>5 DEF HasSlot, WorkerAssumption
<1> QED
  BY <1>2, <1>3, <1>4, <1>6, SlotsKept DEF SlotInv, OneWait, ConcurrencyLimit

\* ... and the execution takes the slot over from the poll that it answers.
LEMMA SlotsDelivered ==
    ASSUME TypeOK, SlotInv, NEW p \in polls, Deliver(p), p.waiting
    PROVE  SlotInv'
<1> DEFINE g == [worker |-> p.worker, task |-> p.task, run |-> p.run, pc |-> "running"]
<1>1. g.worker = p.worker
  OBVIOUS
<1>2. polls' = polls \ {p} /\ exec' = exec \cup {g}
  BY DEF Deliver, PollAnswer, SpawnExecution
<1> HIDE DEF g
<1>3. OneWait(polls)' /\ IsFiniteSet(exec')
  BY <1>2, FS_AddElement DEF SlotInv, OneWait
<1>4. \A v \in Workers : Polling(v)' => Polling(v) /\ v # p.worker
  BY <1>2 DEF Polling, SlotInv
<1>5. ASSUME NEW v \in Workers
      PROVE  Cardinality(GoroutinesOf(v)') + (IF Polling(v)' THEN 1 ELSE 0) <= Concurrency
  <2>1. IsFiniteSet(GoroutinesOf(v)) /\ Cardinality(GoroutinesOf(v)) \in Nat
    BY FS_Subset, FS_CardinalityType DEF GoroutinesOf, SlotInv
  <2>2. Cardinality(GoroutinesOf(v)) + (IF Polling(v) THEN 1 ELSE 0) <= Concurrency
    BY DEF SlotInv, ConcurrencyLimit
  <2>3. CASE v = p.worker
    <3>1. GoroutinesOf(v)' = GoroutinesOf(v) \cup {g}
      BY <1>1, <1>2, <2>3 DEF GoroutinesOf
    <3>2. Polling(v) /\ ~ Polling(v)'
      BY <1>4, <2>3 DEF Polling
    <3>3. Cardinality(GoroutinesOf(v)') \in {Cardinality(GoroutinesOf(v)), Cardinality(GoroutinesOf(v)) + 1}
      BY <2>1, <3>1, FS_AddElement
    <3>4. Cardinality(GoroutinesOf(v)) + 1 <= Concurrency
      BY <2>2, <3>2
    <3> QED
      BY <2>1, <3>2, <3>3, <3>4
  <2>4. CASE v # p.worker
    <3>1. GoroutinesOf(v)' = GoroutinesOf(v)
      BY <1>1, <1>2, <2>4 DEF GoroutinesOf
    <3> QED
      BY <1>4, <2>1, <2>2, <3>1
  <2> QED
    BY <2>3, <2>4
<1> QED
  BY <1>3, <1>5 DEF SlotInv, OneWait, ConcurrencyLimit

LEMMA SlotsFinished ==
    ASSUME TypeOK, SlotInv, NEW w \in Workers, FinishTask(w)
    PROVE  SlotInv'
<1>1. PICK e \in exec : StartReporting(e)
  BY DEF FinishTask, GoroutinesOf
<1> DEFINE f == [e EXCEPT !.pc = "reporting"]
<1>2. f.worker = e.worker
  BY DEF TypeOK, WorkersTypeOK, Goroutine
<1>3. exec' = (exec \ {e}) \cup {f} /\ polls' = polls
  BY <1>1 DEF StartReporting, FinishTask
<1> HIDE DEF f
<1>4. OneWait(polls)' /\ IsFiniteSet(exec')
  BY <1>3, FS_AddElement, FS_RemoveElement DEF SlotInv, OneWait
<1>5. ASSUME NEW v \in Workers
      PROVE  Cardinality(GoroutinesOf(v)') + (IF Polling(v)' THEN 1 ELSE 0) <= Concurrency
  <2>1. IsFiniteSet(GoroutinesOf(v)) /\ Cardinality(GoroutinesOf(v)) \in Nat
    BY FS_Subset, FS_CardinalityType DEF GoroutinesOf, SlotInv
  <2>2. Cardinality(GoroutinesOf(v)) + (IF Polling(v) THEN 1 ELSE 0) <= Concurrency
    BY DEF SlotInv, ConcurrencyLimit
  <2>3. Polling(v)' <=> Polling(v)
    BY <1>3 DEF Polling
  <2>4. /\ Cardinality(GoroutinesOf(v)') \in Nat
        /\ Cardinality(GoroutinesOf(v)') <= Cardinality(GoroutinesOf(v))
    <3>1. CASE v = e.worker
      <4> DEFINE rest == GoroutinesOf(v) \ {e}
      <4>1. GoroutinesOf(v)' = rest \cup {f} /\ e \in GoroutinesOf(v)
        BY <1>2, <1>3, <3>1 DEF GoroutinesOf
      <4>2. IsFiniteSet(rest) /\ Cardinality(rest) = Cardinality(GoroutinesOf(v)) - 1
        BY <2>1, <4>1, FS_RemoveElement
      <4>3. Cardinality(rest) \in Nat
        BY <4>2, FS_CardinalityType
      <4> HIDE DEF rest
      <4>4. Cardinality(rest \cup {f}) \in {Cardinality(rest), Cardinality(rest) + 1}
        BY <4>2, FS_AddElement
      <4> QED
        BY <2>1, <4>1, <4>2, <4>3, <4>4
    <3>2. CASE v # e.worker
      <4>1. GoroutinesOf(v)' = GoroutinesOf(v)
        BY <1>2, <1>3, <3>2 DEF GoroutinesOf
      <4> QED
        BY <2>1, <4>1
    <3> QED
      BY <3>1, <3>2
  <2> QED
    BY <2>1, <2>2, <2>3, <2>4
<1> QED
  BY <1>4, <1>5 DEF SlotInv, OneWait, ConcurrencyLimit

LEMMA SlotInvStep == TypeOK /\ SlotInv /\ [Next]_vars => SlotInv'
<1> SUFFICES ASSUME TypeOK, SlotInv, [Next]_vars PROVE SlotInv'
  OBVIOUS
<1>1. \A p \in polls : p \in Poll
  BY DEF TypeOK, ApiTypeOK
<1>2. ASSUME polls' \subseteq polls, exec' \subseteq exec PROVE SlotInv'
  <2>1. \A w \in Workers : Polling(w)' => Polling(w)
    BY <1>2 DEF Polling
  <2>2. IsFiniteSet(exec')
    BY <1>2, FS_Subset DEF SlotInv
  <2> QED
    BY <1>2, <2>1, <2>2, SlotsKept DEF SlotInv, ConcurrencyLimit
<1>3. Quiet => SlotInv'
  BY <1>2 DEF Quiet
<1>4. ASSUME NEW w \in Workers, StartPoll(w) \/ FinishTask(w) PROVE SlotInv'
  BY <1>4, SlotsPolled, SlotsFinished
<1>5. ASSUME NEW w \in Workers, StopWorker(w) PROVE SlotInv'
  <2> DEFINE Left(p) == IF p.worker = w THEN [p EXCEPT !.waiting = FALSE] ELSE p
  <2>1. \A p \in polls : /\ Left(p).worker = p.worker
                         /\ Left(p).waiting => p.waiting /\ Left(p) = p
    BY <1>1 DEF Poll
  <2>2. polls' = {Left(p) : p \in polls} /\ exec' \subseteq exec
    BY <1>5 DEF StopWorker, Stop
  <2> HIDE DEF Left
  <2>3. OneWait(polls)' /\ \A v \in Workers : Polling(v)' => Polling(v)
    BY <2>1, <2>2 DEF SlotInv, OneWait, Polling
  <2>4. IsFiniteSet(exec')
    BY <2>2, FS_Subset DEF SlotInv
  <2> QED
    BY <2>2, <2>3, <2>4, SlotsKept DEF SlotInv, OneWait, ConcurrencyLimit
<1>6. ASSUME NEW p \in polls, PollMoves(p), UNCHANGED workerVars PROVE SlotInv'
  <2>1. exec' = exec
    BY <1>6 DEF workerVars
  <2>2. CASE PollEmpty(p) \/ PollFails(p)
    BY <1>2, <2>1, <2>2 DEF PollEmpty, PollFails
  <2>3. CASE PollFind(p) \/ PollLease(p)
    <3>1. PICK t, s, n :
            \/ polls' = Replace(polls, p, [p EXCEPT !.step = s, !.task = t])
            \/ polls' = Replace(polls, p, [p EXCEPT !.step = s, !.run = n])
      BY <2>3 DEF PollFind, PollLease
    <3>2. CASE polls' = Replace(polls, p, [p EXCEPT !.step = s, !.task = t])
      <4> DEFINE q == [p EXCEPT !.step = s, !.task = t]
      <4>1. q.worker = p.worker /\ q.waiting = p.waiting
        BY <1>1 DEF Poll
      <4> HIDE DEF q
      <4>2. polls' = Replace(polls, p, q)
        BY <3>2 DEF q
      <4> QED
        BY <2>1, <4>1, <4>2, SlotsReplaced
    <3>3. CASE polls' = Replace(polls, p, [p EXCEPT !.step = s, !.run = n])
      <4> DEFINE q == [p EXCEPT !.step = s, !.run = n]
      <4>1. q.worker = p.worker /\ q.waiting = p.waiting
        BY <1>1 DEF Poll
      <4> HIDE DEF q
      <4>2. polls' = Replace(polls, p, q)
        BY <3>3 DEF q
      <4> QED
        BY <2>1, <4>1, <4>2, SlotsReplaced
    <3> QED
      BY <3>1, <3>2, <3>3
  <2> QED
    BY <1>6, <2>2, <2>3 DEF PollMoves
<1>7. ASSUME NEW p \in polls, Deliver(p) PROVE SlotInv'
  <2>1. CASE p.waiting
    BY <1>7, <2>1, SlotsDelivered
  <2>2. CASE ~ p.waiting
    BY <1>2, <1>7, <2>2 DEF Deliver, PollAnswer, workerVars
  <2> QED
    BY <2>1, <2>2
<1>8. ASSUME NEW r \in reports, ReportMoves(r), UNCHANGED workerVars PROVE SlotInv'
  BY <1>2, <1>8 DEF ReportMoves, ReportRead, ReportSave, ReportFails, workerVars
<1>9. ASSUME NEW e \in exec, EndExecution(e) PROVE SlotInv'
  BY <1>2, <1>9 DEF EndExecution, FinishExecution, apiVars
<1>10. ASSUME GiveUpPoll PROVE SlotInv'
  <2>1. PICK p \in polls : AbandonPoll(p) /\ exec' = exec
    BY <1>10 DEF GiveUpPoll, workerVars
  <2> DEFINE q == [p EXCEPT !.waiting = FALSE]
  <2>2. q.worker = p.worker /\ ~ q.waiting
    BY <1>1 DEF Poll
  <2> HIDE DEF q
  <2>3. polls' = Replace(polls, p, q)
    BY <2>1 DEF AbandonPoll, q
  <2> QED
    BY <2>1, <2>2, <2>3, SlotsReplaced
<1>11. DropReport \/ SchedulerRestart => SlotInv'
  BY <1>2 DEF DropReport, LoseReport, SchedulerRestart, workerVars
<1> QED
  BY <1>3, <1>4, <1>5, <1>6, <1>7, <1>8, <1>9, <1>10, <1>11, Steps

----------------------------------------------------------------------------
(* runningTasks *)

LEMMA RegisteredInvStep == TypeOK /\ RegisteredInv /\ [Next]_vars => RegisteredInv'
<1> SUFFICES ASSUME TypeOK, RegisteredInv, [Next]_vars PROVE RegisteredInv'
  OBVIOUS
<1> USE DEF RegisteredInv
<1>1. registered \in [Workers -> SUBSET Tasks]
  BY DEF TypeOK, WorkersTypeOK
<1>2. ASSUME UNCHANGED <<exec, registered>> PROVE RegisteredInv'
  BY <1>2 DEF GoroutinesOf
<1>3. ASSUME NEW w \in Workers, FinishTask(w) PROVE RegisteredInv'
  <2>1. PICK e \in exec : StartReporting(e)
    BY <1>3 DEF FinishTask, GoroutinesOf
  <2> DEFINE f == [e EXCEPT !.pc = "reporting"]
  <2>2. f.worker = e.worker /\ f.task = e.task
    BY DEF TypeOK, WorkersTypeOK, Goroutine
  <2>3. exec' = (exec \ {e}) \cup {f} /\ registered' = registered
    BY <2>1 DEF StartReporting
  <2> HIDE DEF f
  <2> QED
    BY <2>2, <2>3 DEF GoroutinesOf
<1>4. ASSUME NEW w \in Workers, StopWorker(w) PROVE RegisteredInv'
  BY <1>1, <1>4 DEF StopWorker, Stop, GoroutinesOf
<1>5. ASSUME NEW p \in polls, Deliver(p), p.waiting PROVE RegisteredInv'
  <2> DEFINE g == [worker |-> p.worker, task |-> p.task, run |-> p.run, pc |-> "running"]
  <2>1. g.worker = p.worker /\ g.task = p.task
    OBVIOUS
  <2>2. exec' = exec \cup {g} /\ registered' = [registered EXCEPT ![p.worker] = @ \cup {p.task}]
    BY <1>5 DEF Deliver, SpawnExecution
  <2> HIDE DEF g
  <2> QED
    BY <1>1, <2>1, <2>2 DEF GoroutinesOf
<1>6. ASSUME NEW e \in exec, EndExecution(e) PROVE RegisteredInv'
  BY <1>1, <1>6 DEF EndExecution, FinishExecution, Unregister, GoroutinesOf
<1>7. ASSUME NEW w \in Workers, StartPoll(w) PROVE RegisteredInv'
  BY <1>2, <1>7 DEF StartPoll, workerVars
<1> QED
  BY <1>2, <1>3, <1>4, <1>5, <1>6, <1>7, Steps
  DEF Quiet, workerVars, Deliver, GiveUpPoll, DropReport, SchedulerRestart

----------------------------------------------------------------------------
(* Retries: the leases that are over are never fewer than the retries that *)
(* a row, or the copy of a row that a report holds, has charged.           *)

LEMMA OverCount ==
    ASSUME TypeOK, NEW t \in Tasks
    PROVE  /\ IsFiniteSet(Over(t)) /\ Cardinality(Over(t)) \in Nat
           /\ Cardinality(Over(t)) <= runs[t]
<1>1. runs[t] \in Nat /\ Over(t) \in SUBSET (1 .. runs[t])
  BY DEF TypeOK, ApiTypeOK, Over
<1>2. IsFiniteSet(1 .. runs[t]) /\ Cardinality(1 .. runs[t]) = runs[t]
  BY <1>1, FS_Interval
<1> QED
  BY <1>1, <1>2, FS_Subset, FS_CardinalityType

\* A lease that is over stays so.
LEMMA OverGrows ==
    ASSUME LeaseInv, LeaseInv', RunInv, [Next]_vars, NEW t \in Tasks
    PROVE  /\ Over(t) \subseteq Over(t)'
           /\ Cardinality(Over(t)) <= Cardinality(Over(t)')
<1>1. TypeOK /\ TypeOK'
  BY DEF LeaseInv
<1>2. runs[t] \in Nat /\ runs'[t] \in Nat
  BY <1>1 DEF TypeOK, ApiTypeOK
<1>3. ASSUME Carried PROVE Over(t) \subseteq Over(t)'
  <2>1. ASSUME NEW n, Outstanding(t, n)' PROVE Outstanding(t, n)
    BY <1>3, <2>1 DEF Carried, Outstanding, SameRun
  <2>2. runs'[t] = runs[t]
    BY <1>3 DEF Carried
  <2> QED
    BY <2>1, <2>2 DEF Over
<1>4. ASSUME NEW p \in polls, Grant(p) PROVE Over(t) \subseteq Over(t)'
  <2> DEFINE n == runs[p.task] + 1
             q == [p EXCEPT !.step = "leased", !.run = n]
  <2>1. p.task \in Tasks /\ q.task = p.task /\ q.run = n
    BY <1>1, <1>4 DEF Grant, TypeOK, ApiTypeOK, Poll
  <2>2. polls' = Replace(polls, p, q) /\ exec' = exec /\ reports' = reports
        /\ runs' = [runs EXCEPT ![p.task] = n]
    BY <1>4 DEF Grant, workerVars
  <2>3. p.task = t => n = runs[t] + 1 /\ runs'[t] = runs[t] + 1
    BY <1>1, <2>1, <2>2 DEF TypeOK, ApiTypeOK
  <2>4. p.task # t => runs'[t] = runs[t]
    BY <1>1, <2>1, <2>2 DEF TypeOK, ApiTypeOK
  <2> HIDE DEF n, q
  <2>5. ASSUME NEW i \in 1 .. runs[t], ~ Outstanding(t, i) PROVE ~ Outstanding(t, i)'
    BY <1>2, <1>4, <2>1, <2>2, <2>3, <2>5 DEF Outstanding, LeasedPolls, Replace, Grant
  <2> QED
    BY <1>2, <2>3, <2>4, <2>5 DEF Over
<1>5. ASSUME NEW p \in polls, Deliver(p), p.waiting PROVE Over(t) \subseteq Over(t)'
  <2> DEFINE g == [worker |-> p.worker, task |-> p.task, run |-> p.run, pc |-> "running"]
  <2>1. g.task = p.task /\ g.run = p.run
    OBVIOUS
  <2>2. /\ polls' = polls \ {p} /\ exec' = exec \cup {g} /\ UNCHANGED <<runs, reports>>
        /\ p \in LeasedPolls
    BY <1>5 DEF Deliver, PollAnswer, SpawnExecution, LeasedPolls
  <2> HIDE DEF g
  <2>3. ASSUME NEW i, Outstanding(t, i)' PROVE Outstanding(t, i)
    BY <2>1, <2>2, <2>3 DEF Outstanding, LeasedPolls
  <2> QED
    BY <2>2, <2>3 DEF Over
<1>6. ASSUME NEW w \in Workers, FinishTask(w) PROVE Over(t) \subseteq Over(t)'
  <2>1. PICK e \in exec, outcome \in {"success", "failed"} :
          StartReporting(e) /\ reports' = reports \cup {ReportFor(e, outcome)}
    BY <1>6 DEF FinishTask, GoroutinesOf
  <2> DEFINE f == [e EXCEPT !.pc = "reporting"]
             r == ReportFor(e, outcome)
  <2>2. f.pc = "reporting" /\ r.task = e.task /\ r.run = e.run
    BY <1>1 DEF ReportFor, TypeOK, WorkersTypeOK, Goroutine
  <2>3. exec' = (exec \ {e}) \cup {f} /\ reports' = reports \cup {r} /\ e.pc = "running"
    BY <2>1 DEF StartReporting
  <2>4. UNCHANGED <<polls, runs>>
    BY <1>6 DEF FinishTask
  <2> HIDE DEF f, r
  <2>5. ASSUME NEW i, Outstanding(t, i)' PROVE Outstanding(t, i)
    BY <2>2, <2>3, <2>4, <2>5 DEF Outstanding, LeasedPolls
  <2> QED
    BY <2>4, <2>5 DEF Over
<1>7. Over(t) \subseteq Over(t)'
  BY <1>3, <1>4, <1>5, <1>6, RunSteps
<1>8. IsFiniteSet(Over(t)')
  <2>1. Over(t)' \in SUBSET (1 .. runs'[t])
    BY DEF Over
  <2>2. IsFiniteSet(1 .. runs'[t])
    BY <1>2, FS_Interval
  <2> QED
    BY <2>1, <2>2, FS_Subset
<1> QED
  BY <1>7, <1>8, FS_Subset

\* A save ends the lease of its report.
LEMMA SaveEndsLease ==
    ASSUME TypeOK, TypeOK', RunInv, NEW r \in reports, ReportSave(r), UNCHANGED workerVars
    PROVE  Cardinality(Over(r.task)') = Cardinality(Over(r.task)) + 1
<1>1. r.task \in Tasks /\ r.run \in 1 .. runs[r.task]
  BY DEF TypeOK, ApiTypeOK, Report, RunInv, RunsCounted
<1>2. UNCHANGED <<polls, exec, runs>> /\ reports' = reports \ {r}
  BY DEF ReportSave, workerVars
<1>3. Outstanding(r.task, r.run)
  BY DEF Outstanding
<1>4. ~ Outstanding(r.task, r.run)'
  <2>1. \A p \in LeasedPolls : ~ (p.task = r.task /\ p.run = r.run)
    BY DEF RunInv, RunsDistinct, SameRun
  <2>2. \A e \in exec : e.task = r.task /\ e.run = r.run => e.pc = "reporting"
    BY DEF RunInv, RunsDistinct, SameRun
  <2>3. \A s \in reports \ {r} : ~ (s.task = r.task /\ s.run = r.run)
    BY DEF RunInv, RunsDistinct, SameRun
  <2> QED
    BY <1>2, <2>1, <2>2, <2>3 DEF Outstanding, LeasedPolls
<1>5. ASSUME NEW n, n # r.run PROVE Outstanding(r.task, n)' <=> Outstanding(r.task, n)
  BY <1>2, <1>5 DEF Outstanding, LeasedPolls
<1>6. Over(r.task)' = Over(r.task) \cup {r.run} /\ r.run \notin Over(r.task)
  BY <1>1, <1>2, <1>3, <1>4, <1>5 DEF Over
<1> QED
  BY <1>1, <1>6, OverCount, FS_AddElement

\* What a step other than the save of a report does to the retries of a row.
LEMMA RetriesCharged ==
    ASSUME LeaseInv, [Next]_vars, NEW t \in Tasks
    PROVE  \/ /\ task'[t].retry <= task[t].retry
              /\ task'[t].status = "dead_letter" =>
                   task[t].status = "dead_letter" /\ task'[t].retry = task[t].retry
           \/ \E r \in reports :
                /\ ReportSave(r) /\ UNCHANGED workerVars
                /\ r.task = t /\ task'[t] = Reported(r.row, r.outcome)
<1> DEFINE Kept ==
      /\ task'[t].retry <= task[t].retry
      /\ task'[t].status = "dead_letter" =>
           task[t].status = "dead_letter" /\ task'[t].retry = task[t].retry
<1>1. task \in [Tasks -> Row] /\ task[t] \in Row /\ task[t].retry \in Nat
  BY DEF LeaseInv, TypeOK, StoreTypeOK, Row
<1>2. CASE LeaseGranted
  <2>1. PICK u \in Tasks, w \in Workers : task' = [task EXCEPT ![u] = Leased(task[u], w)]
    BY <1>2 DEF LeaseGranted
  <2> QED
    BY <1>1, <2>1 DEF Leased, Row
<1>3. task'[t] \in {task[t], PendingRow, NoRow} => Kept
  BY <1>1 DEF PendingRow, NoRow
<1>4. ASSUME NEW w, task'[t] = Renewed(task[t], w) PROVE Kept
  BY <1>1, <1>4 DEF Renewed, Row
<1>5. ASSUME NEW w, task'[t] = Requeued(task[t], w) PROVE Kept
  BY <1>1, <1>5 DEF Requeued, Row
<1>6. ASSUME NEW w, task'[t] = Assigned(task[t], w) PROVE Kept
  BY <1>1, <1>6 DEF Assigned, Row
<1>7. task'[t] = [task[t] EXCEPT !.lease = "expired"] \/ task'[t] = [task[t] EXCEPT !.next = "due"] => Kept
  BY <1>1 DEF Row
<1>8. CASE RowStep(t)
  BY <1>3, <1>4, <1>5, <1>6, <1>7, <1>8 DEF RowStep
<1> QED
  BY <1>2, <1>8, Rows DEF LeaseInv

\* A report holds the row that it read when it was read.
LEMMA ReportRows ==
    ASSUME TypeOK, [Next]_vars, NEW x \in reports', x.step = "read"
    PROVE  x \in reports \/ (x.task \in Tasks /\ x.row = task[x.task])
<1>1. ASSUME NEW w \in Workers, FinishTask(w) PROVE x \in reports
  BY <1>1 DEF FinishTask, ReportFor
<1>2. ASSUME NEW w \in Workers, StartPoll(w) \/ StopWorker(w) PROVE x \in reports
  BY <1>2 DEF StartPoll, AcceptPoll, StopWorker
<1>3. ASSUME NEW p \in polls, PollMoves(p) \/ Deliver(p) PROVE x \in reports
  BY <1>3 DEF PollMoves, PollFind, PollEmpty, PollLease, PollFails, Deliver, PollAnswer
<1>4. ASSUME NEW r \in reports, ReportMoves(r)
      PROVE  x \in reports \/ (x.task \in Tasks /\ x.row = task[x.task])
  <2>1. r.task \in Tasks /\ r \in Report
    BY DEF TypeOK, ApiTypeOK, Report
  <2>2. CASE ReportRead(r)
    <3> DEFINE s == [r EXCEPT !.step = "read", !.row = task[r.task]]
    <3>1. s.task = r.task /\ s.row = task[r.task]
      BY <2>1 DEF Report
    <3> HIDE DEF s
    <3>2. reports' \subseteq reports \cup {s}
      BY <2>2 DEF ReportRead, Replace, s
    <3> QED
      BY <2>1, <3>1, <3>2
  <2> QED
    BY <1>4, <2>2 DEF ReportMoves, ReportSave, ReportFails
<1>5. (\E e \in exec : EndExecution(e)) \/ GiveUpPoll \/ DropReport \/ SchedulerRestart \/ Quiet
        => x \in reports
  BY DEF EndExecution, apiVars, GiveUpPoll, AbandonPoll, DropReport, LoseReport, SchedulerRestart,
         Quiet
<1> QED
  BY <1>1, <1>2, <1>3, <1>4, <1>5, Steps

LEMMA RetriesEarnedStep ==
    LeaseInv /\ RunInv /\ RetriesEarned /\ [Next]_vars => RetriesEarned'
<1> SUFFICES ASSUME LeaseInv, RunInv, RetriesEarned, [Next]_vars PROVE RetriesEarned'
  OBVIOUS
<1>1. LeaseInv' /\ TypeOK /\ TypeOK'
  BY LeaseInvStep DEF LeaseInv
<1>2. \A t \in Tasks : Cardinality(Over(t)) <= Cardinality(Over(t)')
  BY <1>1, OverGrows
<1>3. \A t \in Tasks : /\ Cardinality(Over(t)) \in Nat /\ Cardinality(Over(t)') \in Nat
                       /\ Cardinality(Over(t)') <= runs'[t]
  <2>1. ASSUME NEW t \in Tasks
        PROVE  Cardinality(Over(t)') \in Nat /\ Cardinality(Over(t)') <= runs'[t]
    <3>1. runs'[t] \in Nat /\ Over(t)' \in SUBSET (1 .. runs'[t])
      BY <1>1 DEF TypeOK, ApiTypeOK, Over
    <3>2. IsFiniteSet(1 .. runs'[t]) /\ Cardinality(1 .. runs'[t]) = runs'[t]
      BY <3>1, FS_Interval
    <3> QED
      BY <3>1, <3>2, FS_Subset, FS_CardinalityType
  <2> QED
    BY <1>1, <2>1, OverCount
<1>4. \A t \in Tasks : task[t] \in Row /\ task'[t] \in Row /\ runs[t] \in Nat /\ runs'[t] \in Nat
  BY <1>1 DEF TypeOK, StoreTypeOK, ApiTypeOK
<1>5. \A t \in Tasks : runs[t] <= runs'[t]
  <2>1. CASE Carried \/ (\E p \in polls : Deliver(p)) \/ (\E w \in Workers : FinishTask(w))
    BY <1>4, <2>1 DEF Carried, Deliver, PollAnswer, FinishTask
  <2>2. ASSUME NEW p \in polls, Grant(p) PROVE \A t \in Tasks : runs[t] <= runs'[t]
    <3>1. p.task \in Tasks /\ runs' = [runs EXCEPT ![p.task] = @ + 1]
      BY <1>1, <2>2 DEF Grant, TypeOK, ApiTypeOK
    <3> QED
      BY <1>1, <1>4, <3>1 DEF TypeOK, ApiTypeOK
  <2> QED
    BY <2>1, <2>2, RunSteps
<1>6. ASSUME NEW t \in Tasks
      PROVE  /\ task'[t].retry <= Cardinality(Over(t)')
             /\ task'[t].status = "dead_letter" => task'[t].retry = MaxRetries /\ runs'[t] > MaxRetries
  <2>1. CASE /\ task'[t].retry <= task[t].retry
             /\ task'[t].status = "dead_letter" =>
                  task[t].status = "dead_letter" /\ task'[t].retry = task[t].retry
    <3>1. task[t].retry <= Cardinality(Over(t))
      BY DEF RetriesEarned
    <3>2. task[t].retry \in Nat /\ task'[t].retry \in Nat
      BY <1>4 DEF Row
    <3>3. task[t].status = "dead_letter" => task[t].retry = MaxRetries /\ runs[t] > MaxRetries
      BY DEF RetriesEarned, DeadLetterEarned
    <3> QED
      BY <1>2, <1>3, <1>4, <1>5, <2>1, <3>1, <3>2, <3>3, StoreAssumption
  <2>2. ASSUME NEW r \in reports, ReportSave(r), UNCHANGED workerVars, r.task = t,
               task'[t] = Reported(r.row, r.outcome)
        PROVE  /\ task'[t].retry <= Cardinality(Over(t)')
               /\ task'[t].status = "dead_letter" =>
                    task'[t].retry = MaxRetries /\ runs'[t] > MaxRetries
    <3> DEFINE row == r.row
    <3>1. row \in Row /\ row.retry \in 0 .. MaxRetries
      BY <1>1 DEF TypeOK, ApiTypeOK, Report, Row
    <3>2. row.retry <= Cardinality(Over(t))
      BY <2>2 DEF RetriesEarned, ReportSave
    <3>3. Cardinality(Over(t)') = Cardinality(Over(t)) + 1
      BY <1>1, <2>2, SaveEndsLease
    <3> HIDE DEF row
    <3>4. task'[t] = Reported(row, r.outcome)
      BY <2>2 DEF row
    <3>5. /\ task'[t].retry \in {row.retry, row.retry + 1}
          /\ task'[t].status = "dead_letter" => row.retry >= MaxRetries /\ task'[t].retry = row.retry
      BY <3>1, <3>4 DEF Reported, Verdict, Retried, Released, Row
    <3> QED
      BY <1>3, <1>4, <3>1, <3>2, <3>3, <3>5, StoreAssumption
  <2> QED
    BY <2>1, <2>2, RetriesCharged
<1>7. ASSUME NEW x \in reports', x.step = "read"
      PROVE  x.row.retry <= Cardinality(Over(x.task)')
  <2>1. x.row.retry \in Nat /\ x.task \in Tasks
    BY <1>1 DEF TypeOK, ApiTypeOK, Report, Row
  <2>2. x.row.retry <= Cardinality(Over(x.task))
    <3>1. CASE x \in reports
      BY <1>7, <3>1 DEF RetriesEarned
    <3>2. CASE x.row = task[x.task]
      BY <2>1, <3>2 DEF RetriesEarned
    <3> QED
      BY <1>1, <1>7, <3>1, <3>2, ReportRows
  <2> QED
    BY <1>2, <1>3, <2>1, <2>2
<1> QED
  BY <1>6, <1>7 DEF RetriesEarned, DeadLetterEarned

----------------------------------------------------------------------------
(* Theorems *)

LEMMA ExecInvInit == Init => ExecInv
<1> SUFFICES ASSUME Init PROVE ExecInv
  OBVIOUS
<1>1. LeaseInv
  BY LeaseInvInit
<1>2. polls = {} /\ exec = {} /\ reports = {} /\ registered = [w \in Workers |-> {}]
      /\ runs = [t \in Tasks |-> 0] /\ task = [t \in Tasks |-> NoRow]
  BY DEF Init, ApiInit, WorkersInit, StoreInit
<1>3. RunInv
  BY <1>2 DEF RunInv, RunsDistinct, RunsCounted, LatestOnHolder, LeasedPolls
<1>4. SlotInv
  <2>1. \A w \in Workers : GoroutinesOf(w) = {} /\ ~ Polling(w)
    BY <1>2 DEF GoroutinesOf, Polling
  <2>2. ConcurrencyLimit
    BY <2>1, FS_EmptySet DEF ConcurrencyLimit
  <2>3. IsFiniteSet(exec)
    BY <1>2, FS_EmptySet
  <2> QED
    BY <1>2, <2>2, <2>3 DEF SlotInv
<1>5. RegisteredInv
  BY <1>2 DEF RegisteredInv
<1>6. RetriesEarned
  <2>1. \A t \in Tasks : task[t].retry = 0 /\ task[t].status = "absent"
    BY <1>2 DEF NoRow, PendingRow
  <2>2. \A t \in Tasks : Cardinality(Over(t)) \in Nat
    BY <1>1, OverCount DEF LeaseInv
  <2> QED
    BY <1>2, <2>1, <2>2 DEF RetriesEarned, DeadLetterEarned
<1> QED
  BY <1>1, <1>3, <1>4, <1>5, <1>6 DEF ExecInv

LEMMA ExecInvStep == ExecInv /\ [Next]_vars => ExecInv'
BY LeaseInvStep, RunInvStep, SlotInvStep, RegisteredInvStep, RetriesEarnedStep
DEF ExecInv, LeaseInv

\* Whatever times out, gets lost, crashes or is ordered by an operator, no two
\* goroutines execute a task under one lease, and one that executes under the
\* latest lease of a running task is on the holder (LatestRunOnHolder).
THEOREM LatestRunSafe == Spec => []LatestRunOnHolder
<1>1. ExecInv => LatestRunOnHolder
  BY DEF ExecInv, RunInv, RunsDistinct, RunsCounted, LatestOnHolder, OnHolder, SameRun,
         LatestRunOnHolder, LeaseInv, TypeOK, WorkersTypeOK, ApiTypeOK, Goroutine
<1> QED
  BY <1>1, ExecInvInit, ExecInvStep, PTL DEF Spec

\* A worker never has more goroutines, with the poll it may get another for,
\* than its semaphore has slots (ConcurrencyLimit).
THEOREM SlotsBounded == Spec => []ConcurrencyLimit
<1>1. ExecInv => ConcurrencyLimit
  BY DEF ExecInv, SlotInv
<1> QED
  BY <1>1, ExecInvInit, ExecInvStep, PTL DEF Spec

\* A task is given up as a dead letter only with all its retries used, each
\* charged for a lease of its own, although a report saves a row that may have
\* been rewritten since it was read (DeadLetterEarned).
THEOREM VerdictsEarned == Spec => []DeadLetterEarned
<1>1. ExecInv => DeadLetterEarned
  BY DEF ExecInv, RetriesEarned
<1> QED
  BY <1>1, ExecInvInit, ExecInvStep, PTL DEF Spec

----------------------------------------------------------------------------
(* Behaviours without a disruption *)

\* Nobody has stopped, left or been taken for dead.
Undisturbed ==
    /\ jobs = Jobs /\ up = Workers /\ reruns = {} /\ reaper.step = "idle"
    /\ \A w \in Workers : beat[w] # "stale"
    /\ \A p \in polls : p.waiting

\* A row that is neither executed nor to be executed yet
Resting(row) ==
    \/ row.status \in {"success", "dead_letter", "absent"}
    \/ row.status = "retrying" /\ row.next = "waiting"

RowCalm(t) ==
    /\ task[t].lease # "expired" /\ task[t].status # "failed"
    /\ task[t].status = "pending" => task[t].next = "none" /\ runs[t] = task[t].retry
    /\ task[t].status = "retrying" => runs[t] = task[t].retry
    /\ task[t].status = "running" => runs[t] = task[t].retry + 1 /\ task[t].next # "waiting"
    /\ t > created => task[t].status = "absent" /\ runs[t] = 0

PollsCalm ==
    \A p \in polls :
      /\ p.step = "found" => Pollable(task[p.task], p.worker)
      /\ p.step = "leased" => task[p.task].status = "running" /\ p.run = runs[p.task]

ExecCalm ==
    \A e \in exec :
      /\ e.run = runs[e.task]
      /\ IF e.pc = "running" \/ ReportInFlight(e) THEN task[e.task].status = "running"
                                                  ELSE Resting(task[e.task])

RunningUsed ==
    \A t \in Tasks : task[t].status = "running" =>
      (\E p \in LeasedPolls : p.task = t) \/ (\E e \in exec : e.task = t)

ReportsCalm ==
    \A r \in reports :
      /\ \E e \in exec : SameRun(e, r) /\ e.pc = "reporting"
      /\ r.step = "read" => r.row = task[r.task]

RegisteredAll == \A w \in Workers : {e.task : e \in GoroutinesOf(w)} \subseteq registered[w]

CalmState ==
    /\ Undisturbed /\ (\A t \in Tasks : RowCalm(t))
    /\ PollsCalm /\ ExecCalm /\ RunningUsed /\ ReportsCalm /\ RegisteredAll

CalmInv == disruptions = 0 => CalmState

----------------------------------------------------------------------------
(* What can happen *)

\* Per task there is one poll that has a lease, or one execution, at most one
\* report, and nothing when the task has no lease.
LEMMA CalmUses ==
    ASSUME ExecInv, CalmState
    PROVE  /\ \A p, q \in LeasedPolls : p.task = q.task => p = q
           /\ \A e, f \in exec : e.task = f.task => e = f
           /\ \A r, s \in reports : r.task = s.task => r = s
           /\ \A p \in LeasedPolls, e \in exec : p.task # e.task
           /\ \A r \in reports : /\ r.run = runs[r.task] /\ task[r.task].status = "running"
                                 /\ \A p \in LeasedPolls : p.task # r.task
           /\ \A p \in polls : p.waiting
<1> USE DEF CalmState, ExecInv, RunInv, RunsDistinct, SameRun
<1>1. \A p \in LeasedPolls : p.run = runs[p.task]
  BY DEF PollsCalm, LeasedPolls
<1>2. \A e \in exec : e.run = runs[e.task]
  BY DEF ExecCalm
<1>3. \A r \in reports : r.run = runs[r.task] /\ task[r.task].status = "running"
  BY DEF ExecCalm, ReportsCalm, ReportInFlight
<1> QED
  BY <1>1, <1>2, <1>3 DEF Undisturbed

\* A lease that runs out would have been renewed in time.
LEMMA CalmAttended ==
    ASSUME ExecInv, CalmState, NEW t \in Tasks, task[t].lease = "live"
    PROVE  Attended(t)
<1>1. task[t].status = "running"
  BY DEF ExecInv, LeaseInv, LeaseConsistent, RowConsistent
<1>2. CASE \E p \in LeasedPolls : p.task = t
  <2>1. PICK p \in LeasedPolls : p.task = t
    BY <1>2
  <2>2. p \in polls /\ p.step = "leased" /\ p.waiting /\ p.run = runs[t] /\ p.worker \in Workers
    BY <2>1 DEF CalmState, Undisturbed, PollsCalm, LeasedPolls, ExecInv, LeaseInv, TypeOK, ApiTypeOK,
                Poll
  <2>3. p.worker = task[t].holder
    BY <1>1, <2>1, <2>2 DEF ExecInv, RunInv, LatestOnHolder, OnHolder
  <2> QED
    BY <2>1, <2>2, <2>3 DEF Attended, Answering
<1>3. CASE \E e \in exec : e.task = t
  <2>1. PICK e \in exec : e.task = t
    BY <1>3
  <2>2. e.worker \in Workers /\ e.run = runs[t]
    BY <2>1 DEF CalmState, ExecCalm, ExecInv, LeaseInv, TypeOK, WorkersTypeOK, Goroutine
  <2>3. e.worker = task[t].holder
    BY <1>1, <2>1, <2>2 DEF ExecInv, RunInv, LatestOnHolder, OnHolder
  <2>4. e.worker \in up /\ t \in registered[e.worker]
    BY <2>1, <2>2 DEF CalmState, Undisturbed, RegisteredAll, GoroutinesOf
  <2> QED
    BY <2>2, <2>3, <2>4 DEF Attended, Renewing
<1> QED
  BY <1>1, <1>2, <1>3 DEF CalmState, RunningUsed

\* The steps that nothing provokes are the only ones left.
CalmStep ==
    \/ Create \/ AssignerStep \/ CleanerStep
    \/ \E t \in Tasks : BackoffEnds(t) /\ ~ Answered(t)
    \/ \E w \in Workers : HeartbeatStep(w) \/ StartPoll(w) \/ FinishTask(w)
    \/ \E w \in Workers, t \in Tasks : Renew(w, t)
    \/ \E p \in polls : /\ PollFind(p) \/ Grant(p)
                        /\ UNCHANGED <<loopVars, workerVars>>
    \/ \E p \in polls : Deliver(p) /\ UNCHANGED loopVars
    \/ \E r \in reports : (ReportRead(r) \/ ReportSave(r)) /\ UNCHANGED <<loopVars, workerVars>>
    \/ \E e \in exec : EndExecution(e) /\ ~ ReportInFlight(e)

LEMMA CalmSteps ==
    ASSUME ExecInv, CalmInv, Next, disruptions' = 0
    PROVE  disruptions = 0 /\ CalmState /\ CalmStep
<1>1. disruptions \in Nat
  BY DEF ExecInv, LeaseInv, TypeOK
<1>2. \A kind : ~ Disrupt(kind)
  BY <1>1 DEF Disrupt
<1>3. disruptions = 0
  <2>1. Calm => disruptions = 0
    BY DEF Calm
  <2>2. \A c : TimeoutIf(c) => ~ c /\ Calm
    BY <1>2 DEF TimeoutIf
  <2>3. SchedulerNext => Calm
    BY <1>2 DEF SchedulerNext, Create, AssignerStep, LeaseReaperStep, WorkerReaperStep,
      CleanerStep, SchedulerRestart, RemoveJob, RemoveTasks, StartRerun, EndRerun
  <2>4. TimeNext => Calm
    BY <1>2 DEF TimeNext, LeaseTimeout, BackoffEnds, HeartbeatLost, TimeoutIf
  <2>5. WorkerNext => Calm
    BY <1>2 DEF WorkerNext, StartPoll, PollStep, FinishTask, ReportReturns, EndExecution,
      TimeoutIf, HeartbeatStep, StopWorker, BootWorker, Renew, ReportStep, GiveUpPoll, DropReport
  <2> QED
    BY <2>1, <2>3, <2>4, <2>5 DEF Next
<1>4. CalmState
  BY <1>3 DEF CalmInv
<1>5. Undisturbed /\ (\A t \in Tasks : RowCalm(t)) /\ PollsCalm
  BY <1>4 DEF CalmState
<1>6. CASE SchedulerNext
  <2>1. ~ SchedulerRestart /\ ~ RemoveJob /\ ~ RemoveTasks /\ \A t \in Tasks : ~ StartRerun(t)
    BY <1>2 DEF SchedulerRestart, RemoveJob, RemoveTasks, StartRerun
  <2>2. ~ LeaseReaperStep
    BY <1>5 DEF LeaseReaperStep, ReclaimExpiredLeases, Reclaimable, RowCalm
  <2>3. ~ WorkerReaperStep
    BY <1>5 DEF WorkerReaperStep, ListDeadWorkers, PickReplacement, ReassignDeadWorkerTasks,
      DeadWorkers, Undisturbed
  <2>4. \A t \in Tasks : ~ EndRerun(t)
    BY <1>5 DEF EndRerun, RerunSave, Undisturbed
  <2> QED
    BY <1>3, <1>4, <1>6, <2>1, <2>2, <2>3, <2>4 DEF SchedulerNext, CalmStep
<1>7. CASE TimeNext
  <2>1. \A t \in Tasks : ~ LeaseTimeout(t)
    BY <1>2, <1>4, CalmAttended DEF LeaseTimeout, LeaseExpires, TimeoutIf
  <2>2. \A w \in Workers : ~ HeartbeatLost(w)
    BY <1>2, <1>5 DEF HeartbeatLost, TimeoutIf, Undisturbed
  <2>3. ASSUME NEW t \in Tasks, BackoffEnds(t) PROVE ~ Answered(t)
    BY <1>2, <2>3 DEF BackoffEnds, TimeoutIf
  <2> QED
    BY <1>3, <1>4, <1>7, <2>1, <2>2, <2>3 DEF TimeNext, CalmStep
<1>8. CASE WorkerNext
  <2>1. \A w \in Workers : ~ StopWorker(w) /\ ~ BootWorker(w)
    BY <1>2, <1>5 DEF StopWorker, BootWorker, Boot, Undisturbed
  <2>2. ~ GiveUpPoll /\ ~ DropReport
    BY <1>2 DEF GiveUpPoll, DropReport
  <2>3. ASSUME NEW w \in Workers, PollStep(w)
        PROVE  \/ \E p \in polls : (PollFind(p) \/ Grant(p)) /\ UNCHANGED <<loopVars, workerVars>>
               \/ \E p \in polls : Deliver(p) /\ UNCHANGED loopVars
    <3>1. UNCHANGED loopVars
      BY <2>3 DEF PollStep
    <3>2. PICK p \in polls :
            \/ (PollFind(p) \/ PollEmpty(p) \/ PollLease(p) \/ PollFails(p)) /\ UNCHANGED workerVars
            \/ Deliver(p)
      BY <2>3 DEF PollStep
    <3>3. p.waiting /\ (p.step = "leased" => JobOf[p.task] \in jobs)
      BY <1>5, StoreAssumption DEF Undisturbed, ExecInv, LeaseInv, TypeOK, ApiTypeOK
    <3>4. ~ PollEmpty(p) /\ ~ PollFails(p)
      BY <3>3 DEF PollEmpty, PollFails
    <3>5. PollLease(p) /\ UNCHANGED workerVars => Grant(p)
      <4>1. p.step = "found" => Leasable(task[p.task], p.worker)
        BY <1>5 DEF PollsCalm, Pollable, Leasable, Runnable
      <4> QED
        BY <4>1 DEF PollLease, Grant, UpdateTask
    <3> QED
      BY <3>1, <3>2, <3>4, <3>5
  <2>4. ASSUME NEW t \in Tasks, ReportStep(t)
        PROVE  \E r \in reports : (ReportRead(r) \/ ReportSave(r)) /\ UNCHANGED <<loopVars, workerVars>>
    <3>1. PICK r \in reports : ReportRead(r) \/ ReportSave(r) \/ ReportFails(r)
      BY <2>4 DEF ReportStep
    <3>2. ~ ReportFails(r)
      BY <1>5, StoreAssumption DEF Undisturbed, ReportFails, ExecInv, LeaseInv, TypeOK, ApiTypeOK, Report
    <3> QED
      BY <2>4, <3>1, <3>2 DEF ReportStep
  <2>5. ASSUME NEW w \in Workers, ReportReturns(w)
        PROVE  \E e \in exec : EndExecution(e) /\ ~ ReportInFlight(e)
    BY <1>2, <2>5 DEF ReportReturns, GoroutinesOf, EndExecution, TimeoutIf
  <2> QED
    BY <1>3, <1>4, <1>8, <2>1, <2>2, <2>3, <2>4, <2>5 DEF WorkerNext, CalmStep
<1> QED
  BY <1>6, <1>7, <1>8 DEF Next

----------------------------------------------------------------------------
(* Steps that rewrite rows and leave requests and executions alone *)

RowsKept ==
    \A t \in Tasks :
      /\ task[t].status = "running" => task'[t] = task[t]
      /\ task'[t].status = "running" => task[t].status = "running"
      /\ \A w \in Workers : Pollable(task[t], w) => Pollable(task'[t], w)
      /\ Resting(task[t]) /\ (\E e \in exec : e.task = t) => Resting(task'[t])
      /\ RowCalm(t)'

LEMMA CalmQuiet ==
    ASSUME ExecInv, CalmState, Quiet, RowsKept, Undisturbed'
    PROVE  CalmState'
<1> USE DEF Quiet, RowsKept
<1>1. /\ \A p \in polls : p.worker \in Workers /\ (p.step # "find" => p.task \in Tasks)
      /\ \A e \in exec : e.task \in Tasks
      /\ \A r \in reports : r.task \in Tasks
  BY DEF ExecInv, LeaseInv, TypeOK, ApiTypeOK, WorkersTypeOK, Poll, Goroutine, Report
<1>2. PollsCalm'
  BY <1>1 DEF CalmState, PollsCalm
<1>3. ExecCalm'
  <2>1. \A e \in exec : ReportInFlight(e)' <=> ReportInFlight(e)
    BY DEF ReportInFlight
  <2> QED
    BY <1>1, <2>1 DEF CalmState, ExecCalm
<1>4. RunningUsed'
  BY DEF CalmState, RunningUsed, LeasedPolls
<1>5. ReportsCalm'
  <2>1. \A r \in reports : task'[r.task] = task[r.task]
    BY <1>1, CalmUses
  <2> QED
    BY <2>1 DEF CalmState, ReportsCalm
<1>6. RegisteredAll'
  BY DEF CalmState, RegisteredAll, GoroutinesOf
<1> QED
  BY <1>2, <1>3, <1>4, <1>5, <1>6 DEF CalmState

LEMMA CalmRows ==
    ASSUME ExecInv, CalmState,
           \/ Create \/ AssignerStep \/ CleanerStep
           \/ \E t \in Tasks : BackoffEnds(t) /\ ~ Answered(t)
           \/ \E w \in Workers : HeartbeatStep(w)
           \/ \E w \in Workers, t \in Tasks : Renew(w, t)
    PROVE  CalmState'
<1>1. /\ task \in [Tasks -> Row] /\ (\A t \in Tasks : task[t] \in Row /\ RowCalm(t))
      /\ created \in 0 .. NumTasks /\ (\A t \in Tasks : runs[t] \in Nat)
      /\ beat \in [Workers -> {"absent", "fresh", "stale"}] /\ Undisturbed
  BY DEF ExecInv, LeaseInv, TypeOK, StoreTypeOK, ApiTypeOK, CalmState
<1>2. UNCHANGED task /\ UNCHANGED created /\ Quiet => RowsKept
  BY <1>1 DEF RowsKept, RowCalm, Quiet
<1>3. CASE Create
  <2>1. Quiet /\ Undisturbed'
    BY <1>1, <1>3 DEF Create, CreateTask, Quiet, Undisturbed, loopVars, apiVars, workerVars
  <2>2. RowsKept
    <3> DEFINE next == created + 1
    <3>0. next \in Tasks /\ created' = next /\ task' = [task EXCEPT ![next] = PendingRow]
      BY <1>1, <1>3 DEF Create, CreateTask, UpdateTask, Tasks
    <3>1. PICK u \in Tasks : /\ u = created + 1 /\ created' = u
                             /\ task' = [task EXCEPT ![u] = PendingRow] /\ task'[u] = PendingRow
      BY <1>1, <3>0
    <3>2. task[u].status = "absent" /\ runs[u] = 0
      BY <1>1, <3>1 DEF RowCalm
    <3>3. \A e \in exec : e.task # u
      BY <3>2 DEF ExecInv, RunInv, RunsCounted
    <3>4. RowCalm(u)'
      BY <1>1, <2>1, <3>1, <3>2 DEF RowCalm, PendingRow, Quiet
    <3>5. \A t \in Tasks \ {u} : task'[t] = task[t] /\ RowCalm(t)'
      BY <1>1, <2>1, <3>1 DEF RowCalm, Quiet, Tasks
    <3>6. task'[u].status = "pending" /\ \A w : ~ Pollable(task[u], w)
      BY <1>1, <3>1, <3>2 DEF PendingRow, Pollable, Runnable
    <3> QED
      BY <3>2, <3>3, <3>4, <3>5, <3>6 DEF RowsKept
  <2> QED
    BY <2>1, <2>2, CalmQuiet
<1>4. CASE AssignerStep
  <2>1. Quiet /\ Undisturbed'
    BY <1>1, <1>4 DEF AssignerStep, AssignFind, AssignPick, AssignTaskToWorker, Quiet, Undisturbed,
      storeVars, apiVars, workerVars
  <2>2. CASE AssignFind \/ AssignPick
    <3>1. UNCHANGED task /\ UNCHANGED created
      BY <2>2 DEF AssignFind, AssignPick, storeVars
    <3> QED
      BY <1>2, <2>1, <3>1, CalmQuiet
  <2>3. CASE AssignTaskToWorker
    <3>1. PICK u \in Tasks, w \in WorkerRef :
            /\ task[u].assigned = NoWorker /\ task[u].status # "running"
            /\ task' = [task EXCEPT ![u] = Assigned(task[u], w)] /\ created' = created
      BY <2>3 DEF ExecInv, LeaseInv, TypeOK, LoopsTypeOK, Assigner, AssignerExclusive,
        AssignTaskToWorker, UpdateTask
    <3>2. /\ task'[u].status = task[u].status /\ task'[u].next = task[u].next
          /\ task'[u].retry = task[u].retry /\ task'[u].lease = task[u].lease
      BY <1>1, <3>1 DEF Assigned, Row
    <3>3. RowCalm(u)'
      BY <1>1, <2>1, <3>1, <3>2 DEF RowCalm, Quiet
    <3>4. \A t \in Tasks \ {u} : task'[t] = task[t] /\ RowCalm(t)'
      BY <1>1, <2>1, <3>1 DEF RowCalm, Quiet
    <3>5. \A v \in Workers : ~ Pollable(task[u], v)
      BY <3>1, IdAssumption DEF Pollable
    <3>6. RowsKept
      BY <3>1, <3>2, <3>3, <3>4, <3>5 DEF RowsKept, Resting
    <3> QED
      BY <2>1, <3>6, CalmQuiet
  <2> QED
    BY <1>4, <2>2, <2>3 DEF AssignerStep
<1>5. CASE CleanerStep
  <2>1. Quiet /\ Undisturbed' /\ created' = created
    BY <1>1, <1>5 DEF CleanerStep, CleanOldDeadLetters, Quiet, Undisturbed, loopVars, apiVars, workerVars
  <2>2. \A t \in Tasks : task'[t] = task[t] \/ (task[t].status = "dead_letter" /\ task'[t] = NoRow)
    BY <1>5 DEF CleanerStep, CleanOldDeadLetters
  <2>3. NoRow.status = "absent" /\ NoRow.lease = "none"
    BY DEF NoRow, PendingRow
  <2>4. \A t \in Tasks : RowCalm(t)'
    BY <1>1, <2>1, <2>2, <2>3 DEF RowCalm, Quiet
  <2>5. RowsKept
    BY <2>2, <2>3, <2>4 DEF RowsKept, Resting, Pollable, Runnable
  <2> QED
    BY <2>1, <2>5, CalmQuiet
<1>6. ASSUME NEW u \in Tasks, BackoffEnds(u), ~ Answered(u) PROVE CalmState'
  <2>1. Quiet /\ Undisturbed' /\ created' = created
    BY <1>1, <1>6 DEF BackoffEnds, RetryDue, Quiet, Undisturbed, loopVars, apiVars, workerVars
  <2> DEFINE row == [task[u] EXCEPT !.next = "due"]
  <2>2. task' = [task EXCEPT ![u] = row] /\ task[u].next = "waiting"
    BY <1>1, <1>6 DEF BackoffEnds, RetryDue
  <2>3. /\ row.status = task[u].status /\ row.next = "due" /\ row.retry = task[u].retry
        /\ row.lease = task[u].lease
    BY <1>1 DEF Row
  <2> HIDE DEF row
  <2>4. task'[u] = row /\ task[u].status \notin {"pending", "running"}
    BY <1>1, <2>2 DEF RowCalm
  <2>5. \A e \in exec : e.task # u
    <3>1. \A e \in exec : e.task = u => ~ (e.pc = "running" \/ ReportInFlight(e))
      BY <2>4 DEF CalmState, ExecCalm
    <3>2. \A e \in exec : e.pc \in {"running", "reporting"}
      BY DEF ExecInv, LeaseInv, TypeOK, WorkersTypeOK, Goroutine
    <3> QED
      BY <1>6, <3>1, <3>2 DEF Answered
  <2>6. \A w \in Workers : ~ Pollable(task[u], w)
    BY <2>2, <2>4 DEF Pollable, Runnable
  <2>7. RowCalm(u)'
    BY <1>1, <2>1, <2>3, <2>4 DEF RowCalm, Quiet
  <2>8. \A t \in Tasks \ {u} : task'[t] = task[t] /\ RowCalm(t)'
    BY <1>1, <2>1, <2>2 DEF RowCalm, Quiet
  <2>9. RowsKept
    BY <2>3, <2>4, <2>5, <2>6, <2>7, <2>8 DEF RowsKept
  <2> QED
    BY <2>1, <2>9, CalmQuiet
<1>7. ASSUME NEW w \in Workers, HeartbeatStep(w) PROVE CalmState'
  <2>1. Quiet /\ Undisturbed' /\ UNCHANGED task /\ UNCHANGED created
    BY <1>1, <1>7 DEF HeartbeatStep, Heartbeat, Quiet, Undisturbed, loopVars, apiVars, workerVars
  <2> QED
    BY <1>2, <2>1, CalmQuiet
<1>8. ASSUME NEW w \in Workers, NEW u \in Tasks, Renew(w, u) PROVE CalmState'
  <2>1. Quiet /\ Undisturbed' /\ UNCHANGED created
    BY <1>1, <1>8 DEF Renew, SendRenewal, Quiet, Undisturbed, loopVars, apiVars, workerVars
  <2>2. Renewed(task[u], w) = task[u]
    <3>1. task[u].holder = w => task[u].lease = "live"
      BY <1>1, IdAssumption DEF RowCalm, ExecInv, LeaseInv, LeaseConsistent, RowConsistent, Row
    <3> QED
      BY <1>1, <3>1 DEF Renewed, Row
  <2>3. UNCHANGED task
    BY <1>1, <1>8, <2>2 DEF Renew, UpdateTask
  <2> QED
    BY <1>2, <2>1, <2>3, CalmQuiet
<1> QED
  BY <1>3, <1>4, <1>5, <1>6, <1>7, <1>8

----------------------------------------------------------------------------
(* Steps of the requests and the executions *)

\* What the types say of whoever is under way.
LEMMA CalmTypes ==
    ASSUME ExecInv
    PROVE  /\ task \in [Tasks -> Row] /\ (\A t \in Tasks : task[t] \in Row)
           /\ created \in 0 .. NumTasks
           /\ runs \in [Tasks -> Nat] /\ (\A t \in Tasks : runs[t] \in Nat)
           /\ registered \in [Workers -> SUBSET Tasks]
           /\ \A p \in polls : /\ p \in Poll /\ p.worker \in Workers
                               /\ p.step # "find" => p.task \in Tasks
           /\ \A e \in exec : e \in Goroutine /\ e.worker \in Workers /\ e.task \in Tasks
           /\ \A r \in reports : r \in Report /\ r.task \in Tasks
BY DEF ExecInv, LeaseInv, TypeOK, StoreTypeOK, ApiTypeOK, WorkersTypeOK, Poll, Goroutine, Report

LEMMA CalmStartPoll ==
    ASSUME ExecInv, CalmState, NEW w \in Workers, StartPoll(w)
    PROVE  CalmState'
<1> DEFINE p == [worker |-> w, step |-> "find", task |-> 0, run |-> 0, waiting |-> TRUE]
<1>1. p.step = "find" /\ p.waiting
  OBVIOUS
<1>2. /\ polls' = polls \cup {p}
      /\ UNCHANGED <<storeVars, loopVars, workerVars, reports, reruns, runs>>
  BY DEF StartPoll, AcceptPoll
<1> HIDE DEF p
<1>3. LeasedPolls' = LeasedPolls
  BY <1>1, <1>2 DEF LeasedPolls
<1> USE DEF CalmState, storeVars, loopVars, workerVars
<1>4. Undisturbed' /\ \A t \in Tasks : RowCalm(t)'
  BY <1>1, <1>2 DEF Undisturbed, RowCalm
<1>5. PollsCalm' /\ RunningUsed'
  BY <1>1, <1>2, <1>3 DEF PollsCalm, RunningUsed
<1>6. ExecCalm' /\ ReportsCalm' /\ RegisteredAll'
  BY <1>2 DEF ExecCalm, ReportInFlight, ReportsCalm, RegisteredAll, GoroutinesOf
<1> QED
  BY <1>4, <1>5, <1>6

LEMMA CalmFind ==
    ASSUME ExecInv, CalmState, NEW p \in polls, PollFind(p), UNCHANGED <<loopVars, workerVars>>
    PROVE  CalmState'
<1>1. PICK t \in Tasks : /\ Pollable(task[t], p.worker)
                         /\ polls' = Replace(polls, p, [p EXCEPT !.step = "found", !.task = t])
  BY DEF PollFind, IsOldest, PollableTasks
<1> DEFINE q == [p EXCEPT !.step = "found", !.task = t]
<1>2. q.step = "found" /\ q.task = t /\ q.worker = p.worker /\ q.waiting = p.waiting
  BY CalmTypes DEF Poll
<1>3. /\ polls' = (polls \ {p}) \cup {q} /\ p.step = "find"
      /\ UNCHANGED <<storeVars, loopVars, workerVars, reports, reruns, runs>>
  BY <1>1 DEF PollFind, Replace
<1> HIDE DEF q
<1>4. LeasedPolls' = LeasedPolls
  BY <1>2, <1>3 DEF LeasedPolls
<1> USE DEF CalmState, storeVars, loopVars, workerVars
<1>5. Undisturbed' /\ \A u \in Tasks : RowCalm(u)'
  BY <1>2, <1>3 DEF Undisturbed, RowCalm
<1>6. PollsCalm' /\ RunningUsed'
  BY <1>1, <1>2, <1>3, <1>4 DEF PollsCalm, RunningUsed
<1>7. ExecCalm' /\ ReportsCalm' /\ RegisteredAll'
  BY <1>3 DEF ExecCalm, ReportInFlight, ReportsCalm, RegisteredAll, GoroutinesOf
<1> QED
  BY <1>5, <1>6, <1>7

\* What is found is still there to lease, and nothing is under way on it.
LEMMA CalmGranted ==
    ASSUME ExecInv, CalmState, NEW p \in polls, Grant(p)
    PROVE  /\ p.task \in Tasks /\ p.waiting
           /\ task[p.task].status \in {"pending", "retrying"} /\ task[p.task].next # "waiting"
           /\ runs[p.task] = task[p.task].retry
           /\ \A e \in exec : e.task # p.task
           /\ \A q \in LeasedPolls : q.task # p.task
<1>1. p.task \in Tasks /\ Pollable(task[p.task], p.worker) /\ RowCalm(p.task) /\ p.waiting
  BY CalmTypes DEF CalmState, PollsCalm, Grant, Undisturbed
<1>2. task[p.task].status \in {"pending", "retrying"} /\ task[p.task].next # "waiting"
      /\ runs[p.task] = task[p.task].retry
  BY <1>1 DEF Pollable, Runnable, RowCalm
<1>3. \A e \in exec : e.task # p.task
  BY <1>2 DEF CalmState, ExecCalm, Resting
<1> QED
  BY <1>1, <1>2, <1>3 DEF CalmState, PollsCalm, LeasedPolls

LEMMA CalmGrant ==
    ASSUME ExecInv, CalmState, NEW p \in polls, Grant(p), UNCHANGED <<loopVars, workerVars>>
    PROVE  CalmState'
<1>1. PICK t \in Tasks, w \in Workers : p.task = t /\ p.worker = w
  BY CalmGranted, CalmTypes
<1>2. PICK n \in Nat : n = runs[t] + 1
  BY <1>1, CalmTypes
<1>3. PICK q : q = [p EXCEPT !.step = "leased", !.run = n]
  OBVIOUS
<1>4. q.step = "leased" /\ q.task = t /\ q.run = n /\ q.worker = w /\ q.waiting
  BY <1>1, <1>3, CalmTypes, CalmGranted DEF Poll
<1>5. /\ polls' = (polls \ {p}) \cup {q} /\ p.step = "found"
      /\ task' = [task EXCEPT ![t] = Leased(task[t], w)] /\ runs' = [runs EXCEPT ![t] = n]
      /\ UNCHANGED <<created, jobs, beat, loopVars, workerVars, reports, reruns>>
  BY <1>1, <1>2, <1>3 DEF Grant, Replace
<1>6. LeasedPolls' = LeasedPolls \cup {q}
  BY <1>4, <1>5 DEF LeasedPolls
<1>7. /\ task'[t].status = "running" /\ task'[t].lease = "live" /\ runs'[t] = n
      /\ task'[t].next = task[t].next /\ task'[t].retry = task[t].retry
      /\ \A u \in Tasks \ {t} : task'[u] = task[u] /\ runs'[u] = runs[u]
  BY <1>5, CalmTypes DEF Leased, Row
<1>8. /\ task[t].status \in {"pending", "retrying"} /\ task[t].next # "waiting"
      /\ runs[t] = task[t].retry /\ n = task[t].retry + 1
      /\ (\A e \in exec : e.task # t) /\ (\A x \in LeasedPolls : x.task # t)
  BY <1>1, <1>2, CalmGranted
<1> USE DEF CalmState, loopVars, workerVars
<1>9. Undisturbed'
  BY <1>4, <1>5 DEF Undisturbed
<1>10. \A u \in Tasks : RowCalm(u)'
  <2>1. RowCalm(t)'
    BY <1>5, <1>7, <1>8 DEF RowCalm
  <2>2. \A u \in Tasks \ {t} : RowCalm(u)'
    BY <1>5, <1>7 DEF RowCalm
  <2> QED
    BY <2>1, <2>2
<1>11. PollsCalm'
  <2>1. ASSUME NEW x \in polls, x # p, x.step = "found" PROVE x.task # t
    <3>1. SUFFICES ASSUME x.task = t PROVE FALSE
      OBVIOUS
    <3>2. task[t].assigned = w /\ task[t].assigned = x.worker
      BY <1>1, <1>5, <2>1, <3>1 DEF PollsCalm, Pollable
    <3> QED
      BY <1>1, <2>1, <3>2 DEF Undisturbed, ExecInv, SlotInv
  <2>2. \A x \in polls \ {p} : x.step # "find" => x.task \in Tasks \ {t}
    BY <1>8, <2>1, CalmTypes DEF LeasedPolls, Poll
  <2> QED
    BY <1>4, <1>5, <1>7, <2>2 DEF PollsCalm
<1>12. ExecCalm'
  BY <1>5, <1>7, <1>8, CalmTypes DEF ExecCalm, ReportInFlight
<1>13. RunningUsed'
  BY <1>4, <1>5, <1>6, <1>7 DEF RunningUsed
<1>14. ReportsCalm'
  <2>1. \A r \in reports : r.task \in Tasks \ {t}
    BY <1>8, CalmUses, CalmTypes
  <2> QED
    BY <1>5, <1>7, <2>1 DEF ReportsCalm
<1>15. RegisteredAll'
  BY <1>5 DEF RegisteredAll, GoroutinesOf
<1> QED
  BY <1>9, <1>10, <1>11, <1>12, <1>13, <1>14, <1>15

LEMMA CalmDeliver ==
    ASSUME ExecInv, CalmState, NEW p \in polls, Deliver(p), UNCHANGED loopVars
    PROVE  CalmState'
<1>1. p.waiting /\ p.step = "leased" /\ p.task \in Tasks /\ p.worker \in Workers
  BY CalmTypes DEF CalmState, Undisturbed, Deliver, PollAnswer
<1>2. PICK g : g = [worker |-> p.worker, task |-> p.task, run |-> p.run, pc |-> "running"]
  OBVIOUS
<1>3. g.worker = p.worker /\ g.task = p.task /\ g.run = p.run /\ g.pc = "running"
  BY <1>2
<1>4. /\ polls' = polls \ {p} /\ exec' = exec \cup {g}
      /\ registered' = [registered EXCEPT ![p.worker] = @ \cup {p.task}]
      /\ UNCHANGED <<storeVars, loopVars, reports, reruns, runs, up>>
  BY <1>1, <1>2 DEF Deliver, PollAnswer, SpawnExecution
<1>5. LeasedPolls' = LeasedPolls \ {p}
  BY <1>4 DEF LeasedPolls
<1> USE DEF CalmState, storeVars, loopVars
<1>6. Undisturbed' /\ \A u \in Tasks : RowCalm(u)'
  BY <1>4 DEF Undisturbed, RowCalm
<1>7. PollsCalm'
  BY <1>4 DEF PollsCalm
<1>8. ExecCalm'
  <2>1. g.run = runs[g.task] /\ task[g.task].status = "running"
    BY <1>1, <1>3 DEF PollsCalm
  <2>2. \A e \in exec : ReportInFlight(e)' <=> ReportInFlight(e)
    BY <1>4 DEF ReportInFlight
  <2> QED
    BY <1>3, <1>4, <2>1, <2>2 DEF ExecCalm
<1>9. RunningUsed'
  BY <1>3, <1>4, <1>5 DEF RunningUsed
<1>10. ReportsCalm'
  BY <1>4 DEF ReportsCalm
<1>11. RegisteredAll'
  BY <1>3, <1>4, CalmTypes DEF RegisteredAll, GoroutinesOf
<1> QED
  BY <1>6, <1>7, <1>8, <1>9, <1>10, <1>11

LEMMA CalmFinish ==
    ASSUME ExecInv, CalmState, NEW w \in Workers, FinishTask(w)
    PROVE  CalmState'
<1>1. PICK e \in exec, outcome \in {"success", "failed"} :
        StartReporting(e) /\ reports' = reports \cup {ReportFor(e, outcome)}
  BY DEF FinishTask, GoroutinesOf
<1>2. PICK f, r : f = [e EXCEPT !.pc = "reporting"] /\ r = ReportFor(e, outcome)
  OBVIOUS
<1>3. /\ f.worker = e.worker /\ f.task = e.task /\ f.run = e.run /\ f.pc = "reporting"
      /\ r.task = e.task /\ r.run = e.run /\ r.step = "sent"
  BY <1>2, CalmTypes DEF Goroutine, ReportFor
<1>4. /\ exec' = (exec \ {e}) \cup {f} /\ reports' = reports \cup {r} /\ e.pc = "running"
      /\ UNCHANGED <<storeVars, loopVars, polls, reruns, runs, up, registered>>
  BY <1>1, <1>2 DEF FinishTask, StartReporting
<1>5. LeasedPolls' = LeasedPolls
  BY <1>4 DEF LeasedPolls
<1>6. \A x \in exec \ {e} : x.task # e.task
  BY CalmUses
<1> USE DEF CalmState, storeVars, loopVars
<1>7. Undisturbed' /\ \A u \in Tasks : RowCalm(u)'
  BY <1>4 DEF Undisturbed, RowCalm
<1>8. PollsCalm'
  BY <1>4 DEF PollsCalm
<1>9. ExecCalm'
  <2>1. ReportInFlight(f)' /\ f.run = runs[f.task] /\ task[f.task].status = "running"
    BY <1>3, <1>4 DEF ExecCalm, ReportInFlight
  <2>2. \A x \in exec \ {e} : ReportInFlight(x)' <=> ReportInFlight(x)
    BY <1>3, <1>4, <1>6 DEF ReportInFlight
  <2> QED
    BY <1>4, <2>1, <2>2 DEF ExecCalm
<1>10. RunningUsed'
  BY <1>3, <1>4, <1>5 DEF RunningUsed
<1>11. ReportsCalm'
  <2>1. \A x \in reports : \E y \in exec' : SameRun(y, x) /\ y.pc = "reporting"
    BY <1>3, <1>4 DEF ReportsCalm, SameRun
  <2>2. SameRun(f, r) /\ f.pc = "reporting"
    BY <1>3 DEF SameRun
  <2> QED
    BY <1>3, <1>4, <2>1, <2>2 DEF ReportsCalm
<1>12. RegisteredAll'
  BY <1>3, <1>4 DEF RegisteredAll, GoroutinesOf
<1> QED
  BY <1>7, <1>8, <1>9, <1>10, <1>11, <1>12

LEMMA CalmRead ==
    ASSUME ExecInv, CalmState, NEW r \in reports, ReportRead(r), UNCHANGED <<loopVars, workerVars>>
    PROVE  CalmState'
<1>1. task[r.task].status # "absent" /\ r.task \in Tasks
  BY CalmUses, CalmTypes
<1>2. PICK s : s = [r EXCEPT !.step = "read", !.row = task[r.task]]
  OBVIOUS
<1>3. s.task = r.task /\ s.run = r.run /\ s.row = task[r.task]
  BY <1>2, CalmTypes DEF Report
<1>4. /\ reports' = (reports \ {r}) \cup {s}
      /\ UNCHANGED <<storeVars, loopVars, workerVars, polls, reruns, runs>>
  BY <1>1, <1>2 DEF ReportRead, Replace
<1>5. LeasedPolls' = LeasedPolls
  BY <1>4 DEF LeasedPolls
<1> USE DEF CalmState, storeVars, loopVars, workerVars
<1>6. Undisturbed' /\ \A u \in Tasks : RowCalm(u)'
  BY <1>4 DEF Undisturbed, RowCalm
<1>7. PollsCalm' /\ RunningUsed'
  BY <1>4, <1>5 DEF PollsCalm, RunningUsed
<1>8. ExecCalm'
  <2>1. \A e \in exec : ReportInFlight(e)' <=> ReportInFlight(e)
    BY <1>3, <1>4 DEF ReportInFlight
  <2> QED
    BY <1>4, <2>1 DEF ExecCalm
<1>9. ReportsCalm'
  BY <1>3, <1>4 DEF ReportsCalm, SameRun
<1>10. RegisteredAll'
  BY <1>4 DEF RegisteredAll, GoroutinesOf
<1> QED
  BY <1>6, <1>7, <1>8, <1>9, <1>10

\* The row that a report saves is the one that it read.
LEMMA CalmSaved ==
    ASSUME ExecInv, CalmState, NEW r \in reports, ReportSave(r)
    PROVE  /\ r.task \in Tasks /\ r.row = task[r.task]
           /\ task[r.task].status = "running" /\ runs[r.task] = task[r.task].retry + 1
           /\ task' = [task EXCEPT ![r.task] = Reported(task[r.task], r.outcome)]
<1>1. r.task \in Tasks /\ r.row = task[r.task] /\ task[r.task].status = "running"
  BY CalmUses, CalmTypes DEF CalmState, ReportsCalm, ReportSave
<1>2. runs[r.task] = task[r.task].retry + 1
  BY <1>1 DEF CalmState, RowCalm
<1> QED
  BY <1>1, <1>2 DEF ReportSave, UpdateTask

LEMMA CalmSave ==
    ASSUME ExecInv, CalmState, NEW r \in reports, ReportSave(r), UNCHANGED <<loopVars, workerVars>>
    PROVE  CalmState'
<1>1. PICK t \in Tasks : t = r.task
  BY CalmSaved
<1>2. /\ task' = [task EXCEPT ![t] = Reported(task[t], r.outcome)] /\ reports' = reports \ {r}
      /\ task[t].status = "running" /\ runs[t] = task[t].retry + 1
      /\ UNCHANGED <<created, jobs, beat, loopVars, workerVars, polls, reruns, runs>>
  BY <1>1, CalmSaved DEF ReportSave
<1>3. LeasedPolls' = LeasedPolls
  BY <1>2 DEF LeasedPolls
<1>4. /\ task'[t].lease = "none"
      /\ \/ task'[t].status \in {"success", "dead_letter"}
         \/ /\ task'[t].status = "retrying" /\ task'[t].next = "waiting"
            /\ task'[t].retry = task[t].retry + 1
      /\ \A u \in Tasks \ {t} : task'[u] = task[u]
  BY <1>2, CalmTypes DEF Reported, Verdict, Retried, Released, Row
<1>5. /\ \A p \in LeasedPolls : p.task # t
      /\ \A s \in reports' : s.task # t
  BY <1>1, <1>2, CalmUses
<1> USE DEF CalmState, loopVars, workerVars
<1>6. Undisturbed'
  BY <1>2 DEF Undisturbed
<1>7. \A u \in Tasks : RowCalm(u)'
  <2>1. RowCalm(t)'
    BY <1>2, <1>4 DEF RowCalm
  <2>2. \A u \in Tasks \ {t} : RowCalm(u)'
    BY <1>2, <1>4 DEF RowCalm
  <2> QED
    BY <2>1, <2>2
<1>8. PollsCalm'
  <2>1. \A p \in polls : p.step # "find" => p.task \in Tasks \ {t}
    BY <1>2, <1>5, CalmTypes DEF PollsCalm, Pollable, Runnable, LeasedPolls, Poll
  <2> QED
    BY <1>2, <1>4, <2>1 DEF PollsCalm
<1>9. ExecCalm'
  <2>1. \A e \in exec : e.task # t => (ReportInFlight(e)' <=> ReportInFlight(e))
    BY <1>1, <1>2 DEF ReportInFlight
  <2>2. \A e \in exec : e.task = t => e.pc = "reporting" /\ ~ ReportInFlight(e)'
    <3>1. PICK x \in exec : x.task = t /\ x.pc = "reporting"
      BY <1>1 DEF ReportsCalm, SameRun
    <3> QED
      BY <1>5, <3>1, CalmUses DEF ReportInFlight
  <2>3. Resting(task'[t])
    BY <1>4 DEF Resting
  <2> QED
    BY <1>2, <1>4, <2>1, <2>2, <2>3, CalmTypes DEF ExecCalm
<1>10. RunningUsed'
  BY <1>2, <1>3, <1>4 DEF RunningUsed
<1>11. ReportsCalm'
  BY <1>2, <1>4, <1>5, CalmTypes DEF ReportsCalm
<1>12. RegisteredAll'
  BY <1>2 DEF RegisteredAll, GoroutinesOf
<1> QED
  BY <1>6, <1>7, <1>8, <1>9, <1>10, <1>11, <1>12

LEMMA CalmEnd ==
    ASSUME ExecInv, CalmState, NEW e \in exec, EndExecution(e), ~ ReportInFlight(e)
    PROVE  CalmState'
<1>1. /\ exec' = exec \ {e} /\ e.pc = "reporting"
      /\ registered' = [registered EXCEPT ![e.worker] = @ \ {e.task}]
      /\ UNCHANGED <<storeVars, loopVars, apiVars, up>>
  BY DEF EndExecution, FinishExecution, Unregister
<1>2. LeasedPolls' = LeasedPolls
  BY <1>1 DEF LeasedPolls, apiVars
<1> USE DEF CalmState, storeVars, loopVars, apiVars
<1>3. Undisturbed' /\ \A u \in Tasks : RowCalm(u)'
  BY <1>1 DEF Undisturbed, RowCalm
<1>4. PollsCalm'
  BY <1>1 DEF PollsCalm
<1>5. ExecCalm'
  BY <1>1 DEF ExecCalm, ReportInFlight
<1>6. RunningUsed'
  <2>1. task[e.task].status # "running"
    BY <1>1 DEF ExecCalm, Resting
  <2> QED
    BY <1>1, <1>2, <2>1 DEF RunningUsed
<1>7. ReportsCalm'
  BY <1>1 DEF ReportsCalm, ReportInFlight, SameRun
<1>8. RegisteredAll'
  BY <1>1, CalmUses, CalmTypes DEF RegisteredAll, GoroutinesOf
<1> QED
  BY <1>3, <1>4, <1>5, <1>6, <1>7, <1>8

----------------------------------------------------------------------------
(* The invariant *)

LEMMA CalmInvInit == Init => CalmInv
<1> SUFFICES ASSUME Init PROVE CalmState
  BY DEF CalmInv
<1> USE DEF Init, StoreInit, LoopsInit, ApiInit, WorkersInit
<1>1. Undisturbed
  BY DEF Undisturbed, ReaperIdle
<1>2. \A t \in Tasks : RowCalm(t)
  BY DEF RowCalm, NoRow, PendingRow
<1>3. RunningUsed
  BY DEF RunningUsed, NoRow, PendingRow
<1>4. PollsCalm /\ ExecCalm /\ ReportsCalm /\ RegisteredAll
  BY DEF PollsCalm, ExecCalm, ReportsCalm, RegisteredAll, GoroutinesOf
<1> QED
  BY <1>1, <1>2, <1>3, <1>4 DEF CalmState

LEMMA CalmInvStep == ExecInv /\ CalmInv /\ [Next]_vars => CalmInv'
<1> SUFFICES ASSUME ExecInv, CalmInv, [Next]_vars, disruptions' = 0 PROVE CalmState'
  BY DEF CalmInv
<1>1. CASE Next
  <2>1. CalmState /\ CalmStep
    BY <1>1, CalmSteps
  <2> QED
    BY <2>1, CalmRows, CalmStartPoll, CalmFind, CalmGrant, CalmDeliver, CalmFinish, CalmRead,
       CalmSave, CalmEnd DEF CalmStep
<1>2. CASE UNCHANGED vars
  <2>1. CalmState /\ Quiet /\ UNCHANGED task /\ UNCHANGED created
    BY <1>2 DEF CalmInv, vars, storeVars, apiVars, workerVars, Quiet
  <2>2. Undisturbed'
    BY <1>2, <2>1 DEF CalmState, Undisturbed, vars, storeVars, loopVars, apiVars, workerVars
  <2>3. RowsKept
    BY <2>1 DEF CalmState, RowsKept, RowCalm, Quiet
  <2> QED
    BY <2>1, <2>2, <2>3, CalmQuiet
<1> QED
  BY <1>1, <1>2

----------------------------------------------------------------------------
(* Theorems *)

LEMMA CalmInvariant == Spec => [](ExecInv /\ CalmInv)
BY ExecInvInit, ExecInvStep, CalmInvInit, CalmInvStep, PTL DEF Spec

\* As long as nothing is disrupted, a running task has a live lease and exactly
\* one use of it, on its holder, and any other task has none: polls, reports,
\* reassignment and the reapers never have a task executed twice at a time
\* (CalmLeaseUsedOnce).
THEOREM CalmLeases == Spec => []CalmLeaseUsedOnce
<1>1. ExecInv /\ CalmInv => CalmLeaseUsedOnce
  <2> SUFFICES ASSUME ExecInv, CalmState, NEW t \in Tasks
               PROVE  IF task[t].status = "running"
                      THEN /\ task[t].lease = "live"
                           /\ \E u \in Uses(t) :
                                Uses(t) = {u} /\ u.worker = task[t].holder /\ u.run = runs[t]
                      ELSE Uses(t) = {}
    BY DEF CalmLeaseUsedOnce, CalmInv
  <2>1. Uses(t) = {p \in LeasedPolls : p.task = t}
                    \cup {e \in exec : e.task = t /\ (e.pc = "running" \/ ReportInFlight(e))}
    BY DEF Uses, LeasedPolls
  <2>2. CASE task[t].status = "running"
    <3>1. task[t].lease = "live"
      BY <2>2, CalmTypes DEF CalmState, RowCalm, ExecInv, LeaseInv, LeaseConsistent, RowConsistent,
        Row
    <3>2. ASSUME NEW p \in LeasedPolls, p.task = t
          PROVE  Uses(t) = {p} /\ p.run = runs[t] /\ p.worker = task[t].holder
      <4>1. p.run = runs[t]
        BY <3>2 DEF CalmState, PollsCalm, LeasedPolls
      <4> QED
        BY <2>1, <2>2, <3>2, <4>1, CalmUses DEF ExecInv, RunInv, LatestOnHolder, OnHolder
    <3>3. ASSUME NEW e \in exec, e.task = t
          PROVE  Uses(t) = {e} /\ e.run = runs[t] /\ e.worker = task[t].holder
      <4>1. e.run = runs[t] /\ (e.pc = "running" \/ ReportInFlight(e))
        BY <2>2, <3>3 DEF CalmState, ExecCalm, Resting
      <4> QED
        BY <2>1, <2>2, <3>3, <4>1, CalmUses DEF ExecInv, RunInv, LatestOnHolder, OnHolder
    <3> QED
      BY <2>2, <3>1, <3>2, <3>3 DEF CalmState, RunningUsed
  <2>3. CASE task[t].status # "running"
    BY <2>1, <2>3 DEF CalmState, PollsCalm, ExecCalm, LeasedPolls
  <2> QED
    BY <2>2, <2>3
<1> QED
  BY <1>1, CalmInvariant, PTL

\* As long as nothing is disrupted, no statement rewrites a row between the read
\* and the save of a report on it (CalmReportFresh).
THEOREM CalmReports == Spec => []CalmReportFresh
<1>1. ExecInv /\ CalmInv => CalmReportFresh
  BY DEF CalmInv, CalmState, ReportsCalm, CalmReportFresh
<1> QED
  BY <1>1, CalmInvariant, PTL

\* The map that the renewal loop reads names only tasks that the worker executes,
\* and all of them as long as nothing is disrupted (RegisteredExact).
THEOREM RegisteredTasks == Spec => []RegisteredExact
<1>1. ExecInv /\ CalmInv => RegisteredExact
  BY DEF ExecInv, RegisteredInv, CalmInv, CalmState, RegisteredAll, RegisteredExact
<1> QED
  BY <1>1, CalmInvariant, PTL

\* Only a grant counts a lease.
LEMMA LeasesCounted ==
    ASSUME ExecInv, [Next]_vars
    PROVE  runs' = runs \/ \E p \in polls : Grant(p)
BY RunSteps DEF ExecInv, Carried, Deliver, PollAnswer, FinishTask

\* As long as nothing is disrupted, a task waits for its backoff before it is
\* leased again, although LeaseTask does not look (BackoffRespected).
THEOREM BackoffWaited == Spec => BackoffRespected
<1>1. ASSUME ExecInv, CalmInv, [Next]_vars, disruptions' = 0,
             NEW t \in Tasks, runs'[t] > runs[t]
      PROVE  task[t].next # "waiting"
  <2>1. Next /\ runs' # runs
    BY <1>1, CalmTypes DEF vars, apiVars
  <2>2. CalmState
    BY <1>1, <2>1, CalmSteps
  <2>3. PICK p \in polls : Grant(p)
    BY <1>1, <2>1, LeasesCounted
  <2>4. p.task = t
    BY <1>1, <2>3, CalmTypes DEF Grant
  <2> QED
    BY <1>1, <2>2, <2>3, <2>4, CalmGranted
<1>2. ExecInv /\ CalmInv /\ [Next]_vars
        => (disruptions' = 0 =>
              \A t \in Tasks : runs'[t] > runs[t] => task[t].next # "waiting")
  BY <1>1
<1> QED
  BY <1>2, CalmInvariant, PTL DEF Spec, BackoffRespected

----------------------------------------------------------------------------
(* The promised life of a task *)

\* The phase of a task, by the status in its row.
LEMMA Phases ==
    ASSUME ExecInv, CalmState, NEW t \in Tasks
    PROVE  /\ task[t].status \in {"pending", "retrying"} => Phase(t) = "waiting"
           /\ task[t].status = "running" => Phase(t) = "running"
           /\ task[t].status = "success" => Phase(t) = "success"
           /\ task[t].status = "dead_letter" => Phase(t) = "failed" /\ t <= created
           /\ task[t].status = "absent" => Phase(t) = IF t <= created THEN "discarded" ELSE "none"
           /\ task[t].status \in {"pending", "retrying", "running", "success", "dead_letter",
                                  "absent"}
<1>1. task[t].status \in Statuses \cup {"absent"} /\ created \in Nat /\ t \in Nat /\ RowCalm(t)
  BY CalmTypes DEF Row, CalmState, Tasks
<1>2. task[t].status = "dead_letter" => t <= created
  BY <1>1 DEF RowCalm
<1> QED
  BY <1>1, <1>2 DEF Phase, Statuses, RowCalm

\* A step that changes no status and creates nothing does not show.
LEMMA PhaseKept ==
    ASSUME NEW t \in Tasks, created' = created, task'[t].status = task[t].status
    PROVE  Phase(t)' = Phase(t)
BY DEF Phase

LEMMA PhaseStep ==
    ASSUME NEW x \in Tasks, NEW to, \A t \in Tasks \ {x} : Phase(t)' = Phase(t), Phase(x)' = to
    PROVE  [t \in Tasks |-> Phase(t)]' = [[t \in Tasks |-> Phase(t)] EXCEPT ![x] = to]
OBVIOUS

\* Without a disruption the rows and the leases implement LifeCycle
\* (ImplementsLifeCycle): an attempt is one lease, a task fails for good after
\* exactly max_retries + 1 of them, verdicts are kept, and only failed tasks are
\* discarded, whatever polls, reports, reapers and renewals do in between.
THEOREM LifeCycleImplemented == Spec /\ [](disruptions = 0) => ImplementsLifeCycle
<1> DEFINE now == [t \in Tasks |-> Phase(t)]
<1>1. Init => Life!Init
  BY DEF Init, StoreInit, ApiInit, Life!Init, Phase, NoRow, PendingRow, Tasks
<1>2. ExecInv /\ CalmInv /\ [Next]_vars /\ disruptions = 0 /\ (disruptions = 0)'
        => [Life!Next]_<<now, runs>>
  <2> SUFFICES ASSUME ExecInv, CalmInv, [Next]_vars, disruptions = 0, disruptions' = 0
               PROVE  [Life!Next]_<<now, runs>>
    OBVIOUS
  <2>1. CalmState
    BY DEF CalmInv
  <2>2. ASSUME runs' = runs, \A t \in Tasks : Phase(t)' = Phase(t)
        PROVE  UNCHANGED <<now, runs>>
    BY <2>2
  <2>3. ASSUME runs' = runs, created' = created, \A t \in Tasks : task'[t].status = task[t].status
        PROVE  UNCHANGED <<now, runs>>
    BY <2>2, <2>3, PhaseKept
  <2>4. CASE UNCHANGED vars
    BY <2>3, <2>4 DEF vars, storeVars, apiVars
  <2>5. CASE Create
    <3>1. PICK x \in Tasks : x = created + 1 /\ created' = x
                             /\ task' = [task EXCEPT ![x] = PendingRow] /\ runs' = runs
      <4>1. created + 1 \in Tasks
        BY <2>5, CalmTypes DEF Create, CreateTask, Tasks
      <4> QED
        BY <2>5, <4>1 DEF Create, CreateTask, UpdateTask, apiVars
    <3>2. Phase(x) = "none" /\ Phase(x)' = "waiting"
      <4>1. task[x].status = "absent" /\ ~ x <= created
        BY <2>1, <3>1, CalmTypes DEF CalmState, RowCalm
      <4>2. task'[x].status = "pending"
        BY <3>1, CalmTypes DEF PendingRow
      <4> QED
        BY <4>1, <4>2 DEF Phase
    <3>3. ASSUME NEW t \in Tasks \ {x} PROVE Phase(t)' = Phase(t)
      <4>1. task'[t] = task[t] /\ (t <= created' <=> t <= created)
        BY <3>1, CalmTypes DEF Tasks
      <4> QED
        BY <4>1 DEF Phase
    <3>4. Life!Submit(x)
      BY <3>1, <3>2, <3>3, PhaseStep DEF Life!Submit, Life!Becomes
    <3> QED
      BY <3>4 DEF Life!Next
  <2>6. CASE CleanerStep
    <3>1. PICK S \in SUBSET Tasks :
            /\ \A t \in S : task[t].status = "dead_letter"
            /\ task' = [t \in Tasks |-> IF t \in S THEN NoRow ELSE task[t]]
            /\ created' = created /\ runs' = runs
      BY <2>6 DEF CleanerStep, CleanOldDeadLetters, apiVars
    <3>2. \A t \in S : Phase(t) = "failed" /\ t <= created
      BY <2>1, <3>1, Phases
    <3>3. \A t \in S : Phase(t)' = "discarded"
      <4>1. \A t \in S : task'[t].status = "absent" /\ t <= created'
        BY <3>1, <3>2 DEF NoRow, PendingRow
      <4> QED
        BY <4>1 DEF Phase
    <3>4. \A t \in Tasks \ S : Phase(t)' = Phase(t)
      BY <3>1, PhaseKept
    <3>5. Life!Discard(S)
      BY <3>1, <3>2, <3>3, <3>4 DEF Life!Discard
    <3> QED
      BY <3>5 DEF Life!Next
  <2>7. ASSUME NEW p \in polls, Grant(p) PROVE Life!Next
    <3>1. PICK x \in Tasks : p.task = x /\ task[x].status \in {"pending", "retrying"}
      BY <2>1, <2>7, CalmGranted
    <3>2. /\ task' = [task EXCEPT ![x] = Leased(task[x], p.worker)]
          /\ runs' = [runs EXCEPT ![x] = @ + 1] /\ created' = created
      BY <2>7, <3>1 DEF Grant
    <3>3. task'[x].status = "running" /\ \A t \in Tasks \ {x} : task'[t] = task[t]
      BY <3>2, CalmTypes DEF Leased, Row
    <3>4. Phase(x) = "waiting" /\ Phase(x)' = "running"
      BY <3>1, <3>3 DEF Phase
    <3>5. \A t \in Tasks \ {x} : Phase(t)' = Phase(t)
      BY <3>2, <3>3, PhaseKept
    <3>6. Life!Attempt(x)
      BY <3>2, <3>4, <3>5, PhaseStep DEF Life!Attempt, Life!Becomes
    <3> QED
      BY <3>6 DEF Life!Next
  <2>8. ASSUME NEW r \in reports, ReportSave(r) PROVE Life!Next
    <3>1. PICK x \in Tasks :
            /\ task[x].status = "running" /\ runs[x] = task[x].retry + 1
            /\ task' = [task EXCEPT ![x] = Reported(task[x], r.outcome)]
            /\ runs' = runs /\ created' = created
      BY <2>1, <2>8, CalmSaved DEF ReportSave
    <3>2. /\ task'[x].status = IF r.outcome = "success" THEN "success"
                               ELSE IF runs[x] > MaxRetries THEN "dead_letter" ELSE "retrying"
          /\ \A t \in Tasks \ {x} : task'[t] = task[t]
      <4>1. task[x].retry \in Nat /\ runs[x] > MaxRetries <=> task[x].retry >= MaxRetries
        BY <3>1, CalmTypes, StoreAssumption DEF Row
      <4> QED
        BY <3>1, <4>1, CalmTypes DEF Reported, Verdict, Retried, Released, Row
    <3>3. /\ Phase(x) = "running"
          /\ Phase(x)' = IF r.outcome = "success" THEN "success"
                         ELSE IF runs[x] > MaxRetries THEN "failed" ELSE "waiting"
      BY <3>1, <3>2 DEF Phase
    <3>4. \A t \in Tasks \ {x} : Phase(t)' = Phase(t)
      BY <3>1, <3>2, PhaseKept
    <3>5. Life!Succeed(x) \/ Life!Fail(x)
      BY <3>1, <3>3, <3>4, PhaseStep DEF Life!Succeed, Life!Fail, Life!Becomes
    <3> QED
      BY <3>5 DEF Life!Next
  <2>9. CASE AssignerStep
    <3>1. CASE AssignFind \/ AssignPick
      BY <2>3, <2>9, <3>1 DEF AssignerStep, AssignFind, AssignPick, storeVars, apiVars
    <3>2. CASE AssignTaskToWorker
      <4>1. /\ task' = [task EXCEPT ![assigner.task] =
                           Assigned(task[assigner.task], assigner.worker)]
            /\ created' = created /\ runs' = runs
        BY <2>9, <3>2 DEF AssignerStep, AssignTaskToWorker, UpdateTask, apiVars
      <4>2. \A t \in Tasks : \A w : Assigned(task[t], w).status = task[t].status
        BY CalmTypes DEF Assigned, Row
      <4>3. \A t \in Tasks : task'[t].status = task[t].status
        BY <4>1, <4>2, CalmTypes
      <4> QED
        BY <2>3, <4>1, <4>3
    <3> QED
      BY <2>9, <3>1, <3>2 DEF AssignerStep
  <2>10. ASSUME NEW u \in Tasks, BackoffEnds(u) PROVE UNCHANGED <<now, runs>>
    BY <2>3, <2>10, CalmTypes DEF BackoffEnds, RetryDue, apiVars, Row
  <2>11. ASSUME NEW w \in Workers, NEW u \in Tasks, Renew(w, u)
         PROVE  UNCHANGED <<now, runs>>
    BY <2>3, <2>11, CalmTypes DEF Renew, UpdateTask, Renewed, apiVars, Row
  <2>12. ASSUME NEW w \in Workers, HeartbeatStep(w) \/ StartPoll(w) \/ FinishTask(w)
         PROVE  UNCHANGED <<now, runs>>
    BY <2>3, <2>12 DEF HeartbeatStep, Heartbeat, StartPoll, AcceptPoll, FinishTask, storeVars,
      apiVars
  <2>13. ASSUME NEW p \in polls, PollFind(p) \/ Deliver(p) PROVE UNCHANGED <<now, runs>>
    BY <2>3, <2>13 DEF PollFind, Deliver, PollAnswer, storeVars
  <2>14. ASSUME NEW r \in reports, ReportRead(r) PROVE UNCHANGED <<now, runs>>
    BY <2>3, <2>14 DEF ReportRead, storeVars
  <2>15. ASSUME NEW e \in exec, EndExecution(e) PROVE UNCHANGED <<now, runs>>
    BY <2>3, <2>15 DEF EndExecution, storeVars, apiVars
  <2> QED
    BY <2>4, <2>5, <2>6, <2>7, <2>8, <2>9, <2>10, <2>11, <2>12, <2>13, <2>14, <2>15,
       CalmSteps DEF CalmStep
<1> QED
  BY <1>1, <1>2, CalmInvariant, PTL DEF Spec, ImplementsLifeCycle, Life!Spec
=============================================================================
