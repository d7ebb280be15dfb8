----------------------------- MODULE WorkerApi -----------------------------
(***************************************************************************)
(* The HTTP handlers of internal/api/server.go that take several database  *)
(* statements: handleWorkerPoll with Scheduler.PollForTask,                *)
(* handleTaskReport, and deadletter.Manager.Rerun.  Each request in flight *)
(* is a record; other requests and the scheduler's loops run between its   *)
(* statements.                                                             *)
(*                                                                         *)
(* runs[t] counts the leases ever granted on t.  It is not in the code: it *)
(* names each execution, so that properties can tell the current one from  *)
(* one that a reclaimed lease left behind.                                 *)
(***************************************************************************)
EXTENDS TaskStore

CONSTANT MaxRuns  \* bound: leases granted per task

ASSUME ApiAssumption == MaxRuns \in Nat

VARIABLES
    polls,    \* poll requests being served
    reports,  \* result reports sent and not yet answered
    reruns,   \* tasks whose row a Rerun has read and not yet saved
    runs      \* history: leases granted per task

apiVars == <<polls, reports, reruns, runs>>

\* task and run mean something from step "found" and "leased" on; waiting is
\* FALSE once the worker has given up on the answer.
Poll == [worker: Workers, step: {"find", "found", "leased"}, task: {0} \cup Tasks,
         run: Nat, waiting: BOOLEAN]

\* row is what GetTask returned, from step "read" on.
Report == [task: Tasks, run: Nat, outcome: {"success", "failed"},
           step: {"sent", "read"}, row: Row]

ApiTypeOK ==
    /\ polls \subseteq Poll /\ (\A p \in polls : p.step # "find" => p.task \in Tasks)
    /\ reports \subseteq Report
    /\ reruns \subseteq Tasks
    /\ runs \in [Tasks -> Nat]

ApiInit ==
    /\ polls = {} /\ reports = {} /\ reruns = {}
    /\ runs = [t \in Tasks |-> 0]

Polling(w) == \E p \in polls : p.worker = w /\ p.waiting

PollableTasks(w) == {t \in Tasks : Pollable(task[t], w)}

Replace(S, old, new) == (S \ {old}) \cup {new}

----------------------------------------------------------------------------
(* handleWorkerPoll and PollForTask *)

AcceptPoll(w) ==
    /\ polls' = polls \cup {[worker |-> w, step |-> "find", task |-> 0, run |-> 0,
                             waiting |-> TRUE]}
    /\ UNCHANGED <<storeVars, reports, reruns, runs>>

PollFind(p) ==
    /\ p \in polls /\ p.step = "find"
    /\ \E t \in Tasks :
         /\ IsOldest(t, PollableTasks(p.worker))
         /\ polls' = Replace(polls, p, [p EXCEPT !.step = "found", !.task = t])
    /\ UNCHANGED <<storeVars, reports, reruns, runs>>

\* The long poll ends without a task because the client left.  A client that
\* gets an empty answer at the deadline polls again at once; the two requests
\* are one record.
PollEmpty(p) ==
    /\ p \in polls /\ p.step = "find" /\ ~ p.waiting
    /\ polls' = polls \ {p}
    /\ UNCHANGED <<storeVars, reports, reruns, runs>>

\* Mutant of PollLease: nobody looks at how many rows LeaseTask has updated.
PollLeaseUnchecked(p) ==
    /\ p \in polls /\ p.step = "found" /\ runs[p.task] < MaxRuns
    /\ LET n == runs[p.task] + (IF Leasable(task[p.task], p.worker) THEN 1 ELSE 0) IN
         /\ UpdateTask(p.task, IF n > runs[p.task] THEN Leased(task[p.task], p.worker)
                               ELSE task[p.task])
         /\ runs' = [runs EXCEPT ![p.task] = n]
         /\ polls' = Replace(polls, p, [p EXCEPT !.step = "leased", !.run = n])
    /\ UNCHANGED <<created, jobs, beat, reports, reruns>>

PollLease(p) ==
    /\ p \in polls /\ p.step = "found"
    /\ \/ /\ Leasable(task[p.task], p.worker)
          /\ runs[p.task] < MaxRuns
          /\ UpdateTask(p.task, Leased(task[p.task], p.worker))
          /\ runs' = [runs EXCEPT ![p.task] = @ + 1]
          /\ polls' = Replace(polls, p, [p EXCEPT !.step = "leased",
                                                  !.run = runs[p.task] + 1])
       \/ /\ ~ Leasable(task[p.task], p.worker)
          /\ polls' = Replace(polls, p, [p EXCEPT !.step = "find", !.task = 0])
          /\ UNCHANGED <<task, runs>>
    /\ UNCHANGED <<created, jobs, beat, reports, reruns>>

\* GetJob succeeds and the task goes out; PollFails: the job was deleted, the
\* answer is an error and the lease stays with a worker that never hears of it.
PollAnswer(p) ==
    /\ p \in polls /\ p.step = "leased" /\ JobOf[p.task] \in jobs
    /\ polls' = polls \ {p}
    /\ UNCHANGED <<storeVars, reports, reruns, runs>>

PollFails(p) ==
    /\ p \in polls /\ p.step = "leased" /\ JobOf[p.task] \notin jobs
    /\ polls' = polls \ {p}
    /\ UNCHANGED <<storeVars, reports, reruns, runs>>

\* The worker's request times out or is cut; the handler goes on.
AbandonPoll(p) ==
    /\ p \in polls /\ p.waiting
    /\ polls' = Replace(polls, p, [p EXCEPT !.waiting = FALSE])
    /\ UNCHANGED <<storeVars, reports, reruns, runs>>

----------------------------------------------------------------------------
(* handleTaskReport: GetTask, GetJob, UpdateTask.  The handler compares    *)
(* neither the reporting worker with the lease holder nor the row it saves *)
(* with the row it read.  GetJob is part of the last step: it commutes     *)
(* with everything that can run between it and the save.                   *)

ReportRead(r) ==
    /\ r \in reports /\ r.step = "sent"
    /\ reports' = IF task[r.task].status = "absent"
                  THEN reports \ {r}
                  ELSE Replace(reports, r, [r EXCEPT !.step = "read",
                                                     !.row = task[r.task]])
    /\ UNCHANGED <<storeVars, polls, reruns, runs>>

\* Mutant of Released: the holder stays in the row.
ReleasedKeepsHolder(row) == [row EXCEPT !.lease = "none", !.assigned = NoWorker]

Released(row) ==
    [row EXCEPT !.holder = NoWorker, !.lease = "none", !.assigned = NoWorker]

Retried(row) == [Released(row) EXCEPT !.status = "retrying", !.retry = @ + 1,
                                      !.next = "waiting"]

Verdict(row, status) == [Released(row) EXCEPT !.status = status]

\* Mutants of Reported: one retry too many, or one too few.
ReportedLate(row, outcome) ==
    IF outcome = "success" THEN Verdict(row, "success")
    ELSE IF row.retry > MaxRetries THEN Verdict(row, "dead_letter") ELSE Retried(row)
ReportedEarly(row, outcome) ==
    IF outcome = "success" THEN Verdict(row, "success")
    ELSE IF row.retry + 1 >= MaxRetries THEN Verdict(row, "dead_letter") ELSE Retried(row)

Reported(row, outcome) ==
    IF outcome = "success" THEN Verdict(row, "success")
    ELSE IF row.retry >= MaxRetries THEN Verdict(row, "dead_letter")
    ELSE Retried(row)

ReportSave(r) ==
    /\ r \in reports /\ r.step = "read" /\ JobOf[r.task] \in jobs
    /\ UpdateTask(r.task, Reported(r.row, r.outcome))
    /\ reports' = reports \ {r}
    /\ UNCHANGED <<created, jobs, beat, polls, reruns, runs>>

\* The job was deleted: the handler answers with an error and saves nothing.
ReportFails(r) ==
    /\ r \in reports /\ r.step = "read" /\ JobOf[r.task] \notin jobs
    /\ reports' = reports \ {r}
    /\ UNCHANGED <<storeVars, polls, reruns, runs>>

\* A report that never reaches the scheduler.
LoseReport(r) ==
    /\ r \in reports /\ r.step = "sent"
    /\ reports' = reports \ {r}
    /\ UNCHANGED <<storeVars, polls, reruns, runs>>

----------------------------------------------------------------------------
(* Manager.Rerun: it neither requires a dead letter nor notices that the   *)
(* row changed between its read and its save.                              *)

RerunRead(t) ==
    /\ task[t].status # "absent" /\ t \notin reruns
    /\ reruns' = reruns \cup {t}
    /\ UNCHANGED <<storeVars, polls, reports, runs>>

RerunSave(t) ==
    /\ t \in reruns
    /\ UpdateTask(t, PendingRow)
    /\ reruns' = reruns \ {t}
    /\ UNCHANGED <<created, jobs, beat, polls, reports, runs>>

=============================================================================
