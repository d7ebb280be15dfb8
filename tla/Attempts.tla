------------------------------ MODULE Attempts ------------------------------
(***************************************************************************)
(* One task, attempt after attempt: what executeTask                       *)
(* (internal/worker/worker.go) makes of a command's end, what the report   *)
(* makes of that, and the retry arithmetic of handleTaskReport             *)
(* (internal/api/server.go), while clients edit the job and rerun the      *)
(* task.  Who executes it, and with which lease, is left to Cluster; here  *)
(* one execution follows the other.                                        *)
(*                                                                         *)
(* An int and a Duration are words of Bits bits, 64 in the program, and a  *)
(* second is Second units of a Duration, 10^9 in the program.              *)
(***************************************************************************)
EXTENDS Integers

CONSTANTS
    Requests,        \* [retries, interval, exponential] of creates and updates
    DefaultRetries,  \* of the column: 3
    DefaultInterval, \* of validateJob: 60
    Bits, Second,
    MaxLog,          \* MAX_LOG_BYTES
    Marker,          \* length of "\n[timeout exceeded]"
    MaxOutput,       \* bound: output of a command
    MaxEdits,        \* bound: updates of the job
    MaxReruns,       \* bound: reruns of the task
    MaxCount         \* bound: retry_count; above what the requests allow

ASSUME AttemptsAssumption ==
    /\ Requests \subseteq [retries : Int, interval : Int, exponential : BOOLEAN]
    /\ DefaultRetries \in Nat /\ DefaultInterval \in Nat \ {0}
    /\ MaxCount \in Nat /\ MaxOutput \in Nat
    /\ Bits \in Nat \ {0} /\ Second \in Nat \ {0} /\ Marker \in Nat /\ MaxLog \in Int
    /\ DefaultInterval * Second < 2 ^ (Bits - 1)
    /\ \A r \in Requests : r.interval * Second < 2 ^ (Bits - 1)

VARIABLES
    job,     \* its row
    task,    \* its row
    delay,   \* next_run_at, counted from the report that wrote it
    report,  \* what the worker sends, as a set of at most one
    edits, reruns,
    last,    \* history: the end that the row tells of, as a set
    longest, \* history: the longest delay since retry_count was 0
    edited   \* history: the job was edited since retry_count was 0

vars == <<job, task, delay, report, edits, reruns, last, longest, edited>>

Larger(a, b) == IF a > b THEN a ELSE b

----------------------------------------------------------------------------
(* Jobs *)

\* Mutant of Validated: a negative limit is left as it is.
ValidatedPartly(r) == [r EXCEPT !.interval = IF @ <= 0 THEN DefaultInterval ELSE @]

\* validateJob
Validated(r) ==
    [r EXCEPT !.retries = Larger(@, 0), !.interval = IF @ <= 0 THEN DefaultInterval ELSE @]

\* CreateJob: gorm leaves a zero value out of an INSERT if the column has a
\* default.
Created(r) ==
    [r EXCEPT !.retries = IF @ = 0 THEN DefaultRetries ELSE @, !.exponential = TRUE]

\* UpdateJob writes what it is given.
UpdateJob ==
    /\ edits < MaxEdits /\ edits' = edits + 1
    /\ \E r \in Requests : job' = Validated(r)
    /\ edited' = (edited \/ task.retry > 0)
    /\ UNCHANGED <<task, delay, report, reruns, last, longest>>

----------------------------------------------------------------------------
(* The worker *)

\* The end of a command: its exit code, -1 if it was killed or did not start; of
\* an HTTP request 0, 1 without an answer, the status if it is not 2xx.  late:
\* the deadline had passed when executeTask looked, after the command.
Ends == [code : {-1, 0, 1}, late : BOOLEAN, output : 0 .. MaxOutput]

Succeeded(e) == e.code = 0 /\ ~ e.late

\* stderr: its length, and whether the marker at its end is whole
Stderr(e) ==
    [length |-> e.output + (IF e.late THEN Marker ELSE 0), marked |-> e.late]

Fits(s) == MaxLog <= 0 \/ s.length <= MaxLog

\* truncateString keeps the end.
Truncated(s) ==
    IF Fits(s) THEN s ELSE [length |-> MaxLog, marked |-> s.marked /\ Marker <= MaxLog]

ExitCode(e) == IF e.late /\ e.code = 0 THEN -1 ELSE e.code

\* The wait is over; a worker leases the task and executes it.
Execute ==
    /\ task.status \in {"pending", "retrying"} /\ report = {}
    /\ task' = [task EXCEPT !.status = "running"]
    /\ longest' = Larger(longest, delay)
    /\ \E e \in Ends : report' = {e}
    /\ UNCHANGED <<job, delay, edits, reruns, last, edited>>

----------------------------------------------------------------------------
(* The scheduler *)

Half == 2 ^ (Bits - 1)

\* A signed word keeps the low bits.
Wrap(n) == ((n + Half) % (2 * Half)) - Half

ShiftLeft(k) == IF k >= Bits THEN 0 ELSE Wrap(2 ^ k)

\* Mutant of Factor: retry_count was counted up before.
FactorAhead(retry) == ShiftLeft(retry)

Factor(retry) == ShiftLeft(retry - 1)

Interval(retry) == IF job.exponential THEN Wrap(job.interval * Factor(retry)) ELSE job.interval

\* Mutant of RetriesSpent: the limit is met only when it is hit.
RetriesHit == task.retry = job.retries

RetriesSpent == task.retry >= job.retries

\* Mutant of Status: what the worker calls success is the exit code alone.
StatusByCode(e) == IF e.code = 0 THEN "success" ELSE "failed"

Status(e) == IF Succeeded(e) THEN "success" ELSE "failed"

\* handleTaskReport
ReportTask ==
    \E e \in report :
      LET told == [task EXCEPT !.exit = ExitCode(e), !.stderr = Truncated(Stderr(e))]
      IN  /\ report' = {} /\ last' = {e}
          /\ \/ /\ Status(e) = "success"
                /\ task' = [told EXCEPT !.status = "success"]
                /\ UNCHANGED delay
             \/ /\ Status(e) = "failed" /\ RetriesSpent
                /\ task' = [told EXCEPT !.status = "dead_letter"]
                /\ UNCHANGED delay
             \/ /\ Status(e) = "failed" /\ ~ RetriesSpent
                /\ task.retry < MaxCount
                /\ task' = [told EXCEPT !.status = "retrying", !.retry = @ + 1]
                /\ delay' = Wrap(Interval(task.retry + 1) * Second)
          /\ UNCHANGED <<job, edits, reruns, longest, edited>>

NewTask == [status |-> "pending", retry |-> 0, exit |-> 0,
            stderr |-> [length |-> 0, marked |-> FALSE]]

\* Manager.Rerun, of a dead letter or of any task whose id a client knows
RerunTask ==
    /\ reruns < MaxReruns /\ reruns' = reruns + 1
    /\ task' = NewTask
    /\ delay' = 0 /\ longest' = 0 /\ edited' = FALSE /\ last' = {}
    /\ UNCHANGED <<job, report, edits>>

----------------------------------------------------------------------------
Init ==
    /\ job \in {Created(Validated(r)) : r \in Requests}
    /\ task = NewTask
    /\ delay = 0 /\ report = {} /\ edits = 0 /\ reruns = 0
    /\ last = {} /\ longest = 0 /\ edited = FALSE

Settled == task.status \in {"success", "dead_letter"} /\ report = {}

\* Nothing is left to do
Rest == Settled /\ edits = MaxEdits /\ reruns = MaxReruns /\ UNCHANGED vars

Next == Execute \/ ReportTask \/ UpdateJob \/ RerunTask \/ Rest

Spec == Init /\ [][Next]_vars

\* Leases and reports get through in the end (Cluster).
FairSpec == Spec /\ WF_vars(Execute) /\ WF_vars(ReportTask)

----------------------------------------------------------------------------
(* Properties *)

TypeOK ==
    /\ job \in [retries : Nat, interval : Nat \ {0}, exponential : BOOLEAN]
    /\ task.status \in {"pending", "running", "retrying", "success", "dead_letter"}
    /\ task.retry \in 0 .. MaxCount /\ task.exit \in Int
    /\ delay \in - Half .. Half - 1 /\ longest \in 0 .. Half - 1
    /\ report \subseteq Ends /\ last \subseteq Ends

\* What the row tells of the last attempt is how it ended: a command that ran
\* into its timeout is no success even if it returned 0 in the end, its row keeps
\* the marker though the output was cut, and a row of a later attempt does not
\* look successful.
RowTellsOutcome ==
    /\ last = {} => task = [NewTask EXCEPT !.status = task.status]
    /\ \A e \in last :
         /\ task.status = "success" <=> Succeeded(e)
         /\ task.exit = 0 <=> Succeeded(e)
         /\ MaxLog > 0 => task.stderr.length <= MaxLog
         /\ MaxLog <= 0 \/ Marker <= MaxLog => task.stderr.marked = e.late

\* The delay before a retry is the interval, doubled for each retry before if the
\* job asks for it, and the arithmetic does not overflow, until a delay of half
\* the range of a Duration has been waited; unless the job is edited meanwhile:
\* exponential backoff switched on at a high retry_count overflows at once.
BackoffExact ==
    task.status = "retrying" /\ ~ edited =>
      \/ delay = job.interval * Second * (IF job.exponential THEN 2 ^ (task.retry - 1) ELSE 1)
      \/ 2 * longest >= Half

\* The attempts end, whatever clients do to the limit between two of them: one
\* that is lowered below retry_count is met as well.
AttemptsEnd == <>[]Settled
=============================================================================
