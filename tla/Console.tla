------------------------------ MODULE Console ------------------------------
(***************************************************************************)
(* What a client sees of the system: it lists tasks page by page           *)
(* (handleListTasks and its like with getPagination and Store.ListTasks)   *)
(* and reads the gauges that refreshMetrics sets, while the rest of the    *)
(* system changes the tables.                                              *)
(*                                                                         *)
(* The client is not in this repository.  It asks for the next page from   *)
(* as many rows on as it has received, and stops at an empty page.         *)
(***************************************************************************)
EXTENDS Access, Sequences, FiniteSets

CONSTANTS
    Limits,       \* the ?limit= of clients
    DefaultLimit, \* 50
    MaxLimit,     \* 500
    Filters,      \* the ?status= of clients
    FirstTasks,   \* statuses in the tasks table at the beginning
    MaxChanges,   \* bound: changes of the tables
    MaxReceived   \* bound: rows received; above what the tables can hold

Statuses == {"pending", "running", "success", "failed", "retrying", "dead_letter"}

AnyStatus == ""

\* A row that is not in the table: Store.CreateTask has stamped its created_at
\* and waits for the connection, or it was deleted.
Absent == {"new", "deleted"}

\* What is written over a row in the table, or over one that was deleted and that
\* gorm's Save then inserts again: the verdict of a report, which is saved whatever
\* the status is by then; pending by a rerun; a lease; pending by the reapers; a
\* deletion by a client or the cleaner.
Moves ==
    ((Statuses \cup {"deleted"}) \X {"success", "retrying", "dead_letter", "pending"})
      \cup ({"pending", "retrying"} \X {"running"})
      \cup (Statuses \X {"deleted"})

ASSUME ConsoleAssumption ==
    /\ MaxLimit \in Nat /\ DefaultLimit \in 1 .. MaxLimit /\ Limits \subseteq Int
    /\ Filters \subseteq Statuses \cup {AnyStatus}
    /\ FirstTasks \in Seq(Statuses) /\ MaxChanges \in Nat /\ MaxReceived \in Nat

VARIABLES
    tasks,    \* the status of every task, in the order of created_at
    others,   \* rows of the jobs table, workers with a recent heartbeat: 0 or 1
    changes,
    listing,  \* the client's: filter, limit, rows received, tasks seen, done
    answer,   \* the page on its way to it
    wanted,   \* history: what matched at its first request
    left,     \* history: a task has ceased to match since
    gauge,    \* the gauges
    swept     \* how many of them the sweep in progress has set

tableVars == <<tasks, others, changes>>
listVars == <<listing, answer, wanted, left>>
gaugeVars == <<gauge, swept>>

vars == <<accessVars, tableVars, listVars, gaugeVars>>

Matching(f) ==
    {i \in DOMAIN tasks : IF f = AnyStatus THEN tasks[i] \notin Absent ELSE tasks[i] = f}

----------------------------------------------------------------------------
(* The rest of the system *)

Changed == changes < MaxChanges /\ changes' = changes + 1

\* Store.CreateTask: of two dispatches, the later stamp may be inserted first.
StampTask ==
    /\ Changed
    /\ tasks' = Append(tasks, "new")
    /\ UNCHANGED <<accessVars, others, listVars, gaugeVars>>

InsertTask ==
    /\ \E i \in DOMAIN tasks : tasks[i] = "new" /\ tasks' = [tasks EXCEPT ![i] = "pending"]
    /\ UNCHANGED <<accessVars, others, changes, listVars, gaugeVars>>

ChangeTask ==
    /\ Changed
    /\ \E i \in DOMAIN tasks, s \in Statuses \cup {"deleted"} :
         <<tasks[i], s>> \in Moves /\ tasks' = [tasks EXCEPT ![i] = s]
    /\ UNCHANGED <<accessVars, others, listing, answer, wanted, gaugeVars>>
    /\ left' = (left \/ ~ (Matching(listing.filter) \subseteq Matching(listing.filter)'))

ChangeOther ==
    /\ Changed
    /\ \E x \in {"jobs", "workers"} : others' = [others EXCEPT ![x] = 1 - @]
    /\ UNCHANGED <<accessVars, tasks, listVars, gaugeVars>>

----------------------------------------------------------------------------
(* Listing *)

\* Mutant of Clamped: a limit out of range is no limit to start from.
ClampedToZero(l) == IF l \in 1 .. MaxLimit THEN l ELSE 0

\* getPagination
Clamped(l) == IF l \in 1 .. MaxLimit THEN l ELSE DefaultLimit

\* WHERE status = f ORDER BY created_at DESC LIMIT l OFFSET o
Page(f, l, o) ==
    {i \in Matching(f) : Cardinality({k \in Matching(f) : k > i}) \in o .. o + l - 1}

\* Its request gets through AuthMiddleware, and the handler has read the page.
RequestPage ==
    /\ Authorized /\ answer = {} /\ ~ listing.done
    /\ answer' = {Page(listing.filter, Clamped(listing.limit), listing.received)}
    /\ IF listing.received = 0
       THEN wanted' = Matching(listing.filter) /\ left' = FALSE
       ELSE UNCHANGED <<wanted, left>>
    /\ UNCHANGED <<accessVars, tableVars, listing, gaugeVars>>

ReceivePage ==
    /\ \E page \in answer :
         /\ listing.received + Cardinality(page) <= MaxReceived
         /\ listing' = [listing EXCEPT !.received = @ + Cardinality(page), !.seen = @ \cup page,
                                       !.done = (page = {})]
    /\ answer' = {}
    /\ UNCHANGED <<accessVars, tableVars, wanted, left, gaugeVars>>

----------------------------------------------------------------------------
(* Gauges *)

\* Mutant of Series: a status is missing.
SeriesPartly == <<"jobs", "workers", "pending", "running", "success", "failed", "dead_letter">>

\* What refreshMetrics reads, one statement after the other
Series ==
    <<"jobs", "workers", "pending", "running", "success", "failed", "retrying", "dead_letter">>

Gauges == {"jobs", "workers"} \cup Statuses

Count(x) == IF x \in DOMAIN others THEN others[x] ELSE Cardinality(Matching(x))

\* Mutant of SweptNext: the next sweep does not begin at the beginning.
SweptOn == swept + 1

SweptNext == (swept + 1) % Len(Series)

RefreshGauge ==
    /\ server = "up"
    /\ gauge' = [gauge EXCEPT ![Series[swept + 1]] = Count(Series[swept + 1])]
    /\ swept' = SweptNext
    /\ UNCHANGED <<accessVars, tableVars, listVars>>

Unset == [x \in Gauges |-> 0]

\* The scheduler dies with its gauges and the page it was about to send.
CrashConsole ==
    /\ Crash
    /\ gauge' = Unset /\ swept' = 0 /\ answer' = {}
    /\ UNCHANGED <<tableVars, listing, wanted, left>>

----------------------------------------------------------------------------
Init ==
    /\ AccessInit
    /\ tasks = FirstTasks /\ others = [x \in {"jobs", "workers"} |-> 1] /\ changes = 0
    /\ \E f \in Filters, l \in Limits :
         listing = [filter |-> f, limit |-> l, received |-> 0, seen |-> {}, done |-> FALSE]
    /\ answer = {} /\ wanted = {} /\ left = FALSE
    /\ gauge = Unset /\ swept = 0

AccessStep(A) == A /\ UNCHANGED <<tableVars, listVars, gaugeVars>>

Next ==
    \/ AccessStep(Start) \/ AccessStep(SeedUser) \/ AccessStep(Login) \/ AccessStep(TokenExpires)
    \/ CrashConsole
    \/ StampTask \/ InsertTask \/ ChangeTask \/ ChangeOther
    \/ RequestPage \/ ReceivePage \/ RefreshGauge

Spec == Init /\ [][Next]_vars

\* The sweeps come round.  Nothing is assumed of somebody starting the scheduler.
FairSpec == Spec /\ WF_vars(RefreshGauge)

----------------------------------------------------------------------------
(* Properties *)

TypeOK ==
    /\ AccessTypeOK
    /\ tasks \in Seq(Statuses \cup Absent) /\ changes \in 0 .. MaxChanges
    /\ others \in [{"jobs", "workers"} -> 0 .. 1]
    /\ listing \in [filter : Filters, limit : Limits, received : 0 .. MaxReceived,
                    seen : SUBSET DOMAIN tasks, done : BOOLEAN]
    /\ answer \subseteq SUBSET DOMAIN tasks /\ wanted \subseteq DOMAIN tasks /\ left \in BOOLEAN
    /\ gauge \in [Gauges -> Nat] /\ swept \in 0 .. Len(Series) - 1

\* A scheduler that listens knows the administrator, wherever a crash has cut the
\* seeding short: it is not repeated once there is a user.
AdminCanLogIn == server = "up" => "admin" \in users

\* Paging by rows received misses nothing that matched all the time: not when
\* tasks are inserted meanwhile, late ones or deleted ones that a report brings
\* back among them, nor when others begin to match, when the server cuts the
\* limit, a page is lost in a crash or the token expires between two pages.  A
\* task that ceases to match in between can hide another.
ListingComplete == listing.done /\ ~ left => wanted \subseteq listing.seen

\* When the tables are quiet, the gauges are what they count, after a restart as
\* well.
GaugesCatchUp == <>[](server = "up" => \A x \in Gauges : gauge[x] = Count(x))
=============================================================================
