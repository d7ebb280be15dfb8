---------------------------- MODULE JobRegistry ----------------------------
(***************************************************************************)
(* Jobs and their cron entries: the table `jobs`, the handlers that create,*)
(* update and delete a job (internal/api/server.go), and the scheduler's   *)
(* jobEntries with the cron entries they point to (loadAllJobs,            *)
(* registerJob and ReloadJob of internal/scheduler/scheduler.go).          *)
(*                                                                         *)
(* jobEntries and the cron library's table change together under one       *)
(* mutex: entries[j] are the cron entries added for j that still fire.     *)
(* loadAllJobs runs beside the HTTP server: it lists the jobs once and then*)
(* registers them one by one, and requests come in between.                *)
(***************************************************************************)
EXTENDS Integers, FiniteSets

CONSTANTS
    Jobs,        \* job ids
    Crons,       \* cron expressions
    BadCrons,    \* those that cron.AddFunc rejects; validateJob does not
    None,        \* no row
    MaxVersion,  \* bound: updates of one job
    MaxRequests  \* bound: requests in flight at the same time

ASSUME RegistryAssumption ==
    /\ BadCrons \subseteq Crons
    /\ MaxVersion \in Nat /\ MaxRequests \in Nat

VARIABLES
    row,       \* the jobs table
    entries,   \* the cron entries that fire for each job
    requests,  \* create, update and delete requests being served
    started,   \* loadAllJobs has listed the jobs
    listed,    \* the rows it has listed and not registered yet
    loopVar,   \* the id in its loop variable
    raced      \* history: jobs two of them served together, and none alone since

loaderVars == <<started, listed, loopVar>>

vars == <<row, entries, requests, loaderVars, raced>>

JobRow == [enabled: BOOLEAN, cron: Crons, version: 0 .. MaxVersion]

\* "request": the closure of the entry points to the row that ReloadJob returned;
\* "loader": to the loop variable of loadAllJobs.
Entry == [cron: Crons, by: {"request", "loader"}]

\* Where a request is: it has read the version ("read"), has written its row
\* and must reload ("written"), or holds the row ReloadJob has read ("loaded").
\* seen is the version on the client's screen when it sent the update.
Request == [job: Jobs, step: {"received", "read", "written", "loaded"},
            enabled: BOOLEAN, cron: Crons, seen: 0 .. MaxVersion,
            version: 0 .. MaxVersion, copy: JobRow \cup {None}]

TypeOK ==
    /\ row \in [Jobs -> JobRow \cup {None}]
    /\ entries \in [Jobs -> SUBSET Entry]
    /\ requests \subseteq Request
    /\ started \in BOOLEAN /\ loopVar \in Jobs \cup {None}
    /\ listed \in [Jobs -> {r \in JobRow : r.enabled} \cup {None}]
    /\ raced \subseteq Jobs

Present == {j \in Jobs : row[j] # None}

Init ==
    /\ row = [j \in Jobs |-> None]
    /\ entries = [j \in Jobs |-> {}]
    /\ requests = {} /\ raced = {}
    /\ started = FALSE /\ listed = [j \in Jobs |-> None] /\ loopVar = None

Move(q, S) == requests' = (requests \ {q}) \cup S

----------------------------------------------------------------------------
(* registerJob, under the scheduler's mutex: the old entry goes, a new one *)
(* comes if the job is enabled and its expression parses.                  *)

\* Mutant of Registered: the old entry is not removed.
RegisteredBeside(old, r, by) ==
    IF r.enabled /\ r.cron \notin BadCrons
    THEN old \cup {[cron |-> r.cron, by |-> by]} ELSE {}

\* The entries of a job that had the entries `old`, with row r.
Registered(old, r, by) ==
    IF r.enabled /\ r.cron \notin BadCrons THEN {[cron |-> r.cron, by |-> by]} ELSE {}

\* ReloadJob is GetJob, then registerJob with the row it returned.
LoadJob(q) ==
    /\ q \in requests /\ q.step = "written"
    /\ IF row[q.job] = None THEN Move(q, {})
       ELSE Move(q, {[q EXCEPT !.step = "loaded", !.copy = row[q.job]]})
    /\ UNCHANGED <<row, entries, loaderVars, raced>>

RegisterJob(q) ==
    /\ q \in requests /\ q.step = "loaded"
    /\ entries' = [entries EXCEPT ![q.job] = Registered(@, q.copy, "request")]
    /\ Move(q, {})
    /\ UNCHANGED <<row, loaderVars, raced>>

----------------------------------------------------------------------------
(* The handlers *)

Busy(j) == \E q \in requests : q.job = j

Accept(q) ==
    /\ Cardinality(requests) < MaxRequests /\ q \notin requests
    /\ requests' = requests \cup {q}
    /\ raced' = IF Busy(q.job) \/ listed[q.job] # None
                THEN raced \cup {q.job} ELSE raced \ {q.job}

\* handleCreateJob.  The column default (true) replaces an `enabled` of false.
CreateJob(j, c) ==
    /\ row[j] = None
    /\ row' = [row EXCEPT ![j] = [enabled |-> TRUE, cron |-> c, version |-> 0]]
    /\ Accept([job |-> j, step |-> "written", enabled |-> TRUE, cron |-> c, seen |-> 0,
               version |-> 0, copy |-> None])
    /\ UNCHANGED <<entries, loaderVars>>

\* handleUpdateJob is sent with the version the client has seen, some time ago,
\* and begins with GetJob, whose version it takes in place of the client's.
SendUpdate(j, e, c, seen) ==
    /\ row[j] # None /\ seen <= row[j].version
    /\ Accept([job |-> j, step |-> "received", enabled |-> e, cron |-> c, seen |-> seen,
               version |-> 0, copy |-> None])
    /\ UNCHANGED <<row, entries, loaderVars>>

ReadVersion(q) ==
    /\ q \in requests /\ q.step = "received"
    /\ IF row[q.job] = None THEN Move(q, {})
       ELSE Move(q, {[q EXCEPT !.step = "read", !.version = row[q.job].version]})
    /\ UNCHANGED <<row, entries, loaderVars, raced>>

\* UpdateJob: ... WHERE id = ? AND version = ?
SameVersion(q) == row[q.job] # None /\ row[q.job].version = q.version

UpdateJob(q) ==
    /\ q \in requests /\ q.step = "read"
    /\ \/ /\ SameVersion(q) /\ q.version < MaxVersion
          /\ row' = [row EXCEPT ![q.job] = [enabled |-> q.enabled, cron |-> q.cron,
                                            version |-> q.version + 1]]
          /\ Move(q, {[q EXCEPT !.step = "written"]})
       \/ /\ ~ SameVersion(q)
          /\ Move(q, {}) /\ UNCHANGED row
    /\ UNCHANGED <<entries, loaderVars, raced>>

\* handleDeleteJob: its ReloadJob finds no row and so leaves the entry.
DeleteJob(j) ==
    /\ row[j] # None
    /\ row' = [row EXCEPT ![j] = None]
    /\ Accept([job |-> j, step |-> "written", enabled |-> FALSE, cron |-> row[j].cron,
               seen |-> 0, version |-> 0, copy |-> None])
    /\ UNCHANGED <<entries, loaderVars>>

----------------------------------------------------------------------------
(* The scheduler starts: requests in flight and entries are gone, and      *)
(* loadAllJobs begins, in a goroutine beside the HTTP server.              *)

Restart ==
    /\ entries' = [j \in Jobs |-> {}] /\ requests' = {} /\ raced' = {}
    /\ started' = FALSE /\ listed' = [j \in Jobs |-> None] /\ loopVar' = None
    /\ UNCHANGED row

\* Mutant of Enabled: ... without WHERE enabled = true.
EnabledOrNot == Present

Enabled == {j \in Present : row[j].enabled}

ListEnabledJobs ==
    /\ ~ started /\ started' = TRUE
    /\ listed' = [j \in Jobs |-> IF j \in Enabled THEN row[j] ELSE None]
    /\ raced' = (raced \ Enabled) \cup {j \in Enabled : Busy(j)}
    /\ UNCHANGED <<row, entries, requests, loopVar>>

\* An iteration of its loop; the order of the list is left open.  registerJob
\* gets the address of the loop variable, which under the go 1.21 of go.mod is
\* one variable for all iterations.
LoadListed(j) ==
    /\ listed[j] # None
    /\ listed' = [listed EXCEPT ![j] = None] /\ loopVar' = j
    /\ entries' = [entries EXCEPT ![j] = Registered(@, listed[j], "loader")]
    /\ UNCHANGED <<row, requests, started, raced>>

Loading(j) == ~ started \/ listed[j] # None

----------------------------------------------------------------------------
Serve(q) == LoadJob(q) \/ RegisterJob(q) \/ ReadVersion(q) \/ UpdateJob(q)

Next ==
    \/ \E j \in Jobs, c \in Crons : CreateJob(j, c)
    \/ \E j \in Jobs, e \in BOOLEAN, c \in Crons, seen \in 0 .. MaxVersion :
         SendUpdate(j, e, c, seen)
    \/ \E j \in Jobs : DeleteJob(j)
    \/ \E q \in requests : Serve(q)
    \/ Restart \/ ListEnabledJobs
    \/ \E j \in Jobs : LoadListed(j)

Spec == Init /\ [][Next]_vars

----------------------------------------------------------------------------
(* Properties *)

\* Once loadAllJobs is past a job and the requests on it are served, exactly the
\* cron entry its row asks for fires for it: no second one, none with an
\* expression of the past, not the one a deleted job of the same id left behind.
\* Requests that overlapped, or met loadAllJobs between the list and the job's
\* registration, may break this; the next request served alone, or the next list
\* that meets none, repairs it.
EntryMatchesRow ==
    \A j \in Present \ raced : ~ Busy(j) /\ ~ Loading(j) =>
      {e.cron : e \in entries[j]} =
        IF row[j].enabled THEN {row[j].cron} \ BadCrons ELSE {}

\* "version conflict, please refresh and try again": an update made on a copy
\* of the job that is out of date is refused.
StaleUpdateRefused ==
    [][\A q \in requests : q.step = "read" /\ row'[q.job] # row[q.job]
                             /\ [q EXCEPT !.step = "written"] \in requests'
                           => q.seen = row[q.job].version]_vars

\* "job registered": the entry registered under a job dispatches that job.  Cron
\* starts to fire when loadAllJobs is done; then a closure reads the id.
EntryDispatchesOwnJob ==
    \A j \in Jobs : (\A i \in Jobs : ~ Loading(i)) =>
      \A e \in entries[j] : e.by = "loader" => loopVar = j
=============================================================================
