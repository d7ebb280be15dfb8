--------------------------- MODULE RegistryProofs ---------------------------
(***************************************************************************)
(* Proofs about JobRegistry, for any jobs and expressions and any number   *)
(* of updates and of requests in flight.                                   *)
(***************************************************************************)
EXTENDS JobRegistry, TLAPS

USE RegistryAssumption

----------------------------------------------------------------------------
(* What a request that is alone on its job knows *)

RequestsOn(j) == {q \in requests : q.job = j}

Alone(j) == \A q, r \in RequestsOn(j) : q = r

\* The entries of j are those its row asks for.
Matches(j) ==
    {e.cron : e \in entries[j]} = IF row[j].enabled THEN {row[j].cron} \ BadCrons ELSE {}

\* Its own write is the only one since its read: the version it has read is the
\* row's, and the row ReloadJob has loaded is the row.
Informed(q) ==
    /\ q.step = "received" => row[q.job] # None
    /\ q.step = "read" => SameVersion(q)
    /\ q.step = "loaded" => q.copy = row[q.job]

\* loadAllJobs has still to come to it.
ToLoad(j) == listed[j] # None \/ (~ started /\ row[j].enabled)

LoadedRows == \A q \in requests : q.step = "loaded" => q.copy \in JobRow

ServedWell ==
    \A j \in Jobs \ raced :
      /\ Alone(j)
      /\ \A q \in RequestsOn(j) : Informed(q)
      /\ listed[j] # None => ~ Busy(j) /\ listed[j] = row[j]
      /\ Busy(j) \/ row[j] = None \/ Matches(j) \/ ToLoad(j)

RegistryInv == TypeOK /\ LoadedRows /\ ServedWell

----------------------------------------------------------------------------
(* Types *)

LEMMA RegistryInit == Init => RegistryInv
BY DEF Init, RegistryInv, TypeOK, LoadedRows, ToLoad, ServedWell, Alone, RequestsOn, Busy

\* What registerJob leaves is entries, with the expression that the row asks for.
LEMMA RegisteredEntries ==
    ASSUME NEW old, NEW r \in JobRow, NEW by \in {"request", "loader"}
    PROVE  /\ Registered(old, r, by) \in SUBSET Entry
           /\ {e.cron : e \in Registered(old, r, by)}
                = IF r.enabled THEN {r.cron} \ BadCrons ELSE {}
<1>1. r.enabled \in BOOLEAN /\ r.cron \in Crons
  BY DEF JobRow
<1>2. CASE r.enabled /\ r.cron \notin BadCrons
  <2> DEFINE e == [cron |-> r.cron, by |-> by]
  <2>1. Registered(old, r, by) = {e} /\ e \in Entry /\ e.cron = r.cron
    BY <1>1, <1>2 DEF Registered, Entry
  <2> HIDE DEF e
  <2>2. {x.cron : x \in {e}} = {r.cron} /\ {r.cron} \ BadCrons = {r.cron}
    BY <1>2, <2>1
  <2> QED
    BY <1>2, <2>1, <2>2
<1>3. CASE ~ (r.enabled /\ r.cron \notin BadCrons)
  <2>1. Registered(old, r, by) = {}
    BY <1>3 DEF Registered
  <2>2. r.enabled => {r.cron} \ BadCrons = {}
    BY <1>3
  <2> QED
    BY <2>1, <2>2
<1> QED
  BY <1>2, <1>3

LEMMA RegistryTypes == TypeOK /\ LoadedRows /\ [Next]_vars => TypeOK' /\ LoadedRows'
<1> SUFFICES ASSUME TypeOK, LoadedRows, [Next]_vars PROVE TypeOK' /\ LoadedRows'
  OBVIOUS
<1> USE DEF TypeOK, LoadedRows, loaderVars
<1>1. ASSUME NEW j \in Jobs, NEW c \in Crons, CreateJob(j, c) PROVE TypeOK' /\ LoadedRows'
  <2> DEFINE q == [job |-> j, step |-> "written", enabled |-> TRUE, cron |-> c, seen |-> 0,
                   version |-> 0, copy |-> None]
  <2>1. q \in Request /\ q.step = "written" /\ q.job = j
    BY DEF Request
  <2>2. Accept(q)
    BY <1>1 DEF CreateJob
  <2>3. row' \in [Jobs -> JobRow \cup {None}] /\ UNCHANGED <<entries, loaderVars>>
    BY <1>1 DEF CreateJob, JobRow
  <2> HIDE DEF q
  <2> QED
    BY <2>1, <2>2, <2>3 DEF Accept
<1>2. ASSUME NEW j \in Jobs, NEW e \in BOOLEAN, NEW c \in Crons, NEW seen \in 0 .. MaxVersion,
             SendUpdate(j, e, c, seen)
      PROVE  TypeOK' /\ LoadedRows'
  <2> DEFINE q == [job |-> j, step |-> "received", enabled |-> e, cron |-> c, seen |-> seen,
                   version |-> 0, copy |-> None]
  <2>1. q \in Request /\ q.step = "received" /\ q.job = j
    BY DEF Request
  <2>2. Accept(q) /\ UNCHANGED <<row, entries, loaderVars>>
    BY <1>2 DEF SendUpdate
  <2> HIDE DEF q
  <2> QED
    BY <2>1, <2>2 DEF Accept
<1>3. ASSUME NEW j \in Jobs, DeleteJob(j) PROVE TypeOK' /\ LoadedRows'
  <2> DEFINE q == [job |-> j, step |-> "written", enabled |-> FALSE, cron |-> row[j].cron,
                   seen |-> 0, version |-> 0, copy |-> None]
  <2>1. q \in Request /\ q.step = "written" /\ q.job = j
    BY <1>3 DEF DeleteJob, Request, JobRow
  <2>2. /\ Accept(q) /\ row' \in [Jobs -> JobRow \cup {None}]
        /\ UNCHANGED <<entries, loaderVars>>
    BY <1>3 DEF DeleteJob
  <2> HIDE DEF q
  <2> QED
    BY <2>1, <2>2 DEF Accept
<1>4. ASSUME NEW q \in requests, LoadJob(q) PROVE TypeOK' /\ LoadedRows'
  <2> DEFINE l == [q EXCEPT !.step = "loaded", !.copy = row[q.job]]
  <2>1. row[q.job] # None => l \in Request /\ l.copy \in JobRow
    BY DEF Request
  <2>2. requests' \subseteq requests \/ (row[q.job] # None /\ requests' = (requests \ {q}) \cup {l})
    BY <1>4 DEF LoadJob, Move
  <2> HIDE DEF l
  <2> QED
    BY <1>4, <2>1, <2>2 DEF LoadJob
<1>5. ASSUME NEW q \in requests, RegisterJob(q) PROVE TypeOK' /\ LoadedRows'
  <2>1. q.copy \in JobRow /\ q.job \in Jobs
    BY <1>5 DEF RegisterJob, Request
  <2>2. Registered(entries[q.job], q.copy, "request") \in SUBSET Entry
    BY <2>1, RegisteredEntries
  <2> QED
    BY <1>5, <2>2 DEF RegisterJob, Move
<1>6. ASSUME NEW q \in requests, ReadVersion(q) PROVE TypeOK' /\ LoadedRows'
  <2>1. \A n \in 0 .. MaxVersion : LET r == [q EXCEPT !.step = "read", !.version = n]
                                   IN  r \in Request /\ r.step = "read"
    BY DEF Request
  <2>2. row[q.job] # None => row[q.job].version \in 0 .. MaxVersion
    BY DEF Request, JobRow
  <2> QED
    BY <1>6, <2>1, <2>2 DEF ReadVersion, Move
<1>7. ASSUME NEW q \in requests, UpdateJob(q) PROVE TypeOK' /\ LoadedRows'
  BY <1>7 DEF UpdateJob, Move, Request, JobRow
<1>8. CASE Restart
  BY <1>8 DEF Restart
<1>9. CASE ListEnabledJobs
  <2>1. \A j \in Enabled : row[j] \in JobRow /\ row[j].enabled
    BY DEF Enabled, Present
  <2> QED
    BY <1>9, <2>1 DEF ListEnabledJobs, Enabled, Present
<1>10. ASSUME NEW j \in Jobs, LoadListed(j) PROVE TypeOK' /\ LoadedRows'
  <2>1. Registered(entries[j], listed[j], "loader") \in SUBSET Entry
    BY <1>10, RegisteredEntries DEF LoadListed
  <2> QED
    BY <1>10, <2>1 DEF LoadListed
<1> QED
  BY <1>1, <1>2, <1>3, <1>4, <1>5, <1>6, <1>7, <1>8, <1>9, <1>10 DEF Next, Serve, vars

----------------------------------------------------------------------------
(* The entries of a job *)

\* A request that arrives finds the job busy, and the two race, or serves it alone.
LEMMA AcceptedAlone ==
    ASSUME RegistryInv, NEW q, q.job \in Jobs, Accept(q), UNCHANGED <<entries, loaderVars>>,
           \A i \in Jobs \ {q.job} : row'[i] = row[i],
           Informed(q)'
    PROVE  ServedWell'
<1>1. SUFFICES ASSUME NEW j \in Jobs, j \notin raced'
               PROVE  /\ Alone(j)'
                      /\ \A r \in RequestsOn(j)' : Informed(r)'
                      /\ listed'[j] # None => ~ Busy(j)' /\ listed'[j] = row'[j]
                      /\ Busy(j)' \/ row'[j] = None \/ Matches(j)' \/ ToLoad(j)'
  BY DEF ServedWell
<1>2. requests' = requests \cup {q} /\ (\A r \in requests : r.job \in Jobs)
  BY DEF Accept, RegistryInv, TypeOK, Request
<1>3. CASE j = q.job
  <2>1. RequestsOn(j)' = {q} /\ Busy(j)' /\ listed'[j] = None
    BY <1>1, <1>2, <1>3 DEF Accept, Busy, RequestsOn, loaderVars
  <2> QED
    BY <2>1 DEF Alone
<1>4. CASE j # q.job
  <2>1. j \notin raced /\ row'[j] = row[j]
    BY <1>1, <1>4 DEF Accept
  <2>2. RequestsOn(j)' = RequestsOn(j) /\ (Busy(j)' <=> Busy(j))
    BY <1>2, <1>4 DEF RequestsOn, Busy
  <2>3. \A r \in RequestsOn(j) : Informed(r) => Informed(r)'
    BY <2>1 DEF RequestsOn, Informed, SameVersion
  <2>4. (Matches(j)' <=> Matches(j)) /\ (ToLoad(j)' <=> ToLoad(j)) /\ listed' = listed
    BY <2>1 DEF Matches, ToLoad, loaderVars
  <2> QED
    BY <2>1, <2>2, <2>3, <2>4 DEF RegistryInv, ServedWell, Alone
<1> QED
  BY <1>3, <1>4

\* A step of a request concerns its own job alone.
LEMMA ServedAlone ==
    ASSUME RegistryInv, NEW q \in requests, NEW S, Move(q, S), \A r \in S : r.job = q.job,
           UNCHANGED <<raced, loaderVars>>,
           \A i \in Jobs \ {q.job} : row'[i] = row[i] /\ entries'[i] = entries[i],
           q.job \notin raced =>
             /\ \A r, s \in S : r = s
             /\ \A r \in S : Informed(r)'
             /\ S # {} \/ row'[q.job] = None \/ Matches(q.job)'
    PROVE  ServedWell'
<1>1. SUFFICES ASSUME NEW j \in Jobs, j \notin raced'
               PROVE  /\ Alone(j)'
                      /\ \A r \in RequestsOn(j)' : Informed(r)'
                      /\ listed'[j] # None => ~ Busy(j)' /\ listed'[j] = row'[j]
                      /\ Busy(j)' \/ row'[j] = None \/ Matches(j)' \/ ToLoad(j)'
  BY DEF ServedWell
<1>2. requests' = (requests \ {q}) \cup S /\ j \notin raced
  BY <1>1 DEF Move
<1>3. CASE j = q.job
  <2>1. RequestsOn(j)' = S
    BY <1>2, <1>3 DEF RegistryInv, ServedWell, Alone, RequestsOn
  <2>2. listed'[j] = None
    BY <1>2, <1>3 DEF RegistryInv, ServedWell, Busy, loaderVars
  <2> QED
    BY <1>2, <1>3, <2>1, <2>2 DEF Alone, Busy, RequestsOn
<1>4. CASE j # q.job
  <2>1. RequestsOn(j)' = RequestsOn(j) /\ (Busy(j)' <=> Busy(j))
    BY <1>2, <1>4 DEF RequestsOn, Busy
  <2>2. \A r \in RequestsOn(j) : Informed(r) => Informed(r)'
    BY <1>4 DEF RequestsOn, Informed, SameVersion
  <2>3. (Matches(j)' <=> Matches(j)) /\ (ToLoad(j)' <=> ToLoad(j)) /\ listed' = listed
    BY <1>4 DEF Matches, ToLoad, loaderVars
  <2> QED
    BY <1>2, <1>4, <2>1, <2>2, <2>3 DEF RegistryInv, ServedWell, Alone
<1> QED
  BY <1>3, <1>4

LEMMA RegistryStep == RegistryInv /\ [Next]_vars => RegistryInv'
<1> SUFFICES ASSUME RegistryInv, [Next]_vars PROVE ServedWell'
  BY RegistryTypes DEF RegistryInv
<1> USE DEF RegistryInv
<1>1. ASSUME NEW j \in Jobs, NEW c \in Crons, CreateJob(j, c) PROVE ServedWell'
  <2> DEFINE q == [job |-> j, step |-> "written", enabled |-> TRUE, cron |-> c, seen |-> 0,
                   version |-> 0, copy |-> None]
  <2>1. q.step = "written" /\ q.job = j
    OBVIOUS
  <2>2. Accept(q) /\ UNCHANGED <<entries, loaderVars>> /\ \A i \in Jobs \ {j} : row'[i] = row[i]
    BY <1>1 DEF CreateJob, TypeOK
  <2> HIDE DEF q
  <2>3. Informed(q)'
    BY <2>1 DEF Informed
  <2> QED
    BY <2>1, <2>2, <2>3, AcceptedAlone
<1>2. ASSUME NEW j \in Jobs, NEW e \in BOOLEAN, NEW c \in Crons, NEW seen \in 0 .. MaxVersion,
             SendUpdate(j, e, c, seen)
      PROVE  ServedWell'
  <2> DEFINE q == [job |-> j, step |-> "received", enabled |-> e, cron |-> c, seen |-> seen,
                   version |-> 0, copy |-> None]
  <2>1. q.step = "received" /\ q.job = j
    OBVIOUS
  <2>2. Accept(q) /\ UNCHANGED <<row, entries, loaderVars>> /\ row[j] # None
    BY <1>2 DEF SendUpdate
  <2> HIDE DEF q
  <2>3. Informed(q)'
    BY <2>1, <2>2 DEF Informed
  <2> QED
    BY <2>1, <2>2, <2>3, AcceptedAlone
<1>3. ASSUME NEW j \in Jobs, DeleteJob(j) PROVE ServedWell'
  <2>1. PICK q : /\ q.step = "written" /\ q.job = j /\ Accept(q)
                 /\ UNCHANGED <<entries, loaderVars>> /\ \A i \in Jobs \ {j} : row'[i] = row[i]
    BY <1>3 DEF DeleteJob, TypeOK
  <2>2. Informed(q)'
    BY <2>1 DEF Informed
  <2> QED
    BY <2>1, <2>2, AcceptedAlone
<1>4. ASSUME NEW q \in requests, Serve(q) PROVE ServedWell'
  <2>1. q \in Request /\ q.job \in Jobs
    BY DEF TypeOK, Request
  <2>2. q.job \notin raced => Informed(q) /\ q \in RequestsOn(q.job)
    BY <2>1 DEF ServedWell, RequestsOn
  <2>3. CASE LoadJob(q)
    <3>1. CASE row[q.job] = None
      BY <2>3, <3>1, ServedAlone DEF LoadJob
    <3>2. CASE row[q.job] # None
      <4>1. PICK r : r = [q EXCEPT !.step = "loaded", !.copy = row[q.job]]
        OBVIOUS
      <4>2. r.job = q.job /\ r.step = "loaded" /\ r.copy = row[q.job]
        BY <2>1, <4>1 DEF Request
      <4>3. Move(q, {r}) /\ UNCHANGED <<row, entries, loaderVars, raced>>
        BY <2>3, <3>2, <4>1 DEF LoadJob
      <4>4. Informed(r)'
        BY <4>2, <4>3 DEF Informed
      <4> QED
        BY <4>2, <4>3, <4>4, ServedAlone
    <3> QED
      BY <3>1, <3>2
  <2>4. CASE RegisterJob(q)
    <3>1. /\ Move(q, {}) /\ UNCHANGED <<row, loaderVars, raced>> /\ q.step = "loaded"
          /\ entries' = [entries EXCEPT ![q.job] = Registered(entries[q.job], q.copy, "request")]
      BY <2>4 DEF RegisterJob
    <3>2. q.job \notin raced => Matches(q.job)'
      <4>1. q.copy \in JobRow
        BY <3>1 DEF LoadedRows
      <4>2. q.job \notin raced => q.copy = row[q.job]
        BY <2>2, <3>1 DEF Informed
      <4>3. entries'[q.job] = Registered(entries[q.job], q.copy, "request")
        BY <2>1, <3>1 DEF TypeOK
      <4>4. {e.cron : e \in entries'[q.job]}
              = IF q.copy.enabled THEN {q.copy.cron} \ BadCrons ELSE {}
        BY <2>1, <4>1, <4>3, RegisteredEntries
      <4> QED
        BY <3>1, <4>2, <4>4 DEF Matches
    <3> QED
      BY <3>1, <3>2, ServedAlone DEF TypeOK
  <2>5. CASE ReadVersion(q)
    <3>1. CASE row[q.job] = None
      BY <2>5, <3>1, ServedAlone DEF ReadVersion
    <3>2. CASE row[q.job] # None
      <4>1. PICK r : r = [q EXCEPT !.step = "read", !.version = row[q.job].version]
        OBVIOUS
      <4>2. r.job = q.job /\ r.step = "read" /\ r.version = row[q.job].version
        BY <2>1, <4>1 DEF Request
      <4>3. Move(q, {r}) /\ UNCHANGED <<row, entries, loaderVars, raced>>
        BY <2>5, <3>2, <4>1 DEF ReadVersion
      <4>4. Informed(r)'
        BY <3>2, <4>2, <4>3 DEF Informed, SameVersion
      <4> QED
        BY <4>2, <4>3, <4>4, ServedAlone
    <3> QED
      BY <3>1, <3>2
  <2>6. CASE UpdateJob(q)
    <3>1. CASE SameVersion(q)
      <4>1. PICK r : r = [q EXCEPT !.step = "written"]
        OBVIOUS
      <4>2. r.job = q.job /\ r.step = "written"
        BY <2>1, <4>1 DEF Request
      <4>3. /\ Move(q, {r}) /\ UNCHANGED <<entries, loaderVars, raced>>
            /\ \A i \in Jobs \ {q.job} : row'[i] = row[i]
        BY <2>6, <3>1, <4>1 DEF UpdateJob, TypeOK
      <4>4. Informed(r)'
        BY <4>2 DEF Informed
      <4> QED
        BY <4>2, <4>3, <4>4, ServedAlone
    <3>2. CASE ~ SameVersion(q)
      <4>1. q.job \in raced
        BY <2>2, <2>6, <3>2 DEF UpdateJob, Informed
      <4> QED
        BY <2>6, <3>2, <4>1, ServedAlone DEF UpdateJob
    <3> QED
      BY <3>1, <3>2
  <2> QED
    BY <1>4, <2>3, <2>4, <2>5, <2>6 DEF Serve
<1>5. CASE Restart
  <2>1. requests' = {} /\ row' = row /\ started' = FALSE /\ \A j \in Jobs : listed'[j] = None
    BY <1>5 DEF Restart
  <2>2. ASSUME NEW j \in Jobs, row[j] # None PROVE Matches(j)' \/ ToLoad(j)'
    <3>1. row[j].enabled \in BOOLEAN /\ entries'[j] = {}
      BY <1>5, <2>2 DEF Restart, TypeOK, JobRow
    <3> QED
      BY <2>1, <3>1 DEF Matches, ToLoad
  <2> QED
    BY <2>1, <2>2 DEF ServedWell, Alone, RequestsOn, Busy
<1>6. CASE UNCHANGED vars
  BY <1>6 DEF vars, loaderVars, ServedWell, Alone, RequestsOn, Informed, SameVersion, Busy, Matches,
    ToLoad
<1>7. CASE ListEnabledJobs
  <2>1. SUFFICES ASSUME NEW j \in Jobs, j \notin raced'
                 PROVE  /\ Alone(j)'
                        /\ \A r \in RequestsOn(j)' : Informed(r)'
                        /\ listed'[j] # None => ~ Busy(j)' /\ listed'[j] = row'[j]
                        /\ Busy(j)' \/ row'[j] = None \/ Matches(j)' \/ ToLoad(j)'
    BY DEF ServedWell
  <2>2. /\ UNCHANGED <<row, entries, requests>> /\ (Busy(j)' <=> Busy(j))
        /\ listed'[j] = IF j \in Enabled THEN row[j] ELSE None
    BY <1>7 DEF ListEnabledJobs, Busy
  <2>3. CASE j \in Enabled
    <3>1. ~ Busy(j) /\ row[j] # None
      BY <1>7, <2>1, <2>3 DEF ListEnabledJobs, Enabled, Present
    <3> QED
      BY <2>2, <2>3, <3>1 DEF Busy, RequestsOn, Alone, ToLoad
  <2>4. CASE j \notin Enabled
    <3>1. j \notin raced /\ (row[j] # None => ~ row[j].enabled)
      BY <1>7, <2>1, <2>4 DEF ListEnabledJobs, Enabled, Present
    <3>2. listed[j] # None => listed[j] = row[j] /\ listed[j].enabled
      BY <3>1 DEF ServedWell, TypeOK
    <3>3. row[j] = None \/ ~ ToLoad(j)
      BY <3>1, <3>2 DEF ToLoad
    <3>4. /\ Alone(j)' <=> Alone(j)
          /\ RequestsOn(j)' = RequestsOn(j) /\ \A r \in RequestsOn(j) : Informed(r)' <=> Informed(r)
          /\ Matches(j)' <=> Matches(j)
      BY <2>2 DEF Alone, RequestsOn, Informed, SameVersion, Matches
    <3> QED
      BY <2>2, <2>4, <3>1, <3>3, <3>4 DEF ServedWell
  <2> QED
    BY <2>3, <2>4
<1>8. ASSUME NEW j \in Jobs, LoadListed(j) PROVE ServedWell'
  <2>1. /\ UNCHANGED <<row, requests, started, raced>> /\ listed[j] # None
        /\ entries'[j] = Registered(entries[j], listed[j], "loader") /\ listed'[j] = None
        /\ \A i \in Jobs \ {j} : entries'[i] = entries[i] /\ listed'[i] = listed[i]
    BY <1>8 DEF LoadListed, TypeOK
  <2>2. /\ \A i \in Jobs : /\ (Alone(i)' <=> Alone(i)) /\ (Busy(i)' <=> Busy(i))
                          /\ RequestsOn(i)' = RequestsOn(i)
                          /\ \A r \in RequestsOn(i) : Informed(r)' <=> Informed(r)
        /\ \A i \in Jobs \ {j} : (Matches(i)' <=> Matches(i)) /\ (ToLoad(i)' <=> ToLoad(i))
    BY <2>1 DEF Alone, Busy, RequestsOn, Informed, SameVersion, Matches, ToLoad
  <2>3. j \notin raced => Matches(j)'
    <3>1. listed[j] \in JobRow
      BY <2>1 DEF TypeOK
    <3>2. {e.cron : e \in entries'[j]}
            = IF listed[j].enabled THEN {listed[j].cron} \ BadCrons ELSE {}
      BY <2>1, <3>1, RegisteredEntries
    <3> QED
      BY <2>1, <3>2 DEF Matches, ServedWell
  <2> QED
    BY <2>1, <2>2, <2>3 DEF ServedWell
<1> QED
  BY <1>1, <1>2, <1>3, <1>4, <1>5, <1>6, <1>7, <1>8 DEF Next

----------------------------------------------------------------------------
(* Theorems *)

\* Every variable of the registry keeps to its type (TypeOK).
THEOREM RegistryTyped == Spec => []TypeOK
<1>1. RegistryInv => TypeOK
  BY DEF RegistryInv
<1> QED
  BY <1>1, RegistryInit, RegistryStep, PTL DEF Spec

\* When loadAllJobs is past a job and its requests are served, the last of them alone
\* with the job, the cron entry that fires is the one its row asks for
\* (EntryMatchesRow), however requests and loadAllJobs interleave.
THEOREM EntriesMatch == Spec => []EntryMatchesRow
<1>1. RegistryInv => EntryMatchesRow
  BY DEF RegistryInv, ServedWell, Matches, EntryMatchesRow, Present, Loading, ToLoad
<1> QED
  BY <1>1, RegistryInit, RegistryStep, PTL DEF Spec
=============================================================================
