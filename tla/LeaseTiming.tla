---------------------------- MODULE LeaseTiming ----------------------------
(***************************************************************************)
(* One worker's lease renewals against the clock: leaseRenewLoop and the   *)
(* slots of Start (internal/worker/worker.go) with the expiry that         *)
(* LeaseTask and RenewLease write (internal/storage/storage.go).  Cluster  *)
(* takes a lease that expires under a worker that renews it for a          *)
(* disruption; this module says for which durations it cannot happen.      *)
(*                                                                         *)
(* Time is counted in units of any length.  The renewal loop sends one     *)
(* request after the other, in the order of a map iteration; a tick of its *)
(* ticker that comes meanwhile is kept (the channel holds one), further    *)
(* ones are dropped.                                                       *)
(***************************************************************************)
EXTENDS Integers, FiniteSets

CONSTANTS
    Slots,    \* the slots of the semaphore, one execution each
    TTL,      \* LEASE_TTL_SECONDS
    Period,   \* of leaseRenewLoop's ticker
    Latency,  \* how long a request may take, the client's timeout at most
    MaxLost   \* bound: renewals of one execution that fail in a row

VARIABLES
    slot,     \* "free", "answering" (leased, the answer is on its way), "executing"
    lease,    \* time to the lease_expire_at of the slot's task
    lost,     \* renewals of the slot's task that failed since the last success
    ticker,   \* time to the next tick
    fired,    \* a tick is waiting in the ticker's channel
    sending,  \* the loop is in a round, a request is in flight
    target,   \* the slot that this request has still to renew, as a set
    elapsed,  \* time since it was sent
    round,    \* slots whose renewals follow in this round
    ended     \* renewals in this round for tasks that have ended since

loopVars == <<ticker, fired, sending, target, elapsed, round, ended>>

vars == <<slot, lease, lost, loopVars>>

Larger(a, b) == IF a > b THEN a ELSE b

Capacity == Cardinality(Slots)

\* The longest round, the longest time between the starts of two rounds, and
\* the longest time from a grant or a renewal to the next renewal.
Round == Capacity * Latency
Cycle == Larger(Period, Round)
Gap == Larger(Period + Latency, Round) + MaxLost * Cycle + Round

ASSUME TimingAssumption ==
    /\ IsFiniteSet(Slots) /\ Slots # {}
    /\ Period \in Nat \ {0} /\ Latency \in Nat /\ MaxLost \in Nat
    /\ TTL \in Nat /\ TTL > Gap

TypeOK ==
    /\ slot \in [Slots -> {"free", "answering", "executing"}]
    /\ lease \in [Slots -> 0 .. TTL]
    /\ lost \in [Slots -> 0 .. MaxLost]
    /\ ticker \in 1 .. Period /\ fired \in BOOLEAN /\ sending \in BOOLEAN
    /\ target \in SUBSET Slots /\ elapsed \in 0 .. Latency
    /\ round \in SUBSET Slots /\ ended \in 0 .. Capacity

Executing == {s \in Slots : slot[s] = "executing"}
Answering == {s \in Slots : slot[s] = "answering"}

Init ==
    /\ slot = [s \in Slots |-> "free"]
    /\ lease = [s \in Slots |-> 0] /\ lost = [s \in Slots |-> 0]
    /\ ticker = Period /\ fired = FALSE
    /\ sending = FALSE /\ target = {} /\ elapsed = 0 /\ round = {} /\ ended = 0

----------------------------------------------------------------------------
(* Slots: Start polls for one task at a time *)

\* lease_expire_at is the time of the statement plus the TTL.
FullLease == TTL

Lease(s) ==
    /\ slot[s] = "free" /\ Answering = {}
    /\ slot' = [slot EXCEPT ![s] = "answering"]
    /\ lease' = [lease EXCEPT ![s] = FullLease]
    /\ lost' = [lost EXCEPT ![s] = 0]
    /\ UNCHANGED loopVars

\* Mutant of Register: the loop ranges over runningTasks and not over a copy.
RegisterInRound(s) ==
    /\ slot[s] = "answering"
    /\ slot' = [slot EXCEPT ![s] = "executing"]
    /\ round' = IF sending THEN round \cup {s} ELSE round
    /\ UNCHANGED <<lease, lost, ticker, fired, sending, target, elapsed, ended>>

\* The answer comes: registerRunningTask
Register(s) ==
    /\ slot[s] = "answering"
    /\ slot' = [slot EXCEPT ![s] = "executing"]
    /\ UNCHANGED <<lease, lost, loopVars>>

\* The execution is over, or the answer never comes.  What the round still has
\* to do for the task takes its time and has no effect.
Vacate(s) ==
    /\ slot[s] # "free"
    /\ slot' = [slot EXCEPT ![s] = "free"]
    /\ lease' = [lease EXCEPT ![s] = 0]
    /\ lost' = [lost EXCEPT ![s] = 0]
    /\ target' = target \ {s} /\ round' = round \ {s}
    /\ ended' = ended + (IF s \in round THEN 1 ELSE 0)
    /\ UNCHANGED <<ticker, fired, sending, elapsed>>

----------------------------------------------------------------------------
(* leaseRenewLoop *)

\* The next request of a round with S and n tasks that ended left, or its end
Proceed(S, n) ==
    /\ elapsed' = 0
    /\ \/ \E s \in S : target' = {s} /\ round' = S \ {s} /\ ended' = n /\ sending' = TRUE
       \/ n > 0 /\ target' = {} /\ round' = S /\ ended' = n - 1 /\ sending' = TRUE
       \/ S = {} /\ n = 0 /\ target' = {} /\ round' = {} /\ ended' = 0 /\ sending' = FALSE

\* A tick, and the snapshot of runningTasks
StartRound ==
    /\ ~ sending /\ fired
    /\ fired' = FALSE
    /\ Proceed(Executing, 0)
    /\ UNCHANGED <<slot, lease, lost, ticker>>

\* Mutant of RenewLease: its WHERE clause matches no row, which is no error.
RenewNothing ==
    /\ \E s \in target : lost' = [lost EXCEPT ![s] = 0]
    /\ target' = {}
    /\ UNCHANGED <<slot, lease, ticker, fired, sending, elapsed, round, ended>>

\* The scheduler handles the request at some time before its answer arrives.
RenewLease ==
    /\ \E s \in target :
         /\ lease' = [lease EXCEPT ![s] = FullLease]
         /\ lost' = [lost EXCEPT ![s] = 0]
    /\ target' = {}
    /\ UNCHANGED <<slot, ticker, fired, sending, elapsed, round, ended>>

\* renewLease returns, with an error if the scheduler has not handled it; the
\* loop logs that and goes on.
RenewReturns ==
    /\ sending
    /\ \A s \in target : lost[s] < MaxLost
    /\ lost' = [s \in Slots |-> IF s \in target THEN lost[s] + 1 ELSE lost[s]]
    /\ Proceed(round, ended)
    /\ UNCHANGED <<slot, lease, ticker, fired>>

----------------------------------------------------------------------------
(* The clock.  It waits for what is due: an answer, or a loop that is idle *)
(* and has a tick.                                                         *)

\* Mutant of NextTick: NewTimer in place of NewTicker.
NextTickOnce == ticker - 1

NextTick == IF ticker = 1 THEN Period ELSE ticker - 1

Pass ==
    /\ sending \/ ~ fired
    /\ sending => elapsed < Latency
    /\ \A s \in Answering : TTL - lease[s] < Latency
    /\ lease' = [s \in Slots |-> IF lease[s] > 0 THEN lease[s] - 1 ELSE 0]
    /\ elapsed' = IF sending THEN elapsed + 1 ELSE 0
    /\ ticker' = NextTick
    /\ fired' = (fired \/ ticker = 1)
    /\ UNCHANGED <<slot, lost, sending, target, round, ended>>

Next ==
    \/ \E s \in Slots : Lease(s) \/ Register(s) \/ Vacate(s)
    \/ StartRound \/ RenewLease \/ RenewReturns \/ Pass

Spec == Init /\ [][Next]_vars

----------------------------------------------------------------------------
(* Properties *)

\* The lease of a task that is on its way to the worker or executing there
\* does not expire, however the map iteration orders the requests, whatever
\* their latency, and though MaxLost of them in a row fail.
LeaseKept == \A s \in Slots : slot[s] # "free" => lease[s] > 0

\* A round ends: however often slots change hands while it is sent, at most one
\* renewal per slot is left in it, and an execution that began meanwhile does not
\* wait for more.
RoundBounded ==
    sending => Cardinality(round) + ended + 1 <= Capacity
=============================================================================
