----------------------------- MODULE LifeCycle -----------------------------
(***************************************************************************)
(* What a job's owner is promised of a task: it is attempted until one     *)
(* attempt succeeds or the retries are used up, one attempt at a time, and *)
(* a verdict is final.  A failed task may be discarded, an unsettled or    *)
(* successful one may not.                                                 *)
(***************************************************************************)
EXTENDS Naturals

CONSTANTS Things, Retries

VARIABLES phase, attempts

Phases == {"none", "waiting", "running", "success", "failed", "discarded"}

Init == phase = [x \in Things |-> "none"] /\ attempts = [x \in Things |-> 0]

Becomes(x, from, to) == phase[x] = from /\ phase' = [phase EXCEPT ![x] = to]

Submit(x) == Becomes(x, "none", "waiting") /\ UNCHANGED attempts

Attempt(x) == Becomes(x, "waiting", "running") /\ attempts' = [attempts EXCEPT ![x] = @ + 1]

Succeed(x) == Becomes(x, "running", "success") /\ UNCHANGED attempts

Fail(x) ==
    /\ Becomes(x, "running", IF attempts[x] > Retries THEN "failed" ELSE "waiting")
    /\ UNCHANGED attempts

Discard(S) ==
    /\ \A x \in S : phase[x] = "failed"
    /\ phase' = [x \in Things |-> IF x \in S THEN "discarded" ELSE phase[x]]
    /\ UNCHANGED attempts

Next ==
    \/ \E x \in Things : Submit(x) \/ Attempt(x) \/ Succeed(x) \/ Fail(x)
    \/ \E S \in SUBSET Things : Discard(S)

Spec == Init /\ [][Next]_<<phase, attempts>>
=============================================================================
