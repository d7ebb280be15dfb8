----------------------------- MODULE MCDispatch -----------------------------
(* Constants for checking Dispatch on a small instance. *)
EXTENDS Dispatch, TLC

CONSTANTS extract, load, publish, k1

MCJobs == {extract, load, publish}

\* load and publish wait for each other, publish for extract as well; an edit can
\* cut the cycle and leave a chain.
MCCycle == (extract :> {}) @@ (load :> {publish}) @@ (publish :> {load, extract})

MCLists == {{}, {extract}}

MCOneKey == {k1}
=============================================================================
