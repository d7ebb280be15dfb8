--------------------------- MODULE MCJobRegistry ---------------------------
(* Constants for checking JobRegistry on small instances. *)
EXTENDS JobRegistry, TLC

CONSTANTS j1, j2, hourly, daily, typo

MCJobs == {j1, j2}
MCOneJob == {j1}
MCCrons == {hourly, daily, typo}
MCOneCron == {hourly}
MCBadCrons == {typo}
MCNoCron == {}

Symmetric == Permutations(MCJobs)
=============================================================================
