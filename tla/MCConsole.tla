----------------------------- MODULE MCConsole -----------------------------
(* Constants for checking Console on a small instance. *)
EXTENDS Console

\* out of range, so the page is one row
MCLimits == {3}

\* which tasks enter when they are inserted and leave when they are leased
MCFilters == {"pending"}

\* the one in the middle comes to match by a rerun
MCFirstTasks == <<"pending", "success", "pending">>
=============================================================================
