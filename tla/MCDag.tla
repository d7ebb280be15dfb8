------------------------------- MODULE MCDag -------------------------------
(* Constants for checking Dag on all graphs of a few jobs. *)
EXTENDS Dag

CONSTANTS a, b, c, gone

MCJobs == {a, b, c}
MCUnknown == {gone}
=============================================================================
