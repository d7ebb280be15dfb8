----------------------------- MODULE MCAttempts -----------------------------
(* Constants for checking Attempts with words of 8 bits. *)
EXTENDS Attempts

MCRequests == [retries : {-1, 2, 9}, interval : {0, 5}, exponential : BOOLEAN]
=============================================================================
