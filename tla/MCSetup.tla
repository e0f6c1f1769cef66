------------------------------ MODULE MCSetup ------------------------------
(* A gyro rate that is a multiple of the loop's limits and one that is     *)
(* not; values of loopSync that are too small and that meet a limit.       *)
EXTENDS Setup
=============================================================================
