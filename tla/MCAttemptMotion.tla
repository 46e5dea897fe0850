--------------------------- MODULE MCAttemptMotion ---------------------------
(***************************************************************************)
(* An attempt of three goals; the monitor is asked to come back twice.     *)
(***************************************************************************)
EXTENDS AttemptMotion
=============================================================================
