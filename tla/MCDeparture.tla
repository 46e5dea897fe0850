------------------------------ MODULE MCDeparture ------------------------------
(***************************************************************************)
(* A small instance of Departure: one departure, with its second run and   *)
(* its restart of the executor, and one stop.                              *)
(***************************************************************************)
EXTENDS Departure

CONSTANTS g1, s1

OneGo == {g1}
OneStop == {s1}
=============================================================================
