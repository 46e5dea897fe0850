----------------------------- MODULE MCBaseDrive -----------------------------
(***************************************************************************)
(* Two wheels and a line of one frame; both watchdogs bite after one tick. *)
(***************************************************************************)
EXTENDS BaseDrive

TwoWheels == { "left", "right" }
=============================================================================
