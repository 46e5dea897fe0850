-------------------------- MODULE MCRolloutService --------------------------
(***************************************************************************)
(* Small instances of RolloutService: the two HTTP threads suffice for one *)
(* that waits for its job and one that stops it, submits a second or shuts *)
(* the service down.  The task defaults are those of DEFAULTS in           *)
(* rollout_service.py, with --pour.hook, --stow.pose=place_end and no      *)
(* duration for the place policy, which then only a stop or the detector   *)
(* ends.                                                                   *)
(***************************************************************************)
EXTENDS RolloutService

CONSTANTS c1, c2

MCClients == {c1, c2}

\* --pour.end_pose=initial; the place policy folds, as by default.
MixedEndPose == [pour |-> "fixed", place |-> "stow"]
BothPolicies == Policies
PourOnly == {"pour"}
=============================================================================
