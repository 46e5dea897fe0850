---------------------------- MODULE MCDriveMission ----------------------------
(***************************************************************************)
(* The mission of the water service: its three legs.                       *)
(***************************************************************************)
EXTENDS DriveMission

WaterLegs == << "kitchen", "table", "dock" >>
WaterGoes == { "kitchen", "table", "dock" }
=============================================================================
