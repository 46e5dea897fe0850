------------------------- MODULE MCMissionController -------------------------
(***************************************************************************)
(* Small instances of MissionController.  Three orders: a cheap one, an    *)
(* expensive one of the same priority, and an expensive one of higher      *)
(* priority that was created earlier than it is submitted.                 *)
(***************************************************************************)
EXTENDS MissionController, TLC

CONSTANTS cheap, far, urgent

MCOrders == {cheap, far, urgent}
MCTables == {"table_1", "table_2"}
MCPriority == cheap :> 0 @@ far :> 0 @@ urgent :> 1
MCCreatedAt == cheap :> 1 @@ far :> 1 @@ urgent :> 0
MCTableOf == cheap :> "table_1" @@ far :> "table_2" @@ urgent :> "table_2"

\* Positions on a line make a metric: table_1, kitchen, dock, table_2.
Position == [kitchen |-> 1, table_1 |-> 0, dock |-> 2, table_2 |-> 4]
MCRoute ==
  [l \in Locations |-> [m \in Locations |->
     LET a == Position[l]
         b == Position[m]
     IN IF a < b THEN b - a ELSE a - b]]

MCPhaseEnergy == [p \in SkillPhases |-> IF p \in {"POUR", "SERVE"} THEN 1 ELSE 0]
MCRetryablePhases == {"ALIGN_KITCHEN", "GRASP_CUP"}

=============================================================================
