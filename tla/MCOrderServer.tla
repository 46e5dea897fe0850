---------------------------- MODULE MCOrderServer ----------------------------
(***************************************************************************)
(* Small instances of OrderServer: two orders of one table, so that one    *)
(* order's outcome can arrive when the other one runs.  The retries are    *)
(* those of config/simulation/service_mission_control.json.                *)
(***************************************************************************)
EXTENDS OrderServer, TLC

CONSTANTS first, second

OneOrder == {first}
TwoOrders == {first, second}
MCTables == {"table_1"}
MCTableOf == [o \in Orders |-> "table_1"]
MCRetryablePhases == { "ALIGN_KITCHEN", "GRASP_CUP", "GRASP_BOTTLE", "ALIGN_TABLE", "REGRASP_CUP" }
NoRetry == {}
BothPolicies == Policies
None == {}
=============================================================================
