---------------------------- MODULE OrderLifecycle ----------------------------
(***************************************************************************)
(* What the order desk promises about orders, whatever the robot does:     *)
(* each order follows the life cycle named beside ORDER_STATES in          *)
(* service_mission_control.py, one order is served at a time, and a        *)
(* terminal state is final.  MissionController implements it.              *)
(***************************************************************************)
CONSTANTS Orders, RequireOperator

VARIABLE orderState

States == { "NONE", "PENDING", "ACCEPTED", "QUEUED", "RUNNING",
            "SUCCEEDED", "FAILED", "CANCELED", "REJECTED" }

\* How one step of the desk may move an order.  Release and start happen together
\* when the robot is free, so two arrows of the life cycle can be one step.
Moves ==
  (IF RequireOperator THEN { <<"NONE", "PENDING">>, <<"NONE", "ACCEPTED">> }
                      ELSE { <<"NONE", "QUEUED">>, <<"NONE", "RUNNING">> })
  \cup { <<"PENDING", "ACCEPTED">>, <<"PENDING", "REJECTED">>, <<"PENDING", "CANCELED">>,
         <<"ACCEPTED", "QUEUED">>, <<"ACCEPTED", "RUNNING">>, <<"ACCEPTED", "CANCELED">>,
         <<"QUEUED", "RUNNING">>, <<"QUEUED", "ACCEPTED">>, <<"QUEUED", "CANCELED">>,
         <<"RUNNING", "SUCCEEDED">>, <<"RUNNING", "FAILED">>, <<"RUNNING", "CANCELED">> }

Init == orderState = [o \in Orders |-> "NONE"]

\* The robot serves the next order only when the previous one has left RUNNING, and
\* an emergency stop takes every released order back, or none.
Next ==
  /\ orderState' \in [Orders -> States]
  /\ \A o \in Orders :
       orderState'[o] # orderState[o] => <<orderState[o], orderState'[o]>> \in Moves
  /\ \A o, p \in Orders :
       orderState'[o] = "RUNNING" /\ orderState'[p] = "RUNNING" => o = p
  /\ (\E o \in Orders : orderState[o] = "QUEUED" /\ orderState'[o] = "ACCEPTED")
       => \A o \in Orders : orderState'[o] \notin {"QUEUED", "RUNNING"}

Spec == Init /\ [][Next]_orderState

=============================================================================
