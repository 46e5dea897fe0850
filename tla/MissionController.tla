-------------------------- MODULE MissionController --------------------------
(***************************************************************************)
(* The order queue and mission state machine of the service robot:         *)
(* src/mission/service_mission_control.py, class MissionController.        *)
(*                                                                         *)
(* One action stands for one method call.  The controller itself has no    *)
(* thread; OrderServer composes it with the threads that call it.          *)
(* Battery charge and routes are integers in one unit (a small fraction of *)
(* a percent); event records, timestamps and identifiers are left out.     *)
(***************************************************************************)
EXTENDS Integers, FiniteSets

CONSTANTS
  Orders,             \* the order ids that may be submitted
  Tables,             \* table ids of the layout
  NoOrder,            \* active_order_id is None
  Priority,           \* payload priority of an order, 0..9
  CreatedAt,          \* payload created_at of an order
  TableOf,            \* payload table_id of an order
  Route,              \* charge used on plan_route(layout, from, to)
  PhaseEnergy,        \* phase_energy_percent
  RetryablePhases,    \* retry.retryable_phases
  MaxAttempts,        \* retry.max_attempts_per_phase
  Reserve,            \* battery.reserve_percent
  ChargeTarget,       \* battery.charge_target_percent
  InitialCharge,      \* battery_percent of a fresh controller
  RequireOperator,    \* orders wait for accept and Start
  RequireDockReturn   \* a mission ends at the dock, not at the table

ServicePhases ==
  { "NAVIGATE_KITCHEN", "ALIGN_KITCHEN", "GRASP_CUP", "GRASP_BOTTLE", "POUR",
    "RETURN_BOTTLE", "PLACE_DECK", "NAVIGATE_TABLE", "ALIGN_TABLE",
    "REGRASP_CUP", "SERVE" }

SystemPhases == { "IDLE_AT_DOCK", "NAVIGATE_DOCK", "CHARGING", "TERMINAL_HOLD" }

NavigationPhases == { "NAVIGATE_KITCHEN", "NAVIGATE_TABLE", "NAVIGATE_DOCK" }

SkillPhases == ServicePhases \ NavigationPhases

OrderStates == { "PENDING", "ACCEPTED", "QUEUED", "RUNNING",
                 "SUCCEEDED", "FAILED", "CANCELED", "REJECTED" }

TerminalOrderStates == { "SUCCEEDED", "FAILED", "CANCELED", "REJECTED" }

Locations == { "dock", "kitchen" } \cup Tables

ASSUME OrderAssumption ==
  /\ NoOrder \notin Orders
  /\ Tables \cap { "dock", "kitchen" } = {}
  /\ Priority \in [Orders -> 0..9]
  /\ CreatedAt \in [Orders -> Nat]
  /\ TableOf \in [Orders -> Tables]

ASSUME ConfigAssumption ==
  /\ RetryablePhases \subseteq SkillPhases
  /\ MaxAttempts \in Nat \ {0}
  /\ Reserve \in Nat
  /\ ChargeTarget \in Nat
  /\ Reserve < ChargeTarget
  /\ InitialCharge \in Nat
  /\ RequireOperator \in BOOLEAN
  /\ RequireDockReturn \in BOOLEAN

\* plan_route finds a shortest path, so the route cost is a metric.
ASSUME RouteAssumption ==
  /\ Route \in [Locations -> [Locations -> Nat]]
  /\ \A l \in Locations : Route[l][l] = 0
  /\ \A l, m, n \in Locations : Route[l][n] <= Route[l][m] + Route[m][n]

ASSUME EnergyAssumption == PhaseEnergy \in [SkillPhases -> Nat]

\* The robot is put into service with at least its reserve (the code takes any
\* --battery-percent; below the reserve ReserveKept is false from the start).
ASSUME ChargedAssumption == InitialCharge >= Reserve

VARIABLES
  orderState,   \* orders[o].state, "NONE" while the id is unknown
  sequenceOf,   \* orders[o].sequence, 0 while the id is unknown
  sequence,     \* self.sequence
  active,       \* self.active_order_id
  phase,        \* self.phase
  attempt,      \* self.phase_attempt
  location,     \* self.current_location
  charge        \* self.battery_percent

vars == <<orderState, sequenceOf, sequence, active, phase, attempt, location, charge>>
robotVars == <<phase, attempt, location, charge>>

------------------------------------------------------------------------------
(* Pure helpers *)

InState(st, s) == { o \in Orders : st[o] = s }

Queued(st) == InState(st, "QUEUED")

\* The sort key (-priority, created_at, sequence) of _queued and accepted_orders.
Before(seqs, o, p) ==
  \/ Priority[o] > Priority[p]
  \/ /\ Priority[o] = Priority[p]
     /\ \/ CreatedAt[o] < CreatedAt[p]
        \/ CreatedAt[o] = CreatedAt[p] /\ seqs[o] < seqs[p]

IsFirst(seqs, o, S) == o \in S /\ \A p \in S \ {o} : Before(seqs, o, p)

ManipulationEnergy ==
  PhaseEnergy["ALIGN_KITCHEN"] + PhaseEnergy["GRASP_CUP"] + PhaseEnergy["GRASP_BOTTLE"]
  + PhaseEnergy["POUR"] + PhaseEnergy["RETURN_BOTTLE"] + PhaseEnergy["PLACE_DECK"]
  + PhaseEnergy["ALIGN_TABLE"] + PhaseEnergy["REGRASP_CUP"] + PhaseEnergy["SERVE"]

\* Mutant: the drive to the kitchen is reckoned from the dock.
EstimateFromDock(o, from) ==
  Route["dock"]["kitchen"] + Route["kitchen"][TableOf[o]] + Route[TableOf[o]]["dock"]
  + ManipulationEnergy

\* Mutant: the drive home is left out.
EstimateOneWay(o, from) ==
  Route[from]["kitchen"] + Route["kitchen"][TableOf[o]] + ManipulationEnergy

EstimateOrderCost(o, from) ==
  Route[from]["kitchen"] + Route["kitchen"][TableOf[o]] + Route[TableOf[o]]["dock"]
  + ManipulationEnergy

CanDispatch(o, from, available) == available - EstimateOrderCost(o, from) >= Reserve

\* The phase that follows in SERVICE_PHASES ("DONE" after the last one).
NextPhase ==
  [ NAVIGATE_KITCHEN |-> "ALIGN_KITCHEN", ALIGN_KITCHEN |-> "GRASP_CUP",
    GRASP_CUP |-> "GRASP_BOTTLE", GRASP_BOTTLE |-> "POUR", POUR |-> "RETURN_BOTTLE",
    RETURN_BOTTLE |-> "PLACE_DECK", PLACE_DECK |-> "NAVIGATE_TABLE",
    NAVIGATE_TABLE |-> "ALIGN_TABLE", ALIGN_TABLE |-> "REGRASP_CUP",
    REGRASP_CUP |-> "SERVE", SERVE |-> "DONE" ]

\* Where the command of a navigation phase drives to.
Destination(p, o) ==
  IF p = "NAVIGATE_KITCHEN" THEN "kitchen"
  ELSE IF p = "NAVIGATE_TABLE" THEN TableOf[o] ELSE "dock"

CommandCost(p, o, from) ==
  IF p \in NavigationPhases THEN Route[from][Destination(p, o)]
  ELSE IF p \in SkillPhases THEN PhaseEnergy[p] ELSE 0

Drained(amount) == IF charge < amount THEN 0 ELSE charge - amount

------------------------------------------------------------------------------
(* Methods that other methods call; st is the order table they start from *)

StartOrder(st, o) ==
  /\ orderState' = [st EXCEPT ![o] = "RUNNING"]
  /\ active' = o
  /\ phase' = "NAVIGATE_KITCHEN"
  /\ attempt' = 1

HoldAt(st, p, n) ==
  /\ orderState' = st
  /\ active' = NoOrder
  /\ phase' = p
  /\ attempt' = n

\* returnAttempt is phase_attempt on the way home without a queue: 0, and 1
\* when _decide_after_terminal_order makes the call.
DispatchOrCharge(st, seqs, from, available, returnAttempt) ==
  \/ /\ Queued(st) = {}
     /\ IF from = "dock" THEN HoldAt(st, "IDLE_AT_DOCK", 0)
                         ELSE HoldAt(st, "NAVIGATE_DOCK", returnAttempt)
  \/ \E o \in Orders :
       /\ IsFirst(seqs, o, Queued(st))
       /\ IF CanDispatch(o, from, available) THEN StartOrder(st, o)
          ELSE HoldAt(st, IF from = "dock" THEN "CHARGING" ELSE "NAVIGATE_DOCK", 1)

DecideAfterTerminalOrder(st, from, available) ==
  DispatchOrCharge(st, sequenceOf, from, available, 1)

\* The end of a failed or canceled mission.
EndMission(st) ==
  IF RequireDockReturn THEN HoldAt(st, "TERMINAL_HOLD", 0)
  ELSE DecideAfterTerminalOrder(st, location, charge)

------------------------------------------------------------------------------
(* The public methods *)

Init ==
  /\ orderState = [o \in Orders |-> "NONE"]
  /\ sequenceOf = [o \in Orders |-> 0]
  /\ sequence = 0
  /\ active = NoOrder
  /\ phase = "IDLE_AT_DOCK"
  /\ attempt = 0
  /\ location = "dock"
  /\ charge = InitialCharge

\* Mutant: an order that finds the robot free is only queued.
SubmitOnlyQueues(o) ==
  /\ orderState[o] = "NONE"
  /\ sequence' = sequence + 1
  /\ sequenceOf' = [sequenceOf EXCEPT ![o] = sequence + 1]
  /\ orderState' = [orderState EXCEPT ![o] = IF RequireOperator THEN "PENDING" ELSE "QUEUED"]
  /\ UNCHANGED <<active, robotVars>>

\* submit() of an unknown id; a known id changes nothing but the event log.
Submit(o) ==
  /\ orderState[o] = "NONE"
  /\ sequence' = sequence + 1
  /\ sequenceOf' = [sequenceOf EXCEPT ![o] = sequence + 1]
  /\ UNCHANGED <<location, charge>>
  /\ IF RequireOperator
     THEN /\ \E s \in {"PENDING", "ACCEPTED"} : orderState' = [orderState EXCEPT ![o] = s]
          /\ UNCHANGED <<active, phase, attempt>>
     ELSE LET st == [orderState EXCEPT ![o] = "QUEUED"] IN
          \/ /\ phase = "IDLE_AT_DOCK" /\ active = NoOrder
             /\ DispatchOrCharge(st, sequenceOf', location, charge, 0)
          \/ /\ phase = "NAVIGATE_DOCK" /\ active = NoOrder
             /\ CanDispatch(o, location, charge)
             /\ StartOrder(st, o)
          \/ /\ ~(phase = "IDLE_AT_DOCK" /\ active = NoOrder)
             /\ ~(phase = "NAVIGATE_DOCK" /\ active = NoOrder /\ CanDispatch(o, location, charge))
             /\ orderState' = st
             /\ UNCHANGED <<active, phase, attempt>>

\* Mutant: the mission of a canceled order goes on.
CancelKeepsMission(o) ==
  /\ orderState[o] \notin TerminalOrderStates \cup {"NONE"}
  /\ orderState' = [orderState EXCEPT ![o] = "CANCELED"]
  /\ UNCHANGED <<sequenceOf, sequence, active, robotVars>>

\* Mutant: a finished order can be canceled.
CancelFinished(o) ==
  /\ orderState[o] # "NONE"
  /\ LET st == [orderState EXCEPT ![o] = "CANCELED"] IN
     IF active = o THEN EndMission(st)
     ELSE orderState' = st /\ UNCHANGED <<active, phase, attempt>>
  /\ UNCHANGED <<sequenceOf, sequence, location, charge>>

Cancel(o) ==
  /\ orderState[o] \notin TerminalOrderStates \cup {"NONE"}
  /\ LET st == [orderState EXCEPT ![o] = "CANCELED"] IN
     IF active = o THEN EndMission(st)
     ELSE orderState' = st /\ UNCHANGED <<active, phase, attempt>>
  /\ UNCHANGED <<sequenceOf, sequence, location, charge>>

Accept(o) ==
  /\ orderState[o] = "PENDING"
  /\ orderState' = [orderState EXCEPT ![o] = "ACCEPTED"]
  /\ UNCHANGED <<sequenceOf, sequence, active, robotVars>>

\* Mutant: an accepted order can still be rejected.
RejectAccepted(o) ==
  /\ orderState[o] \in {"PENDING", "ACCEPTED"}
  /\ orderState' = [orderState EXCEPT ![o] = "REJECTED"]
  /\ UNCHANGED <<sequenceOf, sequence, active, robotVars>>

Reject(o) ==
  /\ orderState[o] = "PENDING"
  /\ orderState' = [orderState EXCEPT ![o] = "REJECTED"]
  /\ UNCHANGED <<sequenceOf, sequence, active, robotVars>>

\* Mutant: Start releases the order and leaves the resting robot alone.
StartNextOnlyQueues(o) ==
  /\ active = NoOrder
  /\ IsFirst(sequenceOf, o, InState(orderState, "ACCEPTED"))
  /\ orderState' = [orderState EXCEPT ![o] = "QUEUED"]
  /\ UNCHANGED <<sequenceOf, sequence, active, robotVars>>

StartNext(o) ==
  /\ active = NoOrder
  /\ IsFirst(sequenceOf, o, InState(orderState, "ACCEPTED"))
  /\ LET st == [orderState EXCEPT ![o] = "QUEUED"] IN
     \/ /\ phase = "IDLE_AT_DOCK"
        /\ DispatchOrCharge(st, sequenceOf, location, charge, 0)
     \/ /\ phase = "NAVIGATE_DOCK"
        /\ CanDispatch(o, location, charge)
        /\ StartOrder(st, o)
     \/ /\ phase # "IDLE_AT_DOCK"
        /\ ~(phase = "NAVIGATE_DOCK" /\ CanDispatch(o, location, charge))
        /\ orderState' = st
        /\ UNCHANGED <<active, phase, attempt>>
  /\ UNCHANGED <<sequenceOf, sequence, location, charge>>

\* Mutant: the mission ends and its order keeps its state.
EmergencyStopKeepsOrder ==
  /\ LET st == [o \in Orders |->
                  IF orderState[o] = "QUEUED" THEN "ACCEPTED" ELSE orderState[o]] IN
     IF active = NoOrder
     THEN orderState' = st /\ UNCHANGED <<active, phase, attempt>>
     ELSE EndMission(st)
  /\ UNCHANGED <<sequenceOf, sequence, location, charge>>

\* Released orders go back behind Start; the active mission fails.
EmergencyStop ==
  /\ LET st == [o \in Orders |->
                  IF orderState[o] = "QUEUED" THEN "ACCEPTED" ELSE orderState[o]] IN
     IF active = NoOrder
     THEN orderState' = st /\ UNCHANGED <<active, phase, attempt>>
     ELSE EndMission([st EXCEPT ![active] = "FAILED"])
  /\ UNCHANGED <<sequenceOf, sequence, location, charge>>

------------------------------------------------------------------------------
(* advance(), one action per branch *)

AdvanceIdle ==
  /\ phase = "IDLE_AT_DOCK"
  /\ DispatchOrCharge(orderState, sequenceOf, location, charge, 0)
  /\ UNCHANGED <<sequenceOf, sequence, location, charge>>

\* Mutant: no bound on retries.
AdvanceFailureUnbounded ==
  /\ phase \in RetryablePhases
  /\ attempt' = attempt + 1
  /\ UNCHANGED <<orderState, sequenceOf, sequence, active, phase, location, charge>>

AdvanceFailure ==
  /\ phase \notin {"TERMINAL_HOLD", "IDLE_AT_DOCK"}
  /\ \/ /\ phase \in RetryablePhases /\ attempt < MaxAttempts
        /\ attempt' = attempt + 1
        /\ UNCHANGED <<orderState, active, phase>>
     \/ /\ ~(phase \in RetryablePhases /\ attempt < MaxAttempts)
        /\ EndMission(IF active = NoOrder THEN orderState
                      ELSE [orderState EXCEPT ![active] = "FAILED"])
  /\ UNCHANGED <<sequenceOf, sequence, location, charge>>

\* Mutant: the charge is not taken over after charging.
AdvanceChargingInVain ==
  /\ phase = "CHARGING"
  /\ DispatchOrCharge(orderState, sequenceOf, location, charge, 0)
  /\ UNCHANGED <<sequenceOf, sequence, location, charge>>

AdvanceCharging ==
  /\ phase = "CHARGING"
  /\ charge' = ChargeTarget
  /\ DispatchOrCharge(orderState, sequenceOf, location, ChargeTarget, 0)
  /\ UNCHANGED <<sequenceOf, sequence, location>>

\* Mutant: the finished mission of a roundtrip stays active.
AdvanceDockKeepsActive ==
  /\ phase = "NAVIGATE_DOCK" /\ active # NoOrder
  /\ charge' = Drained(CommandCost(phase, active, location))
  /\ location' = "dock"
  /\ orderState' = [orderState EXCEPT ![active] = "SUCCEEDED"]
  /\ phase' = "IDLE_AT_DOCK"
  /\ attempt' = 0
  /\ UNCHANGED <<sequenceOf, sequence, active>>

\* Mutant: every arrival at the dock leads to the charger.
AdvanceDockToCharger ==
  /\ phase = "NAVIGATE_DOCK"
  /\ charge' = Drained(CommandCost(phase, active, location))
  /\ location' = "dock"
  /\ phase' = "CHARGING"
  /\ attempt' = 1
  /\ UNCHANGED <<orderState, sequenceOf, sequence, active>>

\* Mutant: the arrival is not recorded.
AdvanceDockUnrecorded ==
  /\ phase = "NAVIGATE_DOCK"
  /\ charge' = Drained(CommandCost(phase, active, location))
  /\ phase' = "CHARGING"
  /\ attempt' = 1
  /\ UNCHANGED <<orderState, sequenceOf, sequence, active, location>>

AdvanceDock ==
  /\ phase = "NAVIGATE_DOCK"
  /\ charge' = Drained(CommandCost(phase, active, location))
  /\ location' = "dock"
  /\ IF RequireDockReturn /\ active # NoOrder
     THEN HoldAt([orderState EXCEPT ![active] = "SUCCEEDED"], "IDLE_AT_DOCK", 0)
     ELSE /\ phase' = "CHARGING"
          /\ attempt' = 1
          /\ UNCHANGED <<orderState, active>>
  /\ UNCHANGED <<sequenceOf, sequence>>

\* Mutant: the served order is not marked SUCCEEDED.
AdvanceServiceUnmarked ==
  /\ phase \in ServicePhases /\ active # NoOrder
  /\ charge' = Drained(CommandCost(phase, active, location))
  /\ location' = IF phase \in NavigationPhases THEN Destination(phase, active) ELSE location
  /\ IF NextPhase[phase] = "DONE" THEN DecideAfterTerminalOrder(orderState, location', charge')
     ELSE phase' = NextPhase[phase] /\ attempt' = 1 /\ UNCHANGED <<orderState, active>>
  /\ UNCHANGED <<sequenceOf, sequence>>

AdvanceService ==
  /\ phase \in ServicePhases /\ active # NoOrder
  /\ charge' = Drained(CommandCost(phase, active, location))
  /\ location' = IF phase \in NavigationPhases THEN Destination(phase, active) ELSE location
  /\ \/ /\ NextPhase[phase] # "DONE"
        /\ phase' = NextPhase[phase]
        /\ attempt' = 1
        /\ UNCHANGED <<orderState, active>>
     \/ /\ NextPhase[phase] = "DONE"
        /\ IF RequireDockReturn
           THEN /\ phase' = "NAVIGATE_DOCK"
                /\ attempt' = 1
                /\ UNCHANGED <<orderState, active>>
           ELSE DecideAfterTerminalOrder([orderState EXCEPT ![active] = "SUCCEEDED"],
                                         location', charge')
  /\ UNCHANGED <<sequenceOf, sequence>>

AdvanceSuccess == AdvanceIdle \/ AdvanceCharging \/ AdvanceDock \/ AdvanceService

Next ==
  \/ \E o \in Orders : Submit(o) \/ Cancel(o) \/ Accept(o) \/ Reject(o) \/ StartNext(o)
  \/ EmergencyStop
  \/ AdvanceIdle
  \/ AdvanceFailure
  \/ AdvanceCharging
  \/ AdvanceDock
  \/ AdvanceService

Spec == Init /\ [][Next]_vars

------------------------------------------------------------------------------
(* Properties *)

\* Type correctness of the controller's fields.
TypeOK ==
  /\ orderState \in [Orders -> OrderStates \cup {"NONE"}]
  /\ sequenceOf \in [Orders -> Nat]
  /\ sequence \in Nat
  /\ active \in Orders \cup {NoOrder}
  /\ phase \in ServicePhases \cup SystemPhases
  /\ attempt \in 0..MaxAttempts
  /\ location \in Locations
  /\ charge \in Nat

\* The snapshot checks of from_snapshot() on orders, sequences and phase.
RestoreAccepts ==
  /\ \A o, p \in Orders :
       orderState[o] # "NONE" /\ sequenceOf[o] = sequenceOf[p] => o = p
  /\ \A o \in Orders : orderState[o] # "NONE" => sequenceOf[o] >= 1
  /\ IF active # NoOrder
     THEN phase \in ServicePhases /\ InState(orderState, "RUNNING") = {active}
     ELSE phase \notin ServicePhases /\ InState(orderState, "RUNNING") = {}

\* A server that stops at any point can always be started again: the snapshot it
\* leaves is one from_snapshot() accepts, and the number the next order gets
\* (from_snapshot() takes the largest one it finds) was never used.  A roundtrip
\* controller is exempt: the server never restores one.
AlwaysRestorable ==
  /\ RequireDockReturn \/ RestoreAccepts
  /\ \A o \in Orders : sequenceOf[o] <= sequence
  /\ sequence # 0 => \E o \in Orders : sequenceOf[o] = sequence

\* The robot serves the RUNNING order and no other, for as long as it runs.
OneActiveMission ==
  /\ \A o \in Orders : orderState[o] = "RUNNING" <=> o = active
  /\ phase \in ServicePhases => active # NoOrder
  /\ active # NoOrder =>
       phase \in ServicePhases \/ (RequireDockReturn /\ phase = "NAVIGATE_DOCK")

\* Wherever a mission ends, cancels, fails or stops, the charge left takes the
\* robot back to the dock with the reserve untouched.
ReserveKept == charge >= Reserve + Route[location]["dock"]

KitchenPhases ==
  { "ALIGN_KITCHEN", "GRASP_CUP", "GRASP_BOTTLE", "POUR", "RETURN_BOTTLE", "PLACE_DECK" }

TablePhases == { "ALIGN_TABLE", "REGRASP_CUP", "SERVE" }

\* Energy of a phase and of the manipulation phases after it.
EnergyLeft ==
  LET e == PhaseEnergy
      table   == e["ALIGN_TABLE"] + e["REGRASP_CUP"] + e["SERVE"]
      return  == e["RETURN_BOTTLE"] + e["PLACE_DECK"] + table
      pour    == e["GRASP_BOTTLE"] + e["POUR"] + return
      kitchen == e["ALIGN_KITCHEN"] + e["GRASP_CUP"] + pour
  IN [ NAVIGATE_KITCHEN |-> kitchen, ALIGN_KITCHEN |-> kitchen,
       GRASP_CUP |-> e["GRASP_CUP"] + pour, GRASP_BOTTLE |-> pour,
       POUR |-> e["POUR"] + return, RETURN_BOTTLE |-> return,
       PLACE_DECK |-> e["PLACE_DECK"] + table,
       NAVIGATE_TABLE |-> table, ALIGN_TABLE |-> table,
       REGRASP_CUP |-> e["REGRASP_CUP"] + e["SERVE"], SERVE |-> e["SERVE"] ]

\* The drives still ahead of the active order, up to the dock.
WayLeft(p, o, from) ==
  LET home == Route[TableOf[o]]["dock"] IN
  IF p = "NAVIGATE_KITCHEN" THEN Route[from]["kitchen"] + Route["kitchen"][TableOf[o]] + home
  ELSE IF p \in TablePhases THEN home ELSE Route["kitchen"][TableOf[o]] + home

\* At every point of a mission the charge covers the rest of it, the drive home and
\* the reserve: what _can_dispatch checked once, at the start, stays true through
\* retries, cancellations and missions chained without a visit to the dock.
ChargeCoversMission ==
  /\ phase \in KitchenPhases \cup {"NAVIGATE_TABLE"} => location = "kitchen"
  /\ phase \in TablePhases => location = TableOf[active]
  /\ phase \in {"IDLE_AT_DOCK", "CHARGING"} => location = "dock"
  /\ phase \in ServicePhases =>
       charge >= Reserve + WayLeft(phase, active, location) + EnergyLeft[phase]

\* The robot rests at the dock only when no released order waits for it.
\* (A roundtrip controller rests for one step before it looks at the queue.)
RestMeansEmptyQueue ==
  phase = "IDLE_AT_DOCK" => location = "dock" /\ (RequireDockReturn \/ Queued(orderState) = {})

Lifecycle == INSTANCE OrderLifecycle

\* The controller keeps every promise of the order desk.
RefinesLifecycle == Lifecycle!Spec

------------------------------------------------------------------------------
(* Liveness: the caller keeps executing commands and each command that can *)
(* succeed is at last executed with success.  Operators need do nothing.   *)

Fairness ==
  WF_vars(AdvanceIdle) /\ WF_vars(AdvanceCharging) /\ WF_vars(AdvanceDock) /\ WF_vars(AdvanceService)

FairSpec == Spec /\ Fairness

\* A mission always comes to an end.
MissionEnds ==
  \A o \in Orders : (orderState[o] = "RUNNING") ~> (orderState[o] \in TerminalOrderStates)

\* A released order is started, canceled or taken back; charging and driving
\* home never go on for ever in its place.  Only the terminal hold keeps it.
ReleasedOrderMovesOn ==
  \A o \in Orders : (orderState[o] = "QUEUED") ~> (orderState[o] # "QUEUED" \/ phase = "TERMINAL_HOLD")

\* Unless operators keep pressing STOP, the robot comes to rest when orders stop
\* coming: it neither charges nor drives home again and again.
ComesToRest ==
  []<><<EmergencyStop>>_vars \/ <>[](phase \in {"IDLE_AT_DOCK", "TERMINAL_HOLD"})

=============================================================================
