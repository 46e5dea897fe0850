----------------------- MODULE MissionControllerProofs -----------------------
(***************************************************************************)
(* Theorems about MissionController for every set of orders and tables,    *)
(* every layout whose route cost is a metric, and every configuration.     *)
(***************************************************************************)
EXTENDS MissionController, TLAPS

\* The order table of a controller, as an assumption on a bare function.
OrderTable == [Orders -> OrderStates \cup {"NONE"}]

\* What the fields that a method of the queue writes have to satisfy.
QueueFieldsOK ==
  /\ orderState \in OrderTable
  /\ active \in Orders \cup {NoOrder}
  /\ phase \in ServicePhases \cup SystemPhases
  /\ attempt \in 0..MaxAttempts

------------------------------------------------------------------------------
(* Type correctness *)

\* Starting an order leaves well-typed fields.
LEMMA StartOrderType ==
  ASSUME NEW st \in OrderTable, NEW o \in Orders, StartOrder(st, o)
  PROVE  QueueFieldsOK'
BY ConfigAssumption DEF StartOrder, QueueFieldsOK, OrderTable, OrderStates, ServicePhases

\* Holding, charging or driving home leaves well-typed fields.
LEMMA HoldAtType ==
  ASSUME NEW st \in OrderTable, NEW p \in SystemPhases, NEW n \in {0, 1}, HoldAt(st, p, n)
  PROVE  QueueFieldsOK'
BY ConfigAssumption DEF HoldAt, QueueFieldsOK

\* So does the dispatcher, whatever it decides.
LEMMA DispatchType ==
  ASSUME NEW st \in OrderTable, NEW seqs, NEW from, NEW available, NEW n \in {0, 1},
         DispatchOrCharge(st, seqs, from, available, n)
  PROVE  QueueFieldsOK'
<1>1. CASE Queued(st) = {} /\ IF from = "dock" THEN HoldAt(st, "IDLE_AT_DOCK", 0)
                                               ELSE HoldAt(st, "NAVIGATE_DOCK", n)
  BY <1>1, HoldAtType DEF SystemPhases
<1>2. ASSUME NEW o \in Orders,
             IF CanDispatch(o, from, available) THEN StartOrder(st, o)
             ELSE HoldAt(st, IF from = "dock" THEN "CHARGING" ELSE "NAVIGATE_DOCK", 1)
      PROVE  QueueFieldsOK'
  <2>1. CASE CanDispatch(o, from, available)
    BY <1>2, <2>1, StartOrderType
  <2>2. CASE ~CanDispatch(o, from, available)
    BY <1>2, <2>2, HoldAtType DEF SystemPhases
  <2> QED
    BY <2>1, <2>2
<1> QED
  BY <1>1, <1>2 DEF DispatchOrCharge

\* So does the end of a failed or canceled mission.
LEMMA EndMissionType ==
  ASSUME NEW st \in OrderTable, EndMission(st)
  PROVE  QueueFieldsOK'
BY HoldAtType, DispatchType DEF EndMission, DecideAfterTerminalOrder, SystemPhases

\* A command uses a natural amount of charge.
LEMMA DrainedType ==
  ASSUME charge \in Nat, NEW amount \in Nat
  PROVE  Drained(amount) \in Nat
BY DEF Drained

\* The charge a command takes is a natural number, and its destination a place of
\* the layout.
LEMMA CommandType ==
  ASSUME NEW p \in ServicePhases \cup {"NAVIGATE_DOCK"}, NEW o \in Orders \cup {NoOrder},
         NEW from \in Locations, p = "NAVIGATE_TABLE" => o \in Orders
  PROVE  /\ CommandCost(p, o, from) \in Nat
         /\ p \in NavigationPhases => Destination(p, o) \in Locations
<1>1. p \in NavigationPhases => Destination(p, o) \in Locations
  BY OrderAssumption DEF NavigationPhases, Destination, Locations
<1>2. p \notin NavigationPhases => p \in SkillPhases
  BY DEF NavigationPhases, SkillPhases
<1>3. \A l \in Locations : Route[from][l] \in Nat
  BY RouteAssumption
<1>4. p \in SkillPhases => PhaseEnergy[p] \in Nat
  BY EnergyAssumption
<1> QED
  BY <1>1, <1>2, <1>3, <1>4 DEF CommandCost

\* The phase that follows is a service phase, or there is none.
LEMMA NextPhaseType ==
  ASSUME NEW p \in ServicePhases
  PROVE  NextPhase[p] \in ServicePhases \cup {"DONE"}
BY DEF NextPhase, ServicePhases

\* The two halves of TypeOK.
LEMMA TypeOKSplit ==
  TypeOK <=> /\ QueueFieldsOK
             /\ sequenceOf \in [Orders -> Nat]
             /\ sequence \in Nat
             /\ location \in Locations
             /\ charge \in Nat
BY DEF TypeOK, QueueFieldsOK, OrderTable

\* The controller's fields have their types in every reachable state.
THEOREM TypeCorrect == Spec => []TypeOK
<1>1. Init => TypeOK
  BY OrderAssumption, ConfigAssumption
  DEF Init, TypeOK, OrderStates, SystemPhases, Locations
<1>2. TypeOK /\ [Next]_vars => TypeOK'
  <2> SUFFICES ASSUME TypeOK, [Next]_vars PROVE TypeOK'
    OBVIOUS
  <2> USE DEF OrderTable
  <2>t. /\ orderState \in OrderTable
        /\ sequenceOf \in [Orders -> Nat]
        /\ sequence \in Nat
        /\ active \in Orders \cup {NoOrder}
        /\ phase \in ServicePhases \cup SystemPhases
        /\ attempt \in 0..MaxAttempts
        /\ location \in Locations
        /\ charge \in Nat
    BY DEF TypeOK
  <2>0. /\ QueueFieldsOK'
        /\ sequenceOf' \in [Orders -> Nat]
        /\ sequence' \in Nat
        /\ location' \in Locations
        /\ charge' \in Nat
        => TypeOK'
    BY DEF TypeOK, QueueFieldsOK
  <2>s. \A o \in Orders : \A s \in OrderStates : [orderState EXCEPT ![o] = s] \in OrderTable
    BY <2>t
  <2>1. ASSUME NEW o \in Orders, Submit(o) PROVE TypeOK'
    <3>1. QueueFieldsOK'
      <4> DEFINE st == [orderState EXCEPT ![o] = "QUEUED"]
      <4>0. st \in OrderTable
        BY <2>s DEF OrderStates
      <4> HIDE DEF st
      <4>1. CASE RequireOperator
        BY <2>1, <2>t, <2>s, <4>1 DEF Submit, QueueFieldsOK, OrderStates
      <4>2. CASE DispatchOrCharge(st, sequenceOf', location, charge, 0)
        BY <4>0, <4>2, DispatchType
      <4>3. CASE StartOrder(st, o)
        BY <4>0, <4>3, StartOrderType
      <4>4. CASE orderState' = st /\ UNCHANGED <<active, phase, attempt>>
        BY <2>t, <4>0, <4>4 DEF QueueFieldsOK
      <4> QED
        BY <2>1, <4>1, <4>2, <4>3, <4>4 DEF Submit, st
    <3> QED
      BY <2>0, <2>1, <2>t, <3>1 DEF Submit
  <2>2. ASSUME NEW o \in Orders, Cancel(o) PROVE TypeOK'
    <3>1. QueueFieldsOK'
      <4>1. [orderState EXCEPT ![o] = "CANCELED"] \in OrderTable
        BY <2>s DEF OrderStates
      <4> QED
        BY <2>2, <2>t, <4>1, EndMissionType DEF Cancel, QueueFieldsOK
    <3> QED
      BY <2>0, <2>2, <2>t, <3>1 DEF Cancel
  <2>3. ASSUME NEW o \in Orders, Accept(o) \/ Reject(o) PROVE TypeOK'
    BY <2>3, <2>t, <2>0, <2>s DEF Accept, Reject, robotVars, QueueFieldsOK, OrderStates
  <2>4. ASSUME NEW o \in Orders, StartNext(o) PROVE TypeOK'
    <3>1. QueueFieldsOK'
      <4> DEFINE st == [orderState EXCEPT ![o] = "QUEUED"]
      <4>0. st \in OrderTable
        BY <2>s DEF OrderStates
      <4> HIDE DEF st
      <4>1. CASE DispatchOrCharge(st, sequenceOf, location, charge, 0)
        BY <4>0, <4>1, DispatchType
      <4>2. CASE StartOrder(st, o)
        BY <4>0, <4>2, StartOrderType
      <4>3. CASE orderState' = st /\ UNCHANGED <<active, phase, attempt>>
        BY <2>t, <4>0, <4>3 DEF QueueFieldsOK
      <4> QED
        BY <2>4, <4>1, <4>2, <4>3 DEF StartNext, st
    <3> QED
      BY <2>0, <2>4, <2>t, <3>1 DEF StartNext
  <2>5. ASSUME EmergencyStop PROVE TypeOK'
    <3>1. QueueFieldsOK'
      <4> DEFINE st == [o \in Orders |->
                          IF orderState[o] = "QUEUED" THEN "ACCEPTED" ELSE orderState[o]]
      <4>1. st \in OrderTable
        BY <2>t DEF OrderStates
      <4>2. active # NoOrder => [st EXCEPT ![active] = "FAILED"] \in OrderTable
        BY <2>t, <4>1 DEF OrderStates
      <4>3. CASE active = NoOrder
        BY <2>5, <2>t, <4>1, <4>3 DEF EmergencyStop, QueueFieldsOK
      <4>4. CASE active # NoOrder
        <5>1. EndMission([st EXCEPT ![active] = "FAILED"])
          BY <2>5, <4>4 DEF EmergencyStop
        <5> QED
          BY <4>2, <4>4, <5>1, EndMissionType
      <4> QED
        BY <4>3, <4>4
    <3> QED
      BY <2>0, <2>5, <2>t, <3>1 DEF EmergencyStop
  <2>6. ASSUME AdvanceIdle PROVE TypeOK'
    <3>1. QueueFieldsOK'
      BY <2>6, <2>t, DispatchType DEF AdvanceIdle
    <3> QED
      BY <2>0, <2>6, <2>t, <3>1 DEF AdvanceIdle
  <2>7. ASSUME AdvanceFailure PROVE TypeOK'
    <3>1. QueueFieldsOK'
      <4>1. CASE attempt < MaxAttempts /\ attempt' = attempt + 1
                 /\ UNCHANGED <<orderState, active, phase>>
        BY <2>t, <4>1, ConfigAssumption DEF QueueFieldsOK
      <4>2. CASE EndMission(IF active = NoOrder THEN orderState
                            ELSE [orderState EXCEPT ![active] = "FAILED"])
        <5>1. (IF active = NoOrder THEN orderState
               ELSE [orderState EXCEPT ![active] = "FAILED"]) \in OrderTable
          BY <2>t, <2>s DEF OrderStates
        <5> QED
          BY <4>2, <5>1, EndMissionType
      <4> QED
        BY <2>7, <4>1, <4>2 DEF AdvanceFailure
    <3> QED
      BY <2>0, <2>7, <2>t, <3>1 DEF AdvanceFailure
  <2>8. ASSUME AdvanceCharging PROVE TypeOK'
    <3>1. QueueFieldsOK'
      BY <2>8, <2>t, DispatchType DEF AdvanceCharging
    <3> QED
      BY <2>0, <2>8, <2>t, <3>1, ConfigAssumption DEF AdvanceCharging
  <2>9. ASSUME AdvanceDock PROVE TypeOK'
    <3>1. charge' \in Nat
      BY <2>9, <2>t, CommandType, DrainedType DEF AdvanceDock
    <3>2. QueueFieldsOK'
      <4>1. CASE RequireDockReturn /\ active # NoOrder
        <5>1. [orderState EXCEPT ![active] = "SUCCEEDED"] \in OrderTable
          BY <2>t, <2>s, <4>1 DEF OrderStates
        <5> QED
          BY <2>9, <4>1, <5>1, HoldAtType DEF AdvanceDock, SystemPhases
      <4>2. CASE ~(RequireDockReturn /\ active # NoOrder)
        BY <2>9, <2>t, <4>2, ConfigAssumption DEF AdvanceDock, QueueFieldsOK, SystemPhases
      <4> QED
        BY <4>1, <4>2
    <3> QED
      BY <2>0, <2>9, <2>t, <3>1, <3>2 DEF AdvanceDock, Locations
  <2>10. ASSUME AdvanceService PROVE TypeOK'
    <3>0. phase \in ServicePhases /\ active \in Orders
      BY <2>10, <2>t DEF AdvanceService
    <3>1. charge' \in Nat /\ location' \in Locations
      BY <2>10, <2>t, <3>0, CommandType, DrainedType DEF AdvanceService
    <3>2. QueueFieldsOK'
      <4>1. CASE NextPhase[phase] # "DONE"
        BY <2>10, <2>t, <3>0, <4>1, NextPhaseType, ConfigAssumption
        DEF AdvanceService, QueueFieldsOK
      <4>2. CASE NextPhase[phase] = "DONE" /\ RequireDockReturn
        BY <2>10, <2>t, <4>2, ConfigAssumption DEF AdvanceService, QueueFieldsOK, SystemPhases
      <4>3. CASE NextPhase[phase] = "DONE" /\ ~RequireDockReturn
        <5>1. [orderState EXCEPT ![active] = "SUCCEEDED"] \in OrderTable
          BY <2>s, <3>0 DEF OrderStates
        <5> QED
          BY <2>10, <4>3, <5>1, DispatchType DEF AdvanceService, DecideAfterTerminalOrder
      <4> QED
        BY <4>1, <4>2, <4>3
    <3> QED
      BY <2>0, <2>10, <2>t, <3>1, <3>2 DEF AdvanceService
  <2>11. CASE UNCHANGED vars
    BY <2>11 DEF vars, TypeOK
  <2> QED
    BY <2>1, <2>2, <2>3, <2>4, <2>5, <2>6, <2>7, <2>8, <2>9, <2>10, <2>11 DEF Next
<1> QED
  BY <1>1, <1>2, PTL DEF Spec

------------------------------------------------------------------------------
(* One active mission *)

NobodyRuns(st) == \A o \in Orders : st[o] # "RUNNING"

\* Starting an order when nobody runs makes it the one active mission.
LEMMA StartOrderOne ==
  ASSUME NEW st \in OrderTable, NEW o \in Orders, NobodyRuns(st), StartOrder(st, o)
  PROVE  OneActiveMission'
BY OrderAssumption DEF StartOrder, OneActiveMission, NobodyRuns, OrderTable, ServicePhases

\* Outside the service phases, with nobody running, there is no mission.
LEMMA HoldAtOne ==
  ASSUME NEW st \in OrderTable, NEW p \in SystemPhases, NEW n, NobodyRuns(st), HoldAt(st, p, n)
  PROVE  OneActiveMission'
BY OrderAssumption DEF HoldAt, OneActiveMission, NobodyRuns, SystemPhases, ServicePhases

\* The dispatcher starts at most one mission.
LEMMA DispatchOne ==
  ASSUME NEW st \in OrderTable, NEW seqs, NEW from, NEW available, NEW n,
         NobodyRuns(st), DispatchOrCharge(st, seqs, from, available, n)
  PROVE  OneActiveMission'
<1>1. CASE IF from = "dock" THEN HoldAt(st, "IDLE_AT_DOCK", 0)
                            ELSE HoldAt(st, "NAVIGATE_DOCK", n)
  BY <1>1, HoldAtOne DEF SystemPhases
<1>2. ASSUME NEW o \in Orders,
             IF CanDispatch(o, from, available) THEN StartOrder(st, o)
             ELSE HoldAt(st, IF from = "dock" THEN "CHARGING" ELSE "NAVIGATE_DOCK", 1)
      PROVE  OneActiveMission'
  BY <1>2, StartOrderOne, HoldAtOne DEF SystemPhases
<1> QED
  BY <1>1, <1>2 DEF DispatchOrCharge

\* The end of a mission leaves at most one mission.
LEMMA EndMissionOne ==
  ASSUME NEW st \in OrderTable, NobodyRuns(st), EndMission(st)
  PROVE  OneActiveMission'
BY HoldAtOne, DispatchOne DEF EndMission, DecideAfterTerminalOrder, SystemPhases

\* At most one order is RUNNING, it is the active one, and the phase is one of its
\* phases: no sequence of calls starts two missions or loses the running one.
THEOREM MissionExclusion == Spec => []OneActiveMission
<1>1. Init => OneActiveMission
  BY OrderAssumption DEF Init, OneActiveMission, ServicePhases
<1>2. TypeOK /\ OneActiveMission /\ [Next]_vars => OneActiveMission'
  <2> SUFFICES ASSUME TypeOK, OneActiveMission, [Next]_vars PROVE OneActiveMission'
    OBVIOUS
  <2>t. /\ orderState \in OrderTable
        /\ active \in Orders \cup {NoOrder}
        /\ phase \in ServicePhases \cup SystemPhases
    BY DEF TypeOK, OrderTable
  <2>i. /\ \A o \in Orders : orderState[o] = "RUNNING" <=> o = active
        /\ phase \in ServicePhases => active # NoOrder
        /\ active # NoOrder =>
             phase \in ServicePhases \/ (RequireDockReturn /\ phase = "NAVIGATE_DOCK")
    BY DEF OneActiveMission
  <2>s. ASSUME NEW o \in Orders, NEW s \in OrderStates
        PROVE  [orderState EXCEPT ![o] = s] \in OrderTable
    BY <2>t DEF OrderTable
  <2>n. active = NoOrder => NobodyRuns(orderState)
    BY <2>i, OrderAssumption DEF NobodyRuns
  \* a mission that is over leaves nobody running
  <2>d. ASSUME NEW s \in OrderStates \ {"RUNNING"}, active # NoOrder
        PROVE  /\ [orderState EXCEPT ![active] = s] \in OrderTable
               /\ NobodyRuns([orderState EXCEPT ![active] = s])
    BY <2>d, <2>t, <2>i, <2>s DEF NobodyRuns, OrderTable
  <2>u. ASSUME NEW o \in Orders, NEW s \in OrderStates \ {"RUNNING"}, o # active,
               orderState' = [orderState EXCEPT ![o] = s], UNCHANGED <<active, phase>>
        PROVE  OneActiveMission'
    BY <2>u, <2>t, <2>i DEF OneActiveMission, OrderTable
  <2>q. ASSUME NEW o \in Orders, active = NoOrder
        PROVE  /\ [orderState EXCEPT ![o] = "QUEUED"] \in OrderTable
               /\ NobodyRuns([orderState EXCEPT ![o] = "QUEUED"])
    BY <2>q, <2>t, <2>n, <2>s DEF NobodyRuns, OrderTable, OrderStates
  <2>1. ASSUME NEW o \in Orders, Submit(o) PROVE OneActiveMission'
    <3> DEFINE st == [orderState EXCEPT ![o] = "QUEUED"]
    <3>0. o # active
      BY <2>1, <2>i DEF Submit
    <3>1. CASE RequireOperator
      BY <2>1, <2>u, <3>0, <3>1 DEF Submit, OrderStates
    <3>2. CASE active = NoOrder /\ DispatchOrCharge(st, sequenceOf', location, charge, 0)
      BY <2>q, <3>2, DispatchOne
    <3>3. CASE active = NoOrder /\ StartOrder(st, o)
      BY <2>q, <3>3, StartOrderOne
    <3>4. CASE orderState' = st /\ UNCHANGED <<active, phase>>
      BY <2>u, <3>0, <3>4 DEF OrderStates
    <3> QED
      BY <2>1, <3>1, <3>2, <3>3, <3>4 DEF Submit
  <2>2. ASSUME NEW o \in Orders, Cancel(o) PROVE OneActiveMission'
    <3>1. CASE active = o
      <4>1. EndMission([orderState EXCEPT ![active] = "CANCELED"])
        BY <2>2, <3>1 DEF Cancel
      <4>2. active # NoOrder
        BY <3>1, OrderAssumption
      <4> QED
        BY <2>d, <4>1, <4>2, EndMissionOne DEF OrderStates
    <3>2. CASE active # o
      BY <2>2, <2>u, <3>2 DEF Cancel, OrderStates
    <3> QED
      BY <3>1, <3>2
  <2>3. ASSUME NEW o \in Orders, Accept(o) \/ Reject(o) PROVE OneActiveMission'
    <3>1. o # active
      BY <2>3, <2>i DEF Accept, Reject
    <3> QED
      BY <2>3, <2>u, <3>1 DEF Accept, Reject, robotVars, OrderStates
  <2>4. ASSUME NEW o \in Orders, StartNext(o) PROVE OneActiveMission'
    <3> DEFINE st == [orderState EXCEPT ![o] = "QUEUED"]
    <3>0. active = NoOrder /\ o # active
      BY <2>4, OrderAssumption DEF StartNext
    <3>1. CASE DispatchOrCharge(st, sequenceOf, location, charge, 0)
      BY <2>q, <3>0, <3>1, DispatchOne
    <3>2. CASE StartOrder(st, o)
      BY <2>q, <3>0, <3>2, StartOrderOne
    <3>3. CASE orderState' = st /\ UNCHANGED <<active, phase>>
      BY <2>u, <3>0, <3>3 DEF OrderStates
    <3> QED
      BY <2>4, <3>1, <3>2, <3>3 DEF StartNext
  <2>5. ASSUME EmergencyStop PROVE OneActiveMission'
    <3> DEFINE st == [o \in Orders |->
                        IF orderState[o] = "QUEUED" THEN "ACCEPTED" ELSE orderState[o]]
    <3>1. st \in OrderTable
      BY <2>t DEF OrderTable, OrderStates
    <3>2. \A o \in Orders : st[o] = "RUNNING" <=> o = active
      BY <2>i
    <3>3. CASE active = NoOrder
      <4>1. orderState' = st /\ UNCHANGED <<active, phase>>
        BY <2>5, <3>3 DEF EmergencyStop
      <4> QED
        BY <2>i, <3>2, <4>1 DEF OneActiveMission
    <3>4. CASE active # NoOrder
      <4>1. EndMission([st EXCEPT ![active] = "FAILED"])
        BY <2>5, <3>4 DEF EmergencyStop
      <4>2. /\ [st EXCEPT ![active] = "FAILED"] \in OrderTable
            /\ NobodyRuns([st EXCEPT ![active] = "FAILED"])
        BY <3>1, <3>2 DEF NobodyRuns, OrderTable, OrderStates
      <4> QED
        BY <4>1, <4>2, EndMissionOne
    <3> QED
      BY <3>3, <3>4
  <2>6. ASSUME AdvanceIdle PROVE OneActiveMission'
    <3>1. active = NoOrder
      BY <2>6, <2>i DEF AdvanceIdle, ServicePhases
    <3> QED
      BY <2>6, <2>t, <2>n, <3>1, DispatchOne DEF AdvanceIdle
  <2>7. ASSUME AdvanceFailure PROVE OneActiveMission'
    <3>1. CASE UNCHANGED <<orderState, active, phase>>
      BY <2>i, <3>1 DEF OneActiveMission
    <3>2. CASE active = NoOrder /\ EndMission(orderState)
      BY <2>t, <2>n, <3>2, EndMissionOne
    <3>3. CASE active # NoOrder /\ EndMission([orderState EXCEPT ![active] = "FAILED"])
      BY <2>d, <3>3, EndMissionOne DEF OrderStates
    <3> QED
      BY <2>7, <3>1, <3>2, <3>3 DEF AdvanceFailure
  <2>8. ASSUME AdvanceCharging PROVE OneActiveMission'
    <3>1. active = NoOrder
      BY <2>8, <2>i DEF AdvanceCharging, ServicePhases
    <3> QED
      BY <2>8, <2>t, <2>n, <3>1, DispatchOne DEF AdvanceCharging
  <2>9. ASSUME AdvanceDock PROVE OneActiveMission'
    <3>1. CASE RequireDockReturn /\ active # NoOrder
      <4>1. HoldAt([orderState EXCEPT ![active] = "SUCCEEDED"], "IDLE_AT_DOCK", 0)
        BY <2>9, <3>1 DEF AdvanceDock
      <4> QED
        BY <2>d, <3>1, <4>1, HoldAtOne DEF OrderStates, SystemPhases
    <3>2. CASE ~(RequireDockReturn /\ active # NoOrder)
      <4>1. active = NoOrder
        BY <2>9, <2>i, <3>2 DEF AdvanceDock, ServicePhases
      <4> QED
        BY <2>9, <2>i, <3>2, <4>1 DEF AdvanceDock, OneActiveMission, ServicePhases
    <3> QED
      BY <3>1, <3>2
  <2>10. ASSUME AdvanceService PROVE OneActiveMission'
    <3>0. phase \in ServicePhases /\ active # NoOrder
      BY <2>10 DEF AdvanceService
    <3>1. CASE NextPhase[phase] # "DONE"
      <4>1. phase' \in ServicePhases /\ UNCHANGED <<orderState, active>>
        BY <2>10, <3>0, <3>1, NextPhaseType DEF AdvanceService
      <4> QED
        BY <2>i, <3>0, <4>1 DEF OneActiveMission
    <3>2. CASE NextPhase[phase] = "DONE" /\ RequireDockReturn
      <4>1. phase' = "NAVIGATE_DOCK" /\ UNCHANGED <<orderState, active>>
        BY <2>10, <3>2 DEF AdvanceService
      <4> QED
        BY <2>i, <3>0, <3>2, <4>1 DEF OneActiveMission, ServicePhases
    <3>3. CASE NextPhase[phase] = "DONE" /\ ~RequireDockReturn
      <4>1. DispatchOrCharge([orderState EXCEPT ![active] = "SUCCEEDED"], sequenceOf,
                             location', charge', 1)
        BY <2>10, <3>3 DEF AdvanceService, DecideAfterTerminalOrder
      <4> QED
        BY <2>d, <3>0, <4>1, DispatchOne DEF OrderStates
    <3> QED
      BY <3>1, <3>2, <3>3
  <2>11. CASE UNCHANGED vars
    BY <2>11, <2>i DEF vars, OneActiveMission
  <2> QED
    BY <2>1, <2>2, <2>3, <2>4, <2>5, <2>6, <2>7, <2>8, <2>9, <2>10, <2>11 DEF Next
<1> QED
  BY <1>1, <1>2, TypeCorrect, PTL DEF Spec

------------------------------------------------------------------------------
(* The battery *)

\* The inductive invariant: the charge covers the rest of the mission, and the way
\* home from wherever the robot is.
ChargeInv == ChargeCoversMission /\ ReserveKept

\* Routes between known places are natural numbers and obey the triangle inequality.
LEMMA RouteFacts ==
  ASSUME NEW l \in Locations, NEW t \in Tables
  PROVE  /\ "dock" \in Locations /\ "kitchen" \in Locations /\ t \in Locations
         /\ Route[l]["dock"] \in Nat /\ Route[l]["kitchen"] \in Nat
         /\ Route["kitchen"][t] \in Nat /\ Route[t]["dock"] \in Nat
         /\ Route["kitchen"]["dock"] \in Nat
         /\ Route[l]["dock"] <= Route[l]["kitchen"] + Route["kitchen"]["dock"]
         /\ Route["kitchen"]["dock"] <= Route["kitchen"][t] + Route[t]["dock"]
         /\ Route["dock"]["dock"] = 0
BY RouteAssumption DEF Locations

\* EnergyLeft is the sum it is meant to be: all of it at the start, and each skill
\* phase takes its own share off.
LEMMA EnergyFacts ==
  /\ EnergyLeft["NAVIGATE_KITCHEN"] = ManipulationEnergy
  /\ \A p \in ServicePhases : EnergyLeft[p] \in Nat
  /\ \A p \in SkillPhases :
       /\ PhaseEnergy[p] \in Nat
       /\ EnergyLeft[p] = PhaseEnergy[p] + (IF p = "SERVE" THEN 0 ELSE EnergyLeft[NextPhase[p]])
  /\ EnergyLeft["ALIGN_KITCHEN"] = EnergyLeft["NAVIGATE_KITCHEN"]
  /\ EnergyLeft["ALIGN_TABLE"] = EnergyLeft["NAVIGATE_TABLE"]
<1> DEFINE Known(p) == PhaseEnergy[p] \in Nat
<1>1. /\ Known("ALIGN_KITCHEN") /\ Known("GRASP_CUP") /\ Known("GRASP_BOTTLE")
      /\ Known("POUR") /\ Known("RETURN_BOTTLE") /\ Known("PLACE_DECK")
      /\ Known("ALIGN_TABLE") /\ Known("REGRASP_CUP") /\ Known("SERVE")
  BY EnergyAssumption DEF SkillPhases, ServicePhases, NavigationPhases
<1> QED
  BY <1>1 DEF EnergyLeft, ManipulationEnergy, SkillPhases, ServicePhases, NavigationPhases,
              NextPhase

\* A started mission is covered.
LEMMA StartOrderCharge ==
  ASSUME NEW st, NEW o \in Orders, StartOrder(st, o), location' \in Locations, charge' \in Nat,
         CanDispatch(o, location', charge')
  PROVE  ChargeInv'
<1>1. TableOf[o] \in Tables
  BY OrderAssumption
<1>2. ManipulationEnergy \in Nat
  BY EnergyFacts DEF ServicePhases
<1>3. charge' >= Reserve + WayLeft("NAVIGATE_KITCHEN", o, location') + EnergyLeft["NAVIGATE_KITCHEN"]
  BY <1>1, <1>2, RouteFacts, EnergyFacts, ConfigAssumption
  DEF CanDispatch, EstimateOrderCost, WayLeft
<1>4. charge' >= Reserve + Route[location']["dock"]
  BY <1>1, <1>2, RouteFacts, ConfigAssumption DEF CanDispatch, EstimateOrderCost
<1> QED
  BY <1>3, <1>4 DEF StartOrder, ChargeInv, ChargeCoversMission, ReserveKept, KitchenPhases,
                    TablePhases, ServicePhases

\* Outside a mission only the way home counts.
LEMMA HoldAtCharge ==
  ASSUME NEW st, NEW p \in SystemPhases, NEW n, HoldAt(st, p, n), ReserveKept',
         p \in {"IDLE_AT_DOCK", "CHARGING"} => location' = "dock"
  PROVE  ChargeInv'
BY DEF HoldAt, ChargeInv, ChargeCoversMission, KitchenPhases, TablePhases, ServicePhases,
       SystemPhases

\* The dispatcher starts only missions that are covered.
LEMMA DispatchCharge ==
  ASSUME NEW st, NEW seqs, NEW n, location' \in Locations, charge' \in Nat, ReserveKept',
         DispatchOrCharge(st, seqs, location', charge', n)
  PROVE  ChargeInv'
<1>1. CASE IF location' = "dock" THEN HoldAt(st, "IDLE_AT_DOCK", 0)
                                 ELSE HoldAt(st, "NAVIGATE_DOCK", n)
  BY <1>1, HoldAtCharge DEF SystemPhases
<1>2. ASSUME NEW o \in Orders,
             IF CanDispatch(o, location', charge') THEN StartOrder(st, o)
             ELSE HoldAt(st, IF location' = "dock" THEN "CHARGING" ELSE "NAVIGATE_DOCK", 1)
      PROVE  ChargeInv'
  <2>1. CASE CanDispatch(o, location', charge')
    BY <1>2, <2>1, StartOrderCharge
  <2>2. CASE ~CanDispatch(o, location', charge')
    BY <1>2, <2>2, HoldAtCharge DEF SystemPhases
  <2> QED
    BY <2>1, <2>2
<1> QED
  BY <1>1, <1>2 DEF DispatchOrCharge

\* The end of a mission where the robot stands keeps the way home covered.
LEMMA EndMissionCharge ==
  ASSUME NEW st, location \in Locations, charge \in Nat, UNCHANGED <<location, charge>>,
         ReserveKept, EndMission(st)
  PROVE  ChargeInv'
<1>1. ReserveKept' /\ location' \in Locations /\ charge' \in Nat
  BY DEF ReserveKept
<1>2. CASE RequireDockReturn
  BY <1>1, <1>2, HoldAtCharge DEF EndMission, SystemPhases
<1>3. CASE ~RequireDockReturn
  <2>1. DispatchOrCharge(st, sequenceOf, location', charge', 1)
    BY <1>3 DEF EndMission, DecideAfterTerminalOrder
  <2> QED
    BY <1>1, <2>1, DispatchCharge
<1> QED
  BY <1>2, <1>3

\* The charge covers the rest of the running mission, the drive home and the reserve,
\* however missions are retried, canceled, stopped and chained.
THEOREM ChargeCovered == Spec => [](ChargeCoversMission /\ ReserveKept)
<1>1. Init => ChargeInv
  BY RouteAssumption, ChargedAssumption, ConfigAssumption
  DEF Init, ChargeInv, ChargeCoversMission, ReserveKept, KitchenPhases, TablePhases,
      ServicePhases, Locations
<1>2. TypeOK /\ OneActiveMission /\ ChargeInv /\ [Next]_vars => ChargeInv'
  <2> SUFFICES ASSUME TypeOK, OneActiveMission, ChargeInv, [Next]_vars PROVE ChargeInv'
    OBVIOUS
  <2>t. /\ active \in Orders \cup {NoOrder}
        /\ phase \in ServicePhases \cup SystemPhases
        /\ location \in Locations
        /\ charge \in Nat
    BY DEF TypeOK
  <2>r. ReserveKept
    BY DEF ChargeInv
  <2>u. ASSUME UNCHANGED <<active, phase, location, charge>> PROVE ChargeInv'
    BY <2>u DEF ChargeInv, ChargeCoversMission, ReserveKept
  <2>d. ASSUME NEW st, NEW seqs, NEW n, UNCHANGED <<location, charge>>,
               DispatchOrCharge(st, seqs, location, charge, n)
        PROVE  ChargeInv'
    <3>1. ReserveKept' /\ location' \in Locations /\ charge' \in Nat
      BY <2>d, <2>t, <2>r DEF ReserveKept
    <3>2. DispatchOrCharge(st, seqs, location', charge', n)
      BY <2>d
    <3> QED
      BY <3>1, <3>2, DispatchCharge
  <2>s. ASSUME NEW st, NEW o \in Orders, UNCHANGED <<location, charge>>, StartOrder(st, o),
               CanDispatch(o, location, charge)
        PROVE  ChargeInv'
    BY <2>s, <2>t, StartOrderCharge
  <2>e. ASSUME NEW st, UNCHANGED <<location, charge>>, EndMission(st)
        PROVE  ChargeInv'
    BY <2>e, <2>t, <2>r, EndMissionCharge
  <2>1. ASSUME NEW o \in Orders, Submit(o) PROVE ChargeInv'
    <3> DEFINE st == [orderState EXCEPT ![o] = "QUEUED"]
    <3>0. UNCHANGED <<location, charge>>
      BY <2>1 DEF Submit
    <3>1. CASE UNCHANGED <<active, phase>>
      BY <2>u, <3>0, <3>1
    <3>2. CASE DispatchOrCharge(st, sequenceOf', location, charge, 0)
      BY <2>d, <3>0, <3>2
    <3>3. CASE StartOrder(st, o) /\ CanDispatch(o, location, charge)
      BY <2>s, <3>0, <3>3
    <3> QED
      BY <2>1, <3>1, <3>2, <3>3 DEF Submit
  <2>2. ASSUME NEW o \in Orders, Cancel(o) PROVE ChargeInv'
    <3>1. UNCHANGED <<location, charge>>
      BY <2>2 DEF Cancel
    <3>2. CASE UNCHANGED <<active, phase>>
      BY <2>u, <3>1, <3>2
    <3>3. CASE EndMission([orderState EXCEPT ![o] = "CANCELED"])
      BY <2>e, <3>1, <3>3
    <3> QED
      BY <2>2, <3>2, <3>3 DEF Cancel
  <2>3. ASSUME NEW o \in Orders, Accept(o) \/ Reject(o) PROVE ChargeInv'
    BY <2>3, <2>u DEF Accept, Reject, robotVars
  <2>4. ASSUME NEW o \in Orders, StartNext(o) PROVE ChargeInv'
    <3> DEFINE st == [orderState EXCEPT ![o] = "QUEUED"]
    <3>0. UNCHANGED <<location, charge>>
      BY <2>4 DEF StartNext
    <3>1. CASE UNCHANGED <<active, phase>>
      BY <2>u, <3>0, <3>1
    <3>2. CASE DispatchOrCharge(st, sequenceOf, location, charge, 0)
      BY <2>d, <3>0, <3>2
    <3>3. CASE StartOrder(st, o) /\ CanDispatch(o, location, charge)
      BY <2>s, <3>0, <3>3
    <3> QED
      BY <2>4, <3>1, <3>2, <3>3 DEF StartNext
  <2>5. ASSUME EmergencyStop PROVE ChargeInv'
    <3> DEFINE st == [o \in Orders |->
                        IF orderState[o] = "QUEUED" THEN "ACCEPTED" ELSE orderState[o]]
    <3>0. UNCHANGED <<location, charge>>
      BY <2>5 DEF EmergencyStop
    <3>1. CASE UNCHANGED <<active, phase>>
      BY <2>u, <3>0, <3>1
    <3>2. CASE EndMission([st EXCEPT ![active] = "FAILED"])
      BY <2>e, <3>0, <3>2
    <3> QED
      BY <2>5, <3>1, <3>2 DEF EmergencyStop
  <2>6. ASSUME AdvanceIdle PROVE ChargeInv'
    BY <2>6, <2>d DEF AdvanceIdle
  <2>7. ASSUME AdvanceFailure PROVE ChargeInv'
    <3>0. UNCHANGED <<location, charge>>
      BY <2>7 DEF AdvanceFailure
    <3>1. CASE UNCHANGED <<active, phase>>
      BY <2>u, <3>0, <3>1
    <3>2. CASE EndMission(IF active = NoOrder THEN orderState
                          ELSE [orderState EXCEPT ![active] = "FAILED"])
      BY <2>e, <3>0, <3>2
    <3> QED
      BY <2>7, <3>1, <3>2 DEF AdvanceFailure
  <2>8. ASSUME AdvanceCharging PROVE ChargeInv'
    <3>1. location' = "dock" /\ location = "dock" /\ charge' = ChargeTarget
      BY <2>8 DEF AdvanceCharging, ChargeInv, ChargeCoversMission
    <3>2. ReserveKept' /\ location' \in Locations /\ charge' \in Nat
      BY <3>1, <2>t, RouteAssumption, ConfigAssumption DEF ReserveKept
    <3>3. DispatchOrCharge(orderState, sequenceOf, location', charge', 0)
      BY <2>8, <3>1 DEF AdvanceCharging
    <3> QED
      BY <3>2, <3>3, DispatchCharge
  <2>9. ASSUME AdvanceDock PROVE ChargeInv'
    <3>1. charge' = charge - Route[location]["dock"] /\ location' = "dock"
      BY <2>9, <2>t, <2>r, RouteAssumption, ConfigAssumption
      DEF AdvanceDock, CommandCost, Destination, NavigationPhases, Drained, ReserveKept,
          Locations
    <3>2. ReserveKept'
      BY <3>1, <2>t, <2>r, RouteAssumption, ConfigAssumption DEF ReserveKept, Locations
    <3>3. phase' \in {"IDLE_AT_DOCK", "CHARGING"}
      BY <2>9 DEF AdvanceDock, HoldAt
    <3> QED
      BY <3>1, <3>2, <3>3
      DEF ChargeInv, ChargeCoversMission, KitchenPhases, TablePhases, ServicePhases
  <2>10. ASSUME AdvanceService PROVE ChargeInv'
    <3>0. /\ phase \in ServicePhases /\ active \in Orders /\ TableOf[active] \in Tables
          /\ charge >= Reserve + WayLeft(phase, active, location) + EnergyLeft[phase]
          /\ charge' = Drained(CommandCost(phase, active, location))
      BY <2>10, <2>t, OrderAssumption DEF AdvanceService, ChargeInv, ChargeCoversMission
    <3> DEFINE T == TableOf[active]
               home == Route[T]["dock"]
               there == Route["kitchen"][T]
    <3>f. /\ Reserve \in Nat /\ home \in Nat /\ there \in Nat /\ charge \in Nat
          /\ Route[location]["kitchen"] \in Nat /\ Route["kitchen"]["dock"] \in Nat
          /\ Route["kitchen"]["dock"] <= there + home
          /\ T \in Locations /\ "kitchen" \in Locations
          /\ \A p \in ServicePhases : EnergyLeft[p] \in Nat
      BY <2>t, <3>0, RouteFacts, EnergyFacts, ConfigAssumption
    \* what the next phase needs is there, and so is the way home
    <3>1. /\ NextPhase[phase] # "DONE" =>
               charge' >= Reserve + WayLeft(NextPhase[phase], active, location')
                          + EnergyLeft[NextPhase[phase]]
          /\ ReserveKept'
          /\ charge' \in Nat /\ location' \in Locations
          /\ NextPhase[phase] \in KitchenPhases \cup {"NAVIGATE_TABLE"} => location' = "kitchen"
          /\ NextPhase[phase] \in TablePhases => location' = T
      <4>1. CASE phase = "NAVIGATE_KITCHEN"
        <5>1. location' = "kitchen" /\ CommandCost(phase, active, location) = Route[location]["kitchen"]
          BY <2>10, <4>1 DEF AdvanceService, Destination, NavigationPhases, CommandCost
        <5>2. charge' >= Reserve + there + home + EnergyLeft["NAVIGATE_KITCHEN"]
          BY <3>0, <3>f, <4>1, <5>1 DEF Drained, WayLeft, ServicePhases
        <5> QED
          BY <3>f, <4>1, <5>1, <5>2, <3>0, EnergyFacts
          DEF Drained, WayLeft, ReserveKept, NextPhase, KitchenPhases, TablePhases, ServicePhases
      <4>2. CASE phase = "NAVIGATE_TABLE"
        <5>1. location = "kitchen"
          BY <4>2 DEF ChargeInv, ChargeCoversMission
        <5>2. location' = T /\ CommandCost(phase, active, location) = there
          BY <2>10, <4>2, <5>1 DEF AdvanceService, Destination, NavigationPhases, CommandCost
        <5>3. charge' >= Reserve + home + EnergyLeft["NAVIGATE_TABLE"]
          BY <3>0, <3>f, <4>2, <5>2 DEF Drained, WayLeft, ServicePhases, TablePhases
        <5> QED
          BY <3>f, <4>2, <5>2, <5>3, <3>0, EnergyFacts
          DEF Drained, WayLeft, ReserveKept, NextPhase, KitchenPhases, TablePhases, ServicePhases
      <4>3. CASE phase \in KitchenPhases
        <5>1. location = "kitchen" /\ phase \in SkillPhases /\ phase # "SERVE"
          BY <4>3 DEF ChargeInv, ChargeCoversMission, KitchenPhases, SkillPhases, ServicePhases,
                      NavigationPhases
        <5>2. location' = "kitchen" /\ CommandCost(phase, active, location) = PhaseEnergy[phase]
          BY <2>10, <5>1 DEF AdvanceService, CommandCost, SkillPhases
        <5>3. NextPhase[phase] \in KitchenPhases \cup {"NAVIGATE_TABLE"}
          BY <4>3 DEF NextPhase, KitchenPhases
        <5>4. charge >= Reserve + there + home + EnergyLeft[phase]
          <6>1. WayLeft(phase, active, location) = there + home
            BY <4>3 DEF WayLeft, KitchenPhases, TablePhases
          <6> QED
            BY <3>0, <3>f, <6>1
        <5>5. /\ EnergyLeft[phase] = PhaseEnergy[phase] + EnergyLeft[NextPhase[phase]]
              /\ PhaseEnergy[phase] \in Nat
              /\ EnergyLeft[NextPhase[phase]] \in Nat
          BY <5>1, <5>3, EnergyFacts DEF KitchenPhases, ServicePhases
        <5>6. charge' >= Reserve + there + home + EnergyLeft[NextPhase[phase]] /\ charge' \in Nat
          BY <3>0, <3>f, <5>2, <5>4, <5>5 DEF Drained
        <5>7. WayLeft(NextPhase[phase], active, location') = there + home
          BY <5>3 DEF WayLeft, KitchenPhases, TablePhases
        <5>8. ReserveKept'
          BY <3>f, <5>2, <5>5, <5>6 DEF ReserveKept
        <5>9. NextPhase[phase] \notin TablePhases
          BY <5>3 DEF KitchenPhases, TablePhases
        <5> QED
          BY <3>f, <5>2, <5>5, <5>6, <5>7, <5>8, <5>9
      <4>4. CASE phase \in TablePhases
        <5>1. location = T /\ phase \in SkillPhases
          BY <4>4 DEF ChargeInv, ChargeCoversMission, TablePhases, SkillPhases, ServicePhases,
                      NavigationPhases
        <5>2. location' = T /\ CommandCost(phase, active, location) = PhaseEnergy[phase]
          BY <2>10, <5>1 DEF AdvanceService, CommandCost, SkillPhases
        <5>3. NextPhase[phase] \in TablePhases \cup {"DONE"} /\ NextPhase[phase] = "DONE" <=> phase = "SERVE"
          BY <4>4 DEF NextPhase, TablePhases
        <5>4. charge >= Reserve + home + EnergyLeft[phase]
          BY <3>0, <4>4 DEF WayLeft, TablePhases
        <5>5. PhaseEnergy[phase] \in Nat /\ EnergyLeft[phase] \in Nat
          BY <5>1, <3>0, EnergyFacts
        <5>6. CASE phase = "SERVE"
          <6>1. EnergyLeft[phase] = PhaseEnergy[phase]
            BY <5>1, <5>5, <5>6, EnergyFacts
          <6>2. charge' >= Reserve + home /\ charge' \in Nat
            BY <3>0, <3>f, <5>2, <5>4, <5>5, <6>1 DEF Drained
          <6> QED
            BY <3>f, <5>2, <5>6, <6>2 DEF ReserveKept, NextPhase, KitchenPhases, TablePhases
        <5>7. CASE phase # "SERVE"
          <6>1. NextPhase[phase] \in TablePhases /\ NextPhase[phase] \in ServicePhases
            BY <4>4, <5>7 DEF NextPhase, TablePhases, ServicePhases
          <6>2. EnergyLeft[phase] = PhaseEnergy[phase] + EnergyLeft[NextPhase[phase]]
            BY <5>1, <5>7, EnergyFacts
          <6>3. EnergyLeft[NextPhase[phase]] \in Nat
            BY <6>1, EnergyFacts
          <6>4. /\ charge' >= Reserve + home + EnergyLeft[NextPhase[phase]]
                /\ charge' \in Nat
            BY <3>0, <3>f, <5>2, <5>4, <5>5, <6>2, <6>3 DEF Drained
          <6>5. WayLeft(NextPhase[phase], active, location') = home
            BY <6>1 DEF WayLeft, TablePhases
          <6>6. NextPhase[phase] \notin KitchenPhases \cup {"NAVIGATE_TABLE"}
            BY <6>1 DEF KitchenPhases, TablePhases
          <6>7. ReserveKept'
            BY <3>f, <5>2, <6>3, <6>4 DEF ReserveKept
          <6> QED
            BY <3>f, <5>2, <6>4, <6>5, <6>6, <6>7
        <5> QED
          BY <5>6, <5>7
      <4> QED
        BY <3>0, <4>1, <4>2, <4>3, <4>4 DEF ServicePhases, KitchenPhases, TablePhases
    <3>2. CASE NextPhase[phase] # "DONE"
      <4>1. phase' = NextPhase[phase] /\ active' = active
        BY <2>10, <3>2 DEF AdvanceService
      <4>2. phase' \notin {"IDLE_AT_DOCK", "CHARGING"}
        BY <3>0, <3>2, <4>1 DEF NextPhase, ServicePhases
      <4>3. /\ phase' \in KitchenPhases \cup {"NAVIGATE_TABLE"} => location' = "kitchen"
            /\ phase' \in TablePhases => location' = TableOf[active']
            /\ charge' >= Reserve + WayLeft(phase', active', location') + EnergyLeft[phase']
        BY <3>1, <3>2, <4>1
      <4> QED
        BY <3>1, <4>2, <4>3 DEF ChargeInv, ChargeCoversMission
    <3>3. CASE NextPhase[phase] = "DONE" /\ RequireDockReturn
      <4>1. phase' = "NAVIGATE_DOCK"
        BY <2>10, <3>3 DEF AdvanceService
      <4> QED
        BY <3>1, <4>1
        DEF ChargeInv, ChargeCoversMission, KitchenPhases, TablePhases, ServicePhases
    <3>4. CASE NextPhase[phase] = "DONE" /\ ~RequireDockReturn
      <4>1. DispatchOrCharge([orderState EXCEPT ![active] = "SUCCEEDED"], sequenceOf,
                             location', charge', 1)
        BY <2>10, <3>4 DEF AdvanceService, DecideAfterTerminalOrder
      <4> QED
        BY <3>1, <4>1, DispatchCharge
    <3> QED
      BY <3>2, <3>3, <3>4
  <2>11. CASE UNCHANGED vars
    BY <2>11, <2>u DEF vars
  <2> QED
    BY <2>1, <2>2, <2>3, <2>4, <2>5, <2>6, <2>7, <2>8, <2>9, <2>10, <2>11 DEF Next
<1>3. ChargeInv => ChargeCoversMission /\ ReserveKept
  BY DEF ChargeInv
<1> QED
  BY <1>1, <1>2, <1>3, TypeCorrect, MissionExclusion, PTL DEF Spec

\* Wherever a mission ends, is canceled, fails or stops, the charge left takes the robot back
\* to the dock with the reserve untouched.
THEOREM ReserveAlwaysKept == Spec => []ReserveKept
BY ChargeCovered, PTL

------------------------------------------------------------------------------
(* The controller implements the order desk *)

\* What a queue method may do to the order table st: leave it, or start one QUEUED
\* order in it.
Dispatched(st) ==
  \/ orderState' = st
  \/ \E o \in Orders : st[o] = "QUEUED" /\ orderState' = [st EXCEPT ![o] = "RUNNING"]

\* The dispatcher does no more than that.
LEMMA DispatchTable ==
  ASSUME NEW st, NEW seqs, NEW from, NEW available, NEW n,
         DispatchOrCharge(st, seqs, from, available, n)
  PROVE  Dispatched(st)
BY DEF DispatchOrCharge, HoldAt, StartOrder, IsFirst, Queued, InState, Dispatched

\* Nor does the end of a mission.
LEMMA EndMissionTable ==
  ASSUME NEW st, EndMission(st)
  PROVE  Dispatched(st)
BY DispatchTable DEF EndMission, DecideAfterTerminalOrder, HoldAt, Dispatched

\* From a table reached by allowed moves, a dispatch is an allowed step of the desk.
LEMMA DispatchedStep ==
  ASSUME NEW st \in OrderTable, orderState \in OrderTable, Dispatched(st), OneActiveMission',
         \A o \in Orders : st[o] # orderState[o] => <<orderState[o], st[o]>> \in Lifecycle!Moves,
         \A o \in Orders : st[o] = "QUEUED" =>
            <<orderState[o], "RUNNING">> \in Lifecycle!Moves,
         (\E o \in Orders : orderState[o] = "QUEUED" /\ st[o] = "ACCEPTED")
           => \A o \in Orders : st[o] \notin {"QUEUED", "RUNNING"}
  PROVE  Lifecycle!Next
<1>1. \A o, p \in Orders : orderState'[o] = "RUNNING" /\ orderState'[p] = "RUNNING" => o = p
  BY DEF OneActiveMission
<1>2. CASE orderState' = st
  BY <1>1, <1>2 DEF Lifecycle!Next, Lifecycle!States, OrderTable, OrderStates
<1>3. ASSUME NEW o \in Orders, st[o] = "QUEUED", orderState' = [st EXCEPT ![o] = "RUNNING"]
      PROVE  Lifecycle!Next
  <2>1. orderState' \in [Orders -> Lifecycle!States]
    BY <1>3 DEF OrderTable, OrderStates, Lifecycle!States
  <2>2. \A p \in Orders : orderState'[p] = IF p = o THEN "RUNNING" ELSE st[p]
    BY <1>3 DEF OrderTable
  <2>3. \A p \in Orders :
          orderState'[p] # orderState[p] => <<orderState[p], orderState'[p]>> \in Lifecycle!Moves
    BY <1>3, <2>2
  <2>4. ~ \E p \in Orders : orderState[p] = "QUEUED" /\ orderState'[p] = "ACCEPTED"
    BY <1>3, <2>2
  <2> QED
    BY <1>1, <2>1, <2>3, <2>4 DEF Lifecycle!Next
<1> QED
  BY <1>2, <1>3 DEF Dispatched

\* Each order follows its life cycle, one at a time: the controller implements the
\* order desk of OrderLifecycle.
THEOREM ImplementsLifecycle == Spec => RefinesLifecycle
<1>1. Init => Lifecycle!Init
  BY DEF Init, Lifecycle!Init
<1>2. TypeOK /\ OneActiveMission /\ OneActiveMission' /\ [Next]_vars
        => [Lifecycle!Next]_orderState
  <2> SUFFICES ASSUME TypeOK, OneActiveMission, OneActiveMission', [Next]_vars
               PROVE  Lifecycle!Next \/ orderState' = orderState
    OBVIOUS
  <2>t. /\ orderState \in OrderTable
        /\ active \in Orders \cup {NoOrder}
        /\ \A o \in Orders : orderState[o] = "RUNNING" <=> o = active
    BY DEF TypeOK, OrderTable, OneActiveMission
  \* one order moves to s, where it is not RUNNING, and the queue may be dispatched
  <2>m. ASSUME NEW o \in Orders, NEW s \in OrderStates \ {"RUNNING"},
               <<orderState[o], s>> \in Lifecycle!Moves,
               s = "QUEUED" => <<orderState[o], "RUNNING">> \in Lifecycle!Moves,
               ~(orderState[o] = "QUEUED" /\ s = "ACCEPTED"),
               Dispatched([orderState EXCEPT ![o] = s])
        PROVE  Lifecycle!Next
    <3> DEFINE st == [orderState EXCEPT ![o] = s]
    <3>1. st \in OrderTable
      BY <2>t DEF OrderTable
    <3>2. \A p \in Orders : st[p] = IF p = o THEN s ELSE orderState[p]
      BY <2>t DEF OrderTable
    <3>3. <<"QUEUED", "RUNNING">> \in Lifecycle!Moves
      BY DEF Lifecycle!Moves
    <3> HIDE DEF st
    <3>4. \A p \in Orders : st[p] # orderState[p] => <<orderState[p], st[p]>> \in Lifecycle!Moves
      BY <2>m, <3>2
    <3>5. \A p \in Orders : st[p] = "QUEUED" => <<orderState[p], "RUNNING">> \in Lifecycle!Moves
      BY <2>m, <3>2, <3>3
    <3>6. ~ \E p \in Orders : orderState[p] = "QUEUED" /\ st[p] = "ACCEPTED"
      BY <2>m, <3>2
    <3>7. Dispatched(st)
      BY <2>m DEF st
    <3> QED
      BY <2>t, <3>1, <3>4, <3>5, <3>6, <3>7, DispatchedStep
  <2>1. ASSUME NEW o \in Orders, Submit(o) PROVE Lifecycle!Next
    <3>1. CASE RequireOperator
      <4>1. PICK s \in {"PENDING", "ACCEPTED"} : orderState' = [orderState EXCEPT ![o] = s]
        BY <2>1, <3>1 DEF Submit
      <4>2. <<orderState[o], s>> \in Lifecycle!Moves /\ orderState[o] = "NONE"
        BY <2>1, <3>1 DEF Submit, Lifecycle!Moves
      <4> QED
        BY <4>1, <4>2, <2>m DEF Dispatched, OrderStates
    <3>2. CASE ~RequireOperator
      <4>1. /\ orderState[o] = "NONE"
            /\ <<"NONE", "QUEUED">> \in Lifecycle!Moves
            /\ <<"NONE", "RUNNING">> \in Lifecycle!Moves
        BY <2>1, <3>2 DEF Submit, Lifecycle!Moves
      <4> DEFINE st == [orderState EXCEPT ![o] = "QUEUED"]
      <4>2. ASSUME StartOrder(st, o) PROVE Dispatched(st)
        BY <4>2, <2>t DEF StartOrder, Dispatched, OrderTable
      <4>3. Dispatched(st)
        BY <2>1, <3>2, <4>2, DispatchTable DEF Submit, Dispatched
      <4> QED
        BY <4>1, <4>3, <2>m DEF OrderStates
    <3> QED
      BY <3>1, <3>2
  <2>2. ASSUME NEW o \in Orders, Cancel(o) PROVE Lifecycle!Next
    <3>1. Dispatched([orderState EXCEPT ![o] = "CANCELED"])
      BY <2>2, EndMissionTable DEF Cancel, Dispatched
    <3>2. <<orderState[o], "CANCELED">> \in Lifecycle!Moves
      BY <2>2, <2>t DEF Cancel, Lifecycle!Moves, OrderTable, OrderStates, TerminalOrderStates
    <3> QED
      BY <3>1, <3>2, <2>m DEF OrderStates
  <2>3. ASSUME NEW o \in Orders, Accept(o) PROVE Lifecycle!Next
    BY <2>3, <2>m DEF Accept, Dispatched, OrderStates, Lifecycle!Moves
  <2>4. ASSUME NEW o \in Orders, Reject(o) PROVE Lifecycle!Next
    BY <2>4, <2>m DEF Reject, Dispatched, OrderStates, Lifecycle!Moves
  <2>5. ASSUME NEW o \in Orders, StartNext(o) PROVE Lifecycle!Next
    <3>1. /\ orderState[o] = "ACCEPTED"
          /\ <<"ACCEPTED", "QUEUED">> \in Lifecycle!Moves
          /\ <<"ACCEPTED", "RUNNING">> \in Lifecycle!Moves
      BY <2>5 DEF StartNext, IsFirst, InState, Lifecycle!Moves
    <3> DEFINE st == [orderState EXCEPT ![o] = "QUEUED"]
    <3>2. ASSUME StartOrder(st, o) PROVE Dispatched(st)
      BY <3>2, <2>t DEF StartOrder, Dispatched, OrderTable
    <3>3. Dispatched(st)
      BY <2>5, <3>2, DispatchTable DEF StartNext, Dispatched
    <3> QED
      BY <3>1, <3>3, <2>m DEF OrderStates
  <2>6. ASSUME EmergencyStop PROVE Lifecycle!Next \/ orderState' = orderState
    <3> DEFINE back == [o \in Orders |->
                          IF orderState[o] = "QUEUED" THEN "ACCEPTED" ELSE orderState[o]]
               st == IF active = NoOrder THEN back ELSE [back EXCEPT ![active] = "FAILED"]
    <3>1. st \in OrderTable
      BY <2>t DEF OrderTable, OrderStates
    <3>2. \A o \in Orders :
            st[o] = IF orderState[o] = "QUEUED" THEN "ACCEPTED"
                    ELSE IF orderState[o] = "RUNNING" THEN "FAILED" ELSE orderState[o]
      BY <2>t, OrderAssumption
    <3>3. Dispatched(st)
      BY <2>6, EndMissionTable DEF EmergencyStop, Dispatched
    <3>4. /\ <<"QUEUED", "ACCEPTED">> \in Lifecycle!Moves
          /\ <<"RUNNING", "FAILED">> \in Lifecycle!Moves
      BY DEF Lifecycle!Moves
    <3> HIDE DEF st
    <3>5. \A o \in Orders : st[o] \notin {"QUEUED", "RUNNING"}
      BY <3>2
    <3>6. \A o \in Orders : st[o] # orderState[o] => <<orderState[o], st[o]>> \in Lifecycle!Moves
      BY <3>2, <3>4
    <3> QED
      BY <2>t, <3>1, <3>3, <3>5, <3>6, DispatchedStep
  <2>7. ASSUME Dispatched(orderState) PROVE Lifecycle!Next \/ orderState' = orderState
    <3>1. <<"QUEUED", "RUNNING">> \in Lifecycle!Moves
      BY DEF Lifecycle!Moves
    <3>2. ~ \E o \in Orders : orderState[o] = "QUEUED" /\ orderState[o] = "ACCEPTED"
      OBVIOUS
    <3> QED
      BY <2>7, <2>t, <3>1, <3>2, DispatchedStep
  <2>8. ASSUME active # NoOrder, NEW s \in {"SUCCEEDED", "FAILED"},
               Dispatched([orderState EXCEPT ![active] = s])
        PROVE  Lifecycle!Next
    <3>1. <<orderState[active], s>> \in Lifecycle!Moves
      BY <2>8, <2>t DEF Lifecycle!Moves
    <3> QED
      BY <2>8, <2>t, <3>1, <2>m DEF OrderStates
  <2>9. ASSUME AdvanceIdle \/ AdvanceCharging PROVE Dispatched(orderState)
    BY <2>9, DispatchTable DEF AdvanceIdle, AdvanceCharging
  <2>10. ASSUME AdvanceFailure PROVE Lifecycle!Next \/ orderState' = orderState
    <3>1. CASE orderState' = orderState
      BY <3>1
    <3>2. CASE active = NoOrder /\ EndMission(orderState)
      BY <3>2, EndMissionTable, <2>7
    <3>3. CASE active # NoOrder /\ EndMission([orderState EXCEPT ![active] = "FAILED"])
      BY <3>3, EndMissionTable, <2>8
    <3> QED
      BY <2>10, <3>1, <3>2, <3>3 DEF AdvanceFailure
  <2>11. ASSUME AdvanceDock PROVE Lifecycle!Next \/ orderState' = orderState
    BY <2>11, <2>8 DEF AdvanceDock, HoldAt, Dispatched
  <2>12. ASSUME AdvanceService PROVE Lifecycle!Next \/ orderState' = orderState
    <3>1. CASE orderState' = orderState
      BY <3>1
    <3>2. CASE DecideAfterTerminalOrder([orderState EXCEPT ![active] = "SUCCEEDED"],
                                        location', charge')
      BY <2>12, <3>2, <2>8, DispatchTable DEF AdvanceService, DecideAfterTerminalOrder
    <3> QED
      BY <2>12, <3>1, <3>2 DEF AdvanceService
  <2>13. CASE UNCHANGED vars
    BY <2>13 DEF vars
  <2> QED
    BY <2>1, <2>2, <2>3, <2>4, <2>5, <2>6, <2>7, <2>9, <2>10, <2>11, <2>12, <2>13 DEF Next
<1> QED
  BY <1>1, <1>2, TypeCorrect, MissionExclusion, PTL
  DEF Spec, RefinesLifecycle, Lifecycle!Spec

------------------------------------------------------------------------------
(* Restart *)

\* An unknown order id stays unknown when the controller handles anything but that
\* order's submission.
UnknownKept(o) == orderState[o] = "NONE" => orderState'[o] = "NONE"

\* A dispatch keeps every id that its table does not know unknown.
LEMMA DispatchedKeeps ==
  ASSUME NEW st \in OrderTable, NEW o \in Orders, Dispatched(st),
         orderState[o] = "NONE" => st[o] = "NONE"
  PROVE  UnknownKept(o)
BY DEF Dispatched, UnknownKept, OrderTable

\* No operation but submit() makes an order known.
LEMMA OnlySubmitAddsOrders ==
  ASSUME TypeOK, OneActiveMission, Next, NEW o \in Orders, ~Submit(o)
  PROVE  UnknownKept(o)
<1>t. orderState \in OrderTable /\ active \in Orders \cup {NoOrder}
  BY DEF TypeOK, OrderTable
<1>m. ASSUME NEW p \in Orders, NEW s \in OrderStates, Dispatched([orderState EXCEPT ![p] = s]),
             p # o \/ orderState[o] # "NONE"
      PROVE  UnknownKept(o)
  <2>1. [orderState EXCEPT ![p] = s] \in OrderTable
    BY <1>t DEF OrderTable
  <2>2. orderState[o] = "NONE" => [orderState EXCEPT ![p] = s][o] = "NONE"
    BY <1>m, <1>t DEF OrderTable
  <2> QED
    BY <1>m, <2>1, <2>2, DispatchedKeeps
<1>k. Dispatched(orderState) => UnknownKept(o)
  BY <1>t, DispatchedKeeps
<1>a. active \in Orders => orderState[active] # "NONE"
  BY DEF OneActiveMission
<1>1. ASSUME NEW p \in Orders, Submit(p), p # o PROVE UnknownKept(o)
  <2>1. CASE RequireOperator
    <3>1. PICK s \in {"PENDING", "ACCEPTED"} : orderState' = [orderState EXCEPT ![p] = s]
      BY <1>1, <2>1 DEF Submit
    <3> QED
      BY <1>1, <1>t, <3>1 DEF UnknownKept, OrderTable
  <2>2. CASE ~RequireOperator
    <3> DEFINE st == [orderState EXCEPT ![p] = "QUEUED"]
    <3>1. ASSUME StartOrder(st, p) PROVE Dispatched(st)
      BY <3>1, <1>t DEF StartOrder, Dispatched, OrderTable
    <3>2. Dispatched(st)
      BY <1>1, <2>2, <3>1, DispatchTable DEF Submit, Dispatched
    <3> QED
      BY <1>1, <1>m, <3>2 DEF OrderStates
  <2> QED
    BY <2>1, <2>2
<1>2. ASSUME NEW p \in Orders, Cancel(p) PROVE UnknownKept(o)
  <2>1. Dispatched([orderState EXCEPT ![p] = "CANCELED"]) /\ orderState[p] # "NONE"
    BY <1>2, EndMissionTable DEF Cancel, Dispatched
  <2> QED
    BY <1>m, <2>1 DEF OrderStates
<1>3. ASSUME NEW p \in Orders, Accept(p) \/ Reject(p) PROVE UnknownKept(o)
  BY <1>3, <1>t DEF Accept, Reject, UnknownKept, OrderTable
<1>4. ASSUME NEW p \in Orders, StartNext(p) PROVE UnknownKept(o)
  <2> DEFINE st == [orderState EXCEPT ![p] = "QUEUED"]
  <2>1. ASSUME StartOrder(st, p) PROVE Dispatched(st)
    BY <2>1, <1>t DEF StartOrder, Dispatched, OrderTable
  <2>2. Dispatched(st) /\ orderState[p] # "NONE"
    BY <1>4, <2>1, DispatchTable DEF StartNext, Dispatched, IsFirst, InState
  <2> QED
    BY <1>m, <2>2 DEF OrderStates
<1>5. ASSUME EmergencyStop PROVE UnknownKept(o)
  <2> DEFINE back == [p \in Orders |->
                        IF orderState[p] = "QUEUED" THEN "ACCEPTED" ELSE orderState[p]]
             st == IF active = NoOrder THEN back ELSE [back EXCEPT ![active] = "FAILED"]
  <2>1. st \in OrderTable
    BY <1>t DEF OrderTable, OrderStates
  <2>2. orderState[o] = "NONE" => st[o] = "NONE"
    BY <1>t, <1>a
  <2>3. Dispatched(st)
    BY <1>5, EndMissionTable DEF EmergencyStop, Dispatched
  <2> QED
    BY <2>1, <2>2, <2>3, DispatchedKeeps
<1>6. ASSUME AdvanceIdle \/ AdvanceCharging PROVE UnknownKept(o)
  BY <1>6, <1>k, DispatchTable DEF AdvanceIdle, AdvanceCharging
<1>7. ASSUME NEW s \in OrderStates, active # NoOrder,
             Dispatched([orderState EXCEPT ![active] = s])
      PROVE  UnknownKept(o)
  BY <1>7, <1>t, <1>a, <1>m
<1>8. ASSUME AdvanceFailure PROVE UnknownKept(o)
  BY <1>8, <1>k, <1>7, EndMissionTable DEF AdvanceFailure, Dispatched, OrderStates
<1>9. ASSUME AdvanceDock PROVE UnknownKept(o)
  BY <1>9, <1>k, <1>7 DEF AdvanceDock, HoldAt, Dispatched, OrderStates
<1>10. ASSUME AdvanceService PROVE UnknownKept(o)
  BY <1>10, <1>k, <1>7, DispatchTable
  DEF AdvanceService, DecideAfterTerminalOrder, Dispatched, OrderStates
<1> QED
  BY <1>1, <1>2, <1>3, <1>4, <1>5, <1>6, <1>8, <1>9, <1>10 DEF Next

\* Known orders carry different numbers, none beyond the counter, which one carries.
SequenceInv ==
  /\ \A o \in Orders : sequenceOf[o] <= sequence
  /\ \A o \in Orders : sequenceOf[o] = 0 => orderState[o] = "NONE"
  /\ \A o, p \in Orders : sequenceOf[o] = sequenceOf[p] /\ sequenceOf[o] # 0 => o = p
  /\ sequence # 0 => \E o \in Orders : sequenceOf[o] = sequence

\* Whenever the server stops, the snapshot it leaves is one from_snapshot() accepts,
\* and the restored order counter continues where it was.
THEOREM Restorable == Spec => []AlwaysRestorable
<1>1. Init => SequenceInv
  BY DEF Init, SequenceInv
<1>2. TypeOK /\ OneActiveMission /\ SequenceInv /\ [Next]_vars => SequenceInv'
  <2> SUFFICES ASSUME TypeOK, OneActiveMission, SequenceInv, [Next]_vars PROVE SequenceInv'
    OBVIOUS
  <2>t. sequenceOf \in [Orders -> Nat] /\ sequence \in Nat
    BY DEF TypeOK
  <2>1. ASSUME NEW o \in Orders, Submit(o) PROVE SequenceInv'
    <3>1. /\ sequence' = sequence + 1
          /\ \A p \in Orders : sequenceOf'[p] = IF p = o THEN sequence + 1 ELSE sequenceOf[p]
      BY <2>1, <2>t DEF Submit
    <3>2. \A p \in Orders : p # o => UnknownKept(p)
      <4> SUFFICES ASSUME NEW p \in Orders, p # o PROVE UnknownKept(p)
        OBVIOUS
      <4>1. sequenceOf'[p] # sequence + 1
        BY <2>t, <3>1 DEF SequenceInv
      <4>2. ~Submit(p)
        BY <2>t, <4>1 DEF Submit
      <4> QED
        BY <2>1, <4>2, OnlySubmitAddsOrders DEF Next
    <3>3. \A p \in Orders : sequenceOf'[p] = 0 => orderState'[p] = "NONE"
      BY <2>t, <3>1, <3>2 DEF SequenceInv, UnknownKept
    <3> QED
      BY <2>t, <3>1, <3>3 DEF SequenceInv
  <2>2. ASSUME Next, \A o \in Orders : ~Submit(o) PROVE SequenceInv'
    <3>1. \A o \in Orders : UnknownKept(o)
      BY <2>2, OnlySubmitAddsOrders
    <3>2. UNCHANGED <<sequenceOf, sequence>>
      <4>1. ASSUME NEW o \in Orders, Cancel(o) \/ Accept(o) \/ Reject(o) \/ StartNext(o)
            PROVE  UNCHANGED <<sequenceOf, sequence>>
        BY <4>1 DEF Cancel, Accept, Reject, StartNext
      <4>2. EmergencyStop \/ AdvanceFailure => UNCHANGED <<sequenceOf, sequence>>
        BY DEF EmergencyStop, AdvanceFailure
      <4>3. AdvanceIdle \/ AdvanceCharging => UNCHANGED <<sequenceOf, sequence>>
        BY DEF AdvanceIdle, AdvanceCharging
      <4>4. AdvanceDock \/ AdvanceService => UNCHANGED <<sequenceOf, sequence>>
        BY DEF AdvanceDock, AdvanceService
      <4> QED
        BY <2>2, <4>1, <4>2, <4>3, <4>4 DEF Next
    <3> QED
      BY <3>1, <3>2 DEF SequenceInv, UnknownKept
  <2>3. CASE UNCHANGED vars
    BY <2>3 DEF vars, SequenceInv
  <2> QED
    BY <2>1, <2>2, <2>3
<1>3. TypeOK /\ OneActiveMission /\ SequenceInv => AlwaysRestorable
  <2> SUFFICES ASSUME TypeOK, OneActiveMission, SequenceInv PROVE AlwaysRestorable
    OBVIOUS
  <2>1. /\ sequenceOf \in [Orders -> Nat]
        /\ active \in Orders \cup {NoOrder}
    BY DEF TypeOK
  <2>2. /\ \A o, p \in Orders : orderState[o] # "NONE" /\ sequenceOf[o] = sequenceOf[p] => o = p
        /\ \A o \in Orders : orderState[o] # "NONE" => sequenceOf[o] >= 1
    BY <2>1 DEF SequenceInv
  <2>3. ASSUME ~RequireDockReturn
        PROVE  IF active # NoOrder
               THEN phase \in ServicePhases /\ InState(orderState, "RUNNING") = {active}
               ELSE phase \notin ServicePhases /\ InState(orderState, "RUNNING") = {}
    BY <2>1, <2>3, OrderAssumption DEF OneActiveMission, InState
  <2> QED
    BY <2>2, <2>3 DEF AlwaysRestorable, RestoreAccepts, SequenceInv
<1> QED
  BY <1>1, <1>2, <1>3, TypeCorrect, MissionExclusion, PTL DEF Spec

------------------------------------------------------------------------------
(* Rest *)

\* What a dispatch leaves behind: the robot rests only with an empty queue.
LEMMA DispatchRest ==
  ASSUME NEW st, NEW seqs, NEW available, NEW n,
         DispatchOrCharge(st, seqs, location', available, n)
  PROVE  RestMeansEmptyQueue'
<1>1. CASE Queued(st) = {} /\ orderState' = st /\ (phase' = "IDLE_AT_DOCK" => location' = "dock")
  BY <1>1 DEF RestMeansEmptyQueue
<1>2. CASE phase' # "IDLE_AT_DOCK"
  BY <1>2 DEF RestMeansEmptyQueue
<1> QED
  BY <1>1, <1>2 DEF DispatchOrCharge, HoldAt, StartOrder

\* Nor does the end of a mission forget the queue.
LEMMA EndMissionRest ==
  ASSUME NEW st, UNCHANGED <<location, charge>>, EndMission(st)
  PROVE  RestMeansEmptyQueue'
<1>1. CASE RequireDockReturn
  BY <1>1 DEF EndMission, HoldAt, RestMeansEmptyQueue
<1>2. CASE ~RequireDockReturn
  BY <1>2, DispatchRest DEF EndMission, DecideAfterTerminalOrder
<1> QED
  BY <1>1, <1>2

\* The robot rests at the dock only when no released order waits for it, through cancellations,
\* stops and whatever order the desk is worked in.
THEOREM RestAfterWork == Spec => []RestMeansEmptyQueue
<1>1. Init => RestMeansEmptyQueue
  BY DEF Init, RestMeansEmptyQueue, Queued, InState
<1>2. TypeOK /\ OneActiveMission /\ RestMeansEmptyQueue /\ [Next]_vars => RestMeansEmptyQueue'
  <2> SUFFICES ASSUME TypeOK, OneActiveMission, RestMeansEmptyQueue, [Next]_vars
               PROVE  RestMeansEmptyQueue'
    OBVIOUS
  <2>i. phase = "IDLE_AT_DOCK" => active = NoOrder
    BY DEF OneActiveMission, ServicePhases
  \* nobody is queued who was not
  <2>u. ASSUME UNCHANGED <<phase, location>>,
               \A o \in Orders : orderState'[o] = "QUEUED" => orderState[o] = "QUEUED"
        PROVE  RestMeansEmptyQueue'
    BY <2>u DEF RestMeansEmptyQueue, Queued, InState
  <2>1. ASSUME NEW o \in Orders, Submit(o) PROVE RestMeansEmptyQueue'
    <3> DEFINE st == [orderState EXCEPT ![o] = "QUEUED"]
    <3>1. CASE RequireOperator
      <4>1. \A p \in Orders : orderState'[p] = "QUEUED" => orderState[p] = "QUEUED"
        BY <2>1, <3>1 DEF Submit, TypeOK
      <4> QED
        BY <2>1, <2>u, <3>1, <4>1 DEF Submit
    <3>2. CASE DispatchOrCharge(st, sequenceOf', location, charge, 0)
      BY <2>1, <3>2, DispatchRest DEF Submit
    <3>3. CASE StartOrder(st, o)
      BY <3>3 DEF StartOrder, RestMeansEmptyQueue
    <3>4. CASE phase # "IDLE_AT_DOCK" /\ phase' = phase
      BY <3>4 DEF RestMeansEmptyQueue
    <3> QED
      BY <2>1, <2>i, <3>1, <3>2, <3>3, <3>4 DEF Submit
  <2>2. ASSUME NEW o \in Orders, Cancel(o) PROVE RestMeansEmptyQueue'
    <3>1. CASE EndMission([orderState EXCEPT ![o] = "CANCELED"])
      BY <2>2, <3>1, EndMissionRest DEF Cancel
    <3>2. CASE orderState' = [orderState EXCEPT ![o] = "CANCELED"] /\ UNCHANGED phase
      BY <2>2, <2>u, <3>2 DEF Cancel, TypeOK
    <3> QED
      BY <2>2, <3>1, <3>2 DEF Cancel
  <2>3. ASSUME NEW o \in Orders, Accept(o) \/ Reject(o) PROVE RestMeansEmptyQueue'
    BY <2>3, <2>u DEF Accept, Reject, robotVars, TypeOK
  <2>4. ASSUME NEW o \in Orders, StartNext(o) PROVE RestMeansEmptyQueue'
    <3> DEFINE st == [orderState EXCEPT ![o] = "QUEUED"]
    <3>1. CASE DispatchOrCharge(st, sequenceOf, location, charge, 0)
      BY <2>4, <3>1, DispatchRest DEF StartNext
    <3>2. CASE StartOrder(st, o)
      BY <3>2 DEF StartOrder, RestMeansEmptyQueue
    <3>3. CASE phase # "IDLE_AT_DOCK" /\ phase' = phase
      BY <3>3 DEF RestMeansEmptyQueue
    <3> QED
      BY <2>4, <3>1, <3>2, <3>3 DEF StartNext
  <2>5. ASSUME EmergencyStop PROVE RestMeansEmptyQueue'
    <3> DEFINE st == [o \in Orders |->
                        IF orderState[o] = "QUEUED" THEN "ACCEPTED" ELSE orderState[o]]
    <3>1. CASE orderState' = st /\ UNCHANGED phase
      BY <2>5, <2>u, <3>1 DEF EmergencyStop
    <3>2. CASE EndMission([st EXCEPT ![active] = "FAILED"])
      BY <2>5, <3>2, EndMissionRest DEF EmergencyStop
    <3> QED
      BY <2>5, <3>1, <3>2 DEF EmergencyStop
  <2>6. ASSUME AdvanceIdle PROVE RestMeansEmptyQueue'
    BY <2>6, DispatchRest DEF AdvanceIdle
  <2>7. ASSUME AdvanceFailure PROVE RestMeansEmptyQueue'
    <3>1. CASE UNCHANGED <<orderState, phase>>
      BY <2>7, <2>u, <3>1 DEF AdvanceFailure
    <3>2. CASE EndMission(IF active = NoOrder THEN orderState
                          ELSE [orderState EXCEPT ![active] = "FAILED"])
      BY <2>7, <3>2, EndMissionRest DEF AdvanceFailure
    <3> QED
      BY <2>7, <3>1, <3>2 DEF AdvanceFailure
  <2>8. ASSUME AdvanceCharging PROVE RestMeansEmptyQueue'
    BY <2>8, DispatchRest DEF AdvanceCharging
  <2>9. ASSUME AdvanceDock PROVE RestMeansEmptyQueue'
    BY <2>9 DEF AdvanceDock, HoldAt, RestMeansEmptyQueue
  <2>10. ASSUME AdvanceService PROVE RestMeansEmptyQueue'
    <3>1. CASE DecideAfterTerminalOrder([orderState EXCEPT ![active] = "SUCCEEDED"], location', charge')
      BY <3>1, DispatchRest DEF DecideAfterTerminalOrder
    <3>2. CASE phase' = NextPhase[phase] \/ phase' = "NAVIGATE_DOCK"
      <4>1. phase' # "IDLE_AT_DOCK"
        BY <2>10, <3>2, NextPhaseType DEF AdvanceService, ServicePhases
      <4> QED
        BY <4>1 DEF RestMeansEmptyQueue
    <3> QED
      BY <2>10, <3>1, <3>2 DEF AdvanceService
  <2>11. CASE UNCHANGED vars
    BY <2>11, <2>u DEF vars, robotVars
  <2> QED
    BY <2>1, <2>2, <2>3, <2>4, <2>5, <2>6, <2>7, <2>8, <2>9, <2>10, <2>11 DEF Next
<1> QED
  BY <1>1, <1>2, TypeCorrect, MissionExclusion, PTL DEF Spec

------------------------------------------------------------------------------
(* What comes to pass *)

\* The phase of a mission after p succeeds; the drive home belongs to it when the dock is
\* required.
PhaseAfter(p) == IF NextPhase[p] = "DONE" THEN "NAVIGATE_DOCK" ELSE NextPhase[p]

\* The dispatcher leaves an order that has ended as it is.
LEMMA EndedStays ==
  ASSUME NEW st \in OrderTable, Dispatched(st), NEW o \in Orders, st[o] \in TerminalOrderStates
  PROVE  orderState'[o] \in TerminalOrderStates
BY DEF Dispatched, OrderTable, TerminalOrderStates

\* Whatever is called, the running order's mission stays at its phase, goes on to the next
\* one by success, or ends.
LEMMA MissionCourse ==
  ASSUME TypeOK, OneActiveMission, [Next]_vars, NEW o \in Orders, active = o
  PROVE  \/ orderState'[o] \in TerminalOrderStates
         \/ active' = o /\ phase' = phase
         \/ active' = o /\ phase' = PhaseAfter(phase) /\ AdvanceService
<1> DEFINE Ends == orderState'[o] \in TerminalOrderStates
           Stays == active' = o /\ phase' = phase
<1> USE DEF vars, robotVars
<1>t. /\ orderState \in OrderTable /\ orderState[o] = "RUNNING" /\ active # NoOrder
      /\ phase \in ServicePhases \/ phase = "NAVIGATE_DOCK"
  BY OrderAssumption DEF TypeOK, OneActiveMission, OrderTable
<1>p. phase \notin {"IDLE_AT_DOCK", "CHARGING", "TERMINAL_HOLD"}
  BY <1>t DEF ServicePhases
<1>e. \A s \in TerminalOrderStates :
        /\ [orderState EXCEPT ![o] = s] \in OrderTable /\ [orderState EXCEPT ![o] = s][o] = s
  BY <1>t DEF OrderTable, OrderStates, TerminalOrderStates
<1>s. {"SUCCEEDED", "FAILED", "CANCELED"} \subseteq TerminalOrderStates
  BY DEF TerminalOrderStates
<1>1. ASSUME NEW q \in Orders, Submit(q) PROVE Stays
  BY <1>1, <1>t, <1>p DEF Submit
<1>2. ASSUME NEW q \in Orders, Cancel(q) PROVE Ends \/ Stays
  <2>1. CASE q = o
    <3>1. Dispatched([orderState EXCEPT ![o] = "CANCELED"])
      BY <1>2, <2>1, EndMissionTable DEF Cancel
    <3> QED
      BY <1>e, <1>s, <3>1, EndedStays
  <2>2. CASE q # o
    BY <1>2, <2>2 DEF Cancel
  <2> QED
    BY <2>1, <2>2
<1>3. ASSUME NEW q \in Orders, Accept(q) \/ Reject(q) \/ StartNext(q) PROVE Stays
  BY <1>3, <1>t DEF Accept, Reject, StartNext
<1>4. CASE EmergencyStop
  <2> DEFINE st == [q \in Orders |-> IF orderState[q] = "QUEUED" THEN "ACCEPTED" ELSE orderState[q]]
             ft == [st EXCEPT ![o] = "FAILED"]
  <2>1. ft \in OrderTable /\ ft[o] = "FAILED"
    BY <1>t DEF OrderTable, OrderStates, TerminalOrderStates
  <2>2. EndMission(ft)
    BY <1>4, <1>t DEF EmergencyStop
  <2> HIDE DEF ft
  <2>3. Ends
    BY <1>s, <2>1, <2>2, EndMissionTable, EndedStays
  <2> QED
    BY <2>3
<1>5. CASE AdvanceFailure
  <2>1. CASE UNCHANGED <<orderState, active, phase>>
    BY <2>1
  <2>2. CASE EndMission([orderState EXCEPT ![o] = "FAILED"])
    BY <1>e, <1>s, <2>2, EndMissionTable, EndedStays
  <2> QED
    BY <1>5, <1>t, <2>1, <2>2 DEF AdvanceFailure
<1>6. ~(AdvanceIdle \/ AdvanceCharging)
  BY <1>p DEF AdvanceIdle, AdvanceCharging
<1>7. CASE AdvanceDock
  <2>1. phase = "NAVIGATE_DOCK" /\ RequireDockReturn
    BY <1>7, <1>t DEF AdvanceDock, OneActiveMission, ServicePhases
  <2>2. orderState' = [orderState EXCEPT ![o] = "SUCCEEDED"]
    BY <1>7, <1>t, <2>1 DEF AdvanceDock, HoldAt
  <2> QED
    BY <1>e, <1>s, <2>2
<1>8. CASE AdvanceService
  <2>1. CASE NextPhase[phase] # "DONE"
    BY <1>8, <2>1 DEF AdvanceService, PhaseAfter
  <2>2. CASE NextPhase[phase] = "DONE" /\ RequireDockReturn
    BY <1>8, <2>2 DEF AdvanceService, PhaseAfter
  <2>3. CASE NextPhase[phase] = "DONE" /\ ~RequireDockReturn
    <3>1. Dispatched([orderState EXCEPT ![o] = "SUCCEEDED"])
      BY <1>8, <2>3, DispatchTable DEF AdvanceService, DecideAfterTerminalOrder
    <3> QED
      BY <1>e, <1>s, <3>1, EndedStays
  <2> QED
    BY <2>1, <2>2, <2>3
<1>9. CASE UNCHANGED vars
  BY <1>9
<1> QED
  BY <1>1, <1>2, <1>3, <1>4, <1>5, <1>6, <1>7, <1>8, <1>9 DEF Next

\* Weak fairness as Fairness states it, with the guards of the two actions in the place of
\* ENABLED, of which the prover knows nothing: each command that can succeed does at last.
ServiceProceeds == []<>(phase \notin ServicePhases) \/ []<><<AdvanceService>>_vars
DockProceeds == []<>(phase # "NAVIGATE_DOCK") \/ []<><<AdvanceDock>>_vars

\* A mission leaves each of its phases for the next one, or ends.
Passes(o, p) ==
  active = o /\ phase = p
    ~> orderState[o] \in TerminalOrderStates \/ (active = o /\ phase = PhaseAfter(p))

LEMMA PhasePasses ==
  ASSUME NEW o \in Orders, NEW p \in ServicePhases
  PROVE  Spec /\ ServiceProceeds => Passes(o, p)
<1> DEFINE A == active = o /\ phase = p
           B == orderState[o] \in TerminalOrderStates \/ (active = o /\ phase = PhaseAfter(p))
           N == phase \notin ServicePhases
           S == AdvanceService
           I == TypeOK /\ OneActiveMission
<1>1. I /\ [Next]_vars /\ A => A' \/ B'
  BY MissionCourse
<1>2. I /\ <<S>>_vars /\ A => B'
  <2> SUFFICES ASSUME I, AdvanceService, A PROVE B'
    OBVIOUS
  <2>1. phase' # phase \/ orderState'[o] \in TerminalOrderStates
    <3>1. NextPhase[phase] # phase /\ "NAVIGATE_DOCK" # phase
      BY DEF NextPhase, ServicePhases
    <3>2. CASE NextPhase[phase] # "DONE" \/ RequireDockReturn
      BY <3>1, <3>2 DEF AdvanceService
    <3>3. CASE NextPhase[phase] = "DONE" /\ ~RequireDockReturn
      <4>1. [orderState EXCEPT ![o] = "SUCCEEDED"] \in OrderTable
            /\ [orderState EXCEPT ![o] = "SUCCEEDED"][o] \in TerminalOrderStates
        BY DEF TypeOK, OrderTable, OrderStates, TerminalOrderStates
      <4>2. Dispatched([orderState EXCEPT ![o] = "SUCCEEDED"])
        BY <3>3, DispatchTable DEF AdvanceService, DecideAfterTerminalOrder
      <4> QED
        BY <4>1, <4>2, EndedStays
    <3> QED
      BY <3>2, <3>3
  <2> QED
    BY <2>1, MissionCourse DEF Next
<1>3. A => ~N
  OBVIOUS
<1>4. Spec => []I
  BY TypeCorrect, MissionExclusion, PTL
<1> HIDE DEF A, B, N, S, I
<1>5. Spec /\ ([]<>N \/ []<><<S>>_vars) => (A ~> B)
  BY <1>1, <1>2, <1>3, <1>4, PTL DEF Spec
<1> QED
  BY <1>5 DEF A, B, N, S, ServiceProceeds, Passes

\* The drive home, where it belongs to the mission, ends it.
LEMMA HomePasses ==
  ASSUME NEW o \in Orders
  PROVE  Spec /\ DockProceeds
           => (active = o /\ phase = "NAVIGATE_DOCK" ~> orderState[o] \in TerminalOrderStates)
<1> DEFINE A == active = o /\ phase = "NAVIGATE_DOCK"
           B == orderState[o] \in TerminalOrderStates
           N == phase # "NAVIGATE_DOCK"
           S == AdvanceDock
           I == TypeOK /\ OneActiveMission
<1>1. I /\ [Next]_vars /\ A => A' \/ B'
  <2> SUFFICES ASSUME I, [Next]_vars, A PROVE A' \/ B'
    OBVIOUS
  <2>1. ~AdvanceService
    BY DEF AdvanceService, ServicePhases
  <2> QED
    BY <2>1, MissionCourse
<1>2. I /\ <<S>>_vars /\ A => B'
  <2> SUFFICES ASSUME I, AdvanceDock, A PROVE B'
    OBVIOUS
  <2>1. RequireDockReturn /\ active # NoOrder
    BY OrderAssumption DEF OneActiveMission, ServicePhases
  <2>2. orderState' = [orderState EXCEPT ![o] = "SUCCEEDED"]
    BY <2>1 DEF AdvanceDock, HoldAt
  <2> QED
    BY <2>2 DEF TypeOK, TerminalOrderStates
<1>3. A => ~N
  OBVIOUS
<1>4. Spec => []I
  BY TypeCorrect, MissionExclusion, PTL
<1> HIDE DEF A, B, N, S, I
<1>5. Spec /\ ([]<>N \/ []<><<S>>_vars) => (A ~> B)
  BY <1>1, <1>2, <1>3, <1>4, PTL DEF Spec
<1> QED
  BY <1>5 DEF A, B, N, S, DockProceeds

\* One mission ends.
OrderEnds(o) == (orderState[o] = "RUNNING") ~> (orderState[o] \in TerminalOrderStates)

LEMMA OneOrderEnds ==
  ASSUME NEW o \in Orders
  PROVE  Spec /\ ServiceProceeds /\ DockProceeds => OrderEnds(o)
<1> DEFINE R == orderState[o] = "RUNNING"
           T == orderState[o] \in TerminalOrderStates
           At(p) == active = o /\ phase = p
           On(p) == active = o /\ phase = PhaseAfter(p)
           I == TypeOK /\ OneActiveMission
<1>p. ServicePhases =
        { "NAVIGATE_KITCHEN", "ALIGN_KITCHEN", "GRASP_CUP", "GRASP_BOTTLE", "POUR",
          "RETURN_BOTTLE", "PLACE_DECK", "NAVIGATE_TABLE", "ALIGN_TABLE", "REGRASP_CUP", "SERVE" }
  BY DEF ServicePhases
<1>1. I /\ R => \/ At("NAVIGATE_KITCHEN") \/ At("ALIGN_KITCHEN") \/ At("GRASP_CUP")
                \/ At("GRASP_BOTTLE") \/ At("POUR") \/ At("RETURN_BOTTLE") \/ At("PLACE_DECK")
                \/ At("NAVIGATE_TABLE") \/ At("ALIGN_TABLE") \/ At("REGRASP_CUP") \/ At("SERVE")
                \/ At("NAVIGATE_DOCK")
  BY <1>p, OrderAssumption DEF OneActiveMission
<1>2. /\ On("NAVIGATE_KITCHEN") => At("ALIGN_KITCHEN")
      /\ On("ALIGN_KITCHEN") => At("GRASP_CUP")
      /\ On("GRASP_CUP") => At("GRASP_BOTTLE")
      /\ On("GRASP_BOTTLE") => At("POUR")
      /\ On("POUR") => At("RETURN_BOTTLE")
      /\ On("RETURN_BOTTLE") => At("PLACE_DECK")
      /\ On("PLACE_DECK") => At("NAVIGATE_TABLE")
      /\ On("NAVIGATE_TABLE") => At("ALIGN_TABLE")
      /\ On("ALIGN_TABLE") => At("REGRASP_CUP")
      /\ On("REGRASP_CUP") => At("SERVE")
      /\ On("SERVE") => At("NAVIGATE_DOCK")
  BY DEF PhaseAfter, NextPhase
<1>3. Spec /\ ServiceProceeds =>
        /\ Passes(o, "NAVIGATE_KITCHEN") /\ Passes(o, "ALIGN_KITCHEN") /\ Passes(o, "GRASP_CUP")
        /\ Passes(o, "GRASP_BOTTLE") /\ Passes(o, "POUR") /\ Passes(o, "RETURN_BOTTLE")
        /\ Passes(o, "PLACE_DECK") /\ Passes(o, "NAVIGATE_TABLE") /\ Passes(o, "ALIGN_TABLE")
        /\ Passes(o, "REGRASP_CUP") /\ Passes(o, "SERVE")
  BY <1>p, PhasePasses
<1>4. Spec /\ DockProceeds => (At("NAVIGATE_DOCK") ~> T)
  BY HomePasses
<1>5. Spec => []I
  BY TypeCorrect, MissionExclusion, PTL
<1> HIDE DEF I, R
<1>6. Spec /\ ServiceProceeds /\ DockProceeds => (R ~> T)
  BY <1>1, <1>2, <1>3, <1>4, <1>5, PTL DEF Passes
<1> QED
  BY <1>6 DEF R, OrderEnds

\* A mission always comes to an end, however often its phases are retried: nothing takes it
\* back to a phase it has left.
THEOREM MissionsEnd == Spec /\ ServiceProceeds /\ DockProceeds => MissionEnds
<1>1. Spec /\ ServiceProceeds /\ DockProceeds => \A o \in Orders : OrderEnds(o)
  BY OneOrderEnds
<1> QED
  BY <1>1 DEF OrderEnds, MissionEnds

------------------------------------------------------------------------------
(* Rest and movement *)

\* An order is started.
Started == \E o \in Orders : orderState[o] # "RUNNING" /\ orderState'[o] = "RUNNING"

\* A full battery serves every order from the dock.  The controller does not look: an order
\* that asks for more keeps it at the charger.
Affordable == \A o \in Orders : CanDispatch(o, "dock", ChargeTarget)

\* What is known of every reachable state.
RobotInv == TypeOK /\ OneActiveMission /\ ChargeCoversMission /\ RestMeansEmptyQueue

LEMMA RobotInvariant == Spec => []RobotInv
BY TypeCorrect, MissionExclusion, ChargeCovered, RestAfterWork, PTL DEF RobotInv

\* The dispatcher that starts nothing leaves the robot where it waits for the queue or for
\* more charge.
LEMMA DispatchWaits ==
  ASSUME NEW st \in OrderTable, NEW seqs, NEW from, NEW available, NEW n,
         DispatchOrCharge(st, seqs, from, available, n), ~Started,
         \A q \in Orders : st[q] = "QUEUED" => orderState[q] # "RUNNING"
  PROVE  /\ orderState' = st /\ active' = NoOrder
         /\ Queued(st) = {} => phase' = IF from = "dock" THEN "IDLE_AT_DOCK" ELSE "NAVIGATE_DOCK"
         /\ Queued(st) # {} => /\ phase' = IF from = "dock" THEN "CHARGING" ELSE "NAVIGATE_DOCK"
                               /\ \E q \in Orders : ~CanDispatch(q, from, available)
<1>1. ASSUME NEW q \in Queued(st), StartOrder(st, q) PROVE FALSE
  <2>1. q \in Orders /\ st[q] = "QUEUED"
    BY DEF Queued, InState
  <2>2. orderState'[q] = "RUNNING"
    BY <1>1, <2>1 DEF StartOrder, OrderTable
  <2> QED
    BY <2>1, <2>2 DEF Started
<1>2. CASE Queued(st) = {}
  BY <1>2 DEF DispatchOrCharge, HoldAt, IsFirst
<1>3. CASE Queued(st) # {}
  BY <1>1, <1>3 DEF DispatchOrCharge, HoldAt, IsFirst
<1> QED
  BY <1>2, <1>3

\* Where a robot without a mission goes as long as no order is started: home, to the charger,
\* and to rest, never back.
LEMMA RestCourse ==
  ASSUME RobotInv, [Next]_vars, ~Started, active = NoOrder
  PROVE  /\ active' = NoOrder
         /\ phase = "TERMINAL_HOLD" => phase' = "TERMINAL_HOLD"
         /\ phase = "IDLE_AT_DOCK" =>
              phase' = "IDLE_AT_DOCK" \/ (phase' = "CHARGING" /\ Queued(orderState') # {})
         /\ phase = "CHARGING" =>
              \/ phase' \in {"CHARGING", "TERMINAL_HOLD"}
              \/ phase' = "IDLE_AT_DOCK" /\ Queued(orderState') = {}
         /\ phase = "NAVIGATE_DOCK" =>
              \/ phase' \in {"NAVIGATE_DOCK", "CHARGING", "TERMINAL_HOLD"}
              \/ phase' = "IDLE_AT_DOCK" /\ Queued(orderState') = {}
<1> USE DEF vars, robotVars
<1>t. /\ orderState \in OrderTable /\ phase \in SystemPhases
      /\ phase \in {"IDLE_AT_DOCK", "CHARGING"} => location = "dock"
      /\ \A q \in Orders : orderState[q] # "RUNNING"
  BY OrderAssumption DEF RobotInv, TypeOK, OneActiveMission, ChargeCoversMission, OrderTable
<1>k. ASSUME UNCHANGED <<active, phase>> PROVE active' = NoOrder /\ phase' = phase
  BY <1>k
<1>q. ASSUME NEW o \in Orders
      PROVE  LET st == [orderState EXCEPT ![o] = "QUEUED"]
             IN st \in OrderTable /\ o \in Queued(st)
  BY <1>t DEF OrderTable, OrderStates, Queued, InState
<1>s. ASSUME NEW o \in Orders, StartOrder([orderState EXCEPT ![o] = "QUEUED"], o) PROVE FALSE
  BY <1>s, <1>t DEF StartOrder, Started, OrderTable
<1>1. ASSUME NEW o \in Orders, Submit(o) \/ StartNext(o)
      PROVE  \/ UNCHANGED <<active, phase>>
             \/ phase = "IDLE_AT_DOCK" /\ active' = NoOrder /\ phase' = "CHARGING"
                /\ Queued(orderState') # {}
  <2> DEFINE st == [orderState EXCEPT ![o] = "QUEUED"]
  <2>1. CASE \E seqs : DispatchOrCharge(st, seqs, location, charge, 0) /\ phase = "IDLE_AT_DOCK"
    <3>1. PICK seqs : DispatchOrCharge(st, seqs, location, charge, 0)
      BY <2>1
    <3>2. st \in OrderTable /\ o \in Queued(st)
      BY <1>q
    <3>3. \A q \in Orders : st[q] = "QUEUED" => orderState[q] # "RUNNING"
      BY <1>t
    <3> HIDE DEF st
    <3>4. orderState' = st /\ active' = NoOrder /\ phase' = "CHARGING"
      BY <1>t, <2>1, <3>1, <3>2, <3>3, DispatchWaits
    <3> QED
      BY <2>1, <3>2, <3>4
  <2>2. CASE StartOrder(st, o)
    BY <1>s, <2>2
  <2> QED
    BY <1>1, <2>1, <2>2 DEF Submit, StartNext
<1>2. ASSUME NEW o \in Orders, Cancel(o) \/ Accept(o) \/ Reject(o) PROVE UNCHANGED <<active, phase>>
  BY <1>2, OrderAssumption DEF Cancel, Accept, Reject
<1>3. CASE EmergencyStop
  BY <1>3 DEF EmergencyStop
<1>w. ASSUME NEW seqs, NEW available, NEW n,
             DispatchOrCharge(orderState, seqs, location, available, n)
      PROVE  /\ orderState' = orderState /\ active' = NoOrder
             /\ Queued(orderState) = {} =>
                  phase' = IF location = "dock" THEN "IDLE_AT_DOCK" ELSE "NAVIGATE_DOCK"
             /\ Queued(orderState) # {} =>
                  phase' = IF location = "dock" THEN "CHARGING" ELSE "NAVIGATE_DOCK"
  BY <1>t, <1>w, DispatchWaits
<1>4. CASE AdvanceIdle
  BY <1>t, <1>4, <1>w DEF AdvanceIdle
<1>5. CASE AdvanceFailure
  <2>1. phase \in {"NAVIGATE_DOCK", "CHARGING"} /\ phase \notin RetryablePhases
    BY <1>t, <1>5, ConfigAssumption DEF AdvanceFailure, SystemPhases, SkillPhases, ServicePhases
  <2>2. EndMission(orderState)
    BY <1>5, <2>1 DEF AdvanceFailure
  <2>3. CASE RequireDockReturn
    BY <2>1, <2>2, <2>3 DEF EndMission, HoldAt
  <2>4. CASE ~RequireDockReturn
    BY <1>t, <1>w, <2>1, <2>2, <2>4 DEF EndMission, DecideAfterTerminalOrder
  <2> QED
    BY <2>3, <2>4
<1>6. CASE AdvanceCharging
  BY <1>t, <1>6, <1>w DEF AdvanceCharging
<1>7. CASE AdvanceDock
  BY <1>7 DEF AdvanceDock
<1>8. ~AdvanceService
  BY DEF AdvanceService
<1>9. CASE UNCHANGED vars
  BY <1>9
<1> QED
  BY <1>1, <1>2, <1>3, <1>4, <1>5, <1>6, <1>7, <1>8, <1>9 DEF Next

\* What the robot's own steps then do.
LEMMA RestSteps ==
  ASSUME RobotInv, ~Started, active = NoOrder
  PROVE  /\ AdvanceDock => phase' = "CHARGING"
         /\ Affordable /\ AdvanceCharging => phase' = "IDLE_AT_DOCK" /\ Queued(orderState') = {}
         /\ AdvanceIdle /\ Queued(orderState) # {} => phase' = "CHARGING"
<1>t. /\ orderState \in OrderTable
      /\ phase \in {"IDLE_AT_DOCK", "CHARGING"} => location = "dock"
      /\ \A q \in Orders : orderState[q] # "RUNNING"
  BY OrderAssumption DEF RobotInv, TypeOK, OneActiveMission, ChargeCoversMission, OrderTable
<1>1. AdvanceDock => phase' = "CHARGING"
  BY DEF AdvanceDock
<1>2. ASSUME Affordable, AdvanceCharging PROVE phase' = "IDLE_AT_DOCK" /\ Queued(orderState') = {}
  <2>1. DispatchOrCharge(orderState, sequenceOf, "dock", ChargeTarget, 0)
    BY <1>t, <1>2 DEF AdvanceCharging
  <2>2. orderState' = orderState /\ Queued(orderState) = {}
    BY <1>t, <1>2, <2>1, DispatchWaits DEF Affordable
  <2> QED
    BY <1>t, <2>1, <2>2, DispatchWaits
<1>3. ASSUME AdvanceIdle, Queued(orderState) # {} PROVE phase' = "CHARGING"
  BY <1>t, <1>3, DispatchWaits DEF AdvanceIdle
<1> QED
  BY <1>1, <1>2, <1>3

\* A mission under way goes on to its next phase, ends, or another order is started.
Works(p) ==
  [](active # NoOrder /\ phase = p
       => <>(active = NoOrder \/ (active # NoOrder /\ phase = PhaseAfter(p))) \/ <><<Started>>_vars)

\* The same for the drive home with which a mission ends.
WorksHome ==
  [](active # NoOrder /\ phase = "NAVIGATE_DOCK" => <>(active = NoOrder) \/ <><<Started>>_vars)

\* Without a start the active order's mission ends with none.
LEMMA ActiveCourse ==
  ASSUME RobotInv, RobotInv', [Next]_vars, active # NoOrder, ~Started
  PROVE  \/ active' = NoOrder
         \/ active' = active /\ phase' = phase
         \/ active' = active /\ phase' = PhaseAfter(phase) /\ AdvanceService
<1>1. active \in Orders
  BY DEF RobotInv, TypeOK
<1>2. ASSUME orderState'[active] \in TerminalOrderStates PROVE active' = NoOrder
  <2> SUFFICES ASSUME active' # NoOrder PROVE FALSE
    OBVIOUS
  <2>1. active' \in Orders /\ orderState'[active'] = "RUNNING"
    BY DEF RobotInv, TypeOK, OneActiveMission
  <2>2. active' # active
    BY <1>2, <2>1 DEF TerminalOrderStates
  <2>3. orderState[active'] # "RUNNING"
    BY <2>1, <2>2 DEF RobotInv, OneActiveMission
  <2> QED
    BY <2>1, <2>3 DEF Started
<1> QED
  BY <1>1, <1>2, MissionCourse DEF RobotInv

LEMMA PhaseWorks ==
  ASSUME NEW p \in ServicePhases
  PROVE  Spec /\ ServiceProceeds => Works(p)
<1> DEFINE A == active # NoOrder /\ phase = p
           B == active = NoOrder \/ (active # NoOrder /\ phase = PhaseAfter(p))
           N == phase \notin ServicePhases
           S == AdvanceService
           X == Started
           I == RobotInv
<1>x. Started => <<X>>_vars
  BY DEF Started, vars
<1>1. I /\ I' /\ [Next]_vars /\ A => A' \/ B' \/ <<X>>_vars
  BY <1>x, ActiveCourse
<1>2. I /\ I' /\ <<S>>_vars /\ A => B' \/ <<X>>_vars
  <2> SUFFICES ASSUME I, I', AdvanceService, A, ~Started PROVE B'
    BY <1>x
  <2>1. NextPhase[phase] # phase /\ "NAVIGATE_DOCK" # phase
    BY DEF NextPhase, ServicePhases
  <2>2. CASE NextPhase[phase] # "DONE" \/ RequireDockReturn
    BY <2>1, <2>2, ActiveCourse DEF AdvanceService, Next
  <2>3. CASE NextPhase[phase] = "DONE" /\ ~RequireDockReturn
    <3> DEFINE st == [orderState EXCEPT ![active] = "SUCCEEDED"]
    <3>1. st \in OrderTable /\ \A q \in Orders : st[q] = "QUEUED" => orderState[q] # "RUNNING"
      BY DEF RobotInv, TypeOK, OrderTable, OrderStates
    <3> HIDE DEF st
    <3>2. DispatchOrCharge(st, sequenceOf, location', charge', 1)
      BY <2>3 DEF AdvanceService, DecideAfterTerminalOrder, st
    <3> QED
      BY <3>1, <3>2, DispatchWaits
  <2> QED
    BY <2>2, <2>3
<1>3. A => ~N
  OBVIOUS
<1> HIDE DEF A, B, N, S, X, I
<1>4. Spec /\ ([]<>N \/ []<><<S>>_vars) => [](A => <>B \/ <><<X>>_vars)
  BY <1>1, <1>2, <1>3, RobotInvariant, PTL DEF Spec, I
<1> QED
  BY <1>4 DEF A, B, N, S, X, ServiceProceeds, Works

LEMMA HomeWorks == Spec /\ DockProceeds => WorksHome
<1> DEFINE A == active # NoOrder /\ phase = "NAVIGATE_DOCK"
           B == active = NoOrder
           N == phase # "NAVIGATE_DOCK"
           S == AdvanceDock
           X == Started
           I == RobotInv
<1>x. Started => <<X>>_vars
  BY DEF Started, vars
<1>1. I /\ I' /\ [Next]_vars /\ A => A' \/ B' \/ <<X>>_vars
  <2> SUFFICES ASSUME I, I', [Next]_vars, A, ~Started PROVE A' \/ B'
    BY <1>x
  <2>1. ~AdvanceService
    BY DEF AdvanceService, ServicePhases
  <2> QED
    BY <2>1, ActiveCourse
<1>2. I /\ <<S>>_vars /\ A => B'
  BY DEF RobotInv, OneActiveMission, ServicePhases, AdvanceDock, HoldAt
<1>3. A => ~N
  OBVIOUS
<1> HIDE DEF A, B, N, S, X, I
<1>4. Spec /\ ([]<>N \/ []<><<S>>_vars) => [](A => <>B \/ <><<X>>_vars)
  BY <1>1, <1>2, <1>3, RobotInvariant, PTL DEF Spec, I
<1> QED
  BY <1>4 DEF A, B, N, S, X, DockProceeds, WorksHome

\* When no more orders are started, there is no mission any more at last.
LEMMA MissionsCease ==
  Spec /\ ServiceProceeds /\ DockProceeds => []<><<Started>>_vars \/ <>[](active = NoOrder)
<1> DEFINE F == active = NoOrder
           At(p) == active # NoOrder /\ phase = p
           On(p) == active = NoOrder \/ (active # NoOrder /\ phase = PhaseAfter(p))
           X == Started
           I == RobotInv
<1>p. ServicePhases =
        { "NAVIGATE_KITCHEN", "ALIGN_KITCHEN", "GRASP_CUP", "GRASP_BOTTLE", "POUR",
          "RETURN_BOTTLE", "PLACE_DECK", "NAVIGATE_TABLE", "ALIGN_TABLE", "REGRASP_CUP", "SERVE" }
  BY DEF ServicePhases
<1>1. I => \/ F \/ At("NAVIGATE_KITCHEN") \/ At("ALIGN_KITCHEN") \/ At("GRASP_CUP")
           \/ At("GRASP_BOTTLE") \/ At("POUR") \/ At("RETURN_BOTTLE") \/ At("PLACE_DECK")
           \/ At("NAVIGATE_TABLE") \/ At("ALIGN_TABLE") \/ At("REGRASP_CUP") \/ At("SERVE")
           \/ At("NAVIGATE_DOCK")
  BY <1>p DEF RobotInv, OneActiveMission
<1>2. /\ On("NAVIGATE_KITCHEN") => F \/ At("ALIGN_KITCHEN")
      /\ On("ALIGN_KITCHEN") => F \/ At("GRASP_CUP")
      /\ On("GRASP_CUP") => F \/ At("GRASP_BOTTLE")
      /\ On("GRASP_BOTTLE") => F \/ At("POUR")
      /\ On("POUR") => F \/ At("RETURN_BOTTLE")
      /\ On("RETURN_BOTTLE") => F \/ At("PLACE_DECK")
      /\ On("PLACE_DECK") => F \/ At("NAVIGATE_TABLE")
      /\ On("NAVIGATE_TABLE") => F \/ At("ALIGN_TABLE")
      /\ On("ALIGN_TABLE") => F \/ At("REGRASP_CUP")
      /\ On("REGRASP_CUP") => F \/ At("SERVE")
      /\ On("SERVE") => F \/ At("NAVIGATE_DOCK")
  BY DEF PhaseAfter, NextPhase
<1>3. Spec /\ ServiceProceeds =>
        /\ Works("NAVIGATE_KITCHEN") /\ Works("ALIGN_KITCHEN") /\ Works("GRASP_CUP")
        /\ Works("GRASP_BOTTLE") /\ Works("POUR") /\ Works("RETURN_BOTTLE")
        /\ Works("PLACE_DECK") /\ Works("NAVIGATE_TABLE") /\ Works("ALIGN_TABLE")
        /\ Works("REGRASP_CUP") /\ Works("SERVE")
  BY <1>p, PhaseWorks
<1>4. Spec /\ DockProceeds => [](At("NAVIGATE_DOCK") => <>F \/ <><<X>>_vars)
  BY HomeWorks DEF WorksHome
<1>5. I /\ [Next]_vars /\ F => F' \/ <<X>>_vars
  <2>1. Started => <<X>>_vars
    BY DEF Started, vars
  <2> QED
    BY <2>1, RestCourse
<1> HIDE DEF I, F, X
<1>6. Spec /\ ServiceProceeds /\ DockProceeds => []<><<X>>_vars \/ <>[]F
  BY <1>1, <1>2, <1>3, <1>4, <1>5, RobotInvariant, PTL DEF Works, X, I, Spec
<1> QED
  BY <1>6 DEF F, X

\* Weak fairness of the two steps that Fairness asks of a robot at rest, with their guards
\* in the place of ENABLED: charging ends, and released orders are looked at.
ChargingProceeds == []<>(phase # "CHARGING") \/ []<><<AdvanceCharging>>_vars
IdleProceeds ==
  \/ []<>~(phase = "IDLE_AT_DOCK" /\ Queued(orderState) # {})
  \/ []<><<AdvanceIdle>>_vars

\* One order's part of ReleasedOrderMovesOn.
MovesOn(o) == (orderState[o] = "QUEUED") ~> (orderState[o] # "QUEUED" \/ phase = "TERMINAL_HOLD")

\* A released order does not wait for ever for a robot without a mission: the robot drives
\* home and charges, and a full battery starts the first order.
LEMMA OneOrderMovesOn ==
  ASSUME NEW o \in Orders, Affordable
  PROVE  Spec /\ ServiceProceeds /\ DockProceeds /\ ChargingProceeds /\ IdleProceeds
           => []<><<Started>>_vars \/ MovesOn(o)
<1> DEFINE F == active = NoOrder
           W == orderState[o] = "QUEUED"
           G == orderState[o] # "QUEUED" \/ phase = "TERMINAL_HOLD"
           D == phase = "NAVIGATE_DOCK"
           C == phase = "CHARGING"
           R == phase = "IDLE_AT_DOCK"
           ND == phase # "NAVIGATE_DOCK"
           NC == phase # "CHARGING"
           NR == ~(phase = "IDLE_AT_DOCK" /\ Queued(orderState) # {})
           SD == AdvanceDock
           SC == AdvanceCharging
           SR == AdvanceIdle
           X == Started
           I == RobotInv
<1>x. Started => <<X>>_vars
  BY DEF Started, vars
<1>w. /\ W => Queued(orderState) # {}
      /\ ~G' => Queued(orderState') # {} /\ phase' # "TERMINAL_HOLD"
  BY DEF Queued, InState
<1>1. I /\ F => D \/ C \/ R \/ G
  BY OrderAssumption DEF RobotInv, TypeOK, OneActiveMission, SystemPhases
<1>2. I /\ [Next]_vars /\ F => <<X>>_vars \/ G' \/ ((C => C') /\ (D => D' \/ C') /\ (R => R' \/ C'))
  BY <1>x, <1>w, RestCourse
<1>3. I /\ F /\ W =>
        /\ <<SC>>_vars /\ C => <<X>>_vars \/ G'
        /\ <<SD>>_vars /\ D => <<X>>_vars \/ C'
        /\ <<SR>>_vars /\ R => <<X>>_vars \/ C'
  BY <1>x, <1>w, RestSteps
<1>4. (D => ~ND) /\ (C => ~NC) /\ (R /\ W => ~NR) /\ (~W => G)
  BY <1>w
<1> HIDE DEF F, W, G, D, C, R, ND, NC, NR, SD, SC, SR, X, I
<1>5. Spec /\ ([]<><<X>>_vars \/ <>[]F) /\ ([]<>ND \/ []<><<SD>>_vars)
           /\ ([]<>NC \/ []<><<SC>>_vars) /\ ([]<>NR \/ []<><<SR>>_vars)
        => []<><<X>>_vars \/ (W ~> G)
  BY <1>1, <1>2, <1>3, <1>4, RobotInvariant, PTL DEF Spec, I
<1>6. Spec /\ ServiceProceeds /\ DockProceeds => []<><<X>>_vars \/ <>[]F
  BY MissionsCease DEF X, F
<1> QED
  BY <1>5, <1>6 DEF W, G, ND, NC, NR, SD, SC, SR, X, DockProceeds, ChargingProceeds, IdleProceeds,
     MovesOn

\* A released order is started, canceled or taken back, as long as a full battery serves it
\* and orders are not started for ever in its place: neither the drive home nor the charger
\* keeps it.  (Orders are finitely many and each is started once; that the starts then come to
\* an end is induction over their number, which stays with TLC.)
THEOREM ReleasedOrdersMoveOn ==
  ASSUME Affordable
  PROVE  Spec /\ ServiceProceeds /\ DockProceeds /\ ChargingProceeds /\ IdleProceeds
           => []<><<Started>>_vars \/ ReleasedOrderMovesOn
<1>1. Spec /\ ServiceProceeds /\ DockProceeds /\ ChargingProceeds /\ IdleProceeds
        => []<><<Started>>_vars \/ \A o \in Orders : MovesOn(o)
  BY OneOrderMovesOn
<1> QED
  BY <1>1 DEF MovesOn, ReleasedOrderMovesOn

\* An order is released or started.
OrderComes ==
  \E o \in Orders : orderState'[o] \in {"QUEUED", "RUNNING"} /\ orderState'[o] # orderState[o]

\* Without that the queue only shrinks.
LEMMA QueueShrinks ==
  ASSUME RobotInv, [Next]_vars, ~OrderComes
  PROVE  ~Started /\ (Queued(orderState) = {} => Queued(orderState') = {})
BY DEF OrderComes, Started, Queued, InState

\* When orders stop coming, the robot comes to rest at last: it neither charges nor drives
\* home again and again, whatever fails on the way and however often STOP is pressed.
THEOREM ComesToRestAtLast ==
  ASSUME Affordable
  PROVE  Spec /\ ServiceProceeds /\ DockProceeds /\ ChargingProceeds
           => []<><<OrderComes>>_vars \/ ComesToRest
<1> DEFINE F == active = NoOrder
           E == Queued(orderState) = {}
           D == phase = "NAVIGATE_DOCK"
           C == phase = "CHARGING"
           R == phase = "IDLE_AT_DOCK"
           H == phase = "TERMINAL_HOLD"
           G == phase \in {"IDLE_AT_DOCK", "TERMINAL_HOLD"}
           ND == phase # "NAVIGATE_DOCK"
           NC == phase # "CHARGING"
           SD == AdvanceDock
           SC == AdvanceCharging
           X == Started
           Y == OrderComes
           I == RobotInv
<1>y. (OrderComes => <<Y>>_vars) /\ (<<X>>_vars => <<Y>>_vars)
  BY DEF OrderComes, Started, vars
<1>1. I /\ F => D \/ C \/ R \/ H
  BY OrderAssumption DEF RobotInv, TypeOK, OneActiveMission, SystemPhases
<1>2. I /\ [Next]_vars /\ F =>
        \/ <<Y>>_vars
        \/ /\ E => E'
           /\ H => H'
           /\ R => R' \/ (C' /\ ~E')
           /\ C => C' \/ H' \/ (R' /\ E')
           /\ D => D' \/ C' \/ H' \/ (R' /\ E')
  BY <1>y, QueueShrinks, RestCourse
<1>3. I /\ F => /\ <<SC>>_vars /\ C => <<Y>>_vars \/ (R' /\ E')
                /\ <<SD>>_vars /\ D => <<Y>>_vars \/ C'
  BY <1>y, RestSteps
<1>4. (D => ~ND) /\ (C => ~NC) /\ (R \/ H => G)
  OBVIOUS
<1> HIDE DEF F, E, D, C, R, H, G, ND, NC, SD, SC, X, Y, I
<1>5. Spec /\ ([]<><<X>>_vars \/ <>[]F) /\ ([]<>ND \/ []<><<SD>>_vars)
           /\ ([]<>NC \/ []<><<SC>>_vars)
        => []<><<Y>>_vars \/ <>[]G
  BY <1>y, <1>1, <1>2, <1>3, <1>4, RobotInvariant, PTL DEF Spec, I
<1>6. Spec /\ ServiceProceeds /\ DockProceeds => []<><<X>>_vars \/ <>[]F
  BY MissionsCease DEF X, F
<1>7. Spec /\ ServiceProceeds /\ DockProceeds /\ ChargingProceeds
        => []<><<Y>>_vars \/ <>[]G
  BY <1>5, <1>6 DEF ND, NC, SD, SC, DockProceeds, ChargingProceeds
<1> QED
  BY <1>7 DEF Y, G, ComesToRest

=============================================================================
