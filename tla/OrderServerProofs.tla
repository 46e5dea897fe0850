--------------------------- MODULE OrderServerProofs ---------------------------
(***************************************************************************)
(* Theorems about OrderServer: the server drives the mission controller    *)
(* and the rollout service only as they allow (it implements the           *)
(* specification of each), and its own invariants.  Those about the        *)
(* backend's memory are for a server that does not crash, which loses it.  *)
(***************************************************************************)
EXTENDS OrderServer, TLAPS

AllPhases == Controller!ServicePhases \cup Controller!SystemPhases
OrderTable == [Orders -> Controller!OrderStates \cup {"NONE"}]

------------------------------------------------------------------------------
(* The controller within the server *)

\* A cancellation under way is that of an order.
CancelFits ==
  /\ canceling \in [at : {"none", "wait", "run", "end"}, order : Orders \cup {NoOrder}]
  /\ canceling.at # "none" => canceling.order \in Orders

\* The controller's fields have their types, and it has an order just in the phases of a
\* mission (RequireDockReturn is off).
MissionFits ==
  /\ orderState \in OrderTable
  /\ active \in Orders \cup {NoOrder}
  /\ phase \in AllPhases
  /\ phase \in Controller!ServicePhases <=> active \in Orders

\* Every step of the server is one of the controller, or leaves it alone.
LEMMA ControllerStep ==
  CancelFits /\ [Next]_serverVars => [Controller!Next]_(Controller!vars)
<1> SUFFICES ASSUME CancelFits, [Next]_serverVars
             PROVE  Controller!Next \/ UNCHANGED Controller!vars
  OBVIOUS
<1> USE DEF missionVars, Controller!vars, Controller!Next
<1>1. CASE Fetch \/ Enter \/ AskStow \/ AlignBegin \/ AlignPoll \/ AlignTimeout \/ AlignEnd
  BY <1>1 DEF Fetch, Enter, AskStow, AlignBegin, AlignPoll, AlignTimeout, AlignEnd
<1>2. CASE Mark \/ Check \/ Post \/ Answer \/ Leave
  BY <1>2 DEF Mark, Check, Post, Answer, Leave
<1>3. CASE Report
  BY <1>3 DEF Report, Controller!AdvanceSuccess
<1>4. CASE Desk \/ CancelOrder
  BY <1>4 DEF Desk, CancelOrder
<1>5. CASE ConfirmAlignment \/ CancelRead \/ CancelBackend
  BY <1>5 DEF ConfirmAlignment, CancelRead, CancelBackend
<1>6. CASE CancelEnd
  BY <1>6 DEF CancelEnd, CancelFits
<1>7. CASE EStopLatch \/ EStopHalt \/ EStopArms \/ Reset
  BY <1>7 DEF EStopLatch, EStopHalt, EStopArms, Reset
<1>8. CASE EStopEnd
  BY <1>8 DEF EStopEnd
<1>9. CASE ServiceStep \/ PolicyStep \/ ServiceInterrupt \/ ServiceRestart \/ Crash
  BY <1>9 DEF ServiceStep, PolicyStep, ServiceInterrupt, ServiceRestart, Crash
<1>10. CASE UNCHANGED serverVars
  BY <1>10 DEF serverVars
<1> QED
  BY <1>1, <1>2, <1>3, <1>4, <1>5, <1>6, <1>7, <1>8, <1>9, <1>10 DEF Next, WorkerStep

\* What the controller's dispatcher may leave behind when it starts from the table st:
\* a robot without a mission, or a mission that begins.
Settled(st) ==
  \/ /\ orderState' = st /\ active' = NoOrder
     /\ phase' \in Controller!SystemPhases
  \/ \E o \in Orders :
       /\ st[o] = "QUEUED" /\ orderState' = [st EXCEPT ![o] = "RUNNING"]
       /\ active' = o /\ phase' = "NAVIGATE_KITCHEN"

\* The dispatcher does no more than that.
LEMMA DispatchSettles ==
  ASSUME NEW st, NEW seqs, NEW from, NEW available, NEW n,
         Controller!DispatchOrCharge(st, seqs, from, available, n)
  PROVE  Settled(st)
BY DEF Controller!DispatchOrCharge, Controller!HoldAt, Controller!StartOrder, Controller!IsFirst,
       Controller!Queued, Controller!InState, Controller!SystemPhases, Settled

\* Nor does the end of a mission.
LEMMA EndSettles ==
  ASSUME NEW st, Controller!EndMission(st)
  PROVE  Settled(st)
BY DispatchSettles DEF Controller!EndMission, Controller!DecideAfterTerminalOrder

\* What it leaves behind fits.
LEMMA SettledFits ==
  ASSUME NEW st \in OrderTable, Settled(st)
  PROVE  MissionFits'
<1>1. "RUNNING" \in Controller!OrderStates /\ "NAVIGATE_KITCHEN" \in Controller!ServicePhases
      /\ Controller!SystemPhases \cap Controller!ServicePhases = {}
  BY DEF Controller!OrderStates, Controller!ServicePhases, Controller!SystemPhases
<1> QED
  BY <1>1, ServerAssumption DEF Settled, MissionFits, OrderTable, AllPhases

\* The controller keeps its fields in order, whoever calls it.
LEMMA MissionStep == MissionFits /\ [Controller!Next]_(Controller!vars) => MissionFits'
<1> SUFFICES ASSUME MissionFits, [Controller!Next]_(Controller!vars) PROVE MissionFits'
  OBVIOUS
<1>t. /\ orderState \in OrderTable /\ active \in Orders \cup {NoOrder}
      /\ phase \in AllPhases /\ (phase \in Controller!ServicePhases <=> active \in Orders)
  BY DEF MissionFits
<1>s. \A o \in Orders, s \in Controller!OrderStates : [orderState EXCEPT ![o] = s] \in OrderTable
  BY <1>t DEF OrderTable
<1>o. {"PENDING", "ACCEPTED", "QUEUED", "RUNNING", "REJECTED", "CANCELED", "FAILED", "SUCCEEDED"}
        \subseteq Controller!OrderStates
  BY DEF Controller!OrderStates, Controller!TerminalOrderStates
<1>k. ASSUME orderState' \in OrderTable, UNCHANGED <<active, phase>> PROVE MissionFits'
  BY <1>k, <1>t DEF MissionFits
<1>1. ASSUME NEW o \in Orders, Controller!Submit(o) PROVE MissionFits'
  <2>1. CASE \E s \in {"PENDING", "ACCEPTED", "QUEUED"} :
               orderState' = [orderState EXCEPT ![o] = s] /\ UNCHANGED <<active, phase>>
    BY <1>s, <1>o, <1>k, <2>1
  <2>2. CASE Settled([orderState EXCEPT ![o] = "QUEUED"])
    BY <1>s, <1>o, <2>2, SettledFits
  <2>3. CASE Controller!StartOrder([orderState EXCEPT ![o] = "QUEUED"], o)
    <3>1. [orderState EXCEPT ![o] = "QUEUED"][o] = "QUEUED"
      BY <1>t DEF OrderTable
    <3> QED
      BY <2>2, <2>3, <3>1 DEF Settled, Controller!StartOrder
  <2> QED
    BY <1>1, <2>1, <2>2, <2>3, DispatchSettles DEF Controller!Submit
<1>2. ASSUME NEW o \in Orders, Controller!Cancel(o) PROVE MissionFits'
  BY <1>2, <1>s, <1>o, <1>k, EndSettles, SettledFits DEF Controller!Cancel
<1>3. ASSUME NEW o \in Orders, Controller!Accept(o) \/ Controller!Reject(o) PROVE MissionFits'
  BY <1>3, <1>s, <1>o, <1>k DEF Controller!Accept, Controller!Reject, Controller!robotVars
<1>4. ASSUME NEW o \in Orders, Controller!StartNext(o) PROVE MissionFits'
  <2>1. CASE orderState' = [orderState EXCEPT ![o] = "QUEUED"] /\ UNCHANGED <<active, phase>>
    BY <1>s, <1>o, <1>k, <2>1
  <2>2. CASE Settled([orderState EXCEPT ![o] = "QUEUED"])
    BY <1>s, <1>o, <2>2, SettledFits
  <2>3. CASE Controller!StartOrder([orderState EXCEPT ![o] = "QUEUED"], o)
    <3>1. [orderState EXCEPT ![o] = "QUEUED"][o] = "QUEUED"
      BY <1>t DEF OrderTable
    <3> QED
      BY <2>2, <2>3, <3>1 DEF Settled, Controller!StartOrder
  <2> QED
    BY <1>4, <2>1, <2>2, <2>3, DispatchSettles DEF Controller!StartNext
<1>5. CASE Controller!EmergencyStop
  <2> DEFINE st == [o \in Orders |->
                      IF orderState[o] = "QUEUED" THEN "ACCEPTED" ELSE orderState[o]]
  <2>1. st \in OrderTable
    BY <1>t, <1>o DEF OrderTable
  <2>2. active # NoOrder => [st EXCEPT ![active] = "FAILED"] \in OrderTable
    BY <1>t, <1>o, <2>1 DEF OrderTable
  <2>3. CASE active = NoOrder
    BY <1>5, <1>k, <2>1, <2>3 DEF Controller!EmergencyStop
  <2>4. CASE active # NoOrder
    BY <1>5, <2>2, <2>4, EndSettles, SettledFits DEF Controller!EmergencyStop
  <2> QED
    BY <2>3, <2>4
<1>6. CASE Controller!AdvanceIdle \/ Controller!AdvanceCharging
  BY <1>6, <1>t, DispatchSettles, SettledFits DEF Controller!AdvanceIdle, Controller!AdvanceCharging
<1>7. CASE Controller!AdvanceFailure
  <2>1. active # NoOrder => [orderState EXCEPT ![active] = "FAILED"] \in OrderTable
    BY <1>t, <1>s, <1>o
  <2> QED
    BY <1>7, <1>t, <1>k, <2>1, EndSettles, SettledFits DEF Controller!AdvanceFailure
<1>8. CASE Controller!AdvanceDock
  BY <1>8, <1>t DEF Controller!AdvanceDock, MissionFits, AllPhases, Controller!SystemPhases,
                    Controller!ServicePhases
<1>9. CASE Controller!AdvanceService
  <2>1. active \in Orders /\ [orderState EXCEPT ![active] = "SUCCEEDED"] \in OrderTable
    BY <1>9, <1>t, <1>s, <1>o DEF Controller!AdvanceService
  <2>2. phase \in Controller!ServicePhases
        /\ Controller!NextPhase[phase] \in Controller!ServicePhases \cup {"DONE"}
    BY <1>9 DEF Controller!AdvanceService, Controller!NextPhase, Controller!ServicePhases
  <2>3. CASE /\ phase' = Controller!NextPhase[phase] /\ Controller!NextPhase[phase] # "DONE"
             /\ UNCHANGED <<orderState, active>>
    BY <1>t, <2>1, <2>2, <2>3 DEF MissionFits, AllPhases
  <2>4. CASE Controller!DecideAfterTerminalOrder([orderState EXCEPT ![active] = "SUCCEEDED"],
                                                 location', charge')
    BY <2>1, <2>4, DispatchSettles, SettledFits DEF Controller!DecideAfterTerminalOrder
  <2> QED
    BY <1>9, <2>3, <2>4 DEF Controller!AdvanceService
<1>10. CASE UNCHANGED Controller!vars
  BY <1>10, <1>t DEF Controller!vars, MissionFits
<1> QED
  BY <1>1, <1>2, <1>3, <1>4, <1>5, <1>6, <1>7, <1>8, <1>9, <1>10 DEF Controller!Next

\* A cancellation names the active order when it begins.
LEMMA CancelStep == MissionFits /\ CancelFits /\ [Next]_serverVars => CancelFits'
<1> SUFFICES ASSUME MissionFits, CancelFits, [Next]_serverVars PROVE CancelFits'
  OBVIOUS
<1> USE DEF CancelFits
<1>1. CASE CancelRead
  BY <1>1 DEF CancelRead, MissionFits
<1>2. CASE CancelBackend \/ CancelEnd \/ Crash
  BY <1>2 DEF CancelBackend, CancelEnd, Crash, NotCanceling
<1>3. CASE WorkerStep \/ AlignTimeout \/ Answer
  BY <1>3 DEF WorkerStep, Fetch, Enter, AskStow, AlignBegin, AlignPoll, AlignTimeout, AlignEnd,
              Mark, Check, Post, Answer, Leave, Report
<1>4. CASE Desk \/ ConfirmAlignment \/ CancelOrder
  BY <1>4 DEF Desk, ConfirmAlignment, CancelOrder
<1>5. CASE EStopLatch \/ EStopHalt \/ EStopArms \/ EStopEnd \/ Reset
  BY <1>5 DEF EStopLatch, EStopHalt, EStopArms, EStopEnd, Reset
<1>6. CASE ServiceStep \/ PolicyStep \/ ServiceInterrupt \/ ServiceRestart
  BY <1>6 DEF ServiceStep, PolicyStep, ServiceInterrupt, ServiceRestart
<1>7. CASE UNCHANGED serverVars
  BY <1>7 DEF serverVars
<1> QED
  BY <1>1, <1>2, <1>3, <1>4, <1>5, <1>6, <1>7 DEF Next

\* Both hold in every reachable state.
LEMMA MissionAlwaysFits == Spec => [](MissionFits /\ CancelFits)
<1>1. Init => MissionFits /\ CancelFits
  <2>1. "NONE" \in Controller!OrderStates \cup {"NONE"} /\ "IDLE_AT_DOCK" \in AllPhases
        /\ "IDLE_AT_DOCK" \notin Controller!ServicePhases
    BY DEF AllPhases, Controller!SystemPhases, Controller!ServicePhases
  <2>2. Init => CancelFits
    BY DEF Init, CancelFits, NotCanceling
  <2>3. Init => orderState = [o \in Orders |-> "NONE"] /\ active = NoOrder /\ phase = "IDLE_AT_DOCK"
    BY DEF Init, Controller!Init
  <2> QED
    BY <2>1, <2>2, <2>3, ServerAssumption DEF MissionFits, OrderTable
<1> QED
  BY <1>1, ControllerStep, MissionStep, CancelStep, PTL DEF Spec

\* The server calls the controller as its specification allows: all that is proved of
\* MissionController holds within the server, whatever its threads do.
THEOREM ImplementsController == Spec => Controller!Spec
<1>1. Init => Controller!Init
  BY DEF Init
<1> QED
  BY <1>1, ControllerStep, MissionAlwaysFits, PTL DEF Spec, Controller!Spec

------------------------------------------------------------------------------
(* The worker and its calls of the rollout service *)

\* Points of a call, and those after which the backend names its task.
Calling == { "mark", "check", "post", "await", "leave" }
Named == { "check", "post", "await", "leave" }

\* The worker is where its command belongs, and _running names the task of its call.
WorkerFits ==
  /\ worker \in [at : Points, phase : AllPhases, order : Orders \cup {NoOrder}, ok : BOOLEAN]
  /\ worker.at # "idle" /\ worker.phase \in Controller!ServicePhases => worker.order \in Orders
  /\ worker.at = "stow" => worker.phase = "NAVIGATE_KITCHEN"
  /\ worker.at \in {"align", "aligning", "leave gate"} => worker.phase \in AlignPhases
  /\ worker.at \in Calling => worker.phase \in RunPhases \cup {"NAVIGATE_KITCHEN"}
  /\ running = IF worker.at \in Named THEN Task ELSE "none"
  /\ aligned \in BOOLEAN

WorkerFields == [at : Points, phase : AllPhases, order : Orders \cup {NoOrder}, ok : BOOLEAN]

\* The worker goes on within its command.
LEMMA GoFits ==
  ASSUME worker \in WorkerFields, NEW where \in Points, Go(where)
  PROVE  /\ worker' \in WorkerFields /\ worker'.at = where
         /\ worker'.phase = worker.phase /\ worker'.order = worker.order
         /\ worker'.ok = worker.ok
BY DEF WorkerFields, Go

\* The same with an outcome.
LEMMA OutcomeFits ==
  ASSUME worker \in WorkerFields, NEW where \in Points, NEW ok \in BOOLEAN,
         worker' = [worker EXCEPT !.at = where, !.ok = ok]
  PROVE  /\ worker' \in WorkerFields /\ worker'.at = where
         /\ worker'.phase = worker.phase /\ worker'.order = worker.order
         /\ worker'.ok = ok
BY DEF WorkerFields

\* A step within the command that leaves _running alone.
LEMMA WithinCommand ==
  ASSUME WorkerFits, worker' \in WorkerFields, UNCHANGED running, aligned' \in BOOLEAN,
         worker'.phase = worker.phase, worker'.order = worker.order, worker.at # "idle",
         worker'.at \in Named <=> worker.at \in Named,
         worker'.at = "stow" => worker.phase = "NAVIGATE_KITCHEN",
         worker'.at \in {"align", "aligning", "leave gate"} => worker.phase \in AlignPhases,
         worker'.at \in Calling => worker.phase \in RunPhases \cup {"NAVIGATE_KITCHEN"}
  PROVE  WorkerFits'
BY DEF WorkerFits, WorkerFields, Task

\* The worker's steps keep it where its command belongs.
LEMMA WorkerStepFits == MissionFits /\ WorkerFits /\ [Next]_serverVars => WorkerFits'
<1> SUFFICES ASSUME MissionFits, WorkerFits, [Next]_serverVars PROVE WorkerFits'
  OBVIOUS
<1>t. worker \in WorkerFields /\ aligned \in BOOLEAN
  BY DEF WorkerFits, WorkerFields
<1>p. /\ "idle" \in Points /\ "enter" \in Points /\ "stow" \in Points /\ "align" \in Points
      /\ "aligning" \in Points /\ "leave gate" \in Points /\ "mark" \in Points
      /\ "check" \in Points /\ "post" \in Points /\ "await" \in Points /\ "leave" \in Points
      /\ "report" \in Points
  BY DEF Points
<1>r. ASSUME NEW ok \in BOOLEAN, Return(ok)
      PROVE  /\ worker' \in WorkerFields /\ worker'.at = "report"
             /\ worker'.phase = worker.phase /\ worker'.order = worker.order
  BY <1>t, <1>p, <1>r, OutcomeFits DEF Return
<1> USE DEF Calling, Named
<1>1. CASE Fetch
  <2>1. /\ worker' = [at |-> "enter", phase |-> phase, order |-> active, ok |-> FALSE]
        /\ UNCHANGED <<running, aligned>> /\ worker.at = "idle"
    BY <1>1 DEF Fetch, gateVars
  <2> QED
    BY <2>1, <1>p DEF WorkerFits, MissionFits
<1>2. CASE Enter
  <2>1. worker.at = "enter" /\ UNCHANGED <<running, aligned>>
    BY <1>2 DEF Enter, gateVars
  <2>2. ASSUME NEW ok \in BOOLEAN, Return(ok) PROVE WorkerFits'
    BY <1>t, <1>r, <2>1, <2>2, WithinCommand
  <2>3. CASE worker.phase = "NAVIGATE_KITCHEN" /\ Go("stow")
    BY <1>t, <1>p, <2>1, <2>3, GoFits, WithinCommand
  <2>4. CASE worker.phase \in AlignPhases /\ Go("align")
    BY <1>t, <1>p, <2>1, <2>4, GoFits, WithinCommand
  <2>5. CASE worker.phase \in RunPhases /\ Go("mark")
    BY <1>t, <1>p, <2>1, <2>5, GoFits, WithinCommand
  <2> QED
    BY <1>2, <2>2, <2>3, <2>4, <2>5 DEF Enter
<1>3. CASE AskStow
  <2>1. worker.at = "stow" /\ UNCHANGED <<running, aligned>> /\ worker.phase = "NAVIGATE_KITCHEN"
    BY <1>3 DEF AskStow, WorkerFits, gateVars
  <2>2. CASE Go("mark")
    BY <1>t, <1>p, <2>1, <2>2, GoFits, WithinCommand
  <2>3. ASSUME NEW ok \in BOOLEAN, Return(ok) PROVE WorkerFits'
    BY <1>t, <1>r, <2>1, <2>3, WithinCommand
  <2> QED
    BY <1>3, <2>2, <2>3 DEF AskStow
<1>4. CASE AlignBegin \/ AlignPoll \/ AlignTimeout \/ AlignEnd
  <2>1. /\ worker.at \in {"align", "aligning", "leave gate"} /\ UNCHANGED running
        /\ worker.phase \in AlignPhases /\ aligned' \in BOOLEAN
    BY <1>4 DEF AlignBegin, AlignPoll, AlignTimeout, AlignEnd, WorkerFits, gateVars
  <2>2. CASE Go("aligning") \/ Go("report")
    BY <1>t, <1>p, <2>1, <2>2, GoFits, WithinCommand
  <2>3. ASSUME NEW ok \in BOOLEAN, worker' = [worker EXCEPT !.at = "leave gate", !.ok = ok]
        PROVE  WorkerFits'
    BY <1>t, <1>p, <2>1, <2>3, OutcomeFits, WithinCommand
  <2>4. aligned \in BOOLEAN
    BY DEF WorkerFits
  <2> QED
    BY <1>4, <2>2, <2>3, <2>4 DEF AlignBegin, AlignPoll, AlignTimeout, AlignEnd
<1>5. CASE Mark
  <2>1. /\ worker.at = "mark" /\ running' = Task /\ Go("check") /\ UNCHANGED aligned
    BY <1>5 DEF Mark, gateVars
  <2>2. /\ worker' \in WorkerFields /\ worker'.at = "check" /\ worker'.phase = worker.phase
        /\ worker'.order = worker.order
    BY <1>t, <1>p, <2>1, GoFits
  <2> QED
    BY <2>1, <2>2 DEF WorkerFits, WorkerFields, Task
<1>6. CASE Check
  <2>1. worker.at = "check" /\ UNCHANGED aligned
    BY <1>6 DEF Check, gateVars
  <2>2. CASE running' = "none" /\ Return(FALSE)
    <3>1. /\ worker' \in WorkerFields /\ worker'.at = "report" /\ worker'.phase = worker.phase
          /\ worker'.order = worker.order
      BY <1>r, <2>2
    <3> QED
      BY <2>1, <2>2, <3>1 DEF WorkerFits, WorkerFields
  <2>3. CASE Go("post") /\ UNCHANGED running
    BY <1>t, <1>p, <2>1, <2>3, GoFits, WithinCommand DEF WorkerFits
  <2> QED
    BY <1>6, <2>2, <2>3 DEF Check
<1>7. CASE Post
  <2>1. worker.at = "post" /\ UNCHANGED <<running, aligned>>
        /\ worker.phase \in RunPhases \cup {"NAVIGATE_KITCHEN"}
    BY <1>7 DEF Post, gateVars, WorkerFits
  <2>2. CASE Go("await")
    BY <1>t, <1>p, <2>1, <2>2, GoFits, WithinCommand
  <2>3. CASE worker' = [worker EXCEPT !.at = "leave", !.ok = FALSE]
    BY <1>t, <1>p, <2>1, <2>3, OutcomeFits, WithinCommand
  <2> QED
    BY <1>7, <2>2, <2>3 DEF Post
<1>8. CASE Answer \/ ServiceRestart
  <2>1. UNCHANGED <<running, aligned>>
        /\ (worker.at = "await" => worker.phase \in RunPhases \cup {"NAVIGATE_KITCHEN"})
    BY <1>8 DEF Answer, ServiceRestart, gateVars, WorkerFits
  <2>2. ASSUME NEW ok \in BOOLEAN, worker.at = "await",
               worker' = [worker EXCEPT !.at = "leave", !.ok = ok]
        PROVE  WorkerFits'
    BY <1>t, <1>p, <2>1, <2>2, OutcomeFits, WithinCommand
  <2>3. CASE UNCHANGED worker
    BY <2>1, <2>3 DEF WorkerFits, Task
  <2>4. (result.ok \/ (AcceptDuration /\ result.reason = "duration")) \in BOOLEAN
    OBVIOUS
  <2> QED
    BY <1>8, <2>2, <2>3, <2>4 DEF Answer, ServiceRestart
<1>9. CASE Leave
  <2>1. worker.at = "leave" /\ running' = "none" /\ Go("report") /\ UNCHANGED aligned
    BY <1>9 DEF Leave, gateVars
  <2>2. /\ worker' \in WorkerFields /\ worker'.at = "report" /\ worker'.phase = worker.phase
        /\ worker'.order = worker.order
    BY <1>t, <1>p, <2>1, GoFits
  <2> QED
    BY <2>1, <2>2 DEF WorkerFits, WorkerFields
<1>10. CASE Report
  <2>1. worker.at = "report" /\ worker' = NoCommand /\ UNCHANGED <<running, aligned>>
    BY <1>10 DEF Report, gateVars
  <2> QED
    BY <2>1, <1>p DEF WorkerFits, NoCommand, AllPhases, Controller!SystemPhases
<1>11. CASE Crash
  <2>1. worker' = NoCommand /\ running' = "none" /\ aligned' = FALSE
    BY <1>11 DEF Crash
  <2> QED
    BY <2>1, <1>p DEF WorkerFits, NoCommand, AllPhases, Controller!SystemPhases
<1>12. ASSUME UNCHANGED <<worker, running>>, aligned' \in BOOLEAN PROVE WorkerFits'
  BY <1>12 DEF WorkerFits, Task
<1>13. CASE Desk \/ ConfirmAlignment \/ CancelOrder \/ CancelRead \/ CancelBackend \/ CancelEnd
  BY <1>13, <1>12 DEF Desk, ConfirmAlignment, CancelOrder, CancelRead, CancelBackend, CancelEnd,
                      gateVars, WorkerFits
<1>14. CASE EStopLatch \/ EStopHalt \/ EStopArms \/ EStopEnd \/ Reset
  BY <1>14, <1>12 DEF EStopLatch, EStopHalt, EStopArms, EStopEnd, Reset, gateVars, WorkerFits
<1>15. CASE ServiceStep \/ PolicyStep \/ ServiceInterrupt
  BY <1>15, <1>12 DEF ServiceStep, PolicyStep, ServiceInterrupt, gateVars, WorkerFits
<1>16. CASE UNCHANGED serverVars
  BY <1>16, <1>12 DEF serverVars, gateVars, WorkerFits
<1> QED
  BY <1>1, <1>2, <1>3, <1>4, <1>5, <1>6, <1>7, <1>8, <1>9, <1>10, <1>11, <1>13, <1>14, <1>15, <1>16
  DEF Next, WorkerStep

\* The worker and the controller are in order in every reachable state.
LEMMA WorkerAlwaysFits == Spec => [](MissionFits /\ CancelFits /\ WorkerFits)
<1>1. Init => WorkerFits
  <2>1. "IDLE_AT_DOCK" \in AllPhases /\ "idle" \in Points /\ "idle" \notin Calling \cup Named
    BY DEF AllPhases, Controller!SystemPhases, Points, Calling, Named
  <2>2. Init => worker = NoCommand /\ running = "none" /\ aligned = FALSE
    BY DEF Init
  <2>3. /\ NoCommand.at = "idle"
        /\ NoCommand \in [at : Points, phase : AllPhases, order : Orders \cup {NoOrder}, ok : BOOLEAN]
    BY <2>1 DEF NoCommand
  <2> QED
    BY <2>1, <2>2, <2>3 DEF WorkerFits
<1> QED
  BY <1>1, MissionAlwaysFits, WorkerStepFits, PTL DEF Spec

\* The task of a call is one the rollout service knows.
LEMMA TaskKnown ==
  ASSUME WorkerFits, worker.at \in Calling
  PROVE  /\ Task \in Rollout!Tasks
         /\ worker.phase = "NAVIGATE_KITCHEN" <=> Task = "stow"
         /\ Task # "stow" => worker.phase \in RunPhases /\ Task \in Policies
                             /\ Task = PolicyOf[worker.phase] /\ worker.order \in Orders
<1>1. worker.phase \in {"GRASP_CUP", "REGRASP_CUP", "NAVIGATE_KITCHEN"}
  BY DEF WorkerFits, RunPhases
<1>2. PolicyOf["GRASP_CUP"] = "pour" /\ PolicyOf["REGRASP_CUP"] = "place"
  BY DEF PolicyOf
<1>3. worker.order \in Orders
  BY <1>1 DEF WorkerFits, Calling, Controller!ServicePhases
<1> QED
  BY <1>1, <1>2, <1>3 DEF Task, RunPhases, Policies, Rollout!Tasks, Rollout!Policies

\* Every step of the server is one of the rollout service, or leaves it alone.
LEMMA RolloutStep ==
  WorkerFits /\ [Next]_serverVars => [Rollout!Next]_(Rollout!rolloutVars)
<1> SUFFICES ASSUME WorkerFits, [Next]_serverVars
             PROVE  Rollout!Next \/ UNCHANGED Rollout!rolloutVars
  OBVIOUS
<1>k. UNCHANGED armVars => UNCHANGED Rollout!rolloutVars
  BY DEF armVars, Rollout!rolloutVars
<1>1. CASE Fetch \/ Enter \/ AskStow \/ AlignBegin \/ AlignPoll \/ AlignTimeout \/ AlignEnd
  BY <1>1, <1>k DEF Fetch, Enter, AskStow, AlignBegin, AlignPoll, AlignTimeout, AlignEnd
<1>2. CASE Mark \/ Check \/ Leave \/ Report
  BY <1>2, <1>k DEF Mark, Check, Leave, Report
<1>3. CASE Post
  <2>1. Task \in Rollout!Tasks
    BY <1>3, TaskKnown DEF Post, Calling
  <2> QED
    BY <1>3, <1>k, <2>1 DEF Post, Rollout!Next
<1>4. CASE Answer
  BY <1>4 DEF Answer, Rollout!Next, Rollout!MainStep
<1>5. CASE Desk \/ ConfirmAlignment \/ CancelOrder \/ CancelRead \/ CancelEnd
  BY <1>5, <1>k DEF Desk, ConfirmAlignment, CancelOrder, CancelRead, CancelEnd
<1>6. CASE CancelBackend \/ EStopArms
  BY <1>6, <1>k DEF CancelBackend, EStopArms, Rollout!Next
<1>7. CASE EStopLatch \/ EStopHalt \/ EStopEnd \/ Reset
  BY <1>7, <1>k DEF EStopLatch, EStopHalt, EStopEnd, Reset
<1>8. CASE ServiceStep \/ PolicyStep
  BY <1>8 DEF ServiceStep, PolicyStep, Rollout!Next, Rollout!MainStep
<1>9. CASE ServiceInterrupt \/ ServiceRestart
  BY <1>9 DEF ServiceInterrupt, ServiceRestart, Rollout!Next
<1>10. CASE Crash
  BY <1>10, <1>k DEF Crash
<1>11. CASE UNCHANGED serverVars
  BY <1>11, <1>k DEF serverVars
<1> QED
  BY <1>1, <1>2, <1>3, <1>4, <1>5, <1>6, <1>7, <1>8, <1>9, <1>10, <1>11 DEF Next, WorkerStep

\* The server calls the rollout service as its specification allows: what is proved of
\* RolloutService, above all that a stop reaches the motion and that the reported arms are
\* the real ones, holds within the server.
THEOREM ImplementsRollout == Spec => Rollout!Spec
<1>1. Init => Rollout!Init
  BY DEF Init
<1> QED
  BY <1>1, RolloutStep, WorkerAlwaysFits, PTL DEF Spec, Rollout!Spec

------------------------------------------------------------------------------
(* What the parts promise, within the server *)

\* The theorems about the controller and about the rollout service, for the constants the
\* server gives them.
Missions == INSTANCE MissionControllerProofs WITH
  Priority <- [o \in Orders |-> 0], CreatedAt <- [o \in Orders |-> 0],
  Route <- NoRoute, PhaseEnergy <- [p \in AlignPhases \cup DOMAIN PolicyOf |-> 0],
  Reserve <- 0, ChargeTarget <- 1, InitialCharge <- 1, RequireDockReturn <- FALSE

Runner == INSTANCE RolloutServiceProofs WITH
  Clients <- {"worker", "stopper"}, StowConfigured <- TRUE, StartPosed <- {"pour"},
  Detected <- Policies, Hooked <- {},
  EndPose <- [pour |-> "final", place |-> "stow"], MaxPills <- 0

\* What those theorems assume of the constants is so in the server.
LEMMA MissionAssumptions ==
  /\ Missions!OrderAssumption /\ Missions!ConfigAssumption /\ Missions!RouteAssumption
  /\ Missions!EnergyAssumption /\ Missions!ChargedAssumption
<1>1. Missions!OrderAssumption
  BY ServerAssumption, ServerConfigAssumption DEF Missions!OrderAssumption
<1>2. Missions!SkillPhases = AlignPhases \cup DOMAIN PolicyOf
  BY DEF Missions!SkillPhases, Missions!ServicePhases, Missions!NavigationPhases, AlignPhases, PolicyOf
<1>3. Missions!ConfigAssumption
  BY <1>2, ServerConfigAssumption DEF Missions!ConfigAssumption
<1>4. Missions!RouteAssumption
  BY DEF Missions!RouteAssumption, Missions!Locations, NoRoute
<1>5. Missions!EnergyAssumption /\ Missions!ChargedAssumption
  BY <1>2 DEF Missions!EnergyAssumption, Missions!ChargedAssumption
<1> QED
  BY <1>1, <1>3, <1>4, <1>5

LEMMA RunnerAssumptions == Runner!RolloutAssumption
BY ServerConfigAssumption DEF Runner!RolloutAssumption, Runner!Policies, Policies

\* The two instances of the controller, and those of the rollout service, are the same.
LEMMA SameController ==
  /\ Controller!Init <=> Missions!Init
  /\ [Controller!Next]_(Controller!vars) <=> [Missions!Next]_(Missions!vars)
<1>1. Controller!Init <=> Missions!Init
  BY DEF Controller!Init, Missions!Init
<1>2. Controller!Next <=> Missions!Next
  BY DEF Controller!ServicePhases, Missions!ServicePhases, Controller!NavigationPhases,
      Missions!NavigationPhases, Controller!SkillPhases, Missions!SkillPhases,
      Controller!TerminalOrderStates, Missions!TerminalOrderStates, Controller!robotVars,
      Missions!robotVars, Controller!InState, Missions!InState, Controller!Queued,
      Missions!Queued, Controller!Before, Missions!Before, Controller!IsFirst,
      Missions!IsFirst, Controller!ManipulationEnergy, Missions!ManipulationEnergy,
      Controller!EstimateOrderCost, Missions!EstimateOrderCost, Controller!CanDispatch,
      Missions!CanDispatch, Controller!NextPhase, Missions!NextPhase, Controller!Destination,
      Missions!Destination, Controller!CommandCost, Missions!CommandCost, Controller!Drained,
      Missions!Drained, Controller!StartOrder, Missions!StartOrder, Controller!HoldAt,
      Missions!HoldAt, Controller!DispatchOrCharge, Missions!DispatchOrCharge,
      Controller!DecideAfterTerminalOrder, Missions!DecideAfterTerminalOrder,
      Controller!EndMission, Missions!EndMission, Controller!Submit, Missions!Submit,
      Controller!Cancel, Missions!Cancel, Controller!Accept, Missions!Accept,
      Controller!Reject, Missions!Reject, Controller!StartNext, Missions!StartNext,
      Controller!EmergencyStop, Missions!EmergencyStop, Controller!AdvanceIdle,
      Missions!AdvanceIdle, Controller!AdvanceFailure, Missions!AdvanceFailure,
      Controller!AdvanceCharging, Missions!AdvanceCharging, Controller!AdvanceDock,
      Missions!AdvanceDock, Controller!AdvanceService, Missions!AdvanceService,
      Controller!Next, Missions!Next
<1> QED
  BY <1>1, <1>2 DEF Controller!vars, Missions!vars

LEMMA SameRollout ==
  /\ Rollout!Init <=> Runner!Init
  /\ [Rollout!Next]_(Rollout!rolloutVars) <=> [Runner!Next]_(Runner!rolloutVars)
<1>1. Rollout!Init <=> Runner!Init
  BY DEF Rollout!Pill, Runner!Pill, Rollout!Idle, Runner!Idle, Rollout!Result, Runner!Result,
      Rollout!FreshProcess, Runner!FreshProcess, Rollout!Init, Runner!Init
<1>2. Rollout!Next <=> Runner!Next
  BY DEF Rollout!Policies, Runner!Policies, Rollout!Tasks, Runner!Tasks, Rollout!Pill,
      Runner!Pill, Rollout!Job, Runner!Job, Rollout!Idle, Runner!Idle, Rollout!Moving,
      Runner!Moving, Rollout!httpVars, Runner!httpVars, Rollout!jobVars, Runner!jobVars,
      Rollout!runVars, Runner!runVars, Rollout!armVars, Runner!armVars, Rollout!Result,
      Runner!Result, Rollout!Ready, Runner!Ready, Rollout!LoadFails, Runner!LoadFails,
      Rollout!Closing, Runner!Closing, Rollout!Restart, Runner!Restart, Rollout!ProcessEnds,
      Runner!ProcessEnds, Rollout!Submit, Runner!Submit, Rollout!PutJob, Runner!PutJob,
      Rollout!StopJob, Runner!StopJob, Rollout!StopEffect, Runner!StopEffect, Rollout!Stop,
      Runner!Stop, Rollout!Shutdown, Runner!Shutdown, Rollout!PutPill, Runner!PutPill,
      Rollout!Get, Runner!Get, Rollout!Begin, Runner!Begin, Rollout!EndsWith, Runner!EndsWith,
      Rollout!StartPose, Runner!StartPose, Rollout!PolicyEnds, Runner!PolicyEnds,
      Rollout!Judge, Runner!Judge, Rollout!FinishPose, Runner!FinishPose, Rollout!MoveJoints,
      Runner!MoveJoints, Rollout!EndPoseKind, Runner!EndPoseKind, Rollout!EndMotion,
      Runner!EndMotion, Rollout!Interrupt, Runner!Interrupt, Rollout!Report, Runner!Report,
      Rollout!Notify, Runner!Notify, Rollout!MainStep, Runner!MainStep, Rollout!Next,
      Runner!Next
<1> QED
  BY <1>1, <1>2 DEF Rollout!rolloutVars, Runner!rolloutVars

\* Whatever the server's threads do, and however it crashes: the robot serves one order at a
\* time, rests only when none waits, every order moves as the order desk promises, and the
\* stored snapshot is one that a restarted server accepts.
THEOREM MissionsInServer ==
  Spec => /\ [](/\ Controller!TypeOK /\ Controller!OneActiveMission
                /\ Controller!AlwaysRestorable /\ Controller!RestMeansEmptyQueue)
          /\ Controller!RefinesLifecycle
<1>1. Spec => Missions!Spec
  BY ImplementsController, SameController, PTL DEF Controller!Spec, Missions!Spec
<1>2. Missions!Spec => []Missions!TypeOK
  BY MissionAssumptions, Missions!TypeCorrect
<1>3. Missions!Spec => []Missions!OneActiveMission
  BY MissionAssumptions, Missions!MissionExclusion
<1>4. Missions!Spec => []Missions!AlwaysRestorable
  BY MissionAssumptions, Missions!Restorable
<1>5. Missions!Spec => []Missions!RestMeansEmptyQueue
  BY MissionAssumptions, Missions!RestAfterWork
<1>6. Missions!Spec => Missions!RefinesLifecycle
  BY MissionAssumptions, Missions!ImplementsLifecycle
<1>7. /\ Missions!TypeOK => Controller!TypeOK
      /\ Missions!OneActiveMission => Controller!OneActiveMission
      /\ Missions!AlwaysRestorable => Controller!AlwaysRestorable
      /\ Missions!RestMeansEmptyQueue => Controller!RestMeansEmptyQueue
  BY DEF Controller!ServicePhases, Missions!ServicePhases, Controller!SystemPhases,
      Missions!SystemPhases, Controller!NavigationPhases, Missions!NavigationPhases,
      Controller!SkillPhases, Missions!SkillPhases, Controller!OrderStates,
      Missions!OrderStates, Controller!Locations, Missions!Locations, Controller!InState,
      Missions!InState, Controller!Queued, Missions!Queued, Controller!TypeOK,
      Missions!TypeOK, Controller!RestoreAccepts, Missions!RestoreAccepts,
      Controller!AlwaysRestorable, Missions!AlwaysRestorable, Controller!OneActiveMission,
      Missions!OneActiveMission, Controller!RestMeansEmptyQueue, Missions!RestMeansEmptyQueue
<1>8. Missions!RefinesLifecycle => Controller!RefinesLifecycle
  <2>1. Missions!Lifecycle!Init <=> Controller!Lifecycle!Init
    BY DEF Missions!Lifecycle!Init, Controller!Lifecycle!Init
  <2>2. [Missions!Lifecycle!Next]_orderState <=> [Controller!Lifecycle!Next]_orderState
    BY DEF Missions!Lifecycle!States, Controller!Lifecycle!States, Missions!Lifecycle!Moves,
        Controller!Lifecycle!Moves, Missions!Lifecycle!Next, Controller!Lifecycle!Next
  <2> QED
    BY <2>1, <2>2, PTL DEF Missions!RefinesLifecycle, Controller!RefinesLifecycle,
      Missions!Lifecycle!Spec, Controller!Lifecycle!Spec
<1> QED
  BY <1>1, <1>2, <1>3, <1>4, <1>5, <1>6, <1>7, <1>8, PTL

\* And a stop reaches whatever moves the arms and watches an event, only a stop cuts a pose
\* short, one job is run at a time, and the reported arms are the real ones, though worker, cancel() and
\* emergency_stop() call the rollout service as they like.
THEOREM ArmsInServer ==
  Spec => [](/\ Rollout!TypeOK /\ Rollout!StopReachesMotion /\ Rollout!OnlyStopCutsPoses
             /\ Rollout!ArmsTruthful /\ Rollout!OneJobAtATime)
<1>1. Spec => Runner!Spec
  BY ImplementsRollout, SameRollout, PTL DEF Rollout!Spec, Runner!Spec
<1>2. Runner!Spec => []Runner!TypeOK
  BY RunnerAssumptions, Runner!RolloutTypeCorrect
<1>3. Runner!Spec => [](Runner!StopReachesMotion /\ Runner!OnlyStopCutsPoses)
  BY RunnerAssumptions, Runner!StopReaches
<1>4. Runner!Spec => []Runner!ArmsTruthful
  BY RunnerAssumptions, Runner!ArmsReported
<1>5. Runner!Spec => []Runner!OneJobAtATime
  BY RunnerAssumptions, Runner!OneJob
<1>6. /\ Runner!TypeOK => Rollout!TypeOK
      /\ Runner!StopReachesMotion => Rollout!StopReachesMotion
      /\ Runner!OnlyStopCutsPoses => Rollout!OnlyStopCutsPoses
      /\ Runner!ArmsTruthful => Rollout!ArmsTruthful
      /\ Runner!OneJobAtATime => Rollout!OneJobAtATime
  BY DEF Rollout!Policies, Runner!Policies, Rollout!Tasks, Runner!Tasks, Rollout!Arms,
      Runner!Arms, Rollout!Reasons, Runner!Reasons, Rollout!Pill, Runner!Pill, Rollout!Jobs,
      Runner!Jobs, Rollout!Callers, Runner!Callers, Rollout!Running, Runner!Running,
      Rollout!Moving, Runner!Moving, Rollout!TypeOK, Runner!TypeOK, Rollout!StopReachesMotion,
      Runner!StopReachesMotion, Rollout!Watches, Runner!Watches, Rollout!EndPoseKind,
      Runner!EndPoseKind, Rollout!OnlyStopCutsPoses, Runner!OnlyStopCutsPoses,
      Rollout!ArmsTruthful, Runner!ArmsTruthful, Rollout!Putting, Runner!Putting,
      Rollout!Waiting, Runner!Waiting, Rollout!InFlight, Runner!InFlight,
      Rollout!OneJobAtATime, Runner!OneJobAtATime
<1> QED
  BY <1>1, <1>2, <1>3, <1>4, <1>5, <1>6, PTL

------------------------------------------------------------------------------
(* Type correctness *)

\* The fields that are neither the controller's nor the worker's.
ServerFieldsOK ==
  /\ latched \in BOOLEAN /\ halted \in BOOLEAN /\ cancelled \in BOOLEAN /\ waiting \in BOOLEAN
  /\ stopped \in Orders \cup {NoOrder}
  /\ estop \in {"none", "halt", "stop 1", "stop 2", "end"}

\* The backend's memory and the history of runs.
CachesOK ==
  /\ results \in [Orders -> [Policies -> {"none", "ok", "failed"}]]
  /\ stowed \subseteq Orders
  /\ runs \in [Orders -> [Policies -> 0..RunsCap]]

\* The fields keep their types.
LEMMA ServerFieldsStep ==
  MissionFits /\ ServerFieldsOK /\ [Next]_serverVars => ServerFieldsOK'
<1> SUFFICES ASSUME MissionFits, ServerFieldsOK, [Next]_serverVars PROVE ServerFieldsOK'
  OBVIOUS
<1> USE DEF ServerFieldsOK, latchVars, gateVars
<1>1. CASE Fetch \/ Enter \/ AskStow \/ AlignBegin \/ AlignPoll \/ AlignTimeout \/ AlignEnd
  BY <1>1 DEF Fetch, Enter, AskStow, AlignBegin, AlignPoll, AlignTimeout, AlignEnd
<1>2. CASE Mark \/ Check \/ Post \/ Answer \/ Leave \/ Report
  BY <1>2 DEF Mark, Check, Post, Answer, Leave, Report
<1>3. CASE Desk \/ ConfirmAlignment \/ CancelOrder \/ CancelRead \/ CancelBackend \/ CancelEnd
  BY <1>3 DEF Desk, ConfirmAlignment, CancelOrder, CancelRead, CancelBackend, CancelEnd
<1>4. CASE EStopLatch
  BY <1>4 DEF EStopLatch, MissionFits
<1>5. CASE EStopHalt \/ EStopArms \/ EStopEnd \/ Reset
  BY <1>5 DEF EStopHalt, EStopArms, EStopEnd, Reset
<1>6. CASE ServiceStep \/ PolicyStep \/ ServiceInterrupt \/ ServiceRestart \/ Crash
  BY <1>6 DEF ServiceStep, PolicyStep, ServiceInterrupt, ServiceRestart, Crash
<1>7. CASE UNCHANGED serverVars
  BY <1>7 DEF serverVars
<1> QED
  BY <1>1, <1>2, <1>3, <1>4, <1>5, <1>6, <1>7 DEF Next, WorkerStep

\* Steps that leave the backend's memory alone: all but three of the worker's, and a crash.
LEMMA CachesKept ==
  ASSUME [Next]_serverVars, ~Check, ~Post, ~Leave, ~Crash
  PROVE  UNCHANGED <<results, stowed, runs>>
<1> USE DEF cacheVars
<1>1. CASE WorkerStep \/ AlignTimeout \/ Answer
  BY <1>1 DEF WorkerStep, Fetch, Enter, AskStow, AlignBegin, AlignPoll, AlignTimeout, AlignEnd,
              Mark, Answer, Report
<1>2. CASE Desk \/ ConfirmAlignment \/ CancelOrder \/ CancelRead \/ CancelBackend \/ CancelEnd
  BY <1>2 DEF Desk, ConfirmAlignment, CancelOrder, CancelRead, CancelBackend, CancelEnd
<1>3. CASE EStopLatch \/ EStopHalt \/ EStopArms \/ EStopEnd \/ Reset
  BY <1>3 DEF EStopLatch, EStopHalt, EStopArms, EStopEnd, Reset
<1>4. CASE ServiceStep \/ PolicyStep \/ ServiceInterrupt \/ ServiceRestart
  BY <1>4 DEF ServiceStep, PolicyStep, ServiceInterrupt, ServiceRestart
<1>5. CASE UNCHANGED serverVars
  BY <1>5 DEF serverVars
<1> QED
  BY <1>1, <1>2, <1>3, <1>4, <1>5 DEF Next

\* An outcome that is kept is one of the two.
LEMMA KeepFits ==
  ASSUME WorkerFits, CachesOK, worker.at \in Calling, NEW ok \in BOOLEAN, Keep(ok)
  PROVE  /\ results' \in [Orders -> [Policies -> {"none", "ok", "failed"}]]
         /\ stowed' \subseteq Orders
<1>1. worker.order \in Orders /\ (Task # "stow" => Task \in Policies)
  BY TaskKnown DEF WorkerFits, Calling, RunPhases, Controller!ServicePhases
<1>2. CASE Task = "stow"
  BY <1>1, <1>2 DEF Keep, CachesOK
<1>3. CASE Task # "stow"
  <2> DEFINE answer == IF ok THEN "ok" ELSE "failed"
  <2>1. results' = [results EXCEPT ![worker.order][Task] = answer] /\ stowed' = stowed
    BY <1>3 DEF Keep
  <2>2. answer \in {"none", "ok", "failed"}
    OBVIOUS
  <2> HIDE DEF answer
  <2> QED
    BY <1>1, <1>3, <2>1, <2>2 DEF CachesOK
<1> QED
  BY <1>2, <1>3

\* The backend's memory keeps its type.
LEMMA CachesStep == WorkerFits /\ CachesOK /\ [Next]_serverVars => CachesOK'
<1> SUFFICES ASSUME WorkerFits, CachesOK, [Next]_serverVars PROVE CachesOK'
  OBVIOUS
<1>1. CASE Check
  <2>1. UNCHANGED runs
    BY <1>1 DEF Check
  <2>2. CASE Keep(FALSE)
    BY <1>1, <2>1, <2>2, KeepFits DEF Check, Calling, CachesOK
  <2>3. CASE UNCHANGED <<results, stowed>>
    BY <2>1, <2>3 DEF CachesOK
  <2> QED
    BY <1>1, <2>2, <2>3 DEF Check
<1>2. CASE Leave
  <2>1. UNCHANGED runs /\ worker.ok \in BOOLEAN /\ Keep(worker.ok)
    BY <1>2 DEF Leave, WorkerFits
  <2> QED
    BY <1>2, <2>1, KeepFits DEF Leave, Calling, CachesOK
<1>3. CASE Post
  <2>1. /\ UNCHANGED <<results, stowed>> /\ worker.at \in Calling
        /\ (runs' = Started /\ Task \in Policies) \/ runs' = runs
    BY <1>3 DEF Post, Calling
  <2>2. CASE runs' = Started /\ Task \in Policies
    <3>1. worker.order \in Orders
      BY <2>1 DEF WorkerFits, Calling, RunPhases, Controller!ServicePhases
    <3>2. runs' \in [Orders -> [Policies -> 0..RunsCap]]
      <4>1. runs[worker.order][Task] \in 0..RunsCap
        BY <2>2, <3>1 DEF CachesOK
      <4> DEFINE n == IF runs[worker.order][Task] < RunsCap
                      THEN runs[worker.order][Task] + 1 ELSE RunsCap
      <4>2. n \in 0..RunsCap
        BY <4>1 DEF RunsCap
      <4>3. runs' = [runs EXCEPT ![worker.order][Task] = n]
        BY <2>2 DEF Started
      <4> HIDE DEF n
      <4> QED
        BY <2>2, <3>1, <4>2, <4>3 DEF CachesOK
    <3> QED
      BY <2>1, <3>2 DEF CachesOK
  <2> QED
    BY <2>1, <2>2 DEF CachesOK
<1>4. CASE Crash
  BY <1>4 DEF Crash, CachesOK
<1> QED
  BY <1>1, <1>2, <1>3, <1>4, CachesKept DEF CachesOK

\* The fields of the server and its backend have their types in every reachable state.
THEOREM ServerTypeCorrect == Spec => []ServerTypeOK
<1>1. Init => ServerFieldsOK /\ CachesOK
  <2>1. Init => ServerFieldsOK
    BY DEF Init, ServerFieldsOK
  <2>2. Init => CachesOK
    BY DEF Init, CachesOK, RunsCap
  <2> QED
    BY <2>1, <2>2
<1>2. /\ MissionFits /\ CancelFits /\ WorkerFits /\ ServerFieldsOK /\ CachesOK
      => ServerTypeOK
  <2> SUFFICES ASSUME CancelFits, WorkerFits, ServerFieldsOK, CachesOK PROVE ServerTypeOK
    OBVIOUS
  <2>1. running \in Policies \cup {"none", "stow"}
    BY TaskKnown DEF WorkerFits, Named, Calling
  <2>2. worker.at \in Points /\ worker.order \in Orders \cup {NoOrder} /\ worker.ok \in BOOLEAN
    BY DEF WorkerFits
  <2>3. worker.at \notin {"idle", "enter", "report"} => worker.phase \in Controller!ServicePhases
    BY <2>2 DEF WorkerFits, Points, Calling, RunPhases, AlignPhases, Controller!ServicePhases
  <2>4. worker.at \notin {"idle", "enter", "report"} => worker.order \in Orders
    BY <2>3 DEF WorkerFits
  <2>5. canceling.at \in {"none", "wait", "run", "end"} /\ aligned \in BOOLEAN
    BY DEF CancelFits, WorkerFits
  <2> QED
    BY <2>1, <2>2, <2>4, <2>5 DEF ServerFieldsOK, CachesOK, ServerTypeOK
<1> QED
  BY <1>1, <1>2, WorkerAlwaysFits, ServerFieldsStep, CachesStep, PTL DEF Spec

------------------------------------------------------------------------------
(* The backend's memory of the policies, in a server that does not crash *)

\* The call under way, from the acceptance of the request to the answer's record, is the
\* only run the memory does not know of yet; what it calls a success was a run.
MemoryFits ==
  /\ worker.at \in Calling /\ Task # "stow" => results[worker.order][Task] = "none"
  /\ \A o \in Orders, p \in Policies :
       /\ runs[o][p] <= 1
       /\ runs[o][p] = 1 =>
            \/ results[o][p] # "none"
            \/ worker.at \in {"await", "leave"} /\ worker.order = o /\ Task = p
       /\ results[o][p] = "ok" => runs[o][p] = 1
  /\ worker.at = "await" \/ (worker.at = "leave" /\ worker.ok) =>
       (Task # "stow" => runs[worker.order][Task] = 1)
  /\ worker.at = "report" /\ worker.ok /\ worker.phase \in DOMAIN PolicyOf =>
       results[worker.order][PolicyOf[worker.phase]] = "ok"

\* A worker that goes on without a claim about its outcome, and with the memory as it was.
LEMMA MemoryKept ==
  ASSUME MemoryFits, UNCHANGED <<results, runs>>,
         worker'.at \in Calling /\ Task' # "stow" => results[worker'.order][Task'] = "none",
         worker.at \in {"await", "leave"} =>
           worker'.at \in {"await", "leave"} /\ worker'.order = worker.order /\ Task' = Task,
         worker'.at = "await" => worker.at = "await",
         worker'.at = "leave" /\ worker'.ok => worker.at = "await" \/ (worker.at = "leave" /\ worker.ok),
         worker'.at = "report" /\ worker'.ok /\ worker'.phase \in DOMAIN PolicyOf =>
           results[worker'.order][PolicyOf[worker'.phase]] = "ok"
  PROVE  MemoryFits'
<1>1. \A o \in Orders, p \in Policies :
        /\ runs'[o][p] <= 1
        /\ runs'[o][p] = 1 =>
             \/ results'[o][p] # "none"
             \/ worker'.at \in {"await", "leave"} /\ worker'.order = o /\ Task' = p
        /\ results'[o][p] = "ok" => runs'[o][p] = 1
  BY DEF MemoryFits
<1>2. worker'.at = "await" \/ (worker'.at = "leave" /\ worker'.ok) =>
        (Task' # "stow" => runs'[worker'.order][Task'] = 1)
  BY DEF MemoryFits
<1> QED
  BY <1>1, <1>2 DEF MemoryFits

\* The memory follows the worker.
LEMMA MemoryStep ==
  ASSUME ~Crashes
  PROVE  WorkerFits /\ CachesOK /\ MemoryFits /\ [Next]_serverVars => MemoryFits'
<1> SUFFICES ASSUME WorkerFits, CachesOK, MemoryFits, [Next]_serverVars PROVE MemoryFits'
  OBVIOUS
<1>t. worker \in WorkerFields
  BY DEF WorkerFits, WorkerFields
<1>p. Points = { "idle", "enter", "stow", "align", "aligning", "leave gate", "mark", "check",
                 "post", "await", "leave", "report" }
  BY DEF Points
<1>s. worker.at \in Calling => worker.order \in Orders /\ (Task # "stow" => Task \in Policies)
  BY TaskKnown DEF WorkerFits, Calling, RunPhases, Controller!ServicePhases
<1>c. worker.phase \in DOMAIN PolicyOf <=>
        worker.phase \in { "GRASP_CUP", "GRASP_BOTTLE", "POUR", "RETURN_BOTTLE", "PLACE_DECK",
                           "REGRASP_CUP", "SERVE" }
  BY DEF PolicyOf
<1>1. CASE Fetch
  <2>1. worker.at = "idle" /\ worker'.at = "enter" /\ UNCHANGED <<results, runs>>
    BY <1>1 DEF Fetch, cacheVars
  <2> QED
    BY <2>1, MemoryKept DEF Calling
<1>2. CASE Enter
  <2>1. worker.at = "enter" /\ UNCHANGED <<results, runs>>
    BY <1>2 DEF Enter, cacheVars
  <2>2. ASSUME NEW ok \in BOOLEAN, Return(ok),
               ok /\ worker.phase \in DOMAIN PolicyOf =>
                 results[worker.order][PolicyOf[worker.phase]] = "ok"
        PROVE  MemoryFits'
    <3>1. /\ worker'.at = "report" /\ worker'.phase = worker.phase
          /\ worker'.order = worker.order /\ worker'.ok = ok
      BY <1>t, <1>p, <2>2, OutcomeFits DEF Return
    <3> QED
      BY <2>1, <2>2, <3>1, MemoryKept DEF Calling
  <2>3. CASE Go("stow") \/ Go("align")
    <3>1. worker'.at \in {"stow", "align"}
      BY <1>t, <1>p, <2>3, GoFits
    <3> QED
      BY <2>1, <3>1, MemoryKept DEF Calling
  <2>4. CASE /\ worker.phase \in RunPhases /\ Go("mark")
             /\ results[worker.order][PolicyOf[worker.phase]] = "none"
    <3>1. worker'.at = "mark" /\ worker'.phase = worker.phase /\ worker'.order = worker.order
      BY <1>t, <1>p, <2>4, GoFits
    <3>2. Task' = PolicyOf[worker.phase]
      BY <2>4, <3>1 DEF Task, RunPhases
    <3> QED
      BY <2>1, <2>4, <3>1, <3>2, MemoryKept DEF Calling
  <2>5. "NAVIGATE_KITCHEN" \notin DOMAIN PolicyOf /\ RunPhases \subseteq DOMAIN PolicyOf
    BY DEF PolicyOf, RunPhases
  <2> QED
    BY <1>2, <2>2, <2>3, <2>4, <2>5 DEF Enter
<1>3. CASE AskStow
  <2>1. /\ worker.at = "stow" /\ UNCHANGED <<results, runs>>
        /\ worker.phase = "NAVIGATE_KITCHEN"
    BY <1>3 DEF AskStow, cacheVars, WorkerFits
  <2>2. /\ worker'.at \in {"mark", "report"} /\ worker'.phase = worker.phase
    BY <1>t, <1>p, <1>3, GoFits, OutcomeFits DEF AskStow, Return
  <2>3. Task' = "stow" /\ worker'.phase \notin DOMAIN PolicyOf
    BY <2>1, <2>2, <1>c DEF Task
  <2> QED
    BY <2>1, <2>2, <2>3, MemoryKept DEF Calling
<1>4. CASE AlignBegin \/ AlignPoll \/ AlignTimeout \/ AlignEnd
  <2>1. /\ worker.at \in {"align", "aligning", "leave gate"} /\ UNCHANGED <<results, runs>>
        /\ worker.phase \in AlignPhases
    BY <1>4 DEF AlignBegin, AlignPoll, AlignTimeout, AlignEnd, WorkerFits, cacheVars
  <2>2. /\ worker'.at \in {"aligning", "leave gate", "report"} /\ worker'.phase = worker.phase
    BY <1>4, <1>t DEF AlignBegin, AlignPoll, AlignTimeout, AlignEnd, Go, WorkerFields
  <2>3. worker'.phase \notin DOMAIN PolicyOf
    BY <1>c, <2>1, <2>2 DEF AlignPhases
  <2> QED
    BY <2>1, <2>2, <2>3, MemoryKept DEF Calling
<1>5. CASE Mark
  <2>1. /\ worker.at = "mark" /\ worker'.at = "check" /\ worker'.phase = worker.phase
        /\ worker'.order = worker.order /\ UNCHANGED <<results, runs>>
    BY <1>5, <1>t, <1>p, GoFits DEF Mark, cacheVars
  <2> QED
    BY <2>1, MemoryKept DEF Calling, MemoryFits, Task
<1>6. ASSUME worker.at \in {"check", "leave"}, NEW ok \in BOOLEAN, Keep(ok), UNCHANGED runs,
             worker' \in WorkerFields, worker'.at = "report", worker'.phase = worker.phase,
             worker'.order = worker.order, worker'.ok = ok, ok => worker.at = "leave" /\ worker.ok
      PROVE  MemoryFits'
  <2>1. worker.at \in Calling /\ worker.order \in Orders
    BY <1>6, <1>s DEF Calling
  <2>2. CASE Task = "stow"
    <3>1. UNCHANGED results /\ worker.phase = "NAVIGATE_KITCHEN"
      BY <1>6, <2>1, <2>2, TaskKnown DEF Keep
    <3>2. \A o \in Orders, p \in Policies : runs[o][p] = 1 => results[o][p] # "none"
      BY <2>2 DEF MemoryFits, Policies
    <3>3. /\ worker'.at \notin Calling /\ worker'.phase \notin DOMAIN PolicyOf
          /\ worker'.at \notin {"await", "leave"}
      BY <1>6, <1>c, <3>1 DEF Calling
    <3>4. \A o \in Orders, p \in Policies :
            /\ runs'[o][p] <= 1 /\ (runs'[o][p] = 1 => results'[o][p] # "none")
            /\ (results'[o][p] = "ok" => runs'[o][p] = 1)
      BY <1>6, <3>1, <3>2 DEF MemoryFits
    <3> QED
      BY <3>3, <3>4 DEF MemoryFits
  <2>3. CASE Task # "stow"
    <3>1. /\ Task \in Policies /\ Task = PolicyOf[worker.phase]
          /\ results[worker.order][Task] = "none"
          /\ results' = [results EXCEPT ![worker.order][Task] = IF ok THEN "ok" ELSE "failed"]
      BY <1>6, <2>1, <2>3, TaskKnown DEF Keep, MemoryFits
    <3>2. results'[worker.order][Task] = IF ok THEN "ok" ELSE "failed"
      BY <2>1, <3>1 DEF CachesOK
    <3>3. \A o \in Orders, p \in Policies :
            o # worker.order \/ p # Task => results'[o][p] = results[o][p]
      BY <2>1, <3>1 DEF CachesOK
    <3>4. ok => runs[worker.order][Task] = 1
      BY <1>6, <2>3 DEF MemoryFits
    <3>5. ASSUME NEW o \in Orders, NEW p \in Policies
          PROVE  /\ runs'[o][p] <= 1
                 /\ runs'[o][p] = 1 => results'[o][p] # "none"
                 /\ results'[o][p] = "ok" => runs'[o][p] = 1
      BY <1>6, <3>2, <3>3, <3>4 DEF MemoryFits
    <3>6. worker'.at \notin Calling /\ worker'.at \notin {"await", "leave"}
      BY <1>6 DEF Calling
    <3>7. worker'.at = "report" /\ worker'.ok => results'[worker'.order][PolicyOf[worker'.phase]] = "ok"
      BY <1>6, <3>1, <3>2
    <3> QED
      BY <3>5, <3>6, <3>7 DEF MemoryFits
  <2> QED
    BY <2>2, <2>3
<1>7. CASE Check
  <2>1. worker.at = "check" /\ UNCHANGED runs
    BY <1>7 DEF Check
  <2>2. CASE Keep(FALSE) /\ Return(FALSE)
    BY <1>6, <1>t, <1>p, <2>1, <2>2, OutcomeFits DEF Return
  <2>3. CASE Go("post") /\ UNCHANGED results
    <3>1. worker'.at = "post" /\ worker'.phase = worker.phase /\ worker'.order = worker.order
      BY <1>t, <1>p, <2>3, GoFits
    <3> QED
      BY <2>1, <2>3, <3>1, MemoryKept DEF Calling, MemoryFits, Task
  <2> QED
    BY <1>7, <2>2, <2>3 DEF Check
<1>8. CASE Leave
  <2>1. /\ worker.at = "leave" /\ UNCHANGED runs /\ Keep(worker.ok) /\ Go("report")
        /\ worker.ok \in BOOLEAN
    BY <1>8, <1>t DEF Leave, WorkerFields
  <2> QED
    BY <1>6, <1>t, <1>p, <2>1, GoFits
<1>9. CASE Post
  <2>1. worker.at = "post" /\ UNCHANGED results /\ worker.order \in Orders
    BY <1>9, <1>s DEF Post, Calling
  <2>2. CASE Go("await") /\ runs' = IF Task \in Policies THEN Started ELSE runs
    <3>1. worker'.at = "await" /\ worker'.phase = worker.phase /\ worker'.order = worker.order
      BY <1>t, <1>p, <2>2, GoFits
    <3>2. Task' = Task
      BY <3>1 DEF Task
    <3>3. CASE Task = "stow"
      <4>1. runs' = runs
        BY <2>2, <3>3 DEF Policies
      <4> QED
        BY <2>1, <3>1, <3>2, <3>3, <4>1 DEF MemoryFits, Calling, Policies
    <3>4. CASE Task # "stow"
      <4>1. /\ Task \in Policies /\ results[worker.order][Task] = "none"
            /\ runs' = Started
        BY <1>s, <2>1, <2>2, <3>4 DEF MemoryFits, Calling
      <4>2. runs[worker.order][Task] = 0
        BY <2>1, <4>1 DEF MemoryFits, CachesOK, RunsCap
      <4>3. runs' = [runs EXCEPT ![worker.order][Task] = 1]
        BY <4>1, <4>2 DEF Started, RunsCap
      <4>4. /\ runs'[worker.order][Task] = 1
            /\ \A o \in Orders, p \in Policies :
                 o # worker.order \/ p # Task => runs'[o][p] = runs[o][p]
        BY <2>1, <4>1, <4>3 DEF CachesOK
      <4>5. ASSUME NEW o \in Orders, NEW p \in Policies
            PROVE  /\ runs'[o][p] <= 1
                   /\ runs'[o][p] = 1 =>
                        results'[o][p] # "none" \/ (worker.order = o /\ Task = p)
                   /\ results'[o][p] = "ok" => runs'[o][p] = 1
        BY <2>1, <4>1, <4>4 DEF MemoryFits
      <4> QED
        BY <2>1, <3>1, <3>2, <4>1, <4>4, <4>5 DEF MemoryFits, Calling
    <3> QED
      BY <3>3, <3>4
  <2>3. CASE worker' = [worker EXCEPT !.at = "leave", !.ok = FALSE] /\ UNCHANGED runs
    <3>1. /\ worker'.at = "leave" /\ worker'.phase = worker.phase
          /\ worker'.order = worker.order /\ worker'.ok = FALSE
      BY <1>t, <1>p, <2>3, OutcomeFits
    <3> QED
      BY <2>1, <2>3, <3>1, MemoryKept DEF Calling, MemoryFits, Task
  <2> QED
    BY <1>9, <2>2, <2>3 DEF Post
<1>10. ASSUME UNCHANGED <<results, runs>>, worker.at = "await", NEW ok \in BOOLEAN,
              worker' = [worker EXCEPT !.at = "leave", !.ok = ok]
       PROVE  MemoryFits'
  <2>1. /\ worker'.at = "leave" /\ worker'.phase = worker.phase /\ worker'.order = worker.order
    BY <1>t, <1>p, <1>10, OutcomeFits
  <2> QED
    BY <1>10, <2>1, MemoryKept DEF Calling, MemoryFits, Task
<1>11. ASSUME UNCHANGED <<results, runs, worker>> PROVE MemoryFits'
  BY <1>11 DEF MemoryFits, Task
<1>12. CASE Answer \/ ServiceRestart
  <2>1. (result.ok \/ (AcceptDuration /\ result.reason = "duration")) \in BOOLEAN
    OBVIOUS
  <2> QED
    BY <1>12, <1>10, <1>11, <2>1 DEF Answer, ServiceRestart, cacheVars
<1>13. CASE Report
  <2>1. worker.at = "report" /\ worker'.at = "idle" /\ UNCHANGED <<results, runs>>
    BY <1>13 DEF Report, NoCommand, cacheVars
  <2> QED
    BY <2>1, MemoryKept DEF Calling
<1>14. CASE Desk \/ ConfirmAlignment \/ CancelOrder \/ CancelRead \/ CancelBackend \/ CancelEnd
  BY <1>14, <1>11 DEF Desk, ConfirmAlignment, CancelOrder, CancelRead, CancelBackend, CancelEnd,
                      cacheVars
<1>15. CASE EStopLatch \/ EStopHalt \/ EStopArms \/ EStopEnd \/ Reset
  BY <1>15, <1>11 DEF EStopLatch, EStopHalt, EStopArms, EStopEnd, Reset, cacheVars
<1>16. CASE ServiceStep \/ PolicyStep \/ ServiceInterrupt
  BY <1>16, <1>11 DEF ServiceStep, PolicyStep, ServiceInterrupt, cacheVars
<1>17. CASE UNCHANGED serverVars
  BY <1>17, <1>11 DEF serverVars, cacheVars
<1>18. ~Crash
  BY DEF Crash
<1> QED
  BY <1>1, <1>2, <1>3, <1>4, <1>5, <1>7, <1>8, <1>9, <1>12, <1>13, <1>14, <1>15, <1>16, <1>17,
     <1>18 DEF Next, WorkerStep

\* The memory fits in every reachable state.
LEMMA MemoryAlwaysFits ==
  ASSUME ~Crashes
  PROVE  Spec => [](MissionFits /\ CancelFits /\ WorkerFits /\ CachesOK /\ MemoryFits)
<1>1. Init => CachesOK
  BY DEF Init, CachesOK, RunsCap
<1>2. Init => MemoryFits
  BY DEF Init, MemoryFits, NoCommand, Calling
<1> QED
  BY <1>1, <1>2, WorkerAlwaysFits, CachesStep, MemoryStep, PTL DEF Spec

\* However its phases are retried, an order is poured and served once: a second run of a
\* policy would start with an empty hand, or pour over a full cup.
THEOREM PolicyOnce == ASSUME ~Crashes PROVE Spec => []PolicyAtMostOnce
<1>1. MemoryFits => PolicyAtMostOnce
  BY DEF MemoryFits, PolicyAtMostOnce
<1> QED
  BY <1>1, MemoryAlwaysFits, PTL

------------------------------------------------------------------------------
(* Quiet means quiet, in a server that does not crash *)

\* A job of the worker.
IsCall(j) == j.client = "worker" /\ j.wait = TRUE /\ j.task # "none"

Occupied == Rollout!Running \cup {"notify"}

\* While the worker does not await an answer, the rollout service has nothing of it; while
\* it does, its one job is with the thread of its request, queued, run or reported.  A
\* service whose main thread has left keeps what it has.
CallFits ==
  /\ caller \in [{"worker", "stopper"} -> Rollout!Callers]
  /\ caller["stopper"] = Rollout!Idle
  /\ worker.at # "await" =>
       /\ caller["worker"] = Rollout!Idle /\ jobs = <<>>
       /\ pc \notin Occupied /\ state # "running"
  /\ worker.at = "await" /\ pc \notin {"exit", "closed"} =>
       \/ caller["worker"].at = "put" /\ jobs = <<>> /\ pc \notin Occupied
       \/ caller["worker"].at = "wait" /\ pc \notin Occupied /\ \E j : jobs = <<j>> /\ IsCall(j)
       \/ caller["worker"].at = "wait" /\ jobs = <<>> /\ pc \in Occupied /\ IsCall(job)
  /\ caller["worker"].at = "put" => IsCall(caller["worker"].job)
  /\ pc = "notify" => state # "running"

\* The steps between the requests of the server leave the rollout service alone.
LEMMA ArmsLeftAlone ==
  ASSUME CallFits, UNCHANGED armVars, worker'.at = "await" <=> worker.at = "await"
  PROVE  CallFits'
BY DEF CallFits, armVars

\* Every step keeps the worker and the rollout service in agreement.
LEMMA CallStep ==
  ASSUME ~Crashes
  PROVE  WorkerFits /\ CallFits /\ [Next]_serverVars => CallFits'
<1> SUFFICES ASSUME WorkerFits, CallFits, [Next]_serverVars PROVE CallFits'
  OBVIOUS
<1>t. worker \in WorkerFields
  BY DEF WorkerFits, WorkerFields
<1>p. Points = { "idle", "enter", "stow", "align", "aligning", "leave gate", "mark", "check",
                 "post", "await", "leave", "report" }
  BY DEF Points
<1>i. Rollout!Idle.at = "idle" /\ Rollout!Idle \in Rollout!Callers
  BY DEF Rollout!Idle, Rollout!Callers
<1>1. CASE Fetch \/ Enter \/ AskStow \/ AlignBegin \/ AlignPoll \/ AlignTimeout \/ AlignEnd
  <2>1. worker.at # "await" /\ UNCHANGED armVars
    BY <1>1 DEF Fetch, Enter, AskStow, AlignBegin, AlignPoll, AlignTimeout, AlignEnd
  <2>2. \/ \E where \in {"stow", "align", "mark", "aligning", "report"} : Go(where)
        \/ \E where \in {"report", "leave gate"}, ok \in BOOLEAN :
             worker' = [worker EXCEPT !.at = where, !.ok = ok]
        \/ worker'.at = "enter"
    <3>1. CASE Fetch
      BY <3>1 DEF Fetch
    <3>2. CASE Enter
      <4>1. CASE \E ok \in BOOLEAN : Return(ok)
        BY <4>1 DEF Return
      <4> QED
        BY <3>2, <4>1 DEF Enter
    <3>3. CASE AskStow
      BY <3>3 DEF AskStow, Return
    <3>4. CASE AlignBegin \/ AlignTimeout \/ AlignEnd
      BY <3>4 DEF AlignBegin, AlignTimeout, AlignEnd
    <3>5. CASE AlignPoll
      BY <3>5 DEF AlignPoll, WorkerFits
    <3> QED
      BY <1>1, <3>1, <3>2, <3>3, <3>4, <3>5
  <2>3. worker'.at # "await"
    BY <1>t, <1>p, <2>2, GoFits, OutcomeFits
  <2> QED
    BY <2>1, <2>3, ArmsLeftAlone
<1>2. CASE Mark \/ Check \/ Leave \/ Report
  <2>1. worker.at # "await" /\ UNCHANGED armVars
    BY <1>2 DEF Mark, Check, Leave, Report
  <2>2. \/ \E where \in {"check", "post", "report"} : Go(where)
        \/ worker' = [worker EXCEPT !.at = "report", !.ok = FALSE]
        \/ worker'.at = "idle"
    <3>1. CASE Mark \/ Leave
      BY <3>1 DEF Mark, Leave
    <3>2. CASE Check
      BY <3>2 DEF Check, Return
    <3>3. CASE Report
      <4>1. worker' = NoCommand
        BY <3>3 DEF Report
      <4> QED
        BY <4>1 DEF NoCommand
    <3> QED
      BY <1>2, <3>1, <3>2, <3>3
  <2>3. worker'.at # "await"
    BY <1>t, <1>p, <2>2, GoFits, OutcomeFits
  <2> QED
    BY <2>1, <2>3, ArmsLeftAlone
<1>3. CASE Post
  <2>1. worker.at = "post" /\ Task \in Rollout!Tasks
    BY <1>3, TaskKnown DEF Post, Calling
  <2>2. CASE Rollout!Submit("worker", Task, TRUE) /\ Go("await")
    <3>1. /\ caller' = [caller EXCEPT !["worker"] =
                          [at |-> "put", job |-> Rollout!Job("worker", Task, TRUE)]]
          /\ UNCHANGED <<jobs, pc, job>> /\ worker'.at = "await"
      BY <1>t, <1>p, <2>2, GoFits DEF Rollout!Submit, Rollout!runVars
    <3>2. /\ Rollout!Job("worker", Task, TRUE) \in Rollout!Jobs
          /\ IsCall(Rollout!Job("worker", Task, TRUE))
      BY <2>1 DEF Rollout!Job, Rollout!Jobs, IsCall, Rollout!Tasks, Rollout!Policies
    <3>3. /\ caller' \in [{"worker", "stopper"} -> Rollout!Callers]
          /\ caller'["stopper"] = Rollout!Idle
          /\ caller'["worker"].at = "put" /\ IsCall(caller'["worker"].job)
      BY <3>1, <3>2 DEF CallFits, Rollout!Callers
    <3>4. jobs' = <<>> /\ pc' \notin Occupied
      BY <2>1, <3>1 DEF CallFits
    <3> QED
      BY <3>1, <3>3, <3>4 DEF CallFits, Occupied
  <2>3. CASE worker' = [worker EXCEPT !.at = "leave", !.ok = FALSE] /\ UNCHANGED armVars
    BY <1>t, <1>p, <2>1, <2>3, OutcomeFits, ArmsLeftAlone
  <2> QED
    BY <1>3, <2>2, <2>3 DEF Post
<1>4. CASE Answer
  <2>1. /\ pc = "notify" /\ pc' = "get" /\ UNCHANGED <<state, jobs, job>>
        /\ caller' = IF job.wait THEN [caller EXCEPT ![job.client] = Rollout!Idle] ELSE caller
    BY <1>4 DEF Answer, Rollout!Notify, Rollout!jobVars
  <2>2. worker.at = "await" /\ jobs = <<>> /\ IsCall(job) /\ state # "running"
    BY <2>1 DEF CallFits, Occupied
  <2>3. worker'.at = "leave"
    BY <1>4, <1>t, <2>2 DEF Answer, WorkerFields
  <2>4. /\ caller' \in [{"worker", "stopper"} -> Rollout!Callers]
        /\ caller'["stopper"] = Rollout!Idle /\ caller'["worker"] = Rollout!Idle
    BY <1>i, <2>1, <2>2 DEF CallFits, IsCall
  <2> QED
    BY <1>i, <2>1, <2>2, <2>3, <2>4 DEF CallFits, Occupied, Rollout!Running
<1>5. CASE Desk \/ ConfirmAlignment \/ CancelOrder \/ CancelRead \/ CancelEnd
  BY <1>5, ArmsLeftAlone DEF Desk, ConfirmAlignment, CancelOrder, CancelRead, CancelEnd
<1>6. CASE EStopLatch \/ EStopHalt \/ EStopEnd \/ Reset
  BY <1>6, ArmsLeftAlone DEF EStopLatch, EStopHalt, EStopEnd, Reset
<1>7. ASSUME UNCHANGED <<state, jobs, pc, job, caller, worker>> PROVE CallFits'
  BY <1>7 DEF CallFits
<1>8. CASE CancelBackend \/ EStopArms
  <2>1. CASE UNCHANGED <<armVars, worker>>
    BY <2>1, ArmsLeftAlone
  <2>2. CASE Rollout!Stop("stopper") /\ UNCHANGED worker
    BY <1>7, <2>2 DEF Rollout!Stop, Rollout!jobVars, Rollout!runVars
  <2> QED
    BY <1>8, <2>1, <2>2 DEF CancelBackend, EStopArms
<1>9. CASE ServiceRestart
  <2>1. /\ state' = "loading" /\ jobs' = <<>> /\ pc' = "load"
        /\ caller' = [c \in {"worker", "stopper"} |-> Rollout!Idle]
    BY <1>9 DEF ServiceRestart, Rollout!Restart
  <2>2. worker'.at # "await"
    BY <1>9, <1>t DEF ServiceRestart, WorkerFields
  <2> QED
    BY <1>i, <2>1, <2>2 DEF CallFits, Occupied, Rollout!Running
<1>10. ASSUME UNCHANGED <<state, jobs, caller, job, worker>>, pc \in Rollout!Running,
              pc' \in Rollout!Running \cup {"exit"}
       PROVE  CallFits'
  BY <1>10 DEF CallFits, Occupied, Rollout!Running
<1>11. CASE ServiceInterrupt
  <2>1. UNCHANGED <<state, jobs, caller, job, worker>>
    BY <1>11 DEF ServiceInterrupt, Rollout!Interrupt, Rollout!jobVars, Rollout!httpVars
  <2>2. CASE pc \in Rollout!Running
    <3>1. pc' \in {"finish", "exit"}
      BY <1>11 DEF ServiceInterrupt, Rollout!Interrupt
    <3> QED
      BY <1>10, <2>1, <2>2, <3>1 DEF Rollout!Running
  <2>3. CASE pc \notin Rollout!Running
    <3>1. pc' = "exit"
      BY <1>11, <2>3 DEF ServiceInterrupt, Rollout!Interrupt, Rollout!Running
    <3> QED
      BY <2>1, <3>1 DEF CallFits, Occupied, Rollout!Running
  <2> QED
    BY <2>2, <2>3
<1>12. CASE PolicyStep
  BY <1>10, <1>12 DEF PolicyStep, Rollout!PolicyEnds, Rollout!EndsWith, Rollout!jobVars,
                      Rollout!httpVars, Rollout!Running
<1>13. CASE ServiceStep
  <2> USE DEF Rollout!jobVars, Rollout!httpVars
  <2>w. UNCHANGED worker
    BY <1>13 DEF ServiceStep
  <2>1. CASE Rollout!Ready
    BY <2>w, <2>1 DEF Rollout!Ready, CallFits, Occupied, Rollout!Running
  <2>2. CASE Rollout!PutJob("worker")
    <3>1. /\ caller["worker"].at = "put" /\ jobs' = Append(jobs, caller["worker"].job)
          /\ UNCHANGED <<state, pc, job>> /\ IsCall(caller["worker"].job)
          /\ worker.at = "await"
      BY <1>i, <2>2 DEF Rollout!PutJob, Rollout!runVars, CallFits
    <3>2. caller' = [caller EXCEPT !["worker"] = [caller["worker"] EXCEPT !.at = "wait"]]
      BY <2>2, <3>1 DEF Rollout!PutJob, IsCall
    <3>3. /\ caller' \in [{"worker", "stopper"} -> Rollout!Callers]
          /\ caller'["stopper"] = Rollout!Idle /\ caller'["worker"].at = "wait"
      BY <3>2 DEF CallFits, Rollout!Callers
    <3>4. pc \notin {"exit", "closed"} => jobs' = << caller["worker"].job >> /\ pc \notin Occupied
      BY <3>1 DEF CallFits
    <3>5. worker.at = "await" /\ pc' \notin {"exit", "closed"} =>
            pc' \notin Occupied /\ \E j : jobs' = <<j>> /\ IsCall(j)
      BY <3>1, <3>4
    <3>6. pc' = "notify" => state' # "running"
      BY <3>1 DEF CallFits
    <3> QED
      BY <2>w, <3>1, <3>3, <3>5, <3>6 DEF CallFits
  <2>3. CASE Rollout!Get
    <3>1. /\ pc = "get" /\ jobs # <<>> /\ jobs' = Tail(jobs) /\ UNCHANGED <<state, caller>>
          /\ pc \notin Occupied /\ pc \notin {"exit", "closed"}
      BY <2>3 DEF Rollout!Get, Occupied, Rollout!Running
    <3>2. PICK j : jobs = <<j>> /\ IsCall(j)
      BY <3>1 DEF CallFits
    <3>3. /\ worker.at = "await" /\ caller["worker"].at = "wait" /\ jobs' = <<>>
          /\ Head(jobs) = j
      BY <3>1, <3>2 DEF CallFits
    <3>4. j # Rollout!Pill
      BY <3>2 DEF IsCall, Rollout!Pill
    <3>5. pc' = "begin" /\ job' = j
      BY <2>3, <3>3, <3>4 DEF Rollout!Get
    <3> QED
      BY <2>w, <3>1, <3>2, <3>3, <3>5 DEF CallFits, Occupied, Rollout!Running
  <2>4. CASE Rollout!Begin \/ Rollout!StartPose \/ Rollout!Judge \/ Rollout!FinishPose \/ Rollout!EndMotion
    BY <1>10, <2>w, <2>4 DEF Rollout!Begin, Rollout!StartPose, Rollout!EndsWith, Rollout!Judge,
       Rollout!FinishPose, Rollout!EndMotion, Rollout!Running
  <2>5. CASE Rollout!Report
    <3>1. pc = "report" /\ UNCHANGED <<jobs, caller, job>>
      BY <2>5 DEF Rollout!Report
    <3>2. CASE pc' = "exit" /\ UNCHANGED state
      BY <1>10, <2>w, <3>1, <3>2 DEF Rollout!Running
    <3>3. CASE pc' = "notify" /\ state' = "ready"
      BY <2>w, <3>1, <3>3 DEF CallFits, Occupied, Rollout!Running
    <3> QED
      BY <2>5, <3>2, <3>3 DEF Rollout!Report
  <2>6. CASE Rollout!Closing
    BY <2>w, <2>6 DEF Rollout!Closing, CallFits, Occupied, Rollout!Running
  <2> QED
    BY <1>13, <2>1, <2>2, <2>3, <2>4, <2>5, <2>6 DEF ServiceStep
<1>14. CASE UNCHANGED serverVars
  BY <1>14, ArmsLeftAlone DEF serverVars
<1>15. ~Crash
  BY DEF Crash
<1> QED
  BY <1>1, <1>2, <1>3, <1>4, <1>5, <1>6, <1>8, <1>9, <1>11, <1>12, <1>13, <1>14, <1>15
  DEF Next, WorkerStep

\* While the backend says that no policy runs, which lets the vehicle drive, the rollout
\* service has none, whatever is stopped, canceled or restarted around it.
THEOREM QuietHolds == ASSUME ~Crashes PROVE Spec => []QuietMeansQuiet
<1>1. Init => CallFits
  BY DEF Init, Rollout!Init, Rollout!FreshProcess, CallFits, NoCommand, Rollout!Idle, Rollout!Callers,
         Occupied, Rollout!Running
<1>2. WorkerFits /\ CallFits => QuietMeansQuiet
  <2> SUFFICES ASSUME WorkerFits, CallFits, running = "none" PROVE state # "running"
    BY DEF QuietMeansQuiet
  <2>1. worker.at # "await"
    BY TaskKnown DEF WorkerFits, Named, Calling, Policies
  <2> QED
    BY <2>1 DEF CallFits
<1> QED
  BY <1>1, <1>2, WorkerAlwaysFits, CallStep, PTL DEF Spec

------------------------------------------------------------------------------
(* STOP keeps the controller quiet, and no released order is forgotten *)

\* No mission, and nothing released.
NothingReleased == active = NoOrder /\ \A o \in Orders : orderState[o] # "QUEUED"

\* The dispatcher starts nothing from a table without released orders.
LEMMA SettledQuiet ==
  ASSUME NEW st, Settled(st), \A o \in Orders : st[o] # "QUEUED"
  PROVE  NothingReleased'
BY DEF Settled, NothingReleased

\* A desk that wants its orders accepted and started changes nothing of that while Start
\* is locked, and neither do the cancellation of an order and the outcome of a command.
LEMMA QuietKept ==
  ASSUME MissionFits, RequireOperator, NothingReleased,
         \/ \E o \in Orders : Controller!Submit(o) \/ Controller!Accept(o) \/ Controller!Reject(o)
                              \/ Controller!Cancel(o)
         \/ Controller!AdvanceFailure \/ Controller!AdvanceSuccess
  PROVE  NothingReleased'
<1>t. /\ active = NoOrder /\ NoOrder \notin Orders /\ phase \notin Controller!ServicePhases
      /\ \A o \in Orders : orderState[o] # "QUEUED"
  BY ServerAssumption DEF NothingReleased, MissionFits
<1>k. ASSUME NEW o \in Orders, NEW s \in {"PENDING", "ACCEPTED", "REJECTED", "CANCELED"},
             orderState' = [orderState EXCEPT ![o] = s], active' = active
      PROVE  NothingReleased'
  <2>1. \A p \in Orders : orderState'[p] = orderState[p] \/ orderState'[p] = s
    BY <1>k DEF MissionFits, OrderTable
  <2> QED
    BY <1>t, <1>k, <2>1 DEF NothingReleased
<1>1. ASSUME NEW o \in Orders, Controller!Submit(o) PROVE NothingReleased'
  BY <1>1, <1>k DEF Controller!Submit
<1>2. ASSUME NEW o \in Orders, Controller!Accept(o) \/ Controller!Reject(o) PROVE NothingReleased'
  BY <1>2, <1>k DEF Controller!Accept, Controller!Reject
<1>3. ASSUME NEW o \in Orders, Controller!Cancel(o) PROVE NothingReleased'
  BY <1>3, <1>t, <1>k DEF Controller!Cancel
<1>u. ASSUME UNCHANGED <<orderState, active>> PROVE NothingReleased'
  BY <1>t, <1>u DEF NothingReleased
<1>4. CASE Controller!AdvanceFailure
  <2>1. CASE UNCHANGED <<orderState, active>>
    BY <2>1, <1>u
  <2>2. CASE Controller!EndMission(orderState)
    BY <1>t, <2>2, EndSettles, SettledQuiet
  <2> QED
    BY <1>4, <1>t, <2>1, <2>2 DEF Controller!AdvanceFailure
<1>5. CASE Controller!AdvanceIdle \/ Controller!AdvanceCharging
  BY <1>5, <1>t, DispatchSettles, SettledQuiet DEF Controller!AdvanceIdle, Controller!AdvanceCharging
<1>6. CASE Controller!AdvanceDock
  BY <1>6, <1>u DEF Controller!AdvanceDock
<1>7. ~Controller!AdvanceService
  BY <1>t DEF Controller!AdvanceService
<1> QED
  BY <1>1, <1>2, <1>3, <1>4, <1>5, <1>6, <1>7 DEF Controller!AdvanceSuccess

\* When STOP is latched and the stop has done its work, nothing is under way and nothing is
\* released, whatever the worker, the desk and a cancellation were at when it came.
THEOREM StopStaysQuiet == ASSUME RequireOperator PROVE Spec => []LatchedQuiet
<1>1. Init => LatchedQuiet
  BY DEF Init, LatchedQuiet
<1>2. MissionFits /\ CancelFits /\ LatchedQuiet /\ [Next]_serverVars => LatchedQuiet'
  <2> SUFFICES ASSUME MissionFits, CancelFits, LatchedQuiet, [Next]_serverVars,
                      latched', estop' = "none"
               PROVE  NothingReleased'
    BY DEF LatchedQuiet, NothingReleased
  <2> USE DEF latchVars, missionVars
  <2>k. ASSUME UNCHANGED <<orderState, active, latched, estop>> PROVE NothingReleased'
    BY <2>k DEF LatchedQuiet, NothingReleased
  <2>q. UNCHANGED <<latched, estop>> => NothingReleased
    BY DEF LatchedQuiet, NothingReleased
  <2>1. CASE Fetch \/ Enter \/ AskStow \/ AlignBegin \/ AlignPoll \/ AlignTimeout \/ AlignEnd
    BY <2>1, <2>k DEF Fetch, Enter, AskStow, AlignBegin, AlignPoll, AlignTimeout, AlignEnd
  <2>2. CASE Mark \/ Check \/ Post \/ Answer \/ Leave
    BY <2>2, <2>k DEF Mark, Check, Post, Answer, Leave
  <2>3. CASE Report
    <3>1. UNCHANGED <<latched, estop>>
      BY <2>3 DEF Report
    <3> QED
      BY <2>3, <2>k, <2>q, <3>1, QuietKept DEF Report
  <2>4. CASE Desk
    <3>1. UNCHANGED <<latched, estop>>
      BY <2>4 DEF Desk
    <3>2. \E o \in Orders : Controller!Submit(o) \/ Controller!Accept(o) \/ Controller!Reject(o)
      BY <2>4, <3>1 DEF Desk
    <3> QED
      BY <2>q, <3>1, <3>2, QuietKept
  <2>5. CASE CancelOrder \/ CancelEnd
    <3>1. UNCHANGED <<latched, estop>>
      BY <2>5 DEF CancelOrder, CancelEnd
    <3>2. \E o \in Orders : Controller!Cancel(o)
      BY <2>5 DEF CancelOrder, CancelEnd, CancelFits
    <3> QED
      BY <2>q, <3>1, <3>2, QuietKept
  <2>6. CASE ConfirmAlignment \/ CancelRead \/ CancelBackend
    BY <2>6, <2>k DEF ConfirmAlignment, CancelRead, CancelBackend
  <2>7. ~(EStopLatch \/ EStopHalt \/ EStopArms \/ Reset \/ Crash)
    BY DEF EStopLatch, EStopHalt, EStopArms, Reset, Crash
  <2>8. CASE EStopEnd
    <3> DEFINE st == [o \in Orders |->
                        IF orderState[o] = "QUEUED" THEN "ACCEPTED" ELSE orderState[o]]
    <3>1. Controller!EmergencyStop
      BY <2>8 DEF EStopEnd
    <3>2. \A o \in Orders : st[o] # "QUEUED"
      OBVIOUS
    <3>3. CASE active = NoOrder
      <4>1. orderState' = st /\ active' = active
        BY <3>1, <3>3 DEF Controller!EmergencyStop
      <4> QED
        BY <3>2, <3>3, <4>1 DEF NothingReleased
    <3>4. CASE active # NoOrder
      <4>1. Controller!EndMission([st EXCEPT ![active] = "FAILED"])
        BY <3>1, <3>4 DEF Controller!EmergencyStop
      <4>2. \A o \in Orders : [st EXCEPT ![active] = "FAILED"][o] # "QUEUED"
        BY <3>2
      <4> HIDE DEF st
      <4> QED
        BY <4>1, <4>2, EndSettles, SettledQuiet
    <3> QED
      BY <3>3, <3>4
  <2>9. CASE ServiceStep \/ PolicyStep \/ ServiceInterrupt \/ ServiceRestart
    BY <2>9, <2>k DEF ServiceStep, PolicyStep, ServiceInterrupt, ServiceRestart
  <2>10. CASE UNCHANGED serverVars
    BY <2>10, <2>k DEF serverVars
  <2> QED
    BY <2>1, <2>2, <2>3, <2>4, <2>5, <2>6, <2>7, <2>8, <2>9, <2>10 DEF Next, WorkerStep
<1> QED
  BY <1>1, <1>2, MissionAlwaysFits, PTL DEF Spec

\* No released order is forgotten: the robot rests only when none waits, also when the worker
\* looks at the controller at its leisure and outcomes come late.
THEOREM NothingForgotten == Spec => []NoneForgotten
BY MissionsInServer, PTL DEF NoneForgotten

------------------------------------------------------------------------------
(* What a served order went through *)

\* What the controller may do when a command did not succeed: it begins a mission or goes
\* without one, and an order's end is what the table st says.
ToBegin == UNCHANGED <<phase, active>> \/ phase' \in Controller!SystemPhases \cup {"NAVIGATE_KITCHEN"}

EndsAsIn(st) ==
  \A o \in Orders : orderState'[o] \in {"SUCCEEDED", "FAILED"} => st[o] = orderState'[o]

\* The dispatcher does no more than that.
LEMMA SettledEnds ==
  ASSUME NEW st \in OrderTable, Settled(st)
  PROVE  ToBegin /\ EndsAsIn(st)
<1>1. CASE orderState' = st /\ phase' \in Controller!SystemPhases
  BY <1>1 DEF ToBegin, EndsAsIn
<1>2. ASSUME NEW o \in Orders, orderState' = [st EXCEPT ![o] = "RUNNING"], phase' = "NAVIGATE_KITCHEN"
      PROVE  ToBegin /\ EndsAsIn(st)
  <2>1. \A p \in Orders : orderState'[p] = IF p = o THEN "RUNNING" ELSE st[p]
    BY <1>2 DEF OrderTable
  <2> QED
    BY <1>2, <2>1 DEF ToBegin, EndsAsIn
<1> QED
  BY <1>1, <1>2 DEF Settled

\* The calls of the controller besides those that apply an outcome end no order with one.
LEMMA CallEnds ==
  ASSUME MissionFits,
         \/ \E o \in Orders : Controller!Submit(o) \/ Controller!Accept(o) \/ Controller!Reject(o)
                              \/ Controller!Cancel(o) \/ Controller!StartNext(o)
         \/ Controller!AdvanceIdle \/ Controller!AdvanceCharging \/ Controller!AdvanceDock
  PROVE  ToBegin /\ EndsAsIn(orderState)
<1>t. orderState \in OrderTable
  BY DEF MissionFits
<1>s. \A o \in Orders, s \in Controller!OrderStates : [orderState EXCEPT ![o] = s] \in OrderTable
  BY <1>t DEF OrderTable
<1>o. {"PENDING", "ACCEPTED", "QUEUED", "REJECTED", "CANCELED"} \subseteq Controller!OrderStates
  BY DEF Controller!OrderStates
<1>e. ASSUME NEW o \in Orders, NEW s \in {"PENDING", "ACCEPTED", "QUEUED", "REJECTED", "CANCELED"},
             EndsAsIn([orderState EXCEPT ![o] = s])
      PROVE  EndsAsIn(orderState)
  <2>1. \A p \in Orders : [orderState EXCEPT ![o] = s][p] = IF p = o THEN s ELSE orderState[p]
    BY <1>t DEF OrderTable
  <2> QED
    BY <1>e, <2>1 DEF EndsAsIn
<1>k. ASSUME NEW o \in Orders, NEW s \in {"PENDING", "ACCEPTED", "QUEUED", "REJECTED", "CANCELED"},
             orderState' = [orderState EXCEPT ![o] = s], UNCHANGED <<phase, active>>
      PROVE  ToBegin /\ EndsAsIn(orderState)
  <2>1. EndsAsIn([orderState EXCEPT ![o] = s]) /\ ToBegin
    BY <1>k DEF EndsAsIn, ToBegin
  <2> QED
    BY <1>e, <2>1
<1>d. ASSUME NEW o \in Orders, NEW s \in {"PENDING", "ACCEPTED", "QUEUED", "REJECTED", "CANCELED"},
             Settled([orderState EXCEPT ![o] = s])
      PROVE  ToBegin /\ EndsAsIn(orderState)
  BY <1>s, <1>o, <1>e, <1>d, SettledEnds
<1>q. ASSUME NEW o \in Orders, Controller!StartOrder([orderState EXCEPT ![o] = "QUEUED"], o)
      PROVE  ToBegin /\ EndsAsIn(orderState)
  <2>1. [orderState EXCEPT ![o] = "QUEUED"][o] = "QUEUED"
    BY <1>t DEF OrderTable
  <2>2. Settled([orderState EXCEPT ![o] = "QUEUED"])
    BY <1>q, <2>1 DEF Settled, Controller!StartOrder
  <2> QED
    BY <1>d, <2>2
<1>1. ASSUME NEW o \in Orders, Controller!Submit(o) PROVE ToBegin /\ EndsAsIn(orderState)
  BY <1>1, <1>k, <1>d, <1>q, DispatchSettles DEF Controller!Submit
<1>2. ASSUME NEW o \in Orders, Controller!Accept(o) \/ Controller!Reject(o)
      PROVE  ToBegin /\ EndsAsIn(orderState)
  BY <1>2, <1>k DEF Controller!Accept, Controller!Reject, Controller!robotVars
<1>3. ASSUME NEW o \in Orders, Controller!Cancel(o) PROVE ToBegin /\ EndsAsIn(orderState)
  BY <1>3, <1>k, <1>d, EndSettles DEF Controller!Cancel
<1>4. ASSUME NEW o \in Orders, Controller!StartNext(o) PROVE ToBegin /\ EndsAsIn(orderState)
  BY <1>4, <1>k, <1>d, <1>q, DispatchSettles DEF Controller!StartNext
<1>5. CASE Controller!AdvanceIdle \/ Controller!AdvanceCharging
  BY <1>5, <1>t, DispatchSettles, SettledEnds DEF Controller!AdvanceIdle, Controller!AdvanceCharging
<1>6. CASE Controller!AdvanceDock
  BY <1>6 DEF Controller!AdvanceDock, ToBegin, EndsAsIn, Controller!SystemPhases
<1> QED
  BY <1>1, <1>2, <1>3, <1>4, <1>5, <1>6

\* A command that failed for good ends the order it was given for.
LEMMA FailureEnds ==
  ASSUME MissionFits, Controller!AdvanceFailure
  PROVE  /\ ToBegin
         /\ \A o \in Orders : orderState'[o] = "SUCCEEDED" => orderState[o] = "SUCCEEDED"
         /\ \A o \in Orders \ {active} : orderState'[o] = "FAILED" => orderState[o] = "FAILED"
<1> DEFINE st == IF active = NoOrder THEN orderState ELSE [orderState EXCEPT ![active] = "FAILED"]
<1>1. /\ st \in OrderTable
      /\ \A o \in Orders : st[o] = orderState[o] \/ (o = active /\ st[o] = "FAILED")
  BY DEF MissionFits, OrderTable, Controller!OrderStates
<1>2. CASE UNCHANGED <<orderState, active, phase>>
  BY <1>2 DEF ToBegin
<1>3. CASE Controller!EndMission(st)
  <2>1. ToBegin /\ EndsAsIn(st)
    <3> HIDE DEF st
    <3> QED
      BY <1>1, <1>3, EndSettles, SettledEnds
  <2> HIDE DEF st
  <2> QED
    BY <1>1, <2>1 DEF EndsAsIn
<1> QED
  BY <1>2, <1>3 DEF Controller!AdvanceFailure

\* Nor does an emergency stop make a success.
LEMMA StopEnds ==
  ASSUME MissionFits, Controller!EmergencyStop
  PROVE  /\ ToBegin
         /\ \A o \in Orders : orderState'[o] = "SUCCEEDED" => orderState[o] = "SUCCEEDED"
<1> DEFINE back == [o \in Orders |-> IF orderState[o] = "QUEUED" THEN "ACCEPTED" ELSE orderState[o]]
<1> DEFINE st == [back EXCEPT ![active] = "FAILED"]
<1>1. /\ back \in OrderTable
      /\ \A o \in Orders : back[o] = "SUCCEEDED" => orderState[o] = "SUCCEEDED"
  BY DEF MissionFits, OrderTable, Controller!OrderStates
<1>2. CASE orderState' = back /\ UNCHANGED <<active, phase>>
  BY <1>1, <1>2 DEF ToBegin
<1>3. CASE Controller!EndMission(st)
  <2>1. st \in OrderTable /\ \A o \in Orders : st[o] = "SUCCEEDED" => orderState[o] = "SUCCEEDED"
    BY <1>1 DEF OrderTable, Controller!OrderStates
  <2> HIDE DEF st
  <2>2. ToBegin /\ EndsAsIn(st)
    BY <1>3, <2>1, EndSettles, SettledEnds
  <2> QED
    BY <2>1, <2>2 DEF EndsAsIn
<1> QED
  BY <1>2, <1>3 DEF Controller!EmergencyStop

\* The phases of a mission after the one that pours.
PouredPhases ==
  { "GRASP_BOTTLE", "POUR", "RETURN_BOTTLE", "PLACE_DECK", "NAVIGATE_TABLE", "ALIGN_TABLE",
    "REGRASP_CUP", "SERVE" }

\* How far the mission is tells which policies succeeded for its order.
ServedFits ==
  /\ phase \in PouredPhases => results[active]["pour"] = "ok"
  /\ phase = "SERVE" => results[active]["place"] = "ok"
  /\ \A o \in Orders : orderState[o] = "SUCCEEDED" => \A p \in Policies : results[o][p] = "ok"

\* A success, once recorded, stays.
LEMMA SuccessStays ==
  ASSUME ~Crashes, WorkerFits, CachesOK, MemoryFits, [Next]_serverVars,
         NEW o \in Orders, NEW p \in Policies, results[o][p] = "ok"
  PROVE  results'[o][p] = "ok"
<1>1. ASSUME NEW ok \in BOOLEAN, worker.at \in Calling, Keep(ok) PROVE results'[o][p] = "ok"
  <2>1. CASE Task = "stow"
    BY <1>1, <2>1 DEF Keep
  <2>2. CASE Task # "stow"
    <3>1. results[worker.order][Task] = "none" /\ worker.order \in Orders /\ Task \in Policies
      BY <1>1, <2>2, TaskKnown DEF MemoryFits
    <3>2. results' = [results EXCEPT ![worker.order][Task] = IF ok THEN "ok" ELSE "failed"]
      BY <1>1, <2>2 DEF Keep
    <3> QED
      BY <3>1, <3>2 DEF CachesOK
  <2> QED
    BY <2>1, <2>2
<1>2. CASE Check
  BY <1>1, <1>2 DEF Check, Calling
<1>3. CASE Leave
  <2>1. worker.at \in Calling /\ worker.ok \in BOOLEAN /\ Keep(worker.ok)
    BY <1>3 DEF Leave, Calling, WorkerFits
  <2> QED
    BY <1>1, <2>1
<1>4. CASE Post
  BY <1>4 DEF Post
<1>5. ~Crash
  BY DEF Crash
<1> QED
  BY <1>2, <1>3, <1>4, <1>5, CachesKept

\* A step after which the mission is where it was, or begins, or there is none.
LEMMA ServedKept ==
  ASSUME MissionFits, ServedFits, ToBegin,
         \A o \in Orders : orderState'[o] = "SUCCEEDED" => orderState[o] = "SUCCEEDED",
         \A o \in Orders, p \in Policies : results[o][p] = "ok" => results'[o][p] = "ok"
  PROVE  ServedFits'
<1>1. "pour" \in Policies /\ "place" \in Policies
  BY DEF Policies
<1>2. CASE UNCHANGED <<phase, active>>
  <2>1. phase \in PouredPhases => active \in Orders
    BY DEF MissionFits, PouredPhases, Controller!ServicePhases
  <2> QED
    BY <1>1, <1>2, <2>1 DEF ServedFits, PouredPhases
<1>3. CASE phase' \in Controller!SystemPhases \cup {"NAVIGATE_KITCHEN"}
  BY <1>3 DEF ServedFits, PouredPhases, Controller!SystemPhases
<1> QED
  BY <1>2, <1>3 DEF ToBegin

\* Every step keeps the mission and the memory in agreement.
LEMMA ServedStep ==
  ASSUME ~Crashes
  PROVE  /\ MissionFits /\ CancelFits /\ WorkerFits /\ CachesOK /\ MemoryFits /\ ServedFits
         /\ [Next]_serverVars
         => ServedFits'
<1> SUFFICES ASSUME MissionFits, CancelFits, WorkerFits, CachesOK, MemoryFits, ServedFits,
                    [Next]_serverVars
             PROVE  ServedFits'
  OBVIOUS
<1> USE DEF missionVars
<1>r. \A o \in Orders, p \in Policies : results[o][p] = "ok" => results'[o][p] = "ok"
  BY SuccessStays
<1>k. ASSUME UNCHANGED <<orderState, active, phase>> PROVE ServedFits'
  BY <1>r, <1>k, ServedKept DEF ToBegin
<1>e. ASSUME ToBegin, EndsAsIn(orderState) PROVE ServedFits'
  BY <1>r, <1>e, ServedKept DEF EndsAsIn
<1>1. CASE Fetch \/ Enter \/ AskStow \/ AlignBegin \/ AlignPoll \/ AlignTimeout \/ AlignEnd
  BY <1>1, <1>k DEF Fetch, Enter, AskStow, AlignBegin, AlignPoll, AlignTimeout, AlignEnd
<1>2. CASE Mark \/ Check \/ Post \/ Answer \/ Leave
  BY <1>2, <1>k DEF Mark, Check, Post, Answer, Leave
<1>3. CASE Report
  <2>1. CASE UNCHANGED missionVars
    BY <1>k, <2>1
  <2>2. CASE Controller!AdvanceFailure
    BY <1>r, <2>2, FailureEnds, ServedKept
  <2>3. CASE Controller!AdvanceIdle \/ Controller!AdvanceCharging \/ Controller!AdvanceDock
    BY <1>e, <2>3, CallEnds
  <2>4. CASE /\ Controller!AdvanceService /\ worker.at = "report" /\ UNCHANGED results
             /\ phase = worker.phase /\ active = worker.order
             /\ worker.ok \/ phase = "IDLE_AT_DOCK"
    <3>1. phase \in Controller!ServicePhases /\ active \in Orders /\ worker.ok
      BY <2>4 DEF Controller!AdvanceService, MissionFits, Controller!ServicePhases
    <3>2. phase \in DOMAIN PolicyOf => results[active][PolicyOf[phase]] = "ok"
      BY <2>4, <3>1 DEF MemoryFits
    <3>3. PolicyOf["GRASP_CUP"] = "pour" /\ PolicyOf["SERVE"] = "place"
          /\ PolicyOf["REGRASP_CUP"] = "place" /\ PolicyOf["POUR"] = "pour"
          /\ {"GRASP_CUP", "REGRASP_CUP", "SERVE"} \subseteq DOMAIN PolicyOf
      BY DEF PolicyOf
    <3>4. CASE phase = "SERVE"
      <4> DEFINE st == [orderState EXCEPT ![active] = "SUCCEEDED"]
      <4>1. Controller!NextPhase[phase] = "DONE"
        BY <3>4 DEF Controller!NextPhase
      <4>2. Settled(st)
        BY <2>4, <4>1, DispatchSettles DEF Controller!AdvanceService, Controller!DecideAfterTerminalOrder
      <4>3. /\ st \in OrderTable
            /\ \A o \in Orders : st[o] = "SUCCEEDED" => o = active \/ orderState[o] = "SUCCEEDED"
        BY <3>1 DEF MissionFits, OrderTable, Controller!OrderStates
      <4> HIDE DEF st
      <4>4. ToBegin /\ EndsAsIn(st)
        BY <4>2, <4>3, SettledEnds
      <4>5. \A p \in Policies : results[active][p] = "ok"
        BY <3>4 DEF ServedFits, PouredPhases, Policies
      <4>6. phase' \in Controller!SystemPhases \cup {"NAVIGATE_KITCHEN"}
        BY <4>2 DEF Settled
      <4>7. phase' \notin PouredPhases
        BY <4>6 DEF PouredPhases, Controller!SystemPhases
      <4>8. \A o \in Orders : orderState'[o] = "SUCCEEDED" => \A p \in Policies : results[o][p] = "ok"
        BY <4>3, <4>4, <4>5 DEF EndsAsIn, ServedFits
      <4> QED
        BY <2>4, <4>7, <4>8 DEF ServedFits, PouredPhases
    <3>5. CASE phase # "SERVE"
      <4>1. Controller!NextPhase[phase] # "DONE"
        BY <3>1, <3>5 DEF Controller!NextPhase, Controller!ServicePhases
      <4>2. phase' = Controller!NextPhase[phase] /\ UNCHANGED <<orderState, active>>
        BY <2>4, <4>1 DEF Controller!AdvanceService
      <4>3. phase' \in PouredPhases => phase = "GRASP_CUP" \/ phase \in PouredPhases
        BY <3>1, <4>2 DEF Controller!NextPhase, PouredPhases, Controller!ServicePhases
      <4>4. phase' = "SERVE" => phase = "REGRASP_CUP"
        BY <3>1, <3>5, <4>2 DEF Controller!NextPhase, Controller!ServicePhases
      <4> QED
        BY <2>4, <3>2, <3>3, <4>2, <4>3, <4>4 DEF ServedFits
    <3> QED
      BY <3>4, <3>5
  <2> QED
    BY <1>3, <2>1, <2>2, <2>3, <2>4 DEF Report, Controller!AdvanceSuccess, cacheVars
<1>4. CASE Desk \/ CancelOrder \/ CancelEnd
  BY <1>4, <1>e, CallEnds DEF Desk, CancelOrder, CancelEnd, CancelFits
<1>5. CASE ConfirmAlignment \/ CancelRead \/ CancelBackend
  BY <1>5, <1>k DEF ConfirmAlignment, CancelRead, CancelBackend
<1>6. CASE EStopLatch \/ EStopHalt \/ EStopArms \/ Reset
  BY <1>6, <1>k DEF EStopLatch, EStopHalt, EStopArms, Reset
<1>7. CASE EStopEnd
  BY <1>7, <1>r, StopEnds, ServedKept DEF EStopEnd
<1>8. CASE ServiceStep \/ PolicyStep \/ ServiceInterrupt \/ ServiceRestart
  BY <1>8, <1>k DEF ServiceStep, PolicyStep, ServiceInterrupt, ServiceRestart
<1>9. CASE UNCHANGED serverVars
  BY <1>9, <1>k DEF serverVars
<1>10. ~Crash
  BY DEF Crash
<1> QED
  BY <1>1, <1>2, <1>3, <1>4, <1>5, <1>6, <1>7, <1>8, <1>9, <1>10 DEF Next, WorkerStep

\* An order succeeds only when both policies really ran for it, and ran well, however its
\* phases are retried, stopped and canceled around.
THEOREM ServedForReal == ASSUME ~Crashes PROVE Spec => []ServedByArms
<1>1. Init => ServedFits
  BY DEF Init, Controller!Init, ServedFits, PouredPhases
<1>2. CachesOK /\ MemoryFits /\ ServedFits => ServedByArms
  BY DEF CachesOK, MemoryFits, ServedFits, ServedByArms, RunsCap
<1> QED
  BY <1>1, <1>2, MemoryAlwaysFits, ServedStep, PTL DEF Spec

\* Nobody presses STOP.
Unstopped == estop = "none" /\ ~latched

\* The outcome of a command ends the order it was given for and no other: what comes back
\* after a cancellation finds the next mission under way.
THEOREM OutcomeOfItsOrder == ASSUME ~Stops PROVE Spec => OutcomeEndsItsOrder
<1> USE DEF missionVars
<1>1. Init => Unstopped
  BY DEF Init, Unstopped
<1>2. Unstopped /\ [Next]_serverVars => Unstopped'
  <2> SUFFICES ASSUME Unstopped, [Next]_serverVars PROVE Unstopped'
    OBVIOUS
  <2>u. UNCHANGED latchVars => Unstopped'
    BY DEF latchVars, Unstopped
  <2>0. CASE Fetch \/ Enter \/ AskStow \/ AlignBegin \/ AlignPoll \/ AlignTimeout \/ AlignEnd
    BY <2>0, <2>u DEF Fetch, Enter, AskStow, AlignBegin, AlignPoll, AlignTimeout, AlignEnd
  <2>1. CASE Mark \/ Check \/ Post \/ Answer \/ Leave \/ Report
    BY <2>1, <2>u DEF Mark, Check, Post, Answer, Leave, Report
  <2>2. CASE Desk \/ ConfirmAlignment \/ CancelOrder \/ CancelRead \/ CancelBackend \/ CancelEnd
    BY <2>2, <2>u DEF Desk, ConfirmAlignment, CancelOrder, CancelRead, CancelBackend, CancelEnd
  <2>3. CASE EStopLatch \/ EStopHalt \/ EStopArms \/ EStopEnd \/ Reset
    BY <2>3 DEF EStopLatch, EStopHalt, EStopArms, EStopEnd, Reset, Unstopped
  <2>4. CASE ServiceStep \/ PolicyStep \/ ServiceInterrupt \/ ServiceRestart \/ Crash
    BY <2>4, <2>u DEF ServiceStep, PolicyStep, ServiceInterrupt, ServiceRestart, Crash, Unstopped
  <2>5. CASE UNCHANGED serverVars
    BY <2>5, <2>u DEF serverVars
  <2> QED
    BY <2>0, <2>1, <2>2, <2>3, <2>4, <2>5 DEF Next, WorkerStep
<1>3. MissionFits /\ CancelFits /\ Unstopped /\ [Next]_serverVars
      => [ \A o \in Orders :
             orderState[o] # orderState'[o] /\ orderState'[o] \in {"SUCCEEDED", "FAILED"}
               => worker.order = o \/ latched ]_serverVars
  <2> SUFFICES ASSUME MissionFits, CancelFits, Unstopped, Next,
                      NEW o \in Orders, orderState[o] # orderState'[o],
                      orderState'[o] \in {"SUCCEEDED", "FAILED"}
               PROVE  worker.order = o
    BY DEF serverVars
  <2>e. ~EndsAsIn(orderState)
    BY DEF EndsAsIn
  <2>k. orderState' # orderState
    OBVIOUS
  <2>1. ~(Fetch \/ Enter \/ AskStow \/ AlignBegin \/ AlignPoll \/ AlignTimeout \/ AlignEnd)
    BY <2>k DEF Fetch, Enter, AskStow, AlignBegin, AlignPoll, AlignTimeout, AlignEnd
  <2>2. ~(Mark \/ Check \/ Post \/ Answer \/ Leave)
    BY <2>k DEF Mark, Check, Post, Answer, Leave
  <2>3. ~(Desk \/ CancelOrder \/ CancelEnd)
    BY <2>e, CallEnds DEF Desk, CancelOrder, CancelEnd, CancelFits
  <2>4. ~(ConfirmAlignment \/ CancelRead \/ CancelBackend)
    BY <2>k DEF ConfirmAlignment, CancelRead, CancelBackend
  <2>5. ~(EStopLatch \/ EStopHalt \/ EStopArms \/ EStopEnd \/ Reset \/ Crash)
    BY <2>k DEF EStopLatch, EStopHalt, EStopArms, EStopEnd, Reset, Crash, Unstopped
  <2>6. ~(ServiceStep \/ PolicyStep \/ ServiceInterrupt \/ ServiceRestart)
    BY <2>k DEF ServiceStep, PolicyStep, ServiceInterrupt, ServiceRestart
  <2>7. Report /\ active = worker.order
    <3>1. Report
      BY <2>1, <2>2, <2>3, <2>4, <2>5, <2>6 DEF Next, WorkerStep
    <3> QED
      BY <2>k, <3>1 DEF Report
  <2>8. CASE Controller!AdvanceFailure
    BY <2>7, <2>8, FailureEnds
  <2>9. CASE Controller!AdvanceIdle \/ Controller!AdvanceCharging \/ Controller!AdvanceDock
    BY <2>e, <2>9, CallEnds
  <2>10. CASE Controller!AdvanceService
    <3> DEFINE st == [orderState EXCEPT ![active] = "SUCCEEDED"]
    <3>1. Settled(st)
      BY <2>k, <2>10, DispatchSettles DEF Controller!AdvanceService, Controller!DecideAfterTerminalOrder
    <3>2. st \in OrderTable /\ (o # active => st[o] = orderState[o])
      BY <2>10 DEF Controller!AdvanceService, MissionFits, OrderTable, Controller!OrderStates
    <3> HIDE DEF st
    <3>3. EndsAsIn(st)
      BY <3>1, <3>2, SettledEnds
    <3> QED
      BY <2>7, <3>2, <3>3 DEF EndsAsIn
  <2> QED
    BY <2>k, <2>7, <2>8, <2>9, <2>10 DEF Report, Controller!AdvanceSuccess
<1> QED
  BY <1>1, <1>2, <1>3, MissionAlwaysFits, PTL DEF Spec, OutcomeEndsItsOrder

=============================================================================
