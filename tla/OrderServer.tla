----------------------------- MODULE OrderServer -----------------------------
(***************************************************************************)
(* The order server apps/service_order/service_order_server.py with its    *)
(* RolloutServiceBackend (src/mission/service_execution_backend.py),       *)
(* between the mission controller and the rollout service.                 *)
(*                                                                         *)
(* Threads: one worker (auto_step) that executes the command of the        *)
(* current phase under execution_lock; HTTP threads that submit, accept,   *)
(* start, cancel, confirm an alignment and stop, under the lock of the     *)
(* application.  An action is one critical section, or one request to the  *)
(* rollout service.  The battery never runs low here (MissionController    *)
(* has that side); tickets, drive links and histories are left out.        *)
(* Bounds: one emergency stop and one cancellation in progress at a time.  *)
(***************************************************************************)
EXTENDS Naturals, Sequences, FiniteSets

CONSTANTS
  Orders, Tables, NoOrder, TableOf, RetryablePhases, MaxAttempts, RequireOperator,
  Timed,            \* policies with a duration
  AcceptDuration,   \* --accept-duration
  Stops,            \* bound: STOP may be pressed
  Crashes           \* the server may crash and be started again

ASSUME ServerAssumption == NoOrder \notin Orders

VARIABLES
  \* MissionController
  orderState, sequenceOf, sequence, active, phase, attempt, location, charge,
  \* RolloutService
  state, current, event, stopRequested, arms, jobs, pc, job, result, caller, stopAnswer, stowPose,
  \* ServiceApplication
  latched,     \* emergency["active"]
  stopped,     \* emergency["order_id"]
  \* RolloutServiceBackend
  halted,      \* _halted
  cancelled,   \* _cancel
  aligned,     \* _aligned
  waiting,     \* _waiting is set
  running,     \* _running, "none" for None
  results,     \* _results
  stowed,      \* _stowed_missions; an order has one mission
  \* Threads
  worker,      \* the worker: where it is, phase and order of its command, the outcome
  estop,       \* where the thread in emergency_stop() is
  canceling,   \* where the thread in cancel() is, and its order; it holds the lock
  runs         \* history: how often a policy was started for an order

Policies == { "pour", "place" }

AlignPhases == { "ALIGN_KITCHEN", "ALIGN_TABLE" }

\* POLICY_PHASES: the policy a phase reports, and the two phases that run it.
PolicyOf ==
  [ GRASP_CUP |-> "pour", GRASP_BOTTLE |-> "pour", POUR |-> "pour",
    RETURN_BOTTLE |-> "pour", PLACE_DECK |-> "pour",
    REGRASP_CUP |-> "place", SERVE |-> "place" ]
RunPhases == { "GRASP_CUP", "REGRASP_CUP" }

\* What the mission configuration and the menu may say.
ASSUME ServerConfigAssumption ==
  /\ Tables \cap { "dock", "kitchen" } = {} /\ TableOf \in [Orders -> Tables]
  /\ RetryablePhases \subseteq AlignPhases \cup DOMAIN PolicyOf
  /\ MaxAttempts \in Nat \ {0} /\ RequireOperator \in BOOLEAN
  /\ Timed \subseteq Policies

NoRoute == [l \in {"dock", "kitchen"} \cup Tables |-> [m \in {"dock", "kitchen"} \cup Tables |-> 0]]

Controller == INSTANCE MissionController WITH
  Priority <- [o \in Orders |-> 0], CreatedAt <- [o \in Orders |-> 0],
  Route <- NoRoute, PhaseEnergy <- [p \in AlignPhases \cup DOMAIN PolicyOf |-> 0],
  Reserve <- 0, ChargeTarget <- 1, InitialCharge <- 1, RequireDockReturn <- FALSE

\* The rollout service with its defaults and --stow.pose=place_end.
Rollout == INSTANCE RolloutService WITH
  Clients <- {"worker", "stopper"}, StowConfigured <- TRUE, StartPosed <- {"pour"},
  Detected <- Policies, Hooked <- {},
  EndPose <- [pour |-> "final", place |-> "stow"], MaxPills <- 0

missionVars == <<orderState, sequenceOf, sequence, active, phase, attempt, location, charge>>
armVars == <<state, current, event, stopRequested, arms, jobs, pc, job, result, caller,
             stopAnswer, stowPose>>
latchVars == <<latched, stopped, halted, estop>>
gateVars == <<aligned, waiting>>
cacheVars == <<results, stowed, runs>>
serverVars == <<missionVars, armVars, latchVars, cancelled, gateVars, running, cacheVars,
                worker, canceling>>

NoCommand == [at |-> "idle", phase |-> "IDLE_AT_DOCK", order |-> NoOrder, ok |-> FALSE]
NotCanceling == [at |-> "none", order |-> NoOrder]

Init ==
  /\ Controller!Init
  /\ Rollout!Init
  /\ latched = FALSE /\ stopped = NoOrder
  /\ halted = FALSE /\ cancelled = FALSE /\ aligned = FALSE /\ waiting = FALSE
  /\ running = "none"
  /\ results = [o \in Orders |-> [p \in Policies |-> "none"]]
  /\ stowed = {}
  /\ worker = NoCommand /\ estop = "none" /\ canceling = NotCanceling
  /\ runs = [o \in Orders |-> [p \in Policies |-> 0]]

\* The application's lock is free.
LockFree == canceling.at = "none"

Go(where) == worker' = [worker EXCEPT !.at = where]
Return(ok) == worker' = [worker EXCEPT !.at = "report", !.ok = ok]

\* The policy or the folding the worker's command is about.
Task == IF worker.phase = "NAVIGATE_KITCHEN" THEN "stow" ELSE PolicyOf[worker.phase]

------------------------------------------------------------------------------
(* The worker: execute_next() and RolloutServiceBackend.execute() *)

\* execute_next(): the command is taken from the controller.  auto_step looked for
\* work before, perhaps too early.
Fetch ==
  /\ worker.at = "idle" /\ LockFree /\ ~latched
  /\ worker' = [at |-> "enter", phase |-> phase, order |-> active, ok |-> FALSE]
  /\ UNCHANGED <<missionVars, armVars, latchVars, cancelled, gateVars, running, cacheVars, canceling>>

\* execute(): the halted check, and where the command goes.
Enter ==
  /\ worker.at = "enter"
  /\ LET p == worker.phase
         known == IF p \in DOMAIN PolicyOf THEN results[worker.order][PolicyOf[p]] ELSE "none" IN
     \/ halted /\ Return(FALSE)
     \/ /\ ~halted
        /\ \/ p \notin AlignPhases \cup DOMAIN PolicyOf \cup {"NAVIGATE_KITCHEN"} /\ Return(TRUE)
           \/ p = "NAVIGATE_KITCHEN" /\ IF worker.order \in stowed THEN Return(TRUE) ELSE Go("stow")
           \/ p \in AlignPhases /\ Go("align")
           \/ p \in DOMAIN PolicyOf /\ known # "none" /\ Return(known = "ok")
           \/ p \in RunPhases /\ known = "none" /\ Go("mark")
           \/ p \in DOMAIN PolicyOf \ RunPhases /\ known = "none" /\ Return(FALSE)
  /\ UNCHANGED <<missionVars, armVars, latchVars, cancelled, gateVars, running, cacheVars, canceling>>

\* _stow(): the service is asked whether it folds arms; while its process starts it
\* may not answer at all.
AskStow ==
  /\ worker.at = "stow"
  /\ \/ state # "closing" /\ Go("mark")
     \/ state = "closing" /\ Return(TRUE)
     \/ state = "loading" /\ Return(FALSE)
  /\ UNCHANGED <<missionVars, armVars, latchVars, cancelled, gateVars, running, cacheVars, canceling>>

\* _wait_alignment(): the gate is set up ...
AlignBegin ==
  /\ worker.at = "align"
  /\ aligned' = FALSE /\ cancelled' = FALSE /\ waiting' = TRUE
  /\ Go("aligning")
  /\ UNCHANGED <<missionVars, armVars, latchVars, running, cacheVars, canceling>>

\* ... polled ...
AlignPoll ==
  /\ worker.at = "aligning" /\ (aligned \/ cancelled)
  /\ worker' = [worker EXCEPT !.at = "leave gate", !.ok = aligned]
  /\ UNCHANGED <<missionVars, armVars, latchVars, cancelled, gateVars, running, cacheVars, canceling>>

\* ... given up after alignment_timeout_s, an hour ...
AlignTimeout ==
  /\ worker.at = "aligning"
  /\ worker' = [worker EXCEPT !.at = "leave gate", !.ok = FALSE]
  /\ UNCHANGED <<missionVars, armVars, latchVars, cancelled, gateVars, running, cacheVars, canceling>>

\* ... and taken down.
AlignEnd ==
  /\ worker.at = "leave gate"
  /\ waiting' = FALSE
  /\ Go("report")
  /\ UNCHANGED <<missionVars, armVars, latchVars, cancelled, aligned, running, cacheVars, canceling>>

\* Mutant: the phase is noted in place of its task.
MarkPhase ==
  /\ worker.at = "mark"
  /\ running' = worker.phase
  /\ cancelled' = FALSE
  /\ Go("check")
  /\ UNCHANGED <<missionVars, armVars, latchVars, gateVars, cacheVars, canceling>>

\* _run_policy(): from here on a cancellation finds the task ...
Mark ==
  /\ worker.at = "mark"
  /\ running' = Task
  /\ cancelled' = FALSE
  /\ Go("check")
  /\ UNCHANGED <<missionVars, armVars, latchVars, gateVars, cacheVars, canceling>>

\* Mutant: one cache for all missions.
KeepUnkeyed(ok) ==
  IF Task = "stow"
  THEN stowed' = (IF ok THEN stowed \cup {worker.order} ELSE stowed) /\ UNCHANGED results
  ELSE results' = [o \in Orders |-> [results[o] EXCEPT ![Task] = IF ok THEN "ok" ELSE "failed"]]
       /\ UNCHANGED stowed

\* What the cache keeps of an outcome; a failed folding is tried again.
Keep(ok) ==
  IF Task = "stow"
  THEN stowed' = (IF ok THEN stowed \cup {worker.order} ELSE stowed) /\ UNCHANGED results
  ELSE results' = [results EXCEPT ![worker.order][Task] = IF ok THEN "ok" ELSE "failed"]
       /\ UNCHANGED stowed

\* ... halted is looked at once more ...
Check ==
  /\ worker.at = "check"
  /\ \/ halted /\ running' = "none" /\ Keep(FALSE) /\ Return(FALSE)
     \/ ~halted /\ Go("post") /\ UNCHANGED <<running, results, stowed>>
  /\ UNCHANGED <<missionVars, armVars, latchVars, cancelled, gateVars, runs, canceling>>

\* The history saturates at RunsCap.
RunsCap == 2
Started == [runs EXCEPT ![worker.order][Task] = IF @ < RunsCap THEN @ + 1 ELSE RunsCap]

\* Mutant: the backend forgets its task as soon as the request is out.
PostForgets ==
  /\ worker.at = "post"
  /\ Rollout!Submit("worker", Task, TRUE)
  /\ Go("await")
  /\ running' = "none"
  /\ runs' = IF Task \in Policies THEN Started ELSE runs
  /\ UNCHANGED <<missionVars, latchVars, cancelled, gateVars, results, stowed, canceling>>

\* ... and the request is made: it is accepted, or refused (409 not_ready) or
\* unanswered.  A service that is still loading is asked again, until a deadline
\* or a cancellation.
Post ==
  /\ worker.at = "post"
  /\ \/ /\ Rollout!Submit("worker", Task, TRUE)
        /\ Go("await")
        /\ runs' = IF Task \in Policies THEN Started ELSE runs
     \/ /\ state # "ready"
        /\ worker' = [worker EXCEPT !.at = "leave", !.ok = FALSE]
        /\ UNCHANGED <<armVars, runs>>
  /\ UNCHANGED <<missionVars, latchVars, cancelled, gateVars, running, results, stowed, canceling>>

\* The service's answer reaches the worker.
Answer ==
  /\ Rollout!Notify
  /\ worker' = IF worker.at # "await" THEN worker
               ELSE [worker EXCEPT !.at = "leave",
                       !.ok = result.ok \/ (AcceptDuration /\ result.reason = "duration")]
  /\ UNCHANGED <<missionVars, latchVars, cancelled, gateVars, running, cacheVars, canceling>>

\* Mutant: only good outcomes are kept.
LeaveKeepsSuccess ==
  /\ worker.at = "leave"
  /\ running' = "none"
  /\ IF worker.ok THEN Keep(TRUE) ELSE UNCHANGED <<results, stowed>>
  /\ Go("report")
  /\ UNCHANGED <<missionVars, armVars, latchVars, cancelled, gateVars, runs, canceling>>

\* The task is over for the backend, its outcome kept.
Leave ==
  /\ worker.at = "leave"
  /\ running' = "none"
  /\ Keep(worker.ok)
  /\ Go("report")
  /\ UNCHANGED <<missionVars, armVars, latchVars, cancelled, gateVars, runs, canceling>>

\* Mutant: whatever the controller does by now, the outcome is applied to it.
ReportAlways ==
  /\ worker.at = "report" /\ LockFree
  /\ IF worker.ok \/ phase = "IDLE_AT_DOCK" THEN Controller!AdvanceSuccess ELSE Controller!AdvanceFailure
  /\ worker' = NoCommand
  /\ UNCHANGED <<armVars, latchVars, cancelled, gateVars, running, cacheVars, canceling>>

\* execute_next(), after the backend: the controller advances, unless it has left the
\* phase or the order behind in the meantime.
Report ==
  /\ worker.at = "report" /\ LockFree
  /\ IF phase # worker.phase \/ active # worker.order THEN UNCHANGED missionVars
     ELSE IF worker.ok \/ phase = "IDLE_AT_DOCK" THEN Controller!AdvanceSuccess
     ELSE Controller!AdvanceFailure
  /\ worker' = NoCommand
  /\ UNCHANGED <<armVars, latchVars, cancelled, gateVars, running, cacheVars, canceling>>

------------------------------------------------------------------------------
(* HTTP threads *)

\* Mutant: Start does not look at the latch.
DeskUnlatched ==
  /\ LockFree
  /\ \E o \in Orders :
       Controller!Submit(o) \/ Controller!Accept(o) \/ Controller!Reject(o) \/ Controller!StartNext(o)
  /\ UNCHANGED <<armVars, latchVars, cancelled, gateVars, running, cacheVars, worker, canceling>>

\* submit(), accept(), reject(), start_mission(), the last with the latch checked; its
\* check of the service's state, up to 2 s old, excludes nothing here.
Desk ==
  /\ LockFree
  /\ \E o \in Orders :
       \/ Controller!Submit(o) \/ Controller!Accept(o) \/ Controller!Reject(o)
       \/ ~latched /\ Controller!StartNext(o)
  /\ UNCHANGED <<armVars, latchVars, cancelled, gateVars, running, cacheVars, worker, canceling>>

\* confirm_alignment(), from the control page or the vehicle.
ConfirmAlignment ==
  /\ waiting
  /\ aligned' = TRUE
  /\ UNCHANGED <<missionVars, armVars, latchVars, cancelled, waiting, running, cacheVars,
                 worker, canceling>>

\* cancel() of an order that is not active.
CancelOrder ==
  /\ LockFree
  /\ \E o \in Orders \ {active} : Controller!Cancel(o)
  /\ UNCHANGED <<armVars, latchVars, cancelled, gateVars, running, cacheVars, worker, canceling>>

\* cancel() of the active order: cancel_active() looks at what the backend does ...
CancelRead ==
  /\ LockFree /\ active # NoOrder
  /\ canceling' = [at |-> IF waiting THEN "wait" ELSE IF running # "none" THEN "run" ELSE "end",
                   order |-> active]
  /\ UNCHANGED <<missionVars, armVars, latchVars, cancelled, gateVars, running, cacheVars, worker>>

\* ... ends it ...
CancelBackend ==
  /\ canceling.at \in {"wait", "run"}
  /\ cancelled' = TRUE
  /\ IF canceling.at = "run" THEN Rollout!Stop("stopper") ELSE UNCHANGED armVars
  /\ canceling' = [canceling EXCEPT !.at = "end"]
  /\ UNCHANGED <<missionVars, latchVars, gateVars, running, cacheVars, worker>>

\* ... and the order with it.
CancelEnd ==
  /\ canceling.at = "end"
  /\ Controller!Cancel(canceling.order)
  /\ canceling' = NotCanceling
  /\ UNCHANGED <<armVars, latchVars, cancelled, gateVars, running, cacheVars, worker>>

\* emergency_stop(): STOP is latched ...
EStopLatch ==
  /\ Stops /\ estop = "none" /\ LockFree
  /\ latched' = TRUE
  /\ stopped' = IF latched THEN stopped ELSE active
  /\ estop' = "halt"
  /\ UNCHANGED <<missionVars, armVars, halted, cancelled, gateVars, running, cacheVars, worker, canceling>>

\* ... the backend halted ...
EStopHalt ==
  /\ estop = "halt"
  /\ halted' = TRUE /\ cancelled' = TRUE
  /\ estop' = "stop 1"
  /\ UNCHANGED <<missionVars, armVars, latched, stopped, gateVars, running, cacheVars, worker, canceling>>

\* ... /stop sent twice ...
EStopArms ==
  /\ estop \in {"stop 1", "stop 2"}
  /\ Rollout!Stop("stopper")
  /\ estop' = IF estop = "stop 1" THEN "stop 2" ELSE "end"
  /\ UNCHANGED <<missionVars, latched, stopped, halted, cancelled, gateVars, running, cacheVars,
                 worker, canceling>>

\* ... and the mission ended.
EStopEnd ==
  /\ estop = "end" /\ LockFree
  /\ Controller!EmergencyStop
  /\ estop' = "none"
  /\ UNCHANGED <<armVars, latched, stopped, halted, cancelled, gateVars, running, cacheVars,
                 worker, canceling>>

\* reset_emergency_stop()
Reset ==
  /\ LockFree /\ latched
  /\ latched' = FALSE /\ stopped' = NoOrder /\ halted' = FALSE
  /\ UNCHANGED <<missionVars, armVars, estop, cancelled, gateVars, running, cacheVars, worker, canceling>>

------------------------------------------------------------------------------
(* The other side, and failures *)

\* The rollout service by itself; a policy may take its time.
ServiceStep ==
  /\ \/ Rollout!Ready \/ Rollout!PutJob("worker") \/ Rollout!Get \/ Rollout!Begin
     \/ Rollout!StartPose \/ Rollout!Judge \/ Rollout!FinishPose
     \/ Rollout!EndMotion \/ Rollout!Report \/ Rollout!Closing
  /\ UNCHANGED <<missionVars, latchVars, cancelled, gateVars, running, cacheVars, worker, canceling>>

PolicyStep ==
  /\ Rollout!PolicyEnds
  /\ UNCHANGED <<missionVars, latchVars, cancelled, gateVars, running, cacheVars, worker, canceling>>

\* Ctrl+C at the rollout service.
ServiceInterrupt ==
  /\ Rollout!Interrupt
  /\ UNCHANGED <<missionVars, latchVars, cancelled, gateVars, running, cacheVars, worker, canceling>>

\* Mutant: the worker does not notice that its connection is lost.
ServiceRestartUnnoticed ==
  /\ Rollout!Restart
  /\ UNCHANGED <<missionVars, latchVars, cancelled, gateVars, running, cacheVars, worker, canceling>>

\* Its process ends and starts anew; the worker's request fails.
ServiceRestart ==
  /\ Rollout!Restart
  /\ worker' = IF worker.at = "await" THEN [worker EXCEPT !.at = "leave", !.ok = FALSE] ELSE worker
  /\ UNCHANGED <<missionVars, latchVars, cancelled, gateVars, running, cacheVars, canceling>>

\* The order server ends and is started again: the controller comes back from the
\* store, the latch and the backend's memory do not.
Crash ==
  /\ Crashes
  /\ latched' = FALSE /\ stopped' = NoOrder
  /\ halted' = FALSE /\ cancelled' = FALSE /\ aligned' = FALSE /\ waiting' = FALSE
  /\ running' = "none"
  /\ results' = [o \in Orders |-> [p \in Policies |-> "none"]]
  /\ stowed' = {}
  /\ worker' = NoCommand /\ estop' = "none" /\ canceling' = NotCanceling
  /\ UNCHANGED <<missionVars, armVars, runs>>

WorkerStep ==
  Fetch \/ Enter \/ AskStow \/ AlignBegin \/ AlignPoll \/ AlignEnd \/ Mark \/ Check \/ Post
  \/ Leave \/ Report

Next ==
  \/ WorkerStep \/ AlignTimeout \/ Answer
  \/ Desk \/ ConfirmAlignment
  \/ CancelOrder \/ CancelRead \/ CancelBackend \/ CancelEnd
  \/ EStopLatch \/ EStopHalt \/ EStopArms \/ EStopEnd \/ Reset
  \/ ServiceStep \/ PolicyStep \/ ServiceInterrupt \/ ServiceRestart
  \/ Crash

Spec == Init /\ [][Next]_serverVars

------------------------------------------------------------------------------
(* Properties *)

Points == { "idle", "enter", "stow", "align", "aligning", "leave gate", "mark", "check",
            "post", "await", "leave", "report" }

\* Type correctness of the application and its backend.
ServerTypeOK ==
  /\ latched \in BOOLEAN /\ halted \in BOOLEAN /\ cancelled \in BOOLEAN
  /\ aligned \in BOOLEAN /\ waiting \in BOOLEAN
  /\ stopped \in Orders \cup {NoOrder}
  /\ running \in Policies \cup {"none", "stow"}
  /\ results \in [Orders -> [Policies -> {"none", "ok", "failed"}]]
  /\ stowed \subseteq Orders
  /\ worker.at \in Points /\ worker.order \in Orders \cup {NoOrder} /\ worker.ok \in BOOLEAN
  /\ worker.at \notin {"idle", "enter", "report"} => worker.order \in Orders
  /\ estop \in {"none", "halt", "stop 1", "stop 2", "end"}
  /\ canceling.at \in {"none", "wait", "run", "end"}
  /\ runs \in [Orders -> [Policies -> 0..RunsCap]]

\* A policy runs at most once for an order, however its phases are retried.
PolicyAtMostOnce == \A o \in Orders, p \in Policies : runs[o][p] <= 1

\* An order succeeds only when both policies really ran for it, and ran well.
ServedByArms ==
  \A o \in Orders : orderState[o] = "SUCCEEDED" =>
    \A p \in Policies : runs[o][p] >= 1 /\ results[o][p] = "ok"

\* The outcome of a command ends the order it was given for and no other: what comes
\* back after a cancellation finds the next mission under way.
OutcomeEndsItsOrder ==
  [][ \A o \in Orders :
        orderState[o] # orderState'[o] /\ orderState'[o] \in {"SUCCEEDED", "FAILED"}
          => worker.order = o \/ latched ]_serverVars

\* No released order is forgotten: the robot rests only when none waits, also when the
\* worker looks at the controller at its leisure.
NoneForgotten == Controller!RestMeansEmptyQueue

\* When STOP is latched and the stop has done its work, nothing is under way and
\* nothing is released, until the latch is reset.
LatchedQuiet ==
  latched /\ estop = "none" => active = NoOrder /\ \A o \in Orders : orderState[o] # "QUEUED"

\* While the backend says that no policy runs, which lets the vehicle drive, the
\* rollout service has none.
QuietMeansQuiet == running = "none" => state # "running"

\* Once the emergency stop has returned, whatever moves the arms is told to stop.
EStopHoldsArms == latched /\ estop = "none" /\ pc \in Rollout!Moving => event = "set"

\* An emergency stop that found a mission fails that one and no other: the released
\* orders go back behind Start.  It does not hold: the mission may end while the lock is
\* given up, and the next order is the one that fails (ServerOrders.cfg with Stops = TRUE).
StopSparesReleased ==
  [][ EStopEnd /\ stopped # NoOrder =>
        \A o \in Orders : orderState[o] # "FAILED" /\ orderState'[o] = "FAILED" => o = stopped ]_serverVars

------------------------------------------------------------------------------
(* Liveness.  All threads are scheduled, and a policy ends at its duration or *)
(* when it is stopped; nobody need confirm an alignment or press anything.    *)

Ongoing ==
  /\ WF_serverVars(WorkerStep)
  /\ WF_serverVars(ServiceStep) /\ WF_serverVars(Answer)
  /\ WF_serverVars(pc = "closed" /\ ServiceRestart)
  /\ WF_serverVars((event = "set" \/ job.task \in Timed) /\ PolicyStep)
  /\ WF_serverVars(CancelBackend) /\ WF_serverVars(CancelEnd)
  /\ WF_serverVars(EStopHalt) /\ WF_serverVars(EStopArms) /\ WF_serverVars(EStopEnd)

\* The hour of the alignment timeout is never waited for.
PromptSpec == Spec /\ Ongoing

\* The alignment timeout comes at last.
FairSpec == PromptSpec /\ WF_serverVars(AlignTimeout)

\* The worker always comes back from a command, whatever becomes of the service.
WorkerReturns == worker.at # "idle" ~> worker.at = "idle"

\* The end of an order, canceled or stopped, releases the wait for its alignment.  It does
\* not hold: a wait that begins just then clears the cancellation (ServerReturns.cfg with
\* PromptSpec).
EndedOrderReleasesGate ==
  waiting /\ orderState[worker.order] \in Controller!TerminalOrderStates ~> ~waiting

=============================================================================
