----------------------------- MODULE DriveMission -----------------------------
(***************************************************************************)
(* The mission service of the drive PC, tools/jdamr/water_service.py with  *)
(* the follow loop of water_service_api.py: the drives of one order, to    *)
(* the kitchen, to the table and back to the dock.  Its worker thread      *)
(* waits for the order server's permission, launches jdamr_depart.py go    *)
(* for each leg and watches the permission while it runs; the follow loop  *)
(* or an HTTP call stops the mission.  Of the departures it uses what      *)
(* Drive promises, which Departure implements.                             *)
(*                                                                         *)
(* The order server is reduced to what the drive PC reads of it: which leg *)
(* may be driven, at which station the arms work, how the order stands.    *)
(***************************************************************************)
EXTENDS Drive, Sequences, Integers

CONSTANTS
  Legs,      \* the legs of a mission, in order; each names its departure
  None       \* no leg

Last == Legs[Len(Legs)]
LegAfter(l) == Legs[1 + CHOOSE i \in 1..Len(Legs) : Legs[i] = l]

ASSUME MissionAssumption ==
  /\ Legs \in Seq(Goes) /\ Legs # << >>
  /\ \A g \in Goes : \E i \in 1..Len(Legs) : Legs[i] = g
  /\ \A i, j \in 1..Len(Legs) : Legs[i] = Legs[j] => i = j
  /\ None \notin Goes

VARIABLES
  worker,   \* where _run_mission() is
  leg,      \* the leg it is at
  halted,   \* self._stop_event
  phase,    \* "drive": a phase in which stop() runs the stop helper
  helper,   \* the stop helper of stop(): "none", "runs", "over"
  permit,   \* the leg the order server lets the vehicle drive, with the arms ready
  order,    \* the bound order: "running", "succeeded", "ended"
  arms      \* the leg at whose station the arms work now

workerVars == <<worker, leg, halted, phase, helper>>
serverVars == <<permit, order, arms>>
missionVars == <<drive, workerVars, serverVars>>

MissionTypeOK ==
  /\ DriveTypeOK
  /\ worker \in { "none", "wait", "phase", "launch", "drive", "abort", "align", "confirm", "end" }
  /\ leg \in Goes /\ halted \in BOOLEAN
  /\ phase \in { "drive", "other", "stopping" }
  /\ helper \in { "none", "runs", "over" }
  /\ permit \in Goes \cup {None} /\ arms \in Goes \cup {None}
  /\ order \in { "running", "succeeded", "ended" }

MissionInit ==
  /\ DriveInit
  /\ worker = "none" /\ leg = Legs[1] /\ halted = FALSE /\ phase = "other" /\ helper = "none"
  /\ permit = Legs[1] /\ order = "running" /\ arms = None

------------------------------------------------------------------------------
(* The order server, as the drive PC sees it *)

EndOrder == order' = "ended" /\ permit' = None /\ arms' = None

\* A failure, a cancellation or STOP: no permission, and the arms stand still.
OrderEnds ==
  /\ order # "ended"
  /\ EndOrder
  /\ UNCHANGED <<drive, workerVars>>

\* The policies of a station have run and the arms are ready for the next leg.
ArmsDone ==
  /\ arms # None
  /\ arms' = None
  /\ permit' = LegAfter(arms)
  /\ order' = IF LegAfter(arms) = Last THEN "succeeded" ELSE order
  /\ UNCHANGED <<drive, workerVars>>

------------------------------------------------------------------------------
(* The worker: a step reads the order server, or looks at the stop event *)

WorkerTo(point) == worker' = point
DriveReady == permit = leg /\ order # "ended" /\ arms = None
Ended(g) == at[g] \in { "done", "failed" }

\* follow_web(): the kitchen permission of an order no request names yet.
StartMission ==
  /\ worker = "none"
  /\ DriveReady
  /\ WorkerTo("wait")
  /\ UNCHANGED <<drive, leg, halted, phase, helper, serverVars>>

\* _check_stopped() raises; so do a refused read and the end of the wait.
WorkerGivesUp ==
  /\ \/ worker \in { "phase", "launch" } /\ halted
     \/ worker \in { "wait", "align", "confirm" }
  /\ WorkerTo("end")
  /\ UNCHANGED <<drive, leg, halted, phase, helper, serverVars>>

\* Mutant: the permission of the leg is not waited for.
DriveReleasedAnyway ==
  /\ worker = "wait"
  /\ ~halted
  /\ WorkerTo("phase")
  /\ UNCHANGED <<drive, leg, halted, phase, helper, serverVars>>

\* _wait_drive()
DriveReleased ==
  /\ worker = "wait"
  /\ ~halted /\ DriveReady
  /\ WorkerTo("phase")
  /\ UNCHANGED <<drive, leg, halted, phase, helper, serverVars>>

\* Mutant: stop() does not know the phase of the last leg.
SetPhaseUnlisted ==
  /\ worker = "phase"
  /\ ~halted
  /\ phase' = IF leg = Last THEN "other" ELSE "drive"
  /\ WorkerTo("launch")
  /\ UNCHANGED <<drive, leg, halted, helper, serverVars>>

\* _set_phase(), with the check under the same lock.
SetPhase ==
  /\ worker = "phase"
  /\ ~halted
  /\ phase' = "drive"
  /\ WorkerTo("launch")
  /\ UNCHANGED <<drive, leg, halted, helper, serverVars>>

\* _run_helper(): the check and Popen under one lock.
Launch ==
  /\ worker = "launch"
  /\ ~halted
  /\ Start(leg)
  /\ WorkerTo("drive")
  /\ UNCHANGED <<leg, halted, phase, helper, serverVars>>

\* The permission is gone, or the order server does not answer: the stop helper runs.
Withdrawn ==
  /\ worker = "drive" /\ ~halted
  /\ ~Ended(leg)
  /\ WorkerTo("abort")
  /\ UNCHANGED <<drive, leg, halted, phase, helper, serverVars>>

\* Mutant: the worker waits until the departure has ended, too.
AbortedTogether ==
  /\ worker = "abort"
  /\ Ended(leg) /\ leg \notin moves
  /\ WorkerTo("end")
  /\ UNCHANGED <<drive, leg, halted, phase, helper, serverVars>>

\* It has ended, or is killed after 30 s; the departure itself is left alone.
Aborted ==
  /\ worker = "abort"
  /\ WorkerTo("end")
  /\ UNCHANGED <<drive, leg, halted, phase, helper, serverVars>>

\* Mutant: the exit status of the departure is not looked at.
LegEndsAnyhow ==
  /\ worker = "drive"
  /\ Ended(leg)
  /\ IF ~halted /\ leg # Last
     THEN phase' = "other" /\ WorkerTo("align")
     ELSE WorkerTo("end") /\ UNCHANGED phase
  /\ UNCHANGED <<drive, leg, halted, helper, serverVars>>

\* The departure has ended: on success the alignment follows, after a look at the stop.
LegEnds ==
  /\ worker = "drive"
  /\ Ended(leg)
  /\ IF at[leg] = "done" /\ ~halted /\ leg # Last
     THEN phase' = "other" /\ WorkerTo("align")
     ELSE WorkerTo("end") /\ UNCHANGED phase
  /\ UNCHANGED <<drive, leg, halted, helper, serverVars>>

\* _confirm_alignment(): the order is read once more, then the arms are released.
AlignReady ==
  /\ worker = "align"
  /\ ~halted /\ DriveReady
  /\ WorkerTo("confirm")
  /\ UNCHANGED <<drive, leg, halted, phase, helper, serverVars>>

\* The order server may meanwhile have ended the order, or its answer may be lost.
ConfirmAlignment(heard) ==
  LET accepted == permit = leg
  IN /\ worker = "confirm" /\ ~halted
     /\ arms' = IF accepted THEN leg ELSE arms
     /\ permit' = IF accepted THEN None ELSE permit
     /\ IF heard /\ accepted THEN WorkerTo("wait") /\ leg' = LegAfter(leg)
        ELSE WorkerTo("end") /\ UNCHANGED leg
     /\ UNCHANGED <<drive, halted, phase, helper, order>>

------------------------------------------------------------------------------
(* stop(), from the follow loop or an HTTP thread; restart of the service *)

\* The stop helper runs only if the phase was one of driving; a second call finds
\* "stopping" and sends nothing.
StopMission ==
  /\ worker \notin { "none", "end" }
  /\ halted' = TRUE
  /\ phase' = "stopping"
  /\ helper' = IF phase = "drive" THEN "runs" ELSE helper
  /\ UNCHANGED <<drive, worker, leg, serverVars>>

\* It exits, fails, or is killed after 30 s.
HelperEnds ==
  /\ helper = "runs"
  /\ helper' = "over"
  /\ UNCHANGED <<drive, worker, leg, halted, phase, serverVars>>

\* Then stop() cancels the order, between two requests of the worker.
CancelOrder ==
  /\ halted /\ helper # "runs" /\ order = "running"
  /\ EndOrder
  /\ UNCHANGED <<drive, workerVars>>

\* The service dies; after its restart the mission is "interrupted" and the follow loop
\* does not drive its order again (a new POST start may bind it; not modelled).  A running
\* departure goes on.
ServiceDies ==
  /\ worker \notin { "none", "end" }
  /\ WorkerTo("end")
  /\ UNCHANGED <<drive, leg, halted, phase, helper, serverVars>>

------------------------------------------------------------------------------
Departures == (\E g \in Goes : Proceed(g)) /\ UNCHANGED <<workerVars, serverVars>>

WorkerStep ==
  \/ WorkerGivesUp \/ DriveReleased \/ SetPhase \/ Launch \/ Aborted \/ LegEnds \/ AlignReady
  \/ \E heard \in BOOLEAN : ConfirmAlignment(heard)

MissionNext ==
  \/ OrderEnds \/ ArmsDone \/ CancelOrder
  \/ StartMission \/ WorkerStep \/ Withdrawn \/ StopMission \/ HelperEnds \/ ServiceDies
  \/ Departures

MissionSpec == MissionInit /\ [][MissionNext]_missionVars

\* The worker thread runs, its waits and the policies end, and so does every departure
\* (Departure!GoEnds).
MissionFairness ==
  /\ WF_missionVars(WorkerStep)
  /\ WF_missionVars(ArmsDone)
  /\ WF_missionVars(Departures /\ at' # at)

MissionFairSpec == MissionSpec /\ MissionFairness

------------------------------------------------------------------------------
(* Properties *)

\* The arms work only while no departure of the mission can move the vehicle: the
\* alignment is confirmed after a leg that succeeded, the next leg is driven after the
\* arms (the drive PC being the only one to confirm; the page's button may, too).
ArmsMoveWhenParked == arms # None => moves = {}

\* A stop() that has found a worker, at whichever of its steps, leaves no departure without
\* a stop helper: it is run, or nothing is under way then nor later, also when the worker has
\* gone on, given up or died since.  (Without a worker stop() does nothing, see below.)
NothingUnderWay == moves = {} /\ \A g \in Goes : at[g] \in { "new", "done" }
StopReachesDeparture == halted => helper # "none" \/ NothingUnderWay

\* Does not hold: whatever moves the vehicle is followed by a worker, so that a stop() reaches
\* it.  After a failed departure, an aborted leg or a restart the vehicle may drive while
\* stop() finds no worker and returns at once.
MovingIsFollowed == moves # {} => worker \in { "drive", "abort" }

\* A leg is launched only after the one before it has reported success, and after the
\* arms have done their work there, so that they never meet a vehicle that leaves.
LegsInOrder ==
  \A i \in 1..Len(Legs) : at[Legs[i]] # "new" =>
    /\ \A j \in 1..i - 1 : at[Legs[j]] = "done"
    /\ arms \notin { Legs[j] : j \in 1..i - 1 }

\* A mission comes to its end, stopped or not, whatever becomes of the stop helper and
\* of a departure that keeps driving.
MissionEnds == worker # "none" ~> worker = "end"

=============================================================================
