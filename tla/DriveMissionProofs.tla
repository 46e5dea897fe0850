--------------------------- MODULE DriveMissionProofs ---------------------------
(***************************************************************************)
(* What holds of a mission for every sequence of legs: the arms and the    *)
(* vehicle never move together, the legs follow one another, and a stop    *)
(* that finds a worker finds its departure.                                *)
(***************************************************************************)
EXTENDS DriveMission, TLAPS

\* The place of a leg in the mission.
Place(g) == CHOOSE i \in 1..Len(Legs) : Legs[i] = g

\* Every leg has one place, and the leg after it the next one.
LEMMA Places ==
  /\ Len(Legs) \in Nat \ {0} /\ Last \in Goes /\ Place(Last) = Len(Legs)
  /\ \A g \in Goes : Place(g) \in Nat /\ 1 <= Place(g) /\ Place(g) <= Len(Legs) /\ Legs[Place(g)] = g
  /\ \A i \in 1..Len(Legs) : Legs[i] \in Goes /\ Place(Legs[i]) = i
  /\ \A g \in Goes : g # Last =>
       LegAfter(g) \in Goes /\ Place(LegAfter(g)) = Place(g) + 1
<1>1. /\ Len(Legs) \in Nat \ {0}
      /\ \A i \in 1..Len(Legs) : Legs[i] \in Goes
  BY MissionAssumption
<1>2. \A g \in Goes : Place(g) \in 1..Len(Legs) /\ Legs[Place(g)] = g
  BY MissionAssumption DEF Place
<1>3. \A i \in 1..Len(Legs) : Place(Legs[i]) = i
  BY <1>1, <1>2, MissionAssumption
<1>4. Last \in Goes /\ Place(Last) = Len(Legs)
  BY <1>1, <1>3 DEF Last
<1>5. ASSUME NEW g \in Goes, g # Last
      PROVE  LegAfter(g) \in Goes /\ Place(LegAfter(g)) = Place(g) + 1
  <2>1. Place(g) \in 1..Len(Legs) /\ Place(g) # Len(Legs)
    BY <1>2, <1>5 DEF Last
  <2>2. Place(g) + 1 \in 1..Len(Legs)
    BY <2>1, <1>1
  <2>3. LegAfter(g) = Legs[Place(g) + 1]
    <3>1. LegAfter(g) = Legs[1 + Place(g)]
      BY DEF LegAfter, Place
    <3> QED
      BY <3>1, <2>1
  <2> QED
    BY <2>2, <2>3, <1>1, <1>3
<1> QED
  BY <1>1, <1>2, <1>3, <1>4, <1>5

------------------------------------------------------------------------------
(* The inductive invariant, in the parts the steps disturb *)

\* The legs before the worker's are done, the legs after it have not been started.
LegsBehind ==
  \A g \in Goes : /\ Place(g) < Place(leg) => at[g] = "done"
                  /\ Place(g) > Place(leg) => at[g] = "new"

\* What the worker is doing fits to the departure of its leg.
WorkerFits ==
  /\ worker \in { "none", "wait", "phase", "launch" } => at[leg] = "new"
  /\ worker \in { "align", "confirm" } => at[leg] = "done" /\ leg # Last

\* Only a departure that is on, or has failed, may move the vehicle.
MovesFit == \A g \in moves : at[g] \in { "on", "failed" }

\* The arms work while the worker waits for the next leg, or is gone, beside a vehicle
\* whose departures have all succeeded; none after the arms' leg has been started.
ArmsFit ==
  /\ worker \notin { "wait", "end" } => arms = None
  /\ arms # None =>
       /\ arms # Last
       /\ \A g \in Goes : at[g] \in { "new", "done" } /\ (at[g] # "new" => Place(g) <= Place(arms))

\* The phase tells stop() of the departure, until the mission is stopped.
PhaseFits ==
  /\ halted <=> phase = "stopping"
  /\ worker \in { "launch", "drive", "abort" } /\ ~halted => phase = "drive"
  /\ halted => helper # "none" \/ NothingUnderWay

MissionInv ==
  MissionTypeOK /\ LegsBehind /\ WorkerFits /\ MovesFit /\ ArmsFit /\ PhaseFits

------------------------------------------------------------------------------
\* It holds before the mission is started.
LEMMA MissionInvInit == MissionInit => MissionInv
<1> SUFFICES ASSUME MissionInit PROVE MissionInv
  OBVIOUS
<1>1. Legs[1] \in Goes /\ Place(Legs[1]) = 1 /\ None \notin Goes
  BY Places, MissionAssumption
<1>2. MissionTypeOK
  BY <1>1 DEF MissionInit, DriveInit, MissionTypeOK, DriveTypeOK
<1>3. LegsBehind
  <2>1. \A g \in Goes : at[g] = "new" /\ ~(Place(g) < 1)
    <3> TAKE g \in Goes
    <3>1. Place(g) \in Nat /\ 1 <= Place(g)
      BY Places
    <3> QED
      BY <3>1 DEF MissionInit, DriveInit
  <2> QED
    BY <2>1, <1>1 DEF MissionInit, LegsBehind
<1>4. WorkerFits /\ MovesFit /\ ArmsFit /\ PhaseFits
  BY <1>1 DEF MissionInit, DriveInit, WorkerFits, MovesFit, ArmsFit, PhaseFits
<1> QED
  BY <1>2, <1>3, <1>4 DEF MissionInv

\* Before a leg is launched and after it has succeeded nothing of the mission is under way.
LEMMA NothingYet ==
  ASSUME MissionInv, worker \in { "wait", "phase", "launch", "align", "confirm" }
  PROVE  NothingUnderWay
<1>1. leg \in Goes /\ at[leg] \in { "new", "done" }
  BY DEF MissionInv, MissionTypeOK, WorkerFits
<1>2. ASSUME NEW g \in Goes PROVE at[g] \in { "new", "done" }
  <2>1. Place(g) < Place(leg) \/ Place(g) > Place(leg) \/ g = leg
    BY <1>1, Places
  <2> QED
    BY <2>1, <1>1 DEF MissionInv, LegsBehind
<1> QED
  BY <1>2 DEF MissionInv, MissionTypeOK, DriveTypeOK, MovesFit, NothingUnderWay

\* A departure that goes on, halts, succeeds or fails is the worker's, and no arms work.
LEMMA DeparturesKeep == ASSUME MissionInv, Departures PROVE MissionInv'
<1> PICK g \in Goes : Proceed(g)
  BY DEF Departures
<1> USE DEF MissionInv, Departures, workerVars, serverVars
<1>1. CASE Halt(g)
  BY <1>1 DEF Halt, MissionTypeOK, DriveTypeOK, LegsBehind, WorkerFits, MovesFit, ArmsFit, PhaseFits, NothingUnderWay
<1>2. CASE Move(g)
  BY <1>2 DEF Move, MissionTypeOK, DriveTypeOK, LegsBehind, WorkerFits, MovesFit, ArmsFit, PhaseFits, NothingUnderWay
<1>3. CASE Done(g) \/ Fail(g)
  <2>1. at[g] = "on" /\ (\E v \in {"done", "failed"} : at' = [at EXCEPT ![g] = v] /\ (v = "done" => g \notin moves))
        /\ moves' = moves
    BY <1>3 DEF Done, Fail
  <2>2. g = leg
    <3>1. ~(Place(g) < Place(leg)) /\ ~(Place(g) > Place(leg))
      BY <2>1 DEF LegsBehind
    <3>2. Place(g) = Place(leg)
      BY <3>1, Places DEF MissionTypeOK
    <3> QED
      BY <3>2, Places DEF MissionTypeOK
  <2>3. MissionTypeOK' /\ LegsBehind' /\ MovesFit' /\ PhaseFits'
    BY <2>1, <2>2, Places DEF MissionTypeOK, DriveTypeOK, LegsBehind, MovesFit, PhaseFits, NothingUnderWay
  <2>4. WorkerFits' /\ ArmsFit'
    BY <2>1, <2>2 DEF MissionTypeOK, DriveTypeOK, WorkerFits, ArmsFit
  <2> QED
    BY <2>3, <2>4
<1> QED
  BY <1>1, <1>2, <1>3 DEF Proceed

\* The worker launches its leg's departure: no arms work, and no stop has come.
LEMMA LaunchKeeps == ASSUME MissionInv, Launch PROVE MissionInv'
<1> USE DEF MissionInv, Launch, Start, WorkerTo
<1>1. leg \in Goes /\ at[leg] = "new" /\ at' = [at EXCEPT ![leg] = "on"] /\ moves' = moves
  BY DEF MissionTypeOK
<1>2. \A g \in Goes : at'[g] = IF g = leg THEN "on" ELSE at[g]
  BY <1>1 DEF MissionTypeOK, DriveTypeOK
<1>3. MissionTypeOK'
  BY <1>1 DEF MissionTypeOK, DriveTypeOK, serverVars
<1>4. LegsBehind'
  BY <1>1, <1>2, Places DEF LegsBehind
<1>5. MovesFit'
  BY <1>1, <1>2 DEF MovesFit, MissionTypeOK, DriveTypeOK
<1>6. WorkerFits' /\ ArmsFit' /\ PhaseFits'
  BY <1>1, <1>2 DEF WorkerFits, ArmsFit, PhaseFits, serverVars
<1> QED
  BY <1>3, <1>4, <1>5, <1>6

\* The alignment releases the arms of the leg that has just succeeded.
LEMMA ConfirmKeeps ==
  ASSUME MissionInv, NEW heard \in BOOLEAN, ConfirmAlignment(heard) PROVE MissionInv'
<1> USE DEF MissionInv, ConfirmAlignment, WorkerTo, drive
<1>1. /\ worker = "confirm" /\ leg \in Goes /\ leg # Last /\ at[leg] = "done" /\ leg # None
      /\ LegAfter(leg) \in Goes /\ Place(LegAfter(leg)) = Place(leg) + 1
  BY Places, MissionAssumption DEF WorkerFits, MissionTypeOK
<1>2. \A g \in Goes : at[g] \in { "new", "done" } /\ (at[g] # "new" => Place(g) <= Place(leg))
  <2> TAKE g \in Goes
  <2>1. CASE Place(g) < Place(leg)
    BY <2>1, Places DEF LegsBehind, MissionTypeOK
  <2>2. CASE Place(g) > Place(leg)
    BY <2>2, Places DEF LegsBehind, MissionTypeOK
  <2>3. CASE Place(g) = Place(leg)
    BY <2>3, <1>1, Places
  <2> QED
    BY <2>1, <2>2, <2>3, <1>1, Places
<1>3. MissionTypeOK'
  BY <1>1 DEF MissionTypeOK, DriveTypeOK
<1>4. LegsBehind' /\ WorkerFits'
  <2>1. CASE leg' = leg /\ worker' = "end"
    BY <2>1 DEF LegsBehind, WorkerFits
  <2>2. CASE leg' = LegAfter(leg) /\ worker' = "wait"
    <3>1. at[leg'] = "new"
      BY <2>2, <1>1, Places DEF LegsBehind
    <3>2. LegsBehind'
      BY <2>2, <1>1, <1>2, Places DEF LegsBehind
    <3> QED
      BY <2>2, <3>1, <3>2 DEF WorkerFits
  <2> QED
    BY <2>1, <2>2
<1>5. MovesFit' /\ ArmsFit' /\ PhaseFits'
  BY <1>1, <1>2 DEF MovesFit, ArmsFit, PhaseFits
<1> QED
  BY <1>3, <1>4, <1>5

\* Every step keeps it.
LEMMA MissionInvStep == ASSUME MissionInv, [MissionNext]_missionVars PROVE MissionInv'
<1> USE DEF MissionInv
<1>1. CASE OrderEnds \/ CancelOrder
  BY <1>1 DEF OrderEnds, CancelOrder, EndOrder, drive, workerVars, MissionTypeOK, DriveTypeOK,
    LegsBehind, WorkerFits, MovesFit, ArmsFit, PhaseFits, NothingUnderWay
<1>2. CASE ArmsDone
  <2>1. arms \in Goes /\ LegAfter(arms) \in Goes
    BY <1>2, Places DEF ArmsDone, MissionTypeOK, ArmsFit
  <2> QED
    BY <1>2, <2>1 DEF ArmsDone, drive, workerVars, MissionTypeOK, DriveTypeOK,
      LegsBehind, WorkerFits, MovesFit, ArmsFit, PhaseFits, NothingUnderWay
<1>3. CASE StartMission \/ WorkerGivesUp \/ DriveReleased \/ SetPhase
  BY <1>3 DEF StartMission, WorkerGivesUp, DriveReleased, SetPhase, DriveReady, WorkerTo, drive,
    serverVars, MissionTypeOK, DriveTypeOK, LegsBehind, WorkerFits, MovesFit, ArmsFit, PhaseFits, NothingUnderWay
<1>4. CASE Aborted \/ LegEnds \/ AlignReady \/ Withdrawn
  BY <1>4 DEF Aborted, LegEnds, AlignReady, Withdrawn, DriveReady, WorkerTo, drive,
    serverVars, MissionTypeOK, DriveTypeOK, LegsBehind, WorkerFits, MovesFit, ArmsFit, PhaseFits, NothingUnderWay
<1>5. CASE StopMission
  <2>1. MissionTypeOK' /\ LegsBehind' /\ WorkerFits' /\ MovesFit' /\ ArmsFit'
    BY <1>5 DEF StopMission, drive, serverVars, MissionTypeOK, DriveTypeOK, LegsBehind,
      WorkerFits, MovesFit, ArmsFit
  <2>2. halted' = TRUE /\ phase' = "stopping" /\ worker' = worker
    BY <1>5 DEF StopMission
  <2>3. helper' # "none" \/ NothingUnderWay
    <3>1. CASE worker \in { "wait", "phase", "launch", "align", "confirm" }
      BY <3>1, NothingYet
    <3>2. CASE worker \in { "drive", "abort" }
      BY <1>5, <3>2 DEF StopMission, PhaseFits
    <3> QED
      BY <1>5, <3>1, <3>2 DEF StopMission, MissionTypeOK
  <2>4. NothingUnderWay => NothingUnderWay'
    BY <1>5 DEF StopMission, NothingUnderWay, drive
  <2>5. PhaseFits'
    BY <2>2, <2>3, <2>4 DEF PhaseFits
  <2> QED
    BY <2>1, <2>5
<1>6. CASE HelperEnds \/ ServiceDies
  BY <1>6 DEF HelperEnds, ServiceDies, WorkerTo, drive,
    serverVars, MissionTypeOK, DriveTypeOK, LegsBehind, WorkerFits, MovesFit, ArmsFit, PhaseFits, NothingUnderWay
<1>7. CASE UNCHANGED missionVars
  BY <1>7 DEF missionVars, workerVars, serverVars, drive, MissionTypeOK, DriveTypeOK,
    LegsBehind, WorkerFits, MovesFit, ArmsFit, PhaseFits, NothingUnderWay
<1> QED
  BY <1>1, <1>2, <1>3, <1>4, <1>5, <1>6, <1>7, LaunchKeeps, ConfirmKeeps, DeparturesKeep
  DEF MissionNext, WorkerStep

\* So it holds in every reachable state.
LEMMA MissionInvariant == MissionSpec => []MissionInv
BY MissionInvInit, MissionInvStep, PTL DEF MissionSpec

------------------------------------------------------------------------------
\* _run_mission() and stop(): every field keeps its type, and the worker's leg is one of
\* the mission.
THEOREM MissionTypeCorrect == MissionSpec => []MissionTypeOK
<1>1. MissionInv => MissionTypeOK
  BY DEF MissionInv
<1> QED
  BY <1>1, MissionInvariant, PTL

\* For any number of legs, whatever fails, is stopped or restarted: while the arms work,
\* no departure of the mission can move the vehicle (_confirm_alignment(), _wait_drive()).
THEOREM ArmsBesideParked == MissionSpec => []ArmsMoveWhenParked
<1>1. MissionInv => ArmsMoveWhenParked
  BY DEF MissionInv, MissionTypeOK, DriveTypeOK, MovesFit, ArmsFit, ArmsMoveWhenParked
<1> QED
  BY <1>1, MissionInvariant, PTL

\* A stop() that finds a worker runs the stop helper, or nothing of the mission is under way
\* then nor later, wherever it falls between _set_phase(), the launch and the end of the leg.
THEOREM StopFindsDeparture == MissionSpec => []StopReachesDeparture
<1>1. MissionInv => StopReachesDeparture
  BY DEF MissionInv, PhaseFits, StopReachesDeparture
<1> QED
  BY <1>1, MissionInvariant, PTL

\* The legs are launched in their order, each after the success of the one before it and
\* after the arms have finished there.
THEOREM LegsOrdered == MissionSpec => []LegsInOrder
<1>1. ASSUME MissionInv PROVE LegsInOrder
  <2> SUFFICES ASSUME NEW i \in 1..Len(Legs), at[Legs[i]] # "new", NEW j \in 1..i - 1
               PROVE  at[Legs[j]] = "done" /\ arms # Legs[j]
    BY DEF LegsInOrder
  <2>1. /\ i \in Nat /\ j \in 1..Len(Legs) /\ j < i /\ leg \in Goes
        /\ Legs[i] \in Goes /\ Place(Legs[i]) = i
        /\ Legs[j] \in Goes /\ Place(Legs[j]) = j
    BY <1>1, Places DEF MissionInv, MissionTypeOK
  <2>2. ~(i > Place(leg)) /\ Place(leg) \in Nat
    BY <2>1, <1>1, Places DEF MissionInv, LegsBehind
  <2>3. at[Legs[j]] = "done"
    BY <2>1, <2>2, <1>1 DEF MissionInv, LegsBehind
  <2>4. arms # Legs[j]
    <3> SUFFICES ASSUME arms = Legs[j] PROVE FALSE
      OBVIOUS
    <3>1. arms # None
      BY <2>1, MissionAssumption
    <3>2. Place(Legs[i]) <= Place(arms)
      BY <2>1, <3>1, <1>1 DEF MissionInv, ArmsFit
    <3> QED
      BY <2>1, <3>2
  <2> QED
    BY <2>3, <2>4
<1> QED
  BY <1>1, MissionInvariant, PTL

------------------------------------------------------------------------------
(* What comes to pass *)

\* The departure the worker follows has been started.
WorkerDrives == worker = "drive" => at[leg] # "new"

LEMMA WorkerDrivesStep ==
  ASSUME MissionInv, WorkerDrives, [MissionNext]_missionVars PROVE WorkerDrives'
<1> USE DEF WorkerDrives
<1>1. CASE Launch
  <2>1. leg \in Goes /\ leg' = leg /\ at' = [at EXCEPT ![leg] = "on"] /\ at \in [Goes -> {"new", "on", "done", "failed"}]
    BY <1>1 DEF Launch, Start, MissionInv, MissionTypeOK, DriveTypeOK
  <2> QED
    BY <2>1
<1>2. CASE Departures
  <2>1. leg' = leg /\ worker' = worker /\ leg \in Goes
        /\ at \in [Goes -> {"new", "on", "done", "failed"}]
    BY <1>2 DEF Departures, workerVars, MissionInv, MissionTypeOK, DriveTypeOK
  <2>2. at' = at \/ \E g \in Goes, v \in {"done", "failed"} : at' = [at EXCEPT ![g] = v]
    BY <1>2 DEF Departures, Proceed, Move, Halt, Done, Fail
  <2> QED
    BY <2>1, <2>2
<1>3. CASE WorkerStep /\ ~Launch
  BY <1>3 DEF WorkerStep, WorkerGivesUp, DriveReleased, SetPhase, Aborted, LegEnds, AlignReady,
    ConfirmAlignment, WorkerTo
<1>4. CASE ~WorkerStep /\ ~Departures
  <2>1. /\ UNCHANGED drive
        /\ worker' = "drive" => worker = "drive" /\ leg' = leg
    BY <1>4 DEF MissionNext, OrderEnds, ArmsDone, CancelOrder, StartMission, Withdrawn, StopMission,
      HelperEnds, ServiceDies, WorkerTo, missionVars, workerVars
  <2> QED
    BY <2>1 DEF drive
<1> QED
  BY <1>1, <1>2, <1>3, <1>4

LEMMA WorkerDrivesInvariant == MissionSpec => [](MissionInv /\ WorkerDrives)
<1>1. MissionInit => WorkerDrives
  BY DEF MissionInit, WorkerDrives
<1> QED
  BY <1>1, WorkerDrivesStep, MissionInvariant, PTL DEF MissionSpec

\* From where to where the worker goes with one leg, as long as it does not end.
Onward ==
  { <<"wait", "phase">>, <<"phase", "launch">>, <<"launch", "drive">>, <<"drive", "abort">>,
    <<"drive", "align">>, <<"align", "confirm">> }

\* Whatever is done beside it, a worker that is at work stays where it is, goes on, or ends.
LEMMA WorkerCourse ==
  ASSUME MissionInv, [MissionNext]_missionVars, worker \notin {"none", "end"}
  PROVE  \/ worker' = "end"
         \/ worker' = worker /\ leg' = leg /\ ~WorkerStep
         \/ <<worker, worker'>> \in Onward /\ leg' = leg
         \/ worker = "confirm" /\ worker' = "wait" /\ Place(leg') = Place(leg) + 1
<1>1. CASE WorkerStep
  <2>1. ASSUME NEW heard \in BOOLEAN, ConfirmAlignment(heard)
        PROVE  worker' = "end" \/ (worker = "confirm" /\ worker' = "wait" /\ Place(leg') = Place(leg) + 1)
    <3>1. leg \in Goes /\ leg # Last
      BY <2>1 DEF ConfirmAlignment, MissionInv, MissionTypeOK, WorkerFits
    <3> QED
      BY <2>1, <3>1, Places DEF ConfirmAlignment, WorkerTo
  <2> QED
    BY <1>1, <2>1 DEF WorkerStep, WorkerGivesUp, DriveReleased, SetPhase, Launch, Aborted, LegEnds,
      AlignReady, WorkerTo, Onward
<1>2. CASE ~WorkerStep
  BY <1>2 DEF MissionNext, OrderEnds, ArmsDone, CancelOrder, StartMission, Withdrawn, StopMission,
    HelperEnds, ServiceDies, Departures, WorkerTo, missionVars, workerVars, Onward
<1> QED
  BY <1>1, <1>2

\* MissionFairness, with the guards of its steps in the place of ENABLED, of which the prover
\* knows nothing: the worker can step unless it waits for a departure that has not ended, and
\* a departure can change as long as one is on its way.
WorkerCan ==
  worker \notin {"none", "end", "drive"} \/ (worker = "drive" /\ Ended(leg))

WorkerProceeds == []<>~WorkerCan \/ []<><<WorkerStep>>_missionVars

DeparturesProceed ==
  []<>(\A g \in Goes : at[g] # "on") \/ []<><<Departures /\ at' # at>>_missionVars

\* The worker is at work on leg k; it leaves it for the next one, or because the mission ends.
OnLeg(k) == Place(leg) = k /\ worker \notin {"none", "end"}
LegPasses(k) == OnLeg(k) ~> worker = "end" \/ OnLeg(k + 1)

LEMMA OneLegPasses ==
  ASSUME NEW k \in Nat
  PROVE  MissionSpec /\ WorkerProceeds /\ DeparturesProceed => LegPasses(k)
<1> DEFINE K == OnLeg(k)
           B == worker = "end" \/ OnLeg(k + 1)
           At(w) == Place(leg) = k /\ worker = w
           O == Place(leg) = k /\ worker = "drive" /\ at[leg] = "on"
           L == Place(leg) = k /\ worker = "drive" /\ at[leg] # "on"
           NC == ~WorkerCan
           SC == WorkerStep
           ND == \A g \in Goes : at[g] # "on"
           SD == Departures /\ at' # at
           I == MissionInv /\ WorkerDrives
<1>1. I /\ K => \/ At("wait") \/ At("phase") \/ At("launch") \/ O \/ L \/ At("abort") \/ At("align")
                \/ At("confirm")
  BY DEF MissionInv, MissionTypeOK, OnLeg
<1>2. I /\ [MissionNext]_missionVars =>
        /\ At("wait") => At("wait")' \/ At("phase")' \/ B'
        /\ At("phase") => At("phase")' \/ At("launch")' \/ B'
        /\ At("launch") => At("launch")' \/ O' \/ L' \/ B'
        /\ O => O' \/ L' \/ At("abort")' \/ At("align")' \/ B'
        /\ L => L' \/ At("abort")' \/ At("align")' \/ B'
        /\ At("abort") => At("abort")' \/ B'
        /\ At("align") => At("align")' \/ At("confirm")' \/ B'
        /\ At("confirm") => At("confirm")' \/ B'
  <2>1. I /\ [MissionNext]_missionVars /\ L => L' \/ leg' # leg \/ worker' # "drive"
    <3> SUFFICES ASSUME I, [MissionNext]_missionVars, L, leg' = leg, worker' = "drive" PROVE at'[leg] # "on"
      OBVIOUS
    <3>1. CASE Departures
      <4>1. at' = at \/ \E g \in Goes, v \in {"done", "failed"} : at' = [at EXCEPT ![g] = v]
        BY <3>1 DEF Departures, Proceed, Move, Halt, Done, Fail
      <4> QED
        BY <4>1 DEF MissionInv, MissionTypeOK, DriveTypeOK
    <3>2. CASE ~Departures
      <4>1. at' = at
        BY <3>2 DEF MissionNext, WorkerStep, WorkerGivesUp, DriveReleased, SetPhase, Launch, Aborted,
          LegEnds, AlignReady, ConfirmAlignment, OrderEnds, ArmsDone, CancelOrder, StartMission,
          Withdrawn, StopMission, HelperEnds, ServiceDies, missionVars, drive
      <4> QED
        BY <4>1
    <3> QED
      BY <3>1, <3>2
  <2> QED
    BY <2>1, WorkerCourse DEF Onward, OnLeg
<1>3. I /\ <<SC>>_missionVars =>
        /\ At("wait") => At("phase")' \/ B'
        /\ At("phase") => At("launch")' \/ B'
        /\ At("launch") => O' \/ L' \/ B'
        /\ L => At("abort")' \/ At("align")' \/ B'
        /\ At("abort") => B'
        /\ At("align") => At("confirm")' \/ B'
        /\ At("confirm") => B'
  BY WorkerCourse DEF MissionNext, Onward, OnLeg
<1>4. I /\ <<SD>>_missionVars /\ O => ~O'
  <2> SUFFICES ASSUME I, Departures, at' # at, O PROVE at'[leg] # "on"
    BY DEF Departures, workerVars
  <2>1. PICK g \in Goes, v \in {"done", "failed"} : at[g] = "on" /\ at' = [at EXCEPT ![g] = v]
    BY DEF Departures, Proceed, Move, Halt, Done, Fail
  <2>2. ~(Place(g) < Place(leg)) /\ ~(Place(g) > Place(leg))
    BY <2>1 DEF MissionInv, LegsBehind
  <2>3. leg \in Goes /\ at \in [Goes -> {"new", "on", "done", "failed"}]
    BY DEF MissionInv, MissionTypeOK, DriveTypeOK
  <2>4. g = leg
    BY <2>2, <2>3, Places
  <2> QED
    BY <2>1, <2>3, <2>4
<1>5. /\ At("wait") \/ At("phase") \/ At("launch") \/ At("abort") \/ At("align") \/ At("confirm") => ~NC
      /\ I /\ L => ~NC
      /\ I /\ O => ~ND
  BY DEF WorkerCan, WorkerDrives, Ended, MissionInv, MissionTypeOK, DriveTypeOK
<1> HIDE DEF K, B, At, O, L, NC, SC, ND, SD, I
<1>6. MissionSpec /\ ([]<>NC \/ []<><<SC>>_missionVars) /\ ([]<>ND \/ []<><<SD>>_missionVars)
        => (K ~> B)
  BY <1>1, <1>2, <1>3, <1>4, <1>5, WorkerDrivesInvariant, PTL DEF MissionSpec, I
<1> QED
  BY <1>6 DEF K, B, NC, SC, ND, SD, WorkerProceeds, DeparturesProceed, LegPasses

\* A mission comes to its end whatever becomes of the permission, of the stop helper and of a
\* departure that goes on driving.  It has the three legs of _run_mission() at the most.
THEOREM MissionComesToEnd ==
  ASSUME Len(Legs) <= 3
  PROVE  MissionSpec /\ WorkerProceeds /\ DeparturesProceed => MissionEnds
<1> DEFINE A == worker # "none"
           E == worker = "end"
           I == MissionInv
<1>1. I /\ A => E \/ OnLeg(1) \/ OnLeg(2) \/ OnLeg(3)
  BY Places DEF MissionInv, MissionTypeOK, OnLeg
<1>2. I => ~OnLeg(3 + 1)
  BY Places DEF MissionInv, MissionTypeOK, OnLeg
<1>3. (OnLeg(1 + 1) => OnLeg(2)) /\ (OnLeg(2 + 1) => OnLeg(3))
  BY DEF OnLeg
<1>4. MissionSpec /\ WorkerProceeds /\ DeparturesProceed => LegPasses(1) /\ LegPasses(2) /\ LegPasses(3)
  BY OneLegPasses
<1> HIDE DEF A, E, I
<1>5. MissionSpec /\ WorkerProceeds /\ DeparturesProceed => (A ~> E)
  BY <1>1, <1>2, <1>3, <1>4, MissionInvariant, PTL DEF LegPasses, E, I
<1> QED
  BY <1>5 DEF A, E, MissionEnds

=============================================================================
