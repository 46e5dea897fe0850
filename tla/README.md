# A formal model of the bimanual service robot

The repository holds the software of a mobile robot with two arms that takes
drink orders at a web page, drives to a kitchen, pours, drives to a table and
serves.  These modules model the part that decides *what happens next* and what
may move while it does: the order queue and mission state machine, the order
server with its worker and emergency stop, the resident service that runs the
arm policies, the mission service of the drive PC, the departures it makes over
ssh, the motions of one attempt, and the base driver with its firmware.  TLC
checks them on small instances; TLAPS proves their safety properties, and from the
fairness of their actions their liveness, for every value of their constants.

All paths below are relative to `src/`.

## 1. The system

```
 web pages, operator
        | HTTP
        v
 +----------------------- order server ------------------------+
 | apps/service_order/service_order_server.py                   |
 |   ServiceApplication: lock, execution_lock, worker thread,   |
 |   emergency latch                                            |
 |   MissionController  (src/mission/service_mission_control.py)|
 |   ServiceOrderStore  (src/mission/service_order_store.py)    |
 |   RolloutServiceBackend (src/mission/service_execution_...)  |
 +--------------------------------------------------------------+
        | HTTP: /run/<task>, /stop, /status      ^ HTTP: state, alignment
        v                                        | confirmed, cancel
 rollout service                          mission service of the drive PC
 (tools/rollout/rollout_service.py)       (tools/jdamr/water_service.py)
        |                                        | processes: go, stop
 arms, cameras, policies                         v
                                          jdamr_depart.py, state.json
                                                 | ssh: spool files, signals
 ................................................|............ vehicle .......
                                                 v
                                          resident executor
                                          (box_service.py --serve)
                                                 | one attempt at a time
                                                 v
                                          restaurant_service.py
                                                 | goals, velocities; monitor
                                                 v switched off and on
                                          Nav2, Collision Monitor
                                                 | cmd_vel
                                                 v
                                          base_driver_node.cpp
                                                 | serial frames
                                                 v
                                          jdamr_cube_fw.ino -- wheel servos
```

| Component | State | Operations | Interacts through |
|---|---|---|---|
| Mission controller | orders with state and sequence number, active order, phase, attempt, location, battery charge | `submit`, `accept`, `reject`, `start_next`, `cancel`, `emergency_stop`, `current_command`, `advance`, `snapshot`/`from_snapshot` | calls from the order server, under its lock |
| Order server | `emergency`, `lock`, `execution_lock`, command history | the HTTP handlers, `execute_next` called by the worker `auto_step` | controller, store, backend |
| Rollout service backend | `_running`, `_waiting`, `_halted`, `_cancel`, `_aligned`, `_results`, `_stowed_missions` | `execute`, `confirm_alignment`, `cancel_active`, `emergency_stop`, `release_emergency_stop`, `info` | one blocking HTTP request per task; events shared between threads |
| Rollout service | `state`, `current`, `current_event`, `stop_requested`, `arms`, a job queue | HTTP threads: `submit`, `stop`, `shutdown`; main thread: `loop`, `_run`, `_finish_pose` | queue, lock, and a stop event per motion |
| Drive-PC mission service | mission state file, phase, `_stop_event`, helper process | `start`, `stop`, `follow_web`, `_run_mission`, `_wait_drive`, `_run_helper`, `_confirm_alignment` | polls the order server, launches the departure helper |
| Drive helper scripts (`jdamr_depart.py`) | `state.json`; on the vehicle the spool files of each run and their heartbeat | `go` with `run_cycle`, `go_one`, `restart_executor`; `stop` | ssh commands under a file lock, signals of systemd |
| Resident executor (`box_service.py --serve`) | the claimed run, `stop_requested`, the node of the attempt | `serve`, `stop_attempt`, the result file | spool, signals |
| Parking and table-visit nodes (`restaurant_service.py`, `box_service.py`) | `pending_goal`, `active_handle`, stop and emergency flags, whether the Collision Monitor is to be switched on again; route and pose evidence | `_navigate`, `_direct_motion`, `finish_navigation`, `_pause_collision_monitor`, `_resume_collision_monitor`, `engage_emergency_stop` | Nav2 actions, services of the monitor, velocities |
| Base driver and firmware | emergency-stop latch, last command and its time; on the microcontroller watchdog, fault latch, configured servos | `cmd_vel`, e-stop services, 50 Hz timer; `setup`, `loop`, `handle_cmd`, `ensure_servo_config` | ROS 2 topics, serial frames, the servo bus |
| Rollout handoff, pour hook, camera fallback | done detector, hook phase, frame ages | wrapped around the policy loop | the stop event |
| Order store | SQLite tables of the snapshot, events and commands | `persist`, `load_snapshot` | called under the server's lock |
| Planned executor sessions | Unix-socket sessions with request ids | start, cancel, result | the simulation executor |
| Navigation, manipulation, simulation, web pages, tools | numeric or presentation code | - | - |

`PROJECT.json` lists each of them with its status.

### What is hard, and the properties that make each part correct

* **Mission controller.**  A sequence of legal calls must never leave phase,
  active order and the order's state in disagreement (`OneActiveMission`), nor a
  snapshot that cannot be restored (`AlwaysRestorable`).  The battery is
  examined once, when a mission starts from wherever the last one ended; this
  must suffice to the end and for the way home (`ChargeCoversMission`,
  `ReserveKept`).  Released orders must not be forgotten (`RestMeansEmptyQueue`,
  `ReleasedOrderMovesOn`), missions must end (`MissionEnds`), and the robot must
  not charge or drive home for ever (`ComesToRest`).
* **Rollout service.**  The stop event is replaced between the policy and the
  end pose, and the detector of a policy's end sets the same event as a stop.
  An acknowledged stop must reach whatever moves and watches an event
  (`StopReachesMotion`); the motions to the end poses `initial` and `pour_start`
  watch none, so it does not reach whatever moves (`StopReachesEveryMotion` does
  not hold).  Nothing else may cut a fold short (`OnlyStopCutsPoses`, once a defect of this code),
  the vehicle must be told the truth about the arms (`ArmsTruthful`), and one job
  at a time may have them (`OneJobAtATime`).  Whoever waits must be answered
  (`JobAnswered`) and a policy without a duration must end when stopped
  (`StopEndsPolicy`).
* **Order server and backend.**  A retried phase reports a cached outcome
  (`PolicyAtMostOnce`); a command's outcome may come back when the controller
  has moved on (`ServedByArms`, `OutcomeEndsItsOrder`); the emergency stop gives
  up the lock while it stops the arms (`LatchedQuiet`, `EStopHoldsArms`); the
  worker looks at the controller at its leisure (`NoneForgotten`); the rollout
  service may die during a call (`WorkerReturns`); and the vehicle may drive
  while the backend says that no policy runs (`QuietMeansQuiet`).
* **Mission service.**  The worker, the follow loop and HTTP threads share a stop
  event and a phase.  Whichever step of the worker a stop falls between, it must
  have the stop helper run, or find nothing under way (`StopReachesDeparture`).
  That holds for a stop that finds a worker: after a failed departure, an aborted
  leg or a restart the vehicle may still drive, and `stop()` then returns at once
  (`MovingIsFollowed` does not hold).  The arms may only work
  beside a vehicle that stands (`ArmsMoveWhenParked`), also when the stop helper
  fails or the service dies; legs follow one another (`LegsInOrder`) and the
  mission ends (`MissionEnds`).
* **Departure.**  A remote command may be lost, late, or work though its reply is
  lost, and the executor forgets a stop as it claims a request.  A confirmed stop
  must hold whatever of the run was in flight (`StopHolds`, `StopHalts`), a run
  reported as not submitted must never start (`UnsentNeverStarts`), a run nobody
  follows must come to a halt (`UnattendedHalts`), `go` must not wait for ever
  (`GoEnds`), and the whole must be what the mission service relies on
  (`DrivePromise`).  That a stop ends the `go` that is under way, as a comment
  says, does not hold (`StopEndsGo`).
* **Attempt.**  The acceptance of a goal, or the answer of the Collision Monitor,
  may come after it has been given up.  No goal may be sent beside one that might
  still drive (`OneGoalAtATime`, with one exception: the dock departure may be
  repeated beside its own goal once the emergency stop has been requested), nothing but an escape may move with the monitor
  off (`GuardedMotion`), the end must be safe (`LeftSafe`), and a stop must end
  every motion (`StopEndsMotion`).
* **Base drive.**  Two watchdogs, a lossy line, a driver that forgets its latch
  and servos that remember their targets.  The wheels must stand when commands
  cease, after the emergency stop, after a reset, and with a servo missing
  (`WheelsStand`); the release of the latch must not set them going on an old
  command (`ReleaseStaysInBand`; commands within the stop band are excepted, see
  `MotionNeedsNewCommand` in section 3); and a fault must clear (`ServoRecovers`).

## 2. The modules

| Module | What it is |
|---|---|
| `OrderLifecycle` | abstract specification: each order follows its life cycle, one at a time, terminal states are final |
| `MissionController` | the controller, one action per method (`advance` is split by the phase it finds); implements `OrderLifecycle` |
| `RolloutService` | the rollout service: HTTP threads, queue, main thread, process end and restart |
| `OrderServer` | the server and backend, composed with `MissionController` and `RolloutService` by `INSTANCE` |
| `Drive` | abstract specification: what a departure promises to whoever launches it |
| `DriveMission` | the mission service; extends `Drive` and uses its departures |
| `Departure` | `go`, `stop`, ssh, the spool and the resident executor; implements `Drive` |
| `AttemptMotion` | goals, direct motions and escapes of one attempt |
| `BaseDrive` | the base driver, the serial line, the firmware and the servos |
| `*Proofs` | the theorems about a module: `MissionControllerProofs`, `RolloutServiceProofs`, `OrderServerProofs`, `DriveMissionProofs`, `DepartureProofs`, `AttemptMotionProofs`, `BaseDriveProofs` |
| `OrderServerReturns` | continues `OrderServerProofs` with what comes to pass in the server |
| `MC*` | the small instance of a module |

### MissionController

The variables are the controller's fields; `orderState` and `sequenceOf` are two
fields of each order in `orders`, with `"NONE"` and 0 for ids not submitted yet.
The actions are named after the methods.  `StartOrder`, `DispatchOrCharge`,
`HoldAt`, `DecideAfterTerminalOrder` and `EndMission` are the private methods
they share, as operators on the primed state.  Charge is an integer in one unit,
and the constants `Route` and `PhaseEnergy` are the charge a route and a phase
use.  `plan_route` is a shortest-path search, so `RouteAssumption` takes `Route`
for a metric; the proofs use no more than that.  `ChargedAssumption` says that
the robot is put into service with its reserve: the code accepts any
`--battery-percent`, and below the reserve `ReserveKept` is false from the start.

### RolloutService

One action is one critical section of `Service.lock`, or one stage of a run
between two of them: `Begin` (a new event), `StartPose`, `PolicyEnds`, `Judge`
(which reason is reported), `FinishPose` (the event replaced), `EndMotion`,
`Report`, `Notify`.  `pc` is where the main thread is, `caller` what each HTTP
thread does.  `stowPose` is where the arms *really* are, which the program cannot
know; `arms` is what it reports.  `stopAnswer` records the last answer of
`stop()`.  `Interrupt` is Ctrl+C at any point of the main thread, `Restart` the
end of the process at any moment followed by a fresh start.  The policy loop is
lerobot's and external: it ends on its event, its duration, or for reasons of
its own.

### OrderServer

The worker runs `execute_next()` as a sequence of points (`worker.at`), one per
critical section, event or request: `Fetch`, `Enter`, then by the phase the
alignment gate (`AlignBegin`, `AlignPoll`, `AlignTimeout`, `AlignEnd`) or a task
(`AskStow`, `Mark`, `Check`, `Post`, `Answer`, `Leave`), and `Report`.  The HTTP
threads are `Desk`, `ConfirmAlignment`, `CancelOrder`, the three steps
`CancelRead`, `CancelBackend`, `CancelEnd` of a cancellation that holds the lock,
the four steps `EStopLatch`, `EStopHalt`, `EStopArms` (twice), `EStopEnd` of an
emergency stop that does not, and `Reset`.  `ServiceStep`, `PolicyStep`,
`ServiceInterrupt` and `ServiceRestart` are the rollout service's own.  `Crash` ends the order server
and restores its controller; the latch and the backend's memory are lost.
`runs` is a history variable.  The controller's battery is switched off here
(routes and energies are 0), since `MissionController` is checked with it.

### Drive and DriveMission

`Drive` says what survives of a departure seen from the mission service: it
starts, a goal of it may move the vehicle or halt, and it ends as `done`, which
means standing still for good, or as `failed`, which promises nothing.

`DriveMission` has the worker's steps between two reads of the order server or
two looks at the stop event: `DriveReleased` is `_wait_drive()`, `SetPhase` and
`Launch` are the two critical sections of `_set_phase()` and `_run_helper()`,
`LegEnds`, `Withdrawn` and `Aborted` the watch over the helper, `AlignReady` and
`ConfirmAlignment` the two requests of `_confirm_alignment()`.  `StopMission`,
`HelperEnds` and `CancelOrder` are the three parts of `stop()`; `ServiceDies` is
a crash, after which the mission stays interrupted.  `phase` keeps only what
`stop()` asks of it.  The order server is reduced to `permit` (the leg it lets
the vehicle drive), `order` and `arms`, which change as `OrderServer` lets them.

### Departure

A process is a sequence of points; what one remote command does under the run's
file lock is one action.  `GoLoad`/`GoSave` and `StopLoad`/`StopSave` are the
unlocked read and write of `state.json`, each with the copy it holds.
`GoSubmit` gives the publishing command to ssh; `PublishLost`, `PublishPart` and
`Publish` are what becomes of it, at any later time.  `GoPoll` is the polling
command with and without a reply that is heard.  `StopFirst`, `StopCancel` and
`StopAgain` are the three parts of the remote command of a stop, which goes on
though `StopTimesOut` has given it up.  The executor sees a request without the
lock (`ExecSees`), claims or passes it over under the lock, creates the node
(`ExecNode`), and reports.  A signal is pending until the main thread handles it
between two of its steps (`HandleSignal`).  The attempt is reduced to whether it
drives.  Before every goal it looks at the stop and at the heartbeat `fresh`
(`Look`), and then sends it (`SendGoal`): either may have changed in between.

### AttemptMotion

`at` is where the thread of the attempt is; its operations may come in any
order.  `SendGoal`, `Accepted`, `Refused`, `WaitEnds`, `FollowEnds` are a
navigation; `LateAnswer`, `NoAnswer`, `Settled`, `AskToCancel`, `CancelById`,
`CancelConfirmed`, `CancelUnconfirmed` are `finish_navigation()`; `Blocked` is
the decision of `_escape_blocked()` to pause the monitor, which looks at the stop
before and not after it; `Pause`, `Paused`, `NotPaused`, `Resumed`, `ResumeAgain`, `ResumeFails` the two switches
around an escape.  `RetryDeparture` repeats the dock departure.  The action
servers, the monitor, and what is on its way to and from them (`server`,
`answer`, `switches`) are external and answer late, never, or with a refusal.

### BaseDrive

Time passes in ticks of the driver's timer.  `Tick` fires the timer, or not if
its thread is late, and the frame arrives, or not; `Output` is `send_command()`.
`ReadFrame` is `feed_rx()` with `handle_cmd()`, `Loop` the rest of the
firmware's loop: watchdog, state packet, and once a second the configuration.
`Setup` is the firmware's `setup()`, `Reboot` a reset of the microcontroller
alone, and `DriverRestarts` the end of the ROS driver, whose latch is then lost.
A command is `go`, `zero`, or `creep`: within the stop band of `commands_motion()`
(1e-3), which decides whether the latch may be released, and yet counts other
than 0 for `send_command()` and the firmware, which know no such band.  An
exchange on the servo bus may fail: a configuration (`failing` of `Setup` and
`Loop`), or the velocity of a command (`ReadFrame(FALSE)`).  `target` is what the servos hold, `deaf` the servos out of reach.

## 3. What the runs show

| Run | Instance | Shows |
|---|---|---|
| `controller_auto` | 3 orders, 2 tables, auto dispatch | one mission, charge, restorable snapshots, empty queue at rest, life cycle; missions end, released orders move on, the robot comes to rest |
| `controller_operator` | same, behind accept and Start, missions end at the dock | the reserve is kept wherever the robot stands |
| `rollout` | 2 HTTP threads; a pour with a duration, hook and start pose, a place policy without; one shutdown pill | stop reaches what watches its event, only a stop cuts poses, truthful arms, one job at a time; a stop ends the policy, waiting threads are answered |
| `server_stop` | 1 order behind Start, retries, STOP, the rollout service interrupted or restarted | type, policies at most once, quiet after STOP, no released order forgotten, "quiet" means quiet |
| `server_orders` | 2 orders, auto dispatch | orders succeed on policies run for them, an outcome ends no other order than its own |
| `server_returns` | 1 order, crashes and restarts | the worker always comes back |
| `departure` | 1 `go` with its second run, 1 `stop`, executor may die | stops hold and halt, unsent runs never start, unattended ones halt, `go` ends, `Drive` is implemented |
| `drive_mission` | the three legs kitchen, table, dock | arms only beside a parked vehicle, a stop that finds a worker leaves no departure without a stop helper, legs in order, missions end |
| `attempt_motion` | 3 goals, the monitor asked twice to come back | no goal beside an unresolved one (but that of a latched dock departure), guarded motion, a safe end, a stop ends all motion |
| `base_drive` | 2 wheels, line of 1 frame, time-outs of 1 tick | the wheels stand when they must, a release starts no motion outside the stop band, faults clear |
| `server_straggler` | 1 order, STOP | *violated*: arms move after the emergency stop returned |
| `drive_stop` | 1 `go`, 1 `stop`, no crash | *violated*: a stop that exits with 0 leaves the `go` that is under way |

**Findings.**  Both are quoted in `PROJECT.json`.  `server_straggler`: the request
of a policy whose halted check came before the emergency stop is accepted, or
waits in the queue, after both of its `/stop` calls; a comment says that the
second one catches it.  `drive_stop`: a stop that comes between the start of
`go` and its `save_state()` finds no run, or the run before, in `state.json`,
and exits with 0; `run_cycle()` does not look at `stop_unix` before it publishes,
though a comment says that an operator's stop ends the `go`.

**Further properties that do not hold**, each stated in its module and shown by a
change of one line of a configuration:

* `StopHeardWhileRunning` of `RolloutService`, added to `Rollout.cfg`: `/stop`
  between the acceptance and the start of a job finds no event and is lost.
* `PolicyAtMostOnce` in `ServerStop.cfg` with `Crashes = TRUE`: a restarted order
  server forgets `_results` and pours again.
* `EndedOrderReleasesGate` in `ServerReturns.cfg` with `SPECIFICATION PromptSpec`:
  `_wait_alignment` clears a cancellation that came just before it.
* `StopReachesEveryMotion` of `RolloutService`, added to `Rollout.cfg`: the mover
  to the end pose `initial` or `pour_start` is built without a stop event, and
  goes on to its end after an acknowledged `/stop`.  The docstring of
  `_finish_pose()` says that the motion reacts to `/stop`.
* `MotionNeedsNewCommand` of `BaseDrive`, added to `BaseDrive.cfg`: a command
  within the stop band, fresh at the release, does not make the reset refused,
  and goes out as counts other than 0.  The answer of the reset says that motion
  starts only on a new command.
* `MovingIsFollowed` of `DriveMission`, added to `DriveMission.cfg`: the departure
  drives on after the worker has ended, and `stop()` then does nothing.
* `NeverBesideUnresolved` of `AttemptMotion`, added to `AttemptMotion.cfg`: the dock
  departure is repeated beside its unresolved goal, with the emergency stop
  requested; the docstring of `_execute_service_once()` says never.
* `StopSparesReleased` in `ServerOrders.cfg` with `Stops = TRUE`: the mission ends
  while the emergency stop has given up the lock, and the next order fails.

**Observations without a run**, made while modelling:

* With `--auto-dispatch`, `LatchedQuiet` does not hold: `submit()` does not look
  at the latch, so an order that arrives while STOP is latched becomes RUNNING
  (the worker does not execute it).
* A new order the robot can afford is started on the way home even when a
  released order of higher priority waits for charge.
* A rollout service that is shutting down reports the state `closing`, which
  `_stow()` takes for a service without a driving pose, so the vehicle may leave
  with the arms not folded.
* After a crash of the order server `QuietMeansQuiet` does not hold.
* `go` and `stop` both rewrite the whole of `state.json`: one update may be lost,
  and with it the note that a second run is not wanted.
* The `running` file of an executor that died is never removed, and every later
  departure is refused because of it.  Of two departures that overlap, one may
  poll for ever: when the executor dies in its attempt, and the other, past its
  look at the spool, starts it again, the poll finds a running file and an active
  executor (`GoEnds` with two `go` processes; `refuse_during_cycle()` and the
  mission service see to one at a time).
* If the stop helper fails when the permission is withdrawn, the mission ends
  and its departure drives on; a mission started right after it would meet it.
* The base driver's latch does not survive a restart of the driver.  A servo
  misses the watchdog's only broadcast if it drops out for just that moment,
  unnoticed by a read; the model keeps it out of reach until a read has failed.
  A ROS clock that steps back keeps an old command fresh.

### Bounds, and why they are enough

* `MissionController`: a cheap order, an expensive one and an expensive one of
  higher priority with an earlier time, so that an order can be affordable while
  the one in front of it is not.  The layout is a line with one table near and
  one far; `ChargeTarget`, `InitialCharge` and `Reserve` are chosen so that the
  far orders sometimes need charging.  Each order id is submitted once, as in the
  code, which generates them.
* `MaxAttempts = 2`: a phase is retried once and then fails.
* `RolloutService`: two HTTP threads, one that waits and one that stops, submits
  or shuts down.  `MaxPills = 1` bounds the shutdown pills in the queue.  The two
  tasks differ in everything a task is configured by: duration, hook, start pose
  and end pose.
* `OrderServer`: one emergency stop and one cancellation in progress at a time;
  `RunsCap = 2` saturates the history of policy runs.  One order suffices for
  everything about a single mission and two for an outcome that arrives in the
  wrong one; the proofs cover any number.
* `Departure`: one `go` and one `stop`.  A `go` brings two runs, a restart of the
  executor and any number of its deaths, so a stop meets the run before and the
  run after.  Two of each are beyond the time of a run; the safety properties
  are proved for any number.
* `DriveMission`: the three legs of the code, one mission.
* `AttemptMotion`: `Last = 3`, the first goal (which alone is repeated) and two
  after it; `Attempts = 2`, where the code asks three times: the proofs are for
  any number of either.
* `BaseDrive`: `Timeout = 1` and `Capacity = 1` already let the two watchdogs
  overlap in every order and every frame be the one that is lost.  `Past` and
  `Bound` are where clocks stop to be counted.
* `CHECK_DEADLOCK FALSE` everywhere: with every order finished, every process
  ended or the vehicle at rest there is nothing to do.

### Fairness

* `MissionController`: weak fairness of the successful `advance` in each phase.
  The worker's loop calls `execute_next` again and again; a phase that fails for
  ever is covered by the retry bound.  Nothing is assumed of operators.
* `RolloutService`: the main thread and the threads that own a job are
  scheduled; a policy must end only when its event is set or it has a duration.
* `OrderServer`: the threads are scheduled and a policy ends as above.  The
  alignment timeout (an hour) is fair only in `FairSpec`; `PromptSpec` does not
  wait for it.  Operators, restarts and crashes have no fairness.
* `Departure`: to stop the vehicle, only that the executor handles a signal, that
  a goal ends, and that the heartbeat of a `go` that has ended grows old
  (`Fairness`).  `GoEnds` alone needs more (`Progress`, its hypothesis): `go`
  hears some of its replies, a unit told to leave is killed after 30 s, and an
  attempt, which sends finitely many goals, returns (strong fairness, as a goal
  may keep it from returning again and again).
* `DriveMission`: the worker runs, and policies and departures end; the latter is
  `GoEnds`.  The stop helper need not end.
* `AttemptMotion`: the attempt's thread runs, for each of its waits has a time
  limit; a goal that Nav2 was asked to cancel ends.
* `BaseDrive`: the firmware's loop runs and time passes.  Strong fairness of the
  two forms of `Loop` says that the once-a-second configuration falls into the
  loop and does not fail every time, and that the position read after it is not
  refused as a jump every time.  `ServoRecovers` itself supposes that velocities
  fail to be written only finitely often: each failure latches the fault anew.

## 4. What is proved

All theorems hold for every value of the constants that the named assumptions of
their module allow.  Every property of a passing run is stated by a theorem: the
safety properties and refinements without further hypotheses but those named
below, the liveness properties under fairness, as follows.

**Fairness in the theorems.**  The prover knows nothing of `ENABLED`, so a theorem
about liveness does not start from `WF_vars(A)` but from `[]<>~guard \/
[]<><<A>>_vars`, and in the place of `SF_vars(A)` from `<>[]~guard \/
[]<><<A>>_vars`.  Each guard is the whole enabling condition of its action in the
reachable states; these formulas are named after what proceeds (`MainProceeds`,
`WorkerProceeds`, `GoProceeds`) and defined next to the theorem.  That each guard
agrees with `ENABLED` was checked by TLC on the instances of section 3; where a
guard says less (`TimeProceeds` of `BaseDrive`), the formula follows from the
weak fairness as stated.  With that, the hypotheses are what `Fairness` of the
module (for `DeparturesEnd` also `Progress`) says, and no more, with these exceptions:

| Theorem | Further hypothesis | Why |
|---|---|---|
| `AttemptMotionProofs!StopEnds` | `Attempts <= 3` | three requests are what `_resume_collision_monitor()` makes; a chain of leads-to has a fixed length |
| `MissionComesToEnd` | `Len(Legs) <= 3` | the legs of `_run_mission()`; the same reason |
| `ReleasedOrdersMoveOn`, `ComesToRestAtLast` | `Affordable`, and the orders cease to be started, or to be submitted and released | the controller does not look whether a *full* battery serves an order: one that asks more keeps the robot at the charger (TLC shows it with `ChargeTarget = 9`). Orders are finitely many and each is started once, but "finitely often" is induction over their number |
| `WorkerComesBack` | `Timed = Policies`, and cancellations cease | a policy without a duration may run for ever; each cancellation takes the lock that the worker needs to report, and again the orders are finitely many |
| `ServosRecover` | `LineIsRead` | the loop reads all that has come: follows from weak fairness of `ReadFrame`, since the line gets shorter by each frame (`ReadingShortens`), by induction over its length |
| `DeparturesEnd` | `OneDeparture` | needed: see the observation in section 3 |

**`MissionControllerProofs`** (any orders, tables, metric layout and energies).
`TypeCorrect`, by lemmas on each shared helper; `MissionExclusion` (inductive
relative to `TypeOK`); `ChargeCovered` and `ReserveAlwaysKept`, from `ChargeInv`:
neither conjunct is inductive alone, since what is left after a canceled mission
follows from the energy for the rest of it, which in turn needs the triangle
inequality of the routes; `RestAfterWork`; `Restorable`, from `SequenceInv`
(numbers are distinct, none exceeds the counter, unknown orders have none);
`ImplementsLifecycle`, the refinement of `OrderLifecycle`.  `MissionsEnd`: each
phase of a mission is left for the next one or ends it (`Passes`), and nothing
takes a mission back to a phase it has left, however often the phase is retried.  `ReleasedOrdersMoveOn` and
`ComesToRestAtLast`: what the dispatcher can do when it starts nothing
(`DispatchWaits`) leads from the drive home to the charger and from there to
rest.

**`RolloutServiceProofs`** (any HTTP threads and task configuration).
`RolloutTypeCorrect`, in four parts; `StopReaches` and `PosesKept`, from
`StopHeard`: an acknowledged stop has set the event while anything moves, whether
or not the motion watches it, so where it does, it sees the stop;
`ArmsReported`, from `ArmsInv`, which adds that the arms are marked busy through
the whole run and not only while they move; `OneJob`, from `OneInv` (a job is
put, waits in the queue or is run, and the state says `running` exactly then) and
`WaitersFit`.  `StopEnds`, from `StopReaches`: whoever has set `stop_requested`
has set the event too.  `AnswersCome`: the job that a thread waits for is with
the main thread from the put to the answer, and each stage of the run leads to
the next.

**`OrderServerProofs`** (any orders and retries).  `ImplementsController` and
`ImplementsRollout`: every step of the server is a step of `MissionController`,
and of `RolloutService`, or a stutter.  With that the theorems about either
component are cited within the server, through the instances `Missions` and
`Runner` of their proof modules: `MissionsInServer` and `ArmsInServer`
(`ServerConfigAssumption` says of the server's constants what the components
assume of theirs).  `ServerTypeCorrect`; `NothingForgotten`; and under a condition
that the property needs:

| Theorem | Needs | Argument |
|---|---|---|
| `PolicyOnce` | no crash | `MemoryFits`: a policy that has run is in the cache, or in the worker's hands, and one in its hands is not in the cache |
| `QuietHolds` | no crash | `CallFits`: the service has no job but the one the worker waits for, and then the backend names it |
| `ServedForReal` | no crash | `ServedFits`: past the phase of a policy its outcome is cached and good, which `MemoryFits` ties to a run |
| `StopStaysQuiet` | `RequireOperator` | `MissionFits`, `CancelFits`: behind the latch nothing is released or started |
| `OutcomeOfItsOrder` | no STOP | `CancelFits` and `Unstopped`: only `Report` is left to end an order so, and it looks at the order first |

**`OrderServerReturns`** (any orders and retries).  `WorkerComesBack`: the rollout
service goes on within the server, so the request in the worker's hands is
answered or cut off; the lock is given back; and each point of the worker leads
to one of `Onward`, at last to its loop.

**`DriveMissionProofs`** (any number of legs).  `MissionTypeCorrect`,
`ArmsBesideParked`, `StopFindsDeparture`, `LegsOrdered`, from `MissionInv`: legs
before the current one are done (`LegsBehind`), later ones new; each point of the
worker knows how its leg stands (`WorkerFits`); what moves has been started and
is not done (`MovesFit`); arms work only at a leg that is done (`ArmsFit`); and
while a leg drives, the phase is one that `stop()` knows (`PhaseFits`).
`StopFindsDeparture` speaks of a stop that found a worker: it had the helper run,
or nothing of the mission was under way and the worker launches nothing more.
`MissionComesToEnd`: the worker leaves each leg for the next one or for its end
(`LegPasses`), and waits only for a departure that has not ended.

**`DepartureProofs`** (any number of `go` and `stop` processes).
`DepartTypeCorrect`, `StopHolding`, `UnsentStays` and `ImplementsDrive`, from
`DepartInv`: what the executor holds agrees with the spool (`ExecFits`), only
runs that were published are claimed, drive or have results, and a good result
stands still (`RunsFit`), what a `go` reports is what the spool says (`GoesFit`),
and each point of a stop knows what it has written and signalled (`StopsFit`).
`StopHalting`: a confirmed stop has a signal pending, or the attempt knows of it
and after the goal it may be about to send, sends nothing more.
`UnattendedHalting`: an ended `go` touches no heartbeat, so at most the goal that
has passed the look is sent.
`DeparturesEnd`: `go` moves on from each of its points (`PointPasses`); while it
waits for its run, that run is the only one the executor can have (`OneRun`), its
running file is the executor's (`RunningFits`), and the executor takes it from
point to point until there is a result, or nothing to wait for (`WaitingEnds`).

**`AttemptMotionProofs`** (any number of goals and requests).
`MotionTypeCorrect`, `OneGoalOnly`, `MotionGuarded`, `MotionLeftSafe`, from
`MotionInv`: all goals but the last are resolved, and the last one is known by
`pending` or `handle` (`GoalsFit`); outside an escape the monitor is on with no
switch in flight, and a switch that is awaited is the last one (`MonitorFits`);
both only as long as the emergency stop has not been requested.  `OneGoalOnly`
also says what holds after it, and rests on `LaterFit`: even then all goals but
the first are resolved when another one is sent.  What the points
of the thread and the answers imply by themselves is in `PointsFit` and
`AnswersFit`.  `StopEnds`: after a stop every step of the thread takes it nearer
to its end, thirteen of them at the most (`StepsLeft`).

**`BaseDriveProofs`** (any wheels, time-outs and line).  `BaseTypeCorrect`, and
`ReleaseHolds` from `AskedFirst`: a command outside the stop band that the driver
holds fresh came after the release.  `WheelsAlwaysStand` relates both clocks to the frames in
flight: a fresh motion command is the last one (`CommandFits`); a frame of motion
that waits when the firmware starts is refused for the fault, and a later one is
read in the tick in which it comes (`LineFits`); and a configured wheel turns
only after an accepted command, whose age the watchdog knows (`MovingFits`).
`ServosRecover`: setup ends, the loop comes round, its configuration round pings
every servo, and a round that finds them all takes the fault back.

Left to TLC: that `WF` and `SF` of the specifications give the guarded formulas the
theorems start from (this needs `ENABLED`); and what needs induction, over the
number of orders or the length of the serial line (the table above) or over data
(that `plan_route` yields a metric is an assumption).  Type invariants that appear
in no configuration are the ones that are proved.  No module declares a RECURSIVE
operator.

## 5. What is not modelled

* `OrderServer`: tickets, drive initialisation, heartbeats and the pose feed, the
  manual `/api/step` and the auto pause, the 600 s timeout of the client (no run
  with the default durations lasts that long), `--no-align-confirm`, packets of
  `/stop` that are lost, the status cache behind `info()`, exceptions that end
  the worker thread, and an orderly shutdown.  `cancel()` waits for the answer of
  `/stop` while it holds the lock; the other threads then wait, which `LockFree`
  expresses.
* `RolloutService`: how far a motion gets.  Any motion may arrive or fail whatever
  the event, so the mover to `initial` and `pour_start`, which watches none
  (`Watches`), needs no step of its own; that its motion goes on after a stop is
  what `StopReachesEveryMotion` says and `StopReachesMotion` excepts.
* `DriveMission`: the mode that only navigates, the drive initialisation thread,
  the heartbeat to the order server, recording, and a second mission after the
  first: a `POST` of a start with a new request id may bind the order again, also
  after a restart, while the departure of the first mission still moves.
* `Departure`: `init`, session start and stop, recording, the recovery of a
  failed controller inside a cycle; a lost *reply* of a signal is modelled, a
  reordered one is not, since a process has one command under way.
* `AttemptMotion`: routes, parking geometry, sensor and pose evidence.  They
  decide *where* the goals lie; a failed check is an exception at any motion.
  After a pause that was not confirmed `_escape_blocked()` may pause a second
  time at once, without another look at the stop; the model looks again.
* `BaseDrive`: odometry, IMU, battery and display, the reconnection of the serial
  port, the framing of the protocol, velocities that are not numbers, and a stop
  that cannot be written to the servo bus (`stop_motors()` fails unnoticed).
* Order store: `persist()` is one transaction under the server's lock and is a
  part of the server's actions.  Done detector, pour hook and camera fallback:
  numeric filters; what they decide is a free choice.  Planned executor sessions:
  simulation only.
* Navigation, kinematics, perception, evaluation, training, simulation scenes,
  web pages and calibration tools: numeric code or pure I/O without concurrent
  state.  They are most of the repository's lines, so the modelled share of all
  lines is small; of the code that decides, starts and stops, what is left out is
  listed above.

## 6. The plan

Done, in the order of importance: what moves the arms and decides about orders
(`MissionController`, `RolloutService`, `OrderServer`), then what moves the
vehicle (`DriveMission`, `Departure`, `AttemptMotion`, `BaseDrive`); then the
proofs, of all safety properties and, from the fairness of the actions, of all
liveness properties that the runs check.  Left:

1. `ServiceSystem`: `OrderServer` and `DriveMission` composed through the state
   the vehicle polls, with the 2 s status cache of the backend; property: the
   vehicle never moves while the arms do, now from both sides.
2. Several departures one after the other, with the `running` file of a dead
   executor, and a second mission in `DriveMission`.
3. `OrderStore`: what a crash between memory and `persist` may lose, refined
   into `MissionController`.
4. `PlannedIpc`: sessions of the planned executor, late results and cancels.
5. `DoneDetector` and `PourHook` as operators checked against a reference.

## 7. Running it

Each configuration belongs to one MC module: `Controller*.cfg` to
`MCMissionController`, `Rollout.cfg` to `MCRolloutService`, `Server*.cfg` to
`MCOrderServer`, `Departure*.cfg` to `MCDeparture`, and `DriveMission.cfg`,
`AttemptMotion.cfg`, `BaseDrive.cfg` to the MC module of their name; for example
`tlc -config Departure.cfg MCDeparture`.  `tlapm X.tla` checks the proofs of each
of the seven `*Proofs` modules and of `OrderServerReturns`.  Definitions whose comment begins with "Mutant"
are deliberately wrong variants of the action below them, kept to show that each
property can fail.
