------------------------------- MODULE BaseDrive -------------------------------
(***************************************************************************)
(* From the last velocity command to the wheels: the ROS base driver       *)
(* (jdamr_base_driver/src/base_driver_node.cpp) with its emergency stop    *)
(* latch, the serial line, and the firmware that drives the wheel servos   *)
(* (firmware/jdamr_cube_fw/jdamr_cube_fw.ino).  Either side stops the      *)
(* wheels when its input has been silent for 400 ms, here Timeout ticks.   *)
(*                                                                         *)
(* A tick is a period of the driver's timer and of the firmware's state    *)
(* packet.  Frames may be lost, the driver may be late or die, the         *)
(* microcontroller may reset while the servos keep their targets, and a    *)
(* servo may be out of reach.  A command is to drive, to stand, or so slow *)
(* that the latch takes it for none while the wheels creep; a wheel turns  *)
(* or stands.                                                              *)
(***************************************************************************)
EXTENDS Naturals, Sequences

CONSTANTS
  Wheels,    \* the driven wheels
  Timeout,   \* cmd_timeout and CMD_TIMEOUT_MS, in ticks
  Capacity   \* frames the line holds

ASSUME BaseAssumption == Timeout \in Nat \ {0} /\ Capacity \in Nat \ {0} /\ Wheels # {}

\* Clocks are counted just past the last value that matters.
Past == Timeout + 1
Bound == 2 * Timeout + 2

VARIABLES
  cmd,      \* the driver's last Twist, "none" before the first, and the ticks since
  estop,    \* EmergencyStopLatch
  notified, \* stale_notified_
  line,     \* frames on their way to the firmware
  fw,       \* the firmware: where it is, ticks since last_cmd_ms, watchdog_stopped,
            \* servo_fault_latched, servo_ok
  target,   \* wheels whose servo holds a velocity other than 0
  deaf,     \* wheels whose servo is out of reach: commands are lost, reads fail
  asked,    \* history: the last command came after the last release of the latch
  obeyed,   \* history: the firmware has accepted a motion command since it started
  silence,  \* history: ticks since the last motion command
  latched   \* history: ticks the latch has been engaged without a break

hostVars == <<cmd, estop, notified>>
history == <<asked, obeyed, silence, latched>>
vars == <<hostVars, line, fw, target, deaf, history>>

\* "creep" lies within kStillLinearMps and kStillAngularRadps, and gives counts other than 0.
Motions == { "creep", "go" }
Kinds == Motions \cup { "zero" }
Frames == Kinds \cup { "stop" }

FreshFirmware == [at |-> "stop", age |-> 0, dog |-> TRUE, fault |-> TRUE, ok |-> {}]

TypeOK ==
  /\ cmd \in [kind : Kinds \cup { "none" }, age : 0..Past]
  /\ estop \in BOOLEAN /\ notified \in BOOLEAN
  /\ line \in Seq(Frames) /\ Len(line) <= Capacity
  /\ fw \in [at : { "stop", "sensors", "config", "read", "wait" }, age : 0..Past,
             dog : BOOLEAN, fault : BOOLEAN, ok : SUBSET Wheels]
  /\ target \in SUBSET Wheels /\ deaf \in SUBSET Wheels
  /\ asked \in BOOLEAN /\ obeyed \in BOOLEAN
  /\ silence \in 0..Bound /\ latched \in 0..Bound

Init ==
  /\ cmd = [kind |-> "none", age |-> Past] /\ estop = FALSE /\ notified = FALSE
  /\ line = << >>
  /\ fw = FreshFirmware
  /\ target = {} /\ deaf \in SUBSET Wheels
  /\ asked = FALSE /\ obeyed = FALSE /\ silence = Bound /\ latched = 0

Older(n, limit) == IF n < limit THEN n + 1 ELSE n

------------------------------------------------------------------------------
(* The driver *)

Fresh == cmd.kind # "none" /\ cmd.age <= Timeout

Twist(kind) ==
  /\ cmd' = [kind |-> kind, age |-> 0]
  /\ asked' = TRUE
  /\ silence' = IF kind \in Motions THEN 0 ELSE silence
  /\ UNCHANGED <<estop, notified, line, fw, target, deaf, obeyed, latched>>

Engage ==
  /\ ~estop
  /\ estop' = TRUE
  /\ UNCHANGED <<cmd, notified, line, fw, target, deaf, history>>

\* Mutant: the release is granted while a command to drive is still fresh.
CommandsMotionNever == FALSE

\* emergency_stop_reset: refused while a command outside the stop band is still arriving.
CommandsMotion == Fresh /\ cmd.kind = "go"

Reset ==
  /\ estop /\ ~CommandsMotion
  /\ estop' = FALSE
  /\ asked' = FALSE /\ latched' = 0
  /\ UNCHANGED <<cmd, notified, line, fw, target, deaf, obeyed, silence>>

\* Mutant: the latch holds commands back only when they are stale.
OutputUnlatched ==
  IF Fresh THEN << cmd.kind >>
  ELSE IF notified THEN << >> ELSE << "stop" >>

\* send_command(): what goes out, none as the empty sequence; then stale_notified_.  It
\* knows no stop band: a command of either motion goes out as counts other than 0.
Output ==
  IF estop THEN << "stop" >>
  ELSE IF Fresh THEN << cmd.kind >>
  ELSE IF notified THEN << >> ELSE << "stop" >>

Notified == estop \/ ~Fresh

\* The latch and the last command live in the process only.  A driver that is shut down
\* sends a stop, one that dies does not; what comes during a loop is read by the next.
DriverRestarts(farewell) ==
  /\ fw.at # "read"
  /\ cmd' = [kind |-> "none", age |-> Past] /\ estop' = FALSE /\ notified' = FALSE
  /\ line' = IF farewell /\ Len(line) < Capacity THEN Append(line, "stop") ELSE line
  /\ asked' = FALSE /\ latched' = 0
  /\ UNCHANGED <<fw, target, deaf, obeyed, silence>>

------------------------------------------------------------------------------
(* The servos *)

\* One SYNCWRITE, which no servo answers: the wheels within reach take the velocity.
Written(turn) == (target \cap deaf) \cup (IF turn THEN Wheels \ deaf ELSE {})

\* A servo drops out, for power or wiring; it stays out until a read of it has failed.
ServoLost(w) ==
  /\ w \notin deaf
  /\ deaf' = deaf \cup {w}
  /\ UNCHANGED <<hostVars, line, fw, target, history>>
ServoBack(w) ==
  /\ w \in deaf /\ w \notin fw.ok
  /\ deaf' = deaf \ {w}
  /\ UNCHANGED <<hostVars, line, fw, target, history>>

------------------------------------------------------------------------------
(* The firmware *)

\* Mutant: a servo that has failed is not configured again.
EnsuredNever(f, failing) ==
  [f EXCEPT !.ok = @ \ (deaf \cup failing), !.fault = @ \/ deaf \cup failing # {}]

\* ensure_servo_config() on f: a servo that answers and is not configured is, with its
\* target cleared first, unless an exchange with it fails (failing); with any servo missing,
\* all stop and the fault is latched.
Ensured(f, failing) ==
  [f EXCEPT !.ok = Wheels \ (deaf \cup failing), !.fault = @ \/ deaf \cup failing # {}]

\* The wheels turning after it.
AfterEnsure(f, failing, turning) ==
  LET left == turning \ (Wheels \ (deaf \cup failing \cup f.ok))
  IN IF deaf \cup failing # {} THEN left \cap deaf ELSE left

\* Mutant: the servos are configured, and their old targets left alone.
SetupKeepsTargets(failing) ==
  /\ fw.at \in { "stop", "config" } /\ failing \subseteq Wheels \ deaf
  /\ fw' = [Ensured(fw, failing) EXCEPT !.at = IF fw.at = "stop" THEN "sensors" ELSE "read"]
  /\ UNCHANGED <<hostVars, line, target, deaf, history>>

\* setup(): configure and stop, initialise the sensors, configure and stop again.
Setup(failing) ==
  /\ fw.at \in { "stop", "config" } /\ failing \subseteq Wheels \ deaf
  /\ fw' = [Ensured(fw, failing) EXCEPT !.at = IF fw.at = "stop" THEN "sensors" ELSE "read"]
  /\ target' = Written(FALSE)
  /\ UNCHANGED <<hostVars, line, deaf, history>>

SensorsReady ==
  /\ fw.at = "sensors"
  /\ fw' = [fw EXCEPT !.at = "config"]
  /\ UNCHANGED <<hostVars, line, target, deaf, history>>

\* A velocity other than 0 is refused while the fault is latched.
Refused(c) == c \in Motions /\ fw.fault

\* Mutant: a command does not arm the watchdog again.
ReadFrameUnarmed(sent) ==
  LET c == Head(line)
      moves == c \in Motions /\ ~Refused(c) /\ sent
  IN /\ fw.at = "read" /\ line # << >>
     /\ c = "stop" \/ Refused(c) => sent
     /\ line' = Tail(line)
     /\ fw' = [fw EXCEPT !.age = 0, !.fault = @ \/ ~sent, !.ok = IF sent THEN @ ELSE {}]
     /\ target' = Written(moves)
     /\ obeyed' = (obeyed \/ moves)
     /\ UNCHANGED <<hostVars, deaf, asked, silence, latched>>

\* feed_rx() and handle_cmd() for one frame.  When the velocity cannot be written to the
\* bus (~sent), the fault is latched and a stop written instead.
ReadFrame(sent) ==
  LET c == Head(line)
      moves == c \in Motions /\ ~Refused(c) /\ sent
  IN /\ fw.at = "read" /\ line # << >>
     /\ c = "stop" \/ Refused(c) => sent
     /\ line' = Tail(line)
     /\ fw' = [fw EXCEPT !.age = 0, !.dog = @ /\ (Refused(c) \/ ~sent),
                         !.fault = @ \/ ~sent, !.ok = IF sent THEN @ ELSE {}]
     /\ target' = Written(moves)
     /\ obeyed' = (obeyed \/ moves)
     /\ UNCHANGED <<hostVars, deaf, asked, silence, latched>>

\* Mutant: a read that fails is noticed and nothing is stopped for it.
UnsoundTolerated(glitch) == glitch

Bites == ~fw.dog /\ fw.age > Timeout
Unsound(glitch) == (Wheels \ fw.ok) \cup deaf \cup glitch

\* The rest of loop(): the watchdog, send_state(), and once a second ensure_servo_config().
\* glitch: wheels whose position is not read, or is refused as a jump.
Loop(glitch, ping, failing) ==
  LET bad == Unsound(glitch)
      sent == [fw EXCEPT !.at = "wait", !.dog = @ \/ Bites, !.ok = @ \ bad, !.fault = bad # {}]
      turning == IF Bites \/ bad # {} THEN Written(FALSE) ELSE target
  IN /\ fw.at = "read" /\ line = << >>
     /\ glitch \cup failing \subseteq Wheels \ deaf
     /\ ~ping => failing = {}
     /\ fw' = IF ping THEN Ensured(sent, failing) ELSE sent
     /\ target' = IF ping THEN AfterEnsure(sent, failing, turning) ELSE turning
     /\ UNCHANGED <<hostVars, line, deaf, history>>

\* Only the microcontroller resets: brown-out, panic, the reset button.
Reboot ==
  /\ fw' = FreshFirmware
  /\ line' = << >>
  /\ obeyed' = FALSE
  /\ UNCHANGED <<hostVars, target, deaf, asked, silence, latched>>

------------------------------------------------------------------------------
\* Time passes for everybody, and the driver's timer fires, unless its thread is late.
Tick(fires, arrives) ==
  LET frames == IF fires /\ arrives /\ Len(line) < Capacity THEN Output ELSE << >>
  IN /\ fw.at \in { "wait", "sensors" }
     /\ fw' = [fw EXCEPT !.at = IF @ = "wait" THEN "read" ELSE @, !.age = Older(@, Past)]
     /\ line' = line \o frames
     /\ notified' = IF fires THEN Notified ELSE notified
     /\ cmd' = [cmd EXCEPT !.age = Older(@, Past)]
     /\ silence' = Older(silence, Bound)
     /\ latched' = IF estop THEN Older(latched, Bound) ELSE 0
     /\ UNCHANGED <<estop, target, deaf, asked, obeyed>>

Next ==
  \/ \E kind \in Kinds : Twist(kind)
  \/ Engage \/ Reset
  \/ \E farewell \in BOOLEAN : DriverRestarts(farewell)
  \/ \E w \in Wheels : ServoLost(w) \/ ServoBack(w)
  \/ \E failing \in SUBSET Wheels : Setup(failing)
  \/ SensorsReady \/ Reboot
  \/ \E sent \in BOOLEAN : ReadFrame(sent)
  \/ \E glitch, failing \in SUBSET Wheels, ping \in BOOLEAN : Loop(glitch, ping, failing)
  \/ \E fires, arrives \in BOOLEAN : Tick(fires, arrives)

Spec == Init /\ [][Next]_vars

\* The firmware's loop runs and time passes; the servos are pinged every second, and
\* neither does their configuration fail every time nor is the position read after it a jump.
Fairness ==
  /\ WF_vars(\E failing \in SUBSET Wheels : Setup(failing)) /\ WF_vars(SensorsReady)
  /\ WF_vars(\E sent \in BOOLEAN : ReadFrame(sent))
  /\ SF_vars(\E glitch \in SUBSET Wheels : Loop(glitch, TRUE, {}))
  /\ SF_vars(fw.ok = Wheels /\ Loop({}, FALSE, {}))
  /\ WF_vars(Tick(TRUE, FALSE))

FairSpec == Spec /\ Fairness

------------------------------------------------------------------------------
(* Properties *)

Turning == target \ deaf
LoopEnds == fw.at = "read" /\ fw'.at = "wait"

\* When the firmware's loop has run, the wheels within reach stand
\*  - Bound ticks after the last motion command, whatever was lost, late or restarted
\*    in between: a silent control stack stops the vehicle,
\*  - Bound ticks after the emergency stop, even if no stop frame has arrived,
\*  - after a reset of the microcontroller, until a new command: the targets the servos
\*    have kept turn no wheel,
\*  - with one servo out of reach or unconfigured: the vehicle never drives on part of
\*    its wheels.
WheelsStand ==
  [][LoopEnds /\ (silence = Bound \/ latched = Bound \/ ~obeyed \/ fw'.ok # Wheels)
       => Turning' = {}]_vars

\* After a release of the latch the vehicle drives, faster than the stop band, only on a
\* command that came after it, and not because Nav2 still sent one when it was released.
ReleaseStaysInBand == [][line' = Append(line, "go") => asked]_vars

\* "released; motion starts only on a new command", as the answer to the reset says.  It
\* does not hold: a command within the stop band, still fresh when the latch is released,
\* goes out as counts other than 0.
MotionNeedsNewCommand ==
  [][\A motion \in Motions : line' = Append(line, motion) => asked]_vars

\* A fault clears once the servos are within reach again and the bus takes what is written.
ServoRecovers ==
  <>[](deaf = {} /\ fw.at # "stop") /\ <>[][~ReadFrame(FALSE)]_vars => []<>(~fw.fault)

=============================================================================
