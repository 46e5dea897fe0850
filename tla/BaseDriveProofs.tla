---------------------------- MODULE BaseDriveProofs ----------------------------
(***************************************************************************)
(* What holds of the base driver and the firmware for every number of      *)
(* wheels, every timeout and every capacity of the serial line.            *)
(***************************************************************************)
EXTENDS BaseDrive, TLAPS

(* Type correctness *)

\* Clocks stay within their bounds.
LEMMA Clocks ==
  /\ Past \in Nat /\ Bound \in Nat /\ Timeout \in Nat /\ Timeout < Past
  /\ \A limit \in Nat : \A n \in 0..limit : Older(n, limit) \in 0..limit
  /\ 0 \in 0..Past /\ Past \in 0..Past /\ 0 \in 0..Bound /\ Bound \in 0..Bound
BY BaseAssumption DEF Past, Bound, Older

\* What the driver sends is at most one frame.
LEMMA OutputFrame ==
  ASSUME TypeOK
  PROVE  Output = << >> \/ \E f \in Frames : Output = << f >>
BY DEF Output, Fresh, TypeOK, Frames, Kinds, Motions

\* The servos turn only where they exist.
LEMMA Turned == TypeOK => \A turn \in BOOLEAN : Written(turn) \in SUBSET Wheels
BY DEF TypeOK, Written

\* The line: at most Capacity frames.
LineOK == line \in Seq(Frames) /\ Len(line) <= Capacity

LEMMA LineStep == ASSUME TypeOK, [Next]_vars PROVE LineOK'
<1> USE DEF TypeOK, LineOK
<1>0. \A f \in Frames : /\ Append(line, f) \in Seq(Frames)
                        /\ Len(line) < Capacity => Len(Append(line, f)) <= Capacity
  BY BaseAssumption
<1>1. ASSUME NEW farewell \in BOOLEAN, DriverRestarts(farewell) PROVE LineOK'
  BY <1>0, <1>1 DEF DriverRestarts, Frames
<1>2. CASE \E sent \in BOOLEAN : ReadFrame(sent)
  BY <1>2, BaseAssumption DEF ReadFrame
<1>3. CASE Reboot
  BY <1>3, BaseAssumption DEF Reboot
<1>4. ASSUME NEW fires \in BOOLEAN, NEW arrives \in BOOLEAN, Tick(fires, arrives) PROVE LineOK'
  <2>1. line \o << >> = line
    OBVIOUS
  <2>2. \A f \in Frames : line \o << f >> = Append(line, f)
    OBVIOUS
  <2>3. \/ line' = line
        \/ \E f \in Frames : Len(line) < Capacity /\ line' = Append(line, f)
    BY <1>4, <2>1, <2>2, OutputFrame DEF Tick
  <2> QED
    BY <1>0, <2>3
<1>5. CASE UNCHANGED line
  BY <1>5
<1>6. \/ \E farewell \in BOOLEAN : DriverRestarts(farewell)
      \/ (\E sent \in BOOLEAN : ReadFrame(sent)) \/ Reboot \/ UNCHANGED line
      \/ \E fires, arrives \in BOOLEAN : Tick(fires, arrives)
  BY DEF Next, vars, Twist, hostVars, Engage, Reset, ServoLost, ServoBack, Setup, SensorsReady, Loop
<1> QED
  BY <1>1, <1>2, <1>3, <1>4, <1>5, <1>6

\* The driver: its last command, the latch and the clocks.
DriverOK ==
  /\ cmd \in [kind : Kinds \cup { "none" }, age : 0..Past]
  /\ estop \in BOOLEAN /\ notified \in BOOLEAN
  /\ asked \in BOOLEAN /\ obeyed \in BOOLEAN
  /\ silence \in 0..Bound /\ latched \in 0..Bound

LEMMA DriverStep == ASSUME TypeOK, [Next]_vars PROVE DriverOK'
<1> USE Clocks DEF TypeOK, DriverOK, hostVars, history
<1>1. ASSUME NEW kind \in Kinds, Twist(kind) PROVE DriverOK'
  BY <1>1 DEF Twist
<1>2. CASE Engage \/ Reset
  BY <1>2 DEF Engage, Reset
<1>3. ASSUME NEW farewell \in BOOLEAN, DriverRestarts(farewell) PROVE DriverOK'
  BY <1>3 DEF DriverRestarts
<1>4. ASSUME NEW w \in Wheels, ServoLost(w) \/ ServoBack(w) PROVE DriverOK'
  BY <1>4 DEF ServoLost, ServoBack
<1>5. CASE (\E failing \in SUBSET Wheels : Setup(failing)) \/ SensorsReady \/ Reboot
  BY <1>5 DEF Setup, SensorsReady, Reboot
<1>6. CASE \E sent \in BOOLEAN : ReadFrame(sent)
  BY <1>6 DEF ReadFrame
<1>7. ASSUME NEW glitch \in SUBSET Wheels, NEW failing \in SUBSET Wheels, NEW ping \in BOOLEAN,
             Loop(glitch, ping, failing)
      PROVE  DriverOK'
  BY <1>7 DEF Loop
<1>8. ASSUME NEW fires \in BOOLEAN, NEW arrives \in BOOLEAN, Tick(fires, arrives) PROVE DriverOK'
  <2>1. cmd' \in [kind : Kinds \cup { "none" }, age : 0..Past]
    BY <1>8 DEF Tick
  <2>2. silence' \in 0..Bound /\ latched' \in 0..Bound
    BY <1>8 DEF Tick
  <2>3. notified' \in BOOLEAN /\ UNCHANGED <<estop, asked, obeyed>>
    BY <1>8 DEF Tick, Notified, Fresh
  <2> QED
    BY <2>1, <2>2, <2>3
<1>9. CASE UNCHANGED vars
  BY <1>9 DEF vars
<1> HIDE DEF TypeOK, DriverOK
<1> QED
  BY <1>1, <1>2, <1>3, <1>4, <1>5, <1>6, <1>7, <1>8, <1>9 DEF Next

\* The firmware and the servos.
WheelsOK ==
  /\ fw \in [at : { "stop", "sensors", "config", "read", "wait" }, age : 0..Past,
             dog : BOOLEAN, fault : BOOLEAN, ok : SUBSET Wheels]
  /\ target \in SUBSET Wheels /\ deaf \in SUBSET Wheels

LEMMA WheelsStep == ASSUME TypeOK, [Next]_vars PROVE WheelsOK'
<1> USE Clocks, Turned DEF WheelsOK, hostVars, history
<1>t. WheelsOK
  BY DEF TypeOK
<1>1. ASSUME NEW kind \in Kinds, Twist(kind) PROVE WheelsOK'
  BY <1>t, <1>1 DEF Twist
<1>2. CASE Engage \/ Reset
  BY <1>t, <1>2 DEF Engage, Reset
<1>3. ASSUME NEW farewell \in BOOLEAN, DriverRestarts(farewell) PROVE WheelsOK'
  BY <1>t, <1>3 DEF DriverRestarts
<1>4. ASSUME NEW w \in Wheels, ServoLost(w) \/ ServoBack(w) PROVE WheelsOK'
  BY <1>t, <1>4 DEF ServoLost, ServoBack
<1>5. CASE (\E failing \in SUBSET Wheels : Setup(failing)) \/ SensorsReady
  <2>1. \A failing \in SUBSET Wheels : Ensured(fw, failing) \in [at : { "stop", "sensors", "config", "read", "wait" }, age : 0..Past,
                          dog : BOOLEAN, fault : BOOLEAN, ok : SUBSET Wheels]
    BY <1>t DEF Ensured
  <2>2. CASE \E failing \in SUBSET Wheels : Setup(failing)
    BY <1>t, <2>1, <2>2 DEF Setup
  <2>3. CASE SensorsReady
    BY <1>t, <2>3 DEF SensorsReady
  <2> QED
    BY <1>5, <2>2, <2>3
<1>6. CASE Reboot
  BY <1>t, <1>6 DEF Reboot, FreshFirmware
<1>7. CASE \E sent \in BOOLEAN : ReadFrame(sent)
  BY <1>t, <1>7 DEF ReadFrame
<1>8. ASSUME NEW glitch \in SUBSET Wheels, NEW failing \in SUBSET Wheels, NEW ping \in BOOLEAN,
             Loop(glitch, ping, failing)
      PROVE  WheelsOK'
  <2>1. fw' \in [at : { "stop", "sensors", "config", "read", "wait" }, age : 0..Past,
                 dog : BOOLEAN, fault : BOOLEAN, ok : SUBSET Wheels]
    BY <1>t, <1>8 DEF Loop, Ensured, Bites
  <2>2. target' \in SUBSET Wheels /\ deaf' = deaf
    BY <1>t, <1>8 DEF Loop, AfterEnsure
  <2> QED
    BY <1>t, <2>1, <2>2
<1>9. ASSUME NEW fires \in BOOLEAN, NEW arrives \in BOOLEAN, Tick(fires, arrives) PROVE WheelsOK'
  BY <1>t, <1>9 DEF Tick
<1>10. CASE UNCHANGED vars
  BY <1>t, <1>10 DEF vars
<1> QED
  BY <1>1, <1>2, <1>3, <1>4, <1>5, <1>6, <1>7, <1>8, <1>9, <1>10 DEF Next

\* Every field of the driver, the line and the firmware keeps its type, and the line
\* its capacity.
THEOREM BaseTypeCorrect == Spec => []TypeOK
<1>1. Init => TypeOK
  <2> SUFFICES ASSUME Init PROVE TypeOK
    OBVIOUS
  <2>1. LineOK
    BY BaseAssumption DEF Init, LineOK
  <2>2. DriverOK
    BY Clocks DEF Init, DriverOK
  <2>3. WheelsOK
    BY Clocks DEF Init, WheelsOK, FreshFirmware
  <2> QED
    BY <2>1, <2>2, <2>3 DEF LineOK, DriverOK, WheelsOK, TypeOK
<1>2. TypeOK /\ [Next]_vars => TypeOK'
  BY LineStep, DriverStep, WheelsStep DEF LineOK, DriverOK, WheelsOK, TypeOK
<1> QED
  BY <1>1, <1>2, PTL DEF Spec

------------------------------------------------------------------------------
(* The release of the latch *)

\* A command to drive that is still fresh came after the last release.
AskedFirst == Fresh /\ cmd.kind = "go" => asked

\* The latch is released only while no command to drive is fresh, and only a Twist makes
\* one fresh.
LEMMA AskedStep == ASSUME TypeOK, AskedFirst, [Next]_vars PROVE AskedFirst'
<1> USE DEF AskedFirst, Fresh
<1>1. ASSUME NEW kind \in Kinds, Twist(kind) PROVE AskedFirst'
  BY <1>1 DEF Twist
<1>2. CASE Engage
  BY <1>2 DEF Engage, history
<1>3. CASE Reset
  BY <1>3 DEF Reset, CommandsMotion
<1>4. ASSUME NEW farewell \in BOOLEAN, DriverRestarts(farewell) PROVE AskedFirst'
  BY <1>4 DEF DriverRestarts
<1>5. ASSUME NEW fires \in BOOLEAN, NEW arrives \in BOOLEAN, Tick(fires, arrives) PROVE AskedFirst'
  <2>1. cmd'.kind = cmd.kind /\ asked' = asked
    BY <1>5 DEF Tick, TypeOK
  <2>2. cmd'.age <= Timeout => cmd.age <= Timeout
    BY <1>5, Clocks DEF Tick, TypeOK, Older
  <2> QED
    BY <2>1, <2>2
<1>6. CASE UNCHANGED <<cmd, asked>>
  BY <1>6
<1> QED
  BY <1>1, <1>2, <1>3, <1>4, <1>5, <1>6
  DEF Next, vars, hostVars, history, ServoLost, ServoBack, Setup, SensorsReady, ReadFrame, Reboot, Loop

\* After a release of the latch, send_command() puts a frame to drive on the line only for
\* a command that came after it; what lies within the stop band is not spoken of.
THEOREM ReleaseHolds == Spec => ReleaseStaysInBand
<1> DEFINE A == line' = Append(line, "go") => asked
<1>1. Init => AskedFirst
  BY DEF Init, AskedFirst, Fresh
<1>2. ASSUME TypeOK, AskedFirst, [Next]_vars PROVE [A]_vars
  <2> SUFFICES ASSUME line' = Append(line, "go") PROVE asked
    OBVIOUS
  <2>l. line \in Seq(Frames)
    BY <1>2 DEF TypeOK
  <2>s. \A f : Len(Append(line, f)) = Len(line) + 1 /\ Append(line, f)[Len(line) + 1] = f
    BY <2>l
  <2>1. Len(line') = Len(line) + 1 /\ line'[Len(line) + 1] = "go" /\ line' # line
    BY <2>l, <2>s
  <2>2. ASSUME NEW farewell \in BOOLEAN, DriverRestarts(farewell) PROVE FALSE
    <3>1. line' = line \/ line' = Append(line, "stop")
      BY <2>2 DEF DriverRestarts
    <3> QED
      BY <2>1, <2>s, <3>1
  <2>3. CASE (\E sent \in BOOLEAN : ReadFrame(sent)) \/ Reboot
    <3>1. line' = << >> \/ (line # << >> /\ line' = Tail(line))
      BY <2>3 DEF ReadFrame, Reboot
    <3> QED
      BY <2>1, <2>l, <3>1
  <2>4. ASSUME NEW fires \in BOOLEAN, NEW arrives \in BOOLEAN, Tick(fires, arrives) PROVE asked
    <3>1. line \o << >> = line /\ \A f \in Frames : line \o << f >> = Append(line, f)
      BY <2>l
    <3>2. line' = line \o Output
      BY <2>1, <2>4, <3>1 DEF Tick
    <3>3. Output = << "go" >>
      BY <1>2, <2>1, <2>s, <3>1, <3>2, OutputFrame
    <3>4. Fresh /\ cmd.kind = "go"
      BY <3>3 DEF Output
    <3> QED
      BY <1>2, <3>4 DEF AskedFirst
  <2>5. CASE UNCHANGED line
    BY <2>1, <2>5
  <2> QED
    BY <1>2, <2>2, <2>3, <2>4, <2>5
    DEF Next, vars, Twist, hostVars, Engage, Reset, ServoLost, ServoBack, Setup, SensorsReady, Loop
<1>3. TypeOK /\ AskedFirst /\ [Next]_vars => AskedFirst'
  BY AskedStep
<1>4. Spec => []TypeOK
  BY BaseTypeCorrect
<1> QED
  BY <1>1, <1>2, <1>3, <1>4, PTL DEF Spec, ReleaseStaysInBand

------------------------------------------------------------------------------
(* The wheels stand *)

\* A frame of motion is on the line; a configured wheel within reach turns.
Carries(l) == \E i \in 1..Len(l) : l[i] \in Motions
Moving == ~(target \cap fw.ok \subseteq deaf)

\* A motion command that is fresh is the last one.
CommandFits == cmd.kind \in Motions /\ cmd.age <= Timeout => silence <= cmd.age

\* Whatever frame of motion waits when the firmware starts is refused for the fault; later
\* ones are read in the tick in which they come.
LineFits ==
  /\ fw.at \in { "stop", "sensors", "config" } => fw.fault
  /\ fw.at = "wait" => ~Carries(line)
  /\ fw.at = "read" /\ ~fw.fault /\ Carries(line) => silence <= Past /\ latched = 0

\* What turns obeys a command, and the watchdog knows its age.
MovingFits ==
  Moving => /\ ~fw.dog /\ obeyed
            /\ fw.age <= Timeout => silence <= fw.age + Past /\ latched <= fw.age

\* The driver's clock runs with the history's.
LEMMA CommandStep == ASSUME TypeOK, CommandFits, [Next]_vars PROVE CommandFits'
<1> USE DEF CommandFits
<1>1. ASSUME NEW kind \in Kinds, Twist(kind) PROVE CommandFits'
  BY <1>1 DEF Twist
<1>2. ASSUME NEW farewell \in BOOLEAN, DriverRestarts(farewell) PROVE CommandFits'
  BY <1>2 DEF DriverRestarts, Motions
<1>3. ASSUME NEW fires \in BOOLEAN, NEW arrives \in BOOLEAN, Tick(fires, arrives) PROVE CommandFits'
  <2>1. cmd'.kind = cmd.kind /\ cmd'.age = Older(cmd.age, Past) /\ silence' = Older(silence, Bound)
    BY <1>3 DEF Tick, TypeOK
  <2>2. cmd.age \in 0..Past /\ silence \in 0..Bound
    BY DEF TypeOK
  <2> QED
    BY <2>1, <2>2, BaseAssumption DEF Older, Past, Bound
<1>4. CASE UNCHANGED <<cmd, silence>>
  BY <1>4
<1> QED
  BY <1>1, <1>2, <1>3, <1>4
  DEF Next, vars, hostVars, history, Engage, Reset, ServoLost, ServoBack, Setup, SensorsReady,
      ReadFrame, Reboot, Loop

\* How a line comes to carry a frame of motion.
LEMMA Carrying ==
  ASSUME NEW l \in Seq(Frames)
  PROVE  /\ l # << >> /\ Carries(Tail(l)) => Carries(l)
         /\ l # << >> /\ Head(l) \in Motions => Carries(l)
         /\ \A f \in Frames : Carries(Append(l, f)) => f \in Motions \/ Carries(l)
         /\ ~Carries(<< >>)
<1>1. ASSUME l # << >>, Carries(Tail(l)) PROVE Carries(l)
  <2>1. PICK i \in 1..Len(Tail(l)) : Tail(l)[i] \in Motions
    BY <1>1 DEF Carries
  <2>2. i + 1 \in 1..Len(l) /\ l[i + 1] \in Motions
    BY <1>1, <2>1
  <2> QED
    BY <2>2 DEF Carries
<1>2. l # << >> /\ Head(l) \in Motions => Carries(l)
  <2>1. l # << >> => 1 \in 1..Len(l) /\ Head(l) = l[1]
    OBVIOUS
  <2> QED
    BY <2>1 DEF Carries
<1>3. ASSUME NEW f \in Frames, Carries(Append(l, f)), f \notin Motions PROVE Carries(l)
  <2>1. PICK i \in 1..Len(Append(l, f)) : Append(l, f)[i] \in Motions
    BY <1>3 DEF Carries
  <2>2. i \in 1..Len(l) /\ l[i] \in Motions
    BY <1>3, <2>1
  <2> QED
    BY <2>2 DEF Carries
<1>4. ~Carries(<< >>)
  BY DEF Carries
<1> QED
  BY <1>1, <1>2, <1>3, <1>4

\* A tick puts a frame of motion on a line without one only for a fresh command of a
\* driver that is not latched.
LEMMA TickCarries ==
  ASSUME TypeOK, NEW fires \in BOOLEAN, NEW arrives \in BOOLEAN, Tick(fires, arrives),
         Carries(line'), ~Carries(line)
  PROVE  ~estop /\ Fresh /\ cmd.kind \in Motions
<1>1. line \in Seq(Frames)
  BY DEF TypeOK
<1>2. line \o << >> = line /\ \A f \in Frames : line \o << f >> = Append(line, f)
  BY <1>1
<1>3. line' = line \o Output
  BY <1>2 DEF Tick
<1>4. PICK f \in Frames : Output = << f >>
  BY <1>2, <1>3, OutputFrame
<1>5. line' = Append(line, f)
  BY <1>2, <1>3, <1>4
<1>6. Carries(Append(line, f))
  BY <1>5
<1>7. f \in Motions
  BY <1>1, <1>6, Carrying
<1> QED
  BY <1>4, <1>7 DEF Output, Motions

\* Frames of motion are refused after a start, and read in the tick in which they come.
LEMMA LineFitsStep ==
  ASSUME TypeOK, CommandFits, LineFits, [Next]_vars
  PROVE  LineFits'
<1> USE DEF LineFits
<1>l. line \in Seq(Frames) /\ fw.at \in { "stop", "sensors", "config", "read", "wait" }
  BY DEF TypeOK
<1>1. ASSUME NEW kind \in Kinds, Twist(kind) PROVE LineFits'
  BY <1>1, Clocks DEF Twist, TypeOK
<1>2. CASE Engage \/ UNCHANGED <<line, fw, silence, latched>>
  BY <1>2 DEF Engage, history
<1>3. CASE Reset
  BY <1>3 DEF Reset
<1>4. ASSUME NEW farewell \in BOOLEAN, DriverRestarts(farewell) PROVE LineFits'
  <2>1. line' = line \/ line' = Append(line, "stop")
    BY <1>4 DEF DriverRestarts
  <2>2. Carries(line') => Carries(line)
    BY <1>l, <2>1, Carrying DEF Frames, Kinds, Motions
  <2> QED
    BY <1>4, <2>2 DEF DriverRestarts
<1>5. CASE (\E failing \in SUBSET Wheels : Setup(failing)) \/ SensorsReady
  BY <1>5 DEF Setup, SensorsReady, Ensured, TypeOK
<1>6. CASE \E sent \in BOOLEAN : ReadFrame(sent)
  <2>1. Carries(line') => Carries(line)
    BY <1>6, <1>l, Carrying DEF ReadFrame
  <2>2. fw'.at = "read" /\ (fw.fault => fw'.fault) /\ UNCHANGED <<silence, latched>>
    BY <1>6 DEF ReadFrame, TypeOK
  <2> QED
    BY <1>6, <2>1, <2>2 DEF ReadFrame
<1>7. CASE Reboot
  BY <1>7 DEF Reboot, FreshFirmware
<1>8. ASSUME NEW glitch \in SUBSET Wheels, NEW failing \in SUBSET Wheels, NEW ping \in BOOLEAN,
             Loop(glitch, ping, failing)
      PROVE  LineFits'
  <2>1. fw'.at = "wait" /\ line' = << >>
    BY <1>8 DEF Loop, Ensured, TypeOK
  <2> QED
    BY <2>1, Carrying, <1>l
<1>9. ASSUME NEW fires \in BOOLEAN, NEW arrives \in BOOLEAN, Tick(fires, arrives) PROVE LineFits'
  <2>1. CASE fw.at = "sensors"
    BY <1>9, <2>1 DEF Tick, TypeOK
  <2>2. CASE fw.at = "wait"
    <3>1. fw'.at = "read"
      BY <1>9, <2>2 DEF Tick, TypeOK
    <3>2. ASSUME Carries(line') PROVE silence' <= Past /\ latched' = 0
      <4>1. ~estop /\ Fresh /\ cmd.kind \in Motions
        BY <1>9, <2>2, <3>2, TickCarries
      <4>2. silence <= Timeout /\ silence \in Nat /\ cmd.age \in Nat
        BY <4>1, BaseAssumption DEF Fresh, CommandFits, TypeOK, Past, Bound
      <4>3. silence' = Older(silence, Bound) /\ latched' = 0
        BY <1>9, <4>1 DEF Tick
      <4> QED
        BY <4>2, <4>3, BaseAssumption DEF Older, Past, Bound
    <3> QED
      BY <3>1, <3>2
  <2> QED
    BY <1>9, <2>1, <2>2 DEF Tick
<1> QED
  BY <1>1, <1>2, <1>3, <1>4, <1>5, <1>6, <1>7, <1>8, <1>9
  DEF Next, vars, hostVars, history, ServoLost, ServoBack

\* A loop in which a wheel keeps turning has found every servo configured and sound, and
\* the last command fresh.
LEMMA LoopTurns ==
  ASSUME TypeOK, NEW glitch \in SUBSET Wheels, NEW failing \in SUBSET Wheels,
         NEW ping \in BOOLEAN, Loop(glitch, ping, failing)
  PROVE  ~(target' \subseteq deaf') => /\ deaf = {} /\ fw.ok = Wheels /\ fw'.ok = Wheels
                                       /\ target \subseteq Wheels /\ target' \subseteq target
                                       /\ ~Bites /\ fw'.dog = fw.dog /\ fw'.age = fw.age
<1>1. target \in SUBSET Wheels /\ deaf \in SUBSET Wheels /\ fw.ok \in SUBSET Wheels
  BY DEF TypeOK
<1> DEFINE bad == Unsound(glitch)
           sent == [fw EXCEPT !.at = "wait", !.dog = @ \/ Bites, !.ok = @ \ bad, !.fault = bad # {}]
           turning == IF Bites \/ bad # {} THEN Written(FALSE) ELSE target
<1>2. sent.ok = fw.ok \ bad /\ sent.age = fw.age /\ (~Bites => sent.dog = fw.dog)
  BY DEF TypeOK
<1>3. /\ fw' = IF ping THEN Ensured(sent, failing) ELSE sent
      /\ target' = IF ping THEN AfterEnsure(sent, failing, turning) ELSE turning
      /\ deaf' = deaf
  BY DEF Loop
<1>4. /\ Ensured(sent, failing).ok = Wheels \ (deaf \cup failing) /\ Ensured(sent, failing).age = sent.age
      /\ Ensured(sent, failing).dog = sent.dog
  BY DEF Ensured, TypeOK
<1>5. Written(FALSE) = target \cap deaf /\ turning \subseteq target
  BY DEF Written
<1>6. AfterEnsure(sent, failing, turning) \subseteq turning
  BY DEF AfterEnsure
<1>7. ASSUME ~(target' \subseteq deaf')
      PROVE  /\ deaf = {} /\ fw.ok = Wheels /\ fw'.ok = Wheels
             /\ ~Bites /\ fw'.dog = fw.dog /\ fw'.age = fw.age
  <2>1. ~(turning \subseteq deaf)
    BY <1>3, <1>6, <1>7
  <2>2. ~Bites /\ bad = {}
    BY <1>5, <2>1
  <2>3. deaf = {} /\ fw.ok = Wheels
    BY <1>1, <2>2 DEF Unsound
  <2>4. ping => failing = {}
    BY <1>3, <1>7, <2>3 DEF AfterEnsure
  <2> QED
    BY <1>2, <1>3, <1>4, <2>2, <2>3, <2>4
<1> QED
  BY <1>1, <1>3, <1>5, <1>6, <1>7

\* A configured wheel turns only after a command the firmware has accepted, and its clock
\* counts from there; a servo that comes back is not configured until it has been stopped.
LEMMA MovingStep ==
  ASSUME TypeOK, LineFits, MovingFits, [Next]_vars
  PROVE  MovingFits'
<1> USE DEF MovingFits
<1>t. /\ fw.at \in { "stop", "sensors", "config", "read", "wait" } /\ fw.age \in 0..Past
      /\ silence \in 0..Bound /\ latched \in 0..Bound
  BY DEF TypeOK
<1>1. ASSUME NEW kind \in Kinds, Twist(kind) PROVE MovingFits'
  BY <1>1, <1>t, Clocks DEF Twist, Moving
<1>2. CASE Engage \/ Reset \/ \E farewell \in BOOLEAN : DriverRestarts(farewell)
  BY <1>2, <1>t DEF Engage, Reset, DriverRestarts, Moving, history
<1>3. CASE \E w \in Wheels : ServoLost(w) \/ ServoBack(w)
  BY <1>3 DEF ServoLost, ServoBack, Moving, hostVars, history
<1>4. CASE (\E failing \in SUBSET Wheels : Setup(failing)) \/ Reboot
  <2>1. ~Moving'
    <3>1. CASE Reboot
      BY <3>1 DEF Reboot, FreshFirmware, Moving
    <3>2. ASSUME NEW failing \in SUBSET Wheels, Setup(failing) PROVE ~Moving'
      BY <3>2 DEF Setup, Written, Moving
    <3> QED
      BY <1>4, <3>1, <3>2
  <2> QED
    BY <2>1
<1>5. CASE SensorsReady
  BY <1>5 DEF SensorsReady, Moving, hostVars, history, TypeOK
<1>6. ASSUME NEW sent \in BOOLEAN, ReadFrame(sent) PROVE MovingFits'
  <2> DEFINE accepted == Head(line) \in Motions /\ ~fw.fault /\ sent
  <2>1. /\ target' = Written(accepted) /\ obeyed' = (obeyed \/ accepted)
        /\ fw'.age = 0 /\ (accepted => fw'.ok = fw.ok /\ ~fw'.dog)
        /\ UNCHANGED <<deaf, silence, latched>>
    BY <1>6 DEF ReadFrame, Refused, TypeOK
  <2>2. CASE ~accepted
    BY <2>1, <2>2 DEF Written, Moving
  <2>3. CASE accepted
    <3>1. Carries(line)
      BY <1>6, <2>3, Carrying DEF ReadFrame, TypeOK
    <3>2. silence <= Past /\ latched = 0
      BY <1>6, <2>3, <3>1 DEF LineFits, ReadFrame
    <3>3. silence' <= fw'.age + Past /\ latched' <= fw'.age
      BY <1>t, <2>1, <3>2, Clocks
    <3>4. ~fw'.dog /\ obeyed'
      BY <2>1, <2>3
    <3> QED
      BY <3>3, <3>4
  <2> QED
    BY <2>2, <2>3
<1>7. ASSUME NEW glitch \in SUBSET Wheels, NEW failing \in SUBSET Wheels, NEW ping \in BOOLEAN,
             Loop(glitch, ping, failing)
      PROVE  MovingFits'
  <2>1. UNCHANGED <<obeyed, silence, latched>>
    BY <1>7 DEF Loop, history
  <2>2. Moving' => Moving /\ fw'.dog = fw.dog /\ fw'.age = fw.age
    BY <1>7, LoopTurns DEF Moving
  <2> QED
    BY <2>1, <2>2
<1>8. ASSUME NEW fires \in BOOLEAN, NEW arrives \in BOOLEAN, Tick(fires, arrives) PROVE MovingFits'
  <2>1. /\ fw'.ok = fw.ok /\ fw'.dog = fw.dog /\ fw'.age = Older(fw.age, Past)
        /\ UNCHANGED <<target, deaf, obeyed>>
        /\ silence' = Older(silence, Bound)
        /\ latched' = (IF estop THEN Older(latched, Bound) ELSE 0)
    BY <1>8 DEF Tick, TypeOK
  <2>2. ASSUME Moving PROVE fw'.age <= Timeout => silence' <= fw'.age + Past /\ latched' <= fw'.age
    BY <1>t, <2>1, <2>2, BaseAssumption DEF Older, Past, Bound
  <2> QED
    BY <2>1, <2>2 DEF Moving
<1>9. CASE UNCHANGED vars
  BY <1>9 DEF vars, history, Moving
<1> QED
  BY <1>1, <1>2, <1>3, <1>4, <1>5, <1>6, <1>7, <1>8, <1>9 DEF Next

\* A silent control stack, the emergency stop, a reset of the microcontroller and a missing
\* servo each stop the wheels within reach, whatever is lost, late or restarted, for every
\* timeout and every length of the line.
THEOREM WheelsAlwaysStand == Spec => WheelsStand
<1> DEFINE Inv == CommandFits /\ LineFits /\ MovingFits
           Due == silence = Bound \/ latched = Bound \/ ~obeyed \/ fw'.ok # Wheels
<1>1. Init => Inv
  <2> SUFFICES ASSUME Init PROVE Inv
    OBVIOUS
  <2>1. CommandFits
    BY DEF Init, CommandFits, Motions
  <2>2. LineFits
    BY DEF Init, FreshFirmware, LineFits
  <2>3. MovingFits
    BY DEF Init, FreshFirmware, MovingFits, Moving
  <2> QED
    BY <2>1, <2>2, <2>3
<1>2. TypeOK /\ Inv /\ [Next]_vars => Inv'
  BY CommandStep, LineFitsStep, MovingStep
<1>3. TypeOK /\ Inv /\ [Next]_vars => [LoopEnds /\ Due => Turning' = {}]_vars
  <2> SUFFICES ASSUME TypeOK, Inv, Next, LoopEnds, Due, Turning' # {} PROVE FALSE
    OBVIOUS
  <2>1. PICK glitch \in SUBSET Wheels, failing \in SUBSET Wheels, ping \in BOOLEAN :
               Loop(glitch, ping, failing)
    <3>1. fw.at = "read" /\ fw' # fw
      BY DEF LoopEnds
    <3>2. (\E sent \in BOOLEAN : ReadFrame(sent)) => fw'.at = "read"
      BY <3>1 DEF ReadFrame, TypeOK
    <3>3. Reboot => fw'.at = "stop"
      BY DEF Reboot, FreshFirmware
    <3>4. fw'.at = "wait"
      BY DEF LoopEnds
    <3> QED
      BY <3>1, <3>2, <3>3, <3>4
      DEF Next, Twist, Engage, Reset, DriverRestarts, ServoLost, ServoBack, Setup, SensorsReady, Tick
  <2>2. ~(target' \subseteq deaf')
    BY DEF Turning
  <2>3. Moving /\ ~Bites /\ fw'.ok = Wheels
    BY <2>1, <2>2, LoopTurns DEF Moving
  <2>4. obeyed /\ fw.age <= Timeout /\ silence <= fw.age + Past /\ latched <= fw.age
    BY <2>3, BaseAssumption DEF MovingFits, Bites, TypeOK, Past
  <2> QED
    BY <2>3, <2>4, BaseAssumption DEF TypeOK, Past, Bound
<1>4. Spec => []TypeOK
  BY BaseTypeCorrect
<1> QED
  BY <1>1, <1>2, <1>3, <1>4, PTL DEF Spec, WheelsStand

------------------------------------------------------------------------------
(* The fault clears *)

\* Fairness as stated for the firmware, with the guards of its steps in the place of ENABLED,
\* of which the prover knows nothing: setup() goes on, time passes between two loops, and infinitely many of the
\* loops that empty the line ping the servos, and infinitely many of those that find every
\* servo configured read positions that are no jump.
SensorsProceed == []<>(fw.at # "sensors") \/ []<><<SensorsReady>>_vars
SetsUp == \E failing \in SUBSET Wheels : Setup(failing)
SetupProceeds == []<>(fw.at \notin {"stop", "config"}) \/ []<><<SetsUp>>_vars
TimeProceeds == []<>(fw.at # "wait") \/ []<><<Tick(TRUE, FALSE)>>_vars
LoopPings == \E glitch \in SUBSET Wheels : Loop(glitch, TRUE, {})
PingsProceed == <>[](fw.at = "read" => line # << >>) \/ []<><<LoopPings>>_vars
LoopSound == fw.ok = Wheels /\ Loop({}, FALSE, {})
SoundProceeds ==
  <>[](fw.at = "read" => line # << >> \/ fw.ok # Wheels) \/ []<><<LoopSound>>_vars

\* The loop reads all that has come.  Weak fairness of ReadFrame gives this, as the line is
\* finite and only gets shorter (ReadingShortens); the conclusion is induction over its length.
LineIsRead == []<>(fw.at = "read" => line = << >>)

\* The firmware's state is a record.
LEMMA FirmwareType ==
  TypeOK => fw \in [at : { "stop", "sensors", "config", "read", "wait" }, age : 0..Past,
                    dog : BOOLEAN, fault : BOOLEAN, ok : SUBSET Wheels]
BY DEF TypeOK

\* While the firmware reads nothing is added to the line, and each frame read makes it shorter.
LEMMA ReadingShortens ==
  ASSUME TypeOK, [Next]_vars, fw.at = "read", line # << >>
  PROVE  \/ fw'.at = "stop"
         \/ /\ fw'.at = "read"
            /\ \/ line' = line
               \/ (\E sent \in BOOLEAN : ReadFrame(sent)) /\ Len(line') = Len(line) - 1
<1> USE DEF hostVars, history
<1>1. CASE \E sent \in BOOLEAN : ReadFrame(sent)
  <2>1. fw'.at = "read" /\ line' = Tail(line)
    BY <1>1, FirmwareType DEF ReadFrame
  <2>2. line \in Seq(Frames)
    BY DEF TypeOK
  <2> QED
    BY <1>1, <2>1, <2>2
<1>2. CASE Reboot
  BY <1>2 DEF Reboot, FreshFirmware
<1>3. CASE UNCHANGED <<line, fw>>
  BY <1>3
<1> QED
  BY <1>1, <1>2, <1>3 DEF Next, vars, Twist, Engage, Reset, DriverRestarts, ServoLost, ServoBack,
    Setup, SensorsReady, Loop, Tick

\* Where the firmware goes, unless it is reset or the bus fails; between two loops only
\* setup() looks at the servos.
LEMMA FirmwareCourse ==
  ASSUME TypeOK, [Next]_vars, fw'.at # "stop", ~ReadFrame(FALSE)
  PROVE  /\ fw.at = "sensors" => fw'.at \in {"sensors", "config"}
         /\ fw.at = "config" => fw'.at \in {"config", "read"}
         /\ fw.at = "read" => fw'.at = "read" \/ (fw'.at = "wait" /\ line = << >>)
         /\ fw.at = "wait" => fw'.at \in {"wait", "read"}
         /\ fw.at = "wait" => fw'.ok = fw.ok
         /\ fw.at = "read" /\ fw'.at = "read" => fw'.ok = fw.ok
<1> USE DEF vars, hostVars, history
<1>1. CASE \E failing \in SUBSET Wheels : Setup(failing)
  <2>2. fw.at \in {"stop", "config"} /\ fw'.at = (IF fw.at = "stop" THEN "sensors" ELSE "read")
    BY <1>1, FirmwareType DEF Setup, Ensured
  <2> QED
    BY <2>2
<1>2. CASE SensorsReady \/ \E sent \in BOOLEAN : ReadFrame(sent)
  BY <1>2, FirmwareType DEF SensorsReady, ReadFrame
<1>3. ~Reboot
  BY DEF Reboot, FreshFirmware
<1>4. ASSUME NEW glitch \in SUBSET Wheels, NEW failing \in SUBSET Wheels, NEW ping \in BOOLEAN,
             Loop(glitch, ping, failing)
      PROVE  fw.at = "read" /\ fw'.at = "wait" /\ line = << >>
  BY <1>4, FirmwareType DEF Loop, Ensured
<1>5. ASSUME NEW fires \in BOOLEAN, NEW arrives \in BOOLEAN, Tick(fires, arrives)
      PROVE  /\ \/ fw.at = "sensors" /\ fw'.at = "sensors"
                \/ fw.at = "wait" /\ fw'.at = "read"
             /\ fw'.ok = fw.ok
  BY <1>5, FirmwareType DEF Tick
<1>6. CASE UNCHANGED fw
  BY <1>6
<1>7. \/ SensorsReady \/ UNCHANGED fw
      \/ \E failing \in SUBSET Wheels : Setup(failing)
      \/ \E sent \in BOOLEAN : ReadFrame(sent)
      \/ \E glitch, failing \in SUBSET Wheels, ping \in BOOLEAN : Loop(glitch, ping, failing)
      \/ \E fires, arrives \in BOOLEAN : Tick(fires, arrives)
  BY <1>3 DEF Next, Twist, Engage, Reset, DriverRestarts, ServoLost, ServoBack
<1> QED
  BY <1>1, <1>2, <1>4, <1>5, <1>6, <1>7

\* The steps that move it there.
LEMMA FirmwareSteps ==
  ASSUME TypeOK
  PROVE  /\ SensorsReady => fw'.at = "config"
         /\ SetsUp /\ fw.at = "config" => fw'.at = "read"
         /\ Tick(TRUE, FALSE) /\ fw.at = "wait" => fw'.at = "read"
         /\ LoopPings /\ deaf = {} => fw'.at = "wait" /\ fw'.ok = Wheels
         /\ LoopSound /\ deaf = {} => ~fw'.fault
<1>1. SensorsReady => fw'.at = "config"
  BY FirmwareType DEF SensorsReady
<1>2. SetsUp /\ fw.at = "config" => fw'.at = "read"
  BY FirmwareType DEF SetsUp, Setup, Ensured
<1>3. Tick(TRUE, FALSE) /\ fw.at = "wait" => fw'.at = "read"
  BY FirmwareType DEF Tick
<1>4. ASSUME NEW glitch \in SUBSET Wheels, Loop(glitch, TRUE, {}), deaf = {}
      PROVE  fw'.at = "wait" /\ fw'.ok = Wheels
  BY <1>4, FirmwareType DEF Loop, Ensured
<1>5. ASSUME LoopSound, deaf = {} PROVE ~fw'.fault
  <2>1. Unsound({}) = {}
    BY <1>5 DEF LoopSound, Unsound
  <2> QED
    BY <1>5, <2>1, FirmwareType DEF LoopSound, Loop
<1> QED
  BY <1>1, <1>2, <1>3, <1>4, <1>5 DEF LoopPings

\* A fault clears once the servos are within reach for good, the bus takes what is written
\* and the microcontroller is not reset any more, for every number of wheels, every timeout
\* and every capacity of the line.
THEOREM ServosRecover ==
  Spec /\ SensorsProceed /\ SetupProceeds /\ TimeProceeds /\ LineIsRead
    /\ PingsProceed /\ SoundProceeds => ServoRecovers
<1> DEFINE Q == deaf = {} /\ fw.at # "stop"
           U == ~fw.fault
           S == fw.at = "sensors"
           C == fw.at = "config"
           R == fw.at = "read"
           W == fw.at = "wait"
           L == line = << >>
           K == fw.ok = Wheels
           GS == fw.at # "sensors"
           GC == fw.at \notin {"stop", "config"}
           GW == fw.at # "wait"
           GP == fw.at = "read" => line # << >>
           GO == fw.at = "read" => line # << >> \/ fw.ok # Wheels
           GR == fw.at = "read" => line = << >>
           AS == SensorsReady
           AC == SetsUp
           AW == Tick(TRUE, FALSE)
           AP == LoopPings
           AO == LoopSound
           B == ReadFrame(FALSE)
<1>1. TypeOK /\ Q => S \/ C \/ R \/ W
  BY DEF TypeOK
<1>2. TypeOK /\ [Next]_vars /\ [~B]_vars /\ Q /\ Q' =>
        /\ S => S' \/ C'
        /\ C => C' \/ R'
        /\ R => R' \/ (W' /\ L)
        /\ W => W' \/ R'
        /\ W /\ K => K'
        /\ R /\ R' /\ K => K'
  BY FirmwareCourse DEF vars
<1>3. TypeOK /\ Q /\ Q' =>
        /\ S /\ <<AS>>_vars => C'
        /\ C /\ <<AC>>_vars => R'
        /\ W /\ <<AW>>_vars => R'
        /\ <<AP>>_vars => W' /\ K'
        /\ <<AO>>_vars => U'
  BY FirmwareSteps
<1>4. /\ S => ~GS
      /\ C => ~GC
      /\ W => ~GW
      /\ R /\ L => ~GP
      /\ R /\ L /\ K => ~GO
      /\ R /\ GR => L
  OBVIOUS
<1> HIDE DEF Q, U, S, C, R, W, L, K, GS, GC, GW, GP, GO, GR, AS, AC, AW, AP, AO, B
<1>5. /\ Spec /\ ([]<>GS \/ []<><<AS>>_vars) /\ ([]<>GC \/ []<><<AC>>_vars)
      /\ ([]<>GW \/ []<><<AW>>_vars) /\ []<>GR
      /\ (<>[]GP \/ []<><<AP>>_vars) /\ (<>[]GO \/ []<><<AO>>_vars)
      => (<>[]Q /\ <>[][~B]_vars => []<>U)
  BY <1>1, <1>2, <1>3, <1>4, BaseTypeCorrect, PTL DEF Spec
<1> QED
  BY <1>5 DEF Q, U, GS, GC, GW, GP, GO, GR, AS, AC, AW, AP, AO, B, SensorsProceed, SetupProceeds,
     TimeProceeds, PingsProceed, SoundProceeds, LineIsRead, ServoRecovers

=============================================================================
