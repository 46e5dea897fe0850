--------------------------- MODULE AttemptMotionProofs ---------------------------
(***************************************************************************)
(* What holds of an attempt for any number of goals and of requests to the *)
(* Collision Monitor, however late Nav2 and the monitor answer.            *)
(***************************************************************************)
EXTENDS AttemptMotion, TLAPS

(* The inductive invariant, in parts.  The first two hold always. *)

\* Where an escape is under way and where it is not; the last call of finish_navigation().
PointsFit ==
  /\ pending \/ at \in { "wait", "active", "byId" } => goal # 0
  /\ at = "ready" => goal < Last
  /\ at \in { "start", "confirm" } => goal = 0
  /\ at \in { "resume", "paused" } => escape
  /\ at \in { "start", "confirm", "blocked", "pause", "idle", "last", "over" } => ~escape
  /\ at = "over" => final
  /\ final => ~escape /\ at \in { "settle", "ask", "byId", "over" }

\* Goals not sent are unknown to the servers; an answer says what the server did.
AnswersFit ==
  \A g \in Goals :
    /\ g > goal => server[g] = "none"
    /\ answer[g] = "accepted" => server[g] \in { "live", "ended" }
    /\ answer[g] = "refused" => server[g] = "refused"

\* As long as the base is not latched: what the attempt knows of its last goal.  The
\* earlier goals are resolved, and so is the last one outside its own motion.
GoalsFit ==
  /\ \A g \in Goals : g # goal \/ at \notin { "wait", "active", "settle", "ask", "byId" } => Resolved(g)
  /\ handle \in { 0, goal }
  /\ at \notin { "wait", "active", "settle", "ask", "byId" } => ~pending /\ handle = 0
  /\ at \in { "wait", "byId" } => pending
  /\ at \in { "active", "ask" } => ~pending /\ handle = goal /\ goal # 0
  /\ pending => handle = 0
  /\ at = "settle" /\ ~pending /\ handle = 0 => \A g \in Goals : Resolved(g)

\* The attempt was given up before its first motion.
GivenUp == goal = 0 /\ (at \in { "last", "over" } \/ (at = "settle" /\ final))

\* Outside an escape the monitor is on to stay; inside, an awaited switch is the last one.
MonitorFits ==
  /\ ~escape /\ at \notin { "start", "confirm", "pause" } /\ ~GivenUp =>
       monitor /\ switches = << >>
  /\ at \in { "confirm", "resume" } =>
       /\ heard = "yes" => monitor /\ switches = << >>
       /\ heard = "none" => switches # << >> /\ switches[Len(switches)]

MotionInv ==
  /\ TypeOK /\ PointsFit /\ AnswersFit
  /\ ~estop => GoalsFit /\ MonitorFits

------------------------------------------------------------------------------
\* It holds when the attempt starts, whatever the monitor was left at.
LEMMA MotionInvInit == Init => MotionInv
<1> SUFFICES ASSUME Init PROVE MotionInv
  OBVIOUS
<1> USE MotionAssumption DEF Init
<1>1. TypeOK
  <2>1. /\ server \in [Goals -> { "none", "sent", "live", "ended", "refused" }]
        /\ answer \in [Goals -> { "none", "accepted", "refused" }]
        /\ goal \in 0..Last /\ handle \in 0..Last /\ tries \in 0..Attempts
    OBVIOUS
  <2>2. switches \in Seq(BOOLEAN) /\ monitor \in BOOLEAN /\ cancelled \in SUBSET Goals
    OBVIOUS
  <2> QED
    BY <2>1, <2>2 DEF TypeOK, Points
<1>2. PointsFit /\ AnswersFit
  BY DEF PointsFit, AnswersFit, Goals
<1>3. GoalsFit /\ MonitorFits
  BY DEF GoalsFit, MonitorFits, GivenUp, Resolved
<1> QED
  BY <1>1, <1>2, <1>3 DEF MotionInv

\* A switch asked for: the request is the last one under way, or its answer is no.
LEMMA SwitchFacts ==
  ASSUME NEW on \in BOOLEAN, NEW point, Switch(on, point), switches \in Seq(BOOLEAN)
  PROVE  /\ at' = point /\ monitor' = monitor
         /\ switches' \in Seq(BOOLEAN) /\ heard' \in { "none", "no" }
         /\ heard' = "none" => switches' # << >> /\ switches'[Len(switches')] = on
BY DEF Switch, GoTo

\* A motion that is over leads back to the attempt, or to the end of its escape.
LEMMA LeaveFacts ==
  ASSUME NEW raise \in BOOLEAN, Leave(raise), TypeOK
  PROVE  /\ raised' = raise /\ tries' \in 0..Attempts /\ monitor' = monitor
         /\ switches' \in Seq(BOOLEAN) /\ heard' \in { "none", "yes", "no" }
         /\ escape => /\ at' = "resume" /\ heard' # "yes"
                      /\ heard' = "none" => switches' # << >> /\ switches'[Len(switches')]
         /\ ~escape => at' \in { "idle", "last" } /\ switches' = switches
<1>1. CASE escape
  <2>1. Switch(TRUE, "resume") /\ tries' = Attempts - 1 /\ raised' = raise
    BY <1>1 DEF Leave
  <2>2. switches \in Seq(BOOLEAN) /\ Attempts - 1 \in 0..Attempts
    BY MotionAssumption DEF TypeOK
  <2>3. /\ at' = "resume" /\ monitor' = monitor
        /\ switches' \in Seq(BOOLEAN) /\ heard' \in { "none", "no" }
        /\ heard' = "none" => switches' # << >> /\ switches'[Len(switches')] = TRUE
    BY <2>1, <2>2, SwitchFacts
  <2> QED
    BY <1>1, <2>1, <2>2, <2>3
<1>2. CASE ~escape
  BY <1>2 DEF Leave, Onwards, GoTo, TypeOK, monitorVars
<1> QED
  BY <1>1, <1>2

\* finish_navigation() returns: resolved, or with the base told to stop.
LEMMA ReturnFacts ==
  ASSUME NEW resolved \in BOOLEAN, Return(resolved), TypeOK
  PROVE  /\ estop' = (estop \/ ~resolved) /\ monitor' = monitor
         /\ raised' \in BOOLEAN /\ tries' \in 0..Attempts
         /\ switches' \in Seq(BOOLEAN) /\ heard' \in { "none", "yes", "no" }
         /\ UNCHANGED <<goal, escape, final, stop, server, answer>>
         /\ final => at' = "over" /\ switches' = switches
         /\ ~final /\ escape => /\ at' = "resume" /\ heard' # "yes"
                                /\ heard' = "none" => switches' # << >> /\ switches'[Len(switches')]
         /\ ~final /\ ~escape => at' \in { "idle", "last" } /\ switches' = switches
<1>1. CASE final
  BY <1>1 DEF Return, GoTo, TypeOK, monitorVars
<1>2. CASE ~final
  <2>1. (raised \/ ~resolved) \in BOOLEAN /\ Leave(raised \/ ~resolved)
    BY <1>2 DEF Return, TypeOK
  <2> QED
    BY <1>2, <2>1, LeaveFacts DEF Return
<1> QED
  BY <1>1, <1>2

------------------------------------------------------------------------------
\* Every step keeps the types of the fields.
LEMMA TypeStep == ASSUME TypeOK, PointsFit, [Next]_vars PROVE TypeOK'
<1> USE DEF nodeVars, goalVars, monitorVars, GoTo
<1>1. ASSUME NEW g \in Goals, ServerAnswers(g) \/ AnswerArrives(g) \/ GoalEnds(g) PROVE TypeOK'
  BY <1>1 DEF ServerAnswers, AnswerArrives, GoalEnds, TypeOK
<1>2. ASSUME NEW success \in BOOLEAN, MonitorServes(success) PROVE TypeOK'
  <2>1. switches' \in Seq(BOOLEAN) /\ monitor' \in BOOLEAN
    BY <1>2 DEF MonitorServes, TypeOK
  <2> QED
    BY <1>2, <2>1 DEF MonitorServes, TypeOK
<1>3. CASE RequestStop
  BY <1>3 DEF RequestStop, TypeOK, Points
<1>4. CASE Confirmed
  BY <1>4 DEF Confirmed, TypeOK, Points
<1>5. CASE Paused
  BY <1>5 DEF Paused, TypeOK, Points
<1>6. CASE Resumed
  BY <1>6 DEF Resumed, Onwards, TypeOK, Points
<1>7. CASE ResumeFails
  BY <1>7 DEF ResumeFails, Onwards, TypeOK, Points
<1>8. CASE Ready \/ Blocked
  BY <1>8 DEF Ready, Blocked, TypeOK, Points
<1>9. CASE DirectMotion
  BY <1>9 DEF DirectMotion, TypeOK, Points
<1>10. CASE SendGoal
  <2>1. goal + 1 \in Goals /\ goal + 1 \in 0..Last
    BY <1>10, MotionAssumption DEF SendGoal, PointsFit, TypeOK, Goals
  <2> QED
    BY <1>10, <2>1 DEF SendGoal, TypeOK, Points
<1>11. CASE Accepted
  BY <1>11 DEF Accepted, TypeOK, Points
<1>12. CASE Refused
  BY <1>12 DEF Refused, TypeOK, Points
<1>13. CASE WaitEnds
  BY <1>13 DEF WaitEnds, TypeOK, Points
<1>14. CASE FollowEnds
  BY <1>14 DEF FollowEnds, TypeOK, Points
<1>15. CASE RetryDeparture
  BY <1>15 DEF RetryDeparture, TypeOK, Points
<1>16. CASE Finish
  BY <1>16 DEF Finish, TypeOK, Points
<1>17. CASE LateAnswer
  BY <1>17 DEF LateAnswer, TypeOK, Points
<1>18. CASE NoAnswer
  BY <1>18 DEF NoAnswer, TypeOK, Points
<1>19. CASE AskToCancel
  <2>1. handle \in Goals
    BY <1>19 DEF AskToCancel, TypeOK, Goals
  <2> QED
    BY <1>19, <2>1 DEF AskToCancel, TypeOK, Points
<1>20. CASE CancelById
  BY <1>20 DEF CancelById, PointsFit, TypeOK, Points, Goals
<1>21. CASE Confirm
  <2>1. PICK on \in BOOLEAN, point \in { "confirm", "pause", "resume" } : Switch(on, point)
    BY <1>21 DEF Confirm
  <2>2. /\ at' \in Points /\ switches' \in Seq(BOOLEAN) /\ monitor' = monitor
        /\ heard' \in { "none", "yes", "no" }
    BY <2>1, SwitchFacts DEF TypeOK, Points
  <2>3. tries' \in 0..Attempts /\ escape' \in BOOLEAN
    BY <1>21, MotionAssumption DEF Confirm, TypeOK
  <2> QED
    BY <1>21, <2>2, <2>3 DEF Confirm, TypeOK
<1>22. CASE Pause
  <2>1. PICK on \in BOOLEAN, point \in { "confirm", "pause", "resume" } : Switch(on, point)
    BY <1>22 DEF Pause
  <2>2. /\ at' \in Points /\ switches' \in Seq(BOOLEAN) /\ monitor' = monitor
        /\ heard' \in { "none", "yes", "no" }
    BY <2>1, SwitchFacts DEF TypeOK, Points
  <2>3. tries' \in 0..Attempts /\ escape' \in BOOLEAN
    BY <1>22, MotionAssumption DEF Pause, TypeOK
  <2> QED
    BY <1>22, <2>2, <2>3 DEF Pause, TypeOK
<1>23. CASE NotPaused
  <2>1. PICK on \in BOOLEAN, point \in { "confirm", "pause", "resume" } : Switch(on, point)
    BY <1>23 DEF NotPaused
  <2>2. /\ at' \in Points /\ switches' \in Seq(BOOLEAN) /\ monitor' = monitor
        /\ heard' \in { "none", "yes", "no" }
    BY <2>1, SwitchFacts DEF TypeOK, Points
  <2>3. tries' \in 0..Attempts /\ escape' \in BOOLEAN
    BY <1>23, MotionAssumption DEF NotPaused, TypeOK
  <2> QED
    BY <1>23, <2>2, <2>3 DEF NotPaused, TypeOK
<1>24. CASE ResumeAgain
  <2>1. PICK on \in BOOLEAN, point \in { "confirm", "pause", "resume" } : Switch(on, point)
    BY <1>24 DEF ResumeAgain
  <2>2. /\ at' \in Points /\ switches' \in Seq(BOOLEAN) /\ monitor' = monitor
        /\ heard' \in { "none", "yes", "no" }
    BY <2>1, SwitchFacts DEF TypeOK, Points
  <2>3. tries' \in 0..Attempts /\ escape' \in BOOLEAN
    BY <1>24, MotionAssumption DEF ResumeAgain, TypeOK
  <2> QED
    BY <1>24, <2>2, <2>3 DEF ResumeAgain, TypeOK
<1>25. CASE EndMotion
  BY <1>25, LeaveFacts DEF EndMotion, TypeOK, Points
<1>26. CASE Settled \/ CancelConfirmed \/ CancelUnconfirmed
  <2>1. PICK resolved \in BOOLEAN : Return(resolved)
    BY <1>26 DEF Settled, CancelConfirmed, CancelUnconfirmed
  <2>2. /\ handle' \in 0..Last /\ pending' \in BOOLEAN /\ cancelled' = cancelled
    <3>1. CASE Settled
      BY <3>1, MotionAssumption DEF Settled, TypeOK
    <3>2. CASE CancelConfirmed
      <4>1. handle' \in 0..Last
        BY <3>2, MotionAssumption DEF CancelConfirmed
      <4>2. pending' \in BOOLEAN /\ cancelled' = cancelled
        BY <3>2 DEF CancelConfirmed
      <4> QED
        BY <4>1, <4>2
    <3>3. CASE CancelUnconfirmed
      BY <3>3 DEF CancelUnconfirmed, TypeOK
    <3> QED
      BY <1>26, <3>1, <3>2, <3>3
  <2>3. at' \in { "idle", "last", "over", "resume" }
    BY <2>1, ReturnFacts
  <2>4. estop' \in BOOLEAN
    BY <2>1 DEF Return, TypeOK
  <2> QED
    BY <2>1, <2>2, <2>3, <2>4, ReturnFacts DEF TypeOK, Points
<1>27. CASE UNCHANGED vars
  BY <1>27 DEF vars, TypeOK, Points
<1> QED
  BY <1>1, <1>2, <1>3, <1>4, <1>5, <1>6, <1>7, <1>8, <1>9, <1>10, <1>11, <1>12, <1>13,
     <1>14, <1>15, <1>16, <1>17, <1>18, <1>19, <1>20, <1>21, <1>22, <1>23, <1>24, <1>25, <1>26, <1>27
  DEF Next, Environment, Attempt

\* Every step keeps the points of escapes and of the last finish_navigation().
LEMMA PointsStep == ASSUME TypeOK, PointsFit, [Next]_vars PROVE PointsFit'
<1> USE DEF nodeVars, goalVars, monitorVars, GoTo
<1>1. ASSUME NEW g \in Goals, ServerAnswers(g) \/ AnswerArrives(g) \/ GoalEnds(g) PROVE PointsFit'
  BY <1>1 DEF ServerAnswers, AnswerArrives, GoalEnds, PointsFit
<1>2. ASSUME NEW success \in BOOLEAN, MonitorServes(success) PROVE PointsFit'
  BY <1>2 DEF MonitorServes, PointsFit
<1>3. CASE RequestStop
  BY <1>3 DEF RequestStop, PointsFit, TypeOK
<1>4. CASE Confirmed
  BY <1>4 DEF Confirmed, PointsFit, TypeOK
<1>5. CASE Paused
  BY <1>5 DEF Paused, PointsFit, TypeOK
<1>6. CASE Resumed
  BY <1>6 DEF Resumed, Onwards, PointsFit, TypeOK
<1>7. CASE ResumeFails
  BY <1>7 DEF ResumeFails, Onwards, PointsFit, TypeOK
<1>8. CASE Ready \/ Blocked
  BY <1>8 DEF Ready, Blocked, PointsFit, TypeOK
<1>9. CASE DirectMotion
  BY <1>9 DEF DirectMotion, PointsFit, TypeOK
<1>10. CASE SendGoal
  BY <1>10 DEF SendGoal, PointsFit, TypeOK
<1>11. CASE Accepted
  BY <1>11 DEF Accepted, PointsFit, TypeOK
<1>12. CASE Refused
  BY <1>12 DEF Refused, PointsFit, TypeOK
<1>13. CASE WaitEnds
  BY <1>13 DEF WaitEnds, PointsFit, TypeOK
<1>14. CASE FollowEnds
  BY <1>14 DEF FollowEnds, PointsFit, TypeOK
<1>15. CASE RetryDeparture
  BY <1>15 DEF RetryDeparture, PointsFit, TypeOK
<1>16. CASE Finish
  BY <1>16 DEF Finish, PointsFit, TypeOK
<1>17. CASE LateAnswer
  BY <1>17 DEF LateAnswer, PointsFit, TypeOK
<1>18. CASE NoAnswer
  BY <1>18 DEF NoAnswer, PointsFit, TypeOK
<1>19. CASE AskToCancel
  BY <1>19 DEF AskToCancel, PointsFit, TypeOK
<1>20. CASE CancelById
  BY <1>20 DEF CancelById, PointsFit, TypeOK
<1>21. CASE Confirm
  BY <1>21 DEF Confirm, Switch, PointsFit
<1>22. CASE Pause
  BY <1>22 DEF Pause, Switch, PointsFit
<1>23. CASE NotPaused
  BY <1>23 DEF NotPaused, Switch, PointsFit
<1>24. CASE ResumeAgain
  BY <1>24 DEF ResumeAgain, Switch, PointsFit
<1>25. CASE EndMotion
  BY <1>25, LeaveFacts DEF EndMotion, PointsFit, TypeOK
<1>26. CASE Settled \/ CancelConfirmed \/ CancelUnconfirmed
  <2>1. PICK resolved \in BOOLEAN : Return(resolved)
    BY <1>26 DEF Settled, CancelConfirmed, CancelUnconfirmed
  <2>2. pending' => pending
    BY <1>26 DEF Settled, CancelConfirmed, CancelUnconfirmed
  <2>3. /\ goal' = goal /\ escape' = escape /\ final' = final
        /\ final => at' = "over"
        /\ ~final /\ escape => at' = "resume"
        /\ ~final /\ ~escape => at' \in { "idle", "last" }
    BY <2>1, ReturnFacts
  <2>4. at \in { "settle", "ask", "byId" }
    BY <1>26 DEF Settled, CancelConfirmed, CancelUnconfirmed
  <2> QED
    BY <2>2, <2>3, <2>4 DEF PointsFit
<1>27. CASE UNCHANGED vars
  BY <1>27 DEF vars, PointsFit, TypeOK
<1> QED
  BY <1>1, <1>2, <1>3, <1>4, <1>5, <1>6, <1>7, <1>8, <1>9, <1>10, <1>11, <1>12, <1>13,
     <1>14, <1>15, <1>16, <1>17, <1>18, <1>19, <1>20, <1>21, <1>22, <1>23, <1>24, <1>25, <1>26, <1>27
  DEF Next, Environment, Attempt

\* Every step keeps answers and servers in agreement.
LEMMA AnswersStep == ASSUME TypeOK, AnswersFit, [Next]_vars PROVE AnswersFit'
<1> USE DEF nodeVars, goalVars, monitorVars, GoTo
<1>1. ASSUME NEW g \in Goals, ServerAnswers(g) \/ AnswerArrives(g) \/ GoalEnds(g) PROVE AnswersFit'
  BY <1>1 DEF ServerAnswers, AnswerArrives, GoalEnds, AnswersFit, TypeOK
<1>2. ASSUME NEW success \in BOOLEAN, MonitorServes(success) PROVE AnswersFit'
  BY <1>2 DEF MonitorServes, AnswersFit
<1>3. CASE RequestStop
  BY <1>3 DEF RequestStop, AnswersFit
<1>4. CASE Confirmed
  BY <1>4 DEF Confirmed, AnswersFit
<1>5. CASE Paused
  BY <1>5 DEF Paused, AnswersFit
<1>6. CASE Resumed
  BY <1>6 DEF Resumed, Onwards, AnswersFit
<1>7. CASE ResumeFails
  BY <1>7 DEF ResumeFails, Onwards, AnswersFit
<1>8. CASE Ready \/ Blocked
  BY <1>8 DEF Ready, Blocked, AnswersFit
<1>9. CASE DirectMotion
  BY <1>9 DEF DirectMotion, AnswersFit
<1>10. CASE SendGoal
  BY <1>10 DEF SendGoal, AnswersFit, TypeOK, Goals
<1>11. CASE Accepted
  BY <1>11 DEF Accepted, AnswersFit
<1>12. CASE Refused
  BY <1>12 DEF Refused, AnswersFit
<1>13. CASE WaitEnds
  BY <1>13 DEF WaitEnds, AnswersFit
<1>14. CASE FollowEnds
  BY <1>14 DEF FollowEnds, AnswersFit
<1>15. CASE RetryDeparture
  BY <1>15 DEF RetryDeparture, AnswersFit
<1>16. CASE Finish
  BY <1>16 DEF Finish, AnswersFit
<1>17. CASE LateAnswer
  BY <1>17 DEF LateAnswer, AnswersFit
<1>18. CASE NoAnswer
  BY <1>18 DEF NoAnswer, AnswersFit
<1>19. CASE AskToCancel
  BY <1>19 DEF AskToCancel, AnswersFit
<1>20. CASE CancelById
  BY <1>20 DEF CancelById, AnswersFit
<1>21. CASE Confirm
  BY <1>21 DEF Confirm, AnswersFit
<1>22. CASE Pause
  BY <1>22 DEF Pause, AnswersFit
<1>23. CASE NotPaused
  BY <1>23 DEF NotPaused, AnswersFit
<1>24. CASE ResumeAgain
  BY <1>24 DEF ResumeAgain, AnswersFit
<1>25. CASE EndMotion
  BY <1>25 DEF EndMotion, AnswersFit
<1>26. CASE Settled \/ CancelConfirmed \/ CancelUnconfirmed
  BY <1>26 DEF Settled, CancelConfirmed, CancelUnconfirmed, Return, AnswersFit
<1>27. CASE UNCHANGED vars
  BY <1>27 DEF vars, AnswersFit
<1> QED
  BY <1>1, <1>2, <1>3, <1>4, <1>5, <1>6, <1>7, <1>8, <1>9, <1>10, <1>11, <1>12, <1>13,
     <1>14, <1>15, <1>16, <1>17, <1>18, <1>19, <1>20, <1>21, <1>22, <1>23, <1>24, <1>25, <1>26, <1>27
  DEF Next, Environment, Attempt

\* The emergency stop stays requested.
LEMMA LatchStays == ASSUME TypeOK, [Next]_vars, estop PROVE estop'
<1>1. CASE Settled \/ CancelConfirmed \/ CancelUnconfirmed
  BY <1>1 DEF Settled, CancelConfirmed, CancelUnconfirmed, Return
<1>2. CASE ~(Settled \/ CancelConfirmed \/ CancelUnconfirmed)
  BY <1>2 DEF Next, Environment, Attempt, ServerAnswers, AnswerArrives, GoalEnds,
    MonitorServes, RequestStop, Confirm, Confirmed, Blocked, Pause, Paused, NotPaused, Resumed,
    ResumeAgain, ResumeFails, Ready, DirectMotion, EndMotion, SendGoal, Accepted, Refused, WaitEnds,
    FollowEnds, RetryDeparture, Finish, LateAnswer, NoAnswer, AskToCancel, CancelById,
    nodeVars, vars
<1> QED
  BY <1>1, <1>2

\* As long as the base is not latched, every step keeps what the attempt knows of its goals.
LEMMA GoalsStep == ASSUME TypeOK, PointsFit, AnswersFit, GoalsFit, ~estop', [Next]_vars PROVE GoalsFit'
<1> USE DEF nodeVars, goalVars, monitorVars, GoTo
<1>1. ASSUME NEW g \in Goals, ServerAnswers(g) \/ AnswerArrives(g) \/ GoalEnds(g) PROVE GoalsFit'
  <2>1. \A h \in Goals : Resolved(h) => Resolved(h)'
    BY <1>1 DEF ServerAnswers, AnswerArrives, GoalEnds, Resolved, TypeOK
  <2>2. UNCHANGED nodeVars
    BY <1>1 DEF ServerAnswers, AnswerArrives, GoalEnds
  <2> QED
    BY <2>1, <2>2 DEF GoalsFit
<1>2. ASSUME NEW success \in BOOLEAN, MonitorServes(success) PROVE GoalsFit'
  BY <1>2 DEF MonitorServes, GoalsFit, Resolved
<1>3. CASE RequestStop
  BY <1>3 DEF RequestStop, GoalsFit, Resolved
<1>4. CASE Confirmed
  BY <1>4 DEF Confirmed, GoalsFit, Resolved
<1>5. CASE Paused
  BY <1>5 DEF Paused, GoalsFit, Resolved
<1>6. CASE Resumed
  BY <1>6 DEF Resumed, Onwards, GoalsFit, Resolved
<1>7. CASE ResumeFails
  BY <1>7 DEF ResumeFails, Onwards, GoalsFit, Resolved
<1>8. CASE Ready \/ Blocked
  BY <1>8 DEF Ready, Blocked, GoalsFit, Resolved
<1>9. CASE DirectMotion
  BY <1>9 DEF DirectMotion, GoalsFit, Resolved
<1>10. CASE SendGoal
  <2>1. goal + 1 \in Goals /\ goal + 1 # goal /\ goal' = goal + 1 /\ goal' # 0
    BY <1>10, MotionAssumption DEF SendGoal, PointsFit, TypeOK, Goals
  <2>2. \A g \in Goals : g # goal' => Resolved(g)'
    BY <1>10, <2>1 DEF SendGoal, GoalsFit, Resolved, TypeOK
  <2>3. handle' = 0 /\ pending' /\ at' = "wait"
    BY <1>10 DEF SendGoal, GoalsFit
  <2> QED
    BY <2>2, <2>3 DEF GoalsFit
<1>11. CASE Accepted
  BY <1>11 DEF Accepted, GoalsFit, Resolved, PointsFit
<1>12. CASE Refused
  <2>1. goal \in Goals
    BY <1>12 DEF Refused, PointsFit, TypeOK, Goals
  <2>2. \A g \in Goals : Resolved(g)
    BY <1>12, <2>1 DEF Refused, GoalsFit, AnswersFit, Resolved
  <2> QED
    BY <1>12, <2>2 DEF Refused, GoalsFit, Resolved
<1>13. CASE WaitEnds
  BY <1>13 DEF WaitEnds, GoalsFit, Resolved
<1>14. CASE FollowEnds
  BY <1>14 DEF FollowEnds, GoalsFit, Resolved
<1>15. CASE RetryDeparture
  BY <1>15 DEF RetryDeparture, GoalsFit, Resolved
<1>16. CASE Finish
  BY <1>16 DEF Finish, GoalsFit, Resolved
<1>17. CASE LateAnswer
  <2>1. goal \in Goals
    BY <1>17 DEF LateAnswer, PointsFit, TypeOK, Goals
  <2>2. answer[goal] # "accepted" => \A g \in Goals : Resolved(g)
    BY <1>17, <2>1 DEF LateAnswer, GoalsFit, AnswersFit, Resolved, TypeOK
  <2> QED
    BY <1>17, <2>1, <2>2 DEF LateAnswer, GoalsFit, Resolved, Goals
<1>18. CASE NoAnswer
  BY <1>18 DEF NoAnswer, GoalsFit, Resolved
<1>19. CASE AskToCancel
  BY <1>19 DEF AskToCancel, GoalsFit, Resolved
<1>20. CASE CancelById
  BY <1>20 DEF CancelById, GoalsFit, Resolved
<1>21. CASE Confirm
  BY <1>21 DEF Confirm, Switch, GoalsFit, Resolved
<1>22. CASE Pause
  BY <1>22 DEF Pause, Switch, GoalsFit, Resolved
<1>23. CASE NotPaused
  BY <1>23 DEF NotPaused, Switch, GoalsFit, Resolved
<1>24. CASE ResumeAgain
  BY <1>24 DEF ResumeAgain, Switch, GoalsFit, Resolved
<1>25. CASE EndMotion
  <2>1. at' \in { "resume", "idle", "last" }
    BY <1>25, LeaveFacts DEF EndMotion, TypeOK
  <2> QED
    BY <1>25, <2>1 DEF EndMotion, GoalsFit, Resolved
<1>26. CASE Settled \/ CancelConfirmed \/ CancelUnconfirmed
  <2>1. \A g \in Goals : Resolved(g)
    <3>1. CASE Settled
      BY <3>1 DEF Settled, GoalsFit, Resolved
    <3>2. CASE CancelConfirmed
      BY <3>2 DEF CancelConfirmed, GoalsFit, Resolved
    <3>3. CASE CancelUnconfirmed
      BY <3>3 DEF CancelUnconfirmed, Return
    <3> QED
      BY <1>26, <3>1, <3>2, <3>3
  <2>2. PICK resolved \in BOOLEAN : Return(resolved)
    BY <1>26 DEF Settled, CancelConfirmed, CancelUnconfirmed
  <2>3. /\ at' \in { "idle", "last", "over", "resume" }
        /\ goal' = goal /\ server' = server
    BY <2>2, ReturnFacts
  <2>4. handle' = 0 /\ ~pending'
    <3>1. CASE Settled
      BY <3>1 DEF Settled
    <3>2. CASE CancelConfirmed
      BY <3>2 DEF CancelConfirmed
    <3>3. CASE CancelUnconfirmed
      BY <3>3 DEF CancelUnconfirmed, Return
    <3> QED
      BY <1>26, <3>1, <3>2, <3>3
  <2> QED
    BY <2>1, <2>3, <2>4 DEF GoalsFit, Resolved
<1>27. CASE UNCHANGED vars
  BY <1>27 DEF vars, GoalsFit, Resolved
<1> QED
  BY <1>1, <1>2, <1>3, <1>4, <1>5, <1>6, <1>7, <1>8, <1>9, <1>10, <1>11, <1>12, <1>13,
     <1>14, <1>15, <1>16, <1>17, <1>18, <1>19, <1>20, <1>21, <1>22, <1>23, <1>24, <1>25, <1>26, <1>27
  DEF Next, Environment, Attempt

\* As long as the base is not latched, every step keeps the monitor on, or its switch awaited.
LEMMA MonitorStep == ASSUME TypeOK, PointsFit, GoalsFit, MonitorFits, ~estop', [Next]_vars PROVE MonitorFits'
<1> USE DEF nodeVars, goalVars, monitorVars, GoTo
<1>1. ASSUME NEW g \in Goals, ServerAnswers(g) \/ AnswerArrives(g) \/ GoalEnds(g) PROVE MonitorFits'
  BY <1>1 DEF ServerAnswers, AnswerArrives, GoalEnds, MonitorFits, GivenUp
<1>2. ASSUME NEW success \in BOOLEAN, MonitorServes(success) PROVE MonitorFits'
  <2>1. CASE at \in { "confirm", "resume" }
    <3>1. heard' = "yes" => monitor' /\ switches' = << >>
      <4> SUFFICES ASSUME heard' = "yes" PROVE monitor' /\ switches' = << >>
        OBVIOUS
      <4>1. switches # << >> /\ switches' = Tail(switches) /\ switches \in Seq(BOOLEAN)
        BY <1>2 DEF MonitorServes, TypeOK
      <4>2. heard # "yes"
        BY <2>1, <4>1 DEF MonitorFits
      <4>3. Tail(switches) = << >> /\ heard = "none" /\ success
        BY <1>2, <4>2 DEF MonitorServes
      <4>4. switches[Len(switches)] = Head(switches)
        <5>1. Len(Tail(switches)) = Len(switches) - 1 /\ Len(switches) \in Nat
          BY <4>1
        <5>2. Len(Tail(switches)) = Len(<< >>) /\ Len(<< >>) = 0
          <6>1. Tail(switches) = << >>
            BY <4>1, <4>3, Zenon
          <6>2. Len(<< >>) = 0
            OBVIOUS
          <6> QED
            BY <6>1, <6>2, Zenon
        <5>3. Len(switches) = 1
          BY <5>1, <5>2
        <5> QED
          BY <5>3, <4>1
      <4>5. switches[Len(switches)]
        BY <2>1, <4>3 DEF MonitorFits
      <4>6. monitor' = Head(switches)
        BY <1>2, <4>3 DEF MonitorServes
      <4> QED
        BY <4>1, <4>3, <4>4, <4>5, <4>6
    <3>2. heard' = "none" => switches' # << >> /\ switches'[Len(switches')]
      BY <1>2, <2>1 DEF MonitorServes, MonitorFits, TypeOK
    <3>3. at = "resume" => escape
      BY DEF PointsFit
    <3> QED
      BY <1>2, <2>1, <3>1, <3>2, <3>3 DEF MonitorServes, MonitorFits, GivenUp
  <2>2. CASE at \notin { "confirm", "resume" }
    BY <1>2, <2>2 DEF MonitorServes, MonitorFits, GivenUp
  <2> QED
    BY <2>1, <2>2
<1>3. CASE RequestStop
  BY <1>3 DEF RequestStop, PointsFit, MonitorFits, GivenUp
<1>4. CASE Confirmed
  BY <1>4 DEF Confirmed, PointsFit, MonitorFits, GivenUp
<1>5. CASE Paused
  BY <1>5 DEF Paused, PointsFit, MonitorFits, GivenUp
<1>6. CASE Resumed
  BY <1>6 DEF Resumed, Onwards, PointsFit, MonitorFits, GivenUp
<1>7. CASE ResumeFails
  BY <1>7 DEF ResumeFails, Onwards, PointsFit, MonitorFits, GivenUp
<1>8. CASE Ready \/ Blocked
  BY <1>8 DEF Ready, Blocked, PointsFit, MonitorFits, GivenUp
<1>9. CASE DirectMotion
  BY <1>9 DEF DirectMotion, PointsFit, MonitorFits, GivenUp
<1>10. CASE SendGoal
  BY <1>10 DEF SendGoal, MonitorFits, GivenUp, PointsFit, TypeOK
<1>11. CASE Accepted
  BY <1>11 DEF Accepted, PointsFit, MonitorFits, GivenUp
<1>12. CASE Refused
  BY <1>12 DEF Refused, PointsFit, MonitorFits, GivenUp
<1>13. CASE WaitEnds
  BY <1>13 DEF WaitEnds, PointsFit, MonitorFits, GivenUp
<1>14. CASE FollowEnds
  BY <1>14 DEF FollowEnds, PointsFit, MonitorFits, GivenUp
<1>15. CASE RetryDeparture
  BY <1>15 DEF RetryDeparture, PointsFit, MonitorFits, GivenUp
<1>16. CASE Finish
  BY <1>16 DEF Finish, PointsFit, MonitorFits, GivenUp
<1>17. CASE LateAnswer
  BY <1>17 DEF LateAnswer, MonitorFits, GivenUp
<1>18. CASE NoAnswer
  BY <1>18 DEF NoAnswer, MonitorFits, GivenUp, PointsFit
<1>19. CASE AskToCancel
  BY <1>19 DEF AskToCancel, MonitorFits, GivenUp, GoalsFit
<1>20. CASE CancelById
  BY <1>20 DEF CancelById, PointsFit, MonitorFits, GivenUp
<1>21. CASE Confirm
  <2>1. PICK on \in BOOLEAN, point \in { "confirm", "pause", "resume" } :
          Switch(on, point) /\ (point # "pause" => on = TRUE)
    BY <1>21 DEF Confirm
  <2>2. /\ at' = point /\ heard' # "yes"
        /\ heard' = "none" => switches' # << >> /\ switches'[Len(switches')] = on
    BY <2>1, SwitchFacts DEF TypeOK
  <2>3. escape' \/ at' \in { "confirm", "pause" }
    BY <1>21 DEF Confirm, Switch, GoTo, PointsFit
  <2> QED
    BY <2>1, <2>2, <2>3 DEF MonitorFits, GivenUp
<1>22. CASE Pause
  <2>1. PICK on \in BOOLEAN, point \in { "confirm", "pause", "resume" } :
          Switch(on, point) /\ (point # "pause" => on = TRUE)
    BY <1>22 DEF Pause
  <2>2. /\ at' = point /\ heard' # "yes"
        /\ heard' = "none" => switches' # << >> /\ switches'[Len(switches')] = on
    BY <2>1, SwitchFacts DEF TypeOK
  <2>3. escape' \/ at' \in { "confirm", "pause" }
    BY <1>22 DEF Pause, Switch, GoTo, PointsFit
  <2> QED
    BY <2>1, <2>2, <2>3 DEF MonitorFits, GivenUp
<1>23. CASE NotPaused
  <2>1. PICK on \in BOOLEAN, point \in { "confirm", "pause", "resume" } :
          Switch(on, point) /\ (point # "pause" => on = TRUE)
    BY <1>23 DEF NotPaused
  <2>2. /\ at' = point /\ heard' # "yes"
        /\ heard' = "none" => switches' # << >> /\ switches'[Len(switches')] = on
    BY <2>1, SwitchFacts DEF TypeOK
  <2>3. escape' \/ at' \in { "confirm", "pause" }
    BY <1>23 DEF NotPaused, Switch, GoTo, PointsFit
  <2> QED
    BY <2>1, <2>2, <2>3 DEF MonitorFits, GivenUp
<1>24. CASE ResumeAgain
  <2>1. PICK on \in BOOLEAN, point \in { "confirm", "pause", "resume" } :
          Switch(on, point) /\ (point # "pause" => on = TRUE)
    BY <1>24 DEF ResumeAgain
  <2>2. /\ at' = point /\ heard' # "yes"
        /\ heard' = "none" => switches' # << >> /\ switches'[Len(switches')] = on
    BY <2>1, SwitchFacts DEF TypeOK
  <2>3. escape' \/ at' \in { "confirm", "pause" }
    BY <1>24 DEF ResumeAgain, Switch, GoTo, PointsFit
  <2> QED
    BY <2>1, <2>2, <2>3 DEF MonitorFits, GivenUp
<1>25. CASE EndMotion
  <2>1. PICK raise \in BOOLEAN : Leave(raise)
    BY <1>25 DEF EndMotion
  <2>2. /\ monitor' = monitor /\ escape' = escape /\ goal' = goal /\ final' = final
        /\ escape => /\ at' = "resume" /\ heard' # "yes"
                     /\ heard' = "none" => switches' # << >> /\ switches'[Len(switches')]
        /\ ~escape => at' \in { "idle", "last" } /\ switches' = switches
    BY <1>25, <2>1, LeaveFacts DEF EndMotion
  <2>3. ~escape => monitor /\ switches = << >>
    BY <1>25 DEF EndMotion, MonitorFits, GivenUp
  <2> QED
    BY <2>2, <2>3 DEF MonitorFits, GivenUp
<1>26. CASE Settled \/ CancelConfirmed \/ CancelUnconfirmed
  <2>1. PICK resolved \in BOOLEAN : Return(resolved)
    BY <1>26 DEF Settled, CancelConfirmed, CancelUnconfirmed
  <2>2. /\ monitor' = monitor /\ escape' = escape /\ goal' = goal /\ final' = final
        /\ final => at' = "over" /\ switches' = switches
        /\ ~final /\ escape => /\ at' = "resume" /\ heard' # "yes"
                               /\ heard' = "none" => switches' # << >> /\ switches'[Len(switches')]
        /\ ~final /\ ~escape => at' \in { "idle", "last" } /\ switches' = switches
    BY <2>1, ReturnFacts
  <2>3. at \in { "settle", "ask", "byId" }
    BY <1>26 DEF Settled, CancelConfirmed, CancelUnconfirmed
  <2>4. ~escape => (monitor /\ switches = << >>) \/ (final /\ goal = 0)
    BY <2>3 DEF MonitorFits, GivenUp
  <2> QED
    BY <2>2, <2>4 DEF MonitorFits, GivenUp, PointsFit
<1>27. CASE UNCHANGED vars
  BY <1>27 DEF vars, PointsFit, MonitorFits, GivenUp
<1> QED
  BY <1>1, <1>2, <1>3, <1>4, <1>5, <1>6, <1>7, <1>8, <1>9, <1>10, <1>11, <1>12, <1>13,
     <1>14, <1>15, <1>16, <1>17, <1>18, <1>19, <1>20, <1>21, <1>22, <1>23, <1>24, <1>25, <1>26, <1>27
  DEF Next, Environment, Attempt

\* Every step keeps it: the latch, once engaged, takes the claims about goals and monitor back.
LEMMA MotionInvStep == ASSUME MotionInv, [Next]_vars PROVE MotionInv'
<1>1. TypeOK' /\ PointsFit' /\ AnswersFit'
  BY TypeStep, PointsStep, AnswersStep DEF MotionInv
<1>2. ASSUME ~estop' PROVE GoalsFit' /\ MonitorFits'
  <2>1. ~estop
    BY <1>2, LatchStays DEF MotionInv
  <2> QED
    BY <1>2, <2>1, GoalsStep, MonitorStep DEF MotionInv
<1> QED
  BY <1>1, <1>2 DEF MotionInv

\* So it holds in every reachable state.
LEMMA MotionInvariant == Spec => []MotionInv
BY MotionInvInit, MotionInvStep, PTL DEF Spec

------------------------------------------------------------------------------
\* run_attempt() and its helpers: every field keeps its type.
THEOREM MotionTypeCorrect == Spec => []TypeOK
<1>1. MotionInv => TypeOK
  BY DEF MotionInv
<1> QED
  BY <1>1, MotionInvariant, PTL

\* For any number of goals and of retries: without the Collision Monitor the vehicle moves
\* only in an escape, or the emergency stop is requested (_pause_collision_monitor(),
\* _resume_collision_monitor(), _confirm_collision_monitor_on()).
THEOREM MotionGuarded == Spec => []GuardedMotion
<1>1. ASSUME MotionInv PROVE GuardedMotion
  <2> SUFFICES ASSUME ~monitor, ~escape, ~estop
               PROVE  at # "direct" /\ \A g \in Goals : server[g] # "live"
    BY DEF GuardedMotion
  <2>1. at \in { "start", "confirm", "pause" } \/ GivenUp
    BY <1>1 DEF MotionInv, MonitorFits
  <2>2. CASE at \in { "start", "confirm", "pause" } \/ at \in { "last", "over" }
    BY <1>1, <2>2 DEF MotionInv, GoalsFit, Resolved
  <2>3. CASE GivenUp
    <3>1. \A g \in Goals : g > goal
      BY <2>3 DEF GivenUp, Goals
    <3> QED
      BY <1>1, <2>3, <3>1 DEF MotionInv, AnswersFit, GivenUp
  <2> QED
    BY <2>1, <2>2, <2>3
<1> QED
  BY <1>1, MotionInvariant, PTL

\* An attempt that is over has requested the emergency stop, or leaves no goal that could
\* move the vehicle and the monitor on to stay (run_attempt(), finish_navigation()).
THEOREM MotionLeftSafe == Spec => []LeftSafe
<1>1. ASSUME MotionInv PROVE LeftSafe
  <2> SUFFICES ASSUME at = "over", ~estop
               PROVE  /\ \A g \in Goals : Resolved(g)
                      /\ goal > 0 => monitor /\ FALSE \notin { switches[i] : i \in 1..Len(switches) }
    BY DEF LeftSafe
  <2>1. \A g \in Goals : Resolved(g)
    BY <1>1 DEF MotionInv, GoalsFit
  <2>2. ASSUME goal > 0 PROVE monitor /\ switches = << >>
    BY <1>1, <2>2 DEF MotionInv, MonitorFits, PointsFit, GivenUp, TypeOK
  <2>3. ASSUME goal > 0 PROVE FALSE \notin { switches[i] : i \in 1..Len(switches) }
    <3>1. Len(switches) = 0
      BY <2>2, <2>3
    <3> QED
      BY <3>1
  <2> QED
    BY <2>1, <2>2, <2>3
<1> QED
  BY <1>1, MotionInvariant, PTL

\* What holds of the goals after the first also when the base is latched.  Those between the
\* first and the last are resolved; so is the last one once finish_navigation() has returned,
\* or an exception takes the attempt to its end.
EarlierFit == \A g \in Goals : g > 1 /\ g # goal => Resolved(g)
LastFit ==
  goal > 1 /\ ~final =>
    /\ at \in { "start", "confirm", "idle", "blocked", "pause", "paused", "direct", "ready" } =>
         Resolved(goal)
    /\ at = "resume" /\ ~raised => Resolved(goal)
    /\ at \in { "wait", "byId" } => pending
    /\ at = "active" => ~pending /\ handle = goal
    /\ at = "ask" \/ (at = "settle" /\ ~pending) => handle = goal \/ Resolved(goal)
LaterFit == EarlierFit /\ LastFit

\* A resolved goal stays resolved.
LEMMA ResolvedStays ==
  ASSUME TypeOK, [Next]_vars, ~SendGoal, NEW g \in Goals, Resolved(g) PROVE Resolved(g)'
<1>1. CASE \E h \in Goals : ServerAnswers(h) \/ GoalEnds(h)
  BY <1>1 DEF ServerAnswers, GoalEnds, TypeOK, Resolved
<1>2. CASE ~(\E h \in Goals : ServerAnswers(h) \/ GoalEnds(h))
  <2>1. server' = server
    BY <1>2 DEF Next, Environment, Attempt, AnswerArrives, MonitorServes, RequestStop, Confirm,
      Confirmed, Blocked, Pause, Paused, NotPaused, Resumed, ResumeAgain, ResumeFails, Ready,
      DirectMotion, EndMotion, Accepted, Refused, WaitEnds, FollowEnds, RetryDeparture, Finish,
      LateAnswer, NoAnswer, Settled, AskToCancel, CancelById, CancelConfirmed, CancelUnconfirmed,
      Return, goalVars, vars
  <2> QED
    BY <2>1 DEF Resolved
<1> QED
  BY <1>1, <1>2

LEMMA EarlierStep ==
  ASSUME TypeOK, PointsFit, EarlierFit, LastFit, [Next]_vars PROVE EarlierFit'
<1>1. CASE SendGoal
  <2>1. /\ goal \in 0..Last /\ goal + 1 \in Goals /\ goal' = goal + 1 /\ at = "ready" /\ ~final
        /\ server' = [server EXCEPT ![goal + 1] = "sent"]
    BY <1>1, MotionAssumption DEF SendGoal, PointsFit, TypeOK, Goals
  <2>2. ASSUME NEW g \in Goals, g > 1, g # goal + 1 PROVE Resolved(g)'
    <3>1. Resolved(g)
      BY <2>1, <2>2 DEF EarlierFit, LastFit
    <3> QED
      BY <2>1, <2>2, <3>1 DEF Resolved, TypeOK
  <2> QED
    BY <2>1, <2>2 DEF EarlierFit
<1>2. CASE ~SendGoal
  <2>1. goal' = goal
    BY <1>2 DEF Next, Environment, Attempt, ServerAnswers, AnswerArrives, GoalEnds,
      MonitorServes, RequestStop, Confirm, Confirmed, Blocked, Pause, Paused, NotPaused, Resumed,
      ResumeAgain, ResumeFails, Ready, DirectMotion, EndMotion, Accepted, Refused, WaitEnds,
      FollowEnds, RetryDeparture, Finish, LateAnswer, NoAnswer, Settled, AskToCancel, CancelById,
      CancelConfirmed, CancelUnconfirmed, Return, nodeVars, vars
  <2> QED
    BY <1>2, <2>1, ResolvedStays DEF EarlierFit
<1> QED
  BY <1>1, <1>2

LEMMA LastStep ==
  ASSUME TypeOK, PointsFit, AnswersFit, LastFit, [Next]_vars PROVE LastFit'
<1> USE DEF GoTo, nodeVars, goalVars
<1>1. CASE SendGoal
  BY <1>1 DEF SendGoal, LastFit
<1>2. CASE ~SendGoal /\ goal > 1
  <2>1. goal \in Goals /\ (Resolved(goal) => server'[goal] \in { "none", "ended", "refused" })
    <3>1. goal \in Goals
      BY <1>2 DEF Goals, TypeOK
    <3> QED
      BY <3>1, <1>2, ResolvedStays DEF Resolved
  <2>2. CASE Environment
    <3>1. UNCHANGED <<at, goal, pending, handle, raised, final>>
      BY <2>2 DEF Environment, ServerAnswers, AnswerArrives, GoalEnds, MonitorServes, RequestStop
    <3> QED
      BY <2>1, <3>1 DEF LastFit, Resolved
  <2>3. CASE Confirm \/ Confirmed \/ Blocked \/ Pause \/ Paused \/ NotPaused \/ Resumed
             \/ ResumeAgain \/ ResumeFails
    BY <2>1, <2>3 DEF Confirm, Confirmed, Blocked, Pause, Paused, NotPaused, Resumed, ResumeAgain,
      ResumeFails, Switch, Onwards, LastFit, Resolved
  <2>4. CASE Ready \/ DirectMotion \/ FollowEnds \/ WaitEnds \/ RetryDeparture \/ Finish
             \/ NoAnswer \/ AskToCancel \/ Accepted
    BY <1>2, <2>1, <2>4 DEF Ready, DirectMotion, FollowEnds, WaitEnds, RetryDeparture, Finish,
      NoAnswer, AskToCancel, Accepted, LastFit, Resolved
  <2>5. CASE CancelById
    BY <2>1, <2>5 DEF CancelById, LastFit, Resolved
  <2>6. CASE Refused \/ LateAnswer
    <3>1. answer[goal] = "refused" => Resolved(goal)
      BY <2>1 DEF AnswersFit, Resolved
    <3>2. answer[goal] \in { "none", "accepted", "refused" } /\ UNCHANGED <<goal, server>>
      BY <2>1, <2>6 DEF Refused, LateAnswer, TypeOK
    <3> QED
      BY <2>1, <2>6, <3>1, <3>2 DEF Refused, LateAnswer, LastFit, Resolved
  <2>7. CASE EndMotion
    <3>1. PICK raise \in BOOLEAN : Leave(raise)
      BY <2>7 DEF EndMotion
    <3>2. at' \in { "resume", "idle", "last" } /\ UNCHANGED <<goal, final>>
      BY <2>7, <3>1, LeaveFacts DEF EndMotion, TypeOK
    <3> QED
      BY <2>1, <2>7, <3>2 DEF EndMotion, LastFit, Resolved
  <2>8. CASE Settled \/ CancelConfirmed
    <3>0. goal # 0 /\ (server[goal] = "ended" => Resolved(goal))
      BY <2>1 DEF Goals, Resolved
    <3>1. Return(TRUE) /\ (~final => Resolved(goal))
      <4>1. Return(TRUE)
        BY <2>8 DEF Settled, CancelConfirmed
      <4>2. CASE Settled
        BY <1>2, <3>0, <4>1, <4>2 DEF Settled, LastFit
      <4>3. CASE CancelConfirmed
        BY <1>2, <3>0, <4>1, <4>3 DEF CancelConfirmed, LastFit
      <4> QED
        BY <2>8, <4>2, <4>3
    <3>2. at' \in { "idle", "last", "over", "resume" } /\ UNCHANGED <<goal, final>>
      BY <3>1, ReturnFacts
    <3> QED
      BY <2>1, <3>1, <3>2 DEF LastFit, Resolved
  <2>9. CASE CancelUnconfirmed
    <3>1. Return(FALSE)
      BY <2>9 DEF CancelUnconfirmed
    <3>2. UNCHANGED <<goal, final>>
      BY <3>1, ReturnFacts
    <3>3. ~final => at' \in { "last", "resume" } /\ raised'
      BY <3>1 DEF Return, Leave, Switch, Onwards
    <3> QED
      BY <3>2, <3>3 DEF LastFit
  <2>10. CASE UNCHANGED vars
    BY <2>10 DEF vars, LastFit, Resolved
  <2> QED
    BY <1>2, <2>2, <2>3, <2>4, <2>5, <2>6, <2>7, <2>8, <2>9, <2>10 DEF Next, Attempt
<1>3. CASE ~SendGoal /\ ~(goal > 1)
  <2>1. goal' = goal
    BY <1>3 DEF Next, Environment, Attempt, ServerAnswers, AnswerArrives, GoalEnds,
      MonitorServes, RequestStop, Confirm, Confirmed, Blocked, Pause, Paused, NotPaused, Resumed,
      ResumeAgain, ResumeFails, Ready, DirectMotion, EndMotion, Accepted, Refused, WaitEnds,
      FollowEnds, RetryDeparture, Finish, LateAnswer, NoAnswer, Settled, AskToCancel, CancelById,
      CancelConfirmed, CancelUnconfirmed, Return, vars
  <2> QED
    BY <1>3, <2>1 DEF LastFit
<1> QED
  BY <1>1, <1>2, <1>3

\* A goal is sent only when all the earlier ones are resolved, also those whose acceptance
\* was lost or late (finish_navigation()); except beside the dock departure's goal, the first
\* one, with the emergency stop requested.
THEOREM OneGoalOnly == Spec => OneGoalAtATime
<1> DEFINE A == goal' # goal => \A g \in Goals : Resolved(g) \/ (g = 1 /\ estop)
           I == MotionInv /\ LaterFit
<1>1. ASSUME I, [Next]_vars PROVE [A]_vars
  <2>1. CASE SendGoal
    <3>1. at = "ready" /\ ~final /\ goal \in 0..Last
      BY <1>1, <2>1 DEF SendGoal, MotionInv, TypeOK, PointsFit
    <3>2. ASSUME NEW g \in Goals PROVE Resolved(g) \/ (g = 1 /\ estop)
      <4>1. CASE ~estop
        BY <1>1, <3>1, <4>1 DEF MotionInv, GoalsFit
      <4>2. CASE g > 1
        BY <1>1, <3>1, <4>2 DEF LaterFit, EarlierFit, LastFit
      <4> QED
        BY <4>1, <4>2 DEF Goals
    <3> QED
      BY <3>2
  <2>2. CASE ~SendGoal
    <3>1. goal' = goal
      BY <1>1, <2>2 DEF Next, Environment, Attempt, ServerAnswers, AnswerArrives, GoalEnds,
        MonitorServes, RequestStop, Confirm, Confirmed, Blocked, Pause, Paused, NotPaused, Resumed,
        ResumeAgain, ResumeFails, Ready, DirectMotion, EndMotion, Accepted, Refused, WaitEnds,
        FollowEnds, RetryDeparture, Finish, LateAnswer, NoAnswer, Settled, AskToCancel, CancelById,
        CancelConfirmed, CancelUnconfirmed, Return, nodeVars, vars
    <3> QED
      BY <3>1
  <2> QED
    BY <2>1, <2>2
<1>2. [][A]_vars <=> OneGoalAtATime
  BY PTL DEF OneGoalAtATime
<1>3. Init => LaterFit
  BY DEF Init, LaterFit, EarlierFit, LastFit, Resolved
<1>4. MotionInv /\ LaterFit /\ [Next]_vars => LaterFit'
  BY EarlierStep, LastStep DEF MotionInv, LaterFit
<1>5. Spec => []I
  BY <1>3, <1>4, MotionInvariant, PTL DEF Spec
<1> QED
  BY <1>1, <1>2, <1>5, PTL DEF Spec

------------------------------------------------------------------------------
(* What comes to pass *)

\* Weak fairness of the attempt's thread, with its guard for ENABLED, of which the prover
\* knows nothing: the thread has a step everywhere but at its end.
ThreadRuns == []<>(at = "over") \/ []<><<Attempt>>_vars

\* The steps the thread takes at most once a stop is requested, with three requests to the
\* monitor: no new motion begins, and the last call of finish_navigation() ends it.
Finishing == IF final THEN 0 ELSE 7
StepsLeft ==
  CASE at = "over"  -> 0
    [] at = "ask"   -> Finishing + 1
    [] at = "byId"  -> Finishing + (IF goal \in cancelled THEN 1 ELSE 2)
    [] at = "settle" -> Finishing + (IF pending THEN 3 ELSE 2)
    [] at \in { "idle", "last" } -> 4
    [] at = "confirm" -> 5
    [] at = "start"   -> 6
    [] at = "resume"  -> 5 + tries
    [] at \in { "direct", "paused" } -> 8
    [] at = "pause"  -> 9
    [] at = "blocked" -> 10
    [] at = "active" -> 11
    [] at = "wait"   -> 12
    [] at = "ready"  -> 13

LEMMA StepsLeftType ==
  ASSUME TypeOK, Attempts <= 3
  PROVE  StepsLeft \in 0..13 /\ (StepsLeft = 0 <=> at = "over")
<1>1. tries \in 0..3 /\ Finishing \in { 0, 7 }
  BY MotionAssumption DEF TypeOK, Finishing
<1>2. at \in Points
  BY DEF TypeOK
<1> QED
  BY <1>1, <1>2 DEF StepsLeft, Points

LEMMA StepsLeftTypeNext == ASSUME TypeOK', Attempts <= 3 PROVE StepsLeft' \in 0..13
<1>1. tries' \in 0..3 /\ Finishing' \in { 0, 7 } /\ at' \in Points
  BY MotionAssumption DEF TypeOK, Finishing
<1> QED
  BY <1>1 DEF StepsLeft, Points

\* Nav2, the monitor and the operator leave the thread where it is.
LEMMA OthersWait ==
  ASSUME Environment PROVE UNCHANGED StepsLeft
<1>1. UNCHANGED <<at, goal, pending, final, tries, cancelled>>
  BY DEF Environment, ServerAnswers, AnswerArrives, GoalEnds, MonitorServes, RequestStop,
     nodeVars, goalVars
<1> QED
  BY <1>1 DEF StepsLeft, Finishing

\* A stop stays requested.
LEMMA StopStays == ASSUME stop, [Next]_vars PROVE stop'
BY DEF Next, Environment, Attempt, ServerAnswers, AnswerArrives, GoalEnds, MonitorServes,
  RequestStop, Confirm, Confirmed, Blocked, Pause, Paused, NotPaused, Resumed, ResumeAgain, ResumeFails,
  Ready, DirectMotion, EndMotion, SendGoal, Accepted, Refused, WaitEnds, FollowEnds, RetryDeparture,
  Finish, LateAnswer, NoAnswer, Settled, AskToCancel, CancelById, CancelConfirmed,
  CancelUnconfirmed, Return, nodeVars, vars

\* A motion that is over leaves seven steps.
LEMMA LeaveCounts ==
  ASSUME TypeOK, Attempts <= 3, NEW raise \in BOOLEAN, Leave(raise), escape' = escape
  PROVE  at' \in { "resume", "idle", "last" } /\ StepsLeft' <= 7
<1>1. at' \in { "resume", "idle", "last" } /\ (at' = "resume" => tries' = Attempts - 1)
  <2>1. CASE escape
    BY <2>1 DEF Leave, Switch, GoTo
  <2>2. CASE ~escape
    BY <2>2 DEF Leave, Onwards, GoTo
  <2> QED
    BY <2>1, <2>2
<1> QED
  BY <1>1, MotionAssumption DEF StepsLeft

\* So does finish_navigation() when it returns; its last call leaves none.
LEMMA ReturnCounts ==
  ASSUME TypeOK, Attempts <= 3, NEW resolved \in BOOLEAN, Return(resolved)
  PROVE  StepsLeft' <= Finishing
<1>1. CASE final
  BY <1>1 DEF Return, GoTo, StepsLeft, Finishing
<1>2. CASE ~final
  <2>1. (raised \/ ~resolved) \in BOOLEAN /\ Leave(raised \/ ~resolved) /\ escape' = escape
    BY <1>2 DEF Return, TypeOK
  <2> QED
    BY <1>2, <2>1, LeaveCounts DEF Finishing
<1> QED
  BY <1>1, <1>2

LEMMA ReturnGoes ==
  ASSUME NEW resolved, Return(resolved) PROVE at' \in { "over", "resume", "idle", "last" }
<1>1. CASE final
  BY <1>1 DEF Return, GoTo
<1>2. CASE ~final /\ escape
  BY <1>2 DEF Return, Leave, Switch, GoTo
<1>3. CASE ~final /\ ~escape
  BY <1>3 DEF Return, Leave, Onwards, GoTo
<1> QED
  BY <1>1, <1>2, <1>3

\* Every step of the thread is one of them.
LEMMA StepCounts ==
  ASSUME TypeOK, PointsFit, stop, Attempts <= 3, Attempt
  PROVE  StepsLeft' < StepsLeft
<1> USE MotionAssumption DEF GoTo
<1>a. tries \in 0..3 /\ pending \in BOOLEAN /\ final \in BOOLEAN
  BY DEF TypeOK
<1>1. CASE Confirm
  BY <1>1 DEF Confirm, Switch, StepsLeft
<1>2. CASE Confirmed
  BY <1>2 DEF Confirmed, StepsLeft
<1>3. CASE Paused
  BY <1>3 DEF Paused, StepsLeft
<1>4. CASE NotPaused
  BY <1>4 DEF NotPaused, Switch, StepsLeft
<1>5. CASE Resumed
  BY <1>5, <1>a DEF Resumed, Onwards, StepsLeft
<1>6. CASE ResumeAgain
  BY <1>6, <1>a DEF ResumeAgain, Switch, StepsLeft
<1>7. CASE ResumeFails
  BY <1>7, <1>a DEF ResumeFails, Onwards, StepsLeft
<1>8. CASE Blocked \/ Ready \/ DirectMotion \/ RetryDeparture
  BY <1>8 DEF Blocked, Ready, DirectMotion, RetryDeparture
<1>20. CASE Pause
  BY <1>20 DEF Pause, Switch, StepsLeft
<1>9. CASE EndMotion
  <2>1. PICK raise \in BOOLEAN : Leave(raise)
    BY <1>9 DEF EndMotion
  <2>2. at' \in { "resume", "idle", "last" } /\ StepsLeft' <= 7
    BY <1>9, <2>1, LeaveCounts DEF EndMotion
  <2>3. tries' \in Nat
    BY <2>1, LeaveFacts
  <2>4. StepsLeft' \in Nat
    BY <2>2, <2>3 DEF StepsLeft
  <2>5. StepsLeft = 8
    BY <1>9 DEF EndMotion, StepsLeft
  <2> QED
    BY <2>2, <2>4, <2>5
<1>10. CASE SendGoal
  BY <1>10 DEF SendGoal, StepsLeft
<1>11. CASE Accepted
  BY <1>11 DEF Accepted, StepsLeft
<1>12. CASE Refused \/ WaitEnds
  <2>1. at = "wait" /\ at' = "settle" /\ final' = FALSE /\ pending' \in BOOLEAN
    BY <1>12, <1>a DEF Refused, WaitEnds, PointsFit
  <2>2. StepsLeft = 12
    BY <2>1 DEF StepsLeft
  <2>3. Finishing' = 7
    BY <2>1 DEF Finishing
  <2>4. StepsLeft' \in { 9, 10 }
    BY <2>1, <2>3 DEF StepsLeft
  <2> QED
    BY <2>2, <2>4
<1>13. CASE FollowEnds
  BY <1>13, <1>a DEF FollowEnds, StepsLeft, Finishing
<1>14. CASE Finish
  BY <1>14, <1>a DEF Finish, StepsLeft, Finishing
<1>15. CASE LateAnswer
  BY <1>15, <1>a DEF LateAnswer, StepsLeft, Finishing
<1>16. CASE NoAnswer
  BY <1>16, <1>a DEF NoAnswer, StepsLeft, Finishing
<1>17. CASE AskToCancel
  BY <1>17, <1>a DEF AskToCancel, StepsLeft, Finishing
<1>18. CASE CancelById
  BY <1>18, <1>a DEF CancelById, StepsLeft, Finishing, nodeVars
<1>19. CASE Settled \/ CancelConfirmed \/ CancelUnconfirmed
  <2>1. PICK resolved \in BOOLEAN : Return(resolved)
    BY <1>19 DEF Settled, CancelConfirmed, CancelUnconfirmed
  <2>2. StepsLeft' <= Finishing
    BY <2>1, ReturnCounts
  <2>3. StepsLeft' \in Nat
    <3>1. at' \in { "over", "resume", "idle", "last" }
      BY <2>1, ReturnGoes
    <3>2. tries' \in 0..Attempts
      BY <2>1, ReturnFacts
    <3> QED
      BY <3>1, <3>2 DEF StepsLeft
  <2>4. at \in { "settle", "ask", "byId" } /\ Finishing \in { 0, 7 }
    BY <1>19, <1>a DEF Settled, CancelConfirmed, CancelUnconfirmed, Finishing
  <2>5. StepsLeft \in { Finishing + 1, Finishing + 2, Finishing + 3 }
    BY <2>4 DEF StepsLeft
  <2> QED
    BY <2>2, <2>3, <2>4, <2>5
<1> QED
  BY <1>1, <1>2, <1>3, <1>4, <1>5, <1>6, <1>7, <1>8, <1>9, <1>10, <1>11, <1>12, <1>13,
     <1>14, <1>15, <1>16, <1>17, <1>18, <1>19, <1>20
  DEF Attempt

\* The thread comes nearer to its end.
Nearer(k, j) == (stop /\ StepsLeft <= k) ~> (stop /\ StepsLeft <= j)

LEMMA OneStepNearer ==
  ASSUME Attempts <= 3, NEW k \in 1..13, NEW j \in 0..12, k = j + 1
  PROVE  Spec /\ ThreadRuns => Nearer(k, j)
<1> DEFINE A == stop /\ StepsLeft <= k
           B == stop /\ StepsLeft <= j
           O == at = "over"
<1>1. ASSUME MotionInv, MotionInv', [Next]_vars, A PROVE A'
  <2>1. stop' /\ StepsLeft \in 0..13 /\ StepsLeft' \in 0..13
    <3>1. TypeOK /\ TypeOK'
      BY <1>1 DEF MotionInv
    <3>2. StepsLeft \in 0..13 /\ StepsLeft' \in 0..13
      BY <3>1, StepsLeftType, StepsLeftTypeNext
    <3> QED
      BY <1>1, <3>2, StopStays
  <2>2. StepsLeft' <= StepsLeft
    <3>1. CASE Attempt
      BY <1>1, <2>1, <3>1, StepCounts DEF MotionInv
    <3>2. CASE Environment
      BY <2>1, <3>2, OthersWait
    <3>3. CASE UNCHANGED vars
      <4>1. UNCHANGED StepsLeft
        BY <3>3 DEF vars, nodeVars, goalVars, StepsLeft, Finishing
      <4> QED
        BY <2>1, <4>1
    <3> QED
      BY <1>1, <3>1, <3>2, <3>3 DEF Next
  <2> QED
    BY <1>1, <2>1, <2>2
<1>2. ASSUME MotionInv, MotionInv', <<Attempt>>_vars, A PROVE B'
  <2>1. StepsLeft \in 0..13 /\ StepsLeft' \in 0..13
    BY <1>2, StepsLeftType, StepsLeftTypeNext DEF MotionInv
  <2>2. StepsLeft' < StepsLeft
    BY <1>2, StepCounts DEF MotionInv
  <2>3. stop'
    BY <1>2, StopStays DEF Next
  <2> QED
    BY <1>2, <2>1, <2>2, <2>3
<1>3. MotionInv /\ A /\ O => B
  BY StepsLeftType DEF MotionInv
<1>4. at = "over" <=> O
  OBVIOUS
<1> HIDE DEF A, B, O
<1>5. Spec /\ ThreadRuns => (A ~> B)
  BY <1>1, <1>2, <1>3, <1>4, MotionInvariant, PTL DEF Spec, ThreadRuns
<1> QED
  BY <1>5, PTL DEF A, B, Nearer

\* A stop ends the attempt within thirteen steps of its thread, and every motion of it, for
\* any number of goals and up to three requests to the monitor, as in the code
\* (request_stop(), finish_navigation(), _resume_collision_monitor()).
THEOREM StopEnds == Attempts <= 3 /\ Spec /\ ThreadRuns => StopEndsMotion
<1> SUFFICES ASSUME Attempts <= 3 PROVE Spec /\ ThreadRuns => StopEndsMotion
  OBVIOUS
<1>1. Spec /\ ThreadRuns
        => /\ Nearer(13, 12) /\ Nearer(12, 11) /\ Nearer(11, 10) /\ Nearer(10, 9)
           /\ Nearer(9, 8) /\ Nearer(8, 7) /\ Nearer(7, 6) /\ Nearer(6, 5)
           /\ Nearer(5, 4) /\ Nearer(4, 3) /\ Nearer(3, 2) /\ Nearer(2, 1) /\ Nearer(1, 0)
  <2>1. \A k \in 1..13, j \in 0..12 : k = j + 1 => (Spec /\ ThreadRuns => Nearer(k, j))
    BY OneStepNearer
  <2> QED
    BY <2>1
<1>2. TypeOK /\ stop => StepsLeft <= 13
  BY StepsLeftType
<1>3. TypeOK /\ LeftSafe /\ StepsLeft <= 0
        => at = "over" /\ (estop \/ \A g \in Goals : Resolved(g))
  <2> SUFFICES ASSUME TypeOK, LeftSafe, StepsLeft <= 0 PROVE at = "over"
    BY DEF LeftSafe
  <2> QED
    BY StepsLeftType
<1> QED
  BY <1>1, <1>2, <1>3, MotionTypeCorrect, MotionLeftSafe, PTL DEF Nearer, StopEndsMotion

=============================================================================
