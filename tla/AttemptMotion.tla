----------------------------- MODULE AttemptMotion -----------------------------
(***************************************************************************)
(* How one attempt of the restaurant service moves the vehicle             *)
(* (restaurant_service.py): one navigation goal after the other, sent to   *)
(* Nav2's action servers, resolved by finish_navigation() before the next, *)
(* short direct motions, and escapes during which the Collision Monitor is *)
(* switched off.                                                           *)
(*                                                                         *)
(* The request of a goal may arrive late or never, and so may its answer;  *)
(* a switch of the monitor may be answered too late.  The servers and the  *)
(* monitor are external.  An attempt is the sequence of these operations   *)
(* in any order; what the goals are for is left out.                       *)
(***************************************************************************)
EXTENDS Naturals, Sequences

CONSTANTS
  Last,      \* goals an attempt sends at most
  Attempts   \* _resume_collision_monitor() asks this often

ASSUME MotionAssumption == Last \in Nat \ {0} /\ Attempts \in Nat \ {0}

Goals == 1..Last

VARIABLES
  at,        \* where the attempt's thread is
  goal,      \* the number of the last goal sent
  pending,   \* pending_goal: its acceptance is not known
  handle,    \* active_handle: the goal that is accepted and not known to have ended, or 0
  escape,    \* the monitor is to be switched on after this motion
  raised,    \* an exception is on its way to run_attempt()
  final,     \* finish_navigation() runs in run_attempt()
  tries,     \* requests left to switch the monitor on
  heard,     \* the answer to the switch that is awaited: "none", "yes", "no"
  stop,      \* stop_requested
  estop,     \* engage_emergency_stop() has been called
  server,    \* per goal: "none", "sent", "live", "ended", "refused"
  answer,    \* per goal: the acceptance as it has arrived here, "none" before
  cancelled, \* goals a cancellation of which has been sent
  switches,  \* switches of the monitor under way, in order
  monitor    \* the Collision Monitor is on

nodeVars == <<at, goal, pending, handle, escape, raised, final, tries, heard, stop, estop>>
goalVars == <<server, answer, cancelled>>
monitorVars == <<switches, monitor>>
vars == <<nodeVars, goalVars, monitorVars>>

Points == { "start", "confirm", "idle", "blocked", "pause", "paused", "resume", "direct", "ready",
            "wait", "active", "last", "settle", "ask", "byId", "over" }

TypeOK ==
  /\ at \in Points /\ goal \in 0..Last
  /\ pending \in BOOLEAN /\ handle \in 0..Last /\ escape \in BOOLEAN
  /\ raised \in BOOLEAN /\ final \in BOOLEAN
  /\ tries \in 0..Attempts /\ heard \in { "none", "yes", "no" }
  /\ stop \in BOOLEAN /\ estop \in BOOLEAN
  /\ server \in [Goals -> { "none", "sent", "live", "ended", "refused" }]
  /\ answer \in [Goals -> { "none", "accepted", "refused" }]
  /\ cancelled \in SUBSET Goals
  /\ switches \in Seq(BOOLEAN) /\ monitor \in BOOLEAN

\* A process that died before may have left the monitor off.
Init ==
  /\ at = "start" /\ goal = 0 /\ pending = FALSE /\ handle = 0
  /\ escape = FALSE /\ raised = FALSE /\ final = FALSE
  /\ tries = 0 /\ heard = "none" /\ stop = FALSE /\ estop = FALSE
  /\ server = [g \in Goals |-> "none"] /\ answer = [g \in Goals |-> "none"]
  /\ cancelled = {} /\ switches = << >> /\ monitor \in BOOLEAN

GoTo(point) == at' = point

------------------------------------------------------------------------------
(* Surroundings: Nav2, the monitor, the operator *)

ServerAnswers(g) ==
  /\ server[g] = "sent"
  /\ \E s \in { "live", "refused" } : server' = [server EXCEPT ![g] = s]
  /\ UNCHANGED <<nodeVars, answer, cancelled, monitorVars>>

AnswerArrives(g) ==
  /\ answer[g] = "none" /\ server[g] \notin { "none", "sent" }
  /\ answer' = [answer EXCEPT ![g] = IF server[g] = "refused" THEN "refused" ELSE "accepted"]
  /\ UNCHANGED <<nodeVars, server, cancelled, monitorVars>>

\* Reached, aborted or canceled.
GoalEnds(g) ==
  /\ server[g] = "live"
  /\ server' = [server EXCEPT ![g] = "ended"]
  /\ UNCHANGED <<nodeVars, answer, cancelled, monitorVars>>

\* One client's requests are served in their order; an answer counts while it is awaited.
MonitorServes(success) ==
  /\ switches # << >>
  /\ switches' = Tail(switches)
  /\ monitor' = IF success THEN Head(switches) ELSE monitor
  /\ heard' = IF Tail(switches) = << >> /\ heard = "none" /\ at \in { "confirm", "pause", "resume" }
              THEN (IF success THEN "yes" ELSE "no") ELSE heard
  /\ UNCHANGED <<at, goal, pending, handle, escape, raised, final, tries, stop, estop, goalVars>>

\* request_stop(): SIGINT, SIGTERM, the end of the task time.
RequestStop ==
  /\ ~stop
  /\ stop' = TRUE
  /\ UNCHANGED <<at, goal, pending, handle, escape, raised, final, tries, heard, estop,
                 goalVars, monitorVars>>

------------------------------------------------------------------------------
(* The switches of the monitor *)

\* _set_collision_monitor(): the service may be absent, then nothing is sent.
Switch(on, point) ==
  /\ \/ switches' = Append(switches, on) /\ heard' = "none"
     \/ switches' = switches /\ heard' = "no"
  /\ GoTo(point)
  /\ UNCHANGED monitor

\* _confirm_collision_monitor_on(), of verify_live_maps().
Confirm ==
  /\ at = "start"
  /\ Switch(TRUE, "confirm")
  /\ UNCHANGED <<goal, pending, handle, escape, raised, final, tries, stop, estop, goalVars>>

\* Answered, or not within 2 s: then the attempt is given up.
Confirmed ==
  /\ at = "confirm"
  /\ IF heard = "yes" THEN GoTo("idle") /\ UNCHANGED raised
     ELSE GoTo("last") /\ raised' = TRUE
  /\ UNCHANGED <<goal, pending, handle, escape, final, tries, heard, stop, estop, goalVars, monitorVars>>

\* Something touches the base, or is in its way; a stop may come before the pause.
Blocked ==
  /\ at = "idle" /\ ~stop
  /\ GoTo("blocked")
  /\ UNCHANGED <<goal, pending, handle, escape, raised, final, tries, heard, stop, estop,
                 goalVars, monitorVars>>

\* _pause_collision_monitor()
Pause ==
  /\ at = "blocked"
  /\ Switch(FALSE, "pause")
  /\ UNCHANGED <<goal, pending, handle, escape, raised, final, tries, stop, estop, goalVars>>

Paused ==
  /\ at = "pause" /\ heard = "yes"
  /\ GoTo("paused")
  /\ escape' = TRUE
  /\ UNCHANGED <<goal, pending, handle, raised, final, tries, heard, stop, estop, goalVars, monitorVars>>

\* Mutant: a pause that was not confirmed is taken for one that failed.
NotPausedForgotten ==
  /\ at = "pause" /\ heard # "yes"
  /\ GoTo("idle")
  /\ UNCHANGED <<goal, pending, handle, escape, raised, final, tries, heard, stop, estop,
                 goalVars, monitorVars>>

\* A pause that was not confirmed may still land, and is followed by a resume.
NotPaused ==
  /\ at = "pause" /\ heard # "yes"
  /\ Switch(TRUE, "resume")
  /\ tries' = Attempts - 1
  /\ escape' = TRUE
  /\ UNCHANGED <<goal, pending, handle, raised, final, stop, estop, goalVars>>

\* To the next operation, or with an exception to run_attempt().
Onwards(raise) == GoTo(IF raise THEN "last" ELSE "idle")

Resumed ==
  /\ at = "resume" /\ heard = "yes"
  /\ escape' = FALSE
  /\ Onwards(raised)
  /\ UNCHANGED <<goal, pending, handle, raised, final, tries, heard, stop, estop, goalVars, monitorVars>>
ResumeAgain ==
  /\ at = "resume" /\ heard # "yes" /\ tries > 0
  /\ Switch(TRUE, "resume")
  /\ tries' = tries - 1
  /\ UNCHANGED <<goal, pending, handle, escape, raised, final, stop, estop, goalVars>>
\* Mutant: it stays off, and the run is only stopped.
ResumeFailsSoftly ==
  /\ at = "resume" /\ heard # "yes" /\ tries = 0
  /\ stop' = TRUE
  /\ escape' = FALSE
  /\ Onwards(raised)
  /\ UNCHANGED <<goal, pending, handle, raised, final, tries, heard, estop, goalVars, monitorVars>>

\* It stays off: the emergency stop is latched and the run stopped.
ResumeFails ==
  /\ at = "resume" /\ heard # "yes" /\ tries = 0
  /\ estop' = TRUE /\ stop' = TRUE
  /\ escape' = FALSE
  /\ Onwards(raised)
  /\ UNCHANGED <<goal, pending, handle, raised, final, tries, heard, goalVars, monitorVars>>

------------------------------------------------------------------------------
(* Motions *)

\* The checks before every motion; an exception of theirs passes through the escape.
Ready ==
  /\ at \in { "idle", "paused" }
  /\ ~stop /\ goal < Last
  /\ GoTo("ready")
  /\ UNCHANGED <<goal, pending, handle, escape, raised, final, tries, heard, stop, estop,
                 goalVars, monitorVars>>

\* _direct_motion() publishes velocities until its end, a stop, or a failed input.
DirectMotion ==
  /\ at \in { "idle", "paused" } /\ ~stop
  /\ GoTo("direct")
  /\ UNCHANGED <<goal, pending, handle, escape, raised, final, tries, heard, stop, estop,
                 goalVars, monitorVars>>

\* A motion is over, or was refused; an escape first has the monitor switched on again.
Leave(raise) ==
  /\ raised' = raise
  /\ IF escape THEN Switch(TRUE, "resume") /\ tries' = Attempts - 1
     ELSE Onwards(raise) /\ UNCHANGED <<tries, heard, monitorVars>>

EndMotion ==
  /\ at \in { "direct", "paused" }
  /\ \E raise \in BOOLEAN : Leave(raise)
  /\ UNCHANGED <<goal, pending, handle, escape, final, stop, estop, goalVars>>

\* send_goal_async(); a stop may come between the check and this.
SendGoal ==
  /\ at = "ready"
  /\ goal' = goal + 1
  /\ server' = [server EXCEPT ![goal + 1] = "sent"]
  /\ pending' = TRUE
  /\ GoTo("wait")
  /\ UNCHANGED <<handle, escape, raised, final, tries, heard, stop, estop, answer, cancelled, monitorVars>>

\* An exception of the dock departure, the attempt's first goal, is taken for an input gap
\* if an input is stale now, and the departure is repeated: also one whose goal is not
\* resolved, unless the base's latch has been heard of since.
RetryDeparture ==
  /\ at = "last" /\ raised /\ ~stop /\ goal = 1
  /\ raised' = FALSE
  /\ GoTo("idle")
  /\ UNCHANGED <<goal, pending, handle, escape, final, tries, heard, stop, estop, goalVars, monitorVars>>

\* _wait(): accepted, refused, or (a stop, 5 s) an exception that keeps pending_goal.
Accepted ==
  /\ at = "wait" /\ answer[goal] = "accepted"
  /\ pending' = FALSE /\ handle' = goal
  /\ GoTo("active")
  /\ UNCHANGED <<goal, escape, raised, final, tries, heard, stop, estop, goalVars, monitorVars>>
Refused ==
  /\ at = "wait" /\ answer[goal] = "refused"
  /\ pending' = FALSE
  /\ GoTo("settle")
  /\ UNCHANGED <<goal, handle, escape, raised, final, tries, heard, stop, estop, goalVars, monitorVars>>
WaitEnds ==
  /\ at = "wait" /\ answer[goal] = "none"
  /\ raised' = TRUE
  /\ GoTo("settle")
  /\ UNCHANGED <<goal, pending, handle, escape, final, tries, heard, stop, estop, goalVars, monitorVars>>

\* The result has arrived; or a stop, an input that is not ready, the link to the PC, or
\* a handoff near the end.  finish_navigation() looks at the goal again.
FollowEnds ==
  /\ at = "active"
  /\ GoTo("settle")
  /\ UNCHANGED <<goal, pending, handle, escape, raised, final, tries, heard, stop, estop,
                 goalVars, monitorVars>>

------------------------------------------------------------------------------
(* finish_navigation() *)

\* In run_attempt(), after an exception and after the last operation.
Finish ==
  /\ at \in { "idle", "last" }
  /\ final' = TRUE
  /\ GoTo("settle")
  /\ UNCHANGED <<goal, pending, handle, escape, raised, tries, heard, stop, estop,
                 goalVars, monitorVars>>

\* It returns.  Unresolved means an emergency stop and an exception.
Return(resolved) ==
  /\ estop' = (estop \/ ~resolved)
  /\ IF final THEN GoTo("over") /\ UNCHANGED <<raised, tries, heard, monitorVars>>
     ELSE Leave(raised \/ ~resolved)
  /\ UNCHANGED <<goal, escape, final, stop, server, answer>>

\* The acceptance of the pending goal arrives after all.
LateAnswer ==
  /\ at = "settle" /\ pending
  /\ answer[goal] # "none"
  /\ pending' = FALSE
  /\ handle' = IF answer[goal] = "accepted" THEN goal ELSE handle
  /\ UNCHANGED <<at, goal, escape, raised, final, tries, heard, stop, estop, goalVars, monitorVars>>

\* Mutant: a goal without an answer is taken for one that was not sent.
NoAnswerNoGoal ==
  /\ at = "settle" /\ pending
  /\ answer[goal] = "none"
  /\ pending' = FALSE
  /\ Return(TRUE)
  /\ UNCHANGED <<handle, cancelled>>

\* It does not, within 5 s.
NoAnswer ==
  /\ at = "settle" /\ pending
  /\ answer[goal] = "none"
  /\ GoTo("byId")
  /\ UNCHANGED <<goal, pending, handle, escape, raised, final, tries, heard, stop, estop,
                 goalVars, monitorVars>>

\* Mutant: the goal is waited for and not canceled.
AskToCancelNot ==
  /\ at = "settle" /\ ~pending /\ handle # 0
  /\ server[handle] = "ended"
  /\ GoTo("ask")
  /\ UNCHANGED <<goal, pending, handle, escape, raised, final, tries, heard, stop, estop,
                 goalVars, monitorVars>>

\* Nothing to resolve, or the result is here.
Settled ==
  /\ at = "settle" /\ ~pending
  /\ handle # 0 => server[handle] = "ended"
  /\ handle' = 0
  /\ Return(TRUE)
  /\ UNCHANGED <<pending, cancelled>>

AskToCancel ==
  /\ at = "settle" /\ ~pending /\ handle # 0
  /\ cancelled' = cancelled \cup {handle}
  /\ GoTo("ask")
  /\ UNCHANGED <<goal, pending, handle, escape, raised, final, tries, heard, stop, estop,
                 server, answer, monitorVars>>

\* _cancel_navigation_uuid(): repeated as long as the server has the goal.
CancelById ==
  /\ at = "byId"
  /\ server[goal] = "live" /\ goal \notin cancelled
  /\ cancelled' = cancelled \cup {goal}
  /\ UNCHANGED <<nodeVars, server, answer, monitorVars>>

\* The server reports the end, or does not within 5 s.
CancelConfirmed ==
  /\ \/ at = "ask" /\ server[handle] = "ended"
     \/ at = "byId" /\ server[goal] = "ended"
  /\ pending' = FALSE /\ handle' = 0
  /\ Return(TRUE)
  /\ UNCHANGED cancelled

CancelUnconfirmed ==
  /\ at \in { "ask", "byId" }
  /\ Return(FALSE)
  /\ UNCHANGED <<pending, handle, cancelled>>

------------------------------------------------------------------------------
Environment ==
  \/ \E g \in Goals : ServerAnswers(g) \/ AnswerArrives(g) \/ GoalEnds(g)
  \/ \E success \in BOOLEAN : MonitorServes(success)
  \/ RequestStop

Attempt ==
  \/ Confirm \/ Confirmed \/ Blocked \/ Pause \/ Paused \/ NotPaused
  \/ Resumed \/ ResumeAgain \/ ResumeFails
  \/ Ready \/ DirectMotion \/ EndMotion
  \/ SendGoal \/ Accepted \/ Refused \/ WaitEnds \/ FollowEnds \/ RetryDeparture
  \/ Finish \/ LateAnswer \/ NoAnswer \/ Settled \/ AskToCancel
  \/ CancelById \/ CancelConfirmed \/ CancelUnconfirmed

Next == Environment \/ Attempt

Spec == Init /\ [][Next]_vars

\* The attempt's thread runs (each of its waits has a time limit), and a goal that Nav2
\* was asked to cancel ends.
Fairness ==
  /\ WF_vars(Attempt)
  /\ \A g \in Goals : WF_vars(g \in cancelled /\ GoalEnds(g))

FairSpec == Spec /\ Fairness

------------------------------------------------------------------------------
(* Properties *)

Resolved(g) == server[g] \in { "none", "ended", "refused" }

\* A goal is sent only when no earlier one can move the vehicle any more, also one whose
\* acceptance was lost or late.  The one exception is the goal of the dock departure, beside
\* which the departure is repeated: it has then had the emergency stop requested.
OneGoalAtATime ==
  [][goal' # goal => \A g \in Goals : Resolved(g) \/ (g = 1 /\ estop)]_vars

\* Does not hold: "Retry only a canceled input gap, never an unresolved action", as the
\* docstring of _execute_service_once() has it, without that exception.
NeverBesideUnresolved == [][goal' # goal => \A g \in Goals : Resolved(g)]_vars

\* Without the Collision Monitor the vehicle moves only in an escape, which switches it on
\* again, however late a switch is answered or served; otherwise the base is latched.
GuardedMotion ==
  ~monitor /\ ~escape =>
    estop \/ (at # "direct" /\ \A g \in Goals : server[g] # "live")

\* An attempt ends with the emergency stop requested, or with its goals resolved and, if it
\* sent one, with the monitor on to stay: a goal that is accepted only later finds the base
\* latched, and a pause that is served only later is followed by a resume.
LeftSafe ==
  at = "over" =>
    \/ estop
    \/ /\ \A g \in Goals : Resolved(g)
       /\ goal > 0 => monitor /\ FALSE \notin { switches[i] : i \in 1..Len(switches) }

\* A stop ends the attempt, and every motion of it.
StopEndsMotion ==
  stop ~> (at = "over" /\ (estop \/ \A g \in Goals : Resolved(g)))

=============================================================================
