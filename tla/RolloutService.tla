---------------------------- MODULE RolloutService ----------------------------
(***************************************************************************)
(* The resident manipulation runner tools/rollout/rollout_service.py: HTTP *)
(* threads submit one job at a time, stop it or shut the process down, and *)
(* the main thread runs jobs from a queue and moves the arms.              *)
(*                                                                         *)
(* One action stands for one critical section of Service.lock, or for one  *)
(* stage of a run between two of them.  Durations, logs, timings and the   *)
(* read-only idle check are left out; the policy loop (lerobot's           *)
(* BaseStrategy.run) is external and may run until its event is set.       *)
(***************************************************************************)
EXTENDS Naturals, Sequences, FiniteSets

CONSTANTS
  Clients,          \* HTTP threads
  StowConfigured,   \* --stow.pose names a pose
  StartPosed,       \* policies with a start pose
  Detected,         \* policies whose end is detected (--*.auto)
  Hooked,           \* policies run with the pour hook
  Timed,            \* policies with a duration
  EndPose,          \* end pose of a policy: "final", "fixed" (initial, pour_start),
                    \* "stored" or "stow" (the stored pose that is also the stow pose)
  MaxPills          \* bound: shutdown pills in the queue

Policies == { "pour", "place" }
Tasks == Policies \cup { "stow", "stow_right" }

ASSUME RolloutAssumption ==
  /\ StowConfigured \in BOOLEAN
  /\ StartPosed \subseteq Policies /\ Detected \subseteq Policies
  /\ Hooked \subseteq {"pour"} /\ Timed \subseteq Policies
  /\ EndPose \in [Policies -> {"final", "fixed", "stored", "stow"}]
  /\ \A p \in Policies : EndPose[p] = "stow" => StowConfigured
  /\ MaxPills \in Nat

Arms == { "unknown", "busy", "hold", "stowed", "carrying_cup" }
Reasons == { "none", "stopped", "start_pose_failed", "pour_hook_fault", "auto_done",
             "duration", "ended", "error", "stowed", "stow_failed" }

\* An entry of the queue: a job with the thread that submitted it and whether that
\* thread waits for the result, or None.
Pill == [task |-> "none"]
Job(c, t, w) == [task |-> t, client |-> c, wait |-> w]
Jobs == [task : Tasks, client : Clients, wait : BOOLEAN]

\* An HTTP thread between two requests, or with a job in hand.
Idle == [at |-> "idle", job |-> Pill]
Callers == [at : {"idle", "put", "wait", "pill"}, job : Jobs \cup {Pill}]

\* Points of the main thread.  The arms move in "start", "policy" and "end".
Running == { "begin", "start", "policy", "judge", "finish", "end", "report" }
Moving == { "start", "policy", "end" }

VARIABLES
  state,          \* self.state
  current,        \* self.current, "none" for None
  event,          \* self.current_event: "none", "clear" or "set"
  stopRequested,  \* self.stop_requested
  arms,           \* self.arms
  jobs,           \* self.jobs
  pc,             \* where the main thread is
  job,            \* the job it runs, Pill before the first one
  result,         \* the result it has so far
  caller,         \* what each HTTP thread is doing
  stopAnswer,     \* what the last stop() returned
  stowPose        \* which arms really are in the stow pose

httpVars == <<caller, stopAnswer>>
jobVars == <<state, current, jobs>>
runVars == <<pc, job, result>>
armVars == <<arms, stowPose>>
rolloutVars == <<state, current, event, stopRequested, arms, jobs, pc, job, result,
                 caller, stopAnswer, stowPose>>

Result(ok, why) == [ok |-> ok, reason |-> why]

------------------------------------------------------------------------------
(* Process start and end *)

FreshProcess ==
  /\ state = "loading" /\ current = "none" /\ event = "none" /\ stopRequested = FALSE
  /\ arms = "unknown" /\ jobs = <<>>
  /\ pc = "load" /\ job = Pill /\ result = Result(FALSE, "none")

Init ==
  /\ FreshProcess
  /\ caller = [c \in Clients |-> Idle]
  /\ stopAnswer = "none"
  /\ stowPose = {}

\* main(): both policies are loaded and warmed up.
Ready ==
  /\ pc = "load"
  /\ state' = "ready"
  /\ pc' = "get"
  /\ UNCHANGED <<current, event, stopRequested, arms, jobs, job, result, httpVars, stowPose>>

\* main(): loading fails.
LoadFails ==
  /\ pc = "load"
  /\ pc' = "exit"
  /\ UNCHANGED <<jobVars, event, stopRequested, armVars, job, result, httpVars>>

\* main(), finally: the state is set and the server shut down; then the arms are
\* released and every open connection is lost with the process.
Closing ==
  /\ pc = "exit"
  /\ state' = "closing"
  /\ pc' = "closed"
  /\ UNCHANGED <<current, jobs, event, stopRequested, armVars, job, result, httpVars>>

\* The process ends, after Closing or at any moment (kill, power loss), and starts anew.
Restart ==
  /\ state' = "loading" /\ current' = "none" /\ event' = "none" /\ stopRequested' = FALSE
  /\ arms' = "unknown" /\ jobs' = <<>>
  /\ pc' = "load" /\ job' = Pill /\ result' = Result(FALSE, "none")
  /\ caller' = [c \in Clients |-> Idle]
  /\ stopAnswer' = "none"
  /\ stowPose' = {}

ProcessEnds == pc = "closed" /\ Restart

------------------------------------------------------------------------------
(* HTTP threads *)

\* Mutant: a job is taken while another one runs.
SubmitWhileRunning(c, t, w) ==
  /\ caller[c] = Idle
  /\ t \in {"stow", "stow_right"} => StowConfigured
  /\ state \in {"ready", "running"}
  /\ state' = "running"
  /\ current' = t
  /\ caller' = [caller EXCEPT ![c] = [at |-> "put", job |-> Job(c, t, w)]]
  /\ UNCHANGED <<event, stopRequested, armVars, jobs, runVars, stopAnswer>>

\* submit(): the critical section; a refused request changes nothing.
Submit(c, t, w) ==
  /\ caller[c] = Idle
  /\ t \in {"stow", "stow_right"} => StowConfigured
  /\ state = "ready"
  /\ state' = "running"
  /\ current' = t
  /\ caller' = [caller EXCEPT ![c] = [at |-> "put", job |-> Job(c, t, w)]]
  /\ UNCHANGED <<event, stopRequested, armVars, jobs, runVars, stopAnswer>>

\* submit(): jobs.put(job), after the lock is released.
PutJob(c) ==
  /\ caller[c].at = "put"
  /\ jobs' = Append(jobs, caller[c].job)
  /\ caller' = [caller EXCEPT ![c] = IF caller[c].job.wait THEN [caller[c] EXCEPT !.at = "wait"] ELSE Idle]
  /\ UNCHANGED <<state, current, event, stopRequested, armVars, runVars, stopAnswer>>

\* stop(): what it does to the job under way, and what it answers.
StopJob ==
  IF event = "none" THEN UNCHANGED <<event, stopRequested>>
                    ELSE event' = "set" /\ stopRequested' = TRUE

StopEffect ==
  /\ StopJob
  /\ stopAnswer' = IF event = "none" THEN "no_task_running" ELSE "stopped"

Stop(c) ==
  /\ caller[c] = Idle
  /\ StopEffect
  /\ UNCHANGED <<jobVars, armVars, runVars, caller>>

\* shutdown(): stop(), then the pill.
Shutdown(c) ==
  /\ caller[c] = Idle
  /\ Len(SelectSeq(jobs, LAMBDA j : j = Pill)) < MaxPills
  /\ StopEffect
  /\ caller' = [caller EXCEPT ![c].at = "pill"]
  /\ UNCHANGED <<jobVars, armVars, runVars>>

PutPill(c) ==
  /\ caller[c].at = "pill"
  /\ jobs' = Append(jobs, Pill)
  /\ caller' = [caller EXCEPT ![c] = Idle]
  /\ UNCHANGED <<state, current, event, stopRequested, armVars, runVars, stopAnswer>>

------------------------------------------------------------------------------
(* The main thread: loop() and _run() *)

\* Mutant: the pill is taken for a job.
GetPillAsJob ==
  /\ pc = "get" /\ jobs # <<>>
  /\ jobs' = Tail(jobs)
  /\ pc' = "begin" /\ job' = Head(jobs) /\ result' = Result(FALSE, "none")
  /\ UNCHANGED <<state, current, event, stopRequested, armVars, httpVars>>

Get ==
  /\ pc = "get" /\ jobs # <<>>
  /\ jobs' = Tail(jobs)
  /\ IF Head(jobs) = Pill
     THEN pc' = "exit" /\ UNCHANGED <<job, result>>
     ELSE pc' = "begin" /\ job' = Head(jobs) /\ result' = Result(FALSE, "none")
  /\ UNCHANGED <<state, current, event, stopRequested, armVars, httpVars>>

\* Mutant: the arms keep the mark of the last job while they move.
BeginUnmarked ==
  /\ pc = "begin"
  /\ event' = "clear"
  /\ stopRequested' = FALSE
  /\ pc' = IF job.task \in Policies THEN "start" ELSE "end"
  /\ UNCHANGED <<jobVars, arms, job, result, httpVars, stowPose>>

\* _run, _run_stow, _run_stow_right: a new event, the old stop request forgotten.
Begin ==
  /\ pc = "begin"
  /\ event' = "clear"
  /\ stopRequested' = FALSE
  /\ arms' = "busy"
  /\ pc' = IF job.task \in Policies THEN "start" ELSE "end"
  /\ UNCHANGED <<jobVars, job, result, httpVars, stowPose>>

EndsWith(why) == result' = Result(FALSE, why) /\ pc' = "finish"

\* move_to_start_pose: it fails (at once if the event is set) or arrives, and
\* then the event is looked at once more.
StartPose ==
  /\ pc = "start"
  /\ \/ /\ job.task \in StartPosed
        /\ \/ EndsWith(IF event = "set" THEN "stopped" ELSE "start_pose_failed")
           \/ EndsWith("error")
     \/ /\ event = "set"
        /\ EndsWith("stopped")
     \/ /\ event # "set"
        /\ pc' = "policy"
        /\ UNCHANGED result
  /\ stowPose' = IF job.task \in StartPosed THEN {} ELSE stowPose
  /\ UNCHANGED <<jobVars, event, stopRequested, arms, job, httpVars>>

\* Mutant: the policy loop watches another event.
PolicyEndsDeaf ==
  /\ pc = "policy" /\ event # "set"
  /\ job.task \in Detected
  /\ event' = "set"
  /\ result' = Result(FALSE, "auto_done")
  /\ pc' = "judge"
  /\ stowPose' = {}
  /\ UNCHANGED <<jobVars, stopRequested, arms, job, httpVars>>

\* How the policy loop ends; result.reason carries it to Judge.
PolicyEnds ==
  /\ pc = "policy"
  /\ \/ /\ event = "set"                            \* stop() reached the loop
        /\ pc' = "judge" /\ UNCHANGED <<event, result>>
     \/ /\ event # "set" /\ job.task \in Detected   \* the detector sets the event itself
        /\ event' = "set"
        /\ result' = Result(FALSE, "auto_done")
        /\ pc' = "judge"
     \/ /\ event # "set"
        /\ \/ job.task \in Timed /\ result' = Result(FALSE, "duration")
           \/ result' = Result(FALSE, "ended")
        /\ pc' = "judge" /\ UNCHANGED event
     \/ EndsWith("error") /\ UNCHANGED event
  /\ stowPose' = {}
  /\ UNCHANGED <<jobVars, stopRequested, arms, job, httpVars>>

\* The chain of conditions that names the reason; the pour hook may be in FAULT.
Judge ==
  /\ pc = "judge"
  /\ pc' = "finish"
  /\ \/ stopRequested /\ result' = Result(FALSE, "stopped")
     \/ ~stopRequested /\ job.task \in Hooked /\ result' = Result(FALSE, "pour_hook_fault")
     \/ ~stopRequested /\ result' = Result(result.reason = "auto_done", result.reason)
  /\ UNCHANGED <<jobVars, event, stopRequested, armVars, job, httpVars>>

\* Mutant: the new event forgets the stop request.
FinishPoseAfresh ==
  /\ pc = "finish"
  /\ event' = "clear"
  /\ pc' = "end"
  /\ UNCHANGED <<jobVars, stopRequested, armVars, job, result, httpVars>>

\* Mutant: the motion to the end pose runs with the event of the policy.
FinishPoseSameEvent ==
  /\ pc = "finish"
  /\ pc' = "end"
  /\ UNCHANGED <<jobVars, event, stopRequested, armVars, job, result, httpVars>>

\* _finish_pose, up to its motion: the detector's event is replaced by a new one.
FinishPose ==
  /\ pc = "finish"
  /\ \/ /\ arms' = "hold"                           \* the robot is disconnected
        /\ pc' = "report"
        /\ UNCHANGED event
     \/ /\ event' = IF stopRequested THEN "set" ELSE "clear"
        /\ pc' = "end"
        /\ UNCHANGED arms
  /\ UNCHANGED <<jobVars, stopRequested, job, result, httpVars, stowPose>>

\* move_joints of the given arms: any outcome, and only an arrival is "there".  The
\* arms may have been there already, or the event be set after the last look at it.
MoveJoints(sides, there) ==
  stowPose' = IF there THEN stowPose \cup sides ELSE stowPose \ sides

EndPoseKind ==
  IF job.task = "stow" THEN "stow_job"
  ELSE IF job.task = "stow_right" THEN "right"
  ELSE IF EndPose[job.task] # "final" /\ result.reason \in {"auto_done", "duration", "ended"}
       THEN EndPose[job.task]
  ELSE IF job.task = "pour" /\ result.reason = "auto_done" /\ StowConfigured THEN "right"
  ELSE "hold"

\* What moves the arms looks at the event; _finish_pose() builds the movers to the poses
\* "initial" and "pour_start" without one, and these go on to their end whatever is set.
Watches == ~(pc = "end" /\ EndPoseKind = "fixed")

\* The motion after a policy, or the whole of a stow job, and the arms it leaves.  The event
\* may cut it short only where the motion Watches, but it may fail anywhere.
EndMotion ==
  /\ pc = "end"
  /\ pc' = "report"
  /\ \/ /\ EndPoseKind = "hold"
        /\ arms' = "hold"
        /\ UNCHANGED <<stowPose, result>>
     \/ /\ EndPoseKind \in {"fixed", "stored"}
        /\ arms' = "hold"
        /\ MoveJoints({"left", "right"}, FALSE)
        /\ UNCHANGED result
     \/ \E there \in BOOLEAN :
          \/ /\ EndPoseKind = "stow"
             /\ arms' = IF there /\ result.reason = "auto_done" THEN "stowed" ELSE "hold"
             /\ MoveJoints({"left", "right"}, there)
             /\ UNCHANGED result
          \/ /\ EndPoseKind = "right"
             /\ arms' = IF there THEN "carrying_cup" ELSE "hold"
             /\ MoveJoints({"right"}, there)
             /\ result' = IF job.task = "stow_right" THEN Result(there, "none") ELSE result
          \/ /\ EndPoseKind = "stow_job"
             /\ arms' = IF there THEN "stowed" ELSE "hold"
             /\ MoveJoints({"left", "right"}, there)
             /\ result' \in IF there THEN { Result(TRUE, "stowed") }
                            ELSE { Result(FALSE, IF event = "set" THEN "stopped" ELSE "stow_failed"),
                                   Result(FALSE, "error") }
  /\ UNCHANGED <<jobVars, event, stopRequested, job, httpVars>>

\* Ctrl+C: it ends the loop with a stop() of its own, after a policy run by way of
\* _finish_pose with no reason.
Interrupt ==
  /\ \/ /\ pc \in {"start", "policy", "judge"}
        /\ result' = Result(FALSE, "none")
        /\ pc' = "finish"
        /\ UNCHANGED <<event, stopRequested>>
     \/ /\ pc \notin {"start", "policy", "judge", "exit", "closed"}
        /\ pc' = "exit"
        /\ StopJob
        /\ UNCHANGED result
  /\ stowPose' = IF pc \in Moving THEN {} ELSE stowPose
  /\ UNCHANGED <<jobVars, arms, job, httpVars>>

\* loop(): the service is free again; after a Ctrl+C in the run the loop ends instead.
Report ==
  /\ pc = "report"
  /\ IF job.task \in Policies /\ result.reason = "none"
     THEN pc' = "exit" /\ StopJob /\ UNCHANGED <<state, current>>
     ELSE /\ state' = "ready" /\ current' = "none" /\ event' = "none"
          /\ pc' = "notify"
          /\ UNCHANGED stopRequested
  /\ UNCHANGED <<armVars, jobs, job, result, httpVars>>

\* Mutant: only success is reported.
NotifySuccess ==
  /\ pc = "notify"
  /\ pc' = "get"
  /\ caller' = IF job.wait /\ result.ok THEN [caller EXCEPT ![job.client] = Idle] ELSE caller
  /\ UNCHANGED <<jobVars, event, stopRequested, armVars, job, result, stopAnswer>>

\* loop(): job["done"].set(), and the HTTP thread that waits gets the result.
Notify ==
  /\ pc = "notify"
  /\ pc' = "get"
  /\ caller' = IF job.wait THEN [caller EXCEPT ![job.client] = Idle] ELSE caller
  /\ UNCHANGED <<jobVars, event, stopRequested, armVars, job, result, stopAnswer>>

MainStep ==
  Ready \/ Get \/ Begin \/ StartPose \/ PolicyEnds \/ Judge \/ FinishPose \/ EndMotion
  \/ Report \/ Notify \/ Closing \/ ProcessEnds

Next ==
  \/ \E c \in Clients :
       \/ \E t \in Tasks, w \in BOOLEAN : Submit(c, t, w)
       \/ PutJob(c) \/ Stop(c) \/ Shutdown(c) \/ PutPill(c)
  \/ MainStep
  \/ LoadFails
  \/ Interrupt
  \/ Restart

Spec == Init /\ [][Next]_rolloutVars
------------------------------------------------------------------------------
(* Properties *)

\* Type correctness of the service's fields and of its threads.
TypeOK ==
  /\ state \in {"loading", "ready", "running", "closing"}
  /\ current \in Tasks \cup {"none"}
  /\ event \in {"none", "clear", "set"}
  /\ stopRequested \in BOOLEAN
  /\ arms \in Arms
  /\ jobs \in Seq(Jobs \cup {Pill})
  /\ pc \in Running \cup {"load", "get", "notify", "exit", "closed"}
  /\ job \in Jobs \cup {Pill}
  /\ pc \in Running \cup {"notify"} => job \in Jobs
  /\ result \in [ok : BOOLEAN, reason : Reasons]
  /\ caller \in [Clients -> Callers]
  /\ stopAnswer \in {"none", "stopped", "no_task_running"}
  /\ stowPose \subseteq {"left", "right"}

\* Once /stop is acknowledged, whatever moves the arms and watches an event sees it set: the
\* start pose, the policy, the stow jobs, and the fold after a policy, which runs with an
\* event of its own.  Nothing is said of the end poses "initial" and "pour_start".
StopReachesMotion == stopRequested /\ pc \in Moving /\ Watches => event = "set"

\* "The motion to the end pose reacts to /stop, with a new event" (_finish_pose).  It does
\* not hold: the event is new and set, and the mover to a fixed pose looks at none
\* (Rollout.cfg with this invariant shows it).
StopReachesEveryMotion == stopRequested /\ pc \in Moving => Watches /\ event = "set"

\* Nothing but a /stop cuts a motion to a pose short: the event the detector set to
\* end the policy is not the one the fold after it looks at.
OnlyStopCutsPoses == pc \in {"start", "end"} /\ event = "set" => stopRequested

\* What /status says of the arms is so; the vehicle drives on the strength of it.
ArmsTruthful ==
  /\ arms = "stowed" => stowPose = {"left", "right"}
  /\ arms = "carrying_cup" => "right" \in stowPose
  /\ pc \in Moving => arms = "busy"

\* Where the jobs submitted and not yet finished are: in the hands of the thread that
\* submitted them, in the queue, or run by the main thread.
Putting == { c \in Clients : caller[c].at = "put" }
Waiting == { i \in 1..Len(jobs) : jobs[i] # Pill }
InFlight ==
  { <<"put", c>> : c \in Putting } \cup { <<"queued", i>> : i \in Waiting }
  \cup { <<"run", p>> : p \in {pc} \cap Running }

\* "running" means exactly one job is under way, "ready" that none is, until the
\* loop ends: the service is never wedged in "running" and never runs two jobs.
OneJobAtATime ==
  pc \notin {"exit", "closed"} =>
    IF state = "running" THEN \E place \in InFlight : InFlight = {place} ELSE InFlight = {}

\* A /stop that finds the service running stops it.  It does not hold: between submit()
\* and the start of _run() there is no event to set, and the job moves the arms after
\* the answer "no task running" (Rollout.cfg with this property shows it).
StopHeardWhileRunning ==
  [][ stopAnswer' = "no_task_running" /\ stopAnswer # "no_task_running"
        => state # "running" ]_rolloutVars

------------------------------------------------------------------------------
(* Liveness.  The threads are scheduled, motions of the service's own take a *)
(* bounded time, and the policy loop ends at its duration or when its event  *)
(* is set; neither a detection nor any other end of a policy is assumed.     *)

OwnStep ==
  Ready \/ Get \/ Begin \/ StartPose \/ Judge \/ FinishPose \/ EndMotion \/ Report \/ Notify
  \/ Closing \/ ProcessEnds

PolicyMustEnd == (event = "set" \/ job.task \in Timed) /\ PolicyEnds

Fairness ==
  /\ WF_rolloutVars(OwnStep)
  /\ WF_rolloutVars(PolicyMustEnd)
  /\ \A c \in Clients : WF_rolloutVars(PutJob(c))

FairSpec == Spec /\ Fairness

\* Whoever waits for a job that has an end of its own is answered, or loses the
\* connection with the process.
JobAnswered ==
  \A c \in Clients :
    caller[c].at \in {"put", "wait"} /\ caller[c].job.task \notin Policies \ Timed
      ~> caller[c].at \notin {"put", "wait"}

\* A policy with no duration ends when it is stopped.
StopEndsPolicy == stopRequested /\ pc = "policy" ~> pc # "policy"

=============================================================================
