------------------------ MODULE RolloutServiceProofs ------------------------
(***************************************************************************)
(* What holds of the rollout service for every number of HTTP threads and  *)
(* every choice of end poses, detectors and durations.                     *)
(***************************************************************************)
EXTENDS RolloutService, TLAPS

\* The actions that leave the main thread, its event and the arms alone.
HttpOnly == UNCHANGED <<event, stopRequested, armVars, runVars>>

\* Submitting and queueing touch neither the event nor the arms.
LEMMA HttpActions ==
  ASSUME NEW c \in Clients,
         (\E t \in Tasks, w \in BOOLEAN : Submit(c, t, w)) \/ PutJob(c) \/ PutPill(c)
  PROVE  HttpOnly
BY DEF Submit, PutJob, PutPill, HttpOnly

\* stop() and shutdown() set event and request together, or find no event.
LEMMA StopActions ==
  ASSUME NEW c \in Clients, Stop(c) \/ Shutdown(c)
  PROVE  /\ UNCHANGED <<armVars, runVars>>
         /\ \/ event = "none" /\ UNCHANGED <<event, stopRequested>>
            \/ event' = "set" /\ stopRequested' = TRUE
BY DEF Stop, Shutdown, StopEffect, StopJob

\* While the arms move, a stop that was acknowledged has set the event of the service,
\* whether or not the motion looks at it.
StopHeard == stopRequested /\ pc \in Moving => event = "set"

\* Once /stop is acknowledged, whatever moves the arms and watches an event sees it set: the
\* start pose, the policy, the fold or stored pose with its event of its own, the stow jobs.
\* The motions to "initial" and "pour_start", which watch none, are excepted.  And only /stop
\* cuts the motions to the start pose and to the end pose short.
THEOREM StopReaches == Spec => [](StopReachesMotion /\ OnlyStopCutsPoses)
<1> DEFINE StopInv == StopHeard /\ OnlyStopCutsPoses
<1>1. Init => StopInv
  BY DEF Init, FreshProcess, StopHeard, OnlyStopCutsPoses
<1>2. StopInv /\ [Next]_rolloutVars => StopInv'
  <2> SUFFICES ASSUME StopInv, [Next]_rolloutVars PROVE StopInv'
    OBVIOUS
  <2> USE DEF StopHeard, OnlyStopCutsPoses, Moving
  <2>1. ASSUME NEW c \in Clients,
               (\E t \in Tasks, w \in BOOLEAN : Submit(c, t, w)) \/ PutJob(c) \/ PutPill(c)
        PROVE  StopInv'
    BY <2>1, HttpActions DEF HttpOnly, runVars
  <2>2. ASSUME NEW c \in Clients, Stop(c) \/ Shutdown(c) PROVE StopInv'
    BY <2>2, StopActions DEF runVars
  <2>3. CASE Ready \/ LoadFails \/ Get \/ Report \/ Notify \/ Closing
    BY <2>3 DEF Ready, LoadFails, Get, Report, Notify, Closing, StopJob
  <2>4. CASE Begin
    BY <2>4 DEF Begin
  <2>5. CASE StartPose
    BY <2>5 DEF StartPose, EndsWith
  <2>6. CASE PolicyEnds
    BY <2>6 DEF PolicyEnds, EndsWith
  <2>7. CASE Judge \/ EndMotion \/ Interrupt
    BY <2>7 DEF Judge, EndMotion, Interrupt, StopJob
  <2>8. CASE FinishPose
    BY <2>8 DEF FinishPose
  <2>9. CASE Restart \/ ProcessEnds
    BY <2>9 DEF Restart, ProcessEnds
  <2>10. CASE UNCHANGED rolloutVars
    BY <2>10 DEF rolloutVars
  <2> QED
    BY <2>1, <2>2, <2>3, <2>4, <2>5, <2>6, <2>7, <2>8, <2>9, <2>10 DEF Next, MainStep
<1>3. StopInv => StopReachesMotion /\ OnlyStopCutsPoses
  BY DEF StopHeard, StopReachesMotion
<1> QED
  BY <1>1, <1>2, <1>3, PTL DEF Spec

\* Nothing but /stop cuts the motions to the start pose and to the end pose short.
THEOREM PosesKept == Spec => []OnlyStopCutsPoses
BY StopReaches, PTL

\* The arms are marked busy all through a run, from before their first motion until
\* the mark of its outcome is written.
InRun == { "start", "policy", "judge", "finish", "end" }

ArmsInv ==
  /\ stowPose \subseteq {"left", "right"}
  /\ arms = "stowed" => stowPose = {"left", "right"}
  /\ arms = "carrying_cup" => "right" \in stowPose
  /\ pc \in InRun => arms = "busy"

\* The motion after a run writes "stowed" or "carrying_cup" only on an arrival.
LEMMA EndMotionMarks == ArmsInv /\ EndMotion => ArmsInv'
<1> SUFFICES ASSUME ArmsInv, EndMotion PROVE ArmsInv'
  OBVIOUS
<1> USE DEF ArmsInv, InRun, EndMotion, MoveJoints
<1>1. CASE EndPoseKind = "hold"
  BY <1>1
<1>2. CASE EndPoseKind \in {"fixed", "stored"}
  BY <1>2
<1>3. CASE EndPoseKind \in {"stow", "right", "stow_job"}
  BY <1>3
<1> QED
  BY <1>1, <1>2, <1>3

\* /status never calls the arms folded for the drive when they are not, and never
\* while they move.
THEOREM ArmsReported == Spec => []ArmsTruthful
<1>1. Init => ArmsInv
  BY DEF Init, FreshProcess, ArmsInv, InRun
<1>2. ArmsInv /\ [Next]_rolloutVars => ArmsInv'
  <2> SUFFICES ASSUME ArmsInv, [Next]_rolloutVars PROVE ArmsInv'
    OBVIOUS
  <2> USE DEF ArmsInv, InRun
  <2>1. ASSUME NEW c \in Clients,
               (\E t \in Tasks, w \in BOOLEAN : Submit(c, t, w)) \/ PutJob(c) \/ PutPill(c)
        PROVE  ArmsInv'
    BY <2>1, HttpActions DEF HttpOnly, runVars, armVars
  <2>2. ASSUME NEW c \in Clients, Stop(c) \/ Shutdown(c) PROVE ArmsInv'
    BY <2>2, StopActions DEF runVars, armVars
  <2>3. CASE Ready \/ LoadFails \/ Get \/ Report \/ Notify \/ Closing
    BY <2>3 DEF Ready, LoadFails, Get, Report, Notify, Closing, armVars
  <2>4. CASE Begin
    BY <2>4 DEF Begin
  <2>5. CASE StartPose
    BY <2>5 DEF StartPose, EndsWith
  <2>6. CASE PolicyEnds
    BY <2>6 DEF PolicyEnds, EndsWith
  <2>7. CASE Judge \/ FinishPose \/ Interrupt
    BY <2>7 DEF Judge, FinishPose, Interrupt, armVars, Moving
  <2>8. CASE EndMotion
    BY <2>8, EndMotionMarks
  <2>9. CASE Restart \/ ProcessEnds
    BY <2>9 DEF Restart, ProcessEnds
  <2>10. CASE UNCHANGED rolloutVars
    BY <2>10 DEF rolloutVars
  <2> QED
    BY <2>1, <2>2, <2>3, <2>4, <2>5, <2>6, <2>7, <2>8, <2>9, <2>10 DEF Next, MainStep
<1>3. ArmsInv => ArmsTruthful
  BY DEF ArmsInv, ArmsTruthful, InRun, Moving
<1> QED
  BY <1>1, <1>2, <1>3, PTL DEF Spec

------------------------------------------------------------------------------
(* Type correctness *)

\* The scalar fields.
FieldsOK ==
  /\ state \in {"loading", "ready", "running", "closing"}
  /\ current \in Tasks \cup {"none"}
  /\ event \in {"none", "clear", "set"}
  /\ stopRequested \in BOOLEAN
  /\ arms \in Arms
  /\ stopAnswer \in {"none", "stopped", "no_task_running"}
  /\ stowPose \subseteq {"left", "right"}

\* The queue and the job that comes out of it.
MainOK ==
  /\ jobs \in Seq(Jobs \cup {Pill})
  /\ pc \in Running \cup {"load", "get", "notify", "exit", "closed"}
  /\ job \in Jobs \cup {Pill}
  /\ pc \in Running \cup {"notify"} => job \in Jobs

ResultSet == [ok : BOOLEAN, reason : Reasons]
ResultOK == result \in ResultSet

CallersOK == caller \in [Clients -> Callers]

\* The type invariant, part by part.
LEMMA TypeParts == TypeOK <=> FieldsOK /\ MainOK /\ ResultOK /\ CallersOK
BY DEF TypeOK, FieldsOK, MainOK, ResultOK, ResultSet, CallersOK

\* The same in the next state.
LEMMA TypePartsNext == TypeOK' <=> FieldsOK' /\ MainOK' /\ ResultOK' /\ CallersOK'
BY DEF TypeOK, FieldsOK, MainOK, ResultOK, ResultSet, CallersOK

\* The scalar fields stay in their sets.
LEMMA FieldsStep == FieldsOK /\ [Next]_rolloutVars => FieldsOK'
<1> SUFFICES ASSUME FieldsOK, [Next]_rolloutVars PROVE FieldsOK'
  OBVIOUS
<1> USE DEF FieldsOK, Arms, jobVars, armVars, httpVars
<1>1. ASSUME NEW c \in Clients, NEW t \in Tasks, NEW w \in BOOLEAN, Submit(c, t, w)
      PROVE  FieldsOK'
  BY <1>1 DEF Submit
<1>2. ASSUME NEW c \in Clients, PutJob(c) \/ PutPill(c) \/ Stop(c) \/ Shutdown(c)
      PROVE  FieldsOK'
  BY <1>2 DEF PutJob, PutPill, Stop, Shutdown, StopEffect, StopJob
<1>3. CASE Ready \/ LoadFails \/ Closing \/ Get \/ Begin
  BY <1>3 DEF Ready, LoadFails, Closing, Get, Begin
<1>4. CASE StartPose \/ PolicyEnds \/ Judge \/ FinishPose
  BY <1>4 DEF StartPose, PolicyEnds, EndsWith, Judge, FinishPose
<1>5. CASE EndMotion
  BY <1>5 DEF EndMotion, MoveJoints
<1>6. CASE Interrupt \/ Report \/ Notify
  BY <1>6 DEF Interrupt, Report, Notify, StopJob
<1>7. CASE Restart \/ ProcessEnds
  BY <1>7 DEF Restart, ProcessEnds
<1>8. CASE UNCHANGED rolloutVars
  BY <1>8 DEF rolloutVars
<1> QED
  BY <1>1, <1>2, <1>3, <1>4, <1>5, <1>6, <1>7, <1>8 DEF Next, MainStep

\* Every result the run assembles is a record of a known reason.
LEMMA ResultType ==
  ASSUME NEW ok \in BOOLEAN, NEW why \in Reasons PROVE Result(ok, why) \in ResultSet
BY DEF Result, ResultSet

\* A result stays a result.
LEMMA ResultStep == ResultOK /\ [Next]_rolloutVars => ResultOK'
<1> SUFFICES ASSUME ResultOK, [Next]_rolloutVars PROVE ResultOK'
  OBVIOUS
<1> USE DEF ResultOK
<1>0. \A why \in {"none", "stopped", "start_pose_failed", "pour_hook_fault", "auto_done",
                 "duration", "ended", "error", "stowed", "stow_failed"} :
        Result(FALSE, why) \in ResultSet /\ Result(TRUE, why) \in ResultSet
  BY ResultType DEF Reasons
<1>1. ASSUME NEW c \in Clients,
             \/ \E t \in Tasks, w \in BOOLEAN : Submit(c, t, w)
             \/ PutJob(c) \/ PutPill(c) \/ Stop(c) \/ Shutdown(c)
      PROVE  UNCHANGED result
  BY <1>1 DEF Submit, PutJob, PutPill, Stop, Shutdown, runVars
<1>2. CASE Ready \/ LoadFails \/ Closing \/ Begin \/ FinishPose \/ Report \/ Notify
  BY <1>2 DEF Ready, LoadFails, Closing, Begin, FinishPose, Report, Notify
<1>3. CASE Get
  BY <1>0, <1>3 DEF Get
<1>4. CASE StartPose \/ PolicyEnds
  BY <1>0, <1>4 DEF StartPose, PolicyEnds, EndsWith
<1>5. CASE Judge
  <2>1. result.reason \in Reasons
    BY DEF ResultSet
  <2>2. Result(result.reason = "auto_done", result.reason) \in ResultSet
    BY <2>1, ResultType
  <2> QED
    BY <1>0, <1>5, <2>2 DEF Judge
<1>6. CASE EndMotion
  BY <1>0, <1>6 DEF EndMotion
<1>7. CASE Interrupt
  BY <1>0, <1>7 DEF Interrupt
<1>8. CASE Restart \/ ProcessEnds
  BY <1>0, <1>8 DEF Restart, ProcessEnds
<1>9. CASE UNCHANGED rolloutVars
  BY <1>9 DEF rolloutVars
<1> QED
  BY <1>1, <1>2, <1>3, <1>4, <1>5, <1>6, <1>7, <1>8, <1>9 DEF Next, MainStep

\* An HTTP thread stays in its states, with a job that was submitted.
LEMMA CallersStep == CallersOK /\ [Next]_rolloutVars => CallersOK'
<1> SUFFICES ASSUME CallersOK, [Next]_rolloutVars PROVE CallersOK'
  OBVIOUS
<1> USE DEF CallersOK
<1>0. Idle \in Callers
  BY DEF Idle, Callers
<1>1. ASSUME NEW c \in Clients, NEW t \in Tasks, NEW w \in BOOLEAN, Submit(c, t, w)
      PROVE  CallersOK'
  <2>1. [at |-> "put", job |-> Job(c, t, w)] \in Callers
    BY DEF Job, Jobs, Callers
  <2> QED
    BY <1>1, <2>1 DEF Submit
<1>2. ASSUME NEW c \in Clients, PutJob(c) \/ PutPill(c) \/ Stop(c) \/ Shutdown(c)
      PROVE  CallersOK'
  <2>1. /\ [caller[c] EXCEPT !.at = "wait"] \in Callers
        /\ [caller[c] EXCEPT !.at = "pill"] \in Callers
    BY DEF Callers
  <2> QED
    BY <1>0, <1>2, <2>1 DEF PutJob, PutPill, Stop, Shutdown
<1>3. CASE Ready \/ LoadFails \/ Closing \/ Get \/ Begin \/ StartPose \/ PolicyEnds
  BY <1>3 DEF Ready, LoadFails, Closing, Get, Begin, StartPose, PolicyEnds, httpVars
<1>4. CASE Judge \/ FinishPose \/ EndMotion \/ Interrupt \/ Report
  BY <1>4 DEF Judge, FinishPose, EndMotion, Interrupt, Report, httpVars
<1>5. CASE Notify
  BY <1>0, <1>5 DEF Notify
<1>6. CASE Restart \/ ProcessEnds
  BY <1>0, <1>6 DEF Restart, ProcessEnds
<1>7. CASE UNCHANGED rolloutVars
  BY <1>7 DEF rolloutVars
<1> QED
  BY <1>1, <1>2, <1>3, <1>4, <1>5, <1>6, <1>7 DEF Next, MainStep

\* Only submitted jobs and pills are queued, and only jobs are run.
LEMMA MainOKStep == MainOK /\ CallersOK /\ [Next]_rolloutVars => MainOK'
<1> SUFFICES ASSUME MainOK, CallersOK, [Next]_rolloutVars PROVE MainOK'
  OBVIOUS
<1> USE DEF MainOK, Running
<1>1. ASSUME NEW c \in Clients, NEW t \in Tasks, NEW w \in BOOLEAN, Submit(c, t, w)
      PROVE  MainOK'
  BY <1>1 DEF Submit, runVars
<1>2. ASSUME NEW c \in Clients, PutJob(c) \/ PutPill(c) PROVE MainOK'
  <2>1. caller[c].job \in Jobs \cup {Pill}
    BY DEF CallersOK, Callers
  <2>2. \A j \in Jobs \cup {Pill} : Append(jobs, j) \in Seq(Jobs \cup {Pill})
    OBVIOUS
  <2>3. jobs' \in Seq(Jobs \cup {Pill})
    BY <1>2, <2>1, <2>2 DEF PutJob, PutPill
  <2> QED
    BY <1>2, <2>3 DEF PutJob, PutPill, runVars
<1>3. ASSUME NEW c \in Clients, Stop(c) \/ Shutdown(c) PROVE MainOK'
  BY <1>3 DEF Stop, Shutdown, jobVars, runVars
<1>4. CASE Get
  <2>1. Tail(jobs) \in Seq(Jobs \cup {Pill}) /\ Head(jobs) \in Jobs \cup {Pill}
    BY <1>4 DEF Get
  <2> QED
    BY <1>4, <2>1 DEF Get
<1>5. CASE Ready \/ LoadFails \/ Closing \/ Begin
  BY <1>5 DEF Ready, LoadFails, Closing, Begin, jobVars
<1>6. CASE StartPose \/ PolicyEnds
  BY <1>6 DEF StartPose, PolicyEnds, EndsWith, jobVars
<1>7. CASE Judge \/ FinishPose \/ EndMotion
  BY <1>7 DEF Judge, FinishPose, EndMotion, jobVars
<1>8. CASE Interrupt \/ Report \/ Notify
  BY <1>8 DEF Interrupt, Report, Notify, jobVars
<1>9. CASE Restart \/ ProcessEnds
  <2>1. <<>> \in Seq(Jobs \cup {Pill})
    OBVIOUS
  <2>2. jobs' = <<>> /\ pc' = "load" /\ job' = Pill
    BY <1>9 DEF Restart, ProcessEnds
  <2> QED
    BY <2>1, <2>2
<1>10. CASE UNCHANGED rolloutVars
  BY <1>10 DEF rolloutVars
<1> HIDE DEF MainOK, Running
<1> QED
  BY <1>1, <1>2, <1>3, <1>4, <1>5, <1>6, <1>7, <1>8, <1>9, <1>10 DEF Next, MainStep

\* The fields keep their types; a job under way is one that was submitted.
THEOREM RolloutTypeCorrect == Spec => []TypeOK
<1>1. Init => TypeOK
  <2>1. Init => FieldsOK
    BY DEF Init, FreshProcess, FieldsOK, Arms
  <2>2. Init => MainOK
    BY DEF Init, FreshProcess, MainOK, Running
  <2>3. Init => ResultOK
    BY ResultType DEF Init, FreshProcess, ResultOK, Reasons
  <2>4. Init => CallersOK
    BY DEF Init, FreshProcess, CallersOK, Idle, Callers
  <2> QED
    BY <2>1, <2>2, <2>3, <2>4, TypeParts
<1>2. TypeOK /\ [Next]_rolloutVars => TypeOK'
  BY TypeParts, TypePartsNext, FieldsStep, MainOKStep, ResultStep, CallersStep
<1> QED
  BY <1>1, <1>2, PTL DEF Spec

------------------------------------------------------------------------------
(* One job at a time *)

\* Why the service never has two jobs: the state is "running" as long as one is in one
\* of its three places, and a job moves from each to the next.
OneInv ==
  /\ \A c \in Clients : caller[c].at = "put" => caller[c].job.task \in Tasks
  /\ pc = "load" => state = "loading"
  /\ pc \notin {"exit", "closed"} =>
       IF state = "running"
       THEN \/ /\ \E c \in Clients : Putting = {c}
               /\ Waiting = {} /\ pc \notin Running
            \/ /\ Putting = {} /\ pc \notin Running
               /\ \E i \in Nat : Waiting = {i}
            \/ Putting = {} /\ Waiting = {} /\ pc \in Running
       ELSE Putting = {} /\ Waiting = {} /\ pc \notin Running

\* A thread that waits for its job, in the queue or run, does nothing else; so the job
\* that is reported wakes no thread that puts the next one.
WaitersFit ==
  /\ \A c \in Clients : caller[c].at = "put" => caller[c].job.client = c
  /\ pc \in Running \cup {"notify"} /\ job.wait => caller[job.client].at = "wait"
  /\ \A i \in Waiting : jobs[i].wait =>
       /\ caller[jobs[i].client].at = "wait"
       /\ pc \in Running \cup {"notify"} /\ job.wait => jobs[i].client # job.client

\* What the main thread does between taking a job and reporting it moves no job.
LEMMA RunKeepsPlaces ==
  ASSUME OneInv, UNCHANGED <<state, jobs, caller>>,
         \/ pc = "load" /\ pc' \in {"exit", "closed"}
         \/ pc \in Running /\ pc' \in Running \cup {"exit"}
         \/ pc' \in {"exit", "closed"}
         \/ pc' = pc
  PROVE  OneInv'
BY DEF OneInv, Putting, Waiting, Running

\* A job that is put joins the queue; a pill does not count.
LEMMA AppendWaiting ==
  ASSUME NEW j \in Jobs \cup {Pill}, jobs \in Seq(Jobs \cup {Pill}), jobs' = Append(jobs, j)
  PROVE  Waiting' = IF j = Pill THEN Waiting ELSE Waiting \cup {Len(jobs) + 1}
<1>1. /\ Len(jobs) \in Nat /\ Len(jobs') = Len(jobs) + 1
      /\ jobs'[Len(jobs) + 1] = j
      /\ \A i \in 1..Len(jobs) : jobs'[i] = jobs[i]
  OBVIOUS
<1>2. 1..Len(jobs') = 1..Len(jobs) \cup {Len(jobs) + 1}
  BY <1>1
<1> QED
  BY <1>1, <1>2 DEF Waiting

\* The job at the head leaves the queue, and takes the only place there was.
LEMMA TailWaiting ==
  ASSUME jobs \in Seq(Jobs \cup {Pill}), jobs # <<>>, Head(jobs) # Pill, jobs' = Tail(jobs),
         NEW k \in Nat, Waiting = {k}
  PROVE  Waiting' = {}
<1>1. Len(jobs) \in Nat \ {0} /\ Head(jobs) = jobs[1]
  OBVIOUS
<1>2. 1 \in Waiting
  BY <1>1 DEF Waiting
<1>3. Len(jobs') = Len(jobs) - 1 /\ \A i \in 1..Len(jobs') : jobs'[i] = jobs[i + 1]
  OBVIOUS
<1>4. ASSUME NEW i \in Waiting' PROVE FALSE
  <2>1. i \in 1..Len(jobs') /\ jobs'[i] # Pill
    BY <1>4 DEF Waiting
  <2>2. i + 1 \in Waiting
    BY <1>1, <1>3, <2>1 DEF Waiting
  <2>3. i + 1 = 1
    BY <1>2, <2>2
  <2> QED
    BY <1>1, <1>3, <2>1, <2>3
<1> QED
  BY <1>4

\* The queued jobs are jobs, and stay where they are when one is appended.
LEMMA WaitingJobs ==
  ASSUME jobs \in Seq(Jobs \cup {Pill})
  PROVE  \A i \in Waiting : jobs[i] \in Jobs
BY DEF Waiting

\* A new process has nothing in hand.
LEMMA FreshPlaces ==
  ASSUME Restart \/ ProcessEnds
  PROVE  /\ pc' = "load" /\ state' = "loading" /\ Putting' = {} /\ Waiting' = {}
         /\ \A c \in Clients : caller'[c].at # "put"
<1>1. jobs' = <<>> /\ caller' = [c \in Clients |-> Idle] /\ pc' = "load" /\ state' = "loading"
  BY DEF Restart, ProcessEnds
<1>2. Waiting' = {}
  <2>1. Len(jobs') = 0
    BY <1>1
  <2> QED
    BY <2>1 DEF Waiting
<1>3. \A c \in Clients : caller'[c].at # "put"
  BY <1>1 DEF Idle
<1> QED
  BY <1>1, <1>2, <1>3 DEF Putting

\* A waiting thread is left alone until its job is reported.
LEMMA WaitersStep == TypeOK /\ OneInv /\ WaitersFit /\ [Next]_rolloutVars => WaitersFit'
<1> SUFFICES ASSUME TypeOK, OneInv, WaitersFit, [Next]_rolloutVars PROVE WaitersFit'
  OBVIOUS
<1>t. /\ caller \in [Clients -> Callers] /\ jobs \in Seq(Jobs \cup {Pill})
      /\ pc \in Running \cup {"load", "get", "notify", "exit", "closed"}
      /\ pc \in Running \cup {"notify"} => job \in Jobs
      /\ \A i \in Waiting : jobs[i] \in Jobs
  BY WaitingJobs DEF TypeOK
<1>j. \A j \in Jobs : j.client \in Clients /\ j.task \in Tasks
  BY DEF Jobs
<1>i. Idle.at = "idle"
  BY DEF Idle
<1>k. ASSUME UNCHANGED <<jobs, caller, job>>,
             pc' \in Running \cup {"notify"} => pc \in Running \cup {"notify"}
      PROVE  WaitersFit'
  BY <1>k DEF WaitersFit, Waiting
<1>1. ASSUME NEW c \in Clients, NEW t \in Tasks, NEW w \in BOOLEAN, Submit(c, t, w)
      PROVE  WaitersFit'
  <2>1. /\ caller' = [caller EXCEPT ![c] = [at |-> "put", job |-> Job(c, t, w)]]
        /\ caller[c].at = "idle" /\ UNCHANGED <<jobs, pc, job>>
    BY <1>1, <1>i DEF Submit, runVars
  <2>2. Job(c, t, w).client = c
    BY DEF Job
  <2>3. caller'[c].at = "put" /\ caller'[c].job.client = c
        /\ \A d \in Clients \ {c} : caller'[d] = caller[d]
    BY <1>t, <2>1, <2>2
  <2>4. Waiting' = Waiting
    BY <2>1 DEF Waiting
  <2> QED
    BY <1>t, <1>j, <2>1, <2>3, <2>4 DEF WaitersFit
<1>2. ASSUME NEW c \in Clients, PutJob(c) PROVE WaitersFit'
  <2>1. /\ caller[c].at = "put" /\ jobs' = Append(jobs, caller[c].job)
        /\ UNCHANGED <<state, pc, job>>
    BY <1>2 DEF PutJob, runVars
  <2>2. /\ caller[c].job \in Jobs \cup {Pill} /\ caller[c].job.task \in Tasks
        /\ Pill.task \notin Tasks
    BY <1>t, <2>1 DEF Callers, OneInv, Pill, Tasks, Policies
  <2>3. caller[c].job \in Jobs /\ caller[c].job # Pill /\ caller[c].job.client = c
    BY <2>1, <2>2 DEF WaitersFit
  <2>4. Waiting' = Waiting \cup {Len(jobs) + 1}
    BY <1>t, <2>1, <2>3, AppendWaiting
  <2>5. /\ jobs'[Len(jobs) + 1] = caller[c].job
        /\ \A i \in Waiting : jobs'[i] = jobs[i]
    BY <1>t, <2>1, <2>3 DEF Waiting
  <2>6. /\ \A d \in Clients \ {c} : caller'[d] = caller[d]
        /\ caller[c].job.wait => caller'[c].at = "wait"
        /\ caller'[c].at # "put"
    BY <1>t, <1>i, <1>2 DEF PutJob, Callers
  <2>7. pc \in Running \cup {"notify"} /\ job.wait => job.client # c
    BY <2>1 DEF WaitersFit
  <2>9. \A d \in Clients : caller[d].at = "wait" => caller'[d].at = "wait"
    BY <2>1, <2>6
  <2>10. \A d \in Clients : caller'[d].at = "put" => caller'[d].job.client = d
    BY <2>6 DEF WaitersFit
  <2>11. pc' \in Running \cup {"notify"} /\ job'.wait => caller'[job'.client].at = "wait"
    BY <1>t, <1>j, <2>1, <2>9 DEF WaitersFit
  <2>12. ASSUME NEW i \in Waiting', jobs'[i].wait
         PROVE  /\ caller'[jobs'[i].client].at = "wait"
                /\ pc' \in Running \cup {"notify"} /\ job'.wait => jobs'[i].client # job'.client
    <3>1. CASE i \in Waiting
      BY <1>t, <1>j, <2>1, <2>5, <2>9, <2>12, <3>1 DEF WaitersFit
    <3>2. CASE i = Len(jobs) + 1
      BY <2>1, <2>3, <2>5, <2>6, <2>7, <2>12, <3>2
    <3> QED
      BY <2>4, <3>1, <3>2
  <2> QED
    BY <2>10, <2>11, <2>12 DEF WaitersFit
<1>3. ASSUME NEW c \in Clients, PutPill(c) PROVE WaitersFit'
  <2>1. /\ caller[c].at = "pill" /\ jobs' = Append(jobs, Pill) /\ UNCHANGED <<pc, job>>
        /\ caller'[c].at = "idle" /\ \A d \in Clients \ {c} : caller'[d] = caller[d]
    BY <1>t, <1>i, <1>3 DEF PutPill, runVars
  <2>2. Waiting' = Waiting /\ \A i \in Waiting : jobs'[i] = jobs[i]
    BY <1>t, <2>1, AppendWaiting DEF Waiting
  <2>3. \A d \in Clients : caller[d].at = "wait" => caller'[d].at = "wait"
    BY <2>1
  <2> QED
    BY <1>t, <1>j, <2>1, <2>2, <2>3 DEF WaitersFit
<1>4. ASSUME NEW c \in Clients, Stop(c) \/ Shutdown(c) PROVE WaitersFit'
  <2>1. /\ caller[c].at = "idle" /\ UNCHANGED <<jobs, pc, job>>
        /\ caller'[c].at # "put" /\ \A d \in Clients \ {c} : caller'[d] = caller[d]
    BY <1>t, <1>i, <1>4 DEF Stop, Shutdown, jobVars, runVars, Callers
  <2>2. Waiting' = Waiting
    BY <2>1 DEF Waiting
  <2> QED
    BY <1>t, <1>j, <2>1, <2>2 DEF WaitersFit
<1>5. CASE Get
  <2>1. /\ pc = "get" /\ jobs # <<>> /\ jobs' = Tail(jobs) /\ UNCHANGED caller
        /\ Head(jobs) = jobs[1] /\ 1 \in 1..Len(jobs)
    BY <1>t, <1>5 DEF Get, httpVars
  <2>2. CASE Head(jobs) = Pill
    <3>1. \A i \in Waiting' : i + 1 \in Waiting /\ jobs'[i] = jobs[i + 1]
      BY <1>t, <2>1 DEF Waiting
    <3>2. pc' = "exit" /\ UNCHANGED job
      BY <1>5, <2>2 DEF Get
    <3> QED
      BY <2>1, <3>1, <3>2 DEF WaitersFit, Running
  <2>3. CASE Head(jobs) # Pill
    <3>1. 1 \in Waiting
      BY <2>1, <2>3 DEF Waiting
    <3>2. PICK k \in Nat : Waiting = {k}
      BY <2>1, <3>1 DEF OneInv, Running
    <3>3. Waiting' = {} /\ job' = jobs[1]
      BY <1>t, <1>5, <2>1, <2>3, <3>2, TailWaiting DEF Get
    <3> QED
      BY <2>1, <3>1, <3>3 DEF WaitersFit
  <2> QED
    BY <2>2, <2>3
<1>6. CASE Notify
  <2>1. /\ pc = "notify" /\ pc' = "get" /\ UNCHANGED <<jobs, job>>
        /\ caller' = IF job.wait THEN [caller EXCEPT ![job.client] = Idle] ELSE caller
    BY <1>6 DEF Notify, jobVars
  <2>2. Waiting' = Waiting
    BY <2>1 DEF Waiting
  <2> QED
    BY <1>t, <1>j, <1>i, <2>1, <2>2 DEF WaitersFit, Running
<1>7. CASE Ready \/ LoadFails \/ Closing \/ Report
  BY <1>7, <1>k DEF Ready, LoadFails, Closing, Report, jobVars, httpVars, Running
<1>8. CASE Begin \/ StartPose \/ PolicyEnds
  BY <1>8, <1>k DEF Begin, StartPose, PolicyEnds, EndsWith, jobVars, httpVars, Running
<1>9. CASE Judge \/ FinishPose \/ EndMotion \/ Interrupt
  BY <1>9, <1>k DEF Judge, FinishPose, EndMotion, Interrupt, jobVars, httpVars, Running
<1>10. CASE Restart \/ ProcessEnds
  BY <1>10, FreshPlaces DEF WaitersFit, Running
<1>11. CASE UNCHANGED rolloutVars
  BY <1>11, <1>k DEF rolloutVars
<1> QED
  BY <1>1, <1>2, <1>3, <1>4, <1>5, <1>6, <1>7, <1>8, <1>9, <1>10, <1>11 DEF Next, MainStep

\* Every step keeps the one job in one place.
LEMMA OneInvStep == TypeOK /\ OneInv /\ WaitersFit /\ [Next]_rolloutVars => OneInv'
<1> SUFFICES ASSUME TypeOK, OneInv, WaitersFit, [Next]_rolloutVars PROVE OneInv'
  OBVIOUS
<1>t. /\ caller \in [Clients -> Callers] /\ jobs \in Seq(Jobs \cup {Pill})
      /\ pc \in Running \cup {"load", "get", "notify", "exit", "closed"}
  BY DEF TypeOK
<1>i. Idle.at = "idle"
  BY DEF Idle
<1>1. ASSUME NEW c \in Clients, NEW t \in Tasks, NEW w \in BOOLEAN, Submit(c, t, w)
      PROVE  OneInv'
  <2>1. /\ caller' = [caller EXCEPT ![c] = [at |-> "put", job |-> Job(c, t, w)]]
        /\ state = "ready" /\ state' = "running" /\ UNCHANGED <<jobs, pc>>
    BY <1>1 DEF Submit, runVars
  <2>2. Job(c, t, w).task = t
    BY DEF Job
  <2>3. Putting' = Putting \cup {c} /\ Waiting' = Waiting
    BY <1>t, <2>1 DEF Putting, Waiting
  <2> QED
    BY <1>t, <2>1, <2>2, <2>3 DEF OneInv
<1>2. ASSUME NEW c \in Clients, PutJob(c) PROVE OneInv'
  <2>1. /\ caller[c].at = "put" /\ c \in Putting
        /\ jobs' = Append(jobs, caller[c].job) /\ UNCHANGED <<state, pc>>
    BY <1>2 DEF PutJob, runVars, Putting
  <2>2. /\ caller[c].job \in Jobs \cup {Pill} /\ caller[c].job.task \in Tasks
        /\ Pill.task \notin Tasks
    BY <1>t, <2>1 DEF Callers, OneInv, Pill, Tasks, Policies
  <2>3. Waiting' = Waiting \cup {Len(jobs) + 1} /\ Len(jobs) + 1 \in Nat
    BY <1>t, <2>1, <2>2, AppendWaiting
  <2>4. Putting' = Putting \ {c}
    BY <1>t, <1>i, <1>2 DEF PutJob, Putting, Callers
  <2>5. \A d \in Clients : caller'[d].at = "put" => caller'[d] = caller[d]
    BY <1>t, <1>i, <1>2 DEF PutJob, Callers
  <2> QED
    BY <2>1, <2>3, <2>4, <2>5 DEF OneInv
<1>3. ASSUME NEW c \in Clients, PutPill(c) PROVE OneInv'
  <2>1. Waiting' = Waiting
    BY <1>t, <1>3, AppendWaiting DEF PutPill
  <2>2. /\ Putting' = Putting /\ UNCHANGED <<state, pc>>
        /\ \A d \in Clients : caller'[d].at = "put" => caller'[d] = caller[d]
    BY <1>t, <1>i, <1>3 DEF PutPill, Putting, runVars
  <2> QED
    BY <2>1, <2>2 DEF OneInv
<1>4. ASSUME NEW c \in Clients, Stop(c) \/ Shutdown(c) PROVE OneInv'
  <2>1. /\ Putting' = Putting /\ Waiting' = Waiting /\ UNCHANGED <<state, pc>>
        /\ \A d \in Clients : caller'[d].at = "put" => caller'[d] = caller[d]
    BY <1>t, <1>i, <1>4 DEF Stop, Shutdown, Putting, Waiting, jobVars, runVars, Callers
  <2> QED
    BY <2>1 DEF OneInv
<1>5. CASE Get
  <2>1. pc = "get" /\ jobs # <<>> /\ jobs' = Tail(jobs) /\ UNCHANGED <<state, caller>>
    BY <1>5 DEF Get, httpVars
  <2>2. CASE Head(jobs) = Pill
    BY <1>5, <2>1, <2>2 DEF Get, OneInv
  <2>3. CASE Head(jobs) # Pill
    <3>1. 1 \in Waiting
      BY <1>t, <2>1, <2>3 DEF Waiting
    <3>2. PICK k \in Nat : state = "running" /\ Putting = {} /\ Waiting = {k}
      BY <2>1, <3>1 DEF OneInv, Running
    <3>3. Waiting' = {} /\ Putting' = {} /\ pc' = "begin"
      BY <1>t, <1>5, <2>1, <2>3, <3>2, TailWaiting DEF Get, Putting
    <3> QED
      BY <2>1, <3>2, <3>3 DEF OneInv, Running
  <2> QED
    BY <2>2, <2>3
<1>6. CASE Report
  BY <1>6 DEF Report, OneInv, Putting, Waiting, Running, armVars, httpVars
<1>7. CASE Notify
  <2>1. /\ Putting' \subseteq Putting /\ Waiting' = Waiting
        /\ \A d \in Clients : caller'[d].at = "put" => caller'[d] = caller[d]
    BY <1>t, <1>i, <1>7 DEF Notify, Putting, Waiting, jobVars
  <2>2. job \in Jobs /\ (job.wait => caller[job.client].at = "wait")
    BY <1>7 DEF Notify, TypeOK, WaitersFit
  <2>3. Putting' = Putting
    BY <1>t, <1>i, <1>7, <2>2 DEF Notify, Putting, Jobs
  <2> QED
    BY <1>7, <2>1, <2>3 DEF Notify, OneInv, Running, jobVars
<1>8. CASE Ready
  BY <1>8 DEF Ready, OneInv, Putting, Waiting, Running, httpVars
<1>9. CASE LoadFails \/ Closing
  BY <1>9 DEF LoadFails, Closing, OneInv, jobVars, httpVars
<1>10. CASE Begin \/ StartPose \/ PolicyEnds
  BY <1>10, RunKeepsPlaces
  DEF Begin, StartPose, PolicyEnds, EndsWith, jobVars, httpVars, Running
<1>11. CASE Judge \/ FinishPose \/ EndMotion
  BY <1>11, RunKeepsPlaces DEF Judge, FinishPose, EndMotion, jobVars, httpVars, Running
<1>12. CASE Interrupt
  BY <1>12, RunKeepsPlaces DEF Interrupt, jobVars, httpVars, Running
<1>13. CASE Restart \/ ProcessEnds
  BY <1>13, FreshPlaces DEF OneInv, Running
<1>14. CASE UNCHANGED rolloutVars
  BY <1>14, RunKeepsPlaces DEF rolloutVars
<1> QED
  BY <1>1, <1>2, <1>3, <1>4, <1>5, <1>6, <1>7, <1>8, <1>9, <1>10, <1>11, <1>12, <1>13, <1>14
  DEF Next, MainStep

\* Two jobs never have the arms, and none is forgotten while the state says "running".
THEOREM OneJob == Spec => []OneJobAtATime
<1>1. Init => OneInv /\ WaitersFit
  BY DEF Init, FreshProcess, OneInv, WaitersFit, Putting, Waiting, Running, Idle
<1>2. OneInv => OneJobAtATime
  <2> SUFFICES ASSUME OneInv, pc \notin {"exit", "closed"}
               PROVE  IF state = "running" THEN \E place \in InFlight : InFlight = {place}
                                           ELSE InFlight = {}
    BY DEF OneJobAtATime
  <2>1. CASE state # "running"
    BY <2>1 DEF OneInv, InFlight
  <2>2. ASSUME NEW c \in Clients, Putting = {c}, Waiting = {}, pc \notin Running
        PROVE  InFlight = {<<"put", c>>}
    BY <2>2 DEF InFlight
  <2>3. ASSUME NEW i \in Nat, Putting = {}, Waiting = {i}, pc \notin Running
        PROVE  InFlight = {<<"queued", i>>}
    BY <2>3 DEF InFlight
  <2>4. ASSUME Putting = {}, Waiting = {}, pc \in Running
        PROVE  InFlight = {<<"run", pc>>}
    BY <2>4 DEF InFlight
  <2> QED
    BY <2>1, <2>2, <2>3, <2>4 DEF OneInv
<1> QED
  BY <1>1, <1>2, OneInvStep, WaitersStep, RolloutTypeCorrect, PTL DEF Spec

------------------------------------------------------------------------------
(* What comes to pass *)

RolloutInv == TypeOK /\ OneInv /\ WaitersFit

LEMMA RolloutInvStep == RolloutInv /\ [Next]_rolloutVars => RolloutInv'
BY TypeParts, TypePartsNext, FieldsStep, MainOKStep, ResultStep, CallersStep, OneInvStep, WaitersStep
DEF RolloutInv

LEMMA RolloutInvariant == Spec => []RolloutInv
<1>1. Init => OneInv /\ WaitersFit
  BY DEF Init, FreshProcess, OneInv, WaitersFit, Putting, Waiting, Running, Idle
<1> QED
  BY <1>1, OneInvStep, WaitersStep, RolloutTypeCorrect, PTL DEF Spec, RolloutInv

\* The job of a waiting thread is run, or in the queue.
Mine(c) == pc \in Running \cup {"notify"} /\ job = caller[c].job
Queued(c) == \E i \in Waiting : jobs[i] = caller[c].job

\* A thread that puts a job or waits for it has not been forgotten.
HeldFits(c) ==
  caller[c].at \in {"put", "wait"} =>
    /\ caller[c].job \in Jobs /\ caller[c].job.client = c
    /\ caller[c].at = "wait" =>
         caller[c].job.wait /\ (Mine(c) \/ Queued(c) \/ pc \in {"exit", "closed"})
\* Only policies have a start pose and a loop.
PolicyFits == pc \in {"start", "policy", "judge"} => job.task \in Policies
HeldInv == PolicyFits /\ \A c \in Clients : HeldFits(c)

\* What the main thread does while it runs a job.
LEMMA MainRuns ==
  ASSUME PolicyFits,
         \/ Ready \/ LoadFails \/ Closing \/ Begin \/ StartPose \/ PolicyEnds
         \/ Judge \/ FinishPose \/ EndMotion \/ Report \/ Interrupt
  PROVE  /\ UNCHANGED <<caller, jobs, job>> /\ PolicyFits'
         /\ pc \in Running \cup {"notify"} => pc' \in Running \cup {"notify", "exit", "closed"}
         /\ pc \in {"exit", "closed"} => pc' \in {"exit", "closed"}
<1> USE DEF PolicyFits, Running, jobVars, httpVars
<1>1. CASE Ready \/ LoadFails \/ Closing \/ Begin
  BY <1>1 DEF Ready, LoadFails, Closing, Begin
<1>2. CASE StartPose \/ PolicyEnds
  BY <1>2 DEF StartPose, PolicyEnds, EndsWith
<1>3. CASE Judge \/ FinishPose \/ EndMotion \/ Report
  BY <1>3 DEF Judge, FinishPose, EndMotion, Report
<1>4. CASE Interrupt
  BY <1>4 DEF Interrupt
<1> QED
  BY <1>1, <1>2, <1>3, <1>4

\* What a thread does leaves the other threads and their jobs alone.
LEMMA OtherThread ==
  ASSUME RolloutInv, NEW d \in Clients,
         \/ \E t \in Tasks, w \in BOOLEAN : Submit(d, t, w)
         \/ PutJob(d) \/ Stop(d) \/ Shutdown(d) \/ PutPill(d)
  PROVE  /\ UNCHANGED <<pc, job>> /\ \A c \in Clients \ {d} : caller'[c] = caller[c]
         /\ \A i \in Waiting : i \in Waiting' /\ jobs'[i] = jobs[i]
<1>t. caller \in [Clients -> Callers] /\ jobs \in Seq(Jobs \cup {Pill})
  BY DEF RolloutInv, TypeOK
<1>1. CASE (\E t \in Tasks, w \in BOOLEAN : Submit(d, t, w)) \/ Stop(d) \/ Shutdown(d)
  BY <1>t, <1>1 DEF Submit, Stop, Shutdown, jobVars, runVars, Waiting
<1>2. CASE PutJob(d) \/ PutPill(d)
  <2>1. PICK j : jobs' = Append(jobs, j)
    BY <1>2 DEF PutJob, PutPill
  <2>2. \A i \in 1..Len(jobs) : i \in 1..Len(jobs') /\ jobs'[i] = jobs[i]
    BY <1>t, <2>1
  <2> QED
    BY <1>t, <1>2, <2>2 DEF PutJob, PutPill, runVars, Waiting
<1> QED
  BY <1>1, <1>2

\* Nobody who waits is forgotten.
LEMMA HeldStep == ASSUME RolloutInv, HeldInv, [Next]_rolloutVars PROVE HeldInv'
<1>t. /\ caller \in [Clients -> Callers] /\ jobs \in Seq(Jobs \cup {Pill})
      /\ pc \in Running \cup {"load", "get", "notify", "exit", "closed"}
  BY DEF RolloutInv, TypeOK
<1>i. Idle.at = "idle" /\ Pill \notin Jobs
  BY DEF Idle, Pill, Jobs, Tasks, Policies
<1>k. ASSUME NEW c \in Clients, caller'[c] = caller[c], UNCHANGED <<pc, job>>,
             \A i \in Waiting : i \in Waiting' /\ jobs'[i] = jobs[i]
      PROVE  HeldFits(c)'
  BY <1>k DEF HeldInv, HeldFits, Mine, Queued
<1>1. ASSUME NEW d \in Clients,
             \/ \E t \in Tasks, w \in BOOLEAN : Submit(d, t, w)
             \/ PutJob(d) \/ Stop(d) \/ Shutdown(d) \/ PutPill(d)
      PROVE  HeldInv'
  <2>1. /\ UNCHANGED <<pc, job>> /\ \A c \in Clients \ {d} : caller'[c] = caller[c]
        /\ \A i \in Waiting : i \in Waiting' /\ jobs'[i] = jobs[i]
    BY <1>1, OtherThread
  <2>2. \A c \in Clients \ {d} : HeldFits(c)'
    BY <2>1, <1>k
  <2>3. HeldFits(d)'
    <3>1. ASSUME NEW t \in Tasks, NEW w \in BOOLEAN, Submit(d, t, w) PROVE HeldFits(d)'
      <4>1. caller'[d].at = "put" /\ caller'[d].job = Job(d, t, w)
        BY <1>t, <3>1 DEF Submit
      <4> QED
        BY <4>1 DEF HeldFits, Job, Jobs
    <3>2. CASE PutJob(d)
      <4>1. caller[d].at = "put" /\ caller[d].job \in Jobs /\ caller[d].job.client = d
        BY <3>2 DEF PutJob, HeldInv, HeldFits
      <4>2. CASE ~caller[d].job.wait
        BY <1>t, <1>i, <3>2, <4>2 DEF PutJob, HeldFits
      <4>3. CASE caller[d].job.wait
        <5>1. caller'[d].at = "wait" /\ caller'[d].job = caller[d].job
          BY <1>t, <3>2, <4>3 DEF PutJob, Callers
        <5>2. jobs' = Append(jobs, caller[d].job)
          BY <3>2 DEF PutJob
        <5>3. Len(jobs) + 1 \in Waiting' /\ jobs'[Len(jobs) + 1] = caller[d].job
          BY <1>t, <1>i, <4>1, <5>2, AppendWaiting
        <5> QED
          BY <4>1, <4>3, <5>1, <5>3 DEF HeldFits, Queued
      <4> QED
        BY <4>2, <4>3
    <3>3. CASE Stop(d) \/ Shutdown(d) \/ PutPill(d)
      <4>1. caller'[d].at \in {"idle", "pill"}
        BY <1>t, <1>i, <3>3 DEF Stop, Shutdown, PutPill, Callers, Idle
      <4> QED
        BY <4>1 DEF HeldFits
    <3> QED
      BY <1>1, <3>1, <3>2, <3>3
  <2> QED
    BY <2>1, <2>2, <2>3 DEF HeldInv, PolicyFits
<1>2. CASE Get
  <2>1. /\ pc = "get" /\ jobs # <<>> /\ jobs' = Tail(jobs) /\ UNCHANGED caller
        /\ Head(jobs) = jobs[1] /\ 1 \in 1..Len(jobs)
    BY <1>t, <1>2 DEF Get, httpVars
  <2>2. CASE Head(jobs) = Pill
    BY <1>2, <2>1, <2>2 DEF Get, HeldInv, HeldFits, PolicyFits
  <2>3. CASE Head(jobs) # Pill
    <3>1. 1 \in Waiting
      BY <2>1, <2>3 DEF Waiting
    <3>2. Waiting = {1}
      BY <2>1, <3>1 DEF RolloutInv, OneInv, Running
    <3>3. pc' = "begin" /\ job' = jobs[1]
      BY <1>2, <2>1, <2>3 DEF Get
    <3> QED
      BY <2>1, <3>2, <3>3 DEF HeldInv, HeldFits, Mine, Queued, PolicyFits, Running
  <2> QED
    BY <2>2, <2>3
<1>3. CASE Notify
  <2>1. /\ pc = "notify" /\ pc' = "get" /\ UNCHANGED <<jobs, job>> /\ job \in Jobs
        /\ caller' = IF job.wait THEN [caller EXCEPT ![job.client] = Idle] ELSE caller
    BY <1>3 DEF Notify, jobVars, RolloutInv, TypeOK
  <2>2. Waiting' = Waiting
    BY <2>1 DEF Waiting
  <2>3. ASSUME NEW c \in Clients, caller'[c].at \in {"put", "wait"} PROVE caller'[c] = caller[c] /\ (caller[c].at = "wait" => ~Mine(c))
    BY <1>t, <1>i, <2>1, <2>3 DEF HeldInv, HeldFits, Mine, Jobs
  <2> QED
    BY <2>1, <2>2, <2>3 DEF HeldInv, HeldFits, Queued, PolicyFits
<1>4. CASE \/ Ready \/ LoadFails \/ Closing \/ Begin \/ StartPose \/ PolicyEnds
           \/ Judge \/ FinishPose \/ EndMotion \/ Report \/ Interrupt
  <2>1. /\ UNCHANGED <<caller, jobs, job>> /\ PolicyFits'
        /\ pc \in Running \cup {"notify"} => pc' \in Running \cup {"notify", "exit", "closed"}
        /\ pc \in {"exit", "closed"} => pc' \in {"exit", "closed"}
    BY <1>4, MainRuns DEF HeldInv
  <2>2. Waiting' = Waiting
    BY <2>1 DEF Waiting
  <2> QED
    BY <2>1, <2>2 DEF HeldInv, HeldFits, Mine, Queued
<1>5. CASE Restart \/ ProcessEnds
  BY <1>5, <1>i DEF Restart, ProcessEnds, HeldInv, HeldFits, PolicyFits
<1>6. CASE UNCHANGED rolloutVars
  BY <1>6 DEF rolloutVars, HeldInv, HeldFits, PolicyFits, Mine, Queued, Waiting
<1> QED
  BY <1>1, <1>2, <1>3, <1>4, <1>5, <1>6 DEF Next, MainStep

LEMMA HeldAlways == Spec => []HeldInv
<1>1. Init => HeldInv
  BY DEF Init, FreshProcess, HeldInv, HeldFits, PolicyFits, Idle
<1> QED
  BY <1>1, HeldStep, RolloutInvariant, PTL DEF Spec

\* What is left until a thread that puts or waits has its answer: the queue behind a pill or
\* the report of the job before, then the points of the run, or the end of the process.
RunLeft ==
  [p \in Running \cup {"notify"} |->
     CASE p = "begin" -> 10 [] p = "start" -> 9 [] p = "policy" -> 8 [] p = "judge" -> 7
       [] p = "finish" -> 6 [] p = "end" -> 5 [] p = "report" -> 4 [] p = "notify" -> 3]
StepsLeft(c) ==
  IF caller[c].at = "put" THEN 13
  ELSE IF pc \in {"exit", "closed"} THEN (IF pc = "exit" THEN 2 ELSE 1)
  ELSE IF Mine(c) THEN RunLeft[pc]
  ELSE IF pc = "get" THEN 11 ELSE 12

\* A job that has an end of its own, submitted and not answered; and the answer.
Asking(c) == caller[c].at \in {"put", "wait"} /\ caller[c].job.task \notin Policies \ Timed
Answered(c) == caller[c].at \notin {"put", "wait"}
LessLeft(c) == Answered(c)' \/ (Asking(c)' /\ StepsLeft(c)' < StepsLeft(c))
NoMoreLeft(c) == Answered(c)' \/ (Asking(c)' /\ StepsLeft(c)' <= StepsLeft(c))

LEMMA RunLeftValues ==
  /\ RunLeft["begin"] = 10 /\ RunLeft["start"] = 9 /\ RunLeft["policy"] = 8
  /\ RunLeft["judge"] = 7 /\ RunLeft["finish"] = 6 /\ RunLeft["end"] = 5
  /\ RunLeft["report"] = 4 /\ RunLeft["notify"] = 3
BY DEF RunLeft, Running

\* Where the main thread can be while a thread waits.
LEMMA WaitingPlaces ==
  ASSUME RolloutInv, HeldInv, NEW c \in Clients, caller[c].at = "wait"
  PROVE  \/ pc \in {"exit", "closed"}
         \/ Mine(c) /\ pc \in Running \cup {"notify"}
         \/ ~Mine(c) /\ Queued(c) /\ pc \in {"get", "notify"}
<1>1. CASE Queued(c) /\ ~Mine(c) /\ pc \notin {"exit", "closed"}
  <2>1. Waiting # {}
    BY <1>1 DEF Queued
  <2>2. pc \notin Running /\ pc # "load"
    BY <1>1, <2>1 DEF RolloutInv, OneInv
  <2> QED
    BY <1>1, <2>2 DEF RolloutInv, TypeOK
<1> QED
  BY <1>1 DEF HeldInv, HeldFits, Mine

LEMMA StepsLeftType ==
  ASSUME RolloutInv, HeldInv, NEW c \in Clients, Asking(c)
  PROVE  StepsLeft(c) \in 1..13
<1>1. CASE caller[c].at = "wait"
  BY <1>1, WaitingPlaces, RunLeftValues DEF StepsLeft, Running
<1>2. CASE caller[c].at = "put"
  BY <1>2 DEF StepsLeft
<1> QED
  BY <1>1, <1>2 DEF Asking

LEMMA StepsLeftTypeNext ==
  ASSUME NEW c \in Clients
  PROVE  RolloutInv' /\ HeldInv' /\ Asking(c)' => StepsLeft(c)' \in 1..13
<1>1. RolloutInv /\ HeldInv /\ Asking(c) => StepsLeft(c) \in 1..13
  BY StepsLeftType
<1>2. RolloutInv' /\ HeldInv' /\ Asking(c)' => (StepsLeft(c) \in 1..13)'
  BY <1>1, PTL
<1> QED
  BY <1>2

\* A run goes from point to point and never back.
LEMMA RunProceeds ==
  ASSUME RolloutInv, HeldInv, NEW c \in Clients, Asking(c), caller[c].at = "wait",
         \/ Ready \/ LoadFails \/ Closing \/ Begin \/ StartPose \/ PolicyEnds
         \/ Judge \/ FinishPose \/ EndMotion \/ Report \/ Interrupt
  PROVE  LessLeft(c)
<1>1. UNCHANGED <<caller, jobs, job>>
  BY MainRuns DEF HeldInv
<1>2. Asking(c)'
  BY <1>1 DEF Asking
<1>w. \/ pc \in {"exit", "closed"}
      \/ Mine(c) /\ pc \in Running \cup {"notify"}
      \/ ~Mine(c) /\ Queued(c) /\ pc \in {"get", "notify"}
  BY WaitingPlaces
<1> SUFFICES StepsLeft(c)' < StepsLeft(c)
  BY <1>2 DEF LessLeft
<1>b. /\ pc = "begin" => StepsLeft(c) = 10
      /\ pc = "start" => StepsLeft(c) = 9
      /\ pc = "policy" => StepsLeft(c) = 8
      /\ pc = "judge" => StepsLeft(c) = 7
      /\ pc = "finish" => StepsLeft(c) = 6
      /\ pc = "end" => StepsLeft(c) = 5
      /\ pc = "report" => StepsLeft(c) = 4
      /\ pc = "notify" => StepsLeft(c) \in {3, 12}
      /\ pc = "get" => StepsLeft(c) = 11
      /\ pc = "exit" => StepsLeft(c) = 2
      /\ pc # "load"
  BY <1>w, RunLeftValues DEF StepsLeft, Running, Mine
<1>a. /\ pc' = "exit" => StepsLeft(c)' = 2
      /\ pc' = "closed" => StepsLeft(c)' = 1
      /\ pc \in Running /\ pc' = "start" => StepsLeft(c)' = 9
      /\ pc \in Running /\ pc' = "policy" => StepsLeft(c)' = 8
      /\ pc \in Running /\ pc' = "judge" => StepsLeft(c)' = 7
      /\ pc \in Running /\ pc' = "finish" => StepsLeft(c)' = 6
      /\ pc \in Running /\ pc' = "end" => StepsLeft(c)' = 5
      /\ pc \in Running /\ pc' = "report" => StepsLeft(c)' = 4
      /\ pc \in Running /\ pc' = "notify" => StepsLeft(c)' = 3
  BY <1>1, <1>w DEF StepsLeft, Running, Mine, RunLeft
<1>3. CASE Ready \/ LoadFails \/ Closing
  <2>1. pc = "exit" /\ pc' = "closed"
    BY <1>b, <1>3 DEF Ready, LoadFails, Closing
  <2> QED
    BY <1>a, <1>b, <2>1
<1>4. CASE Begin \/ StartPose
  <2>1. \/ pc = "begin" /\ pc' \in {"start", "end"}
        \/ pc = "start" /\ pc' \in {"policy", "finish"}
    BY <1>4 DEF Begin, StartPose, EndsWith
  <2> QED
    BY <1>a, <1>b, <2>1 DEF Running
<1>5. CASE PolicyEnds \/ Judge
  <2>1. \/ pc = "policy" /\ pc' \in {"judge", "finish"}
        \/ pc = "judge" /\ pc' = "finish"
    BY <1>5 DEF PolicyEnds, Judge, EndsWith
  <2> QED
    BY <1>a, <1>b, <2>1 DEF Running
<1>6. CASE FinishPose \/ EndMotion
  <2>1. \/ pc = "finish" /\ pc' \in {"end", "report"}
        \/ pc = "end" /\ pc' = "report"
    BY <1>6 DEF FinishPose, EndMotion
  <2> QED
    BY <1>a, <1>b, <2>1 DEF Running
<1>7. CASE Report
  <2>1. pc = "report" /\ pc' \in {"exit", "notify"}
    BY <1>7 DEF Report
  <2> QED
    BY <1>a, <1>b, <2>1 DEF Running
<1>8. CASE Interrupt
  <2>1. \/ pc \in {"start", "policy", "judge"} /\ pc' = "finish"
        \/ pc \in {"begin", "finish", "end", "report", "get", "notify"} /\ pc' = "exit"
    BY <1>w, <1>8 DEF Interrupt, Running
  <2> QED
    BY <1>a, <1>b, <2>1 DEF Running
<1> QED
  BY <1>3, <1>4, <1>5, <1>6, <1>7, <1>8

\* Nor does anything else take a waiting thread further from its answer.
LEMMA QueueProceeds ==
  ASSUME RolloutInv, HeldInv, NEW c \in Clients, Asking(c), caller[c].at = "wait", Get \/ Notify
  PROVE  LessLeft(c)
<1>t. /\ caller \in [Clients -> Callers] /\ jobs \in Seq(Jobs \cup {Pill})
  BY DEF RolloutInv, TypeOK
<1>i. Idle.at = "idle" /\ Pill \notin Jobs
  BY DEF Idle, Pill, Jobs, Tasks, Policies
<1>w. \/ pc \in {"exit", "closed"}
      \/ Mine(c) /\ pc \in Running \cup {"notify"}
      \/ ~Mine(c) /\ Queued(c) /\ pc \in {"get", "notify"}
  BY WaitingPlaces
<1>1. CASE Get
  <2>1. /\ pc = "get" /\ jobs # <<>> /\ UNCHANGED caller
        /\ Head(jobs) = jobs[1] /\ 1 \in 1..Len(jobs)
    BY <1>t, <1>1 DEF Get, httpVars
  <2>2. StepsLeft(c) = 11 /\ Queued(c)
    BY <2>1, <1>w DEF StepsLeft, Running, Mine
  <2>3. CASE Head(jobs) = Pill
    BY <1>1, <2>1, <2>2, <2>3 DEF Get, LessLeft, Asking, StepsLeft
  <2>4. CASE Head(jobs) # Pill
    <3>1. Waiting = {1}
      <4>1. 1 \in Waiting
        BY <2>1, <2>4 DEF Waiting
      <4> QED
        BY <2>1, <4>1 DEF RolloutInv, OneInv, Running
    <3>2. pc' = "begin" /\ job' = caller[c].job
      BY <1>1, <2>1, <2>2, <2>4, <3>1 DEF Get, Queued
    <3>3. Mine(c)'
      BY <2>1, <3>2 DEF Mine, Running
    <3> QED
      BY <2>1, <2>2, <3>2, <3>3, RunLeftValues DEF LessLeft, Asking, StepsLeft
  <2> QED
    BY <2>3, <2>4
<1>2. CASE Notify
  <2>1. /\ pc = "notify" /\ pc' = "get" /\ UNCHANGED job /\ job \in Jobs
        /\ caller' = IF job.wait THEN [caller EXCEPT ![job.client] = Idle] ELSE caller
    BY <1>2 DEF Notify, RolloutInv, TypeOK
  <2>2. CASE job.wait /\ job.client = c
    BY <1>t, <1>i, <2>1, <2>2 DEF LessLeft, Answered
  <2>3. CASE ~(job.wait /\ job.client = c)
    <3>1. caller'[c] = caller[c]
      BY <1>t, <2>1, <2>3 DEF Jobs
    <3>2. ~Mine(c)
      BY <2>3 DEF Mine, HeldInv, HeldFits
    <3> QED
      BY <2>1, <3>1, <3>2 DEF LessLeft, Asking, StepsLeft, Mine, Running
  <2> QED
    BY <2>2, <2>3
<1> QED
  BY <1>1, <1>2

\* Whatever happens, what is left until the answer does not grow.
LEMMA AskingProceeds ==
  ASSUME RolloutInv, HeldInv, [Next]_rolloutVars, NEW c \in Clients, Asking(c)
  PROVE  NoMoreLeft(c)
<1>t. /\ caller \in [Clients -> Callers] /\ StepsLeft(c) \in 1..13
  BY StepsLeftType DEF RolloutInv, TypeOK
<1>h. HeldInv' /\ RolloutInv'
  BY HeldStep, RolloutInvStep
<1>s. Asking(c)' => StepsLeft(c)' \in 1..13
  BY <1>h, StepsLeftTypeNext
<1>i. Idle.at = "idle"
  BY DEF Idle
<1>0. ASSUME LessLeft(c) PROVE NoMoreLeft(c)
  BY <1>t, <1>s, <1>0 DEF LessLeft, NoMoreLeft
<1>1. ASSUME NEW d \in Clients, d # c,
             \/ \E t \in Tasks, w \in BOOLEAN : Submit(d, t, w)
             \/ PutJob(d) \/ Stop(d) \/ Shutdown(d) \/ PutPill(d)
      PROVE  NoMoreLeft(c)
  <2>1. caller'[c] = caller[c] /\ UNCHANGED <<pc, job>>
    BY <1>1, OtherThread
  <2>2. StepsLeft(c)' = StepsLeft(c) /\ Asking(c)'
    BY <2>1 DEF StepsLeft, Mine, Asking
  <2> QED
    BY <1>t, <2>2 DEF NoMoreLeft
<1>2. CASE (\E t \in Tasks, w \in BOOLEAN : Submit(c, t, w)) \/ Stop(c) \/ Shutdown(c) \/ PutPill(c)
  BY <1>i, <1>2 DEF Submit, Stop, Shutdown, PutPill, Asking
<1>3. CASE PutJob(c)
  <2>1. caller[c].at = "put" /\ StepsLeft(c) = 13
    BY <1>3 DEF PutJob, StepsLeft
  <2>2. CASE caller[c].job.wait
    <3>1. caller'[c].at = "wait" /\ caller'[c].job = caller[c].job
      BY <1>t, <1>3, <2>2 DEF PutJob, Callers
    <3>2. Asking(c)'
      BY <3>1 DEF Asking
    <3>3. StepsLeft(c)' \in 1..13
      BY <1>s, <3>2
    <3> QED
      BY <2>1, <3>2, <3>3 DEF NoMoreLeft
  <2>3. CASE ~caller[c].job.wait
    BY <1>t, <1>i, <1>3, <2>3 DEF PutJob, NoMoreLeft, Answered
  <2> QED
    BY <2>2, <2>3
<1>4. CASE \/ Ready \/ LoadFails \/ Closing \/ Begin \/ StartPose \/ PolicyEnds
           \/ Judge \/ FinishPose \/ EndMotion \/ Report \/ Interrupt
  <2>1. CASE caller[c].at = "wait"
    BY <1>0, <1>4, <2>1, RunProceeds
  <2>2. CASE caller[c].at = "put"
    BY <1>t, <1>4, <2>2, MainRuns DEF HeldInv, NoMoreLeft, Asking, StepsLeft
  <2> QED
    BY <2>1, <2>2 DEF Asking
<1>5. CASE Get \/ Notify
  <2>1. CASE caller[c].at = "wait"
    BY <1>0, <1>5, <2>1, QueueProceeds
  <2>2. CASE caller[c].at = "put"
    <3>1. caller'[c] = caller[c] \/ caller'[c] = Idle
      BY <1>t, <1>5 DEF Get, Notify, httpVars, RolloutInv, TypeOK, Jobs
    <3> QED
      BY <1>t, <1>i, <2>2, <3>1 DEF NoMoreLeft, Asking, Answered, StepsLeft
  <2> QED
    BY <2>1, <2>2 DEF Asking
<1>6. CASE Restart \/ ProcessEnds
  BY <1>i, <1>6 DEF Restart, ProcessEnds, NoMoreLeft, Answered
<1>7. CASE UNCHANGED rolloutVars
  BY <1>t, <1>7 DEF rolloutVars, NoMoreLeft, Asking, StepsLeft, Mine
<1> QED
  BY <1>1, <1>2, <1>3, <1>4, <1>5, <1>6, <1>7 DEF Next, MainStep

\* Only a thread that puts is thirteen steps away.
LEMMA OnlyPutsHaveThirteen ==
  ASSUME NEW c \in Clients
  PROVE  RolloutInv' /\ HeldInv' /\ Asking(c)' /\ (caller[c].at = "wait")' => (StepsLeft(c) <= 12)'
<1>1. RolloutInv /\ HeldInv /\ Asking(c) /\ caller[c].at = "wait" => StepsLeft(c) <= 12
  BY WaitingPlaces, RunLeftValues DEF StepsLeft, Running
<1> QED
  BY <1>1, PTL

\* Weak fairness as Fairness states it, with what the actions wait for in the place of ENABLED,
\* of which the prover knows nothing: the main thread waits for the queue alone, outside a
\* policy; a policy for its end; and a put for nothing.
MainProceeds ==
  []<>(pc = "policy" \/ (pc = "get" /\ jobs = <<>>)) \/ []<><<OwnStep>>_rolloutVars
PolicyProceeds ==
  []<>~(pc = "policy" /\ (event = "set" \/ job.task \in Timed)) \/ []<><<PolicyMustEnd>>_rolloutVars
PutProceeds(c) == []<>(caller[c].at # "put") \/ []<><<PutJob(c)>>_rolloutVars

\* A policy that was told to stop ends, also one that has no duration and one whose detector
\* is silent.
THEOREM StopEnds == Spec /\ PolicyProceeds => StopEndsPolicy
<1> DEFINE P == stopRequested /\ pc = "policy"
           Q == pc # "policy"
           G == pc = "policy" /\ (event = "set" \/ job.task \in Timed)
<1>1. StopReachesMotion /\ P => G
  BY DEF StopReachesMotion, Watches, Moving
<1>2. StopReachesMotion /\ [Next]_rolloutVars /\ P => P' \/ Q'
  <2> SUFFICES ASSUME [Next]_rolloutVars, stopRequested, pc = "policy", pc' = "policy"
               PROVE  stopRequested'
    OBVIOUS
  <2>1. ASSUME NEW c \in Clients,
               (\E t \in Tasks, w \in BOOLEAN : Submit(c, t, w)) \/ PutJob(c) \/ PutPill(c)
        PROVE  stopRequested'
    BY <2>1, HttpActions DEF HttpOnly
  <2>2. ASSUME NEW c \in Clients, Stop(c) \/ Shutdown(c) PROVE stopRequested'
    BY <2>2, StopActions
  <2>3. CASE Ready \/ LoadFails \/ Get \/ Report \/ Notify \/ Closing \/ Begin
    BY <2>3 DEF Ready, LoadFails, Get, Report, Notify, Closing, Begin
  <2>4. CASE StartPose \/ PolicyEnds \/ Judge \/ FinishPose \/ EndMotion \/ Interrupt
    BY <2>4 DEF StartPose, PolicyEnds, Judge, FinishPose, EndMotion, Interrupt
  <2>5. CASE Restart \/ ProcessEnds
    BY <2>5 DEF Restart, ProcessEnds
  <2>6. CASE UNCHANGED rolloutVars
    BY <2>6 DEF rolloutVars
  <2> QED
    BY <2>1, <2>2, <2>3, <2>4, <2>5, <2>6 DEF Next, MainStep
<1>3. <<PolicyMustEnd>>_rolloutVars => Q'
  BY DEF PolicyMustEnd, PolicyEnds, EndsWith
<1>4. Spec => []StopReachesMotion
  BY StopReaches, PTL
<1> HIDE DEF P, Q, G
<1>5. Spec /\ ([]<>~G \/ []<><<PolicyMustEnd>>_rolloutVars) => (P ~> Q)
  BY <1>1, <1>2, <1>3, <1>4, PTL DEF Spec
<1> QED
  BY <1>5 DEF P, Q, G, PolicyProceeds, StopEndsPolicy

\* A thread that is asking comes closer to its answer by k - j steps.
Approaches(c, k, j) ==
  Asking(c) /\ StepsLeft(c) <= k ~> Answered(c) \/ (Asking(c) /\ StepsLeft(c) <= j)

\* By one step each, of the thread that is due.
LEMMA OneStepCloser ==
  ASSUME NEW c \in Clients, NEW k \in 1..13, NEW j \in 0..12, k = j + 1
  PROVE  Spec /\ MainProceeds /\ PolicyProceeds /\ PutProceeds(c) => Approaches(c, k, j)
<1> DEFINE A == Asking(c) /\ StepsLeft(c) <= k
           B == Asking(c) /\ StepsLeft(c) <= j
           D == Answered(c)
           I == RolloutInv /\ HeldInv
<1>i. Spec => []I
  BY RolloutInvariant, HeldAlways, PTL
<1>1. I /\ [Next]_rolloutVars /\ A => A' \/ D'
  <2> SUFFICES ASSUME I, [Next]_rolloutVars, A PROVE A' \/ D'
    OBVIOUS
  <2>1. NoMoreLeft(c) /\ StepsLeft(c) \in 1..13
    BY AskingProceeds, StepsLeftType
  <2>2. Asking(c)' => (StepsLeft(c) \in 1..13)'
    BY HeldStep, RolloutInvStep, StepsLeftTypeNext
  <2> QED
    BY <2>1, <2>2 DEF NoMoreLeft
<1>2. I /\ I' /\ A /\ LessLeft(c) => B' \/ D'
  <2> SUFFICES ASSUME I, I', A, LessLeft(c) PROVE B' \/ D'
    OBVIOUS
  <2>1. StepsLeft(c) \in 1..13 /\ (Asking(c)' => (StepsLeft(c) \in 1..13)')
    BY StepsLeftType, StepsLeftTypeNext
  <2> QED
    BY <2>1 DEF LessLeft
<1>3. I /\ A /\ ~B => /\ k = 13 <=> caller[c].at = "put"
                      /\ k = 8 <=> caller[c].at = "wait" /\ pc = "policy"
  <2> SUFFICES ASSUME I, A, ~B PROVE /\ k = 13 <=> caller[c].at = "put"
                                     /\ k = 8 <=> caller[c].at = "wait" /\ pc = "policy"
    OBVIOUS
  <2>1. StepsLeft(c) = k
    BY StepsLeftType
  <2>2. CASE caller[c].at = "put"
    BY <2>1, <2>2 DEF StepsLeft
  <2>3. CASE caller[c].at = "wait"
    BY <2>1, <2>3, WaitingPlaces, RunLeftValues DEF StepsLeft, Mine, Running
  <2> QED
    BY <2>2, <2>3 DEF Asking
<1> HIDE DEF I
<1>4. CASE k = 13
  <2>1. I /\ A /\ ~B => ~(caller[c].at # "put")
    BY <1>3, <1>4
  <2>2. I /\ A /\ <<PutJob(c)>>_rolloutVars => B' \/ D'
    <3> SUFFICES ASSUME I, A, PutJob(c) PROVE B' \/ D'
      OBVIOUS
    <3>1. caller \in [Clients -> Callers] /\ caller[c].at = "put"
      BY DEF I, RolloutInv, TypeOK, PutJob
    <3>2. (caller'[c].at = "wait" /\ caller'[c].job = caller[c].job /\ UNCHANGED pc) \/ caller'[c] = Idle
      BY <3>1 DEF PutJob, runVars, Callers
    <3>3. CASE caller'[c] = Idle
      BY <3>3 DEF Idle, Answered
    <3>4. CASE caller'[c].at = "wait" /\ caller'[c].job = caller[c].job
      <4>1. Asking(c)'
        BY <3>4 DEF Asking
      <4>2. RolloutInv' /\ HeldInv'
        BY HeldStep, RolloutInvStep DEF I, Next
      <4>3. (StepsLeft(c) <= 12)'
        BY <3>4, <4>1, <4>2, OnlyPutsHaveThirteen
      <4> QED
        BY <1>4, <4>1, <4>3
    <3> QED
      BY <3>2, <3>3, <3>4
  <2> HIDE DEF A, B, D
  <2>3. Spec /\ PutProceeds(c) => (A ~> D \/ B)
    BY <1>i, <1>1, <2>1, <2>2, PTL DEF Spec, PutProceeds
  <2> QED
    BY <2>3, PTL DEF A, B, D, Approaches
<1>5. CASE k = 8
  <2>1. I /\ A /\ ~B => ~ ~(pc = "policy" /\ (event = "set" \/ job.task \in Timed))
    <3> SUFFICES ASSUME I, A, ~B PROVE pc = "policy" /\ job.task \in Timed
      OBVIOUS
    <3>1. caller[c].at = "wait" /\ pc = "policy"
      BY <1>3, <1>5
    <3>2. Mine(c) /\ PolicyFits
      BY <3>1, WaitingPlaces DEF I, HeldInv
    <3> QED
      BY <3>1, <3>2 DEF Mine, PolicyFits, Asking
  <2>2. I /\ I' /\ A /\ ~B /\ <<PolicyMustEnd>>_rolloutVars => B' \/ D'
    BY <1>2, <1>3, <1>5, RunProceeds DEF I, PolicyMustEnd
  <2> HIDE DEF A, B, D
  <2>3. Spec /\ PolicyProceeds => (A ~> D \/ B)
    BY <1>i, <1>1, <2>1, <2>2, PTL DEF Spec, PolicyProceeds
  <2> QED
    BY <2>3, PTL DEF A, B, D, Approaches
<1>6. CASE k # 13 /\ k # 8
  <2>1. I /\ A /\ ~B => ~(pc = "policy" \/ (pc = "get" /\ jobs = <<>>))
    <3> SUFFICES ASSUME I, A, ~B PROVE pc # "policy" /\ (pc = "get" => jobs # <<>>)
      OBVIOUS
    <3>1. caller[c].at = "wait" /\ pc # "policy"
      BY <1>3, <1>6 DEF Asking
    <3>2. pc = "get" => Queued(c)
      BY <3>1, WaitingPlaces DEF I, Mine, Running
    <3> QED
      BY <3>1, <3>2 DEF Queued, Waiting
  <2>2. I /\ I' /\ A /\ ~B /\ <<OwnStep>>_rolloutVars => B' \/ D'
    <3> SUFFICES ASSUME I, I', A, ~B, OwnStep PROVE B' \/ D'
      OBVIOUS
    <3>1. caller[c].at = "wait"
      BY <1>3, <1>6 DEF Asking
    <3>2. CASE ProcessEnds
      BY <3>2 DEF ProcessEnds, Restart, Answered, Idle
    <3>3. CASE ~ProcessEnds
      BY <1>2, <3>1, <3>3, RunProceeds, QueueProceeds DEF I, OwnStep
    <3> QED
      BY <3>2, <3>3
  <2> HIDE DEF A, B, D
  <2>3. Spec /\ MainProceeds => (A ~> D \/ B)
    BY <1>i, <1>1, <2>1, <2>2, PTL DEF Spec, MainProceeds
  <2> QED
    BY <2>3, PTL DEF A, B, D, Approaches
<1> QED
  BY <1>4, <1>5, <1>6

\* Thirteen such steps at most.
AnswerComes(c) ==
  caller[c].at \in {"put", "wait"} /\ caller[c].job.task \notin Policies \ Timed
    ~> caller[c].at \notin {"put", "wait"}

LEMMA OneAnswer ==
  ASSUME NEW c \in Clients
  PROVE  Spec /\ MainProceeds /\ PolicyProceeds /\ PutProceeds(c) => AnswerComes(c)
<1> DEFINE Live == Spec /\ MainProceeds /\ PolicyProceeds /\ PutProceeds(c)
<1>1. Live => /\ Approaches(c, 13, 12) /\ Approaches(c, 12, 11) /\ Approaches(c, 11, 10)
              /\ Approaches(c, 10, 9) /\ Approaches(c, 9, 8) /\ Approaches(c, 8, 7)
              /\ Approaches(c, 7, 6) /\ Approaches(c, 6, 5) /\ Approaches(c, 5, 4)
              /\ Approaches(c, 4, 3) /\ Approaches(c, 3, 2) /\ Approaches(c, 2, 1)
              /\ Approaches(c, 1, 0)
  <2>1. \A k \in 1..13, j \in 0..12 : k = j + 1 => (Live => Approaches(c, k, j))
    BY OneStepCloser
  <2> QED
    BY <2>1
<1>2. RolloutInv /\ HeldInv /\ Asking(c) => StepsLeft(c) <= 13 /\ ~(StepsLeft(c) <= 0)
  BY StepsLeftType
<1>3. Spec => []RolloutInv /\ []HeldInv
  BY RolloutInvariant, HeldAlways, PTL
<1>4. Live => (Asking(c) ~> Answered(c))
  BY <1>1, <1>2, <1>3, PTL DEF Approaches
<1> QED
  BY <1>4 DEF Asking, Answered, AnswerComes

\* Whoever waits for a job that has an end of its own is answered, or loses the connection
\* with the process, whatever else is submitted, stopped or interrupted meanwhile.
THEOREM AnswersCome ==
  Spec /\ MainProceeds /\ PolicyProceeds /\ (\A c \in Clients : PutProceeds(c)) => JobAnswered
<1>1. Spec /\ MainProceeds /\ PolicyProceeds /\ (\A c \in Clients : PutProceeds(c))
        => \A c \in Clients : AnswerComes(c)
  BY OneAnswer
<1> QED
  BY <1>1 DEF AnswerComes, JobAnswered

=============================================================================
