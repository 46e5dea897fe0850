--------------------------- MODULE OrderServerReturns ---------------------------
(***************************************************************************)
(* Theorems about what comes to pass in OrderServer: the rollout service   *)
(* goes on within the server as its own fairness asks, so that what is     *)
(* proved of the service alone answers the server's worker, and the worker *)
(* comes back from every command.                                          *)
(***************************************************************************)
EXTENDS OrderServerProofs

------------------------------------------------------------------------------
(* What comes to pass in the server *)

\* When a step of the worker, of the rollout service and of a cancellation can be made.
WorkerReady ==
  \/ worker.at \in {"enter", "stow", "align", "leave gate", "mark", "check", "leave"}
  \/ worker.at = "idle" /\ LockFree /\ ~latched
  \/ worker.at = "aligning" /\ (aligned \/ cancelled)
  \/ worker.at = "post" /\ (state # "ready" \/ caller["worker"] = Rollout!Idle)
  \/ worker.at = "report" /\ LockFree
ServiceReady ==
  \/ caller["worker"].at = "put"
  \/ pc \in {"load", "begin", "start", "judge", "finish", "end", "report", "exit"}
  \/ pc = "get" /\ jobs # <<>>
PolicyReady == pc = "policy" /\ (event = "set" \/ job.task \in Timed)
CancelReady ==
  canceling.at = "end" /\ orderState[canceling.order] \notin Controller!TerminalOrderStates \cup {"NONE"}

\* The weak fairness of FairSpec that the worker's return needs, with these guards for
\* ENABLED, of which the prover knows nothing.
ThreadsProceed ==
  /\ []<>~WorkerReady \/ []<><<WorkerStep>>_serverVars
  /\ []<>~ServiceReady \/ []<><<ServiceStep>>_serverVars
  /\ []<>(pc # "notify") \/ []<><<Answer>>_serverVars
  /\ []<>(pc # "closed") \/ []<><<pc = "closed" /\ ServiceRestart>>_serverVars
  /\ []<>~PolicyReady
       \/ []<><<(event = "set" \/ job.task \in Timed) /\ PolicyStep>>_serverVars
  /\ []<>(canceling.at \notin {"wait", "run"}) \/ []<><<CancelBackend>>_serverVars
  /\ []<>~CancelReady \/ []<><<CancelEnd>>_serverVars
  /\ []<>(worker.at # "aligning") \/ []<><<AlignTimeout>>_serverVars

\* The thread of the worker's request: it waits for its answer, and while the worker awaits
\* it, it is there.  (A server that crashed may have left it behind.)
AskFits ==
  /\ caller["worker"].at \in {"idle", "put", "wait"}
  /\ caller["worker"].at = "idle" => caller["worker"] = Rollout!Idle
  /\ caller["worker"].at # "idle" => caller["worker"].job.wait
  /\ worker.at = "await" => caller["worker"].at # "idle"

\* The lock that a cancellation holds keeps its order under way.
LockHolds == canceling.at # "none" => canceling.order = active /\ active \in Orders

\* Most steps of the worker leave the thread of its request alone, and do not make it await.
LEMMA NotAsking ==
  ASSUME WorkerFits,
         \/ Fetch \/ Enter \/ AskStow \/ AlignBegin \/ AlignPoll \/ AlignTimeout \/ AlignEnd
         \/ Mark \/ Check \/ Leave \/ Report
  PROVE  UNCHANGED armVars /\ worker'.at # "await"
<1>w. worker \in WorkerFields /\ aligned \in BOOLEAN
  BY DEF WorkerFits, WorkerFields
<1>g. \A where \in Points : Go(where) => worker'.at = where
  BY <1>w, GoFits
<1>o. \A where \in Points, ok \in BOOLEAN :
        worker' = [worker EXCEPT !.at = where, !.ok = ok] => worker'.at = where
  BY <1>w, OutcomeFits
<1>r. \A ok \in BOOLEAN : Return(ok) => worker'.at = "report"
  BY <1>o DEF Return, Points
<1>p. Points = { "idle", "enter", "stow", "align", "aligning", "leave gate", "mark", "check",
                "post", "await", "leave", "report" }
  BY DEF Points
<1>1. CASE Fetch \/ Report
  BY <1>1 DEF Fetch, Report, NoCommand
<1>2. CASE Enter
  BY <1>2, <1>g, <1>r, <1>p DEF Enter
<1>3. CASE AskStow \/ AlignBegin \/ AlignEnd \/ Mark \/ Leave
  BY <1>3, <1>g, <1>r, <1>p DEF AskStow, AlignBegin, AlignEnd, Mark, Leave
<1>4. CASE AlignPoll \/ AlignTimeout
  BY <1>4, <1>w, <1>o, <1>p DEF AlignPoll, AlignTimeout
<1>5. CASE Check
  BY <1>5, <1>g, <1>r, <1>p DEF Check
<1> QED
  BY <1>1, <1>2, <1>3, <1>4, <1>5

\* The server's steps keep the thread of the request.
LEMMA AskStep ==
  ASSUME Rollout!TypeOK, WorkerFits, AskFits, [Next]_serverVars PROVE AskFits'
<1>c. caller \in [{"worker", "stopper"} -> Rollout!Callers]
  BY DEF Rollout!TypeOK
<1>w. worker \in WorkerFields
  BY DEF WorkerFits, WorkerFields
<1>k. ASSUME UNCHANGED caller, worker'.at = "await" => worker.at = "await" PROVE AskFits'
  BY <1>k DEF AskFits
<1>a. UNCHANGED armVars => UNCHANGED caller
  BY DEF armVars
<1>1. CASE \/ Fetch \/ Enter \/ AskStow \/ AlignBegin \/ AlignPoll \/ AlignTimeout \/ AlignEnd
           \/ Mark \/ Check \/ Leave \/ Report
  BY <1>1, <1>a, <1>k, NotAsking
<1>3. CASE Post
  <2>1. CASE Rollout!Submit("worker", Task, TRUE)
    <3>1. caller'["worker"] = [at |-> "put", job |-> Rollout!Job("worker", Task, TRUE)]
      BY <2>1, <1>c DEF Rollout!Submit
    <3> QED
      BY <3>1 DEF AskFits, Rollout!Job
  <2>2. CASE UNCHANGED armVars /\ worker' = [worker EXCEPT !.at = "leave", !.ok = FALSE]
    <3>1. worker'.at = "leave"
      BY <1>w, <2>2, OutcomeFits DEF Points
    <3> QED
      BY <1>a, <1>k, <2>2, <3>1
  <2> QED
    BY <1>3, <2>1, <2>2 DEF Post
<1>4. CASE Answer
  <2>1. caller'["worker"] \in {Rollout!Idle, caller["worker"]}
    BY <1>4, <1>c DEF Answer, Rollout!Notify
  <2>2. worker'.at # "await"
    BY <1>4, <1>w DEF Answer, WorkerFields
  <2> QED
    BY <2>1, <2>2 DEF AskFits, Rollout!Idle
<1>5. CASE Desk \/ CancelOrder \/ ConfirmAlignment \/ CancelRead \/ CancelEnd
  BY <1>5, <1>a, <1>k DEF Desk, CancelOrder, ConfirmAlignment, CancelRead, CancelEnd
<1>6. CASE CancelBackend \/ EStopArms
  BY <1>6, <1>a, <1>k DEF CancelBackend, EStopArms, Rollout!Stop
<1>7. CASE EStopLatch \/ EStopHalt \/ EStopEnd \/ Reset
  BY <1>7, <1>a, <1>k DEF EStopLatch, EStopHalt, EStopEnd, Reset
<1>8. CASE ServiceStep
  <2>1. CASE Rollout!PutJob("worker")
    <3>1. /\ caller["worker"].at = "put" /\ caller["worker"] \in Rollout!Callers
          /\ caller' = [caller EXCEPT !["worker"] = IF caller["worker"].job.wait
                                       THEN [caller["worker"] EXCEPT !.at = "wait"] ELSE Rollout!Idle]
      BY <2>1, <1>c DEF Rollout!PutJob
    <3>2. caller'["worker"] = [caller["worker"] EXCEPT !.at = "wait"]
      BY <3>1, <1>c DEF AskFits
    <3>3. caller'["worker"].at = "wait" /\ caller'["worker"].job = caller["worker"].job
      BY <3>1, <3>2 DEF Rollout!Callers
    <3> QED
      BY <1>8, <3>1, <3>3 DEF AskFits, ServiceStep
  <2>2. CASE ~Rollout!PutJob("worker")
    <3>1. UNCHANGED caller
      BY <1>8, <2>2 DEF ServiceStep, Rollout!Ready, Rollout!Get, Rollout!Begin, Rollout!StartPose,
         Rollout!Judge, Rollout!FinishPose, Rollout!EndMotion, Rollout!Report, Rollout!Closing,
         Rollout!httpVars
    <3> QED
      BY <1>8, <1>k, <3>1 DEF ServiceStep
  <2> QED
    BY <2>1, <2>2
<1>9. CASE PolicyStep \/ ServiceInterrupt
  BY <1>9, <1>k DEF PolicyStep, ServiceInterrupt, Rollout!PolicyEnds, Rollout!Interrupt, Rollout!httpVars
<1>10. CASE ServiceRestart
  <2>1. caller'["worker"] = Rollout!Idle
    BY <1>10 DEF ServiceRestart, Rollout!Restart
  <2>2. worker'.at # "await"
    BY <1>10, <1>w DEF ServiceRestart, WorkerFields
  <2> QED
    BY <2>1, <2>2 DEF AskFits, Rollout!Idle
<1>11. CASE Crash
  BY <1>11, <1>a, <1>k DEF Crash, NoCommand
<1>12. CASE UNCHANGED serverVars
  BY <1>12, <1>a, <1>k DEF serverVars
<1> QED
  BY <1>1, <1>3, <1>4, <1>5, <1>6, <1>7, <1>8, <1>9, <1>10, <1>11, <1>12 DEF Next, WorkerStep

\* Nobody else touches the mission while a cancellation holds the lock.
LEMMA LockStep == ASSUME MissionFits, LockHolds, [Next]_serverVars PROVE LockHolds'
<1> USE DEF missionVars
<1>k. ASSUME UNCHANGED <<active, canceling>> PROVE LockHolds'
  BY <1>k DEF LockHolds
<1>f. ASSUME LockFree, UNCHANGED canceling PROVE LockHolds'
  BY <1>f DEF LockHolds, LockFree
<1>1. CASE Fetch \/ Enter \/ AskStow \/ AlignBegin \/ AlignPoll \/ AlignTimeout \/ AlignEnd
  BY <1>1, <1>k DEF Fetch, Enter, AskStow, AlignBegin, AlignPoll, AlignTimeout, AlignEnd
<1>2. CASE Mark \/ Check \/ Post \/ Answer \/ Leave
  BY <1>2, <1>k DEF Mark, Check, Post, Answer, Leave
<1>3. CASE Report \/ Desk \/ CancelOrder \/ EStopEnd
  BY <1>3, <1>f DEF Report, Desk, CancelOrder, EStopEnd
<1>4. CASE CancelRead
  BY <1>4 DEF CancelRead, LockHolds, MissionFits
<1>5. CASE CancelBackend
  BY <1>5 DEF CancelBackend, LockHolds, CancelFits
<1>6. CASE CancelEnd \/ Crash
  BY <1>6 DEF CancelEnd, Crash, LockHolds, NotCanceling
<1>7. CASE EStopLatch \/ EStopHalt \/ EStopArms \/ Reset \/ ConfirmAlignment
  BY <1>7, <1>k DEF EStopLatch, EStopHalt, EStopArms, Reset, ConfirmAlignment
<1>8. CASE ServiceStep \/ PolicyStep \/ ServiceInterrupt \/ ServiceRestart
  BY <1>8, <1>k DEF ServiceStep, PolicyStep, ServiceInterrupt, ServiceRestart
<1>9. CASE UNCHANGED serverVars
  BY <1>9, <1>k DEF serverVars
<1> QED
  BY <1>1, <1>2, <1>3, <1>4, <1>5, <1>6, <1>7, <1>8, <1>9 DEF Next, WorkerStep

ServerInv ==
  /\ MissionFits /\ CancelFits /\ WorkerFits /\ AskFits /\ LockHolds
  /\ Controller!OneActiveMission /\ Rollout!TypeOK /\ Rollout!OneJobAtATime

LEMMA ServerInvariant == Spec => []ServerInv
<1>1. Init => AskFits /\ LockHolds
  <2> SUFFICES ASSUME Init PROVE AskFits /\ LockHolds
    OBVIOUS
  <2>1. caller["worker"] = Rollout!Idle /\ worker = NoCommand /\ canceling = NotCanceling
    BY DEF Init, Rollout!Init
  <2> QED
    BY <2>1 DEF AskFits, LockHolds, Rollout!Idle, NoCommand, NotCanceling
<1>2. Rollout!TypeOK /\ MissionFits /\ CancelFits /\ WorkerFits /\ AskFits /\ LockHolds /\ [Next]_serverVars
        => AskFits' /\ LockHolds'
  BY AskStep, LockStep
<1> QED
  BY <1>1, <1>2, WorkerAlwaysFits, MissionsInServer, ArmsInServer, PTL DEF Spec, ServerInv

------------------------------------------------------------------------------
(* The rollout service within the server *)

\* A step of the service's main thread, other than the end of a policy, is one of the
\* instance whose theorems are cited, and moves that thread.
LEMMA OwnStepCounts == Rollout!OwnStep => <<Runner!OwnStep>>_(Runner!rolloutVars)
<1>1. Rollout!OwnStep => Runner!OwnStep
  BY DEF Rollout!Policies, Runner!Policies, Rollout!Pill, Runner!Pill, Rollout!Idle, Runner!Idle,
     Rollout!httpVars, Runner!httpVars, Rollout!jobVars, Runner!jobVars, Rollout!armVars,
     Runner!armVars, Rollout!Result, Runner!Result, Rollout!Ready, Runner!Ready, Rollout!Closing,
     Runner!Closing, Rollout!Restart, Runner!Restart, Rollout!ProcessEnds, Runner!ProcessEnds,
     Rollout!StopJob, Runner!StopJob, Rollout!Get, Runner!Get, Rollout!Begin, Runner!Begin,
     Rollout!EndsWith, Runner!EndsWith, Rollout!StartPose, Runner!StartPose, Rollout!Judge,
     Runner!Judge, Rollout!FinishPose, Runner!FinishPose, Rollout!MoveJoints, Runner!MoveJoints,
     Rollout!EndPoseKind, Runner!EndPoseKind, Rollout!EndMotion, Runner!EndMotion,
     Rollout!Report, Runner!Report, Rollout!Notify, Runner!Notify, Rollout!OwnStep,
     Runner!OwnStep
<1>2. Rollout!OwnStep => pc' # pc
  BY DEF Rollout!OwnStep, Rollout!Ready, Rollout!Get, Rollout!Begin, Rollout!StartPose,
     Rollout!EndsWith, Rollout!Judge, Rollout!FinishPose, Rollout!EndMotion, Rollout!Report,
     Rollout!Notify, Rollout!Closing, Rollout!ProcessEnds, Rollout!Restart
<1> QED
  BY <1>1, <1>2 DEF Runner!rolloutVars

\* The worker has put its job, or cannot submit one.
Served == caller["worker"].at = "wait" \/ (caller["worker"].at # "put" /\ state # "ready")

\* What the other threads cannot do to the main thread.
LEMMA OnlyOwnSteps ==
  ASSUME Rollout!TypeOK, [Rollout!Next]_(Rollout!rolloutVars), ~Rollout!OwnStep
  PROVE  /\ pc' = "notify" => pc = "notify"
         /\ pc' = "closed" => pc = "closed"
         /\ Served => Served'
<1> USE DEF Served
<1>c. caller \in [{"worker", "stopper"} -> Rollout!Callers]
  BY DEF Rollout!TypeOK
<1>i. Rollout!Idle.at = "idle"
  BY DEF Rollout!Idle
<1>1. ASSUME NEW c \in {"worker", "stopper"}, NEW t \in Rollout!Tasks, NEW w \in BOOLEAN,
             Rollout!Submit(c, t, w)
      PROVE  UNCHANGED pc /\ (Served => Served')
  BY <1>1, <1>c, <1>i DEF Rollout!Submit, Rollout!runVars
<1>2. ASSUME NEW c \in {"worker", "stopper"}, Rollout!PutJob(c)
      PROVE  UNCHANGED pc /\ (Served => Served')
  BY <1>2, <1>c DEF Rollout!PutJob, Rollout!runVars
<1>3. ASSUME NEW c \in {"worker", "stopper"},
             Rollout!Stop(c) \/ Rollout!Shutdown(c) \/ Rollout!PutPill(c)
      PROVE  UNCHANGED pc /\ (Served => Served')
  BY <1>3, <1>c, <1>i DEF Rollout!Stop, Rollout!Shutdown, Rollout!PutPill, Rollout!runVars,
     Rollout!jobVars
<1>4. CASE Rollout!PolicyEnds \/ Rollout!Interrupt \/ Rollout!LoadFails
  BY <1>4 DEF Rollout!PolicyEnds, Rollout!EndsWith, Rollout!Interrupt, Rollout!LoadFails,
     Rollout!jobVars, Rollout!httpVars
<1>5. CASE Rollout!Restart
  BY <1>5, <1>i DEF Rollout!Restart
<1>6. CASE UNCHANGED Rollout!rolloutVars
  BY <1>6 DEF Rollout!rolloutVars
<1>7. Rollout!MainStep => Rollout!PolicyEnds
  BY DEF Rollout!MainStep, Rollout!OwnStep
<1> QED
  BY <1>1, <1>2, <1>3, <1>4, <1>5, <1>6, <1>7 DEF Rollout!Next

\* A job that is put waits for its result.
LEMMA PutWaits ==
  ASSUME Rollout!TypeOK, AskFits, Rollout!PutJob("worker")
  PROVE  /\ caller["worker"].at = "put" /\ caller'["worker"].at = "wait"
         /\ caller'["worker"].job = caller["worker"].job
<1>1. /\ caller["worker"].at = "put" /\ caller["worker"] \in Rollout!Callers
      /\ caller'["worker"] = IF caller["worker"].job.wait
                              THEN [caller["worker"] EXCEPT !.at = "wait"] ELSE Rollout!Idle
  BY DEF Rollout!PutJob, Rollout!TypeOK
<1>2. caller'["worker"] = [caller["worker"] EXCEPT !.at = "wait"]
  BY <1>1 DEF AskFits
<1> QED
  BY <1>1, <1>2 DEF Rollout!Callers

\* The service's main thread never waits, but for the queue and for a policy.
LEMMA ServiceProceeds == Spec /\ ThreadsProceed => Runner!MainProceeds
<1> DEFINE R == ServiceReady
           N == pc # "notify"
           C == pc # "closed"
           K == Served
           X == pc = "policy" \/ (pc = "get" /\ jobs = <<>>)
           O == Runner!OwnStep
           S == ServiceStep
           A == Answer
           Z == pc = "closed" /\ ServiceRestart
<1>1. ServerInv => X \/ R \/ ~N \/ ~C
  BY DEF ServerInv, Rollout!TypeOK, Rollout!Running, ServiceReady
<1>2. ServerInv /\ [Next]_serverVars => <<O>>_(Runner!rolloutVars) \/ ((N => N') /\ (C => C') /\ (K => K'))
  BY OnlyOwnSteps, OwnStepCounts, RolloutStep DEF ServerInv
<1>3. ServerInv /\ <<S>>_serverVars => <<O>>_(Runner!rolloutVars) \/ (~K /\ K')
  <2> SUFFICES ASSUME ServerInv, ServiceStep, ~Rollout!OwnStep PROVE ~K /\ K'
    BY OwnStepCounts
  <2>1. Rollout!PutJob("worker")
    BY DEF ServiceStep, Rollout!OwnStep
  <2> QED
    BY <2>1, PutWaits DEF Served, ServerInv
<1>4. <<A>>_serverVars => <<O>>_(Runner!rolloutVars)
  BY OwnStepCounts DEF Answer, Rollout!OwnStep
<1>5. <<Z>>_serverVars => <<O>>_(Runner!rolloutVars)
  BY OwnStepCounts DEF ServiceRestart, Rollout!OwnStep, Rollout!ProcessEnds
<1> HIDE DEF R, N, C, K, X, O, S, A, Z
<1>6. Spec /\ ([]<>~R \/ []<><<S>>_serverVars) /\ ([]<>N \/ []<><<A>>_serverVars)
           /\ ([]<>C \/ []<><<Z>>_serverVars)
        => []<>X \/ []<><<O>>_(Runner!rolloutVars)
  BY <1>1, <1>2, <1>3, <1>4, <1>5, ServerInvariant, PTL DEF Spec
<1> QED
  BY <1>6 DEF R, N, C, X, O, S, A, Z, ThreadsProceed, Runner!MainProceeds

\* A policy that has to end does.
LEMMA PoliciesProceed == ThreadsProceed => Runner!PolicyProceeds
<1> DEFINE M == Runner!PolicyMustEnd
           E == (event = "set" \/ job.task \in Timed) /\ PolicyStep
           G == pc = "policy" /\ (event = "set" \/ job.task \in Timed)
<1>1. <<E>>_serverVars => <<M>>_(Runner!rolloutVars)
  <2> SUFFICES ASSUME event = "set" \/ job.task \in Timed, PolicyStep PROVE <<M>>_(Runner!rolloutVars)
    OBVIOUS
  <2>1. Rollout!PolicyEnds
    BY DEF PolicyStep
  <2>2. pc' # pc
    BY <2>1 DEF Rollout!PolicyEnds, Rollout!EndsWith
  <2>3. Runner!PolicyMustEnd
    BY <2>1 DEF Runner!PolicyMustEnd, Rollout!PolicyEnds, Runner!PolicyEnds, Rollout!EndsWith,
       Runner!EndsWith, Rollout!Result, Runner!Result, Rollout!jobVars, Runner!jobVars,
       Rollout!httpVars, Runner!httpVars, Policies
  <2> QED
    BY <2>2, <2>3 DEF Runner!rolloutVars
<1> HIDE DEF M, E, G
<1>2. ([]<>~G \/ []<><<E>>_serverVars) => ([]<>~G \/ []<><<M>>_(Runner!rolloutVars))
  BY <1>1, PTL
<1> QED
  BY <1>2 DEF G, E, M, ThreadsProceed, PolicyReady, Runner!PolicyProceeds

\* While the worker's thread has its job in hand the main thread has none, and comes to rest.
LEMMA PutAlone ==
  ASSUME ServerInv, [Next]_serverVars, caller["worker"].at = "put", caller'["worker"].at = "put"
  PROVE  /\ pc \in {"load", "notify", "get", "exit", "closed"}
         /\ pc' = pc \/ <<pc, pc'>> \in {<<"load", "get">>, <<"notify", "get">>, <<"load", "exit">>,
                       <<"notify", "exit">>, <<"get", "exit">>, <<"exit", "closed">>}
         /\ ServiceStep => pc' # pc
<1>c. /\ caller \in [{"worker", "stopper"} -> Rollout!Callers]
      /\ jobs \in Seq(Rollout!Jobs \cup {Rollout!Pill})
      /\ pc \in Rollout!Running \cup {"load", "get", "notify", "exit", "closed"}
  BY DEF ServerInv, Rollout!TypeOK
<1>i. Rollout!Idle.at = "idle"
  BY DEF Rollout!Idle
<1>o. pc \notin {"exit", "closed"} => \E place \in Rollout!InFlight : Rollout!InFlight = {place}
  <2>1. <<"put", "worker">> \in Rollout!InFlight
    BY DEF Rollout!InFlight, Rollout!Putting
  <2> QED
    BY <2>1 DEF ServerInv, Rollout!OneJobAtATime
<1>p. pc \in {"load", "notify", "get", "exit", "closed"}
  <2> SUFFICES ASSUME pc \in Rollout!Running PROVE FALSE
    BY <1>c
  <2>1. <<"put", "worker">> \in Rollout!InFlight /\ <<"run", pc>> \in Rollout!InFlight
    BY DEF Rollout!InFlight, Rollout!Putting
  <2>2. <<"put", "worker">> # <<"run", pc>>
    OBVIOUS
  <2> QED
    BY <1>o, <2>1, <2>2 DEF Rollout!Running
<1>j. pc = "get" /\ jobs # <<>> => Head(jobs) = Rollout!Pill
  <2> SUFFICES ASSUME pc = "get", jobs # <<>>, Head(jobs) # Rollout!Pill PROVE FALSE
    OBVIOUS
  <2>1. 1 \in 1..Len(jobs) /\ jobs[1] = Head(jobs)
    BY <1>c
  <2>2. <<"put", "worker">> \in Rollout!InFlight /\ <<"queued", 1>> \in Rollout!InFlight
    BY <2>1 DEF Rollout!InFlight, Rollout!Putting, Rollout!Waiting
  <2>3. <<"put", "worker">> # <<"queued", 1>>
    OBVIOUS
  <2> QED
    BY <1>o, <2>2, <2>3
<1>n. [Rollout!Next]_(Rollout!rolloutVars)
  BY RolloutStep DEF ServerInv
<1>1. ASSUME NEW c \in {"worker", "stopper"},
             \/ \E t \in Rollout!Tasks, w \in BOOLEAN : Rollout!Submit(c, t, w)
             \/ Rollout!PutJob(c) \/ Rollout!Stop(c) \/ Rollout!Shutdown(c) \/ Rollout!PutPill(c)
      PROVE  UNCHANGED pc
  BY <1>1 DEF Rollout!Submit, Rollout!PutJob, Rollout!Stop, Rollout!Shutdown, Rollout!PutPill,
     Rollout!runVars
<1>2. CASE Rollout!Ready \/ Rollout!LoadFails \/ Rollout!Closing
  BY <1>p, <1>2 DEF Rollout!Ready, Rollout!LoadFails, Rollout!Closing
<1>3. CASE Rollout!Get
  BY <1>p, <1>j, <1>3 DEF Rollout!Get
<1>4. ~(\/ Rollout!Begin \/ Rollout!StartPose \/ Rollout!PolicyEnds \/ Rollout!Judge
        \/ Rollout!FinishPose \/ Rollout!EndMotion \/ Rollout!Report)
  BY <1>p DEF Rollout!Begin, Rollout!StartPose, Rollout!PolicyEnds, Rollout!Judge,
     Rollout!FinishPose, Rollout!EndMotion, Rollout!Report
<1>5. CASE Rollout!Notify \/ Rollout!Interrupt
  BY <1>p, <1>5 DEF Rollout!Notify, Rollout!Interrupt
<1>6. ~(Rollout!Restart \/ Rollout!ProcessEnds)
  BY <1>i DEF Rollout!Restart, Rollout!ProcessEnds
<1>7. UNCHANGED Rollout!rolloutVars => UNCHANGED pc
  BY DEF Rollout!rolloutVars
<1>8. pc' = pc \/ <<pc, pc'>> \in {<<"load", "get">>, <<"notify", "get">>, <<"load", "exit">>,
                       <<"notify", "exit">>, <<"get", "exit">>, <<"exit", "closed">>}
  BY <1>n, <1>1, <1>2, <1>3, <1>4, <1>5, <1>6, <1>7 DEF Rollout!Next, Rollout!MainStep
<1>9. ~Rollout!PutJob("worker")
  BY PutWaits DEF ServerInv
<1>10. ServiceStep => pc' # pc
  BY <1>4, <1>9 DEF ServiceStep, Rollout!Ready, Rollout!Get, Rollout!Closing
<1> QED
  BY <1>p, <1>8, <1>10

\* So a job in hand is put.
LEMMA PutsProceed == Spec /\ ThreadsProceed => Runner!PutProceeds("worker")
<1> DEFINE H == caller["worker"].at # "put"
           P == Runner!PutJob("worker")
           S == ServiceStep
           R == ServiceReady
           E0 == pc = "closed"
           E1 == pc \in {"exit", "closed"}
           E2 == pc \in {"get", "exit", "closed"}
<1>1. ~H => R
  BY DEF ServiceReady
<1>2. ServerInv /\ [Next]_serverVars /\ ~H /\ ~H'
      => /\ (E0 => E0') /\ (E1 => E1') /\ (E2 => E2')
         /\ <<S>>_serverVars => E2' /\ (E2 => E1') /\ (E1 => E0') /\ ~E0
  BY PutAlone
<1> HIDE DEF H, P, S, R, E0, E1, E2
<1>3. Spec /\ ([]<>~R \/ []<><<S>>_serverVars) => []<>H \/ []<><<P>>_(Runner!rolloutVars)
  BY <1>1, <1>2, ServerInvariant, PTL DEF Spec
<1> QED
  BY <1>3 DEF H, P, S, R, ThreadsProceed, Runner!PutProceeds

\* With a duration for every policy the request of the worker is answered, or fails.
LEMMA RequestEnds ==
  ASSUME Timed = Policies
  PROVE  Spec /\ ThreadsProceed
           => (caller["worker"].at \in {"put", "wait"} ~> caller["worker"].at \notin {"put", "wait"})
<1>1. Spec => Runner!Spec
  BY ImplementsRollout, SameRollout, PTL DEF Rollout!Spec, Runner!Spec
<1>2. Runner!Spec /\ Runner!MainProceeds /\ Runner!PolicyProceeds /\ Runner!PutProceeds("worker")
        => Runner!AnswerComes("worker")
  BY RunnerAssumptions, Runner!OneAnswer
<1>3. Spec /\ ThreadsProceed => Runner!AnswerComes("worker")
  BY <1>1, <1>2, ServiceProceeds, PoliciesProceed, PutsProceed
<1> DEFINE A == caller["worker"].at \in {"put", "wait"}
           B == A /\ caller["worker"].job.task \notin Runner!Policies \ Timed
           D == caller["worker"].at \notin {"put", "wait"}
<1>4. A => B
  BY DEF Runner!Policies, Policies
<1>5. Runner!AnswerComes("worker") => (B ~> D)
  BY DEF Runner!AnswerComes
<1> HIDE DEF A, B, D
<1>6. Spec /\ ThreadsProceed => (A ~> D)
  BY <1>3, <1>4, <1>5, PTL
<1> QED
  BY <1>6 DEF A, D

------------------------------------------------------------------------------
(* The worker's way through a command *)

\* Where the worker goes from each point.
Onward ==
  [p \in Points |->
     CASE p = "idle" -> {"enter"}
       [] p = "enter" -> {"stow", "align", "mark", "report"}
       [] p = "stow" -> {"mark", "report"}
       [] p = "align" -> {"aligning"}
       [] p = "aligning" -> {"leave gate"}
       [] p = "leave gate" -> {"report"}
       [] p = "mark" -> {"check"}
       [] p = "check" -> {"post", "report"}
       [] p = "post" -> {"await", "leave"}
       [] p = "await" -> {"leave"}
       [] p = "leave" -> {"report"}
       [] p = "report" -> {"idle"}]

\* Its own steps take it there.
LEMMA WorkerGoesOn ==
  ASSUME WorkerFits, WorkerStep \/ AlignTimeout
  PROVE  worker'.at \in Onward[worker.at]
<1>w. worker \in WorkerFields /\ aligned \in BOOLEAN
  BY DEF WorkerFits, WorkerFields
<1>g. \A where \in Points : Go(where) => worker'.at = where
  BY <1>w, GoFits
<1>o. \A where \in Points, ok \in BOOLEAN :
        worker' = [worker EXCEPT !.at = where, !.ok = ok] => worker'.at = where
  BY <1>w, OutcomeFits
<1>r. \A ok \in BOOLEAN : Return(ok) => worker'.at = "report"
  BY <1>o DEF Return, Points
<1>p. Points = { "idle", "enter", "stow", "align", "aligning", "leave gate", "mark", "check",
                "post", "await", "leave", "report" }
  BY DEF Points
<1>f. /\ Onward["idle"] = {"enter"} /\ Onward["report"] = {"idle"}
      /\ Onward["enter"] = {"stow", "align", "mark", "report"}
      /\ Onward["stow"] = {"mark", "report"} /\ Onward["align"] = {"aligning"}
      /\ Onward["aligning"] = {"leave gate"} /\ Onward["leave gate"] = {"report"}
      /\ Onward["mark"] = {"check"} /\ Onward["check"] = {"post", "report"}
      /\ Onward["post"] = {"await", "leave"} /\ Onward["leave"] = {"report"}
  BY <1>p DEF Onward
<1>1. CASE Fetch \/ Report
  <2>1. \/ worker.at = "idle" /\ worker'.at = "enter"
        \/ worker.at = "report" /\ worker'.at = "idle"
    BY <1>1 DEF Fetch, Report, NoCommand
  <2> QED
    BY <1>f, <2>1
<1>2. CASE Enter
  BY <1>2, <1>g, <1>r, <1>p, <1>f DEF Enter
<1>3. CASE AskStow \/ AlignBegin \/ AlignEnd \/ Mark \/ Leave
  BY <1>3, <1>g, <1>r, <1>p, <1>f DEF AskStow, AlignBegin, AlignEnd, Mark, Leave
<1>4. CASE AlignPoll \/ AlignTimeout
  BY <1>4, <1>w, <1>o, <1>p, <1>f DEF AlignPoll, AlignTimeout
<1>5. CASE Check
  BY <1>5, <1>g, <1>r, <1>p, <1>f DEF Check
<1>6. CASE Post
  <2>1. worker.at = "post" /\ worker'.at \in {"await", "leave"}
    BY <1>6, <1>g, <1>o, <1>p DEF Post
  <2> QED
    BY <1>f, <2>1
<1> QED
  BY <1>1, <1>2, <1>3, <1>4, <1>5, <1>6 DEF WorkerStep

\* Nobody takes it elsewhere, but for a crash.
LEMMA WorkerCourse ==
  ASSUME WorkerFits, [Next]_serverVars
  PROVE  worker'.at \in {worker.at, "idle"} \cup Onward[worker.at]
<1>w. worker \in WorkerFields
  BY DEF WorkerFits, WorkerFields
<1>1. CASE WorkerStep \/ AlignTimeout
  BY <1>1, WorkerGoesOn
<1>2. CASE Answer \/ ServiceRestart
  <2>1. worker.at = "await" => Onward[worker.at] = {"leave"}
    BY <1>w DEF Onward, WorkerFields
  <2>2. worker'.at = worker.at \/ (worker.at = "await" /\ worker'.at = "leave")
    BY <1>2, <1>w DEF Answer, ServiceRestart, WorkerFields
  <2> QED
    BY <2>1, <2>2
<1>3. CASE Desk \/ ConfirmAlignment \/ CancelOrder \/ CancelRead \/ CancelBackend \/ CancelEnd
  BY <1>3 DEF Desk, ConfirmAlignment, CancelOrder, CancelRead, CancelBackend, CancelEnd
<1>4. CASE EStopLatch \/ EStopHalt \/ EStopArms \/ EStopEnd \/ Reset
  BY <1>4 DEF EStopLatch, EStopHalt, EStopArms, EStopEnd, Reset
<1>5. CASE ServiceStep \/ PolicyStep \/ ServiceInterrupt
  BY <1>5 DEF ServiceStep, PolicyStep, ServiceInterrupt
<1>6. CASE Crash
  BY <1>6 DEF Crash, NoCommand
<1>7. CASE UNCHANGED serverVars
  BY <1>7 DEF serverVars
<1> QED
  BY <1>1, <1>2, <1>3, <1>4, <1>5, <1>6, <1>7 DEF Next

\* From a point where it waits for nothing it goes on.
Moves(p) == worker.at = p ~> worker.at \in Onward[p] \cup {"idle"}

LEMMA FreeMoves ==
  ASSUME NEW p \in {"enter", "stow", "align", "leave gate", "mark", "check", "leave"}
  PROVE  Spec /\ ThreadsProceed => Moves(p)
<1> DEFINE A == worker.at = p
           B == worker.at \in Onward[p] \cup {"idle"}
           R == WorkerReady
           W == WorkerStep
<1>1. A => R
  BY DEF WorkerReady
<1>2. ServerInv /\ [Next]_serverVars /\ A => A' \/ B'
  BY WorkerCourse DEF ServerInv
<1>3. ServerInv /\ <<W>>_serverVars /\ A => B'
  BY WorkerGoesOn DEF ServerInv
<1>4. ThreadsProceed => []<>~R \/ []<><<W>>_serverVars
  BY DEF ThreadsProceed
<1> HIDE DEF A, B, R, W
<1>5. Spec /\ ThreadsProceed => (A ~> B)
  BY <1>1, <1>2, <1>3, <1>4, ServerInvariant, PTL DEF Spec
<1> QED
  BY <1>5 DEF A, B, Moves

\* The wait for an alignment ends with the hour at last.
LEMMA GateMoves == Spec /\ ThreadsProceed => Moves("aligning")
<1> DEFINE A == worker.at = "aligning"
           N == worker.at # "aligning"
           B == worker.at \in Onward["aligning"] \cup {"idle"}
           T == AlignTimeout
<1>1. ServerInv /\ [Next]_serverVars /\ A => A' \/ B'
  BY WorkerCourse DEF ServerInv
<1>2. ServerInv /\ <<T>>_serverVars /\ A => B'
  BY WorkerGoesOn DEF ServerInv
<1>3. A => ~N
  OBVIOUS
<1>4. ThreadsProceed => []<>N \/ []<><<T>>_serverVars
  BY DEF ThreadsProceed
<1> HIDE DEF A, N, B, T
<1>5. Spec /\ ThreadsProceed => (A ~> B)
  BY <1>1, <1>2, <1>3, <1>4, ServerInvariant, PTL DEF Spec
<1> QED
  BY <1>5 DEF A, B, Moves

\* The worker's awaiting ends with its request.
LEMMA AwaitMoves == ASSUME Timed = Policies PROVE Spec /\ ThreadsProceed => Moves("await")
<1> DEFINE A == worker.at = "await"
           B == worker.at \in Onward["await"] \cup {"idle"}
           C == caller["worker"].at \in {"put", "wait"}
           D == caller["worker"].at \notin {"put", "wait"}
<1>1. ServerInv /\ [Next]_serverVars /\ A => A' \/ B'
  BY WorkerCourse DEF ServerInv
<1>2. ServerInv /\ A => C /\ ~D
  BY DEF ServerInv, AskFits
<1>3. Spec /\ ThreadsProceed => (C ~> D)
  BY RequestEnds
<1> HIDE DEF A, B, C, D
<1>4. Spec /\ ThreadsProceed => (A ~> B)
  BY <1>1, <1>2, <1>3, ServerInvariant, PTL DEF Spec
<1> QED
  BY <1>4 DEF A, B, Moves

\* A thread with no request in hand gets one from the worker alone.
LEMMA IdleStays ==
  ASSUME ServerInv, [Next]_serverVars, caller["worker"].at = "idle", worker'.at = worker.at
  PROVE  caller'["worker"].at = "idle"
<1>c. caller \in [{"worker", "stopper"} -> Rollout!Callers]
  BY DEF ServerInv, Rollout!TypeOK
<1>i. Rollout!Idle.at = "idle"
  BY DEF Rollout!Idle
<1>w. WorkerFits /\ worker.at \in Points
  BY DEF ServerInv, WorkerFits
<1>m. ~(WorkerStep \/ AlignTimeout)
  <2>1. worker.at \notin Onward[worker.at]
    BY <1>w DEF Onward, Points
  <2> QED
    BY <1>w, <2>1, WorkerGoesOn
<1>a. UNCHANGED armVars => UNCHANGED caller
  BY DEF armVars
<1>1. CASE Answer
  BY <1>1, <1>c, <1>i DEF Answer, Rollout!Notify
<1>2. CASE Desk \/ ConfirmAlignment \/ CancelOrder \/ CancelRead \/ CancelBackend \/ CancelEnd
  BY <1>2, <1>a DEF Desk, ConfirmAlignment, CancelOrder, CancelRead, CancelBackend, CancelEnd,
     Rollout!Stop
<1>3. CASE EStopLatch \/ EStopHalt \/ EStopArms \/ EStopEnd \/ Reset
  BY <1>3, <1>a DEF EStopLatch, EStopHalt, EStopArms, EStopEnd, Reset, Rollout!Stop
<1>4. CASE ServiceStep
  BY <1>4 DEF ServiceStep, Rollout!PutJob, Rollout!Ready, Rollout!Get, Rollout!Begin,
     Rollout!StartPose, Rollout!Judge, Rollout!FinishPose, Rollout!EndMotion, Rollout!Report,
     Rollout!Closing, Rollout!httpVars
<1>5. CASE PolicyStep \/ ServiceInterrupt
  BY <1>5 DEF PolicyStep, ServiceInterrupt, Rollout!PolicyEnds, Rollout!Interrupt, Rollout!httpVars
<1>6. CASE ServiceRestart
  BY <1>6, <1>i DEF ServiceRestart, Rollout!Restart
<1>7. CASE Crash \/ UNCHANGED serverVars
  BY <1>7, <1>a DEF Crash, serverVars
<1> QED
  BY <1>m, <1>1, <1>2, <1>3, <1>4, <1>5, <1>6, <1>7 DEF Next

\* A request that a crashed server left behind is over at last, and the worker makes its own.
LEMMA PostMoves == ASSUME Timed = Policies PROVE Spec /\ ThreadsProceed => Moves("post")
<1> DEFINE A == worker.at = "post"
           B == worker.at \in Onward["post"] \cup {"idle"}
           C == caller["worker"].at \in {"put", "wait"}
           D == caller["worker"].at \notin {"put", "wait"}
           R == WorkerReady
           W == WorkerStep
<1>1. ServerInv /\ [Next]_serverVars /\ A => A' \/ B'
  BY WorkerCourse DEF ServerInv
<1>2. ServerInv /\ <<W>>_serverVars /\ A => B'
  BY WorkerGoesOn DEF ServerInv
<1>3. ServerInv /\ A /\ D => R
  BY DEF ServerInv, AskFits, WorkerReady
<1>4. ServerInv /\ [Next]_serverVars /\ A /\ D /\ A' => D'
  BY IdleStays DEF ServerInv, AskFits
<1>5. C \/ D
  OBVIOUS
<1>6. Spec /\ ThreadsProceed => (C ~> D)
  BY RequestEnds
<1>7. ThreadsProceed => []<>~R \/ []<><<W>>_serverVars
  BY DEF ThreadsProceed
<1> HIDE DEF A, B, C, D, R, W
<1>8. Spec /\ ThreadsProceed => (A ~> B)
  BY <1>1, <1>2, <1>3, <1>4, <1>5, <1>6, <1>7, ServerInvariant, PTL DEF Spec
<1> QED
  BY <1>8 DEF A, B, Moves

------------------------------------------------------------------------------
(* The worker returns *)

\* Only cancel() and a crash give the lock away or take it back.
LEMMA OnlyCancelling ==
  ASSUME [Next]_serverVars, ~(CancelRead \/ CancelBackend \/ CancelEnd \/ Crash)
  PROVE  UNCHANGED canceling
<1>1. CASE Fetch \/ Enter \/ AskStow \/ AlignBegin \/ AlignPoll \/ AlignTimeout \/ AlignEnd
  BY <1>1 DEF Fetch, Enter, AskStow, AlignBegin, AlignPoll, AlignTimeout, AlignEnd
<1>2. CASE Mark \/ Check \/ Post \/ Answer \/ Leave \/ Report
  BY <1>2 DEF Mark, Check, Post, Answer, Leave, Report
<1>3. CASE Desk \/ ConfirmAlignment \/ CancelOrder
  BY <1>3 DEF Desk, ConfirmAlignment, CancelOrder
<1>4. CASE EStopLatch \/ EStopHalt \/ EStopArms \/ EStopEnd \/ Reset
  BY <1>4 DEF EStopLatch, EStopHalt, EStopArms, EStopEnd, Reset
<1>5. CASE ServiceStep \/ PolicyStep \/ ServiceInterrupt \/ ServiceRestart
  BY <1>5 DEF ServiceStep, PolicyStep, ServiceInterrupt, ServiceRestart
<1>6. CASE UNCHANGED serverVars
  BY <1>6 DEF serverVars
<1> QED
  BY <1>1, <1>2, <1>3, <1>4, <1>5, <1>6 DEF Next, WorkerStep

\* A cancellation gives the lock back: the order it is about cannot end under it.
LEMMA LockReturns == Spec /\ ThreadsProceed => (~LockFree ~> LockFree)
<1> DEFINE F == LockFree
           P == canceling.at \in {"wait", "run"}
           N == canceling.at \notin {"wait", "run"}
           E == canceling.at = "end"
           R == CancelReady
           B == CancelBackend
           C == CancelEnd
<1>t. ServerInv => canceling \in [at : {"none", "wait", "run", "end"}, order : Orders \cup {NoOrder}]
  BY DEF ServerInv, CancelFits
<1>1. ServerInv => F \/ P \/ E
  BY <1>t DEF LockFree
<1>2. ServerInv /\ CancelBackend => E'
  BY <1>t DEF CancelBackend
<1>3. CancelEnd \/ Crash => F'
  BY DEF CancelEnd, Crash, NotCanceling, LockFree
<1>4. ServerInv /\ [Next]_serverVars /\ P => P' \/ E' \/ F'
  BY <1>2, <1>3, OnlyCancelling DEF CancelRead, LockFree
<1>5. ServerInv /\ [Next]_serverVars /\ E => E' \/ F'
  BY <1>3, OnlyCancelling DEF CancelRead, CancelBackend, LockFree
<1>6. ServerInv /\ E => R
  <2> SUFFICES ASSUME ServerInv, E PROVE R
    OBVIOUS
  <2>1. canceling.order = active /\ active \in Orders /\ orderState[active] = "RUNNING"
    BY DEF ServerInv, LockHolds, Controller!OneActiveMission
  <2> QED
    BY <2>1 DEF CancelReady, Controller!TerminalOrderStates
<1>7. P => ~N
  OBVIOUS
<1>8. ThreadsProceed => ([]<>N \/ []<><<B>>_serverVars) /\ ([]<>~R \/ []<><<C>>_serverVars)
  BY DEF ThreadsProceed
<1>9. ServerInv /\ <<B>>_serverVars => E'
  BY <1>2
<1>10. <<C>>_serverVars => F'
  BY <1>3
<1> HIDE DEF F, P, N, E, R, B, C
<1>11. Spec /\ ThreadsProceed => (~F ~> F)
  BY <1>1, <1>4, <1>5, <1>6, <1>7, <1>8, <1>9, <1>10, ServerInvariant, PTL DEF Spec
<1> QED
  BY <1>11 DEF F

\* So the worker, which needs the lock to report, gets it when no cancellation comes between
\* again and again.
LEMMA ReportMoves == Spec /\ ThreadsProceed => []<><<CancelRead>>_serverVars \/ Moves("report")
<1> DEFINE A == worker.at = "report"
           B == worker.at \in Onward["report"] \cup {"idle"}
           F == LockFree
           R == WorkerReady
           W == WorkerStep
           C == CancelRead
<1>1. ServerInv /\ [Next]_serverVars /\ A => A' \/ B'
  BY WorkerCourse DEF ServerInv
<1>2. ServerInv /\ <<W>>_serverVars /\ A => B'
  BY WorkerGoesOn DEF ServerInv
<1>3. A /\ F => R
  BY DEF WorkerReady
<1>4. [Next]_serverVars /\ F => F' \/ <<C>>_serverVars
  <2> SUFFICES ASSUME [Next]_serverVars, F, ~<<C>>_serverVars PROVE F'
    OBVIOUS
  <2>1. CASE CancelRead
    BY <2>1 DEF serverVars, LockFree
  <2>2. CASE CancelEnd \/ Crash
    BY <2>2 DEF CancelEnd, Crash, NotCanceling, LockFree
  <2>3. ~CancelBackend
    BY DEF CancelBackend, LockFree
  <2>4. UNCHANGED canceling => F'
    BY DEF LockFree
  <2> QED
    BY <2>1, <2>2, <2>3, <2>4, OnlyCancelling
<1>5. ThreadsProceed => []<>~R \/ []<><<W>>_serverVars
  BY DEF ThreadsProceed
<1>6. Spec /\ ThreadsProceed => (~F ~> F)
  BY LockReturns
<1> HIDE DEF A, B, F, R, W, C
<1>7. Spec /\ ThreadsProceed => []<><<C>>_serverVars \/ (A ~> B)
  BY <1>1, <1>2, <1>3, <1>4, <1>5, <1>6, ServerInvariant, PTL DEF Spec
<1> QED
  BY <1>7 DEF A, B, C, Moves

\* With a duration for every policy the worker always comes back from a command, whatever
\* becomes of the rollout service and of either process, unless orders are canceled for ever:
\* each cancellation takes the lock that the worker needs to report.
THEOREM WorkerComesBack ==
  ASSUME Timed = Policies
  PROVE  Spec /\ ThreadsProceed => []<><<CancelRead>>_serverVars \/ WorkerReturns
<1> DEFINE At(p) == worker.at = p
           On(p) == worker.at \in Onward[p] \cup {"idle"}
           I == worker.at = "idle"
           B == worker.at # "idle"
           C == []<><<CancelRead>>_serverVars
<1>p. Points = { "idle", "enter", "stow", "align", "aligning", "leave gate", "mark", "check",
                "post", "await", "leave", "report" }
  BY DEF Points
<1>1. ServerInv => worker.at \in Points
  BY DEF ServerInv, WorkerFits
<1>2. /\ On("enter") => At("stow") \/ At("align") \/ At("mark") \/ At("report") \/ I
      /\ On("stow") => At("mark") \/ At("report") \/ I
      /\ On("align") => At("aligning") \/ I
      /\ On("aligning") => At("leave gate") \/ I
      /\ On("leave gate") => At("report") \/ I
      /\ On("mark") => At("check") \/ I
      /\ On("check") => At("post") \/ At("report") \/ I
      /\ On("post") => At("await") \/ At("leave") \/ I
      /\ On("await") => At("leave") \/ I
      /\ On("leave") => At("report") \/ I
      /\ On("report") => I
  BY <1>p DEF Onward
<1>3. ServerInv => \/ I \/ At("enter") \/ At("stow") \/ At("align") \/ At("aligning")
                   \/ At("leave gate") \/ At("mark") \/ At("check") \/ At("post")
                   \/ At("await") \/ At("leave") \/ At("report")
  BY <1>1, <1>p
<1>4. Spec /\ ThreadsProceed =>
        /\ Moves("enter") /\ Moves("stow") /\ Moves("align") /\ Moves("aligning")
        /\ Moves("leave gate") /\ Moves("mark") /\ Moves("check") /\ Moves("post")
        /\ Moves("await") /\ Moves("leave")
  BY FreeMoves, GateMoves, PostMoves, AwaitMoves
<1>5. Spec /\ ThreadsProceed => C \/ Moves("report")
  BY ReportMoves
<1>6. B => ~I
  OBVIOUS
<1> HIDE DEF C, I, B
<1>7. Spec /\ ThreadsProceed => C \/ (B ~> I)
  BY <1>2, <1>3, <1>4, <1>5, <1>6, ServerInvariant, PTL DEF Moves
<1> QED
  BY <1>7 DEF C, I, B, WorkerReturns

=============================================================================
