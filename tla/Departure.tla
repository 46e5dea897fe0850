------------------------------- MODULE Departure -------------------------------
(***************************************************************************)
(* How a departure reaches the vehicle and how a stop reaches the          *)
(* departure.  On the PC, scripts/map_20260930_manual/jdamr_depart.py runs *)
(* as "go" and as "stop", one process per command; on the vehicle the      *)
(* resident executor (box_service.py --serve) runs one requested attempt   *)
(* at a time.  They meet in a spool directory, reached over ssh, and the   *)
(* two helpers meet in state.json.                                         *)
(*                                                                         *)
(* A remote command may never arrive, arrive after the PC has given it up, *)
(* or work while its reply is lost.  What one command does under the run's *)
(* file lock is one action.  The attempt is reduced to the goals it sends: *)
(* whether it drives, may drive, or has been told to stop.                 *)
(***************************************************************************)
EXTENDS Naturals, FiniteSets

CONSTANTS
  Goes,      \* go processes
  Stops,     \* stop processes
  NoRun,     \* no run recorded, no attempt
  Crashes    \* the executor process may die

\* run_cycle() makes a run identifier per call; go_one() calls it once more when the
\* executor had no map.
Runs == Goes \X {1, 2}

ASSUME DepartureAssumption ==
  /\ NoRun \notin Runs
  /\ Crashes \in BOOLEAN

Ended == { "done", "failed", "unsent" }
GoPoints == { "new", "check", "prepare", "load", "save", "submit", "follow",
              "retry", "leave", "restart", "redepart", "recheck" } \cup Ended
StopPoints == { "new", "load", "save", "cancel", "lock", "resignal", "end" }
ExecPoints == { "down", "idle", "claim", "start", "attempt", "send", "finish" }

\* state.json: last_unit, and the goes that started before the recorded stop_unix.
Files == [unit : Runs \cup {NoRun}, stopped : SUBSET Goes]

VARIABLES
  file,    \* state.json
  go,      \* per go: where it is, which of its runs, the copy of state.json it holds
  stop,    \* per stop: where it is, its copy, the first reply, the exit status
  spool,   \* per run: "part", "request", "running", "cancelled"
  code,    \* per run: the result file, "none" as long as there is none
  wire,    \* per run: where the publishing command is
  fresh,   \* per run: the heartbeat is at most 30 s old
  exec,    \* the executor: where it is, its run, stop_requested, leaving, whether the node
           \* was told to stop, and what the attempt has come to
  signal,  \* a SIGINT the executor has not handled yet
  driving  \* runs with a navigation goal that may move the vehicle

departVars == <<file, go, stop, spool, code, wire, fresh, exec, signal, driving>>
pcVars == <<file, go, stop>>
piVars == <<spool, code, wire, fresh, exec, signal, driving>>

RunOf(g) == <<g, go[g].try>>

FreshExecutor ==
  [at |-> "idle", run |-> NoRun, flag |-> FALSE, leaving |-> FALSE, told |-> FALSE,
   out |-> "unmoved"]
UnitActive == exec.at # "down" /\ ~exec.leaving
HasNode == exec.at \in {"attempt", "send", "finish"}
Interrupted == signal \/ exec.flag \/ exec.told

Init ==
  /\ file = [unit |-> NoRun, stopped |-> {}]
  /\ go = [g \in Goes |-> [at |-> "new", try |-> 1, copy |-> file]]
  /\ stop = [s \in Stops |-> [at |-> "new", copy |-> file, first |-> FALSE, exit |-> "none"]]
  /\ spool = [r \in Runs |-> {}]
  /\ code = [r \in Runs |-> "none"]
  /\ wire = [r \in Runs |-> "none"]
  /\ fresh = [r \in Runs |-> FALSE]
  /\ exec = FreshExecutor
  /\ signal = FALSE
  /\ driving = {}

------------------------------------------------------------------------------
(* go *)

GoTo(g, point) == go' = [go EXCEPT ![g].at = point]

\* Requests and running attempts seen by ls; a session check that fails ends go alike.
CycleInSpool == \E r \in Runs : spool[r] \cap {"request", "running"} # {}

GoStart(g) ==
  /\ go[g].at = "new"
  /\ GoTo(g, "check")
  /\ UNCHANGED <<file, stop, piVars>>

\* refuse_during_cycle(), before the first run and before the second one.
GoCheck(g) ==
  /\ go[g].at \in {"check", "recheck"}
  /\ \/ ~CycleInSpool /\ GoTo(g, "prepare")
     \/ GoTo(g, "failed")
  /\ UNCHANGED <<file, stop, piVars>>

\* The heartbeat is touched and the executor started if it is not active.
GoPrepare(g) ==
  /\ go[g].at = "prepare"
  /\ fresh' = [fresh EXCEPT ![RunOf(g)] = TRUE]
  /\ \/ UnitActive /\ GoTo(g, "load") /\ UNCHANGED exec
     \/ /\ exec.at = "down" /\ GoTo(g, "load")
        /\ exec' = FreshExecutor
     \/ GoTo(g, "failed") /\ UNCHANGED exec
  /\ UNCHANGED <<file, stop, spool, code, wire, signal, driving>>

\* load_state(), then save_state() of the copy with this run's unit.
GoLoad(g) ==
  /\ go[g].at = "load"
  /\ go' = [go EXCEPT ![g].at = "save", ![g].copy = file]
  /\ UNCHANGED <<file, stop, piVars>>

GoSave(g) ==
  /\ go[g].at = "save"
  /\ file' = [go[g].copy EXCEPT !.unit = RunOf(g)]
  /\ GoTo(g, "submit")
  /\ UNCHANGED <<stop, piVars>>

\* The publishing command is given to ssh; whatever the reply, go follows the run.
GoSubmit(g) ==
  /\ go[g].at = "submit"
  /\ wire' = [wire EXCEPT ![RunOf(g)] = "sent"]
  /\ GoTo(g, "follow")
  /\ UNCHANGED <<file, stop, spool, code, fresh, exec, signal, driving>>

\* Mutant: a request that is there is waited for, whoever may claim it.
GoPollForEver(g, heard) ==
  LET r == RunOf(g)
      say(point) == IF heard THEN GoTo(g, point) ELSE UNCHANGED go
  IN /\ go[g].at = "follow"
     /\ fresh' = [fresh EXCEPT ![r] = TRUE]
     /\ IF code[r] # "none" THEN say(IF code[r] = "ok" THEN "done" ELSE "failed") /\ UNCHANGED spool
        ELSE IF spool[r] \cap {"request", "running"} # {} THEN UNCHANGED <<go, spool>>
        ELSE spool' = [spool EXCEPT ![r] = @ \cup {"cancelled"}] /\ say("unsent")
     /\ UNCHANGED <<file, stop, code, wire, exec, signal, driving>>

\* Mutant: a run that is not in the spool is reported, and nothing is left there.
GoPollUnmarked(g, heard) ==
  /\ go[g].at = "follow"
  /\ fresh' = [fresh EXCEPT ![RunOf(g)] = TRUE]
  /\ code[RunOf(g)] = "none" /\ spool[RunOf(g)] \cap {"request", "running"} = {}
  /\ IF heard THEN GoTo(g, "unsent") ELSE UNCHANGED go
  /\ UNCHANGED <<file, stop, spool, code, wire, exec, signal, driving>>

\* running(): touches the heartbeat, then reads the run's files under its lock.  heard:
\* the reply arrives; otherwise only what the command does on the vehicle remains.
GoPoll(g, heard) ==
  LET r == RunOf(g)
      present == spool[r] \cap {"request", "running"} # {}
      say(point) == IF heard THEN GoTo(g, point) ELSE UNCHANGED go
  IN /\ go[g].at = "follow"
     /\ fresh' = [fresh EXCEPT ![r] = TRUE]
     /\ \/ /\ code[r] # "none"
           /\ say(CASE code[r] = "ok" -> "done"
                    [] code[r] = "nomap" /\ go[g].try = 1 -> "retry"
                    [] OTHER -> "failed")
           /\ UNCHANGED spool
        \/ /\ code[r] = "none" /\ present /\ UnitActive
           /\ UNCHANGED <<go, spool>>
        \/ /\ code[r] = "none" /\ present /\ ~UnitActive
           /\ spool' = [spool EXCEPT ![r] = @ \ {"request"}]
           /\ say("unsent")
        \/ /\ code[r] = "none" /\ ~present
           /\ spool' = [spool EXCEPT ![r] = @ \cup {"cancelled"}]
           /\ say("unsent")
     /\ UNCHANGED <<file, stop, code, wire, exec, signal, driving>>

\* No ssh for LINK_LOST_GIVE_UP_S, Ctrl-C, or the end of the PC.
GoQuits(g) ==
  /\ go[g].at \notin Ended \cup {"new"}
  /\ GoTo(g, "failed")
  /\ UNCHANGED <<file, stop, piVars>>

\* No map: stop_requested_since(), then restart_executor(), refused during a cycle.
GoRetry(g) ==
  /\ go[g].at = "retry"
  /\ \/ g \notin file.stopped /\ ~CycleInSpool /\ GoTo(g, "leave")
     \/ GoTo(g, "failed")
  /\ UNCHANGED <<file, stop, piVars>>

\* systemctl stop: SIGTERM, handled at once.
GoLeave(g) ==
  /\ go[g].at = "leave"
  /\ exec' = IF exec.at = "down" THEN exec
             ELSE [exec EXCEPT !.leaving = TRUE, !.flag = TRUE, !.told = @ \/ HasNode]
  /\ GoTo(g, "restart")
  /\ UNCHANGED <<file, stop, spool, code, wire, fresh, signal, driving>>

\* systemctl stop returns once the unit is down; then start_executor().
GoRestart(g) ==
  /\ go[g].at = "restart"
  /\ exec.at = "down" \/ UnitActive
  /\ exec' = IF UnitActive THEN exec ELSE FreshExecutor
  /\ GoTo(g, "redepart")
  /\ UNCHANGED <<file, stop, spool, code, wire, fresh, signal, driving>>

\* The second stop_requested_since().
GoRedepart(g) ==
  /\ go[g].at = "redepart"
  /\ IF g \in file.stopped THEN GoTo(g, "failed")
     ELSE go' = [go EXCEPT ![g].at = "recheck", ![g].try = 2]
  /\ UNCHANGED <<file, stop, piVars>>

------------------------------------------------------------------------------
(* The publishing command on the vehicle, which may run late or never *)

PublishLost(r) ==
  /\ wire[r] = "sent"
  /\ wire' = [wire EXCEPT ![r] = "gone"]
  /\ UNCHANGED <<pcVars, spool, code, fresh, exec, signal, driving>>

\* cat > run.part
PublishPart(r) ==
  /\ wire[r] = "sent"
  /\ wire' = [wire EXCEPT ![r] = "written"]
  /\ spool' = [spool EXCEPT ![r] = @ \cup {"part"}]
  /\ UNCHANGED <<pcVars, code, fresh, exec, signal, driving>>

\* Under the lock: nothing if the run is cancelled (or the part is gone), else the
\* part becomes the request.
Publish(r) ==
  /\ wire[r] = "written"
  /\ wire' = [wire EXCEPT ![r] = "gone"]
  /\ spool' = [spool EXCEPT ![r] =
       IF "cancelled" \in @ \/ "part" \notin @ THEN @ \ {"part"}
       ELSE (@ \ {"part"}) \cup {"request"}]
  /\ UNCHANGED <<pcVars, code, fresh, exec, signal, driving>>

------------------------------------------------------------------------------
(* stop *)

StopTo(s, point) == stop' = [stop EXCEPT ![s].at = point]

\* systemctl kill --signal=SIGINT: fails when the unit is not active.
Signalled == signal' = (signal \/ exec.at # "down")

\* The first signal; it may be lost, or only its reply.
StopSignal(s, arrives, heard) ==
  /\ stop[s].at = "new"
  /\ IF arrives THEN Signalled ELSE UNCHANGED signal
  /\ stop' = [stop EXCEPT ![s].at = "load",
                          ![s].first = arrives /\ heard /\ exec.at # "down"]
  /\ UNCHANGED <<file, go, spool, code, wire, fresh, exec, driving>>

\* load_state(), and stop_unix set in the copy: at or after the start of every go so far.
StopLoad(s) ==
  /\ stop[s].at = "load"
  /\ stop' = [stop EXCEPT ![s].at = "save",
                          ![s].copy = [unit |-> file.unit,
                                       stopped |-> {g \in Goes : go[g].at # "new"}]]
  /\ UNCHANGED <<file, go, piVars>>

\* save_state(); without a recorded run the first reply decides.
StopSave(s) ==
  /\ stop[s].at = "save"
  /\ file' = stop[s].copy
  /\ IF stop[s].copy.unit # NoRun THEN StopTo(s, "cancel")
     ELSE stop' = [stop EXCEPT ![s].at = "end",
                               ![s].exit = IF stop[s].first THEN "ok" ELSE "failed"]
  /\ UNCHANGED <<go, piVars>>

\* The remote command of a recorded run: signal, then under the run's lock mark it
\* cancelled and remove what is not claimed, then signal again.
StopFirst(s) ==
  /\ stop[s].at = "cancel"
  /\ Signalled
  /\ StopTo(s, "lock")
  /\ UNCHANGED <<file, go, spool, code, wire, fresh, exec, driving>>

StopCancel(s) ==
  /\ stop[s].at = "lock"
  /\ spool' = [spool EXCEPT ![stop[s].copy.unit] = (@ \ {"part", "request"}) \cup {"cancelled"}]
  /\ StopTo(s, "resignal")
  /\ UNCHANGED <<file, go, code, wire, fresh, exec, signal, driving>>

\* Mutant: one signal before the files are changed, none after.
StopAgainNot(s) ==
  /\ stop[s].at = "resignal"
  /\ stop' = [stop EXCEPT ![s].at = "end",
                          ![s].exit = IF @ = "failed" \/ exec.at = "down" THEN "failed" ELSE "ok"]
  /\ UNCHANGED <<file, go, spool, code, wire, fresh, exec, signal, driving>>

\* The exit status is the second signal's, unless the PC has given up.
StopAgain(s) ==
  /\ stop[s].at = "resignal"
  /\ Signalled
  /\ stop' = [stop EXCEPT ![s].at = "end",
                          ![s].exit = IF @ = "failed" \/ exec.at = "down" THEN "failed" ELSE "ok"]
  /\ UNCHANGED <<file, go, spool, code, wire, fresh, exec, driving>>

\* The reply is not there in time; the command may go on, or never have arrived.
StopTimesOut(s) ==
  /\ stop[s].at \in {"cancel", "lock", "resignal"}
  /\ stop[s].exit = "none"
  /\ stop' = [stop EXCEPT ![s].exit = "failed"]
  /\ UNCHANGED <<file, go, piVars>>

StopLost(s) ==
  /\ stop[s].at = "cancel"
  /\ stop' = [stop EXCEPT ![s].at = "end", ![s].exit = "failed"]
  /\ UNCHANGED <<file, go, piVars>>

------------------------------------------------------------------------------
(* The executor *)

\* stop_attempt(): the handler runs in the main thread, between two of its steps.
HandleSignal ==
  /\ signal
  /\ signal' = FALSE
  /\ exec' = IF exec.at = "down" THEN exec
             ELSE [exec EXCEPT !.flag = TRUE, !.told = @ \/ HasNode]
  /\ UNCHANGED <<pcVars, spool, code, wire, fresh, driving>>

\* A request is seen, without its lock.
ExecSees(r) ==
  /\ exec.at = "idle" /\ ~exec.leaving
  /\ "request" \in spool[r]
  /\ exec' = [exec EXCEPT !.at = "claim", !.run = r]
  /\ UNCHANGED <<pcVars, spool, code, wire, fresh, signal, driving>>

\* Under the lock: a cancelled request is removed, one that is gone is passed over.
ExecPasses ==
  /\ exec.at = "claim"
  /\ "cancelled" \in spool[exec.run] \/ "request" \notin spool[exec.run]
  /\ spool' = [spool EXCEPT ![exec.run] = IF "cancelled" \in @ THEN @ \ {"request"} ELSE @]
  /\ exec' = [exec EXCEPT !.at = "idle", !.run = NoRun,
                          !.flag = IF "cancelled" \in spool[exec.run] THEN @ ELSE FALSE]
  /\ UNCHANGED <<pcVars, code, wire, fresh, signal, driving>>

\* Under the lock: the earlier stop is forgotten and the request becomes the attempt.
ExecClaims ==
  /\ exec.at = "claim"
  /\ "request" \in spool[exec.run] /\ "cancelled" \notin spool[exec.run]
  /\ spool' = [spool EXCEPT ![exec.run] = (@ \ {"request"}) \cup {"running"}]
  /\ exec' = [exec EXCEPT !.at = "start", !.flag = FALSE]
  /\ UNCHANGED <<pcVars, code, wire, fresh, signal, driving>>

\* Mutant: a stop that came before there was a node is forgotten.
ExecNodeDeaf ==
  /\ exec.at = "start"
  /\ exec' = [exec EXCEPT !.at = "attempt", !.flag = FALSE]
  /\ UNCHANGED <<pcVars, spool, code, wire, fresh, signal, driving>>

\* run_attempt(): the node exists from here on; a stop requested so far ends it.
ExecNode ==
  /\ exec.at = "start"
  /\ exec' = IF exec.flag THEN [exec EXCEPT !.at = "finish", !.told = TRUE, !.out = "failed"]
             ELSE [exec EXCEPT !.at = "attempt"]
  /\ UNCHANGED <<pcVars, spool, code, wire, fresh, signal, driving>>

\* The arguments or the contracts are refused.
ExecRefuses ==
  /\ exec.at = "start"
  /\ exec' = [exec EXCEPT !.at = "finish", !.out = "failed"]
  /\ UNCHANGED <<pcVars, spool, code, wire, fresh, signal, driving>>

\* Mutant: nobody looks whether somebody follows.
LookUnwatched ==
  /\ exec.at = "attempt" /\ exec.run \notin driving
  /\ ~exec.told
  /\ exec' = [exec EXCEPT !.at = "send"]
  /\ UNCHANGED <<pcVars, spool, code, wire, fresh, signal, driving>>

\* Every goal is preceded by the link check and by a look at the stop.
Look ==
  /\ exec.at = "attempt" /\ exec.run \notin driving
  /\ ~exec.told /\ fresh[exec.run]
  /\ exec' = [exec EXCEPT !.at = "send"]
  /\ UNCHANGED <<pcVars, spool, code, wire, fresh, signal, driving>>

\* send_goal_async(): a stop may have come since.
SendGoal ==
  /\ exec.at = "send"
  /\ driving' = driving \cup {exec.run}
  /\ exec' = [exec EXCEPT !.at = "attempt", !.out = "moved"]
  /\ UNCHANGED <<pcVars, spool, code, wire, fresh, signal>>

\* The goal ends by itself, or the attempt (also finish_navigation()) has it cancelled.
GoalEnds(r) ==
  /\ r \in driving
  /\ driving' = driving \ {r}
  /\ UNCHANGED <<pcVars, spool, code, wire, fresh, exec, signal>>

\* Mutant: the attempt returns without finish_navigation().
ExecReturnsEarly(c) ==
  /\ exec.at = "attempt"
  /\ c = "ok" => ~exec.told
  /\ c = "nomap" => exec.out = "unmoved"
  /\ exec' = [exec EXCEPT !.at = "finish", !.out = c]
  /\ UNCHANGED <<pcVars, spool, code, wire, fresh, signal, driving>>

\* run_attempt() returns once no goal of it can drive, or fails with one unresolved and
\* the emergency stop requested (finish_navigation()).  A stop also ends the wait for the
\* map, with the same failure.
ExecReturns(c) ==
  /\ exec.at = "attempt"
  /\ exec.run \in driving => c = "failed"
  /\ c = "ok" => ~exec.told
  /\ c = "nomap" => exec.out = "unmoved"
  /\ exec' = [exec EXCEPT !.at = "finish", !.out = c]
  /\ UNCHANGED <<pcVars, spool, code, wire, fresh, signal, driving>>

\* The result is written and the running file removed under the lock.
ExecReports ==
  /\ exec.at = "finish"
  /\ code' = [code EXCEPT ![exec.run] = exec.out]
  /\ spool' = [spool EXCEPT ![exec.run] = @ \ {"running"}]
  /\ exec' = [exec EXCEPT !.at = "idle", !.run = NoRun, !.told = FALSE, !.out = "unmoved"]
  /\ UNCHANGED <<pcVars, wire, fresh, signal, driving>>

\* The loop ends after SIGTERM; systemd kills the process after TimeoutStopSec=30; or it
\* dies.  Its running file stays, and a goal it has sent goes on.
ExecEnds ==
  /\ exec.at # "down"
  /\ exec.leaving \/ Crashes
  /\ exec' = [FreshExecutor EXCEPT !.at = "down"]
  /\ signal' = FALSE
  /\ UNCHANGED <<pcVars, spool, code, wire, fresh, driving>>

\* 30 s pass without a touch.
Expire(r) ==
  /\ fresh[r]
  /\ fresh' = [fresh EXCEPT ![r] = FALSE]
  /\ UNCHANGED <<pcVars, spool, code, wire, exec, signal, driving>>

------------------------------------------------------------------------------
GoRuns(g, heard) ==
  \/ GoCheck(g) \/ GoPrepare(g) \/ GoLoad(g) \/ GoSave(g) \/ GoSubmit(g)
  \/ GoPoll(g, heard)
  \/ GoRetry(g) \/ GoLeave(g) \/ GoRestart(g) \/ GoRedepart(g)
GoStep(g) == GoQuits(g) \/ \E heard \in BOOLEAN : GoRuns(g, heard)
GoProgress(g) == GoRuns(g, TRUE) /\ go' # go
StopStep(s) ==
  \/ \E arrives, heard \in BOOLEAN : StopSignal(s, arrives, heard)
  \/ StopLoad(s) \/ StopSave(s) \/ StopFirst(s) \/ StopCancel(s) \/ StopAgain(s)
  \/ StopTimesOut(s) \/ StopLost(s)
PiStep ==
  \/ \E r \in Runs : PublishLost(r) \/ PublishPart(r) \/ Publish(r) \/ ExecSees(r)
                    \/ GoalEnds(r) \/ Expire(r)
  \/ HandleSignal \/ ExecPasses \/ ExecClaims \/ ExecNode \/ ExecRefuses \/ Look \/ SendGoal
  \/ \E c \in {"ok", "nomap", "failed"} : ExecReturns(c)
  \/ ExecReports \/ ExecEnds

Next ==
  \/ \E g \in Goes : GoStart(g) \/ GoStep(g)
  \/ \E s \in Stops : StopStep(s)
  \/ PiStep

Spec == Init /\ [][Next]_departVars

\* The executor's main thread runs, a navigation goal ends (its own time limit or the
\* cancellation), and the heartbeat of a go that has ended grows old.
Fairness ==
  /\ WF_departVars(HandleSignal)
  /\ \A r \in Runs : /\ WF_departVars(GoalEnds(r))
                     /\ WF_departVars(Expire(r) /\ go[r[1]].at \in Ended)

\* A go acts on what it hears (one that hears nothing gives up by itself); a unit told to
\* leave is down after 30 s; the executor's loop runs; an attempt sends finitely many goals.
\* None of it is needed to stop the vehicle.
Progress ==
  /\ \A g \in Goes : WF_departVars(GoProgress(g))
  /\ WF_departVars(exec.leaving /\ ExecEnds)
  /\ WF_departVars(ExecPasses \/ ExecClaims \/ ExecNode \/ SendGoal \/ ExecReports)
  /\ WF_departVars(\E r \in Runs : ExecSees(r))
  /\ SF_departVars(\E c \in {"ok", "nomap", "failed"} : ExecReturns(c))

FairSpec == Spec /\ Fairness

------------------------------------------------------------------------------
(* Properties *)

\* The run whose files a stop handles, with what was confirmed.
Confirmed(s) == stop[s].exit = "ok" /\ stop[s].copy.unit # NoRun

TypeOK ==
  /\ file \in Files
  /\ go \in [Goes -> [at : GoPoints, try : {1, 2}, copy : Files]]
  /\ stop \in [Stops -> [at : StopPoints, copy : Files, first : BOOLEAN,
                         exit : {"none", "ok", "failed"}]]
  /\ spool \in [Runs -> SUBSET {"part", "request", "running", "cancelled"}]
  /\ code \in [Runs -> {"none", "ok", "nomap", "failed", "moved", "unmoved"}]
  /\ wire \in [Runs -> {"none", "sent", "written", "gone"}]
  /\ fresh \in [Runs -> BOOLEAN]
  /\ exec \in [at : ExecPoints, run : Runs \cup {NoRun}, flag : BOOLEAN, leaving : BOOLEAN,
               told : BOOLEAN, out : {"unmoved", "moved", "ok", "nomap", "failed"}]
  /\ signal \in BOOLEAN
  /\ driving \in SUBSET Runs

\* A confirmed stop of a recorded run leaves nothing of it that could start, and an
\* attempt of it that has started has the stop, however the claim, the two signals and
\* a late publication interleave (cmd_stop() and serve()).
StopHolds ==
  \A s \in Stops : Confirmed(s) =>
    LET r == stop[s].copy.unit
    IN /\ "cancelled" \in spool[r] /\ "request" \notin spool[r]
       /\ exec.run = r /\ exec.at \in {"start", "attempt", "send"} => Interrupted

\* "A late SSH command cannot dispatch motion after the PC has reported no submission":
\* once go has reported that a run was not submitted, the executor does not claim it.
UnsentNeverStarts ==
  [][\A g \in Goes : go[g].at = "unsent" /\ exec'.at = "start" /\ exec.at # "start"
                     => exec'.run # RunOf(g)]_departVars

\* A confirmed stop of a recorded run ends its motion for good.
StopHalts ==
  \A s \in Stops : \A r \in Runs :
    (Confirmed(s) /\ stop[s].copy.unit = r) ~> [](r \notin driving)

\* A run nobody follows any more comes to a halt: no further goal is sent once the
\* heartbeat is old, also if the request is published only then.
UnattendedHalts ==
  \A g \in Goes : go[g].at \in Ended ~> [](\A i \in {1, 2} : <<g, i>> \notin driving)

\* A departure that was started comes to an end, with whatever result: it never waits for
\* an attempt that nobody runs.
GoEnds == Progress => \A g \in Goes : go[g].at # "new" ~> go[g].at \in Ended

\* What the mission service relies on (Drive): a go that reports success stands still for
\* good, also when it restarted the executor and when the executor died.
Promise == INSTANCE Drive WITH
  at <- [g \in Goes |-> CASE go[g].at \in {"new", "done"} -> go[g].at
                          [] go[g].at \in {"failed", "unsent"} -> "failed"
                          [] OTHER -> "on"],
  moves <- { r[1] : r \in driving }
DrivePromise == Promise!DriveSpec

\* "An operator stop ends this go: no recovery, no re-departure": once a stop that began
\* after a go has exited with 0, no run of that go is claimed any more.
StopEndsGo ==
  [][\A s \in Stops : \A g \in Goes :
       /\ stop[s].exit = "ok" /\ g \in stop[s].copy.stopped
       /\ exec'.at = "start" /\ exec.at # "start"
       => exec'.run[1] # g]_departVars

=============================================================================
