---------------------------- MODULE DepartureProofs ----------------------------
(***************************************************************************)
(* What holds of departures and stops for any number of go and of stop     *)
(* processes, whatever ssh loses or delays, and with an executor that may  *)
(* die at any point.                                                       *)
(***************************************************************************)
EXTENDS Departure, TLAPS

(* Type correctness, field by field *)

\* The runs of different goes, and the two runs of one, are different.
LEMMA RunFacts ==
  /\ \A g \in Goes : <<g, 1>> \in Runs /\ <<g, 2>> \in Runs
  /\ \A r \in Runs : r[1] \in Goes /\ r[2] \in {1, 2} /\ r = <<r[1], r[2]>>
  /\ \A g, h, i, j : <<g, i>> = <<h, j>> => g = h /\ i = j
  /\ NoRun \notin Runs
BY DepartureAssumption DEF Runs

GoTable == [Goes -> [at : GoPoints, try : {1, 2}, copy : Files]]
StopTable == [Stops -> [at : StopPoints, copy : Files, first : BOOLEAN,
                        exit : {"none", "ok", "failed"}]]
Executor == [at : ExecPoints, run : Runs \cup {NoRun}, flag : BOOLEAN, leaving : BOOLEAN,
             told : BOOLEAN, out : {"unmoved", "moved", "ok", "nomap", "failed"}]

\* The run of a go.
LEMMA RunOfFacts ==
  ASSUME go \in GoTable, NEW g \in Goes
  PROVE  RunOf(g) = <<g, go[g].try>> /\ RunOf(g) \in Runs /\ go[g].try \in {1, 2}
BY RunFacts DEF GoTable, RunOf

\* GoTo() moves one go, and nothing else of it.
LEMMA GoMoves ==
  ASSUME go \in GoTable, NEW g \in Goes, NEW point \in GoPoints, GoTo(g, point)
  PROVE  /\ go' \in GoTable
         /\ go'[g].at = point /\ go'[g].try = go[g].try
         /\ \A h \in Goes \ {g} : go'[h] = go[h]
BY DEF GoTo, GoTable

\* So does StopTo() with a stop.
LEMMA StopMoves ==
  ASSUME stop \in StopTable, NEW s \in Stops, NEW point \in StopPoints, StopTo(s, point)
  PROVE  /\ stop' \in StopTable
         /\ stop'[s].at = point /\ stop'[s].copy = stop[s].copy /\ stop'[s].exit = stop[s].exit
         /\ \A t \in Stops \ {s} : stop'[t] = stop[t]
BY DEF StopTo, StopTable

\* The points of a go.
LEMMA Points ==
  /\ GoPoints = {"new", "check", "prepare", "load", "save", "submit", "follow", "retry", "leave",
                 "restart", "redepart", "recheck", "done", "failed", "unsent"}
  /\ StopPoints = {"new", "load", "save", "cancel", "lock", "resignal", "end"}
BY DEF GoPoints, StopPoints, Ended

(* The inductive invariant, in parts *)

\* Nothing of the run is left that could start.
Cancelled(r) == "cancelled" \in spool[r] /\ "request" \notin spool[r]

\* The executor has a run whenever it is not waiting for one.
ExecFits == exec.at \notin {"idle", "down"} => exec.run \in Runs

\* A run is what it was made, seen and claimed for only after its publication; it is
\* claimed once, and its result is final.
RunsFit ==
  \A r \in Runs :
    /\ wire[r] # "gone" => /\ spool[r] \cap {"request", "running"} = {}
                           /\ exec.run # r /\ r \notin driving /\ code[r] = "none"
    /\ "request" \in spool[r] \/ exec.run = r => code[r] = "none"
    /\ exec.run = r /\ exec.at \in {"start", "attempt", "send", "finish"} => "request" \notin spool[r]
    /\ code[r] \in {"ok", "nomap"} => r \notin driving
    /\ exec.run = r /\ exec.at = "finish" /\ exec.out \in {"ok", "nomap"} => r \notin driving

\* Where a go is, and what has become of its runs.
GoFits(g) ==
  /\ go[g].at \in {"new", "check", "prepare", "load", "save", "submit", "recheck"}
       => wire[RunOf(g)] = "none"
  /\ go[g].try = 1 => wire[<<g, 2>>] = "none"
  /\ go[g].at \in {"new", "retry", "leave", "restart", "redepart"} => go[g].try = 1
  /\ go[g].at \in {"retry", "leave", "restart", "redepart"} \/ go[g].try = 2
       => code[<<g, 1>>] = "nomap"
  /\ go[g].at = "done" => code[RunOf(g)] = "ok"
  /\ go[g].at = "unsent" =>
       "cancelled" \in spool[RunOf(g)]
       \/ ("request" \notin spool[RunOf(g)] /\ wire[RunOf(g)] = "gone")
GoesFit == \A g \in Goes : GoFits(g)

\* What a stop has done so far stays done.
StopFits(s) ==
  /\ stop[s].at \in {"cancel", "lock", "resignal"} => stop[s].copy.unit \in Runs
  /\ stop[s].exit = "ok" => stop[s].at = "end"
  /\ stop[s].at = "resignal" \/ Confirmed(s) => Cancelled(stop[s].copy.unit)
  /\ Confirmed(s) /\ exec.run = stop[s].copy.unit /\ exec.at \in {"start", "attempt", "send"}
       => Interrupted
StopsFit == \A s \in Stops : StopFits(s)

DepartInv == TypeOK /\ ExecFits /\ RunsFit /\ GoesFit /\ StopsFit

------------------------------------------------------------------------------
\* What go does to itself and to state.json.
LEMMA GoStepType ==
  ASSUME TypeOK, NEW g \in Goes, GoStart(g) \/ GoStep(g)
  PROVE  go' \in GoTable /\ file' \in Files /\ stop' = stop
<1>t. go \in GoTable /\ file \in Files
  BY DEF TypeOK, GoTable
<1>1. CASE GoStart(g) \/ GoQuits(g)
  BY <1>t, <1>1, GoMoves, Points DEF GoStart, GoQuits
<1>2. CASE GoCheck(g) \/ GoPrepare(g)
  BY <1>t, <1>2, GoMoves, Points DEF GoCheck, GoPrepare
<1>3. CASE GoLoad(g)
  BY <1>t, <1>3, Points DEF GoLoad, GoTable
<1>4. CASE GoSave(g)
  <2>1. go[g].copy \in Files
    BY <1>t DEF GoTable
  <2>2. file' \in Files
    BY <1>t, <1>4, <2>1, RunOfFacts DEF GoSave, Files
  <2> QED
    BY <1>t, <1>4, <2>2, GoMoves, Points DEF GoSave
<1>5. CASE GoSubmit(g)
  BY <1>t, <1>5, GoMoves, Points DEF GoSubmit
<1>6. ASSUME NEW heard \in BOOLEAN, GoPoll(g, heard)
      PROVE  go' \in GoTable /\ file' \in Files /\ stop' = stop
  <2>1. file' = file /\ stop' = stop
    BY <1>6 DEF GoPoll
  <2>2. go' = go \/ \E point \in GoPoints : GoTo(g, point)
    BY <1>6, Points DEF GoPoll
  <2> QED
    BY <1>t, <2>1, <2>2, GoMoves
<1>7. CASE GoRetry(g) \/ GoLeave(g) \/ GoRestart(g)
  BY <1>t, <1>7, GoMoves, Points DEF GoRetry, GoLeave, GoRestart
<1>8. CASE GoRedepart(g)
  <2>1. CASE g \in file.stopped
    BY <1>t, <1>8, <2>1, GoMoves, Points DEF GoRedepart
  <2>2. CASE g \notin file.stopped
    BY <1>t, <1>8, <2>2, Points DEF GoRedepart, GoTable
  <2> QED
    BY <2>1, <2>2
<1> QED
  BY <1>1, <1>2, <1>3, <1>4, <1>5, <1>6, <1>7, <1>8 DEF GoStep, GoRuns

\* What stop does to itself and to state.json.
LEMMA StopStepType ==
  ASSUME TypeOK, NEW s \in Stops, StopStep(s)
  PROVE  stop' \in StopTable /\ file' \in Files /\ go' = go
<1>t. stop \in StopTable /\ file \in Files /\ go \in GoTable
  BY DEF TypeOK, StopTable, GoTable
<1>1. ASSUME NEW arrives \in BOOLEAN, NEW heard \in BOOLEAN, StopSignal(s, arrives, heard)
      PROVE  stop' \in StopTable /\ file' \in Files /\ go' = go
  <2>1. (arrives /\ heard /\ exec.at # "down") \in BOOLEAN
    OBVIOUS
  <2>2. stop' = [stop EXCEPT ![s].at = "load", ![s].first = arrives /\ heard /\ exec.at # "down"]
    BY <1>1 DEF StopSignal
  <2>3. stop' \in StopTable
    BY <1>t, <2>1, <2>2, Points DEF StopTable
  <2> QED
    BY <1>1, <1>t, <2>3 DEF StopSignal
<1>2. CASE StopLoad(s)
  <2>1. [unit |-> file.unit, stopped |-> {g \in Goes : go[g].at # "new"}] \in Files
    BY <1>t DEF Files
  <2> QED
    BY <1>t, <1>2, <2>1, Points DEF StopLoad, StopTable
<1>3. CASE StopSave(s)
  <2>1. stop[s].copy \in Files
    BY <1>t DEF StopTable
  <2>2. CASE stop[s].copy.unit # NoRun
    BY <1>t, <1>3, <2>1, <2>2, StopMoves, Points DEF StopSave
  <2>3. CASE stop[s].copy.unit = NoRun
    BY <1>t, <1>3, <2>1, <2>3, Points DEF StopSave, StopTable
  <2> QED
    BY <2>2, <2>3
<1>4. CASE StopFirst(s) \/ StopCancel(s)
  BY <1>t, <1>4, StopMoves, Points DEF StopFirst, StopCancel
<1>5. CASE StopAgain(s)
  <2>1. \/ stop' = [stop EXCEPT ![s].at = "end", ![s].exit = "failed"]
        \/ stop' = [stop EXCEPT ![s].at = "end", ![s].exit = "ok"]
    BY <1>5 DEF StopAgain
  <2>2. stop' \in StopTable
    BY <1>t, <2>1, Points DEF StopTable
  <2> QED
    BY <1>t, <1>5, <2>2 DEF StopAgain
<1>6. CASE StopTimesOut(s) \/ StopLost(s)
  BY <1>t, <1>6, Points DEF StopTimesOut, StopLost, StopTable, piVars
<1> QED
  BY <1>1, <1>2, <1>3, <1>4, <1>5, <1>6 DEF StopStep

\* The executor's fields.
LEMMA ExecType == ASSUME TypeOK, ExecFits, [Next]_departVars PROVE exec' \in Executor
<1>t. exec \in Executor /\ FreshExecutor \in Executor
  BY DEF TypeOK, Executor, FreshExecutor, ExecPoints
<1> USE DEF Executor, ExecPoints
<1>1. ASSUME NEW g \in Goes, GoPrepare(g) \/ GoRestart(g) PROVE exec' \in Executor
  BY <1>t, <1>1 DEF GoPrepare, GoRestart
<1>2. ASSUME NEW g \in Goes, GoLeave(g) PROVE exec' \in Executor
  BY <1>t, <1>2 DEF GoLeave, HasNode
<1>3. CASE HandleSignal
  BY <1>t, <1>3 DEF HandleSignal, HasNode
<1>4. ASSUME NEW r \in Runs, ExecSees(r) PROVE exec' \in Executor
  BY <1>t, <1>4 DEF ExecSees
<1>5. CASE ExecPasses
  BY <1>t, <1>5 DEF ExecPasses
<1>6. CASE ExecClaims \/ ExecNode \/ ExecRefuses
  BY <1>t, <1>6 DEF ExecClaims, ExecNode, ExecRefuses
<1>7. CASE Look \/ SendGoal
  BY <1>t, <1>7 DEF Look, SendGoal
<1>8. ASSUME NEW c \in {"ok", "nomap", "failed"}, ExecReturns(c) PROVE exec' \in Executor
  BY <1>t, <1>8 DEF ExecReturns
<1>9. CASE ExecReports \/ ExecEnds
  BY <1>t, <1>9 DEF ExecReports, ExecEnds, FreshExecutor
<1>10. CASE UNCHANGED exec
  BY <1>t, <1>10
<1> QED
  BY <1>1, <1>2, <1>3, <1>4, <1>5, <1>6, <1>7, <1>8, <1>9, <1>10
  DEF Next, GoStep, GoRuns, StopStep, PiStep, departVars, pcVars, piVars, GoStart, GoCheck, GoLoad,
      GoSave, GoSubmit, GoPoll, GoQuits, GoRetry, GoRedepart, StopSignal, StopLoad, StopSave, StopFirst,
      StopCancel, StopAgain, StopTimesOut, StopLost, PublishLost, PublishPart, Publish, GoalEnds, Expire

\* The spool, the results and what is on its way.
FilesOK ==
  /\ spool \in [Runs -> SUBSET {"part", "request", "running", "cancelled"}]
  /\ code \in [Runs -> {"none", "ok", "nomap", "failed", "moved", "unmoved"}]
  /\ wire \in [Runs -> {"none", "sent", "written", "gone"}]
  /\ fresh \in [Runs -> BOOLEAN]
  /\ signal \in BOOLEAN /\ driving \in SUBSET Runs

LEMMA FilesType == ASSUME TypeOK, ExecFits, [Next]_departVars PROVE FilesOK'
<1>t. FilesOK /\ go \in GoTable /\ exec \in Executor
  BY DEF TypeOK, FilesOK, GoTable, Executor
<1> USE DEF FilesOK, pcVars
<1>1. ASSUME NEW g \in Goes, GoStart(g) \/ GoCheck(g) \/ GoLoad(g) \/ GoSave(g) PROVE FilesOK'
  BY <1>t, <1>1 DEF GoStart, GoCheck, GoLoad, GoSave, piVars
<1>2. ASSUME NEW g \in Goes, GoPrepare(g) \/ GoSubmit(g) PROVE FilesOK'
  BY <1>t, <1>2 DEF GoPrepare, GoSubmit
<1>3. ASSUME NEW g \in Goes, NEW heard \in BOOLEAN, GoPoll(g, heard) PROVE FilesOK'
  <2>1. fresh' \in [Runs -> BOOLEAN] /\ UNCHANGED <<code, wire, signal, driving>>
    BY <1>t, <1>3 DEF GoPoll
  <2>2. \/ spool' = spool
        \/ spool' = [spool EXCEPT ![RunOf(g)] = @ \ {"request"}]
        \/ spool' = [spool EXCEPT ![RunOf(g)] = @ \cup {"cancelled"}]
    BY <1>3 DEF GoPoll
  <2>3. spool' \in [Runs -> SUBSET {"part", "request", "running", "cancelled"}]
    BY <1>t, <2>2
  <2> QED
    BY <1>t, <2>1, <2>3
<1>4. ASSUME NEW g \in Goes, GoQuits(g) \/ GoRetry(g) \/ GoLeave(g) \/ GoRestart(g) \/ GoRedepart(g)
      PROVE  FilesOK'
  BY <1>t, <1>4 DEF GoQuits, GoRetry, GoLeave, GoRestart, GoRedepart, piVars
<1>5. ASSUME NEW s \in Stops, StopStep(s) PROVE FilesOK'
  <2>1. UNCHANGED <<code, wire, fresh, driving>> /\ signal' \in BOOLEAN
    BY <1>t, <1>5 DEF StopStep, StopSignal, StopLoad, StopSave, StopFirst, StopCancel, StopAgain,
                      StopTimesOut, StopLost, piVars, Signalled
  <2>2. \/ spool' = spool
        \/ spool' = [spool EXCEPT ![stop[s].copy.unit] = (@ \ {"part", "request"}) \cup {"cancelled"}]
    BY <1>5 DEF StopStep, StopSignal, StopLoad, StopSave, StopFirst, StopCancel, StopAgain,
                StopTimesOut, StopLost, piVars
  <2>3. spool' \in [Runs -> SUBSET {"part", "request", "running", "cancelled"}]
    BY <1>t, <2>2
  <2> QED
    BY <1>t, <2>1, <2>3
<1>6. ASSUME NEW r \in Runs, PublishLost(r) \/ PublishPart(r) \/ Publish(r) PROVE FilesOK'
  BY <1>t, <1>6 DEF PublishLost, PublishPart, Publish
<1>7. ASSUME NEW r \in Runs, ExecSees(r) \/ GoalEnds(r) \/ Expire(r) PROVE FilesOK'
  BY <1>t, <1>7 DEF ExecSees, GoalEnds, Expire
<1>8. CASE HandleSignal \/ ExecNode \/ ExecRefuses \/ ExecEnds
  BY <1>t, <1>8 DEF HandleSignal, ExecNode, ExecRefuses, ExecEnds
<1>9. CASE ExecPasses \/ ExecClaims
  BY <1>t, <1>9 DEF ExecPasses, ExecClaims
<1>10. CASE Look \/ SendGoal
  BY <1>t, <1>10 DEF Look, SendGoal, ExecFits
<1>11. ASSUME NEW c \in {"ok", "nomap", "failed"}, ExecReturns(c) PROVE FilesOK'
  BY <1>t, <1>11 DEF ExecReturns
<1>12. CASE ExecReports
  BY <1>t, <1>12 DEF ExecReports, Executor
<1>13. CASE UNCHANGED departVars
  BY <1>t, <1>13 DEF departVars, piVars
<1> QED
  BY <1>1, <1>2, <1>3, <1>4, <1>5, <1>6, <1>7, <1>8, <1>9, <1>10, <1>11, <1>12, <1>13
  DEF Next, GoStep, GoRuns, PiStep

\* Every field keeps its type.
LEMMA TypeStep == ASSUME TypeOK, ExecFits, [Next]_departVars PROVE TypeOK'
<1>1. go' \in GoTable /\ stop' \in StopTable /\ file' \in Files
  <2>t. go \in GoTable /\ stop \in StopTable /\ file \in Files
    BY DEF TypeOK, GoTable, StopTable
  <2>1. ASSUME NEW g \in Goes, GoStart(g) \/ GoStep(g) PROVE go' \in GoTable /\ stop' \in StopTable /\ file' \in Files
    BY <2>t, <2>1, GoStepType
  <2>2. ASSUME NEW s \in Stops, StopStep(s) PROVE go' \in GoTable /\ stop' \in StopTable /\ file' \in Files
    BY <2>t, <2>2, StopStepType
  <2>3. CASE UNCHANGED pcVars
    BY <2>t, <2>3 DEF pcVars
  <2>4. PiStep => UNCHANGED pcVars
    BY DEF PiStep, PublishLost, PublishPart, Publish, ExecSees, GoalEnds, Expire, HandleSignal, ExecPasses,
           ExecClaims, ExecNode, ExecRefuses, Look, SendGoal, ExecReturns, ExecReports, ExecEnds
  <2>5. UNCHANGED departVars => UNCHANGED pcVars
    BY DEF departVars, pcVars
  <2> QED
    BY <2>1, <2>2, <2>3, <2>4, <2>5 DEF Next
<1> QED
  BY <1>1, ExecType, FilesType DEF GoTable, StopTable, Executor, FilesOK, TypeOK

\* Only these steps touch the spool, the results or what is on its way.
LEMMA SpoolSteps ==
  [Next]_departVars =>
    \/ UNCHANGED <<spool, code, wire>>
    \/ \E g \in Goes : GoSubmit(g) \/ \E heard \in BOOLEAN : GoPoll(g, heard)
    \/ \E s \in Stops : StopCancel(s)
    \/ \E r \in Runs : PublishLost(r) \/ PublishPart(r) \/ Publish(r)
    \/ ExecPasses \/ ExecClaims \/ ExecReports
BY DEF Next, GoStep, GoRuns, StopStep, PiStep, departVars, pcVars, piVars, GoStart, GoCheck, GoPrepare,
   GoLoad, GoSave, GoQuits, GoRetry, GoLeave, GoRestart, GoRedepart, StopSignal, StopLoad, StopSave,
   StopFirst, StopAgain, StopTimesOut, StopLost, ExecSees, GoalEnds, Expire, HandleSignal, ExecNode,
   ExecRefuses, Look, SendGoal, ExecReturns, ExecEnds

\* Runs.
LEMMA RunsStep == ASSUME TypeOK, ExecFits, RunsFit, GoesFit, [Next]_departVars PROVE RunsFit'
<1> USE RunFacts DEF TypeOK, RunsFit, ExecFits, FreshExecutor
<1>1. ASSUME NEW g \in Goes, GoStart(g) \/ GoCheck(g) \/ GoLoad(g) \/ GoSave(g) \/ GoQuits(g) \/ GoRetry(g)
                             \/ GoRedepart(g)
      PROVE  RunsFit'
  BY <1>1 DEF GoStart, GoCheck, GoLoad, GoSave, GoQuits, GoRetry, GoRedepart, piVars
<1>2. ASSUME NEW g \in Goes, GoPrepare(g) \/ GoLeave(g) \/ GoRestart(g) PROVE RunsFit'
  <2>1. UNCHANGED <<spool, code, wire, driving>>
    BY <1>2 DEF GoPrepare, GoLeave, GoRestart
  <2>2. \/ exec' = FreshExecutor
        \/ exec'.at = exec.at /\ exec'.run = exec.run /\ exec'.out = exec.out
    <3>1. GoPrepare(g) \/ GoRestart(g) => exec' = FreshExecutor \/ exec' = exec
      BY DEF GoPrepare, GoRestart
    <3>2. GoLeave(g) => exec'.at = exec.at /\ exec'.run = exec.run /\ exec'.out = exec.out
      BY DEF GoLeave
    <3> QED
      BY <1>2, <3>1, <3>2
  <2>3. CASE exec' = FreshExecutor
    BY <2>1, <2>3
  <2>4. CASE exec'.at = exec.at /\ exec'.run = exec.run /\ exec'.out = exec.out
    BY <2>1, <2>4
  <2> QED
    BY <2>2, <2>3, <2>4
<1>3. ASSUME NEW g \in Goes, GoSubmit(g) PROVE RunsFit'
  <2>1. RunOf(g) \in Runs /\ wire[RunOf(g)] = "none"
    BY <1>3, RunOfFacts DEF GoSubmit, GoesFit, GoFits, GoTable
  <2>2. wire' = [wire EXCEPT ![RunOf(g)] = "sent"] /\ UNCHANGED <<spool, code, exec, driving>>
    BY <1>3 DEF GoSubmit
  <2> QED
    BY <2>1, <2>2
<1>4. ASSUME NEW g \in Goes, NEW heard \in BOOLEAN, GoPoll(g, heard) PROVE RunsFit'
  <2>1. UNCHANGED <<code, wire, exec, driving>>
    BY <1>4 DEF GoPoll
  <2>2. CASE spool' = spool
    BY <2>1, <2>2
  <2>3. CASE spool' = [spool EXCEPT ![RunOf(g)] = @ \ {"request"}]
    BY <2>1, <2>3
  <2>4. CASE spool' = [spool EXCEPT ![RunOf(g)] = @ \cup {"cancelled"}]
    BY <2>1, <2>4
  <2> QED
    BY <1>4, <2>2, <2>3, <2>4 DEF GoPoll
<1>5. ASSUME NEW s \in Stops, StopStep(s) PROVE RunsFit'
  <2>1. UNCHANGED <<code, wire, exec, driving>>
    BY <1>5 DEF StopStep, StopSignal, StopLoad, StopSave, StopFirst, StopCancel, StopAgain,
                StopTimesOut, StopLost, piVars
  <2>2. \/ spool' = spool
        \/ spool' = [spool EXCEPT ![stop[s].copy.unit] = (@ \ {"part", "request"}) \cup {"cancelled"}]
    BY <1>5 DEF StopStep, StopSignal, StopLoad, StopSave, StopFirst, StopCancel, StopAgain,
                StopTimesOut, StopLost, piVars
  <2>3. CASE spool' = spool
    BY <2>1, <2>3
  <2>4. CASE spool' = [spool EXCEPT ![stop[s].copy.unit] = (@ \ {"part", "request"}) \cup {"cancelled"}]
    BY <2>1, <2>4
  <2> QED
    BY <2>2, <2>3, <2>4
<1>6. ASSUME NEW r \in Runs, PublishLost(r) \/ PublishPart(r) PROVE RunsFit'
  <2>1. CASE PublishLost(r)
    BY <2>1 DEF PublishLost
  <2>2. CASE PublishPart(r)
    BY <2>2 DEF PublishPart
  <2> QED
    BY <1>6, <2>1, <2>2
<1>7. ASSUME NEW r \in Runs, Publish(r) PROVE RunsFit'
  BY <1>7 DEF Publish
<1>8. ASSUME NEW r \in Runs, ExecSees(r) PROVE RunsFit'
  BY <1>8 DEF ExecSees
<1>9. ASSUME NEW r \in Runs, GoalEnds(r) \/ Expire(r) PROVE RunsFit'
  BY <1>9 DEF GoalEnds, Expire
<1>10. CASE HandleSignal
  BY <1>10 DEF HandleSignal
<1>11. CASE ExecPasses
  BY <1>11 DEF ExecPasses
<1>12. CASE ExecClaims
  BY <1>12 DEF ExecClaims
<1>13. CASE ExecNode \/ ExecRefuses
  <2>1. CASE ExecNode
    BY <2>1 DEF ExecNode
  <2>2. CASE ExecRefuses
    BY <2>2 DEF ExecRefuses
  <2> QED
    BY <1>13, <2>1, <2>2
<1>14. CASE Look \/ SendGoal
  <2>1. CASE Look
    BY <2>1 DEF Look
  <2>2. CASE SendGoal
    BY <2>2 DEF SendGoal
  <2> QED
    BY <1>14, <2>1, <2>2
<1>15. ASSUME NEW c \in {"ok", "nomap", "failed"}, ExecReturns(c) PROVE RunsFit'
  BY <1>15 DEF ExecReturns
<1>16. CASE ExecReports
  BY <1>16 DEF ExecReports
<1>17. CASE ExecEnds
  BY <1>17 DEF ExecEnds
<1>18. CASE UNCHANGED departVars
  BY <1>18 DEF departVars, piVars
<1> HIDE DEF TypeOK, RunsFit
<1> QED
  BY <1>1, <1>2, <1>3, <1>4, <1>5, <1>6, <1>7, <1>8, <1>9, <1>10, <1>11, <1>12, <1>13, <1>14, <1>15,
     <1>16, <1>17, <1>18
  DEF Next, GoStep, GoRuns, PiStep

\* What later steps leave of a run that has come so far.
RunKept(r) ==
  /\ wire[r] \in {"none", "gone"} => wire'[r] = wire[r]
  /\ code[r] # "none" => code'[r] = code[r]
  /\ "cancelled" \in spool[r] => "cancelled" \in spool'[r]
  /\ Cancelled(r) \/ (wire[r] = "gone" /\ "request" \notin spool[r]) => "request" \notin spool'[r]

\* Only the submission of a run itself begins anything.
LEMMA RunsKept ==
  ASSUME TypeOK, ExecFits, RunsFit, [Next]_departVars, NEW r \in Runs,
         \A g \in Goes : GoSubmit(g) => r # RunOf(g)
  PROVE  RunKept(r)
<1> USE DEF RunKept, TypeOK, Cancelled
<1>1. ASSUME NEW g \in Goes, GoSubmit(g) PROVE RunKept(r)
  BY <1>1 DEF GoSubmit
<1>2. ASSUME NEW g \in Goes, NEW heard \in BOOLEAN, GoPoll(g, heard) PROVE RunKept(r)
  BY <1>2 DEF GoPoll
<1>3. ASSUME NEW s \in Stops, StopCancel(s) PROVE RunKept(r)
  BY <1>3 DEF StopCancel
<1>4. ASSUME NEW p \in Runs, PublishLost(p) \/ PublishPart(p) \/ Publish(p) PROVE RunKept(r)
  BY <1>4 DEF PublishLost, PublishPart, Publish
<1>5. CASE ExecPasses \/ ExecClaims
  BY <1>5 DEF ExecPasses, ExecClaims
<1>6. CASE ExecReports
  <2>1. exec.run \in Runs /\ code[exec.run] = "none"
    BY <1>6 DEF ExecReports, ExecFits, RunsFit
  <2> QED
    BY <1>6, <2>1 DEF ExecReports
<1>7. CASE UNCHANGED <<spool, code, wire>>
  BY <1>7
<1> HIDE DEF RunKept, TypeOK
<1> QED
  BY <1>1, <1>2, <1>3, <1>4, <1>5, <1>6, <1>7, SpoolSteps

\* A go that does not move keeps what it relies on.
LEMMA GoRests ==
  ASSUME TypeOK, NEW h \in Goes, GoFits(h), go'[h] = go[h], RunKept(<<h, 1>>), RunKept(<<h, 2>>)
  PROVE  GoFits(h)'
<1>1. RunOf(h)' = RunOf(h) /\ RunOf(h) \in { <<h, 1>>, <<h, 2>> } /\ RunKept(RunOf(h))
  BY RunOfFacts DEF RunOf, TypeOK, GoTable
<1> QED
  BY <1>1 DEF GoFits, RunKept, Cancelled

\* A go that moves.
LEMMA GoMovesOn ==
  ASSUME TypeOK, ExecFits, RunsFit, NEW g \in Goes, GoFits(g), GoStart(g) \/ GoStep(g)
  PROVE  GoFits(g)' /\ \A h \in Goes \ {g} : go'[h] = go[h]
<1>t. go \in GoTable
  BY DEF TypeOK, GoTable
<1>r. RunOf(g) = <<g, go[g].try>> /\ RunOf(g)' = <<g, go'[g].try>> /\ RunOf(g) \in Runs
  BY <1>t, RunOfFacts DEF RunOf
<1>m. ASSUME NEW point \in GoPoints, GoTo(g, point)
      PROVE  /\ go'[g].at = point /\ go'[g].try = go[g].try /\ RunOf(g)' = RunOf(g)
             /\ \A h \in Goes \ {g} : go'[h] = go[h]
  BY <1>t, <1>r, <1>m, GoMoves
<1> USE Points DEF GoFits
<1>1. CASE GoStart(g) \/ GoQuits(g)
  BY <1>r, <1>m, <1>1 DEF GoStart, GoQuits, piVars, Ended
<1>2. CASE GoCheck(g) \/ GoPrepare(g)
  BY <1>r, <1>m, <1>2 DEF GoCheck, GoPrepare, piVars
<1>3. CASE GoLoad(g)
  <2>1. go'[g].at = "save" /\ go'[g].try = go[g].try /\ \A h \in Goes \ {g} : go'[h] = go[h]
    BY <1>t, <1>3 DEF GoLoad, GoTable
  <2> QED
    BY <1>r, <1>3, <2>1 DEF GoLoad, piVars
<1>4. CASE GoSave(g)
  BY <1>r, <1>m, <1>4 DEF GoSave, piVars
<1>5. CASE GoSubmit(g)
  <2>1. go'[g].at = "follow" /\ go'[g].try = go[g].try /\ \A h \in Goes \ {g} : go'[h] = go[h]
    BY <1>m, <1>5 DEF GoSubmit
  <2>2. go[g].try = 1 => wire'[<<g, 2>>] = wire[<<g, 2>>]
    BY <1>r, <1>5, RunFacts DEF GoSubmit, TypeOK
  <2> QED
    BY <1>5, <2>1, <2>2 DEF GoSubmit
<1>6. ASSUME NEW heard \in BOOLEAN, GoPoll(g, heard)
      PROVE  GoFits(g)' /\ \A h \in Goes \ {g} : go'[h] = go[h]
  <2>1. go[g].at = "follow" /\ UNCHANGED <<code, wire>>
    BY <1>6 DEF GoPoll
  <2>2. CASE go' = go
    BY <2>1, <2>2 DEF RunOf
  <2>3. CASE code[RunOf(g)] # "none" /\ go' # go
    <3>1. \/ GoTo(g, "done") /\ code[RunOf(g)] = "ok"
          \/ GoTo(g, "retry") /\ code[RunOf(g)] = "nomap" /\ go[g].try = 1
          \/ GoTo(g, "failed")
      BY <1>6, <2>3 DEF GoPoll
    <3> QED
      BY <1>r, <1>m, <2>1, <3>1
  <2>4. CASE code[RunOf(g)] = "none" /\ go' # go
    <3>1. GoTo(g, "unsent")
      BY <1>6, <2>4 DEF GoPoll
    <3>2. \/ "cancelled" \in spool'[RunOf(g)]
          \/ "request" \notin spool'[RunOf(g)] /\ spool[RunOf(g)] \cap {"request", "running"} # {}
      <4>1. CASE spool[RunOf(g)] \cap {"request", "running"} # {}
        <5>1. spool' = [spool EXCEPT ![RunOf(g)] = @ \ {"request"}]
          BY <1>6, <2>4, <4>1 DEF GoPoll
        <5> QED
          BY <1>r, <4>1, <5>1 DEF TypeOK
      <4>2. CASE spool[RunOf(g)] \cap {"request", "running"} = {}
        <5>1. spool' = [spool EXCEPT ![RunOf(g)] = @ \cup {"cancelled"}]
          BY <1>6, <2>4, <4>2 DEF GoPoll
        <5> QED
          BY <1>r, <5>1 DEF TypeOK
      <4> QED
        BY <4>1, <4>2
    <3>3. spool[RunOf(g)] \cap {"request", "running"} # {} => wire[RunOf(g)] = "gone"
      BY <1>r DEF RunsFit
    <3> QED
      BY <1>r, <1>m, <2>1, <3>1, <3>2, <3>3
  <2> QED
    BY <2>2, <2>3, <2>4
<1>7. CASE GoRetry(g) \/ GoLeave(g) \/ GoRestart(g)
  BY <1>r, <1>m, <1>7 DEF GoRetry, GoLeave, GoRestart, piVars
<1>8. CASE GoRedepart(g)
  <2>1. CASE g \in file.stopped
    BY <1>r, <1>m, <1>8, <2>1 DEF GoRedepart, piVars
  <2>2. CASE g \notin file.stopped
    <3>1. go'[g].at = "recheck" /\ go'[g].try = 2 /\ \A h \in Goes \ {g} : go'[h] = go[h]
      BY <1>t, <1>8, <2>2 DEF GoRedepart, GoTable
    <3> QED
      BY <1>r, <1>8, <3>1 DEF GoRedepart, piVars
  <2> QED
    BY <2>1, <2>2
<1> HIDE DEF GoFits
<1> QED
  BY <1>1, <1>2, <1>3, <1>4, <1>5, <1>6, <1>7, <1>8 DEF GoStep, GoRuns

\* Each go keeps what it relies on, whoever takes the step.
LEMMA GoesStep == ASSUME TypeOK, ExecFits, RunsFit, GoesFit, [Next]_departVars PROVE GoesFit'
<1> USE DEF GoesFit
<1>s. \A g \in Goes : GoSubmit(g) => GoStep(g) /\ go'[g].at = "follow" /\ go[g].at = "submit"
  BY GoMoves, Points DEF GoSubmit, GoStep, GoRuns, TypeOK, GoTable
<1>1. ASSUME NEW g \in Goes, GoStart(g) \/ GoStep(g) PROVE GoesFit'
  <2>1. GoFits(g)' /\ \A h \in Goes \ {g} : go'[h] = go[h]
    BY <1>1, GoMovesOn
  <2>2. ASSUME NEW h \in Goes \ {g} PROVE GoFits(h)'
    <3>1. \A k \in Goes : GoSubmit(k) => <<h, 1>> # RunOf(k) /\ <<h, 2>> # RunOf(k)
      BY <1>s, <2>1, RunFacts DEF RunOf
    <3>2. RunKept(<<h, 1>>) /\ RunKept(<<h, 2>>)
      BY <3>1, RunsKept, RunFacts
    <3> QED
      BY <2>1, <3>2, GoRests
  <2> QED
    BY <2>1, <2>2
<1>2. CASE go' = go
  <2>1. \A k \in Goes : ~GoSubmit(k)
    BY <1>s, <1>2
  <2>2. \A r \in Runs : RunKept(r)
    BY <2>1, RunsKept
  <2> QED
    BY <1>2, <2>2, GoRests, RunFacts
<1>3. \/ go' = go
      \/ \E g \in Goes : GoStart(g) \/ GoStep(g)
  BY DEF Next, StopStep, PiStep, departVars, pcVars, piVars, StopSignal, StopLoad, StopSave, StopFirst,
     StopCancel, StopAgain, StopTimesOut, StopLost, PublishLost, PublishPart, Publish, ExecSees, GoalEnds,
     Expire, HandleSignal, ExecPasses, ExecClaims, ExecNode, ExecRefuses, Look, SendGoal, ExecReturns,
     ExecReports, ExecEnds
<1> QED
  BY <1>1, <1>2, <1>3

\* A signal that is there reaches an attempt, or is handled by it.
LEMMA InterruptStays ==
  ASSUME TypeOK, [Next]_departVars, Interrupted, exec.at \in {"start", "attempt", "send"},
         exec'.at \in {"start", "attempt", "send"}
  PROVE  Interrupted'
<1> USE DEF Interrupted
<1>1. ASSUME NEW g \in Goes, GoPrepare(g) \/ GoLeave(g) \/ GoRestart(g) PROVE Interrupted'
  BY <1>1 DEF GoPrepare, GoLeave, GoRestart, TypeOK, FreshExecutor, UnitActive
<1>2. ASSUME NEW s \in Stops, StopStep(s) PROVE Interrupted'
  BY <1>2 DEF StopStep, StopSignal, StopLoad, StopSave, StopFirst, StopCancel, StopAgain, StopTimesOut,
              StopLost, piVars, Signalled
<1>3. CASE HandleSignal
  BY <1>3 DEF HandleSignal, TypeOK
<1>4. CASE ExecNode \/ ExecRefuses \/ Look \/ SendGoal
  BY <1>4 DEF ExecNode, ExecRefuses, Look, SendGoal, TypeOK
<1>5. ASSUME NEW c \in {"ok", "nomap", "failed"}, ExecReturns(c) PROVE Interrupted'
  BY <1>5 DEF ExecReturns, TypeOK
<1>6. CASE ExecEnds
  BY <1>6 DEF ExecEnds, FreshExecutor
<1>7. CASE UNCHANGED <<exec, signal>>
  BY <1>7
<1> QED
  BY <1>1, <1>2, <1>3, <1>4, <1>5, <1>6, <1>7
  DEF Next, GoStep, GoRuns, PiStep, departVars, pcVars, piVars, GoStart, GoCheck, GoLoad, GoSave,
      GoSubmit, GoPoll, GoQuits, GoRetry, GoRedepart, PublishLost, PublishPart, Publish, ExecSees,
      GoalEnds, Expire, ExecPasses, ExecClaims, ExecReports

\* Nothing brings a cancelled run back.
LEMMA CancelledStays ==
  ASSUME TypeOK, ExecFits, RunsFit, [Next]_departVars, NEW r \in Runs, Cancelled(r)
  PROVE  Cancelled(r)'
<1>1. CASE \E g \in Goes : GoSubmit(g)
  BY <1>1 DEF GoSubmit, Cancelled
<1>2. CASE \A g \in Goes : ~GoSubmit(g)
  <2>1. RunKept(r)
    BY <1>2, RunsKept
  <2> QED
    BY <2>1 DEF RunKept, Cancelled
<1> QED
  BY <1>1, <1>2

\* An attempt begins with the claim of its request, and stays the attempt of that run.
LEMMA OnlyClaimsStart ==
  ASSUME TypeOK, [Next]_departVars, exec'.at \in {"start", "attempt", "send"}
  PROVE  \/ /\ exec.at \in {"start", "attempt", "send"} /\ exec'.run = exec.run
            /\ exec'.at = "start" => exec.at = "start"
         \/ ExecClaims
<1>1. ASSUME NEW g \in Goes, GoPrepare(g) \/ GoRestart(g)
      PROVE  exec.at = exec'.at /\ exec'.run = exec.run
  BY <1>1 DEF GoPrepare, GoRestart, FreshExecutor
<1>2. ASSUME NEW g \in Goes, GoLeave(g) PROVE exec.at = exec'.at /\ exec'.run = exec.run
  BY <1>2 DEF GoLeave, TypeOK
<1>3. CASE HandleSignal
  BY <1>3 DEF HandleSignal, TypeOK
<1>4. ASSUME NEW r \in Runs, ExecSees(r) PROVE FALSE
  BY <1>4 DEF ExecSees, TypeOK
<1>5. CASE ExecPasses
  BY <1>5 DEF ExecPasses, TypeOK
<1>6. CASE ExecNode \/ ExecRefuses \/ Look \/ SendGoal
  BY <1>6 DEF ExecNode, ExecRefuses, Look, SendGoal, TypeOK
<1>7. ASSUME NEW c \in {"ok", "nomap", "failed"}, ExecReturns(c) PROVE FALSE
  BY <1>7 DEF ExecReturns, TypeOK
<1>8. CASE ExecReports \/ ExecEnds
  BY <1>8 DEF ExecReports, ExecEnds, FreshExecutor, TypeOK
<1>9. CASE UNCHANGED exec
  BY <1>9
<1> QED
  BY <1>1, <1>2, <1>3, <1>4, <1>5, <1>6, <1>7, <1>8, <1>9
  DEF Next, GoStep, GoRuns, StopStep, PiStep, departVars, pcVars, piVars, GoStart, GoCheck, GoLoad,
      GoSave, GoSubmit, GoPoll, GoQuits, GoRetry, GoRedepart, StopSignal, StopLoad, StopSave, StopFirst,
      StopCancel, StopAgain, StopTimesOut, StopLost, PublishLost, PublishPart, Publish, GoalEnds, Expire

\* A stop that does not move keeps what it has done.
LEMMA StopRests ==
  ASSUME TypeOK, ExecFits, RunsFit, [Next]_departVars,
         NEW s \in Stops, StopFits(s), stop'[s] = stop[s]
  PROVE  StopFits(s)'
<1>1. stop[s].copy.unit \in Runs \cup {NoRun}
  BY DEF TypeOK, Files
<1>2. stop[s].at = "resignal" \/ Confirmed(s) => Cancelled(stop[s].copy.unit)'
  BY <1>1, CancelledStays DEF StopFits, Confirmed
<1>3. ASSUME Confirmed(s), exec'.run = stop[s].copy.unit, exec'.at \in {"start", "attempt", "send"}
      PROVE  Interrupted'
  <2>1. ~ExecClaims
    BY <1>3 DEF ExecClaims, StopFits, Cancelled, TypeOK
  <2>2. exec.at \in {"start", "attempt", "send"} /\ exec'.run = exec.run
    BY <1>3, <2>1, OnlyClaimsStart
  <2>3. Interrupted
    BY <1>3, <2>2 DEF StopFits
  <2> QED
    BY <1>3, <2>2, <2>3, InterruptStays
<1> QED
  BY <1>2, <1>3 DEF StopFits, Confirmed, Cancelled

\* A stop that moves marks the run first, and signals again last.
LEMMA StopMovesOn ==
  ASSUME TypeOK, NEW s \in Stops, StopFits(s), StopStep(s)
  PROVE  StopFits(s)' /\ \A t \in Stops \ {s} : stop'[t] = stop[t]
<1>t. stop \in StopTable /\ stop[s].copy.unit \in Runs \cup {NoRun}
  BY DEF TypeOK, StopTable, Files
<1> USE Points DEF StopFits, Confirmed
<1>1. ASSUME NEW arrives \in BOOLEAN, NEW heard \in BOOLEAN, StopSignal(s, arrives, heard)
      PROVE  StopFits(s)' /\ \A t \in Stops \ {s} : stop'[t] = stop[t]
  <2>1. /\ stop'[s].at = "load" /\ stop'[s].exit = stop[s].exit /\ stop[s].at = "new"
        /\ \A t \in Stops \ {s} : stop'[t] = stop[t]
    BY <1>t, <1>1 DEF StopSignal, StopTable
  <2> QED
    BY <2>1
<1>2. CASE StopLoad(s)
  <2>1. /\ stop'[s].at = "save" /\ stop'[s].exit = stop[s].exit /\ stop[s].at = "load"
        /\ \A t \in Stops \ {s} : stop'[t] = stop[t]
    BY <1>t, <1>2 DEF StopLoad, StopTable
  <2> QED
    BY <2>1
<1>3. CASE StopSave(s)
  <2>1. CASE stop[s].copy.unit # NoRun
    <3>1. /\ stop'[s].at = "cancel" /\ stop'[s].exit = stop[s].exit /\ stop'[s].copy = stop[s].copy
          /\ stop[s].at = "save" /\ \A t \in Stops \ {s} : stop'[t] = stop[t]
      BY <1>t, <1>3, <2>1, StopMoves DEF StopSave
    <3> QED
      BY <1>t, <2>1, <3>1
  <2>2. CASE stop[s].copy.unit = NoRun
    <3>1. /\ stop'[s].at = "end" /\ stop'[s].copy = stop[s].copy
          /\ \A t \in Stops \ {s} : stop'[t] = stop[t]
      BY <1>t, <1>3, <2>2 DEF StopSave, StopTable
    <3> QED
      BY <2>2, <3>1
  <2> QED
    BY <2>1, <2>2
<1>4. CASE StopFirst(s)
  <2>1. /\ stop'[s].at = "lock" /\ stop'[s].exit = stop[s].exit /\ stop'[s].copy = stop[s].copy
        /\ stop[s].at = "cancel" /\ \A t \in Stops \ {s} : stop'[t] = stop[t]
    BY <1>t, <1>4, StopMoves DEF StopFirst
  <2> QED
    BY <2>1
<1>5. CASE StopCancel(s)
  <2>1. /\ stop'[s].at = "resignal" /\ stop'[s].exit = stop[s].exit /\ stop'[s].copy = stop[s].copy
        /\ stop[s].at = "lock" /\ \A t \in Stops \ {s} : stop'[t] = stop[t]
    BY <1>t, <1>5, StopMoves DEF StopCancel
  <2>2. Cancelled(stop[s].copy.unit)'
    BY <1>5, <2>1 DEF StopCancel, Cancelled, TypeOK
  <2> QED
    BY <2>1, <2>2
<1>6. CASE StopAgain(s)
  <2>1. /\ stop'[s].at = "end" /\ stop'[s].copy = stop[s].copy
        /\ stop'[s].exit = IF stop[s].exit = "failed" \/ exec.at = "down" THEN "failed" ELSE "ok"
        /\ stop[s].at = "resignal" /\ \A t \in Stops \ {s} : stop'[t] = stop[t]
    BY <1>t, <1>6 DEF StopAgain, StopTable
  <2>2. stop'[s].exit = "ok" => Interrupted'
    <3>1. signal' = (signal \/ exec.at # "down")
      BY <1>6 DEF StopAgain, Signalled
    <3>2. stop'[s].exit = "ok" => exec.at # "down"
      BY <2>1
    <3> QED
      BY <3>1, <3>2, Zenon DEF Interrupted
  <2>3. Cancelled(stop[s].copy.unit)'
    BY <1>6, <2>1 DEF StopAgain, Cancelled
  <2> QED
    BY <2>1, <2>2, <2>3
<1>7. CASE StopTimesOut(s)
  <2>1. /\ stop'[s].at = stop[s].at /\ stop'[s].copy = stop[s].copy /\ stop'[s].exit = "failed"
        /\ \A t \in Stops \ {s} : stop'[t] = stop[t]
    BY <1>t, <1>7 DEF StopTimesOut, StopTable
  <2> QED
    BY <1>7, <2>1 DEF StopTimesOut, Cancelled, piVars
<1>8. CASE StopLost(s)
  <2>1. /\ stop'[s].at = "end" /\ stop'[s].copy = stop[s].copy /\ stop'[s].exit = "failed"
        /\ \A t \in Stops \ {s} : stop'[t] = stop[t]
    BY <1>t, <1>8 DEF StopLost, StopTable
  <2> QED
    BY <2>1
<1> HIDE DEF StopFits
<1> QED
  BY <1>1, <1>2, <1>3, <1>4, <1>5, <1>6, <1>7, <1>8 DEF StopStep

\* Each stop keeps what it has done, whoever takes the step.
LEMMA StopsStep == ASSUME TypeOK, ExecFits, RunsFit, StopsFit, [Next]_departVars PROVE StopsFit'
<1> USE DEF StopsFit
<1>1. ASSUME NEW s \in Stops, StopStep(s) PROVE StopsFit'
  BY <1>1, StopMovesOn, StopRests
<1>2. CASE stop' = stop
  BY <1>2, StopRests
<1>3. stop' = stop \/ \E s \in Stops : StopStep(s)
  BY DEF Next, GoStep, GoRuns, PiStep, departVars, pcVars, piVars, GoStart, GoCheck, GoPrepare, GoLoad,
     GoSave, GoSubmit, GoPoll, GoQuits, GoRetry, GoLeave, GoRestart, GoRedepart, PublishLost, PublishPart,
     Publish, ExecSees, GoalEnds, Expire, HandleSignal, ExecPasses, ExecClaims, ExecNode, ExecRefuses,
     Look, SendGoal, ExecReturns, ExecReports, ExecEnds
<1> QED
  BY <1>1, <1>2, <1>3

\* The executor has a run from the moment it has seen a request.
LEMMA ExecStep == ASSUME TypeOK, ExecFits, [Next]_departVars PROVE ExecFits'
<1> USE DEF ExecFits, TypeOK
<1>1. ASSUME NEW g \in Goes, GoPrepare(g) \/ GoRestart(g) PROVE ExecFits'
  BY <1>1 DEF GoPrepare, GoRestart, FreshExecutor
<1>2. ASSUME NEW g \in Goes, GoLeave(g) PROVE ExecFits'
  BY <1>2 DEF GoLeave
<1>3. CASE HandleSignal
  BY <1>3 DEF HandleSignal
<1>4. ASSUME NEW r \in Runs, ExecSees(r) PROVE ExecFits'
  BY <1>4 DEF ExecSees
<1>5. CASE ExecPasses \/ ExecReports \/ ExecEnds
  BY <1>5 DEF ExecPasses, ExecReports, ExecEnds, FreshExecutor
<1>6. CASE ExecClaims \/ ExecNode \/ ExecRefuses \/ Look \/ SendGoal
  BY <1>6 DEF ExecClaims, ExecNode, ExecRefuses, Look, SendGoal
<1>7. ASSUME NEW c \in {"ok", "nomap", "failed"}, ExecReturns(c) PROVE ExecFits'
  BY <1>7 DEF ExecReturns
<1>8. CASE UNCHANGED exec
  BY <1>8
<1> HIDE DEF ExecFits, TypeOK
<1> QED
  BY <1>1, <1>2, <1>3, <1>4, <1>5, <1>6, <1>7, <1>8
  DEF Next, GoStep, GoRuns, StopStep, PiStep, departVars, pcVars, piVars, GoStart, GoCheck, GoLoad,
      GoSave, GoSubmit, GoPoll, GoQuits, GoRetry, GoRedepart, StopSignal, StopLoad, StopSave, StopFirst,
      StopCancel, StopAgain, StopTimesOut, StopLost, PublishLost, PublishPart, Publish, GoalEnds, Expire

\* It holds before anything is started.
LEMMA DepartInvInit == Init => DepartInv
<1> SUFFICES ASSUME Init PROVE DepartInv
  OBVIOUS
<1>1. file \in Files /\ go \in GoTable /\ stop \in StopTable
  BY Points DEF Init, Files, GoTable, StopTable
<1>2. exec \in Executor /\ FilesOK
  BY DEF Init, Executor, FreshExecutor, ExecPoints, FilesOK
<1>3. TypeOK
  BY <1>1, <1>2 DEF GoTable, StopTable, Executor, FilesOK, TypeOK
<1>4. ExecFits /\ RunsFit
  BY RunFacts DEF Init, FreshExecutor, ExecFits, RunsFit
<1>5. GoesFit
  <2> SUFFICES ASSUME NEW g \in Goes PROVE GoFits(g)
    BY DEF GoesFit
  <2>1. go[g].at = "new" /\ go[g].try = 1
    BY DEF Init
  <2>2. wire[RunOf(g)] = "none" /\ wire[<<g, 2>>] = "none"
    BY <1>1, RunFacts, RunOfFacts DEF Init
  <2> QED
    BY <2>1, <2>2 DEF GoFits
<1>6. StopsFit
  BY DEF Init, StopsFit, StopFits, Confirmed
<1> QED
  BY <1>3, <1>4, <1>5, <1>6 DEF DepartInv

\* Every step keeps it.
LEMMA DepartInvStep == DepartInv /\ [Next]_departVars => DepartInv'
BY TypeStep, ExecStep, RunsStep, GoesStep, StopsStep DEF DepartInv

\* So it holds in every reachable state.
LEMMA DepartInvariant == Spec => []DepartInv
BY DepartInvInit, DepartInvStep, PTL DEF Spec

------------------------------------------------------------------------------
\* go, stop, the spool and the executor: every field keeps its type.
THEOREM DepartTypeCorrect == Spec => []TypeOK
<1>1. DepartInv => TypeOK
  BY DEF DepartInv
<1> QED
  BY <1>1, DepartInvariant, PTL

\* A confirmed stop of a recorded run leaves nothing of it that could start, and an attempt
\* of it that has started has the stop (cmd_stop() and serve()).
THEOREM StopHolding == Spec => []StopHolds
<1>1. DepartInv => StopHolds
  BY DEF DepartInv, StopsFit, StopFits, StopHolds, Cancelled
<1> QED
  BY <1>1, DepartInvariant, PTL

\* Once go has reported that a run was not submitted, the executor never claims it: the run
\* is marked, or was taken out of the spool after its only publication (running()).
THEOREM UnsentStays == Spec => UnsentNeverStarts
<1> DEFINE A == \A g \in Goes : go[g].at = "unsent" /\ exec'.at = "start" /\ exec.at # "start"
                                => exec'.run # RunOf(g)
<1>1. ASSUME DepartInv, [Next]_departVars PROVE [A]_departVars
  <2> SUFFICES ASSUME NEW g \in Goes, go[g].at = "unsent", exec'.at = "start", exec.at # "start"
               PROVE  exec'.run # RunOf(g)
    OBVIOUS
  <2>1. ExecClaims
    BY <1>1, OnlyClaimsStart DEF DepartInv
  <2>2. exec'.run = exec.run /\ "request" \in spool[exec.run] /\ "cancelled" \notin spool[exec.run]
    BY <1>1, <2>1 DEF ExecClaims, DepartInv, TypeOK
  <2> QED
    BY <1>1, <2>2 DEF DepartInv, GoesFit, GoFits
<1> QED
  BY <1>1, DepartInvariant, PTL DEF Spec, UnsentNeverStarts

------------------------------------------------------------------------------
(* Departure implements Drive *)

\* What Drive sees of a go.
View(point) == CASE point \in {"new", "done"} -> point
                 [] point \in {"failed", "unsent"} -> "failed"
                 [] OTHER -> "on"
at == [g \in Goes |-> View(go[g].at)]
moves == { r[1] : r \in driving }

\* A go that was not started, or whose run succeeded, stands, and nobody works for it: its
\* other run was not submitted, or found no map.
LEMMA Stands ==
  ASSUME DepartInv, NEW g \in Goes, go[g].at \in {"new", "done"} \/ code[RunOf(g)] = "ok"
  PROVE  g \notin moves /\ \A r \in Runs : r[1] = g => exec.run # r
<1> SUFFICES ASSUME NEW r \in Runs, r[1] = g PROVE r \notin driving /\ exec.run # r
  BY DEF DepartInv, TypeOK, moves
<1>t. go[g].try \in {1, 2} /\ RunOf(g) = <<g, go[g].try>> /\ r \in { <<g, 1>>, <<g, 2>> }
  BY RunOfFacts, RunFacts DEF DepartInv, TypeOK, GoTable
<1>f. GoFits(g)
  BY DEF DepartInv, GoesFit
<1>1. CASE r = RunOf(g)
  <2>1. wire[r] = "none" \/ code[r] = "ok"
    BY <1>1, <1>f DEF GoFits
  <2> QED
    BY <2>1 DEF DepartInv, RunsFit
<1>2. CASE r # RunOf(g)
  <2>1. wire[r] = "none" \/ code[r] = "nomap"
    BY <1>2, <1>t, <1>f DEF GoFits
  <2> QED
    BY <2>1 DEF DepartInv, RunsFit
<1> QED
  BY <1>1, <1>2

\* How go proceeds.
LEMMA GoPasses ==
  ASSUME TypeOK, NEW g \in Goes, GoStart(g) \/ GoStep(g)
  PROVE  /\ \/ go[g].at = "new" /\ go'[g].at = "check"
            \/ go[g].at \notin Ended \cup {"new"} /\ go'[g].at # "new"
         /\ go'[g].at = "done" /\ go[g].at # "done" => code[RunOf(g)] = "ok"
         /\ driving' = driving
<1>t. go \in GoTable
  BY DEF TypeOK, GoTable
<1>m. \A point \in GoPoints : GoTo(g, point) => go'[g].at = point
  BY <1>t, GoMoves
<1> USE Points DEF Ended
<1>1. CASE GoStart(g) \/ GoQuits(g)
  BY <1>m, <1>1 DEF GoStart, GoQuits, piVars
<1>2. CASE GoCheck(g) \/ GoPrepare(g)
  BY <1>m, <1>2 DEF GoCheck, GoPrepare, piVars
<1>3. CASE GoLoad(g)
  <2>1. go'[g].at = "save"
    BY <1>t, <1>3 DEF GoLoad, GoTable
  <2> QED
    BY <1>3, <2>1 DEF GoLoad, piVars
<1>4. CASE GoSave(g) \/ GoSubmit(g)
  BY <1>m, <1>4 DEF GoSave, GoSubmit, piVars
<1>5. ASSUME NEW heard \in BOOLEAN, GoPoll(g, heard)
      PROVE  /\ go[g].at = "follow" /\ driving' = driving /\ go'[g].at # "new"
             /\ go'[g].at = "done" => code[RunOf(g)] = "ok"
  <2>1. go[g].at = "follow" /\ driving' = driving
    BY <1>5 DEF GoPoll
  <2>2. \/ go' = go
        \/ GoTo(g, "done") /\ code[RunOf(g)] = "ok"
        \/ GoTo(g, "retry") \/ GoTo(g, "failed") \/ GoTo(g, "unsent")
    BY <1>5 DEF GoPoll
  <2> QED
    BY <1>m, <2>1, <2>2
<1>6. CASE GoRetry(g) \/ GoLeave(g) \/ GoRestart(g)
  BY <1>m, <1>6 DEF GoRetry, GoLeave, GoRestart, piVars
<1>7. CASE GoRedepart(g)
  <2>1. go'[g].at \in {"failed", "recheck"}
    <3>1. CASE g \in file.stopped
      BY <1>m, <1>7, <3>1 DEF GoRedepart
    <3>2. CASE g \notin file.stopped
      BY <1>t, <1>7, <3>2 DEF GoRedepart, GoTable
    <3> QED
      BY <3>1, <3>2
  <2> QED
    BY <1>7, <2>1 DEF GoRedepart, piVars
<1> QED
  BY <1>1, <1>2, <1>3, <1>4, <1>5, <1>6, <1>7 DEF GoStep, GoRuns

\* Only an attempt sends goals, and only the navigation and the attempt end them.
LEMMA OnlyAttemptsDrive ==
  [Next]_departVars => \/ driving' = driving
                       \/ SendGoal
                       \/ \E r \in Runs : GoalEnds(r)
BY DEF Next, GoStep, GoRuns, StopStep, PiStep, departVars, pcVars, piVars, GoStart, GoCheck, GoPrepare,
   GoLoad, GoSave, GoSubmit, GoPoll, GoQuits, GoRetry, GoLeave, GoRestart, GoRedepart, StopSignal,
   StopLoad, StopSave, StopFirst, StopCancel, StopAgain, StopTimesOut, StopLost, PublishLost,
   PublishPart, Publish, ExecSees, Expire, HandleSignal, ExecPasses, ExecClaims, ExecNode, ExecRefuses,
   Look, ExecReturns, ExecReports, ExecEnds

\* Only go moves a go.
LEMMA OnlyGoMoves ==
  [Next]_departVars => go' = go \/ \E g \in Goes : GoStart(g) \/ GoStep(g)
BY DEF Next, StopStep, PiStep, departVars, pcVars, piVars, StopSignal, StopLoad, StopSave, StopFirst,
   StopCancel, StopAgain, StopTimesOut, StopLost, PublishLost, PublishPart, Publish, ExecSees, GoalEnds,
   Expire, HandleSignal, ExecPasses, ExecClaims, ExecNode, ExecRefuses, Look, SendGoal, ExecReturns,
   ExecReports, ExecEnds

\* Each step of go, of the executor and of the navigation is a step of Drive, or none.
LEMMA DriveStep ==
  ASSUME DepartInv, [Next]_departVars
  PROVE  \/ \E g \in Goes :
              \/ at[g] = "new" /\ at' = [at EXCEPT ![g] = "on"] /\ moves' = moves
              \/ at[g] \in {"on", "failed"} /\ moves' = moves \cup {g} /\ at' = at
              \/ moves' = moves \ {g} /\ at' = at
              \/ at[g] = "on" /\ g \notin moves /\ at' = [at EXCEPT ![g] = "done"] /\ moves' = moves
              \/ at[g] = "on" /\ at' = [at EXCEPT ![g] = "failed"] /\ moves' = moves
         \/ at' = at /\ moves' = moves
<1>t. TypeOK /\ driving \in SUBSET Runs
  BY DEF DepartInv, TypeOK
<1>0. go' = go => at' = at
  BY DEF at
<1>1. ASSUME NEW g \in Goes, GoStart(g) \/ GoStep(g)
      PROVE  /\ moves' = moves
             /\ \/ at[g] = "new" /\ at' = [at EXCEPT ![g] = "on"]
                \/ at[g] = "on" /\ g \notin moves /\ at' = [at EXCEPT ![g] = "done"]
                \/ at[g] = "on" /\ at' = [at EXCEPT ![g] = "failed"]
                \/ at' = at
  <2>1. \A h \in Goes \ {g} : go'[h] = go[h]
    BY <1>1, GoMovesOn DEF DepartInv, GoesFit
  <2>2. at' = [at EXCEPT ![g] = View(go'[g].at)]
    BY <2>1 DEF at
  <2>3. at[g] = View(go[g].at)
    BY DEF at
  <2>4. moves' = moves
    BY <1>1, <1>t, GoPasses DEF moves
  <2>5. CASE go[g].at = "new" /\ go'[g].at = "check"
    <3>1. View(go[g].at) = "new" /\ View(go'[g].at) = "on"
      BY <2>5 DEF View
    <3> QED
      BY <2>2, <2>3, <2>4, <3>1
  <2>6. CASE go[g].at \notin Ended \cup {"new"} /\ go'[g].at # "new"
    <3>1. View(go[g].at) = "on"
      BY <2>6 DEF View, Ended
    <3>2. CASE go'[g].at = "done"
      <4>1. g \notin moves
        BY <1>1, <1>t, <2>6, <3>2, GoPasses, Stands DEF Ended
      <4> QED
        BY <2>2, <2>3, <2>4, <3>1, <3>2, <4>1 DEF View
    <3>3. CASE go'[g].at \in {"failed", "unsent"}
      <4>1. View(go'[g].at) = "failed"
        BY <3>3 DEF View
      <4> QED
        BY <2>2, <2>3, <2>4, <3>1, <4>1
    <3>4. CASE go'[g].at \notin Ended
      <4>1. View(go'[g].at) = "on"
        BY <2>6, <3>4 DEF View, Ended
      <4> QED
        BY <2>2, <2>3, <2>4, <3>1, <4>1 DEF at
    <3> QED
      BY <3>2, <3>3, <3>4 DEF Ended
  <2> QED
    BY <1>1, <1>t, <2>5, <2>6, GoPasses
<1>2. CASE SendGoal
  <2>1. exec.run \in Runs /\ exec.run[1] \in Goes
    BY <1>2, RunFacts DEF SendGoal, DepartInv, ExecFits
  <2>2. go[exec.run[1]].at \notin {"new", "done"}
    BY <2>1, Stands
  <2>3. at[exec.run[1]] \in {"on", "failed"}
    BY <2>1, <2>2 DEF at, View
  <2>4. moves' = moves \cup {exec.run[1]} /\ go' = go
    BY <1>2 DEF SendGoal, moves, pcVars
  <2> QED
    BY <1>0, <2>1, <2>3, <2>4
<1>3. ASSUME NEW r \in Runs, GoalEnds(r) PROVE go' = go /\ (moves' = moves \/ moves' = moves \ {r[1]})
  <2>1. driving' = driving \ {r} /\ go' = go
    BY <1>3 DEF GoalEnds, pcVars
  <2>2. CASE \E p \in driving : p # r /\ p[1] = r[1]
    <3>1. moves' = moves
      BY <2>1, <2>2 DEF moves
    <3> QED
      BY <2>1, <3>1
  <2>3. CASE ~ \E p \in driving : p # r /\ p[1] = r[1]
    <3>1. moves' = moves \ {r[1]}
      BY <2>1, <2>3 DEF moves
    <3> QED
      BY <2>1, <3>1
  <2> QED
    BY <2>2, <2>3
<1>4. CASE go' = go /\ driving' = driving
  <2>1. moves' = moves
    BY <1>4 DEF moves
  <2> QED
    BY <1>0, <1>4, <2>1
<1>5. \A r \in Runs : r[1] \in Goes
  BY RunFacts
<1> QED
  BY <1>0, <1>1, <1>2, <1>3, <1>4, <1>5, OnlyGoMoves, OnlyAttemptsDrive

\* Whatever becomes of ssh, of the spool and of the executor, a departure drives only after it
\* was started, and one that reports success has come to a halt for good.
THEOREM ImplementsDrive == Spec => DrivePromise
<1>1. Init => Promise!DriveInit
  BY DEF Init, Promise!DriveInit
<1>2. DepartInv /\ [Next]_departVars => [Promise!DriveNext]_(Promise!drive)
  <2> SUFFICES ASSUME DepartInv, [Next]_departVars PROVE Promise!DriveNext \/ UNCHANGED Promise!drive
    OBVIOUS
  <2> QED
    BY DriveStep DEF Promise!DriveNext, Promise!Start, Promise!Proceed, Promise!Move, Promise!Halt,
       Promise!Done, Promise!Fail, Promise!drive, at, moves, View
<1> QED
  BY <1>1, <1>2, DepartInvariant, PTL DEF Spec, DrivePromise, Promise!DriveSpec

------------------------------------------------------------------------------
(* What comes to pass *)

\* Weak fairness as Fairness states it, with the guard of the action for ENABLED, of which
\* the prover knows nothing: HandleSignal and GoalEnds(r) have no other condition, and
\* Expire(r) is asked for once its go has ended.
Handled == []<>~signal \/ []<><<HandleSignal>>_departVars
GoalOver(r) == []<>(r \notin driving) \/ []<><<GoalEnds(r)>>_departVars
GrowsOld(r) == []<>~(fresh[r] /\ go[r[1]].at \in Ended) \/ []<><<Expire(r)>>_departVars

\* An attempt that runs when the signal is handled tells its node.
FlagTold == exec.at \in {"attempt", "send"} /\ exec.flag => exec.told

\* The stop is confirmed, and it was for this run.
ConfirmedFor(s, r) == Confirmed(s) /\ stop[s].copy.unit = r

\* An attempt of the run has the stop, be it before its node or after.
Stopped(r) == exec.run = r /\ exec.at \in {"start", "attempt", "send"} => exec.flag \/ exec.told

\* The executor's own steps keep FlagTold, for a flagged attempt never begins.
LEMMA FlagTells == ASSUME TypeOK, FlagTold, [Next]_departVars PROVE FlagTold'
<1> USE DEF FlagTold
<1>1. ASSUME NEW g \in Goes, GoPrepare(g) \/ GoRestart(g) PROVE FlagTold'
  BY <1>1 DEF GoPrepare, GoRestart, FreshExecutor
<1>2. ASSUME NEW g \in Goes, GoLeave(g) PROVE FlagTold'
  BY <1>2 DEF GoLeave, TypeOK, HasNode
<1>3. CASE HandleSignal
  BY <1>3 DEF HandleSignal, TypeOK, HasNode
<1>4. ASSUME NEW r \in Runs, ExecSees(r) PROVE FlagTold'
  BY <1>4 DEF ExecSees, TypeOK
<1>5. CASE ExecPasses
  BY <1>5 DEF ExecPasses, TypeOK
<1>6. CASE ExecClaims \/ ExecNode
  BY <1>6 DEF ExecClaims, ExecNode, TypeOK
<1>7. CASE ExecRefuses \/ Look \/ SendGoal
  BY <1>7 DEF ExecRefuses, Look, SendGoal, TypeOK
<1>8. ASSUME NEW c \in {"ok", "nomap", "failed"}, ExecReturns(c) PROVE FlagTold'
  BY <1>8 DEF ExecReturns, TypeOK
<1>9. CASE ExecReports \/ ExecEnds
  BY <1>9 DEF ExecReports, ExecEnds, FreshExecutor, TypeOK
<1>10. CASE UNCHANGED exec
  BY <1>10
<1> HIDE DEF FlagTold
<1> QED
  BY <1>1, <1>2, <1>3, <1>4, <1>5, <1>6, <1>7, <1>8, <1>9, <1>10
  DEF Next, GoStep, GoRuns, StopStep, PiStep, departVars, pcVars, piVars, GoStart, GoCheck, GoLoad,
      GoSave, GoSubmit, GoPoll, GoQuits, GoRetry, GoRedepart, StopSignal, StopLoad, StopSave, StopFirst,
      StopCancel, StopAgain, StopTimesOut, StopLost, PublishLost, PublishPart, Publish, GoalEnds, Expire

LEMMA FlagToldAlways == Spec => []FlagTold
<1>1. Init => FlagTold
  BY DEF Init, FlagTold, FreshExecutor
<1>2. DepartInv /\ FlagTold /\ [Next]_departVars => FlagTold'
  BY FlagTells DEF DepartInv
<1> QED
  BY <1>1, <1>2, DepartInvariant, PTL DEF Spec

\* A stop that has ended stays as it is.
LEMMA ConfirmedStays ==
  ASSUME DepartInv, [Next]_departVars, NEW s \in Stops, NEW r \in Runs, ConfirmedFor(s, r)
  PROVE  ConfirmedFor(s, r)'
<1>1. stop[s].at = "end" /\ stop \in StopTable
  BY DEF ConfirmedFor, Confirmed, DepartInv, StopsFit, StopFits, TypeOK, StopTable
<1>2. ~StopStep(s)
  BY <1>1 DEF StopStep, StopSignal, StopLoad, StopSave, StopFirst, StopCancel, StopAgain,
              StopTimesOut, StopLost
<1>3. ASSUME NEW t \in Stops, StopStep(t) PROVE stop'[s] = stop[s]
  BY <1>1, <1>2, <1>3, StopMovesOn DEF DepartInv, StopsFit
<1>4. stop'[s] = stop[s]
  BY <1>3 DEF Next, GoStart, GoStep, GoRuns, PiStep, departVars, pcVars, piVars, GoCheck, GoPrepare,
      GoLoad, GoSave, GoSubmit, GoPoll, GoQuits, GoRetry, GoLeave, GoRestart, GoRedepart, PublishLost,
      PublishPart, Publish, ExecSees, GoalEnds, Expire, HandleSignal, ExecPasses, ExecClaims, ExecNode,
      ExecRefuses, Look, SendGoal, ExecReturns, ExecReports, ExecEnds
<1> QED
  BY <1>4 DEF ConfirmedFor, Confirmed

\* An attempt does not forget the stop.
LEMMA StopKept ==
  ASSUME TypeOK, [Next]_departVars, exec.flag \/ exec.told, exec.at \in {"start", "attempt", "send"},
         exec'.at \in {"start", "attempt", "send"}
  PROVE  exec'.flag \/ exec'.told
<1>1. ASSUME NEW g \in Goes, GoPrepare(g) \/ GoLeave(g) \/ GoRestart(g)
      PROVE  exec'.flag \/ exec'.told
  BY <1>1 DEF GoPrepare, GoLeave, GoRestart, TypeOK, FreshExecutor, UnitActive
<1>2. CASE HandleSignal
  BY <1>2 DEF HandleSignal, TypeOK
<1>3. CASE ExecNode \/ ExecRefuses \/ Look \/ SendGoal
  BY <1>3 DEF ExecNode, ExecRefuses, Look, SendGoal, TypeOK
<1>4. ASSUME NEW c \in {"ok", "nomap", "failed"}, ExecReturns(c) PROVE FALSE
  BY <1>4 DEF ExecReturns, TypeOK
<1>5. CASE ExecEnds
  BY <1>5 DEF ExecEnds, FreshExecutor
<1>6. CASE UNCHANGED exec
  BY <1>6
<1> QED
  BY <1>1, <1>2, <1>3, <1>4, <1>5, <1>6
  DEF Next, GoStep, GoRuns, StopStep, PiStep, departVars, pcVars, piVars, GoStart, GoCheck, GoLoad, GoSave,
      GoSubmit, GoPoll, GoQuits, GoRetry, GoRedepart, StopSignal, StopLoad, StopSave, StopFirst,
      StopCancel, StopAgain, StopTimesOut, StopLost, PublishLost, PublishPart, Publish, ExecSees,
      GoalEnds, Expire, ExecPasses, ExecClaims, ExecReports

\* Once the attempt of a run with a confirmed stop has it, it keeps it: no other attempt of
\* that run begins.
LEMMA StoppedStays ==
  ASSUME DepartInv, [Next]_departVars, NEW s \in Stops, NEW r \in Runs, ConfirmedFor(s, r), Stopped(r)
  PROVE  Stopped(r)'
<1> SUFFICES ASSUME exec'.run = r, exec'.at \in {"start", "attempt", "send"}
             PROVE  exec'.flag \/ exec'.told
  BY DEF Stopped
<1>1. Cancelled(r)
  BY DEF DepartInv, StopsFit, StopFits, ConfirmedFor
<1>2. ~ExecClaims
  BY <1>1 DEF ExecClaims, Cancelled, DepartInv, TypeOK
<1>3. exec.at \in {"start", "attempt", "send"} /\ exec.run = r
  BY <1>2, OnlyClaimsStart DEF DepartInv
<1> QED
  BY <1>3, StopKept DEF Stopped, DepartInv

\* The attempt of the run has looked at the stop and the link, and sends a goal now.
Sends(r) == exec.run = r /\ exec.at = "send"

\* A goal is sent only after a look.
LEMMA OnlyLooksSend ==
  ASSUME TypeOK, [Next]_departVars, NEW r \in Runs, Sends(r)'
  PROVE  Sends(r) \/ (Look /\ exec.run = r)
<1>1. ASSUME NEW g \in Goes, GoPrepare(g) \/ GoRestart(g) PROVE UNCHANGED exec
  BY <1>1 DEF GoPrepare, GoRestart, FreshExecutor, Sends
<1>2. ASSUME NEW g \in Goes, GoLeave(g) PROVE exec'.at = exec.at /\ exec'.run = exec.run
  BY <1>2 DEF GoLeave, TypeOK
<1>3. CASE HandleSignal
  BY <1>3 DEF HandleSignal, TypeOK, Sends
<1>4. ASSUME NEW p \in Runs, ExecSees(p) PROVE FALSE
  BY <1>4 DEF ExecSees, TypeOK, Sends
<1>5. CASE ExecPasses \/ ExecClaims \/ ExecNode \/ ExecRefuses \/ SendGoal \/ ExecReports
  BY <1>5 DEF ExecPasses, ExecClaims, ExecNode, ExecRefuses, SendGoal, ExecReports, TypeOK, Sends
<1>6. ASSUME NEW c \in {"ok", "nomap", "failed"}, ExecReturns(c) PROVE FALSE
  BY <1>6 DEF ExecReturns, TypeOK, Sends
<1>7. CASE ExecEnds
  BY <1>7 DEF ExecEnds, FreshExecutor, Sends
<1>8. CASE Look
  BY <1>8 DEF Look, TypeOK, Sends
<1>9. CASE UNCHANGED exec
  BY <1>9 DEF Sends
<1> QED
  BY <1>1, <1>2, <1>3, <1>4, <1>5, <1>6, <1>7, <1>8, <1>9
  DEF Sends, Next, GoStep, GoRuns, StopStep, PiStep, departVars, pcVars, piVars, GoStart, GoCheck,
      GoLoad, GoSave, GoSubmit, GoPoll, GoQuits, GoRetry, GoRedepart, StopSignal, StopLoad, StopSave,
      StopFirst, StopCancel, StopAgain, StopTimesOut, StopLost, PublishLost, PublishPart, Publish,
      GoalEnds, Expire

\* A run that stands still drives again only by a goal that is about to be sent.
LEMMA RestStays ==
  ASSUME [Next]_departVars, NEW r \in Runs, r \notin driving
  PROVE  r \notin driving' \/ (Sends(r) /\ (TypeOK => ~Sends(r)'))
<1>1. CASE SendGoal
  BY <1>1 DEF SendGoal, Sends, TypeOK
<1>2. ASSUME NEW p \in Runs, GoalEnds(p) PROVE r \notin driving'
  BY <1>2 DEF GoalEnds
<1> QED
  BY <1>1, <1>2, OnlyAttemptsDrive

\* An attempt that has the stop sends no goal but the one it was sending.
LEMMA SendsNoMore ==
  ASSUME DepartInv, FlagTold, [Next]_departVars, NEW r \in Runs, Stopped(r), ~Sends(r)
  PROVE  ~Sends(r)'
<1>1. ~(Look /\ exec.run = r)
  BY DEF Look, Stopped, FlagTold
<1> QED
  BY <1>1, OnlyLooksSend DEF DepartInv

\* The stop of one run.
LEMMA OneStopHalts ==
  ASSUME NEW s \in Stops, NEW r \in Runs
  PROVE  Spec /\ Handled /\ GoalOver(r) => (ConfirmedFor(s, r) ~> [](r \notin driving))
<1> DEFINE C == ConfirmedFor(s, r)
           K == Stopped(r)
           D == r \in driving
           N == Sends(r)
<1>1. DepartInv /\ [Next]_departVars /\ C => C'
  BY ConfirmedStays
<1>2. DepartInv /\ [Next]_departVars /\ C /\ K => K'
  BY StoppedStays
<1>3. /\ DepartInv /\ FlagTold /\ [Next]_departVars /\ K /\ ~N => ~N'
      /\ DepartInv /\ [Next]_departVars /\ ~D => ~D' \/ (N /\ ~N')
  BY RestStays, SendsNoMore DEF DepartInv
<1>4. DepartInv /\ C /\ ~signal => K
  BY DEF DepartInv, StopsFit, StopFits, ConfirmedFor, Stopped, Interrupted
<1>5. <<HandleSignal>>_departVars => ~signal'
  BY DEF HandleSignal
<1>6. <<GoalEnds(r)>>_departVars => ~D'
  BY DEF GoalEnds
<1>7. r \notin driving <=> ~D
  OBVIOUS
<1> HIDE DEF C, K, D, N
<1>8. Spec /\ Handled /\ GoalOver(r) => (C ~> [](r \notin driving))
  BY <1>1, <1>2, <1>3, <1>4, <1>5, <1>6, <1>7, DepartInvariant, FlagToldAlways, PTL
  DEF Spec, Handled, GoalOver
<1> QED
  BY <1>8 DEF C

\* A confirmed stop of a recorded run ends its motion for good, as soon as the signals are
\* handled and the goals end (cmd_stop(), stop_attempt() and run_attempt()).
THEOREM StopHalting == Spec /\ Handled /\ (\A r \in Runs : GoalOver(r)) => StopHalts
<1>1. ASSUME NEW s \in Stops, NEW r \in Runs
      PROVE  Spec /\ Handled /\ GoalOver(r)
               => ((Confirmed(s) /\ stop[s].copy.unit = r) ~> [](r \notin driving))
  BY OneStopHalts, PTL DEF ConfirmedFor
<1> QED
  BY <1>1 DEF StopHalts

\* A go that has ended touches no heartbeat and stays as it is.
LEMMA EndedStays ==
  ASSUME DepartInv, [Next]_departVars, NEW g \in Goes, go[g].at \in Ended,
         NEW r \in Runs, r[1] = g
  PROVE  go'[g] = go[g] /\ (~fresh[r] => ~fresh'[r])
<1>1. ~(GoStart(g) \/ GoStep(g))
  BY GoPasses DEF DepartInv, Ended
<1>2. go'[g] = go[g]
  BY <1>1, GoMovesOn, OnlyGoMoves DEF DepartInv, GoesFit
<1>3. ASSUME NEW h \in Goes, \/ GoPrepare(h)
                             \/ \E heard \in BOOLEAN : GoPoll(h, heard)
      PROVE  ~fresh[r] => ~fresh'[r]
  <2>1. h # g
    BY <1>3 DEF GoPrepare, GoPoll, Ended
  <2>2. RunOf(h) # r
    BY <2>1, RunOfFacts, RunFacts DEF DepartInv, TypeOK, GoTable
  <2>3. fresh' = [fresh EXCEPT ![RunOf(h)] = TRUE]
    BY <1>3 DEF GoPrepare, GoPoll
  <2> QED
    BY <2>2, <2>3 DEF DepartInv, TypeOK
<1>4. ASSUME NEW p \in Runs, Expire(p) PROVE ~fresh[r] => ~fresh'[r]
  BY <1>4 DEF Expire, DepartInv, TypeOK
<1>5. ASSUME UNCHANGED fresh PROVE ~fresh[r] => ~fresh'[r]
  BY <1>5
<1>6. ~fresh[r] => ~fresh'[r]
  BY <1>3, <1>4, <1>5
  DEF Next, GoStep, GoRuns, StopStep, PiStep, departVars, pcVars, piVars, GoStart, GoCheck, GoLoad, GoSave,
      GoSubmit, GoQuits, GoRetry, GoLeave, GoRestart, GoRedepart, StopSignal, StopLoad, StopSave,
      StopFirst, StopCancel, StopAgain, StopTimesOut, StopLost, PublishLost, PublishPart, Publish,
      ExecSees, GoalEnds, HandleSignal, ExecPasses, ExecClaims, ExecNode, ExecRefuses, Look, SendGoal,
      ExecReturns, ExecReports, ExecEnds
<1> QED
  BY <1>2, <1>6

\* The run stands still for good once its go has ended.
RunHalts(r) == go[r[1]].at \in Ended ~> [](r \notin driving)

\* One run nobody follows any more.
LEMMA OneRunHalts ==
  ASSUME NEW r \in Runs
  PROVE  Spec /\ GoalOver(r) /\ GrowsOld(r) => RunHalts(r)
<1> DEFINE O == go[r[1]].at \in Ended
           H == fresh[r]
           D == r \in driving
           N == Sends(r)
<1>1. DepartInv /\ [Next]_departVars /\ O => O' /\ (~H => ~H')
  BY RunFacts, EndedStays
<1>2. /\ DepartInv /\ [Next]_departVars /\ ~H /\ ~N => ~N'
      /\ DepartInv /\ [Next]_departVars /\ ~D => ~D' \/ (N /\ ~N')
  BY RestStays, OnlyLooksSend DEF DepartInv, Look
<1>3. DepartInv /\ <<Expire(r)>>_departVars => ~H'
  BY DEF Expire, DepartInv, TypeOK
<1>4. <<GoalEnds(r)>>_departVars => ~D'
  BY DEF GoalEnds
<1>5. r \notin driving <=> ~D
  OBVIOUS
<1>6. O /\ H <=> fresh[r] /\ go[r[1]].at \in Ended
  OBVIOUS
<1> HIDE DEF O, H, D, N
<1>7. Spec /\ GoalOver(r) /\ GrowsOld(r) => (O ~> [](r \notin driving))
  BY <1>1, <1>2, <1>3, <1>4, <1>5, <1>6, DepartInvariant, PTL DEF Spec, GoalOver, GrowsOld
<1> QED
  BY <1>7 DEF O, RunHalts

\* A run nobody follows any more comes to a halt for good, whatever the executor still does
\* with it: the heartbeat grows old, and goals end (the link check of run_attempt()).
THEOREM UnattendedHalting ==
  Spec /\ (\A r \in Runs : GoalOver(r) /\ GrowsOld(r)) => UnattendedHalts
<1>1. Spec /\ (\A r \in Runs : GoalOver(r) /\ GrowsOld(r))
        => \A g \in Goes : RunHalts(<<g, 1>>) /\ RunHalts(<<g, 2>>)
  BY RunFacts, OneRunHalts
<1>2. ASSUME NEW g \in Goes
      PROVE  RunHalts(<<g, 1>>) /\ RunHalts(<<g, 2>>)
               => (go[g].at \in Ended ~> [](\A i \in {1, 2} : <<g, i>> \notin driving))
  <2>1. (\A i \in {1, 2} : <<g, i>> \notin driving)
          <=> <<g, 1>> \notin driving /\ <<g, 2>> \notin driving
    OBVIOUS
  <2>2. /\ go[<<g, 1>>[1]].at \in Ended <=> go[g].at \in Ended
        /\ go[<<g, 2>>[1]].at \in Ended <=> go[g].at \in Ended
    OBVIOUS
  <2> QED
    BY <2>1, <2>2, PTL DEF RunHalts
<1> QED
  BY <1>1, <1>2 DEF UnattendedHalts

------------------------------------------------------------------------------
(* A departure comes to an end *)

\* One departure at a time, which refuse_during_cycle() and the mission service see to.  Of two
\* that overlap, one may wait for ever: the executor dies, its running file stays, and the other
\* one starts it again.
OneDeparture == \A g, h \in Goes : g = h

\* Where go goes from each of its points, unless it ends, and with which of its runs.
After ==
  [ check |-> "prepare", prepare |-> "load", load |-> "save", save |-> "submit",
    submit |-> "follow", follow |-> "retry", retry |-> "leave", leave |-> "restart",
    restart |-> "redepart", redepart |-> "recheck", recheck |-> "prepare" ]
TryAfter(p, i) == IF p = "redepart" THEN 2 ELSE i

GoAt(g, p, i) == go[g].at = p /\ go[g].try = i
GoOver(g) == go[g].at \in Ended
GoesOn(g) ==
  go'[g].at = After[go[g].at] /\ go'[g].try = TryAfter(go[g].at, go[g].try)

\* A step of go moves it on, or ends it.
LEMMA GoCourse ==
  ASSUME go \in GoTable, NEW g \in Goes, GoStep(g), go' # go
  PROVE  \/ GoOver(g)'
         \/ GoesOn(g)
<1>m. ASSUME NEW point \in GoPoints, GoTo(g, point)
      PROVE  go'[g].at = point /\ go'[g].try = go[g].try
  BY <1>m, GoMoves
<1> USE Points DEF GoesOn, GoOver, After, TryAfter, Ended
<1>1. CASE GoQuits(g)
  BY <1>m, <1>1 DEF GoQuits
<1>2. CASE GoCheck(g)
  BY <1>m, <1>2 DEF GoCheck
<1>3. CASE GoPrepare(g)
  BY <1>m, <1>3 DEF GoPrepare
<1>4. CASE GoLoad(g)
  <2>1. go'[g].at = "save" /\ go'[g].try = go[g].try
    BY <1>4 DEF GoLoad, GoTable
  <2> QED
    BY <1>4, <2>1 DEF GoLoad
<1>5. CASE GoSave(g) \/ GoSubmit(g)
  BY <1>m, <1>5 DEF GoSave, GoSubmit
<1>6. ASSUME NEW heard \in BOOLEAN, GoPoll(g, heard) PROVE GoOver(g)' \/ GoesOn(g)
  <2>1. go[g].at = "follow" /\ \E point \in {"done", "retry", "failed", "unsent"} : GoTo(g, point)
    BY <1>6 DEF GoPoll
  <2> QED
    BY <1>m, <2>1
<1>7. CASE GoRetry(g) \/ GoLeave(g) \/ GoRestart(g)
  BY <1>m, <1>7 DEF GoRetry, GoLeave, GoRestart
<1>8. CASE GoRedepart(g)
  <2>1. CASE g \in file.stopped
    BY <1>m, <1>8, <2>1 DEF GoRedepart
  <2>2. CASE g \notin file.stopped
    <3>1. go'[g].at = "recheck" /\ go'[g].try = 2
      BY <1>8, <2>2 DEF GoRedepart, GoTable
    <3> QED
      BY <1>8, <3>1 DEF GoRedepart
  <2> QED
    BY <2>1, <2>2
<1> QED
  BY <1>1, <1>2, <1>3, <1>4, <1>5, <1>6, <1>7, <1>8 DEF GoStep, GoRuns

\* The same of every step, while nobody else departs.
LEMMA OneGoCourse ==
  ASSUME OneDeparture, DepartInv, [Next]_departVars, NEW g \in Goes, ~GoOver(g), go[g].at # "new"
  PROVE  \/ GoOver(g)'
         \/ GoesOn(g)
         \/ go' = go
<1>1. ~GoStart(g)
  BY DEF GoStart
<1>2. go' = go \/ GoStep(g)
  BY <1>1, OnlyGoMoves DEF OneDeparture
<1>3. go \in GoTable
  BY DEF DepartInv, TypeOK, GoTable
<1> QED
  BY <1>2, <1>3, GoCourse

\* Progress, with the guards of its steps in the place of ENABLED: a go that is waiting for
\* an attempt, or for the executor to leave, cannot step.
Present(r) == spool[r] \cap {"request", "running"} # {}
GoCan(g) ==
  /\ go[g].at \notin Ended \cup {"new"}
  /\ go[g].at = "follow" => ~(code[RunOf(g)] = "none" /\ Present(RunOf(g)) /\ UnitActive)
  /\ go[g].at = "restart" => exec.at = "down" \/ UnitActive
GoProceeds(g) == []<>~GoCan(g) \/ []<><<GoProgress(g)>>_departVars
UnitLeaves ==
  []<>~(exec.leaving /\ exec.at # "down") \/ []<><<exec.leaving /\ ExecEnds>>_departVars
LoopStep == ExecPasses \/ ExecClaims \/ ExecNode \/ SendGoal \/ ExecReports
LoopProceeds == []<>(exec.at \notin {"claim", "start", "send", "finish"}) \/ []<><<LoopStep>>_departVars
SeesRequest == \E r \in Runs : ExecSees(r)
RequestSeen ==
  \/ []<>~(exec.at = "idle" /\ ~exec.leaving /\ \E r \in Runs : "request" \in spool[r])
  \/ []<><<SeesRequest>>_departVars
AttemptReturns == \E c \in {"ok", "nomap", "failed"} : ExecReturns(c)
AttemptsReturn == <>[](exec.at # "attempt") \/ []<><<AttemptReturns>>_departVars

\* A point at which go waits for nothing is left.
PointPasses(g, p, i) == GoAt(g, p, i) ~> GoOver(g) \/ GoAt(g, After[p], TryAfter(p, i))

LEMMA OnePointPasses ==
  ASSUME OneDeparture, NEW g \in Goes, NEW i \in {1, 2},
         NEW p \in (DOMAIN After) \ {"follow", "restart"}
  PROVE  Spec /\ GoProceeds(g) => PointPasses(g, p, i)
<1> DEFINE P == GoAt(g, p, i)
           X == GoOver(g) \/ GoAt(g, After[p], TryAfter(p, i))
           N == ~GoCan(g)
           S == GoProgress(g)
<1>p. p \in {"check", "prepare", "load", "save", "submit", "retry", "leave", "redepart", "recheck"}
  BY DEF After
<1>1. DepartInv /\ [Next]_departVars /\ P => P' \/ X'
  BY <1>p, OneGoCourse DEF GoesOn, GoAt, GoOver, Ended
<1>2. DepartInv /\ <<S>>_departVars /\ P => X'
  <2> SUFFICES ASSUME DepartInv, GoProgress(g), P PROVE X'
    OBVIOUS
  <2>1. GoStep(g) /\ go' # go /\ go \in GoTable
    BY DEF GoProgress, GoStep, DepartInv, TypeOK, GoTable
  <2> QED
    BY <2>1, GoCourse DEF GoesOn, GoAt
<1>3. P => ~N
  BY <1>p DEF GoAt, GoCan, Ended
<1> HIDE DEF P, X, N, S
<1>4. Spec /\ ([]<>N \/ []<><<S>>_departVars) => (P ~> X)
  BY <1>1, <1>2, <1>3, DepartInvariant, PTL DEF Spec
<1> QED
  BY <1>4 DEF P, X, N, S, GoProceeds, PointPasses

------------------------------------------------------------------------------
(* The restart *)

\* While go waits for the executor to leave, nobody starts it again or tells it to leave.
LEMMA RestartCourse ==
  ASSUME OneDeparture, DepartInv, [Next]_departVars, NEW g \in Goes, go[g].at = "restart", go' = go,
         exec.at = "down" \/ UnitActive
  PROVE  (exec.at = "down" \/ UnitActive)'
<1>1. ASSUME NEW h \in Goes, GoPrepare(h) \/ GoLeave(h) \/ GoRestart(h) PROVE FALSE
  <2>1. h = g
    BY DEF OneDeparture
  <2>2. go'[g].at # "restart"
    BY <1>1, <2>1, GoMoves, Points DEF GoPrepare, GoLeave, GoRestart, DepartInv, TypeOK, GoTable
  <2> QED
    BY <2>2
<1>2. CASE UNCHANGED exec
  BY <1>2 DEF UnitActive
<1>3. CASE HandleSignal
  BY <1>3 DEF HandleSignal, UnitActive, DepartInv, TypeOK
<1>4. ASSUME NEW r \in Runs, ExecSees(r) PROVE (exec.at = "down" \/ UnitActive)'
  BY <1>4 DEF ExecSees, UnitActive, DepartInv, TypeOK
<1>5. CASE ExecPasses \/ ExecClaims \/ ExecNode \/ ExecRefuses \/ Look \/ SendGoal \/ ExecReports
  <2>1. exec'.leaving = exec.leaving /\ exec'.at # "down" /\ exec.at # "down"
    BY <1>5 DEF ExecPasses, ExecClaims, ExecNode, ExecRefuses, Look, SendGoal, ExecReports, DepartInv, TypeOK
  <2> QED
    BY <2>1 DEF UnitActive
<1>6. ASSUME NEW c \in {"ok", "nomap", "failed"}, ExecReturns(c)
      PROVE  (exec.at = "down" \/ UnitActive)'
  BY <1>6 DEF ExecReturns, UnitActive, DepartInv, TypeOK
<1>7. CASE ExecEnds
  BY <1>7 DEF ExecEnds, FreshExecutor
<1> QED
  BY <1>1, <1>2, <1>3, <1>4, <1>5, <1>6, <1>7
  DEF Next, GoStep, GoRuns, StopStep, PiStep, departVars, pcVars, piVars, GoStart, GoCheck, GoLoad,
      GoSave, GoSubmit, GoPoll, GoQuits, GoRetry, GoRedepart, StopSignal, StopLoad, StopSave, StopFirst,
      StopCancel, StopAgain, StopTimesOut, StopLost, PublishLost, PublishPart, Publish, GoalEnds, Expire

LEMMA RestartPasses ==
  ASSUME OneDeparture, NEW g \in Goes, NEW i \in {1, 2}
  PROVE  Spec /\ GoProceeds(g) /\ UnitLeaves => PointPasses(g, "restart", i)
<1> DEFINE P == GoAt(g, "restart", i)
           X == GoOver(g) \/ GoAt(g, "redepart", i)
           N == ~GoCan(g)
           S == GoProgress(g)
           D == exec.at = "down" \/ UnitActive
           M == ~(exec.leaving /\ exec.at # "down")
           T == exec.leaving /\ ExecEnds
<1>1. DepartInv /\ [Next]_departVars /\ P => (P' /\ (D => D')) \/ X'
  BY OneGoCourse, RestartCourse DEF GoesOn, GoAt, GoOver, Ended, After, TryAfter
<1>2. DepartInv /\ <<S>>_departVars /\ P => X'
  <2> SUFFICES ASSUME DepartInv, GoProgress(g), P PROVE X'
    OBVIOUS
  <2>1. GoStep(g) /\ go' # go /\ go \in GoTable
    BY DEF GoProgress, GoStep, DepartInv, TypeOK, GoTable
  <2> QED
    BY <2>1, GoCourse DEF GoesOn, GoAt, After, TryAfter
<1>3. (P /\ D => ~N) /\ (M => D)
  BY DEF GoAt, GoCan, Ended, UnitActive
<1>4. <<T>>_departVars => D'
  BY DEF ExecEnds, FreshExecutor
<1>5. After["restart"] = "redepart" /\ TryAfter("restart", i) = i
  BY DEF After, TryAfter
<1>6. GoAt(g, "redepart", i) <=> GoAt(g, After["restart"], TryAfter("restart", i))
  BY <1>5
<1> HIDE DEF P, X, N, S, D, M, T
<1>7. Spec /\ ([]<>N \/ []<><<S>>_departVars) /\ ([]<>M \/ []<><<T>>_departVars) => (P ~> X)
  BY <1>1, <1>2, <1>3, <1>4, DepartInvariant, PTL DEF Spec
<1>8. GoOver(g) \/ GoAt(g, After["restart"], TryAfter("restart", i)) <=> X
  BY <1>6 DEF X
<1> QED
  BY <1>7, <1>8, PTL DEF P, N, S, M, T, GoProceeds, UnitLeaves, PointPasses

------------------------------------------------------------------------------
(* The run that go follows *)

\* While go follows a run, its running file is the executor's, or the executor is gone.
RunningFits(g) ==
  go[g].at = "follow" /\ "running" \in spool[RunOf(g)] /\ UnitActive
    => exec.at \in {"start", "attempt", "send", "finish"} /\ exec.run = RunOf(g)

\* Only go starts the executor, and none of its steps that do is taken while it follows.
LEMMA FollowCourse ==
  ASSUME OneDeparture, DepartInv, [Next]_departVars, NEW g \in Goes, go[g].at = "follow",
         go'[g].at = "follow"
  PROVE  /\ RunOf(g)' = RunOf(g) /\ go'[g].try = go[g].try
         /\ \A h \in Goes : ~(GoPrepare(h) \/ GoLeave(h) \/ GoRestart(h) \/ GoSubmit(h))
         /\ UnitActive' => UnitActive
<1>t. go \in GoTable /\ exec \in Executor
  BY DEF DepartInv, TypeOK, GoTable, Executor
<1>1. go' = go
  BY Points, OneGoCourse DEF GoesOn, GoOver, Ended, After
<1>2. ASSUME NEW h \in Goes, GoPrepare(h) \/ GoLeave(h) \/ GoRestart(h) \/ GoSubmit(h) PROVE FALSE
  BY <1>2 DEF OneDeparture, GoPrepare, GoLeave, GoRestart, GoSubmit
<1>3. UnitActive' => UnitActive
  <2>1. CASE UNCHANGED exec
    BY <2>1 DEF UnitActive
  <2>2. CASE HandleSignal
    BY <1>t, <2>2 DEF HandleSignal, UnitActive, Executor
  <2>3. ASSUME NEW r \in Runs, ExecSees(r) PROVE UnitActive
    BY <2>3 DEF ExecSees, UnitActive
  <2>4. CASE ExecPasses \/ ExecClaims \/ ExecNode \/ ExecRefuses \/ Look \/ SendGoal \/ ExecReports
    <3>1. exec'.leaving = exec.leaving /\ exec.at # "down"
      BY <1>t, <2>4 DEF ExecPasses, ExecClaims, ExecNode, ExecRefuses, Look, SendGoal, ExecReports, Executor
    <3> QED
      BY <3>1 DEF UnitActive
  <2>5. ASSUME NEW c \in {"ok", "nomap", "failed"}, ExecReturns(c) PROVE UnitActive' => UnitActive
    BY <1>t, <2>5 DEF ExecReturns, UnitActive, Executor
  <2>6. CASE ExecEnds
    BY <2>6 DEF ExecEnds, FreshExecutor, UnitActive
  <2> QED
    BY <1>2, <2>1, <2>2, <2>3, <2>4, <2>5, <2>6
    DEF Next, GoStep, GoRuns, StopStep, PiStep, departVars, pcVars, piVars, GoStart, GoCheck, GoLoad,
        GoSave, GoPoll, GoQuits, GoRetry, GoRedepart, StopSignal, StopLoad, StopSave, StopFirst,
        StopCancel, StopAgain, StopTimesOut, StopLost, PublishLost, PublishPart, Publish, GoalEnds, Expire
<1> QED
  BY <1>1, <1>2, <1>3 DEF RunOf

\* A running file comes with the claim of its run, and goes with its result.
LEMMA RunningCourse ==
  ASSUME DepartInv, [Next]_departVars, NEW r \in Runs, "running" \in spool'[r]
  PROVE  \/ "running" \in spool[r] /\ ~(ExecReports /\ exec.run = r)
         \/ ExecClaims /\ exec.run = r
<1>t. spool \in [Runs -> SUBSET {"part", "request", "running", "cancelled"}] /\ exec \in Executor
  BY DEF DepartInv, TypeOK, Executor
<1>1. ASSUME NEW g \in Goes, GoSubmit(g) \/ \E heard \in BOOLEAN : GoPoll(g, heard)
      PROVE  "running" \in spool[r] /\ ~ExecReports
  <2>1. RunOf(g) \in Runs
    BY RunOfFacts DEF DepartInv, TypeOK, GoTable
  <2>2. exec' = exec /\ ~ExecReports
    BY <1>1, <1>t DEF GoSubmit, GoPoll, ExecReports, Executor
  <2>3. GoSubmit(g) => spool' = spool
    BY DEF GoSubmit
  <2>4. ASSUME NEW heard \in BOOLEAN, GoPoll(g, heard) PROVE "running" \in spool[r]
    BY <1>t, <2>1, <2>4 DEF GoPoll
  <2> QED
    BY <1>1, <2>2, <2>3, <2>4
<1>2. ASSUME NEW s \in Stops, StopCancel(s) PROVE "running" \in spool[r] /\ ~ExecReports
  <2>1. ~ExecReports
    BY <1>2, <1>t DEF StopCancel, ExecReports, Executor
  <2> QED
    BY <1>2, <1>t, <2>1 DEF StopCancel
<1>3. ASSUME NEW p \in Runs, PublishLost(p) \/ PublishPart(p) \/ Publish(p)
      PROVE  "running" \in spool[r] /\ ~ExecReports
  <2>1. ~ExecReports
    BY <1>3, <1>t DEF PublishLost, PublishPart, Publish, ExecReports, Executor
  <2> QED
    BY <1>3, <1>t, <2>1 DEF PublishLost, PublishPart, Publish
<1>4. CASE ExecPasses
  BY <1>4, <1>t DEF ExecPasses, ExecReports
<1>5. CASE ExecClaims
  BY <1>5, <1>t DEF ExecClaims, ExecReports
<1>6. CASE ExecReports
  BY <1>6, <1>t DEF ExecReports, DepartInv, ExecFits
<1>7. CASE UNCHANGED <<spool, code, wire>> /\ ~ExecReports
  BY <1>7
<1> QED
  BY <1>1, <1>2, <1>3, <1>4, <1>5, <1>6, <1>7, SpoolSteps

\* The points of the executor that has a run, and the steps between them.
LEMMA ExecCourse ==
  ASSUME DepartInv, [Next]_departVars,
         \A h \in Goes : ~(GoPrepare(h) \/ GoLeave(h) \/ GoRestart(h))
  PROVE  \/ exec'.at = exec.at /\ exec'.run = exec.run
         \/ \E r \in Runs : ExecSees(r) /\ exec.at = "idle" /\ exec'.at = "claim" /\ exec'.run = r
         \/ ExecPasses /\ exec.at = "claim" /\ exec'.at = "idle"
         \/ ExecClaims /\ exec.at = "claim" /\ exec'.at = "start" /\ exec'.run = exec.run
         \/ exec.at = "start" /\ exec'.at \in {"attempt", "finish"} /\ exec'.run = exec.run
         \/ exec.at = "attempt" /\ exec'.at \in {"send", "finish"} /\ exec'.run = exec.run
         \/ exec.at = "send" /\ exec'.at = "attempt" /\ exec'.run = exec.run
         \/ ExecReports /\ exec.at = "finish" /\ exec'.at = "idle"
         \/ exec'.at = "down"
<1>t. exec \in Executor
  BY DEF DepartInv, TypeOK, Executor
<1>1. CASE HandleSignal \/ Look \/ SendGoal
  BY <1>t, <1>1 DEF HandleSignal, Look, SendGoal, Executor
<1>2. ASSUME NEW r \in Runs, ExecSees(r)
      PROVE  exec.at = "idle" /\ exec'.at = "claim" /\ exec'.run = r
  BY <1>t, <1>2 DEF ExecSees, Executor
<1>3. CASE ExecPasses
  BY <1>t, <1>3 DEF ExecPasses, Executor
<1>4. CASE ExecClaims
  BY <1>t, <1>4 DEF ExecClaims, Executor
<1>5. CASE ExecNode \/ ExecRefuses
  BY <1>t, <1>5 DEF ExecNode, ExecRefuses, Executor
<1>6. ASSUME NEW c \in {"ok", "nomap", "failed"}, ExecReturns(c)
      PROVE  exec.at = "attempt" /\ exec'.at = "finish" /\ exec'.run = exec.run
  BY <1>t, <1>6 DEF ExecReturns, Executor
<1>7. CASE ExecReports
  BY <1>t, <1>7 DEF ExecReports, Executor
<1>8. CASE ExecEnds
  BY <1>8 DEF ExecEnds, FreshExecutor
<1>9. CASE UNCHANGED exec
  BY <1>9
<1> QED
  BY <1>1, <1>2, <1>3, <1>4, <1>5, <1>6, <1>7, <1>8, <1>9
  DEF Next, GoStep, GoRuns, StopStep, PiStep, departVars, pcVars, piVars, GoStart, GoCheck, GoLoad,
      GoSave, GoSubmit, GoPoll, GoQuits, GoRetry, GoRedepart, StopSignal, StopLoad, StopSave, StopFirst,
      StopCancel, StopAgain, StopTimesOut, StopLost, PublishLost, PublishPart, Publish, GoalEnds, Expire

LEMMA RunningStep ==
  ASSUME OneDeparture, DepartInv, [Next]_departVars, NEW g \in Goes, RunningFits(g)
  PROVE  RunningFits(g)'
<1> SUFFICES ASSUME go'[g].at = "follow", "running" \in spool'[RunOf(g)'], UnitActive'
             PROVE  exec'.at \in {"start", "attempt", "send", "finish"} /\ exec'.run = RunOf(g)'
  BY DEF RunningFits
<1>t. go \in GoTable /\ RunOf(g) \in Runs
  BY RunOfFacts DEF DepartInv, TypeOK, GoTable
<1>1. CASE go[g].at = "follow"
  <2>1. RunOf(g)' = RunOf(g) /\ UnitActive
        /\ \A h \in Goes : ~(GoPrepare(h) \/ GoLeave(h) \/ GoRestart(h) \/ GoSubmit(h))
    BY <1>1, FollowCourse
  <2>2. exec'.at # "down"
    BY DEF UnitActive
  <2>3. CASE ExecClaims /\ exec.run = RunOf(g)
    <3>1. exec'.at = "start" /\ exec'.run = exec.run
      BY <2>3 DEF ExecClaims, DepartInv, TypeOK
    <3> QED
      BY <2>1, <2>3, <3>1
  <2>4. CASE "running" \in spool[RunOf(g)] /\ ~(ExecReports /\ exec.run = RunOf(g))
    <3>1. exec.at \in {"start", "attempt", "send", "finish"} /\ exec.run = RunOf(g)
      BY <1>1, <2>1, <2>4 DEF RunningFits
    <3> QED
      BY <2>1, <2>2, <2>4, <3>1, ExecCourse
  <2> QED
    BY <1>t, <2>1, <2>3, <2>4, RunningCourse
<1>2. CASE go[g].at # "follow"
  <2>1. GoStep(g) /\ go' # go
    <3>1. go' # go
      BY <1>2
    <3>2. GoStart(g) \/ GoStep(g)
      BY <3>1, OnlyGoMoves DEF OneDeparture
    <3>3. ~GoStart(g)
      BY <1>t, GoMoves, Points DEF GoStart
    <3> QED
      BY <3>1, <3>2, <3>3
  <2>2. GoesOn(g)
    BY <1>t, <2>1, GoCourse DEF GoOver, Ended
  <2>3. go[g].at \in DOMAIN After
    BY <1>t, <2>1, Points
    DEF GoStep, GoRuns, GoQuits, GoCheck, GoPrepare, GoLoad, GoSave, GoSubmit, GoPoll, GoRetry, GoLeave,
        GoRestart, GoRedepart, GoTable, After, Ended
  <2>4. go[g].at = "submit" /\ RunOf(g)' = RunOf(g)
    BY <2>2, <2>3 DEF GoesOn, After, TryAfter, RunOf
  <2>5. wire[RunOf(g)] = "none"
    BY <2>4 DEF DepartInv, GoesFit, GoFits
  <2>6. "running" \notin spool[RunOf(g)]
    BY <1>t, <2>5 DEF DepartInv, RunsFit
  <2>7. ~ExecClaims
    BY <2>1 DEF ExecClaims, pcVars
  <2> QED
    BY <1>t, <2>4, <2>6, <2>7, RunningCourse
<1> QED
  BY <1>1, <1>2

LEMMA RunningInvariant ==
  ASSUME OneDeparture, NEW g \in Goes
  PROVE  Spec => []RunningFits(g)
<1>1. Init => RunningFits(g)
  BY DEF Init, RunningFits
<1>2. DepartInv /\ RunningFits(g) /\ [Next]_departVars => RunningFits(g)'
  BY RunningStep
<1> QED
  BY <1>1, <1>2, DepartInvariant, PTL DEF Spec

------------------------------------------------------------------------------
(* Following a run to its end *)

\* A poll of this run says something: there is a result, or nothing to wait for.
Free(r) == code[r] # "none" \/ ~Present(r) \/ ~UnitActive

\* go follows its run, which is published; it is told to wait, or it can go on.
Follows(g, i) == GoAt(g, "follow", i) /\ wire[<<g, i>>] = "gone"
Waits(g, i) == Follows(g, i) /\ ~Free(<<g, i>>)
Leaves(g, i) == GoOver(g) \/ GoAt(g, "retry", i)
GetsOn(g, i) == Leaves(g, i) \/ (Follows(g, i) /\ Free(<<g, i>>))

\* The other run of the departure is over or not begun, so that the executor has this one.
LEMMA OneRun ==
  ASSUME OneDeparture, DepartInv, NEW g \in Goes, NEW i \in {1, 2}, GoAt(g, "follow", i),
         NEW r \in Runs, r # <<g, i>>
  PROVE  "request" \notin spool[r] /\ exec.run # r
<1>1. r[1] = g /\ r[2] \in {1, 2} /\ r = <<g, r[2]>> /\ go[g].try = i
  BY RunFacts DEF OneDeparture, GoAt
<1>2. CASE i = 1
  <2>1. r = <<g, 2>> /\ go[g].try = 1
    BY <1>1, <1>2
  <2>2. wire[r] = "none"
    BY <2>1 DEF DepartInv, GoesFit, GoFits
  <2> QED
    BY <2>2 DEF DepartInv, RunsFit
<1>3. CASE i = 2
  <2>1. r = <<g, 1>> /\ go[g].try = 2
    BY <1>1, <1>3
  <2>2. code[r] = "nomap"
    BY <2>1 DEF DepartInv, GoesFit, GoFits
  <2> QED
    BY <2>2 DEF DepartInv, RunsFit
<1> QED
  BY <1>2, <1>3

\* A step of the whole system while go follows: it goes on, or nothing of what it waits for
\* is taken back.
LEMMA FollowsCourse ==
  ASSUME OneDeparture, DepartInv, [Next]_departVars, NEW g \in Goes, NEW i \in {1, 2},
         GoAt(g, "follow", i)
  PROVE  \/ Leaves(g, i)'
         \/ /\ GoAt(g, "follow", i)'
            /\ \A h \in Goes : ~(GoPrepare(h) \/ GoLeave(h) \/ GoRestart(h) \/ GoSubmit(h))
            /\ UnitActive' => UnitActive
            /\ RunKept(<<g, i>>)
<1>1. \/ Leaves(g, i)'
      \/ GoAt(g, "follow", i)'
  BY OneGoCourse DEF GoAt, GoOver, Ended, GoesOn, After, TryAfter, Leaves
<1>2. CASE GoAt(g, "follow", i)'
  <2>1. /\ \A h \in Goes : ~(GoPrepare(h) \/ GoLeave(h) \/ GoRestart(h) \/ GoSubmit(h))
        /\ UnitActive' => UnitActive
    BY <1>2, FollowCourse DEF GoAt
  <2>2. <<g, i>> \in Runs
    BY RunFacts
  <2>3. RunKept(<<g, i>>)
    BY <2>1, <2>2, RunsKept DEF DepartInv
  <2> QED
    BY <1>2, <2>1, <2>3
<1> QED
  BY <1>1, <1>2

\* What go could go on with stays.
LEMMA FreeStays ==
  ASSUME OneDeparture, DepartInv, [Next]_departVars, NEW g \in Goes, NEW i \in {1, 2},
         Follows(g, i)
  PROVE  \/ Leaves(g, i)'
         \/ Follows(g, i)' /\ (Free(<<g, i>>) => Free(<<g, i>>)')
<1> DEFINE r == <<g, i>>
<1>r. r \in Runs
  BY RunFacts
<1>1. CASE Leaves(g, i)'
  BY <1>1
<1>2. CASE ~Leaves(g, i)'
  <2>1. GoAt(g, "follow", i)' /\ (UnitActive' => UnitActive) /\ RunKept(r)
    BY <1>2, FollowsCourse DEF Follows
  <2>2. wire'[r] = "gone" /\ Follows(g, i)'
    BY <2>1 DEF RunKept, Follows
  <2>3. code[r] # "none" => code'[r] # "none"
    BY <2>1 DEF RunKept
  <2>4. ~Present(r) => ~Present(r)'
    <3> SUFFICES ASSUME ~Present(r) PROVE ~Present(r)'
      OBVIOUS
    <3>1. "request" \notin spool[r] /\ "running" \notin spool[r]
      BY DEF Present
    <3>2. "request" \notin spool'[r]
      BY <2>1, <3>1 DEF RunKept, Follows
    <3>3. ~(ExecClaims /\ exec.run = r)
      BY <3>1 DEF ExecClaims
    <3>4. "running" \notin spool'[r]
      BY <1>r, <3>1, <3>3, RunningCourse
    <3> QED
      BY <3>2, <3>4 DEF Present
  <2> HIDE DEF r
  <2>5. Free(r) => Free(r)'
    BY <2>1, <2>3, <2>4 DEF Free
  <2> QED
    BY <2>2, <2>5 DEF r
<1> QED
  BY <1>1, <1>2

\* The executor takes the run that go waits for from one point to the next.
LEMMA WaitsCourse ==
  ASSUME OneDeparture, DepartInv, [Next]_departVars, NEW g \in Goes, NEW i \in {1, 2},
         RunningFits(g), Waits(g, i)
  PROVE  \/ GetsOn(g, i)'
         \/ /\ Waits(g, i)'
            /\ \/ exec'.at = exec.at
               \/ exec.at = "idle" /\ exec'.at = "claim"
               \/ exec.at = "claim" /\ exec'.at = "start" /\ ExecClaims
               \/ exec.at = "start" /\ exec'.at \in {"attempt", "finish"}
               \/ exec.at = "attempt" /\ exec'.at \in {"send", "finish"}
               \/ exec.at = "send" /\ exec'.at = "attempt"
<1> DEFINE r == <<g, i>>
<1>r. r \in Runs /\ RunOf(g) = r
  BY RunFacts DEF Waits, Follows, GoAt, RunOf
<1>1. CASE GetsOn(g, i)'
  BY <1>1
<1>2. CASE ~GetsOn(g, i)'
  <2>1. Waits(g, i)'
    BY <1>2, FreeStays DEF Waits, GetsOn
  <2>2. /\ \A h \in Goes : ~(GoPrepare(h) \/ GoLeave(h) \/ GoRestart(h) \/ GoSubmit(h))
        /\ RunKept(r)
    BY <1>2, FollowsCourse DEF Waits, Follows, GetsOn
  <2>3. UnitActive' /\ code'[r] = "none" /\ Present(r)' /\ UnitActive /\ code[r] = "none" /\ Present(r)
    BY <2>1 DEF Waits, Free
  <2>4. exec'.at # "down"
    BY <2>3 DEF UnitActive
  <2>5. exec.at \notin {"idle", "down"} => exec.run = r
    BY OneRun DEF Waits, Follows, DepartInv, ExecFits
  <2>6. CASE ExecPasses
    <3>1. exec.run = r /\ exec.at = "claim"
      BY <2>5, <2>6 DEF ExecPasses
    <3>2. "running" \notin spool[r]
      BY <1>r, <2>3, <3>1 DEF RunningFits, Waits, Follows, GoAt
    <3>3. "request" \in spool[r] /\ "cancelled" \in spool[r]
      BY <2>3, <2>6, <3>1, <3>2 DEF Present, ExecPasses
    <3>4. spool'[r] = spool[r] \ {"request"}
      BY <1>r, <2>6, <3>1, <3>3 DEF ExecPasses, DepartInv, TypeOK
    <3> QED
      BY <2>3, <3>2, <3>4 DEF Present
  <2>7. CASE ExecReports
    <3>1. exec.run = r /\ exec.out # "none"
      BY <2>5, <2>7 DEF ExecReports, DepartInv, TypeOK
    <3> QED
      BY <1>r, <2>3, <2>7, <3>1 DEF ExecReports, DepartInv, TypeOK
  <2> QED
    BY <2>1, <2>2, <2>4, <2>6, <2>7, ExecCourse
<1> QED
  BY <1>1, <1>2

\* The executor with the run that go waits for, and the guards of its steps.
LEMMA WaitsFacts ==
  ASSUME OneDeparture, DepartInv, NEW g \in Goes, NEW i \in {1, 2}, RunningFits(g), Waits(g, i)
  PROVE  /\ exec.at \in {"idle", "claim", "start", "attempt", "send", "finish"}
         /\ exec.at = "idle" => ~exec.leaving /\ \E r \in Runs : "request" \in spool[r]
<1>1. <<g, i>> \in Runs /\ RunOf(g) = <<g, i>> /\ UnitActive /\ Present(<<g, i>>)
  BY RunFacts DEF Waits, Follows, GoAt, RunOf, Free
<1>2. exec.at \in {"idle", "claim", "start", "attempt", "send", "finish"}
  BY <1>1 DEF UnitActive, DepartInv, TypeOK, ExecPoints
<1>3. ASSUME exec.at = "idle" PROVE "request" \in spool[<<g, i>>]
  <2>1. "running" \notin spool[<<g, i>>]
    BY <1>1, <1>3 DEF RunningFits, Waits, Follows, GoAt
  <2> QED
    BY <1>1, <2>1 DEF Present
<1> QED
  BY <1>1, <1>2, <1>3 DEF UnitActive

\* The steps of the executor that a fair run takes move it from its point.
LEMMA ExecMoves ==
  ASSUME DepartInv, LoopStep \/ SeesRequest \/ AttemptReturns
  PROVE  exec'.at # exec.at
<1>t. exec \in Executor
  BY DEF DepartInv, TypeOK, Executor
<1>1. CASE LoopStep
  <2>1. CASE ExecPasses
    BY <1>t, <2>1 DEF ExecPasses, Executor
  <2>2. CASE ExecClaims
    BY <1>t, <2>2 DEF ExecClaims, Executor
  <2>3. CASE ExecNode
    BY <1>t, <2>3 DEF ExecNode, Executor
  <2>4. CASE ExecReports
    BY <1>t, <2>4 DEF ExecReports, Executor
  <2>5. CASE SendGoal
    BY <1>t, <2>5 DEF SendGoal, Executor
  <2> QED
    BY <1>1, <2>1, <2>2, <2>3, <2>4, <2>5 DEF LoopStep
<1>2. CASE SeesRequest
  BY <1>t, <1>2 DEF SeesRequest, ExecSees, Executor
<1>3. CASE AttemptReturns
  BY <1>t, <1>3 DEF AttemptReturns, ExecReturns, Executor
<1> QED
  BY <1>1, <1>2, <1>3

\* A published run that go waits for is seen, claimed, attempted and reported, or nothing is
\* left to wait for.
LEMMA WaitingEnds ==
  ASSUME OneDeparture, NEW g \in Goes, NEW i \in {1, 2}
  PROVE  Spec /\ LoopProceeds /\ RequestSeen /\ AttemptsReturn => (Waits(g, i) ~> GetsOn(g, i))
<1> DEFINE Inv == DepartInv /\ RunningFits(g)
           W == Waits(g, i)
           X == GetsOn(g, i)
           I == exec.at = "idle"
           C == exec.at = "claim"
           S == exec.at = "start"
           A == exec.at = "attempt"
           N == exec.at = "send"
           F == exec.at = "finish"
           L == exec.at \notin {"claim", "start", "send", "finish"}
           R == ~(exec.at = "idle" /\ ~exec.leaving /\ \E r \in Runs : "request" \in spool[r])
           Q == exec.at # "attempt"
           Loop == LoopStep
           See == SeesRequest
           Return == AttemptReturns
<1>1. Inv /\ [Next]_departVars /\ W
        => X' \/ (W' /\ ((I /\ (I' \/ C')) \/ (C /\ (C' \/ S')) \/ (S /\ (S' \/ A' \/ F'))
                         \/ (A /\ (A' \/ N' \/ F')) \/ (N /\ (N' \/ A')) \/ (F /\ F')))
  BY WaitsCourse, WaitsFacts
<1>2. /\ Inv /\ W => (I \/ C \/ S \/ A \/ N \/ F) /\ (I => ~R)
      /\ (C \/ S \/ N \/ F => ~L) /\ (A => ~Q)
  BY WaitsFacts
<1>3. /\ ~(I /\ C) /\ ~(I /\ S) /\ ~(I /\ A) /\ ~(I /\ F) /\ ~(C /\ S) /\ ~(C /\ A) /\ ~(C /\ F)
      /\ ~(S /\ A) /\ ~(S /\ F) /\ ~(A /\ F) /\ ~(N /\ A) /\ ~(N /\ F)
      /\ ~(N /\ I) /\ ~(N /\ C) /\ ~(N /\ S)
  OBVIOUS
<1>4. Inv /\ (<<Loop>>_departVars \/ <<See>>_departVars \/ <<Return>>_departVars)
        => ~(I /\ I') /\ ~(C /\ C') /\ ~(S /\ S') /\ ~(N /\ N') /\ ~(F /\ F')
  BY ExecMoves
<1>5. Inv /\ <<Return>>_departVars => A /\ F'
  <2> SUFFICES ASSUME DepartInv, NEW c \in {"ok", "nomap", "failed"}, ExecReturns(c) PROVE A /\ F'
    BY DEF AttemptReturns
  <2> QED
    BY DEF ExecReturns, DepartInv, TypeOK
<1>6. Spec => []Inv
  BY DepartInvariant, RunningInvariant, PTL
<1> DEFINE Fair == /\ []<>L \/ []<><<Loop>>_departVars
                   /\ []<>R \/ []<><<See>>_departVars
                   /\ <>[]Q \/ []<><<Return>>_departVars
<1> HIDE DEF Inv, W, X, I, C, S, A, N, F, L, R, Q, Loop, See, Return
<1>f. Spec /\ Fair => (W /\ F ~> X)
  BY <1>1, <1>2, <1>3, <1>4, <1>6, PTL DEF Spec
<1>n. Spec /\ Fair => (W /\ N ~> X \/ (W /\ A))
  BY <1>1, <1>2, <1>3, <1>4, <1>6, PTL DEF Spec
<1>a. Spec /\ Fair => (W /\ A ~> X \/ (W /\ F))
  BY <1>1, <1>2, <1>3, <1>5, <1>6, <1>n, PTL DEF Spec
<1>s. Spec /\ Fair => (W /\ S ~> X \/ (W /\ A) \/ (W /\ F))
  BY <1>1, <1>2, <1>3, <1>4, <1>6, PTL DEF Spec
<1>c. Spec /\ Fair => (W /\ C ~> X \/ (W /\ S))
  BY <1>1, <1>2, <1>3, <1>4, <1>6, PTL DEF Spec
<1>i. Spec /\ Fair => (W /\ I ~> X \/ (W /\ C))
  BY <1>1, <1>2, <1>3, <1>4, <1>6, PTL DEF Spec
<1>7. Spec /\ Fair => (W ~> X)
  BY <1>2, <1>6, <1>f, <1>n, <1>a, <1>s, <1>c, <1>i, PTL
<1> QED
  BY <1>7 DEF W, X, L, R, Q, Loop, See, Return, LoopProceeds, RequestSeen, AttemptsReturn

FollowingLeads(g, i) == GoAt(g, "follow", i) ~> Leaves(g, i)

\* Then go hears it: every run that is followed is left.
LEMMA FollowPasses ==
  ASSUME OneDeparture, NEW g \in Goes, NEW i \in {1, 2}
  PROVE  Spec /\ GoProceeds(g) /\ LoopProceeds /\ RequestSeen /\ AttemptsReturn
           => FollowingLeads(g, i)
<1> DEFINE P == GoAt(g, "follow", i)
           Z == Leaves(g, i)
           W == Waits(g, i)
           X == GetsOn(g, i)
           H == Follows(g, i)
           Fr == Follows(g, i) /\ Free(<<g, i>>)
           N == ~GoCan(g)
           S == GoProgress(g)
<1>1. DepartInv /\ [Next]_departVars /\ P => Z' \/ P'
  BY FollowsCourse
<1>2. DepartInv /\ [Next]_departVars /\ Fr => Z' \/ Fr'
  BY FreeStays
<1>3. DepartInv /\ P /\ ~H => ~N
  <2> SUFFICES ASSUME DepartInv, P, ~H PROVE GoCan(g)
    OBVIOUS
  <2>1. RunOf(g) = <<g, i>> /\ <<g, i>> \in Runs /\ wire[<<g, i>>] # "gone"
    BY RunFacts DEF GoAt, Follows, RunOf
  <2>2. ~Present(RunOf(g))
    BY <2>1 DEF DepartInv, RunsFit, Present
  <2> QED
    BY <2>2 DEF GoCan, GoAt, Ended
<1>4. Fr => ~N
  <2> SUFFICES ASSUME Fr PROVE GoCan(g)
    OBVIOUS
  <2>1. RunOf(g) = <<g, i>>
    BY DEF Follows, GoAt, RunOf
  <2> QED
    BY <2>1 DEF GoCan, Follows, GoAt, Ended, Free
<1>5. DepartInv /\ <<S>>_departVars /\ P => Z'
  <2> SUFFICES ASSUME DepartInv, GoProgress(g), P PROVE Z'
    OBVIOUS
  <2>1. GoStep(g) /\ go' # go /\ go \in GoTable
    BY DEF GoProgress, GoStep, DepartInv, TypeOK, GoTable
  <2> QED
    BY <2>1, GoCourse DEF GoesOn, GoAt, After, TryAfter, Leaves
<1>6. (H => W \/ Fr) /\ (Fr => P) /\ (X => Z \/ Fr)
  BY DEF Waits, Follows, GetsOn
<1> DEFINE Fair == LoopProceeds /\ RequestSeen /\ AttemptsReturn
<1>7. Spec /\ Fair => (W ~> X)
  BY WaitingEnds
<1> HIDE DEF P, Z, W, X, H, Fr, N, S, Fair
<1>8. Spec /\ Fair /\ ([]<>N \/ []<><<S>>_departVars) => (Fr ~> Z)
  BY <1>1, <1>2, <1>4, <1>5, <1>6, DepartInvariant, PTL DEF Spec
<1>9. Spec /\ Fair /\ ([]<>N \/ []<><<S>>_departVars) => (P ~> Z \/ H)
  BY <1>1, <1>3, <1>5, DepartInvariant, PTL DEF Spec
<1>10. Spec /\ Fair /\ ([]<>N \/ []<><<S>>_departVars) => (P ~> Z)
  BY <1>6, <1>7, <1>8, <1>9, PTL
<1> QED
  BY <1>10 DEF P, Z, N, S, Fair, GoProceeds, FollowingLeads

\* The points between two waits.
LEMMA AfterFacts ==
  /\ DOMAIN After = {"check", "prepare", "load", "save", "submit", "follow", "retry", "leave",
                     "restart", "redepart", "recheck"}
  /\ After["check"] = "prepare" /\ After["recheck"] = "prepare" /\ After["prepare"] = "load"
  /\ After["load"] = "save" /\ After["save"] = "submit" /\ After["submit"] = "follow"
  /\ After["retry"] = "leave" /\ After["leave"] = "restart" /\ After["restart"] = "redepart"
  /\ After["redepart"] = "recheck"
  /\ \A i : /\ TryAfter("redepart", i) = 2
            /\ \A p \in {"check", "recheck", "prepare", "load", "save", "submit", "retry", "leave",
                         "restart"} : TryAfter(p, i) = i
BY DEF After, TryAfter

\* From refuse_during_cycle() to following the run.
Begins(g, i) ==
  go[g].at \in {"check", "recheck", "prepare", "load", "save", "submit"} /\ go[g].try = i

BeginningLeads(g, i) == Begins(g, i) ~> GoOver(g) \/ GoAt(g, "follow", i)

LEMMA BeginningPasses ==
  ASSUME OneDeparture, NEW g \in Goes, NEW i \in {1, 2}
  PROVE  Spec /\ GoProceeds(g) => BeginningLeads(g, i)
<1> DEFINE B == Begins(g, i)
           O == GoOver(g)
           C == GoAt(g, "check", i)
           R == GoAt(g, "recheck", i)
           P == GoAt(g, "prepare", i)
           L == GoAt(g, "load", i)
           V == GoAt(g, "save", i)
           S == GoAt(g, "submit", i)
           F == GoAt(g, "follow", i)
           To(p) == O \/ GoAt(g, After[p], TryAfter(p, i))
<1>1. ASSUME NEW p \in {"check", "recheck", "prepare", "load", "save", "submit"}
      PROVE  Spec /\ GoProceeds(g) => PointPasses(g, p, i)
  BY <1>1, OnePointPasses, AfterFacts
<1>2. /\ To("check") => O \/ P
      /\ To("recheck") => O \/ P
      /\ To("prepare") => O \/ L
      /\ To("load") => O \/ V
      /\ To("save") => O \/ S
      /\ To("submit") => O \/ F
  BY AfterFacts
<1>c. Spec /\ GoProceeds(g) => PointPasses(g, "check", i)
  BY <1>1
<1>r. Spec /\ GoProceeds(g) => PointPasses(g, "recheck", i)
  BY <1>1
<1>p. Spec /\ GoProceeds(g) => PointPasses(g, "prepare", i)
  BY <1>1
<1>l. Spec /\ GoProceeds(g) => PointPasses(g, "load", i)
  BY <1>1
<1>v. Spec /\ GoProceeds(g) => PointPasses(g, "save", i)
  BY <1>1
<1>s. Spec /\ GoProceeds(g) => PointPasses(g, "submit", i)
  BY <1>1
<1>3. B => C \/ R \/ P \/ L \/ V \/ S
  BY DEF Begins, GoAt
<1> HIDE DEF B, O, C, R, P, L, V, S, F
<1>4. Spec /\ GoProceeds(g) => (C ~> O \/ P)
  BY <1>2, <1>c, PTL DEF PointPasses, O, C
<1>5. Spec /\ GoProceeds(g) => (R ~> O \/ P)
  BY <1>2, <1>r, PTL DEF PointPasses, O, R
<1>6. Spec /\ GoProceeds(g) => (P ~> O \/ L)
  BY <1>2, <1>p, PTL DEF PointPasses, O, P
<1>7. Spec /\ GoProceeds(g) => (L ~> O \/ V)
  BY <1>2, <1>l, PTL DEF PointPasses, O, L
<1>8. Spec /\ GoProceeds(g) => (V ~> O \/ S)
  BY <1>2, <1>v, PTL DEF PointPasses, O, V
<1>9. Spec /\ GoProceeds(g) => (S ~> O \/ F)
  BY <1>2, <1>s, PTL DEF PointPasses, O, S
<1>10. Spec /\ GoProceeds(g) => (B ~> O \/ F)
  BY <1>3, <1>4, <1>5, <1>6, <1>7, <1>8, <1>9, PTL
<1> QED
  BY <1>10 DEF B, O, F, BeginningLeads

\* From the answer that there was no map to the second run.
Again(g) == go[g].at \in {"retry", "leave", "restart", "redepart"} /\ go[g].try = 1

LEMMA AgainPasses ==
  ASSUME OneDeparture, NEW g \in Goes
  PROVE  Spec /\ GoProceeds(g) /\ UnitLeaves => (Again(g) ~> GoOver(g) \/ GoAt(g, "recheck", 2))
<1> DEFINE B == Again(g)
           O == GoOver(g)
           T == GoAt(g, "retry", 1)
           L == GoAt(g, "leave", 1)
           S == GoAt(g, "restart", 1)
           D == GoAt(g, "redepart", 1)
           R == GoAt(g, "recheck", 2)
           To(p) == O \/ GoAt(g, After[p], TryAfter(p, 1))
<1>1. ASSUME NEW p \in {"retry", "leave", "redepart"}
      PROVE  Spec /\ GoProceeds(g) => PointPasses(g, p, 1)
  BY <1>1, OnePointPasses, AfterFacts
<1>2. /\ To("retry") => O \/ L
      /\ To("leave") => O \/ S
      /\ To("restart") => O \/ D
      /\ To("redepart") => O \/ R
  BY AfterFacts
<1>t. Spec /\ GoProceeds(g) => PointPasses(g, "retry", 1)
  BY <1>1
<1>l. Spec /\ GoProceeds(g) => PointPasses(g, "leave", 1)
  BY <1>1
<1>s. Spec /\ GoProceeds(g) /\ UnitLeaves => PointPasses(g, "restart", 1)
  BY RestartPasses
<1>d. Spec /\ GoProceeds(g) => PointPasses(g, "redepart", 1)
  BY <1>1
<1>3. B => T \/ L \/ S \/ D
  BY DEF Again, GoAt
<1> HIDE DEF B, O, T, L, S, D, R
<1>4. Spec /\ GoProceeds(g) => (T ~> O \/ L)
  BY <1>2, <1>t, PTL DEF PointPasses, O, T
<1>5. Spec /\ GoProceeds(g) => (L ~> O \/ S)
  BY <1>2, <1>l, PTL DEF PointPasses, O, L
<1>6. Spec /\ GoProceeds(g) /\ UnitLeaves => (S ~> O \/ D)
  BY <1>2, <1>s, PTL DEF PointPasses, O, S
<1>7. Spec /\ GoProceeds(g) => (D ~> O \/ R)
  BY <1>2, <1>d, PTL DEF PointPasses, O, D
<1>8. Spec /\ GoProceeds(g) /\ UnitLeaves => (B ~> O \/ R)
  BY <1>3, <1>4, <1>5, <1>6, <1>7, PTL
<1> QED
  BY <1>8 DEF B, O, R

\* What the steps of a departure are promised: its own side and the vehicle's.
Proceeds(g) ==
  GoProceeds(g) /\ UnitLeaves /\ LoopProceeds /\ RequestSeen /\ AttemptsReturn

LEMMA OneGoEnds ==
  ASSUME OneDeparture, NEW g \in Goes
  PROVE  Spec /\ Proceeds(g) => (go[g].at # "new" ~> go[g].at \in Ended)
<1> DEFINE A == go[g].at # "new"
           O == go[g].at \in Ended
           B1 == Begins(g, 1)
           B2 == Begins(g, 2)
           F1 == GoAt(g, "follow", 1)
           F2 == GoAt(g, "follow", 2)
           T == GoAt(g, "retry", 1)
           T2 == GoAt(g, "retry", 2)
           M == Again(g)
           R == GoAt(g, "recheck", 2)
<1>f. DepartInv => go[g].at \in GoPoints /\ go[g].try \in {1, 2} /\ GoFits(g)
  BY DEF DepartInv, TypeOK, GoesFit
<1>1. DepartInv /\ A => O \/ B1 \/ B2 \/ F1 \/ F2 \/ M
  <2> SUFFICES ASSUME DepartInv, A, ~O PROVE B1 \/ B2 \/ F1 \/ F2 \/ M
    OBVIOUS
  <2>1. go[g].at \in {"check", "recheck", "prepare", "load", "save", "submit", "follow", "retry",
                      "leave", "restart", "redepart"}
    BY <1>f, Points DEF Ended
  <2>2. go[g].at \in {"retry", "leave", "restart", "redepart"} => go[g].try = 1
    BY <1>f DEF GoFits
  <2> QED
    BY <1>f, <2>1, <2>2 DEF GoAt, Begins, Again
<1>2. DepartInv => ~T2
  <2> SUFFICES ASSUME DepartInv, go[g].at = "retry" PROVE go[g].try = 1
    BY DEF GoAt
  <2> QED
    BY <1>f DEF GoFits
<1>3. (T => M) /\ (R => B2) /\ (GoOver(g) <=> O)
  BY DEF GoAt, Again, Begins, GoOver
<1>4. Spec /\ Proceeds(g) => BeginningLeads(g, 1) /\ BeginningLeads(g, 2)
  BY BeginningPasses DEF Proceeds
<1>5. Spec /\ Proceeds(g) => (M ~> GoOver(g) \/ R)
  BY AgainPasses DEF Proceeds
<1>6. Spec /\ Proceeds(g) => FollowingLeads(g, 1) /\ FollowingLeads(g, 2)
  BY FollowPasses DEF Proceeds
<1>7. (Leaves(g, 1) => O \/ T) /\ (Leaves(g, 2) => O \/ T2)
  BY <1>3 DEF Leaves
<1> HIDE DEF A, O, B1, B2, F1, F2, T, T2, M, R
<1>8. Spec /\ Proceeds(g) => (A ~> O)
  BY <1>1, <1>2, <1>3, <1>4, <1>5, <1>6, <1>7, DepartInvariant, PTL
  DEF BeginningLeads, FollowingLeads, B1, B2, F1, F2
<1> QED
  BY <1>8 DEF A, O

\* A departure comes to an end, whether or not it has to start the executor again, and whatever
\* becomes of the publishing command, of its request and of the executor (go_one(), running(),
\* restart_executor() and serve()).
THEOREM DeparturesEnd ==
  ASSUME OneDeparture
  PROVE  Spec /\ (\A g \in Goes : Proceeds(g)) => GoEnds
<1>1. ASSUME NEW g \in Goes
      PROVE  Spec /\ Proceeds(g) => (go[g].at # "new" ~> go[g].at \in Ended)
  BY OneGoEnds
<1> QED
  BY <1>1 DEF GoEnds

=============================================================================
