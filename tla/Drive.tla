--------------------------------- MODULE Drive ---------------------------------
(***************************************************************************)
(* What whoever launches jdamr_depart.py go may rely on, whatever happens  *)
(* to ssh, to the spool and to the executor: a departure drives only after *)
(* it was started, and one that reports success has come to a halt for     *)
(* good.  A departure that fails may still move the vehicle.               *)
(***************************************************************************)
CONSTANT Goes   \* go processes

VARIABLES
  at,      \* per go: "new", "on", "done", "failed"
  moves    \* the goes a goal of which may move the vehicle

drive == <<at, moves>>

DriveTypeOK == at \in [Goes -> {"new", "on", "done", "failed"}] /\ moves \in SUBSET Goes

DriveInit == at = [g \in Goes |-> "new"] /\ moves = {}

Start(g) == at[g] = "new" /\ at' = [at EXCEPT ![g] = "on"] /\ UNCHANGED moves

Move(g) == at[g] \in {"on", "failed"} /\ moves' = moves \cup {g} /\ UNCHANGED at

Halt(g) == moves' = moves \ {g} /\ UNCHANGED at

Done(g) == at[g] = "on" /\ g \notin moves /\ at' = [at EXCEPT ![g] = "done"] /\ UNCHANGED moves

Fail(g) == at[g] = "on" /\ at' = [at EXCEPT ![g] = "failed"] /\ UNCHANGED moves

Proceed(g) == Move(g) \/ Halt(g) \/ Done(g) \/ Fail(g)

DriveNext == \E g \in Goes : Start(g) \/ Proceed(g)

DriveSpec == DriveInit /\ [][DriveNext]_drive
=============================================================================
