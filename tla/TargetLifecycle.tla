--------------------------- MODULE TargetLifecycle ---------------------------
(***************************************************************************)
(* What the runner promises of each target: the lifecycle that the package *)
(* documentation of src/runner/runner.go draws.                            *)
(*                                                                         *)
(*     idle --Dispatch--> queued --Start--> running --Finish--> idle       *)
(*                        queued --PassOver--> idle, at shutdown only      *)
(*                                                                         *)
(* A slot that falls due while the target is not idle is skipped, and the  *)
(* skip blames what it finds: a queued target the pool, a running one the  *)
(* check.                                                                  *)
(***************************************************************************)
CONSTANT Targets

VARIABLES
    phase,  \* where each target is
    cause,  \* what the last skip blamed
    down    \* the runner has been told to stop

vars == <<phase, cause, down>>

Init ==
    /\ phase = [t \in Targets |-> "idle"]
    /\ cause = "none"
    /\ down = FALSE

Move(t, from, to) ==
    /\ phase[t] = from
    /\ phase' = [phase EXCEPT ![t] = to]

Dispatch(t) == Move(t, "idle", "queued") /\ UNCHANGED <<cause, down>>

Start(t) == Move(t, "queued", "running") /\ UNCHANGED <<cause, down>>

Finish(t) == Move(t, "running", "idle") /\ UNCHANGED <<cause, down>>

PassOver(t) == down /\ Move(t, "queued", "idle") /\ UNCHANGED <<cause, down>>

Skip(t) ==
    /\ \/ phase[t] = "queued" /\ cause' = "queued"
       \/ phase[t] = "running" /\ cause' = "slow"
    /\ UNCHANGED <<phase, down>>

ShutDown ==
    /\ ~down
    /\ down' = TRUE
    /\ UNCHANGED <<phase, cause>>

Next ==
    \/ \E t \in Targets :
        Dispatch(t) \/ Start(t) \/ Finish(t) \/ PassOver(t) \/ Skip(t)
    \/ ShutDown

Spec == Init /\ [][Next]_vars

=============================================================================
