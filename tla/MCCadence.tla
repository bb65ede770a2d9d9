------------------------------ MODULE MCCadence ------------------------------
(* Cadence with two targets on different intervals and phases. *)
EXTENDS Cadence

CONSTANTS short, long

MCInterval == [t \in Targets |-> IF t = short THEN 2 ELSE 5]
MCPhase    == [t \in Targets |-> IF t = short THEN 1 ELSE 3]

=============================================================================
