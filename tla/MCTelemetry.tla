---------------------------- MODULE MCTelemetry ---------------------------
(* Telemetry with a target of the default interval and a URL listed twice, under
   two longer intervals of its own. *)
EXTENDS Telemetry, TLC

CONSTANTS fast, twin, slow

MCInterval == fast :> 0 @@ twin :> 2 @@ slow :> 3

MCURL == fast :> "v" @@ twin :> "u" @@ slow :> "u"

=============================================================================
