-------------------------- MODULE MCTelemetryBuffer --------------------------
(* TelemetryBuffer with few providers; a unit of time is twenty seconds. *)
EXTENDS TelemetryBuffer
=============================================================================
