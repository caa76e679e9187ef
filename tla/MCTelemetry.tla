-------------------------------- MODULE MCTelemetry --------------------------------
(***************************************************************************)
(* Instances of Telemetry for TLC.                                         *)
(***************************************************************************)
EXTENDS Telemetry
CONSTANTS n1, n2
=============================================================================
