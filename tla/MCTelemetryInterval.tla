------------------------- MODULE MCTelemetryInterval -------------------------
(* A word of 32 values and 3 Durations to the second: of the requests, 1 and  *)
(* 4 s fit, 6 s overflow to a negative Duration, 11 s wrap to 1/3 s and 13 s  *)
(* wrap to more than a second.                                                *)
EXTENDS TelemetryInterval

MCRequests == {1, 4, 6, 11, 13}
MCConfigured == 0
=============================================================================
