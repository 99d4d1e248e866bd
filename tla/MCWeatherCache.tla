---------------------------- MODULE MCWeatherCache ----------------------------
(* Instances of WeatherCache for TLC. *)
EXTENDS WeatherCache, TLC

CONSTANTS p1, p2, g1, g2, g3

(* Two handlers share the first process's lock. *)
MCProcOf == [r \in Requests |-> IF r = g3 THEN p2 ELSE p1]
=============================================================================
