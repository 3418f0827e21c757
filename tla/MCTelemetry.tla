----------------------------- MODULE MCTelemetry -----------------------------
(* Model values for Telemetry: two cgroup levels, of which the upper one   *)
(* shows the pressure; an interval of four units of GC time.               *)
EXTENDS Telemetry

MCCalm == [l \in Levels |-> [r \in Resources |-> 0]]
MCStalls == {MCCalm, [MCCalm EXCEPT !["root"].cpu = 10], [MCCalm EXCEPT !["root"].memory = 5]}
MCGateSets == {{}, {"memory"}, {"starve", "gc"}}
=============================================================================
