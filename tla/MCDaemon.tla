------------------------------ MODULE MCDaemon ------------------------------
(* Model values for Daemon: short ranges of distances, the load in MSPT.   *)
EXTENDS Daemon

MCDefaults == [target |-> 35, minSim |-> 2, maxSim |-> 3, viewBuffer |-> 1,
               minView |-> 2, maxView |-> 4, maxStepDown |-> 3, maxStepUp |-> 1,
               deadband |-> 20, panic |-> 50, memGate |-> TRUE]
MCKnobs == [target |-> 35, minSim |-> 2, maxSim |-> 3, maxView |-> 4,
            starvePSI |-> 0, gcStallPct |-> 0, memPressurePct |-> 10, apply |-> TRUE]
\* the same, and bounds that reach beyond the engine's
MCStartKnobs == {MCKnobs, [MCKnobs EXCEPT !.minSim = 4, !.maxSim = 5]}
MCValidKnobs == {MCKnobs}
\* minSim 3 and maxSim 2 exclude each other
MCPatches == {[apply |-> FALSE], [minSim |-> 3], [maxSim |-> 2, apply |-> TRUE]}
\* with the starvation gate and within the engine's bounds; a dry run that
\* lowers the ceiling, valid on MCKnobs only; figures out of range
MCFewPatches == {[minSim |-> 3, maxSim |-> 3, starvePSI |-> 25, apply |-> TRUE],
                 [maxSim |-> 2, apply |-> FALSE],
                 [target |-> 60], [gcStallPct |-> 101]}
\* light enough to raise; heavy
MCReadings == {[players |-> 2, peak |-> 2, mspt |-> 10],
               [players |-> 2, peak |-> 2, mspt |-> 60]}
=============================================================================
