--------------------------- MODULE MCAdaptiveLoop ---------------------------
(***************************************************************************)
(* AdaptiveLoop with the thresholds of adaptive.DefaultConfig (MSPT in     *)
(* hundredths of a ms) on a shorter range of distances.  With these costs  *)
(* one player or two make the server idle, fit, over target or in panic.   *)
(***************************************************************************)
EXTENDS AdaptiveLoop

MCCfg == [target |-> 3500, minSim |-> 3, maxSim |-> 8, viewBuffer |-> 4,
          minView |-> 6, maxView |-> 11, maxStepDown |-> 3, maxStepUp |-> 1,
          deadband |-> 20, panic |-> 5000, memGate |-> TRUE]
MCCosts == {15, 70}
\* below the floor, in the range, above the ceiling
MCInitialSims == {2, 6, 10}
MCInitialViews == {8}
=============================================================================
