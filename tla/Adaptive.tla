------------------------------ MODULE Adaptive ------------------------------
(***************************************************************************)
(* internal/adaptive/adaptive.go: Decide, the pure function that picks the *)
(* next simulation and view distance from one reading of the server.       *)
(*                                                                         *)
(* A reading s has fields players, peak, mspt, sim, view (State's numbers) *)
(* and starved, stalled, pressed (its three gates).  cfg has Config's      *)
(* fields; deadband and the MSPT figures are integers: deadband in         *)
(* percent, MSPT in any unit shared by mspt, target and panic.             *)
(*                                                                         *)
(* The code compares float64 values of sim * sqrt(target / projected) with *)
(* integers; here the same comparisons are made on their exact squares.    *)
(***************************************************************************)
EXTENDS Integers, Sequences, FiniteSetsExt

Actions == {"lower", "raise", "hold"}

\* Config
ConfigType ==
    [target : Int, minSim : Int, maxSim : Int, viewBuffer : Int, minView : Int,
     maxView : Int, maxStepDown : Nat, maxStepUp : Nat, deadband : Int, panic : Int,
     memGate : BOOLEAN]

\* State
StateType ==
    [players : Int, peak : Int, mspt : Int, sim : Int, view : Int,
     starved : BOOLEAN, stalled : BOOLEAN, pressed : BOOLEAN]


\* Bug form of Clamp: the ceiling is forgotten.
ClampUncapped(v, lo, hi) == IF v < lo THEN lo ELSE v

\* clampInt: the lower bound is tested first, so it wins when lo > hi.
Clamp(v, lo, hi) == IF v < lo THEN lo ELSE IF v > hi THEN hi ELSE v

Larger(a, b) == IF a >= b THEN a ELSE b

\* The view distance that keeps ViewBuffer's lead over a simulation distance.
ViewFloor(sim, cfg) == Clamp(sim + cfg.viewBuffer, cfg.minView, cfg.maxView)

\* Decide's view(): never below the current view distance.
ViewFor(s, cfg, sim) == Larger(ViewFloor(sim, cfg), s.view)

\* The reason string, up to the figures that tell two of them apart.
Why(kind, s) ==
    IF kind \in {"empty", "no reading"} THEN <<kind>> ELSE <<kind, s.mspt, s.sim>>

Hold(s, cfg, why) ==
    [sim |-> Clamp(s.sim, cfg.minSim, cfg.maxSim),
     view |-> ViewFor(s, cfg, s.sim),
     action |-> "hold",
     why |-> Why(why, s)]

Move(s, cfg, sim, action, why) ==
    [sim |-> sim, view |-> ViewFor(s, cfg, sim), action |-> action,
     why |-> Why(why, s)]

\* Bug form of PeakPlayers: size for who is on right now.
PeakPlayersNow(s) == s.players

\* On-join pre-sizing: the expected peak, at least who is on right now.
PeakPlayers(s) == Larger(Larger(s.peak, s.players), 1)

(* projectedMSPT = mspt * peak / players and target, both times players.   *)
Projected(s) == s.mspt * PeakPlayers(s)
Budget(s, cfg) == cfg.target * s.players

\* Whether n is at most idealSim = sim * sqrt(target / projectedMSPT).
AtMostIdeal(s, cfg, n) ==
    n <= 0 \/ n * n * Projected(s) <= s.sim * s.sim * Budget(s, cfg)

\* Bug form of SteppedDown: all the way to floor(idealSim) at once.
SteppedDownAtOnce(s, cfg) == Max({n \in 0 .. s.sim : AtMostIdeal(s, cfg, n)})

\* floor(idealSim), but not more than MaxStepDown below the current one.
SteppedDown(s, cfg) ==
    Max({s.sim - cfg.maxStepDown}
        \cup {n \in (s.sim - cfg.maxStepDown) .. s.sim : AtMostIdeal(s, cfg, n)})

\* Bug form of ShedLoad: idealSim is rounded up instead of down.
ShedLoadRoundingUp(s, cfg) ==
    LET ideal == Max({n \in (s.sim - cfg.maxStepDown) .. s.sim : AtMostIdeal(s, cfg, n - 1)})
        new == Clamp(ideal, cfg.minSim, cfg.maxSim)
    IN IF new >= s.sim THEN Hold(s, cfg, "at floor")
                       ELSE Move(s, cfg, new, "lower", "over target")

\* Bug form of SteppedUp: the step is taken without looking where it leads.
SteppedUpBlindly(s, cfg) == s.sim + cfg.maxStepUp

\* MaxStepUp more, but not past idealSim (which is above the current one).
SteppedUp(s, cfg) ==
    Max({s.sim} \cup {n \in s.sim .. (s.sim + cfg.maxStepUp) : AtMostIdeal(s, cfg, n)})

ShedLoad(s, cfg) ==
    LET new == Clamp(SteppedDown(s, cfg), cfg.minSim, cfg.maxSim)
    IN IF new >= s.sim THEN Hold(s, cfg, "at floor")
                       ELSE Move(s, cfg, new, "lower", "over target")

SpendHeadroom(s, cfg) ==
    LET new == Clamp(SteppedUp(s, cfg), cfg.minSim, cfg.maxSim)
    IN IF new <= s.sim
         THEN Hold(s, cfg, IF s.sim >= cfg.maxSim THEN "at ceiling" ELSE "would overshoot")
         ELSE Move(s, cfg, new, "raise", "headroom")

Panic(s, cfg) ==
    IF s.sim <= cfg.minSim THEN Hold(s, cfg, "panic at floor")
                           ELSE Move(s, cfg, cfg.minSim, "lower", "panic")

OverBudget(s, cfg) == Projected(s) > Budget(s, cfg)

\* projectedMSPT < target * (1 - Deadband)
Comfortable(s, cfg) == 100 * Projected(s) < (100 - cfg.deadband) * Budget(s, cfg)

\* The switch of Decide: the first case that applies decides.
SimDecision(s, cfg) ==
    IF s.players <= 0 THEN Hold(s, cfg, "empty")
    ELSE IF s.mspt <= 0 THEN Hold(s, cfg, "no reading")
    ELSE IF s.starved THEN Hold(s, cfg, "host starved")
    ELSE IF s.stalled THEN Hold(s, cfg, "gc stalled")
    ELSE IF cfg.panic > 0 /\ s.mspt >= cfg.panic THEN Panic(s, cfg)
    ELSE IF OverBudget(s, cfg) THEN ShedLoad(s, cfg)
    ELSE IF Comfortable(s, cfg) THEN SpendHeadroom(s, cfg)
    ELSE Hold(s, cfg, "in band")

\* Bug form of MemoryGate: a hold stays a hold, and holds are not applied.
MemoryGateHolding(s, cfg, d) ==
    LET floor == ViewFloor(d.sim, cfg)
    IN IF s.pressed /\ cfg.memGate /\ d.view > floor
         THEN [d EXCEPT !.view = Larger(d.view - 1, floor)]
         ELSE d

\* MEMORY GATE: whatever was decided, memory pressure takes one off the view.
MemoryGate(s, cfg, d) ==
    LET floor == ViewFloor(d.sim, cfg)
    IN IF s.pressed /\ cfg.memGate /\ d.view > floor
         THEN [d EXCEPT !.view = Larger(d.view - 1, floor),
                        !.action = IF d.action = "hold" THEN "lower" ELSE d.action,
                        !.why = <<"memory", d.view>> \o d.why]
         ELSE d

Decide(s, cfg) == MemoryGate(s, cfg, SimDecision(s, cfg))
=============================================================================
