--------------------------- MODULE AdaptiveProofs ---------------------------
(***************************************************************************)
(* What Decide returns, for every reading and every configuration: its     *)
(* simulation distance is in the configured range, and its view distance   *)
(* is between the floor that goes with it and the one in force.            *)
(***************************************************************************)
EXTENDS Adaptive, WellFoundedInduction, TLAPS

-----------------------------------------------------------------------------
(* Largest elements *)

(* A set of integers with an upper bound has a largest element.            *)
LEMMA MaxOfBounded ==
    ASSUME NEW S \in SUBSET Int, S # {}, NEW hi \in Int, \A x \in S : x <= hi
    PROVE  Max(S) \in S /\ \A y \in S : Max(S) >= y
<1> DEFINE T == {hi - x : x \in S}
           R == OpToRel(<, Nat)
<1>1. \A x \in S : x \in Int /\ hi - x \in Nat
  OBVIOUS
<1>2. T \subseteq Nat /\ T # {}
  BY <1>1
<1>3. \A x, y \in Nat : x < y => <<x, y>> \in R
  BY DEF OpToRel
<1>4. IsWellFoundedOn(R, Nat)
  BY NatLessThanWellFounded, Zenon
<1> HIDE DEF R
<1>5. PICK t \in T : \A u \in T : ~ (<<u, t>> \in R)
  BY <1>2, <1>4, WFMin
<1>6. \A u \in T : u >= t
  <2>1. TAKE u \in T
  <2>2. u \in Nat /\ t \in Nat /\ ~ (u < t)
    BY <1>2, <1>3, <1>5
  <2> QED  BY <2>2
<1>7. PICK m \in S : t = hi - m
  BY <1>5
<1>8. \A y \in S : m >= y
  <2>1. TAKE y \in S
  <2>2. hi - y >= hi - m
    BY <1>6, <1>7
  <2> QED  BY <1>1, <2>2
<1> QED  BY <1>8 DEF Max

(* Clamping into a range that is not empty ends up in the range.           *)
LEMMA ClampInRange ==
    ASSUME NEW v \in Int, NEW lo \in Int, NEW hi \in Int, lo <= hi
    PROVE  Clamp(v, lo, hi) \in lo .. hi
  BY DEF Clamp

LEMMA ClampType ==
    ASSUME NEW v \in Int, NEW lo \in Int, NEW hi \in Int
    PROVE  Clamp(v, lo, hi) \in Int
  BY DEF Clamp

-----------------------------------------------------------------------------
(* The steps *)

(* A cut before clamping: at most MaxStepDown below the current distance.  *)
LEMMA SteppedDownBounds ==
    ASSUME NEW s \in StateType, NEW cfg \in ConfigType
    PROVE  SteppedDown(s, cfg) \in (s.sim - cfg.maxStepDown) .. s.sim
<1> DEFINE S == {s.sim - cfg.maxStepDown}
                \cup {n \in (s.sim - cfg.maxStepDown) .. s.sim : AtMostIdeal(s, cfg, n)}
<1>1. s.sim \in Int /\ cfg.maxStepDown \in Nat
  BY DEF StateType, ConfigType
<1>2. S \subseteq (s.sim - cfg.maxStepDown) .. s.sim /\ S # {}
  BY <1>1
<1>3. S \in SUBSET Int /\ \A x \in S : x <= s.sim
  BY <1>1, <1>2
<1> HIDE DEF S
<1>4. Max(S) \in S
  BY <1>1, <1>2, <1>3, MaxOfBounded
<1>5. SteppedDown(s, cfg) = Max(S)
  BY DEF SteppedDown, S
<1> QED  BY <1>2, <1>4, <1>5

(* A raise before clamping: at most MaxStepUp above the current distance.  *)
LEMMA SteppedUpBounds ==
    ASSUME NEW s \in StateType, NEW cfg \in ConfigType
    PROVE  SteppedUp(s, cfg) \in s.sim .. (s.sim + cfg.maxStepUp)
<1> DEFINE S == {s.sim}
                \cup {n \in s.sim .. (s.sim + cfg.maxStepUp) : AtMostIdeal(s, cfg, n)}
<1>1. s.sim \in Int /\ cfg.maxStepUp \in Nat
  BY DEF StateType, ConfigType
<1>2. S \subseteq s.sim .. (s.sim + cfg.maxStepUp) /\ S # {}
  BY <1>1
<1> DEFINE hi == s.sim + cfg.maxStepUp
<1>3. S \in SUBSET Int /\ hi \in Int /\ \A x \in S : x <= hi
  BY <1>1, <1>2
<1> HIDE DEF S, hi
<1>4. Max(S) \in S
  BY <1>1, <1>2, <1>3, MaxOfBounded
<1>5. SteppedUp(s, cfg) = Max(S)
  BY DEF SteppedUp, S
<1> QED  BY <1>2, <1>4, <1>5

(* Every distance above where a cut stops would have been past the target. *)
LEMMA SteppedDownIdeal ==
    ASSUME NEW s \in StateType, NEW cfg \in ConfigType,
           NEW n \in Int, SteppedDown(s, cfg) < n, n <= s.sim
    PROVE  ~AtMostIdeal(s, cfg, n)
<1> DEFINE S == {s.sim - cfg.maxStepDown}
                \cup {i \in (s.sim - cfg.maxStepDown) .. s.sim : AtMostIdeal(s, cfg, i)}
<1>1. s.sim \in Int /\ cfg.maxStepDown \in Nat
  BY DEF StateType, ConfigType
<1>2. S \in SUBSET Int /\ S # {} /\ \A x \in S : x <= s.sim
  BY <1>1
<1>3. n \in (s.sim - cfg.maxStepDown) .. s.sim
  BY <1>1, SteppedDownBounds
<1>4. AtMostIdeal(s, cfg, n) => n \in S
  BY <1>3
<1> HIDE DEF S
<1>5. SteppedDown(s, cfg) \in Int /\ \A x \in S : SteppedDown(s, cfg) >= x
  <2>1. SteppedDown(s, cfg) = Max(S)
    BY DEF SteppedDown, S
  <2>2. Max(S) \in S /\ \A x \in S : Max(S) >= x
    BY <1>1, <1>2, MaxOfBounded
  <2> QED  BY <1>2, <2>1, <2>2
<1> QED  BY <1>4, <1>5

(* A raise stays where it is or stops short of the target.                 *)
LEMMA SteppedUpIdeal ==
    ASSUME NEW s \in StateType, NEW cfg \in ConfigType
    PROVE  SteppedUp(s, cfg) = s.sim \/ AtMostIdeal(s, cfg, SteppedUp(s, cfg))
<1> DEFINE S == {s.sim}
                \cup {n \in s.sim .. (s.sim + cfg.maxStepUp) : AtMostIdeal(s, cfg, n)}
           hi == s.sim + cfg.maxStepUp
<1>1. s.sim \in Int /\ cfg.maxStepUp \in Nat
  BY DEF StateType, ConfigType
<1>2. S \in SUBSET Int /\ S # {} /\ hi \in Int /\ \A x \in S : x <= hi
  BY <1>1
<1>3. \A x \in S : x = s.sim \/ AtMostIdeal(s, cfg, x)
  OBVIOUS
<1> HIDE DEF S, hi
<1>4. Max(S) \in S
  BY <1>2, MaxOfBounded
<1>5. SteppedUp(s, cfg) = Max(S)
  BY DEF SteppedUp, S
<1> QED  BY <1>3, <1>4, <1>5

-----------------------------------------------------------------------------
(* The decision *)

\* The distances lo .. hi hold the view distance in force and the configured ones.
Engine(s, cfg, lo, hi) ==
    /\ lo \in Int /\ hi \in Int
    /\ s.view \in lo .. hi /\ cfg.minView \in lo .. hi /\ cfg.maxView \in lo .. hi

\* Between the bounds, if they do not cross.
Bounded(n, cfg) ==
    n \in Int /\ (cfg.minSim <= cfg.maxSim => n \in cfg.minSim .. cfg.maxSim)

\* What holds of a decision before and after the memory gate; the gate takes
\* at most `down` off the view distance.
Fitting(d, s, cfg, lo, hi, down) ==
    /\ Bounded(d.sim, cfg)
    /\ d.view \in lo .. hi
    /\ d.view >= s.view - down

LEMMA ViewFits ==
    ASSUME NEW s \in StateType, NEW cfg \in ConfigType, NEW lo, NEW hi,
           Engine(s, cfg, lo, hi), NEW n \in Int
    PROVE  /\ ViewFloor(n, cfg) \in lo .. hi
           /\ ViewFor(s, cfg, n) \in lo .. hi
           /\ ViewFor(s, cfg, n) >= s.view
<1>1. s.view \in Int /\ cfg.viewBuffer \in Int /\ cfg.minView \in Int /\ cfg.maxView \in Int
  BY DEF StateType, ConfigType
<1>2. ViewFloor(n, cfg) \in lo .. hi
  <2>1. n + cfg.viewBuffer \in Int
    BY <1>1
  <2> QED  BY <1>1, <2>1 DEF ViewFloor, Clamp, Engine
<1> DEFINE floor == ViewFloor(n, cfg)
<1>3. Larger(floor, s.view) \in {s.view, floor} /\ Larger(floor, s.view) >= s.view
  <2>1. floor \in Int
    BY <1>2 DEF Engine
  <2> HIDE DEF floor
  <2> QED  BY <1>1, <2>1 DEF Larger
<1>4. ViewFor(s, cfg, n) = Larger(floor, s.view)
  BY DEF ViewFor
<1> QED  BY <1>2, <1>3, <1>4 DEF Engine

LEMMA HoldFits ==
    ASSUME NEW s \in StateType, NEW cfg \in ConfigType,
           NEW lo, NEW hi, Engine(s, cfg, lo, hi), NEW why
    PROVE  Fitting(Hold(s, cfg, why), s, cfg, lo, hi, 0)
<1>1. s.sim \in Int /\ cfg.minSim \in Int /\ cfg.maxSim \in Int /\ s.view \in Int
  BY DEF StateType, ConfigType
<1>2. Bounded(Clamp(s.sim, cfg.minSim, cfg.maxSim), cfg)
  BY <1>1, ClampInRange, ClampType DEF Bounded
<1>3. ViewFor(s, cfg, s.sim) \in lo .. hi /\ ViewFor(s, cfg, s.sim) >= s.view
  BY <1>1, ViewFits
<1> QED  BY <1>1, <1>2, <1>3 DEF Hold, Fitting

LEMMA MoveFits ==
    ASSUME NEW s \in StateType, NEW cfg \in ConfigType, NEW lo, NEW hi,
           Engine(s, cfg, lo, hi), NEW n, Bounded(n, cfg), NEW action, NEW why
    PROVE  Fitting(Move(s, cfg, n, action, why), s, cfg, lo, hi, 0)
<1>1. n \in Int /\ s.view \in Int
  BY DEF StateType, Bounded
<1>2. ViewFor(s, cfg, n) \in lo .. hi /\ ViewFor(s, cfg, n) >= s.view
  BY <1>1, ViewFits
<1> QED  BY <1>1, <1>2 DEF Move, Fitting

LEMMA SimDecisionFits ==
    ASSUME NEW s \in StateType, NEW cfg \in ConfigType,
           NEW lo, NEW hi, Engine(s, cfg, lo, hi)
    PROVE  Fitting(SimDecision(s, cfg), s, cfg, lo, hi, 0)
<1>1. /\ s.sim \in Int /\ cfg.minSim \in Int /\ cfg.maxSim \in Int
      /\ cfg.maxStepDown \in Nat /\ cfg.maxStepUp \in Nat
  BY DEF StateType, ConfigType
<1>2. Fitting(Panic(s, cfg), s, cfg, lo, hi, 0)
  <2>1. Bounded(cfg.minSim, cfg)
    BY <1>1 DEF Bounded
  <2> QED  BY <2>1, HoldFits, MoveFits DEF Panic
<1>3. Fitting(ShedLoad(s, cfg), s, cfg, lo, hi, 0)
  <2> DEFINE new == Clamp(SteppedDown(s, cfg), cfg.minSim, cfg.maxSim)
  <2>1. SteppedDown(s, cfg) \in Int
    BY <1>1, SteppedDownBounds
  <2>2. Bounded(new, cfg)
    BY <1>1, <2>1, ClampInRange, ClampType DEF Bounded
  <2>3. ShedLoad(s, cfg) \in {Hold(s, cfg, "at floor"), Move(s, cfg, new, "lower", "over target")}
    BY DEF ShedLoad
  <2> HIDE DEF new
  <2> QED  BY <2>2, <2>3, HoldFits, MoveFits
<1>4. Fitting(SpendHeadroom(s, cfg), s, cfg, lo, hi, 0)
  <2> DEFINE new == Clamp(SteppedUp(s, cfg), cfg.minSim, cfg.maxSim)
  <2>1. SteppedUp(s, cfg) \in Int
    BY <1>1, SteppedUpBounds
  <2>2. Bounded(new, cfg)
    BY <1>1, <2>1, ClampInRange, ClampType DEF Bounded
  <2>3. \/ \E why : SpendHeadroom(s, cfg) = Hold(s, cfg, why)
        \/ SpendHeadroom(s, cfg) = Move(s, cfg, new, "raise", "headroom")
    BY DEF SpendHeadroom
  <2> HIDE DEF new
  <2> QED  BY <2>2, <2>3, HoldFits, MoveFits
<1>5. \/ \E why : SimDecision(s, cfg) = Hold(s, cfg, why)
      \/ SimDecision(s, cfg) \in {Panic(s, cfg), ShedLoad(s, cfg), SpendHeadroom(s, cfg)}
  BY Zenon DEF SimDecision
<1> QED  BY <1>2, <1>3, <1>4, <1>5, HoldFits

(* Decide's contract, for every reading and every configuration: the       *)
(* simulation distance it returns is within MinSim .. MaxSim, unless they  *)
(* cross, which nothing checks of a configuration at start; the view       *)
(* distance stays within any range that holds the one in force and the     *)
(* configured ones, and falls by one at most.                              *)
THEOREM DecideWithinBounds ==
    ASSUME NEW s \in StateType, NEW cfg \in ConfigType,
           NEW lo, NEW hi, Engine(s, cfg, lo, hi)
    PROVE  Fitting(Decide(s, cfg), s, cfg, lo, hi, 1)
<1> DEFINE d == SimDecision(s, cfg)
           floor == ViewFloor(d.sim, cfg)
<1>1. Fitting(d, s, cfg, lo, hi, 0)
  BY SimDecisionFits
<1>2. s.view \in Int /\ cfg.minSim \in Int /\ cfg.maxSim \in Int
  BY DEF StateType, ConfigType
<1>3. d.sim \in Int /\ d.view \in Int /\ d.view >= s.view
  BY <1>1, <1>2 DEF Fitting, Bounded, Engine
<1>4. floor \in lo .. hi
  BY <1>3, ViewFits
<1>5. \/ Decide(s, cfg) = d
      \/ /\ d.view > floor
         /\ Decide(s, cfg).sim = d.sim
         /\ Decide(s, cfg).view = Larger(d.view - 1, floor)
  <2>1. CASE s.pressed /\ cfg.memGate /\ d.view > floor
    <3> DEFINE e == [d EXCEPT !.view = Larger(d.view - 1, floor),
                     !.action = IF d.action = "hold" THEN "lower" ELSE d.action,
                     !.why = <<"memory", d.view>> \o d.why]
    <3>1. Decide(s, cfg) = e
      BY <2>1, Zenon DEF Decide, MemoryGate
    <3>2. DOMAIN d = {"sim", "view", "action", "why"}
      BY DEF SimDecision, Panic, ShedLoad, SpendHeadroom, Hold, Move
    <3> HIDE DEF d, floor
    <3>3. e.sim = d.sim /\ e.view = Larger(d.view - 1, floor)
      BY <3>2
    <3> QED  BY <2>1, <3>1, <3>3
  <2>2. CASE ~ (s.pressed /\ cfg.memGate /\ d.view > floor)
    BY <2>2, Zenon DEF Decide, MemoryGate
  <2> QED  BY <2>1, <2>2
<1> HIDE DEF d, floor
<1>6. CASE Decide(s, cfg) = d
  BY <1>1, <1>2, <1>3, <1>6 DEF Fitting
<1>7. CASE d.view > floor /\ Decide(s, cfg).view = Larger(d.view - 1, floor)
           /\ Decide(s, cfg).sim = d.sim
  <2>1. Larger(d.view - 1, floor) = d.view - 1
    BY <1>3, <1>4, <1>7 DEF Larger, Engine
  <2>2. d.view - 1 \in lo .. hi /\ d.view - 1 >= s.view - 1
    BY <1>1, <1>2, <1>3, <1>4, <1>7 DEF Fitting, Engine
  <2> QED  BY <1>1, <1>7, <2>1, <2>2 DEF Fitting
<1> QED  BY <1>5, <1>6, <1>7

-----------------------------------------------------------------------------
(* The kinds of decision *)

\* A cut by at most MaxStepDown, or onto the floor in a panic.
Cut(s, cfg, n) ==
    /\ s.players > 0 /\ n < s.sim
    /\ \/ n = Clamp(SteppedDown(s, cfg), cfg.minSim, cfg.maxSim) /\ OverBudget(s, cfg)
       \/ n = cfg.minSim /\ cfg.panic > 0 /\ s.mspt >= cfg.panic

\* A raise by at most MaxStepUp.
Raise(s, cfg, n) ==
    s.players > 0 /\ n > s.sim /\ n = Clamp(SteppedUp(s, cfg), cfg.minSim, cfg.maxSim)

(* Before the memory gate a decision is a hold, a cut or a raise.          *)
LEMMA SimDecisionForms ==
    ASSUME NEW s \in StateType, NEW cfg \in ConfigType
    PROVE  \/ \E why : SimDecision(s, cfg) = Hold(s, cfg, why)
           \/ \E n, why : n \in Int /\ Cut(s, cfg, n) /\ SimDecision(s, cfg) = Move(s, cfg, n, "lower", why)
           \/ \E n, why : n \in Int /\ Raise(s, cfg, n) /\ SimDecision(s, cfg) = Move(s, cfg, n, "raise", why)
<1>1. /\ s.sim \in Int /\ s.mspt \in Int /\ cfg.minSim \in Int /\ cfg.maxSim \in Int
      /\ cfg.panic \in Int /\ cfg.maxStepDown \in Nat /\ cfg.maxStepUp \in Nat
  BY DEF StateType, ConfigType
<1>2. \/ \E why : SimDecision(s, cfg) = Hold(s, cfg, why)
      \/ /\ ~ (s.players <= 0)
         /\ \/ cfg.panic > 0 /\ s.mspt >= cfg.panic /\ SimDecision(s, cfg) = Panic(s, cfg)
            \/ OverBudget(s, cfg) /\ SimDecision(s, cfg) = ShedLoad(s, cfg)
            \/ SimDecision(s, cfg) = SpendHeadroom(s, cfg)
  BY Zenon DEF SimDecision
<1>p. ~ (s.players <= 0) => s.players > 0
  BY DEF StateType
<1>3. CASE \E why : SimDecision(s, cfg) = Hold(s, cfg, why)
  BY <1>3
<1>4. CASE s.players > 0 /\ cfg.panic > 0 /\ s.mspt >= cfg.panic /\ SimDecision(s, cfg) = Panic(s, cfg)
  <2>1. CASE s.sim <= cfg.minSim
    BY <1>4, <2>1, Zenon DEF Panic
  <2>2. CASE ~ (s.sim <= cfg.minSim)
    <3>1. SimDecision(s, cfg) = Move(s, cfg, cfg.minSim, "lower", "panic")
      BY <1>4, <2>2, Zenon DEF Panic
    <3>2. Cut(s, cfg, cfg.minSim)
      BY <1>1, <1>4, <2>2 DEF Cut
    <3> QED  BY <1>1, <3>1, <3>2, Zenon
  <2> QED  BY <2>1, <2>2
<1>5. CASE s.players > 0 /\ OverBudget(s, cfg) /\ SimDecision(s, cfg) = ShedLoad(s, cfg)
  <2> DEFINE n == Clamp(SteppedDown(s, cfg), cfg.minSim, cfg.maxSim)
  <2>1. n \in Int
    <3>1. SteppedDown(s, cfg) \in Int
      BY <1>1, SteppedDownBounds
    <3> QED  BY <1>1, <3>1, ClampType
  <2>2. CASE n >= s.sim
    BY <1>5, <2>2, Zenon DEF ShedLoad
  <2>3. CASE ~ (n >= s.sim)
    <3>1. SimDecision(s, cfg) = Move(s, cfg, n, "lower", "over target")
      BY <1>5, <2>3, Zenon DEF ShedLoad
    <3>2. Cut(s, cfg, n)
      <4> HIDE DEF n
      <4>1. n < s.sim
        BY <1>1, <2>1, <2>3
      <4> QED  BY <1>5, <4>1 DEF Cut, n
    <3> HIDE DEF n
    <3> QED  BY <2>1, <3>1, <3>2, Zenon
  <2> QED  BY <2>2, <2>3
<1>6. CASE s.players > 0 /\ SimDecision(s, cfg) = SpendHeadroom(s, cfg)
  <2> DEFINE n == Clamp(SteppedUp(s, cfg), cfg.minSim, cfg.maxSim)
  <2>1. n \in Int
    <3>1. SteppedUp(s, cfg) \in Int
      BY <1>1, SteppedUpBounds
    <3> QED  BY <1>1, <3>1, ClampType
  <2>2. CASE n <= s.sim
    BY <1>6, <2>2, Zenon DEF SpendHeadroom
  <2>3. CASE ~ (n <= s.sim)
    <3>1. SimDecision(s, cfg) = Move(s, cfg, n, "raise", "headroom")
      BY <1>6, <2>3, Zenon DEF SpendHeadroom
    <3>2. Raise(s, cfg, n)
      <4> HIDE DEF n
      <4>1. n > s.sim
        BY <1>1, <2>1, <2>3
      <4> QED  BY <1>6, <4>1 DEF Raise, n
    <3> HIDE DEF n
    <3> QED  BY <2>1, <3>1, <3>2, Zenon
  <2> QED  BY <2>2, <2>3
<1> QED  BY <1>2, <1>p, <1>3, <1>4, <1>5, <1>6

(* The memory gate turns a hold into a cut of the view and leaves the      *)
(* simulation distance alone; without pressure it changes nothing.         *)
LEMMA DecideShape ==
    ASSUME NEW s \in StateType, NEW cfg \in ConfigType
    PROVE  /\ DOMAIN Decide(s, cfg) = {"sim", "view", "action", "why"}
           /\ Decide(s, cfg).sim = SimDecision(s, cfg).sim
           /\ Decide(s, cfg).action \in Actions
           /\ ~s.pressed => Decide(s, cfg) = SimDecision(s, cfg)
           /\ Decide(s, cfg).action = "hold" =>
                Decide(s, cfg) = SimDecision(s, cfg) /\ Decide(s, cfg).why # <<>>
<1> DEFINE d == SimDecision(s, cfg)
           floor == ViewFloor(d.sim, cfg)
<1>1. /\ DOMAIN d = {"sim", "view", "action", "why"} /\ d.action \in Actions
      /\ \E kind : d.why = Why(kind, s)
  <2>1. ASSUME NEW why, d = Hold(s, cfg, why)
        PROVE  /\ DOMAIN d = {"sim", "view", "action", "why"} /\ d.action \in Actions
               /\ \E kind : d.why = Why(kind, s)
    <3>1. DOMAIN d = {"sim", "view", "action", "why"} /\ d.action = "hold" /\ d.why = Why(why, s)
      <4> HIDE DEF d
      <4> QED  BY <2>1 DEF Hold
    <3> QED  BY <3>1, Zenon DEF Actions
  <2>2. ASSUME NEW n, NEW action \in {"lower", "raise"}, NEW why, d = Move(s, cfg, n, action, why)
        PROVE  /\ DOMAIN d = {"sim", "view", "action", "why"} /\ d.action \in Actions
               /\ \E kind : d.why = Why(kind, s)
    <3>1. DOMAIN d = {"sim", "view", "action", "why"} /\ d.action = action /\ d.why = Why(why, s)
      <4> HIDE DEF d
      <4> QED  BY <2>2 DEF Move
    <3> QED  BY <3>1, Zenon DEF Actions
  <2> HIDE DEF d
  <2> QED  BY <2>1, <2>2, SimDecisionForms, Zenon DEF d
<1>2. CASE s.pressed /\ cfg.memGate /\ d.view > floor
  <2> DEFINE action == IF d.action = "hold" THEN "lower" ELSE d.action
             e == [d EXCEPT !.view = Larger(d.view - 1, floor),
                            !.action = action,
                            !.why = <<"memory", d.view>> \o d.why]
  <2>1. Decide(s, cfg) = e
    BY <1>2, Zenon DEF Decide, MemoryGate
  <2>2. action \in Actions /\ action # "hold"
    <3> HIDE DEF d
    <3> QED  BY <1>1 DEF Actions
  <2> HIDE DEF d, floor, action
  <2>3. DOMAIN e = {"sim", "view", "action", "why"} /\ e.sim = d.sim /\ e.action = action
    BY <1>1
  <2> QED  BY <1>2, <2>1, <2>2, <2>3 DEF d
<1>3. CASE ~ (s.pressed /\ cfg.memGate /\ d.view > floor)
  <2>1. Decide(s, cfg) = d
    BY <1>3, Zenon DEF Decide, MemoryGate
  <2>2. d.why # <<>>
    <3>1. \A kind : Why(kind, s) # <<>>
      <4>1. TAKE kind
      <4>2. Why(kind, s) = <<kind>> \/ Why(kind, s) = <<kind, s.mspt, s.sim>>
        BY Zenon DEF Why
      <4>3. <<kind>> # <<>> /\ <<kind, s.mspt, s.sim>> # <<>>
        OBVIOUS
      <4> QED  BY <4>2, <4>3
    <3> HIDE DEF d
    <3> QED  BY <1>1, <3>1, Zenon
  <2> HIDE DEF d
  <2> QED  BY <1>1, <2>1, <2>2 DEF d
<1> QED  BY <1>2, <1>3

(* Whatever is not a hold moves something: a cut or a raise the simulation *)
(* distance, and the memory gate, where the distance stays in force, the   *)
(* view, which it has found above its floor.                               *)
LEMMA MovesSomething ==
    ASSUME NEW s \in StateType, NEW cfg \in ConfigType, Decide(s, cfg).action # "hold"
    PROVE  Decide(s, cfg).sim # s.sim \/ Decide(s, cfg).view # s.view
<1> DEFINE d == SimDecision(s, cfg)
           floor == ViewFloor(d.sim, cfg)
<1>1. /\ s.sim \in Int /\ s.view \in Int /\ cfg.minView \in Int /\ cfg.maxView \in Int
      /\ cfg.viewBuffer \in Int
  BY DEF StateType, ConfigType
<1>2. Decide(s, cfg).sim = d.sim
  BY DecideShape
<1>3. CASE \E n, action, why : n \in Int /\ n # s.sim /\ d = Move(s, cfg, n, action, why)
  <2>1. d.sim # s.sim
    <3> HIDE DEF d
    <3> QED  BY <1>3 DEF Move
  <2> QED  BY <1>2, <2>1
<1>4. CASE \E why : d = Hold(s, cfg, why)
  <2>1. PICK why : d = Hold(s, cfg, why)
    BY <1>4
  <2> HIDE DEF d
  <2>2. /\ DOMAIN d = {"sim", "view", "action", "why"} /\ d.action = "hold"
        /\ d.view = ViewFor(s, cfg, s.sim)
    BY <2>1 DEF Hold
  <2>3. s.pressed /\ cfg.memGate /\ d.view > floor
    <3>1. Decide(s, cfg) # d
      BY <2>2
    <3> QED  BY <3>1, Zenon DEF Decide, MemoryGate, d
  <2>4. Decide(s, cfg).view = Larger(d.view - 1, floor)
    <3> DEFINE e == [d EXCEPT !.view = Larger(d.view - 1, floor),
                              !.action = IF d.action = "hold" THEN "lower" ELSE d.action,
                              !.why = <<"memory", d.view>> \o d.why]
    <3>1. Decide(s, cfg) = e
      BY <2>3, Zenon DEF Decide, MemoryGate, d
    <3> HIDE DEF floor
    <3>2. e.view = Larger(d.view - 1, floor)
      BY <2>2
    <3> QED  BY <3>1, <3>2
  <2>5. CASE d.sim = s.sim
    <3>1. floor \in Int /\ d.view = Larger(floor, s.view)
      BY <1>1, <2>2, <2>5 DEF ViewFor, ViewFloor, Clamp
    <3> HIDE DEF floor
    <3>2. d.view = s.view /\ s.view > floor
      BY <1>1, <2>3, <3>1 DEF Larger
    <3> QED  BY <1>1, <2>4, <3>1, <3>2 DEF Larger
  <2> QED  BY <1>2, <2>5 DEF d
<1>5. \/ \E why : d = Hold(s, cfg, why)
      \/ \E n, action, why : n \in Int /\ n # s.sim /\ d = Move(s, cfg, n, action, why)
  <2>1. \A n \in Int : n < s.sim \/ n > s.sim => n # s.sim
    BY <1>1
  <2> QED  BY <2>1, SimDecisionForms DEF Cut, Raise
<1> QED  BY <1>3, <1>4, <1>5
=============================================================================
