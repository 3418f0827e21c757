------------------------- MODULE AdaptiveLoopProofs -------------------------
(***************************************************************************)
(* Proofs about AdaptiveLoop: the debounce, the ramps and the stability of *)
(* the control loop, for every configuration, every debounce threshold,    *)
(* every number of players and every cost of a tick.                       *)
(***************************************************************************)
EXTENDS AdaptiveLoop, AdaptiveProofs

-----------------------------------------------------------------------------
(* Products *)

LEMMA ProductType ==
    ASSUME NEW a \in Nat, NEW b \in Nat
    PROVE  a * b \in Nat
  OBVIOUS

LEMMA ProductMonotone ==
    ASSUME NEW a \in Int, NEW b \in Int, NEW c \in Nat, a <= b
    PROVE  a * c <= b * c
<1>1. (b - a) * c >= 0
  <2>1. b - a \in Nat
    OBVIOUS
  <2> QED  BY <2>1, ProductType
<1>2. (b - a) * c = b * c - a * c
  OBVIOUS
<1> QED  BY <1>1, <1>2

LEMMA ProductCancels ==
    ASSUME NEW a \in Int, NEW b \in Int, NEW c \in Nat \ {0}
    PROVE  /\ a * c <= b * c => a <= b
           /\ a * c < b * c => a < b
           /\ a < b => a * c < b * c
<1>1. ASSUME NEW x \in Int, NEW y \in Int, x < y
      PROVE  x * c < y * c
  <2>1. (x + 1) * c <= y * c
    BY <1>1, ProductMonotone
  <2>2. (x + 1) * c = x * c + c
    OBVIOUS
  <2> QED  BY <2>1, <2>2
<1>2. a * c <= b * c => a <= b
  <2>1. b < a => b * c < a * c
    BY <1>1
  <2> QED  BY <2>1
<1>3. a * c < b * c => a < b
  <2>1. b <= a => b * c <= a * c
    BY ProductMonotone
  <2> QED  BY <2>1
<1> QED  BY <1>1, <1>2, <1>3

(***************************************************************************)
(* The cost of a tick is base + k * d^2 at simulation distance d.  Between *)
(* two distances it grows by at most the square of their ratio.            *)
(***************************************************************************)
LEMMA CostRatio ==
    ASSUME NEW base \in Nat, NEW k \in Nat, NEW small \in Nat, NEW large \in Nat,
           small <= large
    PROVE  (base + k * large) * small <= (base + k * small) * large
<1>1. small * base <= large * base
  BY ProductMonotone
<1>2. (base + k * large) * small = small * base + k * large * small
  OBVIOUS
<1>3. (base + k * small) * large = large * base + k * large * small
  OBVIOUS
<1> DEFINE common == k * large * small
<1>4. common \in Int /\ small * base \in Int /\ large * base \in Int
  OBVIOUS
<1> HIDE DEF common
<1> QED  BY <1>1, <1>2, <1>3, <1>4 DEF common

-----------------------------------------------------------------------------
(* What a poll reads and decides *)

LEMMA TickCostType ==
    ASSUME TypeOK, NEW p \in Nat, NEW d \in Nat
    PROVE  TickCost(p, d) \in Nat
<1>1. Base \in Nat /\ cost \in Nat
  BY LoopAssumption DEF TypeOK
<1>2. cost * p \in Nat
  BY <1>1, ProductType
<1>3. cost * p * d \in Nat
  BY <1>2, ProductType
<1>4. cost * p * d * d \in Nat
  BY <1>3, ProductType
<1> DEFINE x == cost * p * d * d
<1> HIDE DEF x
<1> QED  BY <1>1, <1>4 DEF TickCost, x

(* The numbers a reading is made of; the distances are positive.           *)
LEMMA ReadingFacts ==
    ASSUME TypeOK
    PROVE  /\ players \in Nat /\ cost \in Nat /\ peak \in Nat /\ mspt \in Nat /\ view \in Nat
           /\ sim \in Nat \ {0} /\ Reading \in StateType
           /\ Cfg \in ConfigType /\ Cfg.minSim \in Nat \ {0} /\ Cfg.maxSim \in Nat
           /\ Cfg.minSim <= Cfg.maxSim
<1>1. /\ Cfg \in ConfigType /\ Cfg.minSim \in Int /\ Cfg.maxSim \in Int
      /\ 0 < Cfg.minSim /\ Cfg.minSim <= Cfg.maxSim
  BY LoopAssumption DEF ConfigType
<1>2. players \in Nat /\ cost \in Nat /\ peak \in Nat /\ mspt \in Nat /\ view \in Nat
  BY LoopAssumption DEF TypeOK
<1>3. sim \in Nat \ {0}
  BY <1>1, LoopAssumption DEF TypeOK
<1>4. Reading \in StateType
  BY <1>2, <1>3 DEF Reading, StateType, TypeOK
<1> QED  BY <1>1, <1>2, <1>3, <1>4

(* A poll without memory pressure holds, cuts or raises; a move is in the  *)
(* configured range and never takes from the view distance.                *)
LEMMA DecisionForms ==
    ASSUME TypeOK
    PROVE  \/ Decision.action = "hold"
           \/ /\ Decision.action = "lower" /\ Cut(Reading, Cfg, Decision.sim)
              /\ Decision.sim \in Cfg.minSim .. Cfg.maxSim /\ Decision.view \in Nat
           \/ /\ Decision.action = "raise" /\ Raise(Reading, Cfg, Decision.sim)
              /\ Decision.sim \in Cfg.minSim .. Cfg.maxSim /\ Decision.view \in Nat
<1> DEFINE s == Reading
<1>1. /\ s \in StateType /\ Cfg \in ConfigType /\ Cfg.minSim <= Cfg.maxSim
      /\ s.view = view /\ view \in Nat /\ ~s.pressed
  BY ReadingFacts DEF Reading
<1> HIDE DEF s
<1>2. Decision = SimDecision(s, Cfg)
  BY <1>1, DecideShape DEF Decision, s
<1>3. ASSUME NEW n \in Int, NEW action, NEW why, Decision = Move(s, Cfg, n, action, why)
      PROVE  Decision.action = action /\ Decision.sim = n /\ Decision.view \in Nat
  <2>1. Decision.action = action /\ Decision.sim = n /\ Decision.view = ViewFor(s, Cfg, n)
    BY <1>3 DEF Move
  <2>2. ViewFloor(n, Cfg) \in Int
    <3>1. n + Cfg.viewBuffer \in Int /\ Cfg.minView \in Int /\ Cfg.maxView \in Int
      BY <1>1 DEF ConfigType
    <3> QED  BY <3>1, ClampType DEF ViewFloor
  <2> QED  BY <1>1, <2>1, <2>2 DEF ViewFor, Larger
<1>4. ASSUME NEW why, Decision = Hold(s, Cfg, why)
      PROVE  Decision.action = "hold"
  BY <1>4 DEF Hold
<1>5. Decision.sim \in Cfg.minSim .. Cfg.maxSim
  <2>1. view \in Int /\ Cfg.minView \in Int /\ Cfg.maxView \in Int
    BY <1>1 DEF ConfigType
  <2>2. PICK lo \in Int, hi \in Int : Engine(s, Cfg, lo, hi)
    <3> DEFINE lo == IF view <= Cfg.minView
                       THEN IF view <= Cfg.maxView THEN view ELSE Cfg.maxView
                       ELSE IF Cfg.minView <= Cfg.maxView THEN Cfg.minView ELSE Cfg.maxView
               hi == IF view >= Cfg.minView
                       THEN IF view >= Cfg.maxView THEN view ELSE Cfg.maxView
                       ELSE IF Cfg.minView >= Cfg.maxView THEN Cfg.minView ELSE Cfg.maxView
    <3>1. /\ lo \in Int /\ hi \in Int
          /\ view \in lo .. hi /\ Cfg.minView \in lo .. hi /\ Cfg.maxView \in lo .. hi
      BY <2>1
    <3> HIDE DEF lo, hi
    <3> QED  BY <1>1, <3>1 DEF Engine
  <2>3. Fitting(SimDecision(s, Cfg), s, Cfg, lo, hi, 0)
    BY <1>1, <2>2, SimDecisionFits
  <2> QED  BY <1>2, <2>3, LoopAssumption DEF Fitting, Bounded
<1>6. CASE \E why : SimDecision(s, Cfg) = Hold(s, Cfg, why)
  BY <1>2, <1>4, <1>6
<1>7. CASE \E n, why : n \in Int /\ Cut(s, Cfg, n) /\ SimDecision(s, Cfg) = Move(s, Cfg, n, "lower", why)
  <2>1. PICK n, why : n \in Int /\ Cut(s, Cfg, n) /\ Decision = Move(s, Cfg, n, "lower", why)
    BY <1>2, <1>7
  <2>2. Decision.action = "lower" /\ Decision.sim = n /\ Decision.view \in Nat
    BY <1>3, <2>1
  <2> QED  BY <1>5, <2>1, <2>2 DEF s
<1>8. CASE \E n, why : n \in Int /\ Raise(s, Cfg, n) /\ SimDecision(s, Cfg) = Move(s, Cfg, n, "raise", why)
  <2>1. PICK n, why : n \in Int /\ Raise(s, Cfg, n) /\ Decision = Move(s, Cfg, n, "raise", why)
    BY <1>2, <1>8
  <2>2. Decision.action = "raise" /\ Decision.sim = n /\ Decision.view \in Nat
    BY <1>3, <2>1
  <2> QED  BY <1>5, <2>1, <2>2 DEF s
<1> QED  BY <1>1, <1>6, <1>7, <1>8, SimDecisionForms

-----------------------------------------------------------------------------
(* Type correctness *)

LEMMA LoopTypeInit == Init => TypeOK
<1> SUFFICES ASSUME Init
             PROVE  TypeOK
  OBVIOUS
<1>1. /\ players \in Nat /\ sim \in Nat /\ Base \in Nat /\ cost \in Nat
      /\ RaiseDebounce \in Nat /\ view \in Nat /\ MaxPlayers \in Nat
  BY LoopAssumption DEF Init
<1>2. TickCost(players, sim) \in Nat
  <2>1. cost * players \in Nat
    BY <1>1, ProductType
  <2>2. cost * players * sim \in Nat
    BY <1>1, <2>1, ProductType
  <2>3. cost * players * sim * sim \in Nat
    BY <1>1, <2>2, ProductType
  <2> DEFINE x == cost * players * sim * sim
  <2> HIDE DEF x
  <2> QED  BY <1>1, <2>3 DEF TickCost, x
<1>3. mspt \in Nat
  BY <1>2 DEF Init
<1>4. sim \in InitialSims \cup (Cfg.minSim .. Cfg.maxSim)
  BY DEF Init
<1>5. raiseStreak \in 0 .. RaiseDebounce /\ sinceRaise \in 0 .. RaiseDebounce
  BY <1>1 DEF Init
<1>6. /\ starved \in BOOLEAN /\ turned \in BOOLEAN /\ unanswered \in BOOLEAN
      /\ lastMove \in Actions \cup {"none"}
  BY DEF Init
<1>7. players \in 0 .. MaxPlayers /\ cost \in Costs /\ peak \in players .. MaxPlayers
  BY DEF Init
<1> QED  BY <1>1, <1>3, <1>4, <1>5, <1>6, <1>7 DEF TypeOK

LEMMA LoopTypeStep == TypeOK /\ [Next]_vars => TypeOK'
<1> SUFFICES ASSUME TypeOK, [Next]_vars
             PROVE  TypeOK'
  OBVIOUS
<1> USE DEF TypeOK
<1>n. RaiseDebounce \in Nat \ {0} /\ MaxPlayers \in Nat
  BY LoopAssumption
<1>1. CASE PlayersChange
  <2>1. players' \in 0 .. MaxPlayers /\ peak' \in players' .. MaxPlayers /\ lastMove' = "none"
    BY <1>1, <1>n DEF PlayersChange, Larger
  <2> QED  BY <1>1, <2>1 DEF PlayersChange
<1>2. CASE CostChanges \/ HostChanges
  BY <1>2 DEF CostChanges, HostChanges, worldVars, companionVars, historyVars
<1>3. CASE WindowTurns
  <2>1. mspt' \in Nat
    BY <1>3, ReadingFacts, TickCostType DEF WindowTurns
  <2> QED  BY <1>3, <2>1 DEF WindowTurns, worldVars, historyVars
<1>4. Counted \in 0 .. RaiseDebounce /\ \A action : Streak(action) \in 0 .. RaiseDebounce
  BY <1>n DEF Counted, Streak
<1>5. CASE PollOnly \/ PollApplyFails
  BY <1>4, <1>5 DEF PollOnly, PollApplyFails, NothingSet, worldVars
<1>6. CASE PollApplies \/ PollApplyTimesOut
  <2>1. /\ Decision.action # "hold" /\ sim' = Decision.sim /\ view' = Decision.view
        /\ raiseStreak' \in {0, Streak(Decision.action)} /\ unanswered' \in BOOLEAN
        /\ turned' = FALSE /\ lastMove' \in {Decision.action, "none"}
        /\ sinceRaise' \in {0, Counted}
        /\ UNCHANGED <<players, cost, starved, peak, mspt>>
    BY <1>6 DEF PollApplies, PollApplyTimesOut, DistancesSet, ToApply, worldVars
  <2>2. /\ Decision.action \in {"lower", "raise"} /\ Decision.view \in Nat
        /\ Decision.sim \in Cfg.minSim .. Cfg.maxSim
    BY <2>1, DecisionForms
  <2>3. sim' \in InitialSims \cup (Cfg.minSim .. Cfg.maxSim) /\ view' \in Nat
    BY <2>1, <2>2
  <2>4. raiseStreak' \in 0 .. RaiseDebounce /\ sinceRaise' \in 0 .. RaiseDebounce
    BY <1>n, <1>4, <2>1
  <2>5. lastMove' \in Actions \cup {"none"} /\ turned' \in BOOLEAN
    BY <2>1, <2>2 DEF Actions
  <2> QED  BY <2>1, <2>3, <2>4, <2>5
<1>7. CASE UNCHANGED vars
  BY <1>7 DEF vars, worldVars, companionVars, historyVars
<1> QED  BY <1>1, <1>2, <1>3, <1>5, <1>6, <1>7 DEF Next

LEMMA LoopTypeInvariance == Init /\ [][Next]_vars => []TypeOK
  BY LoopTypeInit, LoopTypeStep, PTL

(* Type correctness of the loop and its world: in particular a distance    *)
(* that was ever set is within the configured range, and the debounce      *)
(* counter never passes its threshold.                                     *)
THEOREM LoopTypeCorrect == Spec => []TypeOK
  BY LoopTypeInvariance, PTL DEF Spec

-----------------------------------------------------------------------------
(* Ramps and debounce *)

(* The simulation distance changes only where a poll applies a move, to an *)
(* answer or to none: down with a cut, up with a raise.                    *)
LEMMA SimChanges ==
    ASSUME TypeOK, [Next]_vars, sim' # sim
    PROVE  /\ PollApplies \/ PollApplyTimesOut
           /\ sim' = Decision.sim /\ sim' \in Cfg.minSim .. Cfg.maxSim
           /\ \/ Decision.action = "lower" /\ Cut(Reading, Cfg, sim') /\ sim' < sim
              \/ Decision.action = "raise" /\ Raise(Reading, Cfg, sim') /\ sim' > sim
<1>1. PollApplies \/ PollApplyTimesOut
  BY DEF Next, PlayersChange, CostChanges, HostChanges, WindowTurns, PollOnly,
     PollApplyFails, NothingSet, vars, worldVars, companionVars
<1>2. sim' = Decision.sim /\ Decision.action # "hold"
  BY <1>1 DEF PollApplies, PollApplyTimesOut, DistancesSet, ToApply
<1>3. \/ Decision.action = "lower" /\ Cut(Reading, Cfg, sim')
      \/ Decision.action = "raise" /\ Raise(Reading, Cfg, sim')
  BY <1>2, DecisionForms
<1>4. sim' \in Cfg.minSim .. Cfg.maxSim
  BY <1>2, DecisionForms
<1>5. Reading.sim = sim
  BY DEF Reading
<1> QED  BY <1>1, <1>2, <1>3, <1>4, <1>5 DEF Cut, Raise

(* "SIM FLOORS and ASYMMETRIC ramps": whatever the readings, an applied    *)
(* distance is in the configured range, a raise takes at most MaxStepUp    *)
(* and a cut at most MaxStepDown, save onto the floor, in a panic or from  *)
(* above the ceiling.                                                      *)
THEOREM RampsAlwaysBounded == Spec => RampsAreBounded
<1>1. ASSUME TypeOK, [Next]_vars, sim' # sim
      PROVE  /\ sim' \in Cfg.minSim .. Cfg.maxSim
             /\ sim' > sim => sim' <= sim + Cfg.maxStepUp \/ sim' = Cfg.minSim
             /\ sim' < sim => \/ sim' >= sim - Cfg.maxStepDown
                              \/ mspt >= Cfg.panic
                              \/ sim > Cfg.maxSim
  <2>1. /\ sim' \in Cfg.minSim .. Cfg.maxSim
        /\ \/ Cut(Reading, Cfg, sim') /\ sim' < sim
           \/ Raise(Reading, Cfg, sim') /\ sim' > sim
    BY <1>1, SimChanges
  <2>2. /\ sim \in Nat /\ Cfg.minSim \in Nat /\ Cfg.maxSim \in Nat /\ Cfg.minSim <= Cfg.maxSim
        /\ Cfg.maxStepUp \in Nat /\ Cfg.maxStepDown \in Nat
        /\ Reading.sim = sim /\ Reading.mspt = mspt
    BY <1>1, ReadingFacts DEF ConfigType, Reading
  <2>3. sim' \in Int
    BY <2>1, <2>2
  <2>4. CASE Cut(Reading, Cfg, sim') /\ sim' < sim
    <3>1. CASE sim' = Clamp(SteppedDown(Reading, Cfg), Cfg.minSim, Cfg.maxSim)
      <4>1. SteppedDown(Reading, Cfg) \in (sim - Cfg.maxStepDown) .. sim
        BY <1>1, <2>2, ReadingFacts, SteppedDownBounds
      <4> QED  BY <2>1, <2>2, <2>3, <2>4, <3>1, <4>1 DEF Clamp
    <3>2. CASE mspt >= Cfg.panic
      BY <2>1, <2>2, <2>3, <2>4, <3>2
    <3> QED  BY <2>2, <2>4, <3>1, <3>2 DEF Cut
  <2>5. CASE Raise(Reading, Cfg, sim') /\ sim' > sim
    <3>1. SteppedUp(Reading, Cfg) \in sim .. (sim + Cfg.maxStepUp)
      BY <1>1, <2>2, ReadingFacts, SteppedUpBounds
    <3>2. sim' = Clamp(SteppedUp(Reading, Cfg), Cfg.minSim, Cfg.maxSim)
      BY <2>5 DEF Raise
    <3> QED  BY <2>1, <2>2, <2>3, <2>5, <3>1, <3>2 DEF Clamp
  <2> QED  BY <2>1, <2>4, <2>5
<1> QED
  BY <1>1, LoopTypeInvariance, PTL DEF Spec, RampsAreBounded

\* Unless the loop took the latest raise for failed, the streak is never
\* longer than the decisions since that raise.
SpacingInv == unanswered \/ raiseStreak <= sinceRaise

LEMMA SpacingStep ==
    ASSUME TypeOK, SpacingInv, [Next]_vars
    PROVE  SpacingInv'
<1> USE DEF SpacingInv
<1>n. /\ RaiseDebounce \in Nat \ {0}
      /\ raiseStreak \in 0 .. RaiseDebounce /\ sinceRaise \in 0 .. RaiseDebounce
  BY LoopAssumption DEF TypeOK
<1>1. /\ raiseStreak <= sinceRaise => \A action : Streak(action) <= Counted
      /\ \A action : action # "raise" => Streak(action) = 0
      /\ Counted \in Nat
  BY <1>n DEF Streak, Counted
<1>2. CASE PollOnly \/ PollApplyFails
  <2>1. /\ raiseStreak' = Streak(Decision.action) /\ sinceRaise' = Counted
        /\ unanswered' = (unanswered /\ Decision.action = "raise")
    BY <1>2 DEF PollOnly, PollApplyFails, NothingSet
  <2>2. CASE Decision.action # "raise"
    BY <1>1, <2>1, <2>2
  <2>3. CASE Decision.action = "raise"
    <3>1. unanswered' = unanswered
      BY <2>1, <2>3 DEF TypeOK
    <3> QED  BY <1>1, <2>1, <3>1
  <2> QED  BY <2>2, <2>3
<1>3. CASE PollApplies
  <2>1. raiseStreak' = 0 /\ sinceRaise' \in {0, Counted}
    BY <1>3 DEF PollApplies, DistancesSet
  <2> QED  BY <1>1, <2>1
<1>4. CASE PollApplyTimesOut
  <2>1. /\ raiseStreak' = Streak(Decision.action) /\ sinceRaise' \in {0, Counted}
        /\ unanswered' = (Decision.action = "raise")
    BY <1>4 DEF PollApplyTimesOut, DistancesSet
  <2>2. Decision.action # "raise" => raiseStreak' = 0
    BY <1>1, <2>1
  <2>3. Decision.action = "raise" => unanswered'
    BY <2>1
  <2>4. sinceRaise' >= 0
    BY <1>1, <2>1
  <2> QED  BY <2>2, <2>3, <2>4
<1>5. CASE PlayersChange \/ CostChanges \/ HostChanges \/ WindowTurns \/ UNCHANGED vars
  BY <1>5 DEF PlayersChange, CostChanges, HostChanges, WindowTurns, historyVars, vars
<1> QED  BY <1>2, <1>3, <1>4, <1>5 DEF Next

(* The debounce as seen from outside: between two raises the loop has      *)
(* decided RaiseDebounce times, whatever was refused meanwhile, unless it  *)
(* took the earlier one for failed and has asked for a raise ever since.   *)
THEOREM RaisesAlwaysSpaced == Spec => RaisesAreSpaced
<1>1. Init => SpacingInv
  BY LoopAssumption DEF Init, SpacingInv
<1>2. TypeOK /\ SpacingInv /\ [Next]_vars => SpacingInv'
  BY SpacingStep
<1>3. ASSUME TypeOK, SpacingInv, [Next]_vars, sim' > sim
      PROVE  Counted >= RaiseDebounce \/ unanswered
  <2>1. sim' # sim
    BY <1>3, ReadingFacts
  <2>2. /\ PollApplies \/ PollApplyTimesOut
        /\ sim' \in Cfg.minSim .. Cfg.maxSim
        /\ Decision.action = "raise" \/ sim' < sim
    BY <1>3, <2>1, SimChanges
  <2>3. sim' \in Int /\ ~ (sim' < sim)
    BY <1>3, <2>2, ReadingFacts
  <2>4. Decision.action = "raise" /\ Streak("raise") >= RaiseDebounce
    BY <2>2, <2>3 DEF PollApplies, PollApplyTimesOut, ToApply
  <2>5. /\ RaiseDebounce \in Nat \ {0}
        /\ raiseStreak \in 0 .. RaiseDebounce /\ sinceRaise \in 0 .. RaiseDebounce
    BY <1>3, LoopAssumption DEF TypeOK
  <2>6. CASE raiseStreak <= sinceRaise
    BY <2>4, <2>5, <2>6 DEF Streak, Counted
  <2> QED  BY <1>3, <2>6 DEF SpacingInv
<1> QED
  BY <1>1, <1>2, <1>3, LoopTypeInvariance, PTL DEF Spec, RaisesAreSpaced

-----------------------------------------------------------------------------
(* Joins *)

(* "The distance is already peak-safe and a join doesn't trigger a cut":   *)
(* with any costs, any target and any peak, a join within the recorded     *)
(* peak does not take a world within its budget over it.                   *)
THEOREM JoinsNeverForceACut == Spec => JoinsForceNoCut
<1>1. ASSUME TypeOK, [Next]_vars, players' = players + 1, players > 0, peak' = peak
      PROVE  LET before == [Reading EXCEPT !.mspt = TickCost(players, sim)]
                 after == [before EXCEPT !.players = players + 1,
                                         !.mspt = TickCost(players + 1, sim)]
             IN ~OverBudget(before, Cfg) => ~OverBudget(after, Cfg)
  <2> DEFINE before == [Reading EXCEPT !.mspt = TickCost(players, sim)]
             after == [before EXCEPT !.players = players + 1, !.mspt = TickCost(players + 1, sim)]
             x == cost * sim * sim * peak
             y == Base * peak
  <2>1. /\ players \in Nat \ {0} /\ sim \in Nat /\ peak \in Nat /\ cost \in Nat
        /\ Base \in Nat /\ Cfg.target \in Int
    BY <1>1, ReadingFacts, LoopAssumption DEF ConfigType
  <2>2. peak >= players + 1
    <3>1. PlayersChange
      BY <1>1, <2>1 DEF Next, CostChanges, HostChanges, WindowTurns, PollOnly,
         PollApplies, PollApplyFails, PollApplyTimesOut, NothingSet, DistancesSet,
         worldVars, vars
    <3> QED  BY <1>1, <2>1, <3>1 DEF PlayersChange, Larger
  <2>3. /\ before.mspt = TickCost(players, sim) /\ before.players = players /\ before.peak = peak
        /\ after.mspt = TickCost(players + 1, sim) /\ after.players = players + 1
        /\ after.peak = peak
    BY DEF Reading
  <2> HIDE DEF before, after
  <2>4. PeakPlayers(before) = peak /\ PeakPlayers(after) = peak
    BY <2>1, <2>2, <2>3 DEF PeakPlayers, Larger
  <2>5. x \in Int /\ y \in Nat
    <3>1. cost * sim \in Nat
      BY <2>1, ProductType
    <3>2. cost * sim * sim \in Nat
      BY <2>1, <3>1, ProductType
    <3>3. cost * sim * sim * peak \in Nat /\ Base * peak \in Nat
      BY <2>1, <3>2, ProductType
    <3> QED  BY <3>3
  <2>6. Projected(before) = y + x * players
    BY <2>1, <2>3, <2>4 DEF Projected, TickCost
  <2>7. Projected(after) = y + x * players + x
    BY <2>1, <2>3, <2>4 DEF Projected, TickCost
  <2> HIDE DEF x, y
  <2>8. SUFFICES ASSUME ~OverBudget(before, Cfg)
                 PROVE  ~OverBudget(after, Cfg)
    BY DEF before, after
  <2>9. y + x * players <= Cfg.target * players
    BY <2>1, <2>3, <2>5, <2>6, <2>8 DEF OverBudget, Budget
  <2>10. x <= Cfg.target
    <3>1. x * players \in Int /\ Cfg.target * players \in Int
      BY <2>1, <2>5
    <3>2. x * players <= Cfg.target * players
      BY <2>5, <2>9, <3>1
    <3> QED  BY <2>1, <2>5, <3>2, ProductCancels
  <2>11. y + x * players + x <= Cfg.target * players + Cfg.target
    <3>1. x * players \in Int /\ Cfg.target * players \in Int
      BY <2>1, <2>5
    <3> QED  BY <2>1, <2>5, <2>9, <2>10, <3>1
  <2>12. Cfg.target * (players + 1) = Cfg.target * players + Cfg.target
    BY <2>1
  <2>13. Projected(after) <= Budget(after, Cfg)
    BY <2>3, <2>7, <2>11, <2>12 DEF Budget
  <2>14. Projected(after) \in Int /\ Budget(after, Cfg) \in Int
    BY <2>1, <2>3, <2>5, <2>7, <2>12 DEF Budget
  <2> QED  BY <2>13, <2>14 DEF OverBudget
<1> QED
  BY <1>1, LoopTypeInvariance, PTL DEF Spec, JoinsForceNoCut

-----------------------------------------------------------------------------
(***************************************************************************)
(* Stability.  A raise goes no further than the distance at which the same *)
(* players would use the target up if all of the tick's cost grew with the *)
(* square of the distance; part of it does not grow at all, so the budget  *)
(* still holds there.  A cut stops short of no distance that would have    *)
(* fitted, and one step above it fits no better from below, for the same   *)
(* reason.  A reading that is late errs to the safe side both times.       *)
(***************************************************************************)

LEMMA SquareMonotone ==
    ASSUME NEW a \in Nat, NEW b \in Nat, a <= b
    PROVE  a * a \in Nat /\ b * b \in Nat /\ a * a <= b * b
<1>1. a * a <= b * a
  BY ProductMonotone
<1>2. a * b <= b * b
  BY ProductMonotone
<1>3. a * a \in Nat /\ b * b \in Nat /\ a * b \in Nat /\ a * b = b * a
  BY ProductType
<1> QED  BY <1>1, <1>2, <1>3

(* What fits by the square of the distance fits at the larger one.         *)
LEMMA RaiseFits ==
    ASSUME NEW base \in Nat, NEW k \in Nat, NEW small \in Nat \ {0}, NEW large \in Nat,
           small <= large, NEW heads \in Nat, NEW budget \in Int,
           large * ((base + k * small) * heads) <= small * budget
    PROVE  (base + k * large) * heads <= budget
<1> DEFINE costSmall == base + k * small
           costLarge == base + k * large
<1>1. costSmall \in Int /\ costLarge \in Int
  OBVIOUS
<1>2. costLarge * small <= costSmall * large
  BY CostRatio
<1>3. large * (costSmall * heads) <= small * budget
  OBVIOUS
<1> HIDE DEF costSmall, costLarge
<1>4. costLarge * small \in Int /\ costSmall * large \in Int
  BY <1>1
<1>5. (costLarge * small) * heads <= (costSmall * large) * heads
  BY <1>2, <1>4, ProductMonotone
<1>6. (costLarge * small) * heads = (costLarge * heads) * small
  BY <1>1
<1>7. (costSmall * large) * heads = large * (costSmall * heads)
  BY <1>1
<1>8. small * budget = budget * small
  OBVIOUS
<1>9. (costLarge * heads) * small <= budget * small
  <2>1. /\ (costLarge * heads) * small \in Int /\ large * (costSmall * heads) \in Int
        /\ budget * small \in Int
    BY <1>1
  <2> QED  BY <1>3, <1>5, <1>6, <1>7, <1>8, <2>1
<1>10. costLarge * heads <= budget
  BY <1>1, <1>9, ProductCancels
<1> QED  BY <1>10 DEF costLarge

(* What does not fit from the larger distance does not from the smaller.   *)
LEMMA CutStays ==
    ASSUME NEW base \in Nat, NEW k \in Nat, NEW small \in Nat \ {0}, NEW large \in Nat \ {0},
           small <= large, NEW heads \in Nat, NEW budget \in Int, NEW square \in Nat,
           large * budget < square * ((base + k * large) * heads)
    PROVE  small * budget < square * ((base + k * small) * heads)
<1> DEFINE costSmall == base + k * small
           costLarge == base + k * large
           useSmall == square * (costSmall * heads)
           useLarge == square * (costLarge * heads)
<1>1. costSmall \in Int /\ costLarge \in Int
  OBVIOUS
<1>2. costLarge * small <= costSmall * large
  BY CostRatio
<1>3. large * budget < useLarge
  OBVIOUS
<1> HIDE DEF costSmall, costLarge
<1>4. useSmall \in Int /\ useLarge \in Int
  BY <1>1
<1>5. useLarge * small <= useSmall * large
  <2> DEFINE f == square * heads
             a == costLarge * small
             b == costSmall * large
  <2>1. f \in Nat /\ a \in Int /\ b \in Int /\ a <= b
    BY <1>1, <1>2, ProductType
  <2>2. a * f <= b * f
    <3> HIDE DEF f, a, b
    <3> QED  BY <2>1, ProductMonotone
  <2>3. a * f = useLarge * small
    BY <1>1
  <2>4. b * f = useSmall * large
    BY <1>1
  <2> QED  BY <2>2, <2>3, <2>4
<1>d. useSmall = square * ((base + k * small) * heads)
  BY DEF costSmall
<1> HIDE DEF useSmall, useLarge
<1>6. (large * budget) * small < useLarge * small
  <2>1. large * budget \in Int
    OBVIOUS
  <2> QED  BY <1>3, <1>4, <2>1, ProductCancels
<1>7. (large * budget) * small = (small * budget) * large
  OBVIOUS
<1>8. (small * budget) * large < useSmall * large
  <2>1. /\ (small * budget) * large \in Int /\ useLarge * small \in Int
        /\ useSmall * large \in Int
    BY <1>4
  <2> QED  BY <1>5, <1>6, <1>7, <2>1
<1>9. small * budget \in Int
  OBVIOUS
<1> QED  BY <1>4, <1>8, <1>9, <1>d, ProductCancels

\* The players a reading is sized for; the same before and after a move.
Heads == Larger(Larger(peak, players), 1)

\* At this distance the due reading is within the target.
FitsAt(d) == TickCost(players, d) * Heads <= Cfg.target * players

\* At this distance the due reading has no room for one step more.
NoRoomAt(d) ==
    (d * d) * (Cfg.target * players) < ((d + 1) * (d + 1)) * (TickCost(players, d) * Heads)

\* After a raise and after a cut, while the world stays as it is.
StabilityInv ==
    /\ lastMove = "raise" =>
         sim <= Cfg.minSim \/ (FitsAt(sim) /\ mspt <= TickCost(players, sim))
    /\ lastMove = "lower" =>
         /\ sim >= Cfg.minSim
         /\ sim >= Cfg.maxSim \/ (NoRoomAt(sim) /\ mspt >= TickCost(players, sim))

LEMMA PriceFacts ==
    ASSUME TypeOK
    PROVE  /\ Heads \in Nat \ {0} /\ players <= Heads /\ cost * players \in Nat
           /\ Base \in Nat /\ Cfg.target \in Int /\ Cfg.target * players \in Int
           /\ Projected(Reading) = mspt * Heads
           /\ Budget(Reading, Cfg) = Cfg.target * players
           /\ \A d \in Nat : /\ TickCost(players, d) = Base + (cost * players) * (d * d)
                             /\ TickCost(players, d) \in Nat
<1>1. /\ players \in Nat /\ peak \in Nat /\ cost \in Nat /\ Base \in Nat /\ Cfg.target \in Int
  BY ReadingFacts, LoopAssumption DEF ConfigType
<1>2. Heads \in Nat \ {0} /\ players <= Heads
  BY <1>1 DEF Heads, Larger
<1>3. /\ Reading.mspt = mspt /\ Reading.peak = peak /\ Reading.players = players
  BY DEF Reading
<1>4. Projected(Reading) = mspt * Heads /\ Budget(Reading, Cfg) = Cfg.target * players
  BY <1>3 DEF Projected, PeakPlayers, Budget, Heads
<1>5. cost * players \in Nat /\ Cfg.target * players \in Int
  BY <1>1, ProductType
<1>6. ASSUME NEW d \in Nat
      PROVE  TickCost(players, d) = Base + (cost * players) * (d * d)
  BY <1>1 DEF TickCost
<1>7. \A d \in Nat : TickCost(players, d) \in Nat
  BY <1>1, TickCostType
<1> QED  BY <1>1, <1>2, <1>4, <1>5, <1>6, <1>7

(* Short of the target at a distance, then at every smaller one.           *)
LEMMA IdealIsDownwardClosed ==
    ASSUME TypeOK, NEW n \in Nat \ {0}, NEW far \in Nat, n <= far, AtMostIdeal(Reading, Cfg, far)
    PROVE  (n * n) * (mspt * Heads) <= (sim * sim) * (Cfg.target * players)
<1>1. /\ mspt * Heads \in Nat /\ Cfg.target * players \in Int /\ sim \in Nat
      /\ Projected(Reading) = mspt * Heads /\ Budget(Reading, Cfg) = Cfg.target * players
      /\ Reading.sim = sim
  BY ReadingFacts, PriceFacts, ProductType DEF Reading
<1> DEFINE use == mspt * Heads
           budget == Cfg.target * players
<1> HIDE DEF use, budget
<1>2. use \in Nat /\ budget \in Int
  BY <1>1 DEF use, budget
<1>3. (far * far) * use <= (sim * sim) * budget
  <2>1. ~ (far <= 0)
    OBVIOUS
  <2> QED  BY <1>1, <2>1 DEF AtMostIdeal, use, budget
<1>4. n * n \in Nat /\ far * far \in Nat /\ n * n <= far * far
  BY SquareMonotone
<1>5. (n * n) * use <= (far * far) * use
  BY <1>2, <1>4, ProductMonotone
<1>6. (n * n) * use \in Int /\ (far * far) * use \in Int /\ (sim * sim) * budget \in Int
  <2>1. sim * sim \in Int
    BY <1>1
  <2> QED  BY <1>2, <1>4, <2>1
<1> QED  BY <1>3, <1>5, <1>6 DEF use, budget

(* Where a raise on a current reading goes, the budget holds.              *)
LEMMA AfterRaise ==
    ASSUME TypeOK, Current, NEW n \in Nat \ {0}, Raise(Reading, Cfg, n), n > Cfg.minSim
    PROVE  FitsAt(n) /\ mspt <= TickCost(players, n)
<1>1. /\ sim \in Nat \ {0} /\ Reading \in StateType /\ Cfg \in ConfigType /\ Reading.sim = sim
      /\ Cfg.minSim \in Nat /\ Cfg.maxSim \in Nat /\ Cfg.maxStepUp \in Nat
  BY ReadingFacts DEF Reading, ConfigType
<1>2. n > sim /\ n = Clamp(SteppedUp(Reading, Cfg), Cfg.minSim, Cfg.maxSim)
  BY <1>1 DEF Raise
<1>3. SteppedUp(Reading, Cfg) \in Nat /\ n <= SteppedUp(Reading, Cfg)
  <2>1. SteppedUp(Reading, Cfg) \in sim .. (sim + Cfg.maxStepUp)
    BY <1>1, SteppedUpBounds
  <2> QED  BY <1>1, <1>2, <2>1 DEF Clamp
<1>4. AtMostIdeal(Reading, Cfg, SteppedUp(Reading, Cfg))
  BY <1>1, <1>2, <1>3, SteppedUpIdeal
<1>5. (n * n) * (mspt * Heads) <= (sim * sim) * (Cfg.target * players)
  BY <1>3, <1>4, IdealIsDownwardClosed
<1>6. /\ Heads \in Nat \ {0} /\ cost * players \in Nat /\ Base \in Nat
      /\ Cfg.target * players \in Int
      /\ TickCost(players, n) = Base + (cost * players) * (n * n)
      /\ mspt = Base + (cost * players) * (sim * sim)
  BY <1>1, PriceFacts DEF Current
<1>7. sim * sim \in Nat \ {0} /\ n * n \in Nat /\ sim * sim <= n * n
  <2>1. sim * sim \in Nat /\ n * n \in Nat /\ sim * sim <= n * n
    BY <1>1, <1>2, SquareMonotone
  <2>2. 1 * 1 <= sim * sim
    BY <1>1, SquareMonotone
  <2> QED  BY <2>1, <2>2
<1> DEFINE small == sim * sim
           large == n * n
           k == cost * players
           budget == Cfg.target * players
<1>8. /\ small \in Nat \ {0} /\ large \in Nat /\ small <= large /\ k \in Nat /\ budget \in Int
      /\ TickCost(players, n) = Base + k * large /\ mspt = Base + k * small
      /\ large * (mspt * Heads) <= small * budget
  BY <1>5, <1>6, <1>7
<1>9. FitsAt(n) <=> TickCost(players, n) * Heads <= budget
  BY DEF FitsAt
<1> HIDE DEF small, large, k, budget
<1>10. (Base + k * large) * Heads <= budget
  <2>1. large * ((Base + k * small) * Heads) <= small * budget
    BY <1>8
  <2> QED  BY <1>6, <1>8, <2>1, RaiseFits
<1>11. k * small <= k * large
  <2>1. small * k <= large * k
    BY <1>8, ProductMonotone
  <2> QED  BY <1>8, <2>1
<1>12. mspt <= TickCost(players, n)
  <2>1. k * small \in Int /\ k * large \in Int
    BY <1>8
  <2> QED  BY <1>6, <1>8, <1>11, <2>1
<1> QED  BY <1>8, <1>9, <1>10, <1>12

(* Where a cut on a current reading goes, there is no room for a raise.    *)
LEMMA AfterCut ==
    ASSUME TypeOK, Current, mspt < Cfg.panic, NEW n \in Nat \ {0}, n >= Cfg.minSim,
           n < Cfg.maxSim, Cut(Reading, Cfg, n)
    PROVE  NoRoomAt(n) /\ mspt >= TickCost(players, n)
<1>1. /\ sim \in Nat \ {0} /\ Reading \in StateType /\ Cfg \in ConfigType
      /\ Reading.sim = sim /\ Reading.mspt = mspt /\ mspt \in Nat
      /\ Cfg.minSim \in Nat /\ Cfg.maxSim \in Nat /\ Cfg.maxStepDown \in Nat /\ Cfg.panic \in Int
  BY ReadingFacts DEF Reading, ConfigType
<1>2. n < sim /\ n = Clamp(SteppedDown(Reading, Cfg), Cfg.minSim, Cfg.maxSim)
  BY <1>1 DEF Cut
<1>3. SteppedDown(Reading, Cfg) < n + 1
  <2>1. SteppedDown(Reading, Cfg) \in (sim - Cfg.maxStepDown) .. sim
    BY <1>1, SteppedDownBounds
  <2>2. SteppedDown(Reading, Cfg) \in Int
    BY <1>1, <2>1
  <2> QED  BY <1>1, <1>2, <2>2 DEF Clamp
<1>4. ~AtMostIdeal(Reading, Cfg, n + 1)
  <2>1. n + 1 \in Int /\ n + 1 <= sim
    BY <1>1, <1>2
  <2> QED  BY <1>1, <1>3, <2>1, SteppedDownIdeal
<1>6. /\ Heads \in Nat \ {0} /\ cost * players \in Nat /\ Base \in Nat
      /\ Cfg.target * players \in Int
      /\ TickCost(players, n) = Base + (cost * players) * (n * n)
      /\ mspt = Base + (cost * players) * (sim * sim)
      /\ Projected(Reading) = mspt * Heads /\ Budget(Reading, Cfg) = Cfg.target * players
  BY <1>1, PriceFacts DEF Current
<1> DEFINE small == n * n
           large == sim * sim
           square == (n + 1) * (n + 1)
           k == cost * players
           budget == Cfg.target * players
           use == mspt * Heads
<1>7. /\ small \in Nat \ {0} /\ large \in Nat \ {0} /\ small <= large /\ square \in Nat
  <2>1. n * n \in Nat /\ sim * sim \in Nat /\ n * n <= sim * sim
    BY <1>1, <1>2, SquareMonotone
  <2>2. 1 * 1 <= n * n
    BY SquareMonotone
  <2>3. (n + 1) * (n + 1) \in Nat
    BY ProductType
  <2> QED  BY <2>1, <2>2, <2>3
<1>8. large * budget < square * use
  <2>1. ~ (square * use <= large * budget)
    BY <1>1, <1>4, <1>6 DEF AtMostIdeal
  <2>2. use \in Nat /\ budget \in Int
    BY <1>1, <1>6, ProductType
  <2> HIDE DEF square, use, large, budget
  <2>3. square * use \in Int /\ large * budget \in Int
    BY <1>7, <2>2
  <2> QED  BY <2>1, <2>3
<1>9. /\ k \in Nat /\ budget \in Int /\ use = mspt * Heads
      /\ TickCost(players, n) = Base + k * small /\ mspt = Base + k * large
  BY <1>6
<1>10. NoRoomAt(n) <=> small * budget < square * (TickCost(players, n) * Heads)
  BY DEF NoRoomAt
<1> HIDE DEF small, large, square, k, budget, use
<1>11. small * budget < square * ((Base + k * small) * Heads)
  <2>1. large * budget < square * ((Base + k * large) * Heads)
    BY <1>8, <1>9
  <2> QED  BY <1>6, <1>7, <1>9, <2>1, CutStays
<1>12. k * small <= k * large
  <2>1. small * k <= large * k
    BY <1>7, <1>9, ProductMonotone
  <2> QED  BY <1>7, <1>9, <2>1
<1>13. mspt >= TickCost(players, n)
  <2>1. k * small \in Int /\ k * large \in Int
    BY <1>7, <1>9
  <2> QED  BY <1>6, <1>9, <1>12, <2>1
<1> QED  BY <1>9, <1>10, <1>11, <1>13

(* A raise that fits is not followed by a cut, however late the reading.   *)
LEMMA NoCutAfterRaise ==
    ASSUME TypeOK, Cfg.target < Cfg.panic, FitsAt(sim), mspt <= TickCost(players, sim)
    PROVE  \A n : ~Cut(Reading, Cfg, n)
<1> SUFFICES ASSUME NEW n, Cut(Reading, Cfg, n)
             PROVE  FALSE
  OBVIOUS
<1>1. /\ Heads \in Nat \ {0} /\ players <= Heads /\ players \in Nat /\ players > 0
      /\ mspt \in Nat /\ Cfg.target \in Int /\ Cfg.panic \in Int
      /\ TickCost(players, sim) \in Nat
      /\ Projected(Reading) = mspt * Heads /\ Budget(Reading, Cfg) = Cfg.target * players
      /\ Reading.mspt = mspt
  BY ReadingFacts, PriceFacts DEF Cut, Reading, ConfigType
<1>2. mspt * Heads <= Cfg.target * players
  <2>1. mspt * Heads <= TickCost(players, sim) * Heads
    BY <1>1, ProductMonotone
  <2>2. TickCost(players, sim) * Heads <= Cfg.target * players
    BY DEF FitsAt
  <2>3. /\ mspt * Heads \in Int /\ TickCost(players, sim) * Heads \in Int
        /\ Cfg.target * players \in Int
    BY <1>1
  <2> QED  BY <2>1, <2>2, <2>3
<1>3. ~OverBudget(Reading, Cfg)
  <2>1. mspt * Heads \in Int /\ Cfg.target * players \in Int
    BY <1>1
  <2> QED  BY <1>1, <1>2, <2>1 DEF OverBudget
<1>4. mspt >= Cfg.panic
  BY <1>1, <1>3 DEF Cut
<1>5. mspt <= Cfg.target
  <2>1. CASE Cfg.target >= 0
    <3>1. players * Cfg.target <= Heads * Cfg.target
      BY <1>1, <2>1, ProductMonotone
    <3>2. mspt * Heads <= Cfg.target * Heads
      <4>1. /\ players * Cfg.target = Cfg.target * players
            /\ Heads * Cfg.target = Cfg.target * Heads
            /\ Cfg.target * players \in Int /\ Cfg.target * Heads \in Int /\ mspt * Heads \in Int
        BY <1>1
      <4> QED  BY <1>2, <3>1, <4>1
    <3> QED  BY <1>1, <3>2, ProductCancels
  <2>2. CASE Cfg.target < 0
    <3>1. Cfg.target * players < 0 * players
      BY <1>1, <2>2, ProductCancels
    <3>2. mspt * Heads \in Nat /\ 0 * players = 0 /\ Cfg.target * players \in Int
      BY <1>1, ProductType
    <3> QED  BY <1>2, <3>1, <3>2
  <2> QED  BY <1>1, <2>1, <2>2
<1> QED  BY <1>1, <1>4, <1>5

(* A distance without room is not followed by a raise, however late the    *)
(* reading.                                                                *)
LEMMA NoRaiseAfterCut ==
    ASSUME TypeOK, sim >= Cfg.minSim,
           sim >= Cfg.maxSim \/ (NoRoomAt(sim) /\ mspt >= TickCost(players, sim))
    PROVE  \A n : ~Raise(Reading, Cfg, n)
<1> SUFFICES ASSUME NEW n, Raise(Reading, Cfg, n)
             PROVE  FALSE
  OBVIOUS
<1>1. /\ Heads \in Nat \ {0} /\ mspt \in Nat /\ sim \in Nat \ {0}
      /\ TickCost(players, sim) \in Nat /\ Cfg.target * players \in Int
      /\ Cfg.minSim \in Nat /\ Cfg.maxSim \in Nat /\ Cfg.maxStepUp \in Nat /\ Cfg.minSim <= Cfg.maxSim
      /\ Reading \in StateType /\ Cfg \in ConfigType /\ Reading.sim = sim
  BY ReadingFacts, PriceFacts DEF Reading, ConfigType
<1>2. n > sim /\ n = Clamp(SteppedUp(Reading, Cfg), Cfg.minSim, Cfg.maxSim)
  BY <1>1 DEF Raise
<1>3. SteppedUp(Reading, Cfg) \in Nat
  <2>1. SteppedUp(Reading, Cfg) \in sim .. (sim + Cfg.maxStepUp)
    BY <1>1, SteppedUpBounds
  <2> QED  BY <1>1, <2>1
<1>4. sim < Cfg.maxSim /\ sim + 1 <= SteppedUp(Reading, Cfg)
  BY <1>1, <1>2, <1>3 DEF Clamp
<1>5. AtMostIdeal(Reading, Cfg, SteppedUp(Reading, Cfg))
  <2>1. SteppedUp(Reading, Cfg) # sim
    BY <1>1, <1>3, <1>4
  <2> QED  BY <1>1, <2>1, SteppedUpIdeal
<1> DEFINE next == sim + 1
           use == mspt * Heads
           due == TickCost(players, sim) * Heads
           budget == (sim * sim) * (Cfg.target * players)
<1>6. next \in Nat \ {0} /\ next <= SteppedUp(Reading, Cfg)
  BY <1>1, <1>4
<1>7. (next * next) * use <= budget
  <2> HIDE DEF next
  <2> QED  BY <1>3, <1>5, <1>6, IdealIsDownwardClosed
<1>8. budget < (next * next) * due /\ mspt >= TickCost(players, sim)
  BY <1>1, <1>4 DEF NoRoomAt
<1>9. due <= use /\ due \in Nat /\ use \in Nat /\ budget \in Int /\ next * next \in Nat
  BY <1>1, <1>6, <1>8, ProductMonotone, ProductType
<1> HIDE DEF use, due, budget
<1>10. (next * next) * due <= (next * next) * use
  <2> DEFINE square == next * next
  <2>1. square \in Nat
    BY <1>9
  <2> HIDE DEF square, next
  <2>2. due * square <= use * square
    BY <1>9, <2>1, ProductMonotone
  <2>3. due * square = square * due /\ use * square = square * use
    BY <1>9, <2>1
  <2>4. square * due <= square * use
    BY <2>2, <2>3
  <2> QED  BY <2>4 DEF square
<1>11. (next * next) * due \in Int /\ (next * next) * use \in Int
  BY <1>9, ProductType
<1> QED  BY <1>7, <1>8, <1>9, <1>10, <1>11

LEMMA StabilityStep ==
    ASSUME TypeOK, StabilityInv, [Next]_vars
    PROVE  StabilityInv'
<1>1. CASE PlayersChange \/ CostChanges
  BY <1>1 DEF PlayersChange, CostChanges, StabilityInv
<1>2. CASE HostChanges \/ WindowTurns \/ PollOnly \/ PollApplyFails \/ UNCHANGED vars
  <2>1. /\ UNCHANGED <<players, cost, peak, sim, lastMove>>
        /\ mspt' = mspt \/ mspt' = TickCost(players, sim)
    BY <1>2 DEF HostChanges, WindowTurns, PollOnly, PollApplyFails, NothingSet,
       worldVars, companionVars, historyVars, vars
  <2>2. TickCost(players, sim)' = TickCost(players, sim) /\ TickCost(players, sim) \in Nat
    BY <2>1, PriceFacts, ReadingFacts DEF TickCost
  <2>3. FitsAt(sim)' = FitsAt(sim) /\ NoRoomAt(sim)' = NoRoomAt(sim)
    BY <2>1 DEF FitsAt, NoRoomAt, Heads, TickCost
  <2>4. mspt <= TickCost(players, sim) => mspt' <= TickCost(players, sim)
    BY <2>1, <2>2
  <2>5. mspt >= TickCost(players, sim) => mspt' >= TickCost(players, sim)
    BY <2>1, <2>2
  <2> HIDE <1>2
  <2> QED  BY <2>1, <2>2, <2>3, <2>4, <2>5 DEF StabilityInv
<1>3. CASE PollApplies \/ PollApplyTimesOut
  <2>1. /\ sim' = Decision.sim /\ UNCHANGED <<players, cost, peak, mspt>>
        /\ lastMove' = IF Current /\ mspt < Cfg.panic THEN Decision.action ELSE "none"
        /\ Decision.action # "hold"
    BY <1>3 DEF PollApplies, PollApplyTimesOut, DistancesSet, ToApply, worldVars
  <2>2. /\ FitsAt(sim)' = FitsAt(sim') /\ NoRoomAt(sim)' = NoRoomAt(sim')
        /\ TickCost(players, sim)' = TickCost(players, sim')
    BY <2>1 DEF FitsAt, NoRoomAt, Heads, TickCost
  <2>3. /\ sim' \in Cfg.minSim .. Cfg.maxSim /\ sim' \in Nat \ {0}
        /\ \/ Decision.action = "lower" /\ Cut(Reading, Cfg, sim')
           \/ Decision.action = "raise" /\ Raise(Reading, Cfg, sim')
    <3>1. sim' \in Cfg.minSim .. Cfg.maxSim
      BY <2>1, DecisionForms
    <3>2. sim' \in Nat \ {0}
      BY <3>1, ReadingFacts
    <3> QED  BY <2>1, <3>1, <3>2, DecisionForms
  <2>4. ASSUME lastMove' = "raise"
        PROVE  sim' <= Cfg.minSim \/ (FitsAt(sim') /\ mspt <= TickCost(players, sim'))
    <3>1. Current /\ Raise(Reading, Cfg, sim')
      BY <2>1, <2>3, <2>4
    <3>2. sim' <= Cfg.minSim \/ sim' > Cfg.minSim
      BY <2>3, ReadingFacts
    <3> QED  BY <2>3, <3>1, <3>2, AfterRaise
  <2>5. ASSUME lastMove' = "lower"
        PROVE  /\ sim' >= Cfg.minSim
               /\ sim' >= Cfg.maxSim \/ (NoRoomAt(sim') /\ mspt >= TickCost(players, sim'))
    <3>1. Current /\ mspt < Cfg.panic /\ Cut(Reading, Cfg, sim')
      BY <2>1, <2>3, <2>5
    <3>2. sim' >= Cfg.minSim /\ (sim' >= Cfg.maxSim \/ sim' < Cfg.maxSim)
      BY <2>3, ReadingFacts
    <3> QED  BY <2>3, <3>1, <3>2, AfterCut
  <2> QED  BY <2>1, <2>2, <2>4, <2>5 DEF StabilityInv
<1> QED  BY <1>1, <1>2, <1>3 DEF Next

(* "So it never yo-yos": with a panic threshold above the target, for any  *)
(* costs, steps, deadband and debounce, and however late the readings are, *)
(* a raise made on a current reading is not taken back, and a cut short of *)
(* panic is not undone, until players or costs change.                     *)
THEOREM NeverYoYo ==
    ASSUME Cfg.target < Cfg.panic
    PROVE  Spec => NoYoYo
<1>1. Init => StabilityInv
  BY DEF Init, StabilityInv
<1>2. TypeOK /\ StabilityInv /\ [Next]_vars => StabilityInv'
  BY StabilityStep
<1>3. ASSUME TypeOK, StabilityInv, [Next]_vars
      PROVE  [/\ sim' < sim => lastMove # "raise"
              /\ sim' > sim => lastMove # "lower"]_vars
  <2>1. ASSUME sim' # sim
        PROVE  /\ sim' < sim => lastMove # "raise"
               /\ sim' > sim => lastMove # "lower"
    <3>1. /\ sim' \in Cfg.minSim .. Cfg.maxSim
          /\ \/ Cut(Reading, Cfg, sim') /\ sim' < sim
             \/ Raise(Reading, Cfg, sim') /\ sim' > sim
      BY <1>3, <2>1, SimChanges
    <3>2. sim' \in Int /\ sim \in Int /\ sim' >= Cfg.minSim /\ Cfg.minSim \in Int
      BY <1>3, <3>1, ReadingFacts
    <3>3. ASSUME lastMove = "raise", sim' < sim
          PROVE  FALSE
      <4>1. Cut(Reading, Cfg, sim') /\ ~ (sim <= Cfg.minSim)
        BY <3>1, <3>2, <3>3
      <4>2. FitsAt(sim) /\ mspt <= TickCost(players, sim)
        BY <1>3, <3>3, <4>1 DEF StabilityInv
      <4> QED  BY <1>3, <4>1, <4>2, NoCutAfterRaise
    <3>4. ASSUME lastMove = "lower", sim' > sim
          PROVE  FALSE
      <4>1. Raise(Reading, Cfg, sim')
        BY <3>1, <3>2, <3>4
      <4> QED  BY <1>3, <3>4, <4>1, NoRaiseAfterCut DEF StabilityInv
    <3> QED  BY <3>3, <3>4
  <2>2. sim' = sim => ~ (sim' < sim) /\ ~ (sim' > sim)
    BY <1>3, ReadingFacts
  <2> QED  BY <2>1, <2>2
<1> QED
  BY <1>1, <1>2, <1>3, LoopTypeInvariance, PTL DEF Spec, NoYoYo
=============================================================================
