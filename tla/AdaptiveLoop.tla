---------------------------- MODULE AdaptiveLoop ----------------------------
(***************************************************************************)
(* `tickwarden adaptive -apply` (cmdAdaptive in cmd/tickwarden/main.go):   *)
(* the loop that polls the companion, asks Decide, debounces raises and    *)
(* applies, closed over a world whose tick cost follows the measured model *)
(* of docs/DECISION_TREE.md, base + cost * players * sim^2.                *)
(*                                                                         *)
(* The question is the control loop's stability.  The companion publishes  *)
(* the mean over a window of 100 ticks, so a reading may be older than the *)
(* player count read with it.  One poll interval (10 s) is longer than     *)
(* the window (5 s at 20 TPS, 10 s at SlowMSPT), so between two polls the  *)
(* window turns over unless ticks are slower than SlowMSPT.  A reading is  *)
(* the old mean or the new one, never a mixture.                           *)
(***************************************************************************)
EXTENDS Adaptive

CONSTANTS
    Cfg,            \* adaptive.Config
    RaiseDebounce,  \* the -raise-debounce flag
    SlowMSPT,       \* tick time at which 100 ticks last one poll interval
    Base,           \* tick cost of an empty world
    Costs,          \* tick costs per player and unit of sim^2
    MaxPlayers,     \* bound on the players online
    InitialSims,    \* simulation distances the server may start with
    InitialViews    \* view distances the server may start with

ASSUME LoopAssumption ==
    /\ RaiseDebounce \in Nat \ {0}
    /\ SlowMSPT \in Nat /\ Base \in Nat /\ MaxPlayers \in Nat
    /\ Costs \subseteq Nat
    /\ InitialSims \subseteq Nat \ {0} /\ InitialViews \subseteq Nat \ {0}
    /\ Cfg \in ConfigType /\ 0 < Cfg.minSim /\ Cfg.minSim <= Cfg.maxSim

VARIABLES
    \* the world
    players, cost, starved,
    \* the companion: what /tps serves
    peak, mspt, sim, view,
    turned,         \* the tick window turned over since the latest poll
    \* the loop
    raiseStreak,
    \* history
    lastMove,       \* the latest move in this world, made on a current reading
    sinceRaise,     \* decisions since the latest raise, up to RaiseDebounce
    unanswered      \* the latest raise took effect though its apply failed, and
                    \* every decision since has asked for a raise

worldVars == <<players, cost>>
companionVars == <<peak, mspt, sim, view, turned>>
historyVars == <<lastMove, sinceRaise, unanswered>>
vars == <<worldVars, starved, companionVars, raiseStreak, historyVars>>

TickCost(p, d) == Base + cost * p * d * d

\* The reading is that of the world and the distance of this moment.
Current == mspt = TickCost(players, sim)

TypeOK ==
    /\ players \in 0 .. MaxPlayers
    /\ cost \in Costs
    /\ starved \in BOOLEAN
    /\ peak \in players .. MaxPlayers
    /\ mspt \in Nat /\ view \in Nat
    /\ sim \in InitialSims \cup (Cfg.minSim .. Cfg.maxSim)
    /\ turned \in BOOLEAN
    /\ raiseStreak \in 0 .. RaiseDebounce
    /\ lastMove \in Actions \cup {"none"}
    /\ sinceRaise \in 0 .. RaiseDebounce
    /\ unanswered \in BOOLEAN

\* The controller comes to a server that has been up: its window is current.
Init ==
    /\ players \in 0 .. MaxPlayers
    /\ cost \in Costs
    /\ starved = FALSE
    /\ peak \in players .. MaxPlayers
    /\ sim \in InitialSims
    /\ view \in InitialViews
    /\ mspt = TickCost(players, sim)
    /\ turned = TRUE
    /\ raiseStreak = 0
    /\ lastMove = "none"
    /\ sinceRaise = RaiseDebounce
    /\ unanswered = FALSE

-----------------------------------------------------------------------------
(* The world (external) *)

\* recordTick publishes the player count and its high-water mark every tick.
PlayersChange ==
    /\ players' \in {players - 1, players + 1} \cap (0 .. MaxPlayers)
    /\ peak' = Larger(peak, players')
    /\ lastMove' = "none"
    /\ UNCHANGED <<cost, starved, mspt, sim, view, turned, raiseStreak, sinceRaise, unanswered>>

CostChanges ==
    /\ cost' \in Costs \ {cost}
    /\ lastMove' = "none"
    /\ UNCHANGED <<players, starved, companionVars, raiseStreak, sinceRaise, unanswered>>

HostChanges ==
    /\ starved' = ~starved
    /\ UNCHANGED <<worldVars, companionVars, raiseStreak, historyVars>>

\* recordTick: the window now holds ticks of the present world only.
WindowTurns ==
    /\ ~turned \/ ~Current
    /\ mspt' = TickCost(players, sim)
    /\ turned' = TRUE
    /\ UNCHANGED <<worldVars, starved, peak, sim, view, raiseStreak, historyVars>>

-----------------------------------------------------------------------------
(* The loop *)

Reading ==
    [players |-> players, peak |-> peak, mspt |-> mspt, sim |-> sim, view |-> view,
     starved |-> starved, stalled |-> FALSE, pressed |-> FALSE]

Decision == Decide(Reading, Cfg)

\* Bug form of Streak: it starts over when it reaches the threshold, before
\* it is compared with it.
StreakResetAtThreshold(action) ==
    IF action = "raise" /\ raiseStreak + 1 < RaiseDebounce THEN raiseStreak + 1 ELSE 0

\* The debounce counter after a decision (it is only compared with
\* RaiseDebounce, so it is counted up to there).
Streak(action) ==
    IF action # "raise" THEN 0
    ELSE IF raiseStreak < RaiseDebounce THEN raiseStreak + 1 ELSE RaiseDebounce

PollDue == turned \/ mspt > SlowMSPT

Counted == IF sinceRaise < RaiseDebounce THEN sinceRaise + 1 ELSE RaiseDebounce

\* The distances stay as they are.
NothingSet ==
    /\ turned' = FALSE
    /\ sinceRaise' = Counted
    /\ unanswered' = (unanswered /\ Decision.action = "raise")
    /\ UNCHANGED <<worldVars, starved, peak, mspt, sim, view, lastMove>>

\* One poll up to the decision, when nothing is to be applied: a hold, or a
\* raise still pending.  A poll whose read failed changes nothing at all.
PollOnly ==
    /\ PollDue
    /\ \/ Decision.action = "hold"
       \/ Decision.action = "raise" /\ Streak("raise") < RaiseDebounce
    /\ raiseStreak' = Streak(Decision.action)
    /\ NothingSet

ToApply ==
    /\ PollDue
    /\ Decision.action # "hold"
    /\ Decision.action = "raise" => Streak("raise") >= RaiseDebounce

\* The companion has set both distances by the time of the next poll.
DistancesSet ==
    /\ sim' = Decision.sim
    /\ view' = Decision.view
    /\ turned' = FALSE
    /\ lastMove' = IF Current /\ mspt < Cfg.panic THEN Decision.action ELSE "none"
    /\ sinceRaise' = IF Decision.action = "raise" THEN 0 ELSE Counted
    /\ UNCHANGED <<worldVars, starved, peak, mspt>>

\* Bug form of PollApplies: an applied raise does not start the streak over.
PollAppliesKeepingStreak ==
    /\ ToApply
    /\ DistancesSet
    /\ raiseStreak' = Streak(Decision.action)
    /\ unanswered' = FALSE

\* applyDistance succeeds: the streak starts over.
PollApplies ==
    /\ ToApply
    /\ DistancesSet
    /\ raiseStreak' = 0
    /\ unanswered' = FALSE

\* applyDistance fails, refused or never delivered: logged, and the streak
\* stays where it is.
PollApplyFails ==
    /\ ToApply
    /\ raiseStreak' = Streak(Decision.action)
    /\ NothingSet

\* applyDistance gives up after 3 s on a setter the companion had handed to
\* the server thread: it runs all the same, but to the loop the apply failed.
PollApplyTimesOut ==
    /\ ToApply
    /\ DistancesSet
    /\ raiseStreak' = Streak(Decision.action)
    /\ unanswered' = (Decision.action = "raise")

-----------------------------------------------------------------------------
Next ==
    \/ PlayersChange \/ CostChanges \/ HostChanges \/ WindowTurns
    \/ PollOnly \/ PollApplies \/ PollApplyFails \/ PollApplyTimesOut

(***************************************************************************)
(* Fairness: ticks go on and the ticker fires (WF).  An apply the loop     *)
(* keeps asking for is not refused every time (SF): the companion is a     *)
(* local endpoint whose failures are transient.                            *)
(***************************************************************************)
Spec ==
    /\ Init /\ [][Next]_vars
    /\ WF_vars(WindowTurns)
    /\ WF_vars(PollOnly \/ PollApplies \/ PollApplyFails \/ PollApplyTimesOut)
    /\ SF_vars(PollApplies)

-----------------------------------------------------------------------------
(* Properties *)

(* SIM FLOORS and ASYMMETRIC ramps (adaptive.go:9-11): every move lands in *)
(* the configured range, up by MaxStepUp at most or onto the floor, down by *)
(* MaxStepDown at most unless it panics or comes from above the ceiling.   *)
RampsAreBounded ==
    [][sim' # sim =>
        /\ sim' \in Cfg.minSim .. Cfg.maxSim
        /\ sim' > sim => sim' <= sim + Cfg.maxStepUp \/ sim' = Cfg.minSim
        /\ sim' < sim => \/ sim' >= sim - Cfg.maxStepDown
                         \/ mspt >= Cfg.panic
                         \/ sim > Cfg.maxSim]_vars

(* "So it never yo-yos": while the world stays as it is, a raise is not    *)
(* taken back and a cut short of panic is not undone.                      *)
NoYoYo ==
    [][/\ sim' < sim => lastMove # "raise"
       /\ sim' > sim => lastMove # "lower"]_vars

(* The debounce as seen from outside: a raise comes at least RaiseDebounce *)
(* decisions after the one before it, whatever applies were refused in     *)
(* between.  One kind of raise alone may follow sooner: that after a raise *)
(* whose apply timed out, and only while every decision asks for it.       *)
RaisesAreSpaced ==
    [][sim' > sim => Counted >= RaiseDebounce \/ unanswered]_vars

(* "The distance is already peak-safe and a join doesn't trigger a cut"    *)
(* (adaptive.go:197-203): a join within the recorded peak does not turn a  *)
(* world within budget into one over it.                                   *)
JoinsForceNoCut ==
    [][players' = players + 1 /\ players > 0 /\ peak' = peak
        => LET before == [Reading EXCEPT !.mspt = TickCost(players, sim)]
               after == [before EXCEPT !.players = players + 1,
                                       !.mspt = TickCost(players + 1, sim)]
           IN ~OverBudget(before, Cfg) => ~OverBudget(after, Cfg)]_vars

\* From some time on: the same players and costs, someone on, host not starved.
Steady == <>[][FALSE]_worldVars /\ <>[](players > 0 /\ ~starved)

\* The reading the companion will publish if nothing changes any more.
Due == [Reading EXCEPT !.mspt = TickCost(players, sim)]

AtRest == sim <= Cfg.minSim \/ ~OverBudget(Due, Cfg)

NothingToSpend ==
    \/ sim >= Cfg.maxSim
    \/ ~Comfortable(Due, Cfg)
    \/ sim >= Cfg.minSim /\ ~AtMostIdeal(Due, Cfg, sim + 1)

(* A steady world comes to rest within its budget or on the floor.         *)
SettlesWithinBudget == Steady => <>[]AtRest

(* A steady world with headroom is given it: it comes to rest where one    *)
(* step more is over the ceiling, out of the comfort zone or past target.  *)
HeadroomIsSpent == Steady => <>[]NothingToSpend
=============================================================================
