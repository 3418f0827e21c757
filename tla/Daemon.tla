------------------------------- MODULE Daemon -------------------------------
(***************************************************************************)
(* `tickwarden daemon`: the loop of internal/daemon/daemon.go, the store   *)
(* it shares with the web control plane (store.go, web.go), operators who  *)
(* edit the live knobs, and the companion's distance setter, whose work is *)
(* handed to the Minecraft server thread.                                  *)
(*                                                                         *)
(* A step of the loop has three instants the others can come between: it   *)
(* copies the knobs, it reads the companion and decides, it applies.  An   *)
(* edit has two: it copies the knobs, it writes the whole set back.        *)
(***************************************************************************)
EXTENDS Adaptive

CONSTANTS
    Operators,      \* control-plane clients
    Patches,        \* the bodies they POST: records with some fields of a knob set
    StartKnobs,     \* what Config.knobs() may be: flags and config, unchecked
    Defaults,       \* adaptive.DefaultConfig()
    RaiseDebounce,  \* Config.RaiseDebounce
    MaxDecisions,   \* maxDecisions: the length of the history ring
    Lowest, Highest,\* the engine's distances: 2 and 32
    TickBudget,     \* 50 ms
    Readings,       \* what /tps may say of the load: players, peak, mspt
    StartSim, StartView,    \* the distances of server.properties
    MaxAsks,        \* bound: setter calls waiting for the server thread
    MaxRestarts     \* bound: restarts of the Minecraft server

VARIABLES
    \* Store
    knobs,          \* the live knobs
    decisions,      \* the history ring, newest first
    status,         \* Status.OK of the latest step, "none" before the first
    \* the control plane
    edits,          \* per operator: the edit in progress, or NoEdit
    \* the loop
    pc,             \* "idle", "fetch", "decide" or "apply"
    k,              \* step's copy of the knobs
    st,             \* the adaptive.State it is deciding on
    plan,           \* the decision it is applying
    raises,         \* the debounce counter, counted up to RaiseDebounce
    lastHold,       \* lastHoldReason
    \* the companion and its server
    sim, view,      \* the distances in force
    asks,           \* setter calls handed to the server thread, oldest first
    pressed,        \* the cgroup is short of memory
    restarts,       \* restarts so far
    \* history
    doubt           \* the latest setter call timed out, or the server restarted since

storeVars == <<knobs, decisions, status>>
loopVars == <<pc, k, st, plan, raises, lastHold>>
serverVars == <<sim, view, asks>>
vars == <<storeVars, edits, loopVars, serverVars, pressed, restarts, doubt>>

Distances == Lowest .. Highest
KnobSets == [target : Int, minSim : Int, maxSim : Int, maxView : Int,
             starvePSI : Int, gcStallPct : Int, memPressurePct : Int, apply : BOOLEAN]

\* What the JSON decoder lets through for a field of the body.
FieldType(f) == IF f = "apply" THEN BOOLEAN ELSE Int

NoKnobs == [none |-> "no knobs"]
NoState == [none |-> "no state"]
NoPlan == [none |-> "no plan"]
NoEdit == [none |-> "no edit"]
NoReason == <<>>

-----------------------------------------------------------------------------
(* Pure parts *)

\* validateKnobs
ValidKnobs(ks) ==
    /\ ks.target > 0 /\ ks.target <= TickBudget
    /\ ks.minSim >= Lowest /\ ks.maxSim <= Highest /\ ks.minSim <= ks.maxSim
    /\ ks.maxView \in Distances
    /\ {ks.starvePSI, ks.gcStallPct, ks.memPressurePct} \subseteq 0 .. 100

\* cmdDaemon puts flags and config in the store as they are; only the view
\* distance's ceiling has neither and is the default.
ASSUME DaemonAssumption ==
    /\ StartKnobs \subseteq KnobSets
    /\ \A ks \in StartKnobs : ks.maxView \in Distances
    /\ RaiseDebounce \in Nat \ {0}
    /\ MaxDecisions \in Nat \ {0} /\ MaxAsks \in Nat \ {0} /\ MaxRestarts \in Nat
    /\ Lowest \in Nat /\ Highest \in Nat /\ TickBudget \in Nat
    /\ StartSim \in Distances /\ StartView \in Distances
    /\ Defaults \in ConfigType /\ Defaults.minView \in Distances
    /\ Readings \subseteq [players : Int, peak : Int, mspt : Int]
    /\ \A patch \in Patches : \A f \in DOMAIN patch : patch[f] \in FieldType(f)

\* adaptiveConfigFor
ConfigFor(ks) ==
    [Defaults EXCEPT !.target = ks.target, !.minSim = ks.minSim, !.maxSim = ks.maxSim,
                     !.maxView = ks.maxView, !.memGate = ks.memPressurePct > 0]

\* The POST handler's merge: only the fields present in the body change.
Merge(patch, ks) ==
    [f \in DOMAIN ks |-> IF f \in DOMAIN patch THEN patch[f] ELSE ks[f]]

\* clampDist of the companion
ClampDist(d) == Clamp(d, Lowest, Highest)

\* Bug form of Recorded: the ring is not trimmed.
RecordedUntrimmed(record) == <<record>> \o decisions

\* Bug form of Recorded: the newest decision goes to the end.
RecordedLast(record) ==
    IF Len(decisions) < MaxDecisions THEN Append(decisions, record) ELSE decisions

\* AddDecision: prepend, and trim to MaxDecisions.
Recorded(record) ==
    LET all == <<record>> \o decisions
    IN IF Len(all) > MaxDecisions THEN SubSeq(all, 1, MaxDecisions) ELSE all

HoldRecord(d) == [action |-> "hold", why |-> d.why, applied |-> FALSE]
MoveRecord(d, applied) ==
    [action |-> d.action, sim |-> d.sim, view |-> d.view, applied |-> applied]

-----------------------------------------------------------------------------
TypeOK ==
    /\ knobs \in KnobSets
    /\ Len(decisions) <= MaxDecisions
    /\ \A i \in DOMAIN decisions : decisions[i].action \in Actions
    /\ status \in {"none", "failed", "ok"}
    /\ DOMAIN edits = Operators
    /\ pc \in {"idle", "fetch", "decide", "apply"}
    /\ k = NoKnobs <=> pc = "idle"
    /\ st = NoState <=> pc \in {"idle", "fetch"}
    /\ plan = NoPlan <=> pc # "apply"
    /\ raises \in 0 .. RaiseDebounce
    /\ sim \in Distances /\ view \in Distances
    /\ Len(asks) <= MaxAsks
    /\ pressed \in BOOLEAN /\ doubt \in BOOLEAN
    /\ restarts \in 0 .. MaxRestarts

Init ==
    /\ knobs \in StartKnobs
    /\ decisions = <<>>
    /\ status = "none"
    /\ edits = [o \in Operators |-> NoEdit]
    /\ pc = "idle"
    /\ k = NoKnobs
    /\ st = NoState
    /\ plan = NoPlan
    /\ raises = 0
    /\ lastHold = NoReason
    /\ sim = StartSim /\ view = StartView
    /\ asks = <<>>
    /\ pressed \in BOOLEAN
    /\ restarts = 0
    /\ doubt = FALSE

-----------------------------------------------------------------------------
(* The control plane: POST /api/config *)

\* Bug form of ReadKnobs: the body is checked against the knobs at start.
ReadKnobsCheckedAtStart(o) ==
    /\ edits[o] = NoEdit
    /\ \E patch \in Patches :
         /\ \E ks \in StartKnobs : ValidKnobs(Merge(patch, ks))
         /\ edits' = [edits EXCEPT ![o] = [patch |-> patch, merged |-> Merge(patch, knobs)]]
    /\ UNCHANGED <<storeVars, loopVars, serverVars, pressed, restarts, doubt>>

\* The handler copies the knobs and merges; an invalid result is answered 400.
ReadKnobs(o) ==
    /\ edits[o] = NoEdit
    /\ \E patch \in Patches :
         /\ ValidKnobs(Merge(patch, knobs))
         /\ edits' = [edits EXCEPT ![o] = [patch |-> patch, merged |-> Merge(patch, knobs)]]
    /\ UNCHANGED <<storeVars, loopVars, serverVars, pressed, restarts, doubt>>

\* SetKnobs: the whole set is replaced.
WriteKnobs(o) ==
    /\ edits[o] # NoEdit
    /\ knobs' = edits[o].merged
    /\ edits' = [edits EXCEPT ![o] = NoEdit]
    /\ UNCHANGED <<decisions, status, loopVars, serverVars, pressed, restarts, doubt>>

-----------------------------------------------------------------------------
(* The loop *)

\* Bug form of KnobsForStep: knobs the daemon was started with.
KnobsForStepAtStart == CHOOSE ks \in StartKnobs : ks.apply

\* "fresh every step: the control plane may have changed them"
KnobsForStep == knobs

Begin ==
    /\ pc = "idle"
    /\ pc' = "fetch"
    /\ k' = KnobsForStep
    /\ UNCHANGED <<storeVars, edits, st, plan, raises, lastHold, serverVars, pressed,
                   restarts, doubt>>

FetchFails ==
    /\ pc = "fetch"
    /\ status' = "failed"
    /\ pc' = "idle"
    /\ k' = NoKnobs
    /\ UNCHANGED <<knobs, decisions, edits, st, plan, raises, lastHold, serverVars,
                   pressed, restarts, doubt>>

\* The snapshot and the gates: whatever the load and the two MSPT gates say (a
\* gate that is off never fires), with the memory gate reading the cgroup.
Fetch ==
    /\ pc = "fetch"
    /\ pc' = "decide"
    /\ \E r \in Readings, starved \in {FALSE, k.starvePSI > 0},
          stalled \in {FALSE, k.gcStallPct > 0} :
         st' = [players |-> r.players, peak |-> r.peak, mspt |-> r.mspt,
                sim |-> sim, view |-> view, starved |-> starved, stalled |-> stalled,
                pressed |-> pressed /\ k.memPressurePct > 0]
    /\ status' = "ok"
    /\ UNCHANGED <<knobs, decisions, edits, k, plan, raises, lastHold, serverVars,
                   pressed, restarts, doubt>>

Decision == Decide(st, ConfigFor(k))

Streak == IF raises < RaiseDebounce THEN raises + 1 ELSE RaiseDebounce

EndStep == pc' = "idle" /\ k' = NoKnobs /\ st' = NoState /\ plan' = NoPlan

\* Bug form of ReasonAfterPending: a pending raise forgets the latest hold.
ReasonAfterPendingForgotten == NoReason

\* lastHoldReason after a pending raise
ReasonAfterPending == lastHold

RaisePending ==
    /\ pc = "decide"
    /\ Decision.action = "raise" /\ Streak < RaiseDebounce
    /\ raises' = Streak
    /\ lastHold' = ReasonAfterPending
    /\ EndStep
    /\ UNCHANGED <<storeVars, edits, serverVars, pressed, restarts, doubt>>

HoldDecided ==
    /\ pc = "decide"
    /\ Decision.action = "hold"
    /\ raises' = 0
    /\ lastHold' = Decision.why
    /\ decisions' = IF Decision.why = lastHold THEN decisions
                                              ELSE Recorded(HoldRecord(Decision))
    /\ EndStep
    /\ UNCHANGED <<knobs, status, edits, serverVars, pressed, restarts, doubt>>

\* Bug form of ReasonAfterMove: lastHoldReason outlives the move.
ReasonAfterMoveKept == lastHold

\* lastHoldReason after a decision to move
ReasonAfterMove == NoReason

\* A decision to move: recorded at once in dry-run, applied otherwise.
MoveDecided ==
    /\ pc = "decide"
    /\ \/ Decision.action = "lower" /\ raises' = 0
       \/ Decision.action = "raise" /\ Streak >= RaiseDebounce /\ raises' = Streak
    /\ lastHold' = ReasonAfterMove
    /\ IF k.apply
         THEN /\ pc' = "apply"
              /\ plan' = Decision
              /\ UNCHANGED <<decisions, k, st>>
         ELSE /\ decisions' = Recorded(MoveRecord(Decision, FALSE))
              /\ EndStep
    /\ UNCHANGED <<knobs, status, edits, serverVars, pressed, restarts, doubt>>

\* /setdistance was answered 200: the setter waits for the server thread.
ApplySucceeds ==
    /\ pc = "apply"
    /\ Len(asks) < MaxAsks
    /\ asks' = Append(asks, [sim |-> plan.sim, view |-> plan.view])
    /\ raises' = 0
    /\ decisions' = Recorded(MoveRecord(plan, TRUE))
    /\ doubt' = FALSE
    /\ EndStep
    /\ UNCHANGED <<knobs, status, edits, lastHold, sim, view, pressed, restarts>>

\* The call was refused or never got there.
ApplyRefused ==
    /\ pc = "apply"
    /\ decisions' = Recorded(MoveRecord(plan, FALSE))
    /\ EndStep
    /\ UNCHANGED <<knobs, status, edits, raises, lastHold, serverVars, pressed,
                   restarts, doubt>>

\* The client gave up after 3 s, but the setter had been handed over.
ApplyTimesOut ==
    /\ pc = "apply"
    /\ Len(asks) < MaxAsks
    /\ asks' = Append(asks, [sim |-> plan.sim, view |-> plan.view])
    /\ decisions' = Recorded(MoveRecord(plan, FALSE))
    /\ doubt' = TRUE
    /\ EndStep
    /\ UNCHANGED <<knobs, status, edits, raises, lastHold, sim, view, pressed, restarts>>

-----------------------------------------------------------------------------
(* The companion's server *)

\* The server thread runs the oldest setter.
SetDistance ==
    /\ asks # <<>>
    /\ view' = ClampDist(Head(asks).view)
    /\ sim' = ClampDist(Head(asks).sim)
    /\ asks' = Tail(asks)
    /\ UNCHANGED <<storeVars, edits, loopVars, pressed, restarts, doubt>>

\* The Minecraft server restarts: setters not run yet are lost, and the
\* distances are those of server.properties again.
ServerRestarts ==
    /\ restarts < MaxRestarts
    /\ restarts' = restarts + 1
    /\ asks' = <<>>
    /\ sim' = StartSim /\ view' = StartView
    /\ doubt' = TRUE
    /\ UNCHANGED <<storeVars, edits, loopVars, pressed>>

MemoryChanges ==
    /\ pressed' = ~pressed
    /\ UNCHANGED <<storeVars, edits, loopVars, serverVars, restarts, doubt>>

-----------------------------------------------------------------------------
Decides == RaisePending \/ HoldDecided \/ MoveDecided
Applies == ApplySucceeds \/ ApplyRefused \/ ApplyTimesOut

Loop == Begin \/ Fetch \/ FetchFails \/ Decides \/ Applies

Next ==
    \/ \E o \in Operators : ReadKnobs(o) \/ WriteKnobs(o)
    \/ Loop
    \/ SetDistance \/ ServerRestarts \/ MemoryChanges

Spec == Init /\ [][Next]_vars

(***************************************************************************)
(* Fairness: the ticker fires, every call of the loop has a timeout, and   *)
(* the server thread gets to what it was handed (WF); the companion is not *)
(* unreachable every single time (SF).  A step never stops at "decide",    *)
(* where one action of Decides is always enabled.                          *)
(***************************************************************************)
Fairness ==
    /\ WF_vars(Begin)
    /\ WF_vars(Fetch \/ FetchFails)
    /\ WF_pc(pc = "decide" /\ pc' \in {"idle", "apply"})
    /\ WF_vars(Applies)
    /\ WF_vars(SetDistance)
    /\ SF_vars(Fetch)
    /\ SF_vars(ApplySucceeds)

FairSpec == Spec /\ Fairness

-----------------------------------------------------------------------------
(* Properties *)

(* The daemon may have been started with any knobs, but what an edit puts  *)
(* in force passes validateKnobs in every part, whatever bodies are posted *)
(* and however edits meet: sets are validated merged and written whole.    *)
KnobsStayValid == [][knobs' # knobs => ValidKnobs(knobs')]_vars

\* Place i of the history holds the newest record marked Applied.
NewestApplied(i) ==
    decisions[i].applied /\ \A j \in 1 .. i - 1 : ~decisions[j].applied

(* The history explains the server: with no setter under way and no call   *)
(* in doubt, the newest record marked Applied is what the server runs, up  *)
(* to the engine's limits (knobs the daemon was started with may pass them). *)
HistoryExplainsDistance ==
    asks = <<>> /\ ~doubt =>
        \A i \in DOMAIN decisions :
            NewestApplied(i) => /\ sim = ClampDist(decisions[i].sim)
                                /\ view = decisions[i].view

(* "A quiet hour is one entry, not 360": no two neighbours in the history  *)
(* are holds for the same reason.                                          *)
HoldsCollapse ==
    \A i \in 1 .. Len(decisions) - 1 :
        ~ /\ decisions[i].action = "hold"
          /\ decisions[i] = decisions[i + 1]

(* And nothing else is swallowed: after a step that held, the history      *)
(* starts with that hold and its reason.                                   *)
HistoryShowsTheHold ==
    [][pc = "decide" /\ pc' # "decide" /\ Decision.action = "hold"
         => decisions' # <<>> /\ decisions'[1] = HoldRecord(Decision)]_vars

(* Every setter the server thread is handed keeps to the bounds its step   *)
(* began with, even if they changed since, and none repeats the distances  *)
(* that step had read: a hold, clamped to the bounds or not, is never      *)
(* sent.  (Bounds that cross, at start, leave no distance to keep to.)     *)
AsksWithinBounds ==
    [][Len(asks') > Len(asks)
         => LET ask == asks'[Len(asks')]
            IN /\ k.apply
               /\ k.minSim <= k.maxSim => ask.sim \in k.minSim .. k.maxSim
               /\ ask.view \in Distances
               /\ ask # [sim |-> st.sim, view |-> st.view]]_vars

(* Taking `apply` away stops the loop's hand: once it stays off, no setter *)
(* is on its way any more.                                                 *)
DryRunComesToRest ==
    <>[](~knobs.apply) => <>[](asks = <<>> /\ pc # "apply")

\* The view distance that belongs to the simulation distance the knobs allow.
FloorInForce ==
    ViewFloor(Clamp(sim, knobs.minSim, knobs.maxSim), ConfigFor(knobs))

(* Memory pressure that lasts is answered, whatever the load, the host and *)
(* the collector do meanwhile: view comes down to its floor.  The floor is *)
(* that of the clamped simulation distance, which differs from the one in  *)
(* force while the loop only holds after an edit of the bounds.            *)
MemoryReliefArrives ==
    <>[](pressed /\ knobs.memPressurePct > 0 /\ knobs.apply) => []<>(view <= FloorInForce)

(* "Only the fields present in the body change" (web.go:144).              *)
EditChangesItsFieldsOnly ==
    [][\A o \in Operators : edits[o] # NoEdit /\ edits'[o] = NoEdit
         => \A f \in DOMAIN knobs :
                f \notin DOMAIN edits[o].patch => knobs'[f] = knobs[f]]_vars
=============================================================================
