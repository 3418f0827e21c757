---------------------------- MODULE DaemonProofs ----------------------------
(***************************************************************************)
(* Proofs about Daemon, for any number of operators, any bodies they POST, *)
(* any load, any configured distances and any length of the history.       *)
(***************************************************************************)
EXTENDS Daemon, AdaptiveProofs, SequenceTheorems

(***************************************************************************)
(* WriteKnobs installs a set that was validated some steps earlier,        *)
(* against knobs that may have been replaced since.  What makes it safe is *)
(* that the set is written whole, so the invariant says of every edit      *)
(* under way that what it will write is valid.  The knobs in force need    *)
(* not be (the daemon may have been started with any), but they are always *)
(* usable: integers, with a ceiling for the view the engine knows.         *)
(***************************************************************************)
Valid(ks) == ks \in KnobSets /\ ValidKnobs(ks)

Usable(ks) == ks \in KnobSets /\ ks.maxView \in Distances

EditsValid ==
    /\ edits = [o \in Operators |-> edits[o]]
    /\ \A o \in Operators : edits[o] # NoEdit => Valid(edits[o].merged)

KnobsInv == Usable(knobs) /\ EditsValid

LEMMA KnobsInit == Init => KnobsInv
<1> SUFFICES ASSUME Init
             PROVE  KnobsInv
  OBVIOUS
<1>1. Usable(knobs)
  BY DaemonAssumption DEF Init, Usable
<1>2. EditsValid
  BY DEF Init, EditsValid
<1> QED  BY <1>1, <1>2 DEF KnobsInv

(* A body merged into a knob set is a knob set again.                      *)
LEMMA MergeType ==
    ASSUME NEW patch \in Patches, NEW ks \in KnobSets
    PROVE  Merge(patch, ks) \in KnobSets
<1> DEFINE m == Merge(patch, ks)
           Fields == {"target", "minSim", "maxSim", "maxView",
                      "starvePSI", "gcStallPct", "memPressurePct", "apply"}
<1>1. DOMAIN ks = Fields /\ \A f \in Fields : ks[f] \in FieldType(f)
  BY DEF KnobSets, FieldType
<1>2. m = [f \in Fields |-> m[f]] /\ \A f \in Fields : m[f] \in FieldType(f)
  BY <1>1, DaemonAssumption DEF Merge
<1> HIDE DEF m
<1>3. /\ m["target"] \in Int /\ m["minSim"] \in Int
      /\ m["maxSim"] \in Int /\ m["maxView"] \in Int
      /\ m["starvePSI"] \in Int /\ m["gcStallPct"] \in Int
      /\ m["memPressurePct"] \in Int /\ m["apply"] \in BOOLEAN
  BY <1>2 DEF FieldType
<1>4. m \in KnobSets
  BY <1>2, <1>3 DEF KnobSets
<1> QED  BY <1>4 DEF m

(* An edit that starts was validated after its merge.                      *)
LEMMA ReadKeepsKnobs ==
    ASSUME KnobsInv, NEW o \in Operators, ReadKnobs(o)
    PROVE  KnobsInv'
<1>1. PICK patch \in Patches :
        /\ ValidKnobs(Merge(patch, knobs))
        /\ edits' = [edits EXCEPT ![o] = [patch |-> patch, merged |-> Merge(patch, knobs)]]
  BY DEF ReadKnobs
<1>2. knobs' = knobs
  BY DEF ReadKnobs, storeVars
<1> DEFINE new == Merge(patch, knobs)
<1>3. Valid(new)
  BY <1>1, MergeType DEF KnobsInv, Usable, Valid
<1> HIDE DEF new
<1>4. edits'[o].merged = new /\ \A p \in Operators \ {o} : edits'[p] = edits[p]
  BY <1>1 DEF KnobsInv, EditsValid, new
<1>5. edits' = [p \in Operators |-> edits'[p]]
  BY <1>1 DEF KnobsInv, EditsValid
<1>6. EditsValid'
  BY <1>3, <1>4, <1>5 DEF KnobsInv, EditsValid, Valid, ValidKnobs
<1>7. Usable(knobs)'
  BY <1>2 DEF KnobsInv, Usable
<1> QED  BY <1>6, <1>7 DEF KnobsInv

(* Writing an edit installs a set that was validated whole.                *)
LEMMA WriteKeepsKnobs ==
    ASSUME KnobsInv, NEW o \in Operators, WriteKnobs(o)
    PROVE  KnobsInv' /\ ValidKnobs(knobs')
<1>1. /\ edits[o] # NoEdit /\ knobs' = edits[o].merged
      /\ edits' = [edits EXCEPT ![o] = NoEdit]
  BY DEF WriteKnobs
<1>2. Usable(knobs)' /\ ValidKnobs(knobs')
  BY <1>1 DEF KnobsInv, EditsValid, Valid, Usable, ValidKnobs
<1>3. EditsValid'
  BY <1>1 DEF KnobsInv, EditsValid, Valid, ValidKnobs
<1> QED  BY <1>2, <1>3 DEF KnobsInv

LEMMA KnobsStep == KnobsInv /\ [Next]_vars => KnobsInv'
<1> SUFFICES ASSUME KnobsInv, [Next]_vars
             PROVE  KnobsInv'
  OBVIOUS
<1>1. ASSUME NEW o \in Operators, ReadKnobs(o)
      PROVE  KnobsInv'
  BY <1>1, ReadKeepsKnobs
<1>2. ASSUME NEW o \in Operators, WriteKnobs(o)
      PROVE  KnobsInv'
  BY <1>2, WriteKeepsKnobs
<1>3. CASE Loop \/ SetDistance \/ ServerRestarts \/ MemoryChanges \/ UNCHANGED vars
  <2>1. knobs' = knobs /\ edits' = edits
    BY <1>3 DEF Loop, Begin, Fetch, FetchFails, Decides, RaisePending, HoldDecided,
       MoveDecided, Applies, ApplySucceeds, ApplyRefused, ApplyTimesOut, SetDistance,
       ServerRestarts, MemoryChanges, storeVars, vars
  <2> QED  BY <2>1 DEF KnobsInv, EditsValid, Valid, Usable, ValidKnobs
<1> QED  BY <1>1, <1>2, <1>3 DEF Next

(* However edits of the knobs meet, whatever partial bodies are posted and *)
(* whatever the daemon was started with, an edit leaves knobs in force     *)
(* that pass validateKnobs.                                                *)
THEOREM KnobsAlwaysValid == Spec => KnobsStayValid
<1>1. ASSUME KnobsInv, [Next]_vars, knobs' # knobs
      PROVE  ValidKnobs(knobs')
  <2>1. PICK o \in Operators : WriteKnobs(o)
    BY <1>1 DEF Next, ReadKnobs, Loop, Begin, Fetch, FetchFails, Decides, RaisePending,
       HoldDecided, MoveDecided, Applies, ApplySucceeds, ApplyRefused, ApplyTimesOut,
       SetDistance, ServerRestarts, MemoryChanges, storeVars, vars
  <2> QED  BY <1>1, <2>1, WriteKeepsKnobs
<1> QED  BY <1>1, KnobsInit, KnobsStep, PTL DEF Spec, KnobsStayValid

-----------------------------------------------------------------------------
(***************************************************************************)
(* What the server is asked for.  The argument: a step decides on its own  *)
(* copy of the knobs, which stays what it is while the live ones change,   *)
(* Decide keeps to the copy's bounds (DecideWithinBounds), and what it     *)
(* does not hold differs from the distances it has read (MovesSomething).  *)
(***************************************************************************)
\* A setter's distances: any number for the one, the engine's for the other.
Ask == [sim : Int, view : Distances]

\* A simulation distance the step's knobs allow.
Allowed(n) == n \in Int /\ (k.minSim <= k.maxSim => n \in k.minSim .. k.maxSim)

LoopInv ==
    /\ pc \in {"idle", "fetch", "decide", "apply"}
    /\ sim \in Distances /\ view \in Distances
    /\ pressed \in BOOLEAN
    /\ asks \in Seq(Ask)
    /\ pc # "idle" => Usable(k)
    /\ pc \in {"decide", "apply"} => st \in StateType /\ st.view \in Distances
    /\ pc = "apply" => /\ k.apply /\ Allowed(plan.sim) /\ plan.view \in Distances
                       /\ plan.sim # st.sim \/ plan.view # st.view

(* A usable knob set makes a configuration Decide can do with.             *)
LEMMA ConfigForType ==
    ASSUME NEW ks, Usable(ks)
    PROVE  /\ ConfigFor(ks) \in ConfigType
           /\ ConfigFor(ks).minSim = ks.minSim /\ ConfigFor(ks).maxSim = ks.maxSim
           /\ ConfigFor(ks).minView \in Distances /\ ConfigFor(ks).maxView \in Distances
<1>1. ks \in KnobSets /\ ks.maxView \in Distances /\ Defaults \in ConfigType
      /\ Defaults.minView \in Distances
  BY DaemonAssumption DEF Usable
<1>2. /\ ks.target \in Int /\ ks.minSim \in Int /\ ks.maxSim \in Int
      /\ ks.memPressurePct \in Int /\ ks.maxView \in Int
  BY <1>1 DEF KnobSets
<1> DEFINE gate == ks.memPressurePct > 0
<1>3. gate \in BOOLEAN
  BY <1>2
<1> HIDE DEF gate
<1>4. ConfigFor(ks) = [Defaults EXCEPT !.target = ks.target, !.minSim = ks.minSim,
                                       !.maxSim = ks.maxSim, !.maxView = ks.maxView,
                                       !.memGate = gate]
  BY DEF ConfigFor, gate
<1> QED  BY <1>1, <1>2, <1>3, <1>4 DEF ConfigType

(* What the loop decides is within the bounds of its own copy, and unless  *)
(* it holds it moves something.                                            *)
LEMMA DecisionWithinBounds ==
    ASSUME LoopInv, pc = "decide"
    PROVE  /\ Allowed(Decision.sim) /\ Decision.view \in Distances
           /\ Decision.action # "hold" => Decision.sim # st.sim \/ Decision.view # st.view
<1> DEFINE cfg == ConfigFor(k)
<1>1. Usable(k) /\ st \in StateType /\ st.view \in Distances
  BY DEF LoopInv
<1>2. /\ cfg \in ConfigType /\ cfg.minSim = k.minSim /\ cfg.maxSim = k.maxSim
      /\ cfg.minView \in Distances /\ cfg.maxView \in Distances
  BY <1>1, ConfigForType
<1> HIDE DEF cfg
<1>3. Engine(st, cfg, Lowest, Highest)
  BY <1>1, <1>2, DaemonAssumption DEF Engine, Distances
<1>4. Fitting(Decide(st, cfg), st, cfg, Lowest, Highest, 1)
  BY <1>1, <1>2, <1>3, DecideWithinBounds
<1>5. Decision = Decide(st, cfg)
  BY DEF Decision, cfg
<1>6. Decision.action # "hold" => Decision.sim # st.sim \/ Decision.view # st.view
  BY <1>1, <1>2, <1>5, MovesSomething
<1> QED  BY <1>2, <1>4, <1>5, <1>6 DEF Fitting, Bounded, Allowed, Distances

LEMMA LoopInit == Init => LoopInv
  BY DaemonAssumption DEF Init, LoopInv

(* The setter takes any number and leaves the engine's distances; one of   *)
(* those it leaves alone.                                                  *)
LEMMA ClampDistType ==
    ASSUME NEW d \in Int
    PROVE  ClampDist(d) \in Distances /\ (d \in Distances => ClampDist(d) = d)
<1>1. Lowest \in Int /\ Highest \in Int /\ Lowest <= Highest
  BY DaemonAssumption DEF Distances
<1>2. d \in Distances => ClampDist(d) = d
  BY <1>1 DEF ClampDist, Clamp, Distances
<1> QED  BY <1>1, <1>2, ClampInRange DEF ClampDist, Distances

(* A step of the loop that asks the server for nothing.                    *)
LEMMA QuietLoopStep ==
    ASSUME KnobsInv, LoopInv, Begin \/ Fetch \/ FetchFails \/ Decides \/ ApplyRefused
    PROVE  LoopInv' /\ asks' = asks
<1> USE DEF LoopInv
<1>1. CASE Begin
  BY <1>1 DEF Begin, KnobsForStep, KnobsInv, Usable, serverVars
<1>2. CASE Fetch
  <2>1. PICK r \in Readings, starved \in {FALSE, k.starvePSI > 0},
             stalled \in {FALSE, k.gcStallPct > 0} :
          st' = [players |-> r.players, peak |-> r.peak, mspt |-> r.mspt,
                 sim |-> sim, view |-> view, starved |-> starved, stalled |-> stalled,
                 pressed |-> pressed /\ k.memPressurePct > 0]
    BY <1>2 DEF Fetch
  <2>2. pc = "fetch" /\ pc' = "decide" /\ UNCHANGED <<k, sim, view, asks, pressed>>
    BY <1>2 DEF Fetch, serverVars
  <2>3. k \in KnobSets
    BY <2>2 DEF Usable
  <2>4. starved \in BOOLEAN /\ stalled \in BOOLEAN /\ (pressed /\ k.memPressurePct > 0) \in BOOLEAN
    <3>1. (k.starvePSI > 0) \in BOOLEAN /\ (k.gcStallPct > 0) \in BOOLEAN
          /\ (k.memPressurePct > 0) \in BOOLEAN
      BY <2>3 DEF KnobSets
    <3> QED  BY <3>1, Zenon
  <2>5. r.players \in Int /\ r.peak \in Int /\ r.mspt \in Int
    BY DaemonAssumption
  <2>6. sim \in Int /\ view \in Int
    BY DaemonAssumption DEF Distances
  <2>7. st' \in StateType /\ st'.view = view
    BY <2>1, <2>4, <2>5, <2>6 DEF StateType
  <2> QED  BY <2>2, <2>7 DEF Usable
<1>3. CASE FetchFails
  BY <1>3 DEF FetchFails, serverVars
<1>4. CASE RaisePending
  BY <1>4 DEF RaisePending, EndStep, serverVars
<1>5. CASE HoldDecided
  BY <1>5 DEF HoldDecided, EndStep, serverVars
<1>6. CASE MoveDecided
  <2>1. /\ Allowed(Decision.sim) /\ Decision.view \in Distances
        /\ Decision.sim # st.sim \/ Decision.view # st.view
    BY <1>6, DecisionWithinBounds DEF MoveDecided
  <2>2. CASE k.apply
    <3>1. /\ pc = "decide" /\ pc' = "apply" /\ plan' = Decision
          /\ UNCHANGED <<k, st, sim, view, asks, pressed>>
      BY <1>6, <2>2 DEF MoveDecided, serverVars
    <3> QED  BY <2>1, <2>2, <3>1 DEF Usable, Allowed
  <2>3. CASE ~k.apply
    BY <1>6, <2>3 DEF MoveDecided, EndStep, serverVars
  <2> QED  BY <2>2, <2>3
<1>7. CASE ApplyRefused
  BY <1>7 DEF ApplyRefused, EndStep, serverVars
<1> QED  BY <1>1, <1>2, <1>3, <1>4, <1>5, <1>6, <1>7 DEF Decides

(* A step that asks the server for distances asks for ones its knobs allow *)
(* and that are not those it has read.                                     *)
LEMMA AskingStep ==
    ASSUME LoopInv, ApplySucceeds \/ ApplyTimesOut
    PROVE  /\ LoopInv' /\ k.apply
           /\ Allowed(asks'[Len(asks')].sim)
           /\ asks'[Len(asks')].view \in Distances
           /\ asks'[Len(asks')] # [sim |-> st.sim, view |-> st.view]
<1> DEFINE ask == [sim |-> plan.sim, view |-> plan.view]
<1>1. /\ pc = "apply" /\ asks' = Append(asks, ask) /\ pc' = "idle"
      /\ UNCHANGED <<sim, view, pressed>>
  BY DEF ApplySucceeds, ApplyTimesOut, EndStep
<1>2. /\ k.apply /\ Allowed(plan.sim) /\ plan.view \in Distances /\ asks \in Seq(Ask)
      /\ plan.sim # st.sim \/ plan.view # st.view
  BY <1>1 DEF LoopInv
<1>3. ask \in Ask
  BY <1>2 DEF Ask, Allowed
<1>4. ask.sim = plan.sim /\ ask.view = plan.view
  OBVIOUS
<1>5. ask # [sim |-> st.sim, view |-> st.view]
  BY <1>2
<1> HIDE DEF ask
<1>6. asks' \in Seq(Ask) /\ asks'[Len(asks')] = ask
  BY <1>1, <1>2, <1>3, AppendProperties
<1>7. LoopInv'
  BY <1>1, <1>6 DEF LoopInv
<1> QED  BY <1>2, <1>4, <1>5, <1>6, <1>7

(* Nobody else asks the server for anything.                               *)
LEMMA OtherStep ==
    ASSUME LoopInv,
           \/ \E o \in Operators : ReadKnobs(o) \/ WriteKnobs(o)
           \/ SetDistance \/ ServerRestarts \/ MemoryChanges \/ UNCHANGED vars
    PROVE  LoopInv' /\ Len(asks') <= Len(asks)
<1> USE DEF LoopInv
<1>1. CASE (\E o \in Operators : ReadKnobs(o) \/ WriteKnobs(o)) \/ MemoryChanges \/ UNCHANGED vars
  <2>1. /\ UNCHANGED <<pc, k, st, plan, sim, view, asks>>
        /\ pressed' \in BOOLEAN
    BY <1>1 DEF ReadKnobs, WriteKnobs, MemoryChanges, loopVars, serverVars, vars
  <2> QED  BY <2>1, LenProperties DEF Usable, Allowed
<1>2. CASE SetDistance
  <2>1. /\ asks # <<>> /\ asks' = Tail(asks)
        /\ view' = ClampDist(Head(asks).view) /\ sim' = ClampDist(Head(asks).sim)
        /\ UNCHANGED <<pc, k, st, plan, pressed>>
    BY <1>2 DEF SetDistance, loopVars
  <2>2. /\ Head(asks) \in Ask
        /\ Tail(asks) \in Seq(Ask)
        /\ Len(Tail(asks)) <= Len(asks)
    <3>1. /\ Head(asks) \in Ask
          /\ Tail(asks) \in Seq(Ask)
          /\ Len(Tail(asks)) = Len(asks) - 1
      BY <2>1, HeadTailProperties
    <3>2. Len(asks) \in Nat
      BY LenProperties
    <3> QED  BY <3>1, <3>2
  <2>3. sim' \in Distances /\ view' \in Distances
    <3>1. Head(asks).sim \in Int /\ Head(asks).view \in Int
      BY <2>2, DaemonAssumption DEF Ask, Distances
    <3> QED  BY <2>1, <3>1, ClampDistType
  <2> QED  BY <2>1, <2>2, <2>3 DEF Usable, Allowed
<1>3. CASE ServerRestarts
  <2>1. /\ asks' = <<>> /\ sim' \in Distances /\ view' \in Distances
        /\ UNCHANGED <<pc, k, st, plan, pressed>>
    BY <1>3, DaemonAssumption DEF ServerRestarts, loopVars
  <2> QED  BY <2>1, LenProperties DEF Usable, Allowed
<1> QED  BY <1>1, <1>2, <1>3

LEMMA LoopStep == KnobsInv /\ LoopInv /\ [Next]_vars => LoopInv'
  BY QuietLoopStep, AskingStep, OtherStep DEF Next, Loop, Applies

(* Every distance the server is asked for is within the bounds of the      *)
(* knobs its step began with, and not the one that step has read, in any   *)
(* load and under any edits.                                               *)
THEOREM AsksAreBounded == Spec => AsksWithinBounds
<1>1. ASSUME KnobsInv, LoopInv, [Next]_vars
      PROVE  [Len(asks') > Len(asks)
                => LET ask == asks'[Len(asks')]
                   IN /\ k.apply
                      /\ k.minSim <= k.maxSim => ask.sim \in k.minSim .. k.maxSim
                      /\ ask.view \in Distances
                      /\ ask # [sim |-> st.sim, view |-> st.view]]_vars
  <2>1. Len(asks) \in Nat
    BY <1>1, LenProperties DEF LoopInv
  <2>2. CASE ApplySucceeds \/ ApplyTimesOut
    BY <1>1, <2>2, AskingStep DEF Allowed
  <2>3. CASE Begin \/ Fetch \/ FetchFails \/ Decides \/ ApplyRefused
    <3>1. asks' = asks
      BY <1>1, <2>3, QuietLoopStep
    <3> QED  BY <2>1, <3>1
  <2>4. CASE \/ \E o \in Operators : ReadKnobs(o) \/ WriteKnobs(o)
             \/ SetDistance \/ ServerRestarts \/ MemoryChanges \/ UNCHANGED vars
    <3>1. LoopInv' /\ Len(asks') <= Len(asks)
      BY <1>1, <2>4, OtherStep
    <3>2. Len(asks') \in Nat
      BY <3>1, LenProperties DEF LoopInv
    <3> QED  BY <2>1, <3>1, <3>2
  <2> QED  BY <1>1, <2>2, <2>3, <2>4 DEF Next, Loop, Applies
<1> QED
  BY <1>1, KnobsInit, KnobsStep, LoopInit, LoopStep, PTL DEF Spec, AsksWithinBounds

-----------------------------------------------------------------------------
(***************************************************************************)
(* The history.  Its argued properties are not inductive alone:            *)
(*                                                                         *)
(* - holds collapse because lastHoldReason is the reason of the newest     *)
(*   record whenever that is a hold, except while a move is being applied, *)
(*   which will put its own record before it (ReasonFits);                 *)
(* - the newest Applied record explains the server because, unless a call  *)
(*   is in doubt, it is what the server was asked for last, and clamping   *)
(*   twice is clamping once (PromiseFits).                                 *)
(***************************************************************************)

\* A list of whatever is in it.
IsList(s) == s \in Seq({s[i] : i \in DOMAIN s})

ReasonFits ==
    /\ pc # "apply" /\ decisions # <<>> /\ decisions[1].action = "hold"
         => lastHold = decisions[1].why
    /\ lastHold # NoReason
         => decisions # <<>> /\ decisions[1] = [action |-> "hold", why |-> lastHold, applied |-> FALSE]
    /\ pc = "apply" => lastHold = NoReason

HistoryInv ==
    /\ IsList(decisions) /\ Len(decisions) <= MaxDecisions
    /\ \A i \in DOMAIN decisions : decisions[i].action \in Actions
    /\ HoldsCollapse
    /\ ReasonFits

\* A decision to be applied is a move; what a place does not use is empty.
PlacesFit ==
    /\ pc = "idle" => k = NoKnobs
    /\ pc \in {"idle", "fetch"} => st = NoState
    /\ pc # "apply" => plan = NoPlan
    /\ pc = "apply" => plan # NoPlan /\ plan.action \in Actions \ {"hold"}

CountersFit ==
    /\ status \in {"none", "failed", "ok"}
    /\ raises \in 0 .. RaiseDebounce
    /\ Len(asks) <= MaxAsks
    /\ restarts \in 0 .. MaxRestarts
    /\ doubt \in BOOLEAN

\* What the server thread will have set, once clamped, when it has worked off
\* its setters.
Promised == IF asks = <<>> THEN [sim |-> sim, view |-> view] ELSE asks[Len(asks)]

PromiseFits ==
    ~doubt => \A i \in DOMAIN decisions :
        NewestApplied(i) => /\ ClampDist(decisions[i].sim) = ClampDist(Promised.sim)
                            /\ decisions[i].view = Promised.view

LEMMA ListOf ==
    ASSUME NEW S, NEW s \in Seq(S)
    PROVE  IsList(s)
<1> DEFINE R == {s[i] : i \in DOMAIN s}
<1>1. /\ Len(s) \in Nat /\ DOMAIN s = 1 .. Len(s)
      /\ \A i \in 1 .. Len(s) : s[i] \in R
  BY LenProperties
<1>2. SubSeq(s, 1, Len(s)) \in Seq(R)
  <2> HIDE DEF R
  <2> QED  BY <1>1, SubSeqProperties
<1>3. SubSeq(s, 1, Len(s)) = s
  BY SubSeqFull
<1> QED  BY <1>2, <1>3 DEF IsList

(* What a list is made of.                                                 *)
LEMMA ListFacts ==
    ASSUME NEW s, IsList(s)
    PROVE  /\ Len(s) \in Nat /\ DOMAIN s = 1 .. Len(s)
           /\ s = <<>> <=> Len(s) = 0
<1> DEFINE R == {s[i] : i \in DOMAIN s}
<1>1. s \in Seq(R)
  BY DEF IsList
<1> HIDE DEF R
<1>2. Len(s) \in Nat /\ DOMAIN s = 1 .. Len(s)
  BY <1>1, LenProperties
<1>3. s = <<>> <=> Len(s) = 0
  BY <1>1, EmptySeq
<1> QED  BY <1>2, <1>3

(* AddDecision: the record comes first, the ones before it follow in their *)
(* order, as many as the ring has room for.                                *)
LEMMA RecordedList ==
    ASSUME IsList(decisions), NEW record
    PROVE  /\ IsList(Recorded(record)) /\ Recorded(record) # <<>>
           /\ Len(Recorded(record)) <= MaxDecisions
           /\ Recorded(record)[1] = record
           /\ \A i \in DOMAIN Recorded(record) :
                i # 1 => /\ i - 1 \in DOMAIN decisions
                         /\ Recorded(record)[i] = decisions[i - 1]
<1> DEFINE R == {decisions[i] : i \in DOMAIN decisions}
           S == R \cup {record}
           all == <<record>> \o decisions
           n == Len(decisions)
<1>1. decisions \in Seq(S) /\ n \in Nat /\ DOMAIN decisions = 1 .. n
  <2>1. decisions \in Seq(R) /\ R \subseteq S
    BY DEF IsList
  <2>2. decisions \in Seq(S)
    <3> HIDE DEF R, S
    <3> QED  BY <2>1, SeqMonotonic
  <2> QED  BY <2>2, ListFacts
<1>2. <<record>> \in Seq(S) /\ Len(<<record>>) = 1 /\ <<record>>[1] = record
  <2>1. record \in S
    OBVIOUS
  <2> HIDE DEF S
  <2> QED  BY <2>1
<1> DEFINE one == <<record>>
<1> HIDE DEF S, R, one, n
<1>3. /\ all \in Seq(S) /\ Len(all) = n + 1 /\ all[1] = record
      /\ \A i \in 2 .. n + 1 : all[i] = decisions[i - 1]
  <2>1. /\ one \o decisions \in Seq(S) /\ Len(one \o decisions) = 1 + n
        /\ \A i \in 1 .. 1 + n : (one \o decisions)[i] = IF i <= 1 THEN one[1] ELSE decisions[i - 1]
    <3>1. one \in Seq(S) /\ Len(one) = 1
      BY <1>2 DEF one
    <3>2. /\ one \o decisions \in Seq(S)
          /\ Len(one \o decisions) = Len(one) + Len(decisions)
          /\ \A i \in 1 .. Len(one) + Len(decisions) : (one \o decisions)[i] =
               IF i <= Len(one) THEN one[i] ELSE decisions[i - Len(one)]
      BY <1>1, <3>1, ConcatProperties
    <3> QED  BY <1>1, <3>1, <3>2 DEF n
  <2>2. all = one \o decisions /\ one[1] = record
    BY <1>2 DEF one
  <2> HIDE DEF all
  <2> QED  BY <1>1, <2>1, <2>2
<1> HIDE DEF all
<1>4. MaxDecisions \in Nat \ {0}
  BY DaemonAssumption
<1>5. Recorded(record) = IF Len(all) > MaxDecisions THEN SubSeq(all, 1, MaxDecisions) ELSE all
  BY DEF Recorded, all
<1> DEFINE new == Recorded(record)
<1>6. /\ new \in Seq(S) /\ Len(new) > 0 /\ Len(new) <= n + 1 /\ Len(new) <= MaxDecisions
      /\ \A i \in 1 .. Len(new) : new[i] = all[i]
  <2>1. CASE Len(all) > MaxDecisions
    <3>1. \A i \in 1 .. MaxDecisions : all[i] \in S
      <4>1. \A i \in 1 .. MaxDecisions : i \in 1 .. Len(all)
        BY <1>1, <1>3, <1>4, <2>1
      <4> QED  BY <1>3, <4>1, ElementOfSeq
    <3>2. /\ SubSeq(all, 1, MaxDecisions) \in Seq(S)
          /\ Len(SubSeq(all, 1, MaxDecisions)) =
               IF 1 <= MaxDecisions THEN MaxDecisions - 1 + 1 ELSE 0
          /\ \A i \in 1 .. MaxDecisions - 1 + 1 : SubSeq(all, 1, MaxDecisions)[i] = all[1 + i - 1]
      BY <1>4, <3>1, SubSeqProperties
    <3>3. new = SubSeq(all, 1, MaxDecisions)
      BY <1>5, <2>1
    <3> HIDE DEF new
    <3>4. Len(new) = MaxDecisions /\ \A i \in 1 .. MaxDecisions : new[i] = all[i]
      BY <1>4, <3>2, <3>3
    <3> QED  BY <1>1, <1>3, <1>4, <2>1, <3>2, <3>3, <3>4
  <2>2. CASE ~ (Len(all) > MaxDecisions)
    <3>1. new = all
      BY <1>5, <2>2
    <3> HIDE DEF new
    <3> QED  BY <1>1, <1>3, <1>4, <2>2, <3>1
  <2> QED  BY <2>1, <2>2
<1> HIDE DEF new
<1>7. IsList(new)
  BY <1>6, ListOf
<1>8. DOMAIN new = 1 .. Len(new) /\ new # <<>> /\ Len(new) \in Nat
  BY <1>6, <1>7, ListFacts
<1>9. new[1] = record
  BY <1>3, <1>6, <1>8
<1>10. ASSUME NEW i \in DOMAIN new, i # 1
       PROVE  i - 1 \in DOMAIN decisions /\ new[i] = decisions[i - 1]
  <2>1. i \in 1 .. Len(new) /\ i \in 2 .. n + 1 /\ i - 1 \in 1 .. n
    BY <1>1, <1>6, <1>8, <1>10
  <2> QED  BY <1>1, <1>3, <1>6, <2>1
<1> QED  BY <1>6, <1>7, <1>8, <1>9, <1>10 DEF new

(* A record put before the others: a move, or a hold for a new reason.     *)
LEMMA RecordingStep ==
    ASSUME HistoryInv, NEW record, decisions' = Recorded(record), record.action \in Actions,
           record.action = "hold" =>
                /\ record = [action |-> "hold", why |-> lastHold', applied |-> FALSE]
                /\ record.why # lastHold /\ pc # "apply",
           record.action # "hold" => lastHold' = NoReason,
           pc' # "apply"
    PROVE  HistoryInv'
<1> USE DEF HistoryInv
<1>1. /\ IsList(decisions') /\ decisions' # <<>> /\ Len(decisions') <= MaxDecisions
      /\ decisions'[1] = record
      /\ \A i \in DOMAIN decisions' :
           i # 1 => i - 1 \in DOMAIN decisions /\ decisions'[i] = decisions[i - 1]
  BY RecordedList
<1>2. /\ Len(decisions) \in Nat /\ DOMAIN decisions = 1 .. Len(decisions)
      /\ decisions = <<>> <=> Len(decisions) = 0
      /\ Len(decisions') \in Nat /\ DOMAIN decisions' = 1 .. Len(decisions')
  BY <1>1, ListFacts
<1>3. \A i \in DOMAIN decisions' : decisions'[i].action \in Actions
  BY <1>1, Zenon
<1>4. ReasonFits'
  <2>1. CASE record.action = "hold"
    <3>1. record.why = lastHold'
      BY <2>1
    <3> QED  BY <1>1, <2>1, <3>1 DEF ReasonFits
  <2>2. CASE record.action # "hold"
    BY <1>1, <2>2 DEF ReasonFits
  <2> QED  BY <2>1, <2>2
<1>5. HoldsCollapse'
  <2> SUFFICES ASSUME NEW i \in 1 .. Len(decisions') - 1,
                      decisions'[i].action = "hold", decisions'[i] = decisions'[i + 1]
               PROVE  FALSE
    BY DEF HoldsCollapse
  <2>1. /\ i \in DOMAIN decisions' /\ i + 1 \in DOMAIN decisions'
        /\ i + 1 # 1 /\ i + 1 - 1 = i
    BY <1>2
  <2>2. i \in DOMAIN decisions /\ decisions'[i + 1] = decisions[i]
    BY <1>1, <2>1
  <2>3. CASE i = 1
    <3>1. record = decisions[1] /\ record.action = "hold"
      BY <1>1, <2>2, <2>3
    <3>2. decisions # <<>>
      BY <1>2, <2>2, <2>3
    <3> QED  BY <3>1, <3>2 DEF ReasonFits
  <2>4. CASE i # 1
    <3>1. i - 1 \in DOMAIN decisions /\ decisions'[i] = decisions[i - 1]
      BY <1>1, <2>1, <2>4
    <3>2. i - 1 \in 1 .. Len(decisions) - 1 /\ i - 1 + 1 = i
      BY <1>2, <2>2, <3>1
    <3> QED  BY <2>2, <3>1, <3>2 DEF HoldsCollapse
  <2> QED  BY <2>3, <2>4
<1> QED  BY <1>1, <1>3, <1>4, <1>5

(* A step that records nothing and forgets no reason.                      *)
LEMMA RecordlessStep ==
    ASSUME HistoryInv, decisions' = decisions, lastHold' = lastHold,
           pc = "apply" <=> pc' = "apply"
    PROVE  HistoryInv'
  BY DEF HistoryInv, ReasonFits, HoldsCollapse

(* What the loop decides can be told from having decided nothing.          *)
LEMMA DecisionShape ==
    ASSUME LoopInv, pc = "decide"
    PROVE  /\ Decision # NoPlan /\ Decision.action \in Actions
           /\ Decision.action = "hold" => Decision.why # <<>>
<1>1. Usable(k) /\ st \in StateType
  BY DEF LoopInv
<1>2. ConfigFor(k) \in ConfigType
  BY <1>1, ConfigForType
<1>3. /\ DOMAIN Decision = {"sim", "view", "action", "why"} /\ Decision.action \in Actions
      /\ Decision.action = "hold" => Decision.why # <<>>
  BY <1>1, <1>2, DecideShape, Zenon DEF Decision
<1>4. DOMAIN NoPlan = {"none"}
  BY DEF NoPlan
<1> QED  BY <1>3, <1>4

(* A hold is recorded unless it repeats the newest record, which then is   *)
(* that very hold.                                                         *)
LEMMA HoldStep ==
    ASSUME LoopInv, HistoryInv, HoldDecided
    PROVE  /\ HistoryInv'
           /\ decisions' # <<>> /\ decisions'[1] = HoldRecord(Decision)
<1> DEFINE record == HoldRecord(Decision)
<1>1. /\ pc = "decide" /\ pc' = "idle" /\ lastHold' = Decision.why
      /\ decisions' = IF Decision.why = lastHold THEN decisions ELSE Recorded(record)
  BY DEF HoldDecided, EndStep
<1>2. Decision.why # <<>>
  BY <1>1, DecisionShape DEF HoldDecided
<1>3. /\ record = [action |-> "hold", why |-> lastHold', applied |-> FALSE]
      /\ record.action = "hold" /\ record.why = Decision.why
  BY <1>1 DEF HoldRecord
<1> HIDE DEF record
<1>4. CASE Decision.why = lastHold
  <2>1. decisions' = decisions /\ lastHold' = lastHold
    BY <1>1, <1>4
  <2>2. decisions # <<>> /\ decisions[1] = record
    BY <1>1, <1>2, <1>3, <1>4 DEF HistoryInv, ReasonFits, NoReason
  <2> QED  BY <1>1, <2>1, <2>2, RecordlessStep DEF record
<1>5. CASE Decision.why # lastHold
  <2>1. decisions' = Recorded(record) /\ record.action \in Actions
    BY <1>1, <1>3, <1>5 DEF Actions
  <2>2. decisions' # <<>> /\ decisions'[1] = record
    BY <2>1, RecordedList DEF HistoryInv
  <2>3. HistoryInv'
    BY <1>1, <1>3, <1>5, <2>1, RecordingStep
  <2> QED  BY <2>2, <2>3 DEF record
<1> QED  BY <1>4, <1>5

(* A move leaves the reason of the latest hold behind and is recorded, at  *)
(* once or when it was applied.                                            *)
LEMMA MoveStep ==
    ASSUME LoopInv, PlacesFit, HistoryInv, MoveDecided \/ Applies
    PROVE  HistoryInv'
<1>1. CASE MoveDecided /\ k.apply
  <2>1. /\ pc = "decide" /\ pc' = "apply" /\ decisions' = decisions /\ lastHold' = NoReason
    BY <1>1 DEF MoveDecided, ReasonAfterMove
  <2> QED  BY <2>1 DEF HistoryInv, ReasonFits, HoldsCollapse
<1>2. CASE MoveDecided /\ ~k.apply
  <2> DEFINE record == MoveRecord(Decision, FALSE)
  <2>1. /\ pc' = "idle" /\ decisions' = Recorded(record) /\ lastHold' = NoReason
        /\ Decision.action \in {"lower", "raise"}
    BY <1>2 DEF MoveDecided, ReasonAfterMove, EndStep
  <2>2. record.action = Decision.action
    BY DEF MoveRecord
  <2> HIDE DEF record
  <2> QED  BY <2>1, <2>2, RecordingStep DEF Actions
<1>3. CASE Applies
  <2>1. PICK applied \in BOOLEAN : decisions' = Recorded(MoveRecord(plan, applied))
    BY <1>3 DEF Applies, ApplySucceeds, ApplyRefused, ApplyTimesOut
  <2> DEFINE record == MoveRecord(plan, applied)
  <2>2. /\ pc = "apply" /\ pc' = "idle" /\ lastHold' = lastHold
    BY <1>3 DEF Applies, ApplySucceeds, ApplyRefused, ApplyTimesOut, EndStep
  <2>3. /\ lastHold' = NoReason /\ plan.action \in Actions \ {"hold"}
    BY <2>2 DEF PlacesFit, HistoryInv, ReasonFits
  <2>4. record.action = plan.action
    BY DEF MoveRecord
  <2> HIDE DEF record
  <2>5. decisions' = Recorded(record) /\ record.action \in Actions /\ record.action # "hold"
    BY <2>1, <2>3, <2>4 DEF record
  <2> QED  BY <2>2, <2>3, <2>5, RecordingStep
<1> QED  BY <1>1, <1>2, <1>3

LEMMA HistoryStep == LoopInv /\ PlacesFit /\ HistoryInv /\ [Next]_vars => HistoryInv'
<1> SUFFICES ASSUME LoopInv, PlacesFit, HistoryInv, [Next]_vars
             PROVE  HistoryInv'
  OBVIOUS
<1>1. CASE \/ \E o \in Operators : ReadKnobs(o) \/ WriteKnobs(o)
           \/ SetDistance \/ ServerRestarts \/ MemoryChanges \/ UNCHANGED vars
  <2>1. UNCHANGED <<decisions, lastHold, pc>>
    BY <1>1 DEF ReadKnobs, WriteKnobs, SetDistance, ServerRestarts, MemoryChanges,
       storeVars, loopVars, vars
  <2> QED  BY <2>1, RecordlessStep
<1>2. CASE Begin \/ Fetch \/ FetchFails \/ RaisePending
  <2>1. UNCHANGED <<decisions, lastHold>> /\ pc # "apply" /\ pc' # "apply"
    BY <1>2 DEF Begin, Fetch, FetchFails, RaisePending, ReasonAfterPending, EndStep, storeVars
  <2> QED  BY <2>1, RecordlessStep
<1>3. CASE HoldDecided
  BY <1>3, HoldStep
<1>4. CASE MoveDecided \/ Applies
  BY <1>4, MoveStep
<1> QED  BY <1>1, <1>2, <1>3, <1>4 DEF Next, Loop, Decides

(* The loop uses its places one after the other, and its counters stay     *)
(* within their bounds.                                                    *)
LEMMA PlacesStep ==
    ASSUME LoopInv, PlacesFit, CountersFit, [Next]_vars
    PROVE  PlacesFit' /\ CountersFit'
<1> USE DEF PlacesFit, CountersFit
<1>n. RaiseDebounce \in Nat \ {0} /\ MaxAsks \in Nat \ {0} /\ MaxRestarts \in Nat
  BY DaemonAssumption
<1>a. Len(asks) \in Nat /\ Len(<<>>) = 0
  BY LenProperties DEF LoopInv
<1>s. Streak \in 0 .. RaiseDebounce
  BY <1>n DEF Streak
<1>1. CASE (\E o \in Operators : ReadKnobs(o) \/ WriteKnobs(o)) \/ MemoryChanges \/ UNCHANGED vars
  BY <1>1 DEF ReadKnobs, WriteKnobs, MemoryChanges, storeVars, loopVars, serverVars, vars
<1>2. CASE SetDistance
  <2>1. UNCHANGED <<storeVars, loopVars, restarts, doubt>>
    BY <1>2 DEF SetDistance
  <2>2. Len(asks') <= Len(asks) /\ Len(asks') \in Nat
    BY <1>2, OtherStep, LenProperties DEF LoopInv
  <2> QED  BY <1>a, <1>n, <2>1, <2>2 DEF storeVars, loopVars
<1>3. CASE ServerRestarts
  BY <1>3, <1>a, <1>n DEF ServerRestarts, storeVars, loopVars
<1>4. CASE Begin \/ Fetch \/ FetchFails
  BY <1>4 DEF Begin, Fetch, FetchFails, storeVars, serverVars
<1>5. CASE RaisePending \/ HoldDecided
  BY <1>5, <1>n, <1>s DEF RaisePending, HoldDecided, EndStep, storeVars, serverVars
<1>6. CASE MoveDecided
  <2>1. /\ raises' \in 0 .. RaiseDebounce /\ pc = "decide"
        /\ Decision.action \in {"lower", "raise"}
        /\ UNCHANGED <<status, asks, restarts, doubt>>
    BY <1>6, <1>n, <1>s DEF MoveDecided, serverVars
  <2>2. Decision # NoPlan /\ Decision.action \in Actions
    BY <2>1, DecisionShape
  <2>3. CASE k.apply
    BY <1>6, <2>1, <2>2, <2>3 DEF MoveDecided
  <2>4. CASE ~k.apply
    BY <1>6, <2>1, <2>4 DEF MoveDecided, EndStep
  <2> QED  BY <2>3, <2>4
<1>7. CASE ApplySucceeds \/ ApplyTimesOut
  <2>1. /\ raises' \in {0, raises} /\ doubt' \in BOOLEAN /\ EndStep
        /\ Len(asks) < MaxAsks /\ UNCHANGED <<status, restarts>>
        /\ asks' = Append(asks, [sim |-> plan.sim, view |-> plan.view])
    BY <1>7 DEF ApplySucceeds, ApplyTimesOut
  <2>2. Len(asks') = Len(asks) + 1
    <3> DEFINE ask == [sim |-> plan.sim, view |-> plan.view]
               S == Ask \cup {ask}
    <3>1. asks \in Seq(S) /\ ask \in S /\ asks' = Append(asks, ask)
      <4>1. asks \in Seq(Ask) /\ Ask \subseteq S
        BY DEF LoopInv
      <4>2. ask \in S
        OBVIOUS
      <4> HIDE DEF S
      <4> QED  BY <2>1, <4>1, <4>2, SeqMonotonic
    <3> HIDE DEF ask, S
    <3> QED  BY <3>1, AppendProperties
  <2> QED  BY <1>a, <1>n, <2>1, <2>2 DEF EndStep
<1>8. CASE ApplyRefused
  BY <1>8 DEF ApplyRefused, EndStep, serverVars
<1> QED
  BY <1>1, <1>2, <1>3, <1>4, <1>5, <1>6, <1>7, <1>8 DEF Next, Loop, Decides, Applies

LEMMA HistoryInit == Init => PlacesFit /\ CountersFit /\ HistoryInv /\ PromiseFits
<1> SUFFICES ASSUME Init
             PROVE  PlacesFit /\ CountersFit /\ HistoryInv /\ PromiseFits
  OBVIOUS
<1>n. /\ RaiseDebounce \in Nat \ {0} /\ MaxAsks \in Nat \ {0} /\ MaxRestarts \in Nat
      /\ MaxDecisions \in Nat \ {0}
  BY DaemonAssumption
<1>1. decisions = <<>> /\ asks = <<>> /\ Len(<<>>) = 0
  BY DEF Init
<1>2. IsList(decisions) /\ DOMAIN decisions = 1 .. 0 /\ Len(decisions) = 0
  <2>1. <<>> \in Seq({})
    BY EmptySeq
  <2>2. IsList(<<>>)
    BY <2>1, ListOf
  <2> QED  BY <1>1, <2>2, ListFacts
<1>3. PlacesFit
  BY DEF Init, PlacesFit
<1>c. CountersFit
  <2>1. Len(asks) <= MaxAsks
    BY <1>1, <1>n
  <2>2. raises \in 0 .. RaiseDebounce /\ restarts \in 0 .. MaxRestarts
    BY <1>n DEF Init
  <2> QED  BY <2>1, <2>2 DEF Init, CountersFit
<1>4. HistoryInv
  BY <1>1, <1>2, <1>n DEF Init, HistoryInv, HoldsCollapse, ReasonFits
<1>5. PromiseFits
  BY <1>2 DEF PromiseFits
<1> QED  BY <1>3, <1>c, <1>4, <1>5

\* Everything the proofs about Daemon need.
DaemonInv == KnobsInv /\ LoopInv /\ PlacesFit /\ CountersFit /\ HistoryInv

LEMMA DaemonInvariance == Spec => []DaemonInv
<1>1. Init => DaemonInv
  BY KnobsInit, LoopInit, HistoryInit DEF DaemonInv
<1>2. DaemonInv /\ [Next]_vars => DaemonInv'
  BY KnobsStep, LoopStep, PlacesStep, HistoryStep DEF DaemonInv
<1> QED  BY <1>1, <1>2, PTL DEF Spec

(* A knob set, a reading and nothing can be told apart.                    *)
LEMMA NotNothing ==
    /\ NoKnobs \notin KnobSets
    /\ NoState \notin StateType
<1>1. DOMAIN NoKnobs = {"none"} /\ DOMAIN NoState = {"none"}
  BY DEF NoKnobs, NoState
<1>2. \A ks \in KnobSets : "target" \in DOMAIN ks
  BY DEF KnobSets
<1>3. \A s \in StateType : "mspt" \in DOMAIN s
  BY DEF StateType
<1> QED  BY <1>1, <1>2, <1>3

(* Type correctness of the daemon: in particular the history never grows   *)
(* past its ring, and the places of a step are filled exactly while the    *)
(* step is where it uses them.                                             *)
THEOREM DaemonTypeCorrect == Spec => []TypeOK
<1>1. DaemonInv => TypeOK
  <2> SUFFICES ASSUME DaemonInv
               PROVE  TypeOK
    OBVIOUS
  <2> USE DEF DaemonInv
  <2>1. knobs \in KnobSets /\ DOMAIN edits = Operators
    BY DEF KnobsInv, EditsValid, Usable
  <2>2. k = NoKnobs <=> pc = "idle"
    BY NotNothing DEF LoopInv, PlacesFit, Usable
  <2>3. st = NoState <=> pc \in {"idle", "fetch"}
    BY NotNothing DEF LoopInv, PlacesFit
  <2>4. plan = NoPlan <=> pc # "apply"
    BY DEF PlacesFit
  <2> QED  BY <2>1, <2>2, <2>3, <2>4 DEF TypeOK, LoopInv, CountersFit, HistoryInv
<1> QED  BY <1>1, DaemonInvariance, PTL

(* "A quiet hour is one entry": no two neighbours in the history are the   *)
(* same hold, whatever raises, moves, failures and trims come between.     *)
THEOREM HoldsAlwaysCollapse == Spec => []HoldsCollapse
<1>1. DaemonInv => HoldsCollapse
  BY DEF DaemonInv, HistoryInv
<1> QED  BY <1>1, DaemonInvariance, PTL

(* Collapsing swallows no hold: when the loop holds, the newest record is  *)
(* that hold with its reason, newly made or still there from the last one. *)
THEOREM HistoryAlwaysShowsTheHold == Spec => HistoryShowsTheHold
<1>1. ASSUME DaemonInv, [Next]_vars, pc = "decide", pc' # "decide", Decision.action = "hold"
      PROVE  decisions' # <<>> /\ decisions'[1] = HoldRecord(Decision)
  <2>1. HoldDecided
    BY <1>1 DEF Next, ReadKnobs, WriteKnobs, Loop, Begin, Fetch, FetchFails, Decides,
       RaisePending, MoveDecided, Applies, ApplySucceeds, ApplyRefused, ApplyTimesOut,
       SetDistance, ServerRestarts, MemoryChanges, loopVars, vars
  <2> QED  BY <1>1, <2>1, HoldStep DEF DaemonInv
<1> QED  BY <1>1, DaemonInvariance, PTL DEF Spec, HistoryShowsTheHold

-----------------------------------------------------------------------------
(* The history and the server *)

(* A record that was not applied leaves the newest Applied one what it is, *)
(* as long as the ring has room for it.                                    *)
LEMMA UnappliedRecord ==
    ASSUME IsList(decisions), NEW record, ~record.applied, decisions' = Recorded(record),
           NEW i \in DOMAIN decisions', NewestApplied(i)'
    PROVE  /\ i - 1 \in DOMAIN decisions /\ NewestApplied(i - 1)
           /\ decisions'[i] = decisions[i - 1]
<1>1. /\ IsList(decisions') /\ decisions'[1] = record
      /\ \A j \in DOMAIN decisions' :
           j # 1 => j - 1 \in DOMAIN decisions /\ decisions'[j] = decisions[j - 1]
  BY RecordedList
<1>2. /\ DOMAIN decisions = 1 .. Len(decisions) /\ Len(decisions) \in Nat
      /\ DOMAIN decisions' = 1 .. Len(decisions') /\ Len(decisions') \in Nat
  BY <1>1, ListFacts
<1>3. decisions'[i].applied /\ \A j \in 1 .. i - 1 : ~decisions'[j].applied
  BY DEF NewestApplied
<1>4. i # 1
  BY <1>1, <1>3
<1>5. i - 1 \in DOMAIN decisions /\ decisions'[i] = decisions[i - 1]
  BY <1>1, <1>4
<1>6. ASSUME NEW j \in 1 .. (i - 1) - 1
      PROVE  ~decisions[j].applied
  <2>1. j + 1 \in 1 .. i - 1 /\ j + 1 \in DOMAIN decisions' /\ j + 1 # 1 /\ j + 1 - 1 = j
    BY <1>2
  <2>2. decisions'[j + 1] = decisions[j]
    BY <1>1, <2>1
  <2> QED  BY <1>3, <2>1, <2>2
<1> QED  BY <1>3, <1>5, <1>6 DEF NewestApplied

(* A step that records no success and changes nothing of what the server   *)
(* will have set.                                                          *)
LEMMA UnpromisingStep ==
    ASSUME IsList(decisions), PromiseFits,
           \/ decisions' = decisions
           \/ \E record : ~record.applied /\ decisions' = Recorded(record),
           ClampDist(Promised'.sim) = ClampDist(Promised.sim), Promised'.view = Promised.view,
           doubt' = doubt
    PROVE  PromiseFits'
<1>1. CASE decisions' = decisions
  BY <1>1 DEF PromiseFits, NewestApplied
<1>2. CASE \E record : ~record.applied /\ decisions' = Recorded(record)
  <2> SUFFICES ASSUME ~doubt, NEW i \in DOMAIN decisions', NewestApplied(i)'
               PROVE  /\ ClampDist(decisions'[i].sim) = ClampDist(Promised'.sim)
                      /\ decisions'[i].view = Promised'.view
    BY DEF PromiseFits
  <2>1. /\ i - 1 \in DOMAIN decisions /\ NewestApplied(i - 1)
        /\ decisions'[i] = decisions[i - 1]
    BY <1>2, UnappliedRecord
  <2> QED  BY <2>1 DEF PromiseFits
<1> QED  BY <1>1, <1>2

(* A call that succeeded: its record is the newest Applied one, its setter *)
(* the last one handed over.                                               *)
LEMMA PromisingStep ==
    ASSUME LoopInv, IsList(decisions), ApplySucceeds
    PROVE  PromiseFits'
<1> DEFINE ask == [sim |-> plan.sim, view |-> plan.view]
           record == MoveRecord(plan, TRUE)
           S == Ask \cup {ask}
<1>1. asks' = Append(asks, ask) /\ decisions' = Recorded(record)
  BY DEF ApplySucceeds
<1>2. /\ ask.sim = plan.sim /\ ask.view = plan.view
      /\ record.sim = plan.sim /\ record.view = plan.view /\ record.applied
  BY DEF MoveRecord
<1>3. asks \in Seq(S) /\ ask \in S
  <2>1. asks \in Seq(Ask) /\ Ask \subseteq S
    BY DEF LoopInv
  <2>2. ask \in S
    OBVIOUS
  <2> HIDE DEF S
  <2> QED  BY <2>1, <2>2, SeqMonotonic
<1> HIDE DEF ask, record, S
<1>4. asks' # <<>> /\ asks'[Len(asks')] = ask
  BY <1>1, <1>3, AppendProperties
<1>5. decisions'[1] = record /\ IsList(decisions')
  BY <1>1, RecordedList
<1>6. DOMAIN decisions' = 1 .. Len(decisions')
  BY <1>5, ListFacts
<1>7. ASSUME NEW i \in DOMAIN decisions', NewestApplied(i)'
      PROVE  decisions'[i] = record
  <2>1. CASE i = 1
    BY <1>5, <2>1
  <2>2. CASE i # 1
    <3>1. 1 \in 1 .. i - 1
      BY <1>6, <2>2
    <3> QED  BY <1>2, <1>5, <1>7, <3>1 DEF NewestApplied
  <2> QED  BY <2>1, <2>2
<1>8. Promised' = ask
  BY <1>4 DEF Promised
<1> QED  BY <1>2, <1>7, <1>8 DEF PromiseFits

(* The server thread runs a setter: what it will have set in the end stays *)
(* what it is, because a distance in range passes the clamp unchanged, and *)
(* what is out of range is clamped once and for all.                       *)
LEMMA SetterKeepsPromise ==
    ASSUME LoopInv, SetDistance
    PROVE  ClampDist(Promised'.sim) = ClampDist(Promised.sim) /\ Promised'.view = Promised.view
<1>1. /\ asks # <<>> /\ asks' = Tail(asks) /\ asks \in Seq(Ask)
      /\ view' = ClampDist(Head(asks).view) /\ sim' = ClampDist(Head(asks).sim)
  BY DEF SetDistance, LoopInv
<1>2. /\ Head(asks) \in Ask /\ Head(asks) = asks[1]
      /\ Tail(asks) \in Seq(Ask) /\ Len(Tail(asks)) = Len(asks) - 1
      /\ \A i \in 1 .. Len(Tail(asks)) : Tail(asks)[i] = asks[i + 1]
  BY <1>1, HeadTailProperties
<1>3. Len(asks) \in Nat /\ Len(asks) > 0
  BY <1>1, EmptySeq, LenProperties
<1>4. ClampDist(sim') = ClampDist(Head(asks).sim) /\ view' = Head(asks).view
  <2>1. Head(asks).sim \in Int /\ Head(asks).view \in Distances
    BY <1>2 DEF Ask
  <2>2. Head(asks).view \in Int
    BY <2>1, DaemonAssumption DEF Distances
  <2>3. sim' \in Distances /\ sim' \in Int
    BY <1>1, <2>1, ClampDistType, DaemonAssumption DEF Distances
  <2> QED  BY <1>1, <2>1, <2>2, <2>3, ClampDistType
<1>5. CASE Len(asks) = 1
  <2>1. asks' = <<>>
    <3>1. Len(Tail(asks)) = 0
      BY <1>2, <1>5
    <3> QED  BY <1>1, <1>2, <3>1, EmptySeq
  <2>2. Promised = Head(asks)
    BY <1>1, <1>2, <1>5 DEF Promised
  <2>3. Promised' = [sim |-> sim', view |-> view']
    BY <2>1 DEF Promised
  <2> QED  BY <1>4, <2>2, <2>3
<1>6. CASE Len(asks) # 1
  <2>1. Len(Tail(asks)) \in 1 .. Len(Tail(asks)) /\ Len(Tail(asks)) + 1 = Len(asks)
    BY <1>2, <1>3, <1>6
  <2>2. asks'[Len(asks')] = asks[Len(asks)]
    BY <1>1, <1>2, <2>1
  <2>3. asks' # <<>>
    <3>1. Len(Tail(asks)) # 0
      BY <1>2, <1>6
    <3> QED  BY <1>1, <1>2, <3>1, EmptySeq
  <2> QED  BY <1>1, <2>2, <2>3 DEF Promised
<1> QED  BY <1>5, <1>6

LEMMA PromiseStep == DaemonInv /\ PromiseFits /\ [Next]_vars => PromiseFits'
<1> SUFFICES ASSUME DaemonInv, PromiseFits, [Next]_vars
             PROVE  PromiseFits'
  OBVIOUS
<1>l. IsList(decisions) /\ LoopInv
  BY DEF DaemonInv, HistoryInv
<1>1. CASE \/ \E o \in Operators : ReadKnobs(o) \/ WriteKnobs(o)
           \/ Begin \/ Fetch \/ FetchFails \/ RaisePending \/ MemoryChanges \/ UNCHANGED vars
  <2>1. UNCHANGED <<decisions, asks, sim, view, doubt>>
    BY <1>1 DEF ReadKnobs, WriteKnobs, Begin, Fetch, FetchFails, RaisePending,
       MemoryChanges, storeVars, serverVars, vars
  <2> QED  BY <1>l, <2>1, UnpromisingStep DEF Promised
<1>2. CASE HoldDecided \/ MoveDecided \/ ApplyRefused
  <2>1. /\ UNCHANGED <<asks, sim, view, doubt>>
        /\ \/ decisions' = decisions
           \/ decisions' = Recorded(HoldRecord(Decision))
           \/ decisions' = Recorded(MoveRecord(Decision, FALSE))
           \/ decisions' = Recorded(MoveRecord(plan, FALSE))
    BY <1>2 DEF HoldDecided, MoveDecided, ApplyRefused, serverVars
  <2>2. /\ ~HoldRecord(Decision).applied /\ ~MoveRecord(Decision, FALSE).applied
        /\ ~MoveRecord(plan, FALSE).applied
    BY DEF HoldRecord, MoveRecord
  <2> QED  BY <1>l, <2>1, <2>2, UnpromisingStep DEF Promised
<1>3. CASE ApplySucceeds
  BY <1>l, <1>3, PromisingStep
<1>4. CASE ApplyTimesOut \/ ServerRestarts
  <2>1. doubt'
    BY <1>4 DEF ApplyTimesOut, ServerRestarts
  <2> QED  BY <2>1 DEF PromiseFits
<1>5. CASE SetDistance
  <2>1. decisions' = decisions /\ doubt' = doubt
    BY <1>5 DEF SetDistance, storeVars
  <2> QED  BY <1>l, <1>5, <2>1, SetterKeepsPromise, UnpromisingStep
<1> QED  BY <1>1, <1>2, <1>3, <1>4, <1>5 DEF Next, Loop, Decides, Applies

(* The history explains the server: when no setter is under way, and no    *)
(* call timed out and no restart came since the latest success, the server *)
(* runs the distances of the newest record marked Applied, clamped.        *)
THEOREM HistoryAlwaysExplains == Spec => []HistoryExplainsDistance
<1>1. Init => PromiseFits
  BY HistoryInit
<1>2. DaemonInv /\ PromiseFits /\ [Next]_vars => PromiseFits'
  BY PromiseStep
<1>3. LoopInv /\ PromiseFits => HistoryExplainsDistance
  <2>1. LoopInv => ClampDist(sim) = sim
    BY ClampDistType, DaemonAssumption DEF LoopInv, Distances
  <2> QED  BY <2>1 DEF PromiseFits, HistoryExplainsDistance, Promised
<1>4. DaemonInv => LoopInv
  BY DEF DaemonInv
<1> QED  BY <1>1, <1>2, <1>3, <1>4, DaemonInvariance, PTL DEF Spec
=============================================================================
