--------------------------- MODULE TelemetryProofs ---------------------------
(***************************************************************************)
(* Theorems about Telemetry: the types of the readings and of the peak,    *)
(* and that the players' peak survives restarts.                           *)
(***************************************************************************)
EXTENDS Telemetry, AdaptiveProofs

-----------------------------------------------------------------------------
(* Types *)

(* How far the counters may be after so many intervals.                    *)
CountersFit ==
    /\ throttled \in [Levels -> 0 .. intervals]
    /\ read \in [Levels -> 0 .. intervals]
    /\ prevPressure \in -1 .. intervals
    /\ gcTime \in 0 .. intervals * Interval
    /\ collected \in 0 .. intervals * Interval
    /\ prevJVM \in -1 .. intervals * Interval

TypeInv == TypeOK /\ CountersFit

(* The largest counter of the levels is one of them.                       *)
LEMMA NrThrottledType ==
    ASSUME CountersFit, intervals \in Nat
    PROVE  NrThrottled \in 0 .. intervals
<1> DEFINE S == {throttled[l] : l \in Levels}
<1>1. S # {} /\ S \subseteq 0 .. intervals
  BY TelemetryAssumption DEF CountersFit
<1>2. S \in SUBSET Int /\ \A x \in S : x <= intervals
  BY <1>1
<1> HIDE DEF S
<1>3. Max(S) \in S
  BY <1>1, <1>2, MaxOfBounded
<1>4. NrThrottled = Max(S)
  BY DEF NrThrottled, S
<1> QED  BY <1>1, <1>3, <1>4

LEMMA InitType == Init => TypeInv
<1> SUFFICES ASSUME Init PROVE TypeInv
  OBVIOUS
<1> USE TelemetryAssumption
<1>1. 0 \in 0 .. MaxIntervals * Interval /\ -1 \in -1 .. MaxIntervals * Interval
  OBVIOUS
<1>2. throttled = [l \in Levels |-> 0] /\ read = throttled
        /\ throttled \in [Levels -> 0 .. 0] /\ throttled \in [Levels -> 0 .. MaxIntervals]
  BY DEF Init
<1>3. CountersFit
  <2>1. /\ intervals = 0 /\ prevPressure = -1 /\ prevJVM = -1
        /\ gcTime = 0 /\ collected = 0
    BY DEF Init, NoReading
  <2> QED  BY <1>2, <2>1 DEF CountersFit
<1>4. HostTypeOK
  <2>1. /\ gates \in GateSets /\ due = FALSE /\ intervals = 0 /\ hasPSI \in BOOLEAN
        /\ up = FALSE /\ crashes = 0 /\ gcTime = 0
    BY DEF Init
  <2>2. 0 \in 0 .. MaxIntervals /\ 0 \in 0 .. MaxCrashes
    OBVIOUS
  <2> QED  BY <1>1, <1>2, <2>1, <2>2, Zenon DEF HostTypeOK
<1>5. PeakTypeOK
  BY DEF Init, PeakTypeOK
<1>6. st \in [ok : BOOLEAN, starved : BOOLEAN, pressed : BOOLEAN, stalled : BOOLEAN]
  BY DEF Init, NotRead
<1>7. LoopTypeOK
  <2>1. /\ prevPressure = -1 /\ prevJVM = -1 /\ psi = NoStalls /\ st = NotRead
        /\ collected = 0 /\ rebooted = FALSE /\ answered = 0
    BY DEF Init, NoReading
  <2>2. -1 \in -1 .. MaxIntervals /\ 0 \in 0 .. MaxIntervals /\ FALSE \in BOOLEAN
    OBVIOUS
  <2> QED  BY <1>1, <1>2, <1>6, <2>1, <2>2, Zenon DEF LoopTypeOK
<1> QED  BY <1>3, <1>4, <1>5, <1>7 DEF TypeInv, TypeOK

(* Counters that fit the intervals so far fit the bound.                   *)
LEMMA CountersBounded ==
    ASSUME NEW i \in 0 .. MaxIntervals, NEW c \in 0 .. i * Interval
    PROVE  c \in 0 .. MaxIntervals * Interval
<1>1. MaxIntervals \in Nat /\ Interval \in Nat
  BY TelemetryAssumption
<1>2. PICK d \in Nat : MaxIntervals = i + d
  <2>1. MaxIntervals - i \in Nat /\ MaxIntervals = i + (MaxIntervals - i)
    BY <1>1
  <2> QED  BY <2>1
<1>3. MaxIntervals * Interval = i * Interval + d * Interval /\ d * Interval \in Nat
  BY <1>1, <1>2
<1>4. i * Interval \in Nat /\ MaxIntervals * Interval \in Nat
  BY <1>1
<1> QED  BY <1>3, <1>4

LEMMA ElapseType == TypeInv /\ Elapse => TypeInv'
<1> SUFFICES ASSUME TypeInv, Elapse PROVE TypeInv'
  OBVIOUS
<1> USE TelemetryAssumption
<1> DEFINE m == intervals * Interval
<1>1. intervals \in Nat /\ intervals' = intervals + 1 /\ intervals' \in 0 .. MaxIntervals
  BY DEF TypeInv, TypeOK, HostTypeOK, Elapse
<1>2. m \in Nat /\ intervals' * Interval = m + Interval
  BY <1>1
<1>3. throttled' \in [Levels -> 0 .. intervals']
  <2>1. PICK hit \in SUBSET Levels :
           throttled' = [l \in Levels |-> throttled[l] + (IF l \in hit THEN 1 ELSE 0)]
    BY DEF Elapse
  <2>2. \A l \in Levels : throttled[l] \in 0 .. intervals
    BY DEF TypeInv, CountersFit
  <2> QED  BY <1>1, <2>1, <2>2
<1>4. gcTime' \in 0 .. m + Interval /\ collected' \in 0 .. m + Interval
  <2>1. PICK t \in IF up THEN GCTimes ELSE {0} : gcTime' = gcTime + t /\ collected' = collected + t
    BY DEF Elapse
  <2>2. t \in 0 .. Interval
    BY <2>1
  <2>3. gcTime \in 0 .. m /\ collected \in 0 .. m
    BY DEF TypeInv, CountersFit
  <2> HIDE DEF m
  <2> QED  BY <1>2, <2>1, <2>2, <2>3
<1>5. read' \in [Levels -> 0 .. intervals'] /\ prevPressure' \in -1 .. intervals'
  BY <1>1 DEF TypeInv, CountersFit, Elapse
<1>6. prevJVM' \in -1 .. m + Interval
  <2>1. prevJVM \in -1 .. m /\ prevJVM' = prevJVM
    BY DEF TypeInv, CountersFit, Elapse
  <2> HIDE DEF m
  <2> QED  BY <1>2, <2>1
<1>7. CountersFit'
  BY <1>2, <1>3, <1>4, <1>5, <1>6 DEF CountersFit
<1>8. gcTime' \in 0 .. MaxIntervals * Interval /\ collected' \in 0 .. MaxIntervals * Interval
  BY <1>1, <1>2, <1>4, CountersBounded
<1>9. HostTypeOK'
  BY <1>1, <1>3, <1>8 DEF TypeInv, TypeOK, HostTypeOK, Elapse
<1>10. PeakTypeOK'
  BY DEF TypeInv, TypeOK, PeakTypeOK, Elapse, peakVars
<1>11. st' \in [ok : BOOLEAN, starved : BOOLEAN, pressed : BOOLEAN, stalled : BOOLEAN]
         /\ st' = NotRead
  BY DEF Elapse, NotRead
<1>12. LoopTypeOK'
  <2>1. read' = read /\ prevPressure' = prevPressure /\ prevJVM' = prevJVM
          /\ rebooted' = rebooted /\ answered' = answered /\ psi' = NoStalls
    BY DEF Elapse
  <2> QED  BY <2>1, <1>8, <1>11 DEF TypeInv, TypeOK, LoopTypeOK
<1> QED  BY <1>7, <1>9, <1>10, <1>12 DEF TypeInv, TypeOK

(* The companion and the operator touch no counter but gcTime's reset.     *)
LEMMA CompanionType ==
    TypeInv /\ (EditGates \/ ServerStarts \/ ServerEnds \/ Tick \/ SavePeak \/ PeakSaved)
      => TypeInv'
<1> SUFFICES ASSUME TypeInv,
                    EditGates \/ ServerStarts \/ ServerEnds \/ Tick \/ SavePeak \/ PeakSaved
             PROVE  TypeInv'
  OBVIOUS
<1> USE TelemetryAssumption
<1>1. /\ UNCHANGED <<due, intervals, hasPSI, throttled, loopVars, read, collected, answered>>
      /\ rebooted' \in BOOLEAN
      /\ gcTime' \in {0, gcTime}
  BY DEF EditGates, ServerStarts, ServerEnds, Tick, SavePeak, PeakSaved, TypeInv, TypeOK,
         LoopTypeOK, hostVars, serverVars, historyVars
<1>2. gates' \in GateSets /\ up' \in BOOLEAN /\ crashes' \in 0 .. MaxCrashes
  <2>1. gates \in GateSets /\ up \in BOOLEAN /\ crashes \in 0 .. MaxCrashes
    BY DEF TypeInv, TypeOK, HostTypeOK
  <2>2. CASE EditGates
    BY <2>1, <2>2 DEF EditGates, serverVars
  <2>3. CASE ServerStarts
    BY <2>1, <2>3 DEF ServerStarts
  <2>4. CASE ServerEnds
    <3>1. /\ gates' = gates /\ up' = FALSE
          /\ crashes < MaxCrashes /\ crashes' = crashes + 1
      BY <2>4, Zenon DEF ServerEnds
    <3>2. crashes' \in 0 .. MaxCrashes
      <4>1. crashes \in Int /\ crashes >= 0 /\ crashes < MaxCrashes /\ MaxCrashes \in Nat
        BY <2>1, <3>1
      <4> QED  BY <3>1, <4>1
    <3> QED  BY <2>1, <3>1, <3>2, Zenon
  <2>5. CASE Tick \/ SavePeak \/ PeakSaved
    BY <2>1, <2>5 DEF Tick, SavePeak, PeakSaved, serverVars
  <2> QED  BY <2>2, <2>3, <2>4, <2>5
<1>3. 0 \in 0 .. intervals * Interval /\ 0 \in 0 .. MaxIntervals * Interval
  BY DEF TypeInv, TypeOK, HostTypeOK
<1>4. HostTypeOK'
  BY <1>1, <1>2, <1>3 DEF TypeInv, TypeOK, HostTypeOK
<1>5. LoopTypeOK'
  BY <1>1 DEF TypeInv, TypeOK, LoopTypeOK, loopVars
<1>6. CountersFit'
  BY <1>1, <1>3 DEF TypeInv, CountersFit, loopVars
<1>7. PeakTypeOK'
  <2> USE DEF TypeInv, TypeOK, PeakTypeOK
  <2>1. CASE EditGates
    BY <2>1 DEF EditGates, peakVars, serverVars
  <2>2. CASE ServerStarts
    BY <2>2 DEF ServerStarts, LoadPeak, Larger, NoFile, EmptyFile
  <2>3. CASE ServerEnds
    <3>1. lost' \in BOOLEAN
      BY <2>3, Zenon DEF ServerEnds
    <3> QED  BY <2>3, <3>1 DEF ServerEnds
  <2>4. CASE Tick
    BY <2>4 DEF Tick, Larger, serverVars
  <2>5. CASE SavePeak
    BY <2>5 DEF SavePeak, serverVars
  <2>6. CASE PeakSaved
    <3>1. peakFile' \in {peak, EmptyFile} /\ lost' \in BOOLEAN /\ phase' = "idle"
            /\ UNCHANGED <<players, peak, highest>>
      BY <2>6 DEF PeakSaved
    <3> QED  BY <3>1
  <2> QED  BY <2>1, <2>2, <2>3, <2>4, <2>5, <2>6
<1> QED  BY <1>4, <1>5, <1>6, <1>7 DEF TypeInv, TypeOK

LEMMA StepType == TypeInv /\ (Step \/ StepWithoutSnapshot) => TypeInv'
<1> SUFFICES ASSUME TypeInv, Step \/ StepWithoutSnapshot PROVE TypeInv'
  OBVIOUS
<1> USE TelemetryAssumption
<1>1. CASE StepWithoutSnapshot
  <2>1. /\ UNCHANGED <<gates, intervals, hostVars, serverVars, peakVars, prevPressure,
                        prevJVM, psi, historyVars>>
        /\ due' = FALSE /\ st' = NotRead
    BY <1>1 DEF StepWithoutSnapshot
  <2>2. st' \in [ok : BOOLEAN, starved : BOOLEAN, pressed : BOOLEAN, stalled : BOOLEAN]
    BY <2>1 DEF NotRead
  <2>3. HostTypeOK' /\ PeakTypeOK' /\ CountersFit'
    BY <2>1 DEF TypeInv, TypeOK, HostTypeOK, PeakTypeOK, CountersFit, hostVars, serverVars,
                peakVars, historyVars
  <2>4. LoopTypeOK'
    BY <2>1, <2>2 DEF TypeInv, TypeOK, LoopTypeOK, hostVars, historyVars
  <2> QED  BY <2>3, <2>4 DEF TypeInv, TypeOK
<1>2. CASE Step
  <2>1. /\ UNCHANGED <<gates, intervals, hostVars, serverVars, peakVars>>
        /\ due' = FALSE
        /\ intervals \in 0 .. MaxIntervals /\ intervals \in Nat
    BY <1>2 DEF Step, TypeInv, TypeOK, HostTypeOK
  <2>2. prevPressure' \in -1 .. intervals
    <3>1. NrThrottled \in 0 .. intervals
      BY <2>1, NrThrottledType DEF TypeInv
    <3> QED  BY <1>2, <2>1, <3>1 DEF Step, PressureKept, TypeInv, CountersFit
  <2>3. read' \in [Levels -> 0 .. intervals]
    BY <1>2 DEF Step, TypeInv, CountersFit
  <2>4. /\ prevJVM' \in {gcTime, prevJVM} /\ collected' \in {0, collected}
        /\ rebooted' \in BOOLEAN /\ answered' \in 0 .. MaxIntervals
    BY <1>2, <2>1 DEF Step, TypeInv, TypeOK, LoopTypeOK
  <2>5. psi' \in Stalls \cup {NoStalls} /\ (~hasPSI => psi' = NoStalls)
    BY <1>2 DEF Step
  <2>6. st' \in [ok : BOOLEAN, starved : BOOLEAN, pressed : BOOLEAN, stalled : BOOLEAN] /\ st'.ok
    <3>1. PICK jvmRead \in {FALSE, "gc" \in gates} :
            st' = [ok |-> TRUE,
                   starved |-> "starve" \in gates
                                 /\ StarvedNow(Previous(prevPressure, NrThrottled), psi'),
                   pressed |-> "memory" \in gates /\ MemPressuredNow(psi'),
                   stalled |-> jvmRead /\ GCStalledNow(Previous(prevJVM, gcTime))]
      BY <1>2, Zenon DEF Step
    <3>2. ("starve" \in gates /\ StarvedNow(Previous(prevPressure, NrThrottled), psi')) \in BOOLEAN
      OBVIOUS
    <3>3. ("memory" \in gates /\ MemPressuredNow(psi')) \in BOOLEAN
      OBVIOUS
    <3>4. (jvmRead /\ GCStalledNow(Previous(prevJVM, gcTime))) \in BOOLEAN
      OBVIOUS
    <3> QED  BY <3>1, <3>2, <3>3, <3>4, Zenon
  <2>7. CountersFit'
    BY <2>1, <2>2, <2>3, <2>4 DEF TypeInv, CountersFit, hostVars, serverVars
  <2>8. HostTypeOK' /\ PeakTypeOK'
    BY <2>1 DEF TypeInv, TypeOK, HostTypeOK, PeakTypeOK, hostVars, serverVars, peakVars
  <2>9. prevPressure' \in -1 .. MaxIntervals /\ read' \in [Levels -> 0 .. MaxIntervals]
    BY <2>1, <2>2, <2>3
  <2>10. /\ prevJVM' \in -1 .. MaxIntervals * Interval
         /\ collected' \in 0 .. MaxIntervals * Interval
    <3>1. MaxIntervals * Interval \in Nat
      OBVIOUS
    <3> QED  BY <2>4, <3>1 DEF TypeInv, TypeOK, HostTypeOK, LoopTypeOK
  <2>11. LoopTypeOK'
    <3>1. hasPSI' = hasPSI /\ rebooted' \in BOOLEAN /\ answered' \in 0 .. MaxIntervals
      BY <2>1, <2>4 DEF hostVars
    <3> QED  BY <2>5, <2>6, <2>9, <2>10, <3>1 DEF LoopTypeOK
  <2> QED  BY <2>7, <2>8, <2>11 DEF TypeInv, TypeOK
<1> QED  BY <1>1, <1>2

LEMMA StutterType == TypeInv /\ UNCHANGED vars => TypeInv'
  BY DEF TypeInv, TypeOK, HostTypeOK, PeakTypeOK, LoopTypeOK, CountersFit, vars, hostVars,
         serverVars, peakVars, loopVars, historyVars

(* Every counter stays within what the intervals so far can have brought,  *)
(* and every variable keeps its type, through failed polls and restarts.   *)
THEOREM TypeCorrect == Spec => []TypeInv
<1>1. TypeInv /\ [Next]_vars => TypeInv'
  BY ElapseType, CompanionType, StepType, StutterType DEF Next
<1> QED  BY <1>1, InitType, PTL DEF Spec

-----------------------------------------------------------------------------
(* The players' peak *)

(* What a restart would find, and how far the peak is behind in a tick;    *)
(* with a peak lost, nothing is claimed.                                   *)
PeakInv ==
    lost \/ /\ up /\ phase = "idle" => peak = highest /\ players <= peak /\ LoadPeak = peak
            /\ up /\ phase = "risen" => players > peak /\ highest = players
            /\ up /\ phase = "saving" => players = peak /\ highest = peak
            /\ ~up => LoadPeak = highest

LEMMA PeakStep == TypeInv /\ PeakInv /\ [Next]_vars => PeakInv'
<1> SUFFICES ASSUME TypeInv, PeakInv, [Next]_vars PROVE PeakInv'
  OBVIOUS
<1> USE TelemetryAssumption DEF PeakInv, LoadPeak, Larger, EmptyFile, NoFile
<1>1. /\ players \in Nat /\ peak \in Nat /\ highest \in Nat
      /\ peakFile \in Nat \cup {NoFile, EmptyFile}
      /\ phase \in {"idle", "risen", "saving"} /\ (phase # "idle" => up)
      /\ up \in BOOLEAN /\ lost \in BOOLEAN
  BY TelemetryAssumption DEF TypeInv, TypeOK, HostTypeOK, PeakTypeOK
<1>2. ASSUME UNCHANGED <<up, peakVars>> PROVE PeakInv'
  BY <1>1, <1>2 DEF peakVars
<1>3. CASE ServerStarts
  BY <1>1, <1>3 DEF ServerStarts
<1>4. CASE ServerEnds
  BY <1>1, <1>4 DEF ServerEnds
<1>5. CASE Tick
  <2>1. PICK n \in PlayerCounts :
           players' = n /\ highest' = Larger(n, highest)
             /\ phase' = IF n > peak THEN "risen" ELSE "idle"
    BY <1>5 DEF Tick
  <2> QED  BY <1>1, <1>5, <2>1 DEF Tick, serverVars
<1>6. CASE SavePeak
  BY <1>1, <1>6 DEF SavePeak, serverVars
<1>7. CASE PeakSaved
  BY <1>1, <1>7 DEF PeakSaved, serverVars
<1>8. CASE Elapse \/ EditGates \/ StepWithoutSnapshot \/ Step \/ UNCHANGED vars
  BY <1>2, <1>8 DEF Elapse, EditGates, StepWithoutSnapshot, Step, vars, serverVars
<1> QED  BY <1>3, <1>4, <1>5, <1>6, <1>7, <1>8 DEF Next

(* Unless a save broke off, the count Decide sizes for is the most players *)
(* that were ever on, at every instant /tps may be answered and whatever   *)
(* restarts there were.                                                    *)
THEOREM PeakIsKept == Spec => []PeakSurvives
<1>1. Init => PeakInv
  BY DEF Init, PeakInv, LoadPeak, NoFile
<1>2. TypeInv /\ PeakInv => PeakSurvives
  BY TelemetryAssumption
     DEF TypeInv, TypeOK, HostTypeOK, PeakTypeOK, PeakInv, PeakSurvives, PeakPlayers, Larger
<1> QED  BY <1>1, <1>2, PeakStep, TypeCorrect, PTL DEF Spec
-----------------------------------------------------------------------------
(* GC stalls *)

(* The difference the loop judges is GC time since the last answer: less   *)
(* of it after a restart, all of it in one JVM's life.  That answer was at *)
(* least an interval ago when the next one is due.                         *)
GCInv ==
  /\ answered \in Nat /\ intervals \in Nat /\ answered <= intervals
  /\ due => answered < intervals
  /\ prevJVM # NoReading
      => /\ gcTime - prevJVM <= collected
         /\ ~rebooted => up /\ gcTime - prevJVM = collected

LEMMA ThresholdPositive == GCStallPct * Interval \in Nat \ {0}
  BY TelemetryAssumption

(* What a step does to the reading it keeps.                               *)
LEMMA StepReads ==
    ASSUME Step
    PROVE  /\ due /\ ~due' /\ up /\ UNCHANGED <<gcTime, up>>
           /\ UNCHANGED intervals
           /\ \/ /\ prevJVM' = gcTime /\ collected' = 0 /\ ~rebooted'
                 /\ answered' = intervals
                 /\ st'.stalled <=> GCStalledNow(Previous(prevJVM, gcTime))
              \/ /\ prevJVM' = prevJVM /\ collected' = collected
                 /\ answered' = answered
                 /\ rebooted' <=> rebooted
                 /\ ~st'.stalled
<1>1. due /\ ~due' /\ up /\ UNCHANGED <<gcTime, up, intervals>>
  BY DEF Step, serverVars
<1>2. PICK jvmRead \in {FALSE, "gc" \in gates} :
        /\ st' = [ok |-> TRUE,
                  starved |-> "starve" \in gates
                                /\ StarvedNow(Previous(prevPressure, NrThrottled), psi'),
                  pressed |-> "memory" \in gates /\ MemPressuredNow(psi'),
                  stalled |-> jvmRead /\ GCStalledNow(Previous(prevJVM, gcTime))]
        /\ prevJVM' = IF jvmRead THEN gcTime ELSE prevJVM
        /\ collected' = IF jvmRead THEN 0 ELSE collected
        /\ rebooted' = (rebooted /\ ~jvmRead)
        /\ answered' = IF jvmRead THEN intervals ELSE answered
  BY Zenon DEF Step
<1>3. st'.stalled = (jvmRead /\ GCStalledNow(Previous(prevJVM, gcTime)))
  BY <1>2, Zenon
<1>4. CASE jvmRead
  BY <1>1, <1>2, <1>3, <1>4, Zenon
<1>5. CASE ~jvmRead
  BY <1>1, <1>2, <1>3, <1>5, Zenon
<1> QED  BY <1>4, <1>5

LEMMA GCInvStep == TypeInv /\ GCInv /\ [Next]_vars => GCInv'
<1> SUFFICES ASSUME TypeInv, GCInv, [Next]_vars PROVE GCInv'
  OBVIOUS
<1> USE TelemetryAssumption DEF GCInv, NoReading
<1>1. gcTime \in Nat /\ collected \in Nat /\ prevJVM \in Nat \cup {-1}
  BY DEF TypeInv, CountersFit
<1>2. CASE Elapse
  <2>1. PICK t \in IF up THEN GCTimes ELSE {0} : gcTime' = gcTime + t /\ collected' = collected + t
    BY <1>2 DEF Elapse
  <2>2. t \in Nat
    BY <2>1
  <2> QED  BY <1>1, <1>2, <2>1, <2>2 DEF Elapse
<1>3. CASE ServerStarts
  BY <1>1, <1>3 DEF ServerStarts, loopVars, historyVars
<1>4. CASE ServerEnds
  <2>1. rebooted' /\ UNCHANGED <<gcTime, prevJVM, collected, answered, intervals, due>>
    BY <1>4 DEF ServerEnds, loopVars
  <2> QED  BY <2>1
<1>5. CASE Step
  <2>1. UNCHANGED intervals /\ ~due' /\ answered' \in {intervals, answered}
    BY <1>5, StepReads
  <2>2. answered' \in Nat /\ intervals' \in Nat /\ answered' <= intervals'
    BY <2>1
  <2>3. UNCHANGED <<gcTime, up>> /\ up
    BY <1>5, StepReads
  <2>4. CASE prevJVM' = gcTime /\ collected' = 0 /\ ~rebooted'
    BY <1>1, <2>1, <2>2, <2>3, <2>4
  <2>5. CASE prevJVM' = prevJVM /\ collected' = collected /\ (rebooted' <=> rebooted)
    BY <1>1, <2>1, <2>2, <2>3, <2>5
  <2> QED  BY <1>5, <2>4, <2>5, StepReads
<1>6. CASE EditGates \/ Tick \/ SavePeak \/ PeakSaved \/ StepWithoutSnapshot \/ UNCHANGED vars
  <2>1. /\ UNCHANGED <<gcTime, prevJVM, collected, rebooted, up, answered, intervals>>
        /\ due' => due
    BY <1>6 DEF EditGates, Tick, SavePeak, PeakSaved, StepWithoutSnapshot, vars, serverVars,
                loopVars, historyVars
  <2> QED  BY <2>1
<1> QED  BY <1>2, <1>3, <1>4, <1>5, <1>6 DEF Next

(* Only a step clears `due', and only one that judged reports a stall.     *)
LEMMA JudgingStep ==
    ASSUME [Next]_vars, due, ~due'
    PROVE  Step \/ (UNCHANGED answered /\ st' = NotRead)
  BY DEF Next, Elapse, EditGates, ServerStarts, ServerEnds, Tick, SavePeak, PeakSaved,
         StepWithoutSnapshot, vars, historyVars

(* A threshold per interval is reached when that of several is.            *)
LEMMA SeveralThresholds ==
    ASSUME NEW t \in Nat \ {0}, NEW w \in Nat \ {0}
    PROVE  t * w \in Nat /\ t * w >= t
<1>1. w - 1 \in Nat /\ t * (w - 1) \in Nat /\ t * w = t * (w - 1) + t
  OBVIOUS
<1> QED  BY <1>1

(* A stall the loop reports is GC time since the last /jvm answer, of the  *)
(* share of an interval at least; and in one JVM's life that share of the  *)
(* intervals since that answer is reported, however many polls failed and  *)
(* gates were switched in between.                                         *)
THEOREM StallsAreCollected == Spec => StallIsCollected
<1> DEFINE Threshold == GCStallPct * Interval
<1>1. Init => GCInv
  BY DEF Init, GCInv
<1>2. TypeInv /\ GCInv /\ [Next]_vars => ReportsCollected /\ CollectedReported
  <2> SUFFICES ASSUME TypeInv, GCInv, [Next]_vars, due, ~due'
           PROVE  ReportsCollected /\ CollectedReported
    BY DEF ReportsCollected, CollectedReported
  <2>1. Threshold \in Nat \ {0}
    BY ThresholdPositive
  <2>2. gcTime \in Nat /\ collected \in Nat /\ prevJVM \in Nat \cup {-1}
    BY TelemetryAssumption DEF TypeInv, CountersFit
  <2>3. CASE Step
    <3>1. GCStalledNow(Previous(prevJVM, gcTime))
            <=> prevJVM # NoReading /\ gcTime >= prevJVM
                  /\ 100 * (gcTime - prevJVM) >= Threshold
      <4> HIDE DEF Threshold
      <4>1. GCStalledNow(Previous(prevJVM, gcTime))
              <=> gcTime >= Previous(prevJVM, gcTime)
                    /\ 100 * (gcTime - Previous(prevJVM, gcTime)) >= Threshold
        BY DEF GCStalledNow, Threshold
      <4> QED  BY <2>1, <2>2, <4>1 DEF Previous, NoReading
    <3> HIDE DEF Threshold
    <3> DEFINE Window == intervals - answered
    <3>4. Window \in Nat \ {0}
      BY DEF GCInv
    <3>5. Threshold * Window \in Nat /\ Threshold * Window >= Threshold
      BY <2>1, <3>4, SeveralThresholds
    <3> DEFINE Demanded == Threshold * Window
    <3>6. Demanded \in Nat /\ Demanded >= Threshold
      BY <3>5
    <3> HIDE DEF Demanded
    <3> DEFINE Stalled == GCStalledNow(Previous(prevJVM, gcTime))
    <3>7. /\ Stalled => prevJVM # NoReading /\ 100 * collected >= Threshold
          /\ prevJVM # NoReading /\ ~rebooted /\ 100 * collected >= Demanded => Stalled
      <4>1. Stalled <=> /\ prevJVM # NoReading /\ gcTime >= prevJVM
                        /\ 100 * (gcTime - prevJVM) >= Threshold
        BY <3>1
      <4> HIDE DEF Stalled
      <4>2. prevJVM # NoReading =>
              /\ gcTime - prevJVM <= collected
              /\ ~rebooted => gcTime - prevJVM = collected
        BY DEF GCInv
      <4> QED  BY <2>1, <2>2, <3>6, <4>1, <4>2 DEF NoReading
    <3>8. \/ st'.stalled <=> Stalled
          \/ ~st'.stalled /\ answered' = answered
      BY <2>3, StepReads
    <3> HIDE DEF Stalled
    <3>2. (st'.stalled => prevJVM # NoReading /\ 100 * collected >= Threshold)
          /\ (prevJVM # NoReading /\ ~rebooted /\ answered' # answered
                /\ 100 * collected >= Demanded
                => st'.stalled)
      BY <3>7, <3>8, Zenon
    <3> QED  BY <3>2 DEF Threshold, Demanded, ReportsCollected, CollectedReported
  <2>4. CASE UNCHANGED answered /\ st' = NotRead
    BY <2>4 DEF NotRead, ReportsCollected, CollectedReported
  <2> QED  BY <2>3, <2>4, JudgingStep
<1> QED  BY <1>1, <1>2, GCInvStep, InitType, TypeCorrect, PTL DEF Spec, StallIsCollected

-----------------------------------------------------------------------------
(* Starvation *)

(* What the loop keeps is the largest counter its last reading read.       *)
PressureInv ==
    prevPressure # NoReading
      => /\ \A l \in Levels : read[l] <= prevPressure
         /\ \E l \in Levels : read[l] = prevPressure

(* NrThrottled is the largest counter of the levels.                       *)
LEMMA NrThrottledIsLargest ==
    ASSUME TypeInv
    PROVE  /\ NrThrottled \in Nat
           /\ \A l \in Levels : throttled[l] <= NrThrottled
           /\ \E l \in Levels : throttled[l] = NrThrottled
<1> DEFINE S == {throttled[l] : l \in Levels}
<1>1. intervals \in Nat /\ \A l \in Levels : throttled[l] \in 0 .. intervals
  BY TelemetryAssumption DEF TypeInv, TypeOK, HostTypeOK, CountersFit
<1>2. S # {}
  <2>1. PICK l \in Levels : TRUE
    BY TelemetryAssumption, Zenon DEF TelemetryAssumption
  <2>2. throttled[l] \in S
    OBVIOUS
  <2> HIDE DEF S
  <2> QED  BY <2>2
<1>3. S \in SUBSET Int /\ \A x \in S : x <= intervals
  BY <1>1
<1>4. Max(S) \in S /\ \A y \in S : Max(S) >= y
  <2> HIDE DEF S
  <2> QED  BY <1>1, <1>2, <1>3, MaxOfBounded
<1>5. NrThrottled = Max(S)
  BY DEF NrThrottled
<1> HIDE DEF NrThrottled
<1>6. PICK k \in Levels : NrThrottled = throttled[k]
  BY <1>4, <1>5
<1>7. \A l \in Levels : throttled[l] <= NrThrottled
  <2> SUFFICES ASSUME NEW l \in Levels PROVE throttled[l] <= NrThrottled
    OBVIOUS
  <2>1. throttled[l] \in S
    OBVIOUS
  <2>2. NrThrottled >= throttled[l]
    BY <1>4, <1>5, <2>1
  <2> QED  BY <1>1, <1>6, <2>2
<1> QED  BY <1>1, <1>6, <1>7

(* The worst pressure reaches a threshold iff that of some level does.     *)
LEMMA WorstStallReaches ==
    ASSUME NEW stalls \in [Levels -> [Resources -> 0 .. 100]], NEW r \in Resources
    PROVE  WorstStall(stalls, r) >= StarvePct <=> \E l \in Levels : stalls[l][r] >= StarvePct
<1> DEFINE S == {stalls[l][r] : l \in Levels}
<1>1. \A l \in Levels : stalls[l][r] \in 0 .. 100
  OBVIOUS
<1>2. S # {} /\ S \in SUBSET Int /\ \E hi \in Int : \A x \in S : x <= hi
  <2>1. \A x \in S : x <= 100
    BY <1>1
  <2>2. \E hi \in Int : \A x \in S : x <= hi
    <3> HIDE DEF S
    <3> WITNESS 100 \in Int
    <3> QED  BY <2>1
  <2>3. S \in SUBSET Int
    BY <1>1
  <2>4. S # {}
    <3>1. PICK l \in Levels : TRUE
      BY TelemetryAssumption
    <3>2. stalls[l][r] \in S
      OBVIOUS
    <3> HIDE DEF S
    <3> QED  BY <3>2
  <2> QED  BY <2>2, <2>3, <2>4
<1>3. Max(S) \in S /\ \A y \in S : Max(S) >= y
  <2> HIDE DEF S
  <2>1. PICK hi \in Int : \A x \in S : x <= hi
    BY <1>2
  <2> QED  BY <1>2, <2>1, MaxOfBounded
<1>4. WorstStall(stalls, r) = Max(S)
  BY DEF WorstStall
<1>5. PICK k \in Levels : Max(S) = stalls[k][r]
  BY <1>3
<1>6. ASSUME NEW l \in Levels PROVE Max(S) >= stalls[l][r]
  BY <1>3
<1> DEFINE worst == Max(S)
<1>7. worst = stalls[k][r] /\ \A l \in Levels : worst >= stalls[l][r]
  BY <1>5, <1>6
<1>8. StarvePct \in Nat
  BY TelemetryAssumption
<1> HIDE DEF worst, S
<1>9. worst >= StarvePct <=> \E l \in Levels : stalls[l][r] >= StarvePct
  BY <1>1, <1>7, <1>8
<1> QED  BY <1>4, <1>9 DEF worst

LEMMA PressureStep == TypeInv /\ PressureInv /\ [Next]_vars => PressureInv'
<1> SUFFICES ASSUME TypeInv, PressureInv, [Next]_vars PROVE PressureInv'
  OBVIOUS
<1>1. CASE Step /\ ReadsPressure
  <2>1. prevPressure' = NrThrottled /\ read' = throttled
    BY <1>1 DEF Step, PressureKept
  <2> QED  BY <2>1, NrThrottledIsLargest DEF PressureInv
<1>2. CASE UNCHANGED <<prevPressure, read>>
  BY <1>2 DEF PressureInv
<1>3. Step /\ ~ReadsPressure => UNCHANGED <<prevPressure, read>>
  BY DEF Step, PressureKept
<1>4. ~Step => UNCHANGED <<prevPressure, read>>
  BY DEF Next, Elapse, EditGates, ServerStarts, ServerEnds, Tick, SavePeak, PeakSaved,
         StepWithoutSnapshot, vars, loopVars, historyVars
<1> QED  BY <1>1, <1>2, <1>3, <1>4

(* Whatever was read, failed or was switched off in between, a host counts *)
(* as starved only for pressure now or a throttling no reading has seen,   *)
(* and always for pressure and for a throttling at a level that led.       *)
THEOREM StarvationIsExact == Spec => StarveIsExact
<1>1. Init => PressureInv
  BY DEF Init, PressureInv
<1>2. TypeInv /\ PressureInv /\ [Next]_vars
        => (JudgesWith("starve") /\ hasPSI => StarvedWithCause /\ CauseStarves)
  <2> SUFFICES ASSUME TypeInv, PressureInv, [Next]_vars, JudgesWith("starve"), hasPSI
               PROVE  StarvedWithCause /\ CauseStarves
    OBVIOUS
  <2>1. Step
    <3>1. due /\ ~due' /\ st'.ok
      BY DEF JudgesWith
    <3> QED  BY <3>1, JudgingStep DEF NotRead
  <2>2. "starve" \in gates /\ ReadsPressure
    BY DEF JudgesWith, ReadsPressure
  <2>3. psi' \in [Levels -> [Resources -> 0 .. 100]]
    BY <2>1, <2>2, TelemetryAssumption DEF Step
  <2>4. st'.starved <=> StarvedNow(Previous(prevPressure, NrThrottled), psi')
    <3>1. st'.starved = ("starve" \in gates
                           /\ StarvedNow(Previous(prevPressure, NrThrottled), psi'))
      <4>1. PICK jvmRead \in {FALSE, "gc" \in gates} :
              st' = [ok |-> TRUE,
                     starved |-> "starve" \in gates
                                   /\ StarvedNow(Previous(prevPressure, NrThrottled), psi'),
                     pressed |-> "memory" \in gates /\ MemPressuredNow(psi'),
                     stalled |-> jvmRead /\ GCStalledNow(Previous(prevJVM, gcTime))]
        BY <2>1, Zenon DEF Step
      <4> QED  BY <4>1, Zenon
    <3> QED  BY <2>2, <3>1, Zenon
  <2>5. StarvedNow(Previous(prevPressure, NrThrottled), psi')
          <=> StallsNow \/ NrThrottled > Previous(prevPressure, NrThrottled)
    <3>1. Available(psi')
      BY DEF Available
    <3>2. (\E r \in Resources : WorstStall(psi', r) >= StarvePct) <=> StallsNow
      BY <2>3, WorstStallReaches DEF StallsNow
    <3> QED  BY <3>1, <3>2 DEF StarvedNow
  <2>6. NrThrottled > Previous(prevPressure, NrThrottled)
          <=> prevPressure # NoReading /\ NrThrottled > prevPressure
    BY NrThrottledIsLargest DEF Previous
  <2>7. /\ \A l \in Levels : throttled[l] \in Nat /\ read[l] \in Nat
        /\ prevPressure \in Int
    BY TelemetryAssumption DEF TypeInv, CountersFit, TypeOK, HostTypeOK
  <2>8. prevPressure # NoReading /\ NrThrottled > prevPressure => Fresh # {}
    BY <2>7, NrThrottledIsLargest DEF PressureInv, Fresh
  <2>9. prevPressure # NoReading /\ Fresh \cap Leading # {} => NrThrottled > prevPressure
    BY <2>7, NrThrottledIsLargest DEF PressureInv, Fresh, Leading
  <2> QED  BY <2>4, <2>5, <2>6, <2>8, <2>9 DEF StarvedWithCause, CauseStarves
<1> QED  BY <1>1, <1>2, PressureStep, InitType, TypeCorrect, PTL DEF Spec, StarveIsExact
=============================================================================
