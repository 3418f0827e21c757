------------------------------ MODULE Telemetry ------------------------------
(***************************************************************************)
(* What the daemon's three gates know of the host and the JVM.  Both keep  *)
(* cumulative counters; the daemon (internal/daemon, loop.step) keeps the  *)
(* previous readings, and internal/observe judges the differences.  Polls  *)
(* fail, gates are switched off and on, the game server restarts and       *)
(* resets its counters.  The companion's part is here too: the players'    *)
(* high-water mark, and the file in which it survives a restart.           *)
(*                                                                         *)
(* Time passes in intervals of the poll; a counter rises by what happened  *)
(* in one.  A step of the loop is atomic: it takes seconds of a long       *)
(* interval, and what may fail in it fails by choice.                      *)
(***************************************************************************)
EXTENDS Adaptive

CONSTANTS
    Levels,         \* cgroup levels, from the daemon's own to the root
    Stalls,         \* PSI some-avg10 of a host: functions of level and resource
    StarvePct,      \* StarvePSI and MemPressurePct, when their gates are on
    MemPct,
    Interval,       \* cfg.Interval and GC times, in one unit
    GCStallPct,
    GCTimes,        \* GC time an interval may hold
    PlayerCounts,   \* players online at a tick
    GateSets,       \* the gates an operator may have on
    MaxIntervals,   \* bounds: intervals,
    MaxCrashes      \* and ends of the game server

VARIABLES
    gates,          \* the gates that are on, a subset of {"starve", "memory", "gc"}
    due,            \* the ticker has fired
    intervals,
    hasPSI,         \* the kernel has PSI files
    throttled,      \* nr_throttled of each level
    up, crashes,    \* the game server and its JVM run
    gcTime,         \* its GC time since it started
    players, peak,  \* the companion's players and playersPeak,
    peakFile,       \* the peak's file,
    phase,          \* and how far recordTick is: "idle", "risen" or "saving"
    prevPressure,   \* the loop's previous NrThrottled and GCTimeMs
    prevJVM,
    psi, st,        \* the step's PSI of each level, and its verdicts
    read,           \* history: what the last pressure reading read,
    collected, rebooted, answered, \* GC time and restarts since the last /jvm
                    \* answer, and the interval it came in,
    highest, lost   \* the most players recorded, and whether a save broke off

hostVars == <<hasPSI, throttled>>
serverVars == <<up, crashes, gcTime>>
peakVars == <<players, peak, peakFile, phase, highest, lost>>
loopVars == <<prevPressure, prevJVM, psi, st>>
historyVars == <<read, collected, rebooted, answered>>
vars == <<gates, due, intervals, hostVars, serverVars, peakVars, loopVars, historyVars>>

Resources == {"cpu", "io", "memory"}
NoReading == -1
NoFile == -1
EmptyFile == -2
NotRead == [ok |-> FALSE, starved |-> FALSE, pressed |-> FALSE, stalled |-> FALSE]
NoStalls == [l \in Levels |-> [r \in Resources |-> 0]]

ASSUME TelemetryAssumption ==
    /\ IsFiniteSet(Levels) /\ Levels # {}
    /\ Stalls \subseteq [Levels -> [Resources -> 0 .. 100]]
    /\ StarvePct \in Nat \ {0} /\ MemPct \in Nat \ {0}
    /\ Interval \in Nat \ {0} /\ GCStallPct \in Nat \ {0}
    /\ GCTimes \subseteq 0 .. Interval
    /\ PlayerCounts \subseteq Nat
    /\ GateSets \subseteq SUBSET {"starve", "memory", "gc"}
    /\ MaxIntervals \in Nat /\ MaxCrashes \in Nat

-----------------------------------------------------------------------------
(* internal/observe *)

\* ReadPressure: the worst reading across the cgroup chain, ...
WorstStall(stalls, resource) == Max({stalls[l][resource] : l \in Levels})
NrThrottled == Max({throttled[l] : l \in Levels})

\* ... known when some level shows pressure, or the leaf's file exists.
Available(stalls) == hasPSI \/ \E r \in Resources : WorstStall(stalls, r) > 0

StarvedNow(prev, stalls) ==
    /\ Available(stalls)
    /\ (\E r \in Resources : WorstStall(stalls, r) >= StarvePct) \/ NrThrottled > prev

MemPressuredNow(stalls) == Available(stalls) /\ WorstStall(stalls, "memory") >= MemPct

\* Bug form of GCStalledNow: a restart's smaller counter wraps around.
GCStalledNowWrapped(prev) ==
    LET delta == IF gcTime < prev THEN gcTime - prev + 65536 ELSE gcTime - prev
    IN 100 * delta >= GCStallPct * Interval

\* A counter that fell is that of another JVM.
GCStalledNow(prev) ==
    gcTime >= prev /\ 100 * (gcTime - prev) >= GCStallPct * Interval

-----------------------------------------------------------------------------
HostTypeOK ==
    /\ gates \in GateSets /\ due \in BOOLEAN /\ intervals \in 0 .. MaxIntervals
    /\ hasPSI \in BOOLEAN
    /\ throttled \in [Levels -> 0 .. MaxIntervals]
    /\ up \in BOOLEAN /\ crashes \in 0 .. MaxCrashes
    /\ gcTime \in 0 .. MaxIntervals * Interval

PeakTypeOK ==
    /\ players \in PlayerCounts \cup {0} /\ peak \in PlayerCounts \cup {0}
    /\ peakFile \in PlayerCounts \cup {0, NoFile, EmptyFile}
    /\ phase \in {"idle", "risen", "saving"}
    /\ phase # "idle" => up
    /\ phase = "saving" => players = peak
    /\ highest \in PlayerCounts \cup {0} /\ lost \in BOOLEAN

LoopTypeOK ==
    /\ prevPressure \in -1 .. MaxIntervals
    /\ prevJVM \in -1 .. MaxIntervals * Interval
    /\ psi \in Stalls \cup {NoStalls} /\ (~hasPSI => psi = NoStalls)
    /\ st \in [ok : BOOLEAN, starved : BOOLEAN, pressed : BOOLEAN, stalled : BOOLEAN]
    /\ ~st.ok => st = NotRead
    /\ read \in [Levels -> 0 .. MaxIntervals]
    /\ collected \in 0 .. MaxIntervals * Interval /\ rebooted \in BOOLEAN
    /\ answered \in 0 .. MaxIntervals

TypeOK == HostTypeOK /\ PeakTypeOK /\ LoopTypeOK

Init ==
    /\ gates \in GateSets /\ due = FALSE /\ intervals = 0
    /\ hasPSI \in BOOLEAN
    /\ throttled = [l \in Levels |-> 0]
    /\ up = FALSE /\ crashes = 0 /\ gcTime = 0
    /\ players = 0 /\ peak = 0 /\ peakFile = NoFile /\ phase = "idle"
    /\ highest = 0 /\ lost = FALSE
    /\ prevPressure = NoReading /\ prevJVM = NoReading /\ psi = NoStalls /\ st = NotRead
    /\ read = throttled /\ collected = 0 /\ rebooted = FALSE /\ answered = 0

-----------------------------------------------------------------------------
(* The host, the JVM and the operator *)

\* An interval passes: levels are throttled, the collector runs.
Elapse ==
    /\ ~due /\ due' = TRUE
    /\ intervals < MaxIntervals /\ intervals' = intervals + 1
    /\ \E hit \in SUBSET Levels :
         throttled' = [l \in Levels |-> throttled[l] + (IF l \in hit THEN 1 ELSE 0)]
    /\ \E t \in IF up THEN GCTimes ELSE {0} :
         gcTime' = gcTime + t /\ collected' = collected + t
    /\ psi' = NoStalls /\ st' = NotRead
    /\ UNCHANGED <<gates, hasPSI, up, crashes, peakVars, prevPressure, prevJVM, read, rebooted,
                   answered>>

EditGates ==
    /\ gates' \in GateSets \ {gates}
    /\ UNCHANGED <<due, intervals, hostVars, serverVars, peakVars, loopVars, historyVars>>

-----------------------------------------------------------------------------
(* The companion *)

\* Bug form of LoadPeak: the file is not read.
LoadPeakNever == 0

\* loadPeak: a file that holds no number is reported and passed over.
LoadPeak == IF peakFile >= 0 THEN Larger(peakFile, 0) ELSE 0

\* SERVER_STARTED, in a new JVM
ServerStarts ==
    /\ ~up /\ up' = TRUE
    /\ gcTime' = 0
    /\ players' = 0
    /\ peak' = LoadPeak
    /\ UNCHANGED <<gates, due, intervals, hostVars, crashes, peakFile, phase, highest, lost,
                   loopVars, historyVars>>

\* The process dies, or stops between two ticks.
ServerEnds ==
    /\ up /\ up' = FALSE
    /\ crashes < MaxCrashes /\ crashes' = crashes + 1
    /\ phase' = "idle"
    /\ lost' = (lost \/ phase # "idle")
    /\ rebooted' = TRUE
    /\ UNCHANGED <<gates, due, intervals, hostVars, gcTime, players, peak, peakFile, highest,
                   loopVars, read, collected, answered>>

\* recordTick, on the server thread; HTTP threads read between its assignments.
Tick ==
    /\ up /\ phase = "idle"
    /\ \E n \in PlayerCounts :
         /\ players' = n
         /\ highest' = Larger(n, highest)
         /\ phase' = IF n > peak THEN "risen" ELSE "idle"
    /\ UNCHANGED <<gates, due, intervals, hostVars, serverVars, peak, peakFile, lost,
                   loopVars, historyVars>>

\* Files.writeString empties the file ...
SavePeak ==
    /\ phase = "risen"
    /\ peak' = players
    /\ peakFile' = EmptyFile
    /\ phase' = "saving"
    /\ UNCHANGED <<gates, due, intervals, hostVars, serverVars, players, highest, lost,
                   loopVars, historyVars>>

\* ... and fills it, or fails with a message.
PeakSaved ==
    /\ phase = "saving" /\ phase' = "idle"
    /\ \/ peakFile' = peak /\ UNCHANGED lost
       \/ peakFile' = EmptyFile /\ lost' = TRUE
    /\ UNCHANGED <<gates, due, intervals, hostVars, serverVars, players, peak, highest,
                   loopVars, historyVars>>

-----------------------------------------------------------------------------
(* The loop's step, up to its verdicts *)

\* No answer, or one without distances: the step ends, nothing else is read.
StepWithoutSnapshot ==
    /\ due /\ due' = FALSE
    /\ st' = NotRead
    /\ UNCHANGED <<gates, intervals, hostVars, serverVars, peakVars, prevPressure, prevJVM,
                   psi, historyVars>>

ReadsPressure == gates \cap {"starve", "memory"} # {}

\* Bug form of PressureKept: a reading is only kept for the gate that needs it.
PressureKeptWhenStarveGateOn ==
    IF "starve" \in gates THEN NrThrottled ELSE prevPressure

\* prevPressure: kept whichever of the two gates asked for the reading.
PressureKept == IF ReadsPressure THEN NrThrottled ELSE prevPressure

\* A first reading is compared with itself.
Previous(kept, current) == IF kept = NoReading THEN current ELSE kept

Step ==
    /\ due /\ due' = FALSE
    /\ up
    /\ psi' \in IF ReadsPressure /\ hasPSI THEN Stalls ELSE {NoStalls}
    /\ \E jvmRead \in {FALSE, "gc" \in gates} :
         /\ st' = [ok |-> TRUE,
                       starved |-> "starve" \in gates
                                     /\ StarvedNow(Previous(prevPressure, NrThrottled), psi'),
                       pressed |-> "memory" \in gates /\ MemPressuredNow(psi'),
                       stalled |-> jvmRead /\ GCStalledNow(Previous(prevJVM, gcTime))]
         /\ prevJVM' = IF jvmRead THEN gcTime ELSE prevJVM
         /\ collected' = IF jvmRead THEN 0 ELSE collected
         /\ rebooted' = (rebooted /\ ~jvmRead)
         /\ answered' = IF jvmRead THEN intervals ELSE answered
    /\ prevPressure' = PressureKept
    /\ read' = IF ReadsPressure THEN throttled ELSE read
    /\ UNCHANGED <<gates, intervals, hostVars, serverVars, peakVars>>

-----------------------------------------------------------------------------
Next ==
    \/ Elapse \/ EditGates
    \/ ServerStarts \/ ServerEnds \/ Tick \/ SavePeak \/ PeakSaved
    \/ StepWithoutSnapshot \/ Step

Spec == Init /\ [][Next]_vars

-----------------------------------------------------------------------------
(* Properties *)

JudgesWith(gate) == due /\ ~due' /\ st'.ok /\ gate \in gates

StallsNow == \E l \in Levels, r \in Resources : psi'[l][r] >= StarvePct

\* Levels throttled since the last pressure reading, and those that led then.
Fresh == {l \in Levels : throttled[l] > read[l]}
Leading == {l \in Levels : \A m \in Levels : read[l] >= read[m]}

StarvedWithCause ==
    st'.starved => StallsNow \/ (prevPressure # NoReading /\ Fresh # {})
CauseStarves ==
    StallsNow \/ (prevPressure # NoReading /\ Fresh \cap Leading # {}) => st'.starved

(* "Comparing against prev confines the signal to 'throttled since the     *)
(* last poll'" (psi.go:58): whatever was read, failed or was switched off  *)
(* in between, a host counts as starved only for pressure somewhere in the *)
(* chain now or a throttling that no reading has seen, and it does count   *)
(* for pressure, and for one at a level whose counter led.                 *)
StarveIsExact ==
    [][JudgesWith("starve") /\ hasPSI => StarvedWithCause /\ CauseStarves]_vars

\* A report, and an answer that must be one.
ReportsCollected ==
    due /\ ~due' /\ st'.stalled
      => prevJVM # NoReading /\ 100 * collected >= GCStallPct * Interval
CollectedReported ==
    due /\ ~due' /\ answered' # answered /\ prevJVM # NoReading /\ ~rebooted
      /\ 100 * collected >= GCStallPct * Interval * (intervals - answered)
      => st'.stalled

(* "GC time delta at/over pct percent of the elapsed window" between two   *)
(* /jvm reads (jvm.go:47): in one JVM's life a share of all the intervals  *)
(* since the last answer is reported; and what is reported, restarts or    *)
(* not, is GC time since that answer of the share of one interval at       *)
(* least.  Between answers one interval apart that is the documented       *)
(* condition exactly.  After polls without an answer the code divides the  *)
(* GC time of several intervals by one (daemon.go:349): a report of less   *)
(* than the share of them all is neither demanded here nor ruled out.      *)
StallIsCollected == [][ReportsCollected /\ CollectedReported]_vars

(* "Restore the persisted peak so a restart doesn't reset it" (loadPeak):  *)
(* at every instant /tps may be answered, also in the middle of a tick,    *)
(* the count Decide sizes for is the most that were ever on; unless a save *)
(* failed or the server died during one.                                   *)
PeakSurvives ==
    up /\ ~lost => PeakPlayers([players |-> players, peak |-> peak]) = Larger(highest, 1)
=============================================================================
