------------------------------- MODULE Loadtest -------------------------------
(***************************************************************************)
(* `tickwarden loadtest` (cmdLoadtest): a driver of internal/loadgen sends *)
(* RCON commands that put load on a live server and take it off again,     *)
(* while the command samples the server (observe.Bench), and the command   *)
(* then waits for the driver.                                              *)
(*                                                                         *)
(* What the drivers leave in the world is a set of marks: natural spawning *)
(* switched off, chunks pinned, mobs, fake players, a Chunky task.  A      *)
(* command is executed and answered, or fails: unexecuted, or executed     *)
(* with its answer lost (Rcon shows how).  Time is counted in seconds of   *)
(* which every command, read and wake-up may take some.                    *)
(***************************************************************************)
EXTENDS Integers, Sequences, SequencesExt

CONSTANTS
    Loads,          \* the -load types and counts: records with kind and count
    Duration,       \* -duration, and what -interval may be
    BenchIntervals,
    MaxRuns,        \* bounds: runs of the command, failing RCON commands,
    MaxFaults,      \* and seconds that are waited for something slow
    MaxDelays

VARIABLES
    load,           \* the load under way, or NoLoad
    job,            \* the driver's steps still to do
    failed,         \* the driver will return an error
    now, wake,      \* time since the start, and when the driver's Sleep ends
    interval,       \* -interval
    bench, samples, \* "off", "on" or "done", and the samples taken
    tick, next,     \* a tick waits in the ticker's channel; when the next one is
    reading,        \* Bench reads the server
    world,          \* the marks in the world
    runs, faults, delays,
    lag,            \* history: the seconds that ticks have waited and reads taken,
    excused         \* and the marks that a failed command or a crash left

driverVars == <<load, job, failed, wake>>
benchVars == <<interval, bench, samples, tick, next, reading, lag>>
vars == <<driverVars, now, benchVars, world, runs, faults, delays, excused>>

NoLoad == [kind |-> "none", count |-> 0]
Awake == -1

ASSUME LoadtestAssumption ==
    /\ Loads \subseteq [kind : {"chunky", "entity", "player", "fly"}, count : Nat \ {0}]
    /\ BenchIntervals \subseteq Nat \ {0} /\ Duration \in Nat
    /\ MaxRuns \in Nat /\ MaxFaults \in Nat /\ MaxDelays \in Nat

\* "count := int(*duration / *interval)", and one at least
Count == IF Duration \div interval < 1 THEN 1 ELSE Duration \div interval

\* Bug form of LoadWindow: the load lasts as long as the measurement.
LoadWindowWithoutMargin == Duration

LoadWindow == Duration + 2

-----------------------------------------------------------------------------
(* Marks, and what the server does with a command *)

NoSpawning == <<"nospawn", 0>>
Pinned == <<"pinned", 0>>
ChunkyTask == <<"chunky", 0>>
Mob(i) == <<"mob", i>>
Bot(i) == <<"bot", i>>

Mobs(count) == {Mob(i) : i \in 1 .. count}
Bots(count) == {Bot(i) : i \in 0 .. count - 1}

\* @e[tag=tickwarden_load], whichever run summoned them
TaggedMobs == UNION {Mobs(l.count) : l \in Loads}

\* A set-up command, and what the driver does when it fails; a clean-up.
SetUp(adds, onFail) == [op |-> "setup", adds |-> adds, removes |-> {}, onFail |-> onFail]
CleanUp(removes) == [op |-> "cleanup", adds |-> {}, removes |-> removes, onFail |-> <<>>]
Sleep(seconds) == [op |-> "sleep", seconds |-> seconds]

\* Mobs come and go where chunks are loaded, and only the pinned ones are.
Executed(command) ==
    LET reached(marks) == {m \in marks : m[1] = "mob" => Pinned \in world}
    IN (world \cup reached(command.adds)) \ reached(command.removes)

-----------------------------------------------------------------------------
(* The drivers *)

\* world, center and radius configure, start starts.
ChunkyBurst(count) ==
    <<SetUp({}, <<>>), SetUp({}, <<>>), SetUp({}, <<>>), SetUp({ChunkyTask}, <<>>),
      Sleep(LoadWindow), CleanUp({ChunkyTask})>>

\* Bug form of ClearEntityLoad: the chunks are released before the kill.
ClearEntityLoadReleasingFirst ==
    <<CleanUp({Pinned}), CleanUp(TaggedMobs), CleanUp({NoSpawning})>>

\* "Each step runs even if an earlier one errors".
ClearEntityLoad ==
    <<CleanUp(TaggedMobs), CleanUp({Pinned}), CleanUp({NoSpawning})>>

EntityLoad(count) ==
    <<SetUp({NoSpawning}, <<>>), SetUp({Pinned}, <<CleanUp({NoSpawning})>>)>>
      \o [i \in 1 .. count |-> SetUp({Mob(i)}, ClearEntityLoad)]
      \o <<Sleep(LoadWindow)>> \o ClearEntityLoad

DespawnBots(count) == [i \in 1 .. count |-> CleanUp({Bot(i - 1)})]

PlayerLoad(count) ==
    [i \in 1 .. count |-> SetUp({Bot(i - 1)}, DespawnBots(count))]
      \o <<Sleep(LoadWindow)>> \o DespawnBots(count)

\* A teleport every second, with a Sleep between two.
FlyLoad(count) ==
    <<SetUp({Bot(0)}, <<>>)>>
      \o [i \in 1 .. 2 * LoadWindow - 1 |->
            IF i % 2 = 0 THEN Sleep(1) ELSE SetUp({}, DespawnBots(1))]
      \o DespawnBots(1)

DriverFor(l) ==
    CASE l.kind = "chunky" -> ChunkyBurst(l.count)
      [] l.kind = "entity" -> EntityLoad(l.count)
      [] l.kind = "player" -> PlayerLoad(l.count)
      [] l.kind = "fly" -> FlyLoad(l.count)

-----------------------------------------------------------------------------
Marks ==
    {NoSpawning, Pinned, ChunkyTask}
      \cup TaggedMobs \cup UNION {Bots(l.count) : l \in Loads}

TypeOK ==
    /\ load \in Loads \cup {NoLoad}
    /\ failed \in BOOLEAN
    /\ now \in Nat /\ wake \in Nat \cup {Awake}
    /\ wake # Awake => job # <<>> /\ job[1].op = "sleep"
    /\ interval \in BenchIntervals
    /\ bench \in {"off", "on", "done"}
    /\ tick \in BOOLEAN /\ reading \in BOOLEAN /\ next \in Nat /\ lag \in Nat
    /\ bench # "on" => ~tick /\ ~reading
    /\ bench = "off" <=> load = NoLoad
    /\ samples \in 0 .. Count /\ (reading => samples < Count)
    /\ load = NoLoad => job = <<>>
    /\ world \subseteq Marks /\ excused \subseteq world
    /\ runs \in 0 .. MaxRuns /\ faults \in 0 .. MaxFaults /\ delays \in 0 .. MaxDelays

Idle ==
    /\ load = NoLoad /\ job = <<>> /\ failed = FALSE
    /\ now = 0 /\ wake = Awake
    /\ bench = "off" /\ samples = 0
    /\ tick = FALSE /\ next = 0 /\ reading = FALSE /\ lag = 0

Init ==
    /\ interval \in BenchIntervals /\ Idle
    /\ world = {} /\ excused = {}
    /\ runs = 0 /\ faults = 0 /\ delays = 0

-----------------------------------------------------------------------------
(* The command *)

\* RCON is dialled, the driver is started, and Bench with its ticker.
StartRun ==
    /\ load = NoLoad
    /\ runs < MaxRuns /\ runs' = runs + 1
    /\ load' \in Loads
    /\ job' = DriverFor(load')
    /\ bench' = "on" /\ next' = interval
    /\ UNCHANGED <<failed, wake, now, interval, samples, tick, reading, lag, world, faults,
                   delays, excused>>

\* Bug form of WantsSample: one sample more.
WantsSampleAtCount == samples <= Count

\* "for len(samples) < count"
WantsSample == samples < Count

ReceiveTick ==
    /\ tick /\ ~reading /\ WantsSample
    /\ tick' = FALSE /\ reading' = TRUE
    /\ UNCHANGED <<driverVars, now, interval, bench, samples, next, lag, world, runs, faults,
                   delays, excused>>

\* The server and the pressure are read; a failed read is a sample too.
TakeSample ==
    /\ reading /\ reading' = FALSE
    /\ samples' = samples + 1
    /\ UNCHANGED <<driverVars, now, interval, bench, tick, next, lag, world, runs, faults,
                   delays, excused>>

BenchOver ==
    /\ bench = "on" /\ ~reading
    /\ bench' = "done" /\ tick' = FALSE /\ next' = 0 /\ lag' = 0
    /\ UNCHANGED <<driverVars, now, interval, samples, reading, world, runs, faults, delays,
                   excused>>

BenchEnds == ~WantsSample /\ BenchOver

\* SIGINT or SIGTERM ends Bench, and only Bench, when no read is under way.
Interrupt == BenchOver

\* The command is over, and is as if it had never run.
Ends ==
    /\ load' = NoLoad /\ job' = <<>> /\ failed' = FALSE
    /\ now' = 0 /\ wake' = Awake
    /\ bench' = "off" /\ samples' = 0
    /\ tick' = FALSE /\ next' = 0 /\ reading' = FALSE /\ lag' = 0
    /\ UNCHANGED interval

\* "<-loadErr", the warning, the statistics.
Finish ==
    /\ bench = "done" /\ job = <<>>
    /\ Ends
    /\ UNCHANGED <<world, runs, faults, delays, excused>>

\* The process is killed.
Killed ==
    /\ load # NoLoad
    /\ faults < MaxFaults /\ faults' = faults + 1
    /\ Ends
    /\ excused' = world
    /\ UNCHANGED <<world, runs, delays>>

-----------------------------------------------------------------------------
(* The driver's goroutine *)

CommandNext == job # <<>> /\ job[1].op # "sleep"

CommandAnswered ==
    /\ CommandNext
    /\ world' = Executed(job[1])
    /\ excused' = excused \cap world'
    /\ job' = Tail(job)
    /\ UNCHANGED <<load, failed, wake, now, benchVars, runs, faults, delays>>

\* Bug form of AfterFailure: the first error ends a clean-up.
AfterFailureStopping(command) == command.onFail

\* A set-up step that fails ends the set-up, a clean-up goes on.
AfterFailure(command) ==
    IF command.op = "cleanup" THEN Tail(job) ELSE command.onFail

\* The marks a driver still takes away.
ToRemove(steps) == UNION {steps[i].removes : i \in DOMAIN steps}

CommandFails ==
    /\ CommandNext
    /\ faults < MaxFaults /\ faults' = faults + 1
    /\ failed' = TRUE
    /\ job' = AfterFailure(job[1])
    /\ \/ world' = world
          /\ excused' = excused \cup (job[1].removes \cap world)
       \/ world' = Executed(job[1])
          /\ excused' = (excused \cup (job[1].adds \ ToRemove(job[1].onFail))) \cap world'
    /\ UNCHANGED <<load, wake, now, benchVars, runs, delays>>

FallAsleep ==
    /\ job # <<>> /\ job[1].op = "sleep" /\ wake = Awake
    /\ wake' = now + job[1].seconds
    /\ UNCHANGED <<load, job, failed, now, benchVars, world, runs, faults, delays, excused>>

WakeUp ==
    /\ wake # Awake /\ now >= wake
    /\ wake' = Awake
    /\ job' = Tail(job)
    /\ UNCHANGED <<load, failed, now, benchVars, world, runs, faults, delays, excused>>

-----------------------------------------------------------------------------
DriverWaits == job = <<>> \/ (wake # Awake /\ now < wake)

BenchWaits == ~tick /\ ~reading

\* time.Ticker: a tick that finds one waiting in the channel is dropped.
TickerRuns ==
    IF bench = "on" /\ now' = next
      THEN tick' = TRUE /\ next' = next + interval
      ELSE UNCHANGED <<tick, next>>

\* A second passes; while something is due, only because it is slow.
TimePasses ==
    /\ load # NoLoad /\ ~(bench = "done" /\ job = <<>>)
    /\ now' = now + 1
    /\ TickerRuns
    /\ lag' = IF BenchWaits THEN lag ELSE lag + 1
    /\ IF DriverWaits /\ BenchWaits THEN UNCHANGED delays
       ELSE delays < MaxDelays /\ delays' = delays + 1
    /\ UNCHANGED <<driverVars, interval, bench, samples, reading, world, runs, faults, excused>>

Driver == CommandAnswered \/ CommandFails \/ FallAsleep \/ WakeUp

Next ==
    \/ StartRun \/ ReceiveTick \/ TakeSample \/ BenchEnds \/ Interrupt \/ Finish \/ Killed
    \/ Driver \/ TimePasses

Spec == Init /\ [][Next]_vars

-----------------------------------------------------------------------------
(* Properties *)

(* "A finished or aborted run leaves no debris, no pinned chunks"          *)
(* (entity.go:84), as far as it goes: what is left when no run is under    *)
(* way was left by a clean-up command that was not executed, by a kill, or *)
(* by a set-up command that was executed although it failed and that its   *)
(* driver does not take back.                                              *)
LeftoversExplained == load = NoLoad => world \subseteq excused

\* What a load puts into the world.
MarksOf(l) ==
    CASE l.kind = "chunky" -> {ChunkyTask}
      [] l.kind = "entity" -> {NoSpawning, Pinned} \cup TaggedMobs
      [] l.kind = "player" -> Bots(l.count)
      [] l.kind = "fly" -> Bots(1)

(* A run that ends without the driver's warning leaves nothing of its kind *)
(* behind, not even what an earlier, failed run of that load had left: to  *)
(* run it again is the way to clean up.                                    *)
QuietRunCleans ==
    [][load # NoLoad /\ load' = NoLoad /\ ~failed /\ faults' = faults
         => world' \cap MarksOf(load) = {}]_vars

\* What the load lasts beyond -duration: the last of FlyLoad's steps is not
\* followed by a Sleep.
Margin == IF load.kind = "fly" THEN 1 ELSE 2

(* "It spans the whole measurement window" (main.go:538): a driver in      *)
(* which nothing failed takes its load away after Bench's last sample, as  *)
(* long as the intervals of all samples, and the seconds that ticks waited *)
(* and reads took, are shorter than the load together.  Up to that sum the *)
(* ticks dropped for a slow reader cost Bench nothing more.  With an       *)
(* -interval within -duration this grants Bench the margin's two seconds,  *)
(* a fly load's one; with an -interval that exceeds it by the margin the   *)
(* only sample may come when the load is gone.                             *)
LoadOutlastsBench ==
    [][job # <<>> /\ job[1].op = "cleanup" /\ job' # job /\ load' # NoLoad /\ ~failed
         => \/ bench = "done" \/ samples = Count
            \/ Count * interval + lag >= Duration + Margin]_vars
=============================================================================
