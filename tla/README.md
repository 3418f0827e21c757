# A TLA+ model of tickwarden

tickwarden keeps a Minecraft server's ticks on time: it adapts the server's
distances to the load, pregenerates the world while nobody plays, watches the
host, and edits configuration files. This directory models the parts of it that
run for hours beside a live server, checks them with TLC and proves what matters
most with TLAPS.

## 1. Inventory

Sources are named relative to `src/`. *Companion* is
`companion/src/main/java/.../TickwardenCompanion.java`.

| component | state it keeps | operations | talks to |
|---|---|---|---|
| pregeneration controller, `internal/pregen` | `running`, `started` | `Run`, `Step`, `desiredRun`, `pauseOnExit` | Chunky over RCON; the companion's `/tps`; cgroup PSI |
| RCON client, `internal/loadgen/rcon.go` | connection, `reqID`, frames in flight | `Dial`, `Command`, `Close`, `nextID` | the game server |
| adaptive controller, `internal/adaptive` | none (pure) | `Decide` | called by the next two |
| adaptive command, `cmdAdaptive` in `cmd/tickwarden/main.go` | `raiseStreak`, `prevPressure` | poll, debounce, apply | companion `/tps`, `/setdistance` |
| daemon loop, `internal/daemon/daemon.go` | `raises`, `lastHoldReason`, `prevPressure`, `prevJVM`, `ticks` | `Run`, `step` | store, companion, cgroup |
| daemon store, `internal/daemon/store.go` | `knobs`, `status`, `decisions` | `Knobs`, `SetKnobs`, `SetStatus`, `AddDecision` | loop and HTTP handlers, under one mutex |
| control plane, `internal/daemon/web.go` | none of its own | POST `/api/config`, read-only endpoints, the page | store |
| companion mod | tick window, `players`, `playersPeak` (and its file), the engine's distances | `recordTick`, `/tps`, `/setdistance`, `/jvm`, `/hotspots` | server thread, HTTP threads |
| pressure and telemetry readers, `internal/observe` | none; their callers keep the previous counters | `ReadPressure`, `StarvedNow`, `GCStalledNow`, `MemPressuredNow`, `Watch`, `Bench`, `Diff` | cgroup files, companion |
| I/O storm, `internal/iostorm` | the kernel's `io.max` | `Detect`, `Apply`, `Unset`, `DiscoverDevice`, `Watch` | host agent |
| host agent, `internal/hostagent` | none (two scans, one window apart) | `Sample`, `Verdict` | cgroup files |
| load generators, `internal/loadgen` | marks in the world: a gamerule, pinned chunks, mobs, bots, a Chunky task | `ChunkyBurst`, `EntityLoad`, `PlayerLoad`, `FlyLoad` and their clean-ups | RCON; run beside `Bench` by `cmdLoadtest` |
| properties writer, `internal/apply` | `server.properties` and its `.bak` | `LoadLocks`, `PlanProperties`, `Write`, `Revert` | files, shared with the operator and the server |
| scaffolding, `internal/scaffold` | the new server's directory | `Resolve`, `RenderFiles`, `WriteFiles`, `FetchAll`, `Download` | files, two web services |
| tuning rules, `internal/tune` | none (pure) | `Recommend`, `heapFor`, `distancesFor` | called by `tune`, `optimize`, `init` |
| configuration `internal/config`, detection `internal/detect`, optimizer, OS tuning scan, thermal scan, hotspots | none | one pass each | files |

Interactions that matter: the pregeneration controller and Chunky share a
connection on which answers can be late; the daemon's loop, the HTTP handlers,
the companion's HTTP threads and the Minecraft server thread run concurrently
and hand each other copies; the adaptive controller is one half of a feedback
loop whose other half is the server's tick time.

What makes each part correct, and hard to test:

- **Pregeneration**: what the controller believes of the task is what the task
  does; it yields to players and resumes when idle; stopping leaves it paused.
  Hard: late answers, lost connections, changes between two reads.
- **RCON**: an answer confirms the request it belongs to, even when earlier
  answers are still in the stream and ids wrap.
- **Adaptive control**: bounded moves, no yo-yo, convergence, for a server that
  reacts to every move. Hard: it needs many polls and a model of the server.
- **Daemon**: knobs stay valid under concurrent edits; every request respects
  the bounds in force; the history tells what happened to the distances. Hard:
  edits between the instants of a step, timeouts, server restarts.
- **Host tools**: a cap lands on the container and the device that cause the storm,
  and can be taken back. Hard: containers restart and change their work between
  two scans and an edit.
- **File writers**: what a write overwrites can be brought back, a preview is what
  happens, locks hold, init clobbers nothing. Hard: every write is two steps that
  may be cut off, and the operator and the game server write the same files.
- **Gates**: a host is taken for starved, or a JVM for stalled, because of what
  happened since the last reading. Hard: the counters are cumulative, readings
  fail, gates are switched, the server restarts, cgroup levels differ.
- **Load tests**: what is put into a live world is taken out again, and the load
  is there while it is measured. Hard: any command may fail, executed or not.

The `hazards` of `PROJECT.json` list these at their lines, with the properties
that watch them.

## 2. Modules

| module | models | instantiated by |
|---|---|---|
| `Rcon` | one RCON session: `Dial`, `Command`, request ids, frames both ways, faults | extended by `Pregen` |
| `Pregen` | the controller, its three reads, Chunky, players and load, on top of `Rcon` | `MCPregen` |
| `OpportunisticTask` | what pregeneration promises: the task follows the latest verdict | instantiated by `Pregen` (`Promise`) |
| `Adaptive` | `Decide` as operators | extended by the next two |
| `AdaptiveLoop` | `cmdAdaptive` closed over a server | `MCAdaptiveLoop` |
| `Daemon` | the daemon's loop, store, edits, the companion's queued setters | `MCDaemon` |
| `IOStorm` | the host agent's two scans, storm detection, the edit of `io.max`, containers and kernel | `MCIOStorm` |
| `Telemetry` | the readings behind the daemon's gates, kept between polls; the companion's player peak and its file | `MCTelemetry` |
| `Tune` | `tune.Recommend` as operators | extended by the next one |
| `ServerFiles` | `tune -apply`, `tune -revert` and `init` on a server's directory, with crashes, the operator and the server | `MCServerFiles` |
| `Loadtest` | `cmdLoadtest`: the four load drivers beside `Bench` | `MCLoadtest` |
| `PregenProofs`, `AdaptiveProofs`, `AdaptiveLoopProofs`, `DaemonProofs`, `TelemetryProofs`, `ServerFilesProofs`, `LoadtestProofs`, `IOStormProofs` | theorems | |

### Pregen on Rcon

`toServer` and `toClient` are the frames in flight; a frame arrives whole or not
at all, its body reduced to what it commands. `session` says where `Dial` or
`Command` stands, `result` what `Command` returned. `served` records the ids the
server executed and exists for the properties. The faults of a run are a constant:
`late` lets a read time out while the answer is still coming, `reset` breaks the
connection. With neither, a read waits for its answer; that is the reliable link
of `pregen_reliable`. `reqID` is an `int32` that returns to 1 after the largest
value; `MaxID` is that value, with the same wrap.

`Pregen` has one action per read of `desiredRun`, since players and load change
between them; then `Hold` or `SendCommand`, and `CommandAnswered` with the
assignment of `running` and `started` that only a success makes. `Cancel` is the
signal; `Exit`, `PauseOnExit` and `PausedOnExit` are the deferred pause. A
Chunky task may be running when the controller starts (`chunky start` leaves it
so). `joined` and `doubt` are history variables.

`Promise` maps Chunky's state and the last judged verdict to
`OpportunisticTask`: each verdict must be followed before the next is passed,
and is eventually followed.

### Adaptive

`SimDecision` has one disjunct per case of the Go switch, `MemoryGate` the post
process. Numbers are integers: milliseconds scaled by the instance, `deadband`
in percent. `idealSim = sim * sqrt(target/projected)` is compared with an
integer n through `n^2 * projected <= sim^2 * target`, which is exact; the Go code
compares floats and may differ on the boundary itself. A reason is
reduced to its kind and the numbers in it that the history tells apart.

### AdaptiveLoop

The server's tick time is `Base + cost * players * sim^2`, the relation measured
in `docs/DECISION_TREE.md`. A reading is the old window's mean or the new one's,
never a mixture; `PollDue` says when the window has surely turned between two
polls. The streak saturates at the debounce, above which the code does not
distinguish values. A failed poll changes nothing and is a stutter. An apply
succeeds (`PollApplies`), fails without effect (`PollApplyFails`), or fails for the
loop although the companion had queued the setter (`PollApplyTimesOut`: the client
gives up after 3 s, the streak stays, the distances change). A setter runs before the
next poll, 10 s later, or not at all; `Daemon` has the queue itself. `lastMove`,
`sinceRaise` and `unanswered` (the latest raise took effect through an apply taken for
failed, and every decision since asks for another) are history.

### Daemon

A step is `Begin` (copy the knobs), `Fetch` or `FetchFails`, one of `Decides`,
and for a decision that is applied one of `ApplySucceeds`, `ApplyRefused`,
`ApplyTimesOut`. An edit is `ReadKnobs` (copy and merge) and `WriteKnobs`
(validate and write): those are the two places where the handler takes the
mutex. `/setdistance` puts a setter on the server thread's queue (`asks`) and
`SetDistance` runs it; a client-side timeout may come after the queueing or
before it. `ServerRestarts` drops the queue and loads the distances of
`server.properties`. The start knobs are any set the constant admits: `cmdDaemon` puts
flags and configuration in the store without `validateKnobs`. The verdicts of the starvation and GC gates are arbitrary
when the gate is on and false when it is off: how they come about is
`Telemetry`'s subject, whose verdicts are some of these. `Status` is reduced to its `OK`.
The handler's answer "server not ready" cannot happen: the HTTP server starts
after `mcServer` is set.

### IOStorm

One run of the command is `Launch` (first scan), `Window`, `Scan` (second scan and
`Detect`), `Discover` when no device is given, `ReadLimit` and `WriteLimit`;
`Stop`, `Boot` and `NewWork` happen between any two of them. The window is the unit of
time, so a rate is a number of bytes. `Storms` is the set of pairs, `FirstOf` the one
at index 0 after the sort. A scan is one step although it reads the containers one
after the other. The I/O pressure and the throttled fraction are arbitrary for a
running container. `wrote` is history: what was really written in the window.

### Telemetry

Time passes in poll intervals (`Elapse`): some cgroup levels are throttled, the
collector runs. `Step` is the daemon's step up to its verdicts, with the two
readings it keeps (`prevPressure`, `prevJVM`); the step without an answer from
`/tps` keeps them as they are, a failed `/jvm` keeps `prevJVM`, a gate that is off
reads nothing. A step is atomic here; `Daemon` splits it where that matters. PSI
is one of a set of patterns over levels and resources, none on a kernel without
PSI. The companion's `recordTick` has three instants: the count is set, the peak
is set and the file emptied, the file is filled; `/tps` may be answered and the
process may die at each. `read`, `collected`, `answered` (the interval of the last
`/jvm` answer), `rebooted`, `highest` and `lost` are history.

### Tune and ServerFiles

`Recommend` is the list of recommendations in the code's order. Cores are counted
in hundredths; `Round(Sqrt(x)) >= n` is `x >= (n - 1/2)^2`, squared out, so
`SimFor` is exact up to the float's last bit. `GiB` is a constant, 4 units in the
run; the arithmetic is the code's, integer divisions included.

In `ServerFiles` a file is a sequence of lines, a line a key and a value. A
command is a list of steps (`job`): plan, read, write a file, resolve, fetch a jar.
A write is `OpenFile`, which empties the file, and `FillFile`, or `FillFails`,
which leaves a prefix; before the files `init` must not clobber comes a step of its own,
`CheckFresh` (`os.Stat`), and the operator and the server act between any two. `Stop` ends a command anywhere between two steps: an error
exit, a dry run, a crash; a crash inside a write is `FillFails`. The recommendations
come from `Tune`, for one of the machines and workloads of the run. The operator
edits a key or a lock, the server rewrites its properties as a Java `Properties`
store does: each key once, in an order of its own, defaults added. `before`,
`emptied` and `since` are history: what `Write` had read, what was on disk when it
emptied the properties, and the keys others have stored between its read and the end
of its writing.

### Loadtest

The world is a set of marks. A driver is a list of commands and sleeps; each
set-up command carries what its error path runs, a clean-up command that fails
goes on to the next. A command is answered, or fails either unexecuted or executed
with its answer lost (the two outcomes `Rcon` shows). Mobs can only be summoned and
killed while their chunks are pinned. Time is in seconds; what is due may be late
(`MaxDelays`). The bench's ticker is Go's: its channel holds one tick, a tick that finds
one waiting is dropped (`TickerRuns`). `ReceiveTick` begins a read of the server,
`TakeSample` ends it, and seconds may pass in between. `interval` is chosen from
`BenchIntervals` and may exceed the duration; then `Count` is the one sample that
`main.go:568` insists on. History: `lag`, the seconds that ticks have waited and reads
have taken, and `excused`, the marks that a failed clean-up, a kill or a set-up command
that failed although executed has left.

## 3. Runs

| run | asks | instance | states |
|---|---|---|---|
| `pregen_reliable` | are belief and task the same, does it yield, resume, and implement `OpportunisticTask` | no faults, 3 request ids | 9 thousand |
| `pregen_faulty` | what survives late answers and resets | both faults, 4 ids, 2 frames in flight | 382 thousand |
| `pregen_lost_reply` | does it still yield after one late answer: no | late answers | violated |
| `adaptive_loop` | is the closed loop stable | 2 players, 2 costs, sim 2..10 | 18 thousand |
| `daemon_store` | knobs, history, requests; does dry-run end all requests, does memory relief arrive | 1 operator, 4 patches, 2 sets of start knobs, distances 2..4, ring of 2, 1 restart, fairness | 740 thousand |
| `daemon_lost_update` | "only the fields present in the body change": no | 2 operators | violated |
| `iostorm` | is a restart taken for a burst, who gets capped | 2 containers, 1 disk, 5 command lines | 569 thousand |
| `iostorm_device` | does the cap land on the hammered disk: no | 2 disks, one container on both | violated |
| `iostorm_undo` | does `-undo` remove the throttle: no | as before, throttled fractions 0 and 1 | violated |
| `files` | what is lost, clobbered or torn when the commands break off | 3 machines, 2 workloads, 3 directories, 2 jars, 1 edit | 1.6 million |
| `telemetry` | do the gates judge what happened since the last reading; does the peak survive | 2 levels, 3 intervals, 3 gate sets, 1 end of the server | 3.2 million |
| `loadtest` | what is left in the world, does the load outlast the bench | 6 loads, intervals 1 and 3 for a duration of 2, 3 runs, 3 failures, 2 s of delay | 969 thousand |

Properties, by hazard:

- *Belief*: `BeliefIsTruth` (reliable link), `DoubtlessBeliefIsTruth` (any link:
  once a command succeeded and none failed since), `SentMeansExecuted` (a command
  reported as answered was executed, whatever stale answers were in the stream).
- *Yielding*: `YieldsWhenUnsafe`, `ResumesOnFreshReads`, `EventuallyYields`,
  `EventuallyResumes`, `StoppedStaysPaused`, `KeepsPromise`.
- *Stability*: `RampsAreBounded`, `NoYoYo`, `RaisesAreSpaced`, `JoinsForceNoCut`,
  `SettlesWithinBudget`, `HeadroomIsSpent`. `RaisesAreSpaced` lets one kind of raise
  follow within the debounce: that after a raise whose apply timed out. The last two say
  that under a steady load the loop comes to rest within the budget and leaves
  no whole step of headroom unused.
- *Store*: `KnobsStayValid` (what an edit puts in force passes all of `validateKnobs`,
  whatever the daemon was started with), `HistoryExplainsDistance` (without timeouts and
  restarts in between, and once no setter waits, the newest applied record names the
  distances in force, clamped to the engine's), `HoldsCollapse`, `HistoryShowsTheHold`,
  `AsksWithinBounds` (the bounds of the step's own copy, and never the distances it read:
  no hold is applied).
- *Host*: `NoPhantomWrites`, `OnlyTheWorstIsCapped` (whoever gets a new limit wrote
  enough in the window, starved another container, and nobody who wrote more did).
- *Liveness of the daemon*: `DryRunComesToRest`, `MemoryReliefArrives`.
- *Files*: `BackupIsWhole` (from the instant the properties are emptied the `.bak`
  holds what was read), `PreviewIsWhatHappens` (listed changes are found by a
  reader, every other line is what it was on disk when the file was emptied),
  `LocksHold` (so are the lines of a locked key), both but for the keys stored by
  others since `Write` had read the file; `InitKeepsExisting` (what is there when `init`
  looks for it), `JarsAreWhole`.
- *Gates*: `StarveIsExact` (starved only for pressure somewhere in the chain or a
  throttling no reading has seen, and always for one at a leading level),
  `StallIsCollected` (a reported stall is GC time since the last answer, of the share
  of one interval at least; within one JVM's life the share of all the intervals since
  that answer is reported), `PeakSurvives`.
- *Load tests*: `LeftoversExplained`, `QuietRunCleans`, `LoadOutlastsBench` (the load is
  taken away after the last sample, as long as the samples' intervals and `lag` together
  are shorter than the load).

Every property of a passing run has a mutant in `PROJECT.json`: a plausible bug in
one mapped definition that the run detects. The mutated forms stand in the
modules just before the definition they replace.

### Bounds

- `MaxID` 3 or 4 with at most 2 frames in flight: ids wrap, and a stale answer
  can meet a new request, but an id is not reused while its answer is in flight,
  as with 2^31 - 1 ids. `MaxInFlight` 2 admits one unread answer behind another.
- `MaxPlayers` 2 (one joins, one leaves, nobody left); two costs, chosen so that
  one or two players make the server idle, comfortable, over target or in panic;
  initial distances below, inside and above the range.
- Distances 2..4 in `MCDaemon` instead of 2..32, simulation bounds 2..3 that the
  patches move past the distance in force or make cross each other; two patches carry
  figures out of range (a target, a percentage); the start knobs are valid, or reach
  beyond the engine's distances. `MaxAsks` 1:
  the loop is sequential, a second setter needs a timed-out first.
  `MaxDecisions` 2: the trimmed ring, with both a hold and a move in it.
- `MaxRestarts` 1: a restart before or after anything else.
- `MCIOStorm`: two containers that can each be writer, victim or both; burst 5,
  threshold 3, suggested cap 4 and floor 2, so that a container stays a writer under the
  suggested cap and not under the floor; 10 bytes of disk, two bursts. With two
  containers a writer has at most one victim, so `Worse` never has to choose.
- `MCServerFiles`: the machines give a heap from the budget, the floor of one GiB and
  an unreadable budget, SSD, HDD and unknown disks; the live directory repeats a key
  and locks a missing one; one edit falls between any two steps. The commands
  repeat without bound, so a second apply, a revert of a torn file, a second init and a
  retried download all happen.
- `MCTelemetry`: three intervals make a first reading, a missed one and a judged one;
  the upper cgroup level shows the pressure the lower one does not. A GC time of 3 in 4
  units is over the threshold of half an interval, and over it also when it was
  collected two intervals ago; 3 and 3 in two intervals are the share of both.
- `MCLoadtest`: three failures break a set-up and its clean-up twice; three runs of any
  load after any other meet the leftovers of the first. A duration of 2 s with intervals
  of 1 s and 3 s makes two samples and the one beyond the duration; 2 s of delay are the
  margin, and enough for a dropped tick and for a load that ends before the last sample.
- Deadlock is checked in every run but `loadtest`, which ends when all its runs are
  over.

### Fairness

`Pregen`: weak fairness of the controller, the server and the login, because
goroutines are scheduled, reads have deadlines and the ticker ticks; strong
fairness of `Exit`, since `select` chooses at random between a tick and a
cancelled context. `AdaptiveLoop`: weak fairness of ticks and polls, strong
fairness of a successful apply: the companion answers on the loopback
interface and is not refused every time. `Daemon`: the same for fetches and
applies, weak fairness of the server thread. Players, load, faults, signals,
operators and memory pressure owe nothing. `IOStorm`, `Telemetry`,
`ServerFiles` and `Loadtest` state no liveness and no fairness: a command a user may
kill at any time owes nothing.

## 4. Findings

1. **A late answer can leave Chunky running under players** (`pregen_lost_reply`).
   A `chunky continue` that was executed but whose answer missed the deadline is
   an error to `Step`, and `running` stays false. If somebody is online at the next
   step, the desired state equals `running`, so `Step` holds, and keeps holding.
2. **Concurrent edits lose updates** (`daemon_lost_update`): copy and write of the
   knobs are separate critical sections.
3. **The cap may land on the wrong device** (`iostorm_device`): the storm is
   detected from one window, the device from counters since boot.
4. **`-undo` cannot undo a throttle that worked** (`iostorm_undo`): it looks for a
   storm, and there is none any more.

### Known limits

Met while modelling; no run demands otherwise, and the properties are stated so that
they hold with them.

- Adaptive command and daemon: an apply whose call times out after its setter was queued
  (`TickwardenCompanion.java:469`) counts as failed: the streak stays at the threshold, so
  the next decision to raise raises at once, one poll after the first and not a
  debounce after it. `RaisesAreSpaced` names the case; without its second disjunct the
  run finds the two raises.
- Daemon: such an apply is also recorded as not applied (`daemon.go:408-410` says
  `Applied` tells whether it reached the server); `HistoryExplainsDistance` leaves it out
  through `doubt`. Knobs from flags and configuration are not validated: with bounds
  beyond the engine's the history names distances the companion clamps, with bounds
  that cross no distance is within them.
  On a starved host with memory pressure the "sim held" decision carries the clamped
  distance (`adaptive.go:150`) and, after the operator has moved the bounds, changes it.
- Gates: after failed polls the GC time of several intervals is divided by one
  interval (`daemon.go:349`, against `jvm.go:47-49`, which speaks of the elapsed window),
  so stalls are reported that are none; `StallIsCollected` neither demands nor forbids
  them. When two cgroup levels enforce
  quotas, events at the smaller counter are not seen (`psi.go:156`).
- Peak: a save that breaks off leaves an empty file, and the next start reads 0
  (`TickwardenCompanion.java:369`).
- Files: a second apply replaces the only backup; an apply after a torn write backs up
  the torn file. A key the operator or the server stores after `Write` has read the file
  (`apply.go:87`) and before it has written it (`apply.go:121`) gets its old value back,
  a locked key too, against `apply.go:3-4`. Locks are those loaded at the start;
  `-revert` does not look at them. A file that comes to be between `init`'s look
  (`scaffold.go:335`) and its write (`scaffold.go:339`) is truncated. `init` prints "re-run with -accept-eula" (`main.go:174`), which
  `WriteFiles` then refuses because `server.properties` exists; it also rewrites an
  existing `tickwarden.toml`, locks included.
- Tuning rules: for a budget of at most 1.5 GiB `heapFor` takes half of it, rounded
  down to whole GiB, which is 0 below 2 GiB: `-Xmx0G`, against the floor of 1 GiB in
  its comment (`tune.go:209`). With sim 16 and no SSD, view is 16 too
  (`tune.go:139` says "Keep sim < view"). The cluster factor is a third, its comment
  says a half (`tune.go:258`).
- Load tests: `clearEntityLoad` promises no debris after an aborted run
  (`entity.go:83-86`); a set-up command that timed out but was executed leaves its mark
  where the error path does not name it (pinned chunks, a flying bot, a Chunky task).
  `doMobSpawning` comes back as true even if it was false before. The first samples may
  precede the load. The load lasts 2 s longer than `-duration` (a fly load 1 s, since no
  sleep follows its last step), against `main.go:538`: slow reads and dropped ticks that
  cost the bench more, or an `-interval` that exceeds `-duration` by as much, make it
  sample a server without load. Coordinates are taken to be those of the run before: a
  run elsewhere does not release the chunks an earlier one left pinned.

## 5. Theorems

Checked by `tlapm` for every value of the constants that the modules' assumptions allow.
Every safety property that a passing run checks is also a theorem, but for two (below).

**Pregeneration** (`PregenProofs`)

- `TypeCorrect`: any faults. The strengthening adds that the desired state is known
  wherever it is used. `NextIDType` is where the wrap of the ids matters.
- `BeliefHolds`, `Yields`, `ResumesFresh`: the reliable link (`Faults = {}`), from one
  inductive invariant, `ReliableInv`: `SessionFits` (which session states go with
  which control point), `StreamFits` (on a faultless link the stream holds nothing, the
  login, or the one command under way and its answer), `BeliefFits` (the belief is the
  task's state once started, except for the command under way), `ReadsFit` (what the
  reads have shown so far). `BeliefIsTruth` alone is not inductive: a stale answer in
  the stream, which it does not exclude, would break it.
- `SentIsExecuted`, `DoubtlessBeliefHolds`: any link, from `FaultyInv`. All that is in
  flight are requests of the last `MaxInFlight` ids, in order, and answers older than
  those; since ids are reused only after `MaxID` requests, which is more, an answer
  with the id waited for is the answer to that request. A command counts as sent
  only after its answer, so belief and task then agree.
- `ImplementsTask`: with `Faults = {}` the system implements `OpportunisticTask`. A read
  that settles the verdict is a `Judge`, the server's execution of a command an `Obey`,
  everything else a stutter. The one thing to show is that a `Judge` finds the verdict
  before it followed: `JudgedFits` says that until a step's own verdict, the one before
  it is still what is believed. The fairness of the refinement is left to TLC
  (`KeepsPromise`).

**Adaptive controller and loop** (`AdaptiveProofs`, `AdaptiveLoopProofs`)

- `DecideWithinBounds`: for every reading and configuration of the stated types
  the decided simulation distance is in range, unless the bounds cross; the view stays in any
  interval that holds the current view and the view bounds, and falls by at most one.
  `max_view` below `MinView`, which `validateKnobs` admits, is included. `SteppedDown`
  takes the maximum of a set; that it has one is proved by well-founded induction on
  bounded sets of integers.
- `LoopTypeCorrect`, `RampsAlwaysBounded`, `RaisesAlwaysSpaced` (the streak is never longer
  than the decisions since the last raise, unless that raise is `unanswered`: `SpacingInv`), `JoinsNeverForceACut`.
- `NeverYoYo`: for any costs, targets, steps, deadbands and lateness of the readings.
  Its invariant, `StabilityInv`, keeps what a raise or a cut has established for as long
  as players and costs stay: after a raise on a current reading the new distance is
  within budget and the reading at most what it will become; after a cut there is no
  room for the step back up, and the reading is at least what it will become. It
  needs `target < panic`, a hypothesis of the theorem: where the panic threshold is the
  lower one, a raise towards the target can run into it. The defaults (35 and 50 ms)
  satisfy it; `-target-mspt` may be set to anything.

**Daemon** (`DaemonProofs`)

- `KnobsAlwaysValid`: because every edit under way carries a valid set. Nothing is
  assumed of the start knobs but their types and a view ceiling in range, which is
  neither a flag nor in the configuration.
- `AsksAreBounded`: from an invariant that types the step under way and bounds its plan
  by the knobs it copied, and from `DecideWithinBounds`.
- `DaemonTypeCorrect`, `HoldsAlwaysCollapse`, `HistoryAlwaysShowsTheHold`: `ReasonFits` ties
  `lastHoldReason`, which the loop keeps, to the newest record, which the store keeps.
- `HistoryAlwaysExplains`: from `PromiseFits`. Unless a call is in doubt, the newest
  applied record is what the server was asked for last (or has), and the setter changes
  no distance that is in range.

**Gates** (`TelemetryProofs`)

- `TypeCorrect`: the types, with bounds on every counter that grow with the intervals
  (`CountersFit`); `NrThrottled`, a maximum over the levels, is typed with the lemma of
  `AdaptiveProofs` on largest elements.
- `PeakIsKept`: from `PeakInv`, which says for each instant of a tick how far the peak and
  its file are behind, and what a restart would find.
- `StallsAreCollected`, `StarvationIsExact`: the two gates judge what happened since their
  last reading. The invariants tie what the loop keeps to the history: `gcTime - prevJVM`
  is what was collected (at most that after a restart), and `prevPressure` is the largest
  counter of the last reading. PSI values are assumed to be percentages, `0 .. 100`.

**Files** (`ServerFilesProofs`)

- `FilesTypeCorrect`, `BackupAlwaysWhole`, `JarsAlwaysWhole`, `InitAlwaysKeeps`, from
  `FilesInv`: an apply that writes has both writes before it, the backup first and of the
  text the properties were computed from (`BackupAhead`), or the second alone, with the
  `.bak` holding that text (`BackupBehind`), so that at no cut-off is the backup of
  another text; the steps of `init` that write properties and EULA are fresh
  (`StepsFit`). `InitAlwaysKeeps` speaks of what is there when `init` looks, the code's
  window being left out. Recommendations, texts and edits are arbitrary.

**Load tests** (`LoadtestProofs`)

- `LoadTypeCorrect`: `IsJob` types the steps of the four drivers with their fallbacks.
- `LeftoversAlwaysExplained`: from `LeftoverInv`. Every unexcused mark is taken back by a
  clean-up that is still to be done, whichever step fails next and falls back on
  its own list; mobs need pinned chunks to be killed, so an unexcused mob means pinned
  chunks, and the kill comes before the release.
- `QuietRunAlwaysCleans`: from `QuietInv`, the same without failures.
- `LoadAlwaysOutlastsBench`: for every duration and interval. From `TimeInv`, one conjunct
  for the bench (while a tick waits or is being read, the time is at most that of the
  intervals so far and `lag`: a tick that is dropped found one that had waited, or a read
  that had taken, an interval), one for the
  drivers that sleep once, one for the fly load, whose seconds of sleep alternate
  with teleports: what has passed and what is left add up to the window.

**I/O storms** (`IOStormProofs`)

- `StormTypeCorrect`: with the floor under every limit, a negative `-wbps` included.
- `NoPhantomsEver`: from `WindowInv`. Before the window no container of the first scan
  counts more than it did there, after it no more than that and what it wrote. That
  totals over the devices add up is proved about the recursive function `Totals` with a
  smallest counterexample, since the provers cannot be given an induction rule.
- `OnlyTheWorstIsEverCapped`: from `StormInv`, the storm acted on is the first of those
  detected. `CHOOSE` is a definition only if there is something to choose, so the proof
  shows that every heavy writer with a victim has a worst victim (`WorstExists`), a
  writer has one storm at most, and one storm comes first (`FirstStorm`), by the
  finiteness of the containers.

The assumptions are those of the modules (types of the constants; for `Rcon` that fewer
requests are in flight than there are ids), and the hypotheses named above.

Only model-checked:

- liveness (`EventuallyYields`, `EventuallyResumes`, `StoppedStaysPaused`,
  `SettlesWithinBudget`, `HeadroomIsSpent`, `DryRunComesToRest`, `MemoryReliefArrives`) and
  the fairness of the refinement: the prover has no rule for fairness and `ENABLED`;
- `PreviewIsWhatHappens` and `LocksHold`: both are about the texts that `SelectSeq` and
  `SelectInSeq` compute from arbitrary files. These operators take a predicate as a
  parameter and are defined by recursion over the file, which needs an induction the
  provers cannot instantiate;
- `Tune`, which the run `files` exercises on three machines and two workloads;
- the four runs that find a violation.

## 6. Reading the model

Module comments name the Go or Java code of each action; `PROJECT.json` maps every
definition to its lines. Definitions marked external there (the game server's side
of RCON, Chunky, the players, the load, TCP) are modelled from how the code uses
them. To run a check: `tlc -config pregen_reliable.cfg MCPregen`; to check the
proofs: `tlapm PregenProofs.tla`.

## 7. Plan

All modules of the plan are written, and the safety properties of the passing runs are
proved but for two. What is left to prove:

1. `LocksHold` and `PreviewIsWhatHappens`: lemmas on `SelectSeq` and `SelectInSeq` by
   smallest counterexamples, as for the totals of `IOStorm`; then that `Rewritten` keeps
   the lines of every key that no change names.
2. `Tune`: the heap is at most the budget, `Recommend` names every key once and its
   distances are in range, for every machine and workload.
3. What the violated runs leave true: `CapsTheHammeredDevice` for a writer whose work
   did not move since it booted, `EditChangesItsFieldsOnly` for a single operator.

Not modelled: the parsing of sysfs, cgroup, JSON and TOML text; HTML; HTTP header and
token checks; logging and the heartbeat; statistics of samples and their
differences; configuration, detection, the optimizer, the scans of OS settings and
temperatures, and the hotspots list, which read once, keep no state and have no order of
steps that could go wrong.
