---------------------------- MODULE LoadtestProofs ----------------------------
(***************************************************************************)
(* What holds of `tickwarden loadtest` for any loads, any duration and     *)
(* interval, and however often commands fail, the process is killed and    *)
(* seconds pass: what a run leaves in the world is accounted for, a run    *)
(* without a warning leaves nothing of its kind, and the load lasts as     *)
(* long as the measurement.                                                *)
(***************************************************************************)
EXTENDS Loadtest, SequenceTheorems, TLAPS

\* A sequence, whatever its elements are.
IsList(s) == s \in Seq({s[i] : i \in DOMAIN s})

IsMob(m) == m[1] = "mob"

\* The marks no failure accounts for.
Unexcused == world \ excused

\* Some clean-up of a list of steps takes a mark away.
TakesBack(steps, m) ==
    \E i \in DOMAIN steps : steps[i].op = "cleanup" /\ m \in steps[i].removes

\* Once the chunks are released there is no mob left to kill.
KillsFirst(steps) ==
    \A i, k \in DOMAIN steps :
        /\ i < k /\ steps[i].op = "cleanup" /\ Pinned \in steps[i].removes
        /\ steps[k].op = "cleanup"
        => \A m \in steps[k].removes : ~ IsMob(m)

IsCleanUp(step) ==
    step.op = "cleanup" /\ step.adds = {} /\ step.onFail = <<>>

\* What a driver falls back to.
CleanUps(steps) ==
    IsList(steps) /\ KillsFirst(steps) /\ \A i \in DOMAIN steps : IsCleanUp(steps[i])

IsStep(step) ==
    \/ /\ step.op = "setup" /\ step.adds \subseteq Marks /\ step.removes = {}
       /\ CleanUps(step.onFail)
    \/ IsCleanUp(step)
    \/ step.op = "sleep" /\ step.seconds \in Nat

IsJob(steps) == IsList(steps) /\ \A i \in DOMAIN steps : IsStep(steps[i])

\* A set-up step before the i-th adds a mark.
AddedBefore(steps, i, m) ==
    \E k \in DOMAIN steps : k < i /\ steps[k].op = "setup" /\ m \in steps[k].adds

\* If the set-up fails here, its clean-up takes back what is there by then.
FallsBack(steps, there) ==
    \A i \in DOMAIN steps : steps[i].op = "setup" =>
        \A m \in Marks : m \in there \/ AddedBefore(steps, i, m)
                           => TakesBack(steps[i].onFail, m)

\* If it does not fail, the clean-up at its end takes back what it puts.
PutsBack(steps) ==
    \A i \in DOMAIN steps : steps[i].op = "setup" =>
        \A m \in steps[i].adds :
            \E k \in DOMAIN steps : i < k /\ steps[k].op = "cleanup" /\ m \in steps[k].removes

LeftoverInv ==
    /\ \A m \in Unexcused : TakesBack(job, m)
    /\ \A m \in Unexcused : IsMob(m) => Pinned \in world
    /\ FallsBack(job, Unexcused)
    /\ PutsBack(job)
    /\ KillsFirst(job)

\* While nothing failed: the marks of the load are still to be taken away, and
\* the chunks are pinned by the time the mobs are killed.
QuietInv ==
    ~ failed =>
        /\ load # NoLoad => \A m \in world \cap MarksOf(load) : TakesBack(job, m)
        /\ \A i \in DOMAIN job :
             job[i].op = "cleanup" /\ (\E m \in job[i].removes : IsMob(m))
               => Pinned \in world \/ AddedBefore(job, i, Pinned)

\* Of a fly load, from the end: the clean-up, then teleports and seconds of
\* sleep by turns, and the spawn first of all.
Flies(steps) ==
    \A i \in DOMAIN steps :
        /\ steps[i].op = "cleanup" <=> i = Len(steps)
        /\ steps[i].op = "sleep" => (Len(steps) - i) % 2 = 0 /\ steps[i].seconds = 1
        /\ steps[i].op = "setup" =>
             (Len(steps) - i) % 2 = 1 \/ Len(steps) - i = 2 * LoadWindow

\* When the sample under way would be taken if nothing were slow.
DueTime == (samples + 1) * interval

\* Of Bench: a tick that waits or is being read, and the next one if none is,
\* is late by no more than the seconds that ticks have waited and reads taken.
TicksInTime ==
    /\ load = NoLoad => now = 0 /\ samples = 0 /\ lag = 0
    /\ bench = "on" =>
         /\ now < next /\ next <= now + interval
         /\ (tick \/ reading) => now <= DueTime + lag
         /\ BenchWaits => next <= DueTime + lag

\* While nothing failed, no clean-up comes before the time of the load.
LastsByOneSleep ==
    ~ failed /\ load.kind # "fly" =>
        /\ wake # Awake => wake >= job[1].seconds
        /\ \A i \in DOMAIN job : job[i].op = "cleanup" =>
              \/ now >= LoadWindow
              \/ \E k \in DOMAIN job : k < i /\ job[k].op = "sleep" /\ job[k].seconds = LoadWindow

LastsByManySleeps ==
    ~ failed /\ load.kind = "fly" =>
        /\ Flies(job)
        /\ job # <<>> => 2 * now + Len(job) + (Len(job) % 2) >= 2 * LoadWindow
        /\ wake # Awake => 2 * wake + Len(job) >= 2 * LoadWindow + 1

TimeInv == TicksInTime /\ LastsByOneSleep /\ LastsByManySleeps

-----------------------------------------------------------------------------
(* Lists *)

(* A sequence over any set is a list.                                      *)
LEMMA ListOf ==
    ASSUME NEW S, NEW s \in Seq(S)
    PROVE  IsList(s)
<1> DEFINE R == {s[i] : i \in DOMAIN s}
<1>1. /\ Len(s) \in Nat /\ DOMAIN s = 1 .. Len(s)
      /\ \A i \in 1 .. Len(s) : s[i] \in R
  BY LenProperties
<1>2. SubSeq(s, 1, Len(s)) \in Seq(R)
  <2> HIDE DEF R
  <2> QED  BY <1>1, SubSeqProperties
<1>3. SubSeq(s, 1, Len(s)) = s
  BY <1>1, SubSeqProperties
<1> QED  BY <1>2, <1>3 DEF IsList

(* What a list is made of.                                                 *)
LEMMA ListFacts ==
    ASSUME NEW s, IsList(s)
    PROVE  /\ Len(s) \in Nat /\ DOMAIN s = 1 .. Len(s)
           /\ (s = <<>>) <=> (Len(s) = 0)
<1> DEFINE R == {s[i] : i \in DOMAIN s}
<1>1. s \in Seq(R)
  BY DEF IsList
<1> HIDE DEF R
<1>2. Len(s) \in Nat /\ DOMAIN s = 1 .. Len(s)
  BY <1>1, LenProperties
<1>3. s = <<>> <=> Len(s) = 0
  BY <1>1, EmptySeq
<1> QED  BY <1>2, <1>3

(* The tail of a list is a list of what comes after its first element.     *)
LEMMA TailFacts ==
    ASSUME NEW s, IsList(s), s # <<>>
    PROVE  /\ IsList(Tail(s)) /\ Len(Tail(s)) = Len(s) - 1
           /\ \A i \in DOMAIN Tail(s) : i + 1 \in DOMAIN s /\ Tail(s)[i] = s[i + 1]
<1> DEFINE R == {s[i] : i \in DOMAIN s}
<1>1. s \in Seq(R)
  BY DEF IsList
<1> HIDE DEF R
<1>2. /\ Tail(s) \in Seq(R) /\ Len(Tail(s)) = Len(s) - 1
      /\ \A i \in 1 .. Len(Tail(s)) : Tail(s)[i] = s[i + 1]
  BY <1>1, HeadTailProperties
<1>3. IsList(Tail(s))
  BY <1>2, ListOf
<1>4. /\ Len(s) \in Nat /\ DOMAIN s = 1 .. Len(s)
      /\ Len(Tail(s)) \in Nat /\ DOMAIN Tail(s) = 1 .. Len(Tail(s))
  BY <1>3, ListFacts
<1> QED  BY <1>2, <1>3, <1>4

(* A list of one.                                                          *)
LEMMA OneElement ==
    ASSUME NEW a, NEW s, s = <<a>>
    PROVE  /\ IsList(s) /\ Len(s) = 1 /\ s # <<>> /\ s[1] = a
           /\ \A i \in DOMAIN s : s[i] = a
<1>1. /\ s \in Seq({a}) /\ Len(s) = 1 /\ s # <<>> /\ s[1] = a
      /\ \A i \in DOMAIN s : s[i] = a
  OBVIOUS
<1> QED  BY <1>1, ListOf

(* A list of two.                                                          *)
LEMMA TwoElements ==
    ASSUME NEW a, NEW b, NEW s, s = <<a, b>>
    PROVE  /\ IsList(s) /\ Len(s) = 2 /\ s # <<>> /\ DOMAIN s = {1, 2}
           /\ s[1] = a /\ s[2] = b
<1>1. /\ s \in Seq({a, b}) /\ Len(s) = 2 /\ s # <<>> /\ DOMAIN s = {1, 2}
      /\ s[1] = a /\ s[2] = b
  OBVIOUS
<1> QED  BY <1>1, ListOf

\* A list of n elements; a list that is one after another; what it then is.
HasLength(s, n) == IsList(s) /\ Len(s) = n /\ n \in Nat
IsConcat(d, s, t) == d = s \o t
Joins(d, s, m, t, n) ==
    /\ HasLength(d, m + n)
    /\ \A i \in 1 .. m : d[i] = s[i]
    /\ \A i \in 1 .. n : d[m + i] = t[i]

(* A list after another.                                                   *)
LEMMA ConcatFacts ==
    ASSUME NEW m, NEW n, NEW s, NEW t, NEW d,
           HasLength(s, m), HasLength(t, n), IsConcat(d, s, t)
    PROVE  Joins(d, s, m, t, n)
<1> DEFINE R == {s[i] : i \in DOMAIN s}
           T == {t[i] : i \in DOMAIN t}
<1>1. s \in Seq(R \cup T) /\ t \in Seq(R \cup T)
  <2>1. s \in Seq(R) /\ t \in Seq(T)
    BY DEF HasLength, IsList
  <2> HIDE DEF R, T
  <2> QED  BY <2>1, SeqMonotonic
<1> HIDE DEF R, T
<1>2. /\ m \in Nat /\ n \in Nat /\ Len(s) = m /\ Len(t) = n /\ d = s \o t
  BY DEF HasLength, IsConcat
<1>3. /\ d \in Seq(R \cup T) /\ Len(d) = m + n
      /\ \A i \in 1 .. m + n : d[i] = IF i <= m THEN s[i] ELSE t[i - m]
  BY <1>2, <1>1, ConcatProperties
<1>4. IsList(d)
  BY <1>3, ListOf
<1>5. \A i \in 1 .. m : d[i] = s[i]
  BY <1>2, <1>3
<1>6. \A i \in 1 .. n : d[m + i] = t[i]
  BY <1>2, <1>3
<1>7. m + n \in Nat
  BY <1>2
<1> QED  BY <1>3, <1>4, <1>5, <1>6, <1>7 DEF HasLength, Joins

-----------------------------------------------------------------------------
(* Jobs without their first step *)

LEMMA Shifted ==
    ASSUME NEW i \in Nat, NEW k \in Nat
    PROVE  /\ i < k => i + 1 < k + 1
           /\ i + 1 < k => k # 1 /\ i < k - 1
           /\ k < i + 1 => k - 1 < i
OBVIOUS

LEMMA TailOfJob ==
    ASSUME NEW steps, IsJob(steps), steps # <<>>
    PROVE  /\ IsJob(Tail(steps)) /\ 1 \in DOMAIN steps /\ IsStep(steps[1])
           /\ \A i \in DOMAIN Tail(steps) :
                /\ i \in Nat /\ i + 1 \in DOMAIN steps /\ i + 1 # 1
                /\ Tail(steps)[i] = steps[i + 1]
           /\ \A i \in DOMAIN steps :
                /\ i \in Nat
                /\ i # 1 => /\ i > 1 /\ i - 1 \in DOMAIN Tail(steps)
                            /\ Tail(steps)[i - 1] = steps[i]
<1>1. PICK n \in Nat : n = Len(steps)
  BY ListFacts DEF IsJob
<1>2. n # 0 /\ DOMAIN steps = 1 .. n
  BY <1>1, ListFacts DEF IsJob
<1>3. /\ IsList(Tail(steps)) /\ Len(Tail(steps)) = n - 1
      /\ \A i \in DOMAIN Tail(steps) : i + 1 \in DOMAIN steps /\ Tail(steps)[i] = steps[i + 1]
  BY <1>1, TailFacts DEF IsJob
<1>4. DOMAIN Tail(steps) = 1 .. n - 1
  BY <1>3, ListFacts
<1>5. IsJob(Tail(steps))
  BY <1>3 DEF IsJob
<1>6. 1 \in DOMAIN steps /\ IsStep(steps[1])
  BY <1>1, <1>2 DEF IsJob
<1>7. \A i \in DOMAIN Tail(steps) : i \in Nat /\ i + 1 # 1
  BY <1>4
<1>8. ASSUME NEW i \in DOMAIN steps
      PROVE  /\ i \in Nat
             /\ i # 1 => /\ i > 1 /\ i - 1 \in DOMAIN Tail(steps)
                         /\ Tail(steps)[i - 1] = steps[i]
  <2>1. i \in Nat /\ (i # 1 => i > 1 /\ i - 1 \in DOMAIN Tail(steps)) /\ (i - 1) + 1 = i
    BY <1>2, <1>4
  <2> QED  BY <1>3, <2>1
<1> QED  BY <1>3, <1>5, <1>6, <1>7, <1>8

(* What a job takes back, its rest does, unless its first step did.        *)
LEMMA TailTakesBack ==
    ASSUME NEW steps, IsJob(steps), steps # <<>>, NEW m, TakesBack(steps, m),
           ~ (steps[1].op = "cleanup" /\ m \in steps[1].removes)
    PROVE  TakesBack(Tail(steps), m)
<1>1. PICK i \in DOMAIN steps : steps[i].op = "cleanup" /\ m \in steps[i].removes
  BY DEF TakesBack
<1>2. i # 1
  BY <1>1
<1>3. i - 1 \in DOMAIN Tail(steps) /\ Tail(steps)[i - 1] = steps[i]
  BY <1>2, TailOfJob
<1> QED  BY <1>1, <1>3 DEF TakesBack

(* What is added before a step of the rest is added before it in the job.  *)
LEMMA TailAddedBefore ==
    ASSUME NEW steps, IsJob(steps), steps # <<>>, NEW i \in DOMAIN Tail(steps), NEW m
    PROVE  /\ AddedBefore(Tail(steps), i, m) => AddedBefore(steps, i + 1, m)
           /\ steps[1].op = "setup" /\ m \in steps[1].adds => AddedBefore(steps, i + 1, m)
           /\ AddedBefore(steps, i + 1, m) =>
                \/ steps[1].op = "setup" /\ m \in steps[1].adds
                \/ AddedBefore(Tail(steps), i, m)
<1>1. ASSUME AddedBefore(Tail(steps), i, m)
      PROVE  AddedBefore(steps, i + 1, m)
  <2>1. PICK k \in DOMAIN Tail(steps) :
          k < i /\ Tail(steps)[k].op = "setup" /\ m \in Tail(steps)[k].adds
    BY <1>1 DEF AddedBefore
  <2>2. k + 1 \in DOMAIN steps /\ Tail(steps)[k] = steps[k + 1] /\ k \in Nat /\ i \in Nat
    BY TailOfJob
  <2>3. k + 1 < i + 1
    BY <2>1, <2>2, Shifted, Zenon
  <2> QED  BY <2>1, <2>2, <2>3 DEF AddedBefore
<1>2. ASSUME steps[1].op = "setup", m \in steps[1].adds
      PROVE  AddedBefore(steps, i + 1, m)
  <2>1. 1 \in DOMAIN steps /\ 1 < i + 1
    <3>1. i \in Nat /\ i + 1 # 1 /\ 1 \in DOMAIN steps
      BY TailOfJob
    <3> QED  BY <3>1
  <2> QED  BY <1>2, <2>1 DEF AddedBefore
<1>3. ASSUME AddedBefore(steps, i + 1, m), ~ (steps[1].op = "setup" /\ m \in steps[1].adds)
      PROVE  AddedBefore(Tail(steps), i, m)
  <2>1. PICK k \in DOMAIN steps :
          k < i + 1 /\ steps[k].op = "setup" /\ m \in steps[k].adds
    BY <1>3 DEF AddedBefore
  <2>2. k # 1
    BY <1>3, <2>1
  <2>3. k - 1 \in DOMAIN Tail(steps) /\ Tail(steps)[k - 1] = steps[k] /\ k \in Nat /\ i \in Nat
    BY <2>2, TailOfJob
  <2>4. k - 1 < i
    BY <2>1, <2>3, Shifted, Zenon
  <2> QED  BY <2>1, <2>3, <2>4 DEF AddedBefore
<1> QED  BY <1>1, <1>2, <1>3

(* What the marks of a failure fall back to, and what is put back, is the  *)
(* same for the rest of a job.                                             *)
LEMMA TailFits ==
    ASSUME NEW steps, IsJob(steps), steps # <<>>,
           PutsBack(steps), KillsFirst(steps), NEW there, NEW then, FallsBack(steps, there),
           \A m \in then : m \in there \/ (steps[1].op = "setup" /\ m \in steps[1].adds)
    PROVE  PutsBack(Tail(steps)) /\ KillsFirst(Tail(steps)) /\ FallsBack(Tail(steps), then)
<1> DEFINE rest == Tail(steps)
<1>1. \A i \in DOMAIN rest : i \in Nat /\ i + 1 \in DOMAIN steps /\ rest[i] = steps[i + 1]
  BY TailOfJob
<1>2. PutsBack(rest)
  <2> SUFFICES ASSUME NEW i \in DOMAIN rest, rest[i].op = "setup", NEW m \in rest[i].adds
               PROVE  \E k \in DOMAIN rest :
                        i < k /\ rest[k].op = "cleanup" /\ m \in rest[k].removes
    BY DEF PutsBack
  <2>1. PICK k \in DOMAIN steps :
          i + 1 < k /\ steps[k].op = "cleanup" /\ m \in steps[k].removes
    BY <1>1 DEF PutsBack
  <2>2. k \in Nat /\ i \in Nat
    BY <1>1, TailOfJob
  <2>3. k # 1 /\ i < k - 1
    BY <2>1, <2>2, Shifted, Zenon
  <2>4. k - 1 \in DOMAIN rest /\ rest[k - 1] = steps[k]
    BY <2>3, TailOfJob
  <2> QED  BY <2>1, <2>3, <2>4
<1>3. KillsFirst(rest)
  <2> SUFFICES ASSUME NEW i \in DOMAIN rest, NEW k \in DOMAIN rest, i < k,
                      rest[i].op = "cleanup", Pinned \in rest[i].removes,
                      rest[k].op = "cleanup", NEW m \in rest[k].removes
               PROVE  ~ IsMob(m)
    BY DEF KillsFirst
  <2>1. i + 1 < k + 1
    BY <1>1, Shifted, Zenon
  <2> QED  BY <1>1, <2>1 DEF KillsFirst
<1>4. FallsBack(rest, then)
  <2> SUFFICES ASSUME NEW i \in DOMAIN rest, rest[i].op = "setup", NEW m \in Marks,
                      m \in then \/ AddedBefore(rest, i, m)
               PROVE  TakesBack(rest[i].onFail, m)
    BY DEF FallsBack
  <2>1. m \in there \/ AddedBefore(steps, i + 1, m)
    BY TailAddedBefore
  <2> QED  BY <1>1, <2>1 DEF FallsBack
<1> QED  BY <1>2, <1>3, <1>4

(* A list of clean-ups has nothing to fall back from and puts nothing.     *)
LEMMA CleanUpsFit ==
    ASSUME NEW steps, CleanUps(steps), NEW there
    PROVE  /\ IsJob(steps) /\ FallsBack(steps, there) /\ PutsBack(steps) /\ KillsFirst(steps)
BY DEF CleanUps, IsJob, IsStep, IsCleanUp, FallsBack, PutsBack

LEMMA EmptyFits == CleanUps(<<>>) /\ \A m : ~ TakesBack(<<>>, m)
<1>1. <<>> \in Seq({}) /\ DOMAIN <<>> = {}
  OBVIOUS
<1>2. IsList(<<>>)
  BY <1>1, ListOf
<1> QED  BY <1>1, <1>2 DEF CleanUps, KillsFirst, TakesBack

-----------------------------------------------------------------------------
(* Types *)

TypeInv == TypeOK /\ IsJob(job)

LEMMA EmptyJob == IsJob(<<>>) /\ \A i : i \notin DOMAIN <<>>
<1>1. CleanUps(<<>>)
  BY EmptyFits
<1> QED  BY <1>1, CleanUpsFit

\* What the steps of Bench and the passing of time leave alone.
Undisturbed ==
    /\ UNCHANGED <<load, job, failed, wake, world, excused>>
    /\ now' = now \/ now' = now + 1

LEMMA Disturbances ==
    ASSUME [Next]_vars
    PROVE  \/ Undisturbed
           \/ StartRun
           \/ /\ Ends /\ job' = <<>> /\ UNCHANGED world
              /\ (job = <<>> /\ excused' = excused) \/ excused' = world
           \/ CommandAnswered \/ CommandFails \/ FallAsleep \/ WakeUp
BY DEF Next, Driver, vars, driverVars, benchVars, Undisturbed, ReceiveTick, TakeSample,
   BenchEnds, Interrupt, BenchOver, TimePasses, Finish, Killed, Ends

LEMMA CountType ==
    ASSUME interval \in BenchIntervals
    PROVE  Count \in Nat \ {0} /\ interval \in Nat \ {0}
<1>1. interval \in Nat \ {0} /\ Duration \in Nat
  BY LoadtestAssumption
<1>2. PICK q \in Nat : q = Duration \div interval
  BY <1>1
<1> QED  BY <1>1, <1>2 DEF Count

LEMMA MarksFacts ==
    /\ {NoSpawning, Pinned, ChunkyTask} \subseteq Marks
    /\ \A l \in Loads : Bots(l.count) \subseteq Marks
    /\ \A l \in Loads : Mobs(l.count) \subseteq TaggedMobs
    /\ TaggedMobs \subseteq Marks
BY DEF Marks, TaggedMobs

LEMMA NoLoadIsNone == NoLoad \notin Loads
<1>1. NoLoad.kind = "none"
  BY DEF NoLoad
<1>2. \A l \in Loads : l.kind # "none"
  BY LoadtestAssumption
<1> QED  BY <1>1, <1>2

LEMMA TypeInit == Init => TypeInv
<1> SUFFICES ASSUME Init PROVE TypeInv
  OBVIOUS
<1>0. interval \in BenchIntervals
  BY DEF Init
<1>1. 0 \in 0 .. Count /\ 0 \in 0 .. MaxRuns /\ 0 \in 0 .. MaxFaults /\ 0 \in 0 .. MaxDelays
  BY <1>0, CountType, LoadtestAssumption
<1>2. TypeOK
  BY <1>1 DEF TypeOK, Init, Idle, Awake
<1>3. IsJob(job)
  BY EmptyJob DEF Init, Idle
<1> QED  BY <1>2, <1>3 DEF TypeInv

LEMMA IntervalKept == [Next]_vars => interval' = interval
BY DEF Next, Driver, vars, driverVars, benchVars, StartRun, ReceiveTick, TakeSample,
   BenchEnds, Interrupt, BenchOver, TimePasses, Finish, Killed, Ends, CommandAnswered,
   CommandFails, FallAsleep, WakeUp

\* The counters of a model stay within their bounds.
LEMMA CountersStep ==
    ASSUME TypeOK, [Next]_vars
    PROVE  /\ interval' \in BenchIntervals
           /\ runs' \in 0 .. MaxRuns /\ faults' \in 0 .. MaxFaults /\ delays' \in 0 .. MaxDelays
           /\ now' \in Nat
<1>1. /\ interval \in BenchIntervals
      /\ runs \in 0 .. MaxRuns /\ faults \in 0 .. MaxFaults /\ delays \in 0 .. MaxDelays
      /\ MaxRuns \in Nat /\ MaxFaults \in Nat /\ MaxDelays \in Nat
      /\ now \in Nat
  BY LoadtestAssumption DEF TypeOK
<1>2. interval' = interval
  BY IntervalKept
<1>3. runs' = runs \/ (runs < MaxRuns /\ runs' = runs + 1)
  BY DEF Next, Driver, vars, driverVars, benchVars, StartRun, ReceiveTick, TakeSample,
     BenchEnds, Interrupt, BenchOver, TimePasses, Finish, Killed, Ends, CommandAnswered, CommandFails,
     FallAsleep, WakeUp
<1>4. faults' = faults \/ (faults < MaxFaults /\ faults' = faults + 1)
  BY DEF Next, Driver, vars, driverVars, benchVars, StartRun, ReceiveTick, TakeSample,
     BenchEnds, Interrupt, BenchOver, TimePasses, Finish, Killed, Ends, CommandAnswered, CommandFails,
     FallAsleep, WakeUp
<1>5. delays' = delays \/ (delays < MaxDelays /\ delays' = delays + 1)
  BY DEF Next, Driver, vars, driverVars, benchVars, StartRun, ReceiveTick, TakeSample,
     BenchEnds, Interrupt, BenchOver, TimePasses, Finish, Killed, Ends, CommandAnswered, CommandFails,
     FallAsleep, WakeUp
<1>6. now' \in {now, now + 1, 0}
  BY DEF Next, Driver, vars, driverVars, benchVars, StartRun, ReceiveTick, TakeSample,
     BenchEnds, Interrupt, BenchOver, TimePasses, Finish, Killed, Ends, CommandAnswered, CommandFails,
     FallAsleep, WakeUp
<1>9. runs' \in 0 .. MaxRuns /\ faults' \in 0 .. MaxFaults /\ delays' \in 0 .. MaxDelays
  BY <1>1, <1>3, <1>4, <1>5
<1>10. now' \in Nat
  BY <1>1, <1>6
<1> QED  BY <1>1, <1>2, <1>9, <1>10

-----------------------------------------------------------------------------
(* The drivers *)

LEMMA FunctionList ==
    ASSUME NEW n \in Nat, NEW s, s = [i \in 1 .. n |-> s[i]]
    PROVE  IsList(s) /\ Len(s) = n /\ DOMAIN s = 1 .. n
<1> DEFINE R == {s[i] : i \in 1 .. n}
<1>1. \A i \in 1 .. n : s[i] \in R
  OBVIOUS
<1>2. s \in [1 .. n -> R]
  <2> HIDE DEF R
  <2> QED  BY <1>1
<1>3. s \in Seq(R) /\ Len(s) = n
  <2> HIDE DEF R
  <2> QED  BY <1>2
<1>4. DOMAIN s = 1 .. n
  BY <1>2
<1> QED  BY <1>3, <1>4, ListOf

LEMMA SetUpFields ==
    ASSUME NEW a, a \subseteq Marks, NEW f, CleanUps(f), NEW s, s = SetUp(a, f)
    PROVE  /\ IsStep(s) /\ s.op = "setup"
           /\ s.adds = a /\ s.removes = {} /\ s.onFail = f
<1>1. s.op = "setup" /\ s.adds = a /\ s.removes = {} /\ s.onFail = f
  BY DEF SetUp
<1> QED  BY <1>1 DEF IsStep

LEMMA CleanUpFields ==
    ASSUME NEW a, NEW s, s = CleanUp(a)
    PROVE  IsStep(s) /\ IsCleanUp(s) /\ s.op = "cleanup" /\ s.removes = a
<1>1. s.op = "cleanup" /\ s.adds = {} /\ s.removes = a /\ s.onFail = <<>>
  BY DEF CleanUp
<1> QED  BY <1>1 DEF IsStep, IsCleanUp

LEMMA SleepFields ==
    ASSUME NEW a \in Nat, NEW s, s = Sleep(a)
    PROVE  IsStep(s) /\ s.op = "sleep" /\ s.seconds = a
<1>1. s.op = "sleep" /\ s.seconds = a
  BY DEF Sleep
<1> QED  BY <1>1 DEF IsStep

LEMMA LoadWindowType == LoadWindow \in Nat /\ LoadWindow = Duration + 2 /\ LoadWindow # 0
BY LoadtestAssumption DEF LoadWindow

LEMMA MarkKinds ==
    /\ ~ IsMob(NoSpawning) /\ ~ IsMob(Pinned) /\ ~ IsMob(ChunkyTask)
    /\ \A i : ~ IsMob(Bot(i)) /\ Bot(i) # Pinned
    /\ \A i : IsMob(Mob(i)) /\ Mob(i) # Pinned
    /\ NoSpawning # Pinned /\ ChunkyTask # Pinned
    /\ \A m \in TaggedMobs : IsMob(m) /\ m # Pinned
BY DEF IsMob, NoSpawning, Pinned, ChunkyTask, Bot, Mob, TaggedMobs, Mobs

\* Mobs are killed only after the chunks were pinned.
PinsFirst(steps) ==
    \A i \in DOMAIN steps :
        steps[i].op = "cleanup" /\ (\E m \in steps[i].removes : IsMob(m))
          => AddedBefore(steps, i, Pinned)

\* What is taken away is taken away after the sleep.
SleepsFirst(steps) ==
    \A i \in DOMAIN steps : steps[i].op = "cleanup" =>
        \E k \in DOMAIN steps :
            k < i /\ steps[k].op = "sleep" /\ steps[k].seconds = LoadWindow

Sound(steps, marks) ==
    /\ IsJob(steps) /\ FallsBack(steps, {}) /\ PutsBack(steps)
    /\ KillsFirst(steps) /\ PinsFirst(steps)
    /\ \A m \in marks : TakesBack(steps, m)

LEMMA ChunkyFits ==
    ASSUME NEW count
    PROVE  Sound(ChunkyBurst(count), {ChunkyTask}) /\ SleepsFirst(ChunkyBurst(count))
<1>1. PICK s, c, z, e : /\ s = SetUp({}, <<>>) /\ c = SetUp({ChunkyTask}, <<>>)
                        /\ z = Sleep(LoadWindow) /\ e = CleanUp({ChunkyTask})
  OBVIOUS
<1>2. PICK d : d = ChunkyBurst(count)
  OBVIOUS
<1>3. /\ IsStep(s) /\ IsStep(c) /\ IsStep(z) /\ IsStep(e)
      /\ s.op = "setup" /\ s.adds = {} /\ c.op = "setup" /\ c.adds = {ChunkyTask}
      /\ z.op = "sleep" /\ z.seconds = LoadWindow
      /\ e.op = "cleanup" /\ e.removes = {ChunkyTask}
  <2>1. CleanUps(<<>>) /\ {} \subseteq Marks /\ {ChunkyTask} \subseteq Marks
        /\ LoadWindow \in Nat
    BY EmptyFits, MarksFacts, LoadWindowType
  <2>2. IsStep(s) /\ s.op = "setup" /\ s.adds = {}
    BY <1>1, <2>1, SetUpFields
  <2>3. IsStep(c) /\ c.op = "setup" /\ c.adds = {ChunkyTask}
    BY <1>1, <2>1, SetUpFields
  <2>4. IsStep(z) /\ z.op = "sleep" /\ z.seconds = LoadWindow
    BY <1>1, <2>1, SleepFields
  <2>5. IsStep(e) /\ e.op = "cleanup" /\ e.removes = {ChunkyTask}
    BY <1>1, CleanUpFields
  <2> QED  BY <2>2, <2>3, <2>4, <2>5
<1>4. d = <<s, s, s, c, z, e>>
  BY <1>1, <1>2 DEF ChunkyBurst
<1>5. /\ d \in Seq({s, c, z, e}) /\ DOMAIN d = {1, 2, 3, 4, 5, 6}
      /\ d[1] = s /\ d[2] = s /\ d[3] = s /\ d[4] = c /\ d[5] = z /\ d[6] = e
  BY <1>4
<1>6. IsList(d)
  BY <1>5, ListOf
<1>7. \A i \in DOMAIN d : d[i] = s \/ i = 4 \/ i = 5 \/ i = 6
  BY <1>5
<1>8. IsJob(d)
  BY <1>3, <1>5, <1>6, <1>7 DEF IsJob
<1>9. FallsBack(d, {})
  <2> SUFFICES ASSUME NEW i \in DOMAIN d, d[i].op = "setup",
                      NEW m, AddedBefore(d, i, m)
               PROVE  FALSE
    BY DEF FallsBack
  <2>1. PICK k \in DOMAIN d : k < i /\ d[k].op = "setup" /\ m \in d[k].adds
    BY DEF AddedBefore
  <2>2. k = 4
    BY <1>3, <1>5, <1>7, <2>1
  <2>3. i = 5 \/ i = 6
    BY <1>5, <2>1, <2>2
  <2> QED  BY <1>3, <1>5, <2>3
<1>10. PutsBack(d)
  <2> SUFFICES ASSUME NEW i \in DOMAIN d, d[i].op = "setup", NEW m \in d[i].adds
               PROVE  i < 6 /\ m \in d[6].removes /\ d[6].op = "cleanup" /\ 6 \in DOMAIN d
    BY DEF PutsBack
  <2>1. i = 4
    BY <1>3, <1>5, <1>7
  <2> QED  BY <1>3, <1>5, <2>1
<1>11. \A i \in DOMAIN d : d[i].op = "cleanup" => i = 6
  BY <1>3, <1>5, <1>7
<1>12. KillsFirst(d) /\ PinsFirst(d)
  BY <1>3, <1>5, <1>11, MarkKinds DEF KillsFirst, PinsFirst
<1>13. \A m \in {ChunkyTask} : TakesBack(d, m)
  BY <1>3, <1>5 DEF TakesBack
<1>14. SleepsFirst(d)
  <2>1. 5 \in DOMAIN d /\ 5 < 6
    BY <1>5
  <2> QED  BY <1>3, <1>5, <1>11, <2>1 DEF SleepsFirst
<1> QED  BY <1>2, <1>8, <1>9, <1>10, <1>12, <1>13, <1>14 DEF Sound

(* DespawnBots takes every bot away.                                       *)
LEMMA DespawnFits ==
    ASSUME NEW count \in Nat
    PROVE  /\ CleanUps(DespawnBots(count)) /\ Len(DespawnBots(count)) = count
           /\ DOMAIN DespawnBots(count) = 1 .. count
           /\ \A i \in 1 .. count : DespawnBots(count)[i].removes = {Bot(i - 1)}
           /\ \A m \in Bots(count) : TakesBack(DespawnBots(count), m)
<1>1. PICK d : d = DespawnBots(count)
  OBVIOUS
<1>2. d = [i \in 1 .. count |-> CleanUp({Bot(i - 1)})]
  BY <1>1 DEF DespawnBots
<1>3. \A i \in 1 .. count :
        IsCleanUp(d[i]) /\ d[i].op = "cleanup" /\ d[i].removes = {Bot(i - 1)}
  BY <1>2, CleanUpFields
<1>4. d = [i \in 1 .. count |-> d[i]]
  BY <1>2
<1>5. IsList(d) /\ Len(d) = count /\ DOMAIN d = 1 .. count
  BY <1>4, FunctionList
<1>6. KillsFirst(d)
  BY <1>3, <1>5, MarkKinds DEF KillsFirst
<1>7. ASSUME NEW m \in Bots(count) PROVE TakesBack(d, m)
  <2>1. PICK i \in 0 .. count - 1 : m = Bot(i)
    BY DEF Bots
  <2>2. i + 1 \in 1 .. count /\ (i + 1) - 1 = i
    OBVIOUS
  <2>3. d[i + 1].op = "cleanup" /\ m \in d[i + 1].removes
    BY <1>3, <2>1, <2>2
  <2> QED  BY <1>5, <2>2, <2>3 DEF TakesBack
<1> QED  BY <1>1, <1>3, <1>5, <1>6, <1>7 DEF CleanUps

LEMMA PlayerFits ==
    ASSUME NEW count \in Nat, Bots(count) \subseteq Marks
    PROVE  Sound(PlayerLoad(count), Bots(count)) /\ SleepsFirst(PlayerLoad(count))
<1>1. PICK d, a, b, e, p : /\ d = PlayerLoad(count) /\ e = DespawnBots(count)
                           /\ a = [i \in 1 .. count |-> SetUp({Bot(i - 1)}, e)]
                           /\ b = <<Sleep(LoadWindow)>> /\ p = a \o b
  OBVIOUS
<1>2. d = p \o e /\ p = a \o b
  BY <1>1 DEF PlayerLoad
<1>3. /\ CleanUps(e) /\ IsList(e) /\ Len(e) = count
      /\ \A i \in 1 .. count : e[i].removes = {Bot(i - 1)} /\ IsCleanUp(e[i])
      /\ \A m \in Bots(count) : TakesBack(e, m)
  BY <1>1, DespawnFits DEF CleanUps
<1>4. /\ IsList(a) /\ Len(a) = count
      /\ \A i \in 1 .. count : /\ IsStep(a[i]) /\ a[i].op = "setup"
                               /\ a[i].adds = {Bot(i - 1)} /\ a[i].onFail = e
  <2>1. a = [i \in 1 .. count |-> a[i]]
    BY <1>1
  <2>2. \A i \in 1 .. count : a[i] = SetUp({Bot(i - 1)}, e) /\ {Bot(i - 1)} \subseteq Marks
    <3>1. \A i \in 1 .. count : i - 1 \in 0 .. count - 1
      OBVIOUS
    <3> QED  BY <1>1, <3>1 DEF Bots
  <2>3. \A i \in 1 .. count : /\ IsStep(a[i]) /\ a[i].op = "setup"
                             /\ a[i].adds = {Bot(i - 1)} /\ a[i].onFail = e
    <3> SUFFICES ASSUME NEW i \in 1 .. count
                 PROVE  /\ IsStep(a[i]) /\ a[i].op = "setup"
                        /\ a[i].adds = {Bot(i - 1)} /\ a[i].onFail = e
      OBVIOUS
    <3>1. PICK s : s = a[i]
      OBVIOUS
    <3>2. PICK x : x = {Bot(i - 1)}
      OBVIOUS
    <3>3. s = SetUp(x, e) /\ x \subseteq Marks
      BY <2>2, <3>1, <3>2
    <3>4. CleanUps(e)
      BY <1>3
    <3>5. IsStep(s) /\ s.op = "setup" /\ s.adds = x /\ s.onFail = e
      BY <3>3, <3>4, SetUpFields
    <3> QED  BY <3>1, <3>2, <3>5
  <2>4. IsList(a) /\ Len(a) = count
    BY <2>1, FunctionList
  <2> QED  BY <2>3, <2>4
<1>5. /\ IsList(b) /\ Len(b) = 1
      /\ IsStep(b[1]) /\ b[1].op = "sleep" /\ b[1].seconds = LoadWindow
  <2>1. IsList(b) /\ Len(b) = 1 /\ b[1] = Sleep(LoadWindow)
    BY <1>1, OneElement
  <2> QED  BY <2>1, LoadWindowType, SleepFields
<1>6. PICK one \in Nat, front \in Nat, all \in Nat :
        one = 1 /\ front = count + 1 /\ all = count + 1 + count
  OBVIOUS
<1>7. /\ IsList(d) /\ Len(d) = all /\ DOMAIN d = 1 .. all
      /\ \A i \in 1 .. count : d[i] = a[i]
      /\ d[count + 1] = b[1]
      /\ \A i \in 1 .. count : d[count + 1 + i] = e[i]
  <2>1. /\ HasLength(a, count) /\ HasLength(b, one) /\ HasLength(e, count)
        /\ IsConcat(p, a, b) /\ IsConcat(d, p, e)
    BY <1>2, <1>3, <1>4, <1>5, <1>6 DEF HasLength, IsConcat
  <2>2. front = count + one /\ all = front + count
    BY <1>6
  <2>3. /\ HasLength(p, front)
        /\ \A i \in 1 .. count : p[i] = a[i]
        /\ \A i \in 1 .. one : p[count + i] = b[i]
    <3>1. Joins(p, a, count, b, one)
      BY <2>1, ConcatFacts, Zenon
    <3> QED  BY <2>2, <3>1 DEF Joins
  <2>4. /\ HasLength(d, all)
        /\ \A i \in 1 .. front : d[i] = p[i]
        /\ \A i \in 1 .. count : d[front + i] = e[i]
    <3>1. Joins(d, p, front, e, count)
      BY <2>1, <2>3, ConcatFacts, Zenon
    <3> QED  BY <2>2, <3>1 DEF Joins
  <2>5. IsList(d) /\ Len(d) = all /\ DOMAIN d = 1 .. all
    BY <2>4, ListFacts DEF HasLength
  <2>6. \A i \in 1 .. count : d[i] = a[i]
    BY <1>6, <2>3, <2>4
  <2>7. d[count + 1] = b[1]
    BY <1>6, <2>3, <2>4
  <2>8. \A i \in 1 .. count : d[count + 1 + i] = e[i]
    BY <1>6, <2>4
  <2> QED  BY <2>5, <2>6, <2>7, <2>8
<1>8. /\ DOMAIN d = 1 .. count + 1 + count
      /\ \A i \in 1 .. count : d[i] = a[i]
      /\ d[count + 1] = b[1]
      /\ \A i \in 1 .. count : d[count + 1 + i] = e[i]
  BY <1>6, <1>7
<1>9. ASSUME NEW i \in DOMAIN d
      PROVE  \/ i \in 1 .. count /\ d[i] = a[i]
             \/ i = count + 1 /\ d[i] = b[1]
             \/ \E k \in 1 .. count : i = count + 1 + k /\ d[i] = e[k]
  <2>1. CASE i > count + 1
    <3>1. i - (count + 1) \in 1 .. count /\ i = count + 1 + (i - (count + 1))
      BY <1>8, <2>1
    <3> QED  BY <1>8, <3>1
  <2>2. CASE i <= count + 1
    BY <1>8, <2>2
  <2> QED  BY <1>8, <2>1, <2>2
<1>10. \A i \in DOMAIN d :
         /\ IsStep(d[i])
         /\ d[i].op = "setup" => i \in 1 .. count /\ d[i].onFail = e /\ d[i].adds = {Bot(i - 1)}
         /\ d[i].op = "cleanup" =>
              i > count + 1 /\ \E k \in 1 .. count : d[i].removes = {Bot(k - 1)}
  <2> SUFFICES ASSUME NEW i \in DOMAIN d
               PROVE  /\ IsStep(d[i])
                      /\ d[i].op = "setup" =>
                           i \in 1 .. count /\ d[i].onFail = e /\ d[i].adds = {Bot(i - 1)}
                      /\ d[i].op = "cleanup" =>
                           i > count + 1 /\ \E k \in 1 .. count : d[i].removes = {Bot(k - 1)}
    OBVIOUS
  <2>1. CASE i \in 1 .. count /\ d[i] = a[i]
    BY <1>4, <2>1
  <2>2. CASE i = count + 1 /\ d[i] = b[1]
    BY <1>5, <2>2
  <2>3. ASSUME NEW k \in 1 .. count, i = count + 1 + k, d[i] = e[k]
        PROVE  /\ IsStep(d[i]) /\ d[i].op = "cleanup" /\ i > count + 1
               /\ d[i].removes = {Bot(k - 1)}
    BY <1>3, <2>3 DEF IsStep, IsCleanUp
  <2> QED  BY <1>9, <2>1, <2>2, <2>3
<1>11. IsJob(d)
  BY <1>7, <1>10 DEF IsJob
<1>12. FallsBack(d, {})
  <2> SUFFICES ASSUME NEW i \in DOMAIN d, d[i].op = "setup",
                      NEW m, AddedBefore(d, i, m)
               PROVE  TakesBack(e, m)
    BY <1>10 DEF FallsBack
  <2>1. PICK k \in DOMAIN d : d[k].op = "setup" /\ m \in d[k].adds
    BY DEF AddedBefore
  <2>2. k \in 1 .. count /\ m = Bot(k - 1) /\ k - 1 \in 0 .. count - 1
    BY <1>10, <2>1
  <2> QED  BY <1>3, <2>2 DEF Bots
<1>13. PutsBack(d)
  <2> SUFFICES ASSUME NEW i \in DOMAIN d, d[i].op = "setup", NEW m \in d[i].adds
               PROVE  \E k \in DOMAIN d :
                        i < k /\ d[k].op = "cleanup" /\ m \in d[k].removes
    BY DEF PutsBack
  <2>1. i \in 1 .. count /\ m = Bot(i - 1)
    BY <1>10
  <2>2. count + 1 + i \in DOMAIN d /\ i < count + 1 + i
    BY <1>8, <2>1
  <2>3. d[count + 1 + i].op = "cleanup" /\ m \in d[count + 1 + i].removes
    BY <1>3, <1>8, <2>1 DEF IsCleanUp
  <2> QED  BY <2>2, <2>3
<1>14. KillsFirst(d) /\ PinsFirst(d)
  BY <1>10, MarkKinds DEF KillsFirst, PinsFirst
<1>15. ASSUME NEW m \in Bots(count) PROVE TakesBack(d, m)
  <2>1. PICK i \in 0 .. count - 1 : m = Bot(i)
    BY DEF Bots
  <2>2. i + 1 \in 1 .. count /\ (i + 1) - 1 = i /\ count + 1 + (i + 1) \in DOMAIN d
    BY <1>8
  <2>3. d[count + 1 + (i + 1)].op = "cleanup" /\ m \in d[count + 1 + (i + 1)].removes
    BY <1>3, <1>8, <2>1, <2>2 DEF IsCleanUp
  <2> QED  BY <2>2, <2>3 DEF TakesBack
<1>16. SleepsFirst(d)
  <2>1. count + 1 \in DOMAIN d
    BY <1>8
  <2>2. \A i \in DOMAIN d : d[i].op = "cleanup" => count + 1 < i
    BY <1>8, <1>10
  <2> QED  BY <1>5, <1>8, <2>1, <2>2 DEF SleepsFirst
<1> QED  BY <1>1, <1>11, <1>12, <1>13, <1>14, <1>15, <1>16 DEF Sound

LEMMA Parity ==
    ASSUME NEW w \in Nat, NEW i \in Nat
    PROVE  /\ i % 2 = 0 => (2 * w - i) % 2 = 0
           /\ i % 2 # 0 => (2 * w - i) % 2 = 1
OBVIOUS

LEMMA FlyFits ==
    ASSUME NEW count, Bots(1) \subseteq Marks
    PROVE  /\ Sound(FlyLoad(count), Bots(1)) /\ Flies(FlyLoad(count))
           /\ Len(FlyLoad(count)) = 2 * LoadWindow + 1
<1>1. PICK one \in Nat, w \in Nat, n \in Nat, front \in Nat, all \in Nat :
        /\ one = 1 /\ w = LoadWindow /\ w # 0
        /\ n = 2 * w - 1 /\ front = 2 * w /\ all = 2 * w + 1
  <2>1. PICK w \in Nat : w = LoadWindow /\ w # 0
    BY LoadWindowType
  <2>2. 1 \in Nat /\ 2 * w - 1 \in Nat /\ 2 * w \in Nat /\ 2 * w + 1 \in Nat
    BY <2>1
  <2> QED  BY <2>1, <2>2
<1>a. PICK e, s, z : e = DespawnBots(one) /\ s = SetUp({Bot(0)}, <<>>) /\ z = Sleep(one)
  OBVIOUS
<1>b. PICK a, t : a = <<s>> /\ t = SetUp({}, e)
  OBVIOUS
<1>c. PICK b : b = [i \in 1 .. n |-> IF i % 2 = 0 THEN z ELSE t]
  OBVIOUS
<1>d. PICK d, p : d = FlyLoad(count) /\ p = a \o b
  OBVIOUS
<1>2. /\ d = FlyLoad(count) /\ e = DespawnBots(one) /\ s = SetUp({Bot(0)}, <<>>)
      /\ z = Sleep(one) /\ t = SetUp({}, e) /\ a = <<s>> /\ p = a \o b
      /\ b = [i \in 1 .. n |-> IF i % 2 = 0 THEN z ELSE t]
  BY <1>a, <1>b, <1>c, <1>d
<1>3. d = p \o e /\ p = a \o b
  BY <1>1, <1>2 DEF FlyLoad
<1>4. /\ CleanUps(e) /\ IsList(e) /\ Len(e) = one
      /\ e[1].removes = {Bot(0)} /\ IsCleanUp(e[1]) /\ e[1].op = "cleanup"
      /\ \A m \in Bots(one) : TakesBack(e, m)
  <2>1. /\ CleanUps(e) /\ Len(e) = one /\ DOMAIN e = 1 .. one
        /\ \A i \in 1 .. one : e[i].removes = {Bot(i - 1)}
        /\ \A m \in Bots(one) : TakesBack(e, m)
    BY <1>2, DespawnFits
  <2>2. 1 \in 1 .. one /\ 1 - 1 = 0
    BY <1>1
  <2> QED  BY <2>1, <2>2 DEF CleanUps, IsCleanUp
<1>5. /\ IsStep(s) /\ s.op = "setup" /\ s.adds = {Bot(0)} /\ s.onFail = <<>>
      /\ IsStep(t) /\ t.op = "setup" /\ t.adds = {} /\ t.onFail = e
      /\ IsStep(z) /\ z.op = "sleep" /\ z.seconds = 1
  <2>1. PICK x : x = {Bot(0)}
    OBVIOUS
  <2>2. x \subseteq Marks
    BY <2>1 DEF Bots
  <2>3. PICK nothing : nothing = <<>>
    OBVIOUS
  <2>4. CleanUps(nothing) /\ s = SetUp(x, nothing)
    BY <1>2, <2>1, <2>3, EmptyFits
  <2>5. IsStep(s) /\ s.op = "setup" /\ s.adds = x /\ s.onFail = nothing
    BY <2>2, <2>4, SetUpFields
  <2>6. PICK y : y = {}
    OBVIOUS
  <2>7. IsStep(t) /\ t.op = "setup" /\ t.adds = y /\ t.onFail = e
    <3>1. y \subseteq Marks /\ t = SetUp(y, e) /\ CleanUps(e)
      BY <1>2, <1>4, <2>6
    <3> QED  BY <3>1, SetUpFields
  <2>8. IsStep(z) /\ z.op = "sleep" /\ z.seconds = one
    BY <1>2, SleepFields
  <2> QED  BY <1>1, <2>1, <2>3, <2>5, <2>6, <2>7, <2>8
<1>6. HasLength(a, one) /\ HasLength(b, n) /\ HasLength(e, one) /\ a[1] = s
  <2>1. IsList(a) /\ Len(a) = 1 /\ a[1] = s
    BY <1>2, OneElement
  <2>2. b = [i \in 1 .. n |-> b[i]]
    BY <1>2
  <2>3. IsList(b) /\ Len(b) = n
    BY <2>2, FunctionList
  <2> QED  BY <1>1, <1>4, <2>1, <2>3 DEF HasLength
<1>7. /\ IsList(d) /\ Len(d) = all /\ DOMAIN d = 1 .. all
      /\ d[1] = s /\ d[all] = e[1]
      /\ \A i \in 1 .. n : d[1 + i] = b[i]
  <2>1. one + n = front /\ front + one = all
    BY <1>1
  <2>2. Joins(p, a, one, b, n)
    <3>1. IsConcat(p, a, b)
      BY <1>3 DEF IsConcat
    <3> QED  BY <1>6, <3>1, ConcatFacts, Zenon
  <2>3. /\ HasLength(p, front) /\ \A i \in 1 .. one : p[i] = a[i]
        /\ \A i \in 1 .. n : p[one + i] = b[i]
    BY <2>1, <2>2 DEF Joins
  <2>4. Joins(d, p, front, e, one)
    <3>1. IsConcat(d, p, e)
      BY <1>3 DEF IsConcat
    <3> QED  BY <1>6, <2>3, <3>1, ConcatFacts, Zenon
  <2>5. /\ HasLength(d, all) /\ \A i \in 1 .. front : d[i] = p[i]
        /\ \A i \in 1 .. one : d[front + i] = e[i]
    BY <2>1, <2>4 DEF Joins
  <2>6. IsList(d) /\ Len(d) = all /\ DOMAIN d = 1 .. all
    BY <2>5, ListFacts DEF HasLength
  <2>7. d[1] = s
    BY <1>1, <1>6, <2>3, <2>5
  <2>8. d[all] = e[1]
    BY <1>1, <2>5
  <2>9. \A i \in 1 .. n : d[1 + i] = b[i]
    BY <1>1, <2>3, <2>5
  <2> QED  BY <2>6, <2>7, <2>8, <2>9
<1>8. ASSUME NEW i \in DOMAIN d
      PROVE  \/ i = 1 /\ d[i] = s
             \/ i = all /\ d[i] = e[1]
             \/ i # 1 /\ i # all /\ (all - i) % 2 = 0 /\ d[i] = z
             \/ i # 1 /\ i # all /\ (all - i) % 2 = 1 /\ d[i] = t
  <2>1. PICK k \in Nat : i = 1 + k
    <3>1. i - 1 \in Nat /\ i = 1 + (i - 1)
      BY <1>1, <1>7
    <3> QED  BY <3>1
  <2>2. CASE k = 0
    BY <1>7, <2>1, <2>2
  <2>3. CASE k = n + 1
    BY <1>1, <1>7, <2>1, <2>3
  <2>4. CASE k # 0 /\ k # n + 1
    <3>1. k \in 1 .. n /\ i # 1 /\ i # all /\ all - i = 2 * w - k
      <4>1. i \in 1 .. all
        BY <1>7
      <4> QED  BY <1>1, <2>1, <2>4, <4>1
    <3>2. d[i] = IF k % 2 = 0 THEN z ELSE t
      BY <1>2, <1>7, <2>1, <3>1
    <3>3. /\ k % 2 = 0 => (2 * w - k) % 2 = 0
          /\ k % 2 # 0 => (2 * w - k) % 2 = 1
      BY Parity
    <3>4. CASE k % 2 = 0
      <4>1. (all - i) % 2 = 0
        BY <3>1, <3>3, <3>4
      <4> QED  BY <3>1, <3>2, <3>4, <4>1
    <3>5. CASE k % 2 # 0
      <4>1. (all - i) % 2 = 1
        BY <3>1, <3>3, <3>5
      <4> QED  BY <3>1, <3>2, <3>5, <4>1
    <3> QED  BY <3>4, <3>5
  <2> QED  BY <2>2, <2>3, <2>4
<1>9. 1 \in DOMAIN d /\ all \in DOMAIN d /\ all # 1 /\ \A i \in DOMAIN d : i \in Nat /\ i <= all
  BY <1>1, <1>7
<1>10. ASSUME NEW i \in DOMAIN d
       PROVE  /\ IsStep(d[i])
              /\ d[i].op = "setup" => \/ i = 1 /\ d[i].onFail = <<>> /\ d[i].adds = {Bot(0)}
                                      \/ i # 1 /\ d[i].onFail = e /\ d[i].adds = {}
              /\ d[i].op = "cleanup" <=> i = all
              /\ d[i].op = "cleanup" => d[i].removes = {Bot(0)}
              /\ d[i].op = "sleep" => (all - i) % 2 = 0 /\ d[i].seconds = 1
              /\ d[i].op = "setup" => i = 1 \/ (all - i) % 2 = 1
  <2>1. CASE i = 1 /\ d[i] = s
    <3>1. s.op # "cleanup" /\ s.op # "sleep" /\ i # all
      BY <1>5, <1>9, <2>1
    <3> QED  BY <1>5, <2>1, <3>1
  <2>2. CASE i = all /\ d[i] = e[1]
    BY <1>4, <1>9, <2>2 DEF IsStep
  <2>3. CASE i # 1 /\ i # all /\ (all - i) % 2 = 0 /\ d[i] = z
    BY <1>5, <2>3
  <2>4. CASE i # 1 /\ i # all /\ (all - i) % 2 = 1 /\ d[i] = t
    BY <1>5, <2>4
  <2> QED  BY <1>8, <2>1, <2>2, <2>3, <2>4
<1>11. IsJob(d)
  BY <1>7, <1>10 DEF IsJob
<1>12. FallsBack(d, {})
  <2> SUFFICES ASSUME NEW i \in DOMAIN d, d[i].op = "setup", NEW m \in Marks,
                      AddedBefore(d, i, m)
               PROVE  TakesBack(d[i].onFail, m)
    BY DEF FallsBack
  <2>1. PICK k \in DOMAIN d : k < i /\ d[k].op = "setup" /\ m \in d[k].adds
    BY DEF AddedBefore
  <2>2. i # 1 /\ m = Bot(0)
    BY <1>9, <1>10, <2>1
  <2>3. m \in Bots(one)
    BY <1>1, <2>2 DEF Bots
  <2> QED  BY <1>4, <1>10, <2>2, <2>3
<1>13. PutsBack(d)
  <2> SUFFICES ASSUME NEW i \in DOMAIN d, d[i].op = "setup", NEW m \in d[i].adds
               PROVE  all \in DOMAIN d /\ i < all /\ d[all].op = "cleanup" /\ m \in d[all].removes
    BY DEF PutsBack
  <2>1. i = 1 /\ m = Bot(0)
    BY <1>10
  <2>2. d[all].op = "cleanup" /\ d[all].removes = {Bot(0)}
    BY <1>9, <1>10
  <2>3. 1 < all
    BY <1>9
  <2> QED  BY <1>9, <2>1, <2>2, <2>3
<1>14. KillsFirst(d) /\ PinsFirst(d)
  BY <1>10, MarkKinds DEF KillsFirst, PinsFirst
<1>15. \A m \in Bots(1) : TakesBack(d, m)
  <2>1. \A m \in Bots(1) : m = Bot(0)
    BY DEF Bots
  <2> QED  BY <1>9, <1>10, <2>1 DEF TakesBack
<1>16. Flies(d) /\ Len(d) = 2 * LoadWindow + 1
  <2>1. Len(d) = all /\ all - 1 = 2 * LoadWindow /\ all = 2 * LoadWindow + 1
    BY <1>1, <1>7
  <2> QED  BY <1>10, <2>1 DEF Flies
<1> QED  BY <1>2, <1>11, <1>12, <1>13, <1>14, <1>15, <1>16 DEF Sound

(* ClearEntityLoad takes away everything of an entity load.                *)
LEMMA ClearFits ==
    /\ CleanUps(ClearEntityLoad) /\ Len(ClearEntityLoad) = 3
    /\ DOMAIN ClearEntityLoad = {1, 2, 3}
    /\ ClearEntityLoad[1].removes = TaggedMobs
    /\ ClearEntityLoad[2].removes = {Pinned} /\ ClearEntityLoad[3].removes = {NoSpawning}
    /\ \A m \in {NoSpawning, Pinned} \cup TaggedMobs : TakesBack(ClearEntityLoad, m)
<1>1. PICK x, y, z : x = CleanUp(TaggedMobs) /\ y = CleanUp({Pinned}) /\ z = CleanUp({NoSpawning})
  OBVIOUS
<1>2. /\ IsCleanUp(x) /\ x.op = "cleanup" /\ x.removes = TaggedMobs
      /\ IsCleanUp(y) /\ y.op = "cleanup" /\ y.removes = {Pinned}
      /\ IsCleanUp(z) /\ z.op = "cleanup" /\ z.removes = {NoSpawning}
  <2>1. IsCleanUp(x) /\ x.op = "cleanup" /\ x.removes = TaggedMobs
    BY <1>1, CleanUpFields
  <2>2. IsCleanUp(y) /\ y.op = "cleanup" /\ y.removes = {Pinned}
    BY <1>1, CleanUpFields
  <2>3. IsCleanUp(z) /\ z.op = "cleanup" /\ z.removes = {NoSpawning}
    BY <1>1, CleanUpFields
  <2> QED  BY <2>1, <2>2, <2>3
<1>3. PICK c : c = ClearEntityLoad
  OBVIOUS
<1>4. c = <<x, y, z>>
  BY <1>1, <1>3 DEF ClearEntityLoad
<1>5. /\ c \in Seq({x, y, z}) /\ Len(c) = 3 /\ DOMAIN c = {1, 2, 3}
      /\ c[1] = x /\ c[2] = y /\ c[3] = z
  BY <1>4
<1>6. IsList(c)
  BY <1>5, ListOf
<1>7. KillsFirst(c)
  <2>1. \A i \in DOMAIN c : Pinned \in c[i].removes => i = 2 \/ i = 1
    BY <1>2, <1>5, MarkKinds
  <2>2. Pinned \notin c[1].removes
    BY <1>2, <1>5, MarkKinds
  <2>3. \A i, k \in DOMAIN c : i < k /\ Pinned \in c[i].removes => k = 3
    BY <1>5, <2>1, <2>2
  <2>4. \A m \in c[3].removes : ~ IsMob(m)
    BY <1>2, <1>5, MarkKinds
  <2> QED  BY <2>3, <2>4 DEF KillsFirst
<1>8. \A i \in DOMAIN c : IsCleanUp(c[i]) /\ c[i].op = "cleanup"
  BY <1>2, <1>5
<1>9. \A m \in {NoSpawning, Pinned} \cup TaggedMobs : TakesBack(c, m)
  BY <1>2, <1>5, <1>8 DEF TakesBack
<1> QED  BY <1>2, <1>3, <1>5, <1>6, <1>7, <1>8, <1>9 DEF CleanUps

LEMMA EntityFits ==
    ASSUME NEW count \in Nat, Mobs(count) \subseteq TaggedMobs
    PROVE  /\ Sound(EntityLoad(count), {NoSpawning, Pinned} \cup TaggedMobs)
           /\ SleepsFirst(EntityLoad(count))
<1>1. PICK one \in Nat, two \in Nat, three \in Nat, n2 \in Nat, n3 \in Nat, all \in Nat :
        /\ one = 1 /\ two = 2 /\ three = 3
        /\ n2 = count + 2 /\ n3 = count + 3 /\ all = count + 6
  OBVIOUS
<1>a. PICK c, s, u : /\ c = ClearEntityLoad /\ s = SetUp({NoSpawning}, <<>>)
                     /\ u = <<CleanUp({NoSpawning})>>
  OBVIOUS
<1>b. PICK t, z : t = SetUp({Pinned}, u) /\ z = Sleep(LoadWindow)
  OBVIOUS
<1>c. PICK b : b = [i \in 1 .. count |-> SetUp({Mob(i)}, c)]
  OBVIOUS
<1>d. PICK a, y : a = <<s, t>> /\ y = <<z>>
  OBVIOUS
<1>e. PICK p : p = a \o b
  OBVIOUS
<1>f. PICK q : q = p \o y
  OBVIOUS
<1>g. PICK d : d = EntityLoad(count)
  OBVIOUS
<1>2. d = q \o c
  BY <1>a, <1>b, <1>c, <1>d, <1>e, <1>f, <1>g DEF EntityLoad
<1>3. /\ CleanUps(c) /\ IsList(c) /\ Len(c) = 3 /\ DOMAIN c = {1, 2, 3}
      /\ IsCleanUp(c[1]) /\ IsCleanUp(c[2]) /\ IsCleanUp(c[3])
      /\ c[1].removes = TaggedMobs
      /\ c[2].removes = {Pinned} /\ c[3].removes = {NoSpawning}
      /\ \A m \in {NoSpawning, Pinned} \cup TaggedMobs : TakesBack(c, m)
  <2>1. /\ CleanUps(c) /\ Len(c) = 3 /\ DOMAIN c = {1, 2, 3}
        /\ c[1].removes = TaggedMobs
        /\ c[2].removes = {Pinned} /\ c[3].removes = {NoSpawning}
        /\ \A m \in {NoSpawning, Pinned} \cup TaggedMobs : TakesBack(c, m)
    BY <1>a, ClearFits
  <2>2. IsList(c) /\ \A i \in {1, 2, 3} : IsCleanUp(c[i])
    BY <2>1 DEF CleanUps
  <2> QED  BY <2>1, <2>2
<1>4. /\ IsStep(s) /\ s.op = "setup" /\ s.adds = {NoSpawning} /\ s.onFail = <<>>
      /\ IsStep(t) /\ t.op = "setup" /\ t.adds = {Pinned} /\ t.onFail = u
      /\ IsStep(z) /\ z.op = "sleep" /\ z.seconds = LoadWindow
      /\ TakesBack(u, NoSpawning)
  <2>1. PICK x, v, nothing : x = {NoSpawning} /\ v = {Pinned} /\ nothing = <<>>
    OBVIOUS
  <2>2. x \subseteq Marks /\ v \subseteq Marks
    BY <2>1, MarksFacts
  <2>3. IsStep(s) /\ s.op = "setup" /\ s.adds = x /\ s.onFail = nothing
    <3>1. CleanUps(nothing) /\ s = SetUp(x, nothing)
      BY <1>a, <2>1, EmptyFits
    <3> QED  BY <2>2, <3>1, SetUpFields
  <2>4. CleanUps(u) /\ TakesBack(u, NoSpawning)
    <3>1. PICK w : w = CleanUp(x)
      OBVIOUS
    <3>2. IsCleanUp(w) /\ w.op = "cleanup" /\ w.removes = x
      BY <3>1, CleanUpFields
    <3>3. u = <<w>>
      BY <1>a, <2>1, <3>1
    <3>4. IsList(u) /\ DOMAIN u = {1} /\ u[1] = w
      <4>1. DOMAIN u = {1} /\ u[1] = w
        BY <3>3
      <4> QED  BY <3>3, <4>1, OneElement
    <3>5. KillsFirst(u)
      BY <3>4 DEF KillsFirst
    <3> QED  BY <2>1, <3>2, <3>4, <3>5 DEF CleanUps, TakesBack
  <2>5. IsStep(t) /\ t.op = "setup" /\ t.adds = v /\ t.onFail = u
    <3>1. t = SetUp(v, u)
      BY <1>b, <2>1
    <3> QED  BY <2>2, <2>4, <3>1, SetUpFields
  <2>6. IsStep(z) /\ z.op = "sleep" /\ z.seconds = LoadWindow
    BY <1>b, LoadWindowType, SleepFields
  <2> QED  BY <2>1, <2>3, <2>4, <2>5, <2>6
<1>5. /\ IsList(b) /\ Len(b) = count
      /\ \A i \in 1 .. count : /\ IsStep(b[i]) /\ b[i].op = "setup"
                               /\ b[i].adds = {Mob(i)} /\ b[i].onFail = c
  <2>1. b = [i \in 1 .. count |-> b[i]]
    BY <1>c
  <2>2. IsList(b) /\ Len(b) = count
    BY <2>1, FunctionList
  <2>3. ASSUME NEW i \in 1 .. count
        PROVE  /\ IsStep(b[i]) /\ b[i].op = "setup"
               /\ b[i].adds = {Mob(i)} /\ b[i].onFail = c
    <3>1. PICK x, v : x = {Mob(i)} /\ v = b[i]
      OBVIOUS
    <3>2. v = SetUp(x, c)
      BY <1>c, <3>1
    <3>3. x \subseteq Marks
      <4>1. Mob(i) \in TaggedMobs
        BY DEF Mobs
      <4> QED  BY <3>1, <4>1, MarksFacts
    <3>4. IsStep(v) /\ v.op = "setup" /\ v.adds = x /\ v.onFail = c
      BY <1>3, <3>2, <3>3, SetUpFields
    <3> QED  BY <3>1, <3>4
  <2> QED  BY <2>2, <2>3
<1>6. /\ IsList(d) /\ Len(d) = all /\ DOMAIN d = 1 .. all
      /\ d[1] = s /\ d[2] = t
      /\ \A i \in 1 .. count : d[2 + i] = b[i]
      /\ d[count + 3] = z
      /\ d[count + 4] = c[1] /\ d[count + 5] = c[2] /\ d[count + 6] = c[3]
  <2>1. HasLength(a, two) /\ a[1] = s /\ a[2] = t
    <3>1. IsList(a) /\ Len(a) = 2 /\ a[1] = s /\ a[2] = t
      BY <1>d, TwoElements
    <3> QED  BY <1>1, <3>1 DEF HasLength
  <2>2. HasLength(y, one) /\ y[1] = z
    <3>1. IsList(y) /\ Len(y) = 1 /\ y[1] = z
      BY <1>d, OneElement
    <3> QED  BY <1>1, <3>1 DEF HasLength
  <2>3. HasLength(b, count) /\ HasLength(c, three)
    BY <1>1, <1>3, <1>5 DEF HasLength
  <2>4. two + count = n2 /\ n2 + one = n3 /\ n3 + three = all
    BY <1>1
  <2>5. Joins(p, a, two, b, count)
    <3>1. IsConcat(p, a, b)
      BY <1>e DEF IsConcat
    <3> QED  BY <2>1, <2>3, <3>1, ConcatFacts, Zenon
  <2>6. /\ HasLength(p, n2) /\ \A i \in 1 .. two : p[i] = a[i]
        /\ \A i \in 1 .. count : p[two + i] = b[i]
    BY <2>4, <2>5 DEF Joins
  <2>7. Joins(q, p, n2, y, one)
    <3>1. IsConcat(q, p, y)
      BY <1>f DEF IsConcat
    <3> QED  BY <2>2, <2>6, <3>1, ConcatFacts, Zenon
  <2>8. /\ HasLength(q, n3) /\ \A i \in 1 .. n2 : q[i] = p[i]
        /\ \A i \in 1 .. one : q[n2 + i] = y[i]
    BY <2>4, <2>7 DEF Joins
  <2>9. Joins(d, q, n3, c, three)
    <3>1. IsConcat(d, q, c)
      BY <1>2 DEF IsConcat
    <3> QED  BY <2>3, <2>8, <3>1, ConcatFacts, Zenon
  <2>10. /\ HasLength(d, all) /\ \A i \in 1 .. n3 : d[i] = q[i]
         /\ \A i \in 1 .. three : d[n3 + i] = c[i]
    BY <2>4, <2>9 DEF Joins
  <2>11. IsList(d) /\ Len(d) = all /\ DOMAIN d = 1 .. all
    BY <2>10, ListFacts DEF HasLength
  <2>12. \A i \in 1 .. n2 : d[i] = p[i]
    BY <1>1, <2>8, <2>10
  <2>13. d[1] = s /\ d[2] = t
    BY <1>1, <2>1, <2>6, <2>12
  <2>14. \A i \in 1 .. count : d[2 + i] = b[i]
    BY <1>1, <2>6, <2>12
  <2>15. d[count + 3] = z
    <3>1. q[n2 + 1] = z
      BY <1>1, <2>2, <2>8
    <3> QED  BY <1>1, <2>10, <3>1
  <2>16. d[count + 4] = c[1] /\ d[count + 5] = c[2] /\ d[count + 6] = c[3]
    <3>1. d[n3 + 1] = c[1] /\ d[n3 + 2] = c[2] /\ d[n3 + 3] = c[3]
      BY <1>1, <2>10
    <3> QED  BY <1>1, <3>1
  <2> QED  BY <2>11, <2>13, <2>14, <2>15, <2>16
<1>7. ASSUME NEW i \in DOMAIN d
      PROVE  \/ i = 1 /\ d[i] = s
             \/ i = 2 /\ d[i] = t
             \/ \E k \in 1 .. count : i = 2 + k /\ d[i] = b[k]
             \/ i = count + 3 /\ d[i] = z
             \/ i = count + 4 /\ d[i] = c[1]
             \/ i = count + 5 /\ d[i] = c[2]
             \/ i = count + 6 /\ d[i] = c[3]
  <2>1. i \in 1 .. count + 6
    BY <1>1, <1>6
  <2>2. CASE i > 2 /\ i <= count + 2
    <3>1. i - 2 \in 1 .. count /\ i = 2 + (i - 2)
      BY <2>1, <2>2
    <3> QED  BY <1>6, <3>1
  <2>3. CASE ~ (i > 2 /\ i <= count + 2)
    <3>1. \/ i = 1 \/ i = 2 \/ i = count + 3 \/ i = count + 4 \/ i = count + 5 \/ i = count + 6
      BY <2>1, <2>3
    <3> QED  BY <1>6, <3>1
  <2> QED  BY <2>2, <2>3
<1>8. ASSUME NEW i \in DOMAIN d
      PROVE  /\ IsStep(d[i]) /\ i \in Nat
             /\ d[i].op = "setup" =>
                  \/ i = 1 /\ d[i].adds = {NoSpawning} /\ d[i].onFail = <<>>
                  \/ i = 2 /\ d[i].adds = {Pinned} /\ d[i].onFail = u
                  \/ /\ i > 2 /\ i < count + 3 /\ d[i].onFail = c
                     /\ \E k \in 1 .. count : d[i].adds = {Mob(k)}
             /\ d[i].op = "cleanup" =>
                  \/ i = count + 4 /\ d[i].removes = TaggedMobs
                  \/ i = count + 5 /\ d[i].removes = {Pinned}
                  \/ i = count + 6 /\ d[i].removes = {NoSpawning}
  <2>1. i \in Nat
    BY <1>1, <1>6
  <2>2. CASE i = 1 /\ d[i] = s
    BY <1>4, <2>1, <2>2
  <2>3. CASE i = 2 /\ d[i] = t
    BY <1>4, <2>1, <2>3
  <2>4. ASSUME NEW k \in 1 .. count, i = 2 + k, d[i] = b[k]
        PROVE  /\ IsStep(d[i]) /\ d[i].op = "setup" /\ d[i].adds = {Mob(k)}
               /\ d[i].onFail = c /\ i > 2 /\ i < count + 3
    <3>1. i > 2 /\ i < count + 3
      BY <2>4
    <3> QED  BY <1>5, <2>4, <3>1
  <2>5. CASE i = count + 3 /\ d[i] = z
    BY <1>4, <2>1, <2>5
  <2>6. CASE i = count + 4 /\ d[i] = c[1]
    BY <1>3, <2>1, <2>6 DEF IsStep, IsCleanUp
  <2>7. CASE i = count + 5 /\ d[i] = c[2]
    BY <1>3, <2>1, <2>7 DEF IsStep, IsCleanUp
  <2>8. CASE i = count + 6 /\ d[i] = c[3]
    BY <1>3, <2>1, <2>8 DEF IsStep, IsCleanUp
  <2>9. CASE \E k \in 1 .. count : i = 2 + k /\ d[i] = b[k]
    BY <2>1, <2>4, <2>9
  <2> QED  BY <1>7, <2>2, <2>3, <2>5, <2>6, <2>7, <2>8, <2>9
<1>9. /\ count + 4 \in DOMAIN d /\ count + 5 \in DOMAIN d /\ count + 6 \in DOMAIN d
      /\ d[count + 4].op = "cleanup" /\ d[count + 4].removes = TaggedMobs
      /\ d[count + 5].op = "cleanup" /\ d[count + 5].removes = {Pinned}
      /\ d[count + 6].op = "cleanup" /\ d[count + 6].removes = {NoSpawning}
      /\ 2 \in DOMAIN d /\ d[2].op = "setup" /\ d[2].adds = {Pinned}
      /\ count + 3 \in DOMAIN d /\ d[count + 3].op = "sleep"
      /\ d[count + 3].seconds = LoadWindow
  <2>1. \A i \in {2, count + 3, count + 4, count + 5, count + 6} : i \in DOMAIN d
    BY <1>1, <1>6
  <2> QED  BY <1>3, <1>4, <1>6, <2>1 DEF IsCleanUp
<1>10. IsJob(d)
  BY <1>6, <1>8 DEF IsJob
<1>11. \A k \in 1 .. count : Mob(k) \in TaggedMobs
  BY DEF Mobs
<1>12. FallsBack(d, {})
  <2> SUFFICES ASSUME NEW i \in DOMAIN d, d[i].op = "setup", NEW m \in Marks,
                      AddedBefore(d, i, m)
               PROVE  TakesBack(d[i].onFail, m)
    BY DEF FallsBack
  <2>1. PICK k \in DOMAIN d : k < i /\ d[k].op = "setup" /\ m \in d[k].adds
    BY DEF AddedBefore
  <2>2. m \in {NoSpawning, Pinned} \cup TaggedMobs
    BY <1>8, <1>11, <2>1
  <2>3. \/ i = 1
        \/ i = 2 /\ d[i].onFail = u
        \/ d[i].onFail = c
    BY <1>8
  <2>4. k \in Nat /\ k # 0 /\ i \in Nat
    BY <1>1, <1>6
  <2>5. CASE i = 1
    BY <2>1, <2>4, <2>5
  <2>6. CASE i = 2 /\ d[i].onFail = u
    <3>1. k = 1
      BY <2>1, <2>4, <2>6
    <3>2. m = NoSpawning
      BY <1>4, <1>6, <2>1, <3>1
    <3> QED  BY <1>4, <2>6, <3>2
  <2>7. CASE d[i].onFail = c
    BY <1>3, <2>2, <2>7
  <2> QED  BY <2>3, <2>5, <2>6, <2>7
<1>13. PutsBack(d)
  <2> SUFFICES ASSUME NEW i \in DOMAIN d, d[i].op = "setup", NEW m \in d[i].adds
               PROVE  \E k \in DOMAIN d :
                        i < k /\ d[k].op = "cleanup" /\ m \in d[k].removes
    BY DEF PutsBack
  <2>1. m \in {NoSpawning, Pinned} \cup TaggedMobs
    BY <1>8, <1>11
  <2>2. i < count + 3
    BY <1>8
  <2>3. i < count + 4 /\ i < count + 5 /\ i < count + 6
    BY <1>8, <2>2
  <2> QED  BY <1>9, <2>1, <2>3
<1>14. KillsFirst(d)
  <2> SUFFICES ASSUME NEW i \in DOMAIN d, NEW k \in DOMAIN d, i < k,
                      d[i].op = "cleanup", Pinned \in d[i].removes,
                      d[k].op = "cleanup", NEW m \in d[k].removes
               PROVE  ~ IsMob(m)
    BY DEF KillsFirst
  <2>1. i = count + 5
    BY <1>8, MarkKinds
  <2>2. k # count + 4 /\ k # count + 5
    BY <1>8, <2>1
  <2>3. m = NoSpawning
    BY <1>8, <2>2
  <2> QED  BY <2>3, MarkKinds
<1>15. PinsFirst(d)
  <2> SUFFICES ASSUME NEW i \in DOMAIN d, d[i].op = "cleanup"
               PROVE  AddedBefore(d, i, Pinned)
    BY DEF PinsFirst
  <2>1. 2 < i
    BY <1>8
  <2> QED  BY <1>9, <2>1 DEF AddedBefore
<1>16. \A m \in {NoSpawning, Pinned} \cup TaggedMobs : TakesBack(d, m)
  BY <1>9 DEF TakesBack
<1>17. SleepsFirst(d)
  <2>1. \A i \in DOMAIN d : d[i].op = "cleanup" => count + 3 < i
    BY <1>8
  <2> QED  BY <1>9, <2>1 DEF SleepsFirst
<1> QED  BY <1>g, <1>10, <1>12, <1>13, <1>14, <1>15, <1>16, <1>17 DEF Sound

(* Every driver is sound for the marks of its load, and its clean-up waits *)
(* for the time of the load.                                               *)
LEMMA DriverFits ==
    ASSUME NEW l \in Loads
    PROVE  /\ Sound(DriverFor(l), MarksOf(l))
           /\ l.kind # "fly" => SleepsFirst(DriverFor(l))
           /\ l.kind = "fly" => /\ Flies(DriverFor(l))
                                /\ Len(DriverFor(l)) = 2 * LoadWindow + 1
<1>1. l.count \in Nat /\ l.count # 0 /\ l.kind \in {"chunky", "entity", "player", "fly"}
  BY LoadtestAssumption
<1>2. PICK count \in Nat : count = l.count /\ count # 0
  BY <1>1
<1>3. Bots(count) \subseteq Marks /\ Mobs(count) \subseteq TaggedMobs
  BY <1>2, MarksFacts
<1>4. Bots(1) \subseteq Marks
  <2>1. 0 .. 1 - 1 \subseteq 0 .. count - 1
    BY <1>2
  <2> QED  BY <1>3, <2>1 DEF Bots
<1>5. CASE l.kind = "chunky"
  <2>1. DriverFor(l) = ChunkyBurst(count) /\ MarksOf(l) = {ChunkyTask}
    BY <1>2, <1>5 DEF DriverFor, MarksOf
  <2> QED  BY <1>5, <2>1, ChunkyFits
<1>6. CASE l.kind = "entity"
  <2>1. /\ DriverFor(l) = EntityLoad(count)
        /\ MarksOf(l) = {NoSpawning, Pinned} \cup TaggedMobs
    BY <1>2, <1>6 DEF DriverFor, MarksOf
  <2> QED  BY <1>3, <1>6, <2>1, EntityFits
<1>7. CASE l.kind = "player"
  <2>1. DriverFor(l) = PlayerLoad(count) /\ MarksOf(l) = Bots(count)
    BY <1>2, <1>7 DEF DriverFor, MarksOf
  <2> QED  BY <1>3, <1>7, <2>1, PlayerFits
<1>8. CASE l.kind = "fly"
  <2>1. DriverFor(l) = FlyLoad(count) /\ MarksOf(l) = Bots(1)
    BY <1>2, <1>8 DEF DriverFor, MarksOf
  <2> QED  BY <1>4, <1>8, <2>1, FlyFits
<1> QED  BY <1>1, <1>5, <1>6, <1>7, <1>8

-----------------------------------------------------------------------------
(* Steps of the driver *)

(* What the server makes of a command.                                     *)
LEMMA ExecutedFacts ==
    ASSUME NEW command, NEW m
    PROVE  /\ m \in Executed(command) => m \in world \/ m \in command.adds
           /\ m \in world /\ m \notin command.removes => m \in Executed(command)
           /\ m \in Executed(command) /\ m \in command.removes
                => IsMob(m) /\ Pinned \notin world
           /\ m \in Executed(command) /\ m \notin world /\ IsMob(m) => Pinned \in world
           /\ m \in command.adds /\ m \notin command.removes /\ ~ IsMob(m)
                => m \in Executed(command)
BY DEF Executed, IsMob

\* A step of a job that is a command, and what a failure of it leads to.
LEMMA CommandFacts ==
    ASSUME IsJob(job), CommandNext
    PROVE  /\ job # <<>> /\ 1 \in DOMAIN job
           /\ \/ /\ job[1].op = "setup" /\ job[1].adds \subseteq Marks
                 /\ job[1].removes = {} /\ CleanUps(job[1].onFail)
                 /\ AfterFailure(job[1]) = job[1].onFail
              \/ /\ job[1].op = "cleanup" /\ job[1].adds = {} /\ job[1].onFail = <<>>
                 /\ AfterFailure(job[1]) = Tail(job)
           /\ IsJob(AfterFailure(job[1])) /\ IsJob(Tail(job))
<1>1. job # <<>> /\ 1 \in DOMAIN job /\ IsStep(job[1]) /\ IsJob(Tail(job))
  BY TailOfJob DEF CommandNext
<1>2. \/ /\ job[1].op = "setup" /\ job[1].adds \subseteq Marks
         /\ job[1].removes = {} /\ CleanUps(job[1].onFail)
      \/ job[1].op = "cleanup" /\ job[1].adds = {} /\ job[1].onFail = <<>>
  BY <1>1 DEF CommandNext, IsStep, IsCleanUp
<1>3. CASE job[1].op = "setup" /\ CleanUps(job[1].onFail)
  <2>1. AfterFailure(job[1]) = job[1].onFail
    BY <1>3 DEF AfterFailure
  <2> QED  BY <1>1, <1>2, <1>3, <2>1, CleanUpsFit
<1>4. CASE job[1].op = "cleanup"
  <2>1. AfterFailure(job[1]) = Tail(job)
    BY <1>4 DEF AfterFailure
  <2> QED  BY <1>1, <1>2, <1>4, <2>1
<1> QED  BY <1>2, <1>3, <1>4

\* What of the type invariant Bench touches.
BenchType ==
    /\ bench \in {"off", "on", "done"} /\ (bench = "off" <=> load = NoLoad)
    /\ tick \in BOOLEAN /\ reading \in BOOLEAN
    /\ bench # "on" => ~ tick /\ ~ reading
    /\ next \in Nat /\ lag \in Nat

LEMMA BenchStep ==
    ASSUME TypeOK, [Next]_vars
    PROVE  BenchType'
<1>1. BenchType /\ interval \in Nat
  BY CountType DEF TypeOK, BenchType
<1> USE DEF BenchType
<1>2. CASE StartRun
  BY <1>1, <1>2, NoLoadIsNone DEF StartRun
<1>3. CASE Ends
  BY <1>3 DEF Ends
<1>4. CASE ReceiveTick
  BY <1>1, <1>4 DEF ReceiveTick, driverVars
<1>5. CASE TakeSample
  BY <1>1, <1>5 DEF TakeSample, driverVars
<1>6. CASE BenchEnds \/ Interrupt
  <2>1. /\ bench = "on" /\ ~ reading /\ UNCHANGED <<load, reading>>
        /\ bench' = "done" /\ tick' = FALSE /\ next' = 0 /\ lag' = 0
    BY <1>6 DEF BenchEnds, Interrupt, BenchOver, driverVars
  <2> QED  BY <1>1, <2>1
<1>7. CASE Finish \/ Killed
  BY <1>3, <1>7 DEF Finish, Killed
<1>8. CASE TimePasses
  <2>1. /\ UNCHANGED <<load, bench, reading>>
        /\ tick' = tick \/ (tick' = TRUE /\ bench = "on")
        /\ next' = next \/ next' = next + interval
        /\ lag' = lag \/ lag' = lag + 1
    BY <1>8 DEF TimePasses, TickerRuns, driverVars
  <2>2. next' \in Nat /\ lag' \in Nat
    BY <1>1, <2>1
  <2>3. tick' \in BOOLEAN /\ reading' \in BOOLEAN /\ (bench' # "on" => ~ tick' /\ ~ reading')
    <3>1. CASE tick' = tick
      BY <1>1, <2>1, <3>1
    <3>2. CASE tick' = TRUE /\ bench = "on"
      BY <1>1, <2>1, <3>2
    <3> QED  BY <2>1, <3>1, <3>2
  <2>4. bench' \in {"off", "on", "done"} /\ (bench' = "off" <=> load' = NoLoad)
    BY <1>1, <2>1
  <2> QED  BY <2>2, <2>3, <2>4
<1>9. CASE Driver \/ UNCHANGED vars
  <2>1. UNCHANGED <<load, benchVars>>
    BY <1>9 DEF Driver, CommandAnswered, CommandFails, FallAsleep, WakeUp, vars, driverVars
  <2> QED  BY <1>1, <2>1 DEF benchVars
<1> QED  BY <1>2, <1>4, <1>5, <1>6, <1>7, <1>8, <1>9 DEF Next

\* Bench reads only for a sample it still wants.
LEMMA SamplesStep ==
    ASSUME TypeInv, [Next]_vars
    PROVE  /\ samples' \in 0 .. Count'
           /\ reading' => samples' < Count'
<1>1. /\ samples \in 0 .. Count /\ (reading => samples < Count) /\ Count \in Nat \ {0}
  BY CountType DEF TypeInv, TypeOK
<1>2. Count' = Count
  BY IntervalKept DEF Count
<1>3. \/ samples' = samples /\ reading' = reading
      \/ samples' = samples /\ reading' = TRUE /\ samples < Count
      \/ samples' = samples + 1 /\ reading' = FALSE /\ reading
      \/ samples' = 0 /\ reading' = FALSE
  BY DEF Next, Driver, vars, driverVars, benchVars, StartRun, ReceiveTick, WantsSample,
     TakeSample, BenchEnds, Interrupt, BenchOver, TimePasses, Finish, Killed, Ends,
     CommandAnswered, CommandFails, FallAsleep, WakeUp
<1> QED  BY <1>1, <1>2, <1>3

\* What of the type invariant the driver touches.
DriverType ==
    /\ load \in Loads \cup {NoLoad} /\ failed \in BOOLEAN
    /\ wake \in Nat \cup {Awake}
    /\ wake # Awake => job # <<>> /\ job[1].op = "sleep"
    /\ load = NoLoad => job = <<>>
    /\ world \subseteq Marks /\ excused \subseteq world
    /\ IsJob(job)

LEMMA DriverTypeStep ==
    ASSUME TypeInv, [Next]_vars
    PROVE  DriverType'
<1>1. DriverType /\ now \in Nat /\ IsJob(job)
  BY DEF TypeInv, TypeOK, DriverType
<1>2. CASE Undisturbed
  BY <1>1, <1>2 DEF Undisturbed, DriverType
<1>3. CASE StartRun
  <2>1. load' \in Loads /\ job' = DriverFor(load')
    BY <1>3 DEF StartRun
  <2>2. IsJob(job')
    BY <2>1, DriverFits DEF Sound
  <2>3. wake = Awake
    BY <1>1, <1>3 DEF StartRun, DriverType
  <2>4. load' # NoLoad
    BY <2>1, NoLoadIsNone
  <2> QED  BY <1>1, <1>3, <2>1, <2>2, <2>3, <2>4 DEF StartRun, DriverType
<1>4. CASE /\ Ends /\ job' = <<>> /\ UNCHANGED world
           /\ (job = <<>> /\ excused' = excused) \/ excused' = world
  BY <1>1, <1>4, EmptyJob DEF Ends, DriverType
<1>5. CASE CommandAnswered
  <2>1. /\ CommandNext /\ world' = Executed(job[1]) /\ excused' = excused \cap world'
        /\ job' = Tail(job) /\ UNCHANGED <<load, failed, wake>>
    BY <1>5 DEF CommandAnswered
  <2>2. /\ job # <<>> /\ job[1].adds \subseteq Marks /\ IsJob(job')
    BY <1>1, <2>1, CommandFacts
  <2>3. world' \subseteq Marks
    BY <1>1, <2>1, <2>2, ExecutedFacts DEF DriverType
  <2>4. wake = Awake /\ load # NoLoad
    BY <1>1, <2>1, <2>2 DEF DriverType, CommandNext
  <2> QED  BY <1>1, <2>1, <2>2, <2>3, <2>4 DEF DriverType
<1>6. CASE CommandFails
  <2>1. /\ CommandNext /\ job' = AfterFailure(job[1]) /\ failed' = TRUE
        /\ world' = world \/ world' = Executed(job[1])
        /\ UNCHANGED <<load, wake>>
    BY <1>6 DEF CommandFails
  <2>2. /\ job # <<>> /\ job[1].adds \subseteq Marks /\ IsJob(job')
    BY <1>1, <2>1, CommandFacts
  <2>3. world' \subseteq Marks
    BY <1>1, <2>1, <2>2, ExecutedFacts DEF DriverType
  <2>4. wake = Awake /\ load # NoLoad
    BY <1>1, <2>1, <2>2 DEF DriverType, CommandNext
  <2>5. excused' \subseteq world'
    BY <1>1, <1>6 DEF CommandFails, DriverType
  <2> QED  BY <1>1, <2>1, <2>2, <2>3, <2>4, <2>5 DEF DriverType
<1>7. CASE FallAsleep
  <2>1. /\ job # <<>> /\ job[1].op = "sleep" /\ wake' = now + job[1].seconds
        /\ UNCHANGED <<load, job, failed, world, excused>>
    BY <1>7 DEF FallAsleep, benchVars
  <2>2. IsStep(job[1])
    BY <1>1, <2>1, TailOfJob
  <2>3. job[1].seconds \in Nat
    BY <2>1, <2>2 DEF IsStep, IsCleanUp
  <2>4. wake' \in Nat
    BY <1>1, <2>1, <2>3
  <2> QED  BY <1>1, <2>1, <2>4 DEF DriverType
<1>8. CASE WakeUp
  <2>1. /\ wake # Awake /\ wake' = Awake /\ job' = Tail(job)
        /\ UNCHANGED <<load, failed, world, excused>>
    BY <1>8 DEF WakeUp
  <2>2. job # <<>> /\ load # NoLoad
    BY <1>1, <2>1 DEF DriverType
  <2>3. IsJob(job')
    BY <1>1, <2>1, <2>2, TailOfJob
  <2> QED  BY <1>1, <2>1, <2>2, <2>3 DEF DriverType
<1> QED  BY <1>2, <1>3, <1>4, <1>5, <1>6, <1>7, <1>8, Disturbances

LEMMA TypeStep == TypeInv /\ [Next]_vars => TypeInv'
<1> SUFFICES ASSUME TypeInv, [Next]_vars
             PROVE  TypeInv'
  OBVIOUS
<1>1. TypeOK
  BY DEF TypeInv
<1>2. DriverType'
  BY DriverTypeStep
<1>3. BenchType'
  BY <1>1, BenchStep
<1>4. /\ interval' \in BenchIntervals
      /\ runs' \in 0 .. MaxRuns /\ faults' \in 0 .. MaxFaults /\ delays' \in 0 .. MaxDelays
      /\ now' \in Nat
  BY <1>1, CountersStep
<1>5. samples' \in 0 .. Count' /\ (reading' => samples' < Count')
  BY SamplesStep
<1> QED  BY <1>2, <1>3, <1>4, <1>5 DEF TypeInv, TypeOK, DriverType, BenchType

(* Every run of the command, of any load, keeps the type invariant: no     *)
(* more samples are taken than -duration asks for, a driver sleeps only in *)
(* a Sleep, and has steps to do only while a run is under way.             *)
THEOREM LoadTypeCorrect == Spec => []TypeOK
<1>1. TypeInv => TypeOK
  BY DEF TypeInv
<1> QED  BY <1>1, TypeInit, TypeStep, PTL DEF Spec

-----------------------------------------------------------------------------
(* Leftovers *)

LEMMA TailPutsBack ==
    ASSUME NEW steps, IsJob(steps), steps # <<>>, PutsBack(steps),
           steps[1].op = "setup", NEW m \in steps[1].adds
    PROVE  TakesBack(Tail(steps), m)
<1>1. 1 \in DOMAIN steps
  BY TailOfJob
<1>2. PICK k \in DOMAIN steps :
        1 < k /\ steps[k].op = "cleanup" /\ m \in steps[k].removes
  BY <1>1 DEF PutsBack
<1>3. k # 1
  BY <1>2
<1>4. k - 1 \in DOMAIN Tail(steps) /\ Tail(steps)[k - 1] = steps[k]
  BY <1>3, TailOfJob
<1> QED  BY <1>2, <1>4 DEF TakesBack

\* Once a clean-up has released the chunks, the rest kills no mob.
LEMMA NoKillAfterRelease ==
    ASSUME NEW steps, IsJob(steps), steps # <<>>, KillsFirst(steps),
           steps[1].op = "cleanup", Pinned \in steps[1].removes,
           NEW m, IsMob(m)
    PROVE  ~ TakesBack(Tail(steps), m)
<1> SUFFICES ASSUME NEW i \in DOMAIN Tail(steps), Tail(steps)[i].op = "cleanup",
                    m \in Tail(steps)[i].removes
             PROVE  FALSE
  BY DEF TakesBack
<1>1. /\ 1 \in DOMAIN steps /\ i \in Nat /\ i + 1 \in DOMAIN steps /\ i + 1 # 1
      /\ Tail(steps)[i] = steps[i + 1]
  BY TailOfJob
<1>2. 1 < i + 1
  BY <1>1
<1> QED  BY <1>1, <1>2 DEF KillsFirst

LEMMA LeftoverInit == Init => LeftoverInv
<1> SUFFICES ASSUME Init PROVE LeftoverInv
  OBVIOUS
<1>1. job = <<>> /\ Unexcused = {}
  BY DEF Init, Idle, Unexcused
<1>2. FallsBack(job, Unexcused) /\ PutsBack(job) /\ KillsFirst(job)
  BY <1>1, EmptyFits, CleanUpsFit
<1> QED  BY <1>1, <1>2 DEF LeftoverInv

(* A command was executed, and the driver goes on.                         *)
LEMMA ExecutedLeaves ==
    ASSUME TypeInv, LeftoverInv, CommandNext, world' = Executed(job[1]),
           excused \cap world' \subseteq excused', job' = Tail(job)
    PROVE  LeftoverInv'
<1>1. /\ job # <<>> /\ IsJob(job)
      /\ \/ job[1].op = "setup" /\ job[1].removes = {}
         \/ job[1].op = "cleanup" /\ job[1].adds = {}
  BY CommandFacts DEF TypeInv
<1>2. \A m \in Unexcused' : \/ m \in Unexcused
                            \/ m \notin world /\ job[1].op = "setup" /\ m \in job[1].adds
  <2> SUFFICES ASSUME NEW m \in Unexcused'
               PROVE  \/ m \in Unexcused
                      \/ m \notin world /\ job[1].op = "setup" /\ m \in job[1].adds
    OBVIOUS
  <2>1. m \in Executed(job[1]) /\ m \notin excused
    BY DEF Unexcused
  <2>2. m \in world \/ m \in job[1].adds
    BY <2>1, ExecutedFacts
  <2> QED  BY <1>1, <2>1, <2>2 DEF Unexcused
<1>3. \A m \in Unexcused' : m \in Executed(job[1])
  BY DEF Unexcused
<1>4. /\ \A m \in Unexcused : TakesBack(job, m)
      /\ \A m \in Unexcused : IsMob(m) => Pinned \in world
      /\ FallsBack(job, Unexcused) /\ PutsBack(job) /\ KillsFirst(job)
  BY DEF LeftoverInv
<1>5. ASSUME NEW m \in Unexcused'
      PROVE  TakesBack(Tail(job), m)
  <2>1. CASE m \in Unexcused
    <3>1. ~ (job[1].op = "cleanup" /\ m \in job[1].removes)
      BY <1>3, <1>4, <2>1, ExecutedFacts
    <3> QED  BY <1>1, <1>4, <2>1, <3>1, TailTakesBack
  <2>2. CASE job[1].op = "setup" /\ m \in job[1].adds
    BY <1>1, <1>4, <2>2, TailPutsBack
  <2> QED  BY <1>2, <2>1, <2>2
<1>6. ASSUME NEW m \in Unexcused', IsMob(m)
      PROVE  Pinned \in world'
  <2>1. Pinned \in world
    <3>1. CASE m \in Unexcused
      BY <1>4, <1>6, <3>1
    <3>2. CASE m \notin world
      BY <1>3, <1>6, <3>2, ExecutedFacts
    <3> QED  BY <1>2, <3>1, <3>2
  <2>2. ASSUME Pinned \in job[1].removes PROVE FALSE
    <3>1. job[1].op = "cleanup"
      BY <1>1, <2>2
    <3> QED  BY <1>1, <1>4, <1>5, <1>6, <2>2, <3>1, NoKillAfterRelease
  <2> QED  BY <2>1, <2>2, ExecutedFacts
<1>7. PICK before, then : before = Unexcused /\ then = Unexcused'
  OBVIOUS
<1>8. PutsBack(Tail(job)) /\ KillsFirst(Tail(job)) /\ FallsBack(Tail(job), then)
  <2>1. \A m \in then : m \in before \/ (job[1].op = "setup" /\ m \in job[1].adds)
    BY <1>2, <1>7
  <2>2. FallsBack(job, before)
    BY <1>4, <1>7
  <2> QED  BY <1>1, <1>4, <2>1, <2>2, TailFits
<1> QED  BY <1>5, <1>6, <1>7, <1>8 DEF LeftoverInv

(* A clean-up was not executed: what it leaves is excused.                 *)
LEMMA LostCleanUpLeaves ==
    ASSUME TypeInv, LeftoverInv, CommandNext, job[1].op = "cleanup",
           world' = world, excused' = excused \cup (job[1].removes \cap world),
           job' = Tail(job)
    PROVE  LeftoverInv'
<1>1. job # <<>> /\ IsJob(job)
  BY CommandFacts DEF TypeInv
<1>2. \A m \in Unexcused' : m \in Unexcused /\ m \notin job[1].removes
  BY DEF Unexcused
<1>3. /\ \A m \in Unexcused : TakesBack(job, m)
      /\ \A m \in Unexcused : IsMob(m) => Pinned \in world
      /\ FallsBack(job, Unexcused) /\ PutsBack(job) /\ KillsFirst(job)
  BY DEF LeftoverInv
<1>4. \A m \in Unexcused' : TakesBack(Tail(job), m)
  BY <1>1, <1>2, <1>3, TailTakesBack
<1>5. PICK before, then : before = Unexcused /\ then = Unexcused'
  OBVIOUS
<1>6. PutsBack(Tail(job)) /\ KillsFirst(Tail(job)) /\ FallsBack(Tail(job), then)
  <2>1. \A m \in then : m \in before \/ (job[1].op = "setup" /\ m \in job[1].adds)
    BY <1>2, <1>5
  <2>2. FallsBack(job, before)
    BY <1>3, <1>5
  <2> QED  BY <1>1, <1>3, <2>1, <2>2, TailFits
<1> QED  BY <1>2, <1>3, <1>4, <1>5, <1>6 DEF LeftoverInv

(* A set-up command failed: its clean-up takes back what is there.         *)
LEMMA FailedSetUpLeaves ==
    ASSUME TypeInv, LeftoverInv, CommandNext, job[1].op = "setup",
           job' = job[1].onFail,
           \/ /\ world' = world
              /\ excused' = excused \cup (job[1].removes \cap world)
           \/ /\ world' = Executed(job[1])
              /\ excused' = (excused \cup (job[1].adds \ ToRemove(job[1].onFail))) \cap world'
    PROVE  LeftoverInv'
<1>1. /\ job # <<>> /\ 1 \in DOMAIN job /\ IsJob(job)
      /\ job[1].removes = {} /\ CleanUps(job[1].onFail)
  BY CommandFacts DEF TypeInv
<1>2. /\ \A m \in Unexcused : TakesBack(job, m)
      /\ \A m \in Unexcused : IsMob(m) => Pinned \in world
      /\ FallsBack(job, Unexcused)
  BY DEF LeftoverInv
<1>3. ASSUME NEW m \in Unexcused' , m \notin Unexcused
      PROVE  /\ m \in ToRemove(job[1].onFail)
             /\ m \in Executed(job[1]) /\ m \notin world
  <2>1. m \in world' /\ m \notin excused'
    BY DEF Unexcused
  <2>2. CASE world' = world /\ excused' = excused \cup (job[1].removes \cap world)
    BY <1>1, <1>3, <2>1, <2>2 DEF Unexcused
  <2>3. CASE /\ world' = Executed(job[1])
             /\ excused' = (excused \cup (job[1].adds \ ToRemove(job[1].onFail))) \cap world'
    <3>1. m \notin excused /\ (m \in job[1].adds => m \in ToRemove(job[1].onFail))
      BY <2>1, <2>3
    <3>2. m \notin world
      BY <1>3, <3>1 DEF Unexcused
    <3>3. m \in job[1].adds
      BY <2>1, <2>3, <3>2, ExecutedFacts
    <3> QED  BY <2>1, <2>3, <3>1, <3>2, <3>3
  <2> QED  BY <2>2, <2>3
<1>4. \A m \in ToRemove(job[1].onFail) : TakesBack(job[1].onFail, m)
  <2> SUFFICES ASSUME NEW m \in ToRemove(job[1].onFail)
               PROVE  TakesBack(job[1].onFail, m)
    OBVIOUS
  <2>1. PICK i \in DOMAIN job[1].onFail : m \in job[1].onFail[i].removes
    BY DEF ToRemove
  <2>2. job[1].onFail[i].op = "cleanup"
    BY <1>1 DEF CleanUps, IsCleanUp
  <2> QED  BY <2>1, <2>2 DEF TakesBack
<1>5. \A m \in Unexcused : m \in Marks
  BY DEF TypeInv, TypeOK, Unexcused
<1>6. \A m \in Unexcused : TakesBack(job[1].onFail, m)
  BY <1>1, <1>2, <1>5 DEF FallsBack
<1>7. \A m \in Unexcused' : TakesBack(job', m)
  BY <1>3, <1>4, <1>6
<1>8. \A m \in Unexcused' : IsMob(m) => Pinned \in world
  BY <1>2, <1>3, ExecutedFacts
<1>9. Pinned \in world => Pinned \in world'
  BY <1>1, ExecutedFacts
<1>10. FallsBack(job', Unexcused') /\ PutsBack(job') /\ KillsFirst(job')
  <2>1. PICK then, steps : then = Unexcused' /\ steps = job'
    OBVIOUS
  <2>2. CleanUps(steps)
    BY <1>1, <2>1
  <2> QED  BY <2>1, <2>2, CleanUpsFit
<1> QED  BY <1>7, <1>8, <1>9, <1>10 DEF LeftoverInv

LEMMA LeftoverStep == TypeInv /\ LeftoverInv /\ [Next]_vars => LeftoverInv'
<1> SUFFICES ASSUME TypeInv, LeftoverInv, [Next]_vars
             PROVE  LeftoverInv'
  OBVIOUS
<1>1. /\ \A m \in Unexcused : TakesBack(job, m)
      /\ \A m \in Unexcused : IsMob(m) => Pinned \in world
      /\ FallsBack(job, Unexcused) /\ PutsBack(job) /\ KillsFirst(job)
  BY DEF LeftoverInv
<1>2. ASSUME UNCHANGED <<job, world, excused>>
      PROVE  LeftoverInv'
  <2>1. Unexcused' = Unexcused
    BY <1>2 DEF Unexcused
  <2> QED  BY <1>1, <1>2, <2>1 DEF LeftoverInv
<1>3. job = <<>> => Unexcused = {}
  BY <1>1, EmptyFits
<1>4. CASE Undisturbed
  BY <1>2, <1>4 DEF Undisturbed
<1>5. CASE StartRun
  <2>1. job = <<>> /\ load' \in Loads /\ job' = DriverFor(load') /\ UNCHANGED <<world, excused>>
    BY <1>5 DEF StartRun, TypeInv, TypeOK
  <2>2. Unexcused' = {}
    BY <1>3, <2>1 DEF Unexcused
  <2>3. FallsBack(job', {}) /\ PutsBack(job') /\ KillsFirst(job')
    BY <2>1, DriverFits DEF Sound
  <2> QED  BY <2>2, <2>3 DEF LeftoverInv
<1>6. CASE /\ Ends /\ job' = <<>> /\ UNCHANGED world
           /\ (job = <<>> /\ excused' = excused) \/ excused' = world
  <2>1. Unexcused' = {}
    BY <1>3, <1>6 DEF Unexcused
  <2>2. FallsBack(job', {}) /\ PutsBack(job') /\ KillsFirst(job')
    <3>1. PICK steps : steps = job'
      OBVIOUS
    <3>2. CleanUps(steps)
      BY <1>6, <3>1, EmptyFits
    <3> QED  BY <3>1, <3>2, CleanUpsFit
  <2> QED  BY <2>1, <2>2 DEF LeftoverInv
<1>7. CASE CommandAnswered
  BY <1>7, ExecutedLeaves DEF CommandAnswered
<1>8. CASE CommandFails
  <2>1. /\ CommandNext /\ job' = AfterFailure(job[1])
        /\ \/ /\ world' = world
              /\ excused' = excused \cup (job[1].removes \cap world)
           \/ /\ world' = Executed(job[1])
              /\ excused' = (excused \cup (job[1].adds \ ToRemove(job[1].onFail))) \cap world'
    BY <1>8 DEF CommandFails
  <2>2. \/ job[1].op = "setup" /\ AfterFailure(job[1]) = job[1].onFail
        \/ job[1].op = "cleanup" /\ AfterFailure(job[1]) = Tail(job)
    BY <2>1, CommandFacts DEF TypeInv
  <2>3. CASE job[1].op = "setup" /\ AfterFailure(job[1]) = job[1].onFail
    BY <2>1, <2>3, FailedSetUpLeaves
  <2>4. CASE job[1].op = "cleanup" /\ AfterFailure(job[1]) = Tail(job)
    <3>1. CASE /\ world' = world
               /\ excused' = excused \cup (job[1].removes \cap world)
      BY <2>1, <2>4, <3>1, LostCleanUpLeaves
    <3>2. CASE /\ world' = Executed(job[1])
               /\ excused' = (excused \cup (job[1].adds \ ToRemove(job[1].onFail))) \cap world'
      <4>1. excused \cap world' \subseteq excused'
        BY <3>2
      <4> QED  BY <2>1, <2>4, <3>2, <4>1, ExecutedLeaves
    <3> QED  BY <2>1, <3>1, <3>2
  <2> QED  BY <2>2, <2>3, <2>4
<1>9. CASE FallAsleep
  BY <1>2, <1>9 DEF FallAsleep
<1>10. CASE WakeUp
  <2>1. wake # Awake /\ job' = Tail(job) /\ UNCHANGED <<world, excused>>
    BY <1>10 DEF WakeUp
  <2>2. job # <<>> /\ job[1].op = "sleep" /\ IsJob(job)
    BY <2>1 DEF TypeInv, TypeOK
  <2>3. PICK before : before = Unexcused
    OBVIOUS
  <2>4. Unexcused' = before
    BY <2>1, <2>3 DEF Unexcused
  <2>5. \A m \in before : TakesBack(Tail(job), m)
    BY <1>1, <2>2, <2>3, TailTakesBack
  <2>6. PutsBack(Tail(job)) /\ KillsFirst(Tail(job)) /\ FallsBack(Tail(job), before)
    <3>1. \A m \in before : m \in before \/ (job[1].op = "setup" /\ m \in job[1].adds)
      OBVIOUS
    <3>2. FallsBack(job, before)
      BY <1>1, <2>3
    <3> QED  BY <1>1, <2>2, <3>1, <3>2, TailFits
  <2> QED  BY <1>1, <2>1, <2>3, <2>4, <2>5, <2>6 DEF LeftoverInv
<1> QED  BY <1>4, <1>5, <1>6, <1>7, <1>8, <1>9, <1>10, Disturbances

(* LeftoversExplained: whatever fails and whenever the process is killed,  *)
(* what is left when no run is under way was left by a clean-up command    *)
(* that was not executed, by a kill, or by a failed set-up command that    *)
(* was executed and that its driver does not take back.                    *)
THEOREM LeftoversAlwaysExplained == Spec => []LeftoversExplained
<1>1. TypeInv /\ LeftoverInv => LeftoversExplained
  <2> SUFFICES ASSUME TypeInv, LeftoverInv, load = NoLoad
               PROVE  world \subseteq excused
    BY DEF LeftoversExplained
  <2>1. job = <<>>
    BY DEF TypeInv, TypeOK
  <2>2. Unexcused = {}
    BY <2>1, EmptyFits DEF LeftoverInv
  <2> QED  BY <2>2 DEF Unexcused
<1> QED  BY <1>1, TypeInit, TypeStep, LeftoverInit, LeftoverStep, PTL DEF Spec

-----------------------------------------------------------------------------
(* Runs without a warning *)

LEMMA QuietInit == Init => QuietInv
BY EmptyJob DEF Init, Idle, QuietInv

(* Nothing failed, and a command is executed and answered.                 *)
LEMMA AnsweredQuietly ==
    ASSUME TypeInv, LeftoverInv, QuietInv, CommandAnswered
    PROVE  QuietInv'
<1>1. /\ CommandNext /\ world' = Executed(job[1]) /\ job' = Tail(job)
      /\ load' = load /\ failed' = failed
  BY DEF CommandAnswered
<1>2. /\ job # <<>> /\ IsJob(job)
      /\ \/ job[1].op = "setup" /\ job[1].removes = {}
         \/ job[1].op = "cleanup" /\ job[1].adds = {}
  BY <1>1, CommandFacts DEF TypeInv
<1>3. PutsBack(job) /\ KillsFirst(job)
  BY DEF LeftoverInv
<1>4. SUFFICES ASSUME ~ failed
               PROVE  /\ load # NoLoad =>
                           \A m \in Executed(job[1]) \cap MarksOf(load) : TakesBack(Tail(job), m)
                      /\ \A i \in DOMAIN Tail(job) :
                           Tail(job)[i].op = "cleanup" /\ (\E m \in Tail(job)[i].removes : IsMob(m))
                             => Pinned \in Executed(job[1]) \/ AddedBefore(Tail(job), i, Pinned)
  BY <1>1 DEF QuietInv
<1>5. /\ load # NoLoad => \A m \in world \cap MarksOf(load) : TakesBack(job, m)
      /\ \A i \in DOMAIN job :
           job[i].op = "cleanup" /\ (\E m \in job[i].removes : IsMob(m))
             => Pinned \in world \/ AddedBefore(job, i, Pinned)
  BY <1>4 DEF QuietInv
<1>6. ASSUME load # NoLoad, NEW m \in Executed(job[1]) \cap MarksOf(load)
      PROVE  TakesBack(Tail(job), m)
  <2>1. CASE m \in world
    <3>1. ASSUME job[1].op = "cleanup", m \in job[1].removes PROVE FALSE
      <4>1. IsMob(m) /\ Pinned \notin world
        BY <1>6, <3>1, ExecutedFacts
      <4>2. 1 \in DOMAIN job /\ \A k \in DOMAIN job : ~ (k < 1)
        <5>1. \A k \in DOMAIN job : k \in Nat /\ (k # 1 => k > 1)
          BY <1>2, TailOfJob
        <5> QED  BY <1>2, <5>1, TailOfJob
      <4>3. ~ AddedBefore(job, 1, Pinned)
        BY <4>2 DEF AddedBefore
      <4> QED  BY <1>5, <3>1, <4>1, <4>2, <4>3
    <3>2. TakesBack(job, m)
      BY <1>5, <1>6, <2>1
    <3> QED  BY <1>2, <3>1, <3>2, TailTakesBack
  <2>2. CASE m \notin world
    <3>1. m \in job[1].adds
      BY <1>6, <2>2, ExecutedFacts
    <3> QED  BY <1>2, <1>3, <3>1, TailPutsBack
  <2> QED  BY <2>1, <2>2
<1>7. ASSUME NEW i \in DOMAIN Tail(job), Tail(job)[i].op = "cleanup",
             NEW m \in Tail(job)[i].removes, IsMob(m),
             ~ AddedBefore(Tail(job), i, Pinned)
      PROVE  Pinned \in Executed(job[1])
  <2>1. i + 1 \in DOMAIN job /\ Tail(job)[i] = job[i + 1]
    BY <1>2, TailOfJob
  <2>2. Pinned \in world \/ AddedBefore(job, i + 1, Pinned)
    BY <1>5, <1>7, <2>1
  <2>3. ASSUME Pinned \in job[1].removes PROVE FALSE
    <3>1. job[1].op = "cleanup"
      BY <1>2, <2>3
    <3>2. TakesBack(Tail(job), m)
      BY <1>7 DEF TakesBack
    <3> QED  BY <1>2, <1>3, <1>7, <2>3, <3>1, <3>2, NoKillAfterRelease
  <2>4. Pinned \in world \/ Pinned \in job[1].adds
    BY <1>2, <1>7, <2>2, TailAddedBefore
  <2> QED  BY <2>3, <2>4, MarkKinds, ExecutedFacts
<1> QED  BY <1>6, <1>7

LEMMA QuietStep == TypeInv /\ LeftoverInv /\ QuietInv /\ [Next]_vars => QuietInv'
<1> SUFFICES ASSUME TypeInv, LeftoverInv, QuietInv, [Next]_vars
             PROVE  QuietInv'
  OBVIOUS
<1>1. ASSUME UNCHANGED <<load, job, failed, world>>
      PROVE  QuietInv'
  BY <1>1 DEF QuietInv
<1>2. CASE Undisturbed
  BY <1>1, <1>2 DEF Undisturbed
<1>3. CASE StartRun
  <2>1. load' \in Loads /\ job' = DriverFor(load')
    BY <1>3 DEF StartRun
  <2>2. PinsFirst(job') /\ \A m \in MarksOf(load') : TakesBack(job', m)
    BY <2>1, DriverFits DEF Sound
  <2> QED  BY <2>2 DEF QuietInv, PinsFirst
<1>4. CASE Ends /\ job' = <<>>
  BY <1>4, EmptyJob DEF Ends, QuietInv
<1>5. CASE CommandAnswered
  BY <1>5, AnsweredQuietly
<1>6. CASE CommandFails
  BY <1>6 DEF CommandFails, QuietInv
<1>7. CASE FallAsleep
  BY <1>1, <1>7 DEF FallAsleep
<1>8. CASE WakeUp
  <2>1. /\ wake # Awake /\ job' = Tail(job)
        /\ load' = load /\ failed' = failed /\ world' = world
    BY <1>8 DEF WakeUp
  <2>2. job # <<>> /\ job[1].op = "sleep" /\ IsJob(job)
    BY <2>1 DEF TypeInv, TypeOK
  <2>3. CASE ~ failed
    <3>1. load # NoLoad => \A m \in world \cap MarksOf(load) : TakesBack(Tail(job), m)
      BY <2>2, <2>3, TailTakesBack DEF QuietInv
    <3>2. ASSUME NEW i \in DOMAIN Tail(job), Tail(job)[i].op = "cleanup",
                 NEW m \in Tail(job)[i].removes, IsMob(m)
          PROVE  Pinned \in world \/ AddedBefore(Tail(job), i, Pinned)
      <4>1. i + 1 \in DOMAIN job /\ Tail(job)[i] = job[i + 1]
        BY <2>2, TailOfJob
      <4>2. Pinned \in world \/ AddedBefore(job, i + 1, Pinned)
        BY <2>3, <3>2, <4>1 DEF QuietInv
      <4> QED  BY <2>2, <4>2, TailAddedBefore
    <3> QED  BY <2>1, <3>1, <3>2 DEF QuietInv
  <2>4. CASE failed
    BY <2>1, <2>4 DEF QuietInv
  <2> QED  BY <2>3, <2>4
<1> QED  BY <1>2, <1>3, <1>4, <1>5, <1>6, <1>7, <1>8, Disturbances

(* QuietRunCleans: a run that ends without the driver's warning leaves     *)
(* nothing of its kind behind, not even what an earlier, failed run of     *)
(* that load had left.                                                     *)
THEOREM QuietRunAlwaysCleans == Spec => QuietRunCleans
<1> DEFINE A == load # NoLoad /\ load' = NoLoad /\ ~failed /\ faults' = faults
                  => world' \cap MarksOf(load) = {}
<1>1. TypeInv /\ QuietInv /\ [Next]_vars => A
  <2> SUFFICES ASSUME TypeInv, QuietInv, [Next]_vars,
                      load # NoLoad, load' = NoLoad, ~failed, faults' = faults
               PROVE  world' \cap MarksOf(load) = {}
    OBVIOUS
  <2>1. Finish
    <3>1. ~ Killed
      <4>1. faults \in Nat
        BY LoadtestAssumption DEF TypeInv, TypeOK
      <4> QED  BY <4>1 DEF Killed
    <3>2. ~ StartRun /\ ~ (UNCHANGED load)
      BY DEF StartRun
    <3> QED  BY <3>1, <3>2 DEF Next, vars, driverVars, ReceiveTick, TakeSample,
             BenchEnds, Interrupt, BenchOver, TimePasses, Driver, CommandAnswered, CommandFails, FallAsleep, WakeUp
  <2>2. job = <<>> /\ world' = world
    BY <2>1 DEF Finish
  <2> QED  BY <2>2, EmptyFits DEF QuietInv
<1>2. TypeInv /\ QuietInv /\ [Next]_vars => [A]_vars
  BY <1>1
<1> QED  BY <1>2, TypeInit, TypeStep, LeftoverInit, LeftoverStep, QuietInit, QuietStep,
         PTL DEF Spec, QuietRunCleans

-----------------------------------------------------------------------------
(* The time a load takes *)

LEMMA ProductMonotone ==
    ASSUME NEW a \in Nat, NEW b \in Nat, NEW c \in Nat, a <= b
    PROVE  a * c \in Nat /\ b * c \in Nat /\ a * c <= b * c
<1>1. a * c \in Nat /\ b * c \in Nat /\ (b - a) * c \in Nat
  OBVIOUS
<1>2. (b - a) * c = b * c - a * c
  OBVIOUS
<1> QED  BY <1>1, <1>2

LEMMA TimeInit == Init => TimeInv
BY EmptyJob DEF Init, Idle, TimeInv, TicksInTime, LastsByOneSleep, LastsByManySleeps, Flies,
   NoLoad

LEMMA TicksStep == TypeInv /\ TicksInTime /\ [Next]_vars => TicksInTime'
<1> SUFFICES ASSUME TypeInv, TicksInTime, [Next]_vars
             PROVE  TicksInTime'
  OBVIOUS
<1>1. /\ now \in Nat /\ samples \in Nat /\ interval \in Nat \ {0}
      /\ next \in Nat /\ lag \in Nat
      /\ bench = "off" <=> load = NoLoad
      /\ bench # "on" => ~ tick /\ ~ reading
  BY CountType DEF TypeInv, TypeOK
<1>2. PICK due \in Nat : due = DueTime /\ (samples + 1 + 1) * interval = due + interval
  <2>1. PICK n \in Nat : n = samples + 1
    BY <1>1
  <2>2. n * interval \in Nat /\ (n + 1) * interval = n * interval + interval
    BY <1>1
  <2> QED  BY <2>1, <2>2 DEF DueTime
<1>3. /\ load = NoLoad => now = 0 /\ samples = 0 /\ lag = 0
      /\ bench = "on" =>
           /\ now < next /\ next <= now + interval
           /\ (tick \/ reading) => now <= due + lag
           /\ ~ tick /\ ~ reading => next <= due + lag
  BY <1>2 DEF TicksInTime, BenchWaits
<1>4. CASE StartRun
  <2>1. /\ load = NoLoad /\ load' # NoLoad /\ next' = interval
        /\ UNCHANGED <<now, interval, samples, tick, reading, lag>>
    BY <1>4, NoLoadIsNone DEF StartRun
  <2>2. now = 0 /\ samples = 0 /\ lag = 0 /\ ~ tick /\ ~ reading
    BY <1>1, <1>3, <2>1
  <2>3. DueTime' = interval
    BY <1>1, <2>1, <2>2 DEF DueTime
  <2> QED  BY <1>1, <2>1, <2>2, <2>3 DEF TicksInTime, BenchWaits
<1>5. ASSUME UNCHANGED <<load, now, interval, bench, samples, next, lag>>,
             BenchWaits' <=> BenchWaits
      PROVE  TicksInTime'
  BY <1>5 DEF TicksInTime, BenchWaits, DueTime
<1>6. CASE ReceiveTick
  BY <1>5, <1>6 DEF ReceiveTick, BenchWaits, driverVars
<1>7. CASE TakeSample
  <2>1. /\ reading /\ ~ reading' /\ samples' = samples + 1
        /\ UNCHANGED <<load, now, interval, bench, tick, next, lag>>
    BY <1>7 DEF TakeSample, driverVars
  <2>2. bench = "on" /\ load # NoLoad
    BY <1>1, <2>1
  <2>3. DueTime' = due + interval
    BY <1>2, <2>1 DEF DueTime
  <2>4. now <= due + interval + lag /\ next <= due + interval + lag
    BY <1>1, <1>3, <2>1, <2>2
  <2> QED  BY <1>3, <2>1, <2>2, <2>3, <2>4 DEF TicksInTime, BenchWaits
<1>8. CASE BenchEnds \/ Interrupt
  <2>1. bench = "on" /\ bench' = "done" /\ load' = load
    BY <1>8 DEF BenchEnds, Interrupt, BenchOver, driverVars
  <2> QED  BY <1>1, <2>1 DEF TicksInTime
<1>9. CASE Finish \/ Killed
  BY <1>9 DEF Finish, Killed, Ends, TicksInTime
<1>10. CASE TimePasses
  <2>1. /\ load # NoLoad /\ now' = now + 1
        /\ UNCHANGED <<load, interval, bench, samples, reading>>
        /\ TickerRuns
        /\ lag' = IF BenchWaits THEN lag ELSE lag + 1
    BY <1>10 DEF TimePasses, driverVars
  <2>2. DueTime' = due
    BY <1>2, <2>1 DEF DueTime
  <2>3. SUFFICES ASSUME bench = "on"
                 PROVE  /\ now' < next' /\ next' <= now' + interval
                        /\ (tick' \/ reading') => now' <= due + lag'
                        /\ ~ tick' /\ ~ reading' => next' <= due + lag'
    BY <2>1, <2>2 DEF TicksInTime, BenchWaits
  <2>4. CASE now' = next
    <3>1. tick' = TRUE /\ next' = next + interval
      BY <2>1, <2>3, <2>4 DEF TickerRuns
    <3>2. now' <= due + lag'
      <4>1. CASE BenchWaits
        BY <1>3, <2>1, <2>3, <2>4, <4>1 DEF BenchWaits
      <4>2. CASE ~ BenchWaits
        BY <1>1, <1>3, <2>1, <2>3, <4>2 DEF BenchWaits
      <4> QED  BY <4>1, <4>2
    <3>3. now' < next' /\ next' <= now' + interval
      BY <1>1, <2>4, <3>1
    <3> QED  BY <3>1, <3>2, <3>3
  <2>5. CASE now' # next
    <3>1. tick' = tick /\ next' = next
      BY <2>1, <2>5 DEF TickerRuns
    <3>2. now' < next' /\ next' <= now' + interval
      BY <1>1, <1>3, <2>1, <2>3, <2>5, <3>1
    <3>3. CASE BenchWaits
      BY <1>3, <2>1, <2>3, <3>1, <3>2, <3>3 DEF BenchWaits
    <3>4. CASE ~ BenchWaits
      <4>1. tick \/ reading
        BY <3>4 DEF BenchWaits
      <4>2. lag' = lag + 1 /\ now <= due + lag
        BY <1>3, <2>1, <2>3, <3>4, <4>1
      <4>3. now' <= due + lag'
        BY <1>1, <2>1, <4>2
      <4> QED  BY <2>1, <3>1, <3>2, <4>1, <4>3
    <3> QED  BY <3>3, <3>4
  <2> QED  BY <2>4, <2>5
<1>11. CASE Driver \/ UNCHANGED vars
  <2>1. UNCHANGED <<load, now, benchVars>>
    BY <1>11 DEF Driver, CommandAnswered, CommandFails, FallAsleep, WakeUp, vars, driverVars
  <2> QED  BY <1>5, <2>1 DEF benchVars, BenchWaits
<1> QED  BY <1>4, <1>6, <1>7, <1>8, <1>9, <1>10, <1>11 DEF Next

LEMMA OneSleepStep == TypeInv /\ LastsByOneSleep /\ [Next]_vars => LastsByOneSleep'
<1> SUFFICES ASSUME TypeInv, LastsByOneSleep, [Next]_vars, ~ failed', load'.kind # "fly"
             PROVE  /\ wake' # Awake => wake' >= job'[1].seconds
                    /\ \A i \in DOMAIN job' : job'[i].op = "cleanup" =>
                         \/ now' >= LoadWindow
                         \/ \E k \in DOMAIN job' : k < i /\ job'[k].op = "sleep"
                                                    /\ job'[k].seconds = LoadWindow
  BY DEF LastsByOneSleep
<1>1. now \in Nat /\ IsJob(job) /\ LoadWindow \in Nat
  BY LoadWindowType DEF TypeInv, TypeOK
<1>2. ASSUME failed' = failed, load' = load
      PROVE  /\ wake # Awake => wake >= job[1].seconds
             /\ \A i \in DOMAIN job : job[i].op = "cleanup" =>
                  \/ now >= LoadWindow
                  \/ \E k \in DOMAIN job : k < i /\ job[k].op = "sleep"
                                             /\ job[k].seconds = LoadWindow
  BY <1>2 DEF LastsByOneSleep
<1>3. CASE Undisturbed
  <2>1. UNCHANGED <<load, job, failed, wake>> /\ (now >= LoadWindow => now' >= LoadWindow)
    BY <1>1, <1>3 DEF Undisturbed
  <2> QED  BY <1>2, <2>1
<1>4. CASE StartRun
  <2>1. load' \in Loads /\ job' = DriverFor(load') /\ wake' = wake
    BY <1>4 DEF StartRun
  <2>2. SleepsFirst(job')
    BY <2>1, DriverFits
  <2>3. wake' = Awake
    BY <1>4, <2>1 DEF StartRun, TypeInv, TypeOK
  <2> QED  BY <2>2, <2>3 DEF SleepsFirst
<1>5. CASE Ends /\ job' = <<>>
  BY <1>5, EmptyJob DEF Ends
<1>6. CASE CommandFails
  BY <1>6 DEF CommandFails
<1>7. CASE FallAsleep
  <2>1. /\ job # <<>> /\ job[1].op = "sleep" /\ wake' = now + job[1].seconds
        /\ UNCHANGED <<load, job, failed, now>>
    BY <1>7 DEF FallAsleep, benchVars
  <2>2. job[1].seconds \in Nat
    <3>1. IsStep(job[1])
      BY <1>1, <2>1, TailOfJob
    <3> QED  BY <2>1, <3>1 DEF IsStep, IsCleanUp
  <2>3. wake' >= job[1].seconds
    BY <1>1, <2>1, <2>2
  <2> QED  BY <1>2, <2>1, <2>3
<1>8. ASSUME job # <<>>, job' = Tail(job), wake' = Awake, UNCHANGED <<load, failed, now>>,
             job[1].op = "sleep" => now >= job[1].seconds
      PROVE  \A i \in DOMAIN job' : job'[i].op = "cleanup" =>
               \/ now' >= LoadWindow
               \/ \E k \in DOMAIN job' : k < i /\ job'[k].op = "sleep"
                                          /\ job'[k].seconds = LoadWindow
  <2> SUFFICES ASSUME NEW i \in DOMAIN Tail(job), Tail(job)[i].op = "cleanup",
                      ~ (now >= LoadWindow)
               PROVE  \E k \in DOMAIN Tail(job) :
                        k < i /\ Tail(job)[k].op = "sleep" /\ Tail(job)[k].seconds = LoadWindow
    BY <1>8
  <2>1. i \in Nat /\ i + 1 \in DOMAIN job /\ Tail(job)[i] = job[i + 1]
    BY <1>1, <1>8, TailOfJob
  <2>2. PICK k \in DOMAIN job : k < i + 1 /\ job[k].op = "sleep" /\ job[k].seconds = LoadWindow
    BY <1>2, <1>8, <2>1
  <2>3. k # 1
    BY <1>8, <2>2
  <2>4. k \in Nat /\ k - 1 \in DOMAIN Tail(job) /\ Tail(job)[k - 1] = job[k]
    BY <1>1, <1>8, <2>3, TailOfJob
  <2>5. k - 1 < i
    BY <2>1, <2>2, <2>4, Shifted, Zenon
  <2> QED  BY <2>2, <2>4, <2>5
<1>9. CASE CommandAnswered
  <2>1. /\ job # <<>> /\ job[1].op # "sleep" /\ job' = Tail(job)
        /\ UNCHANGED <<load, failed, wake, now>>
    BY <1>9 DEF CommandAnswered, CommandNext
  <2>2. wake' = Awake
    BY <2>1 DEF TypeInv, TypeOK
  <2> QED  BY <1>8, <2>1, <2>2
<1>10. CASE WakeUp
  <2>1. /\ wake # Awake /\ now >= wake /\ wake' = Awake /\ job' = Tail(job)
        /\ UNCHANGED <<load, failed, now>>
    BY <1>10 DEF WakeUp
  <2>2. job # <<>> /\ job[1].op = "sleep" /\ wake \in Nat
    BY <2>1 DEF TypeInv, TypeOK
  <2>3. job[1].seconds \in Nat
    <3>1. IsStep(job[1])
      BY <1>1, <2>2, TailOfJob
    <3> QED  BY <2>2, <3>1 DEF IsStep, IsCleanUp
  <2>4. now >= job[1].seconds
    <3>1. wake >= job[1].seconds
      BY <1>2, <2>1
    <3> QED  BY <1>1, <2>1, <2>2, <2>3, <3>1
  <2> QED  BY <1>8, <2>1, <2>2, <2>4
<1> QED  BY <1>3, <1>4, <1>5, <1>6, <1>7, <1>9, <1>10, Disturbances

(* How far a fly load is, by the steps left: an odd number before a Sleep  *)
(* and before the clean-up, an even one or all of them before a teleport.  *)
LEMMA FlyArithmetic ==
    ASSUME NEW n \in Nat, n # 0
    PROVE  /\ (n - 1) % 2 = 0 => n % 2 = 1
           /\ (n - 1) % 2 = 1 => n % 2 = 0
           /\ (n - 1) % 2 \in {0, 1}
OBVIOUS

LEMMA TailFlies ==
    ASSUME NEW steps, IsJob(steps), steps # <<>>, Flies(steps)
    PROVE  Flies(Tail(steps)) /\ Len(Tail(steps)) = Len(steps) - 1
<1>1. PICK n \in Nat : n = Len(steps)
  BY ListFacts DEF IsJob
<1>2. Len(Tail(steps)) = n - 1
  BY <1>1, TailFacts DEF IsJob
<1>3. ASSUME NEW i \in DOMAIN Tail(steps)
      PROVE  /\ Tail(steps)[i].op = "cleanup" <=> i = n - 1
             /\ Tail(steps)[i].op = "sleep" =>
                  (n - 1 - i) % 2 = 0 /\ Tail(steps)[i].seconds = 1
             /\ Tail(steps)[i].op = "setup" =>
                  (n - 1 - i) % 2 = 1 \/ n - 1 - i = 2 * LoadWindow
  <2>1. i \in Nat /\ i + 1 \in DOMAIN steps /\ Tail(steps)[i] = steps[i + 1]
    BY TailOfJob
  <2>2. n - (i + 1) = n - 1 - i /\ (i + 1 = n <=> i = n - 1)
    BY <2>1
  <2>3. /\ steps[i + 1].op = "cleanup" <=> i + 1 = n
        /\ steps[i + 1].op = "sleep" => (n - (i + 1)) % 2 = 0 /\ steps[i + 1].seconds = 1
        /\ steps[i + 1].op = "setup" => (n - (i + 1)) % 2 = 1 \/ n - (i + 1) = 2 * LoadWindow
    BY <1>1, <2>1 DEF Flies
  <2> QED  BY <2>1, <2>2, <2>3
<1> QED  BY <1>1, <1>2, <1>3 DEF Flies

(* What the first step of a fly load tells of the steps left.              *)
LEMMA FlyHead ==
    ASSUME NEW steps, IsJob(steps), steps # <<>>, Flies(steps), NEW n \in Nat, n = Len(steps)
    PROVE  /\ n # 0
           /\ steps[1].op = "cleanup" => n = 1
           /\ steps[1].op = "sleep" => (n - 1) % 2 = 0 /\ steps[1].seconds = 1
           /\ steps[1].op = "setup" => (n - 1) % 2 = 1 \/ n - 1 = 2 * LoadWindow
<1>1. 1 \in DOMAIN steps
  BY TailOfJob
<1>2. n # 0
  BY ListFacts DEF IsJob
<1> QED  BY <1>1, <1>2 DEF Flies

LEMMA ManySleepsStep == TypeInv /\ LastsByManySleeps /\ [Next]_vars => LastsByManySleeps'
<1> SUFFICES ASSUME TypeInv, LastsByManySleeps, [Next]_vars, ~ failed', load'.kind = "fly"
             PROVE  /\ Flies(job')
                    /\ job' # <<>> =>
                         2 * now' + Len(job') + (Len(job') % 2) >= 2 * LoadWindow
                    /\ wake' # Awake => 2 * wake' + Len(job') >= 2 * LoadWindow + 1
  BY DEF LastsByManySleeps
<1>1. now \in Nat /\ IsJob(job)
  BY DEF TypeInv, TypeOK
<1>2. PICK w \in Nat : w = LoadWindow
  BY LoadWindowType
<1>3. PICK n \in Nat : n = Len(job) /\ (job = <<>> <=> n = 0)
  BY <1>1, ListFacts DEF IsJob
<1>4. ASSUME failed' = failed, load' = load
      PROVE  /\ Flies(job)
             /\ job # <<>> => 2 * now + n + (n % 2) >= 2 * w
             /\ wake # Awake => 2 * wake + n >= 2 * w + 1
  BY <1>2, <1>3, <1>4 DEF LastsByManySleeps
<1>5. CASE Undisturbed
  <2>1. /\ UNCHANGED <<load, job, failed, wake>>
        /\ now' = now \/ now' = now + 1
    BY <1>5 DEF Undisturbed
  <2>2. job # <<>> => 2 * now' + n + (n % 2) >= 2 * w
    <3>1. n % 2 \in Nat
      OBVIOUS
    <3>2. PICK r \in Nat : r = n % 2
      BY <3>1
    <3> QED  BY <1>1, <1>4, <2>1, <3>2
  <2> QED  BY <1>2, <1>3, <1>4, <2>1, <2>2
<1>6. CASE StartRun
  <2>1. load' \in Loads /\ job' = DriverFor(load') /\ wake' = wake /\ now' = now
    BY <1>6 DEF StartRun
  <2>2. Flies(job') /\ Len(job') = 2 * LoadWindow + 1
    BY <2>1, DriverFits
  <2>3. wake' = Awake
    BY <1>6, <2>1 DEF StartRun, TypeInv, TypeOK
  <2>4. PICK m \in Nat : m = Len(job') /\ m = 2 * w + 1
    <3>1. 2 * w + 1 \in Nat
      OBVIOUS
    <3> QED  BY <1>2, <2>2, <3>1
  <2>5. 2 * now' + m + (m % 2) >= 2 * w
    <3>1. PICK r \in Nat : r = m % 2
      OBVIOUS
    <3> QED  BY <1>1, <2>1, <2>4, <3>1
  <2> QED  BY <1>2, <2>2, <2>3, <2>4, <2>5
<1>7. CASE Ends /\ job' = <<>>
  BY <1>7, EmptyJob DEF Ends, Flies
<1>8. CASE CommandFails
  BY <1>8 DEF CommandFails
<1>9. CASE FallAsleep
  <2>1. /\ job # <<>> /\ job[1].op = "sleep" /\ wake' = now + job[1].seconds
        /\ UNCHANGED <<load, job, failed, now>>
    BY <1>9 DEF FallAsleep, benchVars
  <2>2. (n - 1) % 2 = 0 /\ job[1].seconds = 1 /\ n # 0
    BY <1>1, <1>3, <1>4, <2>1, FlyHead
  <2>3. n % 2 = 1
    BY <2>2, FlyArithmetic
  <2>4. 2 * now + n + 1 >= 2 * w
    BY <1>4, <2>1, <2>3
  <2>5. 2 * wake' + n >= 2 * w + 1
    BY <1>1, <2>1, <2>2, <2>4
  <2> QED  BY <1>2, <1>3, <1>4, <2>1, <2>5
<1>10. ASSUME job # <<>>, job' = Tail(job), wake' = Awake, UNCHANGED <<load, failed, now>>,
              n # 1 => 2 * now + (n - 1) + ((n - 1) % 2) >= 2 * w
       PROVE  /\ Flies(job')
              /\ job' # <<>> =>
                   2 * now' + Len(job') + (Len(job') % 2) >= 2 * LoadWindow
  <2>1. Flies(job') /\ Len(job') = n - 1
    BY <1>1, <1>3, <1>4, <1>10, TailFlies
  <2>2. job' # <<>> => n # 1
    <3>1. IsList(job')
      BY <1>1, <1>10, TailFacts DEF IsJob
    <3>2. n = 1 => Len(job') = 0
      BY <2>1
    <3> QED  BY <3>1, <3>2, ListFacts
  <2> QED  BY <1>2, <1>10, <2>1, <2>2
<1>11. CASE CommandAnswered
  <2>1. /\ CommandNext /\ job # <<>> /\ job[1].op # "sleep" /\ job' = Tail(job)
        /\ UNCHANGED <<load, failed, wake, now>>
    BY <1>11 DEF CommandAnswered, CommandNext
  <2>2. wake' = Awake
    BY <2>1 DEF TypeInv, TypeOK
  <2>3. n = 1 \/ (n - 1) % 2 = 1 \/ n - 1 = 2 * w
    <3>1. job[1].op = "setup" \/ job[1].op = "cleanup"
      BY <1>1, <2>1, CommandFacts
    <3>2. job[1].op = "cleanup" => n = 1
      BY <1>1, <1>3, <1>4, <2>1, FlyHead
    <3>3. job[1].op = "setup" => (n - 1) % 2 = 1 \/ n - 1 = 2 * LoadWindow
      BY <1>1, <1>3, <1>4, <2>1, FlyHead
    <3> QED  BY <1>2, <3>1, <3>2, <3>3
  <2>4. n # 1 => 2 * now + (n - 1) + ((n - 1) % 2) >= 2 * w
    <3>1. n # 0 /\ 2 * now + n + (n % 2) >= 2 * w
      BY <1>3, <1>4, <2>1
    <3>2. (n - 1) % 2 = 1 => n % 2 = 0
      BY <3>1, FlyArithmetic
    <3>3. CASE (n - 1) % 2 = 1
      BY <1>1, <3>1, <3>2, <3>3
    <3>4. CASE n - 1 = 2 * w
      <4>1. PICK r \in Nat : r = (n - 1) % 2
        BY <3>1, FlyArithmetic
      <4> QED  BY <1>1, <3>4, <4>1
    <3> QED  BY <2>3, <3>3, <3>4
  <2> QED  BY <1>10, <2>1, <2>2, <2>4
<1>12. CASE WakeUp
  <2>1. /\ wake # Awake /\ now >= wake /\ wake' = Awake /\ job' = Tail(job)
        /\ UNCHANGED <<load, failed, now>>
    BY <1>12 DEF WakeUp
  <2>2. job # <<>> /\ job[1].op = "sleep" /\ wake \in Nat
    BY <2>1 DEF TypeInv, TypeOK
  <2>3. (n - 1) % 2 = 0 /\ n # 0
    BY <1>1, <1>3, <1>4, <2>1, <2>2, FlyHead
  <2>4. 2 * wake + n >= 2 * w + 1
    BY <1>4, <2>1
  <2>5. 2 * now + (n - 1) + ((n - 1) % 2) >= 2 * w
    BY <1>1, <2>1, <2>2, <2>3, <2>4
  <2> QED  BY <1>10, <2>1, <2>2, <2>5
<1> QED  BY <1>5, <1>6, <1>7, <1>8, <1>9, <1>11, <1>12, Disturbances

(* LoadOutlastsBench: for any -duration and -interval, and whatever is     *)
(* slow, a driver in which nothing failed takes its load away after the    *)
(* last sample, as long as the load is longer than the intervals of all    *)
(* samples and the seconds that ticks waited and reads took.               *)
THEOREM LoadAlwaysOutlastsBench == Spec => LoadOutlastsBench
<1> DEFINE A == job # <<>> /\ job[1].op = "cleanup" /\ job' # job /\ load' # NoLoad /\ ~failed
                => \/ bench = "done" \/ samples = Count
                   \/ Count * interval + lag >= Duration + Margin
<1>1. TypeInv /\ TimeInv => A
  <2> SUFFICES ASSUME TypeInv, TimeInv, job # <<>>, job[1].op = "cleanup", ~ failed,
                      bench # "done", samples # Count
               PROVE  Count * interval + lag >= Duration + Margin
    OBVIOUS
  <2>1. /\ now \in Nat /\ samples \in Nat /\ samples < Count /\ Count \in Nat
        /\ interval \in Nat /\ Duration \in Nat /\ IsJob(job) /\ bench = "on"
        /\ next \in Nat /\ lag \in Nat
    BY CountType, LoadtestAssumption DEF TypeInv, TypeOK
  <2>2. now >= Duration + Margin
    <3>1. CASE load.kind # "fly"
      <4>1. 1 \in DOMAIN job /\ \A k \in DOMAIN job : ~ (k < 1)
        <5>1. \A k \in DOMAIN job : k \in Nat /\ (k # 1 => k > 1)
          BY <2>1, TailOfJob
        <5> QED  BY <2>1, <5>1, TailOfJob
      <4>2. now >= LoadWindow
        BY <3>1, <4>1 DEF TimeInv, LastsByOneSleep
      <4> QED  BY <2>1, <3>1, <4>2, LoadWindowType DEF Margin
    <3>2. CASE load.kind = "fly"
      <4>1. PICK n \in Nat : n = Len(job)
        BY <2>1, ListFacts DEF IsJob
      <4>2. Flies(job) /\ 2 * now + n + (n % 2) >= 2 * LoadWindow
        BY <3>2, <4>1 DEF TimeInv, LastsByManySleeps
      <4>3. n = 1
        BY <2>1, <4>1, <4>2, FlyHead
      <4>4. 2 * now + 1 + 1 >= 2 * LoadWindow
        BY <4>2, <4>3
      <4> QED  BY <2>1, <3>2, <4>4, LoadWindowType DEF Margin
    <3> QED  BY <3>1, <3>2
  <2>3. now <= DueTime + lag
    <3>1. DueTime \in Nat
      BY <2>1 DEF DueTime
    <3>2. /\ now < next
          /\ BenchWaits \/ tick \/ reading
          /\ (tick \/ reading) => now <= DueTime + lag
          /\ BenchWaits => next <= DueTime + lag
      BY <2>1 DEF TimeInv, TicksInTime, BenchWaits
    <3> QED  BY <2>1, <3>1, <3>2
  <2>4. DueTime <= Count * interval /\ DueTime \in Nat /\ Count * interval \in Nat
    <3>1. PICK k \in Nat : k = samples + 1 /\ k <= Count
      BY <2>1
    <3> QED  BY <2>1, <3>1, ProductMonotone DEF DueTime
  <2>5. Margin \in Nat
    BY DEF Margin
  <2>6. PICK x \in Nat, y \in Nat : x = DueTime /\ y = Count * interval
    BY <2>4
  <2> QED  BY <2>1, <2>2, <2>3, <2>4, <2>5, <2>6
<1>2. TypeInv /\ TimeInv => [A]_vars
  BY <1>1
<1>3. TypeInv /\ TimeInv /\ [Next]_vars => TimeInv'
  BY TicksStep, OneSleepStep, ManySleepsStep DEF TimeInv
<1> QED  BY <1>2, <1>3, TypeInit, TypeStep, TimeInit, PTL DEF Spec, LoadOutlastsBench
=============================================================================
