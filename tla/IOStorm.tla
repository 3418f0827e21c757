------------------------------ MODULE IOStorm ------------------------------
(***************************************************************************)
(* `tickwarden iostorm` on a Proxmox host: the host agent scans every      *)
(* container's cgroup twice (internal/hostagent), Detect pairs a writer    *)
(* with the container it starves (internal/iostorm/iostorm.go), and        *)
(* -apply or -undo edits the writer's io.max (apply.go).  Containers stop, *)
(* boot and change what they write at any time, also between the scans     *)
(* and the edit; the kernel forgets a stopped container's counters and     *)
(* limits.                                                                 *)
(*                                                                         *)
(* Of a container's load only what Detect reads is kept: the bytes written *)
(* in the window (the window is the unit of time), the I/O pressure and    *)
(* the throttled fraction.  Devices are numbered as io.stat's lines.       *)
(***************************************************************************)
EXTENDS Integers, FiniteSets

CONSTANTS
    Containers,     \* CTIDs
    Devices,        \* block devices: 1, 2, ...
    Mounts,         \* the devices each container writes to
    Rates,          \* bytes a container may try to write in one window
    Pressures,      \* I/O pressures
    Fractions,      \* throttled fractions
    WriterMin,      \* WriterMinWriteMBps
    PressureMin,    \* VictimMinIOPressure
    FractionMin,    \* VictimMinThrottledFrac
    SuggestedWbps,  \* DefaultSuggestedWbps
    FloorWbps,      \* DefaultFloorWbps
    CommandLines,   \* flags of -apply and -undo runs: undo, dryRun, wbps (0: the
                    \* suggested cap) and device (NoDevice when not given)
    NoDevice,
    MaxBytes        \* bound: a container's disks are full

ASSUME IOStormAssumption ==
    /\ Containers \subseteq Nat /\ IsFiniteSet(Containers)
    /\ IsFiniteSet(Devices) /\ Devices # {} /\ Devices = 1 .. Cardinality(Devices)
    /\ Rates \subseteq Nat /\ Pressures \subseteq Nat /\ Fractions \subseteq Nat
    /\ Mounts \in [Containers -> SUBSET Devices] /\ MaxBytes \in Nat
    /\ CommandLines \subseteq [undo : BOOLEAN, dryRun : BOOLEAN, wbps : Int,
                              device : Devices \cup {NoDevice}]
    /\ {FloorWbps, WriterMin, SuggestedWbps} \subseteq Nat
    /\ 0 < FloorWbps /\ FloorWbps < WriterMin /\ WriterMin < SuggestedWbps
    /\ NoDevice \notin Devices

VARIABLES
    \* the host
    up,         \* the containers that run
    work,       \* what each tries to write per window, and to which device
    wbytes,     \* io.stat: bytes written to each device since the container booted
    limit,      \* io.max: write limit per device
    \* the command
    pc,         \* "idle", "window", "scan", "discover", "read" or "write"
    flags,      \* the command line
    device,     \* the device to key the limit on
    first,      \* the first scan: bytes written by each container it found
    loads,      \* hostagent.Sample's result
    storm,      \* the storm to act on
    exit,       \* how the latest command ended
    \* history
    wrote       \* bytes really written to each device since the first scan

hostVars == <<up, work, wbytes, limit>>
commandVars == <<pc, flags, device, first, loads, storm, exit>>
vars == <<hostVars, commandVars, wrote>>

Unlimited == MaxBytes + 1
NoFlags == [undo |-> FALSE, dryRun |-> FALSE, wbps |-> 0, device |-> NoDevice]
NoScan == [c \in {} |-> 0]
NoStorm == [writer |-> -1, victim |-> -1]

Idle == [device |-> NoDevice, rate |-> 0]
Nothing == [d \in Devices |-> 0]
NoLimits == [d \in Devices |-> Unlimited]

\* Limits never go below the floor.
Limits == {n \in Nat : n >= FloorWbps} \cup {Unlimited}

LoadType == [writes : Nat, pressure : Nat, throttled : Nat]

TypeOK ==
    /\ up \subseteq Containers
    /\ work \in [Containers -> [device : Devices, rate : Rates] \cup {Idle}]
    /\ wbytes \in [Containers -> [Devices -> 0 .. MaxBytes]]
    /\ limit \in [Containers -> [Devices -> Limits]]
    /\ pc \in {"idle", "window", "scan", "discover", "read", "write"}
    /\ flags \in CommandLines \cup {NoFlags}
    /\ device \in Devices \cup {NoDevice}
    /\ pc \in {"read", "write"} => device \in Devices
    /\ DOMAIN first \subseteq Containers /\ \A c \in DOMAIN first : first[c] \in Nat
    /\ DOMAIN loads = DOMAIN first \/ loads = NoScan
    /\ \A c \in DOMAIN loads : loads[c] \in LoadType
    /\ storm = NoStorm
         \/ storm \in [writer : DOMAIN loads, victim : DOMAIN loads]
    /\ exit \in {"none", "ok", "error"}
    /\ wrote \in [Containers -> [Devices -> Nat]]

Init ==
    /\ up = Containers
    /\ work = [c \in Containers |-> Idle]
    /\ wbytes = [c \in Containers |-> Nothing]
    /\ limit = [c \in Containers |-> NoLimits]
    /\ pc = "idle" /\ flags = NoFlags /\ device = NoDevice
    /\ first = NoScan /\ loads = NoScan /\ storm = NoStorm
    /\ exit = "none"
    /\ wrote = [c \in Containers |-> Nothing]

-----------------------------------------------------------------------------
(* The containers and the kernel *)

Stop(c) ==
    /\ c \in up
    /\ up' = up \ {c}
    /\ work' = [work EXCEPT ![c] = Idle]
    /\ wbytes' = [wbytes EXCEPT ![c] = Nothing]
    /\ limit' = [limit EXCEPT ![c] = NoLimits]
    /\ UNCHANGED <<commandVars, wrote>>

Boot(c) ==
    /\ c \notin up
    /\ up' = up \cup {c}
    /\ UNCHANGED <<work, wbytes, limit, commandVars, wrote>>

NewWork(c) ==
    /\ c \in up
    /\ \E w \in {Idle} \cup [device : Mounts[c], rate : Rates] : work' = [work EXCEPT ![c] = w]
    /\ UNCHANGED <<up, wbytes, limit, commandVars, wrote>>

Least(a, b) == IF a <= b THEN a ELSE b

\* What c writes to d in one window, under its limit.
Written(c, d) ==
    IF work[c].device = d
    THEN Least(Least(work[c].rate, limit[c][d]), MaxBytes - wbytes[c][d])
    ELSE 0

\* The window between the scans: every container writes.
Window ==
    /\ pc = "window" /\ pc' = "scan"
    /\ wbytes' = [c \in Containers |-> [d \in Devices |-> wbytes[c][d] + Written(c, d)]]
    /\ wrote' = [c \in Containers |-> [d \in Devices |-> Written(c, d)]]
    /\ UNCHANGED <<up, work, limit, flags, device, first, loads, storm, exit>>

-----------------------------------------------------------------------------
(* The host agent *)

Lines == Cardinality(Devices)

\* "wbytes += ...", line by line.
Totals(bytes) ==
    LET upTo[n \in 0 .. Lines] == IF n = 0 THEN 0 ELSE upTo[n - 1] + bytes[n]
    IN  upTo

Total(bytes) == Totals(bytes)[Lines]

\* readIOStat: the total over the devices, 0 when the cgroup is gone.
TotalWritten(c) == IF c \in up THEN Total(wbytes[c]) ELSE 0

\* The command starts with its flags and makes the first scan.
Launch ==
    /\ pc = "idle" /\ pc' = "window"
    /\ flags' \in CommandLines
    /\ device' = flags'.device
    /\ first' = [c \in up |-> TotalWritten(c)]
    /\ exit' = "none"
    /\ UNCHANGED <<hostVars, loads, storm, wrote>>

\* Mutant: a counter that went backwards wraps around.
DeltaWrapped(b, a) == (b - a) % 1000

Delta(b, a) == IF b < a THEN 0 ELSE b - a

-----------------------------------------------------------------------------
(* Detect *)

IsVictim(load) == load.pressure >= PressureMin \/ load.throttled >= FractionMin

\* Mutant: a pressured writer is its own victim.
VictimsIncludingSelf(ls, c) == {v \in DOMAIN ls : IsVictim(ls[v])}

Victims(ls, c) == {v \in DOMAIN ls \ {c} : IsVictim(ls[v])}

Heavier(ls, a, b) ==
    \/ ls[a].writes > ls[b].writes
    \/ ls[a].writes = ls[b].writes /\ a < b

Worse(ls, a, b) ==
    \/ ls[a].pressure > ls[b].pressure
    \/ /\ ls[a].pressure = ls[b].pressure
       /\ \/ ls[a].throttled > ls[b].throttled
          \/ ls[a].throttled = ls[b].throttled /\ a < b

Storms(ls) ==
    {s \in [writer : DOMAIN ls, victim : DOMAIN ls] :
        /\ ls[s.writer].writes >= WriterMin
        /\ s.victim \in Victims(ls, s.writer)
        /\ \A v \in Victims(ls, s.writer) \ {s.victim} : Worse(ls, s.victim, v)}

\* Mutant: the lightest writer first.
FirstOfLightest(ss, ls) ==
    CHOOSE s \in ss : \A o \in ss \ {s} : Heavier(ls, o.writer, s.writer)

\* storms[0]
FirstOf(ss, ls) ==
    CHOOSE s \in ss : \A o \in ss \ {s} : Heavier(ls, s.writer, o.writer)

-----------------------------------------------------------------------------
(* The command *)

Finish(outcome) ==
    /\ pc' = "idle" /\ exit' = outcome
    /\ flags' = NoFlags /\ device' = NoDevice
    /\ first' = NoScan /\ loads' = NoScan /\ storm' = NoStorm
    /\ wrote' = [c \in Containers |-> Nothing]

\* The second scan of the containers of the first one; pressures are read as they are.
Scan ==
    /\ pc = "scan"
    /\ \E p \in [DOMAIN first \cap up -> Pressures], t \in [DOMAIN first \cap up -> Fractions] :
        LET ls == [c \in DOMAIN first |->
                      [writes    |-> Delta(TotalWritten(c), first[c]),
                       pressure  |-> IF c \in up THEN p[c] ELSE 0,
                       throttled |-> IF c \in up THEN t[c] ELSE 0]]
        IN  IF Storms(ls) = {}
            THEN Finish("ok")
            ELSE /\ loads' = ls
                 /\ storm' = FirstOf(Storms(ls), ls)
                 /\ pc' = IF device = NoDevice THEN "discover" ELSE "read"
                 /\ UNCHANGED <<flags, device, first, exit, wrote>>
    /\ UNCHANGED hostVars

\* The device with the most bytes written, the first of them on a tie.
Busiest(c) ==
    CHOOSE d \in Devices : \A o \in Devices \ {d} :
        \/ wbytes[c][d] > wbytes[c][o]
        \/ wbytes[c][d] = wbytes[c][o] /\ d < o

Discover ==
    /\ pc = "discover"
    /\ IF storm.writer \in up /\ wbytes[storm.writer][Busiest(storm.writer)] > 0
       THEN /\ device' = Busiest(storm.writer)
            /\ pc' = "read"
            /\ UNCHANGED <<flags, first, loads, storm, exit, wrote>>
       ELSE Finish("error")
    /\ UNCHANGED hostVars

\* Mutant: the floor is forgotten.
CapAsAsked(wbps) == IF wbps = 0 THEN SuggestedWbps ELSE wbps

Cap(wbps) ==
    LET asked == IF wbps = 0 THEN SuggestedWbps ELSE wbps
    IN  IF asked < FloorWbps THEN FloorWbps ELSE asked

\* Apply and Unset up to the write: the cap must be positive, io.max readable.
ReadLimit ==
    /\ pc = "read"
    /\ IF \/ ~flags.undo /\ flags.wbps < 0
          \/ storm.writer \notin up
       THEN Finish("error")
       ELSE IF flags.dryRun
       THEN Finish("ok")
       ELSE /\ pc' = "write"
            /\ UNCHANGED <<flags, device, first, loads, storm, exit, wrote>>
    /\ UNCHANGED hostVars

WriteLimit ==
    /\ pc = "write"
    /\ IF storm.writer \in up
       THEN /\ limit' = [limit EXCEPT ![storm.writer][device] =
                            IF flags.undo THEN Unlimited ELSE Cap(flags.wbps)]
            /\ Finish("ok")
       ELSE /\ UNCHANGED limit
            /\ Finish("error")
    /\ UNCHANGED <<up, work, wbytes>>

Command == Launch \/ Scan \/ Discover \/ ReadLimit \/ WriteLimit

Next ==
    \/ \E c \in Containers : Stop(c) \/ Boot(c) \/ NewWork(c)
    \/ Window
    \/ Command

Spec == Init /\ [][Next]_vars

-----------------------------------------------------------------------------
(* Properties *)

(* "A negative-wrapped huge delta would be a phantom spike" (hostagent.go: *)
(* 197-199): whatever containers restarted between the scans, none is      *)
(* found to have written more than it did in the window.                   *)
NoPhantomWrites == \A c \in DOMAIN loads : loads[c].writes <= Total(wrote[c])

(* A new limit lands on a container that really wrote WriterMin or more in *)
(* the window and starved another one, and no container that wrote more    *)
(* was starving one too (iostorm.go:37-41, main.go:675).                   *)
Starving(c) == \E v \in DOMAIN loads \ {c} : IsVictim(loads[v])
OnlyTheWorstIsCapped ==
    [][\A c \in Containers, d \in Devices :
        limit'[c][d] # limit[c][d] /\ limit'[c][d] # Unlimited
          => /\ Total(wrote[c]) >= WriterMin /\ Starving(c)
             /\ \A o \in DOMAIN loads :
                    loads[o].writes > loads[c].writes => ~Starving(o)]_vars

(* "The device the writer is actually hammering, which is the one a write  *)
(* cap should key on" (apply.go:193-194): no device took more of what the  *)
(* writer wrote in the window than the discovered one.                     *)
CapsTheHammeredDevice ==
    [][pc = "discover" /\ pc' = "read" =>
        \A d \in Devices :
            wrote[storm.writer][d] <= wrote[storm.writer][device']]_vars

Throttled == {p \in Containers \X Devices : limit[p[1]][p[2]] # Unlimited}

(* "-undo: remove the throttle from the culprit" (main.go:659): a run with *)
(* -undo that reports no error leaves no throttle when there was one.      *)
UndoRemovesThrottle ==
    [][pc # "idle" /\ pc' = "idle" /\ exit' = "ok" /\ flags.undo /\ ~flags.dryRun
         /\ Cardinality(Throttled) = 1
         => Throttled' = {}]_vars
=============================================================================
