-------------------------------- MODULE Tune --------------------------------
(***************************************************************************)
(* The tuning rules of internal/tune: from a machine and a workload to the *)
(* settings that `tickwarden tune`, `optimize` and `init` recommend.       *)
(*                                                                         *)
(* Cores are counted in hundredths, memory in units of which GiB make a    *)
(* gibibyte.  The code's square root is compared through squares, exactly  *)
(* where the code rounds a float64.                                        *)
(***************************************************************************)
EXTENDS Integers, Sequences

CONSTANT GiB        \* gib: 2^30 in the code, a few units in a model

ASSUME TuneAssumption == GiB \in Nat /\ GiB > 0 /\ GiB % 2 = 0

\* The part of detect.Profile the rules read; budget 0 is "couldn't tell".
Profiles == [cores : Nat, budget : Nat, disk : {"ssd", "hdd", "unknown"},
             container : BOOLEAN]

\* tune.Options; cmdTune raises a measured peak to 1, Recommend any other.
Workloads == [players : Int, perfMods : BOOLEAN, clustered : BOOLEAN, settled : BOOLEAN]

Larger(a, b) == IF a > b THEN a ELSE b
Smaller(a, b) == IF a < b THEN a ELSE b

\* "if opts.Players < 1 { opts.Players = 1 }"
Sized(w) == [w EXCEPT !.players = Larger(@, 1)]

-----------------------------------------------------------------------------
(* heapFor *)

\* Kept off the heap: off-heap memory and the page cache.
Reserve(budget) == Larger(budget \div 4, (3 * GiB) \div 2)

Need(players) == 2 * GiB + players * (GiB \div 2)

WholeGiB(memory) == (memory \div GiB) * GiB

HeapFor(budget, players) ==
    IF budget = 0 THEN 0
    ELSE IF Reserve(budget) >= budget THEN WholeGiB(budget \div 2)
    ELSE WholeGiB(Larger(Smaller(Need(players), budget - Reserve(budget)), GiB))

-----------------------------------------------------------------------------
(* distancesFor *)

BudgetPerCore(w) == (IF w.perfMods THEN 64 ELSE 32) * (IF w.settled THEN 2 ELSE 1)

\* A cluster of n players simulates as much as n/3 scattered ones, rounded up.
EffPlayers(w) == IF w.clustered THEN (w.players + 2) \div 3 ELSE w.players

\* Round(Sqrt(budgetPerCore * cores / effPlayers)) >= n, for n >= 1
Affords(n, cores, w) ==
    (2 * n - 1) * (2 * n - 1) * 100 * EffPlayers(w) <= 4 * BudgetPerCore(w) * cores

\* ... clamped to 5 .. 16
SimFor(cores, w) ==
    CHOOSE n \in 5 .. 16 :
        /\ n > 5 => Affords(n, cores, w)
        /\ n < 16 => ~Affords(n + 1, cores, w)

\* SSD earns a higher bonus and a higher cap: loads are cheap.
ViewFor(sim, ssd) ==
    IF ssd THEN Smaller(Larger(sim + 10, 8), 24) ELSE Smaller(Larger(sim + 6, 8), 16)

-----------------------------------------------------------------------------
(* Recommend *)

\* C2ME's worker pool: a core less on a small machine, two on a bigger one.
Workers(cores) == Larger((cores \div 100) - (IF cores >= 400 THEN 2 ELSE 1), 1)

\* One tune.Rec.  Where the code's value is a word, it is numbered here: gc 1
\* is ZGC and 0 is G1, a storage warning 1, a remark 0.
Rec(key, value, target) == [key |-> key, value |-> value, target |-> target]

HeapRecs(budget, heap) ==
    IF budget = 0 THEN <<Rec("Xmx/Xms", 0, "info")>>
    ELSE <<Rec("Xmx", heap \div GiB, "jvm-flags"), Rec("Xms", heap \div GiB, "jvm-flags")>>

CollectorRecs(heap) ==
    IF heap = 0 THEN <<>>
    ELSE <<Rec("gc", IF heap >= 12 * GiB THEN 1 ELSE 0, "jvm-flags")>>

DistanceRecs(profile, w) ==
    LET sim == SimFor(profile.cores, w)
    IN <<Rec("view-distance", ViewFor(sim, profile.disk = "ssd"), "server.properties"),
         Rec("simulation-distance", sim, "server.properties")>>

DiskRecs(disk) ==
    IF disk = "unknown" THEN <<>>
    ELSE <<Rec("storage", IF disk = "hdd" THEN 1 ELSE 0, "info")>>

Recommend(profile, workload) ==
    LET w == Sized(workload)
        heap == HeapFor(profile.budget, w.players)
    IN HeapRecs(profile.budget, heap) \o CollectorRecs(heap) \o DistanceRecs(profile, w)
         \o <<Rec("c2me.threads", Workers(profile.cores), "mod-config"),
              Rec("lighting-engine", 0, "manual")>>
         \o DiskRecs(profile.disk)
         \o (IF profile.container THEN <<Rec("note:contention", 0, "info")>> ELSE <<>>)

\* The recommendations with a given target, in the plan's order.
RecsFor(target, recs) == SelectSeq(recs, LAMBDA r : r.target = target)
=============================================================================
