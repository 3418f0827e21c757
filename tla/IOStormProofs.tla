---------------------------- MODULE IOStormProofs ----------------------------
(***************************************************************************)
(* What holds of `tickwarden iostorm` for any containers, devices and      *)
(* command lines, whichever containers stop, boot and change their writes  *)
(* at any time: types, that a restart is never taken for a burst, and that *)
(* a cap lands on the heaviest container that starves another.             *)
(***************************************************************************)
EXTENDS IOStorm, FiniteSetTheorems, TLAPS

(***************************************************************************)
(* Before the window no container counts more than at the first scan, and  *)
(* after it no more than that and what it wrote: one that restarted counts *)
(* from 0.                                                                 *)
(***************************************************************************)
WindowInv ==
    /\ pc = "window" => \A c \in DOMAIN first : Total(wbytes[c]) <= first[c]
    /\ pc = "scan" =>
         \A c \in DOMAIN first : Total(wbytes[c]) <= first[c] + Total(wrote[c])

\* The storm that is acted on is the first of those detected.
StormInv ==
    pc \in {"discover", "read", "write"} =>
        /\ storm \in Storms(loads)
        /\ \A o \in Storms(loads) \ {storm} : Heavier(loads, storm.writer, o.writer)

-----------------------------------------------------------------------------
(* Smallest and largest numbers *)

(* Any natural numbers have a smallest one.                                *)
LEMMA Smallest ==
    ASSUME NEW T \in SUBSET Nat, T # {}
    PROVE  \E x \in T : \A y \in T : x <= y
<1>1. PICK R : R = OpToRel(<, Nat)
  OBVIOUS
<1>2. IsWellFoundedOn(R, Nat)
  BY <1>1, NatLessThanWellFounded
<1>3. PICK x \in T : \A y \in T : ~ (<<y, x>> \in R)
  BY <1>2, WFMin
<1>4. \A y \in T : y < x => <<y, x>> \in R
  BY <1>1 DEF OpToRel
<1>5. \A y \in T : ~ (y < x)
  BY <1>3, <1>4
<1>6. \A y \in T : x <= y
  BY <1>5
<1> QED  BY <1>6

HasLargest(U, f) == \E x \in U : \A y \in U : f[y] <= f[x]

(* Of finitely many things, some one measures the most.                    *)
LEMMA Largest ==
    ASSUME NEW S, IsFiniteSet(S), S # {}, NEW f, \A x \in S : f[x] \in Nat
    PROVE  HasLargest(S, f)
<1> DEFINE Without == {n \in Nat : \E U \in SUBSET S :
                          U # {} /\ Cardinality(U) = n /\ ~ HasLargest(U, f)}
<1>1. SUFFICES ASSUME ~ HasLargest(S, f) PROVE FALSE
  OBVIOUS
<1>2. \A U \in SUBSET S : IsFiniteSet(U) /\ Cardinality(U) \in Nat
  BY FS_Subset, FS_CardinalityType
<1>3. Without # {}
  <2>1. S \in SUBSET S /\ Cardinality(S) \in Nat
    BY <1>2
  <2> QED  BY <1>1, <2>1
<1>4. PICK n \in Without : \A k \in Without : n <= k
  <2>1. Without \in SUBSET Nat
    OBVIOUS
  <2> HIDE DEF Without
  <2> QED  BY <1>3, <2>1, Smallest
<1>5. PICK U \in SUBSET S : U # {} /\ Cardinality(U) = n /\ ~ HasLargest(U, f)
  OBVIOUS
<1>6. PICK u \in U : TRUE
  BY <1>5
<1>7. PICK V \in SUBSET S : V = U \ {u}
  OBVIOUS
<1>8. Cardinality(V) = n - 1 /\ n \in Nat
  BY <1>2, <1>5, <1>7, FS_RemoveElement
<1>9. V # {}
  <2>1. V = {} => \A y \in U : f[y] <= f[u]
    BY <1>7
  <2> QED  BY <1>5, <2>1 DEF HasLargest
<1>10. HasLargest(V, f)
  <2>1. SUFFICES ASSUME ~ HasLargest(V, f) PROVE FALSE
    OBVIOUS
  <2>2. Cardinality(V) \in Without
    BY <1>2, <1>9, <2>1
  <2> HIDE DEF Without
  <2> QED  BY <1>4, <1>8, <2>2
<1>11. PICK x \in V : \A y \in V : f[y] <= f[x]
  BY <1>10 DEF HasLargest
<1>12. CASE f[u] <= f[x]
  <2>1. \A y \in U : f[y] <= f[x]
    BY <1>7, <1>11, <1>12
  <2> QED  BY <1>5, <1>7, <2>1 DEF HasLargest
<1>13. CASE f[x] < f[u]
  <2>1. \A y \in U : f[y] <= f[u]
    BY <1>7, <1>11, <1>13
  <2> QED  BY <1>5, <2>1 DEF HasLargest
<1> QED  BY <1>12, <1>13

(* And of those that measure the most, one has the smallest number.        *)
LEMMA First ==
    ASSUME NEW S \in SUBSET Nat, IsFiniteSet(S), S # {}, NEW f, \A x \in S : f[x] \in Nat
    PROVE  \E x \in S : \A y \in S \ {x} : f[x] > f[y] \/ (f[x] = f[y] /\ x < y)
<1>1. PICK z \in S : \A y \in S : f[y] <= f[z]
  BY Largest DEF HasLargest
<1>2. PICK M : M = {y \in S : f[y] = f[z]}
  OBVIOUS
<1>3. PICK x \in M : \A y \in M : x <= y
  <2>1. M \in SUBSET Nat /\ M # {}
    BY <1>2
  <2> QED  BY <2>1, Smallest
<1>4. x \in S /\ f[x] = f[z]
  BY <1>2, <1>3
<1>5. ASSUME NEW y \in S \ {x}
      PROVE  f[x] > f[y] \/ (f[x] = f[y] /\ x < y)
  <2>1. CASE f[y] = f[z]
    BY <1>2, <1>3, <1>4, <2>1
  <2>2. CASE f[y] # f[z]
    BY <1>1, <1>4, <2>2
  <2> QED  BY <2>1, <2>2
<1> QED  BY <1>4, <1>5

-----------------------------------------------------------------------------
(* Totals *)

LEMMA LinesType ==
    Lines \in Nat /\ Lines # 0 /\ Devices = 1 .. Lines /\ Devices # {}
    /\ Devices \subseteq Nat /\ IsFiniteSet(Devices)
<1>1. Lines \in Nat /\ Devices = 1 .. Lines /\ Devices # {} /\ IsFiniteSet(Devices)
  BY IOStormAssumption, FS_CardinalityType DEF Lines
<1> QED  BY <1>1

\* t adds up the first m lines.
AddsUp(t, bytes, m) ==
    \A n \in 0 .. m : t[n] = IF n = 0 THEN 0 ELSE t[n - 1] + bytes[n]

LEMMA TotalsExist ==
    ASSUME NEW bytes
    PROVE  \E t : t = [n \in 0 .. Lines |-> IF n = 0 THEN 0 ELSE t[n - 1] + bytes[n]]
<1> DEFINE Fail == {m \in 0 .. Lines : ~ \E t : AddsUp(t, bytes, m)}
<1>1. Lines \in Nat
  BY LinesType
<1>2. Fail = {}
  <2>1. SUFFICES ASSUME Fail # {} PROVE FALSE
    OBVIOUS
  <2>2. PICK m \in Fail : \A k \in Fail : m <= k
    <3>1. Fail \in SUBSET Nat
      OBVIOUS
    <3> HIDE DEF Fail
    <3> QED  BY <2>1, <3>1, Smallest
  <2>3. m \in Nat /\ m <= Lines /\ ~ \E t : AddsUp(t, bytes, m)
    BY <1>1
  <2>4. m # 0
    <3>1. AddsUp([n \in 0 .. 0 |-> 0], bytes, 0)
      BY DEF AddsUp
    <3> QED  BY <2>3, <3>1
  <2>5. PICK k \in Nat : k = m - 1
    BY <2>3, <2>4
  <2>6. k \in 0 .. Lines /\ ~ (m <= k)
    BY <1>1, <2>3, <2>5
  <2>7. PICK t : AddsUp(t, bytes, k)
    BY <2>2, <2>6
  <2>8. PICK u : u = [n \in 0 .. m |-> IF n = m THEN t[k] + bytes[m] ELSE t[n]]
    OBVIOUS
  <2>9. AddsUp(u, bytes, m)
    <3> SUFFICES ASSUME NEW n \in 0 .. m
                 PROVE  u[n] = IF n = 0 THEN 0 ELSE u[n - 1] + bytes[n]
      BY DEF AddsUp
    <3>1. CASE n = m
      <4>1. u[n] = t[k] + bytes[m] /\ u[n - 1] = t[k]
        BY <2>3, <2>4, <2>5, <2>8, <3>1
      <4> QED  BY <2>4, <3>1, <4>1
    <3>2. CASE n # m
      <4>1. n \in 0 .. k /\ u[n] = t[n]
        BY <2>3, <2>5, <2>8, <3>2
      <4>2. n # 0 => u[n - 1] = t[n - 1]
        BY <2>3, <2>5, <2>8, <3>2
      <4> QED  BY <2>7, <4>1, <4>2 DEF AddsUp
    <3> QED  BY <3>1, <3>2
  <2> QED  BY <2>3, <2>9
<1>3. PICK t : AddsUp(t, bytes, Lines)
  <2>1. Lines \in 0 .. Lines
    BY <1>1
  <2> QED  BY <1>2, <2>1
<1>4. PICK u : u = [n \in 0 .. Lines |-> t[n]]
  OBVIOUS
<1>5. u = [n \in 0 .. Lines |-> IF n = 0 THEN 0 ELSE u[n - 1] + bytes[n]]
  <2>1. \A n \in 0 .. Lines : n # 0 => n - 1 \in 0 .. Lines
    BY <1>1
  <2>2. \A n \in 0 .. Lines : u[n] = t[n] /\ (n # 0 => u[n - 1] = t[n - 1])
    BY <1>4, <2>1
  <2>3. \A n \in 0 .. Lines : u[n] = IF n = 0 THEN 0 ELSE u[n - 1] + bytes[n]
    BY <1>3, <2>2 DEF AddsUp
  <2> QED  BY <1>4, <2>3
<1> QED  BY <1>5

LEMMA TotalsAddUp ==
    ASSUME NEW bytes
    PROVE  AddsUp(Totals(bytes), bytes, Lines)
<1>1. PICK t : t = Totals(bytes)
  OBVIOUS
<1>2. t = [n \in 0 .. Lines |-> IF n = 0 THEN 0 ELSE t[n - 1] + bytes[n]]
  BY <1>1, TotalsExist DEF Totals
<1> QED  BY <1>1, <1>2 DEF AddsUp

LEMMA TotalsType ==
    ASSUME NEW bytes, \A d \in Devices : bytes[d] \in Nat
    PROVE  /\ \A n \in 0 .. Lines : Totals(bytes)[n] \in Nat
           /\ Total(bytes) \in Nat
<1>1. PICK t : t = Totals(bytes)
  OBVIOUS
<1>2. AddsUp(t, bytes, Lines) /\ Lines \in Nat /\ Devices = 1 .. Lines
  BY <1>1, TotalsAddUp, LinesType
<1>3. PICK Fail : Fail = {n \in 0 .. Lines : t[n] \notin Nat}
  OBVIOUS
<1>4. Fail = {}
  <2>1. SUFFICES ASSUME Fail # {} PROVE FALSE
    OBVIOUS
  <2>2. PICK n \in Fail : \A k \in Fail : n <= k
    <3>1. Fail \in SUBSET Nat
      BY <1>3
    <3> QED  BY <2>1, <3>1, Smallest
  <2>3. n \in Nat /\ n <= Lines /\ t[n] \notin Nat
    BY <1>2, <1>3
  <2>4. n # 0
    BY <1>2, <2>3 DEF AddsUp
  <2>5. PICK k \in Nat : k = n - 1
    BY <2>3, <2>4
  <2>6. k \in 0 .. Lines /\ ~ (n <= k)
    BY <1>2, <2>3, <2>5
  <2>7. t[k] \in Nat
    BY <1>3, <2>2, <2>6
  <2>8. n \in Devices /\ bytes[n] \in Nat
    BY <1>2, <2>3, <2>4
  <2>9. t[n] = t[k] + bytes[n]
    BY <1>2, <2>3, <2>4, <2>5 DEF AddsUp
  <2> QED  BY <2>3, <2>7, <2>8, <2>9
<1> QED  BY <1>1, <1>2, <1>3, <1>4 DEF Total

(* The total of what was there and what came is the sum of the totals.     *)
LEMMA TotalOfSum ==
    ASSUME NEW f, NEW g, NEW h, \A d \in Devices : f[d] \in Nat /\ g[d] \in Nat,
           \A d \in Devices : h[d] = f[d] + g[d]
    PROVE  Total(h) = Total(f) + Total(g)
<1>1. PICK t, u, v : t = Totals(f) /\ u = Totals(g) /\ v = Totals(h)
  OBVIOUS
<1>2. /\ AddsUp(t, f, Lines) /\ AddsUp(u, g, Lines) /\ AddsUp(v, h, Lines)
      /\ Lines \in Nat /\ Devices = 1 .. Lines
      /\ \A n \in 0 .. Lines : t[n] \in Nat /\ u[n] \in Nat
  BY <1>1, TotalsAddUp, TotalsType, LinesType
<1>3. PICK Fail : Fail = {n \in 0 .. Lines : v[n] # t[n] + u[n]}
  OBVIOUS
<1>4. Fail = {}
  <2>1. SUFFICES ASSUME Fail # {} PROVE FALSE
    OBVIOUS
  <2>2. PICK n \in Fail : \A k \in Fail : n <= k
    <3>1. Fail \in SUBSET Nat
      BY <1>3
    <3> QED  BY <2>1, <3>1, Smallest
  <2>3. n \in Nat /\ n \in 0 .. Lines /\ v[n] # t[n] + u[n]
    BY <1>2, <1>3
  <2>4. n # 0
    <3>1. n = 0 => v[n] = 0 /\ t[n] = 0 /\ u[n] = 0
      BY <1>2, <2>3 DEF AddsUp
    <3> QED  BY <2>3, <3>1
  <2>5. PICK k \in Nat : k = n - 1
    BY <2>3, <2>4
  <2>6. k \in 0 .. Lines /\ ~ (n <= k)
    BY <1>2, <2>3, <2>5
  <2>7. v[k] = t[k] + u[k] /\ t[k] \in Nat /\ u[k] \in Nat
    BY <1>2, <1>3, <2>2, <2>6
  <2>8. n \in Devices
    BY <1>2, <2>3, <2>4
  <2>9. v[n] = v[k] + h[n] /\ t[n] = t[k] + f[n] /\ u[n] = u[k] + g[n]
    BY <1>2, <2>3, <2>4, <2>5 DEF AddsUp
  <2> QED  BY <2>3, <2>7, <2>8, <2>9
<1>5. Lines \in 0 .. Lines
  BY <1>2
<1> QED  BY <1>1, <1>3, <1>4, <1>5 DEF Total

LEMMA TotalOfNothing == Total(Nothing) = 0
<1>1. PICK none : none = Nothing
  OBVIOUS
<1>2. \A d \in Devices : none[d] = 0
  BY <1>1 DEF Nothing
<1>3. Total(none) = Total(none) + Total(none) /\ Total(none) \in Nat
  <2>1. \A d \in Devices : none[d] \in Nat /\ none[d] = none[d] + none[d]
    BY <1>2
  <2> QED  BY <2>1, TotalOfSum, TotalsType
<1>4. Total(none) = 0
  <2>1. PICK x : x = Total(none)
    OBVIOUS
  <2>2. x \in Nat /\ x + x <= x
    BY <1>3, <2>1
  <2>3. x = 0
    BY <2>2
  <2> QED  BY <2>1, <2>3
<1> QED  BY <1>1, <1>4

-----------------------------------------------------------------------------
(* What is detected *)

\* What Sample returns: loads of some of the containers.
IsSample(ls) ==
    /\ DOMAIN ls \subseteq Containers
    /\ \A c \in DOMAIN ls : ls[c] \in LoadType

LEMMA SampleFacts ==
    ASSUME NEW ls, IsSample(ls)
    PROVE  /\ DOMAIN ls \in SUBSET Nat /\ IsFiniteSet(DOMAIN ls)
           /\ \A c \in DOMAIN ls : /\ ls[c].writes \in Nat /\ ls[c].pressure \in Nat
                                   /\ ls[c].throttled \in Nat
<1>1. Containers \subseteq Nat /\ IsFiniteSet(Containers) /\ DOMAIN ls \in SUBSET Containers
  BY IOStormAssumption DEF IsSample
<1>2. IsFiniteSet(DOMAIN ls)
  BY <1>1, FS_Subset
<1> QED  BY <1>1, <1>2 DEF IsSample, LoadType

(* Of a writer's victims one is the worst.                                 *)
LEMMA WorstExists ==
    ASSUME NEW ls, IsSample(ls), NEW c, Victims(ls, c) # {}
    PROVE  \E v \in Victims(ls, c) : \A o \in Victims(ls, c) \ {v} : Worse(ls, v, o)
<1>1. PICK V : V = Victims(ls, c)
  OBVIOUS
<1>2. V \in SUBSET DOMAIN ls /\ V # {}
  BY <1>1 DEF Victims
<1>3. V \in SUBSET Nat /\ IsFiniteSet(V)
  BY <1>2, SampleFacts, FS_Subset
<1>4. PICK p, t : p = [v \in V |-> ls[v].pressure] /\ t = [v \in V |-> ls[v].throttled]
  OBVIOUS
<1>5. \A v \in V : /\ p[v] = ls[v].pressure /\ p[v] \in Nat
                   /\ t[v] = ls[v].throttled /\ t[v] \in Nat
  BY <1>2, <1>4, SampleFacts
<1>6. PICK z \in V : \A v \in V : p[v] <= p[z]
  <2>1. HasLargest(V, p)
    BY <1>2, <1>3, <1>5, Largest
  <2> QED  BY <2>1 DEF HasLargest
<1>7. PICK M : M = {v \in V : p[v] = p[z]}
  OBVIOUS
<1>8. M \in SUBSET V /\ M # {} /\ M \in SUBSET Nat
  BY <1>3, <1>6, <1>7
<1>9. PICK x \in M : \A v \in M \ {x} : t[x] > t[v] \/ (t[x] = t[v] /\ x < v)
  <2>1. IsFiniteSet(M)
    BY <1>3, <1>8, FS_Subset
  <2>2. \A v \in M : t[v] \in Nat
    BY <1>5, <1>8
  <2> QED  BY <1>8, <2>1, <2>2, First
<1>10. ASSUME NEW o \in V \ {x}
       PROVE  Worse(ls, x, o)
  <2>1. x \in V /\ p[x] = p[z]
    BY <1>7, <1>8, <1>9
  <2>2. CASE p[o] = p[z]
    <3>1. o \in M \ {x}
      BY <1>7, <1>10, <2>2
    <3> QED  BY <1>5, <1>9, <1>10, <2>1, <2>2, <3>1 DEF Worse
  <2>3. CASE p[o] # p[z]
    <3>1. p[x] > p[o]
      BY <1>5, <1>6, <1>10, <2>1, <2>3
    <3> QED  BY <1>5, <1>10, <2>1, <3>1 DEF Worse
  <2> QED  BY <2>2, <2>3
<1> QED  BY <1>1, <1>8, <1>9, <1>10

LEMMA StormFacts ==
    ASSUME NEW ls, NEW s \in Storms(ls)
    PROVE  /\ s \in [writer : DOMAIN ls, victim : DOMAIN ls]
           /\ s.writer \in DOMAIN ls /\ ls[s.writer].writes >= WriterMin
           /\ s.victim \in DOMAIN ls \ {s.writer} /\ IsVictim(ls[s.victim])
           /\ \A v \in Victims(ls, s.writer) \ {s.victim} : Worse(ls, s.victim, v)
<1>1. /\ s \in [writer : DOMAIN ls, victim : DOMAIN ls]
      /\ ls[s.writer].writes >= WriterMin
      /\ s.victim \in Victims(ls, s.writer)
      /\ \A v \in Victims(ls, s.writer) \ {s.victim} : Worse(ls, s.victim, v)
  BY DEF Storms
<1>2. s.victim \in DOMAIN ls \ {s.writer} /\ IsVictim(ls[s.victim])
  BY <1>1 DEF Victims
<1> QED  BY <1>1, <1>2

(* A heavy writer with a victim has a storm of its own.                    *)
LEMMA StormExists ==
    ASSUME NEW ls, IsSample(ls), NEW c \in DOMAIN ls, ls[c].writes >= WriterMin,
           Victims(ls, c) # {}
    PROVE  \E s \in Storms(ls) : s.writer = c
<1>1. PICK v \in Victims(ls, c) : \A o \in Victims(ls, c) \ {v} : Worse(ls, v, o)
  BY WorstExists
<1>2. PICK s : s = [writer |-> c, victim |-> v]
  OBVIOUS
<1>3. s.writer = c /\ s.victim = v /\ v \in DOMAIN ls
  BY <1>2 DEF Victims
<1>4. s \in [writer : DOMAIN ls, victim : DOMAIN ls]
  BY <1>2, <1>3
<1>5. s \in Storms(ls)
  BY <1>1, <1>3, <1>4 DEF Storms
<1> QED  BY <1>3, <1>5

(* A writer has one storm at most.                                         *)
LEMMA OneStormPerWriter ==
    ASSUME NEW ls, IsSample(ls), NEW s \in Storms(ls), NEW o \in Storms(ls),
           s.writer = o.writer
    PROVE  s = o
<1>1. /\ s \in [writer : DOMAIN ls, victim : DOMAIN ls] /\ s.victim \in Victims(ls, s.writer)
      /\ o \in [writer : DOMAIN ls, victim : DOMAIN ls] /\ o.victim \in Victims(ls, o.writer)
  BY DEF Storms
<1>2. s.victim # o.victim =>
        Worse(ls, s.victim, o.victim) /\ Worse(ls, o.victim, s.victim)
  BY <1>1 DEF Storms
<1>3. PICK v, w : v = s.victim /\ w = o.victim
  OBVIOUS
<1>4. v \in DOMAIN ls /\ w \in DOMAIN ls
  BY <1>1, <1>3
<1>5. /\ v \in Nat /\ w \in Nat
      /\ ls[v].pressure \in Nat /\ ls[w].pressure \in Nat
      /\ ls[v].throttled \in Nat /\ ls[w].throttled \in Nat
  BY <1>4, SampleFacts
<1>6. ~ (Worse(ls, v, w) /\ Worse(ls, w, v))
  BY <1>5 DEF Worse
<1>7. s.victim = o.victim
  BY <1>2, <1>3, <1>6
<1> QED  BY <1>1, <1>7

(* The storms have a first one: that of the heaviest writer.               *)
LEMMA FirstStorm ==
    ASSUME NEW ls, IsSample(ls), Storms(ls) # {}
    PROVE  /\ FirstOf(Storms(ls), ls) \in Storms(ls)
           /\ \A o \in Storms(ls) \ {FirstOf(Storms(ls), ls)} :
                 Heavier(ls, FirstOf(Storms(ls), ls).writer, o.writer)
<1>1. PICK ss : ss = Storms(ls)
  OBVIOUS
<1>2. PICK W : W = {s.writer : s \in ss}
  OBVIOUS
<1>3. W \in SUBSET DOMAIN ls /\ W # {}
  BY <1>1, <1>2, StormFacts
<1>4. W \in SUBSET Nat /\ IsFiniteSet(W)
  BY <1>3, SampleFacts, FS_Subset
<1>5. PICK f : f = [c \in W |-> ls[c].writes]
  OBVIOUS
<1>6. \A c \in W : f[c] = ls[c].writes /\ f[c] \in Nat
  BY <1>3, <1>5, SampleFacts
<1>7. PICK x \in W : \A c \in W \ {x} : f[x] > f[c] \/ (f[x] = f[c] /\ x < c)
  BY <1>3, <1>4, <1>6, First
<1>8. PICK s \in ss : s.writer = x
  BY <1>2
<1>9. \A o \in ss \ {s} : Heavier(ls, s.writer, o.writer)
  <2> SUFFICES ASSUME NEW o \in ss \ {s}
               PROVE  Heavier(ls, s.writer, o.writer)
    OBVIOUS
  <2>1. o.writer \in W /\ o.writer # x
    BY <1>1, <1>2, <1>8, OneStormPerWriter
  <2> QED  BY <1>6, <1>7, <1>8, <2>1 DEF Heavier
<1>10. /\ FirstOf(ss, ls) \in ss
       /\ \A o \in ss \ {FirstOf(ss, ls)} : Heavier(ls, FirstOf(ss, ls).writer, o.writer)
  BY <1>9 DEF FirstOf
<1> QED  BY <1>1, <1>10

-----------------------------------------------------------------------------
(* Types *)

LEMMA Numbers ==
    /\ FloorWbps \in Nat /\ SuggestedWbps \in Nat /\ WriterMin \in Nat /\ MaxBytes \in Nat
    /\ Unlimited \in Limits /\ Limits \subseteq Nat
<1>1. /\ FloorWbps \in Nat /\ SuggestedWbps \in Nat /\ WriterMin \in Nat /\ MaxBytes \in Nat
  BY IOStormAssumption
<1> QED  BY <1>1 DEF Limits, Unlimited

\* A cap is never below the floor.
LEMMA CapType ==
    ASSUME NEW wbps \in Int
    PROVE  Cap(wbps) \in Limits
BY Numbers DEF Cap, Limits

LEMMA FlagsType ==
    ASSUME NEW fl \in CommandLines \cup {NoFlags}
    PROVE  fl.wbps \in Int /\ fl.device \in Devices \cup {NoDevice}
<1>1. CASE fl \in CommandLines
  BY <1>1, IOStormAssumption
<1>2. CASE fl = NoFlags
  BY <1>2 DEF NoFlags
<1> QED  BY <1>1, <1>2

LEMMA NoScanFacts ==
    /\ DOMAIN NoScan = {} /\ IsSample(NoScan)
BY DEF NoScan, IsSample

LEMMA WrittenType ==
    ASSUME TypeOK, NEW c \in Containers, NEW d \in Devices
    PROVE  Written(c, d) \in Nat /\ wbytes[c][d] \in Nat
           /\ wbytes[c][d] + Written(c, d) \in 0 .. MaxBytes
<1>1. PICK b, r, l : b = wbytes[c][d] /\ r = work[c].rate /\ l = limit[c][d]
  OBVIOUS
<1>2. b \in 0 .. MaxBytes /\ l \in Nat /\ MaxBytes \in Nat
  <2>1. wbytes[c] \in [Devices -> 0 .. MaxBytes] /\ limit[c] \in [Devices -> Limits]
    BY DEF TypeOK
  <2> QED  BY <1>1, <2>1, Numbers
<1>3. work[c].device = d => r \in Nat
  <2>1. work[c] \in [device : Devices, rate : Rates] \cup {Idle}
    BY DEF TypeOK
  <2>2. Idle.device # d /\ Rates \subseteq Nat
    BY IOStormAssumption DEF Idle
  <2> QED  BY <1>1, <2>1, <2>2
<1>4. CASE work[c].device = d
  <2>1. Written(c, d) = Least(Least(r, l), MaxBytes - b)
    BY <1>1, <1>4 DEF Written
  <2> QED  BY <1>1, <1>2, <1>3, <1>4, <2>1 DEF Least
<1>5. CASE work[c].device # d
  <2>1. Written(c, d) = 0
    BY <1>5 DEF Written
  <2> QED  BY <1>1, <1>2, <2>1
<1> QED  BY <1>4, <1>5

(* io.stat counts in natural numbers.                                      *)
LEMMA WrittenTotals ==
    ASSUME TypeOK
    PROVE  \A c \in Containers : /\ Total(wbytes[c]) \in Nat /\ Total(wrote[c]) \in Nat
                                 /\ TotalWritten(c) \in Nat
<1> SUFFICES ASSUME NEW c \in Containers
             PROVE  /\ Total(wbytes[c]) \in Nat /\ Total(wrote[c]) \in Nat
                    /\ TotalWritten(c) \in Nat
  OBVIOUS
<1>1. \A d \in Devices : wbytes[c][d] \in Nat /\ wrote[c][d] \in Nat
  BY DEF TypeOK
<1>2. Total(wbytes[c]) \in Nat /\ Total(wrote[c]) \in Nat
  BY <1>1, TotalsType
<1> QED  BY <1>2 DEF TotalWritten

LEMMA BusiestType ==
    ASSUME TypeOK, NEW c \in Containers
    PROVE  Busiest(c) \in Devices
<1>1. PICK f : f = wbytes[c]
  OBVIOUS
<1>2. \A d \in Devices : f[d] \in Nat
  BY <1>1 DEF TypeOK
<1>3. PICK S : S = Devices
  OBVIOUS
<1>4. S \in SUBSET Nat /\ IsFiniteSet(S) /\ S # {}
  BY <1>3, LinesType
<1>5. \E x \in S : \A y \in S \ {x} : f[x] > f[y] \/ (f[x] = f[y] /\ x < y)
  BY <1>2, <1>3, <1>4, First
<1> QED  BY <1>1, <1>3, <1>5 DEF Busiest

\* What the second scan finds.
Found(p, t) ==
    [c \in DOMAIN first |->
        [writes    |-> Delta(TotalWritten(c), first[c]),
         pressure  |-> IF c \in up THEN p[c] ELSE 0,
         throttled |-> IF c \in up THEN t[c] ELSE 0]]

LEMMA FoundIsSample ==
    ASSUME TypeOK,
           NEW p \in [DOMAIN first \cap up -> Pressures],
           NEW t \in [DOMAIN first \cap up -> Fractions]
    PROVE  /\ DOMAIN Found(p, t) = DOMAIN first /\ IsSample(Found(p, t))
           /\ \A c \in DOMAIN first :
                 Found(p, t)[c].writes = Delta(TotalWritten(c), first[c])
<1>1. Pressures \subseteq Nat /\ Fractions \subseteq Nat
  BY IOStormAssumption
<1>2. DOMAIN first \subseteq Containers /\ \A c \in DOMAIN first : first[c] \in Nat
  BY DEF TypeOK
<1>3. ASSUME NEW c \in DOMAIN first
      PROVE  Found(p, t)[c] \in LoadType
  <2>1. Delta(TotalWritten(c), first[c]) \in Nat
    BY <1>2, WrittenTotals DEF Delta
  <2>2. c \in up => p[c] \in Nat /\ t[c] \in Nat
    BY <1>1
  <2> QED  BY <2>1, <2>2 DEF Found, LoadType
<1> QED  BY <1>2, <1>3 DEF Found, IsSample

\* A scan that found ls.
ScanFinds(ls) ==
    /\ pc = "scan" /\ UNCHANGED hostVars
    /\ IsSample(ls) /\ DOMAIN ls = DOMAIN first
    /\ \A c \in DOMAIN first : ls[c].writes = Delta(TotalWritten(c), first[c])
    /\ \/ Finish("ok")
       \/ /\ Storms(ls) # {}
          /\ loads' = ls
          /\ storm' = FirstOf(Storms(ls), ls)
          /\ pc' = (IF device = NoDevice THEN "discover" ELSE "read")
          /\ UNCHANGED <<flags, device, first, exit, wrote>>

LEMMA ScanShape ==
    ASSUME TypeOK, Scan
    PROVE  \E ls : ScanFinds(ls)
<1>1. PICK p \in [DOMAIN first \cap up -> Pressures], t \in [DOMAIN first \cap up -> Fractions] :
         IF Storms(Found(p, t)) = {}
         THEN Finish("ok")
         ELSE /\ loads' = Found(p, t)
              /\ storm' = FirstOf(Storms(Found(p, t)), Found(p, t))
              /\ pc' = IF device = NoDevice THEN "discover" ELSE "read"
              /\ UNCHANGED <<flags, device, first, exit, wrote>>
  BY DEF Scan, Found
<1>2. PICK ls : ls = Found(p, t)
  OBVIOUS
<1>3. /\ DOMAIN ls = DOMAIN first /\ IsSample(ls)
      /\ \A c \in DOMAIN first : ls[c].writes = Delta(TotalWritten(c), first[c])
  BY <1>2, FoundIsSample
<1>4. pc = "scan" /\ UNCHANGED hostVars
  BY DEF Scan
<1>5. ScanFinds(ls)
  BY <1>1, <1>2, <1>3, <1>4 DEF ScanFinds
<1> QED  BY <1>5

TypeInv == TypeOK /\ (pc \in {"idle", "window", "scan"} => loads = NoScan)

LEMMA FinishType ==
    ASSUME TypeInv, NEW outcome \in {"ok", "error"}, Finish(outcome),
           up' \subseteq Containers,
           work' \in [Containers -> [device : Devices, rate : Rates] \cup {Idle}],
           wbytes' \in [Containers -> [Devices -> 0 .. MaxBytes]],
           limit' \in [Containers -> [Devices -> Limits]]
    PROVE  TypeInv'
<1>1. wrote' \in [Containers -> [Devices -> Nat]]
  BY DEF Finish, Nothing
<1>2. /\ DOMAIN first' \subseteq Containers /\ \A c \in DOMAIN first' : first'[c] \in Nat
      /\ \A c \in DOMAIN loads' : loads'[c] \in LoadType
  BY NoScanFacts DEF Finish
<1> QED  BY <1>1, <1>2 DEF TypeInv, TypeOK, Finish

LEMMA InitType == Init => TypeInv
<1> SUFFICES ASSUME Init PROVE TypeInv
  OBVIOUS
<1>1. 0 \in 0 .. MaxBytes /\ Unlimited \in Limits
  BY Numbers
<1>2. /\ wbytes \in [Containers -> [Devices -> 0 .. MaxBytes]]
      /\ limit \in [Containers -> [Devices -> Limits]]
      /\ wrote \in [Containers -> [Devices -> Nat]]
  BY <1>1 DEF Init, Nothing, NoLimits
<1>3. /\ DOMAIN first \subseteq Containers /\ \A c \in DOMAIN first : first[c] \in Nat
      /\ \A c \in DOMAIN loads : loads[c] \in LoadType
  BY NoScanFacts DEF Init
<1> QED  BY <1>2, <1>3 DEF Init, TypeInv, TypeOK

LEMMA TypeStep == TypeInv /\ [Next]_vars => TypeInv'
<1> SUFFICES ASSUME TypeInv, [Next]_vars PROVE TypeInv'
  OBVIOUS
<1>a. TypeOK
  BY DEF TypeInv
<1>1. ASSUME NEW c \in Containers, Stop(c)
      PROVE  TypeInv'
  <2>1. Nothing \in [Devices -> 0 .. MaxBytes] /\ NoLimits \in [Devices -> Limits]
    BY Numbers DEF Nothing, NoLimits
  <2>2. /\ up' \subseteq Containers
        /\ work' \in [Containers -> [device : Devices, rate : Rates] \cup {Idle}]
        /\ wbytes' \in [Containers -> [Devices -> 0 .. MaxBytes]]
        /\ limit' \in [Containers -> [Devices -> Limits]]
    BY <1>1, <1>a, <2>1 DEF Stop, TypeOK
  <2> QED  BY <1>1, <2>2 DEF Stop, TypeInv, TypeOK, commandVars
<1>2. ASSUME NEW c \in Containers, Boot(c)
      PROVE  TypeInv'
  BY <1>2 DEF Boot, TypeInv, TypeOK, commandVars
<1>3. ASSUME NEW c \in Containers, NewWork(c)
      PROVE  TypeInv'
  <2>1. Mounts[c] \subseteq Devices
    BY IOStormAssumption
  <2>2. work' \in [Containers -> [device : Devices, rate : Rates] \cup {Idle}]
    <3>1. PICK w \in {Idle} \cup [device : Mounts[c], rate : Rates] : work' = [work EXCEPT ![c] = w]
      BY <1>3 DEF NewWork
    <3>2. w \in [device : Devices, rate : Rates] \cup {Idle}
      BY <2>1
    <3> QED  BY <1>a, <3>1, <3>2 DEF TypeOK
  <2> QED  BY <1>3, <2>2 DEF NewWork, TypeInv, TypeOK, commandVars
<1>4. CASE Window
  <2>1. \A c \in Containers, d \in Devices :
           Written(c, d) \in Nat /\ wbytes[c][d] + Written(c, d) \in 0 .. MaxBytes
    BY <1>a, WrittenType
  <2>2. /\ wbytes' \in [Containers -> [Devices -> 0 .. MaxBytes]]
        /\ wrote' \in [Containers -> [Devices -> Nat]]
    BY <1>4, <2>1 DEF Window
  <2> QED  BY <1>4, <2>2 DEF Window, TypeInv, TypeOK
<1>5. CASE Launch
  <2>1. /\ flags' \in CommandLines \cup {NoFlags} /\ device' \in Devices \cup {NoDevice}
    <3>1. flags' \in CommandLines /\ device' = flags'.device
      BY <1>5 DEF Launch
    <3> QED  BY <3>1, IOStormAssumption
  <2>2. DOMAIN first' \subseteq Containers /\ \A c \in DOMAIN first' : first'[c] \in Nat
    <3>1. up \subseteq Containers /\ \A c \in Containers : TotalWritten(c) \in Nat
      BY <1>a, WrittenTotals DEF TypeOK
    <3>2. first' = [c \in up |-> TotalWritten(c)]
      BY <1>5 DEF Launch
    <3> QED  BY <3>1, <3>2
  <2>3. loads = NoScan /\ storm = NoStorm
    <3>1. loads = NoScan
      BY <1>5 DEF Launch, TypeInv
    <3>2. storm \notin [writer : DOMAIN loads, victim : DOMAIN loads]
      BY <3>1, NoScanFacts
    <3> QED  BY <1>a, <3>1, <3>2 DEF TypeOK
  <2> QED  BY <1>5, <2>1, <2>2, <2>3 DEF Launch, TypeInv, TypeOK, hostVars
<1>6. CASE Scan
  <2>1. PICK ls : ScanFinds(ls)
    BY <1>6, <1>a, ScanShape
  <2>2. UNCHANGED hostVars
    BY <2>1 DEF ScanFinds
  <2>3. CASE Finish("ok")
    BY <1>a, <2>2, <2>3, FinishType DEF hostVars, TypeOK
  <2>4. CASE ~ Finish("ok")
    <3>1. /\ IsSample(ls) /\ DOMAIN ls = DOMAIN first /\ Storms(ls) # {}
          /\ loads' = ls /\ storm' = FirstOf(Storms(ls), ls)
          /\ pc' = (IF device = NoDevice THEN "discover" ELSE "read")
          /\ UNCHANGED <<flags, device, first, exit, wrote>>
      BY <2>1, <2>4 DEF ScanFinds
    <3>2. storm' \in [writer : DOMAIN ls, victim : DOMAIN ls]
      BY <3>1, FirstStorm DEF Storms
    <3>3. \A c \in DOMAIN loads' : loads'[c] \in LoadType
      BY <3>1 DEF IsSample
    <3> QED  BY <2>2, <3>1, <3>2, <3>3 DEF hostVars, TypeInv, TypeOK
  <2> QED  BY <2>3, <2>4
<1>7. CASE Discover
  <2>2. UNCHANGED hostVars
    BY <1>7 DEF Discover
  <2>3. CASE Finish("error")
    BY <1>a, <2>2, <2>3, FinishType DEF hostVars, TypeOK
  <2>4. CASE ~ Finish("error")
    <3>1. /\ storm.writer \in up /\ device' = Busiest(storm.writer) /\ pc' = "read"
          /\ UNCHANGED <<flags, first, loads, storm, exit, wrote>>
      BY <1>7, <2>4 DEF Discover
    <3>2. device' \in Devices
      BY <1>a, <3>1, BusiestType DEF TypeOK
    <3> QED  BY <2>2, <3>1, <3>2 DEF hostVars, TypeInv, TypeOK
  <2> QED  BY <2>3, <2>4
<1>8. CASE ReadLimit
  <2>2. pc = "read" /\ UNCHANGED hostVars
    BY <1>8 DEF ReadLimit
  <2>3. CASE Finish("error") \/ Finish("ok")
    BY <1>a, <2>2, <2>3, FinishType DEF hostVars, TypeOK
  <2>4. CASE ~ (Finish("error") \/ Finish("ok"))
    <3>1. pc' = "write" /\ UNCHANGED <<flags, device, first, loads, storm, exit, wrote>>
      BY <1>8, <2>4 DEF ReadLimit
    <3> QED  BY <2>2, <3>1 DEF hostVars, TypeInv, TypeOK
  <2> QED  BY <2>3, <2>4
<1>9. CASE WriteLimit
  <2>1. UNCHANGED <<up, work, wbytes>> /\ (Finish("error") \/ Finish("ok"))
    BY <1>9 DEF WriteLimit
  <2>2. limit' \in [Containers -> [Devices -> Limits]]
    <3>1. CASE storm.writer \in up
      <4>1. PICK n : n = (IF flags.undo THEN Unlimited ELSE Cap(flags.wbps))
        OBVIOUS
      <4>2. n \in Limits
        <5>1. flags.wbps \in Int
          BY <1>a, FlagsType DEF TypeOK
        <5> QED  BY <4>1, <5>1, CapType, Numbers
      <4>3. limit' = [limit EXCEPT ![storm.writer][device] = n]
        BY <1>9, <3>1, <4>1 DEF WriteLimit
      <4> QED  BY <1>a, <4>2, <4>3 DEF TypeOK
    <3>2. CASE storm.writer \notin up
      BY <1>9, <1>a, <3>2 DEF WriteLimit, TypeOK
    <3> QED  BY <3>1, <3>2
  <2>3. /\ up' \subseteq Containers
        /\ work' \in [Containers -> [device : Devices, rate : Rates] \cup {Idle}]
        /\ wbytes' \in [Containers -> [Devices -> 0 .. MaxBytes]]
    BY <1>a, <2>1 DEF TypeOK
  <2> QED  BY <2>1, <2>2, <2>3, FinishType
<1>10. CASE UNCHANGED vars
  BY <1>10 DEF vars, hostVars, commandVars, TypeInv, TypeOK
<1> QED  BY <1>1, <1>2, <1>3, <1>4, <1>5, <1>6, <1>7, <1>8, <1>9, <1>10 DEF Next, Command

(* Every counter of a command and of its host keeps its type, and a limit  *)
(* is never under the floor.                                               *)
THEOREM StormTypeCorrect == Spec => []TypeOK
<1>1. Spec => []TypeInv
  BY InitType, TypeStep, PTL DEF Spec
<1>2. TypeInv => TypeOK
  BY DEF TypeInv
<1> QED  BY <1>1, <1>2, PTL

-----------------------------------------------------------------------------
(* No phantom writes *)

PhantomInv == TypeInv /\ WindowInv /\ NoPhantomWrites

\* The end of a command leaves nothing to be wrong about.
LEMMA FinishClears ==
    ASSUME NEW outcome, Finish(outcome)
    PROVE  WindowInv' /\ NoPhantomWrites' /\ StormInv'
BY NoScanFacts DEF Finish, WindowInv, NoPhantomWrites, StormInv

LEMMA PhantomStep == PhantomInv /\ [Next]_vars => PhantomInv'
<1> SUFFICES ASSUME PhantomInv, [Next]_vars PROVE WindowInv' /\ NoPhantomWrites'
  BY TypeStep DEF PhantomInv
<1>a. TypeOK /\ TypeInv /\ WindowInv /\ NoPhantomWrites
  BY DEF PhantomInv, TypeInv
<1>b. DOMAIN first \subseteq Containers /\ \A c \in DOMAIN first : first[c] \in Nat
  BY <1>a DEF TypeOK
<1>1. ASSUME NEW k \in Containers, Stop(k)
      PROVE  WindowInv' /\ NoPhantomWrites'
  <2>1. \A c \in Containers : Total(wbytes[c])' <= Total(wbytes[c])
    <3> SUFFICES ASSUME NEW c \in Containers
                 PROVE  Total(wbytes'[c]) <= Total(wbytes[c])
      OBVIOUS
    <3>1. CASE c = k
      <4>1. wbytes'[c] = Nothing
        BY <1>1, <1>a, <3>1 DEF Stop, TypeOK
      <4> QED  BY <1>a, <4>1, TotalOfNothing, WrittenTotals
    <3>2. CASE c # k
      <4>1. wbytes'[c] = wbytes[c]
        BY <1>1, <1>a, <3>2 DEF Stop, TypeOK
      <4> QED  BY <1>a, <4>1, WrittenTotals
    <3> QED  BY <3>1, <3>2
  <2>2. pc' = pc /\ first' = first /\ loads' = loads /\ wrote' = wrote
    BY <1>1 DEF Stop, commandVars
  <2>3. \A c \in Containers : /\ Total(wbytes[c]) \in Nat /\ Total(wrote[c]) \in Nat
                              /\ Total(wbytes[c])' \in Nat
    <3>1. TypeOK'
      BY <1>a, TypeStep DEF TypeInv
    <3>2. \A c \in Containers : Total(wbytes'[c]) \in Nat
      <4> SUFFICES ASSUME NEW c \in Containers PROVE Total(wbytes'[c]) \in Nat
        OBVIOUS
      <4>1. \A d \in Devices : wbytes'[c][d] \in Nat
        BY <3>1 DEF TypeOK
      <4> QED  BY <4>1, TotalsType
    <3> QED  BY <1>a, <3>2, WrittenTotals
  <2>4. WindowInv'
    BY <1>a, <1>b, <2>1, <2>2, <2>3 DEF WindowInv
  <2> QED  BY <1>a, <2>2, <2>4 DEF NoPhantomWrites
<1>2. ASSUME NEW k \in Containers, Boot(k) \/ NewWork(k)
      PROVE  WindowInv' /\ NoPhantomWrites'
  <2>1. wbytes' = wbytes /\ pc' = pc /\ first' = first /\ loads' = loads /\ wrote' = wrote
    BY <1>2 DEF Boot, NewWork, commandVars
  <2> QED  BY <1>a, <2>1 DEF WindowInv, NoPhantomWrites
<1>4. CASE Window
  <2>1. \A c \in Containers : Total(wbytes'[c]) = Total(wbytes[c]) + Total(wrote'[c])
    <3> SUFFICES ASSUME NEW c \in Containers
                 PROVE  Total(wbytes'[c]) = Total(wbytes[c]) + Total(wrote'[c])
      OBVIOUS
    <3>1. PICK f, g, h : f = wbytes[c] /\ g = wrote'[c] /\ h = wbytes'[c]
      OBVIOUS
    <3>2. \A d \in Devices : g[d] = Written(c, d) /\ h[d] = f[d] + Written(c, d)
      BY <1>4, <3>1 DEF Window
    <3>3. \A d \in Devices : f[d] \in Nat /\ g[d] \in Nat
      BY <1>a, <3>1, <3>2, WrittenType
    <3>4. Total(h) = Total(f) + Total(g)
      BY <3>2, <3>3, TotalOfSum
    <3> QED  BY <3>1, <3>4
  <2>2. \A c \in Containers : Total(wbytes[c]) \in Nat /\ Total(wrote'[c]) \in Nat
    <3> SUFFICES ASSUME NEW c \in Containers PROVE Total(wrote'[c]) \in Nat
      BY <1>a, WrittenTotals
    <3>1. \A d \in Devices : wrote'[c][d] \in Nat
      BY <1>4, <1>a, WrittenType DEF Window
    <3> QED  BY <3>1, TotalsType
  <2>3. pc = "window" /\ pc' = "scan" /\ first' = first /\ loads' = loads
    BY <1>4 DEF Window
  <2>4. DOMAIN loads = {}
    BY <1>a, <2>3, NoScanFacts DEF TypeInv
  <2>5. WindowInv'
    BY <1>a, <1>b, <2>1, <2>2, <2>3 DEF WindowInv
  <2> QED  BY <2>3, <2>4, <2>5 DEF NoPhantomWrites
<1>5. CASE Launch
  <2>1. /\ pc = "idle" /\ pc' = "window" /\ first' = [c \in up |-> TotalWritten(c)]
        /\ wbytes' = wbytes /\ loads' = loads
    BY <1>5 DEF Launch, hostVars
  <2>2. DOMAIN loads = {}
    BY <1>a, <2>1, NoScanFacts DEF TypeInv
  <2>3. \A c \in up : TotalWritten(c) = Total(wbytes[c]) /\ Total(wbytes[c]) \in Nat
    BY <1>a, WrittenTotals DEF TotalWritten, TypeOK
  <2>4. WindowInv'
    BY <2>1, <2>3 DEF WindowInv
  <2> QED  BY <2>1, <2>2, <2>4 DEF NoPhantomWrites
<1>6. CASE Scan
  <2>1. PICK ls : ScanFinds(ls)
    BY <1>6, <1>a, ScanShape
  <2>2. CASE Finish("ok")
    BY <2>2, FinishClears
  <2>3. CASE ~ Finish("ok")
    <3>1. /\ pc = "scan" /\ pc' \in {"discover", "read"}
          /\ DOMAIN ls = DOMAIN first /\ loads' = ls /\ wrote' = wrote
          /\ \A c \in DOMAIN first : ls[c].writes = Delta(TotalWritten(c), first[c])
      BY <2>1, <2>3 DEF ScanFinds
    <3>2. ASSUME NEW c \in DOMAIN first
          PROVE  ls[c].writes <= Total(wrote[c])
      <4>1. PICK a, b, w : a = first[c] /\ b = TotalWritten(c) /\ w = Total(wrote[c])
        OBVIOUS
      <4>2. a \in Nat /\ b \in Nat /\ w \in Nat
        BY <1>a, <1>b, <4>1, WrittenTotals
      <4>3. b <= a + w
        <5>1. CASE c \in up
          BY <1>a, <3>1, <4>1, <5>1 DEF TotalWritten, WindowInv
        <5>2. CASE c \notin up
          BY <4>1, <4>2, <5>2 DEF TotalWritten
        <5> QED  BY <5>1, <5>2
      <4>4. Delta(b, a) <= w
        BY <4>2, <4>3 DEF Delta
      <4> QED  BY <3>1, <4>1, <4>4
    <3> QED  BY <3>1, <3>2 DEF WindowInv, NoPhantomWrites
  <2> QED  BY <2>2, <2>3
<1>7. CASE Discover \/ ReadLimit \/ WriteLimit
  <2>1. CASE \E outcome \in {"ok", "error"} : Finish(outcome)
    BY <2>1, FinishClears
  <2>2. CASE ~ \E outcome \in {"ok", "error"} : Finish(outcome)
    <3>1. pc' \in {"read", "write"} /\ loads' = loads /\ wrote' = wrote
      BY <1>7, <2>2 DEF Discover, ReadLimit, WriteLimit
    <3> QED  BY <1>a, <3>1 DEF WindowInv, NoPhantomWrites
  <2> QED  BY <2>1, <2>2
<1>10. CASE UNCHANGED vars
  BY <1>a, <1>10 DEF vars, hostVars, commandVars, WindowInv, NoPhantomWrites
<1> QED  BY <1>1, <1>2, <1>4, <1>5, <1>6, <1>7, <1>10 DEF Next, Command

LEMMA PhantomAlways == Spec => []PhantomInv
<1>1. Init => PhantomInv
  <2> SUFFICES ASSUME Init PROVE WindowInv /\ NoPhantomWrites
    BY InitType DEF PhantomInv
  <2> QED  BY NoScanFacts DEF Init, WindowInv, NoPhantomWrites
<1> QED  BY <1>1, PhantomStep, PTL DEF Spec

(* A container that restarts between the scans is never found to have      *)
(* written more than it wrote in the window.                               *)
THEOREM NoPhantomsEver == Spec => []NoPhantomWrites
<1>1. PhantomInv => NoPhantomWrites
  BY DEF PhantomInv
<1> QED  BY <1>1, PhantomAlways, PTL

-----------------------------------------------------------------------------
(* The capped writer *)

LEMMA StormStep == TypeInv /\ StormInv /\ [Next]_vars => StormInv'
<1> SUFFICES ASSUME TypeInv, StormInv, [Next]_vars PROVE StormInv'
  OBVIOUS
<1>1. CASE (\E c \in Containers : Stop(c) \/ Boot(c) \/ NewWork(c)) \/ UNCHANGED vars
  <2>1. pc' = pc /\ loads' = loads /\ storm' = storm
    BY <1>1 DEF Stop, Boot, NewWork, vars, commandVars
  <2> QED  BY <2>1 DEF StormInv
<1>2. CASE Window \/ Launch
  <2>1. pc' \in {"scan", "window"}
    BY <1>2 DEF Window, Launch
  <2> QED  BY <2>1 DEF StormInv
<1>3. CASE Scan
  <2>1. PICK ls : ScanFinds(ls)
    BY <1>3, ScanShape DEF TypeInv
  <2>2. CASE Finish("ok")
    BY <2>2, FinishClears
  <2>3. CASE ~ Finish("ok")
    <3>1. /\ IsSample(ls) /\ Storms(ls) # {}
          /\ loads' = ls /\ storm' = FirstOf(Storms(ls), ls)
      BY <2>1, <2>3 DEF ScanFinds
    <3>2. /\ FirstOf(Storms(ls), ls) \in Storms(ls)
          /\ \A o \in Storms(ls) \ {FirstOf(Storms(ls), ls)} :
                Heavier(ls, FirstOf(Storms(ls), ls).writer, o.writer)
      BY <3>1, FirstStorm
    <3> QED  BY <3>1, <3>2 DEF StormInv
  <2> QED  BY <2>2, <2>3
<1>4. CASE Discover \/ ReadLimit \/ WriteLimit
  <2>1. CASE \E outcome \in {"ok", "error"} : Finish(outcome)
    BY <2>1, FinishClears
  <2>2. CASE ~ \E outcome \in {"ok", "error"} : Finish(outcome)
    <3>1. pc \in {"discover", "read"} /\ loads' = loads /\ storm' = storm
      BY <1>4, <2>2 DEF Discover, ReadLimit, WriteLimit
    <3> QED  BY <3>1 DEF StormInv
  <2> QED  BY <2>1, <2>2
<1> QED  BY <1>1, <1>2, <1>3, <1>4 DEF Next, Command

\* What OnlyTheWorstIsCapped asks of a step.
CapStep ==
    \A c \in Containers, d \in Devices :
        limit'[c][d] # limit[c][d] /\ limit'[c][d] # Unlimited
          => /\ Total(wrote[c]) >= WriterMin /\ Starving(c)
             /\ \A o \in DOMAIN loads :
                    loads[o].writes > loads[c].writes => ~Starving(o)

LEMMA CapFits == PhantomInv /\ StormInv /\ [Next]_vars => CapStep
<1> SUFFICES ASSUME PhantomInv, StormInv, [Next]_vars,
                    NEW c \in Containers, NEW d \in Devices,
                    limit'[c][d] # limit[c][d], limit'[c][d] # Unlimited
             PROVE  /\ Total(wrote[c]) >= WriterMin /\ Starving(c)
                    /\ \A o \in DOMAIN loads :
                           loads[o].writes > loads[c].writes => ~Starving(o)
  BY DEF CapStep
<1>a. TypeOK /\ NoPhantomWrites
  BY DEF PhantomInv, TypeInv
<1>1. WriteLimit
  <2>1. ASSUME NEW k \in Containers, Stop(k) PROVE FALSE
    <3>1. limit' = [limit EXCEPT ![k] = NoLimits]
      BY <2>1 DEF Stop
    <3>2. limit'[c] = NoLimits \/ limit'[c] = limit[c]
      BY <1>a, <3>1 DEF TypeOK
    <3> QED  BY <3>2 DEF NoLimits
  <2>2. ASSUME NEW k \in Containers, Boot(k) \/ NewWork(k) PROVE FALSE
    BY <2>2 DEF Boot, NewWork
  <2>3. CASE Window \/ Launch \/ Scan \/ Discover \/ ReadLimit \/ UNCHANGED vars
    BY <2>3 DEF Window, Launch, Scan, Discover, ReadLimit, vars, hostVars
  <2> QED  BY <2>1, <2>2, <2>3 DEF Next, Command
<1>2. pc = "write" /\ c = storm.writer
  <2>1. pc = "write"
    BY <1>1 DEF WriteLimit
  <2>2. storm.writer \in up
    BY <1>1 DEF WriteLimit
  <2>3. PICK n : limit' = [limit EXCEPT ![storm.writer][device] = n]
    BY <1>1, <2>2 DEF WriteLimit
  <2>4. c # storm.writer => limit'[c] = limit[c]
    BY <1>a, <2>3 DEF TypeOK
  <2> QED  BY <2>1, <2>4
<1>3. /\ storm \in Storms(loads)
      /\ \A o \in Storms(loads) \ {storm} : Heavier(loads, storm.writer, o.writer)
  BY <1>2 DEF StormInv
<1>4. IsSample(loads)
  <2>1. DOMAIN loads \subseteq Containers
    BY <1>a, NoScanFacts DEF TypeOK
  <2> QED  BY <1>a, <2>1 DEF TypeOK, IsSample
<1>5. /\ c \in DOMAIN loads /\ loads[c].writes >= WriterMin
      /\ storm.victim \in DOMAIN loads \ {c} /\ IsVictim(loads[storm.victim])
  BY <1>2, <1>3, StormFacts
<1>6. Total(wrote[c]) >= WriterMin
  <2>1. PICK w, l : w = Total(wrote[c]) /\ l = loads[c].writes
    OBVIOUS
  <2>2. w \in Nat /\ l \in Nat /\ WriterMin \in Nat /\ l <= w /\ l >= WriterMin
    BY <1>4, <1>5, <1>a, <2>1, WrittenTotals, SampleFacts, Numbers DEF NoPhantomWrites
  <2> QED  BY <2>1, <2>2
<1>7. Starving(c)
  BY <1>5 DEF Starving
<1>8. ASSUME NEW o \in DOMAIN loads, loads[o].writes > loads[c].writes
      PROVE  ~ Starving(o)
  <2>1. SUFFICES ASSUME Starving(o) PROVE FALSE
    OBVIOUS
  <2>2. PICK a, l : a = loads[o].writes /\ l = loads[c].writes
    OBVIOUS
  <2>3. a \in Nat /\ l \in Nat /\ WriterMin \in Nat /\ a > l /\ l >= WriterMin
    BY <1>4, <1>5, <1>8, <2>2, SampleFacts, Numbers
  <2>4. loads[o].writes >= WriterMin /\ Victims(loads, o) # {}
    BY <2>1, <2>2, <2>3 DEF Starving, Victims
  <2>5. PICK s \in Storms(loads) : s.writer = o
    BY <1>4, <2>4, StormExists
  <2>6. s # storm
    BY <1>2, <2>2, <2>3, <2>5
  <2>7. Heavier(loads, c, o)
    BY <1>2, <1>3, <2>5, <2>6
  <2> QED  BY <2>2, <2>3, <2>7 DEF Heavier
<1> QED  BY <1>6, <1>7, <1>8

(* A cap lands on a container that really wrote much in the window and     *)
(* starved another one, and on the heaviest of those.                      *)
THEOREM OnlyTheWorstIsEverCapped == Spec => OnlyTheWorstIsCapped
<1>1. Init => StormInv
  BY DEF Init, StormInv
<1>2. PhantomInv /\ StormInv /\ [Next]_vars => StormInv'
  BY StormStep DEF PhantomInv
<1>3. PhantomInv /\ StormInv /\ [Next]_vars => [CapStep]_vars
  BY CapFits
<1> QED  BY <1>1, <1>2, <1>3, PhantomAlways, PTL DEF Spec, OnlyTheWorstIsCapped, CapStep
=============================================================================
