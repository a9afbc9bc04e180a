----------------------------- MODULE EngineProofs -----------------------------
(***************************************************************************)
(* Proofs about module Engine: its inductive invariant and the properties  *)
(* that follow from it.                                                    *)
(*                                                                         *)
(* IInv says of every key what keeps it from being stuck: while the        *)
(* boundary holds it, it is physically held, a timer that will come is     *)
(* expected for it, the batch under way still releases it, or its release  *)
(* is owed.  It is a conjunction of one formula per key (KeyInv), and a    *)
(* handler works on one axis: a lemma shows once and for all that the      *)
(* other axes keep theirs, and each handler is followed step by step on    *)
(* its own axis.  The batch is a sequence; the invariant asks it three     *)
(* questions only (Falls, Presses, FallsFirst), and lemmas say how each    *)
(* operation on the batch answers them.                                    *)
(***************************************************************************)
EXTENDS Engine, SlotProofs, SequenceTheorems, FiniteSetTheorems

\* The batch q still has a release of k, a press of k, and a release of o
\* before every press of k.
Falls(q, k) == \E i \in DOMAIN q : q[i] = Event(k, FALSE)
Presses(q, k) == \E i \in DOMAIN q : q[i] = Event(k, TRUE)
FallsFirst(q, o, k) ==
  \A i \in DOMAIN q : q[i] = Event(k, TRUE) =>
    \E j \in DOMAIN q : j < i /\ q[j] = Event(o, FALSE)

EventSet == [key : Keys, down : BOOLEAN]

\* An empty batch presses and releases nothing.
LEMMA EmptyBatch ==
  ASSUME NEW k, NEW o
  PROVE  ~Falls(<<>>, k) /\ ~Presses(<<>>, k) /\ FallsFirst(<<>>, o, k)
BY DEF Falls, Presses, FallsFirst

\* What an event added at the end of the batch does to the three questions.
LEMMA AppendBatch ==
  ASSUME NEW q \in Seq(EventSet), NEW k \in Keys, NEW d \in BOOLEAN,
         NEW x \in Keys, NEW y \in Keys
  PROVE  LET r == Append(q, Event(k, d))
         IN  /\ r \in Seq(EventSet)
             /\ Falls(r, x) <=> Falls(q, x) \/ (x = k /\ ~d)
             /\ Presses(r, x) <=> Presses(q, x) \/ (x = k /\ d)
             /\ FallsFirst(r, y, x) <=> FallsFirst(q, y, x) /\ (x = k /\ d => Falls(q, y))
<1> DEFINE n == Len(q)
           r == Append(q, Event(k, d))
<1>1. /\ r \in Seq(EventSet) /\ DOMAIN r = 1..(n + 1) /\ DOMAIN q = 1..n
      /\ n \in Nat /\ r[n + 1] = Event(k, d)
      /\ \A i \in DOMAIN q : r[i] = q[i]
  BY DEF EventSet, Event
<1> HIDE DEF r, n
<1>2. /\ \A i \in DOMAIN r : i \in DOMAIN q \/ i = n + 1
      /\ \A i \in DOMAIN q : i \in DOMAIN r /\ i < n + 1
      /\ n + 1 \in DOMAIN r
      /\ \A i, j \in DOMAIN r : j < i => j \in DOMAIN q
  BY <1>1
<1>3. \A z \in Keys, c \in BOOLEAN : r[n + 1] = Event(z, c) <=> z = k /\ c = d
  BY <1>1 DEF Event
<1>4. Falls(r, x) <=> Falls(q, x) \/ (x = k /\ ~d)
  BY <1>1, <1>2, <1>3 DEF Falls
<1>5. Presses(r, x) <=> Presses(q, x) \/ (x = k /\ d)
  BY <1>1, <1>2, <1>3 DEF Presses
<1>6. FallsFirst(r, y, x) <=> FallsFirst(q, y, x) /\ (x = k /\ d => Falls(q, y))
  <2>1. ASSUME FallsFirst(r, y, x)
        PROVE  FallsFirst(q, y, x) /\ (x = k /\ d => Falls(q, y))
    BY <2>1, <1>1, <1>2, <1>3 DEF FallsFirst, Falls
  <2>2. ASSUME FallsFirst(q, y, x), x = k /\ d => Falls(q, y)
        PROVE  FallsFirst(r, y, x)
    <3> SUFFICES ASSUME NEW i \in DOMAIN r, r[i] = Event(x, TRUE)
                 PROVE  \E j \in DOMAIN r : j < i /\ r[j] = Event(y, FALSE)
      BY DEF FallsFirst
    <3>1. CASE i \in DOMAIN q
      <4>1. PICK j \in DOMAIN q : j < i /\ q[j] = Event(y, FALSE)
        BY <2>2, <3>1, <1>1 DEF FallsFirst
      <4> QED BY <4>1, <1>1, <1>2
    <3>2. CASE i = n + 1
      <4>1. PICK j \in DOMAIN q : q[j] = Event(y, FALSE)
        BY <2>2, <3>2, <1>3 DEF Falls
      <4> QED BY <3>2, <4>1, <1>1, <1>2
    <3> QED BY <3>1, <3>2, <1>2
  <2> QED BY <2>1, <2>2
<1> QED BY <1>1, <1>4, <1>5, <1>6 DEF r

\* Every key has one opposite, and the two make up one axis.
LEMMA AxisFacts ==
  /\ \A k \in Keys : Opposite[k] \in Keys /\ Opposite[k] # k /\ Opposite[Opposite[k]] = k
                     /\ AxisOf(Opposite[k]) = AxisOf(k) /\ AxisOf(k) \in Axes
                     /\ AxisOf(k) \subseteq Keys
  /\ \A j, k \in Keys : AxisOf(j) = AxisOf(k) <=> j = k \/ j = Opposite[k]
  /\ \A j, k \in Keys : j \in AxisOf(k) <=> j = k \/ j = Opposite[k]
  /\ \A ax \in Axes : \A k \in ax : k \in Keys /\ AxisOf(k) = ax
BY KeysAssumption DEF AxisOf, Axes

\* What sending the head of the batch leaves of the three questions.
LEMMA TailBatch ==
  ASSUME NEW q \in Seq(EventSet), q # <<>>, NEW x \in Keys, NEW y \in Keys
  PROVE  /\ Tail(q) \in Seq(EventSet) /\ Head(q) \in EventSet
         /\ Head(q) = Event(Head(q).key, Head(q).down)
         /\ Falls(q, x) <=> Head(q) = Event(x, FALSE) \/ Falls(Tail(q), x)
         /\ Presses(q, x) <=> Head(q) = Event(x, TRUE) \/ Presses(Tail(q), x)
         /\ FallsFirst(q, y, x) => /\ Head(q) # Event(x, TRUE)
                                   /\ Head(q) # Event(y, FALSE) => FallsFirst(Tail(q), y, x)
<1> DEFINE n == Len(q)
           r == Tail(q)
<1>1. /\ r \in Seq(EventSet) /\ DOMAIN r = 1..(n - 1) /\ DOMAIN q = 1..n
      /\ n \in Nat /\ n > 0 /\ Head(q) = q[1] /\ q[1] \in EventSet
      /\ \A i \in DOMAIN r : r[i] = q[i + 1]
  OBVIOUS
<1> HIDE DEF r, n
<1>2. /\ \A i \in DOMAIN q : i = 1 \/ (i - 1 \in DOMAIN r /\ q[i] = r[i - 1] /\ i > 1)
      /\ \A i \in DOMAIN r : i + 1 \in DOMAIN q /\ r[i] = q[i + 1]
      /\ 1 \in DOMAIN q /\ \A j \in DOMAIN q : ~(j < 1)
  BY <1>1
<1>3. Head(q) = Event(Head(q).key, Head(q).down)
  BY <1>1 DEF Event, EventSet
<1>4. Falls(q, x) <=> Head(q) = Event(x, FALSE) \/ Falls(r, x)
  BY <1>1, <1>2, ZenonT(60) DEF Falls
<1>5. Presses(q, x) <=> Head(q) = Event(x, TRUE) \/ Presses(r, x)
  BY <1>1, <1>2, ZenonT(60) DEF Presses
<1>6. ASSUME FallsFirst(q, y, x)
      PROVE  Head(q) # Event(x, TRUE)
  BY <1>1, <1>2, <1>6 DEF FallsFirst
<1>7. ASSUME FallsFirst(q, y, x), Head(q) # Event(y, FALSE)
      PROVE  FallsFirst(r, y, x)
  <2> SUFFICES ASSUME NEW i \in DOMAIN r, r[i] = Event(x, TRUE)
               PROVE  \E j \in DOMAIN r : j < i /\ r[j] = Event(y, FALSE)
    BY DEF FallsFirst
  <2>1. PICK j \in DOMAIN q : j < i + 1 /\ q[j] = Event(y, FALSE)
    BY <1>2, <1>7 DEF FallsFirst
  <2>2. j - 1 \in DOMAIN r /\ r[j - 1] = Event(y, FALSE)
    BY <2>1, <1>1, <1>2, <1>7
  <2>3. j - 1 < i
    BY <2>1, <1>1
  <2> QED BY <2>2, <2>3
<1> QED BY <1>1, <1>3, <1>4, <1>5, <1>6, <1>7 DEF r

\* A batch of one event per key of a set.
LEMMA EventsBatch ==
  ASSUME NEW S \in SUBSET Keys, NEW d \in BOOLEAN
  PROVE  /\ Events(S, d) \in Seq(EventSet)
         /\ \A x \in Keys : /\ Falls(Events(S, d), x) <=> x \in S /\ ~d
                            /\ Presses(Events(S, d), x) <=> x \in S /\ d
<1> DEFINE n == Cardinality(S)
           q == SetToSeq(S)
<1>1. IsFiniteSet(S) /\ n \in Nat /\ ExistsBijection(1..n, S)
  BY KeysAssumption, FS_Subset, FS_CardinalityType
<1>2. \E f \in [1..n -> S] : IsInjective(f)
  BY <1>1 DEF ExistsBijection, Bijection, Injection
<1>3. q \in [1..n -> S] /\ IsInjective(q)
  BY <1>2 DEF SetToSeq
<1>4. IsFiniteSet(1..n) /\ Cardinality(1..n) = n
  BY <1>1, FS_Interval
<1>5. q \in Injection(1..n, S)
  BY <1>3 DEF Injection
<1> HIDE DEF q
<1>6. q \in Surjection(1..n, S)
  BY <1>1, <1>4, <1>5, FS_Injection
<1>7. \A x \in S : \E i \in 1..n : q[i] = x
  BY <1>6 DEF Surjection
<1>8. Events(S, d) = [i \in 1..n |-> Event(q[i], d)]
  BY <1>3 DEF Events, q
<1> DEFINE v == [i \in 1..n |-> Event(q[i], d)]
<1>9. \A i \in 1..n : Event(q[i], d) \in EventSet
  BY <1>3 DEF Event, EventSet
<1> HIDE DEF n
<1>10. v \in Seq(EventSet)
  BY <1>1, <1>9
<1>11. ASSUME NEW x \in Keys
       PROVE  /\ Falls(v, x) <=> x \in S /\ ~d
              /\ Presses(v, x) <=> x \in S /\ d
  <2>1. \A i \in 1..n, c \in BOOLEAN : v[i] = Event(x, c) <=> q[i] = x /\ d = c
    BY DEF Event
  <2>2. DOMAIN v = 1..n
    OBVIOUS
  <2>3. \A i \in 1..n : q[i] \in S
    BY <1>3
  <2> HIDE DEF v
  <2>4. Falls(v, x) <=> x \in S /\ ~d
    BY <2>1, <2>2, <2>3, <1>7, ZenonT(60) DEF Falls
  <2>5. Presses(v, x) <=> x \in S /\ d
    BY <2>1, <2>2, <2>3, <1>7, ZenonT(60) DEF Presses
  <2> QED BY <2>4, <2>5
<1> QED BY <1>8, <1>10, <1>11

\* Batches sent one after the other.
LEMMA ConcatBatch ==
  ASSUME NEW p \in Seq(EventSet), NEW q \in Seq(EventSet), NEW x \in Keys, NEW y \in Keys
  PROVE  /\ p \o q \in Seq(EventSet)
         /\ Falls(p \o q, x) <=> Falls(p, x) \/ Falls(q, x)
         /\ Presses(p \o q, x) <=> Presses(p, x) \/ Presses(q, x)
         /\ ~Presses(p, x) /\ Falls(p, y) => FallsFirst(p \o q, y, x)
<1> DEFINE m == Len(p)
           n == Len(q)
           r == p \o q
<1>1. /\ r \in Seq(EventSet) /\ m \in Nat /\ n \in Nat
      /\ DOMAIN p = 1..m /\ DOMAIN q = 1..n /\ DOMAIN r = 1..(m + n)
      /\ \A i \in 1..m : r[i] = p[i]
      /\ \A i \in 1..n : r[m + i] = q[i]
  BY ConcatProperties
<1> HIDE DEF m, n, r
<1>2. /\ \A i \in DOMAIN r : \/ i \in DOMAIN p /\ r[i] = p[i]
                             \/ i > m /\ i - m \in DOMAIN q /\ r[i] = q[i - m]
      /\ \A i \in DOMAIN p : i \in DOMAIN r /\ r[i] = p[i] /\ i <= m
      /\ \A i \in DOMAIN q : m + i \in DOMAIN r /\ r[m + i] = q[i]
  <2>1. ASSUME NEW i \in DOMAIN r, i \notin 1..m
        PROVE  i > m /\ i - m \in 1..n /\ r[i] = q[i - m]
    <3>1. i - m \in 1..n /\ i = m + (i - m) /\ i > m
      BY <1>1, <2>1
    <3> QED BY <1>1, <3>1
  <2>2. ASSUME NEW i \in 1..n PROVE m + i \in DOMAIN r
    BY <1>1
  <2> QED BY <1>1, <2>1, <2>2
<1>3. Falls(r, x) <=> Falls(p, x) \/ Falls(q, x)
  BY <1>2 DEF Falls
<1>4. Presses(r, x) <=> Presses(p, x) \/ Presses(q, x)
  BY <1>2 DEF Presses
<1>5. ASSUME ~Presses(p, x), Falls(p, y)
      PROVE  FallsFirst(r, y, x)
  <2>1. PICK j \in DOMAIN p : p[j] = Event(y, FALSE)
    BY <1>5 DEF Falls
  <2>2. j \in DOMAIN r /\ r[j] = Event(y, FALSE) /\ j <= m
    BY <1>2, <2>1
  <2> SUFFICES ASSUME NEW i \in DOMAIN r, r[i] = Event(x, TRUE)
               PROVE  j < i
    BY <2>2 DEF FallsFirst
  <2>3. i > m
    BY <1>2, <1>5 DEF Presses
  <2> QED BY <1>1, <2>2, <2>3
<1> QED BY <1>1, <1>3, <1>4, <1>5 DEF r

\* A bound on the size of a union.
LEMMA UnionCount ==
  ASSUME NEW S, NEW T, NEW m \in Nat, NEW n \in Nat,
         IsFiniteSet(S), IsFiniteSet(T), Cardinality(S) <= m, Cardinality(T) <= n
  PROVE  IsFiniteSet(S \union T) /\ Cardinality(S \union T) <= m + n
<1>1. Cardinality(S) \in Nat /\ Cardinality(T) \in Nat /\ Cardinality(S \cap T) \in Nat
  BY FS_Intersection, FS_CardinalityType
<1>2. IsFiniteSet(S \union T)
      /\ Cardinality(S \union T) = Cardinality(S) + Cardinality(T) - Cardinality(S \cap T)
  BY FS_Union
<1> QED BY <1>1, <1>2

\* The domain of f counts at least what f takes on.
LEMMA ValuesCount ==
  ASSUME NEW S, IsFiniteSet(S), NEW f, DOMAIN f = S
  PROVE  LET T == {f[x] : x \in S}
         IN  IsFiniteSet(T) /\ Cardinality(T) \in Nat /\ Cardinality(T) <= Cardinality(S)
<1> DEFINE T == {f[x] : x \in S}
           g == [x \in S |-> f[x]]
<1>1. g \in Surjection(S, T)
  BY DEF Surjection
<1> HIDE DEF g, T
<1>2. IsFiniteSet(T) /\ Cardinality(T) <= Cardinality(S)
  BY <1>1, FS_Surjection
<1> QED BY <1>2, FS_CardinalityType DEF T

\* ScheduleTimer finds an id nobody refers to: armed, expect and socd name at
\* most one each per key, the expiry queue at most MaxExpired.
LEMMA FreshIdExists ==
  ASSUME NEW e \in EngineState, Len(e.expired) <= MaxExpired
  PROVE  FreshId(e) \in TimerIds /\ FreshId(e) # NoTimer
<1> DEFINE A == {e.armed[k] : k \in Keys}
           B == {e.expect[k] : k \in Keys}
           sk == [k \in Keys |-> e.socd[AxisOf(k)]]
           C == {sk[k] : k \in Keys}
           f == [i \in DOMAIN e.expired |-> e.expired[i][2]]
           D == {f[i] : i \in DOMAIN e.expired}
           n == Cardinality(Keys)
<1>1. IdsInUse(e) = (A \union B) \union (C \union D)
  <2> DEFINE U == UNION {{e.armed[k], e.expect[k], e.socd[AxisOf(k)]} : k \in Keys}
             X == {e.expired[i][2] : i \in DOMAIN e.expired}
  <2>1. IdsInUse(e) = U \union X
    BY DEF IdsInUse
  <2>2. C = {e.socd[AxisOf(k)] : k \in Keys}
    OBVIOUS
  <2>3. X = D
    OBVIOUS
  <2> HIDE DEF C, D, X
  <2>4. U = (A \union B) \union C
    BY <2>2
  <2> HIDE DEF A, B, U
  <2> QED BY <2>1, <2>3, <2>4
<1>2. IsFiniteSet(Keys) /\ n \in Nat
  BY KeysAssumption, FS_CardinalityType
<1>3. IsFiniteSet(A) /\ Cardinality(A) \in Nat /\ Cardinality(A) <= n
  BY <1>2, ValuesCount, SMTT(60) DEF EngineState
<1>4. IsFiniteSet(B) /\ Cardinality(B) \in Nat /\ Cardinality(B) <= n
  BY <1>2, ValuesCount, SMTT(60) DEF EngineState
<1>5. IsFiniteSet(C) /\ Cardinality(C) \in Nat /\ Cardinality(C) <= n
  <2>1. DOMAIN sk = Keys
    OBVIOUS
  <2> HIDE DEF sk
  <2> QED BY <2>1, <1>2, ValuesCount
<1>6. IsFiniteSet(D) /\ Cardinality(D) \in Nat /\ Cardinality(D) <= MaxExpired
  <2> DEFINE m == Len(e.expired)
  <2>1. DOMAIN e.expired = 1..m /\ m \in Nat /\ m <= MaxExpired
    BY DEF EngineState
  <2>2. IsFiniteSet(1..m) /\ Cardinality(1..m) = m
    BY <2>1, FS_Interval
  <2>3. DOMAIN f = 1..m
    BY <2>1
  <2>4. D = {f[i] : i \in 1..m}
    BY <2>1
  <2> HIDE DEF f, m, D
  <2>5. LET T == {f[i] : i \in 1..m}
        IN  IsFiniteSet(T) /\ Cardinality(T) \in Nat /\ Cardinality(T) <= Cardinality(1..m)
    BY <2>2, <2>3, ValuesCount
  <2> QED BY <2>1, <2>2, <2>4, <2>5, EngineAssumption
<1> HIDE DEF A, B, C, D
<1>7. /\ IsFiniteSet(A \union B) /\ Cardinality(A \union B) <= n + n
      /\ IsFiniteSet(C \union D) /\ Cardinality(C \union D) <= n + MaxExpired
  BY <1>2, <1>3, <1>4, <1>5, <1>6, UnionCount, EngineAssumption
<1>8. n + n \in Nat /\ n + MaxExpired \in Nat /\ (n + n) + (n + MaxExpired) = 3 * n + MaxExpired
  BY <1>2, EngineAssumption
<1>9. IsFiniteSet(IdsInUse(e)) /\ Cardinality(IdsInUse(e)) <= 3 * n + MaxExpired
  <2> DEFINE P == A \union B
             Q == C \union D
  <2>1. IdsInUse(e) = P \union Q
    BY <1>1
  <2>2. IsFiniteSet(P \union Q) /\ Cardinality(P \union Q) <= (n + n) + (n + MaxExpired)
    BY <1>7, <1>8, UnionCount
  <2> QED BY <2>1, <2>2, <1>8
<1>10. \E id \in TimerIds : id \notin IdsInUse(e)
  <2> SUFFICES ASSUME TimerIds \in SUBSET IdsInUse(e) PROVE FALSE
    OBVIOUS
  <2>1. IsFiniteSet(TimerIds) /\ Cardinality(TimerIds) <= Cardinality(IdsInUse(e))
    BY <1>9, FS_Subset
  <2>2. Cardinality(IdsInUse(e)) \in Nat /\ Cardinality(TimerIds) \in Nat
    BY <1>9, <2>1, FS_CardinalityType
  <2> QED BY <2>1, <2>2, <1>2, <1>9, IdAssumption, EngineAssumption
<1> QED BY <1>10, TimerAssumption DEF FreshId

-----------------------------------------------------------------------------
(* The invariant, key by key.                                              *)

\* socdLastKey of an axis is one of its two keys.
LastIsOfAxis(e, k) == e.last[AxisOf(k)] \in AxisOf(k)

\* axisState is what the physical keys make of it.
KnowsAxis(e, k) ==
  ~e.suspended => e.axisState[AxisOf(k)] = e.phys \intersect AxisOf(k)

\* An overlap runs in HUMANIZED only, with both keys held, and its timer is the
\* loser's.
OverlapIsOfLoser(e, mode, k) ==
  e.socd[AxisOf(k)] # NoTimer =>
    /\ k \in e.phys /\ mode = "HUMANIZED"
    /\ e.expect[k] = e.socd[AxisOf(k)] => e.last[AxisOf(k)] = Opposite[k]

\* While a key is held no timer of the opposite one runs but that overlap.
BrakeYieldsToKey(e, k) ==
  k \in e.phys /\ e.expect[Opposite[k]] # NoTimer =>
    Opposite[k] \in e.phys /\ e.expect[Opposite[k]] = e.socd[AxisOf(k)]

\* A timer the engine waits for is armed or in the expiry queue.
ExpectedComes(e, k) ==
  e.expect[k] # NoTimer =>
    \/ e.armed[k] = e.expect[k]
    \/ \E i \in DOMAIN e.expired : e.expired[i] = <<k, e.expect[k]>>

\* What ends the hold of a key.
HeldForAReason(e, tab, k) ==
  k \in tab.held =>
    k \in tab.pending \/ k \in e.phys \/ e.expect[k] # NoTimer \/ Falls(e.out, k)

\* What ends the hold of both keys of an axis.
BothHeldEnds(e, tab, k) ==
  k \in tab.held /\ Opposite[k] \in tab.held =>
    \/ k \in tab.pending \/ e.expect[k] # NoTimer \/ Falls(e.out, k)
    \/ Opposite[k] \in tab.pending \/ e.expect[Opposite[k]] # NoTimer
    \/ Falls(e.out, Opposite[k])

\* The batch presses held keys and brakes only.
PressedForAReason(e, k) ==
  Presses(e.out, k) => k \in e.phys \/ e.expect[k] # NoTimer

\* The opposite of a key the batch presses is up, owed, released earlier in the
\* batch, or held for the time of a brake or an overlap.
PressedWhenClear(e, tab, k) ==
  Presses(e.out, k) =>
    \/ Opposite[k] \notin tab.held \/ Opposite[k] \in tab.pending
    \/ FallsFirst(e.out, Opposite[k], k)
    \/ k \notin e.phys /\ e.expect[k] # NoTimer
    \/ /\ k \in e.phys /\ Opposite[k] \in e.phys
       /\ e.socd[AxisOf(k)] # NoTimer /\ e.expect[Opposite[k]] = e.socd[AxisOf(k)]

\* No batch presses both keys of an axis.
OnePressed(e, k) == ~(Presses(e.out, k) /\ Presses(e.out, Opposite[k]))

\* While input is suspended no timer is expected, nothing is pressed, and what
\* is held is about to be released.
SuspendedIsQuiet(e, tab, k) ==
  e.suspended =>
    /\ e.expect[k] = NoTimer /\ e.socd[AxisOf(k)] = NoTimer
    /\ k \in tab.held => k \in tab.pending \/ Falls(e.out, k)
    /\ ~Presses(e.out, k)

KeyInv(e, tab, mode, k) ==
  /\ LastIsOfAxis(e, k)
  /\ KnowsAxis(e, k) /\ OverlapIsOfLoser(e, mode, k) /\ BrakeYieldsToKey(e, k)
  /\ ExpectedComes(e, k) /\ HeldForAReason(e, tab, k) /\ BothHeldEnds(e, tab, k)
  /\ PressedForAReason(e, k) /\ PressedWhenClear(e, tab, k) /\ OnePressed(e, k)
  /\ SuspendedIsQuiet(e, tab, k)

EngineInv(e, tab, mode) ==
  /\ e \in EngineState /\ Len(e.expired) <= MaxExpired
  /\ \A k \in Keys : KeyInv(e, tab, mode, k)

(* r differs from e only on the axis ax.                                   *)
OnlyAxis(e, r, ax) ==
  /\ r \in EngineState /\ r.suspended = e.suspended /\ r.expired = e.expired
  /\ \A j \in Keys \ ax :
       /\ j \in r.phys <=> j \in e.phys
       /\ r.axisState[AxisOf(j)] = e.axisState[AxisOf(j)]
       /\ r.last[AxisOf(j)] = e.last[AxisOf(j)]
       /\ r.socd[AxisOf(j)] = e.socd[AxisOf(j)]
       /\ r.expect[j] = e.expect[j] /\ r.armed[j] = e.armed[j]
       /\ Falls(r.out, j) <=> Falls(e.out, j)
       /\ Presses(r.out, j) <=> Presses(e.out, j)
       /\ \A i \in Keys : FallsFirst(r.out, i, j) <=> FallsFirst(e.out, i, j)

\* Steps on the same axis, one after the other.
LEMMA OnlyAxisTrans ==
  ASSUME NEW e, NEW f, NEW g, NEW ax, OnlyAxis(e, f, ax), OnlyAxis(f, g, ax)
  PROVE  OnlyAxis(e, g, ax)
BY DEF OnlyAxis

\* The invariant, except on the axis ax.
OthersInv(e, tab, mode, ax) ==
  /\ e \in EngineState /\ Len(e.expired) <= MaxExpired
  /\ \A k \in Keys \ ax : KeyInv(e, tab, mode, k)

\* The invariant of all axes is the invariant of all but one.
LEMMA AllAndOthers ==
  ASSUME NEW e, NEW tab, NEW mode, NEW ax, EngineInv(e, tab, mode)
  PROVE  OthersInv(e, tab, mode, ax)
BY DEF EngineInv, OthersInv

\* A handler that touches one axis has to be looked at on that axis only.
LEMMA OtherAxesKeep ==
  ASSUME NEW e, NEW r, NEW tab, NEW mode, NEW k \in Keys,
         OthersInv(e, tab, mode, AxisOf(k)), OnlyAxis(e, r, AxisOf(k)),
         KeyInv(r, tab, mode, k), KeyInv(r, tab, mode, Opposite[k])
  PROVE  EngineInv(r, tab, mode)
<1> SUFFICES ASSUME NEW j \in Keys, j # k, j # Opposite[k]
             PROVE  KeyInv(r, tab, mode, j)
  BY DEF EngineInv, OthersInv, OnlyAxis
<1> DEFINE o == Opposite[j]
<1>1. o \in Keys \ AxisOf(k) /\ j \in Keys \ AxisOf(k) /\ AxisOf(o) = AxisOf(j)
      /\ AxisOf(j) = {j, o}
  BY AxisFacts DEF AxisOf
<1>2. KeyInv(e, tab, mode, j)
  BY <1>1 DEF OthersInv
<1>3. /\ r.suspended = e.suspended /\ r.expired = e.expired
      /\ r.phys \intersect AxisOf(j) = e.phys \intersect AxisOf(j)
      /\ r.axisState[AxisOf(j)] = e.axisState[AxisOf(j)]
      /\ r.last[AxisOf(j)] = e.last[AxisOf(j)]
      /\ r.socd[AxisOf(j)] = e.socd[AxisOf(j)]
      /\ j \in r.phys <=> j \in e.phys
      /\ o \in r.phys <=> o \in e.phys
      /\ r.expect[j] = e.expect[j] /\ r.armed[j] = e.armed[j] /\ r.expect[o] = e.expect[o]
      /\ Falls(r.out, j) <=> Falls(e.out, j)
      /\ Falls(r.out, o) <=> Falls(e.out, o)
      /\ Presses(r.out, j) <=> Presses(e.out, j)
      /\ Presses(r.out, o) <=> Presses(e.out, o)
      /\ FallsFirst(r.out, o, j) <=> FallsFirst(e.out, o, j)
  BY <1>1 DEF OnlyAxis
<1> QED BY <1>2, <1>3 DEF KeyInv, LastIsOfAxis, KnowsAxis, OverlapIsOfLoser, BrakeYieldsToKey, ExpectedComes,
          HeldForAReason, BothHeldEnds, PressedForAReason, PressedWhenClear, OnePressed,
          SuspendedIsQuiet

-----------------------------------------------------------------------------
(* The steps handlers are made of.                                         *)

\* PressIfUp, field by field.
LEMMA PressFields ==
  ASSUME NEW e \in EngineState, NEW k \in Keys
  PROVE  LET r == PressIfUp(e, k) IN
         /\ r \in EngineState
         /\ r.phys = e.phys /\ r.native = e.native /\ r.axisState = e.axisState
         /\ r.last = e.last /\ r.expect = e.expect /\ r.socd = e.socd
         /\ r.suspended = e.suspended /\ r.armed = e.armed /\ r.expired = e.expired
         /\ r.logical = e.logical \union {k}
         /\ r.out = IF k \in e.logical THEN e.out ELSE Append(e.out, Event(k, TRUE))
<1>1. Append(e.out, Event(k, TRUE)) \in Seq([key : Keys, down : BOOLEAN])
  BY DEF EngineState, Event
<1> QED BY <1>1 DEF PressIfUp, EngineState

\* ReleaseIfDown, field by field.
LEMMA ReleaseFields ==
  ASSUME NEW e \in EngineState, NEW k \in Keys
  PROVE  LET r == ReleaseIfDown(e, k) IN
         /\ r \in EngineState
         /\ r.phys = e.phys /\ r.native = e.native /\ r.axisState = e.axisState
         /\ r.last = e.last /\ r.expect = e.expect /\ r.socd = e.socd
         /\ r.suspended = e.suspended /\ r.armed = e.armed /\ r.expired = e.expired
         /\ r.logical = e.logical \ {k}
         /\ r.out = IF k \in e.logical THEN Append(e.out, Event(k, FALSE)) ELSE e.out
<1>1. Append(e.out, Event(k, FALSE)) \in Seq([key : Keys, down : BOOLEAN])
  BY DEF EngineState, Event
<1> QED BY <1>1, Zenon DEF ReleaseIfDown, EngineState

\* DisarmAll, field by field.
LEMMA DisarmFields ==
  ASSUME NEW e \in EngineState, NEW S \in SUBSET Keys
  PROVE  LET r == DisarmAll(e, S) IN
         /\ r \in EngineState
         /\ r.phys = e.phys /\ r.native = e.native /\ r.axisState = e.axisState
         /\ r.last = e.last /\ r.socd = e.socd /\ r.logical = e.logical /\ r.out = e.out
         /\ r.suspended = e.suspended /\ r.expired = e.expired
         /\ \A j \in Keys : /\ r.expect[j] = IF j \in S THEN NoTimer ELSE e.expect[j]
                            /\ r.armed[j] = IF j \in S THEN NoTimer ELSE e.armed[j]
BY Zenon DEF DisarmAll, EngineState, TimerRef, Identity

\* StopExpecting, field by field.
LEMMA StopFields ==
  ASSUME NEW e \in EngineState, NEW k \in Keys
  PROVE  LET r == StopExpecting(e, k) IN
         /\ r \in EngineState
         /\ r.phys = e.phys /\ r.native = e.native /\ r.axisState = e.axisState
         /\ r.last = e.last /\ r.socd = e.socd /\ r.logical = e.logical /\ r.out = e.out
         /\ r.suspended = e.suspended /\ r.expired = e.expired
         /\ \A j \in Keys : /\ r.expect[j] = IF j = k THEN NoTimer ELSE e.expect[j]
                            /\ r.armed[j] = IF j = k THEN NoTimer ELSE e.armed[j]
BY DEF StopExpecting, CancelTimer, EngineState, TimerRef

\* ScheduleTimer arms an id of the service, never 0.
LEMMA ScheduleFields ==
  ASSUME NEW e \in EngineState, Len(e.expired) <= MaxExpired, NEW k \in Keys
  PROVE  LET r == ScheduleTimer(e, k) IN
         /\ r \in EngineState
         /\ r.phys = e.phys /\ r.native = e.native /\ r.axisState = e.axisState
         /\ r.last = e.last /\ r.socd = e.socd /\ r.logical = e.logical /\ r.out = e.out
         /\ r.suspended = e.suspended /\ r.expired = e.expired /\ r.expect = e.expect
         /\ r.armed[k] \in TimerIds /\ r.armed[k] # NoTimer
         /\ \A j \in Keys : j # k => r.armed[j] = e.armed[j]
BY FreshIdExists DEF ScheduleTimer, EngineState, TimerRef

\* Expect, field by field: the engine waits for the id that is armed.
LEMMA ExpectFields ==
  ASSUME NEW e \in EngineState, NEW k \in Keys, NEW t \in Identity
  PROVE  LET r == Expect(e, k, t) IN
         /\ r \in EngineState
         /\ r.phys = e.phys /\ r.native = e.native /\ r.axisState = e.axisState
         /\ r.last = e.last /\ r.socd = e.socd /\ r.logical = e.logical /\ r.out = e.out
         /\ r.suspended = e.suspended /\ r.expired = e.expired /\ r.armed = e.armed
         /\ \A j \in Keys : r.expect[j] = IF j = k THEN e.armed[k] ELSE e.expect[j]
BY DEF Expect, EngineState, TimerRef, Identity

\* CancelSocdTransition of one axis: its overlap and the timers that end it.
LEMMA CancelFields ==
  ASSUME NEW e \in EngineState, NEW k \in Keys
  PROVE  LET r  == CancelSocdTransition(e, AxisOf(k))
             ax == AxisOf(k)
         IN
         /\ r \in EngineState
         /\ r.phys = e.phys /\ r.native = e.native /\ r.axisState = e.axisState
         /\ r.last = e.last /\ r.logical = e.logical /\ r.out = e.out
         /\ r.suspended = e.suspended /\ r.expired = e.expired
         /\ r.socd[ax] = NoTimer /\ \A a \in Axes : a # ax => r.socd[a] = e.socd[a]
         /\ \A j \in Keys :
              LET hit == j \in ax /\ e.socd[ax] # NoTimer /\ e.expect[j] = e.socd[ax]
              IN  /\ r.expect[j] = IF hit THEN NoTimer ELSE e.expect[j]
                  /\ r.armed[j] = IF hit THEN NoTimer ELSE e.armed[j]
<1> DEFINE ax == AxisOf(k)
           S  == UNION {InTransition(e, a) : a \in {ax}}
           d  == DisarmAll(e, S)
           r  == [d EXCEPT !.socd = [a \in Axes |-> IF a \in {ax} THEN NoTimer ELSE @[a]]]
<1>1. ax \in Axes /\ ax \subseteq Keys
  BY AxisFacts
<1>2. S = InTransition(e, ax)
  OBVIOUS
<1>3. S \in SUBSET Keys
        /\ \A j \in Keys : j \in S <=> j \in ax /\ e.socd[ax] # NoTimer /\ e.expect[j] = e.socd[ax]
  BY <1>1, <1>2 DEF InTransition
<1>4. CancelSocdTransition(e, ax) = r
  BY DEF CancelSocdTransition, CancelTransitions
<1> HIDE DEF S, d
<1>5. /\ d \in EngineState
      /\ d.phys = e.phys /\ d.native = e.native /\ d.axisState = e.axisState
      /\ d.last = e.last /\ d.socd = e.socd /\ d.logical = e.logical /\ d.out = e.out
      /\ d.suspended = e.suspended /\ d.expired = e.expired
      /\ \A j \in Keys : /\ d.expect[j] = IF j \in S THEN NoTimer ELSE e.expect[j]
                         /\ d.armed[j] = IF j \in S THEN NoTimer ELSE e.armed[j]
  BY <1>3, DisarmFields DEF d
<1>6. /\ r \in EngineState
      /\ r.phys = d.phys /\ r.native = d.native /\ r.axisState = d.axisState
      /\ r.last = d.last /\ r.logical = d.logical /\ r.out = d.out
      /\ r.suspended = d.suspended /\ r.expired = d.expired
      /\ r.expect = d.expect /\ r.armed = d.armed
      /\ \A a \in Axes : r.socd[a] = IF a = ax THEN NoTimer ELSE d.socd[a]
  BY <1>5 DEF EngineState, TimerRef
<1> HIDE DEF r
<1> QED BY <1>1, <1>3, <1>4, <1>5, <1>6

\* TrackNativeMovement keeps the record exact.
LEMMA TrackFields ==
  ASSUME NEW e \in EngineState, NEW c, c.held \subseteq Slots
  PROVE  LET r == TrackIfOff(e, c) IN
         /\ r \in EngineState
         /\ r.phys = e.phys /\ r.axisState = e.axisState
         /\ r.last = e.last /\ r.socd = e.socd /\ r.out = e.out
         /\ r.suspended = e.suspended /\ r.expired = e.expired
         /\ r.expect = e.expect /\ r.armed = e.armed
         /\ c.held \intersect Keys \subseteq e.logical => c.held \intersect Keys \subseteq r.logical
         /\ e.logical = e.native \union (c.held \intersect Keys) =>
              r.logical = r.native \union (c.held \intersect Keys)
BY DEF TrackIfOff, TrackNativeMovement, EngineState

\* What a press and a release add to the batch.
LEMMA PressBatch ==
  ASSUME NEW e \in EngineState, NEW k \in Keys, NEW x \in Keys, NEW y \in Keys
  PROVE  LET q == PressIfUp(e, k).out IN
         /\ Falls(q, x) <=> Falls(e.out, x)
         /\ Presses(q, x) <=> Presses(e.out, x) \/ (x = k /\ k \notin e.logical)
         /\ FallsFirst(q, y, x) <=>
              FallsFirst(e.out, y, x) /\ (x = k /\ k \notin e.logical => Falls(e.out, y))
<1>1. e.out \in Seq(EventSet)
  BY DEF EngineState, EventSet
<1> DEFINE r == Append(e.out, Event(k, TRUE))
<1>2. /\ Falls(r, x) <=> Falls(e.out, x)
      /\ Presses(r, x) <=> Presses(e.out, x) \/ x = k
      /\ FallsFirst(r, y, x) <=> FallsFirst(e.out, y, x) /\ (x = k => Falls(e.out, y))
  BY <1>1, AppendBatch
<1>3. PressIfUp(e, k).out = IF k \in e.logical THEN e.out ELSE r
  BY PressFields
<1> HIDE DEF r
<1> QED BY <1>2, <1>3

\* The same for a release.
LEMMA ReleaseBatch ==
  ASSUME NEW e \in EngineState, NEW k \in Keys, NEW x \in Keys, NEW y \in Keys
  PROVE  LET q == ReleaseIfDown(e, k).out IN
         /\ Falls(q, x) <=> Falls(e.out, x) \/ (x = k /\ k \in e.logical)
         /\ Presses(q, x) <=> Presses(e.out, x)
         /\ FallsFirst(q, y, x) <=> FallsFirst(e.out, y, x)
<1>1. e.out \in Seq(EventSet)
  BY DEF EngineState, EventSet
<1> DEFINE r == Append(e.out, Event(k, FALSE))
<1>2. /\ Falls(r, x) <=> Falls(e.out, x) \/ x = k
      /\ Presses(r, x) <=> Presses(e.out, x)
      /\ FallsFirst(r, y, x) <=> FallsFirst(e.out, y, x)
  BY <1>1, AppendBatch
<1>3. ReleaseIfDown(e, k).out = IF k \in e.logical THEN r ELSE e.out
  BY ReleaseFields
<1> HIDE DEF r
<1> QED BY <1>2, <1>3

(***************************************************************************)
(* What a step does to the axis {k, o} it is made on: k is the key it      *)
(* names, o the opposite one.                                              *)
(***************************************************************************)
SameBatch(e, r, k, o) ==
  /\ r.logical = e.logical
  /\ Falls(r.out, k) <=> Falls(e.out, k)
  /\ Falls(r.out, o) <=> Falls(e.out, o)
  /\ Presses(r.out, k) <=> Presses(e.out, k)
  /\ Presses(r.out, o) <=> Presses(e.out, o)
  /\ FallsFirst(r.out, o, k) <=> FallsFirst(e.out, o, k)
  /\ FallsFirst(r.out, k, o) <=> FallsFirst(e.out, k, o)

SameKeys(e, r) ==
  r.phys = e.phys /\ r.axisState = e.axisState /\ r.last = e.last /\ r.socd = e.socd

SameTimers(e, r, k, o) ==
  /\ r.expect[k] = e.expect[k] /\ r.armed[k] = e.armed[k]
  /\ r.expect[o] = e.expect[o] /\ r.armed[o] = e.armed[o]

IsPress(e, r, k, o) ==
  /\ OnlyAxis(e, r, AxisOf(k)) /\ SameKeys(e, r) /\ SameTimers(e, r, k, o)
  /\ r.logical = e.logical \union {k}
  /\ Falls(r.out, k) <=> Falls(e.out, k)
  /\ Falls(r.out, o) <=> Falls(e.out, o)
  /\ Presses(r.out, k) <=> Presses(e.out, k) \/ k \notin e.logical
  /\ Presses(r.out, o) <=> Presses(e.out, o)
  /\ FallsFirst(r.out, o, k) <=>
       FallsFirst(e.out, o, k) /\ (k \notin e.logical => Falls(e.out, o))
  /\ FallsFirst(r.out, k, o) <=> FallsFirst(e.out, k, o)

IsRelease(e, r, k, o) ==
  /\ OnlyAxis(e, r, AxisOf(k)) /\ SameKeys(e, r) /\ SameTimers(e, r, k, o)
  /\ r.logical = e.logical \ {k}
  /\ Falls(r.out, k) <=> Falls(e.out, k) \/ k \in e.logical
  /\ Falls(r.out, o) <=> Falls(e.out, o)
  /\ Presses(r.out, k) <=> Presses(e.out, k)
  /\ Presses(r.out, o) <=> Presses(e.out, o)
  /\ FallsFirst(r.out, o, k) <=> FallsFirst(e.out, o, k)
  /\ FallsFirst(r.out, k, o) <=> FallsFirst(e.out, k, o)

IsStop(e, r, k, o) ==
  /\ OnlyAxis(e, r, AxisOf(k)) /\ SameKeys(e, r) /\ SameBatch(e, r, k, o)
  /\ r.expect[k] = NoTimer /\ r.armed[k] = NoTimer
  /\ r.expect[o] = e.expect[o] /\ r.armed[o] = e.armed[o]

IsDisarm(e, r, k, o) ==
  /\ OnlyAxis(e, r, AxisOf(k)) /\ SameKeys(e, r) /\ SameBatch(e, r, k, o)
  /\ r.expect[k] = NoTimer /\ r.expect[o] = NoTimer

IsSchedule(e, r, k, o) ==
  /\ OnlyAxis(e, r, AxisOf(k)) /\ SameKeys(e, r) /\ SameBatch(e, r, k, o)
  /\ r.armed[k] # NoTimer /\ r.armed[o] = e.armed[o]
  /\ r.expect[k] = e.expect[k] /\ r.expect[o] = e.expect[o]

IsExpect(e, r, k, o) ==
  /\ OnlyAxis(e, r, AxisOf(k)) /\ SameKeys(e, r) /\ SameBatch(e, r, k, o)
  /\ r.expect[k] = e.armed[k] /\ r.expect[o] = e.expect[o]
  /\ r.armed[k] = e.armed[k] /\ r.armed[o] = e.armed[o]

\* The overlap of the axis is given up; axisState is left to the two below.
Ended(e, r, k, o) ==
  LET ax == AxisOf(k)
      hit(x) == e.socd[ax] # NoTimer /\ e.expect[x] = e.socd[ax]
  IN  /\ OnlyAxis(e, r, ax) /\ SameBatch(e, r, k, o)
      /\ r.phys = e.phys /\ r.last[ax] = e.last[ax] /\ r.socd[ax] = NoTimer
      /\ r.expect[k] = IF hit(k) THEN NoTimer ELSE e.expect[k]
      /\ r.armed[k] = IF hit(k) THEN NoTimer ELSE e.armed[k]
      /\ r.expect[o] = IF hit(o) THEN NoTimer ELSE e.expect[o]
      /\ r.armed[o] = IF hit(o) THEN NoTimer ELSE e.armed[o]

IsCancel(e, r, k, o) == Ended(e, r, k, o) /\ r.axisState = e.axisState

\* ResolveAxis's first step, when the state of the axis changes.
Moved(e, ax) ==
  [CancelSocdTransition(e, ax) EXCEPT !.axisState[ax] = e.phys \intersect ax]

IsMoved(e, r, k, o) ==
  Ended(e, r, k, o) /\ r.axisState[AxisOf(k)] = e.phys \intersect AxisOf(k)

IsTracked(e, r, k, o, c) ==
  /\ OnlyAxis(e, r, AxisOf(k)) /\ SameKeys(e, r) /\ SameTimers(e, r, k, o) /\ r.out = e.out
  /\ c.held \intersect Keys \subseteq e.logical => c.held \intersect Keys \subseteq r.logical

Step(k, o) ==
  k \in Keys /\ o \in Keys /\ k # o /\ o = Opposite[k] /\ k = Opposite[o]
    /\ AxisOf(k) = {k, o} /\ AxisOf(o) = {k, o} /\ {k, o} \in Axes

\* Either key of an axis is the k of its steps.
LEMMA Axis ==
  ASSUME NEW k \in Keys
  PROVE  Step(k, Opposite[k]) /\ Step(Opposite[k], k)
BY AxisFacts DEF AxisOf, Step

\* Keys of other axes have other axes.
LEMMA Apart ==
  ASSUME NEW k, NEW o, Step(k, o), NEW j \in Keys \ AxisOf(k)
  PROVE  j # k /\ j # o /\ AxisOf(j) # AxisOf(k) /\ AxisOf(j) \in Axes
BY AxisFacts DEF Step

\* PressIfUp as a step on its axis.
LEMMA PressStep ==
  ASSUME NEW e \in EngineState, NEW k, NEW o, Step(k, o)
  PROVE  IsPress(e, PressIfUp(e, k), k, o)
<1> DEFINE r == PressIfUp(e, k)
<1>1. k \in Keys /\ o \in Keys /\ k # o /\ AxisOf(k) = {k, o}
  BY DEF Step
<1>2. /\ r \in EngineState
      /\ r.phys = e.phys /\ r.native = e.native /\ r.axisState = e.axisState
      /\ r.last = e.last /\ r.expect = e.expect /\ r.socd = e.socd
      /\ r.suspended = e.suspended /\ r.armed = e.armed /\ r.expired = e.expired
      /\ r.logical = e.logical \union {k}
  BY <1>1, PressFields
<1>3. ASSUME NEW x \in Keys, NEW y \in Keys
      PROVE  /\ Falls(r.out, x) <=> Falls(e.out, x)
             /\ Presses(r.out, x) <=> Presses(e.out, x) \/ (x = k /\ k \notin e.logical)
             /\ FallsFirst(r.out, y, x) <=>
                  FallsFirst(e.out, y, x) /\ (x = k /\ k \notin e.logical => Falls(e.out, y))
  BY <1>1, PressBatch
<1> HIDE DEF r
<1>4. \A j \in Keys \ AxisOf(k) : j # k
  BY <1>1
<1>5. OnlyAxis(e, r, AxisOf(k))
  BY <1>2, <1>3, <1>4 DEF OnlyAxis
<1>6. IsPress(e, r, k, o)
  BY <1>1, <1>2, <1>3, <1>5 DEF IsPress, SameKeys, SameTimers
<1> QED BY <1>6 DEF r

\* ReleaseIfDown as a step on its axis.
LEMMA ReleaseStep ==
  ASSUME NEW e \in EngineState, NEW k, NEW o, Step(k, o)
  PROVE  IsRelease(e, ReleaseIfDown(e, k), k, o)
<1> DEFINE r == ReleaseIfDown(e, k)
<1>1. k \in Keys /\ o \in Keys /\ k # o /\ AxisOf(k) = {k, o}
  BY DEF Step
<1>2. /\ r \in EngineState
      /\ r.phys = e.phys /\ r.native = e.native /\ r.axisState = e.axisState
      /\ r.last = e.last /\ r.expect = e.expect /\ r.socd = e.socd
      /\ r.suspended = e.suspended /\ r.armed = e.armed /\ r.expired = e.expired
      /\ r.logical = e.logical \ {k}
  BY <1>1, ReleaseFields
<1>3. ASSUME NEW x \in Keys, NEW y \in Keys
      PROVE  /\ Falls(r.out, x) <=> Falls(e.out, x) \/ (x = k /\ k \in e.logical)
             /\ Presses(r.out, x) <=> Presses(e.out, x)
             /\ FallsFirst(r.out, y, x) <=> FallsFirst(e.out, y, x)
  BY <1>1, ReleaseBatch
<1> HIDE DEF r
<1>4. \A j \in Keys \ AxisOf(k) : j # k
  BY <1>1
<1>5. OnlyAxis(e, r, AxisOf(k))
  BY <1>2, <1>3, <1>4 DEF OnlyAxis
<1>6. IsRelease(e, r, k, o)
  BY <1>1, <1>2, <1>3, <1>5 DEF IsRelease, SameKeys, SameTimers
<1> QED BY <1>6 DEF r

\* StopExpecting as a step on its axis.
LEMMA StopStep ==
  ASSUME NEW e \in EngineState, NEW k, NEW o, Step(k, o)
  PROVE  IsStop(e, StopExpecting(e, k), k, o)
<1> DEFINE r == StopExpecting(e, k)
<1>1. k \in Keys /\ o \in Keys /\ k # o /\ AxisOf(k) = {k, o}
  BY DEF Step
<1>2. /\ r \in EngineState
      /\ r.phys = e.phys /\ r.native = e.native /\ r.axisState = e.axisState
      /\ r.last = e.last /\ r.socd = e.socd /\ r.logical = e.logical /\ r.out = e.out
      /\ r.suspended = e.suspended /\ r.expired = e.expired
      /\ \A j \in Keys : /\ r.expect[j] = IF j = k THEN NoTimer ELSE e.expect[j]
                         /\ r.armed[j] = IF j = k THEN NoTimer ELSE e.armed[j]
  BY <1>1, StopFields
<1> HIDE DEF r
<1>3. \A j \in Keys \ AxisOf(k) : j # k
  BY <1>1
<1>4. IsStop(e, r, k, o)
  BY <1>1, <1>2, <1>3 DEF IsStop, SameKeys, SameBatch, OnlyAxis
<1> QED BY <1>4 DEF r

\* DisarmAll of an axis as a step on it.
LEMMA DisarmStep ==
  ASSUME NEW e \in EngineState, NEW k, NEW o, Step(k, o)
  PROVE  IsDisarm(e, DisarmAll(e, AxisOf(k)), k, o)
<1> DEFINE r == DisarmAll(e, AxisOf(k))
<1>1. k \in Keys /\ o \in Keys /\ k # o /\ AxisOf(k) = {k, o} /\ AxisOf(k) \in SUBSET Keys
  BY DEF Step
<1>2. /\ r \in EngineState
      /\ r.phys = e.phys /\ r.native = e.native /\ r.axisState = e.axisState
      /\ r.last = e.last /\ r.socd = e.socd /\ r.logical = e.logical /\ r.out = e.out
      /\ r.suspended = e.suspended /\ r.expired = e.expired
      /\ \A j \in Keys : /\ r.expect[j] = IF j \in AxisOf(k) THEN NoTimer ELSE e.expect[j]
                         /\ r.armed[j] = IF j \in AxisOf(k) THEN NoTimer ELSE e.armed[j]
  BY <1>1, DisarmFields
<1> HIDE DEF r
<1>4. IsDisarm(e, r, k, o)
  BY <1>1, <1>2 DEF IsDisarm, SameKeys, SameBatch, OnlyAxis
<1> QED BY <1>4 DEF r

\* ScheduleTimer as a step on its axis.
LEMMA ScheduleStep ==
  ASSUME NEW e \in EngineState, Len(e.expired) <= MaxExpired, NEW k, NEW o, Step(k, o)
  PROVE  IsSchedule(e, ScheduleTimer(e, k), k, o)
<1> DEFINE r == ScheduleTimer(e, k)
<1>1. k \in Keys /\ o \in Keys /\ k # o /\ AxisOf(k) = {k, o}
  BY DEF Step
<1>2. /\ r \in EngineState
      /\ r.phys = e.phys /\ r.native = e.native /\ r.axisState = e.axisState
      /\ r.last = e.last /\ r.socd = e.socd /\ r.logical = e.logical /\ r.out = e.out
      /\ r.suspended = e.suspended /\ r.expired = e.expired /\ r.expect = e.expect
      /\ r.armed[k] # NoTimer
      /\ \A j \in Keys : j # k => r.armed[j] = e.armed[j]
  BY <1>1, ScheduleFields
<1> HIDE DEF r
<1>3. \A j \in Keys \ AxisOf(k) : j # k
  BY <1>1
<1>4. IsSchedule(e, r, k, o)
  BY <1>1, <1>2, <1>3 DEF IsSchedule, SameKeys, SameBatch, OnlyAxis
<1> QED BY <1>4 DEF r

\* Expect as a step on its axis.
LEMMA ExpectStep ==
  ASSUME NEW e \in EngineState, NEW t \in Identity, NEW k, NEW o, Step(k, o)
  PROVE  IsExpect(e, Expect(e, k, t), k, o)
<1> DEFINE r == Expect(e, k, t)
<1>1. k \in Keys /\ o \in Keys /\ k # o /\ AxisOf(k) = {k, o}
  BY DEF Step
<1>2. /\ r \in EngineState
      /\ r.phys = e.phys /\ r.native = e.native /\ r.axisState = e.axisState
      /\ r.last = e.last /\ r.socd = e.socd /\ r.logical = e.logical /\ r.out = e.out
      /\ r.suspended = e.suspended /\ r.expired = e.expired /\ r.armed = e.armed
      /\ \A j \in Keys : r.expect[j] = IF j = k THEN e.armed[k] ELSE e.expect[j]
  BY <1>1, ExpectFields
<1> HIDE DEF r
<1>3. \A j \in Keys \ AxisOf(k) : j # k
  BY <1>1
<1>4. IsExpect(e, r, k, o)
  BY <1>1, <1>2, <1>3 DEF IsExpect, SameKeys, SameBatch, OnlyAxis
<1> QED BY <1>4 DEF r

\* CancelSocdTransition as a step on its axis.
LEMMA CancelStep ==
  ASSUME NEW e \in EngineState, NEW k, NEW o, Step(k, o)
  PROVE  IsCancel(e, CancelSocdTransition(e, AxisOf(k)), k, o)
<1> DEFINE ax == AxisOf(k)
           r  == CancelSocdTransition(e, ax)
<1>1. k \in Keys /\ o \in Keys /\ k # o /\ ax = {k, o} /\ ax \in Axes
  BY DEF Step
<1>2. /\ r \in EngineState
      /\ r.phys = e.phys /\ r.native = e.native /\ r.axisState = e.axisState
      /\ r.last = e.last /\ r.logical = e.logical /\ r.out = e.out
      /\ r.suspended = e.suspended /\ r.expired = e.expired
      /\ r.socd[ax] = NoTimer /\ \A a \in Axes : a # ax => r.socd[a] = e.socd[a]
      /\ \A j \in Keys :
           LET hit == j \in ax /\ e.socd[ax] # NoTimer /\ e.expect[j] = e.socd[ax]
           IN  /\ r.expect[j] = IF hit THEN NoTimer ELSE e.expect[j]
               /\ r.armed[j] = IF hit THEN NoTimer ELSE e.armed[j]
  BY <1>1, CancelFields
<1> HIDE DEF r
<1>3. \A j \in Keys \ ax : AxisOf(j) # ax /\ AxisOf(j) \in Axes
  BY Apart
<1>4. OnlyAxis(e, r, ax)
  BY <1>2, <1>3 DEF OnlyAxis
<1>5. IsCancel(e, r, k, o)
  BY <1>1, <1>2, <1>4 DEF IsCancel, Ended, SameBatch
<1> QED BY <1>5 DEF r

\* The first step of ResolveAxis as a step on its axis.
LEMMA MovedStep ==
  ASSUME NEW e \in EngineState, NEW k, NEW o, Step(k, o)
  PROVE  IsMoved(e, Moved(e, AxisOf(k)), k, o)
<1> DEFINE ax == AxisOf(k)
           d  == CancelSocdTransition(e, ax)
           r  == [d EXCEPT !.axisState[ax] = e.phys \intersect ax]
<1>1. k \in Keys /\ o \in Keys /\ k # o /\ ax = {k, o} /\ ax \in Axes
  BY DEF Step
<1>2. IsCancel(e, d, k, o)
  BY CancelStep
<1>3. Moved(e, ax) = r
  BY DEF Moved
<1> HIDE DEF d
<1>4. d \in EngineState
  BY <1>2 DEF IsCancel, Ended, OnlyAxis
<1>5. /\ r \in EngineState
      /\ r.phys = d.phys /\ r.native = d.native /\ r.socd = d.socd
      /\ r.last = d.last /\ r.logical = d.logical /\ r.out = d.out
      /\ r.suspended = d.suspended /\ r.expired = d.expired
      /\ r.expect = d.expect /\ r.armed = d.armed
      /\ \A a \in Axes : r.axisState[a] = IF a = ax THEN e.phys \intersect ax
                                                    ELSE d.axisState[a]
  <2>1. e.phys \intersect ax \in SUBSET Keys
    BY <1>1
  <2> QED BY <1>1, <1>4, <2>1 DEF EngineState
<1> HIDE DEF r
<1>6. \A j \in Keys \ ax : AxisOf(j) # ax /\ AxisOf(j) \in Axes
  BY Apart
<1>7. OnlyAxis(d, r, ax)
  BY <1>5, <1>6 DEF OnlyAxis
<1>8. OnlyAxis(e, r, ax)
  BY <1>2, <1>7, OnlyAxisTrans DEF IsCancel, Ended
<1>9. IsMoved(e, r, k, o)
  BY <1>1, <1>2, <1>5, <1>8 DEF IsMoved, IsCancel, Ended, SameBatch
<1> QED BY <1>3, <1>9

\* TrackIfOff as a step on any axis.
LEMMA TrackStep ==
  ASSUME NEW e \in EngineState, NEW c, c.held \subseteq Slots, NEW k, NEW o, Step(k, o)
  PROVE  IsTracked(e, TrackIfOff(e, c), k, o, c)
<1> DEFINE r == TrackIfOff(e, c)
<1>1. /\ r \in EngineState
      /\ r.phys = e.phys /\ r.axisState = e.axisState
      /\ r.last = e.last /\ r.socd = e.socd /\ r.out = e.out
      /\ r.suspended = e.suspended /\ r.expired = e.expired
      /\ r.expect = e.expect /\ r.armed = e.armed
      /\ c.held \intersect Keys \subseteq e.logical => c.held \intersect Keys \subseteq r.logical
  BY TrackFields
<1> HIDE DEF r
<1>2. IsTracked(e, r, k, o, c)
  BY <1>1 DEF IsTracked, OnlyAxis, SameKeys, SameTimers
<1> QED BY <1>2 DEF r

-----------------------------------------------------------------------------
(* The handlers, from a state between two batches.                         *)

Starts(e, tab, mode, c) ==
  /\ EngineInv(e, tab, mode) /\ e.out = <<>>
  /\ tab.held \subseteq Slots /\ tab.held \intersect Keys \subseteq e.logical
  /\ c.mode = mode /\ c.held = tab.held /\ c.target \in Identity

\* HandleKeyDown up to the resolution of the axis.
Recorded(e, k, c) ==
  LET pressed == [e EXCEPT !.phys = @ \union {k}, !.last[AxisOf(k)] = k]
  IN  TrackIfOff(IF MacroBrakePending(pressed, k) THEN pressed
                 ELSE StopExpecting(pressed, k), c)

IsRecorded(e, r, k, o, c) ==
  LET brake == k \in e.logical /\ e.expect[k] # NoTimer
  IN  /\ OnlyAxis(e, r, AxisOf(k))
      /\ r.phys = e.phys \union {k} /\ r.axisState = e.axisState
      /\ r.last[AxisOf(k)] = k /\ r.socd = e.socd /\ r.out = e.out
      /\ r.expect[k] = IF brake THEN e.expect[k] ELSE NoTimer
      /\ r.armed[k] = IF brake THEN e.armed[k] ELSE NoTimer
      /\ r.expect[o] = e.expect[o] /\ r.armed[o] = e.armed[o]
      /\ c.held \intersect Keys \subseteq e.logical => c.held \intersect Keys \subseteq r.logical

\* What every key down does before the axis is resolved.
LEMMA RecordedStep ==
  ASSUME NEW e \in EngineState, NEW c, c.held \subseteq Slots, NEW k, NEW o, Step(k, o)
  PROVE  IsRecorded(e, Recorded(e, k, c), k, o, c)
<1> DEFINE ax == AxisOf(k)
           p  == [e EXCEPT !.phys = @ \union {k}, !.last[ax] = k]
           s  == IF MacroBrakePending(p, k) THEN p ELSE StopExpecting(p, k)
           r  == TrackIfOff(s, c)
<1>1. k \in Keys /\ o \in Keys /\ k # o /\ ax = {k, o} /\ ax \in Axes
  BY DEF Step
<1>2. Recorded(e, k, c) = r
  BY DEF Recorded
<1>3. /\ p \in EngineState
      /\ p.phys = e.phys \union {k} /\ p.native = e.native /\ p.socd = e.socd
      /\ p.axisState = e.axisState /\ p.logical = e.logical /\ p.out = e.out
      /\ p.suspended = e.suspended /\ p.expired = e.expired
      /\ p.expect = e.expect /\ p.armed = e.armed
      /\ \A a \in Axes : p.last[a] = IF a = ax THEN k ELSE e.last[a]
  BY <1>1 DEF EngineState
<1>4. MacroBrakePending(p, k) <=> k \in e.logical /\ e.expect[k] # NoTimer
  BY <1>3 DEF MacroBrakePending
<1> HIDE DEF p
<1>5. \A j \in Keys \ ax : j # k /\ AxisOf(j) # ax /\ AxisOf(j) \in Axes
  BY Apart
<1>6. OnlyAxis(e, p, ax)
  BY <1>1, <1>3, <1>5 DEF OnlyAxis
<1>7. IsStop(p, StopExpecting(p, k), k, o)
  BY <1>3, StopStep
<1>8. /\ s \in EngineState /\ OnlyAxis(p, s, ax) /\ SameKeys(p, s)
      /\ s.logical = p.logical
      /\ s.expect[k] = IF MacroBrakePending(p, k) THEN p.expect[k] ELSE NoTimer
      /\ s.armed[k] = IF MacroBrakePending(p, k) THEN p.armed[k] ELSE NoTimer
      /\ s.expect[o] = p.expect[o] /\ s.armed[o] = p.armed[o]
      /\ s.out = p.out
  <2>1. OnlyAxis(p, p, ax) /\ SameKeys(p, p)
    BY <1>3 DEF OnlyAxis, SameKeys
  <2>2. StopExpecting(p, k).out = p.out
    BY <1>1, <1>3, StopFields
  <2> QED BY <1>3, <1>7, <2>1, <2>2 DEF IsStop, SameBatch, OnlyAxis
<1> HIDE DEF s
<1>9. IsTracked(s, r, k, o, c)
  BY <1>8, TrackStep
<1> HIDE DEF r
<1>10. OnlyAxis(e, r, ax)
  BY <1>6, <1>8, <1>9, OnlyAxisTrans DEF IsTracked
<1>11. IsRecorded(e, r, k, o, c)
  BY <1>1, <1>3, <1>4, <1>8, <1>9, <1>10 DEF IsRecorded, IsTracked, SameKeys, SameTimers
<1> QED BY <1>2, <1>11

\* HandleKeyUp up to the release.
Lifted(e, k, c) ==
  TrackIfOff([CancelSocdTransition(e, AxisOf(k)) EXCEPT !.phys = @ \ {k}], c)

IsLifted(e, r, k, o, c) ==
  LET ax == AxisOf(k)
      hit(x) == e.socd[ax] # NoTimer /\ e.expect[x] = e.socd[ax]
  IN  /\ OnlyAxis(e, r, ax)
      /\ r.phys = e.phys \ {k} /\ r.axisState = e.axisState
      /\ r.last[ax] = e.last[ax] /\ r.socd[ax] = NoTimer /\ r.out = e.out
      /\ r.expect[k] = IF hit(k) THEN NoTimer ELSE e.expect[k]
      /\ r.armed[k] = IF hit(k) THEN NoTimer ELSE e.armed[k]
      /\ r.expect[o] = IF hit(o) THEN NoTimer ELSE e.expect[o]
      /\ r.armed[o] = IF hit(o) THEN NoTimer ELSE e.armed[o]
      /\ c.held \intersect Keys \subseteq e.logical => c.held \intersect Keys \subseteq r.logical

\* What every key up does before the key is released.
LEMMA LiftedStep ==
  ASSUME NEW e \in EngineState, NEW c, c.held \subseteq Slots, NEW k, NEW o, Step(k, o)
  PROVE  IsLifted(e, Lifted(e, k, c), k, o, c)
<1> DEFINE ax == AxisOf(k)
           d  == CancelSocdTransition(e, ax)
           p  == [d EXCEPT !.phys = @ \ {k}]
           r  == TrackIfOff(p, c)
<1>1. k \in Keys /\ o \in Keys /\ k # o /\ ax = {k, o} /\ ax \in Axes
  BY DEF Step
<1>2. Lifted(e, k, c) = r
  BY DEF Lifted
<1>3. IsCancel(e, d, k, o) /\ d.out = e.out
  BY <1>1, CancelStep, CancelFields
<1> HIDE DEF d
<1>4. d \in EngineState /\ OnlyAxis(e, d, ax)
  BY <1>3 DEF IsCancel, Ended, OnlyAxis
<1>5. /\ p \in EngineState
      /\ p.phys = d.phys \ {k} /\ p.native = d.native /\ p.socd = d.socd
      /\ p.axisState = d.axisState /\ p.logical = d.logical /\ p.out = d.out
      /\ p.suspended = d.suspended /\ p.expired = d.expired
      /\ p.expect = d.expect /\ p.armed = d.armed /\ p.last = d.last
  BY <1>4 DEF EngineState
<1> HIDE DEF p
<1>6. \A j \in Keys \ ax : j # k
  BY <1>1
<1>7. OnlyAxis(d, p, ax)
  BY <1>5, <1>6 DEF OnlyAxis
<1>8. IsTracked(p, r, k, o, c)
  BY <1>5, TrackStep
<1> HIDE DEF r
<1>9. OnlyAxis(e, r, ax)
  BY <1>4, <1>7, <1>8, OnlyAxisTrans DEF IsTracked
<1>10. IsLifted(e, r, k, o, c)
  BY <1>1, <1>3, <1>5, <1>8, <1>9
     DEF IsLifted, IsTracked, IsCancel, Ended, SameBatch, SameKeys, SameTimers
<1> QED BY <1>2, <1>10

IsEngage(e, r, k, o, c) ==
  IF c.mode # "OFF" THEN IsPress(e, r, k, o)
  ELSE OnlyAxis(e, r, AxisOf(k)) /\ SameKeys(e, r) /\ SameTimers(e, r, k, o) /\ r.out = e.out

\* Engage as a step on its axis.
LEMMA EngageStep ==
  ASSUME NEW e \in EngineState, NEW c, NEW k, NEW o, Step(k, o)
  PROVE  IsEngage(e, Engage(e, k, c), k, o, c)
<1> DEFINE r == [e EXCEPT !.logical = @ \union {k}]
<1>1. k \in Keys
  BY DEF Step
<1>2. /\ r \in EngineState
      /\ r.phys = e.phys /\ r.native = e.native /\ r.axisState = e.axisState
      /\ r.last = e.last /\ r.expect = e.expect /\ r.socd = e.socd
      /\ r.suspended = e.suspended /\ r.armed = e.armed /\ r.expired = e.expired
      /\ r.out = e.out
  BY <1>1 DEF EngineState
<1> HIDE DEF r
<1>3. OnlyAxis(e, r, AxisOf(k)) /\ SameKeys(e, r) /\ SameTimers(e, r, k, o)
  BY <1>2 DEF OnlyAxis, SameKeys, SameTimers
<1>4. CASE c.mode # "OFF"
  BY <1>4, PressStep DEF Engage, IsEngage
<1>5. CASE c.mode = "OFF"
  BY <1>2, <1>3, <1>5 DEF Engage, IsEngage, r
<1> QED BY <1>4, <1>5

\* The invariant of an axis {k, o} between two batches.
Calm(e, tab, mode, k, o) ==
  LET ax == AxisOf(k)
  IN  /\ e \in EngineState /\ Len(e.expired) <= MaxExpired
      /\ ~Falls(e.out, k) /\ ~Falls(e.out, o) /\ ~Presses(e.out, k) /\ ~Presses(e.out, o)
      /\ FallsFirst(e.out, o, k) /\ FallsFirst(e.out, k, o)
      /\ e.last[ax] \in {k, o}
      /\ ~e.suspended => e.axisState[ax] = e.phys \intersect {k, o}
      /\ e.socd[ax] # NoTimer =>
           /\ k \in e.phys /\ o \in e.phys /\ mode = "HUMANIZED"
           /\ e.expect[k] = e.socd[ax] => e.last[ax] = o
           /\ e.expect[o] = e.socd[ax] => e.last[ax] = k
      /\ k \in e.phys /\ e.expect[o] # NoTimer => o \in e.phys /\ e.expect[o] = e.socd[ax]
      /\ o \in e.phys /\ e.expect[k] # NoTimer => k \in e.phys /\ e.expect[k] = e.socd[ax]
      /\ ExpectedComes(e, k) /\ ExpectedComes(e, o)
      /\ k \in tab.held =>
           k \in e.logical /\ (k \in tab.pending \/ k \in e.phys \/ e.expect[k] # NoTimer)
      /\ o \in tab.held =>
           o \in e.logical /\ (o \in tab.pending \/ o \in e.phys \/ e.expect[o] # NoTimer)
      /\ k \in tab.held /\ o \in tab.held =>
           \/ k \in tab.pending \/ e.expect[k] # NoTimer
           \/ o \in tab.pending \/ e.expect[o] # NoTimer
      /\ e.suspended =>
           /\ e.expect[k] = NoTimer /\ e.expect[o] = NoTimer /\ e.socd[ax] = NoTimer
           /\ k \in tab.held => k \in tab.pending
           /\ o \in tab.held => o \in tab.pending

\* Between two batches the invariant speaks of keys and timers only.
LEMMA CalmAt ==
  ASSUME NEW e, NEW tab, NEW mode, NEW c, Starts(e, tab, mode, c), NEW k, NEW o, Step(k, o)
  PROVE  Calm(e, tab, mode, k, o)
<1>1. k \in Keys /\ o \in Keys /\ AxisOf(k) = {k, o} /\ AxisOf(o) = {k, o}
      /\ Opposite[k] = o /\ Opposite[o] = k
  BY DEF Step
<1>2. KeyInv(e, tab, mode, k) /\ KeyInv(e, tab, mode, o)
  BY <1>1 DEF Starts, EngineInv
<1>3. /\ ~Falls(e.out, k) /\ ~Falls(e.out, o) /\ ~Presses(e.out, k) /\ ~Presses(e.out, o)
      /\ FallsFirst(e.out, o, k) /\ FallsFirst(e.out, k, o)
  BY EmptyBatch DEF Starts
<1>4. e \in EngineState /\ Len(e.expired) <= MaxExpired
      /\ (k \in tab.held => k \in e.logical) /\ (o \in tab.held => o \in e.logical)
  BY <1>1 DEF Starts, EngineInv
<1> QED BY <1>1, <1>2, <1>3, <1>4, ZenonT(60)
        DEF Calm, KeyInv, LastIsOfAxis, KnowsAxis, OverlapIsOfLoser, BrakeYieldsToKey,
          HeldForAReason, BothHeldEnds, SuspendedIsQuiet

\* What a handler has to show of the axis it works on.
Good(r, tab, mode, k, o) ==
  LET ax == AxisOf(k)
  IN  /\ r.last[ax] \in {k, o}
      /\ ~r.suspended => r.axisState[ax] = r.phys \intersect {k, o}
      /\ r.socd[ax] # NoTimer =>
           /\ k \in r.phys /\ o \in r.phys /\ mode = "HUMANIZED"
           /\ r.expect[k] = r.socd[ax] => r.last[ax] = o
           /\ r.expect[o] = r.socd[ax] => r.last[ax] = k
      /\ k \in r.phys /\ r.expect[o] # NoTimer => o \in r.phys /\ r.expect[o] = r.socd[ax]
      /\ o \in r.phys /\ r.expect[k] # NoTimer => k \in r.phys /\ r.expect[k] = r.socd[ax]
      /\ ExpectedComes(r, k) /\ ExpectedComes(r, o)
      /\ k \in tab.held =>
           k \in tab.pending \/ k \in r.phys \/ r.expect[k] # NoTimer \/ Falls(r.out, k)
      /\ o \in tab.held =>
           o \in tab.pending \/ o \in r.phys \/ r.expect[o] # NoTimer \/ Falls(r.out, o)
      /\ k \in tab.held /\ o \in tab.held =>
           \/ k \in tab.pending \/ r.expect[k] # NoTimer \/ Falls(r.out, k)
           \/ o \in tab.pending \/ r.expect[o] # NoTimer \/ Falls(r.out, o)
      /\ ~(Presses(r.out, k) /\ Presses(r.out, o))
      /\ Presses(r.out, k) =>
           /\ k \in r.phys \/ r.expect[k] # NoTimer
           /\ \/ o \notin tab.held \/ o \in tab.pending \/ FallsFirst(r.out, o, k)
              \/ k \notin r.phys /\ r.expect[k] # NoTimer
              \/ k \in r.phys /\ o \in r.phys /\ r.socd[ax] # NoTimer
                   /\ r.expect[o] = r.socd[ax]
      /\ Presses(r.out, o) =>
           /\ o \in r.phys \/ r.expect[o] # NoTimer
           /\ \/ k \notin tab.held \/ k \in tab.pending \/ FallsFirst(r.out, k, o)
              \/ o \notin r.phys /\ r.expect[o] # NoTimer
              \/ k \in r.phys /\ o \in r.phys /\ r.socd[ax] # NoTimer
                   /\ r.expect[k] = r.socd[ax]
      /\ r.suspended =>
           /\ r.expect[k] = NoTimer /\ r.expect[o] = NoTimer /\ r.socd[ax] = NoTimer
           /\ k \in tab.held => k \in tab.pending \/ Falls(r.out, k)
           /\ o \in tab.held => o \in tab.pending \/ Falls(r.out, o)
           /\ ~Presses(r.out, k) /\ ~Presses(r.out, o)

\* A handler that leaves its own axis in order keeps the invariant.
LEMMA GoodKeeps ==
  ASSUME NEW e, NEW r, NEW tab, NEW mode, NEW k, NEW o, Step(k, o),
         OthersInv(e, tab, mode, AxisOf(k)), OnlyAxis(e, r, AxisOf(k)),
         Good(r, tab, mode, k, o)
  PROVE  EngineInv(r, tab, mode)
<1>1. k \in Keys /\ o \in Keys /\ AxisOf(k) = {k, o} /\ AxisOf(o) = {k, o}
      /\ Opposite[k] = o /\ Opposite[o] = k
  BY DEF Step
<1>2. KeyInv(r, tab, mode, k)
  BY <1>1 DEF Good, KeyInv, LastIsOfAxis, KnowsAxis, OverlapIsOfLoser, BrakeYieldsToKey,
       HeldForAReason, BothHeldEnds, PressedForAReason, PressedWhenClear, OnePressed,
       SuspendedIsQuiet
<1>3. KeyInv(r, tab, mode, o)
  BY <1>1 DEF Good, KeyInv, LastIsOfAxis, KnowsAxis, OverlapIsOfLoser, BrakeYieldsToKey,
       HeldForAReason, BothHeldEnds, PressedForAReason, PressedWhenClear, OnePressed,
       SuspendedIsQuiet
<1> QED BY <1>1, <1>2, <1>3, OtherAxesKeep

\* A timer that was armed for what the engine expects, and still is.
LEMMA StillComes ==
  ASSUME NEW e, NEW r, NEW j, r.expired = e.expired,
         r.expect[j] = NoTimer \/ r.armed[j] = r.expect[j]
           \/ (ExpectedComes(e, j) /\ r.expect[j] = e.expect[j] /\ r.armed[j] = e.armed[j])
  PROVE  ExpectedComes(r, j)
BY DEF ExpectedComes

\* HandleKeyDown while input is suspended: the key is recorded.
LEMMA DownSuspendedKeeps ==
  ASSUME NEW e, NEW tab, NEW mode, NEW c, Starts(e, tab, mode, c),
         NEW k \in Keys, k \notin e.phys, e.suspended
  PROVE  EngineInv(HandleKeyDown(e, k, FALSE, c), tab, mode)
<1> DEFINE o == Opposite[k]
           r == Recorded(e, k, c)
<1>1. HandleKeyDown(e, k, FALSE, c) = r
  BY DEF HandleKeyDown, Recorded
<1>2. Step(k, o)
  BY Axis
<1> HIDE DEF o
<1>3. Calm(e, tab, mode, k, o) /\ OthersInv(e, tab, mode, AxisOf(k))
  BY <1>2, CalmAt, AllAndOthers DEF Starts
<1>4. e \in EngineState /\ c.held \subseteq Slots
  BY DEF Starts, EngineInv
<1>5. IsRecorded(e, r, k, o, c)
  BY <1>2, <1>4, RecordedStep
<1> HIDE DEF r
<1>6. r.suspended = e.suspended /\ r.expired = e.expired
  BY <1>5 DEF IsRecorded, OnlyAxis
<1>7. ExpectedComes(r, k) /\ ExpectedComes(r, o)
  BY <1>3, <1>5, <1>6, StillComes DEF Calm, IsRecorded
<1>8. Good(r, tab, mode, k, o)
  BY <1>2, <1>3, <1>5, <1>6, <1>7, Zenon DEF Good, Calm, IsRecorded, Step
<1> QED BY <1>1, <1>2, <1>3, <1>5, <1>8, GoodKeeps DEF IsRecorded

\* HandleKeyDown of the only key of its axis: a brake opposite to it is void.
LEMMA DownAloneKeeps ==
  ASSUME NEW e, NEW tab, NEW mode, NEW c, Starts(e, tab, mode, c),
         NEW k \in Keys, k \notin e.phys, Opposite[k] \notin e.phys, ~e.suspended
  PROVE  EngineInv(HandleKeyDown(e, k, TRUE, c), tab, mode)
<1> DEFINE o  == Opposite[k]
           ax == AxisOf(k)
           a  == Recorded(e, k, c)
           m  == Moved(a, ax)
           s  == StopExpecting(m, o)
           f  == ReleaseIfDown(s, o)
           r  == Engage(f, k, c)
<1>1. Step(k, o) /\ Step(o, k) /\ ax = {k, o} /\ AxisOf(o) = ax
  BY Axis DEF Step
<1>2. Calm(e, tab, mode, k, o) /\ OthersInv(e, tab, mode, ax)
  BY <1>1, CalmAt, AllAndOthers DEF Starts
<1>3. e \in EngineState /\ c.held \subseteq Slots
  BY DEF Starts, EngineInv
<1>4. IsRecorded(e, a, k, o, c)
  BY <1>1, <1>3, RecordedStep
<1>5. HandleKeyDown(e, k, TRUE, c) =
        IF ResolveAxis(a, ax, TRUE, c).axisState[ax] = ax THEN ResolveAxis(a, ax, TRUE, c)
        ELSE Engage(ResolveAxis(a, ax, TRUE, c), k, c)
  BY DEF HandleKeyDown, Recorded
<1> HIDE DEF o, a
<1>6. a.axisState[ax] = {} /\ a.phys \intersect ax = {k} /\ o \notin a.phys
  BY <1>1, <1>2, <1>4, ZenonT(60) DEF Calm, IsRecorded, Step, o
<1>7. ResolveAxis(a, ax, TRUE, c) = f
  <2>1. (CHOOSE x \in {k} : TRUE) = k
    OBVIOUS
  <2>2. {k} # ax /\ Opposite[k] = o
    BY <1>1, Zenon DEF Step
  <2>3. ResolveAxis(a, ax, TRUE, c) = CancelStaleCounterStrafe(m, o)
    BY <1>6, <2>1, <2>2 DEF ResolveAxis, Moved
  <2>4. o \notin m.phys
    BY <1>1, <1>4, <1>6, MovedStep DEF IsMoved, Ended, IsRecorded, OnlyAxis
  <2> QED BY <2>3, <2>4, Zenon DEF CancelStaleCounterStrafe
<1>8. IsMoved(a, m, k, o)
  BY <1>1, <1>4, MovedStep DEF IsRecorded, OnlyAxis
<1> HIDE DEF m
<1>9. IsStop(m, s, o, k)
  BY <1>1, <1>8, StopStep DEF IsMoved, Ended, OnlyAxis
<1> HIDE DEF s
<1>10. IsRelease(s, f, o, k)
  BY <1>1, <1>9, ReleaseStep DEF IsStop, OnlyAxis
<1> HIDE DEF f
<1>11. IsEngage(f, r, k, o, c)
  BY <1>1, <1>10, EngageStep DEF IsRelease, OnlyAxis
<1>12. HandleKeyDown(e, k, TRUE, c) = r
  <2>1. f.axisState[ax] = {k} /\ {k} # ax
    BY <1>1, <1>6, <1>8, <1>9, <1>10, Zenon DEF IsMoved, IsStop, IsRelease, SameKeys, Step
  <2> QED BY <1>5, <1>7, <2>1, Zenon
<1> HIDE DEF r
<1>13. OnlyAxis(e, s, ax)
  BY <1>1, <1>4, <1>8, <1>9, OnlyAxisTrans DEF IsRecorded, IsMoved, Ended, IsStop
<1>14. OnlyAxis(e, r, ax)
  BY <1>1, <1>10, <1>11, <1>13, OnlyAxisTrans DEF IsRelease, IsEngage, IsPress
<1>15. r.suspended = e.suspended /\ r.expired = e.expired
  BY <1>14 DEF OnlyAxis
<1>16. /\ s.phys = e.phys \union {k} /\ s.last[ax] = k /\ s.socd[ax] = NoTimer
       /\ s.axisState[ax] = {k} /\ s.expect[o] = NoTimer
       /\ s.expect[k] = NoTimer \/ (s.expect[k] = e.expect[k] /\ s.armed[k] = e.armed[k])
       /\ ~Falls(s.out, k) /\ ~Falls(s.out, o) /\ ~Presses(s.out, k) /\ ~Presses(s.out, o)
       /\ FallsFirst(s.out, o, k) /\ FallsFirst(s.out, k, o)
       /\ (k \in tab.held => k \in s.logical) /\ (o \in tab.held => o \in s.logical)
  <2>1. /\ a.phys = e.phys \union {k} /\ a.last[ax] = k /\ a.socd[ax] = NoTimer
        /\ a.expect[k] = NoTimer \/ (a.expect[k] = e.expect[k] /\ a.armed[k] = e.armed[k])
        /\ a.out = e.out
        /\ (k \in tab.held => k \in a.logical) /\ (o \in tab.held => o \in a.logical)
    BY <1>1, <1>2, <1>4, Zenon DEF Calm, IsRecorded, Step, Starts
  <2>2. /\ m.phys = a.phys /\ m.last[ax] = a.last[ax] /\ m.socd[ax] = NoTimer
        /\ m.axisState[ax] = {k} /\ m.expect[k] = a.expect[k] /\ m.armed[k] = a.armed[k]
        /\ SameBatch(a, m, k, o)
    BY <1>6, <1>8, <2>1 DEF IsMoved, Ended
  <2> QED BY <1>2, <1>9, <2>1, <2>2, Zenon DEF IsStop, SameKeys, SameBatch, Calm
<1>17. /\ r.phys = s.phys /\ r.last[ax] = k /\ r.socd[ax] = NoTimer
       /\ r.axisState[ax] = {k} /\ r.expect[o] = NoTimer
       /\ r.expect[k] = s.expect[k] /\ r.armed[k] = s.armed[k]
       /\ o \in tab.held => Falls(r.out, o)
       /\ ~Presses(r.out, o)
       /\ Presses(r.out, k) => o \notin tab.held \/ FallsFirst(r.out, o, k)
  BY <1>10, <1>11, <1>16
     DEF IsRelease, IsEngage, IsPress, SameKeys, SameTimers, Step
<1>18. ExpectedComes(r, k) /\ ExpectedComes(r, o)
  BY <1>2, <1>15, <1>16, <1>17, StillComes DEF Calm
<1>19. Good(r, tab, mode, k, o)
  <2>1. k # o /\ k \in r.phys /\ o \notin r.phys /\ r.phys \intersect {k, o} = {k} /\ ~r.suspended
    BY <1>1, <1>15, <1>16, <1>17 DEF Step, o
  <2> QED BY <1>1, <1>17, <1>18, <2>1 DEF Good
<1> QED BY <1>1, <1>2, <1>12, <1>14, <1>19, GoodKeeps

\* HandleKeyDown of the second key of its axis: the newer key wins, at once or
\* after the overlap.
LEMMA DownConflictKeeps ==
  ASSUME NEW e, NEW tab, NEW mode, NEW c, Starts(e, tab, mode, c),
         NEW k \in Keys, k \notin e.phys, Opposite[k] \in e.phys, ~e.suspended
  PROVE  EngineInv(HandleKeyDown(e, k, TRUE, c), tab, mode)
<1> DEFINE o  == Opposite[k]
           ax == AxisOf(k)
           a  == Recorded(e, k, c)
           m  == Moved(a, ax)
           d  == DisarmAll(m, ax)
           overlap == c.mode = "HUMANIZED" /\ o \in d.logical /\ o \notin c.refused
           t  == ScheduleTimer(d, o)
           x  == Expect(t, o, c.target)
           h  == [x EXCEPT !.socd[ax] = t.armed[o]]
           f  == ReleaseIfDown(d, o)
           r  == HandleKeyDown(e, k, TRUE, c)
<1>1. Step(k, o) /\ Step(o, k) /\ ax = {k, o} /\ AxisOf(o) = ax /\ ax \in Axes
  BY Axis DEF Step
<1>2. Calm(e, tab, mode, k, o) /\ OthersInv(e, tab, mode, ax)
  BY <1>1, CalmAt, AllAndOthers DEF Starts
<1>3. e \in EngineState /\ c.held \subseteq Slots /\ c.target \in Identity /\ c.mode = mode
  BY DEF Starts, EngineInv
<1>4. IsRecorded(e, a, k, o, c)
  BY <1>1, <1>3, RecordedStep
<1>5. r = IF ResolveAxis(a, ax, TRUE, c).axisState[ax] = ax THEN ResolveAxis(a, ax, TRUE, c)
          ELSE Engage(ResolveAxis(a, ax, TRUE, c), k, c)
  BY DEF HandleKeyDown, Recorded
<1> HIDE DEF r, a
<1>6. IsMoved(a, m, k, o)
  BY <1>1, <1>4, MovedStep DEF IsRecorded, OnlyAxis
<1>7. a.phys = e.phys \union {k} /\ a.phys \intersect ax = ax /\ a.last[ax] = k
  BY <1>1, <1>4 DEF IsRecorded, Step
<1>8. ResolveAxis(a, ax, TRUE, c) = ResolveConflict(m, ax, TRUE, c)
  <2>1. ax # {}
    BY <1>1
  <2> QED BY <1>7, <2>1 DEF ResolveAxis, Moved
<1>9. m.last[ax] = k
  BY <1>6, <1>7 DEF IsMoved, Ended
<1> HIDE DEF m
<1>10. IsDisarm(m, d, k, o) /\ d.logical = m.logical
  <2>1. m \in EngineState
    BY <1>6 DEF IsMoved, Ended, OnlyAxis
  <2>2. IsDisarm(m, d, k, o)
    BY <1>1, <2>1, DisarmStep
  <2> HIDE DEF d
  <2> QED BY <2>2 DEF IsDisarm, SameBatch
<1>11. ResolveAxis(a, ax, TRUE, c) =
         IF c.mode = "OFF" THEN d ELSE PressIfUp(IF overlap THEN h ELSE f, k)
  BY <1>8, <1>9, <1>10 DEF ResolveConflict
<1> HIDE DEF d
<1>12. OnlyAxis(e, d, ax)
  BY <1>4, <1>6, <1>10, OnlyAxisTrans DEF IsRecorded, IsMoved, Ended, IsDisarm
<1>13. d.suspended = e.suspended /\ d.expired = e.expired /\ d \in EngineState
  BY <1>12 DEF OnlyAxis
<1>14. /\ d.phys = e.phys \union {k} /\ d.last[ax] = k /\ d.socd[ax] = NoTimer
       /\ d.axisState[ax] = ax /\ d.expect[o] = NoTimer /\ d.expect[k] = NoTimer
       /\ ~Falls(d.out, k) /\ ~Falls(d.out, o) /\ ~Presses(d.out, k) /\ ~Presses(d.out, o)
       /\ FallsFirst(d.out, o, k) /\ FallsFirst(d.out, k, o)
       /\ (k \in tab.held => k \in d.logical) /\ (o \in tab.held => o \in d.logical)
  <2>1. /\ a.out = e.out
        /\ (k \in tab.held => k \in a.logical) /\ (o \in tab.held => o \in a.logical)
    BY <1>1, <1>2, <1>4 DEF Calm, IsRecorded, Step, Starts
  <2>2. /\ m.phys = a.phys /\ m.last[ax] = a.last[ax] /\ m.socd[ax] = NoTimer
        /\ m.axisState[ax] = ax /\ SameBatch(a, m, k, o)
    BY <1>6, <1>7 DEF IsMoved, Ended
  <2> QED BY <1>2, <1>7, <1>10, <2>1, <2>2 DEF IsDisarm, SameKeys, SameBatch, Calm
<1>15. /\ k \in tab.held => k \in tab.pending
       /\ ~e.suspended /\ k # o /\ k \in d.phys /\ o \in d.phys /\ d.phys \intersect {k, o} = {k, o}
  BY <1>1, <1>2, <1>14 DEF Calm, Step
<1>16. CASE c.mode = "OFF"
  <2>1. r = d
    BY <1>5, <1>11, <1>14, <1>16
  <2>2. ExpectedComes(d, k) /\ ExpectedComes(d, o)
    BY <1>14 DEF ExpectedComes
  <2>3. Good(d, tab, mode, k, o)
    BY <1>1, <1>13, <1>14, <1>15, <2>2 DEF Good
  <2> QED BY <1>1, <1>2, <1>12, <2>1, <2>3, GoodKeeps DEF r
<1>17. CASE c.mode # "OFF" /\ overlap
  <2> DEFINE p == PressIfUp(h, k)
  <2>1. IsSchedule(d, t, o, k) /\ t \in EngineState
    <3>1. Len(d.expired) <= MaxExpired
      BY <1>2, <1>13 DEF Calm
    <3> QED BY <1>1, <1>13, <3>1, ScheduleStep DEF IsSchedule, OnlyAxis
  <2> HIDE DEF t
  <2>2. IsExpect(t, x, o, k) /\ x \in EngineState
    BY <1>1, <1>3, <2>1, ExpectStep DEF IsExpect, OnlyAxis
  <2> HIDE DEF x
  <2>3. /\ h \in EngineState
        /\ h.phys = x.phys /\ h.native = x.native /\ h.axisState = x.axisState
        /\ h.last = x.last /\ h.logical = x.logical /\ h.out = x.out
        /\ h.suspended = x.suspended /\ h.expired = x.expired
        /\ h.expect = x.expect /\ h.armed = x.armed
        /\ \A y \in Axes : h.socd[y] = IF y = ax THEN t.armed[o] ELSE x.socd[y]
    <3>1. t.armed[o] \in TimerRef
      BY <1>1, <2>1 DEF EngineState, Step
    <3> QED BY <1>1, <2>2, <3>1 DEF EngineState
  <2> HIDE DEF h
  <2>4. OnlyAxis(x, h, ax)
    <3>1. \A j \in Keys \ ax : AxisOf(j) # ax /\ AxisOf(j) \in Axes
      BY <1>1, Apart
    <3> QED BY <2>3, <3>1 DEF OnlyAxis
  <2>5. IsPress(h, p, k, o)
    BY <1>1, <2>3, PressStep
  <2>6. r = p
    <3>1. p.axisState[ax] = ax
      BY <1>14, <2>1, <2>2, <2>3, <2>5 DEF IsSchedule, IsExpect, IsPress, SameKeys
    <3> QED BY <1>5, <1>11, <1>17, <3>1
  <2> HIDE DEF p
  <2>7. OnlyAxis(d, x, ax)
    BY <1>1, <2>1, <2>2, OnlyAxisTrans DEF IsSchedule, IsExpect
  <2>8. OnlyAxis(e, p, ax)
    BY <1>12, <2>4, <2>5, <2>7, OnlyAxisTrans DEF IsPress
  <2>9. p.suspended = e.suspended /\ p.expired = e.expired
    BY <2>8 DEF OnlyAxis
  <2>10. /\ h.phys = d.phys /\ h.last[ax] = k /\ h.socd[ax] = h.expect[o]
         /\ h.axisState[ax] = ax /\ h.expect[k] = NoTimer /\ h.expect[o] # NoTimer
         /\ h.armed[o] = h.expect[o]
         /\ ~Falls(h.out, k) /\ ~Falls(h.out, o) /\ ~Presses(h.out, k) /\ ~Presses(h.out, o)
    BY <1>1, <1>14, <2>1, <2>2, <2>3, ZenonT(60) DEF IsSchedule, IsExpect, SameKeys, SameBatch
  <2>11. /\ p.phys = d.phys /\ p.last[ax] = k /\ p.socd[ax] = p.expect[o]
         /\ p.axisState[ax] = ax /\ p.expect[k] = NoTimer /\ p.expect[o] # NoTimer
         /\ p.armed[o] = p.expect[o]
         /\ ~Presses(p.out, o)
    BY <2>5, <2>10 DEF IsPress, SameKeys, SameTimers
  <2>12. ExpectedComes(p, k) /\ ExpectedComes(p, o)
    BY <2>11 DEF ExpectedComes
  <2>13. Good(p, tab, mode, k, o)
    BY <1>1, <1>3, <1>15, <1>17, <2>9, <2>11, <2>12 DEF Good
  <2> QED BY <1>1, <1>2, <2>6, <2>8, <2>13, GoodKeeps DEF r
<1>18. CASE c.mode # "OFF" /\ ~overlap
  <2> DEFINE p == PressIfUp(f, k)
  <2>1. IsRelease(d, f, o, k) /\ f \in EngineState
    BY <1>1, <1>13, ReleaseStep DEF IsRelease, OnlyAxis
  <2> HIDE DEF f
  <2>2. IsPress(f, p, k, o)
    BY <1>1, <2>1, PressStep
  <2>3. r = p
    <3>1. p.axisState[ax] = ax
      BY <1>14, <2>1, <2>2 DEF IsRelease, IsPress, SameKeys
    <3> QED BY <1>5, <1>11, <1>18, <3>1
  <2> HIDE DEF p
  <2>4. OnlyAxis(e, p, ax)
    BY <1>1, <1>12, <2>1, <2>2, OnlyAxisTrans DEF IsPress, IsRelease
  <2>5. p.suspended = e.suspended /\ p.expired = e.expired
    BY <2>4 DEF OnlyAxis
  <2>6. /\ p.phys = d.phys /\ p.last[ax] = k /\ p.socd[ax] = NoTimer
        /\ p.axisState[ax] = ax /\ p.expect[k] = NoTimer /\ p.expect[o] = NoTimer
        /\ o \in tab.held => Falls(p.out, o)
        /\ ~Presses(p.out, o)
        /\ Presses(p.out, k) => o \notin tab.held \/ FallsFirst(p.out, o, k)
    BY <1>14, <2>1, <2>2 DEF IsRelease, IsPress, SameKeys, SameTimers
  <2>7. ExpectedComes(p, k) /\ ExpectedComes(p, o)
    BY <2>6 DEF ExpectedComes
  <2>8. Good(p, tab, mode, k, o)
    BY <1>1, <1>15, <2>5, <2>6, <2>7, Zenon DEF Good
  <2> QED BY <1>1, <1>2, <2>3, <2>4, <2>8, GoodKeeps DEF r
<1> QED BY <1>16, <1>17, <1>18 DEF r

\* Nobody holds a key of the axis and the keys opposite are let go of.
Lifting(u, tab, k, o) ==
  /\ u \in EngineState /\ Len(u.expired) <= MaxExpired
  /\ ~Falls(u.out, k) /\ ~Falls(u.out, o) /\ ~Presses(u.out, k) /\ ~Presses(u.out, o)
  /\ ExpectedComes(u, k) /\ ExpectedComes(u, o)
  /\ u.expect[o] = NoTimer
  /\ k \in tab.held => k \in u.logical
  /\ o \in tab.held => o \in u.logical /\ o \in tab.pending

\* Whatever an axis holds will end, though nobody holds a key of it.
Ends(r, tab, k, o) ==
  /\ ExpectedComes(r, k) /\ ExpectedComes(r, o)
  /\ k \in tab.held => k \in tab.pending \/ r.expect[k] # NoTimer \/ Falls(r.out, k)
  /\ o \in tab.held => o \in tab.pending \/ r.expect[o] # NoTimer \/ Falls(r.out, o)
  /\ Presses(r.out, k) => r.expect[k] # NoTimer
  /\ Presses(r.out, o) => r.expect[o] # NoTimer
  /\ ~(Presses(r.out, k) /\ Presses(r.out, o))

\* A brake of rel: its own timer or its release, then the counter key's.
BrakeOf(e, rel, c) ==
  LET counter == Opposite[rel]
      overlap == c.overlap /\ rel \in e.logical
      first   == IF overlap THEN ScheduleTimer(e, rel) ELSE e
      both    == ScheduleTimer(first, counter)
      freed   == IF overlap THEN Expect(both, rel, c.target)
                 ELSE ReleaseIfDown([both EXCEPT !.expect[rel] = NoTimer], rel)
  IN  Expect(PressIfUp(freed, counter), counter, c.target)

\* A brake that starts leaves nothing held that no timer ends.
LEMMA BrakeOfEnds ==
  ASSUME NEW u \in EngineState, Len(u.expired) <= MaxExpired, NEW c, c.target \in Identity,
         NEW tab, NEW k, NEW o, Step(k, o), Step(o, k),
         ~Falls(u.out, k), ~Falls(u.out, o), ~Presses(u.out, k), ~Presses(u.out, o),
         k \in tab.held => k \in u.logical, o \in tab.held => o \in u.logical
  PROVE  LET r == BrakeOf(u, k, c)
         IN  OnlyAxis(u, r, AxisOf(k)) /\ SameKeys(u, r) /\ Ends(r, tab, k, o)
<1> DEFINE ax == AxisOf(k)
           overlap == c.overlap /\ k \in u.logical
           i == IF overlap THEN ScheduleTimer(u, k) ELSE u
           b == ScheduleTimer(i, o)
           x == Expect(b, k, c.target)
           n == [b EXCEPT !.expect[k] = NoTimer]
           f == ReleaseIfDown(n, k)
           z == IF overlap THEN x ELSE f
           p == PressIfUp(z, o)
           r == Expect(p, o, c.target)
<1>1. k \in Keys /\ o \in Keys /\ k # o /\ ax = {k, o} /\ AxisOf(o) = ax /\ Opposite[k] = o
  BY Zenon DEF Step
<1>2. BrakeOf(u, k, c) = r
  BY <1>1 DEF BrakeOf
<1>3. OnlyAxis(u, u, ax) /\ SameKeys(u, u) /\ SameBatch(u, u, k, o)
  BY DEF OnlyAxis, SameKeys, SameBatch
<1>4. /\ OnlyAxis(u, i, ax) /\ SameKeys(u, i) /\ SameBatch(u, i, k, o)
      /\ overlap => i.armed[k] # NoTimer
  <2>1. IsSchedule(u, ScheduleTimer(u, k), k, o)
    BY ScheduleStep
  <2> QED BY <1>3, <2>1 DEF IsSchedule
<1> HIDE DEF i
<1>5. i \in EngineState /\ Len(i.expired) <= MaxExpired
  BY <1>4 DEF OnlyAxis
<1>6. IsSchedule(i, b, o, k)
  BY <1>1, <1>5, ScheduleStep
<1> HIDE DEF b
<1>7. b \in EngineState
  BY <1>6 DEF IsSchedule, OnlyAxis
<1>8. IsExpect(b, x, k, o)
  BY <1>7, ExpectStep
<1> HIDE DEF x
<1>9. /\ n \in EngineState
      /\ n.phys = b.phys /\ n.native = b.native /\ n.axisState = b.axisState
      /\ n.last = b.last /\ n.socd = b.socd /\ n.logical = b.logical /\ n.out = b.out
      /\ n.suspended = b.suspended /\ n.expired = b.expired /\ n.armed = b.armed
      /\ \A j \in Keys : n.expect[j] = IF j = k THEN NoTimer ELSE b.expect[j]
  BY <1>1, <1>7 DEF EngineState, TimerRef
<1> HIDE DEF n
<1>10. \A j \in Keys \ ax : j # k
  BY <1>1
<1>11. OnlyAxis(b, n, ax) /\ SameKeys(b, n)
  BY <1>9, <1>10 DEF OnlyAxis, SameKeys
<1>12. IsRelease(n, f, k, o)
  BY <1>9, ReleaseStep
<1> HIDE DEF f
<1>13. OnlyAxis(u, b, ax) /\ SameKeys(u, b)
  BY <1>1, <1>4, <1>6, OnlyAxisTrans DEF IsSchedule, SameKeys
<1>14. OnlyAxis(b, z, ax) /\ SameKeys(b, z)
  <2>1. OnlyAxis(b, f, ax) /\ SameKeys(b, f)
    BY <1>11, <1>12, OnlyAxisTrans DEF IsRelease, SameKeys
  <2> QED BY <1>8, <2>1 DEF IsExpect
<1>15. /\ ~Presses(b.out, k) /\ ~Presses(b.out, o) /\ ~Falls(b.out, k) /\ ~Falls(b.out, o)
       /\ (k \in tab.held => k \in b.logical) /\ (o \in tab.held => o \in b.logical)
       /\ b.armed[o] # NoTimer /\ b.armed[k] = i.armed[k]
  BY <1>4, <1>6 DEF IsSchedule, SameBatch
<1>16. /\ ~Presses(z.out, k) /\ ~Presses(z.out, o)
       /\ k \in tab.held => z.expect[k] # NoTimer \/ Falls(z.out, k)
       /\ z.expect[k] = NoTimer \/ z.expect[k] = z.armed[k]
       /\ z.armed[o] # NoTimer
  <2>1. CASE overlap
    BY <1>4, <1>8, <1>15, <2>1 DEF IsExpect, SameBatch
  <2>2. CASE ~overlap
    BY <1>1, <1>9, <1>12, <1>15, <2>2 DEF IsRelease, SameTimers
  <2> QED BY <2>1, <2>2
<1> HIDE DEF z
<1>17. IsPress(z, p, o, k)
  BY <1>14, PressStep DEF OnlyAxis
<1> HIDE DEF p
<1>18. IsExpect(p, r, o, k)
  BY <1>17, ExpectStep DEF IsPress, OnlyAxis
<1> HIDE DEF r
<1>19. OnlyAxis(u, r, ax)
  BY <1>1, <1>13, <1>14, <1>17, <1>18, OnlyAxisTrans DEF IsPress, IsExpect
<1>20. SameKeys(u, r)
  BY <1>13, <1>14, <1>17, <1>18 DEF IsPress, IsExpect, SameKeys
<1>21. /\ ~Presses(r.out, k)
       /\ k \in tab.held => r.expect[k] # NoTimer \/ Falls(r.out, k)
       /\ r.expect[k] = NoTimer \/ r.expect[k] = r.armed[k]
       /\ r.expect[o] # NoTimer /\ r.expect[o] = r.armed[o]
  BY <1>16, <1>17, <1>18 DEF IsPress, IsExpect, SameTimers, SameBatch
<1>22. Ends(r, tab, k, o)
  BY <1>21, Zenon DEF Ends, ExpectedComes
<1> QED BY <1>2, <1>19, <1>20, <1>22, Zenon

\* What AutoCounterStrafe leaves, with the release it leaves to its caller.
Braked(u, k, c) ==
  LET brake == AutoCounterStrafe(u, k, c)
  IN  IF brake[1] THEN brake[2] ELSE ReleaseIfDown(brake[2], k)

\* Nor does AutoCounterStrafe, whether the brake starts or the key is released.
LEMMA BrakedEnds ==
  ASSUME NEW u, NEW tab, NEW k, NEW o, Step(k, o), Step(o, k), Lifting(u, tab, k, o),
         k \in u.logical => u.expect[k] = NoTimer,
         NEW c, c.target \in Identity, c.travel \in {k, o, NoKey}
  PROVE  LET r == Braked(u, k, c)
         IN  OnlyAxis(u, r, AxisOf(k)) /\ SameKeys(u, r) /\ Ends(r, tab, k, o)
<1> DEFINE ax == AxisOf(k)
           rel == c.travel
           overlap == c.overlap /\ rel \in u.logical
           refused == NoBrake(u, k, c) \/ (overlap /\ rel \in c.refused)
           w == CancelTimer(ScheduleTimer(u, rel), rel)
           r == Braked(u, k, c)
<1>1. k \in Keys /\ o \in Keys /\ k # o /\ ax = {k, o} /\ AxisOf(o) = ax
      /\ Opposite[k] = o /\ Opposite[o] = k
  BY Zenon DEF Step
<1>2. u \in EngineState /\ Len(u.expired) <= MaxExpired
  BY DEF Lifting
<1>3. ASSUME NEW q \in EngineState, OnlyAxis(u, q, ax), SameKeys(u, q), SameBatch(u, q, k, o),
             ExpectedComes(q, k), ExpectedComes(q, o)
      PROVE  LET s == ReleaseIfDown(q, k)
             IN  OnlyAxis(u, s, ax) /\ SameKeys(u, s) /\ Ends(s, tab, k, o)
  <2> DEFINE s == ReleaseIfDown(q, k)
  <2>1. IsRelease(q, s, k, o)
    BY ReleaseStep
  <2> HIDE DEF s
  <2>2. OnlyAxis(u, s, ax) /\ SameKeys(u, s)
    BY <1>3, <2>1, OnlyAxisTrans DEF IsRelease, SameKeys
  <2>3. ExpectedComes(s, k) /\ ExpectedComes(s, o)
    BY <1>3, <2>1, StillComes DEF IsRelease, SameTimers, OnlyAxis
  <2>4. Ends(s, tab, k, o)
    BY <1>3, <2>1, <2>3 DEF Ends, IsRelease, SameBatch, Lifting
  <2> QED BY <2>2, <2>4 DEF s
<1>4. CASE refused
  <2>1. AutoCounterStrafe(u, k, c) = <<FALSE, u>>
    BY <1>4 DEF AutoCounterStrafe
  <2>2. OnlyAxis(u, u, ax) /\ SameKeys(u, u) /\ SameBatch(u, u, k, o)
    BY <1>2 DEF OnlyAxis, SameKeys, SameBatch
  <2>3. r = ReleaseIfDown(u, k)
    BY <2>1 DEF Braked
  <2>4. ExpectedComes(u, k) /\ ExpectedComes(u, o)
    BY DEF Lifting
  <2> HIDE DEF r
  <2> QED BY <1>2, <1>3, <2>2, <2>3, <2>4 DEF r
<1>5. CASE ~refused /\ Opposite[rel] \in c.refused /\ ~overlap
  <2>1. AutoCounterStrafe(u, k, c) = <<FALSE, u>>
    BY <1>5 DEF AutoCounterStrafe
  <2>2. OnlyAxis(u, u, ax) /\ SameKeys(u, u) /\ SameBatch(u, u, k, o)
    BY <1>2 DEF OnlyAxis, SameKeys, SameBatch
  <2>3. r = ReleaseIfDown(u, k)
    BY <2>1 DEF Braked
  <2>4. ExpectedComes(u, k) /\ ExpectedComes(u, o)
    BY DEF Lifting
  <2> HIDE DEF r
  <2> QED BY <1>2, <1>3, <2>2, <2>3, <2>4 DEF r
<1>6. ~refused => rel \in {k, o}
  BY DEF NoBrake
<1>7. CASE ~refused /\ Opposite[rel] \in c.refused /\ overlap
  <2>1. AutoCounterStrafe(u, k, c) = <<FALSE, w>>
    BY <1>7 DEF AutoCounterStrafe
  <2>2. r = ReleaseIfDown(w, k)
    BY <2>1 DEF Braked
  <2>3. PICK cnt \in {k, o} : Step(rel, cnt) /\ AxisOf(rel) = ax
    BY <1>1, <1>6, <1>7
  <2> DEFINE i == ScheduleTimer(u, rel)
  <2>4. IsSchedule(u, i, rel, cnt)
    BY <1>2, <2>3, ScheduleStep, Zenon
  <2> HIDE DEF i
  <2>5. rel \in Keys /\ rel # cnt /\ i \in EngineState
    BY <2>3, <2>4, Zenon DEF Step, IsSchedule, OnlyAxis
  <2>6. /\ w \in EngineState
        /\ w.phys = i.phys /\ w.native = i.native /\ w.axisState = i.axisState
        /\ w.last = i.last /\ w.socd = i.socd /\ w.logical = i.logical /\ w.out = i.out
        /\ w.suspended = i.suspended /\ w.expired = i.expired /\ w.expect = i.expect
        /\ \A j \in Keys : w.armed[j] = IF j = rel THEN NoTimer ELSE i.armed[j]
    BY <2>5 DEF CancelTimer, EngineState, TimerRef, i
  <2> HIDE DEF w
  <2>7. \A j \in Keys \ ax : j # rel
    BY <1>1, <1>6, <1>7
  <2>8. OnlyAxis(i, w, ax)
    BY <2>6, <2>7 DEF OnlyAxis
  <2>9. OnlyAxis(u, w, ax) /\ SameKeys(u, w)
    BY <2>3, <2>4, <2>6, <2>8, OnlyAxisTrans DEF IsSchedule, SameKeys
  <2>10. SameBatch(u, w, k, o)
    BY <1>1, <1>6, <1>7, <2>3, <2>4, <2>6, ZenonT(60) DEF IsSchedule, SameBatch, Step
  <2>11. w.expect[rel] = NoTimer /\ w.expect[cnt] = u.expect[cnt] /\ w.armed[cnt] = u.armed[cnt]
         /\ w.expired = u.expired
    <3>1. u.expect[rel] = NoTimer
      BY <1>6, <1>7 DEF Lifting
    <3>2. cnt \in Keys
      BY <1>1, <2>3
    <3> QED BY <2>4, <2>5, <2>6, <3>1, <3>2 DEF IsSchedule, OnlyAxis
  <2>12. ExpectedComes(w, rel) /\ ExpectedComes(w, cnt)
    <3>1. ExpectedComes(u, cnt)
      BY <2>3 DEF Lifting
    <3> QED BY <2>11, <3>1, StillComes
  <2>13. ExpectedComes(w, k) /\ ExpectedComes(w, o)
    BY <1>1, <1>6, <1>7, <2>3, <2>5, <2>12
  <2> QED BY <1>3, <2>2, <2>6, <2>9, <2>10, <2>13
<1>8. CASE ~refused /\ Opposite[rel] \notin c.refused
  <2>1. AutoCounterStrafe(u, k, c) = <<TRUE, BrakeOf(u, rel, c)>>
    BY <1>8 DEF AutoCounterStrafe, BrakeOf
  <2>2. r = BrakeOf(u, rel, c)
    BY <2>1 DEF Braked
  <2> HIDE DEF r
  <2>3. /\ ~Falls(u.out, k) /\ ~Falls(u.out, o) /\ ~Presses(u.out, k) /\ ~Presses(u.out, o)
        /\ (k \in tab.held => k \in u.logical) /\ (o \in tab.held => o \in u.logical)
    BY DEF Lifting
  <2>4. CASE rel = k
    <3>1. OnlyAxis(u, r, ax) /\ SameKeys(u, r) /\ Ends(r, tab, k, o)
      BY <1>1, <1>2, <2>2, <2>3, <2>4, BrakeOfEnds
    <3> QED BY <3>1 DEF r
  <2>5. CASE rel = o
    <3>1. OnlyAxis(u, r, AxisOf(o)) /\ SameKeys(u, r) /\ Ends(r, tab, o, k)
      BY <1>2, <2>2, <2>3, <2>5, BrakeOfEnds
    <3>2. Ends(r, tab, k, o)
      BY <3>1 DEF Ends
    <3> QED BY <1>1, <3>1, <3>2 DEF r
  <2> QED BY <1>6, <1>8, <2>4, <2>5
<1> QED BY <1>4, <1>5, <1>7, <1>8, Zenon

\* HandleKeyUp while input is suspended: the key is forgotten.
LEMMA UpSuspendedKeeps ==
  ASSUME NEW e, NEW tab, NEW mode, NEW c, Starts(e, tab, mode, c),
         NEW k \in e.phys, e.suspended
  PROVE  EngineInv(HandleKeyUp(e, k, FALSE, c), tab, mode)
<1> DEFINE o == Opposite[k]
           r == Lifted(e, k, c)
<1>1. HandleKeyUp(e, k, FALSE, c) = r
  BY DEF HandleKeyUp, Lifted
<1>2. k \in Keys /\ e \in EngineState /\ c.held \subseteq Slots
  BY DEF Starts, EngineInv, EngineState
<1>3. Step(k, o)
  BY <1>2, Axis
<1> HIDE DEF o
<1>4. Calm(e, tab, mode, k, o) /\ OthersInv(e, tab, mode, AxisOf(k))
  BY <1>3, CalmAt, AllAndOthers DEF Starts
<1>5. IsLifted(e, r, k, o, c)
  BY <1>2, <1>3, LiftedStep
<1> HIDE DEF r
<1>6. r.suspended = e.suspended /\ r.expired = e.expired
  BY <1>5 DEF IsLifted, OnlyAxis
<1>7. ExpectedComes(r, k) /\ ExpectedComes(r, o)
  BY <1>4, <1>5, <1>6, StillComes, Zenon DEF Calm, IsLifted
<1>8. Good(r, tab, mode, k, o)
  BY <1>3, <1>4, <1>5, <1>6, <1>7, Zenon DEF Good, Calm, IsLifted, Step
<1> QED BY <1>1, <1>3, <1>4, <1>5, <1>8, GoodKeeps DEF IsLifted

\* HandleKeyUp of the only key held: a brake starts or the key is released.
LEMMA UpAloneKeeps ==
  ASSUME NEW e, NEW tab, NEW mode, NEW c, Starts(e, tab, mode, c),
         NEW k \in e.phys, Opposite[k] \notin e.phys, ~e.suspended,
         c.travel \in AxisOf(k) \union {NoKey}
  PROVE  EngineInv(HandleKeyUp(e, k, TRUE, c), tab, mode)
<1> DEFINE o  == Opposite[k]
           ax == AxisOf(k)
           u  == Lifted(e, k, c)
           b  == IF MacroBrakePending(u, k) THEN u ELSE Braked(u, k, c)
           r  == Moved(b, ax)
<1>1. HandleKeyUp(e, k, TRUE, c) = RoutedKeyUp(u, k, c)
  BY DEF HandleKeyUp, Lifted
<1>2. k \in Keys /\ e \in EngineState /\ c.held \subseteq Slots /\ c.target \in Identity
      /\ o \notin e.phys
  BY DEF Starts, EngineInv, EngineState
<1>3. Step(k, o) /\ Step(o, k) /\ ax = {k, o} /\ AxisOf(o) = ax
  BY <1>2, Axis DEF Step
<1> HIDE DEF o
<1>4. Calm(e, tab, mode, k, o) /\ OthersInv(e, tab, mode, ax)
  BY <1>3, CalmAt, AllAndOthers DEF Starts
<1>5. IsLifted(e, u, k, o, c)
  BY <1>2, <1>3, LiftedStep
<1> HIDE DEF u
<1>6. u.suspended = e.suspended /\ u.expired = e.expired /\ u \in EngineState
  BY <1>5 DEF IsLifted, OnlyAxis
<1>7. e.socd[ax] = NoTimer /\ e.expect[o] = NoTimer
  BY <1>2, <1>4 DEF Calm
<1>8. ExpectedComes(u, k) /\ ExpectedComes(u, o)
  BY <1>4, <1>5, <1>6, StillComes DEF Calm, IsLifted
<1>9. Lifting(u, tab, k, o)
  <2>1. /\ k \in tab.held => k \in u.logical
        /\ o \in tab.held => o \in u.logical
    BY <1>3, <1>4, <1>5, Zenon DEF IsLifted, Starts, Calm, Step
  <2>2. o \in tab.held => o \in tab.pending
    BY <1>2, <1>4, <1>7 DEF Calm
  <2> QED BY <1>4, <1>5, <1>6, <1>7, <1>8, <2>1, <2>2 DEF Lifting, Calm, IsLifted
<1>10. /\ u.phys = e.phys \ {k} /\ u.phys \intersect ax = {} /\ u.axisState[ax] = {k}
       /\ u.socd[ax] = NoTimer /\ u.last[ax] \in {k, o}
  BY <1>2, <1>3, <1>4, <1>5, ZenonT(60) DEF IsLifted, Calm
<1>11. OnlyAxis(u, b, ax) /\ SameKeys(u, b) /\ Ends(b, tab, k, o)
  <2>1. CASE MacroBrakePending(u, k)
    <3>1. OnlyAxis(u, u, ax) /\ SameKeys(u, u)
      BY <1>6 DEF OnlyAxis, SameKeys
    <3>2. Ends(u, tab, k, o)
      BY <1>9, <2>1 DEF Ends, Lifting, MacroBrakePending
    <3> QED BY <2>1, <3>1, <3>2
  <2>2. CASE ~MacroBrakePending(u, k)
    <3>1. k \in u.logical => u.expect[k] = NoTimer
      BY <2>2 DEF MacroBrakePending
    <3>2. c.travel \in {k, o, NoKey}
      BY <1>3
    <3>3. /\ OnlyAxis(u, Braked(u, k, c), AxisOf(k)) /\ SameKeys(u, Braked(u, k, c))
          /\ Ends(Braked(u, k, c), tab, k, o)
      BY <1>2, <1>3, <1>9, <3>1, <3>2, BrakedEnds
    <3> QED BY <2>2, <3>3
  <2> QED BY <2>1, <2>2
<1>12. RoutedKeyUp(u, k, c) = r
  <2>1. Opposite[k] \notin u.phys
    BY <1>3, <1>10 DEF o
  <2>2. RoutedKeyUp(u, k, c) = ResolveAxis(b, ax, FALSE, c)
    BY <2>1 DEF RoutedKeyUp, Braked
  <2>3. b.phys \intersect ax = {} /\ b.axisState[ax] = {k} /\ {k} # {} /\ ax # {}
    BY <1>3, <1>10, <1>11 DEF SameKeys
  <2> HIDE DEF b
  <2>4. ResolveAxis(b, ax, FALSE, c) = r
    BY <2>3 DEF ResolveAxis, Moved
  <2> QED BY <2>2, <2>4
<1> HIDE DEF b
<1>13. IsMoved(b, r, k, o)
  BY <1>3, <1>11, MovedStep DEF OnlyAxis
<1> HIDE DEF r
<1>14. OnlyAxis(e, r, ax)
  BY <1>5, <1>11, <1>13, OnlyAxisTrans DEF IsLifted, IsMoved, Ended
<1>15. r.suspended = e.suspended /\ r.expired = b.expired
  BY <1>13, <1>14 DEF OnlyAxis, IsMoved, Ended
<1>16. /\ r.phys = u.phys /\ r.last[ax] \in {k, o} /\ r.socd[ax] = NoTimer
       /\ r.axisState[ax] = {} /\ r.expect[k] = b.expect[k] /\ r.armed[k] = b.armed[k]
       /\ r.expect[o] = b.expect[o] /\ r.armed[o] = b.armed[o] /\ SameBatch(b, r, k, o)
  BY <1>10, <1>11, <1>13 DEF IsMoved, Ended, SameKeys
<1>17. ExpectedComes(r, k) /\ ExpectedComes(r, o)
  BY <1>11, <1>15, <1>16, StillComes DEF Ends
<1>18. Good(r, tab, mode, k, o)
  <2>1. k # o /\ k \notin r.phys /\ o \notin r.phys /\ r.phys \intersect {k, o} = {} /\ ~r.suspended
    BY <1>3, <1>10, <1>15, <1>16, Zenon DEF Step
  <2> QED BY <1>3, <1>11, <1>16, <1>17, <2>1, Zenon DEF Good, Ends, SameBatch
<1> QED BY <1>1, <1>3, <1>4, <1>12, <1>14, <1>18, GoodKeeps

\* HandleKeyUp while the opposite key is held: that one is engaged again.
LEMMA UpOtherHeldKeeps ==
  ASSUME NEW e, NEW tab, NEW mode, NEW c, Starts(e, tab, mode, c),
         NEW k \in e.phys, Opposite[k] \in e.phys, ~e.suspended
  PROVE  EngineInv(HandleKeyUp(e, k, TRUE, c), tab, mode)
<1> DEFINE o  == Opposite[k]
           ax == AxisOf(k)
           u  == Lifted(e, k, c)
           f  == ReleaseIfDown(u, k)
           m  == Moved(f, ax)
           r  == Engage(m, o, c)
<1>1. HandleKeyUp(e, k, TRUE, c) = RoutedKeyUp(u, k, c)
  BY DEF HandleKeyUp, Lifted
<1>2. k \in Keys /\ e \in EngineState /\ c.held \subseteq Slots /\ o \in e.phys
  BY DEF Starts, EngineInv, EngineState
<1>3. Step(k, o) /\ Step(o, k) /\ ax = {k, o} /\ AxisOf(o) = ax /\ Opposite[k] = o
  BY <1>2, Axis DEF Step
<1> HIDE DEF o
<1>4. Calm(e, tab, mode, k, o) /\ OthersInv(e, tab, mode, ax)
  BY <1>3, CalmAt, AllAndOthers DEF Starts
<1>5. IsLifted(e, u, k, o, c)
  BY <1>2, <1>3, LiftedStep
<1> HIDE DEF u
<1>6. u.suspended = e.suspended /\ u.expired = e.expired /\ u \in EngineState
  BY <1>5 DEF IsLifted, OnlyAxis
<1>7. /\ u.phys = e.phys \ {k} /\ u.phys \intersect ax = {o} /\ u.axisState[ax] = ax
      /\ u.socd[ax] = NoTimer /\ u.last[ax] \in {k, o}
      /\ u.expect[k] = NoTimer /\ u.expect[o] = NoTimer
      /\ k \in tab.held => k \in u.logical
      /\ o \in tab.held => o \in u.logical
      /\ ~Falls(u.out, k) /\ ~Falls(u.out, o) /\ ~Presses(u.out, k) /\ ~Presses(u.out, o)
      /\ FallsFirst(u.out, o, k) /\ FallsFirst(u.out, k, o)
  <2>1. /\ u.phys = e.phys \ {k} /\ u.phys \intersect ax = {o} /\ u.axisState[ax] = ax
        /\ u.socd[ax] = NoTimer /\ u.last[ax] \in {k, o}
        /\ u.expect[k] = NoTimer /\ u.expect[o] = NoTimer
    BY <1>2, <1>3, <1>4, <1>5, ZenonT(60) DEF IsLifted, Calm, Step
  <2>2. /\ k \in tab.held => k \in u.logical
        /\ o \in tab.held => o \in u.logical
    BY <1>3, <1>4, <1>5, Zenon DEF IsLifted, Starts, Calm, Step
  <2> QED BY <1>4, <1>5, <2>1, <2>2, Zenon DEF IsLifted, Calm
<1>8. RoutedKeyUp(u, k, c) = ResolveAxis(f, ax, FALSE, c)
  <2>1. Opposite[k] \in u.phys /\ ~MacroBrakePending(u, k)
    BY <1>3, <1>7 DEF MacroBrakePending
  <2> QED BY <2>1 DEF RoutedKeyUp
<1>9. IsRelease(u, f, k, o)
  BY <1>3, <1>6, ReleaseStep
<1> HIDE DEF f
<1>10. IsMoved(f, m, k, o)
  BY <1>3, <1>9, MovedStep, Zenon DEF IsRelease, OnlyAxis
<1>11. ResolveAxis(f, ax, FALSE, c) = r
  <2>1. f.phys \intersect ax = {o} /\ f.axisState[ax] = ax /\ {o} # ax /\ {o} # {}
    BY <1>3, <1>7, <1>9, Zenon DEF IsRelease, SameKeys, Step
  <2>2. (CHOOSE x \in {o} : TRUE) = o
    OBVIOUS
  <2> QED BY <2>1, <2>2, Zenon DEF ResolveAxis, Moved
<1> HIDE DEF m
<1>12. IsEngage(m, r, o, k, c)
  BY <1>3, <1>10, EngageStep DEF IsMoved, Ended, OnlyAxis
<1> HIDE DEF r
<1>13. OnlyAxis(e, r, ax)
  BY <1>3, <1>5, <1>9, <1>10, <1>12, OnlyAxisTrans
     DEF IsLifted, IsRelease, IsMoved, Ended, IsEngage, IsPress
<1>14. r.suspended = e.suspended
  BY <1>13 DEF OnlyAxis
<1>15. /\ m.phys = u.phys /\ m.last[ax] \in {k, o} /\ m.socd[ax] = NoTimer
       /\ m.axisState[ax] = {o} /\ m.expect[k] = NoTimer /\ m.expect[o] = NoTimer
       /\ k \in tab.held => Falls(m.out, k)
       /\ ~Presses(m.out, k) /\ ~Presses(m.out, o)
       /\ FallsFirst(m.out, k, o)
  BY <1>7, <1>9, <1>10 DEF IsRelease, IsMoved, Ended, SameKeys, SameTimers, SameBatch
<1>16. /\ r.phys = u.phys /\ r.last[ax] \in {k, o} /\ r.socd[ax] = NoTimer
       /\ r.axisState[ax] = {o} /\ r.expect[k] = NoTimer /\ r.expect[o] = NoTimer
       /\ k \in tab.held => Falls(r.out, k)
       /\ ~Presses(r.out, k)
       /\ Presses(r.out, o) => k \notin tab.held \/ FallsFirst(r.out, k, o)
  BY <1>3, <1>12, <1>15, Zenon DEF IsEngage, IsPress, SameKeys, SameTimers
<1>17. ExpectedComes(r, k) /\ ExpectedComes(r, o)
  BY <1>16 DEF ExpectedComes
<1>18. Good(r, tab, mode, k, o)
  <2>1. k # o /\ k \notin r.phys /\ o \in r.phys /\ r.phys \intersect {k, o} = {o} /\ ~r.suspended
    BY <1>2, <1>3, <1>7, <1>14, <1>16, Zenon DEF Step
  <2> QED BY <1>3, <1>16, <1>17, <2>1, Zenon DEF Good
<1> QED BY <1>1, <1>3, <1>4, <1>8, <1>11, <1>13, <1>18, GoodKeeps

-----------------------------------------------------------------------------
(* Timers.                                                                 *)

\* Only what the timer service has queued or armed changes.
LEMMA QueueOnlyKeeps ==
  ASSUME NEW e, NEW r, NEW tab, NEW mode, NEW j, KeyInv(e, tab, mode, j),
         r.phys = e.phys, r.axisState = e.axisState, r.last = e.last, r.socd = e.socd,
         r.expect = e.expect, r.suspended = e.suspended, r.out = e.out, ExpectedComes(r, j)
  PROVE  KeyInv(r, tab, mode, j)
BY DEF KeyInv, LastIsOfAxis, KnowsAxis, OverlapIsOfLoser, BrakeYieldsToKey,
       HeldForAReason, BothHeldEnds, PressedForAReason, PressedWhenClear, OnePressed,
       SuspendedIsQuiet

\* A timer that expires is in the queue from then on.
LEMMA TimerFireKeeps ==
  ASSUME NEW e, NEW tab, NEW mode, EngineInv(e, tab, mode), NEW k \in Keys,
         e.armed[k] # NoTimer, Len(e.expired) < MaxExpired
  PROVE  EngineInv([e EXCEPT !.armed[k] = NoTimer,
                             !.expired = Append(@, <<k, e.armed[k]>>)], tab, mode)
<1> DEFINE q == Append(e.expired, <<k, e.armed[k]>>)
           r == [e EXCEPT !.armed[k] = NoTimer, !.expired = Append(@, <<k, e.armed[k]>>)]
<1>1. e \in EngineState /\ e.armed[k] \in TimerIds
  BY DEF EngineInv, EngineState, TimerRef
<1>2. e.expired \in Seq(Keys \X TimerIds) /\ <<k, e.armed[k]>> \in Keys \X TimerIds
  BY <1>1 DEF EngineState
<1>3. /\ q \in Seq(Keys \X TimerIds) /\ Len(q) = Len(e.expired) + 1
      /\ \A i \in DOMAIN e.expired : i \in DOMAIN q /\ q[i] = e.expired[i]
      /\ Len(q) \in DOMAIN q /\ q[Len(q)] = <<k, e.armed[k]>>
  BY <1>2
<1>4. Len(q) <= MaxExpired
  BY <1>2, <1>3, EngineAssumption
<1> HIDE DEF q
<1>5. /\ r \in EngineState /\ r.expired = q
      /\ r.phys = e.phys /\ r.axisState = e.axisState /\ r.last = e.last /\ r.socd = e.socd
      /\ r.expect = e.expect /\ r.suspended = e.suspended /\ r.out = e.out
      /\ \A j \in Keys : r.armed[j] = IF j = k THEN NoTimer ELSE e.armed[j]
  BY <1>1, <1>3 DEF EngineState, TimerRef, q
<1> HIDE DEF r
<1>6. ASSUME NEW j \in Keys
      PROVE  KeyInv(r, tab, mode, j)
  <2>1. KeyInv(e, tab, mode, j)
    BY DEF EngineInv
  <2>2. ExpectedComes(r, j)
    <3> SUFFICES ASSUME e.expect[j] # NoTimer
                 PROVE  \/ r.armed[j] = e.expect[j]
                        \/ \E i \in DOMAIN q : q[i] = <<j, e.expect[j]>>
      BY <1>5 DEF ExpectedComes
    <3>1. CASE e.armed[j] = e.expect[j]
      BY <1>3, <1>5, <3>1
    <3>2. CASE \E i \in DOMAIN e.expired : e.expired[i] = <<j, e.expect[j]>>
      BY <1>3, <3>2
    <3> QED BY <2>1, <3>1, <3>2 DEF KeyInv, ExpectedComes
  <2> QED BY <1>5, <2>1, <2>2, QueueOnlyKeeps
<1>7. EngineInv(r, tab, mode)
  BY <1>4, <1>5, <1>6 DEF EngineInv
<1> QED BY <1>7 DEF r

Rest(e) == [e EXCEPT !.expired = Tail(@)]

\* Taking the head of the expiry queue takes away what one key waits for.
LEMMA RestFields ==
  ASSUME NEW e, NEW tab, NEW mode, EngineInv(e, tab, mode), e.expired # <<>>
  PROVE  LET r == Rest(e) IN
         /\ r \in EngineState /\ Len(r.expired) <= MaxExpired
         /\ Head(e.expired) = <<Head(e.expired)[1], Head(e.expired)[2]>>
         /\ Head(e.expired)[1] \in Keys /\ Head(e.expired)[2] \in TimerIds
         /\ r.phys = e.phys /\ r.axisState = e.axisState /\ r.last = e.last /\ r.socd = e.socd
         /\ r.expect = e.expect /\ r.suspended = e.suspended /\ r.out = e.out
         /\ r.armed = e.armed /\ r.native = e.native /\ r.logical = e.logical
         /\ r.expectTarget = e.expectTarget
         /\ \A j \in Keys : (IsExpected(e, j, Head(e.expired)[2]) /\ j = Head(e.expired)[1])
                            \/ KeyInv(r, tab, mode, j)
<1> DEFINE q == Tail(e.expired)
           r == Rest(e)
           h == Head(e.expired)
<1>1. e \in EngineState /\ e.expired \in Seq(Keys \X TimerIds) /\ Len(e.expired) <= MaxExpired
  BY DEF EngineInv, EngineState
<1>2. /\ q \in Seq(Keys \X TimerIds) /\ Len(q) <= Len(e.expired)
      /\ h \in Keys \X TimerIds
      /\ \A i \in DOMAIN e.expired : \/ i = 1 /\ e.expired[i] = h
                                     \/ i - 1 \in DOMAIN q /\ q[i - 1] = e.expired[i]
  BY <1>1, SMTT(60)
<1>3. Len(q) <= MaxExpired
  BY <1>1, <1>2, EngineAssumption
<1>4. h = <<h[1], h[2]>> /\ h[1] \in Keys /\ h[2] \in TimerIds
  BY <1>2
<1> HIDE DEF q, h
<1>5. /\ r \in EngineState /\ r.expired = q
      /\ r.phys = e.phys /\ r.axisState = e.axisState /\ r.last = e.last /\ r.socd = e.socd
      /\ r.expect = e.expect /\ r.suspended = e.suspended /\ r.out = e.out
      /\ r.armed = e.armed /\ r.native = e.native /\ r.logical = e.logical
      /\ r.expectTarget = e.expectTarget
  BY <1>1, <1>2 DEF EngineState, Rest, q
<1> HIDE DEF r
<1>6. ASSUME NEW j \in Keys, ~(IsExpected(e, j, h[2]) /\ j = h[1])
      PROVE  KeyInv(r, tab, mode, j)
  <2>1. KeyInv(e, tab, mode, j)
    BY DEF EngineInv
  <2>2. h # <<j, e.expect[j]>>
    BY <1>4, <1>6 DEF IsExpected
  <2>3. ExpectedComes(r, j)
    BY <1>2, <1>5, <2>1, <2>2 DEF KeyInv, ExpectedComes
  <2> QED BY <1>5, <2>1, <2>3, QueueOnlyKeeps
<1> QED BY <1>3, <1>4, <1>5, <1>6 DEF r, h

\* A callback nobody waits for changes nothing.
LEMMA StaleTimerKeeps ==
  ASSUME NEW e, NEW tab, NEW mode, EngineInv(e, tab, mode), e.expired # <<>>,
         ~IsExpected(e, Head(e.expired)[1], Head(e.expired)[2])
  PROVE  EngineInv(Rest(e), tab, mode)
BY RestFields DEF EngineInv

\* OnTimerExpired: what the timer was to end ends, or is physically held.
LEMMA TimerExpiredKeeps ==
  ASSUME NEW e, NEW tab, NEW mode, NEW c, Starts(e, tab, mode, c), e.expired # <<>>,
         IsExpected(e, Head(e.expired)[1], Head(e.expired)[2])
  PROVE  EngineInv(OnTimerExpired(Rest(e), Head(e.expired)[1], Head(e.expired)[2], c),
                   tab, mode)
<1> DEFINE k  == Head(e.expired)[1]
           id == Head(e.expired)[2]
           o  == Opposite[k]
           ax == AxisOf(k)
           n  == Rest(e)
           socd == n.socd[ax] = id
           a  == [n EXCEPT !.expect[k] = NoTimer, !.expectTarget[k] = NoTarget]
           g  == IF socd THEN [a EXCEPT !.socd[ax] = NoTimer] ELSE a
           f  == IF ~socd /\ k \in n.phys THEN g ELSE ReleaseIfDown(g, k)
           r  == [f EXCEPT !.axisState[ax] = n.phys \intersect ax]
<1>1. /\ n \in EngineState /\ Len(n.expired) <= MaxExpired
      /\ n.phys = e.phys /\ n.axisState = e.axisState /\ n.last = e.last /\ n.socd = e.socd
      /\ n.expect = e.expect /\ n.suspended = e.suspended /\ n.out = e.out
      /\ n.armed = e.armed /\ n.native = e.native /\ n.logical = e.logical
  BY RestFields DEF Starts
<1>2. k \in Keys /\ id \in TimerIds /\ id # NoTimer
  BY RestFields, TimerAssumption DEF Starts
<1>3. \A j \in Keys : j = k \/ KeyInv(n, tab, mode, j)
  BY RestFields, Zenon DEF Starts
<1>4. e.expect[k] = id /\ IsExpected(n, k, id)
  BY <1>1, Zenon DEF IsExpected
<1>5. OnTimerExpired(n, k, id, c) =
        [(CASE socd -> IF /\ c.mode = "HUMANIZED" /\ ~n.suspended /\ ax \subseteq n.phys
                          /\ n.last[ax] = o
                       THEN ReleaseIfDown([a EXCEPT !.socd[ax] = NoTimer], k)
                       ELSE [a EXCEPT !.socd[ax] = NoTimer]
            [] ~socd -> IF k \notin n.phys /\ o \in n.phys
                        THEN PressIfUp(IF k \in n.phys THEN a ELSE ReleaseIfDown(a, k), o)
                        ELSE IF k \in n.phys THEN a ELSE ReleaseIfDown(a, k))
           EXCEPT !.axisState[ax] = n.phys \intersect ax]
  BY <1>4, Zenon DEF OnTimerExpired
<1> HIDE DEF k, id, n
<1>6. Step(k, o) /\ Step(o, k) /\ ax = {k, o} /\ AxisOf(o) = ax /\ ax \in Axes /\ k # o /\ o \in Keys
  BY <1>2, Axis DEF Step
<1> HIDE DEF o
<1>7. Calm(e, tab, mode, k, o) /\ c.mode = mode
  BY <1>6, CalmAt DEF Starts
<1>8. OthersInv(n, tab, mode, ax)
  BY <1>1, <1>3, <1>6 DEF OthersInv
<1>9. /\ ~e.suspended
      /\ socd => /\ c.mode = "HUMANIZED" /\ k \in e.phys /\ o \in e.phys
                 /\ n.last[ax] = o /\ e.expect[o] = NoTimer
      /\ ~socd => o \notin e.phys
  BY <1>1, <1>2, <1>4, <1>6, <1>7, Zenon DEF Calm
<1>10. OnTimerExpired(n, k, id, c) = r
  BY <1>1, <1>5, <1>6, <1>9
<1>11. /\ g \in EngineState
       /\ g.phys = n.phys /\ g.axisState = n.axisState /\ g.last = n.last
       /\ g.suspended = n.suspended /\ g.out = n.out /\ g.expired = n.expired
       /\ g.armed = n.armed /\ g.native = n.native /\ g.logical = n.logical
       /\ \A j \in Keys : g.expect[j] = IF j = k THEN NoTimer ELSE n.expect[j]
       /\ \A x \in Axes : g.socd[x] = IF socd /\ x = ax THEN NoTimer ELSE n.socd[x]
  <2>1. /\ a \in EngineState
        /\ a.phys = n.phys /\ a.axisState = n.axisState /\ a.last = n.last
        /\ a.suspended = n.suspended /\ a.out = n.out /\ a.expired = n.expired
        /\ a.armed = n.armed /\ a.native = n.native /\ a.logical = n.logical
        /\ a.socd = n.socd
        /\ \A j \in Keys : a.expect[j] = IF j = k THEN NoTimer ELSE n.expect[j]
    BY <1>1, <1>2 DEF EngineState, TimerRef, Identity
  <2> HIDE DEF a
  <2> QED BY <1>6, <2>1 DEF EngineState, TimerRef
<1> HIDE DEF g
<1>12. \A j \in Keys \ ax : j # k /\ AxisOf(j) # ax /\ AxisOf(j) \in Axes
  BY <1>6, Apart
<1>13. OnlyAxis(n, g, ax)
  BY <1>1, <1>6, <1>11, <1>12 DEF OnlyAxis
<1>14. IsRelease(g, ReleaseIfDown(g, k), k, o)
  BY <1>6, <1>11, ReleaseStep
<1>15. /\ OnlyAxis(g, f, ax) /\ SameKeys(g, f) /\ SameTimers(g, f, k, o)
       /\ ~Falls(f.out, o)
       /\ ~Presses(f.out, k) /\ ~Presses(f.out, o)
       /\ k \in tab.held => Falls(f.out, k) \/ (k \in e.phys /\ ~socd)
  <2>1. OnlyAxis(g, g, ax) /\ SameKeys(g, g) /\ SameTimers(g, g, k, o)
    BY <1>11 DEF OnlyAxis, SameKeys, SameTimers
  <2>2. CASE ~socd /\ k \in n.phys
    BY <1>1, <1>7, <1>11, <2>1, <2>2 DEF Calm
  <2>3. CASE ~(~socd /\ k \in n.phys)
    BY <1>1, <1>7, <1>11, <1>14, <2>3 DEF Calm, IsRelease
  <2> QED BY <2>2, <2>3
<1> HIDE DEF f
<1>16. /\ r \in EngineState
       /\ r.phys = f.phys /\ r.last = f.last /\ r.socd = f.socd
       /\ r.suspended = f.suspended /\ r.out = f.out /\ r.expired = f.expired
       /\ r.armed = f.armed /\ r.expect = f.expect
       /\ \A x \in Axes : r.axisState[x] = IF x = ax THEN n.phys \intersect ax ELSE f.axisState[x]
  <2>1. f \in EngineState /\ n.phys \intersect ax \in SUBSET Keys
    BY <1>2, <1>6, <1>15 DEF OnlyAxis
  <2> QED BY <1>6, <2>1 DEF EngineState
<1> HIDE DEF r
<1>17. OnlyAxis(f, r, ax)
  BY <1>12, <1>16 DEF OnlyAxis
<1>18. OnlyAxis(n, r, ax)
  BY <1>13, <1>15, <1>17, OnlyAxisTrans
<1>19. /\ r.phys = e.phys /\ r.last[ax] \in {k, o} /\ r.suspended = e.suspended
       /\ r.socd[ax] = IF socd THEN NoTimer ELSE e.socd[ax]
       /\ r.axisState[ax] = e.phys \intersect ax
       /\ r.expect[k] = NoTimer /\ r.expect[o] = e.expect[o]
       /\ ~Presses(r.out, k) /\ ~Presses(r.out, o)
       /\ k \in tab.held => Falls(r.out, k) \/ (k \in e.phys /\ ~socd)
  <2>1. r.suspended = e.suspended
    BY <1>1, <1>18 DEF OnlyAxis
  <2>2. e.last[ax] \in {k, o}
    BY <1>7 DEF Calm
  <2>3. r.phys = e.phys /\ r.last = e.last /\ r.socd = g.socd
    BY <1>1, <1>11, <1>15, <1>16 DEF SameKeys
  <2>4. r.socd[ax] = IF socd THEN NoTimer ELSE e.socd[ax]
    BY <1>1, <1>6, <1>11, <2>3
  <2>5. r.axisState[ax] = e.phys \intersect ax
    BY <1>1, <1>6, <1>16
  <2>6. r.expect[k] = NoTimer /\ r.expect[o] = e.expect[o]
    BY <1>1, <1>2, <1>6, <1>11, <1>15, <1>16 DEF SameTimers
  <2> QED BY <1>15, <1>16, <2>1, <2>2, <2>3, <2>4, <2>5, <2>6
<1>20. ExpectedComes(r, k) /\ ExpectedComes(r, o)
  <2>1. ExpectedComes(n, o)
    BY <1>3, <1>6 DEF KeyInv
  <2>2. r.expect[o] = n.expect[o] /\ r.armed[o] = n.armed[o] /\ r.expired = n.expired
    BY <1>1, <1>6, <1>11, <1>15, <1>16, <1>18, <1>19 DEF SameTimers, OnlyAxis
  <2>3. ExpectedComes(r, o)
    BY <2>1, <2>2 DEF ExpectedComes
  <2> QED BY <1>19, <2>3 DEF ExpectedComes
<1>21. Good(r, tab, mode, k, o)
  <2>1. CASE socd
    BY <1>6, <1>7, <1>9, <1>19, <1>20, <2>1 DEF Good, Calm
  <2>2. CASE ~socd
    BY <1>6, <1>7, <1>9, <1>19, <1>20, <2>2 DEF Good, Calm
  <2> QED BY <2>1, <2>2
<1>22. EngineInv(r, tab, mode)
  BY <1>6, <1>8, <1>18, <1>21, GoodKeeps
<1> QED BY <1>10, <1>22 DEF k, id, n

-----------------------------------------------------------------------------
(* Handlers that work on both axes at once.                                *)

\* No timer is expected and whatever is held is about to be let go of.
LEMMA NoTimersKeep ==
  ASSUME NEW r \in EngineState, Len(r.expired) <= MaxExpired, NEW tab, NEW mode,
         \A k \in Keys : r.expect[k] = NoTimer,
         \A ax \in Axes : r.socd[ax] = NoTimer /\ r.last[ax] \in ax,
         ~r.suspended => \A ax \in Axes : r.axisState[ax] = r.phys \intersect ax,
         \A k \in Keys : k \in tab.held => k \in tab.pending \/ Falls(r.out, k),
         \A k \in Keys : Presses(r.out, k) =>
           /\ ~r.suspended /\ k \in r.phys /\ ~Presses(r.out, Opposite[k])
           /\ Opposite[k] \in tab.held => Opposite[k] \in tab.pending
  PROVE  EngineInv(r, tab, mode)
<1>1. ASSUME NEW k \in Keys
      PROVE  KeyInv(r, tab, mode, k)
  <2> DEFINE o == Opposite[k]
  <2>1. o \in Keys /\ AxisOf(k) \in Axes /\ AxisOf(o) = AxisOf(k)
    BY AxisFacts
  <2>2. /\ r.expect[k] = NoTimer /\ r.expect[o] = NoTimer
        /\ r.socd[AxisOf(k)] = NoTimer /\ r.last[AxisOf(k)] \in AxisOf(k)
        /\ ~r.suspended => r.axisState[AxisOf(k)] = r.phys \intersect AxisOf(k)
        /\ k \in tab.held => k \in tab.pending \/ Falls(r.out, k)
        /\ Presses(r.out, k) => /\ ~r.suspended /\ k \in r.phys /\ ~Presses(r.out, o)
                                /\ o \in tab.held => o \in tab.pending
    BY <2>1
  <2> QED BY <2>2
     DEF KeyInv, LastIsOfAxis, KnowsAxis, OverlapIsOfLoser, BrakeYieldsToKey, ExpectedComes,
         HeldForAReason, BothHeldEnds, PressedForAReason, PressedWhenClear, OnePressed,
         SuspendedIsQuiet
<1> QED BY <1>1 DEF EngineInv

\* socdLastKey of an axis is one of its keys.
LEMMA LastKey ==
  ASSUME NEW e, NEW tab, NEW mode, EngineInv(e, tab, mode)
  PROVE  \A ax \in Axes : e.last[ax] \in ax
<1> SUFFICES ASSUME NEW ax \in Axes PROVE e.last[ax] \in ax
  OBVIOUS
<1>1. PICK k \in Keys : ax = AxisOf(k)
  BY DEF Axes
<1> QED BY <1>1 DEF EngineInv, KeyInv, LastIsOfAxis

\* ReconcileInternal(true), field by field.
LEMMA LetGoFields ==
  ASSUME NEW e \in EngineState, e.out = <<>>
  PROVE  LET r == LetGoOfAll(e) IN
         /\ r \in EngineState
         /\ r.phys = e.phys /\ r.last = e.last /\ r.suspended = e.suspended
         /\ r.expired = e.expired /\ r.native = {} /\ r.logical = {}
         /\ \A k \in Keys : r.expect[k] = NoTimer /\ r.armed[k] = NoTimer
         /\ \A ax \in Axes : r.socd[ax] = NoTimer /\ r.axisState[ax] = {}
         /\ r.out = Events(e.logical, FALSE)
<1> DEFINE d == DisarmAll(e, Keys)
           q == Events(e.logical, FALSE)
           r == [d EXCEPT !.socd = [ax \in Axes |-> NoTimer], !.axisState = [ax \in Axes |-> {}],
                          !.native = {}, !.logical = {}, !.out = @ \o q]
<1>1. LetGoOfAll(e) = r
  BY DEF LetGoOfAll
<1>2. /\ d \in EngineState /\ d.phys = e.phys /\ d.last = e.last
      /\ d.suspended = e.suspended /\ d.expired = e.expired /\ d.out = <<>>
      /\ \A j \in Keys : d.expect[j] = NoTimer /\ d.armed[j] = NoTimer
  BY DisarmFields
<1> HIDE DEF d
<1>3. e.logical \in SUBSET Keys
  BY DEF EngineState
<1>4. q \in Seq(EventSet)
  BY <1>3, EventsBatch
<1> HIDE DEF q
<1>5. <<>> \o q = q
  BY <1>4
<1>6. /\ r \in EngineState /\ r.out = q
      /\ r.phys = d.phys /\ r.last = d.last /\ r.suspended = d.suspended
      /\ r.expired = d.expired /\ r.native = {} /\ r.logical = {}
      /\ r.expect = d.expect /\ r.armed = d.armed
      /\ \A ax \in Axes : r.socd[ax] = NoTimer /\ r.axisState[ax] = {}
  BY <1>2, <1>4, <1>5 DEF EngineState, TimerRef, EventSet
<1> HIDE DEF r
<1> QED BY <1>1, <1>2, <1>6 DEF q

\* ReconcileInternal(true), while input is suspended or no key is held: a
\* release of everything that is down is in the batch.
LEMMA LetGoOfAllKeeps ==
  ASSUME NEW e \in EngineState, Len(e.expired) <= MaxExpired, e.out = <<>>,
         \A ax \in Axes : e.last[ax] \in ax, e.suspended \/ e.phys = {},
         NEW tab, NEW mode, tab.held \intersect Keys \subseteq e.logical
  PROVE  EngineInv(LetGoOfAll(e), tab, mode)
<1> DEFINE r == LetGoOfAll(e)
<1>1. /\ r \in EngineState
      /\ r.phys = e.phys /\ r.last = e.last /\ r.suspended = e.suspended
      /\ r.expired = e.expired /\ r.native = {} /\ r.logical = {}
      /\ \A k \in Keys : r.expect[k] = NoTimer /\ r.armed[k] = NoTimer
      /\ \A ax \in Axes : r.socd[ax] = NoTimer /\ r.axisState[ax] = {}
      /\ r.out = Events(e.logical, FALSE)
  <2> HIDE DEF EngineState
  <2> QED BY LetGoFields
<1> HIDE DEF r
<1>2. e.logical \in SUBSET Keys
  BY DEF EngineState
<1>3. \A k \in Keys : /\ Falls(r.out, k) <=> k \in e.logical
                      /\ ~Presses(r.out, k)
  <2> DEFINE L == e.logical
             q == Events(L, FALSE)
  <2>1. ASSUME NEW k \in Keys
        PROVE  (Falls(q, k) <=> k \in L) /\ ~Presses(q, k)
    <3> HIDE DEF L
    <3> QED BY <1>2, EventsBatch DEF L
  <2> QED BY <1>1, <2>1
<1>4. ~r.suspended => \A ax \in Axes : r.axisState[ax] = r.phys \intersect ax
  BY <1>1
<1>5. EngineInv(r, tab, mode)
  BY <1>1, <1>3, <1>4, NoTimersKeep
<1> QED BY <1>5 DEF r

\* Everything is off: what Suspend leaves once its batch is sent.
AllOff(e, tab) ==
  /\ e \in EngineState /\ Len(e.expired) <= MaxExpired /\ e.out = <<>>
  /\ \A ax \in Axes : e.last[ax] \in ax
  /\ \A k \in Keys : e.expect[k] = NoTimer
  /\ \A ax \in Axes : e.socd[ax] = NoTimer
  /\ tab.held \subseteq Slots
  /\ \A k \in Keys : k \in tab.held => k \in tab.pending

\* While input is suspended and no batch is under way, everything is off.
LEMMA SuspendedAllOff ==
  ASSUME NEW e, NEW tab, NEW mode, EngineInv(e, tab, mode), e.out = <<>>, e.suspended,
         tab.held \subseteq Slots
  PROVE  AllOff(e, tab)
<1>1. \A k \in Keys : e.expect[k] = NoTimer /\ e.socd[AxisOf(k)] = NoTimer
                     /\ (k \in tab.held => k \in tab.pending)
  BY EmptyBatch DEF EngineInv, KeyInv, SuspendedIsQuiet
<1>2. \A ax \in Axes : e.socd[ax] = NoTimer
  BY <1>1 DEF Axes
<1> QED BY <1>1, <1>2, LastKey DEF AllOff, EngineInv

\* Transitions cancelled on several axes at once.
LEMMA CancelAllFields ==
  ASSUME NEW e \in EngineState, NEW A
  PROVE  LET r == CancelTransitions(e, A) IN
         /\ r \in EngineState
         /\ r.phys = e.phys /\ r.native = e.native /\ r.axisState = e.axisState
         /\ r.last = e.last /\ r.logical = e.logical /\ r.out = e.out
         /\ r.suspended = e.suspended /\ r.expired = e.expired
         /\ \A ax \in Axes : e.socd[ax] = NoTimer => r.socd[ax] = NoTimer
         /\ \A k \in Keys : e.expect[k] = NoTimer => r.expect[k] = NoTimer
<1> DEFINE S == (UNION {InTransition(e, ax) : ax \in A}) \intersect Keys
           T == UNION {InTransition(e, ax) : ax \in A}
           d == DisarmAll(e, T)
           r == [d EXCEPT !.socd = [ax \in Axes |-> IF ax \in A THEN NoTimer ELSE @[ax]]]
<1>1. CancelTransitions(e, A) = r
  BY DEF CancelTransitions
<1>2. DisarmAll(e, T) = DisarmAll(e, S)
  BY DEF DisarmAll
<1> HIDE DEF S, T
<1>3. S \in SUBSET Keys
  BY DEF S
<1>4. /\ d \in EngineState
      /\ d.phys = e.phys /\ d.native = e.native /\ d.axisState = e.axisState
      /\ d.last = e.last /\ d.socd = e.socd /\ d.logical = e.logical /\ d.out = e.out
      /\ d.suspended = e.suspended /\ d.expired = e.expired
      /\ \A j \in Keys : d.expect[j] = IF j \in S THEN NoTimer ELSE e.expect[j]
  BY <1>2, <1>3, DisarmFields
<1> HIDE DEF d
<1>5. /\ r \in EngineState
      /\ r.phys = d.phys /\ r.native = d.native /\ r.axisState = d.axisState
      /\ r.last = d.last /\ r.logical = d.logical /\ r.out = d.out
      /\ r.suspended = d.suspended /\ r.expired = d.expired /\ r.expect = d.expect
      /\ \A ax \in Axes : r.socd[ax] = IF ax \in A THEN NoTimer ELSE d.socd[ax]
  BY <1>4 DEF EngineState, TimerRef
<1> HIDE DEF r
<1> QED BY <1>1, <1>4, <1>5

\* A rebuild in OFF from everything off: nothing is pressed.
LEMMA ResolveAxesKeeps ==
  ASSUME NEW e, NEW tab, NEW mode, AllOff(e, tab), ~e.suspended
  PROVE  EngineInv(ResolveAxes(e), tab, mode)
<1> DEFINE both == {k \in e.phys : Opposite[k] \in e.phys}
           void == {k \in Keys \ e.phys : Opposite[k] \in e.phys}
           A    == {ax \in Axes : ax \intersect e.phys # {}}
           calm == CancelTransitions(e, A)
           idle == DisarmAll(calm, both \union void)
           q    == Events(void \intersect e.logical, FALSE)
           target == [k \in Keys |-> IF k \in void THEN calm.expectTarget[k] ELSE idle.expectTarget[k]]
           r == [idle EXCEPT !.expectTarget = target,
                   !.axisState = [ax \in Axes |-> e.phys \intersect ax],
                   !.logical = @ \ void, !.out = @ \o q]
<1>1. ResolveAxes(e) = r
  BY DEF ResolveAxes
<1>2. e \in EngineState /\ e.phys \subseteq Keys /\ e.out = <<>>
  BY DEF AllOff, EngineState
<1>3. /\ calm \in EngineState
      /\ calm.phys = e.phys /\ calm.last = e.last /\ calm.out = <<>>
      /\ calm.suspended = e.suspended /\ calm.expired = e.expired
      /\ \A ax \in Axes : calm.socd[ax] = NoTimer
      /\ \A k \in Keys : calm.expect[k] = NoTimer
  BY <1>2, CancelAllFields DEF AllOff
<1>4. both \union void \in SUBSET Keys /\ void \intersect e.logical \in SUBSET Keys
  BY <1>2
<1> HIDE DEF both, void, calm
<1>5. /\ idle \in EngineState
      /\ idle.phys = calm.phys /\ idle.last = calm.last /\ idle.socd = calm.socd
      /\ idle.out = calm.out /\ idle.suspended = calm.suspended
      /\ idle.expired = calm.expired
      /\ \A j \in Keys : idle.expect[j] = NoTimer
  BY <1>3, <1>4, DisarmFields
<1> HIDE DEF idle
<1>6. target \in [Keys -> Identity]
  BY <1>3, <1>5 DEF EngineState
<1> HIDE DEF target
<1>7. q \in Seq(EventSet) /\ \A x \in Keys : ~Presses(q, x)
  BY <1>4, EventsBatch
<1> HIDE DEF q
<1>8. <<>> \o q = q
  BY <1>7
<1>9. [ax \in Axes |-> e.phys \intersect ax] \in [Axes -> SUBSET Keys]
  BY <1>2
<1>10. /\ r \in EngineState
       /\ r.phys = e.phys /\ r.last = e.last /\ r.socd = idle.socd /\ r.out = q
       /\ r.suspended = e.suspended /\ r.expired = e.expired /\ r.expect = idle.expect
       /\ r.axisState = [ax \in Axes |-> e.phys \intersect ax]
  BY <1>3, <1>5, <1>6, <1>7, <1>8, <1>9 DEF EngineState, EventSet
<1> HIDE DEF r
<1>11. EngineInv(r, tab, mode)
  BY <1>3, <1>5, <1>7, <1>10, NoTimersKeep DEF AllOff
<1> QED BY <1>1, <1>11

\* A rebuild in FULL and HUMANIZED from everything off: of two keys of an axis
\* at most one is pressed, and what is held is owed.
LEMMA RestoreKeeps ==
  ASSUME NEW e, NEW tab, NEW mode, AllOff(e, tab), ~e.suspended,
         \A ax \in Axes : e.axisState[ax] = e.phys \intersect ax
  PROVE  EngineInv(Restore(e, (e.phys \ Suppressed(e)) \union ArmedBrakes(e)), tab, mode)
<1> DEFINE D == (e.phys \ Suppressed(e)) \union ArmedBrakes(e)
           gone == e.logical \ D
           come == D \ e.logical
           p == Events(gone, FALSE)
           q == Events(come, TRUE)
           d == DisarmAll(e, gone)
           r == [d EXCEPT !.logical = D, !.out = (@ \o p) \o q]
<1>1. Restore(e, D) = r
  BY DEF Restore
<1>2. e \in EngineState /\ e.phys \subseteq Keys /\ e.logical \subseteq Keys /\ e.out = <<>>
  BY DEF AllOff, EngineState
<1>3. D \subseteq e.phys
  BY <1>2 DEF AllOff, ArmedBrakes
<1>4. \A k \in D : Opposite[k] \notin D
  <2> SUFFICES ASSUME NEW k \in D, Opposite[k] \in D PROVE FALSE
    OBVIOUS
  <2> DEFINE o == Opposite[k]
  <2>1. k \in Keys /\ k \in e.phys /\ o \in e.phys
    BY <1>2, <1>3
  <2>2. Step(k, o)
    BY <2>1, Axis
  <2> HIDE DEF o
  <2>3. AxisOf(k) \in Axes /\ AxisOf(k) \subseteq e.phys /\ e.socd[AxisOf(k)] = NoTimer
        /\ e.last[AxisOf(k)] \in {k, o}
    BY <2>1, <2>2 DEF Step, AllOff
  <2>4. Opposite[e.last[AxisOf(k)]] \in Suppressed(e)
    BY <2>3 DEF Suppressed
  <2>5. k \in Suppressed(e) \/ o \in Suppressed(e)
    BY <2>2, <2>3, <2>4 DEF Step
  <2>6. k \notin ArmedBrakes(e) /\ o \notin ArmedBrakes(e)
    BY <1>2, <2>1 DEF AllOff, ArmedBrakes
  <2> QED BY <2>5, <2>6 DEF o
<1>5. gone \in SUBSET Keys /\ come \in SUBSET Keys /\ D \in SUBSET Keys
  BY <1>2, <1>3
<1> HIDE DEF D
<1>6. /\ p \in Seq(EventSet) /\ q \in Seq(EventSet)
      /\ \A x \in Keys : ~Presses(p, x) /\ (Presses(q, x) <=> x \in come)
  BY <1>5, EventsBatch
<1>7. /\ d \in EngineState
      /\ d.phys = e.phys /\ d.last = e.last /\ d.socd = e.socd /\ d.axisState = e.axisState
      /\ d.out = e.out /\ d.suspended = e.suspended /\ d.expired = e.expired
      /\ \A j \in Keys : d.expect[j] = NoTimer
  BY <1>2, <1>5, DisarmFields DEF AllOff
<1> HIDE DEF d, p, q, come, gone
<1>8. (<<>> \o p) \o q = p \o q /\ p \o q \in Seq(EventSet)
  BY <1>6
<1>9. \A x \in Keys : Presses(p \o q, x) => x \in come
  BY <1>6, ConcatBatch
<1> DEFINE b == p \o q
<1>10. (d.out \o p) \o q = b
  BY <1>2, <1>7, <1>8
<1> HIDE DEF b
<1>11. /\ r \in EngineState
       /\ r.phys = e.phys /\ r.last = e.last /\ r.socd = e.socd /\ r.axisState = e.axisState
       /\ r.suspended = e.suspended /\ r.expired = e.expired /\ r.expect = d.expect
       /\ r.out = b
  BY <1>5, <1>7, <1>8, <1>10 DEF EngineState, EventSet, b
<1> HIDE DEF r
<1>12. \A k \in Keys : Presses(r.out, k) =>
         /\ k \in r.phys /\ ~Presses(r.out, Opposite[k])
         /\ Opposite[k] \in tab.held => Opposite[k] \in tab.pending
  <2> SUFFICES ASSUME NEW k \in Keys, Presses(b, k)
               PROVE  /\ k \in e.phys /\ ~Presses(b, Opposite[k])
                      /\ Opposite[k] \in tab.held => Opposite[k] \in tab.pending
    BY <1>11
  <2>1. k \in D /\ Opposite[k] \notin D /\ Opposite[k] \in Keys
    BY <1>4, <1>9, AxisFacts DEF b, come
  <2>2. ~Presses(b, Opposite[k])
    BY <1>9, <2>1 DEF b, come
  <2> QED BY <1>3, <2>1, <2>2 DEF AllOff
<1>13. EngineInv(r, tab, mode)
  BY <1>7, <1>11, <1>12, NoTimersKeep DEF AllOff
<1> QED BY <1>1, <1>13 DEF D

\* RebuildState from everything off, in any mode.
LEMMA RebuildKeeps ==
  ASSUME NEW e, NEW tab, NEW mode, AllOff(e, tab), ~e.suspended,
         NEW physical \in SUBSET Keys, NEW c, c.held = tab.held
  PROVE  EngineInv(RebuildState(e, physical, c), tab, mode)
<1> DEFINE p == [e EXCEPT !.phys = physical]
           native == IF ~p.suspended /\ c.active THEN p.phys ELSE {}
           n == [p EXCEPT !.native = native, !.logical = native \union (c.held \intersect Keys)]
           A == {ax \in Axes : ~(ax \subseteq p.phys)}
           calm == CancelTransitions(p, A)
           s == [calm EXCEPT !.axisState = [ax \in Axes |-> p.phys \intersect ax]]
           r == RebuildState(e, physical, c)
<1>1. /\ r = IF c.mode = "OFF" THEN ResolveAxes(n)
              ELSE Restore(s, (p.phys \ Suppressed(s)) \union ArmedBrakes(s))
  BY DEF RebuildState, ReconcileLogicalStateFromPhysical, TrackNativeMovement
<1> HIDE DEF r
<1>2. /\ p \in EngineState /\ p.phys = physical /\ p.axisState = e.axisState
      /\ p.last = e.last /\ p.expect = e.expect /\ p.socd = e.socd
      /\ p.suspended = e.suspended /\ p.expired = e.expired /\ p.out = e.out
  BY DEF AllOff, EngineState
<1> HIDE DEF p
<1>3. AllOff(n, tab) /\ ~n.suspended
  <2>1. native \in SUBSET Keys
    BY <1>2 DEF EngineState
  <2> HIDE DEF native
  <2>2. /\ n \in EngineState /\ n.last = p.last /\ n.expect = p.expect /\ n.socd = p.socd
        /\ n.suspended = p.suspended /\ n.expired = p.expired /\ n.out = p.out
    BY <1>2, <2>1 DEF EngineState
  <2> HIDE DEF n
  <2> QED BY <1>2, <2>2 DEF AllOff
<1>4. /\ AllOff(s, tab) /\ ~s.suspended /\ s.phys = p.phys
      /\ \A ax \in Axes : s.axisState[ax] = s.phys \intersect ax
  <2>1. /\ calm \in EngineState
        /\ calm.phys = p.phys /\ calm.last = p.last /\ calm.out = p.out
        /\ calm.suspended = p.suspended /\ calm.expired = p.expired
        /\ \A ax \in Axes : calm.socd[ax] = NoTimer
        /\ \A k \in Keys : calm.expect[k] = NoTimer
    BY <1>2, CancelAllFields DEF AllOff
  <2> HIDE DEF calm
  <2>2. [ax \in Axes |-> p.phys \intersect ax] \in [Axes -> SUBSET Keys]
    BY <1>2
  <2>3. /\ s \in EngineState /\ s.phys = calm.phys /\ s.last = calm.last /\ s.out = calm.out
        /\ s.suspended = calm.suspended /\ s.expired = calm.expired /\ s.socd = calm.socd
        /\ s.expect = calm.expect /\ s.axisState = [ax \in Axes |-> p.phys \intersect ax]
    BY <2>1, <2>2 DEF EngineState
  <2> HIDE DEF s
  <2> QED BY <1>2, <2>1, <2>3 DEF AllOff
<1> HIDE DEF n, s
<1>5. EngineInv(ResolveAxes(n), tab, mode)
  BY <1>3, ResolveAxesKeeps
<1>6. EngineInv(Restore(s, (s.phys \ Suppressed(s)) \union ArmedBrakes(s)), tab, mode)
  BY <1>4, RestoreKeeps
<1>7. EngineInv(r, tab, mode)
  BY <1>1, <1>4, <1>5, <1>6
<1> QED BY <1>7 DEF r

-----------------------------------------------------------------------------
(* Sending a batch, the pump, and the commit that follows both.            *)

\* After commits the record is the native keys and what the boundary holds.
LEMMA CommitKeeps ==
  ASSUME NEW e, NEW tab, NEW mode, EngineInv(e, tab, mode), NEW held \in SUBSET Slots
  PROVE  /\ EngineInv(Commit(e, held), tab, mode)
         /\ Commit(e, held).logical = e.native \union (held \intersect Keys)
         /\ Commit(e, held).native = e.native /\ Commit(e, held).out = e.out
<1> DEFINE r == Commit(e, held)
<1>1. e \in EngineState /\ Len(e.expired) <= MaxExpired
  BY DEF EngineInv
<1>2. /\ r \in EngineState /\ r.native = e.native /\ r.out = e.out
      /\ r.phys = e.phys /\ r.axisState = e.axisState /\ r.last = e.last /\ r.socd = e.socd
      /\ r.expect = e.expect /\ r.suspended = e.suspended
      /\ r.expired = e.expired /\ r.armed = e.armed
      /\ r.logical = e.native \union (held \intersect Keys)
  BY <1>1 DEF EngineState, Commit
<1> HIDE DEF r
<1>3. ASSUME NEW j \in Keys
      PROVE  KeyInv(r, tab, mode, j)
  <2>1. KeyInv(e, tab, mode, j)
    BY DEF EngineInv
  <2>2. ExpectedComes(r, j)
    BY <1>2, <2>1 DEF KeyInv, ExpectedComes
  <2> QED BY <1>2, <2>1, <2>2, QueueOnlyKeeps
<1>4. EngineInv(r, tab, mode)
  BY <1>1, <1>2, <1>3 DEF EngineInv
<1> QED BY <1>2, <1>4 DEF r

\* The pump: nothing is pressed, and what is still held is owed as before.
LEMMA PumpKeeps ==
  ASSUME NEW e, NEW tab, NEW after, NEW mode, EngineInv(e, tab, mode), e.out = <<>>,
         \A x \in after.held : x \in tab.held /\ (x \in tab.pending => x \in after.pending)
  PROVE  EngineInv(e, after, mode)
<1>1. ASSUME NEW k \in Keys
      PROVE  KeyInv(e, after, mode, k)
  <2>1. KeyInv(e, tab, mode, k)
    BY DEF EngineInv
  <2>2. \A j \in Keys : ~Falls(e.out, j) /\ ~Presses(e.out, j)
    BY EmptyBatch
  <2>3. Opposite[k] \in Keys
    BY AxisFacts
  <2> QED BY <2>1, <2>2, <2>3
     DEF KeyInv, LastIsOfAxis, KnowsAxis, OverlapIsOfLoser, BrakeYieldsToKey,
         HeldForAReason, BothHeldEnds, PressedForAReason, PressedWhenClear, OnePressed,
         SuspendedIsQuiet
<1> QED BY <1>1 DEF EngineInv

\* What sending the event at the head of the batch does to the slots.
Sent(tab, after, event) ==
  LET s == event.key
  IN  /\ \A x \in Slots \ {s} : /\ x \in after.held <=> x \in tab.held
                                /\ x \in after.pending <=> x \in tab.pending
      /\ event = Event(s, TRUE) =>
           /\ s \in tab.held => s \in after.held
           /\ s \in tab.pending => s \in after.pending
           /\ s \in after.held /\ s \notin tab.held => tab.pending = {}
      /\ event = Event(s, FALSE) => (s \in after.held => s \in tab.held /\ s \in after.pending)

\* The head of the batch is sent, accepted or not: what it answered for is now
\* answered for by the slots.
LEMMA FlushKeeps ==
  ASSUME NEW e, NEW tab, NEW after, NEW mode, EngineInv(e, tab, mode), e.out # <<>>,
         Sent(tab, after, Head(e.out))
  PROVE  EngineInv([e EXCEPT !.out = Tail(@)], after, mode)
<1> DEFINE q == e.out
           h == Head(q)
           r == [e EXCEPT !.out = Tail(@)]
<1>1. e \in EngineState /\ Len(e.expired) <= MaxExpired /\ q \in Seq(EventSet) /\ q # <<>>
  BY DEF EngineInv, EngineState, EventSet
<1>2. Tail(q) \in Seq(EventSet) /\ h \in EventSet
  BY <1>1
<1>3. /\ r \in EngineState /\ r.out = Tail(q)
      /\ r.phys = e.phys /\ r.axisState = e.axisState /\ r.last = e.last /\ r.socd = e.socd
      /\ r.expect = e.expect /\ r.suspended = e.suspended
      /\ r.expired = e.expired /\ r.armed = e.armed
  BY <1>1, <1>2 DEF EngineState, EventSet
<1> HIDE DEF r
<1>4. ASSUME NEW k \in Keys
      PROVE  KeyInv(r, after, mode, k)
  <2> DEFINE o == Opposite[k]
             s == h.key
  <2>1. o \in Keys /\ o # k /\ Opposite[o] = k /\ AxisOf(o) = AxisOf(k) /\ k \in Slots /\ o \in Slots
    BY AxisFacts, KeysAssumption
  <2> HIDE DEF o
  <2>2. KeyInv(e, tab, mode, k) /\ KeyInv(e, tab, mode, o)
    BY <2>1 DEF EngineInv
  <2>3. ASSUME NEW x \in Keys, NEW y \in Keys
        PROVE  /\ Falls(q, x) <=> h = Event(x, FALSE) \/ Falls(Tail(q), x)
               /\ Presses(q, x) <=> h = Event(x, TRUE) \/ Presses(Tail(q), x)
               /\ FallsFirst(q, y, x) => /\ h # Event(x, TRUE)
                                         /\ h # Event(y, FALSE) => FallsFirst(Tail(q), y, x)
    BY <1>1, TailBatch
  <2>4. h = Event(s, h.down) /\ s \in Keys /\ h.down \in BOOLEAN
    BY <1>1, <1>2, TailBatch DEF EventSet
  <2> DEFINE D == h = Event(s, TRUE)
             U == h = Event(s, FALSE)
  <2>5. /\ D \/ U
        /\ \A x \in Keys : (h = Event(x, TRUE) <=> x = s /\ D)
                         /\ (h = Event(x, FALSE) <=> x = s /\ U)
    <3>1. D \/ U
      BY <2>4
    <3>2. \A x, y \in Keys, b, c \in BOOLEAN : Event(x, b) = Event(y, c) => x = y
      BY DEF Event
    <3> HIDE DEF h, s
    <3> QED BY <2>4, <3>1, <3>2
  <2> HIDE DEF D, U
  <2> DEFINE Changes(x) ==
               \/ /\ x # s /\ (x \in after.held <=> x \in tab.held)
                  /\ (x \in after.pending <=> x \in tab.pending)
               \/ /\ x = s /\ D /\ (x \in tab.held => x \in after.held)
                  /\ (x \in tab.pending => x \in after.pending)
                  /\ (x \in after.held /\ x \notin tab.held =>
                         k \notin tab.pending /\ o \notin tab.pending)
               \/ /\ x = s /\ U
                  /\ (x \in after.held => x \in tab.held /\ x \in after.pending)
  <2>6. Changes(k) /\ Changes(o)
    <3>1. Sent(tab, after, h)
      OBVIOUS
    <3> SUFFICES ASSUME NEW x \in {k, o} PROVE Changes(x)
      OBVIOUS
    <3>2. CASE x = s
      BY <2>5, <3>1, <3>2 DEF Sent, D, U
    <3>3. CASE x # s
      <4> HIDE DEF h, D, U
      <4>1. x \in Slots \ {h.key}
        BY <2>1, <3>3
      <4>2. /\ x \in after.held <=> x \in tab.held
            /\ x \in after.pending <=> x \in tab.pending
        BY <3>1, <4>1 DEF Sent
      <4> QED BY <3>3, <4>2
    <3> QED BY <3>2, <3>3
  <2>7. /\ Falls(q, k) <=> (k = s /\ U) \/ Falls(Tail(q), k)
        /\ Falls(q, o) <=> (o = s /\ U) \/ Falls(Tail(q), o)
        /\ Presses(q, k) <=> (k = s /\ D) \/ Presses(Tail(q), k)
        /\ Presses(q, o) <=> (o = s /\ D) \/ Presses(Tail(q), o)
        /\ FallsFirst(q, o, k) => /\ ~(k = s /\ D)
                                  /\ ~(o = s /\ U) => FallsFirst(Tail(q), o, k)
        /\ FallsFirst(q, k, o) => /\ ~(o = s /\ D)
                                  /\ ~(k = s /\ U) => FallsFirst(Tail(q), k, o)
    <3> HIDE DEF h, q, s
    <3> QED BY <2>1, <2>3, <2>5
  <2> HIDE DEF q, h, s
  <2>8. /\ LastIsOfAxis(r, k) /\ KnowsAxis(r, k) /\ OverlapIsOfLoser(r, mode, k)
        /\ BrakeYieldsToKey(r, k) /\ ExpectedComes(r, k)
    BY <1>3, <2>2
       DEF KeyInv, LastIsOfAxis, KnowsAxis, OverlapIsOfLoser, BrakeYieldsToKey, ExpectedComes
  <2>9. HeldForAReason(r, after, k)
    BY <1>3, <2>1, <2>2, <2>6, <2>7 DEF KeyInv, HeldForAReason, PressedForAReason, q, o
  <2>10. BothHeldEnds(r, after, k)
    <3>1. k \in tab.held /\ o \in tab.held =>
            \/ k \in tab.pending \/ e.expect[k] # NoTimer \/ Falls(q, k)
            \/ o \in tab.pending \/ e.expect[o] # NoTimer \/ Falls(q, o)
      BY <2>2 DEF KeyInv, BothHeldEnds, q, o
    <3>2. Presses(q, k) =>
            \/ o \notin tab.held \/ o \in tab.pending \/ FallsFirst(q, o, k)
            \/ e.expect[k] # NoTimer \/ e.expect[o] # NoTimer
      BY <2>2 DEF KeyInv, PressedWhenClear, q, o
    <3>3. Presses(q, o) =>
            \/ k \notin tab.held \/ k \in tab.pending \/ FallsFirst(q, k, o)
            \/ e.expect[k] # NoTimer \/ e.expect[o] # NoTimer
      BY <2>1, <2>2 DEF KeyInv, PressedWhenClear, q
    <3>4. k \in after.held /\ o \in after.held =>
            \/ k \in after.pending \/ e.expect[k] # NoTimer \/ Falls(Tail(q), k)
            \/ o \in after.pending \/ e.expect[o] # NoTimer \/ Falls(Tail(q), o)
      BY <2>1, <2>6, <2>7, <3>1, <3>2, <3>3
    <3> QED BY <1>3, <3>4 DEF BothHeldEnds, o, q
  <2>11. PressedForAReason(r, k) /\ OnePressed(r, k)
    BY <1>3, <2>1, <2>2, <2>7 DEF KeyInv, PressedForAReason, OnePressed, q, o
  <2>12. PressedWhenClear(r, after, k)
    <3> DEFINE Z == \/ k \notin e.phys /\ e.expect[k] # NoTimer
                    \/ /\ k \in e.phys /\ o \in e.phys
                       /\ e.socd[AxisOf(k)] # NoTimer /\ e.expect[o] = e.socd[AxisOf(k)]
    <3>1. Presses(q, k) =>
            o \notin tab.held \/ o \in tab.pending \/ FallsFirst(q, o, k) \/ Z
      BY <2>2 DEF KeyInv, PressedWhenClear, q, o
    <3>2. ~(Presses(q, k) /\ Presses(q, o))
      BY <2>2 DEF KeyInv, OnePressed, q, o
    <3> HIDE DEF Z
    <3>3. Presses(Tail(q), k) =>
            o \notin after.held \/ o \in after.pending \/ FallsFirst(Tail(q), o, k) \/ Z
      BY <2>1, <2>6, <2>7, <3>1, <3>2
    <3> QED BY <1>3, <3>3 DEF PressedWhenClear, Z, o, q
  <2>13. SuspendedIsQuiet(r, after, k)
    BY <1>3, <2>1, <2>2, <2>6, <2>7 DEF KeyInv, SuspendedIsQuiet, q, o
  <2> QED BY <2>8, <2>9, <2>10, <2>11, <2>12, <2>13 DEF KeyInv
<1>5. EngineInv(r, after, mode)
  BY <1>1, <1>3, <1>4 DEF EngineInv
<1> QED BY <1>5 DEF r

-----------------------------------------------------------------------------
(* The engine and its boundary.                                            *)

\* The inductive invariant.
IInv ==
  /\ EngineInv(eng, table, config.mode) /\ Sound(table)
  /\ batchTarget \in Identity /\ config \in Configs
  /\ foreground \in Identity /\ published \in Identity
  /\ Idle => eng.logical = eng.native \union (table.held \intersect Keys)

\* The invariant includes the types.
LEMMA IInvTypes ==
  ASSUME IInv
  PROVE  /\ TypeOK /\ table.held \subseteq Slots /\ config.mode \in Modes
         /\ eng \in EngineState /\ Len(eng.expired) <= MaxExpired
         /\ \A t \in Identity : Active(t) \in BOOLEAN
BY EngineAssumption DEF IInv, EngineInv, TypeOK, Sound, SlotTable, Configs, Active

\* Between two batches a handler finds what its lemmas ask for.
LEMMA StartsAt ==
  ASSUME IInv, Idle, NEW t \in Identity, NEW travel, NEW refused
  PROVE  Starts(eng, table, config.mode, Situation(t, travel, refused))
BY IInvTypes DEF IInv, Starts, Situation, Idle

\* A handler whose state keeps the invariant may hand its batch over.
LEMMA SubmitKeeps ==
  ASSUME IInv, NEW e, EngineInv(e, table, config.mode), NEW t \in Identity, Submit(e, t)
  PROVE  IInv'
<1>1. /\ table' = table /\ config' = config /\ foreground' = foreground
      /\ published' = published
      /\ eng' = IF e.out = <<>> THEN Commit(e, table.held) ELSE e
      /\ batchTarget' = IF e.out = <<>> THEN NoTarget ELSE t
  BY DEF Submit
<1>2. table.held \in SUBSET Slots
  BY IInvTypes
<1>3. CASE e.out = <<>>
  <2>1. /\ EngineInv(eng', table, config.mode)
        /\ eng'.logical = eng'.native \union (table.held \intersect Keys)
    BY <1>1, <1>2, <1>3, CommitKeeps
  <2> QED BY <1>1, <1>3, <2>1 DEF IInv, Identity
<1>4. CASE e.out # <<>>
  BY <1>1, <1>4 DEF IInv, Idle
<1> QED BY <1>3, <1>4

\* A key recorded while input is suspended leaves the engine's record exact.
LEMMA RecordedLogical ==
  ASSUME NEW e \in EngineState, NEW k \in Keys, NEW c, c.held \subseteq Slots,
         e.logical = e.native \union (c.held \intersect Keys)
  PROVE  Recorded(e, k, c).logical = Recorded(e, k, c).native \union (c.held \intersect Keys)
<1> DEFINE p == [e EXCEPT !.phys = @ \union {k}, !.last[AxisOf(k)] = k]
           s == IF MacroBrakePending(p, k) THEN p ELSE StopExpecting(p, k)
<1>1. p \in EngineState /\ p.native = e.native /\ p.logical = e.logical
  BY DEF EngineState
<1> HIDE DEF p
<1>2. StopExpecting(p, k) \in EngineState /\ StopExpecting(p, k).native = p.native
      /\ StopExpecting(p, k).logical = p.logical
  BY <1>1, StopFields
<1>3. s \in EngineState /\ s.native = e.native /\ s.logical = e.logical
  BY <1>1, <1>2
<1>4. Recorded(e, k, c) = TrackIfOff(s, c)
  BY DEF Recorded, p
<1> HIDE DEF s
<1> QED BY <1>3, <1>4, TrackFields

\* A key goes down.
LEMMA KeyDownKeeps ==
  ASSUME IInv, NEW k \in Keys, NEW refused, KeyDown(k, Routed, published, refused)
  PROVE  IInv'
<1> DEFINE c == Situation(published, NoKey, refused)
<1>1. Idle /\ k \notin eng.phys /\ published \in Identity
  BY DEF KeyDown, IInv
<1>2. Starts(eng, table, config.mode, c)
  BY <1>1, StartsAt
<1>3. c.held = table.held
  BY DEF Situation
<1> HIDE DEF c
<1>4. CASE ~eng.suspended
  <2>1. Submit(HandleKeyDown(eng, k, TRUE, c), published)
    BY <1>4 DEF KeyDown, Routed, c
  <2>2. EngineInv(HandleKeyDown(eng, k, TRUE, c), table, config.mode)
    BY <1>1, <1>2, <1>4, DownAloneKeeps, DownConflictKeeps
  <2> QED BY <1>1, <2>1, <2>2, SubmitKeeps
<1>5. CASE eng.suspended
  <2>1. /\ eng' = HandleKeyDown(eng, k, FALSE, c)
        /\ UNCHANGED <<table, batchTarget, config, foreground, published>>
    BY <1>5 DEF KeyDown, Routed, c
  <2>2. EngineInv(HandleKeyDown(eng, k, FALSE, c), table, config.mode)
    BY <1>1, <1>2, <1>5, DownSuspendedKeeps
  <2>3. HandleKeyDown(eng, k, FALSE, c) = Recorded(eng, k, c)
    BY <1>1 DEF HandleKeyDown, Recorded
  <2>4. eng'.logical = eng'.native \union (table.held \intersect Keys)
    BY <1>1, <1>3, <2>1, <2>3, IInvTypes, RecordedLogical, ZenonT(60) DEF IInv
  <2> QED BY <2>1, <2>2, <2>4 DEF IInv
<1> QED BY <1>4, <1>5

\* A key goes up.
LEMMA KeyUpKeeps ==
  ASSUME IInv, NEW k \in eng.phys, NEW refused, NEW travel \in AxisOf(k) \union {NoKey},
         KeyUp(k, Routed, published, travel, refused)
  PROVE  IInv'
<1> DEFINE c == Situation(published, travel, refused)
<1>1. Idle /\ published \in Identity
  BY DEF KeyUp, IInv
<1>2. Starts(eng, table, config.mode, c)
  BY <1>1, StartsAt
<1>3. c.travel = travel
  BY DEF Situation
<1>4. Submit(HandleKeyUp(eng, k, Routed, c), published)
  BY DEF KeyUp
<1> HIDE DEF c
<1>5. CASE ~eng.suspended
  <2>1. Submit(HandleKeyUp(eng, k, TRUE, c), published)
    BY <1>4, <1>5 DEF Routed
  <2>2. EngineInv(HandleKeyUp(eng, k, TRUE, c), table, config.mode)
    BY <1>2, <1>3, <1>5, UpAloneKeeps, UpOtherHeldKeeps
  <2> QED BY <1>1, <2>1, <2>2, SubmitKeeps
<1>6. CASE eng.suspended
  <2>1. Submit(HandleKeyUp(eng, k, FALSE, c), published)
    BY <1>4, <1>6 DEF Routed
  <2>2. EngineInv(HandleKeyUp(eng, k, FALSE, c), table, config.mode)
    BY <1>2, <1>6, UpSuspendedKeeps
  <2> QED BY <1>1, <2>1, <2>2, SubmitKeeps
<1> QED BY <1>5, <1>6

\* A timer expires.
LEMMA FireKeeps ==
  ASSUME IInv, NEW k \in Keys, TimerFire(k)
  PROVE  IInv'
<1>1. /\ eng' = [eng EXCEPT !.armed[k] = NoTimer,
                           !.expired = Append(@, <<k, eng.armed[k]>>)]
      /\ eng.armed[k] # NoTimer /\ Len(eng.expired) < MaxExpired
      /\ UNCHANGED <<table, batchTarget, config, foreground, published>>
  BY DEF TimerFire
<1>2. EngineInv(eng', table, config.mode)
  BY <1>1, TimerFireKeeps DEF IInv
<1>3. eng'.out = eng.out /\ eng'.logical = eng.logical /\ eng'.native = eng.native
  BY <1>1, IInvTypes DEF EngineState
<1> QED BY <1>1, <1>2, <1>3 DEF IInv, Idle

\* The owner thread takes a callback from the expiry queue.
LEMMA DrainKeeps ==
  ASSUME IInv, DrainTimer
  PROVE  IInv'
<1> DEFINE k  == Head(eng.expired)[1]
           id == Head(eng.expired)[2]
           t  == eng.expectTarget[k]
           c  == Situation(t, NoKey, {})
<1>1. /\ Idle /\ eng.expired # <<>>
      /\ IF IsExpected(eng, k, id) THEN Submit(OnTimerExpired(Rest(eng), k, id, c), t)
         ELSE /\ eng' = Rest(eng)
              /\ UNCHANGED <<table, batchTarget, config, foreground, published>>
  BY DEF DrainTimer, Rest
<1>2. EngineInv(eng, table, config.mode)
  BY DEF IInv
<1>3. k \in Keys /\ Rest(eng).logical = eng.logical /\ Rest(eng).native = eng.native
      /\ Rest(eng).out = eng.out
  BY <1>1, <1>2, RestFields
<1>4. t \in Identity
  BY <1>3, IInvTypes DEF EngineState
<1>5. Starts(eng, table, config.mode, c)
  BY <1>1, <1>4, StartsAt
<1> HIDE DEF c, t
<1>6. CASE IsExpected(eng, k, id)
  <2>1. EngineInv(OnTimerExpired(Rest(eng), k, id, c), table, config.mode)
    BY <1>1, <1>5, <1>6, TimerExpiredKeeps
  <2> QED BY <1>1, <1>4, <1>6, <2>1, SubmitKeeps
<1>7. CASE ~IsExpected(eng, k, id)
  <2>1. EngineInv(Rest(eng), table, config.mode)
    BY <1>1, <1>2, <1>7, StaleTimerKeeps
  <2> HIDE DEF k, id
  <2> QED BY <1>1, <1>3, <1>7, <2>1 DEF IInv, Idle
<1> QED BY <1>6, <1>7

\* The slots after the next event of the batch was sent.
SlotsAfter(ok) ==
  LET event == Head(eng.out)
  IN  IF event.down
      THEN KeyDownForTarget(table, event.key, batchTarget, Active(batchTarget), ok)
      ELSE KeyUpForTarget(table, event.key, batchTarget, Active(batchTarget), ok)

\* Sending an event keeps the slots sound and changes the slot of its key only.
LEMMA SlotsAfterSound ==
  ASSUME eng \in EngineState, Sound(table), batchTarget \in Identity, ~Idle,
         NEW ok \in BOOLEAN
  PROVE  Sound(SlotsAfter(ok)) /\ Sent(table, SlotsAfter(ok), Head(eng.out))
<1> DEFINE h == Head(eng.out)
           s == h.key
           on == Active(batchTarget)
           after == SlotsAfter(ok)
<1>1. after = IF h.down THEN KeyDownForTarget(table, s, batchTarget, on, ok)
                        ELSE KeyUpForTarget(table, s, batchTarget, on, ok)
  BY DEF SlotsAfter
<1> HIDE DEF after
<1>2. /\ eng.out # <<>> /\ eng.out \in Seq(EventSet) /\ Sound(table)
      /\ batchTarget \in Identity /\ on \in BOOLEAN
  BY DEF Active, Idle, EngineState, EventSet
<1>3. h \in EventSet /\ s \in Slots /\ h = Event(s, h.down) /\ h.down \in BOOLEAN
  <2>1. h \in EventSet
    BY <1>2, HeadTailProperties
  <2> HIDE DEF h
  <2>2. s \in Keys /\ h.down \in BOOLEAN /\ h = [key |-> h.key, down |-> h.down]
    BY <2>1 DEF EventSet
  <2> QED BY <2>1, <2>2, KeysAssumption DEF Event
<1> HIDE DEF h, s, on
<1>4. h.down => h # Event(s, FALSE)
  BY <1>3 DEF Event
<1>5. ~h.down => h # Event(s, TRUE)
  BY <1>3 DEF Event
<1>6. CASE h.down
  <2> DEFINE r == KeyDownForTarget(table, s, batchTarget, on, ok)
  <2>1. after = r
    BY <1>1, <1>6
  <2>2. Sound(r)
    BY <1>2, <1>3, PressSound DEF SoundWith
  <2>3. /\ \A x \in Slots \ {s} : /\ x \in r.held <=> x \in table.held
                                  /\ x \in r.pending <=> x \in table.pending
        /\ s \in table.held => s \in r.held
        /\ s \in table.pending => s \in r.pending
        /\ s \in r.held /\ s \notin table.held => table.pending = {}
    BY <1>2, <1>3, PressEffect
  <2> HIDE DEF r
  <2>4. Sound(after) /\ Sent(table, after, h)
    BY <1>4, <1>6, <2>1, <2>2, <2>3 DEF Sent, s
  <2> QED BY <2>4 DEF after, h
<1>7. CASE ~h.down
  <2> DEFINE r == KeyUpForTarget(table, s, batchTarget, on, ok)
  <2>1. after = r
    BY <1>1, <1>7
  <2>2. Sound(r)
    BY <1>2, <1>3, ReleaseSound DEF SoundWith
  <2>3. /\ \A x \in Slots \ {s} : /\ x \in r.held <=> x \in table.held
                                  /\ x \in r.pending <=> x \in table.pending
        /\ s \in r.held => s \in table.held /\ s \in r.pending
    BY <1>2, <1>3, ReleaseEffect
  <2> HIDE DEF r
  <2>4. Sound(after) /\ Sent(table, after, h)
    BY <1>5, <1>7, <2>1, <2>2, <2>3 DEF Sent, s
  <2> QED BY <2>4 DEF after, h
<1> QED BY <1>6, <1>7

\* One event of the batch, and the commit after the last one.
LEMMA FlushOneKeeps ==
  ASSUME IInv, NEW ok \in BOOLEAN, FlushOne(ok)
  PROVE  IInv'
<1> DEFINE after == SlotsAfter(ok)
           rest == [eng EXCEPT !.out = Tail(@)]
<1>1. /\ ~Idle /\ table' = after
      /\ eng' = IF rest.out = <<>> THEN Commit(rest, after.held) ELSE rest
      /\ batchTarget' = IF rest.out = <<>> THEN NoTarget ELSE batchTarget
      /\ UNCHANGED <<config, foreground, published>>
  BY DEF FlushOne, SlotsAfter
<1>2. eng.out # <<>> /\ batchTarget \in Identity /\ EngineInv(eng, table, config.mode)
  BY <1>1 DEF IInv, Idle
<1>3. Sound(after) /\ Sent(table, after, Head(eng.out))
  BY <1>1, SlotsAfterSound, IInvTypes DEF IInv
<1> HIDE DEF after
<1>4. after.held \in SUBSET Slots
  BY <1>3 DEF Sound, SlotTable
<1>5. EngineInv(rest, after, config.mode)
  BY <1>2, <1>3, FlushKeeps
<1> HIDE DEF rest
<1>6. CASE rest.out = <<>>
  <2>1. /\ EngineInv(eng', after, config.mode)
        /\ eng'.logical = eng'.native \union (after.held \intersect Keys)
    BY <1>1, <1>4, <1>5, <1>6, CommitKeeps
  <2> QED BY <1>1, <1>3, <1>6, <2>1 DEF IInv, Identity
<1>7. CASE rest.out # <<>>
  BY <1>1, <1>2, <1>3, <1>5, <1>7 DEF IInv, Idle
<1> QED BY <1>6, <1>7

\* Input is suspended or resumed.
LEMMA ToggleKeeps ==
  ASSUME IInv, ToggleSuspend(eng.phys)
  PROVE  IInv'
<1>1. /\ Idle /\ eng.out = <<>> /\ published \in Identity
      /\ EngineInv(eng, table, config.mode) /\ eng \in EngineState
      /\ Len(eng.expired) <= MaxExpired /\ table.held \in SUBSET Slots
      /\ eng.logical = eng.native \union (table.held \intersect Keys)
  BY IInvTypes DEF ToggleSuspend, IInv, Idle
<1>2. \A ax \in Axes : eng.last[ax] \in ax
  BY <1>1, LastKey
<1>3. CASE ~eng.suspended
  <2> DEFINE e == [eng EXCEPT !.suspended = TRUE]
  <2>1. Submit(LetGoOfAll(e), published)
    BY <1>3 DEF ToggleSuspend, Suspend
  <2>2. /\ e \in EngineState /\ e.out = <<>> /\ e.last = eng.last /\ e.suspended
        /\ e.expired = eng.expired /\ e.logical = eng.logical
    BY <1>1 DEF EngineState
  <2> HIDE DEF e
  <2>3. table.held \intersect Keys \subseteq e.logical
    BY <1>1, <2>2
  <2>4. EngineInv(LetGoOfAll(e), table, config.mode)
    BY <1>1, <1>2, <2>2, <2>3, LetGoOfAllKeeps
  <2> QED BY <1>1, <2>1, <2>4, SubmitKeeps
<1>4. CASE eng.suspended
  <2> DEFINE w == Resume(eng)
             e == Commit(w, table.held)
             c == Situation(published, NoKey, {})
  <2>1. Submit(RebuildState(e, eng.phys, c), published)
    BY <1>4 DEF ToggleSuspend
  <2>2. AllOff(eng, table)
    BY <1>1, <1>4, SuspendedAllOff
  <2>3. /\ w \in EngineState /\ w.out = <<>> /\ w.last = eng.last /\ ~w.suspended
        /\ w.expired = eng.expired /\ w.expect = eng.expect /\ w.socd = eng.socd
        /\ w.native = eng.native
    BY <1>1 DEF EngineState, Resume
  <2> HIDE DEF w
  <2>4. /\ e \in EngineState /\ e.out = w.out /\ e.last = w.last
        /\ e.suspended = w.suspended /\ e.expired = w.expired
        /\ e.expect = w.expect /\ e.socd = w.socd
    BY <1>1, <2>3 DEF EngineState, Commit
  <2> HIDE DEF e
  <2>5. AllOff(e, table) /\ ~e.suspended
    BY <1>1, <2>2, <2>3, <2>4 DEF AllOff
  <2>6. c.held = table.held /\ eng.phys \in SUBSET Keys
    BY <1>1 DEF Situation, EngineState
  <2> HIDE DEF c
  <2>7. EngineInv(RebuildState(e, eng.phys, c), table, config.mode)
    BY <2>5, <2>6, RebuildKeeps
  <2> QED BY <1>1, <2>1, <2>7, SubmitKeeps
<1> QED BY <1>3, <1>4

\* ClearHeldKeys while no key is physically held.
LEMMA ClearKeeps ==
  ASSUME IInv, eng.phys = {}, ClearHeldKeys(published)
  PROVE  IInv'
<1>1. /\ Submit(LetGoOfAll(eng), published) /\ eng.out = <<>> /\ published \in Identity
      /\ EngineInv(eng, table, config.mode) /\ eng \in EngineState
      /\ Len(eng.expired) <= MaxExpired
      /\ table.held \intersect Keys \subseteq eng.logical
  BY IInvTypes DEF ClearHeldKeys, IInv, Idle
<1>2. \A ax \in Axes : eng.last[ax] \in ax
  BY <1>1, LastKey
<1>3. EngineInv(LetGoOfAll(eng), table, config.mode)
  BY <1>1, <1>2, LetGoOfAllKeeps
<1> QED BY <1>1, <1>3, SubmitKeeps

\* Another mode is chosen, while nothing is held or owed.
LEMMA ChangeModeKeeps ==
  ASSUME IInv, NEW mode \in ModesAllowed, ChangeMode(mode)
  PROVE  IInv'
<1> DEFINE r == LetGoOfAll(eng)
<1>1. /\ Idle /\ eng.out = <<>> /\ eng.phys = {} /\ table.held = {}
      /\ eng.logical = {}
      /\ eng' = Commit(r, table.held)
      /\ config' = [config EXCEPT !.mode = mode]
      /\ UNCHANGED <<table, batchTarget, foreground, published>>
  BY DEF ChangeMode, Idle
<1>2. /\ EngineInv(eng, table, config.mode) /\ eng \in EngineState
      /\ Len(eng.expired) <= MaxExpired /\ config \in Configs
  BY IInvTypes DEF IInv
<1>3. config' \in Configs /\ config'.mode = mode
  BY <1>1, <1>2 DEF Configs
<1>4. \A ax \in Axes : eng.last[ax] \in ax
  BY <1>2, LastKey
<1>5. EngineInv(r, table, mode)
  BY <1>1, <1>2, <1>4, LetGoOfAllKeeps
<1> HIDE DEF r
<1>6. /\ EngineInv(eng', table, mode)
      /\ eng'.logical = eng'.native \union (table.held \intersect Keys)
  <2> DEFINE held == table.held
  <2>1. held \in SUBSET Slots /\ eng' = Commit(r, held)
    BY <1>1
  <2> HIDE DEF held
  <2>2. EngineInv(Commit(r, held), table, mode)
        /\ Commit(r, held).logical = r.native \union (held \intersect Keys)
        /\ Commit(r, held).native = r.native
    BY <1>5, <2>1, CommitKeeps
  <2> QED BY <2>1, <2>2 DEF held
<1> QED BY <1>1, <1>3, <1>6 DEF IInv

\* Another brake profile is chosen.
LEMMA ChangeProfileKeeps ==
  ASSUME IInv, NEW overlap \in Overlaps, ChangeProfile(overlap)
  PROVE  IInv'
<1>1. /\ config' = [config EXCEPT !.overlap = overlap]
      /\ UNCHANGED <<eng, table, batchTarget, foreground, published>>
  BY DEF ChangeProfile
<1>2. config' \in Configs /\ config'.mode = config.mode
  BY <1>1 DEF IInv, Configs
<1> QED BY <1>1, <1>2 DEF IInv, Idle

\* The pump tries the releases that are owed.
LEMMA PumpOnceKeeps ==
  ASSUME IInv, NEW oks \in SUBSET Slots, Pump(oks)
  PROVE  IInv'
<1> DEFINE on == Active(published)
           after == ReconcilePendingReleasesForTarget(table, published, on, oks)
<1>1. /\ Idle /\ eng.out = <<>> /\ table' = after /\ eng' = Commit(eng, after.held)
      /\ UNCHANGED <<batchTarget, config, foreground, published>>
  BY DEF Pump, Idle
<1>2. /\ EngineInv(eng, table, config.mode) /\ Sound(table)
      /\ published \in Identity /\ on \in BOOLEAN
  BY IInvTypes DEF IInv
<1> HIDE DEF on
<1>3. Sound(after)
  BY <1>2, ReconcileSound DEF SoundWith
<1>4. \A x \in after.held : x \in table.held /\ (x \in table.pending => x \in after.pending)
  BY <1>2, ReconcileEffect
<1> HIDE DEF after
<1>5. EngineInv(eng, after, config.mode)
  BY <1>1, <1>2, <1>4, PumpKeeps
<1>6. after.held \in SUBSET Slots
  BY <1>3 DEF Sound, SlotTable
<1>7. /\ EngineInv(eng', after, config.mode)
      /\ eng'.logical = eng'.native \union (after.held \intersect Keys)
  BY <1>1, <1>5, <1>6, CommitKeeps
<1> QED BY <1>1, <1>3, <1>7 DEF IInv

\* The initial state: nothing is held, expected or queued.
LEMMA InitKeeps ==
  ASSUME Init
  PROVE  IInv
<1>1. /\ eng = InitialEngine(Favourite) /\ table = EmptyTable /\ batchTarget = NoTarget
      /\ config \in Configs /\ foreground \in Targets /\ published = foreground
  BY DEF Init
<1>2. EmptyTable \in SlotTable /\ EmptyTable.held = {}
  BY DEF EmptyTable, SlotTable, Identity
<1>3. Sound(EmptyTable)
  BY <1>2 DEF Sound, SlotInv, ReleaseOnlyIsExact, HeldHasOwner, PendingIsOwed, EmptyTable
<1> DEFINE e == InitialEngine(Favourite)
<1>4. /\ e \in EngineState /\ e.expired = <<>> /\ e.out = <<>>
      /\ e.logical = {} /\ e.native = {} /\ e.phys = {} /\ e.last = Favourite
      /\ \A k \in Keys : e.expect[k] = NoTimer
      /\ \A ax \in Axes : e.socd[ax] = NoTimer /\ e.axisState[ax] = {}
  BY EngineAssumption DEF InitialEngine, EngineState, Identity, TimerRef
<1> HIDE DEF e
<1>5. \A ax \in Axes : e.axisState[ax] = e.phys \intersect ax
  BY <1>4
<1>6. \A k \in Keys : ~Presses(e.out, k)
  BY <1>4, EmptyBatch
<1>7. Len(e.expired) <= MaxExpired
  BY <1>4, EngineAssumption
<1>8. EngineInv(e, EmptyTable, config.mode)
  BY <1>2, <1>4, <1>5, <1>6, <1>7, NoTimersKeep, EngineAssumption
<1> QED BY <1>1, <1>2, <1>3, <1>4, <1>8 DEF IInv, Identity, e

\* Every step keeps the invariant.
LEMMA StepKeeps ==
  ASSUME IInv, [Next]_vars
  PROVE  IInv'
<1>1. ASSUME NEW k \in Keys, NEW refused \in Refusals, KeyDown(k, Routed, published, refused)
      PROVE  IInv'
  BY <1>1, KeyDownKeeps
<1>2. ASSUME NEW k \in Keys, NEW refused \in Refusals, NEW travel \in AxisOf(k) \union {NoKey},
             k \in eng.phys, KeyUp(k, Routed, published, travel, refused)
      PROVE  IInv'
  BY <1>2, KeyUpKeeps
<1>3. ASSUME NEW k \in Keys, TimerFire(k)
      PROVE  IInv'
  BY <1>3, FireKeeps
<1>4. CASE DrainTimer
  BY <1>4, DrainKeeps
<1>5. ASSUME NEW ok \in Outcomes, FlushOne(ok)
      PROVE  IInv'
  BY <1>5, FlushOneKeeps DEF Outcomes
<1>6. CASE ToggleSuspend(eng.phys)
  BY <1>6, ToggleKeeps
<1>7. CASE eng.phys = {} /\ ClearHeldKeys(published)
  BY <1>7, ClearKeeps
<1>8. ASSUME NEW mode \in ModesAllowed, ChangeMode(mode)
      PROVE  IInv'
  BY <1>8, ChangeModeKeeps
<1>9. ASSUME NEW overlap \in Overlaps, ChangeProfile(overlap)
      PROVE  IInv'
  BY <1>9, ChangeProfileKeeps
<1>10. CASE PumpSomething
  BY <1>10, PumpOnceKeeps DEF PumpSomething
<1>11. CASE UNCHANGED vars
  BY <1>11 DEF vars, IInv, Idle
<1> QED BY <1>1, <1>2, <1>3, <1>4, <1>5, <1>6, <1>7, <1>8, <1>9, <1>10, <1>11 DEF Next

-----------------------------------------------------------------------------
(* What follows for the game.                                              *)

\* The inductive invariant of the engine and its boundary, for any number of
\* keys, timers and targets, any mode and any pattern of rejections: whatever
\* the boundary holds, the state names what will end it.
THEOREM EngineInvariant == Spec => []IInv
<1>1. Init => IInv
  BY InitKeeps
<1>2. IInv /\ [Next]_vars => IInv'
  BY StepKeeps
<1> QED BY <1>1, <1>2, PTL DEF Spec

\* Every field keeps its type, and the expiry queue its bound.
THEOREM EngineTypeCorrect == Spec => []TypeOK
<1>1. IInv => TypeOK
  BY IInvTypes
<1> QED BY <1>1, EngineInvariant, PTL

\* Between two batches logical[] is what the game sees, whatever SendInput
\* rejected: CommitLogicalStateFromInjection after every batch and pump.
THEOREM EngineLogicalIsOutput == Spec => []LogicalIsOutput
<1>1. IInv => LogicalIsOutput
  BY DEF IInv, LogicalIsOutput
<1> QED BY <1>1, EngineInvariant, PTL

\* An expected timer is one that comes.
LEMMA ExpectedIsLive ==
  ASSUME IInv, NEW k \in Keys, eng.expect[k] # NoTimer
  PROVE  Live(k)
BY DEF IInv, EngineInv, KeyInv, ExpectedComes, Live

\* A key the boundary holds between two batches is physically held, has a timer
\* that will end it, or a release the pump still owes.
THEOREM EngineNoStuckKey == Spec => []NoStuckKey
<1>1. ASSUME IInv PROVE NoStuckKey
  <2> SUFFICES ASSUME Idle, NEW k \in table.held \intersect Keys
               PROVE  k \in eng.phys \/ Live(k) \/ k \in table.pending
    BY DEF NoStuckKey
  <2>1. HeldForAReason(eng, table, k)
    BY <1>1 DEF IInv, EngineInv, KeyInv
  <2>2. ~Falls(eng.out, k)
    BY EmptyBatch DEF Idle
  <2> QED BY <1>1, <2>1, <2>2, ExpectedIsLive DEF HeldForAReason
<1> QED BY <1>1, EngineInvariant, PTL

\* Both keys of an axis are held together only while a timer will end one of
\* them or a release of one of them is owed (overlap of HUMANIZED, brake).
THEOREM EngineBothHeldOnlyBriefly == Spec => []BothHeldOnlyBriefly
<1>1. ASSUME IInv PROVE BothHeldOnlyBriefly
  <2> SUFFICES ASSUME Idle, NEW k \in Keys, AxisOf(k) \subseteq table.held
               PROVE  \E j \in AxisOf(k) : Live(j) \/ j \in table.pending
    BY DEF BothHeldOnlyBriefly, Axes
  <2> DEFINE o == Opposite[k]
  <2>1. o \in Keys /\ AxisOf(k) = {k, o}
    BY AxisFacts DEF AxisOf
  <2>2. BothHeldEnds(eng, table, k)
    BY <1>1 DEF IInv, EngineInv, KeyInv
  <2>3. ~Falls(eng.out, k) /\ ~Falls(eng.out, o)
    BY EmptyBatch DEF Idle
  <2> QED BY <1>1, <2>1, <2>2, <2>3, ExpectedIsLive DEF BothHeldEnds
<1> QED BY <1>1, EngineInvariant, PTL

\* Only sending a press adds a key to what the boundary holds.
LEMMA OnlyFlushPresses ==
  ASSUME IInv, Next, NEW k \in table'.held \ table.held
  PROVE  \E ok \in BOOLEAN : ~Idle /\ table' = SlotsAfter(ok)
<1>1. CASE UNCHANGED table
  BY <1>1
<1>2. ASSUME NEW ok \in Outcomes, FlushOne(ok)
      PROVE  \E b \in BOOLEAN : ~Idle /\ table' = SlotsAfter(b)
  BY <1>2 DEF FlushOne, SlotsAfter, Outcomes
<1>3. ASSUME NEW oks \in SUBSET Slots, Pump(oks)
      PROVE  FALSE
  <2> DEFINE on == Active(published)
             after == ReconcilePendingReleasesForTarget(table, published, on, oks)
  <2>1. table' = after
    BY <1>3 DEF Pump
  <2>2. Sound(table) /\ published \in Identity /\ on \in BOOLEAN
    BY IInvTypes DEF IInv
  <2> HIDE DEF on
  <2>3. \A x \in after.held : x \in table.held
    BY <2>2, ReconcileEffect
  <2> QED BY <2>1, <2>3
<1>4. UNCHANGED table \/ (\E ok \in Outcomes : FlushOne(ok)) \/ PumpSomething
  <2> USE DEF Submit
  <2>1. ASSUME NEW j \in Keys, NEW refused \in Refusals, KeyDown(j, Routed, published, refused)
        PROVE  UNCHANGED table
    BY <2>1 DEF KeyDown
  <2>2. ASSUME NEW j \in Keys, NEW refused \in Refusals,
               NEW travel \in AxisOf(j) \union {NoKey}, KeyUp(j, Routed, published, travel, refused)
        PROVE  UNCHANGED table
    BY <2>2 DEF KeyUp
  <2>3. ASSUME NEW j \in Keys, TimerFire(j)
        PROVE  UNCHANGED table
    BY <2>3 DEF TimerFire
  <2>4. CASE DrainTimer
    BY <2>4 DEF DrainTimer
  <2>5. CASE ToggleSuspend(eng.phys)
    BY <2>5 DEF ToggleSuspend
  <2>6. CASE ClearHeldKeys(published)
    BY <2>6 DEF ClearHeldKeys
  <2>7. ASSUME NEW mode \in ModesAllowed, ChangeMode(mode)
        PROVE  UNCHANGED table
    BY <2>7 DEF ChangeMode
  <2>8. ASSUME NEW overlap \in Overlaps, ChangeProfile(overlap)
        PROVE  UNCHANGED table
    BY <2>8 DEF ChangeProfile
  <2> QED BY <2>1, <2>2, <2>3, <2>4, <2>5, <2>6, <2>7, <2>8 DEF Next
<1> QED BY <1>1, <1>2, <1>3, <1>4 DEF PumpSomething

\* FULL: no event of a batch presses a physically held key while its opposite is
\* down, not even after a rejected release (the release-only gate).
THEOREM EngineNoOpposites == Spec => NoOpposites
<1> DEFINE A == config.mode = "FULL" =>
                  \A k \in eng.phys \intersect (table'.held \ table.held) :
                    Opposite[k] \notin table.held
<1>1. ASSUME IInv, Next PROVE A
  <2> SUFFICES ASSUME config.mode = "FULL", NEW k \in eng.phys, k \in table'.held \ table.held
               PROVE  Opposite[k] \notin table.held
    OBVIOUS
  <2> DEFINE o == Opposite[k]
             h == Head(eng.out)
  <2>1. k \in Keys /\ k \in Slots /\ o \in Keys
    BY <1>1, IInvTypes, AxisFacts, KeysAssumption DEF EngineState
  <2>2. PICK ok \in BOOLEAN : ~Idle /\ table' = SlotsAfter(ok)
    BY <1>1, OnlyFlushPresses
  <2>3. Sent(table, table', h)
    BY <1>1, <2>2, SlotsAfterSound, IInvTypes DEF IInv
  <2>4. eng.out \in Seq(EventSet) /\ eng.out # <<>>
    BY <1>1, <2>2, IInvTypes DEF Idle, EngineState, EventSet
  <2>5. h \in EventSet
    BY <2>4, HeadTailProperties
  <2>6. h = Event(k, TRUE) /\ table.pending = {}
    <3> HIDE DEF h
    <3>1. h.key = k
      BY <2>1, <2>3 DEF Sent
    <3>2. h = Event(k, TRUE) \/ h = Event(k, FALSE)
      BY <2>5, <3>1 DEF EventSet, Event
    <3> QED BY <2>3, <3>1, <3>2 DEF Sent
  <2>7. Presses(eng.out, k) /\ ~FallsFirst(eng.out, o, k)
    <3> HIDE DEF o
    <3> QED BY <2>1, <2>4, <2>6, TailBatch
  <2>8. PressedWhenClear(eng, table, k) /\ OverlapIsOfLoser(eng, config.mode, k)
    BY <1>1, <2>1 DEF IInv, EngineInv, KeyInv
  <2> QED BY <2>6, <2>7, <2>8 DEF PressedWhenClear, OverlapIsOfLoser
<1>2. ASSUME IInv, UNCHANGED vars PROVE A
  BY <1>2 DEF vars
<1>3. IInv /\ [Next]_vars => [A]_vars
  BY <1>1, <1>2
<1> QED BY <1>3, EngineInvariant, PTL DEF Spec, NoOpposites
=============================================================================
