-------------------------- MODULE SparseListProofs ---------------------------
(***************************************************************************)
(* Every invariant of SparseListSync, for lists of any size and elements   *)
(* of any kind, any number of packets on the way and any sequence of       *)
(* operations: SparseListInv is inductive and implies them.                *)
(***************************************************************************)
EXTENDS SparseListInv, CommonProofs

(***************************************************************************)
(* Lists.  A list is its highest index h and an array f of n slots.        *)
(***************************************************************************)

Value == Elem \cup {Free}
ListOf(h, f) == [m_HighestIndex |-> h, m_Values |-> f]

Shaped(h, f, n) ==
  /\ n \in 0 .. MaxCapacity /\ h \in -1 .. Limit - 1 /\ h < n
  /\ f \in [0 .. n - 1 -> Value]
  /\ \A i \in 0 .. n - 1 : f[i] # Free => i <= h

Tight(h, f) == h >= 0 => f[h] # Free

\* Numbers.
LEMMA Limits ==
  /\ Limit \in Nat /\ Limit > 0 /\ MaxSize \in Nat /\ Limit <= MaxSize
  /\ MaxCapacity \in Nat /\ MaxCapacity >= 2 * Limit /\ MaxReserve \in Nat /\ MaxReserve <= MaxCapacity
  /\ MaxSize <= 2 ^ 30 /\ MaxSize < 2 ^ 32
BY LimitAssumption, MaxSizeAssumption DEF MaxCapacity

\* The greatest and the least of a set of integers.
LEMMA MaxProps ==
  ASSUME NEW N \in Int, NEW T \in SUBSET Int, T # {}, \A m \in T : m <= N
  PROVE  Max(T) \in T /\ \A m \in T : m <= Max(T)
<1>1. \E n \in T : \A m \in T : n >= m
  <2>1. PICK n \in T : \A m \in T : m <= n
    BY GreatestNatural
  <2> QED
    BY <2>1
<1> QED
  BY <1>1 DEF Max

LEMMA MinProps ==
  ASSUME NEW T \in SUBSET Nat, T # {}
  PROVE  Min(T) \in T /\ \A m \in T : Min(T) <= m
<1>1. \E n \in T : \A m \in T : n <= m
  BY LeastNatural
<1> QED
  BY <1>1 DEF Min

\* How many numbers there are below n.
LEMMA CountBelow ==
  ASSUME NEW n \in Nat
  PROVE  Cardinality(0 .. n - 1) = n /\ IsFiniteSet(0 .. n - 1)
<1>1. /\ IsFiniteSet(0 .. n - 1)
      /\ Cardinality(0 .. n - 1) = IF 0 > n - 1 THEN 0 ELSE (n - 1) - 0 + 1
  BY FS_Interval
<1> QED
  BY <1>1

\* The fields of a list.
LEMMA Fields ==
  ASSUME NEW h, NEW f, NEW n, Shaped(h, f, n), NEW l, l = ListOf(h, f)
  PROVE  /\ l.m_HighestIndex = h /\ l.m_Values = f
         /\ Slots(l) = 0 .. n - 1 /\ Capacity(l) = n
         /\ n \in Nat /\ h \in Int
<1>1. l.m_HighestIndex = h /\ l.m_Values = f
  BY DEF ListOf
<1>2. n \in Nat /\ h \in Int
  BY Limits DEF Shaped
<1>3. Slots(l) = 0 .. n - 1
  BY <1>1 DEF Slots, Shaped
<1> QED
  BY <1>1, <1>2, <1>3, CountBelow DEF Capacity

\* A list in bounds has this shape, and the shape is all there is to it.
LEMMA ShapeSound ==
  ASSUME NEW h, NEW f, NEW n, Shaped(h, f, n), NEW l, l = ListOf(h, f)
  PROVE  Sound(l) /\ (Tight(h, f) <=> Exact(l)) /\ l \in ListType
<1>1. /\ l.m_HighestIndex = h /\ l.m_Values = f
      /\ Slots(l) = 0 .. n - 1 /\ Capacity(l) = n
      /\ n \in Nat /\ h \in Int
  BY Fields
<1>2. l \in ListType
  <2>1. f \in UNION {[0 .. m - 1 -> Elem \cup {Free}] : m \in 0 .. MaxCapacity}
    BY DEF Shaped, Value
  <2>2. h \in -1 .. Limit - 1
    BY DEF Shaped
  <2> QED
    BY <2>1, <2>2 DEF ListType, ListOf
<1>3. InBounds(l)
  <2>1. PICK m : m = Min({Limit, n})
    OBVIOUS
  <2>2. m \in {Limit, n}
    <3>1. {Limit, n} \in SUBSET Nat /\ {Limit, n} # {}
      BY <1>1, Limits
    <3> QED
      BY <2>1, <3>1, MinProps
  <2>3. h \in -1 .. m - 1
    BY <2>2, <1>1, Limits DEF Shaped
  <2>4. ASSUME NEW i \in 0 .. n - 1
        PROVE  f[i] # Junk /\ (f[i] # Free => i <= h)
    <3>1. f[i] \in Value
      BY DEF Shaped
    <3> QED
      BY <3>1, ValueAssumption DEF Shaped, Value
  <2> QED
    BY <1>1, <2>1, <2>3, <2>4 DEF InBounds, IsValid
<1>4. (h >= 0 => f[h] # Free) <=> (l.m_HighestIndex >= 0 => IsValid(l, l.m_HighestIndex))
  BY <1>1 DEF IsValid
<1> QED
  BY <1>2, <1>3, <1>4 DEF Sound, Exact, WellFormed, Tight

LEMMA SoundShape ==
  ASSUME NEW l, Sound(l)
  PROVE  \E h, f, n : Shaped(h, f, n) /\ l = ListOf(h, f)
<1>1. PICK h, f : h = l.m_HighestIndex /\ f = l.m_Values
  OBVIOUS
<1>2. l \in ListType
  BY DEF Sound
<1>3. h \in -1 .. Limit - 1 /\ l = ListOf(h, f)
  BY <1>1, <1>2 DEF ListType, ListOf
<1>4. PICK n \in 0 .. MaxCapacity : f \in [0 .. n - 1 -> Value]
  <2>1. f \in UNION {[0 .. n - 1 -> Value] : n \in 0 .. MaxCapacity}
    BY <1>1, <1>2 DEF ListType, Value
  <2> QED
    BY <2>1
<1>5. n \in Nat /\ h \in Int
  BY <1>3, Limits
<1>6. Slots(l) = 0 .. n - 1
  BY <1>1, <1>4 DEF Slots
<1>7. Capacity(l) = n
  BY <1>5, <1>6, CountBelow DEF Capacity
<1>8. h < n
  <2>1. PICK m : m = Min({Limit, n})
    OBVIOUS
  <2>2. m \in {Limit, n} /\ m <= n
    <3>1. {Limit, n} \in SUBSET Nat /\ {Limit, n} # {} /\ n \in {Limit, n}
      BY <1>5, Limits
    <3> QED
      BY <2>1, <3>1, MinProps
  <2>3. h \in -1 .. m - 1
    BY <1>1, <1>7, <2>1 DEF Sound, InBounds
  <2> QED
    BY <1>5, <2>2, <2>3, Limits
<1>9. \A i \in 0 .. n - 1 : f[i] # Free => i <= h
  BY <1>1, <1>6 DEF Sound, InBounds, IsValid
<1> QED
  BY <1>3, <1>4, <1>8, <1>9 DEF Shaped

LEMMA ExactShape ==
  ASSUME NEW l, Exact(l)
  PROVE  \E h, f, n : Shaped(h, f, n) /\ Tight(h, f) /\ l = ListOf(h, f)
<1>1. Sound(l)
  BY DEF Sound, Exact, WellFormed
<1>2. PICK h, f, n : Shaped(h, f, n) /\ l = ListOf(h, f)
  BY <1>1, SoundShape
<1> QED
  BY <1>2, ShapeSound

LEMMA SameViews ==
  ASSUME NEW r, NEW q, \A j \in 0 .. Limit - 1 : View(r)[j] = View(q)[j]
  PROVE  View(r) = View(q)
BY DEF View

\* What is to be seen of a list.
LEMMA ViewOf ==
  ASSUME NEW h, NEW f, NEW n, Shaped(h, f, n), NEW l, l = ListOf(h, f)
  PROVE  /\ View(l) \in [0 .. Limit - 1 -> Value]
         /\ \A i \in 0 .. Limit - 1 :
              /\ View(l)[i] = IF i < n THEN f[i] ELSE Free
              /\ HasAt(l, i) <=> View(l)[i] # Free
         /\ \A i \in 0 .. Limit - 1 : View(l)[i] # Free => i <= h
<1>1. /\ l.m_HighestIndex = h /\ l.m_Values = f
      /\ Slots(l) = 0 .. n - 1 /\ Capacity(l) = n
      /\ n \in Nat /\ h \in Int
  BY Fields
<1>2. h < n /\ f \in [0 .. n - 1 -> Value] /\ \A i \in 0 .. n - 1 : f[i] # Free => i <= h
  BY DEF Shaped
<1>3. ASSUME NEW i \in 0 .. Limit - 1
      PROVE  /\ At(l, i) = IF i < n THEN f[i] ELSE Free
             /\ HasAt(l, i) <=> At(l, i) # Free
             /\ At(l, i) # Free => i <= h
             /\ At(l, i) \in Value
  <2>1. i \in Nat
    BY Limits
  <2>2. CASE i <= h
    <3>1. i \in 0 .. n - 1
      BY <1>1, <1>2, <2>1, <2>2
    <3>2. HasAt(l, i) <=> f[i] # Free
      BY <1>1, <2>2 DEF HasAt, IsValid
    <3>3. At(l, i) = f[i]
      BY <1>1, <3>2 DEF At
    <3>4. i < n
      BY <1>1, <3>1
    <3> QED
      BY <1>2, <2>2, <3>1, <3>2, <3>3, <3>4
  <2>3. CASE ~(i <= h)
    <3>1. ~HasAt(l, i) /\ At(l, i) = Free
      BY <1>1, <2>3 DEF HasAt, At
    <3>2. i < n => f[i] = Free
      BY <1>1, <1>2, <2>1, <2>3
    <3> QED
      BY <3>1, <3>2 DEF Value
  <2> QED
    BY <2>2, <2>3
<1>4. \A i \in 0 .. Limit - 1 : View(l)[i] = At(l, i)
  BY DEF View
<1>5. View(l) \in [0 .. Limit - 1 -> Value]
  BY <1>3 DEF View
<1> QED
  BY <1>3, <1>4, <1>5

\* A longer array with the same elements.
Widened(f, n, g, m) == \A i \in 0 .. m - 1 : g[i] = IF i < n THEN f[i] ELSE Free

LEMMA GrowShape ==
  ASSUME NEW h, NEW f, NEW n, Shaped(h, f, n), NEW l, l = ListOf(h, f),
         NEW m \in 0 .. MaxCapacity, m > h
  PROVE  \E g : Shaped(h, g, m) /\ Widened(f, n, g, m) /\ Grow(l, m) = ListOf(h, g)
<1>1. l.m_HighestIndex = h /\ l.m_Values = f /\ n \in Nat /\ h \in Int
  BY Fields
<1>2. h < n /\ f \in [0 .. n - 1 -> Value] /\ \A i \in 0 .. n - 1 : f[i] # Free => i <= h
  BY DEF Shaped
<1>3. PICK g : g = [i \in 0 .. m - 1 |-> IF i <= h THEN f[i] ELSE Free]
  OBVIOUS
<1>4. Grow(l, m) = ListOf(h, g)
  BY <1>1, <1>3 DEF Grow, ListOf
<1>5. m \in Nat
  BY Limits
<1>6. ASSUME NEW i \in 0 .. m - 1
      PROVE  g[i] \in Value /\ (g[i] # Free => i <= h) /\ g[i] = IF i < n THEN f[i] ELSE Free
  <2>1. g[i] = IF i <= h THEN f[i] ELSE Free
    BY <1>3
  <2>2. i \in Int /\ 0 <= i
    BY <1>5
  <2> QED
    BY <1>1, <1>2, <2>1, <2>2 DEF Value
<1>7. g \in [0 .. m - 1 -> Value]
  BY <1>3, <1>6
<1> QED
  BY <1>4, <1>6, <1>7 DEF Shaped, Widened

\* What the doubling in GrowToFit arrives at.
LEMMA DoublingsMin ==
  ASSUME NEW l, NEW n \in Nat \ {0}, Capacity(l) = n, NEW i \in 0 .. Limit - 1, i >= n
  PROVE  Min(Doublings(l, i)) \in i + 1 .. 2 * i
<1>1. i \in Nat /\ i < 2 ^ 32
  BY Limits
<1>2. PICK w : w = GetRequiredBits(i)
  OBVIOUS
<1>3. w \in 1 .. 32 /\ i < 2 ^ w
  BY <1>1, <1>2, RequiredBitsRange, WidthFits
<1>4. PICK T : T = Doublings(l, i)
  OBVIOUS
<1>5. \A m : m \in T <=> m > i /\ \E k \in 1 .. w : m = n * 2 ^ k
  BY <1>2, <1>4 DEF Doublings
<1>6. \A k \in 1 .. w : 2 ^ k \in Nat /\ n * 2 ^ k \in Nat /\ n * 2 ^ k >= 2 ^ k
  <2>1. ASSUME NEW k \in 1 .. w
        PROVE  2 ^ k \in Nat /\ n * 2 ^ k \in Nat /\ n * 2 ^ k >= 2 ^ k
    <3>1. PICK p : p = 2 ^ k
      OBVIOUS
    <3>2. k \in 1 .. 32
      BY <1>3
    <3>3. p \in Nat
      BY <3>1, <3>2, PowerOfTwo
    <3>4. n * p \in Nat /\ n * p >= p
      BY <3>3
    <3> QED
      BY <3>1, <3>3, <3>4
  <2> QED
    BY <2>1
<1>7. T \in SUBSET Nat
  BY <1>5, <1>6
<1>8. T # {}
  <2>1. w \in 1 .. w
    BY <1>3
  <2>2. PICK p : p = 2 ^ w
    OBVIOUS
  <2>3. p \in Nat /\ n * p \in Nat /\ n * p >= p /\ i < p
    BY <1>3, <1>6, <2>1, <2>2
  <2>4. n * p \in T
    BY <1>1, <1>5, <2>1, <2>2, <2>3
  <2> QED
    BY <2>4
<1>9. PICK m : m = Min(T)
  OBVIOUS
<1>10. m \in T /\ \A q \in T : m <= q
  BY <1>7, <1>8, <1>9, MinProps
<1>11. PICK k \in 1 .. w : m > i /\ m = n * 2 ^ k
  BY <1>5, <1>10
<1>12. m \in Nat
  BY <1>7, <1>10
<1>13. m <= 2 * i
  <2>1. CASE k = 1
    <3>1. 2 ^ 1 = 2
      OBVIOUS
    <3>2. m = n * 2
      BY <1>11, <2>1, <3>1
    <3> QED
      BY <1>1, <3>2
  <2>2. CASE k # 1
    <3>1. k - 1 \in 1 .. w /\ k - 1 \in 0 .. 31 /\ (k - 1) + 1 = k
      BY <1>3, <2>2
    <3>2. PICK p : p = 2 ^ (k - 1)
      OBVIOUS
    <3>3. p \in Nat /\ 2 ^ k = 2 * p
      BY <3>1, <3>2, PowerStep
    <3>4. m = 2 * (n * p) /\ n * p \in Nat
      BY <1>11, <3>3
    <3>5. ~(n * p > i)
      <4>1. SUFFICES ASSUME n * p > i PROVE FALSE
        OBVIOUS
      <4>2. n * p \in T
        BY <1>5, <3>1, <3>2, <4>1
      <4>3. m <= n * p
        BY <1>10, <4>2
      <4> QED
        BY <1>1, <3>4, <4>1, <4>3
    <3> QED
      BY <1>1, <3>4, <3>5
  <2> QED
    BY <2>1, <2>2
<1> QED
  BY <1>1, <1>4, <1>9, <1>11, <1>12, <1>13

LEMMA GrowToFitShape ==
  ASSUME NEW h, NEW f, NEW n, Shaped(h, f, n), NEW l, l = ListOf(h, f), NEW i \in 0 .. Limit - 1
  PROVE  \E g, m : Shaped(h, g, m) /\ Widened(f, n, g, m) /\ i < m /\ n <= m
                   /\ GrowToFit(l, i) = ListOf(h, g)
<1>1. Capacity(l) = n /\ n \in Nat /\ h \in Int
  BY Fields
<1>2. i \in Nat /\ h < n
  BY Limits DEF Shaped
<1>3. CASE i < n
  <2>1. GrowToFit(l, i) = l
    BY <1>1, <1>3 DEF GrowToFit
  <2>2. Widened(f, n, f, n)
    BY <1>1 DEF Widened
  <2> QED
    BY <1>1, <1>3, <2>1, <2>2
<1>4. CASE i >= n
  <2>1. \E m \in 0 .. MaxCapacity : m > i /\ GrowToFit(l, i) = Grow(l, m)
    <3>1. CASE n = 0
      <4>1. GrowToFit(l, i) = Grow(l, i + 1)
        BY <1>1, <1>2, <1>4, <3>1 DEF GrowToFit
      <4>2. i + 1 \in 0 .. MaxCapacity /\ i + 1 > i
        BY <1>2, Limits
      <4> QED
        BY <4>1, <4>2
    <3>2. CASE n # 0
      <4>1. PICK m : m = Min(Doublings(l, i))
        OBVIOUS
      <4>2. m \in i + 1 .. 2 * i
        BY <1>1, <1>4, <3>2, <4>1, DoublingsMin
      <4>3. GrowToFit(l, i) = Grow(l, m)
        BY <1>1, <1>2, <1>4, <3>2, <4>1 DEF GrowToFit
      <4>4. m \in 0 .. MaxCapacity /\ m > i
        BY <1>2, <4>2, Limits
      <4> QED
        BY <4>3, <4>4
    <3> QED
      BY <3>1, <3>2
  <2>2. PICK m \in 0 .. MaxCapacity : m > i /\ GrowToFit(l, i) = Grow(l, m)
    BY <2>1
  <2>3. m > h /\ m \in Nat /\ n <= m
    BY <1>1, <1>2, <1>4, <2>2, Limits
  <2>4. PICK g : Shaped(h, g, m) /\ Widened(f, n, g, m) /\ Grow(l, m) = ListOf(h, g)
    BY <2>3, GrowShape
  <2> QED
    BY <1>2, <2>2, <2>3, <2>4
<1> QED
  BY <1>1, <1>2, <1>3, <1>4

\* One more element.
LEMMA PlacedShape ==
  ASSUME NEW h, NEW g, NEW m, Shaped(h, g, m), NEW i \in 0 .. Limit - 1, i < m, NEW v \in Elem
  PROVE  \E k, e :
           /\ k = (IF i > h THEN i ELSE h) /\ e = [g EXCEPT ![i] = v]
           /\ Shaped(k, e, m) /\ (Tight(h, g) => Tight(k, e))
           /\ \A j \in 0 .. m - 1 : e[j] = IF j = i THEN v ELSE g[j]
<1>1. PICK k, e : k = (IF i > h THEN i ELSE h) /\ e = [g EXCEPT ![i] = v]
  OBVIOUS
<1>2. m \in 0 .. MaxCapacity /\ h \in -1 .. Limit - 1 /\ h < m /\ g \in [0 .. m - 1 -> Value]
      /\ \A j \in 0 .. m - 1 : g[j] # Free => j <= h
  BY DEF Shaped
<1>3. m \in Nat /\ h \in Int /\ i \in Nat /\ i \in 0 .. m - 1
  BY <1>2, Limits
<1>4. k \in -1 .. Limit - 1 /\ k < m /\ k >= i /\ k >= h
  BY <1>1, <1>2, <1>3, Limits
<1>5. v \in Value /\ v # Free
  BY ValueAssumption DEF Value
<1>6. e \in [0 .. m - 1 -> Value]
  BY <1>1, <1>2, <1>3, <1>5
<1>7. \A j \in 0 .. m - 1 : e[j] = IF j = i THEN v ELSE g[j]
  BY <1>1, <1>2
<1>8. \A j \in 0 .. m - 1 : e[j] # Free => j <= k
  BY <1>2, <1>3, <1>4, <1>7
<1>9. Tight(h, g) => Tight(k, e)
  <2>1. k >= 0 => k \in 0 .. m - 1
    BY <1>3, <1>4
  <2> QED
    BY <1>1, <1>2, <1>3, <1>5, <1>7, <2>1 DEF Tight
<1> QED
  BY <1>1, <1>2, <1>4, <1>6, <1>7, <1>8, <1>9 DEF Shaped

\* InsertAt and EmplaceAt.
LEMMA PlaceAtView ==
  ASSUME NEW l, Sound(l), NEW i \in 0 .. Limit - 1, NEW v \in Elem, NEW r, r = PlaceAt(l, i, v)
  PROVE  /\ Sound(r) /\ (Exact(l) => Exact(r))
         /\ \A j \in 0 .. Limit - 1 : View(r)[j] = IF j = i THEN v ELSE View(l)[j]
<1>1. PICK h, f, n : Shaped(h, f, n) /\ l = ListOf(h, f)
  BY SoundShape
<1>2. l.m_HighestIndex = h /\ n \in Nat /\ h \in Int /\ i \in Nat
  BY <1>1, Fields, Limits
<1>3. PICK g, m : Shaped(h, g, m) /\ Widened(f, n, g, m) /\ i < m /\ n <= m
                  /\ GrowToFit(l, i) = ListOf(h, g)
  BY <1>1, GrowToFitShape
<1>4. PICK k, e :
           /\ k = (IF i > h THEN i ELSE h) /\ e = [g EXCEPT ![i] = v]
           /\ Shaped(k, e, m) /\ (Tight(h, g) => Tight(k, e))
           /\ \A j \in 0 .. m - 1 : e[j] = IF j = i THEN v ELSE g[j]
  BY <1>3, PlacedShape
<1>5. Max({h, i}) = k
  <2>1. PICK x : x = Max({h, i})
    OBVIOUS
  <2>2. {h, i} \in SUBSET Int /\ {h, i} # {} /\ k \in Int /\ \A y \in {h, i} : y <= k
    BY <1>2, <1>4
  <2>3. x \in {h, i} /\ \A y \in {h, i} : y <= x
    BY <2>1, <2>2, MaxProps
  <2> QED
    BY <1>2, <1>4, <2>1, <2>3
<1>6. r = ListOf(k, e)
  <2>1. GrowToFit(l, i).m_Values = g
    BY <1>3 DEF ListOf
  <2> QED
    BY <1>2, <1>4, <1>5, <2>1 DEF PlaceAt, ListOf
<1>7. m \in Nat
  BY <1>3, Limits DEF Shaped
<1>8. Tight(h, f) => Tight(h, g)
  BY <1>1, <1>2, <1>3, <1>7 DEF Tight, Widened, Shaped
<1>9. ASSUME NEW j \in 0 .. Limit - 1
      PROVE  View(r)[j] = IF j = i THEN v ELSE View(l)[j]
  <2>0. Shaped(k, e, m)
    BY <1>4
  <2>1. View(r)[j] = IF j < m THEN e[j] ELSE Free
    BY <1>6, <2>0, ViewOf
  <2>2. View(l)[j] = IF j < n THEN f[j] ELSE Free
    BY <1>1, ViewOf
  <2>3. j \in Nat
    BY Limits
  <2>4. j < m => j \in 0 .. m - 1
    BY <1>7, <2>3
  <2> QED
    BY <1>2, <1>3, <1>4, <1>7, <2>1, <2>2, <2>3, <2>4 DEF Widened
<1>10. Sound(r) /\ (Tight(k, e) <=> Exact(r))
  BY <1>4, <1>6, ShapeSound
<1>11. Tight(h, f) <=> Exact(l)
  BY <1>1, ShapeSound
<1> QED
  BY <1>4, <1>8, <1>9, <1>10, <1>11

\* RemoveAt, once or in a loop.
LEMMA RemoveEachView ==
  ASSUME NEW l, Sound(l), NEW S, NEW r, r = RemoveEach(l, S)
  PROVE  /\ Sound(r) /\ (Exact(l) => Exact(r))
         /\ \A j \in 0 .. Limit - 1 : View(r)[j] = IF j \in S THEN Free ELSE View(l)[j]
<1>1. PICK h, f, n : Shaped(h, f, n) /\ l = ListOf(h, f)
  BY SoundShape
<1>2. /\ l.m_HighestIndex = h /\ l.m_Values = f
      /\ Slots(l) = 0 .. n - 1 /\ Capacity(l) = n
      /\ n \in Nat /\ h \in Int
  BY <1>1, Fields
<1>3. n \in 0 .. MaxCapacity /\ h \in -1 .. Limit - 1 /\ h < n /\ f \in [0 .. n - 1 -> Value]
      /\ \A j \in 0 .. n - 1 : f[j] # Free => j <= h
  BY <1>1 DEF Shaped
<1>4. PICK gone : gone = {i \in Slots(l) \cap S : IsValid(l, i)}
  OBVIOUS
<1>5. \A i : i \in gone <=> i \in 0 .. n - 1 /\ i \in S /\ f[i] # Free
  BY <1>2, <1>4 DEF IsValid
<1>6. PICK left : left = {j \in 0 .. h : j \notin gone /\ f[j] # Free}
  OBVIOUS
<1>7. ASSUME NEW j \in 0 .. Limit - 1
      PROVE  View(l)[j] = IF j < n THEN f[j] ELSE Free
  BY <1>1, ViewOf
<1>8. CASE gone = {}
  <2>1. r = l
    BY <1>4, <1>8 DEF RemoveEach
  <2>2. ASSUME NEW j \in 0 .. Limit - 1, j \in S
        PROVE  View(l)[j] = Free
    <3>1. j \in Nat
      BY Limits
    <3>2. j < n => j \in 0 .. n - 1
      BY <1>2, <3>1
    <3> QED
      BY <1>5, <1>7, <1>8, <2>2, <3>2
  <2> QED
    BY <2>1, <2>2
<1>9. CASE gone # {}
  <2>1. PICK k : k = Max({-1} \cup left)
    OBVIOUS
  <2>2. k \in {-1} \cup left /\ \A y \in {-1} \cup left : y <= k
    <3>1. PICK T : T = {-1} \cup left
      OBVIOUS
    <3>2. T \in SUBSET Int /\ T # {} /\ \A y \in T : y <= IF h >= 0 THEN h ELSE 0
      BY <1>2, <1>6, <3>1
    <3>3. (IF h >= 0 THEN h ELSE 0) \in Int
      BY <1>2
    <3>4. PICK b \in Int : \A y \in T : y <= b
      BY <3>2, <3>3
    <3> QED
      BY <2>1, <3>1, <3>2, <3>4, MaxProps
  <2>3. PICK e : e = [i \in 0 .. n - 1 |-> IF i \in gone THEN Free ELSE f[i]]
    OBVIOUS
  <2>4. r = ListOf(k, e)
    BY <1>2, <1>4, <1>6, <1>9, <2>1, <2>3 DEF RemoveEach, ListOf, IsValid
  <2>5. e \in [0 .. n - 1 -> Value] /\ \A i \in 0 .. n - 1 : e[i] = IF i \in gone THEN Free ELSE f[i]
    BY <1>3, <2>3 DEF Value
  <2>6. k \in -1 .. h /\ k \in Int
    <3>1. h >= 0
      <4>1. PICK i \in gone : TRUE
        BY <1>9
      <4>2. i \in 0 .. n - 1 /\ f[i] # Free
        BY <1>5, <4>1
      <4>3. i <= h
        BY <1>3, <4>2
      <4> QED
        BY <1>2, <4>2, <4>3
    <3> QED
      BY <1>2, <1>6, <2>2, <3>1
  <2>7. \A i \in 0 .. n - 1 : e[i] # Free => i <= k
    <3>1. ASSUME NEW i \in 0 .. n - 1, e[i] # Free
          PROVE  i <= k
      <4>1. i \notin gone /\ f[i] # Free
        BY <2>5, <3>1
      <4>2. i \in 0 .. h
        BY <1>2, <1>3, <4>1
      <4>3. i \in left
        BY <1>6, <4>1, <4>2
      <4> QED
        BY <2>2, <4>3
    <3> QED
      BY <3>1
  <2>8. Shaped(k, e, n)
    <3>1. k \in -1 .. Limit - 1 /\ k < n
      BY <1>2, <1>3, <2>6, Limits
    <3> QED
      BY <1>3, <2>5, <2>7, <3>1 DEF Shaped
  <2>9. Tight(k, e)
    <3>1. ASSUME k >= 0
          PROVE  e[k] # Free
      <4>1. k \in left
        BY <2>2, <2>6, <3>1
      <4>2. k \in 0 .. n - 1
        BY <1>2, <1>3, <2>6, <3>1
      <4> QED
        BY <1>6, <2>5, <4>1, <4>2
    <3> QED
      BY <3>1 DEF Tight
  <2>10. ASSUME NEW j \in 0 .. Limit - 1
         PROVE  View(r)[j] = IF j \in S THEN Free ELSE View(l)[j]
    <3>1. View(r)[j] = IF j < n THEN e[j] ELSE Free
      BY <2>4, <2>8, ViewOf
    <3>2. j \in Nat
      BY Limits
    <3>3. CASE j < n
      <4>1. j \in 0 .. n - 1
        BY <1>2, <3>2, <3>3
      <4>2. View(r)[j] = IF j \in gone THEN Free ELSE f[j]
        BY <2>5, <3>1, <3>3, <4>1
      <4> QED
        BY <1>5, <1>7, <3>3, <4>1, <4>2
    <3>4. CASE ~(j < n)
      BY <1>7, <3>1, <3>4
    <3> QED
      BY <3>3, <3>4
  <2> QED
    BY <2>4, <2>8, <2>9, <2>10, ShapeSound
<1> QED
  BY <1>8, <1>9

\* PushBack and EmplaceBack.
LEMMA PushBackSound ==
  ASSUME NEW l, Sound(l), l.m_HighestIndex + 1 < Limit, NEW v \in Elem, NEW r, r = PushBack(l, v)
  PROVE  Sound(r) /\ (Exact(l) => Exact(r))
<1>1. PICK h, f, n : Shaped(h, f, n) /\ l = ListOf(h, f)
  BY SoundShape
<1>2. l.m_HighestIndex = h /\ l.m_Values = f /\ Capacity(l) = n /\ n \in Nat /\ h \in Int
  BY <1>1, Fields
<1>3. PICK i : i = h + 1
  OBVIOUS
<1>4. i \in 0 .. Limit - 1 /\ h < n /\ i > h
  BY <1>1, <1>2, <1>3, Limits DEF Shaped
<1>5. PICK grown : grown = IF h + 1 = n THEN Grow(l, Doubled(l)) ELSE l
  OBVIOUS
<1>6. \E g, m : Shaped(h, g, m) /\ Widened(f, n, g, m) /\ i < m /\ n <= m /\ grown = ListOf(h, g)
  <2>1. CASE h + 1 = n
    <3>1. PICK m : m = Doubled(l)
      OBVIOUS
    <3>2. m = IF n = 0 THEN 1 ELSE 2 * n
      BY <1>2, <3>1 DEF Doubled
    <3>3. m \in 0 .. MaxCapacity /\ m > h /\ i < m /\ n <= m
      BY <1>2, <1>3, <1>4, <2>1, <3>2, Limits
    <3>4. PICK g : Shaped(h, g, m) /\ Widened(f, n, g, m) /\ Grow(l, m) = ListOf(h, g)
      BY <1>1, <3>3, GrowShape
    <3> QED
      BY <1>5, <2>1, <3>1, <3>3, <3>4
  <2>2. CASE h + 1 # n
    <3>1. Widened(f, n, f, n) /\ i < n
      BY <1>2, <1>3, <1>4, <2>2 DEF Widened
    <3> QED
      BY <1>1, <1>2, <1>5, <2>2, <3>1
  <2> QED
    BY <2>1, <2>2
<1>7. PICK g, m : Shaped(h, g, m) /\ Widened(f, n, g, m) /\ i < m /\ n <= m /\ grown = ListOf(h, g)
  BY <1>6
<1>8. PICK k, e :
           /\ k = (IF i > h THEN i ELSE h) /\ e = [g EXCEPT ![i] = v]
           /\ Shaped(k, e, m) /\ (Tight(h, g) => Tight(k, e))
           /\ \A j \in 0 .. m - 1 : e[j] = IF j = i THEN v ELSE g[j]
  BY <1>4, <1>7, PlacedShape
<1>9. r = ListOf(k, e)
  <2>1. grown.m_Values = g /\ k = i
    BY <1>4, <1>7, <1>8 DEF ListOf
  <2>2. r = [m_HighestIndex |-> i, m_Values |-> [grown.m_Values EXCEPT ![i] = v]]
    BY <1>2, <1>3, <1>5 DEF PushBack
  <2> QED
    BY <1>8, <2>1, <2>2 DEF ListOf
<1>10. Tight(h, f) => Tight(h, g)
  <2>1. m \in Nat
    BY <1>7, Limits DEF Shaped
  <2> QED
    BY <1>2, <1>4, <1>7, <2>1 DEF Tight, Widened
<1>11. Sound(r) /\ (Tight(k, e) <=> Exact(r))
  BY <1>8, <1>9, ShapeSound
<1>12. Tight(h, f) <=> Exact(l)
  BY <1>1, ShapeSound
<1> QED
  BY <1>8, <1>10, <1>11, <1>12

LEMMA EmplaceSound ==
  ASSUME NEW l, Sound(l), NEW v \in Elem, NEW r, r = Emplace(l, v), r.m_HighestIndex < Limit
  PROVE  Sound(r) /\ (Exact(l) => Exact(r))
<1>1. PICK h, f, n : Shaped(h, f, n) /\ l = ListOf(h, f)
  BY SoundShape
<1>2. /\ l.m_HighestIndex = h /\ l.m_Values = f
      /\ Slots(l) = 0 .. n - 1 /\ Capacity(l) = n
      /\ n \in Nat /\ h \in Int
  BY <1>1, Fields
<1>3. PICK free : free = {i \in Slots(l) : ~IsValid(l, i)}
  OBVIOUS
<1>4. CASE free # {}
  <2>1. free \in SUBSET Nat
    BY <1>2, <1>3
  <2>2. PICK i : i = Min(free)
    OBVIOUS
  <2>3. i \in free /\ i \in Nat
    BY <1>4, <2>1, <2>2, MinProps
  <2>4. r = PlaceAt(l, i, v)
    BY <1>3, <1>4, <2>2 DEF Emplace
  <2>5. i <= r.m_HighestIndex
    <3>1. r.m_HighestIndex = Max({h, i})
      BY <1>2, <2>4 DEF PlaceAt
    <3>2. {h, i} \in SUBSET Int /\ {h, i} # {} /\ i \in {h, i}
      BY <1>2, <2>3
    <3>3. \E b \in Int : \A y \in {h, i} : y <= b
      BY <1>2, <2>3
    <3> QED
      BY <3>1, <3>2, <3>3, MaxProps
  <2>6. r.m_HighestIndex \in Int
    <3>1. r.m_HighestIndex = Max({h, i})
      BY <1>2, <2>4 DEF PlaceAt
    <3>2. {h, i} \in SUBSET Int /\ {h, i} # {}
      BY <1>2, <2>3
    <3>3. \E b \in Int : \A y \in {h, i} : y <= b
      BY <1>2, <2>3
    <3> QED
      BY <3>1, <3>2, <3>3, MaxProps
  <2>7. i \in 0 .. Limit - 1
    BY <2>3, <2>5, <2>6, Limits
  <2> QED
    BY <2>4, <2>7, PlaceAtView
<1>5. CASE free = {}
  <2>1. r = PushBack(l, v)
    BY <1>3, <1>5 DEF Emplace
  <2>2. r.m_HighestIndex = h + 1
    BY <1>2, <2>1 DEF PushBack
  <2>3. l.m_HighestIndex + 1 < Limit
    BY <1>2, <2>2
  <2> QED
    BY <2>1, <2>3, PushBackSound
<1> QED
  BY <1>4, <1>5

LEMMA ClearSound ==
  ASSUME NEW l, Sound(l)
  PROVE  Exact(Clear(l))
<1>1. PICK h, f, n : Shaped(h, f, n) /\ l = ListOf(h, f)
  BY SoundShape
<1>2. l.m_HighestIndex = h /\ l.m_Values = f /\ Slots(l) = 0 .. n - 1 /\ n \in Nat /\ h \in Int
  BY <1>1, Fields
<1>3. PICK e : e = [i \in 0 .. n - 1 |-> IF i <= h THEN Free ELSE f[i]]
  OBVIOUS
<1>4. Clear(l) = ListOf(-1, e)
  BY <1>2, <1>3 DEF Clear, ListOf
<1>5. \A i \in 0 .. n - 1 : e[i] = Free
  BY <1>1, <1>3 DEF Shaped
<1>6. Shaped(-1, e, n) /\ Tight(-1, e)
  <2>1. e \in [0 .. n - 1 -> Value]
    BY <1>3, <1>5 DEF Value
  <2>2. -1 \in -1 .. Limit - 1 /\ -1 < n /\ n \in 0 .. MaxCapacity
    BY <1>1, <1>2, Limits DEF Shaped
  <2> QED
    BY <1>5, <2>1, <2>2 DEF Shaped, Tight
<1> QED
  BY <1>4, <1>6, ShapeSound

LEMMA ReserveSound ==
  ASSUME NEW l, Sound(l), NEW size \in 1 .. MaxReserve, NEW r, r = Reserve(l, size)
  PROVE  Sound(r) /\ (Exact(l) => Exact(r))
<1>1. PICK h, f, n : Shaped(h, f, n) /\ l = ListOf(h, f)
  BY SoundShape
<1>2. Capacity(l) = n /\ n \in Nat /\ h \in Int
  BY <1>1, Fields
<1>3. CASE size > n
  <2>1. size \in 0 .. MaxCapacity /\ size > h
    BY <1>1, <1>2, <1>3, Limits DEF Shaped
  <2>2. PICK g : Shaped(h, g, size) /\ Widened(f, n, g, size) /\ Grow(l, size) = ListOf(h, g)
    BY <1>1, <2>1, GrowShape
  <2>3. r = ListOf(h, g)
    BY <1>2, <1>3, <2>2 DEF Reserve
  <2>4. Tight(h, f) => Tight(h, g)
    BY <1>1, <1>2, <2>1, <2>2 DEF Tight, Widened, Shaped
  <2>5. Sound(r) /\ (Tight(h, g) <=> Exact(r))
    BY <2>2, <2>3, ShapeSound
  <2>6. Tight(h, f) <=> Exact(l)
    BY <1>1, ShapeSound
  <2> QED
    BY <2>4, <2>5, <2>6
<1>4. CASE ~(size > n)
  BY <1>2, <1>4 DEF Reserve
<1> QED
  BY <1>3, <1>4

\* operator =: the elements of the right list, whatever was in the left one.
LEMMA CopyView ==
  ASSUME NEW l, Sound(l), NEW q, Sound(q), NEW r, r = Copy(l, q)
  PROVE  Sound(r) /\ (Exact(q) => Exact(r)) /\ View(r) = View(q)
<1>1. PICK h, f, n : Shaped(h, f, n) /\ l = ListOf(h, f)
  BY SoundShape
<1>2. PICK h2, f2, n2 : Shaped(h2, f2, n2) /\ q = ListOf(h2, f2)
  BY SoundShape
<1>3. Slots(l) = 0 .. n - 1 /\ Capacity(l) = n /\ n \in Nat
  BY <1>1, Fields
<1>4. q.m_HighestIndex = h2 /\ q.m_Values = f2 /\ Slots(q) = 0 .. n2 - 1 /\ n2 \in Nat /\ h2 \in Int
  BY <1>2, Fields
<1>5. PICK m : m = IF h2 >= n THEN n2 ELSE n
  OBVIOUS
<1>6. m \in Nat /\ m \in 0 .. MaxCapacity /\ h2 < m /\ h2 \in -1 .. Limit - 1
  BY <1>1, <1>2, <1>3, <1>4, <1>5 DEF Shaped
<1>7. PICK e : e = [i \in 0 .. m - 1 |-> IF i <= h2 THEN f2[i] ELSE Free]
  OBVIOUS
<1>8. r = ListOf(h2, e)
  BY <1>3, <1>4, <1>5, <1>7 DEF Copy, ListOf
<1>9. h2 < n2 /\ f2 \in [0 .. n2 - 1 -> Value] /\ \A i \in 0 .. n2 - 1 : f2[i] # Free => i <= h2
  BY <1>2 DEF Shaped
<1>10. ASSUME NEW i \in 0 .. m - 1
       PROVE  e[i] \in Value /\ (e[i] # Free => i <= h2) /\ e[i] = IF i < n2 THEN f2[i] ELSE Free
  <2>1. e[i] = IF i <= h2 THEN f2[i] ELSE Free
    BY <1>7
  <2>2. i \in Int /\ 0 <= i
    BY <1>6
  <2> QED
    BY <1>4, <1>9, <2>1, <2>2 DEF Value
<1>11. Shaped(h2, e, m)
  <2>1. e \in [0 .. m - 1 -> Value]
    BY <1>7, <1>10
  <2> QED
    BY <1>6, <1>10, <2>1 DEF Shaped
<1>12. Tight(h2, f2) => Tight(h2, e)
  BY <1>4, <1>6, <1>9, <1>10 DEF Tight
<1>13. Sound(r) /\ (Tight(h2, e) <=> Exact(r))
  BY <1>8, <1>11, ShapeSound
<1>14. Tight(h2, f2) <=> Exact(q)
  BY <1>2, ShapeSound
<1>15. View(r) = View(q)
  <2>2. ASSUME NEW j \in 0 .. Limit - 1
        PROVE  View(r)[j] = View(q)[j]
    <3>1. View(r)[j] = IF j < m THEN e[j] ELSE Free
      BY <1>8, <1>11, ViewOf
    <3>2. View(q)[j] = (IF j < n2 THEN f2[j] ELSE Free) /\ (View(q)[j] # Free => j <= h2)
      BY <1>2, ViewOf
    <3>3. j \in Nat
      BY Limits
    <3>4. CASE j < m
      <4>1. j \in 0 .. m - 1
        BY <1>6, <3>3, <3>4
      <4> QED
        BY <1>10, <3>1, <3>2, <3>4, <4>1
    <3>5. CASE ~(j < m)
      BY <1>4, <1>6, <3>1, <3>2, <3>3, <3>5
    <3> QED
      BY <3>4, <3>5
  <2> QED
    BY <2>2, SameViews
<1> QED
  BY <1>12, <1>13, <1>14, <1>15

LEMMA EmptyExact ==
  /\ Exact(EmptyList) /\ Sound(EmptyList) /\ EmptyList \in ListType
  /\ \A j \in 0 .. Limit - 1 : View(EmptyList)[j] = Free
<1>1. PICK e : e = << >>
  OBVIOUS
<1>2. 0 .. -1 = {}
  OBVIOUS
<1>3. e \in [0 .. 0 - 1 -> Value]
  <2>1. e \in [{} -> Value]
    BY <1>1
  <2> QED
    BY <1>2, <2>1
<1>4. Shaped(-1, e, 0) /\ Tight(-1, e)
  <2>1. -1 \in -1 .. Limit - 1 /\ 0 \in 0 .. MaxCapacity /\ -1 < 0
    BY Limits
  <2>2. \A i \in 0 .. 0 - 1 : e[i] # Free => i <= -1
    BY <1>2
  <2> QED
    BY <1>3, <2>1, <2>2 DEF Shaped, Tight
<1>5. EmptyList = ListOf(-1, e)
  BY <1>1 DEF EmptyList, ListOf
<1>6. ASSUME NEW j \in 0 .. Limit - 1
      PROVE  View(EmptyList)[j] = Free
  <2>1. View(EmptyList)[j] = IF j < 0 THEN e[j] ELSE Free
    BY <1>4, <1>5, ViewOf
  <2> QED
    BY <2>1, Limits
<1> QED
  BY <1>4, <1>5, <1>6, ShapeSound

(***************************************************************************)
(* The rank of a number in a set: how many smaller ones there are.         *)
(***************************************************************************)
Rank(S, x) == Cardinality({y \in S : y < x})

\* The numbers in increasing order have the ranks 0, 1, 2...
LEMMA OrderRank ==
  ASSUME NEW a \in Int, NEW b \in Int, NEW S \in SUBSET (a .. b),
         NEW i \in 1 .. Cardinality(S)
  PROVE  Rank(S, InOrder(S)[i]) = i - 1
<1>1. PICK s, c : s = InOrder(S) /\ c = Cardinality(S)
  OBVIOUS
<1>2. /\ c \in Nat /\ s \in [1 .. c -> S]
      /\ \A j, k \in 1 .. c : j < k => s[j] < s[k]
      /\ \A x \in S : \E j \in 1 .. c : s[j] = x
  <2>1. /\ IsFiniteSet(S) /\ Cardinality(S) \in Nat
        /\ InOrder(S) \in [1 .. Cardinality(S) -> S]
        /\ \A j, k \in 1 .. Cardinality(S) : j < k => InOrder(S)[j] < InOrder(S)[k]
        /\ Covers(InOrder(S), Cardinality(S), S)
    BY InOrderProps
  <2>2. Covers(s, c, S)
    BY <1>1, <2>1
  <2> QED
    BY <1>1, <2>1, <2>2 DEF Covers
<1>3. i \in 1 .. c /\ i \in Nat
  BY <1>1, <1>2
<1>4. \A j \in 1 .. c : s[j] \in S /\ s[j] \in Int
  <2>1. S \subseteq Int
    OBVIOUS
  <2> QED
    BY <1>2, <2>1
<1>5. PICK T : T = {y \in S : y < s[i]}
  OBVIOUS
<1>6. PICK t : t = [k \in 1 .. i - 1 |-> s[k]]
  OBVIOUS
<1>7. \A k \in 1 .. i - 1 : k \in 1 .. c /\ k < i /\ t[k] = s[k]
  BY <1>2, <1>3, <1>6
<1>8. t \in [1 .. i - 1 -> T]
  BY <1>2, <1>3, <1>4, <1>5, <1>6, <1>7
<1>9. \A k, m \in 1 .. i - 1 : t[k] = t[m] => k = m
  <2>1. ASSUME NEW k \in 1 .. i - 1, NEW m \in 1 .. i - 1, t[k] = t[m], k # m
        PROVE  FALSE
    <3>1. k < m \/ m < k
      BY <2>1
    <3> QED
      BY <1>2, <1>4, <1>7, <2>1, <3>1
  <2> QED
    BY <2>1
<1>10. \A y \in T : \E k \in 1 .. i - 1 : t[k] = y
  <2>1. ASSUME NEW y \in T
        PROVE  \E k \in 1 .. i - 1 : t[k] = y
    <3>1. y \in S /\ y < s[i]
      BY <1>5
    <3>2. PICK k \in 1 .. c : s[k] = y
      BY <1>2, <3>1
    <3>3. ~(i < k) /\ k # i
      BY <1>2, <1>3, <1>4, <3>1, <3>2
    <3>4. k \in 1 .. i - 1
      BY <1>2, <1>3, <3>3
    <3> QED
      BY <1>7, <3>2, <3>4
  <2> QED
    BY <2>1
<1>11. ExistsBijection(1 .. i - 1, T)
  <2>1. t \in Injection(1 .. i - 1, T)
    <3>1. PICK D : D = 1 .. i - 1
      OBVIOUS
    <3>2. t \in [D -> T] /\ \A k, m \in D : t[k] = t[m] => k = m
      BY <1>8, <1>9, <3>1
    <3>3. t \in Injection(D, T)
      BY <3>2 DEF Injection, IsInjective
    <3> QED
      BY <3>1, <3>3
  <2>2. t \in Surjection(1 .. i - 1, T)
    BY <1>8, <1>10 DEF Surjection
  <2> QED
    BY <2>1, <2>2 DEF ExistsBijection, Bijection
<1>12. IsFiniteSet(1 .. i - 1) /\ Cardinality(1 .. i - 1) = i - 1
  <2>1. i - 1 \in Int /\ 1 \in Int
    BY <1>3
  <2>2. /\ IsFiniteSet(1 .. i - 1)
        /\ Cardinality(1 .. i - 1) = IF 1 > i - 1 THEN 0 ELSE (i - 1) - 1 + 1
    BY <2>1, FS_Interval
  <2> QED
    BY <1>3, <2>2
<1>13. Cardinality(T) = i - 1
  BY <1>11, <1>12, FS_Bijection
<1> QED
  BY <1>1, <1>5, <1>13 DEF Rank

Ranked(S, c) == \A n \in 0 .. c - 1 : \E x \in S : Rank(S, x) = n

\* Every rank below the number of elements is that of exactly one element.
LEMMA RankProps ==
  ASSUME NEW a \in Int, NEW b \in Int, NEW S \in SUBSET (a .. b)
  PROVE  /\ Cardinality(S) \in Nat /\ IsFiniteSet(S)
         /\ Ranked(S, Cardinality(S))
         /\ \A x \in S : Rank(S, x) \in 0 .. Cardinality(S) - 1
         /\ \A x, z \in S : Rank(S, x) = Rank(S, z) => x = z
         /\ \A x \in S : (\A y \in S : y <= x) => Rank(S, x) = Cardinality(S) - 1
<1>1. PICK s, c : s = InOrder(S) /\ c = Cardinality(S)
  OBVIOUS
<1>2. /\ c \in Nat /\ IsFiniteSet(S) /\ s \in [1 .. c -> S]
      /\ \A j, k \in 1 .. c : j < k => s[j] < s[k]
      /\ \A x \in S : \E j \in 1 .. c : s[j] = x
  <2>1. /\ IsFiniteSet(S) /\ Cardinality(S) \in Nat
        /\ InOrder(S) \in [1 .. Cardinality(S) -> S]
        /\ \A j, k \in 1 .. Cardinality(S) : j < k => InOrder(S)[j] < InOrder(S)[k]
        /\ Covers(InOrder(S), Cardinality(S), S)
    BY InOrderProps
  <2>2. Covers(s, c, S)
    BY <1>1, <2>1
  <2> QED
    BY <1>1, <2>1, <2>2 DEF Covers
<1>3. \A i \in 1 .. c : Rank(S, s[i]) = i - 1
  BY <1>1, OrderRank
<1>4. \A n \in 0 .. c - 1 : \E x \in S : Rank(S, x) = n
  <2>1. ASSUME NEW n \in 0 .. c - 1
        PROVE  \E x \in S : Rank(S, x) = n
    <3>1. n + 1 \in 1 .. c /\ (n + 1) - 1 = n
      BY <1>2
    <3>2. s[n + 1] \in S /\ Rank(S, s[n + 1]) = n
      BY <1>2, <1>3, <3>1
    <3> QED
      BY <3>2
  <2> QED
    BY <2>1
<1>5. \A x \in S : Rank(S, x) \in 0 .. c - 1
  <2>1. ASSUME NEW x \in S
        PROVE  Rank(S, x) \in 0 .. c - 1
    <3>1. PICK j \in 1 .. c : s[j] = x
      BY <1>2
    <3>2. Rank(S, x) = j - 1
      BY <1>3, <3>1
    <3> QED
      BY <1>2, <3>2
  <2> QED
    BY <2>1
<1>6. \A x, z \in S : Rank(S, x) = Rank(S, z) => x = z
  <2>1. ASSUME NEW x \in S, NEW z \in S, Rank(S, x) = Rank(S, z)
        PROVE  x = z
    <3>1. PICK j \in 1 .. c : s[j] = x
      BY <1>2
    <3>2. PICK k \in 1 .. c : s[k] = z
      BY <1>2
    <3>3. j - 1 = k - 1
      BY <1>3, <2>1, <3>1, <3>2
    <3> QED
      BY <3>1, <3>2, <3>3
  <2> QED
    BY <2>1
<1>7. \A x \in S : (\A y \in S : y <= x) => Rank(S, x) = c - 1
  <2>1. ASSUME NEW x \in S, \A y \in S : y <= x
        PROVE  Rank(S, x) = c - 1
    <3>1. PICK j \in 1 .. c : s[j] = x
      BY <1>2
    <3>2. ~(j < c)
      <4>1. SUFFICES ASSUME j < c PROVE FALSE
        OBVIOUS
      <4>2. c \in 1 .. c /\ s[c] \in S /\ s[j] < s[c]
        BY <1>2, <4>1
      <4>3. s[c] <= s[j]
        BY <2>1, <3>1, <4>2
      <4>4. s[c] \in Int /\ s[j] \in Int
        <5>1. S \subseteq Int
          OBVIOUS
        <5> QED
          BY <3>1, <4>2, <5>1
      <4> QED
        BY <4>2, <4>3, <4>4
    <3>3. j = c
      BY <1>2, <3>2
    <3> QED
      BY <1>3, <3>1, <3>3
  <2> QED
    BY <2>1
<1>8. Ranked(S, c)
  BY <1>4 DEF Ranked
<1> QED
  BY <1>1, <1>2, <1>5, <1>6, <1>7, <1>8

------------------------------------------------------------------------------
(***************************************************************************)
(* What an iteration sees, Compress and operator ==.                       *)
(***************************************************************************)

\* The elements of a view.
Seen(w) == [i \in {j \in 0 .. Limit - 1 : w[j] # Free} |-> w[i]]

LEMMA ContentsSeen ==
  ASSUME NEW l, Sound(l)
  PROVE  /\ Contents(l) = Seen(View(l))
         /\ DOMAIN Contents(l) \in SUBSET (0 .. Limit - 1)
         /\ \A i \in 0 .. Limit - 1 : i \in DOMAIN Contents(l) <=> View(l)[i] # Free
         /\ \A i \in DOMAIN Contents(l) : Contents(l)[i] = View(l)[i] /\ l.m_Values[i] = View(l)[i]
<1>1. PICK h, f, n : Shaped(h, f, n) /\ l = ListOf(h, f)
  BY SoundShape
<1>2. l.m_HighestIndex = h /\ l.m_Values = f /\ n \in Nat /\ h \in Int
  BY <1>1, Fields
<1>3. h < n /\ h \in -1 .. Limit - 1
  BY <1>1 DEF Shaped
<1>4. PICK D : D = {j \in 0 .. h : f[j] # Free}
  OBVIOUS
<1>5. Contents(l) = [i \in D |-> f[i]]
  BY <1>2, <1>4 DEF Contents, IsValid
<1>6. PICK w : w = View(l)
  OBVIOUS
<1>7. \A i \in 0 .. Limit - 1 : w[i] = (IF i < n THEN f[i] ELSE Free) /\ (w[i] # Free => i <= h)
  BY <1>1, <1>6, ViewOf
<1>8. \A i : i \in D <=> i \in 0 .. Limit - 1 /\ w[i] # Free
  <2>1. ASSUME NEW i \in D
        PROVE  i \in 0 .. Limit - 1 /\ w[i] # Free
    <3>1. i \in 0 .. h /\ f[i] # Free
      BY <1>4
    <3>2. i \in 0 .. Limit - 1 /\ i < n
      BY <1>2, <1>3, <3>1, Limits
    <3> QED
      BY <1>7, <3>1, <3>2
  <2>2. ASSUME NEW i \in 0 .. Limit - 1, w[i] # Free
        PROVE  i \in D
    <3>1. i < n /\ f[i] # Free /\ i <= h
      BY <1>7, <2>2
    <3>2. i \in 0 .. h
      BY <1>2, <3>1, Limits
    <3> QED
      BY <1>4, <3>1, <3>2
  <2> QED
    BY <2>1, <2>2
<1>9. \A i \in D : f[i] = w[i]
  BY <1>7, <1>8
<1>10. D = {j \in 0 .. Limit - 1 : w[j] # Free}
  BY <1>8
<1>11. Contents(l) = Seen(w)
  BY <1>5, <1>9, <1>10 DEF Seen
<1> QED
  BY <1>2, <1>5, <1>6, <1>8, <1>9, <1>11

LEMMA ContentsView ==
  ASSUME NEW l, Sound(l), NEW r, Sound(r)
  PROVE  Contents(l) = Contents(r) <=> View(l) = View(r)
<1>1. ASSUME View(l) = View(r)
      PROVE  Contents(l) = Contents(r)
  BY <1>1, ContentsSeen
<1>2. ASSUME Contents(l) = Contents(r)
      PROVE  View(l) = View(r)
  <2>1. PICK c, w, z : c = Contents(l) /\ w = View(l) /\ z = View(r)
    OBVIOUS
  <2>2. /\ \A i \in 0 .. Limit - 1 : i \in DOMAIN c <=> w[i] # Free
        /\ \A i \in DOMAIN c : c[i] = w[i]
    BY <2>1, ContentsSeen
  <2>3. /\ \A i \in 0 .. Limit - 1 : i \in DOMAIN c <=> z[i] # Free
        /\ \A i \in DOMAIN c : c[i] = z[i]
    BY <1>2, <2>1, ContentsSeen
  <2>4. \A i \in 0 .. Limit - 1 : w[i] = z[i]
    BY <2>2, <2>3
  <2> QED
    BY <2>1, <2>4, SameViews
<1> QED
  BY <1>1, <1>2

\* m_HighestIndex of an exact list is to be seen in its view.
LEMMA ExactHighest ==
  ASSUME NEW l, Exact(l), NEW h, h = l.m_HighestIndex
  PROVE  /\ h \in -1 .. Limit - 1 /\ h \in Int
         /\ h >= 0 => View(l)[h] # Free
         /\ \A i \in 0 .. Limit - 1 : View(l)[i] # Free => i <= h
<1>1. PICK k, f, n : Shaped(k, f, n) /\ Tight(k, f) /\ l = ListOf(k, f)
  BY ExactShape
<1>2. k = h /\ h \in Int /\ n \in Nat
  BY <1>1, Fields
<1>3. h \in -1 .. Limit - 1 /\ h < n
  BY <1>1, <1>2 DEF Shaped
<1>4. \A i \in 0 .. Limit - 1 : View(l)[i] # Free => i <= h
  BY <1>1, <1>2, ViewOf
<1>5. ASSUME h >= 0
      PROVE  View(l)[h] # Free
  <2>1. h \in 0 .. Limit - 1
    BY <1>3, <1>5
  <2>2. View(l)[h] = IF h < n THEN f[h] ELSE Free
    BY <1>1, <2>1, ViewOf
  <2> QED
    BY <1>1, <1>2, <1>3, <1>5, <2>2 DEF Tight
<1> QED
  BY <1>2, <1>3, <1>4, <1>5

LEMMA SameHighest ==
  ASSUME NEW l, Exact(l), NEW r, Exact(r), View(l) = View(r)
  PROVE  l.m_HighestIndex = r.m_HighestIndex
<1>1. PICK h, k, w : h = l.m_HighestIndex /\ k = r.m_HighestIndex /\ w = View(l)
  OBVIOUS
<1>2. /\ h \in -1 .. Limit - 1 /\ h \in Int
      /\ h >= 0 => w[h] # Free
      /\ \A i \in 0 .. Limit - 1 : w[i] # Free => i <= h
  BY <1>1, ExactHighest
<1>3. /\ k \in -1 .. Limit - 1 /\ k \in Int
      /\ k >= 0 => w[k] # Free
      /\ \A i \in 0 .. Limit - 1 : w[i] # Free => i <= k
  BY <1>1, ExactHighest
<1>4. h >= 0 => h <= k
  BY <1>2, <1>3
<1>5. k >= 0 => k <= h
  BY <1>2, <1>3
<1> QED
  BY <1>1, <1>2, <1>3, <1>4, <1>5

LEMMA CompressSound ==
  ASSUME NEW l, Sound(l), NEW r, r = Compress(l)
  PROVE  Sound(r) /\ (Exact(l) /\ Contents(r) = Contents(l) => Exact(r))
<1>1. PICK h, f, n : Shaped(h, f, n) /\ l = ListOf(h, f)
  BY SoundShape
<1>2. /\ l.m_HighestIndex = h /\ l.m_Values = f /\ Slots(l) = 0 .. n - 1
      /\ n \in Nat /\ h \in Int
  BY <1>1, Fields
<1>3. n \in 0 .. MaxCapacity /\ h \in -1 .. Limit - 1 /\ h < n /\ f \in [0 .. n - 1 -> Value]
      /\ \A j \in 0 .. n - 1 : f[j] # Free => j <= h
  BY <1>1 DEF Shaped
<1>4. PICK used : used = {i \in 0 .. n - 1 : f[i] # Free}
  OBVIOUS
<1>5. PICK c : c = Cardinality(used)
  OBVIOUS
<1>6. used \in SUBSET (0 .. h)
  BY <1>2, <1>3, <1>4
<1>7. c \in Nat /\ \A i \in 0 .. c - 1 : \E j \in used : Rank(used, j) = i
  <2>1. Cardinality(used) \in Nat /\ Ranked(used, Cardinality(used))
    <3>1. 0 \in Int /\ h \in Int
      BY <1>2
    <3> QED
      BY <1>6, <3>1, RankProps
  <2> QED
    BY <1>5, <2>1 DEF Ranked
<1>8. c <= h + 1
  <2>1. h + 1 \in Nat /\ (h + 1) - 1 = h
    BY <1>2, <1>3
  <2>2. IsFiniteSet(0 .. h) /\ Cardinality(0 .. h) = h + 1
    BY <2>1, CountBelow
  <2> QED
    BY <1>5, <1>6, <2>2, FS_Subset
<1>9. PICK e : e = [i \in 0 .. n - 1 |-> IF i < c THEN f[CHOOSE j \in used : Rank(used, j) = i] ELSE Free]
  OBVIOUS
<1>10. r = ListOf(h, e)
  <2>1. used = {i \in Slots(l) : IsValid(l, i)}
    BY <1>2, <1>4 DEF IsValid
  <2>2. \A j : Cardinality({k \in Slots(l) : k < j /\ IsValid(l, k)}) = Rank(used, j)
    <3>1. ASSUME NEW j
          PROVE  {k \in Slots(l) : k < j /\ IsValid(l, k)} = {k \in used : k < j}
      BY <2>1
    <3> QED
      BY <3>1 DEF Rank
  <2>3. \A i : (CHOOSE j \in used : Cardinality({k \in Slots(l) : k < j /\ IsValid(l, k)}) = i)
               = (CHOOSE j \in used : Rank(used, j) = i)
    BY <2>2
  <2>4. r = [l EXCEPT !.m_Values =
               [i \in Slots(l) |-> IF i < c
                  THEN f[CHOOSE j \in used : Cardinality({k \in Slots(l) : k < j /\ IsValid(l, k)}) = i]
                  ELSE Free]]
    BY <1>2, <1>5, <2>1 DEF Compress
  <2>5. [i \in Slots(l) |-> IF i < c
           THEN f[CHOOSE j \in used : Cardinality({k \in Slots(l) : k < j /\ IsValid(l, k)}) = i]
           ELSE Free] = e
    <3>1. PICK g : g = [i \in Slots(l) |-> IF i < c
             THEN f[CHOOSE j \in used : Cardinality({k \in Slots(l) : k < j /\ IsValid(l, k)}) = i]
             ELSE Free]
      OBVIOUS
    <3>2. ASSUME NEW i \in 0 .. n - 1
          PROVE  g[i] = e[i]
      <4>1. PICK x, y :
              /\ x = CHOOSE j \in used : Cardinality({k \in Slots(l) : k < j /\ IsValid(l, k)}) = i
              /\ y = CHOOSE j \in used : Rank(used, j) = i
        OBVIOUS
      <4>2. x = y
        BY <2>3, <4>1
      <4>3. g[i] = IF i < c THEN f[x] ELSE Free
        BY <1>2, <3>1, <4>1
      <4>4. e[i] = IF i < c THEN f[y] ELSE Free
        BY <1>9, <4>1
      <4> QED
        BY <4>2, <4>3, <4>4
    <3>3. DOMAIN g = 0 .. n - 1 /\ g = [i \in DOMAIN g |-> g[i]]
      BY <1>2, <3>1
    <3>4. DOMAIN e = 0 .. n - 1 /\ e = [i \in DOMAIN e |-> e[i]]
      BY <1>9
    <3>5. g = e
      BY <3>2, <3>3, <3>4
    <3> QED
      BY <3>1, <3>5
  <2>6. r = [l EXCEPT !.m_Values = e]
    BY <2>4, <2>5, Zenon
  <2> QED
    BY <1>1, <2>6 DEF ListOf
<1>11. ASSUME NEW i \in 0 .. n - 1
       PROVE  e[i] \in Value /\ (e[i] # Free => i <= h)
  <2>1. CASE i < c
    <3>1. i \in 0 .. c - 1
      BY <1>2, <1>7, <2>1
    <3>2. PICK j : j = CHOOSE k \in used : Rank(used, k) = i
      OBVIOUS
    <3>3. j \in used
      BY <1>7, <3>1, <3>2
    <3>4. e[i] = f[j]
      BY <1>9, <2>1, <3>2
    <3>5. f[j] \in Value
      BY <1>3, <1>4, <3>3
    <3> QED
      BY <1>2, <1>7, <1>8, <2>1, <3>4, <3>5
  <2>2. CASE ~(i < c)
    BY <1>9, <2>2 DEF Value
  <2> QED
    BY <2>1, <2>2
<1>12. Shaped(h, e, n)
  <2>1. e \in [0 .. n - 1 -> Value]
    BY <1>9, <1>11
  <2> QED
    BY <1>3, <1>11, <2>1 DEF Shaped
<1>13. Sound(r) /\ (Tight(h, e) <=> Exact(r))
  BY <1>10, <1>12, ShapeSound
<1>14. ASSUME Exact(l), Contents(r) = Contents(l)
       PROVE  Tight(h, e)
  <2>1. SUFFICES ASSUME h >= 0
                 PROVE  e[h] # Free
    BY DEF Tight
  <2>2. View(r) = View(l)
    BY <1>13, <1>14, ContentsView
  <2>3. View(l)[h] # Free /\ h \in 0 .. Limit - 1
    BY <1>2, <1>3, <1>14, <2>1, ExactHighest
  <2>4. View(r)[h] = IF h < n THEN e[h] ELSE Free
    BY <1>10, <1>12, <2>3, ViewOf
  <2> QED
    BY <2>2, <2>3, <2>4
<1> QED
  BY <1>13, <1>14

\* Where the iterator of operator == stands, n elements from begin().
Place(used, h, n) ==
  IF n >= Cardinality(used) THEN h + 1 ELSE CHOOSE i \in used : Rank(used, i) = n
PlaceIn(s, n) == Place(DOMAIN Contents(s), s.m_HighestIndex, n)

LEMMA EqualIs ==
  ASSUME NEW l, NEW r
  PROVE  Equal(l, r) <=>
           /\ l.m_HighestIndex = r.m_HighestIndex
           /\ \A n \in 0 .. Cardinality(DOMAIN Contents(l)) - 1 :
                /\ PlaceIn(l, n) = PlaceIn(r, n)
                /\ l.m_Values[PlaceIn(l, n)] = r.m_Values[PlaceIn(r, n)]
BY DEF Equal, PlaceIn, Place, Rank

\* It stands at each element once.
LEMMA PlaceRank ==
  ASSUME NEW a \in Int, NEW b \in Int, NEW S \in SUBSET (a .. b), NEW h
  PROVE  /\ \A x \in S : Place(S, h, Rank(S, x)) = x
         /\ \A n \in 0 .. Cardinality(S) - 1 : Place(S, h, n) \in S /\ Rank(S, Place(S, h, n)) = n
<1>1. PICK c : c = Cardinality(S)
  OBVIOUS
<1>2. /\ Cardinality(S) \in Nat /\ Ranked(S, Cardinality(S))
      /\ \A x \in S : Rank(S, x) \in 0 .. Cardinality(S) - 1
      /\ \A x, z \in S : Rank(S, x) = Rank(S, z) => x = z
  BY RankProps
<1>3. ASSUME NEW n \in 0 .. c - 1
      PROVE  Place(S, h, n) \in S /\ Rank(S, Place(S, h, n)) = n
  <2>1. c \in Nat /\ Ranked(S, c)
    BY <1>1, <1>2
  <2>2. \E x \in S : Rank(S, x) = n
    BY <2>1 DEF Ranked
  <2>3. ~(n >= Cardinality(S))
    BY <1>1, <2>1
  <2>4. Place(S, h, n) = CHOOSE i \in S : Rank(S, i) = n
    BY <2>3 DEF Place
  <2> QED
    BY <2>2, <2>4
<1>4. ASSUME NEW x \in S
      PROVE  Place(S, h, Rank(S, x)) = x
  <2>1. PICK n : n = Rank(S, x)
    OBVIOUS
  <2>2. n \in 0 .. c - 1
    BY <1>1, <1>2, <2>1
  <2>3. PICK y : y = Place(S, h, n)
    OBVIOUS
  <2>4. y \in S /\ Rank(S, y) = n
    BY <1>3, <2>2, <2>3
  <2> QED
    BY <1>2, <2>1, <2>3, <2>4
<1> QED
  BY <1>1, <1>3, <1>4

\* operator == compares the elements.
LEMMA EqualView ==
  ASSUME NEW l, Exact(l), NEW r, Exact(r)
  PROVE  Equal(l, r) <=> Contents(l) = Contents(r)
<1>0. Sound(l) /\ Sound(r)
  BY DEF Sound, Exact, WellFormed
<1>1. PICK A, B, h, k :
        A = DOMAIN Contents(l) /\ B = DOMAIN Contents(r) /\ h = l.m_HighestIndex /\ k = r.m_HighestIndex
  OBVIOUS
<1>2. /\ A \in SUBSET (0 .. Limit - 1)
      /\ \A i \in 0 .. Limit - 1 : i \in A <=> View(l)[i] # Free
      /\ \A i \in A : l.m_Values[i] = View(l)[i]
  BY <1>0, <1>1, ContentsSeen
<1>3. /\ B \in SUBSET (0 .. Limit - 1)
      /\ \A i \in 0 .. Limit - 1 : i \in B <=> View(r)[i] # Free
      /\ \A i \in B : r.m_Values[i] = View(r)[i]
  BY <1>0, <1>1, ContentsSeen
<1>4. 0 \in Int /\ Limit - 1 \in Int
  BY Limits
<1>5. /\ Cardinality(A) \in Nat /\ IsFiniteSet(A)
      /\ \A x \in A : Rank(A, x) \in 0 .. Cardinality(A) - 1
      /\ \A x \in A : (\A y \in A : y <= x) => Rank(A, x) = Cardinality(A) - 1
  BY <1>2, <1>4, RankProps
<1>6. /\ Cardinality(B) \in Nat /\ IsFiniteSet(B)
      /\ \A x \in B : (\A y \in B : y <= x) => Rank(B, x) = Cardinality(B) - 1
  BY <1>3, <1>4, RankProps
<1>7. \A x \in A : Place(A, h, Rank(A, x)) = x
  BY <1>2, <1>4, PlaceRank
<1>8. \A n \in 0 .. Cardinality(B) - 1 : Place(B, k, n) \in B /\ Rank(B, Place(B, k, n)) = n
  BY <1>3, <1>4, PlaceRank
<1>9. \A n \in 0 .. Cardinality(A) - 1 : Place(A, h, n) \in A
  BY <1>2, <1>4, PlaceRank
<1>10. Equal(l, r) <=>
         /\ h = k
         /\ \A n \in 0 .. Cardinality(A) - 1 :
              /\ Place(A, h, n) = Place(B, k, n)
              /\ l.m_Values[Place(A, h, n)] = r.m_Values[Place(B, k, n)]
  BY <1>1, EqualIs DEF PlaceIn
<1>11. ASSUME Contents(l) = Contents(r)
       PROVE  Equal(l, r)
  <2>1. View(l) = View(r)
    BY <1>0, <1>11, ContentsView
  <2>2. h = k /\ A = B
    BY <1>1, <1>11, <2>1, SameHighest
  <2>3. \A i \in A : l.m_Values[i] = r.m_Values[i]
    BY <1>2, <1>3, <2>1, <2>2
  <2> QED
    BY <1>9, <1>10, <2>2, <2>3
<1>12. ASSUME Equal(l, r)
       PROVE  Contents(l) = Contents(r)
  <2>1. ASSUME NEW x \in A
        PROVE  x \in B /\ l.m_Values[x] = r.m_Values[x] /\ Place(B, k, Rank(A, x)) = x
               /\ Rank(A, x) < Cardinality(B) /\ Rank(B, x) = Rank(A, x)
    <3>1. PICK n : n = Rank(A, x)
      OBVIOUS
    <3>2. n \in 0 .. Cardinality(A) - 1 /\ Place(A, h, n) = x
      BY <1>5, <1>7, <3>1
    <3>3. Place(B, k, n) = x /\ l.m_Values[x] = r.m_Values[x] /\ h = k
      BY <1>10, <1>12, <3>2
    <3>4. x <= h /\ x \in Int /\ h \in Int
      <4>1. x \in 0 .. Limit - 1 /\ View(l)[x] # Free
        BY <1>2
      <4> QED
        BY <1>1, <4>1, ExactHighest
    <3>5. n < Cardinality(B)
      <4>1. SUFFICES ASSUME n >= Cardinality(B) PROVE FALSE
        BY <1>5, <1>6, <3>2
      <4>2. Place(B, k, n) = k + 1
        BY <4>1 DEF Place
      <4> QED
        BY <3>3, <3>4, <4>2
    <3>6. n \in 0 .. Cardinality(B) - 1
      BY <1>5, <1>6, <3>2, <3>5
    <3> QED
      BY <1>8, <3>1, <3>3, <3>5, <3>6
  <2>2. A \subseteq B
    BY <2>1
  <2>3. A = B
    <3>1. CASE h < 0
      <4>1. B = {}
        <5>1. ASSUME NEW x \in B PROVE FALSE
          <6>1. x \in 0 .. Limit - 1 /\ View(r)[x] # Free
            BY <1>3
          <6>2. x <= k /\ k \in Int
            BY <1>1, <6>1, ExactHighest
          <6> QED
            BY <1>10, <1>12, <3>1, <6>1, <6>2
        <5> QED
          BY <5>1
      <4> QED
        BY <2>2, <4>1
    <3>2. CASE ~(h < 0)
      <4>1. /\ h \in -1 .. Limit - 1 /\ h \in Int
            /\ h >= 0 => View(l)[h] # Free
            /\ \A i \in 0 .. Limit - 1 : View(l)[i] # Free => i <= h
        BY <1>1, ExactHighest
      <4>2. h \in 0 .. Limit - 1 /\ h \in A /\ h \in B
        BY <1>2, <2>2, <3>2, <4>1
      <4>3. \A y \in A : y <= h
        BY <1>2, <4>1
      <4>4. \A y \in B : y <= h
        <5>1. \A i \in 0 .. Limit - 1 : View(r)[i] # Free => i <= k
          BY <1>1, ExactHighest
        <5> QED
          BY <1>3, <1>10, <1>12, <5>1
      <4>5. Rank(A, h) = Cardinality(A) - 1 /\ Rank(B, h) = Cardinality(B) - 1
        BY <1>5, <1>6, <4>2, <4>3, <4>4
      <4>6. Cardinality(A) = Cardinality(B)
        BY <1>5, <1>6, <2>1, <4>2, <4>5
      <4> QED
        BY <1>6, <2>2, <4>6, FS_Subset
    <3> QED
      BY <3>1, <3>2
  <2>4. \A i \in 0 .. Limit - 1 : View(l)[i] = View(r)[i]
    BY <1>2, <1>3, <2>1, <2>3
  <2>5. View(l) = View(r)
    BY <2>4, SameViews
  <2> QED
    BY <1>0, <2>5, ContentsView
<1> QED
  BY <1>11, <1>12

------------------------------------------------------------------------------
(***************************************************************************)
(* Decoding a delta.                                                       *)
(***************************************************************************)
Entry == [index : 0 .. Limit - 1, kind : {"added", "changed", "removed"}, value : Elem \cup {Free}]
Applicable(e) == e \in Entry /\ (e.kind # "removed" => e.value \in Elem)
Entered(e) == IF e.kind = "removed" THEN Free ELSE e.value

LEMMA ExactSound ==
  ASSUME NEW l, Exact(l)
  PROVE  Sound(l) /\ l \in ListType
BY DEF Sound, Exact, WellFormed

LEMMA ApplyEntryView ==
  ASSUME NEW l, Exact(l), NEW e, Applicable(e), NEW r, r = ApplyEntry(l, e)
  PROVE  /\ Exact(r)
         /\ \A j \in 0 .. Limit - 1 : View(r)[j] = IF j = e.index THEN Entered(e) ELSE View(l)[j]
<1>1. PICK i : i = e.index
  OBVIOUS
<1>2. i \in 0 .. Limit - 1
  BY <1>1 DEF Applicable, Entry
<1>3. Sound(l)
  BY ExactSound
<1>4. CASE e.kind = "removed"
  <2>1. PICK S : S = {i}
    OBVIOUS
  <2>2. r = RemoveEach(l, S)
    BY <1>1, <1>4, <2>1 DEF ApplyEntry, RemoveAt
  <2>3. /\ Exact(r)
        /\ \A j \in 0 .. Limit - 1 : View(r)[j] = IF j \in S THEN Free ELSE View(l)[j]
    BY <1>3, <2>2, RemoveEachView
  <2> QED
    BY <1>1, <1>4, <2>1, <2>3 DEF Entered
<1>5. CASE e.kind # "removed"
  <2>1. PICK v : v = e.value
    OBVIOUS
  <2>2. v \in Elem
    BY <1>5, <2>1 DEF Applicable
  <2>3. r = PlaceAt(l, i, v)
    BY <1>1, <1>5, <2>1 DEF ApplyEntry
  <2>4. /\ Exact(r)
        /\ \A j \in 0 .. Limit - 1 : View(r)[j] = IF j = i THEN v ELSE View(l)[j]
    BY <1>2, <1>3, <2>2, <2>3, PlaceAtView
  <2> QED
    BY <1>1, <1>5, <2>1, <2>4 DEF Entered
<1> QED
  BY <1>4, <1>5

\* The lists that the loop over the entries goes through.
Applies(h, n, val, es) ==
  /\ h[0] = val
  /\ \A k \in 1 .. n : h[k] = ApplyEntry(h[k - 1], es[k])

LEMMA EntriesFold ==
  ASSUME NEW val, Exact(val), NEW n \in Nat, NEW es, DOMAIN es = 1 .. n,
         \A k \in 1 .. n : Applicable(es[k])
  PROVE  \E h : Applies(h, n, val, es) /\ Seqs!FoldLeft(ApplyEntry, val, es) = h[n]
<1> DEFINE A == {l \in ListType : WellFormed(l)}
           step == [k \in 1 .. n |-> [x \in A |-> ApplyEntry(x, es[k])]]
<1>1. ASSUME NEW x \in A, NEW k \in 1 .. n
      PROVE  ApplyEntry(x, es[k]) \in A
  <2>1. Exact(x)
    BY DEF Exact
  <2>2. PICK r, e : e = es[k] /\ r = ApplyEntry(x, e)
    OBVIOUS
  <2>3. Applicable(e)
    BY <2>2
  <2>4. Exact(r)
    BY <2>1, <2>2, <2>3, ApplyEntryView
  <2> QED
    BY <2>2, <2>4 DEF Exact
<1>2. step \in Steps(A, n)
  BY <1>1 DEF Steps
<1>3. PICK g : FoldOf(g, A, val, n, step)
  <2>1. val \in A
    BY DEF Exact
  <2> HIDE DEF step, A
  <2> QED
    BY <1>2, <2>1, FoldDefined
<1>4. g = [s \in SUBSET (1 .. n) |-> IF s = {} THEN val ELSE ApplyEntry(g[s \ {Biggest(s)}], es[Biggest(s)])]
  <2>1. ASSUME NEW s \in SUBSET (1 .. n), s # {}
        PROVE  step[Biggest(s)][g[s \ {Biggest(s)}]] = ApplyEntry(g[s \ {Biggest(s)}], es[Biggest(s)])
    <3>1. Biggest(s) \in 1 .. n /\ s \ {Biggest(s)} \in SUBSET (1 .. n)
      BY <2>1, BiggestProps
    <3>2. g[s \ {Biggest(s)}] \in A
      BY <1>3, <3>1 DEF FoldOf
    <3> QED
      BY <3>1, <3>2
  <2> HIDE DEF step, A
  <2> QED
    BY <1>3, <2>1 DEF FoldOf
<1> HIDE DEF step, A
<1>5. PICK it :
        /\ it = [s \in SUBSET (1 .. n) |-> IF s = {} THEN val ELSE ApplyEntry(it[s \ {Biggest(s)}], es[Biggest(s)])]
        /\ Seqs!FoldLeft(ApplyEntry, val, es) = it[1 .. n]
  <2>1. \A s : Seqs!Max(s) = Biggest(s)
    BY DEF Seqs!Max, Biggest
  <2>2. g = [s \in SUBSET DOMAIN es |-> IF s = {} THEN val
               ELSE ApplyEntry(g[s \ {Seqs!Max(s)}], es[Seqs!Max(s)])]
    BY <1>4, <2>1
  <2>3. \E it : /\ it = [s \in SUBSET DOMAIN es |-> IF s = {} THEN val
                           ELSE ApplyEntry(it[s \ {Seqs!Max(s)}], es[Seqs!Max(s)])]
                /\ Seqs!FoldLeft(ApplyEntry, val, es) = it[DOMAIN es]
    BY <2>2 DEF Seqs!FoldLeft, Seqs!MapThenFoldSet
  <2>4. PICK it :
          /\ it = [s \in SUBSET DOMAIN es |-> IF s = {} THEN val
                     ELSE ApplyEntry(it[s \ {Seqs!Max(s)}], es[Seqs!Max(s)])]
          /\ Seqs!FoldLeft(ApplyEntry, val, es) = it[DOMAIN es]
    BY <2>3
  <2>5. it = [s \in SUBSET (1 .. n) |-> IF s = {} THEN val ELSE ApplyEntry(it[s \ {Biggest(s)}], es[Biggest(s)])]
    BY <2>1, <2>4
  <2> QED
    BY <2>4, <2>5
<1>6. it[1 .. 0] = val /\ \A k \in 1 .. n : it[1 .. k] = ApplyEntry(it[1 .. k - 1], es[k])
  <2>1. 1 .. 0 = {} /\ {} \in SUBSET (1 .. n)
    OBVIOUS
  <2>2. ASSUME NEW k \in 1 .. n
        PROVE  it[1 .. k] = ApplyEntry(it[1 .. k - 1], es[k])
    <3>1. 1 .. k \in SUBSET (1 .. n) /\ k \in Nat /\ k # 0
      OBVIOUS
    <3>2. Biggest(1 .. k) = k /\ (1 .. k) \ {k} = 1 .. k - 1 /\ 1 .. k # {}
      BY <3>1, BiggestPrefix
    <3>3. it[1 .. k] = ApplyEntry(it[(1 .. k) \ {Biggest(1 .. k)}], es[Biggest(1 .. k)])
      BY <1>5, <3>1, <3>2
    <3> QED
      BY <3>2, <3>3
  <2> QED
    BY <1>5, <2>1, <2>2
<1> DEFINE h == [k \in 0 .. n |-> it[1 .. k]]
<1>7. Applies(h, n, val, es)
  BY <1>6 DEF Applies
<1>8. h[n] = it[1 .. n]
  OBVIOUS
<1> HIDE DEF h
<1> QED
  BY <1>5, <1>7, <1>8

\* After k entries the indices of those entries are up to date.
LEMMA EntriesView ==
  ASSUME NEW val, Exact(val), NEW n \in Nat, NEW es,
         \A k \in 1 .. n : Applicable(es[k]),
         \A j, k \in 1 .. n : es[j].index = es[k].index => j = k,
         NEW h, Applies(h, n, val, es)
  PROVE  /\ Exact(h[n])
         /\ \A k \in 1 .. n : View(h[n])[es[k].index] = Entered(es[k])
         /\ \A j \in 0 .. Limit - 1 : (\A k \in 1 .. n : es[k].index # j) => View(h[n])[j] = View(val)[j]
<1> DEFINE Good(m) ==
             /\ Exact(h[m])
             /\ \A k \in 1 .. m : View(h[m])[es[k].index] = Entered(es[k])
             /\ \A j \in 0 .. Limit - 1 : (\A k \in 1 .. m : es[k].index # j) => View(h[m])[j] = View(val)[j]
           S == {m \in 0 .. n : Good(m)}
<1>1. 0 \in S
  BY DEF Applies
<1>2. ASSUME NEW m \in 0 .. n - 1, m \in S
      PROVE  m + 1 \in S
  <2>1. m + 1 \in 1 .. n /\ (m + 1) - 1 = m /\ m + 1 \in 0 .. n /\ m \in Nat
    OBVIOUS
  <2>2. PICK l, r, e : l = h[m] /\ r = h[m + 1] /\ e = es[m + 1]
    OBVIOUS
  <2>3. Good(m)
    BY <1>2
  <2>4. Exact(l) /\ Applicable(e)
    BY <2>1, <2>2, <2>3
  <2>5. r = ApplyEntry(l, e)
    BY <2>1, <2>2 DEF Applies
  <2>6. /\ Exact(r)
        /\ \A j \in 0 .. Limit - 1 : View(r)[j] = IF j = e.index THEN Entered(e) ELSE View(l)[j]
    BY <2>4, <2>5, ApplyEntryView
  <2>7. ASSUME NEW k \in 1 .. m + 1
        PROVE  View(r)[es[k].index] = Entered(es[k])
    <3>1. PICK i : i = es[k].index
      OBVIOUS
    <3>2. k \in 1 .. n
      BY <2>1
    <3>3. i \in 0 .. Limit - 1
      BY <3>1, <3>2 DEF Applicable, Entry
    <3>4. CASE k = m + 1
      BY <2>2, <2>6, <3>1, <3>3, <3>4
    <3>5. CASE k # m + 1
      <4>1. k \in 1 .. m
        BY <2>1, <3>5
      <4>2. i # e.index
        BY <2>1, <2>2, <3>1, <3>2, <3>5
      <4>3. View(l)[i] = Entered(es[k])
        BY <2>2, <2>3, <3>1, <4>1
      <4> QED
        BY <2>6, <3>1, <3>3, <4>2, <4>3
    <3> QED
      BY <3>4, <3>5
  <2>8. ASSUME NEW j \in 0 .. Limit - 1, \A k \in 1 .. m + 1 : es[k].index # j
        PROVE  View(r)[j] = View(val)[j]
    <3>1. j # e.index /\ \A k \in 1 .. m : es[k].index # j
      <4>1. m + 1 \in 1 .. m + 1 /\ \A k \in 1 .. m : k \in 1 .. m + 1
        BY <2>1
      <4> QED
        BY <2>2, <2>8, <4>1
    <3> QED
      BY <2>2, <2>3, <2>6, <3>1
  <2>9. Good(m + 1)
    BY <2>2, <2>6, <2>7, <2>8
  <2> QED
    BY <2>1, <2>9
<1>3. 0 .. n \subseteq S
  <2> HIDE DEF S
  <2> QED
    BY <1>1, <1>2, UpTo
<1>4. Good(n)
  BY <1>3
<1> QED
  BY <1>4

\* Whatever the entries, an exact list stays exact.
LEMMA EntriesExact ==
  ASSUME NEW val, Exact(val), NEW n \in Nat, NEW es,
         \A k \in 1 .. n : Applicable(es[k]), NEW h, Applies(h, n, val, es)
  PROVE  Exact(h[n])
<1> DEFINE S == {m \in 0 .. n : Exact(h[m])}
<1>1. 0 \in S
  BY DEF Applies
<1>2. ASSUME NEW m \in 0 .. n - 1, m \in S
      PROVE  m + 1 \in S
  <2>1. m + 1 \in 1 .. n /\ (m + 1) - 1 = m /\ m + 1 \in 0 .. n
    OBVIOUS
  <2>2. PICK l, r, e : l = h[m] /\ r = h[m + 1] /\ e = es[m + 1]
    OBVIOUS
  <2>3. Exact(l) /\ Applicable(e) /\ r = ApplyEntry(l, e)
    BY <1>2, <2>1, <2>2 DEF Applies
  <2>4. Exact(r)
    BY <2>3, ApplyEntryView
  <2> QED
    BY <2>1, <2>2, <2>4
<1>3. 0 .. n \subseteq S
  <2> HIDE DEF S
  <2> QED
    BY <1>1, <1>2, UpTo
<1> QED
  BY <1>3

\* HasAt and the values, through the view.
LEMMA SoundView ==
  ASSUME NEW l, Sound(l), NEW i \in 0 .. Limit - 1
  PROVE  /\ HasAt(l, i) <=> View(l)[i] # Free
         /\ HasAt(l, i) => l.m_Values[i] = View(l)[i] /\ View(l)[i] \in Elem
         /\ View(l)[i] \in Value
         /\ View(l)[i] # Free => i <= l.m_HighestIndex
<1>1. PICK h, f, n : Shaped(h, f, n) /\ l = ListOf(h, f)
  BY SoundShape
<1>2. View(l) \in [0 .. Limit - 1 -> Value] /\ (HasAt(l, i) <=> View(l)[i] # Free)
      /\ (View(l)[i] # Free => i <= h)
  BY <1>1, ViewOf
<1>3. h = l.m_HighestIndex
  BY <1>1, Fields
<1>4. HasAt(l, i) => l.m_Values[i] = View(l)[i]
  BY DEF View, At
<1> QED
  BY <1>2, <1>3, <1>4 DEF Value

LEMMA SoundHighest ==
  ASSUME NEW l, Sound(l)
  PROVE  l.m_HighestIndex \in -1 .. Limit - 1 /\ l.m_HighestIndex \in Int
<1>1. l.m_HighestIndex \in -1 .. Limit - 1
  BY DEF Sound, ListType
<1> QED
  BY <1>1, Limits

LEMMA DiffersView ==
  ASSUME NEW to, Sound(to), NEW from, Sound(from), NEW i \in 0 .. Limit - 1
  PROVE  Differs(to, from, i) <=> View(to)[i] # View(from)[i]
<1>1. /\ HasAt(to, i) <=> View(to)[i] # Free
      /\ HasAt(to, i) => to.m_Values[i] = View(to)[i]
  BY SoundView
<1>2. /\ HasAt(from, i) <=> View(from)[i] # Free
      /\ HasAt(from, i) => from.m_Values[i] = View(from)[i]
  BY SoundView
<1>3. HasAt(to, i) # HasAt(from, i) <=>
        (HasAt(to, i) /\ ~HasAt(from, i)) \/ (~HasAt(to, i) /\ HasAt(from, i))
  BY DEF HasAt
<1> QED
  BY <1>1, <1>2, <1>3 DEF Differs

\* An entry says what the new list has at its index.
Tells(e, to, from) ==
  /\ Applicable(e)
  /\ e.index <= to.m_HighestIndex
  /\ View(to)[e.index] # View(from)[e.index]
  /\ Entered(e) = View(to)[e.index]
  /\ e.kind = "added" <=> View(from)[e.index] = Free

LEMMA DeltaEntryTells ==
  ASSUME NEW to, Sound(to), NEW from, Sound(from), NEW i \in 0 .. Limit - 1,
         i <= to.m_HighestIndex, View(to)[i] # View(from)[i],
         NEW e, e = DeltaEntry(to, from, i)
  PROVE  Tells(e, to, from) /\ e.index = i
<1>1. /\ HasAt(to, i) <=> View(to)[i] # Free
      /\ HasAt(to, i) => to.m_Values[i] = View(to)[i] /\ View(to)[i] \in Elem
      /\ View(to)[i] \in Value
  BY SoundView
<1>2. HasAt(from, i) <=> View(from)[i] # Free
  BY SoundView
<1>3. /\ e.index = i /\ e.value = to.m_Values[i]
      /\ e.kind = IF ~HasAt(to, i) THEN "removed" ELSE IF HasAt(from, i) THEN "changed" ELSE "added"
  BY DEF DeltaEntry
<1>4. to.m_Values[i] \in Value
  <2>1. PICK h, f, n : Shaped(h, f, n) /\ to = ListOf(h, f)
    BY SoundShape
  <2>2. to.m_Values = f /\ to.m_HighestIndex = h /\ n \in Nat /\ h \in Int
    BY <2>1, Fields
  <2>3. h < n /\ f \in [0 .. n - 1 -> Value]
    BY <2>1 DEF Shaped
  <2>4. i \in 0 .. n - 1
    BY <2>2, <2>3, Limits
  <2> QED
    BY <2>2, <2>3, <2>4
<1>5. e \in Entry
  BY <1>3, <1>4 DEF DeltaEntry, Entry, Value
<1>6. e.kind # "removed" => HasAt(to, i) /\ e.value \in Elem
  BY <1>1, <1>3
<1>7. Entered(e) = View(to)[i]
  BY <1>1, <1>3, <1>6 DEF Entered
<1>8. e.kind = "added" <=> View(from)[i] = Free
  BY <1>1, <1>2, <1>3
<1> QED
  BY <1>3, <1>5, <1>6, <1>7, <1>8 DEF Tells, Applicable

\* What NetSerializerDelta writes.
Delta(m, n, to, from) ==
  /\ m \in DeltaPayload
  /\ m.highest = to.m_HighestIndex
  /\ m.size_change <=> to.m_HighestIndex # from.m_HighestIndex
  /\ DOMAIN m.entries = 1 .. n
  /\ \A k \in 1 .. n : Tells(m.entries[k], to, from)
  /\ \A j, k \in 1 .. n : m.entries[j].index = m.entries[k].index => j = k
  /\ \A i \in 0 .. Limit - 1 :
       i <= to.m_HighestIndex /\ View(to)[i] # View(from)[i] => \E k \in 1 .. n : m.entries[k].index = i

LEMMA DeltaWritten ==
  ASSUME NEW to, Sound(to), NEW from, Sound(from), NEW m, m = SerializeDelta(to, from)
  PROVE  \/ /\ m = Unchanged /\ to.m_HighestIndex = from.m_HighestIndex
            /\ \A i \in 0 .. Limit - 1 : i <= to.m_HighestIndex => View(to)[i] = View(from)[i]
         \/ \E n \in Nat : Delta(m, n, to, from)
<1>1. PICK h, k : h = to.m_HighestIndex /\ k = from.m_HighestIndex
  OBVIOUS
<1>2. h \in -1 .. Limit - 1 /\ h \in Int
  BY <1>1, SoundHighest
<1>3. PICK W : W = {i \in 0 .. h : Differs(to, from, i)}
  OBVIOUS
<1>4. \A i : i \in W <=> i \in 0 .. Limit - 1 /\ i <= h /\ View(to)[i] # View(from)[i]
  <2>1. \A i : i \in 0 .. h <=> i \in 0 .. Limit - 1 /\ i <= h
    BY <1>2, Limits
  <2>2. \A i \in 0 .. Limit - 1 : Differs(to, from, i) <=> View(to)[i] # View(from)[i]
    BY DiffersView
  <2> QED
    BY <1>3, <2>1, <2>2
<1>5. W \in SUBSET (0 .. Limit - 1) /\ 0 \in Int /\ Limit - 1 \in Int
  BY <1>4, Limits
<1>6. PICK s, n : s = InOrder(W) /\ n = Cardinality(W)
  OBVIOUS
<1>7. /\ Cardinality(W) \in Nat /\ InOrder(W) \in [1 .. Cardinality(W) -> W]
      /\ InOrder(W) \in Seq(W) /\ Len(InOrder(W)) = Cardinality(W)
      /\ \A i, j \in 1 .. Cardinality(W) : i < j => InOrder(W)[i] < InOrder(W)[j]
      /\ Covers(InOrder(W), Cardinality(W), W)
  BY <1>5, InOrderProps
<1>8. /\ n \in Nat /\ s \in [1 .. n -> W] /\ Len(s) = n /\ s \in Seq(W)
      /\ \A i, j \in 1 .. n : i < j => s[i] < s[j]
  BY <1>6, <1>7
<1>9. \A x \in W : \E i \in 1 .. n : s[i] = x
  <2>1. Covers(s, n, W)
    BY <1>6, <1>7
  <2> QED
    BY <2>1 DEF Covers
<1>13. PICK b \in BOOLEAN : b = (to.m_HighestIndex # from.m_HighestIndex)
  OBVIOUS
<1>14. b <=> h # k
  BY <1>1, <1>13
<1>10. m = IF s = << >> /\ ~b THEN Unchanged
           ELSE [size_change |-> b, highest |-> h,
                 entries |-> [i \in 1 .. Len(s) |-> DeltaEntry(to, from, s[i])]]
  BY <1>1, <1>3, <1>6, <1>13 DEF SerializeDelta
<1>11. CASE s = << >> /\ h = k
  <2>1. n = 0
    BY <1>8, <1>11
  <2>2. W = {}
    BY <1>9, <2>1
  <2> QED
    BY <1>1, <1>4, <1>10, <1>11, <1>14, <2>2
<1>12. CASE ~(s = << >> /\ h = k)
  <2>1. PICK es : es = [i \in 1 .. n |-> DeltaEntry(to, from, s[i])]
    OBVIOUS
  <2>2. m = [size_change |-> b, highest |-> h, entries |-> es]
    BY <1>8, <1>10, <1>12, <1>14, <2>1
  <2>3. DOMAIN es = 1 .. n
    BY <2>1
  <2>4. ASSUME NEW i \in 1 .. n
        PROVE  Tells(es[i], to, from) /\ es[i].index = s[i]
    <3>1. PICK x, e : x = s[i] /\ e = es[i]
      OBVIOUS
    <3>2. x \in W
      BY <1>8, <3>1
    <3>3. x \in 0 .. Limit - 1 /\ x <= to.m_HighestIndex /\ View(to)[x] # View(from)[x]
      BY <1>1, <1>4, <3>2
    <3>4. e = DeltaEntry(to, from, x)
      BY <2>1, <3>1
    <3>5. Tells(e, to, from) /\ e.index = x
      BY <3>3, <3>4, DeltaEntryTells
    <3> QED
      BY <3>1, <3>5
  <2>5. \A i, j \in 1 .. n : es[i].index = es[j].index => i = j
    <3>1. ASSUME NEW i \in 1 .. n, NEW j \in 1 .. n, es[i].index = es[j].index, i # j
          PROVE  FALSE
      <4>1. s[i] = s[j]
        BY <2>4, <3>1
      <4>2. i < j \/ j < i
        BY <3>1
      <4>3. s[i] \in Int /\ s[j] \in Int
        <5>1. W \subseteq Int
          BY <1>5
        <5> QED
          BY <1>8, <5>1
      <4> QED
        BY <1>8, <4>1, <4>2, <4>3
    <3> QED
      BY <3>1
  <2>6. \A i \in 0 .. Limit - 1 :
          i <= h /\ View(to)[i] # View(from)[i] => \E j \in 1 .. n : es[j].index = i
    BY <1>4, <1>9, <2>4
  <2>7. m \in DeltaPayload
    <3>1. es \in [1 .. n -> Entry]
      BY <2>1, <2>4 DEF Tells, Applicable
    <3>2. es \in Seq(Entry)
      BY <1>8, <3>1
    <3> QED
      BY <1>2, <1>13, <2>2, <3>2 DEF DeltaPayload, Entry
  <2>8. m.highest = h /\ m.entries = es /\ (m.size_change <=> h # k)
    <3>1. m.highest = h /\ m.entries = es
      BY <2>2
    <3>2. m.size_change = b
      BY <2>2
    <3> QED
      BY <1>14, <3>1, <3>2
  <2>9. Delta(m, n, to, from)
    BY <1>1, <2>3, <2>4, <2>5, <2>6, <2>7, <2>8 DEF Delta
  <2> QED
    BY <1>8, <2>9
<1> QED
  BY <1>11, <1>12

\* What the loop over the entries of a delta leaves.
Folded(val, es) == Seqs!FoldLeft(ApplyEntry, val, es)

LEMMA FoldedApplies ==
  ASSUME NEW val, Exact(val), NEW n \in Nat, NEW es, DOMAIN es = 1 .. n,
         \A k \in 1 .. n : Applicable(es[k])
  PROVE  \E h : Applies(h, n, val, es) /\ Folded(val, es) = h[n]
BY EntriesFold DEF Folded

LEMMA DeserializeDeltaIs ==
  ASSUME NEW val, NEW m, m # Unchanged, NEW top, top = IF m.size_change THEN m.highest ELSE val.m_HighestIndex,
         NEW read, read = Folded(val, m.entries)
  PROVE  DeserializeDelta(val, m) =
           IF ~SameWidths(top, m.highest) \/ \E k \in DOMAIN m.entries : Misread(val, m.entries[k])
           THEN Corrupt ELSE RemoveEach(read, top + 1 .. read.m_HighestIndex)
BY DEF DeserializeDelta, Folded, RemoveRange

\* A delta is either misread or leaves an exact list.
LEMMA DecodeExact ==
  ASSUME NEW val, Exact(val), NEW to, Sound(to), NEW from, Sound(from),
         NEW m, m = SerializeDelta(to, from), NEW r, r = DeserializeDelta(val, m)
  PROVE  r = Corrupt \/ Exact(r)
<1>1. CASE m = Unchanged
  BY <1>1 DEF DeserializeDelta
<1>2. CASE m # Unchanged
  <2>1. PICK n \in Nat : Delta(m, n, to, from)
    BY <1>2, DeltaWritten
  <2>2. PICK es : es = m.entries
    OBVIOUS
  <2>3. DOMAIN es = 1 .. n /\ \A k \in 1 .. n : Applicable(es[k])
    BY <2>1, <2>2 DEF Delta, Tells
  <2>4. PICK h : Applies(h, n, val, es) /\ Folded(val, es) = h[n]
    BY <2>3, FoldedApplies
  <2>5. PICK read : read = Folded(val, m.entries)
    OBVIOUS
  <2>6. Exact(read)
    <3>1. Exact(h[n])
      BY <2>3, <2>4, EntriesExact
    <3> QED
      BY <2>2, <2>4, <2>5, <3>1
  <2>7. PICK top : top = IF m.size_change THEN m.highest ELSE val.m_HighestIndex
    OBVIOUS
  <2>8. PICK q : q = RemoveEach(read, top + 1 .. read.m_HighestIndex)
    OBVIOUS
  <2>9. r = Corrupt \/ r = q
    BY <1>2, <2>5, <2>7, <2>8, DeserializeDeltaIs
  <2>10. Exact(q)
    BY <2>6, <2>8, ExactSound, RemoveEachView
  <2> QED
    BY <2>9, <2>10
<1> QED
  BY <1>1, <1>2

\* Decoded onto a list that shows the old one, it shows the new one.
LEMMA DecodeDelta ==
  ASSUME NEW val, Exact(val), NEW to, Exact(to), NEW from, Exact(from), View(val) = View(from),
         NEW m, m = SerializeDelta(to, from), NEW r, r = DeserializeDelta(val, m)
  PROVE  Exact(r) /\ View(r) = View(to)
<1>1. PICK h, k : h = to.m_HighestIndex /\ k = from.m_HighestIndex
  OBVIOUS
<1>2. /\ h \in -1 .. Limit - 1 /\ h \in Int
      /\ \A i \in 0 .. Limit - 1 : View(to)[i] # Free => i <= h
  BY <1>1, ExactHighest
<1>3. /\ k \in -1 .. Limit - 1 /\ k \in Int
      /\ \A i \in 0 .. Limit - 1 : View(from)[i] # Free => i <= k
  BY <1>1, ExactHighest
<1>4. val.m_HighestIndex = k
  BY <1>1, SameHighest
<1>5. Sound(to) /\ Sound(from) /\ Sound(val)
  BY ExactSound
<1>6. CASE m = Unchanged
  <2>1. r = val
    BY <1>6 DEF DeserializeDelta
  <2>2. h = k /\ \A i \in 0 .. Limit - 1 : i <= h => View(to)[i] = View(from)[i]
    <3>1. ~ \E n \in Nat : Delta(m, n, to, from)
      BY <1>6, NullAssumption DEF Delta
    <3> QED
      BY <1>1, <1>5, <3>1, DeltaWritten
  <2>3. ASSUME NEW i \in 0 .. Limit - 1
        PROVE  View(to)[i] = View(from)[i]
    <3>1. CASE i <= h
      BY <2>2, <3>1
    <3>2. CASE ~(i <= h)
      <4>1. View(to)[i] = Free
        BY <1>2, <3>2
      <4>2. View(from)[i] = Free
        BY <1>3, <2>2, <3>2
      <4> QED
        BY <4>1, <4>2
    <3> QED
      BY <3>1, <3>2
  <2>4. View(to) = View(from)
    BY <2>3, SameViews
  <2> QED
    BY <2>1, <2>4
<1>7. CASE m # Unchanged
  <2>1. PICK n \in Nat : Delta(m, n, to, from)
    BY <1>5, <1>7, DeltaWritten
  <2>2. PICK es : es = m.entries
    OBVIOUS
  <2>3. DOMAIN es = 1 .. n /\ (\A j \in 1 .. n : Applicable(es[j]))
    BY <2>1, <2>2 DEF Delta, Tells
  <2>4. PICK g : Applies(g, n, val, es) /\ Folded(val, es) = g[n]
    BY <2>3, FoldedApplies
  <2>5. PICK read : read = Folded(val, m.entries)
    OBVIOUS
  <2>6. read = g[n]
    BY <2>2, <2>4, <2>5
  <2>7. \A i, j \in 1 .. n : es[i].index = es[j].index => i = j
    BY <2>1, <2>2 DEF Delta
  <2>8. /\ Exact(read)
        /\ \A j \in 1 .. n : View(read)[es[j].index] = Entered(es[j])
        /\ \A i \in 0 .. Limit - 1 : (\A j \in 1 .. n : es[j].index # i) => View(read)[i] = View(val)[i]
    BY <2>3, <2>4, <2>6, <2>7, EntriesView
  <2>9. ASSUME NEW i \in 0 .. Limit - 1, i <= h
        PROVE  View(read)[i] = View(to)[i]
    <3>1. CASE \E j \in 1 .. n : es[j].index = i
      <4>1. PICK j \in 1 .. n : es[j].index = i
        BY <3>1
      <4>2. Entered(es[j]) = View(to)[i]
        BY <2>1, <2>2, <4>1 DEF Delta, Tells
      <4> QED
        BY <2>8, <4>1, <4>2
    <3>2. CASE ~ \E j \in 1 .. n : es[j].index = i
      <4>1. View(to)[i] = View(from)[i]
        BY <1>1, <2>1, <2>2, <2>9, <3>2 DEF Delta
      <4> QED
        BY <2>8, <3>2, <4>1
    <3> QED
      BY <3>1, <3>2
  <2>10. PICK top : top = IF m.size_change THEN m.highest ELSE val.m_HighestIndex
    OBVIOUS
  <2>11. top = h /\ m.highest = h
    BY <1>1, <1>4, <2>1, <2>10 DEF Delta
  <2>12. SameWidths(top, m.highest)
    BY <2>11 DEF SameWidths
  <2>13. ASSUME NEW j \in DOMAIN m.entries
         PROVE  ~Misread(val, m.entries[j])
    <3>1. PICK e : e = m.entries[j]
      OBVIOUS
    <3>2. Tells(e, to, from)
      BY <2>1, <2>2, <2>3, <3>1 DEF Delta
    <3>3. PICK i : i = e.index
      OBVIOUS
    <3>4. i \in 0 .. Limit - 1
      BY <3>2, <3>3 DEF Tells, Applicable, Entry
    <3>5. HasAt(val, i) <=> View(val)[i] # Free
      BY <1>5, <3>4, SoundView
    <3>6. e.kind = "added" <=> View(val)[i] = Free
      BY <3>2, <3>3 DEF Tells
    <3>7. ~(HasAt(val, e.index) <=> e.kind = "added")
      BY <3>3, <3>5, <3>6
    <3>8. ~(HasAt(val, e.index) = (e.kind = "added"))
      BY <3>7, Zenon
    <3>9. ~Misread(val, e)
      BY <3>8, Zenon DEF Misread
    <3> QED
      BY <3>1, <3>9
  <2>14. PICK c : c = read.m_HighestIndex
    OBVIOUS
  <2>15. r = RemoveEach(read, h + 1 .. c)
    <3>1. r = RemoveEach(read, top + 1 .. read.m_HighestIndex)
      BY <1>7, <2>5, <2>10, <2>12, <2>13, DeserializeDeltaIs
    <3> QED
      BY <2>11, <2>14, <3>1
  <2>16. Sound(read)
    BY <2>8, ExactSound
  <2>17. /\ Exact(r)
         /\ \A i \in 0 .. Limit - 1 : View(r)[i] = IF i \in h + 1 .. c THEN Free ELSE View(read)[i]
    <3>1. PICK S : S = h + 1 .. c
      OBVIOUS
    <3>2. /\ Exact(r)
          /\ \A i \in 0 .. Limit - 1 : View(r)[i] = IF i \in S THEN Free ELSE View(read)[i]
      <4>1. r = RemoveEach(read, S)
        BY <2>15, <3>1
      <4>2. Exact(read)
        BY <2>8
      <4> QED
        BY <2>16, <4>1, <4>2, RemoveEachView
    <3> QED
      BY <3>1, <3>2
  <2>18. c \in Int /\ \A i \in 0 .. Limit - 1 : View(read)[i] # Free => i <= c
    BY <2>8, <2>14, ExactHighest
  <2>19. ASSUME NEW i \in 0 .. Limit - 1
         PROVE  View(r)[i] = View(to)[i]
    <3>1. CASE i <= h
      <4>1. i \notin h + 1 .. c
        BY <1>2, <2>18, <3>1
      <4> QED
        BY <2>9, <2>17, <3>1, <4>1
    <3>2. CASE ~(i <= h)
      <4>1. View(to)[i] = Free
        BY <1>2, <3>2
      <4>2. i \in h + 1 .. c \/ View(read)[i] = Free
        BY <1>2, <2>18, <3>2
      <4> QED
        BY <2>17, <4>1, <4>2
    <3> QED
      BY <3>1, <3>2
  <2>20. View(r) = View(to)
    BY <2>19, SameViews
  <2> QED
    BY <2>17, <2>20
<1> QED
  BY <1>6, <1>7

------------------------------------------------------------------------------
(***************************************************************************)
(* Whole values.                                                           *)
(***************************************************************************)
Element == [index : 0 .. Limit - 1, value : Elem]

\* What NetSerializer writes: the elements in order, each once.
Full(m, n, l) ==
  /\ m \in FullPayload
  /\ m.num_elements = n
  /\ DOMAIN m.entries = 1 .. n
  /\ SubSeq(m.entries, 1, m.num_elements) = m.entries
  /\ \A k \in 1 .. n : m.entries[k] \in Element /\ m.entries[k].value = View(l)[m.entries[k].index]
  /\ \A j, k \in 1 .. n : j < k => m.entries[j].index < m.entries[k].index
  /\ \A i \in 0 .. Limit - 1 : View(l)[i] # Free => \E k \in 1 .. n : m.entries[k].index = i

\* Indices and their number fit into the fields that MaxSize gives them.
LEMMA FieldFits ==
  ASSUME NEW x \in 0 .. Limit
  PROVE  Truncate(x, GetRequiredBits(MaxSize)) = x
<1>1. PICK b : b = GetRequiredBits(MaxSize)
  OBVIOUS
<1>2. b \in 1 .. 32
  BY <1>1, Limits, RequiredBitsRange
<1>3. MaxSize < 2 ^ GetRequiredBits(MaxSize)
  BY Limits, WidthFits
<1>4. PICK p : p = 2 ^ b
  OBVIOUS
<1>5. p \in Nat /\ MaxSize < p
  <2>1. 2 ^ b \in Nat
    BY <1>2, PowerOfTwo
  <2> QED
    BY <1>1, <1>3, <1>4, <2>1
<1>6. x \in Nat /\ x < 2 ^ b
  BY <1>4, <1>5, Limits
<1>7. Truncate(x, b) = x
  BY <1>2, <1>6, TruncateFits
<1> QED
  BY <1>1, <1>7

LEMMA SerializeValueIs ==
  ASSUME NEW l, NEW s, s = InOrder(DOMAIN Contents(l)),
         NEW es, es = [k \in 1 .. Len(s) |->
                         [index |-> Truncate(s[k], GetRequiredBits(MaxSize)), value |-> l.m_Values[s[k]]]]
  PROVE  SerializeValue(l) =
           [num_elements |-> Truncate(Len(s), GetRequiredBits(MaxSize)), entries |-> es]
BY DEF SerializeValue

LEMMA WholeSubSeq ==
  ASSUME NEW S, NEW s \in Seq(S), NEW n, n = Len(s)
  PROVE  SubSeq(s, 1, n) = s
OBVIOUS

LEMMA ValueWritten ==
  ASSUME NEW l, Sound(l), NEW m, m = SerializeValue(l)
  PROVE  \E n \in Nat : Full(m, n, l)
<1>1. PICK W : W = DOMAIN Contents(l)
  OBVIOUS
<1>2. /\ W \in SUBSET (0 .. Limit - 1)
      /\ \A i \in 0 .. Limit - 1 : i \in W <=> View(l)[i] # Free
      /\ \A i \in W : l.m_Values[i] = View(l)[i]
  BY <1>1, ContentsSeen
<1>3. PICK s, n : s = InOrder(W) /\ n = Cardinality(W)
  OBVIOUS
<1>4. /\ Cardinality(W) \in Nat /\ InOrder(W) \in [1 .. Cardinality(W) -> W]
      /\ Len(InOrder(W)) = Cardinality(W)
      /\ \A i, j \in 1 .. Cardinality(W) : i < j => InOrder(W)[i] < InOrder(W)[j]
      /\ Covers(InOrder(W), Cardinality(W), W)
  <2>1. 0 \in Int /\ Limit - 1 \in Int
    BY Limits
  <2> QED
    BY <1>2, <2>1, InOrderProps
<1>5. /\ n \in Nat /\ s \in [1 .. n -> W] /\ Len(s) = n
      /\ \A i, j \in 1 .. n : i < j => s[i] < s[j]
  BY <1>3, <1>4
<1>6. \A x \in W : \E i \in 1 .. n : s[i] = x
  <2>1. Covers(s, n, W)
    BY <1>3, <1>4
  <2> QED
    BY <2>1 DEF Covers
<1>7. n <= Limit
  <2>1. Cardinality(0 .. Limit - 1) = Limit /\ IsFiniteSet(0 .. Limit - 1)
    BY Limits, CountBelow
  <2>2. Cardinality(W) <= Cardinality(0 .. Limit - 1)
    BY <1>2, <2>1, FS_Subset
  <2> QED
    BY <1>3, <2>1, <2>2
<1>8. PICK es : es = [k \in 1 .. Len(s) |->
                        [index |-> Truncate(s[k], GetRequiredBits(MaxSize)), value |-> l.m_Values[s[k]]]]
  OBVIOUS
<1>9. m = [num_elements |-> Truncate(Len(s), GetRequiredBits(MaxSize)), entries |-> es]
  BY <1>1, <1>3, <1>8, SerializeValueIs
<1>10. Truncate(Len(s), GetRequiredBits(MaxSize)) = n
  <2>1. n \in 0 .. Limit
    BY <1>5, <1>7, Limits
  <2> QED
    BY <1>5, <2>1, FieldFits
<1>11. m.num_elements = n /\ m.entries = es
  BY <1>9, <1>10
<1>12. DOMAIN es = 1 .. n
  BY <1>5, <1>8
<1>13. ASSUME NEW k \in 1 .. n
       PROVE  es[k] \in Element /\ es[k].index = s[k] /\ es[k].value = View(l)[s[k]]
  <2>1. PICK x, e : x = s[k] /\ e = es[k]
    OBVIOUS
  <2>2. x \in W /\ x \in 0 .. Limit - 1 /\ x \in 0 .. Limit
    <3>1. x \in W
      BY <1>5, <2>1
    <3>2. x \in 0 .. Limit - 1
      BY <1>2, <3>1
    <3> QED
      BY <3>1, <3>2, Limits
  <2>3. e = [index |-> Truncate(x, GetRequiredBits(MaxSize)), value |-> l.m_Values[x]]
    BY <1>5, <1>8, <2>1
  <2>4. Truncate(x, GetRequiredBits(MaxSize)) = x
    BY <2>2, FieldFits
  <2>5. e.index = x /\ e.value = View(l)[x]
    BY <1>2, <2>2, <2>3, <2>4
  <2>6. View(l)[x] \in Elem
    <3>1. View(l)[x] # Free
      BY <1>2, <2>2
    <3> QED
      BY <2>2, <3>1, SoundView
  <2>7. e \in Element
    BY <2>2, <2>3, <2>4, <2>5, <2>6 DEF Element
  <2> QED
    BY <2>1, <2>5, <2>7
<1>14. es \in Seq(Element) /\ Len(es) = n
  <2>1. es \in [1 .. n -> Element]
    <3>1. es = [k \in 1 .. n |-> es[k]]
      BY <1>8, <1>12
    <3> QED
      BY <1>12, <1>13, <3>1
  <2> QED
    BY <1>5, <2>1
<1>15. SubSeq(es, 1, n) = es
  BY <1>14, WholeSubSeq
<1>16. m \in FullPayload
  <2>1. n \in 0 .. Limit
    BY <1>5, <1>7, Limits
  <2> QED
    BY <1>9, <1>10, <1>14, <2>1 DEF FullPayload, Element
<1>17. \A i \in 0 .. Limit - 1 : View(l)[i] # Free => \E k \in 1 .. n : es[k].index = i
  BY <1>2, <1>6, <1>13
<1>18. \A j, k \in 1 .. n : j < k => es[j].index < es[k].index
  BY <1>5, <1>13
<1>19. \A k \in 1 .. n : es[k] \in Element /\ es[k].value = View(l)[es[k].index]
  BY <1>13
<1>20. Full(m, n, l)
  BY <1>11, <1>12, <1>15, <1>16, <1>17, <1>18, <1>19 DEF Full
<1> QED
  BY <1>5, <1>20

\* Where the reader's loop stands: an exact list, and the index it is at.
Reader(at) ==
  /\ at = [list |-> at.list, next |-> at.next]
  /\ Exact(at.list) /\ at.next \in 0 .. Limit

LEMMA ReadElementView ==
  ASSUME NEW at, Reader(at), NEW e \in Element, NEW r, r = ReadElement(at, e)
  PROVE  /\ Reader(r) /\ r.next = e.index + 1
         /\ \A j \in 0 .. Limit - 1 :
              View(r.list)[j] = IF j = e.index THEN e.value
                                ELSE IF at.next <= j /\ j < e.index THEN Free ELSE View(at.list)[j]
<1>1. PICK i, v, c, l : i = e.index /\ v = e.value /\ c = at.next /\ l = at.list
  OBVIOUS
<1>2. i \in 0 .. Limit - 1 /\ v \in Elem /\ c \in 0 .. Limit /\ Exact(l) /\ Sound(l)
  BY <1>1, ExactSound DEF Reader, Element
<1>3. PICK S : S = c .. i - 1
  OBVIOUS
<1>4. PICK q : q = RemoveEach(l, S)
  OBVIOUS
<1>5. PICK p : p = PlaceAt(q, i, v)
  OBVIOUS
<1>6. r = [list |-> p, next |-> i + 1]
  BY <1>1, <1>3, <1>4, <1>5 DEF ReadElement, RemoveRange
<1>7. /\ Sound(q) /\ Exact(q)
      /\ \A j \in 0 .. Limit - 1 : View(q)[j] = IF j \in S THEN Free ELSE View(l)[j]
  BY <1>2, <1>4, RemoveEachView
<1>8. /\ Exact(p)
      /\ \A j \in 0 .. Limit - 1 : View(p)[j] = IF j = i THEN v ELSE View(q)[j]
  BY <1>2, <1>5, <1>7, PlaceAtView
<1>9. r.list = p /\ r.next = i + 1
  BY <1>6
<1>10. i + 1 \in 0 .. Limit
  BY <1>2, Limits
<1>11. Reader(r)
  BY <1>6, <1>8, <1>9, <1>10 DEF Reader
<1>12. \A j \in 0 .. Limit - 1 : j \in S <=> c <= j /\ j < i
  BY <1>2, <1>3, Limits
<1>13. \A j \in 0 .. Limit - 1 :
         View(p)[j] = IF j = i THEN v ELSE IF c <= j /\ j < i THEN Free ELSE View(l)[j]
  BY <1>7, <1>8, <1>12
<1> QED
  BY <1>1, <1>9, <1>11, <1>13

Start(val) == [list |-> val, next |-> 0]

LEMMA StartReader ==
  ASSUME NEW val, Exact(val), NEW at, at = Start(val)
  PROVE  Reader(at) /\ at.list = val /\ at.next = 0
<1>1. at.list = val /\ at.next = 0
  BY DEF Start
<1>2. at = [list |-> at.list, next |-> at.next]
  BY DEF Start
<1> QED
  BY <1>1, <1>2, Limits DEF Reader

Reads(h, n, val, es) ==
  /\ h[0] = Start(val)
  /\ \A k \in 1 .. n : h[k] = ReadElement(h[k - 1], es[k])

LEMMA ElementsFold ==
  ASSUME NEW val, Exact(val), NEW n \in Nat, NEW es, DOMAIN es = 1 .. n,
         \A k \in 1 .. n : es[k] \in Element
  PROVE  \E h : Reads(h, n, val, es) /\ Seqs!FoldLeft(ReadElement, Start(val), es) = h[n]
<1> DEFINE A == {at \in [list : ListType, next : 0 .. Limit] : WellFormed(at.list)}
           step == [k \in 1 .. n |-> [x \in A |-> ReadElement(x, es[k])]]
<1>0. \A x : x \in A <=> Reader(x)
  <2>1. ASSUME NEW x \in A
        PROVE  Reader(x)
    <3>1. x \in [list : ListType, next : 0 .. Limit] /\ WellFormed(x.list)
      OBVIOUS
    <3>2. x = [list |-> x.list, next |-> x.next] /\ x.list \in ListType /\ x.next \in 0 .. Limit
      BY <3>1
    <3> QED
      BY <3>1, <3>2 DEF Reader, Exact
  <2>2. ASSUME NEW x, Reader(x)
        PROVE  x \in A
    <3>1. PICK l, c : l = x.list /\ c = x.next
      OBVIOUS
    <3>2. x = [list |-> l, next |-> c] /\ l \in ListType /\ c \in 0 .. Limit /\ WellFormed(x.list)
      BY <2>2, <3>1 DEF Reader, Exact
    <3>3. x \in [list : ListType, next : 0 .. Limit]
      BY <3>2
    <3> QED
      BY <3>2, <3>3
  <2> QED
    BY <2>1, <2>2
<1>1. ASSUME NEW x \in A, NEW k \in 1 .. n
      PROVE  ReadElement(x, es[k]) \in A
  <2>1. Reader(x)
    BY <1>0
  <2>2. PICK r, e : e = es[k] /\ r = ReadElement(x, e)
    OBVIOUS
  <2>3. e \in Element
    BY <2>2
  <2>4. Reader(r)
    BY <2>1, <2>2, <2>3, ReadElementView
  <2> HIDE DEF A
  <2> QED
    BY <1>0, <2>2, <2>4
<1>2. step \in Steps(A, n)
  BY <1>1 DEF Steps
<1>3. PICK g : FoldOf(g, A, Start(val), n, step)
  <2>1. Start(val) \in A
    <3>1. Reader(Start(val))
      BY StartReader
    <3> HIDE DEF A
    <3> QED
      BY <1>0, <3>1
  <2> HIDE DEF step, A
  <2> QED
    BY <1>2, <2>1, FoldDefined
<1>4. g = [s \in SUBSET (1 .. n) |-> IF s = {} THEN Start(val)
                                     ELSE ReadElement(g[s \ {Biggest(s)}], es[Biggest(s)])]
  <2>1. ASSUME NEW s \in SUBSET (1 .. n), s # {}
        PROVE  step[Biggest(s)][g[s \ {Biggest(s)}]] = ReadElement(g[s \ {Biggest(s)}], es[Biggest(s)])
    <3>1. Biggest(s) \in 1 .. n /\ s \ {Biggest(s)} \in SUBSET (1 .. n)
      BY <2>1, BiggestProps
    <3>2. g[s \ {Biggest(s)}] \in A
      BY <1>3, <3>1 DEF FoldOf
    <3> HIDE DEF A
    <3> QED
      BY <3>1, <3>2
  <2> HIDE DEF step, A
  <2> QED
    BY <1>3, <2>1 DEF FoldOf
<1> HIDE DEF step, A
<1>5. PICK it :
        /\ it = [s \in SUBSET (1 .. n) |-> IF s = {} THEN Start(val)
                                           ELSE ReadElement(it[s \ {Biggest(s)}], es[Biggest(s)])]
        /\ Seqs!FoldLeft(ReadElement, Start(val), es) = it[1 .. n]
  <2>1. \A s : Seqs!Max(s) = Biggest(s)
    BY DEF Seqs!Max, Biggest
  <2>2. g = [s \in SUBSET DOMAIN es |-> IF s = {} THEN Start(val)
               ELSE ReadElement(g[s \ {Seqs!Max(s)}], es[Seqs!Max(s)])]
    BY <1>4, <2>1
  <2>3. \E it : /\ it = [s \in SUBSET DOMAIN es |-> IF s = {} THEN Start(val)
                           ELSE ReadElement(it[s \ {Seqs!Max(s)}], es[Seqs!Max(s)])]
                /\ Seqs!FoldLeft(ReadElement, Start(val), es) = it[DOMAIN es]
    BY <2>2 DEF Seqs!FoldLeft, Seqs!MapThenFoldSet
  <2>4. PICK it :
          /\ it = [s \in SUBSET DOMAIN es |-> IF s = {} THEN Start(val)
                     ELSE ReadElement(it[s \ {Seqs!Max(s)}], es[Seqs!Max(s)])]
          /\ Seqs!FoldLeft(ReadElement, Start(val), es) = it[DOMAIN es]
    BY <2>3
  <2>5. it = [s \in SUBSET (1 .. n) |-> IF s = {} THEN Start(val)
                                        ELSE ReadElement(it[s \ {Biggest(s)}], es[Biggest(s)])]
    BY <2>1, <2>4
  <2> QED
    BY <2>4, <2>5
<1>6. it[1 .. 0] = Start(val) /\ \A k \in 1 .. n : it[1 .. k] = ReadElement(it[1 .. k - 1], es[k])
  <2>1. 1 .. 0 = {} /\ {} \in SUBSET (1 .. n)
    OBVIOUS
  <2>2. ASSUME NEW k \in 1 .. n
        PROVE  it[1 .. k] = ReadElement(it[1 .. k - 1], es[k])
    <3>1. 1 .. k \in SUBSET (1 .. n) /\ k \in Nat /\ k # 0
      OBVIOUS
    <3>2. Biggest(1 .. k) = k /\ (1 .. k) \ {k} = 1 .. k - 1 /\ 1 .. k # {}
      BY <3>1, BiggestPrefix
    <3>3. it[1 .. k] = ReadElement(it[(1 .. k) \ {Biggest(1 .. k)}], es[Biggest(1 .. k)])
      BY <1>5, <3>1, <3>2
    <3> QED
      BY <3>2, <3>3
  <2> QED
    BY <1>5, <2>1, <2>2
<1> DEFINE h == [k \in 0 .. n |-> it[1 .. k]]
<1>7. Reads(h, n, val, es)
  BY <1>6 DEF Reads
<1>8. h[n] = it[1 .. n]
  OBVIOUS
<1> HIDE DEF h
<1> QED
  BY <1>5, <1>7, <1>8

\* The entries are the elements of l in order.
Listing(es, n, l) ==
  /\ \A k \in 1 .. n : es[k] \in Element /\ es[k].value = View(l)[es[k].index]
  /\ \A j, k \in 1 .. n : j < k => es[j].index < es[k].index
  /\ \A i \in 0 .. Limit - 1 : View(l)[i] # Free => \E k \in 1 .. n : es[k].index = i

\* Below the reader's index its list is the one sent, above it the one there was.
UpToDate(at, k, es, val, l) ==
  /\ Reader(at)
  /\ at.next = IF k = 0 THEN 0 ELSE es[k].index + 1
  /\ \A j \in 0 .. Limit - 1 : View(at.list)[j] = IF j < at.next THEN View(l)[j] ELSE View(val)[j]

LEMMA ReadOn ==
  ASSUME NEW l, NEW val, NEW n \in Nat, NEW es, Listing(es, n, l), NEW k \in 0 .. n - 1,
         NEW at, UpToDate(at, k, es, val, l), NEW r, r = ReadElement(at, es[k + 1])
  PROVE  UpToDate(r, k + 1, es, val, l)
<1>1. k \in Nat /\ k + 1 \in 1 .. n /\ k + 1 # 0
  OBVIOUS
<1>2. PICK e, i, c : e = es[k + 1] /\ i = e.index /\ c = at.next
  OBVIOUS
<1>3. e \in Element /\ e.value = View(l)[i] /\ i \in 0 .. Limit - 1
  BY <1>1, <1>2 DEF Listing, Element
<1>4. Reader(at) /\ c \in 0 .. Limit
  BY <1>2 DEF UpToDate, Reader
<1>5. /\ Reader(r) /\ r.next = i + 1
      /\ \A j \in 0 .. Limit - 1 :
           View(r.list)[j] = IF j = e.index THEN e.value
                             ELSE IF at.next <= j /\ j < e.index THEN Free ELSE View(at.list)[j]
  BY <1>2, <1>3, <1>4, ReadElementView
<1>6. c <= i
  <2>1. CASE k = 0
    BY <1>2, <1>3, <2>1 DEF UpToDate
  <2>2. CASE k # 0
    <3>1. k \in 1 .. n /\ k < k + 1
      BY <1>1, <2>2
    <3>2. es[k].index < i /\ es[k].index \in 0 .. Limit - 1
      BY <1>1, <1>2, <3>1 DEF Listing, Element
    <3>3. c = es[k].index + 1
      BY <1>2, <2>2 DEF UpToDate
    <3> QED
      BY <1>3, <3>2, <3>3
  <2> QED
    BY <2>1, <2>2
<1>7. ASSUME NEW j \in 0 .. Limit - 1, c <= j, j < i
      PROVE  View(l)[j] = Free
  <2> SUFFICES ASSUME View(l)[j] # Free
               PROVE  FALSE
    OBVIOUS
  <2>1. PICK x \in 1 .. n : es[x].index = j
    BY DEF Listing
  <2>2. ~(k + 1 < x) /\ k + 1 # x
    <3>1. k + 1 < x => i < j
      BY <1>1, <1>2, <2>1 DEF Listing
    <3>2. k + 1 # x
      BY <1>2, <1>3, <1>7, <2>1
    <3> QED
      BY <1>3, <1>7, <3>1, <3>2
  <2>3. x <= k /\ k \in 1 .. n
    BY <1>1, <2>2
  <2>4. c = es[k].index + 1
    BY <1>2, <2>3 DEF UpToDate
  <2>5. j <= es[k].index /\ es[k].index \in 0 .. Limit - 1
    <3>1. es[k].index \in 0 .. Limit - 1
      BY <2>3 DEF Listing, Element
    <3>2. x = k \/ x < k
      BY <2>3
    <3>3. x < k => j < es[k].index
      BY <2>1, <2>3 DEF Listing
    <3> QED
      BY <2>1, <3>1, <3>2, <3>3
  <2> QED
    BY <1>7, <2>4, <2>5
<1>8. \A j \in 0 .. Limit - 1 : View(at.list)[j] = IF j < c THEN View(l)[j] ELSE View(val)[j]
  BY <1>2 DEF UpToDate
<1>9. ASSUME NEW j \in 0 .. Limit - 1
      PROVE  View(r.list)[j] = IF j < i + 1 THEN View(l)[j] ELSE View(val)[j]
  <2>1. CASE j = i
    BY <1>2, <1>3, <1>5, <2>1
  <2>2. CASE j # i /\ c <= j /\ j < i
    BY <1>2, <1>3, <1>5, <1>7, <2>2
  <2>3. CASE j < c
    BY <1>2, <1>3, <1>4, <1>5, <1>6, <1>8, <2>3
  <2>4. CASE j > i
    BY <1>2, <1>3, <1>4, <1>5, <1>6, <1>8, <2>4
  <2> QED
    BY <1>3, <1>4, <2>1, <2>2, <2>3, <2>4
<1>10. r.next = IF k + 1 = 0 THEN 0 ELSE es[k + 1].index + 1
  BY <1>1, <1>2, <1>5
<1>11. \A j \in 0 .. Limit - 1 : View(r.list)[j] = IF j < r.next THEN View(l)[j] ELSE View(val)[j]
  BY <1>5, <1>9
<1> QED
  BY <1>5, <1>10, <1>11 DEF UpToDate

LEMMA ReadAll ==
  ASSUME NEW l, NEW val, Exact(val), NEW n \in Nat, NEW es, Listing(es, n, l),
         NEW h, Reads(h, n, val, es)
  PROVE  UpToDate(h[n], n, es, val, l)
<1> DEFINE S == {k \in 0 .. n : UpToDate(h[k], k, es, val, l)}
<1>1. 0 \in S
  <2>1. PICK at : at = Start(val)
    OBVIOUS
  <2>2. Reader(at) /\ at.list = val /\ at.next = 0
    BY <2>1, StartReader
  <2>3. \A j \in 0 .. Limit - 1 : ~(j < 0)
    BY Limits
  <2>4. UpToDate(at, 0, es, val, l)
    BY <2>2, <2>3 DEF UpToDate
  <2> QED
    BY <2>1, <2>4 DEF Reads
<1>2. ASSUME NEW k \in 0 .. n - 1, k \in S
      PROVE  k + 1 \in S
  <2>1. PICK at, r : at = h[k] /\ r = h[k + 1]
    OBVIOUS
  <2>2. k + 1 \in 1 .. n /\ (k + 1) - 1 = k /\ k + 1 \in 0 .. n
    OBVIOUS
  <2>3. r = ReadElement(at, es[k + 1])
    BY <2>1, <2>2 DEF Reads
  <2>4. UpToDate(at, k, es, val, l)
    BY <1>2, <2>1
  <2>5. UpToDate(r, k + 1, es, val, l)
    BY <2>3, <2>4, ReadOn
  <2> QED
    BY <2>1, <2>2, <2>5
<1>3. 0 .. n \subseteq S
  <2> HIDE DEF S
  <2> QED
    BY <1>1, <1>2, UpTo
<1> QED
  BY <1>3

\* What is left of the list that a full state is decoded onto: at most its
\* highest element, above all those that were sent.
Overlaid(r, val, l) ==
  /\ \A i \in 0 .. Limit - 1 : View(l)[i] # Free => View(r)[i] = View(l)[i]
  /\ \A i \in 0 .. Limit - 1 :
       View(l)[i] = Free /\ View(r)[i] # Free =>
         /\ View(val)[i] # Free /\ i = val.m_HighestIndex
         /\ \A j \in 0 .. Limit - 1 : View(l)[j] # Free => j < i

ReadTo(val, es) == Seqs!FoldLeft(ReadElement, Start(val), es)

LEMMA ReadToReads ==
  ASSUME NEW val, Exact(val), NEW n \in Nat, NEW es, DOMAIN es = 1 .. n,
         \A k \in 1 .. n : es[k] \in Element
  PROVE  \E h : Reads(h, n, val, es) /\ ReadTo(val, es) = h[n]
BY ElementsFold DEF ReadTo

LEMMA DeserializeValueIs ==
  ASSUME NEW val, NEW m, NEW es, es = SubSeq(m.entries, 1, m.num_elements),
         NEW at, at = ReadTo(val, es)
  PROVE  DeserializeValue(val, m) = RemoveEach(at.list, at.next .. at.list.m_HighestIndex - 1)
BY DEF DeserializeValue, ReadTo, RemoveRange, Start

LEMMA DecodeValue ==
  ASSUME NEW val, Exact(val), NEW l, Sound(l), NEW m, m = SerializeValue(l),
         NEW r, r = DeserializeValue(val, m)
  PROVE  Exact(r) /\ Overlaid(r, val, l)
<1>1. PICK n \in Nat : Full(m, n, l)
  BY ValueWritten
<1>2. PICK es : es = m.entries
  OBVIOUS
<1>3. Listing(es, n, l) /\ DOMAIN es = 1 .. n /\ es = SubSeq(m.entries, 1, m.num_elements)
  BY <1>1, <1>2 DEF Full, Listing
<1>4. PICK h : Reads(h, n, val, es) /\ ReadTo(val, es) = h[n]
  <2>1. \A k \in 1 .. n : es[k] \in Element
    BY <1>3 DEF Listing
  <2> QED
    BY <1>3, <2>1, ReadToReads
<1>5. PICK at : at = ReadTo(val, es)
  OBVIOUS
<1>6. UpToDate(at, n, es, val, l)
  BY <1>3, <1>4, <1>5, ReadAll
<1>7. PICK read, N : read = at.list /\ N = at.next
  OBVIOUS
<1>8. /\ Exact(read) /\ N \in 0 .. Limit /\ N = (IF n = 0 THEN 0 ELSE es[n].index + 1)
      /\ \A j \in 0 .. Limit - 1 : View(read)[j] = IF j < N THEN View(l)[j] ELSE View(val)[j]
  BY <1>6, <1>7 DEF UpToDate, Reader
<1>9. PICK c : c = read.m_HighestIndex
  OBVIOUS
<1>10. PICK S : S = N .. c - 1
  OBVIOUS
<1>11. r = RemoveEach(read, S)
  <2>1. r = RemoveEach(at.list, at.next .. at.list.m_HighestIndex - 1)
    BY <1>3, <1>5, DeserializeValueIs
  <2> QED
    BY <1>7, <1>9, <1>10, <2>1
<1>12. Sound(read)
  BY <1>8, ExactSound
<1>13. Exact(read)
  BY <1>8
<1>14. Exact(r) /\ \A j \in 0 .. Limit - 1 : View(r)[j] = IF j \in S THEN Free ELSE View(read)[j]
  BY <1>11, <1>12, <1>13, RemoveEachView
<1>15. /\ c \in -1 .. Limit - 1 /\ c \in Int
       /\ \A i \in 0 .. Limit - 1 : View(read)[i] # Free => i <= c
  BY <1>9, <1>13, ExactHighest
<1>16. PICK t : t = val.m_HighestIndex
  OBVIOUS
<1>17. /\ t \in -1 .. Limit - 1 /\ t \in Int /\ (t >= 0 => View(val)[t] # Free)
       /\ \A i \in 0 .. Limit - 1 : View(val)[i] # Free => i <= t
  BY <1>16, ExactHighest
<1>18. ASSUME NEW i \in 0 .. Limit - 1, View(l)[i] # Free
       PROVE  i < N
  <2>1. PICK k \in 1 .. n : es[k].index = i
    BY <1>3, <1>18 DEF Listing
  <2>2. n \in 1 .. n /\ n # 0
    BY <2>1
  <2>3. es[n].index \in 0 .. Limit - 1
    BY <1>3, <2>2 DEF Listing, Element
  <2>4. k = n \/ k < n
    BY <2>1
  <2>5. k < n => i < es[n].index
    BY <1>3, <2>1, <2>2 DEF Listing
  <2> QED
    BY <1>8, <2>1, <2>2, <2>3, <2>4, <2>5
<1>19. ASSUME NEW i \in 0 .. Limit - 1, i < N
       PROVE  View(r)[i] = View(l)[i]
  <2>1. i \notin S
    BY <1>8, <1>10, <1>15, <1>19
  <2> QED
    BY <1>8, <1>14, <1>19, <2>1
<1>20. ASSUME NEW i \in 0 .. Limit - 1, View(l)[i] = Free, View(r)[i] # Free
       PROVE  /\ View(val)[i] # Free /\ i = t
              /\ \A j \in 0 .. Limit - 1 : View(l)[j] # Free => j < i
  <2>1. ~(i < N)
    BY <1>19, <1>20
  <2>2. i \notin S /\ View(read)[i] = View(val)[i] /\ View(read)[i] # Free
    BY <1>8, <1>14, <1>20, <2>1
  <2>3. i <= c /\ ~(i \in N .. c - 1)
    BY <1>10, <1>15, <2>2
  <2>4. i = c
    BY <1>8, <1>15, <2>1, <2>3
  <2>5. i <= t
    BY <1>17, <2>2
  <2>6. t \in 0 .. Limit - 1 /\ ~(t < N)
    BY <1>8, <1>17, <2>1, <2>5, Limits
  <2>7. View(read)[t] # Free
    BY <1>8, <1>17, <2>6
  <2>8. t <= c
    BY <1>15, <2>6, <2>7
  <2>9. i = t
    BY <1>15, <1>17, <2>4, <2>5, <2>8
  <2>10. ASSUME NEW j \in 0 .. Limit - 1, View(l)[j] # Free
         PROVE  j < i
    BY <1>8, <1>18, <2>1, <2>10
  <2> QED
    BY <2>2, <2>9, <2>10
<1>21. Overlaid(r, val, l)
  BY <1>16, <1>18, <1>19, <1>20 DEF Overlaid
<1> QED
  BY <1>14, <1>21

\* The receiver starts from a default constructed list.
LEMMA DecodeFirst ==
  ASSUME NEW l, Sound(l), NEW m, m = SerializeValue(l), NEW r, r = DeserializeValue(EmptyList, m)
  PROVE  Exact(r) /\ View(r) = View(l)
<1>1. Exact(r) /\ Overlaid(r, EmptyList, l)
  BY EmptyExact, DecodeValue
<1>2. ASSUME NEW i \in 0 .. Limit - 1
      PROVE  View(r)[i] = View(l)[i]
  <2>1. View(EmptyList)[i] = Free
    BY EmptyExact
  <2> QED
    BY <1>1, <2>1 DEF Overlaid
<1>3. View(r) = View(l)
  BY <1>2, SameViews
<1> QED
  BY <1>1, <1>3

------------------------------------------------------------------------------
(***************************************************************************)
(* Steps.                                                                  *)
(***************************************************************************)
LEMMA PayloadTyped ==
  ASSUME NEW to, Sound(to), NEW from, from = Null \/ Sound(from), NEW m, m = PayloadFor(to, from)
  PROVE  m \in FullPayload \cup DeltaPayload \cup {Unchanged}
<1>1. CASE from = Null
  <2>1. m = SerializeValue(to)
    BY <1>1 DEF PayloadFor
  <2>2. PICK n \in Nat : Full(m, n, to)
    BY <2>1, ValueWritten
  <2> QED
    BY <2>2 DEF Full
<1>2. CASE from # Null
  <2>1. m = SerializeDelta(to, from) /\ Sound(from)
    BY <1>2 DEF PayloadFor
  <2>2. m = Unchanged \/ \E n \in Nat : Delta(m, n, to, from)
    BY <2>1, DeltaWritten
  <2> QED
    BY <2>2 DEF Delta
<1> QED
  BY <1>1, <1>2

LEMMA NotLists ==
  /\ Null # Corrupt
  /\ \A l : Sound(l) => l # Null /\ l # Corrupt
  /\ \A l : Exact(l) => l # Null /\ l # Corrupt
  /\ EmptyList # Null /\ EmptyList # Corrupt
<1>1. EmptyList \in ListType
  BY EmptyExact
<1> QED
  BY <1>1, NullAssumption DEF Sound, Exact

LEMMA KeptSound ==
  ASSUME NEW l, Kept(l)
  PROVE  Sound(l) /\ (~compressed => Exact(l)) /\ l \in ListType
BY ExactSound DEF Kept, Sound

LEMMA InitInv ==
  ASSUME Init
  PROVE  SparseListInv
<1>1. list = EmptyList /\ compressed = FALSE /\ m_LastSyncedState = Null /\ m_ReferenceState = Null
      /\ packets = << >> /\ shown = [inst |-> Null, sent |-> Null]
  BY DEF Init, Pipe!Init
<1>2. Kept(list)
  BY <1>1, EmptyExact DEF Kept
<1>3. Follows(m_ReferenceState, Null)
  BY <1>1 DEF Follows
<1>4. Chained(Null, packets, m_LastSyncedState)
  BY <1>1 DEF Chained
<1>5. packets \in Seq([payload : FullPayload \cup DeltaPayload \cup {Unchanged}, state : ListType])
      /\ Len(packets) = 0
  BY <1>1
<1>6. PacketsInv
  BY <1>3, <1>4, <1>5 DEF PacketsInv
<1>7. ShownUncompressed
  BY <1>1 DEF ShownUncompressed, ShownAsSent
<1> QED
  BY <1>1, <1>2, <1>6, <1>7 DEF SparseListInv

\* The state sent last is the application's business too.
LEMMA LastKept ==
  ASSUME SparseListInv, m_LastSyncedState # Null
  PROVE  Kept(m_LastSyncedState)
<1>1. PICK base \in ListType \cup {Null} :
        Follows(m_ReferenceState, base) /\ Chained(base, packets, m_LastSyncedState)
  BY DEF SparseListInv, PacketsInv
<1>2. PICK n : n = Len(packets)
  OBVIOUS
<1>3. n \in Nat /\ (packets # << >> => n \in 1 .. n)
  <2>1. packets \in Seq([payload : FullPayload \cup DeltaPayload \cup {Unchanged}, state : ListType])
    BY DEF SparseListInv, PacketsInv
  <2> QED
    BY <1>2, <2>1
<1>4. CASE packets = << >>
  <2>1. m_LastSyncedState = base /\ base # Null
    BY <1>1, <1>4 DEF Chained
  <2> QED
    BY <1>1, <2>1 DEF Follows
<1>5. CASE packets # << >>
  <2>1. m_LastSyncedState = packets[n].state
    BY <1>1, <1>2, <1>5 DEF Chained
  <2> QED
    BY <1>2, <1>3, <1>5, <2>1 DEF SparseListInv, PacketsInv
<1> QED
  BY <1>4, <1>5

\* Compress only ever weakens what is known of a list.
Onward == compressed \in BOOLEAN /\ compressed' \in BOOLEAN /\ (compressed => compressed')

LEMMA KeptOnward ==
  ASSUME Onward, NEW l, Kept(l)
  PROVE  Kept(l)'
<1>1. CASE compressed'
  BY <1>1, KeptSound DEF Kept
<1>2. CASE ~compressed'
  BY <1>2 DEF Kept, Onward
<1> QED
  BY <1>1, <1>2

LEMMA FollowsOnward ==
  ASSUME Onward, NEW ref, NEW base, Follows(ref, base)
  PROVE  Follows(ref, base)'
<1>1. base = Null \/ (Kept(base)')
  BY KeptOnward DEF Follows
<1> QED
  BY <1>1 DEF Follows, Onward

\* A step of the application leaves the pipe alone.
LEMMA PipeUnchanged ==
  ASSUME SparseListInv, Onward, UNCHANGED pipeVars
  PROVE  PacketsInv' /\ ShownUncompressed'
<1>1. m_LastSyncedState' = m_LastSyncedState /\ m_ReferenceState' = m_ReferenceState
      /\ packets' = packets /\ shown' = shown
  BY DEF pipeVars
<1>2. PICK ps, last, ref : ps = packets /\ last = m_LastSyncedState /\ ref = m_ReferenceState
  OBVIOUS
<1>3. PICK base \in ListType \cup {Null} : Follows(ref, base) /\ Chained(base, ps, last)
  BY <1>2 DEF SparseListInv, PacketsInv
<1>4. Follows(ref, base)' /\ Chained(base, ps, last)'
  BY <1>3, FollowsOnward DEF Chained, PayloadFor
<1>5. ps' = ps /\ last' = last /\ ref' = ref
  OBVIOUS
<1>6. ASSUME NEW k \in 1 .. Len(ps)
      PROVE  Kept(ps[k].state)'
  BY <1>2, KeptOnward DEF SparseListInv, PacketsInv
<1>7. ps \in Seq([payload : FullPayload \cup DeltaPayload \cup {Unchanged}, state : ListType])
  BY <1>2 DEF SparseListInv, PacketsInv
<1>8. packets' = ps /\ m_LastSyncedState' = last /\ m_ReferenceState' = ref
  BY <1>1, <1>2
<1>9. PacketsInv'
  BY <1>3, <1>4, <1>6, <1>7, <1>8 DEF PacketsInv
<1>10. ShownUncompressed'
  BY <1>1 DEF ShownUncompressed, ShownAsSent, Onward, SparseListInv, Contents, IsValid
<1> QED
  BY <1>9, <1>10

LEMMA ChangeInv ==
  ASSUME SparseListInv, Change
  PROVE  SparseListInv'
<1>1. UNCHANGED pipeVars
  BY DEF Change
<1>2. compressed \in BOOLEAN /\ Kept(list)
  BY DEF SparseListInv
<1>3. Sound(list) /\ (~compressed => Exact(list))
  BY <1>2, KeptSound
<1>4. CASE CompressAll
  <2>1. list' = Compress(list) /\ compressed' = (compressed \/ Contents(list') # Contents(list))
    BY <1>4 DEF CompressAll
  <2>2. PICK l, r : l = list /\ r = list'
    OBVIOUS
  <2>3. Sound(r) /\ (Exact(l) /\ Contents(r) = Contents(l) => Exact(r))
    BY <1>3, <2>1, <2>2, CompressSound
  <2>4. compressed' \in BOOLEAN /\ (compressed' <=> compressed \/ Contents(r) # Contents(l))
    BY <2>1, <2>2
  <2>5. Onward
    BY <1>2, <2>4 DEF Onward
  <2>6. Kept(list)'
    BY <1>3, <2>2, <2>3, <2>4 DEF Kept
  <2> QED
    BY <1>1, <2>5, <2>6, PipeUnchanged DEF SparseListInv, Onward
<1>5. CASE /\ InsertAt \/ EmplaceBack \/ EmplaceAny \/ Remove \/ ClearAll \/ ReserveMore \/ Assign
           /\ UNCHANGED compressed
  <2>1. compressed' = compressed /\ Onward
    BY <1>2, <1>5 DEF Onward
  <2>2. PICK l, r : l = list /\ r = list'
    OBVIOUS
  <2>3. Sound(l)
    BY <1>3, <2>2
  <2>4. Sound(r) /\ (~compressed => Exact(r))
    <3>1. CASE InsertAt
      <4>1. PICK i \in 0 .. Limit - 1, v \in Elem : r = PlaceAt(l, i, v)
        BY <2>2, <3>1 DEF InsertAt
      <4>2. Sound(r) /\ (Exact(l) => Exact(r))
        BY <2>3, <4>1, PlaceAtView
      <4> QED
        BY <1>3, <2>2, <4>2
    <3>2. CASE EmplaceBack
      <4>1. PICK v \in Elem : r = PushBack(l, v)
        BY <2>2, <3>2 DEF EmplaceBack
      <4>2. l.m_HighestIndex + 1 < Limit
        BY <2>2, <3>2 DEF EmplaceBack
      <4>3. Sound(r) /\ (Exact(l) => Exact(r))
        BY <2>3, <4>1, <4>2, PushBackSound
      <4> QED
        BY <1>3, <2>2, <4>3
    <3>3. CASE EmplaceAny
      <4>1. PICK v \in Elem : r = Emplace(l, v) /\ Emplace(l, v).m_HighestIndex < Limit
        BY <2>2, <3>3 DEF EmplaceAny
      <4>2. r.m_HighestIndex < Limit
        BY <4>1
      <4>3. Sound(r) /\ (Exact(l) => Exact(r))
        BY <2>3, <4>1, <4>2, EmplaceSound
      <4> QED
        BY <1>3, <2>2, <4>3
    <3>4. CASE Remove
      <4>1. PICK i \in 0 .. Limit - 1 : r = RemoveAt(l, i)
        BY <2>2, <3>4 DEF Remove
      <4>2. r = RemoveEach(l, {i})
        BY <4>1 DEF RemoveAt
      <4>3. Sound(r) /\ (Exact(l) => Exact(r))
        BY <2>3, <4>2, RemoveEachView
      <4> QED
        BY <1>3, <2>2, <4>3
    <3>5. CASE ClearAll
      <4>1. r = Clear(l)
        BY <2>2, <3>5 DEF ClearAll
      <4>2. Exact(r)
        BY <2>3, <4>1, ClearSound
      <4> QED
        BY <4>2, ExactSound
    <3>6. CASE ReserveMore
      <4>1. PICK size \in 1 .. MaxReserve : r = Reserve(l, size)
        BY <2>2, <3>6 DEF ReserveMore
      <4>2. Sound(r) /\ (Exact(l) => Exact(r))
        BY <2>3, <4>1, ReserveSound
      <4> QED
        BY <1>3, <2>2, <4>2
    <3>7. CASE Assign
      <4>1. PICK q : q = m_LastSyncedState
        OBVIOUS
      <4>2. q # Null /\ r = Copy(l, q)
        BY <2>2, <3>7, <4>1 DEF Assign
      <4>3. Kept(q)
        BY <4>1, <4>2, LastKept
      <4>4. Sound(q) /\ (~compressed => Exact(q))
        BY <4>3, KeptSound
      <4>5. Sound(r) /\ (Exact(q) => Exact(r))
        BY <2>3, <4>2, <4>4, CopyView
      <4> QED
        BY <4>4, <4>5
    <3> QED
      BY <1>5, <3>1, <3>2, <3>3, <3>4, <3>5, <3>6, <3>7
  <2>5. Kept(list)'
    BY <2>1, <2>2, <2>4 DEF Kept
  <2> QED
    BY <1>1, <2>1, <2>5, PipeUnchanged DEF SparseListInv, Onward
<1> QED
  BY <1>4, <1>5 DEF Change

PacketType == [payload : FullPayload \cup DeltaPayload \cup {Unchanged}, state : ListType]

LEMMA SyncStateInv ==
  ASSUME SparseListInv, SyncState
  PROVE  SparseListInv'
<1>1. compressed' = compressed /\ list' = list /\ shown' = shown /\ m_ReferenceState' = m_ReferenceState
  BY DEF SyncState, Pipe!SyncState
<1>2. PICK s : s = Copy(EmptyList, list)
  OBVIOUS
<1>3. PICK ps, last, ref : ps = packets /\ last = m_LastSyncedState /\ ref = m_ReferenceState
  OBVIOUS
<1>4. PICK m : m = Pipe!Payload(s)
  OBVIOUS
<1>5. PICK p : p = [payload |-> m, state |-> s]
  OBVIOUS
<1>6. packets' = Append(ps, p) /\ m_LastSyncedState' = s
  BY <1>2, <1>3, <1>4, <1>5 DEF SyncState, Pipe!SyncState
<1>7. m = PayloadFor(s, last)
  BY <1>3, <1>4 DEF Pipe!Payload, PayloadFor
<1>8. Kept(list) /\ compressed \in BOOLEAN
  BY DEF SparseListInv
<1>9. Sound(s) /\ Kept(s)
  <2>1. Sound(list) /\ (~compressed => Exact(list))
    BY <1>8, KeptSound
  <2>2. Sound(s) /\ (Exact(list) => Exact(s))
    BY <1>2, <2>1, EmptyExact, CopyView
  <2> QED
    BY <2>1, <2>2 DEF Kept
<1>10. last = Null \/ Sound(last)
  BY <1>3, LastKept, KeptSound
<1>11. p \in PacketType
  <2>1. m \in FullPayload \cup DeltaPayload \cup {Unchanged}
    BY <1>7, <1>9, <1>10, PayloadTyped
  <2>2. s \in ListType
    BY <1>9 DEF Sound
  <2> QED
    BY <1>5, <2>1, <2>2 DEF PacketType
<1>12. ps \in Seq(PacketType)
  BY <1>3 DEF SparseListInv, PacketsInv, PacketType
<1>13. PICK n : n = Len(ps)
  OBVIOUS
<1>14. PICK qs : qs = Append(ps, p)
  OBVIOUS
<1>15. /\ n \in Nat /\ qs \in Seq(PacketType) /\ Len(qs) = n + 1 /\ qs # << >>
       /\ qs[n + 1] = p /\ \A k \in 1 .. n : qs[k] = ps[k]
  BY <1>11, <1>12, <1>13, <1>14
<1>16. PICK base \in ListType \cup {Null} : Follows(ref, base) /\ Chained(base, ps, last)
  BY <1>3 DEF SparseListInv, PacketsInv
<1>17. \A k \in 1 .. n : ps[k].payload = PayloadFor(ps[k].state, IF k = 1 THEN base ELSE ps[k - 1].state)
  BY <1>13, <1>16 DEF Chained
<1>18. last = IF n = 0 THEN base ELSE ps[n].state
  <2>1. ps = << >> <=> n = 0
    BY <1>12, <1>13
  <2> QED
    BY <1>13, <1>16, <2>1 DEF Chained
<1>19. p.payload = m /\ p.state = s
  BY <1>5
<1>20. ASSUME NEW k \in 1 .. n + 1
       PROVE  qs[k].payload = PayloadFor(qs[k].state, IF k = 1 THEN base ELSE qs[k - 1].state)
  <2>1. CASE k = n + 1
    <3>1. last = IF k = 1 THEN base ELSE qs[k - 1].state
      <4>1. CASE n = 0
        BY <1>18, <2>1, <4>1
      <4>2. CASE n # 0
        <5>1. n \in 1 .. n /\ k - 1 = n /\ k # 1
          BY <1>15, <2>1, <4>2
        <5> QED
          BY <1>15, <1>18, <4>2, <5>1
      <4> QED
        BY <4>1, <4>2
    <3>2. qs[k].payload = m /\ qs[k].state = s
      BY <1>15, <1>19, <2>1
    <3> QED
      BY <1>7, <3>1, <3>2
  <2>2. CASE k # n + 1
    <3>1. k \in 1 .. n
      BY <1>15, <2>2
    <3>2. k # 1 => k - 1 \in 1 .. n
      BY <1>15, <3>1
    <3>3. qs[k] = ps[k] /\ (k # 1 => qs[k - 1] = ps[k - 1])
      BY <1>15, <3>1, <3>2
    <3> QED
      BY <1>17, <3>1, <3>3
  <2> QED
    BY <2>1, <2>2
<1>21. Chained(base, qs, s)
  BY <1>15, <1>19, <1>20 DEF Chained
<1>22. \A k \in 1 .. Len(qs) : Kept(qs[k].state)
  <2>1. ASSUME NEW k \in 1 .. n + 1
        PROVE  Kept(qs[k].state)
    <3>1. CASE k = n + 1
      BY <1>9, <1>15, <1>19, <3>1
    <3>2. CASE k # n + 1
      <4>1. k \in 1 .. n
        BY <1>15, <3>2
      <4>2. Kept(ps[k].state)
        BY <1>3, <1>13, <4>1 DEF SparseListInv, PacketsInv
      <4> QED
        BY <1>15, <4>1, <4>2
    <3> QED
      BY <3>1, <3>2
  <2> QED
    BY <1>15, <2>1
<1>23. packets' = qs /\ m_LastSyncedState' = s /\ m_ReferenceState' = ref
  BY <1>1, <1>3, <1>6, <1>14
<1>24. Onward
  BY <1>1, <1>8 DEF Onward
<1>25. Follows(ref, base)' /\ Chained(base, qs, s)'
  BY <1>16, <1>21, <1>24, FollowsOnward DEF Chained, PayloadFor
<1>26. ASSUME NEW k \in 1 .. Len(qs)
       PROVE  Kept(qs[k].state)'
  BY <1>22, <1>24, KeptOnward
<1>27. PacketsInv'
  BY <1>15, <1>16, <1>23, <1>25, <1>26 DEF PacketsInv, PacketType
<1>28. Kept(list)'
  BY <1>1, <1>8 DEF Kept
<1>29. ShownUncompressed'
  BY <1>1 DEF SparseListInv, ShownUncompressed, ShownAsSent, Contents, IsValid
<1> QED
  BY <1>1, <1>8, <1>27, <1>28, <1>29 DEF SparseListInv

\* What the receiver decodes follows the state that the packet was made from,
\* whether or not a packet without a payload is given to the callback.
Decoded(ref, m) ==
  IF ref = Corrupt THEN Corrupt
  ELSE IF ref # Null THEN DeserializeDelta(ref, m) ELSE DeserializeValue(EmptyList, m)

LEMMA DecodeFollows ==
  ASSUME NEW ref, NEW base, Follows(ref, base), NEW s, Kept(s),
         NEW m, m = PayloadFor(s, base), NEW r, r = Decoded(ref, m)
  PROVE  Follows(r, s) /\ (m = Unchanged => Follows(ref, s))
<1>1. Sound(s) /\ (~compressed => Exact(s)) /\ s # Null /\ s # Corrupt
  BY KeptSound, NotLists
<1>2. Null # Corrupt
  BY NotLists
<1>3. CASE ref = Corrupt
  <2>1. r = Corrupt
    BY <1>3 DEF Decoded
  <2>2. compressed
    BY <1>2, <1>3 DEF Follows
  <2> QED
    BY <1>1, <1>2, <1>3, <2>1, <2>2 DEF Follows
<1>4. CASE ref = Null
  <2>1. base = Null
    BY <1>4 DEF Follows
  <2>2. m = SerializeValue(s) /\ r = DeserializeValue(EmptyList, m)
    BY <1>2, <1>4, <2>1 DEF PayloadFor, Decoded
  <2>3. Exact(r) /\ View(r) = View(s)
    BY <1>1, <2>2, DecodeFirst
  <2>4. r # Null /\ r # Corrupt
    BY <2>3, NotLists
  <2>5. m # Unchanged
    <3>1. PICK n \in Nat : Full(m, n, s)
      BY <1>1, <2>2, ValueWritten
    <3> QED
      BY <3>1, NullAssumption DEF Full
  <2> QED
    BY <1>1, <2>3, <2>4, <2>5 DEF Follows
<1>5. CASE ref # Null /\ ref # Corrupt
  <2>1. base # Null /\ Exact(ref) /\ Kept(base)
    BY <1>5 DEF Follows
  <2>2. m = SerializeDelta(s, base) /\ r = DeserializeDelta(ref, m)
    BY <1>5, <2>1 DEF PayloadFor, Decoded
  <2>3. Sound(base) /\ (~compressed => Exact(base) /\ View(ref) = View(base))
    BY <2>1, KeptSound DEF Follows
  <2>4. r = Corrupt \/ Exact(r)
    BY <1>1, <2>1, <2>2, <2>3, DecodeExact
  <2>5. ~compressed => Exact(r) /\ View(r) = View(s)
    BY <1>1, <2>1, <2>2, <2>3, DecodeDelta
  <2>6. r # Null /\ (Exact(r) => r # Corrupt)
    BY <1>2, <2>4, NotLists
  <2>7. Follows(r, s)
    BY <1>1, <2>4, <2>5, <2>6 DEF Follows
  <2>8. m = Unchanged => r = ref
    BY <2>2 DEF DeserializeDelta
  <2> QED
    BY <2>7, <2>8
<1> QED
  BY <1>3, <1>4, <1>5

LEMMA GotMessageInv ==
  ASSUME SparseListInv, GotMessage
  PROVE  SparseListInv'
<1>1. compressed' = compressed /\ list' = list /\ m_LastSyncedState' = m_LastSyncedState
  BY DEF GotMessage, Pipe!GotMessage
<1>2. PICK ps, last, ref : ps = packets /\ last = m_LastSyncedState /\ ref = m_ReferenceState
  OBVIOUS
<1>3. ps # << >> /\ packets' = Tail(ps)
  BY <1>2 DEF GotMessage, Pipe!GotMessage
<1>4. ps \in Seq(PacketType)
  BY <1>2 DEF SparseListInv, PacketsInv, PacketType
<1>5. PICK n, p, qs : n = Len(ps) /\ p = Head(ps) /\ qs = Tail(ps)
  OBVIOUS
<1>6. /\ n \in Nat /\ n # 0 /\ 1 \in 1 .. n /\ p = ps[1] /\ qs \in Seq(PacketType) /\ Len(qs) = n - 1
      /\ \A k \in 1 .. n - 1 : qs[k] = ps[k + 1]
  BY <1>3, <1>4, <1>5
<1>7. PICK s, m : s = p.state /\ m = p.payload
  OBVIOUS
<1>8. PICK base \in ListType \cup {Null} : Follows(ref, base) /\ Chained(base, ps, last)
  BY <1>2 DEF SparseListInv, PacketsInv
<1>9. \A k \in 1 .. n : ps[k].payload = PayloadFor(ps[k].state, IF k = 1 THEN base ELSE ps[k - 1].state)
  BY <1>5, <1>8 DEF Chained
<1>10. last = ps[n].state
  BY <1>3, <1>5, <1>8 DEF Chained
<1>11. \A k \in 1 .. n : Kept(ps[k].state)
  BY <1>2, <1>5 DEF SparseListInv, PacketsInv
<1>12. Kept(s) /\ m = PayloadFor(s, base)
  BY <1>6, <1>7, <1>9, <1>11
<1>13. PICK r : r = Decoded(ref, m)
  OBVIOUS
<1>14. Follows(r, s) /\ (m = Unchanged => Follows(ref, s))
  BY <1>8, <1>12, <1>13, DecodeFollows
<1>15. r = Pipe!Inst(m)
  BY <1>2, <1>13 DEF Pipe!Inst, Decoded
<1>16. \/ m_ReferenceState' = r /\ shown' = [inst |-> r, sent |-> s]
       \/ m = Unchanged /\ m_ReferenceState' = ref /\ shown' = shown
  BY <1>2, <1>5, <1>7, <1>15 DEF GotMessage, Pipe!GotMessage
<1>17. PICK q : q = m_ReferenceState'
  OBVIOUS
<1>18. Follows(q, s)
  BY <1>14, <1>16, <1>17
<1>19. Chained(s, qs, last)
  <2>1. ASSUME NEW k \in 1 .. n - 1
        PROVE  qs[k].payload = PayloadFor(qs[k].state, IF k = 1 THEN s ELSE qs[k - 1].state)
    <3>1. k + 1 \in 1 .. n /\ k + 1 # 1 /\ (k + 1) - 1 = k /\ k \in 1 .. n
      BY <1>6
    <3>2. ps[k + 1].payload = PayloadFor(ps[k + 1].state, ps[k].state)
      BY <1>9, <3>1
    <3>3. ps[k].state = IF k = 1 THEN s ELSE qs[k - 1].state
      <4>1. CASE k = 1
        BY <1>6, <1>7, <4>1
      <4>2. CASE k # 1
        <5>1. k - 1 \in 1 .. n - 1 /\ (k - 1) + 1 = k
          BY <1>6, <4>2
        <5> QED
          BY <1>6, <4>2, <5>1
      <4> QED
        BY <4>1, <4>2
    <3> QED
      BY <1>6, <3>2, <3>3
  <2>2. last = IF qs = << >> THEN s ELSE qs[Len(qs)].state
    <3>1. CASE n = 1
      <4>1. qs = << >>
        BY <1>6, <3>1
      <4> QED
        BY <1>6, <1>7, <1>10, <3>1, <4>1
    <3>2. CASE n # 1
      <4>1. qs # << >> /\ n - 1 \in 1 .. n - 1 /\ (n - 1) + 1 = n
        BY <1>6, <3>2
      <4> QED
        BY <1>6, <1>10, <4>1
    <3> QED
      BY <3>1, <3>2
  <2> QED
    BY <1>6, <2>1, <2>2 DEF Chained
<1>20. \A k \in 1 .. Len(qs) : Kept(qs[k].state)
  BY <1>6, <1>11
<1>21. compressed \in BOOLEAN /\ Kept(list)
  BY DEF SparseListInv
<1>22. Onward
  BY <1>1, <1>21 DEF Onward
<1>23. Follows(q, s)' /\ Chained(s, qs, last)'
  BY <1>18, <1>19, <1>22, FollowsOnward DEF Chained, PayloadFor
<1>24. ASSUME NEW k \in 1 .. Len(qs)
       PROVE  Kept(qs[k].state)'
  BY <1>20, <1>22, KeptOnward
<1>25. packets' = qs /\ m_LastSyncedState' = last /\ m_ReferenceState' = q
  BY <1>1, <1>2, <1>3, <1>5, <1>17
<1>26. s \in ListType \cup {Null}
  BY <1>12, KeptSound
<1>27. PacketsInv'
  BY <1>6, <1>23, <1>24, <1>25, <1>26 DEF PacketsInv, PacketType
<1>28. Kept(list)'
  BY <1>1, <1>21 DEF Kept
<1>29. ShownUncompressed'
  <2>1. CASE m_ReferenceState' = r /\ shown' = [inst |-> r, sent |-> s]
    <3>1. shown'.inst = r /\ shown'.sent = s
      BY <2>1
    <3>2. ASSUME ~compressed
          PROVE  r # Corrupt /\ Contents(r) = Contents(s)
      <4>1. Exact(s) /\ s # Null
        BY <1>12, <3>2, KeptSound, NotLists
      <4>2. r # Corrupt /\ r # Null /\ Exact(r) /\ View(r) = View(s)
        BY <1>14, <3>2, <4>1 DEF Follows
      <4>3. Sound(r) /\ Sound(s)
        BY <4>1, <4>2, ExactSound
      <4> QED
        BY <4>2, <4>3, ContentsView
    <3> QED
      BY <1>1, <3>1, <3>2 DEF ShownUncompressed, ShownAsSent, Contents, IsValid
  <2>2. CASE shown' = shown
    BY <1>1, <2>2 DEF SparseListInv, ShownUncompressed, ShownAsSent, Contents, IsValid
  <2> QED
    BY <1>16, <2>1, <2>2
<1> QED
  BY <1>1, <1>21, <1>27, <1>28, <1>29 DEF SparseListInv

------------------------------------------------------------------------------
(***************************************************************************)
(* What the invariant says of the lists of both ends.                      *)
(***************************************************************************)
LEMMA InvAll ==
  Spec => []SparseListInv
<1>1. Init => SparseListInv
  BY InitInv
<1>2. SparseListInv /\ [Next]_vars => SparseListInv'
  <2> SUFFICES ASSUME SparseListInv, [Next]_vars
               PROVE  SparseListInv'
    OBVIOUS
  <2>1. CASE Change
    BY <2>1, ChangeInv
  <2>2. CASE SyncState
    BY <2>2, SyncStateInv
  <2>3. CASE GotMessage
    BY <2>3, GotMessageInv
  <2>4. CASE UNCHANGED vars
    <3>1. list' = list /\ compressed' = compressed /\ UNCHANGED pipeVars
      BY <2>4 DEF vars
    <3>2. Onward /\ Kept(list)' /\ compressed' \in BOOLEAN
      BY <3>1 DEF SparseListInv, Onward, Kept
    <3> QED
      BY <3>1, <3>2, PipeUnchanged DEF SparseListInv
  <2> QED
    BY <2>1, <2>2, <2>3, <2>4 DEF Next
<1> QED
  BY <1>1, <1>2, PTL DEF Spec

LEMMA ListsSound ==
  ASSUME SparseListInv, NEW l \in Lists
  PROVE  Sound(l) /\ (~compressed => Exact(l))
<1>1. l \notin {Null, Corrupt} /\ l \in {list, m_LastSyncedState, m_ReferenceState}
  BY DEF Lists
<1>2. CASE l = list
  BY <1>2, KeptSound DEF SparseListInv
<1>3. CASE l = m_LastSyncedState
  <2>1. Kept(l)
    BY <1>1, <1>3, LastKept
  <2> QED
    BY <2>1, KeptSound
<1>4. CASE l = m_ReferenceState
  <2>1. PICK base : Follows(m_ReferenceState, base)
    BY DEF SparseListInv, PacketsInv
  <2>2. Exact(l)
    BY <1>1, <1>4, <2>1 DEF Follows
  <2> QED
    BY <2>2, ExactSound
<1> QED
  BY <1>1, <1>2, <1>3, <1>4

(***************************************************************************)
(* After any sequence of operations, Compress included, no list of either  *)
(* end has an element that is out of reach of iteration, an index beyond   *)
(* its array or the application's limit, or a slot that Grow has left      *)
(* uninitialised.                                                          *)
(***************************************************************************)
THEOREM ListsInBoundsAlways ==
  Spec => []ListsInBounds
<1>1. SparseListInv => ListsInBounds
  BY ListsSound DEF ListsInBounds, Sound
<1> QED
  BY <1>1, InvAll, PTL

(***************************************************************************)
(* Until Compress moves an element, m_HighestIndex is the highest slot in  *)
(* use in every list, the one that RemoveAt and the readers leave          *)
(* included, so that both ends agree on the width of an index.             *)
(***************************************************************************)
THEOREM ListsWellFormedAlways ==
  Spec => []ListsWellFormed
<1>1. SparseListInv => ListsWellFormed
  BY ListsSound DEF ListsWellFormed, Exact
<1> QED
  BY <1>1, InvAll, PTL

(***************************************************************************)
(* Until Compress moves an element, every list that the receiver's         *)
(* callback gets has the elements of the list that was given to SyncState: *)
(* NetSerializerDelta and NetDeserializerDelta agree, whatever the         *)
(* capacities and the histories of the two lists.                          *)
(***************************************************************************)
THEOREM ShownUncompressedAlways ==
  Spec => []ShownUncompressed
<1>1. SparseListInv => ShownUncompressed
  BY DEF SparseListInv
<1> QED
  BY <1>1, InvAll, PTL

(***************************************************************************)
(* operator == of NetSparseList compares elements and nothing else: it     *)
(* holds of the application's list and the one sent last exactly when they *)
(* have the same elements at the same indices.                             *)
(***************************************************************************)
THEOREM EqualityExactAlways ==
  Spec => []EqualityExact
<1>1. SparseListInv => EqualityExact
  <2> SUFFICES ASSUME SparseListInv, m_LastSyncedState # Null, ~compressed
               PROVE  Equal(list, m_LastSyncedState) <=> Contents(list) = Contents(m_LastSyncedState)
    BY DEF EqualityExact
  <2>1. Exact(list)
    BY KeptSound DEF SparseListInv
  <2>2. Exact(m_LastSyncedState)
    BY LastKept, KeptSound
  <2> QED
    BY <2>1, <2>2, EqualView
<1> QED
  BY <1>1, InvAll, PTL

(***************************************************************************)
(* A full state decoded by NetDeserializer onto a list that has elements   *)
(* is the list sent, except that the old list's highest element stays when *)
(* it lies above everything sent.                                          *)
(***************************************************************************)
THEOREM FullStateLeftoverAlways ==
  Spec => []FullStateLeftover
<1>1. SparseListInv => FullStateLeftover
  <2> SUFFICES ASSUME SparseListInv, m_LastSyncedState # Null, ~compressed
               PROVE  FullStateLeftover
    BY DEF FullStateLeftover
  <2>1. PICK l, val : l = list /\ val = m_LastSyncedState
    OBVIOUS
  <2>2. Exact(l) /\ Exact(val)
    BY <2>1, KeptSound, LastKept DEF SparseListInv
  <2>3. Sound(l)
    BY <2>2, ExactSound
  <2>4. PICK r : r = FullStateInst(val, l)
    OBVIOUS
  <2>5. Exact(r) /\ Overlaid(r, val, l)
    <3>1. PICK m : m = SerializeValue(l)
      OBVIOUS
    <3>2. r = DeserializeValue(val, m)
      BY <2>4, <3>1 DEF FullStateInst
    <3> QED
      BY <2>2, <2>3, <3>1, <3>2, DecodeValue
  <2>6. Sound(r)
    BY <2>5, ExactSound
  <2>7. WellFormed(r)
    BY <2>5 DEF Exact
  <2>8. ASSUME NEW i \in DOMAIN Contents(l)
        PROVE  HasAt(r, i) /\ r.m_Values[i] = l.m_Values[i]
    <3>1. DOMAIN Contents(l) \in SUBSET (0 .. Limit - 1)
      BY <2>3, ContentsSeen
    <3>2. i \in 0 .. Limit - 1
      BY <3>1
    <3>3. View(l)[i] # Free /\ l.m_Values[i] = View(l)[i]
      BY <2>3, <3>2, ContentsSeen
    <3>4. View(r)[i] = View(l)[i]
      BY <2>5, <3>2, <3>3 DEF Overlaid
    <3>5. HasAt(r, i) /\ r.m_Values[i] = View(r)[i]
      BY <2>6, <3>2, <3>3, <3>4, SoundView
    <3> QED
      BY <3>3, <3>4, <3>5
  <2>9. PICK top, h : top = val.m_HighestIndex /\ h = l.m_HighestIndex
    OBVIOUS
  <2>10. ASSUME NEW i \in DOMAIN Contents(r), i \notin DOMAIN Contents(l)
         PROVE  i = top /\ top > h
    <3>1. DOMAIN Contents(r) \in SUBSET (0 .. Limit - 1)
      BY <2>6, ContentsSeen
    <3>2. i \in 0 .. Limit - 1
      BY <3>1
    <3>3. View(l)[i] = Free
      BY <2>3, <2>10, <3>2, ContentsSeen
    <3>4. View(r)[i] # Free
      BY <2>6, <3>2, ContentsSeen
    <3>5. i = top /\ \A j \in 0 .. Limit - 1 : View(l)[j] # Free => j < i
      BY <2>5, <2>9, <3>2, <3>3, <3>4 DEF Overlaid
    <3>6. h \in -1 .. Limit - 1 /\ h \in Int /\ (h >= 0 => View(l)[h] # Free)
      BY <2>2, <2>9, ExactHighest
    <3>7. h < i
      BY <3>2, <3>5, <3>6, Limits
    <3> QED
      BY <3>2, <3>5, <3>6, <3>7
  <2>11. DOMAIN Contents(r) \ DOMAIN Contents(l) \subseteq (IF top > h THEN {top} ELSE {})
    BY <2>10
  <2> QED
    BY <2>1, <2>4, <2>7, <2>8, <2>9, <2>11 DEF FullStateLeftover
<1> QED
  BY <1>1, InvAll, PTL
==============================================================================
