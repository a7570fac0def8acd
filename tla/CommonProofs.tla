---------------------------- MODULE CommonProofs -----------------------------
(***************************************************************************)
(* What the proofs of several components rest on: induction without        *)
(* operator parameters, folds, sorted sequences and field widths.          *)
(***************************************************************************)
EXTENDS SortedSet, BitUtil, Sequences, WellFoundedInduction, FiniteSetTheorems, TLAPS

(***************************************************************************)
(* Induction.  Everything comes from the least element of a set of natural *)
(* numbers.                                                                *)
(***************************************************************************)

\* Every set of natural numbers that is not empty has a least element.
LEMMA LeastNatural ==
  ASSUME NEW T \in SUBSET Nat, T # {}
  PROVE  \E n \in T : \A m \in T : n <= m
<1>1. IsWellFoundedOn(OpToRel(<, Nat), Nat)
  BY NatLessThanWellFounded, Zenon
<1>2. PICK n \in T : \A m \in T : ~(<<m, n>> \in OpToRel(<, Nat))
  BY <1>1, WFMin
<1>3. \A m \in T : ~(m < n)
  BY <1>2 DEF OpToRel
<1> QED
  BY <1>3

\* Induction, with the set of the numbers that have the property.
LEMMA SetInduction ==
  ASSUME NEW S, 0 \in S, \A n \in Nat : n \in S => n + 1 \in S
  PROVE  Nat \subseteq S
<1> SUFFICES ASSUME NEW k \in Nat, k \notin S
             PROVE  FALSE
  OBVIOUS
<1> DEFINE T == {n \in Nat : n \notin S}
<1>1. PICK n \in T : \A m \in T : n <= m
  BY LeastNatural
<1>2. n # 0 /\ n - 1 \in Nat /\ n - 1 \notin T
  BY <1>1
<1> QED
  BY <1>1, <1>2

\* The same up to a bound.
LEMMA UpTo ==
  ASSUME NEW N \in Nat, NEW S, 0 \in S, \A n \in 0 .. N - 1 : n \in S => n + 1 \in S
  PROVE  0 .. N \subseteq S
<1> DEFINE T == S \cup {n \in Nat : n > N}
<1>1. Nat \subseteq T
  <2>1. 0 \in T
    OBVIOUS
  <2>2. ASSUME NEW n \in Nat, n \in T
        PROVE  n + 1 \in T
    <3>1. CASE n > N
      BY <3>1
    <3>2. CASE n = N
      BY <3>2
    <3>3. CASE n < N
      BY <2>2, <3>3
    <3> QED
      BY <3>1, <3>2, <3>3
  <2> HIDE DEF T
  <2> QED
    BY <2>1, <2>2, SetInduction
<1> QED
  BY <1>1

LEMMA GreatestNatural ==
  ASSUME NEW N \in Int, NEW T \in SUBSET Int, T # {}, \A m \in T : m <= N
  PROVE  \E n \in T : \A m \in T : m <= n
<1> DEFINE U == {N - m : m \in T}
<1>1. U \in SUBSET Nat /\ U # {}
  <2>1. \A m \in T : N - m \in Nat
    OBVIOUS
  <2>2. PICK m : m \in T
    OBVIOUS
  <2> QED
    BY <2>1, <2>2
<1>2. PICK u \in U : \A w \in U : u <= w
  BY <1>1, LeastNatural
<1>3. PICK n \in T : u = N - n
  BY <1>2
<1>4. \A m \in T : N - n <= N - m
  BY <1>2, <1>3
<1> QED
  BY <1>4

(***************************************************************************)
(* A fold over the indices 1 .. n, from the lowest to the highest, has a   *)
(* value for every set of indices: step[k] is what index k does to it.     *)
(***************************************************************************)
Steps(A, n) == [1 .. n -> [A -> A]]

IndexFold(g, A, base, n, step) ==
  /\ g \in [SUBSET (1 .. n) -> A]
  /\ g[{}] = base
  /\ \A s \in SUBSET (1 .. n) : \A x \in s :
       (\A y \in s : y <= x) => g[s] = step[x][g[s \ {x}]]

LEMMA FoldExists ==
  ASSUME NEW A, NEW base \in A, NEW n \in Nat, NEW step \in Steps(A, n)
  PROVE  \E g : IndexFold(g, A, base, n, step)
<1> USE DEF Steps
<1> DEFINE Good(k, g) ==
             /\ g \in [SUBSET (1 .. k) -> A]
             /\ g[{}] = base
             /\ \A s \in SUBSET (1 .. k) : \A x \in s :
                  (\A y \in s : y <= x) => g[s] = step[x][g[s \ {x}]]
           S == {k \in 0 .. n : \E g : Good(k, g)}
<1>1. 0 \in S
  <2>1. Good(0, [s \in SUBSET (1 .. 0) |-> base])
    OBVIOUS
  <2> QED
    BY <2>1
<1>2. ASSUME NEW k \in 0 .. n - 1, k \in S
      PROVE  k + 1 \in S
  <2>1. PICK g : Good(k, g)
    BY <1>2
  <2> DEFINE h == [s \in SUBSET (1 .. k + 1) |->
                     IF k + 1 \in s THEN step[k + 1][g[s \ {k + 1}]] ELSE g[s]]
  <2>2. \A s \in SUBSET (1 .. k + 1) :
          /\ s \ {k + 1} \in SUBSET (1 .. k)
          /\ k + 1 \notin s => s \in SUBSET (1 .. k)
    OBVIOUS
  <2>3. h \in [SUBSET (1 .. k + 1) -> A]
    <3> SUFFICES ASSUME NEW s \in SUBSET (1 .. k + 1)
                 PROVE  h[s] \in A
      OBVIOUS
    <3>1. step[k + 1] \in [A -> A]
      OBVIOUS
    <3> QED
      BY <2>1, <2>2, <3>1
  <2>4. h[{}] = base
    BY <2>1
  <2>5. ASSUME NEW s \in SUBSET (1 .. k + 1), NEW x \in s, \A y \in s : y <= x
        PROVE  h[s] = step[x][h[s \ {x}]]
    <3>1. CASE k + 1 \in s
      <4>1. x = k + 1
        BY <2>5, <3>1
      <4>2. h[s \ {x}] = g[s \ {x}]
        BY <4>1
      <4> QED
        BY <3>1, <4>1, <4>2
    <3>2. CASE k + 1 \notin s
      <4>1. s \in SUBSET (1 .. k) /\ s \ {x} \in SUBSET (1 .. k + 1) /\ k + 1 \notin s \ {x}
        BY <2>2, <3>2
      <4>2. h[s] = g[s] /\ h[s \ {x}] = g[s \ {x}]
        BY <3>2, <4>1
      <4> QED
        BY <2>1, <2>5, <4>1, <4>2
    <3> QED
      BY <3>1, <3>2
  <2>6. Good(k + 1, h)
    BY <2>3, <2>4, <2>5
  <2> HIDE DEF Good, h
  <2> QED
    BY <2>6
<1>3. 0 .. n \subseteq S
  <2> HIDE DEF S
  <2> QED
    BY <1>1, <1>2, UpTo
<1>4. n \in S
  <2> HIDE DEF S
  <2> QED
    BY <1>3
<1>5. PICK g : Good(n, g)
  BY <1>4
<1> QED
  BY <1>5, Zenon DEF IndexFold

\* The largest of a set, as SequencesExt and FiniteSetsExt define it.
Biggest(s) == CHOOSE x \in s : \A y \in s : x >= y

LEMMA BiggestProps ==
  ASSUME NEW n \in Nat, NEW s \in SUBSET (1 .. n), s # {}
  PROVE  Biggest(s) \in s /\ Biggest(s) \in 1 .. n /\ \A y \in s : y <= Biggest(s)
<1>1. \A m \in s : m <= n
  OBVIOUS
<1>2. s \in SUBSET Int
  OBVIOUS
<1>3. \E x \in s : \A y \in s : y <= x
  <2>1. n \in Int
    OBVIOUS
  <2> QED
    BY <1>1, <1>2, <2>1, GreatestNatural, Zenon
<1>4. \E x \in s : \A y \in s : x >= y
  BY <1>2, <1>3
<1>5. Biggest(s) \in s /\ \A y \in s : Biggest(s) >= y
  BY <1>4 DEF Biggest
<1> QED
  BY <1>5

\* The prefixes of the indices are what the fold goes through.
LEMMA BiggestPrefix ==
  ASSUME NEW k \in Nat, k # 0
  PROVE  Biggest(1 .. k) = k /\ (1 .. k) \ {k} = 1 .. k - 1 /\ 1 .. k # {}
<1>1. 1 .. k \in SUBSET (1 .. k) /\ 1 .. k # {} /\ k \in 1 .. k
  OBVIOUS
<1>2. PICK b : b = Biggest(1 .. k)
  OBVIOUS
<1>3. b \in 1 .. k /\ \A y \in 1 .. k : y <= b
  BY <1>1, <1>2, BiggestProps
<1>4. b = k
  BY <1>1, <1>3
<1> QED
  BY <1>1, <1>2, <1>4

\* FoldExists in the form in which FoldLeft is defined.
FoldOf(g, A, base, n, step) ==
  /\ g \in [SUBSET (1 .. n) -> A]
  /\ \A s \in SUBSET (1 .. n) :
       g[s] = IF s = {} THEN base ELSE step[Biggest(s)][g[s \ {Biggest(s)}]]

LEMMA FoldDefined ==
  ASSUME NEW A, NEW base \in A, NEW n \in Nat, NEW step \in Steps(A, n)
  PROVE  \E g : FoldOf(g, A, base, n, step)
<1>1. PICK g : IndexFold(g, A, base, n, step)
  BY FoldExists
<1>2. ASSUME NEW s \in SUBSET (1 .. n), s # {}
      PROVE  g[s] = step[Biggest(s)][g[s \ {Biggest(s)}]]
  BY <1>1, <1>2, BiggestProps DEF IndexFold
<1>3. g[{}] = base /\ g \in [SUBSET (1 .. n) -> A]
  BY <1>1 DEF IndexFold
<1> QED
  BY <1>2, <1>3 DEF FoldOf

(***************************************************************************)
(* A loop, written as the recursive function of the number of its rounds.  *)
(***************************************************************************)
LoopOf(f, A, base, n, step) ==
  /\ f \in [0 .. n -> A]
  /\ f = [i \in 0 .. n |-> IF i = 0 THEN base ELSE step[i][f[i - 1]]]

LEMMA LoopDefined ==
  ASSUME NEW A, NEW base \in A, NEW n \in Nat, NEW step \in Steps(A, n)
  PROVE  \E f : LoopOf(f, A, base, n, step)
<1>1. PICK g : FoldOf(g, A, base, n, step)
  BY FoldDefined
<1> DEFINE f == [i \in 0 .. n |-> g[1 .. i]]
<1>2. ASSUME NEW i \in 0 .. n
      PROVE  g[1 .. i] \in A
  <2>1. 1 .. i \in SUBSET (1 .. n)
    OBVIOUS
  <2> QED
    BY <1>1, <2>1 DEF FoldOf
<1>3. f \in [0 .. n -> A]
  BY <1>2
<1>4. ASSUME NEW i \in 0 .. n
      PROVE  f[i] = IF i = 0 THEN base ELSE step[i][f[i - 1]]
  <2>1. 1 .. i \in SUBSET (1 .. n)
    OBVIOUS
  <2>2. CASE i = 0
    <3>1. 1 .. i = {}
      BY <2>2
    <3> QED
      BY <1>1, <2>1, <2>2, <3>1 DEF FoldOf
  <2>3. CASE i # 0
    <3>1. Biggest(1 .. i) = i /\ (1 .. i) \ {i} = 1 .. i - 1 /\ 1 .. i # {}
      <4>1. i \in Nat
        OBVIOUS
      <4> QED
        BY <2>3, <4>1, BiggestPrefix
    <3>2. g[1 .. i] = step[i][g[1 .. i - 1]]
      BY <1>1, <2>1, <3>1 DEF FoldOf
    <3>3. i - 1 \in 0 .. n
      BY <2>3
    <3> QED
      BY <2>3, <3>2, <3>3
  <2> QED
    BY <2>2, <2>3
<1> QED
  <2>1. f = [i \in 0 .. n |-> IF i = 0 THEN base ELSE step[i][f[i - 1]]]
    BY <1>4
  <2> HIDE DEF f
  <2>2. LoopOf(f, A, base, n, step)
    BY <1>3, <2>1 DEF LoopOf
  <2> QED
    BY <2>2

(***************************************************************************)
(* Rounds.  The function of the rounds exists when the set A is kept, and  *)
(* the work is done when something gets smaller in every round.            *)
(***************************************************************************)
RoundsOf(f, A, base, n, next) ==
  f \in [0 .. n -> A] /\ f = [i \in 0 .. n |-> IF i = 0 THEN base ELSE next[f[i - 1]]]

LEMMA RoundsExist ==
  ASSUME NEW A, NEW base \in A, NEW n \in Nat, NEW next \in [A -> A]
  PROVE  \E f : RoundsOf(f, A, base, n, next)
<1> DEFINE step == [i \in 1 .. n |-> next]
<1>1. step \in Steps(A, n)
  BY DEF Steps
<1>2. \A i \in 1 .. n : step[i] = next
  OBVIOUS
<1> HIDE DEF step
<1>3. PICK f : LoopOf(f, A, base, n, step)
  BY <1>1, LoopDefined
<1>4. f \in [0 .. n -> A] /\ f = [i \in 0 .. n |-> IF i = 0 THEN base ELSE step[i][f[i - 1]]]
  BY <1>3 DEF LoopOf
<1>5. \A i \in 0 .. n : i # 0 => i \in 1 .. n
  OBVIOUS
<1>6. f = [i \in 0 .. n |-> IF i = 0 THEN base ELSE next[f[i - 1]]]
  BY <1>2, <1>4, <1>5
<1> QED
  BY <1>4, <1>6 DEF RoundsOf

RoundsShrink(f, A, n, size) ==
  \A i \in 1 .. n : f[i - 1] \in A =>
    f[i] \in A /\ (size[f[i - 1]] # 0 => size[f[i]] < size[f[i - 1]])
               /\ (size[f[i - 1]] = 0 => size[f[i]] = 0)

LEMMA RoundsEnd ==
  ASSUME NEW A, NEW n \in Nat, NEW f, NEW size \in [A -> Nat],
         f[0] \in A, size[f[0]] <= n, RoundsShrink(f, A, n, size)
  PROVE  f[n] \in A /\ size[f[n]] = 0
<1> DEFINE T == {i \in 0 .. n : f[i] \in A /\ size[f[i]] <= n - i}
<1>1. 0 \in T
  OBVIOUS
<1>2. ASSUME NEW i \in 0 .. n - 1, i \in T
      PROVE  i + 1 \in T
  <2>1. PICK j : j = i + 1 /\ j \in 1 .. n /\ j \in 0 .. n /\ j - 1 = i
    OBVIOUS
  <2>2. PICK x, y : x = f[i] /\ y = f[j]
    OBVIOUS
  <2>3. x \in A /\ size[x] <= n - i /\ y \in A
        /\ (size[x] # 0 => size[y] < size[x]) /\ (size[x] = 0 => size[y] = 0)
    BY <1>2, <2>1, <2>2 DEF RoundsShrink
  <2>4. size[x] \in Nat /\ size[y] \in Nat
    BY <2>3
  <2>5. size[y] <= n - j
    BY <2>1, <2>3, <2>4
  <2> QED
    BY <2>1, <2>2, <2>3, <2>5
<1>3. 0 .. n \subseteq T
  <2> HIDE DEF T
  <2> QED
    BY <1>1, <1>2, UpTo
<1>4. n \in T
  <2>1. n \in 0 .. n
    OBVIOUS
  <2> QED
    BY <1>3, <2>1
<1>5. f[n] \in A /\ size[f[n]] <= n - n
  BY <1>4
<1>6. PICK v \in A : v = f[n] /\ size[v] <= 0
  BY <1>5
<1>7. size[v] \in Nat
  BY <1>6
<1> QED
  BY <1>6, <1>7

(***************************************************************************)
(* A bounded set of integers can be put in order, and InOrder does it.     *)
(***************************************************************************)
Ascending(s) == \A i, j \in DOMAIN s : i < j => s[i] < s[j]

LEMMA OrderExists ==
  ASSUME NEW a \in Int, NEW n \in Nat
  PROVE  \A S \in SUBSET (a .. a + n - 1) :
           IsFiniteSet(S) /\ \E s \in [1 .. Cardinality(S) -> S] : Ascending(s)
<1> DEFINE Sortable(S) == IsFiniteSet(S) /\ \E s \in [1 .. Cardinality(S) -> S] : Ascending(s)
           T == {k \in Nat : \A S \in SUBSET (a .. a + k - 1) : Sortable(S)}
<1>1. 0 \in T
  <2> SUFFICES ASSUME NEW S \in SUBSET (a .. a - 1)
               PROVE  Sortable(S)
    OBVIOUS
  <2>1. S = {}
    OBVIOUS
  <2>2. IsFiniteSet(S) /\ Cardinality(S) = 0
    BY <2>1, FS_EmptySet
  <2>3. << >> \in [1 .. 0 -> S] /\ Ascending(<< >>)
    BY DEF Ascending
  <2> QED
    BY <2>2, <2>3
<1>2. ASSUME NEW k \in Nat, k \in T
      PROVE  k + 1 \in T
  <2> SUFFICES ASSUME NEW S \in SUBSET (a .. a + k)
               PROVE  Sortable(S)
    OBVIOUS
  <2>0. PICK x : x = a + k
    OBVIOUS
  <2>1. PICK R \in SUBSET (a .. a + k - 1) : R = S \ {x}
    <3>1. S \ {x} \in SUBSET (a .. a + k - 1)
      BY <2>0
    <3> QED
      BY <3>1
  <2>2. IsFiniteSet(R) /\ Cardinality(R) \in Nat
    BY <1>2, FS_CardinalityType
  <2>3. PICK m \in Nat : m = Cardinality(R)
    BY <2>2
  <2>4. PICK r \in [1 .. m -> R] : Ascending(r)
    BY <1>2, <2>3
  <2>5. CASE x \notin S
    <3>1. R = S
      BY <2>1, <2>5
    <3> QED
      BY <2>2, <2>3, <2>4, <3>1
  <2>6. CASE x \in S
    <3>1. S = R \cup {x} /\ x \notin R
      BY <2>1, <2>6
    <3>2. IsFiniteSet(S) /\ Cardinality(S) = m + 1
      BY <2>2, <2>3, <3>1, FS_AddElement
    <3> DEFINE s == [i \in 1 .. m + 1 |-> IF i = m + 1 THEN x ELSE r[i]]
    <3>3. s \in [1 .. m + 1 -> S]
      <4> SUFFICES ASSUME NEW i \in 1 .. m + 1
                   PROVE  s[i] \in S
        OBVIOUS
      <4>1. CASE i = m + 1
        BY <4>1, <3>1
      <4>2. CASE i # m + 1
        <5>1. i \in 1 .. m
          BY <4>2
        <5> QED
          BY <5>1, <4>2, <3>1, <2>4
      <4> QED
        BY <4>1, <4>2
    <3>4. Ascending(s)
      <4> SUFFICES ASSUME NEW i \in 1 .. m + 1, NEW j \in 1 .. m + 1, i < j
                   PROVE  s[i] < s[j]
        BY DEF Ascending
      <4>1. i \in 1 .. m /\ i # m + 1
        OBVIOUS
      <4>2. r[i] \in R /\ s[i] = r[i]
        BY <4>1, <2>4
      <4>3. r[i] < x
        <5>1. \A y \in R : y < a + k
          OBVIOUS
        <5> QED
          BY <5>1, <4>2, <2>0
      <4>4. CASE j = m + 1
        BY <4>2, <4>3, <4>4
      <4>5. CASE j # m + 1
        <5>1. j \in 1 .. m /\ s[j] = r[j]
          BY <4>5
        <5> QED
          BY <5>1, <4>1, <4>2, <2>4 DEF Ascending
      <4> QED
        BY <4>4, <4>5
    <3> QED
      BY <3>2, <3>3, <3>4
  <2> QED
    BY <2>5, <2>6
<1>3. n \in T
  <2> HIDE DEF T
  <2> QED
    BY <1>1, <1>2, SetInduction
<1> QED
  BY <1>3

Covers(s, c, S) == \A x \in S : \E i \in 1 .. c : s[i] = x

LEMMA InOrderProps ==
  ASSUME NEW a \in Int, NEW b \in Int, NEW S \in SUBSET (a .. b)
  PROVE  /\ IsFiniteSet(S)
         /\ Cardinality(S) \in Nat
         /\ InOrder(S) \in [1 .. Cardinality(S) -> S]
         /\ InOrder(S) \in Seq(S)
         /\ Len(InOrder(S)) = Cardinality(S)
         /\ \A i, j \in 1 .. Cardinality(S) : i < j => InOrder(S)[i] < InOrder(S)[j]
         /\ \A x \in S : \E i \in 1 .. Cardinality(S) : InOrder(S)[i] = x
         /\ Covers(InOrder(S), Cardinality(S), S)
<1> DEFINE m == IF b < a THEN 0 ELSE b - a + 1
           s == InOrder(S)
<1>1. m \in Nat /\ S \in SUBSET (a .. a + m - 1)
  OBVIOUS
<1>2. IsFiniteSet(S) /\ \E t \in [1 .. Cardinality(S) -> S] : Ascending(t)
  <2> HIDE DEF m
  <2> QED
    BY <1>1, OrderExists
<1>3. Cardinality(S) \in Nat
  BY <1>2, FS_CardinalityType
<1>4. s \in [1 .. Cardinality(S) -> S] /\ Ascending(s)
  BY <1>2 DEF InOrder, Ascending
<1>5. s \in Injection(1 .. Cardinality(S), S)
  <2> SUFFICES ASSUME NEW i \in 1 .. Cardinality(S), NEW j \in 1 .. Cardinality(S), i # j
               PROVE  s[i] # s[j]
    BY <1>4 DEF Injection, IsInjective
  <2>1. s[i] \in Int /\ s[j] \in Int
    <3>1. s[i] \in S /\ s[j] \in S /\ \A y \in S : y \in Int
      <4> HIDE DEF s
      <4> QED
        BY <1>4
    <3> QED
      BY <3>1
  <2>2. i < j \/ j < i
    BY <1>3
  <2> QED
    BY <1>4, <2>1, <2>2 DEF Ascending
<1>6. s \in Surjection(1 .. Cardinality(S), S)
  <2>1. Cardinality(1 .. Cardinality(S)) = Cardinality(S)
    BY <1>3, FS_Interval
  <2> QED
    BY <1>2, <1>5, <2>1, FS_Injection
<1>7. s \in Seq(S) /\ Len(s) = Cardinality(S)
  BY <1>3, <1>4
<1>8. Covers(s, Cardinality(S), S)
  BY <1>6 DEF Covers, Surjection
<1> QED
  BY <1>2, <1>3, <1>4, <1>6, <1>7, <1>8 DEF Ascending, Surjection

(***************************************************************************)
(* Field widths.                                                           *)
(***************************************************************************)

\* A field of GetRequiredBits bits is between 1 and 32 bits wide.
LEMMA RequiredBitsRange ==
  ASSUME NEW x \in Nat
  PROVE  GetRequiredBits(x) \in 1 .. 32
<1> DEFINE s16 == ClzStage(32, 0, 16, x)
           s8 == ClzStage(32, s16, 8, x)
           s4 == ClzStage(32, s8, 4, x)
           s2 == ClzStage(32, s4, 2, x)
           s1 == ClzStage(32, s2, 1, x)
<1>1. s16 \in 0 .. 16
  BY DEF ClzStage
<1>2. s8 \in 0 .. 24
  BY <1>1 DEF ClzStage
<1>3. s4 \in 0 .. 28
  <2> HIDE DEF s8
  <2> QED
    BY <1>2 DEF ClzStage
<1>4. s2 \in 0 .. 30
  <2> HIDE DEF s4
  <2> QED
    BY <1>3 DEF ClzStage
<1>5. s1 \in 0 .. 31
  <2> HIDE DEF s2
  <2> QED
    BY <1>4 DEF ClzStage
<1>6. GetRequiredBits(x) = 32 - s1
  BY DEF GetRequiredBits, CountLeadingZeros, Clz16_32, ClzFrom8
<1> HIDE DEF s1
<1> QED
  BY <1>5, <1>6

\* Doubling, for every width that occurs.
LEMMA PowerStep ==
  ASSUME NEW n \in 0 .. 31
  PROVE  2 ^ (n + 1) = 2 * 2 ^ n /\ 2 ^ n \in Nat /\ 2 ^ n > 0
<1>1. CASE n = 0  BY <1>1
<1>2. CASE n = 1  BY <1>2
<1>3. CASE n = 2  BY <1>3
<1>4. CASE n = 3  BY <1>4
<1>5. CASE n = 4  BY <1>5
<1>6. CASE n = 5  BY <1>6
<1>7. CASE n = 6  BY <1>7
<1>8. CASE n = 7  BY <1>8
<1>9. CASE n = 8  BY <1>9
<1>10. CASE n = 9  BY <1>10
<1>11. CASE n = 10  BY <1>11
<1>12. CASE n = 11  BY <1>12
<1>13. CASE n = 12  BY <1>13
<1>14. CASE n = 13  BY <1>14
<1>15. CASE n = 14  BY <1>15
<1>16. CASE n = 15  BY <1>16
<1>17. CASE n = 16  BY <1>17
<1>18. CASE n = 17  BY <1>18
<1>19. CASE n = 18  BY <1>19
<1>20. CASE n = 19  BY <1>20
<1>21. CASE n = 20  BY <1>21
<1>22. CASE n = 21  BY <1>22
<1>23. CASE n = 22  BY <1>23
<1>24. CASE n = 23  BY <1>24
<1>25. CASE n = 24  BY <1>25
<1>26. CASE n = 25  BY <1>26
<1>27. CASE n = 26  BY <1>27
<1>28. CASE n = 27  BY <1>28
<1>29. CASE n = 28  BY <1>29
<1>30. CASE n = 29  BY <1>30
<1>31. CASE n = 30  BY <1>31
<1>32. CASE n = 31  BY <1>32
<1> QED
  BY <1>1, <1>2, <1>3, <1>4, <1>5, <1>6, <1>7, <1>8, <1>9, <1>10, <1>11,
     <1>12, <1>13, <1>14, <1>15, <1>16, <1>17, <1>18, <1>19, <1>20, <1>21,
     <1>22, <1>23, <1>24, <1>25, <1>26, <1>27, <1>28, <1>29, <1>30, <1>31,
     <1>32

\* 2 ^ bits is a positive number for every width that occurs.
LEMMA PowerOfTwo ==
  ASSUME NEW b \in 1 .. 32
  PROVE  2 ^ b \in Nat /\ 2 ^ b > 0
<1>1. b - 1 \in 0 .. 31 /\ (b - 1) + 1 = b
  OBVIOUS
<1>2. 2 ^ ((b - 1) + 1) = 2 * 2 ^ (b - 1) /\ 2 ^ (b - 1) \in Nat /\ 2 ^ (b - 1) > 0
  BY <1>1, PowerStep
<1> QED
  BY <1>1, <1>2

\* A number fits in a field of the width that GetRequiredBits gives for it:
\* a stage of ClzHelper counts zeros only when the rest holds the number.
LEMMA WidthFits ==
  ASSUME NEW x \in Nat, x < 2 ^ 32
  PROVE  x < 2 ^ GetRequiredBits(x)
<1>1. ASSUME NEW s \in 0 .. 32, NEW k \in 0 .. 16, x < 2 ^ (32 - s)
      PROVE  x < 2 ^ (32 - ClzStage(32, s, k, x))
  <2>1. 32 - s - k = 32 - (s + k)
    OBVIOUS
  <2>2. CASE x < 2 ^ (32 - s - k)
    <3>1. ClzStage(32, s, k, x) = s + k
      BY <2>2 DEF ClzStage
    <3> QED
      BY <2>1, <2>2, <3>1
  <2>3. CASE ~(x < 2 ^ (32 - s - k))
    <3>1. ClzStage(32, s, k, x) = s
      BY <2>3 DEF ClzStage
    <3> QED
      BY <1>1, <3>1
  <2> QED
    BY <2>2, <2>3
<1>2. PICK s16 : s16 = ClzStage(32, 0, 16, x)
  OBVIOUS
<1>3. PICK s8 : s8 = ClzStage(32, s16, 8, x)
  OBVIOUS
<1>4. PICK s4 : s4 = ClzStage(32, s8, 4, x)
  OBVIOUS
<1>5. PICK s2 : s2 = ClzStage(32, s4, 2, x)
  OBVIOUS
<1>6. PICK s1 : s1 = ClzStage(32, s2, 1, x)
  OBVIOUS
<1>7. s16 \in 0 .. 16
  BY <1>2 DEF ClzStage
<1>8. s8 \in 0 .. 24
  BY <1>3, <1>7 DEF ClzStage
<1>9. s4 \in 0 .. 28
  BY <1>4, <1>8 DEF ClzStage
<1>10. s2 \in 0 .. 30
  BY <1>5, <1>9 DEF ClzStage
<1>11. x < 2 ^ (32 - s16)
  <2>1. 0 \in 0 .. 32 /\ 16 \in 0 .. 16 /\ 32 - 0 = 32
    OBVIOUS
  <2> QED
    BY <1>1, <1>2, <2>1
<1>12. x < 2 ^ (32 - s8)
  <2>1. s16 \in 0 .. 32 /\ 8 \in 0 .. 16
    BY <1>7
  <2> QED
    BY <1>1, <1>3, <1>11, <2>1
<1>13. x < 2 ^ (32 - s4)
  <2>1. s8 \in 0 .. 32 /\ 4 \in 0 .. 16
    BY <1>8
  <2> QED
    BY <1>1, <1>4, <1>12, <2>1
<1>14. x < 2 ^ (32 - s2)
  <2>1. s4 \in 0 .. 32 /\ 2 \in 0 .. 16
    BY <1>9
  <2> QED
    BY <1>1, <1>5, <1>13, <2>1
<1>15. x < 2 ^ (32 - s1)
  <2>1. s2 \in 0 .. 32 /\ 1 \in 0 .. 16
    BY <1>10
  <2> QED
    BY <1>1, <1>6, <1>14, <2>1
<1>16. GetRequiredBits(x) = 32 - s1
  BY <1>2, <1>3, <1>4, <1>5, <1>6 DEF GetRequiredBits, CountLeadingZeros, Clz16_32, ClzFrom8
<1> QED
  BY <1>15, <1>16

\* What fits in a field is read as it was written.
LEMMA TruncateFits ==
  ASSUME NEW x \in Nat, NEW b \in 1 .. 32, x < 2 ^ b
  PROVE  Truncate(x, b) = x
<1>1. PICK p \in Nat : p = 2 ^ b /\ p > 0
  BY PowerOfTwo
<1>2. x % p = x
  BY <1>1
<1> QED
  BY <1>1, <1>2 DEF Truncate


(***************************************************************************)
(* Fields: a number of n bits and the bits it is made of.                  *)
(***************************************************************************)

\* The first bit of a number is its parity, the others are those of its half.
LEMMA BitsHalf ==
  ASSUME NEW v \in Nat, NEW n \in 0 .. 31
  PROVE  /\ BitsOf(v, n + 1)[1] = v % 2
         /\ \A i \in 1 .. n : BitsOf(v, n + 1)[i + 1] = BitsOf(v \div 2, n)[i]
<1>1. BitsOf(v, n + 1)[1] = v % 2
  <2>1. 1 \in 1 .. n + 1 /\ 1 - 1 = 0 /\ 2 ^ 0 = 1 /\ v \div 1 = v
    OBVIOUS
  <2> QED
    BY <2>1 DEF BitsOf
<1>2. ASSUME NEW i \in 1 .. n
      PROVE  BitsOf(v, n + 1)[i + 1] = BitsOf(v \div 2, n)[i]
  <2>1. i - 1 \in 0 .. 31 /\ i + 1 \in 1 .. n + 1 /\ (i + 1) - 1 = (i - 1) + 1
    OBVIOUS
  <2>2. PICK p \in Nat : p = 2 ^ (i - 1) /\ p > 0 /\ 2 ^ ((i - 1) + 1) = 2 * p
    BY <2>1, PowerStep
  <2>3. v \div (2 * p) = (v \div 2) \div p
    BY <2>2
  <2>4. BitsOf(v, n + 1)[i + 1] = (v \div 2 ^ ((i - 1) + 1)) % 2
    BY <2>1 DEF BitsOf
  <2>5. BitsOf(v \div 2, n)[i] = ((v \div 2) \div p) % 2
    BY <2>2 DEF BitsOf
  <2> QED
    BY <2>2, <2>3, <2>4, <2>5
<1> QED
  BY <1>1, <1>2

\* A field is as many bits as it is wide.
LEMMA BitsType ==
  ASSUME NEW v \in Nat, NEW n \in 0 .. 32
  PROVE  /\ BitsOf(v, n) \in [1 .. n -> {0, 1}]
         /\ BitsOf(v, n) \in Seq({0, 1}) /\ Len(BitsOf(v, n)) = n
<1>1. ASSUME NEW i \in 1 .. n
      PROVE  (v \div 2 ^ (i - 1)) % 2 \in {0, 1}
  <2>1. i - 1 \in 0 .. 31
    OBVIOUS
  <2>2. PICK p \in Nat : p = 2 ^ (i - 1) /\ p > 0
    BY <2>1, PowerStep
  <2>3. v \div p \in Nat
    BY <2>2
  <2> QED
    BY <2>2, <2>3
<1>2. BitsOf(v, n) \in [1 .. n -> {0, 1}]
  BY <1>1 DEF BitsOf
<1> QED
  BY <1>2 DEF BitsOf

\* No two numbers have the same bits, and every row of bits is a number's.
ReadsBackAt(n) ==
  /\ \A u, v \in 0 .. 2 ^ n - 1 : BitsOf(u, n) = BitsOf(v, n) => u = v
  /\ \A s \in [1 .. n -> {0, 1}] : \E v \in 0 .. 2 ^ n - 1 : BitsOf(v, n) = s

LEMMA AllReadable ==
  ASSUME NEW n \in 0 .. 32
  PROVE  ReadsBackAt(n)
<1> DEFINE S == {k \in 0 .. 32 : ReadsBackAt(k)}
<1>1. 0 \in S
  <2>1. 0 .. 2 ^ 0 - 1 = {0}
    OBVIOUS
  <2>2. \A s \in [1 .. 0 -> {0, 1}] : BitsOf(0, 0) = s
    BY DEF BitsOf
  <2> QED
    BY <2>1, <2>2 DEF ReadsBackAt
<1>2. ASSUME NEW k \in 0 .. 32 - 1, k \in S
      PROVE  k + 1 \in S
  <2>0. k \in 0 .. 31 /\ k + 1 \in 0 .. 32 /\ ReadsBackAt(k)
    BY <1>2
  <2>1. PICK p \in Nat : p = 2 ^ k /\ p > 0 /\ 2 ^ (k + 1) = 2 * p
    BY <2>0, PowerStep
  <2>2. ASSUME NEW u \in 0 .. 2 * p - 1, NEW v \in 0 .. 2 * p - 1, BitsOf(u, k + 1) = BitsOf(v, k + 1)
        PROVE  u = v
    <3>1. u \div 2 \in 0 .. p - 1 /\ v \div 2 \in 0 .. p - 1 /\ u \in Nat /\ v \in Nat
      BY <2>1
    <3>2. u % 2 = v % 2
      <4>1. BitsOf(u, k + 1)[1] = u % 2
        BY <2>0, <3>1, BitsHalf
      <4>2. BitsOf(v, k + 1)[1] = v % 2
        BY <2>0, <3>1, BitsHalf
      <4> QED
        BY <2>2, <4>1, <4>2
    <3>3. \A i \in 1 .. k : BitsOf(u \div 2, k)[i] = BitsOf(v \div 2, k)[i]
      <4>1. \A i \in 1 .. k : BitsOf(u, k + 1)[i + 1] = BitsOf(u \div 2, k)[i]
        BY <2>0, <3>1, BitsHalf
      <4>2. \A i \in 1 .. k : BitsOf(v, k + 1)[i + 1] = BitsOf(v \div 2, k)[i]
        BY <2>0, <3>1, BitsHalf
      <4> QED
        BY <2>2, <4>1, <4>2
    <3>4. BitsOf(u \div 2, k) = BitsOf(v \div 2, k)
      BY <3>3 DEF BitsOf
    <3>5. u \div 2 = v \div 2
      BY <2>0, <2>1, <3>1, <3>4 DEF ReadsBackAt
    <3> QED
      BY <3>1, <3>2, <3>5
  <2>3. ASSUME NEW s \in [1 .. k + 1 -> {0, 1}]
        PROVE  \E v \in 0 .. 2 * p - 1 : BitsOf(v, k + 1) = s
    <3> DEFINE t == [i \in 1 .. k |-> s[i + 1]]
    <3>1. t \in [1 .. k -> {0, 1}] /\ \A i \in 1 .. k : t[i] = s[i + 1]
      BY <2>0
    <3>2. PICK w \in 0 .. p - 1 : BitsOf(w, k) = t
      BY <2>0, <2>1, <3>1 DEF ReadsBackAt
    <3>3. PICK b \in {0, 1} : b = s[1]
      BY <2>0
    <3>4. PICK v \in 0 .. 2 * p - 1 : v = 2 * w + b
      BY <2>1
    <3>5. v \in Nat /\ v % 2 = b /\ v \div 2 = w
      BY <2>1, <3>4
    <3>6. BitsOf(v, k + 1)[1] = s[1]
      BY <2>0, <3>3, <3>5, BitsHalf
    <3>7. \A i \in 1 .. k : BitsOf(v, k + 1)[i + 1] = s[i + 1]
      <4>1. \A i \in 1 .. k : BitsOf(v, k + 1)[i + 1] = BitsOf(v \div 2, k)[i]
        BY <2>0, <3>5, BitsHalf
      <4> QED
        BY <3>1, <3>2, <3>5, <4>1
    <3>8. \A j \in 1 .. k + 1 : BitsOf(v, k + 1)[j] = s[j]
      <4> SUFFICES ASSUME NEW j \in 1 .. k + 1
                   PROVE  BitsOf(v, k + 1)[j] = s[j]
        OBVIOUS
      <4>1. j = 1 \/ (j - 1 \in 1 .. k /\ (j - 1) + 1 = j)
        BY <2>0
      <4> QED
        BY <3>6, <3>7, <4>1
    <3>9. DOMAIN BitsOf(v, k + 1) = 1 .. k + 1 /\ BitsOf(v, k + 1) = [j \in 1 .. k + 1 |-> BitsOf(v, k + 1)[j]]
      BY DEF BitsOf
    <3>10. s = [j \in 1 .. k + 1 |-> s[j]]
      OBVIOUS
    <3>11. BitsOf(v, k + 1) = s
      BY <3>8, <3>9, <3>10
    <3> QED
      BY <3>11
  <2>4. ReadsBackAt(k + 1)
    BY <2>1, <2>2, <2>3 DEF ReadsBackAt
  <2> QED
    BY <2>0, <2>4
<1>3. 0 .. 32 \subseteq S
  <2>1. 32 \in Nat
    OBVIOUS
  <2> HIDE DEF S
  <2> QED
    BY <1>1, <1>2, <2>1, UpTo
<1> QED
  BY <1>3

\* A quotient and a remainder, for any divisor.
LEMMA Quotient ==
  ASSUME NEW x \in Nat, NEW b \in Nat \ {0}
  PROVE  \E q \in Nat : \E r \in 0 .. b - 1 : x = q * b + r
<1> DEFINE S == {k \in Nat : \E q \in Nat : \E r \in 0 .. b - 1 : k = q * b + r}
<1>1. 0 \in S
  <2>1. 0 = 0 * b + 0 /\ 0 \in 0 .. b - 1
    OBVIOUS
  <2> QED
    BY <2>1
<1>2. ASSUME NEW k \in Nat, k \in S
      PROVE  k + 1 \in S
  <2>1. PICK q \in Nat : \E r \in 0 .. b - 1 : k = q * b + r
    BY <1>2
  <2>2. PICK r \in 0 .. b - 1 : k = q * b + r
    BY <2>1
  <2>3. CASE r + 1 \in 0 .. b - 1
    <3>1. k + 1 = q * b + (r + 1)
      BY <2>2
    <3> QED
      BY <2>3, <3>1
  <2>4. CASE r + 1 \notin 0 .. b - 1
    <3>1. r + 1 = b
      BY <2>4
    <3>2. k + 1 = (q + 1) * b + 0
      BY <2>2, <3>1
    <3>3. PICK m \in Nat : m = q + 1
      OBVIOUS
    <3>4. k + 1 = m * b + 0 /\ 0 \in 0 .. b - 1 /\ k + 1 \in Nat
      BY <3>2, <3>3
    <3> QED
      BY <3>4
  <2> QED
    BY <2>3, <2>4
<1>3. Nat \subseteq S
  <2> HIDE DEF S
  <2> QED
    BY <1>1, <1>2, SetInduction
<1> QED
  BY <1>3

\* Filled up to a whole number of units, a length is of less than one more.
LEMMA PadsLittle ==
  ASSUME NEW l \in Nat, NEW b \in Nat \ {0}
  PROVE  /\ (b - (l % b)) % b \in 0 .. b - 1
         /\ (l + ((b - (l % b)) % b)) \div b - l \div b <= 1
<1>1. PICK q \in Nat : \E r \in 0 .. b - 1 : l = q * b + r
  BY Quotient
<1>2. PICK r \in 0 .. b - 1 : l = q * b + r
  BY <1>1
<1>3. l % b = r /\ l \div b = q
  BY <1>2
<1>4. CASE r = 0
  <2>1. (b - r) % b = 0
    BY <1>4
  <2> QED
    BY <1>3, <1>4, <2>1
<1>5. CASE r # 0
  <2>1. (b - r) % b = b - r
    BY <1>5
  <2>2. l + (b - r) = (q + 1) * b + 0
    BY <1>2
  <2>3. (l + (b - r)) \div b = q + 1
    BY <2>2
  <2> QED
    BY <1>3, <1>5, <2>1, <2>3
<1> QED
  BY <1>4, <1>5
==============================================================================
