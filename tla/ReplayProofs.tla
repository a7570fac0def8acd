---------------------------- MODULE ReplayProofs -----------------------------
(***************************************************************************)
(* A replay file is the recorded packets one behind the other, wherever    *)
(* blocks end, and the reader plays them all in order: proofs of the       *)
(* invariants of Replay for every size of block, packet and header.        *)
(***************************************************************************)
EXTENDS ReplayInv, SequenceTheorems, CommonProofs

(***************************************************************************)
(* Sequences of sequences, one behind the other.                           *)
(***************************************************************************)
Flat(ss) == Seqs!FlattenSeq(ss)

\* The sequences that the loop of FlattenSeq goes through.
Joins(g, S, ss) ==
  /\ g \in [0 .. Len(ss) -> Seq(S)]
  /\ g[0] = << >>
  /\ \A i \in 1 .. Len(ss) : g[i] = g[i - 1] \o ss[i]

LEMMA FlattenLoop ==
  ASSUME NEW S, NEW ss \in Seq(Seq(S))
  PROVE  \E g : Joins(g, S, ss) /\ Flat(ss) = g[Len(ss)]
<1> DEFINE n == Len(ss)
           A == Seq(S)
           step == [i \in 1 .. n |-> [x \in A |-> x \o ss[i]]]
<1>1. n \in Nat /\ \A i \in 1 .. n : ss[i] \in A
  OBVIOUS
<1>2. step \in Steps(A, n)
  <2>1. ASSUME NEW i \in 1 .. n, NEW x \in A
        PROVE  x \o ss[i] \in A
    BY <1>1
  <2> QED
    BY <2>1 DEF Steps
<1>3. PICK g \in [0 .. n -> A] :
        g = [i \in 0 .. n |-> IF i = 0 THEN << >> ELSE step[i][g[i - 1]]]
  <2>1. << >> \in A
    OBVIOUS
  <2> HIDE DEF step, A, n
  <2> QED
    BY <1>1, <1>2, <2>1, LoopDefined DEF LoopOf
<1>4. \A i \in 1 .. n : i - 1 \in 0 .. n /\ g[i] = g[i - 1] \o ss[i]
  <2> TAKE i \in 1 .. n
  <2>1. i - 1 \in 0 .. n /\ i \in 0 .. n /\ i # 0
    BY <1>1
  <2>2. g[i - 1] \in A
    BY <1>3, <2>1
  <2> QED
    BY <1>3, <2>1, <2>2
<1>5. g[0] = << >>
  BY <1>1, <1>3
<1>6. Joins(g, S, ss)
  BY <1>3, <1>4, <1>5 DEF Joins
<1> HIDE DEF step, A
<1>7. Flat(ss) = g[n]
  <2>1. CASE n = 0
    BY <1>5, <2>1 DEF Flat, Seqs!FlattenSeq
  <2>2. CASE n # 0
    <3>1. g[1] = ss[1]
      <4>1. 1 \in 1 .. n /\ ss[1] \in Seq(S) /\ 1 - 1 = 0
        BY <1>1, <2>2
      <4>2. g[1] = g[1 - 1] \o ss[1]
        BY <1>4, <4>1
      <4>3. g[1] = << >> \o ss[1]
        BY <1>5, <4>1, <4>2
      <4> QED
        BY <4>1, <4>3
    <3> DEFINE h == [i \in 1 .. Len(ss) |-> g[i]]
    <3>2. h = [i \in 1 .. Len(ss) |-> IF i = 1 THEN ss[i] ELSE h[i - 1] \o ss[i]]
      <4>1. ASSUME NEW i \in 1 .. Len(ss)
            PROVE  h[i] = IF i = 1 THEN ss[i] ELSE h[i - 1] \o ss[i]
        <5>1. CASE i = 1
          BY <3>1, <5>1
        <5>2. CASE i # 1
          <6>1. i - 1 \in 1 .. Len(ss)
            BY <5>2
          <6> QED
            BY <1>4, <5>2, <6>1
        <5> QED
          BY <5>1, <5>2
      <4> QED
        BY <4>1
    <3> HIDE DEF h
    <3>3. \E flat : /\ flat = [i \in 1 .. Len(ss) |-> IF i = 1 THEN ss[i] ELSE flat[i - 1] \o ss[i]]
                    /\ Flat(ss) = flat[Len(ss)]
      BY <2>2, <3>2 DEF Flat, Seqs!FlattenSeq
    <3>4. PICK flat : /\ flat = [i \in 1 .. Len(ss) |-> IF i = 1 THEN ss[i] ELSE flat[i - 1] \o ss[i]]
                      /\ Flat(ss) = flat[Len(ss)]
      BY <3>3
    <3>5. \A i \in 1 .. n : flat[i] = IF i = 1 THEN ss[i] ELSE flat[i - 1] \o ss[i]
      BY <3>4
    <3> DEFINE T == {i \in 0 .. n : i # 0 => flat[i] = g[i]}
    <3>6. 0 \in T
      BY <1>1
    <3>7. ASSUME NEW i \in 0 .. n - 1, i \in T
          PROVE  i + 1 \in T
      <4>1. PICK j : j = i + 1 /\ j \in 1 .. n /\ j - 1 = i
        BY <1>1
      <4>2. CASE i = 0
        BY <3>1, <3>5, <4>1, <4>2
      <4>3. CASE i # 0
        <5>1. flat[j] = flat[i] \o ss[j]
          <6>1. j # 1 /\ flat[j] = IF j = 1 THEN ss[j] ELSE flat[j - 1] \o ss[j]
            <7>1. j # 1
              BY <4>1, <4>3
            <7> QED
              BY <3>5, <4>1, <7>1, Zenon
          <6> QED
            BY <4>1, <6>1
        <5>2. g[j] = g[j - 1] \o ss[j]
          BY <1>4, <4>1
        <5>3. flat[i] = g[i]
          BY <3>7, <4>3
        <5>4. flat[j] = g[j]
          BY <4>1, <5>1, <5>2, <5>3
        <5>5. j \in 0 .. n
          BY <1>1, <4>1
        <5> QED
          BY <4>1, <5>4, <5>5
      <4> QED
        BY <4>2, <4>3
    <3>8. 0 .. n \subseteq T
      <4> HIDE DEF T, n
      <4> QED
        BY <1>1, <3>6, <3>7, UpTo
    <3>9. n \in T
      BY <1>1, <3>8
    <3> QED
      BY <2>2, <3>4, <3>9
  <2> QED
    BY <2>1, <2>2
<1> QED
  BY <1>6, <1>7

\* One sequence behind another.
JoinOf(c, a, b, S) ==
  /\ c \in Seq(S) /\ Len(c) = Len(a) + Len(b)
  /\ Len(a) \in Nat /\ Len(b) \in Nat
  /\ \A i \in 1 .. Len(a) : c[i] = a[i]
  /\ \A i \in 1 .. Len(b) : c[Len(a) + i] = b[i]

LEMMA JoinProps ==
  ASSUME NEW S, NEW a \in Seq(S), NEW b \in Seq(S)
  PROVE  JoinOf(a \o b, a, b, S)
<1>1. PICK c : c = a \o b
  OBVIOUS
<1>2. c \in Seq(S) /\ Len(c) = Len(a) + Len(b) /\ Len(a) \in Nat /\ Len(b) \in Nat
  BY <1>1
<1>3. \A i \in 1 .. Len(a) : c[i] = a[i]
  BY <1>1
<1>4. \A i \in 1 .. Len(b) : c[Len(a) + i] = b[i]
  BY <1>1
<1> QED
  BY <1>1, <1>2, <1>3, <1>4 DEF JoinOf

\* Two loops that join the same sequences so far have joined the same.
LEMMA JoinsAgree ==
  ASSUME NEW S, NEW ss, NEW tt, NEW g, NEW h, Joins(g, S, ss), Joins(h, S, tt),
         NEW m \in Nat, m <= Len(ss), m <= Len(tt), Len(ss) \in Nat, Len(tt) \in Nat,
         \A i \in 1 .. m : ss[i] = tt[i]
  PROVE  g[m] = h[m]
<1> DEFINE T == {i \in 0 .. m : g[i] = h[i]}
<1>1. 0 \in T
  BY DEF Joins
<1>2. ASSUME NEW i \in 0 .. m - 1, i \in T
      PROVE  i + 1 \in T
  <2>1. PICK j : j = i + 1 /\ j \in 1 .. Len(ss) /\ j \in 1 .. Len(tt) /\ j - 1 = i /\ j \in 1 .. m
    OBVIOUS
  <2>2. g[j] = g[j - 1] \o ss[j] /\ h[j] = h[j - 1] \o tt[j]
    BY <2>1 DEF Joins
  <2>3. g[i] = h[i] /\ ss[j] = tt[j]
    BY <1>2, <2>1
  <2>4. g[j] = h[j]
    BY <2>1, <2>2, <2>3
  <2> QED
    BY <2>1, <2>4
<1>3. 0 .. m \subseteq T
  <2> HIDE DEF T
  <2> QED
    BY <1>1, <1>2, UpTo
<1> QED
  BY <1>3

LEMMA FlattenType ==
  ASSUME NEW S, NEW ss \in Seq(Seq(S))
  PROVE  Flat(ss) \in Seq(S) /\ (ss = << >> => Flat(ss) = << >>)
<1>1. PICK g : Joins(g, S, ss) /\ Flat(ss) = g[Len(ss)]
  BY FlattenLoop
<1> QED
  <2>1. Len(ss) \in 0 .. Len(ss) /\ (ss = << >> => Len(ss) = 0)
    OBVIOUS
  <2>2. g \in [0 .. Len(ss) -> Seq(S)] /\ g[0] = << >>
    BY <1>1 DEF Joins
  <2> QED
    BY <1>1, <2>1, <2>2, Zenon

LEMMA FlattenAppend ==
  ASSUME NEW S, NEW ss \in Seq(Seq(S)), NEW s \in Seq(S)
  PROVE  Flat(Append(ss, s)) = Flat(ss) \o s
<1> DEFINE tt == Append(ss, s)
<1>1. /\ tt \in Seq(Seq(S)) /\ Len(tt) = Len(ss) + 1 /\ Len(ss) \in Nat
      /\ tt[Len(ss) + 1] = s
      /\ \A i \in 1 .. Len(ss) : tt[i] = ss[i]
  OBVIOUS
<1> HIDE DEF tt
<1>2. PICK g : Joins(g, S, ss) /\ Flat(ss) = g[Len(ss)]
  BY FlattenLoop
<1>3. PICK h : Joins(h, S, tt) /\ Flat(tt) = h[Len(tt)]
  BY <1>1, FlattenLoop
<1>4. g[Len(ss)] = h[Len(ss)]
  <2>1. PICK m : m = Len(ss)
    OBVIOUS
  <2>2. m \in Nat /\ m <= Len(ss) /\ m <= Len(tt) /\ Len(tt) \in Nat /\ \A i \in 1 .. m : ss[i] = tt[i]
    BY <1>1, <2>1
  <2>3. g[m] = h[m]
    BY <1>1, <1>2, <1>3, <2>2, JoinsAgree
  <2> QED
    BY <2>1, <2>3
<1>5. h[Len(ss) + 1] = h[Len(ss)] \o s
  <2>1. Len(ss) + 1 \in 1 .. Len(tt) /\ (Len(ss) + 1) - 1 = Len(ss)
    BY <1>1
  <2> QED
    BY <1>1, <1>3, <2>1 DEF Joins
<1> QED
  BY <1>1, <1>2, <1>3, <1>4, <1>5 DEF tt

\* What is put at the end of the last sequence is at the end of them all.
LEMMA FlattenExtend ==
  ASSUME NEW S, NEW ss \in Seq(Seq(S)), ss # << >>, NEW s \in Seq(S)
  PROVE  Flat([ss EXCEPT ![Len(ss)] = @ \o s]) = Flat(ss) \o s
<1> DEFINE n == Len(ss)
           tt == [ss EXCEPT ![n] = @ \o s]
<1>1. n \in Nat /\ n >= 1 /\ n \in 1 .. n /\ n - 1 \in 0 .. n /\ n - 1 \in Nat
  OBVIOUS
<1>2. ss[n] \in Seq(S) /\ ss[n] \o s \in Seq(S)
  BY <1>1
<1>3. /\ tt \in Seq(Seq(S)) /\ Len(tt) = n
      /\ tt[n] = ss[n] \o s
      /\ \A i \in 1 .. n - 1 : tt[i] = ss[i]
  BY <1>1, <1>2
<1> HIDE DEF tt
<1>4. PICK g : Joins(g, S, ss) /\ Flat(ss) = g[n]
  BY FlattenLoop
<1>5. PICK h : Joins(h, S, tt) /\ Flat(tt) = h[n]
  BY <1>3, FlattenLoop
<1>6. g[n - 1] = h[n - 1] /\ g[n - 1] \in Seq(S)
  <2>1. PICK m : m = n - 1
    OBVIOUS
  <2>2. m \in Nat /\ m <= Len(ss) /\ m <= Len(tt) /\ Len(tt) \in Nat /\ \A i \in 1 .. m : ss[i] = tt[i]
    BY <1>1, <1>3, <2>1
  <2>3. g[m] = h[m]
    BY <1>1, <1>4, <1>5, <2>2, JoinsAgree
  <2>4. g[m] \in Seq(S)
    BY <1>1, <1>4, <2>1 DEF Joins
  <2> QED
    BY <2>1, <2>3, <2>4
<1>7. g[n] = g[n - 1] \o ss[n] /\ h[n] = h[n - 1] \o tt[n]
  BY <1>1, <1>3, <1>4, <1>5 DEF Joins
<1>8. g[n - 1] \o (ss[n] \o s) = (g[n - 1] \o ss[n]) \o s
  <2>1. PICK a, b : a = g[n - 1] /\ b = ss[n]
    OBVIOUS
  <2>2. a \in Seq(S) /\ b \in Seq(S)
    BY <1>2, <1>6, <2>1
  <2>3. (a \o b) \o s = a \o (b \o s)
    BY <2>2, ConcatAssociative, SMTT(30)
  <2> QED
    BY <2>1, <2>3
<1> QED
  BY <1>3, <1>4, <1>5, <1>6, <1>7, <1>8 DEF tt


------------------------------------------------------------------------------
(***************************************************************************)
(* Recording.                                                              *)
(***************************************************************************)

LEMMA SizesType ==
  /\ FieldBytes \in Nat /\ FieldBytes > 0
  /\ kNetTransmitterBufferSize \in Nat /\ kNetTransmitterBufferSize > 0
  /\ \A size \in Sizes : size \in Nat /\ size > 0
  /\ MaxTime \in Nat /\ MaxPackets \in Nat /\ MaxLoads \in Nat
BY ReplayAssumption

\* The n bytes of a field.
FieldOf(f, kind, value, n) ==
  /\ f \in Seq(Byte) /\ Len(f) = n
  /\ \A i \in 1 .. n : f[i] = [kind |-> kind, i |-> i, value |-> value]

LEMMA FieldProps ==
  ASSUME NEW kind \in {"time", "size", "data", "junk"}, NEW value \in Nat, NEW n \in Nat
  PROVE  FieldOf(Field(kind, value, n), kind, value, n)
<1>1. PICK f : f = [i \in 1 .. n |-> [kind |-> kind, i |-> i, value |-> value]]
  OBVIOUS
<1>2. \A i \in 1 .. n : f[i] = [kind |-> kind, i |-> i, value |-> value] /\ f[i] \in Byte
  BY <1>1 DEF Byte
<1>3. f \in [1 .. n -> Byte]
  BY <1>1, <1>2
<1>4. f \in Seq(Byte) /\ Len(f) = n
  BY <1>3
<1> QED
  BY <1>1, <1>2, <1>4 DEF Field, FieldOf

\* Blocks that are full, but for the last.
Filled(bs) ==
  /\ bs \in Seq(Seq(Byte)) /\ bs # << >>
  /\ \A i \in 1 .. Len(bs) :
       IF i < Len(bs) THEN Len(bs[i]) = kNetTransmitterBufferSize
                      ELSE Len(bs[i]) <= kNetTransmitterBufferSize

\* A round of the loop of WriteData moves bytes from what is left to the
\* blocks, and what is then left is shorter or waits for a new block.
LEMMA CopiedProps ==
  ASSUME NEW bs, NEW data \in Seq(Byte), Filled(bs), NEW w, w = [bs |-> bs, data |-> data]
  PROVE  \E vs, rest :
           /\ Copied(w) = [bs |-> vs, data |-> rest]
           /\ Filled(vs) /\ rest \in Seq(Byte)
           /\ Flat(vs) \o rest = Flat(bs) \o data
           /\ Len(rest) <= Len(data)
           /\ rest # << >> => Len(vs[Len(vs)]) = 0
           /\ Len(bs[Len(bs)]) = 0 /\ data # << >> => Len(rest) < Len(data)
<1> DEFINE K == kNetTransmitterBufferSize
           last == Len(bs)
           size == Len(data)
           avail == K - Len(bs[last])
           part(n) == SubSeq(data, 1, n)
           full(n) == [bs EXCEPT ![last] = @ \o part(n)]
<1>1. /\ bs \in Seq(Seq(Byte)) /\ bs # << >> /\ last \in Nat /\ last >= 1 /\ last \in 1 .. last
      /\ bs[last] \in Seq(Byte) /\ Len(bs[last]) \in Nat /\ size \in Nat
      /\ K \in Nat /\ K > 0
      /\ avail \in Nat /\ avail <= K
      /\ \A i \in 1 .. last : i < last => Len(bs[i]) = K
  <2>1. /\ bs \in Seq(Seq(Byte)) /\ bs # << >> /\ K \in Nat /\ K > 0
        /\ \A i \in 1 .. last : (i < last => Len(bs[i]) = K) /\ Len(bs[i]) <= K
    <3>1. bs \in Seq(Seq(Byte)) /\ bs # << >> /\ K \in Nat /\ K > 0
      BY SizesType DEF Filled
    <3>2. \A i \in 1 .. last : IF i < last THEN Len(bs[i]) = K ELSE Len(bs[i]) <= K
      BY DEF Filled
    <3> QED
      BY <3>1, <3>2
  <2>2. last \in Nat /\ last >= 1 /\ last \in 1 .. last /\ bs[last] \in Seq(Byte)
    BY <2>1
  <2>3. Len(bs[last]) \in Nat /\ size \in Nat
    BY <2>2
  <2>4. avail \in Nat /\ avail <= K
    BY <2>1, <2>2, <2>3
  <2> QED
    BY <2>1, <2>2, <2>3, <2>4
<1>2. ASSUME NEW n \in 0 .. size, n <= avail
      PROVE  /\ part(n) \in Seq(Byte) /\ Len(part(n)) = n
             /\ full(n) \in Seq(Seq(Byte)) /\ Len(full(n)) = last
             /\ Len(full(n)[last]) = Len(bs[last]) + n
             /\ \A i \in 1 .. last - 1 : full(n)[i] = bs[i]
             /\ Flat(full(n)) = Flat(bs) \o part(n)
             /\ Filled(full(n))
  <2>1. part(n) \in Seq(Byte) /\ Len(part(n)) = n
    BY <1>1
  <2> HIDE DEF part
  <2>2. bs[last] \o part(n) \in Seq(Byte) /\ Len(bs[last] \o part(n)) = Len(bs[last]) + n
    <3>1. PICK x, y : x = bs[last] /\ y = part(n)
      OBVIOUS
    <3>2. x \in Seq(Byte) /\ y \in Seq(Byte)
      BY <1>1, <2>1, <3>1
    <3>3. x \o y \in Seq(Byte) /\ Len(x \o y) = Len(x) + Len(y)
      BY <3>2, ConcatProperties
    <3> QED
      BY <2>1, <3>1, <3>3
  <2>3. /\ full(n) \in Seq(Seq(Byte)) /\ Len(full(n)) = last
        /\ full(n)[last] = bs[last] \o part(n)
        /\ \A i \in 1 .. last - 1 : full(n)[i] = bs[i]
    <3>1. PICK v, x : v = full(n) /\ x = bs[last] \o part(n)
      OBVIOUS
    <3>2. x \in Seq(Byte) /\ v = [bs EXCEPT ![last] = x]
      BY <2>2, <3>1
    <3>3. /\ v \in Seq(Seq(Byte)) /\ Len(v) = last /\ v[last] = x
          /\ \A i \in 1 .. last - 1 : v[i] = bs[i]
      BY <1>1, <3>2
    <3> QED
      BY <3>1, <3>3
  <2>4. Flat(full(n)) = Flat(bs) \o part(n)
    BY <1>1, <2>1, FlattenExtend
  <2>5. Filled(full(n))
    <3> HIDE DEF full
    <3>1. ASSUME NEW i \in 1 .. last
          PROVE  IF i < last THEN Len(full(n)[i]) = K ELSE Len(full(n)[i]) <= K
      <4>1. CASE i < last
        <5>1. i \in 1 .. last - 1
          BY <1>1, <4>1
        <5>2. Len(bs[i]) = K
          BY <1>1, <4>1
        <5>3. full(n)[i] = bs[i]
          BY <2>3, <5>1
        <5> QED
          BY <4>1, <5>2, <5>3
      <4>2. CASE i = last
        BY <1>1, <1>2, <2>2, <2>3, <4>2
      <4> QED
        BY <1>1, <4>1, <4>2
    <3>2. full(n) # << >>
      BY <1>1, <2>3
    <3> QED
      BY <2>3, <3>1, <3>2 DEF Filled
  <2> QED
    BY <2>1, <2>2, <2>3, <2>4, <2>5
<1>3. Copied(w) = IF avail >= size THEN [bs |-> full(size), data |-> << >>]
                  ELSE [bs |-> Append(full(avail), << >>), data |-> SubSeq(data, avail + 1, size)]
  BY DEF Copied
<1>4. Flat(bs) \in Seq(Byte)
  BY <1>1, FlattenType
<1>5. CASE avail >= size
  <2>1. PICK vs : vs = full(size)
    OBVIOUS
  <2>2. /\ size \in 0 .. size /\ part(size) = data
    BY <1>1
  <2>3. Filled(vs) /\ Flat(vs) = Flat(bs) \o data
    BY <1>2, <1>5, <2>1, <2>2
  <2>4. Flat(bs) \o data \in Seq(Byte)
    BY <1>4, ConcatProperties
  <2>5. Flat(vs) \o << >> = Flat(bs) \o data
    BY <2>3, <2>4, ConcatEmptySeq
  <2>6. Copied(w) = [bs |-> vs, data |-> << >>] /\ << >> \in Seq(Byte) /\ Len(<< >>) = 0
    BY <1>3, <1>5, <2>1
  <2>7. data # << >> => 0 < Len(data)
    BY <1>1
  <2>8. PICK rest : rest = << >>
    OBVIOUS
  <2>9. /\ Copied(w) = [bs |-> vs, data |-> rest]
        /\ rest \in Seq(Byte)
        /\ Flat(vs) \o rest = Flat(bs) \o data
    BY <2>5, <2>6, <2>8
  <2>10. /\ Len(rest) <= Len(data)
         /\ rest # << >> => Len(vs[Len(vs)]) = 0
         /\ Len(bs[Len(bs)]) = 0 /\ data # << >> => Len(rest) < Len(data)
    BY <1>1, <2>6, <2>7, <2>8
  <2> HIDE DEF part, full, avail
  <2> QED
    BY <2>3, <2>9, <2>10
<1>6. CASE ~(avail >= size)
  <2>1. PICK us, rest, vs : us = full(avail) /\ rest = SubSeq(data, avail + 1, size) /\ vs = Append(us, << >>)
    OBVIOUS
  <2>2. avail \in 0 .. size /\ avail < size
    BY <1>1, <1>6
  <2>3. /\ us \in Seq(Seq(Byte)) /\ Len(us) = last
        /\ Len(us[last]) = Len(bs[last]) + avail
        /\ Flat(us) = Flat(bs) \o part(avail) /\ part(avail) \in Seq(Byte)
        /\ Filled(us)
    <3>1. PICK q : q = avail
      OBVIOUS
    <3>2. q \in 0 .. size /\ q <= avail
      BY <1>1, <2>2, <3>1
    <3>3. us = full(q)
      BY <2>1, <3>1
    <3> HIDE DEF part, full, avail
    <3> QED
      BY <1>2, <3>1, <3>2, <3>3
  <2>4. Len(us[last]) = K
    BY <1>1, <2>3
  <2>5. rest \in Seq(Byte) /\ Len(rest) = size - avail /\ part(avail) \o rest = data
    <3>1. rest \in Seq(Byte) /\ Len(rest) = size - avail
      BY <1>1, <2>1, <2>2
    <3>2. SubSeq(data, 1, avail) \o SubSeq(data, avail + 1, size) = SubSeq(data, 1, size)
      <4>1. PICK a, z : a = avail /\ z = size
        OBVIOUS
      <4>2. 1 \in 1 .. Len(data) + 1 /\ a \in 1 - 1 .. Len(data) /\ z \in a .. Len(data)
        BY <1>1, <2>2, <4>1
      <4>3. SubSeq(data, 1, a) \o SubSeq(data, a + 1, z) = SubSeq(data, 1, z)
        BY <4>2, ConcatAdjacentSubSeq
      <4> QED
        BY <4>1, <4>3
    <3>3. SubSeq(data, 1, size) = data
      BY <1>1
    <3> QED
      BY <2>1, <3>1, <3>2, <3>3
  <2> HIDE DEF part, full, avail
  <2>6. << >> \in Seq(Byte) /\ Len(<< >>) = 0
    OBVIOUS
  <2>7. /\ vs \in Seq(Seq(Byte)) /\ Len(vs) = last + 1 /\ vs[last + 1] = << >>
        /\ \A i \in 1 .. last : vs[i] = us[i]
    BY <1>1, <2>1, <2>3, <2>6
  <2>8. Filled(vs)
    <3>1. ASSUME NEW i \in 1 .. last + 1
          PROVE  IF i < last + 1 THEN Len(vs[i]) = K ELSE Len(vs[i]) <= K
      <4>1. CASE i < last
        <5>1. i \in 1 .. last /\ i < Len(us)
          BY <1>1, <2>3, <4>1
        <5>2. Len(us[i]) = K
          BY <2>3, <5>1 DEF Filled
        <5> QED
          <6>1. vs[i] = us[i]
            BY <2>7, <5>1
          <6>2. i < last + 1
            BY <1>1, <4>1
          <6> QED
            BY <5>2, <6>1, <6>2, Zenon
      <4>2. CASE i = last
        BY <1>1, <2>4, <2>7, <4>2
      <4>3. CASE i = last + 1
        BY <1>1, <2>6, <2>7, <4>3
      <4> QED
        BY <1>1, <4>1, <4>2, <4>3
    <3> QED
      BY <1>1, <2>7, <3>1 DEF Filled
  <2>9. Flat(vs) = Flat(us)
    <3>1. Flat(vs) = Flat(us) \o << >>
      BY <2>1, <2>3, <2>6, FlattenAppend
    <3>2. Flat(us) \in Seq(Byte)
      BY <2>3, FlattenType
    <3> QED
      BY <3>1, <3>2, ConcatEmptySeq
  <2>10. Flat(vs) \o rest = Flat(bs) \o data
    <3>1. PICK a, b : a = Flat(bs) /\ b = part(avail)
      OBVIOUS
    <3>2. a \in Seq(Byte) /\ b \in Seq(Byte) /\ rest \in Seq(Byte)
      BY <1>4, <2>3, <2>5, <3>1
    <3>3. (a \o b) \o rest = a \o (b \o rest)
      BY <3>2, ConcatAssociative
    <3> QED
      BY <2>3, <2>5, <2>9, <3>1, <3>3
  <2>11. Copied(w) = [bs |-> vs, data |-> rest]
    BY <1>3, <1>6, <2>1
  <2>12. Len(rest) <= Len(data) /\ (Len(bs[last]) = 0 => Len(rest) < Len(data))
    BY <1>1, <2>5 DEF avail
  <2> QED
    BY <2>5, <2>6, <2>7, <2>8, <2>10, <2>11, <2>12
<1> QED
  BY <1>5, <1>6

\* WriteData puts the data behind what the blocks hold.
LEMMA WriteDataProps ==
  ASSUME NEW bs, NEW data \in Seq(Byte), Filled(bs)
  PROVE  Filled(WriteData(bs, data)) /\ Flat(WriteData(bs, data)) = Flat(bs) \o data
<1> DEFINE n == Len(data) + 1
           w0 == [bs |-> bs, data |-> data]
           Work == {w \in [bs : Seq(Seq(Byte)), data : Seq(Byte)] :
                      Filled(w.bs) /\ Flat(w.bs) \o w.data = Flat(bs) \o data}
           step == [i \in 1 .. n |-> [w \in Work |-> Copied(w)]]
<1>1. n \in Nat /\ Len(data) \in Nat /\ bs \in Seq(Seq(Byte))
  BY DEF Filled
<1>2. w0 \in Work
  BY <1>1
<1>3. ASSUME NEW w \in Work
      PROVE  /\ Copied(w) \in Work
             /\ Len(w.data) \in Nat /\ Len(Copied(w).data) \in Nat
             /\ Len(Copied(w).data) <= Len(w.data)
             /\ Copied(w).data # << >> => Len(Copied(w).bs[Len(Copied(w).bs)]) = 0
             /\ Len(w.bs[Len(w.bs)]) = 0 /\ w.data # << >> => Len(Copied(w).data) < Len(w.data)
  <2>1. PICK b, d : b = w.bs /\ d = w.data
    OBVIOUS
  <2>2. w = [bs |-> b, data |-> d] /\ d \in Seq(Byte) /\ Filled(b) /\ Flat(b) \o d = Flat(bs) \o data
    BY <2>1
  <2>3. PICK vs, rest :
           /\ Copied(w) = [bs |-> vs, data |-> rest]
           /\ Filled(vs) /\ rest \in Seq(Byte)
           /\ Flat(vs) \o rest = Flat(b) \o d
           /\ Len(rest) <= Len(d)
           /\ rest # << >> => Len(vs[Len(vs)]) = 0
           /\ Len(b[Len(b)]) = 0 /\ d # << >> => Len(rest) < Len(d)
    <3>1. d \in Seq(Byte) /\ Filled(b) /\ w = [bs |-> b, data |-> d]
      BY <2>2
    <3> HIDE DEF Work, w0, step, n
    <3> QED
      BY <3>1, CopiedProps, ZenonT(30)
  <2>4. vs \in Seq(Seq(Byte))
    BY <2>3 DEF Filled
  <2>5. Copied(w) \in Work
    <3>1. PICK v : v = [bs |-> vs, data |-> rest]
      OBVIOUS
    <3>2. /\ v \in [bs : Seq(Seq(Byte)), data : Seq(Byte)]
          /\ v.bs = vs /\ v.data = rest
      BY <2>3, <2>4, <3>1
    <3>3. Filled(v.bs) /\ Flat(v.bs) \o v.data = Flat(bs) \o data
      BY <2>2, <2>3, <3>2
    <3>4. v \in Work
      BY <3>2, <3>3
    <3> QED
      BY <2>3, <3>1, <3>4
  <2>6. Len(rest) \in Nat /\ Len(d) \in Nat
    BY <2>2, <2>3
  <2> HIDE DEF Work
  <2> QED
    BY <2>1, <2>3, <2>5, <2>6
<1>4. step \in Steps(Work, n)
  <2> HIDE DEF Work
  <2> QED
    BY <1>3 DEF Steps
<1>5. \E f : /\ f = [i \in 0 .. n |-> IF i = 0 THEN w0 ELSE Copied(f[i - 1])]
             /\ f \in [0 .. n -> Work]
  <2>1. PICK f \in [0 .. n -> Work] :
          f = [i \in 0 .. n |-> IF i = 0 THEN w0 ELSE step[i][f[i - 1]]]
    <3>1. PICK W, s, b, m : W = Work /\ s = step /\ b = w0 /\ m = n
      OBVIOUS
    <3>2. b \in W /\ s \in Steps(W, m) /\ m \in Nat
      <4> HIDE DEF step, Work, w0
      <4> QED
        BY <1>1, <1>2, <1>4, <3>1
    <3>3. PICK f : LoopOf(f, W, b, m, s)
      BY <3>2, LoopDefined
    <3> HIDE DEF step, Work, w0, n
    <3> QED
      BY <3>1, <3>3 DEF LoopOf
  <2> HIDE DEF Work
  <2>2. ASSUME NEW i \in 0 .. n, i # 0
        PROVE  step[i][f[i - 1]] = Copied(f[i - 1])
    <3>1. i - 1 \in 0 .. n /\ i \in 1 .. n
      BY <1>1, <2>2
    <3>2. f[i - 1] \in Work
      BY <2>1, <3>1
    <3> QED
      BY <3>1, <3>2
  <2> HIDE DEF step
  <2>3. f = [i \in 0 .. n |-> IF i = 0 THEN w0 ELSE Copied(f[i - 1])]
    BY <2>1, <2>2
  <2> QED
    BY <2>1, <2>3
<1> HIDE DEF step
<1>6. \E f : /\ f = [i \in 0 .. n |-> IF i = 0 THEN w0 ELSE Copied(f[i - 1])]
             /\ WriteData(bs, data) = f[n].bs
  BY <1>5 DEF WriteData
<1>7. PICK f : /\ f = [i \in 0 .. n |-> IF i = 0 THEN w0 ELSE Copied(f[i - 1])]
               /\ WriteData(bs, data) = f[n].bs
  BY <1>6
<1>8. f[0] = w0 /\ \A i \in 1 .. n : f[i] = Copied(f[i - 1])
  <2>1. 0 \in 0 .. n
    BY <1>1
  <2>2. \A i \in 1 .. n : i \in 0 .. n /\ i # 0
    BY <1>1
  <2> HIDE DEF w0, n
  <2> QED
    BY <1>7, <2>1, <2>2
\* After each round: what is left gets shorter, and waits for a new block.
<1> DEFINE Left(w, k) == Len(w.data) <= n - k /\ (w.data # << >> => Len(w.bs[Len(w.bs)]) = 0)
           T == {i \in 0 .. n : f[i] \in Work /\ (i # 0 => Left(f[i], i))}
<1>9. 0 \in T
  <2>1. 0 \in 0 .. n
    BY <1>1
  <2> HIDE DEF Work, n, w0
  <2> QED
    BY <1>2, <1>8, <2>1
<1>10. ASSUME NEW i \in 0 .. n - 1, i \in T
       PROVE  i + 1 \in T
  <2>1. PICK j, w, v : j = i + 1 /\ j \in 1 .. n /\ j # 0 /\ j - 1 = i /\ w = f[i] /\ v = f[j]
    BY <1>1
  <2>2. w \in Work /\ v = Copied(w)
    BY <1>8, <1>10, <2>1
  <2>3. /\ v \in Work
        /\ Len(w.data) \in Nat /\ Len(v.data) \in Nat
        /\ Len(v.data) <= Len(w.data)
        /\ v.data # << >> => Len(v.bs[Len(v.bs)]) = 0
        /\ Len(w.bs[Len(w.bs)]) = 0 /\ w.data # << >> => Len(v.data) < Len(w.data)
    <3> HIDE DEF Work
    <3> QED
      BY <1>3, <2>2
  <2>4. Len(v.data) <= n - j
    <3>1. CASE i = 0
      <4>1. w.data = data
        BY <1>8, <2>1, <3>1
      <4> QED
        BY <1>1, <2>1, <2>3, <3>1, <4>1
    <3>2. CASE i # 0 /\ w.data = << >>
      BY <1>1, <2>1, <2>3, <3>2
    <3>3. CASE i # 0 /\ w.data # << >>
      <4>1. Len(w.data) <= n - i /\ Len(w.bs[Len(w.bs)]) = 0
        BY <1>10, <2>1, <3>3
      <4> QED
        BY <1>1, <2>1, <2>3, <3>3, <4>1, SMTT(30)
    <3> QED
      BY <3>1, <3>2, <3>3
  <2>5. j \in T
    <3>1. j \in 0 .. n
      BY <1>1, <2>1
    <3> HIDE DEF Work, n
    <3> QED
      BY <2>1, <2>3, <2>4, <3>1
  <2> QED
    BY <2>1, <2>5
<1>11. 0 .. n \subseteq T
  <2> HIDE DEF T, n
  <2> QED
    BY <1>1, <1>9, <1>10, UpTo
<1>12. PICK v : v = f[n]
  OBVIOUS
<1>13. v \in Work /\ Len(v.data) <= 0
  <2>1. n \in 0 .. n /\ n # 0 /\ n - n = 0
    BY <1>1
  <2> HIDE DEF n, Work
  <2> QED
    BY <1>11, <1>12, <2>1
<1>14. v.data = << >> /\ v.bs \in Seq(Seq(Byte)) /\ Filled(v.bs) /\ Flat(v.bs) \o v.data = Flat(bs) \o data
  BY <1>13
<1>15. Flat(v.bs) \o << >> = Flat(v.bs)
  <2>1. Flat(v.bs) \in Seq(Byte)
    BY <1>14, FlattenType
  <2> QED
    BY <2>1, ConcatEmptySeq
<1> QED
  BY <1>7, <1>12, <1>14, <1>15

\* The unwritten part of a full block is empty: the file is the blocks.
LEMMA FileIsBlocks ==
  ASSUME Filled(blocks)
  PROVE  SaveToFile = Flat(blocks)
<1>1. blocks \in Seq(Seq(Byte)) /\ DOMAIN blocks = 1 .. Len(blocks)
  BY DEF Filled
<1>2. Field("junk", 0, 0) = << >>
  BY FieldProps DEF FieldOf
<1>3. ASSUME NEW i \in DOMAIN blocks
      PROVE  (IF i = Len(blocks) THEN blocks[i]
              ELSE blocks[i] \o Field("junk", 0, kNetTransmitterBufferSize - Len(blocks[i]))) = blocks[i]
  <2>1. CASE i = Len(blocks)
    BY <2>1
  <2>2. CASE i # Len(blocks)
    <3>1. i < Len(blocks) /\ i \in 1 .. Len(blocks) /\ blocks[i] \in Seq(Byte)
      BY <1>1, <2>2
    <3>2. kNetTransmitterBufferSize - Len(blocks[i]) = 0
      BY <3>1, SizesType DEF Filled
    <3>3. blocks[i] \o << >> = blocks[i]
      BY <3>1, ConcatEmptySeq
    <3> QED
      BY <1>2, <2>2, <3>2, <3>3
  <2> QED
    BY <2>1, <2>2
<1>4. [i \in DOMAIN blocks |->
         IF i = Len(blocks) THEN blocks[i]
         ELSE blocks[i] \o Field("junk", 0, kNetTransmitterBufferSize - Len(blocks[i]))] = blocks
  <2>1. blocks = [i \in DOMAIN blocks |-> blocks[i]]
    BY <1>1
  <2> QED
    BY <1>3, <2>1
<1> QED
  BY <1>4 DEF SaveToFile, Flat

------------------------------------------------------------------------------
(***************************************************************************)
(* The places of the packets in the file.                                  *)
(***************************************************************************)

\* What the bytes of a packet are: its time, its size and its contents.
BytesOf(b, p) ==
  /\ b \in Seq(Byte) /\ Len(b) = 2 * FieldBytes + p.size
  /\ \A i \in 1 .. FieldBytes :
       /\ b[i] = [kind |-> "time", i |-> i, value |-> p.time]
       /\ b[FieldBytes + i] = [kind |-> "size", i |-> i, value |-> p.size]
  /\ \A i \in 1 .. p.size : b[2 * FieldBytes + i] = Field("data", p.id, p.size)[i]

LEMMA BytesProps ==
  ASSUME NEW p \in PacketType
  PROVE  /\ p.time \in 0 .. MaxTime /\ p.size \in Nat /\ p.size > 0 /\ p.id \in Nat
         /\ BytesOf(Bytes(p), p)
<1>1. /\ p.time \in 0 .. MaxTime /\ p.time \in Nat /\ p.size \in Nat /\ p.size > 0 /\ p.id \in Nat
      /\ FieldBytes \in Nat
  BY SizesType DEF PacketType
<1>2. PICK t, s, d : /\ t = Field("time", p.time, FieldBytes)
                     /\ s = Field("size", p.size, FieldBytes)
                     /\ d = Field("data", p.id, p.size)
  OBVIOUS
<1>3. FieldOf(t, "time", p.time, FieldBytes)
  BY <1>1, <1>2, FieldProps
<1>4. FieldOf(s, "size", p.size, FieldBytes)
  BY <1>1, <1>2, FieldProps
<1>5. FieldOf(d, "data", p.id, p.size)
  BY <1>1, <1>2, FieldProps
<1>6. PICK h, b : h = t \o s /\ b = h \o d
  OBVIOUS
<1>7. JoinOf(h, t, s, Byte)
  BY <1>3, <1>4, <1>6, JoinProps DEF FieldOf
<1>8. JoinOf(b, h, d, Byte)
  <2>1. h \in Seq(Byte) /\ d \in Seq(Byte)
    BY <1>5, <1>7 DEF FieldOf, JoinOf
  <2> QED
    BY <1>6, <2>1, JoinProps
<1>9. b = Bytes(p)
  BY <1>2, <1>6 DEF Bytes
<1>10. Len(t) = FieldBytes /\ Len(s) = FieldBytes /\ Len(d) = p.size /\ Len(h) = 2 * FieldBytes
  BY <1>1, <1>3, <1>4, <1>5, <1>7 DEF FieldOf, JoinOf
<1>11. ASSUME NEW i \in 1 .. FieldBytes
       PROVE  b[i] = t[i] /\ b[FieldBytes + i] = s[i]
  <2>1. i \in 1 .. Len(h) /\ FieldBytes + i \in 1 .. Len(h) /\ i \in 1 .. Len(t) /\ i \in 1 .. Len(s)
    BY <1>1, <1>10
  <2>2. h[i] = t[i] /\ h[FieldBytes + i] = s[i]
    BY <1>7, <1>10, <2>1 DEF JoinOf
  <2>3. b[i] = h[i] /\ b[FieldBytes + i] = h[FieldBytes + i]
    BY <1>8, <2>1 DEF JoinOf
  <2> QED
    BY <2>2, <2>3
<1>12. ASSUME NEW i \in 1 .. p.size
       PROVE  b[2 * FieldBytes + i] = d[i]
  BY <1>8, <1>10 DEF JoinOf
<1>13. Len(b) = 2 * FieldBytes + p.size /\ b \in Seq(Byte)
  BY <1>8, <1>10 DEF JoinOf
<1>14. /\ \A i \in 1 .. FieldBytes : t[i] = [kind |-> "time", i |-> i, value |-> p.time]
       /\ \A i \in 1 .. FieldBytes : s[i] = [kind |-> "size", i |-> i, value |-> p.size]
  BY <1>3, <1>4 DEF FieldOf
<1>15. BytesOf(b, p)
  BY <1>2, <1>11, <1>12, <1>13, <1>14 DEF BytesOf
<1> QED
  BY <1>1, <1>9, <1>15

PacketsType == recorded \in Seq(PacketType)

LEMMA RecordedStep ==
  ASSUME PacketsType, NEW n \in 0 .. Len(recorded)
  PROVE  /\ Recorded(n) \in Seq(Byte) /\ Len(Recorded(n)) \in Nat
         /\ n = 0 => Recorded(n) = << >>
         /\ n # 0 => Recorded(n) = Recorded(n - 1) \o Bytes(recorded[n])
<1>1. Len(recorded) \in Nat /\ \A i \in 1 .. Len(recorded) : recorded[i] \in PacketType
  BY DEF PacketsType
<1>2. ASSUME NEW k \in 0 .. Len(recorded), NEW ss, ss = [i \in 1 .. k |-> Bytes(recorded[i])]
      PROVE  ss \in Seq(Seq(Byte)) /\ Len(ss) = k /\ Flat(ss) = Recorded(k)
  <2>1. \A i \in 1 .. k : ss[i] \in Seq(Byte)
    BY <1>1, <1>2, BytesProps DEF BytesOf
  <2>2. ss \in [1 .. k -> Seq(Byte)]
    BY <1>2, <2>1
  <2>3. k \in Nat
    BY <1>1
  <2>4. ss \in Seq(Seq(Byte)) /\ Len(ss) = k
    BY <2>2, <2>3
  <2> QED
    BY <1>2, <2>4 DEF Recorded, Flat
<1>3. PICK ss : ss = [i \in 1 .. n |-> Bytes(recorded[i])]
  OBVIOUS
<1>4. ss \in Seq(Seq(Byte)) /\ Len(ss) = n /\ Flat(ss) = Recorded(n)
  BY <1>2, <1>3
<1>5. Recorded(n) \in Seq(Byte) /\ Len(Recorded(n)) \in Nat /\ (ss = << >> => Recorded(n) = << >>)
  <2>1. Flat(ss) \in Seq(Byte) /\ (ss = << >> => Flat(ss) = << >>)
    BY <1>4, FlattenType
  <2>2. PICK x : x = Recorded(n)
    OBVIOUS
  <2>3. x \in Seq(Byte) /\ Len(x) \in Nat
    BY <1>4, <2>1, <2>2
  <2> QED
    BY <1>4, <2>1, <2>2, <2>3
<1>6. n = 0 => ss = << >>
  BY <1>3
<1>7. CASE n # 0
  <2>1. PICK tt, b : tt = [i \in 1 .. n - 1 |-> Bytes(recorded[i])] /\ b = Bytes(recorded[n])
    OBVIOUS
  <2>2. n - 1 \in 0 .. Len(recorded) /\ n \in 1 .. Len(recorded) /\ n \in Nat
    BY <1>1, <1>7
  <2>3. tt \in Seq(Seq(Byte)) /\ Len(tt) = n - 1 /\ Flat(tt) = Recorded(n - 1)
    BY <1>2, <2>1, <2>2
  <2>4. b \in Seq(Byte)
    BY <1>1, <2>1, <2>2, BytesProps DEF BytesOf
  <2>5. ss = Append(tt, b)
    <3>1. Append(tt, b) \in Seq(Seq(Byte)) /\ Len(Append(tt, b)) = n
      BY <2>2, <2>3, <2>4
    <3>2. ASSUME NEW i \in 1 .. n
          PROVE  ss[i] = Append(tt, b)[i]
      <4>1. CASE i = n
        BY <1>3, <2>1, <2>2, <2>3, <4>1
      <4>2. CASE i # n
        <5>1. i \in 1 .. n - 1
          BY <2>2, <4>2
        <5>2. Append(tt, b)[i] = tt[i]
          BY <2>3, <2>4, <5>1
        <5>3. tt[i] = Bytes(recorded[i]) /\ ss[i] = Bytes(recorded[i])
          BY <1>3, <2>1, <5>1
        <5> QED
          BY <5>2, <5>3
      <4> QED
        BY <4>1, <4>2
    <3> QED
      BY <1>4, <3>1, <3>2
  <2>6. Flat(ss) = Flat(tt) \o b
    BY <2>3, <2>4, <2>5, FlattenAppend
  <2> QED
    BY <1>4, <1>5, <1>7, <2>1, <2>3, <2>6
<1> QED
  BY <1>4, <1>5, <1>6, <1>7

\* What the first n packets take up stays as it is when more packets follow.
LEMMA RecordedPrefix ==
  ASSUME PacketsType, NEW n \in 0 .. Len(recorded), NEW m \in n .. Len(recorded)
  PROVE  /\ Len(Recorded(n)) <= Len(Recorded(m))
         /\ \A i \in 1 .. Len(Recorded(n)) : Recorded(m)[i] = Recorded(n)[i]
<1>1. Len(recorded) \in Nat
  BY DEF PacketsType
<1> DEFINE N == Len(recorded)
           T == {k \in 0 .. N : k >= n =>
                   /\ Len(Recorded(n)) <= Len(Recorded(k))
                   /\ \A i \in 1 .. Len(Recorded(n)) : Recorded(k)[i] = Recorded(n)[i]}
<1>2. 0 \in T
  BY <1>1, RecordedStep
<1>3. ASSUME NEW k \in 0 .. N - 1, k \in T
      PROVE  k + 1 \in T
  <2>1. PICK j : j = k + 1 /\ j \in 0 .. N /\ j \in 1 .. N /\ j # 0 /\ j - 1 = k
    BY <1>1
  <2>2. PICK x, y, z, b : x = Recorded(n) /\ y = Recorded(k) /\ z = Recorded(j) /\ b = Bytes(recorded[j])
    OBVIOUS
  <2>3. x \in Seq(Byte) /\ y \in Seq(Byte) /\ b \in Seq(Byte) /\ z = y \o b
    <3>1. recorded[j] \in PacketType
      BY <2>1 DEF PacketsType
    <3>2. b \in Seq(Byte)
      BY <2>2, <3>1, BytesProps DEF BytesOf
    <3>3. x \in Seq(Byte)
      BY <2>2, RecordedStep
    <3>4. k \in 0 .. Len(recorded)
      BY <1>1
    <3>5. y \in Seq(Byte)
      BY <2>2, <3>4, RecordedStep
    <3>6. Recorded(j) = Recorded(j - 1) \o Bytes(recorded[j])
      BY <2>1, RecordedStep
    <3> QED
      BY <2>1, <2>2, <3>2, <3>3, <3>5, <3>6
  <2>4. CASE j = n
    BY <2>1, <2>2, <2>3, <2>4
  <2>5. CASE j > n
    <3>1. Len(x) <= Len(y) /\ \A i \in 1 .. Len(x) : y[i] = x[i]
      <4>1. k >= n
        BY <1>1, <2>1, <2>5
      <4> QED
        BY <1>3, <2>2, <4>1
    <3>2. Len(z) = Len(y) + Len(b) /\ Len(x) \in Nat /\ Len(y) \in Nat /\ Len(b) \in Nat
      BY <2>3
    <3>3. ASSUME NEW i \in 1 .. Len(x)
          PROVE  z[i] = x[i]
      <4>1. i \in 1 .. Len(y)
        BY <3>1, <3>2
      <4>2. z[i] = y[i]
        BY <2>3, <4>1
      <4> QED
        BY <3>1, <4>2
    <3>4. Len(x) <= Len(z)
      BY <3>1, <3>2
    <3>5. j \in T
      BY <2>1, <2>2, <3>3, <3>4
    <3> QED
      BY <2>1, <3>5
  <2>6. CASE j < n
    <3>1. j \in T
      BY <1>1, <2>1, <2>6
    <3> QED
      BY <2>1, <3>1
  <2> QED
    BY <1>1, <2>1, <2>4, <2>5, <2>6
<1>4. 0 .. N \subseteq T
  <2> HIDE DEF T
  <2> QED
    BY <1>1, <1>2, <1>3, UpTo
<1>5. m \in 0 .. N /\ m >= n
  BY <1>1
<1> QED
  BY <1>4, <1>5

\* Packet n begins where the packets before it end.
LEMMA PacketAt ==
  ASSUME PacketsType, NEW n \in 1 .. Len(recorded),
         NEW file, file = Recorded(Len(recorded)), NEW at, at = Len(Recorded(n - 1)),
         NEW p, p = recorded[n]
  PROVE  /\ p \in PacketType /\ file \in Seq(Byte) /\ at \in Nat /\ n \in Nat
         /\ Len(Recorded(n)) = at + 2 * FieldBytes + p.size
         /\ Len(Recorded(n)) <= Len(file)
         /\ \A i \in 1 .. FieldBytes :
              /\ file[at + i] = [kind |-> "time", i |-> i, value |-> p.time]
              /\ file[at + FieldBytes + i] = [kind |-> "size", i |-> i, value |-> p.size]
         /\ \A i \in 1 .. p.size : file[at + 2 * FieldBytes + i] = Field("data", p.id, p.size)[i]
<1>1. /\ Len(recorded) \in Nat /\ n \in Nat /\ n # 0 /\ n - 1 \in 0 .. Len(recorded)
      /\ n \in 0 .. Len(recorded) /\ Len(recorded) \in 0 .. Len(recorded)
      /\ Len(recorded) \in n .. Len(recorded)
      /\ p \in PacketType
  BY DEF PacketsType
<1>2. FieldBytes \in Nat /\ p.size \in Nat /\ BytesOf(Bytes(p), p)
  BY <1>1, SizesType, BytesProps
<1>3. PICK x, z, b : x = Recorded(n - 1) /\ z = Recorded(n) /\ b = Bytes(p)
  OBVIOUS
<1>4. x \in Seq(Byte)
  BY <1>1, <1>3, RecordedStep
<1>5. z = x \o b /\ file \in Seq(Byte)
  BY <1>1, <1>3, RecordedStep
<1>6. b \in Seq(Byte) /\ Len(b) = 2 * FieldBytes + p.size
  BY <1>2, <1>3 DEF BytesOf
<1>7. JoinOf(z, x, b, Byte)
  BY <1>4, <1>5, <1>6, JoinProps
<1>8. Len(z) = at + Len(b) /\ at \in Nat
  BY <1>3, <1>7 DEF JoinOf
<1>9. Len(z) <= Len(file) /\ \A i \in 1 .. Len(z) : file[i] = z[i]
  BY <1>1, <1>3, RecordedPrefix
<1>10. ASSUME NEW i \in 1 .. Len(b)
       PROVE  file[at + i] = b[i]
  <2>1. at + i \in 1 .. Len(z)
    BY <1>6, <1>2, <1>8
  <2>2. z[at + i] = b[i]
    BY <1>3, <1>7 DEF JoinOf
  <2> QED
    BY <1>9, <2>1, <2>2
<1>11. ASSUME NEW i \in 1 .. FieldBytes
       PROVE  /\ file[at + i] = [kind |-> "time", i |-> i, value |-> p.time]
              /\ file[at + FieldBytes + i] = [kind |-> "size", i |-> i, value |-> p.size]
  <2>1. i \in 1 .. Len(b) /\ FieldBytes + i \in 1 .. Len(b) /\ at + (FieldBytes + i) = at + FieldBytes + i
    <3>1. PICK k, l : k = FieldBytes /\ l = Len(b)
      OBVIOUS
    <3>2. k \in Nat /\ i \in 1 .. k /\ at \in Nat /\ l = 2 * k + p.size /\ p.size \in Nat
      BY <1>2, <1>6, <1>8, <3>1
    <3>3. l \in Nat /\ i <= l /\ k + i <= l
      BY <3>2
    <3> QED
      BY <3>1, <3>2, <3>3
  <2>2. file[at + i] = b[i] /\ file[at + FieldBytes + i] = b[FieldBytes + i]
    BY <1>10, <2>1
  <2> QED
    BY <1>2, <1>3, <2>2 DEF BytesOf
<1>12. ASSUME NEW i \in 1 .. p.size
       PROVE  file[at + 2 * FieldBytes + i] = Field("data", p.id, p.size)[i]
  <2>1. 2 * FieldBytes + i \in 1 .. Len(b) /\ at + (2 * FieldBytes + i) = at + 2 * FieldBytes + i
    <3>1. PICK k, l : k = 2 * FieldBytes /\ l = Len(b)
      OBVIOUS
    <3>2. k \in Nat /\ i \in 1 .. p.size /\ at \in Nat /\ l = k + p.size /\ p.size \in Nat
      BY <1>2, <1>6, <1>8, <3>1
    <3>3. k + i \in 1 .. l /\ at + (k + i) = at + k + i
      BY <3>2
    <3> QED
      BY <3>1, <3>3
  <2>2. file[at + 2 * FieldBytes + i] = b[2 * FieldBytes + i]
    BY <1>10, <2>1
  <2> QED
    BY <1>2, <1>3, <2>2 DEF BytesOf
<1>13. Len(z) = at + 2 * FieldBytes + p.size
  <2>1. PICK k, l, size : k = 2 * FieldBytes /\ l = Len(b) /\ size = p.size
    OBVIOUS
  <2>2. l = k + size /\ Len(z) = at + l /\ k \in Nat /\ size \in Nat /\ at \in Nat
    BY <1>2, <1>6, <1>8, <2>1
  <2> QED
    BY <2>1, <2>2, SMTT(30)
<1> QED
  BY <1>1, <1>3, <1>5, <1>8, <1>9, <1>11, <1>12, <1>13

\* No two packets wait at the same place, and none at the end of the file.
LEMMA PlacesDiffer ==
  ASSUME PacketsType, NEW n \in 1 .. Len(recorded), NEW m \in n .. Len(recorded)
  PROVE  /\ PlaceOf(n) \in Nat /\ PlaceOf(n) < Len(Recorded(m))
         /\ Len(Recorded(m)) \in Nat
<1>1. /\ Len(recorded) \in Nat /\ n \in 0 .. Len(recorded) /\ m \in 0 .. Len(recorded) /\ m \in n .. Len(recorded)
      /\ n - 1 \in 0 .. Len(recorded)
  BY DEF PacketsType
<1>2. PICK at, p : at = Len(Recorded(n - 1)) /\ p = recorded[n]
  OBVIOUS
<1>3. at \in Nat /\ p \in PacketType /\ Len(Recorded(n)) = at + 2 * FieldBytes + p.size
  BY <1>2, PacketAt
<1>4. Len(Recorded(n)) <= Len(Recorded(m)) /\ Len(Recorded(m)) \in Nat /\ Len(Recorded(n)) \in Nat
  BY <1>1, RecordedPrefix, RecordedStep
<1>5. p.size \in Nat /\ p.size > 0 /\ FieldBytes \in Nat
  BY <1>3, BytesProps, SizesType
<1>6. PlaceOf(n) = at + 2 * FieldBytes
  BY <1>2 DEF PlaceOf
<1> QED
  BY <1>3, <1>4, <1>5, <1>6

------------------------------------------------------------------------------
(***************************************************************************)
(* Reading.                                                                *)
(***************************************************************************)

\* What the protocol gets from a reader that waits for packet n, and where
\* the reader is after it.
LEMMA PacketIs ==
  ASSUME PacketsType, NEW n, NEW r \in ReaderType, r.file = Recorded(Len(recorded)),
         WaitsFor(n, r.pos, r.m_NextPacketSize, r.m_NextPacketTime)
  PROVE  /\ n \in 1 .. Len(recorded)
         /\ Packet(r) = Datas[n] /\ Packet(r) \in Seq(Byte)
         /\ r.pos + r.m_NextPacketSize = Len(Recorded(n))
         /\ r.m_NextPacketTime = recorded[n].time /\ r.m_NextPacketTime \in 0 .. MaxTime
<1>1. n \in 1 .. Len(recorded)
  BY DEF WaitsFor
<1>2. PICK file, at, p, d, f : /\ file = Recorded(Len(recorded)) /\ at = Len(Recorded(n - 1)) /\ p = recorded[n]
                               /\ d = 2 * FieldBytes /\ f = Field("data", p.id, p.size)
  OBVIOUS
<1>3. /\ p \in PacketType /\ file \in Seq(Byte) /\ at \in Nat
      /\ Len(Recorded(n)) = at + d + p.size /\ Len(Recorded(n)) <= Len(file)
      /\ \A i \in 1 .. p.size : file[at + d + i] = f[i]
  BY <1>1, <1>2, PacketAt
<1>4. p.size \in Nat /\ p.id \in Nat /\ p.time \in 0 .. MaxTime /\ d \in Nat
  BY <1>2, <1>3, BytesProps, SizesType
<1>5. FieldOf(f, "data", p.id, p.size)
  BY <1>2, <1>4, FieldProps
<1>6. r.pos = at + d /\ r.m_NextPacketSize = p.size /\ r.m_NextPacketTime = p.time
  BY <1>2 DEF WaitsFor, PlaceOf
<1>7. SubSeq(file, at + d + 1, at + d + p.size) = f
  <2>1. PICK a, size : a = at + d /\ size = p.size
    OBVIOUS
  <2>2. a \in Nat /\ size \in Nat /\ a + size <= Len(file) /\ \A i \in 1 .. size : file[a + i] = f[i]
    BY <1>3, <1>4, <2>1
  <2>3. f \in Seq(Byte) /\ Len(f) = size
    BY <1>5, <2>1 DEF FieldOf
  <2>4. PICK s : s = SubSeq(file, a + 1, a + size)
    OBVIOUS
  <2>5. s \in Seq(Byte) /\ Len(s) = size /\ \A i \in 1 .. size : s[i] = file[a + i]
    <3>1. PICK b, c : b = a + 1 /\ c = a + size
      OBVIOUS
    <3>2. /\ b \in 1 .. Len(file) + 1 /\ c \in b - 1 .. Len(file) /\ c - b + 1 = size
          /\ \A i \in 1 .. size : b + i - 1 = a + i
      BY <1>3, <2>2, <3>1
    <3>3. /\ SubSeq(file, b, c) \in Seq(Byte) /\ Len(SubSeq(file, b, c)) = c - b + 1
          /\ \A i \in 1 .. c - b + 1 : SubSeq(file, b, c)[i] = file[b + i - 1]
      BY <1>3, <3>2, SubSeqProperties
    <3> QED
      BY <2>4, <3>1, <3>2, <3>3
  <2>6. s = f
    BY <2>2, <2>3, <2>5, SeqEqual
  <2> QED
    BY <2>1, <2>4, <2>6
<1>8. Datas[n] = f
  BY <1>1, <1>2 DEF Datas, PacketsType
<1>9. f \in Seq(Byte)
  BY <1>5 DEF FieldOf
<1> QED
  BY <1>1, <1>2, <1>3, <1>4, <1>6, <1>7, <1>8, <1>9 DEF Packet

\* Behind k packets: with the header of the next, or with none left.
Reads(r, k) ==
  /\ r \in ReaderType
  /\ r.file = Recorded(Len(recorded)) /\ r.m_RemainingSize = Len(r.file)
  /\ ~r.astray =>
       \/ k = Len(recorded) /\ AtEnd(r.pos, r.m_NextPacketSize, r.m_NextPacketTime)
       \/ WaitsFor(k + 1, r.pos, r.m_NextPacketSize, r.m_NextPacketTime)

LEMMA ReadAt ==
  ASSUME PacketsType, NEW k \in 0 .. Len(recorded),
         NEW r \in ReaderType, r.file = Recorded(Len(recorded)), r.m_RemainingSize = Len(r.file),
         r.pos = Len(Recorded(k)), ~r.astray, NEW s \in ReadNextPacket(r)
  PROVE  Reads(s, k)
<1>1. PICK N, file, d : N = Len(recorded) /\ file = Recorded(N) /\ d = 2 * FieldBytes
  OBVIOUS
<1>2. /\ N \in Nat /\ N \in 0 .. N /\ k \in Nat
      /\ FieldBytes \in Nat /\ FieldBytes > 0 /\ d \in Nat /\ FieldBytes + 1 <= d
      /\ INT_MAX \in 0 .. INT_MAX /\ MaxTime \in Nat /\ INT_MAX = MaxTime + 1
  BY <1>1, SizesType DEF PacketsType, INT_MAX
<1>3. file \in Seq(Byte) /\ Len(file) \in Nat /\ r.pos \in Nat
  BY <1>1, <1>2, RecordedStep
<1>4. k = N => r.pos = Len(file)
  BY <1>1
<1>5. ASSUME k # N
      PROVE  \E p : /\ p = recorded[k + 1] /\ p \in PacketType /\ p.size \in Nat /\ p.time \in 0 .. MaxTime
                    /\ k + 1 \in 1 .. N
                    /\ r.pos + d + p.size <= Len(file)
                    /\ HasHeader(r)
                    /\ file[r.pos + FieldBytes + 1].value = p.size
                    /\ file[r.pos + 1].value = p.time
                    /\ PlaceOf(k + 1) = r.pos + d
  <2>1. PICK n, at, p : n = k + 1 /\ at = Len(Recorded(n - 1)) /\ p = recorded[n]
    OBVIOUS
  <2>2. n \in 1 .. N /\ n - 1 = k /\ at = r.pos
    BY <1>1, <1>2, <1>5, <2>1
  <2>3. /\ p \in PacketType /\ at \in Nat
        /\ Len(Recorded(n)) = at + d + p.size
        /\ Len(Recorded(n)) <= Len(file)
        /\ \A i \in 1 .. FieldBytes :
              /\ file[at + i] = [kind |-> "time", i |-> i, value |-> p.time]
              /\ file[at + FieldBytes + i] = [kind |-> "size", i |-> i, value |-> p.size]
    BY <1>1, <2>1, <2>2, PacketAt, SMTT(30)
  <2>4. p.size \in Nat /\ p.time \in 0 .. MaxTime
    BY <2>3, BytesProps
  <2>5. at + d + p.size <= Len(file) /\ at + d <= Len(file)
    BY <1>2, <1>3, <2>3, <2>4, SMTT(30)
  <2>6. /\ Is(file, at, "time", FieldBytes)
        /\ Is(file, at + FieldBytes, "size", FieldBytes)
    <3>1. ASSUME NEW i \in 1 .. FieldBytes
          PROVE  /\ file[at + i].kind = "time" /\ file[at + i].i = i
                 /\ file[at + FieldBytes + i].kind = "size" /\ file[at + FieldBytes + i].i = i
      <4>1. PICK x, y : x = file[at + i] /\ y = file[at + FieldBytes + i]
        OBVIOUS
      <4>2. /\ x = [kind |-> "time", i |-> i, value |-> p.time]
            /\ y = [kind |-> "size", i |-> i, value |-> p.size]
        BY <2>3, <4>1, Zenon
      <4> QED
        BY <4>1, <4>2
    <3> QED
      BY <3>1, Zenon DEF Is
  <2>7. HasHeader(r)
    BY <1>1, <2>2, <2>5, <2>6 DEF HasHeader
  <2>8. file[at + FieldBytes + 1].value = p.size /\ file[at + 1].value = p.time
    <3>1. 1 \in 1 .. FieldBytes
      BY <1>2
    <3>2. /\ file[at + 1] = [kind |-> "time", i |-> 1, value |-> p.time]
          /\ file[at + FieldBytes + 1] = [kind |-> "size", i |-> 1, value |-> p.size]
      BY <2>3, <3>1, Zenon
    <3> QED
      BY <3>2
  <2>9. PlaceOf(n) = at + d
    BY <1>1, <2>1 DEF PlaceOf
  <2> QED
    BY <2>1, <2>2, <2>3, <2>4, <2>5, <2>7, <2>8, <2>9
<1>6. CASE k = N
  <2>1. ~HasHeader(r)
    BY <1>1, <1>2, <1>3, <1>4, <1>6 DEF HasHeader
  <2>2. s \in {Finished(r), Finished([r EXCEPT !.pos = @ + d]), [r EXCEPT !.astray = TRUE]}
    BY <1>1, <2>1 DEF ReadNextPacket
  <2>3. PICK q : q \in {r.pos, r.pos + d} /\ (s = [r EXCEPT !.astray = TRUE] \/ s = Finished([r EXCEPT !.pos = q]))
    <3>1. Finished(r) = Finished([r EXCEPT !.pos = r.pos])
      BY DEF ReaderType
    <3> QED
      BY <2>2, <3>1 DEF ReaderType
  <2>4. q \in Nat
    BY <1>2, <1>3, <2>3
  <2>5. CASE s = [r EXCEPT !.astray = TRUE]
    <3>1. /\ s \in ReaderType /\ s.file = r.file /\ s.m_RemainingSize = r.m_RemainingSize
          /\ s.astray
      BY <2>5 DEF ReaderType
    <3> QED
      BY <3>1 DEF Reads
  <2>6. CASE s = Finished([r EXCEPT !.pos = q])
    <3>1. /\ s \in ReaderType /\ s.file = r.file /\ s.m_RemainingSize = r.m_RemainingSize
          /\ s.pos = q /\ s.m_NextPacketSize = 0 /\ s.m_NextPacketTime = INT_MAX
      BY <1>2, <2>4, <2>6 DEF ReaderType, Finished
    <3>2. AtEnd(s.pos, s.m_NextPacketSize, s.m_NextPacketTime)
      BY <1>1, <1>4, <1>6, <2>3, <3>1 DEF AtEnd
    <3> QED
      BY <1>1, <1>6, <3>1, <3>2 DEF Reads
  <2> QED
    BY <2>3, <2>5, <2>6
<1>7. CASE k # N
  <2>1. PICK p : /\ p = recorded[k + 1] /\ p \in PacketType /\ p.size \in Nat /\ p.time \in 0 .. MaxTime
                 /\ k + 1 \in 1 .. N
                 /\ r.pos + d + p.size <= Len(file)
                 /\ HasHeader(r)
                 /\ file[r.pos + FieldBytes + 1].value = p.size
                 /\ file[r.pos + 1].value = p.time
                 /\ PlaceOf(k + 1) = r.pos + d
    BY <1>5, <1>7
  <2>2. s = WithHeader(r)
    <3>1. ~(r.m_RemainingSize < d)
      <4>1. Len(file) \in Nat /\ d \in Nat /\ d + p.size <= Len(file) /\ p.size \in Nat
        BY <1>2, <1>3, <2>1, SMTT(30)
      <4>2. r.m_RemainingSize = Len(file)
        BY <1>1
      <4> QED
        BY <1>2, <4>1, <4>2
    <3> QED
      BY <1>1, <2>1, <3>1 DEF ReadNextPacket
  <2>3. ~(r.m_RemainingSize < p.size)
    BY <1>1, <1>2, <1>3, <2>1
  <2>4. s = [r EXCEPT !.pos = r.pos + d, !.m_NextPacketSize = p.size, !.m_NextPacketTime = p.time]
    BY <1>1, <2>1, <2>2, <2>3 DEF WithHeader, ReaderType
  <2>5. r.pos + d \in Nat /\ p.time \in 0 .. INT_MAX
    <3>1. p.time \in 0 .. INT_MAX
      <4>1. PICK x, y, z : x = p.time /\ y = MaxTime /\ z = INT_MAX
        OBVIOUS
      <4>2. x \in 0 .. y /\ y \in Nat /\ z = y + 1
        BY <1>2, <2>1, <4>1
      <4>3. x \in 0 .. z
        BY <4>2
      <4> QED
        BY <4>1, <4>3
    <3> QED
      BY <1>2, <1>3, <3>1
  <2>6. /\ s \in ReaderType /\ s.file = r.file /\ s.m_RemainingSize = r.m_RemainingSize
        /\ s.pos = r.pos + d /\ s.m_NextPacketSize = p.size /\ s.m_NextPacketTime = p.time
    BY <2>1, <2>4, <2>5 DEF ReaderType
  <2>7. WaitsFor(k + 1, s.pos, s.m_NextPacketSize, s.m_NextPacketTime)
    BY <1>1, <2>1, <2>6 DEF WaitsFor
  <2> QED
    BY <2>6, <2>7 DEF Reads
<1> QED
  BY <1>6, <1>7

\* What Update has at any round of its loop.
AsRecorded(seq) == Len(seq) <= Len(recorded) /\ \A i \in 1 .. Len(seq) : seq[i] = Datas[i]

Positions ==
  {at \in [reader : ReaderType, played : Seq(Seq(Byte)), threw : BOOLEAN] :
     AsRecorded(at.played) /\ Reads(at.reader, Len(at.played))}

LEMMA PlayedOneStays ==
  ASSUME PacketsType, NEW at \in Positions, NEW x \in PlayedOne(at)
  PROVE  x \in Positions
<1>1. PICK r, seq, thrown : at.reader = r /\ at.played = seq /\ at.threw = thrown
  OBVIOUS
<1>2. /\ r \in ReaderType /\ seq \in Seq(Seq(Byte)) /\ AsRecorded(seq) /\ Reads(r, Len(seq))
      /\ Len(seq) \in Nat /\ Len(recorded) \in Nat /\ thrown \in BOOLEAN
  BY <1>1 DEF Positions, PacketsType
<1>3. CASE ~Due(r)
  BY <1>1, <1>3 DEF PlayedOne
<1>4. CASE Due(r)
  <2>1. ~r.astray /\ r.m_NextPacketTime <= r.time /\ r.time \in 0 .. MaxTime /\ MaxTime \in Nat
    BY <1>2, <1>4, SizesType DEF Due, ReaderType
  <2>2. ~AtEnd(r.pos, r.m_NextPacketSize, r.m_NextPacketTime)
    BY <2>1 DEF AtEnd, INT_MAX
  <2>3. PICK n : n = Len(seq) + 1
    OBVIOUS
  <2>4. r.file = Recorded(Len(recorded)) /\ r.m_RemainingSize = Len(r.file)
    BY <1>2 DEF Reads
  <2>5. WaitsFor(n, r.pos, r.m_NextPacketSize, r.m_NextPacketTime)
    BY <1>2, <2>1, <2>2, <2>3 DEF Reads
  <2>6. /\ n \in 1 .. Len(recorded)
        /\ Packet(r) = Datas[n] /\ Packet(r) \in Seq(Byte)
        /\ r.pos + r.m_NextPacketSize = Len(Recorded(n))
    BY <1>2, <2>4, <2>5, PacketIs
  <2>7. PICK q : q = [r EXCEPT !.pos = r.pos + r.m_NextPacketSize]
    OBVIOUS
  <2>8. r.pos + r.m_NextPacketSize \in Nat
    BY <1>2 DEF ReaderType
  <2>9. /\ q \in ReaderType /\ q.file = r.file /\ q.m_RemainingSize = r.m_RemainingSize
        /\ q.pos = Len(Recorded(n)) /\ ~q.astray
    BY <1>2, <2>1, <2>6, <2>7, <2>8 DEF ReaderType
  <2>10. PICK s, t :
           /\ t \in BOOLEAN
           /\ x = [reader |-> s, played |-> Append(seq, Packet(r)), threw |-> t]
           /\ s \in ReadNextPacket(q) \/ s = [q EXCEPT !.astray = TRUE]
    <3>1. \/ \E s \in ReadNextPacket(q) :
               x = [reader |-> s, played |-> Append(seq, Packet(r)), threw |-> thrown]
          \/ x = [reader |-> [q EXCEPT !.astray = TRUE], played |-> Append(seq, Packet(r)), threw |-> TRUE]
      BY <1>1, <1>4, <2>7 DEF PlayedOne
    <3> QED
      BY <1>2, <3>1
  <2>11. Reads(s, n)
    <3>4. CASE s = [q EXCEPT !.astray = TRUE]
      <4>1. /\ s \in ReaderType /\ s.file = q.file /\ s.m_RemainingSize = q.m_RemainingSize /\ s.astray
        BY <2>9, <3>4 DEF ReaderType
      <4> QED
        BY <2>4, <2>9, <4>1 DEF Reads
    <3>1. n \in 0 .. Len(recorded)
      BY <2>6
    <3>2. q.file = Recorded(Len(recorded)) /\ q.m_RemainingSize = Len(q.file)
      BY <2>4, <2>9
    <3>3. CASE s \in ReadNextPacket(q)
      BY <2>9, <3>1, <3>2, <3>3, ReadAt
    <3> QED
      BY <2>10, <3>3, <3>4
  <2>12. PICK more : more = Append(seq, Packet(r))
    OBVIOUS
  <2>13. /\ more \in Seq(Seq(Byte)) /\ Len(more) = n /\ more[n] = Datas[n]
         /\ \A i \in 1 .. Len(seq) : more[i] = seq[i]
    BY <1>2, <2>3, <2>6, <2>12
  <2>14. AsRecorded(more)
    <3>1. ASSUME NEW i \in 1 .. Len(more)
          PROVE  more[i] = Datas[i]
      <4>1. CASE i = n
        BY <2>13, <4>1
      <4>2. CASE i # n
        <5>1. i \in 1 .. Len(seq)
          BY <1>2, <2>3, <2>13, <4>2
        <5> QED
          BY <1>2, <2>13, <5>1 DEF AsRecorded
      <4> QED
        BY <4>1, <4>2
    <3>2. Len(more) <= Len(recorded)
      BY <1>2, <2>6, <2>13
    <3> QED
      BY <3>1, <3>2 DEF AsRecorded
  <2>15. s \in ReaderType
    BY <2>11 DEF Reads
  <2> QED
    BY <2>10, <2>11, <2>12, <2>13, <2>14, <2>15 DEF Positions
<1> QED
  BY <1>3, <1>4

LEMMA PlayedStays ==
  ASSUME PacketsType, NEW at \in Positions, NEW x \in Played(at)
  PROVE  x \in Positions
<1> DEFINE n == Len(at.reader.file)
           Moved(S) == UNION {PlayedOne(y) : y \in S}
           step == [i \in 1 .. n |-> [S \in SUBSET Positions |-> Moved(S)]]
<1>1. n \in Nat
  BY DEF Positions, ReaderType
<1>2. ASSUME NEW S \in SUBSET Positions
      PROVE  Moved(S) \in SUBSET Positions
  BY PlayedOneStays
<1> HIDE DEF Moved
<1>3. PICK f \in [0 .. n -> SUBSET Positions] :
        f = [i \in 0 .. n |-> IF i = 0 THEN {at} ELSE step[i][f[i - 1]]]
  <2>1. PICK W, s, b, m : W = SUBSET Positions /\ s = step /\ b = {at} /\ m = n
    OBVIOUS
  <2>2. b \in W /\ s \in Steps(W, m) /\ m \in Nat
    BY <1>1, <1>2, <2>1 DEF Steps
  <2>3. PICK f : LoopOf(f, W, b, m, s)
    BY <2>2, LoopDefined
  <2> HIDE DEF step, n
  <2> QED
    BY <2>1, <2>3 DEF LoopOf
<1>4. ASSUME NEW i \in 0 .. n, i # 0
      PROVE  step[i][f[i - 1]] = Moved(f[i - 1])
  <2>1. i - 1 \in 0 .. n /\ i \in 1 .. n
    BY <1>1, <1>4
  <2>2. f[i - 1] \in SUBSET Positions
    BY <1>3, <2>1
  <2> QED
    BY <2>1, <2>2
<1> HIDE DEF step
<1>5. f = [i \in 0 .. n |-> IF i = 0 THEN {at} ELSE Moved(f[i - 1])]
  BY <1>3, <1>4
<1>6. f = [i \in 0 .. n |-> IF i = 0 THEN {at} ELSE UNION {PlayedOne(y) : y \in f[i - 1]}]
  BY <1>5 DEF Moved
<1>7. \E g : /\ g = [i \in 0 .. n |-> IF i = 0 THEN {at} ELSE UNION {PlayedOne(y) : y \in g[i - 1]}]
             /\ Played(at) = {y \in g[n] : ~Due(y.reader)}
  BY <1>6 DEF Played
<1>8. PICK g : /\ g = [i \in 0 .. n |-> IF i = 0 THEN {at} ELSE UNION {PlayedOne(y) : y \in g[i - 1]}]
               /\ Played(at) = {y \in g[n] : ~Due(y.reader)}
  BY <1>7
<1> DEFINE T == {i \in 0 .. n : g[i] \subseteq Positions}
<1>9. 0 \in T
  <2>1. 0 \in 0 .. n
    BY <1>1
  <2>2. g[0] = {at}
    BY <1>8, <2>1
  <2> QED
    BY <2>1, <2>2
<1>10. ASSUME NEW i \in 0 .. n - 1, i \in T
       PROVE  i + 1 \in T
  <2>1. PICK j : j = i + 1 /\ j \in 0 .. n /\ j # 0 /\ j - 1 = i
    BY <1>1
  <2>2. g[j] = UNION {PlayedOne(y) : y \in g[i]}
    BY <1>8, <2>1
  <2>3. g[j] \subseteq Positions
    BY <1>10, <2>2, PlayedOneStays
  <2>4. j \in T
    BY <2>1, <2>3
  <2> QED
    BY <2>1, <2>4
<1>11. 0 .. n \subseteq T
  <2> HIDE DEF T, n
  <2> QED
    BY <1>1, <1>9, <1>10, UpTo
<1>12. n \in 0 .. n
  BY <1>1
<1> QED
  BY <1>8, <1>11, <1>12

------------------------------------------------------------------------------
(***************************************************************************)
(* The invariant.                                                          *)
(***************************************************************************)

\* The invariant of a state with a reader.
LEMMA ReaderReads ==
  ASSUME TypeOK, ReplayInvariant
  PROVE  /\ PacketsType /\ Len(recorded) \in Nat
         /\ played \in Seq(Seq(Byte)) /\ Len(played) \in 0 .. Len(recorded) /\ AsRecorded(played)
         /\ Opened => reader \in ReaderType /\ Reads(reader, Len(played))
<1>1. PacketsType /\ Len(recorded) \in Nat
  BY DEF TypeOK, PacketsType
<1>2. /\ played \in Seq(Seq(Byte)) /\ Len(played) \in Nat
      /\ Len(played) <= Len(recorded) /\ AsRecorded(played)
  BY DEF TypeOK, ReplayInvariant, PlayedInv, AsRecorded
<1>3. ASSUME Opened
      PROVE  reader \in ReaderType /\ Reads(reader, Len(played))
  <2>1. reader \in ReaderType
    BY <1>3 DEF TypeOK, Opened
  <2>2. ~reader.astray => Playing
    BY <1>3 DEF Playing
  <2> QED
    BY <1>3, <2>1, <2>2 DEF ReplayInvariant, ReaderInv, Reads
<1> QED
  BY <1>1, <1>2, <1>3

\* Places and headers depend on the recording only.
LEMMA SamePlaces ==
  ASSUME recorded' = recorded
  PROVE  /\ Datas' = Datas
         /\ \A n : Recorded(n)' = Recorded(n)
         /\ \A n, place, size, time : WaitsFor(n, place, size, time)' <=> WaitsFor(n, place, size, time)
         /\ \A place, size, time : AtEnd(place, size, time)' <=> AtEnd(place, size, time)
<1>1. Datas' = Datas
  BY DEF Datas
<1>2. \A n : Recorded(n)' = Recorded(n)
  BY DEF Recorded
<1>3. \A n : PlaceOf(n)' = PlaceOf(n)
  BY DEF PlaceOf, Recorded
<1>4. ASSUME NEW n, NEW place, NEW size, NEW time
      PROVE  WaitsFor(n, place, size, time)' <=> WaitsFor(n, place, size, time)
  BY <1>3 DEF WaitsFor
<1>5. ASSUME NEW place, NEW size, NEW time
      PROVE  AtEnd(place, size, time)' <=> AtEnd(place, size, time)
  BY <1>2 DEF AtEnd, INT_MAX
<1> QED
  BY <1>1, <1>2, <1>4, <1>5

LEMMA SameRecording ==
  ASSUME recorded' = recorded, blocks' = blocks, RecordingInv
  PROVE  RecordingInv'
<1>1. \A n : Recorded(n)' = Recorded(n)
  BY SamePlaces
<1> QED
  BY <1>1 DEF RecordingInv, BlocksFull, Recorded

LEMMA SameCursor ==
  ASSUME recorded' = recorded, cursor' = cursor, CursorInv
  PROVE  CursorInv'
BY SamePlaces DEF CursorInv

\* A step of the reader.
LEMMA ReaderStep ==
  ASSUME recorded' = recorded, blocks' = blocks, RecordingInv,
         NEW r, r = reader', NEW seq, seq = played',
         r # None, AsRecorded(seq), Reads(r, Len(seq)), CursorInv'
  PROVE  ReplayInvariant'
<1>1. RecordingInv'
  BY SameRecording
<1>2. PlayedInv'
  BY SamePlaces DEF PlayedInv, AsRecorded
<1>3. ReaderInv'
  BY SamePlaces DEF ReaderInv, Reads, Opened, Playing
<1> QED
  BY <1>1, <1>2, <1>3 DEF ReplayInvariant

\* The packets of a longer recording.
LEMMA RecordedAppend ==
  ASSUME PacketsType, NEW p \in PacketType, recorded' = Append(recorded, p)
  PROVE  /\ recorded' \in Seq(PacketType)
         /\ Recorded(Len(recorded))' = Recorded(Len(recorded)) \o Bytes(p)
<1>1. PICK n, m, rec : n = Len(recorded) /\ m = n + 1 /\ rec = recorded'
  OBVIOUS
<1>2. /\ n \in Nat /\ m \in Nat /\ Len(rec) = m /\ rec \in Seq(PacketType) /\ rec[m] = p
      /\ \A i \in 1 .. n : rec[i] = recorded[i] /\ recorded[i] \in PacketType
  BY <1>1 DEF PacketsType
<1>3. PICK ss, tt, b : /\ ss = [i \in 1 .. n |-> Bytes(recorded[i])]
                       /\ tt = [i \in 1 .. m |-> Bytes(rec[i])]
                       /\ b = Bytes(p)
  OBVIOUS
<1>4. b \in Seq(Byte) /\ \A i \in 1 .. n : ss[i] \in Seq(Byte)
  BY <1>2, <1>3, BytesProps DEF BytesOf
<1>5. ss \in Seq(Seq(Byte)) /\ Len(ss) = n
  <2>1. ss \in [1 .. n -> Seq(Byte)]
    BY <1>3, <1>4
  <2> QED
    BY <1>2, <2>1
<1>6. tt = Append(ss, b)
  <2>1. PICK uu : uu = Append(ss, b)
    OBVIOUS
  <2>2. uu \in Seq(Seq(Byte)) /\ Len(uu) = m /\ uu[m] = b /\ \A i \in 1 .. n : uu[i] = ss[i]
    BY <1>1, <1>4, <1>5, <2>1
  <2>3. ASSUME NEW i \in 1 .. m
        PROVE  tt[i] = uu[i]
    <3>1. CASE i = m
      BY <1>2, <1>3, <2>2, <3>1
    <3>2. CASE i # m
      <4>1. i \in 1 .. n
        BY <1>1, <1>2, <3>2
      <4> QED
        BY <1>2, <1>3, <2>2, <4>1
    <3> QED
      BY <3>1, <3>2
  <2>4. uu = [i \in 1 .. m |-> uu[i]]
    BY <2>2
  <2>5. tt = [i \in 1 .. m |-> tt[i]]
    BY <1>3
  <2> QED
    BY <2>1, <2>3, <2>4, <2>5
<1>7. Flat(tt) = Flat(ss) \o b
  BY <1>4, <1>5, <1>6, FlattenAppend
<1>8. Recorded(n) = Flat(ss)
  BY <1>3 DEF Recorded, Flat
<1>9. Recorded(m)' = Flat(tt)
  BY <1>1, <1>3 DEF Recorded, Flat
<1>10. Recorded(Len(recorded))' = Recorded(m)'
  BY <1>1, <1>2 DEF Recorded
<1> QED
  BY <1>1, <1>2, <1>3, <1>7, <1>8, <1>9, <1>10

LEMMA SendWriterStep ==
  ASSUME TypeOK, ReplayInvariant, SendWriter
  PROVE  TypeOK' /\ ReplayInvariant'
<1>1. PICK size \in Sizes :
        LET p == [time |-> elapsed, size |-> size, id |-> Len(recorded) + 1]
        IN  /\ blocks' = WriteData(WriteData(WriteData(blocks,
                                                       Field("time", p.time, FieldBytes)),
                                             Field("size", p.size, FieldBytes)),
                                   Field("data", p.id, p.size))
            /\ recorded' = Append(recorded, p)
  BY DEF SendWriter
<1>2. PICK p : p = [time |-> elapsed, size |-> size, id |-> Len(recorded) + 1]
  OBVIOUS
<1>3. PICK t, s, d : /\ t = Field("time", p.time, FieldBytes)
                     /\ s = Field("size", p.size, FieldBytes)
                     /\ d = Field("data", p.id, p.size)
  OBVIOUS
<1>4. blocks' = WriteData(WriteData(WriteData(blocks, t), s), d) /\ recorded' = Append(recorded, p)
  BY <1>1, <1>2, <1>3
<1>5. /\ PacketsType /\ Len(recorded) \in Nat
      /\ p \in PacketType /\ elapsed \in 0 .. MaxTime
  BY <1>2, ReaderReads DEF TypeOK, PacketType
<1>6. /\ t \in Seq(Byte) /\ s \in Seq(Byte) /\ d \in Seq(Byte)
  <2>1. p.time \in Nat /\ p.size \in Nat /\ p.id \in Nat /\ FieldBytes \in Nat
    BY <1>5, BytesProps, SizesType
  <2> QED
    BY <1>3, <2>1, FieldProps DEF FieldOf
<1>7. Filled(blocks) /\ Flat(blocks) = Recorded(Len(recorded))
  BY DEF Filled, Flat, TypeOK, ReplayInvariant, RecordingInv, BlocksFull
<1>8. PICK b1, b2, b3 : b1 = WriteData(blocks, t) /\ b2 = WriteData(b1, s) /\ b3 = WriteData(b2, d)
  OBVIOUS
<1>9. Filled(b1) /\ Flat(b1) = Flat(blocks) \o t
  BY <1>6, <1>7, <1>8, WriteDataProps
<1>10. Filled(b2) /\ Flat(b2) = Flat(b1) \o s
  BY <1>6, <1>8, <1>9, WriteDataProps
<1>11. Filled(b3) /\ Flat(b3) = Flat(b2) \o d
  BY <1>6, <1>8, <1>10, WriteDataProps
<1>12. Flat(b3) = Recorded(Len(recorded)) \o Bytes(p)
  <2>1. PICK x, y : x = Flat(blocks) /\ y = t \o s
    OBVIOUS
  <2>2. x \in Seq(Byte)
    BY <1>7, <2>1, FlattenType DEF Filled
  <2>3. (x \o t) \o s = x \o y
    <3>1. (x \o t) \o s = x \o (t \o s)
      BY <1>6, <2>2, ConcatAssociative
    <3> QED
      BY <2>1, <3>1
  <2>4. (x \o y) \o d = x \o (y \o d)
    <3>1. y \in Seq(Byte)
      BY <1>6, <2>1, ConcatProperties
    <3>2. x \in Seq(Byte) /\ d \in Seq(Byte)
      BY <1>6, <2>2
    <3> QED
      BY <3>1, <3>2, ConcatAssociative, SMTT(30)
  <2>5. y \o d = Bytes(p)
    BY <1>3, <2>1 DEF Bytes
  <2> QED
    BY <1>7, <1>9, <1>10, <1>11, <2>1, <2>3, <2>4, <2>5
<1>13. blocks' = b3
  BY <1>4, <1>8
<1>14. /\ recorded' \in Seq(PacketType)
       /\ Recorded(Len(recorded))' = Recorded(Len(recorded)) \o Bytes(p)
  BY <1>4, <1>5, RecordedAppend
<1>15. /\ UNCHANGED <<elapsed, reader, cursor, played, loads, threw>>
       /\ reader = None
  BY DEF SendWriter, Recording
<1>16. cursor = None /\ played = << >>
  BY <1>15 DEF ReplayInvariant, ReaderInv, Opened
<1>17. TypeOK'
  BY <1>11, <1>13, <1>14, <1>15 DEF TypeOK, Filled
<1>18. RecordingInv'
  <2>1. Flat(blocks') = Recorded(Len(recorded))'
    BY <1>12, <1>13, <1>14
  <2>2. Seqs!FlattenSeq(blocks)' = Recorded(Len(recorded))'
    BY <2>1 DEF Flat
  <2>3. BlocksFull'
    BY <1>11, <1>13 DEF BlocksFull, Filled
  <2> QED
    BY <2>2, <2>3 DEF RecordingInv
<1>19. PlayedInv'
  <2>1. played' = << >> /\ Len(played') = 0 /\ Len(recorded') \in Nat
    BY <1>14, <1>15, <1>16
  <2> QED
    BY <2>1 DEF PlayedInv
<1>20. ReaderInv' /\ CursorInv'
  BY <1>15, <1>16 DEF ReaderInv, CursorInv, Opened, Playing
<1> QED
  BY <1>17, <1>18, <1>19, <1>20 DEF ReplayInvariant

\* An empty recording.
LEMMA EmptyRecording ==
  ASSUME blocks = << << >> >>, recorded = << >>
  PROVE  blocks \in Seq(Seq(Byte)) /\ RecordingInv
<1>1. PICK e : e = << >>
  OBVIOUS
<1>2. e \in Seq(Byte) /\ Len(e) = 0 /\ blocks = <<e>> /\ e \in Seq(Seq(Byte))
  BY <1>1
<1>3. blocks \in Seq(Seq(Byte)) /\ Len(blocks) = 1 /\ blocks[1] = e /\ blocks # << >>
  BY <1>2
<1>4. BlocksFull
  BY <1>2, <1>3, SizesType DEF BlocksFull
<1>5. blocks = Append(e, e)
  BY <1>1
<1>6. Flat(e) = e
  BY <1>1, <1>2, FlattenType
<1>7. Flat(blocks) = e \o e
  BY <1>2, <1>5, <1>6, FlattenAppend
<1>8. e \o e = e
  BY <1>1, <1>2, ConcatEmptySeq
<1>9. PacketsType /\ Len(recorded) = 0 /\ Recorded(0) = << >>
  <2>1. PacketsType /\ 0 \in 0 .. Len(recorded) /\ Len(recorded) = 0
    BY DEF PacketsType
  <2> QED
    BY <2>1, RecordedStep
<1> QED
  BY <1>1, <1>3, <1>4, <1>7, <1>8, <1>9 DEF RecordingInv, Flat

LEMMA ReplayInit == Init => TypeOK /\ ReplayInvariant
<1> SUFFICES ASSUME Init PROVE TypeOK /\ ReplayInvariant
  OBVIOUS
<1>1. blocks \in Seq(Seq(Byte)) /\ RecordingInv
  BY EmptyRecording DEF Init
<1>2. recorded = << >> /\ played = << >> /\ Len(played) = 0 /\ Len(recorded) = 0
  BY DEF Init
<1>3. TypeOK
  <2>1. threw \in BOOLEAN
    BY DEF Init
  <2> QED
    BY <1>1, <2>1, SizesType DEF Init, TypeOK
<1>4. PlayedInv
  BY <1>2 DEF PlayedInv
<1>5. ReaderInv /\ CursorInv
  BY DEF Init, ReaderInv, CursorInv, Opened, Playing
<1> QED
  BY <1>1, <1>3, <1>4, <1>5 DEF ReplayInvariant

LEMMA ClearStep ==
  ASSUME TypeOK, ReplayInvariant, Clear
  PROVE  TypeOK' /\ ReplayInvariant'
<1>1. /\ blocks' = << << >> >> /\ recorded' = << >>
      /\ UNCHANGED <<elapsed, reader, cursor, played, loads, threw>> /\ reader = None
  BY DEF Clear, Recording
<1>2. cursor = None /\ played = << >>
  BY <1>1 DEF ReplayInvariant, ReaderInv, Opened
<1>3. blocks' \in Seq(Seq(Byte)) /\ RecordingInv'
  <2>1. (blocks = << << >> >> /\ recorded = << >> => blocks \in Seq(Seq(Byte)) /\ RecordingInv)'
    BY EmptyRecording, PTL
  <2> QED
    BY <1>1, <2>1
<1>4. TypeOK'
  BY <1>1, <1>3 DEF TypeOK
<1>5. PlayedInv'
  <2>1. played' = << >> /\ Len(played') = 0 /\ Len(recorded') = 0
    BY <1>1, <1>2
  <2> QED
    BY <2>1 DEF PlayedInv
<1>6. ReaderInv' /\ CursorInv'
  BY <1>1, <1>2 DEF ReaderInv, CursorInv, Opened, Playing
<1> QED
  BY <1>3, <1>4, <1>5, <1>6 DEF ReplayInvariant

\* The recorder's clock plays no part.
LEMMA ClockStep ==
  ASSUME TypeOK, ReplayInvariant, elapsed' \in 0 .. MaxTime,
         UNCHANGED <<blocks, recorded, reader, cursor, played, loads, threw>>
  PROVE  TypeOK' /\ ReplayInvariant'
<1>1. TypeOK'
  BY DEF TypeOK
<1>2. RecordingInv' /\ CursorInv'
  BY SameRecording, SameCursor DEF ReplayInvariant
<1>3. PlayedInv'
  BY SamePlaces DEF ReplayInvariant, PlayedInv
<1>4. ReaderInv'
  BY SamePlaces DEF ReplayInvariant, ReaderInv, Opened, Playing
<1> QED
  BY <1>1, <1>2, <1>3, <1>4 DEF ReplayInvariant

LEMMA OpenStep ==
  ASSUME TypeOK, ReplayInvariant, Open
  PROVE  TypeOK' /\ ReplayInvariant'
<1>1. PICK r : /\ r = [file |-> SaveToFile, pos |-> 0, m_RemainingSize |-> Len(SaveToFile),
                       m_NextPacketSize |-> 0, m_NextPacketTime |-> 0, time |-> 0, astray |-> FALSE]
               /\ reader' \in ReadNextPacket(r)
  BY DEF Open
<1>2. /\ UNCHANGED <<blocks, elapsed, recorded, cursor, played, loads, threw>> /\ reader = None
  BY DEF Open, Recording
<1>3. cursor = None /\ played = << >>
  BY <1>2 DEF ReplayInvariant, ReaderInv, Opened
<1>4. PacketsType /\ Len(recorded) \in Nat /\ AsRecorded(played)
  BY ReaderReads
<1>5. Filled(blocks) /\ Flat(blocks) = Recorded(Len(recorded))
  BY DEF Filled, Flat, TypeOK, ReplayInvariant, RecordingInv, BlocksFull
<1>6. PICK file : file = SaveToFile
  OBVIOUS
<1>7. file = Recorded(Len(recorded)) /\ file \in Seq(Byte) /\ Len(file) \in Nat
  <2>1. SaveToFile = Flat(blocks)
    BY <1>5, FileIsBlocks
  <2>2. Len(recorded) \in 0 .. Len(recorded)
    BY <1>4
  <2>3. Recorded(Len(recorded)) \in Seq(Byte)
    BY <1>4, <2>2, RecordedStep
  <2> QED
    BY <1>5, <1>6, <2>1, <2>3
<1>8. /\ r \in ReaderType /\ r.file = file /\ r.m_RemainingSize = Len(file) /\ r.pos = 0 /\ ~r.astray
  <2>1. 0 \in 0 .. MaxTime /\ 0 \in 0 .. INT_MAX
    BY SizesType DEF INT_MAX
  <2> QED
    BY <1>1, <1>6, <1>7, <2>1 DEF ReaderType
<1>9. PICK s : s = reader'
  OBVIOUS
<1>10. Reads(s, 0)
  <2>1. 0 \in 0 .. Len(recorded) /\ r.pos = Len(Recorded(0))
    <3>1. 0 \in 0 .. Len(recorded)
      BY <1>4
    <3>2. Recorded(0) = << >>
      BY <1>4, <3>1, RecordedStep
    <3> QED
      BY <1>8, <3>1, <3>2
  <2>2. r.file = Recorded(Len(recorded)) /\ r.m_RemainingSize = Len(r.file)
    BY <1>7, <1>8
  <2>3. s \in ReadNextPacket(r)
    BY <1>1, <1>9
  <2> QED
    BY <1>4, <1>8, <2>1, <2>2, <2>3, ReadAt
<1>11. s \in ReaderType /\ s # None
  BY <1>10, NoneAssumption DEF Reads
<1>12. PICK seq : seq = played'
  OBVIOUS
<1>13. AsRecorded(seq) /\ Len(seq) = 0
  BY <1>2, <1>3, <1>4, <1>12
<1>14. CursorInv'
  BY <1>2, <1>3 DEF CursorInv
<1>15. recorded' = recorded /\ blocks' = blocks /\ RecordingInv
  BY <1>2 DEF ReplayInvariant
<1>16. ReplayInvariant'
  BY <1>9, <1>10, <1>11, <1>12, <1>13, <1>14, <1>15, ReaderStep
<1>17. TypeOK'
  BY <1>2, <1>9, <1>11 DEF TypeOK
<1> QED
  BY <1>16, <1>17

LEMMA UpdateStep ==
  ASSUME TypeOK, ReplayInvariant, Update
  PROVE  TypeOK' /\ ReplayInvariant'
<1>1. PICK now : now = [reader |-> reader, played |-> played, threw |-> threw]
  OBVIOUS
<1>2. PICK at \in Played(now) : reader' = at.reader /\ played' = at.played /\ threw' = at.threw
  BY <1>1 DEF Update
<1>3. UNCHANGED <<blocks, elapsed, recorded, cursor, loads>> /\ Opened
  BY DEF Update, Playing
<1>4. /\ PacketsType /\ played \in Seq(Seq(Byte)) /\ AsRecorded(played)
      /\ reader \in ReaderType /\ Reads(reader, Len(played))
  BY <1>3, ReaderReads
<1>5. now \in Positions
  <2>1. threw \in BOOLEAN
    BY DEF TypeOK
  <2> QED
    BY <1>1, <1>4, <2>1 DEF Positions
<1>6. at \in Positions
  BY <1>2, <1>4, <1>5, PlayedStays
<1>7. PICK r, seq : r = reader' /\ seq = played'
  OBVIOUS
<1>8. r \in ReaderType /\ seq \in Seq(Seq(Byte)) /\ AsRecorded(seq) /\ Reads(r, Len(seq))
  BY <1>2, <1>6, <1>7 DEF Positions
<1>9. r # None
  BY <1>8, NoneAssumption
<1>10. recorded' = recorded /\ blocks' = blocks /\ RecordingInv /\ CursorInv'
  BY <1>3, SameCursor DEF ReplayInvariant
<1>11. ReplayInvariant'
  BY <1>7, <1>8, <1>9, <1>10, ReaderStep
<1>12. TypeOK'
  <2>1. threw' \in BOOLEAN
    BY <1>2, <1>6 DEF Positions
  <2> QED
    BY <1>3, <1>7, <1>8, <2>1 DEF TypeOK
<1> QED
  BY <1>11, <1>12

\* The time of the reader plays no part in where it is.
LEMMA TimeStep ==
  ASSUME TypeOK, ReplayInvariant, Playing, NEW t \in 0 .. MaxTime,
         reader' = [reader EXCEPT !.time = t],
         UNCHANGED <<blocks, elapsed, recorded, cursor, played, loads, threw>>
  PROVE  TypeOK' /\ ReplayInvariant'
<1>1. /\ PacketsType /\ AsRecorded(played)
      /\ reader \in ReaderType /\ Reads(reader, Len(played))
  BY ReaderReads DEF Playing
<1>2. PICK r, seq : r = reader' /\ seq = played'
  OBVIOUS
<1>3. /\ r \in ReaderType /\ r.file = reader.file /\ r.m_RemainingSize = reader.m_RemainingSize
      /\ r.astray = reader.astray /\ r.pos = reader.pos
      /\ r.m_NextPacketSize = reader.m_NextPacketSize /\ r.m_NextPacketTime = reader.m_NextPacketTime
  BY <1>1, <1>2 DEF ReaderType
<1>4. Reads(r, Len(seq)) /\ AsRecorded(seq)
  BY <1>1, <1>2, <1>3 DEF Reads
<1>5. r # None
  BY <1>3, NoneAssumption
<1>6. recorded' = recorded /\ blocks' = blocks /\ RecordingInv /\ CursorInv'
  BY SameCursor DEF ReplayInvariant
<1>7. ReplayInvariant'
  BY <1>2, <1>4, <1>5, <1>6, ReaderStep
<1>8. TypeOK'
  BY <1>2, <1>3 DEF TypeOK
<1> QED
  BY <1>7, <1>8

LEMMA GetCursorStep ==
  ASSUME TypeOK, ReplayInvariant, GetCursor
  PROVE  TypeOK' /\ ReplayInvariant'
<1>1. /\ cursor' = [time |-> reader.time, size |-> reader.m_NextPacketSize,
                    next |-> reader.m_NextPacketTime, pos |-> reader.pos]
      /\ UNCHANGED <<blocks, elapsed, recorded, reader, played, loads, threw>>
      /\ Opened /\ ~reader.astray
  BY DEF GetCursor, Playing
<1>2. /\ PacketsType /\ Len(recorded) \in Nat /\ Len(played) \in Nat /\ AsRecorded(played)
      /\ reader \in ReaderType /\ Reads(reader, Len(played))
  BY <1>1, ReaderReads
<1>3. cursor' \in CursorType
  BY <1>1, <1>2 DEF ReaderType, CursorType
<1>4. TypeOK'
  BY <1>1, <1>3 DEF TypeOK
<1>5. PICK c : c = cursor'
  OBVIOUS
<1>6. c.pos = reader.pos /\ c.size = reader.m_NextPacketSize /\ c.next = reader.m_NextPacketTime
  BY <1>1, <1>5
<1>7. \/ AtEnd(c.pos, c.size, c.next)
      \/ WaitsFor(Len(played) + 1, c.pos, c.size, c.next)
  BY <1>1, <1>2, <1>6 DEF Reads
<1>8. \/ AtEnd(c.pos, c.size, c.next)
      \/ \E n \in 1 .. Len(recorded) : WaitsFor(n, c.pos, c.size, c.next)
  BY <1>7 DEF WaitsFor
<1>9. CursorInv'
  BY <1>1, <1>5, <1>8, SamePlaces DEF CursorInv
<1>10. PICK r, seq : r = reader' /\ seq = played'
  OBVIOUS
<1>11. Reads(r, Len(seq)) /\ AsRecorded(seq) /\ r # None
  BY <1>1, <1>2, <1>10 DEF Opened
<1>12. recorded' = recorded /\ blocks' = blocks /\ RecordingInv
  BY <1>1 DEF ReplayInvariant
<1>13. ReplayInvariant'
  BY <1>9, <1>10, <1>11, <1>12, ReaderStep
<1> QED
  BY <1>4, <1>13

LEMMA LoadCursorStep ==
  ASSUME TypeOK, ReplayInvariant, LoadCursor
  PROVE  TypeOK' /\ ReplayInvariant'
<1>1. /\ reader' = [reader EXCEPT !.time = cursor.time,
                                  !.m_NextPacketSize = cursor.size,
                                  !.m_NextPacketTime = cursor.next,
                                  !.astray = cursor.pos # reader.pos]
      /\ loads' = loads + 1 /\ loads < MaxLoads
      /\ UNCHANGED <<blocks, elapsed, recorded, cursor, played, threw>>
      /\ Opened /\ ~reader.astray /\ cursor # None
  BY DEF LoadCursor, Playing
<1>2. /\ PacketsType /\ Len(recorded) \in Nat /\ Len(played) \in 0 .. Len(recorded) /\ AsRecorded(played)
      /\ reader \in ReaderType /\ Reads(reader, Len(played))
  BY <1>1, ReaderReads
<1>3. cursor \in CursorType
  BY <1>1 DEF TypeOK
<1>4. PICK r, seq : r = reader' /\ seq = played
  OBVIOUS
<1>5. /\ r \in ReaderType /\ r.file = reader.file /\ r.m_RemainingSize = reader.m_RemainingSize
      /\ r.astray = (cursor.pos # reader.pos) /\ r.pos = reader.pos
      /\ r.m_NextPacketSize = cursor.size /\ r.m_NextPacketTime = cursor.next
  BY <1>1, <1>2, <1>3, <1>4 DEF ReaderType, CursorType
<1>6. PICK N, k, pos : N = Len(recorded) /\ k = Len(played) /\ pos = reader.pos
  OBVIOUS
<1>7. ASSUME cursor.pos = pos
      PROVE  \/ k = N /\ AtEnd(pos, cursor.size, cursor.next)
             \/ WaitsFor(k + 1, pos, cursor.size, cursor.next)
  <2>1. \/ AtEnd(pos, cursor.size, cursor.next)
        \/ \E n \in 1 .. N : WaitsFor(n, pos, cursor.size, cursor.next)
    BY <1>1, <1>6, <1>7 DEF ReplayInvariant, CursorInv
  <2>2. \/ k = N /\ AtEnd(pos, reader.m_NextPacketSize, reader.m_NextPacketTime)
        \/ WaitsFor(k + 1, pos, reader.m_NextPacketSize, reader.m_NextPacketTime)
    BY <1>1, <1>2, <1>6 DEF Reads
  <2>3. ASSUME NEW n \in 1 .. N, pos = PlaceOf(n), NEW a, NEW b, AtEnd(pos, a, b)
        PROVE  FALSE
    <3>1. N \in n .. N
      BY <1>2, <1>6
    <3>2. PlaceOf(n) \in Nat /\ PlaceOf(n) < Len(Recorded(N)) /\ Len(Recorded(N)) \in Nat
      BY <1>2, <1>6, <3>1, PlacesDiffer
    <3> QED
      BY <1>6, <2>3, <3>2, SizesType DEF AtEnd
  <2>4. ASSUME NEW n \in 1 .. N, NEW m \in 1 .. N, n < m, PlaceOf(n) = PlaceOf(m)
        PROVE  FALSE
    <3>1. PICK j : j = m - 1
      OBVIOUS
    <3>2. j \in n .. N
      BY <1>2, <1>6, <2>4, <3>1
    <3>3. PlaceOf(n) \in Nat /\ PlaceOf(n) < Len(Recorded(j)) /\ Len(Recorded(j)) \in Nat
      BY <1>2, <1>6, <3>2, PlacesDiffer
    <3>4. PlaceOf(m) = Len(Recorded(j)) + 2 * FieldBytes
      BY <3>1 DEF PlaceOf
    <3> QED
      BY <2>4, <3>3, <3>4, SizesType
  <2>5. CASE WaitsFor(k + 1, pos, reader.m_NextPacketSize, reader.m_NextPacketTime)
    <3>1. PICK m : m = k + 1 /\ m \in 1 .. N /\ pos = PlaceOf(m)
      BY <1>6, <2>5 DEF WaitsFor
    <3>2. ~AtEnd(pos, cursor.size, cursor.next)
      BY <2>3, <3>1
    <3>3. PICK n \in 1 .. N : WaitsFor(n, pos, cursor.size, cursor.next)
      BY <2>1, <3>2
    <3>4. pos = PlaceOf(n)
      BY <3>3 DEF WaitsFor
    <3>5. ~(n < m) /\ ~(m < n)
      BY <2>4, <3>1, <3>4
    <3>6. n = m
      BY <1>2, <1>6, <3>1, <3>5
    <3> QED
      BY <3>1, <3>3, <3>6
  <2>6. CASE k = N /\ AtEnd(pos, reader.m_NextPacketSize, reader.m_NextPacketTime)
    <3>1. ASSUME NEW n \in 1 .. N, WaitsFor(n, pos, cursor.size, cursor.next)
          PROVE  FALSE
      <4>1. pos = PlaceOf(n)
        BY <3>1 DEF WaitsFor
      <4> QED
        BY <2>3, <2>6, <4>1
    <3> QED
      BY <2>1, <2>6, <3>1
  <2> QED
    BY <2>2, <2>5, <2>6
<1>8. Reads(r, Len(seq))
  BY <1>2, <1>4, <1>5, <1>6, <1>7 DEF Reads
<1>9. r # None /\ seq = played' /\ AsRecorded(seq)
  BY <1>1, <1>2, <1>4, <1>5, NoneAssumption
<1>10. recorded' = recorded /\ blocks' = blocks /\ RecordingInv /\ CursorInv'
  BY <1>1, SameCursor DEF ReplayInvariant
<1>11. ReplayInvariant'
  BY <1>4, <1>8, <1>9, <1>10, ReaderStep
<1>12. TypeOK'
  <2>1. loads' \in 0 .. MaxLoads
    BY <1>1, SizesType DEF TypeOK
  <2> QED
    BY <1>1, <1>4, <1>5, <2>1 DEF TypeOK
<1> QED
  BY <1>11, <1>12

LEMMA ReplayStep == TypeOK /\ ReplayInvariant /\ [Next]_vars => TypeOK' /\ ReplayInvariant'
<1> SUFFICES ASSUME TypeOK, ReplayInvariant, [Next]_vars
             PROVE  TypeOK' /\ ReplayInvariant'
  OBVIOUS
<1>1. CASE SendWriter
  BY <1>1, SendWriterStep
<1>2. CASE Start
  <2>1. elapsed' \in 0 .. MaxTime /\ UNCHANGED <<blocks, recorded, reader, cursor, played, loads, threw>>
    BY <1>2, SizesType DEF Start
  <2> QED
    BY <2>1, ClockStep
<1>3. CASE Clear
  BY <1>3, ClearStep
<1>4. CASE Open
  BY <1>4, OpenStep
<1>5. CASE Update
  BY <1>5, UpdateStep
<1>6. CASE SkiptToNextPacket
  <2>1. PICK t : t = IF reader.time < reader.m_NextPacketTime THEN reader.m_NextPacketTime ELSE reader.time
    OBVIOUS
  <2>2. /\ Playing /\ reader.m_NextPacketTime # INT_MAX
        /\ UNCHANGED <<blocks, elapsed, recorded, cursor, played, loads, threw>>
    BY <1>6 DEF SkiptToNextPacket
  <2>3. reader \in ReaderType
    BY <2>2 DEF TypeOK, Playing, Opened
  <2>4. t \in 0 .. MaxTime
    BY <2>1, <2>2, <2>3, SizesType DEF ReaderType, INT_MAX
  <2>5. reader' = [reader EXCEPT !.time = t]
    BY <1>6, <2>1, <2>3 DEF SkiptToNextPacket, ReaderType
  <2> QED
    BY <2>2, <2>4, <2>5, TimeStep
<1>7. CASE GetCursor
  BY <1>7, GetCursorStep
<1>8. CASE LoadCursor
  BY <1>8, LoadCursorStep
<1>9. CASE Tick
  <2>1. CASE /\ Recording /\ elapsed < MaxTime
             /\ elapsed' = elapsed + 1
             /\ UNCHANGED <<blocks, recorded, reader, cursor, played, loads, threw>>
    <3>1. elapsed' \in 0 .. MaxTime
      BY <2>1, SizesType DEF TypeOK
    <3> QED
      BY <2>1, <3>1, ClockStep
  <2>2. CASE /\ Playing /\ reader.time < MaxTime
             /\ reader' = [reader EXCEPT !.time = @ + 1]
             /\ UNCHANGED <<blocks, elapsed, recorded, cursor, played, loads, threw>>
    <3>1. reader \in ReaderType
      BY <2>2 DEF TypeOK, Playing, Opened
    <3>2. PICK t : t = reader.time + 1
      OBVIOUS
    <3>3. t \in 0 .. MaxTime /\ reader' = [reader EXCEPT !.time = t]
      BY <2>2, <3>1, <3>2, SizesType DEF ReaderType
    <3> QED
      BY <2>2, <3>3, TimeStep
  <2> QED
    BY <1>9, <2>1, <2>2 DEF Tick
<1>10. CASE UNCHANGED vars
  <2>1. elapsed' \in 0 .. MaxTime /\ UNCHANGED <<blocks, recorded, reader, cursor, played, loads, threw>>
    BY <1>10 DEF vars, TypeOK
  <2> QED
    BY <2>1, ClockStep
<1> QED
  BY <1>1, <1>2, <1>3, <1>4, <1>5, <1>6, <1>7, <1>8, <1>9, <1>10 DEF Next

LEMMA InvariantFile == TypeOK /\ ReplayInvariant => FileExact
<1> SUFFICES ASSUME TypeOK, ReplayInvariant PROVE FileExact
  OBVIOUS
<1>1. Filled(blocks) /\ Flat(blocks) = Recorded(Len(recorded))
  BY DEF Filled, Flat, TypeOK, ReplayInvariant, RecordingInv, BlocksFull
<1>2. SaveToFile = Recorded(Len(recorded))
  BY <1>1, FileIsBlocks
<1>3. DOMAIN recorded = 1 .. Len(recorded)
  BY DEF TypeOK
<1> QED
  BY <1>2, <1>3 DEF FileExact, Recorded

LEMMA InvariantOrder == TypeOK /\ ReplayInvariant => PlayedInOrder
<1> SUFFICES ASSUME TypeOK, ReplayInvariant PROVE PlayedInOrder
  OBVIOUS
<1>1. /\ PacketsType /\ Len(recorded) \in Nat
      /\ played \in Seq(Seq(Byte)) /\ Len(played) \in 0 .. Len(recorded) /\ AsRecorded(played)
      /\ Opened => reader \in ReaderType /\ Reads(reader, Len(played))
  BY ReaderReads
<1>2. PICK d, N, k : d = Datas /\ N = Len(recorded) /\ k = Len(played)
  OBVIOUS
<1>3. N \in Nat /\ k \in 0 .. N /\ k \in Nat /\ DOMAIN recorded = 1 .. N
  BY <1>1, <1>2 DEF PacketsType
<1>4. d \in Seq(Seq(Byte)) /\ Len(d) = N
  <2>1. ASSUME NEW i \in 1 .. N
        PROVE  d[i] \in Seq(Byte)
    <3>1. recorded[i] \in PacketType
      BY <1>1, <1>2, <2>1 DEF PacketsType
    <3>2. d[i] = Field("data", recorded[i].id, recorded[i].size)
      BY <1>2, <1>3, <2>1 DEF Datas
    <3> QED
      <4>1. PICK v, n : v = recorded[i].id /\ n = recorded[i].size
        OBVIOUS
      <4>2. v \in Nat /\ n \in Nat
        BY <3>1, <4>1, BytesProps
      <4>3. "data" \in {"time", "size", "data", "junk"}
        OBVIOUS
      <4>4. FieldOf(Field("data", v, n), "data", v, n)
        BY <4>2, <4>3, FieldProps, Zenon
      <4> QED
        BY <3>2, <4>1, <4>4 DEF FieldOf
  <2>2. d = [i \in 1 .. N |-> d[i]]
    BY <1>2, <1>3 DEF Datas
  <2>3. d \in [1 .. N -> Seq(Byte)]
    BY <2>1, <2>2
  <2> QED
    BY <1>3, <2>3
<1>5. \A i \in 1 .. k : played[i] = d[i]
  BY <1>1, <1>2 DEF AsRecorded
<1>6. Seqs!IsPrefix(played, Datas)
  <2>1. PICK s, t : s = SubSeq(played, 1, k) /\ t = SubSeq(d, 1, k)
    OBVIOUS
  <2>2. s \in Seq(Seq(Byte)) /\ Len(s) = k /\ \A i \in 1 .. k : s[i] = played[i]
    BY <1>1, <1>2, <1>3, <2>1
  <2>3. t \in Seq(Seq(Byte)) /\ Len(t) = k /\ \A i \in 1 .. k : t[i] = d[i]
    BY <1>3, <1>4, <2>1
  <2>4. s = t
    BY <1>5, <2>2, <2>3, SeqEqual
  <2> QED
    BY <1>2, <1>3, <1>4, <2>1, <2>4 DEF Seqs!IsPrefix
<1>7. ASSUME Playing
      PROVE  IF reader.m_NextPacketTime = INT_MAX THEN played = Datas
             ELSE LET n == Len(played) + 1
                  IN  n \in DOMAIN recorded /\ reader.m_NextPacketTime = recorded[n].time
                      /\ Packet(reader) = Datas[n]
  <2>1. reader \in ReaderType /\ Reads(reader, k) /\ ~reader.astray
    BY <1>1, <1>2, <1>7 DEF Playing
  <2>2. reader.file = Recorded(Len(recorded))
    BY <2>1 DEF Reads
  <2>3. CASE k = N /\ AtEnd(reader.pos, reader.m_NextPacketSize, reader.m_NextPacketTime)
    <3>1. reader.m_NextPacketTime = INT_MAX
      BY <2>3 DEF AtEnd
    <3>2. played = d
      BY <1>1, <1>2, <1>4, <1>5, <2>3, SeqEqual
    <3> QED
      BY <1>2, <3>1, <3>2
  <2>4. CASE WaitsFor(k + 1, reader.pos, reader.m_NextPacketSize, reader.m_NextPacketTime)
    <3>1. PICK n : n = k + 1
      OBVIOUS
    <3>2. /\ n \in 1 .. N /\ Packet(reader) = Datas[n]
          /\ reader.m_NextPacketTime = recorded[n].time /\ reader.m_NextPacketTime \in 0 .. MaxTime
      BY <1>1, <1>2, <2>1, <2>2, <2>4, <3>1, PacketIs
    <3>3. reader.m_NextPacketTime # INT_MAX
      BY <3>2, SizesType DEF INT_MAX
    <3> QED
      BY <1>2, <1>3, <3>1, <3>2, <3>3
  <2> QED
    BY <1>2, <2>1, <2>3, <2>4 DEF Reads
<1> QED
  BY <1>6, <1>7 DEF PlayedInOrder

(***************************************************************************)
(* The variables keep their types.  The clocks stay within their bound     *)
(* although a cursor sets the reader's and SkiptToNextPacket takes it from *)
(* the header of a packet.                                                 *)
(***************************************************************************)
THEOREM ReplayTypes == Spec => []TypeOK
<1>1. Spec => [](TypeOK /\ ReplayInvariant)
  BY ReplayInit, ReplayStep, PTL DEF Spec
<1> QED
  BY <1>1, PTL

(***************************************************************************)
(* The recording, what has been played, the reader and the cursor fit      *)
(* together in every state, whatever SendWriter, SaveToFile,               *)
(* ReadNextPacket, Update and LoadCursor have done.                        *)
(***************************************************************************)
THEOREM ReplayKept == Spec => []ReplayInvariant
<1>1. Spec => [](TypeOK /\ ReplayInvariant)
  BY ReplayInit, ReplayStep, PTL DEF Spec
<1> QED
  BY <1>1, PTL

(***************************************************************************)
(* The loops of WriteData and the blocks that SaveToFile writes make the   *)
(* file exactly the packets that were sent since the last Clear, for every *)
(* size of block, header and packet.                                       *)
(***************************************************************************)
THEOREM FilesAreExact == Spec => []FileExact
<1>1. Spec => [](TypeOK /\ ReplayInvariant)
  BY ReplayInit, ReplayStep, PTL DEF Spec
<1> QED
  BY <1>1, InvariantFile, PTL

(***************************************************************************)
(* The protocol gets the recorded packets whole and in order, and a reader *)
(* that is not astray waits with the header of the next one, at its        *)
(* contents: for every number of packets, skips and loaded cursors.        *)
(***************************************************************************)
THEOREM ReplaysPlayInOrder == Spec => []PlayedInOrder
<1>1. Spec => [](TypeOK /\ ReplayInvariant)
  BY ReplayInit, ReplayStep, PTL DEF Spec
<1> QED
  BY <1>1, InvariantOrder, PTL
=============================================================================
