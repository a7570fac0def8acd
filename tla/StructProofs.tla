---------------------------- MODULE StructProofs -----------------------------
(***************************************************************************)
(* Proofs about StructSync: what the codecs of the fields and of the       *)
(* struct do, for maps and lists of any size, and that the receiver's      *)
(* struct follows the sender's.                                            *)
(***************************************************************************)
EXTENDS StructInv, CommonProofs, TLAPS

LEMMA Sizes ==
  /\ MaxSize \in Nat /\ MaxSize > 0 /\ MaxSize < 2 ^ 32
  /\ ListSize \in Nat /\ ListSize > 0 /\ ListSize < 2 ^ 32
BY MaxSizeAssumption, StructAssumption

\* A number up to x fits into the field whose width x gives.
LEMMA FieldFits ==
  ASSUME NEW x \in Nat, x < 2 ^ 32, NEW y \in 0 .. x
  PROVE  Truncate(y, GetRequiredBits(x)) = y
<1>1. PICK b : b = GetRequiredBits(x)
  OBVIOUS
<1>2. b \in 1 .. 32
  BY <1>1, RequiredBitsRange
<1>3. x < 2 ^ GetRequiredBits(x)
  BY WidthFits
<1>4. PICK p : p = 2 ^ b
  OBVIOUS
<1>5. p \in Nat /\ x < p
  <2>1. 2 ^ b \in Nat
    BY <1>2, PowerOfTwo
  <2> QED
    BY <1>1, <1>3, <1>4, <2>1
<1>6. y \in Nat /\ y < 2 ^ b
  BY <1>4, <1>5
<1>7. Truncate(y, b) = y
  BY <1>2, <1>6, TruncateFits
<1> QED
  BY <1>1, <1>7

------------------------------------------------------------------------------
(***************************************************************************)
(* Lists.                                                                  *)
(***************************************************************************)
LEMMA ListProps ==
  ASSUME NEW l \in ListType
  PROVE  /\ l \in Seq(Elem) /\ Len(l) \in 0 .. ListSize /\ DOMAIN l = 1 .. Len(l)
         /\ l \in [1 .. Len(l) -> Elem]
<1>1. PICK n \in 0 .. ListSize : l \in [1 .. n -> Elem]
  BY DEF ListType
<1>2. n \in Nat /\ l \in Seq(Elem) /\ Len(l) = n
  BY <1>1, Sizes
<1> QED
  BY <1>1, <1>2

LEMMA ListIs ==
  ASSUME NEW l \in Seq(Elem), Len(l) <= ListSize
  PROVE  l \in ListType
<1>1. PICK n : n = Len(l)
  OBVIOUS
<1>2. n \in 0 .. ListSize /\ l \in [1 .. n -> Elem]
  BY <1>1, Sizes
<1> QED
  BY <1>2 DEF ListType

\* The size of a list fits into its field.
LEMMA ListFits ==
  ASSUME NEW n \in 0 .. ListSize
  PROVE  List!Truncate(n, List!required_bits) = n
<1>1. \A W, s, k, x : List!ClzStage(W, s, k, x) = ClzStage(W, s, k, x)
  BY DEF List!ClzStage, ClzStage
<1>2. \A x : List!GetRequiredBits(x) = GetRequiredBits(x)
  BY <1>1 DEF List!GetRequiredBits, GetRequiredBits, List!CountLeadingZeros, CountLeadingZeros,
              List!Clz16_32, Clz16_32, List!ClzFrom8, ClzFrom8
<1>3. List!Truncate(n, List!required_bits) = Truncate(n, GetRequiredBits(ListSize))
  BY <1>2 DEF List!Truncate, Truncate, List!required_bits
<1> QED
  BY <1>3, Sizes, FieldFits

LEMMA ListValue ==
  ASSUME NEW l \in ListType, NEW val \in ListType, NEW m, m = List!SerializeValue(l)
  PROVE  m \in FieldSent /\ List!DeserializeValue(val, m) = l
<1>1. PICK n : n = Len(l)
  OBVIOUS
<1>2. n \in 0 .. ListSize /\ l \in [1 .. n -> Elem] /\ l \in Seq(Elem) /\ DOMAIN l = 1 .. n
  BY <1>1, ListProps
<1>3. n \in Nat /\ n <= ListSize
  BY <1>2, Sizes
<1>4. List!Truncate(n, List!required_bits) = n
  BY <1>2, ListFits
<1>5. m = [size |-> n, elems |-> l]
  BY <1>1, <1>4 DEF List!SerializeValue
<1>6. m \in FieldSent
  BY <1>3, <1>5 DEF FieldSent
<1>7. m.size = n /\ m.elems = l
  BY <1>5
<1>8. DOMAIN List!resize(val, n) = 1 .. n
  BY DEF List!resize
<1>9. List!DeserializeValue(val, m) = [i \in 1 .. n |-> l[i]]
  BY <1>1, <1>3, <1>7, <1>8, Sizes DEF List!DeserializeValue
<1> QED
  BY <1>2, <1>6, <1>9

ElemDeltas == [kind : {"value", "same", "changed"}, value : Elem \cup {Unchanged}]

LEMMA ListDelta ==
  ASSUME NEW to \in ListType, NEW from \in ListType, NEW m, m = List!SerializeDelta(to, from)
  PROVE  /\ m = Unchanged => to = from
         /\ m # Unchanged => m \in FieldDelta /\ List!DeserializeDelta(from, m) = to
<1>1. PICK n, k : n = Len(to) /\ k = Len(from)
  OBVIOUS
<1>2. n \in 0 .. ListSize /\ to \in [1 .. n -> Elem] /\ DOMAIN to = 1 .. n /\ n \in Nat
  BY <1>1, ListProps, Sizes
<1>3. k \in 0 .. ListSize /\ from \in [1 .. k -> Elem] /\ DOMAIN from = 1 .. k /\ k \in Nat
  BY <1>1, ListProps, Sizes
<1>4. PICK es : es = [i \in 1 .. n |-> List!ElemDelta(to, from, i)]
  OBVIOUS
<1>5. PICK b \in BOOLEAN : b = (Len(to) # Len(from))
  OBVIOUS
<1>6. b <=> n # k
  BY <1>1, <1>5
<1>7. List!Truncate(n, List!required_bits) = n
  BY <1>2, ListFits
<1>8. m = IF ~b /\ \A i \in 1 .. n : es[i].kind = "same" THEN Unchanged
          ELSE [resized |-> b, size |-> n, elems |-> es]
  BY <1>1, <1>2, <1>4, <1>5, <1>7 DEF List!SerializeDelta
<1>9. ASSUME NEW i \in 1 .. n
      PROVE  /\ es[i] \in ElemDeltas
             /\ es[i].kind = "value" <=> i > k
             /\ es[i].kind = "same" => to[i] = from[i]
             /\ es[i].kind # "same" => es[i].value = to[i]
  <2>1. es[i] = List!ElemDelta(to, from, i)
    BY <1>4
  <2>2. to[i] \in Elem
    BY <1>2
  <2>3. es[i] = IF i > k THEN [kind |-> "value", value |-> to[i]]
                ELSE IF to[i] = from[i] THEN [kind |-> "same", value |-> Unchanged]
                ELSE [kind |-> "changed", value |-> to[i]]
    BY <1>1, <2>1 DEF List!ElemDelta
  <2>4. CASE i > k
    BY <2>2, <2>3, <2>4 DEF ElemDeltas
  <2>5. CASE ~(i > k) /\ to[i] = from[i]
    BY <2>2, <2>3, <2>5 DEF ElemDeltas
  <2>6. CASE ~(i > k) /\ to[i] # from[i]
    BY <2>2, <2>3, <2>6 DEF ElemDeltas
  <2> QED
    BY <2>4, <2>5, <2>6
<1>10. DOMAIN es = 1 .. n /\ es \in Seq(ElemDeltas) /\ Len(es) = n
  <2>1. es \in [1 .. n -> ElemDeltas]
    BY <1>4, <1>9
  <2> QED
    BY <1>2, <2>1
<1>11. CASE ~b /\ \A i \in 1 .. n : es[i].kind = "same"
  <2>1. n = k
    BY <1>6, <1>11
  <2>2. \A i \in 1 .. n : to[i] = from[i]
    BY <1>9, <1>11
  <2>3. to = from
    BY <1>2, <1>3, <2>1, <2>2
  <2>4. m = Unchanged
    BY <1>8, <1>11
  <2> QED
    BY <2>3, <2>4
<1>12. CASE ~(~b /\ \A i \in 1 .. n : es[i].kind = "same")
  <2>1. m = [resized |-> b, size |-> n, elems |-> es]
    BY <1>8, <1>12
  <2>2. m \in FieldDelta
    BY <1>2, <1>5, <1>10, <2>1 DEF FieldDelta, ElemDeltas
  <2>3. m # Unchanged
    BY <2>2, NullAssumption
  <2>4. m.resized = b /\ m.size = n /\ m.elems = es
    BY <2>1
  <2>5. (IF m.resized THEN m.size ELSE Len(from)) = n
    BY <1>1, <1>6, <2>4
  <2>6. ~List!Misread(from, m, n)
    BY <1>1, <1>2, <1>9, <1>10, <2>4, Sizes DEF List!Misread
  <2>7. List!DeserializeDelta(from, m) =
          [i \in 1 .. n |-> IF es[i].kind = "same" THEN from[i] ELSE es[i].value]
    BY <2>4, <2>5, <2>6 DEF List!DeserializeDelta
  <2>8. \A i \in 1 .. n : (IF es[i].kind = "same" THEN from[i] ELSE es[i].value) = to[i]
    BY <1>9
  <2>9. List!DeserializeDelta(from, m) = to
    BY <1>2, <2>7, <2>8
  <2> QED
    BY <2>2, <2>3, <2>9
<1> QED
  BY <1>11, <1>12

LEMMA ConcatLists ==
  ASSUME NEW p \in Seq(Elem), NEW q \in Seq(Elem)
  PROVE  p \o q \in Seq(Elem) /\ Len(p \o q) = Len(p) + Len(q)
OBVIOUS

\* The operations keep lists within their size.
LEMMA ListOperations ==
  ASSUME NEW l \in ListType, NEW v \in Elem
  PROVE  /\ List!EmptyList \in ListType
         /\ Len(l) < ListSize => List!PushBack(l, v) \in ListType
         /\ \A i \in 1 .. Len(l) + 1 :
              Len(l) < ListSize => List!InsertAt(l, i, v) \in ListType /\ List!EmplaceAt(l, i, v) \in ListType
         /\ \A i \in DOMAIN l : List!RemoveAt(l, i) \in ListType
         /\ \A i \in DOMAIN l : \A j \in i .. Len(l) : List!erase(l, i, j) \in ListType
<1>1. PICK n : n = Len(l)
  OBVIOUS
<1>2. n \in 0 .. ListSize /\ n \in Nat /\ l \in Seq(Elem) /\ DOMAIN l = 1 .. n
  BY <1>1, ListProps, Sizes
<1>3. List!EmptyList \in ListType
  <2>1. << >> \in Seq(Elem) /\ Len(<< >>) <= ListSize
    BY Sizes
  <2> QED
    BY <2>1, ListIs DEF List!EmptyList
<1>4. ASSUME n < ListSize
      PROVE  Append(l, v) \in ListType
  <2>1. Append(l, v) \in Seq(Elem) /\ Len(Append(l, v)) = n + 1
    BY <1>1, <1>2
  <2>2. n + 1 <= ListSize
    BY <1>2, <1>4, Sizes
  <2> QED
    BY <2>1, <2>2, ListIs
<1>5. ASSUME NEW i \in 1 .. n + 1, n < ListSize
      PROVE  List!InsertAt(l, i, v) \in ListType /\ List!EmplaceAt(l, i, v) \in ListType
  <2>1. List!InsertAt(l, i, v) \in ListType
    <3>1. PICK p, q : p = SubSeq(l, 1, i - 1) /\ q = SubSeq(l, i, n)
      OBVIOUS
    <3>2. p \in Seq(Elem) /\ Len(p) = i - 1
      BY <1>1, <1>2, <3>1
    <3>3. q \in Seq(Elem) /\ Len(q) = n - i + 1
      BY <1>1, <1>2, <3>1
    <3>4. PICK u : u = p \o <<v>>
      OBVIOUS
    <3>5. u \in Seq(Elem) /\ Len(u) = i
      BY <3>2, <3>4
    <3>6. PICK w : w = u \o q
      OBVIOUS
    <3>7. w \in Seq(Elem) /\ Len(w) = n + 1
      BY <1>2, <3>3, <3>5, <3>6
    <3>8. Len(w) <= ListSize
      BY <1>2, <1>5, <3>7, Sizes
    <3>9. List!InsertAt(l, i, v) = w
      BY <1>1, <3>1, <3>4, <3>6 DEF List!InsertAt
    <3> QED
      BY <3>7, <3>8, <3>9, ListIs
  <2>2. List!EmplaceAt(l, i, v) \in ListType
    <3>1. CASE i = n + 1
      BY <1>1, <1>4, <1>5, <3>1 DEF List!EmplaceAt
    <3>2. CASE i # n + 1
      <4>1. i \in 1 .. n
        BY <1>2, <3>2
      <4>2. PICK w : w = [l EXCEPT ![i] = v]
        OBVIOUS
      <4>3. w \in Seq(Elem) /\ Len(w) = n
        BY <1>1, <1>2, <4>1, <4>2
      <4>4. Len(w) <= ListSize
        BY <1>2, <4>3, Sizes
      <4>5. List!EmplaceAt(l, i, v) = w
        BY <1>1, <3>2, <4>2 DEF List!EmplaceAt
      <4> QED
        BY <4>3, <4>4, <4>5, ListIs
    <3> QED
      BY <3>1, <3>2
  <2> QED
    BY <2>1, <2>2
<1>6. ASSUME NEW i \in 1 .. n, NEW j \in i .. n
      PROVE  List!erase(l, i, j) \in ListType
  <2>1. PICK p, q : p = SubSeq(l, 1, i - 1) /\ q = SubSeq(l, j + 1, n)
    OBVIOUS
  <2>2. p \in Seq(Elem) /\ Len(p) = i - 1
    BY <1>1, <1>2, <2>1
  <2>3. q \in Seq(Elem) /\ Len(q) = n - j
    BY <1>1, <1>2, <2>1
  <2>4. PICK w : w = p \o q
    OBVIOUS
  <2>5. w \in Seq(Elem) /\ Len(w) = (i - 1) + (n - j)
    <3>1. w \in Seq(Elem) /\ Len(w) = Len(p) + Len(q)
      BY <2>2, <2>3, <2>4, ConcatLists
    <3> QED
      BY <2>2, <2>3, <3>1
  <2>6. Len(w) <= ListSize
    BY <1>2, <2>5, Sizes
  <2>7. List!erase(l, i, j) = w
    BY <1>1, <2>1, <2>4 DEF List!erase
  <2> QED
    BY <2>5, <2>6, <2>7, ListIs
<1>7. \A i \in 1 .. n : List!RemoveAt(l, i) \in ListType
  <2>1. \A i \in 1 .. n : i \in i .. n
    BY <1>2
  <2> QED
    BY <1>6, <2>1 DEF List!RemoveAt
<1> QED
  BY <1>1, <1>2, <1>3, <1>4, <1>5, <1>6, <1>7 DEF List!PushBack

LEMMA ListResize ==
  ASSUME NEW l \in ListType, NEW n \in 0 .. ListSize
  PROVE  List!resize(l, n) \in ListType
<1>1. l \in Seq(Elem) /\ Len(l) \in Nat /\ DefaultElem \in Elem
  BY ListProps, StructAssumption, Sizes
<1>2. List!resize(l, n) \in [1 .. n -> Elem]
  BY <1>1, Sizes DEF List!resize
<1> QED
  BY <1>2 DEF ListType

------------------------------------------------------------------------------
(***************************************************************************)
(* Maps.                                                                   *)
(***************************************************************************)
Keys == 0 .. MaxSize - 1

LEMMA KeyRange ==
  \A k \in Keys : k \in Int /\ 0 <= k /\ k < MaxSize
BY Sizes DEF Keys

LEMMA MapProps ==
  ASSUME NEW m \in MapType
  PROVE  /\ DOMAIN m \in SUBSET Keys
         /\ m = [k \in DOMAIN m |-> m[k]]
         /\ \A k \in DOMAIN m : m[k] \in Elem
<1>1. PICK K \in SUBSET (0 .. MaxSize - 1) : m \in [K -> Elem]
  BY DEF MapType
<1> QED
  BY <1>1 DEF Keys

LEMMA MapIs ==
  ASSUME NEW m, NEW K \in SUBSET Keys, m = [k \in K |-> m[k]], \A k \in K : m[k] \in Elem
  PROVE  m \in MapType
<1>1. m \in [K -> Elem]
  OBVIOUS
<1> QED
  BY <1>1 DEF MapType, Keys

LEMMA SameMaps ==
  ASSUME NEW m \in MapType, NEW w \in MapType, DOMAIN m = DOMAIN w, \A k \in DOMAIN w : m[k] = w[k]
  PROVE  m = w
BY MapProps

LEMMA PutMap ==
  ASSUME NEW m \in MapType, NEW k \in Keys, NEW t \in Elem, NEW r, r = Put(m, k, t)
  PROVE  r \in MapType
<1>1. r = [x \in DOMAIN m \cup {k} |-> IF x = k THEN t ELSE m[x]]
  BY DEF Put
<1>2. DOMAIN m \in SUBSET Keys /\ \A x \in DOMAIN m : m[x] \in Elem
  BY MapProps
<1>3. DOMAIN m \cup {k} \in SUBSET Keys
  BY <1>2
<1>4. \A x \in DOMAIN m \cup {k} : r[x] \in Elem
  BY <1>1, <1>2
<1>5. PICK K : K = DOMAIN m \cup {k}
  OBVIOUS
<1>6. r = [x \in K |-> r[x]]
  BY <1>1, <1>5
<1> QED
  BY <1>3, <1>4, <1>5, <1>6, MapIs

LEMMA RestrictMap ==
  ASSUME NEW m \in MapType, NEW K \in SUBSET DOMAIN m, NEW r, r = Restrict(m, K)
  PROVE  r \in MapType
<1>1. r = [x \in K |-> m[x]]
  BY DEF Restrict
<1>2. DOMAIN m \in SUBSET Keys /\ \A x \in DOMAIN m : m[x] \in Elem
  BY MapProps
<1>3. K \in SUBSET Keys /\ r = [x \in K |-> r[x]] /\ \A x \in K : r[x] \in Elem
  BY <1>1, <1>2
<1> QED
  BY <1>3, MapIs

LEMMA EmplaceMap ==
  ASSUME NEW m \in MapType, NEW k \in Keys, NEW t \in Elem
  PROVE  EmplaceAt(m, k, t) \in MapType
BY PutMap DEF EmplaceAt

LEMMA EmptyIsMap ==
  EmptyMap \in MapType /\ DOMAIN EmptyMap = {}
<1>1. EmptyMap = [k \in {} |-> EmptyMap[k]] /\ DOMAIN EmptyMap = {}
  BY DEF EmptyMap
<1> QED
  BY <1>1, MapIs

\* What a map has at a key.
Look(m, k) == IF k \in DOMAIN m THEN m[k] ELSE Corrupt

LEMMA LookProps ==
  ASSUME NEW m \in MapType, NEW k
  PROVE  /\ k \in DOMAIN m <=> Look(m, k) # Corrupt
         /\ k \in DOMAIN m => Look(m, k) = m[k] /\ m[k] \in Elem /\ k \in Keys
         /\ Look(m, k) \in Elem \cup {Corrupt}
<1>1. Corrupt \notin Elem
  BY NullAssumption
<1> QED
  BY <1>1, MapProps DEF Look

LEMMA SameLook ==
  ASSUME NEW m \in MapType, NEW w \in MapType, \A k \in Keys : Look(m, k) = Look(w, k)
  PROVE  m = w
<1>1. ASSUME NEW k
      PROVE  /\ k \in DOMAIN m <=> k \in DOMAIN w
             /\ k \in DOMAIN w => m[k] = w[k]
  BY LookProps
<1>2. DOMAIN m = DOMAIN w
  BY <1>1
<1> QED
  BY <1>1, <1>2, SameMaps

\* What the operations do at every key.
LEMMA PutLook ==
  ASSUME NEW m \in MapType, NEW k \in Keys, NEW t \in Elem, NEW r, r = Put(m, k, t)
  PROVE  r \in MapType /\ \A j \in Keys : Look(r, j) = IF j = k THEN t ELSE Look(m, j)
<1>1. r = [x \in DOMAIN m \cup {k} |-> IF x = k THEN t ELSE m[x]]
  BY DEF Put
<1>2. r \in MapType
  BY PutMap
<1> QED
  BY <1>1, <1>2 DEF Look

LEMMA RestrictLook ==
  ASSUME NEW m \in MapType, NEW K, NEW r, r = Restrict(m, {k \in DOMAIN m : k \in K})
  PROVE  r \in MapType /\ \A j \in Keys : Look(r, j) = IF j \in K THEN Look(m, j) ELSE Corrupt
<1>1. PICK D : D = {k \in DOMAIN m : k \in K}
  OBVIOUS
<1>2. D \in SUBSET DOMAIN m /\ r = Restrict(m, D)
  BY <1>1
<1>3. r \in MapType
  BY <1>2, RestrictMap
<1>4. r = [x \in D |-> m[x]]
  BY <1>2 DEF Restrict
<1>5. \A j : j \in D <=> j \in DOMAIN m /\ j \in K
  BY <1>1
<1> QED
  BY <1>3, <1>4, <1>5 DEF Look

LEMMA EraseLook ==
  ASSUME NEW m \in MapType, NEW k, NEW r, r = Erase(m, k)
  PROVE  r \in MapType /\ \A j \in Keys : Look(r, j) = IF j = k THEN Corrupt ELSE Look(m, j)
<1>1. PICK D : D = DOMAIN m \ {k}
  OBVIOUS
<1>2. D \in SUBSET DOMAIN m /\ r = Restrict(m, D)
  BY <1>1 DEF Erase
<1>3. r \in MapType
  BY <1>2, RestrictMap
<1>4. r = [x \in D |-> m[x]]
  BY <1>2 DEF Restrict
<1> QED
  BY <1>1, <1>3, <1>4 DEF Look

Entry == [key : Keys, kind : {"added", "changed", "removed"}, value : Elem \cup {Corrupt}]
Applicable(e) == e \in Entry /\ (e.kind # "removed" => e.value \in Elem)
Entered(e) == IF e.kind = "removed" THEN Corrupt ELSE e.value

LEMMA ApplyEntryLook ==
  ASSUME NEW l \in MapType, NEW e, Applicable(e), NEW r, r = ApplyEntry(l, e)
  PROVE  r \in MapType /\ \A j \in Keys : Look(r, j) = IF j = e.key THEN Entered(e) ELSE Look(l, j)
<1>1. PICK i, v : i = e.key /\ v = e.value
  OBVIOUS
<1>2. i \in Keys
  BY <1>1 DEF Applicable, Entry
<1>3. CASE e.kind = "removed"
  <2>1. r = Erase(l, i)
    BY <1>1, <1>3 DEF ApplyEntry
  <2>2. r \in MapType /\ \A j \in Keys : Look(r, j) = IF j = i THEN Corrupt ELSE Look(l, j)
    BY <2>1, EraseLook
  <2> QED
    BY <1>1, <1>3, <2>2 DEF Entered
<1>4. CASE e.kind # "removed"
  <2>1. r = Put(l, i, v)
    BY <1>1, <1>4 DEF ApplyEntry
  <2>2. v \in Elem
    BY <1>1, <1>4 DEF Applicable
  <2>3. r \in MapType /\ \A j \in Keys : Look(r, j) = IF j = i THEN v ELSE Look(l, j)
    BY <1>2, <2>1, <2>2, PutLook
  <2> QED
    BY <1>1, <1>4, <2>3 DEF Entered
<1> QED
  BY <1>3, <1>4

\* The maps that the loop over the entries goes through.
Applies(h, n, val, es) ==
  /\ h[0] = val
  /\ \A k \in 1 .. n : h[k] = ApplyEntry(h[k - 1], es[k])

LEMMA EntriesFold ==
  ASSUME NEW val \in MapType, NEW n \in Nat, NEW es, DOMAIN es = 1 .. n,
         \A k \in 1 .. n : Applicable(es[k])
  PROVE  \E h : Applies(h, n, val, es) /\ Seqs!FoldLeft(ApplyEntry, val, es) = h[n]
<1> DEFINE A == MapType
           step == [k \in 1 .. n |-> [x \in A |-> ApplyEntry(x, es[k])]]
<1>1. ASSUME NEW x \in A, NEW k \in 1 .. n
      PROVE  ApplyEntry(x, es[k]) \in A
  <2>1. x \in MapType
    OBVIOUS
  <2>2. PICK r, e : e = es[k] /\ r = ApplyEntry(x, e)
    OBVIOUS
  <2>3. Applicable(e)
    BY <2>2
  <2>4. r \in MapType
    BY <2>1, <2>2, <2>3, ApplyEntryLook
  <2> QED
    BY <2>2, <2>4
<1>2. step \in Steps(A, n)
  BY <1>1 DEF Steps
<1>3. PICK g : FoldOf(g, A, val, n, step)
  <2>1. val \in A
    OBVIOUS
  <2> HIDE DEF step, A
  <2> QED
    BY <1>2, <2>1, FoldDefined
<1>4. g = [s \in SUBSET (1 .. n) |-> IF s = {} THEN val ELSE ApplyEntry(g[s \ {Biggest(s)}], es[Biggest(s)])]
  <2>1. ASSUME NEW s \in SUBSET (1 .. n), s # {}
        PROVE  step[Biggest(s)][g[s \ {Biggest(s)}]] = ApplyEntry(g[s \ {Biggest(s)}], es[Biggest(s)])
    <3>1. Biggest(s) \in 1 .. n /\ s \ {Biggest(s)} \in SUBSET (1 .. n)
      BY <2>1, BiggestProps
    <3>2. g[s \ {Biggest(s)}] \in A
      BY <1>3, <3>1 DEF FoldOf
    <3> QED
      BY <3>1, <3>2
  <2> HIDE DEF step, A
  <2> QED
    BY <1>3, <2>1 DEF FoldOf
<1> HIDE DEF step, A
<1>5. PICK it :
        /\ it = [s \in SUBSET (1 .. n) |-> IF s = {} THEN val ELSE ApplyEntry(it[s \ {Biggest(s)}], es[Biggest(s)])]
        /\ Seqs!FoldLeft(ApplyEntry, val, es) = it[1 .. n]
  <2>1. \A s : Seqs!Max(s) = Biggest(s)
    BY DEF Seqs!Max, Biggest
  <2>2. g = [s \in SUBSET DOMAIN es |-> IF s = {} THEN val
               ELSE ApplyEntry(g[s \ {Seqs!Max(s)}], es[Seqs!Max(s)])]
    BY <1>4, <2>1
  <2>3. \E it : /\ it = [s \in SUBSET DOMAIN es |-> IF s = {} THEN val
                           ELSE ApplyEntry(it[s \ {Seqs!Max(s)}], es[Seqs!Max(s)])]
                /\ Seqs!FoldLeft(ApplyEntry, val, es) = it[DOMAIN es]
    BY <2>2 DEF Seqs!FoldLeft, Seqs!MapThenFoldSet
  <2>4. PICK it :
          /\ it = [s \in SUBSET DOMAIN es |-> IF s = {} THEN val
                     ELSE ApplyEntry(it[s \ {Seqs!Max(s)}], es[Seqs!Max(s)])]
          /\ Seqs!FoldLeft(ApplyEntry, val, es) = it[DOMAIN es]
    BY <2>3
  <2>5. it = [s \in SUBSET (1 .. n) |-> IF s = {} THEN val ELSE ApplyEntry(it[s \ {Biggest(s)}], es[Biggest(s)])]
    BY <2>1, <2>4
  <2> QED
    BY <2>4, <2>5
<1>6. it[1 .. 0] = val /\ \A k \in 1 .. n : it[1 .. k] = ApplyEntry(it[1 .. k - 1], es[k])
  <2>1. 1 .. 0 = {} /\ {} \in SUBSET (1 .. n)
    OBVIOUS
  <2>2. ASSUME NEW k \in 1 .. n
        PROVE  it[1 .. k] = ApplyEntry(it[1 .. k - 1], es[k])
    <3>1. 1 .. k \in SUBSET (1 .. n) /\ k \in Nat /\ k # 0
      OBVIOUS
    <3>2. Biggest(1 .. k) = k /\ (1 .. k) \ {k} = 1 .. k - 1 /\ 1 .. k # {}
      BY <3>1, BiggestPrefix
    <3>3. it[1 .. k] = ApplyEntry(it[(1 .. k) \ {Biggest(1 .. k)}], es[Biggest(1 .. k)])
      BY <1>5, <3>1, <3>2
    <3> QED
      BY <3>2, <3>3
  <2> QED
    BY <1>5, <2>1, <2>2
<1> DEFINE h == [k \in 0 .. n |-> it[1 .. k]]
<1>7. Applies(h, n, val, es)
  BY <1>6 DEF Applies
<1>8. h[n] = it[1 .. n]
  OBVIOUS
<1> HIDE DEF h
<1> QED
  BY <1>5, <1>7, <1>8

\* After the entries, their keys are up to date and the other keys as before.
Updated(r, n, es, val) ==
  /\ r \in MapType
  /\ \A k \in 1 .. n : Look(r, es[k].key) = Entered(es[k])
  /\ \A j \in Keys : (\A k \in 1 .. n : es[k].key # j) => Look(r, j) = Look(val, j)

LEMMA EntriesLook ==
  ASSUME NEW val \in MapType, NEW n \in Nat, NEW es,
         \A k \in 1 .. n : Applicable(es[k]),
         \A j, k \in 1 .. n : es[j].key = es[k].key => j = k,
         NEW h, Applies(h, n, val, es)
  PROVE  Updated(h[n], n, es, val)
<1> DEFINE Good(m) ==
             /\ h[m] \in MapType
             /\ \A k \in 1 .. m : Look(h[m], es[k].key) = Entered(es[k])
             /\ \A j \in Keys : (\A k \in 1 .. m : es[k].key # j) => Look(h[m], j) = Look(val, j)
           S == {m \in 0 .. n : Good(m)}
<1>1. 0 \in S
  BY DEF Applies
<1>2. ASSUME NEW m \in 0 .. n - 1, m \in S
      PROVE  m + 1 \in S
  <2>1. m + 1 \in 1 .. n /\ (m + 1) - 1 = m /\ m + 1 \in 0 .. n /\ m \in Nat
    OBVIOUS
  <2>2. PICK l, r, e : l = h[m] /\ r = h[m + 1] /\ e = es[m + 1]
    OBVIOUS
  <2>3. Good(m)
    BY <1>2
  <2>4. l \in MapType /\ Applicable(e)
    BY <2>1, <2>2, <2>3
  <2>5. r = ApplyEntry(l, e)
    BY <2>1, <2>2 DEF Applies
  <2>6. /\ r \in MapType
        /\ \A j \in Keys : Look(r, j) = IF j = e.key THEN Entered(e) ELSE Look(l, j)
    BY <2>4, <2>5, ApplyEntryLook
  <2>7. ASSUME NEW k \in 1 .. m + 1
        PROVE  Look(r, es[k].key) = Entered(es[k])
    <3>1. PICK i : i = es[k].key
      OBVIOUS
    <3>2. k \in 1 .. n
      BY <2>1
    <3>3. i \in Keys
      BY <3>1, <3>2 DEF Applicable, Entry
    <3>4. CASE k = m + 1
      BY <2>2, <2>6, <3>1, <3>3, <3>4
    <3>5. CASE k # m + 1
      <4>1. k \in 1 .. m
        BY <2>1, <3>5
      <4>2. i # e.key
        BY <2>1, <2>2, <3>1, <3>2, <3>5
      <4>3. Look(l, i) = Entered(es[k])
        BY <2>2, <2>3, <3>1, <4>1
      <4> QED
        BY <2>6, <3>1, <3>3, <4>2, <4>3
    <3> QED
      BY <3>4, <3>5
  <2>8. ASSUME NEW j \in Keys, \A k \in 1 .. m + 1 : es[k].key # j
        PROVE  Look(r, j) = Look(val, j)
    <3>1. j # e.key /\ \A k \in 1 .. m : es[k].key # j
      <4>1. m + 1 \in 1 .. m + 1 /\ \A k \in 1 .. m : k \in 1 .. m + 1
        BY <2>1
      <4> QED
        BY <2>2, <2>8, <4>1
    <3> QED
      BY <2>2, <2>3, <2>6, <3>1
  <2>9. Good(m + 1)
    BY <2>2, <2>6, <2>7, <2>8
  <2> QED
    BY <2>1, <2>9
<1>3. 0 .. n \subseteq S
  <2> HIDE DEF S
  <2> QED
    BY <1>1, <1>2, UpTo
<1>4. Good(n)
  BY <1>3
<1> QED
  BY <1>4 DEF Updated

Folded(val, es) == Seqs!FoldLeft(ApplyEntry, val, es)

LEMMA FoldedApplies ==
  ASSUME NEW val \in MapType, NEW n \in Nat, NEW es, DOMAIN es = 1 .. n,
         \A k \in 1 .. n : Applicable(es[k])
  PROVE  \E h : Applies(h, n, val, es) /\ Folded(val, es) = h[n]
BY EntriesFold DEF Folded

LEMMA FunctionSeq ==
  ASSUME NEW S, NEW n \in Nat, NEW s \in [1 .. n -> S]
  PROVE  s \in Seq(S) /\ Len(s) = n
OBVIOUS

LEMMA WholeSubSeq ==
  ASSUME NEW S, NEW s \in Seq(S), NEW n, n = Len(s)
  PROVE  SubSeq(s, 1, n) = s
OBVIOUS

\* A set of keys in order, with their number.
Ordered(s, n, W) ==
  /\ s \in [1 .. n -> W] /\ Len(s) = n
  /\ \A i, j \in 1 .. n : i < j => s[i] < s[j]
  /\ Covers(s, n, W)

LEMMA KeysInOrder ==
  ASSUME NEW W \in SUBSET Keys
  PROVE  \E s, n : /\ s = InOrder(W) /\ n = Cardinality(W) /\ n \in 0 .. MaxSize /\ n \in Nat
                  /\ Ordered(s, n, W)
<1>1. PICK s, n : s = InOrder(W) /\ n = Cardinality(W)
  OBVIOUS
<1>2. /\ Cardinality(W) \in Nat /\ InOrder(W) \in [1 .. Cardinality(W) -> W]
      /\ Len(InOrder(W)) = Cardinality(W)
      /\ \A i, j \in 1 .. Cardinality(W) : i < j => InOrder(W)[i] < InOrder(W)[j]
      /\ Covers(InOrder(W), Cardinality(W), W)
  <2>1. 0 \in Int /\ MaxSize - 1 \in Int /\ W \in SUBSET (0 .. MaxSize - 1)
    BY Sizes DEF Keys
  <2> QED
    BY <2>1, InOrderProps
<1>3. n <= MaxSize
  <2>1. Cardinality(1 .. MaxSize) = MaxSize /\ IsFiniteSet(1 .. MaxSize)
    BY Sizes, FS_Interval, FS_CardinalityType
  <2>2. PICK f : f = [k \in W |-> k + 1]
    OBVIOUS
  <2>3. \A k \in W : k \in Int /\ k + 1 \in 1 .. MaxSize
    BY Sizes DEF Keys
  <2>4. f \in Injection(W, 1 .. MaxSize)
    BY <2>2, <2>3 DEF Injection, IsInjective
  <2>5. Cardinality(W) <= Cardinality(1 .. MaxSize)
    BY <2>1, <2>4, FS_Injection
  <2> QED
    BY <1>1, <2>1, <2>5
<1>4. Ordered(s, n, W)
  BY <1>1, <1>2 DEF Ordered
<1> QED
  BY <1>1, <1>2, <1>3, <1>4, Sizes

\* What an entry of a delta says.
Tells(e, to, from) ==
  /\ Applicable(e)
  /\ Look(to, e.key) # Look(from, e.key)
  /\ Entered(e) = Look(to, e.key)
  /\ e.kind = "added" <=> Look(from, e.key) = Corrupt

MapEntry(to, from, k) ==
  [key |-> Truncate(k, key_bits), kind |-> Kind(to, from, k), value |-> Look(to, k)]

LEMMA KeyFits ==
  ASSUME NEW k \in 0 .. MaxSize
  PROVE  Truncate(k, key_bits) = k
BY Sizes, FieldFits DEF key_bits

LEMMA MapEntryTells ==
  ASSUME NEW to \in MapType, NEW from \in MapType, NEW k \in Keys, Look(to, k) # Look(from, k),
         NEW e, e = MapEntry(to, from, k)
  PROVE  Tells(e, to, from) /\ e.key = k
<1>1. Truncate(k, key_bits) = k
  <2>1. k \in 0 .. MaxSize
    BY Sizes DEF Keys
  <2> QED
    BY <2>1, KeyFits
<1>2. /\ k \in DOMAIN to <=> Look(to, k) # Corrupt
      /\ k \in DOMAIN to => Look(to, k) \in Elem
      /\ Look(to, k) \in Elem \cup {Corrupt}
  BY LookProps
<1>3. k \in DOMAIN from <=> Look(from, k) # Corrupt
  BY LookProps
<1>4. PICK c, v : c = Kind(to, from, k) /\ v = Look(to, k)
  OBVIOUS
<1>5. c = IF k \notin DOMAIN to THEN "removed" ELSE IF k \in DOMAIN from THEN "changed" ELSE "added"
  BY <1>4 DEF Kind, Has
<1>6. e = [key |-> k, kind |-> c, value |-> v]
  BY <1>1, <1>4 DEF MapEntry
<1>7. e.key = k /\ e.kind = c /\ e.value = v
  BY <1>6
<1>8. e \in Entry
  BY <1>2, <1>4, <1>5, <1>6 DEF Entry
<1>9. c # "removed" <=> Look(to, k) # Corrupt
  BY <1>2, <1>5
<1>10. Applicable(e)
  BY <1>2, <1>4, <1>7, <1>8, <1>9 DEF Applicable
<1>11. Entered(e) = Look(to, k)
  BY <1>4, <1>7, <1>9 DEF Entered
<1>12. c = "added" <=> Look(from, k) = Corrupt
  BY <1>2, <1>3, <1>5
<1> QED
  BY <1>7, <1>10, <1>11, <1>12 DEF Tells

LEMMA MapSerializeDeltaIs ==
  ASSUME NEW to, NEW from, NEW s, s = Written(to, from),
         NEW es, es = [i \in 1 .. Len(s) |-> MapEntry(to, from, s[i])]
  PROVE  SerializeDelta(to, from) =
           IF s = << >> THEN Unchanged ELSE [num |-> Truncate(Len(s), key_bits), entries |-> es]
BY DEF SerializeDelta, MapEntry, Look, Has

LEMMA MapDeserializeDeltaIs ==
  ASSUME NEW val, NEW m, m # Unchanged, NEW es, es = SubSeq(m.entries, 1, m.num)
  PROVE  DeserializeDelta(val, m) =
           IF \E i \in DOMAIN es : Misread(val, es[i]) THEN Corrupt ELSE Folded(val, es)
BY DEF DeserializeDelta, Folded

(***************************************************************************)
(* The walk over two maps.  After every turn the keys below some "next"    *)
(* have been met in both, and no other key; those of them where the maps   *)
(* differ have been written.                                               *)
(***************************************************************************)
Differ(to, from, k) == Look(to, k) # Look(from, k)

\* Of the n keys of s in order, those before the i-th are below next.
Met(s, n, i, next) == i \in 1 .. n + 1 /\ \A a \in 1 .. n : s[a] < next <=> a < i

\* What has been written, when the keys below next have been met.
Listed(wrote, next, to, from) ==
  /\ wrote \in Seq(Keys) /\ next \in Int
  /\ \A x, y \in 1 .. Len(wrote) : x < y => wrote[x] < wrote[y]
  /\ \A k \in Keys : (\E x \in 1 .. Len(wrote) : wrote[x] = k) <=> k < next /\ Differ(to, from, k)

LEMMA MetOn ==
  ASSUME NEW n \in Nat, NEW W \in SUBSET Int, NEW s, Ordered(s, n, W), NEW i, NEW next \in Int,
         Met(s, n, i, next), i <= n
  PROVE  s[i] \in W /\ s[i] >= next /\ Met(s, n, i + 1, s[i] + 1)
<1>1. i \in 1 .. n /\ s[i] \in W /\ \A a \in 1 .. n : s[a] \in Int
  <2>1. i \in 1 .. n /\ s \in [1 .. n -> W]
    BY DEF Met, Ordered
  <2> QED
    BY <2>1
<1>2. s[i] >= next
  BY <1>1 DEF Met
<1>3. ASSUME NEW a \in 1 .. n
      PROVE  s[a] < s[i] + 1 <=> a < i + 1
  <2>1. CASE a < i
    BY <1>1, <2>1 DEF Ordered
  <2>2. CASE a = i
    BY <1>1, <2>2
  <2>3. CASE a > i
    <3>1. s[i] < s[a]
      BY <1>1, <2>3 DEF Ordered
    <3> QED
      BY <1>1, <2>3, <3>1
  <2> QED
    BY <1>1, <2>1, <2>2, <2>3
<1> QED
  BY <1>1, <1>2, <1>3 DEF Met

\* A place that has been met stays where it is while smaller keys are passed.
LEMMA MetStays ==
  ASSUME NEW n \in Nat, NEW W \in SUBSET Int, NEW s, Ordered(s, n, W), NEW i, NEW next \in Int,
         Met(s, n, i, next), NEW k \in Int, next <= k, i > n \/ k < s[i]
  PROVE  Met(s, n, i, k + 1)
<1>1. i \in 1 .. n + 1 /\ \A a \in 1 .. n : s[a] \in Int
  BY DEF Met, Ordered
<1>2. ASSUME NEW a \in 1 .. n
      PROVE  s[a] < k + 1 <=> a < i
  <2>1. CASE a < i
    BY <1>1, <2>1 DEF Met
  <2>2. CASE a >= i
    <3>1. k < s[i] /\ i \in 1 .. n
      BY <1>1, <2>2
    <3>2. a = i \/ s[i] < s[a]
      BY <2>2, <3>1 DEF Ordered
    <3> QED
      BY <1>1, <2>2, <3>1, <3>2
  <2> QED
    BY <1>1, <2>1, <2>2
<1> QED
  BY <1>1, <1>2 DEF Met

\* A key that has not been met is the i-th or one behind it.
LEMMA NotMet ==
  ASSUME NEW n \in Nat, NEW W \in SUBSET Int, NEW s, Ordered(s, n, W), NEW i, NEW next \in Int,
         Met(s, n, i, next), NEW k \in W, next <= k
  PROVE  i <= n /\ s[i] <= k
<1>1. PICK a \in 1 .. n : s[a] = k
  BY DEF Ordered, Covers
<1>2. i \in 1 .. n + 1 /\ ~(a < i) /\ s[a] \in Int
  BY <1>1 DEF Met
<1>3. a = i \/ s[i] < s[a]
  BY <1>1, <1>2 DEF Ordered
<1>4. s[i] \in Int
  <2>1. s[a] \in W /\ s[i] \in W
    <3>1. i \in 1 .. n
      BY <1>1, <1>2
    <3> QED
      BY <1>1, <3>1 DEF Ordered
  <2> QED
    BY <2>1
<1> QED
  BY <1>1, <1>2, <1>3, <1>4

LEMMA ListedOn ==
  ASSUME NEW to, NEW from, NEW wrote, NEW next, Listed(wrote, next, to, from),
         NEW k \in Keys, next <= k, \A j \in Keys : next <= j /\ j < k => ~Differ(to, from, j)
  PROVE  /\ Differ(to, from, k) => Listed(Append(wrote, k), k + 1, to, from)
         /\ ~Differ(to, from, k) => Listed(wrote, k + 1, to, from)
<1>1. wrote \in Seq(Keys) /\ next \in Int /\ k \in Int /\ \A j \in Keys : j \in Int
  BY KeyRange DEF Listed
<1>2. ASSUME NEW j \in Keys
      PROVE  j < k + 1 /\ Differ(to, from, j) <=> (j < next \/ j = k) /\ Differ(to, from, j)
  BY <1>1
<1>3. ASSUME ~Differ(to, from, k)
      PROVE  Listed(wrote, k + 1, to, from)
  <2>1. ASSUME NEW j \in Keys
        PROVE  (\E x \in 1 .. Len(wrote) : wrote[x] = j) <=> j < k + 1 /\ Differ(to, from, j)
    BY <1>2, <1>3 DEF Listed
  <2> QED
    BY <1>1, <2>1 DEF Listed
<1>4. ASSUME Differ(to, from, k)
      PROVE  Listed(Append(wrote, k), k + 1, to, from)
  <2>1. PICK w, n : w = Append(wrote, k) /\ n = Len(wrote)
    OBVIOUS
  <2>2. /\ n \in Nat /\ w \in Seq(Keys) /\ Len(w) = n + 1 /\ w[n + 1] = k
        /\ \A x \in 1 .. n : w[x] = wrote[x] /\ wrote[x] \in Keys
    BY <1>1, <2>1
  <2>3. \A x \in 1 .. n : wrote[x] < k
    <3> TAKE x \in 1 .. n
    <3>1. wrote[x] < next
      BY <2>1, <2>2 DEF Listed
    <3>2. wrote[x] \in Int
      <4>1. wrote[x] \in Keys
        BY <2>2
      <4> QED
        BY <1>1, <4>1
    <3> QED
      BY <1>1, <3>1, <3>2
  <2>4. ASSUME NEW x \in 1 .. n + 1, NEW y \in 1 .. n + 1, x < y
        PROVE  w[x] < w[y]
    <3>1. x \in 1 .. n
      BY <2>2, <2>4
    <3>2. CASE y = n + 1
      BY <2>2, <2>3, <3>1, <3>2
    <3>3. CASE y # n + 1
      <4>1. y \in 1 .. n
        BY <2>2, <3>3
      <4>2. wrote[x] < wrote[y]
        BY <2>1, <2>4, <3>1, <4>1 DEF Listed
      <4> QED
        BY <2>2, <3>1, <4>1, <4>2
    <3> QED
      BY <3>2, <3>3
  <2>5. ASSUME NEW j \in Keys
        PROVE  (\E x \in 1 .. n + 1 : w[x] = j) <=> j < k + 1 /\ Differ(to, from, j)
    <3>1. (\E x \in 1 .. n + 1 : w[x] = j) <=> (\E x \in 1 .. n : wrote[x] = j) \/ j = k
      BY <2>2
    <3>2. (\E x \in 1 .. n : wrote[x] = j) <=> j < next /\ Differ(to, from, j)
      BY <2>1 DEF Listed
    <3> QED
      BY <1>2, <1>4, <3>1, <3>2
  <2> QED
    BY <1>1, <2>1, <2>2, <2>4, <2>5 DEF Listed
<1> QED
  BY <1>3, <1>4

Cursor == [itr : Nat, other_itr : Nat, wrote : Seq(Keys)]

\* Where the walk may be; t and f are the keys of the two maps in order.
Walking(s, to, from, t, p, f, q) ==
  /\ s \in Cursor
  /\ \E next \in Int : /\ Met(t, p, s.itr, next) /\ Met(f, q, s.other_itr, next)
                       /\ Listed(s.wrote, next, to, from)

WalkEnded(s, p, q) == s.itr > p /\ s.other_itr > q

LEMMA WalkRoundKeeps ==
  ASSUME NEW to \in MapType, NEW from \in MapType, NEW t, NEW f, NEW p \in Nat, NEW q \in Nat,
         t = InOrder(DOMAIN to), f = InOrder(DOMAIN from),
         Ordered(t, p, DOMAIN to), Ordered(f, q, DOMAIN from),
         NEW s, Walking(s, to, from, t, p, f, q)
  PROVE  /\ Walking(WalkRound(to, from, s), to, from, t, p, f, q)
         /\ IF WalkEnded(s, p, q) THEN WalkRound(to, from, s) = s
            ELSE LET v == WalkRound(to, from, s)
                 IN  v.itr + v.other_itr > s.itr + s.other_itr
<1>1. PICK next \in Int : /\ Met(t, p, s.itr, next) /\ Met(f, q, s.other_itr, next)
                          /\ Listed(s.wrote, next, to, from)
  BY DEF Walking
<1>2. PICK i, j, wrote : i = s.itr /\ j = s.other_itr /\ wrote = s.wrote
  OBVIOUS
<1>3. /\ i \in 1 .. p + 1 /\ j \in 1 .. q + 1 /\ wrote \in Seq(Keys) /\ s \in Cursor
      /\ Len(t) = p /\ Len(f) = q
  BY <1>1, <1>2 DEF Met, Listed, Ordered, Walking
<1>4. /\ DOMAIN to \in SUBSET Int /\ DOMAIN from \in SUBSET Int
      /\ DOMAIN to \in SUBSET Keys /\ DOMAIN from \in SUBSET Keys /\ Keys \subseteq Int
  BY MapProps, KeyRange
\* A key that has not been met is not below the one that a turn takes.
<1>5. ASSUME NEW k \in Int, i > p \/ k <= t[i], j > q \/ k <= f[j],
             NEW m \in Keys, next <= m, m < k
      PROVE  ~Differ(to, from, m)
  <2>1. m \notin DOMAIN to
    <3> SUFFICES ASSUME m \in DOMAIN to
                 PROVE  FALSE
      OBVIOUS
    <3>1. i <= p /\ t[i] <= m
      BY <1>1, <1>2, <1>4, <1>5, NotMet
    <3>2. t[i] \in Int /\ m \in Int
      BY <1>3, <1>4, <3>1 DEF Ordered
    <3> QED
      BY <1>3, <1>5, <3>1, <3>2
  <2>2. m \notin DOMAIN from
    <3> SUFFICES ASSUME m \in DOMAIN from
                 PROVE  FALSE
      OBVIOUS
    <3>1. j <= q /\ f[j] <= m
      BY <1>1, <1>2, <1>4, <1>5, NotMet
    <3>2. f[j] \in Int /\ m \in Int
      BY <1>3, <1>4, <3>1 DEF Ordered
    <3> QED
      BY <1>3, <1>5, <3>1, <3>2
  <2> QED
    BY <2>1, <2>2 DEF Differ, Look
<1>6. CASE j <= q /\ (i > p \/ f[j] < t[i])
  <2>1. PICK k : k = f[j]
    OBVIOUS
  <2>2. k \in DOMAIN from /\ k >= next /\ Met(f, q, j + 1, k + 1) /\ k \in Keys /\ k \in Int
    BY <1>1, <1>2, <1>4, <1>6, <2>1, MetOn
  <2>3. Met(t, p, i, k + 1)
    BY <1>1, <1>2, <1>4, <1>6, <2>1, <2>2, MetStays
  <2>4. k \notin DOMAIN to
    <3> SUFFICES ASSUME k \in DOMAIN to
                 PROVE  FALSE
      OBVIOUS
    <3>1. i <= p /\ t[i] <= k
      BY <1>1, <1>2, <1>4, <2>2, NotMet
    <3>2. t[i] \in Int
      BY <1>3, <1>4, <3>1 DEF Ordered
    <3> QED
      BY <1>3, <1>6, <2>1, <2>2, <3>1, <3>2
  <2>5. Differ(to, from, k)
    <3>1. Look(to, k) = Corrupt /\ Look(from, k) # Corrupt
      BY <2>2, <2>4, LookProps
    <3> QED
      BY <3>1 DEF Differ
  <2>6. Listed(Append(wrote, k), k + 1, to, from)
    <3>1. i > p \/ k <= t[i]
      <4>1. i <= p => t[i] \in Int
        BY <1>3, <1>4 DEF Ordered
      <4> QED
        BY <1>3, <1>6, <2>1, <2>2, <4>1
    <3>2. \A m \in Keys : next <= m /\ m < k => ~Differ(to, from, m)
      BY <1>5, <2>1, <2>2, <3>1
    <3> QED
      BY <1>1, <1>2, <2>2, <2>5, <3>2, ListedOn
  <2>7. PICK v : v = [itr |-> i, other_itr |-> j + 1, wrote |-> Append(wrote, k)]
    OBVIOUS
  <2>8. WalkRound(to, from, s) = v
    <3>1. ~(s.other_itr > Len(f)) /\ (s.itr > Len(t) \/ f[s.other_itr] < t[s.itr])
      BY <1>2, <1>3, <1>6
    <3>2. WalkRound(to, from, s) = [s EXCEPT !.other_itr = @ + 1, !.wrote = Append(@, f[s.other_itr])]
      BY <3>1 DEF WalkRound
    <3> QED
      BY <1>2, <1>3, <2>1, <2>7, <3>2 DEF Cursor
  <2>9. Walking(v, to, from, t, p, f, q)
    <3>1. v.itr = i /\ v.other_itr = j + 1 /\ v.wrote = Append(wrote, k) /\ v \in Cursor
      BY <1>3, <2>2, <2>7 DEF Cursor
    <3>2. k + 1 \in Int
      BY <2>2
    <3> QED
      BY <2>2, <2>3, <2>6, <3>1, <3>2 DEF Walking
  <2>10. ~WalkEnded(s, p, q) /\ v.itr + v.other_itr > s.itr + s.other_itr
    BY <1>2, <1>3, <1>6, <2>7 DEF WalkEnded
  <2> QED
    BY <2>8, <2>9, <2>10
<1>7. CASE i <= p /\ j <= q /\ f[j] = t[i]
  <2>1. PICK k : k = t[i] /\ k = f[j]
    BY <1>7
  <2>2. k \in DOMAIN to /\ k >= next /\ Met(t, p, i + 1, k + 1) /\ k \in Keys /\ k \in Int
    BY <1>1, <1>2, <1>4, <1>7, <2>1, MetOn
  <2>3. k \in DOMAIN from /\ Met(f, q, j + 1, k + 1)
    BY <1>1, <1>2, <1>4, <1>7, <2>1, MetOn
  <2>4. Differ(to, from, k) <=> to[k] # from[k]
    BY <2>2, <2>3 DEF Differ, Look
  <2>5. PICK w : w = IF to[k] = from[k] THEN wrote ELSE Append(wrote, k)
    OBVIOUS
  <2>6. Listed(w, k + 1, to, from)
    <3>1. \A m \in Keys : next <= m /\ m < k => ~Differ(to, from, m)
      BY <1>5, <2>1, <2>2
    <3>2. /\ Differ(to, from, k) => Listed(Append(wrote, k), k + 1, to, from)
          /\ ~Differ(to, from, k) => Listed(wrote, k + 1, to, from)
      BY <1>1, <1>2, <2>2, <3>1, ListedOn
    <3> QED
      BY <2>4, <2>5, <3>2
  <2>7. PICK v : v = [itr |-> i + 1, other_itr |-> j + 1, wrote |-> w]
    OBVIOUS
  <2>8. WalkRound(to, from, s) = v
    <3>1. ~(s.other_itr > Len(f)) /\ ~(s.itr > Len(t))
      BY <1>2, <1>3, <1>7
    <3>2. t[s.itr] = k /\ f[s.other_itr] = k /\ ~(k < k)
      BY <1>2, <2>1, <2>2
    <3>3. WalkRound(to, from, s) =
            [itr |-> s.itr + 1, other_itr |-> s.other_itr + 1,
             wrote |-> IF to[k] = from[k] THEN s.wrote ELSE Append(s.wrote, k)]
      BY <3>1, <3>2 DEF WalkRound
    <3> QED
      BY <1>2, <2>5, <2>7, <3>3
  <2>9. Walking(v, to, from, t, p, f, q)
    <3>1. v.itr = i + 1 /\ v.other_itr = j + 1 /\ v.wrote = w
      BY <2>7
    <3>2. v \in Cursor
      <4>1. w \in Seq(Keys)
        BY <2>6 DEF Listed
      <4> QED
        BY <1>3, <2>7, <4>1 DEF Cursor
    <3>3. k + 1 \in Int
      BY <2>2
    <3> QED
      BY <2>2, <2>3, <2>6, <3>1, <3>2, <3>3 DEF Walking
  <2>10. ~WalkEnded(s, p, q) /\ v.itr + v.other_itr > s.itr + s.other_itr
    BY <1>2, <1>3, <1>7, <2>7 DEF WalkEnded
  <2> QED
    BY <2>8, <2>9, <2>10
<1>8. CASE i <= p /\ (j > q \/ t[i] < f[j])
  <2>1. PICK k : k = t[i]
    OBVIOUS
  <2>2. k \in DOMAIN to /\ k >= next /\ Met(t, p, i + 1, k + 1) /\ k \in Keys /\ k \in Int
    BY <1>1, <1>2, <1>4, <1>8, <2>1, MetOn
  <2>3. Met(f, q, j, k + 1)
    BY <1>1, <1>2, <1>4, <1>8, <2>1, <2>2, MetStays
  <2>4. k \notin DOMAIN from
    <3> SUFFICES ASSUME k \in DOMAIN from
                 PROVE  FALSE
      OBVIOUS
    <3>1. j <= q /\ f[j] <= k
      BY <1>1, <1>2, <1>4, <2>2, NotMet
    <3>2. f[j] \in Int
      BY <1>3, <1>4, <3>1 DEF Ordered
    <3> QED
      BY <1>3, <1>8, <2>1, <2>2, <3>1, <3>2
  <2>5. Differ(to, from, k)
    <3>1. Look(from, k) = Corrupt /\ Look(to, k) # Corrupt
      BY <2>2, <2>4, LookProps
    <3> QED
      BY <3>1 DEF Differ
  <2>6. Listed(Append(wrote, k), k + 1, to, from)
    <3>1. j > q \/ k <= f[j]
      <4>1. j <= q => f[j] \in Int
        BY <1>3, <1>4 DEF Ordered
      <4> QED
        BY <1>3, <1>8, <2>1, <2>2, <4>1
    <3>2. \A m \in Keys : next <= m /\ m < k => ~Differ(to, from, m)
      BY <1>5, <2>1, <2>2, <3>1
    <3> QED
      BY <1>1, <1>2, <2>2, <2>5, <3>2, ListedOn
  <2>7. PICK v : v = [itr |-> i + 1, other_itr |-> j, wrote |-> Append(wrote, k)]
    OBVIOUS
  <2>8. WalkRound(to, from, s) = v
    <3>1. ~(s.itr > Len(t)) /\ ~(~(s.other_itr > Len(f)) /\ f[s.other_itr] <= t[s.itr])
      <4>1. j <= q => f[j] \in Int
        BY <1>3, <1>4 DEF Ordered
      <4> QED
        BY <1>2, <1>3, <1>8, <2>1, <2>2, <4>1
    <3>2. /\ ~(~(s.other_itr > Len(f)) /\ (s.itr > Len(t) \/ f[s.other_itr] < t[s.itr]))
          /\ ~(~(s.other_itr > Len(f)) /\ f[s.other_itr] = t[s.itr])
      <4>1. j <= q => f[j] \in Int
        BY <1>3, <1>4 DEF Ordered
      <4> QED
        BY <1>2, <1>3, <2>1, <2>2, <3>1, <4>1
    <3>3. WalkRound(to, from, s) = [s EXCEPT !.itr = @ + 1, !.wrote = Append(@, t[s.itr])]
      BY <3>1, <3>2, Zenon DEF WalkRound
    <3> QED
      BY <1>2, <1>3, <2>1, <2>7, <3>3 DEF Cursor
  <2>9. Walking(v, to, from, t, p, f, q)
    <3>1. v.itr = i + 1 /\ v.other_itr = j /\ v.wrote = Append(wrote, k) /\ v \in Cursor
      BY <1>3, <2>2, <2>7 DEF Cursor
    <3>2. k + 1 \in Int
      BY <2>2
    <3> QED
      BY <2>2, <2>3, <2>6, <3>1, <3>2 DEF Walking
  <2>10. ~WalkEnded(s, p, q) /\ v.itr + v.other_itr > s.itr + s.other_itr
    BY <1>2, <1>3, <1>8, <2>7 DEF WalkEnded
  <2> QED
    BY <2>8, <2>9, <2>10
<1>9. CASE i > p /\ j > q
  <2>1. s.itr > Len(t) /\ s.other_itr > Len(f)
    BY <1>2, <1>3, <1>9
  <2>2. WalkRound(to, from, s) = s
    BY <2>1 DEF WalkRound
  <2> QED
    BY <1>2, <1>9, <2>2 DEF WalkEnded
<1> QED
  <2>1. (i <= p \/ i > p) /\ (j <= q \/ j > q)
    BY <1>3
  <2>2. i <= p /\ j <= q => f[j] < t[i] \/ f[j] = t[i] \/ t[i] < f[j]
    <3>1. i <= p /\ j <= q => t[i] \in Int /\ f[j] \in Int
      BY <1>3, <1>4 DEF Ordered
    <3> QED
      BY <3>1
  <2> QED
    BY <1>6, <1>7, <1>8, <1>9, <2>1, <2>2

\* The turns of the walk, however they are counted.
Walk(w, to, from, n) ==
  w = [i \in 0 .. n |-> IF i = 0 THEN [itr |-> 1, other_itr |-> 1, wrote |-> << >>]
                        ELSE WalkRound(to, from, w[i - 1])]

LEMMA WrittenIs ==
  ASSUME NEW to, NEW from, NEW n, n = Cardinality(DOMAIN to) + Cardinality(DOMAIN from),
         \E w : Walk(w, to, from, n)
  PROVE  \E w : Walk(w, to, from, n) /\ Written(to, from) = w[n].wrote
BY DEF Written, Walk

\* The walk meets every key, and lists those where the maps differ.
LEMMA WrittenOrdered ==
  ASSUME NEW to \in MapType, NEW from \in MapType, NEW s, s = Written(to, from)
  PROVE  \E n, W : /\ W \in SUBSET Keys /\ \A k \in Keys : k \in W <=> Look(to, k) # Look(from, k)
                  /\ n \in 0 .. MaxSize /\ n \in Nat /\ Ordered(s, n, W)
<1>1. DOMAIN to \in SUBSET Keys /\ DOMAIN from \in SUBSET Keys /\ Keys \subseteq Int
  BY MapProps, KeyRange
<1>2. PICK t, p : t = InOrder(DOMAIN to) /\ p = Cardinality(DOMAIN to) /\ p \in Nat /\ Ordered(t, p, DOMAIN to)
  BY <1>1, KeysInOrder
<1>3. PICK f, q : f = InOrder(DOMAIN from) /\ q = Cardinality(DOMAIN from) /\ q \in Nat /\ Ordered(f, q, DOMAIN from)
  BY <1>1, KeysInOrder
<1>4. PICK turns \in Nat : turns = p + q
  BY <1>2, <1>3
<1>5. PICK base : base = [itr |-> 1, other_itr |-> 1, wrote |-> << >>]
  OBVIOUS
<1>6. PICK A : A = {v \in Cursor : Walking(v, to, from, t, p, f, q)}
  OBVIOUS
<1>7. base \in A
  <2>1. base \in Cursor /\ base.itr = 1 /\ base.other_itr = 1 /\ base.wrote = << >>
    BY <1>5 DEF Cursor
  <2>2. Met(t, p, 1, 0)
    <3>1. \A a \in 1 .. p : ~(t[a] < 0) /\ ~(a < 1)
      <4>1. \A a \in 1 .. p : t[a] \in Keys
        BY <1>1, <1>2 DEF Ordered
      <4> QED
        BY <4>1, Sizes DEF Keys
    <3> QED
      BY <1>2, <3>1 DEF Met
  <2>3. Met(f, q, 1, 0)
    <3>1. \A a \in 1 .. q : ~(f[a] < 0) /\ ~(a < 1)
      <4>1. \A a \in 1 .. q : f[a] \in Keys
        BY <1>1, <1>3 DEF Ordered
      <4> QED
        BY <4>1, Sizes DEF Keys
    <3> QED
      BY <1>3, <3>1 DEF Met
  <2>4. Listed(<< >>, 0, to, from)
    <3>1. \A k \in Keys : ~(k < 0)
      BY Sizes DEF Keys
    <3> QED
      BY <3>1 DEF Listed
  <2>5. Walking(base, to, from, t, p, f, q)
    BY <2>1, <2>2, <2>3, <2>4 DEF Walking
  <2> QED
    BY <1>6, <2>1, <2>5
<1>8. ASSUME NEW v \in A
      PROVE  /\ WalkRound(to, from, v) \in A
             /\ IF WalkEnded(v, p, q) THEN WalkRound(to, from, v) = v
                ELSE LET u == WalkRound(to, from, v)
                     IN  u.itr + u.other_itr > v.itr + v.other_itr
  <2>1. Walking(v, to, from, t, p, f, q)
    BY <1>6
  <2>2. PICK u : u = WalkRound(to, from, v)
    OBVIOUS
  <2>3. /\ Walking(u, to, from, t, p, f, q)
        /\ IF WalkEnded(v, p, q) THEN u = v ELSE u.itr + u.other_itr > v.itr + v.other_itr
    BY <1>2, <1>3, <2>1, <2>2, WalkRoundKeeps
  <2>4. u \in A
    BY <1>6, <2>3 DEF Walking
  <2> QED
    BY <2>2, <2>3, <2>4
<1>9. PICK next \in [A -> A] : \A v \in A : next[v] = WalkRound(to, from, v)
  <2>1. PICK g : g = [v \in A |-> WalkRound(to, from, v)]
    OBVIOUS
  <2>2. g \in [A -> A]
    BY <1>8, <2>1
  <2> QED
    BY <2>1, <2>2
<1>10. \E w : Walk(w, to, from, turns)
  <2>1. PICK w : RoundsOf(w, A, base, turns, next)
    BY <1>7, <1>9, RoundsExist
  <2>2. w \in [0 .. turns -> A] /\ w = [i \in 0 .. turns |-> IF i = 0 THEN base ELSE next[w[i - 1]]]
    BY <2>1 DEF RoundsOf
  <2>3. \A i \in 0 .. turns : i # 0 => next[w[i - 1]] = WalkRound(to, from, w[i - 1])
    <3>1. \A i \in 0 .. turns : i # 0 => i - 1 \in 0 .. turns
      BY <1>4
    <3> QED
      BY <1>9, <2>2, <3>1
  <2>4. w = [i \in 0 .. turns |-> IF i = 0 THEN base ELSE WalkRound(to, from, w[i - 1])]
    BY <2>2, <2>3
  <2> QED
    BY <1>5, <2>4 DEF Walk
<1>11. PICK w : Walk(w, to, from, turns) /\ s = w[turns].wrote
  BY <1>2, <1>3, <1>4, <1>10, WrittenIs
<1>12. /\ w[0] = base
       /\ \A i \in 1 .. turns : w[i] = WalkRound(to, from, w[i - 1])
  BY <1>4, <1>5, <1>11 DEF Walk
<1>13. ASSUME NEW v \in A
       PROVE  /\ v.itr \in 1 .. p + 1 /\ v.other_itr \in 1 .. q + 1
              /\ WalkEnded(v, p, q) <=> v.itr = p + 1 /\ v.other_itr = q + 1
  <2>1. v.itr \in 1 .. p + 1 /\ v.other_itr \in 1 .. q + 1
    BY <1>6 DEF Walking, Met
  <2> QED
    BY <1>2, <1>3, <2>1 DEF WalkEnded
<1>14. PICK size : size = [v \in A |-> p + q + 2 - (v.itr + v.other_itr)]
  OBVIOUS
<1>15. /\ size \in [A -> Nat]
       /\ \A v \in A : size[v] = 0 <=> WalkEnded(v, p, q)
  <2>1. ASSUME NEW v \in A
        PROVE  /\ p + q + 2 - (v.itr + v.other_itr) \in Nat
               /\ p + q + 2 - (v.itr + v.other_itr) = 0 <=> WalkEnded(v, p, q)
    <3>1. PICK i \in 1 .. p + 1, j \in 1 .. q + 1 : i = v.itr /\ j = v.other_itr
      BY <1>13
    <3>2. WalkEnded(v, p, q) <=> i = p + 1 /\ j = q + 1
      BY <1>13, <3>1
    <3>3. p + q + 2 - (i + j) \in Nat /\ (p + q + 2 - (i + j) = 0 <=> i = p + 1 /\ j = q + 1)
      BY <1>2, <1>3
    <3> QED
      BY <3>1, <3>2, <3>3
  <2> QED
    BY <1>14, <2>1
<1>16. RoundsShrink(w, A, turns, size)
  <2>1. ASSUME NEW i \in 1 .. turns, w[i - 1] \in A
        PROVE  /\ w[i] \in A
               /\ size[w[i - 1]] # 0 => size[w[i]] < size[w[i - 1]]
               /\ size[w[i - 1]] = 0 => size[w[i]] = 0
    <3>1. PICK v \in A : v = w[i - 1]
      BY <2>1
    <3>2. PICK u : u = w[i] /\ u = WalkRound(to, from, v)
      BY <1>12, <3>1
    <3>3. u \in A /\ IF WalkEnded(v, p, q) THEN u = v ELSE u.itr + u.other_itr > v.itr + v.other_itr
      BY <1>8, <3>2
    <3>4. CASE size[v] = 0
      BY <1>15, <3>1, <3>2, <3>3, <3>4
    <3>5. CASE size[v] # 0
      <4>1. u.itr + u.other_itr > v.itr + v.other_itr
        BY <1>15, <3>3, <3>5
      <4>2. v.itr \in Int /\ v.other_itr \in Int /\ u.itr \in Int /\ u.other_itr \in Int
        BY <1>13, <3>3
      <4>3. size[v] = p + q + 2 - (v.itr + v.other_itr) /\ size[u] = p + q + 2 - (u.itr + u.other_itr)
        BY <1>14, <3>3
      <4>4. size[u] < size[v]
        BY <1>2, <1>3, <4>1, <4>2, <4>3
      <4> QED
        BY <3>1, <3>2, <3>3, <3>5, <4>4
    <3> QED
      BY <3>4, <3>5
  <2> QED
    BY <2>1 DEF RoundsShrink
<1>17. PICK v \in A : v = w[turns] /\ size[v] = 0
  <2>1. w[0] \in A /\ size[w[0]] <= turns
    <3>1. size[base] = p + q + 2 - (1 + 1)
      BY <1>5, <1>7, <1>14
    <3>2. size[base] = p + q
      BY <1>2, <1>3, <3>1
    <3> QED
      BY <1>4, <1>7, <1>12, <3>2
  <2> QED
    BY <1>15, <1>16, <2>1, RoundsEnd
<1>18. v.itr > p /\ v.other_itr > q
  BY <1>15, <1>17 DEF WalkEnded
<1>19. PICK last \in Int : /\ Met(t, p, v.itr, last) /\ Met(f, q, v.other_itr, last)
                          /\ Listed(s, last, to, from)
  BY <1>6, <1>11, <1>17 DEF Walking
<1>20. ASSUME NEW k \in Keys, Differ(to, from, k)
       PROVE  k < last
  <2>1. k \in DOMAIN to \/ k \in DOMAIN from
    BY <1>20 DEF Differ, Look
  <2>2. k \in Int
    BY <1>1
  <2>3. v.itr \in Int /\ v.other_itr \in Int
    BY <1>13
  <2>4. ~(last <= k)
    <3>1. last <= k /\ k \in DOMAIN to => v.itr <= p
      BY <1>1, <1>2, <1>19, NotMet
    <3>2. last <= k /\ k \in DOMAIN from => v.other_itr <= q
      BY <1>1, <1>3, <1>19, NotMet
    <3> QED
      BY <1>2, <1>3, <1>18, <2>1, <2>3, <3>1, <3>2
  <2> QED
    BY <2>2, <2>4
<1>21. PICK W : W = {k \in Keys : Differ(to, from, k)}
  OBVIOUS
<1>22. PICK n \in Nat : n = Len(s) /\ s \in [1 .. n -> Keys]
  BY <1>19 DEF Listed
<1>23. \A k \in Keys : (\E x \in 1 .. n : s[x] = k) <=> k \in W
  BY <1>19, <1>20, <1>21, <1>22 DEF Listed
<1>24. s \in [1 .. n -> W]
  <2>1. \A x \in 1 .. n : s[x] \in W
    BY <1>22, <1>23
  <2> QED
    BY <1>22, <2>1
<1>25. \A x, y \in 1 .. n : x < y => s[x] < s[y]
  BY <1>19, <1>22 DEF Listed
<1>26. Ordered(s, n, W)
  <2>1. Covers(s, n, W)
    BY <1>21, <1>23 DEF Covers
  <2> QED
    BY <1>22, <1>24, <1>25, <2>1 DEF Ordered
<1>27. n <= MaxSize
  <2>1. Cardinality(1 .. MaxSize) = MaxSize /\ IsFiniteSet(1 .. MaxSize)
    BY Sizes, FS_Interval, FS_CardinalityType
  <2>2. Cardinality(1 .. n) = n
    <3>1. n = 0 => Cardinality(1 .. n) = 0
      BY FS_EmptySet
    <3>2. 1 \in Int /\ n \in Int
      OBVIOUS
    <3>3. Cardinality(1 .. n) = IF 1 > n THEN 0 ELSE n - 1 + 1
      BY <3>2, FS_Interval
    <3> QED
      BY <3>3
  <2>3. PICK g : g = [x \in 1 .. n |-> s[x] + 1]
    OBVIOUS
  <2>4. \A x \in 1 .. n : s[x] \in Int /\ s[x] + 1 \in 1 .. MaxSize
    BY <1>22, Sizes DEF Keys
  <2>5. \A x, y \in 1 .. n : s[x] + 1 = s[y] + 1 => x = y
    <3>1. \A x, y \in 1 .. n : x # y => s[x] # s[y]
      BY <1>25, <2>4
    <3> QED
      BY <2>4, <3>1
  <2>6. g \in Injection(1 .. n, 1 .. MaxSize)
    BY <2>3, <2>4, <2>5 DEF Injection, IsInjective
  <2>7. Cardinality(1 .. n) <= Cardinality(1 .. MaxSize)
    BY <2>1, <2>6, FS_Injection
  <2> QED
    BY <2>1, <2>2, <2>7
<1>28. W \in SUBSET Keys /\ \A k \in Keys : k \in W <=> Look(to, k) # Look(from, k)
  BY <1>21 DEF Differ
<1>29. n \in 0 .. MaxSize
  BY <1>27, Sizes
<1> QED
  BY <1>26, <1>28, <1>29

LEMMA MapDelta ==
  ASSUME NEW to \in MapType, NEW from \in MapType, NEW m, m = SerializeDelta(to, from)
  PROVE  /\ m = Unchanged => to = from
         /\ m # Unchanged => m \in FieldDelta /\ DeserializeDelta(from, m) = to
<1>1. PICK s : s = Written(to, from)
  OBVIOUS
<1>2. PICK n, W : /\ W \in SUBSET Keys /\ \A k \in Keys : k \in W <=> Look(to, k) # Look(from, k)
                  /\ n \in 0 .. MaxSize /\ n \in Nat /\ Ordered(s, n, W)
  BY <1>1, WrittenOrdered
<1>3. n \in 0 .. MaxSize /\ n \in Nat /\ Ordered(s, n, W)
  BY <1>2
<1>4. PICK es : es = [i \in 1 .. Len(s) |-> MapEntry(to, from, s[i])]
  OBVIOUS
<1>5. Len(s) = n /\ s \in [1 .. n -> W]
  BY <1>3 DEF Ordered
<1>6. Truncate(n, key_bits) = n
  BY <1>3, KeyFits
<1>7. m = IF s = << >> THEN Unchanged ELSE [num |-> n, entries |-> es]
  BY <1>1, <1>3, <1>4, <1>5, <1>6, MapSerializeDeltaIs
<1>8. ASSUME NEW i \in 1 .. n
      PROVE  Tells(es[i], to, from) /\ es[i].key = s[i]
  <2>1. PICK k, e : k = s[i] /\ e = es[i]
    OBVIOUS
  <2>2. k \in Keys /\ Look(to, k) # Look(from, k)
    BY <1>2, <1>5, <2>1
  <2>3. e = MapEntry(to, from, k)
    BY <1>4, <1>5, <2>1
  <2>4. Tells(e, to, from) /\ e.key = k
    BY <2>2, <2>3, MapEntryTells
  <2> QED
    BY <2>1, <2>4
<1>9. CASE s = << >>
  <2>1. n = 0
    BY <1>5, <1>9
  <2>2. \A k \in Keys : k \notin W
    BY <1>3, <2>1 DEF Ordered, Covers
  <2>3. to = from
    BY <1>2, <2>2, SameLook
  <2>4. m = Unchanged
    BY <1>7, <1>9
  <2> QED
    BY <2>3, <2>4
<1>10. CASE s # << >>
  <2>1. m = [num |-> n, entries |-> es]
    BY <1>7, <1>10
  <2>2. m.num = n /\ m.entries = es
    BY <2>1
  <2>3. \A i \in 1 .. n : Applicable(es[i])
    BY <1>8 DEF Tells
  <2>4. DOMAIN es = 1 .. n /\ es \in Seq(Entry) /\ Len(es) = n
    <3>1. es \in [1 .. n -> Entry]
      BY <1>4, <1>5, <2>3 DEF Applicable
    <3> QED
      BY <1>3, <3>1
  <2>5. m \in FieldDelta
    <3>1. es \in Seq([key : Nat, kind : {"added", "changed", "removed"}, value : Elem \cup {Corrupt}])
      <4>1. ASSUME NEW i \in 1 .. n
            PROVE  es[i] \in [key : Nat, kind : {"added", "changed", "removed"}, value : Elem \cup {Corrupt}]
        BY <2>3, Sizes DEF Applicable, Entry, Keys
      <4>2. es \in [1 .. n -> [key : Nat, kind : {"added", "changed", "removed"}, value : Elem \cup {Corrupt}]]
        BY <1>4, <1>5, <4>1
      <4> QED
        BY <1>3, <4>2, FunctionSeq
    <3> QED
      BY <1>3, <2>1, <3>1 DEF FieldDelta
  <2>6. m # Unchanged
    BY <2>5, NullAssumption
  <2>7. es = SubSeq(m.entries, 1, m.num)
    BY <2>2, <2>4, WholeSubSeq
  <2>8. ASSUME NEW i \in DOMAIN es
        PROVE  ~Misread(from, es[i])
    <3>1. PICK e, k : e = es[i] /\ k = e.key
      OBVIOUS
    <3>2. Tells(e, to, from)
      BY <1>8, <2>4, <3>1
    <3>3. e.kind = "added" <=> Look(from, k) = Corrupt
      BY <3>1, <3>2 DEF Tells
    <3>4. k \in DOMAIN from <=> Look(from, k) # Corrupt
      BY LookProps
    <3>5. ~(Has(from, e.key) <=> e.kind = "added")
      BY <3>1, <3>3, <3>4 DEF Has
    <3>6. ~(Has(from, e.key) = (e.kind = "added"))
      BY <3>5, Zenon
    <3>7. ~Misread(from, e)
      BY <3>6, Zenon DEF Misread
    <3> QED
      BY <3>1, <3>7
  <2>9. PICK r : r = Folded(from, es)
    OBVIOUS
  <2>10. DeserializeDelta(from, m) = r
    <3>1. ~ \E i \in DOMAIN es : Misread(from, es[i])
      BY <2>8
    <3> QED
      BY <2>6, <2>7, <2>9, <3>1, MapDeserializeDeltaIs
  <2>11. PICK h : Applies(h, n, from, es) /\ Folded(from, es) = h[n]
    BY <1>3, <2>3, <2>4, FoldedApplies
  <2>12. \A i, j \in 1 .. n : es[i].key = es[j].key => i = j
    <3>1. ASSUME NEW i \in 1 .. n, NEW j \in 1 .. n, i < j
          PROVE  s[i] < s[j] /\ s[i] \in Int /\ s[j] \in Int
      <4>1. s[i] < s[j]
        BY <1>3, <3>1 DEF Ordered
      <4>2. s[i] \in Keys /\ s[j] \in Keys
        BY <1>2, <1>5
      <4> QED
        BY <4>1, <4>2, Sizes DEF Keys
    <3>2. ASSUME NEW i \in 1 .. n, NEW j \in 1 .. n, i # j
          PROVE  s[i] # s[j]
      BY <3>1, <3>2
    <3> QED
      BY <1>8, <3>2
  <2>13. /\ r \in MapType
         /\ \A i \in 1 .. n : Look(r, es[i].key) = Entered(es[i])
         /\ \A j \in Keys : (\A i \in 1 .. n : es[i].key # j) => Look(r, j) = Look(from, j)
    <3>1. n \in Nat /\ r = h[n]
      BY <1>3, <2>9, <2>11
    <3>2. Applies(h, n, from, es)
      BY <2>11
    <3>3. Updated(h[n], n, es, from)
      BY <2>3, <2>12, <3>1, <3>2, EntriesLook
    <3>4. Updated(r, n, es, from)
      BY <3>1, <3>3
    <3> QED
      BY <3>4 DEF Updated
  <2>14. ASSUME NEW j \in Keys
         PROVE  Look(r, j) = Look(to, j)
    <3>1. CASE j \in W
      <4>1. PICK i \in 1 .. n : s[i] = j
        BY <1>3, <3>1 DEF Ordered, Covers
      <4>2. es[i].key = j /\ Entered(es[i]) = Look(to, j)
        BY <1>8, <4>1 DEF Tells
      <4> QED
        BY <2>13, <4>2
    <3>2. CASE j \notin W
      <4>1. \A i \in 1 .. n : es[i].key # j
        BY <1>5, <1>8, <3>2
      <4> QED
        BY <1>2, <2>13, <3>2, <4>1
    <3> QED
      BY <3>1, <3>2
  <2>15. r = to
    BY <2>13, <2>14, SameLook
  <2> QED
    BY <2>5, <2>6, <2>10, <2>15
<1> QED
  BY <1>9, <1>10

------------------------------------------------------------------------------
(***************************************************************************)
(* Whole maps.                                                             *)
(***************************************************************************)
Element == [key : Keys, value : Elem]

\* Where the reader's loop stands: a map, and the key it is at.
Reader(at) ==
  /\ at = [map |-> at.map, next |-> at.next]
  /\ at.map \in MapType /\ at.next \in 0 .. MaxSize

LEMMA ReadEntryLook ==
  ASSUME NEW at, Reader(at), NEW e \in Element, NEW r, r = ReadEntry(at, e)
  PROVE  /\ Reader(r) /\ r.next = e.key + 1
         /\ \A j \in Keys :
              Look(r.map, j) = IF j = e.key THEN e.value
                               ELSE IF at.next <= j /\ j < e.key THEN Corrupt ELSE Look(at.map, j)
<1>1. PICK i, v, c, m : i = e.key /\ v = e.value /\ c = at.next /\ m = at.map
  OBVIOUS
<1>2. i \in Keys /\ v \in Elem /\ c \in 0 .. MaxSize /\ m \in MapType
  BY <1>1 DEF Reader, Element
<1>3. PICK K : K = {k \in Keys : ~(c <= k /\ k < i)}
  OBVIOUS
<1>4. PICK q : q = Restrict(m, {k \in DOMAIN m : k \in K})
  OBVIOUS
<1>5. PICK p : p = Put(q, i, v)
  OBVIOUS
<1>6. r = [map |-> p, next |-> i + 1]
  <2>1. \A k \in DOMAIN m : k \in Keys /\ k \in Int
    BY <1>2, MapProps, Sizes DEF Keys
  <2>2. i \in Int /\ c \in Int
    BY <1>2, Sizes DEF Keys
  <2>3. {k \in DOMAIN m : k \notin c .. i - 1} = {k \in DOMAIN m : k \in K}
    BY <1>3, <2>1, <2>2
  <2> QED
    BY <1>1, <1>4, <1>5, <2>3 DEF ReadEntry
<1>7. q \in MapType /\ \A j \in Keys : Look(q, j) = IF j \in K THEN Look(m, j) ELSE Corrupt
  BY <1>2, <1>4, RestrictLook
<1>8. p \in MapType /\ \A j \in Keys : Look(p, j) = IF j = i THEN v ELSE Look(q, j)
  BY <1>2, <1>5, <1>7, PutLook
<1>9. r.map = p /\ r.next = i + 1
  BY <1>6
<1>10. i + 1 \in 0 .. MaxSize
  BY <1>2, Sizes DEF Keys
<1>11. Reader(r)
  BY <1>6, <1>8, <1>9, <1>10 DEF Reader
<1>12. \A j \in Keys :
         Look(p, j) = IF j = i THEN v ELSE IF c <= j /\ j < i THEN Corrupt ELSE Look(m, j)
  BY <1>3, <1>7, <1>8
<1> QED
  BY <1>1, <1>9, <1>11, <1>12

Start(val) == [map |-> val, next |-> 0]

LEMMA StartReader ==
  ASSUME NEW val \in MapType, NEW at, at = Start(val)
  PROVE  Reader(at) /\ at.map = val /\ at.next = 0
<1>1. at.map = val /\ at.next = 0
  BY DEF Start
<1>2. at = [map |-> at.map, next |-> at.next]
  BY DEF Start
<1> QED
  BY <1>1, <1>2, Sizes DEF Reader

Reads(h, n, val, es) ==
  /\ h[0] = Start(val)
  /\ \A k \in 1 .. n : h[k] = ReadEntry(h[k - 1], es[k])

LEMMA ElementsFold ==
  ASSUME NEW val \in MapType, NEW n \in Nat, NEW es, DOMAIN es = 1 .. n,
         \A k \in 1 .. n : es[k] \in Element
  PROVE  \E h : Reads(h, n, val, es) /\ Seqs!FoldLeft(ReadEntry, Start(val), es) = h[n]
<1> DEFINE A == [map : MapType, next : 0 .. MaxSize]
           step == [k \in 1 .. n |-> [x \in A |-> ReadEntry(x, es[k])]]
<1>0. \A x : x \in A <=> Reader(x)
  BY DEF Reader
<1>1. ASSUME NEW x \in A, NEW k \in 1 .. n
      PROVE  ReadEntry(x, es[k]) \in A
  <2>1. Reader(x)
    BY <1>0
  <2>2. PICK r, e : e = es[k] /\ r = ReadEntry(x, e)
    OBVIOUS
  <2>3. e \in Element
    BY <2>2
  <2>4. Reader(r)
    BY <2>1, <2>2, <2>3, ReadEntryLook
  <2> HIDE DEF A
  <2> QED
    BY <1>0, <2>2, <2>4
<1>2. step \in Steps(A, n)
  BY <1>1 DEF Steps
<1>3. PICK g : FoldOf(g, A, Start(val), n, step)
  <2>1. Start(val) \in A
    <3>1. Reader(Start(val))
      BY StartReader
    <3> HIDE DEF A
    <3> QED
      BY <1>0, <3>1
  <2> HIDE DEF step, A
  <2> QED
    BY <1>2, <2>1, FoldDefined
<1>4. g = [s \in SUBSET (1 .. n) |-> IF s = {} THEN Start(val)
                                     ELSE ReadEntry(g[s \ {Biggest(s)}], es[Biggest(s)])]
  <2>1. ASSUME NEW s \in SUBSET (1 .. n), s # {}
        PROVE  step[Biggest(s)][g[s \ {Biggest(s)}]] = ReadEntry(g[s \ {Biggest(s)}], es[Biggest(s)])
    <3>1. Biggest(s) \in 1 .. n /\ s \ {Biggest(s)} \in SUBSET (1 .. n)
      BY <2>1, BiggestProps
    <3>2. g[s \ {Biggest(s)}] \in A
      BY <1>3, <3>1 DEF FoldOf
    <3> HIDE DEF A
    <3> QED
      BY <3>1, <3>2
  <2> HIDE DEF step, A
  <2> QED
    BY <1>3, <2>1 DEF FoldOf
<1> HIDE DEF step, A
<1>5. PICK it :
        /\ it = [s \in SUBSET (1 .. n) |-> IF s = {} THEN Start(val)
                                           ELSE ReadEntry(it[s \ {Biggest(s)}], es[Biggest(s)])]
        /\ Seqs!FoldLeft(ReadEntry, Start(val), es) = it[1 .. n]
  <2>1. \A s : Seqs!Max(s) = Biggest(s)
    BY DEF Seqs!Max, Biggest
  <2>2. g = [s \in SUBSET DOMAIN es |-> IF s = {} THEN Start(val)
               ELSE ReadEntry(g[s \ {Seqs!Max(s)}], es[Seqs!Max(s)])]
    BY <1>4, <2>1
  <2>3. \E it : /\ it = [s \in SUBSET DOMAIN es |-> IF s = {} THEN Start(val)
                           ELSE ReadEntry(it[s \ {Seqs!Max(s)}], es[Seqs!Max(s)])]
                /\ Seqs!FoldLeft(ReadEntry, Start(val), es) = it[DOMAIN es]
    BY <2>2 DEF Seqs!FoldLeft, Seqs!MapThenFoldSet
  <2>4. PICK it :
          /\ it = [s \in SUBSET DOMAIN es |-> IF s = {} THEN Start(val)
                     ELSE ReadEntry(it[s \ {Seqs!Max(s)}], es[Seqs!Max(s)])]
          /\ Seqs!FoldLeft(ReadEntry, Start(val), es) = it[DOMAIN es]
    BY <2>3
  <2>5. it = [s \in SUBSET (1 .. n) |-> IF s = {} THEN Start(val)
                                        ELSE ReadEntry(it[s \ {Biggest(s)}], es[Biggest(s)])]
    BY <2>1, <2>4
  <2> QED
    BY <2>4, <2>5
<1>6. it[1 .. 0] = Start(val) /\ \A k \in 1 .. n : it[1 .. k] = ReadEntry(it[1 .. k - 1], es[k])
  <2>1. 1 .. 0 = {} /\ {} \in SUBSET (1 .. n)
    OBVIOUS
  <2>2. ASSUME NEW k \in 1 .. n
        PROVE  it[1 .. k] = ReadEntry(it[1 .. k - 1], es[k])
    <3>1. 1 .. k \in SUBSET (1 .. n) /\ k \in Nat /\ k # 0
      OBVIOUS
    <3>2. Biggest(1 .. k) = k /\ (1 .. k) \ {k} = 1 .. k - 1 /\ 1 .. k # {}
      BY <3>1, BiggestPrefix
    <3>3. it[1 .. k] = ReadEntry(it[(1 .. k) \ {Biggest(1 .. k)}], es[Biggest(1 .. k)])
      BY <1>5, <3>1, <3>2
    <3> QED
      BY <3>2, <3>3
  <2> QED
    BY <1>5, <2>1, <2>2
<1> DEFINE h == [k \in 0 .. n |-> it[1 .. k]]
<1>7. Reads(h, n, val, es)
  BY <1>6 DEF Reads
<1>8. h[n] = it[1 .. n]
  OBVIOUS
<1> HIDE DEF h
<1> QED
  BY <1>5, <1>7, <1>8

\* The entries are the elements of l in order.
Listing(es, n, l) ==
  /\ \A k \in 1 .. n : es[k] \in Element /\ es[k].value = Look(l, es[k].key)
  /\ \A j, k \in 1 .. n : j < k => es[j].key < es[k].key
  /\ \A i \in Keys : Look(l, i) # Corrupt => \E k \in 1 .. n : es[k].key = i

\* Below the reader's key its map is the one sent, above it the one there was.
UpToDate(at, k, es, val, l) ==
  /\ Reader(at)
  /\ at.next = IF k = 0 THEN 0 ELSE es[k].key + 1
  /\ \A j \in Keys : Look(at.map, j) = IF j < at.next THEN Look(l, j) ELSE Look(val, j)

LEMMA ReadOn ==
  ASSUME NEW l, NEW val, NEW n \in Nat, NEW es, Listing(es, n, l), NEW k \in 0 .. n - 1,
         NEW at, UpToDate(at, k, es, val, l), NEW r, r = ReadEntry(at, es[k + 1])
  PROVE  UpToDate(r, k + 1, es, val, l)
<1>1. k \in Nat /\ k + 1 \in 1 .. n /\ k + 1 # 0
  OBVIOUS
<1>2. PICK e, i, c : e = es[k + 1] /\ i = e.key /\ c = at.next
  OBVIOUS
<1>3. e \in Element /\ e.value = Look(l, i) /\ i \in Keys
  BY <1>1, <1>2 DEF Listing, Element
<1>4. Reader(at) /\ c \in 0 .. MaxSize
  BY <1>2 DEF UpToDate, Reader
<1>5. /\ Reader(r) /\ r.next = i + 1
      /\ \A j \in Keys :
           Look(r.map, j) = IF j = e.key THEN e.value
                             ELSE IF at.next <= j /\ j < e.key THEN Corrupt ELSE Look(at.map, j)
  BY <1>2, <1>3, <1>4, ReadEntryLook
<1>6. c <= i
  <2>1. CASE k = 0
    BY <1>2, <1>3, <2>1, KeyRange DEF UpToDate
  <2>2. CASE k # 0
    <3>1. k \in 1 .. n /\ k < k + 1
      BY <1>1, <2>2
    <3>2. es[k].key < i /\ es[k].key \in Keys
      BY <1>1, <1>2, <3>1 DEF Listing, Element
    <3>3. c = es[k].key + 1
      BY <1>2, <2>2 DEF UpToDate
    <3> QED
      BY <1>3, <3>2, <3>3, KeyRange
  <2> QED
    BY <2>1, <2>2
<1>7. ASSUME NEW j \in Keys, c <= j, j < i
      PROVE  Look(l, j) = Corrupt
  <2> SUFFICES ASSUME Look(l, j) # Corrupt
               PROVE  FALSE
    OBVIOUS
  <2>1. PICK x \in 1 .. n : es[x].key = j
    BY DEF Listing
  <2>2. ~(k + 1 < x) /\ k + 1 # x
    <3>1. k + 1 < x => i < j
      BY <1>1, <1>2, <2>1 DEF Listing
    <3>2. k + 1 # x
      BY <1>2, <1>3, <1>7, <2>1, KeyRange
    <3> QED
      BY <1>3, <1>7, <3>1, <3>2, KeyRange
  <2>3. x <= k /\ k \in 1 .. n
    BY <1>1, <2>2
  <2>4. c = es[k].key + 1
    BY <1>2, <2>3 DEF UpToDate
  <2>5. j <= es[k].key /\ es[k].key \in Keys
    <3>1. es[k].key \in Keys
      BY <2>3 DEF Listing, Element
    <3>2. x = k \/ x < k
      BY <2>3
    <3>3. x < k => j < es[k].key
      BY <2>1, <2>3 DEF Listing
    <3> QED
      BY <2>1, <3>1, <3>2, <3>3, KeyRange
  <2> QED
    BY <1>7, <2>4, <2>5, KeyRange
<1>8. \A j \in Keys : Look(at.map, j) = IF j < c THEN Look(l, j) ELSE Look(val, j)
  BY <1>2 DEF UpToDate
<1>9. ASSUME NEW j \in Keys
      PROVE  Look(r.map, j) = IF j < i + 1 THEN Look(l, j) ELSE Look(val, j)
  <2>1. CASE j = i
    BY <1>2, <1>3, <1>5, <2>1, KeyRange
  <2>2. CASE j # i /\ c <= j /\ j < i
    BY <1>2, <1>3, <1>5, <1>7, <2>2, KeyRange
  <2>3. CASE j < c
    BY <1>2, <1>3, <1>4, <1>5, <1>6, <1>8, <2>3, KeyRange
  <2>4. CASE j > i
    BY <1>2, <1>3, <1>4, <1>5, <1>6, <1>8, <2>4, KeyRange
  <2> QED
    BY <1>3, <1>4, <2>1, <2>2, <2>3, <2>4, KeyRange
<1>10. r.next = IF k + 1 = 0 THEN 0 ELSE es[k + 1].key + 1
  BY <1>1, <1>2, <1>5
<1>11. \A j \in Keys : Look(r.map, j) = IF j < r.next THEN Look(l, j) ELSE Look(val, j)
  BY <1>5, <1>9
<1> QED
  BY <1>5, <1>10, <1>11 DEF UpToDate

LEMMA ReadAll ==
  ASSUME NEW l, NEW val \in MapType, NEW n \in Nat, NEW es, Listing(es, n, l),
         NEW h, Reads(h, n, val, es)
  PROVE  UpToDate(h[n], n, es, val, l)
<1> DEFINE S == {k \in 0 .. n : UpToDate(h[k], k, es, val, l)}
<1>1. 0 \in S
  <2>1. PICK at : at = Start(val)
    OBVIOUS
  <2>2. Reader(at) /\ at.map = val /\ at.next = 0
    BY <2>1, StartReader
  <2>3. \A j \in Keys : ~(j < 0)
    BY KeyRange
  <2>4. UpToDate(at, 0, es, val, l)
    BY <2>2, <2>3 DEF UpToDate
  <2> QED
    BY <2>1, <2>4 DEF Reads
<1>2. ASSUME NEW k \in 0 .. n - 1, k \in S
      PROVE  k + 1 \in S
  <2>1. PICK at, r : at = h[k] /\ r = h[k + 1]
    OBVIOUS
  <2>2. k + 1 \in 1 .. n /\ (k + 1) - 1 = k /\ k + 1 \in 0 .. n
    OBVIOUS
  <2>3. r = ReadEntry(at, es[k + 1])
    BY <2>1, <2>2 DEF Reads
  <2>4. UpToDate(at, k, es, val, l)
    BY <1>2, <2>1
  <2>5. UpToDate(r, k + 1, es, val, l)
    BY <2>3, <2>4, ReadOn
  <2> QED
    BY <2>1, <2>2, <2>5
<1>3. 0 .. n \subseteq S
  <2> HIDE DEF S
  <2> QED
    BY <1>1, <1>2, UpTo
<1> QED
  BY <1>3

ReadTo(val, es) == Seqs!FoldLeft(ReadEntry, Start(val), es)

LEMMA ReadToReads ==
  ASSUME NEW val \in MapType, NEW n \in Nat, NEW es, DOMAIN es = 1 .. n,
         \A k \in 1 .. n : es[k] \in Element
  PROVE  \E h : Reads(h, n, val, es) /\ ReadTo(val, es) = h[n]
BY ElementsFold DEF ReadTo

MapElement(l, k) == [key |-> Truncate(k, key_bits), value |-> l[k]]

LEMMA MapSerializeValueIs ==
  ASSUME NEW l, NEW s, s = InOrder(DOMAIN l), NEW n, n = Len(s),
         NEW es, es = [i \in 1 .. n |-> MapElement(l, s[i])]
  PROVE  SerializeValue(l) = [num |-> Truncate(n, key_bits), entries |-> es]
BY DEF SerializeValue, MapElement

LEMMA MapDeserializeValueIs ==
  ASSUME NEW val, NEW m, NEW es, es = SubSeq(m.entries, 1, m.num), NEW at, at = ReadTo(val, es)
  PROVE  DeserializeValue(val, m) = Restrict(at.map, {k \in DOMAIN at.map : k < at.next})
BY DEF DeserializeValue, ReadEntries, ReadTo, Start

LEMMA MapElementIs ==
  ASSUME NEW l \in MapType, NEW k \in DOMAIN l, NEW e, e = MapElement(l, k)
  PROVE  e \in Element /\ e.key = k /\ e.value = Look(l, k)
<1>1. k \in Keys /\ l[k] \in Elem /\ Look(l, k) = l[k]
  BY LookProps
<1>2. Truncate(k, key_bits) = k
  <2>1. k \in 0 .. MaxSize
    BY <1>1, Sizes DEF Keys
  <2> QED
    BY <2>1, KeyFits
<1>3. PICK v : v = l[k]
  OBVIOUS
<1>4. e = [key |-> k, value |-> v]
  BY <1>2, <1>3 DEF MapElement
<1>5. e.key = k /\ e.value = v
  BY <1>4
<1> QED
  BY <1>1, <1>3, <1>4, <1>5 DEF Element

LEMMA MapValue ==
  ASSUME NEW l \in MapType, NEW val \in MapType, NEW m, m = SerializeValue(l)
  PROVE  m \in FieldSent /\ DeserializeValue(val, m) = l
<1>1. PICK W : W = DOMAIN l
  OBVIOUS
<1>2. W \in SUBSET Keys
  BY <1>1, MapProps
<1>3. PICK s, n : s = InOrder(W) /\ n \in 0 .. MaxSize /\ n \in Nat /\ Ordered(s, n, W)
  BY <1>2, KeysInOrder
<1>4. Len(s) = n /\ s \in [1 .. n -> W]
  BY <1>3 DEF Ordered
<1>5. PICK es : es = [i \in 1 .. n |-> MapElement(l, s[i])]
  OBVIOUS
<1>6. Truncate(n, key_bits) = n
  BY <1>3, KeyFits
<1>7. m = [num |-> n, entries |-> es]
  <2>1. s = InOrder(DOMAIN l) /\ n = Len(s)
    BY <1>1, <1>3, <1>4
  <2> QED
    BY <1>5, <1>6, <2>1, MapSerializeValueIs
<1>8. ASSUME NEW i \in 1 .. n
      PROVE  es[i] \in Element /\ es[i].key = s[i] /\ es[i].value = Look(l, s[i])
  <2>1. PICK k, e : k = s[i] /\ e = es[i]
    OBVIOUS
  <2>2. k \in DOMAIN l /\ e = MapElement(l, k)
    BY <1>1, <1>4, <1>5, <2>1
  <2>3. e \in Element /\ e.key = k /\ e.value = Look(l, k)
    BY <2>2, MapElementIs
  <2> QED
    BY <2>1, <2>3
<1>9. es \in [1 .. n -> Element]
  BY <1>5, <1>8
<1>10. DOMAIN es = 1 .. n /\ es \in Seq(Element) /\ Len(es) = n
  BY <1>3, <1>9, FunctionSeq
<1>11. m.num = n /\ m.entries = es
  BY <1>7
<1>12. m \in FieldSent
  <2>1. \A i \in 1 .. n : es[i] \in [key : Nat, value : Elem]
    BY <1>8, Sizes DEF Element, Keys
  <2>2. es \in [1 .. n -> [key : Nat, value : Elem]]
    BY <1>5, <2>1
  <2>3. es \in Seq([key : Nat, value : Elem])
    BY <1>3, <2>2, FunctionSeq
  <2> QED
    BY <1>3, <1>7, <2>3 DEF FieldSent
<1>13. es = SubSeq(m.entries, 1, m.num)
  BY <1>10, <1>11, WholeSubSeq
<1>14. Listing(es, n, l)
  <2>1. \A i \in 1 .. n : es[i] \in Element /\ es[i].value = Look(l, es[i].key)
    BY <1>8
  <2>2. \A i, j \in 1 .. n : i < j => es[i].key < es[j].key
    BY <1>3, <1>8 DEF Ordered
  <2>3. ASSUME NEW k \in Keys, Look(l, k) # Corrupt
        PROVE  \E i \in 1 .. n : es[i].key = k
    <3>1. k \in W
      BY <1>1, <2>3, LookProps
    <3>2. PICK i \in 1 .. n : s[i] = k
      BY <1>3, <3>1 DEF Ordered, Covers
    <3> QED
      BY <1>8, <3>2
  <2> QED
    BY <2>1, <2>2, <2>3 DEF Listing
<1>15. PICK h : Reads(h, n, val, es) /\ ReadTo(val, es) = h[n]
  BY <1>3, <1>8, <1>10, ReadToReads
<1>16. PICK at : at = ReadTo(val, es)
  OBVIOUS
<1>17. UpToDate(at, n, es, val, l)
  <2>1. n \in Nat
    BY <1>3
  <2>2. UpToDate(h[n], n, es, val, l)
    BY <1>14, <1>15, <2>1, ReadAll
  <2> QED
    BY <1>15, <1>16, <2>2
<1>18. PICK read, N : read = at.map /\ N = at.next
  OBVIOUS
<1>19. /\ read \in MapType /\ N \in 0 .. MaxSize /\ N = (IF n = 0 THEN 0 ELSE es[n].key + 1)
       /\ \A j \in Keys : Look(read, j) = IF j < N THEN Look(l, j) ELSE Look(val, j)
  BY <1>17, <1>18 DEF UpToDate, Reader
<1>20. PICK r : r = DeserializeValue(val, m)
  OBVIOUS
<1>21. PICK K : K = {k \in Keys : k < N}
  OBVIOUS
<1>22. r = Restrict(read, {k \in DOMAIN read : k \in K})
  <2>1. r = Restrict(read, {k \in DOMAIN read : k < N})
    BY <1>13, <1>16, <1>18, <1>20, MapDeserializeValueIs
  <2>2. {k \in DOMAIN read : k < N} = {k \in DOMAIN read : k \in K}
    BY <1>19, <1>21, MapProps
  <2> QED
    BY <2>1, <2>2
<1>23. r \in MapType /\ \A j \in Keys : Look(r, j) = IF j \in K THEN Look(read, j) ELSE Corrupt
  BY <1>19, <1>22, RestrictLook
<1>24. ASSUME NEW j \in Keys, Look(l, j) # Corrupt
       PROVE  j < N
  <2>1. PICK k \in 1 .. n : es[k].key = j
    BY <1>14, <1>24 DEF Listing
  <2>2. n \in 1 .. n /\ n # 0
    BY <1>3, <2>1
  <2>3. es[n].key \in Keys
    BY <1>14, <2>2 DEF Listing, Element
  <2>4. k = n \/ k < n
    BY <1>3, <2>1
  <2>5. k < n => j < es[n].key
    BY <1>14, <2>1, <2>2 DEF Listing
  <2> QED
    BY <1>19, <2>1, <2>2, <2>3, <2>4, <2>5, KeyRange
<1>25. \A j \in Keys : Look(r, j) = Look(l, j)
  BY <1>19, <1>21, <1>23, <1>24
<1>26. r = l
  BY <1>23, <1>25, SameLook
<1> QED
  BY <1>12, <1>20, <1>26

------------------------------------------------------------------------------
(***************************************************************************)
(* The fields of the struct.                                               *)
(***************************************************************************)
Names == {"map", "list", "spare", "row"}

FieldType(f) ==
  CASE f = "map"   -> MapType
    [] f = "list"  -> ListType
    [] f = "spare" -> Elem \cup {Null}
    [] f = "row"   -> RowType

LEMMA FieldTypes ==
  /\ FieldType("map") = MapType /\ FieldType("list") = ListType
  /\ FieldType("spare") = Elem \cup {Null} /\ FieldType("row") = RowType
BY DEF FieldType

LEMMA StateFields ==
  ASSUME NEW s \in StateType
  PROVE  s = [f \in Names |-> s[f]] /\ \A f \in Names : s[f] \in FieldType(f)
<1>1. s = [f \in Names |-> s[f]]
  BY DEF StateType, Names
<1>2. s["map"] \in MapType /\ s["list"] \in ListType /\ s["spare"] \in Elem \cup {Null} /\ s["row"] \in RowType
  BY DEF StateType
<1> QED
  BY <1>1, <1>2, FieldTypes DEF Names

LEMMA StateIs ==
  ASSUME NEW s, s = [f \in Names |-> s[f]], \A f \in Names : s[f] \in FieldType(f)
  PROVE  s \in StateType
<1>1. s["map"] \in MapType /\ s["list"] \in ListType /\ s["spare"] \in Elem \cup {Null} /\ s["row"] \in RowType
  BY FieldTypes DEF Names
<1>2. s = [map |-> s["map"], list |-> s["list"], spare |-> s["spare"], row |-> s["row"]]
  BY DEF Names
<1> QED
  BY <1>1, <1>2 DEF StateType

LEMMA NotCorrupt ==
  ASSUME NEW f \in Names, NEW v \in FieldType(f)
  PROVE  v # Corrupt
BY FieldTypes, NullAssumption DEF Names

LEMMA DefaultFields ==
  /\ DefaultState \in StateType
  /\ DefaultState["spare"] = Null
<1>1. DefaultElem \in Elem
  BY StructAssumption
<1>2. <<DefaultElem, DefaultElem>> \in RowType
  BY <1>1 DEF RowType
<1>3. List!EmptyList \in ListType
  <2>1. << >> \in Seq(Elem) /\ Len(<< >>) <= ListSize
    BY Sizes
  <2> QED
    BY <2>1, ListIs DEF List!EmptyList
<1> QED
  BY <1>2, <1>3, EmptyIsMap DEF DefaultState, StateType

LEMMA FieldValue ==
  ASSUME NEW f \in Names, NEW v \in FieldType(f), NEW val \in FieldType(f), NEW m, m = SerializeField(f, v)
  PROVE  m \in FieldSent /\ DeserializeField(f, val, m) = v
<1>1. CASE f = "map"
  <2>1. m = SerializeValue(v) /\ DeserializeField(f, val, m) = DeserializeValue(val, m)
    BY <1>1 DEF SerializeField, DeserializeField
  <2>2. v \in MapType /\ val \in MapType
    BY <1>1, FieldTypes
  <2> QED
    BY <2>1, <2>2, MapValue
<1>2. CASE f = "list"
  <2>1. m = List!SerializeValue(v) /\ DeserializeField(f, val, m) = List!DeserializeValue(val, m)
    BY <1>2 DEF SerializeField, DeserializeField
  <2>2. v \in ListType /\ val \in ListType
    BY <1>2, FieldTypes
  <2> QED
    BY <2>1, <2>2, ListValue
<1>3. CASE f = "spare"
  <2>1. m = (IF v = Null THEN <<0>> ELSE <<1, v>>)
    BY <1>3 DEF SerializeField
  <2>2. DeserializeField(f, val, m) = IF m[1] = 1 THEN m[2] ELSE Null
    BY <1>3 DEF DeserializeField
  <2>3. v \in Elem \cup {Null}
    BY <1>3, FieldTypes
  <2> QED
    BY <2>1, <2>2, <2>3 DEF FieldSent, SpareSent
<1>4. CASE f = "row"
  <2>1. m = v /\ DeserializeField(f, val, m) = [i \in DOMAIN val |-> m[i]]
    BY <1>4 DEF SerializeField, DeserializeField
  <2>2. v \in RowType /\ val \in RowType
    BY <1>4, FieldTypes
  <2> QED
    BY <2>1, <2>2 DEF FieldSent, RowType
<1> QED
  BY <1>1, <1>2, <1>3, <1>4 DEF Names

\* A delta of a field, or none, leaves the receiver's field in agreement.
LEMMA FieldDeltas ==
  ASSUME NEW f \in Names, NEW to \in FieldType(f), NEW from \in FieldType(f), NEW val \in FieldType(f),
         NEW w \in BOOLEAN, Agrees(w, f, val, from),
         f = "spare" /\ to # Null /\ from # Null /\ to # from => w,
         NEW m, m = SerializeFieldDelta(f, to, from)
  PROVE  /\ m = Unchanged => Agrees(w, f, val, to)
         /\ m # Unchanged => m \in FieldDelta /\ DeserializeFieldDelta(f, val, m) = to
<1>1. CASE f = "map"
  <2>1. val = from
    BY <1>1, StructAssumption DEF Agrees
  <2>2. m = SerializeDelta(to, from) /\ DeserializeFieldDelta(f, val, m) = DeserializeDelta(val, m)
    BY <1>1 DEF SerializeFieldDelta, DeserializeFieldDelta
  <2>3. to \in MapType /\ from \in MapType
    BY <1>1, FieldTypes
  <2>4. /\ m = Unchanged => to = from
        /\ m # Unchanged => m \in FieldDelta /\ DeserializeDelta(from, m) = to
    BY <2>2, <2>3, MapDelta
  <2> QED
    BY <2>1, <2>2, <2>4 DEF Agrees
<1>2. CASE f = "list"
  <2>1. val = from
    BY <1>2, StructAssumption DEF Agrees
  <2>2. m = List!SerializeDelta(to, from) /\ DeserializeFieldDelta(f, val, m) = List!DeserializeDelta(val, m)
    BY <1>2 DEF SerializeFieldDelta, DeserializeFieldDelta
  <2>3. to \in ListType /\ from \in ListType
    BY <1>2, FieldTypes
  <2>4. /\ m = Unchanged => to = from
        /\ m # Unchanged => m \in FieldDelta /\ List!DeserializeDelta(from, m) = to
    BY <2>2, <2>3, ListDelta
  <2> QED
    BY <2>1, <2>2, <2>4 DEF Agrees
<1>3. CASE f = "spare"
  <2>1. PICK p : p = SerializeField(f, to)
    OBVIOUS
  <2>2. m = IF SameOptional(to, from) THEN Unchanged ELSE p
    BY <1>3, <2>1 DEF SerializeFieldDelta
  <2>3. p \in SpareSent /\ p \in FieldDelta
    <3>1. to \in Elem \cup {Null}
      BY <1>3, FieldTypes
    <3>2. p = IF to = Null THEN <<0>> ELSE <<1, to>>
      BY <1>3, <2>1 DEF SerializeField
    <3> QED
      BY <3>1, <3>2 DEF SpareSent, FieldDelta
  <2>4. p # Unchanged
    BY <2>3, NullAssumption
  <2>5. DeserializeFieldDelta(f, val, p) = to
    <3>1. DeserializeFieldDelta(f, val, p) = DeserializeField(f, val, p)
      BY <1>3 DEF DeserializeFieldDelta
    <3> QED
      BY <2>1, <3>1, FieldValue
  <2>6. SameOptional(to, from) <=> (to = Null <=> from = Null)
    BY DEF SameOptional
  <2>7. ASSUME SameOptional(to, from)
        PROVE  Agrees(w, f, val, to)
    <3>1. CASE to = from
      BY <3>1
    <3>2. CASE to # from
      <4>1. w /\ to # Null /\ from # Null
        BY <1>3, <2>6, <2>7, <3>2
      <4>2. CASE val = from
        BY <1>3, <4>1, <4>2 DEF Agrees, SameOptional
      <4>3. CASE f \in Static /\ val = DefaultState[f]
        BY <4>3 DEF Agrees
      <4>4. CASE SameOptional(val, from)
        BY <1>3, <4>1, <4>4 DEF Agrees, SameOptional
      <4> QED
        BY <4>2, <4>3, <4>4 DEF Agrees
    <3> QED
      BY <3>1, <3>2
  <2> QED
    BY <2>2, <2>3, <2>4, <2>5, <2>7
<1>4. CASE f = "row"
  <2>1. PICK p : p = SerializeField(f, to)
    OBVIOUS
  <2>2. m = IF to = from THEN Unchanged ELSE p
    BY <1>4, <2>1 DEF SerializeFieldDelta
  <2>3. p = to /\ p \in RowType /\ p \in FieldDelta
    BY <1>4, <2>1, FieldTypes DEF SerializeField, FieldDelta
  <2>4. p # Unchanged
    BY <2>3, NullAssumption
  <2>5. DeserializeFieldDelta(f, val, p) = to
    <3>1. DeserializeFieldDelta(f, val, p) = DeserializeField(f, val, p)
      BY <1>4 DEF DeserializeFieldDelta
    <3> QED
      BY <2>1, <3>1, FieldValue
  <2> QED
    BY <2>2, <2>3, <2>4, <2>5
<1> QED
  BY <1>1, <1>2, <1>3, <1>4 DEF Names

------------------------------------------------------------------------------
(***************************************************************************)
(* The struct.                                                             *)
(***************************************************************************)
LEMMA FieldNames ==
  /\ DOMAIN Fields = 1 .. 4 /\ Len(Fields) = 4
  /\ Fields[1] = "map" /\ Fields[2] = "list" /\ Fields[3] = "spare" /\ Fields[4] = "row"
  /\ Sent = Names \ Static
  /\ \A i \in 1 .. 4 : Fields[i] \in Names
  /\ \A f \in Names : \E i \in 1 .. 4 : Fields[i] = f
  /\ \A i, j \in 1 .. 4 : Fields[i] = Fields[j] => i = j
<1>1. /\ DOMAIN Fields = 1 .. 4 /\ Len(Fields) = 4
      /\ Fields[1] = "map" /\ Fields[2] = "list" /\ Fields[3] = "spare" /\ Fields[4] = "row"
  BY DEF Fields
<1>2. \A i \in 1 .. 4 : i = 1 \/ i = 2 \/ i = 3 \/ i = 4
  OBVIOUS
<1>3. \A i \in 1 .. 4 : Fields[i] \in Names
  BY <1>1, <1>2 DEF Names
<1>4. \A f \in Names : \E i \in 1 .. 4 : Fields[i] = f
  <2>1. 1 \in 1 .. 4 /\ 2 \in 1 .. 4 /\ 3 \in 1 .. 4 /\ 4 \in 1 .. 4
    OBVIOUS
  <2> QED
    BY <1>1, <2>1 DEF Names
<1>5. \A i, j \in 1 .. 4 : Fields[i] = Fields[j] => i = j
  BY <1>1, <1>2
<1>6. Sent = Names \ Static
  BY <1>1, <1>3, <1>4 DEF Sent
<1> QED
  BY <1>1, <1>3, <1>4, <1>5, <1>6

LEMMA WholeIs ==
  ASSUME NEW s \in StateType
  PROVE  Whole(s) = s
<1>1. \A f \in DOMAIN s : s[f] # Corrupt
  BY StateFields, NotCorrupt
<1> QED
  BY <1>1 DEF Whole

\* What a full state leaves of the struct it is decoded onto.
LEMMA StructValue ==
  ASSUME NEW s \in StateType, NEW val \in StateType, NEW m, m = SerializeStruct(s),
         NEW r, r = DeserializeStruct(val, m)
  PROVE  /\ m \in StructSent /\ r \in StateType
         /\ r = [f \in Names |-> IF f \in Static THEN val[f] ELSE s[f]]
<1>1. PICK q : q = [f \in Names |-> IF f \in Static THEN val[f] ELSE s[f]]
  OBVIOUS
<1>2. /\ s = [f \in Names |-> s[f]] /\ \A f \in Names : s[f] \in FieldType(f)
      /\ val = [f \in Names |-> val[f]] /\ \A f \in Names : val[f] \in FieldType(f)
  BY StateFields
<1>3. m = [f \in Sent |-> SerializeField(f, s[f])]
  BY DEF SerializeStruct
<1>4. ASSUME NEW f \in Sent
      PROVE  m[f] \in FieldSent /\ DeserializeField(f, val[f], m[f]) = s[f]
  <2>1. PICK v, x, p : v = s[f] /\ x = val[f] /\ p = m[f]
    OBVIOUS
  <2>2. f \in Names
    BY FieldNames
  <2>3. v \in FieldType(f) /\ x \in FieldType(f)
    BY <1>2, <2>1, <2>2
  <2>4. p = SerializeField(f, v)
    BY <1>3, <2>1
  <2>5. p \in FieldSent /\ DeserializeField(f, x, p) = v
    BY <2>2, <2>3, <2>4, FieldValue
  <2> QED
    BY <2>1, <2>5
<1>5. m \in StructSent
  BY <1>3, <1>4 DEF StructSent
<1>6. q \in StateType
  <2>1. q = [f \in Names |-> q[f]] /\ \A f \in Names : q[f] \in FieldType(f)
    BY <1>1, <1>2
  <2> QED
    BY <2>1, StateIs
<1>7. r = Whole(q)
  <2>1. [f \in DOMAIN val |-> IF f \in Sent THEN DeserializeField(f, val[f], m[f]) ELSE val[f]] = q
    <3>1. DOMAIN val = Names
      BY <1>2
    <3>2. \A f \in Names : f \in Sent <=> f \notin Static
      BY FieldNames
    <3>3. \A f \in Names : (IF f \in Sent THEN DeserializeField(f, val[f], m[f]) ELSE val[f]) = q[f]
      BY <1>1, <1>4, <3>2
    <3> QED
      BY <1>1, <3>1, <3>3
  <2> QED
    BY <2>1 DEF DeserializeStruct
<1> QED
  BY <1>1, <1>5, <1>6, <1>7, WholeIs

FieldChange(i, to, from) == SerializeFieldDelta(Fields[i], to[Fields[i]], from[Fields[i]])

LEMMA FieldsInOrder ==
  ASSUME NEW W \in SUBSET (1 .. 4)
  PROVE  \E s, n : s = InOrder(W) /\ n \in 0 .. 4 /\ Ordered(s, n, W)
<1>1. PICK s, n : s = InOrder(W) /\ n = Cardinality(W)
  OBVIOUS
<1>2. /\ Cardinality(W) \in Nat /\ InOrder(W) \in [1 .. Cardinality(W) -> W]
      /\ Len(InOrder(W)) = Cardinality(W)
      /\ \A i, j \in 1 .. Cardinality(W) : i < j => InOrder(W)[i] < InOrder(W)[j]
      /\ Covers(InOrder(W), Cardinality(W), W)
  <2>1. PICK a \in Int, b \in Int : a = 1 /\ b = 4
    OBVIOUS
  <2>2. W \in SUBSET (a .. b)
    BY <2>1
  <2> HIDE <2>1
  <2> QED
    BY <2>2, InOrderProps
<1>3. n <= 4
  <2>1. Cardinality(1 .. 4) = 4 /\ IsFiniteSet(1 .. 4)
    <3>1. PICK a \in Int, b \in Int : a = 1 /\ b = 4
      OBVIOUS
    <3>2. IsFiniteSet(a .. b) /\ Cardinality(a .. b) = IF a > b THEN 0 ELSE b - a + 1
      BY FS_Interval
    <3> QED
      BY <3>1, <3>2
  <2>2. Cardinality(W) <= Cardinality(1 .. 4)
    BY <2>1, FS_Subset
  <2> QED
    BY <1>1, <2>1, <2>2
<1>4. Ordered(s, n, W)
  BY <1>1, <1>2 DEF Ordered
<1> QED
  BY <1>1, <1>2, <1>3, <1>4

LEMMA FieldBitsFit ==
  ASSUME NEW x \in 0 .. 4
  PROVE  Truncate(x, FieldBits) = x
<1>1. 4 \in Nat /\ 4 < 2 ^ 32
  OBVIOUS
<1> QED
  BY <1>1, FieldFits, FieldNames DEF FieldBits

\* The fields of a delta: those that changed, in order.
StructFields(fs, s, n, to, from) ==
  /\ fs \in Seq([index : Nat, delta : FieldDelta]) /\ Len(fs) = n
  /\ \A k \in 1 .. n : fs[k].index = s[k] - 1 /\ fs[k].delta = FieldChange(s[k], to, from)

LEMMA StructSerializeDeltaIs ==
  ASSUME NEW to, NEW from, NEW s, s = InOrder({i \in 1 .. 4 : FieldChange(i, to, from) # Unchanged}),
         NEW n, n = Len(s), DOMAIN s = 1 .. n
  PROVE  SerializeStructDelta(to, from) =
           IF s = << >> THEN Unchanged
           ELSE [num    |-> Truncate(n, FieldBits),
                 fields |-> [k \in 1 .. n |-> [index |-> Truncate(s[k] - 1, FieldBits),
                                               delta |-> FieldChange(s[k], to, from)]]]
BY FieldNames DEF SerializeStructDelta, FieldChange

\* Every field that changed has a delta that can be sent.
Sendable(W, to, from) == \A i \in W : FieldChange(i, to, from) \in FieldDelta

LEMMA StructWritten ==
  ASSUME NEW to, NEW from, NEW W, W = {i \in 1 .. 4 : FieldChange(i, to, from) # Unchanged},
         Sendable(W, to, from), NEW m, m = SerializeStructDelta(to, from)
  PROVE  \E s, n : /\ n \in 0 .. 4 /\ Ordered(s, n, W)
                   /\ n = 0 => m = Unchanged
                   /\ n # 0 => /\ m \in StructDelta /\ m.num = n
                               /\ StructFields(m.fields, s, n, to, from)
<1>1. W \in SUBSET (1 .. 4)
  OBVIOUS
<1>2. PICK s, n : s = InOrder(W) /\ n \in 0 .. 4 /\ Ordered(s, n, W)
  BY <1>1, FieldsInOrder
<1>3. s \in [1 .. n -> W] /\ Len(s) = n /\ DOMAIN s = 1 .. n
  BY <1>2 DEF Ordered
<1>4. PICK fs : fs = [k \in 1 .. n |-> [index |-> Truncate(s[k] - 1, FieldBits),
                                        delta |-> FieldChange(s[k], to, from)]]
  OBVIOUS
<1>5. Truncate(n, FieldBits) = n
  BY <1>2, FieldBitsFit
<1>6. m = IF s = << >> THEN Unchanged ELSE [num |-> n, fields |-> fs]
  <2>1. SerializeStructDelta(to, from) =
          IF s = << >> THEN Unchanged ELSE [num |-> Truncate(n, FieldBits), fields |-> fs]
    BY <1>2, <1>3, <1>4, StructSerializeDeltaIs
  <2> QED
    BY <1>5, <2>1
<1>7. ASSUME NEW k \in 1 .. n
      PROVE  /\ fs[k] \in [index : Nat, delta : FieldDelta]
             /\ fs[k].index = s[k] - 1 /\ fs[k].delta = FieldChange(s[k], to, from)
  <2>1. PICK i, d : i = s[k] /\ d = FieldChange(s[k], to, from)
    OBVIOUS
  <2>2. i \in W /\ i \in 1 .. 4 /\ d \in FieldDelta
    BY <1>1, <1>3, <2>1 DEF Sendable
  <2>3. i - 1 \in 0 .. 4 /\ i - 1 \in Nat
    BY <2>2
  <2>4. Truncate(i - 1, FieldBits) = i - 1
    BY <2>3, FieldBitsFit
  <2>5. fs[k] = [index |-> i - 1, delta |-> d]
    BY <1>4, <2>1, <2>4
  <2> QED
    BY <2>1, <2>2, <2>3, <2>5
<1>8. StructFields(fs, s, n, to, from) /\ fs \in Seq([index : Nat, delta : FieldDelta])
  <2>1. fs \in [1 .. n -> [index : Nat, delta : FieldDelta]]
    BY <1>4, <1>7
  <2>2. fs \in Seq([index : Nat, delta : FieldDelta]) /\ Len(fs) = n
    <3>1. n \in Nat
      BY <1>2
    <3> QED
      BY <2>1, <3>1, FunctionSeq
  <2> QED
    BY <1>7, <2>2 DEF StructFields
<1>9. n = 0 <=> s = << >>
  BY <1>2, <1>3
<1>10. CASE n = 0
  BY <1>2, <1>6, <1>9, <1>10
<1>11. CASE n # 0
  <2>1. m = [num |-> n, fields |-> fs]
    BY <1>6, <1>9, <1>11
  <2>2. m.num = n /\ m.fields = fs
    BY <2>1
  <2>3. m \in StructDelta
    BY <1>2, <1>8, <2>1 DEF StructDelta
  <2> QED
    BY <1>2, <1>8, <1>11, <2>2, <2>3
<1> QED
  BY <1>10, <1>11

\* What the delta of a field does to the receiver's field.
Carries(w, i, val, to, from) ==
  LET f == Fields[i]
      d == FieldChange(i, to, from)
  IN  /\ d = Unchanged => Agrees(w, f, val[f], to[f])
      /\ d # Unchanged => d \in FieldDelta /\ DeserializeFieldDelta(f, val[f], d) = to[f]

LEMMA FieldCarries ==
  ASSUME NEW to \in StateType, NEW from \in StateType, NEW val \in StateType, NEW w \in BOOLEAN,
         \A f \in Names : Agrees(w, f, val[f], from[f]), Noticed(w, to, from), NEW i \in 1 .. 4
  PROVE  Carries(w, i, val, to, from)
<1>1. PICK f, a, b, v, d : f = Fields[i] /\ a = to[f] /\ b = from[f] /\ v = val[f] /\ d = FieldChange(i, to, from)
  OBVIOUS
<1>2. f \in Names
  BY <1>1, FieldNames
<1>3. a \in FieldType(f) /\ b \in FieldType(f) /\ v \in FieldType(f) /\ Agrees(w, f, v, b)
  BY <1>1, <1>2, StateFields
<1>4. f = "spare" /\ a # Null /\ b # Null /\ a # b => w
  <2>1. from # Null
    BY NullAssumption
  <2> QED
    BY <1>1, <2>1 DEF Noticed
<1>5. d = SerializeFieldDelta(f, a, b)
  BY <1>1 DEF FieldChange
<1>6. /\ d = Unchanged => Agrees(w, f, v, a)
      /\ d # Unchanged => d \in FieldDelta /\ DeserializeFieldDelta(f, v, d) = a
  BY <1>2, <1>3, <1>4, <1>5, FieldDeltas
<1> QED
  BY <1>1, <1>6 DEF Carries

\* After the visitor was called for the first i fields, and c of them had changed.
Visiting(at, i, c, s, n, w, val, to) ==
  /\ c \in 0 .. n
  /\ at.remaining = n - c /\ (c < n => at.read = c + 1)
  /\ \A k \in 1 .. n : s[k] <= i <=> k <= c
  /\ at.val \in StateType
  /\ \A j \in 1 .. 4 : IF j <= i THEN Agrees(w, Fields[j], at.val[Fields[j]], to[Fields[j]])
                       ELSE at.val[Fields[j]] = val[Fields[j]]

LEMMA VisitSkips ==
  ASSUME NEW W \in SUBSET (1 .. 4), NEW n \in 0 .. 4, NEW s, Ordered(s, n, W), NEW i \in 0 .. 3, i + 1 \notin W,
         NEW w, NEW val, NEW to, Agrees(w, Fields[i + 1], val[Fields[i + 1]], to[Fields[i + 1]]),
         NEW c, NEW at, Visiting(at, i, c, s, n, w, val, to)
  PROVE  Visiting(at, i + 1, c, s, n, w, val, to)
<1>1. ASSUME NEW k \in 1 .. n
      PROVE  s[k] <= i + 1 <=> k <= c
  <2>1. PICK x : x = s[k]
    OBVIOUS
  <2>2. x \in W /\ x \in 1 .. 4 /\ x # i + 1
    BY <2>1 DEF Ordered
  <2>3. x <= i <=> k <= c
    BY <2>1 DEF Visiting
  <2> QED
    BY <2>1, <2>2, <2>3
<1>2. ASSUME NEW j \in 1 .. 4
      PROVE  IF j <= i + 1 THEN Agrees(w, Fields[j], at.val[Fields[j]], to[Fields[j]])
             ELSE at.val[Fields[j]] = val[Fields[j]]
  <2>1. CASE j <= i
    BY <2>1 DEF Visiting
  <2>2. CASE j = i + 1
    <3>1. at.val[Fields[j]] = val[Fields[j]]
      BY <2>2 DEF Visiting
    <3> QED
      BY <2>2, <3>1
  <2>3. CASE j > i + 1
    BY <2>3 DEF Visiting
  <2> QED
    BY <2>1, <2>2, <2>3
<1> QED
  BY <1>1, <1>2 DEF Visiting

LEMMA VisitTakes ==
  ASSUME NEW W \in SUBSET (1 .. 4), NEW n \in 0 .. 4, NEW s, Ordered(s, n, W), NEW i \in 0 .. 3,
         NEW w, NEW val, NEW to \in StateType, NEW c, NEW at, Visiting(at, i, c, s, n, w, val, to),
         c < n, s[c + 1] = i + 1,
         NEW r, r.val = [at.val EXCEPT ![Fields[i + 1]] = to[Fields[i + 1]]], r.remaining = n - c - 1,
         c + 1 < n => r.read = c + 2
  PROVE  Visiting(r, i + 1, c + 1, s, n, w, val, to)
<1>1. c \in 0 .. n /\ c + 1 \in 0 .. n /\ c + 1 \in 1 .. n /\ n - c - 1 = n - (c + 1) /\ (c + 1) + 1 = c + 2
  BY DEF Visiting
<1>2. PICK f, v, x, y : f = Fields[i + 1] /\ v = to[Fields[i + 1]] /\ x = at.val /\ y = r.val
  OBVIOUS
<1>3. f \in Names /\ v \in FieldType(f) /\ x \in StateType
  <2>1. i + 1 \in 1 .. 4
    OBVIOUS
  <2> QED
    BY <1>2, <2>1, FieldNames, StateFields DEF Visiting
<1>4. x = [g \in Names |-> x[g]] /\ \A g \in Names : x[g] \in FieldType(g)
  BY <1>3, StateFields
<1>5. y = [g \in Names |-> IF g = f THEN v ELSE x[g]]
  BY <1>2, <1>3, <1>4
<1>6. y \in StateType
  <2>1. y = [g \in Names |-> y[g]] /\ \A g \in Names : y[g] \in FieldType(g)
    BY <1>3, <1>4, <1>5
  <2> QED
    BY <2>1, StateIs
<1>7. ASSUME NEW k \in 1 .. n
      PROVE  s[k] <= i + 1 <=> k <= c + 1
  <2>1. PICK z : z = s[k]
    OBVIOUS
  <2>2. z \in 1 .. 4 /\ (z <= i <=> k <= c)
    BY <2>1 DEF Ordered, Visiting
  <2>3. CASE k = c + 1
    BY <2>1, <2>2, <2>3
  <2>4. CASE k < c + 1
    BY <1>1, <2>1, <2>2, <2>4
  <2>5. CASE k > c + 1
    <3>1. i + 1 < z
      BY <1>1, <2>1, <2>5 DEF Ordered
    <3> QED
      BY <1>1, <2>1, <2>2, <2>5, <3>1
  <2> QED
    BY <1>1, <2>3, <2>4, <2>5
<1>8. ASSUME NEW j \in 1 .. 4
      PROVE  IF j <= i + 1 THEN Agrees(w, Fields[j], y[Fields[j]], to[Fields[j]])
             ELSE y[Fields[j]] = val[Fields[j]]
  <2>1. Fields[j] \in Names /\ (Fields[j] = f => j = i + 1)
    <3>1. i + 1 \in 1 .. 4
      OBVIOUS
    <3> QED
      BY <1>2, <3>1, FieldNames
  <2>2. CASE j = i + 1
    <3>1. y[Fields[j]] = to[Fields[j]]
      BY <1>2, <1>3, <1>5, <2>2
    <3>2. j <= i + 1
      BY <2>2
    <3> QED
      BY <3>1, <3>2 DEF Agrees
  <2>3. CASE j # i + 1
    <3>1. y[Fields[j]] = x[Fields[j]]
      BY <1>5, <2>1, <2>3
    <3>2. j <= i <=> j <= i + 1
      BY <2>3
    <3> QED
      BY <1>2, <3>1, <3>2 DEF Visiting
  <2> QED
    BY <2>2, <2>3
<1> QED
  BY <1>1, <1>2, <1>6, <1>7, <1>8 DEF Visiting

LEMMA VisitStep ==
  ASSUME NEW to \in StateType, NEW from, NEW val \in StateType, NEW w,
         \A j \in 1 .. 4 : Carries(w, j, val, to, from),
         NEW W, W = {j \in 1 .. 4 : FieldChange(j, to, from) # Unchanged},
         NEW n \in 0 .. 4, NEW s, Ordered(s, n, W), NEW m, StructFields(m.fields, s, n, to, from),
         NEW i \in 0 .. 3, NEW c, NEW at, Visiting(at, i, c, s, n, w, val, to),
         NEW r, r = Visit(m, at, i + 1)
  PROVE  \E d : Visiting(r, i + 1, d, s, n, w, val, to)
<1>1. W \in SUBSET (1 .. 4) /\ i + 1 \in 1 .. 4 /\ (i + 1) - 1 = i
  OBVIOUS
<1>2. c \in 0 .. n /\ at.remaining = n - c /\ (c < n => at.read = c + 1)
  BY DEF Visiting
<1>3. c < n => m.fields[at.read].index = s[c + 1] - 1 /\ m.fields[at.read].delta = FieldChange(s[c + 1], to, from)
               /\ s[c + 1] \in 1 .. 4 /\ i < s[c + 1]
  <2> SUFFICES ASSUME c < n
               PROVE  m.fields[at.read].index = s[c + 1] - 1 /\ m.fields[at.read].delta = FieldChange(s[c + 1], to, from)
                      /\ s[c + 1] \in 1 .. 4 /\ i < s[c + 1]
    OBVIOUS
  <2>1. c + 1 \in 1 .. n /\ ~(c + 1 <= c)
    BY <1>2
  <2>2. s[c + 1] \in 1 .. 4
    BY <1>1, <2>1 DEF Ordered
  <2>3. ~(s[c + 1] <= i)
    BY <2>1 DEF Visiting
  <2>4. m.fields[c + 1].index = s[c + 1] - 1 /\ m.fields[c + 1].delta = FieldChange(s[c + 1], to, from)
    BY <2>1 DEF StructFields
  <2>5. i < s[c + 1]
    BY <2>2, <2>3
  <2> QED
    BY <1>2, <2>2, <2>4, <2>5
<1>4. CASE ~(c < n /\ s[c + 1] = i + 1)
  <2>1. r = at
    <3>1. at.remaining = 0 \/ m.fields[at.read].index # (i + 1) - 1
      BY <1>2, <1>3, <1>4
    <3> QED
      BY <3>1 DEF Visit
  <2>2. i + 1 \notin W
    <3> SUFFICES ASSUME i + 1 \in W
                 PROVE  FALSE
      OBVIOUS
    <3>1. PICK k \in 1 .. n : s[k] = i + 1
      BY DEF Ordered, Covers
    <3>2. ~(k <= c)
      BY <3>1 DEF Visiting
    <3>3. c < n /\ c + 1 \in 1 .. n /\ k # c + 1 /\ c + 1 < k
      BY <1>2, <1>4, <3>1, <3>2
    <3>4. s[c + 1] < i + 1
      BY <3>1, <3>3 DEF Ordered
    <3> QED
      BY <1>3, <3>3, <3>4
  <2>3. Agrees(w, Fields[i + 1], val[Fields[i + 1]], to[Fields[i + 1]])
    <3>1. FieldChange(i + 1, to, from) = Unchanged
      BY <1>1, <2>2
    <3> QED
      BY <1>1, <3>1 DEF Carries
  <2>4. Visiting(at, i + 1, c, s, n, w, val, to)
    BY <1>1, <2>2, <2>3, VisitSkips
  <2> QED
    BY <2>1, <2>4
<1>5. CASE c < n /\ s[c + 1] = i + 1
  <2>1. PICK f, d, x : f = Fields[i + 1] /\ d = FieldChange(i + 1, to, from) /\ x = at.val
    OBVIOUS
  <2>2. i + 1 \in W
    <3>1. c + 1 \in 1 .. n
      BY <1>2, <1>5
    <3> QED
      BY <1>5, <3>1 DEF Ordered
  <2>3. d # Unchanged
    BY <2>1, <2>2
  <2>4. DeserializeFieldDelta(f, val[f], d) = to[f]
    BY <1>1, <2>1, <2>3 DEF Carries
  <2>5. x[f] = val[f]
    <3>1. ~(i + 1 <= i)
      OBVIOUS
    <3> QED
      BY <1>1, <2>1, <3>1 DEF Visiting
  <2>6. ~(at.remaining = 0 \/ m.fields[at.read].index # (i + 1) - 1)
    BY <1>2, <1>3, <1>5
  <2>7. m.fields[at.read].delta = d
    BY <1>3, <1>5, <2>1
  <2>8. r = [val       |-> [x EXCEPT ![f] = DeserializeFieldDelta(f, x[f], d)],
             read      |-> IF at.remaining = 1 THEN at.read ELSE at.read + 1,
             remaining |-> at.remaining - 1]
    BY <2>1, <2>6, <2>7 DEF Visit
  <2>9. r.val = [x EXCEPT ![f] = to[f]] /\ r.remaining = at.remaining - 1
        /\ r.read = IF at.remaining = 1 THEN at.read ELSE at.read + 1
    <3>1. PICK y, z, u : /\ y = [x EXCEPT ![f] = DeserializeFieldDelta(f, x[f], d)]
                         /\ z = (IF at.remaining = 1 THEN at.read ELSE at.read + 1)
                         /\ u = at.remaining - 1
      OBVIOUS
    <3>2. r = [val |-> y, read |-> z, remaining |-> u]
      BY <2>8, <3>1
    <3>3. r.val = y /\ r.read = z /\ r.remaining = u
      BY <3>2
    <3>4. y = [x EXCEPT ![f] = to[f]]
      BY <2>4, <2>5, <3>1
    <3> QED
      BY <3>1, <3>3, <3>4
  <2>10. r.remaining = n - c - 1 /\ (c + 1 < n => r.read = c + 2)
    BY <1>2, <1>5, <2>9
  <2>11. r.val = [at.val EXCEPT ![Fields[i + 1]] = to[Fields[i + 1]]]
    BY <2>1, <2>9
  <2>12. Visiting(r, i + 1, c + 1, s, n, w, val, to)
    BY <1>1, <1>5, <2>10, <2>11, VisitTakes
  <2> QED
    BY <2>12
<1> QED
  BY <1>4, <1>5

LEMMA StructDeltas ==
  ASSUME NEW to \in StateType, NEW from \in StateType, NEW val \in StateType, NEW w \in BOOLEAN,
         \A f \in Names : Agrees(w, f, val[f], from[f]), Noticed(w, to, from),
         NEW m, m = SerializeStructDelta(to, from), NEW r, r = DeserializeStructDelta(val, m)
  PROVE  /\ m \in StructDelta \cup {Unchanged}
         /\ r \in StateType /\ \A f \in Names : Agrees(w, f, r[f], to[f])
         /\ m = Unchanged => r = val
<1>1. \A j \in 1 .. 4 : Carries(w, j, val, to, from)
  BY FieldCarries
<1>2. PICK W : W = {j \in 1 .. 4 : FieldChange(j, to, from) # Unchanged}
  OBVIOUS
<1>3. Sendable(W, to, from)
  BY <1>1, <1>2 DEF Sendable, Carries
<1>4. PICK s, n : /\ n \in 0 .. 4 /\ Ordered(s, n, W)
                  /\ n = 0 => m = Unchanged
                  /\ n # 0 => /\ m \in StructDelta /\ m.num = n
                              /\ StructFields(m.fields, s, n, to, from)
  BY <1>2, <1>3, StructWritten
<1>5. CASE n = 0
  <2>1. r = val /\ m = Unchanged
    BY <1>4, <1>5 DEF DeserializeStructDelta
  <2>2. ASSUME NEW f \in Names
        PROVE  Agrees(w, f, r[f], to[f])
    <3>1. PICK i \in 1 .. 4 : Fields[i] = f
      BY FieldNames
    <3>2. i \notin W
      BY <1>4, <1>5 DEF Ordered, Covers
    <3>3. FieldChange(i, to, from) = Unchanged
      BY <1>2, <3>2
    <3> QED
      BY <1>1, <2>1, <3>1, <3>3 DEF Carries
  <2> QED
    BY <2>1, <2>2
<1>6. CASE n # 0
  <2>1. m \in StructDelta /\ m.num = n /\ StructFields(m.fields, s, n, to, from)
    BY <1>4, <1>6
  <2>2. m # Unchanged
    BY <2>1, NullAssumption
  <2>3. PICK a0, a1, a2, a3, a4 :
          /\ a0 = [val |-> val, read |-> 1, remaining |-> m.num]
          /\ a1 = Visit(m, a0, 1) /\ a2 = Visit(m, a1, 2) /\ a3 = Visit(m, a2, 3) /\ a4 = Visit(m, a3, 4)
    OBVIOUS
  <2>4. r = Whole(a4.val)
    BY <2>2, <2>3 DEF DeserializeStructDelta
  <2>5. Visiting(a0, 0, 0, s, n, w, val, to)
    <3>1. a0.val = val /\ a0.read = 1 /\ a0.remaining = n
      BY <2>1, <2>3
    <3>2. \A k \in 1 .. n : ~(s[k] <= 0) /\ ~(k <= 0)
      BY <1>2, <1>4 DEF Ordered
    <3> QED
      BY <1>4, <3>1, <3>2 DEF Visiting
  <2>6. ASSUME NEW i \in 0 .. 3, NEW c, NEW at, Visiting(at, i, c, s, n, w, val, to),
               NEW q, q = Visit(m, at, i + 1)
        PROVE  \E d : Visiting(q, i + 1, d, s, n, w, val, to)
    BY <1>1, <1>2, <1>4, <2>1, <2>6, VisitStep
  <2>7. PICK c1 : Visiting(a1, 1, c1, s, n, w, val, to)
    <3>1. 0 \in 0 .. 3 /\ 0 + 1 = 1
      OBVIOUS
    <3> QED
      BY <2>3, <2>5, <2>6, <3>1
  <2>8. PICK c2 : Visiting(a2, 2, c2, s, n, w, val, to)
    <3>1. 1 \in 0 .. 3 /\ 1 + 1 = 2
      OBVIOUS
    <3> QED
      BY <2>3, <2>7, <2>6, <3>1
  <2>9. PICK c3 : Visiting(a3, 3, c3, s, n, w, val, to)
    <3>1. 2 \in 0 .. 3 /\ 2 + 1 = 3
      OBVIOUS
    <3> QED
      BY <2>3, <2>8, <2>6, <3>1
  <2>10. PICK c4 : Visiting(a4, 4, c4, s, n, w, val, to)
    <3>1. 3 \in 0 .. 3 /\ 3 + 1 = 4
      OBVIOUS
    <3> QED
      BY <2>3, <2>9, <2>6, <3>1
  <2>11. r = a4.val /\ r \in StateType
    BY <2>4, <2>10, WholeIs DEF Visiting
  <2>12. ASSUME NEW f \in Names
         PROVE  Agrees(w, f, r[f], to[f])
    <3>1. PICK i \in 1 .. 4 : Fields[i] = f
      BY FieldNames
    <3>2. i <= 4
      OBVIOUS
    <3> QED
      BY <2>10, <2>11, <3>1, <3>2 DEF Visiting
  <2> QED
    BY <2>1, <2>2, <2>11, <2>12
<1> QED
  BY <1>5, <1>6

------------------------------------------------------------------------------
(***************************************************************************)
(* Steps.                                                                  *)
(***************************************************************************)
LEMMA NotStates ==
  Null \notin StateType /\ Corrupt \notin StateType /\ Null # Corrupt
BY NullAssumption

LEMMA LastTyped ==
  ASSUME StructInv, m_LastSyncedState # Null
  PROVE  m_LastSyncedState \in StateType
<1>1. PICK base \in StateType \cup {Null} : Chained(rewritten, base, packets, m_LastSyncedState)
  BY DEF StructInv, PacketsInv
<1>2. PICK n, ps : n = Len(packets) /\ ps = packets
  OBVIOUS
<1>3. ps \in Seq(Packet)
  BY <1>2 DEF StructInv
<1>4. n \in Nat /\ (ps # << >> => ps[n] \in Packet)
  BY <1>2, <1>3
<1>5. m_LastSyncedState = IF ps = << >> THEN base ELSE ps[n].state
  BY <1>1, <1>2 DEF Chained
<1> QED
  BY <1>4, <1>5 DEF Packet

LEMMA AssignTyped ==
  ASSUME state \in StateType, NEW f \in Names, NEW v \in FieldType(f), Assign(f, v)
  PROVE  state' \in StateType
<1>1. PICK x, y : x = state /\ y = state'
  OBVIOUS
<1>2. y = [x EXCEPT ![f] = v]
  BY <1>1 DEF Assign
<1>3. x = [g \in Names |-> x[g]] /\ \A g \in Names : x[g] \in FieldType(g)
  BY <1>1, StateFields
<1>4. y = [g \in Names |-> IF g = f THEN v ELSE x[g]]
  BY <1>2, <1>3
<1>5. y = [g \in Names |-> y[g]] /\ \A g \in Names : y[g] \in FieldType(g)
  BY <1>3, <1>4
<1>6. y \in StateType
  BY <1>5, StateIs
<1> QED
  BY <1>1, <1>6

LEMMA AppLimits ==
  ASSUME app \in App
  PROVE  /\ \A k \in 0 .. app.keys - 1 : k \in Keys
         /\ app.size \in 0 .. ListSize
         /\ \A n \in 0 .. app.size : n \in 0 .. ListSize
<1>1. app.keys \in 0 .. MaxSize /\ app.size \in 0 .. ListSize
  BY DEF App
<1> QED
  BY <1>1, Sizes DEF Keys

LEMMA ChangeTyped ==
  ASSUME StructInv, Change
  PROVE  state' \in StateType
<1>1. app \in App /\ state \in StateType
  BY DEF StructInv
<1>2. PICK m, l : m = state.map /\ l = state.list
  OBVIOUS
<1>3. m \in MapType /\ l \in ListType
  BY <1>1, <1>2 DEF StateType
<1>4. /\ \A k \in 0 .. app.keys - 1 : k \in Keys
      /\ app.size \in 0 .. ListSize
      /\ \A n \in 0 .. app.size : n \in 0 .. ListSize
  BY <1>1, AppLimits
<1>5. ASSUME NEW v \in MapType, Assign("map", v)
      PROVE  state' \in StateType
  <2>1. "map" \in Names /\ v \in FieldType("map")
    BY FieldTypes DEF Names
  <2> QED
    BY <1>1, <1>5, <2>1, AssignTyped
<1>6. ASSUME NEW v \in ListType, Assign("list", v)
      PROVE  state' \in StateType
  <2>1. "list" \in Names /\ v \in FieldType("list")
    BY FieldTypes DEF Names
  <2> QED
    BY <1>1, <1>6, <2>1, AssignTyped
<1>7. ASSUME NEW v \in Elem \cup {Null}, Assign("spare", v)
      PROVE  state' \in StateType
  <2>1. "spare" \in Names /\ v \in FieldType("spare")
    BY FieldTypes DEF Names
  <2> QED
    BY <1>1, <1>7, <2>1, AssignTyped
<1>8. CASE SetKey
  <2>1. PICK k \in Keys, t \in Elem : Assign("map", Put(m, k, t))
    BY <1>2, <1>4, <1>8 DEF SetKey
  <2>2. Put(m, k, t) \in MapType
    BY <1>3, PutMap
  <2> QED
    BY <1>5, <2>1, <2>2
<1>9. CASE EmplaceKey
  <2>1. PICK k \in Keys, t \in Elem : Assign("map", EmplaceAt(m, k, t))
    BY <1>2, <1>4, <1>9 DEF EmplaceKey
  <2>2. EmplaceAt(m, k, t) \in MapType
    BY <1>3, EmplaceMap
  <2> QED
    BY <1>5, <2>1, <2>2
<1>10. CASE RemoveKey
  <2>1. PICK k : Assign("map", Erase(m, k))
    BY <1>2, <1>10 DEF RemoveKey
  <2>2. Erase(m, k) \in MapType
    BY <1>3, EraseLook
  <2> QED
    BY <1>5, <2>1, <2>2
<1>11. CASE ClearMap
  BY <1>5, <1>11, EmptyIsMap DEF ClearMap
<1>12. CASE GrowList
  <2>1. Len(l) < ListSize
    <3>1. Len(l) \in Nat /\ ~(Len(l) >= ListSize)
      BY <1>2, <1>3, <1>12, ListProps, Sizes DEF GrowList, List!Full
    <3> QED
      BY <3>1, Sizes
  <2>2. PICK v \in Elem :
          \/ Assign("list", List!PushBack(l, v))
          \/ \E i \in 1 .. Len(l) + 1 : Assign("list", List!InsertAt(l, i, v)) \/ Assign("list", List!EmplaceAt(l, i, v))
    BY <1>2, <1>12 DEF GrowList
  <2>3. /\ List!PushBack(l, v) \in ListType
        /\ \A i \in 1 .. Len(l) + 1 : List!InsertAt(l, i, v) \in ListType /\ List!EmplaceAt(l, i, v) \in ListType
    BY <1>3, <2>1, ListOperations
  <2>4. CASE Assign("list", List!PushBack(l, v))
    BY <1>6, <2>3, <2>4
  <2>5. CASE \E i \in 1 .. Len(l) + 1 : Assign("list", List!InsertAt(l, i, v)) \/ Assign("list", List!EmplaceAt(l, i, v))
    BY <1>6, <2>3, <2>5
  <2> QED
    BY <2>2, <2>4, <2>5
<1>13. CASE ResizeList
  <2>1. PICK n \in 0 .. ListSize : Assign("list", List!resize(l, n))
    BY <1>2, <1>4, <1>13 DEF ResizeList
  <2>2. List!resize(l, n) \in ListType
    BY <1>3, ListResize
  <2> QED
    BY <1>6, <2>1, <2>2
<1>14. CASE ShrinkList
  <2>1. PICK i \in DOMAIN l :
          \/ Assign("list", List!RemoveAt(l, i))
          \/ \E j \in i .. Len(l) : Assign("list", List!erase(l, i, j))
    BY <1>2, <1>14 DEF ShrinkList
  <2>2. List!RemoveAt(l, i) \in ListType /\ \A j \in i .. Len(l) : List!erase(l, i, j) \in ListType
    BY <1>3, ListOperations, StructAssumption
  <2>3. CASE Assign("list", List!RemoveAt(l, i))
    BY <1>6, <2>2, <2>3
  <2>4. CASE \E j \in i .. Len(l) : Assign("list", List!erase(l, i, j))
    BY <1>6, <2>2, <2>4
  <2> QED
    BY <2>1, <2>3, <2>4
<1>15. CASE ClearList
  <2>1. List!EmptyList \in ListType
    BY <1>3, ListOperations, StructAssumption
  <2> QED
    BY <1>6, <1>15, <2>1 DEF ClearList
<1>16. CASE EmplaceSpare
  BY <1>7, <1>16 DEF EmplaceSpare
<1>17. CASE CopySpare
  <2>1. PICK v : v = m_LastSyncedState.spare
    OBVIOUS
  <2>2. v \in Elem \cup {Null}
    BY <1>17, <2>1, LastTyped DEF CopySpare, StateType
  <2> QED
    BY <1>7, <1>17, <2>1, <2>2 DEF CopySpare
<1>18. CASE ClearSpare
  BY <1>7, <1>18 DEF ClearSpare
<1>19. CASE WriteRow
  <2>1. PICK v \in Elem : Assign("row", [state.row EXCEPT ![2] = v])
    BY <1>19 DEF WriteRow
  <2>2. PICK r : r = [state.row EXCEPT ![2] = v]
    OBVIOUS
  <2>3. r \in RowType
    BY <1>1, <2>2 DEF StateType, RowType
  <2>4. "row" \in Names /\ r \in FieldType("row")
    BY <2>3, FieldTypes DEF Names
  <2> QED
    BY <1>1, <2>1, <2>2, <2>4, AssignTyped
<1> QED
  BY <1>8, <1>9, <1>10, <1>11, <1>12, <1>13, <1>14, <1>15, <1>16, <1>17, <1>18, <1>19 DEF Change

LEMMA InitInv ==
  ASSUME Init
  PROVE  StructInv
<1>1. /\ app \in App /\ rewritten = FALSE /\ state = DefaultState
      /\ m_LastSyncedState = Null /\ m_ReferenceState = Null
      /\ packets = << >> /\ shown = [inst |-> Null, sent |-> Null]
  BY StructAssumption DEF Init, Pipe!Init
<1>2. state \in StateType
  BY <1>1, DefaultFields
<1>3. Follows(FALSE, m_ReferenceState, Null)
  BY <1>1 DEF Follows
<1>4. Chained(FALSE, Null, packets, m_LastSyncedState)
  BY <1>1 DEF Chained
<1>5. packets \in Seq(Packet)
  BY <1>1
<1>6. PacketsInv
  BY <1>1, <1>3, <1>4 DEF PacketsInv
<1>7. ShownAsSent
  BY <1>1 DEF ShownAsSent
<1> QED
  BY <1>1, <1>2, <1>5, <1>6, <1>7 DEF StructInv

\* That an optional was rewritten only ever weakens what is known.
LEMMA AgreesOnward ==
  ASSUME NEW w \in BOOLEAN, NEW v \in BOOLEAN, w => v, NEW f, NEW val, NEW sent, Agrees(w, f, val, sent)
  PROVE  Agrees(v, f, val, sent)
BY DEF Agrees

LEMMA FollowsOnward ==
  ASSUME NEW w \in BOOLEAN, NEW v \in BOOLEAN, w => v, NEW ref, NEW base, Follows(w, ref, base)
  PROVE  Follows(v, ref, base)
BY AgreesOnward DEF Follows

LEMMA ChainedOnward ==
  ASSUME NEW w \in BOOLEAN, NEW v \in BOOLEAN, w => v, NEW base, NEW ps, NEW last, Chained(w, base, ps, last)
  PROVE  Chained(v, base, ps, last)
<1>1. \A s, b : Noticed(w, s, b) => Noticed(v, s, b)
  BY DEF Noticed
<1> QED
  BY <1>1 DEF Chained

LEMMA ShownOnward ==
  ASSUME ShownAsSent, shown' = shown, rewritten \in BOOLEAN, rewritten' \in BOOLEAN, rewritten => rewritten'
  PROVE  ShownAsSent'
BY DEF ShownAsSent, SameOptional, DefaultState

LEMMA ChangeInv ==
  ASSUME StructInv, Change
  PROVE  StructInv'
<1>1. app' = app /\ rewritten' = rewritten /\ m_LastSyncedState' = m_LastSyncedState
      /\ m_ReferenceState' = m_ReferenceState /\ packets' = packets /\ shown' = shown
  BY DEF Change, pipeVars
<1>2. state' \in StateType
  BY ChangeTyped
<1>3. PacketsInv'
  BY <1>1 DEF StructInv, PacketsInv
<1>4. ShownAsSent'
  BY <1>1, ShownOnward DEF StructInv
<1> QED
  BY <1>1, <1>2, <1>3, <1>4 DEF StructInv

\* What SyncState writes can be decoded onto what the receiver has.
LEMMA PayloadTyped ==
  ASSUME NEW s \in StateType, NEW base \in StateType \cup {Null}, NEW m, m = PayloadFor(s, base)
  PROVE  m \in StructSent \cup StructDelta \cup {Unchanged}
<1>1. CASE base = Null
  <2>1. m = SerializeStruct(s)
    BY <1>1 DEF PayloadFor
  <2> QED
    BY <2>1, StructValue
<1>2. CASE base # Null
  <2>1. m = SerializeStructDelta(s, base) /\ base \in StateType
    BY <1>2 DEF PayloadFor
  <2>2. PICK w \in BOOLEAN : w
    OBVIOUS
  <2>3. \A f \in Names : Agrees(w, f, base[f], base[f])
    BY DEF Agrees
  <2>4. Noticed(w, s, base)
    BY <2>2 DEF Noticed
  <2>5. m \in StructDelta \cup {Unchanged}
    BY <2>1, <2>3, <2>4, StructDeltas
  <2> QED
    BY <2>5
<1> QED
  BY <1>1, <1>2

Decoded(ref, m) ==
  IF ref # Null THEN DeserializeStructDelta(ref, m) ELSE DeserializeStruct(DefaultState, m)

LEMMA DecodeFollows ==
  ASSUME NEW w \in BOOLEAN, NEW ref, NEW base \in StateType \cup {Null}, Follows(w, ref, base),
         NEW s \in StateType, Noticed(w, s, base), NEW m, m = PayloadFor(s, base), NEW r, r = Decoded(ref, m)
  PROVE  /\ r \in StateType /\ \A f \in Names : Agrees(w, f, r[f], s[f])
         /\ Follows(w, r, s) /\ (m = Unchanged => Follows(w, ref, s))
<1>1. s # Null /\ \A x \in StateType : x # Null
  BY NotStates
<1>2. ASSUME r \in StateType, \A f \in Names : Agrees(w, f, r[f], s[f])
      PROVE  Follows(w, r, s)
  BY <1>1, <1>2 DEF Follows, Names
<1>3. CASE ref = Null
  <2>1. base = Null
    BY <1>3 DEF Follows
  <2>2. m = SerializeStruct(s) /\ r = DeserializeStruct(DefaultState, m)
    BY <1>3, <2>1 DEF PayloadFor, Decoded
  <2>3. /\ m \in StructSent /\ r \in StateType
        /\ r = [f \in Names |-> IF f \in Static THEN DefaultState[f] ELSE s[f]]
    BY <2>2, DefaultFields, StructValue
  <2>4. \A f \in Names : Agrees(w, f, r[f], s[f])
    BY <2>3 DEF Agrees
  <2>5. m # Unchanged
    BY <2>3, NullAssumption
  <2> QED
    BY <1>2, <2>3, <2>4, <2>5
<1>4. CASE ref # Null
  <2>1. base # Null /\ base \in StateType /\ ref \in StateType /\ \A f \in Names : Agrees(w, f, ref[f], base[f])
    BY <1>4 DEF Follows, Names
  <2>2. m = SerializeStructDelta(s, base) /\ r = DeserializeStructDelta(ref, m)
    BY <1>4, <2>1 DEF PayloadFor, Decoded
  <2>3. /\ r \in StateType /\ \A f \in Names : Agrees(w, f, r[f], s[f])
        /\ m = Unchanged => r = ref
    BY <2>1, <2>2, StructDeltas
  <2> QED
    BY <1>2, <2>3
<1> QED
  BY <1>3, <1>4

LEMMA SyncStateInv ==
  ASSUME StructInv, SyncState
  PROVE  StructInv'
<1>1. app' = app /\ state' = state /\ shown' = shown /\ m_ReferenceState' = m_ReferenceState
  BY DEF SyncState, Pipe!SyncState
<1>2. PICK s, ps, last, ref : s = state /\ ps = packets /\ last = m_LastSyncedState /\ ref = m_ReferenceState
  OBVIOUS
<1>3. PICK w \in BOOLEAN : w = rewritten
  BY DEF StructInv
<1>4. PICK v \in BOOLEAN : v <=> w \/ Rewrites(s)
  OBVIOUS
<1>5. rewritten' = v
  <2>1. rewritten' = (rewritten \/ Rewrites(state))
    BY DEF SyncState
  <2>2. (rewritten \/ Rewrites(state)) \in BOOLEAN
    BY DEF Rewrites, StructInv
  <2>3. (rewritten \/ Rewrites(state)) <=> v
    BY <1>2, <1>3, <1>4
  <2> QED
    BY <2>1, <2>2, <2>3
<1>6. PICK m : m = Pipe!Payload(s)
  OBVIOUS
<1>7. PICK p : p = [payload |-> m, state |-> s]
  OBVIOUS
<1>8. packets' = Append(ps, p) /\ m_LastSyncedState' = s
  BY <1>2, <1>6, <1>7 DEF SyncState, Pipe!SyncState
<1>9. m = PayloadFor(s, last)
  BY <1>2, <1>6 DEF Pipe!Payload, PayloadFor
<1>10. s \in StateType /\ last \in StateType \cup {Null}
  BY <1>2, LastTyped DEF StructInv
<1>11. p \in Packet
  <2>1. m \in StructSent \cup StructDelta \cup {Unchanged}
    BY <1>9, <1>10, PayloadTyped
  <2> QED
    BY <1>7, <1>10, <2>1 DEF Packet
<1>12. ps \in Seq(Packet)
  BY <1>2 DEF StructInv
<1>13. PICK n, qs : n = Len(ps) /\ qs = Append(ps, p)
  OBVIOUS
<1>14. /\ n \in Nat /\ qs \in Seq(Packet) /\ Len(qs) = n + 1 /\ qs # << >>
       /\ qs[n + 1] = p /\ \A k \in 1 .. n : qs[k] = ps[k]
  BY <1>11, <1>12, <1>13
<1>15. PICK base \in StateType \cup {Null} : Follows(w, ref, base) /\ Chained(w, base, ps, last)
  BY <1>2, <1>3 DEF StructInv, PacketsInv
<1>16. Follows(v, ref, base) /\ Chained(v, base, ps, last)
  BY <1>4, <1>15, FollowsOnward, ChainedOnward
<1>17. \A k \in 1 .. n :
         /\ ps[k].payload = PayloadFor(ps[k].state, IF k = 1 THEN base ELSE ps[k - 1].state)
         /\ Noticed(v, ps[k].state, IF k = 1 THEN base ELSE ps[k - 1].state)
  BY <1>13, <1>16 DEF Chained
<1>18. last = IF n = 0 THEN base ELSE ps[n].state
  <2>1. ps = << >> <=> n = 0
    BY <1>12, <1>13
  <2> QED
    BY <1>13, <1>16, <2>1 DEF Chained
<1>19. p.payload = m /\ p.state = s
  BY <1>7
<1>20. Noticed(v, s, last)
  BY <1>2, <1>4 DEF Noticed, Rewrites
<1>21. ASSUME NEW k \in 1 .. n + 1
       PROVE  /\ qs[k].payload = PayloadFor(qs[k].state, IF k = 1 THEN base ELSE qs[k - 1].state)
              /\ Noticed(v, qs[k].state, IF k = 1 THEN base ELSE qs[k - 1].state)
  <2>1. CASE k = n + 1
    <3>1. last = IF k = 1 THEN base ELSE qs[k - 1].state
      <4>1. CASE n = 0
        BY <1>18, <2>1, <4>1
      <4>2. CASE n # 0
        <5>1. n \in 1 .. n /\ k - 1 = n /\ k # 1
          BY <1>14, <2>1, <4>2
        <5> QED
          BY <1>14, <1>18, <4>2, <5>1
      <4> QED
        BY <4>1, <4>2
    <3>2. qs[k].payload = m /\ qs[k].state = s
      BY <1>14, <1>19, <2>1
    <3> QED
      BY <1>9, <1>20, <3>1, <3>2
  <2>2. CASE k # n + 1
    <3>1. k \in 1 .. n
      BY <1>14, <2>2
    <3>2. k # 1 => k - 1 \in 1 .. n
      BY <1>14, <3>1
    <3>3. qs[k] = ps[k] /\ (k # 1 => qs[k - 1] = ps[k - 1])
      BY <1>14, <3>1, <3>2
    <3> QED
      BY <1>17, <3>1, <3>3
  <2> QED
    BY <2>1, <2>2
<1>22. Chained(v, base, qs, s)
  BY <1>14, <1>19, <1>21 DEF Chained
<1>23. packets' = qs /\ m_LastSyncedState' = s /\ m_ReferenceState' = ref
  BY <1>1, <1>2, <1>8, <1>13
<1>24. PacketsInv'
  BY <1>5, <1>15, <1>16, <1>22, <1>23 DEF PacketsInv
<1>25. ShownAsSent'
  <2>1. rewritten \in BOOLEAN /\ rewritten' \in BOOLEAN /\ (rewritten => rewritten')
    BY <1>3, <1>4, <1>5
  <2> QED
    BY <1>1, <2>1, ShownOnward DEF StructInv
<1> QED
  BY <1>1, <1>2, <1>5, <1>10, <1>14, <1>23, <1>24, <1>25 DEF StructInv

LEMMA GotMessageInv ==
  ASSUME StructInv, GotMessage
  PROVE  StructInv'
<1>1. app' = app /\ state' = state /\ rewritten' = rewritten /\ m_LastSyncedState' = m_LastSyncedState
  BY DEF GotMessage, Pipe!GotMessage
<1>2. PICK ps, last, ref : ps = packets /\ last = m_LastSyncedState /\ ref = m_ReferenceState
  OBVIOUS
<1>3. PICK w \in BOOLEAN : w = rewritten
  BY DEF StructInv
<1>4. ps # << >> /\ packets' = Tail(ps) /\ ps \in Seq(Packet)
  BY <1>2 DEF GotMessage, Pipe!GotMessage, StructInv
<1>5. PICK n, p, qs : n = Len(ps) /\ p = Head(ps) /\ qs = Tail(ps)
  OBVIOUS
<1>6. /\ n \in Nat /\ n # 0 /\ 1 \in 1 .. n /\ p = ps[1] /\ qs \in Seq(Packet) /\ Len(qs) = n - 1
      /\ \A k \in 1 .. n - 1 : qs[k] = ps[k + 1]
  BY <1>4, <1>5
<1>7. PICK s, m : s = p.state /\ m = p.payload
  OBVIOUS
<1>8. PICK base \in StateType \cup {Null} : Follows(w, ref, base) /\ Chained(w, base, ps, last)
  BY <1>2, <1>3 DEF StructInv, PacketsInv
<1>9. \A k \in 1 .. n :
        /\ ps[k].payload = PayloadFor(ps[k].state, IF k = 1 THEN base ELSE ps[k - 1].state)
        /\ Noticed(w, ps[k].state, IF k = 1 THEN base ELSE ps[k - 1].state)
  BY <1>5, <1>8 DEF Chained
<1>10. last = ps[n].state
  BY <1>4, <1>5, <1>8 DEF Chained
<1>11. s \in StateType /\ m = PayloadFor(s, base) /\ Noticed(w, s, base)
  <2>1. p \in Packet
    BY <1>4, <1>5, <1>6
  <2> QED
    BY <1>6, <1>7, <1>9, <2>1 DEF Packet
<1>12. PICK r : r = Decoded(ref, m)
  OBVIOUS
<1>13. /\ r \in StateType /\ \A f \in Names : Agrees(w, f, r[f], s[f])
       /\ Follows(w, r, s) /\ (m = Unchanged => Follows(w, ref, s))
  BY <1>8, <1>11, <1>12, DecodeFollows
<1>14. r = Pipe!Inst(m)
  <2>1. ref # Corrupt
    BY <1>8, NotStates DEF Follows
  <2> QED
    BY <1>2, <1>12, <2>1 DEF Pipe!Inst, Decoded
<1>15. \/ m_ReferenceState' = r /\ shown' = [inst |-> r, sent |-> s]
       \/ m = Unchanged /\ m_ReferenceState' = ref /\ shown' = shown
  BY <1>2, <1>5, <1>7, <1>14 DEF GotMessage, Pipe!GotMessage
<1>16. PICK q : q = m_ReferenceState'
  OBVIOUS
<1>17. Follows(w, q, s)
  BY <1>13, <1>15, <1>16
<1>18. Chained(w, s, qs, last)
  <2>1. ASSUME NEW k \in 1 .. n - 1
        PROVE  /\ qs[k].payload = PayloadFor(qs[k].state, IF k = 1 THEN s ELSE qs[k - 1].state)
               /\ Noticed(w, qs[k].state, IF k = 1 THEN s ELSE qs[k - 1].state)
    <3>1. k + 1 \in 1 .. n /\ k + 1 # 1 /\ (k + 1) - 1 = k /\ k \in 1 .. n
      BY <1>6
    <3>2. ps[k + 1].payload = PayloadFor(ps[k + 1].state, ps[k].state) /\ Noticed(w, ps[k + 1].state, ps[k].state)
      BY <1>9, <3>1
    <3>3. ps[k].state = IF k = 1 THEN s ELSE qs[k - 1].state
      <4>1. CASE k = 1
        BY <1>6, <1>7, <4>1
      <4>2. CASE k # 1
        <5>1. k - 1 \in 1 .. n - 1 /\ (k - 1) + 1 = k
          BY <1>6, <4>2
        <5> QED
          BY <1>6, <4>2, <5>1
      <4> QED
        BY <4>1, <4>2
    <3> QED
      BY <1>6, <3>2, <3>3
  <2>2. last = IF qs = << >> THEN s ELSE qs[Len(qs)].state
    <3>1. CASE n = 1
      <4>1. qs = << >>
        BY <1>6, <3>1
      <4> QED
        BY <1>6, <1>7, <1>10, <3>1, <4>1
    <3>2. CASE n # 1
      <4>1. qs # << >> /\ n - 1 \in 1 .. n - 1 /\ (n - 1) + 1 = n
        BY <1>6, <3>2
      <4> QED
        BY <1>6, <1>10, <4>1
    <3> QED
      BY <3>1, <3>2
  <2> QED
    BY <1>6, <2>1, <2>2 DEF Chained
<1>19. packets' = qs /\ m_LastSyncedState' = last /\ m_ReferenceState' = q /\ rewritten' = w
  BY <1>1, <1>2, <1>3, <1>4, <1>5, <1>16
<1>20. PacketsInv'
  BY <1>11, <1>17, <1>18, <1>19 DEF PacketsInv
<1>21. ShownAsSent'
  <2>1. CASE shown' = [inst |-> r, sent |-> s]
    <3>1. shown'.inst = r /\ shown'.sent = s
      BY <2>1
    <3>2. r # Corrupt /\ DOMAIN s = Names
      BY <1>11, <1>13, NotStates, StateFields
    <3>3. \A f \in Names : \/ r[f] = s[f]
                           \/ f \in Static /\ r[f] = DefaultState[f]
                           \/ f = "spare" /\ w /\ SameOptional(r[f], s[f])
      BY <1>13 DEF Agrees
    <3> QED
      BY <1>19, <3>1, <3>2, <3>3 DEF ShownAsSent, SameOptional, DefaultState
  <2>2. CASE shown' = shown
    BY <1>1, <2>2, ShownOnward DEF StructInv
  <2> QED
    BY <1>15, <2>1, <2>2
<1> QED
  BY <1>1, <1>6, <1>19, <1>20, <1>21 DEF StructInv

------------------------------------------------------------------------------
(***************************************************************************)
(* Theorems.                                                               *)
(***************************************************************************)
LEMMA InvAll ==
  Spec => []StructInv
<1>1. Init => StructInv
  BY InitInv
<1>2. StructInv /\ [Next]_vars => StructInv'
  <2> SUFFICES ASSUME StructInv, [Next]_vars
               PROVE  StructInv'
    OBVIOUS
  <2>1. CASE Change
    BY <2>1, ChangeInv
  <2>2. CASE SyncState
    BY <2>2, SyncStateInv
  <2>3. CASE GotMessage
    BY <2>3, GotMessageInv
  <2>4. CASE UNCHANGED vars
    <3>1. app' = app /\ state' = state /\ rewritten' = rewritten /\ m_LastSyncedState' = m_LastSyncedState
          /\ m_ReferenceState' = m_ReferenceState /\ packets' = packets /\ shown' = shown
      BY <2>4 DEF vars, pipeVars
    <3>2. PacketsInv'
      BY <3>1 DEF StructInv, PacketsInv
    <3>3. ShownAsSent'
      BY <3>1, ShownOnward DEF StructInv
    <3> QED
      BY <3>1, <3>2, <3>3 DEF StructInv
  <2> QED
    BY <2>1, <2>2, <2>3, <2>4 DEF Next
<1> QED
  BY <1>1, <1>2, PTL DEF Spec

(***************************************************************************)
(* For maps and lists of any size, whichever fields are static and however *)
(* many packets are on the way, the callback gets the struct that went to  *)
(* SyncState, but for a static field that has not changed and the value of *)
(* an optional that stayed valid: NetMemberDeserializeDeltaVisitor never   *)
(* takes the delta of one field for that of another, and no container      *)
(* misreads its own.                                                       *)
(***************************************************************************)
THEOREM ShownAsSentAlways ==
  Spec => []ShownAsSent
<1>1. StructInv => ShownAsSent
  BY DEF StructInv
<1> QED
  BY <1>1, InvAll, PTL

(***************************************************************************)
(* A full state that NetPipeFullState decodes onto any struct the          *)
(* application has sent before is the struct that was sent, down to the    *)
(* keys and elements that the old one had in excess; only the static       *)
(* fields are the old ones.                                                *)
(***************************************************************************)
THEOREM FullStateExactAlways ==
  Spec => []FullStateExact
<1>1. StructInv => FullStateExact
  <2> SUFFICES ASSUME StructInv, m_LastSyncedState # Null
               PROVE  FullStateInst(m_LastSyncedState, state) =
                        [f \in DOMAIN state |-> IF f \in Static THEN m_LastSyncedState[f] ELSE state[f]]
    BY DEF FullStateExact
  <2>1. PICK s, val : s = state /\ val = m_LastSyncedState
    OBVIOUS
  <2>2. s \in StateType /\ val \in StateType
    BY <2>1, LastTyped DEF StructInv
  <2>3. PICK m, r : m = SerializeStruct(s) /\ r = DeserializeStruct(val, m)
    OBVIOUS
  <2>4. r = [f \in Names |-> IF f \in Static THEN val[f] ELSE s[f]]
    BY <2>2, <2>3, StructValue
  <2>5. DOMAIN s = Names
    BY <2>2, StateFields
  <2> QED
    BY <2>1, <2>3, <2>4, <2>5 DEF FullStateInst
<1> QED
  BY <1>1, InvAll, PTL
==============================================================================
