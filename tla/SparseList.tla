----------------------------- MODULE SparseList ------------------------------
(***************************************************************************)
(* NetSparseList<T, MaxSize>, as values: an array of slots, some of them   *)
(* in use, and the highest index in use.  Every operation of the class is  *)
(* an operator from lists to lists, and the four (de)serializers are       *)
(* operators between lists and payloads.  T is a number: its delta is the  *)
(* whole new value.                                                        *)
(***************************************************************************)
EXTENDS BitUtil, SortedSet, FiniteSetsExt, Sequences

CONSTANTS
  Elem,     \* the values of T
  Free,     \* m_Valid is false
  Junk,     \* what malloc left in a slot
  MaxSize   \* the template parameter

\* Indices are ints.
ASSUME MaxSizeAssumption == MaxSize \in 1 .. 2 ^ 30

ASSUME ValueAssumption == Free \notin Elem /\ Junk \notin Elem \cup {Free}

Seqs == INSTANCE SequencesExt

EmptyList == [m_HighestIndex |-> -1, m_Values |-> << >>]

\* m_Values is a function on 0 .. m_Capacity - 1.
Slots(l) == DOMAIN l.m_Values
Capacity(l) == Cardinality(Slots(l))
IsValid(l, i) == l.m_Values[i] # Free
HasAt(l, i) == i <= l.m_HighestIndex /\ IsValid(l, i)

\* What an iteration from begin() to end() sees.
Contents(l) == [i \in {j \in 0 .. l.m_HighestIndex : IsValid(l, j)} |-> l.m_Values[i]]

------------------------------------------------------------------------------
(***************************************************************************)
(* Growing.                                                                *)
(***************************************************************************)
\* Faulty variant: the slots that are new are not initialised.
GrowUninitialised(l, requested_size) ==
  [l EXCEPT !.m_Values =
     [i \in 0 .. requested_size - 1 |-> IF i < Capacity(l) THEN l.m_Values[i] ELSE Junk]]

Grow(l, requested_size) ==
  [l EXCEPT !.m_Values =
     [i \in 0 .. requested_size - 1 |-> IF i <= l.m_HighestIndex THEN l.m_Values[i] ELSE Free]]

Doubled(l) == IF Capacity(l) = 0 THEN 1 ELSE 2 * Capacity(l)

\* new_capacity is doubled until it exceeds i, which as many doublings as i has
\* bits are enough for.
Doublings(l, i) == {n \in {Capacity(l) * 2 ^ k : k \in 1 .. GetRequiredBits(i)} : n > i}

GrowToFit(l, i) ==
  IF i < Capacity(l) THEN l
  ELSE IF Capacity(l) = 0 THEN Grow(l, i + 1)
  ELSE Grow(l, Min(Doublings(l, i)))

Reserve(l, size) == IF size > Capacity(l) THEN Grow(l, size) ELSE l

------------------------------------------------------------------------------
(***************************************************************************)
(* Adding and removing.                                                    *)
(***************************************************************************)
\* InsertAt and EmplaceAt
PlaceAt(l, i, val) ==
  [m_HighestIndex |-> Max({l.m_HighestIndex, i}),
   m_Values       |-> [GrowToFit(l, i).m_Values EXCEPT ![i] = val]]

\* PushBack and EmplaceBack
PushBack(l, val) ==
  LET grown == IF l.m_HighestIndex + 1 = Capacity(l) THEN Grow(l, Doubled(l)) ELSE l
      last  == l.m_HighestIndex + 1
  IN  [m_HighestIndex |-> last, m_Values |-> [grown.m_Values EXCEPT ![last] = val]]

Emplace(l, val) ==
  LET free == {i \in Slots(l) : ~IsValid(l, i)}
  IN  IF free # {} THEN PlaceAt(l, Min(free), val) ELSE PushBack(l, val)

\* Faulty variant: m_HighestIndex only steps down by one.
RemoveAtOneStep(l, i) ==
  IF i \notin Slots(l) \/ ~IsValid(l, i) THEN l
  ELSE [m_HighestIndex |-> IF i = l.m_HighestIndex THEN i - 1 ELSE l.m_HighestIndex,
        m_Values       |-> [l.m_Values EXCEPT ![i] = Free]]

\* What a loop of calls of RemoveAt leaves: each call that removes an element
\* brings m_HighestIndex down to the highest one that is left.
RemoveEach(l, indices) ==
  LET gone == {i \in Slots(l) \cap indices : IsValid(l, i)}
      left == {j \in 0 .. l.m_HighestIndex : j \notin gone /\ IsValid(l, j)}
  IN  IF gone = {} THEN l
      ELSE [m_HighestIndex |-> Max({-1} \cup left),
            m_Values       |-> [i \in Slots(l) |-> IF i \in gone THEN Free ELSE l.m_Values[i]]]

RemoveAt(l, i) == RemoveEach(l, {i})
RemoveRange(l, first, last) == RemoveEach(l, first .. last)

Clear(l) ==
  [m_HighestIndex |-> -1,
   m_Values       |-> [i \in Slots(l) |-> IF i <= l.m_HighestIndex THEN Free ELSE l.m_Values[i]]]

\* The values in use move down to the first slots; m_HighestIndex stays.
Compress(l) ==
  LET Before(i) == Cardinality({j \in Slots(l) : j < i /\ IsValid(l, j)})
      used      == {i \in Slots(l) : IsValid(l, i)}
  IN  [l EXCEPT !.m_Values =
         [i \in Slots(l) |-> IF i < Cardinality(used)
                             THEN l.m_Values[CHOOSE j \in used : Before(j) = i] ELSE Free]]

\* operator =
Copy(l, rhs) ==
  [m_HighestIndex |-> rhs.m_HighestIndex,
   m_Values |-> [i \in IF rhs.m_HighestIndex >= Capacity(l) THEN Slots(rhs) ELSE Slots(l) |->
                   IF i <= rhs.m_HighestIndex THEN rhs.m_Values[i] ELSE Free]]

\* operator ==: walks over the left list and expects the same of the right.
\* Past its own elements an iterator stands at m_HighestIndex + 1.
Equal(l, r) ==
  LET Step(s, n) ==  \* where ++ gets to, n elements from begin()
        LET used == DOMAIN Contents(s)
        IN  IF n >= Cardinality(used) THEN s.m_HighestIndex + 1
            ELSE CHOOSE i \in used : Cardinality({j \in used : j < i}) = n
  IN  /\ l.m_HighestIndex = r.m_HighestIndex
      /\ \A n \in 0 .. Cardinality(DOMAIN Contents(l)) - 1 :
           /\ Step(l, n) = Step(r, n)
           /\ l.m_Values[Step(l, n)] = r.m_Values[Step(r, n)]

------------------------------------------------------------------------------
(***************************************************************************)
(* On the wire.  An entry stands for the index, the bits after it and the  *)
(* value.  The index of an entry of a delta is as wide as m_HighestIndex   *)
(* of the list it describes, which the reader has to know.                 *)
(***************************************************************************)
CONSTANTS Corrupt, Unchanged

SerializeValue(l) ==
  LET Entry(i) == [index |-> Truncate(i, GetRequiredBits(MaxSize)), value |-> l.m_Values[i]]
      used     == InOrder(DOMAIN Contents(l))
  IN  [num_elements |-> Truncate(Len(used), GetRequiredBits(MaxSize)),
       entries      |-> [k \in 1 .. Len(used) |-> Entry(used[k])]]

\* Faulty variant: elements between the ones received are not removed.
DeserializeValueKeeps(val, m) ==
  Seqs!FoldLeft(LAMBDA l, e : PlaceAt(l, e.index, e.value), val,
                SubSeq(m.entries, 1, m.num_elements))

\* One turn of the reader's loop: the slots from "next" up to the element's
\* are emptied before it is placed.
ReadElement(at, e) ==
  [list |-> PlaceAt(RemoveRange(at.list, at.next, e.index - 1), e.index, e.value),
   next |-> e.index + 1]

\* The loop that removes what is left stops one short of m_HighestIndex.
DeserializeValue(val, m) ==
  LET read == Seqs!FoldLeft(ReadElement, [list |-> val, next |-> 0],
                            SubSeq(m.entries, 1, m.num_elements))
  IN  RemoveRange(read.list, read.next, read.list.m_HighestIndex - 1)

\* What NetSerializerDelta writes for one index: a whole value when the
\* element is new, one bit when it is gone, a bit and the value otherwise.
DeltaEntry(to, from, i) ==
  [index |-> i,
   kind  |-> IF ~HasAt(to, i) THEN "removed" ELSE IF HasAt(from, i) THEN "changed" ELSE "added",
   value |-> to.m_Values[i]]

Differs(to, from, i) ==
  \/ HasAt(to, i) # HasAt(from, i)
  \/ HasAt(to, i) /\ HasAt(from, i) /\ to.m_Values[i] # from.m_Values[i]

\* Faulty variant: the new highest index is only sent when the list grew.
SerializeDeltaGrownOnly(to, from) ==
  LET wrote == InOrder({i \in 0 .. to.m_HighestIndex : Differs(to, from, i)})
      size_change == to.m_HighestIndex > from.m_HighestIndex
  IN  IF wrote = << >> /\ ~size_change THEN Unchanged
      ELSE [size_change |-> size_change, highest |-> to.m_HighestIndex,
            entries     |-> [k \in 1 .. Len(wrote) |-> DeltaEntry(to, from, wrote[k])]]

SerializeDelta(to, from) ==
  LET wrote == InOrder({i \in 0 .. to.m_HighestIndex : Differs(to, from, i)})
      size_change == to.m_HighestIndex # from.m_HighestIndex
  IN  IF wrote = << >> /\ ~size_change THEN Unchanged
      ELSE [size_change |-> size_change, highest |-> to.m_HighestIndex,
            entries     |-> [k \in 1 .. Len(wrote) |-> DeltaEntry(to, from, wrote[k])]]

\* The reader's widths are the writer's.
SameWidths(h1, h2) ==
  GetRequiredBits(h1) = GetRequiredBits(h2) /\ GetRequiredBits(h1 + 1) = GetRequiredBits(h2 + 1)

\* The reader decides from its own list whether a bit or a value comes next.
Misread(val, e) == HasAt(val, e.index) = (e.kind = "added")

ApplyEntry(l, e) == IF e.kind = "removed" THEN RemoveAt(l, e.index) ELSE PlaceAt(l, e.index, e.value)

DeserializeDelta(val, m) ==
  IF m = Unchanged THEN val
  ELSE LET highest_index == IF m.size_change THEN m.highest ELSE val.m_HighestIndex
       IN  IF \/ ~SameWidths(highest_index, m.highest)
              \/ \E k \in DOMAIN m.entries : Misread(val, m.entries[k])
           THEN Corrupt
           ELSE LET read == Seqs!FoldLeft(ApplyEntry, val, m.entries)
                IN  RemoveRange(read, highest_index + 1, read.m_HighestIndex)
==============================================================================
