---------------------------- MODULE NetArrayList -----------------------------
(***************************************************************************)
(* NetArrayList<T, MaxSize>, as values: a sequence of elements, and its    *)
(* four (de)serializers.  Positions are counted from one here.  An element *)
(* is a scalar: its delta is its value, or nothing when it is the same.    *)
(***************************************************************************)
EXTENDS BitUtil, Sequences

CONSTANTS
  MaxSize,      \* the template parameter
  DefaultElem,  \* T()
  Unchanged,    \* the delta wrote nothing
  Corrupt       \* a value nobody sent

required_bits == GetRequiredBits(MaxSize)

EmptyList == << >>

\* Every operation that may add an element throws "NetArrayList overflow"
\* on a full list, EmplaceAt even when it would overwrite one.
Full(l) == Len(l) >= MaxSize

PushBack(l, v) == Append(l, v)
InsertAt(l, i, v) == SubSeq(l, 1, i - 1) \o <<v>> \o SubSeq(l, i, Len(l))

\* Unlike InsertAt, EmplaceAt puts the new element in the place of an old one.
EmplaceAt(l, i, v) == IF i = Len(l) + 1 THEN Append(l, v) ELSE [l EXCEPT ![i] = v]

erase(l, first, last) == SubSeq(l, 1, first - 1) \o SubSeq(l, last + 1, Len(l))
RemoveAt(l, i) == erase(l, i, i)
resize(l, n) == [i \in 1 .. n |-> IF i <= Len(l) THEN l[i] ELSE DefaultElem]

------------------------------------------------------------------------------
(***************************************************************************)
(* On the wire.                                                            *)
(***************************************************************************)
SerializeValue(l) == [size |-> Truncate(Len(l), required_bits), elems |-> l]

\* The list is resized first; it throws when the size is too large for it.
DeserializeValue(val, msg) ==
  IF msg.size > MaxSize \/ msg.size > Len(msg.elems) THEN Corrupt
  ELSE [i \in DOMAIN resize(val, msg.size) |-> msg.elems[i]]

\* An element of a delta: a whole value where the old list has none, else a
\* bit, with the value behind it when the bit is set.
ElemDelta(to, from, i) ==
  IF i > Len(from) THEN [kind |-> "value", value |-> to[i]]
  ELSE IF to[i] = from[i] THEN [kind |-> "same", value |-> Unchanged]
  ELSE [kind |-> "changed", value |-> to[i]]

SerializeDelta(to, from) ==
  LET resized == Len(to) # Len(from)
      elems   == [i \in DOMAIN to |-> ElemDelta(to, from, i)]
  IN  IF ~resized /\ \A i \in DOMAIN to : elems[i].kind = "same" THEN Unchanged
      ELSE [resized |-> resized, size |-> Truncate(Len(to), required_bits), elems |-> elems]

\* The reader takes the number of bits and of whole values from the size of
\* its own list: it reads something else when the writer's was not the same.
Misread(val, msg, n) ==
  \/ n # Len(msg.elems) \/ n > MaxSize
  \/ \E i \in 1 .. n : (i > Len(val)) # (msg.elems[i].kind = "value")

DeserializeDelta(val, msg) ==
  LET new_size == IF msg.resized THEN msg.size ELSE Len(val)
  IN  IF Misread(val, msg, new_size) THEN Corrupt
      ELSE [i \in 1 .. new_size |->
              IF msg.elems[i].kind = "same" THEN val[i] ELSE msg.elems[i].value]
==============================================================================
