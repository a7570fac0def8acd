------------------------------- MODULE NetMap --------------------------------
(***************************************************************************)
(* NetMap<K, T, MaxSize>, as values: a finite function from keys to        *)
(* elements, and its four (de)serializers.  Keys, sizes and the number of  *)
(* entries of a delta all share one field width, GetRequiredBits(MaxSize). *)
(***************************************************************************)
EXTENDS BitUtil, SortedSet, Functions, Sequences

CONSTANTS
  Elem,       \* the values of T
  MaxSize,    \* the template parameter
  Unchanged,  \* the delta wrote nothing
  Corrupt     \* a value nobody sent

\* Sizes and keys are ints.
ASSUME MaxSizeAssumption == MaxSize \in 1 .. 2 ^ 30

Seqs == INSTANCE SequencesExt

key_bits == GetRequiredBits(MaxSize)

EmptyMap == << >>

\* The operations of the class.  Set throws when the map is full, even for a
\* key it has; EmplaceAt and operator[] have no limit.
SetFull(m) == Cardinality(DOMAIN m) >= MaxSize

Put(m, k, t) == [x \in DOMAIN m \cup {k} |-> IF x = k THEN t ELSE m[x]]
EmplaceAt(m, k, t) == IF k \in DOMAIN m THEN m ELSE Put(m, k, t)
Erase(m, k) == Restrict(m, DOMAIN m \ {k})

------------------------------------------------------------------------------
(***************************************************************************)
(* On the wire.                                                            *)
(***************************************************************************)
SerializeValue(m) ==
  LET keys == InOrder(DOMAIN m)
  IN  [num     |-> Truncate(Len(keys), key_bits),
       entries |-> [i \in 1 .. Len(keys) |->
                      [key |-> Truncate(keys[i], key_bits), value |-> m[keys[i]]]]]

\* Both the map and the entries are in the order of the keys: what the map
\* has between two entries is erased.
ReadEntry(at, e) ==
  [map  |-> Put(Restrict(at.map, {k \in DOMAIN at.map : k \notin at.next .. e.key - 1}),
                e.key, e.value),
   next |-> e.key + 1]

ReadEntries(val, msg) ==
  Seqs!FoldLeft(ReadEntry, [map |-> val, next |-> 0], SubSeq(msg.entries, 1, msg.num))

\* Faulty variant: entries past the last one received stay.
DeserializeValueKeeps(val, msg) == ReadEntries(val, msg).map

\* What follows the last entry is erased too.
DeserializeValue(val, msg) ==
  LET read == ReadEntries(val, msg)
  IN  Restrict(read.map, {k \in DOMAIN read.map : k < read.next})

Has(m, k) == k \in DOMAIN m

Kind(to, from, k) ==
  IF ~Has(to, k) THEN "removed" ELSE IF Has(from, k) THEN "changed" ELSE "added"

\* Faulty variant: the walk ends with the last key of "to".
WalkRoundNoTail(to, from, s) ==
  LET keys       == InOrder(DOMAIN to)
      other_keys == InOrder(DOMAIN from)
      key        == keys[s.itr]
      other_key  == other_keys[s.other_itr]
      other_end  == s.other_itr > Len(other_keys)
  IN  IF s.itr > Len(keys) THEN s
      ELSE IF ~other_end /\ other_key < key
      THEN [s EXCEPT !.other_itr = @ + 1, !.wrote = Append(@, other_key)]
      ELSE IF ~other_end /\ other_key = key
      THEN [itr |-> s.itr + 1, other_itr |-> s.other_itr + 1,
            wrote |-> IF to[key] = from[key] THEN s.wrote ELSE Append(s.wrote, key)]
      ELSE [s EXCEPT !.itr = @ + 1, !.wrote = Append(@, key)]

\* A turn of one of the loops of NetSerializerDelta, which walks over both
\* maps at once.  The three loops inside each go on while a comparison of the
\* two keys holds, and only one of the comparisons does.
WalkRound(to, from, s) ==
  LET keys       == InOrder(DOMAIN to)
      other_keys == InOrder(DOMAIN from)
      key        == keys[s.itr]
      other_key  == other_keys[s.other_itr]
      end        == s.itr > Len(keys)
      other_end  == s.other_itr > Len(other_keys)
  IN  IF ~other_end /\ (end \/ other_key < key)
      THEN [s EXCEPT !.other_itr = @ + 1, !.wrote = Append(@, other_key)]
      ELSE IF end THEN s
      ELSE IF ~other_end /\ other_key = key
      THEN [itr |-> s.itr + 1, other_itr |-> s.other_itr + 1,
            wrote |-> IF to[key] = from[key] THEN s.wrote ELSE Append(s.wrote, key)]
      ELSE [s EXCEPT !.itr = @ + 1, !.wrote = Append(@, key)]

\* The keys that an entry is written for, in the order of the entries.
Written(to, from) ==
  LET turns   == Cardinality(DOMAIN to) + Cardinality(DOMAIN from)
      walk[n \in 0 .. turns] ==
        IF n = 0 THEN [itr |-> 1, other_itr |-> 1, wrote |-> << >>]
        ELSE WalkRound(to, from, walk[n - 1])
  IN  walk[turns].wrote

SerializeDelta(to, from) ==
  LET keys == Written(to, from)
      Value(k) == IF Has(to, k) THEN to[k] ELSE Corrupt
  IN  IF keys = << >> THEN Unchanged
      ELSE [num     |-> Truncate(Len(keys), key_bits),
            entries |-> [i \in 1 .. Len(keys) |->
                           [key   |-> Truncate(keys[i], key_bits),
                            kind  |-> Kind(to, from, keys[i]),
                            value |-> Value(keys[i])]]]

\* The reader decides from its own map whether a bit or a value comes next.
Misread(val, e) == Has(val, e.key) = (e.kind = "added")

ApplyEntry(m, e) == IF e.kind = "removed" THEN Erase(m, e.key) ELSE Put(m, e.key, e.value)

DeserializeDelta(val, msg) ==
  IF msg = Unchanged THEN val
  ELSE LET read == SubSeq(msg.entries, 1, msg.num)
       IN  IF \E i \in DOMAIN read : Misread(val, read[i]) THEN Corrupt
           ELSE Seqs!FoldLeft(ApplyEntry, val, read)
==============================================================================
