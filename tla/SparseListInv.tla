--------------------------- MODULE SparseListInv -----------------------------
(***************************************************************************)
(* The inductive invariant of SparseListSync.  A list is seen through its  *)
(* view, the element at every index the application may use: the view      *)
(* forgets capacities, and with them everything in which the lists of the  *)
(* two ends may differ.                                                    *)
(***************************************************************************)
EXTENDS SparseListSync

\* A list after any operations, and one whose m_HighestIndex is exact.
Sound(l) == l \in ListType /\ InBounds(l)
Exact(l) == l \in ListType /\ WellFormed(l)

At(l, i) == IF HasAt(l, i) THEN l.m_Values[i] ELSE Free
View(l) == [i \in 0 .. Limit - 1 |-> At(l, i)]

\* Everything depends on the application's lists being exact, which only
\* Compress ends.
Kept(l) == IF compressed THEN Sound(l) ELSE Exact(l)

\* What SyncState writes for "state" after "base".
PayloadFor(state, base) ==
  IF base = Null THEN SerializeValue(state) ELSE SerializeDelta(state, base)

\* Each packet on the way was made from the state before it; "base" is the
\* state that the receiver has decoded last.
Chained(base, queue, last) ==
  /\ \A k \in 1 .. Len(queue) :
       queue[k].payload = PayloadFor(queue[k].state, IF k = 1 THEN base ELSE queue[k - 1].state)
  /\ last = IF queue = << >> THEN base ELSE queue[Len(queue)].state

\* The receiver's list is always exact, and shows the base as long as the
\* sender's lists are.
Follows(ref, base) ==
  /\ ref = Null <=> base = Null
  /\ ref \in {Null, Corrupt} \/ Exact(ref)
  /\ base = Null \/ Kept(base)
  /\ ~compressed /\ base # Null => ref # Corrupt /\ View(ref) = View(base)

PacketsInv ==
  /\ packets \in Seq([payload : FullPayload \cup DeltaPayload \cup {Unchanged}, state : ListType])
  /\ \A k \in 1 .. Len(packets) : Kept(packets[k].state)
  /\ \E base \in ListType \cup {Null} :
       Follows(m_ReferenceState, base) /\ Chained(base, packets, m_LastSyncedState)

SparseListInv ==
  /\ compressed \in BOOLEAN
  /\ Kept(list)
  /\ PacketsInv
  /\ ShownUncompressed
==============================================================================
