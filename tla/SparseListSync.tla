--------------------------- MODULE SparseListSync ----------------------------
(***************************************************************************)
(* An application changes a NetSparseList and sends it now and then through *)
(* a reliable delta pipe (NetPipeDeltaStateReliable).  The sender's list    *)
(* and the receiver's go through different operations, so their capacities *)
(* and histories differ; what must agree is what the wire format relies on.*)
(***************************************************************************)
EXTENDS SparseList

CONSTANTS
  Null,
  Limit,        \* the application uses the indices below this
  MaxReserve,   \* bound: the sizes it reserves
  MaxInFlight

\* Nothing in the class enforces MaxSize: the application has to.
ASSUME LimitAssumption == Limit \in 1 .. MaxSize /\ MaxReserve \in Nat

\* The lists there can be: capacities are doubled as long as an index does not
\* fit, or are what was reserved.
MaxCapacity == 2 * Limit + MaxReserve
ListType ==
  [m_HighestIndex : -1 .. Limit - 1,
   m_Values : UNION {[0 .. n - 1 -> Elem \cup {Free}] : n \in 0 .. MaxCapacity}]

FullPayload ==
  [num_elements : 0 .. Limit, entries : Seq([index : 0 .. Limit - 1, value : Elem])]

DeltaPayload ==
  [size_change : BOOLEAN, highest : -1 .. Limit - 1,
   entries : Seq([index : 0 .. Limit - 1, kind : {"added", "changed", "removed"},
                  value : Elem \cup {Free}])]

ASSUME NullAssumption ==
  /\ Null \notin ListType
  /\ Corrupt \notin ListType \cup {Null}
  /\ Unchanged \notin FullPayload \cup DeltaPayload

VARIABLES
  list,        \* the application's list
  compressed,  \* history: whether Compress has ever moved an element
  m_LastSyncedState, m_ReferenceState, packets, shown

Pipe == INSTANCE ReliablePipe WITH Default <- EmptyList

pipeVars == <<m_LastSyncedState, m_ReferenceState, packets, shown>>
vars == <<list, compressed, pipeVars>>

Init == list = EmptyList /\ compressed = FALSE /\ Pipe!Init

\* Every mutating operation of the class, and what the list is after it.
InsertAt == \E i \in 0 .. Limit - 1, v \in Elem : list' = PlaceAt(list, i, v)
EmplaceBack == /\ list.m_HighestIndex + 1 < Limit
               /\ \E v \in Elem : list' = PushBack(list, v)
EmplaceAny == \E v \in Elem :
                /\ Emplace(list, v).m_HighestIndex < Limit
                /\ list' = Emplace(list, v)
Remove == \E i \in 0 .. Limit - 1 : list' = RemoveAt(list, i)
ClearAll == list' = Clear(list)
ReserveMore == \E size \in 1 .. MaxReserve : list' = Reserve(list, size)
CompressAll == /\ list' = Compress(list)
               /\ compressed' = (compressed \/ Contents(list') # Contents(list))
Assign == m_LastSyncedState # Null /\ list' = Copy(list, m_LastSyncedState)

Change ==
  /\ \/ /\ \/ InsertAt \/ EmplaceBack \/ EmplaceAny \/ Remove
           \/ ClearAll \/ ReserveMore \/ Assign
        /\ UNCHANGED compressed
     \/ CompressAll
  /\ UNCHANGED pipeVars

\* The pipe keeps what it is given, so the application gives it a copy.
SyncState == Pipe!SyncState(Copy(EmptyList, list)) /\ UNCHANGED <<list, compressed>>

GotMessage == Pipe!GotMessage /\ UNCHANGED <<list, compressed>>

Next == Change \/ SyncState \/ GotMessage

Spec == Init /\ [][Next]_vars

\* NetPipeFullState keeps no state: its receiver decodes onto a copy of
\* *m_DefaultData.
FullStateInst(m_DefaultData, l) == DeserializeValue(m_DefaultData, SerializeValue(l))

------------------------------------------------------------------------------
(***************************************************************************)
(* Properties.                                                             *)
(***************************************************************************)
(***************************************************************************)
(* Every slot in use lies at or below m_HighestIndex, m_HighestIndex lies  *)
(* within the array and below the application's limit, and every slot of   *)
(* the array has been initialised, after any sequence of operations at     *)
(* either end, Compress included: no element is hidden from iteration,     *)
(* Grow and the destructor, and the indices fit into the widths sent.      *)
(***************************************************************************)
InBounds(l) ==
  /\ l.m_HighestIndex \in -1 .. Min({Limit, Capacity(l)}) - 1
  /\ \A i \in Slots(l) : l.m_Values[i] # Junk /\ (IsValid(l, i) => i <= l.m_HighestIndex)

Lists == {list, m_LastSyncedState, m_ReferenceState} \ {Null, Corrupt}

ListsInBounds == \A l \in Lists : InBounds(l)

(***************************************************************************)
(* Moreover, until Compress moves an element, m_HighestIndex is exactly    *)
(* the highest slot in use: the width of the indices on the wire depends   *)
(* on it.                                                                  *)
(***************************************************************************)
WellFormed(l) == InBounds(l) /\ (l.m_HighestIndex >= 0 => IsValid(l, l.m_HighestIndex))

ListsWellFormed == ~compressed => \A l \in Lists : WellFormed(l)

(***************************************************************************)
(* What the callback of the receiver gets has the elements of the list     *)
(* that was given to SyncState, at the same indices: what the check        *)
(* StormReflCompare in NetPipeDeltaStateSender::SyncState says of a delta. *)
(***************************************************************************)
ShownAsSent ==
  shown.inst # Null =>
    shown.inst # Corrupt /\ Contents(shown.inst) = Contents(shown.sent)

(***************************************************************************)
(* It does until Compress moves an element, after any other operations at  *)
(* the sender and whatever capacities the two lists have come to have.     *)
(***************************************************************************)
ShownUncompressed == ~compressed => ShownAsSent

(***************************************************************************)
(* operator == holds of two lists exactly when they have the same elements *)
(* at the same indices, whatever their capacities, until Compress moves    *)
(* an element.                                                             *)
(***************************************************************************)
EqualityExact ==
  m_LastSyncedState # Null /\ ~compressed =>
    (Equal(list, m_LastSyncedState) <=> Contents(list) = Contents(m_LastSyncedState))

(***************************************************************************)
(* A full state decoded onto a default that has elements of its own is the *)
(* list that was sent, except that the default's highest element stays     *)
(* when it lies above everything sent: nothing else is left of it, until   *)
(* Compress moves an element.                                              *)
(***************************************************************************)
FullStateLeftover ==
  m_LastSyncedState # Null /\ ~compressed =>
    LET inst == FullStateInst(m_LastSyncedState, list)
        top  == m_LastSyncedState.m_HighestIndex
    IN  /\ WellFormed(inst)
        /\ \A i \in DOMAIN Contents(list) : HasAt(inst, i) /\ inst.m_Values[i] = list.m_Values[i]
        /\ DOMAIN Contents(inst) \ DOMAIN Contents(list) \subseteq
             IF top > list.m_HighestIndex THEN {top} ELSE {}
==============================================================================
