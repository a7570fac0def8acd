---------------------------- MODULE ReliablePipe -----------------------------
(***************************************************************************)
(* NetPipeDeltaStateReliable: a chain of deltas on a kReliable channel.    *)
(* The sender computes every delta against the state it sent last, the     *)
(* receiver applies it to the state it decoded last; nothing is            *)
(* acknowledged.  The channel itself neither loses nor reorders packets.   *)
(*                                                                         *)
(* The module is generic in the data class: its four (de)serializers are   *)
(* parameters.  A decoder yields Corrupt when it reads fields that are not *)
(* where it expects them.                                                  *)
(***************************************************************************)
EXTENDS Integers, Sequences

CONSTANTS
  Null,                     \* an empty shared_ptr
  Corrupt,                  \* an instance nobody sent
  Default,                  \* a default constructed DataClass
  Unchanged,                \* NetSerializeValueDelta returned false: no payload
  SerializeValue(_), SerializeDelta(_, _),
  DeserializeValue(_, _), DeserializeDelta(_, _),
  MaxInFlight               \* bound: packets on the way

VARIABLES
  m_LastSyncedState,  \* sender
  m_ReferenceState,   \* receiver
  packets,            \* on the way, oldest first: the payload and, for the
                      \* properties, the state it was made from
  shown               \* the last m_UpdateCallback: what it got, what was sent

vars == <<m_LastSyncedState, m_ReferenceState, packets, shown>>

Init ==
  /\ m_LastSyncedState = Null
  /\ m_ReferenceState = Null
  /\ packets = << >>
  /\ shown = [inst |-> Null, sent |-> Null]

Payload(current_state) ==
  IF m_LastSyncedState # Null THEN SerializeDelta(current_state, m_LastSyncedState)
                              ELSE SerializeValue(current_state)

SyncState(current_state) ==
  /\ Len(packets) < MaxInFlight
  /\ packets' = Append(packets, [payload |-> Payload(current_state), state |-> current_state])
  /\ m_LastSyncedState' = current_state
  /\ UNCHANGED <<m_ReferenceState, shown>>

Inst(payload) ==
  IF m_ReferenceState = Corrupt THEN Corrupt
  ELSE IF m_ReferenceState # Null THEN DeserializeDelta(m_ReferenceState, payload)
  ELSE DeserializeValue(Default, payload)

\* A packet without a payload leaves a copy of the reference, or the reader
\* runs out of bits and throws: nothing is stored and nobody is called.
GotMessage ==
  /\ packets # << >>
  /\ \/ /\ m_ReferenceState' = Inst(Head(packets).payload)
        /\ shown' = [inst |-> m_ReferenceState', sent |-> Head(packets).state]
     \/ /\ Head(packets).payload = Unchanged
        /\ UNCHANGED <<m_ReferenceState, shown>>
  /\ packets' = Tail(packets)
  /\ UNCHANGED m_LastSyncedState
==============================================================================
