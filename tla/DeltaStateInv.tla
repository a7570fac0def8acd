---------------------------- MODULE DeltaStateInv ----------------------------
(***************************************************************************)
(* The inductive invariant behind the safety properties of DeltaState on a *)
(* pipe that keeps messages in order.  Two different arguments are needed. *)
(* WindowInv: as long as no slot was reused before the first               *)
(* acknowledgement, everything on the way lies in the window of slots      *)
(* between the acknowledged slot and the last one filled, in ring order,   *)
(* so no slot is reused while anyone may still refer to it; losses do no   *)
(* harm.  LosslessInv: as long as the receiver missed no message, its ring *)
(* is the sender's ring as of the last message it got, even if slots were  *)
(* reused too early.                                                       *)
(***************************************************************************)
EXTENDS DeltaState

Ordered == Mode # "kUnreliableUnsequenced"

(***************************************************************************)
(* Sender and receiver agree on the layout of a message, which they do     *)
(* exactly when DataStoreSize is not a power of two.                       *)
(***************************************************************************)
WireCompatible == RefReadBits = SlotBits /\ DataStoreSize < 2 ^ SlotBits

\* How far slot s lies ahead of slot a, going round the ring (a may be -1).
RankFrom(a, s) == IF s >= a THEN s - a ELSE s - a + DataStoreSize

Rank(s) == RankFrom(m_LastAckedState, s)

\* Slot s lies after slot a, up to and including slot n.
Within(a, n, s) == 1 <= RankFrom(a, s) /\ RankFrom(a, s) <= RankFrom(a, n)

InWindow(s) == Within(m_LastAckedState, m_NextStateSlot, s)

AcksInRingOrder ==
  /\ \A k \in 1 .. Len(acks) : InWindow(acks[k])
  /\ \A k, l \in 1 .. Len(acks) : k < l => Rank(acks[k]) < Rank(acks[l])

MsgsInRingOrder ==
  /\ \A i \in 1 .. Len(msgs) : InWindow(msgs[i].slot)
  /\ \A i, j \in 1 .. Len(msgs) : i < j => Rank(msgs[i].slot) < Rank(msgs[j].slot)

AcksBeforeMsgs ==
  \A k \in 1 .. Len(acks), i \in 1 .. Len(msgs) : Rank(acks[k]) < Rank(msgs[i].slot)

\* Both ends hold the same state in this slot.
Agreed(s) == sendStore[s] \in State /\ recvStore[s] = sendStore[s]

AckedAgreed ==
  /\ m_LastAckedState # -1 => Agreed(m_LastAckedState)
  /\ \A k \in 1 .. Len(acks) : Agreed(acks[k])

MsgsCurrent == \A i \in 1 .. Len(msgs) : sendStore[msgs[i].slot] = msgs[i].to

\* The reference of a message is in place, and stays until the message comes.
ReferencesInPlace ==
  \A i \in 1 .. Len(msgs) :
    msgs[i].ref # NoRef =>
      /\ recvStore[msgs[i].ref] = msgs[i].from
      /\ \A j \in 1 .. i - 1 : msgs[j].slot # msgs[i].ref

FilledSoFar ==
  m_LastAckedState = -1 => \A s \in Slots : s <= m_NextStateSlot => sendStore[s] # Null

WindowInv ==
  /\ AcksInRingOrder
  /\ MsgsInRingOrder
  /\ AcksBeforeMsgs
  /\ AckedAgreed
  /\ MsgsCurrent
  /\ ReferencesInPlace
  /\ FilledSoFar

\* Of the messages before the i-th, none fills slot s after the j-th.
LastFill(s, j, i) == \A k \in j + 1 .. i - 1 : msgs[k].slot # s

\* A slot nothing on the way will fill is the same at both ends.
SettledAgreed ==
  \A s \in Slots : LastFill(s, 0, Len(msgs) + 1) => recvStore[s] = sendStore[s]

\* The last message on the way for a slot carries what the sender holds there.
LastMessageCurrent ==
  \A i \in 1 .. Len(msgs) :
    LastFill(msgs[i].slot, i, Len(msgs) + 1) => sendStore[msgs[i].slot] = msgs[i].to

\* By the time a message comes its reference is in place.
ReferencesComing ==
  \A i \in 1 .. Len(msgs) :
    msgs[i].ref # NoRef =>
      /\ LastFill(msgs[i].ref, 0, i) => recvStore[msgs[i].ref] = msgs[i].from
      /\ \A j \in 1 .. i - 1 :
           msgs[j].slot = msgs[i].ref /\ LastFill(msgs[i].ref, j, i)
             => msgs[j].to = msgs[i].from

LosslessInv == SettledAgreed /\ LastMessageCurrent /\ ReferencesComing

\* Holds in every mode: what an acknowledgement or a message names is filled.
FilledInv ==
  /\ ~fault
  /\ m_LastAckedState # -1 => recvStore[m_LastAckedState] # Null /\ sendStore[m_LastAckedState] # Null
  /\ \A k \in 1 .. Len(acks) : recvStore[acks[k]] # Null /\ sendStore[acks[k]] # Null
  /\ \A i \in 1 .. Len(msgs) :
       /\ ~msgs[i].garbled
       /\ sendStore[msgs[i].slot] # Null
       /\ IF msgs[i].ref = NoRef THEN msgs[i].from = Null
          ELSE msgs[i].from # Null /\ recvStore[msgs[i].ref] # Null

\* How many slots have been filled after slot s was, going round the ring.
Behind(s) == RankFrom(s, m_NextStateSlot)

(***************************************************************************)
(* Whatever was sent after a packet that is still on the way, or after the *)
(* message whose acknowledgement came last, is on the way behind it or is  *)
(* lost.  This does not need the window: the ring may have wrapped.        *)
(***************************************************************************)
GapsAccounted ==
  /\ \A i \in 1 .. Len(msgs) : Behind(msgs[i].slot) <= Len(msgs) - i + lost
  /\ \A k \in 1 .. Len(acks) : Behind(acks[k]) <= Len(acks) - k + Len(msgs) + lost
  /\ m_LastAckedState # -1 => Behind(m_LastAckedState) <= Len(acks) + Len(msgs) + lost

(***************************************************************************)
(* The inductive invariant of an ordered pipe: the two ends agree on every *)
(* slot an acknowledgement or a message still refers to, by one argument   *)
(* or the other (SyncState, GotMessage, GotAck and every loss), and every  *)
(* slot filled since is accounted for.                                     *)
(***************************************************************************)
PipeInv ==
  /\ ~tainted => FilledInv
  /\ ~tainted => GapsAccounted
  /\ ~tainted /\ ~overrun => WindowInv
  /\ ~tainted /\ ~missed => LosslessInv
  /\ DeliveredAsSent
==============================================================================
