-------------------------- MODULE DeltaStateProofs ---------------------------
(***************************************************************************)
(* Proofs about DeltaState for every state set, ring size, mode and bound: *)
(* first that the types hold, then that PipeInv is inductive, what follows *)
(* from it, and that an ordered delta pipe implements a queue of whole     *)
(* states.                                                                 *)
(***************************************************************************)
EXTENDS DeltaStateInv, SequenceTheorems, CommonProofs

(***************************************************************************)
(* Facts about the operators of the model.                                 *)
(***************************************************************************)

\* What RemoveAt leaves of a sequence, by index.
LEMMA RemoveAtProps ==
  ASSUME NEW S, NEW s \in Seq(S), NEW i \in 1 .. Len(s)
  PROVE  /\ RemoveAt(s, i) \in Seq(S)
         /\ Len(RemoveAt(s, i)) = Len(s) - 1
         /\ \A j \in 1 .. Len(s) - 1 : RemoveAt(s, i)[j] = s[IF j < i THEN j ELSE j + 1]
<1> DEFINE a == SubSeq(s, 1, i - 1)
           b == SubSeq(s, i + 1, Len(s))
           c == RemoveAt(s, i)
<1>1. Len(s) \in Nat /\ \A k \in 1 .. Len(s) : s[k] \in S
  OBVIOUS
<1>2. a \in Seq(S) /\ Len(a) = i - 1 /\ \A j \in 1 .. i - 1 : a[j] = s[j]
  BY <1>1
<1>3. b \in Seq(S) /\ Len(b) = Len(s) - i /\ \A j \in 1 .. Len(s) - i : b[j] = s[j + i]
  BY <1>1
<1>4. c = a \o b
  BY DEF RemoveAt
<1> HIDE DEF a, b, c
<1>5. /\ c \in Seq(S)
      /\ Len(c) = Len(a) + Len(b)
      /\ \A j \in 1 .. Len(a) + Len(b) :
           c[j] = IF j <= Len(a) THEN a[j] ELSE b[j - Len(a)]
  BY <1>2, <1>3, <1>4, ConcatProperties
<1>6. Len(a) + Len(b) = Len(s) - 1
  BY <1>1, <1>2, <1>3
<1>7. \A j \in 1 .. Len(s) - 1 : c[j] = IF j <= i - 1 THEN a[j] ELSE b[j - (i - 1)]
  BY <1>2, <1>5, <1>6
<1>8. ASSUME NEW j \in 1 .. Len(s) - 1
      PROVE  c[j] = s[IF j < i THEN j ELSE j + 1]
  <2>1. CASE j < i
    <3>1. c[j] = a[j] /\ j \in 1 .. i - 1
      BY <2>1, <1>7, <1>1
    <3> QED
      BY <3>1, <1>2, <2>1
  <2>2. CASE ~(j < i)
    <3>1. c[j] = b[j - (i - 1)] /\ j - (i - 1) \in 1 .. Len(s) - i
      BY <2>2, <1>1, <1>7
    <3>2. b[j - (i - 1)] = s[j + 1]
      BY <3>1, <1>1, <1>3, <2>2
    <3> QED
      BY <3>1, <3>2, <2>2
  <2> QED
    BY <2>1, <2>2
<1> QED
  BY <1>5, <1>6, <1>8 DEF c

\* Writing a number in a field never makes it larger.
LEMMA TruncateRange ==
  ASSUME NEW v \in Nat
  PROVE  Truncate(v, SlotBits) \in 0 .. v
<1>1. SlotBits \in 1 .. 32
  BY RequiredBitsRange, SizeAssumption DEF SlotBits
<1> DEFINE p == 2 ^ SlotBits
<1>2. p \in Nat /\ p > 0
  BY <1>1, PowerOfTwo
<1> HIDE DEF p
<1>3. v % p \in 0 .. v
  BY <1>2
<1> QED
  BY <1>3 DEF Truncate, p

\* On a compatible wire both slot fields are read as they were written.
LEMMA WireFacts ==
  ASSUME WireCompatible
  PROVE  /\ \A v \in 0 .. DataStoreSize : Truncate(v, SlotBits) = v
         /\ \A m \in Message :
              ~m.garbled => SlotsRead(m) = {m.slot} /\ RefsRead(m) = {m.ref} /\ Aligned(m)
<1>1. SlotBits \in 1 .. 32
  BY RequiredBitsRange, SizeAssumption DEF SlotBits
<1> DEFINE p == 2 ^ SlotBits
<1>2. p \in Nat /\ p > 0
  BY <1>1, PowerOfTwo
<1>3. DataStoreSize < p /\ 2 ^ RefReadBits = p
  BY DEF WireCompatible
<1>4. \A v : Truncate(v, SlotBits) = v % p
  BY DEF Truncate
<1> HIDE DEF p
<1>5. \A v \in 0 .. p - 1 : v % p = v
  BY <1>2
<1>6. \A v \in 0 .. DataStoreSize : Truncate(v, SlotBits) = v
  BY <1>2, <1>3, <1>4, <1>5, SizeAssumption
<1>7. ASSUME NEW m \in Message, ~m.garbled
      PROVE  SlotsRead(m) = {m.slot} /\ RefsRead(m) = {m.ref} /\ Aligned(m)
  <2>1. SlotsRead(m) = {m.slot}
    BY <1>7 DEF SlotsRead
  <2>2. RefsRead(m) = {r \in 0 .. p - 1 : Truncate(r, SlotBits) = m.ref}
    BY <1>7, <1>3 DEF RefsRead
  <2>3. m.ref \in 0 .. p - 1
    BY <1>2, <1>3, SizeAssumption DEF Message
  <2>4. RefsRead(m) = {m.ref}
    BY <2>2, <2>3, <1>4, <1>5
  <2> QED
    BY <2>1, <2>4, <1>7 DEF Aligned, WireCompatible
<1> QED
  BY <1>6, <1>7

------------------------------------------------------------------------------
(***************************************************************************)
(* Type correctness.                                                       *)
(***************************************************************************)
LEMMA NextSlotType ==
  ASSUME TypeOK
  PROVE  /\ NextSlot \in Slots
         /\ NextSlot = IF m_NextStateSlot = DataStoreSize - 1 THEN 0 ELSE m_NextStateSlot + 1
<1>1. m_NextStateSlot \in -1 .. DataStoreSize - 1 /\ DataStoreSize \in Nat /\ DataStoreSize > 0
  BY SizeAssumption DEF TypeOK
<1>2. \A v \in 0 .. DataStoreSize - 1 : v % DataStoreSize = v
  BY <1>1
<1>3. DataStoreSize % DataStoreSize = 0
  BY <1>1
<1>4. CASE m_NextStateSlot = DataStoreSize - 1
  BY <1>1, <1>3, <1>4 DEF NextSlot, Slots
<1>5. CASE m_NextStateSlot # DataStoreSize - 1
  BY <1>1, <1>2, <1>5 DEF NextSlot, Slots
<1> QED
  BY <1>4, <1>5

\* Every message SyncState sends has the fields of a message.
LEMMA SyncMessageType ==
  ASSUME TypeOK, NEW s \in State
  PROVE  SyncMessage(s) \in Message
<1>1. Truncate(NextSlot, SlotBits) \in Slots
  BY NextSlotType, TruncateRange, SizeAssumption DEF Slots
<1> DEFINE r == IF m_LastAckedState # -1 THEN m_LastAckedState ELSE NoRef
<1>2. r \in Nat /\ r <= DataStoreSize
  BY SizeAssumption DEF TypeOK, NoRef
<1>3. Truncate(r, SlotBits) \in 0 .. DataStoreSize
  <2> HIDE DEF r
  <2> QED
    BY <1>2, TruncateRange, SizeAssumption
<1>4. Reference \in State \cup {Null}
  BY SizeAssumption DEF Reference, TypeOK, Slots
<1>5. (abandoned > 0) \in BOOLEAN
  OBVIOUS
<1> QED
  BY <1>1, <1>3, <1>4, <1>5 DEF SyncMessage, Message

\* Whatever GotMessage leaves in *inst is storable.
LEMMA InstType ==
  ASSUME TypeOK, NEW m \in Message, NEW ref, ref = NoRef \/ Readable(ref)
  PROVE  Inst(m, ref) \in Contents
BY DEF Inst, TypeOK, Readable, Contents, Message

\* Every action keeps the type invariant (the whole of NetPipeDeltaState.h).
LEMMA TypeStep == TypeOK /\ [Next]_vars => TypeOK'
<1> SUFFICES ASSUME TypeOK, [Next]_vars
             PROVE  TypeOK'
  OBVIOUS
<1>1. CASE SyncStateRefused
  BY <1>1, BoundAssumption DEF TypeOK, SyncStateRefused, history
<1>2. ASSUME NEW s \in State, SyncStateSent(s)
      PROVE  TypeOK'
  <2>1. NextSlot \in Slots /\ SyncMessage(s) \in Message
    BY NextSlotType, SyncMessageType
  <2>2. msgs' \in Seq(Message)
    BY <2>1, <1>2 DEF TypeOK, SyncStateSent
  <2>3. sendStore' \in [Slots -> State \cup {Null}]
    BY <2>1, <1>2 DEF TypeOK, SyncStateSent
  <2>4. m_NextStateSlot' \in -1 .. DataStoreSize - 1
    BY <2>1, <1>2, SizeAssumption DEF TypeOK, SyncStateSent, Slots
  <2> QED
    BY <2>2, <2>3, <2>4, <1>2 DEF TypeOK, SyncStateSent
<1>3. CASE GotAck
  <2>1. Head(acks) \in Slots /\ Tail(acks) \in Seq(Slots)
    BY <1>3 DEF GotAck, TypeOK
  <2>2. m_LastAckedState' \in -1 .. DataStoreSize - 1
    BY <2>1, <1>3, SizeAssumption DEF GotAck, Slots
  <2> QED
    BY <2>1, <2>2, <1>3 DEF TypeOK, GotAck, history
<1>4. ASSUME NEW i \in Deliverable, GotMessage(i)
      PROVE  TypeOK'
  <2> DEFINE m == msgs[i]
  <2>1. i \in 1 .. Len(msgs) /\ m \in Message
    BY DEF Deliverable, TypeOK
  <2>2. msgs' \in Seq(Message)
    BY <2>1, <1>4, RemoveAtProps DEF TypeOK, GotMessage
  <2>3. UNCHANGED <<sendVars, missed, overrun, tainted>>
    BY <1>4 DEF GotMessage
  <2>4. PICK slot \in SlotsRead(m), ref \in RefsRead(m) :
          IF slot \in Slots /\ (ref = NoRef \/ Readable(ref))
          THEN Accept(m, slot, Inst(m, ref))
          ELSE Crash
    BY <1>4 DEF GotMessage
  <2>5. CASE slot \in Slots /\ (ref = NoRef \/ Readable(ref))
    <3> DEFINE inst == Inst(m, ref)
    <3>1. inst \in Contents
      BY <2>1, <2>5, InstType
    <3>2. Accept(m, slot, inst)
      BY <2>4, <2>5
    <3>3. Truncate(slot, SlotBits) \in Slots
      BY <2>5, TruncateRange, SizeAssumption DEF Slots
    <3> HIDE DEF inst
    <3>4. m.to \in State
      BY <2>1 DEF Message
    <3> HIDE DEF m
    <3> QED
      BY <2>2, <2>3, <2>5, <3>1, <3>2, <3>3, <3>4 DEF TypeOK, Accept, sendVars
  <2>6. CASE ~(slot \in Slots /\ (ref = NoRef \/ Readable(ref)))
    <3>1. Crash
      BY <2>4, <2>6
    <3> QED
      BY <2>2, <2>3, <3>1 DEF TypeOK, Crash, sendVars
  <2> QED
    BY <2>5, <2>6
<1>5. ASSUME NEW i \in Deliverable, GotMessageThrew(i)
      PROVE  TypeOK'
  <2>1. msgs' \in Seq(Message)
    BY <1>5, RemoveAtProps DEF TypeOK, GotMessageThrew, Deliverable
  <2> QED
    BY <2>1, <1>5 DEF TypeOK, GotMessageThrew, sendVars
<1>6. ASSUME NEW i \in 1 .. Len(msgs), LoseMessage(i)
      PROVE  TypeOK'
  <2>1. msgs' \in Seq(Message)
    BY <1>6, RemoveAtProps DEF TypeOK, LoseMessage
  <2> QED
    BY <2>1, <1>6 DEF TypeOK, LoseMessage, sendVars
<1>7. ASSUME NEW i \in 1 .. Len(acks), LoseAck(i)
      PROVE  TypeOK'
  <2>1. acks' \in Seq(Slots)
    BY <1>7, RemoveAtProps DEF TypeOK, LoseAck
  <2> QED
    BY <2>1, <1>7 DEF TypeOK, LoseAck, sendVars
<1>8. CASE UNCHANGED vars
  BY <1>8 DEF TypeOK, vars, sendVars, history
<1> QED
  BY <1>1, <1>2, <1>3, <1>4, <1>5, <1>6, <1>7, <1>8 DEF Next, SyncState, Deliver, Lose

LEMMA TypeInit == Init => TypeOK
BY SizeAssumption DEF Init, TypeOK, Slots, Contents

(***************************************************************************)
(* The state of NetPipeDeltaStateSender and Receiver, and the packets      *)
(* between them, stay within their types for every ring size and mode:     *)
(* no slot index leaves the ring, whatever is lost or garbled.             *)
(***************************************************************************)
THEOREM TypeCorrect == Spec => []TypeOK
BY TypeInit, TypeStep, PTL DEF Spec

------------------------------------------------------------------------------
(***************************************************************************)
(* Slots that are named are filled, in every mode.                         *)
(***************************************************************************)

\* On a compatible wire an ordinary message is read as it was written.
LEMMA CleanDelivery ==
  ASSUME TypeOK, WireCompatible, NEW i \in 1 .. Len(msgs), ~msgs[i].garbled, GotMessage(i)
  PROVE  IF msgs[i].ref = NoRef \/ Readable(msgs[i].ref)
         THEN Accept(msgs[i], msgs[i].slot, Inst(msgs[i], msgs[i].ref))
         ELSE Crash
<1> DEFINE m == msgs[i]
<1>1. m \in Message
  BY DEF TypeOK
<1>2. SlotsRead(m) = {m.slot} /\ RefsRead(m) = {m.ref}
  BY <1>1, WireFacts
<1>3. m.slot \in Slots
  BY <1>1 DEF Message
<1> QED
  BY <1>2, <1>3 DEF GotMessage

\* What an accepted message does on a compatible wire.
LEMMA CleanAccept ==
  ASSUME TypeOK, WireCompatible, NEW m \in Message, NEW inst, Accept(m, m.slot, inst)
  PROVE  /\ recvStore' = [recvStore EXCEPT ![m.slot] = inst]
         /\ callback' = [inst |-> inst, sent |-> m.to]
         /\ acks' = Append(acks, m.slot)
         /\ UNCHANGED <<fault, lost>>
<1>1. m.slot \in 0 .. DataStoreSize
  BY SizeAssumption DEF Message, Slots
<1>2. Truncate(m.slot, SlotBits) = m.slot
  BY <1>1, WireFacts
<1> QED
  BY <1>2 DEF Accept

\* The message SyncState sends on a compatible wire.
LEMMA CleanSync ==
  ASSUME TypeOK, WireCompatible, NEW s \in State
  PROVE  /\ SyncMessage(s).slot = NextSlot
         /\ SyncMessage(s).ref = IF m_LastAckedState # -1 THEN m_LastAckedState ELSE NoRef
         /\ SyncMessage(s).from = Reference
         /\ SyncMessage(s).to = s
         /\ abandoned = 0 => ~SyncMessage(s).garbled
<1>1. NextSlot \in 0 .. DataStoreSize
  BY NextSlotType, SizeAssumption DEF Slots
<1> DEFINE r == IF m_LastAckedState # -1 THEN m_LastAckedState ELSE NoRef
<1>2. r \in 0 .. DataStoreSize
  BY SizeAssumption DEF TypeOK, NoRef
<1>3. Truncate(NextSlot, SlotBits) = NextSlot /\ Truncate(r, SlotBits) = r
  <2> HIDE DEF r
  <2> QED
    BY <1>1, <1>2, WireFacts
<1>4. abandoned = 0 => ~(abandoned > 0)
  OBVIOUS
<1> QED
  BY <1>3, <1>4 DEF SyncMessage

\* The slots packets name are slots of the ring.
LEMMA PacketTypes ==
  ASSUME TypeOK
  PROVE  /\ m_LastAckedState # -1 => m_LastAckedState \in Slots
         /\ \A k \in 1 .. Len(acks) : acks[k] \in Slots
         /\ \A k \in 1 .. Len(msgs) :
              /\ msgs[k] \in Message
              /\ msgs[k].slot \in Slots
              /\ msgs[k].to \in State
              /\ msgs[k].ref # NoRef => msgs[k].ref \in Slots
<1>1. m_LastAckedState # -1 => m_LastAckedState \in Slots
  BY SizeAssumption DEF TypeOK, Slots
<1>2. \A k \in 1 .. Len(acks) : acks[k] \in Slots
  BY DEF TypeOK
<1>3. ASSUME NEW k \in 1 .. Len(msgs)
      PROVE  msgs[k] \in Message
  BY DEF TypeOK
<1>4. ASSUME NEW m \in Message
      PROVE  m.slot \in Slots /\ m.to \in State /\ (m.ref # NoRef => m.ref \in Slots)
  BY SizeAssumption DEF Message, NoRef, Slots
<1> QED
  BY <1>1, <1>2, <1>3, <1>4

\* Removing a packet leaves packets that were there.
LEMMA RemoveAtKeeps ==
  ASSUME NEW S, NEW s \in Seq(S), NEW i \in 1 .. Len(s)
  PROVE  \A j \in 1 .. Len(RemoveAt(s, i)) : \E k \in 1 .. Len(s) : RemoveAt(s, i)[j] = s[k]
<1>1. /\ Len(RemoveAt(s, i)) = Len(s) - 1
      /\ \A j \in 1 .. Len(s) - 1 : RemoveAt(s, i)[j] = s[IF j < i THEN j ELSE j + 1]
  BY RemoveAtProps
<1>2. \A j \in 1 .. Len(s) - 1 : (IF j < i THEN j ELSE j + 1) \in 1 .. Len(s)
  OBVIOUS
<1> QED
  BY <1>1, <1>2

\* A delta that is decoded on a filled slot gives contents, never nothing.
LEMMA InstFilled ==
  ASSUME TypeOK, NEW m \in Message, m.ref = NoRef \/ Readable(m.ref),
         m.ref = NoRef => m.from = Null
  PROVE  Inst(m, m.ref) # Null
BY StateAssumption DEF Inst, Readable, Message

LEMMA FilledStep ==
  ASSUME TypeOK, TypeOK', WireCompatible, ~tainted => FilledInv, [Next]_vars, ~tainted'
  PROVE  FilledInv'
<1>1. CASE SyncStateRefused
  BY <1>1 DEF SyncStateRefused, history, FilledInv
<1>2. ASSUME NEW s \in State, SyncStateSent(s)
      PROVE  FilledInv'
  <2>1. FilledInv /\ abandoned = 0
    <3>1. ~tainted /\ ~(abandoned > 0)
      BY <1>2, Zenon DEF SyncStateSent
    <3>2. abandoned \in Nat
      BY DEF TypeOK
    <3> QED
      BY <3>1, <3>2
  <2>2. NextSlot \in Slots
    BY NextSlotType
  <2> DEFINE m == SyncMessage(s)
  <2>3. m \in Message
    BY SyncMessageType
  <2>4. ~m.garbled /\ m.slot = NextSlot
    BY <2>1, CleanSync
  <2>5. IF m.ref = NoRef THEN m.from = Null ELSE m.from # Null /\ recvStore[m.ref] # Null
    <3>1. /\ m.ref = IF m_LastAckedState # -1 THEN m_LastAckedState ELSE NoRef
          /\ m.from = Reference
      BY CleanSync
    <3> HIDE DEF m
    <3> QED
      BY <2>1, <3>1, SizeAssumption DEF Reference, NoRef, TypeOK, FilledInv
  <2>6. sendStore' = [sendStore EXCEPT ![NextSlot] = s] /\ recvStore' = recvStore
    BY <1>2 DEF SyncStateSent
  <2>7. \A t \in Slots : sendStore[t] # Null => sendStore'[t] # Null
    BY <2>6, StateAssumption DEF TypeOK
  <2>8. sendStore'[NextSlot] # Null
    BY <2>2, <2>6, StateAssumption DEF TypeOK
  <2>9. msgs' = Append(msgs, m) /\ acks' = acks /\ m_LastAckedState' = m_LastAckedState /\ fault' = fault
    BY <1>2 DEF SyncStateSent
  <2> HIDE DEF m
  <2>10. ASSUME NEW i \in 1 .. Len(msgs')
         PROVE  \/ i \in 1 .. Len(msgs) /\ msgs'[i] = msgs[i]
                \/ msgs'[i] = m
    BY <2>3, <2>9 DEF TypeOK
  <2>11. ASSUME NEW i \in 1 .. Len(msgs')
         PROVE  /\ ~msgs'[i].garbled
                /\ sendStore'[msgs'[i].slot] # Null
                /\ IF msgs'[i].ref = NoRef THEN msgs'[i].from = Null
                   ELSE msgs'[i].from # Null /\ recvStore'[msgs'[i].ref] # Null
    <3>1. CASE i \in 1 .. Len(msgs) /\ msgs'[i] = msgs[i]
      BY <3>1, <2>1, <2>6, <2>7, PacketTypes DEF FilledInv
    <3>2. CASE msgs'[i] = m
      BY <3>2, <2>4, <2>5, <2>6, <2>8
    <3> QED
      BY <2>10, <3>1, <3>2
  <2> QED
    BY <2>1, <2>6, <2>7, <2>9, <2>11, PacketTypes DEF FilledInv, NoRef
<1>3. CASE GotAck
  <2>1. acks # << >> /\ acks \in Seq(Slots)
    BY <1>3 DEF GotAck, TypeOK
  <2>2. Head(acks) = acks[1] /\ 1 \in 1 .. Len(acks)
    BY <2>1
  <2>3. \A k \in 1 .. Len(Tail(acks)) : k + 1 \in 1 .. Len(acks) /\ Tail(acks)[k] = acks[k + 1]
    BY <2>1
  <2>4. FilledInv
    BY <1>3 DEF GotAck, history
  <2> QED
    BY <1>3, <2>2, <2>3, <2>4 DEF GotAck, FilledInv
<1>4. ASSUME NEW i \in 1 .. Len(msgs), GotMessage(i)
      PROVE  FilledInv'
  <2> DEFINE m == msgs[i]
  <2>1. FilledInv
    BY <1>4 DEF GotMessage
  <2>2. m \in Message /\ m.slot \in Slots /\ (m.ref # NoRef => m.ref \in Slots)
    BY PacketTypes
  <2>3. /\ ~m.garbled
        /\ sendStore[m.slot] # Null
        /\ IF m.ref = NoRef THEN m.from = Null ELSE m.from # Null /\ recvStore[m.ref] # Null
    BY <2>1 DEF FilledInv
  <2>4. m.ref = NoRef \/ Readable(m.ref)
    BY <2>2, <2>3 DEF Readable
  <2>5. Accept(m, m.slot, Inst(m, m.ref))
    BY <1>4, <2>3, <2>4, CleanDelivery
  <2>6. /\ recvStore' = [recvStore EXCEPT ![m.slot] = Inst(m, m.ref)]
        /\ acks' = Append(acks, m.slot)
        /\ fault' = fault
    BY <2>2, <2>5, CleanAccept
  <2>7. Inst(m, m.ref) # Null
    BY <2>2, <2>3, <2>4, InstFilled
  <2>8. \A t \in Slots : recvStore[t] # Null \/ t = m.slot => recvStore'[t] # Null
    BY <2>2, <2>6, <2>7 DEF TypeOK
  <2>9. sendStore' = sendStore /\ m_LastAckedState' = m_LastAckedState /\ msgs' = RemoveAt(msgs, i)
    BY <1>4 DEF GotMessage, sendVars
  <2>10. \A j \in 1 .. Len(msgs') : \E k \in 1 .. Len(msgs) : msgs'[j] = msgs[k]
    <3>1. msgs \in Seq(Message)
      BY DEF TypeOK
    <3> QED
      BY <3>1, <2>9, RemoveAtKeeps
  <2> HIDE DEF m
  <2>11. \A k \in 1 .. Len(acks') :
           acks'[k] = m.slot \/ \E l \in 1 .. Len(acks) : acks'[k] = acks[l]
    BY <2>2, <2>6 DEF TypeOK
  <2>12. \A k \in 1 .. Len(acks') : recvStore'[acks'[k]] # Null /\ sendStore'[acks'[k]] # Null
    BY <2>1, <2>2, <2>3, <2>8, <2>9, <2>11, PacketTypes DEF FilledInv
  <2>13. ASSUME NEW j \in 1 .. Len(msgs')
         PROVE  /\ ~msgs'[j].garbled
                /\ sendStore'[msgs'[j].slot] # Null
                /\ IF msgs'[j].ref = NoRef THEN msgs'[j].from = Null
                   ELSE msgs'[j].from # Null /\ recvStore'[msgs'[j].ref] # Null
    <3>1. PICK k \in 1 .. Len(msgs) : msgs'[j] = msgs[k]
      BY <2>10
    <3> QED
      BY <3>1, <2>1, <2>8, <2>9, PacketTypes DEF FilledInv
  <2> QED
    BY <2>1, <2>6, <2>8, <2>9, <2>12, <2>13, PacketTypes DEF FilledInv, NoRef
<1>5. ASSUME NEW i \in 1 .. Len(msgs), GotMessageThrew(i) \/ LoseMessage(i)
      PROVE  FilledInv'
  <2>1. /\ msgs' = RemoveAt(msgs, i)
        /\ UNCHANGED <<sendVars, recvStore, acks, fault, tainted>>
    BY <1>5 DEF GotMessageThrew, LoseMessage
  <2>2. \A j \in 1 .. Len(msgs') : \E k \in 1 .. Len(msgs) : msgs'[j] = msgs[k]
    <3>1. msgs \in Seq(Message)
      BY DEF TypeOK
    <3> QED
      BY <3>1, <2>1, RemoveAtKeeps
  <2> QED
    BY <2>1, <2>2, SMTT(30) DEF sendVars, NoRef, FilledInv
<1>6. ASSUME NEW i \in 1 .. Len(acks), LoseAck(i)
      PROVE  FilledInv'
  <2>1. /\ acks' = RemoveAt(acks, i)
        /\ UNCHANGED <<sendVars, recvStore, msgs, fault, tainted>>
    BY <1>6 DEF LoseAck
  <2>2. \A j \in 1 .. Len(acks') : \E k \in 1 .. Len(acks) : acks'[j] = acks[k]
    <3>1. acks \in Seq(Slots)
      BY DEF TypeOK
    <3> QED
      BY <3>1, <2>1, RemoveAtKeeps
  <2> QED
    BY <2>1, <2>2, SMTT(30) DEF sendVars, NoRef, FilledInv
<1>7. CASE UNCHANGED vars
  BY <1>7 DEF vars, sendVars, history, FilledInv
<1> QED
  BY <1>1, <1>2, <1>3, <1>4, <1>5, <1>6, <1>7 DEF Next, SyncState, Deliver, Lose, Deliverable

(***************************************************************************)
(* In every mode, for every ring size both ends lay out alike: GotMessage  *)
(* never copies from an empty slot, as long as no packet was garbled by a  *)
(* header that a refused SyncState left behind.                            *)
(***************************************************************************)
THEOREM ReferencesFilled ==
  ASSUME WireCompatible
  PROVE  Spec => []NoNullReference
<1> DEFINE I == TypeOK /\ (~tainted => FilledInv)
<1>1. Init => I
  BY TypeInit DEF Init, FilledInv
<1>2. I /\ [Next]_vars => I'
  BY TypeStep, FilledStep
<1>3. I => NoNullReference
  BY DEF FilledInv, NoNullReference
<1> QED
  BY <1>1, <1>2, <1>3, PTL DEF Spec

------------------------------------------------------------------------------
(***************************************************************************)
(* The ring.                                                               *)
(***************************************************************************)

\* Moving the origin of the window to slot x lowers every later rank by x's.
LEMMA RankShift ==
  ASSUME NEW a \in -1 .. DataStoreSize - 1, NEW x \in Slots, NEW y \in -1 .. DataStoreSize - 1,
         1 <= RankFrom(a, x), RankFrom(a, x) <= RankFrom(a, y)
  PROVE  RankFrom(x, y) = RankFrom(a, y) - RankFrom(a, x)
BY SizeAssumption DEF RankFrom, Slots

\* Slots of different rank are different; the origin has rank zero.
LEMMA RankType ==
  ASSUME NEW a \in -1 .. DataStoreSize - 1, NEW x \in -1 .. DataStoreSize - 1
  PROVE  RankFrom(a, x) \in Nat /\ RankFrom(a, a) = 0
BY SizeAssumption DEF RankFrom

\* The position in a sequence of what RemoveAt(s, i) holds at position j.
Kept(i, j) == IF j < i THEN j ELSE j + 1

LEMMA RemoveAtKept ==
  ASSUME NEW S, NEW s \in Seq(S), NEW i \in 1 .. Len(s)
  PROVE  /\ Len(RemoveAt(s, i)) = Len(s) - 1
         /\ \A j \in 1 .. Len(RemoveAt(s, i)) :
              Kept(i, j) \in 1 .. Len(s) /\ RemoveAt(s, i)[j] = s[Kept(i, j)]
         /\ \A j, k \in 1 .. Len(RemoveAt(s, i)) : j < k => Kept(i, j) < Kept(i, k)
<1>1. /\ Len(RemoveAt(s, i)) = Len(s) - 1
      /\ \A j \in 1 .. Len(s) - 1 : RemoveAt(s, i)[j] = s[IF j < i THEN j ELSE j + 1]
  BY RemoveAtProps
<1>2. \A j \in 1 .. Len(s) - 1 : Kept(i, j) \in 1 .. Len(s)
  BY DEF Kept
<1>3. \A j, k \in 1 .. Len(s) - 1 : j < k => Kept(i, j) < Kept(i, k)
  BY DEF Kept
<1>4. \A j \in 1 .. Len(s) - 1 : RemoveAt(s, i)[j] = s[Kept(i, j)]
  BY <1>1 DEF Kept
<1> QED
  BY <1>1, <1>2, <1>3, <1>4

\* The slot after the last one filled is one further round the ring, unless
\* the ring is full or wraps before the first acknowledgement.
LEMMA NextSlotRank ==
  ASSUME TypeOK, ~WindowFull, FilledSoFar,
         m_LastAckedState = -1 => sendStore[NextSlot] = Null
  PROVE  /\ Rank(NextSlot) = Rank(m_NextStateSlot) + 1
         /\ m_LastAckedState = -1 => NextSlot = m_NextStateSlot + 1
<1>1. NextSlot \in Slots /\ NextSlot = IF m_NextStateSlot = DataStoreSize - 1 THEN 0 ELSE m_NextStateSlot + 1
  BY NextSlotType
<1>2. /\ m_LastAckedState \in -1 .. DataStoreSize - 1
      /\ m_NextStateSlot \in -1 .. DataStoreSize - 1
  BY DEF TypeOK
<1>3. CASE m_LastAckedState = -1
  <2>1. m_NextStateSlot # DataStoreSize - 1
    <3>1. SUFFICES ASSUME m_NextStateSlot = DataStoreSize - 1
                   PROVE  FALSE
      OBVIOUS
    <3>2. 0 \in Slots /\ 0 <= m_NextStateSlot /\ NextSlot = 0
      BY <3>1, <1>1, SizeAssumption DEF Slots
    <3> QED
      BY <3>2, <1>3 DEF FilledSoFar
  <2> QED
    BY <2>1, <1>1, <1>2, <1>3, SizeAssumption DEF Rank, RankFrom, Slots
<1>4. CASE m_LastAckedState # -1
  <2>1. NextSlot # m_LastAckedState
    BY DEF WindowFull
  <2> QED
    BY <2>1, <1>1, <1>2, <1>4, SizeAssumption DEF Rank, RankFrom, Slots
<1> QED
  BY <1>3, <1>4

\* A delta decoded on the contents it was computed from gives what was sent.
LEMMA InstExact ==
  ASSUME WireCompatible, NEW m \in Message, ~m.garbled,
         IF m.ref = NoRef THEN m.from = Null ELSE recvStore[m.ref] = m.from
  PROVE  Inst(m, m.ref) = m.to
<1>1. Aligned(m)
  BY WireFacts
<1> QED
  BY <1>1 DEF Inst

------------------------------------------------------------------------------
(***************************************************************************)
(* WindowInv.                                                              *)
(***************************************************************************)

\* SyncState fills the slot after the window and names its origin.
LEMMA WindowSync ==
  ASSUME TypeOK, WireCompatible, FilledInv, WindowInv, abandoned = 0,
         NEW s \in State, SyncStateSent(s), ~overrun'
  PROVE  WindowInv'
<1> DEFINE m == SyncMessage(s)
           a == m_LastAckedState
<1>1. /\ m_NextStateSlot' = NextSlot
      /\ sendStore' = [sendStore EXCEPT ![NextSlot] = s]
      /\ msgs' = Append(msgs, m)
      /\ UNCHANGED <<m_LastAckedState, recvStore, acks>>
      /\ ~WindowFull
  BY DEF SyncStateSent
<1>2. NextSlot \in Slots
  BY NextSlotType
<1>3. a = -1 => sendStore[NextSlot] = Null
  BY Zenon DEF SyncStateSent
<1>4. /\ Rank(NextSlot) = Rank(m_NextStateSlot) + 1
      /\ a = -1 => NextSlot = m_NextStateSlot + 1
  BY <1>1, <1>3, NextSlotRank DEF WindowInv
<1>5. /\ m \in Message
      /\ m.slot = NextSlot
      /\ m.to = s
      /\ m.from = Reference
      /\ m.ref = IF a # -1 THEN a ELSE NoRef
  BY CleanSync, SyncMessageType
<1> DEFINE n == m_NextStateSlot
           R(x) == RankFrom(a, x)
<1>6. \A x \in -1 .. DataStoreSize - 1 : R(x) \in Nat
  BY RankType DEF TypeOK
<1>7. R(n) \in Nat /\ R(NextSlot) = R(n) + 1
  BY <1>4, <1>6 DEF TypeOK, Rank
<1>8. \A x \in Slots : R(x) \in Nat
  BY <1>6, SizeAssumption DEF Slots
<1>9. m_LastAckedState' = a /\ m_NextStateSlot' = NextSlot
  BY <1>1
<1>10. \A x \in Slots : Within(a, n, x) => Within(a, NextSlot, x) /\ x # NextSlot /\ R(x) < R(NextSlot)
  BY <1>7, <1>8 DEF Within
<1>11. Within(a, NextSlot, NextSlot)
  BY <1>7 DEF Within
<1>12. Len(msgs') = Len(msgs) + 1 /\ msgs'[Len(msgs) + 1] = m /\ Len(msgs) \in Nat
  BY <1>1, <1>5 DEF TypeOK
<1>13. \A i \in 1 .. Len(msgs) : msgs'[i] = msgs[i]
  BY <1>1, <1>5 DEF TypeOK
<1>14. \A i \in 1 .. Len(msgs') : i \in 1 .. Len(msgs) \/ i = Len(msgs) + 1
  BY <1>12
<1>15. \A t \in Slots : t # NextSlot => sendStore'[t] = sendStore[t]
  BY <1>1, <1>2 DEF TypeOK
<1>16. sendStore'[NextSlot] = s
  BY <1>1, <1>2 DEF TypeOK
<1> HIDE DEF m
<1>17. AcksInRingOrder'
  BY <1>1, <1>9, <1>10, PacketTypes DEF WindowInv, AcksInRingOrder, InWindow, Rank
<1>18. MsgsInRingOrder'
  <2>1. \A i \in 1 .. Len(msgs') : Within(a, NextSlot, msgs'[i].slot)
    BY <1>5, <1>10, <1>11, <1>12, <1>13, <1>14, PacketTypes
    DEF WindowInv, MsgsInRingOrder, InWindow
  <2>2. ASSUME NEW i \in 1 .. Len(msgs'), NEW j \in 1 .. Len(msgs'), i < j
        PROVE  R(msgs'[i].slot) < R(msgs'[j].slot)
    <3>1. i \in 1 .. Len(msgs)
      BY <2>2, <1>12
    <3>2. CASE j \in 1 .. Len(msgs)
      BY <3>1, <3>2, <2>2, <1>13 DEF WindowInv, MsgsInRingOrder, Rank
    <3>3. CASE j = Len(msgs) + 1
      BY <3>1, <3>3, <1>5, <1>10, <1>12, <1>13, PacketTypes
      DEF WindowInv, MsgsInRingOrder, InWindow
    <3> QED
      BY <1>14, <3>2, <3>3
  <2> QED
    BY <2>1, <2>2, <1>9 DEF MsgsInRingOrder, InWindow, Rank
<1>19. AcksBeforeMsgs'
  <2>1. ASSUME NEW k \in 1 .. Len(acks), NEW i \in 1 .. Len(msgs')
        PROVE  R(acks[k]) < R(msgs'[i].slot)
    <3>1. CASE i \in 1 .. Len(msgs)
      BY <3>1, <1>13 DEF WindowInv, AcksBeforeMsgs, Rank
    <3>2. CASE i = Len(msgs) + 1
      BY <3>2, <1>5, <1>10, <1>12, PacketTypes DEF WindowInv, AcksInRingOrder, InWindow
    <3> QED
      BY <1>14, <3>1, <3>2
  <2> QED
    BY <2>1, <1>1, <1>9 DEF AcksBeforeMsgs, Rank
<1>20. a # -1 => a # NextSlot
  BY <1>1 DEF WindowFull
<1>21. AckedAgreed'
  BY <1>1, <1>10, <1>15, <1>20, PacketTypes
  DEF WindowInv, AcksInRingOrder, InWindow, AckedAgreed, Agreed
<1>22. MsgsCurrent'
  <2>1. ASSUME NEW i \in 1 .. Len(msgs')
        PROVE  sendStore'[msgs'[i].slot] = msgs'[i].to
    <3>1. CASE i \in 1 .. Len(msgs)
      BY <3>1, <1>10, <1>13, <1>15, PacketTypes
      DEF WindowInv, MsgsInRingOrder, InWindow, MsgsCurrent
    <3>2. CASE i = Len(msgs) + 1
      BY <3>2, <1>5, <1>12, <1>16
    <3> QED
      BY <1>14, <3>1, <3>2
  <2> QED
    BY <2>1 DEF MsgsCurrent
<1>23. ReferencesInPlace'
  <2>1. ASSUME NEW i \in 1 .. Len(msgs'), msgs'[i].ref # NoRef
        PROVE  /\ recvStore[msgs'[i].ref] = msgs'[i].from
               /\ \A j \in 1 .. i - 1 : msgs'[j].slot # msgs'[i].ref
    <3>1. CASE i \in 1 .. Len(msgs)
      <4>1. \A j \in 1 .. i - 1 : msgs'[j] = msgs[j]
        BY <3>1, <1>12, <1>13
      <4> QED
        BY <4>1, <3>1, <2>1, <1>13 DEF WindowInv, ReferencesInPlace
    <3>2. CASE i = Len(msgs) + 1
      <4>1. a # -1 /\ msgs'[i].ref = a /\ msgs'[i].from = sendStore[a]
        BY <3>2, <2>1, <1>5, <1>12 DEF Reference
      <4>2. recvStore[a] = sendStore[a]
        BY <4>1 DEF WindowInv, AckedAgreed, Agreed
      <4>3. R(a) = 0
        BY RankType DEF TypeOK
      <4>4. ASSUME NEW j \in 1 .. i - 1
            PROVE  msgs'[j].slot # a
        <5>1. j \in 1 .. Len(msgs)
          BY <3>2, <1>12
        <5>2. 1 <= R(msgs[j].slot)
          BY <5>1 DEF WindowInv, MsgsInRingOrder, InWindow, Within
        <5> QED
          BY <5>1, <5>2, <4>3, <1>13
      <4> QED
        BY <4>1, <4>2, <4>4
    <3> QED
      BY <1>14, <3>1, <3>2
  <2> QED
    BY <2>1, <1>1 DEF ReferencesInPlace, NoRef
<1>24. FilledSoFar'
  <2>1. ASSUME a = -1, NEW t \in Slots, t <= NextSlot
        PROVE  sendStore'[t] # Null
    <3>1. CASE t = NextSlot
      BY <3>1, <1>16, StateAssumption
    <3>2. CASE t # NextSlot
      <4>1. t <= m_NextStateSlot
        BY <3>2, <2>1, <1>4 DEF TypeOK, Slots
      <4> QED
        BY <4>1, <3>2, <2>1, <1>15 DEF WindowInv, FilledSoFar
    <3> QED
      BY <3>1, <3>2
  <2> QED
    BY <2>1, <1>1 DEF FilledSoFar, Slots
<1> QED
  BY <1>17, <1>18, <1>19, <1>21, <1>22, <1>23, <1>24 DEF WindowInv

\* GotAck moves the origin of the window to the first acknowledgement.
LEMMA WindowAck ==
  ASSUME TypeOK, TypeOK', WindowInv, GotAck
  PROVE  WindowInv'
<1> DEFINE a == m_LastAckedState
           x == acks[1]
<1>1. /\ acks # << >> /\ acks \in Seq(Slots) /\ Len(acks) \in Nat
      /\ m_LastAckedState' = Head(acks) /\ acks' = Tail(acks)
      /\ UNCHANGED <<m_NextStateSlot, sendStore, recvStore, msgs>>
  BY DEF GotAck, TypeOK
<1>2. x \in Slots /\ m_LastAckedState' = x /\ 1 \in 1 .. Len(acks)
  BY <1>1
<1>3. /\ Len(acks') = Len(acks) - 1
      /\ \A k \in 1 .. Len(acks') : k + 1 \in 1 .. Len(acks) /\ acks'[k] = acks[k + 1]
  BY <1>1
<1>4. /\ a \in -1 .. DataStoreSize - 1
      /\ m_NextStateSlot \in -1 .. DataStoreSize - 1
      /\ Slots \subseteq -1 .. DataStoreSize - 1
  BY SizeAssumption DEF TypeOK, Slots
<1> DEFINE n == m_NextStateSlot
           R(y) == RankFrom(a, y)
           Q(y) == RankFrom(x, y)
<1>5. 1 <= R(x) /\ R(x) <= R(n)
  BY <1>2 DEF WindowInv, AcksInRingOrder, InWindow, Within
<1>6. \A y \in -1 .. DataStoreSize - 1 : R(x) <= R(y) => Q(y) = R(y) - R(x)
  BY <1>2, <1>4, <1>5, RankShift
<1>7. \A y \in -1 .. DataStoreSize - 1 : R(y) \in Nat
  BY <1>4, RankType
<1>8. \A k \in 1 .. Len(acks') : acks'[k] \in Slots /\ R(x) < R(acks'[k]) /\ Within(a, n, acks'[k])
  <2>1. \A k \in 1 .. Len(acks') : 1 < k + 1
    BY <1>1, <1>3
  <2> QED
    BY <2>1, <1>2, <1>3, PacketTypes DEF WindowInv, AcksInRingOrder, InWindow, Rank
<1>9. \A i \in 1 .. Len(msgs) : msgs[i].slot \in Slots /\ R(x) < R(msgs[i].slot) /\ Within(a, n, msgs[i].slot)
  BY <1>2, PacketTypes DEF WindowInv, AcksBeforeMsgs, MsgsInRingOrder, InWindow, Rank
<1>10. R(x) \in Nat /\ R(n) \in Nat /\ Q(n) = R(n) - R(x)
  BY <1>2, <1>4, <1>5, <1>6, <1>7
<1>11. \A y \in Slots : R(y) \in Nat
  BY <1>4, <1>7
<1>12. \A y \in Slots : R(x) < R(y) => Q(y) = R(y) - R(x)
  BY <1>4, <1>6, <1>10, <1>11
<1>13. \A y \in Slots : R(x) < R(y) /\ Within(a, n, y) => Within(x, n, y)
  BY <1>10, <1>11, <1>12 DEF Within
<1>14. \A y, z \in Slots : R(x) < R(y) /\ R(y) < R(z) => Q(y) < Q(z)
  BY <1>10, <1>11, <1>12
<1>15. AcksInRingOrder'
  <2>1. \A k \in 1 .. Len(acks') : Within(x, n, acks'[k])
    BY <1>8, <1>13
  <2>2. ASSUME NEW k \in 1 .. Len(acks'), NEW l \in 1 .. Len(acks'), k < l
        PROVE  Q(acks'[k]) < Q(acks'[l])
    <3>1. R(acks'[k]) < R(acks'[l])
      BY <2>2, <1>3 DEF WindowInv, AcksInRingOrder, Rank
    <3> QED
      BY <3>1, <1>8, <1>14
  <2> QED
    BY <2>1, <2>2, <1>1, <1>2 DEF AcksInRingOrder, InWindow, Rank
<1>16. MsgsInRingOrder'
  <2>1. \A i \in 1 .. Len(msgs) : Within(x, n, msgs[i].slot)
    BY <1>9, <1>13
  <2>2. ASSUME NEW i \in 1 .. Len(msgs), NEW j \in 1 .. Len(msgs), i < j
        PROVE  Q(msgs[i].slot) < Q(msgs[j].slot)
    <3>1. R(msgs[i].slot) < R(msgs[j].slot)
      BY <2>2 DEF WindowInv, MsgsInRingOrder, Rank
    <3> QED
      BY <3>1, <1>9, <1>14
  <2> QED
    BY <2>1, <2>2, <1>1, <1>2 DEF MsgsInRingOrder, InWindow, Rank
<1>17. AcksBeforeMsgs'
  <2>1. ASSUME NEW k \in 1 .. Len(acks'), NEW i \in 1 .. Len(msgs)
        PROVE  Q(acks'[k]) < Q(msgs[i].slot)
    <3>1. R(acks'[k]) < R(msgs[i].slot)
      BY <1>3 DEF WindowInv, AcksBeforeMsgs, Rank
    <3> QED
      BY <3>1, <1>8, <1>9, <1>14
  <2> QED
    BY <2>1, <1>1, <1>2 DEF AcksBeforeMsgs, Rank
<1>18. AckedAgreed'
  BY <1>1, <1>2, <1>3 DEF WindowInv, AckedAgreed, Agreed
<1>19. MsgsCurrent' /\ ReferencesInPlace'
  BY <1>1 DEF WindowInv, MsgsCurrent, ReferencesInPlace, NoRef
<1>20. FilledSoFar'
  BY <1>2, SizeAssumption DEF FilledSoFar, Slots
<1> QED
  BY <1>15, <1>16, <1>17, <1>18, <1>19, <1>20 DEF WindowInv

\* The oldest message fills the slot before all others on the way, and its
\* acknowledgement queues up behind all others on the way.
LEMMA WindowDeliver ==
  ASSUME TypeOK, WireCompatible, FilledInv, WindowInv, msgs # << >>, GotMessage(1)
  PROVE  WindowInv' /\ callback'.inst = callback'.sent
<1> DEFINE m == msgs[1]
           a == m_LastAckedState
           n == m_NextStateSlot
           R(x) == RankFrom(a, x)
<1>1. msgs \in Seq(Message) /\ Len(msgs) \in Nat /\ 1 \in 1 .. Len(msgs)
  BY DEF TypeOK
<1>2. /\ m \in Message
      /\ m.slot \in Slots
      /\ m.to \in State
      /\ m.ref # NoRef => m.ref \in Slots
  BY <1>1, PacketTypes
<1>3. /\ ~m.garbled
      /\ IF m.ref = NoRef THEN m.from = Null ELSE m.from # Null /\ recvStore[m.ref] # Null
  BY <1>1 DEF FilledInv
<1>4. m.ref # NoRef => recvStore[m.ref] = m.from
  BY <1>1 DEF WindowInv, ReferencesInPlace
<1>5. Inst(m, m.ref) = m.to
  BY <1>2, <1>3, <1>4, InstExact
<1>6. m.ref = NoRef \/ Readable(m.ref)
  BY <1>2, <1>3 DEF Readable
<1>7. Accept(m, m.slot, m.to)
  BY <1>1, <1>3, <1>5, <1>6, CleanDelivery
<1>8. /\ recvStore' = [recvStore EXCEPT ![m.slot] = m.to]
      /\ callback' = [inst |-> m.to, sent |-> m.to]
      /\ acks' = Append(acks, m.slot)
  BY <1>2, <1>7, CleanAccept
<1>9. UNCHANGED <<m_LastAckedState, m_NextStateSlot, sendStore>> /\ msgs' = RemoveAt(msgs, 1)
  BY DEF GotMessage, sendVars
<1>10. /\ Len(msgs') = Len(msgs) - 1
       /\ \A j \in 1 .. Len(msgs') : j + 1 \in 1 .. Len(msgs) /\ msgs'[j] = msgs[j + 1]
  <2>1. /\ Len(RemoveAt(msgs, 1)) = Len(msgs) - 1
        /\ \A j \in 1 .. Len(msgs) - 1 : RemoveAt(msgs, 1)[j] = msgs[IF j < 1 THEN j ELSE j + 1]
    BY <1>1, RemoveAtProps
  <2>2. \A j \in 1 .. Len(msgs) - 1 : (IF j < 1 THEN j ELSE j + 1) = j + 1 /\ j + 1 \in 1 .. Len(msgs)
    BY <1>1
  <2> QED
    BY <2>1, <2>2, <1>9
<1>11. acks \in Seq(Slots) /\ Len(acks) \in Nat
  BY DEF TypeOK
<1> HIDE DEF m
<1>12. /\ Len(acks') = Len(acks) + 1
       /\ acks'[Len(acks) + 1] = m.slot
       /\ \A k \in 1 .. Len(acks) : acks'[k] = acks[k]
  BY <1>2, <1>8, <1>11
<1>13. \A k \in 1 .. Len(acks') : k \in 1 .. Len(acks) \/ k = Len(acks) + 1
  BY <1>11, <1>12
<1>14. \A t \in Slots : recvStore'[t] = IF t = m.slot THEN m.to ELSE recvStore[t]
  BY <1>2, <1>8 DEF TypeOK
<1>15. Within(a, n, m.slot)
  BY <1>1 DEF WindowInv, MsgsInRingOrder, InWindow, m
<1>16. \A j \in 1 .. Len(msgs') : R(m.slot) < R(msgs'[j].slot)
  <2>1. \A j \in 1 .. Len(msgs') : 1 < j + 1
    BY <1>1, <1>10
  <2> QED
    BY <2>1, <1>1, <1>10 DEF WindowInv, MsgsInRingOrder, Rank, m
<1>17. \A k \in 1 .. Len(acks) : R(acks[k]) < R(m.slot)
  BY <1>1 DEF WindowInv, AcksBeforeMsgs, Rank, m
<1>18. R(a) = 0 /\ R(m.slot) >= 1
  BY <1>15, RankType, SMTT(30) DEF Within, TypeOK
<1>19. R(m.slot) \in Nat
  <2>1. a \in -1 .. DataStoreSize - 1
    BY DEF TypeOK
  <2>2. m.slot \in -1 .. DataStoreSize - 1
    BY <1>2, SizeAssumption DEF Slots
  <2> QED
    BY <2>1, <2>2, RankType
<1>20. AcksInRingOrder'
  <2>1. \A k \in 1 .. Len(acks') : Within(a, n, acks'[k])
    BY <1>12, <1>13, <1>15 DEF WindowInv, AcksInRingOrder, InWindow
  <2>2. ASSUME NEW k \in 1 .. Len(acks'), NEW l \in 1 .. Len(acks'), k < l
        PROVE  R(acks'[k]) < R(acks'[l])
    <3>1. k \in 1 .. Len(acks)
      BY <2>2, <1>11, <1>12
    <3>2. CASE l \in 1 .. Len(acks)
      BY <3>1, <3>2, <2>2, <1>12 DEF WindowInv, AcksInRingOrder, Rank
    <3>3. CASE l = Len(acks) + 1
      BY <3>1, <3>3, <1>12, <1>17
    <3> QED
      BY <1>13, <3>2, <3>3
  <2> QED
    BY <2>1, <2>2, <1>9 DEF AcksInRingOrder, InWindow, Rank
<1>21. MsgsInRingOrder'
  <2>1. ASSUME NEW i \in 1 .. Len(msgs'), NEW j \in 1 .. Len(msgs'), i < j
        PROVE  R(msgs'[i].slot) < R(msgs'[j].slot)
    <3>1. i + 1 < j + 1
      BY <2>1, <1>1, <1>10
    <3> QED
      BY <3>1, <1>10 DEF WindowInv, MsgsInRingOrder, Rank
  <2>2. \A i \in 1 .. Len(msgs') : Within(a, n, msgs'[i].slot)
    BY <1>10 DEF WindowInv, MsgsInRingOrder, InWindow
  <2> QED
    BY <2>1, <2>2, <1>9 DEF MsgsInRingOrder, InWindow, Rank
<1>22. AcksBeforeMsgs'
  <2>1. ASSUME NEW k \in 1 .. Len(acks'), NEW i \in 1 .. Len(msgs')
        PROVE  R(acks'[k]) < R(msgs'[i].slot)
    <3>1. CASE k \in 1 .. Len(acks)
      BY <3>1, <1>10, <1>12 DEF WindowInv, AcksBeforeMsgs, Rank
    <3>2. CASE k = Len(acks) + 1
      BY <3>2, <1>12, <1>16
    <3> QED
      BY <1>13, <3>1, <3>2
  <2> QED
    BY <2>1, <1>9 DEF AcksBeforeMsgs, Rank
<1>23. sendStore[m.slot] = m.to
  BY <1>1 DEF WindowInv, MsgsCurrent, m
<1>24. AckedAgreed'
  <2>1. a # -1 => sendStore[a] \in State /\ recvStore'[a] = sendStore[a]
    <3>1. a # m.slot
      BY <1>18
    <3> QED
      BY <3>1, <1>14, PacketTypes DEF WindowInv, AckedAgreed, Agreed
  <2>2. ASSUME NEW k \in 1 .. Len(acks')
        PROVE  sendStore[acks'[k]] \in State /\ recvStore'[acks'[k]] = sendStore[acks'[k]]
    <3>1. CASE k \in 1 .. Len(acks)
      <4>1. acks[k] # m.slot
        BY <3>1, <1>17, <1>19
      <4> QED
        BY <4>1, <3>1, <1>12, <1>14, PacketTypes DEF WindowInv, AckedAgreed, Agreed
    <3>2. CASE k = Len(acks) + 1
      BY <3>2, <1>2, <1>12, <1>14, <1>23
    <3> QED
      BY <1>13, <3>1, <3>2
  <2> QED
    BY <2>1, <2>2, <1>9 DEF AckedAgreed, Agreed
<1>25. MsgsCurrent'
  BY <1>9, <1>10 DEF WindowInv, MsgsCurrent
<1>26. ReferencesInPlace'
  <2>1. ASSUME NEW i \in 1 .. Len(msgs'), msgs'[i].ref # NoRef
        PROVE  /\ recvStore'[msgs'[i].ref] = msgs'[i].from
               /\ \A j \in 1 .. i - 1 : msgs'[j].slot # msgs'[i].ref
    <3>1. i + 1 \in 1 .. Len(msgs) /\ msgs'[i] = msgs[i + 1]
      BY <1>10
    <3>2. /\ recvStore[msgs[i + 1].ref] = msgs[i + 1].from
          /\ \A j \in 1 .. i : msgs[j].slot # msgs[i + 1].ref
      <4>1. (i + 1) - 1 = i
        BY <3>1
      <4> QED
        BY <4>1, <3>1, <2>1 DEF WindowInv, ReferencesInPlace
    <3>3. msgs[i + 1].ref # m.slot
      BY <3>2, <1>1, <1>10 DEF m
    <3>4. ASSUME NEW j \in 1 .. i - 1
          PROVE  msgs'[j].slot # msgs'[i].ref
      <4>1. j + 1 \in 1 .. i /\ j \in 1 .. Len(msgs')
        BY <1>1, <1>10
      <4> QED
        BY <4>1, <3>1, <3>2, <1>10
    <3>5. msgs[i + 1].ref \in Slots
      BY <3>1, <2>1, PacketTypes
    <3> QED
      BY <3>1, <3>2, <3>3, <3>4, <3>5, <1>14
  <2> QED
    BY <2>1 DEF ReferencesInPlace, NoRef
<1>27. FilledSoFar'
  BY <1>9 DEF WindowInv, FilledSoFar, Slots
<1>28. callback'.inst = callback'.sent
  BY <1>8
<1> QED
  BY <1>20, <1>21, <1>22, <1>24, <1>25, <1>26, <1>27, <1>28 DEF WindowInv

\* Losing a message leaves the others in their order and their references.
LEMMA WindowLoseMessage ==
  ASSUME TypeOK, WindowInv, NEW i \in 1 .. Len(msgs), msgs' = RemoveAt(msgs, i),
         UNCHANGED <<m_LastAckedState, m_NextStateSlot, sendStore, recvStore, acks>>
  PROVE  WindowInv'
<1>1. msgs \in Seq(Message)
  BY DEF TypeOK
<1>2. /\ \A j \in 1 .. Len(msgs') : Kept(i, j) \in 1 .. Len(msgs) /\ msgs'[j] = msgs[Kept(i, j)]
      /\ \A j, k \in 1 .. Len(msgs') : j < k => Kept(i, j) < Kept(i, k)
  BY <1>1, RemoveAtKept
<1>3. Len(msgs') \in Nat
  BY <1>1, RemoveAtProps
<1>4. AcksInRingOrder' /\ AckedAgreed' /\ FilledSoFar'
  BY DEF WindowInv, AcksInRingOrder, AckedAgreed, Agreed, FilledSoFar, InWindow, Rank, Slots
<1>5. MsgsInRingOrder'
  BY <1>2 DEF WindowInv, MsgsInRingOrder, InWindow, Rank
<1>6. AcksBeforeMsgs' /\ MsgsCurrent'
  BY <1>2 DEF WindowInv, AcksBeforeMsgs, MsgsCurrent, Rank
<1>7. ReferencesInPlace'
  <2>1. ASSUME NEW j \in 1 .. Len(msgs'), msgs'[j].ref # NoRef
        PROVE  /\ recvStore[msgs'[j].ref] = msgs'[j].from
               /\ \A k \in 1 .. j - 1 : msgs'[k].slot # msgs'[j].ref
    <3>1. /\ recvStore[msgs'[j].ref] = msgs'[j].from
          /\ \A l \in 1 .. Kept(i, j) - 1 : msgs[l].slot # msgs'[j].ref
      BY <2>1, <1>2 DEF WindowInv, ReferencesInPlace
    <3>2. ASSUME NEW k \in 1 .. j - 1
          PROVE  msgs'[k].slot # msgs'[j].ref
      <4>1. k \in 1 .. Len(msgs') /\ k < j
        BY <1>3
      <4>2. Kept(i, k) \in 1 .. Kept(i, j) - 1
        BY <4>1, <1>2
      <4> QED
        BY <4>1, <4>2, <3>1, <1>2
    <3> QED
      BY <3>1, <3>2
  <2> QED
    BY <2>1 DEF ReferencesInPlace, NoRef
<1> QED
  BY <1>4, <1>5, <1>6, <1>7 DEF WindowInv

\* Losing an acknowledgement leaves the others in their order.
LEMMA WindowLoseAck ==
  ASSUME TypeOK, WindowInv, NEW i \in 1 .. Len(acks), acks' = RemoveAt(acks, i),
         UNCHANGED <<m_LastAckedState, m_NextStateSlot, sendStore, recvStore, msgs>>
  PROVE  WindowInv'
<1>1. acks \in Seq(Slots)
  BY DEF TypeOK
<1>2. /\ \A j \in 1 .. Len(acks') : Kept(i, j) \in 1 .. Len(acks) /\ acks'[j] = acks[Kept(i, j)]
      /\ \A j, k \in 1 .. Len(acks') : j < k => Kept(i, j) < Kept(i, k)
  BY <1>1, RemoveAtKept
<1>3. AcksInRingOrder' /\ AckedAgreed' /\ AcksBeforeMsgs'
  <2>1. AcksInRingOrder'
    BY <1>2 DEF WindowInv, AcksInRingOrder, InWindow, Rank
  <2>2. AckedAgreed'
    BY <1>2 DEF WindowInv, AckedAgreed, Agreed
  <2>3. AcksBeforeMsgs'
    BY <1>2 DEF WindowInv, AcksBeforeMsgs, Rank
  <2> QED
    BY <2>1, <2>2, <2>3
<1>4. MsgsInRingOrder' /\ MsgsCurrent' /\ ReferencesInPlace' /\ FilledSoFar'
  BY DEF WindowInv, MsgsInRingOrder, MsgsCurrent, ReferencesInPlace, FilledSoFar,
         InWindow, Rank, Slots, NoRef
<1> QED
  BY <1>3, <1>4 DEF WindowInv

------------------------------------------------------------------------------
(***************************************************************************)
(* LosslessInv.                                                            *)
(***************************************************************************)
LEMMA LosslessSync ==
  ASSUME TypeOK, WireCompatible, LosslessInv, NEW s \in State, SyncStateSent(s)
  PROVE  LosslessInv'
<1> DEFINE m == SyncMessage(s)
           a == m_LastAckedState
<1>1. /\ sendStore' = [sendStore EXCEPT ![NextSlot] = s]
      /\ msgs' = Append(msgs, m)
      /\ UNCHANGED recvStore
  BY DEF SyncStateSent
<1>2. NextSlot \in Slots
  BY NextSlotType
<1>3. /\ m \in Message
      /\ m.slot = NextSlot
      /\ m.to = s
      /\ m.from = Reference
      /\ m.ref = IF a # -1 THEN a ELSE NoRef
  BY CleanSync, SyncMessageType
<1> HIDE DEF m
<1>4. Len(msgs) \in Nat /\ Len(msgs') = Len(msgs) + 1 /\ msgs'[Len(msgs) + 1] = m
  BY <1>1, <1>3 DEF TypeOK
<1>5. \A i \in 1 .. Len(msgs) : msgs'[i] = msgs[i]
  BY <1>1, <1>3 DEF TypeOK
<1>6. \A i \in 1 .. Len(msgs') : i \in 1 .. Len(msgs) \/ i = Len(msgs) + 1
  BY <1>4
<1>7. \A t \in Slots : sendStore'[t] = IF t = NextSlot THEN s ELSE sendStore[t]
  BY <1>1, <1>2 DEF TypeOK
\* Nothing after position j for slot t now: nothing before, and not the new one.
<1>8. ASSUME NEW t, NEW j \in 0 .. Len(msgs),
             \A k \in j + 1 .. (Len(msgs') + 1) - 1 : msgs'[k].slot # t
      PROVE  t # NextSlot /\ LastFill(t, j, Len(msgs) + 1)
  <2>1. Len(msgs) + 1 \in j + 1 .. (Len(msgs') + 1) - 1
    BY <1>4
  <2>2. \A k \in j + 1 .. (Len(msgs) + 1) - 1 :
          k \in j + 1 .. (Len(msgs') + 1) - 1 /\ msgs'[k] = msgs[k]
    BY <1>4, <1>5
  <2> QED
    BY <2>1, <2>2, <1>3, <1>4, <1>8 DEF LastFill
<1>9. SettledAgreed'
  <2>1. ASSUME NEW t \in Slots, \A k \in 0 + 1 .. (Len(msgs') + 1) - 1 : msgs'[k].slot # t
        PROVE  recvStore'[t] = sendStore'[t]
    <3>1. 0 \in 0 .. Len(msgs)
      BY <1>4
    <3>2. t # NextSlot /\ LastFill(t, 0, Len(msgs) + 1)
      BY <2>1, <3>1, <1>8
    <3> QED
      BY <3>2, <1>1, <1>7 DEF LosslessInv, SettledAgreed
  <2> QED
    BY <2>1 DEF SettledAgreed, LastFill, Slots
<1>10. LastMessageCurrent'
  <2>1. ASSUME NEW i \in 1 .. Len(msgs'),
               \A k \in i + 1 .. (Len(msgs') + 1) - 1 : msgs'[k].slot # msgs'[i].slot
        PROVE  sendStore'[msgs'[i].slot] = msgs'[i].to
    <3>1. CASE i \in 1 .. Len(msgs)
      <4>1. i \in 0 .. Len(msgs) /\ msgs'[i] = msgs[i]
        BY <3>1, <1>4, <1>5
      <4>2. msgs[i].slot # NextSlot /\ LastFill(msgs[i].slot, i, Len(msgs) + 1)
        BY <4>1, <2>1, <1>8
      <4> QED
        BY <4>1, <4>2, <3>1, <1>7, PacketTypes DEF LosslessInv, LastMessageCurrent
    <3>2. CASE i = Len(msgs) + 1
      BY <3>2, <1>2, <1>3, <1>4, <1>7
    <3> QED
      BY <1>6, <3>1, <3>2
  <2> QED
    BY <2>1 DEF LastMessageCurrent, LastFill
<1>11. ReferencesComing'
  <2>1. ASSUME NEW i \in 1 .. Len(msgs'), msgs'[i].ref # NoRef
        PROVE  /\ (\A k \in 0 + 1 .. i - 1 : msgs'[k].slot # msgs'[i].ref)
                    => recvStore'[msgs'[i].ref] = msgs'[i].from
               /\ \A j \in 1 .. i - 1 :
                    msgs'[j].slot = msgs'[i].ref /\ (\A k \in j + 1 .. i - 1 : msgs'[k].slot # msgs'[i].ref)
                      => msgs'[j].to = msgs'[i].from
    <3>1. \A k \in 1 .. i - 1 : k \in 1 .. Len(msgs) /\ msgs'[k] = msgs[k]
      BY <1>4, <1>5
    <3>2. CASE i \in 1 .. Len(msgs)
      <4>1. msgs'[i] = msgs[i]
        BY <3>2, <1>5
      <4>2. \A j \in 0 .. i - 1 : \A k \in j + 1 .. i - 1 : k \in 1 .. i - 1
        BY <3>2
      <4>3. 0 \in 0 .. i - 1 /\ \A j \in 1 .. i - 1 : j \in 0 .. i - 1
        BY <3>2
      <4>4. \A j \in 0 .. i - 1 :
              (\A k \in j + 1 .. i - 1 : msgs'[k].slot # msgs[i].ref) => LastFill(msgs[i].ref, j, i)
        BY <4>2, <3>1 DEF LastFill
      <4> QED
        BY <4>1, <4>3, <4>4, <3>1, <3>2, <2>1, <1>1 DEF LosslessInv, ReferencesComing
    <3>3. CASE i = Len(msgs) + 1
      <4>1. a # -1 /\ msgs'[i].ref = a /\ msgs'[i].from = sendStore[a] /\ a \in Slots
        BY <3>3, <2>1, <1>3, <1>4, PacketTypes DEF Reference
      <4>2. i - 1 = (Len(msgs) + 1) - 1
        BY <3>3, <1>4
      <4>3. (\A k \in 0 + 1 .. i - 1 : msgs'[k].slot # a) => LastFill(a, 0, Len(msgs) + 1)
        BY <4>2, <3>1 DEF LastFill
      <4>4. ASSUME NEW j \in 1 .. i - 1, msgs'[j].slot = a,
                   \A k \in j + 1 .. i - 1 : msgs'[k].slot # a
            PROVE  msgs'[j].to = sendStore[a]
        <5>1. \A k \in j + 1 .. i - 1 : k \in 1 .. i - 1
          OBVIOUS
        <5>2. LastFill(a, j, Len(msgs) + 1)
          BY <5>1, <4>2, <4>4, <3>1 DEF LastFill
        <5> QED
          BY <5>2, <4>4, <3>1 DEF LosslessInv, LastMessageCurrent
      <4> QED
        BY <4>1, <4>3, <4>4, <1>1 DEF LosslessInv, SettledAgreed
    <3> QED
      BY <1>6, <3>2, <3>3
  <2> QED
    BY <2>1 DEF ReferencesComing, LastFill, NoRef
<1> QED
  BY <1>9, <1>10, <1>11 DEF LosslessInv

LEMMA LosslessDeliver ==
  ASSUME TypeOK, WireCompatible, FilledInv, LosslessInv, msgs # << >>, GotMessage(1)
  PROVE  LosslessInv' /\ callback'.inst = callback'.sent
<1> DEFINE m == msgs[1]
<1>1. msgs \in Seq(Message) /\ Len(msgs) \in Nat /\ 1 \in 1 .. Len(msgs)
  BY DEF TypeOK
<1>2. /\ m \in Message
      /\ m.slot \in Slots
      /\ m.to \in State
      /\ m.ref # NoRef => m.ref \in Slots
  BY <1>1, PacketTypes
<1>3. /\ ~m.garbled
      /\ IF m.ref = NoRef THEN m.from = Null ELSE m.from # Null /\ recvStore[m.ref] # Null
  BY <1>1 DEF FilledInv
<1>4. m.ref # NoRef => recvStore[m.ref] = m.from
  <2>1. LastFill(m.ref, 0, 1)
    BY DEF LastFill
  <2> QED
    BY <2>1, <1>1 DEF LosslessInv, ReferencesComing
<1>5. Inst(m, m.ref) = m.to
  BY <1>2, <1>3, <1>4, InstExact
<1>6. m.ref = NoRef \/ Readable(m.ref)
  BY <1>2, <1>3 DEF Readable
<1>7. Accept(m, m.slot, m.to)
  BY <1>1, <1>3, <1>5, <1>6, CleanDelivery
<1>8. /\ recvStore' = [recvStore EXCEPT ![m.slot] = m.to]
      /\ callback' = [inst |-> m.to, sent |-> m.to]
  BY <1>2, <1>7, CleanAccept
<1>9. sendStore' = sendStore /\ msgs' = RemoveAt(msgs, 1)
  BY DEF GotMessage, sendVars
<1>10. /\ Len(msgs') = Len(msgs) - 1
       /\ \A j \in 1 .. Len(msgs') : j + 1 \in 1 .. Len(msgs) /\ msgs'[j] = msgs[j + 1]
  <2>1. /\ Len(RemoveAt(msgs, 1)) = Len(msgs) - 1
        /\ \A j \in 1 .. Len(msgs) - 1 : RemoveAt(msgs, 1)[j] = msgs[IF j < 1 THEN j ELSE j + 1]
    BY <1>1, RemoveAtProps
  <2>2. \A j \in 1 .. Len(msgs) - 1 : (IF j < 1 THEN j ELSE j + 1) = j + 1 /\ j + 1 \in 1 .. Len(msgs)
    BY <1>1
  <2> QED
    BY <2>1, <2>2, <1>9
<1>11. \A t \in Slots : recvStore'[t] = IF t = m.slot THEN m.to ELSE recvStore[t]
  BY <1>2, <1>8 DEF TypeOK
\* Positions move down by one.
<1>12. ASSUME NEW t, NEW j \in 0 .. Len(msgs'), NEW i \in 1 .. Len(msgs') + 1,
              \A k \in j + 1 .. i - 1 : msgs'[k].slot # t
       PROVE  LastFill(t, j + 1, i + 1)
  <2>1. ASSUME NEW k \in (j + 1) + 1 .. (i + 1) - 1
        PROVE  msgs[k].slot # t
    <3>1. k - 1 \in j + 1 .. i - 1 /\ k - 1 \in 1 .. Len(msgs') /\ (k - 1) + 1 = k
      BY <1>1, <1>10
    <3> QED
      BY <3>1, <1>10, <1>12
  <2> QED
    BY <2>1 DEF LastFill
\* If the first message did not fill the slot, nothing at all did.
<1>13. ASSUME NEW t, NEW i \in 1 .. Len(msgs') + 1, LastFill(t, 1, i + 1), t # m.slot
       PROVE  LastFill(t, 0, i + 1)
  <2>1. \A k \in 0 + 1 .. (i + 1) - 1 : k = 1 \/ k \in 1 + 1 .. (i + 1) - 1
    BY <1>1, <1>10
  <2> QED
    BY <2>1, <1>13 DEF LastFill
<1>14. Len(msgs') \in Nat /\ 0 \in 0 .. Len(msgs') /\ Len(msgs') + 1 \in 1 .. Len(msgs') + 1
  BY <1>1, <1>10
<1>15. (Len(msgs') + 1) + 1 = Len(msgs) + 1
  BY <1>1, <1>10
<1>16. SettledAgreed'
  <2>1. ASSUME NEW t \in Slots, \A k \in 0 + 1 .. (Len(msgs') + 1) - 1 : msgs'[k].slot # t
        PROVE  recvStore'[t] = sendStore'[t]
    <3>1. LastFill(t, 1, Len(msgs) + 1)
      <4>1. LastFill(t, 0 + 1, (Len(msgs') + 1) + 1)
        BY <2>1, <1>12, <1>14
      <4> QED
        BY <4>1, <1>15
    <3>2. CASE t = m.slot
      BY <3>1, <3>2, <1>1, <1>9, <1>11 DEF LosslessInv, LastMessageCurrent
    <3>3. CASE t # m.slot
      <4>1. LastFill(t, 0, Len(msgs) + 1)
        BY <3>1, <3>3, <1>13, <1>14, <1>15
      <4> QED
        BY <4>1, <3>3, <1>9, <1>11 DEF LosslessInv, SettledAgreed
    <3> QED
      BY <3>2, <3>3
  <2> QED
    BY <2>1 DEF SettledAgreed, LastFill, Slots
<1>17. LastMessageCurrent'
  <2>1. ASSUME NEW i \in 1 .. Len(msgs'),
               \A k \in i + 1 .. (Len(msgs') + 1) - 1 : msgs'[k].slot # msgs'[i].slot
        PROVE  sendStore'[msgs'[i].slot] = msgs'[i].to
    <3>1. i \in 0 .. Len(msgs') /\ i + 1 \in 1 .. Len(msgs) /\ msgs'[i] = msgs[i + 1]
      BY <1>10, <1>14
    <3>2. LastFill(msgs[i + 1].slot, i + 1, Len(msgs) + 1)
      BY <2>1, <3>1, <1>12, <1>14, <1>15
    <3> QED
      BY <3>1, <3>2, <1>9 DEF LosslessInv, LastMessageCurrent
  <2> QED
    BY <2>1 DEF LastMessageCurrent, LastFill
<1>18. ReferencesComing'
  <2>1. ASSUME NEW i \in 1 .. Len(msgs'), msgs'[i].ref # NoRef
        PROVE  /\ (\A k \in 0 + 1 .. i - 1 : msgs'[k].slot # msgs'[i].ref)
                    => recvStore'[msgs'[i].ref] = msgs'[i].from
               /\ \A j \in 1 .. i - 1 :
                    msgs'[j].slot = msgs'[i].ref /\ (\A k \in j + 1 .. i - 1 : msgs'[k].slot # msgs'[i].ref)
                      => msgs'[j].to = msgs'[i].from
    <3> DEFINE r == msgs'[i].ref
    <3>1. /\ i + 1 \in 1 .. Len(msgs)
          /\ msgs'[i] = msgs[i + 1]
          /\ i \in 1 .. Len(msgs') + 1
      BY <1>10, <1>14
    <3>2. r \in Slots
      BY <3>1, <2>1, PacketTypes
    <3>3. /\ LastFill(r, 0, i + 1) => recvStore[r] = msgs'[i].from
          /\ \A j \in 1 .. (i + 1) - 1 :
               msgs[j].slot = r /\ LastFill(r, j, i + 1) => msgs[j].to = msgs'[i].from
      BY <3>1, <2>1 DEF LosslessInv, ReferencesComing
    <3>4. ASSUME \A k \in 0 + 1 .. i - 1 : msgs'[k].slot # r
          PROVE  recvStore'[r] = msgs'[i].from
      <4>1. LastFill(r, 1, i + 1)
        <5>1. LastFill(r, 0 + 1, i + 1)
          BY <3>4, <3>1, <1>12, <1>14
        <5> QED
          BY <5>1
      <4>2. CASE r = m.slot
        <5>1. 1 \in 1 .. (i + 1) - 1
          BY <1>14
        <5> QED
          BY <5>1, <4>1, <4>2, <3>2, <3>3, <1>11
      <4>3. CASE r # m.slot
        BY <4>1, <4>3, <3>1, <3>2, <3>3, <1>11, <1>13
      <4> QED
        BY <4>2, <4>3
    <3>5. ASSUME NEW j \in 1 .. i - 1, msgs'[j].slot = r,
                 \A k \in j + 1 .. i - 1 : msgs'[k].slot # r
          PROVE  msgs'[j].to = msgs'[i].from
      <4>1. /\ j \in 0 .. Len(msgs')
            /\ j \in 1 .. Len(msgs')
            /\ j + 1 \in 1 .. (i + 1) - 1
        BY <1>14
      <4>2. LastFill(r, j + 1, i + 1)
        BY <4>1, <3>1, <3>5, <1>12
      <4>3. msgs'[j] = msgs[j + 1]
        BY <4>1, <1>10
      <4> QED
        BY <4>1, <4>2, <4>3, <3>3, <3>5
    <3> QED
      BY <3>4, <3>5
  <2> QED
    BY <2>1 DEF ReferencesComing, LastFill, NoRef
<1>19. callback'.inst = callback'.sent
  BY <1>8
<1> QED
  BY <1>16, <1>17, <1>18, <1>19 DEF LosslessInv

------------------------------------------------------------------------------
(***************************************************************************)
(* Every slot filled since is on the way or lost.                          *)
(***************************************************************************)

\* Filling the next slot n moves every other slot at most one further behind.
LEMMA BehindNext ==
  ASSUME TypeOK, m_NextStateSlot' = NextSlot
  PROVE  /\ \A s \in Slots : Behind(s)' <= Behind(s) + 1
         /\ \A n : n = NextSlot => RankFrom(n, m_NextStateSlot') = 0
<1>1. NextSlot \in Slots /\ NextSlot = IF m_NextStateSlot = DataStoreSize - 1 THEN 0 ELSE m_NextStateSlot + 1
  BY NextSlotType
<1>2. m_NextStateSlot \in -1 .. DataStoreSize - 1
  BY DEF TypeOK
<1>3. m_NextStateSlot' = IF m_NextStateSlot = DataStoreSize - 1 THEN 0 ELSE m_NextStateSlot + 1
  BY <1>1
<1>4. ASSUME NEW s \in Slots
      PROVE  Behind(s)' <= Behind(s) + 1
  BY <1>2, <1>3, SizeAssumption DEF Behind, RankFrom, Slots
<1>5. ASSUME NEW n, n = NextSlot
      PROVE  RankFrom(n, m_NextStateSlot') = 0
  BY <1>1, <1>5, SizeAssumption DEF RankFrom, Slots
<1> QED
  BY <1>4, <1>5

LEMMA GapsSync ==
  ASSUME TypeOK, WireCompatible, GapsAccounted, NEW s \in State, SyncStateSent(s)
  PROVE  GapsAccounted'
<1> DEFINE m == SyncMessage(s)
<1>1. /\ m_NextStateSlot' = NextSlot
      /\ msgs' = Append(msgs, m)
      /\ UNCHANGED <<m_LastAckedState, acks, lost>>
  BY DEF SyncStateSent
<1>2. /\ msgs \in Seq(Message) /\ Len(msgs) \in Nat /\ Len(acks) \in Nat /\ lost \in Nat
      /\ m \in Message
  BY SyncMessageType DEF TypeOK
<1>3. m.slot = NextSlot
  BY CleanSync
<1> HIDE DEF m
<1>4. /\ Len(msgs') = Len(msgs) + 1
      /\ msgs'[Len(msgs) + 1] = m
      /\ \A i \in 1 .. Len(msgs) : msgs'[i] = msgs[i]
  BY <1>1, <1>2
<1>5. \A x \in Slots : RankFrom(x, m_NextStateSlot') <= RankFrom(x, m_NextStateSlot) + 1
  BY <1>1, BehindNext DEF Behind
<1>6. RankFrom(m.slot, m_NextStateSlot') = 0
  BY <1>1, <1>3, BehindNext
<1>7. \A x \in Slots : RankFrom(x, m_NextStateSlot) \in Int /\ RankFrom(x, m_NextStateSlot') \in Int
  <2>1. m_NextStateSlot \in Int /\ m_NextStateSlot' \in Int
    BY <1>1, NextSlotType DEF TypeOK, Slots
  <2> QED
    BY <2>1, SizeAssumption DEF RankFrom, Slots
<1>8. ASSUME NEW i \in 1 .. Len(msgs')
      PROVE  RankFrom(msgs'[i].slot, m_NextStateSlot') <= Len(msgs') - i + lost
  <2>1. CASE i = Len(msgs) + 1
    BY <1>2, <1>4, <1>6, <2>1
  <2>2. CASE i \in 1 .. Len(msgs)
    <3>1. msgs'[i] = msgs[i] /\ msgs[i].slot \in Slots
      BY <1>4, <2>2, PacketTypes
    <3>2. RankFrom(msgs[i].slot, m_NextStateSlot) <= Len(msgs) - i + lost
      BY <2>2 DEF GapsAccounted, Behind
    <3> QED
      BY <1>2, <1>4, <1>5, <1>7, <2>2, <3>1, <3>2
  <2> QED
    BY <1>2, <1>4, <2>1, <2>2
<1>9. ASSUME NEW k \in 1 .. Len(acks)
      PROVE  RankFrom(acks[k], m_NextStateSlot') <= Len(acks) - k + Len(msgs') + lost
  <2>1. acks[k] \in Slots
    BY PacketTypes
  <2>2. RankFrom(acks[k], m_NextStateSlot) <= Len(acks) - k + Len(msgs) + lost
    BY DEF GapsAccounted, Behind
  <2> QED
    BY <1>2, <1>4, <1>5, <1>7, <2>1, <2>2
<1>10. ASSUME m_LastAckedState # -1
       PROVE  RankFrom(m_LastAckedState, m_NextStateSlot') <= Len(acks) + Len(msgs') + lost
  <2>1. m_LastAckedState \in Slots
    BY <1>10, PacketTypes
  <2>2. RankFrom(m_LastAckedState, m_NextStateSlot) <= Len(acks) + Len(msgs) + lost
    BY <1>10 DEF GapsAccounted, Behind
  <2> QED
    BY <1>2, <1>4, <1>5, <1>7, <2>1, <2>2
<1> QED
  BY <1>1, <1>8, <1>9, <1>10 DEF GapsAccounted, Behind

LEMMA GapsAck ==
  ASSUME TypeOK, GapsAccounted, GotAck
  PROVE  GapsAccounted'
<1>1. /\ acks \in Seq(Slots) /\ acks # << >>
      /\ Len(acks) \in Nat /\ Len(msgs) \in Nat /\ lost \in Nat
      /\ m_LastAckedState' = Head(acks) /\ acks' = Tail(acks)
      /\ UNCHANGED <<m_NextStateSlot, msgs, lost>>
  BY DEF GotAck, TypeOK, history
<1>2. /\ 1 \in 1 .. Len(acks) /\ Head(acks) = acks[1]
      /\ Len(acks') = Len(acks) - 1
      /\ \A k \in 1 .. Len(acks) - 1 : acks'[k] = acks[k + 1] /\ k + 1 \in 1 .. Len(acks)
  BY <1>1
<1>3. \A k \in 1 .. Len(acks) : RankFrom(acks[k], m_NextStateSlot) <= Len(acks) - k + Len(msgs) + lost
  BY DEF GapsAccounted, Behind
<1>4. RankFrom(acks[1], m_NextStateSlot) <= Len(acks) - 1 + Len(msgs) + lost
  BY <1>2, <1>3
<1>5. ASSUME NEW k \in 1 .. Len(acks')
      PROVE  RankFrom(acks'[k], m_NextStateSlot) <= Len(acks') - k + Len(msgs) + lost
  <2>1. k \in 1 .. Len(acks) - 1
    BY <1>2
  <2>2. RankFrom(acks[k + 1], m_NextStateSlot) <= Len(acks) - (k + 1) + Len(msgs) + lost
    BY <1>2, <1>3, <2>1
  <2>3. Len(acks) - (k + 1) = Len(acks') - k
    BY <1>1, <1>2, <2>1
  <2> QED
    BY <1>2, <2>1, <2>2, <2>3
<1> QED
  BY <1>1, <1>2, <1>4, <1>5 DEF GapsAccounted, Behind

LEMMA GapsDeliver ==
  ASSUME TypeOK, WireCompatible, FilledInv, GapsAccounted, msgs # << >>, GotMessage(1)
  PROVE  GapsAccounted'
<1> DEFINE m == msgs[1]
<1>1. msgs \in Seq(Message) /\ Len(msgs) \in Nat /\ 1 \in 1 .. Len(msgs)
      /\ acks \in Seq(Slots) /\ Len(acks) \in Nat /\ lost \in Nat
  BY DEF TypeOK
<1>2. /\ m \in Message /\ m.slot \in Slots
      /\ ~m.garbled /\ (m.ref = NoRef \/ Readable(m.ref))
  BY <1>1, PacketTypes DEF FilledInv, Readable
<1>3. /\ acks' = Append(acks, m.slot)
      /\ lost' = lost
  BY <1>1, <1>2, CleanDelivery, CleanAccept
<1>4. msgs' = RemoveAt(msgs, 1) /\ UNCHANGED <<m_LastAckedState, m_NextStateSlot>>
  BY DEF GotMessage, sendVars
<1>5. /\ Len(msgs') = Len(msgs) - 1
      /\ \A j \in 1 .. Len(msgs') : j + 1 \in 1 .. Len(msgs) /\ msgs'[j] = msgs[j + 1]
  BY <1>1, <1>4, RemoveAtKept DEF Kept
<1>6. /\ Len(acks') = Len(acks) + 1
      /\ acks'[Len(acks) + 1] = m.slot
      /\ \A k \in 1 .. Len(acks) : acks'[k] = acks[k]
  BY <1>1, <1>2, <1>3
<1>7. \A i \in 1 .. Len(msgs) : RankFrom(msgs[i].slot, m_NextStateSlot) <= Len(msgs) - i + lost
  BY DEF GapsAccounted, Behind
<1>8. \A k \in 1 .. Len(acks) : RankFrom(acks[k], m_NextStateSlot) <= Len(acks) - k + Len(msgs) + lost
  BY DEF GapsAccounted, Behind
<1>9. m_LastAckedState # -1 => RankFrom(m_LastAckedState, m_NextStateSlot) <= Len(acks) + Len(msgs) + lost
  BY DEF GapsAccounted, Behind
<1> HIDE DEF m
<1>10. ASSUME NEW i \in 1 .. Len(msgs')
       PROVE  RankFrom(msgs'[i].slot, m_NextStateSlot) <= Len(msgs') - i + lost
  <2>1. RankFrom(msgs[i + 1].slot, m_NextStateSlot) <= Len(msgs) - (i + 1) + lost
    BY <1>5, <1>7
  <2>2. Len(msgs) - (i + 1) = Len(msgs') - i
    BY <1>1, <1>5
  <2> QED
    BY <1>5, <2>1, <2>2
<1>11. ASSUME NEW k \in 1 .. Len(acks')
       PROVE  RankFrom(acks'[k], m_NextStateSlot) <= Len(acks') - k + Len(msgs') + lost
  <2>1. CASE k = Len(acks) + 1
    <3>1. RankFrom(m.slot, m_NextStateSlot) <= Len(msgs) - 1 + lost
      BY <1>1, <1>7 DEF m
    <3>2. Len(acks') - k + Len(msgs') + lost = Len(msgs) - 1 + lost
      BY <1>1, <1>5, <1>6, <2>1
    <3> QED
      BY <1>6, <2>1, <3>1, <3>2
  <2>2. CASE k \in 1 .. Len(acks)
    <3>1. Len(acks') - k + Len(msgs') = Len(acks) - k + Len(msgs)
      BY <1>1, <1>5, <1>6, <2>2
    <3> QED
      BY <1>6, <1>8, <2>2, <3>1
  <2> QED
    BY <1>1, <1>6, <2>1, <2>2
<1>12. Len(acks') + Len(msgs') = Len(acks) + Len(msgs)
  BY <1>1, <1>5, <1>6
<1> QED
  BY <1>3, <1>4, <1>9, <1>10, <1>11, <1>12 DEF GapsAccounted, Behind

\* The packets before a lost one may count it as lost, those after it lose
\* their place to nobody.
LEMMA GapsLoseMessage ==
  ASSUME TypeOK, GapsAccounted, NEW i \in 1 .. Len(msgs), msgs' = RemoveAt(msgs, i), lost' = lost + 1,
         UNCHANGED <<m_LastAckedState, m_NextStateSlot, acks>>
  PROVE  GapsAccounted'
<1>1. /\ msgs \in Seq(Message) /\ Len(msgs) \in Nat /\ Len(acks) \in Nat /\ lost \in Nat
      /\ m_NextStateSlot \in Int
  BY DEF TypeOK
<1>2. /\ Len(msgs') = Len(msgs) - 1
      /\ \A j \in 1 .. Len(msgs') :
           Kept(i, j) \in 1 .. Len(msgs) /\ Kept(i, j) >= j /\ msgs'[j] = msgs[Kept(i, j)]
  BY <1>1, RemoveAtKept DEF Kept
<1>3. \A x \in Slots : RankFrom(x, m_NextStateSlot) \in Int
  BY <1>1, SizeAssumption DEF RankFrom, Slots
<1>4. ASSUME NEW j \in 1 .. Len(msgs')
      PROVE  RankFrom(msgs'[j].slot, m_NextStateSlot) <= Len(msgs') - j + lost'
  <2>1. PICK q : q = Kept(i, j)
    OBVIOUS
  <2>2. q \in 1 .. Len(msgs) /\ q >= j /\ msgs'[j] = msgs[q]
    BY <1>2, <2>1
  <2>3. RankFrom(msgs[q].slot, m_NextStateSlot) <= Len(msgs) - q + lost /\ msgs[q].slot \in Slots
    BY <2>2, PacketTypes DEF GapsAccounted, Behind
  <2> QED
    <3>1. PICK r, p, l : r = RankFrom(msgs[q].slot, m_NextStateSlot) /\ p = Len(msgs) /\ l = Len(msgs')
      OBVIOUS
    <3>2. r \in Int /\ p \in Nat /\ lost \in Nat /\ q \in Nat /\ l = p - 1 /\ r <= p - q + lost
      BY <1>1, <1>2, <1>3, <2>2, <2>3, <3>1
    <3>3. q >= j /\ j \in Nat /\ lost' = lost + 1
      BY <2>2
    <3>4. r <= l - j + lost'
      BY <3>2, <3>3
    <3> QED
      BY <2>2, <3>1, <3>4
<1>5. ASSUME NEW k \in 1 .. Len(acks)
      PROVE  RankFrom(acks[k], m_NextStateSlot) <= Len(acks) - k + Len(msgs') + lost'
  <2>1. Len(acks) - k + Len(msgs') + lost' = Len(acks) - k + Len(msgs) + lost
    BY <1>1, <1>2
  <2> QED
    BY <2>1 DEF GapsAccounted, Behind
<1>6. m_LastAckedState # -1 =>
        RankFrom(m_LastAckedState, m_NextStateSlot) <= Len(acks) + Len(msgs') + lost'
  <2>1. Len(acks) + Len(msgs') + lost' = Len(acks) + Len(msgs) + lost
    BY <1>1, <1>2
  <2> QED
    BY <2>1 DEF GapsAccounted, Behind
<1> QED
  BY <1>4, <1>5, <1>6 DEF GapsAccounted, Behind

LEMMA GapsLoseAck ==
  ASSUME TypeOK, GapsAccounted, NEW i \in 1 .. Len(acks), acks' = RemoveAt(acks, i), lost' = lost + 1,
         UNCHANGED <<m_LastAckedState, m_NextStateSlot, msgs>>
  PROVE  GapsAccounted'
<1>1. /\ acks \in Seq(Slots) /\ Len(msgs) \in Nat /\ Len(acks) \in Nat /\ lost \in Nat
      /\ m_NextStateSlot \in Int
  BY DEF TypeOK
<1>2. /\ Len(acks') = Len(acks) - 1
      /\ \A j \in 1 .. Len(acks') :
           Kept(i, j) \in 1 .. Len(acks) /\ Kept(i, j) >= j /\ acks'[j] = acks[Kept(i, j)]
  BY <1>1, RemoveAtKept DEF Kept
<1>3. \A x \in Slots : RankFrom(x, m_NextStateSlot) \in Int
  BY <1>1, SizeAssumption DEF RankFrom, Slots
<1>4. ASSUME NEW j \in 1 .. Len(acks')
      PROVE  RankFrom(acks'[j], m_NextStateSlot) <= Len(acks') - j + Len(msgs) + lost'
  <2>1. PICK q : q = Kept(i, j)
    OBVIOUS
  <2>2. q \in 1 .. Len(acks) /\ q >= j /\ acks'[j] = acks[q]
    BY <1>2, <2>1
  <2>3. RankFrom(acks[q], m_NextStateSlot) <= Len(acks) - q + Len(msgs) + lost /\ acks[q] \in Slots
    BY <2>2, PacketTypes DEF GapsAccounted, Behind
  <2> QED
    <3>1. PICK r, p, l, x : r = RankFrom(acks[q], m_NextStateSlot) /\ p = Len(acks) /\ l = Len(acks') /\ x = Len(msgs)
      OBVIOUS
    <3>2. r \in Int /\ p \in Nat /\ x \in Nat /\ lost \in Nat /\ q \in Nat /\ l = p - 1 /\ r <= p - q + x + lost
      BY <1>1, <1>2, <1>3, <2>2, <2>3, <3>1, SMTT(30)
    <3>3. q >= j /\ j \in Nat /\ lost' = lost + 1
      BY <2>2
    <3>4. r <= l - j + x + lost'
      BY <3>2, <3>3
    <3> QED
      BY <1>1, <2>2, <3>1, <3>4
<1>5. ASSUME NEW j \in 1 .. Len(msgs)
      PROVE  RankFrom(msgs[j].slot, m_NextStateSlot) <= Len(msgs) - j + lost'
  <2>1. RankFrom(msgs[j].slot, m_NextStateSlot) <= Len(msgs) - j + lost /\ msgs[j].slot \in Slots
    BY PacketTypes DEF GapsAccounted, Behind
  <2> QED
    BY <1>1, <1>3, <2>1
<1>6. m_LastAckedState # -1 =>
        RankFrom(m_LastAckedState, m_NextStateSlot) <= Len(acks') + Len(msgs) + lost'
  <2>1. Len(acks') + Len(msgs) + lost' = Len(acks) + Len(msgs) + lost
    BY <1>1, <1>2
  <2> QED
    BY <2>1 DEF GapsAccounted, Behind
<1> QED
  BY <1>4, <1>5, <1>6 DEF GapsAccounted, Behind

------------------------------------------------------------------------------
(***************************************************************************)
(* The theorems.                                                           *)
(***************************************************************************)
LEMMA PipeInit == Init => PipeInv
<1> SUFFICES ASSUME Init PROVE PipeInv
  OBVIOUS
<1>1. Len(msgs) = 0 /\ Len(acks) = 0
  BY DEF Init
<1>2. FilledInv
  BY <1>1 DEF Init, FilledInv
<1>3. WindowInv
  BY <1>1, SizeAssumption DEF Init, WindowInv, AcksInRingOrder, MsgsInRingOrder, AcksBeforeMsgs,
     AckedAgreed, MsgsCurrent, ReferencesInPlace, FilledSoFar, Slots
<1>4. LosslessInv
  BY <1>1 DEF Init, LosslessInv, SettledAgreed, LastMessageCurrent, ReferencesComing
<1>5. GapsAccounted
  BY <1>1 DEF Init, GapsAccounted
<1> QED
  BY <1>2, <1>3, <1>4, <1>5 DEF PipeInv, Init, DeliveredAsSent

LEMMA PipeStep ==
  ASSUME TypeOK, TypeOK', WireCompatible, Ordered, PipeInv, [Next]_vars
  PROVE  PipeInv'
<1>1. ASSUME ~tainted'
      PROVE  FilledInv'
  BY <1>1, FilledStep DEF PipeInv
<1>2. ASSUME NEW s \in State, SyncStateSent(s)
      PROVE  PipeInv'
  <2>1. /\ UNCHANGED <<callback, missed>>
        /\ ~tainted' => ~tainted /\ ~(abandoned > 0)
        /\ ~overrun' => ~overrun
    BY <1>2, Zenon DEF SyncStateSent
  <2>2. abandoned \in Nat
    BY DEF TypeOK
  <2>3. ~tainted' => abandoned = 0 /\ FilledInv
    BY <2>1, <2>2 DEF PipeInv
  <2>4. ~tainted' /\ ~overrun' => WindowInv'
    BY <1>2, <2>1, <2>3, WindowSync DEF PipeInv
  <2>5. ~tainted' /\ ~missed' => LosslessInv'
    BY <1>2, <2>1, LosslessSync DEF PipeInv
  <2>6. DeliveredAsSent'
    BY <2>1 DEF PipeInv, DeliveredAsSent, Broken
  <2>7. ~tainted' => GapsAccounted'
    BY <1>2, <2>1, GapsSync DEF PipeInv
  <2> QED
    BY <1>1, <2>4, <2>5, <2>6, <2>7 DEF PipeInv
<1>3. CASE SyncStateRefused
  <2>1. UNCHANGED <<m_LastAckedState, m_NextStateSlot, sendStore, recvStore, msgs, acks, callback,
                    lost, missed, overrun, tainted>>
    BY <1>3 DEF SyncStateRefused, history
  <2>2. WindowInv => WindowInv'
    BY <2>1 DEF WindowInv, AcksInRingOrder, MsgsInRingOrder, AcksBeforeMsgs, AckedAgreed, Agreed,
       MsgsCurrent, ReferencesInPlace, FilledSoFar, InWindow, Rank, Slots, NoRef
  <2>3. LosslessInv => LosslessInv'
    BY <2>1 DEF LosslessInv, SettledAgreed, LastMessageCurrent, ReferencesComing, LastFill, Slots, NoRef
  <2>4. GapsAccounted => GapsAccounted'
    BY <2>1 DEF GapsAccounted, Behind
  <2> QED
    BY <1>1, <2>1, <2>2, <2>3, <2>4 DEF PipeInv, DeliveredAsSent, Broken
<1>4. CASE GotAck
  <2>1. UNCHANGED <<sendStore, recvStore, msgs, callback, missed, overrun, tainted>>
    BY <1>4 DEF GotAck, history
  <2>2. WindowInv => WindowInv'
    BY <1>4, WindowAck
  <2>3. LosslessInv => LosslessInv'
    BY <2>1 DEF LosslessInv, SettledAgreed, LastMessageCurrent, ReferencesComing, LastFill, Slots, NoRef
  <2>4. GapsAccounted => GapsAccounted'
    BY <1>4, GapsAck
  <2> QED
    BY <1>1, <2>1, <2>2, <2>3, <2>4 DEF PipeInv, DeliveredAsSent, Broken
<1>5. ASSUME msgs # << >>, GotMessage(1)
      PROVE  PipeInv'
  <2>1. UNCHANGED <<missed, overrun, tainted>>
    BY <1>5 DEF GotMessage
  <2>2. ~tainted /\ ~overrun => WindowInv' /\ callback'.inst = callback'.sent
    BY <1>5, WindowDeliver DEF PipeInv
  <2>3. ~tainted /\ ~missed => LosslessInv' /\ callback'.inst = callback'.sent
    BY <1>5, LosslessDeliver DEF PipeInv
  <2>4. ~tainted => GapsAccounted'
    BY <1>5, GapsDeliver DEF PipeInv
  <2> QED
    BY <1>1, <2>1, <2>2, <2>3, <2>4 DEF PipeInv, DeliveredAsSent, Broken
<1>6. ASSUME NEW i \in 1 .. Len(msgs), GotMessageThrew(i) \/ LoseMessage(i)
      PROVE  PipeInv'
  <2>1. /\ msgs' = RemoveAt(msgs, i)
        /\ missed' = TRUE
        /\ lost' = lost + 1
        /\ UNCHANGED <<m_LastAckedState, m_NextStateSlot, sendStore, recvStore, acks, callback,
                       overrun, tainted>>
    BY <1>6 DEF GotMessageThrew, LoseMessage, sendVars
  <2>2. WindowInv => WindowInv'
    BY <2>1, WindowLoseMessage
  <2>3. GapsAccounted => GapsAccounted'
    BY <2>1, GapsLoseMessage
  <2> QED
    BY <1>1, <2>1, <2>2, <2>3 DEF PipeInv, DeliveredAsSent, Broken
<1>7. ASSUME NEW i \in 1 .. Len(acks), LoseAck(i)
      PROVE  PipeInv'
  <2>1. /\ acks' = RemoveAt(acks, i)
        /\ lost' = lost + 1
        /\ UNCHANGED <<m_LastAckedState, m_NextStateSlot, sendStore, recvStore, msgs, callback,
                       missed, overrun, tainted>>
    BY <1>7 DEF LoseAck, sendVars
  <2>2. WindowInv => WindowInv'
    BY <2>1, WindowLoseAck
  <2>3. LosslessInv => LosslessInv'
    BY <2>1 DEF LosslessInv, SettledAgreed, LastMessageCurrent, ReferencesComing, LastFill, Slots, NoRef
  <2>4. GapsAccounted => GapsAccounted'
    BY <2>1, GapsLoseAck
  <2> QED
    BY <1>1, <2>1, <2>2, <2>3, <2>4 DEF PipeInv, DeliveredAsSent, Broken
<1>8. CASE UNCHANGED vars
  <2>1. UNCHANGED <<m_LastAckedState, m_NextStateSlot, sendStore, recvStore, msgs, acks, callback,
                    lost, missed, overrun, tainted>>
    BY <1>8 DEF vars, sendVars, history
  <2>2. WindowInv => WindowInv'
    BY <2>1 DEF WindowInv, AcksInRingOrder, MsgsInRingOrder, AcksBeforeMsgs, AckedAgreed, Agreed,
       MsgsCurrent, ReferencesInPlace, FilledSoFar, InWindow, Rank, Slots, NoRef
  <2>3. LosslessInv => LosslessInv'
    BY <2>1 DEF LosslessInv, SettledAgreed, LastMessageCurrent, ReferencesComing, LastFill, Slots, NoRef
  <2>4. GapsAccounted => GapsAccounted'
    BY <2>1 DEF GapsAccounted, Behind
  <2> QED
    BY <1>1, <2>1, <2>2, <2>3, <2>4 DEF PipeInv, DeliveredAsSent, Broken
<1>9. ASSUME NEW i \in Deliverable
      PROVE  i = 1 /\ i \in 1 .. Len(msgs) /\ msgs # << >>
  BY DEF Deliverable, Ordered
<1> QED
  BY <1>2, <1>3, <1>4, <1>5, <1>6, <1>7, <1>8, <1>9 DEF Next, SyncState, Deliver, Lose

(***************************************************************************)
(* PipeInv is an invariant of every ordered pipe (kReliable and            *)
(* kUnreliableSequenced) whose two ends lay out messages alike.            *)
(***************************************************************************)
THEOREM PipeInvariant ==
  ASSUME WireCompatible, Ordered
  PROVE  Spec => []PipeInv
<1> DEFINE I == TypeOK /\ PipeInv
<1>1. Init => I
  BY TypeInit, PipeInit
<1>2. I /\ [Next]_vars => I'
  BY TypeStep, PipeStep
<1> QED
  BY <1>1, <1>2, PTL DEF Spec

(***************************************************************************)
(* NetPipeDeltaStateReceiver::GotMessage hands its callback exactly the    *)
(* state SyncState was given, for every ring size, every schedule of       *)
(* messages and acknowledgements and every loss, unless a header was left  *)
(* behind, or the ring wrapped before the first acknowledgement and a      *)
(* message was missed.                                                     *)
(***************************************************************************)
THEOREM DeliveryExact ==
  ASSUME WireCompatible, Ordered
  PROVE  Spec => []DeliveredAsSent
<1>1. PipeInv => DeliveredAsSent
  BY DEF PipeInv
<1> QED
  BY <1>1, PipeInvariant, PTL

(***************************************************************************)
(* SyncState refuses for good (the window is full and nothing is on the    *)
(* way that could open it) only after DataStoreSize - 1 packets were lost: *)
(* every slot filled since the acknowledged one must have been.            *)
(***************************************************************************)
THEOREM StallsOnlyByLoss ==
  ASSUME WireCompatible, Ordered
  PROVE  Spec => []StallNeedsLoss
<1>1. TypeOK /\ PipeInv => StallNeedsLoss
  <2> SUFFICES ASSUME TypeOK, PipeInv, ~tainted, WindowFull, msgs = << >>, acks = << >>
               PROVE  lost >= DataStoreSize - 1
    BY DEF StallNeedsLoss
  <2>1. /\ NextSlot \in Slots /\ NextSlot = m_LastAckedState
        /\ NextSlot = IF m_NextStateSlot = DataStoreSize - 1 THEN 0 ELSE m_NextStateSlot + 1
    BY NextSlotType DEF WindowFull
  <2>2. m_NextStateSlot \in -1 .. DataStoreSize - 1 /\ lost \in Nat
    BY DEF TypeOK
  <2>3. m_LastAckedState # -1
    BY <2>1 DEF Slots
  <2>4. RankFrom(m_LastAckedState, m_NextStateSlot) = DataStoreSize - 1
    BY <2>1, <2>2, SizeAssumption DEF RankFrom, Slots
  <2>5. RankFrom(m_LastAckedState, m_NextStateSlot) <= 0 + 0 + lost
    BY <2>3 DEF PipeInv, GapsAccounted, Behind
  <2> QED
    BY <2>2, <2>4, <2>5, SizeAssumption
<1> QED
  BY <1>1, TypeCorrect, PipeInvariant, PTL

(***************************************************************************)
(* The slot the sender computes its deltas against (m_LastAckedState)      *)
(* holds the same state in both NetStateStores.                            *)
(***************************************************************************)
THEOREM ReferencesAgree ==
  ASSUME WireCompatible, Ordered
  PROVE  Spec => []ReferenceAgreed
<1>1. PipeInv => ReferenceAgreed
  BY DEF PipeInv, ReferenceAgreed, WindowInv, AckedAgreed, Agreed
<1> QED
  BY <1>1, PipeInvariant, PTL

------------------------------------------------------------------------------
(***************************************************************************)
(* The pipe implements a queue of whole states, step by step.              *)
(***************************************************************************)
\* The states on the way, as the channel sees them.
Queue == [i \in 1 .. Len(msgs) |-> msgs[i].to]

LEMMA QueueType ==
  ASSUME TypeOK
  PROVE  Queue \in Seq(State) /\ Len(Queue) = Len(msgs)
<1>1. Len(msgs) \in Nat
  BY DEF TypeOK
<1>2. \A i \in 1 .. Len(msgs) : msgs[i].to \in State
  BY PacketTypes
<1> QED
  BY <1>1, <1>2 DEF Queue

\* Taking a message off the way takes its state off the queue.
LEMMA QueueRemove ==
  ASSUME TypeOK, NEW i \in 1 .. Len(msgs), msgs' = RemoveAt(msgs, i)
  PROVE  Queue' = RemoveAt(Queue, i)
<1>1. msgs \in Seq(Message) /\ Len(msgs) \in Nat /\ Queue \in Seq(State) /\ Len(Queue) = Len(msgs)
  BY QueueType DEF TypeOK
<1>2. /\ Len(msgs') = Len(msgs) - 1
      /\ \A j \in 1 .. Len(msgs) - 1 : msgs'[j] = msgs[Kept(i, j)] /\ Kept(i, j) \in 1 .. Len(msgs)
  BY <1>1, RemoveAtKept
<1> DEFINE q == RemoveAt(Queue, i)
<1>3. /\ q \in Seq(State)
      /\ Len(q) = Len(msgs) - 1
      /\ \A j \in 1 .. Len(msgs) - 1 : q[j] = Queue[Kept(i, j)]
  BY <1>1, RemoveAtProps DEF Kept
<1> HIDE DEF q
<1>4. \A j \in 1 .. Len(msgs) - 1 : q[j] = msgs[Kept(i, j)].to
  BY <1>2, <1>3 DEF Queue
<1>5. q = [j \in 1 .. Len(q) |-> q[j]]
  BY <1>3
<1>6. Queue' = [j \in 1 .. Len(msgs') |-> msgs'[j].to]
  BY DEF Queue
<1>7. Queue' = q
  BY <1>2, <1>3, <1>4, <1>5, <1>6
<1> QED
  BY <1>7 DEF q

LEMMA QueueAppend ==
  ASSUME TypeOK, NEW m \in Message, msgs' = Append(msgs, m)
  PROVE  Queue' = Append(Queue, m.to)
<1>1. msgs \in Seq(Message) /\ Len(msgs) \in Nat /\ Queue \in Seq(State) /\ Len(Queue) = Len(msgs)
  BY QueueType DEF TypeOK
<1>2. m.to \in State
  BY DEF Message
<1>3. /\ Len(msgs') = Len(msgs) + 1
      /\ msgs'[Len(msgs) + 1] = m
      /\ \A j \in 1 .. Len(msgs) : msgs'[j] = msgs[j]
  BY <1>1
<1> DEFINE q == Append(Queue, m.to)
<1>4. /\ q \in Seq(State)
      /\ Len(q) = Len(msgs) + 1
      /\ q[Len(msgs) + 1] = m.to
      /\ \A j \in 1 .. Len(msgs) : q[j] = Queue[j]
  BY <1>1, <1>2
<1> HIDE DEF q
<1>5. \A j \in 1 .. Len(msgs) + 1 : q[j] = msgs'[j].to
  <2>1. \A j \in 1 .. Len(msgs) : q[j] = msgs'[j].to
    BY <1>3, <1>4 DEF Queue
  <2> QED
    BY <2>1, <1>1, <1>3, <1>4
<1>6. q = [j \in 1 .. Len(q) |-> q[j]]
  BY <1>4
<1>7. Queue' = [j \in 1 .. Len(msgs') |-> msgs'[j].to]
  BY DEF Queue
<1>8. Queue' = q
  BY <1>3, <1>4, <1>5, <1>6, <1>7
<1> QED
  BY <1>8 DEF q

\* Every step of the pipe is a step of the channel or leaves it alone.
LEMMA ChannelStep ==
  ASSUME TypeOK, TypeOK', WireCompatible, Ordered, PipeInv, PipeInv', [Next]_vars
  PROVE  [Channel!Next]_(Channel!vars)
<1> DEFINE Stutter == Queue' = Queue /\ callback'.inst = callback.inst /\ Broken' = Broken
<1>1. Stutter => UNCHANGED Channel!vars
  BY DEF Channel!vars, Queue
<1>2. Broken' => Channel!Next
  BY DEF Channel!Next
<1>3. ASSUME NEW s \in State, Queue' = Append(Queue, s), callback'.inst = callback.inst, Broken' = Broken
      PROVE  Channel!Next
  BY <1>3 DEF Channel!Next, Channel!Submit, Queue
<1>4. ASSUME NEW i \in 1 .. Len(msgs), Queue' = RemoveAt(Queue, i),
             callback'.inst = callback.inst, Broken' = Broken
      PROVE  Channel!Next
  <2>1. i \in 1 .. Len([j \in 1 .. Len(msgs) |-> msgs[j].to])
    BY QueueType DEF Queue
  <2>2. Channel!Drop(i)
    BY <1>4 DEF Channel!Drop, Channel!RemoveAt, RemoveAt, Queue
  <2> QED
    BY <2>1, <2>2, Zenon DEF Channel!Next
<1>5. ASSUME 1 \in 1 .. Len(msgs), Queue' = RemoveAt(Queue, 1), callback'.inst = Queue[1], Broken' = Broken
      PROVE  Channel!Next
  <2>1. 1 \in 1 .. Len([j \in 1 .. Len(msgs) |-> msgs[j].to])
    BY <1>5, QueueType DEF Queue
  <2>2. Channel!Show(1)
    BY <1>5 DEF Channel!Show, Channel!RemoveAt, RemoveAt, Ordered, Queue
  <2> QED
    BY <2>1, <2>2, Zenon DEF Channel!Next
<1>6. Broken \in BOOLEAN /\ Broken' \in BOOLEAN
  BY DEF Broken
<1>7. ASSUME NEW s \in State, SyncStateSent(s)
      PROVE  Channel!Next
  <2>1. UNCHANGED callback /\ (~Broken' => ~Broken)
    BY <1>7, Zenon DEF SyncStateSent, Broken
  <2>2. SyncMessage(s) \in Message /\ SyncMessage(s).to = s
    BY SyncMessageType, CleanSync
  <2>3. msgs' = Append(msgs, SyncMessage(s))
    BY <1>7 DEF SyncStateSent
  <2>4. Queue' = Append(Queue, s)
    BY <2>2, <2>3, QueueAppend
  <2>5. ~Broken' => Broken' = Broken
    BY <2>1, <1>6
  <2> QED
    BY <2>1, <2>4, <2>5, <1>2, <1>3
<1>8. CASE SyncStateRefused
  <2>1. Stutter
    BY <1>8 DEF SyncStateRefused, history, Queue, Broken
  <2> QED
    BY <2>1, <1>1
<1>9. CASE GotAck
  <2>1. Stutter
    BY <1>9 DEF GotAck, history, Queue, Broken
  <2> QED
    BY <2>1, <1>1
<1>10. ASSUME 1 \in 1 .. Len(msgs), msgs # << >>, GotMessage(1)
       PROVE  Channel!Next
  <2>1. UNCHANGED <<missed, overrun, tainted>> /\ msgs' = RemoveAt(msgs, 1)
    BY <1>10 DEF GotMessage
  <2>2. Broken' = Broken
    BY <2>1 DEF Broken
  <2>3. Queue' = RemoveAt(Queue, 1)
    BY <1>10, <2>1, QueueRemove
  <2>4. ASSUME ~Broken
        PROVE  callback'.inst = Queue[1]
    <3>1. FilledInv /\ callback'.inst = callback'.sent
      BY <2>2, <2>4 DEF PipeInv, DeliveredAsSent, Broken
    <3>2. ~msgs[1].garbled
      BY <3>1, <1>10 DEF FilledInv
    <3>3. \/ Accept(msgs[1], msgs[1].slot, Inst(msgs[1], msgs[1].ref))
          \/ Crash
      BY <3>2, <1>10, CleanDelivery
    <3>4. ~fault'
      BY <2>1, <2>4 DEF PipeInv, FilledInv, Broken
    <3>5. callback'.sent = msgs[1].to
      BY <3>3, <3>4 DEF Accept, Crash
    <3> QED
      BY <3>1, <3>5, <1>10 DEF Queue
  <2> QED
    BY <1>10, <2>2, <2>3, <2>4, <1>2, <1>5
<1>11. ASSUME NEW i \in 1 .. Len(msgs), GotMessageThrew(i) \/ LoseMessage(i)
       PROVE  Channel!Next
  <2>1. /\ msgs' = RemoveAt(msgs, i)
        /\ UNCHANGED <<callback, overrun, tainted>>
        /\ missed' = TRUE
    BY <1>11 DEF GotMessageThrew, LoseMessage
  <2>2. Queue' = RemoveAt(Queue, i)
    BY <2>1, QueueRemove
  <2>3. ~Broken' => Broken' = Broken
    BY <2>1, <1>6 DEF Broken
  <2> QED
    BY <2>1, <2>2, <2>3, <1>2, <1>4
<1>12. ASSUME NEW i \in 1 .. Len(acks), LoseAck(i)
       PROVE  Stutter
  BY <1>12 DEF LoseAck, Queue, Broken
<1>13. CASE UNCHANGED vars
  <2>1. Stutter
    BY <1>13 DEF vars, history, Queue, Broken
  <2> QED
    BY <2>1, <1>1
<1>14. ASSUME NEW i \in Deliverable
       PROVE  i = 1 /\ i \in 1 .. Len(msgs) /\ msgs # << >>
  BY DEF Deliverable, Ordered
<1> HIDE DEF Stutter
<1> QED
  BY <1>1, <1>7, <1>8, <1>9, <1>10, <1>11, <1>12, <1>13, <1>14 DEF Next, SyncState, Deliver, Lose

(***************************************************************************)
(* A kReliable or kUnreliableSequenced NetPipeDeltaState behaves, towards  *)
(* the application at both ends, like a queue of whole states: slots,      *)
(* deltas and acknowledgements cannot be seen from outside.                *)
(***************************************************************************)
THEOREM PipeImplementsChannel ==
  ASSUME WireCompatible, Ordered
  PROVE  Spec => ImplementsChannel
<1> DEFINE I == TypeOK /\ PipeInv
<1>1. Init => I
  BY TypeInit, PipeInit
<1>2. I /\ [Next]_vars => I'
  BY TypeStep, PipeStep
<1>3. Init => Channel!Init
  <2> SUFFICES ASSUME Init PROVE Channel!Init
    OBVIOUS
  <2>1. Len(msgs) = 0
    BY DEF Init
  <2>2. [i \in 1 .. Len(msgs) |-> msgs[i].to] = << >>
    BY <2>1
  <2> QED
    BY <2>2 DEF Init, Channel!Init, Broken
<1>4. I /\ I' /\ [Next]_vars => [Channel!Next]_(Channel!vars)
  BY ChannelStep
<1> QED
  BY <1>1, <1>2, <1>3, <1>4, PTL DEF Spec, ImplementsChannel, Channel!Spec
==============================================================================
