----------------------------- MODULE DeltaState ------------------------------
(***************************************************************************)
(* NetPipeDeltaState: one sender and one receiver of a delta-compressed    *)
(* state pipe, and the two ENet flows between them.                        *)
(*                                                                         *)
(* The sender keeps the last DataStoreSize states it sent in a ring, the   *)
(* receiver keeps the states it decoded in a ring of the same size.  A     *)
(* message names the slot it fills and the acknowledged slot it is a delta *)
(* against; the acknowledgement names the slot that was filled.            *)
(*                                                                         *)
(* The contents of a state are a member of State.  Null is an empty slot;  *)
(* Corrupt is a decoded state that is not the one the sender encoded.  The *)
(* application may stop calling SyncState, and a pipe may stall for good,  *)
(* so a state without successor is not an error of the model.              *)
(***************************************************************************)
EXTENDS Integers, SequencesExt, BitUtil

CONSTANTS
  State,          \* contents the application hands to SyncState
  Null,           \* an empty std::shared_ptr in a NetStateStore
  Corrupt,        \* contents no SyncState was given
  DataStoreSize,  \* the template argument DataStoreSize
  Mode,           \* the template argument Mode
  MaxInFlight,    \* bound: packets on the way in each direction
  MaxLost,        \* bound: packets that never have their effect
  MaxAbandoned    \* bound: headers left behind in m_Writer

Modes == {"kReliable", "kUnreliableSequenced", "kUnreliableUnsequenced"}

ASSUME StateAssumption == Null \notin State /\ Corrupt \notin State /\ Null # Corrupt
ASSUME SizeAssumption == DataStoreSize \in Nat /\ DataStoreSize >= 2
ASSUME ModeAssumption == Mode \in Modes
ASSUME BoundAssumption == MaxInFlight \in Nat /\ MaxLost \in Nat /\ MaxAbandoned \in Nat

Slots == 0 .. DataStoreSize - 1

\* The value written in place of a reference when there is none.
NoRef == DataStoreSize

\* Width of both slot fields as SyncState and the acknowledgement write them.
SlotBits == GetRequiredBits(DataStoreSize - 1)

\* Width of the reference field as GotMessage reads it.
RefReadBits == GetRequiredBits(DataStoreSize)

Contents == State \cup {Null, Corrupt}

Message ==
  [slot : Slots, ref : 0 .. DataStoreSize, from : State \cup {Null}, to : State,
   garbled : BOOLEAN]

VARIABLES
  m_LastAckedState,  \* sender: the slot of the last acknowledgement, or -1
  m_NextStateSlot,   \* sender: the slot of the last message, or -1
  sendStore,         \* sender: m_StateStore
  abandoned,         \* sender: headers in m_Writer that no send has flushed
  recvStore,         \* receiver: m_StateStore
  msgs,              \* messages on the way, oldest first
  acks,              \* acknowledgements on the way, oldest first
  callback,          \* the last m_UpdateCallback: what it got, what was sent
  fault,             \* the receiver dereferenced a null or foreign pointer
  lost,              \* history: packets that never had their effect
  missed,            \* history: one of them was a message
  overrun,           \* history: a used slot was reused before any ack came
  tainted            \* history: a packet with two headers was sent

sendVars == <<m_LastAckedState, m_NextStateSlot, sendStore, abandoned>>
history == <<lost, missed, overrun, tainted>>
vars == <<sendVars, recvStore, msgs, acks, callback, fault, history>>

Init ==
  /\ m_LastAckedState = -1
  /\ m_NextStateSlot = -1
  /\ sendStore = [s \in Slots |-> Null]
  /\ abandoned = 0
  /\ recvStore = [s \in Slots |-> Null]
  /\ msgs = << >>
  /\ acks = << >>
  /\ callback = [inst |-> Null, sent |-> Null]
  /\ fault = FALSE
  /\ lost = 0
  /\ missed = FALSE
  /\ overrun = FALSE
  /\ tainted = FALSE

------------------------------------------------------------------------------
(***************************************************************************)
(* The sender.                                                             *)
(***************************************************************************)
NextSlot == (m_NextStateSlot + 1) % DataStoreSize

\* Faulty variant: the check is dropped.
WindowNeverFull == FALSE

\* The slot that would be filled holds the reference of every later delta.
WindowFull == NextSlot = m_LastAckedState

Reference == IF m_LastAckedState # -1 THEN sendStore[m_LastAckedState] ELSE Null

\* SyncState when the ring is full: CreateMessage has already put a header in
\* the transmitter's writer, and the early return leaves it there.
SyncStateRefused ==
  /\ WindowFull
  /\ abandoned < MaxAbandoned
  /\ abandoned' = abandoned + 1
  /\ UNCHANGED <<m_LastAckedState, m_NextStateSlot, sendStore, recvStore, msgs, acks,
                 callback, fault, history>>

\* The packet SyncState writes after the header.  A header abandoned earlier
\* precedes this packet's own, so every field is read at the wrong offset.
\* NetSerializeValueDelta writes no payload at all when "to" equals "from".
SyncMessage(current_state) ==
  [slot    |-> Truncate(NextSlot, SlotBits),
   ref     |-> Truncate(IF m_LastAckedState # -1 THEN m_LastAckedState ELSE NoRef, SlotBits),
   from    |-> Reference,
   to      |-> current_state,
   garbled |-> abandoned > 0]

SyncStateSent(current_state) ==
  /\ ~WindowFull
  /\ Len(msgs) < MaxInFlight
  /\ m_NextStateSlot' = NextSlot
  /\ sendStore' = [sendStore EXCEPT ![NextSlot] = current_state]
  /\ msgs' = Append(msgs, SyncMessage(current_state))
  /\ abandoned' = 0
  /\ tainted' = (tainted \/ abandoned > 0)
  /\ overrun' = (overrun \/ (m_LastAckedState = -1 /\ sendStore[NextSlot] # Null))
  /\ UNCHANGED <<m_LastAckedState, recvStore, acks, callback, fault, lost, missed>>

SyncState == SyncStateRefused \/ \E current_state \in State : SyncStateSent(current_state)

\* Faulty variant: the acknowledgement is taken for the slot after it.
GotAckOffByOne ==
  /\ acks # << >>
  /\ m_LastAckedState' = (Head(acks) + 1) % DataStoreSize
  /\ acks' = Tail(acks)
  /\ UNCHANGED <<m_NextStateSlot, sendStore, abandoned, recvStore, msgs, callback, fault, history>>

\* Faulty variant: slots are taken to be numbered from one.
GotAckPastEnd ==
  /\ acks # << >>
  /\ m_LastAckedState' = Head(acks) + 1
  /\ acks' = Tail(acks)
  /\ UNCHANGED <<m_NextStateSlot, sendStore, abandoned, recvStore, msgs, callback, fault, history>>

\* Faulty variant: an acknowledgement is only taken when there is none yet.
GotAckFirstOnly ==
  /\ acks # << >>
  /\ m_LastAckedState' = IF m_LastAckedState = -1 THEN Head(acks) ELSE m_LastAckedState
  /\ acks' = Tail(acks)
  /\ UNCHANGED <<m_NextStateSlot, sendStore, abandoned, recvStore, msgs, callback, fault, history>>

GotAck ==
  /\ acks # << >>
  /\ m_LastAckedState' = Head(acks)
  /\ acks' = Tail(acks)
  /\ UNCHANGED <<m_NextStateSlot, sendStore, abandoned, recvStore, msgs, callback, fault, history>>

------------------------------------------------------------------------------
(***************************************************************************)
(* The receiver.  A garbled packet yields whatever bits stand where the    *)
(* fields are expected; a reference field read one bit wider than it was   *)
(* written takes that bit from the payload.                                *)
(***************************************************************************)
SlotsRead(m) == IF m.garbled THEN 0 .. 2 ^ SlotBits - 1 ELSE {m.slot}

RefsRead(m) ==
  IF m.garbled THEN 0 .. 2 ^ RefReadBits - 1
               ELSE {r \in 0 .. 2 ^ RefReadBits - 1 : Truncate(r, SlotBits) = m.ref}

Aligned(m) == ~m.garbled /\ RefReadBits = SlotBits

\* m_StateStore.Get(ref_slot) is a state that can be copied.
Readable(ref) == ref \in Slots /\ recvStore[ref] # Null

\* What NetDeserializeValue and NetDeserializeValueDelta leave in *inst: a
\* delta reproduces "to" only on the reference it was computed from.
Inst(m, ref) ==
  LET base == IF ref = NoRef THEN Null ELSE recvStore[ref]
  IN  IF ~Aligned(m) THEN Corrupt
      ELSE IF base = m.from THEN m.to
      ELSE IF m.to = m.from THEN base ELSE Corrupt

\* Faulty variant: the acknowledgement names the slot after the one filled.
AcceptAckNext(m, slot, inst) ==
  /\ recvStore' = [recvStore EXCEPT ![slot] = inst]
  /\ callback' = [inst |-> inst, sent |-> m.to]
  /\ acks' = Append(acks, (slot + 1) % DataStoreSize)
  /\ UNCHANGED <<fault, lost>>

\* Faulty variant: the state is shown and acknowledged but not kept.
AcceptUnstored(m, slot, inst) ==
  /\ callback' = [inst |-> inst, sent |-> m.to]
  /\ acks' = Append(acks, Truncate(slot, SlotBits))
  /\ UNCHANGED <<recvStore, fault, lost>>

\* GotMessage reaching its end: store, callback, acknowledge.
Accept(m, slot, inst) ==
  /\ recvStore' = [recvStore EXCEPT ![slot] = inst]
  /\ callback' = [inst |-> inst, sent |-> m.to]
  /\ acks' = Append(acks, Truncate(slot, SlotBits))
  /\ UNCHANGED <<fault, lost>>

\* The reference or the slot lies outside what the receiver's ring holds.
Crash ==
  /\ fault' = TRUE
  /\ UNCHANGED <<recvStore, callback, acks, lost>>

GotMessage(i) ==
  LET m == msgs[i]
  IN  /\ Len(acks) < MaxInFlight
      /\ \E slot \in SlotsRead(m), ref \in RefsRead(m) :
           IF slot \in Slots /\ (ref = NoRef \/ Readable(ref))
           THEN Accept(m, slot, Inst(m, ref))
           ELSE Crash
      /\ msgs' = RemoveAt(msgs, i)
      /\ UNCHANGED <<sendVars, missed, overrun, tainted>>

\* GotMessage when the reader runs out of bits ("NetBitReader requested too
\* much data"): the exception leaves before anything is stored, and the packet
\* is gone.  A packet without payload or with misread fields may end so.
GotMessageThrew(i) ==
  /\ ~Aligned(msgs[i]) \/ msgs[i].to = msgs[i].from
  /\ lost < MaxLost
  /\ lost' = lost + 1
  /\ missed' = TRUE
  /\ msgs' = RemoveAt(msgs, i)
  /\ UNCHANGED <<sendVars, recvStore, acks, callback, fault, overrun, tainted>>

\* ENet hands over the oldest packet first, except on an unsequenced pipe.
Deliverable ==
  {i \in 1 .. Len(msgs) : i = 1 \/ Mode = "kUnreliableUnsequenced"}

Deliver == \E i \in Deliverable : GotMessage(i) \/ GotMessageThrew(i)

------------------------------------------------------------------------------
(***************************************************************************)
(* The network.  Messages travel in the pipe's mode; acknowledgements      *)
(* always travel kUnreliableSequenced, the mode InitReceiver hands out.    *)
(***************************************************************************)
LoseMessage(i) ==
  /\ Mode # "kReliable"
  /\ lost < MaxLost
  /\ lost' = lost + 1
  /\ missed' = TRUE
  /\ msgs' = RemoveAt(msgs, i)
  /\ UNCHANGED <<sendVars, recvStore, acks, callback, fault, overrun, tainted>>

LoseAck(i) ==
  /\ lost < MaxLost
  /\ lost' = lost + 1
  /\ acks' = RemoveAt(acks, i)
  /\ UNCHANGED <<sendVars, recvStore, msgs, callback, fault, missed, overrun, tainted>>

Lose ==
  \/ \E i \in 1 .. Len(msgs) : LoseMessage(i)
  \/ \E i \in 1 .. Len(acks) : LoseAck(i)

Next == ~fault /\ (SyncState \/ GotAck \/ Deliver \/ Lose)

Spec == Init /\ [][Next]_vars

\* Both ends call Update every frame, and Update drains what ENet holds.
Fairness == WF_vars(~fault /\ Deliver) /\ WF_vars(~fault /\ GotAck)

FairSpec == Spec /\ Fairness

------------------------------------------------------------------------------
(***************************************************************************)
(* Properties.                                                             *)
(***************************************************************************)
TypeOK ==
  /\ m_LastAckedState \in -1 .. DataStoreSize - 1
  /\ m_NextStateSlot \in -1 .. DataStoreSize - 1
  /\ sendStore \in [Slots -> State \cup {Null}]
  /\ abandoned \in Nat
  /\ recvStore \in [Slots -> Contents]
  /\ msgs \in Seq(Message)
  /\ acks \in Seq(Slots)
  /\ callback \in [inst : Contents, sent : State \cup {Null}]
  /\ fault \in BOOLEAN
  /\ lost \in Nat
  /\ missed \in BOOLEAN
  /\ overrun \in BOOLEAN
  /\ tainted \in BOOLEAN

\* The pipe has left the conditions under which it promises anything: a packet
\* with two headers was sent; or a slot was reused before any acknowledgement
\* came, and the receiver missed a message, so that an acknowledgement may
\* name contents that only one end has in that slot.
Broken == tainted \/ (overrun /\ missed)

(***************************************************************************)
(* The receiver's callback gets exactly the state that was given to        *)
(* SyncState, however far acknowledgements lag behind and whichever of     *)
(* them are lost: the sender never computes a delta against a state the    *)
(* receiver does not hold in that slot (SyncState, GotMessage).            *)
(***************************************************************************)
DeliveredAsSent == ~Broken => callback.inst = callback.sent

(***************************************************************************)
(* GotMessage never copies from an empty slot: a reference slot is only    *)
(* ever named after the receiver acknowledged filling it.                  *)
(***************************************************************************)
NoNullReference == ~tainted => ~fault

(***************************************************************************)
(* The slot the sender takes as reference holds the same state at both     *)
(* ends from the moment its acknowledgement is processed until the next    *)
(* one is (the reason SyncState refuses to reuse that slot).               *)
(***************************************************************************)
ReferenceAgreed ==
  ~tainted /\ ~overrun /\ m_LastAckedState # -1
    => recvStore[m_LastAckedState] = sendStore[m_LastAckedState]

(***************************************************************************)
(* A full window with nothing on the way stays full for good.  That takes  *)
(* the loss of DataStoreSize - 1 packets: any acknowledgement of a state   *)
(* sent since the reference moves the window.                              *)
(***************************************************************************)
StallNeedsLoss ==
  ~tainted /\ WindowFull /\ msgs = << >> /\ acks = << >> => lost >= DataStoreSize - 1

(***************************************************************************)
(* A full window opens again, as long as fewer than DataStoreSize - 1      *)
(* packets are lost (MaxLost is the bound on losses).                      *)
(***************************************************************************)
WindowReopens == (WindowFull /\ ~tainted) ~> ~WindowFull

(***************************************************************************)
(* The pipe implements a queue of whole states: delta compression, slots   *)
(* and acknowledgements are invisible to the application at both ends.     *)
(* SyncState submits or is refused, GotMessage shows or drops, GotAck is   *)
(* a stuttering step.                                                      *)
(***************************************************************************)
Channel ==
  INSTANCE StateChannel WITH
    Nothing <- Null,
    Ordered <- Mode # "kUnreliableUnsequenced",
    queue   <- [i \in 1 .. Len(msgs) |-> msgs[i].to],
    shown   <- callback.inst,
    broken  <- Broken

ImplementsChannel == Channel!Spec

(***************************************************************************)
(* What the _DEBUG block of SyncState checks on the sending side: decoding *)
(* a message on its reference gives the current state, without a proviso.  *)
(***************************************************************************)
EveryStateDecodes == ~fault /\ callback.inst = callback.sent
==============================================================================
