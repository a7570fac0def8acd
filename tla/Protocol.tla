------------------------------ MODULE Protocol -------------------------------
(***************************************************************************)
(* Several pipes on one connection (NetProtocol.h and what it is made of). *)
(* All pipes of an end share one transmitter, and with it one bit writer:  *)
(* CreateMessage and CreateAck append a header to whatever the writer      *)
(* holds, SendMessage and SendAck send the whole of it and empty it.  The  *)
(* header has one bit for "acknowledgement" and the index of the pipe, in  *)
(* a width that depends on the number of pipes of that direction.          *)
(*                                                                         *)
(* Packets are sequences of bits, so that a packet with a header too many  *)
(* is read as the code would read it.  A payload is a number of ValueBits  *)
(* bits; a delta is taken to be as long (DeltaState has the deltas).       *)
(***************************************************************************)
EXTENDS BitUtil, SequencesExt, FiniteSets

CONSTANTS
  Pipes,          \* for each end, the pipes it sends on, in channel order
  ByteBits,       \* bits in a byte: 8 in the code
  SizeBits,       \* width of the length of a buffer: 32 in the code
  ValueBits,      \* width of a payload
  DataStoreSize,  \* of the delta pipes
  Transports,     \* transmitters to consider
  Value,          \* contents of messages and states
  MaxBuffer,      \* bound: the length of a buffer
  MaxInFlight,    \* bound: packets on the way, held back ones too
  MaxAbandoned    \* bound: calls that leave a header behind

Ends == {"server", "client"}
Kinds == {"message", "variant", "state", "buffer", "delta"}
PipeModes == {"kReliable", "kUnreliableSequenced", "kUnreliableUnsequenced"}

\* types: how many a message or variant pipe carries (others carry one);
\* typed: those with a callback of their own; generic: whether the generic
\* callback is registered; defaults: the types StormReflGetDefault knows.
Pipe ==
  [kind : Kinds, mode : PipeModes, types : Nat \ {0}, typed : SUBSET Nat,
   generic : BOOLEAN, defaults : SUBSET Nat]

ASSUME PipesAssumption ==
  /\ Pipes \in [Ends -> Seq(Pipe)]
  /\ \A e \in Ends : Pipes[e] # << >>
  /\ \A e \in Ends : \A i \in DOMAIN Pipes[e] :
       Pipes[e][i].kind \in {"message", "variant"} \/ Pipes[e][i].types = 1
ASSUME WidthAssumption ==
  /\ {ByteBits, SizeBits, ValueBits} \subseteq 1 .. 32
  /\ DataStoreSize \in Nat \ {0, 1}
  /\ Value \subseteq 0 .. 2 ^ ValueBits - 1
  /\ MaxBuffer \in 0 .. 2 ^ SizeBits - 1
ASSUME CountAssumption ==
  /\ DataStoreSize <= 2 ^ 30
  /\ \A e \in Ends : Len(Pipes[e]) <= 2 ^ 30 /\ \A i \in DOMAIN Pipes[e] : Pipes[e][i].types <= 2 ^ 30
ASSUME TransportAssumption == Transports \subseteq {"enet", "lagged", "memory", "null"}

VARIABLES
  transport,         \* the transmitter: NetTransmitterEnet without and with
                     \* m_LagSim, NetTransmitterMemory or NetTransmitterNull
  writer,            \* m_Writer: the bits in it
  m_PendingPackets,  \* packets held back to simulate lag
  heap,              \* buffers of pending packets that are allocated
  m_Disconnected,
  m_LastAckedState,  \* delta pipes, by end and channel
  m_NextStateSlot,
  filled,            \* delta receivers: the slots of m_StateStore in use
  net,               \* packets sent by an end, on the way
  heard,             \* the packet that was just handled, if one was, and how
  fault,             \* a null or foreign pointer was used
  abandoned,         \* history: calls that left a header behind
  doubleFree         \* a buffer was freed twice

deltaVars == <<m_LastAckedState, m_NextStateSlot, filled>>
vars == <<transport, writer, m_PendingPackets, heap, m_Disconnected, deltaVars,
          net, heard, fault, abandoned, doubleFree>>

Other(e) == IF e = "server" THEN "client" ELSE "server"
Channels(e) == 0 .. Len(Pipes[e]) - 1
PipeOf(e, channel) == Pipes[e][channel + 1]

\* Width of the channel index of messages from e, and of acknowledgements to e.
ChannelBits(e) == GetRequiredBits(Len(Pipes[e]) - 1)
TypeBits(pipe) == GetRequiredBits(pipe.types - 1)
SlotBits == GetRequiredBits(DataStoreSize - 1)
RefReadBits == GetRequiredBits(DataStoreSize)

\* What became of a packet, or for its writer what should; "at" is the next bit.
Handling ==
  [result : {"none", "callback", "ignored", "threw", "crash"}, ack : {0, 1},
   channel : Nat, class : Nat, val : Nat, at : Nat]
Nobody == [result |-> "none", ack |-> 0, channel |-> 0, class |-> 0, val |-> 0, at |-> 1]
Unheard == [end |-> "client", by |-> Nobody, clean |-> TRUE, got |-> Nobody, complained |-> FALSE]

Init ==
  /\ transport \in Transports
  /\ writer = [e \in Ends |-> << >>]
  /\ m_PendingPackets = [e \in Ends |-> << >>]
  /\ heap = [e \in Ends |-> {}]
  /\ m_Disconnected = [e \in Ends |-> FALSE]
  /\ m_LastAckedState = [e \in Ends |-> [c \in Channels(e) |-> -1]]
  /\ m_NextStateSlot = [e \in Ends |-> [c \in Channels(e) |-> -1]]
  /\ filled = [e \in Ends |-> [c \in Channels(Other(e)) |-> {}]]
  /\ net = [e \in Ends |-> << >>]
  /\ heard = Unheard
  /\ fault = FALSE
  /\ abandoned = 0
  /\ doubleFree = FALSE

------------------------------------------------------------------------------
(***************************************************************************)
(* The transmitter.                                                        *)
(***************************************************************************)
\* CreateDefaultMessage; NetTransmitterNull writes no header.
Header(ack, channel, channel_bits) ==
  IF transport = "null" THEN << >> ELSE BitsOf(ack, 1) \o BitsOf(channel, channel_bits)

\* CreateWriter: the writer is not emptied first.
CreateWriter(e, ack, channel, channel_bits) ==
  writer[e] \o Header(ack, channel, channel_bits)

\* A packet is a whole number of bytes.
Padded(bits) == bits \o BitsOf(0, (ByteBits - (Len(bits) % ByteBits)) % ByteBits)

\* What is sent, with the mode of the last CreateWriter, and for the
\* properties who wrote it and whether the writer was empty before.
Packet(e, mode, channel_bits, by, fields) ==
  [bits  |-> Padded(CreateWriter(e, by.ack, by.channel, channel_bits) \o fields),
   mode  |-> mode, by |-> by, clean |-> writer[e] = << >>]

InFlight(wire) ==
  Len(wire["server"]) + Len(wire["client"])
    + Len(m_PendingPackets["server"]) + Len(m_PendingPackets["client"])

\* malloc gives a buffer that is not in use.
FreshBuffer(e) == CHOOSE b \in 1 .. Cardinality(heap[e]) + 1 : b \notin heap[e]

\* SendWriter.  ENet refuses packets to a peer that is being disconnected.
\* "wire" is what is on the way at that moment.
SendWriter(e, packet, wire) ==
  /\ InFlight(wire) < MaxInFlight
  /\ writer' = [writer EXCEPT ![e] = << >>]
  /\ IF transport = "lagged"
     THEN /\ m_PendingPackets' =
               [m_PendingPackets EXCEPT ![e] = Append(@, [packet |-> packet, m_Data |-> FreshBuffer(e)])]
          /\ heap' = [heap EXCEPT ![e] = @ \cup {FreshBuffer(e)}]
          /\ net' = wire
     ELSE /\ net' = IF transport = "null" \/ m_Disconnected[e] THEN wire
                    ELSE [wire EXCEPT ![e] = Append(@, packet)]
          /\ UNCHANGED <<m_PendingPackets, heap>>

\* Faulty variant: the packet is popped before its buffer is freed.
UpdatePopsFirst(e) ==
  /\ m_PendingPackets[e] # << >>
  /\ LET packet == Head(m_PendingPackets[e])
         rest   == Tail(m_PendingPackets[e])
     IN  /\ net' = IF m_Disconnected[e] THEN net ELSE [net EXCEPT ![e] = Append(@, packet.packet)]
         /\ heap' = [heap EXCEPT ![e] = @ \ {IF rest = << >> THEN packet.m_Data ELSE Head(rest).m_Data}]
         /\ m_PendingPackets' = [m_PendingPackets EXCEPT ![e] = rest]
  /\ UNCHANGED <<transport, writer, m_Disconnected, deltaVars, fault, abandoned, doubleFree>>

\* NetTransmitterEnet::Update, one turn of its loop: the front packet is due.
Update(e) ==
  /\ m_PendingPackets[e] # << >>
  /\ LET packet == Head(m_PendingPackets[e])
     IN  /\ net' = IF m_Disconnected[e] THEN net ELSE [net EXCEPT ![e] = Append(@, packet.packet)]
         /\ heap' = [heap EXCEPT ![e] = @ \ {packet.m_Data}]
  /\ m_PendingPackets' = [m_PendingPackets EXCEPT ![e] = Tail(@)]
  /\ UNCHANGED <<transport, writer, m_Disconnected, deltaVars, fault, abandoned, doubleFree>>

\* Disconnect or ForceDisconnect, with Clear: every turn of its loop frees the
\* buffer at the back and pops the packet at the front.  With two packets or
\* more the last buffer is freed twice, which is undefined.
Disconnect(e) ==
  /\ transport \in {"enet", "lagged"}
  /\ ~m_Disconnected[e]
  /\ LET pending == m_PendingPackets[e]
     IN  /\ heap' = [heap EXCEPT ![e] = IF pending = << >> THEN @ ELSE @ \ {Last(pending).m_Data}]
         /\ doubleFree' = (Len(pending) > 1)
  /\ m_PendingPackets' = [m_PendingPackets EXCEPT ![e] = << >>]
  /\ m_Disconnected' = [m_Disconnected EXCEPT ![e] = TRUE]
  /\ UNCHANGED <<transport, writer, deltaVars, net, fault, abandoned>>

------------------------------------------------------------------------------
(***************************************************************************)
(* Sending.                                                                *)
(***************************************************************************)
Message(channel, class, val) ==
  [Nobody EXCEPT !.result = "callback", !.channel = channel, !.class = class, !.val = val]

\* SendMessage of a message pipe, with the type known at compile time or not,
\* and of a NetMessageSender made from one.
MessageFields(pipe, class, val) == BitsOf(class, TypeBits(pipe)) \o BitsOf(val, ValueBits)

\* SendMessage of a variant pipe, by type or by index.
VariantFields(pipe, class, val) == BitsOf(class, TypeBits(pipe)) \o BitsOf(val, ValueBits)

\* SyncState of a full-state pipe.
StateFields(val) == BitsOf(val, ValueBits)

\* SendData of a buffer pipe: "size" bytes, all ones.
BufferFields(size) == BitsOf(size, SizeBits) \o [i \in 1 .. size * ByteBits |-> 1]

Fields(pipe, class, val) ==
  CASE pipe.kind = "message" -> MessageFields(pipe, class, val)
    [] pipe.kind = "variant" -> VariantFields(pipe, class, val)
    [] pipe.kind = "state"   -> StateFields(val)
    [] pipe.kind = "buffer"  -> BufferFields(val)

Values(pipe) == IF pipe.kind = "buffer" THEN 0 .. MaxBuffer ELSE Value

SendMessage(e, channel) ==
  LET pipe == PipeOf(e, channel)
  IN  /\ pipe.kind # "delta"
      /\ \E class \in 0 .. pipe.types - 1, val \in Values(pipe) :
           SendWriter(e, Packet(e, pipe.mode, ChannelBits(e), Message(channel, class, val),
                                Fields(pipe, class, val)), net)
      /\ UNCHANGED <<transport, m_Disconnected, deltaVars, fault, abandoned, doubleFree>>

\* Faulty variant: the ring does not wrap around.
NextSlotUnwrapped(e, channel) == m_NextStateSlot[e][channel] + 1

NextSlot(e, channel) == (m_NextStateSlot[e][channel] + 1) % DataStoreSize

\* SyncState of a delta pipe.
SyncState(e, channel) ==
  LET pipe   == PipeOf(e, channel)
      acked  == m_LastAckedState[e][channel]
      ref    == IF acked # -1 THEN acked ELSE DataStoreSize
  IN  /\ pipe.kind = "delta"
      /\ NextSlot(e, channel) # acked
      /\ m_NextStateSlot' = [m_NextStateSlot EXCEPT ![e][channel] = NextSlot(e, channel)]
      /\ \E val \in Values(pipe) :
           SendWriter(e, Packet(e, pipe.mode, ChannelBits(e), Message(channel, NextSlot(e, channel), val),
                                BitsOf(NextSlot(e, channel), SlotBits) \o BitsOf(ref, SlotBits)
                                  \o BitsOf(val, ValueBits)), net)
      /\ UNCHANGED <<transport, m_Disconnected, m_LastAckedState, filled, fault, abandoned,
                     doubleFree>>

\* A call that leaves after CreateMessage: SyncState when its ring is full,
\* and SendMessage of a variant pipe for a type that is not one of Types.
Abandon(e, channel) ==
  LET pipe == PipeOf(e, channel)
  IN  /\ \/ pipe.kind = "variant"
         \/ pipe.kind = "delta" /\ NextSlot(e, channel) = m_LastAckedState[e][channel]
      /\ abandoned < MaxAbandoned
      /\ abandoned' = abandoned + 1
      /\ writer' = [writer EXCEPT ![e] = CreateWriter(e, 0, channel, ChannelBits(e))]
      /\ UNCHANGED <<transport, m_PendingPackets, heap, m_Disconnected, deltaVars, net,
                     fault, doubleFree>>

------------------------------------------------------------------------------
(***************************************************************************)
(* Receiving.  A handler reads from bit "at" on; a read past the last byte *)
(* throws "NetBitReader requested too much data".                          *)
(***************************************************************************)
FieldAt(bits, at, n) == CHOOSE v \in 0 .. 2 ^ n - 1 : BitsOf(v, n) = SubSeq(bits, at, at + n - 1)
PastEnd(bits, at) == at > Len(bits) + 1

Threw(got) == [got EXCEPT !.result = "threw"]
Ignored(got) == [got EXCEPT !.result = "ignored"]

\* A callback is called with the value at "at".
CallWith(got, bits, class, at) ==
  IF PastEnd(bits, at + ValueBits) THEN Threw(got)
  ELSE [got EXCEPT !.result = "callback", !.class = class, !.val = FieldAt(bits, at, ValueBits),
                   !.at = at + ValueBits]

\* The type of a message or variant, read from its field.
TypeAt(pipe, got, bits) == FieldAt(bits, got.at, TypeBits(pipe))
WithType(pipe, got, bits) ==
  [got EXCEPT !.class = TypeAt(pipe, got, bits), !.at = got.at + TypeBits(pipe)]

\* NetPipeMessageReceiver::GotMessage
GotTypedMessage(pipe, got, bits) ==
  LET read == WithType(pipe, got, bits)
  IN  IF PastEnd(bits, read.at) THEN Threw(got)
      ELSE IF read.class < pipe.types /\ (read.class \in pipe.typed \/ pipe.generic)
      THEN CallWith(read, bits, read.class, read.at)
      ELSE Ignored(read)

\* NetPipeVariantReceiver::GotMessage does not compare the type it read with
\* the number of types, and a typed callback copies a default there may not be.
GotVariant(pipe, got, bits) ==
  LET read == WithType(pipe, got, bits)
  IN  IF PastEnd(bits, read.at) THEN Threw(got)
      ELSE IF read.class >= pipe.types \/ read.class \in pipe.typed \ pipe.defaults
      THEN [read EXCEPT !.result = "crash"]
      ELSE IF read.class \in pipe.typed \/ pipe.generic
      THEN CallWith(read, bits, read.class, read.at)
      ELSE Ignored(read)

\* NetPipeFullStateReciever::GotMessage decodes whether or not there is a
\* callback, but not without a default.
GotState(pipe, got, bits) ==
  IF 0 \notin pipe.defaults THEN Ignored(got) ELSE CallWith(got, bits, 0, got.at)

\* Faulty variant: the bytes are left in the reader when nobody wants them.
GotBufferUnread(got, bits) ==
  IF PastEnd(bits, got.at + SizeBits) THEN Threw(got)
  ELSE [got EXCEPT !.result = "callback", !.val = FieldAt(bits, got.at, SizeBits),
                   !.at = got.at + SizeBits]

\* NetPipeBufferReciever::GotMessage
GotBuffer(got, bits) ==
  LET size == FieldAt(bits, got.at, SizeBits)
      end  == got.at + SizeBits + size * ByteBits
  IN  IF PastEnd(bits, got.at + SizeBits) THEN Threw(got)
      ELSE IF PastEnd(bits, end) THEN Threw(got)
      ELSE [got EXCEPT !.result = "callback", !.val = size, !.at = end]

\* NetPipeDeltaStateReceiver::GotMessage up to the acknowledgement: the ring
\* must hold the reference.  The slot stands where others have the type.
GotDelta(e, got, bits) ==
  LET slot == FieldAt(bits, got.at, SlotBits)
      at   == got.at + SlotBits + RefReadBits
      ref  == FieldAt(bits, got.at + SlotBits, RefReadBits)
  IN  IF PastEnd(bits, at) THEN Threw(got)
      ELSE IF ref # DataStoreSize /\ ref \notin filled[e][got.channel]
      THEN [got EXCEPT !.result = "crash"]
      ELSE IF PastEnd(bits, at + ValueBits) THEN Threw(got)
      ELSE IF slot >= DataStoreSize THEN [got EXCEPT !.result = "crash"]
      ELSE CallWith(got, bits, slot, at)

\* NetProtocolReceiver::GotMessage; an index without a pipe reaches nobody.
ProcessMessage(e, got, bits) ==
  LET pipe == PipeOf(Other(e), got.channel)
  IN  IF got.channel \notin Channels(Other(e)) THEN Ignored(got)
      ELSE CASE pipe.kind = "message" -> GotTypedMessage(pipe, got, bits)
             [] pipe.kind = "variant" -> GotVariant(pipe, got, bits)
             [] pipe.kind = "state"   -> GotState(pipe, got, bits)
             [] pipe.kind = "buffer"  -> GotBuffer(got, bits)
             [] pipe.kind = "delta"   -> GotDelta(e, got, bits)

\* NetProtocolSender::GotAck; only delta pipes read anything.
ProcessAck(e, got, bits) ==
  IF got.channel \notin Channels(e) \/ PipeOf(e, got.channel).kind # "delta" THEN Ignored(got)
  ELSE IF PastEnd(bits, got.at + SlotBits) THEN Threw(got)
  ELSE [got EXCEPT !.result = "callback", !.val = FieldAt(bits, got.at, SlotBits),
                   !.at = got.at + SlotBits]

\* Faulty variant: an end reads every index in the width of its own pipes.
GotMessageOwnWidth(e, bits) ==
  LET ack == bits[1]
      n   == ChannelBits(e)
      got == [Nobody EXCEPT !.ack = ack, !.channel = FieldAt(bits, 2, n), !.at = 2 + n]
  IN  IF bits = << >> THEN Threw(Nobody)
      ELSE IF PastEnd(bits, 2 + n) THEN Threw([Nobody EXCEPT !.ack = ack])
      ELSE IF ack = 1 THEN ProcessAck(e, got, bits) ELSE ProcessMessage(e, got, bits)

\* SymmetricProtocol and AsymmetricProtocol::GotMessage.
GotMessage(e, bits) ==
  LET ack == bits[1]
      n   == ChannelBits(IF ack = 1 THEN e ELSE Other(e))
      got == [Nobody EXCEPT !.ack = ack, !.channel = FieldAt(bits, 2, n), !.at = 2 + n]
  IN  IF bits = << >> THEN Threw(Nobody)
      ELSE IF PastEnd(bits, 2 + n) THEN Threw([Nobody EXCEPT !.ack = ack])
      ELSE IF ack = 1 THEN ProcessAck(e, got, bits) ELSE ProcessMessage(e, got, bits)

\* NetBitReaderBuffer::IsEmpty: not even the last byte need have been read.
IsEmpty(bits, at) == Len(bits) \div ByteBits - (at - 1) \div ByteBits <= 1

\* NetClient::GotMessage: "Not all data from packet was consumed".
Complains(e, got, bits) ==
  e = "client" /\ got.result \notin {"threw", "crash"} /\ ~IsEmpty(bits, got.at)

\* A delta message that was decoded.
Decoded(e, got) ==
  got.result = "callback" /\ got.ack = 0 /\ PipeOf(Other(e), got.channel).kind = "delta"

\* Faulty variant: the acknowledgement's header has the width of this end's
\* own messages.
AcknowledgeOwnWidth(e, got, wire) ==
  /\ filled' = [filled EXCEPT ![e][got.channel] = @ \cup {got.class}]
  /\ SendWriter(e, Packet(e, "kUnreliableSequenced", ChannelBits(e),
                          [Message(got.channel, 0, got.class) EXCEPT !.ack = 1],
                          BitsOf(got.class, SlotBits)), wire)
  /\ UNCHANGED m_LastAckedState

\* It fills its slot and is acknowledged, in kUnreliableSequenced and in the
\* channel width of the messages it belongs to.
Acknowledge(e, got, wire) ==
  /\ filled' = [filled EXCEPT ![e][got.channel] = @ \cup {got.class}]
  /\ SendWriter(e, Packet(e, "kUnreliableSequenced", ChannelBits(Other(e)),
                          [Message(got.channel, 0, got.class) EXCEPT !.ack = 1],
                          BitsOf(got.class, SlotBits)), wire)
  /\ UNCHANGED m_LastAckedState

NothingSent(wire) ==
  /\ net' = wire
  /\ UNCHANGED <<writer, m_PendingPackets, heap>>

\* An acknowledgement that was read moves the sender's reference.
TakeAck(e, got, wire) ==
  /\ m_LastAckedState' = [m_LastAckedState EXCEPT ![e][got.channel] = got.val]
  /\ NothingSent(wire)
  /\ UNCHANGED filled

\* ENet keeps reliable and sequenced packets in order; unsequenced ones may
\* overtake and be overtaken.
Deliverable(e) ==
  {i \in DOMAIN net[e] :
     i = 1 \/ (transport # "memory" /\ net[e][i].mode = "kUnreliableUnsequenced")
           \/ \A j \in 1 .. i - 1 : transport # "memory" /\ net[e][j].mode = "kUnreliableUnsequenced"}

\* The packet reaches the protocol through GotMessage of NetClient or
\* NetServer, or through NetTransmitterMemory::SendToProtocol.  When reading
\* throws the latter has not popped the packet: it stays at the front with
\* nothing left to read, and throws each time it is offered again.
Deliver(e, i) ==
  LET packet == net[Other(e)][i]
      got    == GotMessage(e, packet.bits)
      stays  == transport = "memory" /\ got.result = "threw"
      wire   == [net EXCEPT ![Other(e)] =
                   IF stays THEN [@ EXCEPT ![i] = [packet EXCEPT !.bits = << >>, !.clean = FALSE]]
                   ELSE RemoveAt(@, i)]
  IN  /\ IF m_Disconnected[e]
         THEN NothingSent(wire) /\ heard' = Unheard /\ UNCHANGED <<fault, m_LastAckedState,
                                                                   filled>>
         ELSE /\ heard' = 
                   [end |-> e, by |-> packet.by, clean |-> packet.clean, got |-> got,
                    complained |-> transport # "memory" /\ Complains(e, got, packet.bits)]
              /\ fault' = (got.result = "crash")
              /\ IF Decoded(e, got) THEN Acknowledge(e, got, wire)
                 ELSE IF got.result = "callback" /\ got.ack = 1 THEN TakeAck(e, got, wire)
                 ELSE NothingSent(wire) /\ UNCHANGED <<m_LastAckedState, filled>>
      /\ UNCHANGED <<transport, m_Disconnected, m_NextStateSlot, abandoned, doubleFree>>

Lose(e, i) ==
  /\ transport # "memory"
  /\ net[e][i].mode # "kReliable"
  /\ net' = [net EXCEPT ![e] = RemoveAt(@, i)]
  /\ UNCHANGED <<transport, writer, m_PendingPackets, heap, m_Disconnected, deltaVars,
                 fault, abandoned, doubleFree>>

Next ==
  /\ ~fault /\ ~doubleFree
  /\ \E e \in Ends :
       \/ \E i \in Deliverable(Other(e)) : Deliver(e, i)
       \/ /\ heard' = Unheard
          /\ \/ Update(e)
             \/ Disconnect(e)
             \/ \E channel \in Channels(e) :
                  SendMessage(e, channel) \/ SyncState(e, channel) \/ Abandon(e, channel)
             \/ \E i \in DOMAIN net[e] : Lose(e, i)

Spec == Init /\ [][Next]_vars

------------------------------------------------------------------------------
(***************************************************************************)
(* Properties.                                                             *)
(***************************************************************************)
TypeOK ==
  /\ transport \in Transports
  /\ writer \in [Ends -> Seq({0, 1})]
  /\ heap \in [Ends -> SUBSET Nat]
  /\ m_Disconnected \in [Ends -> BOOLEAN]
  /\ \A e \in Ends :
       /\ m_LastAckedState[e] \in [Channels(e) -> -1 .. DataStoreSize - 1]
       /\ m_NextStateSlot[e] \in [Channels(e) -> -1 .. DataStoreSize - 1]
       /\ filled[e] \in [Channels(Other(e)) -> SUBSET (0 .. DataStoreSize - 1)]
       /\ net[e] \in Seq([bits : Seq({0, 1}), mode : PipeModes, by : Handling,
                          clean : BOOLEAN])
  /\ {fault, doubleFree} \subseteq BOOLEAN

(***************************************************************************)
(* A packet is handled by the pipe that wrote it, as a message or as an    *)
(* acknowledgement, and a callback gets the type, slot and value that were *)
(* sent: each end works out the widths of header and type for itself.  The *)
(* exception is a packet that follows a call which left its header behind. *)
(***************************************************************************)
HandledAsWritten ==
  heard.clean =>
    /\ heard.got.ack = heard.by.ack /\ heard.got.channel = heard.by.channel
    /\ heard.got.result = "callback" => [heard.got EXCEPT !.at = 1] = heard.by

(***************************************************************************)
(* Reading throws, or uses a pointer it should not, only in a packet with  *)
(* a header too many.  An acknowledgement from the wrong pipe, or a type   *)
(* nobody sent, would do either.                                           *)
(***************************************************************************)
OnlyGarbledFail ==
  heard.got.result \in {"threw", "crash"} => ~heard.clean

(***************************************************************************)
(* "Not all data from packet was consumed" is raised for a well-formed     *)
(* packet only when nobody wanted its contents: a callback that was called *)
(* has read the packet to its last byte.                                   *)
(***************************************************************************)
CallbacksConsumeAll ==
  heard.clean /\ heard.complained => heard.got.result = "ignored"

(***************************************************************************)
(* The buffers allocated for held-back packets are those of the packets    *)
(* that still wait: none is freed while it waits, none is forgotten, until *)
(* Clear meets a queue of two or more and frees the wrong ones.            *)
(***************************************************************************)
BuffersOwned ==
  ~doubleFree => \A e \in Ends :
    heap[e] = {m_PendingPackets[e][i].m_Data : i \in DOMAIN m_PendingPackets[e]}
==============================================================================
