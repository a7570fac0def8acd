----------------------------- MODULE ProtocolInv -----------------------------
(***************************************************************************)
(* The inductive invariant of Protocol: what the bits of a packet on its   *)
(* way are, whoever wrote them.                                            *)
(***************************************************************************)
EXTENDS Protocol

PacketType == [bits : Seq({0, 1}), mode : PipeModes, by : Handling, clean : BOOLEAN]
PendingType == [packet : PacketType, m_Data : Nat]

TypeInv ==
  /\ TypeOK
  /\ DOMAIN m_LastAckedState = Ends /\ DOMAIN m_NextStateSlot = Ends
  /\ DOMAIN filled = Ends /\ net \in [Ends -> Seq(PacketType)]
  /\ m_PendingPackets \in [Ends -> Seq(PendingType)]

(***************************************************************************)
(* Two conditions on the pipes.  The reference of a delta is written in    *)
(* SlotBits bits and read in RefReadBits, which are the same unless        *)
(* DataStoreSize is a power of two.  A variant pipe copies the default of  *)
(* a type that has a callback of its own.                                  *)
(***************************************************************************)
WidthsAgree == RefReadBits = SlotBits
DefaultsKnown ==
  \A e \in Ends : \A c \in Channels(e) :
    PipeOf(e, c).kind = "variant" => PipeOf(e, c).typed \subseteq PipeOf(e, c).defaults

(***************************************************************************)
(* The bits that a message, or an acknowledgement to "e", has when the     *)
(* writer was empty.  "ref" is the slot that a delta refers to.            *)
(***************************************************************************)
Contents(e, by, ref) ==
  IF by.ack = 1 THEN BitsOf(by.val, SlotBits)
  ELSE IF PipeOf(e, by.channel).kind = "delta"
  THEN BitsOf(by.class, SlotBits) \o BitsOf(ref, SlotBits) \o BitsOf(by.val, ValueBits)
  ELSE Fields(PipeOf(e, by.channel), by.class, by.val)

Whole(e, by, ref) ==
  (BitsOf(by.ack, 1) \o BitsOf(by.channel, ChannelBits(IF by.ack = 1 THEN Other(e) ELSE e)))
    \o Contents(e, by, ref)

\* What a message says, when "slots" are in use: the slot that a delta refers to
\* is one the receiver has.
MessageBy(slots, e, by, ref) ==
  LET pipe == PipeOf(e, by.channel)
  IN  /\ by.channel \in Channels(e)
      /\ by.class \in 0 .. (IF pipe.kind = "delta" THEN DataStoreSize ELSE pipe.types) - 1
      /\ by.val \in Values(pipe)
      /\ by = Message(by.channel, by.class, by.val)
      /\ pipe.kind = "delta" => ref \in slots[Other(e)][by.channel] \cup {DataStoreSize}

\* What an acknowledgement says: a slot that its sender has.
AckBy(slots, e, by) ==
  /\ by.channel \in Channels(Other(e)) /\ PipeOf(Other(e), by.channel).kind = "delta"
  /\ by.val \in slots[e][by.channel]
  /\ by = [Message(by.channel, 0, by.val) EXCEPT !.ack = 1]

\* A packet with a header too many begins with that of a message, or has been
\* read to its end.
Written(slots, e, p) ==
  IF p.clean
  THEN \E ref \in 0 .. DataStoreSize :
         (MessageBy(slots, e, p.by, ref) \/ AckBy(slots, e, p.by)) /\ p.bits = Padded(Whole(e, p.by, ref))
  ELSE p.bits # << >> => p.bits[1] = 0

PacketsInv ==
  \A e \in Ends :
    /\ \A i \in DOMAIN net[e] : Written(filled, e, net[e][i])
    /\ \A i \in DOMAIN m_PendingPackets[e] : Written(filled, e, m_PendingPackets[e][i].packet)
    /\ writer[e] # << >> /\ transport # "null" => writer[e][1] = 0
    /\ transport = "null" => net[e] = << >>
    /\ transport # "lagged" => m_PendingPackets[e] = << >>

\* The sender refers to slots that the receiver has.
AckedInv ==
  \A e \in Ends : \A c \in Channels(e) :
    m_LastAckedState[e][c] \in filled[Other(e)][c] \cup {-1}

\* No two packets have the same buffer.
HeapInv ==
  \A e \in Ends :
    /\ IsFiniteSet(heap[e])
    /\ \A i, j \in DOMAIN m_PendingPackets[e] :
         m_PendingPackets[e][i].m_Data = m_PendingPackets[e][j].m_Data => i = j

ProtocolInv == TypeInv /\ PacketsInv /\ AckedInv /\ HeapInv /\ BuffersOwned
==============================================================================
