------------------------------ MODULE ReplayInv ------------------------------
(***************************************************************************)
(* The inductive invariant behind the safety properties of Replay.  The    *)
(* recording is the packets one behind the other, so each packet has a     *)
(* place in the file; a reader that is not astray waits behind the header  *)
(* of the first packet that has not been played, or is at the end of the   *)
(* file; and a cursor was taken at one of these places, which its position *)
(* identifies.                                                             *)
(***************************************************************************)
EXTENDS Replay

\* The blocks hold what was written and nothing else: only the last one may
\* have room left.
BlocksFull ==
  /\ blocks # << >>
  /\ \A i \in 1 .. Len(blocks) :
       IF i < Len(blocks) THEN Len(blocks[i]) = kNetTransmitterBufferSize
                          ELSE Len(blocks[i]) <= kNetTransmitterBufferSize

\* The first n packets as they stand in the file.
Recorded(n) == Seqs!FlattenSeq([i \in 1 .. n |-> Bytes(recorded[i])])

\* Behind the header of packet n.
PlaceOf(n) == Len(Recorded(n - 1)) + 2 * FieldBytes

\* Waiting for packet n at this place with this header.
WaitsFor(n, place, size, time) ==
  n \in 1 .. Len(recorded) /\ place = PlaceOf(n) /\ size = recorded[n].size /\ time = recorded[n].time

\* Past the last packet.  A header beyond the end may have been skipped.
AtEnd(place, size, time) ==
  /\ place \in {Len(Recorded(Len(recorded))), Len(Recorded(Len(recorded))) + 2 * FieldBytes}
  /\ size = 0
  /\ time = INT_MAX

RecordingInv ==
  /\ BlocksFull
  /\ Seqs!FlattenSeq(blocks) = Recorded(Len(recorded))

PlayedInv == Len(played) <= Len(recorded) /\ \A i \in 1 .. Len(played) : played[i] = Datas[i]

ReaderInv ==
  /\ ~Opened => played = << >> /\ cursor = None
  /\ Opened => reader.file = Recorded(Len(recorded)) /\ reader.m_RemainingSize = Len(reader.file)
  /\ Playing =>
       \/ Len(played) = Len(recorded) /\ AtEnd(reader.pos, reader.m_NextPacketSize, reader.m_NextPacketTime)
       \/ WaitsFor(Len(played) + 1, reader.pos, reader.m_NextPacketSize, reader.m_NextPacketTime)

CursorInv ==
  cursor # None =>
    \/ AtEnd(cursor.pos, cursor.size, cursor.next)
    \/ \E n \in 1 .. Len(recorded) : WaitsFor(n, cursor.pos, cursor.size, cursor.next)

(***************************************************************************)
(* The inductive invariant (SendWriter, SaveToFile, ReadNextPacket, Update *)
(* and LoadCursor keep it).                                                *)
(***************************************************************************)
ReplayInvariant == RecordingInv /\ PlayedInv /\ ReaderInv /\ CursorInv
==============================================================================
