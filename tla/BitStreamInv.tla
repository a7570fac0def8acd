---------------------------- MODULE BitStreamInv -----------------------------
(***************************************************************************)
(* The inductive invariant of BitStream: a writer, its cursors and the     *)
(* reader each stand at a bit of the stream, and every bit before the end  *)
(* of the packet is the one that is wanted there.                          *)
(***************************************************************************)
EXTENDS BitStream

Byte == SUBSET (0 .. ByteBits - 1)

\* The number of bits before byte b.
Base(b) == (b - 1) * ByteBits

\* The first n bits of a buffer are those of "ones".
Agrees(m_Buffer, n, ones) ==
  \A b \in 1 .. Len(m_Buffer) : \A i \in 0 .. ByteBits - 1 :
    Base(b) + i < n => (i \in m_Buffer[b] <=> Base(b) + i \in ones)

WriterType == [m_Buffer : Seq(Byte), m_Bit : 1 .. ByteBits, m_TotalBits : Nat]

\* The number of bits of the stream in front of the writer.
Place(w) == Base(Len(w.m_Buffer)) + w.m_Bit

WriterInv ==
  /\ writer \in WriterType
  /\ Place(writer) = want.length
  /\ Agrees(writer.m_Buffer, want.length, want.ones)
  /\ ~uncounted => writer.m_TotalBits = want.length

CursorType ==
  [m_Byte : Nat, m_Bit : 1 .. ByteBits, m_Size : Int, m_Wrote : BOOLEAN, m_TotalBits : Nat,
   start : Nat, next : Nat, end : Nat]

\* A cursor stands at its next bit, and may write up to its end.  One that
\* has not written is where the writer was, with what it had counted, unless
\* WriteBuffer has bypassed the count.
Stands(c, bypassed) ==
  /\ c.next = Base(c.m_Byte) + c.m_Bit
  /\ c.start <= c.next /\ c.next <= c.end /\ c.end - c.next <= c.m_Size
  /\ ~c.m_Wrote => c.next = c.start
  /\ ~bypassed => c.m_TotalBits = c.start

\* Reservations lie one behind the other.
CursorsInv ==
  /\ cursors \in Seq(CursorType)
  /\ \A k \in 1 .. Len(cursors) : Stands(cursors[k], uncounted) /\ cursors[k].end <= want.length
  /\ \A j, k \in 1 .. Len(cursors) : j < k => cursors[j].end <= cursors[k].start

ReaderType == [m_Buffer : Seq(Byte), m_Offset : Nat, m_NumBytes : Nat, m_Bit : 0 .. ByteBits - 1]

Reader(r) == r \in ReaderType /\ r.m_Offset + r.m_NumBytes = Len(r.m_Buffer)

\* The number of bits behind the reader.
Taken(r) == Base(r.m_Offset + 1) + r.m_Bit

ReaderInv ==
  /\ pos = Taken(reader) /\ pos <= want.length
  /\ \E bit \in 1 .. ByteBits : want.length = Base(Len(reader.m_Buffer)) + bit
  /\ Agrees(reader.m_Buffer, want.length, want.ones)

StreamInv ==
  /\ want.length \in 0 .. MaxBits /\ want.ones \subseteq 0 .. want.length - 1
  /\ want = [length |-> want.length, ones |-> want.ones]
  /\ uncounted \in BOOLEAN
  /\ Writing => WriterInv /\ CursorsInv /\ pos = 0 /\ ~last.past
  /\ ~Writing => Reader(reader) /\ reader.m_Buffer # << >>
  /\ ~Writing /\ ~last.past => ReaderInv
  /\ last = [got |-> last.wanted, wanted |-> last.wanted, past |-> last.past, threw |-> FALSE]
==============================================================================
