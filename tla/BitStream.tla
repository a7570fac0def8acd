------------------------------ MODULE BitStream ------------------------------
(***************************************************************************)
(* The bit stream under every packet: NetBitWriterVector, its cursors, and *)
(* NetBitReaderBuffer.  A packet is written by any mix of operations, then *)
(* it is read in pieces that need not be the ones it was written in.       *)
(*                                                                         *)
(* A byte or a word is the set of the positions of its bits that are 1, 0  *)
(* being the lowest, so that the code's shifts, masks and ors are shifts,  *)
(* restrictions and unions of sets.  The sizes the code has as literals    *)
(* are constants, so that a small instance reaches every branch.           *)
(***************************************************************************)
EXTENDS BitUtil, Sequences

Sets == INSTANCE FiniteSetsExt

CONSTANTS
  ByteBits,      \* bits in a byte: 8 in the code
  WordBytes,     \* bytes in a uint64_t: 8 in the code
  MemcpyBytes,   \* the size from which WriteBuffer copies whole bytes: 64
  LengthBits,    \* bits of the length of a bit buffer: 16 in the code
  Patterns,      \* the bytes that the buffers of the application are made of
  MaxBits,       \* bound: the length of a packet
  MaxValue,      \* bound: the largest bound of a field
  MaxCursors     \* bound: the cursors held at a time

\* The bounds of fields are ints.
ASSUME SizeAssumption ==
  /\ {ByteBits, WordBytes, MemcpyBytes} \subseteq Nat \ {0}
  /\ Patterns \subseteq SUBSET (0 .. ByteBits - 1)
  /\ LengthBits \in 1 .. 31
  /\ {MaxBits, MaxCursors} \subseteq Nat /\ MaxValue \in 0 .. 2 * (2 ^ 30 - 1) + 1

VARIABLES
  writer,    \* [m_Buffer, m_Bit, m_TotalBits]
  cursors,   \* the live NetBitWriterCursors, the innermost last
  reader,    \* the reader made of the packet, or NoReader
  want,      \* history: [length, ones], the bits the packet is meant to hold
  pos,       \* history: the number of bits read
  last,      \* the outcome of the last read
  uncounted  \* history: whether WriteBuffer has bypassed m_TotalBits

streamVars == <<writer, cursors, reader, want, pos, last, uncounted>>

WordBits == ByteBits * WordBytes
SmallerOf(a, b) == Sets!Min({a, b})

Low(x, k)        == {i \in x : i < k}                   \* x & ((1 << k) - 1)
ShiftLeft(x, k)  == {i + k : i \in x}                   \* x << k
ShiftRight(x, k) == {i - k : i \in {j \in x : j >= k}}  \* x >> k

\* Bytes in memory order as one number: a word that is read through a
\* pointer, and the stream that a packet is.
BytesValue(bytes) == UNION {ShiftLeft(bytes[b], (b - 1) * ByteBits) : b \in DOMAIN bytes}

\* An int that is not negative, and the number that LengthBits bits stand for.
Word(n)        == {i \in 0 .. 30 : BitsOf(n, 31)[i + 1] = 1}
NumberOf(word) == CHOOSE n \in 0 .. 2 ^ LengthBits - 1 : Low(Word(n), LengthBits) = word

\* A byte with the k bits from position "at" replaced by the low bits of val.
Splice(byte, at, k, val) ==
  {i \in byte : i < at \/ i >= at + k} \cup ShiftLeft(Low(val, k), at)

------------------------------------------------------------------------------
(***************************************************************************)
(* The writer.  m_Bit counts the bits used in the last byte, so a writer   *)
(* whose m_Bit is ByteBits has no room left there.  The functions that     *)
(* call themselves for what is left are written as rounds.                 *)
(***************************************************************************)
EmptyWriter == [m_Buffer |-> << >>, m_Bit |-> ByteBits, m_TotalBits |-> 0]

\* Faulty variant: the bits above m_Bit, left there by a RollBack or by a
\* value wider than its field, are kept.
WriteRoundUnmasked(s) ==
  LET w         == s.writer
      free_bits == ByteBits - w.m_Bit
  IN  IF s.num_bits <= 0 THEN s
      ELSE IF free_bits = 0
      THEN [writer   |-> [m_Buffer    |-> Append(w.m_Buffer, Low(s.val, ByteBits)),
                        m_Bit       |-> SmallerOf(ByteBits, s.num_bits),
                        m_TotalBits |-> w.m_TotalBits],
            val      |-> ShiftRight(s.val, ByteBits),
            num_bits |-> s.num_bits - ByteBits]
      ELSE [writer   |-> [m_Buffer    |-> [w.m_Buffer EXCEPT ![Len(w.m_Buffer)] =
                                         @ \cup ShiftLeft(Low(s.val, free_bits), w.m_Bit)],
                        m_Bit       |-> SmallerOf(ByteBits, w.m_Bit + s.num_bits),
                        m_TotalBits |-> w.m_TotalBits],
            val      |-> ShiftRight(s.val, free_bits),
            num_bits |-> s.num_bits - SmallerOf(s.num_bits, free_bits)]

\* What lies above the bits used in the last byte is whatever was there: the
\* high bits of a negative value, or bits a RollBack took back.  The next
\* write masks it off (used_bit_mask).
WriteRound(s) ==
  LET w         == s.writer
      free_bits == ByteBits - w.m_Bit
  IN  IF s.num_bits <= 0 THEN s
      ELSE IF free_bits = 0
      THEN [writer   |-> [m_Buffer    |-> Append(w.m_Buffer, Low(s.val, ByteBits)),
                        m_Bit       |-> SmallerOf(ByteBits, s.num_bits),
                        m_TotalBits |-> w.m_TotalBits],
            val      |-> ShiftRight(s.val, ByteBits),
            num_bits |-> s.num_bits - ByteBits]
      ELSE [writer   |-> [m_Buffer    |-> [w.m_Buffer EXCEPT ![Len(w.m_Buffer)] =
                                         Low(@, w.m_Bit) \cup ShiftLeft(Low(s.val, free_bits), w.m_Bit)],
                        m_Bit       |-> SmallerOf(ByteBits, w.m_Bit + s.num_bits),
                        m_TotalBits |-> w.m_TotalBits],
            val      |-> ShiftRight(s.val, free_bits),
            num_bits |-> s.num_bits - SmallerOf(s.num_bits, free_bits)]

WriteBitsInternal(w, val, num_bits) ==
  LET round[n \in 0 .. num_bits] ==
        IF n = 0 THEN [writer |-> w, val |-> val, num_bits |-> num_bits] ELSE WriteRound(round[n - 1])
  IN  round[num_bits].writer

WriteBits(w, val, num_bits) ==
  WriteBitsInternal([w EXCEPT !.m_TotalBits = @ + num_bits], val, num_bits)

\* NetBitWriter::WriteBuffer: whole words, then bytes.
WriteBytesRound(s) ==
  LET n == IF Len(s.data) >= WordBytes THEN WordBytes ELSE 1
  IN  IF s.data = << >> THEN s
      ELSE [writer |-> WriteBits(s.writer, BytesValue(SubSeq(s.data, 1, n)), n * ByteBits),
            data   |-> SubSeq(s.data, n + 1, Len(s.data))]

WriteBytes(w, data) ==
  LET round[n \in 0 .. Len(data)] ==
        IF n = 0 THEN [writer |-> w, data |-> data] ELSE WriteBytesRound(round[n - 1])
  IN  round[Len(data)].writer

\* The copy into the vector bypasses WriteBits, and m_TotalBits with it.
CopiesBytes(w, data) == w.m_Bit = ByteBits /\ Len(data) >= MemcpyBytes

WriteBuffer(w, data) ==
  IF CopiesBytes(w, data) THEN [w EXCEPT !.m_Buffer = @ \o data] ELSE WriteBytes(w, data)

------------------------------------------------------------------------------
(***************************************************************************)
(* Cursors.  m_Byte is the index of the byte the cursor stands in; in an   *)
(* empty buffer it is one before the first (size() - 1 wraps around, and   *)
(* so does the increment).  The last three fields are history: how many    *)
(* bits came before the reservation, before the next bit to write and      *)
(* before the end.                                                         *)
(***************************************************************************)
Cursor(w, num_bits) ==
  [m_Byte |-> Len(w.m_Buffer), m_Bit |-> w.m_Bit, m_Size |-> num_bits, m_Wrote |-> FALSE,
   m_TotalBits |-> w.m_TotalBits, start |-> want.length, next |-> want.length,
   end |-> want.length + num_bits]

\* The cursor form of WriteBits: the bits outside the write are kept.  Going
\* on to the next byte the code subtracts new_bit - 8 from m_Size, so m_Size
\* may grow; it is never smaller than what is left.
CursorRound(s) ==
  LET c       == s.cursor
      full    == c.m_Bit = ByteBits
      byte    == IF full THEN c.m_Byte + 1 ELSE c.m_Byte
      at      == IF full THEN 0 ELSE c.m_Bit
      new_bit == SmallerOf(ByteBits, at + s.num_bits)
  IN  IF s.num_bits <= 0 \/ s.threw THEN s
      ELSE IF s.num_bits > c.m_Size THEN [s EXCEPT !.threw = TRUE]
      ELSE [buffer   |-> [s.buffer EXCEPT ![byte] = Splice(@, at, new_bit - at, s.val)],
            cursor   |-> [c EXCEPT !.m_Byte = byte, !.m_Bit = new_bit, !.m_Wrote = TRUE,
                                   !.m_Size = @ - (new_bit - c.m_Bit)],
            val      |-> ShiftRight(s.val, new_bit - at),
            num_bits |-> s.num_bits - (new_bit - at),
            threw    |-> FALSE]

CursorWriteBits(buffer, c, val, num_bits) ==
  LET round[n \in 0 .. num_bits] ==
        IF n = 0
        THEN [buffer |-> buffer, cursor |-> c, val |-> val, num_bits |-> num_bits, threw |-> FALSE]
        ELSE CursorRound(round[n - 1])
  IN  round[num_bits]

\* RollBack gives up the bytes after the cursor's, but the cursor's own byte
\* keeps the bits that are taken back.
RolledBack(w, c) ==
  [m_Buffer |-> SubSeq(w.m_Buffer, 1, c.m_Byte), m_Bit |-> c.m_Bit, m_TotalBits |-> c.m_TotalBits]

------------------------------------------------------------------------------
(***************************************************************************)
(* The reader: m_Offset bytes have been left behind, m_NumBytes are ahead. *)
(***************************************************************************)
NoReader == [m_Buffer |-> << >>, m_Offset |-> 0, m_NumBytes |-> 0, m_Bit |-> 0]

ReaderOf(m_Buffer) ==
  [m_Buffer |-> m_Buffer, m_Offset |-> 0, m_NumBytes |-> Len(m_Buffer), m_Bit |-> 0]

\* The word path looks at the byte after the word even when that byte is not
\* there; with m_Bit = 0 it is masked off, and otherwise the read asks for
\* more than is left and its value is not used.
ByteAt(r, i) == IF r.m_Offset + i \in DOMAIN r.m_Buffer THEN r.m_Buffer[r.m_Offset + i] ELSE {}
BytesAt(r, n) == BytesValue([i \in 1 .. n |-> ByteAt(r, i)])

Advanced(r, bytes, bit) ==
  [r EXCEPT !.m_Offset = @ + bytes, !.m_NumBytes = @ - bytes, !.m_Bit = bit]

\* num_bits == 64 && m_NumBytes >= 8
WordAt(r) ==
  ShiftRight(BytesAt(r, WordBytes), r.m_Bit)
    \cup Low(ShiftLeft(Low(ByteAt(r, WordBytes + 1), r.m_Bit), WordBits - r.m_Bit), WordBits)

\* ReadBitsInternal: "shift" bits are there, num_bits are to come.  A throw
\* is "NetBitReader requested too much data".
ReadRound(s) ==
  LET r         == s.reader
      val       == ShiftRight(ByteAt(r, 1), r.m_Bit)
      read_bits == ByteBits - r.m_Bit
      Got(next, bits, n) ==
        [reader |-> next, val |-> s.val \cup ShiftLeft(bits, s.shift), shift |-> s.shift + n,
         num_bits |-> s.num_bits - n, threw |-> FALSE]
  IN  IF s.num_bits <= 0 \/ s.threw THEN s
      ELSE IF s.num_bits = WordBits /\ r.m_NumBytes >= WordBytes
      THEN Got(Advanced(r, WordBytes, r.m_Bit), WordAt(r), WordBits)
      ELSE IF r.m_NumBytes <= 0 THEN [s EXCEPT !.threw = TRUE]
      ELSE IF r.m_Bit + s.num_bits >= ByteBits
      THEN Got(Advanced(r, 1, 0), Low(val, s.num_bits), read_bits)
      ELSE Got(Advanced(r, 0, r.m_Bit + s.num_bits), Low(val, s.num_bits), s.num_bits)

\* ReadUBits; m_TotalBits of the reader is never looked at.
ReadUBits(r, num_bits) ==
  LET round[n \in 0 .. num_bits] ==
        IF n = 0 THEN [reader |-> r, val |-> {}, shift |-> 0, num_bits |-> num_bits, threw |-> FALSE]
        ELSE ReadRound(round[n - 1])
  IN  round[num_bits]

\* SignExtend for fewer bits than a word; the result is taken as an int64_t.
SignExtend(val, bits) == IF bits - 1 \in val THEN val \cup bits .. WordBits - 1 ELSE val

ReadSBits(r, num_bits) ==
  LET o == ReadUBits(r, num_bits)
  IN  [o EXCEPT !.val = SignExtend(@, num_bits)]

\* NetBitReader::ReadBuffer: whole words, then bytes, into one number here.
ReadBytesRound(s) ==
  LET n == IF s.num_bytes >= WordBytes THEN WordBytes ELSE 1
      o == ReadUBits(s.reader, n * ByteBits)
  IN  IF s.num_bytes = 0 \/ s.threw THEN s
      ELSE [reader |-> o.reader, val |-> s.val \cup ShiftLeft(o.val, s.shift),
            shift |-> s.shift + n * ByteBits, num_bytes |-> s.num_bytes - n, threw |-> o.threw]

ReadBytes(r, num_bytes) ==
  LET round[n \in 0 .. num_bytes] ==
        IF n = 0 THEN [reader |-> r, val |-> {}, shift |-> 0, num_bytes |-> num_bytes, threw |-> FALSE]
        ELSE ReadBytesRound(round[n - 1])
  IN  round[num_bytes]

\* Faulty variant: bytes are copied wherever the reader stands in its byte.
ReadBufferAnywhere(r, num_bytes) ==
  IF r.m_NumBytes >= num_bytes
  THEN [reader |-> Advanced(r, num_bytes, r.m_Bit), val |-> BytesAt(r, num_bytes), threw |-> FALSE]
  ELSE ReadBytes(r, num_bytes)

ReadBuffer(r, num_bytes) ==
  IF r.m_Bit = 0 /\ r.m_NumBytes >= num_bytes
  THEN [reader |-> Advanced(r, num_bytes, 0), val |-> BytesAt(r, num_bytes), threw |-> FALSE]
  ELSE ReadBytes(r, num_bytes)

\* Faulty variant: only a reader that has left every byte behind is empty.
IsEmptyExactly(r) == r.m_NumBytes <= 0

\* The last byte may hold padding, so a reader inside it counts as empty.
IsEmpty(r) == r.m_NumBytes <= 1

------------------------------------------------------------------------------
(***************************************************************************)
(* NetReflectionBitBuffer: a packet inside a packet.  It is written as its *)
(* number of bits, its words, its bytes and what is left of the last byte, *)
(* and read back the same way into a writer of its own.                    *)
(***************************************************************************)
\* Faulty variant: what is left after the words goes as one field.
ChunkBitsOfWords(bits) == IF bits >= WordBits THEN WordBits ELSE bits

ChunkBits(bits) ==
  IF bits >= WordBits THEN WordBits ELSE IF bits >= ByteBits THEN ByteBits ELSE bits

CopyOutRound(s) ==
  LET n     == ChunkBits(s.bits)
      bytes == IF n = WordBits THEN WordBytes ELSE 1
  IN  IF s.bits = 0 THEN s
      ELSE [writer |-> WriteBits(s.writer, BytesValue(SubSeq(s.data, 1, bytes)), n),
            data   |-> SubSeq(s.data, bytes + 1, Len(s.data)),
            bits   |-> s.bits - n]

\* The bit buffer "from" goes into the packet "to", behind what that holds.
SerializeBitBuffer(to, from) ==
  LET round[n \in 0 .. from.m_TotalBits] ==
        IF n = 0
        THEN [writer |-> WriteBits(to, Word(from.m_TotalBits), LengthBits),
              data |-> from.m_Buffer, bits |-> from.m_TotalBits]
        ELSE CopyOutRound(round[n - 1])
  IN  round[from.m_TotalBits].writer

CopyInRound(s) ==
  LET n == ChunkBits(s.bits)
      o == ReadUBits(s.reader, n)
  IN  IF s.bits = 0 THEN s
      ELSE [reader |-> o.reader, writer |-> WriteBits(s.writer, o.val, n), bits |-> s.bits - n]

DeserializeBitBuffer(r) ==
  LET o    == ReadUBits(r, LengthBits)
      bits == NumberOf(o.val)
      round[n \in 0 .. bits] ==
        IF n = 0 THEN [reader |-> o.reader, writer |-> EmptyWriter, bits |-> bits]
        ELSE CopyInRound(round[n - 1])
  IN  round[bits].writer

------------------------------------------------------------------------------
(***************************************************************************)
(* The steps.  A caller keeps to what it reserved, and rolls back to a     *)
(* cursor only if it has not written through it; the cursors taken since   *)
(* then are gone.                                                          *)
(***************************************************************************)
StreamInit ==
  /\ writer = EmptyWriter
  /\ cursors = << >>
  /\ reader = NoReader
  /\ want = [length |-> 0, ones |-> {}]
  /\ pos = 0
  /\ last = [got |-> {}, wanted |-> {}, past |-> FALSE, threw |-> FALSE]
  /\ uncounted = FALSE

Writing == reader = NoReader

Written(bits, num_bits) ==
  /\ Writing
  /\ want.length + num_bits <= MaxBits
  /\ want' = [length |-> want.length + num_bits,
              ones   |-> want.ones \cup ShiftLeft(Low(bits, num_bits), want.length)]
  /\ UNCHANGED <<reader, pos>>

\* Every unsigned field is GetRequiredBits of its bound wide.  A _DEBUG build
\* throws when the value does not fit.
WriteField ==
  \E max \in 0 .. MaxValue : \E val \in 0 .. max :
    LET num_bits == GetRequiredBits(max)
    IN  /\ Written(Word(val), num_bits)
        /\ writer' = WriteBits(writer, Word(val), num_bits)
        /\ last' = [last EXCEPT !.threw = val >= 2 ^ num_bits]
        /\ UNCHANGED <<cursors, uncounted>>

\* An int64_t that num_bits bits can hold: above them is its sign.
Signed(bits, num_bits) == {i \in 0 .. WordBits - 1 : SmallerOf(i, num_bits - 1) \in bits}

\* WriteSBits, in a build without _DEBUG: the value goes in as a uint64_t.
WriteSigned ==
  \E num_bits \in 1 .. WordBits - 1 : \E bits \in SUBSET (0 .. num_bits - 1) :
    /\ Written(bits, num_bits)
    /\ writer' = WriteBits(writer, Signed(bits, num_bits), num_bits)
    /\ UNCHANGED <<cursors, last, uncounted>>

WriteData ==
  \E n \in 1 .. MaxBits \div ByteBits : \E data \in [1 .. n -> Patterns] :
    /\ Written(BytesValue(data), n * ByteBits)
    /\ writer' = WriteBuffer(writer, data)
    /\ uncounted' = (uncounted \/ CopiesBytes(writer, data))
    /\ UNCHANGED <<cursors, last>>

Reserve ==
  \E num_bits \in 0 .. GetRequiredBits(MaxValue) + 1 :
    /\ Len(cursors) < MaxCursors
    /\ Written({}, num_bits)
    /\ cursors' = Append(cursors, Cursor(writer, num_bits))
    /\ writer' = WriteBits(writer, {}, num_bits)
    /\ UNCHANGED <<last, uncounted>>

Fill ==
  \E k \in DOMAIN cursors :
    \E num_bits \in 1 .. cursors[k].end - cursors[k].next : \E val \in SUBSET (0 .. num_bits - 1) :
    LET c == cursors[k]
        o == CursorWriteBits(writer.m_Buffer, c, val, num_bits)
    IN  /\ Writing
        /\ writer' = [writer EXCEPT !.m_Buffer = o.buffer]
        /\ cursors' = [cursors EXCEPT ![k] = [o.cursor EXCEPT !.next = @ + num_bits]]
        /\ want' = [want EXCEPT !.ones = Splice(@, c.next, num_bits, val)]
        /\ last' = [last EXCEPT !.threw = o.threw]
        /\ UNCHANGED <<reader, pos, uncounted>>

RollBack ==
  \E k \in DOMAIN cursors :
    /\ Writing
    /\ ~cursors[k].m_Wrote
    /\ writer' = RolledBack(writer, cursors[k])
    /\ cursors' = SubSeq(cursors, 1, k - 1)
    /\ want' = [length |-> cursors[k].start, ones |-> Low(want.ones, cursors[k].start)]
    /\ UNCHANGED <<reader, pos, last, uncounted>>

\* NetBitReaderVector's constructor takes the buffer and resets the writer.
Finish ==
  /\ Writing
  /\ want.length # 0
  /\ reader' = ReaderOf(writer.m_Buffer)
  /\ writer' = EmptyWriter
  /\ cursors' = << >>
  /\ UNCHANGED <<want, pos, last, uncounted>>

\* A read of n bits with outcome o; nothing is read after the end was passed.
Took(n, o, wanted) ==
  /\ ~Writing
  /\ ~last.past
  /\ reader' = o.reader
  /\ pos' = pos + n
  /\ last' = IF pos + n > want.length
             THEN [got |-> {}, wanted |-> {}, past |-> TRUE, threw |-> FALSE]
             ELSE [got |-> o.val, wanted |-> wanted, past |-> FALSE, threw |-> o.threw]
  /\ UNCHANGED <<writer, cursors, want, uncounted>>

Coming(n) == Low(ShiftRight(want.ones, pos), n)

ReadField == \E n \in 1 .. WordBits : Took(n, ReadUBits(reader, n), Coming(n))

ReadSigned ==
  \E n \in 1 .. WordBits - 1 : Took(n, ReadSBits(reader, n), Signed(Coming(n), n))

ReadData ==
  \E n \in 1 .. MaxBits \div ByteBits :
    Took(n * ByteBits, ReadBuffer(reader, n), Coming(n * ByteBits))

StreamNext ==
  \/ WriteField \/ WriteSigned \/ WriteData \/ Reserve \/ Fill \/ RollBack
  \/ Finish \/ ReadField \/ ReadSigned \/ ReadData

StreamSpec == StreamInit /\ [][StreamNext]_streamVars

------------------------------------------------------------------------------
(***************************************************************************)
(* Properties.                                                             *)
(***************************************************************************)
\* The writer holds n bits, of which "ones" are 1, and no byte too many.
Holds(w, n, ones) ==
  /\ w.m_Bit \in 1 .. ByteBits
  /\ n = (Len(w.m_Buffer) - 1) * ByteBits + w.m_Bit
  /\ Low(BytesValue(w.m_Buffer), n) = ones

(***************************************************************************)
(* The buffer holds the bits that were written, at the places where they   *)
(* were written, and no byte more: what a RollBack took back and what a    *)
(* negative value left above its field never shows, and a cursor writes    *)
(* into its own reservation only.                                          *)
(***************************************************************************)
StreamExact == Writing => Holds(writer, want.length, want.ones)

(***************************************************************************)
(* A packet is read as it was written, however the reads are cut: fields   *)
(* across bytes, whole words at any offset, signed values and buffers.     *)
(***************************************************************************)
ReadsBack == last.got = last.wanted

(***************************************************************************)
(* Nobody who keeps to the bounds of the fields, to what was reserved and  *)
(* to what was written meets an exception: not "Not enough bits to contain *)
(* the entire value", not "NetBitWriterCursor overflow" and not            *)
(* "NetBitReader requested too much data".                                 *)
(***************************************************************************)
NeverThrows == ~last.threw

(***************************************************************************)
(* A reader that has taken everything is empty, so that a packet read to   *)
(* its end passes the check "Not all data from packet was consumed"; an    *)
(* empty reader has at most one byte's worth of bits left.                 *)
(***************************************************************************)
EmptyAtEnd ==
  ~Writing /\ ~last.past =>
    /\ pos = want.length => IsEmpty(reader)
    /\ IsEmpty(reader) => want.length - pos <= ByteBits

(***************************************************************************)
(* A bit buffer sent inside a packet arrives as it was, its number of bits *)
(* included, wherever in a byte of the packet it begins, unless            *)
(* WriteBuffer copied bytes into it or its length does not fit the length  *)
(* field.                                                                  *)
(***************************************************************************)
BitBufferCopied ==
  Writing /\ ~uncounted /\ want.length < 2 ^ LengthBits =>
    \A n \in 0 .. ByteBits - 1 :
      LET packet == SerializeBitBuffer(WriteBits(EmptyWriter, 0 .. n - 1, n), writer)
          copy   == DeserializeBitBuffer(ReadUBits(ReaderOf(packet.m_Buffer), n).reader)
      IN  copy.m_TotalBits = want.length /\ Holds(copy, want.length, want.ones)
==============================================================================
