------------------------------- MODULE Replay --------------------------------
(***************************************************************************)
(* Replays.  NetTransmitterReplayStream is a transmitter that appends its  *)
(* packets, each behind its time and its size, to a list of blocks of one  *)
(* size, and saves them to a file; NetReplayStreamReader walks over the    *)
(* file and hands every packet to the protocol when its time has come.     *)
(*                                                                         *)
(* A byte is a record of the field it belongs to, its place in that field  *)
(* and the value of the field.  The clocks of the program are only used    *)
(* relative to the m_StartTime of either class, so the model has the time  *)
(* that has passed since then; they do not wrap around.                    *)
(***************************************************************************)
EXTENDS Integers, Sequences

CONSTANTS
  FieldBytes,  \* sizeof(uint32_t)
  kNetTransmitterBufferSize,
  Sizes,       \* the sizes of the packets
  MaxPackets,  \* bound: packets of a recording
  MaxTime,     \* bound: the clocks
  MaxLoads,    \* bound: calls of LoadCursor
  None         \* no reader, no cursor

ASSUME ReplayAssumption ==
  /\ {FieldBytes, kNetTransmitterBufferSize, MaxPackets} \subseteq Nat \ {0}
  /\ Sizes \subseteq Nat \ {0}
  /\ {MaxTime, MaxLoads} \subseteq Nat

Seqs == INSTANCE SequencesExt

INT_MAX == MaxTime + 1   \* later than any time a reader sees

PacketType == [time : 0 .. MaxTime, size : Sizes, id : Nat]

Byte == [kind : {"time", "size", "data", "junk"}, i : Nat, value : Nat]

ReaderType ==
  [file : Seq(Byte), pos : Nat, m_RemainingSize : Nat, m_NextPacketSize : Nat,
   m_NextPacketTime : 0 .. INT_MAX, time : 0 .. MaxTime, astray : BOOLEAN]

CursorType == [time : 0 .. MaxTime, size : Nat, next : 0 .. INT_MAX, pos : Nat]

ASSUME NoneAssumption == None \notin ReaderType /\ None \notin CursorType

VARIABLES
  blocks,    \* what has been written to each block
  elapsed,   \* m_TimeCallback() - m_StartTime
  recorded,  \* history: the packets since the last Clear
  reader,    \* the fields of the reader; None before it is opened
  cursor,    \* what GetCursor has returned last, and the position then
  played,    \* history: the packets the protocol has got
  loads,     \* calls of LoadCursor
  threw      \* history: the protocol has thrown in the middle of Update

vars == <<blocks, elapsed, recorded, reader, cursor, played, loads, threw>>

------------------------------------------------------------------------------
(***************************************************************************)
(* The recorder.                                                           *)
(***************************************************************************)
Field(kind, value, n) == [i \in 1 .. n |-> [kind |-> kind, i |-> i, value |-> value]]

Bytes(p) ==
  Field("time", p.time, FieldBytes) \o Field("size", p.size, FieldBytes)
    \o Field("data", p.id, p.size)

Init ==
  /\ blocks = << << >> >>
  /\ elapsed = 0
  /\ recorded = << >>
  /\ reader = None
  /\ cursor = None
  /\ played = << >>
  /\ loads = 0
  /\ threw = FALSE

\* Faulty variant: what does not fit into a block goes into the next.
WriteDataWhole(bs, data) ==
  IF kNetTransmitterBufferSize - Len(bs[Len(bs)]) >= Len(data)
  THEN [bs EXCEPT ![Len(bs)] = @ \o data]
  ELSE Append(bs, data)

\* One round of the loop of WriteData: bs are the blocks, data what is left.
\* m_CurrentBlock is the last block and m_CurrentOffset its length.
Copied(w) ==
  LET last == Len(w.bs)
      size == Len(w.data)
      space_avail == kNetTransmitterBufferSize - Len(w.bs[last])
      Filled(n) == [w.bs EXCEPT ![last] = @ \o SubSeq(w.data, 1, n)]
  IN  IF space_avail >= size THEN [bs |-> Filled(size), data |-> << >>]
      ELSE [bs   |-> Append(Filled(space_avail), << >>),
            data |-> SubSeq(w.data, space_avail + 1, size)]

\* The first round may only open a block; every other one copies a byte.
WriteData(bs, data) ==
  LET round[n \in 0 .. Len(data) + 1] ==
        IF n = 0 THEN [bs |-> bs, data |-> data] ELSE Copied(round[n - 1])
  IN  round[Len(data) + 1].bs

Recording == reader = None

\* A field is written by a call of WriteData of its own.
SendWriter ==
  /\ Recording /\ Len(recorded) < MaxPackets
  /\ \E size \in Sizes :
       LET p == [time |-> elapsed, size |-> size, id |-> Len(recorded) + 1]
       IN  /\ blocks' = WriteData(WriteData(WriteData(blocks,
                                                      Field("time", p.time, FieldBytes)),
                                            Field("size", p.size, FieldBytes)),
                                  Field("data", p.id, p.size))
           /\ recorded' = Append(recorded, p)
  /\ UNCHANGED <<elapsed, reader, cursor, played, loads, threw>>

Start ==
  /\ Recording
  /\ elapsed' = 0
  /\ UNCHANGED <<blocks, recorded, reader, cursor, played, loads, threw>>

Clear ==
  /\ Recording
  /\ blocks' = << << >> >>
  /\ recorded' = << >>
  /\ UNCHANGED <<elapsed, reader, cursor, played, loads, threw>>

\* The current block is written up to m_CurrentOffset, every other one whole,
\* with what malloc left in the part that was not written.
SaveToFile ==
  Seqs!FlattenSeq([i \in DOMAIN blocks |->
    IF i = Len(blocks) THEN blocks[i]
    ELSE blocks[i] \o Field("junk", 0, kNetTransmitterBufferSize - Len(blocks[i]))])

------------------------------------------------------------------------------
(***************************************************************************)
(* The reader.  Its fields and the file:                                   *)
(*   pos     how far m_Buffer has advanced                                 *)
(*   astray  it has used bytes outside the file, or a header with a        *)
(*           position it does not belong to: anything may follow           *)
(***************************************************************************)
Is(file, pos, kind, n) == \A i \in 1 .. n : file[pos + i].kind = kind /\ file[pos + i].i = i

Finished(r) == [r EXCEPT !.m_NextPacketSize = 0, !.m_NextPacketTime = INT_MAX]

\* The header at "pos", whatever the bytes there are.
HasHeader(r) ==
  /\ r.pos + 2 * FieldBytes <= Len(r.file)
  /\ Is(r.file, r.pos, "time", FieldBytes) /\ Is(r.file, r.pos + FieldBytes, "size", FieldBytes)

\* Faulty variant: the time of the packet before is kept.
WithHeaderOldTime(r) ==
  LET size == r.file[r.pos + FieldBytes + 1].value
  IN  [r EXCEPT !.pos = @ + 2 * FieldBytes, !.m_NextPacketSize = size]

WithHeader(r) ==
  LET size == r.file[r.pos + FieldBytes + 1].value
      at   == [r EXCEPT !.pos = @ + 2 * FieldBytes]
  IN  IF r.m_RemainingSize < size THEN Finished(at)
      ELSE [at EXCEPT !.m_NextPacketSize = size, !.m_NextPacketTime = r.file[r.pos + 1].value]

\* Faulty variant: what remains after the header must be more than the packet.
ReadNextPacketStrict(r) ==
  IF r.m_RemainingSize < 2 * FieldBytes THEN {Finished(r)}
  ELSE IF ~HasHeader(r) THEN {Finished(r)}
  ELSE IF Len(r.file) - r.pos - 2 * FieldBytes <= r.file[r.pos + FieldBytes + 1].value
  THEN {Finished(r)}
  ELSE {WithHeader(r)}

(***************************************************************************)
(* ReadNextPacket, as the set of its outcomes.  m_RemainingSize is never   *)
(* reduced, so after the last packet the reader takes a header from beyond *)
(* the end of the file: the size may be too large, which finishes the      *)
(* replay, or not.                                                         *)
(***************************************************************************)
ReadNextPacket(r) ==
  IF r.m_RemainingSize < 2 * FieldBytes THEN {Finished(r)}
  ELSE IF HasHeader(r) THEN {WithHeader(r)}
  ELSE {Finished([r EXCEPT !.pos = @ + 2 * FieldBytes]), [r EXCEPT !.astray = TRUE]}

Open ==
  /\ Recording
  /\ LET r == [file |-> SaveToFile, pos |-> 0, m_RemainingSize |-> Len(SaveToFile),
               m_NextPacketSize |-> 0, m_NextPacketTime |-> 0, time |-> 0, astray |-> FALSE]
     IN  reader' \in ReadNextPacket(r)
  /\ UNCHANGED <<blocks, elapsed, recorded, cursor, played, loads, threw>>

Opened == reader # None
Playing == Opened /\ ~reader.astray

\* What the protocol gets: the bytes from m_Buffer on.
Packet(r) == SubSeq(r.file, r.pos + 1, r.pos + r.m_NextPacketSize)

\* The condition of the loop of Update.
Due(r) == ~r.astray /\ r.m_NextPacketTime <= r.time

\* One round of the loop, as the set of its outcomes.  GotMessage may throw:
\* then m_Buffer has passed the packet already, and the header is not renewed.
PlayedOne(at) ==
  LET passed == [at.reader EXCEPT !.pos = @ + at.reader.m_NextPacketSize]
      got    == Append(at.played, Packet(at.reader))
  IN  IF ~Due(at.reader) THEN {at}
      ELSE {[reader |-> r, played |-> got, threw |-> at.threw] : r \in ReadNextPacket(passed)}
             \cup {[reader |-> [passed EXCEPT !.astray = TRUE], played |-> got, threw |-> TRUE]}

\* The loop.  A round that finds a header moves on in the file, so there are
\* no more rounds than the file has bytes.
Played(at) ==
  LET after[n \in 0 .. Len(at.reader.file)] ==
        IF n = 0 THEN {at} ELSE UNION {PlayedOne(x) : x \in after[n - 1]}
  IN  {x \in after[Len(at.reader.file)] : ~Due(x.reader)}

Update ==
  /\ Playing
  /\ \E at \in Played([reader |-> reader, played |-> played, threw |-> threw]) :
       reader' = at.reader /\ played' = at.played /\ threw' = at.threw
  /\ UNCHANGED <<blocks, elapsed, recorded, cursor, loads>>

SkiptToNextPacket ==
  /\ Playing
  /\ reader.m_NextPacketTime # INT_MAX
  /\ reader' = [reader EXCEPT !.time = IF @ < reader.m_NextPacketTime
                                       THEN reader.m_NextPacketTime ELSE @]
  /\ UNCHANGED <<blocks, elapsed, recorded, cursor, played, loads, threw>>

GetCursor ==
  /\ Playing
  /\ cursor' = [time |-> reader.time, size |-> reader.m_NextPacketSize,
                next |-> reader.m_NextPacketTime, pos |-> reader.pos]
  /\ UNCHANGED <<blocks, elapsed, recorded, reader, played, loads, threw>>

\* The cursor has no position: the reader stays where it is.
LoadCursor ==
  /\ Playing /\ cursor # None /\ loads < MaxLoads
  /\ reader' = [reader EXCEPT !.time = cursor.time,
                              !.m_NextPacketSize = cursor.size,
                              !.m_NextPacketTime = cursor.next,
                              !.astray = cursor.pos # reader.pos]
  /\ loads' = loads + 1
  /\ UNCHANGED <<blocks, elapsed, recorded, cursor, played, threw>>

Tick ==
  \/ /\ Recording /\ elapsed < MaxTime
     /\ elapsed' = elapsed + 1
     /\ UNCHANGED <<blocks, recorded, reader, cursor, played, loads, threw>>
  \/ /\ Playing /\ reader.time < MaxTime
     /\ reader' = [reader EXCEPT !.time = @ + 1]
     /\ UNCHANGED <<blocks, elapsed, recorded, cursor, played, loads, threw>>

Next ==
  \/ SendWriter \/ Start \/ Clear \/ Open
  \/ Update \/ SkiptToNextPacket \/ GetCursor \/ LoadCursor \/ Tick

\* The game loop calls Update in every frame, and time goes on.
Spec == Init /\ [][Next]_vars /\ WF_vars(Update) /\ WF_vars(Playing /\ Tick)

------------------------------------------------------------------------------
(***************************************************************************)
(* Properties.                                                             *)
(***************************************************************************)
TypeOK ==
  /\ blocks \in Seq(Seq(Byte))
  /\ elapsed \in 0 .. MaxTime
  /\ recorded \in Seq(PacketType)
  /\ reader \in ReaderType \cup {None}
  /\ cursor \in CursorType \cup {None}
  /\ played \in Seq(Seq(Byte))
  /\ loads \in 0 .. MaxLoads
  /\ threw \in BOOLEAN

(***************************************************************************)
(* The file is the packets that were sent since the last Clear, each       *)
(* behind its time and its size, wherever the boundaries of the blocks     *)
(* fall.                                                                   *)
(***************************************************************************)
FileExact ==
  SaveToFile = Seqs!FlattenSeq([i \in DOMAIN recorded |-> Bytes(recorded[i])])

Datas == [i \in DOMAIN recorded |-> Field("data", recorded[i].id, recorded[i].size)]

(***************************************************************************)
(* The protocol gets the recorded packets, whole and in the order in which *)
(* they were sent, also when the clock of the recording was restarted.  A  *)
(* replay that is finished has played them all; until then the header the  *)
(* reader waits with is that of the next packet, and m_Buffer is at the    *)
(* contents of that packet, however often the replay has been skipped      *)
(* ahead or a cursor has been loaded: so each is played at its own time.   *)
(***************************************************************************)
PlayedInOrder ==
  /\ Seqs!IsPrefix(played, Datas)
  /\ Playing =>
       IF reader.m_NextPacketTime = INT_MAX THEN played = Datas
       ELSE LET n == Len(played) + 1
            IN  n \in DOMAIN recorded /\ reader.m_NextPacketTime = recorded[n].time
                /\ Packet(reader) = Datas[n]

(***************************************************************************)
(* Every recorded packet is played in the end, unless a cursor or an       *)
(* exception takes the reader astray: when a packet's time has passed, a   *)
(* call of Update plays it, and time passes.                               *)
(***************************************************************************)
EverythingPlayed == Opened ~> (played = Datas \/ ((loads > 0 \/ threw) /\ reader.astray))
==============================================================================
