# StormNet in TLA+

StormNet is a C++ networking library for games. An application describes its
states and messages as reflected types; *pipes* carry them between a server and
its clients. A pipe may send whole states, deltas against a state the other end
is known to have, messages or raw buffers. All pipes of a connection share one
transmitter, one bit writer and one ENet channel. Underneath, every type is
written bit by bit with field widths that both ends compute on their own.

This directory models the parts in which two ends, or several operations, have
to agree without ever comparing notes: the delta pipes, the connection tables,
the protocol that runs several pipes over one writer, reflected structs and
their containers, polymorphic values with their type database and pools, replay
files, and the bit stream. `PROJECT.json` lists the components, runs, hazards
and theorems, and maps every definition to the lines it translates.

## Inventory

| Component | State | Operations | What makes it correct |
|---|---|---|---|
| Delta pipe (`NetPipeDeltaState.h`, `NetStateStore.h`) | ring of states at each end, last acknowledged slot, next slot | `SyncState`, `GotAck`, `GotMessage` | both ends agree on the reference of every delta, whatever is lost; the sender does not stall for ever |
| Reliable delta pipe (`NetPipeDeltaStateReliable.h`) | last state at each end | `SyncState`, `GotMessage` | every delta meets the state it was made from |
| Server (`NetServerBackendEnet.cpp`, `NetServer.h`) | transmitters and clients by connection id, `peer->data` | ENet events, `ForceDisconnect`, sending | ids are reused safely; each packet reaches its owner; ended connections are cleaned up |
| Client (`NetClientBackendEnet.cpp`, `NetClient.h`) | `m_Connected`, `m_Disconnected`, the protocol | `Update`, `Disconnect`, sending | no message without a protocol; the end of a connection is reported |
| Sparse list (`NetReflectionSparseList.h`) | slots, `m_HighestIndex` | insertions, removals, `Reserve`, `Compress`, copies, codecs | `m_HighestIndex` is exact, since field widths depend on it; deltas decode to what was sent |
| Map (`NetReflectionMap.h`) | ordered map | `Set`, `EmplaceAt`, `Remove`, `Clear`, codecs | every delta entry is written and read |
| Bit stream (`NetBitWriterVector.cpp`, `NetBitReaderBuffer.cpp`) | buffer, bit position, cursors | writes, `Reserve`, `RollBack`, reads | bits arrive as written, however reads are cut |
| Field widths (`NetBitUtil.h`) | none | `GetRequiredBits` | wide enough for every value |
| Protocol multiplexer (`NetProtocol*.h`) and transmitters (`NetTransmitter*.cpp`) | pipes by channel index, the shared writer, the queue of held-back packets | dispatch, headers, `SendWriter`, `Update`, `Clear` | each packet is read by the pipe that wrote it, each buffer freed once |
| Message pipes (`NetPipeMessage.h`, `NetPipeVariant.h`, `NetPipeBuffer.h`) | callbacks by type | sending, dispatch | the handler gets the type that was sent, and reads the packet to its end |
| Struct codecs (`NetSerialize*.h`, `NetDeserialize*.h`), array list, optional | the struct's fields | full and delta codecs, list and optional operations | the receiver's struct is the one the next delta is made from |
| Polymorphic values, pool allocator, type database | objects, free lists, class ids | constructors, `SetType`, copies, codecs, registration | class ids agree between programs; each cell has one owner |
| Replay streams (`NetTransmitterReplayStream.cpp`, `NetReplayStreamReader.h`) | blocks, file position, next header | record, save, play, skip, cursors | packets come back whole, in order, and all of them |
| Scalars, fixed point, bindings, build files | none | one field each | arithmetic only |

How they interact: an application calls a pipe; the pipe asks its transmitter
for the shared writer (`CreateMessage`), which already holds the packet header,
writes its fields and hands the writer back (`SendMessage`). ENet delivers the
packet to the peer; the backend finds the connection through `peer->data`, the
server finds the client by connection id, the protocol reads the header and
calls the receiver, which calls the application. Everything runs in the thread
that calls `Update`; what is concurrent is the network and the other end.

Hard to test: acknowledgements that arrive late or not at all while the ring
wraps; an early return that leaves a header in the shared writer; connection
ids reused while events of older connections are queued; disconnects from both
ends at once; containers of different history at the two ends; fields at the
limit of their width; rollbacks inside rollbacks; static initialisers in an
order the linker chooses; memory that wanders between pools; packets cut by the
end of a block. `PROJECT.json` lists each at its line.

## Modules

**Delta pipe.** `DeltaState` has the sender's ring (`sendStore`,
`m_LastAckedState`, `m_NextStateSlot`), the receiver's (`recvStore`), the
packets on the way in both directions and the number of headers `SyncState` has
left in the writer. `SyncStateSent` and `SyncStateRefused` are the two ways
through `SyncState`; `GotMessage` has every way through the receiver, including
a read of the wrong widths and a null pointer, and `GotMessageThrew` is the
reader's exception. A delta is the pair (from, to): it reproduces `to` on `from`
and, being empty, leaves any base alone when the two are equal. `Mode` decides
which packets may be lost or overtaken; acknowledgements always go
`kUnreliableSequenced`. `StateChannel` is the abstract specification, a queue
of whole states; `DeltaState` instantiates it with the states of the messages
on the way and is `Broken` once a packet with two headers was sent, or a
message was missed after the ring overran unacknowledged slots.

**Connections.** `Connection` composes server, clients and ENet: the tables
`m_Transmitters`, `peerData` and `m_Clients`, the client's flags, and ENet's
link state and event queues per connection (external, modelled from its use).
`ServerUpdate` and `ClientUpdate` handle one event as the `Update` loops do.
A second connection attempt of the same client is another element of `Client`.

**Protocol.** `Protocol` has the pipes of both directions on one connection,
down to the bits of each packet, so that a packet with a header too many is
read as the code would read it. `SendMessage`, `SyncState` and `Abandon` (a
call that leaves after `CreateMessage`) fill the writer of an end; `Deliver` is
the whole way of a packet through `GotMessage`, the pipe's receiver, the
acknowledgement it sends and the check for unread data. The transmitter is one
of four: ENet with or without the queue that simulates lag (`Update` sends its
front, `Disconnect` clears it), memory, or null. Memory pops a packet only after
it was handled, so one that throws stays in front of the others. A payload is a number of a few
bits; what a delta decodes to is the business of `DeltaState`.

**Reflected state.** `ReliablePipe` is the reliable delta pipe with the codec as
operator parameters. `SparseList`, `NetMap` and `NetArrayList` give the
containers as values, their operations as operators and their codecs, field
widths and cut-off counts included. `WalkRound` is a turn of the loops that walk
over two maps at once to write a delta. Two modules compose them with the pipe: in
`SparseListSync` an application changes one sparse list by every operation of
the class and sends it now and then; in `StructSync` it changes a struct of a
map, an array list, an optional and an array, one or several fields between two
calls of `SyncState`, and the codecs of struct, array and optional are there.
`SortedSet` is the order in which maps and lists are walked. The receiver keeps
what it decoded. `Apps` says how much of the struct an application uses. History
variables: `compressed` (`Compress` has moved an element) and `rewritten` (a
valid optional was sent with another value than before).

**Polymorphic values.** `TypeDatabase` has registration and numbering of
classes as operators, `PoolAllocator` the pools. `Polymorphic` composes them: two
programs start up, each running its static initialisers in an order of its own
(`Register`, `ChooseDefault`, `FirstUse`); then one of them constructs, copies,
converts and destroys values (`Construct`, `ConstructFrom`, `Assign`, `SetType`,
`Modify`, `Destroy`) while another of its values follows an object of the peer
through `GotState`, as a full state first and then as deltas. `mixed` is the
history of an object being put into memory that is not its pool's.

**Replays.** `Replay` has the recorder (`SendWriter`, `Start`, `Clear`), the file
it saves and the reader (`Open`, `Update`, `SkiptToNextPacket`, `GetCursor`,
`LoadCursor`). A byte is a record of the field it belongs to, so a misplaced
read is visible. A reader that has used bytes outside the file, or a header
that does not belong to its position, is `astray`: the model says no more of it.
The protocol may throw in the middle of `Update` (`threw`): then `m_Buffer` has
passed the packet whose header is still there, and the reader is astray.
The loops of `WriteData` and `Update` are functions of the number of rounds
(`Copied` and `PlayedOne` are one round), up to more rounds than either needs.

**Bit stream.** `BitStream` models writer, cursors and reader. A byte or a word
is the set of the positions of its bits that are 1, so that shifts, masks and
ors are shifts, restrictions and unions of sets. The literals 8, 8, 64 and 16
(bits per byte, bytes per word, bytes from which `WriteBuffer` copies, bits of
the length of a bit buffer) are constants, so that a small instance meets every
branch. A function that calls itself for what is left, and a loop, is a round
(`WriteRound`, `CursorRound`, `ReadRound`, ...) and a recursive function of the
number of rounds. `SerializeBitBuffer` and `DeserializeBitBuffer` copy a bit buffer
into a packet at any bit and out of it. The history variable `want` is the length of the stream and
the positions of its ones; `uncounted` says that `WriteBuffer` has copied bytes
without counting them in `m_TotalBits`.
`BitUtil` has `GetRequiredBits` through the stages of `ClzHelper`; every other
module with field widths takes them from it.

**Invariants and proofs.** `BitStreamInv`, `DeltaStateInv`, `ConnectionInv`,
`PolymorphicInv`, `ProtocolInv`, `ReplayInv`, `SparseListInv` and `StructInv`
extend a component's module by its inductive invariant; the modules named
`...Proofs` hold the theorems, `TransportProofs` those of `Connection` and of
`BitStream`, the two parts that carry the data of all others. An `MC` module
extends the invariant's module, so that TLC evaluates it, and the assumptions on
the constants, with the run.

A definition headed "Faulty variant" is not part of the model; it is a plausible
mistake that a property is shown to catch.

## Runs

| Run | Bounds | Result |
|---|---|---|
| `delta_sequenced` | ring of 3, three states, 3 packets in flight each way, 2 losses | exact delivery, agreed references, no null dereference, `StallNeedsLoss`, and the inductive invariant `PipeInv` |
| `delta_channel` | ring of 3, two states, 2 in flight, 1 loss, 1 refused call | refines `StateChannel`; `WindowReopens` under fairness |
| `delta_overrun` | 3 in flight, 2 losses | **violation**: the ring overruns before the first acknowledgement |
| `connection_safe` | 3 clients, 2 ids, 2 packets queued | tables agree, nothing misrouted, no null pointer |
| `connection_ends` | 2 clients, 1 id | the server forgets ended connections; a client that disconnects is told |
| `sparse_list_sync` | 3 indices, 2 elements, `Reserve` up to 2 | bounds always; exact indices, deltas, equality until `Compress` moves an element |
| `sparse_list_compress` | the same | **violation**: after `Compress` a delta is misread |
| `struct_sync` | map of 3 keys, list of 3, optional, array; three applications | what is shown is what was sent, with the two exceptions the code makes; full states are exact onto any default |
| `protocol` | four pipes one way and two the other, five kinds; 2 packets on the way, 1 abandoned call | packets reach the pipe that wrote them; only garbled ones fail; callbacks read to the end; buffers have one owner |
| `polymorphic` | 4 classes, one abstract, pools of 2 cells per block, 2 variables | class ids agree, the default and the casts are right, cells and pool counts, type hashes, the replica follows |
| `replay` | 3 packets of 1 or 3 bytes, fields of 2, blocks of 5, 2 ticks, 1 cursor load | the file is exact, playback whole and in order, and everything is played |
| `bit_stream` | 7 bits in bytes of 3, words of 2 bytes, lengths of 3 bits, 2 cursors | bits and reads are exact, no exception, bit buffers copy at every offset in a byte |

Why these bounds: a ring of three is the smallest in which a slot can be free, in
use and acknowledged at the same time, and three packets in flight wrap it; two
losses are what a ring of three needs to stall (`DataStoreSize - 1`), so
`delta_channel` allows one. Three clients on two ids give reuse of either id
while the other is in use, and a client that ENet refuses. Three indices give a
list with a hole below its highest element and two growths; three keys give
deltas with an addition, a change and a removal in any order. Of the three
applications of `struct_sync`, one uses the whole map, one the whole list with
the optional, and one a little of every field, so that all four change between
two calls and the number of changed fields takes its largest value. The protocol
has widths of two bits in one direction and one in the other, types that do and
do not fill their field, pipes with and without a callback, and ENet with lag,
memory and null as transmitters (ENet without lag only sends a held-back packet
at once). Two cells per block let a pool grow and hand out a cell that it already has. Blocks of five
bytes cut the time, the size and the contents of a packet in turn, and are
filled to the last byte. Seven bits in
three-bit bytes give fields across two and three bytes and a word read at an
offset. Symmetry is used for states, clients and elements in runs of safety
properties only. `MaxInFlight`, `MaxLost`, `MaxAbandoned`, `MaxQueued`,
`MaxReserve`, `MaxBuffer`, `MaxBits`, `MaxValue`, `MaxCursors`, `MaxCells`,
`MaxDrift`, `MaxPackets`, `MaxTime` and `MaxLoads` are bounds of the model; the
library has none.

Every configuration turns the deadlock check off: an application may stop
sending, connections may all be over, and the bounds on losses end behaviours.

**Fairness.** `DeltaState` assumes that a packet on the way is eventually
handled (`Deliver`, `GotAck`), `Connection` that both ends keep handling events
and that ENet completes a disconnect once begun: both programs call `Update`
every frame, and ENet acknowledges a disconnect or times it out. `Replay` assumes
that the game loop calls `Update` and that time passes. Nothing is
assumed of sending, of losses, or of an application's decision to connect or
disconnect. `WindowReopens` needs fewer losses than a stall costs; with more the
code really does stall, since nothing is ever resent.

## Findings

1. `delta_overrun`: the guard on the ring does not hold while nothing has been
   acknowledged (`NetPipeDeltaState.h:51`).
2. `sparse_list_compress`: `Compress` does not lower `m_HighestIndex`
   (`NetReflectionSparseList.h:301`), from which the next delta takes its widths.

Behaviour of the code that a passing run has to allow for, in the exceptions its
properties make or in the outcomes the model has:

- A call that gives up after `CreateMessage` leaves its header in the shared
  writer, so the next packet of any pipe has two: `SyncState` on a full ring
  (`NetPipeDeltaState.h:53`) and a variant pipe given a type that it does not
  have (`NetPipeVariant.h:63`). `Broken` in `DeltaState`, `clean` in `Protocol`.
- `NetTransmitterEnet::Clear` frees the buffer at the back of its queue and pops
  the packet at the front (`NetTransmitterEnet.cpp:79`); `doubleFree`.
- The type of a variant message is not compared with the number of types
  (`NetPipeVariant.h:211`).
- `NetOptional` has no `operator ==`, so deltas compare whether two optionals are
  valid and never send a new value of one that stays valid
  (`NetSerializeDelta.h:54`). An optional assigned to itself is cleared.
- Static fields are left out of full states but not out of deltas
  (`NetSerialize.h:48`).
- A map's delta may have more entries than `MaxSize`, whose width its count has
  (`NetReflectionMap.h:240`), when keys may be `MaxSize` or more; `struct_sync`
  keeps below, as an application must.
- `NetArrayList::EmplaceAt` overwrites the element at its index instead of
  moving it.
- `NetPolymorphic::SetType` destroys the old object through the new type's pool
  (`NetReflectionPolymorphic.h:129`), whose `m_Allocated` becomes -1 if it had
  given no object, against the assertion of `NetPoolAllocator.h:68`; the
  constructors from an object use `new` and later give that memory to a pool, with
  the same effect. `mixed`. A default constructed value has the base class's `m_TypeHash` (line
  28). A value assigned to itself loses its contents.
- The reader of a replay never reduces `m_RemainingSize` and reads a header from
  beyond the file after the last packet (`NetReplayStreamReader.h:110`), a
  cursor has no position (line 86), and an exception out of `GotMessage` leaves
  the header behind the position (line 45); `astray`.
- A packet that throws out of `GotMessage` stays at the front of the queue of a
  memory transmitter (`NetTransmitterMemory.h:25`).

Seen while modelling, outside what the runs reach: the client backend calls
`ConnectionFailed` where `Disconnected` is meant and the other way round
(`NetClientBackendEnet.cpp:62`; the names are in `NetClientInterface.h`); the
reference field of the delta pipe is written one bit narrower than it is read
when `DataStoreSize` is a power of two (`NetPipeDeltaState.h:60` and `:141`; the
model has both widths, and `DataStoreSize = 4` refutes `EveryStateDecodes` at
once); `m_LastSyncedState` is the caller's own `shared_ptr`
(`NetPipeDeltaStateReliable.h:45`); `WriteBuffer`'s copying branch leaves
`m_TotalBits` behind; a cursor's overflow check is too lenient
(`NetBitWriterVector.cpp:83`); `ReadSBits` of 64 bits shifts by the width of its
type (`NetBitReader.cpp:9`).

## Proofs

TLAPS proves, for every value of the constants:

- `DeltaStateProofs`: `TypeCorrect`, and `ReferencesFilled`: in every mode the
  receiver never dereferences an empty slot, unless a packet with two headers
  was sent. The invariant is `FilledInv`: every slot named by a message, an
  acknowledgement or `m_LastAckedState` is filled at the end that will look it
  up; slots are never emptied. Then `PipeInvariant`, `DeliveryExact`,
  `ReferencesAgree` and `StallsOnlyByLoss` for ordered pipes. `DeliveredAsSent` is not inductive: whether a delta decodes
  depends on slots that other messages will have filled by then. `PipeInv` adds
  two accounts of that. `WindowInv` holds as long as the ring has not overrun:
  acknowledgements and messages lie in ring order between the acknowledged slot
  and the next one, so no message fills a slot that a later one refers to, and
  the acknowledged slot agrees at both ends whatever is lost in between.
  `LosslessInv` holds as long as no message was missed, overrun or not: what
  the receiver will hold after the messages on the way is what the sender
  holds. One of the two always applies to a pipe that is not `Broken`.
  `StallNeedsLoss` rests on the third part, `GapsAccounted`: the rank of the
  next slot behind the one a message, an acknowledgement or `m_LastAckedState`
  names is at most the number of packets on the way behind that one plus the
  number of losses. It needs the order: where packets may overtake each other,
  an old acknowledgement that arrives last moves `m_LastAckedState` back.
  `PipeImplementsChannel` is the refinement of `StateChannel` step by step, from
  `PipeInv`.
- `TransportProofs`, connections: `ConnectionTypeCorrect`, `ConnectionInvariant`,
  `TablesAgree`, `PacketsReachTheirOwner` and `HandlersFindTheirEntries`. The
  tables alone are not inductive, because a queued event will change them:
  `ConnectionSafe` adds the shape of each queue (CONNECT first and only for a
  peer without a transmitter, DISCONNECT last and only once) and that ENet has
  at most `MaxConnections` peers in use. That `Allocate` finds a free id is a
  counting argument: ids in use inject into peers in use other than the one
  connecting.
- `TransportProofs`, bits: `StreamInvariant`, `BufferIsExact`,
  `ReadsReturnWrites`, `StreamNeverThrows`, `EndIsEmpty` and `BuffersArrive`, for
  bytes and words of any size and packets of any length. What the properties
  say of the buffer is not inductive: a cursor writes into the middle of the
  packet, and a rollback leaves bits behind. `StreamInv` says that writer,
  cursors and reader each stand at a bit of the stream (`Place`, `Stands`,
  `Taken`), that reservations lie one behind the other, and that every bit
  before the end of the packet is the one that is wanted there; of the bits
  behind it in the last byte it says nothing, which is why the mask of the next
  write matters. A cursor's `m_Size` is only ever too large (`c.end - c.next <=
  c.m_Size`), so the overflow check refuses no legal write. Each round is shown
  to keep a relation between what is done and what is left (`WriteRoundProps`,
  and its like for cursors, readers and bit buffers) and to leave less, so that
  as many rounds as there are bits are enough. That a field is wide enough is
  `GetRequiredBits` once more.
- `PolymorphicProofs`: `IdsAgreeAlways`, `FinalizedRightAlways`,
  `CellsAccountedForAlways`, `PoolsBalancedAlways`, `TypeHashExactAlways` and
  `ReplicaFollowsAlways`, for every number of classes, values and cells.
  `PolymorphicInv` says, for each program, what its initialisers have done so
  far: the list holds the classes registered, and once it is finalized the
  numbered classes are the concrete ones in the order of their names, which does
  not depend on the order of the initialisers. For the memory it says that the
  free lists have no repetition within or between them and hold exactly the
  cells no value points to, and, until an object has wandered (`mixed`), that
  each free cell is on the list of its own pool; the counters are a consequence
  of that one. That `InheritsFrom` is exact is an induction along the chain of
  parents.
- `ProtocolProofs`: `TypeOKAlways`, `BuffersOwnedAlways`,
  `HandledAsWrittenAlways`, `CallbacksConsumeAllAlways` and
  `OnlyGarbledFailAlways`, for any pipes at the two ends and any number of
  packets on the way. `ProtocolInv` says what the bits of a packet are: those of
  header and fields that its writer meant, padded, or, after an early return,
  a sequence that begins with a message's header. Moreover a delta refers only
  to slots that its receiver has filled, and an acknowledgement names one its
  sender has, so both stay decodable while packets are delayed, lost or
  overtaken. The readers are then followed field by field through `BitsOf`.
- `SparseListProofs`: `ListsInBoundsAlways`, `ListsWellFormedAlways`,
  `ShownUncompressedAlways`, `EqualityExactAlways` and
  `FullStateLeftoverAlways`, for lists of any size, capacity and history. Every
  operation and every codec is characterised by the *view* of a list, the element
  at each index, which forgets capacities. `SparseListInv` says that each packet
  on the way was made from the state before it, and that the receiver's list is
  exact and has the view of the last state it decoded. Two exact lists with the
  same view have the same `m_HighestIndex`, so the reader's widths are the
  writer's: that is the step `Compress` breaks. `operator ==` is shown to walk
  the elements in order by counting the elements below each.
- `StructProofs`: `ShownAsSentAlways` and `FullStateExactAlways`, for maps and
  lists of any size and any number of packets on the way. Each codec of a
  container is shown to give back what was written: a map is seen through what
  it has at each key, the entries of a delta through the fold that applies them,
  and the reader of a whole map is up to date below the key it is at. The
  walk over two maps is shown to meet every key at which they differ, once and
  in order, since each turn leaves fewer keys to look at. For the
  struct, after the first `i` fields the visitor has consumed exactly the deltas
  of those that changed, and waits for the next one. `StructInv` is the chain of
  packets again; the receiver's struct agrees with the last state it decoded
  field by field, up to the two exceptions, and `rewritten` is set whenever a
  packet leaves out a new value of an optional.
- `ReplayProofs`: `ReplayTypes`, `ReplayKept`, `FilesAreExact` and
  `ReplaysPlayInOrder`, for every size of block, header and packet. A round of
  `WriteData` moves bytes from what is left to the blocks and keeps the two,
  one behind the other, the same; after the first round what is left shrinks or
  is gone, so the loop copies everything and all blocks but the last are full.
  `ReplayInvariant` gives each packet its place in the file: a reader that is
  not astray waits behind the header of the first packet not played, or is at
  the end, and a cursor was taken at such a place. No two places are the same,
  so a cursor that is loaded where it was taken has that packet's header.
- `CommonProofs`: the lemmas these share: least and greatest elements, folds
  over sequences, the order of a finite set (`SortedSet`), and `GetRequiredBits`:
  a number fits the field whose width it gives, bits read back what was written.

Induction over data is done without the library's induction theorems, which take
an operator: the set of the numbers that lack the property has a least element
(`LeastNatural`). A fold is unfolded through a function on the subsets of its
indices, which exists for the same reason (`FoldDefined`).

Assumptions: a ring of at least two slots, a valid mode and natural bounds;
`Client` is finite; `None`, `Null`, `Free`, `Junk`, `Corrupt` and `Unchanged`
are not among the values they stand beside; fields of at most 32 bits, and at
most 2^30 pipes, types, classes, slots, keys and indices, since they are ints;
bytes, words and the copying threshold of any positive size, bounds of fields
that are non-negative ints, and a length field of a bit buffer of at most 31 bits;
the application keeps its indices and keys below `MaxSize` (`Limit`, `App`), and
only the optional and the array of the struct may be static. The delivery theorems
and `ReferencesFilled` also assume `WireCompatible` (the two widths of a slot
field agree and hold the value for "no reference"), which excludes rings whose
size is a power of two, and the delivery theorems `Ordered`. The theorems on
what protocol packets are read as assume the same of the two widths
(`WidthsAgree`), and `OnlyGarbledFail` that a variant pipe has a default for
every type with a callback of its own (`DefaultsKnown`).

Only model-checked: liveness (`WindowReopens`, `ServerForgets`, `ClientTold`,
`EverythingPlayed`), which is out of the prover's reach. Every invariant of a
passing run is a theorem. The inductive invariants were checked with TLC on
small instances before they were proved.

## Not modelled

Listed in `PROJECT.json` with the reason. Fixed-point and random-number
arithmetic work on 64-bit words and tables, beyond TLC's numbers, and keep no
state that two ends share; scalar codecs are one field each; pointers and static
lists are an index that the application or a table resolves; bindings and
metaprogramming are compile-time plumbing; `NetPipeFullStateSeq.h` has
unresolved merge-conflict markers and does not compile. Of what is modelled, the
text of exceptions, the memory of the elements of containers and the
parent-object pointers of reader and writer are left out, and so are the checks
of a `_DEBUG` build, such as the one that a value fits its field, but for those a
property is about (`NeverThrows`): in such a build the last byte of a bit buffer,
written whole (`NetReflectionBitBuffer.h:100`), would have to be free of what a
rollback left in it. `ReliablePipe` keeps a copy of the state where the code keeps
the caller's pointer: the application is taken not to change a state it has
handed over. The constructor of the type database is a static initialiser like
the registrations (`NetReflectionTypeDatabase.cpp:8`) but has no action: it sets
the reference to the list and an empty table, which no registration touches, and
leaves the other fields as static storage has them. Only a first use of the
database ahead of it, through a null reference, is thereby left out. `NetMessageSenderList`, which keeps
a sender per connection id, is left out of the protocol.

## Plan

Done, in this order: `BitUtil`, `DeltaState` with `StateChannel` and its proofs,
`Connection` and its proofs, `ReliablePipe` with `SparseList` and `NetMap`,
`BitStream`; then `Protocol`, `NetArrayList` with `StructSync`, `TypeDatabase`,
`PoolAllocator` and `Polymorphic`, and `Replay`. Then the proofs: delta pipe,
connections, polymorphic values, protocol, sparse lists, structs, the stalls of
the delta pipe, replays, and the bit stream.

Left: the sequenced full-state pipe, once its file compiles; moving a sparse
list, a pool and a `NetBitReaderVector`; `NetMessageSenderList`; and a composition
of `BitStream` with the codecs above it, whose smallest unit is a field.
