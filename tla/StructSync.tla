----------------------------- MODULE StructSync ------------------------------
(***************************************************************************)
(* An application keeps its state in a reflected struct and sends it now   *)
(* and then through a reliable delta pipe (NetPipeDeltaStateReliable).     *)
(* The struct has one field of every kind that has a codec of its own:     *)
(*   map    a NetMap                                                       *)
(*   list   a NetArrayList                                                 *)
(*   spare  a NetOptional; Null when it is not valid                       *)
(*   row    a C array of two elements                                      *)
(* The modules NetMap and NetArrayList hold the codecs of the containers;  *)
(* this one has those of the struct, the optional and the array.           *)
(***************************************************************************)
EXTENDS NetMap

CONSTANTS
  Null,
  DefaultElem,   \* T()
  ListSize,      \* the MaxSize of the list
  Static,        \* the fields with the annotation NET_STATIC
  Apps,          \* the applications: how much of the struct each one uses
  MaxInFlight

(***************************************************************************)
(* An application uses the keys below "keys", at most "size" elements of   *)
(* the list, and those of the other fields that are in "fields".           *)
(***************************************************************************)
App == [keys : 0 .. MaxSize, size : 0 .. ListSize, fields : SUBSET {"spare", "row"}]

\* A key fits into its field.  A field is static only where its delta does
\* not depend on the value it is applied to.
ASSUME StructAssumption ==
  /\ DefaultElem \in Elem
  /\ ListSize \in 1 .. 2 ^ 30
  /\ Static \subseteq {"spare", "row"}
  /\ Apps \subseteq App

Fields == <<"map", "list", "spare", "row">>

\* A full state has every field but the static ones.
Sent == {Fields[i] : i \in DOMAIN Fields} \ Static

List == INSTANCE NetArrayList WITH MaxSize <- ListSize

\* The structs there can be, what is sent of a field, and of the change of one.
MapType == UNION {[keys -> Elem] : keys \in SUBSET (0 .. MaxSize - 1)}
ListType == UNION {[1 .. n -> Elem] : n \in 0 .. ListSize}
RowType == [1 .. 2 -> Elem]
StateType == [map : MapType, list : ListType, spare : Elem \cup {Null}, row : RowType]

SpareSent == {<<0>>} \cup ({1} \X Elem)
FieldSent ==
  [num : Nat, entries : Seq([key : Nat, value : Elem])]
    \cup [size : Nat, elems : ListType] \cup SpareSent \cup RowType
FieldDelta ==
  [num : Nat, entries : Seq([key : Nat, kind : {"added", "changed", "removed"},
                             value : Elem \cup {Corrupt}])]
    \cup [resized : BOOLEAN, size : Nat, elems : Seq([kind : {"value", "same", "changed"},
                                                    value : Elem \cup {Unchanged}])]
    \cup SpareSent \cup RowType

StructSent == [Sent -> FieldSent]
StructDelta == [num : Nat, fields : Seq([index : Nat, delta : FieldDelta])]

ASSUME NullAssumption ==
  /\ Null \notin Elem \cup StateType
  /\ Corrupt \notin MapType \cup ListType \cup Elem \cup {Null} \cup RowType \cup StateType
  /\ Unchanged \notin FieldDelta \cup StructSent \cup StructDelta

VARIABLES
  app,        \* which application this is
  state,      \* its struct
  rewritten,  \* history: a valid "spare" was sent with another value than before
  m_LastSyncedState, m_ReferenceState, packets, shown

------------------------------------------------------------------------------
(***************************************************************************)
(* The codecs of the fields.                                               *)
(***************************************************************************)
DefaultState ==
  [map |-> EmptyMap, list |-> List!EmptyList, spare |-> Null,
   row |-> <<DefaultElem, DefaultElem>>]

\* An optional is a bit and, when it is set, the value; an array has its
\* elements one after the other.
SerializeField(f, val) ==
  CASE f = "map"   -> SerializeValue(val)
    [] f = "list"  -> List!SerializeValue(val)
    [] f = "spare" -> IF val = Null THEN <<0>> ELSE <<1, val>>
    [] f = "row"   -> val

DeserializeField(f, val, msg) ==
  CASE f = "map"   -> DeserializeValue(val, msg)
    [] f = "list"  -> List!DeserializeValue(val, msg)
    [] f = "spare" -> IF msg[1] = 1 THEN msg[2] ELSE Null
    [] f = "row"   -> [i \in DOMAIN val |-> msg[i]]

\* NetOptional has no operator ==: "to == from" compares what operator bool
\* yields, whether the two are valid.
SameOptional(to, from) == (to = Null) = (from = Null)

SerializeFieldDelta(f, to, from) ==
  CASE f = "map"   -> SerializeDelta(to, from)
    [] f = "list"  -> List!SerializeDelta(to, from)
    [] f = "spare" -> IF SameOptional(to, from) THEN Unchanged ELSE SerializeField(f, to)
    [] f = "row"   -> IF to = from THEN Unchanged ELSE SerializeField(f, to)

DeserializeFieldDelta(f, val, msg) ==
  CASE f = "map"  -> DeserializeDelta(val, msg)
    [] f = "list" -> List!DeserializeDelta(val, msg)
    [] OTHER      -> DeserializeField(f, val, msg)

------------------------------------------------------------------------------
(***************************************************************************)
(* The codecs of the struct.  A delta has the number of fields that        *)
(* changed, and for each its index and its delta, static or not.           *)
(***************************************************************************)
Whole(s) == IF \E f \in DOMAIN s : s[f] = Corrupt THEN Corrupt ELSE s

SerializeStruct(s) == [f \in Sent |-> SerializeField(f, s[f])]

DeserializeStruct(val, msg) ==
  Whole([f \in DOMAIN val |-> IF f \in Sent THEN DeserializeField(f, val[f], msg[f]) ELSE val[f]])

FieldBits == GetRequiredBits(Len(Fields))

SerializeStructDelta(to, from) ==
  LET Delta(f) == SerializeFieldDelta(f, to[f], from[f])
      wrote == InOrder({i \in DOMAIN Fields : Delta(Fields[i]) # Unchanged})
  IN  IF wrote = << >> THEN Unchanged
      ELSE [num    |-> Truncate(Len(wrote), FieldBits),
            fields |-> [n \in DOMAIN wrote |->
                          [index |-> Truncate(wrote[n] - 1, FieldBits),
                           delta |-> Delta(Fields[wrote[n]])]]]

\* NetMemberDeserializeDeltaVisitor: it is called for the fields in turn and
\* waits for the one whose index it has read last.
Visit(msg, at, i) ==
  IF at.remaining = 0 \/ msg.fields[at.read].index # i - 1 THEN at
  ELSE LET f == Fields[i]
       IN  [val       |-> [at.val EXCEPT ![f] =
                             DeserializeFieldDelta(f, at.val[f], msg.fields[at.read].delta)],
            read      |-> IF at.remaining = 1 THEN at.read ELSE at.read + 1,
            remaining |-> at.remaining - 1]

DeserializeStructDelta(val, msg) ==
  IF msg = Unchanged THEN val
  ELSE LET start == [val |-> val, read |-> 1, remaining |-> msg.num]
       IN  Whole(Visit(msg, Visit(msg, Visit(msg, Visit(msg, start, 1), 2), 3), 4).val)

------------------------------------------------------------------------------
(***************************************************************************)
(* The application and its pipe.                                           *)
(***************************************************************************)
Pipe == INSTANCE ReliablePipe WITH
  Default          <- DefaultState,
  SerializeValue   <- SerializeStruct,
  SerializeDelta   <- SerializeStructDelta,
  DeserializeValue <- DeserializeStruct,
  DeserializeDelta <- DeserializeStructDelta

pipeVars == <<m_LastSyncedState, m_ReferenceState, packets, shown>>
vars == <<app, state, rewritten, pipeVars>>

Init ==
  /\ app \in Apps
  /\ state = DefaultState
  /\ rewritten = FALSE
  /\ Pipe!Init

Assign(f, val) == state' = [state EXCEPT ![f] = val]

\* NetMap.  An application that respects MaxSize does not emplace into a
\* full map.
SetKey == ~SetFull(state.map) /\
          \E k \in 0 .. app.keys - 1, t \in Elem : Assign("map", Put(state.map, k, t))
EmplaceKey ==
  \E k \in 0 .. app.keys - 1, t \in Elem :
    /\ Cardinality(DOMAIN state.map \cup {k}) <= MaxSize
    /\ Assign("map", EmplaceAt(state.map, k, t))
RemoveKey == \E k \in DOMAIN state.map : Assign("map", Erase(state.map, k))
ClearMap == Assign("map", EmptyMap)

\* NetArrayList.
GrowList ==
  /\ ~List!Full(state.list) /\ Len(state.list) < app.size
  /\ \E v \in Elem :
       \/ Assign("list", List!PushBack(state.list, v))
       \/ \E i \in 1 .. Len(state.list) + 1 :
            \/ Assign("list", List!InsertAt(state.list, i, v))
            \/ Assign("list", List!EmplaceAt(state.list, i, v))
ResizeList == \E n \in 0 .. app.size : Assign("list", List!resize(state.list, n))
ShrinkList ==
  \E i \in DOMAIN state.list :
    \/ Assign("list", List!RemoveAt(state.list, i))
    \/ \E j \in i .. Len(state.list) : Assign("list", List!erase(state.list, i, j))
ClearList == Assign("list", List!EmptyList)

\* NetOptional.  An optional that is assigned to itself is cleared before it
\* is copied from, so it ends as ClearSpare leaves it.
EmplaceSpare == "spare" \in app.fields /\ \E v \in Elem : Assign("spare", v)
CopySpare == "spare" \in app.fields /\ m_LastSyncedState # Null
             /\ Assign("spare", m_LastSyncedState.spare)
ClearSpare == "spare" \in app.fields /\ Assign("spare", Null)

WriteRow == "row" \in app.fields /\ \E v \in Elem : Assign("row", [state.row EXCEPT ![2] = v])

Change ==
  /\ \/ SetKey \/ EmplaceKey \/ RemoveKey \/ ClearMap
     \/ GrowList \/ ResizeList \/ ShrinkList \/ ClearList
     \/ EmplaceSpare \/ CopySpare \/ ClearSpare \/ WriteRow
  /\ UNCHANGED <<app, rewritten, pipeVars>>

Rewrites(s) ==
  /\ m_LastSyncedState # Null
  /\ Null \notin {s.spare, m_LastSyncedState.spare}
  /\ s.spare # m_LastSyncedState.spare

SyncState ==
  /\ Pipe!SyncState(state)
  /\ rewritten' = (rewritten \/ Rewrites(state))
  /\ UNCHANGED <<app, state>>

GotMessage == Pipe!GotMessage /\ UNCHANGED <<app, state, rewritten>>

Next == Change \/ SyncState \/ GotMessage

Spec == Init /\ [][Next]_vars

\* NetPipeFullState decodes onto a copy of *m_DefaultData.
FullStateInst(m_DefaultData, s) == DeserializeStruct(m_DefaultData, SerializeStruct(s))

------------------------------------------------------------------------------
(***************************************************************************)
(* Properties.                                                             *)
(***************************************************************************)
(***************************************************************************)
(* However many fields change between two calls of SyncState, and whatever *)
(* operations changed them, the callback gets the struct that was given to *)
(* SyncState: the receiver's struct is the one the sender's delta was made *)
(* from, or the sizes and kinds of the fields are misread.  The exceptions *)
(* are a static field, which keeps its default until it first changes, and *)
(* an optional that stays valid, whose new value is not sent: after that   *)
(* the two ends agree only on whether it is valid.                         *)
(***************************************************************************)
ShownAsSent ==
  shown.inst # Null =>
    /\ shown.inst # Corrupt
    /\ \A f \in DOMAIN shown.sent :
         \/ shown.inst[f] = shown.sent[f]
         \/ f \in Static /\ shown.inst[f] = DefaultState[f]
         \/ f = "spare" /\ rewritten /\ SameOptional(shown.inst[f], shown.sent[f])

(***************************************************************************)
(* A full state decoded onto a default with contents of its own is the     *)
(* state that was sent, whatever the default held; only a static field is  *)
(* the default's.                                                          *)
(***************************************************************************)
FullStateExact ==
  m_LastSyncedState # Null =>
    FullStateInst(m_LastSyncedState, state) =
      [f \in DOMAIN state |-> IF f \in Static THEN m_LastSyncedState[f] ELSE state[f]]
==============================================================================
