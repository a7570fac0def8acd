----------------------------- MODULE Polymorphic -----------------------------
(***************************************************************************)
(* NetPolymorphic values in a program: variables that own one object each, *)
(* of any class of a NetTypeDatabase, in memory of the classes' pools.     *)
(* One of them, the replica, is only written by decoding what a peer       *)
(* sends; the peer is another program with the same classes, registered in *)
(* an order of its own.  The others are the program's own variables.       *)
(*                                                                         *)
(* The classes are all of the same size, so that an object fits wherever   *)
(* it is put; the properties say where that is.                            *)
(***************************************************************************)
EXTENDS PoolAllocator, BitUtil

CONSTANTS
  Locals,     \* the program's own variables
  Replica,    \* the one that follows the peer
  Data,       \* the contents of an object
  Defaults,   \* what NET_SET_DEFAULT_TYPE may name; None when it is not used
  Used,       \* bound: the classes whose objects the two programs create
  MaxCells,   \* bound: the cells of the program
  MaxDrift    \* bound: how far m_Allocated may go from zero

ASSUME PolymorphicAssumption ==
  /\ IsFiniteSet(Locals)
  /\ Replica \notin Locals
  /\ DefaultData \in Data
  /\ Defaults \subseteq (Hashed \ Abstract) \cup {None}
  /\ Used \subseteq Class \ Abstract
  /\ None \notin [m_Ptr : Nat, m_ClassId : Nat, m_TypeHash : Class]
  /\ None \notin [class : Class, data : Data]
  /\ None \notin [class_id : Nat \cup {None}, data : Data]

Program == {"here", "peer"}
Var == Locals \cup {Replica}

VARIABLES
  chosen,  \* the class that NET_SET_DEFAULT_TYPE names in both programs
  todo,    \* the static initialisers a program has yet to run: the classes
           \* to register, and SetDefault
  db,      \* the type database of each program
  mem,     \* the memory of this program
  val,     \* its variables; None while one does not exist
  sent,    \* the peer's object as it was sent last; None at first
  mixed    \* history: an object was put in memory that is not its pool's

vars == <<chosen, todo, db, mem, val, sent, mixed>>

Here == db["here"]
SetDefault == 0

------------------------------------------------------------------------------
(***************************************************************************)
(* The start of a program.  The static initialisers run in any order, and  *)
(* one of them, or main after them, may be the first to use the database.  *)
(* A class that is registered after that makes the initialiser throw,      *)
(* which ends the program.                                                 *)
(***************************************************************************)
Init ==
  /\ chosen \in Defaults
  /\ todo = [p \in Program |-> Class \cup (IF chosen = None THEN {} ELSE {SetDefault})]
  /\ db = [p \in Program |-> EmptyDatabase]
  /\ mem = [cells |-> << >>, pools |-> [c \in Class |-> EmptyPool]]
  /\ val = [v \in Var |-> None]
  /\ sent = None
  /\ mixed = FALSE

\* Faulty variant: the list may still grow after the classes are numbered.
RegisterLate(p, c) ==
  /\ c \in todo[p] \cap Class
  /\ todo' = [todo EXCEPT ![p] = @ \ {c}]
  /\ db' = [db EXCEPT ![p] = AddClass(@, c)]
  /\ UNCHANGED <<chosen, mem, val, sent, mixed>>

Register(p, c) ==
  /\ c \in todo[p] \cap Class
  /\ ~db[p].m_Initialized
  /\ todo' = [todo EXCEPT ![p] = @ \ {c}]
  /\ db' = [db EXCEPT ![p] = AddClass(@, c)]
  /\ UNCHANGED <<chosen, mem, val, sent, mixed>>

ChooseDefault(p) ==
  /\ SetDefault \in todo[p]
  /\ todo' = [todo EXCEPT ![p] = @ \ {SetDefault}]
  /\ db' = [db EXCEPT ![p] = SetDefaultTypeNameHash(@, chosen)]
  /\ UNCHANGED <<chosen, mem, val, sent, mixed>>

FirstUse(p) ==
  /\ ~db[p].m_Initialized
  /\ db' = [db EXCEPT ![p] = FinalizeList(@)]
  /\ UNCHANGED <<chosen, todo, mem, val, sent, mixed>>

Started(p) == todo[p] = {} /\ db[p].m_Initialized

\* The program goes to work once the peer is there too.
Running == \A p \in Program : Started(p)

------------------------------------------------------------------------------
(***************************************************************************)
(* The operations of the class.  Creating takes a cell from the class's    *)
(* pool, destroying gives the cell to the pool of the class it is told.    *)
(***************************************************************************)
Value(ptr, class_id, hash) == [m_Ptr |-> ptr, m_ClassId |-> class_id, m_TypeHash |-> hash]

ClassOf(v) == GetTypeInfo(Here, val[v].m_ClassId)
ObjectOf(v) == mem.cells[val[v].m_Ptr].object

\* The class at the root, whose type hash a default constructed value has.
BaseClass == CHOOSE c \in Class : Parent[c] = None

\* Pools may gain and lose cells to each other for ever.
Bounded(m) ==
  /\ Len(m.cells) <= MaxCells
  /\ \A c \in Class : m.pools[c].m_Allocated \in -MaxDrift .. MaxDrift

\* "v" becomes a new object of class "c" in memory "m", with contents "data".
Create(v, m, c, data, hash) ==
  LET ptr == Allocated(m, c)
  IN  /\ mem' = Write(Allocate(m, c), ptr, data)
      /\ val' = [val EXCEPT ![v] = Value(ptr, GetClassId(Here, c), hash)]
      /\ Bounded(mem')

Unconnected == UNCHANGED <<chosen, todo, db, sent>>

Construct(v) ==
  /\ Running /\ val[v] = None
  /\ \/ /\ Here.m_DefaultType # None
        /\ Create(v, mem, Here.m_DefaultType, DefaultData, BaseClass)
     \/ \E c \in Used, data \in Data : Create(v, mem, c, data, c)
     \/ \E w \in Var : val[w] # None /\ Create(v, mem, ClassOf(w), ObjectOf(w).data, val[w].m_TypeHash)
  /\ Unconnected /\ UNCHANGED mixed

\* From an object: it is created by new, and destroyed into the pool later.
ConstructFrom(v) ==
  /\ Running /\ val[v] = None
  /\ \E c \in Used, data \in Data :
       /\ mem' = New(mem, Object(c, data))
       /\ Bounded(mem')
       /\ val' = [val EXCEPT ![v] = Value(Len(mem'.cells), GetClassId(Here, c), c)]
  /\ mixed' = TRUE
  /\ Unconnected

\* Faulty variant: the cell goes to the pool of the root class.
DestroyAsBase(v) ==
  /\ val[v] # None
  /\ mem' = Deallocate(mem, BaseClass, val[v].m_Ptr)
  /\ Bounded(mem')
  /\ val' = [val EXCEPT ![v] = None]
  /\ Unconnected /\ UNCHANGED mixed

Destroy(v) ==
  /\ val[v] # None
  /\ mem' = Deallocate(mem, ClassOf(v), val[v].m_Ptr)
  /\ Bounded(mem')
  /\ val' = [val EXCEPT ![v] = None]
  /\ Unconnected /\ UNCHANGED mixed

\* operator =.  The old object is destroyed before the other is copied from;
\* assigned to itself, a value gets its cell back with a new object in it.
Assign(v, w) ==
  /\ None \notin {val[v], val[w]}
  /\ LET m    == Deallocate(mem, ClassOf(v), val[v].m_Ptr)
         data == IF w = v THEN DefaultData ELSE ObjectOf(w).data
     IN  Create(v, m, ClassOf(w), data, val[w].m_TypeHash)
  /\ Unconnected /\ UNCHANGED mixed

\* Through operator ->.
Modify(v) ==
  /\ val[v] # None
  /\ \E data \in Data : mem' = Write(mem, val[v].m_Ptr, data)
  /\ Unconnected /\ UNCHANGED <<val, mixed>>

\* Faulty variant: a value that changes its class keeps its type hash.
SetTypeKeepsHash(v, c, force, data) ==
  IF c = ClassOf(v) /\ ~force
  THEN mem' = Write(mem, val[v].m_Ptr, data) /\ UNCHANGED <<val, mixed>>
  ELSE /\ Create(v, Deallocate(mem, c, val[v].m_Ptr), c, data, val[v].m_TypeHash)
       /\ mixed' = (mixed \/ c # ClassOf(v))

\* SetType, and what is then read into the object.  The functions of the new
\* type destroy the old object: its cell goes to the new type's pool, which
\* hands it out again at once.
SetTypeAnd(v, c, force, data) ==
  IF c = ClassOf(v) /\ ~force
  THEN mem' = Write(mem, val[v].m_Ptr, data) /\ UNCHANGED <<val, mixed>>
  ELSE /\ Create(v, Deallocate(mem, c, val[v].m_Ptr), c, data, c)
       /\ mixed' = (mixed \/ c # ClassOf(v))

SetType(v) ==
  /\ val[v] # None
  /\ \E c \in Used, force \in BOOLEAN :
       SetTypeAnd(v, c, force, IF c = ClassOf(v) /\ ~force THEN ObjectOf(v).data ELSE DefaultData)
  /\ Unconnected

------------------------------------------------------------------------------
(***************************************************************************)
(* What the peer sends: a class id and the object's contents at first and  *)
(* when the class has changed, the contents alone when they have, nothing  *)
(* otherwise.                                                              *)
(***************************************************************************)
ClassIdBits(p) == GetRequiredBits(GetNumTypes(db[p]) - 1)

SerializeValue(o) ==
  [class_id |-> Truncate(GetClassId(db["peer"], o.class), ClassIdBits("peer")), data |-> o.data]

\* Faulty variant: equal contents are taken for equal objects.
SerializeDeltaContents(to, from) ==
  IF to.data = from.data THEN None
  ELSE IF to.class # from.class THEN SerializeValue(to) ELSE [class_id |-> None, data |-> to.data]

SerializeDelta(to, from) ==
  IF to.class # from.class THEN SerializeValue(to)
  ELSE IF to.data # from.data THEN [class_id |-> None, data |-> to.data] ELSE None

Deserialize(v, msg) ==
  IF msg.class_id # None THEN SetTypeAnd(v, GetTypeInfo(Here, msg.class_id), FALSE, msg.data)
  ELSE mem' = Write(mem, val[v].m_Ptr, msg.data) /\ UNCHANGED <<val, mixed>>

GotState ==
  /\ val[Replica] # None
  /\ \E c \in Used, data \in Data :
       LET o   == Object(c, data)
           msg == IF sent = None THEN SerializeValue(o) ELSE SerializeDelta(o, sent)
       IN  /\ IF msg = None THEN UNCHANGED <<mem, val, mixed>> ELSE Deserialize(Replica, msg)
           /\ sent' = o
  /\ UNCHANGED <<chosen, todo, db>>

Next ==
  \/ \E p \in Program : ChooseDefault(p) \/ FirstUse(p) \/ \E c \in Class : Register(p, c)
  \/ \E v \in Var : Construct(v) \/ ConstructFrom(v)
  \/ \E v \in Locals : Destroy(v) \/ Modify(v) \/ SetType(v) \/ \E w \in Var : Assign(v, w)
  \/ GotState

Spec == Init /\ [][Next]_vars

------------------------------------------------------------------------------
(***************************************************************************)
(* Properties.                                                             *)
(***************************************************************************)
Live == {v \in Var : val[v] # None}
Cells == DOMAIN mem.cells
HeapCells == {p \in Cells : mem.cells[p].home = None}

(***************************************************************************)
(* Two programs with the same classes number them alike, in whatever order *)
(* their static initialisers run, when neither has ended in one of them:   *)
(* the class ids FinalizeList gives out mean the same at both ends.        *)
(***************************************************************************)
IdsAgree == Running => Here.m_TypeDatabase = db["peer"].m_TypeDatabase

Finalizes(p) == ~db[p].m_Initialized /\ db'[p].m_Initialized

\* c and its base classes up to b, with no abstract class among them.
ConcretePath(c, b) ==
  \E n \in Class : \E path \in [1 .. n -> Class \ Abstract] :
    path[1] = c /\ path[n] = b /\ \A i \in 1 .. n - 1 : path[i + 1] = Parent[path[i]]

(***************************************************************************)
(* In a database that is first used after every static initialiser has     *)
(* run, FinalizeList makes the class that NET_SET_DEFAULT_TYPE names the   *)
(* default, whether it was named before or after the classes were          *)
(* registered; and InheritsFrom, on which Get<T> relies for its cast,      *)
(* holds of a class and those of its base classes that it reaches through  *)
(* concrete ones, and of no other.                                         *)
(***************************************************************************)
FinalizedRight ==
  [][\A p \in Program :
       Finalizes(p) /\ todo[p] = {} =>
         /\ chosen # None => db'[p].m_DefaultType = chosen
         /\ \A c, b \in Class \ Abstract : InheritsFrom(db'[p], c, b) <=> ConcretePath(c, b)]_vars

FreePlaces(p) ==
  UNION {{<<c, i>> : i \in {i \in DOMAIN mem.pools[c].m_Current : mem.pools[c].m_Current[i] = p}} :
           c \in Class}

Owners(p) == {v \in Live : val[v].m_Ptr = p}

(***************************************************************************)
(* Every cell is in exactly one place: owned by one value, with an object  *)
(* in it of the class that the value's class id names, or once on the free *)
(* list of one pool, with no object.  Nothing is handed out twice, lost or *)
(* used after it was destroyed, although SetType and the constructors that *)
(* use new make cells wander between the pools.                            *)
(***************************************************************************)
CellsAccountedFor ==
  \A p \in Cells :
    LET object == mem.cells[p].object
    IN  /\ Cardinality(Owners(p)) + Cardinality(FreePlaces(p)) = 1
        /\ FreePlaces(p) # {} => object = None
        /\ \A v \in Owners(p) : object # None /\ object.class = ClassOf(v)

Sum(f) == Seqs!FoldLeft(+, 0, f)

(***************************************************************************)
(* Until an object is created by new or SetType changes a class, every     *)
(* object lies in memory of its own class's pool, m_Allocated counts the   *)
(* pool's objects and is never negative: what the assertions in Deallocate *)
(* and DestroyAllBlocks say.  After that only the sum over the pools is    *)
(* right.                                                                  *)
(***************************************************************************)
PoolsBalanced ==
  /\ ~mixed => \A v \in Live : mem.cells[val[v].m_Ptr].home = ClassOf(v)
  /\ ~mixed => \A c \in Class :
       mem.pools[c].m_Allocated = Cardinality({v \in Live : ClassOf(v) = c})
  /\ Sum([c \in Class |-> mem.pools[c].m_Allocated]) + Cardinality(HeapCells) = Cardinality(Live)

(***************************************************************************)
(* The type hash that Is<T> compares is that of the object's class, except *)
(* in a value that was default constructed, or copied from one: it has the *)
(* hash of the base class, and keeps it when a message names the class     *)
(* that it already has.                                                    *)
(***************************************************************************)
TypeHashExact ==
  \A v \in Live :
    \/ val[v].m_TypeHash = ClassOf(v)
    \/ val[v].m_TypeHash = BaseClass /\ ClassOf(v) = Here.m_DefaultType

(***************************************************************************)
(* The replica has the class and the contents that the peer sent last,     *)
(* through any changes of class and whatever the program's own values do   *)
(* with the pools meanwhile.                                               *)
(***************************************************************************)
ReplicaFollows == sent # None => ObjectOf(Replica) = sent
==============================================================================
