--------------------------- MODULE PolymorphicInv ----------------------------
(***************************************************************************)
(* The inductive invariant of Polymorphic: what the start of a program has *)
(* done to its type database so far, where every cell of the memory is,    *)
(* and how the variables hang on it.                                       *)
(***************************************************************************)
EXTENDS Polymorphic

Concrete == Class \ Abstract

ObjectType == [class : Concrete, data : Data]
CellType == [home : Class \cup {None}, object : ObjectType \cup {None}]

Listed(p) == {db[p].m_TypeInfoList[i] : i \in DOMAIN db[p].m_TypeInfoList}

(***************************************************************************)
(* Until the first use the list holds the classes registered so far; from  *)
(* then on the numbered classes are the ones that were registered by then, *)
(* in the order of their names.                                            *)
(***************************************************************************)
DatabaseInv(p) ==
  /\ todo[p] \subseteq Class \cup {SetDefault}
  /\ SetDefault \in todo[p] => chosen # None
  /\ db[p] \in [m_TypeInfoList : Seq(Class), m_DefaultTypeNameHash : Nat, m_Initialized : BOOLEAN,
                m_TypeDatabase : Seq(Concrete), m_DefaultType : Concrete \cup {None}]
  /\ ~db[p].m_Initialized => Listed(p) = Class \ todo[p]
  /\ db[p].m_Initialized => db[p].m_TypeDatabase = InOrder(Concrete \ todo[p])
  /\ chosen # None /\ SetDefault \notin todo[p] => db[p].m_DefaultTypeNameHash = chosen

(***************************************************************************)
(* The cells of a memory and the free lists "cur" of its pools, when the   *)
(* cells "owned" hold objects: every other cell is free, in one place of   *)
(* one list, with no object in it.                                         *)
(***************************************************************************)
Free(cur, p) == \E c \in Class : \E i \in DOMAIN cur[c] : cur[c][i] = p

FreeOnce(cur) ==
  \A c, d \in Class : \A i \in DOMAIN cur[c], j \in DOMAIN cur[d] :
    cur[c][i] = cur[d][j] => c = d /\ i = j

CellsInv(cells, cur, owned) ==
  /\ cells \in Seq(CellType)
  /\ cur \in [Class -> Seq(DOMAIN cells)]
  /\ FreeOnce(cur)
  /\ owned \subseteq DOMAIN cells
  /\ \A p \in DOMAIN cells : p \in owned <=> ~Free(cur, p)
  /\ \A p \in DOMAIN cells : p \in owned <=> cells[p].object # None

\* Every free cell is on the list of the pool its block belongs to.
AtHome(cells, cur) == \A c \in Class : \A i \in DOMAIN cur[c] : cells[cur[c][i]].home = c

Lists(m) == [c \in Class |-> m.pools[c].m_Current]

MemoryInv(m, owned) ==
  /\ m \in [cells : Seq(CellType), pools : [Class -> [m_Current : Seq(Nat), m_Allocated : Int]]]
  /\ CellsInv(m.cells, Lists(m), owned)

ValueType == [m_Ptr : Nat, m_ClassId : Nat, m_TypeHash : Class]

Pointers == {val[v].m_Ptr : v \in Live}

ValuesInv ==
  /\ val \in [Var -> ValueType \cup {None}]
  /\ Live # {} => Running
  /\ \A v, w \in Live : val[v].m_Ptr = val[w].m_Ptr => v = w
  /\ \A v \in Live :
       /\ val[v].m_ClassId + 1 \in DOMAIN Here.m_TypeDatabase
       /\ ObjectOf(v).class = ClassOf(v)

ReplicaInv ==
  /\ sent \in ObjectType \cup {None}
  /\ sent # None => val[Replica] # None /\ ObjectOf(Replica) = sent

TypeInv ==
  /\ chosen \in Defaults
  /\ todo \in [Program -> SUBSET (Class \cup {SetDefault})]
  /\ DOMAIN db = Program
  /\ mixed \in BOOLEAN

PolymorphicInv ==
  /\ TypeInv
  /\ \A p \in Program : DatabaseInv(p)
  /\ MemoryInv(mem, Pointers)
  /\ ValuesInv
  /\ ReplicaInv
  /\ TypeHashExact
  /\ ~mixed => AtHome(mem.cells, Lists(mem))
  /\ PoolsBalanced
==============================================================================
