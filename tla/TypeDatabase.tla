---------------------------- MODULE TypeDatabase -----------------------------
(***************************************************************************)
(* NetTypeDatabase: the classes a NetPolymorphic may hold.  Static         *)
(* initialisers register them in an order the linker chooses; the first    *)
(* use of the database numbers them.  The numbers are what goes on the     *)
(* wire, so two programs have to arrive at the same ones.                  *)
(*                                                                         *)
(* A class is the rank of its name under strcmp.                           *)
(***************************************************************************)
EXTENDS SortedSet, Sequences

CONSTANTS
  NumClasses,
  Abstract,     \* the abstract classes
  Parent,       \* the direct base class of each; None for the root
  Hashed,       \* registered by a macro that sets m_TypeNameHash
  None

Class == 1 .. NumClasses

ASSUME ClassAssumption ==
  /\ NumClasses \in Nat \ {0}
  /\ None \notin Nat
  /\ Abstract \subseteq Class /\ Abstract # Class
  /\ Parent \in [Class -> Class \cup {None}] /\ \E c \in Class : Parent[c] = None
  /\ Hashed \subseteq Class

\* No list of classes is longer.
ASSUME IdAssumption == NumClasses <= 2 ^ 30

Seqs == INSTANCE SequencesExt

\* m_TypeNameHash; NetInitializeTypeRegistration leaves it at zero.
TypeNameHash(c) == IF c \in Hashed THEN c ELSE 0

EmptyDatabase ==
  [m_TypeInfoList |-> << >>, m_DefaultTypeNameHash |-> 0, m_Initialized |-> FALSE,
   m_TypeDatabase |-> << >>, m_DefaultType |-> None]

\* Faulty variant: the last concrete class is the default.
AddClassLastDefault(db, c) ==
  [db EXCEPT
     !.m_TypeInfoList = <<c>> \o @,
     !.m_DefaultTypeNameHash = IF c \notin Abstract THEN TypeNameHash(c) ELSE @]

AddClass(db, c) ==
  [db EXCEPT
     !.m_TypeInfoList = <<c>> \o @,
     !.m_DefaultTypeNameHash = IF @ = 0 /\ c \notin Abstract THEN TypeNameHash(c) ELSE @]

SetDefaultTypeNameHash(db, c) == [db EXCEPT !.m_DefaultTypeNameHash = c]

\* The last class whose name hash is the default's.
DefaultOf(types, hash) ==
  LET matches == {i \in DOMAIN types : TypeNameHash(types[i]) = hash}
  IN  IF matches = {} THEN None ELSE types[CHOOSE i \in matches : \A j \in matches : j <= i]

\* The concrete classes, sorted by name.
FinalizeList(db) ==
  LET listed == {db.m_TypeInfoList[i] : i \in DOMAIN db.m_TypeInfoList}
      types  == InOrder(listed \ Abstract)
  IN  [db EXCEPT
         !.m_TypeInfoList = << >>,
         !.m_Initialized  = TRUE,
         !.m_TypeDatabase = types,
         !.m_DefaultType  = DefaultOf(types, db.m_DefaultTypeNameHash)]

\* Class ids count from zero.  GetClassId throws for a class that is not in
\* the database, GetTypeInfo does not look.
Registered(db, c) == \E i \in DOMAIN db.m_TypeDatabase : db.m_TypeDatabase[i] = c

GetClassId(db, c) == (CHOOSE i \in DOMAIN db.m_TypeDatabase : db.m_TypeDatabase[i] = c) - 1
GetNumTypes(db) == Len(db.m_TypeDatabase)
GetTypeInfo(db, class_id) == db.m_TypeDatabase[class_id + 1]

\* m_ParentClassId names a class only when the base class is in the
\* database, so the chain ends at an abstract class.
ParentOf(db, c) ==
  IF c # None /\ Parent[c] # None /\ Registered(db, Parent[c])
  THEN Parent[c] ELSE None

InheritsFrom(db, c, base) ==
  LET Up(at, i) == IF at = base THEN at ELSE ParentOf(db, at)
  IN  Seqs!FoldLeft(Up, c, db.m_TypeDatabase) = base
==============================================================================
