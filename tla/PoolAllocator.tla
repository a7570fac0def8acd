---------------------------- MODULE PoolAllocator ----------------------------
(***************************************************************************)
(* NetPoolAllocator: one pool per class, each a stack of free cells that   *)
(* is refilled one block at a time.  The memory of a program is a record   *)
(*   cells  every cell handed out by malloc or new so far: the pool its    *)
(*          block belongs to, and the object that lives in it              *)
(*   pools  for each class the free cells (m_Current and what follows it)  *)
(*          and m_Allocated                                                *)
(* A pointer is the number of a cell.                                      *)
(***************************************************************************)
EXTENDS TypeDatabase

CONSTANTS
  kElemsPerBlock,
  DefaultData      \* the contents of a default constructed object

ASSUME BlockAssumption == kElemsPerBlock \in Nat \ {0}

EmptyPool == [m_Current |-> << >>, m_Allocated |-> 0]

Object(c, data) == [class |-> c, data |-> data]

\* The block's cells are pushed one after the other: the last is on top.
Grow(mem, c) ==
  LET n == Len(mem.cells)
  IN  [mem EXCEPT
         !.cells = @ \o [i \in 1 .. kElemsPerBlock |-> [home |-> c, object |-> None]],
         !.pools[c].m_Current =
           [i \in 1 .. kElemsPerBlock |-> n + kElemsPerBlock + 1 - i] \o @]

Grown(mem, c) == IF mem.pools[c].m_Current = << >> THEN Grow(mem, c) ELSE mem

\* The cell that Allocate returns, and the memory after it.
Allocated(mem, c) == Head(Grown(mem, c).pools[c].m_Current)

\* Faulty variant: the cell stays on top of the stack.
AllocateKeepsTop(mem, c) ==
  [Grown(mem, c) EXCEPT
     !.cells[Allocated(mem, c)].object = Object(c, DefaultData),
     !.pools[c].m_Allocated = @ + 1]

Allocate(mem, c) ==
  [Grown(mem, c) EXCEPT
     !.cells[Allocated(mem, c)].object = Object(c, DefaultData),
     !.pools[c] = [m_Current |-> Tail(@.m_Current), m_Allocated |-> @.m_Allocated + 1]]

Deallocate(mem, c, ptr) ==
  [mem EXCEPT
     !.cells[ptr].object = None,
     !.pools[c] = [m_Current |-> <<ptr>> \o @.m_Current, m_Allocated |-> @.m_Allocated - 1]]

\* operator new: a cell of no pool.
New(mem, object) == [mem EXCEPT !.cells = Append(@, [home |-> None, object |-> object])]

Write(mem, ptr, data) == [mem EXCEPT !.cells[ptr].object.data = data]
==============================================================================
