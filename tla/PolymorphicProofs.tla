-------------------------- MODULE PolymorphicProofs --------------------------
(***************************************************************************)
(* Every property of Polymorphic, for any classes and any hierarchy among  *)
(* them, any number of values and of cells, and any order of the static    *)
(* initialisers: PolymorphicInv is inductive and implies them.             *)
(***************************************************************************)
EXTENDS PolymorphicInv, CommonProofs

(***************************************************************************)
(* The pool allocator: what each of its operations does to the cells and   *)
(* the free lists.                                                         *)
(***************************************************************************)

\* A concatenation, place by place.
LEMMA ConcatProps ==
  ASSUME NEW A, NEW s \in Seq(A), NEW t \in Seq(A)
  PROVE  /\ s \o t \in Seq(A)
         /\ Len(s \o t) = Len(s) + Len(t)
         /\ DOMAIN (s \o t) = 1 .. Len(s) + Len(t)
         /\ \A i \in 1 .. Len(s) : (s \o t)[i] = s[i]
         /\ \A i \in 1 .. Len(t) : (s \o t)[Len(s) + i] = t[i]
OBVIOUS

\* A function on 1 .. n is a sequence.
LEMMA FunctionSeq ==
  ASSUME NEW A, NEW n \in Nat, NEW f \in [1 .. n -> A]
  PROVE  f \in Seq(A) /\ Len(f) = n /\ DOMAIN f = 1 .. n
OBVIOUS

\* What is left of a sequence without its first place.
LEMMA TailProps ==
  ASSUME NEW A, NEW s \in Seq(A), s # << >>
  PROVE  /\ Tail(s) \in Seq(A)
         /\ Len(s) \in Nat \ {0}
         /\ DOMAIN Tail(s) = 1 .. Len(s) - 1
         /\ \A i \in 1 .. Len(s) - 1 : Tail(s)[i] = s[i + 1] /\ i + 1 \in DOMAIN s
OBVIOUS

\* g is f, but for the value at x.
Changed(f, g, x, y) == g = [f EXCEPT ![x] = y]

\* A block of K cells is added to the pool of c, whose list was empty.
BlockAdded(cells, cur, cells2, cur2, c, n, K) ==
  /\ Len(cells) = n /\ cur[c] = << >>
  /\ cells2 \in Seq(CellType) /\ Len(cells2) = n + K
  /\ \A p \in 1 .. n : cells2[p] = cells[p]
  /\ \A p \in n + 1 .. n + K : cells2[p].home = c /\ cells2[p].object = None
  /\ \E fresh \in Seq(1 .. n + K) :
       /\ Len(fresh) = K
       /\ \A i \in 1 .. K : fresh[i] = n + K + 1 - i
       /\ Changed(cur, cur2, c, fresh)

\* Its cells are free, and nothing else changes.
LEMMA BlockInv ==
  ASSUME NEW n \in Nat, NEW K \in Nat \ {0}, NEW O, NEW c \in Class,
         NEW cells, NEW cur, CellsInv(cells, cur, O),
         NEW cells2, NEW cur2, BlockAdded(cells, cur, cells2, cur2, c, n, K)
  PROVE  /\ CellsInv(cells2, cur2, O)
         /\ AtHome(cells, cur) => AtHome(cells2, cur2)
<1>0. PICK fresh \in Seq(1 .. n + K) :
        /\ Len(fresh) = K
        /\ \A i \in 1 .. K : fresh[i] = n + K + 1 - i
        /\ Changed(cur, cur2, c, fresh)
  BY DEF BlockAdded
<1>a. /\ Len(cells) = n /\ cur[c] = << >>
      /\ cells2 \in Seq(CellType) /\ Len(cells2) = n + K
  BY DEF BlockAdded
<1>b. \A p \in 1 .. n : cells2[p] = cells[p]
  BY DEF BlockAdded
<1>c. \A p \in n + 1 .. n + K : cells2[p].home = c /\ cells2[p].object = None
  BY DEF BlockAdded
<1>1. /\ DOMAIN cells = 1 .. n /\ DOMAIN cells2 = 1 .. n + K
      /\ cur \in [Class -> Seq(1 .. n)]
  BY <1>a DEF CellsInv
<1>2. ASSUME NEW d \in Class, NEW i \in DOMAIN cur[d]
      PROVE  cur[d][i] \in 1 .. n
  <2>1. cur[d] \in Seq(1 .. n)
    BY <1>1
  <2> QED
    BY <2>1
<1>3. \A i \in 1 .. K : n + K + 1 - i \in n + 1 .. n + K /\ n + K + 1 - i \in 1 .. n + K
  OBVIOUS
<1>4. DOMAIN fresh = 1 .. K /\ \A i \in 1 .. K : fresh[i] = n + K + 1 - i /\ fresh[i] \in n + 1 .. n + K
  BY <1>0, <1>3
<1>5. cur2[c] = fresh /\ \A d \in Class \ {c} : cur2[d] = cur[d]
  BY <1>0, <1>1 DEF Changed
<1>6. cur2 \in [Class -> Seq(1 .. n + K)]
  <2>1. \A d \in Class : cur[d] \in Seq(1 .. n + K)
    BY <1>1
  <2> QED
    BY <1>0, <1>1, <2>1 DEF Changed
<1>7. \A p \in n + 1 .. n + K : Free(cur2, p)
  <2> SUFFICES ASSUME NEW p \in n + 1 .. n + K
               PROVE  Free(cur2, p)
    OBVIOUS
  <2>1. n + K + 1 - p \in 1 .. K /\ n + K + 1 - (n + K + 1 - p) = p
    OBVIOUS
  <2>2. fresh[n + K + 1 - p] = p
    BY <1>4, <2>1
  <2> QED
    BY <1>4, <1>5, <2>1, <2>2 DEF Free
<1>8. \A p \in 1 .. n : Free(cur2, p) <=> Free(cur, p)
  <2> SUFFICES ASSUME NEW p \in 1 .. n
               PROVE  Free(cur2, p) <=> Free(cur, p)
    OBVIOUS
  <2>1. \A i \in DOMAIN fresh : fresh[i] # p
    BY <1>4
  <2>2. ASSUME NEW d \in Class, NEW i \in DOMAIN cur2[d], cur2[d][i] = p
        PROVE  Free(cur, p)
    BY <1>5, <2>1, <2>2 DEF Free
  <2>3. ASSUME NEW d \in Class, NEW i \in DOMAIN cur[d], cur[d][i] = p
        PROVE  Free(cur2, p)
    <3>1. d # c
      BY <1>a, <2>3
    <3> QED
      BY <1>5, <2>3, <3>1 DEF Free
  <2> QED
    BY <2>2, <2>3 DEF Free
<1>9. FreeOnce(cur2)
  <2> SUFFICES ASSUME NEW d \in Class, NEW e \in Class,
                      NEW i \in DOMAIN cur2[d], NEW j \in DOMAIN cur2[e], cur2[d][i] = cur2[e][j]
               PROVE  d = e /\ i = j
    BY DEF FreeOnce
  <2>0. FreeOnce(cur)
    BY DEF CellsInv
  <2>1. CASE d # c /\ e # c
    BY <2>0, <2>1, <1>5 DEF FreeOnce
  <2>2. CASE d = c /\ e # c
    <3>1. cur2[e][j] \in 1 .. n /\ cur2[d][i] \in n + 1 .. n + K
      BY <2>2, <1>2, <1>4, <1>5
    <3> QED
      BY <3>1
  <2>3. CASE d # c /\ e = c
    <3>1. cur2[d][i] \in 1 .. n /\ cur2[e][j] \in n + 1 .. n + K
      BY <2>3, <1>2, <1>4, <1>5
    <3> QED
      BY <3>1
  <2>4. CASE d = c /\ e = c
    BY <2>4, <1>4, <1>5
  <2> QED
    BY <2>1, <2>2, <2>3, <2>4
<1>10. ASSUME NEW p \in 1 .. n + K
       PROVE  (p \in O <=> ~Free(cur2, p)) /\ (p \in O <=> cells2[p].object # None)
  <2>1. CASE p \in 1 .. n
    BY <2>1, <1>1, <1>8, <1>b DEF CellsInv
  <2>2. CASE p \in n + 1 .. n + K
    <3>1. p \notin O
      BY <2>2, <1>1 DEF CellsInv
    <3>2. cells2[p].object = None
      BY <1>c, <2>2
    <3> QED
      BY <2>2, <3>1, <3>2, <1>7
  <2> QED
    BY <2>1, <2>2
<1>11. O \subseteq 1 .. n + K
  BY <1>1 DEF CellsInv
<1>12. CellsInv(cells2, cur2, O)
  BY <1>a, <1>1, <1>6, <1>9, <1>10, <1>11 DEF CellsInv
<1>13. AtHome(cells, cur) => AtHome(cells2, cur2)
  <2> SUFFICES ASSUME AtHome(cells, cur), NEW d \in Class, NEW i \in DOMAIN cur2[d]
               PROVE  cells2[cur2[d][i]].home = d
    BY DEF AtHome
  <2>1. CASE d = c
    BY <2>1, <1>4, <1>5, <1>c
  <2>2. CASE d # c
    <3>1. cur2[d] = cur[d] /\ cur[d][i] \in 1 .. n
      BY <2>2, <1>2, <1>5
    <3> QED
      BY <3>1, <1>b DEF AtHome
  <2> QED
    BY <2>1, <2>2
<1> QED
  BY <1>12, <1>13

\* Object o is put in cell p.
Put(cells, cells2, p, o) == cells2 = [cells EXCEPT ![p] = [home |-> cells[p].home, object |-> o]]

\* The cells that are not written to keep their contents.
SameBut(cells, cells2, x) ==
  /\ DOMAIN cells2 = DOMAIN cells
  /\ \A p \in DOMAIN cells : cells2[p].home = cells[p].home
  /\ \A p \in DOMAIN cells \ {x} : cells2[p] = cells[p]

\* An object is put in a cell, or the cell is left without one.
LEMMA ObjectWritten ==
  ASSUME NEW cells \in Seq(CellType), NEW p \in DOMAIN cells, NEW o, o \in ObjectType \/ o = None,
         NEW cells2, Put(cells, cells2, p, o)
  PROVE  /\ cells2 \in Seq(CellType)
         /\ SameBut(cells, cells2, p)
         /\ cells2[p].object = o
<1>1. /\ cells[p] \in CellType
      /\ DOMAIN cells2 = DOMAIN cells
      /\ cells2[p] = [home |-> cells[p].home, object |-> o]
      /\ \A q \in DOMAIN cells \ {p} : cells2[q] = cells[q]
  BY DEF Put
<1>2. cells2[p].home = cells[p].home /\ cells2[p].object = o /\ cells2[p] \in CellType
  BY <1>1 DEF CellType
<1>3. Len(cells) \in Nat /\ DOMAIN cells = 1 .. Len(cells)
  OBVIOUS
<1>4. \A q \in DOMAIN cells : cells2[q] \in CellType
  BY <1>1, <1>2
<1>5. cells2 \in [1 .. Len(cells) -> CellType]
  BY <1>3, <1>4 DEF Put
<1> QED
  BY <1>1, <1>2, <1>3, <1>5, FunctionSeq DEF SameBut

\* The top cell of a free list is taken for an object.
Popped(cells, cur, cells2, cur2, c, p, o) ==
  /\ cur[c] # << >> /\ p = Head(cur[c])
  /\ Put(cells, cells2, p, o)
  /\ Changed(cur, cur2, c, Tail(cur[c]))

LEMMA PopInv ==
  ASSUME NEW O, NEW c \in Class, NEW cells, NEW cur, CellsInv(cells, cur, O),
         NEW p, NEW o \in ObjectType, o # None,
         NEW cells2, NEW cur2, Popped(cells, cur, cells2, cur2, c, p, o)
  PROVE  /\ p \in DOMAIN cells /\ p \notin O
         /\ CellsInv(cells2, cur2, O \cup {p})
         /\ SameBut(cells, cells2, p) /\ cells2[p].object = o
         /\ AtHome(cells, cur) => AtHome(cells2, cur2) /\ cells[p].home = c
<1>0. cur[c] # << >> /\ p = Head(cur[c]) /\ Put(cells, cells2, p, o) /\ Changed(cur, cur2, c, Tail(cur[c]))
  BY DEF Popped
<1> USE <1>0
<1>1. cells \in Seq(CellType) /\ cur \in [Class -> Seq(DOMAIN cells)]
  BY DEF CellsInv
<1>2. cur[c] \in Seq(DOMAIN cells) /\ Len(cur[c]) \in Nat /\ Len(cur[c]) # 0
  BY <1>1
<1>3. p = cur[c][1] /\ 1 \in DOMAIN cur[c] /\ p \in DOMAIN cells
  BY <1>2
<1>4. p \notin O
  BY <1>3 DEF CellsInv, Free
<1>5. /\ cur2[c] \in Seq(DOMAIN cells) /\ DOMAIN cur2[c] = 1 .. Len(cur[c]) - 1
      /\ \A i \in 1 .. Len(cur[c]) - 1 : i + 1 \in DOMAIN cur[c] /\ cur2[c][i] = cur[c][i + 1]
      /\ \A d \in Class \ {c} : cur2[d] = cur[d]
  <2>1. cur2[c] = Tail(cur[c]) /\ \A d \in Class \ {c} : cur2[d] = cur[d]
    BY <1>1 DEF Changed
  <2>2. Tail(cur[c]) \in Seq(DOMAIN cells)
    BY <1>2, TailProps
  <2>3. /\ DOMAIN Tail(cur[c]) = 1 .. Len(cur[c]) - 1
        /\ \A i \in 1 .. Len(cur[c]) - 1 : Tail(cur[c])[i] = cur[c][i + 1]
    BY <1>2
  <2>4. \A i \in 1 .. Len(cur[c]) - 1 : i + 1 \in DOMAIN cur[c]
    BY <1>2
  <2> QED
    BY <2>1, <2>2, <2>3, <2>4
<1>6. cur2 \in [Class -> Seq(DOMAIN cells)]
  BY <1>1, <1>5 DEF Changed
<1>7. cells2 \in Seq(CellType) /\ SameBut(cells, cells2, p) /\ cells2[p].object = o
  BY <1>1, <1>3, ObjectWritten
<1>8. DOMAIN cells2 = DOMAIN cells /\ \A q \in DOMAIN cells \ {p} : cells2[q] = cells[q]
  BY <1>7 DEF SameBut
<1>10. \A q \in DOMAIN cells \ {p} : Free(cur2, q) <=> Free(cur, q)
  <2> SUFFICES ASSUME NEW q \in DOMAIN cells \ {p}
               PROVE  Free(cur2, q) <=> Free(cur, q)
    OBVIOUS
  <2>1. ASSUME NEW d \in Class, NEW i \in DOMAIN cur2[d], cur2[d][i] = q
        PROVE  Free(cur, q)
    BY <1>5, <2>1 DEF Free
  <2>2. ASSUME NEW d \in Class, NEW i \in DOMAIN cur[d], cur[d][i] = q
        PROVE  Free(cur2, q)
    <3>1. CASE d # c
      BY <1>5, <2>2, <3>1 DEF Free
    <3>2. CASE d = c
      <4>1. i # 1
        BY <1>3, <2>2, <3>2
      <4>2. i - 1 \in 1 .. Len(cur[c]) - 1 /\ (i - 1) + 1 = i
        BY <1>2, <3>2, <4>1
      <4>3. cur2[c][i - 1] = q
        BY <1>5, <2>2, <3>2, <4>2
      <4> QED
        BY <1>5, <4>2, <4>3 DEF Free
    <3> QED
      BY <3>1, <3>2
  <2> QED
    BY <2>1, <2>2 DEF Free
<1>11. ~Free(cur2, p)
  <2> SUFFICES ASSUME NEW d \in Class, NEW i \in DOMAIN cur2[d], cur2[d][i] = p
               PROVE  FALSE
    BY DEF Free
  <2>1. CASE d # c
    BY <1>3, <1>5, <2>1 DEF CellsInv, FreeOnce
  <2>2. CASE d = c
    <3>0. i \in 1 .. Len(cur[c]) - 1
      BY <1>5, <2>2
    <3>1. i + 1 \in DOMAIN cur[c] /\ cur[c][i + 1] = cur[c][1] /\ i + 1 # 1
      BY <1>2, <1>3, <1>5, <2>2, <3>0
    <3> QED
      BY <1>3, <3>1 DEF CellsInv, FreeOnce
  <2> QED
    BY <2>1, <2>2
<1>12. FreeOnce(cur2)
  <2> SUFFICES ASSUME NEW d \in Class, NEW e \in Class,
                      NEW i \in DOMAIN cur2[d], NEW j \in DOMAIN cur2[e], cur2[d][i] = cur2[e][j]
               PROVE  d = e /\ i = j
    BY DEF FreeOnce
  <2>0. FreeOnce(cur)
    BY DEF CellsInv
  <2>1. CASE d # c /\ e # c
    BY <2>0, <2>1, <1>5 DEF FreeOnce
  <2>2. CASE d = c /\ e # c
    BY <2>0, <2>2, <1>5 DEF FreeOnce
  <2>3. CASE d # c /\ e = c
    BY <2>0, <2>3, <1>5 DEF FreeOnce
  <2>4. CASE d = c /\ e = c
    <3>1. i \in 1 .. Len(cur[c]) - 1 /\ j \in 1 .. Len(cur[c]) - 1
      BY <2>4, <1>5
    <3>2. /\ i + 1 \in DOMAIN cur[c] /\ j + 1 \in DOMAIN cur[c]
          /\ cur[c][i + 1] = cur[c][j + 1]
      BY <2>4, <3>1, <1>5
    <3>3. i + 1 = j + 1
      BY <2>0, <3>2 DEF FreeOnce
    <3> QED
      BY <2>4, <3>1, <3>3
  <2> QED
    BY <2>1, <2>2, <2>3, <2>4
<1>13. ASSUME NEW q \in DOMAIN cells
       PROVE  (q \in O \cup {p} <=> ~Free(cur2, q)) /\ (q \in O \cup {p} <=> cells2[q].object # None)
  <2>1. CASE q = p
    BY <2>1, <1>7, <1>11
  <2>2. CASE q # p
    BY <2>2, <1>8, <1>10 DEF CellsInv
  <2> QED
    BY <2>1, <2>2
<1>14. CellsInv(cells2, cur2, O \cup {p})
  <2>1. O \cup {p} \subseteq DOMAIN cells2
    BY <1>3, <1>8 DEF CellsInv
  <2> QED
    BY <2>1, <1>6, <1>7, <1>8, <1>12, <1>13 DEF CellsInv
<1>15. ASSUME AtHome(cells, cur)
       PROVE  AtHome(cells2, cur2) /\ cells[p].home = c
  <2>1. ASSUME NEW d \in Class, NEW i \in DOMAIN cur2[d]
        PROVE  cells2[cur2[d][i]].home = d
    <3>1. cur2[d][i] \in DOMAIN cells
      BY <1>6
    <3>2. cells[cur2[d][i]].home = d
      BY <1>5, <1>15 DEF AtHome
    <3> QED
      BY <3>1, <3>2, <1>7 DEF SameBut
  <2> QED
    BY <2>1, <1>3, <1>15 DEF AtHome
<1> QED
  BY <1>3, <1>4, <1>7, <1>14, <1>15

\* The cell of an object that is destroyed goes on top of a free list.
Pushed(cells, cur, cells2, cur2, c, p) ==
  Put(cells, cells2, p, None) /\ Changed(cur, cur2, c, <<p>> \o cur[c])

LEMMA PushInv ==
  ASSUME NEW O, NEW c \in Class, NEW cells, NEW cur, CellsInv(cells, cur, O), NEW p \in O,
         NEW cells2, NEW cur2, Pushed(cells, cur, cells2, cur2, c, p)
  PROVE  /\ CellsInv(cells2, cur2, O \ {p})
         /\ SameBut(cells, cells2, p)
         /\ cur2[c] # << >> /\ Head(cur2[c]) = p
         /\ AtHome(cells, cur) /\ cells[p].home = c => AtHome(cells2, cur2)
<1>0. Put(cells, cells2, p, None) /\ Changed(cur, cur2, c, <<p>> \o cur[c])
  BY DEF Pushed
<1> USE <1>0
<1>1. cells \in Seq(CellType) /\ cur \in [Class -> Seq(DOMAIN cells)] /\ p \in DOMAIN cells
  BY DEF CellsInv
<1>2. cur[c] \in Seq(DOMAIN cells) /\ Len(cur[c]) \in Nat /\ DOMAIN cur[c] = 1 .. Len(cur[c])
  BY <1>1
<1>3. ~Free(cur, p) /\ FreeOnce(cur)
  BY <1>1 DEF CellsInv
<1>4. PICK n \in Nat : n = Len(cur[c])
  BY <1>2
<1>5. PICK t : t = <<p>> \o cur[c]
  OBVIOUS
<1>6. /\ t \in Seq(DOMAIN cells) /\ DOMAIN t = 1 .. n + 1 /\ t[1] = p
      /\ \A i \in 2 .. n + 1 : i - 1 \in DOMAIN cur[c] /\ t[i] = cur[c][i - 1]
      /\ \A i \in 1 .. n : i + 1 \in 2 .. n + 1 /\ t[i + 1] = cur[c][i]
  <2>1. <<p>> \in Seq(DOMAIN cells) /\ Len(<<p>>) = 1 /\ <<p>>[1] = p
    BY <1>1
  <2>2. /\ t \in Seq(DOMAIN cells) /\ DOMAIN t = 1 .. 1 + n /\ t[1] = p
        /\ \A i \in 1 .. n : t[1 + i] = cur[c][i]
    BY <1>2, <1>4, <1>5, <2>1, ConcatProps
  <2>3. \A i \in 2 .. n + 1 : i - 1 \in 1 .. n /\ 1 + (i - 1) = i
    OBVIOUS
  <2>4. ASSUME NEW i \in 2 .. n + 1
        PROVE  i - 1 \in DOMAIN cur[c] /\ t[i] = cur[c][i - 1]
    <3>1. t[1 + (i - 1)] = cur[c][i - 1]
      BY <2>2, <2>3
    <3> QED
      BY <1>2, <1>4, <2>3, <3>1
  <2>5. ASSUME NEW i \in 1 .. n
        PROVE  i + 1 \in 2 .. n + 1 /\ t[i + 1] = cur[c][i]
    <3>1. 1 + i = i + 1
      OBVIOUS
    <3> QED
      BY <2>2, <3>1
  <2>6. 1 .. 1 + n = 1 .. n + 1
    OBVIOUS
  <2> QED
    BY <2>2, <2>4, <2>5, <2>6, Zenon
<1>7. cur2[c] = t /\ \A d \in Class \ {c} : cur2[d] = cur[d]
  BY <1>1, <1>5 DEF Changed
<1>8. cur2 \in [Class -> Seq(DOMAIN cells)]
  BY <1>1, <1>6, <1>7 DEF Changed
<1>9. cells2 \in Seq(CellType) /\ SameBut(cells, cells2, p) /\ cells2[p].object = None
  <2>1. cells \in Seq(CellType) /\ p \in DOMAIN cells
    BY <1>1
  <2>2. SameBut(cells, cells2, p)
    BY <2>1, ObjectWritten
  <2>3. cells2 \in Seq(CellType)
    BY <2>1, ObjectWritten
  <2>4. cells2[p].object = None
    BY <2>1 DEF Put
  <2> QED
    BY <2>2, <2>3, <2>4
<1>10. DOMAIN cells2 = DOMAIN cells /\ \A q \in DOMAIN cells \ {p} : cells2[q] = cells[q]
  BY <1>9 DEF SameBut
<1>11. Free(cur2, p)
  <2>1. 1 \in DOMAIN t
    BY <1>6
  <2> QED
    BY <1>6, <1>7, <2>1 DEF Free
<1>12. \A q \in DOMAIN cells \ {p} : Free(cur2, q) <=> Free(cur, q)
  <2> SUFFICES ASSUME NEW q \in DOMAIN cells \ {p}
               PROVE  Free(cur2, q) <=> Free(cur, q)
    OBVIOUS
  <2>1. ASSUME NEW d \in Class, NEW i \in DOMAIN cur2[d], cur2[d][i] = q
        PROVE  Free(cur, q)
    <3>1. CASE d # c
      BY <1>7, <2>1, <3>1 DEF Free
    <3>2. CASE d = c
      <4>1. i \in 2 .. n + 1
        BY <1>6, <1>7, <2>1, <3>2
      <4> QED
        BY <1>6, <1>7, <2>1, <3>2, <4>1 DEF Free
    <3> QED
      BY <3>1, <3>2
  <2>2. ASSUME NEW d \in Class, NEW i \in DOMAIN cur[d], cur[d][i] = q
        PROVE  Free(cur2, q)
    <3>1. CASE d # c
      BY <1>7, <2>2, <3>1 DEF Free
    <3>2. CASE d = c
      <4>1. i \in 1 .. n
        BY <1>2, <1>4, <3>2
      <4>2. i + 1 \in DOMAIN t /\ t[i + 1] = q
        BY <1>6, <2>2, <3>2, <4>1
      <4> QED
        BY <1>7, <4>2 DEF Free
    <3> QED
      BY <3>1, <3>2
  <2> QED
    BY <2>1, <2>2 DEF Free
<1>13. FreeOnce(cur2)
  <2> SUFFICES ASSUME NEW d \in Class, NEW e \in Class,
                      NEW i \in DOMAIN cur2[d], NEW j \in DOMAIN cur2[e], cur2[d][i] = cur2[e][j]
               PROVE  d = e /\ i = j
    BY DEF FreeOnce
  <2>1. CASE d # c /\ e # c
    BY <2>1, <1>3, <1>7 DEF FreeOnce
  <2>2. CASE d = c /\ e # c
    <3>1. i # 1
      BY <2>2, <1>3, <1>6, <1>7 DEF Free
    <3>2. i \in 2 .. n + 1
      BY <2>2, <3>1, <1>6, <1>7
    <3>3. i - 1 \in DOMAIN cur[c] /\ cur2[d][i] = cur[c][i - 1] /\ cur2[e] = cur[e]
      BY <2>2, <3>2, <1>6, <1>7
    <3> QED
      BY <2>2, <3>3, <1>3 DEF FreeOnce
  <2>3. CASE d # c /\ e = c
    <3>1. j # 1
      BY <2>3, <1>3, <1>6, <1>7 DEF Free
    <3>2. j \in 2 .. n + 1
      BY <2>3, <3>1, <1>6, <1>7
    <3>3. j - 1 \in DOMAIN cur[c] /\ cur2[e][j] = cur[c][j - 1] /\ cur2[d] = cur[d]
      BY <2>3, <3>2, <1>6, <1>7
    <3> QED
      BY <2>3, <3>3, <1>3 DEF FreeOnce
  <2>4. CASE d = c /\ e = c
    <3>1. i \in 1 .. n + 1 /\ j \in 1 .. n + 1 /\ t[i] = t[j]
      BY <2>4, <1>6, <1>7
    <3>2. CASE i # 1 /\ j # 1
      <4>1. i \in 2 .. n + 1 /\ j \in 2 .. n + 1
        BY <3>1, <3>2
      <4>2. i - 1 = j - 1
        BY <3>1, <4>1, <1>3, <1>6 DEF FreeOnce
      <4> QED
        BY <2>4, <3>1, <4>2
    <3>3. CASE i = 1 /\ j # 1
      <4>1. j \in 2 .. n + 1
        BY <3>1, <3>3
      <4> QED
        BY <3>1, <3>3, <4>1, <1>3, <1>6 DEF Free
    <3>4. CASE i # 1 /\ j = 1
      <4>1. i \in 2 .. n + 1
        BY <3>1, <3>4
      <4> QED
        BY <3>1, <3>4, <4>1, <1>3, <1>6 DEF Free
    <3> QED
      BY <2>4, <3>2, <3>3, <3>4
  <2> QED
    BY <2>1, <2>2, <2>3, <2>4
<1>14. ASSUME NEW q \in DOMAIN cells
       PROVE  (q \in O \ {p} <=> ~Free(cur2, q)) /\ (q \in O \ {p} <=> cells2[q].object # None)
  <2>1. CASE q = p
    BY <2>1, <1>9, <1>11
  <2>2. CASE q # p
    BY <2>2, <1>10, <1>12 DEF CellsInv
  <2> QED
    BY <2>1, <2>2
<1>15. CellsInv(cells2, cur2, O \ {p})
  <2>1. O \ {p} \subseteq DOMAIN cells2
    BY <1>10 DEF CellsInv
  <2> QED
    BY <2>1, <1>8, <1>9, <1>10, <1>13, <1>14 DEF CellsInv
<1>16. ASSUME AtHome(cells, cur), cells[p].home = c
       PROVE  AtHome(cells2, cur2)
  <2> SUFFICES ASSUME NEW d \in Class, NEW i \in DOMAIN cur2[d]
               PROVE  cells2[cur2[d][i]].home = d
    BY DEF AtHome
  <2>1. cur2[d][i] \in DOMAIN cells
    BY <1>8
  <2>2. cells[cur2[d][i]].home = d
    <3>1. CASE d # c
      BY <3>1, <1>7, <1>16 DEF AtHome
    <3>2. CASE d = c /\ i = 1
      BY <3>2, <1>6, <1>7, <1>16
    <3>3. CASE d = c /\ i # 1
      <4>1. i \in 2 .. n + 1
        BY <3>3, <1>6, <1>7
      <4>2. i - 1 \in DOMAIN cur[c] /\ cur2[d][i] = cur[c][i - 1]
        BY <3>3, <4>1, <1>6, <1>7
      <4>3. cells[cur[c][i - 1]].home = c
        BY <4>2, <1>16 DEF AtHome
      <4> QED
        BY <3>3, <4>2, <4>3
    <3> QED
      BY <3>1, <3>2, <3>3
  <2> QED
    BY <2>1, <2>2, <1>9 DEF SameBut
<1>17. cur2[c] # << >> /\ Head(cur2[c]) = p
  BY <1>6, <1>7
<1> QED
  BY <1>9, <1>15, <1>16, <1>17

\* A cell of no pool.
Appended(cells, cells2, n, cell) ==
  n = Len(cells) /\ cells2 = Append(cells, cell) /\ cell.object # None

LEMMA AppendInv ==
  ASSUME NEW O, NEW cells, NEW cur, CellsInv(cells, cur, O),
         NEW n \in Nat, NEW cell \in CellType,
         NEW cells2, Appended(cells, cells2, n, cell)
  PROVE  CellsInv(cells2, cur, O \cup {n + 1})
<1>1. cells \in Seq(CellType) /\ cur \in [Class -> Seq(DOMAIN cells)] /\ DOMAIN cells = 1 .. n
  BY DEF CellsInv, Appended
<1>2. /\ cells2 \in Seq(CellType) /\ DOMAIN cells2 = 1 .. n + 1
      /\ cells2[n + 1] = cell /\ \A p \in 1 .. n : cells2[p] = cells[p]
  BY <1>1 DEF Appended
<1>3. n + 1 \notin O /\ O \cup {n + 1} \subseteq 1 .. n + 1
  BY <1>1 DEF CellsInv
<1>4. cur \in [Class -> Seq(1 .. n + 1)]
  <2>1. 1 .. n \subseteq 1 .. n + 1
    OBVIOUS
  <2> QED
    BY <1>1, <2>1
<1>5. ~Free(cur, n + 1)
  <2> SUFFICES ASSUME NEW c \in Class, NEW i \in DOMAIN cur[c], cur[c][i] = n + 1
               PROVE  FALSE
    BY DEF Free
  <2>1. cur[c] \in Seq(1 .. n)
    BY <1>1
  <2>2. cur[c][i] \in 1 .. n
    BY <2>1
  <2> QED
    BY <2>2
<1>6. ASSUME NEW q \in 1 .. n + 1
      PROVE  /\ q \in O \cup {n + 1} <=> ~Free(cur, q)
             /\ q \in O \cup {n + 1} <=> cells2[q].object # None
  <2>1. CASE q = n + 1
    BY <2>1, <1>2, <1>5 DEF Appended
  <2>2. CASE q # n + 1
    <3>1. q \in 1 .. n
      BY <2>2
    <3> QED
      BY <2>2, <3>1, <1>1, <1>2 DEF CellsInv
  <2> QED
    BY <2>1, <2>2
<1> QED
  BY <1>1, <1>2, <1>3, <1>4, <1>6 DEF CellsInv

(***************************************************************************)
(* The same for the memory as a whole.                                     *)
(***************************************************************************)
Counts(m) == [c \in Class |-> m.pools[c].m_Allocated]
Heap(m) == {p \in DOMAIN m.cells : m.cells[p].home = None}
Home(m) == AtHome(m.cells, Lists(m))
PoolType == [m_Current : Seq(Nat), m_Allocated : Int]
MemoryType == [cells : Seq(CellType), pools : [Class -> PoolType]]

\* The cells X and the cells made by new are the same in both.
Kept(m, m2, X) == Heap(m2) = Heap(m) /\ \A q \in X : q \in DOMAIN m2.cells /\ m2.cells[q] = m.cells[q]

\* The parts of a memory.
LEMMA MemoryParts ==
  ASSUME NEW m \in MemoryType
  PROVE  /\ m.cells \in Seq(CellType)
         /\ m.pools \in [Class -> PoolType]
         /\ DOMAIN Lists(m) = Class /\ DOMAIN Counts(m) = Class
         /\ \A c \in Class : /\ m.pools[c] \in PoolType
                             /\ Lists(m)[c] = m.pools[c].m_Current
                             /\ Counts(m)[c] = m.pools[c].m_Allocated
                             /\ Lists(m)[c] \in Seq(Nat) /\ Counts(m)[c] \in Int
BY DEF MemoryType, PoolType, Lists, Counts

\* A memory in which one pool and the cells have changed.
LEMMA MemoryChanged ==
  ASSUME NEW m \in MemoryType, NEW c \in Class, NEW cells \in Seq(CellType), NEW list \in Seq(Nat),
         NEW count \in Int,
         NEW m2, m2 = [cells |-> cells,
                       pools |-> [m.pools EXCEPT ![c] = [m_Current |-> list, m_Allocated |-> count]]]
  PROVE  /\ m2 \in MemoryType
         /\ m2.cells = cells
         /\ Changed(Lists(m), Lists(m2), c, list)
         /\ Changed(Counts(m), Counts(m2), c, count)
<1>1. m.pools \in [Class -> PoolType]
  BY MemoryParts
<1>2. [m_Current |-> list, m_Allocated |-> count] \in PoolType
  BY DEF PoolType
<1>3. PICK pool \in PoolType : pool = [m_Current |-> list, m_Allocated |-> count]
  BY <1>2
<1>4. PICK pools \in [Class -> PoolType] : pools = [m.pools EXCEPT ![c] = pool]
  BY <1>1
<1>5. m2 = [cells |-> cells, pools |-> pools]
  BY <1>3, <1>4
<1>6. m2 \in MemoryType /\ m2.cells = cells /\ m2.pools = pools
  BY <1>5 DEF MemoryType
<1>7. /\ m2.pools[c].m_Current = list /\ m2.pools[c].m_Allocated = count
      /\ \A d \in Class \ {c} : m2.pools[d] = m.pools[d]
  BY <1>1, <1>3, <1>4, <1>6
<1>8. Changed(Lists(m), Lists(m2), c, list)
  <2>1. Lists(m2) = [d \in Class |-> IF d = c THEN list ELSE m.pools[d].m_Current]
    BY <1>7 DEF Lists
  <2>2. [Lists(m) EXCEPT ![c] = list] = [d \in Class |-> IF d = c THEN list ELSE m.pools[d].m_Current]
    BY DEF Lists
  <2> QED
    BY <2>1, <2>2 DEF Changed
<1>9. Changed(Counts(m), Counts(m2), c, count)
  <2>1. Counts(m2) = [d \in Class |-> IF d = c THEN count ELSE m.pools[d].m_Allocated]
    BY <1>7 DEF Counts
  <2>2. [Counts(m) EXCEPT ![c] = count] = [d \in Class |-> IF d = c THEN count ELSE m.pools[d].m_Allocated]
    BY DEF Counts
  <2> QED
    BY <2>1, <2>2 DEF Changed
<1> QED
  BY <1>6, <1>8, <1>9

\* A pool that is asked for a cell has one.
LEMMA GrownInv ==
  ASSUME NEW m, NEW O, MemoryInv(m, O), NEW c \in Class, NEW g, g = Grown(m, c)
  PROVE  /\ MemoryInv(g, O)
         /\ Lists(g)[c] # << >>
         /\ Kept(m, g, O)
         /\ Counts(g) = Counts(m)
         /\ Home(m) => Home(g)
<1>1. m \in MemoryType /\ CellsInv(m.cells, Lists(m), O) /\ O \subseteq DOMAIN m.cells
  BY DEF MemoryInv, MemoryType, PoolType, CellsInv
<1>2. CASE m.pools[c].m_Current # << >>
  <2>1. g = m
    BY <1>2 DEF Grown
  <2> QED
    BY <1>1, <1>2, <2>1, MemoryParts DEF Kept
<1>3. CASE m.pools[c].m_Current = << >>
  <2>1. PICK K \in Nat \ {0} : K = kElemsPerBlock
    BY BlockAssumption
  <2>2. m.cells \in Seq(CellType) /\ m.pools \in [Class -> PoolType] /\ Lists(m)[c] = << >>
    BY <1>1, <1>3, MemoryParts
  <2>3. PICK n \in Nat : n = Len(m.cells)
    BY <2>2
  <2>4. PICK cell \in CellType : cell = [home |-> c, object |-> None]
    BY DEF CellType
  <2>5. PICK block : block = [i \in 1 .. K |-> cell]
    OBVIOUS
  <2>6. PICK fresh : fresh = [i \in 1 .. K |-> n + K + 1 - i]
    OBVIOUS
  <2>7. block \in Seq(CellType) /\ Len(block) = K /\ \A i \in 1 .. K : block[i] = cell
    <3>1. block \in [1 .. K -> CellType]
      BY <2>5
    <3> QED
      BY <2>5, <3>1, FunctionSeq
  <2>8. /\ fresh \in Seq(1 .. n + K) /\ fresh \in Seq(Nat) /\ Len(fresh) = K
        /\ \A i \in 1 .. K : fresh[i] = n + K + 1 - i
    <3>1. \A i \in 1 .. K : n + K + 1 - i \in 1 .. n + K /\ n + K + 1 - i \in Nat
      OBVIOUS
    <3>2. fresh \in [1 .. K -> 1 .. n + K] /\ fresh \in [1 .. K -> Nat]
      BY <2>6, <3>1
    <3>3. \A i \in 1 .. K : fresh[i] = n + K + 1 - i
      BY <2>6
    <3> QED
      BY <3>2, <3>3, FunctionSeq
  <2>9. g = [m EXCEPT !.cells = @ \o block, !.pools[c].m_Current = fresh \o @]
    BY <1>3, <2>1, <2>3, <2>4, <2>5, <2>6 DEF Grown, Grow
  <2>10. fresh \o << >> = fresh
    BY <2>8
  <2>11. PICK cells : cells = m.cells \o block
    OBVIOUS
  <2>12. m.pools[c] \in PoolType /\ m.pools[c].m_Allocated \in Int
    BY <2>2 DEF PoolType
  <2>13. g = [cells |-> cells,
              pools |-> [m.pools EXCEPT ![c] = [m_Current |-> fresh, m_Allocated |-> m.pools[c].m_Allocated]]]
    <3>1. [m.pools[c] EXCEPT !.m_Current = fresh] = [m_Current |-> fresh, m_Allocated |-> m.pools[c].m_Allocated]
      BY <2>12 DEF PoolType
    <3>2. m.pools[c].m_Current = << >>
      BY <1>3
    <3>3. g = [cells |-> m.cells \o block, pools |-> [m.pools EXCEPT ![c] = [m.pools[c] EXCEPT !.m_Current = fresh]]]
      BY <1>1, <2>2, <2>9, <2>10, <3>2 DEF MemoryType
    <3> QED
      BY <2>11, <3>1, <3>3
  <2>14. /\ cells \in Seq(CellType) /\ Len(cells) = n + K
         /\ \A p \in 1 .. n : cells[p] = m.cells[p]
         /\ \A i \in 1 .. K : cells[n + i] = cell
    <3>1. m.cells \in Seq(CellType) /\ block \in Seq(CellType)
      BY <2>2, <2>7
    <3>2. /\ m.cells \o block \in Seq(CellType)
          /\ Len(m.cells \o block) = Len(m.cells) + Len(block)
          /\ \A i \in 1 .. Len(m.cells) : (m.cells \o block)[i] = m.cells[i]
          /\ \A i \in 1 .. Len(block) : (m.cells \o block)[Len(m.cells) + i] = block[i]
      BY <3>1, ConcatProps
    <3> QED
      BY <2>3, <2>7, <2>11, <3>2
  <2>15. \A p \in n + 1 .. n + K : cells[p].home = c /\ cells[p].object = None
    <3> SUFFICES ASSUME NEW p \in n + 1 .. n + K
                 PROVE  cells[p] = cell
      BY <2>4
    <3>1. p - n \in 1 .. K /\ n + (p - n) = p
      OBVIOUS
    <3> QED
      BY <2>14, <3>1
  <2>16. /\ g \in MemoryType /\ g.cells = cells
         /\ Changed(Lists(m), Lists(g), c, fresh)
         /\ Changed(Counts(m), Counts(g), c, m.pools[c].m_Allocated)
    BY <1>1, <2>8, <2>12, <2>13, <2>14, MemoryChanged
  <2>17. CellsInv(g.cells, Lists(g), O) /\ (Home(m) => Home(g))
    <3>1. CellsInv(cells, Lists(g), O) /\ (AtHome(m.cells, Lists(m)) => AtHome(cells, Lists(g)))
      <4>1. PICK old : old = m.cells
        OBVIOUS
      <4>2. PICK cur : cur = Lists(m)
        OBVIOUS
      <4>3. PICK cur2 : cur2 = Lists(g)
        OBVIOUS
      <4>4. CellsInv(old, cur, O) /\ Len(old) = n /\ cur[c] = << >> /\ Changed(cur, cur2, c, fresh)
        BY <1>1, <2>2, <2>3, <2>16, <4>1, <4>2, <4>3
      <4>5. \A p \in 1 .. n : cells[p] = old[p]
        BY <2>14, <4>1
      <4>6. BlockAdded(old, cur, cells, cur2, c, n, K)
        BY <2>8, <2>14, <2>15, <4>4, <4>5, Zenon DEF BlockAdded
      <4>7. CellsInv(cells, cur2, O) /\ (AtHome(old, cur) => AtHome(cells, cur2))
        BY <4>4, <4>6, BlockInv
      <4> QED
        BY <4>1, <4>2, <4>3, <4>7
    <3> QED
      BY <2>16, <3>1 DEF Home
  <2>18. Lists(g)[c] = fresh /\ fresh # << >>
    BY <1>1, <2>8, <2>16, MemoryParts DEF Changed
  <2>19. Counts(g) = Counts(m)
    <3>1. Counts(g) = [Counts(m) EXCEPT ![c] = m.pools[c].m_Allocated]
      BY <2>16 DEF Changed
    <3> QED
      BY <3>1 DEF Counts
  <2>20. DOMAIN m.cells = 1 .. n /\ DOMAIN g.cells = 1 .. n + K
    BY <2>2, <2>3, <2>14, <2>16
  <2>21. Heap(g) = Heap(m)
    <3>1. ASSUME NEW p \in 1 .. n
          PROVE  p \in 1 .. n + K /\ g.cells[p] = m.cells[p]
      BY <2>14, <2>16
    <3>2. ASSUME NEW p \in 1 .. n + K, p \notin 1 .. n
          PROVE  g.cells[p].home # None
      <4>1. p \in n + 1 .. n + K
        BY <3>2
      <4>2. g.cells[p].home = c
        BY <4>1, <2>15, <2>16
      <4> QED
        BY <4>2, ClassAssumption DEF Class
    <3> QED
      BY <2>20, <3>1, <3>2 DEF Heap
  <2>22. Kept(m, g, O)
    <3>1. ASSUME NEW p \in O
          PROVE  p \in DOMAIN g.cells /\ g.cells[p] = m.cells[p]
      <4>1. p \in 1 .. n
        BY <1>1, <2>20
      <4> QED
        BY <4>1, <2>14, <2>16, <2>20
    <3> QED
      BY <2>21, <3>1 DEF Kept
  <2> QED
    BY <2>16, <2>17, <2>18, <2>19, <2>22 DEF MemoryInv, MemoryType, PoolType
<1> QED
  BY <1>2, <1>3

\* The object of a cell that holds one is a value of its type.
LEMMA OwnedObject ==
  ASSUME NEW m, NEW O, MemoryInv(m, O), NEW p \in O
  PROVE  /\ p \in DOMAIN m.cells
         /\ m.cells[p] \in CellType
         /\ m.cells[p].object \in ObjectType
         /\ m.cells[p].object # None
<1>1. p \in DOMAIN m.cells /\ m.cells[p].object # None /\ m.cells \in Seq(CellType)
  BY DEF MemoryInv, CellsInv
<1>2. m.cells[p] \in CellType
  BY <1>1
<1> QED
  BY <1>1, <1>2 DEF CellType

\* Allocate: a cell that nobody owns, with a new object in it.
LEMMA AllocateInv ==
  ASSUME NEW m, NEW O, MemoryInv(m, O), NEW c \in Concrete,
         NEW p, p = Allocated(m, c), NEW m2, m2 = Allocate(m, c)
  PROVE  /\ MemoryInv(m2, O \cup {p})
         /\ p \notin O
         /\ Kept(m, m2, O)
         /\ m2.cells[p].object = Object(c, DefaultData)
         /\ Changed(Counts(m), Counts(m2), c, Counts(m)[c] + 1)
         /\ Home(m) => Home(m2) /\ m2.cells[p].home = c
<1>0. c \in Class
  BY DEF Concrete
<1>1. PICK g : g = Grown(m, c)
  OBVIOUS
<1>2. /\ MemoryInv(g, O) /\ Lists(g)[c] # << >>
      /\ Kept(m, g, O) /\ Counts(g) = Counts(m)
      /\ Home(m) => Home(g)
  BY <1>0, <1>1, GrownInv
<1>3. g \in MemoryType /\ CellsInv(g.cells, Lists(g), O)
  BY <1>2 DEF MemoryInv, MemoryType, PoolType
<1>4. /\ g.cells \in Seq(CellType) /\ g.pools \in [Class -> PoolType] /\ g.pools[c] \in PoolType
      /\ Lists(g)[c] = g.pools[c].m_Current /\ Counts(g)[c] = g.pools[c].m_Allocated
      /\ Lists(g)[c] \in Seq(Nat) /\ Counts(g)[c] \in Int
  BY <1>0, <1>3, MemoryParts
<1>5. PICK o : o = Object(c, DefaultData)
  OBVIOUS
<1>6. o \in ObjectType /\ o # None
  BY <1>0, <1>5, PolymorphicAssumption DEF Object, ObjectType
<1>7. p = Head(Lists(g)[c])
  BY <1>1, <1>4 DEF Allocated
<1>8. PICK list : list = Tail(Lists(g)[c])
  OBVIOUS
<1>9. list \in Seq(Nat)
  BY <1>2, <1>4, <1>8, TailProps
<1>10. PICK cells : Put(g.cells, cells, p, o)
  BY DEF Put
<1>11. p \in DOMAIN g.cells
  <2>1. Lists(g)[c] \in Seq(DOMAIN g.cells)
    BY <1>0, <1>3 DEF CellsInv
  <2> QED
    BY <1>2, <1>7, <2>1
<1>12. cells \in Seq(CellType)
  BY <1>4, <1>6, <1>10, <1>11, ObjectWritten
<1>13. m2 = [cells |-> cells,
             pools |-> [g.pools EXCEPT ![c] = [m_Current |-> list, m_Allocated |-> Counts(g)[c] + 1]]]
  <2>1. m2 = [g EXCEPT !.cells[p].object = o,
                       !.pools[c] = [m_Current |-> Tail(@.m_Current), m_Allocated |-> @.m_Allocated + 1]]
    BY <1>1, <1>5 DEF Allocate
  <2>2. g.cells[p] \in CellType
    BY <1>4, <1>11
  <2>3. [g.cells[p] EXCEPT !.object = o] = [home |-> g.cells[p].home, object |-> o]
    BY <2>2 DEF CellType
  <2>4. [g.cells EXCEPT ![p].object = o] = cells
    BY <1>10, <2>3 DEF Put
  <2>5. g = [cells |-> g.cells, pools |-> g.pools]
    BY <1>3 DEF MemoryType
  <2>6. m2 = [cells |-> [g.cells EXCEPT ![p].object = o],
              pools |-> [g.pools EXCEPT ![c] = [m_Current |-> Tail(@.m_Current), m_Allocated |-> @.m_Allocated + 1]]]
    BY <2>1, <2>5
  <2> QED
    BY <1>4, <1>8, <2>4, <2>6
<1>14. Counts(g)[c] + 1 \in Int
  BY <1>4
<1>15. /\ m2 \in MemoryType /\ m2.cells = cells
       /\ Changed(Lists(g), Lists(m2), c, list)
       /\ Changed(Counts(g), Counts(m2), c, Counts(g)[c] + 1)
  BY <1>0, <1>3, <1>9, <1>12, <1>13, <1>14, MemoryChanged
<1>16. PICK cur : cur = Lists(g)
  OBVIOUS
<1>17. PICK cur2 : cur2 = Lists(m2)
  OBVIOUS
<1>18. PICK old : old = g.cells
  OBVIOUS
<1>19. CellsInv(old, cur, O) /\ Popped(old, cur, cells, cur2, c, p, o)
  BY <1>2, <1>3, <1>7, <1>8, <1>10, <1>15, <1>16, <1>17, <1>18 DEF Popped
<1>20. /\ p \in DOMAIN old /\ p \notin O
       /\ CellsInv(cells, cur2, O \cup {p})
       /\ SameBut(old, cells, p) /\ cells[p].object = o
       /\ AtHome(old, cur) => AtHome(cells, cur2) /\ old[p].home = c
  BY <1>0, <1>6, <1>19, PopInv
<1>21. MemoryInv(m2, O \cup {p})
  BY <1>15, <1>17, <1>20 DEF MemoryInv, MemoryType, PoolType
<1>22. Kept(m, m2, O)
  <2>1. Heap(m2) = Heap(g)
    BY <1>15, <1>18, <1>20 DEF Heap, SameBut
  <2>2. ASSUME NEW q \in O
        PROVE  q \in DOMAIN m2.cells /\ m2.cells[q] = m.cells[q]
    <3>1. q \in DOMAIN old /\ old[q] = m.cells[q] /\ q # p
      BY <1>2, <1>18, <1>20 DEF Kept
    <3> QED
      BY <3>1, <1>15, <1>20 DEF SameBut
  <2> QED
    BY <1>2, <2>1, <2>2 DEF Kept
<1>23. m2.cells[p].object = Object(c, DefaultData)
  BY <1>5, <1>15, <1>20
<1>24. Home(m) => Home(m2) /\ m2.cells[p].home = c
  <2>1. cells[p].home = old[p].home
    BY <1>20 DEF SameBut
  <2> QED
    BY <1>2, <1>15, <1>16, <1>17, <1>18, <1>20, <2>1 DEF Home
<1> QED
  BY <1>2, <1>15, <1>20, <1>21, <1>22, <1>23, <1>24

\* The contents of an object are written.
LEMMA WriteInv ==
  ASSUME NEW m, NEW O, MemoryInv(m, O), NEW p \in O, NEW data \in Data,
         NEW m2, m2 = Write(m, p, data)
  PROVE  /\ MemoryInv(m2, O)
         /\ Kept(m, m2, O \ {p})
         /\ m2.cells[p].object = Object(m.cells[p].object.class, data)
         /\ m2.cells[p].home = m.cells[p].home
         /\ Counts(m2) = Counts(m)
         /\ Home(m) => Home(m2)
<1>1. m \in MemoryType /\ CellsInv(m.cells, Lists(m), O) /\ m = [cells |-> m.cells, pools |-> m.pools]
  BY DEF MemoryInv, MemoryType, PoolType
<1>2. p \in DOMAIN m.cells /\ m.cells[p] \in CellType /\ m.cells[p].object \in ObjectType
  BY OwnedObject
<1>3. PICK o : o = Object(m.cells[p].object.class, data)
  OBVIOUS
<1>4. o \in ObjectType /\ o # None
  BY <1>2, <1>3, PolymorphicAssumption DEF Object, ObjectType, Concrete
<1>5. PICK cells : Put(m.cells, cells, p, o)
  BY DEF Put
<1>6. m2 = [cells |-> cells, pools |-> m.pools]
  <2>1. m2 = [m EXCEPT !.cells[p].object.data = data]
    BY DEF Write
  <2>2. [m.cells[p].object EXCEPT !.data = data] = o
    BY <1>2, <1>3 DEF Object, ObjectType
  <2>3. [m.cells[p] EXCEPT !.object.data = data] = [home |-> m.cells[p].home, object |-> o]
    BY <1>2, <2>2 DEF CellType
  <2>4. [m.cells EXCEPT ![p].object.data = data] = cells
    BY <1>5, <2>3 DEF Put
  <2> QED
    BY <1>1, <2>1, <2>4
<1>7. m.cells \in Seq(CellType) /\ m.pools \in [Class -> PoolType]
  BY <1>1, MemoryParts
<1>8. cells \in Seq(CellType) /\ SameBut(m.cells, cells, p) /\ cells[p].object = o
  BY <1>2, <1>4, <1>5, <1>7, ObjectWritten
<1>9. m2.cells = cells /\ m2.pools = m.pools /\ m2 \in MemoryType
  BY <1>6, <1>7, <1>8 DEF MemoryType
<1>10. Lists(m2) = Lists(m) /\ Counts(m2) = Counts(m)
  BY <1>9 DEF Lists, Counts
<1>11. \A q \in DOMAIN m.cells : q \in O <=> cells[q].object # None
  <2>1. \A q \in DOMAIN m.cells \ {p} : cells[q] = m.cells[q]
    BY <1>8 DEF SameBut
  <2> QED
    BY <1>1, <1>4, <1>8, <2>1 DEF CellsInv
<1>12. CellsInv(cells, Lists(m), O)
  <2>1. DOMAIN cells = DOMAIN m.cells
    BY <1>8 DEF SameBut
  <2> QED
    BY <1>1, <1>8, <1>11, <2>1 DEF CellsInv
<1>13. MemoryInv(m2, O)
  BY <1>9, <1>10, <1>12 DEF MemoryInv, MemoryType, PoolType
<1>14. Kept(m, m2, O \ {p})
  <2>1. O \subseteq DOMAIN m.cells
    BY <1>1 DEF CellsInv
  <2> QED
    BY <1>8, <1>9, <2>1 DEF Kept, Heap, SameBut
<1>15. Home(m) => Home(m2)
  <2> SUFFICES ASSUME Home(m), NEW c \in Class, NEW i \in DOMAIN Lists(m)[c]
               PROVE  cells[Lists(m)[c][i]].home = c
    BY <1>9, <1>10 DEF Home, AtHome
  <2>1. Lists(m)[c] \in Seq(DOMAIN m.cells)
    BY <1>1 DEF CellsInv
  <2>2. Lists(m)[c][i] \in DOMAIN m.cells
    BY <2>1
  <2> QED
    BY <1>8, <2>2 DEF Home, AtHome, SameBut
<1> QED
  BY <1>2, <1>3, <1>8, <1>9, <1>10, <1>13, <1>14, <1>15 DEF SameBut

\* Deallocate: the cell is nobody's any more.
LEMMA DeallocateInv ==
  ASSUME NEW m, NEW O, MemoryInv(m, O), NEW c \in Class, NEW p \in O,
         NEW m2, m2 = Deallocate(m, c, p)
  PROVE  /\ MemoryInv(m2, O \ {p})
         /\ Kept(m, m2, O \ {p})
         /\ Changed(Counts(m), Counts(m2), c, Counts(m)[c] - 1)
         /\ Home(m) /\ m.cells[p].home = c => Home(m2)
<1>1. m \in MemoryType /\ CellsInv(m.cells, Lists(m), O) /\ m = [cells |-> m.cells, pools |-> m.pools]
  BY DEF MemoryInv, MemoryType, PoolType
<1>2. /\ m.cells \in Seq(CellType) /\ m.pools \in [Class -> PoolType] /\ m.pools[c] \in PoolType
      /\ Lists(m)[c] = m.pools[c].m_Current /\ Counts(m)[c] = m.pools[c].m_Allocated
      /\ Lists(m)[c] \in Seq(Nat) /\ Counts(m)[c] \in Int
  BY <1>1, MemoryParts
<1>3. p \in DOMAIN m.cells /\ m.cells[p] \in CellType /\ p \in Nat
  <2>1. p \in DOMAIN m.cells /\ m.cells[p] \in CellType
    BY OwnedObject
  <2> QED
    BY <1>2, <2>1
<1>4. PICK list : list = <<p>> \o Lists(m)[c]
  OBVIOUS
<1>5. list \in Seq(Nat)
  BY <1>2, <1>3, <1>4
<1>6. PICK cells : Put(m.cells, cells, p, None)
  BY DEF Put
<1>7. cells \in Seq(CellType) /\ SameBut(m.cells, cells, p)
  BY <1>2, <1>3, <1>6, ObjectWritten
<1>8. m2 = [cells |-> cells,
            pools |-> [m.pools EXCEPT ![c] = [m_Current |-> list, m_Allocated |-> Counts(m)[c] - 1]]]
  <2>1. m2 = [m EXCEPT !.cells[p].object = None,
                       !.pools[c] = [m_Current |-> <<p>> \o @.m_Current, m_Allocated |-> @.m_Allocated - 1]]
    BY DEF Deallocate
  <2>2. [m.cells[p] EXCEPT !.object = None] = [home |-> m.cells[p].home, object |-> None]
    BY <1>3 DEF CellType
  <2>3. [m.cells EXCEPT ![p].object = None] = cells
    BY <1>6, <2>2 DEF Put
  <2>4. m2 = [cells |-> [m.cells EXCEPT ![p].object = None],
              pools |-> [m.pools EXCEPT ![c] = [m_Current |-> <<p>> \o @.m_Current, m_Allocated |-> @.m_Allocated - 1]]]
    BY <1>1, <2>1
  <2> QED
    BY <1>2, <1>4, <2>3, <2>4
<1>9. Counts(m)[c] - 1 \in Int
  BY <1>2
<1>10. /\ m2 \in MemoryType /\ m2.cells = cells
       /\ Changed(Lists(m), Lists(m2), c, list)
       /\ Changed(Counts(m), Counts(m2), c, Counts(m)[c] - 1)
  BY <1>1, <1>5, <1>7, <1>8, <1>9, MemoryChanged
<1>11. PICK cur : cur = Lists(m)
  OBVIOUS
<1>12. PICK cur2 : cur2 = Lists(m2)
  OBVIOUS
<1>13. PICK old : old = m.cells
  OBVIOUS
<1>14. CellsInv(old, cur, O) /\ Pushed(old, cur, cells, cur2, c, p)
  BY <1>1, <1>4, <1>6, <1>10, <1>11, <1>12, <1>13 DEF Pushed
<1>15. /\ CellsInv(cells, cur2, O \ {p})
       /\ AtHome(old, cur) /\ old[p].home = c => AtHome(cells, cur2)
  BY <1>14, PushInv
<1>16. MemoryInv(m2, O \ {p})
  BY <1>10, <1>12, <1>15 DEF MemoryInv, MemoryType, PoolType
<1>17. Kept(m, m2, O \ {p})
  <2>1. O \subseteq DOMAIN m.cells
    BY <1>1 DEF CellsInv
  <2> QED
    BY <1>7, <1>10, <2>1 DEF Kept, Heap, SameBut
<1>18. Home(m) /\ m.cells[p].home = c => Home(m2)
  BY <1>10, <1>11, <1>12, <1>13, <1>15 DEF Home
<1> QED
  BY <1>10, <1>16, <1>17, <1>18

\* operator new: a cell of no pool.
Made(m, m2, p, o) == p = Len(m.cells) + 1 /\ m2 = New(m, o)

LEMMA NewInv ==
  ASSUME NEW m, NEW O, MemoryInv(m, O), NEW o \in ObjectType, o # None,
         NEW p, NEW m2, Made(m, m2, p, o)
  PROVE  /\ MemoryInv(m2, O \cup {p})
         /\ p \notin O /\ p \in Nat
         /\ Len(m2.cells) = p
         /\ \A q \in O : m2.cells[q] = m.cells[q]
         /\ m2.cells[p].object = o
         /\ Counts(m2) = Counts(m)
         /\ Heap(m2) = Heap(m) \cup {p} /\ p \notin Heap(m)
<1> USE DEF Made
<1>1. m \in MemoryType /\ CellsInv(m.cells, Lists(m), O) /\ m = [cells |-> m.cells, pools |-> m.pools]
  BY DEF MemoryInv, MemoryType, PoolType
<1>2. m.cells \in Seq(CellType) /\ m.pools \in [Class -> PoolType]
  BY <1>1, MemoryParts
<1>3. PICK n \in Nat : n = Len(m.cells) /\ p = n + 1
  BY <1>2
<1>4. PICK cell \in CellType : cell = [home |-> None, object |-> o]
  BY DEF CellType
<1>5. PICK cells : cells = Append(m.cells, cell)
  OBVIOUS
<1>6. cell.object # None /\ cell.object = o /\ cell.home = None
  BY <1>4
<1>7. PICK old : old = m.cells
  OBVIOUS
<1>8. PICK cur : cur = Lists(m)
  OBVIOUS
<1>9. CellsInv(old, cur, O) /\ Appended(old, cells, n, cell)
  BY <1>1, <1>3, <1>5, <1>6, <1>7, <1>8 DEF Appended
<1>10. /\ CellsInv(cells, cur, O \cup {n + 1})
       /\ n + 1 \notin O
       /\ DOMAIN old = 1 .. n /\ DOMAIN cells = 1 .. n + 1
       /\ cells[n + 1] = cell /\ \A q \in 1 .. n : cells[q] = old[q]
  <2>1. CellsInv(cells, cur, O \cup {n + 1})
    BY <1>9, AppendInv
  <2>2. old \in Seq(CellType) /\ O \subseteq DOMAIN old
    BY <1>9 DEF CellsInv
  <2>3. DOMAIN old = 1 .. n /\ DOMAIN cells = 1 .. n + 1 /\ cells[n + 1] = cell
    BY <1>9, <2>2 DEF Appended
  <2>4. \A q \in 1 .. n : cells[q] = old[q]
    BY <1>9, <2>2 DEF Appended
  <2> QED
    BY <2>1, <2>2, <2>3, <2>4
<1>11. m2 = [cells |-> cells, pools |-> m.pools]
  BY <1>1, <1>4, <1>5 DEF New
<1>12. cells \in Seq(CellType)
  BY <1>10 DEF CellsInv
<1>13. m2.cells = cells /\ m2.pools = m.pools /\ m2 \in MemoryType
  BY <1>2, <1>11, <1>12 DEF MemoryType
<1>14. Lists(m2) = Lists(m) /\ Counts(m2) = Counts(m)
  BY <1>13 DEF Lists, Counts
<1>15. MemoryInv(m2, O \cup {p})
  BY <1>3, <1>8, <1>10, <1>13, <1>14 DEF MemoryInv, MemoryType, PoolType
<1>16. Heap(m2) = Heap(m) \cup {p} /\ p \notin Heap(m)
  <2>1. n + 1 \notin 1 .. n /\ 1 .. n + 1 = (1 .. n) \cup {n + 1}
    OBVIOUS
  <2>2. cells[n + 1].home = None
    BY <1>6, <1>10
  <2> QED
    BY <1>3, <1>7, <1>10, <1>13, <2>1, <2>2 DEF Heap
<1>17. Len(m2.cells) = p
  BY <1>3, <1>10, <1>12, <1>13
<1>18. \A q \in O : m2.cells[q] = m.cells[q]
  BY <1>7, <1>9, <1>10, <1>13 DEF CellsInv
<1> QED
  BY <1>3, <1>6, <1>10, <1>13, <1>14, <1>15, <1>16, <1>17, <1>18

\* A new object of class c with the contents it is given.
LEMMA CreateInv ==
  ASSUME NEW m, NEW O, MemoryInv(m, O), NEW c \in Concrete, NEW data \in Data,
         NEW p, p = Allocated(m, c), NEW m2, m2 = Write(Allocate(m, c), p, data)
  PROVE  /\ MemoryInv(m2, O \cup {p})
         /\ p \notin O /\ p \in Nat
         /\ Kept(m, m2, O)
         /\ m2.cells[p].object = Object(c, data)
         /\ Changed(Counts(m), Counts(m2), c, Counts(m)[c] + 1)
         /\ Home(m) => Home(m2) /\ m2.cells[p].home = c
<1>1. PICK a : a = Allocate(m, c)
  OBVIOUS
<1>2. /\ MemoryInv(a, O \cup {p}) /\ p \notin O /\ Kept(m, a, O)
      /\ a.cells[p].object = Object(c, DefaultData)
      /\ Changed(Counts(m), Counts(a), c, Counts(m)[c] + 1)
      /\ Home(m) => Home(a) /\ a.cells[p].home = c
  BY <1>1, AllocateInv
<1>3. PICK P : P = O \cup {p}
  OBVIOUS
<1>4. MemoryInv(a, P) /\ p \in P /\ m2 = Write(a, p, data)
  BY <1>1, <1>2, <1>3
<1>5. /\ MemoryInv(m2, P)
      /\ Kept(a, m2, P \ {p})
      /\ m2.cells[p].object = Object(a.cells[p].object.class, data)
      /\ m2.cells[p].home = a.cells[p].home
      /\ Counts(m2) = Counts(a)
      /\ Home(a) => Home(m2)
  BY <1>4, WriteInv
<1>6. m2.cells[p].object = Object(c, data)
  BY <1>2, <1>5 DEF Object
<1>7. Kept(m, m2, O)
  BY <1>2, <1>3, <1>5 DEF Kept
<1>8. p \in Nat
  <2>1. p \in DOMAIN a.cells /\ a.cells \in Seq(CellType)
    BY <1>4 DEF MemoryInv, CellsInv
  <2> QED
    BY <2>1
<1> QED
  BY <1>2, <1>3, <1>5, <1>6, <1>7, <1>8

(***************************************************************************)
(* The sum of the counts.                                                  *)
(***************************************************************************)

\* Sum adds the values up one by one.
LEMMA SumProps ==
  ASSUME NEW n \in Nat, NEW f \in [1 .. n -> Int]
  PROVE  \E h : /\ h[0] = 0
                /\ \A k \in 1 .. n : h[k] \in Int /\ h[k] = h[k - 1] + f[k]
                /\ Sum(f) = h[n]
<1> DEFINE step == [k \in 1 .. n |-> [x \in Int |-> x + f[k]]]
<1>1. step \in Steps(Int, n)
  BY DEF Steps
<1>2. PICK g : FoldOf(g, Int, 0, n, step)
  <2> HIDE DEF step
  <2> QED
    BY <1>1, FoldDefined
<1>3. g = [s \in SUBSET (1 .. n) |-> IF s = {} THEN 0 ELSE g[s \ {Biggest(s)}] + f[Biggest(s)]]
  <2>1. ASSUME NEW s \in SUBSET (1 .. n), s # {}
        PROVE  step[Biggest(s)][g[s \ {Biggest(s)}]] = g[s \ {Biggest(s)}] + f[Biggest(s)]
    <3>1. Biggest(s) \in 1 .. n /\ s \ {Biggest(s)} \in SUBSET (1 .. n)
      BY <2>1, BiggestProps
    <3> QED
      BY <1>2, <3>1 DEF FoldOf
  <2> HIDE DEF step
  <2> QED
    BY <1>2, <2>1 DEF FoldOf
<1>4. PICK it : /\ it = [s \in SUBSET (1 .. n) |-> IF s = {} THEN 0 ELSE it[s \ {Biggest(s)}] + f[Biggest(s)]]
                /\ Sum(f) = it[1 .. n]
  <2>1. DOMAIN f = 1 .. n
    OBVIOUS
  <2>2. \A s : Seqs!Max(s) = Biggest(s)
    BY DEF Seqs!Max, Biggest
  <2>3. PICK r : r = Sum(f)
    OBVIOUS
  <2>4. g = [s \in SUBSET DOMAIN f |-> IF s = {} THEN 0 ELSE g[s \ {Seqs!Max(s)}] + f[Seqs!Max(s)]]
    BY <1>3, <2>1, <2>2
  <2>5. \E it : /\ it = [s \in SUBSET DOMAIN f |-> IF s = {} THEN 0 ELSE it[s \ {Seqs!Max(s)}] + f[Seqs!Max(s)]]
                /\ r = it[DOMAIN f]
    BY <2>3, <2>4 DEF Sum, Seqs!FoldLeft, Seqs!MapThenFoldSet
  <2> QED
    BY <2>1, <2>2, <2>3, <2>5
<1>5. /\ it[1 .. 0] = 0
      /\ \A k \in 1 .. n : it[1 .. k] = it[1 .. k - 1] + f[k]
  <2>1. 1 .. 0 = {} /\ {} \in SUBSET (1 .. n)
    OBVIOUS
  <2>2. ASSUME NEW k \in 1 .. n
        PROVE  it[1 .. k] = it[1 .. k - 1] + f[k]
    <3>1. 1 .. k \in SUBSET (1 .. n) /\ k \in Nat /\ k # 0
      OBVIOUS
    <3>2. Biggest(1 .. k) = k /\ (1 .. k) \ {k} = 1 .. k - 1 /\ 1 .. k # {}
      BY <3>1, BiggestPrefix
    <3>3. it[1 .. k] = it[(1 .. k) \ {Biggest(1 .. k)}] + f[Biggest(1 .. k)]
      BY <1>4, <3>1, <3>2
    <3> QED
      BY <3>2, <3>3
  <2> QED
    BY <1>4, <2>1, <2>2
<1> DEFINE h == [k \in 0 .. n |-> it[1 .. k]]
           S == {k \in 0 .. n : h[k] \in Int}
<1>6. h[0] = 0 /\ \A k \in 1 .. n : h[k] = h[k - 1] + f[k]
  BY <1>5
<1>7. 0 .. n \subseteq S
  <2> HIDE DEF h
  <2>1. 0 \in S
    BY <1>6
  <2>2. ASSUME NEW k \in 0 .. n - 1, k \in S
        PROVE  k + 1 \in S
    <3>1. k + 1 \in 1 .. n /\ k + 1 \in 0 .. n /\ (k + 1) - 1 = k
      OBVIOUS
    <3>2. h[k + 1] = h[k] + f[k + 1]
      BY <1>6, <3>1
    <3> QED
      BY <2>2, <3>1, <3>2
  <2> HIDE DEF S
  <2> QED
    BY <2>1, <2>2, UpTo
<1>8. Sum(f) = h[n]
  <2>1. n \in 0 .. n
    OBVIOUS
  <2> QED
    BY <1>4, <2>1
<1>9. \A k \in 1 .. n : h[k] \in Int
  <2> HIDE DEF h
  <2> QED
    BY <1>7
<1> HIDE DEF h
<1> QED
  BY <1>6, <1>8, <1>9

\* One summand changes.
LEMMA SumChanged ==
  ASSUME NEW n \in Nat, NEW f \in [1 .. n -> Int], NEW c \in 1 .. n, NEW y \in Int,
         NEW g, Changed(f, g, c, y)
  PROVE  Sum(f) \in Int /\ Sum(g) = Sum(f) - f[c] + y
<1>1. g \in [1 .. n -> Int] /\ g[c] = y /\ \A k \in 1 .. n : k # c => g[k] = f[k]
  BY DEF Changed
<1>2. PICK h : /\ h[0] = 0
               /\ \A k \in 1 .. n : h[k] \in Int /\ h[k] = h[k - 1] + f[k]
               /\ Sum(f) = h[n]
  BY SumProps
<1>3. PICK j : /\ j[0] = 0
               /\ \A k \in 1 .. n : j[k] \in Int /\ j[k] = j[k - 1] + g[k]
               /\ Sum(g) = j[n]
  BY <1>1, SumProps
<1> DEFINE S == {k \in 0 .. n : j[k] = h[k] + (IF k >= c THEN y - f[c] ELSE 0)}
<1>4. 0 \in S
  BY <1>2, <1>3
<1>5. ASSUME NEW k \in 0 .. n - 1, k \in S
      PROVE  k + 1 \in S
  <2>1. k + 1 \in 1 .. n /\ k + 1 \in 0 .. n /\ (k + 1) - 1 = k
    OBVIOUS
  <2>2. h[k + 1] = h[k] + f[k + 1] /\ j[k + 1] = j[k] + g[k + 1] /\ h[k + 1] \in Int /\ j[k + 1] \in Int
    BY <1>2, <1>3, <2>1
  <2>3. h[k] \in Int
    BY <1>2
  <2>4. f[k + 1] \in Int /\ f[c] \in Int
    BY <2>1
  <2>5. CASE k + 1 = c
    <3>1. j[k] = h[k] + 0
      BY <1>5, <2>5
    <3>a. g[k + 1] = y /\ f[k + 1] = f[c]
      BY <1>1, <2>5
    <3>b. j[k] = h[k]
      BY <2>3, <3>1
    <3>2. j[k + 1] = h[k] + y /\ h[k + 1] = h[k] + f[c]
      BY <2>2, <3>a, <3>b
    <3>3. j[k + 1] = h[k + 1] + (y - f[c])
      BY <2>3, <2>4, <3>2
    <3> QED
      BY <2>1, <2>5, <3>3
  <2>6. CASE k + 1 # c
    <3>1. g[k + 1] = f[k + 1]
      BY <1>1, <2>1, <2>6
    <3> QED
      BY <1>5, <2>1, <2>2, <2>3, <2>4, <2>6, <3>1
  <2> QED
    BY <2>5, <2>6
<1>6. n \in S
  <2> HIDE DEF S
  <2>1. 0 .. n \subseteq S
    BY <1>4, <1>5, UpTo
  <2> QED
    BY <2>1
<1>7. n \in 1 .. n /\ n >= c /\ f[c] \in Int
  OBVIOUS
<1> QED
  BY <1>2, <1>3, <1>6, <1>7

\* A sum of zeros.
LEMMA SumZero ==
  ASSUME NEW n \in Nat, NEW f, f = [k \in 1 .. n |-> 0]
  PROVE  Sum(f) = 0
<1>1. f \in [1 .. n -> Int] /\ \A k \in 1 .. n : f[k] = 0
  OBVIOUS
<1>2. PICK h : /\ h[0] = 0
               /\ \A k \in 1 .. n : h[k] \in Int /\ h[k] = h[k - 1] + f[k]
               /\ Sum(f) = h[n]
  BY <1>1, SumProps
<1> DEFINE S == {k \in 0 .. n : h[k] = 0}
<1>3. 0 \in S
  BY <1>2
<1>4. ASSUME NEW k \in 0 .. n - 1, k \in S
      PROVE  k + 1 \in S
  <2>1. k + 1 \in 1 .. n /\ k + 1 \in 0 .. n /\ (k + 1) - 1 = k
    OBVIOUS
  <2> QED
    BY <1>1, <1>2, <1>4, <2>1
<1>5. n \in S
  <2> HIDE DEF S
  <2>1. 0 .. n \subseteq S
    BY <1>3, <1>4, UpTo
  <2> QED
    BY <2>1
<1> QED
  BY <1>2, <1>5

(***************************************************************************)
(* The type database.                                                      *)
(***************************************************************************)

\* Once both programs run, each has numbered all its concrete classes.
LEMMA RunningIds ==
  ASSUME NEW p \in Program, DatabaseInv(p), Started(p)
  PROVE  db[p].m_TypeDatabase = InOrder(Concrete)
<1>1. db[p].m_Initialized /\ todo[p] = {}
  BY DEF Started
<1>2. Concrete \ {} = Concrete
  OBVIOUS
<1> QED
  BY <1>1, <1>2 DEF DatabaseInv

\* A class id names the class it was made from.
LEMMA IdRoundTrip ==
  ASSUME NEW d, d.m_TypeDatabase = InOrder(Concrete), NEW c \in Concrete
  PROVE  /\ GetClassId(d, c) \in Nat
         /\ GetClassId(d, c) + 1 \in DOMAIN d.m_TypeDatabase
         /\ GetClassId(d, c) < GetNumTypes(d)
         /\ GetTypeInfo(d, GetClassId(d, c)) = c
         /\ GetNumTypes(d) \in Nat /\ GetNumTypes(d) <= NumClasses
<1>1. Concrete \in SUBSET (1 .. NumClasses) /\ 1 \in Int /\ NumClasses \in Int /\ NumClasses \in Nat
  BY ClassAssumption DEF Concrete, Class
<1>2. PICK s : s = InOrder(Concrete)
  OBVIOUS
<1>3. /\ IsFiniteSet(Concrete) /\ Cardinality(Concrete) \in Nat
      /\ s \in [1 .. Cardinality(Concrete) -> Concrete]
      /\ Len(s) = Cardinality(Concrete)
      /\ \A x \in Concrete : \E i \in 1 .. Cardinality(Concrete) : s[i] = x
  BY <1>1, <1>2, InOrderProps
<1>4. PICK i : i = CHOOSE k \in DOMAIN s : s[k] = c
  OBVIOUS
<1>5. i \in DOMAIN s /\ s[i] = c
  BY <1>3, <1>4
<1>6. i \in 1 .. Cardinality(Concrete)
  BY <1>3, <1>5
<1>7. GetClassId(d, c) = i - 1
  BY <1>2, <1>4 DEF GetClassId
<1>8. GetTypeInfo(d, i - 1) = c
  <2>1. (i - 1) + 1 = i
    BY <1>6
  <2> QED
    BY <1>2, <1>5, <2>1 DEF GetTypeInfo
<1>9. Cardinality(Concrete) <= NumClasses
  <2>1. IsFiniteSet(1 .. NumClasses) /\ Cardinality(1 .. NumClasses) = NumClasses
    <3>1. /\ IsFiniteSet(1 .. NumClasses)
          /\ Cardinality(1 .. NumClasses) = IF 1 > NumClasses THEN 0 ELSE NumClasses - 1 + 1
      BY <1>1, FS_Interval
    <3> QED
      BY <1>1, <3>1, ClassAssumption
  <2> QED
    BY <1>1, <2>1, FS_Subset
<1>10. GetNumTypes(d) = Cardinality(Concrete)
  BY <1>2, <1>3 DEF GetNumTypes
<1>11. i - 1 \in Nat /\ (i - 1) + 1 = i /\ i - 1 < Cardinality(Concrete)
  BY <1>3, <1>6
<1>12. (i - 1) + 1 \in DOMAIN d.m_TypeDatabase
  BY <1>2, <1>5, <1>11
<1> QED
  BY <1>3, <1>7, <1>8, <1>9, <1>10, <1>11, <1>12

(***************************************************************************)
(* The variables.  An operation on one of them is split in two: its cell   *)
(* is given back, if it has one, and it gets another.  In between, memory  *)
(* "m" holds the objects of the others.                                    *)
(***************************************************************************)
Others(v) == Live \ {v}
Rest(v) == {val[w].m_Ptr : w \in Others(v)}
OfClass(V, e) == {u \in V : ClassOf(u) = e}

Without(v, m) ==
  /\ MemoryInv(m, Rest(v))
  /\ \A q \in Rest(v) : q \in DOMAIN m.cells /\ m.cells[q] = mem.cells[q]
  /\ Sum(Counts(m)) + Cardinality(Heap(m)) = Cardinality(Others(v))

AllHome(v, m) == Home(m) /\ \A e \in Class : Counts(m)[e] = Cardinality(OfClass(Others(v), e))

\* What the invariant says of a variable that exists.
LEMMA LiveFacts ==
  ASSUME PolymorphicInv, NEW v \in Live
  PROVE  /\ v \in Var /\ val[v] \in ValueType /\ val[v] # None
         /\ Running
         /\ val[v].m_Ptr \in Pointers /\ val[v].m_Ptr \in DOMAIN mem.cells
         /\ val[v].m_ClassId + 1 \in DOMAIN Here.m_TypeDatabase
         /\ ClassOf(v) \in Concrete /\ ClassOf(v) \in Class
         /\ ObjectOf(v) \in ObjectType /\ ObjectOf(v) # None
         /\ ObjectOf(v).class = ClassOf(v)
<1>1. v \in Var /\ val[v] # None /\ val[v] \in ValueType /\ Running
  BY DEF PolymorphicInv, ValuesInv, Live
<1>2. val[v].m_Ptr \in Pointers
  BY DEF Pointers
<1>3. MemoryInv(mem, Pointers)
  BY DEF PolymorphicInv
<1>4. val[v].m_Ptr \in DOMAIN mem.cells /\ ObjectOf(v) \in ObjectType /\ ObjectOf(v) # None
  BY <1>2, <1>3, OwnedObject DEF ObjectOf
<1>5. val[v].m_ClassId + 1 \in DOMAIN Here.m_TypeDatabase /\ ObjectOf(v).class = ClassOf(v)
  BY DEF PolymorphicInv, ValuesInv
<1>6. Here.m_TypeDatabase \in Seq(Concrete)
  BY DEF PolymorphicInv, DatabaseInv, Here, Program
<1>7. ClassOf(v) \in Concrete
  BY <1>5, <1>6 DEF ClassOf, GetTypeInfo
<1> QED
  BY <1>1, <1>2, <1>4, <1>5, <1>7 DEF Concrete

\* There are finitely many variables.
LEMMA FiniteVars ==
  ASSUME NEW V \in SUBSET Var
  PROVE  IsFiniteSet(V) /\ Cardinality(V) \in Nat
<1>1. IsFiniteSet(Var)
  BY PolymorphicAssumption, FS_AddElement DEF Var
<1>2. IsFiniteSet(V)
  BY <1>1, FS_Subset
<1> QED
  BY <1>2, FS_CardinalityType

\* There are finitely many cells of no pool.
LEMMA FiniteHeap ==
  ASSUME NEW m \in MemoryType
  PROVE  IsFiniteSet(Heap(m)) /\ Cardinality(Heap(m)) \in Nat
<1>1. m.cells \in Seq(CellType)
  BY MemoryParts
<1>2. Len(m.cells) \in Int /\ DOMAIN m.cells = 1 .. Len(m.cells)
  BY <1>1
<1>3. IsFiniteSet(1 .. Len(m.cells))
  BY <1>2, FS_Interval
<1>4. Heap(m) \in SUBSET (1 .. Len(m.cells))
  BY <1>2 DEF Heap
<1>5. IsFiniteSet(Heap(m))
  BY <1>3, <1>4, FS_Subset
<1> QED
  BY <1>5, FS_CardinalityType

\* A variable that does not exist has nothing to give back.
LEMMA NothingToGive ==
  ASSUME PolymorphicInv, NEW v \in Var, val[v] = None
  PROVE  /\ Without(v, mem)
         /\ ~mixed => AllHome(v, mem)
<1>1. Others(v) = Live
  BY DEF Others, Live
<1>2. Rest(v) = Pointers
  BY <1>1 DEF Rest, Pointers
<1>3. MemoryInv(mem, Pointers) /\ PoolsBalanced /\ (~mixed => AtHome(mem.cells, Lists(mem)))
  BY DEF PolymorphicInv
<1>4. Pointers \subseteq DOMAIN mem.cells
  BY <1>3 DEF MemoryInv, CellsInv
<1>5. Sum(Counts(mem)) + Cardinality(Heap(mem)) = Cardinality(Live)
  BY <1>3 DEF PoolsBalanced, Counts, Heap, HeapCells, Cells
<1>6. ASSUME ~mixed
      PROVE  AllHome(v, mem)
  <2>1. Home(mem)
    BY <1>3, <1>6 DEF Home
  <2>2. ASSUME NEW e \in Class
        PROVE  Counts(mem)[e] = Cardinality(OfClass(Live, e))
    BY <1>3, <1>6 DEF PoolsBalanced, Counts, OfClass
  <2> QED
    BY <1>1, <2>1, <2>2 DEF AllHome
<1> QED
  BY <1>1, <1>2, <1>3, <1>4, <1>5, <1>6 DEF Without

\* The cell of a variable goes to the pool of class d.
LEMMA GivenBack ==
  ASSUME PolymorphicInv, NEW v \in Live, NEW d \in Class,
         NEW m, m = Deallocate(mem, d, val[v].m_Ptr)
  PROVE  /\ Without(v, m)
         /\ ~mixed /\ d = ClassOf(v) => AllHome(v, m)
<1>0. PICK p : p = val[v].m_Ptr
  OBVIOUS
<1>1. MemoryInv(mem, Pointers) /\ p \in Pointers /\ mem \in MemoryType
  BY <1>0, LiveFacts DEF PolymorphicInv, MemoryInv, MemoryType, PoolType
<1>2. /\ MemoryInv(m, Pointers \ {p})
      /\ Kept(mem, m, Pointers \ {p})
      /\ Changed(Counts(mem), Counts(m), d, Counts(mem)[d] - 1)
      /\ Home(mem) /\ mem.cells[p].home = d => Home(m)
  BY <1>0, <1>1, DeallocateInv
<1>3. Rest(v) = Pointers \ {p}
  <2>1. \A w \in Live : val[w].m_Ptr = p => w = v
    BY <1>0 DEF PolymorphicInv, ValuesInv
  <2> QED
    BY <1>0, <2>1 DEF Rest, Pointers, Others
<1>4. PoolsBalanced
  BY DEF PolymorphicInv
<1>5. /\ IsFiniteSet(Live) /\ Cardinality(Live) \in Nat
      /\ Cardinality(Others(v)) = Cardinality(Live) - 1
  <2>1. IsFiniteSet(Live) /\ Cardinality(Live) \in Nat
    BY FiniteVars DEF Live
  <2> QED
    BY <2>1, FS_RemoveElement DEF Others
<1>6. Sum(Counts(m)) + Cardinality(Heap(m)) = Cardinality(Others(v))
  <2>1. Sum(Counts(mem)) + Cardinality(Heap(mem)) = Cardinality(Live)
    BY <1>4 DEF PoolsBalanced, Counts, Heap, HeapCells, Cells
  <2>2. Counts(mem) \in [1 .. NumClasses -> Int] /\ NumClasses \in Nat
    BY <1>1, MemoryParts, ClassAssumption DEF Counts, Class
  <2>3. Sum(Counts(mem)) \in Int /\ Sum(Counts(m)) = Sum(Counts(mem)) - Counts(mem)[d] + (Counts(mem)[d] - 1)
    <3>1. PICK f \in [1 .. NumClasses -> Int] : f = Counts(mem)
      BY <2>2
    <3>2. d \in 1 .. NumClasses /\ f[d] \in Int
      BY <3>1 DEF Class
    <3>3. PICK y \in Int : y = f[d] - 1
      BY <3>2
    <3>4. Changed(f, Counts(m), d, y)
      BY <1>2, <3>1, <3>3
    <3>5. Sum(f) \in Int /\ Sum(Counts(m)) = Sum(f) - f[d] + y
      BY <2>2, <3>2, <3>4, SumChanged
    <3> QED
      BY <3>1, <3>3, <3>5
  <2>4. Counts(mem)[d] \in Int
    BY <2>2 DEF Class
  <2>5. Heap(m) = Heap(mem) /\ Cardinality(Heap(mem)) \in Nat
    BY <1>1, <1>2, FiniteHeap DEF Kept
  <2> QED
    BY <1>5, <2>1, <2>3, <2>4, <2>5
<1>7. Without(v, m)
  BY <1>2, <1>3, <1>6 DEF Without, Kept
<1>8. ASSUME ~mixed, d = ClassOf(v)
      PROVE  AllHome(v, m)
  <2>1. Home(m)
    BY <1>0, <1>2, <1>4, <1>8 DEF PolymorphicInv, PoolsBalanced, Home
  <2>2. ASSUME NEW e \in Class
        PROVE  Counts(m)[e] = Cardinality(OfClass(Others(v), e))
    <3>1. Counts(mem)[e] = Cardinality(OfClass(Live, e))
      BY <1>4, <1>8 DEF PoolsBalanced, Counts, OfClass
    <3>2. DOMAIN Counts(mem) = Class
      BY DEF Counts
    <3>3. CASE e = d
      <4>1. Counts(m)[e] = Counts(mem)[e] - 1
        BY <1>2, <3>2, <3>3 DEF Changed
      <4>2. OfClass(Others(v), e) = OfClass(Live, e) \ {v} /\ v \in OfClass(Live, e)
        BY <1>8, <3>3 DEF OfClass, Others
      <4>3. IsFiniteSet(OfClass(Live, e))
        BY FiniteVars DEF OfClass, Live
      <4>4. Cardinality(OfClass(Live, e) \ {v}) = Cardinality(OfClass(Live, e)) - 1
        BY <4>2, <4>3, FS_RemoveElement
      <4> QED
        BY <3>1, <4>1, <4>2, <4>4
    <3>4. CASE e # d
      <4>1. Counts(m)[e] = Counts(mem)[e]
        BY <1>2, <3>2, <3>4 DEF Changed
      <4>2. OfClass(Others(v), e) = OfClass(Live, e)
        BY <1>8, <3>4 DEF OfClass, Others
      <4> QED
        BY <3>1, <4>1, <4>2
    <3> QED
      BY <3>3, <3>4
  <2> QED
    BY <2>1, <2>2 DEF AllHome
<1> QED
  BY <1>7, <1>8

\* The part of the invariant about the memory and the variables.
Core ==
  /\ MemoryInv(mem, Pointers)
  /\ ValuesInv
  /\ TypeHashExact
  /\ ~mixed => AtHome(mem.cells, Lists(mem))
  /\ PoolsBalanced

\* Variable v gets cell p, with an object of class c.
Settled(v, p, c, data, hash) ==
  /\ MemoryInv(mem', Rest(v) \cup {p}) /\ p \notin Rest(v) /\ p \in Nat
  /\ \A q \in Rest(v) : mem'.cells[q] = mem.cells[q]
  /\ mem'.cells[p].object = Object(c, data)
  /\ val' = [val EXCEPT ![v] = Value(p, GetClassId(Here, c), hash)]
  /\ Sum(Counts(mem')) + Cardinality(Heap(mem')) = Cardinality(Others(v)) + 1
  /\ ~mixed' => /\ ~mixed
                /\ Home(mem') /\ mem'.cells[p].home = c
                /\ \A e \in Class : Counts(mem')[e] =
                     Cardinality(OfClass(Others(v), e)) + (IF e = c THEN 1 ELSE 0)

\* The type hash a value of class c may have.
HashOf(hash, c) == hash \in Class /\ (hash = c \/ (hash = BaseClass /\ c = Here.m_DefaultType))

\* What the invariant says after v has got its cell.
LEMMA SettledInv ==
  ASSUME PolymorphicInv, Running, UNCHANGED <<chosen, todo, db>>,
         NEW v \in Var, NEW p, NEW c \in Concrete, NEW data \in Data, NEW hash, HashOf(hash, c),
         Settled(v, p, c, data, hash)
  PROVE  /\ Core'
         /\ \A w \in Others(v) : w \in Live' /\ val'[w] = val[w] /\ ObjectOf(w)' = ObjectOf(w)
         /\ v \in Live' /\ ObjectOf(v)' = Object(c, data) /\ ClassOf(v)' = c
<1>1. PICK id : id = GetClassId(Here, c)
  OBVIOUS
<1>2. db["here"].m_TypeDatabase = InOrder(Concrete)
  BY RunningIds DEF PolymorphicInv, Program, Running
<1>3. /\ id \in Nat /\ id + 1 \in DOMAIN Here.m_TypeDatabase /\ GetTypeInfo(Here, id) = c
  BY <1>1, <1>2, IdRoundTrip DEF Here
<1>4. PICK x : x = Value(p, id, hash)
  OBVIOUS
<1>5. /\ x \in ValueType /\ x # None
      /\ x.m_Ptr = p /\ x.m_ClassId = id /\ x.m_TypeHash = hash
  BY <1>3, <1>4, PolymorphicAssumption DEF Value, ValueType, Settled, HashOf
<1>6. val \in [Var -> ValueType \cup {None}]
  BY DEF PolymorphicInv, ValuesInv
<1>7. val' = [val EXCEPT ![v] = x]
  BY <1>1, <1>4 DEF Settled
<1>8. val' \in [Var -> ValueType \cup {None}] /\ val'[v] = x /\ \A w \in Var \ {v} : val'[w] = val[w]
  BY <1>5, <1>6, <1>7
<1>9. Live' = Others(v) \cup {v}
  BY <1>5, <1>8 DEF Live, Others
<1>10. Others(v) \subseteq Live /\ Others(v) \subseteq Var \ {v} /\ v \notin Others(v)
  BY DEF Others, Live
<1>11. Pointers' = Rest(v) \cup {p}
  <2>1. \A w \in Others(v) : val'[w].m_Ptr = val[w].m_Ptr
    BY <1>8, <1>10
  <2>2. Pointers' = {val'[w].m_Ptr : w \in Live'}
    BY DEF Pointers
  <2> QED
    BY <1>5, <1>8, <1>9, <2>1, <2>2 DEF Rest
<1>12. MemoryInv(mem', Pointers')
  BY <1>11 DEF Settled
<1>13. Here' = Here /\ Running'
  BY DEF Here, Running, Started
<1>14. ASSUME NEW w \in Others(v)
       PROVE  /\ val'[w] = val[w] /\ ClassOf(w)' = ClassOf(w) /\ w \in Live' /\ w \in Live
              /\ ObjectOf(w)' = ObjectOf(w) /\ val[w].m_Ptr \in Rest(v)
              /\ mem'.cells[val'[w].m_Ptr] = mem.cells[val[w].m_Ptr]
  <2>1. val'[w] = val[w] /\ w \in Live' /\ w \in Live
    BY <1>8, <1>9, <1>10
  <2>2. val[w].m_Ptr \in Rest(v)
    BY DEF Rest
  <2>3. mem'.cells[val[w].m_Ptr] = mem.cells[val[w].m_Ptr]
    BY <2>2 DEF Settled
  <2> QED
    BY <1>13, <2>1, <2>2, <2>3 DEF ClassOf, ObjectOf
<1>15. ClassOf(v)' = c /\ ObjectOf(v)' = Object(c, data) /\ v \in Live'
  <2>1. ClassOf(v)' = GetTypeInfo(Here', val'[v].m_ClassId)
    BY DEF ClassOf, GetTypeInfo
  <2>2. ObjectOf(v)' = mem'.cells[val'[v].m_Ptr].object
    BY DEF ObjectOf
  <2> QED
    BY <1>3, <1>5, <1>8, <1>9, <1>13, <2>1, <2>2 DEF Settled
<1>16. ValuesInv'
  <2>1. ASSUME NEW w \in Live', NEW u \in Live', val'[w].m_Ptr = val'[u].m_Ptr
        PROVE  w = u
    <3>1. CASE w = v /\ u = v
      BY <3>1
    <3>2. CASE w = v /\ u # v
      <4>1. u \in Others(v)
        BY <1>9, <3>2
      <4> QED
        BY <1>5, <1>8, <1>14, <2>1, <3>2, <4>1 DEF Settled
    <3>3. CASE w # v /\ u = v
      <4>1. w \in Others(v)
        BY <1>9, <3>3
      <4> QED
        BY <1>5, <1>8, <1>14, <2>1, <3>3, <4>1 DEF Settled
    <3>4. CASE w # v /\ u # v
      <4>1. w \in Others(v) /\ u \in Others(v)
        BY <1>9, <3>4
      <4> QED
        BY <1>14, <2>1, <4>1 DEF PolymorphicInv, ValuesInv
    <3> QED
      BY <3>1, <3>2, <3>3, <3>4
  <2>2. ASSUME NEW w \in Live'
        PROVE  val'[w].m_ClassId + 1 \in DOMAIN Here'.m_TypeDatabase /\ ObjectOf(w)'.class = ClassOf(w)'
    <3>1. CASE w = v
      BY <1>3, <1>5, <1>8, <1>13, <1>15, <3>1 DEF Object
    <3>2. CASE w # v
      <4>1. w \in Others(v)
        BY <1>9, <3>2
      <4> QED
        BY <1>13, <1>14, <4>1 DEF PolymorphicInv, ValuesInv
    <3> QED
      BY <3>1, <3>2
  <2> QED
    BY <1>8, <1>13, <2>1, <2>2 DEF ValuesInv
<1>17. TypeHashExact'
  <2> SUFFICES ASSUME NEW w \in Live'
               PROVE  \/ val'[w].m_TypeHash = ClassOf(w)'
                      \/ val'[w].m_TypeHash = BaseClass /\ ClassOf(w)' = Here'.m_DefaultType
    BY DEF TypeHashExact
  <2>1. CASE w = v
    BY <1>5, <1>8, <1>13, <1>15, <2>1 DEF HashOf
  <2>2. CASE w # v
    <3>1. w \in Others(v)
      BY <1>9, <2>2
    <3> QED
      BY <1>13, <1>14, <3>1 DEF PolymorphicInv, TypeHashExact
  <2> QED
    BY <2>1, <2>2
<1>18. IsFiniteSet(Others(v)) /\ Cardinality(Others(v)) \in Nat
  BY <1>10, FiniteVars
<1>19. PoolsBalanced'
  <2>1. Sum(Counts(mem')) + Cardinality(Heap(mem')) = Cardinality(Live')
    <3>1. Cardinality(Live') = Cardinality(Others(v)) + 1
      BY <1>9, <1>10, <1>18, FS_AddElement
    <3> QED
      BY <3>1 DEF Settled
  <2>2. ASSUME ~mixed', NEW w \in Live'
        PROVE  mem'.cells[val'[w].m_Ptr].home = ClassOf(w)'
    <3>1. CASE w = v
      BY <1>5, <1>8, <1>15, <2>2, <3>1 DEF Settled
    <3>2. CASE w # v
      <4>1. w \in Others(v)
        BY <1>9, <3>2
      <4>2. mem.cells[val[w].m_Ptr].home = ClassOf(w)
        BY <1>14, <2>2, <4>1 DEF PolymorphicInv, PoolsBalanced, Settled
      <4> QED
        BY <1>14, <4>1, <4>2
    <3> QED
      BY <3>1, <3>2
  <2>3. ASSUME ~mixed', NEW e \in Class
        PROVE  Counts(mem')[e] = Cardinality({u \in Live' : ClassOf(u)' = e})
    <3>1. PICK L : L = OfClass(Others(v), e)
      OBVIOUS
    <3>2. IsFiniteSet(L) /\ Cardinality(L) \in Nat /\ v \notin L
      BY <1>10, <3>1, FiniteVars DEF OfClass
    <3>3. CASE e = c
      <4>1. {u \in Live' : ClassOf(u)' = e} = L \cup {v}
        BY <1>9, <1>14, <1>15, <3>1, <3>3 DEF OfClass
      <4>2. Cardinality(L \cup {v}) = Cardinality(L) + 1
        BY <3>2, FS_AddElement
      <4> QED
        BY <2>3, <3>1, <3>3, <4>1, <4>2 DEF Settled
    <3>4. CASE e # c
      <4>1. {u \in Live' : ClassOf(u)' = e} = L
        BY <1>9, <1>14, <1>15, <3>1, <3>4 DEF OfClass
      <4>2. Counts(mem')[e] = Cardinality(L) + 0
        BY <2>3, <3>1, <3>4 DEF Settled
      <4> QED
        BY <3>2, <4>1, <4>2
    <3> QED
      BY <3>3, <3>4
  <2> QED
    BY <2>1, <2>2, <2>3 DEF PoolsBalanced, Counts, Heap, HeapCells, Cells
<1>20. ~mixed' => AtHome(mem'.cells, Lists(mem'))
  BY DEF Settled, Home
<1> QED
  BY <1>12, <1>14, <1>15, <1>16, <1>17, <1>19, <1>20 DEF Core

\* A summand more, or less by one.
LEMMA CountStep ==
  ASSUME NEW m \in MemoryType, NEW m2 \in MemoryType, NEW c \in Class,
         Changed(Counts(m), Counts(m2), c, Counts(m)[c] + 1)
  PROVE  Sum(Counts(m)) \in Int /\ Sum(Counts(m2)) = Sum(Counts(m)) + 1
<1>1. Counts(m) \in [1 .. NumClasses -> Int] /\ NumClasses \in Nat
  BY MemoryParts, ClassAssumption DEF Counts, Class
<1>2. PICK f \in [1 .. NumClasses -> Int] : f = Counts(m)
  BY <1>1
<1>3. c \in 1 .. NumClasses /\ f[c] \in Int
  BY <1>2 DEF Class
<1>4. PICK y \in Int : y = f[c] + 1
  BY <1>3
<1>5. Changed(f, Counts(m2), c, y)
  BY <1>2, <1>4
<1>6. Sum(f) \in Int /\ Sum(Counts(m2)) = Sum(f) - f[c] + y
  BY <1>1, <1>3, <1>5, SumChanged
<1> QED
  BY <1>2, <1>3, <1>4, <1>6

\* A variable is created in a memory that has only the others.
LEMMA CreateSettled ==
  ASSUME PolymorphicInv, NEW v \in Var, NEW m, Without(v, m),
         NEW c \in Concrete, NEW data \in Data, NEW hash, Create(v, m, c, data, hash),
         ~mixed' => ~mixed /\ AllHome(v, m)
  PROVE  \E p : Settled(v, p, c, data, hash)
<1>1. PICK p : p = Allocated(m, c)
  OBVIOUS
<1>2. /\ mem' = Write(Allocate(m, c), p, data)
      /\ val' = [val EXCEPT ![v] = Value(p, GetClassId(Here, c), hash)]
  BY <1>1 DEF Create
<1>3. PICK O : O = Rest(v)
  OBVIOUS
<1>4. /\ MemoryInv(m, O)
      /\ \A q \in O : q \in DOMAIN m.cells /\ m.cells[q] = mem.cells[q]
      /\ Sum(Counts(m)) + Cardinality(Heap(m)) = Cardinality(Others(v))
  BY <1>3 DEF Without
<1>5. PICK m2 : m2 = mem'
  OBVIOUS
<1>6. /\ MemoryInv(m2, O \cup {p})
      /\ p \notin O /\ p \in Nat
      /\ Kept(m, m2, O)
      /\ m2.cells[p].object = Object(c, data)
      /\ Changed(Counts(m), Counts(m2), c, Counts(m)[c] + 1)
      /\ Home(m) => Home(m2) /\ m2.cells[p].home = c
  BY <1>1, <1>2, <1>4, <1>5, CreateInv
<1>7. c \in Class /\ m \in MemoryType /\ m2 \in MemoryType
  BY <1>4, <1>6 DEF Concrete, MemoryInv, MemoryType, PoolType
<1>8. Sum(Counts(m2)) + Cardinality(Heap(m2)) = Cardinality(Others(v)) + 1
  <2>1. Sum(Counts(m)) \in Int /\ Sum(Counts(m2)) = Sum(Counts(m)) + 1
    BY <1>6, <1>7, CountStep
  <2>2. Heap(m2) = Heap(m) /\ Cardinality(Heap(m)) \in Nat
    BY <1>6, <1>7, FiniteHeap DEF Kept
  <2> QED
    BY <1>4, <2>1, <2>2
<1>9. ASSUME ~mixed'
      PROVE  /\ ~mixed
             /\ Home(m2) /\ m2.cells[p].home = c
             /\ \A e \in Class : Counts(m2)[e] =
                  Cardinality(OfClass(Others(v), e)) + (IF e = c THEN 1 ELSE 0)
  <2>1. AllHome(v, m) /\ ~mixed
    BY <1>9
  <2>2. ASSUME NEW e \in Class
        PROVE  Counts(m2)[e] = Cardinality(OfClass(Others(v), e)) + (IF e = c THEN 1 ELSE 0)
    <3>1. Counts(m)[e] = Cardinality(OfClass(Others(v), e)) /\ DOMAIN Counts(m) = Class
      BY <2>1 DEF AllHome, Counts
    <3>2. Counts(m)[e] \in Int
      BY <1>7, MemoryParts
    <3>3. Counts(m2)[e] = IF e = c THEN Counts(m)[e] + 1 ELSE Counts(m)[e]
      BY <1>6, <1>7, <3>1 DEF Changed
    <3> QED
      BY <3>1, <3>2, <3>3
  <2> QED
    BY <1>6, <2>1, <2>2 DEF AllHome
<1>10. \A q \in O : m2.cells[q] = mem.cells[q]
  BY <1>4, <1>6 DEF Kept
<1> QED
  BY <1>2, <1>3, <1>5, <1>6, <1>8, <1>9, <1>10 DEF Settled

\* A variable gets an object that was made by new.
LEMMA NewSettled ==
  ASSUME PolymorphicInv, NEW v \in Var, val[v] = None,
         NEW c \in Concrete, NEW data \in Data, mem' = New(mem, Object(c, data)),
         val' = [val EXCEPT ![v] = Value(Len(mem'.cells), GetClassId(Here, c), c)],
         mixed' = TRUE
  PROVE  \E p : Settled(v, p, c, data, c)
<1>1. PICK p : p = Len(mem.cells) + 1
  OBVIOUS
<1>2. PICK o : o = Object(c, data)
  OBVIOUS
<1>3. o \in ObjectType /\ o # None
  BY <1>2, PolymorphicAssumption DEF Object, ObjectType, Concrete
<1>4. PICK O : O = Rest(v)
  OBVIOUS
<1>5. /\ MemoryInv(mem, O)
      /\ Sum(Counts(mem)) + Cardinality(Heap(mem)) = Cardinality(Others(v))
  BY <1>4, NothingToGive DEF Without
<1>6. PICK m2 : m2 = mem'
  OBVIOUS
<1>7. Made(mem, m2, p, o)
  BY <1>1, <1>2, <1>6 DEF Made
<1>8. /\ MemoryInv(m2, O \cup {p})
      /\ p \notin O /\ p \in Nat
      /\ Len(m2.cells) = p
      /\ \A q \in O : m2.cells[q] = mem.cells[q]
      /\ m2.cells[p].object = o
      /\ Counts(m2) = Counts(mem)
      /\ Heap(m2) = Heap(mem) \cup {p} /\ p \notin Heap(mem)
  BY <1>3, <1>5, <1>7, NewInv
<1>9. mem \in MemoryType
  BY <1>5 DEF MemoryInv, MemoryType, PoolType
<1>10. Sum(Counts(m2)) + Cardinality(Heap(m2)) = Cardinality(Others(v)) + 1
  <2>1. Sum(Counts(mem)) \in Int
    <3>1. Counts(mem) \in [1 .. NumClasses -> Int] /\ NumClasses \in Nat /\ 1 \in 1 .. NumClasses
      BY <1>9, MemoryParts, ClassAssumption DEF Counts, Class
    <3>2. PICK f \in [1 .. NumClasses -> Int] : f = Counts(mem)
      BY <3>1
    <3>3. f[1] \in Int /\ Changed(f, f, 1, f[1])
      BY <3>1, <3>2 DEF Changed
    <3> QED
      BY <3>1, <3>2, <3>3, SumChanged
  <2>2. IsFiniteSet(Heap(mem)) /\ Cardinality(Heap(mem)) \in Nat
    BY <1>9, FiniteHeap
  <2>3. Cardinality(Heap(m2)) = Cardinality(Heap(mem)) + 1
    BY <1>8, <2>2, FS_AddElement
  <2> QED
    BY <1>5, <1>8, <2>1, <2>2, <2>3
<1> QED
  BY <1>2, <1>4, <1>6, <1>8, <1>10 DEF Settled

\* A variable is destroyed.
LEMMA DestroyedInv ==
  ASSUME PolymorphicInv, UNCHANGED <<chosen, todo, db, mixed>>,
         NEW v \in Live, Without(v, mem'), ~mixed => AllHome(v, mem'),
         val' = [val EXCEPT ![v] = None]
  PROVE  /\ Core'
         /\ \A w \in Others(v) : w \in Live' /\ val'[w] = val[w] /\ ObjectOf(w)' = ObjectOf(w)
<1>1. val \in [Var -> ValueType \cup {None}] /\ v \in Var
  BY DEF PolymorphicInv, ValuesInv, Live
<1>2. val' \in [Var -> ValueType \cup {None}] /\ val'[v] = None /\ \A w \in Var \ {v} : val'[w] = val[w]
  BY <1>1
<1>3. Live' = Others(v) /\ Others(v) \subseteq Live /\ Others(v) \subseteq Var \ {v}
  BY <1>2 DEF Live, Others
<1>4. Pointers' = Rest(v)
  <2>1. Pointers' = {val'[w].m_Ptr : w \in Live'}
    BY DEF Pointers
  <2> QED
    BY <1>2, <1>3, <2>1 DEF Rest
<1>5. Here' = Here /\ Running' = Running
  BY DEF Here, Running, Started
<1>6. ASSUME NEW w \in Others(v)
      PROVE  /\ val'[w] = val[w] /\ ClassOf(w)' = ClassOf(w) /\ w \in Live
             /\ ObjectOf(w)' = ObjectOf(w)
             /\ mem'.cells[val'[w].m_Ptr] = mem.cells[val[w].m_Ptr]
  <2>1. val'[w] = val[w] /\ w \in Live
    BY <1>2, <1>3
  <2>2. val[w].m_Ptr \in Rest(v)
    BY DEF Rest
  <2>3. mem'.cells[val[w].m_Ptr] = mem.cells[val[w].m_Ptr]
    BY <2>2 DEF Without
  <2> QED
    BY <1>5, <2>1, <2>3 DEF ClassOf, ObjectOf
<1>7. ValuesInv'
  <2>1. Live # {} /\ Running
    BY LiveFacts
  <2> QED
    BY <1>2, <1>3, <1>5, <1>6, <2>1 DEF PolymorphicInv, ValuesInv
<1>8. TypeHashExact'
  BY <1>3, <1>5, <1>6 DEF PolymorphicInv, TypeHashExact
<1>9. PoolsBalanced'
  <2>1. Sum(Counts(mem')) + Cardinality(Heap(mem')) = Cardinality(Live')
    BY <1>3 DEF Without
  <2>2. ASSUME ~mixed', NEW w \in Live'
        PROVE  mem'.cells[val'[w].m_Ptr].home = ClassOf(w)'
    BY <1>3, <1>6, <2>2 DEF PolymorphicInv, PoolsBalanced
  <2>3. ASSUME ~mixed', NEW e \in Class
        PROVE  Counts(mem')[e] = Cardinality({u \in Live' : ClassOf(u)' = e})
    <3>1. {u \in Live' : ClassOf(u)' = e} = OfClass(Others(v), e)
      BY <1>3, <1>6 DEF OfClass
    <3> QED
      BY <2>3, <3>1 DEF AllHome
  <2> QED
    BY <2>1, <2>2, <2>3 DEF PoolsBalanced, Counts, Heap, HeapCells, Cells
<1>10. MemoryInv(mem', Pointers')
  BY <1>4 DEF Without
<1>11. ~mixed' => AtHome(mem'.cells, Lists(mem'))
  BY DEF AllHome, Home
<1> QED
  BY <1>3, <1>6, <1>7, <1>8, <1>9, <1>10, <1>11 DEF Core

\* The object of a variable is written to.
LEMMA WrittenInv ==
  ASSUME PolymorphicInv, UNCHANGED <<chosen, todo, db, val, mixed>>,
         NEW v \in Live, NEW data \in Data, mem' = Write(mem, val[v].m_Ptr, data)
  PROVE  /\ Core'
         /\ \A w \in Others(v) : w \in Live' /\ val'[w] = val[w] /\ ObjectOf(w)' = ObjectOf(w)
         /\ v \in Live' /\ ObjectOf(v)' = Object(ClassOf(v), data)
<1>1. PICK p : p = val[v].m_Ptr
  OBVIOUS
<1>2. PICK m2 : m2 = mem'
  OBVIOUS
<1>3. MemoryInv(mem, Pointers) /\ p \in Pointers /\ m2 = Write(mem, p, data)
  BY <1>1, <1>2, LiveFacts DEF PolymorphicInv
<1>4. /\ MemoryInv(m2, Pointers)
      /\ Kept(mem, m2, Pointers \ {p})
      /\ m2.cells[p].object = Object(mem.cells[p].object.class, data)
      /\ m2.cells[p].home = mem.cells[p].home
      /\ Counts(m2) = Counts(mem)
      /\ Home(mem) => Home(m2)
  BY <1>3, WriteInv
<1>5. Live' = Live /\ Pointers' = Pointers /\ Here' = Here /\ Running' = Running
  BY DEF Live, Pointers, Here, Running, Started
<1>6. \A w \in Live : ClassOf(w)' = ClassOf(w) /\ val'[w] = val[w]
  BY <1>5 DEF ClassOf
<1>7. ASSUME NEW w \in Others(v)
      PROVE  w \in Live /\ m2.cells[val[w].m_Ptr] = mem.cells[val[w].m_Ptr] /\ ObjectOf(w)' = ObjectOf(w)
  <2>1. w \in Live /\ val[w].m_Ptr \in Pointers \ {p}
    BY <1>1 DEF Others, Pointers, PolymorphicInv, ValuesInv
  <2> QED
    BY <1>2, <1>4, <2>1 DEF Kept, ObjectOf
<1>8. ObjectOf(v)' = Object(ClassOf(v), data) /\ mem'.cells[val[v].m_Ptr].home = mem.cells[val[v].m_Ptr].home
  <2>1. mem.cells[p].object.class = ClassOf(v)
    BY <1>1, LiveFacts DEF ObjectOf
  <2> QED
    BY <1>1, <1>2, <1>4, <2>1 DEF ObjectOf
<1>9. \A w \in Live : w = v \/ w \in Others(v)
  BY DEF Others
<1>10. ValuesInv'
  <2>1. \A w \in Live : ObjectOf(w)'.class = ClassOf(w)'
    BY <1>6, <1>7, <1>8, <1>9 DEF PolymorphicInv, ValuesInv, Object
  <2> QED
    BY <1>5, <1>6, <2>1 DEF PolymorphicInv, ValuesInv
<1>11. TypeHashExact'
  BY <1>5, <1>6 DEF PolymorphicInv, TypeHashExact
<1>12. PoolsBalanced'
  <2>0. PoolsBalanced
    BY DEF PolymorphicInv
  <2>1. Sum(Counts(mem')) + Cardinality(Heap(mem')) = Cardinality(Live')
    BY <1>2, <1>4, <1>5, <2>0 DEF Kept, PoolsBalanced, Counts, Heap, HeapCells, Cells
  <2>2. ASSUME ~mixed', NEW w \in Live
        PROVE  mem'.cells[val'[w].m_Ptr].home = ClassOf(w)'
    <3>1. mem.cells[val[w].m_Ptr].home = ClassOf(w)
      BY <2>0, <2>2 DEF PoolsBalanced
    <3> QED
      BY <1>2, <1>6, <1>7, <1>8, <1>9, <3>1
  <2>3. ASSUME ~mixed', NEW e \in Class
        PROVE  Counts(mem')[e] = Cardinality({u \in Live' : ClassOf(u)' = e})
    <3>1. {u \in Live' : ClassOf(u)' = e} = {u \in Live : ClassOf(u) = e}
      BY <1>5, <1>6
    <3>2. Counts(mem)[e] = Cardinality({u \in Live : ClassOf(u) = e})
      BY <2>0, <2>3 DEF PoolsBalanced, Counts
    <3> QED
      BY <1>2, <1>4, <3>1, <3>2
  <2> QED
    BY <1>5, <2>1, <2>2, <2>3 DEF PoolsBalanced, Counts, Heap, HeapCells, Cells
<1>13. ~mixed' => AtHome(mem'.cells, Lists(mem'))
  BY <1>2, <1>4 DEF PolymorphicInv, Home
<1> QED
  BY <1>2, <1>4, <1>5, <1>6, <1>7, <1>8, <1>10, <1>11, <1>12, <1>13 DEF Core

(***************************************************************************)
(* The start of the programs.                                              *)
(***************************************************************************)
LEMMA InitInv ==
  Init => PolymorphicInv
<1> SUFFICES ASSUME Init
             PROVE  PolymorphicInv
  OBVIOUS
<1>1. Live = {} /\ Pointers = {}
  BY DEF Init, Live, Pointers
<1>2. TypeInv
  BY DEF Init, TypeInv, SetDefault
<1>3. ASSUME NEW p \in Program
      PROVE  DatabaseInv(p)
  <2>1. db[p] = EmptyDatabase /\ todo[p] = Class \cup (IF chosen = None THEN {} ELSE {SetDefault})
    BY DEF Init
  <2>2. Listed(p) = {}
    BY <2>1 DEF Listed, EmptyDatabase
  <2>3. db[p] \in [m_TypeInfoList : Seq(Class), m_DefaultTypeNameHash : Nat, m_Initialized : BOOLEAN,
                   m_TypeDatabase : Seq(Concrete), m_DefaultType : Concrete \cup {None}]
    BY <2>1 DEF EmptyDatabase
  <2>4. ~db[p].m_Initialized
    BY <2>1 DEF EmptyDatabase
  <2>5. SetDefault \notin Class
    BY ClassAssumption DEF SetDefault, Class
  <2> QED
    BY <2>1, <2>2, <2>3, <2>4, <2>5 DEF DatabaseInv
<1>4. mem.cells = << >> /\ Lists(mem) = [c \in Class |-> << >>] /\ Counts(mem) = [c \in Class |-> 0]
  BY DEF Init, Lists, Counts, EmptyPool
<1>5. MemoryInv(mem, Pointers)
  <2>1. mem \in [cells : Seq(CellType), pools : [Class -> [m_Current : Seq(Nat), m_Allocated : Int]]]
    BY DEF Init, EmptyPool
  <2>2. CellsInv(<< >>, Lists(mem), {})
    <3>1. << >> \in Seq(CellType) /\ Lists(mem) \in [Class -> Seq(DOMAIN << >>)]
      BY <1>4
    <3>2. FreeOnce(Lists(mem))
      BY <1>4 DEF FreeOnce
    <3> QED
      BY <3>1, <3>2 DEF CellsInv
  <2> QED
    BY <1>1, <1>4, <2>1, <2>2 DEF MemoryInv
<1>6. ValuesInv /\ ReplicaInv /\ TypeHashExact
  BY <1>1 DEF Init, ValuesInv, ReplicaInv, TypeHashExact
<1>7. AtHome(mem.cells, Lists(mem))
  BY <1>4 DEF AtHome
<1>8. PoolsBalanced
  <2>1. Cardinality({}) = 0
    BY FS_EmptySet
  <2>2. HeapCells = {}
    BY <1>4 DEF HeapCells, Cells
  <2>3. Sum(Counts(mem)) = 0
    <3>1. NumClasses \in Nat /\ Class = 1 .. NumClasses
      BY ClassAssumption DEF Class
    <3>2. PICK f : f = [k \in 1 .. NumClasses |-> 0]
      OBVIOUS
    <3>3. Sum(f) = 0
      BY <3>1, <3>2, SumZero
    <3> QED
      BY <1>4, <3>1, <3>2, <3>3
  <2>4. \A c \in Class : mem.pools[c].m_Allocated = 0
    BY DEF Init, EmptyPool
  <2>5. \A c \in Class : {v \in Live : ClassOf(v) = c} = {}
    BY <1>1
  <2>6. \A c \in Class : mem.pools[c].m_Allocated = Cardinality({v \in Live : ClassOf(v) = c})
    BY <2>1, <2>4, <2>5
  <2>7. \A v \in Live : mem.cells[val[v].m_Ptr].home = ClassOf(v)
    BY <1>1
  <2>8. Sum(Counts(mem)) + Cardinality(HeapCells) = Cardinality(Live)
    BY <1>1, <2>1, <2>2, <2>3
  <2> QED
    BY <2>6, <2>7, <2>8 DEF PoolsBalanced, Counts
<1> QED
  BY <1>2, <1>3, <1>5, <1>6, <1>7, <1>8 DEF PolymorphicInv

\* Before the programs run there are no variables.
LEMMA StartingInv ==
  ASSUME PolymorphicInv, ~Running, UNCHANGED <<chosen, mem, val, sent, mixed>>,
         TypeInv', \A p \in Program : DatabaseInv(p)'
  PROVE  PolymorphicInv'
<1>1. Live = {} /\ Live' = {}
  BY DEF PolymorphicInv, ValuesInv, Live
<1>2. Pointers = {} /\ Pointers' = {}
  BY <1>1 DEF Pointers
<1>3. MemoryInv(mem', Pointers')
  BY <1>2 DEF PolymorphicInv
<1>4. Replica \in Var
  BY DEF Var
<1>5. val[Replica] = None
  BY <1>1, <1>4 DEF Live
<1>6. ValuesInv' /\ ReplicaInv' /\ TypeHashExact'
  BY <1>1, <1>5 DEF PolymorphicInv, ValuesInv, ReplicaInv, TypeHashExact
<1>7. PoolsBalanced'
  <2>1. PoolsBalanced
    BY DEF PolymorphicInv
  <2>2. \A c \in Class : {v \in Live : ClassOf(v) = c} = {} /\ {v \in Live' : ClassOf(v)' = c} = {}
    BY <1>1
  <2> QED
    BY <1>1, <2>1, <2>2 DEF PoolsBalanced, HeapCells, Cells
<1> QED
  BY <1>3, <1>6, <1>7 DEF PolymorphicInv

\* The class that NET_SET_DEFAULT_TYPE names is one, and has a hash.
LEMMA ChosenFacts ==
  ASSUME TypeInv, chosen # None
  PROVE  chosen \in Nat /\ chosen # 0 /\ chosen \in Concrete /\ TypeNameHash(chosen) = chosen
<1>1. chosen \in Hashed \ Abstract
  BY PolymorphicAssumption DEF TypeInv
<1>2. chosen \in Class
  BY <1>1, ClassAssumption
<1> QED
  BY <1>1, <1>2, ClassAssumption DEF Class, Concrete, TypeNameHash

\* A class is registered: the list has one class more.
LEMMA RegisterInv ==
  ASSUME PolymorphicInv, NEW p \in Program, NEW c \in Class, Register(p, c)
  PROVE  PolymorphicInv'
<1>1. TypeInv /\ DatabaseInv(p) /\ c \in todo[p] /\ ~db[p].m_Initialized
  BY DEF PolymorphicInv, Register
<1>2. ~Running
  BY <1>1 DEF Running, Started
<1>3. /\ todo' = [todo EXCEPT ![p] = todo[p] \ {c}]
      /\ db' = [db EXCEPT ![p] = AddClass(db[p], c)]
      /\ UNCHANGED <<chosen, mem, val, sent, mixed>>
  BY DEF Register
<1>4. /\ todo'[p] = todo[p] \ {c} /\ db'[p] = AddClass(db[p], c)
      /\ \A q \in Program \ {p} : todo'[q] = todo[q] /\ db'[q] = db[q]
      /\ DOMAIN db' = Program /\ todo' \in [Program -> SUBSET (Class \cup {SetDefault})]
  BY <1>1, <1>3 DEF TypeInv
<1>5. TypeInv'
  BY <1>1, <1>3, <1>4 DEF TypeInv
<1>6. DatabaseInv(p)'
  <2>1. PICK d : d = db[p]
    OBVIOUS
  <2>2. d \in [m_TypeInfoList : Seq(Class), m_DefaultTypeNameHash : Nat, m_Initialized : BOOLEAN,
               m_TypeDatabase : Seq(Concrete), m_DefaultType : Concrete \cup {None}]
    BY <1>1, <2>1 DEF DatabaseInv
  <2>3. PICK s \in Seq(Class) : s = <<c>> \o d.m_TypeInfoList
    <3>1. PICK t \in Seq(Class) : t = d.m_TypeInfoList
      BY <2>2
    <3>2. <<c>> \in Seq(Class)
      OBVIOUS
    <3> QED
      BY <3>1, <3>2, ConcatProps
  <2>4. TypeNameHash(c) \in Nat
    BY ClassAssumption DEF TypeNameHash, Class
  <2>5. PICK h \in Nat :
          h = IF d.m_DefaultTypeNameHash = 0 /\ c \notin Abstract THEN TypeNameHash(c)
              ELSE d.m_DefaultTypeNameHash
    BY <2>2, <2>4
  <2>6. db'[p] = [d EXCEPT !.m_TypeInfoList = s, !.m_DefaultTypeNameHash = h]
    BY <1>4, <2>1, <2>3, <2>5 DEF AddClass
  <2>7. /\ db'[p] \in [m_TypeInfoList : Seq(Class), m_DefaultTypeNameHash : Nat, m_Initialized : BOOLEAN,
                       m_TypeDatabase : Seq(Concrete), m_DefaultType : Concrete \cup {None}]
        /\ db'[p].m_TypeInfoList = s /\ db'[p].m_DefaultTypeNameHash = h
        /\ db'[p].m_Initialized = d.m_Initialized
    BY <2>2, <2>6
  <2>8. Listed(p)' = Class \ todo'[p]
    <3>1. Listed(p) = Class \ todo[p]
      BY <1>1 DEF DatabaseInv
    <3>2. {s[i] : i \in DOMAIN s} = Listed(p) \cup {c}
      <4>1. PICK t \in Seq(Class) : t = d.m_TypeInfoList
        BY <2>2
      <4>2. Listed(p) = {t[i] : i \in DOMAIN t}
        BY <2>1, <4>1 DEF Listed
      <4>3. <<c>> \in Seq(Class) /\ Len(<<c>>) = 1 /\ <<c>>[1] = c
        OBVIOUS
      <4>4. s = <<c>> \o t /\ DOMAIN t = 1 .. Len(t) /\ Len(t) \in Nat
        BY <2>3, <4>1
      <4>5. DOMAIN s = 1 .. 1 + Len(t) /\ s[1] = c /\ \A i \in 1 .. Len(t) : s[1 + i] = t[i]
        BY <4>3, <4>4
      <4>6. ASSUME NEW i \in DOMAIN s
            PROVE  i = 1 \/ \E j \in DOMAIN t : s[i] = t[j]
        <5>1. i = 1 \/ (i - 1 \in 1 .. Len(t) /\ 1 + (i - 1) = i)
          BY <4>4, <4>5
        <5> QED
          BY <4>4, <4>5, <5>1
      <4>7. \A j \in DOMAIN t : 1 + j \in DOMAIN s /\ s[1 + j] = t[j]
        BY <4>4, <4>5
      <4>8. 1 \in DOMAIN s
        BY <4>4, <4>5
      <4> QED
        BY <4>2, <4>5, <4>6, <4>7, <4>8
    <3>3. Listed(p)' = {s[i] : i \in DOMAIN s}
      BY <2>7 DEF Listed
    <3> QED
      BY <1>4, <3>1, <3>2, <3>3
  <2>9. ASSUME chosen # None, SetDefault \notin todo'[p]
        PROVE  h = chosen
    <3>1. SetDefault \notin todo[p]
      BY <1>4, <2>9, ClassAssumption DEF SetDefault, Class
    <3>2. d.m_DefaultTypeNameHash = chosen /\ chosen # 0
      BY <1>1, <2>1, <2>9, <3>1, ChosenFacts DEF DatabaseInv
    <3> QED
      BY <2>5, <3>2
  <2>10. todo'[p] \subseteq Class \cup {SetDefault} /\ todo'[p] \subseteq todo[p]
    BY <1>4
  <2> QED
    BY <1>1, <1>3, <2>1, <2>7, <2>8, <2>9, <2>10 DEF DatabaseInv
<1>7. ASSUME NEW q \in Program, q # p
      PROVE  DatabaseInv(q)'
  <2>1. DatabaseInv(q) /\ db'[q] = db[q] /\ todo'[q] = todo[q] /\ chosen' = chosen
    BY <1>3, <1>4, <1>7 DEF PolymorphicInv
  <2> QED
    BY <2>1 DEF DatabaseInv, Listed
<1> QED
  BY <1>2, <1>3, <1>5, <1>6, <1>7, StartingInv

\* NET_SET_DEFAULT_TYPE names the default; the classes may be numbered already.
LEMMA ChooseDefaultInv ==
  ASSUME PolymorphicInv, NEW p \in Program, ChooseDefault(p)
  PROVE  PolymorphicInv'
<1>1. TypeInv /\ DatabaseInv(p) /\ SetDefault \in todo[p]
  BY DEF PolymorphicInv, ChooseDefault
<1>2. ~Running
  BY <1>1 DEF Running, Started
<1>3. /\ todo' = [todo EXCEPT ![p] = todo[p] \ {SetDefault}]
      /\ db' = [db EXCEPT ![p] = SetDefaultTypeNameHash(db[p], chosen)]
      /\ UNCHANGED <<chosen, mem, val, sent, mixed>>
  BY DEF ChooseDefault
<1>4. /\ todo'[p] = todo[p] \ {SetDefault} /\ db'[p] = [db[p] EXCEPT !.m_DefaultTypeNameHash = chosen]
      /\ \A q \in Program \ {p} : todo'[q] = todo[q] /\ db'[q] = db[q]
      /\ DOMAIN db' = Program /\ todo' \in [Program -> SUBSET (Class \cup {SetDefault})]
  BY <1>1, <1>3 DEF TypeInv, SetDefaultTypeNameHash
<1>5. TypeInv'
  BY <1>1, <1>3, <1>4 DEF TypeInv
<1>6. chosen \in Nat
  BY <1>1, ChosenFacts DEF DatabaseInv
<1>7. DatabaseInv(p)'
  <2>1. db[p] \in [m_TypeInfoList : Seq(Class), m_DefaultTypeNameHash : Nat, m_Initialized : BOOLEAN,
                   m_TypeDatabase : Seq(Concrete), m_DefaultType : Concrete \cup {None}]
    BY <1>1 DEF DatabaseInv
  <2>2. /\ db'[p] \in [m_TypeInfoList : Seq(Class), m_DefaultTypeNameHash : Nat, m_Initialized : BOOLEAN,
                       m_TypeDatabase : Seq(Concrete), m_DefaultType : Concrete \cup {None}]
        /\ db'[p].m_TypeInfoList = db[p].m_TypeInfoList /\ db'[p].m_DefaultTypeNameHash = chosen
        /\ db'[p].m_Initialized = db[p].m_Initialized
        /\ db'[p].m_TypeDatabase = db[p].m_TypeDatabase
    BY <1>4, <1>6, <2>1
  <2>3. SetDefault \notin Class
    BY ClassAssumption DEF SetDefault, Class
  <2>4. Class \ todo'[p] = Class \ todo[p] /\ Concrete \ todo'[p] = Concrete \ todo[p]
    BY <1>4, <2>3 DEF Concrete
  <2>5. Listed(p)' = Listed(p)
    BY <2>2 DEF Listed
  <2>6. todo'[p] \subseteq Class \cup {SetDefault} /\ todo'[p] \subseteq todo[p]
    BY <1>4
  <2> QED
    BY <1>1, <1>3, <2>2, <2>4, <2>5, <2>6 DEF DatabaseInv
<1>8. ASSUME NEW q \in Program, q # p
      PROVE  DatabaseInv(q)'
  <2>1. DatabaseInv(q) /\ db'[q] = db[q] /\ todo'[q] = todo[q] /\ chosen' = chosen
    BY <1>3, <1>4, <1>8 DEF PolymorphicInv
  <2> QED
    BY <2>1 DEF DatabaseInv, Listed
<1> QED
  BY <1>2, <1>3, <1>5, <1>7, <1>8, StartingInv

\* The default type is one of the types, or none.
LEMMA DefaultOfType ==
  ASSUME NEW types \in Seq(Concrete), NEW hash
  PROVE  /\ DefaultOf(types, hash) \in Concrete \cup {None}
         /\ \A i \in DOMAIN types : TypeNameHash(types[i]) = hash =>
              \E j \in DOMAIN types : DefaultOf(types, hash) = types[j] /\ TypeNameHash(types[j]) = hash
<1> DEFINE matches == {i \in DOMAIN types : TypeNameHash(types[i]) = hash}
<1>1. CASE matches = {}
  BY <1>1 DEF DefaultOf
<1>2. CASE matches # {}
  <2>1. Len(types) \in Int /\ matches \in SUBSET Int /\ \A m \in matches : m <= Len(types)
    OBVIOUS
  <2>2. \E i \in matches : \A j \in matches : j <= i
    <3> HIDE DEF matches
    <3> QED
      BY <1>2, <2>1, GreatestNatural
  <2>3. PICK k : k = CHOOSE i \in matches : \A j \in matches : j <= i
    OBVIOUS
  <2>4. k \in matches
    BY <2>2, <2>3
  <2>5. DefaultOf(types, hash) = types[k]
    BY <1>2, <2>3 DEF DefaultOf
  <2> QED
    BY <2>4, <2>5
<1> QED
  BY <1>1, <1>2

\* What FinalizeList makes of the list.
LEMMA FinalizedDatabase ==
  ASSUME PolymorphicInv, NEW p \in Program, ~db[p].m_Initialized
  PROVE  /\ InOrder(Concrete \ todo[p]) \in Seq(Concrete)
         /\ FinalizeList(db[p]) =
              [db[p] EXCEPT !.m_TypeInfoList = << >>, !.m_Initialized = TRUE,
                            !.m_TypeDatabase = InOrder(Concrete \ todo[p]),
                            !.m_DefaultType = DefaultOf(InOrder(Concrete \ todo[p]),
                                                        db[p].m_DefaultTypeNameHash)]
<1>1. Listed(p) \ Abstract = Concrete \ todo[p]
  BY DEF PolymorphicInv, DatabaseInv, Concrete
<1>2. PICK S : S = Concrete \ todo[p]
  OBVIOUS
<1>3. S \in SUBSET (1 .. NumClasses) /\ 1 \in Int /\ NumClasses \in Int /\ S \subseteq Concrete
  BY <1>2, ClassAssumption DEF Concrete, Class
<1>4. InOrder(S) \in [1 .. Cardinality(S) -> S] /\ Cardinality(S) \in Nat
  BY <1>3, InOrderProps
<1>5. InOrder(S) \in Seq(Concrete)
  <2>1. PICK n \in Nat : n = Cardinality(S)
    BY <1>4
  <2>2. PICK t \in [1 .. n -> Concrete] : t = InOrder(S)
    BY <1>3, <1>4, <2>1
  <2> QED
    BY <2>2, FunctionSeq
<1> QED
  BY <1>1, <1>2, <1>5 DEF FinalizeList, Listed

\* The classes are numbered.
LEMMA FirstUseInv ==
  ASSUME PolymorphicInv, NEW p \in Program, FirstUse(p)
  PROVE  PolymorphicInv'
<1>1. TypeInv /\ DatabaseInv(p) /\ ~db[p].m_Initialized
  BY DEF PolymorphicInv, FirstUse
<1>2. ~Running
  BY <1>1 DEF Running, Started
<1>3. /\ db' = [db EXCEPT ![p] = FinalizeList(db[p])]
      /\ UNCHANGED <<chosen, todo, mem, val, sent, mixed>>
  BY DEF FirstUse
<1>4. PICK types : types = InOrder(Concrete \ todo[p])
  OBVIOUS
<1>5. PICK default : default = DefaultOf(types, db[p].m_DefaultTypeNameHash)
  OBVIOUS
<1>6. types \in Seq(Concrete) /\ default \in Concrete \cup {None}
  BY <1>1, <1>4, <1>5, FinalizedDatabase, DefaultOfType
<1>7. /\ db'[p] = [db[p] EXCEPT !.m_TypeInfoList = << >>, !.m_Initialized = TRUE,
                                !.m_TypeDatabase = types, !.m_DefaultType = default]
      /\ \A q \in Program \ {p} : db'[q] = db[q]
      /\ DOMAIN db' = Program
  BY <1>1, <1>3, <1>4, <1>5, FinalizedDatabase DEF TypeInv
<1>8. TypeInv'
  BY <1>1, <1>3, <1>7 DEF TypeInv
<1>9. DatabaseInv(p)'
  <2>1. db[p] \in [m_TypeInfoList : Seq(Class), m_DefaultTypeNameHash : Nat, m_Initialized : BOOLEAN,
                   m_TypeDatabase : Seq(Concrete), m_DefaultType : Concrete \cup {None}]
    BY <1>1 DEF DatabaseInv
  <2>2. /\ db'[p] \in [m_TypeInfoList : Seq(Class), m_DefaultTypeNameHash : Nat, m_Initialized : BOOLEAN,
                       m_TypeDatabase : Seq(Concrete), m_DefaultType : Concrete \cup {None}]
        /\ db'[p].m_DefaultTypeNameHash = db[p].m_DefaultTypeNameHash
        /\ db'[p].m_Initialized
        /\ db'[p].m_TypeDatabase = types
    <3>1. PICK none \in Seq(Class) : none = << >>
      <4>1. << >> \in Seq(Class)
        OBVIOUS
      <4> QED
        BY <4>1, Zenon
    <3>2. PICK d : d = db[p]
      OBVIOUS
    <3>3. db'[p] = [d EXCEPT !.m_TypeInfoList = none, !.m_Initialized = TRUE,
                             !.m_TypeDatabase = types, !.m_DefaultType = default]
      BY <1>7, <3>1, <3>2
    <3> QED
      BY <1>6, <2>1, <3>2, <3>3
  <2> QED
    BY <1>1, <1>3, <1>4, <2>2 DEF DatabaseInv
<1>10. ASSUME NEW q \in Program, q # p
       PROVE  DatabaseInv(q)'
  <2>1. DatabaseInv(q) /\ db'[q] = db[q] /\ todo'[q] = todo[q] /\ chosen' = chosen
    BY <1>3, <1>7, <1>10 DEF PolymorphicInv
  <2> QED
    BY <2>1 DEF DatabaseInv, Listed
<1> QED
  BY <1>2, <1>3, <1>8, <1>9, <1>10, StartingInv

(***************************************************************************)
(* The operations of the variables.                                        *)
(***************************************************************************)

\* The type database does not change any more.
Fixed == UNCHANGED <<chosen, todo, db>>

\* What an operation on v leaves alone.
OthersKept(v) == \A w \in Others(v) : w \in Live' /\ val'[w] = val[w] /\ ObjectOf(w)' = ObjectOf(w)

\* A step of the variables needs only the part of the invariant about them.
LEMMA WorkInv ==
  ASSUME PolymorphicInv, Fixed, mixed' \in BOOLEAN, Core', ReplicaInv'
  PROVE  PolymorphicInv'
<1>1. TypeInv'
  BY DEF PolymorphicInv, TypeInv, Fixed
<1>2. \A p \in Program : DatabaseInv(p)'
  BY DEF PolymorphicInv, DatabaseInv, Listed, Fixed
<1> QED
  BY <1>1, <1>2 DEF PolymorphicInv, Core

\* Only the messages of the peer change the replica.
LEMMA ReplicaKept ==
  ASSUME PolymorphicInv, sent' = sent, NEW v \in Var, v = Replica => val[v] = None, OthersKept(v)
  PROVE  ReplicaInv'
<1>1. ReplicaInv /\ Replica \in Var
  BY DEF PolymorphicInv, Var
<1>2. CASE sent = None
  BY <1>1, <1>2 DEF ReplicaInv
<1>3. CASE sent # None
  <2>1. Replica \in Others(v)
    BY <1>1, <1>3 DEF ReplicaInv, Others, Live
  <2>2. Replica \in Live' /\ ObjectOf(Replica)' = ObjectOf(Replica)
    BY <2>1 DEF OthersKept
  <2> QED
    BY <1>1, <1>3, <2>2 DEF ReplicaInv, Live
<1> QED
  BY <1>2, <1>3

\* What a value that is copied from brings along.
LEMMA CopiedFacts ==
  ASSUME PolymorphicInv, NEW w \in Live
  PROVE  HashOf(val[w].m_TypeHash, ClassOf(w)) /\ ObjectOf(w).data \in Data
<1>1. val[w] \in ValueType /\ ObjectOf(w) \in ObjectType
  BY LiveFacts
<1>2. TypeHashExact
  BY DEF PolymorphicInv
<1> QED
  BY <1>1, <1>2 DEF ValueType, ObjectType, TypeHashExact, HashOf

\* The invariant after Create.
LEMMA CreatedInv ==
  ASSUME PolymorphicInv, Running, Fixed, NEW v \in Var, NEW m, Without(v, m),
         NEW c \in Concrete, NEW data \in Data, NEW hash, HashOf(hash, c),
         Create(v, m, c, data, hash), ~mixed' => ~mixed /\ AllHome(v, m)
  PROVE  Core' /\ OthersKept(v) /\ v \in Live' /\ ObjectOf(v)' = Object(c, data)
<1>1. PICK p : Settled(v, p, c, data, hash)
  BY CreateSettled
<1>2. UNCHANGED <<chosen, todo, db>>
  BY DEF Fixed
<1> QED
  BY <1>1, <1>2, SettledInv DEF OthersKept

\* The three constructors that allocate from a pool.
LEMMA ConstructInv ==
  ASSUME PolymorphicInv, NEW v \in Var, Construct(v)
  PROVE  PolymorphicInv'
<1>1. Running /\ val[v] = None /\ Fixed /\ sent' = sent /\ mixed' = mixed
  BY DEF Construct, Unconnected, Fixed
<1>2. Without(v, mem) /\ (~mixed => AllHome(v, mem))
  BY <1>1, NothingToGive
<1>3. PICK c \in Concrete, data \in Data, hash \in Class :
        HashOf(hash, c) /\ Create(v, mem, c, data, hash)
  <2>1. CASE Here.m_DefaultType # None /\ Create(v, mem, Here.m_DefaultType, DefaultData, BaseClass)
    <3>1. Here.m_DefaultType \in Concrete
      BY <2>1 DEF PolymorphicInv, DatabaseInv, Here, Program
    <3>2. BaseClass \in Class
      BY ClassAssumption DEF BaseClass
    <3>3. HashOf(BaseClass, Here.m_DefaultType)
      BY <3>2 DEF HashOf
    <3> QED
      BY <2>1, <3>1, <3>2, <3>3, PolymorphicAssumption
  <2>2. CASE \E c \in Used, data \in Data : Create(v, mem, c, data, c)
    <3>1. PICK c \in Used, data \in Data : Create(v, mem, c, data, c)
      BY <2>2
    <3>2. c \in Concrete /\ c \in Class
      BY PolymorphicAssumption DEF Concrete
    <3>3. HashOf(c, c)
      BY <3>2 DEF HashOf
    <3> QED
      BY <3>1, <3>2, <3>3
  <2>3. CASE \E w \in Var : val[w] # None /\ Create(v, mem, ClassOf(w), ObjectOf(w).data, val[w].m_TypeHash)
    <3>1. PICK w \in Var : val[w] # None /\ Create(v, mem, ClassOf(w), ObjectOf(w).data, val[w].m_TypeHash)
      BY <2>3
    <3>2. w \in Live
      BY <3>1 DEF Live
    <3>3. ClassOf(w) \in Concrete /\ HashOf(val[w].m_TypeHash, ClassOf(w)) /\ ObjectOf(w).data \in Data
      BY <3>2, LiveFacts, CopiedFacts
    <3>4. val[w].m_TypeHash \in Class
      BY <3>3 DEF HashOf
    <3> QED
      BY <3>1, <3>3, <3>4
  <2> QED
    BY <2>1, <2>2, <2>3 DEF Construct
<1>4. Core' /\ OthersKept(v)
  BY <1>1, <1>2, <1>3, CreatedInv
<1>5. ReplicaInv'
  BY <1>1, <1>4, ReplicaKept
<1> QED
  BY <1>1, <1>4, <1>5, WorkInv DEF PolymorphicInv, TypeInv

\* The constructor that copies an object with new.
LEMMA ConstructFromInv ==
  ASSUME PolymorphicInv, NEW v \in Var, ConstructFrom(v)
  PROVE  PolymorphicInv'
<1>1. Running /\ val[v] = None /\ Fixed /\ sent' = sent /\ mixed' = TRUE
  BY DEF ConstructFrom, Unconnected, Fixed
<1>2. PICK c \in Used, data \in Data :
        /\ mem' = New(mem, Object(c, data))
        /\ val' = [val EXCEPT ![v] = Value(Len(mem'.cells), GetClassId(Here, c), c)]
  BY DEF ConstructFrom
<1>3. c \in Concrete /\ HashOf(c, c)
  BY PolymorphicAssumption DEF Concrete, HashOf
<1>4. PICK p : Settled(v, p, c, data, c)
  BY <1>1, <1>2, <1>3, NewSettled
<1>5. Core' /\ OthersKept(v)
  BY <1>1, <1>3, <1>4, SettledInv DEF Fixed, OthersKept
<1>6. ReplicaInv'
  BY <1>1, <1>5, ReplicaKept
<1> QED
  BY <1>1, <1>5, <1>6, WorkInv

\* The destructor.
LEMMA DestroyInv ==
  ASSUME PolymorphicInv, NEW v \in Locals, Destroy(v)
  PROVE  PolymorphicInv'
<1>1. v \in Live /\ v \in Var /\ v # Replica
  BY PolymorphicAssumption DEF Destroy, Live, Var
<1>2. Fixed /\ sent' = sent /\ mixed' = mixed /\ val' = [val EXCEPT ![v] = None]
  BY DEF Destroy, Unconnected, Fixed
<1>3. PICK d : d = ClassOf(v)
  OBVIOUS
<1>4. d \in Class
  BY <1>1, <1>3, LiveFacts
<1>5. PICK m : m = mem'
  OBVIOUS
<1>6. m = Deallocate(mem, d, val[v].m_Ptr)
  BY <1>3, <1>5 DEF Destroy
<1>7. Without(v, m) /\ (~mixed => AllHome(v, m))
  BY <1>1, <1>3, <1>4, <1>6, GivenBack
<1>8. Core' /\ OthersKept(v)
  BY <1>1, <1>2, <1>5, <1>7, DestroyedInv DEF Fixed, OthersKept
<1>9. ReplicaInv'
  BY <1>1, <1>2, <1>8, ReplicaKept
<1> QED
  BY <1>2, <1>8, <1>9, WorkInv DEF PolymorphicInv, TypeInv

\* operator =, from another variable or from itself.
LEMMA AssignInv ==
  ASSUME PolymorphicInv, NEW v \in Locals, NEW w \in Var, Assign(v, w)
  PROVE  PolymorphicInv'
<1>1. v \in Live /\ v \in Var /\ v # Replica /\ w \in Live
  BY PolymorphicAssumption DEF Assign, Live, Var
<1>2. Fixed /\ sent' = sent /\ mixed' = mixed
  BY DEF Assign, Unconnected, Fixed
<1>3. PICK d : d = ClassOf(v)
  OBVIOUS
<1>4. d \in Class /\ Running
  BY <1>1, <1>3, LiveFacts
<1>5. PICK m : m = Deallocate(mem, d, val[v].m_Ptr)
  OBVIOUS
<1>6. Without(v, m) /\ (~mixed => AllHome(v, m))
  BY <1>1, <1>3, <1>4, <1>5, GivenBack
<1>7. PICK c : c = ClassOf(w)
  OBVIOUS
<1>8. PICK hash : hash = val[w].m_TypeHash
  OBVIOUS
<1>9. c \in Concrete /\ HashOf(hash, c)
  BY <1>1, <1>7, <1>8, LiveFacts, CopiedFacts
<1>10. PICK data : data = IF w = v THEN DefaultData ELSE ObjectOf(w).data
  OBVIOUS
<1>11. data \in Data
  BY <1>1, <1>10, CopiedFacts, PolymorphicAssumption
<1>12. Create(v, m, c, data, hash)
  BY <1>3, <1>5, <1>7, <1>8, <1>10 DEF Assign
<1>13. Core' /\ OthersKept(v)
  BY <1>1, <1>2, <1>4, <1>6, <1>9, <1>11, <1>12, CreatedInv
<1>14. ReplicaInv'
  BY <1>1, <1>2, <1>13, ReplicaKept
<1> QED
  BY <1>2, <1>13, <1>14, WorkInv DEF PolymorphicInv, TypeInv

\* A write through operator ->.
LEMMA ModifyInv ==
  ASSUME PolymorphicInv, NEW v \in Locals, Modify(v)
  PROVE  PolymorphicInv'
<1>1. v \in Live /\ v \in Var /\ v # Replica
  BY PolymorphicAssumption DEF Modify, Live, Var
<1>2. Fixed /\ sent' = sent /\ UNCHANGED <<val, mixed>>
  BY DEF Modify, Unconnected, Fixed
<1>3. PICK data \in Data : mem' = Write(mem, val[v].m_Ptr, data)
  BY DEF Modify
<1>4. Core' /\ OthersKept(v)
  BY <1>1, <1>2, <1>3, WrittenInv DEF Fixed, OthersKept
<1>5. ReplicaInv'
  BY <1>1, <1>2, <1>4, ReplicaKept
<1> QED
  BY <1>2, <1>4, <1>5, WorkInv DEF PolymorphicInv, TypeInv

\* SetType gives the variable an object of the class it is told.
LEMMA TypeSet ==
  ASSUME PolymorphicInv, Fixed, NEW v \in Live, NEW c \in Concrete, NEW force, NEW data \in Data,
         SetTypeAnd(v, c, force, data)
  PROVE  Core' /\ OthersKept(v) /\ v \in Live' /\ ObjectOf(v)' = Object(c, data) /\ mixed' \in BOOLEAN
<1>1. CASE c = ClassOf(v) /\ ~force
  <2>1. mem' = Write(mem, val[v].m_Ptr, data) /\ UNCHANGED <<val, mixed>>
    BY <1>1 DEF SetTypeAnd
  <2>2. /\ Core' /\ v \in Live' /\ ObjectOf(v)' = Object(ClassOf(v), data)
        /\ OthersKept(v)
    BY <2>1, WrittenInv DEF Fixed, OthersKept
  <2> QED
    BY <1>1, <2>1, <2>2 DEF PolymorphicInv, TypeInv
<1>2. CASE ~(c = ClassOf(v) /\ ~force)
  <2>1. PICK m : m = Deallocate(mem, c, val[v].m_Ptr)
    OBVIOUS
  <2>2. Create(v, m, c, data, c) /\ mixed' = (mixed \/ c # ClassOf(v))
    BY <1>2, <2>1 DEF SetTypeAnd
  <2>3. Running /\ c \in Class /\ HashOf(c, c) /\ v \in Var
    BY LiveFacts DEF Concrete, HashOf
  <2>4. Without(v, m) /\ (~mixed /\ c = ClassOf(v) => AllHome(v, m))
    BY <2>1, <2>3, GivenBack
  <2>5. ~mixed' => ~mixed /\ AllHome(v, m)
    BY <2>2, <2>4
  <2> QED
    BY <2>2, <2>3, <2>4, <2>5, CreatedInv
<1> QED
  BY <1>1, <1>2

\* SetType, forced or not.
LEMMA SetTypeInv ==
  ASSUME PolymorphicInv, NEW v \in Locals, SetType(v)
  PROVE  PolymorphicInv'
<1>1. v \in Live /\ v \in Var /\ v # Replica
  BY PolymorphicAssumption DEF SetType, Live, Var
<1>2. Fixed /\ sent' = sent
  BY DEF SetType, Unconnected, Fixed
<1>a. PICK c \in Used, force \in BOOLEAN :
        SetTypeAnd(v, c, force, IF c = ClassOf(v) /\ ~force THEN ObjectOf(v).data ELSE DefaultData)
  BY DEF SetType
<1>3. PICK data :
        /\ data = IF c = ClassOf(v) /\ ~force THEN ObjectOf(v).data ELSE DefaultData
        /\ SetTypeAnd(v, c, force, data)
  BY <1>a
<1>4. data \in Data /\ c \in Concrete
  BY <1>1, <1>3, CopiedFacts, PolymorphicAssumption DEF Concrete
<1>5. Core' /\ OthersKept(v) /\ mixed' \in BOOLEAN
  BY <1>1, <1>2, <1>3, <1>4, TypeSet
<1>6. ReplicaInv'
  BY <1>1, <1>2, <1>5, ReplicaKept
<1> QED
  BY <1>2, <1>5, <1>6, WorkInv

\* The class id that the peer writes is read back as the same class here.
LEMMA WireId ==
  ASSUME PolymorphicInv, Running, NEW c \in Concrete, NEW id,
         id = Truncate(GetClassId(db["peer"], c), ClassIdBits("peer"))
  PROVE  id \in Nat /\ GetTypeInfo(Here, id) = c
<1>1. PICK d : d = db["peer"]
  OBVIOUS
<1>2. d.m_TypeDatabase = InOrder(Concrete) /\ Here.m_TypeDatabase = InOrder(Concrete)
  BY <1>1, RunningIds DEF PolymorphicInv, Running, Program, Here
<1>3. PICK x, n : x = GetClassId(d, c) /\ n = GetNumTypes(d)
  OBVIOUS
<1>4. x \in Nat /\ x < n /\ GetTypeInfo(d, x) = c /\ n \in Nat /\ n <= NumClasses
  BY <1>2, <1>3, IdRoundTrip
<1>5. PICK max \in Nat : max = n - 1 /\ x <= max
  BY <1>4
<1>6. max < 2 ^ 32
  BY <1>4, <1>5, IdAssumption, ClassAssumption
<1>7. PICK b : b = GetRequiredBits(max)
  OBVIOUS
<1>8. b \in 1 .. 32 /\ max < 2 ^ b
  BY <1>6, <1>7, RequiredBitsRange, WidthFits
<1>9. x < 2 ^ b
  <2>1. 2 ^ b \in Nat
    BY <1>8, PowerOfTwo
  <2> QED
    BY <1>4, <1>5, <1>8, <2>1
<1>10. Truncate(x, b) = x
  BY <1>4, <1>8, <1>9, TruncateFits
<1>11. id = x
  BY <1>1, <1>3, <1>5, <1>7, <1>10 DEF ClassIdBits
<1> QED
  BY <1>2, <1>4, <1>11 DEF GetTypeInfo

\* A message with a class id in it.
LEMMA NamedInv ==
  ASSUME PolymorphicInv, Fixed, Replica \in Live, NEW c \in Concrete, NEW data \in Data,
         Deserialize(Replica, SerializeValue(Object(c, data)))
  PROVE  Core' /\ Replica \in Live' /\ ObjectOf(Replica)' = Object(c, data) /\ mixed' \in BOOLEAN
<1>1. PICK id : id = Truncate(GetClassId(db["peer"], c), ClassIdBits("peer"))
  OBVIOUS
<1>2. Running
  BY LiveFacts
<1>3. id \in Nat /\ id # None /\ GetTypeInfo(Here, id) = c
  BY <1>1, <1>2, WireId, ClassAssumption
<1>4. SerializeValue(Object(c, data)) = [class_id |-> id, data |-> data]
  BY <1>1 DEF SerializeValue, Object
<1>5. SetTypeAnd(Replica, c, FALSE, data)
  <2>1. PICK msg : msg = SerializeValue(Object(c, data))
    OBVIOUS
  <2>2. msg.class_id = id /\ msg.data = data
    BY <1>4, <2>1
  <2>3. Deserialize(Replica, msg)
    BY <2>1
  <2>4. SetTypeAnd(Replica, GetTypeInfo(Here, msg.class_id), FALSE, msg.data)
    BY <1>3, <2>2, <2>3 DEF Deserialize
  <2> QED
    BY <1>3, <2>2, <2>4
<1> QED
  BY <1>5, TypeSet

\* A message with a class id, one without, and none.
LEMMA GotStateInv ==
  ASSUME PolymorphicInv, GotState
  PROVE  PolymorphicInv'
<1>1. Replica \in Live /\ Fixed
  BY DEF GotState, Live, Var, Fixed
<1>a. PICK c \in Used, data \in Data : \E o, msg :
        /\ o = Object(c, data)
        /\ msg = IF sent = None THEN SerializeValue(o) ELSE SerializeDelta(o, sent)
        /\ IF msg = None THEN UNCHANGED <<mem, val, mixed>> ELSE Deserialize(Replica, msg)
        /\ sent' = o
  BY DEF GotState
<1>2. PICK o, msg :
        /\ o = Object(c, data)
        /\ msg = IF sent = None THEN SerializeValue(o) ELSE SerializeDelta(o, sent)
        /\ IF msg = None THEN UNCHANGED <<mem, val, mixed>> ELSE Deserialize(Replica, msg)
        /\ sent' = o
  BY <1>a
<1>3. c \in Concrete /\ o \in ObjectType /\ o.class = c /\ o.data = data
  BY <1>2, PolymorphicAssumption DEF Concrete, Object, ObjectType
<1>4. Running /\ ObjectOf(Replica).class = ClassOf(Replica)
  BY <1>1, LiveFacts
<1>5. SerializeValue(o) # None
  <2>1. PICK id : id = Truncate(GetClassId(db["peer"], c), ClassIdBits("peer"))
    OBVIOUS
  <2>2. id \in Nat
    BY <1>3, <1>4, <2>1, WireId
  <2>3. SerializeValue(o) = [class_id |-> id, data |-> data]
    BY <1>3, <2>1 DEF SerializeValue
  <2>4. SerializeValue(o) \in [class_id : Nat \cup {None}, data : Data]
    BY <2>2, <2>3
  <2> QED
    BY <2>4, PolymorphicAssumption
<1>6. ReplicaInv /\ mixed \in BOOLEAN
  BY DEF PolymorphicInv, TypeInv
<1>7. /\ Core' /\ mixed' \in BOOLEAN
      /\ Replica \in Live' /\ ObjectOf(Replica)' = o
  <2>1. CASE sent = None \/ sent.class # c
    <3>1. msg = SerializeValue(o)
      BY <1>2, <1>3, <2>1 DEF SerializeDelta
    <3>2. Deserialize(Replica, SerializeValue(Object(c, data)))
      BY <1>2, <1>5, <3>1
    <3> QED
      BY <1>1, <1>2, <1>3, <3>2, NamedInv
  <2>2. CASE sent # None /\ sent.class = c /\ sent.data # data
    <3>1. msg = [class_id |-> None, data |-> data]
      BY <1>2, <1>3, <2>2 DEF SerializeDelta
    <3>2. msg \in [class_id : Nat \cup {None}, data : Data]
      BY <3>1
    <3>3. msg # None
      BY <3>2, PolymorphicAssumption
    <3>4. mem' = Write(mem, val[Replica].m_Ptr, data) /\ UNCHANGED <<val, mixed>>
      <4>1. msg.class_id = None /\ msg.data = data
        BY <3>1
      <4>2. Deserialize(Replica, msg)
        BY <1>2, <3>3
      <4> QED
        BY <4>1, <4>2 DEF Deserialize
    <3>5. Core' /\ Replica \in Live' /\ ObjectOf(Replica)' = Object(ClassOf(Replica), data)
      BY <1>1, <3>4, WrittenInv DEF Fixed
    <3>6. ClassOf(Replica) = c
      BY <1>4, <1>6, <2>2 DEF ReplicaInv
    <3> QED
      BY <1>2, <1>6, <3>4, <3>5, <3>6
  <2>3. CASE sent # None /\ sent.class = c /\ sent.data = data
    <3>1. msg = None
      BY <1>2, <1>3, <2>3 DEF SerializeDelta
    <3>2. UNCHANGED <<mem, val, mixed>>
      BY <1>2, <3>1
    <3>3. UNCHANGED <<chosen, todo, db, mem, val, mixed>>
      BY <1>1, <3>2 DEF Fixed
    <3>4. Core
      BY DEF PolymorphicInv, Core
    <3>5. Core'
      BY <3>3, <3>4 DEF Core, Pointers, Live, ValuesInv, Running, Started, TypeHashExact, PoolsBalanced,
                        ClassOf, ObjectOf, Here, HeapCells, Cells
    <3>6. Replica \in Live' /\ ObjectOf(Replica)' = ObjectOf(Replica)
      BY <1>1, <3>3 DEF Live, ObjectOf
    <3>7. sent = o
      BY <1>2, <1>6, <2>3 DEF ReplicaInv, Object, ObjectType
    <3> QED
      BY <1>6, <2>3, <3>2, <3>5, <3>6, <3>7 DEF ReplicaInv
  <2> QED
    BY <2>1, <2>2, <2>3
<1>8. ReplicaInv'
  BY <1>2, <1>3, <1>7 DEF ReplicaInv, Live
<1> QED
  BY <1>1, <1>7, <1>8, WorkInv

------------------------------------------------------------------------------
(***************************************************************************)
(* The theorems.                                                           *)
(***************************************************************************)

\* The invariant is inductive.
LEMMA StepInv ==
  PolymorphicInv /\ [Next]_vars => PolymorphicInv'
<1> SUFFICES ASSUME PolymorphicInv, [Next]_vars
             PROVE  PolymorphicInv'
  OBVIOUS
<1>1. ASSUME NEW p \in Program, ChooseDefault(p)
      PROVE  PolymorphicInv'
  BY <1>1, ChooseDefaultInv
<1>2. ASSUME NEW p \in Program, FirstUse(p)
      PROVE  PolymorphicInv'
  BY <1>2, FirstUseInv
<1>3. ASSUME NEW p \in Program, NEW c \in Class, Register(p, c)
      PROVE  PolymorphicInv'
  BY <1>3, RegisterInv
<1>4. ASSUME NEW v \in Var, Construct(v)
      PROVE  PolymorphicInv'
  BY <1>4, ConstructInv
<1>5. ASSUME NEW v \in Var, ConstructFrom(v)
      PROVE  PolymorphicInv'
  BY <1>5, ConstructFromInv
<1>6. ASSUME NEW v \in Locals, Destroy(v)
      PROVE  PolymorphicInv'
  BY <1>6, DestroyInv
<1>7. ASSUME NEW v \in Locals, Modify(v)
      PROVE  PolymorphicInv'
  BY <1>7, ModifyInv
<1>8. ASSUME NEW v \in Locals, SetType(v)
      PROVE  PolymorphicInv'
  BY <1>8, SetTypeInv
<1>9. ASSUME NEW v \in Locals, NEW w \in Var, Assign(v, w)
      PROVE  PolymorphicInv'
  BY <1>9, AssignInv
<1>10. CASE GotState
  BY <1>10, GotStateInv
<1>11. CASE UNCHANGED vars
  <2>1. UNCHANGED <<chosen, todo, db, mem, val, mixed>> /\ sent' = sent
    BY <1>11 DEF vars
  <2>2. Core
    BY DEF PolymorphicInv, Core
  <2>3. Core'
    BY <2>1, <2>2 DEF Core, Pointers, Live, ValuesInv, Running, Started, TypeHashExact, PoolsBalanced,
                      ClassOf, ObjectOf, Here, HeapCells, Cells
  <2>4. ReplicaInv' /\ mixed' \in BOOLEAN
    BY <2>1 DEF PolymorphicInv, TypeInv, ReplicaInv, ObjectOf
  <2>5. Fixed
    BY <2>1 DEF Fixed
  <2> QED
    BY <2>3, <2>4, <2>5, WorkInv
<1> QED
  BY <1>1, <1>2, <1>3, <1>4, <1>5, <1>6, <1>7, <1>8, <1>9, <1>10, <1>11 DEF Next

\* The invariant holds in every state.
LEMMA AlwaysInv ==
  Spec => []PolymorphicInv
<1> QED
  BY InitInv, StepInv, PTL DEF Spec

\* Both programs have numbered the same set of classes.
LEMMA InvIds ==
  PolymorphicInv => IdsAgree
BY RunningIds DEF PolymorphicInv, IdsAgree, Running, Program, Here

\* A cell has one owner and no place in a list, or the other way round.
LEMMA InvCells ==
  PolymorphicInv => CellsAccountedFor
<1> SUFFICES ASSUME PolymorphicInv, NEW p \in Cells
             PROVE  /\ Cardinality(Owners(p)) + Cardinality(FreePlaces(p)) = 1
                    /\ FreePlaces(p) # {} => mem.cells[p].object = None
                    /\ \A v \in Owners(p) : mem.cells[p].object # None /\ mem.cells[p].object.class = ClassOf(v)
  BY DEF CellsAccountedFor
<1>1. MemoryInv(mem, Pointers) /\ p \in DOMAIN mem.cells
  BY DEF PolymorphicInv, Cells
<1>2. /\ FreeOnce(Lists(mem))
      /\ p \in Pointers <=> ~Free(Lists(mem), p)
      /\ p \in Pointers <=> mem.cells[p].object # None
  BY <1>1 DEF MemoryInv, CellsInv
<1>3. Owners(p) # {} <=> p \in Pointers
  BY DEF Owners, Pointers
<1>4. \A c \in Class : Lists(mem)[c] = mem.pools[c].m_Current
  BY DEF Lists
<1>5. FreePlaces(p) # {} <=> Free(Lists(mem), p)
  <2>1. ASSUME NEW c \in Class, NEW i \in DOMAIN Lists(mem)[c], Lists(mem)[c][i] = p
        PROVE  <<c, i>> \in FreePlaces(p)
    BY <1>4, <2>1 DEF FreePlaces
  <2>2. ASSUME NEW x \in FreePlaces(p)
        PROVE  \E c \in Class : \E i \in DOMAIN Lists(mem)[c] : Lists(mem)[c][i] = p
    BY <1>4 DEF FreePlaces
  <2> QED
    BY <2>1, <2>2 DEF Free
<1>6. \A v, w \in Owners(p) : v = w
  BY DEF Owners, PolymorphicInv, ValuesInv
<1>7. \A x, y \in FreePlaces(p) : x = y
  BY <1>2 DEF FreePlaces, Lists, FreeOnce
<1>8. Cardinality({}) = 0 /\ \A x : Cardinality({x}) = 1
  BY FS_EmptySet, FS_Singleton
<1>9. \A v \in Owners(p) : mem.cells[p].object.class = ClassOf(v)
  BY DEF Owners, PolymorphicInv, ValuesInv, ObjectOf
<1>10. CASE p \in Pointers
  <2>1. PICK v : v \in Owners(p)
    BY <1>3, <1>10
  <2>2. Owners(p) = {v} /\ FreePlaces(p) = {}
    BY <1>2, <1>5, <1>6, <1>10, <2>1
  <2>3. Cardinality(Owners(p)) = 1 /\ Cardinality(FreePlaces(p)) = 0
    BY <1>8, <2>2
  <2> QED
    BY <1>2, <1>9, <1>10, <2>2, <2>3
<1>11. CASE p \notin Pointers
  <2>1. PICK x : x \in FreePlaces(p)
    BY <1>2, <1>5, <1>11
  <2>2. Owners(p) = {} /\ FreePlaces(p) = {x}
    BY <1>3, <1>7, <1>11, <2>1
  <2>3. Cardinality(Owners(p)) = 0 /\ Cardinality(FreePlaces(p)) = 1
    BY <1>8, <2>2
  <2> QED
    BY <1>2, <1>11, <2>2, <2>3
<1> QED
  BY <1>10, <1>11

\* Two programs that have both started number their classes alike, whatever
\* the classes, their hierarchy and the order of the static initialisers.
THEOREM IdsAgreeAlways ==
  Spec => []IdsAgree
<1> QED
  BY AlwaysInv, InvIds, PTL

\* Every cell of every pool and of the heap is owned by one value or is in
\* one place of one free list, for any number of classes, values and cells.
THEOREM CellsAccountedForAlways ==
  Spec => []CellsAccountedFor
<1> QED
  BY AlwaysInv, InvCells, PTL

\* The pools' counters are exact until objects wander, and their sum is
\* exact for ever.
THEOREM PoolsBalancedAlways ==
  Spec => []PoolsBalanced
<1>1. PolymorphicInv => PoolsBalanced
  BY DEF PolymorphicInv
<1> QED
  BY <1>1, AlwaysInv, PTL

\* Is<T> compares the hash of the object's class, or of the base class in a
\* value that goes back to a default constructed one.
THEOREM TypeHashExactAlways ==
  Spec => []TypeHashExact
<1>1. PolymorphicInv => TypeHashExact
  BY DEF PolymorphicInv
<1> QED
  BY <1>1, AlwaysInv, PTL

\* The replica is what the peer sent last.
THEOREM ReplicaFollowsAlways ==
  Spec => []ReplicaFollows
<1>1. PolymorphicInv => ReplicaFollows
  BY DEF PolymorphicInv, ReplicaInv, ReplicaFollows
<1> QED
  BY <1>1, AlwaysInv, PTL

(***************************************************************************)
(* InheritsFrom.  It follows the base classes of c for as many steps as    *)
(* there are types, and stops at the one it looks for.                     *)
(***************************************************************************)
Rise(d, base, at) == IF at = base THEN at ELSE ParentOf(d, at)

Climb(d, h, n, c, base) ==
  /\ h[0] = c
  /\ \A k \in 1 .. n : h[k] = Rise(d, base, h[k - 1])

\* InheritsFrom asks where such a climb ends.
LEMMA InheritsClimb ==
  ASSUME NEW d, NEW types \in Seq(Concrete), d.m_TypeDatabase = types,
         NEW c \in Concrete, NEW base \in Concrete
  PROVE  \E h : Climb(d, h, Len(types), c, base) /\ (InheritsFrom(d, c, base) <=> h[Len(types)] = base)
<1>0. PICK n \in Nat : n = Len(types) /\ DOMAIN types = 1 .. n
  OBVIOUS
<1> DEFINE A == Concrete \cup {None}
           step == [k \in 1 .. n |-> [x \in A |-> Rise(d, base, x)]]
<1>1. \A x \in A : Rise(d, base, x) \in A
  BY DEF Rise, ParentOf, Registered
<1>2. step \in Steps(A, n)
  BY <1>1 DEF Steps
<1>3. PICK g : FoldOf(g, A, c, n, step)
  <2>1. c \in A
    OBVIOUS
  <2> HIDE DEF step, A
  <2> QED
    BY <1>2, <2>1, FoldDefined
<1>4. g = [s \in SUBSET (1 .. n) |-> IF s = {} THEN c ELSE Rise(d, base, g[s \ {Biggest(s)}])]
  <2>1. ASSUME NEW s \in SUBSET (1 .. n), s # {}
        PROVE  step[Biggest(s)][g[s \ {Biggest(s)}]] = Rise(d, base, g[s \ {Biggest(s)}])
    <3>1. Biggest(s) \in 1 .. n /\ s \ {Biggest(s)} \in SUBSET (1 .. n)
      BY <2>1, BiggestProps
    <3>2. g[s \ {Biggest(s)}] \in A
      BY <1>3, <3>1 DEF FoldOf
    <3> QED
      BY <3>1, <3>2
  <2> HIDE DEF step
  <2> QED
    BY <1>3, <2>1 DEF FoldOf
<1>5. PICK it : /\ it = [s \in SUBSET (1 .. n) |-> IF s = {} THEN c ELSE Rise(d, base, it[s \ {Biggest(s)}])]
                /\ InheritsFrom(d, c, base) <=> it[1 .. n] = base
  <2>1. \A s : Seqs!Max(s) = Biggest(s)
    BY DEF Seqs!Max, Biggest
  <2>2. g = [s \in SUBSET DOMAIN types |-> IF s = {} THEN c
               ELSE IF g[s \ {Seqs!Max(s)}] = base THEN g[s \ {Seqs!Max(s)}]
                    ELSE ParentOf(d, g[s \ {Seqs!Max(s)}])]
    BY <1>0, <1>4, <2>1 DEF Rise
  <2>3. \E it : /\ it = [s \in SUBSET DOMAIN types |-> IF s = {} THEN c
                           ELSE IF it[s \ {Seqs!Max(s)}] = base THEN it[s \ {Seqs!Max(s)}]
                                ELSE ParentOf(d, it[s \ {Seqs!Max(s)}])]
                /\ InheritsFrom(d, c, base) <=> it[DOMAIN types] = base
    BY <2>2 DEF InheritsFrom, Seqs!FoldLeft, Seqs!MapThenFoldSet
  <2>4. PICK it :
          /\ it = [s \in SUBSET DOMAIN types |-> IF s = {} THEN c
                     ELSE IF it[s \ {Seqs!Max(s)}] = base THEN it[s \ {Seqs!Max(s)}]
                          ELSE ParentOf(d, it[s \ {Seqs!Max(s)}])]
          /\ InheritsFrom(d, c, base) <=> it[DOMAIN types] = base
    BY <2>3
  <2>5. it = [s \in SUBSET (1 .. n) |-> IF s = {} THEN c ELSE Rise(d, base, it[s \ {Biggest(s)}])]
    BY <1>0, <2>1, <2>4 DEF Rise
  <2>6. InheritsFrom(d, c, base) <=> it[1 .. n] = base
    BY <1>0, <2>4
  <2> QED
    BY <2>5, <2>6
<1>6. it[1 .. 0] = c /\ \A k \in 1 .. n : it[1 .. k] = Rise(d, base, it[1 .. k - 1])
  <2>1. 1 .. 0 = {} /\ {} \in SUBSET (1 .. n)
    OBVIOUS
  <2>2. ASSUME NEW k \in 1 .. n
        PROVE  it[1 .. k] = Rise(d, base, it[1 .. k - 1])
    <3>1. 1 .. k \in SUBSET (1 .. n) /\ k \in Nat /\ k # 0
      OBVIOUS
    <3>2. Biggest(1 .. k) = k /\ (1 .. k) \ {k} = 1 .. k - 1 /\ 1 .. k # {}
      BY <3>1, BiggestPrefix
    <3>3. it[1 .. k] = Rise(d, base, it[(1 .. k) \ {Biggest(1 .. k)}])
      BY <1>5, <3>1, <3>2
    <3> QED
      BY <3>2, <3>3
  <2> QED
    BY <1>5, <2>1, <2>2
<1> DEFINE h == [k \in 0 .. n |-> it[1 .. k]]
<1>7. Climb(d, h, n, c, base)
  BY <1>6 DEF Climb
<1>8. h[n] = it[1 .. n]
  OBVIOUS
<1> HIDE DEF h
<1> QED
  BY <1>0, <1>5, <1>7, <1>8

\* A path along the base classes that meets its end only there meets no
\* class twice.
BasePath(path, m) ==
  /\ path \in [1 .. m -> Concrete]
  /\ \A i \in 1 .. m - 1 : path[i + 1] = Parent[path[i]]

\* Its length is at most the number of concrete classes.
LEMMA ShortPath ==
  ASSUME NEW m \in Nat \ {0}, NEW path, BasePath(path, m), \A i \in 1 .. m - 1 : path[i] # path[m]
  PROVE  m <= Cardinality(Concrete)
<1>1. ASSUME NEW i \in 1 .. m, NEW j \in 1 .. m, i < j, path[i] = path[j]
      PROVE  FALSE
  <2> DEFINE S == {t \in 0 .. m - j : path[i + t] = path[j + t]}
  <2>1. m - j \in Nat
    OBVIOUS
  <2>2. 0 \in S
    BY <1>1
  <2>3. ASSUME NEW t \in 0 .. (m - j) - 1, t \in S
        PROVE  t + 1 \in S
    <3>1. /\ i + t \in 1 .. m - 1 /\ j + t \in 1 .. m - 1
          /\ i + (t + 1) = (i + t) + 1 /\ j + (t + 1) = (j + t) + 1 /\ t + 1 \in 0 .. m - j
      BY <1>1
    <3>2. path[(i + t) + 1] = Parent[path[i + t]] /\ path[(j + t) + 1] = Parent[path[j + t]]
      BY <3>1 DEF BasePath
    <3> QED
      BY <2>3, <3>1, <3>2
  <2>4. 0 .. m - j \subseteq S
    <3> HIDE DEF S
    <3> QED
      BY <2>1, <2>2, <2>3, UpTo
  <2>5. path[i + (m - j)] = path[j + (m - j)]
    BY <2>1, <2>4
  <2>6. j + (m - j) = m /\ i + (m - j) \in 1 .. m - 1
    BY <1>1
  <2> QED
    BY <2>5, <2>6
<1>2. \A i, j \in 1 .. m : path[i] = path[j] => i = j
  BY <1>1
<1>3. path \in Injection(1 .. m, Concrete)
  BY <1>2 DEF BasePath, Injection, IsInjective
<1>4. IsFiniteSet(Concrete) /\ Cardinality(Concrete) \in Nat
  <2>1. Concrete \in SUBSET (1 .. NumClasses) /\ 1 \in Int /\ NumClasses \in Int
    BY ClassAssumption DEF Concrete, Class
  <2> QED
    BY <2>1, InOrderProps
<1>5. Cardinality(1 .. m) <= Cardinality(Concrete)
  BY <1>3, <1>4, FS_Injection
<1>6. Cardinality(1 .. m) = m
  <2>1. 1 \in Int /\ m \in Int
    OBVIOUS
  <2>2. Cardinality(1 .. m) = IF 1 > m THEN 0 ELSE m - 1 + 1
    BY <2>1, FS_Interval
  <2> QED
    BY <2>2
<1> QED
  BY <1>5, <1>6

\* A climb that arrives is a path of concrete classes, and the shortest path
\* of concrete classes is not longer than a climb.
LEMMA InheritsExact ==
  ASSUME NEW d, d.m_TypeDatabase = InOrder(Concrete), NEW c \in Concrete, NEW base \in Concrete
  PROVE  InheritsFrom(d, c, base) <=> ConcretePath(c, base)
<1>1. PICK types : types = InOrder(Concrete)
  OBVIOUS
<1>2. PICK n \in Nat :
        /\ n = Cardinality(Concrete) /\ types \in Seq(Concrete) /\ Len(types) = n
        /\ DOMAIN types = 1 .. n
        /\ \A x \in Concrete : \E i \in 1 .. n : types[i] = x
  <2>1. Concrete \in SUBSET (1 .. NumClasses) /\ 1 \in Int /\ NumClasses \in Int
    BY ClassAssumption DEF Concrete, Class
  <2>2. /\ Cardinality(Concrete) \in Nat /\ types \in Seq(Concrete)
        /\ Len(types) = Cardinality(Concrete)
        /\ \A x \in Concrete : \E i \in 1 .. Cardinality(Concrete) : types[i] = x
    BY <1>1, <2>1, InOrderProps
  <2> QED
    BY <2>2
<1>3. PICK h : Climb(d, h, n, c, base) /\ (InheritsFrom(d, c, base) <=> h[n] = base)
  BY <1>1, <1>2, InheritsClimb
<1>4. base # None /\ None \notin Concrete
  BY ClassAssumption DEF Concrete, Class
<1>5. \A x : Registered(d, x) <=> x \in Concrete
  BY <1>1, <1>2 DEF Registered
<1>6. n <= NumClasses /\ NumClasses \in Nat
  BY <1>1, <1>2, IdRoundTrip, ClassAssumption DEF GetNumTypes
<1>7. /\ Rise(d, base, base) = base /\ Rise(d, base, None) = None
      /\ \A x \in Concrete : x # base => Rise(d, base, x) \in Concrete \cup {None}
      /\ \A x \in Concrete : x # base /\ Rise(d, base, x) # None => Rise(d, base, x) = Parent[x]
      /\ \A x \in Concrete : x # base /\ Parent[x] \in Concrete => Rise(d, base, x) = Parent[x]
  BY <1>4, <1>5 DEF Rise, ParentOf
<1>8. \A k \in 0 .. n - 1 : h[k + 1] = Rise(d, base, h[k])
  <2> SUFFICES ASSUME NEW k \in 0 .. n - 1
               PROVE  h[k + 1] = Rise(d, base, h[k])
    OBVIOUS
  <2>1. k + 1 \in 1 .. n /\ (k + 1) - 1 = k
    OBVIOUS
  <2> QED
    BY <1>3, <2>1 DEF Climb
<1>9. \A k \in 0 .. n : h[k] \in Concrete \cup {None}
  <2> DEFINE S == {k \in 0 .. n : h[k] \in Concrete \cup {None}}
  <2>1. 0 \in S
    BY <1>3 DEF Climb
  <2>2. ASSUME NEW k \in 0 .. n - 1, k \in S
        PROVE  k + 1 \in S
    BY <1>7, <1>8, <2>2
  <2> HIDE DEF S
  <2>3. 0 .. n \subseteq S
    BY <2>1, <2>2, UpTo
  <2> QED
    BY <2>3 DEF S
<1>10. ASSUME NEW x, Rise(d, base, x) = x, NEW k \in 0 .. n, h[k] = x
       PROVE  h[n] = x
  <2> DEFINE S == {t \in 0 .. n - k : h[k + t] = x}
  <2>1. n - k \in Nat /\ k + (n - k) = n /\ k + 0 = k
    OBVIOUS
  <2>2. 0 \in S
    BY <1>10, <2>1
  <2>3. ASSUME NEW t \in 0 .. (n - k) - 1, t \in S
        PROVE  t + 1 \in S
    <3>1. k + t \in 0 .. n - 1 /\ k + (t + 1) = (k + t) + 1 /\ t + 1 \in 0 .. n - k
      OBVIOUS
    <3> QED
      BY <1>8, <1>10, <2>3, <3>1
  <2>4. 0 .. n - k \subseteq S
    <3> HIDE DEF S
    <3> QED
      BY <2>1, <2>2, <2>3, UpTo
  <2> QED
    BY <2>1, <2>4
<1>11. ASSUME h[n] = base
       PROVE  ConcretePath(c, base)
  <2> DEFINE T == {k \in 0 .. n : h[k] = base}
  <2>1. PICK K \in T : \A k \in T : K <= k
    <3>1. T \in SUBSET Nat /\ T # {}
      BY <1>11
    <3> HIDE DEF T
    <3> QED
      BY <3>1, LeastNatural
  <2>2. K \in 0 .. n /\ h[K] = base /\ \A k \in 0 .. K - 1 : h[k] # base
    BY <2>1
  <2> HIDE DEF T
  <2>3. \A k \in 0 .. K : h[k] \in Concrete
    <3> SUFFICES ASSUME NEW k \in 0 .. K
                 PROVE  h[k] \in Concrete
      OBVIOUS
    <3>1. k \in 0 .. n
      BY <2>2
    <3>2. h[k] # None
      BY <1>4, <1>7, <1>10, <1>11, <3>1
    <3> QED
      BY <1>9, <3>1, <3>2
  <2>4. \A k \in 0 .. K - 1 : h[k + 1] = Parent[h[k]]
    <3> SUFFICES ASSUME NEW k \in 0 .. K - 1
                 PROVE  h[k + 1] = Parent[h[k]]
      OBVIOUS
    <3>1. k \in 0 .. n - 1 /\ k \in 0 .. K /\ k + 1 \in 0 .. K
      BY <2>2
    <3>2. h[k] \in Concrete /\ h[k] # base /\ h[k + 1] \in Concrete /\ h[k + 1] = Rise(d, base, h[k])
      BY <1>8, <2>2, <2>3, <3>1
    <3> QED
      BY <1>4, <1>7, <3>2
  <2>5. PICK m \in Nat \ {0} : m = K + 1
    BY <2>2
  <2> DEFINE path == [i \in 1 .. m |-> h[i - 1]]
  <2>6. path \in [1 .. m -> Concrete] /\ path[1] = c /\ path[m] = base
    <3>1. \A i \in 1 .. m : i - 1 \in 0 .. K
      BY <2>2, <2>5
    <3>2. 1 \in 1 .. m /\ m \in 1 .. m /\ m - 1 = K /\ 1 - 1 = 0
      BY <2>2, <2>5
    <3> QED
      BY <1>3, <2>2, <2>3, <3>1, <3>2 DEF Climb
  <2>7. \A i \in 1 .. m - 1 : path[i + 1] = Parent[path[i]] /\ path[i] # path[m]
    <3> SUFFICES ASSUME NEW i \in 1 .. m - 1
                 PROVE  path[i + 1] = Parent[path[i]] /\ path[i] # path[m]
      OBVIOUS
    <3>1. i - 1 \in 0 .. K - 1 /\ i \in 1 .. m /\ i + 1 \in 1 .. m /\ (i + 1) - 1 = (i - 1) + 1
      BY <2>2, <2>5
    <3>2. path[i] = h[i - 1] /\ path[i + 1] = h[(i - 1) + 1]
      BY <3>1
    <3> QED
      BY <2>2, <2>4, <2>6, <3>1, <3>2
  <2> HIDE DEF path
  <2>8. m <= n
    BY <1>2, <2>6, <2>7, ShortPath DEF BasePath
  <2>9. m \in Class
    BY <1>6, <2>8 DEF Class
  <2> QED
    BY <2>6, <2>7, <2>9 DEF ConcretePath, Concrete
<1>12. ASSUME ConcretePath(c, base)
       PROVE  h[n] = base
  <2>0. PICK l \in Class : \E path \in [1 .. l -> Concrete] :
          path[1] = c /\ path[l] = base /\ \A i \in 1 .. l - 1 : path[i + 1] = Parent[path[i]]
    BY <1>12 DEF ConcretePath, Concrete
  <2>1. PICK path \in [1 .. l -> Concrete] :
          path[1] = c /\ path[l] = base /\ \A i \in 1 .. l - 1 : path[i + 1] = Parent[path[i]]
    BY <2>0
  <2>2. l \in Nat /\ l >= 1
    BY ClassAssumption DEF Class
  <2> DEFINE T == {i \in 1 .. l : path[i] = base}
  <2>3. PICK m \in T : \A i \in T : m <= i
    <3>1. T \in SUBSET Nat /\ T # {}
      BY <2>1, <2>2
    <3> HIDE DEF T
    <3> QED
      BY <3>1, LeastNatural
  <2>4. m \in 1 .. l /\ m \in Nat \ {0} /\ path[m] = base /\ \A i \in 1 .. m - 1 : path[i] # base
    BY <2>2, <2>3
  <2> HIDE DEF T
  <2> DEFINE short == [i \in 1 .. m |-> path[i]]
  <2>5. BasePath(short, m) /\ \A i \in 1 .. m - 1 : short[i] # short[m]
    <3>1. \A i \in 1 .. m : i \in 1 .. l
      BY <2>2, <2>4
    <3>2. \A i \in 1 .. m - 1 : i \in 1 .. l - 1 /\ i + 1 \in 1 .. m /\ i \in 1 .. m
      BY <2>2, <2>4
    <3>3. short \in [1 .. m -> Concrete]
      BY <2>1, <3>1
    <3>4. \A i \in 1 .. m - 1 : short[i + 1] = Parent[short[i]]
      BY <2>1, <3>2
    <3>5. \A i \in 1 .. m - 1 : short[i] # short[m]
      BY <2>4, <3>2
    <3> QED
      BY <3>3, <3>4, <3>5 DEF BasePath
  <2>6. m <= n
    <3> HIDE DEF short
    <3> QED
      BY <1>2, <2>4, <2>5, ShortPath
  <2> DEFINE S == {t \in 0 .. m - 1 : h[t] = path[t + 1]}
  <2>7. 0 \in S
    BY <1>3, <2>1, <2>4 DEF Climb
  <2>8. ASSUME NEW t \in 0 .. (m - 1) - 1, t \in S
        PROVE  t + 1 \in S
    <3>1. /\ t + 1 \in 1 .. m - 1 /\ t + 1 \in 0 .. m - 1 /\ t \in 0 .. n - 1
          /\ t + 1 \in 1 .. l - 1 /\ t + 1 \in 1 .. l /\ (t + 1) + 1 \in 1 .. l
      BY <2>2, <2>4, <2>6
    <3>2. path[t + 1] \in Concrete /\ path[t + 1] # base /\ path[(t + 1) + 1] \in Concrete
      BY <2>1, <2>4, <3>1
    <3>3. path[(t + 1) + 1] = Parent[path[t + 1]]
      BY <2>1, <3>1
    <3>4. h[t + 1] = Rise(d, base, path[t + 1])
      BY <1>8, <2>8, <3>1
    <3> QED
      BY <1>7, <3>1, <3>2, <3>3, <3>4
  <2>9. m - 1 \in S
    <3>1. m - 1 \in Nat
      BY <2>4
    <3> HIDE DEF S
    <3>2. 0 .. m - 1 \subseteq S
      BY <2>7, <2>8, <3>1, UpTo
    <3> QED
      BY <3>1, <3>2
  <2>10. h[m - 1] = base /\ m - 1 \in 0 .. n
    <3>1. (m - 1) + 1 = m
      BY <2>4
    <3> QED
      BY <2>4, <2>6, <2>9, <3>1
  <2> QED
    BY <1>7, <1>10, <2>10
<1> QED
  BY <1>3, <1>11, <1>12

\* What FinalizeList leaves when every initialiser has run: the default type
\* is the one that was named, and InheritsFrom is exact.
THEOREM FinalizedRightAlways ==
  Spec => FinalizedRight
<1> DEFINE Right ==
             \A p \in Program :
               Finalizes(p) /\ todo[p] = {} =>
                 /\ chosen # None => db'[p].m_DefaultType = chosen
                 /\ \A c, b \in Class \ Abstract : InheritsFrom(db'[p], c, b) <=> ConcretePath(c, b)
<1>1. PolymorphicInv /\ PolymorphicInv' /\ [Next]_vars => [Right]_vars
  <2> SUFFICES ASSUME PolymorphicInv, PolymorphicInv', [Next]_vars, ~UNCHANGED vars,
                      NEW p \in Program, Finalizes(p), todo[p] = {}
               PROVE  /\ chosen # None => db'[p].m_DefaultType = chosen
                      /\ \A c, b \in Class \ Abstract : InheritsFrom(db'[p], c, b) <=> ConcretePath(c, b)
    BY DEF Right
  <2>1. ~db[p].m_Initialized /\ db'[p].m_Initialized
    BY DEF Finalizes
  <2>2. TypeInv /\ DatabaseInv(p)
    BY DEF PolymorphicInv
  <2>3. db' = [db EXCEPT ![p] = FinalizeList(db[p])] /\ todo' = todo
    <3>1. ~Running
      BY <2>1 DEF Running, Started
    <3>2. Live = {}
      BY <3>1 DEF PolymorphicInv, ValuesInv
    <3>3. \A v \in Var : val[v] = None
      BY <3>2 DEF Live
    <3>4. ASSUME NEW q \in Program, q # p, db'[p] = db[p]
          PROVE  FALSE
      BY <2>1, <3>4
    <3>5. CASE \E q \in Program : ChooseDefault(q)
      <4>1. PICK q \in Program : ChooseDefault(q)
        BY <3>5
      <4>2. q # p
        BY <4>1 DEF ChooseDefault
      <4> QED
        BY <2>1, <2>2, <4>1, <4>2 DEF ChooseDefault, TypeInv
    <3>6. CASE \E q \in Program : FirstUse(q)
      <4>1. PICK q \in Program : FirstUse(q)
        BY <3>6
      <4>2. q = p
        BY <2>1, <2>2, <4>1 DEF FirstUse, TypeInv
      <4> QED
        BY <4>1, <4>2 DEF FirstUse
    <3>7. CASE \E q \in Program : \E c \in Class : Register(q, c)
      <4>1. PICK q \in Program, c \in Class : Register(q, c)
        BY <3>7
      <4>2. q # p
        BY <4>1 DEF Register
      <4> QED
        BY <2>1, <2>2, <4>1, <4>2 DEF Register, TypeInv
    <3>8. Replica \in Var /\ Locals \subseteq Var
      BY DEF Var
    <3>9. ~GotState
      BY <3>3, <3>8 DEF GotState
    <3>10. \A v \in Var : ~Construct(v) /\ ~ConstructFrom(v)
      BY <3>1 DEF Construct, ConstructFrom
    <3>11. \A v \in Locals : ~Destroy(v) /\ ~Modify(v) /\ ~SetType(v) /\ \A w \in Var : ~Assign(v, w)
      BY <3>3, <3>8 DEF Destroy, Modify, SetType, Assign
    <3> QED
      BY <3>5, <3>6, <3>7, <3>9, <3>10, <3>11 DEF Next
  <2>4. PICK types : types = InOrder(Concrete)
    OBVIOUS
  <2>5. Concrete \ todo[p] = Concrete
    OBVIOUS
  <2>6. PICK d : d = db'[p]
    OBVIOUS
  <2>7. /\ types \in Seq(Concrete)
        /\ d.m_TypeDatabase = types
        /\ d.m_DefaultType = DefaultOf(types, db[p].m_DefaultTypeNameHash)
    <3>1. db'[p] = FinalizeList(db[p])
      BY <2>2, <2>3 DEF TypeInv
    <3>2. d = [db[p] EXCEPT !.m_TypeInfoList = << >>, !.m_Initialized = TRUE,
                            !.m_TypeDatabase = types,
                            !.m_DefaultType = DefaultOf(types, db[p].m_DefaultTypeNameHash)]
      BY <2>1, <2>4, <2>5, <2>6, <3>1, FinalizedDatabase
    <3>3. db[p] \in [m_TypeInfoList : Seq(Class), m_DefaultTypeNameHash : Nat, m_Initialized : BOOLEAN,
                     m_TypeDatabase : Seq(Concrete), m_DefaultType : Concrete \cup {None}]
      BY <2>2 DEF DatabaseInv
    <3>4. types \in Seq(Concrete)
      BY <2>1, <2>4, <2>5, FinalizedDatabase
    <3> QED
      BY <3>2, <3>3, <3>4
  <2>8. ASSUME chosen # None
        PROVE  d.m_DefaultType = chosen
    <3>1. db[p].m_DefaultTypeNameHash = chosen
      BY <2>2, <2>8 DEF DatabaseInv
    <3>2. chosen \in Concrete /\ TypeNameHash(chosen) = chosen /\ chosen # 0
      BY <2>2, <2>8, ChosenFacts
    <3>3. PICK i \in DOMAIN types : types[i] = chosen
      <4>1. PICK id : id = GetClassId(d, chosen)
        OBVIOUS
      <4>2. id + 1 \in DOMAIN d.m_TypeDatabase /\ GetTypeInfo(d, id) = chosen
        BY <2>4, <2>7, <3>2, <4>1, IdRoundTrip
      <4> QED
        BY <2>7, <4>2 DEF GetTypeInfo
    <3>4. PICK j \in DOMAIN types : DefaultOf(types, chosen) = types[j] /\ TypeNameHash(types[j]) = chosen
      BY <2>7, <3>2, <3>3, DefaultOfType
    <3>5. types[j] = chosen
      BY <3>2, <3>4 DEF TypeNameHash
    <3> QED
      BY <2>7, <3>1, <3>4, <3>5
  <2>9. \A c, b \in Concrete : InheritsFrom(d, c, b) <=> ConcretePath(c, b)
    BY <2>4, <2>7, InheritsExact
  <2> QED
    BY <2>6, <2>8, <2>9 DEF Concrete
<1>2. FinalizedRight <=> [][Right]_vars
  BY DEF FinalizedRight
<1> HIDE DEF Right
<1> QED
  BY <1>1, <1>2, AlwaysInv, PTL DEF Spec
==============================================================================
