------------------------------ MODULE StructInv ------------------------------
(***************************************************************************)
(* The inductive invariant of StructSync: the receiver's struct agrees     *)
(* with the state that the packet it decoded last was made from, and every *)
(* packet on the way was made from the state before it.  The parameter "w" *)
(* stands for the variable rewritten.                                      *)
(***************************************************************************)
EXTENDS StructSync

\* What the receiver has of a field, up to the two exceptions.
Agrees(w, f, val, sent) ==
  \/ val = sent
  \/ f \in Static /\ val = DefaultState[f]
  \/ f = "spare" /\ w /\ SameOptional(val, sent)

\* What SyncState writes for "s" after "base".
PayloadFor(s, base) == IF base = Null THEN SerializeStruct(s) ELSE SerializeStructDelta(s, base)

\* A new value of an optional that stays valid has been noticed.
Noticed(w, s, base) ==
  base # Null /\ Null \notin {s.spare, base.spare} /\ s.spare # base.spare => w

Chained(w, base, queue, last) ==
  /\ \A k \in 1 .. Len(queue) :
       LET before == IF k = 1 THEN base ELSE queue[k - 1].state
       IN  queue[k].payload = PayloadFor(queue[k].state, before) /\ Noticed(w, queue[k].state, before)
  /\ last = IF queue = << >> THEN base ELSE queue[Len(queue)].state

Follows(w, ref, base) ==
  /\ ref = Null <=> base = Null
  /\ ref \in StateType \cup {Null}
  /\ base # Null => \A f \in {"map", "list", "spare", "row"} : Agrees(w, f, ref[f], base[f])

Packet == [payload : StructSent \cup StructDelta \cup {Unchanged}, state : StateType]

PacketsInv ==
  \E base \in StateType \cup {Null} :
    Follows(rewritten, m_ReferenceState, base) /\ Chained(rewritten, base, packets, m_LastSyncedState)

StructInv ==
  /\ app \in App
  /\ rewritten \in BOOLEAN
  /\ state \in StateType
  /\ packets \in Seq(Packet)
  /\ PacketsInv
  /\ ShownAsSent
==============================================================================
