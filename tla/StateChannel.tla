---------------------------- MODULE StateChannel -----------------------------
(***************************************************************************)
(* What a state pipe promises: a queue of whole states.  The application   *)
(* at one end submits states, the callback at the other end is shown some  *)
(* of them, whole and unchanged.  An ordered channel shows them in the     *)
(* order of submission.  A channel that is broken promises nothing more.   *)
(***************************************************************************)
EXTENDS Integers, SequencesExt

CONSTANTS State, Nothing, Ordered

VARIABLES queue, shown, broken

vars == <<queue, shown, broken>>

Init == queue = << >> /\ shown = Nothing /\ broken = FALSE

Submit(s) == queue' = Append(queue, s) /\ UNCHANGED <<shown, broken>>

Show(i) ==
  /\ Ordered => i = 1
  /\ shown' = queue[i]
  /\ queue' = RemoveAt(queue, i)
  /\ UNCHANGED broken

Drop(i) == queue' = RemoveAt(queue, i) /\ UNCHANGED <<shown, broken>>

Next ==
  \/ \E s \in State : Submit(s)
  \/ \E i \in 1 .. Len(queue) : Show(i) \/ Drop(i)
  \/ broken'

Spec == Init /\ [][Next]_vars
==============================================================================
