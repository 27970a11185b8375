------------------------------ MODULE LossyLog ------------------------------
(***************************************************************************)
(* What the journal promises about the order of what it keeps: events join *)
(* a line of pending events at its end, pending events may be given up,    *)
(* and the others are stored from the head of the line.  Nothing that was  *)
(* given up or stored comes back.                                          *)
(***************************************************************************)
EXTENDS Naturals, Sequences

CONSTANT Events

VARIABLES
  offered,   \* events that have been offered so far
  pending,   \* the line of events neither stored nor given up
  stored     \* the events stored, in order

vars == <<offered, pending, stored>>

Init == offered = {} /\ pending = <<>> /\ stored = <<>>

Offer(e) ==
  /\ e \notin offered
  /\ offered' = offered \cup {e}
  /\ \/ pending' = Append(pending, e)
     \/ UNCHANGED pending
  /\ UNCHANGED stored

(* A step gives up events that stand next to each other, behind the first  *)
(* m of the line.                                                          *)
GiveUp(m, n) ==
  /\ pending' = SubSeq(pending, 1, m) \o SubSeq(pending, n + 1, Len(pending))
  /\ UNCHANGED <<offered, stored>>

Store(n) ==
  /\ stored' = stored \o SubSeq(pending, 1, n)
  /\ pending' = SubSeq(pending, n + 1, Len(pending))
  /\ UNCHANGED offered

Next ==
  \/ \E e \in Events : Offer(e)
  \/ \E m \in 0 .. Len(pending) : \E n \in m .. Len(pending) : GiveUp(m, n)
  \/ \E n \in 1 .. Len(pending) : Store(n)

Spec == Init /\ [][Next]_vars
=============================================================================
