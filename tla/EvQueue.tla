------------------------------ MODULE EvQueue -------------------------------
(***************************************************************************)
(* What an event queue promises its two users (src/src/tt_ring.h:10-14 and *)
(* 98-108): a bounded first-in first-out queue whose events are delivered  *)
(* exactly once and in order, and that drops and counts an event only when *)
(* it is full.  Events are numbered in the order they are offered.         *)
(***************************************************************************)
EXTENDS Naturals, Sequences

CONSTANT Capacity

VARIABLES
  queue,   \* accepted and not yet taken
  settled, \* events offered so far, each accepted or lost
  lost,    \* events dropped
  taken    \* events delivered, in order

qvars == <<queue, settled, lost, taken>>

QInit == queue = <<>> /\ settled = 0 /\ lost = 0 /\ taken = <<>>

Accept ==
  /\ Len(queue) < Capacity
  /\ queue'   = Append(queue, settled + 1)
  /\ settled' = settled + 1
  /\ UNCHANGED <<lost, taken>>

Lose ==
  /\ Len(queue) = Capacity
  /\ settled' = settled + 1
  /\ lost'    = lost + 1
  /\ UNCHANGED <<queue, taken>>

Take ==
  /\ queue # <<>>
  /\ taken' = Append(taken, Head(queue))
  /\ queue' = Tail(queue)
  /\ UNCHANGED <<settled, lost>>

QNext == Accept \/ Lose \/ Take

\* What the queue may do, and with it that what it holds is taken in the end.
QSafe == QInit /\ [][QNext]_qvars
QSpec == QSafe /\ WF_qvars(Take)
=============================================================================
