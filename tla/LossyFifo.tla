------------------------------ MODULE LossyFifo ------------------------------
(***************************************************************************)
(* What the event bus of lab6_event_driven amounts to for its consumer: a  *)
(* channel that may drop a stretch of events at any time, but never        *)
(* invents, repeats or reorders one.                                       *)
(***************************************************************************)
EXTENDS Naturals, Sequences

CONSTANT Events

VARIABLES
  chan, \* events on their way, oldest first
  got   \* events the consumer has taken, oldest first

fifoVars == <<chan, got>>

Init == chan = <<>> /\ got = <<>>

Send(e) == chan' = Append(chan, e) /\ UNCHANGED got

\* The events after place i and up to place j disappear.
Lose(i, j) ==
  /\ i <= j
  /\ chan' = SubSeq(chan, 1, i) \o SubSeq(chan, j + 1, Len(chan))
  /\ UNCHANGED got

Receive ==
  /\ chan # <<>>
  /\ got' = Append(got, Head(chan))
  /\ chan' = Tail(chan)

Next ==
  \/ \E e \in Events : Send(e)
  \/ \E i, j \in 0 .. Len(chan) : Lose(i, j)
  \/ Receive

Spec == Init /\ [][Next]_fifoVars
=============================================================================
