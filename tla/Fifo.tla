-------------------------------- MODULE Fifo --------------------------------
(***************************************************************************)
(* What a queue promises to those who use it: each value pushed is handed  *)
(* out once, in the order of pushing, unless the queue is cleared first.   *)
(***************************************************************************)
EXTENDS Sequences

CONSTANT Values

VARIABLES contents, delivered

Init == contents = <<>> /\ delivered = <<>>

Push(v) == contents' = Append(contents, v) /\ UNCHANGED delivered

Pop ==
  /\ contents # <<>>
  /\ delivered' = Append(delivered, Head(contents))
  /\ contents' = Tail(contents)

Clear == contents' = <<>> /\ UNCHANGED delivered

Next == (\E v \in Values : Push(v)) \/ Pop \/ Clear

Spec == Init /\ [][Next]_<<contents, delivered>>
=============================================================================
