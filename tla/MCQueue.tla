------------------------------ MODULE MCQueue -------------------------------
(* Queue for TLC: as many threads as the client has. *)
EXTENDS Queue

CONSTANTS UI, Async, Net, A, B, C

ClientThreads == {UI, Async, Net}
SomeValues == {A, B, C}
=============================================================================
