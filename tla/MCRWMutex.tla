----------------------------- MODULE MCRWMutex -----------------------------
(* RWMutex for TLC: the program's three threads, which are alike here.     *)
EXTENDS RWMutex, TLC

ThreadSymmetry == Permutations(Threads)
=============================================================================
