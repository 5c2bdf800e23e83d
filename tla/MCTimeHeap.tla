------------------------------ MODULE MCTimeHeap ------------------------------
(* A small instance of TimeHeap for TLC.                                   *)
EXTENDS TimeHeap, TLC

\* Timers are interchangeable: pointers are only compared for equality.
TimerSymmetry == Permutations(Timers)
=============================================================================
