----------------------------- MODULE MCTimeWheel -----------------------------
(* A small instance of TimeWheel for TLC.                                  *)
EXTENDS TimeWheel, TLC

\* Timers are interchangeable: pointers are only compared for equality.
TimerSymmetry == Permutations(Timers)
=============================================================================
