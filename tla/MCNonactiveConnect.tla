------------------------- MODULE MCNonactiveConnect -------------------------
(* A small instance of NonactiveConnect for TLC.                           *)
EXTENDS NonactiveConnect

CONSTANTS MaxConns, MaxSaid, MaxLeaves, MaxTerms, MaxActs

MCBounds == [connect |-> MaxConns, say |-> MaxSaid, leave |-> MaxLeaves,
             terminate |-> MaxTerms, act |-> MaxActs]
=============================================================================
