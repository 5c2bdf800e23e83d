--------------------------- MODULE MCEpollOneShot ---------------------------
(* Small instances of EpollOneShot for TLC.                                *)
EXTENDS EpollOneShot

CONSTANTS MaxConns, MaxSaid, MaxLeaves

MCBounds == [connect |-> MaxConns, say |-> MaxSaid, leave |-> MaxLeaves]
=============================================================================
