------------------------- MODULE MCSharedMemChatroom -------------------------
(* A small instance of SharedMemChatroom for TLC.                          *)
EXTENDS SharedMemChatroom

CONSTANTS MaxConns, MaxSaid, MaxTerms, MaxForkFails, MaxActs

MCBounds == [connect |-> MaxConns, say |-> MaxSaid, terminate |-> MaxTerms,
             forkfail |-> MaxForkFails]

\* The environment acts at most MaxActs times.
MCNext ==
    /\ Next
    /\ left'["connect"] + left'["say"] + left'["terminate"] + left'["forkfail"]
           >= MaxConns + MaxSaid + MaxTerms + MaxForkFails - MaxActs
MCFairSpec == Init /\ [][MCNext]_vars /\ Fairness
=============================================================================
