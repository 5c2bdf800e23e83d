-------------------------- MODULE MCChatroomServer --------------------------
(* A small instance of ChatroomServer for TLC.                             *)
EXTENDS ChatroomServer

CONSTANTS MaxConns, MaxSaid, MaxLeaves, MaxFails, MaxActs

MCBounds == [connect |-> MaxConns, say |-> MaxSaid, leave |-> MaxLeaves,
             nofd |-> MaxFails, act |-> MaxActs]
=============================================================================
