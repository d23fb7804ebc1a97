----------------------------- MODULE MCRoomStreams -----------------------------
(* An instance of RoomStreams for TLC.                                     *)
EXTENDS RoomStreams, TLC

CONSTANTS i1, i2, p1

\* The player is connected to i1; i2 only publishes.
AtFirst == [p \in Players |-> i1]
===============================================================================
