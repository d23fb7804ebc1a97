---------------------------- MODULE MCRoomPresence ----------------------------
(* An instance of RoomPresence for TLC.                                    *)
EXTENDS RoomPresence, TLC

CONSTANTS p1

\* All connections are made by one player.
OfP1 == [c \in Conns |-> p1]
===============================================================================
