------------------------------- MODULE MCRoomHub -------------------------------
(* Instances of RoomHub for TLC.                                           *)
EXTENDS RoomHub, TLC

CONSTANTS p1

\* One player, who may come back while the first connection is still going.
TwoConnections == {<<p1, 1>>, <<p1, 2>>}
===============================================================================
