----------------------------- MODULE MCStandings -----------------------------
(* Instances of Standings for TLC.                                         *)
EXTENDS Standings

CONSTANTS p1, p2, p3, g1, g2, r1

\* Two players of g1 and one of g2, in one room.
OfGuilds == [p \in Players |-> IF p = p3 THEN g2 ELSE g1]
OneRoom == [g \in Guilds |-> r1]
InOrder == [g \in Guilds |-> IF g = g1 THEN 1 ELSE 2]
===============================================================================
