---------------------------- MODULE RoomAssignment ----------------------------
(***************************************************************************)
(* The arithmetic that ProcessEventAssignment distributes the guilds of an *)
(* event over rooms with.  Guilds are numbered from 0 in the order they    *)
(* joined (GetEventParticipants), rooms from 1 ("Arena 1", ...).           *)
(***************************************************************************)
EXTENDS Integers

\* How many rooms an event with n guilds gets.
calculateRoomCount(n) ==
    IF n <= 3 THEN 1
    ELSE IF n <= 7 THEN 2
    ELSE IF n <= 10 THEN 3
    ELSE (n + 3) \div 4

\* How many guilds go to a room before the next one is filled: n divided by
\* the number of rooms, rounded up.
guildsPerRoom(n) ==
    LET rooms == calculateRoomCount(n) IN (n + rooms - 1) \div rooms

\* The room of the i-th of n guilds.
roomOf(i, n) == ((i \div guildsPerRoom(n)) % calculateRoomCount(n)) + 1

Rooms(n) == 1..calculateRoomCount(n)

-------------------------------------------------------------------------------
(* What the distribution promises, for n guilds                            *)

\* No room stays empty.
EveryRoomUsed(n) == \A r \in Rooms(n) : \E i \in 0..(n - 1) : roomOf(i, n) = r

\* "roughly 3-4 guilds per room": never more than four share one.  Guilds
\* that joined one after the other share a room, so five in a row cannot.
AtMostFourPerRoom(n) ==
    \A i, j \in 0..(n - 1) : roomOf(i, n) = roomOf(j, n) => j - i <= 3
===============================================================================
