------------------------- MODULE Registration_proofs -------------------------
(***************************************************************************)
(* Proofs about Registration and RoomAssignment, for any number of guilds, *)
(* requests, events and handlers.                                          *)
(***************************************************************************)
EXTENDS Registration, FiniteSetTheorems, TLAPS

-------------------------------------------------------------------------------
(* The distribution of guilds over rooms, for every number of guilds: the  *)
(* remainder in roomOf never wraps around.                                 *)

\* Small events, where calculateRoomCount is a table.
LEMMA FewGuilds ==
    ASSUME NEW n \in 1..10
    PROVE  /\ calculateRoomCount(n) = IF n <= 3 THEN 1 ELSE IF n <= 7 THEN 2 ELSE 3
           /\ guildsPerRoom(n) = IF n <= 3 THEN n
                                 ELSE IF n = 4 THEN 2
                                 ELSE IF n <= 6 THEN 3
                                 ELSE IF n = 7 THEN 4
                                 ELSE IF n <= 9 THEN 3 ELSE 4
<1>1. n \in {1, 2, 3, 4, 5, 6, 7, 8, 9, 10}
  OBVIOUS
<1> QED
  BY <1>1, SMT DEF calculateRoomCount, guildsPerRoom

\* From eleven guilds on every room but the last has four.
LEMMA ManyGuilds ==
    ASSUME NEW n \in Nat, n > 10
    PROVE  /\ calculateRoomCount(n) \in Nat
           /\ calculateRoomCount(n) >= 3
           /\ 4 * calculateRoomCount(n) <= n + 3
           /\ n <= 4 * calculateRoomCount(n)
           /\ guildsPerRoom(n) = 4
<1> DEFINE R == calculateRoomCount(n)
<1>1. R = (n + 3) \div 4
  BY SMT DEF calculateRoomCount
<1>2. R \in Nat /\ R >= 3 /\ 4 * R <= n + 3 /\ n + 3 < 4 * R + 4
  BY <1>1, SMT
<1>3. guildsPerRoom(n) = (n + R - 1) \div R
  BY DEF guildsPerRoom
<1> HIDE DEF R
<1>4. \A x, r \in Nat : r > 0 /\ 4 * r <= x /\ x < 5 * r => x \div r = 4
  BY SMT
<1>5. n + R - 1 \in Nat /\ 4 * R <= n + R - 1 /\ n + R - 1 < 5 * R
  BY <1>2, SMT
<1>6. guildsPerRoom(n) = 4
  BY <1>2, <1>3, <1>4, <1>5, SMT
<1> QED
  BY <1>2, <1>6, SMT DEF R

\* Every event with guilds has a room.
LEMMA RoomCountType ==
    ASSUME NEW n \in Nat \ {0}
    PROVE  calculateRoomCount(n) \in Nat \ {0}
<1>1. CASE n <= 10
  BY <1>1, FewGuilds, SMT
<1>2. CASE n > 10
  BY <1>2, ManyGuilds, SMT
<1> QED
  BY <1>1, <1>2

\* The division never gives a room that does not exist, so the remainder
\* changes nothing.
LEMMA RoomOf ==
    ASSUME NEW n \in Nat \ {0}, NEW i \in 0..(n - 1)
    PROVE  /\ guildsPerRoom(n) \in 1..4
           /\ roomOf(i, n) = (i \div guildsPerRoom(n)) + 1
           /\ roomOf(i, n) \in Rooms(n)
<1> DEFINE G == guildsPerRoom(n)
           R == calculateRoomCount(n)
<1>1. G \in 1..4 /\ R \in Nat \ {0} /\ i \div G \in 0..(R - 1)
  <2>1. CASE n <= 10
    <3>1. n \in 1..10
      BY <2>1
    <3>2. n \in {1, 2, 3, 4, 5, 6, 7, 8, 9, 10}
      BY <3>1
    <3> QED
      BY <3>1, <3>2, FewGuilds, SMT
  <2>2. CASE n > 10
    BY <2>2, ManyGuilds, SMT
  <2> QED
    BY <2>1, <2>2
<1> HIDE DEF G, R
<1>2. (i \div G) % R = i \div G
  BY <1>1, SMT
<1> QED
  BY <1>1, <1>2, SMT DEF roomOf, Rooms, G, R

\* calculateRoomCount and the loop over the guilds leave no room empty.
THEOREM NoRoomEmpty ==
    ASSUME NEW n \in Nat \ {0}
    PROVE  EveryRoomUsed(n)
<1>1. SUFFICES ASSUME NEW r \in Rooms(n)
               PROVE  \E i \in 0..(n - 1) : roomOf(i, n) = r
  BY DEF EveryRoomUsed
<1> DEFINE G == guildsPerRoom(n)
           i == G * (r - 1)
<1>2. i \in 0..(n - 1) /\ i \div G = r - 1 /\ r \in Int
  <2>1. CASE n <= 10
    <3>1. n \in 1..10
      BY <2>1
    <3>2. n \in {1, 2, 3, 4, 5, 6, 7, 8, 9, 10}
      BY <3>1
    <3> QED
      BY <3>1, <3>2, FewGuilds, SMT DEF Rooms
  <2>2. CASE n > 10
    BY <2>2, ManyGuilds, SMT DEF Rooms
  <2> QED
    BY <2>1, <2>2
<1> QED
  BY <1>2, RoomOf

\* "This ensures roughly 3-4 guilds per room": never more than four.
THEOREM NoRoomTooFull ==
    ASSUME NEW n \in Nat \ {0}
    PROVE  AtMostFourPerRoom(n)
<1>1. SUFFICES ASSUME NEW i \in 0..(n - 1), NEW j \in 0..(n - 1),
                      roomOf(i, n) = roomOf(j, n)
               PROVE  j - i <= 3
  BY DEF AtMostFourPerRoom
<1> DEFINE G == guildsPerRoom(n)
<1>2. G \in 1..4 /\ roomOf(i, n) = (i \div G) + 1
  BY RoomOf
<1>3. roomOf(j, n) = (j \div G) + 1
  BY RoomOf
<1> HIDE DEF G
<1>6. i \div G \in Int /\ j \div G \in Int
  BY <1>2, SMT
<1>4. i \div G = j \div G
  <2>1. (i \div G) + 1 = (j \div G) + 1
    BY <1>1, <1>2, <1>3
  <2>2. \A a, b \in Int : a + 1 = b + 1 => a = b
    BY SMT
  <2> QED
    BY <1>6, <2>1, <2>2
<1>5. G \in {1, 2, 3, 4}
  BY <1>2
<1> QED
  BY <1>4, <1>5, SMT

-------------------------------------------------------------------------------
(* Types                                                                   *)

\* What a handler has read, by what it does next.
LEMMA JobFields ==
    ASSUME TypeOK, NEW h \in Handlers
    PROVE  /\ At(h, "decide") => job[h].request \in Requests
           /\ (At(h, "count") \/ At(h, "insert")) =>
                 job[h].event \in Events /\ job[h].guild \in Guilds
           /\ At(h, "participants") => job[h].event \in Events
           /\ At(h, "assign") =>
                 job[h].event \in Events /\ job[h].seen \in SUBSET Guilds
           /\ (At(h, "select") \/ At(h, "remove")) =>
                 /\ job[h].event \in Events /\ job[h].guild \in Guilds
                 /\ job[h].users \in SUBSET Users
           /\ job[h].at \in {"idle", "decide", "count", "insert",
                             "participants", "assign", "select", "remove"}
<1>1. job[h] \in Jobs
  BY DEF TypeOK
<1> QED
  BY <1>1 DEF Jobs, Idle, At

\* The job of a registration that found a free place.
LEMMA CountJob ==
    ASSUME TypeOK, NEW h \in Handlers, At(h, "count")
    PROVE  [job[h] EXCEPT !.at = "insert"] =
              [at |-> "insert", event |-> job[h].event, guild |-> job[h].guild]
<1>1. job[h] \in Jobs
  BY DEF TypeOK
<1>2. job[h] \in [at : {"count", "insert"}, event : Events, guild : Guilds]
  BY <1>1 DEF Jobs, Idle, At
<1> QED
  BY <1>2

\* A handler moves on and the others stay where they are.
LEMMA Moved ==
    ASSUME TypeOK, NEW h \in Handlers, NEW j, Goto(h, j)
    PROVE  /\ job'[h] = j
           /\ \A k \in Handlers : k # h => job'[k] = job[k]
           /\ \A k \in Handlers : job'[k] = IF k = h THEN j ELSE job[k]
           /\ j \in Jobs => job' \in [Handlers -> Jobs]
BY DEF Goto, TypeOK

\* A handler may be idle.
LEMMA IdleJob == Idle \in Jobs
BY DEF Jobs

\* The number of rooms, and the room of each guild, that an assignment writes.
LEMMA AssignedRooms ==
    ASSUME RegistrationAssumption, TypeOK, NEW e \in Events,
           NEW S \in SUBSET Guilds, S # {}, AssignRooms(e, S)
    PROVE  /\ Cardinality(S) \in Nat \ {0}
           /\ rooms' = [rooms EXCEPT ![e] =
                          rooms[e] + calculateRoomCount(Cardinality(S))]
           /\ \E f \in Orders(S) :
                 room' = [room EXCEPT ![e] =
                   [g \in Guilds |->
                      IF g \in S
                      THEN rooms[e] + roomOf(f[g], Cardinality(S))
                      ELSE room[e][g]]]
<1>1. IsFiniteSet(S)
  BY FS_Subset DEF RegistrationAssumption
<1>2. Cardinality(S) \in Nat \ {0}
  BY <1>1, FS_CardinalityType, FS_EmptySet
<1> QED
  BY <1>2 DEF AssignRooms, CreateRooms, AssignGuildToRoom

\* An assignment keeps rooms and the guilds' room numbers what they are.
LEMMA AssignedTypes ==
    ASSUME RegistrationAssumption, TypeOK, NEW e \in Events,
           NEW S \in SUBSET Guilds, AssignRooms(e, S)
    PROVE  rooms' \in [Events -> Nat] /\ room' \in [Events -> [Guilds -> Nat]]
<1>1. CASE S = {}
  BY <1>1 DEF AssignRooms, TypeOK
<1>2. CASE S # {}
  <2> DEFINE n == Cardinality(S)
  <2>1. n \in Nat \ {0} /\ rooms[e] \in Nat
    BY <1>2, AssignedRooms DEF TypeOK
  <2>2. PICK f \in Orders(S) :
           room' = [room EXCEPT ![e] =
                      [g \in Guilds |-> IF g \in S THEN rooms[e] + roomOf(f[g], n)
                                        ELSE room[e][g]]]
    BY <1>2, AssignedRooms
  <2>3. rooms' = [rooms EXCEPT ![e] = rooms[e] + calculateRoomCount(n)]
    BY <1>2, AssignedRooms
  <2>4. f \in [S -> 0..(n - 1)]
    BY DEF Orders
  <2> HIDE DEF n
  <2>5. \A i \in 0..(n - 1) : roomOf(i, n) \in 1..calculateRoomCount(n)
    BY <2>1, RoomOf DEF Rooms
  <2>6. calculateRoomCount(n) \in Nat
    BY <2>1, RoomCountType
  <2>7. \A g \in S : rooms[e] + roomOf(f[g], n) \in Nat
    BY <2>1, <2>4, <2>5, <2>6
  <2>8. rooms' \in [Events -> Nat]
    BY <2>1, <2>3, <2>6 DEF TypeOK
  <2>9. [g \in Guilds |-> IF g \in S THEN rooms[e] + roomOf(f[g], n)
                                       ELSE room[e][g]] \in [Guilds -> Nat]
    BY <2>7 DEF TypeOK
  <2> QED
    BY <2>2, <2>8, <2>9 DEF TypeOK
<1> QED
  BY <1>1, <1>2

\* What the two handlers of members do.
LEMMA AddedMembers ==
    ASSUME RegistrationAssumption, TypeOK, NEW h \in Handlers,
           AddGuildMembersToEvent(h), TakesPart(job[h])
    PROVE  /\ members' \in [Events -> [Guilds -> SUBSET Users]]
           /\ \A d \in Events, k \in Guilds :
                 members'[d][k] = IF d = job[h].event /\ k = job[h].guild
                                  THEN members[d][k] \cup job[h].users
                                  ELSE members[d][k]
<1>1. job[h].event \in Events /\ job[h].guild \in Guilds
      /\ job[h].users \in SUBSET Users
  BY JobFields DEF AddGuildMembersToEvent
<1> DEFINE U == members[job[h].event][job[h].guild] \cup job[h].users
<1>2. members' = [members EXCEPT ![job[h].event][job[h].guild] = U]
  BY DEF AddGuildMembersToEvent, AddGuildMembers
<1>3. U \in SUBSET Users
  BY <1>1 DEF TypeOK
<1> HIDE DEF U
<1>4. /\ members' \in [Events -> [Guilds -> SUBSET Users]]
      /\ \A d \in Events, k \in Guilds :
            members'[d][k] = IF d = job[h].event /\ k = job[h].guild
                             THEN U ELSE members[d][k]
  BY <1>1, <1>2, <1>3 DEF TypeOK
<1> QED
  BY <1>4 DEF U

\* Members taken back: those of one guild at one event.
LEMMA RemovedMembers ==
    ASSUME RegistrationAssumption, TypeOK, NEW h \in Handlers,
           RemoveGuildMembersFromEvent(h), TakesPart(job[h])
    PROVE  /\ members' \in [Events -> [Guilds -> SUBSET Users]]
           /\ \A d \in Events, k \in Guilds :
                 members'[d][k] = IF d = job[h].event /\ k = job[h].guild
                                  THEN members[d][k] \ job[h].users
                                  ELSE members[d][k]
<1>1. job[h].event \in Events /\ job[h].guild \in Guilds
      /\ job[h].users \in SUBSET Users
  BY JobFields DEF RemoveGuildMembersFromEvent
<1> DEFINE U == members[job[h].event][job[h].guild] \ job[h].users
<1>2. members' = [members EXCEPT ![job[h].event][job[h].guild] = U]
  BY DEF RemoveGuildMembersFromEvent, RemoveMembers
<1>3. U \in SUBSET Users
  BY <1>1 DEF TypeOK
<1> HIDE DEF U
<1>4. /\ members' \in [Events -> [Guilds -> SUBSET Users]]
      /\ \A d \in Events, k \in Guilds :
            members'[d][k] = IF d = job[h].event /\ k = job[h].guild
                             THEN U ELSE members[d][k]
  BY <1>1, <1>2, <1>3 DEF TypeOK
<1> QED
  BY <1>4 DEF U

\* Types, at the start.
LEMMA TypeInit == ASSUME RegistrationAssumption, Init PROVE TypeOK
<1>1. job \in [Handlers -> Jobs]
  BY IdleJob DEF Init
<1> QED
  BY <1>1 DEF Init, TypeOK

\* Types, at every step.
LEMMA TypeNext ==
    ASSUME RegistrationAssumption, TypeOK, [Next]_vars
    PROVE  TypeOK'
<1> USE DEF requestVars, eventVars
<1>0. ASSUME NEW h \in Handlers, Done(h)
      PROVE  job' \in [Handlers -> Jobs]
  BY <1>0, Moved, IdleJob DEF Done
<1>1. ASSUME NEW q \in Requests, CreateEventRequest(q)
      PROVE  TypeOK'
  BY <1>1 DEF CreateEventRequest, StoreRequest, TypeOK
<1>2. ASSUME NEW h \in Handlers, NEW q \in Requests, GetEventRequestByID(h, q)
      PROVE  TypeOK'
  <2>1. [at |-> "decide", request |-> q] \in Jobs
    BY DEF Jobs
  <2>2. job' \in [Handlers -> Jobs]
    BY <1>2, <2>1, Moved DEF GetEventRequestByID
  <2> QED
    BY <1>2, <2>2 DEF GetEventRequestByID, TypeOK
<1>3. ASSUME NEW h \in Handlers, NEW e \in Events, UpdateEventStatusToActive(h, e)
      PROVE  TypeOK'
  <2>1. [at |-> "participants", event |-> e] \in Jobs
    BY DEF Jobs
  <2>2. job' \in [Handlers -> Jobs]
    BY <1>3, <2>1, Moved DEF UpdateEventStatusToActive
  <2> QED
    BY <1>3, <2>2 DEF UpdateEventStatusToActive, TypeOK
<1>4. ASSUME NEW h \in Handlers, NEW e \in Events, NEW g \in Guilds,
             RegisterGuildToEvent(h, e, g)
      PROVE  TypeOK'
  <2>1. [at |-> "count", event |-> e, guild |-> g] \in Jobs
    BY DEF Jobs
  <2>2. job' \in [Handlers -> Jobs]
    BY <1>4, <2>1, Moved DEF RegisterGuildToEvent
  <2> QED
    BY <1>4, <2>2 DEF RegisterGuildToEvent, TypeOK
<1>5. ASSUME NEW h \in Handlers, NEW e \in Events, NEW g \in Guilds,
             NEW U \in SUBSET Roster[g], SelectGuildMembers(h, e, g, U)
      PROVE  TypeOK'
  <2>1. [at |-> "select", event |-> e, guild |-> g, users |-> U] \in Jobs
    BY DEF Jobs, RegistrationAssumption
  <2>2. job' \in [Handlers -> Jobs]
    BY <1>5, <2>1, Moved DEF SelectGuildMembers
  <2> QED
    BY <1>5, <2>2 DEF SelectGuildMembers, TypeOK
<1>6. ASSUME NEW h \in Handlers, NEW e \in Events, NEW g \in Guilds,
             NEW U \in SUBSET Roster[g], RemoveGuildMembers(h, e, g, U)
      PROVE  TypeOK'
  <2>1. [at |-> "remove", event |-> e, guild |-> g, users |-> U] \in Jobs
    BY DEF Jobs, RegistrationAssumption
  <2>2. job' \in [Handlers -> Jobs]
    BY <1>6, <2>1, Moved DEF RemoveGuildMembers
  <2> QED
    BY <1>6, <2>2 DEF RemoveGuildMembers, TypeOK
<1>7. ASSUME NEW h \in Handlers, ApproveEventRequest(h)
      PROVE  TypeOK'
  <2>1. job[h].request \in Requests
    BY <1>7, JobFields DEF ApproveEventRequest
  <2>2. Requester[job[h].request] \in Guilds
    BY <2>1 DEF RegistrationAssumption
  <2>3. job' \in [Handlers -> Jobs]
    BY <1>7, <1>0 DEF ApproveEventRequest
  <2> QED
    BY <1>7, <2>1, <2>2, <2>3 DEF ApproveEventRequest, CreateEvent,
       AddParticipant, UpdateEventRequestStatus, TypeOK
<1>8. ASSUME NEW h \in Handlers, DeclineEventRequest(h)
      PROVE  TypeOK'
  <2>3. job' \in [Handlers -> Jobs]
    BY <1>8, <1>0 DEF DeclineEventRequest
  <2> QED
    BY <1>8, <2>3 DEF DeclineEventRequest, UpdateEventRequestStatus, TypeOK
<1>9. ASSUME NEW h \in Handlers, CheckCapacity(h)
      PROVE  TypeOK'
  <2>1. [job[h] EXCEPT !.at = "insert"] \in Jobs
    <3>1. [job[h] EXCEPT !.at = "insert"] =
             [at |-> "insert", event |-> job[h].event, guild |-> job[h].guild]
      BY <1>9, CountJob DEF CheckCapacity
    <3>2. job[h].event \in Events /\ job[h].guild \in Guilds
      BY <1>9, JobFields DEF CheckCapacity
    <3> QED
      BY <3>1, <3>2 DEF Jobs
  <2>2. job' \in [Handlers -> Jobs]
    BY <1>9, <1>0, <2>1, Moved DEF CheckCapacity
  <2> QED
    BY <1>9, <2>2 DEF CheckCapacity, TypeOK
<1>10. ASSUME NEW h \in Handlers, CreateEventGuildParticipant(h)
       PROVE  TypeOK'
  <2>1. job[h].guild \in Guilds
    BY <1>10, JobFields DEF CreateEventGuildParticipant
  <2>2. job' \in [Handlers -> Jobs]
    BY <1>10, <1>0 DEF CreateEventGuildParticipant
  <2> QED
    BY <1>10, <2>1, <2>2 DEF CreateEventGuildParticipant, AddParticipant, TypeOK
<1>11. ASSUME NEW h \in Handlers, AddGuildMembersToEvent(h)
       PROVE  TypeOK'
  <2>1. job' \in [Handlers -> Jobs]
    BY <1>11, <1>0 DEF AddGuildMembersToEvent
  <2>2. members' \in [Events -> [Guilds -> SUBSET Users]]
    BY <1>11, AddedMembers DEF AddGuildMembersToEvent, TypeOK
  <2> QED
    BY <1>11, <2>1, <2>2 DEF AddGuildMembersToEvent, TypeOK
<1>12. ASSUME NEW h \in Handlers, RemoveGuildMembersFromEvent(h)
       PROVE  TypeOK'
  <2>1. job' \in [Handlers -> Jobs]
    BY <1>12, <1>0 DEF RemoveGuildMembersFromEvent
  <2>2. members' \in [Events -> [Guilds -> SUBSET Users]]
    BY <1>12, RemovedMembers DEF RemoveGuildMembersFromEvent, TypeOK
  <2> QED
    BY <1>12, <2>1, <2>2 DEF RemoveGuildMembersFromEvent, TypeOK
<1>13. ASSUME NEW h \in Handlers, GetEventParticipants(h)
       PROVE  TypeOK'
  <2>1. job[h].event \in Events
    BY <1>13, JobFields DEF GetEventParticipants
  <2>2. [at |-> "assign", event |-> job[h].event,
         seen |-> Registered(job[h].event)] \in Jobs
    BY <2>1 DEF Jobs, Registered, TypeOK
  <2>3. job' \in [Handlers -> Jobs]
    BY <1>13, <2>2, Moved DEF GetEventParticipants
  <2> QED
    BY <1>13, <2>3 DEF GetEventParticipants, TypeOK
<1>14. ASSUME NEW h \in Handlers, ProcessEventAssignment(h)
       PROVE  TypeOK'
  <2>1. job[h].event \in Events /\ job[h].seen \in SUBSET Guilds
    BY <1>14, JobFields DEF ProcessEventAssignment
  <2>2. job' \in [Handlers -> Jobs]
    BY <1>14, <1>0 DEF ProcessEventAssignment
  <2>3. rooms' \in [Events -> Nat] /\ room' \in [Events -> [Guilds -> Nat]]
    BY <1>14, <2>1, AssignedTypes DEF ProcessEventAssignment
  <2> QED
    BY <1>14, <2>1, <2>2, <2>3 DEF ProcessEventAssignment, TypeOK
<1>15. ASSUME NEW h \in Handlers, Abandon(h)
       PROVE  TypeOK'
  <2>2. job' \in [Handlers -> Jobs]
    BY <1>15, <1>0 DEF Abandon
  <2> QED
    BY <1>15, <2>2 DEF Abandon, TypeOK
<1>16. CASE UNCHANGED vars
  BY <1>16 DEF vars, TypeOK
<1> QED
  BY <1>1, <1>2, <1>3, <1>4, <1>5, <1>6, <1>7, <1>8, <1>9, <1>10, <1>11, <1>12,
     <1>13, <1>14, <1>15, <1>16 DEF Next, HandlerStart, HandlerStep

-------------------------------------------------------------------------------
(* Who writes what                                                         *)

\* Which requests write each table.
LEMMA Writers ==
    ASSUME [Next]_vars
    PROVE  /\ \/ \E h \in Handlers : \/ ApproveEventRequest(h)
                                     \/ ProcessEventAssignment(h)
              \/ status' = status
           /\ (\E h \in Handlers : ApproveEventRequest(h)) \/ origin' = origin
           /\ \/ \E h \in Handlers : \/ ApproveEventRequest(h)
                                     \/ CreateEventGuildParticipant(h)
              \/ participants' = participants
           /\ \/ \E h \in Handlers : ProcessEventAssignment(h)
              \/ rooms' = rooms /\ room' = room
           /\ \/ \E h \in Handlers, e \in Events : UpdateEventStatusToActive(h, e)
              \/ onTime' = onTime
           /\ \/ \E q \in Requests : CreateEventRequest(q)
              \/ \E h \in Handlers : \/ ApproveEventRequest(h)
                                     \/ DeclineEventRequest(h)
              \/ request' = request /\ approvedEvent' = approvedEvent
           /\ \/ \E h \in Handlers : \/ AddGuildMembersToEvent(h)
                                     \/ RemoveGuildMembersFromEvent(h)
              \/ members' = members
<1> USE DEF requestVars, eventVars
<1>1. ASSUME NEW q \in Requests, CreateEventRequest(q)
      PROVE  UNCHANGED <<eventVars, participants, members>>
  BY <1>1 DEF CreateEventRequest
<1>2. ASSUME NEW h \in Handlers, HandlerStart(h)
      PROVE  /\ \/ \E e \in Events : UpdateEventStatusToActive(h, e)
                \/ onTime' = onTime
             /\ UNCHANGED <<requestVars, status, origin, rooms, room,
                            participants, members>>
  BY <1>2 DEF HandlerStart, GetEventRequestByID, UpdateEventStatusToActive,
     RegisterGuildToEvent, SelectGuildMembers, RemoveGuildMembers
<1>3. ASSUME NEW h \in Handlers, CheckCapacity(h) \/ GetEventParticipants(h)
                                  \/ Abandon(h)
      PROVE  UNCHANGED <<requestVars, eventVars, participants, members>>
  BY <1>3 DEF CheckCapacity, GetEventParticipants, Abandon
<1>4. ASSUME NEW h \in Handlers, ApproveEventRequest(h)
      PROVE  UNCHANGED <<rooms, room, onTime, members>>
  BY <1>4 DEF ApproveEventRequest
<1>5. ASSUME NEW h \in Handlers, DeclineEventRequest(h)
      PROVE  UNCHANGED <<eventVars, participants, members>>
  BY <1>5 DEF DeclineEventRequest
<1>6. ASSUME NEW h \in Handlers, CreateEventGuildParticipant(h)
      PROVE  UNCHANGED <<requestVars, eventVars, members>>
  BY <1>6 DEF CreateEventGuildParticipant
<1>7. ASSUME NEW h \in Handlers,
             AddGuildMembersToEvent(h) \/ RemoveGuildMembersFromEvent(h)
      PROVE  UNCHANGED <<requestVars, eventVars, participants>>
  BY <1>7 DEF AddGuildMembersToEvent, RemoveGuildMembersFromEvent
<1>8. ASSUME NEW h \in Handlers, ProcessEventAssignment(h)
      PROVE  UNCHANGED <<requestVars, origin, onTime, participants, members>>
  BY <1>8 DEF ProcessEventAssignment
<1>9. CASE UNCHANGED vars
  BY <1>9 DEF vars
<1>10. CASE \E q \in Requests : CreateEventRequest(q)
  BY <1>1, <1>10
<1>11. CASE \E h \in Handlers : HandlerStart(h)
  BY <1>2, <1>11
<1>12. CASE \E h \in Handlers : HandlerStep(h)
  BY <1>3, <1>4, <1>5, <1>6, <1>7, <1>8, <1>12 DEF HandlerStep
<1> QED
  BY <1>9, <1>10, <1>11, <1>12 DEF Next

\* How a handler comes to a job other than the one it had.
LEMMA NewJobs ==
    ASSUME TypeOK, [Next]_vars, NEW k \in Handlers, job'[k] # job[k]
    PROVE  \/ job'[k] = Idle
           \/ \E q \in Requests : GetEventRequestByID(k, q)
           \/ \E e \in Events : UpdateEventStatusToActive(k, e)
           \/ \E e \in Events, g \in Guilds : RegisterGuildToEvent(k, e, g)
           \/ \E e \in Events, g \in Guilds : \E U \in SUBSET Roster[g] :
                 \/ SelectGuildMembers(k, e, g, U)
                 \/ RemoveGuildMembers(k, e, g, U)
           \/ CheckCapacity(k) /\ BelowCapacity(job[k].event)
           \/ GetEventParticipants(k)
<1>0. job' # job
  OBVIOUS
<1>1. ~ UNCHANGED vars /\ ~ \E q \in Requests : CreateEventRequest(q)
  BY <1>0 DEF vars, CreateEventRequest
<1>2. PICK h \in Handlers : HandlerStart(h) \/ HandlerStep(h)
  BY <1>1 DEF Next
<1>3. ASSUME NEW j, Goto(h, j)
      PROVE  k = h
  BY <1>3 DEF Goto, TypeOK
<1>4. ASSUME Done(h)
      PROVE  k = h /\ job'[k] = Idle
  BY <1>3, <1>4 DEF Done, Goto, TypeOK
<1>5. CASE HandlerStart(h)
  BY <1>3, <1>5 DEF HandlerStart, GetEventRequestByID, UpdateEventStatusToActive,
     RegisterGuildToEvent, SelectGuildMembers, RemoveGuildMembers
<1>6. CASE CheckCapacity(h)
  BY <1>3, <1>4, <1>6 DEF CheckCapacity
<1>7. CASE GetEventParticipants(h)
  BY <1>3, <1>7 DEF GetEventParticipants
<1>8. CASE \/ ApproveEventRequest(h) \/ DeclineEventRequest(h)
           \/ CreateEventGuildParticipant(h) \/ AddGuildMembersToEvent(h)
           \/ RemoveGuildMembersFromEvent(h) \/ ProcessEventAssignment(h)
           \/ Abandon(h)
  BY <1>4, <1>8 DEF ApproveEventRequest, DeclineEventRequest,
     CreateEventGuildParticipant, AddGuildMembersToEvent,
     RemoveGuildMembersFromEvent, ProcessEventAssignment, Abandon
<1> QED
  BY <1>2, <1>5, <1>6, <1>7, <1>8 DEF HandlerStep

\* Nothing is taken back: requests and events that exist go on existing, and
\* no guild leaves an event.
LEMMA NothingTakenBack ==
    ASSUME RegistrationAssumption, TypeOK, [Next]_vars
    PROVE  /\ \A q \in Requests : request[q] # "absent" => request'[q] # "absent"
           /\ \A e \in Events : status[e] # "absent" => status'[e] # "absent"
           /\ \A e \in Events : participants[e] \subseteq participants'[e]
<1>1. ASSUME NEW h \in Handlers, ApproveEventRequest(h)
      PROVE  /\ \A q \in Requests : request[q] # "absent" => request'[q] # "absent"
             /\ \A e \in Events : status[e] # "absent" => status'[e] # "absent"
             /\ \A e \in Events : participants[e] \subseteq participants'[e]
  BY <1>1 DEF ApproveEventRequest, CreateEvent, AddParticipant,
     UpdateEventRequestStatus, TypeOK
<1>2. ASSUME NEW h \in Handlers, ProcessEventAssignment(h)
      PROVE  \A e \in Events : status[e] # "absent" => status'[e] # "absent"
  BY <1>2 DEF ProcessEventAssignment, TypeOK
<1>3. ASSUME NEW h \in Handlers, CreateEventGuildParticipant(h)
      PROVE  \A e \in Events : participants[e] \subseteq participants'[e]
  BY <1>3 DEF CreateEventGuildParticipant, AddParticipant, TypeOK
<1>4. ASSUME NEW q \in Requests, CreateEventRequest(q)
      PROVE  \A r \in Requests : request[r] # "absent" => request'[r] # "absent"
  BY <1>4 DEF CreateEventRequest, StoreRequest, TypeOK
<1>5. ASSUME NEW h \in Handlers, DeclineEventRequest(h)
      PROVE  \A r \in Requests : request[r] # "absent" => request'[r] # "absent"
  BY <1>5 DEF DeclineEventRequest, UpdateEventRequestStatus, TypeOK
<1> QED
  BY <1>1, <1>2, <1>3, <1>4, <1>5, Writers

-------------------------------------------------------------------------------
(* The invariant                                                           *)

\* A handler knows a request or an event that exists.
KnownRows ==
    \A h \in Handlers :
        /\ At(h, "decide") => request[job[h].request] # "absent"
        /\ ~ At(h, "idle") /\ ~ At(h, "decide") =>
              status[job[h].event] # "absent"
        /\ At(h, "select") => job[h].users \subseteq Roster[job[h].guild]

\* The row of an event that is being assigned is held by one handler.
RowsHeld ==
    \A e \in Events, h, k \in Handlers :
        Assigning(h, e) =>
           /\ status[e] = "pending"
           /\ Assigning(k, e) => k = h
           /\ onTime[e] \subseteq participants[e]
           /\ At(h, "assign") => /\ onTime[e] \subseteq job[h].seen
                                 /\ job[h].seen \subseteq participants[e]
                                 /\ job[h].seen # {}

\* The two halves of JobsKnowEvents, proved one after the other.
LEMMA JobsSplit == JobsKnowEvents <=> KnownRows /\ RowsHeld
BY DEF JobsKnowEvents, KnownRows, RowsHeld

\* No row is ever deleted while a handler knows it.
LEMMA KnownRowsNext ==
    ASSUME RegistrationAssumption, TypeOK, KnownRows, [Next]_vars, TypeOK'
    PROVE  KnownRows'
<1> SUFFICES ASSUME NEW h \in Handlers
             PROVE  /\ At(h, "decide")' => request'[job'[h].request] # "absent"
                    /\ ~ At(h, "idle")' /\ ~ At(h, "decide")' =>
                          status'[job'[h].event] # "absent"
                    /\ At(h, "select")' =>
                          job'[h].users \subseteq Roster[job'[h].guild]
  BY DEF KnownRows
<1>1. CASE job'[h] = job[h]
  <2>1. /\ At(h, "decide") => request[job[h].request] # "absent"
        /\ ~ At(h, "idle") /\ ~ At(h, "decide") =>
              status[job[h].event] # "absent"
        /\ At(h, "select") => job[h].users \subseteq Roster[job[h].guild]
    BY DEF KnownRows
  <2>2. /\ At(h, "decide") => job[h].request \in Requests
        /\ ~ At(h, "idle") /\ ~ At(h, "decide") => job[h].event \in Events
    BY JobFields DEF At
  <2> QED
    BY <1>1, <2>1, <2>2, NothingTakenBack DEF At
<1>2. CASE job'[h] = Idle
  BY <1>2 DEF At, Idle
<1>3. ASSUME NEW q \in Requests, GetEventRequestByID(h, q)
      PROVE  At(h, "decide")' /\ request'[job'[h].request] # "absent"
  <2>1. job'[h] = [at |-> "decide", request |-> q]
    BY <1>3, Moved DEF GetEventRequestByID
  <2> QED
    BY <1>3, <2>1 DEF GetEventRequestByID, Undecided, RequestExists, requestVars, At
<1>4. ASSUME NEW e \in Events, UpdateEventStatusToActive(h, e)
      PROVE  At(h, "participants")' /\ status'[job'[h].event] # "absent"
  <2>1. job'[h] = [at |-> "participants", event |-> e]
    BY <1>4, Moved DEF UpdateEventStatusToActive
  <2> QED
    BY <1>4, <2>1 DEF UpdateEventStatusToActive, FindsPending, At
<1>5. ASSUME NEW e \in Events, NEW g \in Guilds, RegisterGuildToEvent(h, e, g)
      PROVE  At(h, "count")' /\ status'[job'[h].event] # "absent"
  <2>1. job'[h] = [at |-> "count", event |-> e, guild |-> g]
    BY <1>5, Moved DEF RegisterGuildToEvent
  <2> QED
    BY <1>5, <2>1 DEF RegisterGuildToEvent, Pending, At, eventVars
<1>6. ASSUME NEW e \in Events, NEW g \in Guilds, NEW U \in SUBSET Roster[g],
             SelectGuildMembers(h, e, g, U) \/ RemoveGuildMembers(h, e, g, U)
      PROVE  /\ job'[h].at \in {"select", "remove"}
             /\ status'[job'[h].event] # "absent"
             /\ job'[h].users \subseteq Roster[job'[h].guild]
  <2>1. \/ job'[h] = [at |-> "select", event |-> e, guild |-> g, users |-> U]
        \/ job'[h] = [at |-> "remove", event |-> e, guild |-> g, users |-> U]
    BY <1>6, Moved DEF SelectGuildMembers, RemoveGuildMembers
  <2> QED
    BY <1>6, <2>1 DEF SelectGuildMembers, RemoveGuildMembers, Pending, eventVars
<1>7. ASSUME CheckCapacity(h), BelowCapacity(job[h].event)
      PROVE  At(h, "insert")' /\ status'[job'[h].event] # "absent"
  <2>1. job'[h] = [job[h] EXCEPT !.at = "insert"]
    BY <1>7, Moved DEF CheckCapacity
  <2>2. [job[h] EXCEPT !.at = "insert"] =
           [at |-> "insert", event |-> job[h].event, guild |-> job[h].guild]
    BY <1>7, CountJob DEF CheckCapacity
  <2>3. job'[h].at = "insert" /\ job'[h].event = job[h].event
    BY <2>1, <2>2
  <2>4. status[job[h].event] # "absent"
    BY <1>7 DEF KnownRows, CheckCapacity, At
  <2> QED
    BY <1>7, <2>3, <2>4 DEF At, CheckCapacity, eventVars
<1>8. ASSUME GetEventParticipants(h)
      PROVE  At(h, "assign")' /\ status'[job'[h].event] # "absent"
  <2>1. job'[h] = [at |-> "assign", event |-> job[h].event,
                   seen |-> Registered(job[h].event)]
    BY <1>8, Moved DEF GetEventParticipants
  <2>2. status[job[h].event] # "absent"
    BY <1>8 DEF KnownRows, GetEventParticipants, At
  <2> QED
    BY <1>8, <2>1, <2>2 DEF GetEventParticipants, At, eventVars
<1> QED
  BY <1>1, <1>2, <1>3, <1>4, <1>5, <1>6, <1>7, <1>8, NewJobs DEF At

\* Every event that exists has a guild.
LEMMA EventsHaveGuilds ==
    ASSUME RequesterTakesPart, NEW e \in Events, status[e] # "absent"
    PROVE  participants[e] # {}
BY DEF RequesterTakesPart

\* The jobs of an assignment are the old ones, or begin or go on with it.
LEMMA AssigningNext ==
    ASSUME RegistrationAssumption, TypeOK, [Next]_vars, NEW e \in Events,
           NEW h \in Handlers, Assigning(h, e)'
    PROVE  \/ Assigning(h, e) /\ job'[h] = job[h]
           \/ /\ UpdateEventStatusToActive(h, e)
              /\ job'[h] = [at |-> "participants", event |-> e]
           \/ /\ GetEventParticipants(h) /\ Assigning(h, e)
              /\ job'[h] = [at |-> "assign", event |-> e,
                            seen |-> participants[e]]
<1>1. CASE job'[h] = job[h]
  BY <1>1 DEF Assigning, At
<1>2. CASE job'[h] = Idle
  BY <1>2 DEF Assigning, At, Idle
<1>3. ASSUME NEW q \in Requests, GetEventRequestByID(h, q)
      PROVE  FALSE
  BY <1>3, Moved DEF GetEventRequestByID, Assigning, At
<1>4. ASSUME NEW d \in Events, UpdateEventStatusToActive(h, d)
      PROVE  /\ UpdateEventStatusToActive(h, e)
             /\ job'[h] = [at |-> "participants", event |-> e]
  <2>1. job'[h] = [at |-> "participants", event |-> d]
    BY <1>4, Moved DEF UpdateEventStatusToActive
  <2> QED
    BY <1>4, <2>1 DEF Assigning, At
<1>5. ASSUME NEW d \in Events, NEW g \in Guilds, RegisterGuildToEvent(h, d, g)
      PROVE  FALSE
  BY <1>5, Moved DEF RegisterGuildToEvent, Assigning, At
<1>6. ASSUME NEW d \in Events, NEW g \in Guilds, NEW U \in SUBSET Roster[g],
             SelectGuildMembers(h, d, g, U) \/ RemoveGuildMembers(h, d, g, U)
      PROVE  FALSE
  BY <1>6, Moved DEF SelectGuildMembers, RemoveGuildMembers, Assigning, At
<1>7. ASSUME CheckCapacity(h), BelowCapacity(job[h].event)
      PROVE  FALSE
  <2>1. job'[h] = [at |-> "insert", event |-> job[h].event,
                   guild |-> job[h].guild]
    BY <1>7, CountJob, Moved DEF CheckCapacity
  <2> QED
    BY <2>1 DEF Assigning, At
<1>8. ASSUME GetEventParticipants(h)
      PROVE  /\ Assigning(h, e)
             /\ job'[h] = [at |-> "assign", event |-> e,
                           seen |-> participants[e]]
  <2>1. job'[h] = [at |-> "assign", event |-> job[h].event,
                   seen |-> Registered(job[h].event)]
    BY <1>8, Moved DEF GetEventParticipants
  <2>2. job[h].event = e
    BY <2>1 DEF Assigning, At
  <2> QED
    BY <1>8, <2>1, <2>2 DEF GetEventParticipants, Assigning, At, Registered
<1> QED
  BY <1>1, <1>2, <1>3, <1>4, <1>5, <1>6, <1>7, <1>8, NewJobs

\* The compare-and-swap of the status admits one assignment at a time.
LEMMA RowsHeldNext ==
    ASSUME RegistrationAssumption, TypeOK, RowsHeld, RequesterTakesPart,
           [Next]_vars, TypeOK'
    PROVE  RowsHeld'
<1>1. SUFFICES ASSUME NEW e \in Events, NEW h \in Handlers, NEW k \in Handlers,
                      Assigning(h, e)'
               PROVE  /\ status'[e] = "pending"
                      /\ Assigning(k, e)' => k = h
                      /\ onTime'[e] \subseteq participants'[e]
                      /\ At(h, "assign")' =>
                            /\ onTime'[e] \subseteq job'[h].seen
                            /\ job'[h].seen \subseteq participants'[e]
                            /\ job'[h].seen # {}
  BY DEF RowsHeld
\* The event was pending when it was not being assigned yet, too.
<1>2. status[e] = "pending"
  BY <1>1, AssigningNext DEF RowsHeld, UpdateEventStatusToActive, FindsPending
<1>3. ASSUME NEW l \in Handlers, ApproveEventRequest(l)
      PROVE  status'[e] = status[e]
  BY <1>2, <1>3 DEF ApproveEventRequest, CreateEvent, TypeOK
<1>4. ASSUME NEW l \in Handlers, ProcessEventAssignment(l)
      PROVE  status'[e] = status[e]
  <2>1. job'[l] = Idle /\ \A m \in Handlers : m # l => job'[m] = job[m]
    BY <1>4, Moved DEF ProcessEventAssignment, Done
  <2>2. h # l /\ Assigning(h, e)
    BY <1>1, <2>1 DEF Assigning, At, Idle
  <2>3. job[l].event # e
    BY <1>4, <2>2 DEF RowsHeld, Assigning, ProcessEventAssignment
  <2> QED
    BY <1>4, <2>3 DEF ProcessEventAssignment, TypeOK
<1>5. status'[e] = "pending"
  BY <1>2, <1>3, <1>4, Writers
<1>6. participants[e] \subseteq participants'[e]
  BY NothingTakenBack
<1>7. CASE UpdateEventStatusToActive(h, e)
  <2>1. /\ job'[h] = [at |-> "participants", event |-> e]
        /\ \A m \in Handlers : m # h => job'[m] = job[m]
    BY <1>7, Moved DEF UpdateEventStatusToActive
  <2>2. onTime'[e] = participants[e]
    BY <1>7 DEF UpdateEventStatusToActive, TypeOK
  <2>3. \A m \in Handlers : ~ Assigning(m, e)
    BY <1>7 DEF UpdateEventStatusToActive, FindsPending
  <2> QED
    BY <1>5, <1>6, <2>1, <2>2, <2>3 DEF Assigning, At
<1>8. CASE ~ UpdateEventStatusToActive(h, e)
  <2>1. Assigning(h, e)
    BY <1>1, <1>8, AssigningNext
  <2>2. \A m \in Handlers, d \in Events :
           UpdateEventStatusToActive(m, d) => d # e
    BY <2>1 DEF UpdateEventStatusToActive, FindsPending
  <2>3. onTime'[e] = onTime[e]
    BY <2>2, Writers DEF UpdateEventStatusToActive, TypeOK
  <2>4. Assigning(k, e)' => k = h
    BY <2>1, <2>2, AssigningNext DEF RowsHeld
  <2>5. onTime[e] \subseteq participants[e]
    BY <2>1 DEF RowsHeld
  <2>6. CASE job'[h] = job[h]
    BY <1>5, <1>6, <2>1, <2>3, <2>4, <2>5, <2>6 DEF RowsHeld, At
  <2>7. CASE job'[h] = [at |-> "assign", event |-> e, seen |-> participants[e]]
    BY <1>2, <1>5, <1>6, <2>3, <2>4, <2>5, <2>7, EventsHaveGuilds DEF At
  <2> QED
    BY <1>1, <1>8, <2>6, <2>7, AssigningNext
<1> QED
  BY <1>7, <1>8

\* Guilds register for events that exist.
LEMMA AbsentEventsEmptyNext ==
    ASSUME RegistrationAssumption, TypeOK, KnownRows, AbsentEventsEmpty,
           [Next]_vars, TypeOK'
    PROVE  AbsentEventsEmpty'
<1> SUFFICES ASSUME NEW e \in Events, status'[e] = "absent"
             PROVE  participants'[e] = {} /\ origin'[e] = None
  BY DEF AbsentEventsEmpty
<1>1. status[e] = "absent"
  BY NothingTakenBack
<1>2. participants[e] = {} /\ origin[e] = None
  BY <1>1 DEF AbsentEventsEmpty
<1>3. ASSUME NEW h \in Handlers, ApproveEventRequest(h)
      PROVE  participants'[e] = participants[e] /\ origin'[e] = origin[e]
  BY <1>3 DEF ApproveEventRequest, CreateEvent, AddParticipant, TypeOK
<1>4. ASSUME NEW h \in Handlers, CreateEventGuildParticipant(h)
      PROVE  participants'[e] = participants[e]
  <2>1. job[h].event # e
    BY <1>1, <1>4 DEF KnownRows, CreateEventGuildParticipant, At
  <2> QED
    BY <1>4, <2>1 DEF CreateEventGuildParticipant, AddParticipant, TypeOK
<1> QED
  BY <1>2, <1>3, <1>4, Writers

\* A guild that was registered when its members are added stays registered.
LEMMA MembersTakePartNext ==
    ASSUME RegistrationAssumption, TypeOK, KnownRows, MembersTakePart,
           [Next]_vars, TypeOK'
    PROVE  MembersTakePart'
<1> SUFFICES ASSUME NEW e \in Events, NEW g \in Guilds
             PROVE  /\ members'[e][g] \subseteq Roster[g]
                    /\ members'[e][g] # {} => g \in participants'[e]
  BY DEF MembersTakePart
<1>1. /\ members[e][g] \subseteq Roster[g]
      /\ members[e][g] # {} => g \in participants[e]
  BY DEF MembersTakePart
<1>2. participants[e] \subseteq participants'[e]
  BY NothingTakenBack
<1>3. ASSUME NEW h \in Handlers, AddGuildMembersToEvent(h), TakesPart(job[h])
      PROVE  /\ members'[e][g] \subseteq Roster[g]
             /\ members'[e][g] # {} => g \in participants[e]
  <2>1. job[h].users \subseteq Roster[job[h].guild]
    BY <1>3 DEF KnownRows, AddGuildMembersToEvent
  <2>2. members'[e][g] = IF e = job[h].event /\ g = job[h].guild
                         THEN members[e][g] \cup job[h].users
                         ELSE members[e][g]
    <3>1. \A d \in Events, k \in Guilds :
             members'[d][k] = IF d = job[h].event /\ k = job[h].guild
                              THEN members[d][k] \cup job[h].users
                              ELSE members[d][k]
      BY <1>3, AddedMembers
    <3> QED
      BY <3>1
  <2> QED
    BY <1>1, <1>3, <2>1, <2>2 DEF TakesPart
<1>4. ASSUME NEW h \in Handlers, RemoveGuildMembersFromEvent(h), TakesPart(job[h])
      PROVE  /\ members'[e][g] \subseteq Roster[g]
             /\ members'[e][g] # {} => g \in participants[e]
  <2>1. members'[e][g] = IF e = job[h].event /\ g = job[h].guild
                         THEN members[e][g] \ job[h].users
                         ELSE members[e][g]
    <3>1. \A d \in Events, k \in Guilds :
             members'[d][k] = IF d = job[h].event /\ k = job[h].guild
                              THEN members[d][k] \ job[h].users
                              ELSE members[d][k]
      BY <1>4, RemovedMembers
    <3> QED
      BY <3>1
  <2> QED
    BY <1>1, <2>1
<1>5. ASSUME NEW h \in Handlers, ~ TakesPart(job[h]),
             AddGuildMembersToEvent(h) \/ RemoveGuildMembersFromEvent(h)
      PROVE  members' = members
  BY <1>5 DEF AddGuildMembersToEvent, RemoveGuildMembersFromEvent
<1> QED
  BY <1>1, <1>2, <1>3, <1>4, <1>5, Writers

-------------------------------------------------------------------------------
(* Requests and their events                                               *)

\* What an approval by h makes of event e, and leaves alone.
ApprovedAs(h, e) ==
    /\ status[e] = "absent"
    /\ e \notin EventsOf(job[h].request)
    /\ job[h].request \in Requests
    /\ status'[e] = "pending" /\ origin'[e] = job[h].request
    /\ participants'[e] =
          participants[e] \cup {Requester[job[h].request]}
    /\ \A d \in Events : d # e =>
          /\ status'[d] = status[d] /\ origin'[d] = origin[d]
          /\ participants'[d] = participants[d]
    /\ request'[job[h].request] = "approved"
    /\ approvedEvent'[job[h].request] = e
    /\ \A q \in Requests : q # job[h].request =>
          /\ request'[q] = request[q]
          /\ approvedEvent'[q] = approvedEvent[q]

\* An approval makes one event that was not there.
LEMMA ApprovedEvent ==
    ASSUME RegistrationAssumption, TypeOK, NEW h \in Handlers,
           ApproveEventRequest(h)
    PROVE  \E e \in Events : ApprovedAs(h, e)
<1>1. job[h].request \in Requests
  BY JobFields DEF ApproveEventRequest
<1>2. PICK e \in Events :
         /\ status[e] = "absent"
         /\ CreateEvent(e, job[h].request)
         /\ AddParticipant(e, Requester[job[h].request])
         /\ UpdateEventRequestStatus(job[h].request, "approved", e)
  BY DEF ApproveEventRequest
<1> QED
  BY <1>1, <1>2 DEF ApprovedAs, CreateEvent, AddParticipant,
     UpdateEventRequestStatus, EventsOf, TypeOK

\* An assignment ends with an event that was pending.
LEMMA AssignedEvent ==
    ASSUME RegistrationAssumption, TypeOK, RowsHeld, NEW h \in Handlers,
           ProcessEventAssignment(h)
    PROVE  /\ job[h].event \in Events /\ job[h].seen \in SUBSET Guilds
           /\ Assigning(h, job[h].event)
           /\ status[job[h].event] = "pending"
           /\ job[h].seen # {}
           /\ job[h].seen \subseteq participants[job[h].event]
           /\ onTime[job[h].event] \subseteq job[h].seen
           /\ \A d \in Events :
                 status'[d] = IF d = job[h].event THEN "active" ELSE status[d]
<1>1. job[h].event \in Events /\ job[h].seen \in SUBSET Guilds
  BY JobFields DEF ProcessEventAssignment
<1>2. Assigning(h, job[h].event)
  BY DEF Assigning, ProcessEventAssignment
<1>3. \A d \in Events :
         status'[d] = IF d = job[h].event THEN "active" ELSE status[d]
  BY <1>1 DEF ProcessEventAssignment, TypeOK
<1> QED
  BY <1>1, <1>2, <1>3 DEF RowsHeld, ProcessEventAssignment

\* A request gains events only when it is approved, one at a time.
LEMMA EventsOfNext ==
    ASSUME RegistrationAssumption, TypeOK, RowsHeld, [Next]_vars,
           NEW q \in Requests
    PROVE  \/ EventsOf(q)' = EventsOf(q)
           \/ \E h \in Handlers :
                 /\ ApproveEventRequest(h) /\ job[h].request = q
                 /\ \E e \in Events : EventsOf(q)' = EventsOf(q) \cup {e}
<1>1. ASSUME NEW h \in Handlers, ApproveEventRequest(h)
      PROVE  \/ EventsOf(q)' = EventsOf(q)
             \/ /\ job[h].request = q
                /\ \E e \in Events : EventsOf(q)' = EventsOf(q) \cup {e}
  <2>1. PICK e \in Events : ApprovedAs(h, e)
    BY <1>1, ApprovedEvent
  <2>1a. /\ status[e] = "absent"
         /\ status'[e] = "pending" /\ origin'[e] = job[h].request
         /\ \A d \in Events : d # e =>
               status'[d] = status[d] /\ origin'[d] = origin[d]
    BY <2>1 DEF ApprovedAs
  <2>2. CASE job[h].request = q
    <3>1. EventsOf(q)' = EventsOf(q) \cup {e}
      BY <2>1a, <2>2 DEF EventsOf
    <3> QED
      BY <2>2, <3>1
  <2>3. CASE job[h].request # q
    BY <2>1a, <2>3 DEF EventsOf
  <2> QED
    BY <2>2, <2>3
<1>2. ASSUME NEW h \in Handlers, ProcessEventAssignment(h)
      PROVE  EventsOf(q)' = EventsOf(q)
  <2>1. \A d \in Events : status'[d] = "absent" <=> status[d] = "absent"
    BY <1>2, AssignedEvent
  <2>2. origin' = origin
    BY <1>2 DEF ProcessEventAssignment
  <2> QED
    BY <2>1, <2>2 DEF EventsOf
<1>3. CASE status' = status /\ origin' = origin
  BY <1>3 DEF EventsOf
<1> QED
  BY <1>1, <1>2, <1>3, Writers

\* Deciding a request records the event it became.
LEMMA UndecidedHaveNoEventNext ==
    ASSUME RegistrationAssumption, TypeOK, RowsHeld, KnownRows,
           UndecidedHaveNoEvent, [Next]_vars, TypeOK'
    PROVE  UndecidedHaveNoEvent'
<1> SUFFICES ASSUME NEW q \in Requests
             PROVE  /\ request'[q] \in {"absent", "pending"} => EventsOf(q)' = {}
                    /\ request'[q] = "approved" <=> approvedEvent'[q] # None
                    /\ approvedEvent'[q] # None =>
                          approvedEvent'[q] \in EventsOf(q)'
  BY DEF UndecidedHaveNoEvent
<1>1. /\ request[q] \in {"absent", "pending"} => EventsOf(q) = {}
      /\ request[q] = "approved" <=> approvedEvent[q] # None
      /\ approvedEvent[q] # None => approvedEvent[q] \in EventsOf(q)
  BY DEF UndecidedHaveNoEvent
<1>2. CASE \E h \in Handlers : ApproveEventRequest(h)
  <2>1. PICK h \in Handlers : ApproveEventRequest(h)
    BY <1>2
  <2>2. PICK e \in Events : ApprovedAs(h, e)
    BY <2>1, ApprovedEvent
  <2>2a. /\ status[e] = "absent"
         /\ status'[e] = "pending" /\ origin'[e] = job[h].request
         /\ \A d \in Events : d # e =>
               status'[d] = status[d] /\ origin'[d] = origin[d]
         /\ request'[job[h].request] = "approved"
         /\ approvedEvent'[job[h].request] = e
         /\ \A r \in Requests : r # job[h].request =>
               request'[r] = request[r] /\ approvedEvent'[r] = approvedEvent[r]
    BY <2>2 DEF ApprovedAs
  <2>3. CASE job[h].request = q
    <3>1. e \in EventsOf(q)'
      BY <2>2a, <2>3 DEF EventsOf
    <3>2. e # None
      BY DEF RegistrationAssumption
    <3> QED
      BY <2>2a, <2>3, <3>1, <3>2
  <2>4. CASE job[h].request # q
    <3>1. EventsOf(q)' = EventsOf(q)
      BY <2>2a, <2>4 DEF EventsOf
    <3> QED
      BY <1>1, <2>2a, <2>4, <3>1
  <2> QED
    BY <2>3, <2>4
<1>3. CASE ~ \E h \in Handlers : ApproveEventRequest(h)
  <2>1. EventsOf(q)' = EventsOf(q)
    BY <1>3, EventsOfNext
  <2>2. ASSUME NEW r \in Requests, CreateEventRequest(r)
        PROVE  /\ approvedEvent' = approvedEvent
               /\ \/ request'[q] = request[q]
                  \/ request[q] = "absent" /\ request'[q] = "pending"
    BY <2>2 DEF CreateEventRequest, StoreRequest, TypeOK
  <2>3. ASSUME NEW h \in Handlers, DeclineEventRequest(h)
        PROVE  \/ request'[q] = request[q] /\ approvedEvent'[q] = approvedEvent[q]
               \/ request'[q] = "rejected" /\ approvedEvent'[q] = None
    BY <2>3 DEF DeclineEventRequest, UpdateEventRequestStatus, TypeOK
  <2> QED
    BY <1>1, <1>3, <2>1, <2>2, <2>3, Writers
<1> QED
  BY <1>2, <1>3

\* Event, requester and request are written by one transaction.
LEMMA RequesterTakesPartNext ==
    ASSUME RegistrationAssumption, TypeOK, RowsHeld, RequesterTakesPart,
           [Next]_vars, TypeOK', UndecidedHaveNoEvent'
    PROVE  RequesterTakesPart'
<1>1. ASSUME NEW e \in Events, status'[e] # "absent"
      PROVE  RequesterOf(e)' # {} /\ RequesterOf(e)' \subseteq participants'[e]
  <2>1. participants[e] \subseteq participants'[e]
    BY NothingTakenBack
  <2>2. status[e] # "absent" =>
           RequesterOf(e) # {} /\ RequesterOf(e) \subseteq participants[e]
    BY DEF RequesterTakesPart
  <2>3. CASE \E h \in Handlers : ApproveEventRequest(h)
    <3>1. PICK h \in Handlers : ApproveEventRequest(h)
      BY <2>3
    <3>2. PICK d \in Events : ApprovedAs(h, d)
      BY <3>1, ApprovedEvent
    <3>2a. /\ job[h].request \in Requests
           /\ origin'[d] = job[h].request
           /\ participants'[d] =
                 participants[d] \cup {Requester[job[h].request]}
           /\ \A c \in Events : c # d =>
                 status'[c] = status[c] /\ origin'[c] = origin[c]
      BY <3>2 DEF ApprovedAs
    <3>3. CASE e = d
      <4>1. RequesterOf(e)' = {Requester[job[h].request]}
        BY <3>2a, <3>3 DEF RequesterOf
      <4> QED
        BY <3>2a, <3>3, <4>1
    <3>4. CASE e # d
      BY <1>1, <2>1, <2>2, <3>2a, <3>4 DEF RequesterOf
    <3> QED
      BY <3>3, <3>4
  <2>4. CASE ~ \E h \in Handlers : ApproveEventRequest(h)
    <3>1. status[e] # "absent"
      BY <1>1, <2>4, Writers, AssignedEvent
    <3>2. origin' = origin
      BY <2>4, Writers
    <3> QED
      BY <2>1, <2>2, <3>1, <3>2 DEF RequesterOf
  <2> QED
    BY <2>3, <2>4
<1>2. ASSUME NEW q \in GetEventRequests("")'
      PROVE  request'[q] = "approved" <=> ShownEvent(q)' # {}
  BY <1>2 DEF GetEventRequests, ShownEvent, UndecidedHaveNoEvent
<1>3. ASSUME NEW g \in Guilds, NEW e \in MyApprovedEvents(g)'
      PROVE  status'[e] # "absent" /\ RequesterOf(e)' = {g}
  <2>1. PICK q \in RequestsByGuild(g)' : e \in ShownEvent(q)'
    BY <1>3 DEF MyApprovedEvents
  <2>2. q \in Requests /\ Requester[q] = g /\ approvedEvent'[q] = e /\ e # None
    BY <2>1 DEF RequestsByGuild, ShownEvent
  <2>3. e \in EventsOf(q)'
    BY <2>2 DEF UndecidedHaveNoEvent
  <2>4. {r \in Requests : origin'[e] = r} = {q}
    BY <2>2, <2>3 DEF EventsOf
  <2> QED
    BY <2>2, <2>3, <2>4 DEF EventsOf, RequesterOf
<1> QED
  BY <1>1, <1>2, <1>3 DEF RequesterTakesPart

\* What is counted is finite.
LEMMA Counts ==
    ASSUME RegistrationAssumption, TypeOK
    PROVE  /\ Cardinality(Handlers) \in Nat \ {0}
           /\ \A H \in SUBSET Handlers :
                 /\ IsFiniteSet(H) /\ Cardinality(H) \in Nat
                 /\ Cardinality(H) <= Cardinality(Handlers)
           /\ \A e \in Events :
                 IsFiniteSet(participants[e]) /\ Cardinality(participants[e]) \in Nat
           /\ \A q : IsFiniteSet(EventsOf(q)) /\ Cardinality(EventsOf(q)) \in Nat
<1>1. Cardinality(Handlers) \in Nat \ {0}
  BY FS_CardinalityType, FS_EmptySet DEF RegistrationAssumption
<1>2. ASSUME NEW H \in SUBSET Handlers
      PROVE  /\ IsFiniteSet(H) /\ Cardinality(H) \in Nat
             /\ Cardinality(H) <= Cardinality(Handlers)
  BY FS_Subset, FS_CardinalityType DEF RegistrationAssumption
<1>3. ASSUME NEW e \in Events
      PROVE  IsFiniteSet(participants[e]) /\ Cardinality(participants[e]) \in Nat
  <2>1. participants[e] \in SUBSET Guilds
    BY DEF TypeOK
  <2> QED
    BY <2>1, FS_Subset, FS_CardinalityType DEF RegistrationAssumption
<1>4. ASSUME NEW q
      PROVE  IsFiniteSet(EventsOf(q)) /\ Cardinality(EventsOf(q)) \in Nat
  <2>1. EventsOf(q) \in SUBSET Events
    BY DEF EventsOf
  <2> QED
    BY <2>1, FS_Subset, FS_CardinalityType DEF RegistrationAssumption
<1> QED
  BY <1>1, <1>2, <1>3, <1>4

\* Those who may still decide a request: one more has just read it, or there
\* are no more than before, and whoever decided it is not among them.
LEMMA DecidingNext ==
    ASSUME RegistrationAssumption, TypeOK, [Next]_vars, NEW q \in Requests
    PROVE  /\ \/ \E h \in Handlers : GetEventRequestByID(h, q)
              \/ Deciding(q)' \subseteq Deciding(q)
           /\ \A h \in Handlers : ApproveEventRequest(h) =>
                 h \notin Deciding(q)'
<1>1. ASSUME NEW h \in Handlers, h \in Deciding(q)', h \notin Deciding(q)
      PROVE  GetEventRequestByID(h, q)
  <2>1. job'[h] # job[h] /\ At(h, "decide")' /\ job'[h].request = q
    BY <1>1 DEF Deciding, At
  <2>2. job'[h] # Idle
    BY <2>1 DEF At, Idle
  <2>3. ASSUME NEW r \in Requests, GetEventRequestByID(h, r)
        PROVE  r = q
    BY <2>1, <2>3, Moved DEF GetEventRequestByID
  <2>4. ASSUME NEW d \in Events, UpdateEventStatusToActive(h, d)
        PROVE  FALSE
    BY <2>1, <2>4, Moved DEF UpdateEventStatusToActive, At
  <2>5. ASSUME NEW d \in Events, NEW g \in Guilds, RegisterGuildToEvent(h, d, g)
        PROVE  FALSE
    BY <2>1, <2>5, Moved DEF RegisterGuildToEvent, At
  <2>6. ASSUME NEW d \in Events, NEW g \in Guilds, NEW U \in SUBSET Roster[g],
               SelectGuildMembers(h, d, g, U) \/ RemoveGuildMembers(h, d, g, U)
        PROVE  FALSE
    BY <2>1, <2>6, Moved DEF SelectGuildMembers, RemoveGuildMembers, At
  <2>7. ASSUME CheckCapacity(h), BelowCapacity(job[h].event)
        PROVE  FALSE
    <3>1. job'[h] = [at |-> "insert", event |-> job[h].event,
                     guild |-> job[h].guild]
      BY <2>7, CountJob, Moved DEF CheckCapacity
    <3> QED
      BY <2>1, <3>1 DEF At
  <2>8. ASSUME GetEventParticipants(h)
        PROVE  FALSE
    BY <2>1, <2>8, Moved DEF GetEventParticipants, At
  <2> QED
    BY <2>1, <2>2, <2>3, <2>4, <2>5, <2>6, <2>7, <2>8, NewJobs
<1>2. Deciding(q)' \subseteq Handlers
  BY DEF Deciding
<1>3. ASSUME NEW h \in Handlers, ApproveEventRequest(h)
      PROVE  h \notin Deciding(q)'
  <2>1. job'[h] = Idle
    BY <1>3, Moved DEF ApproveEventRequest, Done
  <2> QED
    BY <2>1 DEF Deciding, At, Idle
<1> QED
  BY <1>1, <1>2, <1>3

\* A handler that decides gives up its place to the event it creates.
LEMMA EventsPerRequestNext ==
    ASSUME RegistrationAssumption, TypeOK, RowsHeld, UndecidedHaveNoEvent,
           EventsPerRequest, [Next]_vars, TypeOK', UndecidedHaveNoEvent'
    PROVE  EventsPerRequest'
<1>1. ASSUME NEW q \in Requests
      PROVE  Cardinality(EventsOf(q)') + Cardinality(Deciding(q)')
                <= Cardinality(Handlers)
  <2>1. /\ Cardinality(Handlers) \in Nat
        /\ IsFiniteSet(EventsOf(q)) /\ Cardinality(EventsOf(q)) \in Nat
        /\ Deciding(q) \in SUBSET Handlers /\ Deciding(q)' \in SUBSET Handlers
        /\ IsFiniteSet(Deciding(q)) /\ Cardinality(Deciding(q)) \in Nat
        /\ Cardinality(Deciding(q)') \in Nat
        /\ Cardinality(Deciding(q)') <= Cardinality(Handlers)
    <3>1. Deciding(q) \in SUBSET Handlers /\ Deciding(q)' \in SUBSET Handlers
      BY DEF Deciding
    <3> QED
      BY <3>1, Counts
  <2>2. Cardinality(EventsOf(q)) + Cardinality(Deciding(q)) <= Cardinality(Handlers)
    BY DEF EventsPerRequest
  <2>3. CASE \E h \in Handlers : GetEventRequestByID(h, q)
    <3>1. EventsOf(q)' = {}
      BY <2>3 DEF GetEventRequestByID, Undecided, UndecidedHaveNoEvent, EventsOf,
         eventVars
    <3> QED
      BY <2>1, <3>1, FS_EmptySet
  <2>4. CASE /\ EventsOf(q)' = EventsOf(q)
             /\ Deciding(q)' \subseteq Deciding(q)
    <3>1. Cardinality(Deciding(q)') <= Cardinality(Deciding(q))
      BY <2>1, <2>4, FS_Subset
    <3> QED
      BY <2>1, <2>2, <2>4, <3>1
  <2>5. ASSUME NEW h \in Handlers, ApproveEventRequest(h), job[h].request = q,
               NEW e \in Events, EventsOf(q)' = EventsOf(q) \cup {e}
        PROVE  Cardinality(EventsOf(q)') + Cardinality(Deciding(q)')
                  <= Cardinality(Handlers)
    <3>1. h \in Deciding(q)
      BY <2>5 DEF Deciding, ApproveEventRequest
    <3>2. \A k \in Handlers : ~ GetEventRequestByID(k, q)
      BY <2>5 DEF ApproveEventRequest, GetEventRequestByID, requestVars, eventVars,
         CreateEvent, TypeOK
    <3>3. Deciding(q)' \subseteq Deciding(q) \ {h}
      BY <2>5, <3>2, DecidingNext
    <3>4. /\ IsFiniteSet(Deciding(q) \ {h})
          /\ Cardinality(Deciding(q) \ {h}) = Cardinality(Deciding(q)) - 1
      BY <2>1, <3>1, FS_RemoveElement
    <3>5. Cardinality(Deciding(q)') <= Cardinality(Deciding(q)) - 1
      BY <3>3, <3>4, FS_Subset
    <3>6. /\ Cardinality(EventsOf(q) \cup {e}) <= Cardinality(EventsOf(q)) + 1
          /\ Cardinality(EventsOf(q) \cup {e}) \in Nat
      <4>1. /\ IsFiniteSet(EventsOf(q) \cup {e})
            /\ \/ Cardinality(EventsOf(q) \cup {e}) = Cardinality(EventsOf(q))
               \/ Cardinality(EventsOf(q) \cup {e}) = Cardinality(EventsOf(q)) + 1
        BY <2>1, FS_AddElement
      <4> QED
        BY <2>1, <4>1
    <3> QED
      BY <2>1, <2>2, <2>5, <3>5, <3>6
  <2>6. CASE Deciding(q)' \subseteq Deciding(q)
    BY <2>4, <2>5, <2>6, EventsOfNext
  <2> QED
    BY <2>3, <2>6, DecidingNext
<1>2. ASSUME NEW q \in GetEventRequests("pending")'
      PROVE  EventsOf(q)' = {}
  BY <1>2 DEF GetEventRequests, RequestsByStatus, UndecidedHaveNoEvent
<1> QED
  BY <1>1, <1>2 DEF EventsPerRequest

\* One more element in a set of guilds makes it larger by one at most.
LEMMA OneMoreGuild ==
    ASSUME RegistrationAssumption, NEW S \in SUBSET Guilds, NEW g \in Guilds
    PROVE  /\ Cardinality(S) \in Nat /\ Cardinality(S \cup {g}) \in Nat
           /\ Cardinality(S \cup {g}) <= Cardinality(S) + 1
<1>1. IsFiniteSet(S)
  BY FS_Subset DEF RegistrationAssumption
<1>2. /\ IsFiniteSet(S \cup {g})
      /\ \/ Cardinality(S \cup {g}) = Cardinality(S)
         \/ Cardinality(S \cup {g}) = Cardinality(S) + 1
  BY <1>1, FS_AddElement
<1> QED
  BY <1>1, <1>2, FS_CardinalityType

\* Those about to be inserted: one more has just found a place, or there are
\* no more than before, and whoever inserted its guild is not among them.
LEMMA InsertingNext ==
    ASSUME RegistrationAssumption, TypeOK, [Next]_vars, NEW e \in Events
    PROVE  /\ \/ \E h \in Handlers : /\ CheckCapacity(h) /\ job[h].event = e
                                     /\ BelowCapacity(e)
              \/ Inserting(e)' \subseteq Inserting(e)
           /\ \A h \in Handlers : CreateEventGuildParticipant(h) =>
                 h \notin Inserting(e)'
<1>1. ASSUME NEW h \in Handlers, h \in Inserting(e)', h \notin Inserting(e)
      PROVE  CheckCapacity(h) /\ job[h].event = e /\ BelowCapacity(e)
  <2>1. job'[h] # job[h] /\ job'[h].at = "insert" /\ job'[h].event = e
    BY <1>1 DEF Inserting, At
  <2>2. job'[h] # Idle
    BY <2>1 DEF Idle
  <2>3. ASSUME NEW r \in Requests, GetEventRequestByID(h, r)
        PROVE  FALSE
    BY <2>1, <2>3, Moved DEF GetEventRequestByID
  <2>4. ASSUME NEW d \in Events, UpdateEventStatusToActive(h, d)
        PROVE  FALSE
    BY <2>1, <2>4, Moved DEF UpdateEventStatusToActive
  <2>5. ASSUME NEW d \in Events, NEW g \in Guilds, RegisterGuildToEvent(h, d, g)
        PROVE  FALSE
    BY <2>1, <2>5, Moved DEF RegisterGuildToEvent
  <2>6. ASSUME NEW d \in Events, NEW g \in Guilds, NEW U \in SUBSET Roster[g],
               SelectGuildMembers(h, d, g, U) \/ RemoveGuildMembers(h, d, g, U)
        PROVE  FALSE
    BY <2>1, <2>6, Moved DEF SelectGuildMembers, RemoveGuildMembers
  <2>7. ASSUME CheckCapacity(h), BelowCapacity(job[h].event)
        PROVE  job[h].event = e
    <3>1. job'[h] = [at |-> "insert", event |-> job[h].event,
                     guild |-> job[h].guild]
      BY <2>7, CountJob, Moved DEF CheckCapacity
    <3> QED
      BY <2>1, <3>1
  <2>8. ASSUME GetEventParticipants(h)
        PROVE  FALSE
    BY <2>1, <2>8, Moved DEF GetEventParticipants
  <2> QED
    BY <2>1, <2>2, <2>3, <2>4, <2>5, <2>6, <2>7, <2>8, NewJobs
<1>2. Inserting(e)' \subseteq Handlers
  BY DEF Inserting
<1>3. ASSUME NEW h \in Handlers, CreateEventGuildParticipant(h)
      PROVE  h \notin Inserting(e)'
  <2>1. job'[h] = Idle
    BY <1>3, Moved DEF CreateEventGuildParticipant, Done
  <2> QED
    BY <2>1 DEF Inserting, At, Idle
<1> QED
  BY <1>1, <1>2, <1>3

\* An insertion gives up its place to the guild it inserts; whoever finds a
\* place found it when the inserted guilds were fewer than max_guilds.
LEMMA GuildsWithinCapacityAndOverlapNext ==
    ASSUME RegistrationAssumption, TypeOK, KnownRows, AbsentEventsEmpty,
           GuildsWithinCapacityAndOverlap, [Next]_vars, TypeOK'
    PROVE  GuildsWithinCapacityAndOverlap'
<1> SUFFICES ASSUME NEW e \in Events
             PROVE  /\ CountEventParticipants(e)' + Cardinality(Inserting(e)')
                         <= MaxGuilds + Cardinality(Handlers) - 1
                    /\ CountEventParticipants(e)' <= MaxGuilds =>
                          Cardinality(Inserting(e)')
                             <= GuildsLeft(e)' + Cardinality(Handlers) - 1
  BY DEF GuildsWithinCapacityAndOverlap
<1>1. /\ Cardinality(Handlers) \in Nat \ {0} /\ MaxGuilds \in Nat \ {0}
      /\ Inserting(e) \in SUBSET Handlers /\ Inserting(e)' \in SUBSET Handlers
      /\ IsFiniteSet(Inserting(e)) /\ Cardinality(Inserting(e)) \in Nat
      /\ Cardinality(Inserting(e)') \in Nat
      /\ Cardinality(Inserting(e)') <= Cardinality(Handlers)
      /\ CountEventParticipants(e) \in Nat
  <2>1. Inserting(e) \in SUBSET Handlers /\ Inserting(e)' \in SUBSET Handlers
    BY DEF Inserting
  <2> QED
    BY <2>1, Counts DEF CountEventParticipants, RegistrationAssumption
<1>2. CountEventParticipants(e)' \in Nat
  <2>1. participants'[e] \in SUBSET Guilds
    BY DEF TypeOK
  <2> QED
    BY <2>1, FS_Subset, FS_CardinalityType
    DEF RegistrationAssumption, CountEventParticipants
<1>3. CountEventParticipants(e) + Cardinality(Inserting(e))
         <= MaxGuilds + Cardinality(Handlers) - 1
  BY DEF GuildsWithinCapacityAndOverlap
<1>4. CountEventParticipants(e)' + Cardinality(Inserting(e)')
         <= MaxGuilds + Cardinality(Handlers) - 1
  <2>1. CASE \E h \in Handlers : /\ CheckCapacity(h) /\ job[h].event = e
                                 /\ BelowCapacity(e)
    <3>1. CountEventParticipants(e)' = CountEventParticipants(e)
      BY <2>1 DEF CheckCapacity, CountEventParticipants
    <3> QED
      BY <1>1, <2>1, <3>1 DEF BelowCapacity
  <2>2. CASE participants' = participants /\ Inserting(e)' \subseteq Inserting(e)
    <3>1. CountEventParticipants(e)' = CountEventParticipants(e)
      BY <2>2 DEF CountEventParticipants
    <3>2. Cardinality(Inserting(e)') <= Cardinality(Inserting(e))
      BY <1>1, <2>2, FS_Subset
    <3> QED
      BY <1>1, <1>3, <3>1, <3>2
  <2>3. ASSUME NEW h \in Handlers, CreateEventGuildParticipant(h)
        PROVE  CountEventParticipants(e)' + Cardinality(Inserting(e)')
                  <= MaxGuilds + Cardinality(Handlers) - 1
    <3>1. /\ job[h].event \in Events /\ job[h].guild \in Guilds
          /\ participants' = [participants EXCEPT ![job[h].event] =
                                participants[job[h].event] \cup {job[h].guild}]
          /\ job' = [job EXCEPT ![h] = Idle]
      BY <2>3, JobFields
      DEF CreateEventGuildParticipant, AddParticipant, Done, Goto
    <3>2. Inserting(e)' \subseteq Inserting(e) \ {h}
      <4>1. \A k \in Handlers : k # h => job'[k] = job[k]
        BY <3>1 DEF TypeOK
      <4>2. h \notin Inserting(e)'
        BY <2>3, InsertingNext
      <4> QED
        BY <4>1, <4>2 DEF Inserting, At
    <3>3. CASE job[h].event # e
      <4>1. participants'[e] = participants[e]
        BY <3>1, <3>3 DEF TypeOK
      <4>2. Cardinality(Inserting(e)') <= Cardinality(Inserting(e))
        BY <1>1, <3>2, FS_Subset
      <4> QED
        BY <1>1, <1>3, <4>1, <4>2 DEF CountEventParticipants
    <3>4. CASE job[h].event = e
      <4>1. participants'[e] = participants[e] \cup {job[h].guild}
            /\ participants[e] \in SUBSET Guilds
        BY <3>1, <3>4 DEF TypeOK
      <4>2. CountEventParticipants(e)' <= CountEventParticipants(e) + 1
        BY <3>1, <4>1, OneMoreGuild DEF CountEventParticipants
      <4>3. h \in Inserting(e)
        BY <2>3, <3>4 DEF CreateEventGuildParticipant, Inserting
      <4>4. /\ IsFiniteSet(Inserting(e) \ {h})
            /\ Cardinality(Inserting(e) \ {h}) = Cardinality(Inserting(e)) - 1
        BY <1>1, <4>3, FS_RemoveElement
      <4>5. Cardinality(Inserting(e)') <= Cardinality(Inserting(e)) - 1
        BY <3>2, <4>4, FS_Subset
      <4> QED
        BY <1>1, <1>2, <1>3, <4>2, <4>5
    <3> QED
      BY <3>3, <3>4
  <2>4. ASSUME NEW h \in Handlers, ApproveEventRequest(h)
        PROVE  CountEventParticipants(e)' + Cardinality(Inserting(e)')
                  <= MaxGuilds + Cardinality(Handlers) - 1
    <3>1. Inserting(e)' \subseteq Inserting(e)
      <4>1. \A k \in Handlers : job'[k] = IF k = h THEN Idle ELSE job[k]
        BY <2>4, Moved DEF ApproveEventRequest, Done
      <4> QED
        BY <4>1 DEF Inserting, At, Idle
    <3>2. Cardinality(Inserting(e)') <= Cardinality(Inserting(e))
      BY <1>1, <3>1, FS_Subset
    <3>3. PICK d \in Events : ApprovedAs(h, d)
      BY <2>4, ApprovedEvent
    <3>3a. /\ status[d] = "absent" /\ job[h].request \in Requests
           /\ participants'[d] =
                  participants[d] \cup {Requester[job[h].request]}
           /\ \A c \in Events : c # d => participants'[c] = participants[c]
      BY <3>3 DEF ApprovedAs
    <3>4. CASE d # e
      BY <1>1, <1>3, <3>2, <3>3a, <3>4 DEF CountEventParticipants
    <3>5. CASE d = e
      <4>1. Inserting(e)' = {}
        BY <3>1, <3>3a, <3>5 DEF Inserting, KnownRows, At
      <4>2. participants'[e] = {Requester[job[h].request]}
        BY <3>3a, <3>5 DEF AbsentEventsEmpty
      <4>3. CountEventParticipants(e)' = 1
        BY <4>2, FS_Singleton DEF CountEventParticipants
      <4>4. Cardinality(Inserting(e)') = 0
        BY <4>1, FS_EmptySet
      <4> QED
        BY <1>1, <4>3, <4>4
    <3> QED
      BY <3>4, <3>5
  <2> QED
    BY <2>1, <2>2, <2>3, <2>4, Writers, InsertingNext
<1> QED
  BY <1>1, <1>2, <1>4 DEF GuildsLeft

-------------------------------------------------------------------------------
(* The rooms                                                               *)

\* Guilds that are ordered and sent to rooms in that order fill every room, and
\* none with more than four.
LEMMA OrderFillsRooms ==
    ASSUME RegistrationAssumption, NEW S \in SUBSET Guilds, S # {},
           NEW f \in Orders(S)
    PROVE  /\ Cardinality(S) \in Nat \ {0}
           /\ \A g \in S : roomOf(f[g], Cardinality(S)) \in Rooms(Cardinality(S))
           /\ \A r \in Rooms(Cardinality(S)) :
                 Cardinality({g \in S : roomOf(f[g], Cardinality(S)) = r}) \in 1..4
<1> DEFINE n == Cardinality(S)
<1>1. IsFiniteSet(S) /\ n \in Nat \ {0}
  BY FS_Subset, FS_CardinalityType, FS_EmptySet DEF RegistrationAssumption
<1>2. /\ f \in [S -> 0..(n - 1)]
      /\ \A g, k \in S : f[g] = f[k] => g = k
  BY DEF Orders
<1>3. \A g \in S : f[g] \in 0..(n - 1)
  BY <1>2
<1> HIDE DEF n
<1>4. \A i \in 0..(n - 1) :
         /\ guildsPerRoom(n) \in 1..4
         /\ roomOf(i, n) = (i \div guildsPerRoom(n)) + 1
         /\ roomOf(i, n) \in Rooms(n)
  BY <1>1, RoomOf
<1>5. \A i \in 0..(n - 1) : \E g \in S : f[g] = i
  <2>1. f \in Injection(S, 0..(n - 1))
    BY <1>2 DEF Injection, IsInjective
  <2>2. IsFiniteSet(0..(n - 1)) /\ Cardinality(0..(n - 1)) = n
    BY <1>1, FS_Interval
  <2>3. f \in Surjection(S, 0..(n - 1))
    BY <2>1, <2>2, FS_Injection DEF n
  <2> QED
    BY <2>3 DEF Surjection
<1>6. ASSUME NEW r \in Rooms(n)
      PROVE  Cardinality({g \in S : roomOf(f[g], n) = r}) \in 1..4
  <2> DEFINE R == {g \in S : roomOf(f[g], n) = r}
             G == guildsPerRoom(n)
             first == (r - 1) * G
             Places == first..(first + 3)
  <2>1. PICK i \in 0..(n - 1) : roomOf(i, n) = r
    BY <1>1, NoRoomEmpty DEF EveryRoomUsed
  <2>2. PICK g0 \in S : f[g0] = i
    BY <1>5
  <2>3. g0 \in R
    BY <2>1, <2>2
  <2>4. G \in 1..4 /\ r \in Int
    BY <1>4, <2>1 DEF Rooms
  <2> HIDE DEF G
  <2>5. first \in Int
    BY <2>4
  <2> HIDE DEF first
  <2>6. ASSUME NEW g \in R
        PROVE  f[g] \in Places
    <3>1. g \in S /\ roomOf(f[g], n) = r
      BY <2>6
    <3>2. f[g] \in 0..(n - 1) /\ (f[g] \div G) + 1 = r
      BY <1>3, <1>4, <3>1 DEF G
    <3>3. f[g] \in Nat /\ f[g] \div G = r - 1
      BY <2>4, <3>2
    <3>4. \A i1 \in Nat, d \in 1..4 :
             /\ d * (i1 \div d) <= i1
             /\ i1 <= d * (i1 \div d) + 3
             /\ i1 \div d \in Int
      <4>1. \A i1 \in Nat :
               /\ 1 * (i1 \div 1) <= i1 /\ i1 <= 1 * (i1 \div 1) + 3
               /\ 2 * (i1 \div 2) <= i1 /\ i1 <= 2 * (i1 \div 2) + 3
               /\ 3 * (i1 \div 3) <= i1 /\ i1 <= 3 * (i1 \div 3) + 3
               /\ 4 * (i1 \div 4) <= i1 /\ i1 <= 4 * (i1 \div 4) + 3
               /\ i1 \div 1 \in Int /\ i1 \div 2 \in Int
               /\ i1 \div 3 \in Int /\ i1 \div 4 \in Int
        OBVIOUS
      <4>2. 1..4 = {1, 2, 3, 4}
        OBVIOUS
      <4> QED
        BY <4>1, <4>2
    <3>5. G * (r - 1) <= f[g] /\ f[g] <= G * (r - 1) + 3
      BY <2>4, <3>3, <3>4
    <3>6. G * (r - 1) = first
      BY <2>4 DEF first
    <3> QED
      BY <2>5, <3>3, <3>5, <3>6
  <2>7. R \in SUBSET S /\ IsFiniteSet(R)
    BY <1>1, FS_Subset
  <2>8. Cardinality(R) <= 4
    <3> DEFINE fR == [g \in R |-> f[g]]
    <3>1. fR \in Injection(R, Places)
      BY <1>2, <2>6, <2>7 DEF Injection, IsInjective
    <3>2. IsFiniteSet(Places) /\ Cardinality(Places) = 4
      BY <2>5, FS_Interval
    <3> QED
      BY <3>1, <3>2, FS_Injection
  <2>9. Cardinality(R) \in Nat /\ Cardinality(R) # 0
    BY <2>3, <2>7, FS_CardinalityType, FS_EmptySet
  <2> QED
    BY <2>8, <2>9
<1> QED
  BY <1>1, <1>3, <1>4, <1>6 DEF n

\* An assignment gives the guilds it saw, and no others, a room of the event.
LEMMA AssignmentFillsRooms ==
    ASSUME RegistrationAssumption, TypeOK, RowsHeld, RoomsAreFilled, TypeOK',
           NEW h \in Handlers, ProcessEventAssignment(h),
           NEW e \in Events, e = job[h].event
    PROVE  /\ Assigned(e)' = job[h].seen
           /\ rooms'[e] = calculateRoomCount(Cardinality(job[h].seen))
           /\ \A r \in 1..rooms'[e] : Cardinality(InRoom(e, r)') \in 1..4
           /\ \A g \in job[h].seen : room'[e][g] \in 1..rooms'[e]
           /\ \A d \in Events : d # e => rooms'[d] = rooms[d] /\ room'[d] = room[d]
<1> DEFINE S == job[h].seen
           n == Cardinality(S)
<1>1. /\ e \in Events /\ S \in SUBSET Guilds /\ S # {} /\ status[e] = "pending"
  BY AssignedEvent
<1>2. AssignRooms(e, S)
  BY DEF ProcessEventAssignment
<1> HIDE DEF S
<1>3. rooms[e] = 0 /\ \A g \in Guilds : room[e][g] = 0
  BY <1>1 DEF RoomsAreFilled, Assigned
<1>4. PICK f \in Orders(S) :
         room' = [room EXCEPT ![e] =
                    [g \in Guilds |-> IF g \in S THEN rooms[e] + roomOf(f[g], n)
                                      ELSE room[e][g]]]
  BY <1>1, <1>2, AssignedRooms
<1>5. rooms' = [rooms EXCEPT ![e] = rooms[e] + calculateRoomCount(n)]
  BY <1>1, <1>2, AssignedRooms
<1>6. /\ n \in Nat \ {0}
      /\ \A g \in S : roomOf(f[g], n) \in Rooms(n)
      /\ \A r \in Rooms(n) : Cardinality({g \in S : roomOf(f[g], n) = r}) \in 1..4
  BY <1>1, OrderFillsRooms
<1> HIDE DEF n
<1>7. calculateRoomCount(n) \in Nat
  BY <1>6, RoomCountType
<1>8. rooms'[e] = calculateRoomCount(n)
  BY <1>1, <1>3, <1>5, <1>7 DEF TypeOK
<1>9. \A g \in S : roomOf(f[g], n) \in 1..rooms'[e]
  BY <1>6, <1>8 DEF Rooms
<1>10. \A g \in Guilds : room'[e][g] = IF g \in S THEN roomOf(f[g], n) ELSE 0
  <2>1. \A g \in Guilds :
           room'[e][g] = IF g \in S THEN rooms[e] + roomOf(f[g], n) ELSE room[e][g]
    BY <1>1, <1>4 DEF TypeOK
  <2>2. \A i \in Int : 0 + i = i
    OBVIOUS
  <2>3. \A g \in S : roomOf(f[g], n) \in Int
    BY <1>6 DEF Rooms
  <2> QED
    BY <1>3, <2>1, <2>2, <2>3
<1>11. Assigned(e)' = S
  <2>1. \A g \in S : roomOf(f[g], n) # 0
    BY <1>6 DEF Rooms
  <2> QED
    BY <1>1, <1>10, <2>1 DEF Assigned
<1>12. ASSUME NEW r \in 1..rooms'[e]
       PROVE  Cardinality(InRoom(e, r)') \in 1..4
  <2>1. r # 0 /\ r \in Rooms(n)
    BY <1>8 DEF Rooms
  <2>2. InRoom(e, r)' = {g \in S : roomOf(f[g], n) = r}
    BY <1>1, <1>10, <2>1 DEF InRoom
  <2> QED
    BY <1>6, <2>1, <2>2
<1>13. \A g \in S : room'[e][g] \in 1..rooms'[e]
  BY <1>1, <1>9, <1>10
<1>14. \A d \in Events : d # e => rooms'[d] = rooms[d] /\ room'[d] = room[d]
  BY <1>1, <1>4, <1>5 DEF TypeOK
<1> QED
  BY <1>8, <1>11, <1>12, <1>13, <1>14 DEF S, n

\* Rooms are made by assignments only, and of a pending event.
LEMMA RoomsAreFilledNext ==
    ASSUME RegistrationAssumption, TypeOK, RowsHeld, RoomsAreFilled,
           [Next]_vars, TypeOK'
    PROVE  RoomsAreFilled'
<1> SUFFICES ASSUME NEW e \in Events
             PROVE  IF status'[e] = "active"
                    THEN /\ Assigned(e)' \subseteq participants'[e]
                         /\ rooms'[e] =
                               calculateRoomCount(Cardinality(Assigned(e)'))
                         /\ \A r \in 1..rooms'[e] :
                               Cardinality(InRoom(e, r)') \in 1..4
                         /\ \A g \in Assigned(e)' : room'[e][g] <= rooms'[e]
                    ELSE rooms'[e] = 0 /\ Assigned(e)' = {}
  BY DEF RoomsAreFilled
<1>1. participants[e] \subseteq participants'[e]
  BY NothingTakenBack
<1>2. CASE /\ status'[e] = "active" <=> status[e] = "active"
           /\ rooms'[e] = rooms[e] /\ room'[e] = room[e]
  <2>1. Assigned(e)' = Assigned(e) /\ \A r : InRoom(e, r)' = InRoom(e, r)
    BY <1>2 DEF Assigned, InRoom
  <2> QED
    BY <1>1, <1>2, <2>1 DEF RoomsAreFilled
<1>3. ASSUME NEW h \in Handlers, ProcessEventAssignment(h), e = job[h].event
      PROVE  /\ status'[e] = "active"
             /\ Assigned(e)' \subseteq participants'[e]
             /\ rooms'[e] = calculateRoomCount(Cardinality(Assigned(e)'))
             /\ \A r \in 1..rooms'[e] : Cardinality(InRoom(e, r)') \in 1..4
             /\ \A g \in Assigned(e)' : room'[e][g] <= rooms'[e]
  <2>1. /\ Assigned(e)' = job[h].seen
        /\ rooms'[e] = calculateRoomCount(Cardinality(job[h].seen))
        /\ \A r \in 1..rooms'[e] : Cardinality(InRoom(e, r)') \in 1..4
        /\ \A g \in job[h].seen : room'[e][g] \in 1..rooms'[e]
    BY <1>3, AssignmentFillsRooms
  <2>2. job[h].seen \subseteq participants[e] /\ status'[e] = "active"
    BY <1>3, AssignedEvent
  <2> QED
    BY <1>1, <2>1, <2>2
<1>4. ASSUME NEW h \in Handlers, ProcessEventAssignment(h), e # job[h].event
      PROVE  status'[e] = status[e] /\ rooms'[e] = rooms[e] /\ room'[e] = room[e]
  <2>1. job[h].event \in Events /\ status'[e] = status[e]
    BY <1>4, AssignedEvent
  <2> QED
    BY <1>4, <2>1, AssignmentFillsRooms
<1>5. ASSUME NEW h \in Handlers, ApproveEventRequest(h)
      PROVE  /\ status'[e] = "active" <=> status[e] = "active"
             /\ rooms' = rooms /\ room' = room
  <2>1. rooms' = rooms /\ room' = room
    BY <1>5 DEF ApproveEventRequest
  <2> QED
    BY <1>5, <2>1, ApprovedEvent DEF ApprovedAs
<1> QED
  BY <1>2, <1>3, <1>4, <1>5, Writers

\* A guild that has a room of the event is shown it, and may join no other.
LEMMA RoomsAreJoinable ==
    ASSUME NEW e \in Events, NEW g \in Guilds, room[e][g] \in 1..rooms[e],
           g \in participants[e], rooms[e] \in Nat
    PROVE  /\ room[e][g] \in GetEventRooms(e)
           /\ \A u \in GetEventGuildMembers(e, g) :
                 /\ room[e][g] \in MyAssignedRooms(e, u)
                 /\ \A r \in GetEventRooms(e) :
                       MayJoin(e, r, g, u) <=> r = room[e][g]
<1>1. room[e][g] # 0
  OBVIOUS
<1> QED
  BY <1>1 DEF GetEventRooms, GetEventGuildMembers, MyAssignedRooms, MayJoin,
     ValidateGuildRoomAssignment, CheckIfUserSelectedForEvent

\* A guild that was on time is among those that have a room, and that is one of
\* the event.
LEMMA OnTimeRooms ==
    ASSUME TypeOK, RoomsAreFilled, OnTimeAssigned
    PROVE  OnTimeGuildsHaveRooms
<1>0. \A x, y \in Nat : x # 0 /\ x <= y => x \in 1..y
  OBVIOUS
<1>1. ASSUME NEW e \in GetEvents(""), NEW g \in onTime[e]
      PROVE  /\ room[e][g] \in GetEventRooms(e)
             /\ \A u \in GetEventGuildMembers(e, g) :
                   /\ room[e][g] \in MyAssignedRooms(e, u)
                   /\ \A r \in GetEventRooms(e) :
                         MayJoin(e, r, g, u) <=> r = room[e][g]
  <2>1. e \in Events /\ status[e] = "active"
    BY DEF GetEvents, EventsByStatus
  <2>2. g \in Assigned(e) /\ g \in participants[e] /\ room[e][g] <= rooms[e]
    BY <2>1 DEF OnTimeAssigned, RoomsAreFilled
  <2>3. g \in Guilds /\ room[e][g] # 0
    BY <2>2 DEF Assigned
  <2>4. rooms[e] \in Nat /\ room[e][g] \in Nat
    BY <2>1, <2>3 DEF TypeOK
  <2>5. room[e][g] \in 1..rooms[e]
    BY <1>0, <2>2, <2>3, <2>4
  <2> QED
    BY <2>1, <2>2, <2>3, <2>4, <2>5, RoomsAreJoinable
<1> QED
  BY <1>1 DEF OnTimeGuildsHaveRooms

\* The guilds read after the compare-and-swap include all that were there.
LEMMA OnTimeAssignedNext ==
    ASSUME RegistrationAssumption, TypeOK, RowsHeld, RoomsAreFilled,
           OnTimeAssigned, [Next]_vars, TypeOK'
    PROVE  OnTimeAssigned'
<1> SUFFICES ASSUME NEW e \in Events, status'[e] = "active"
             PROVE  onTime'[e] \subseteq Assigned(e)'
  BY DEF OnTimeAssigned
<1>1. ASSUME NEW h \in Handlers, ProcessEventAssignment(h)
      PROVE  onTime'[e] \subseteq Assigned(e)'
  <2>1. onTime' = onTime
    BY <1>1 DEF ProcessEventAssignment
  <2>2. CASE e = job[h].event
    BY <1>1, <2>1, <2>2, AssignmentFillsRooms, AssignedEvent
  <2>3. CASE e # job[h].event
    <3>1. job[h].event \in Events /\ status'[e] = status[e]
      BY <1>1, <2>3, AssignedEvent
    <3>2. room'[e] = room[e]
      BY <1>1, <2>3, <3>1, AssignmentFillsRooms
    <3> QED
      BY <2>1, <3>1, <3>2 DEF OnTimeAssigned, Assigned
  <2> QED
    BY <2>2, <2>3
<1>2. ASSUME NEW h \in Handlers, NEW d \in Events, UpdateEventStatusToActive(h, d)
      PROVE  onTime'[e] \subseteq Assigned(e)'
  <2>1. /\ status' = status /\ room' = room /\ status[d] = "pending"
        /\ onTime' = [onTime EXCEPT ![d] = participants[d]]
    BY <1>2 DEF UpdateEventStatusToActive, FindsPending
  <2>2. onTime'[e] = onTime[e]
    BY <2>1 DEF TypeOK
  <2> QED
    BY <2>1, <2>2 DEF OnTimeAssigned, Assigned
<1>3. CASE /\ onTime' = onTime /\ rooms' = rooms /\ room' = room
           /\ status[e] = "active"
  BY <1>3 DEF OnTimeAssigned, Assigned
<1>4. ASSUME NEW h \in Handlers, ApproveEventRequest(h)
      PROVE  status[e] = "active" /\ onTime' = onTime
  <2>1. onTime' = onTime
    BY <1>4 DEF ApproveEventRequest
  <2> QED
    BY <1>4, <2>1, ApprovedEvent DEF ApprovedAs
<1> QED
  BY <1>1, <1>2, <1>3, <1>4, Writers

-------------------------------------------------------------------------------
(* The theorems                                                            *)

\* The invariant, at the start.
LEMMA InvariantInit == ASSUME RegistrationAssumption, Init PROVE IInv
<1>1. TypeOK
  BY TypeInit
<1>2. \A h \in Handlers : job[h] = Idle
  BY DEF Init
<1>3. JobsKnowEvents
  BY <1>2 DEF JobsKnowEvents, At, Idle, Assigning
<1>4. AbsentEventsEmpty
  BY DEF AbsentEventsEmpty, Init
<1>5. \A e \in Events : status[e] = "absent" /\ participants[e] = {}
  BY DEF Init
<1>6. \A q : EventsOf(q) = {}
  BY <1>5 DEF EventsOf
<1>7. UndecidedHaveNoEvent
  BY <1>6 DEF UndecidedHaveNoEvent, Init
<1>8. EventsPerRequest
  <2>1. \A q \in Requests : Deciding(q) = {}
    BY <1>2 DEF Deciding, At, Idle
  <2>2. Cardinality({}) = 0
    BY FS_EmptySet
  <2> QED
    BY <1>1, <1>6, <2>1, <2>2, Counts DEF EventsPerRequest
<1>9. GuildsWithinCapacityAndOverlap
  <2>1. \A e \in Events : Inserting(e) = {}
    BY <1>2 DEF Inserting, At, Idle
  <2>2. Cardinality({}) = 0
    BY FS_EmptySet
  <2>3. Cardinality(Handlers) \in Nat \ {0} /\ MaxGuilds \in Nat \ {0}
    BY <1>1, Counts DEF RegistrationAssumption
  <2>4. \A e \in Events : /\ CountEventParticipants(e) = 0
                           /\ Cardinality(Inserting(e)) = 0
                           /\ GuildsLeft(e) = MaxGuilds
    <3>1. \A e \in Events : CountEventParticipants(e) = 0
      BY <1>5, <2>2 DEF CountEventParticipants
    <3>2. MaxGuilds - 0 = MaxGuilds /\ 0 < MaxGuilds
      BY <2>3
    <3> QED
      BY <2>1, <2>2, <3>1, <3>2 DEF GuildsLeft
  <2>5. /\ 0 + 0 <= MaxGuilds + Cardinality(Handlers) - 1
        /\ 0 <= MaxGuilds + Cardinality(Handlers) - 1
    BY <2>3
  <2> QED
    BY <2>4, <2>5 DEF GuildsWithinCapacityAndOverlap
<1>10. RequesterTakesPart
  BY <1>5 DEF RequesterTakesPart, Init, GetEventRequests, RequestExists,
     MyApprovedEvents, RequestsByGuild
<1>11. MembersTakePart
  BY DEF MembersTakePart, Init
<1>12. OnTimeAssigned
  BY <1>5 DEF OnTimeAssigned
<1>13. RoomsAreFilled
  BY <1>5 DEF RoomsAreFilled, Assigned, Init
<1> QED
  BY <1>1, <1>3, <1>4, <1>7, <1>8, <1>9, <1>10, <1>11, <1>12, <1>13 DEF IInv

\* Every step, of any handler, preserves the invariant.
LEMMA InvariantNext ==
    ASSUME RegistrationAssumption, IInv, [Next]_vars
    PROVE  IInv'
<1>1. /\ TypeOK /\ KnownRows /\ RowsHeld /\ AbsentEventsEmpty
      /\ GuildsWithinCapacityAndOverlap /\ UndecidedHaveNoEvent
      /\ EventsPerRequest /\ RequesterTakesPart /\ MembersTakePart
      /\ OnTimeAssigned /\ RoomsAreFilled
  BY JobsSplit DEF IInv
<1>2. TypeOK'
  BY <1>1, TypeNext
<1>3. KnownRows' /\ RowsHeld'
  BY <1>1, <1>2, KnownRowsNext, RowsHeldNext
<1>4. JobsKnowEvents'
  BY <1>3 DEF JobsKnowEvents, KnownRows, RowsHeld
<1>5. AbsentEventsEmpty' /\ GuildsWithinCapacityAndOverlap' /\ MembersTakePart'
  BY <1>1, <1>2, AbsentEventsEmptyNext, GuildsWithinCapacityAndOverlapNext,
     MembersTakePartNext
<1>6. UndecidedHaveNoEvent'
  BY <1>1, <1>2, UndecidedHaveNoEventNext
<1>7. EventsPerRequest' /\ RequesterTakesPart'
  BY <1>1, <1>2, <1>6, EventsPerRequestNext, RequesterTakesPartNext
<1>8. RoomsAreFilled'
  BY <1>1, <1>2, RoomsAreFilledNext
<1>9. OnTimeAssigned'
  BY <1>1, <1>2, OnTimeAssignedNext
<1> QED
  BY <1>2, <1>4, <1>5, <1>6, <1>7, <1>8, <1>9 DEF IInv

\* The state of registrations is always of the types its tables and handlers
\* have.
THEOREM TypeCorrect == ASSUME RegistrationAssumption PROVE Spec => []TypeOK
<1>1. Init => TypeOK
  BY TypeInit
<1>2. TypeOK /\ [Next]_vars => TypeOK'
  BY TypeNext
<1> QED
  BY <1>1, <1>2, PTL DEF Spec

\* The inductive invariant holds in every reachable state, for any number of
\* guilds, players, requests, events and handlers at once.
THEOREM Invariant == ASSUME RegistrationAssumption PROVE Spec => []IInv
<1>1. Init => IInv
  BY InvariantInit
<1>2. IInv /\ [Next]_vars => IInv'
  BY InvariantNext
<1> QED
  BY <1>1, <1>2, PTL DEF Spec

\* RegisterGuildToEventHandler: its transaction keeps the guilds of an event
\* and those about to be inserted within max_guilds, but for as many as there
\* are other registrations open at once.
THEOREM CapacityExceededByOverlapOnly ==
    ASSUME RegistrationAssumption
    PROVE  Spec => []GuildsWithinCapacityAndOverlap
<1>1. IInv => GuildsWithinCapacityAndOverlap
  BY DEF IInv
<1> QED
  BY <1>1, Invariant, PTL

\* Registrations that are served one after the other never exceed max_guilds:
\* the comment "Use transaction to prevent race condition on capacity check"
\* is true of one handler, and of no more.
THEOREM OneHandlerKeepsCapacity ==
    ASSUME RegistrationAssumption, Cardinality(Handlers) = 1
    PROVE  Spec => []GuildsWithinCapacity
<1>1. ASSUME IInv
      PROVE  GuildsWithinCapacity
  <2>1. SUFFICES ASSUME NEW e \in Events
                 PROVE  Cardinality(participants[e]) <= MaxGuilds
    BY DEF GuildsWithinCapacity
  <2>2. TypeOK /\ Inserting(e) \in SUBSET Handlers
    BY <1>1 DEF IInv, Inserting
  <2>3. /\ Cardinality(participants[e]) \in Nat
        /\ Cardinality(Inserting(e)) \in Nat
        /\ MaxGuilds \in Nat
    BY <2>2, Counts DEF RegistrationAssumption
  <2>4. Cardinality(participants[e]) + Cardinality(Inserting(e))
           <= MaxGuilds + 1 - 1
    BY <1>1 DEF IInv, GuildsWithinCapacityAndOverlap, CountEventParticipants
  <2> QED
    BY <2>3, <2>4
<1> QED
  BY <1>1, Invariant, PTL

\* ProcessEventRequestHandler: administrators at work at once may create an
\* event each for a request, and nobody after them.
THEOREM RequestsBecomeFewEvents ==
    ASSUME RegistrationAssumption PROVE Spec => []EventsPerRequest
<1>1. IInv => EventsPerRequest
  BY DEF IInv
<1> QED
  BY <1>1, Invariant, PTL

\* approveEventRequest: whatever administrators decide at once, every event has
\* the guild that asked for it, which sees it as its own.
THEOREM EventsHaveRequester ==
    ASSUME RegistrationAssumption PROVE Spec => []RequesterTakesPart
<1>1. IInv => RequesterTakesPart
  BY DEF IInv
<1> QED
  BY <1>1, Invariant, PTL

\* SelectGuildMembersHandler: members belong to the guild they play for, and
\* that guild is registered.
THEOREM MembersOfParticipants ==
    ASSUME RegistrationAssumption PROVE Spec => []MembersTakePart
<1>1. IInv => MembersTakePart
  BY DEF IInv
<1> QED
  BY <1>1, Invariant, PTL

\* ProcessEventAssignment: the rooms of an active event come from one
\* assignment; none is empty and none holds more than four guilds.
THEOREM AssignedOnce ==
    ASSUME RegistrationAssumption PROVE Spec => []RoomsAreFilled
<1>1. IInv => RoomsAreFilled
  BY DEF IInv
<1> QED
  BY <1>1, Invariant, PTL

\* ProcessEventAssignment, JoinRoomHandler: a guild that registered before the
\* event was assigned has a room of it; its members are sent to that room and
\* let into no other.
THEOREM NoGuildLeftOut ==
    ASSUME RegistrationAssumption PROVE Spec => []OnTimeGuildsHaveRooms
<1>1. IInv => OnTimeGuildsHaveRooms
  BY OnTimeRooms DEF IInv
<1> QED
  BY <1>1, Invariant, PTL

\* Whoever does not assign an event leaves what EventOutcome sees alone.
LEMMA OutcomeStutter ==
    ASSUME RegistrationAssumption, IInv, [Next]_vars,
           ~ \E h \in Handlers : ProcessEventAssignment(h)
    PROVE  UNCHANGED Outcome!outcomeVars
<1>1. rooms' = rooms
  BY Writers
<1>2. \A e \in Events : status'[e] = "active" <=> status[e] = "active"
  <2>1. CASE status' = status
    BY <2>1
  <2>2. ASSUME NEW h \in Handlers, ApproveEventRequest(h)
        PROVE  \A e \in Events : status'[e] = "active" <=> status[e] = "active"
    BY <2>2, ApprovedEvent DEF IInv, ApprovedAs
  <2> QED
    BY <2>1, <2>2, Writers
<1>3. [e \in Events |-> IF status'[e] = "active" THEN "active" ELSE "pending"] =
      [e \in Events |-> IF status[e] = "active" THEN "active" ELSE "pending"]
  BY <1>2
<1> QED
  BY <1>1, <1>3 DEF Outcome!outcomeVars

\* The assignment is the activation of EventOutcome: with rooms.
LEMMA OutcomeActivate ==
    ASSUME RegistrationAssumption, IInv, [Next]_vars, TypeOK',
           NEW h \in Handlers, ProcessEventAssignment(h)
    PROVE  Outcome!OutcomeNext
<1>1. PICK e \in Events : e = job[h].event
  BY AssignedEvent, JobsSplit DEF IInv
<1>2. /\ TypeOK /\ RowsHeld /\ RoomsAreFilled
  BY JobsSplit DEF IInv
<1>3. /\ status[e] = "pending" /\ job[h].seen \in SUBSET Guilds /\ job[h].seen # {}
      /\ \A d \in Events : status'[d] = IF d = e THEN "active" ELSE status[d]
  BY <1>1, <1>2, AssignedEvent
<1>4. /\ rooms'[e] = calculateRoomCount(Cardinality(job[h].seen))
      /\ \A d \in Events : d # e => rooms'[d] = rooms[d]
  BY <1>1, <1>2, AssignmentFillsRooms
<1>5. rooms'[e] > 0
  <2>1. Cardinality(job[h].seen) \in Nat \ {0}
    BY <1>3, FS_Subset, FS_CardinalityType, FS_EmptySet DEF RegistrationAssumption
  <2>2. calculateRoomCount(Cardinality(job[h].seen)) \in Nat \ {0}
    BY <2>1, RoomCountType
  <2> QED
    BY <1>4, <2>2
<1>6. {d \in Events : rooms'[d] > 0} = {d \in Events : rooms[d] > 0} \cup {e}
  BY <1>4, <1>5
<1>7. [d \in Events |-> IF status'[d] = "active" THEN "active" ELSE "pending"] =
      [[d \in Events |-> IF status[d] = "active" THEN "active" ELSE "pending"]
         EXCEPT ![e] = "active"]
  BY <1>3
<1>8. [d \in Events |-> IF status[d] = "active" THEN "active" ELSE "pending"][e]
         = "pending"
  BY <1>3
<1>9. Outcome!Activate(e)
  BY <1>6, <1>7, <1>8 DEF Outcome!Activate
<1> QED
  BY <1>9 DEF Outcome!OutcomeNext

\* Registration implements the first half of EventOutcome: an event starts
\* once, and with its rooms, whichever handlers compete for it.
THEOREM Refinement == ASSUME RegistrationAssumption PROVE Spec => ImplementsStart
<1>1. Init => Outcome!OutcomeInit
  <2> SUFFICES ASSUME Init
               PROVE  Outcome!OutcomeInit
    OBVIOUS
  <2>1. [e \in Events |-> IF status[e] = "active" THEN "active" ELSE "pending"] =
        [e \in Events |-> "pending"]
    BY DEF Init
  <2>2. {e \in Events : rooms[e] > 0} = {}
    BY DEF Init
  <2> QED
    BY <2>1, <2>2 DEF Outcome!OutcomeInit
<1>2. IInv /\ [Next]_vars => [Outcome!OutcomeNext]_(Outcome!outcomeVars)
  <2> SUFFICES ASSUME IInv, [Next]_vars
               PROVE  [Outcome!OutcomeNext]_(Outcome!outcomeVars)
    OBVIOUS
  <2>1. TypeOK'
    BY TypeNext DEF IInv
  <2> QED
    BY <2>1, OutcomeActivate, OutcomeStutter
<1> QED
  BY <1>1, <1>2, Invariant, PTL DEF Spec, ImplementsStart, Outcome!OutcomeSpec
===============================================================================
