----------------------------- MODULE Registration -----------------------------
(***************************************************************************)
(* How an event comes to have its guilds, members and rooms: guilds ask for*)
(* events, administrators approve or decline, guilds register and choose   *)
(* members, and the cron request assigns the guilds to rooms.              *)
(*                                                                         *)
(* Each of these requests is served by a handler, any number of them at    *)
(* once on any instance.  A handler reads, decides, and writes in one      *)
(* transaction; READ COMMITTED makes each of its statements see what was   *)
(* committed when that statement ran, so a step is one statement whose     *)
(* result the handler keeps, or the commit of all it wrote.                *)
(***************************************************************************)
EXTENDS RoomAssignment, FiniteSets

CONSTANTS
    Guilds,      \* the guilds
    Users,       \* the players
    Roster,      \* the members of each guild (the user service)
    Requests,    \* the requests for events
    Requester,   \* the guild that makes a request
    Events,      \* bound: the events that can be created
    Handlers,    \* bound: the requests that are served at once
    MaxGuilds,   \* max_guilds of every event (3 to 100 in the code)
    MaxPlayers,  \* max_players_per_guild of every event (1 to 10)
    None         \* no event

ASSUME RegistrationAssumption ==
    /\ Roster \in [Guilds -> SUBSET Users]
    /\ Requester \in [Requests -> Guilds]
    /\ IsFiniteSet(Handlers) /\ Handlers # {}
    /\ IsFiniteSet(Guilds)
    /\ IsFiniteSet(Events)
    /\ MaxGuilds \in Nat \ {0}
    /\ MaxPlayers \in Nat \ {0}
    /\ None \notin Events

VARIABLES
    request,       \* event_requests.status
    approvedEvent, \* event_requests.approved_event_id
    status,        \* events.status
    origin,        \* events.original_request_id
    participants,  \* event_guild_participants
    rooms,         \* how many rooms the event has
    room,          \* event_guild_participants.room_id, 0 for NULL
    members,       \* event_guild_members
    job,           \* what each handler does and what it has read
    onTime         \* history: the guilds of an event when its last
                   \* assignment began

requestVars == <<request, approvedEvent>>
eventVars == <<status, origin, rooms, room, onTime>>
vars == <<requestVars, eventVars, participants, members, job>>

Idle == [at |-> "idle"]

Jobs ==
    {Idle}
    \cup [at : {"decide"}, request : Requests]
    \cup [at : {"count", "insert"}, event : Events, guild : Guilds]
    \cup [at : {"participants"}, event : Events]
    \cup [at : {"assign"}, event : Events, seen : SUBSET Guilds]
    \cup [at : {"select", "remove"}, event : Events, guild : Guilds,
          users : SUBSET Users]

Init ==
    /\ request = [q \in Requests |-> "absent"]
    /\ approvedEvent = [q \in Requests |-> None]
    /\ status = [e \in Events |-> "absent"]
    /\ origin = [e \in Events |-> None]
    /\ participants = [e \in Events |-> {}]
    /\ rooms = [e \in Events |-> 0]
    /\ room = [e \in Events |-> [g \in Guilds |-> 0]]
    /\ members = [e \in Events |-> [g \in Guilds |-> {}]]
    /\ job = [h \in Handlers |-> Idle]
    /\ onTime = [e \in Events |-> {}]

Goto(h, j) == job' = [job EXCEPT ![h] = j]
Done(h) == Goto(h, Idle)
At(h, s) == job[h].at = s

\* A statement fails, the connection is lost or the instance dies: whatever
\* the handler wrote in its transaction is rolled back.
Abandon(h) ==
    /\ ~ At(h, "idle")
    /\ Done(h)
    /\ UNCHANGED <<requestVars, eventVars, participants, members>>

-------------------------------------------------------------------------------
(* Requests for events                                                     *)

\* INSERT INTO event_requests: the default of status is 'pending'.
StoreRequest(q) == request' = [request EXCEPT ![q] = "pending"]

\* CreateEventHandler: a valid request is stored and waits for an administrator.
CreateEventRequest(q) ==
    /\ request[q] = "absent"
    /\ StoreRequest(q)
    /\ UNCHANGED <<approvedEvent, eventVars, participants, members, job>>

\* Mutant: whoever asks gets the request, processed or not.
AnyRequest(q) == request[q] # "absent"

RequestExists(q) == request[q] # "absent"

\* "request has already been processed" is refused.
Undecided(q) == RequestExists(q) /\ request[q] = "pending"

\* The request is read before, and outside, the transaction that decides it.
GetEventRequestByID(h, q) ==
    /\ At(h, "idle")
    /\ Undecided(q)
    /\ Goto(h, [at |-> "decide", request |-> q])
    /\ UNCHANGED <<requestVars, eventVars, participants, members>>

\* Mutant: without a new event the one the request has is kept.
KeepsEvent(q, s, e) ==
    /\ request' = [request EXCEPT ![q] = s]
    /\ approvedEvent' = [approvedEvent EXCEPT ![q] = IF e = None THEN @ ELSE e]

\* UPDATE event_requests ... WHERE id = q, whatever its status is by now.
UpdateEventRequestStatus(q, s, e) ==
    /\ request' = [request EXCEPT ![q] = s]
    /\ approvedEvent' = [approvedEvent EXCEPT ![q] = e]

\* INSERT INTO events.
CreateEvent(e, q) ==
    /\ status' = [status EXCEPT ![e] = "pending"]
    /\ origin' = [origin EXCEPT ![e] = q]

\* Mutant: the row of the guild is forgotten.
NotAdded(e, g) == UNCHANGED participants

\* INSERT INTO event_guild_participants: the primary key refuses a guild that
\* is there already.
AddParticipant(e, g) ==
    participants' = [participants EXCEPT ![e] = @ \cup {g}]

\* One transaction: the event, the guild that asked for it, and the request.
ApproveEventRequest(h) ==
    /\ At(h, "decide")
    /\ \E e \in Events :
          /\ status[e] = "absent"
          /\ CreateEvent(e, job[h].request)
          /\ AddParticipant(e, Requester[job[h].request])
          /\ UpdateEventRequestStatus(job[h].request, "approved", e)
    /\ Done(h)
    /\ UNCHANGED <<rooms, room, onTime, members>>

DeclineEventRequest(h) ==
    /\ At(h, "decide")
    /\ UpdateEventRequestStatus(job[h].request, "rejected", None)
    /\ Done(h)
    /\ UNCHANGED <<eventVars, participants, members>>

-------------------------------------------------------------------------------
(* Guilds register and choose their members                                *)

\* GetEventByID finds the event, and finds it pending.
Pending(e) == status[e] = "pending"

\* The transaction of a registration starts and sees the event pending.
RegisterGuildToEvent(h, e, g) ==
    /\ At(h, "idle")
    /\ Pending(e)
    /\ Goto(h, [at |-> "count", event |-> e, guild |-> g])
    /\ UNCHANGED <<requestVars, eventVars, participants, members>>

\* Mutant: the comparison with max_guilds is off by one.
HasRoomForOneMore(e) == Cardinality(participants[e]) <= MaxGuilds

CountEventParticipants(e) == Cardinality(participants[e])

\* "event is full" is refused.
BelowCapacity(e) == CountEventParticipants(e) < MaxGuilds

CheckCapacity(h) ==
    /\ At(h, "count")
    /\ \/ /\ BelowCapacity(job[h].event)
          /\ Goto(h, [job[h] EXCEPT !.at = "insert"])
       \/ /\ ~ BelowCapacity(job[h].event)
          /\ Done(h)
    /\ UNCHANGED <<requestVars, eventVars, participants, members>>

\* The insertion and the commit.
CreateEventGuildParticipant(h) ==
    /\ At(h, "insert")
    /\ AddParticipant(job[h].event, job[h].guild)
    /\ Done(h)
    /\ UNCHANGED <<requestVars, eventVars, members>>

\* A guild master chooses members of the guild: no more in one request than
\* may play, while the event is pending.
SelectGuildMembers(h, e, g, U) ==
    /\ At(h, "idle")
    /\ U \subseteq Roster[g]
    /\ Pending(e)
    /\ Cardinality(U) <= MaxPlayers
    /\ Goto(h, [at |-> "select", event |-> e, guild |-> g, users |-> U])
    /\ UNCHANGED <<requestVars, eventVars, participants, members>>

\* GetEventGuildParticipant finds the guild of the handler.
TakesPart(j) == j.guild \in participants[j.event]

\* INSERT ... ON CONFLICT DO NOTHING, for each of them.
AddGuildMembers(e, g, U) == members' = [members EXCEPT ![e][g] = @ \cup U]

\* DELETE FROM event_guild_members, for each of them.
RemoveMembers(e, g, U) == members' = [members EXCEPT ![e][g] = @ \ U]

\* The check that the guild is registered, which stays true once it is, and
\* the transaction that adds those who are not chosen yet.
AddGuildMembersToEvent(h) ==
    LET j == job[h] IN
    /\ At(h, "select")
    /\ \/ /\ TakesPart(j)
          /\ AddGuildMembers(j.event, j.guild, j.users)
       \/ /\ ~ TakesPart(j)
          /\ UNCHANGED members
    /\ Done(h)
    /\ UNCHANGED <<requestVars, eventVars, participants>>

\* A guild master takes members back, while the event is pending.
RemoveGuildMembers(h, e, g, U) ==
    /\ At(h, "idle")
    /\ Pending(e)
    /\ Goto(h, [at |-> "remove", event |-> e, guild |-> g, users |-> U])
    /\ UNCHANGED <<requestVars, eventVars, participants, members>>

RemoveGuildMembersFromEvent(h) ==
    LET j == job[h] IN
    /\ At(h, "remove")
    /\ \/ /\ TakesPart(j)
          /\ RemoveMembers(j.event, j.guild, j.users)
       \/ /\ ~ TakesPart(j)
          /\ UNCHANGED members
    /\ Done(h)
    /\ UNCHANGED <<requestVars, eventVars, participants>>

-------------------------------------------------------------------------------
(* The assignment of the guilds to rooms                                   *)

Assigning(h, e) ==
    (At(h, "participants") \/ At(h, "assign")) /\ job[h].event = e

\* Mutant: the status is read, not compared and swapped under the row lock.
ReadsPending(e) == status[e] = "pending"

\* UPDATE events SET status = 'active' WHERE id = e AND status = 'pending'
\* finds the row, which no other open transaction has updated.
FindsPending(e) ==
    /\ status[e] = "pending"
    /\ \A h \in Handlers : ~ Assigning(h, e)

\* The cron request begins to process an event.
UpdateEventStatusToActive(h, e) ==
    /\ At(h, "idle")
    /\ FindsPending(e)
    /\ onTime' = [onTime EXCEPT ![e] = participants[e]]
    /\ Goto(h, [at |-> "participants", event |-> e])
    /\ UNCHANGED <<requestVars, status, origin, rooms, room, participants,
                   members>>

\* Mutant: the list of the guilds is one short.
ButOne(e) == participants[e] \ {CHOOSE g \in participants[e] : TRUE}

\* The guilds that have committed their registration by now.
Registered(e) == participants[e]

GetEventParticipants(h) ==
    /\ At(h, "participants")
    /\ Goto(h, [at |-> "assign", event |-> job[h].event,
                seen |-> Registered(job[h].event)])
    /\ UNCHANGED <<requestVars, eventVars, participants, members>>

\* The places of guilds in the order of joined_at.  It is the time at which
\* their transactions began: any order is possible.
Orders(S) ==
    {f \in [S -> 0..(Cardinality(S) - 1)] :
        \A g, k \in S : f[g] = f[k] => g = k}

\* n times INSERT INTO rooms.
CreateRooms(e, n) == rooms' = [rooms EXCEPT ![e] = @ + n]

\* UPDATE event_guild_participants SET room_id = ..., for each guild in the
\* order f: they go to the rooms made by this transaction.
AssignGuildToRoom(e, S, f) ==
    room' = [room EXCEPT ![e] =
               [g \in Guilds |-> IF g \in S
                                 THEN rooms[e] + roomOf(f[g], Cardinality(S))
                                 ELSE room[e][g]]]

\* New rooms for these guilds; an event without guilds gets none.
AssignRooms(e, S) ==
    IF S = {} THEN UNCHANGED <<rooms, room>>
    ELSE /\ CreateRooms(e, calculateRoomCount(Cardinality(S)))
         /\ \E f \in Orders(S) : AssignGuildToRoom(e, S, f)

ProcessEventAssignment(h) ==
    LET e == job[h].event IN
    /\ At(h, "assign")
    /\ AssignRooms(e, job[h].seen)
    /\ status' = [status EXCEPT ![e] = "active"]
    /\ Done(h)
    /\ UNCHANGED <<requestVars, origin, onTime, participants, members>>

-------------------------------------------------------------------------------
(* What the reading handlers answer; pages together make the lists         *)

\* GetEventsByStatus
EventsByStatus(s) == {e \in Events : status[e] = s}

\* GetEventsHandler: without a filter, the active events.
GetEvents(filter) == EventsByStatus(IF filter = "" THEN "active" ELSE filter)

\* GetEventDetailsHandler: how many more guilds may register.
GuildsLeft(e) ==
    IF CountEventParticipants(e) < MaxGuilds
    THEN MaxGuilds - CountEventParticipants(e)
    ELSE 0

\* GetEventRequesterIDByEventID joins the event with the request it was made
\* from; without one GetEventDetailsHandler does not find the event.
RequesterOf(e) == {Requester[q] : q \in {r \in Requests : origin[e] = r}}

\* ListEventRequestsByStatus
RequestsByStatus(s) == {q \in Requests : request[q] = s}

\* GetEventRequestsHandler: without a filter, every request.
GetEventRequests(filter) ==
    IF filter = "" THEN {q \in Requests : RequestExists(q)}
    ELSE RequestsByStatus(filter)

\* ListEventRequestsByGuild
RequestsByGuild(g) == {q \in Requests : RequestExists(q) /\ Requester[q] = g}

\* toEventRequestResponse: the event a request was approved as, if any.
ShownEvent(q) == {approvedEvent[q]} \ {None}

\* GetMyEventRequestsHandler: the events a guild sees its requests became.
MyApprovedEvents(g) == UNION {ShownEvent(q) : q \in RequestsByGuild(g)}

\* GetEventGuildMembersHandler, asked by the guild master of g.
GetEventGuildMembers(e, g) == members[e][g]

\* GetEventRoomsHandler
GetEventRooms(e) == 1..rooms[e]

\* GetMyAssignedRoomHandler answers with one of these: the rooms of the guilds
\* that selected u.
MyAssignedRooms(e, u) ==
    {room[e][g] : g \in {k \in participants[e] : u \in members[e][k]}} \ {0}

ValidateGuildRoomAssignment(e, g, r) == g \in participants[e] /\ room[e][g] = r

CheckIfUserSelectedForEvent(e, g, u) == u \in members[e][g]

\* JoinRoomHandler lets u of guild g into room r.
MayJoin(e, r, g, u) ==
    /\ ValidateGuildRoomAssignment(e, g, r)
    /\ CheckIfUserSelectedForEvent(e, g, u)

-------------------------------------------------------------------------------
HandlerStep(h) ==
    \/ ApproveEventRequest(h)
    \/ DeclineEventRequest(h)
    \/ CheckCapacity(h)
    \/ CreateEventGuildParticipant(h)
    \/ AddGuildMembersToEvent(h)
    \/ RemoveGuildMembersFromEvent(h)
    \/ GetEventParticipants(h)
    \/ ProcessEventAssignment(h)
    \/ Abandon(h)

HandlerStart(h) ==
    \/ \E q \in Requests : GetEventRequestByID(h, q)
    \/ \E e \in Events :
          \/ UpdateEventStatusToActive(h, e)
          \/ \E g \in Guilds :
                \/ RegisterGuildToEvent(h, e, g)
                \/ \E U \in (SUBSET Roster[g]) \ {{}} :
                      \/ SelectGuildMembers(h, e, g, U)
                      \/ RemoveGuildMembers(h, e, g, U)

Next ==
    \/ \E q \in Requests : CreateEventRequest(q)
    \/ \E h \in Handlers : HandlerStart(h) \/ HandlerStep(h)

Spec == Init /\ [][Next]_vars

-------------------------------------------------------------------------------
(* Properties                                                              *)

TypeOK ==
    /\ request \in [Requests -> {"absent", "pending", "approved", "rejected"}]
    /\ approvedEvent \in [Requests -> Events \cup {None}]
    /\ status \in [Events -> {"absent", "pending", "active"}]
    /\ origin \in [Events -> Requests \cup {None}]
    /\ participants \in [Events -> SUBSET Guilds]
    /\ rooms \in [Events -> Nat]
    /\ room \in [Events -> [Guilds -> Nat]]
    /\ members \in [Events -> [Guilds -> SUBSET Users]]
    /\ job \in [Handlers -> Jobs]
    /\ onTime \in [Events -> SUBSET Guilds]

\* RegisterGuildToEventHandler: "Use transaction to prevent race condition on
\* capacity check".
GuildsWithinCapacity ==
    \A e \in Events : Cardinality(participants[e]) <= MaxGuilds

Inserting(e) == {h \in Handlers : At(h, "insert") /\ job[h].event = e}

\* What the transaction of a registration does guarantee: the guilds of an
\* event and those about to be inserted are as many too many as there are
\* other registrations open at the same time, no more; so the places that
\* GetEventDetailsHandler still offers are promised to that many at most.
GuildsWithinCapacityAndOverlap ==
    \A e \in Events :
        /\ CountEventParticipants(e) + Cardinality(Inserting(e))
              <= MaxGuilds + Cardinality(Handlers) - 1
        /\ CountEventParticipants(e) <= MaxGuilds =>
              Cardinality(Inserting(e))
                  <= GuildsLeft(e) + Cardinality(Handlers) - 1

EventsOf(q) == {e \in Events : status[e] # "absent" /\ origin[e] = q}

Deciding(q) == {h \in Handlers : At(h, "decide") /\ job[h].request = q}

\* Administrators who saw the same request pending may each create an event,
\* and nobody after them (ProcessEventRequestHandler: "request has already
\* been processed"): the events of a request and those who may still add one
\* are never more than the handlers that run at once.  A request that the list
\* shows as pending has none.
EventsPerRequest ==
    /\ \A q \in Requests :
          Cardinality(EventsOf(q)) + Cardinality(Deciding(q))
              <= Cardinality(Handlers)
    /\ \A q \in GetEventRequests("pending") : EventsOf(q) = {}

\* Every event has a requester (GetEventDetailsHandler would not find it
\* otherwise), who takes part in it, and the events a guild sees its requests
\* became are such events, whoever decided before or after
\* (approveEventRequest: "Use a transaction to ensure atomicity").
RequesterTakesPart ==
    /\ \A e \in Events : status[e] # "absent" =>
          RequesterOf(e) # {} /\ RequesterOf(e) \subseteq participants[e]
    /\ \A q \in GetEventRequests("") :
          request[q] = "approved" <=> ShownEvent(q) # {}
    /\ \A g \in Guilds : \A e \in MyApprovedEvents(g) :
          status[e] # "absent" /\ RequesterOf(e) = {g}

\* Members are chosen for registered guilds only, although the choice begins
\* with an event read earlier (SelectGuildMembersHandler: "Verify guild is
\* registered for this event").
MembersTakePart ==
    \A e \in Events, g \in Guilds :
        /\ members[e][g] \subseteq Roster[g]
        /\ members[e][g] # {} => g \in participants[e]

\* A guild that registered before the assignment began has a room when the
\* event is active, one of those that are shown; one that slips in later may
\* have none (ProcessEventAssignment reads the guilds after the
\* compare-and-swap).  Its selected members are sent to that room, and
\* JoinRoomHandler lets them into that one and no other.
OnTimeGuildsHaveRooms ==
    \A e \in GetEvents("") : \A g \in onTime[e] :
        /\ room[e][g] \in GetEventRooms(e)
        /\ \A u \in GetEventGuildMembers(e, g) :
              /\ room[e][g] \in MyAssignedRooms(e, u)
              /\ \A r \in GetEventRooms(e) :
                    MayJoin(e, r, g, u) <=> r = room[e][g]

InRoom(e, r) == {g \in Guilds : room[e][g] = r}
Assigned(e) == {g \in Guilds : room[e][g] # 0}

\* The rooms of an active event are those of one assignment: as many as its
\* guilds call for, none empty, none with more than four guilds, however
\* many cron requests processed the event (calculateRoomCount: "This ensures
\* roughly 3-4 guilds per room").
RoomsAreFilled ==
    \A e \in Events :
        IF status[e] = "active"
        THEN /\ Assigned(e) \subseteq participants[e]
             /\ rooms[e] = calculateRoomCount(Cardinality(Assigned(e)))
             /\ \A r \in 1..rooms[e] : Cardinality(InRoom(e, r)) \in 1..4
             /\ \A g \in Assigned(e) : room[e][g] <= rooms[e]
        ELSE rooms[e] = 0 /\ Assigned(e) = {}

\* What a handler has read is still so when it acts on it: it knows events
\* that exist, and the row of an event being assigned is held by one handler.
JobsKnowEvents ==
    /\ \A h \in Handlers :
          /\ At(h, "decide") => request[job[h].request] # "absent"
          /\ ~ At(h, "idle") /\ ~ At(h, "decide") =>
                status[job[h].event] # "absent"
          /\ At(h, "select") => job[h].users \subseteq Roster[job[h].guild]
    /\ \A e \in Events, h, k \in Handlers :
          Assigning(h, e) =>
             /\ status[e] = "pending"
             /\ Assigning(k, e) => k = h
             /\ onTime[e] \subseteq participants[e]
             /\ At(h, "assign") => /\ onTime[e] \subseteq job[h].seen
                                   /\ job[h].seen \subseteq participants[e]
                                   /\ job[h].seen # {}

\* A request that is not decided has no event, and an approved one names one
\* of its own.
UndecidedHaveNoEvent ==
    /\ \A q \in Requests :
          request[q] \in {"absent", "pending"} => EventsOf(q) = {}
    /\ \A q \in Requests :
          /\ request[q] = "approved" <=> approvedEvent[q] # None
          /\ approvedEvent[q] # None => approvedEvent[q] \in EventsOf(q)

\* The guilds that were on time are among those with a room.
OnTimeAssigned ==
    \A e \in Events : status[e] = "active" => onTime[e] \subseteq Assigned(e)

\* Events without a row have nothing.
AbsentEventsEmpty ==
    \A e \in Events : status[e] = "absent" =>
        participants[e] = {} /\ origin[e] = None

\* What every step preserves.
IInv ==
    /\ TypeOK
    /\ JobsKnowEvents
    /\ AbsentEventsEmpty
    /\ GuildsWithinCapacityAndOverlap
    /\ UndecidedHaveNoEvent
    /\ EventsPerRequest
    /\ RequesterTakesPart
    /\ MembersTakePart
    /\ OnTimeAssigned
    /\ RoomsAreFilled

\* Seen from the life of events, registration starts each event once and with
\* rooms: no event is without guilds, so the early return of
\* ProcessEventAssignment for such an event is never taken.
Outcome == INSTANCE EventOutcome WITH
    Attended <- Events,
    Rewards <- {},
    status <- [e \in Events |->
                 IF status[e] = "active" THEN "active" ELSE "pending"],
    rooms <- {e \in Events : rooms[e] > 0},
    playersFinal <- {},
    roomBoards <- [e \in Events |-> 0],
    guildBoards <- [e \in Events |-> 0],
    announced <- [e \in Events |-> 0],
    granted <- [w \in Events \X {} |-> 0]

ImplementsStart == Outcome!OutcomeSpec
===============================================================================
