-------------------------------- MODULE RoomHub --------------------------------
(***************************************************************************)
(* One room in one instance of the service: the RoomHub objects that the   *)
(* instance makes for it, their bounded Events channels and goroutines, the*)
(* requests that join, submit and leave, the AMQP listener, and the two    *)
(* ways a hub is given up (scheduleRoomCleanup, cleanupInactiveRooms).     *)
(*                                                                         *)
(* Go channels: a send to a full channel waits, a send to a closed channel *)
(* and a second close panic; a closed channel is drained before its reader *)
(* sees the end.  A panic ends the process, except in an HTTP handler,     *)
(* where net/http recovers it after the deferred calls.                    *)
(***************************************************************************)
EXTENDS Naturals, Sequences, FiniteSets

CONSTANTS
    Connections,    \* requests <<player, number>> for the stream of the room
    Capacity,       \* of an Events channel (10 in the code)
    MaxConnections, \* maxConnectionsPerRoom (100)
    MaxHubs,        \* bound: hubs made for the room
    MaxRequests     \* bound: submissions and leaves

ASSUME RoomHubAssumption ==
    /\ Capacity \in Nat \ {0}
    /\ MaxConnections \in Nat
    /\ MaxHubs \in Nat
    /\ MaxRequests \in Nat

Hubs == 1 .. MaxHubs
None == 0            \* no hub

VARIABLES
    \* the EventHub
    current,    \* the hub in Rooms
    made,       \* how many hubs were made
    sweeping,   \* the hub cleanupInactiveRooms is about to close
    \* each hub
    queue,      \* what its Events channel holds
    closed,     \* its Events channel is closed
    listeners,  \* the connections in its Listerners
    pc,         \* where its goroutine is
    quiet,      \* 30 minutes have passed since its lastActivity
    cleanup,    \* the timer of scheduleRoomCleanup
    leaving,    \* goroutines that will send PlayerLeft to it
    \* each connection
    at,         \* where JoinRoomHandler is
    hub,        \* the hub it got
    open,       \* its listen channel is open
    \* the rest of the system
    ended,      \* end_date has passed
    message,    \* where the AMQP listener is with EventExpired
    target,     \* the hub it is about to send to
    crashed,    \* a panic has ended the process
    requests    \* counter for the bound

mapVars == <<current, made, sweeping>>
hubVars == <<queue, closed, listeners, pc, quiet, cleanup, leaving>>
connVars == <<at, hub, open>>
restVars == <<ended, message, target>>
vars == <<mapVars, hubVars, connVars, restVars, crashed, requests>>

Items == {"submitted", "result", "joined", "left", "expired"}

Init ==
    /\ current = None
    /\ made = 0
    /\ sweeping = None
    /\ queue = [h \in Hubs |-> <<>>]
    /\ closed = [h \in Hubs |-> FALSE]
    /\ listeners = [h \in Hubs |-> {}]
    /\ pc = [h \in Hubs |-> "none"]
    /\ quiet = [h \in Hubs |-> FALSE]
    /\ cleanup = [h \in Hubs |-> "none"]
    /\ leaving = [h \in Hubs |-> 0]
    /\ at = [c \in Connections |-> "new"]
    /\ hub = [c \in Connections |-> None]
    /\ open = [c \in Connections |-> FALSE]
    /\ ended = FALSE
    /\ message = "none"
    /\ target = None
    /\ crashed = FALSE
    /\ requests = 0

-------------------------------------------------------------------------------
(* Shared steps                                                            *)

\* Mutant: a channel without a limit.
NeverFull(h) == FALSE

Full(h) == Len(queue[h]) >= Capacity

Put(h, item) == queue' = [queue EXCEPT ![h] = Append(@, item)]

CanSend(h) == ~closed[h] /\ ~Full(h)

\* A panic outside of an HTTP handler.
Panic ==
    /\ crashed' = TRUE
    /\ UNCHANGED <<mapVars, hubVars, connVars, restVars, requests>>

\* A new hub is put into Rooms and its goroutine started.
Make ==
    /\ made < MaxHubs
    /\ made' = made + 1
    /\ current' = made'
    /\ pc' = [pc EXCEPT ![made'] = "idle"]

\* Every goroutine waits for something: only then do minutes pass.
Settled ==
    /\ \A h \in Hubs : \/ pc[h] \in {"none", "stopped"}
                       \/ pc[h] = "idle" /\ queue[h] = <<>> /\ ~closed[h]
                       \/ pc[h] = "reply" /\ Full(h) /\ ~closed[h]
    /\ \A c \in Connections : \/ at[c] \in {"new", "done"}
                              \/ at[c] = "streaming" /\ open[c]
                              \/ at[c] = "joining" /\ Full(hub[c]) /\ ~closed[hub[c]]
    /\ \A h \in Hubs : leaving[h] > 0 => Full(h) /\ ~closed[h]
    /\ message # "holding"
    /\ sweeping = None

-------------------------------------------------------------------------------
(* Joining and leaving: JoinRoomHandler                                    *)

Tick ==
    /\ ~crashed
    /\ ~ended
    /\ ended' = TRUE
    /\ UNCHANGED <<mapVars, hubVars, connVars, message, target, crashed, requests>>

\* The checks passed; GetOrCreateRoomHub looks into Rooms.
JoinRoom(c) ==
    /\ ~crashed
    /\ at[c] = "new"
    /\ ~ended
    /\ sweeping = None
    /\ hub' = [hub EXCEPT ![c] = current]
    /\ at' = [at EXCEPT ![c] = IF current = None THEN "load" ELSE "found"]
    /\ UNCHANGED <<mapVars, hubVars, open, restVars, crashed, requests>>

\* Mutant: the map is not looked at again under the write lock.
MissingBefore == TRUE

\* The double check under the write lock.
StillMissing == current = None

\* The room is in the database: its hub is made, unless someone else did.
CreateRoomHub(c) ==
    /\ ~crashed
    /\ at[c] = "load"
    /\ sweeping = None
    /\ IF StillMissing THEN Make ELSE UNCHANGED <<made, current, pc>>
    /\ hub' = [hub EXCEPT ![c] = current']
    /\ at' = [at EXCEPT ![c] = "found"]
    /\ UNCHANGED <<sweeping, queue, closed, listeners, quiet, cleanup, leaving,
                   open, restVars, crashed, requests>>

\* A player already connected and a full room are refused.
Admits(h, c) ==
    /\ \A d \in listeners[h] : d[1] # c[1]
    /\ Cardinality(listeners[h]) < MaxConnections

RegisterListener(c) ==
    LET h == hub[c] IN
    /\ ~crashed
    /\ at[c] = "found"
    /\ IF Admits(h, c)
       THEN /\ listeners' = [listeners EXCEPT ![h] = @ \cup {c}]
            /\ open' = [open EXCEPT ![c] = TRUE]
            /\ at' = [at EXCEPT ![c] = "joining"]
       ELSE /\ at' = [at EXCEPT ![c] = "done"]
            /\ UNCHANGED <<listeners, open>>
    /\ UNCHANGED <<mapVars, queue, closed, pc, quiet, cleanup, leaving, hub,
                   restVars, crashed, requests>>

\* PlayerJoined is sent before the stream begins.  If it panics, or when the
\* stream ends, the deferred calls run.
SendJoined(c) ==
    LET h == hub[c] IN
    /\ ~crashed
    /\ at[c] = "joining"
    /\ \/ /\ closed[h]
          /\ at' = [at EXCEPT ![c] = "returning"]
          /\ UNCHANGED queue
       \/ /\ CanSend(h)
          /\ Put(h, "joined")
          /\ at' = [at EXCEPT ![c] = "streaming"]
    /\ UNCHANGED <<mapVars, closed, listeners, pc, quiet, cleanup, leaving,
                   hub, open, restVars, crashed, requests>>

\* The client goes away, or the write of an event or a heartbeat fails.
Disconnect(c) ==
    /\ ~crashed
    /\ at[c] = "streaming"
    /\ at' = [at EXCEPT ![c] = "returning"]
    /\ UNCHANGED <<mapVars, hubVars, hub, open, restVars, crashed, requests>>

\* The stream reads the end of its closed channel.
StreamEnds(c) ==
    /\ ~crashed
    /\ at[c] = "streaming"
    /\ ~open[c]
    /\ at' = [at EXCEPT ![c] = "returning"]
    /\ UNCHANGED <<mapVars, hubVars, hub, open, restVars, crashed, requests>>

\* Mutant: the entry of the player is left in the map.
KeepsListener(h, c) == listeners[h]

\* What delete(roomHub.Listerners, userID) leaves.
WithoutPlayer(h, c) == {d \in listeners[h] : d[1] # c[1]}

\* The first deferred call takes the player out of the map and starts the
\* goroutine that writes 'disconnected' and sends PlayerLeft.
RemoveListener(c) ==
    LET h == hub[c] IN
    /\ ~crashed
    /\ at[c] = "returning"
    /\ listeners' = [listeners EXCEPT ![h] = WithoutPlayer(h, c)]
    /\ leaving' = [leaving EXCEPT ![h] = @ + 1]
    /\ at' = [at EXCEPT ![c] = "closing"]
    /\ UNCHANGED <<mapVars, queue, closed, pc, quiet, cleanup, hub, open,
                   restVars, crashed, requests>>

\* The second closes the channel; a panic here is recovered by net/http.
CloseListen(c) ==
    /\ ~crashed
    /\ at[c] = "closing"
    /\ open' = [open EXCEPT ![c] = FALSE]
    /\ at' = [at EXCEPT ![c] = "done"]
    /\ UNCHANGED <<mapVars, hubVars, hub, restVars, crashed, requests>>

\* The goroutine of a closed connection sends PlayerLeft, with no recover.
SendLeft(h) ==
    /\ ~crashed
    /\ leaving[h] > 0
    /\ \/ closed[h] /\ Panic
       \/ /\ CanSend(h)
          /\ Put(h, "left")
          /\ leaving' = [leaving EXCEPT ![h] = @ - 1]
          /\ UNCHANGED <<mapVars, closed, listeners, pc, quiet, cleanup,
                         connVars, restVars, crashed, requests>>

-------------------------------------------------------------------------------
(* Other requests and messages that reach the room                         *)

\* A submission gets its hub, or makes it, and is dropped when the channel is
\* full.  A panic of this handler is recovered and changes nothing.
SubmitInRoom ==
    /\ ~crashed
    /\ ~ended
    /\ sweeping = None
    /\ requests < MaxRequests
    /\ requests' = requests + 1
    /\ IF current = None THEN Make ELSE UNCHANGED <<made, current, pc>>
    /\ CanSend(current')
    /\ Put(current', "submitted")
    /\ UNCHANGED <<sweeping, closed, listeners, quiet, cleanup, leaving,
                   connVars, restVars, crashed>>

\* LeaveRoomHandler waits while the channel is full; its panic is recovered.
LeaveRoom ==
    /\ ~crashed
    /\ sweeping = None
    /\ current # None
    /\ requests < MaxRequests
    /\ requests' = requests + 1
    /\ CanSend(current)
    /\ Put(current, "left")
    /\ UNCHANGED <<mapVars, closed, listeners, pc, quiet, cleanup, leaving,
                   connVars, restVars, crashed>>

\* A room.* message of any instance makes a missing hub as well.
HandleRoomMessage ==
    /\ ~crashed
    /\ message # "holding"
    /\ sweeping = None
    /\ current = None
    /\ Make
    /\ UNCHANGED <<sweeping, queue, closed, listeners, quiet, cleanup, leaving,
                   connVars, restVars, crashed, requests>>

\* EventExpired is in the queue of the instance, once.
ReceiveExpired ==
    /\ ~crashed
    /\ ended
    /\ message = "none"
    /\ message' = "queued"
    /\ UNCHANGED <<mapVars, hubVars, connVars, ended, target, crashed, requests>>

\* handleEventMessage looks the room up ...
FindRoom ==
    /\ ~crashed
    /\ message = "queued"
    /\ sweeping = None
    /\ target' = current
    /\ message' = IF current = None THEN "handled" ELSE "holding"
    /\ UNCHANGED <<mapVars, hubVars, connVars, ended, crashed, requests>>

\* ... and sends, or skips a room whose channel is full.
SendExpired ==
    /\ ~crashed
    /\ message = "holding"
    /\ \/ closed[target] /\ Panic
       \/ /\ ~closed[target]
          /\ IF Full(target) THEN UNCHANGED queue ELSE Put(target, "expired")
          /\ message' = "handled"
          /\ target' = None
          /\ UNCHANGED <<mapVars, closed, listeners, pc, quiet, cleanup,
                         leaving, connVars, ended, crashed, requests>>

-------------------------------------------------------------------------------
(* The goroutine of a hub: RoomHub.Start                                   *)

\* The loop is about to take this item.
HasNext(h, item) ==
    /\ ~crashed
    /\ pc[h] = "idle"
    /\ queue[h] # <<>>
    /\ Head(queue[h]) = item

\* It takes the item, which also marks the room as active.
Take(h, item) ==
    /\ HasNext(h, item)
    /\ queue' = [queue EXCEPT ![h] = Tail(@)]
    /\ quiet' = [quiet EXCEPT ![h] = FALSE]

\* processSolutionSubmitted has the code executed.
TakeSubmitted(h) ==
    /\ Take(h, "submitted")
    /\ pc' = [pc EXCEPT ![h] = "execute"]
    /\ UNCHANGED <<mapVars, closed, listeners, cleanup, leaving, connVars,
                   restVars, crashed, requests>>

\* The execution fails, or there is a result to send.
ExecuteCode(h) ==
    /\ ~crashed
    /\ pc[h] = "execute"
    /\ \E next \in {"idle", "reply"} : pc' = [pc EXCEPT ![h] = next]
    /\ UNCHANGED <<mapVars, queue, closed, listeners, quiet, cleanup, leaving,
                   connVars, restVars, crashed, requests>>

\* The hub sends the result to its own channel.
SendResult(h) ==
    /\ ~crashed
    /\ pc[h] = "reply"
    /\ \/ closed[h] /\ Panic
       \/ /\ CanSend(h)
          /\ Put(h, "result")
          /\ pc' = [pc EXCEPT ![h] = "idle"]
          /\ UNCHANGED <<mapVars, closed, listeners, quiet, cleanup, leaving,
                         connVars, restVars, crashed, requests>>

\* Results, joins and leaves change nothing here.
TakeOther(h) ==
    /\ \E item \in {"result", "joined", "left"} : Take(h, item)
    /\ UNCHANGED <<mapVars, closed, listeners, pc, cleanup, leaving, connVars,
                   restVars, crashed, requests>>

\* processEventExpired tells the listeners and arms the timer of the cleanup.
ProcessEventExpired(h) ==
    /\ HasNext(h, "expired")
    /\ IF \E c \in listeners[h] : ~open[c] THEN Panic
       ELSE /\ Take(h, "expired")
            /\ cleanup' = [cleanup EXCEPT ![h] = "armed"]
            /\ UNCHANGED <<mapVars, closed, listeners, pc, leaving, connVars,
                           restVars, crashed, requests>>

\* Mutant: the loop ends with the close and drops what the channel holds.
StopAtClose(h) ==
    /\ ~crashed
    /\ pc[h] = "idle"
    /\ closed[h]
    /\ pc' = [pc EXCEPT ![h] = "stopped"]
    /\ UNCHANGED <<mapVars, queue, closed, listeners, quiet, cleanup, leaving,
                   connVars, restVars, crashed, requests>>

\* The range over the closed and drained channel ends.
Stop(h) ==
    /\ ~crashed
    /\ pc[h] = "idle"
    /\ closed[h]
    /\ queue[h] = <<>>
    /\ pc' = [pc EXCEPT ![h] = "stopped"]
    /\ UNCHANGED <<mapVars, queue, closed, listeners, quiet, cleanup, leaving,
                   connVars, restVars, crashed, requests>>

-------------------------------------------------------------------------------
(* scheduleRoomCleanup                                                     *)

\* Five minutes have passed.
CleanupDue(h) ==
    /\ ~crashed
    /\ cleanup[h] = "armed"
    /\ Settled
    /\ cleanup' = [cleanup EXCEPT ![h] = "due"]
    /\ UNCHANGED <<mapVars, queue, closed, listeners, pc, quiet, leaving,
                   connVars, restVars, crashed, requests>>

\* Under the lock: every listener is closed and the map emptied.
CloseListeners(h) ==
    /\ ~crashed
    /\ cleanup[h] = "due"
    /\ IF \E c \in listeners[h] : ~open[c] THEN Panic
       ELSE /\ open' = [c \in Connections |->
                          IF c \in listeners[h] THEN FALSE ELSE open[c]]
            /\ listeners' = [listeners EXCEPT ![h] = {}]
            /\ cleanup' = [cleanup EXCEPT ![h] = "closing"]
            /\ UNCHANGED <<mapVars, queue, closed, pc, quiet, leaving, at, hub,
                           restVars, crashed, requests>>

\* Then the Events channel; the hub stays in Rooms.
CloseEvents(h) ==
    /\ ~crashed
    /\ cleanup[h] = "closing"
    /\ IF closed[h] THEN Panic
       ELSE /\ closed' = [closed EXCEPT ![h] = TRUE]
            /\ cleanup' = [cleanup EXCEPT ![h] = "done"]
            /\ UNCHANGED <<mapVars, queue, listeners, pc, quiet, leaving,
                           connVars, restVars, crashed, requests>>

-------------------------------------------------------------------------------
(* cleanupInactiveRooms                                                    *)

\* Thirty minutes pass without an item, later than a cleanup after five.
BecomeQuiet(h) ==
    /\ ~crashed
    /\ h = current
    /\ ~quiet[h]
    /\ Settled
    /\ cleanup[h] \in {"none", "done"}
    /\ quiet' = [quiet EXCEPT ![h] = TRUE]
    /\ UNCHANGED <<mapVars, queue, closed, listeners, pc, cleanup, leaving,
                   connVars, restVars, crashed, requests>>

\* isInactive: the lock of the hub is free again when it returns.
FindInactive ==
    /\ ~crashed
    /\ sweeping = None
    /\ current # None
    /\ listeners[current] = {}
    /\ quiet[current]
    /\ sweeping' = current
    /\ UNCHANGED <<current, made, hubVars, connVars, restVars, crashed, requests>>

\* The inactive hub is closed and taken out of Rooms.
RemoveInactive ==
    /\ ~crashed
    /\ sweeping # None
    /\ IF closed[sweeping] THEN Panic
       ELSE /\ closed' = [closed EXCEPT ![sweeping] = TRUE]
            /\ current' = None
            /\ sweeping' = None
            /\ UNCHANGED <<made, queue, listeners, pc, quiet, cleanup, leaving,
                           connVars, restVars, crashed, requests>>

-------------------------------------------------------------------------------
ConnectionStep(c) ==
    \/ CreateRoomHub(c)
    \/ RegisterListener(c)
    \/ SendJoined(c)
    \/ StreamEnds(c)
    \/ RemoveListener(c)
    \/ CloseListen(c)

HubStep(h) ==
    \/ TakeSubmitted(h)
    \/ ExecuteCode(h)
    \/ SendResult(h)
    \/ TakeOther(h)
    \/ ProcessEventExpired(h)
    \/ Stop(h)

CleanupStep(h) == CloseListeners(h) \/ CloseEvents(h)

MessageStep == FindRoom \/ SendExpired

Next ==
    \/ Tick
    \/ \E c \in Connections : JoinRoom(c) \/ Disconnect(c) \/ ConnectionStep(c)
    \/ SubmitInRoom
    \/ LeaveRoom
    \/ HandleRoomMessage
    \/ ReceiveExpired
    \/ MessageStep
    \/ \E h \in Hubs : \/ SendLeft(h)
                       \/ HubStep(h)
                       \/ CleanupDue(h)
                       \/ CleanupStep(h)
                       \/ BecomeQuiet(h)
    \/ FindInactive
    \/ RemoveInactive

Spec == Init /\ [][Next]_vars

\* Every goroutine goes on unless a channel holds it up.  Nothing is assumed
\* of clients, of the broker or of the time that passes.
Fairness ==
    /\ \A c \in Connections : WF_vars(ConnectionStep(c))
    /\ \A h \in Hubs : /\ WF_vars(HubStep(h))
                       /\ WF_vars(SendLeft(h))
                       /\ WF_vars(CleanupStep(h))
    /\ WF_vars(MessageStep)
    /\ WF_vars(RemoveInactive)

FairSpec == Spec /\ Fairness

-------------------------------------------------------------------------------
(* Properties                                                              *)

TypeOK ==
    /\ current \in Hubs \cup {None}
    /\ made \in 0 .. MaxHubs
    /\ sweeping \in Hubs \cup {None}
    /\ queue \in [Hubs -> Seq(Items)]
    /\ \A h \in Hubs : Len(queue[h]) <= Capacity
    /\ closed \in [Hubs -> BOOLEAN]
    /\ listeners \in [Hubs -> SUBSET Connections]
    /\ pc \in [Hubs -> {"none", "idle", "execute", "reply", "stopped"}]
    /\ quiet \in [Hubs -> BOOLEAN]
    /\ cleanup \in [Hubs -> {"none", "armed", "due", "closing", "done"}]
    /\ leaving \in [Hubs -> Nat]
    /\ at \in [Connections -> {"new", "load", "found", "joining", "streaming",
                               "returning", "closing", "done"}]
    /\ hub \in [Connections -> Hubs \cup {None}]
    /\ open \in [Connections -> BOOLEAN]
    /\ ended \in BOOLEAN
    /\ message \in {"none", "queued", "holding", "handled"}
    /\ target \in Hubs \cup {None}
    /\ crashed \in BOOLEAN
    /\ requests \in 0 .. MaxRequests

\* Whatever the order of disconnects and cleanups, a hub never has a listener
\* whose channel is closed or whose handler is gone, and one per player at
\* most: processEventExpired and scheduleRoomCleanup send to and close every
\* listener without a recover (JoinRoomHandler deletes before it closes).
ListenersAreOpen ==
    \A h \in Hubs : \A c \in listeners[h] :
        /\ open[c]
        /\ hub[c] = h
        /\ at[c] \in {"joining", "streaming", "returning"}
        /\ \A d \in listeners[h] : d[1] = c[1] => d = c

\* An instance never has two live hubs for a room, which would split its
\* players: every other hub made for it is closed (GetOrCreateRoomHub).
OneLiveHub ==
    \A h \in 1 .. made : h # current => closed[h]

\* The process only panics after a hub was given up: while the rooms of an
\* event are in use, no join, disconnect or expiry ends it.
RoomsInUseNeverPanic ==
    crashed => \E h \in Hubs : closed[h]

\* What every step preserves.
IInv ==
    /\ TypeOK
    /\ current <= made
    /\ sweeping # None => sweeping = current
    /\ message = "holding" => target # None
    /\ ListenersAreOpen
    /\ OneLiveHub
    /\ RoomsInUseNeverPanic

\* The hub waits for room in the channel only it empties.
WaitsForItself(h) == pc[h] = "reply" /\ Len(queue[h]) = Capacity

\* RoomHub.Start serves its channel until it is empty, and only one thing
\* stops it: sending a result to its own full channel.
HubsServe ==
    \A h \in Hubs : queue[h] # <<>> ~>
                       queue[h] = <<>> \/ WaitsForItself(h) \/ crashed

\* scheduleRoomCleanup: "Close all SSE connections gracefully", after which
\* the room "will be removed by EventHub cleanup routine": no panic follows.
CleanupIsGraceful ==
    crashed => \A h \in Hubs : cleanup[h] # "done"
===============================================================================
