----------------------------- MODULE RoomHub_proofs -----------------------------
(* Proofs of the safety properties of RoomHub.                             *)
EXTENDS RoomHub, TLAPS

\* Sending to a channel that is not full keeps it within its capacity.
LEMMA PutType ==
    ASSUME TypeOK, NEW h \in Hubs, NEW item \in Items, CanSend(h), Put(h, item)
    PROVE  /\ queue' \in [Hubs -> Seq(Items)]
           /\ \A k \in Hubs : Len(queue'[k]) <= Capacity
<1> USE RoomHubAssumption
<1>1. queue[h] \in Seq(Items) /\ Len(queue[h]) < Capacity
  BY DEF TypeOK, CanSend, Full
<1>2. /\ Append(queue[h], item) \in Seq(Items)
      /\ Len(Append(queue[h], item)) <= Capacity
  BY <1>1
<1> QED
  BY <1>2 DEF TypeOK, Put

\* Taking an item keeps the channel within its capacity.
LEMMA TakeType ==
    ASSUME TypeOK, NEW h \in Hubs, NEW item, Take(h, item)
    PROVE  /\ queue' \in [Hubs -> Seq(Items)]
           /\ \A k \in Hubs : Len(queue'[k]) <= Capacity
           /\ quiet' \in [Hubs -> BOOLEAN]
<1> USE RoomHubAssumption
<1>1. queue[h] \in Seq(Items) /\ queue[h] # <<>> /\ Len(queue[h]) <= Capacity
  BY DEF TypeOK, Take, HasNext
<1>2. /\ Tail(queue[h]) \in Seq(Items)
      /\ Len(Tail(queue[h])) <= Capacity
  BY <1>1
<1> QED
  BY <1>2 DEF TypeOK, Take

\* Making a hub keeps the types.
LEMMA MakeType ==
    ASSUME TypeOK, Make
    PROVE  /\ made' \in 0 .. MaxHubs
           /\ current' \in Hubs
           /\ pc' \in [Hubs -> {"none", "idle", "execute", "reply", "stopped"}]
BY RoomHubAssumption DEF TypeOK, Make, Hubs

\* The steps of the connections keep the types.
LEMMA TypeConnection ==
    ASSUME TypeOK, NEW c \in Connections,
           JoinRoom(c) \/ Disconnect(c) \/ ConnectionStep(c)
    PROVE  TypeOK'
<1> USE RoomHubAssumption DEF TypeOK, mapVars, hubVars, connVars, restVars
<1>1. CASE JoinRoom(c)
  BY <1>1 DEF JoinRoom
<1>2. CASE Disconnect(c)
  BY <1>2 DEF Disconnect
<1>3. CASE CreateRoomHub(c)
  BY <1>3, MakeType DEF CreateRoomHub
<1>4. CASE RegisterListener(c)
  <2>1. listeners' \in [Hubs -> SUBSET Connections]
    <3>1. \/ listeners' = listeners
          \/ listeners' = [listeners EXCEPT ![hub[c]] = listeners[hub[c]] \cup {c}]
      <4> HIDE DEF TypeOK
      <4>1. CASE Admits(hub[c], c)
        BY <1>4, <4>1, Zenon DEF RegisterListener
      <4>2. CASE ~Admits(hub[c], c)
        BY <1>4, <4>2 DEF RegisterListener
      <4> QED
        BY <4>1, <4>2
    <3>2. CASE hub[c] \in Hubs
      <4>1. listeners[hub[c]] \cup {c} \in SUBSET Connections
        BY <3>2
      <4>2. listeners \in [Hubs -> SUBSET Connections]
        OBVIOUS
      <4> HIDE DEF TypeOK
      <4> QED
        BY <3>1, <4>1, <4>2
    <3>3. CASE hub[c] \notin Hubs
      <4>1. listeners' = listeners
        BY <3>1, <3>3
      <4> QED
        BY <4>1
    <3> QED
      BY <3>2, <3>3
  <2>2. open' \in [Connections -> BOOLEAN]
    <3>1. open' = open \/ open' = [open EXCEPT ![c] = TRUE]
      BY <1>4 DEF RegisterListener
    <3> QED
      BY <3>1
  <2> QED
    BY <1>4, <2>1, <2>2 DEF RegisterListener
<1>5. CASE SendJoined(c)
  <2>1. at' \in [Connections -> {"new", "load", "found", "joining", "streaming",
                                 "returning", "closing", "done"}]
    <3>1. \E l \in {"returning", "streaming"} : at' = [at EXCEPT ![c] = l]
      BY <1>5 DEF SendJoined
    <3> QED
      BY <3>1
  <2>2. /\ queue' \in [Hubs -> Seq(Items)]
        /\ \A k \in Hubs : Len(queue'[k]) <= Capacity
    <3>1. CASE queue' = queue
      BY <3>1
    <3>2. CASE CanSend(hub[c]) /\ Put(hub[c], "joined") /\ hub[c] \in Hubs
      BY <3>2, PutType DEF Items
    <3>3. CASE Put(hub[c], "joined") /\ hub[c] \notin Hubs
      <4>1. queue' = queue
        BY <3>3 DEF Put
      <4> QED
        BY <4>1
    <3> QED
      BY <1>5, <3>1, <3>2, <3>3 DEF SendJoined
  <2> QED
    BY <1>5, <2>1, <2>2 DEF SendJoined
<1>6. CASE StreamEnds(c)
  BY <1>6 DEF StreamEnds
<1>7. CASE RemoveListener(c)
  <2>1. listeners' \in [Hubs -> SUBSET Connections]
    <3>1. CASE hub[c] \in Hubs
      <4>1. WithoutPlayer(hub[c], c) \subseteq Connections
        BY <3>1 DEF WithoutPlayer
      <4> QED
        BY <1>7, <4>1 DEF RemoveListener
    <3>2. CASE hub[c] \notin Hubs
      <4>1. listeners' = listeners
        BY <1>7, <3>2 DEF RemoveListener
      <4> QED
        BY <4>1
    <3> QED
      BY <3>1, <3>2
  <2>2. leaving' \in [Hubs -> Nat]
    <3>1. leaving' = [leaving EXCEPT ![hub[c]] = leaving[hub[c]] + 1]
      BY <1>7 DEF RemoveListener
    <3>2. CASE hub[c] \in Hubs
      BY <3>1, <3>2
    <3>3. CASE hub[c] \notin Hubs
      <4>1. leaving' = leaving
        BY <3>1, <3>3
      <4> QED
        BY <4>1
    <3> QED
      BY <3>2, <3>3
  <2>3. at' \in [Connections -> {"new", "load", "found", "joining", "streaming",
                                 "returning", "closing", "done"}]
    BY <1>7 DEF RemoveListener
  <2> QED
    BY <1>7, <2>1, <2>2, <2>3 DEF RemoveListener
<1>8. CASE CloseListen(c)
  BY <1>8 DEF CloseListen
<1> QED
  BY <1>1, <1>2, <1>3, <1>4, <1>5, <1>6, <1>7, <1>8 DEF ConnectionStep

\* The other requests, the messages, the clock and the sweep keep the types.
LEMMA TypeOther ==
    ASSUME TypeOK,
           \/ Tick \/ SubmitInRoom \/ LeaveRoom \/ HandleRoomMessage
           \/ ReceiveExpired \/ MessageStep \/ FindInactive \/ RemoveInactive
    PROVE  TypeOK'
<1> USE RoomHubAssumption DEF TypeOK, mapVars, hubVars, connVars, restVars
<1>1. CASE Tick
  BY <1>1 DEF Tick
<1>2. CASE SubmitInRoom
  <2>1. current' \in Hubs /\ made' \in 0 .. MaxHubs
        /\ pc' \in [Hubs -> {"none", "idle", "execute", "reply", "stopped"}]
    BY <1>2, MakeType DEF SubmitInRoom, None
  <2>2. CanSend(current') /\ Put(current', "submitted")
    BY <1>2 DEF SubmitInRoom
  <2>3. /\ queue' \in [Hubs -> Seq(Items)]
        /\ \A k \in Hubs : Len(queue'[k]) <= Capacity
    BY <2>1, <2>2, PutType DEF Items
  <2> QED
    BY <1>2, <2>1, <2>3 DEF SubmitInRoom
<1>3. CASE LeaveRoom
  <2>1. current \in Hubs
    BY <1>3 DEF LeaveRoom, None
  <2>2. /\ queue' \in [Hubs -> Seq(Items)]
        /\ \A k \in Hubs : Len(queue'[k]) <= Capacity
    BY <1>3, <2>1, PutType DEF LeaveRoom, Items
  <2> QED
    BY <1>3, <2>2 DEF LeaveRoom
<1>4. CASE HandleRoomMessage
  BY <1>4, MakeType DEF HandleRoomMessage
<1>5. CASE ReceiveExpired
  BY <1>5 DEF ReceiveExpired
<1>6. CASE FindRoom
  BY <1>6 DEF FindRoom
<1>7. CASE SendExpired
  <2>1. CASE Panic
    BY <2>1 DEF Panic
  <2>2. CASE ~Panic /\ target \in Hubs /\ ~Full(target)
    <3>1. CanSend(target) /\ Put(target, "expired")
      BY <1>7, <2>2 DEF SendExpired, CanSend
    <3>2. /\ queue' \in [Hubs -> Seq(Items)]
          /\ \A k \in Hubs : Len(queue'[k]) <= Capacity
      BY <2>2, <3>1, PutType DEF Items
    <3>3. /\ UNCHANGED <<mapVars, closed, listeners, pc, quiet, cleanup,
                        leaving, connVars, ended, crashed, requests>>
          /\ message' = "handled" /\ target' = None
      BY <1>7, <2>2 DEF SendExpired
    <3> QED
      BY <2>2, <3>2, <3>3
  <2>3. CASE ~Panic /\ target \notin Hubs /\ ~Full(target)
    BY <1>7, <2>3 DEF SendExpired, Put
  <2>4. CASE ~Panic /\ Full(target)
    BY <1>7, <2>4 DEF SendExpired
  <2> QED
    BY <2>1, <2>2, <2>3, <2>4
<1>8. CASE FindInactive
  BY <1>8 DEF FindInactive
<1>9. CASE RemoveInactive
  BY <1>9 DEF RemoveInactive, Panic
<1> QED
  BY <1>1, <1>2, <1>3, <1>4, <1>5, <1>6, <1>7, <1>8, <1>9 DEF MessageStep

\* The goroutines and timers of a hub keep the types.
LEMMA TypeHub ==
    ASSUME TypeOK, NEW h \in Hubs,
           \/ SendLeft(h) \/ HubStep(h) \/ CleanupDue(h) \/ CleanupStep(h)
           \/ BecomeQuiet(h)
    PROVE  TypeOK'
<1> USE RoomHubAssumption DEF TypeOK, mapVars, hubVars, connVars, restVars
<1>1. CASE SendLeft(h)
  <2>1. CASE Panic
    BY <2>1 DEF Panic
  <2>2. CASE ~Panic
    <3>1. leaving' \in [Hubs -> Nat]
      <4>1. leaving[h] - 1 \in Nat
        BY <1>1 DEF SendLeft
      <4> QED
        BY <1>1, <2>2, <4>1 DEF SendLeft
    <3>2. CanSend(h) /\ Put(h, "left")
      BY <1>1, <2>2 DEF SendLeft
    <3>3. /\ queue' \in [Hubs -> Seq(Items)]
          /\ \A k \in Hubs : Len(queue'[k]) <= Capacity
      BY <3>2, PutType DEF Items
    <3> QED
      BY <1>1, <2>2, <3>1, <3>3 DEF SendLeft
  <2> QED
    BY <2>1, <2>2
<1>2. CASE TakeSubmitted(h)
  BY <1>2, TakeType DEF TakeSubmitted
<1>3. CASE ExecuteCode(h)
  BY <1>3 DEF ExecuteCode
<1>4. CASE SendResult(h)
  <2>1. CASE Panic
    BY <2>1 DEF Panic
  <2>2. CASE ~Panic
    BY <1>4, <2>2, PutType DEF SendResult, Items
  <2> QED
    BY <2>1, <2>2
<1>5. CASE TakeOther(h)
  BY <1>5, TakeType DEF TakeOther
<1>6. CASE ProcessEventExpired(h)
  BY <1>6, TakeType DEF ProcessEventExpired, Panic
<1>7. CASE Stop(h)
  BY <1>7 DEF Stop
<1>8. CASE CleanupDue(h)
  BY <1>8 DEF CleanupDue
<1>9. CASE CloseListeners(h)
  <2>1. CASE Panic
    BY <2>1 DEF Panic
  <2>2. CASE ~Panic
    <3>1. open' = [c \in Connections |->
                          IF c \in listeners[h] THEN FALSE ELSE open[c]]
      BY <1>9, <2>2 DEF CloseListeners
    <3>2. open' \in [Connections -> BOOLEAN]
      BY <3>1
    <3>3. listeners' \in [Hubs -> SUBSET Connections]
      <4>1. listeners' = [listeners EXCEPT ![h] = {}]
        BY <1>9, <2>2 DEF CloseListeners
      <4>2. listeners \in [Hubs -> SUBSET Connections]
        OBVIOUS
      <4> HIDE DEF TypeOK
      <4> QED
        BY <4>1, <4>2
    <3> QED
      BY <1>9, <2>2, <3>2, <3>3 DEF CloseListeners
  <2> QED
    BY <2>1, <2>2
<1>10. CASE CloseEvents(h)
  BY <1>10 DEF CloseEvents, Panic
<1>11. CASE BecomeQuiet(h)
  BY <1>11 DEF BecomeQuiet
<1> QED
  BY <1>1, <1>2, <1>3, <1>4, <1>5, <1>6, <1>7, <1>8, <1>9, <1>10, <1>11
     DEF HubStep, CleanupStep

\* Every step keeps the types.
LEMMA TypeStep == ASSUME TypeOK, [Next]_vars PROVE TypeOK'
<1>1. CASE UNCHANGED vars
  BY <1>1 DEF TypeOK, vars, mapVars, hubVars, connVars, restVars
<1> QED
  BY <1>1, TypeConnection, TypeOther, TypeHub DEF Next

\* The initial states have the types.
LEMMA InitType == Init => TypeOK
<1> SUFFICES ASSUME Init PROVE TypeOK
  OBVIOUS
<1> USE RoomHubAssumption DEF Init
<1>1. /\ queue \in [Hubs -> Seq(Items)]
      /\ \A h \in Hubs : Len(queue[h]) <= Capacity
  OBVIOUS
<1>2. /\ closed \in [Hubs -> BOOLEAN]
      /\ quiet \in [Hubs -> BOOLEAN]
      /\ open \in [Connections -> BOOLEAN]
  OBVIOUS
<1>3. listeners \in [Hubs -> SUBSET Connections]
  OBVIOUS
<1>4. leaving \in [Hubs -> Nat] /\ hub \in [Connections -> Hubs \cup {None}]
  OBVIOUS
<1>5. /\ pc \in [Hubs -> {"none", "idle", "execute", "reply", "stopped"}]
      /\ cleanup \in [Hubs -> {"none", "armed", "due", "closing", "done"}]
      /\ at \in [Connections -> {"new", "load", "found", "joining", "streaming",
                                 "returning", "closing", "done"}]
  OBVIOUS
<1>6. made \in 0 .. MaxHubs /\ requests \in 0 .. MaxRequests
  OBVIOUS
<1> QED
  BY <1>1, <1>2, <1>3, <1>4, <1>5, <1>6 DEF TypeOK

\* The channels stay within their capacity and every variable has its type,
\* for any capacity and any number of connections, hubs and requests.
THEOREM TypeCorrect == Spec => []TypeOK
BY InitType, TypeStep, PTL DEF Spec

\* What ListenersAreOpen says survives every step that leaves the listeners
\* and their connections alone.
LEMMA SameListeners ==
    ASSUME ListenersAreOpen, UNCHANGED <<listeners, open, hub, at>>
    PROVE  ListenersAreOpen'
BY DEF ListenersAreOpen

\* The steps of the connections keep the listeners open.
LEMMA ListenersConnection ==
    ASSUME TypeOK, ListenersAreOpen, NEW c \in Connections,
           JoinRoom(c) \/ Disconnect(c) \/ ConnectionStep(c)
    PROVE  ListenersAreOpen'
<1>a. /\ \A h \in Hubs : listeners[h] \subseteq Connections
      /\ at \in [Connections -> {"new", "load", "found", "joining", "streaming",
                                 "returning", "closing", "done"}]
      /\ hub \in [Connections -> Hubs \cup {None}]
      /\ open \in [Connections -> BOOLEAN]
      /\ listeners \in [Hubs -> SUBSET Connections]
  BY DEF TypeOK
<1> USE DEF mapVars, hubVars, connVars, restVars, ListenersAreOpen
<1>1. CASE JoinRoom(c)
  BY <1>1, <1>a DEF JoinRoom
<1>2. CASE Disconnect(c)
  BY <1>2, <1>a DEF Disconnect
<1>3. CASE CreateRoomHub(c)
  BY <1>3, <1>a DEF CreateRoomHub
<1>4. CASE RegisterListener(c)
  <2>1. CASE Admits(hub[c], c)
    <3>1. /\ listeners' = [listeners EXCEPT ![hub[c]] = listeners[hub[c]] \cup {c}]
          /\ open' = [open EXCEPT ![c] = TRUE]
          /\ at' = [at EXCEPT ![c] = "joining"]
          /\ hub' = hub
      BY <1>4, <2>1, Zenon DEF RegisterListener
    <3>2. \A h \in Hubs : c \notin listeners[h]
      BY <1>4, <1>a DEF RegisterListener
    <3>3. \A h \in Hubs : listeners'[h] = IF h = hub[c] THEN listeners[h] \cup {c}
                                                        ELSE listeners[h]
      BY <3>1, <1>a
    <3>4. \A d \in listeners[hub[c]] : d[1] # c[1]
      BY <2>1 DEF Admits
    <3>5. /\ open'[c] /\ at'[c] = "joining"
          /\ \A d \in Connections : d # c => open'[d] = open[d] /\ at'[d] = at[d]
      BY <3>1, <1>a
    <3> HIDE DEF ListenersAreOpen
    <3> SUFFICES ASSUME NEW h \in Hubs, NEW d \in listeners'[h]
                 PROVE  /\ open'[d] /\ hub[d] = h
                        /\ at'[d] \in {"joining", "streaming", "returning"}
                        /\ \A e \in listeners'[h] : e[1] = d[1] => e = d
      BY <3>1 DEF ListenersAreOpen
    <3>6. CASE d = c
      <4>1. h = hub[c]
        BY <3>6, <3>2, <3>3
      <4>2. \A e \in listeners'[h] : e[1] = c[1] => e = c
        BY <4>1, <3>3, <3>4
      <4> QED
        BY <3>6, <4>1, <4>2, <3>5
    <3>7. CASE d # c
      <4>1. d \in listeners[h] /\ d \in Connections
        BY <3>7, <3>3, <1>a
      <4>2. /\ open[d] /\ hub[d] = h
            /\ at[d] \in {"joining", "streaming", "returning"}
            /\ \A e \in listeners[h] : e[1] = d[1] => e = d
        BY <4>1 DEF ListenersAreOpen
      <4>3. ASSUME NEW e \in listeners'[h], e[1] = d[1]
            PROVE  e = d
        <5>1. CASE e \in listeners[h]
          BY <4>2, <4>3, <5>1
        <5>2. CASE e \notin listeners[h]
          BY <3>3, <3>4, <4>1, <4>3, <5>2
        <5> QED
          BY <5>1, <5>2
      <4>4. open'[d] = open[d] /\ at'[d] = at[d]
        BY <3>7, <4>1, <3>5
      <4>5. \A e \in listeners'[h] : e[1] = d[1] => e = d
        BY <4>3
      <4> QED
        BY <4>2, <4>4, <4>5
    <3> QED
      BY <3>6, <3>7
  <2>2. CASE ~Admits(hub[c], c)
    BY <1>4, <2>2, <1>a DEF RegisterListener
  <2> QED
    BY <2>1, <2>2
<1>5. CASE SendJoined(c)
  <2>1. \E l \in {"returning", "streaming"} : at' = [at EXCEPT ![c] = l]
    BY <1>5 DEF SendJoined
  <2> QED
    BY <1>5, <2>1, <1>a DEF SendJoined
<1>6. CASE StreamEnds(c)
  BY <1>6, <1>a DEF StreamEnds
<1>7. CASE RemoveListener(c)
  <2>1. \A h \in Hubs : listeners'[h] = IF h = hub[c] THEN WithoutPlayer(h, c)
                                                      ELSE listeners[h]
    BY <1>7, <1>a DEF RemoveListener
  <2>2. \A h \in Hubs : listeners'[h] \subseteq listeners[h] /\ c \notin listeners'[h]
    <3> SUFFICES ASSUME NEW h \in Hubs
                 PROVE  listeners'[h] \subseteq listeners[h] /\ c \notin listeners'[h]
      OBVIOUS
    <3>1. CASE h = hub[c]
      <4>1. listeners'[h] = WithoutPlayer(h, c)
        BY <2>1, <3>1
      <4> HIDE DEF ListenersAreOpen
      <4> QED
        BY <4>1 DEF WithoutPlayer
    <3>2. CASE h # hub[c]
      BY <2>1, <3>2
    <3> QED
      BY <3>1, <3>2
  <2>3. \A d \in Connections : d # c => at'[d] = at[d]
    BY <1>7, <1>a DEF RemoveListener
  <2>4. open' = open /\ hub' = hub
    BY <1>7 DEF RemoveListener
  <2> QED
    BY <2>2, <2>3, <2>4, <1>a
<1>8. CASE CloseListen(c)
  BY <1>8, <1>a DEF CloseListen
<1> QED
  BY <1>1, <1>2, <1>3, <1>4, <1>5, <1>6, <1>7, <1>8 DEF ConnectionStep

\* And so does every step of the instance: the timer of scheduleRoomCleanup
\* closes the listeners of its own hub and forgets them in the same step.
LEMMA ListenersStep ==
    ASSUME TypeOK, ListenersAreOpen, [Next]_vars
    PROVE  ListenersAreOpen'
<1> USE DEF vars, mapVars, hubVars, connVars, restVars
<1>1. CASE UNCHANGED vars
  BY <1>1, SameListeners
<1>2. ASSUME NEW c \in Connections,
             JoinRoom(c) \/ Disconnect(c) \/ ConnectionStep(c)
      PROVE  ListenersAreOpen'
  BY <1>2, ListenersConnection
<1>3. CASE \/ Tick \/ SubmitInRoom \/ LeaveRoom \/ HandleRoomMessage
           \/ ReceiveExpired \/ MessageStep \/ FindInactive \/ RemoveInactive
  BY <1>3, SameListeners
     DEF Tick, SubmitInRoom, LeaveRoom, HandleRoomMessage, ReceiveExpired,
         MessageStep, FindRoom, SendExpired, FindInactive, RemoveInactive, Panic
<1>4. ASSUME NEW h \in Hubs,
             \/ SendLeft(h) \/ HubStep(h) \/ CleanupDue(h) \/ CloseEvents(h)
             \/ BecomeQuiet(h)
      PROVE  ListenersAreOpen'
  BY <1>4, SameListeners
     DEF SendLeft, HubStep, TakeSubmitted, ExecuteCode, SendResult, TakeOther,
         ProcessEventExpired, Stop, CleanupDue, CloseEvents, BecomeQuiet, Panic
<1>5. ASSUME NEW h \in Hubs, CloseListeners(h)
      PROVE  ListenersAreOpen'
  <2>1. CASE Panic
    BY <2>1, SameListeners DEF Panic
  <2>2. CASE ~Panic
    <3>1. /\ open' = [c \in Connections |->
                        IF c \in listeners[h] THEN FALSE ELSE open[c]]
          /\ listeners' = [listeners EXCEPT ![h] = {}]
          /\ at' = at /\ hub' = hub
      BY <1>5, <2>2 DEF CloseListeners
    <3>2. \A k \in Hubs : /\ listeners[k] \subseteq Connections
                          /\ listeners'[k] = IF k = h THEN {} ELSE listeners[k]
      BY <3>1 DEF TypeOK
    <3>3. ASSUME NEW k \in Hubs, NEW c \in listeners'[k]
          PROVE  /\ open'[c] /\ hub'[c] = k
                 /\ at'[c] \in {"joining", "streaming", "returning"}
                 /\ \A d \in listeners'[k] : d[1] = c[1] => d = c
      <4>1. k # h /\ c \in listeners[k] /\ listeners'[k] = listeners[k]
        BY <3>2
      <4>2. c \notin listeners[h]
        BY <4>1 DEF ListenersAreOpen
      <4>3. /\ open[c] /\ hub[c] = k
            /\ at[c] \in {"joining", "streaming", "returning"}
            /\ \A d \in listeners[k] : d[1] = c[1] => d = c
        BY <4>1 DEF ListenersAreOpen
      <4>4. open'[c] = open[c]
        BY <3>1, <3>2, <4>1, <4>2
      <4> QED
        BY <3>1, <4>1, <4>3, <4>4
    <3> QED
      BY <3>3 DEF ListenersAreOpen
  <2> QED
    BY <2>1, <2>2
<1> QED
  BY <1>1, <1>2, <1>3, <1>4, <1>5 DEF Next, CleanupStep

\* The hubs: whatever was made and is not in Rooms is closed, what was not
\* made is not there, and every panic has a closed hub behind it.
HubsOK ==
    /\ current <= made
    /\ sweeping # None => sweeping = current
    /\ message = "holding" => target # None
    /\ OneLiveHub
    /\ RoomsInUseNeverPanic

\* Making a hub when Rooms has none leaves one live hub.
LEMMA MakeOneHub ==
    ASSUME TypeOK, HubsOK, current = None, Make, closed' = closed
    PROVE  current' <= made' /\ OneLiveHub'
<1>1. made \in Nat /\ made' = made + 1 /\ current' = made + 1
  BY DEF TypeOK, Make
<1>2. \A h \in 1 .. made : closed[h]
  BY <1>1 DEF HubsOK, OneLiveHub, None
<1> QED
  BY <1>1, <1>2 DEF OneLiveHub

\* A step that leaves the map, the Events channels and the listener of the
\* AMQP queue alone keeps it.
LEMMA SameHubs ==
    ASSUME HubsOK,
           UNCHANGED <<mapVars, closed, crashed, message, target>>
    PROVE  HubsOK'
BY DEF HubsOK, OneLiveHub, RoomsInUseNeverPanic, mapVars

\* A panic needs a closed hub.
LEMMA PanicOfClosed ==
    ASSUME HubsOK, Panic, \E h \in Hubs : closed[h]
    PROVE  HubsOK'
BY DEF HubsOK, OneLiveHub, RoomsInUseNeverPanic, Panic, mapVars, hubVars,
       connVars, restVars

\* Closing an Events channel keeps it.
LEMMA CloseHub ==
    ASSUME TypeOK, HubsOK, NEW h \in Hubs, ~closed[h],
           closed' = [closed EXCEPT ![h] = TRUE],
           UNCHANGED <<mapVars, crashed, message, target>>
    PROVE  HubsOK' /\ closed'[h]
<1>1. closed \in [Hubs -> BOOLEAN]
  BY DEF TypeOK
<1>2. \A k \in Hubs : closed[k] => closed'[k]
  BY <1>1
<1>3. made \in 0 .. MaxHubs
  BY DEF TypeOK
<1>4. 1 .. made \subseteq Hubs
  BY <1>3, RoomHubAssumption DEF Hubs
<1>5. OneLiveHub' /\ RoomsInUseNeverPanic'
  BY <1>2, <1>4 DEF HubsOK, OneLiveHub, RoomsInUseNeverPanic, mapVars
<1> QED
  BY <1>1, <1>5 DEF HubsOK, mapVars

\* Every step keeps the hubs in order.
LEMMA HubsStep ==
    ASSUME TypeOK, ListenersAreOpen, HubsOK, [Next]_vars
    PROVE  HubsOK'
<1> USE DEF mapVars, hubVars, connVars, restVars
<1>1. CASE UNCHANGED vars
  BY <1>1, SameHubs DEF vars
<1>2. ASSUME NEW c \in Connections,
             \/ JoinRoom(c) \/ Disconnect(c) \/ RegisterListener(c)
             \/ SendJoined(c) \/ StreamEnds(c) \/ RemoveListener(c) \/ CloseListen(c)
      PROVE  HubsOK'
  BY <1>2, SameHubs
     DEF JoinRoom, Disconnect, RegisterListener, SendJoined, StreamEnds,
         RemoveListener, CloseListen
<1>3. ASSUME NEW c \in Connections, CreateRoomHub(c)
      PROVE  HubsOK'
  <2>1. CASE StillMissing
    <3>1. current' <= made' /\ OneLiveHub'
      BY <1>3, <2>1, MakeOneHub DEF CreateRoomHub, StillMissing
    <3> QED
      BY <1>3, <2>1, <3>1 DEF CreateRoomHub, HubsOK, RoomsInUseNeverPanic
  <2>2. CASE ~StillMissing
    BY <1>3, <2>2, SameHubs DEF CreateRoomHub
  <2> QED
    BY <2>1, <2>2
<1>4. CASE SubmitInRoom
  <2>1. CASE current = None
    <3>1. current' <= made' /\ OneLiveHub'
      BY <1>4, <2>1, MakeOneHub DEF SubmitInRoom
    <3> QED
      BY <1>4, <2>1, <3>1 DEF SubmitInRoom, HubsOK, RoomsInUseNeverPanic
  <2>2. CASE current # None
    BY <1>4, <2>2, SameHubs DEF SubmitInRoom
  <2> QED
    BY <2>1, <2>2
<1>5. CASE HandleRoomMessage
  <2>1. current' <= made' /\ OneLiveHub'
    BY <1>5, MakeOneHub DEF HandleRoomMessage
  <2> QED
    BY <1>5, <2>1 DEF HandleRoomMessage, HubsOK, RoomsInUseNeverPanic
<1>6. CASE Tick \/ LeaveRoom
  BY <1>6, SameHubs DEF Tick, LeaveRoom
<1>7. CASE ReceiveExpired \/ FindRoom
  BY <1>7 DEF ReceiveExpired, FindRoom, HubsOK, OneLiveHub, RoomsInUseNeverPanic
<1>8. CASE SendExpired
  <2>1. CASE closed[target] /\ Panic
    <3>1. target \in Hubs
      BY <1>8 DEF SendExpired, HubsOK, TypeOK
    <3> QED
      BY <2>1, <3>1, PanicOfClosed
  <2>2. CASE ~(closed[target] /\ Panic)
    BY <1>8, <2>2 DEF SendExpired, HubsOK, OneLiveHub, RoomsInUseNeverPanic
  <2> QED
    BY <2>1, <2>2
<1>9. CASE FindInactive
  BY <1>9 DEF FindInactive, HubsOK, OneLiveHub, RoomsInUseNeverPanic
<1>10. CASE RemoveInactive
  <2>1. sweeping = current /\ current \in Hubs
    BY <1>10 DEF RemoveInactive, HubsOK, TypeOK
  <2>2. CASE closed[sweeping]
    BY <1>10, <2>1, <2>2, PanicOfClosed DEF RemoveInactive
  <2>3. CASE ~closed[sweeping]
    <3>1. /\ closed' = [closed EXCEPT ![sweeping] = TRUE]
          /\ current' = None /\ sweeping' = None
          /\ UNCHANGED <<made, crashed, message, target>>
      BY <1>10, <2>3 DEF RemoveInactive
    <3>2. closed \in [Hubs -> BOOLEAN] /\ made \in 0 .. MaxHubs
      BY DEF TypeOK
    <3>3. \A k \in Hubs : closed'[k] = (k = current \/ closed[k])
      BY <2>1, <3>1, <3>2
    <3>4. 1 .. made \subseteq Hubs
      BY <3>2, RoomHubAssumption DEF Hubs
    <3>5. OneLiveHub' /\ RoomsInUseNeverPanic'
      BY <3>1, <3>3, <3>4 DEF HubsOK, OneLiveHub, RoomsInUseNeverPanic
    <3>6. current' <= made'
      BY <3>1, <3>2 DEF None
    <3> QED
      BY <3>1, <3>5, <3>6 DEF HubsOK
  <2> QED
    BY <2>2, <2>3
<1>11. ASSUME NEW h \in Hubs,
              SendLeft(h) \/ SendResult(h)
       PROVE  HubsOK'
  <2>1. CASE closed[h] /\ Panic
    BY <2>1, PanicOfClosed
  <2>2. CASE ~(closed[h] /\ Panic)
    BY <1>11, <2>2, SameHubs DEF SendLeft, SendResult
  <2> QED
    BY <2>1, <2>2
<1>12. ASSUME NEW h \in Hubs,
              ProcessEventExpired(h) \/ CloseListeners(h)
       PROVE  HubsOK'
  <2>1. \A c \in listeners[h] : open[c]
    BY DEF ListenersAreOpen
  <2> QED
    BY <1>12, <2>1, SameHubs DEF ProcessEventExpired, CloseListeners
<1>13. ASSUME NEW h \in Hubs,
              \/ TakeSubmitted(h) \/ ExecuteCode(h) \/ TakeOther(h) \/ Stop(h)
              \/ CleanupDue(h) \/ BecomeQuiet(h)
       PROVE  HubsOK'
  BY <1>13, SameHubs
     DEF TakeSubmitted, ExecuteCode, TakeOther, Stop, CleanupDue, BecomeQuiet
<1>14. ASSUME NEW h \in Hubs, CloseEvents(h)
       PROVE  HubsOK'
  <2>1. CASE closed[h]
    BY <1>14, <2>1, PanicOfClosed DEF CloseEvents
  <2>2. CASE ~closed[h]
    BY <1>14, <2>2, CloseHub DEF CloseEvents
  <2> QED
    BY <2>1, <2>2
<1> QED
  BY <1>1, <1>2, <1>3, <1>4, <1>5, <1>6, <1>7, <1>8, <1>9, <1>10, <1>11, <1>12,
     <1>13, <1>14
     DEF Next, ConnectionStep, MessageStep, HubStep, CleanupStep

\* The initial states have the invariant.
LEMMA InitInv == Init => IInv
<1> SUFFICES ASSUME Init PROVE IInv
  OBVIOUS
<1>1. TypeOK
  BY InitType
<1>2. \A h \in Hubs : listeners[h] = {}
  BY DEF Init
<1>3. /\ current = 0 /\ made = 0 /\ sweeping = None /\ message = "none"
      /\ crashed = FALSE
  BY DEF Init, None
<1>4. ListenersAreOpen
  BY <1>2 DEF ListenersAreOpen
<1>5. OneLiveHub /\ RoomsInUseNeverPanic
  BY <1>3 DEF OneLiveHub, RoomsInUseNeverPanic
<1> QED
  BY <1>1, <1>3, <1>4, <1>5 DEF IInv

\* Every step preserves the invariant.
LEMMA InvStep == IInv /\ [Next]_vars => IInv'
<1> SUFFICES ASSUME IInv, [Next]_vars PROVE IInv'
  OBVIOUS
<1>1. TypeOK /\ ListenersAreOpen /\ HubsOK
  BY DEF IInv, HubsOK
<1>2. TypeOK' /\ ListenersAreOpen' /\ HubsOK'
  BY <1>1, TypeStep, ListenersStep, HubsStep
<1> QED
  BY <1>2 DEF IInv, HubsOK

\* The inductive invariant holds in every reachable state, for any capacity
\* and any number of connections, hubs and requests.
THEOREM Invariant == Spec => []IInv
BY InitInv, InvStep, PTL DEF Spec

\* No hub ever sends to or closes the channel of a connection that is gone.
THEOREM ListenersCorrect == Spec => []ListenersAreOpen
<1>1. IInv => ListenersAreOpen
  BY DEF IInv
<1> QED
  BY <1>1, Invariant, PTL

\* A room never has two live hubs in one instance.
THEOREM OneHubCorrect == Spec => []OneLiveHub
<1>1. IInv => OneLiveHub
  BY DEF IInv
<1> QED
  BY <1>1, Invariant, PTL

\* Nothing panics before a hub is given up.
THEOREM NoPanicCorrect == Spec => []RoomsInUseNeverPanic
<1>1. IInv => RoomsInUseNeverPanic
  BY DEF IInv
<1> QED
  BY <1>1, Invariant, PTL
===============================================================================
