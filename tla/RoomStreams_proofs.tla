------------------------- MODULE RoomStreams_proofs -------------------------
(***************************************************************************)
(* Proofs about RoomStreams, for any number of instances, players,         *)
(* solutions and failures.                                                 *)
(***************************************************************************)
EXTENDS RoomStreams, FiniteSetTheorems, TLAPS

-------------------------------------------------------------------------------
(* Queues                                                                  *)

\* A message is put behind the others.
LEMMA Appended ==
    ASSUME NEW S, NEW s \in Seq(S), NEW m \in S
    PROVE  /\ Append(s, m) \in Seq(S) /\ Append(s, m) # <<>>
           /\ ToSet(Append(s, m)) = ToSet(s) \cup {m}
           /\ Last(Append(s, m)) = m
           /\ IsInjective(s) /\ m \notin ToSet(s) => IsInjective(Append(s, m))
<1>1. /\ Append(s, m) \in Seq(S)
      /\ Len(s) \in Nat /\ Len(Append(s, m)) = Len(s) + 1
      /\ DOMAIN s = 1..Len(s) /\ DOMAIN Append(s, m) = 1..Len(s) + 1
      /\ \A n \in 1..Len(s) : Append(s, m)[n] = s[n]
      /\ Append(s, m)[Len(s) + 1] = m
  OBVIOUS
<1>2. DOMAIN Append(s, m) = DOMAIN s \cup {Len(s) + 1} /\ Append(s, m) # <<>>
  BY <1>1
<1>3. ToSet(Append(s, m)) = ToSet(s) \cup {m}
  BY <1>1, <1>2 DEF ToSet
<1>4. Last(Append(s, m)) = m
  BY <1>1 DEF Last
<1>5. ASSUME IsInjective(s), m \notin ToSet(s)
      PROVE  IsInjective(Append(s, m))
  BY <1>1, <1>2, <1>5 DEF IsInjective, ToSet
<1> QED
  BY <1>1, <1>2, <1>3, <1>4, <1>5

\* The first message is taken.
LEMMA Taken ==
    ASSUME NEW S, NEW s \in Seq(S), s # <<>>
    PROVE  /\ Tail(s) \in Seq(S) /\ Head(s) \in S
           /\ ToSet(s) = ToSet(Tail(s)) \cup {Head(s)}
           /\ IsInjective(s) => IsInjective(Tail(s)) /\ Head(s) \notin ToSet(Tail(s))
           /\ Last(s) = IF Tail(s) = <<>> THEN Head(s) ELSE Last(Tail(s))
<1>1. /\ Tail(s) \in Seq(S) /\ Head(s) \in S /\ Head(s) = s[1]
      /\ Len(s) \in Nat \ {0} /\ Len(Tail(s)) = Len(s) - 1
      /\ DOMAIN s = 1..Len(s) /\ DOMAIN Tail(s) = 1..Len(s) - 1
      /\ \A n \in 1..Len(s) - 1 : Tail(s)[n] = s[n + 1]
      /\ Tail(s) = <<>> <=> Len(s) = 1
  <2>1. Len(s) \in Nat \ {0} /\ DOMAIN s = 1..Len(s) /\ Head(s) = s[1]
    OBVIOUS
  <2>2. Head(s) \in S
    BY <2>1
  <2>3. /\ Tail(s) \in Seq(S)
        /\ Len(Tail(s)) = Len(s) - 1
        /\ DOMAIN Tail(s) = 1..Len(Tail(s))
    OBVIOUS
  <2>4. \A n \in 1..Len(s) - 1 : Tail(s)[n] = s[n + 1]
    OBVIOUS
  <2>5. Tail(s) = <<>> <=> Len(s) = 1
    <3>1. \A t \in Seq(S) : t = <<>> <=> Len(t) = 0
      OBVIOUS
    <3>2. Tail(s) = <<>> <=> Len(Tail(s)) = 0
      BY <2>3, <3>1
    <3> QED
      BY <2>1, <2>3, <3>2
  <2> QED
    BY <2>1, <2>2, <2>3, <2>4, <2>5
<1>2. ToSet(s) = ToSet(Tail(s)) \cup {Head(s)}
  <2>1. \A n \in DOMAIN s : n = 1 \/ (n - 1 \in DOMAIN Tail(s) /\ s[n] = Tail(s)[n - 1])
    BY <1>1
  <2>2. \A n \in DOMAIN Tail(s) : n + 1 \in DOMAIN s /\ Tail(s)[n] = s[n + 1]
    BY <1>1
  <2>3. 1 \in DOMAIN s
    BY <1>1
  <2> QED
    BY <1>1, <2>1, <2>2, <2>3 DEF ToSet
<1>3. ASSUME IsInjective(s)
      PROVE  IsInjective(Tail(s)) /\ Head(s) \notin ToSet(Tail(s))
  <2>1. \A n \in DOMAIN Tail(s) : /\ n \in Nat /\ n > 0
                                  /\ n + 1 \in DOMAIN s /\ Tail(s)[n] = s[n + 1]
    BY <1>1
  <2>2. ASSUME NEW n \in DOMAIN Tail(s) PROVE Tail(s)[n] # s[1]
    BY <1>1, <1>3, <2>1 DEF IsInjective
  <2>3. ASSUME NEW n \in DOMAIN Tail(s), NEW m \in DOMAIN Tail(s), Tail(s)[n] = Tail(s)[m]
        PROVE  n = m
    BY <1>3, <2>1, <2>3 DEF IsInjective
  <2> QED
    BY <1>1, <2>2, <2>3 DEF IsInjective, ToSet
<1>4. Last(s) = IF Tail(s) = <<>> THEN Head(s) ELSE Last(Tail(s))
  BY <1>1 DEF Last
<1> QED
  BY <1>1, <1>2, <1>3, <1>4

\* An empty queue.
LEMMA NoMessage == ToSet(<<>>) = {} /\ IsInjective(<<>>)
BY DEF ToSet, IsInjective

\* A message of i is put into every queue.
LEMMA AfterPublish ==
    ASSUME TypeOK, NEW i \in Instances, NEW m \in Messages, wire' = EveryQueue(i, m)
    PROVE  /\ wire' \in [Instances -> [Instances -> Seq(Messages)]]
           /\ \A k \in Instances :
                 /\ wire[i][k] \in Seq(Messages)
                 /\ wire'[i][k] = Append(wire[i][k], m) /\ wire'[i][k] # <<>>
                 /\ ToSet(wire'[i][k]) = ToSet(wire[i][k]) \cup {m}
                 /\ Last(wire'[i][k]) = m
                 /\ IsInjective(wire[i][k]) /\ m \notin ToSet(wire[i][k]) =>
                       IsInjective(wire'[i][k])
           /\ \A j \in Instances \ {i}, k \in Instances : wire'[j][k] = wire[j][k]
<1>1. wire \in [Instances -> [Instances -> Seq(Messages)]]
  BY DEF TypeOK
<1>2. /\ \A k \in Instances : wire'[i][k] = Append(wire[i][k], m)
      /\ \A j \in Instances \ {i} : wire'[j] = wire[j]
  BY <1>1 DEF EveryQueue
<1>3. \A k \in Instances : wire[i][k] \in Seq(Messages)
  BY <1>1
<1>4. wire' \in [Instances -> [Instances -> Seq(Messages)]]
  <2>1. \A k \in Instances : Append(wire[i][k], m) \in Seq(Messages)
    BY <1>3
  <2>2. [k \in Instances |-> Append(wire[i][k], m)] \in [Instances -> Seq(Messages)]
    BY <2>1
  <2> QED
    BY <1>1, <2>2 DEF EveryQueue
<1>5. ASSUME NEW k \in Instances
      PROVE  /\ wire'[i][k] # <<>>
             /\ ToSet(wire'[i][k]) = ToSet(wire[i][k]) \cup {m}
             /\ Last(wire'[i][k]) = m
             /\ IsInjective(wire[i][k]) /\ m \notin ToSet(wire[i][k]) =>
                   IsInjective(wire'[i][k])
  <2>1. PICK s \in Seq(Messages) : s = wire[i][k]
    BY <1>3
  <2>2. wire'[i][k] = Append(s, m)
    BY <1>2, <2>1
  <2> QED
    BY <2>1, <2>2, Appended
<1> QED
  BY <1>2, <1>3, <1>4, <1>5

\* A message of i is taken from the queue of k.
LEMMA AfterDispatch ==
    ASSUME TypeOK, NEW i \in Instances, NEW k \in Instances, DispatchEvent(i, k)
    PROVE  /\ wire[i][k] # <<>>
           /\ wire' \in [Instances -> [Instances -> Seq(Messages)]]
           /\ Head(wire[i][k]) \in Messages
           /\ ToSet(wire[i][k]) = ToSet(wire'[i][k]) \cup {Head(wire[i][k])}
           /\ IsInjective(wire[i][k]) =>
                 IsInjective(wire'[i][k]) /\ Head(wire[i][k]) \notin ToSet(wire'[i][k])
           /\ Last(wire[i][k]) = IF wire'[i][k] = <<>> THEN Head(wire[i][k])
                                                        ELSE Last(wire'[i][k])
           /\ \A j, l \in Instances : j # i \/ l # k => wire'[j][l] = wire[j][l]
<1>0. wire[i][k] # <<>> /\ wire' = [wire EXCEPT ![i][k] = Tail(@)]
  BY DEF DispatchEvent
<1>1. wire \in [Instances -> [Instances -> Seq(Messages)]]
  BY DEF TypeOK
<1>2. PICK s \in Seq(Messages) : s = wire[i][k]
  BY <1>1
<1>3. /\ Tail(s) \in Seq(Messages) /\ Head(s) \in Messages
      /\ ToSet(s) = ToSet(Tail(s)) \cup {Head(s)}
      /\ IsInjective(s) => IsInjective(Tail(s)) /\ Head(s) \notin ToSet(Tail(s))
      /\ Last(s) = IF Tail(s) = <<>> THEN Head(s) ELSE Last(Tail(s))
  BY <1>0, <1>2, Taken
<1>4. PICK t \in Seq(Messages) : t = Tail(s)
  BY <1>3
<1>5. wire' = [wire EXCEPT ![i][k] = t]
  BY <1>0, <1>1, <1>2, <1>4
<1>6. /\ wire'[i][k] = Tail(s)
      /\ \A j, l \in Instances : j # i \/ l # k => wire'[j][l] = wire[j][l]
  BY <1>1, <1>4, <1>5
<1>7. wire' \in [Instances -> [Instances -> Seq(Messages)]]
  BY <1>1, <1>5
<1> QED
  BY <1>0, <1>2, <1>3, <1>6, <1>7

-------------------------------------------------------------------------------
(* Types                                                                   *)

\* What the solutions, joins and leaves add up to is a board.
LEMMA BoardNumbers ==
    ASSUME NEW s \in 0..MaxEvents, NEW A \in SUBSET Players, NEW B \in SUBSET Players,
           NEW v \in Nat, v <= s + Cardinality(A) + Cardinality(B)
    PROVE  v \in Boards
<1>1. /\ Cardinality(A) \in Nat /\ Cardinality(A) <= Cardinality(Players)
      /\ Cardinality(B) \in Nat /\ Cardinality(B) <= Cardinality(Players)
      /\ Cardinality(Players) \in Nat /\ MaxEvents \in Nat
  BY StreamsAssumption, FS_Subset, FS_CardinalityType
<1> QED
  BY <1>1 DEF Boards, MaxChanges

\* Every change is counted.
LEMMA CountStep ==
    ASSUME TypeOK, ChangesCounted, [Next]_vars
    PROVE  ChangesCounted' /\ version' \in Nat
<1> USE DEF roomVars, playerVars
<1>0. /\ player \in [Players -> {"away", "joining", "joined", "closing", "leaving", "gone"}]
      /\ version \in Nat /\ solutions \in Nat
      /\ version <= solutions + Cardinality(Joined) + Cardinality(Left)
      /\ IsFiniteSet(Joined) /\ IsFiniteSet(Left)
      /\ Cardinality(Joined) \in Nat /\ Cardinality(Left) \in Nat
  <2>1. Joined \subseteq Players /\ Left \subseteq Players
    BY DEF Joined, Left
  <2>2. IsFiniteSet(Joined) /\ IsFiniteSet(Left)
    BY <2>1, StreamsAssumption, FS_Subset
  <2> QED
    BY <2>2, FS_CardinalityType, StreamsAssumption DEF TypeOK, ChangesCounted, Boards
<1>1. CASE UNCHANGED <<version, solutions, player>>
  BY <1>0, <1>1 DEF ChangesCounted, Joined, Left
<1>2. ASSUME NEW p \in Players, RegisterListener(p) \/ Disconnect(p) \/ ProcessPlayerLeft(p)
      PROVE  ChangesCounted' /\ version' \in Nat
  <2>1. UNCHANGED <<version, solutions>>
    BY <1>2 DEF RegisterListener, Disconnect, ProcessPlayerLeft, NoWrite
  <2>2. Joined' = Joined /\ Left' = Left
    BY <1>0, <1>2 DEF Joined, Left, RegisterListener, Disconnect, ProcessPlayerLeft
  <2> QED
    BY <1>0, <2>1, <2>2 DEF ChangesCounted
<1>3. ASSUME NEW p \in Players, ProcessPlayerJoined(p)
      PROVE  ChangesCounted' /\ version' \in Nat
  <2>1. version' \in {version, version + 1} /\ solutions' = solutions
    BY <1>3 DEF ProcessPlayerJoined, AddPlayerToRoom, Change
  <2>2. Joined' = Joined \cup {p} /\ Left' = Left /\ p \notin Joined
    BY <1>0, <1>3 DEF Joined, Left, ProcessPlayerJoined
  <2>3. Cardinality(Joined \cup {p}) = Cardinality(Joined) + 1
    BY <1>0, <2>2, FS_AddElement
  <2> QED
    BY <1>0, <2>1, <2>2, <2>3 DEF ChangesCounted
<1>4. ASSUME NEW p \in Players, WriteDisconnected(p)
      PROVE  ChangesCounted' /\ version' \in Nat
  <2>1. version' \in {version, version + 1} /\ solutions' = solutions
    BY <1>4 DEF WriteDisconnected, Change
  <2>2. Joined' = Joined /\ Left' = Left \cup {p} /\ p \notin Left
    BY <1>0, <1>4 DEF Joined, Left, WriteDisconnected
  <2>3. Cardinality(Left \cup {p}) = Cardinality(Left) + 1
    BY <1>0, <2>2, FS_AddElement
  <2> QED
    BY <1>0, <2>1, <2>2, <2>3 DEF ChangesCounted
<1>5. ASSUME NEW i \in Instances, ProcessSolutionResult(i)
      PROVE  ChangesCounted' /\ version' \in Nat
  <2>1. version' = version + 1 /\ solutions' = solutions + 1 /\ player' = player
    BY <1>5 DEF ProcessSolutionResult, Change
  <2> QED
    BY <1>0, <2>1 DEF ChangesCounted, Joined, Left
<1>6. ASSUME NEW i \in Instances, GetRoomLeaderboardEntries(i) \/ PublishEvent(i)
      PROVE  UNCHANGED <<version, solutions, player>>
  BY <1>6 DEF GetRoomLeaderboardEntries, PublishEvent
<1>7. ASSUME NEW i \in Instances, NEW k \in Instances, DispatchEvent(i, k)
      PROVE  UNCHANGED <<version, solutions, player>>
  BY <1>7 DEF DispatchEvent
<1>8. ASSUME NEW p \in Players, NEW m \in sending[p], Send(p, m)
      PROVE  UNCHANGED <<version, solutions, player>>
  BY <1>8 DEF Send
<1>9. CASE UNCHANGED vars
  BY <1>1, <1>9 DEF vars
<1> QED
  BY <1>1, <1>2, <1>3, <1>4, <1>5, <1>6, <1>7, <1>8, <1>9 DEF Next, HubStep, StreamStep

\* So the number of changes stays that of a board.
LEMMA VersionStep ==
    ASSUME TypeOK, ChangesCounted, [Next]_vars, solutions' \in 0..MaxEvents
    PROVE  version' \in Boards
<1>1. version' \in Nat /\ version' <= solutions' + Cardinality(Joined') + Cardinality(Left')
  BY CountStep DEF ChangesCounted
<1>2. Joined' \in SUBSET Players /\ Left' \in SUBSET Players
  BY DEF Joined, Left
<1>3. ASSUME NEW s \in 0..MaxEvents, NEW A \in SUBSET Players, NEW B \in SUBSET Players,
             version' <= s + Cardinality(A) + Cardinality(B)
      PROVE  version' \in Boards
  BY <1>1, <1>3, BoardNumbers
<1> QED
  BY <1>1, <1>2, <1>3

\* A handler of a player keeps the types.
LEMMA TypeHandler ==
    ASSUME TypeOK, ChangesCounted, NEW p \in Players,
           RegisterListener(p) \/ Disconnect(p) \/ WriteDisconnected(p)
    PROVE  TypeOK'
<1> USE DEF roomVars, playerVars, historyVars, streamVars
<1>1. version' \in Boards
  <2>1. [Next]_vars /\ solutions' = solutions
    BY DEF Next, RegisterListener, Disconnect, WriteDisconnected
  <2> QED
    BY <2>1, VersionStep DEF TypeOK
<1>2. /\ player' \in [Players -> {"away", "joining", "joined", "closing", "leaving", "gone"}]
      /\ since' \in [Players -> Nat]
  BY DEF TypeOK, RegisterListener, Disconnect, WriteDisconnected
<1>3. UNCHANGED <<solutions, hub, published, wire, streamVars, joinedAt, lost, raced>>
  BY DEF RegisterListener, Disconnect, WriteDisconnected
<1>4. failures' \in Nat
  BY DEF TypeOK, RegisterListener, Disconnect, WriteDisconnected, Fails
<1> QED
  BY <1>1, <1>2, <1>3, <1>4 DEF TypeOK

\* What a hub may be doing.
LEMMA HubTypes ==
    /\ Idle \in HubStates
    /\ [at |-> "read"] \in HubStates /\ [at |-> "readLeft"] \in HubStates
    /\ \A b \in Boards : [at |-> "publish", board |-> b] \in HubStates
    /\ 0 \in Boards
    /\ \A h \in HubStates : h.at = "publish" => h.board \in Boards
    /\ \A h \in HubStates : h # Idle => h.at \in {"read", "readLeft", "publish"}
<1>1. 0 \in Boards
  BY StreamsAssumption, FS_CardinalityType DEF Boards, MaxChanges
<1> QED
  BY <1>1 DEF HubStates, Idle

\* The goroutine of a hub keeps the types.
LEMMA TypeHub ==
    ASSUME TypeOK, ChangesCounted, NEW i \in Instances,
           HubStep(i) \/ ProcessSolutionResult(i)
    PROVE  TypeOK'
<1> USE DEF roomVars, playerVars, historyVars, streamVars
<1>0. [Next]_vars
  BY DEF Next
<1>1. ASSUME NEW p \in Players, HomeOf[p] = i, ProcessPlayerJoined(p)
      PROVE  TypeOK'
  <2>1. UNCHANGED <<solutions, published, wire, streamVars, since>>
    BY <1>1 DEF ProcessPlayerJoined
  <2>2. version' \in Boards
    BY <1>0, <2>1, VersionStep DEF TypeOK
  <2>3. /\ player' \in [Players -> {"away", "joining", "joined", "closing", "leaving", "gone"}]
        /\ joinedAt' \in [Players -> Boards]
    <3>1. \/ joinedAt' = joinedAt
          \/ joinedAt' = [joinedAt EXCEPT ![p] = version']
      BY <1>1 DEF ProcessPlayerJoined, AddPlayerToRoom, Change
    <3> QED
      BY <1>1, <2>2, <3>1 DEF TypeOK, ProcessPlayerJoined
  <2>4. hub' \in [Instances -> HubStates] /\ raced' \subseteq Players
    BY <1>1, HubTypes DEF TypeOK, ProcessPlayerJoined, Goto, Race
  <2>5. failures' \in Nat /\ lost' \subseteq Players
    BY <1>1 DEF TypeOK, ProcessPlayerJoined, Fails
  <2> QED
    BY <2>1, <2>2, <2>3, <2>4, <2>5 DEF TypeOK
<1>2. ASSUME NEW p \in Players, HomeOf[p] = i, ProcessPlayerLeft(p)
      PROVE  TypeOK'
  <2>1. UNCHANGED <<version, solutions, published, wire, streamVars, joinedAt, since,
                    failures, lost>>
    BY <1>2 DEF ProcessPlayerLeft, NoWrite
  <2>2. player' \in [Players -> {"away", "joining", "joined", "closing", "leaving", "gone"}]
    BY <1>2 DEF TypeOK, ProcessPlayerLeft
  <2>3. hub' \in [Instances -> HubStates] /\ raced' \subseteq Players
    BY <1>2, HubTypes DEF TypeOK, ProcessPlayerLeft, Goto, Race
  <2> QED
    BY <2>1, <2>2, <2>3 DEF TypeOK
<1>3. CASE ProcessSolutionResult(i)
  <2>1. UNCHANGED <<published, wire, streamVars, playerVars>>
    BY <1>3 DEF ProcessSolutionResult
  <2>2. solutions' \in 0..MaxEvents
    BY <1>3, StreamsAssumption DEF TypeOK, ProcessSolutionResult, Within
  <2>3. version' \in Boards
    BY <1>0, <2>2, VersionStep
  <2>4. hub' \in [Instances -> HubStates] /\ raced' \subseteq Players
    BY <1>3, HubTypes DEF TypeOK, ProcessSolutionResult, Goto, Race
  <2>5. failures' \in Nat /\ lost' \subseteq Players
    BY <1>3 DEF TypeOK, ProcessSolutionResult, Fails
  <2> QED
    BY <2>1, <2>2, <2>3, <2>4, <2>5 DEF TypeOK
<1>4. CASE GetRoomLeaderboardEntries(i)
  <2>1. UNCHANGED <<roomVars, published, wire, streamVars, playerVars, raced>>
    BY <1>4 DEF GetRoomLeaderboardEntries
  <2>2. hub' \in [Instances -> HubStates]
    BY <1>4, HubTypes DEF TypeOK, GetRoomLeaderboardEntries, Goto, CurrentBoard
  <2>3. failures' \in Nat /\ lost' \subseteq Players
    BY <1>4 DEF TypeOK, GetRoomLeaderboardEntries, Fails
  <2> QED
    BY <2>1, <2>2, <2>3 DEF TypeOK
<1>5. CASE PublishEvent(i)
  <2>1. UNCHANGED <<roomVars, streamVars, playerVars, raced>>
    BY <1>5 DEF PublishEvent
  <2>2. hub' \in [Instances -> HubStates]
    BY <1>5, HubTypes DEF TypeOK, PublishEvent, Goto
  <2>3. failures' \in Nat /\ lost' \subseteq Players
    BY <1>5 DEF TypeOK, PublishEvent, Fails
  <2>4. published' \in Nat /\ wire' \in [Instances -> [Instances -> Seq(Messages)]]
    <3>1. [number |-> published + 1, board |-> hub[i].board] \in Messages
      BY <1>5, HubTypes DEF TypeOK, PublishEvent, Messages
    <3>2. PICK m \in Messages : m = [number |-> published + 1, board |-> hub[i].board]
      BY <3>1
    <3>3. wire' = EveryQueue(i, m) \/ UNCHANGED wire
      BY <1>5, <3>2 DEF PublishEvent
    <3>4. wire' \in [Instances -> [Instances -> Seq(Messages)]]
      BY <3>3, AfterPublish DEF TypeOK
    <3>5. published \in Nat /\ published' \in {published, published + 1}
      BY <1>5 DEF TypeOK, PublishEvent
    <3> QED
      BY <3>4, <3>5
  <2> QED
    BY <2>1, <2>2, <2>3, <2>4 DEF TypeOK
<1> QED
  BY <1>1, <1>2, <1>3, <1>4, <1>5 DEF HubStep

\* The way to the streams keeps the types.
LEMMA TypeStream ==
    ASSUME TypeOK,
           \/ \E i, k \in Instances : DispatchEvent(i, k)
           \/ \E p \in Players : StreamStep(p)
    PROVE  TypeOK'
<1> USE DEF roomVars, playerVars, historyVars, streamVars
<1>1. ASSUME NEW i \in Instances, NEW k \in Instances, DispatchEvent(i, k)
      PROVE  TypeOK'
  <2>1. UNCHANGED <<roomVars, hub, published, shown, received, playerVars, failures, lost>>
    BY <1>1 DEF DispatchEvent
  <2>2. PICK m \in Messages : m = Head(wire[i][k])
    BY <1>1, AfterDispatch
  <2>3. sending' \in [Players -> SUBSET Messages]
    BY <1>1, <2>2 DEF TypeOK, DispatchEvent
  <2>4. wire' \in [Instances -> [Instances -> Seq(Messages)]]
    BY <1>1, AfterDispatch
  <2>5. raced' \subseteq Players
    BY <1>1 DEF TypeOK, DispatchEvent, Targets, Listeners
  <2> QED
    BY <2>1, <2>3, <2>4, <2>5 DEF TypeOK
<1>2. ASSUME NEW p \in Players, NEW m \in sending[p], Send(p, m)
      PROVE  TypeOK'
  <2>1. UNCHANGED <<roomVars, hub, published, wire, playerVars, raced>>
    BY <1>2 DEF Send
  <2>2. m \in Messages /\ m.board \in Boards
    BY DEF TypeOK, Messages
  <2>3. /\ sending' \in [Players -> SUBSET Messages] /\ shown' \in [Players -> Boards]
        /\ received' \in [Players -> SUBSET Messages]
    <3>1. /\ sending' = [sending EXCEPT ![p] = @ \ {m}]
          /\ shown' = [shown EXCEPT ![p] = m.board] \/ shown' = shown
          /\ received' = [received EXCEPT ![p] = @ \cup {m}] \/ received' = received
      BY <1>2 DEF Send
    <3>2. sending' \in [Players -> SUBSET Messages]
      BY <3>1 DEF TypeOK
    <3>3. shown' \in [Players -> Boards]
      BY <2>2, <3>1 DEF TypeOK
    <3>4. received' \in [Players -> SUBSET Messages]
      <4>1. received \in [Players -> SUBSET Messages]
        BY DEF TypeOK
      <4>2. received[p] \cup {m} \in SUBSET Messages
        BY <2>2, <4>1
      <4> QED
        BY <3>1, <4>1, <4>2
    <3> QED
      BY <3>2, <3>3, <3>4
  <2>4. failures' \in Nat /\ lost' \subseteq Players
    BY <1>2 DEF TypeOK, Send, Fails
  <2> QED
    BY <2>1, <2>3, <2>4 DEF TypeOK
<1> QED
  BY <1>1, <1>2 DEF StreamStep

\* Every step keeps the types.
LEMMA TypeStep == ASSUME TypeOK, ChangesCounted, [Next]_vars PROVE TypeOK'
<1>1. CASE UNCHANGED vars
  BY <1>1 DEF TypeOK, vars, roomVars, playerVars, historyVars, streamVars
<1> QED
  BY <1>1, TypeHandler, TypeHub, TypeStream DEF Next

-------------------------------------------------------------------------------
(* Each leaderboard is in one place                                        *)

\* Three kinds of steps move messages.
LEMMA Moves ==
    ASSUME [Next]_vars
    PROVE  \/ UNCHANGED <<published, wire, sending, shown, received>>
           \/ \E i \in Instances : PublishEvent(i)
           \/ \E i, k \in Instances : DispatchEvent(i, k)
           \/ \E p \in Players : \E m \in sending[p] : Send(p, m)
<1> USE DEF roomVars, playerVars, historyVars, streamVars
<1>1. ASSUME NEW p \in Players,
             \/ RegisterListener(p) \/ Disconnect(p) \/ WriteDisconnected(p)
             \/ ProcessPlayerJoined(p) \/ ProcessPlayerLeft(p)
      PROVE  UNCHANGED <<published, wire, sending, shown, received>>
  BY <1>1 DEF RegisterListener, Disconnect, WriteDisconnected, ProcessPlayerJoined,
     ProcessPlayerLeft
<1>2. ASSUME NEW i \in Instances, ProcessSolutionResult(i) \/ GetRoomLeaderboardEntries(i)
      PROVE  UNCHANGED <<published, wire, sending, shown, received>>
  BY <1>2 DEF ProcessSolutionResult, GetRoomLeaderboardEntries
<1>3. CASE UNCHANGED vars
  BY <1>3 DEF vars
<1> QED
  BY <1>1, <1>2, <1>3 DEF Next, HubStep, StreamStep

\* A publication fails for everyone, or is a new message for every queue.
LEMMA Publication ==
    ASSUME TypeOK, NEW i \in Instances, PublishEvent(i)
    PROVE  \/ lost' = Players /\ UNCHANGED <<published, wire>>
           \/ \E m \in Messages : /\ published' = published + 1
                                  /\ m.number = published + 1 /\ m.board = hub[i].board
                                  /\ wire' = EveryQueue(i, m)
<1> DEFINE m == [number |-> published + 1, board |-> hub[i].board]
<1>1. hub[i] \in HubStates /\ hub[i].at = "publish" /\ published \in Nat
  BY DEF PublishEvent, TypeOK
<1>2. m \in Messages /\ m.number = published + 1 /\ m.board = hub[i].board
  BY <1>1, HubTypes DEF Messages
<1> QED
  BY <1>2 DEF PublishEvent

\* A publication adds a message that is nowhere else, a dispatch hands the head
\* of a queue to goroutines, and a goroutine hands it to the player or drops it.
LEMMA InOnePlaceStep ==
    ASSUME TypeOK, InOnePlace, [Next]_vars
    PROVE  InOnePlace'
<1>1. CASE UNCHANGED <<published, wire, sending, shown, received>>
  BY <1>1 DEF InOnePlace
<1>2. ASSUME NEW i \in Instances, PublishEvent(i)
      PROVE  InOnePlace'
  <2>1. UNCHANGED <<sending, received>>
    BY <1>2 DEF PublishEvent, streamVars
  <2>2. CASE UNCHANGED <<published, wire>>
    BY <2>1, <2>2 DEF InOnePlace
  <2>3. ASSUME NEW m \in Messages, published' = published + 1,
               m.number = published + 1, wire' = EveryQueue(i, m)
        PROVE  InOnePlace'
    <3>1. m.number = published + 1
      BY <2>3
    <3>2. wire' = EveryQueue(i, m) /\ published \in Nat
      BY <2>3 DEF TypeOK
    <3>3. \A j, k \in Instances : \A n \in ToSet(wire[j][k]) : n.number <= published /\ n # m
      BY <3>1, <3>2 DEF InOnePlace
    <3>4. \A p \in Players : \A n \in sending[p] \cup received[p] :
             n.number <= published /\ n # m
      BY <3>1, <3>2 DEF InOnePlace
    <3>5. \A k \in Instances :
             /\ ToSet(wire'[i][k]) = ToSet(wire[i][k]) \cup {m}
             /\ IsInjective(wire'[i][k])
             /\ \A j \in Instances \ {i} : wire'[j][k] = wire[j][k]
      <4>1. \A k \in Instances : IsInjective(wire[i][k]) /\ m \notin ToSet(wire[i][k])
        BY <3>3 DEF InOnePlace
      <4>2. \A k \in Instances : ToSet(wire'[i][k]) = ToSet(wire[i][k]) \cup {m}
        BY <3>2, AfterPublish
      <4>3. \A k \in Instances : IsInjective(wire'[i][k])
        BY <3>2, <4>1, AfterPublish
      <4>4. \A j \in Instances \ {i}, k \in Instances : wire'[j][k] = wire[j][k]
        BY <3>2, AfterPublish
      <4> QED
        BY <4>2, <4>3, <4>4
    <3>6. \A j, k \in Instances : \A n \in ToSet(wire'[j][k]) :
             n \in ToSet(wire[j][k]) \/ (j = i /\ n = m)
      BY <3>5
    <3>7. \A j, k \in Instances : IsInjective(wire'[j][k])
      BY <3>5 DEF InOnePlace
    <3>8. \A j, k \in Instances : \A n \in ToSet(wire'[j][k]) : n.number <= published'
      <4>1. \A n : n.number <= published /\ n.number \in Nat => n.number <= published + 1
        BY <3>2
      <4>2. \A j, k \in Instances : \A n \in ToSet(wire[j][k]) : n \in Messages
        BY DEF TypeOK, ToSet
      <4>3. \A n \in Messages : n.number \in Nat
        BY DEF Messages
      <4>4. \A j, k \in Instances : \A n \in ToSet(wire[j][k]) : n.number <= published + 1
        BY <3>2, <3>3, <4>2, <4>3
      <4> QED
        BY <2>3, <3>1, <3>2, <3>6, <4>4
    <3>9. \A p \in Players : \A n \in sending[p] \cup received[p] : n.number <= published'
      <4>1. \A p \in Players : \A n \in sending[p] \cup received[p] : n.number \in Nat
        BY DEF TypeOK, Messages
      <4> QED
        BY <2>3, <3>2, <3>4, <4>1
    <3>10. \A k, j, l \in Instances : j # l => ToSet(wire'[j][k]) \cap ToSet(wire'[l][k]) = {}
      BY <3>3, <3>6 DEF InOnePlace
    <3>11. \A p \in Players : \A n \in sending[p] \cup received[p] :
              \A j \in Instances : n \notin ToSet(wire'[j][HomeOf[p]])
      <4>1. ASSUME NEW p \in Players, NEW n \in sending[p] \cup received[p],
                   NEW j \in Instances
            PROVE  n \notin ToSet(wire'[j][HomeOf[p]])
        <5>1. n # m
          BY <3>4
        <5>2. n \notin ToSet(wire[j][HomeOf[p]])
          BY DEF InOnePlace
        <5>3. HomeOf[p] \in Instances
          BY StreamsAssumption
        <5> QED
          BY <3>6, <5>1, <5>2, <5>3
      <4> QED
        BY <4>1
    <3> QED
      BY <2>1, <3>7, <3>8, <3>9, <3>10, <3>11 DEF InOnePlace
  <2> QED
    BY <1>2, <2>2, <2>3, Publication
<1>3. ASSUME NEW i \in Instances, NEW k \in Instances, DispatchEvent(i, k)
      PROVE  InOnePlace'
  <2>1. PICK h \in Messages : h = Head(wire[i][k])
    BY <1>3, AfterDispatch
  <2>2. /\ ToSet(wire[i][k]) = ToSet(wire'[i][k]) \cup {h}
        /\ IsInjective(wire'[i][k]) /\ h \notin ToSet(wire'[i][k])
        /\ \A j, l \in Instances : j # i \/ l # k => wire'[j][l] = wire[j][l]
    <3>1. IsInjective(wire[i][k])
      BY DEF InOnePlace
    <3>2. ToSet(wire[i][k]) = ToSet(wire'[i][k]) \cup {h}
      BY <1>3, <2>1, AfterDispatch
    <3>3. IsInjective(wire'[i][k]) /\ h \notin ToSet(wire'[i][k])
      BY <1>3, <2>1, <3>1, AfterDispatch
    <3>4. \A j, l \in Instances : j # i \/ l # k => wire'[j][l] = wire[j][l]
      BY <1>3, AfterDispatch
    <3> QED
      BY <3>2, <3>3, <3>4
  <2>3. published' = published /\ received' = received
    BY <1>3 DEF DispatchEvent
  <2>4. \A p \in Players : \/ sending'[p] = sending[p]
                           \/ HomeOf[p] = k /\ sending'[p] = sending[p] \cup {h}
    BY <1>3, <2>1 DEF DispatchEvent, Targets, Listeners
  <2>5. \A j, l \in Instances : /\ IsInjective(wire'[j][l])
                                /\ ToSet(wire'[j][l]) \subseteq ToSet(wire[j][l])
    BY <2>2 DEF InOnePlace
  <2>6. /\ h \in ToSet(wire[i][k]) /\ h.number <= published
        /\ \A j \in Instances : h \notin ToSet(wire'[j][k])
    BY <2>2, <2>5 DEF InOnePlace
  <2>7. \A p \in Players : HomeOf[p] = k => h \notin received[p]
    BY <2>6 DEF InOnePlace
  <2>8. ASSUME NEW j \in Instances, NEW l \in Instances
        PROVE  /\ \A m \in ToSet(wire'[j][l]) : m.number <= published
               /\ \A n \in Instances \ {j} : ToSet(wire'[j][l]) \cap ToSet(wire'[n][l]) = {}
    <3>1. \A m \in ToSet(wire'[j][l]) : m.number <= published
      BY <2>5 DEF InOnePlace
    <3>2. ASSUME NEW n \in Instances \ {j}
          PROVE  ToSet(wire'[j][l]) \cap ToSet(wire'[n][l]) = {}
      <4>1. ToSet(wire[j][l]) \cap ToSet(wire[n][l]) = {}
        BY DEF InOnePlace
      <4>2. ToSet(wire'[j][l]) \subseteq ToSet(wire[j][l])
            /\ ToSet(wire'[n][l]) \subseteq ToSet(wire[n][l])
        BY <2>5
      <4> QED
        BY <4>1, <4>2
    <3> QED
      BY <3>1, <3>2
  <2>9. ASSUME NEW p \in Players
        PROVE  /\ sending'[p] \cap received[p] = {}
               /\ \A m \in sending'[p] \cup received[p] :
                     /\ m.number <= published
                     /\ \A j \in Instances : m \notin ToSet(wire'[j][HomeOf[p]])
    <3>1. PICK l \in Instances : l = HomeOf[p]
      BY StreamsAssumption
    <3>2. /\ sending[p] \cap received[p] = {}
          /\ \A m \in sending[p] \cup received[p] :
                m.number <= published /\ \A j \in Instances : m \notin ToSet(wire[j][l])
      BY <3>1 DEF InOnePlace
    <3>3. \A m \in sending[p] \cup received[p] : \A j \in Instances : m \notin ToSet(wire'[j][l])
      BY <2>5, <3>2
    <3>4. CASE sending'[p] = sending[p]
      BY <3>1, <3>2, <3>3, <3>4
    <3>5. CASE l = k /\ sending'[p] = sending[p] \cup {h}
      BY <2>6, <2>7, <3>1, <3>2, <3>3, <3>5
    <3> QED
      BY <2>4, <3>1, <3>4, <3>5
  <2> QED
    BY <2>3, <2>5, <2>8, <2>9 DEF InOnePlace
<1>4. ASSUME NEW p \in Players, NEW m \in sending[p], Send(p, m)
      PROVE  InOnePlace'
  <2>1. UNCHANGED <<published, wire>>
    BY <1>4 DEF Send
  <2>2. /\ \A q \in Players \ {p} : sending'[q] = sending[q] /\ received'[q] = received[q]
        /\ sending'[p] = sending[p] \ {m}
        /\ received'[p] \subseteq received[p] \cup {m}
    BY <1>4 DEF Send, TypeOK
  <2>3. \A q \in Players : /\ sending'[q] \cap received'[q] = {}
                           /\ sending'[q] \cup received'[q] \subseteq sending[q] \cup received[q]
    <3>1. sending[p] \cap received[p] = {} /\ m \in sending[p]
      BY DEF InOnePlace
    <3>2. /\ sending'[p] \cap received'[p] = {}
          /\ sending'[p] \cup received'[p] \subseteq sending[p] \cup received[p]
      BY <2>2, <3>1
    <3> QED
      BY <2>2, <3>2 DEF InOnePlace
  <2> QED
    BY <2>1, <2>3 DEF InOnePlace
<1> QED
  BY <1>1, <1>2, <1>3, <1>4, Moves

-------------------------------------------------------------------------------
(* Nothing is missed                                                       *)

\* No step forgets who lost or raced.
LEMMA HistoryKept ==
    ASSUME TypeOK, [Next]_vars
    PROVE  lost \subseteq lost' /\ raced \subseteq raced'
<1> USE DEF roomVars, playerVars, historyVars, streamVars
<1>0. lost \subseteq Players /\ raced \subseteq Players
  BY DEF TypeOK
<1>1. ASSUME NEW p \in Players, RegisterListener(p) \/ Disconnect(p) \/ WriteDisconnected(p)
      PROVE  lost \subseteq lost' /\ raced \subseteq raced'
  BY <1>1 DEF RegisterListener, Disconnect, WriteDisconnected
<1>2. ASSUME NEW p \in Players, ProcessPlayerJoined(p) \/ ProcessPlayerLeft(p)
      PROVE  lost \subseteq lost' /\ raced \subseteq raced'
  BY <1>0, <1>2 DEF ProcessPlayerJoined, ProcessPlayerLeft, Race
<1>3. ASSUME NEW i \in Instances,
             ProcessSolutionResult(i) \/ GetRoomLeaderboardEntries(i) \/ PublishEvent(i)
      PROVE  lost \subseteq lost' /\ raced \subseteq raced'
  BY <1>0, <1>3 DEF ProcessSolutionResult, GetRoomLeaderboardEntries, PublishEvent, Race
<1>4. ASSUME NEW i \in Instances, NEW k \in Instances, DispatchEvent(i, k)
      PROVE  lost \subseteq lost' /\ raced \subseteq raced'
  BY <1>4 DEF DispatchEvent
<1>5. ASSUME NEW p \in Players, NEW m \in sending[p], Send(p, m)
      PROVE  lost \subseteq lost' /\ raced \subseteq raced'
  BY <1>5 DEF Send
<1>6. CASE UNCHANGED vars
  BY <1>6 DEF vars
<1> QED
  BY <1>1, <1>2, <1>3, <1>4, <1>5, <1>6 DEF Next, HubStep, StreamStep

\* What is on the way to p, and what he has.
LEMMA OnTheWayOrThere ==
    ASSUME NEW p \in Players
    PROVE  /\ \A m : m \in OnTheWay(p) \cup received[p] <=>
                 \/ m \in sending[p] \cup received[p]
                 \/ \E i \in Instances : m \in ToSet(wire[i][HomeOf[p]])
           /\ \A m : m \in OnTheWay(p)' \cup received'[p] <=>
                 \/ m \in sending'[p] \cup received'[p]
                 \/ \E i \in Instances : m \in ToSet(wire'[i][HomeOf[p]])
<1> DEFINE U == UNION {ToSet(wire[i][HomeOf[p]]) : i \in Instances}
           V == UNION {ToSet(wire'[i][HomeOf[p]]) : i \in Instances}
<1>1. OnTheWay(p) = U \cup sending[p] /\ OnTheWay(p)' = V \cup sending'[p]
  <2>1. OnTheWay(p) = U \cup sending[p]
    BY DEF OnTheWay
  <2>2. OnTheWay(p)' = V \cup sending'[p]
    BY Zenon DEF OnTheWay
  <2> QED
    BY <2>1, <2>2
<1>2. \A m : m \in U <=> \E i \in Instances : m \in ToSet(wire[i][HomeOf[p]])
  BY Zenon
<1>3. \A m : m \in V <=> \E i \in Instances : m \in ToSet(wire'[i][HomeOf[p]])
  BY Zenon
<1> HIDE DEF U, V
<1>4. \A m : m \in OnTheWay(p) \cup received[p] <=> m \in U \/ m \in sending[p] \cup received[p]
  BY <1>1
<1>5. \A m : m \in OnTheWay(p)' \cup received'[p] <=> m \in V \/ m \in sending'[p] \cup received'[p]
  BY <1>1
<1> QED
  BY <1>2, <1>3, <1>4, <1>5

\* What is published reaches the queues, and leaves them for the goroutines of
\* those who listen.
LEMMA CoveredStep ==
    ASSUME TypeOK, [Next]_vars, NEW p \in Players, Covered(p)
    PROVE  Covered(p)'
<1> USE DEF roomVars, playerVars, historyVars, streamVars
<1> SUFFICES ASSUME Listening(p)', p \notin lost'
             PROVE  \A n \in since'[p] + 1 .. published' :
                       n \in Numbers(OnTheWay(p)' \cup received'[p])
  BY DEF Covered, Numbers
<1> DEFINE All == OnTheWay(p) \cup received[p]
<1>0. /\ p \notin lost /\ HomeOf[p] \in Instances
      /\ published \in Nat /\ \A q \in Players : since[q] \in Nat
  BY HistoryKept, StreamsAssumption DEF TypeOK
<1>1. ASSUME Listening(p), since'[p] = since[p], published' = published,
             All \subseteq OnTheWay(p)' \cup received'[p]
      PROVE  \A n \in since'[p] + 1 .. published' :
                       n \in Numbers(OnTheWay(p)' \cup received'[p])
  BY <1>0, <1>1 DEF Covered, Numbers
<1>2. ASSUME UNCHANGED <<published, wire, sending, received>>,
             Listening(p), since'[p] = since[p]
      PROVE  \A n \in since'[p] + 1 .. published' :
                       n \in Numbers(OnTheWay(p)' \cup received'[p])
  BY <1>1, <1>2 DEF OnTheWay
<1>3. ASSUME NEW q \in Players, RegisterListener(q)
      PROVE  \A n \in since'[p] + 1 .. published' :
                       n \in Numbers(OnTheWay(p)' \cup received'[p])
  <2>1. CASE q = p
    <3>1. since'[p] = published /\ published' = published
      BY <1>3, <2>1 DEF RegisterListener, TypeOK
    <3> QED
      BY <1>0, <3>1
  <2>2. CASE q # p
    BY <1>2, <1>3, <2>2 DEF RegisterListener, TypeOK, Listening
  <2> QED
    BY <2>1, <2>2
<1>4. ASSUME NEW q \in Players,
             \/ Disconnect(q) \/ WriteDisconnected(q)
             \/ ProcessPlayerJoined(q) \/ ProcessPlayerLeft(q)
      PROVE  Listening(p) /\ UNCHANGED <<published, wire, sending, received, since>>
  BY <1>4 DEF Disconnect, WriteDisconnected, ProcessPlayerJoined, ProcessPlayerLeft,
     TypeOK, Listening
<1>5. ASSUME NEW i \in Instances, ProcessSolutionResult(i) \/ GetRoomLeaderboardEntries(i)
      PROVE  Listening(p) /\ UNCHANGED <<published, wire, sending, received, since>>
  BY <1>5 DEF ProcessSolutionResult, GetRoomLeaderboardEntries, Listening
<1>6. ASSUME NEW i \in Instances, PublishEvent(i)
      PROVE  \A n \in since'[p] + 1 .. published' :
                       n \in Numbers(OnTheWay(p)' \cup received'[p])
  <2>1. Listening(p) /\ UNCHANGED <<sending, received, since>>
    BY <1>6 DEF PublishEvent, Listening
  <2>2. PICK m \in Messages : /\ published' = published + 1
                              /\ m.number = published + 1
                              /\ wire' = EveryQueue(i, m)
    BY <1>6, Publication
  <2>3. \A j, k \in Instances : ToSet(wire[j][k]) \subseteq ToSet(wire'[j][k])
    <3>1. \A k \in Instances : ToSet(wire'[i][k]) = ToSet(wire[i][k]) \cup {m}
      BY <2>2, AfterPublish
    <3>2. \A j \in Instances \ {i}, k \in Instances : wire'[j][k] = wire[j][k]
      BY <2>2, AfterPublish
    <3> QED
      BY <3>1, <3>2
  <2>4. m \in ToSet(wire'[i][HomeOf[p]])
    <3>1. \A k \in Instances : ToSet(wire'[i][k]) = ToSet(wire[i][k]) \cup {m}
      BY <2>2, AfterPublish
    <3>2. m \in ToSet(wire[i][HomeOf[p]]) \cup {m}
      OBVIOUS
    <3> QED
      BY <1>0, <3>1, <3>2
  <2>5. All \subseteq OnTheWay(p)' \cup received'[p] /\ m \in OnTheWay(p)'
    BY <1>0, <2>1, <2>3, <2>4 DEF OnTheWay
  <2> SUFFICES ASSUME NEW n \in since'[p] + 1 .. published'
               PROVE  n \in Numbers(OnTheWay(p)' \cup received'[p])
    OBVIOUS
  <2>6. n \in since[p] + 1 .. published \/ n = published + 1
    BY <1>0, <2>1, <2>2
  <2>7. CASE n = published + 1
    BY <2>2, <2>5, <2>7 DEF Numbers
  <2>8. CASE n \in since[p] + 1 .. published
    BY <1>0, <2>1, <2>5, <2>8 DEF Covered, Numbers
  <2> QED
    BY <2>6, <2>7, <2>8
<1>7. ASSUME NEW i \in Instances, NEW k \in Instances, DispatchEvent(i, k)
      PROVE  \A n \in since'[p] + 1 .. published' :
                       n \in Numbers(OnTheWay(p)' \cup received'[p])
  <2>1. Listening(p) /\ UNCHANGED <<published, received, since>>
    BY <1>7 DEF DispatchEvent, Listening
  <2>2. PICK h \in Messages : h = Head(wire[i][k])
    BY <1>7, AfterDispatch
  <2>3. /\ ToSet(wire[i][k]) = ToSet(wire'[i][k]) \cup {h}
        /\ \A j, l \in Instances : j # i \/ l # k => wire'[j][l] = wire[j][l]
    <3>1. ToSet(wire[i][k]) = ToSet(wire'[i][k]) \cup {h}
      BY <1>7, <2>2, AfterDispatch
    <3>2. \A j, l \in Instances : j # i \/ l # k => wire'[j][l] = wire[j][l]
      BY <1>7, AfterDispatch
    <3> QED
      BY <3>1, <3>2
  <2>4. /\ sending[p] \subseteq sending'[p]
        /\ HomeOf[p] = k => h \in sending'[p]
    BY <1>7, <2>1, <2>2 DEF DispatchEvent, Targets, Listeners
  <2>5. \A j \in Instances : ToSet(wire[j][HomeOf[p]])
                                \subseteq ToSet(wire'[j][HomeOf[p]]) \cup sending'[p]
    BY <1>0, <2>3, <2>4
  <2>6. ASSUME NEW m \in All
        PROVE  m \in OnTheWay(p)' \cup received'[p]
    <3>1. m \in sending[p] => m \in sending'[p]
      BY <2>4
    <3>2. m \in received[p] => m \in received'[p]
      BY <2>1
    <3>3. \A j \in Instances : m \in ToSet(wire[j][HomeOf[p]]) =>
             m \in ToSet(wire'[j][HomeOf[p]]) \/ m \in sending'[p]
      BY <2>5
    <3> QED
      BY <3>1, <3>2, <3>3, OnTheWayOrThere
  <2> QED
    BY <1>1, <2>1, <2>6
<1>8. ASSUME NEW q \in Players, NEW m \in sending[q], Send(q, m)
      PROVE  \A n \in since'[p] + 1 .. published' :
                       n \in Numbers(OnTheWay(p)' \cup received'[p])
  <2>1. Listening(p) /\ UNCHANGED <<published, wire, since>>
    BY <1>8 DEF Send, Listening
  <2>2. sending[p] \cup received[p] \subseteq sending'[p] \cup received'[p]
    <3>1. CASE q = p
      BY <1>8, <2>1, <3>1 DEF Send, TypeOK
    <3>2. CASE q # p
      BY <1>8, <3>2 DEF Send, TypeOK
    <3> QED
      BY <3>1, <3>2
  <2>3. ASSUME NEW n \in All
        PROVE  n \in OnTheWay(p)' \cup received'[p]
    BY <2>1, <2>2, OnTheWayOrThere
  <2> QED
    BY <1>1, <2>1, <2>3
<1>9. CASE UNCHANGED vars
  BY <1>2, <1>9 DEF vars, Listening
<1> QED
  BY <1>2, <1>3, <1>4, <1>5, <1>6, <1>7, <1>8, <1>9 DEF Next, HubStep, StreamStep

-------------------------------------------------------------------------------
(* The last leaderboard                                                    *)

\* A hub that begins while another instance is busy makes a race of it.
LEMMA OneAtATimeStep ==
    ASSUME TypeOK, [Next]_vars, NEW p \in Players \ raced', OneAtATime(p)
    PROVE  OneAtATime(p)'
<1> USE DEF roomVars, playerVars, historyVars, streamVars
<1>0. hub \in [Instances -> HubStates] /\ HomeOf[p] \in Instances
      /\ \A q \in Players : HomeOf[q] \in Instances
  BY StreamsAssumption DEF TypeOK
<1>1. ASSUME \A j \in Instances : Busy(j)' => Busy(j), sending'[p] \subseteq sending[p]
      PROVE  OneAtATime(p)'
  BY <1>1 DEF OneAtATime
<1>2. ASSUME UNCHANGED <<hub, wire, sending>>
      PROVE  OneAtATime(p)'
  BY <1>1, <1>2 DEF Busy
<1>3. ASSUME NEW i \in Instances, NEW s, Goto(i, s), Race(i), UNCHANGED <<wire, sending>>
      PROVE  OneAtATime(p)'
  <2>1. \A j \in Instances \ {i} : ~ Busy(j) /\ hub'[j] = hub[j]
    BY <1>0, <1>3 DEF Race, Goto
  <2>2. \A j \in Instances \ {i} : ~ Busy(j)'
    BY <1>3, <2>1 DEF Busy
  <2> QED
    BY <1>3, <2>2 DEF OneAtATime
<1>4. ASSUME NEW q \in Players, RegisterListener(q) \/ Disconnect(q) \/ WriteDisconnected(q)
      PROVE  UNCHANGED <<hub, wire, sending>>
  BY <1>4 DEF RegisterListener, Disconnect, WriteDisconnected
<1>5. ASSUME NEW q \in Players, ProcessPlayerJoined(q) \/ ProcessPlayerLeft(q)
      PROVE  OneAtATime(p)'
  <2>1. PICK i \in Instances : i = HomeOf[q]
    BY <1>0
  <2>2. /\ \/ Goto(i, [at |-> "read"]) /\ Race(i)
           \/ Goto(i, [at |-> "readLeft"]) /\ Race(i)
           \/ hub' = hub
        /\ UNCHANGED <<wire, sending>>
    BY <1>5, <2>1 DEF ProcessPlayerJoined, ProcessPlayerLeft
  <2> QED
    BY <1>2, <1>3, <2>2
<1>6. ASSUME NEW i \in Instances, ProcessSolutionResult(i)
      PROVE  OneAtATime(p)'
  <2>1. /\ (Goto(i, [at |-> "read"]) /\ Race(i)) \/ hub' = hub
        /\ UNCHANGED <<wire, sending>>
    BY <1>6 DEF ProcessSolutionResult
  <2> QED
    BY <1>2, <1>3, <2>1
<1>7. ASSUME NEW i \in Instances, GetRoomLeaderboardEntries(i)
      PROVE  OneAtATime(p)'
  <2>1. /\ Busy(i) /\ UNCHANGED <<wire, sending>>
        /\ \A j \in Instances \ {i} : hub'[j] = hub[j]
    BY <1>0, <1>7 DEF GetRoomLeaderboardEntries, Goto, Busy, Idle
  <2>2. \A j \in Instances : Busy(j)' => Busy(j)
    BY <2>1 DEF Busy
  <2> QED
    BY <1>1, <2>1, <2>2
<1>8. ASSUME NEW i \in Instances, PublishEvent(i)
      PROVE  OneAtATime(p)'
  <2>1. /\ Busy(i) /\ UNCHANGED sending
        /\ \A j \in Instances \ {i} : hub'[j] = hub[j]
    BY <1>0, <1>8 DEF PublishEvent, Goto, Busy, Idle
  <2>2. \A j \in Instances \ {i} : \A k \in Instances : wire'[j][k] = wire[j][k]
    BY <1>8, Publication, AfterPublish
  <2>3. \A j \in Instances : Busy(j)' => Busy(j)
    BY <2>1, <2>2 DEF Busy
  <2> QED
    BY <1>1, <2>1, <2>3
<1>9. ASSUME NEW i \in Instances, NEW k \in Instances, DispatchEvent(i, k)
      PROVE  OneAtATime(p)'
  <2>1. hub' = hub /\ wire[i][k] # <<>>
        /\ \A j, l \in Instances : j # i \/ l # k => wire'[j][l] = wire[j][l]
    <3>1. hub' = hub
      BY <1>9 DEF DispatchEvent
    <3> QED
      BY <1>9, <3>1, AfterDispatch
  <2>2. \A j \in Instances : Busy(j)' => Busy(j)
    BY <2>1 DEF Busy
  <2>3. \/ sending'[p] = sending[p]
        \/ sending[p] = {} /\ sending'[p] = {Head(wire[i][k])}
    BY <1>9 DEF DispatchEvent, Targets, Listeners
  <2> QED
    BY <2>2, <2>3 DEF OneAtATime
<1>10. ASSUME NEW q \in Players, NEW m \in sending[q], Send(q, m)
       PROVE  OneAtATime(p)'
  <2>1. UNCHANGED <<hub, wire>> /\ sending'[p] \subseteq sending[p]
    BY <1>10 DEF Send, TypeOK
  <2>2. \A j \in Instances : Busy(j)' <=> Busy(j)
    BY <2>1 DEF Busy
  <2> QED
    BY <1>1, <2>1, <2>2
<1>11. CASE UNCHANGED vars
  BY <1>2, <1>11 DEF vars
<1> QED
  BY <1>2, <1>4, <1>5, <1>6, <1>7, <1>8, <1>9, <1>10, <1>11 DEF Next, HubStep, StreamStep

\* What is read is published, queued, sent and shown in that order.
LEMMA UpToDateStep ==
    ASSUME TypeOK, [Next]_vars, NEW p \in Players, p \notin raced', p \notin lost',
           OneAtATime(p), UpToDate(p)
    PROVE  UpToDate(p)'
<1> USE DEF roomVars, playerVars, historyVars, streamVars
<1> DEFINE Reached ==
              /\ player[p] = "joined"
              /\ \A q \in Players : player[q] # "leaving"
              /\ \A i \in Instances : hub[i].at \notin {"read", "readLeft"}
           Current ==
              /\ \A i \in Instances : hub[i].at = "publish" => hub[i].board = version
              /\ (\A i \in Instances : hub[i].at # "publish") =>
                    /\ \A i \in Instances :
                          wire[i][HomeOf[p]] # <<>> => Last(wire[i][HomeOf[p]]).board = version
                    /\ (\A i \in Instances : wire[i][HomeOf[p]] = <<>>) =>
                          /\ \A m \in sending[p] : m.board = version
                          /\ sending[p] = {} => shown[p] = version
<1>0. /\ hub \in [Instances -> HubStates] /\ \A q \in Players : HomeOf[q] \in Instances
      /\ player \in [Players -> {"away", "joining", "joined", "closing", "leaving", "gone"}]
  BY StreamsAssumption DEF TypeOK
<1>a. /\ UpToDate(p) <=> (Reached => Current)
      /\ UpToDate(p)' <=> (Reached' => Current')
  BY DEF UpToDate
<1>b. PICK k \in Instances : k = HomeOf[p]
  BY <1>0
<1>1. ASSUME Reached' => Reached, UNCHANGED <<version, hub>>,
             \A i \in Instances : wire'[i][k] = wire[i][k],
             sending'[p] = sending[p], shown'[p] = shown[p]
      PROVE  UpToDate(p)'
  BY <1>a, <1>b, <1>1
<1>2. ASSUME NEW q \in Players, RegisterListener(q) \/ Disconnect(q)
      PROVE  UpToDate(p)'
  <2>1. UNCHANGED <<version, hub, wire, sending, shown>>
    BY <1>2 DEF RegisterListener, Disconnect
  <2>2. Reached' => Reached
    BY <1>0, <1>2, <2>1 DEF RegisterListener, Disconnect
  <2> QED
    BY <1>1, <2>1, <2>2
<1>3. ASSUME NEW q \in Players, WriteDisconnected(q)
      PROVE  UpToDate(p)'
  <2>1. player'[q] = "leaving"
    BY <1>0, <1>3 DEF WriteDisconnected
  <2> QED
    BY <1>a, <2>1
<1>4. ASSUME NEW i \in Instances, hub'[i].at \in {"read", "readLeft"}
      PROVE  UpToDate(p)'
  BY <1>a, <1>4
<1>5. ASSUME NEW q \in Players, ProcessPlayerJoined(q) \/ ProcessPlayerLeft(q)
      PROVE  UpToDate(p)'
  <2>1. PICK i \in Instances : i = HomeOf[q]
    BY <1>0
  <2>2. \/ hub'[i].at \in {"read", "readLeft"}
        \/ /\ ProcessPlayerJoined(q)
           /\ UNCHANGED <<version, hub>> /\ lost' = lost \cup {q}
    BY <1>0, <1>5, <2>1 DEF ProcessPlayerJoined, ProcessPlayerLeft, Goto
  <2>3. ASSUME ProcessPlayerJoined(q), UNCHANGED <<version, hub>>, lost' = lost \cup {q}
        PROVE  UpToDate(p)'
    <3>1. UNCHANGED <<wire, sending, shown>>
      BY <2>3 DEF ProcessPlayerJoined
    <3>2. player' = [player EXCEPT ![q] = "joined"] /\ player[q] = "joining" /\ q # p
      BY <2>3 DEF ProcessPlayerJoined
    <3>3. Reached' => Reached
      BY <1>0, <2>3, <3>2
    <3> QED
      BY <1>1, <2>3, <3>1, <3>3
  <2> QED
    BY <1>4, <2>2, <2>3
<1>6. ASSUME NEW i \in Instances, ProcessSolutionResult(i)
      PROVE  UpToDate(p)'
  BY <1>0, <1>4, <1>6 DEF ProcessSolutionResult, Goto
<1>7. ASSUME NEW i \in Instances, GetRoomLeaderboardEntries(i)
      PROVE  UpToDate(p)'
  <2>1. hub'[i] = [at |-> "publish", board |-> version]
    BY <1>0, <1>7 DEF GetRoomLeaderboardEntries, Goto, CurrentBoard
  <2>2. version' = version /\ Busy(i)
    BY <1>7 DEF GetRoomLeaderboardEntries, Busy, Idle
  <2>3. ASSUME NEW j \in Instances \ {i}
        PROVE  hub'[j].at # "publish"
    <3>1. hub'[j] = hub[j] /\ ~ Busy(j)
      BY <1>0, <1>7, <2>2 DEF GetRoomLeaderboardEntries, Goto, OneAtATime
    <3> QED
      BY <3>1 DEF Busy, Idle
  <2>4. Current'
    BY <2>1, <2>2, <2>3
  <2> QED
    BY <1>a, <2>4
<1>8. ASSUME NEW i \in Instances, PublishEvent(i)
      PROVE  UpToDate(p)'
  <2>1. /\ hub[i].at = "publish" /\ Busy(i) /\ hub'[i] = Idle
        /\ \A j \in Instances \ {i} : hub'[j] = hub[j]
        /\ UNCHANGED <<version, player, sending, shown>>
    BY <1>0, <1>8 DEF PublishEvent, Goto, Busy, Idle
  <2>2. \A j \in Instances \ {i} : hub[j] = Idle /\ wire[j][k] = <<>>
    BY <2>1 DEF OneAtATime, Busy
  <2>3. PICK m \in Messages : m.board = hub[i].board /\ wire' = EveryQueue(i, m)
    BY <1>8, Publication
  <2>4. /\ wire'[i][k] # <<>> /\ Last(wire'[i][k]) = m
        /\ \A j \in Instances \ {i} : wire'[j][k] = <<>>
    <3>1. /\ wire'[i][k] # <<>> /\ Last(wire'[i][k]) = m
          /\ \A j \in Instances \ {i} : wire'[j][k] = wire[j][k]
      BY <2>3, AfterPublish
    <3> QED
      BY <2>2, <3>1
  <2>5. ASSUME Reached'
        PROVE  Current'
    <3>1. Reached
      BY <2>1, <2>5
    <3>2. hub[i].board = version
      BY <1>a, <2>1, <3>1
    <3>3. \A j \in Instances : hub'[j].at # "publish"
      BY <2>1, <2>2 DEF Idle
    <3>4. \A j \in Instances : wire'[j][k] # <<>> => Last(wire'[j][k]).board = version'
      BY <2>1, <2>3, <2>4, <3>2
    <3> QED
      BY <1>b, <2>4, <3>3, <3>4
  <2> QED
    BY <1>a, <2>5
<1>9. ASSUME NEW i \in Instances, NEW l \in Instances, DispatchEvent(i, l)
      PROVE  UpToDate(p)'
  <2>1. /\ UNCHANGED <<version, hub, player, shown>> /\ Busy(i) /\ wire[i][l] # <<>>
        /\ \A j, n \in Instances : j # i \/ n # l => wire'[j][n] = wire[j][n]
        /\ Last(wire[i][l]) = IF wire'[i][l] = <<>> THEN Head(wire[i][l])
                                                    ELSE Last(wire'[i][l])
    <3>1. UNCHANGED <<version, hub, player, shown>>
      BY <1>9 DEF DispatchEvent
    <3>2. wire[i][l] # <<>>
      BY <1>9, AfterDispatch
    <3>3. Busy(i)
      BY <3>2 DEF Busy
    <3>4. Last(wire[i][l]) = IF wire'[i][l] = <<>> THEN Head(wire[i][l])
                                                   ELSE Last(wire'[i][l])
      BY <1>9, AfterDispatch
    <3>5. \A j, n \in Instances : j # i \/ n # l => wire'[j][n] = wire[j][n]
      BY <1>9, AfterDispatch
    <3> QED
      BY <3>1, <3>2, <3>3, <3>4, <3>5
  <2>2. Reached' => Reached
    BY <2>1
  <2>3. CASE l # k
    <3>1. sending'[p] = sending[p]
      BY <1>9, <1>b, <2>3 DEF DispatchEvent, Targets, Listeners
    <3> QED
      BY <1>1, <2>1, <2>2, <2>3, <3>1
  <2>4. ASSUME l = k, Reached'
        PROVE  Current'
    <3>1. Reached /\ Current
      BY <1>a, <2>2, <2>4
    <3>2. p \in Targets(k)
      BY <1>b, <3>1 DEF Targets, Listeners, Listening
    <3>3. sending'[p] = {Head(wire[i][k])}
      BY <1>9, <2>4, <3>2 DEF DispatchEvent
    <3>4. \A j \in Instances \ {i} : wire'[j][k] = <<>>
      BY <2>1 DEF OneAtATime, Busy
    <3>5. ASSUME \A j \in Instances : hub[j].at # "publish"
          PROVE  Last(wire[i][k]).board = version
      BY <1>b, <2>1, <2>4, <3>1, <3>5
    <3>6. ASSUME \A j \in Instances : hub'[j].at # "publish"
          PROVE  /\ \A j \in Instances : wire'[j][k] # <<>> =>
                       Last(wire'[j][k]).board = version'
                 /\ (\A j \in Instances : wire'[j][k] = <<>>) =>
                       \A m \in sending'[p] : m.board = version'
      BY <2>1, <2>4, <3>3, <3>4, <3>5, <3>6
    <3>7. \A j \in Instances : hub'[j].at = "publish" => hub'[j].board = version'
      BY <2>1, <3>1
    <3> QED
      BY <1>b, <3>3, <3>6, <3>7
  <2> QED
    BY <1>a, <2>3, <2>4
<1>10. ASSUME NEW q \in Players, NEW m \in sending[q], Send(q, m)
       PROVE  UpToDate(p)'
  <2>1. UNCHANGED <<version, hub, wire, player>>
    BY <1>10 DEF Send
  <2>2. Reached' => Reached
    BY <2>1
  <2>3. CASE q # p
    <3>1. sending'[p] = sending[p] /\ shown'[p] = shown[p]
      BY <1>10, <2>3 DEF Send, TypeOK
    <3> QED
      BY <1>1, <2>1, <2>2, <3>1
  <2>4. ASSUME q = p, Reached'
        PROVE  Current'
    <3>1. Reached /\ Current
      BY <1>a, <2>2, <2>4
    <3>2. sending'[p] = {} /\ m \in sending[p]
      BY <1>10, <2>4 DEF Send, TypeOK, OneAtATime
    <3>3. shown'[p] = m.board
      BY <1>10, <2>4, <3>1 DEF Send, TypeOK, Listening
    <3> QED
      BY <2>1, <3>1, <3>2, <3>3
  <2> QED
    BY <1>a, <2>3, <2>4
<1>11. CASE UNCHANGED vars
  BY <1>1, <1>11 DEF vars
<1> QED
  BY <1>2, <1>3, <1>5, <1>6, <1>7, <1>8, <1>9, <1>10, <1>11 DEF Next, HubStep, StreamStep

-------------------------------------------------------------------------------
(* The theorems                                                            *)

\* Nothing has been published at the start.
LEMMA InvInit == ASSUME Init PROVE IInv
<1>1. 0 \in Boards /\ Idle \in HubStates /\ MaxEvents \in Nat
  BY HubTypes, StreamsAssumption
<1>2. Joined = {} /\ Left = {} /\ Cardinality({}) = 0
  BY FS_EmptySet DEF Init, Joined, Left
<1>3. ChangesCounted
  BY <1>2 DEF Init, ChangesCounted
<1>4. /\ wire \in [Instances -> [Instances -> Seq(Messages)]]
      /\ \A i, k \in Instances : wire[i][k] = <<>>
  <2>1. <<>> \in Seq(Messages)
    OBVIOUS
  <2> QED
    BY <2>1 DEF Init
<1>5. TypeOK
  BY <1>1, <1>4 DEF Init, TypeOK
<1>6. InOnePlace
  BY <1>4, NoMessage DEF Init, InOnePlace
<1>7. ASSUME NEW p \in Players
      PROVE  Covered(p) /\ OneAtATime(p) /\ UpToDate(p)
  <2>1. Covered(p) /\ UpToDate(p)
    BY DEF Init, Covered, Listening, UpToDate
  <2>2. \A i \in Instances : ~ Busy(i)
    BY <1>4 DEF Init, Busy
  <2>3. OneAtATime(p)
    BY <2>2 DEF Init, OneAtATime
  <2> QED
    BY <2>1, <2>3
<1> QED
  BY <1>3, <1>5, <1>6, <1>7 DEF IInv

\* Every step keeps IInv.
LEMMA InvStep == ASSUME IInv, [Next]_vars PROVE IInv'
<1>1. TypeOK /\ ChangesCounted /\ InOnePlace
  BY DEF IInv
<1>2. TypeOK' /\ ChangesCounted' /\ InOnePlace'
  BY <1>1, TypeStep, CountStep, InOnePlaceStep
<1>3. ASSUME NEW p \in Players
      PROVE  Covered(p)' /\ (p \notin raced' => OneAtATime(p)' /\ (p \notin lost' => UpToDate(p)'))
  <2>1. lost \subseteq lost' /\ raced \subseteq raced'
    BY <1>1, HistoryKept
  <2>2. Covered(p)'
    BY <1>1, CoveredStep DEF IInv
  <2>3. p \notin raced' => OneAtATime(p)'
    BY <1>1, <2>1, OneAtATimeStep DEF IInv
  <2>4. p \notin raced' /\ p \notin lost' => UpToDate(p)'
    BY <1>1, <2>1, UpToDateStep DEF IInv
  <2> QED
    BY <2>2, <2>3, <2>4
<1> QED
  BY <1>2, <1>3 DEF IInv

\* A leaderboard is in one place on its way to a player; who lost nothing has or
\* will get each; and without a race what comes last is up to date.
THEOREM Invariant == Spec => []IInv
<1>1. Init => IInv
  BY InvInit
<1>2. IInv /\ [Next]_vars => IInv'
  BY InvStep
<1> QED
  BY <1>1, <1>2, PTL DEF Spec

\* Every variable of RoomStreams keeps its type; in particular the changes of a
\* room are its solutions and two for each player at most.
THEOREM TypeCorrect == Spec => []TypeOK
<1>1. IInv => TypeOK
  BY DEF IInv
<1> QED
  BY <1>1, Invariant, PTL

\* What IInv says of the streams.
LEMMA StreamsFit == ASSUME IInv PROVE StreamsFollowRoom
<1> SUFFICES ASSUME NEW p \in Players, Listening(p), p \notin lost
             PROVE  /\ since[p] + 1 .. published
                          \subseteq Numbers(OnTheWay(p) \cup received[p])
                    /\ OnTheWay(p) \cap received[p] = {}
                    /\ Quiet /\ OnTheWay(p) = {} /\ p \notin raced => shown[p] = version
  BY DEF StreamsFollowRoom
<1>0. HomeOf[p] \in Instances
  BY StreamsAssumption
<1>1. since[p] + 1 .. published \subseteq Numbers(OnTheWay(p) \cup received[p])
  BY DEF IInv, Covered
<1>2. ASSUME NEW m \in OnTheWay(p), m \in received[p]
      PROVE  FALSE
  <2>1. m \notin sending[p] /\ \A i \in Instances : m \notin ToSet(wire[i][HomeOf[p]])
    BY <1>2 DEF IInv, InOnePlace
  <2> QED
    BY <2>1 DEF OnTheWay
<1>3. ASSUME Quiet, OnTheWay(p) = {}, p \notin raced
      PROVE  shown[p] = version
  <2>1. player[p] = "joined" /\ \A q \in Players : player[q] # "leaving"
    BY <1>3 DEF Quiet, Listening
  <2>2. \A i \in Instances : hub[i] = Idle /\ wire[i][HomeOf[p]] = <<>>
    BY <1>0, <1>3 DEF Quiet, Busy
  <2>3. sending[p] = {}
    BY <1>3 DEF OnTheWay
  <2>4. UpToDate(p)
    BY <1>3 DEF IInv
  <2>5. \A i \in Instances : hub[i].at = "idle"
    BY <2>2 DEF Idle
  <2> QED
    BY <2>1, <2>2, <2>3, <2>4, <2>5 DEF UpToDate
<1> QED
  BY <1>1, <1>2, <1>3

\* A player who listens and lost nothing gets every leaderboard, each once, and
\* in the end that of the rows, unless two were under way at once.
THEOREM StreamsCorrect == Spec => []StreamsFollowRoom
<1>1. IInv => StreamsFollowRoom
  BY StreamsFit
<1> QED
  BY <1>1, Invariant, PTL
=============================================================================
