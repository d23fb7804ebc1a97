------------------------ MODULE RoomPresence_proofs ------------------------
(* Proofs of the safety properties of RoomPresence.                        *)
EXTENDS RoomPresence, TLAPS

-------------------------------------------------------------------------------
(* Channels as sets                                                        *)

\* A join is put behind the others.
LEMMA AfterAppend ==
    ASSUME TypeOK, NEW i \in Instances, NEW c \in Conns,
           queue' = [queue EXCEPT ![i] = Append(@, c)]
    PROVE  /\ queue' \in [Instances -> Seq(Conns)]
           /\ Queued(i)' = Queued(i) \cup {c}
           /\ \A k \in Instances \ {i} : Queued(k)' = Queued(k)
<1>1. queue \in [Instances -> Seq(Conns)] /\ queue[i] \in Seq(Conns)
  BY DEF TypeOK
<1>2. /\ queue'[i] = Append(queue[i], c)
      /\ \A k \in Instances \ {i} : queue'[k] = queue[k]
      /\ queue' \in [Instances -> Seq(Conns)]
  BY <1>1
<1>3. Queued(i)' = Queued(i) \cup {c}
  <2>1. /\ DOMAIN queue[i] = 1 .. Len(queue[i]) /\ Len(queue[i]) \in Nat
        /\ DOMAIN Append(queue[i], c) = 1 .. Len(queue[i]) + 1
        /\ Append(queue[i], c)[Len(queue[i]) + 1] = c
        /\ \A n \in 1 .. Len(queue[i]) : Append(queue[i], c)[n] = queue[i][n]
    BY <1>1
  <2>2. 1 .. Len(queue[i]) + 1 = (1 .. Len(queue[i])) \cup {Len(queue[i]) + 1}
    BY <2>1
  <2> QED
    BY <1>2, <2>1, <2>2 DEF Queued
<1> QED
  BY <1>2, <1>3 DEF Queued

\* The first join is taken.
LEMMA AfterTail ==
    ASSUME TypeOK, NEW i \in Instances, queue[i] # <<>>,
           queue' = [queue EXCEPT ![i] = Tail(@)]
    PROVE  /\ queue' \in [Instances -> Seq(Conns)]
           /\ Head(queue[i]) \in Conns
           /\ Queued(i) = Queued(i)' \cup {Head(queue[i])}
           /\ \A k \in Instances \ {i} : Queued(k)' = Queued(k)
<1>1. queue \in [Instances -> Seq(Conns)] /\ queue[i] \in Seq(Conns)
  BY DEF TypeOK
<1>2. /\ queue'[i] = Tail(queue[i]) /\ Tail(queue[i]) \in Seq(Conns)
      /\ \A k \in Instances \ {i} : queue'[k] = queue[k]
      /\ queue' \in [Instances -> Seq(Conns)]
  BY <1>1
<1>3. /\ DOMAIN queue[i] = 1 .. Len(queue[i]) /\ Len(queue[i]) \in Nat \ {0}
      /\ DOMAIN Tail(queue[i]) = 1 .. Len(queue[i]) - 1
      /\ Head(queue[i]) = queue[i][1] /\ Head(queue[i]) \in Conns
      /\ \A n \in 1 .. Len(queue[i]) - 1 : Tail(queue[i])[n] = queue[i][n + 1]
  BY <1>1
<1>4. ASSUME NEW x PROVE x \in Queued(i)' <=> \E n \in 2 .. Len(queue[i]) : x = queue[i][n]
  <2>1. x \in Queued(i)' <=> \E n \in 1 .. Len(queue[i]) - 1 : x = Tail(queue[i])[n]
    BY <1>2, <1>3 DEF Queued
  <2>2. ASSUME NEW n \in 1 .. Len(queue[i]) - 1
        PROVE  n + 1 \in 2 .. Len(queue[i]) /\ Tail(queue[i])[n] = queue[i][n + 1]
    BY <1>3
  <2>3. ASSUME NEW n \in 2 .. Len(queue[i])
        PROVE  n - 1 \in 1 .. Len(queue[i]) - 1 /\ Tail(queue[i])[n - 1] = queue[i][n]
    BY <1>3
  <2> QED
    BY <2>1, <2>2, <2>3
<1>5. ASSUME NEW x PROVE x \in Queued(i) <=> x \in Queued(i)' \/ x = Head(queue[i])
  <2>1. x \in Queued(i) <=> \E n \in 1 .. Len(queue[i]) : x = queue[i][n]
    BY <1>3 DEF Queued
  <2>2. \A n : n \in 1 .. Len(queue[i]) <=> n = 1 \/ n \in 2 .. Len(queue[i])
    BY <1>3
  <2> QED
    BY <1>3, <1>4, <2>1, <2>2
<1>6. Queued(i) = Queued(i)' \cup {Head(queue[i])}
  BY <1>5
<1>7. \A k \in Instances \ {i} : Queued(k)' = Queued(k)
  BY <1>2 DEF Queued
<1> QED
  BY <1>2, <1>3, <1>6, <1>7

\* The joins of an instance are lost.
LEMMA AfterLoss ==
    ASSUME TypeOK, NEW i \in Instances, queue' = [queue EXCEPT ![i] = <<>>]
    PROVE  /\ queue' \in [Instances -> Seq(Conns)]
           /\ Queued(i)' = {}
           /\ \A k \in Instances \ {i} : Queued(k)' = Queued(k)
BY DEF TypeOK, Queued

-------------------------------------------------------------------------------
(* Types                                                                   *)

\* The initial state is well typed.
LEMMA TypeInit == ASSUME Init PROVE TypeOK
<1>1. /\ queue \in [Instances -> Seq(Conns)]
      /\ hub \in [Instances -> HubStates]
  BY DEF Init, HubStates
<1>2. /\ state \in [Players -> States]
      /\ verdict \in [Players -> States]
  BY DEF Init, States
<1> QED
  BY <1>1, <1>2 DEF Init, TypeOK

\* What a completion makes of a state is a state.
LEMMA FinalStates == \A s \in States : FinalState(s) \in States
BY DEF FinalState, States

\* A handler of a connection keeps the types.
LEMMA TypeConn ==
    ASSUME TypeOK, NEW c \in Conns, ConnStep(c)
    PROVE  TypeOK'
<1>0. PlayerOf[c] \in Players /\ on[c] \in Instances
  BY PresenceAssumption DEF TypeOK
<1> USE DEF TypeOK, Step, eventVars
<1>1. CASE JoinRoom(c) \/ CheckNotLeft(c)
  <2>1. \E s \in {"allowed", "gone", "checked"} : conn' = [conn EXCEPT ![c] = s]
    BY <1>1 DEF JoinRoom, CheckNotLeft
  <2> QED
    BY <1>1, <2>1 DEF JoinRoom, CheckNotLeft
<1>2. CASE RegisterListener(c)
  <2>1. queue' \in [Instances -> Seq(Conns)]
    BY <1>0, <1>2, AfterAppend DEF RegisterListener
  <2>2. \E s \in {"gone", "open"} : conn' = [conn EXCEPT ![c] = s]
    BY <1>2 DEF RegisterListener
  <2>3. overlapped' \subseteq Players
    BY <1>0, <1>2 DEF RegisterListener, MarkIf, Mark
  <2>4. UNCHANGED <<state, event, ended, verdict, on, hub, failures>>
    BY <1>2 DEF RegisterListener
  <2> QED
    BY <2>1, <2>2, <2>3, <2>4
<1>3. CASE Disconnect(c)
  BY <1>0, <1>3 DEF Disconnect, MarkIf, Mark
<1>4. CASE WriteDisconnected(c)
  <2>1. state' \in [Players -> States]
    BY <1>4 DEF WriteDisconnected, UpdateRoomPlayerState, States
  <2>2. failures' \in Nat /\ overlapped' \subseteq Players
    BY <1>0, <1>4 DEF WriteDisconnected, Fails, Mark
  <2> QED
    BY <1>4, <2>1, <2>2 DEF WriteDisconnected
<1> QED
  BY <1>1, <1>2, <1>3, <1>4 DEF ConnStep

\* A hub that works has a connection.
LEMMA Working ==
    ASSUME TypeOK, NEW i \in Instances, hub[i] # Waiting
    PROVE  /\ hub[i] \in [at : {"insert", "update"}, conn : Conns]
           /\ hub[i].conn \in Conns /\ PlayerOf[hub[i].conn] \in Players
           /\ hub[i].at \in {"insert", "update"}
BY PresenceAssumption DEF TypeOK, HubStates

\* An instance keeps the types.
LEMMA TypeInstance ==
    ASSUME TypeOK, NEW i \in Instances, HubStep(i) \/ WriteFails(i) \/ Crash(i)
    PROVE  TypeOK'
<1> USE DEF Goto, eventVars
<1>1. CASE TakeJoined(i)
  <2> DEFINE c == Head(queue[i])
  <2>1. queue' \in [Instances -> Seq(Conns)] /\ c \in Conns
    BY <1>1, AfterTail DEF TakeJoined
  <2>2. PlayerOf[c] \in Players
    BY <2>1, PresenceAssumption
  <2>3. \E s \in HubStates : hub' = [hub EXCEPT ![i] = s]
    <3>1. \A a \in {"insert", "update"} : [at |-> a, conn |-> c] \in HubStates
      BY <2>1 DEF HubStates
    <3>2. Waiting \in HubStates
      BY DEF HubStates
    <3> HIDE DEF c
    <3>3. \/ hub' = [hub EXCEPT ![i] = Waiting]
          \/ \E a \in {"insert", "update"} :
                hub' = [hub EXCEPT ![i] = [at |-> a, conn |-> c]]
      BY <1>1 DEF TakeJoined, c
    <3> QED
      BY <3>1, <3>2, <3>3
  <2>4. hub' \in [Instances -> HubStates]
    BY <2>3 DEF TypeOK
  <2>5. failures' \in Nat /\ overlapped' \subseteq Players
    BY <1>1, <2>2 DEF TakeJoined, Fails, Mark, TypeOK
  <2> QED
    BY <1>1, <2>1, <2>4, <2>5 DEF TakeJoined, TypeOK
<1>2. CASE AddPlayerToRoom(i)
  <2>1. hub[i] \in [at : {"insert", "update"}, conn : Conns]
    BY <1>2, Working DEF AddPlayerToRoom, Waiting
  <2>2. [hub[i] EXCEPT !.at = "update"] \in HubStates
    BY <2>1 DEF HubStates
  <2>3. hub' \in [Instances -> HubStates]
    BY <1>2, <2>2 DEF AddPlayerToRoom, TypeOK, HubStates
  <2>4. state' \in [Players -> States]
    <3>1. \/ state' = state
          \/ state' = [state EXCEPT ![PlayerOf[hub[i].conn]] = "present"]
      BY <1>2 DEF AddPlayerToRoom
    <3> QED
      BY <3>1 DEF TypeOK, States
  <2> QED
    BY <1>2, <2>3, <2>4 DEF AddPlayerToRoom, TypeOK
<1>3. CASE WritePresent(i)
  <2>1. state' \in [Players -> States]
    <3>1. \E x \in States, p \in Players : state' = [state EXCEPT ![p] = x]
      <4>1. PlayerOf[hub[i].conn] \in Players
        BY <1>3, Working DEF WritePresent, Waiting
      <4>2. state[PlayerOf[hub[i].conn]] = "none" => "none" \in States
        BY DEF States
      <4> QED
        BY <1>3, <4>1, <4>2 DEF WritePresent, UpdateRoomPlayerState, States
    <3> QED
      BY <3>1 DEF TypeOK
  <2> QED
    BY <1>3, <2>1 DEF WritePresent, TypeOK, HubStates
<1>4. CASE WriteFails(i)
  <2>1. PlayerOf[hub[i].conn] \in Players
    BY <1>4, Working DEF WriteFails
  <2> QED
    BY <1>4, <2>1 DEF WriteFails, TypeOK, HubStates, Mark, Fails
<1>5. CASE Crash(i)
  <2>1. queue' \in [Instances -> Seq(Conns)]
    BY <1>5, AfterLoss DEF Crash
  <2>2. overlapped' \subseteq Players
    BY <1>5, PresenceAssumption DEF Crash, TypeOK
  <2>3. /\ conn' \in [Conns -> {"new", "allowed", "checked", "open", "closing", "gone"}]
        /\ hub' \in [Instances -> HubStates]
        /\ failures' \in Nat
    BY <1>5 DEF Crash, TypeOK, HubStates, Fails
  <2> QED
    BY <1>5, <2>1, <2>2, <2>3 DEF Crash, TypeOK
<1> QED
  BY <1>1, <1>2, <1>3, <1>4, <1>5 DEF HubStep

\* The completion keeps the types.
LEMMA TypeCompletion ==
    ASSUME TypeOK, CompletionStep \/ RollBack
    PROVE  TypeOK'
<1>1. CASE StartCompletion
  <2>1. verdict' \in [Players -> States]
    BY <1>1, FinalStates DEF StartCompletion, TypeOK
  <2> QED
    BY <1>1, <2>1 DEF StartCompletion, TypeOK
<1>2. CASE CommitCompletion
  BY <1>2 DEF CommitCompletion, Unlock, TypeOK, States
<1>3. CASE RollBack
  BY <1>3 DEF RollBack, Unlock, Fails, TypeOK, States
<1> QED
  BY <1>1, <1>2, <1>3 DEF CompletionStep

\* Every step keeps the types.
LEMMA TypeStep == ASSUME TypeOK, [Next]_vars PROVE TypeOK'
<1>1. CASE Tick \/ UNCHANGED vars
  BY <1>1 DEF Tick, vars, eventVars, TypeOK
<1> QED
  BY <1>1, TypeConn, TypeInstance, TypeCompletion DEF Next

\* Every variable of RoomPresence keeps its type, for any number of instances,
\* players and connections (TypeOK).
THEOREM TypeCorrect == Spec => []TypeOK
<1>1. Init => TypeOK
  BY TypeInit
<1>2. TypeOK /\ [Next]_vars => TypeOK'
  BY TypeStep
<1> QED
  BY <1>1, <1>2, PTL DEF Spec

-------------------------------------------------------------------------------
(* Joins and verdicts                                                      *)

\* No step changes the instance of a connection, and nobody is orderly again.
LEMMA Kept ==
    ASSUME TypeOK, [Next]_vars
    PROVE  on' = on /\ overlapped \subseteq overlapped'
<1> USE DEF Mark, MarkIf, eventVars
<1>1. CASE Tick \/ UNCHANGED vars
  BY <1>1 DEF Tick, vars
<1>2. ASSUME NEW c \in Conns, ConnStep(c)
      PROVE  on' = on /\ overlapped \subseteq overlapped'
  BY <1>2 DEF ConnStep, JoinRoom, CheckNotLeft, RegisterListener, Disconnect,
     WriteDisconnected
<1>3. ASSUME NEW i \in Instances, HubStep(i) \/ WriteFails(i) \/ Crash(i)
      PROVE  on' = on /\ overlapped \subseteq overlapped'
  BY <1>3 DEF HubStep, TakeJoined, AddPlayerToRoom, WritePresent, WriteFails, Crash
<1>4. CASE CompletionStep \/ RollBack
  BY <1>4 DEF CompletionStep, StartCompletion, CommitCompletion, RollBack
<1> QED
  BY <1>1, <1>2, <1>3, <1>4 DEF Next

\* Joins stay with the instance of their connection.
LEMMA JoinsAtHomeStep ==
    ASSUME TypeOK, JoinsAtHome, [Next]_vars
    PROVE  JoinsAtHome'
<1>0. on' = on
  BY Kept
<1>1. CASE UNCHANGED <<queue, hub>>
  BY <1>0, <1>1 DEF JoinsAtHome, Queued
<1>2. ASSUME NEW c \in Conns, ConnStep(c)
      PROVE  JoinsAtHome'
  <2>1. CASE queue' = [queue EXCEPT ![on[c]] = Append(@, c)] /\ hub' = hub
    <3>1. PICK i \in Instances : i = on[c]
      BY DEF TypeOK
    <3>2. queue' = [queue EXCEPT ![i] = Append(@, c)]
      BY <2>1, <3>1
    <3>3. /\ Queued(i)' = Queued(i) \cup {c}
          /\ \A k \in Instances \ {i} : Queued(k)' = Queued(k)
      BY <3>2, AfterAppend
    <3> QED
      BY <1>0, <2>1, <3>1, <3>3 DEF JoinsAtHome
  <2> QED
    BY <1>1, <1>2, <2>1 DEF ConnStep, JoinRoom, CheckNotLeft, RegisterListener,
       Disconnect, WriteDisconnected
<1>3. ASSUME NEW i \in Instances, TakeJoined(i)
      PROVE  JoinsAtHome'
  <2>1. /\ Queued(i) = Queued(i)' \cup {Head(queue[i])}
        /\ \A k \in Instances \ {i} : Queued(k)' = Queued(k)
    BY <1>3, AfterTail DEF TakeJoined
  <2>2. \/ hub'[i] = Waiting
        \/ hub'[i].conn = Head(queue[i])
    BY <1>3 DEF TakeJoined, Goto, TypeOK
  <2>3. \A k \in Instances \ {i} : hub'[k] = hub[k]
    BY <1>3 DEF TakeJoined, Goto, TypeOK
  <2> QED
    BY <1>0, <2>1, <2>2, <2>3 DEF JoinsAtHome
<1>4. ASSUME NEW i \in Instances, AddPlayerToRoom(i) \/ WritePresent(i) \/ WriteFails(i)
      PROVE  JoinsAtHome'
  <2>1. hub[i] # Waiting /\ queue' = queue
    BY <1>4 DEF AddPlayerToRoom, WritePresent, WriteFails, Waiting
  <2>2. hub[i] \in [at : {"insert", "update"}, conn : Conns]
    BY <2>1, Working
  <2>3. hub'[i] = Waiting \/ hub'[i].conn = hub[i].conn
    BY <1>4, <2>2 DEF AddPlayerToRoom, WritePresent, WriteFails, Goto, TypeOK
  <2>4. \A k \in Instances \ {i} : hub'[k] = hub[k]
    BY <1>4 DEF AddPlayerToRoom, WritePresent, WriteFails, Goto, TypeOK
  <2> QED
    BY <1>0, <2>1, <2>3, <2>4 DEF JoinsAtHome, Queued
<1>5. ASSUME NEW i \in Instances, Crash(i)
      PROVE  JoinsAtHome'
  <2>1. Queued(i)' = {} /\ \A k \in Instances \ {i} : Queued(k)' = Queued(k)
    BY <1>5, AfterLoss DEF Crash
  <2>2. hub'[i] = Waiting /\ \A k \in Instances \ {i} : hub'[k] = hub[k]
    BY <1>5 DEF Crash, Goto, TypeOK
  <2> QED
    BY <1>0, <2>1, <2>2 DEF JoinsAtHome
<1>6. CASE Tick \/ UNCHANGED vars \/ CompletionStep \/ RollBack
  BY <1>1, <1>6 DEF Tick, vars, CompletionStep, StartCompletion, CommitCompletion,
     RollBack
<1> QED
  BY <1>2, <1>3, <1>4, <1>5, <1>6 DEF Next, HubStep

\* How the state of a row changes, and when it does not.
LEMMA RowChange ==
    ASSUME TypeOK, [Next]_vars, NEW p \in Players
    PROVE  \/ state'[p] = state[p] /\ UNCHANGED <<event, verdict>>
           \/ verdict[p] = "none" /\ UNCHANGED <<event, verdict>>
           \/ verdict[p] # "none" /\ state[p] = "none" /\ UNCHANGED <<event, verdict>>
           \/ StartCompletion \/ CommitCompletion \/ RollBack
<1> USE DEF eventVars
<1>1. CASE UNCHANGED <<state, event, verdict>>
  BY <1>1
<1>2. ASSUME NEW q \in Players, NEW s, UpdateRoomPlayerState(q, s),
             UNCHANGED <<event, verdict>>
      PROVE  state'[p] = state[p] \/ verdict[p] = "none"
  BY <1>2 DEF UpdateRoomPlayerState, Unlocked, TypeOK
<1>3. ASSUME NEW c \in Conns, ConnStep(c)
      PROVE  \/ UNCHANGED <<state, event, verdict>>
             \/ \E q \in Players : UpdateRoomPlayerState(q, "disconnected")
                                   /\ UNCHANGED <<event, verdict>>
  BY <1>3, PresenceAssumption DEF ConnStep, JoinRoom, CheckNotLeft,
     RegisterListener, Disconnect, WriteDisconnected
<1>4. ASSUME NEW i \in Instances, AddPlayerToRoom(i)
      PROVE  /\ UNCHANGED <<event, verdict>>
             /\ state'[p] = state[p] \/ state[p] = "none"
  BY <1>4 DEF AddPlayerToRoom, TypeOK
<1>5. ASSUME NEW i \in Instances, WritePresent(i)
      PROVE  \E q \in Players : UpdateRoomPlayerState(q, "present")
                                /\ UNCHANGED <<event, verdict>>
  BY <1>5, Working DEF WritePresent, Waiting
<1>6. ASSUME NEW i \in Instances, TakeJoined(i) \/ WriteFails(i) \/ Crash(i)
      PROVE  UNCHANGED <<state, event, verdict>>
  BY <1>6 DEF TakeJoined, WriteFails, Crash
<1>7. CASE Tick \/ UNCHANGED vars
  BY <1>7 DEF Tick, vars
<1> QED
  BY <1>2, <1>3, <1>4, <1>5, <1>6, <1>7 DEF Next, HubStep, CompletionStep

\* What has been decided stays what the row says.
LEMMA VerdictsFitStep ==
    ASSUME TypeOK, VerdictsFit, [Next]_vars
    PROVE  VerdictsFit'
<1> SUFFICES ASSUME NEW p \in Players, verdict'[p] # "none"
             PROVE  event' = "completing" /\ verdict'[p] = FinalState(state'[p])
  BY DEF VerdictsFit, FinalState
<1>1. CASE UNCHANGED <<event, verdict>> /\ state'[p] = state[p]
  BY <1>1 DEF VerdictsFit
<1>2. CASE UNCHANGED <<event, verdict>> /\ verdict[p] = "none"
  BY <1>2
<1>3. CASE verdict[p] # "none" /\ state[p] = "none"
  BY <1>3 DEF VerdictsFit, FinalState
<1>4. CASE StartCompletion
  BY <1>4 DEF StartCompletion
<1>5. CASE CommitCompletion \/ RollBack
  BY <1>5 DEF CommitCompletion, RollBack, Unlock
<1> QED
  BY <1>1, <1>2, <1>3, <1>4, <1>5, RowChange

-------------------------------------------------------------------------------
(* Orderly players                                                         *)

\* The part of OrderlyPlayersShown about one player.
Shown(p) == Settled(p) =>
    /\ (\E c \in Of(p) : Live(c)) => state[p] \in {"present", "completed"}
    /\ (\A c \in Of(p) : ~ Live(c)) => state[p] # "present"

PlayerInv(p) == Orderly(p) /\ ReadsHold(p) /\ Shown(p)

\* What every step preserves for orderly players.
PlayersInv == \A p \in Players \ overlapped : PlayerInv(p)

\* A step that leaves the connections of a player, and what is said of them,
\* alone; his row may change as the completion changes it.
LEMMA Untouched ==
    ASSUME TypeOK, NEW p \in Players, PlayerInv(p),
           state'[p] = state[p] \/ state'[p] = FinalState(state[p]),
           \A c \in Of(p) : /\ Live(c)' <=> Live(c)
                            /\ Unhandled(c)' <=> Unhandled(c)
                            /\ conn[c] = "open" => conn'[c] = "open",
           \A i \in Instances :
              hub'[i] # Waiting /\ PlayerOf[hub'[i].conn] = p => hub'[i] = hub[i]
    PROVE  PlayerInv(p)'
<1>1. Orderly(p)'
  BY DEF PlayerInv, Orderly, Of
<1>2. state'[p] = "none" <=> state[p] = "none"
  BY DEF FinalState
<1>3. ReadsHold(p)'
  BY <1>2 DEF PlayerInv, ReadsHold
<1>4. /\ state[p] \in {"present", "completed"} => state'[p] \in {"present", "completed"}
      /\ state[p] # "present" => state'[p] # "present"
  BY DEF FinalState
<1>5. Shown(p)'
  BY <1>4 DEF PlayerInv, Shown, Settled, Of
<1> QED
  BY <1>1, <1>3, <1>5 DEF PlayerInv

\* Steps of connections.
LEMMA ConnPlayers ==
    ASSUME TypeOK, JoinsAtHome, PlayersInv, NEW c \in Conns, ConnStep(c),
           NEW p \in Players \ overlapped'
    PROVE  PlayerInv(p)'
<1>0. on' = on /\ p \in Players \ overlapped /\ PlayerInv(p)
  BY Kept DEF Next, PlayersInv
<1>1. PICK i \in Instances : i = on[c]
  BY DEF TypeOK
<1>2. PlayerOf[c] \in Players /\ Of(p) \subseteq Conns
  BY PresenceAssumption DEF Of
<1>3. \A d \in Conns \ {c} : conn'[d] = conn[d]
  BY DEF ConnStep, JoinRoom, CheckNotLeft, RegisterListener, Disconnect,
     WriteDisconnected, Step, TypeOK
<1>4. hub' = hub
  BY DEF ConnStep, JoinRoom, CheckNotLeft, RegisterListener, Disconnect,
     WriteDisconnected
<1>5. ASSUME queue' = queue, state'[p] = state[p], Live(c)' <=> Live(c),
             conn[c] = "open" => conn'[c] = "open"
      PROVE  PlayerInv(p)'
  <2>1. \A d \in Conns : Unhandled(d)' <=> Unhandled(d)
    BY <1>0, <1>4, <1>5 DEF Unhandled, Queued
  <2>2. \A d \in Conns : /\ Live(d)' <=> Live(d)
                         /\ conn[d] = "open" => conn'[d] = "open"
    BY <1>3, <1>5 DEF Live
  <2> QED
    BY <1>0, <1>2, <1>4, <1>5, <2>1, <2>2, Untouched
<1>6. CASE JoinRoom(c) \/ CheckNotLeft(c)
  <2>1. conn[c] \in {"new", "allowed"} /\ conn'[c] \in {"allowed", "gone", "checked"}
    BY <1>6 DEF JoinRoom, CheckNotLeft, Step, TypeOK
  <2> QED
    BY <1>5, <1>6, <2>1 DEF JoinRoom, CheckNotLeft, Live
<1>7. CASE RegisterListener(c)
  <2>1. conn[c] = "checked" /\ state' = state
    BY <1>7 DEF RegisterListener
  <2>2. CASE conn'[c] = "gone" /\ queue' = queue
    BY <1>5, <2>1, <2>2 DEF Live
  <2>3. CASE /\ conn'[c] = "open"
             /\ queue' = [queue EXCEPT ![i] = Append(@, c)]
             /\ MarkIf(PlayerOf[c], \E d \in Of(PlayerOf[c]) : Live(d) \/ Unhandled(d))
    <3>1. /\ Queued(i)' = Queued(i) \cup {c}
          /\ \A k \in Instances \ {i} : Queued(k)' = Queued(k)
      BY <2>3, AfterAppend
    <3>2. \A d \in Conns \ {c} : /\ Unhandled(d)' <=> Unhandled(d)
                                 /\ Live(d)' <=> Live(d)
      BY <1>0, <1>1, <1>3, <1>4, <3>1 DEF Unhandled, Live, TypeOK
    <3>3. Unhandled(c)' /\ Live(c)'
      BY <1>0, <1>1, <2>3, <3>1 DEF Unhandled, Live
    <3>4. CASE p # PlayerOf[c]
      <4>1. c \notin Of(p)
        BY <3>4 DEF Of
      <4> QED
        BY <1>0, <1>2, <1>3, <1>4, <2>1, <3>2, <4>1, Untouched
    <3>5. CASE p = PlayerOf[c]
      <4>1. \A d \in Of(p) : ~ Live(d) /\ ~ Unhandled(d)
        BY <1>0, <2>3, <3>5 DEF MarkIf, Mark
      <4>2. c \in Of(p)
        BY <3>5 DEF Of
      <4>3. Orderly(p)'
        BY <1>2, <2>3, <3>2, <4>1 DEF Orderly, Of
      <4>4. ReadsHold(p)'
        BY <1>0, <1>4, <2>1 DEF PlayerInv, ReadsHold
      <4>5. Shown(p)'
        BY <3>3, <4>2 DEF Shown, Settled, Of
      <4> QED
        BY <4>3, <4>4, <4>5 DEF PlayerInv
    <3> QED
      BY <3>4, <3>5
  <2> QED
    BY <1>1, <1>7, <2>2, <2>3 DEF RegisterListener, Step, TypeOK
<1>8. CASE Disconnect(c)
  <2>1. /\ conn[c] = "open" /\ conn'[c] = "closing"
        /\ state' = state /\ queue' = queue
        /\ MarkIf(PlayerOf[c], Unhandled(c))
    BY <1>8 DEF Disconnect, Step, TypeOK
  <2>2. \A d \in Conns : Unhandled(d)' <=> Unhandled(d)
    BY <1>0, <1>4, <2>1 DEF Unhandled, Queued
  <2>3. \A d \in Conns : Live(d)' <=> Live(d)
    BY <1>3, <2>1 DEF Live
  <2>4. CASE c \notin Of(p)
    BY <1>0, <1>2, <1>3, <1>4, <2>1, <2>2, <2>3, <2>4, Untouched
  <2>5. CASE c \in Of(p)
    <3>1. ~ Unhandled(c)
      BY <1>0, <2>1, <2>5 DEF MarkIf, Mark, Of
    <3>2. Orderly(p)'
      BY <1>0, <1>2, <1>3, <2>2, <2>3, <3>1 DEF PlayerInv, Orderly, Of
    <3>3. ReadsHold(p)'
      BY <1>0, <1>4, <2>1 DEF PlayerInv, ReadsHold
    <3>4. Shown(p)'
      BY <1>0, <1>2, <2>1, <2>2, <2>3 DEF PlayerInv, Shown, Settled, Of
    <3> QED
      BY <3>2, <3>3, <3>4 DEF PlayerInv
  <2> QED
    BY <2>4, <2>5
<1>9. CASE WriteDisconnected(c)
  <2>1. conn[c] = "closing" /\ conn'[c] = "gone" /\ queue' = queue
    BY <1>9 DEF WriteDisconnected, Step, TypeOK
  <2>2. \A d \in Conns : Unhandled(d)' <=> Unhandled(d)
    BY <1>0, <1>4, <2>1 DEF Unhandled, Queued
  <2>3. Live(c) /\ ~ Live(c)' /\ \A d \in Conns \ {c} : Live(d)' <=> Live(d)
    BY <1>3, <2>1 DEF Live
  <2>4. CASE p # PlayerOf[c]
    <3>1. c \notin Of(p)
      BY <2>4 DEF Of
    <3>2. state'[p] = state[p]
      BY <1>9, <2>4 DEF WriteDisconnected, UpdateRoomPlayerState, TypeOK
    <3> QED
      BY <1>0, <1>2, <1>3, <1>4, <2>2, <2>3, <3>1, <3>2, Untouched
  <2>5. CASE p = PlayerOf[c]
    <3>1. UpdateRoomPlayerState(p, "disconnected") /\ c \in Of(p)
      BY <1>9, <2>5 DEF WriteDisconnected, Mark, Of
    <3>2. state'[p] = IF state[p] = "none" THEN "none" ELSE "disconnected"
      BY <3>1 DEF UpdateRoomPlayerState, TypeOK
    <3>3. \A d \in Of(p) : ~ Unhandled(d) /\ (d # c => ~ Live(d))
      BY <1>0, <2>1, <2>3, <3>1 DEF PlayerInv, Orderly
    <3>4. Orderly(p)'
      BY <1>2, <2>2, <2>3, <3>3 DEF Orderly, Of
    <3>5. ReadsHold(p)'
      BY <1>0, <1>4, <3>2 DEF PlayerInv, ReadsHold
    <3>6. Shown(p)'
      BY <1>2, <2>3, <3>2, <3>3 DEF Shown, Settled, Of
    <3> QED
      BY <3>4, <3>5, <3>6 DEF PlayerInv
  <2> QED
    BY <2>4, <2>5
<1> QED
  BY <1>6, <1>7, <1>8, <1>9 DEF ConnStep

\* Statements of a hub on the rows; whoever meets a failure is not orderly.
LEMMA HubWritesPlayers ==
    ASSUME TypeOK, JoinsAtHome, PlayersInv, NEW i \in Instances,
           AddPlayerToRoom(i) \/ WritePresent(i) \/ WriteFails(i),
           NEW p \in Players \ overlapped'
    PROVE  PlayerInv(p)'
<1>0. on' = on /\ p \in Players \ overlapped /\ PlayerInv(p)
  BY Kept DEF Next, HubStep, PlayersInv
<1>1. hub[i] # Waiting /\ queue' = queue /\ conn' = conn
  BY DEF AddPlayerToRoom, WritePresent, WriteFails, Waiting
<1>2. PICK c \in Conns : c = hub[i].conn
  BY <1>1, Working
<1>3. /\ hub[i] \in [at : {"insert", "update"}, conn : Conns]
      /\ PlayerOf[c] \in Players /\ on[c] = i /\ Unhandled(c)
      /\ Of(p) \subseteq Conns
  BY <1>1, <1>2, Working DEF JoinsAtHome, Unhandled, Of
<1>4. /\ hub'[i] = Waiting \/ hub'[i].conn = c
      /\ \A k \in Instances \ {i} : hub'[k] = hub[k]
  BY <1>2, <1>3 DEF AddPlayerToRoom, WritePresent, WriteFails, Goto, TypeOK
<1>5. \A k \in Instances : on[c] = k => k = i
  BY <1>3
<1>6. \A d \in Conns \ {c} : Unhandled(d)' <=> Unhandled(d)
  BY <1>0, <1>1, <1>2, <1>4 DEF Unhandled, Queued, TypeOK
<1>7. \A d \in Conns : Live(d)' <=> Live(d)
  BY <1>1 DEF Live
<1>8. CASE p # PlayerOf[c]
  <2>1. c \notin Of(p)
    BY <1>8 DEF Of
  <2>2. state'[p] = state[p]
    BY <1>2, <1>8 DEF AddPlayerToRoom, WritePresent, WriteFails,
       UpdateRoomPlayerState, TypeOK
  <2> QED
    BY <1>0, <1>1, <1>3, <1>4, <1>6, <1>7, <1>8, <2>1, <2>2, Untouched
<1>9. CASE p = PlayerOf[c]
  <2>1. c \in Of(p) /\ conn[c] = "open"
    BY <1>0, <1>3, <1>9 DEF PlayerInv, Orderly, Of
  <2>2. AddPlayerToRoom(i) \/ WritePresent(i)
    BY <1>0, <1>2, <1>9 DEF WriteFails, Mark
  <2>3. state'[p] = "present"
    BY <1>0, <1>1, <1>2, <1>9, <2>2 DEF AddPlayerToRoom, WritePresent,
       UpdateRoomPlayerState, TypeOK, PlayerInv, ReadsHold
  <2>4. \A k \in Instances \ {i} :
           hub[k] # Waiting => PlayerOf[hub[k].conn] # p
    <3> SUFFICES ASSUME NEW k \in Instances \ {i}, hub[k] # Waiting,
                        PlayerOf[hub[k].conn] = p
                 PROVE  FALSE
      OBVIOUS
    <3>1. PICK d \in Conns : d = hub[k].conn
      BY Working
    <3>2. d \in Of(p) /\ on[d] = k /\ Unhandled(d)
      BY <3>1 DEF Of, JoinsAtHome, Unhandled
    <3>3. d = c
      BY <1>0, <1>3, <2>1, <3>2 DEF PlayerInv, Orderly
    <3> QED
      BY <1>3, <3>2, <3>3
  <2>5. hub'[i] # Waiting => hub'[i].at = "update"
    BY <1>0, <1>2, <1>3, <1>9, <2>2 DEF AddPlayerToRoom, WritePresent, Goto, TypeOK
  <2>6. Orderly(p)'
    BY <1>0, <1>1, <1>3, <1>6, <1>7 DEF PlayerInv, Orderly, Of
  <2>7. ReadsHold(p)'
    BY <1>4, <2>3, <2>4, <2>5 DEF ReadsHold
  <2>8. Shown(p)'
    BY <1>7, <2>1, <2>3 DEF Shown, Live, Of
  <2> QED
    BY <2>6, <2>7, <2>8 DEF PlayerInv
<1> QED
  BY <1>8, <1>9

\* A hub takes a join: it goes on to write, or finds the player present.
LEMMA TakePlayers ==
    ASSUME TypeOK, JoinsAtHome, PlayersInv, NEW i \in Instances, TakeJoined(i),
           NEW p \in Players \ overlapped'
    PROVE  PlayerInv(p)'
<1>0. on' = on /\ p \in Players \ overlapped /\ PlayerInv(p)
  BY Kept DEF Next, HubStep, PlayersInv
<1>1. PICK c \in Conns : c = Head(queue[i])
  BY AfterTail DEF TakeJoined
<1>2. /\ hub[i] = Waiting /\ conn' = conn /\ state' = state
      /\ Queued(i) = Queued(i)' \cup {c}
      /\ \A k \in Instances \ {i} : Queued(k)' = Queued(k)
  BY <1>1, AfterTail DEF TakeJoined
<1>3. PlayerOf[c] \in Players /\ Of(p) \subseteq Conns
  BY PresenceAssumption DEF Of
<1>4. on[c] = i /\ Unhandled(c)
  BY <1>2 DEF JoinsAtHome, Unhandled
<1>5. /\ hub'[i] \in {Waiting, [at |-> "insert", conn |-> c], [at |-> "update", conn |-> c]}
      /\ \A k \in Instances \ {i} : hub'[k] = hub[k]
  BY <1>1 DEF TakeJoined, Goto, TypeOK
<1>6. ASSUME NEW d \in Conns \ {c}
      PROVE  Unhandled(d)' <=> Unhandled(d)
  <2>1. PICK k \in Instances : k = on[d]
    BY DEF TypeOK
  <2>2. d \in Queued(k)' <=> d \in Queued(k)
    BY <1>2
  <2>3. hub'[k] # Waiting /\ hub'[k].conn = d <=> hub[k] # Waiting /\ hub[k].conn = d
    BY <1>2, <1>5
  <2> QED
    BY <1>0, <2>1, <2>2, <2>3 DEF Unhandled
<1>7. \A d \in Conns : Live(d)' <=> Live(d)
  BY <1>2 DEF Live
<1>8. CASE p # PlayerOf[c]
  <2>1. c \notin Of(p)
    BY <1>8 DEF Of
  <2> QED
    BY <1>0, <1>2, <1>3, <1>5, <1>6, <1>7, <1>8, <2>1, Untouched
<1>9. CASE p = PlayerOf[c]
  <2>1. c \in Of(p) /\ conn[c] = "open"
    BY <1>0, <1>4, <1>9 DEF PlayerInv, Orderly, Of
  <2>2. Goto(i, IF ~ NotPresent(state[p]) THEN Waiting
                ELSE IF state[p] = "none" THEN [at |-> "insert", conn |-> c]
                ELSE [at |-> "update", conn |-> c])
    BY <1>0, <1>1, <1>9 DEF TakeJoined, Mark
  <2>3. hub'[i] = IF state[p] = "present" THEN Waiting
                  ELSE IF state[p] = "none" THEN [at |-> "insert", conn |-> c]
                  ELSE [at |-> "update", conn |-> c]
    BY <2>2 DEF Goto, NotPresent, TypeOK
  <2>4. Orderly(p)'
    BY <1>0, <1>2, <1>3, <1>4, <1>6, <1>7 DEF PlayerInv, Orderly, Of
  <2>5. ReadsHold(p)'
    BY <1>0, <1>2, <1>5, <2>3 DEF PlayerInv, ReadsHold, Waiting
  <2>6. state[p] # "present" => Unhandled(c)'
    BY <1>0, <1>4, <2>3 DEF Unhandled, Waiting
  <2>7. Shown(p)'
    BY <1>2, <1>7, <2>1, <2>6 DEF Shown, Settled, Live, Of
  <2> QED
    BY <2>4, <2>5, <2>7 DEF PlayerInv
<1> QED
  BY <1>8, <1>9

\* An instance dies: whoever it served is not orderly.
LEMMA CrashPlayers ==
    ASSUME TypeOK, PlayersInv, NEW i \in Instances, Crash(i),
           NEW p \in Players \ overlapped'
    PROVE  PlayerInv(p)'
<1>0. on' = on /\ p \in Players \ overlapped /\ PlayerInv(p)
  BY Kept DEF Next, PlayersInv
<1>1. /\ state' = state
      /\ conn' = [c \in Conns |-> IF on[c] = i /\ conn[c] # "new"
                                  THEN "gone" ELSE conn[c]]
      /\ queue' = [queue EXCEPT ![i] = <<>>]
      /\ hub' = [hub EXCEPT ![i] = Waiting]
      /\ \A c \in Of(p) : on[c] = i /\ conn[c] # "new" =>
            ~ Live(c) /\ ~ Unhandled(c)
  BY DEF Crash, Goto, Of
<1>2. Queued(i)' = {} /\ \A k \in Instances \ {i} : Queued(k)' = Queued(k)
  BY <1>1, AfterLoss
<1>3. hub'[i] = Waiting /\ \A k \in Instances \ {i} : hub'[k] = hub[k]
  BY <1>1 DEF TypeOK
<1>4. Of(p) \subseteq Conns
  BY DEF Of
<1>5. ASSUME NEW c \in Of(p)
      PROVE  /\ Live(c)' <=> Live(c)
             /\ Unhandled(c)' <=> Unhandled(c)
             /\ conn[c] = "open" => conn'[c] = "open"
  <2>1. CASE on[c] = i
    <3>1. ~ Live(c) /\ ~ Unhandled(c)
      BY <1>0, <1>1, <2>1 DEF Live, PlayerInv, Orderly
    <3>2. ~ Unhandled(c)'
      BY <1>0, <1>2, <1>3, <2>1 DEF Unhandled
    <3> QED
      BY <1>1, <1>4, <3>1, <3>2 DEF Live
  <2>2. CASE on[c] # i
    BY <1>0, <1>1, <1>2, <1>3, <1>4, <2>2 DEF Unhandled, Live, TypeOK
  <2> QED
    BY <2>1, <2>2
<1> QED
  BY <1>0, <1>1, <1>3, <1>5, Untouched

\* The completion, and time: rows change as they were judged.
LEMMA CompletionPlayers ==
    ASSUME TypeOK, VerdictsFit, PlayersInv,
           Tick \/ CompletionStep \/ RollBack \/ UNCHANGED vars,
           NEW p \in Players \ overlapped'
    PROVE  PlayerInv(p)'
<1> USE DEF eventVars
<1>1. UNCHANGED <<conn, on, queue, hub, overlapped>>
  BY DEF Tick, CompletionStep, StartCompletion, CommitCompletion, RollBack, vars
<1>2. p \in Players \ overlapped /\ PlayerInv(p)
  BY <1>1 DEF PlayersInv
<1>3. state'[p] = state[p] \/ state'[p] = FinalState(state[p])
  BY DEF Tick, CompletionStep, StartCompletion, CommitCompletion, RollBack, vars,
     VerdictsFit
<1>4. \A c \in Conns : /\ Live(c)' <=> Live(c)
                       /\ Unhandled(c)' <=> Unhandled(c)
  BY <1>1 DEF Live, Unhandled, Queued
<1> QED
  BY <1>1, <1>2, <1>3, <1>4, Untouched DEF Of

-------------------------------------------------------------------------------
(* The inductive invariant                                                 *)

\* IInv in terms of PlayersInv.
LEMMA InvParts ==
    IInv <=> TypeOK /\ JoinsAtHome /\ VerdictsFit /\ PlayersInv
BY DEF IInv, PlayersInv, PlayerInv, Shown, OrderlyPlayersShown

\* Nobody is connected at the start.
LEMMA InvInit == ASSUME Init PROVE IInv
<1>1. TypeOK
  BY TypeInit
<1>2. JoinsAtHome /\ VerdictsFit
  BY DEF Init, JoinsAtHome, VerdictsFit, Queued
<1>3. \A c \in Conns : ~ Live(c) /\ ~ Unhandled(c)
  BY <1>1 DEF Init, Live, Unhandled, Queued, TypeOK
<1>4. PlayersInv
  BY <1>3 DEF Init, PlayersInv, PlayerInv, Orderly, ReadsHold, Shown, Of
<1> QED
  BY <1>1, <1>2, <1>4, InvParts

\* Every step keeps IInv.
LEMMA InvStep == ASSUME IInv, [Next]_vars PROVE IInv'
<1>0. TypeOK /\ JoinsAtHome /\ VerdictsFit /\ PlayersInv
  BY InvParts
<1>1. TypeOK' /\ JoinsAtHome' /\ VerdictsFit'
  BY <1>0, TypeStep, JoinsAtHomeStep, VerdictsFitStep
<1>2. ASSUME NEW p \in Players \ overlapped'
      PROVE  PlayerInv(p)'
  <2>1. ASSUME NEW c \in Conns, ConnStep(c)
        PROVE  PlayerInv(p)'
    BY <1>0, <2>1, ConnPlayers
  <2>2. ASSUME NEW i \in Instances, HubStep(i) \/ WriteFails(i) \/ Crash(i)
        PROVE  PlayerInv(p)'
    BY <1>0, <2>2, HubWritesPlayers, TakePlayers, CrashPlayers DEF HubStep
  <2>3. CASE Tick \/ CompletionStep \/ RollBack \/ UNCHANGED vars
    BY <1>0, <2>3, CompletionPlayers
  <2> QED
    BY <2>1, <2>2, <2>3 DEF Next
<1>3. PlayersInv'
  BY <1>2 DEF PlayersInv
<1>4. TypeOK' /\ JoinsAtHome' /\ VerdictsFit' /\ PlayersInv' => IInv'
  BY DEF IInv, PlayersInv, PlayerInv, Shown, OrderlyPlayersShown
<1> QED
  BY <1>1, <1>3, <1>4

\* The connections of an orderly player follow each other, the hub's read of
\* his row holds until it writes, and a verdict is what the locked row says.
THEOREM Invariant == Spec => []IInv
<1>1. Init => IInv
  BY InvInit
<1>2. IInv /\ [Next]_vars => IInv'
  BY InvStep
<1> QED
  BY <1>1, <1>2, PTL DEF Spec

\* An orderly player is shown as present (or completed) when he is connected,
\* and not when he is not, once his joins are handled.
THEOREM PlayersShown == Spec => []OrderlyPlayersShown
<1>1. IInv => OrderlyPlayersShown
  BY DEF IInv
<1> QED
  BY <1>1, Invariant, PTL

\* The step of OrderlyPlayersJudged.
LEMMA JudgedStep ==
    ASSUME IInv, [Next]_vars
    PROVE  \A p \in Players \ overlapped : state'[p] # state[p] =>
              /\ state'[p] = "completed" => \E c \in Of(p) : Live(c)
              /\ state'[p] = "left" => \A c \in Of(p) : Live(c) => Unhandled(c)
<1> SUFFICES ASSUME NEW p \in Players \ overlapped, state'[p] # state[p]
             PROVE  /\ state'[p] = "completed" => \E c \in Of(p) : Live(c)
                    /\ state'[p] = "left" =>
                          \A c \in Of(p) : Live(c) => Unhandled(c)
  OBVIOUS
<1> USE DEF eventVars
<1>0. TypeOK /\ VerdictsFit /\ PlayerInv(p)
  BY InvParts DEF PlayersInv
<1>1. \/ state'[p] \in {"present", "disconnected"}
      \/ state'[p] = FinalState(state[p])
  <2>1. ASSUME NEW c \in Conns, ConnStep(c)
        PROVE  state'[p] = "disconnected"
    BY <1>0, <2>1 DEF ConnStep, JoinRoom, CheckNotLeft, RegisterListener,
       Disconnect, WriteDisconnected, UpdateRoomPlayerState, TypeOK
  <2>2. ASSUME NEW i \in Instances, HubStep(i) \/ WriteFails(i) \/ Crash(i)
        PROVE  state'[p] = "present"
    BY <1>0, <2>2 DEF HubStep, TakeJoined, AddPlayerToRoom, WritePresent,
       WriteFails, Crash, UpdateRoomPlayerState, TypeOK
  <2>3. CASE Tick \/ CompletionStep \/ RollBack \/ UNCHANGED vars
    BY <1>0, <2>3 DEF Tick, CompletionStep, StartCompletion, CommitCompletion,
       RollBack, vars, VerdictsFit
  <2> QED
    BY <2>1, <2>2, <2>3 DEF Next
<1>2. ASSUME state'[p] = "completed"
      PROVE  \E c \in Of(p) : Live(c)
  <2>1. state[p] = "present"
    BY <1>1, <1>2 DEF FinalState
  <2>2. ASSUME \A c \in Of(p) : ~ Live(c)
        PROVE  FALSE
    <3>1. Settled(p)
      BY <1>0, <2>2 DEF Settled, PlayerInv, Orderly, Live
    <3> QED
      BY <1>0, <2>1, <2>2, <3>1 DEF PlayerInv, Shown
  <2> QED
    BY <2>2
<1>3. ASSUME state'[p] = "left", NEW c \in Of(p), Live(c)
      PROVE  Unhandled(c)
  <2>1. state[p] = "disconnected"
    BY <1>1, <1>3 DEF FinalState
  <2>2. ~ Settled(p)
    BY <1>0, <1>3, <2>1 DEF PlayerInv, Shown
  <2>3. PICK d \in Of(p) : Unhandled(d)
    BY <2>2 DEF Settled
  <2> QED
    BY <1>0, <1>3, <2>3 DEF PlayerInv, Orderly
<1> QED
  BY <1>2, <1>3

\* The completion finds an orderly player completed only if he is connected,
\* and left only if no join of his has been handled since he was away.
THEOREM PlayersJudged == Spec => OrderlyPlayersJudged
<1>1. IInv /\ [Next]_vars =>
        [\A p \in Players \ overlapped : state'[p] # state[p] =>
            /\ state'[p] = "completed" => \E c \in Of(p) : Live(c)
            /\ state'[p] = "left" => \A c \in Of(p) : Live(c) => Unhandled(c)]_vars
  BY JudgedStep
<1> QED
  BY <1>1, Invariant, PTL DEF Spec, OrderlyPlayersJudged
=============================================================================
