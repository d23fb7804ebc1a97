------------------------------ MODULE RoomStreams ------------------------------
(***************************************************************************)
(* How the leaderboard of a room reaches the players.  Whenever the rows of*)
(* the room have changed, the goroutine of a RoomHub reads them and        *)
(* publishes what it read to the fanout exchange; every instance takes the *)
(* message from its own queue, and starts one goroutine for each listener, *)
(* which puts the message into the channel of the player.  JoinRoomHandler *)
(* writes what is in the channel to the stream, in that order: here it is  *)
(* shown when it is in the channel.                                        *)
(*                                                                         *)
(* A leaderboard is the number of the change it was read after.  The other *)
(* messages of a room (who joined, left or solved) take the same way; here *)
(* they only fill channels.  A player without a row connects once and stays*)
(* until his join is handled (RoomPresence has those who do not).  A step  *)
(* is one transaction, a read, or an operation on a queue or a channel.    *)
(***************************************************************************)
EXTENDS Naturals, FiniteSets, Sequences, SequencesExt

CONSTANTS
    Instances,
    Players,
    HomeOf,      \* the instance a player is connected to
    MaxEvents    \* bound: solved problems, failed statements and publications,
                 \* messages dropped

ASSUME StreamsAssumption ==
    /\ IsFiniteSet(Players)
    /\ HomeOf \in [Players -> Instances]
    /\ MaxEvents \in Nat

VARIABLES
    version,   \* how many changes the rows of the room have seen
    solutions, \* how many of them are solved problems
    hub,       \* what the goroutine of each hub does
    published, \* how many leaderboards were published
    wire,      \* those each instance sent to each other's queue, in order
    sending,   \* those that a goroutine of dispatchEvent has for a player
    shown,     \* the leaderboard a player was shown last
    player,    \* how far a player is
    joinedAt,  \* history: the change that a join made, 0 for none
    since,     \* history: what was published when a player was registered
    received,  \* history: the leaderboards a player was shown
    failures,
    lost,      \* history: the players who missed a leaderboard, or to whom
               \* one without entries was sent, or whose join failed
    raced      \* history: the players for whom two leaderboards were under
               \* way at once

roomVars == <<version, solutions>>
playerVars == <<player, joinedAt, since>>
historyVars == <<failures, lost, raced>>
streamVars == <<sending, shown, received>>
vars == <<roomVars, hub, published, wire, streamVars, playerVars, historyVars>>

\* Every player makes two changes, joining and leaving.
MaxChanges == MaxEvents + 2 * Cardinality(Players)
Boards == 0..MaxChanges
Messages == [number : Nat, board : Boards]
Idle == [at |-> "idle"]
HubStates == {Idle} \cup [at : {"read", "readLeft"}]
             \cup [at : {"publish"}, board : Boards]

Init ==
    /\ version = 0
    /\ solutions = 0
    /\ hub = [i \in Instances |-> Idle]
    /\ published = 0
    /\ wire = [i \in Instances |-> [k \in Instances |-> <<>>]]
    /\ sending = [p \in Players |-> {}]
    /\ shown = [p \in Players |-> 0]
    /\ received = [p \in Players |-> {}]
    /\ player = [p \in Players |-> "away"]
    /\ joinedAt = [p \in Players |-> 0]
    /\ since = [p \in Players |-> 0]
    /\ failures = 0
    /\ lost = {}
    /\ raced = {}

Goto(i, s) == hub' = [hub EXCEPT ![i] = s]
Change == version' = version + 1
Within == solutions + failures < MaxEvents
Fails == Within /\ failures' = failures + 1
HasRow(p) == joinedAt[p] # 0
Listening(p) == player[p] \in {"joining", "joined"}
Listeners(k) == {p \in Players : HomeOf[p] = k /\ Listening(p)}

\* Instance i has work or messages that others may overtake.
Busy(i) == hub[i] # Idle \/ \E k \in Instances : wire[i][k] # <<>>

\* History: the hub of i begins what another has not finished.
Race(i) ==
    raced' = IF \E k \in Instances \ {i} : Busy(k) THEN Players ELSE raced

-------------------------------------------------------------------------------
(* The handlers                                                            *)

\* The listener is registered and PlayerJoined is sent.
RegisterListener(p) ==
    /\ player[p] = "away"
    /\ player' = [player EXCEPT ![p] = "joining"]
    /\ since' = [since EXCEPT ![p] = published]
    /\ UNCHANGED <<roomVars, hub, published, wire, streamVars, joinedAt,
                   historyVars>>

\* The stream ends; the deferred call removes the listener.
Disconnect(p) ==
    /\ player[p] = "joined"
    /\ player' = [player EXCEPT ![p] = "closing"]
    /\ UNCHANGED <<roomVars, hub, published, wire, streamVars, joinedAt, since,
                   historyVars>>

\* Its goroutine writes 'disconnected' and sends PlayerLeft, even if there is
\* no row or the statement fails.
WriteDisconnected(p) ==
    /\ player[p] = "closing"
    /\ \/ HasRow(p) /\ Change /\ UNCHANGED failures
       \/ HasRow(p) /\ Fails /\ UNCHANGED version
       \/ ~ HasRow(p) /\ UNCHANGED <<version, failures>>
    /\ player' = [player EXCEPT ![p] = "leaving"]
    /\ UNCHANGED <<solutions, hub, published, wire, streamVars, joinedAt, since,
                   lost, raced>>

-------------------------------------------------------------------------------
(* The goroutine of a hub                                                  *)

\* The row of the player is written.
AddPlayerToRoom(p) ==
    /\ Change
    /\ joinedAt' = [joinedAt EXCEPT ![p] = version + 1]

\* The row is written and the room ranked.  When a statement fails the hub gives
\* up and publishes nothing, although the row may be there: the INSERT is
\* committed when the UPDATE of the state fails.
ProcessPlayerJoined(p) ==
    /\ player[p] = "joining"
    /\ hub[HomeOf[p]] = Idle
    /\ player' = [player EXCEPT ![p] = "joined"]
    /\ \/ /\ AddPlayerToRoom(p)
          /\ Goto(HomeOf[p], [at |-> "read"])
          /\ Race(HomeOf[p])
          /\ UNCHANGED <<failures, lost>>
       \/ /\ Fails
          /\ \/ AddPlayerToRoom(p) /\ lost' = Players
             \/ lost' = lost \cup {p} /\ UNCHANGED <<version, joinedAt>>
          /\ UNCHANGED <<hub, raced>>
    /\ UNCHANGED <<solutions, published, wire, streamVars, since>>

\* A score transaction is committed.  Without its acknowledgement the hub gives
\* up as well.
ProcessSolutionResult(i) ==
    /\ hub[i] = Idle
    /\ Within
    /\ solutions' = solutions + 1
    /\ Change
    /\ \/ /\ Goto(i, [at |-> "read"])
          /\ Race(i)
          /\ UNCHANGED <<failures, lost>>
       \/ /\ Fails
          /\ lost' = Players
          /\ UNCHANGED <<hub, raced>>
    /\ UNCHANGED <<published, wire, streamVars, playerVars>>

\* Mutant: the hub writes 'disconnected' as well.
SecondWrite == Change /\ UNCHANGED solutions

\* The row was written by the handler.
NoWrite == UNCHANGED roomVars

\* Only the others are told.
ProcessPlayerLeft(p) ==
    /\ player[p] = "leaving"
    /\ hub[HomeOf[p]] = Idle
    /\ player' = [player EXCEPT ![p] = "gone"]
    /\ Goto(HomeOf[p], [at |-> "readLeft"])
    /\ Race(HomeOf[p])
    /\ NoWrite
    /\ UNCHANGED <<published, wire, streamVars, joinedAt, since, failures,
                   lost>>

\* Mutant: the leaderboard is the one from before the change.
OutdatedBoard == version - 1

\* GetRoomPlayers
CurrentBoard == version

\* getRoomLeaderboardEntries.  When it fails processPlayerJoined and
\* processSolutionResult give up, and processPlayerLeft publishes a
\* leaderboard without entries.
GetRoomLeaderboardEntries(i) ==
    /\ hub[i].at \in {"read", "readLeft"}
    /\ \/ /\ Goto(i, [at |-> "publish", board |-> CurrentBoard])
          /\ UNCHANGED <<failures, lost>>
       \/ /\ Fails
          /\ lost' = Players
          /\ Goto(i, IF hub[i].at = "readLeft"
                     THEN [at |-> "publish", board |-> 0]
                     ELSE Idle)
    /\ UNCHANGED <<roomVars, published, wire, streamVars, playerVars, raced>>

\* Mutant: the message goes to the queue of the sender alone.
OwnQueue(i, m) == [wire EXCEPT ![i][i] = Append(@, m)]

\* The fanout exchange has a queue for every instance.
EveryQueue(i, m) ==
    [wire EXCEPT ![i] = [k \in Instances |-> Append(wire[i][k], m)]]

\* An error of the publication is logged.
PublishEvent(i) ==
    /\ hub[i].at = "publish"
    /\ \/ /\ published' = published + 1
          /\ wire' = EveryQueue(i, [number |-> published + 1,
                                    board |-> hub[i].board])
          /\ UNCHANGED <<failures, lost>>
       \/ /\ Fails
          /\ lost' = Players
          /\ UNCHANGED <<published, wire>>
    /\ Goto(i, Idle)
    /\ UNCHANGED <<roomVars, streamVars, playerVars, raced>>

-------------------------------------------------------------------------------
(* The way to the streams                                                  *)

\* The copy of the listeners that dispatchEvent makes.
Targets(k) == Listeners(k)

\* listenForAMQPEvents takes a message from the queue of k, where those of one
\* sender are in order; dispatchEvent starts the goroutines.
DispatchEvent(i, k) ==
    /\ wire[i][k] # <<>>
    /\ wire' = [wire EXCEPT ![i][k] = Tail(@)]
    /\ sending' = [p \in Players |->
                     IF p \in Targets(k) THEN sending[p] \cup {Head(wire[i][k])}
                                         ELSE sending[p]]
    /\ raced' = raced \cup {p \in Targets(k) : sending[p] # {}}
    /\ UNCHANGED <<roomVars, hub, published, shown, received, playerVars,
                   failures, lost>>

\* A goroutine sends without waiting: a full channel, and one that is closed
\* (the panic is recovered), drop the message.
Send(p, m) ==
    /\ m \in sending[p]
    /\ sending' = [sending EXCEPT ![p] = @ \ {m}]
    /\ \/ /\ Listening(p)
          /\ shown' = [shown EXCEPT ![p] = m.board]
          /\ received' = [received EXCEPT ![p] = @ \cup {m}]
          /\ UNCHANGED <<failures, lost>>
       \/ /\ Listening(p)
          /\ Fails
          /\ lost' = lost \cup {p}
          /\ UNCHANGED <<shown, received>>
       \/ /\ ~ Listening(p)
          /\ UNCHANGED <<shown, received, failures, lost>>
    /\ UNCHANGED <<roomVars, hub, published, wire, playerVars, raced>>

-------------------------------------------------------------------------------
HubStep(i) ==
    \/ \E p \in Players : HomeOf[p] = i /\ (ProcessPlayerJoined(p)
                                           \/ ProcessPlayerLeft(p))
    \/ GetRoomLeaderboardEntries(i)
    \/ PublishEvent(i)

StreamStep(p) == \E m \in sending[p] : Send(p, m)

Next ==
    \/ \E p \in Players :
          \/ RegisterListener(p)
          \/ Disconnect(p)
          \/ WriteDisconnected(p)
          \/ StreamStep(p)
    \/ \E i \in Instances : ProcessSolutionResult(i) \/ HubStep(i)
    \/ \E i, k \in Instances : DispatchEvent(i, k)

Spec == Init /\ [][Next]_vars

\* Hubs, consumers and goroutines go on.
FairSpec ==
    /\ Spec
    /\ \A i \in Instances : WF_vars(HubStep(i))
    /\ \A i, k \in Instances : WF_vars(DispatchEvent(i, k))
    /\ \A p \in Players : WF_vars(StreamStep(p))

-------------------------------------------------------------------------------
(* Properties                                                              *)

TypeOK ==
    /\ version \in Boards
    /\ solutions \in 0..MaxEvents
    /\ hub \in [Instances -> HubStates]
    /\ published \in Nat
    /\ wire \in [Instances -> [Instances -> Seq(Messages)]]
    /\ sending \in [Players -> SUBSET Messages]
    /\ shown \in [Players -> Boards]
    /\ received \in [Players -> SUBSET Messages]
    /\ player \in [Players -> {"away", "joining", "joined", "closing",
                               "leaving", "gone"}]
    /\ joinedAt \in [Players -> Boards]
    /\ since \in [Players -> Nat]
    /\ failures \in Nat
    /\ lost \subseteq Players
    /\ raced \subseteq Players

\* What is under way to p.
OnTheWay(p) ==
    (UNION {ToSet(wire[i][HomeOf[p]]) : i \in Instances}) \cup sending[p]

Numbers(M) == {m.number : m \in M}

Quiet ==
    /\ \A i \in Instances : ~ Busy(i)
    /\ \A p \in Players : player[p] \notin {"joining", "closing", "leaving"}

\* A player who is listening, on whatever instance, and lost nothing, gets
\* every leaderboard published since, each once; and once the room is quiet
\* the last one shown is that of its rows, provided that no two leaderboards
\* were under way at once.  Without that proviso it is false: one goroutine
\* for each message and listener, and hubs that publish what they read a
\* while ago, let an older leaderboard come last.
StreamsFollowRoom ==
    \A p \in Players : Listening(p) /\ p \notin lost =>
        /\ since[p] + 1 .. published
              \subseteq Numbers(OnTheWay(p) \cup received[p])
        /\ OnTheWay(p) \cap received[p] = {}
        /\ Quiet /\ OnTheWay(p) = {} /\ p \notin raced => shown[p] = version

\* The changes are the solutions, and a join and an end of each stream at most.
Joined == {p \in Players : player[p] \in {"joined", "closing", "leaving", "gone"}}
Left == {p \in Players : player[p] \in {"leaving", "gone"}}
ChangesCounted == version <= solutions + Cardinality(Joined) + Cardinality(Left)

\* On its way to a player a leaderboard is in one place at a time.
InOnePlace ==
    /\ \A i, k \in Instances :
          /\ IsInjective(wire[i][k])
          /\ \A m \in ToSet(wire[i][k]) : m.number <= published
          /\ \A j \in Instances \ {i} : ToSet(wire[i][k]) \cap ToSet(wire[j][k]) = {}
    /\ \A p \in Players :
          /\ sending[p] \cap received[p] = {}
          /\ \A m \in sending[p] \cup received[p] :
                /\ m.number <= published
                /\ \A i \in Instances : m \notin ToSet(wire[i][HomeOf[p]])

\* A player who listens and lost nothing has, or will get, what was published.
Covered(p) ==
    Listening(p) /\ p \notin lost =>
        since[p] + 1 .. published \subseteq Numbers(OnTheWay(p) \cup received[p])

\* One instance is busy at a time, and one goroutine sends to p.
OneAtATime(p) ==
    /\ \A i, j \in Instances : Busy(i) /\ Busy(j) => i = j
    /\ \A m, n \in sending[p] : m = n

\* What comes last on the way to p, from the hub to what he was shown, is the
\* leaderboard of the rows, unless another will be read.
UpToDate(p) ==
    /\ player[p] = "joined"
    /\ \A q \in Players : player[q] # "leaving"
    /\ \A i \in Instances : hub[i].at \notin {"read", "readLeft"}
    =>
    /\ \A i \in Instances : hub[i].at = "publish" => hub[i].board = version
    /\ (\A i \in Instances : hub[i].at # "publish") =>
          /\ \A i \in Instances :
                wire[i][HomeOf[p]] # <<>> => Last(wire[i][HomeOf[p]]).board = version
          /\ (\A i \in Instances : wire[i][HomeOf[p]] = <<>>) =>
                /\ \A m \in sending[p] : m.board = version
                /\ sending[p] = {} => shown[p] = version

\* What every step preserves.
IInv ==
    /\ TypeOK
    /\ ChangesCounted
    /\ InOnePlace
    /\ \A p \in Players :
          /\ Covered(p)
          /\ p \notin raced => OneAtATime(p) /\ (p \notin lost => UpToDate(p))

\* Who joins and stays is shown a leaderboard that has his row, unless a
\* statement, a publication or a message of it failed.
JoinersGetBoards ==
    \A p \in Players :
        player[p] = "joining" ~>
            \/ ~ Listening(p)
            \/ p \in lost
            \/ player[p] = "joined" /\ \E m \in received[p] : joinedAt[p] \in 1..m.board
===============================================================================
