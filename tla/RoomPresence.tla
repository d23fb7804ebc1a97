---------------------------- MODULE RoomPresence ----------------------------
(***************************************************************************)
(* room_players.state of the players of one room: who is shown as present, *)
(* who as disconnected, and what the completion of the event makes of it.  *)
(*                                                                         *)
(* The row of a player is written by three parties that do not wait for    *)
(* each other: the goroutine of the RoomHub, which handles PlayerJoined one*)
(* after the other; the goroutine that the deferred call of JoinRoomHandler*)
(* starts when a stream ends; and the completion transaction, which locks  *)
(* the rows it changes until it commits.  Each instance has its own hub.   *)
(* A step is one statement on the database or one operation on a channel   *)
(* or on the listeners.                                                    *)
(*                                                                         *)
(* LeaveRoomHandler and processPlayerLeft read, and tell others: they      *)
(* change no row, no listener, and are not here.                           *)
(***************************************************************************)
EXTENDS Naturals, Sequences

CONSTANTS
    Instances,   \* the instances of the service
    Players,     \* the players who may compete in the room
    Conns,       \* bound: the connections that are ever made
    PlayerOf,    \* whose connection it is
    MaxFailures  \* bound: statements that fail, instances that die

ASSUME PresenceAssumption ==
    /\ PlayerOf \in [Conns -> Players]
    /\ MaxFailures \in Nat

VARIABLES
    state,      \* room_players.state, "none" without a row
    event,      \* events.status
    ended,      \* end_date has passed
    verdict,    \* what the open completion transaction has made of the rows
                \* it has locked, "none" of the others
    conn,       \* how far the handler of each connection is
    on,         \* the instance of a connection
    queue,      \* the PlayerJoined in the Events channel of each hub
    hub,        \* what the goroutine of each hub does
    failures,
    overlapped  \* history: the players whose connections overlapped, or
                \* who met a failure

eventVars == <<event, ended, verdict>>
vars == <<state, eventVars, conn, on, queue, hub, failures, overlapped>>

Waiting == [at |-> "wait"]

HubStates == {Waiting} \cup [at : {"insert", "update"}, conn : Conns]

Init ==
    /\ state = [p \in Players |-> "none"]
    /\ event = "active"
    /\ ended = FALSE
    /\ verdict = [p \in Players |-> "none"]
    /\ conn = [c \in Conns |-> "new"]
    /\ on \in [Conns -> Instances]
    /\ queue = [i \in Instances |-> <<>>]
    /\ hub = [i \in Instances |-> Waiting]
    /\ failures = 0
    /\ overlapped = {}

Goto(i, s) == hub' = [hub EXCEPT ![i] = s]
Step(c, s) == conn' = [conn EXCEPT ![c] = s]
Of(p) == {c \in Conns : PlayerOf[c] = p}
Queued(i) == {queue[i][n] : n \in DOMAIN queue[i]}

\* The join of a connection that its hub has not finished with.
Unhandled(c) ==
    \/ c \in Queued(on[c])
    \/ hub[on[c]] # Waiting /\ hub[on[c]].conn = c

\* A connection that is registered, or whose end is not written yet.
Live(c) == conn[c] \in {"open", "closing"}

\* History: p is no longer one of the players whose connections follow each
\* other.
Mark(p) == overlapped' = overlapped \cup {p}
MarkIf(p, b) == IF b THEN Mark(p) ELSE UNCHANGED overlapped

\* One of the failures the model allows.
Fails == failures < MaxFailures /\ failures' = failures + 1

Tick ==
    /\ ~ ended
    /\ ended' = TRUE
    /\ UNCHANGED <<state, event, verdict, conn, on, queue, hub, failures,
                   overlapped>>

-------------------------------------------------------------------------------
(* JoinRoomHandler                                                         *)

\* "event end time validation"; Players are those who pass the checks of
\* their guild and of the selected members.
JoinRoom(c) ==
    /\ conn[c] = "new"
    /\ ~ ended
    /\ Step(c, "allowed")
    /\ UNCHANGED <<state, eventVars, on, queue, hub, failures, overlapped>>

\* "Players who explicitly left cannot rejoin": only the completion of the
\* event ever writes 'left'.
CheckNotLeft(c) ==
    /\ conn[c] = "allowed"
    /\ Step(c, IF state[PlayerOf[c]] = "left" THEN "gone" ELSE "checked")
    /\ UNCHANGED <<state, eventVars, on, queue, hub, failures, overlapped>>

Listening(p, i) == \E c \in Of(p) : conn[c] = "open" /\ on[c] = i

\* The listener is registered unless the player has one on this instance, and
\* PlayerJoined is sent.
RegisterListener(c) ==
    LET p == PlayerOf[c] IN
    /\ conn[c] = "checked"
    /\ \/ /\ Listening(p, on[c])
          /\ Step(c, "gone")
          /\ UNCHANGED <<queue, overlapped>>
       \/ /\ ~ Listening(p, on[c])
          /\ Step(c, "open")
          /\ queue' = [queue EXCEPT ![on[c]] = Append(@, c)]
          /\ MarkIf(p, \E d \in Of(p) : Live(d) \/ Unhandled(d))
    /\ UNCHANGED <<state, eventVars, on, hub, failures>>

\* The stream ends: the deferred call removes the listener and leaves the
\* rest to a goroutine.
Disconnect(c) ==
    /\ conn[c] = "open"
    /\ Step(c, "closing")
    /\ MarkIf(PlayerOf[c], Unhandled(c))
    /\ UNCHANGED <<state, eventVars, on, queue, hub, failures>>

\* Mutant: the completion locks no row.
NoLock(p) == TRUE

\* The row can be updated: no other transaction holds it.
Unlocked(p) == verdict[p] = "none"

\* UPDATE room_players SET state = s WHERE it is the row of p, if there is one.
UpdateRoomPlayerState(p, s) ==
    /\ Unlocked(p)
    /\ state' = [state EXCEPT ![p] = IF @ = "none" THEN "none" ELSE s]

\* The goroutine of a stream that ended.  An error is ignored.
WriteDisconnected(c) ==
    LET p == PlayerOf[c] IN
    /\ conn[c] = "closing"
    /\ Step(c, "gone")
    /\ \/ /\ UpdateRoomPlayerState(p, "disconnected")
          /\ UNCHANGED <<failures, overlapped>>
       \/ /\ Fails
          /\ Mark(p)
          /\ UNCHANGED state
    /\ UNCHANGED <<eventVars, on, queue, hub>>

-------------------------------------------------------------------------------
(* RoomHub.processPlayerJoined                                             *)

\* Mutant: a player with a row is left as he is.
OnlyNew(s) == s = "none"

\* What the hub has read is not 'present', no row included.
NotPresent(s) == s # "present"

\* GetRoomPlayer.  An error other than ErrNoRows is taken for a row whose
\* state is the zero value.
TakeJoined(i) ==
    LET c == Head(queue[i])
        s == state[PlayerOf[c]] IN
    /\ hub[i] = Waiting
    /\ queue[i] # <<>>
    /\ queue' = [queue EXCEPT ![i] = Tail(@)]
    /\ \/ /\ Goto(i, IF ~ NotPresent(s) THEN Waiting
                     ELSE IF s = "none" THEN [at |-> "insert", conn |-> c]
                     ELSE [at |-> "update", conn |-> c])
          /\ UNCHANGED <<failures, overlapped>>
       \/ /\ Fails
          /\ Mark(PlayerOf[c])
          /\ Goto(i, [at |-> "update", conn |-> c])
    /\ UNCHANGED <<state, eventVars, conn, on>>

\* addPlayerToRoom, on which the state is written once more.  The primary key
\* refuses a second row.
AddPlayerToRoom(i) ==
    LET p == PlayerOf[hub[i].conn] IN
    /\ hub[i].at = "insert"
    /\ IF state[p] = "none"
       THEN /\ state' = [state EXCEPT ![p] = "present"]
            /\ Goto(i, [hub[i] EXCEPT !.at = "update"])
       ELSE /\ Goto(i, Waiting)
            /\ UNCHANGED state
    /\ UNCHANGED <<eventVars, conn, on, queue, failures, overlapped>>

WritePresent(i) ==
    /\ hub[i].at = "update"
    /\ UpdateRoomPlayerState(PlayerOf[hub[i].conn], "present")
    /\ Goto(i, Waiting)
    /\ UNCHANGED <<eventVars, conn, on, queue, failures, overlapped>>

\* A statement of the hub fails: processPlayerJoined returns the error.
WriteFails(i) ==
    /\ hub[i] # Waiting
    /\ Fails
    /\ Mark(PlayerOf[hub[i].conn])
    /\ Goto(i, Waiting)
    /\ UNCHANGED <<state, eventVars, conn, on, queue>>

-------------------------------------------------------------------------------
(* The completion transaction, and crashes                                 *)

\* Mutant: whoever is in the room when the event ends has left it.
AllLeft(s) == IF s = "none" THEN "none" ELSE "left"

\* Mutant: a state the enumeration of the database does not have.
Finished(s) == IF s = "present" THEN "finished" ELSE s

\* The CASE of UpdateRoomPlayerStatesOnEventComplete.
FinalState(s) ==
    CASE s = "present" -> "completed"
      [] s = "disconnected" -> "left"
      [] OTHER -> s

\* The rows that exist are locked; what they become is decided, and hidden
\* until the commit.
StartCompletion ==
    /\ ended
    /\ event = "active"
    /\ event' = "completing"
    /\ verdict' = [p \in Players |-> FinalState(state[p])]
    /\ UNCHANGED <<state, ended, conn, on, queue, hub, failures, overlapped>>

\* Mutant: the rows stay locked.
KeepLocks == UNCHANGED verdict

Unlock == verdict' = [p \in Players |-> "none"]

CommitCompletion ==
    /\ event = "completing"
    /\ event' = "completed"
    /\ state' = [p \in Players |-> IF verdict[p] # "none" THEN verdict[p]
                                                          ELSE state[p]]
    /\ Unlock
    /\ UNCHANGED <<ended, conn, on, queue, hub, failures, overlapped>>

\* A later statement of the transaction fails: the monitor tries again.
RollBack ==
    /\ event = "completing"
    /\ Fails
    /\ event' = "active"
    /\ Unlock
    /\ UNCHANGED <<state, ended, conn, on, queue, hub, overlapped>>

\* An instance dies with its streams, its hub and its goroutines.
Crash(i) ==
    LET mine == {c \in Conns : on[c] = i /\ conn[c] # "new"} IN
    /\ \E c \in mine : conn[c] # "gone" \/ Unhandled(c)
    /\ Fails
    /\ conn' = [c \in Conns |-> IF c \in mine THEN "gone" ELSE conn[c]]
    /\ queue' = [queue EXCEPT ![i] = <<>>]
    /\ Goto(i, Waiting)
    /\ overlapped' = overlapped
         \cup {PlayerOf[c] : c \in {d \in mine : Live(d) \/ Unhandled(d)}}
    /\ UNCHANGED <<state, eventVars, on>>

-------------------------------------------------------------------------------
HubStep(i) == TakeJoined(i) \/ AddPlayerToRoom(i) \/ WritePresent(i)

CompletionStep == StartCompletion \/ CommitCompletion

ConnStep(c) ==
    \/ JoinRoom(c)
    \/ CheckNotLeft(c)
    \/ RegisterListener(c)
    \/ Disconnect(c)
    \/ WriteDisconnected(c)

Next ==
    \/ Tick
    \/ \E c \in Conns : ConnStep(c)
    \/ \E i \in Instances : HubStep(i) \/ WriteFails(i) \/ Crash(i)
    \/ CompletionStep
    \/ RollBack

Spec == Init /\ [][Next]_vars

\* The hub takes what is in its channel, and the monitor completes events.
FairSpec ==
    /\ Spec
    /\ \A i \in Instances : WF_vars(HubStep(i))
    /\ WF_vars(CompletionStep)

-------------------------------------------------------------------------------
(* Properties                                                              *)

States == {"none", "present", "disconnected", "left", "completed"}

TypeOK ==
    /\ state \in [Players -> States]
    /\ event \in {"active", "completing", "completed"}
    /\ ended \in BOOLEAN
    /\ verdict \in [Players -> States]
    /\ conn \in [Conns -> {"new", "allowed", "checked", "open", "closing",
                           "gone"}]
    /\ on \in [Conns -> Instances]
    /\ queue \in [Instances -> Seq(Conns)]
    /\ hub \in [Instances -> HubStates]
    /\ failures \in Nat
    /\ overlapped \subseteq Players

Settled(p) == \A c \in Of(p) : ~ Unhandled(c)

\* As long as the connections of a player follow each other, his row tells
\* whether he is connected: once the hub has handled his join he is shown as
\* present (or, from the end on, as completed), and when his last stream has
\* ended he is not (getRoomLeaderboardEntries shows the state to everyone).
\* Without that proviso it is false: 'disconnected' of an older stream can
\* overtake 'present', and 'present' of a stream that is gone can come last.
OrderlyPlayersShown ==
    \A p \in Players \ overlapped : Settled(p) =>
        /\ (\E c \in Of(p) : Live(c)) => state[p] \in {"present", "completed"}
        /\ (\A c \in Of(p) : ~ Live(c)) => state[p] # "present"

\* "present -> completed (player was active when event ended), disconnected ->
\* left (player disconnected during event)": so it is for these players, at
\* the commit of the completion.
OrderlyPlayersJudged ==
    [][\A p \in Players \ overlapped : state'[p] # state[p] =>
          /\ state'[p] = "completed" => \E c \in Of(p) : Live(c)
          /\ state'[p] = "left" =>
                \A c \in Of(p) : Live(c) => Unhandled(c)]_vars

\* A hub works on the joins of its own connections.
JoinsAtHome ==
    \A i \in Instances :
        /\ \A c \in Queued(i) : on[c] = i
        /\ hub[i] # Waiting => on[hub[i].conn] = i

\* What the open completion holds is what the rows of the room say: nobody
\* writes a row that it has locked.
VerdictsFit ==
    \A p \in Players : verdict[p] # "none" =>
        event = "completing" /\ verdict[p] = FinalState(state[p])

\* The connections of an orderly player follow each other: the next begins when
\* the one before is written off, and none ends before its join is handled.
Orderly(p) ==
    /\ \A c, d \in Of(p) :
          (Live(c) \/ Unhandled(c)) /\ (Live(d) \/ Unhandled(d)) => c = d
    /\ \A c \in Of(p) : Unhandled(c) => conn[c] = "open"

\* What the hub has read of an orderly player is still so when it writes.
ReadsHold(p) ==
    \A i \in Instances : hub[i] # Waiting /\ PlayerOf[hub[i].conn] = p =>
        (hub[i].at = "insert" <=> state[p] = "none")

\* What every step preserves.
IInv ==
    /\ TypeOK
    /\ JoinsAtHome
    /\ VerdictsFit
    /\ \A p \in Players \ overlapped : Orderly(p) /\ ReadsHold(p)
    /\ OrderlyPlayersShown

\* A player who stays connected is eventually shown, although his hub may have
\* to wait for the completion.
JoinsAreShown ==
    \A c \in Conns :
        conn[c] = "open" ~> \/ conn[c] # "open"
                            \/ state[PlayerOf[c]] \in {"present", "completed"}
                            \/ PlayerOf[c] \in overlapped
===============================================================================
