-------------------------------- MODULE Scoring --------------------------------
(***************************************************************************)
(* How the submissions of one room are judged and scored while its event   *)
(* ends: the RoomHub goroutines of several instances, each with its queue, *)
(* their score transactions over the rows of room_players, the trigger and *)
(* the unique index on submissions, and the completion transaction that    *)
(* captures the final board.                                               *)
(*                                                                         *)
(* The database runs READ COMMITTED.  A statement that updates rows, or    *)
(* selects them FOR UPDATE, locks them one by one until its transaction    *)
(* ends; a plain SELECT sees what is committed when it starts.  Points are *)
(* counted as the credits a player got for each problem.                   *)
(***************************************************************************)
EXTENDS Naturals, Sequences, FiniteSets

CONSTANTS
    Instances,    \* the running copies of the service
    Players,
    Problems,
    Submissions,  \* attempts <<player, problem, number>> players may send
    Early,        \* the players with a row in room_players from the start
    Completer,    \* the transaction of completeEvent
    None,         \* no transaction: a row is not locked
    MaxJoins,     \* bound: requests to join
    MaxFailures   \* bound: statements and commits that fail, crashes

Txs == Instances \cup {Completer}

ASSUME ScoringAssumption ==
    /\ Submissions \subseteq Players \X Problems \X Nat
    /\ Early \subseteq Players
    /\ Completer \notin Instances
    /\ None \notin Txs
    /\ MaxJoins \in Nat
    /\ MaxFailures \in Nat

Player(s) == s[1]
Key(s) == <<s[1], s[2]>>

\* What the channel of a RoomHub carries.
Items == [kind : {"submitted"}, sub : Submissions]
           \cup [kind : {"result"}, sub : Submissions, correct : BOOLEAN]
           \cup [kind : {"joined"}, player : Players]

VARIABLES
    \* the database
    status,       \* events.status
    rows,         \* the players with a row in room_players
    credits,      \* committed points, per player and problem
    sub,          \* submissions.status, "none" before the row exists
    board,        \* the final room and guild boards: the credits they show
    rowLock,      \* the transaction that holds the row of a player
    \* the clock
    ended,        \* end_date has passed
    \* the RoomHub of each instance
    queue,        \* its Events channel
    pc,           \* where its goroutine is
    cur,          \* the item it works on
    \* the transactions
    todo,         \* the rows the current statement has yet to lock
    begunInTime,  \* NOW() of the transaction is not after end_date
    scored,       \* AddRoomPlayerScore found the row of the player
    completer,    \* where completeEvent is
    capture,      \* what the completion transaction captured
    sent,         \* the submissions players have sent
    joins, failures \* counters for the bounds

dbVars == <<status, rows, credits, sub, board>>
hubVars == <<queue, pc, cur>>
txVars == <<rowLock, todo, begunInTime, scored>>
endVars == <<completer, capture>>
bounds == <<sent, joins, failures>>
vars == <<dbVars, hubVars, txVars, endVars, ended, bounds>>

PCs == {"idle", "execute", "wrong", "begin", "dup", "score", "add", "rank",
        "lock", "commit"}
Idle == [kind |-> "idle"]
NoCredits == [k \in Players \X Problems |-> 0]
Boards == {"rooms", "guilds"}
NoBoards == [b \in Boards |-> NoCredits]

Init ==
    /\ status = "active"
    /\ rows = Early
    /\ credits = NoCredits
    /\ sub = [s \in Submissions |-> "none"]
    /\ board = NoBoards
    /\ rowLock = [p \in Players |-> None]
    /\ ended = FALSE
    /\ queue = [i \in Instances |-> <<>>]
    /\ pc = [i \in Instances |-> "idle"]
    /\ cur = [i \in Instances |-> Idle]
    /\ todo = [t \in Txs |-> {}]
    /\ begunInTime = [i \in Instances |-> FALSE]
    /\ scored = [i \in Instances |-> FALSE]
    /\ completer = "idle"
    /\ capture = NoBoards
    /\ sent = {}
    /\ joins = 0
    /\ failures = 0

-------------------------------------------------------------------------------
(* Shared steps                                                            *)

Goto(i, l) == pc' = [pc EXCEPT ![i] = l]

\* RoomHub.Start takes the next item of its channel, of this kind.
Take(i, kind) ==
    /\ pc[i] = "idle"
    /\ queue[i] # <<>>
    /\ Head(queue[i]).kind = kind
    /\ queue' = [queue EXCEPT ![i] = Tail(@)]

\* The handler of the item returns.
Done(i) ==
    /\ pc' = [pc EXCEPT ![i] = "idle"]
    /\ cur' = [cur EXCEPT ![i] = Idle]

\* What the handler knew of its transaction.
Forget(i) ==
    /\ begunInTime' = [begunInTime EXCEPT ![i] = FALSE]
    /\ scored' = [scored EXCEPT ![i] = FALSE]

\* Mutant: an early return without the deferred Rollback.
KeepLocks(t) == UNCHANGED <<rowLock, todo>>

\* A transaction ends: its row locks are free.
Unlock(t) ==
    /\ rowLock' = [p \in Players |-> IF rowLock[p] = t THEN None ELSE rowLock[p]]
    /\ todo' = [todo EXCEPT ![t] = {}]

\* The statement of t locks one more row; it waits while another holds it.
LockRow(t, p) ==
    /\ p \in todo[t]
    /\ rowLock[p] = None
    /\ rowLock' = [rowLock EXCEPT ![p] = t]
    /\ todo' = [todo EXCEPT ![t] = @ \ {p}]

\* Mutant: the statement reads the room without FOR UPDATE.
LocksNothing(t) == {}

\* The rows a statement over the whole room must lock: those it sees when it
\* starts and that its transaction does not hold yet.
RowsToLock(t) == {p \in rows : rowLock[p] # t}

\* CheckIfProblemAlreadySolved.
Solved(k) == \E s \in Submissions : Key(s) = k /\ sub[s] = "accepted"

\* The HTTP handlers check the status and end_date.
Open == status = "active" /\ ~ended

-------------------------------------------------------------------------------
(* HTTP requests and time                                                  *)

\* end_date passes.
Tick ==
    /\ ~ended
    /\ ended' = TRUE
    /\ UNCHANGED <<dbVars, hubVars, txVars, endVars, bounds>>

\* A player sends an attempt through instance i.
SubmitInRoom(i, s) ==
    /\ s \notin sent
    /\ Open
    /\ ~Solved(Key(s))
    /\ sent' = sent \cup {s}
    /\ queue' = [queue EXCEPT ![i] = Append(@, [kind |-> "submitted", sub |-> s])]
    /\ UNCHANGED <<dbVars, pc, cur, txVars, endVars, ended, joins, failures>>

\* A player opens the event stream of instance i, again and again.
JoinRoom(i, p) ==
    /\ ~ended
    /\ joins < MaxJoins
    /\ joins' = joins + 1
    /\ queue' = [queue EXCEPT ![i] = Append(@, [kind |-> "joined", player |-> p])]
    /\ UNCHANGED <<dbVars, pc, cur, txVars, endVars, ended, sent, failures>>

-------------------------------------------------------------------------------
(* The RoomHub of an instance                                              *)

\* processSolutionSubmitted records the attempt and has it executed.
CreateSubmission(i) ==
    LET item == Head(queue[i]) IN
    /\ Take(i, "submitted")
    /\ sub' = [sub EXCEPT ![item.sub] = "pending"]
    /\ cur' = [cur EXCEPT ![i] = item]
    /\ Goto(i, "execute")
    /\ UNCHANGED <<status, rows, credits, board, txVars, endVars, ended, bounds>>

\* The executor's verdict goes to the end of the hub's own channel.
ExecuteCode(i, correct) ==
    /\ pc[i] = "execute"
    /\ queue' = [queue EXCEPT ![i] = Append(@,
                   [kind |-> "result", sub |-> cur[i].sub, correct |-> correct])]
    /\ Done(i)
    /\ UNCHANGED <<dbVars, txVars, endVars, ended, bounds>>

\* processSolutionResult reads the status of the event first; a result that
\* finds it over is dropped and its submission stays pending.
CheckEventActive(i) ==
    LET item == Head(queue[i]) IN
    /\ Take(i, "result")
    /\ IF status = "active"
       THEN /\ cur' = [cur EXCEPT ![i] = item]
            /\ Goto(i, IF item.correct THEN "begin" ELSE "wrong")
       ELSE UNCHANGED <<pc, cur>>
    /\ UNCHANGED <<dbVars, txVars, endVars, ended, bounds>>

\* Mutant: a status the column does not have.
RuntimeErrorStatus == "runtime_error"

WrongAnswerStatus == "wrong_answer"

\* A wrong answer is recorded; other failed verdicts stay pending.
RecordWrongAnswer(i) ==
    /\ pc[i] = "wrong"
    /\ \/ sub' = [sub EXCEPT ![cur[i].sub] = WrongAnswerStatus]
       \/ UNCHANGED sub
    /\ Done(i)
    /\ UNCHANGED <<status, rows, credits, board, queue, txVars, endVars, ended, bounds>>

BeginScore(i) ==
    /\ pc[i] = "begin"
    /\ begunInTime' = [begunInTime EXCEPT ![i] = ~ended]
    /\ Goto(i, "dup")
    /\ UNCHANGED <<dbVars, queue, cur, rowLock, todo, scored, endVars, ended, bounds>>

\* The duplicate check inside the transaction.
CheckDuplicate(i) ==
    /\ pc[i] = "dup"
    /\ IF Solved(Key(cur[i].sub)) THEN Done(i) /\ Forget(i)
       ELSE Goto(i, "score") /\ UNCHANGED <<cur, begunInTime, scored>>
    /\ UNCHANGED <<dbVars, queue, rowLock, todo, endVars, ended, bounds>>

\* AddRoomPlayerScore starts: it finds the row of the player or updates none.
StartAddScore(i) ==
    LET p == Player(cur[i].sub) IN
    /\ pc[i] = "score"
    /\ scored' = [scored EXCEPT ![i] = p \in rows]
    /\ todo' = [todo EXCEPT ![i] = {p} \cap rows]
    /\ Goto(i, "add")
    /\ UNCHANGED <<dbVars, queue, cur, rowLock, begunInTime, endVars, ended, bounds>>

\* processPlayerJoined creates the row when it is missing.  When another
\* instance creates it first, the primary key refuses the second.
AddPlayerToRoom(i) ==
    LET item == Head(queue[i]) IN
    /\ Take(i, "joined")
    /\ rows' = rows \cup {item.player}
    /\ \/ Goto(i, "rank") /\ cur' = [cur EXCEPT ![i] = item]
       \/ item.player \in rows /\ UNCHANGED <<pc, cur>>
    /\ UNCHANGED <<status, credits, sub, board, txVars, endVars, ended, bounds>>

\* CalculateRoomLeaderboard starts, in the score transaction or in its own.
StartLeaderboard(i) ==
    /\ pc[i] = "rank" \/ (pc[i] = "add" /\ todo[i] = {})
    /\ todo' = [todo EXCEPT ![i] = RowsToLock(i)]
    /\ Goto(i, "lock")
    /\ UNCHANGED <<dbVars, queue, cur, rowLock, begunInTime, scored, endVars,
                   ended, bounds>>

\* One of its two statements locks a row.
HubLocks(i, p) ==
    /\ pc[i] \in {"add", "lock"}
    /\ LockRow(i, p)
    /\ UNCHANGED <<dbVars, hubVars, begunInTime, scored, endVars, ended, bounds>>

\* The leaderboard of a join is committed.
CommitLeaderboard(i) ==
    /\ pc[i] = "lock" /\ cur[i].kind = "joined"
    /\ todo[i] = {}
    /\ Done(i)
    /\ Unlock(i)
    /\ UNCHANGED <<dbVars, queue, begunInTime, scored, endVars, ended, bounds>>

\* Mutant: the trigger does not look at the status.
TriggerChecksTime(i) == begunInTime[i]

\* validate_submission_event_active: committed status, and NOW() which is
\* the time the transaction began.
TriggerAllows(i) == status = "active" /\ begunInTime[i]

\* Mutant: without the unique index.
NoIndex(i) == TRUE

\* The unique index: no accepted submission of the same key is committed.
IndexAllows(i) == ~Solved(Key(cur[i].sub))

\* The score transaction has all the rows and marks its submission.
Accepting(i) == pc[i] = "lock" /\ cur[i].kind = "result" /\ todo[i] = {}

\* The index waits while an open transaction has accepted the same key.
IndexWaits(i, k) ==
    k # i /\ pc[k] = "commit" /\ Key(cur[k].sub) = Key(cur[i].sub)

\* UpdateSubmission to accepted; an error rolls everything back.
AcceptSubmission(i) ==
    /\ Accepting(i)
    /\ \A k \in Instances : ~IndexWaits(i, k)
    /\ IF TriggerAllows(i) /\ IndexAllows(i)
       THEN Goto(i, "commit") /\ UNCHANGED <<cur, rowLock, todo, begunInTime, scored>>
       ELSE Done(i) /\ Unlock(i) /\ Forget(i)
    /\ UNCHANGED <<dbVars, queue, endVars, ended, bounds>>

\* Mutant: the points are given outside the transaction, and lost.
AcceptOnly(i) ==
    /\ sub' = [sub EXCEPT ![cur[i].sub] = "accepted"]
    /\ UNCHANGED <<status, rows, credits, board>>

\* What the commit of a score makes visible: points and status together.
ApplyScore(i) ==
    LET s == cur[i].sub IN
    /\ sub' = [sub EXCEPT ![s] = "accepted"]
    /\ credits' = IF scored[i] THEN [credits EXCEPT ![Key(s)] = @ + 1]
                  ELSE credits
    /\ UNCHANGED <<status, rows, board>>

CommitScore(i) ==
    /\ pc[i] = "commit"
    /\ ApplyScore(i)
    /\ Unlock(i)
    /\ Done(i)
    /\ Forget(i)
    /\ UNCHANGED <<queue, endVars, ended, bounds>>

-------------------------------------------------------------------------------
(* The completion transaction                                              *)

\* The compare-and-swap of the status, then the rows of the players.
StartCompletion ==
    /\ completer = "idle"
    /\ status = "active"
    /\ ended
    /\ completer' = "players"
    /\ todo' = [todo EXCEPT ![Completer] = RowsToLock(Completer)]
    /\ UNCHANGED <<dbVars, hubVars, rowLock, begunInTime, scored, capture, ended, bounds>>

CompleterLocks(p) ==
    /\ completer = "players"
    /\ LockRow(Completer, p)
    /\ UNCHANGED <<dbVars, hubVars, begunInTime, scored, endVars, ended, bounds>>

CaptureRoomBoards ==
    /\ completer = "players"
    /\ todo[Completer] = {}
    /\ capture' = [capture EXCEPT !["rooms"] = credits]
    /\ completer' = "guilds"
    /\ UNCHANGED <<dbVars, hubVars, txVars, ended, bounds>>

CaptureGuildBoard ==
    /\ completer = "guilds"
    /\ capture' = [capture EXCEPT !["guilds"] = credits]
    /\ completer' = "commit"
    /\ UNCHANGED <<dbVars, hubVars, txVars, ended, bounds>>

CommitCompletion ==
    /\ completer = "commit"
    /\ status' = "completed"
    /\ board' = capture
    /\ completer' = "idle"
    /\ Unlock(Completer)
    /\ capture' = NoBoards
    /\ UNCHANGED <<rows, credits, sub, hubVars, begunInTime, scored, ended,
                   bounds>>

-------------------------------------------------------------------------------
(* Deadlocks, failures and crashes                                         *)

\* Transaction t waits for u.
WaitsFor(t, u) ==
    \/ \E p \in todo[t] : rowLock[p] = u
    \/ {t, u} \subseteq Instances /\ Accepting(t) /\ IndexWaits(t, u)

Stuck(D) == D # {} /\ \A t \in D : \E u \in D : WaitsFor(t, u)

\* The transactions of D wait for each other in a circle.
Cycle(D) == Stuck(D) /\ \A E \in SUBSET D : Stuck(E) => E = D

\* A transaction is rolled back and its handler returns the error.
RollBack(t) ==
    /\ Unlock(t)
    /\ IF t = Completer
       THEN /\ completer' = "idle" /\ capture' = NoBoards
            /\ UNCHANGED <<pc, cur, begunInTime, scored>>
       ELSE Done(t) /\ Forget(t) /\ UNCHANGED endVars

\* PostgreSQL breaks a deadlock by aborting one of its transactions.
DeadlockVictim(t) ==
    /\ \E D \in SUBSET Txs : t \in D /\ Cycle(D)
    /\ RollBack(t)
    /\ UNCHANGED <<dbVars, queue, ended, bounds>>

Fail == failures < MaxFailures /\ failures' = failures + 1

\* A statement or a commit fails, or its context ends while it waits.
StatementFails(t) ==
    /\ Fail
    /\ IF t = Completer THEN completer # "idle" ELSE pc[t] # "idle"
    /\ RollBack(t)
    /\ UNCHANGED <<dbVars, queue, ended, sent, joins>>

\* The first query of a handler fails: the item is dropped.
FirstQueryFails(i) ==
    /\ Fail
    /\ pc[i] = "idle"
    /\ queue[i] # <<>>
    /\ queue' = [queue EXCEPT ![i] = Tail(@)]
    /\ UNCHANGED <<dbVars, pc, cur, txVars, endVars, ended, sent, joins>>

\* The instance crashes: its channel and what it worked on are lost.
Crash(i) ==
    /\ Fail
    /\ queue' = [queue EXCEPT ![i] = <<>>]
    /\ RollBack(i)
    /\ UNCHANGED <<dbVars, ended, sent, joins>>

-------------------------------------------------------------------------------
HubStep(i) ==
    \/ CreateSubmission(i)
    \/ \E correct \in BOOLEAN : ExecuteCode(i, correct)
    \/ CheckEventActive(i)
    \/ RecordWrongAnswer(i)
    \/ BeginScore(i)
    \/ CheckDuplicate(i)
    \/ StartAddScore(i)
    \/ AddPlayerToRoom(i)
    \/ StartLeaderboard(i)
    \/ \E p \in Players : HubLocks(i, p)
    \/ CommitLeaderboard(i)
    \/ AcceptSubmission(i)
    \/ CommitScore(i)

CompleterStep ==
    \/ StartCompletion
    \/ \E p \in Players : CompleterLocks(p)
    \/ CaptureRoomBoards
    \/ CaptureGuildBoard
    \/ CommitCompletion

Next ==
    \/ Tick
    \/ \E i \in Instances : \/ \E s \in Submissions : SubmitInRoom(i, s)
                           \/ \E p \in Players : JoinRoom(i, p)
                           \/ HubStep(i)
                           \/ FirstQueryFails(i)
                           \/ Crash(i)
    \/ CompleterStep
    \/ \E t \in Txs : DeadlockVictim(t) \/ StatementFails(t)

Spec == Init /\ [][Next]_vars

\* The goroutine of a hub goes on, the monitor starts the completion again
\* and again, and the database breaks deadlocks.  A transaction that waits
\* for a row gets it when the row is freed again and again: PostgreSQL queues
\* the transactions that wait for a row.
Fairness ==
    /\ \A i \in Instances : /\ WF_vars(HubStep(i))
                           /\ SF_vars(\E p \in Players : HubLocks(i, p))
    /\ WF_vars(CompleterStep)
    /\ SF_vars(\E p \in Players : CompleterLocks(p))
    /\ WF_vars(\E t \in Txs : DeadlockVictim(t))

FairSpec == Spec /\ Fairness

-------------------------------------------------------------------------------
(* Properties                                                              *)

Accepted(k) == {s \in Submissions : Key(s) = k /\ sub[s] = "accepted"}

TypeOK ==
    /\ status \in {"active", "completed"}
    /\ rows \subseteq Players
    /\ credits \in [Players \X Problems -> Nat]
    /\ sub \in [Submissions -> {"none", "pending", "wrong_answer", "accepted"}]
    /\ board \in [Boards -> [Players \X Problems -> Nat]]
    /\ rowLock \in [Players -> Txs \cup {None}]
    /\ ended \in BOOLEAN
    /\ queue \in [Instances -> Seq(Items)]
    /\ pc \in [Instances -> PCs]
    /\ cur \in [Instances -> Items \cup {Idle}]
    /\ todo \in [Txs -> SUBSET Players]
    /\ begunInTime \in [Instances -> BOOLEAN]
    /\ scored \in [Instances -> BOOLEAN]
    /\ completer \in {"idle", "players", "guilds", "commit"}
    /\ capture \in [Boards -> [Players \X Problems -> Nat]]
    /\ sent \subseteq Submissions
    /\ joins \in Nat
    /\ failures \in Nat

\* A solved problem is scored once: however many instances judge correct
\* attempts at once, a player has one accepted submission per problem, and a
\* player in the room has its points exactly once (processSolutionResult).
SolvedOnceScoredOnce ==
    \A k \in Players \X Problems :
        LET n == Cardinality(Accepted(k)) IN
        /\ n <= 1
        /\ credits[k] <= n
        /\ k[1] \in Early => credits[k] = n

\* The final boards hold every point ever given, and both hold the same: no
\* score transaction commits between their captures or after them.
FinalBoardsExact ==
    status = "completed" => \A b \in Boards : board[b] = credits

\* validate_submission_event_active: "Prevents submissions from being marked
\* as accepted after event expires or becomes inactive".
NoneAcceptedAfterEnd ==
    [][status = "completed" =>
          \A s \in Submissions : sub'[s] = "accepted" => sub[s] = "accepted"]_vars

\* processSolutionResult commits "score update + leaderboard calculation +
\* submission status update" as one: an accepted submission has its points.
AcceptedMeansScored ==
    \A s \in Submissions : sub[s] = "accepted" => credits[Key(s)] > 0

\* calculateLeaderboard: "Instance A acquires locks first", "Instance B waits
\* until Instance A commits": the instances never wait for each other.
InstancesNeverDeadlock == \A D \in SUBSET Instances : ~Cycle(D)

\* processSolutionResult: "If the HTTP handler accepted the submission (before
\* end_date), we process it regardless of how long the execution takes": a
\* correct result is not refused because of the time while the event is active.
InTimeSubmissionsProcessed ==
    [][\A i \in Instances :
          AcceptSubmission(i) /\ status = "active" /\ ~Solved(Key(cur[i].sub))
          => pc'[i] = "commit"]_vars

\* After the end every hub empties its channel and the event is completed,
\* although score and completion transactions deadlock (monitor, retries).
EverythingSettles ==
    ended ~> /\ status = "completed"
             /\ \A i \in Instances : pc[i] = "idle" /\ queue[i] = <<>>

\* What a goroutine works on fits where it is.
CurrentItems ==
    \A i \in Instances :
        /\ pc[i] = "execute" => cur[i] \in Items /\ cur[i].kind = "submitted"
        /\ pc[i] \in {"wrong", "begin", "dup", "score", "add", "commit"} =>
              cur[i] \in Items /\ cur[i].kind = "result"

\* Every transaction over the whole room has, or waits for, the rows that
\* were there from the start; with all of them it is alone in the room.
RoomLocks ==
    /\ Early \subseteq rows
    /\ \A i \in Instances, p \in Early :
          /\ pc[i] = "lock" => rowLock[p] = i \/ p \in todo[i]
          /\ pc[i] = "commit" => rowLock[p] = i
    /\ \A p \in Early :
          /\ completer = "players" =>
                rowLock[p] = Completer \/ p \in todo[Completer]
          /\ completer \in {"guilds", "commit"} => rowLock[p] = Completer

\* The transactions that are open belong to an active event, and what the
\* completion captured is still what the room has.
OpenTransactions ==
    /\ \A i \in Instances : pc[i] = "commit" => status = "active"
    /\ completer # "idle" => status = "active"
    /\ completer \in {"guilds", "commit"} => capture["rooms"] = credits
    /\ completer = "commit" => capture["guilds"] = credits

\* The item is about attempt s.
About(item, s) == item.kind \in {"submitted", "result"} /\ item.sub = s

\* An attempt waits in one channel or is in the hands of one goroutine, and its
\* row says how far it has come: so no verdict is recorded twice, and what is
\* accepted is never touched again.
AttemptsHandledOnce ==
    \A s \in Submissions :
        /\ sub[s] # "none" => s \in sent
        /\ \A i \in Instances : About(cur[i], s) =>
              /\ sub[s] = "pending"
              /\ \A k \in Instances : About(cur[k], s) => k = i
        /\ \A i \in Instances : \A n \in 1 .. Len(queue[i]) :
              About(queue[i][n], s) =>
                 /\ s \in sent
                 /\ sub[s] = IF queue[i][n].kind = "submitted" THEN "none"
                             ELSE "pending"
                 /\ \A k \in Instances : ~About(cur[k], s)
                 /\ \A k \in Instances : \A m \in 1 .. Len(queue[k]) :
                       About(queue[k][m], s) => k = i /\ m = n

\* A transaction about to commit is the only one for its player and problem,
\* and knows that a player who was there from the start has a row.
CommitsAgree ==
    \A i \in Instances :
        /\ pc[i] = "commit" =>
              /\ ~Solved(Key(cur[i].sub))
              /\ \A k \in Instances :
                    pc[k] = "commit" /\ Key(cur[k].sub) = Key(cur[i].sub) => k = i
        /\ pc[i] = "rank" => cur[i].kind = "joined"
        /\ /\ pc[i] \in {"add", "lock", "commit"}
           /\ cur[i].kind = "result"
           /\ Player(cur[i].sub) \in Early
           => scored[i]

\* Points and accepted submissions agree.
CreditsAgree ==
    /\ \A s, r \in Submissions :
          sub[s] = "accepted" /\ sub[r] = "accepted" /\ Key(s) = Key(r) => s = r
    /\ \A k \in Players \X Problems :
          /\ credits[k] # 0 => credits[k] = 1 /\ Solved(k)
          /\ k[1] \in Early /\ Solved(k) => credits[k] = 1

\* What every step preserves in a room with players.
IInv ==
    /\ TypeOK
    /\ CurrentItems
    /\ RoomLocks
    /\ OpenTransactions
    /\ FinalBoardsExact
    /\ AttemptsHandledOnce
    /\ CommitsAgree
    /\ CreditsAgree

Outcome == INSTANCE ScoreOutcome WITH
    over <- status = "completed",
    accepted <- {s \in Submissions : sub[s] = "accepted"}

\* Scoring does what ScoreOutcome promises, no more.
ImplementsScoreOutcome == Outcome!OutcomeSpec
===============================================================================
