---------------------------- MODULE Scoring_proofs ----------------------------
(* Proofs of the safety properties of Scoring.                             *)
EXTENDS Scoring, TLAPS, FiniteSetTheorems

\* The variables and what each goroutine works on have their types.
TypeInv == TypeOK /\ CurrentItems

\* The initial state is well typed.
LEMMA TypeInit == ASSUME Init PROVE TypeInv
<1> USE ScoringAssumption DEF Init
<1>1. CurrentItems
  BY DEF CurrentItems
<1>2. credits \in [Players \X Problems -> Nat] /\ board = NoBoards /\ capture = NoBoards
  BY DEF NoCredits
<1>3. NoBoards \in [Boards -> [Players \X Problems -> Nat]]
  BY DEF NoBoards, NoCredits
<1>4. queue \in [Instances -> Seq(Items)]
  OBVIOUS
<1> QED
  BY <1>1, <1>2, <1>3, <1>4 DEF TypeInv, TypeOK, PCs, Txs

\* A handler that returns leaves its goroutine idle.
LEMMA DoneType ==
    ASSUME TypeInv, NEW i \in Instances, Done(i)
    PROVE  /\ pc' \in [Instances -> PCs]
           /\ cur' \in [Instances -> Items \cup {Idle}]
           /\ CurrentItems'
<1>1. /\ pc' \in [Instances -> PCs]
      /\ cur' \in [Instances -> Items \cup {Idle}]
  BY DEF TypeInv, TypeOK, Done, PCs
<1>2. pc'[i] = "idle" /\ \A k \in Instances \ {i} : pc'[k] = pc[k] /\ cur'[k] = cur[k]
  BY DEF TypeInv, TypeOK, Done
<1>3. CurrentItems'
  BY <1>2 DEF TypeInv, CurrentItems
<1> QED
  BY <1>1, <1>3

\* Freeing the locks of a transaction keeps the types.
LEMMA UnlockType ==
    ASSUME TypeInv, NEW t \in Txs, Unlock(t)
    PROVE  /\ rowLock' \in [Players -> Txs \cup {None}]
           /\ todo' \in [Txs -> SUBSET Players]
BY DEF TypeInv, TypeOK, Unlock

\* Forgetting a transaction keeps the types.
LEMMA ForgetType ==
    ASSUME TypeInv, NEW i \in Instances, Forget(i)
    PROVE  /\ begunInTime' \in [Instances -> BOOLEAN]
           /\ scored' \in [Instances -> BOOLEAN]
BY DEF TypeInv, TypeOK, Forget

\* A rollback disturbs nothing else.
LEMMA RollBackType ==
    ASSUME TypeInv, NEW t \in Txs, RollBack(t),
           UNCHANGED <<dbVars, ended, sent, joins>>,
           queue' \in [Instances -> Seq(Items)], failures' \in Nat
    PROVE  TypeInv'
<1>1. /\ rowLock' \in [Players -> Txs \cup {None}]
      /\ todo' \in [Txs -> SUBSET Players]
  BY UnlockType DEF RollBack
<1>2. CASE t = Completer
  <2>1. /\ completer' = "idle" /\ capture' = NoBoards
        /\ UNCHANGED <<pc, cur, begunInTime, scored>>
    BY <1>2 DEF RollBack
  <2>2. NoBoards \in [Boards -> [Players \X Problems -> Nat]]
    BY DEF NoBoards, NoCredits
  <2> QED
    BY <1>1, <2>1, <2>2 DEF TypeInv, TypeOK, CurrentItems, dbVars
<1>3. CASE t # Completer
  <2>1. t \in Instances /\ Done(t) /\ Forget(t) /\ UNCHANGED endVars
    BY <1>3 DEF RollBack, Txs
  <2>2. /\ pc' \in [Instances -> PCs]
        /\ cur' \in [Instances -> Items \cup {Idle}]
        /\ CurrentItems'
    BY <2>1, DoneType
  <2>3. /\ begunInTime' \in [Instances -> BOOLEAN]
        /\ scored' \in [Instances -> BOOLEAN]
    BY <2>1, ForgetType
  <2> QED
    BY <1>1, <2>1, <2>2, <2>3 DEF TypeInv, TypeOK, dbVars, endVars
<1> QED
  BY <1>2, <1>3

\* The steps of a hub keep the types.
LEMMA TypeHub ==
    ASSUME TypeInv, NEW i \in Instances, HubStep(i)
    PROVE  TypeInv'
<1> USE ScoringAssumption DEF TypeInv, TypeOK, CurrentItems, Items, Idle, PCs, Txs, Boards,
        NoCredits, NoBoards, Goto, Done, Forget, Unlock, dbVars, hubVars, txVars,
        endVars, bounds
<1>1. ASSUME CreateSubmission(i) PROVE TypeInv'
  BY <1>1 DEF CreateSubmission, Take
<1>2. ASSUME NEW correct \in BOOLEAN, ExecuteCode(i, correct) PROVE TypeInv'
  BY <1>2 DEF ExecuteCode
<1>3. ASSUME CheckEventActive(i) PROVE TypeInv'
  <2> DEFINE item == Head(queue[i])
  <2>1. item \in Items /\ item.kind = "result"
    BY <1>3 DEF CheckEventActive, Take
  <2>2. queue' \in [Instances -> Seq(Items)]
    BY <1>3 DEF CheckEventActive, Take
  <2>3. \/ UNCHANGED <<pc, cur>>
        \/ /\ cur' = [cur EXCEPT ![i] = item]
           /\ \E l \in {"begin", "wrong"} : pc' = [pc EXCEPT ![i] = l]
    BY <1>3 DEF CheckEventActive
  <2>4. UNCHANGED <<dbVars, txVars, endVars, ended, bounds>>
    BY <1>3 DEF CheckEventActive
  <2> HIDE DEF item
  <2>5. CASE UNCHANGED <<pc, cur>>
    BY <2>2, <2>4, <2>5
  <2>6. ASSUME NEW l \in {"begin", "wrong"}, pc' = [pc EXCEPT ![i] = l],
               cur' = [cur EXCEPT ![i] = item]
        PROVE  TypeInv'
    <3>1. pc' \in [Instances -> PCs] /\ cur' \in [Instances -> Items \cup {Idle}]
      BY <2>1, <2>6
    <3>2. CurrentItems'
      BY <2>1, <2>6
    <3> QED
      BY <2>2, <2>4, <3>1, <3>2
  <2> QED
    BY <2>3, <2>5, <2>6
<1>4. ASSUME RecordWrongAnswer(i) PROVE TypeInv'
  BY <1>4 DEF RecordWrongAnswer, WrongAnswerStatus
<1>5. ASSUME BeginScore(i) PROVE TypeInv'
  BY <1>5 DEF BeginScore
<1>6. ASSUME CheckDuplicate(i) PROVE TypeInv'
  <2>1. CASE Done(i) /\ Forget(i)
    BY <1>6, <2>1, DoneType, ForgetType DEF CheckDuplicate
  <2>2. CASE Goto(i, "score") /\ UNCHANGED <<cur, begunInTime, scored>>
    BY <1>6, <2>2 DEF CheckDuplicate
  <2> QED
    BY <1>6, <2>1, <2>2 DEF CheckDuplicate
<1>7. ASSUME StartAddScore(i) PROVE TypeInv'
  BY <1>7 DEF StartAddScore, Player
<1>8. ASSUME AddPlayerToRoom(i) PROVE TypeInv'
  <2> DEFINE item == Head(queue[i])
  <2>1. item \in Items /\ item.kind = "joined" /\ item.player \in Players
    BY <1>8 DEF AddPlayerToRoom, Take
  <2>2. queue' \in [Instances -> Seq(Items)] /\ rows' \subseteq Players
    BY <1>8, <2>1 DEF AddPlayerToRoom, Take
  <2>3. \/ UNCHANGED <<pc, cur>>
        \/ cur' = [cur EXCEPT ![i] = item] /\ pc' = [pc EXCEPT ![i] = "rank"]
    BY <1>8 DEF AddPlayerToRoom
  <2>4. UNCHANGED <<status, credits, sub, board, txVars, endVars, ended, bounds>>
    BY <1>8 DEF AddPlayerToRoom
  <2> HIDE DEF item
  <2>5. CASE UNCHANGED <<pc, cur>>
    BY <2>2, <2>4, <2>5
  <2>6. CASE cur' = [cur EXCEPT ![i] = item] /\ pc' = [pc EXCEPT ![i] = "rank"]
    <3>1. pc' \in [Instances -> PCs] /\ cur' \in [Instances -> Items \cup {Idle}]
      BY <2>1, <2>6
    <3>2. CurrentItems'
      BY <2>1, <2>6
    <3> QED
      BY <2>2, <2>4, <3>1, <3>2
  <2> QED
    BY <2>3, <2>5, <2>6
<1>9. ASSUME StartLeaderboard(i) PROVE TypeInv'
  BY <1>9 DEF StartLeaderboard, RowsToLock
<1>10. ASSUME NEW p \in Players, HubLocks(i, p) PROVE TypeInv'
  BY <1>10 DEF HubLocks, LockRow
<1>11. ASSUME CommitLeaderboard(i) PROVE TypeInv'
  BY <1>11 DEF CommitLeaderboard
<1>12. ASSUME AcceptSubmission(i) PROVE TypeInv'
  <2>1. CASE Done(i) /\ Unlock(i) /\ Forget(i)
    <3>1. UNCHANGED <<dbVars, queue, endVars, ended, bounds>>
      BY <1>12 DEF AcceptSubmission
    <3>2. i \in Txs
      BY DEF Txs
    <3> QED
      BY <2>1, <3>1, <3>2, DoneType, UnlockType, ForgetType
         DEF TypeInv, TypeOK, dbVars, endVars, bounds
  <2>2. CASE /\ Goto(i, "commit") /\ Accepting(i)
             /\ UNCHANGED <<cur, rowLock, todo, begunInTime, scored>>
    <3>1. UNCHANGED <<dbVars, queue, endVars, ended, bounds>>
      BY <1>12 DEF AcceptSubmission
    <3>2. cur[i] \in Items /\ cur[i].kind = "result"
      BY <2>2 DEF Accepting
    <3>3. CurrentItems'
      BY <2>2, <3>2
    <3> QED
      BY <2>2, <3>1, <3>3
  <2> QED
    BY <1>12, <2>1, <2>2 DEF AcceptSubmission
<1>13. ASSUME CommitScore(i) PROVE TypeInv'
  <2>1. i \in Txs /\ Unlock(i) /\ Done(i) /\ Forget(i)
    BY <1>13 DEF CommitScore, Txs
  <2>2. /\ sub' = [sub EXCEPT ![cur[i].sub] = "accepted"]
        /\ \/ credits' = [credits EXCEPT ![Key(cur[i].sub)] = @ + 1]
           \/ credits' = credits
        /\ UNCHANGED <<status, rows, board, queue, endVars, ended, bounds>>
    BY <1>13 DEF CommitScore, ApplyScore
  <2>3. /\ sub' \in [Submissions -> {"none", "pending", "wrong_answer", "accepted"}]
        /\ credits' \in [Players \X Problems -> Nat]
    <3> DEFINE k == Key(cur[i].sub)
    <3>1. \/ credits' = [credits EXCEPT ![k] = @ + 1]
          \/ credits' = credits
      BY <2>2
    <3> HIDE DEF k
    <3>2. credits' \in [Players \X Problems -> Nat]
      BY <3>1
    <3>3. sub' \in [Submissions -> {"none", "pending", "wrong_answer", "accepted"}]
      BY <2>2
    <3> QED
      BY <3>2, <3>3
  <2> QED
    BY <2>1, <2>2, <2>3, DoneType, UnlockType, ForgetType
       DEF TypeInv, TypeOK, endVars, bounds
<1> QED
  BY <1>1, <1>2, <1>3, <1>4, <1>5, <1>6, <1>7, <1>8, <1>9, <1>10, <1>11, <1>12, <1>13
     DEF HubStep

\* The requests and failures of an instance.
Requests(i) ==
    \/ \E s \in Submissions : SubmitInRoom(i, s)
    \/ \E p \in Players : JoinRoom(i, p)
    \/ FirstQueryFails(i)
    \/ Crash(i)

\* Requests, lost items and crashes keep the types.
LEMMA TypeRequests ==
    ASSUME TypeInv, NEW i \in Instances, Requests(i)
    PROVE  TypeInv'
<1> USE ScoringAssumption DEF TypeInv, TypeOK, CurrentItems, Items, Idle, PCs, Txs, Boards,
        NoCredits, NoBoards, Goto, Done, Forget, Unlock, dbVars, hubVars, txVars,
        endVars, bounds
<1>1. ASSUME NEW s \in Submissions, SubmitInRoom(i, s) PROVE TypeInv'
  BY <1>1 DEF SubmitInRoom
<1>2. ASSUME NEW p \in Players, JoinRoom(i, p) PROVE TypeInv'
  BY <1>2 DEF JoinRoom
<1>3. ASSUME FirstQueryFails(i) PROVE TypeInv'
  BY <1>3 DEF FirstQueryFails, Fail
<1>4. ASSUME Crash(i) PROVE TypeInv'
  <2>1. i \in Txs /\ RollBack(i) /\ failures' \in Nat
    BY <1>4 DEF Crash, Fail, Txs
  <2>2. queue' \in [Instances -> Seq(Items)]
    BY <1>4 DEF Crash
  <2>3. UNCHANGED <<dbVars, ended, sent, joins>>
    BY <1>4 DEF Crash
  <2> QED
    BY <2>1, <2>2, <2>3, RollBackType
<1> QED
  BY <1>1, <1>2, <1>3, <1>4
     DEF Requests

\* The completion keeps the types.
LEMMA TypeCompleter ==
    ASSUME TypeInv, CompleterStep
    PROVE  TypeInv'
<1> USE ScoringAssumption DEF TypeInv, TypeOK, CurrentItems, Items, Idle, PCs, Txs, Boards,
        NoCredits, NoBoards, Goto, Done, Forget, Unlock, dbVars, hubVars, txVars,
        endVars, bounds
<1>1. ASSUME StartCompletion PROVE TypeInv'
  BY <1>1 DEF StartCompletion, RowsToLock
<1>2. ASSUME NEW p \in Players, CompleterLocks(p) PROVE TypeInv'
  BY <1>2 DEF CompleterLocks, LockRow
<1>3. ASSUME CaptureRoomBoards PROVE TypeInv'
  BY <1>3 DEF CaptureRoomBoards
<1>4. ASSUME CaptureGuildBoard PROVE TypeInv'
  BY <1>4 DEF CaptureGuildBoard
<1>5. ASSUME CommitCompletion PROVE TypeInv'
  BY <1>5 DEF CommitCompletion
<1> QED
  BY <1>1, <1>2, <1>3, <1>4, <1>5
     DEF CompleterStep

\* A rollback keeps the types.
LEMMA TypeRollBack ==
    ASSUME TypeInv, NEW t \in Txs,
           DeadlockVictim(t) \/ StatementFails(t)
    PROVE  TypeInv'
<1>1. queue' \in [Instances -> Seq(Items)] /\ UNCHANGED <<dbVars, ended, sent, joins>>
  BY DEF DeadlockVictim, StatementFails, TypeInv, TypeOK, bounds
<1>2. failures' \in Nat
  BY DEF DeadlockVictim, StatementFails, Fail, TypeInv, TypeOK, bounds
<1>3. RollBack(t)
  BY DEF DeadlockVictim, StatementFails
<1> QED
  BY <1>1, <1>2, <1>3, RollBackType

\* A step is one of a hub, a request, the completion, a rollback or a stutter.
LEMMA NextCases ==
    ASSUME [Next]_vars
    PROVE  \/ \E i \in Instances : HubStep(i) \/ Requests(i)
           \/ CompleterStep
           \/ \E t \in Txs : DeadlockVictim(t) \/ StatementFails(t)
           \/ Tick
           \/ UNCHANGED vars
BY DEF Next, Requests

\* Every step keeps the types.
LEMMA TypeStep == ASSUME TypeInv, [Next]_vars PROVE TypeInv'
<1>1. CASE Tick \/ UNCHANGED vars
  BY <1>1 DEF Tick, TypeInv, TypeOK, CurrentItems, vars, dbVars, hubVars,
       txVars, endVars, bounds
<1> QED
  BY <1>1, TypeHub, TypeRequests, TypeCompleter, TypeRollBack, NextCases

\* Every variable of Scoring keeps its type, for any number of instances,

\* players, problems and attempts (TypeOK).
THEOREM TypeCorrect == Spec => []TypeOK
<1>1. Init => TypeInv
  BY TypeInit
<1>2. TypeInv /\ [Next]_vars => TypeInv'
  BY TypeStep
<1>3. TypeInv => TypeOK
  BY DEF TypeInv
<1> QED
  BY <1>1, <1>2, <1>3, PTL DEF Spec

\* What the locks need of the types.
LockTypes ==
    /\ rowLock \in [Players -> Txs \cup {None}]
    /\ todo \in [Txs -> SUBSET Players]
    /\ pc \in [Instances -> PCs]
    /\ Early \subseteq Players
    /\ Completer \notin Instances /\ None \notin Txs

\* The part of the types that the lemmas about locks need.
LEMMA LockTypesHold == ASSUME TypeInv PROVE LockTypes
BY ScoringAssumption DEF TypeInv, TypeOK, LockTypes

\* A hub locks every row it sees, or commits nothing.
LEMMA RoomLocksHub ==
    ASSUME LockTypes, RoomLocks, NEW i \in Instances, HubStep(i)
    PROVE  RoomLocks'
<1> USE DEF LockTypes, RoomLocks, Txs, PCs, Goto, Done, Unlock, dbVars, hubVars,
        txVars, endVars
<1>1. CASE CreateSubmission(i)
  BY <1>1 DEF CreateSubmission, Take
<1>2. CASE \E correct \in BOOLEAN : ExecuteCode(i, correct)
  BY <1>2 DEF ExecuteCode
<1>3. CASE CheckEventActive(i)
  BY <1>3 DEF CheckEventActive, Take
<1>4. CASE RecordWrongAnswer(i)
  BY <1>4 DEF RecordWrongAnswer
<1>5. CASE BeginScore(i)
  BY <1>5 DEF BeginScore
<1>6. CASE CheckDuplicate(i)
  BY <1>6 DEF CheckDuplicate
<1>7. CASE StartAddScore(i)
  BY <1>7 DEF StartAddScore, Player
<1>8. CASE AddPlayerToRoom(i)
  BY <1>8 DEF AddPlayerToRoom, Take
<1>9. CASE StartLeaderboard(i)
  BY <1>9 DEF StartLeaderboard, RowsToLock
<1>10. CASE \E p \in Players : HubLocks(i, p)
  BY <1>10 DEF HubLocks, LockRow
<1>11. CASE CommitLeaderboard(i)
  BY <1>11 DEF CommitLeaderboard
<1>12. CASE AcceptSubmission(i)
  BY <1>12 DEF AcceptSubmission, Accepting
<1>13. CASE CommitScore(i)
  BY <1>13 DEF CommitScore, ApplyScore
<1> QED
  BY <1>1, <1>2, <1>3, <1>4, <1>5, <1>6, <1>7, <1>8, <1>9, <1>10, <1>11, <1>12, <1>13 DEF HubStep

\* Requests, failures and crashes take no row from another transaction.
LEMMA RoomLocksRequests ==
    ASSUME LockTypes, RoomLocks, NEW i \in Instances, Requests(i)
    PROVE  RoomLocks'
<1> USE DEF LockTypes, RoomLocks, Txs, PCs, Goto, Done, Unlock, dbVars, hubVars,
        txVars, endVars
<1>1. CASE \E s \in Submissions : SubmitInRoom(i, s)
  BY <1>1 DEF SubmitInRoom
<1>2. CASE \E p \in Players : JoinRoom(i, p)
  BY <1>2 DEF JoinRoom
<1>3. CASE FirstQueryFails(i)
  BY <1>3 DEF FirstQueryFails
<1>4. CASE Crash(i)
  BY <1>4 DEF Crash, RollBack
<1> QED
  BY <1>1, <1>2, <1>3, <1>4 DEF Requests

\* A transaction that is rolled back keeps the claims on the rows.
LEMMA RoomLocksRollBack ==
    ASSUME LockTypes, RoomLocks, NEW t \in Txs,
           DeadlockVictim(t) \/ StatementFails(t)
    PROVE  RoomLocks'
<1>1. RollBack(t) /\ UNCHANGED rows
  BY DEF DeadlockVictim, StatementFails, dbVars
<1> QED
  BY <1>1 DEF RollBack, LockTypes, RoomLocks, Txs, PCs, Done, Unlock, endVars

\* The completion locks every row it sees.
LEMMA RoomLocksCompleter ==
    ASSUME LockTypes, RoomLocks, CompleterStep
    PROVE  RoomLocks'
<1> USE DEF LockTypes, RoomLocks, Txs, PCs, Goto, Done, Unlock, dbVars, hubVars,
        txVars, endVars
<1>1. CASE StartCompletion
  BY <1>1 DEF StartCompletion, RowsToLock
<1>2. CASE \E p \in Players : CompleterLocks(p)
  BY <1>2 DEF CompleterLocks, LockRow
<1>3. CASE CaptureRoomBoards
  BY <1>3 DEF CaptureRoomBoards
<1>4. CASE CaptureGuildBoard
  BY <1>4 DEF CaptureGuildBoard
<1>5. CASE CommitCompletion
  BY <1>5 DEF CommitCompletion
<1> QED
  BY <1>1, <1>2, <1>3, <1>4, <1>5 DEF CompleterStep

\* Every step keeps the claims on the rows of the room.
LEMMA RoomLocksStep == ASSUME TypeInv, RoomLocks, [Next]_vars PROVE RoomLocks'
<1>1. LockTypes
  BY LockTypesHold
<1>2. CASE Tick \/ UNCHANGED vars
  BY <1>2 DEF Tick, RoomLocks, vars, dbVars, hubVars, txVars, endVars
<1> QED
  BY <1>1, <1>2, RoomLocksHub, RoomLocksRequests, RoomLocksRollBack,
     RoomLocksCompleter, NextCases

\* In a room with players, a score and a completion exclude each other.
LEMMA Exclusion ==
    ASSUME Early # {}, LockTypes, RoomLocks, NEW i \in Instances, pc[i] = "commit"
    PROVE  completer \notin {"guilds", "commit"}
<1> PICK p \in Early : TRUE
  OBVIOUS
<1>1. rowLock[p] = i
  BY DEF RoomLocks
<1>2. completer \in {"guilds", "commit"} => rowLock[p] = Completer
  BY DEF RoomLocks
<1> QED
  BY <1>1, <1>2 DEF LockTypes

\* A step that touches neither the status, nor the points, nor a board.
Neutral ==
    /\ UNCHANGED <<status, credits, board>>
    /\ \A k \in Instances :
          pc'[k] = "commit" => pc[k] = "commit" \/ status = "active"
    /\ UNCHANGED <<completer, capture>> \/ completer' = "idle"

\* Every step is neutral, the commit of a score, or one of the completion.
LEMMA EndChange ==
    ASSUME TypeInv, [Next]_vars
    PROVE  Neutral \/ CompleterStep \/ \E i \in Instances : CommitScore(i)
<1> USE DEF dbVars, hubVars, txVars, endVars, Goto, Done
<1>0. pc \in [Instances -> PCs] /\ LockTypes
  BY LockTypesHold DEF TypeInv, TypeOK
<1>1. CASE Tick \/ UNCHANGED vars
  BY <1>1 DEF Tick, vars, Neutral
<1>2. ASSUME NEW t \in Txs, DeadlockVictim(t) \/ StatementFails(t)
      PROVE  Neutral
  <2>1. RollBack(t) /\ UNCHANGED dbVars
    BY <1>2 DEF DeadlockVictim, StatementFails
  <2> QED
    BY <1>0, <2>1 DEF RollBack, Neutral, Txs
<1>3. ASSUME NEW i \in Instances, Requests(i)
      PROVE  Neutral
  <2>1. CASE Crash(i)
    <3>1. RollBack(i) /\ UNCHANGED dbVars
      BY <2>1 DEF Crash
    <3> QED
      BY <1>0, <3>1 DEF RollBack, Neutral
  <2> QED
    BY <1>3, <2>1 DEF Requests, SubmitInRoom, JoinRoom, FirstQueryFails, Neutral
<1>4. ASSUME NEW i \in Instances, HubStep(i), ~CommitScore(i)
      PROVE  Neutral
  <2>1. UNCHANGED <<status, credits, board, completer, capture>>
    BY <1>4 DEF HubStep, CreateSubmission, ExecuteCode, CheckEventActive,
         RecordWrongAnswer, BeginScore, CheckDuplicate, StartAddScore,
         AddPlayerToRoom, StartLeaderboard, HubLocks, CommitLeaderboard,
         AcceptSubmission
  <2>2. \/ UNCHANGED pc
        \/ \E l \in PCs \ {"commit"} : pc' = [pc EXCEPT ![i] = l]
        \/ pc' = [pc EXCEPT ![i] = "commit"] /\ status = "active"
    BY <1>4 DEF HubStep, CreateSubmission, ExecuteCode, CheckEventActive,
         RecordWrongAnswer, BeginScore, CheckDuplicate, StartAddScore,
         AddPlayerToRoom, StartLeaderboard, HubLocks, CommitLeaderboard,
         AcceptSubmission, TriggerAllows, PCs
  <2> QED
    BY <1>0, <2>1, <2>2 DEF Neutral
<1> QED
  BY <1>1, <1>2, <1>3, <1>4, NextCases

\* What the invariant says of the end of the event.
EndInv == OpenTransactions /\ FinalBoardsExact

\* Every step keeps the boards exact and the open transactions before the end.
LEMMA EndStep ==
    ASSUME Early # {}, TypeInv, RoomLocks, EndInv, [Next]_vars
    PROVE  EndInv'
<1>0. LockTypes
  BY LockTypesHold
<1>1. CASE Neutral
  BY <1>1 DEF Neutral, EndInv, OpenTransactions, FinalBoardsExact
<1>2. ASSUME NEW i \in Instances, CommitScore(i)
      PROVE  EndInv'
  <2>1. /\ pc[i] = "commit" /\ pc' = [pc EXCEPT ![i] = "idle"]
        /\ UNCHANGED <<status, board, completer, capture>>
    BY <1>2 DEF CommitScore, ApplyScore, Done, endVars
  <2>2. completer \notin {"guilds", "commit"}
    BY <1>0, <2>1, Exclusion
  <2>3. status = "active"
    BY <2>1 DEF EndInv, OpenTransactions
  <2> QED
    BY <1>0, <2>1, <2>2, <2>3
       DEF EndInv, OpenTransactions, FinalBoardsExact, LockTypes
<1>3. CASE StartCompletion \/ \E p \in Players : CompleterLocks(p)
  <2>1. /\ UNCHANGED <<status, credits, board, capture, pc>>
        /\ completer' = "players" /\ status = "active"
    BY <1>3 DEF StartCompletion, CompleterLocks, EndInv, OpenTransactions, dbVars,
         hubVars, endVars
  <2> QED
    BY <2>1 DEF EndInv, OpenTransactions, FinalBoardsExact
<1>4. CASE CaptureRoomBoards
  <2>1. capture' = [capture EXCEPT !["rooms"] = credits] /\ completer = "players"
        /\ completer' = "guilds" /\ UNCHANGED <<dbVars, pc>>
    BY <1>4 DEF CaptureRoomBoards, hubVars
  <2>2. capture'["rooms"] = credits
    BY <2>1 DEF TypeInv, TypeOK, Boards
  <2> QED
    BY <2>1, <2>2 DEF EndInv, OpenTransactions, FinalBoardsExact, dbVars
<1>5. CASE CaptureGuildBoard
  <2>1. capture' = [capture EXCEPT !["guilds"] = credits] /\ completer = "guilds"
        /\ completer' = "commit" /\ UNCHANGED <<dbVars, pc>>
    BY <1>5 DEF CaptureGuildBoard, hubVars
  <2>2. capture'["guilds"] = credits /\ capture'["rooms"] = capture["rooms"]
    BY <2>1 DEF TypeInv, TypeOK, Boards
  <2> QED
    BY <2>1, <2>2 DEF EndInv, OpenTransactions, FinalBoardsExact, dbVars
<1>6. CASE CommitCompletion
  <2>1. /\ completer = "commit" /\ status' = "completed" /\ board' = capture
        /\ completer' = "idle" /\ UNCHANGED <<credits, pc>>
    BY <1>6 DEF CommitCompletion, hubVars
  <2>2. \A i \in Instances : pc[i] # "commit"
    BY <1>0, <2>1, Exclusion
  <2>3. \A b \in Boards : capture[b] = credits
    BY <2>1 DEF EndInv, OpenTransactions, Boards
  <2> QED
    BY <2>1, <2>2, <2>3 DEF EndInv, OpenTransactions, FinalBoardsExact
<1> QED
  BY <1>1, <1>2, <1>3, <1>4, <1>5, <1>6, EndChange DEF CompleterStep

\* Only the commit of a score accepts a submission.
LEMMA AcceptedChange ==
    ASSUME TypeInv, [Next]_vars, \A i \in Instances : ~CommitScore(i)
    PROVE  \A s \in Submissions : sub'[s] = "accepted" => sub[s] = "accepted"
<1>1. CASE UNCHANGED sub
  BY <1>1
<1>2. ASSUME NEW i \in Instances, CreateSubmission(i) \/ RecordWrongAnswer(i)
      PROVE  \A s \in Submissions : sub'[s] = "accepted" => sub[s] = "accepted"
  BY <1>2 DEF CreateSubmission, RecordWrongAnswer, WrongAnswerStatus, TypeInv, TypeOK
<1>3. UNCHANGED sub
      \/ \E i \in Instances : CreateSubmission(i) \/ RecordWrongAnswer(i)
  <2> USE DEF dbVars
  <2>1. CASE Tick \/ UNCHANGED vars
    BY <2>1 DEF Tick, vars
  <2>2. ASSUME NEW t \in Txs, DeadlockVictim(t) \/ StatementFails(t)
        PROVE  UNCHANGED sub
    BY <2>2 DEF DeadlockVictim, StatementFails
  <2>3. ASSUME NEW i \in Instances, Requests(i)
        PROVE  UNCHANGED sub
    BY <2>3 DEF Requests, SubmitInRoom, JoinRoom, FirstQueryFails, Crash
  <2>4. ASSUME NEW i \in Instances, HubStep(i)
        PROVE  UNCHANGED sub \/ CreateSubmission(i) \/ RecordWrongAnswer(i)
    BY <2>4 DEF HubStep, ExecuteCode, CheckEventActive, BeginScore,
         CheckDuplicate, StartAddScore, AddPlayerToRoom, StartLeaderboard,
         HubLocks, CommitLeaderboard, AcceptSubmission
  <2>5. CASE CompleterStep
    BY <2>5 DEF CompleterStep, StartCompletion, CompleterLocks,
         CaptureRoomBoards, CaptureGuildBoard, CommitCompletion
  <2> QED
    BY <2>1, <2>2, <2>3, <2>4, <2>5, NextCases
<1> QED
  BY <1>1, <1>2, <1>3

-------------------------------------------------------------------------------
(* Every attempt is in one place                                           *)

\* Channels lose items at their heads only.
Shifted ==
    \E d \in [Instances -> {0, 1}] :
        \A k \in Instances : \A m \in 1 .. Len(queue'[k]) :
            /\ m + d[k] \in 1 .. Len(queue[k])
            /\ queue'[k][m] = queue[k][m + d[k]]

\* Taking, dropping or losing items shifts a channel.
LEMMA ShiftedByTail ==
    ASSUME TypeInv, NEW i \in Instances, queue[i] # <<>>,
           queue' = [queue EXCEPT ![i] = Tail(@)]
    PROVE  Shifted
<1>1. queue \in [Instances -> Seq(Items)]
  BY DEF TypeInv, TypeOK
<1>2. queue[i] \in Seq(Items)
  BY <1>1
<1>3. /\ Len(Tail(queue[i])) = Len(queue[i]) - 1
      /\ Len(queue[i]) \in Nat
      /\ \A m \in 1 .. Len(Tail(queue[i])) : Tail(queue[i])[m] = queue[i][m + 1]
  BY <1>2
<1>4. queue'[i] = Tail(queue[i]) /\ \A k \in Instances \ {i} : queue'[k] = queue[k]
  BY <1>1
<1>5. \A k \in Instances : Len(queue[k]) \in Nat
  BY <1>1
<1> DEFINE d == [k \in Instances |-> IF k = i THEN 1 ELSE 0]
<1>6. /\ d \in [Instances -> {0, 1}]
      /\ \A k \in Instances : d[k] = IF k = i THEN 1 ELSE 0
  OBVIOUS
<1> HIDE DEF d
<1>7. ASSUME NEW k \in Instances, NEW m \in 1 .. Len(queue'[k])
      PROVE  /\ m + d[k] \in 1 .. Len(queue[k])
             /\ queue'[k][m] = queue[k][m + d[k]]
  <2>1. CASE k = i
    <3>1. d[k] = 1 /\ queue'[k] = Tail(queue[i]) /\ k = i
      BY <1>4, <1>6, <2>1
    <3>2. m \in 1 .. Len(queue[i]) - 1
      BY <1>3, <3>1
    <3>3. m + 1 \in 1 .. Len(queue[i]) /\ Tail(queue[i])[m] = queue[i][m + 1]
      BY <1>3, <3>1, <3>2
    <3> QED
      BY <3>1, <3>3
  <2>2. CASE k # i
    <3>1. d[k] = 0 /\ queue'[k] = queue[k]
      BY <1>4, <1>6, <2>2
    <3>2. m \in 1 .. Len(queue[k]) /\ queue'[k][m] = queue[k][m]
      BY <3>1
    <3>3. m + d[k] = m
      BY <3>1
    <3> QED
      BY <3>2, <3>3
  <2> QED
    BY <2>1, <2>2
<1> QED
  BY <1>6, <1>7 DEF Shifted

\* So does losing a whole channel, or nothing.
LEMMA ShiftedByLoss ==
    ASSUME TypeInv, NEW i \in Instances,
           \/ queue' = queue
           \/ queue' = [queue EXCEPT ![i] = <<>>]
    PROVE  Shifted
<1>1. queue \in [Instances -> Seq(Items)]
  BY DEF TypeInv, TypeOK
<1>2. ASSUME NEW k \in Instances
      PROVE  queue'[k] = queue[k] \/ queue'[k] = <<>>
  BY <1>1
<1> DEFINE d == [k \in Instances |-> 0]
<1>3. ASSUME NEW k \in Instances, NEW m \in 1 .. Len(queue'[k])
      PROVE  /\ m + d[k] \in 1 .. Len(queue[k])
             /\ queue'[k][m] = queue[k][m + d[k]]
  <2>1. m + d[k] = m
    OBVIOUS
  <2>2. queue'[k] = queue[k]
    BY <1>2
  <2> QED
    BY <2>1, <2>2
<1>4. d \in [Instances -> {0, 1}]
  OBVIOUS
<1> HIDE DEF d
<1> QED
  BY <1>3, <1>4 DEF Shifted

\* The part of AttemptsHandledOnce about one attempt.
Place(s) ==
    /\ sub[s] # "none" => s \in sent
    /\ \A i \in Instances : About(cur[i], s) =>
          /\ sub[s] = "pending"
          /\ \A k \in Instances : About(cur[k], s) => k = i
    /\ \A i \in Instances : \A n \in 1 .. Len(queue[i]) :
          About(queue[i][n], s) =>
             /\ s \in sent
             /\ sub[s] = IF queue[i][n].kind = "submitted" THEN "none"
                         ELSE "pending"
             /\ \A k \in Instances : ~About(cur[k], s)
             /\ \A k \in Instances : \A m \in 1 .. Len(queue[k]) :
                   About(queue[k][m], s) => k = i /\ m = n

\* AttemptsHandledOnce is about each attempt by itself.
LEMMA Places == AttemptsHandledOnce <=> \A s \in Submissions : Place(s)
BY DEF AttemptsHandledOnce, Place

\* A handler returns, and what it worked on may have got its verdict; channels

\* may lose items.
LEMMA Dropped ==
    ASSUME AttemptsHandledOnce, TypeInv, Shifted, NEW s \in Submissions,
           \A k \in Instances : cur'[k] = cur[k] \/ cur'[k] = Idle,
           sent' = sent,
           \/ sub'[s] = sub[s]
           \/ \E i \in Instances : About(cur[i], s) /\ cur'[i] = Idle
    PROVE  Place(s)'
<1>1. Place(s)
  BY Places
<1>2. PICK d \in [Instances -> {0, 1}] :
         \A k \in Instances : \A m \in 1 .. Len(queue'[k]) :
            /\ m + d[k] \in 1 .. Len(queue[k])
            /\ queue'[k][m] = queue[k][m + d[k]]
  BY DEF Shifted
<1>3. ~About(Idle, s)
  BY DEF About, Idle
<1>4. \A k \in Instances : About(cur'[k], s) => About(cur[k], s) /\ cur'[k] = cur[k]
  BY <1>3
<1>5. sub'[s] # "none" => s \in sent'
  BY <1>1 DEF Place
<1>6. ASSUME NEW i \in Instances, About(cur'[i], s)
      PROVE  /\ sub'[s] = "pending"
             /\ \A k \in Instances : About(cur'[k], s) => k = i
  <2>1. About(cur[i], s) /\ cur'[i] = cur[i]
    BY <1>4, <1>6
  <2>2. /\ sub[s] = "pending"
        /\ \A k \in Instances : About(cur[k], s) => k = i
    BY <1>1, <2>1 DEF Place
  <2>3. sub'[s] = sub[s]
    BY <1>3, <1>6, <2>2
  <2> QED
    BY <1>4, <2>2, <2>3
<1>7. ASSUME NEW i \in Instances, NEW n \in 1 .. Len(queue'[i]),
             About(queue'[i][n], s)
      PROVE  /\ s \in sent'
             /\ sub'[s] = IF queue'[i][n].kind = "submitted" THEN "none"
                          ELSE "pending"
             /\ \A k \in Instances : ~About(cur'[k], s)
             /\ \A k \in Instances : \A m \in 1 .. Len(queue'[k]) :
                   About(queue'[k][m], s) => k = i /\ m = n
  <2>1. /\ n + d[i] \in 1 .. Len(queue[i])
        /\ queue'[i][n] = queue[i][n + d[i]]
    BY <1>2
  <2>2. /\ s \in sent
        /\ sub[s] = IF queue[i][n + d[i]].kind = "submitted" THEN "none"
                    ELSE "pending"
        /\ \A k \in Instances : ~About(cur[k], s)
        /\ \A k \in Instances : \A m \in 1 .. Len(queue[k]) :
              About(queue[k][m], s) => k = i /\ m = n + d[i]
    BY <1>1, <1>7, <2>1 DEF Place
  <2>3. sub'[s] = sub[s]
    BY <2>2
  <2>4. ASSUME NEW k \in Instances, NEW m \in 1 .. Len(queue'[k]),
               About(queue'[k][m], s)
        PROVE  k = i /\ m = n
    <3>1. k = i /\ m + d[k] = n + d[i]
      BY <1>2, <2>2, <2>4
    <3>2. d[i] \in {0, 1}
      OBVIOUS
    <3> QED
      BY <3>1, <3>2
  <2> QED
    BY <1>4, <2>1, <2>2, <2>3, <2>4
<1> QED
  BY <1>5, <1>6, <1>7 DEF Place

\* A goroutine takes the head of its channel, and what is submitted becomes
\* pending.
LEMMA Taken ==
    ASSUME AttemptsHandledOnce, TypeInv, NEW i \in Instances, queue[i] # <<>>,
           queue' = [queue EXCEPT ![i] = Tail(@)],
           cur' = [cur EXCEPT ![i] = Head(queue[i])],
           sent' = sent,
           NEW s \in Submissions,
           IF About(Head(queue[i]), s) THEN sub'[s] = "pending"
           ELSE sub'[s] = sub[s]
    PROVE  Place(s)'
<1> DEFINE head == Head(queue[i])
<1>1. Place(s)
  BY Places
<1>2. queue \in [Instances -> Seq(Items)] /\ cur \in [Instances -> Items \cup {Idle}]
  BY DEF TypeInv, TypeOK
<1>3. /\ queue[i] \in Seq(Items)
      /\ Len(queue[i]) \in Nat /\ 1 \in 1 .. Len(queue[i])
      /\ queue[i][1] = head
      /\ Len(Tail(queue[i])) = Len(queue[i]) - 1
      /\ \A m \in 1 .. Len(Tail(queue[i])) : Tail(queue[i])[m] = queue[i][m + 1]
  BY <1>2
<1>4. /\ queue'[i] = Tail(queue[i])
      /\ \A k \in Instances \ {i} : queue'[k] = queue[k]
      /\ cur'[i] = head
      /\ \A k \in Instances \ {i} : cur'[k] = cur[k]
  BY <1>2
<1> HIDE DEF head
<1> DEFINE shift(k) == IF k = i THEN 1 ELSE 0
<1>5. ASSUME NEW k \in Instances, NEW m \in 1 .. Len(queue'[k])
      PROVE  /\ m + shift(k) \in 1 .. Len(queue[k])
             /\ queue'[k][m] = queue[k][m + shift(k)]
             /\ k = i => m + shift(k) # 1
  <2>1. CASE k = i
    <3>1. shift(k) = 1
      BY <2>1
    <3>2. m \in 1 .. Len(queue[i]) - 1 /\ queue'[k][m] = Tail(queue[i])[m]
      BY <1>3, <1>4, <2>1
    <3>3. /\ m + 1 \in 1 .. Len(queue[i]) /\ m + 1 # 1
          /\ Tail(queue[i])[m] = queue[i][m + 1]
      BY <1>3, <3>2
    <3> QED
      BY <2>1, <3>1, <3>2, <3>3
  <2>2. CASE k # i
    <3>1. m + shift(k) = m
      BY <2>2
    <3>2. queue'[k] = queue[k]
      BY <1>4, <2>2
    <3> QED
      BY <2>2, <3>1, <3>2
  <2> QED
    BY <2>1, <2>2
<1>6. CASE About(head, s)
  <2>1. /\ s \in sent
        /\ \A k \in Instances : ~About(cur[k], s)
        /\ \A k \in Instances : \A m \in 1 .. Len(queue[k]) :
              About(queue[k][m], s) => k = i /\ m = 1
    BY <1>1, <1>3, <1>6 DEF Place
  <2>2. \A k \in Instances : \A m \in 1 .. Len(queue'[k]) : ~About(queue'[k][m], s)
    BY <1>5, <2>1
  <2>3. sub'[s] = "pending"
    BY <1>6 DEF head
  <2>4. \A k \in Instances : About(cur'[k], s) => k = i
    BY <1>4, <2>1
  <2> QED
    BY <2>1, <2>2, <2>3, <2>4 DEF Place
<1>7. CASE ~About(head, s)
  <2>1. sub'[s] = sub[s]
    BY <1>7 DEF head
  <2>2. \A k \in Instances : About(cur'[k], s) => About(cur[k], s) /\ k # i
    BY <1>4, <1>7
  <2>3. ASSUME NEW k \in Instances, NEW n \in 1 .. Len(queue'[k]),
               About(queue'[k][n], s)
        PROVE  /\ s \in sent'
               /\ sub'[s] = IF queue'[k][n].kind = "submitted" THEN "none"
                            ELSE "pending"
               /\ \A j \in Instances : ~About(cur'[j], s)
               /\ \A j \in Instances : \A m \in 1 .. Len(queue'[j]) :
                     About(queue'[j][m], s) => j = k /\ m = n
    <3>1. /\ n + shift(k) \in 1 .. Len(queue[k])
          /\ queue'[k][n] = queue[k][n + shift(k)]
      BY <1>5
    <3>2. /\ s \in sent
          /\ sub[s] = IF queue'[k][n].kind = "submitted" THEN "none"
                      ELSE "pending"
          /\ \A j \in Instances : ~About(cur[j], s)
          /\ \A j \in Instances : \A m \in 1 .. Len(queue[j]) :
                About(queue[j][m], s) => j = k /\ m = n + shift(k)
      BY <1>1, <2>3, <3>1 DEF Place
    <3>3. ASSUME NEW j \in Instances, NEW m \in 1 .. Len(queue'[j]),
                 About(queue'[j][m], s)
          PROVE  j = k /\ m = n
      <4>1. j = k /\ m + shift(j) = n + shift(k)
        BY <1>5, <3>2, <3>3
      <4> QED
        BY <4>1
    <3> QED
      BY <2>1, <2>2, <3>2, <3>3
  <2>4. \A k \in Instances : About(cur'[k], s) =>
           /\ sub'[s] = "pending"
           /\ \A j \in Instances : About(cur'[j], s) => j = k
    BY <1>1, <2>1, <2>2 DEF Place
  <2>5. sub'[s] # "none" => s \in sent'
    BY <1>1, <2>1 DEF Place
  <2> QED
    BY <2>3, <2>4, <2>5 DEF Place
<1> QED
  BY <1>6, <1>7

\* An item about an attempt that is nowhere else is put at the end of a channel.
LEMMA Appended ==
    ASSUME AttemptsHandledOnce, TypeInv, NEW i \in Instances, NEW item \in Items,
           queue' = [queue EXCEPT ![i] = Append(@, item)],
           \A k \in Instances : cur'[k] = cur[k] \/ cur'[k] = Idle,
           sub' = sub, sent \subseteq sent',
           NEW s \in Submissions,
           About(item, s) =>
              /\ s \in sent'
              /\ sub[s] = IF item.kind = "submitted" THEN "none" ELSE "pending"
              /\ \A k \in Instances : ~About(cur'[k], s)
              /\ \A k \in Instances : \A m \in 1 .. Len(queue[k]) :
                    ~About(queue[k][m], s)
    PROVE  Place(s)'
<1>1. Place(s)
  BY Places
<1>2. queue \in [Instances -> Seq(Items)]
  BY DEF TypeInv, TypeOK
<1>3. queue[i] \in Seq(Items) /\ Len(queue[i]) \in Nat
  BY <1>2
<1> DEFINE last == Len(queue[i]) + 1
<1>4. /\ Len(Append(queue[i], item)) = last
      /\ Append(queue[i], item)[last] = item
      /\ \A m \in 1 .. Len(queue[i]) : Append(queue[i], item)[m] = queue[i][m]
  BY <1>3
<1>5. /\ queue'[i] = Append(queue[i], item)
      /\ \A k \in Instances \ {i} : queue'[k] = queue[k]
  BY <1>2
<1>6. ASSUME NEW k \in Instances, NEW m \in 1 .. Len(queue'[k])
      PROVE  \/ m \in 1 .. Len(queue[k]) /\ queue'[k][m] = queue[k][m]
             \/ k = i /\ m = last /\ queue'[k][m] = item
  <2>1. CASE k = i
    <3>1. queue'[k] = Append(queue[i], item) /\ m \in 1 .. last
      BY <1>4, <1>5, <2>1
    <3>2. m \in 1 .. Len(queue[i]) \/ m = last
      BY <1>3, <3>1
    <3> QED
      BY <1>4, <2>1, <3>1, <3>2
  <2>2. CASE k # i
    BY <1>5, <2>2
  <2> QED
    BY <2>1, <2>2
<1>7. ~About(Idle, s)
  BY DEF About, Idle
<1>8. \A k \in Instances : About(cur'[k], s) => About(cur[k], s)
  BY <1>7
<1> HIDE DEF last
<1>9. CASE About(item, s)
  <2>1. /\ s \in sent'
        /\ sub[s] = IF item.kind = "submitted" THEN "none" ELSE "pending"
        /\ \A k \in Instances : ~About(cur'[k], s)
        /\ \A k \in Instances : \A m \in 1 .. Len(queue[k]) : ~About(queue[k][m], s)
    BY <1>9
  <2>2. \A k \in Instances : \A m \in 1 .. Len(queue'[k]) :
           About(queue'[k][m], s) => k = i /\ m = last /\ queue'[k][m] = item
    BY <1>6, <2>1
  <2>3. ASSUME NEW k \in Instances, NEW n \in 1 .. Len(queue'[k]),
               About(queue'[k][n], s)
        PROVE  /\ sub'[s] = IF queue'[k][n].kind = "submitted" THEN "none"
                            ELSE "pending"
               /\ \A j \in Instances : \A m \in 1 .. Len(queue'[j]) :
                     About(queue'[j][m], s) => j = k /\ m = n
    BY <2>1, <2>2, <2>3
  <2>4. ASSUME NEW k \in Instances, About(cur'[k], s)
        PROVE  FALSE
    BY <2>1, <2>4
  <2>5. sub'[s] # "none" => s \in sent'
    BY <2>1
  <2> QED
    BY <2>1, <2>3, <2>4, <2>5 DEF Place
<1>10. CASE ~About(item, s)
  <2>1. \A k \in Instances : \A m \in 1 .. Len(queue'[k]) :
           About(queue'[k][m], s) => /\ m \in 1 .. Len(queue[k])
                                     /\ queue'[k][m] = queue[k][m]
    BY <1>6, <1>10
  <2>2. sub'[s] # "none" => s \in sent'
    BY <1>1 DEF Place
  <2>3. \A k \in Instances : About(cur'[k], s) =>
           /\ sub'[s] = "pending"
           /\ \A j \in Instances : About(cur'[j], s) => j = k
    BY <1>1, <1>8 DEF Place
  <2>4. ASSUME NEW k \in Instances, NEW n \in 1 .. Len(queue'[k]),
               About(queue'[k][n], s)
        PROVE  /\ s \in sent'
               /\ sub'[s] = IF queue'[k][n].kind = "submitted" THEN "none"
                            ELSE "pending"
               /\ \A j \in Instances : ~About(cur'[j], s)
               /\ \A j \in Instances : \A m \in 1 .. Len(queue'[j]) :
                     About(queue'[j][m], s) => j = k /\ m = n
    <3>1. n \in 1 .. Len(queue[k]) /\ queue'[k][n] = queue[k][n]
      BY <2>1, <2>4
    <3>2. /\ s \in sent
          /\ sub[s] = IF queue'[k][n].kind = "submitted" THEN "none"
                      ELSE "pending"
          /\ \A j \in Instances : ~About(cur[j], s)
          /\ \A j \in Instances : \A m \in 1 .. Len(queue[j]) :
                About(queue[j][m], s) => j = k /\ m = n
      BY <1>1, <2>4, <3>1 DEF Place
    <3> QED
      BY <1>8, <2>1, <3>2
  <2> QED
    BY <2>2, <2>3, <2>4 DEF Place
<1> QED
  BY <1>9, <1>10

\* A goroutine that returns works on nothing.
LEMMA Returned ==
    ASSUME TypeInv, NEW i \in Instances, Done(i)
    PROVE  /\ \A k \in Instances : cur'[k] = cur[k] \/ cur'[k] = Idle
           /\ cur'[i] = Idle
BY DEF Done, TypeInv, TypeOK

\* A hub moves an attempt from its channel to its goroutine and back.
LEMMA AttemptsHub ==
    ASSUME TypeInv, AttemptsHandledOnce, NEW i \in Instances, HubStep(i),
           NEW s \in Submissions
    PROVE  Place(s)'
<1> USE DEF dbVars, hubVars, txVars, endVars, bounds
<1>0. Place(s) /\ (queue' = queue => Shifted)
  BY Places, ShiftedByLoss
<1>1. CASE UNCHANGED <<queue, cur, sub, sent>>
  BY <1>0, <1>1 DEF Place
<1>2. CASE Done(i) /\ UNCHANGED <<queue, sub, sent>>
  BY <1>0, <1>2, Returned, Dropped
<1>3. CASE CreateSubmission(i)
  <2>1. /\ queue[i] # <<>>
        /\ queue' = [queue EXCEPT ![i] = Tail(@)]
        /\ cur' = [cur EXCEPT ![i] = Head(queue[i])]
        /\ sub' = [sub EXCEPT ![Head(queue[i]).sub] = "pending"]
        /\ Head(queue[i]).kind = "submitted"
        /\ sent' = sent
    BY <1>3 DEF CreateSubmission, Take
  <2>2. IF About(Head(queue[i]), s) THEN sub'[s] = "pending"
        ELSE sub'[s] = sub[s]
    BY <2>1 DEF About, TypeInv, TypeOK
  <2> QED
    BY <2>1, <2>2, Taken
<1>4. CASE \E correct \in BOOLEAN : ExecuteCode(i, correct)
  <2>1. PICK correct \in BOOLEAN : ExecuteCode(i, correct)
    BY <1>4
  <2> DEFINE item == [kind |-> "result", sub |-> cur[i].sub, correct |-> correct]
  <2>2. cur[i] \in Items /\ cur[i].kind = "submitted"
    BY <2>1 DEF ExecuteCode, TypeInv, CurrentItems
  <2>3. cur[i].sub \in Submissions
    BY <2>2 DEF Items
  <2>4. /\ queue' = [queue EXCEPT ![i] = Append(@, item)]
        /\ sub' = sub /\ sent' = sent
        /\ Done(i)
    BY <2>1 DEF ExecuteCode
  <2>5. item \in Items /\ item.kind = "result" /\ item.sub = cur[i].sub
    BY <2>3 DEF Items
  <2> HIDE DEF item
  <2>6. ASSUME About(item, s)
        PROVE  /\ s \in sent
               /\ sub[s] = IF item.kind = "submitted" THEN "none" ELSE "pending"
               /\ \A k \in Instances : ~About(cur'[k], s)
               /\ \A k \in Instances : \A m \in 1 .. Len(queue[k]) :
                     ~About(queue[k][m], s)
    <3>1. About(cur[i], s)
      BY <2>2, <2>5, <2>6 DEF About
    <3>2. /\ sub[s] = "pending" /\ s \in sent
          /\ \A k \in Instances : About(cur[k], s) => k = i
          /\ \A k \in Instances : \A m \in 1 .. Len(queue[k]) :
                ~About(queue[k][m], s)
      BY <1>0, <3>1 DEF Place
    <3>3. ~About(Idle, s)
      BY DEF About, Idle
    <3> QED
      BY <2>4, <2>5, <3>2, <3>3, Returned
  <2> QED
    BY <2>4, <2>5, <2>6, Returned, Appended
<1>5. CASE CheckEventActive(i)
  <2>1. /\ queue[i] # <<>>
        /\ queue' = [queue EXCEPT ![i] = Tail(@)]
        /\ \/ cur' = [cur EXCEPT ![i] = Head(queue[i])]
           \/ cur' = cur
        /\ Head(queue[i]).kind = "result"
        /\ sub' = sub /\ sent' = sent
    BY <1>5 DEF CheckEventActive, Take
  <2>2. CASE cur' = cur
    BY <2>1, <2>2, ShiftedByTail, Dropped
  <2>3. CASE cur' = [cur EXCEPT ![i] = Head(queue[i])]
    <3>1. About(Head(queue[i]), s) => sub[s] = "pending"
      <4>1. queue[i] \in Seq(Items)
        BY DEF TypeInv, TypeOK
      <4>2. Head(queue[i]) = queue[i][1] /\ 1 \in 1 .. Len(queue[i])
        BY <2>1, <4>1
      <4> QED
        BY <1>0, <2>1, <4>2 DEF Place
    <3> QED
      BY <2>1, <2>3, <3>1, Taken
  <2> QED
    BY <2>1, <2>2, <2>3
<1>6. CASE AddPlayerToRoom(i)
  <2>1. /\ queue[i] # <<>>
        /\ queue' = [queue EXCEPT ![i] = Tail(@)]
        /\ \/ cur' = [cur EXCEPT ![i] = Head(queue[i])]
           \/ cur' = cur
        /\ Head(queue[i]).kind = "joined"
        /\ sub' = sub /\ sent' = sent
    BY <1>6 DEF AddPlayerToRoom, Take
  <2>2. CASE cur' = cur
    BY <2>1, <2>2, ShiftedByTail, Dropped
  <2>3. CASE cur' = [cur EXCEPT ![i] = Head(queue[i])]
    <3>1. ~About(Head(queue[i]), s)
      BY <2>1 DEF About
    <3> QED
      BY <2>1, <2>3, <3>1, Taken
  <2> QED
    BY <2>1, <2>2, <2>3
<1>7. CASE RecordWrongAnswer(i) \/ CommitScore(i)
  <2>1. /\ Done(i) /\ queue' = queue /\ sent' = sent
        /\ \/ sub' = sub
           \/ \E v : sub' = [sub EXCEPT ![cur[i].sub] = v]
        /\ pc[i] \in {"wrong", "commit"}
    BY <1>7 DEF RecordWrongAnswer, CommitScore, ApplyScore
  <2>2. cur[i].kind = "result"
    BY <2>1 DEF TypeInv, CurrentItems
  <2>3. sub'[s] = sub[s] \/ (About(cur[i], s) /\ cur'[i] = Idle)
    BY <2>1, <2>2, Returned DEF About, TypeInv, TypeOK
  <2> QED
    BY <1>0, <2>1, <2>3, Returned, Dropped
<1> QED
  BY <1>1, <1>2, <1>3, <1>4, <1>5, <1>6, <1>7
     DEF HubStep, BeginScore, CheckDuplicate, StartAddScore, StartLeaderboard,
         HubLocks, CommitLeaderboard, AcceptSubmission

\* A request puts an attempt into one channel; a crash loses those of one.
LEMMA AttemptsRequests ==
    ASSUME TypeInv, AttemptsHandledOnce, NEW i \in Instances, Requests(i),
           NEW s \in Submissions
    PROVE  Place(s)'
<1> USE DEF dbVars, hubVars, txVars, endVars, bounds
<1>0. Place(s)
  BY Places
<1>1. ASSUME NEW r \in Submissions, SubmitInRoom(i, r)
      PROVE  Place(s)'
  <2> DEFINE item == [kind |-> "submitted", sub |-> r]
  <2>1. /\ queue' = [queue EXCEPT ![i] = Append(@, item)]
        /\ cur' = cur /\ sub' = sub /\ sent' = sent \cup {r} /\ r \notin sent
    BY <1>1 DEF SubmitInRoom
  <2>2. item \in Items /\ item.kind = "submitted" /\ item.sub = r
    BY DEF Items
  <2> HIDE DEF item
  <2>3. ASSUME About(item, s)
        PROVE  /\ s \in sent'
               /\ sub[s] = "none"
               /\ \A k \in Instances : ~About(cur'[k], s)
               /\ \A k \in Instances : \A m \in 1 .. Len(queue[k]) :
                     ~About(queue[k][m], s)
    <3>1. s = r
      BY <2>2, <2>3 DEF About
    <3> QED
      BY <1>0, <2>1, <3>1 DEF Place
  <2> QED
    BY <2>1, <2>2, <2>3, Appended
<1>2. ASSUME NEW p \in Players, JoinRoom(i, p)
      PROVE  Place(s)'
  <2> DEFINE item == [kind |-> "joined", player |-> p]
  <2>1. /\ queue' = [queue EXCEPT ![i] = Append(@, item)]
        /\ cur' = cur /\ sub' = sub /\ sent' = sent
    BY <1>2 DEF JoinRoom
  <2>2. item \in Items /\ item.kind = "joined"
    BY DEF Items
  <2> HIDE DEF item
  <2>3. ~About(item, s)
    BY <2>2 DEF About
  <2> QED
    BY <2>1, <2>2, <2>3, Appended
<1>3. CASE FirstQueryFails(i)
  BY <1>3, ShiftedByTail, Dropped DEF FirstQueryFails
<1>4. CASE Crash(i)
  <2>1. /\ queue' = [queue EXCEPT ![i] = <<>>]
        /\ UNCHANGED <<sub, sent>>
        /\ i # Completer => Done(i)
    BY <1>4 DEF Crash, RollBack
  <2>2. i # Completer
    BY ScoringAssumption
  <2> QED
    BY <2>1, <2>2, ShiftedByLoss, Returned, Dropped
<1> QED
  BY <1>1, <1>2, <1>3, <1>4 DEF Requests

\* A rollback takes an attempt out of the hands of its goroutine.
LEMMA AttemptsRollBack ==
    ASSUME TypeInv, AttemptsHandledOnce, NEW t \in Txs,
           DeadlockVictim(t) \/ StatementFails(t), NEW s \in Submissions
    PROVE  Place(s)'
<1>0. Place(s)
  BY Places
<1>1. RollBack(t) /\ UNCHANGED <<queue, sub, sent>>
  BY DEF DeadlockVictim, StatementFails, dbVars, bounds
<1>2. CASE t = Completer
  BY <1>0, <1>1, <1>2 DEF RollBack, Place
<1>3. CASE t # Completer
  <2>1. t \in Instances /\ Done(t)
    BY <1>1, <1>3 DEF RollBack, Txs
  <2> QED
    BY <1>1, <2>1, ShiftedByLoss, Returned, Dropped
<1> QED
  BY <1>2, <1>3

\* Attempts stay in one place, whatever is lost and whichever instances judge.
LEMMA AttemptsNext ==
    ASSUME TypeInv, AttemptsHandledOnce, [Next]_vars
    PROVE  AttemptsHandledOnce'
<1> SUFFICES ASSUME NEW s \in Submissions
             PROVE  Place(s)'
  BY DEF AttemptsHandledOnce, Place
<1>1. Place(s)
  BY Places
<1>2. CASE UNCHANGED <<queue, cur, sub, sent>>
  BY <1>1, <1>2 DEF Place
<1>3. CASE CompleterStep \/ Tick \/ UNCHANGED vars
  BY <1>2, <1>3 DEF CompleterStep, StartCompletion, CompleterLocks,
     CaptureRoomBoards, CaptureGuildBoard, CommitCompletion, Tick, vars, dbVars,
     hubVars, bounds
<1> QED
  BY <1>3, AttemptsHub, AttemptsRequests, AttemptsRollBack, NextCases

-------------------------------------------------------------------------------
(* A problem is solved once and scored once                                *)

\* What is accepted stays so: its attempt is nowhere any more.
LEMMA AcceptedStays ==
    ASSUME TypeInv, AttemptsHandledOnce, [Next]_vars, NEW s \in Submissions,
           sub[s] = "accepted"
    PROVE  sub'[s] = "accepted"
<1> USE DEF dbVars, hubVars, txVars, endVars, bounds
<1>1. Place(s)
  BY Places
<1>2. CASE sub' = sub
  BY <1>2
<1>3. ASSUME NEW i \in Instances, CreateSubmission(i)
      PROVE  sub'[s] = "accepted"
  <2>1. /\ queue[i] # <<>>
        /\ sub' = [sub EXCEPT ![Head(queue[i]).sub] = "pending"]
        /\ Head(queue[i]).kind = "submitted"
    BY <1>3 DEF CreateSubmission, Take
  <2>2. queue[i] \in Seq(Items)
    BY DEF TypeInv, TypeOK
  <2>3. Head(queue[i]) = queue[i][1] /\ 1 \in 1 .. Len(queue[i])
    BY <2>1, <2>2
  <2>4. ~About(Head(queue[i]), s)
    BY <1>1, <2>1, <2>3 DEF Place
  <2>5. Head(queue[i]).sub # s
    BY <2>1, <2>4 DEF About
  <2> QED
    BY <2>1, <2>5 DEF TypeInv, TypeOK
<1>4. ASSUME NEW i \in Instances, RecordWrongAnswer(i)
      PROVE  sub'[s] = "accepted"
  <2>1. cur[i].kind = "result"
    BY <1>4 DEF RecordWrongAnswer, TypeInv, CurrentItems
  <2>2. ~About(cur[i], s)
    BY <1>1 DEF Place
  <2>3. cur[i].sub # s
    BY <2>1, <2>2 DEF About
  <2> QED
    BY <1>4, <2>3 DEF RecordWrongAnswer, TypeInv, TypeOK
<1>5. ASSUME NEW i \in Instances, CommitScore(i)
      PROVE  sub'[s] = "accepted"
  BY <1>5 DEF CommitScore, ApplyScore, TypeInv, TypeOK
<1>6. ASSUME NEW i \in Instances, HubStep(i)
      PROVE  sub'[s] = "accepted"
  <2>1. \/ CreateSubmission(i) \/ RecordWrongAnswer(i) \/ CommitScore(i)
        \/ sub' = sub
    BY <1>6 DEF HubStep, ExecuteCode, CheckEventActive, BeginScore,
       CheckDuplicate, StartAddScore, AddPlayerToRoom, StartLeaderboard,
       HubLocks, CommitLeaderboard, AcceptSubmission
  <2> QED
    BY <1>2, <1>3, <1>4, <1>5, <2>1
<1>7. CASE \/ CompleterStep \/ Tick \/ UNCHANGED vars
           \/ \E i \in Instances : Requests(i)
           \/ \E t \in Txs : DeadlockVictim(t) \/ StatementFails(t)
  BY <1>2, <1>7 DEF CompleterStep, StartCompletion, CompleterLocks,
     CaptureRoomBoards, CaptureGuildBoard, CommitCompletion, Tick, vars,
     Requests, SubmitInRoom, JoinRoom, FirstQueryFails, Crash, DeadlockVictim,
     StatementFails
<1> QED
  BY <1>6, <1>7, NextCases

\* How a goroutine gets to its commit, and what it knows by then.
LEMMA HubMoves ==
    ASSUME TypeInv, RoomLocks, CommitsAgree, NEW i \in Instances, HubStep(i),
           ~CommitScore(i)
    PROVE  /\ \A k \in Instances \ {i} :
                 pc'[k] = pc[k] /\ cur'[k] = cur[k] /\ scored'[k] = scored[k]
           /\ pc'[i] = "commit" =>
                 /\ cur'[i] = cur[i]
                 /\ \/ pc[i] = "commit"
                    \/ /\ ~Solved(Key(cur[i].sub))
                       /\ \A k \in Instances : ~IndexWaits(i, k)
           /\ pc'[i] = "rank" => cur'[i].kind = "joined"
           /\ /\ pc'[i] \in {"add", "lock", "commit"}
              /\ cur'[i].kind = "result"
              /\ Player(cur'[i].sub) \in Early
              => scored'[i]
<1> USE DEF hubVars, txVars, Goto, Done, Forget
<1>0. /\ pc \in [Instances -> PCs]
      /\ cur \in [Instances -> Items \cup {Idle}]
      /\ scored \in [Instances -> BOOLEAN]
  BY DEF TypeInv, TypeOK
<1>1. /\ pc[i] = "rank" => cur[i].kind = "joined"
      /\ /\ pc[i] \in {"add", "lock", "commit"}
         /\ cur[i].kind = "result"
         /\ Player(cur[i].sub) \in Early
         => scored[i]
  BY DEF CommitsAgree
<1> DEFINE Others == \A k \in Instances \ {i} :
                        /\ pc'[k] = pc[k] /\ cur'[k] = cur[k]
                        /\ scored'[k] = scored[k]
           Elsewhere == pc'[i] \notin {"commit", "rank", "add", "lock"}
<1>2. CASE \/ CreateSubmission(i) \/ RecordWrongAnswer(i) \/ BeginScore(i)
           \/ CheckDuplicate(i) \/ CommitLeaderboard(i)
           \/ \E correct \in BOOLEAN : ExecuteCode(i, correct)
  <2>1. Others /\ Elsewhere
    BY <1>0, <1>2 DEF CreateSubmission, RecordWrongAnswer, BeginScore,
       CheckDuplicate, CommitLeaderboard, ExecuteCode
  <2> QED
    BY <2>1
<1>3. CASE CheckEventActive(i)
  <2>1. pc[i] = "idle"
    BY <1>3 DEF CheckEventActive, Take
  <2>2. Others /\ Elsewhere
    BY <1>0, <1>3, <2>1 DEF CheckEventActive
  <2> QED
    BY <2>2
<1>4. CASE StartAddScore(i)
  <2>1. Others /\ pc'[i] = "add" /\ cur' = cur
        /\ scored'[i] = (Player(cur[i].sub) \in rows)
    BY <1>0, <1>4 DEF StartAddScore
  <2>2. Early \subseteq rows
    BY DEF RoomLocks
  <2> QED
    BY <2>1, <2>2
<1>5. CASE AddPlayerToRoom(i)
  <2>1. pc[i] = "idle" /\ Head(queue[i]).kind = "joined" /\ scored' = scored
    BY <1>5 DEF AddPlayerToRoom, Take
  <2>2. \/ pc' = [pc EXCEPT ![i] = "rank"] /\ cur' = [cur EXCEPT ![i] = Head(queue[i])]
        \/ pc' = pc /\ cur' = cur
    BY <1>5 DEF AddPlayerToRoom
  <2> QED
    BY <1>0, <2>1, <2>2
<1>6. CASE StartLeaderboard(i)
  <2>1. /\ pc[i] \in {"rank", "add"} /\ pc' = [pc EXCEPT ![i] = "lock"]
        /\ cur' = cur /\ scored' = scored
    BY <1>6 DEF StartLeaderboard
  <2> QED
    BY <1>0, <1>1, <2>1
<1>7. CASE \E p \in Players : HubLocks(i, p)
  <2>1. pc' = pc /\ cur' = cur /\ scored' = scored
    BY <1>7 DEF HubLocks
  <2> QED
    BY <1>1, <2>1
<1>8. CASE AcceptSubmission(i)
  <2>1. CASE TriggerAllows(i) /\ IndexAllows(i)
    <3>1. /\ pc[i] = "lock" /\ pc' = [pc EXCEPT ![i] = "commit"]
          /\ cur' = cur /\ scored' = scored
          /\ ~Solved(Key(cur[i].sub))
          /\ \A k \in Instances : ~IndexWaits(i, k)
      BY <1>8, <2>1 DEF AcceptSubmission, Accepting, IndexAllows
    <3> QED
      BY <1>0, <1>1, <3>1
  <2>2. CASE ~(TriggerAllows(i) /\ IndexAllows(i))
    <3>1. Others /\ Elsewhere
      BY <1>0, <1>8, <2>2 DEF AcceptSubmission
    <3> QED
      BY <3>1
  <2> QED
    BY <2>1, <2>2
<1> QED
  BY <1>2, <1>3, <1>4, <1>5, <1>6, <1>7, <1>8 DEF HubStep

\* Requests, crashes, rollbacks and the completion move no goroutine but to
\* idle.
LEMMA OtherMoves ==
    ASSUME TypeInv, NEW k \in Instances,
           \/ \E i \in Instances : Requests(i)
           \/ \E t \in Txs : DeadlockVictim(t) \/ StatementFails(t)
           \/ CompleterStep \/ Tick \/ UNCHANGED vars
    PROVE  \/ pc'[k] = pc[k] /\ cur'[k] = cur[k] /\ scored'[k] = scored[k]
           \/ pc'[k] = "idle"
<1> USE DEF hubVars, txVars, endVars
<1>1. /\ pc \in [Instances -> PCs]
      /\ cur \in [Instances -> Items \cup {Idle}]
      /\ scored \in [Instances -> BOOLEAN]
  BY DEF TypeInv, TypeOK
<1>2. CASE UNCHANGED <<pc, cur, scored>>
  BY <1>2
<1>3. ASSUME NEW t \in Txs, RollBack(t)
      PROVE  \/ pc'[k] = pc[k] /\ cur'[k] = cur[k] /\ scored'[k] = scored[k]
             \/ pc'[k] = "idle"
  BY <1>1, <1>3 DEF RollBack, Done, Forget
<1>4. ASSUME NEW t \in Txs, DeadlockVictim(t) \/ StatementFails(t)
      PROVE  RollBack(t)
  BY <1>4 DEF DeadlockVictim, StatementFails
<1>5. ASSUME NEW i \in Instances, Requests(i)
      PROVE  UNCHANGED <<pc, cur, scored>> \/ (i \in Txs /\ RollBack(i))
  BY <1>5 DEF Requests, SubmitInRoom, JoinRoom, FirstQueryFails, Crash, Txs
<1>6. CASE CompleterStep \/ Tick \/ UNCHANGED vars
  <2>1. UNCHANGED <<pc, cur, scored>>
    BY <1>6 DEF CompleterStep, StartCompletion, CompleterLocks,
       CaptureRoomBoards, CaptureGuildBoard, CommitCompletion, Tick, vars
  <2> QED
    BY <1>2, <2>1
<1> QED
  BY <1>2, <1>3, <1>4, <1>5, <1>6

\* Without a commit of a score the solved problems and the points stay.
LEMMA NothingSolved ==
    ASSUME TypeInv, AttemptsHandledOnce, [Next]_vars,
           \A i \in Instances : ~CommitScore(i)
    PROVE  /\ \A s \in Submissions : sub'[s] = "accepted" <=> sub[s] = "accepted"
           /\ \A k : Solved(k)' <=> Solved(k)
           /\ credits' = credits
<1>1. \A s \in Submissions : sub'[s] = "accepted" <=> sub[s] = "accepted"
  BY AcceptedChange, AcceptedStays
<1>2. credits' = credits
  <2>1. CompleterStep => credits' = credits
    BY DEF CompleterStep, StartCompletion, CompleterLocks, CaptureRoomBoards,
       CaptureGuildBoard, CommitCompletion, dbVars
  <2> QED
    BY <2>1, EndChange DEF Neutral
<1> QED
  BY <1>1, <1>2 DEF Solved

\* The commit of a score: its attempt was pending, its problem was not solved.
LEMMA ScoreCommitted ==
    ASSUME TypeInv, CommitsAgree, CreditsAgree, NEW i \in Instances,
           CommitScore(i)
    PROVE  LET s == cur[i].sub IN
           /\ s \in Submissions /\ Key(s) \in Players \X Problems
           /\ ~Solved(Key(s)) /\ credits[Key(s)] = 0
           /\ pc[i] = "commit" /\ pc' = [pc EXCEPT ![i] = "idle"]
           /\ \A k \in Instances \ {i} : cur'[k] = cur[k] /\ scored'[k] = scored[k]
           /\ sub' = [sub EXCEPT ![s] = "accepted"]
           /\ credits' = IF scored[i] THEN [credits EXCEPT ![Key(s)] = 1]
                         ELSE credits
           /\ Player(s) \in Early => scored[i]
           /\ UNCHANGED <<status, board>>
<1> DEFINE s == cur[i].sub
<1>1. pc[i] = "commit"
  BY DEF CommitScore
<1>2. cur[i] \in Items /\ cur[i].kind = "result"
  BY <1>1 DEF TypeInv, CurrentItems
<1>3. s \in Submissions
  BY <1>2 DEF Items
<1>4. Key(s) \in Players \X Problems
  BY <1>3, ScoringAssumption DEF Key
<1>5. ~Solved(Key(s)) /\ (Player(s) \in Early => scored[i])
  BY <1>1, <1>2 DEF CommitsAgree
<1>6. credits[Key(s)] = 0
  BY <1>4, <1>5 DEF CreditsAgree
<1>7. credits' = IF scored[i] THEN [credits EXCEPT ![Key(s)] = 1] ELSE credits
  <2>1. credits' = IF scored[i] THEN [credits EXCEPT ![Key(s)] = credits[Key(s)] + 1]
                   ELSE credits
    BY DEF CommitScore, ApplyScore
  <2> QED
    BY <1>6, <2>1
<1>8. /\ pc' = [pc EXCEPT ![i] = "idle"]
      /\ \A k \in Instances \ {i} : cur'[k] = cur[k] /\ scored'[k] = scored[k]
  BY DEF CommitScore, Done, Forget, TypeInv, TypeOK
<1>9. sub' = [sub EXCEPT ![s] = "accepted"] /\ UNCHANGED <<status, board>>
  BY DEF CommitScore, ApplyScore
<1> QED
  BY <1>1, <1>3, <1>4, <1>5, <1>6, <1>7, <1>8, <1>9

\* The index and the rows keep transactions for one problem apart.
LEMMA CommitsAgreeNext ==
    ASSUME TypeInv, RoomLocks, AttemptsHandledOnce, CommitsAgree, CreditsAgree,
           [Next]_vars
    PROVE  CommitsAgree'
<1> DEFINE Unsolved(k) == ~Solved(Key(cur[k].sub))
           Knows == \A k \in Instances :
                       /\ pc'[k] = "rank" => cur'[k].kind = "joined"
                       /\ /\ pc'[k] \in {"add", "lock", "commit"}
                          /\ cur'[k].kind = "result"
                          /\ Player(cur'[k].sub) \in Early
                          => scored'[k]
           Alone == \A k, m \in Instances :
                       /\ pc'[k] = "commit" /\ pc'[m] = "commit"
                       /\ Key(cur'[k].sub) = Key(cur'[m].sub)
                       => k = m
           Fresh == \A k \in Instances : pc'[k] = "commit" =>
                       \A s \in Submissions :
                          sub'[s] = "accepted" => Key(s) # Key(cur'[k].sub)
<1>1. \A k \in Instances :
         /\ pc[k] = "commit" =>
               /\ \A s \in Submissions :
                     sub[s] = "accepted" => Key(s) # Key(cur[k].sub)
               /\ \A m \in Instances :
                     pc[m] = "commit" /\ Key(cur[m].sub) = Key(cur[k].sub) => m = k
         /\ pc[k] = "rank" => cur[k].kind = "joined"
         /\ /\ pc[k] \in {"add", "lock", "commit"}
            /\ cur[k].kind = "result"
            /\ Player(cur[k].sub) \in Early
            => scored[k]
  BY DEF CommitsAgree, Solved
<1>2. ASSUME NEW i \in Instances, CommitScore(i)
      PROVE  Knows /\ Alone /\ Fresh
  <2>1. /\ cur[i].sub \in Submissions
        /\ pc[i] = "commit" /\ pc' = [pc EXCEPT ![i] = "idle"]
        /\ \A k \in Instances \ {i} : cur'[k] = cur[k] /\ scored'[k] = scored[k]
        /\ sub' = [sub EXCEPT ![cur[i].sub] = "accepted"]
    BY <1>2, ScoreCommitted
  <2>2. /\ pc'[i] = "idle"
        /\ \A k \in Instances \ {i} : pc'[k] = pc[k]
        /\ \A s \in Submissions :
              sub'[s] = IF s = cur[i].sub THEN "accepted" ELSE sub[s]
    BY <2>1 DEF TypeInv, TypeOK
  <2>3. Knows
    BY <1>1, <2>1, <2>2
  <2>4. Alone
    BY <1>1, <2>1, <2>2
  <2>5. Fresh
    BY <1>1, <2>1, <2>2
  <2> QED
    BY <2>3, <2>4, <2>5
<1>3. ASSUME \A i \in Instances : ~CommitScore(i)
      PROVE  \A s \in Submissions : sub'[s] = "accepted" <=> sub[s] = "accepted"
  BY <1>3, NothingSolved
<1>4. ASSUME NEW i \in Instances, HubStep(i), ~CommitScore(i)
      PROVE  Knows /\ Alone
  <2>1. /\ \A k \in Instances \ {i} :
              pc'[k] = pc[k] /\ cur'[k] = cur[k] /\ scored'[k] = scored[k]
        /\ pc'[i] = "commit" =>
              /\ cur'[i] = cur[i]
              /\ \/ pc[i] = "commit"
                 \/ \A k \in Instances : ~IndexWaits(i, k)
        /\ pc'[i] = "rank" => cur'[i].kind = "joined"
        /\ /\ pc'[i] \in {"add", "lock", "commit"}
           /\ cur'[i].kind = "result"
           /\ Player(cur'[i].sub) \in Early
           => scored'[i]
    BY <1>4, HubMoves
  <2>2. Knows
    BY <1>1, <2>1
  <2>3. ASSUME NEW k \in Instances \ {i}, pc'[i] = "commit", pc'[k] = "commit"
        PROVE  Key(cur'[k].sub) # Key(cur'[i].sub)
    BY <1>1, <2>1, <2>3 DEF IndexWaits
  <2>4. Alone
    BY <1>1, <2>1, <2>3
  <2> QED
    BY <2>2, <2>4
<1>5. ASSUME NEW i \in Instances, HubStep(i), \A k \in Instances : ~CommitScore(k)
      PROVE  Fresh
  <2>1. /\ \A k \in Instances \ {i} : pc'[k] = pc[k] /\ cur'[k] = cur[k]
        /\ pc'[i] = "commit" =>
              cur'[i] = cur[i] /\ (pc[i] = "commit" \/ Unsolved(i))
    BY <1>5, HubMoves
  <2> QED
    BY <1>1, <1>3, <1>5, <2>1 DEF Solved
<1>6. CASE \A i \in Instances : ~HubStep(i)
  <2>1. \A k \in Instances :
           \/ pc'[k] = pc[k] /\ cur'[k] = cur[k] /\ scored'[k] = scored[k]
           \/ pc'[k] = "idle"
    BY <1>6, OtherMoves, NextCases
  <2>2. \A i \in Instances : ~CommitScore(i)
    BY <1>6 DEF HubStep
  <2>3. Knows /\ Alone
    BY <1>1, <2>1
  <2>4. Fresh
    BY <1>1, <1>3, <2>1, <2>2
  <2> QED
    BY <2>3, <2>4 DEF CommitsAgree, Solved
<1>7. CASE \E i \in Instances : HubStep(i)
  <2>1. CASE \E i \in Instances : CommitScore(i)
    <3>1. Knows /\ Alone /\ Fresh
      BY <1>2, <2>1
    <3> QED
      BY <3>1 DEF CommitsAgree, Solved
  <2>2. CASE \A i \in Instances : ~CommitScore(i)
    <3>1. Knows /\ Alone /\ Fresh
      BY <1>4, <1>5, <1>7, <2>2
    <3> QED
      BY <3>1 DEF CommitsAgree, Solved
  <2> QED
    BY <2>1, <2>2
<1> QED
  BY <1>6, <1>7

\* Points and accepted submissions change together.
LEMMA CreditsAgreeNext ==
    ASSUME TypeInv, AttemptsHandledOnce, CommitsAgree, CreditsAgree, [Next]_vars
    PROVE  CreditsAgree'
<1>1. CASE \A i \in Instances : ~CommitScore(i)
  BY <1>1, NothingSolved DEF CreditsAgree
<1>2. ASSUME NEW i \in Instances, CommitScore(i)
      PROVE  CreditsAgree'
  <2> DEFINE s == cur[i].sub
  <2>1. /\ s \in Submissions /\ Key(s) \in Players \X Problems
        /\ ~Solved(Key(s)) /\ credits[Key(s)] = 0
        /\ sub' = [sub EXCEPT ![s] = "accepted"]
        /\ credits' = IF scored[i] THEN [credits EXCEPT ![Key(s)] = 1]
                      ELSE credits
        /\ Player(s) \in Early => scored[i]
    BY <1>2, ScoreCommitted
  <2>2. Player(s) = Key(s)[1]
    BY DEF Player, Key
  <2> HIDE DEF s
  <2>3. \A r \in Submissions : sub'[r] = IF r = s THEN "accepted" ELSE sub[r]
    BY <2>1 DEF TypeInv, TypeOK
  <2>4. \A k \in Players \X Problems :
           credits'[k] = IF k = Key(s) /\ scored[i] THEN 1 ELSE credits[k]
    BY <2>1 DEF TypeInv, TypeOK
  <2>5. \A r \in Submissions : sub[r] = "accepted" => Key(r) # Key(s)
    BY <2>1 DEF Solved
  <2>6. \A r, q \in Submissions :
           sub'[r] = "accepted" /\ sub'[q] = "accepted" /\ Key(r) = Key(q) => r = q
    BY <2>3, <2>5 DEF CreditsAgree
  <2>7. \A k : Solved(k)' <=> Solved(k) \/ k = Key(s)
    BY <2>1, <2>3 DEF Solved
  <2>8. \A k \in Players \X Problems :
           /\ credits'[k] # 0 => credits'[k] = 1 /\ Solved(k)'
           /\ k[1] \in Early /\ Solved(k)' => credits'[k] = 1
    <3>1. \A k \in Players \X Problems :
             /\ credits[k] # 0 => credits[k] = 1 /\ Solved(k)
             /\ k[1] \in Early /\ Solved(k) => credits[k] = 1
      BY DEF CreditsAgree
    <3>2. Key(s)[1] \in Early => scored[i]
      BY <2>1, <2>2
    <3> QED
      BY <2>1, <2>4, <2>7, <3>1, <3>2
  <2> QED
    BY <2>6, <2>8 DEF CreditsAgree
<1> QED
  BY <1>1, <1>2

\* The three claims hold initially.
LEMMA SolvedInit ==
    ASSUME Init PROVE AttemptsHandledOnce /\ CommitsAgree /\ CreditsAgree
<1>1. \A i \in Instances : queue[i] = <<>> /\ cur[i] = Idle /\ pc[i] = "idle"
  BY DEF Init
<1>2. \A s \in Submissions : sub[s] = "none"
  BY DEF Init
<1>3. AttemptsHandledOnce
  <2>1. \A i \in Instances, s \in Submissions : ~About(cur[i], s)
    BY <1>1 DEF About, Idle
  <2>2. \A i \in Instances : \A n \in 1 .. Len(queue[i]) : FALSE
    BY <1>1
  <2> QED
    BY <1>2, <2>1, <2>2 DEF AttemptsHandledOnce
<1>4. CommitsAgree
  BY <1>1 DEF CommitsAgree
<1>5. CreditsAgree
  <2>1. \A k \in Players \X Problems : credits[k] = 0
    BY DEF Init, NoCredits
  <2> QED
    BY <1>2, <2>1 DEF CreditsAgree, Solved
<1> QED
  BY <1>3, <1>4, <1>5

\* Every step keeps them, in every room.
LEMMA SolvedStep ==
    ASSUME TypeInv, RoomLocks, AttemptsHandledOnce, CommitsAgree, CreditsAgree,
           [Next]_vars
    PROVE  AttemptsHandledOnce' /\ CommitsAgree' /\ CreditsAgree'
BY AttemptsNext, CommitsAgreeNext, CreditsAgreeNext

-------------------------------------------------------------------------------
(* The invariant and the theorems                                          *)

\* The invariant holds initially.
LEMMA InvInit == ASSUME Init PROVE IInv
<1>1. TypeInv
  BY TypeInit
<1>2. RoomLocks /\ OpenTransactions /\ FinalBoardsExact
  BY DEF Init, RoomLocks, OpenTransactions, FinalBoardsExact
<1> QED
  BY <1>1, <1>2, SolvedInit DEF IInv, TypeInv

\* Every step keeps the invariant, in a room with a player.
LEMMA InvStep == ASSUME Early # {}, IInv, [Next]_vars PROVE IInv'
<1>1. /\ TypeInv /\ RoomLocks /\ EndInv
      /\ AttemptsHandledOnce /\ CommitsAgree /\ CreditsAgree
  BY DEF IInv, TypeInv, EndInv
<1>2. TypeInv'
  BY <1>1, TypeStep
<1>3. RoomLocks'
  BY <1>1, RoomLocksStep
<1>4. EndInv'
  BY <1>1, EndStep
<1>5. AttemptsHandledOnce' /\ CommitsAgree' /\ CreditsAgree'
  BY <1>1, SolvedStep
<1> QED
  BY <1>2, <1>3, <1>4, <1>5 DEF IInv, TypeInv, EndInv

\* The inductive invariant, in a room where somebody is present.
THEOREM Invariant == ASSUME Early # {} PROVE Spec => []IInv
<1>1. Init => IInv
  BY InvInit
<1>2. IInv /\ [Next]_vars => IInv'
  BY InvStep
<1> QED
  BY <1>1, <1>2, PTL DEF Spec

\* Both final boards hold every point given, whatever commits around the end.
THEOREM FinalBoardsCorrect == ASSUME Early # {} PROVE Spec => []FinalBoardsExact
<1>1. IInv => FinalBoardsExact
  BY DEF IInv
<1> QED
  BY <1>1, Invariant, PTL

\* Nothing is accepted once the event is completed.
THEOREM NoLateAcceptance == ASSUME Early # {} PROVE Spec => NoneAcceptedAfterEnd
<1>1. IInv /\ [Next]_vars =>
         [status = "completed" =>
            \A s \in Submissions : sub'[s] = "accepted" => sub[s] = "accepted"]_vars
  <2> SUFFICES ASSUME IInv, [Next]_vars, status = "completed"
               PROVE  \A s \in Submissions :
                         sub'[s] = "accepted" => sub[s] = "accepted"
    OBVIOUS
  <2>1. \A i \in Instances : pc[i] # "commit"
    BY DEF IInv, OpenTransactions
  <2>2. \A i \in Instances : ~CommitScore(i)
    BY <2>1 DEF CommitScore
  <2>3. TypeInv
    BY DEF IInv, TypeInv
  <2> QED
    BY <2>2, <2>3, AcceptedChange
<1> QED
  BY <1>1, Invariant, PTL DEF Spec, NoneAcceptedAfterEnd

\* What holds in every room, with players or without.
SolvedInv ==
    TypeInv /\ RoomLocks /\ AttemptsHandledOnce /\ CommitsAgree /\ CreditsAgree

\* One accepted submission, or none, has the points.
LEMMA SolvedOnceHolds ==
    ASSUME TypeInv, CreditsAgree PROVE SolvedOnceScoredOnce
<1> SUFFICES ASSUME NEW k \in Players \X Problems
             PROVE  LET n == Cardinality(Accepted(k)) IN
                    /\ n <= 1
                    /\ credits[k] <= n
                    /\ k[1] \in Early => credits[k] = n
  BY DEF SolvedOnceScoredOnce
<1>1. /\ credits[k] \in Nat
      /\ credits[k] # 0 => credits[k] = 1 /\ Solved(k)
      /\ k[1] \in Early /\ Solved(k) => credits[k] = 1
  BY DEF CreditsAgree, TypeInv, TypeOK
<1>2. CASE Solved(k)
  <2>1. PICK s \in Submissions : Key(s) = k /\ sub[s] = "accepted"
    BY <1>2 DEF Solved
  <2>2. Accepted(k) = {s}
    BY <2>1 DEF Accepted, CreditsAgree
  <2>3. Cardinality(Accepted(k)) = 1
    BY <2>2, FS_Singleton
  <2> QED
    BY <1>1, <1>2, <2>3
<1>3. CASE ~Solved(k)
  <2>1. Accepted(k) = {}
    BY <1>3 DEF Accepted, Solved
  <2>2. Cardinality(Accepted(k)) = 0
    BY <2>1, FS_EmptySet
  <2> QED
    BY <1>1, <1>3, <2>2
<1> QED
  BY <1>2, <1>3

\* However many instances judge correct attempts at once, a player solves a

\* problem once and gets its points once, in every room.
THEOREM SolvedOnce == Spec => []SolvedOnceScoredOnce
<1>1. Init => SolvedInv
  BY TypeInit, SolvedInit DEF SolvedInv, Init, RoomLocks
<1>2. SolvedInv /\ [Next]_vars => SolvedInv'
  BY TypeStep, RoomLocksStep, SolvedStep DEF SolvedInv
<1>3. SolvedInv => SolvedOnceScoredOnce
  BY SolvedOnceHolds DEF SolvedInv
<1> QED
  BY <1>1, <1>2, <1>3, PTL DEF Spec

\* The commit of a score solves a problem.
LEMMA CommitSolves ==
    ASSUME TypeInv, CommitsAgree, CreditsAgree, OpenTransactions,
           NEW i \in Instances, CommitScore(i)
    PROVE  \E s \in Submissions : Outcome!Solve(s)
<1>0. cur[i].sub \in Submissions
  BY ScoreCommitted
<1> PICK s \in Submissions : s = cur[i].sub
  BY <1>0
<1>1. /\ ~Solved(Key(s))
      /\ pc[i] = "commit"
      /\ sub' = [sub EXCEPT ![s] = "accepted"]
      /\ credits' = IF scored[i] THEN [credits EXCEPT ![Key(s)] = 1]
                    ELSE credits
      /\ Player(s) \in Early => scored[i]
      /\ UNCHANGED <<status, board>>
  BY ScoreCommitted
<1>2. status = "active"
  BY <1>1 DEF OpenTransactions
<1>3. \A r \in Submissions : sub'[r] = IF r = s THEN "accepted" ELSE sub[r]
  BY <1>1 DEF TypeInv, TypeOK
<1>4. {r \in Submissions : sub'[r] = "accepted"}
        = {r \in Submissions : sub[r] = "accepted"} \cup {s}
  BY <1>1, <1>3
<1>5. \A r \in {q \in Submissions : sub[q] = "accepted"} : <<r[1], r[2]>> # <<s[1], s[2]>>
  BY <1>1 DEF Solved, Key
<1>6. \/ credits' = [credits EXCEPT ![<<s[1], s[2]>>] = 1]
      \/ s[1] \notin Early /\ UNCHANGED credits
  BY <1>1 DEF Key, Player
<1>7. Outcome!Solve(s)
  BY <1>1, <1>2, <1>4, <1>5, <1>6 DEF Outcome!Solve
<1> QED
  BY <1>7

\* Every step is one of ScoreOutcome, or nothing to it.
LEMMA OutcomeStep ==
    ASSUME IInv, [Next]_vars
    PROVE  [Outcome!OutcomeNext]_(Outcome!outcomeVars)
<1>1. TypeInv /\ AttemptsHandledOnce /\ CommitsAgree /\ CreditsAgree /\ OpenTransactions
  BY DEF IInv, TypeInv
<1>2. CASE \E i \in Instances : CommitScore(i)
  BY <1>1, <1>2, CommitSolves DEF Outcome!OutcomeNext
<1>3. CASE CommitCompletion
  <2>1. /\ completer = "commit" /\ status' = "completed" /\ board' = capture
        /\ UNCHANGED <<sub, credits>>
    BY <1>3 DEF CommitCompletion
  <2>2. status = "active"
    BY <1>1, <2>1 DEF OpenTransactions
  <2>3. capture = [b \in Boards |-> credits]
    BY <1>1, <2>1 DEF OpenTransactions, Boards, TypeInv, TypeOK
  <2>4. Outcome!Close
    BY <2>1, <2>2, <2>3 DEF Outcome!Close
  <2> QED
    BY <2>4 DEF Outcome!OutcomeNext
<1>4. CASE CompleterStep /\ ~CommitCompletion
  <2>1. UNCHANGED <<status, sub, credits, board>>
    BY <1>4 DEF CompleterStep, StartCompletion, CompleterLocks, CaptureRoomBoards,
       CaptureGuildBoard, dbVars
  <2> QED
    BY <2>1 DEF Outcome!outcomeVars
<1>5. CASE Neutral /\ \A i \in Instances : ~CommitScore(i)
  <2>1. UNCHANGED <<status, credits, board>>
    BY <1>5 DEF Neutral
  <2>2. \A s \in Submissions : sub'[s] = "accepted" <=> sub[s] = "accepted"
    BY <1>1, <1>5, NothingSolved
  <2>3. {s \in Submissions : sub'[s] = "accepted"} = {s \in Submissions : sub[s] = "accepted"}
    BY <2>2
  <2> QED
    BY <2>1, <2>3 DEF Outcome!outcomeVars
<1> QED
  BY <1>1, <1>2, <1>3, <1>4, <1>5, EndChange

\* Rooms score as ScoreOutcome promises: each problem is solved once, with its

\* points in the same step, and the boards of the end hold all of them.
THEOREM Refinement == ASSUME Early # {} PROVE Spec => ImplementsScoreOutcome
<1>1. Init => Outcome!OutcomeInit
  <2> SUFFICES ASSUME Init PROVE Outcome!OutcomeInit
    OBVIOUS
  <2>1. {s \in Submissions : sub[s] = "accepted"} = {}
    BY DEF Init
  <2>2. /\ status # "completed"
        /\ credits = [k \in Players \X Problems |-> 0]
        /\ board = [b \in Boards |-> credits]
    BY DEF Init, NoBoards, NoCredits
  <2> QED
    BY <2>1, <2>2 DEF Outcome!OutcomeInit
<1>2. IInv /\ [Next]_vars => [Outcome!OutcomeNext]_(Outcome!outcomeVars)
  BY OutcomeStep
<1> QED
  BY <1>1, <1>2, Invariant, PTL DEF Spec, ImplementsScoreOutcome, Outcome!OutcomeSpec

=============================================================================
