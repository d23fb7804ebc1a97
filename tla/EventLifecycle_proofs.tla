------------------------- MODULE EventLifecycle_proofs -------------------------
(* Proofs of the safety properties of EventLifecycle.                      *)
EXTENDS EventLifecycle, TLAPS

\* The initial state is well typed.
LEMMA TypeInit == Init => TypeOK
  BY DEF Init, TypeOK, PCs, InTransaction, Jobs

\* A step of a job keeps every variable in its type.
LEMMA TypeJob ==
    ASSUME TypeOK, NEW j \in Jobs,
           JobStart(j) \/ JobStep(j) \/ JobFailure(j)
    PROVE  TypeOK'
<1> USE LifecycleAssumption DEF TypeOK, Jobs, Inst, Ev, PCs, InTransaction,
        Assigning, Completing, Goto, Unlock, dbVars, instVars, outVars, bounds
<1>1. CASE StartPendingEvents(j)
  BY <1>1 DEF StartPendingEvents
<1>2. CASE TimerFires(j)
  BY <1>2 DEF TimerFires
<1>3. CASE CheckAndCompleteExpiredEvents(j)
  BY <1>3 DEF CheckAndCompleteExpiredEvents
<1>4. CASE UpdateEventStatusToActive(j)
  <2>1. rowLock' \in [Events -> Jobs \cup {None}]
    BY <1>4 DEF UpdateEventStatusToActive
  <2>2. pc' \in [Jobs -> PCs]
    BY <1>4 DEF UpdateEventStatusToActive
  <2> QED BY <1>4, <2>1, <2>2 DEF UpdateEventStatusToActive
<1>5. CASE AssignGuilds(j)
  <2>1. timers' \in [Instances \X Events -> Nat]
    <3> DEFINE w == <<Inst(j), Ev(j)>>
    <3>1. w \in Instances \X Events
      OBVIOUS
    <3>2. \/ timers' = timers
          \/ timers' = [timers EXCEPT ![w] = @ + 1]
      BY <1>5 DEF AssignGuilds, ScheduleEventExpiry
    <3> HIDE DEF w
    <3> QED BY <3>1, <3>2
  <2> QED BY <1>5, <2>1 DEF AssignGuilds
<1>6. CASE CommitAssignment(j)
  BY <1>6 DEF CommitAssignment, ApplyAssignment
<1>7. CASE UpdateEventStatusToCompleted(j)
  <2>1. rowLock' \in [Events -> Jobs \cup {None}]
    BY <1>7 DEF UpdateEventStatusToCompleted
  <2>2. pc' \in [Jobs -> PCs]
    BY <1>7 DEF UpdateEventStatusToCompleted
  <2> QED BY <1>7, <2>1, <2>2 DEF UpdateEventStatusToCompleted
<1>8. CASE UpdateRoomPlayerStates(j)
  BY <1>8 DEF UpdateRoomPlayerStates
<1>9. CASE CaptureFinalRoomLeaderboards(j)
  BY <1>9 DEF CaptureFinalRoomLeaderboards
<1>10. CASE CaptureFinalGuildLeaderboard(j)
  BY <1>10 DEF CaptureFinalGuildLeaderboard
<1>11. CASE CommitAborted(j)
  BY <1>11 DEF CommitAborted
<1>12. CASE CommitCompletion(j)
  <2>1. granting' \subseteq Instances \X Events \X Rewards
    BY <1>12 DEF CommitCompletion
  <2> QED BY <1>12, <2>1 DEF CommitCompletion, ApplyCompletion
<1>13. CASE PublishEventExpired(j)
  BY <1>13 DEF PublishEventExpired, AfterPublish, BoundQueues
<1>14. CASE GuildCaptureFails(j)
  BY <1>14 DEF GuildCaptureFails, Fail
<1>15. CASE StatementFails(j)
  BY <1>15 DEF StatementFails, Fail
<1>16. CASE CommitFails(j)
  BY <1>16 DEF CommitFails, Fail
<1>17. CASE CommitUnacknowledged(j)
  <2>1. CASE ApplyAssignment(Ev(j))
    BY <1>17, <2>1 DEF CommitUnacknowledged, Fail, ApplyAssignment
  <2>2. CASE ApplyCompletion(Ev(j))
    BY <1>17, <2>2 DEF CommitUnacknowledged, Fail, ApplyCompletion
  <2> QED BY <1>17, <2>1, <2>2 DEF CommitUnacknowledged
<1>18. CASE PublishFails(j)
  BY <1>18 DEF PublishFails
<1>19. CASE PublishCancelled(j)
  BY <1>19 DEF PublishCancelled, Fail
<1> QED
  BY <1>1, <1>2, <1>3, <1>4, <1>5, <1>6, <1>7, <1>8, <1>9, <1>10, <1>11,
     <1>12, <1>13, <1>14, <1>15, <1>16, <1>17, <1>18, <1>19
     DEF JobStart, JobStep, JobFailure

\* The clock, the brokers' queues, rewards, crashes and restarts.
EnvironmentStep ==
    \/ \E e \in Events : Tick(e)
    \/ \E w \in Instances \X Events : HandleEventExpired(w)
    \/ \E w \in Instances \X Events \X Rewards :
          GrantRewards(w) \/ GrantRewardsFails(w)
    \/ \E i \in Instances :
          Crash(i) \/ Restart(i) \/ RecoverActiveEvents(i) \/ RecoveryFails(i)

\* The clock, the broker, the rewards and the instances keep the types.
LEMMA TypeEnvironment ==
    ASSUME TypeOK, EnvironmentStep
    PROVE  TypeOK'
<1> USE LifecycleAssumption DEF TypeOK, dbVars, instVars, outVars, bounds, Fail
<1>1. ASSUME NEW e \in Events, Tick(e) PROVE TypeOK'
  BY <1>1 DEF Tick
<1>2. ASSUME NEW w \in Instances \X Events, HandleEventExpired(w)
      PROVE  TypeOK'
  BY <1>2 DEF HandleEventExpired
<1>3. ASSUME NEW w \in Instances \X Events \X Rewards, GrantRewards(w)
      PROVE  TypeOK'
  <2> DEFINE v == <<w[2], w[3]>>
  <2>1. v \in Events \X Rewards
    OBVIOUS
  <2>2. granted' = [granted EXCEPT ![v] = @ + 1]
    BY <1>3 DEF GrantRewards
  <2> HIDE DEF v
  <2>3. granted' \in [Events \X Rewards -> Nat]
    BY <2>1, <2>2
  <2> QED
    BY <1>3, <2>3 DEF GrantRewards
<1>4. ASSUME NEW w \in Instances \X Events \X Rewards, GrantRewardsFails(w)
      PROVE  TypeOK'
  BY <1>4 DEF GrantRewardsFails
<1>5. ASSUME NEW i \in Instances, Crash(i) PROVE TypeOK'
  <2>1. pc' \in [Jobs -> PCs]
    BY <1>5 DEF Crash, PCs
  <2>2. rowLock' \in [Events -> Jobs \cup {None}]
    BY <1>5 DEF Crash
  <2>3. inbox' \subseteq up' \X Events
    BY <1>5 DEF Crash
  <2>4. recovering' \subseteq up' /\ up' \subseteq Instances
    BY <1>5 DEF Crash
  <2>5. timers' \in [Instances \X Events -> Nat]
    BY <1>5 DEF Crash
  <2>6. received' \in [Instances \X Events -> Nat]
    BY <1>5 DEF Crash
  <2> QED
    BY <1>5, <2>1, <2>2, <2>3, <2>4, <2>5, <2>6 DEF Crash
<1>6. ASSUME NEW i \in Instances, Restart(i) PROVE TypeOK'
  BY <1>6 DEF Restart
<1>7. ASSUME NEW i \in Instances, RecoverActiveEvents(i) PROVE TypeOK'
  BY <1>7 DEF RecoverActiveEvents
<1>8. ASSUME NEW i \in Instances, RecoveryFails(i) PROVE TypeOK'
  BY <1>8 DEF RecoveryFails
<1> QED
  BY <1>1, <1>2, <1>3, <1>4, <1>5, <1>6, <1>7, <1>8 DEF EnvironmentStep

\* A step is one of a job, one of what surrounds the jobs, or a stutter.
LEMMA NextCases ==
    ASSUME [Next]_vars
    PROVE  \/ \E j \in Jobs : JobStart(j) \/ JobStep(j) \/ JobFailure(j)
           \/ EnvironmentStep
           \/ UNCHANGED vars
BY DEF Next, EnvironmentStep

\* Every step keeps the types.
LEMMA TypeStep == ASSUME TypeOK, [Next]_vars PROVE TypeOK'
<1>1. CASE UNCHANGED vars
  BY <1>1 DEF TypeOK, vars, dbVars, instVars, outVars, bounds
<1> QED
  BY <1>1, TypeJob, TypeEnvironment, NextCases

\* Every variable keeps its type (TypeOK of EventLifecycle).
THEOREM TypeCorrect == Spec => []TypeOK
<1>1. TypeOK /\ [Next]_vars => TypeOK'
  BY TypeStep
<1> QED
  BY <1>1, TypeInit, PTL DEF Spec

\* The steps of a job keep each row locked by the transaction that wrote it.
LEMMA RowLocksJob ==
    ASSUME TypeOK, RowLocks, NEW j \in Jobs,
           JobStart(j) \/ JobStep(j) \/ JobFailure(j)
    PROVE  RowLocks'
<1> USE LifecycleAssumption DEF RowLocks, TypeOK, Jobs, Inst, Ev, PCs, InTransaction,
        Assigning, Completing, Goto, Unlock, dbVars, instVars, outVars
<1>1. CASE StartPendingEvents(j)
  BY <1>1 DEF StartPendingEvents
<1>2. CASE TimerFires(j)
  BY <1>2 DEF TimerFires
<1>3. CASE CheckAndCompleteExpiredEvents(j)
  BY <1>3 DEF CheckAndCompleteExpiredEvents, ExpiredActive
<1>4. CASE UpdateEventStatusToActive(j)
  <2>1. CASE pc' = [pc EXCEPT ![j] = "idle"] /\ UNCHANGED rowLock
    BY <1>4, <2>1 DEF UpdateEventStatusToActive
  <2>2. CASE FindsRow(j, "pending") /\ rowLock' = [rowLock EXCEPT ![j[3]] = j]
             /\ pc' = [pc EXCEPT ![j] = "a_assign"]
    <3>1. rowLock[j[3]] = None /\ status[j[3]] = "pending" /\ status' = status
      BY <1>4, <2>2 DEF UpdateEventStatusToActive, FindsRow
    <3>2. \A k \in Jobs : k[3] = j[3] => pc[k] \notin InTransaction
      BY <3>1
    <3> QED
      BY <2>2, <3>1, <3>2
  <2> QED
    BY <1>4, <2>1, <2>2 DEF UpdateEventStatusToActive
<1>5. CASE AssignGuilds(j)
  BY <1>5 DEF AssignGuilds, ScheduleEventExpiry
<1>6. CASE CommitAssignment(j)
  BY <1>6 DEF CommitAssignment, ApplyAssignment
<1>7. CASE UpdateEventStatusToCompleted(j)
  <2>1. CASE pc' = [pc EXCEPT ![j] = "idle"] /\ UNCHANGED rowLock
    BY <1>7, <2>1 DEF UpdateEventStatusToCompleted
  <2>2. CASE FindsRow(j, "active") /\ rowLock' = [rowLock EXCEPT ![j[3]] = j]
             /\ pc' = [pc EXCEPT ![j] = "c_players"]
    <3>1. rowLock[j[3]] = None /\ status[j[3]] = "active" /\ status' = status
      BY <1>7, <2>2 DEF UpdateEventStatusToCompleted, FindsRow
    <3>2. \A k \in Jobs : k[3] = j[3] => pc[k] \notin InTransaction
      BY <3>1
    <3> QED
      BY <2>2, <3>1, <3>2
  <2> QED
    BY <1>7, <2>1, <2>2 DEF UpdateEventStatusToCompleted
<1>8. CASE UpdateRoomPlayerStates(j)
  BY <1>8 DEF UpdateRoomPlayerStates
<1>9. CASE CaptureFinalRoomLeaderboards(j)
  BY <1>9 DEF CaptureFinalRoomLeaderboards
<1>10. CASE CaptureFinalGuildLeaderboard(j)
  BY <1>10 DEF CaptureFinalGuildLeaderboard
<1>11. CASE CommitAborted(j)
  BY <1>11 DEF CommitAborted
<1>12. CASE CommitCompletion(j)
  BY <1>12 DEF CommitCompletion, ApplyCompletion
<1>13. CASE PublishEventExpired(j)
  BY <1>13 DEF PublishEventExpired, AfterPublish, BoundQueues
<1>14. CASE GuildCaptureFails(j)
  BY <1>14 DEF GuildCaptureFails
<1>15. CASE StatementFails(j)
  BY <1>15 DEF StatementFails
<1>16. CASE CommitFails(j)
  BY <1>16 DEF CommitFails
<1>17. CASE CommitUnacknowledged(j)
  BY <1>17 DEF CommitUnacknowledged, ApplyAssignment, ApplyCompletion
<1>18. CASE PublishFails(j)
  BY <1>18 DEF PublishFails
<1>19. CASE PublishCancelled(j)
  BY <1>19 DEF PublishCancelled
<1> QED
  BY <1>1, <1>2, <1>3, <1>4, <1>5, <1>6, <1>7, <1>8, <1>9, <1>10, <1>11, <1>12, <1>13, <1>14, <1>15, <1>16, <1>17, <1>18, <1>19
     DEF JobStart, JobStep, JobFailure

\* A job gets past its guard only after the date it waits for.
LEMMA DatesJob ==
    ASSUME TypeOK, DatesPassed, NEW j \in Jobs,
           JobStart(j) \/ JobStep(j) \/ JobFailure(j)
    PROVE  DatesPassed'
<1> USE LifecycleAssumption DEF DatesPassed, TypeOK, Jobs, Inst, Ev, PCs, InTransaction,
        Assigning, Completing, Goto, Unlock, dbVars, instVars, outVars
<1>1. CASE StartPendingEvents(j)
  BY <1>1 DEF StartPendingEvents, PendingForAssignment
<1>2. CASE TimerFires(j)
  BY <1>2 DEF TimerFires
<1>3. CASE CheckAndCompleteExpiredEvents(j)
  BY <1>3 DEF CheckAndCompleteExpiredEvents, ExpiredActive
<1>4. CASE UpdateEventStatusToActive(j)
  BY <1>4 DEF UpdateEventStatusToActive, FindsRow, MissesRow
<1>5. CASE AssignGuilds(j)
  BY <1>5 DEF AssignGuilds, ScheduleEventExpiry
<1>6. CASE CommitAssignment(j)
  BY <1>6 DEF CommitAssignment, ApplyAssignment
<1>7. CASE UpdateEventStatusToCompleted(j)
  BY <1>7 DEF UpdateEventStatusToCompleted, FindsRow, MissesRow
<1>8. CASE UpdateRoomPlayerStates(j)
  BY <1>8 DEF UpdateRoomPlayerStates
<1>9. CASE CaptureFinalRoomLeaderboards(j)
  BY <1>9 DEF CaptureFinalRoomLeaderboards
<1>10. CASE CaptureFinalGuildLeaderboard(j)
  BY <1>10 DEF CaptureFinalGuildLeaderboard
<1>11. CASE CommitAborted(j)
  BY <1>11 DEF CommitAborted
<1>12. CASE CommitCompletion(j)
  BY <1>12 DEF CommitCompletion, ApplyCompletion
<1>13. CASE PublishEventExpired(j)
  BY <1>13 DEF PublishEventExpired, AfterPublish, BoundQueues
<1>14. CASE GuildCaptureFails(j)
  BY <1>14 DEF GuildCaptureFails
<1>15. CASE StatementFails(j)
  BY <1>15 DEF StatementFails
<1>16. CASE CommitFails(j)
  BY <1>16 DEF CommitFails
<1>17. CASE CommitUnacknowledged(j)
  BY <1>17 DEF CommitUnacknowledged, ApplyAssignment, ApplyCompletion
<1>18. CASE PublishFails(j)
  BY <1>18 DEF PublishFails
<1>19. CASE PublishCancelled(j)
  BY <1>19 DEF PublishCancelled
<1> QED
  BY <1>1, <1>2, <1>3, <1>4, <1>5, <1>6, <1>7, <1>8, <1>9, <1>10, <1>11, <1>12, <1>13, <1>14, <1>15, <1>16, <1>17, <1>18, <1>19
     DEF JobStart, JobStep, JobFailure

\* Jobs, timers and reward goroutines live in instances that are up.
LEMMA UpJob ==
    ASSUME TypeOK, OnlyUpInstancesRun, NEW j \in Jobs,
           JobStart(j) \/ JobStep(j) \/ JobFailure(j)
    PROVE  OnlyUpInstancesRun'
<1> USE LifecycleAssumption DEF OnlyUpInstancesRun, TypeOK, Jobs, Inst, Ev, PCs, InTransaction,
        Assigning, Completing, Goto, Unlock, dbVars, instVars, outVars
<1>1. CASE StartPendingEvents(j)
  BY <1>1 DEF StartPendingEvents
<1>2. CASE TimerFires(j)
  BY <1>2 DEF TimerFires
<1>3. CASE CheckAndCompleteExpiredEvents(j)
  BY <1>3 DEF CheckAndCompleteExpiredEvents, ExpiredActive
<1>4. CASE UpdateEventStatusToActive(j)
  BY <1>4 DEF UpdateEventStatusToActive, FindsRow, MissesRow
<1>5. CASE AssignGuilds(j)
  BY <1>5 DEF AssignGuilds, ScheduleEventExpiry
<1>6. CASE CommitAssignment(j)
  BY <1>6 DEF CommitAssignment, ApplyAssignment
<1>7. CASE UpdateEventStatusToCompleted(j)
  BY <1>7 DEF UpdateEventStatusToCompleted, FindsRow, MissesRow
<1>8. CASE UpdateRoomPlayerStates(j)
  BY <1>8 DEF UpdateRoomPlayerStates
<1>9. CASE CaptureFinalRoomLeaderboards(j)
  BY <1>9 DEF CaptureFinalRoomLeaderboards
<1>10. CASE CaptureFinalGuildLeaderboard(j)
  BY <1>10 DEF CaptureFinalGuildLeaderboard
<1>11. CASE CommitAborted(j)
  BY <1>11 DEF CommitAborted
<1>12. CASE CommitCompletion(j)
  BY <1>12 DEF CommitCompletion, ApplyCompletion
<1>13. CASE PublishEventExpired(j)
  BY <1>13 DEF PublishEventExpired, AfterPublish, BoundQueues
<1>14. CASE GuildCaptureFails(j)
  BY <1>14 DEF GuildCaptureFails
<1>15. CASE StatementFails(j)
  BY <1>15 DEF StatementFails
<1>16. CASE CommitFails(j)
  BY <1>16 DEF CommitFails
<1>17. CASE CommitUnacknowledged(j)
  BY <1>17 DEF CommitUnacknowledged, ApplyAssignment, ApplyCompletion
<1>18. CASE PublishFails(j)
  BY <1>18 DEF PublishFails
<1>19. CASE PublishCancelled(j)
  BY <1>19 DEF PublishCancelled
<1> QED
  BY <1>1, <1>2, <1>3, <1>4, <1>5, <1>6, <1>7, <1>8, <1>9, <1>10, <1>11, <1>12, <1>13, <1>14, <1>15, <1>16, <1>17, <1>18, <1>19
     DEF JobStart, JobStep, JobFailure

\* Only a crash ends transactions from outside, all those of its instance.
LEMMA RowLocksEnvironment ==
    ASSUME TypeOK, RowLocks, EnvironmentStep
    PROVE  RowLocks'
<1> USE LifecycleAssumption DEF RowLocks, TypeOK, Jobs, Inst, Ev, PCs, InTransaction,
        Assigning, Completing, Goto, Unlock, dbVars, instVars, outVars
<1>1. ASSUME NEW e \in Events, Tick(e) PROVE RowLocks'
  BY <1>1 DEF Tick
<1>2. ASSUME NEW w \in Instances \X Events, HandleEventExpired(w) PROVE RowLocks'
  BY <1>2 DEF HandleEventExpired
<1>3. ASSUME NEW w \in Instances \X Events \X Rewards, GrantRewards(w) PROVE RowLocks'
  BY <1>3 DEF GrantRewards
<1>4. ASSUME NEW w \in Instances \X Events \X Rewards, GrantRewardsFails(w) PROVE RowLocks'
  BY <1>4 DEF GrantRewardsFails
<1>5. ASSUME NEW i \in Instances, Crash(i) PROVE RowLocks'
  BY <1>5 DEF Crash
<1>6. ASSUME NEW i \in Instances, Restart(i) PROVE RowLocks'
  BY <1>6 DEF Restart
<1>7. ASSUME NEW i \in Instances, RecoverActiveEvents(i) PROVE RowLocks'
  BY <1>7 DEF RecoverActiveEvents
<1>8. ASSUME NEW i \in Instances, RecoveryFails(i) PROVE RowLocks'
  BY <1>8 DEF RecoveryFails
<1> QED
  BY <1>1, <1>2, <1>3, <1>4, <1>5, <1>6, <1>7, <1>8
     DEF EnvironmentStep

\* Time does not go back.
LEMMA DatesEnvironment ==
    ASSUME TypeOK, DatesPassed, EnvironmentStep
    PROVE  DatesPassed'
<1> USE LifecycleAssumption DEF DatesPassed, TypeOK, Jobs, Inst, Ev, PCs, InTransaction,
        Assigning, Completing, Goto, Unlock, dbVars, instVars, outVars
<1>1. ASSUME NEW e \in Events, Tick(e) PROVE DatesPassed'
  BY <1>1 DEF Tick
<1>2. ASSUME NEW w \in Instances \X Events, HandleEventExpired(w) PROVE DatesPassed'
  BY <1>2 DEF HandleEventExpired
<1>3. ASSUME NEW w \in Instances \X Events \X Rewards, GrantRewards(w) PROVE DatesPassed'
  BY <1>3 DEF GrantRewards
<1>4. ASSUME NEW w \in Instances \X Events \X Rewards, GrantRewardsFails(w) PROVE DatesPassed'
  BY <1>4 DEF GrantRewardsFails
<1>5. ASSUME NEW i \in Instances, Crash(i) PROVE DatesPassed'
  BY <1>5 DEF Crash
<1>6. ASSUME NEW i \in Instances, Restart(i) PROVE DatesPassed'
  BY <1>6 DEF Restart
<1>7. ASSUME NEW i \in Instances, RecoverActiveEvents(i) PROVE DatesPassed'
  BY <1>7 DEF RecoverActiveEvents
<1>8. ASSUME NEW i \in Instances, RecoveryFails(i) PROVE DatesPassed'
  BY <1>8 DEF RecoveryFails
<1> QED
  BY <1>1, <1>2, <1>3, <1>4, <1>5, <1>6, <1>7, <1>8
     DEF EnvironmentStep

\* A crash leaves nothing of its instance.
LEMMA UpEnvironment ==
    ASSUME TypeOK, OnlyUpInstancesRun, EnvironmentStep
    PROVE  OnlyUpInstancesRun'
<1> USE LifecycleAssumption DEF OnlyUpInstancesRun, TypeOK, Jobs, Inst, Ev, PCs, InTransaction,
        Assigning, Completing, Goto, Unlock, dbVars, instVars, outVars
<1>1. ASSUME NEW e \in Events, Tick(e) PROVE OnlyUpInstancesRun'
  BY <1>1 DEF Tick
<1>2. ASSUME NEW w \in Instances \X Events, HandleEventExpired(w) PROVE OnlyUpInstancesRun'
  BY <1>2 DEF HandleEventExpired
<1>3. ASSUME NEW w \in Instances \X Events \X Rewards, GrantRewards(w) PROVE OnlyUpInstancesRun'
  BY <1>3 DEF GrantRewards
<1>4. ASSUME NEW w \in Instances \X Events \X Rewards, GrantRewardsFails(w) PROVE OnlyUpInstancesRun'
  BY <1>4 DEF GrantRewardsFails
<1>5. ASSUME NEW i \in Instances, Crash(i) PROVE OnlyUpInstancesRun'
  BY <1>5 DEF Crash
<1>6. ASSUME NEW i \in Instances, Restart(i) PROVE OnlyUpInstancesRun'
  BY <1>6 DEF Restart
<1>7. ASSUME NEW i \in Instances, RecoverActiveEvents(i) PROVE OnlyUpInstancesRun'
  BY <1>7 DEF RecoverActiveEvents
<1>8. ASSUME NEW i \in Instances, RecoveryFails(i) PROVE OnlyUpInstancesRun'
  BY <1>8 DEF RecoveryFails
<1> QED
  BY <1>1, <1>2, <1>3, <1>4, <1>5, <1>6, <1>7, <1>8
     DEF EnvironmentStep

\* The database changes by the commit of an assignment or of a completion.
LEMMA DbChange ==
    ASSUME [Next]_vars
    PROVE  \/ UNCHANGED dbVars
           \/ \E j \in Jobs : pc[j] = "a_commit" /\ ApplyAssignment(Ev(j))
           \/ \E j \in Jobs : pc[j] = "c_commit" /\ ApplyCompletion(Ev(j))
<1>1. CASE UNCHANGED vars
  BY <1>1 DEF vars
<1>2. CASE EnvironmentStep
  BY <1>2 DEF EnvironmentStep, Tick, HandleEventExpired, GrantRewards, GrantRewardsFails, Crash, Restart,
        RecoverActiveEvents, RecoveryFails
<1>3. ASSUME NEW j \in Jobs, JobStart(j) PROVE UNCHANGED dbVars
  BY <1>3 DEF JobStart, StartPendingEvents, TimerFires,
       CheckAndCompleteExpiredEvents
<1>4. ASSUME NEW j \in Jobs, JobStep(j)
      PROVE  \/ UNCHANGED dbVars
             \/ pc[j] = "a_commit" /\ ApplyAssignment(Ev(j))
             \/ pc[j] = "c_commit" /\ ApplyCompletion(Ev(j))
  BY <1>4 DEF JobStep, UpdateEventStatusToActive, AssignGuilds,
       CommitAssignment, UpdateEventStatusToCompleted, UpdateRoomPlayerStates,
       CaptureFinalRoomLeaderboards, CaptureFinalGuildLeaderboard,
       CommitAborted, CommitCompletion, PublishEventExpired
<1>5. ASSUME NEW j \in Jobs, JobFailure(j)
      PROVE  \/ UNCHANGED dbVars
             \/ pc[j] = "a_commit" /\ ApplyAssignment(Ev(j))
             \/ pc[j] = "c_commit" /\ ApplyCompletion(Ev(j))
  BY <1>5 DEF JobFailure, GuildCaptureFails, StatementFails, CommitFails,
       CommitUnacknowledged, PublishFails, PublishCancelled
<1> QED
  BY <1>1, <1>2, <1>3, <1>4, <1>5, NextCases

\* The rows of an event say the same of its end and of its rooms.
DbInv ==
    /\ FinalBoardsMatchStatus
    /\ StartedEventsHaveRooms
    /\ rooms \cap Unattended = {}

\* Every step keeps what the committed rows promise about each other.
LEMMA DbStep ==
    ASSUME TypeOK, RowLocks, DbInv, [Next]_vars
    PROVE  DbInv'
<1> USE DEF DbInv, FinalBoardsMatchStatus, StartedEventsHaveRooms, TypeOK
<1>1. CASE UNCHANGED dbVars
  BY <1>1 DEF dbVars
<1>2. ASSUME NEW j \in Jobs, pc[j] = "a_commit", ApplyAssignment(Ev(j))
      PROVE  DbInv'
  <2>1. Ev(j) \in Events /\ status[Ev(j)] = "pending"
    BY <1>2 DEF RowLocks, Assigning, Jobs, Ev
  <2> QED
    BY <1>2, <2>1 DEF ApplyAssignment
<1>3. ASSUME NEW j \in Jobs, pc[j] = "c_commit", ApplyCompletion(Ev(j))
      PROVE  DbInv'
  <2>1. Ev(j) \in Events /\ status[Ev(j)] = "active"
    BY <1>3 DEF RowLocks, Completing, Jobs, Ev
  <2> QED
    BY <1>3, <2>1 DEF ApplyCompletion
<1> QED
  BY <1>1, <1>2, <1>3, DbChange

\* Nothing is published of an event before its end.
LEMMA UnannouncedBefore ==
    ASSUME TypeOK, OnePublisher, NEW e \in Events, status[e] # "completed"
    PROVE  announced[e] = 0
<1>1. announced[e] \in Nat
  BY DEF TypeOK
<1>2. announced[e] <= 1 /\ (announced[e] = 1 => status[e] = "completed")
  BY DEF OnePublisher
<1> QED
  BY <1>1, <1>2

\* The commit that only one job can make starts the only publisher.
LEMMA PublisherJob ==
    ASSUME TypeOK, RowLocks, OnePublisher, NEW j \in Jobs,
           JobStart(j) \/ JobStep(j) \/ JobFailure(j)
    PROVE  OnePublisher'
<1> USE LifecycleAssumption DEF OnePublisher, RowLocks, TypeOK, Jobs, Inst, Ev, PCs, InTransaction,
        Assigning, Completing, Goto, Unlock, dbVars, instVars, outVars
<1>1. CASE StartPendingEvents(j)
  BY <1>1 DEF StartPendingEvents
<1>2. CASE TimerFires(j)
  BY <1>2 DEF TimerFires
<1>3. CASE CheckAndCompleteExpiredEvents(j)
  BY <1>3 DEF CheckAndCompleteExpiredEvents, ExpiredActive
<1>4. CASE UpdateEventStatusToActive(j)
  BY <1>4 DEF UpdateEventStatusToActive, FindsRow, MissesRow
<1>5. CASE AssignGuilds(j)
  BY <1>5 DEF AssignGuilds, ScheduleEventExpiry
<1>6. CASE CommitAssignment(j)
  BY <1>6 DEF CommitAssignment, ApplyAssignment
<1>7. CASE UpdateEventStatusToCompleted(j)
  BY <1>7 DEF UpdateEventStatusToCompleted, FindsRow, MissesRow
<1>8. CASE UpdateRoomPlayerStates(j)
  BY <1>8 DEF UpdateRoomPlayerStates
<1>9. CASE CaptureFinalRoomLeaderboards(j)
  BY <1>9 DEF CaptureFinalRoomLeaderboards
<1>10. CASE CaptureFinalGuildLeaderboard(j)
  BY <1>10 DEF CaptureFinalGuildLeaderboard
<1>11. CASE CommitAborted(j)
  BY <1>11 DEF CommitAborted
<1>12. CASE CommitCompletion(j)
  <2>1. j[3] \in Events /\ status[j[3]] = "active"
    BY <1>12 DEF CommitCompletion
  <2>2. announced[j[3]] = 0
    BY <2>1, UnannouncedBefore
  <2>3. \A k \in Jobs : k[3] = j[3] => pc[k] # "publish"
    BY <2>1
  <2>4. /\ pc' = [pc EXCEPT ![j] = "publish"]
        /\ status' = [status EXCEPT ![j[3]] = "completed"]
        /\ UNCHANGED <<announced, inbox, received>>
    BY <1>12 DEF CommitCompletion, ApplyCompletion
  <2> QED
    BY <2>1, <2>2, <2>3, <2>4
<1>13. CASE PublishEventExpired(j)
  BY <1>13 DEF PublishEventExpired, AfterPublish, BoundQueues
<1>14. CASE GuildCaptureFails(j)
  BY <1>14 DEF GuildCaptureFails
<1>15. CASE StatementFails(j)
  BY <1>15 DEF StatementFails
<1>16. CASE CommitFails(j)
  BY <1>16 DEF CommitFails
<1>17. CASE CommitUnacknowledged(j)
  BY <1>17 DEF CommitUnacknowledged, ApplyAssignment, ApplyCompletion
<1>18. CASE PublishFails(j)
  BY <1>18 DEF PublishFails
<1>19. CASE PublishCancelled(j)
  BY <1>19 DEF PublishCancelled
<1> QED
  BY <1>1, <1>2, <1>3, <1>4, <1>5, <1>6, <1>7, <1>8, <1>9, <1>10, <1>11, <1>12, <1>13, <1>14, <1>15, <1>16, <1>17, <1>18, <1>19
     DEF JobStart, JobStep, JobFailure

\* A message can only be handled, or lost, after it was published.
LEMMA PublisherEnvironment ==
    ASSUME TypeOK, RowLocks, OnePublisher, EnvironmentStep
    PROVE  OnePublisher'
<1> USE LifecycleAssumption DEF OnePublisher, RowLocks, TypeOK, Jobs, Inst, Ev, PCs, InTransaction,
        Assigning, Completing, Goto, Unlock, dbVars, instVars, outVars
<1>1. ASSUME NEW e \in Events, Tick(e) PROVE OnePublisher'
  BY <1>1 DEF Tick
<1>2. ASSUME NEW w \in Instances \X Events, HandleEventExpired(w) PROVE OnePublisher'
  BY <1>2 DEF HandleEventExpired
<1>3. ASSUME NEW w \in Instances \X Events \X Rewards, GrantRewards(w) PROVE OnePublisher'
  BY <1>3 DEF GrantRewards
<1>4. ASSUME NEW w \in Instances \X Events \X Rewards, GrantRewardsFails(w) PROVE OnePublisher'
  BY <1>4 DEF GrantRewardsFails
<1>5. ASSUME NEW i \in Instances, Crash(i) PROVE OnePublisher'
  BY <1>5 DEF Crash
<1>6. ASSUME NEW i \in Instances, Restart(i) PROVE OnePublisher'
  BY <1>6 DEF Restart
<1>7. ASSUME NEW i \in Instances, RecoverActiveEvents(i) PROVE OnePublisher'
  BY <1>7 DEF RecoverActiveEvents
<1>8. ASSUME NEW i \in Instances, RecoveryFails(i) PROVE OnePublisher'
  BY <1>8 DEF RecoveryFails
<1> QED
  BY <1>1, <1>2, <1>3, <1>4, <1>5, <1>6, <1>7, <1>8
     DEF EnvironmentStep

\* The steps that change what has left the service, or the status.
LEMMA OutChange ==
    ASSUME [Next]_vars
    PROVE  \/ UNCHANGED <<status, granting, granted, inbox, received>>
           \/ \E j \in Jobs : \/ CommitAssignment(j) \/ CommitCompletion(j)
                             \/ CommitUnacknowledged(j)
                             \/ PublishEventExpired(j)
           \/ \E w \in Instances \X Events : HandleEventExpired(w)
           \/ \E w \in Instances \X Events \X Rewards :
                 GrantRewards(w) \/ GrantRewardsFails(w)
           \/ \E i \in Instances : Crash(i)
<1> USE DEF dbVars, instVars, outVars
<1>1. CASE UNCHANGED vars
  BY <1>1 DEF vars
<1>2. CASE EnvironmentStep
  BY <1>2 DEF EnvironmentStep, Tick, Restart, RecoverActiveEvents,
       RecoveryFails
<1>3. ASSUME NEW j \in Jobs, JobStart(j)
      PROVE  UNCHANGED <<status, granting, granted, inbox, received>>
  BY <1>3 DEF JobStart, StartPendingEvents, TimerFires,
       CheckAndCompleteExpiredEvents
<1>4. ASSUME NEW j \in Jobs, JobStep(j)
      PROVE  \/ UNCHANGED <<status, granting, granted, inbox, received>>
             \/ CommitAssignment(j) \/ CommitCompletion(j)
             \/ PublishEventExpired(j)
  BY <1>4 DEF JobStep, UpdateEventStatusToActive, AssignGuilds,
       UpdateEventStatusToCompleted, UpdateRoomPlayerStates,
       CaptureFinalRoomLeaderboards, CaptureFinalGuildLeaderboard,
       CommitAborted
<1>5. ASSUME NEW j \in Jobs, JobFailure(j)
      PROVE  \/ UNCHANGED <<status, granting, granted, inbox, received>>
             \/ CommitUnacknowledged(j)
  BY <1>5 DEF JobFailure, GuildCaptureFails, StatementFails, CommitFails,
       PublishFails, PublishCancelled
<1> QED
  BY <1>1, <1>2, <1>3, <1>4, <1>5, NextCases

\* The status of an event that is not committed by the step stays.
LEMMA CommitStatus ==
    ASSUME TypeOK, RowLocks, NEW j \in Jobs,
           CommitAssignment(j) \/ CommitCompletion(j) \/ CommitUnacknowledged(j)
    PROVE  /\ status[Ev(j)] # "completed"
           /\ \A e \in Events : status[e] = "completed" => status'[e] = status[e]
<1>1. Ev(j) \in Events /\ status[Ev(j)] # "completed"
  BY DEF RowLocks, CommitAssignment, CommitCompletion, CommitUnacknowledged,
         Assigning, Completing, Jobs, Ev
<1>2. \A e \in Events : e # Ev(j) => status'[e] = status[e]
  BY <1>1 DEF TypeOK, CommitAssignment, CommitCompletion, CommitUnacknowledged,
         ApplyAssignment, ApplyCompletion
<1> QED
  BY <1>1, <1>2

\* Rewards: one goroutine per event and kind, after the completion.
LEMMA RewardsStep ==
    ASSUME TypeOK, RowLocks, RewardsOnce, [Next]_vars
    PROVE  RewardsOnce'
<1>1. CASE UNCHANGED <<status, granting, granted, inbox, received>>
  BY <1>1 DEF RewardsOnce
<1>2. ASSUME NEW j \in Jobs, CommitAssignment(j) \/ CommitUnacknowledged(j)
      PROVE  RewardsOnce'
  <2>1. \A e \in Events : status[e] = "completed" => status'[e] = status[e]
    BY <1>2, CommitStatus
  <2>2. UNCHANGED <<granting, granted>>
    BY <1>2 DEF CommitAssignment, CommitUnacknowledged, outVars
  <2> QED
    BY <2>1, <2>2 DEF RewardsOnce
<1>3. ASSUME NEW j \in Jobs, CommitCompletion(j)
      PROVE  RewardsOnce'
  <2> DEFINE e == Ev(j)
  <2>1. e \in Events /\ status[e] # "completed" /\ status'[e] = "completed"
    BY <1>3, CommitStatus
       DEF CommitCompletion, ApplyCompletion, TypeOK, Jobs, Ev
  <2>2. \A d \in Events : status[d] = "completed" => status'[d] = status[d]
    BY <1>3, CommitStatus
  <2>3. /\ granted' = granted
        /\ granting' = granting \cup {<<Inst(j), e, r>> : r \in Rewards}
    BY <1>3 DEF CommitCompletion
  <2>4. \A r \in Rewards : granted[<<e, r>>] = 0
    BY <2>1 DEF RewardsOnce, TypeOK
  <2>5. \A i \in Instances, r \in Rewards : <<i, e, r>> \notin granting
    BY <2>1 DEF RewardsOnce
  <2> HIDE DEF e
  <2> QED
    BY <2>1, <2>2, <2>3, <2>4, <2>5 DEF RewardsOnce
<1>4. ASSUME NEW j \in Jobs, PublishEventExpired(j)
      PROVE  RewardsOnce'
  BY <1>4 DEF PublishEventExpired, RewardsOnce, dbVars
<1>5. ASSUME NEW w \in Instances \X Events, HandleEventExpired(w)
      PROVE  RewardsOnce'
  BY <1>5 DEF HandleEventExpired, RewardsOnce, dbVars, outVars
<1>6. ASSUME NEW w \in Instances \X Events \X Rewards, GrantRewards(w)
      PROVE  RewardsOnce'
  <2> PICK i \in Instances, e \in Events, r \in Rewards : w = <<i, e, r>>
    OBVIOUS
  <2>1. /\ w \in granting /\ granting' = granting \ {w} /\ status' = status
        /\ granted' = [granted EXCEPT ![<<e, r>>] = @ + 1]
    BY <1>6 DEF GrantRewards, dbVars
  <2>2. granted[<<e, r>>] = 0 /\ status[e] = "completed"
    BY <2>1 DEF RewardsOnce
  <2>3. \A k \in Instances : <<k, e, r>> \notin granting'
    BY <2>1 DEF RewardsOnce
  <2>4. granted'[<<e, r>>] = 1
    BY <2>1, <2>2 DEF TypeOK
  <2>5. \A d \in Events, s \in Rewards :
           <<d, s>> # <<e, r>> => granted'[<<d, s>>] = granted[<<d, s>>]
    BY <2>1 DEF TypeOK
  <2>6. ASSUME NEW d \in Events, NEW s \in Rewards
        PROVE  /\ granted'[<<d, s>>] > 0 =>
                     status'[d] = "completed" /\ granted'[<<d, s>>] = 1
               /\ \A h, k \in Instances :
                     <<h, d, s>> \in granting' =>
                        /\ status'[d] = "completed"
                        /\ granted'[<<d, s>>] = 0
                        /\ <<k, d, s>> \in granting' => k = h
    <3>1. CASE <<d, s>> = <<e, r>>
      BY <3>1, <2>1, <2>2, <2>3, <2>4
    <3>2. CASE <<d, s>> # <<e, r>>
      BY <3>2, <2>1, <2>5 DEF RewardsOnce
    <3> QED
      BY <3>1, <3>2
  <2> QED
    BY <2>6 DEF RewardsOnce
<1>7. ASSUME NEW w \in Instances \X Events \X Rewards, GrantRewardsFails(w)
      PROVE  RewardsOnce'
  BY <1>7 DEF GrantRewardsFails, RewardsOnce, dbVars
<1>8. ASSUME NEW i \in Instances, Crash(i)
      PROVE  RewardsOnce'
  BY <1>8 DEF Crash, RewardsOnce, dbVars
<1> QED
  BY <1>1, <1>2, <1>3, <1>4, <1>5, <1>6, <1>7, <1>8, OutChange

\* EventExpired: a queue gets it from the only publisher.
LEMMA HeardStep ==
    ASSUME TypeOK, RowLocks, OnePublisher, ExpiryHeardOnce, [Next]_vars
    PROVE  ExpiryHeardOnce'
<1>1. CASE UNCHANGED <<status, granting, granted, inbox, received>>
  BY <1>1 DEF ExpiryHeardOnce
<1>2. ASSUME NEW j \in Jobs,
             \/ CommitAssignment(j) \/ CommitCompletion(j)
             \/ CommitUnacknowledged(j)
      PROVE  ExpiryHeardOnce'
  <2>1. \A e \in Events : status[e] = "completed" => status'[e] = status[e]
    BY <1>2, CommitStatus
  <2>2. UNCHANGED <<inbox, received>>
    BY <1>2 DEF CommitAssignment, CommitCompletion, CommitUnacknowledged,
         instVars
  <2> QED
    BY <2>1, <2>2 DEF ExpiryHeardOnce
<1>3. ASSUME NEW j \in Jobs, PublishEventExpired(j)
      PROVE  ExpiryHeardOnce'
  <2>1. /\ Ev(j) \in Events /\ announced[Ev(j)] = 0
        /\ status[Ev(j)] = "completed"
    BY <1>3 DEF OnePublisher, PublishEventExpired, Jobs, Ev
  <2>2. \A i \in Instances : received[<<i, Ev(j)>>] = 0
    BY <2>1 DEF OnePublisher
  <2>3. inbox' = inbox \cup (up \X {Ev(j)}) /\ UNCHANGED <<status, received>>
    BY <1>3 DEF PublishEventExpired, BoundQueues, dbVars
  <2> QED
    BY <2>1, <2>2, <2>3 DEF ExpiryHeardOnce
<1>4. ASSUME NEW w \in Instances \X Events, HandleEventExpired(w)
      PROVE  ExpiryHeardOnce'
  <2>1. /\ w \in inbox /\ inbox' = inbox \ {w} /\ status' = status
        /\ received' = [received EXCEPT ![w] = @ + 1]
    BY <1>4 DEF HandleEventExpired, dbVars
  <2>2. received[w] = 0
    BY <2>1 DEF ExpiryHeardOnce
  <2>3. received'[w] = 1
    BY <2>1, <2>2 DEF TypeOK
  <2>4. \A v \in Instances \X Events : v # w => received'[v] = received[v]
    BY <2>1 DEF TypeOK
  <2>5. ASSUME NEW i \in Instances, NEW e \in Events
        PROVE  /\ received'[<<i, e>>] <= 1
               /\ <<i, e>> \in inbox' =>
                     status'[e] = "completed" /\ received'[<<i, e>>] = 0
    <3>1. CASE <<i, e>> = w
      BY <3>1, <2>1, <2>3
    <3>2. CASE <<i, e>> # w
      BY <3>2, <2>1, <2>4 DEF ExpiryHeardOnce
    <3> QED
      BY <3>1, <3>2
  <2> QED
    BY <2>5 DEF ExpiryHeardOnce
<1>5. ASSUME NEW w \in Instances \X Events \X Rewards,
             GrantRewards(w) \/ GrantRewardsFails(w)
      PROVE  ExpiryHeardOnce'
  BY <1>5 DEF GrantRewards, GrantRewardsFails, ExpiryHeardOnce, dbVars, instVars
<1>6. ASSUME NEW i \in Instances, Crash(i)
      PROVE  ExpiryHeardOnce'
  <2>1. inbox' \subseteq inbox /\ status' = status
    BY <1>6 DEF Crash, dbVars
  <2>2. \A v \in Instances \X Events :
           received'[v] = received[v] \/ received'[v] = 0
    BY <1>6 DEF Crash, TypeOK
  <2>3. ASSUME NEW k \in Instances, NEW e \in Events
        PROVE  /\ received'[<<k, e>>] <= 1
               /\ <<k, e>> \in inbox' =>
                     status'[e] = "completed" /\ received'[<<k, e>>] = 0
    <3>1. /\ received[<<k, e>>] <= 1
          /\ <<k, e>> \in inbox' =>
                status[e] = "completed" /\ received[<<k, e>>] = 0
      BY <2>1 DEF ExpiryHeardOnce
    <3>2. CASE received'[<<k, e>>] = received[<<k, e>>]
      BY <3>1, <3>2, <2>1
    <3>3. CASE received'[<<k, e>>] = 0
      BY <3>1, <3>3, <2>1
    <3> QED
      BY <3>2, <3>3, <2>2
  <2> QED
    BY <2>3 DEF ExpiryHeardOnce
<1> QED
  BY <1>1, <1>2, <1>3, <1>4, <1>5, <1>6, OutChange

\* The empty database, nothing running.
LEMMA InvInit == ASSUME Init PROVE IInv
<1> USE LifecycleAssumption
<1>1. TypeOK
  BY TypeInit
<1>2. OnlyUpInstancesRun /\ RowLocks /\ DatesPassed /\ OnePublisher
  BY DEF Init, OnlyUpInstancesRun, RowLocks, DatesPassed, OnePublisher,
         InTransaction, Assigning, Completing, Jobs, Ev
<1>3. /\ FinalBoardsMatchStatus /\ StartedEventsHaveRooms
      /\ rooms \cap Unattended = {}
  BY DEF Init, FinalBoardsMatchStatus, StartedEventsHaveRooms
<1>4. RewardsOnce
  BY DEF Init, RewardsOnce
<1>5. ExpiryHeardOnce
  BY DEF Init, ExpiryHeardOnce
<1> QED
  BY <1>1, <1>2, <1>3, <1>4, <1>5 DEF IInv

\* Every step preserves the parts of the invariant that it can disturb.
LEMMA InvStep == ASSUME IInv, [Next]_vars PROVE IInv'
<1> USE DEF IInv
<1>1. TypeOK'
  BY TypeStep
<1>2. OnlyUpInstancesRun' /\ RowLocks' /\ DatesPassed' /\ OnePublisher'
  <2>1. CASE UNCHANGED vars
    BY <2>1 DEF OnlyUpInstancesRun, RowLocks, DatesPassed, OnePublisher, vars,
         dbVars, instVars, outVars, bounds
  <2>2. CASE EnvironmentStep
    BY <2>2, UpEnvironment, RowLocksEnvironment, DatesEnvironment,
       PublisherEnvironment
  <2>3. ASSUME NEW j \in Jobs, JobStart(j) \/ JobStep(j) \/ JobFailure(j)
        PROVE  /\ OnlyUpInstancesRun' /\ RowLocks' /\ DatesPassed'
               /\ OnePublisher'
    BY <2>3, UpJob, RowLocksJob, DatesJob, PublisherJob
  <2> QED
    BY <2>1, <2>2, <2>3, NextCases
<1>3. DbInv'
  BY DbStep DEF DbInv
<1>4. RewardsOnce'
  BY RewardsStep
<1>5. ExpiryHeardOnce'
  BY HeardStep
<1> QED
  BY <1>1, <1>2, <1>3, <1>4, <1>5 DEF DbInv

\* The inductive invariant holds for any number of instances, events,
\* retries, failures and crashes.
THEOREM Invariant == Spec => []IInv
<1>1. Init => IInv
  BY InvInit
<1>2. IInv /\ [Next]_vars => IInv'
  BY InvStep
<1> QED
  BY <1>1, <1>2, PTL DEF Spec

\* Final states and boards are captured once, with the completion.
THEOREM FinalBoardsCorrect == Spec => []FinalBoardsMatchStatus
<1>1. IInv => FinalBoardsMatchStatus
  BY DEF IInv
<1> QED
  BY <1>1, Invariant, PTL

\* A started event has the rooms of its guilds, a pending one has none.
THEOREM RoomsCorrect == Spec => []StartedEventsHaveRooms
<1>1. IInv => StartedEventsHaveRooms
  BY DEF IInv
<1> QED
  BY <1>1, Invariant, PTL

\* No reward is granted twice, none before the completion.
THEOREM RewardsCorrect == Spec => []RewardsOnce
<1>1. IInv => RewardsOnce
  BY DEF IInv
<1> QED
  BY <1>1, Invariant, PTL

\* No instance hears twice of the end of an event.
THEOREM ExpiryCorrect == Spec => []ExpiryHeardOnce
<1>1. IInv => ExpiryHeardOnce
  BY DEF IInv
<1> QED
  BY <1>1, Invariant, PTL

\* The status only moves forward, and not before the dates that allow it.
LEMMA StatusStep ==
    ASSUME IInv, [Next]_vars
    PROVE  \A e \in Events : status'[e] # status[e] =>
              \/ /\ status[e] = "pending" /\ status'[e] = "active"
                 /\ clock[e] # "early"
              \/ /\ status[e] = "active" /\ status'[e] = "completed"
                 /\ clock[e] = "ended"
<1> USE DEF IInv
<1>1. CASE UNCHANGED dbVars
  BY <1>1 DEF dbVars
<1>2. ASSUME NEW j \in Jobs, pc[j] = "a_commit", ApplyAssignment(Ev(j)),
             NEW e \in Events, status'[e] # status[e]
      PROVE  /\ status[e] = "pending" /\ status'[e] = "active"
             /\ clock[e] # "early"
  <2>1. status[Ev(j)] = "pending" /\ clock[Ev(j)] # "early"
    BY <1>2 DEF RowLocks, DatesPassed, Assigning
  <2>2. e = Ev(j) /\ status'[e] = "active"
    BY <1>2 DEF ApplyAssignment, TypeOK
  <2> QED
    BY <2>1, <2>2
<1>3. ASSUME NEW j \in Jobs, pc[j] = "c_commit", ApplyCompletion(Ev(j)),
             NEW e \in Events, status'[e] # status[e]
      PROVE  /\ status[e] = "active" /\ status'[e] = "completed"
             /\ clock[e] = "ended"
  <2>1. status[Ev(j)] = "active" /\ clock[Ev(j)] = "ended"
    BY <1>3 DEF RowLocks, DatesPassed, Completing
  <2>2. e = Ev(j) /\ status'[e] = "completed"
    BY <1>3 DEF ApplyCompletion, TypeOK
  <2> QED
    BY <2>1, <2>2
<1> QED
  BY <1>1, <1>2, <1>3, DbChange

\* A status change is a start after assignment_date or an end after end_date.
THEOREM StatusCorrect == Spec => StatusFollowsClock
<1>1. IInv /\ [Next]_vars =>
         [\A e \in Events : status'[e] # status[e] =>
            \/ /\ status[e] = "pending" /\ status'[e] = "active"
               /\ clock[e] # "early"
            \/ /\ status[e] = "active" /\ status'[e] = "completed"
               /\ clock[e] = "ended"]_vars
  BY StatusStep
<1> QED
  BY <1>1, Invariant, PTL DEF Spec, StatusFollowsClock

\* The steps that change what EventOutcome describes.
LEMMA OutcomeChange ==
    ASSUME [Next]_vars
    PROVE  \/ UNCHANGED <<dbVars, announced, granted>>
           \/ \E j \in Jobs : /\ pc[j] = "a_commit" /\ ApplyAssignment(Ev(j))
                             /\ UNCHANGED <<announced, granted>>
           \/ \E j \in Jobs : /\ pc[j] = "c_commit" /\ ApplyCompletion(Ev(j))
                             /\ UNCHANGED <<announced, granted>>
           \/ \E j \in Jobs : PublishEventExpired(j)
           \/ \E w \in Instances \X Events \X Rewards : GrantRewards(w)
<1> USE DEF outVars
<1>1. CASE UNCHANGED vars
  BY <1>1 DEF vars
<1>2. CASE EnvironmentStep
  BY <1>2 DEF EnvironmentStep, Tick, HandleEventExpired, GrantRewardsFails,
       Crash, Restart, RecoverActiveEvents, RecoveryFails
<1>3. ASSUME NEW j \in Jobs, JobStart(j)
      PROVE  UNCHANGED <<dbVars, announced, granted>>
  BY <1>3 DEF JobStart, StartPendingEvents, TimerFires,
       CheckAndCompleteExpiredEvents
<1>4. ASSUME NEW j \in Jobs, JobStep(j)
      PROVE  \/ UNCHANGED <<dbVars, announced, granted>>
             \/ /\ pc[j] = "a_commit" /\ ApplyAssignment(Ev(j))
                /\ UNCHANGED <<announced, granted>>
             \/ /\ pc[j] = "c_commit" /\ ApplyCompletion(Ev(j))
                /\ UNCHANGED <<announced, granted>>
             \/ PublishEventExpired(j)
  BY <1>4 DEF JobStep, UpdateEventStatusToActive, AssignGuilds,
       CommitAssignment, UpdateEventStatusToCompleted, UpdateRoomPlayerStates,
       CaptureFinalRoomLeaderboards, CaptureFinalGuildLeaderboard,
       CommitAborted, CommitCompletion
<1>5. ASSUME NEW j \in Jobs, JobFailure(j)
      PROVE  \/ UNCHANGED <<dbVars, announced, granted>>
             \/ /\ pc[j] = "a_commit" /\ ApplyAssignment(Ev(j))
                /\ UNCHANGED <<announced, granted>>
             \/ /\ pc[j] = "c_commit" /\ ApplyCompletion(Ev(j))
                /\ UNCHANGED <<announced, granted>>
  BY <1>5 DEF JobFailure, GuildCaptureFails, StatementFails, CommitFails,
       CommitUnacknowledged, PublishFails, PublishCancelled
<1> QED
  BY <1>1, <1>2, <1>3, <1>4, <1>5, NextCases

\* Every step is a step of EventOutcome or leaves its variables alone.
LEMMA OutcomeStep ==
    ASSUME IInv, [Next]_vars
    PROVE  [Outcome!OutcomeNext]_(Outcome!outcomeVars)
<1> USE DEF IInv, Outcome!outcomeVars
<1>1. CASE UNCHANGED <<dbVars, announced, granted>>
  BY <1>1 DEF dbVars
<1>2. ASSUME NEW j \in Jobs, pc[j] = "a_commit", ApplyAssignment(Ev(j)),
             UNCHANGED <<announced, granted>>
      PROVE  Outcome!OutcomeNext
  <2>1. Ev(j) \in Events /\ status[Ev(j)] = "pending"
    BY <1>2 DEF RowLocks, Assigning, Jobs, Ev
  <2>2. rooms' = rooms \cup ({Ev(j)} \cap (Events \ Unattended))
    BY <1>2, <2>1 DEF ApplyAssignment
  <2>3. Outcome!Activate(Ev(j))
    BY <1>2, <2>1, <2>2 DEF Outcome!Activate, ApplyAssignment
  <2> QED
    BY <2>1, <2>3 DEF Outcome!OutcomeNext
<1>3. ASSUME NEW j \in Jobs, pc[j] = "c_commit", ApplyCompletion(Ev(j)),
             UNCHANGED <<announced, granted>>
      PROVE  Outcome!OutcomeNext
  <2>1. Ev(j) \in Events /\ status[Ev(j)] = "active"
    BY <1>3 DEF RowLocks, Completing, Jobs, Ev
  <2>2. roomBoards[Ev(j)] = 0 /\ guildBoards[Ev(j)] = 0
    BY <2>1 DEF FinalBoardsMatchStatus
  <2>3. /\ roomBoards' = [roomBoards EXCEPT ![Ev(j)] = 1]
        /\ guildBoards' = [guildBoards EXCEPT ![Ev(j)] = 1]
    BY <1>3, <2>1, <2>2 DEF ApplyCompletion, TypeOK
  <2>4. Outcome!Complete(Ev(j))
    BY <1>3, <2>1, <2>3 DEF Outcome!Complete, ApplyCompletion
  <2> QED
    BY <2>1, <2>4 DEF Outcome!OutcomeNext
<1>4. ASSUME NEW j \in Jobs, PublishEventExpired(j)
      PROVE  Outcome!OutcomeNext
  <2>1. /\ Ev(j) \in Events /\ status[Ev(j)] = "completed"
        /\ announced[Ev(j)] = 0
    BY <1>4 DEF PublishEventExpired, OnePublisher, Jobs, Ev
  <2>2. announced' = [announced EXCEPT ![Ev(j)] = 1]
    BY <1>4, <2>1 DEF PublishEventExpired, TypeOK
  <2>3. Outcome!Announce(Ev(j))
    BY <1>4, <2>1, <2>2 DEF Outcome!Announce, PublishEventExpired, dbVars
  <2> QED
    BY <2>1, <2>3 DEF Outcome!OutcomeNext
<1>5. ASSUME NEW w \in Instances \X Events \X Rewards, GrantRewards(w)
      PROVE  Outcome!OutcomeNext
  <2> PICK i \in Instances, e \in Events, r \in Rewards : w = <<i, e, r>>
    OBVIOUS
  <2>1. granted[<<e, r>>] = 0 /\ status[e] = "completed"
    BY <1>5 DEF RewardsOnce, GrantRewards
  <2>2. granted' = [granted EXCEPT ![<<e, r>>] = @ + 1]
    BY <1>5 DEF GrantRewards
  <2>3. granted[<<e, r>>] + 1 = 1
    BY <2>1
  <2>4. granted' = [granted EXCEPT ![<<e, r>>] = 1]
    BY <2>2, <2>3
  <2>5. Outcome!Grant(e, r)
    BY <1>5, <2>1, <2>4 DEF Outcome!Grant, GrantRewards, dbVars
  <2> QED
    BY <2>5 DEF Outcome!OutcomeNext
<1> QED
  BY <1>1, <1>2, <1>3, <1>4, <1>5, OutcomeChange

\* The lifecycle implements EventOutcome: started once with its rooms, ended
\* once with its boards, announced and rewarded at most once, at any size.
THEOREM Refinement == Spec => ImplementsOutcome
<1>1. Init => Outcome!OutcomeInit
  BY DEF Init, Outcome!OutcomeInit
<1>2. IInv /\ [Next]_vars => [Outcome!OutcomeNext]_(Outcome!outcomeVars)
  BY OutcomeStep
<1> QED
  BY <1>1, <1>2, Invariant, PTL DEF Spec, ImplementsOutcome, Outcome!OutcomeSpec

===============================================================================
