---------------------------- MODULE EventLifecycle ----------------------------
(***************************************************************************)
(* How the instances of the service take an event from pending to active   *)
(* to completed over one shared database: the cron request that assigns    *)
(* guilds to rooms, the in-memory expiry timers, the expired event monitor,*)
(* the completion transaction, what follows it (rewards, the EventExpired  *)
(* broadcast) and crashes and restarts of instances.                       *)
(*                                                                         *)
(* A job <<i, k, e>> is the goroutine of instance i that works on event e  *)
(* for the cron request, an expiry timer or the monitor.  The database runs*)
(* READ COMMITTED: a transaction keeps the row of its event locked from its*)
(* first UPDATE to its end, and what it wrote becomes visible on commit.   *)
(***************************************************************************)
EXTENDS Naturals

CONSTANTS
    Instances,    \* the running copies of the service
    Events,       \* the events created from approved requests
    Unattended,   \* the events no guild has registered for
    MaxRetries,   \* publish attempts (maxRetries, 5 in the code)
    MaxFailures,  \* bound: statements, commits and queries that fail
    MaxCrashes,   \* bound: crashes of instances
    None          \* no job: the row of an event is not locked

Kinds == {"cron", "timer", "monitor"}
Jobs == Instances \X Kinds \X Events
Rewards == {"users", "guilds"}

ASSUME LifecycleAssumption ==
    /\ Unattended \subseteq Events
    /\ MaxRetries \in Nat \ {0}
    /\ MaxFailures \in Nat
    /\ MaxCrashes \in Nat
    /\ None \notin Jobs

VARIABLES
    \* the database
    status,       \* events.status
    rooms,        \* the events with rooms, assigned guilds and problems
    playersFinal, \* the events whose room_players are completed or left
    roomBoards,   \* captures of the final room leaderboards, per event
    guildBoards,  \* captures of the final guild leaderboard, per event
    rowLock,      \* the job whose transaction holds the row of the event
    \* the clock
    clock,        \* "early", then "assignable" (assignment_date), "ended"
    \* each instance
    up,           \* the instances that run
    recovering,   \* those whose recoverActiveEvents has not run yet
    timers,       \* armed expiry timers, per instance and event
    inbox,        \* EventExpired in the queue of an instance
    received,     \* EventExpired handled, per instance (since it started)
    granting,     \* the reward goroutines that run
    \* the goroutines
    pc,           \* where each job is
    tries,        \* failed publish attempts of the job
    \* what has left the service
    announced,    \* EventExpired messages the broker accepted, per event
    granted,      \* rounds of rewards granted, per event and kind
    \* counters for the bounds
    failures, crashes

dbVars == <<status, rooms, playersFinal, roomBoards, guildBoards>>
instVars == <<up, recovering, timers, inbox, received>>
outVars == <<announced, granted, granting>>
bounds == <<failures, crashes>>
vars == <<dbVars, rowLock, clock, instVars, outVars, pc, tries, bounds>>

Inst(j) == j[1]
Ev(j) == j[3]

\* In these states the transaction of a job has updated the event's row.
Assigning == {"a_assign", "a_commit"}
Completing == {"c_players", "c_rooms", "c_guilds", "c_commit", "c_aborted"}
InTransaction == Assigning \cup Completing
PCs == {"idle", "a_cas", "c_cas", "publish"} \cup InTransaction

Init ==
    /\ status = [e \in Events |-> "pending"]
    /\ rooms = {}
    /\ playersFinal = {}
    /\ roomBoards = [e \in Events |-> 0]
    /\ guildBoards = [e \in Events |-> 0]
    /\ rowLock = [e \in Events |-> None]
    /\ clock = [e \in Events |-> "early"]
    /\ up = Instances
    /\ recovering = {}
    /\ timers = [w \in Instances \X Events |-> 0]
    /\ inbox = {}
    /\ received = [w \in Instances \X Events |-> 0]
    /\ granting = {}
    /\ pc = [j \in Jobs |-> "idle"]
    /\ tries = [j \in Jobs |-> 0]
    /\ announced = [e \in Events |-> 0]
    /\ granted = [w \in Events \X Rewards |-> 0]
    /\ failures = 0
    /\ crashes = 0

-------------------------------------------------------------------------------
(* Steps shared by the transactions                                        *)

Goto(j, l) == pc' = [pc EXCEPT ![j] = l]

\* Mutant: an early return without the deferred Rollback.
KeepLock(j) == UNCHANGED rowLock

\* The job's transaction ends, committed or rolled back: the row is free.
Unlock(j) ==
    rowLock' = [e \in Events |-> IF rowLock[e] = j THEN None ELSE rowLock[e]]

\* A failure the environment may cause, within the bound.
Fail == failures < MaxFailures /\ failures' = failures + 1

\* Mutants of the compare-and-swap: a status read without a lock, and an
\* UPDATE ... WHERE id = e.
ReadsStatus(j, s) == status[Ev(j)] = s
FindsRowById(j, s) == rowLock[Ev(j)] = None

\* An UPDATE ... WHERE status = s on the row of the job's event: it waits
\* for the transaction that holds the row, then finds the row or does not.
FindsRow(j, s) ==
    /\ status[Ev(j)] = s
    /\ rowLock[Ev(j)] = None

MissesRow(j, s) == status[Ev(j)] # s

-------------------------------------------------------------------------------
(* Time                                                                    *)

\* assignment_date passes, then end_date.
Tick(e) ==
    /\ \/ /\ clock[e] = "early"
          /\ clock' = [clock EXCEPT ![e] = "assignable"]
       \/ /\ clock[e] = "assignable"
          /\ clock' = [clock EXCEPT ![e] = "ended"]
    /\ UNCHANGED <<dbVars, rowLock, instVars, outVars, pc, tries, bounds>>

-------------------------------------------------------------------------------
(* Assignment: the cron request and its transaction                        *)

\* Mutant: the query forgets assignment_date.
AnyPending(e) == status[e] = "pending"

\* GetPendingEventsForAssignment selects the event.
PendingForAssignment(e) == status[e] = "pending" /\ clock[e] # "early"

\* Some instance gets the cron request and starts on the event.
StartPendingEvents(j) ==
    /\ pc[j] = "idle"
    /\ j[2] = "cron"
    /\ Inst(j) \in up
    /\ PendingForAssignment(Ev(j))
    /\ Goto(j, "a_cas")
    /\ UNCHANGED <<dbVars, rowLock, clock, instVars, outVars, tries, bounds>>

\* The compare-and-swap pending -> active; no row means already processed.
UpdateEventStatusToActive(j) ==
    /\ pc[j] = "a_cas"
    /\ \/ /\ FindsRow(j, "pending")
          /\ rowLock' = [rowLock EXCEPT ![Ev(j)] = j]
          /\ Goto(j, "a_assign")
       \/ /\ MissesRow(j, "pending")
          /\ Goto(j, "idle")
          /\ UNCHANGED rowLock
    /\ UNCHANGED <<dbVars, clock, instVars, outVars, tries, bounds>>

\* The timer that ScheduleEventExpiry arms, none when end_date has passed.
ScheduleEventExpiry(i, e) ==
    timers' = IF clock[e] = "ended" THEN timers
              ELSE [timers EXCEPT ![<<i, e>>] = @ + 1]

\* Rooms, guilds and problems are written inside the transaction, and the
\* timer is armed before the commit; an event without guilds gets neither.
AssignGuilds(j) ==
    /\ pc[j] = "a_assign"
    /\ IF Ev(j) \in Unattended THEN UNCHANGED timers
       ELSE ScheduleEventExpiry(Inst(j), Ev(j))
    /\ Goto(j, "a_commit")
    /\ UNCHANGED <<dbVars, rowLock, clock, up, recovering, inbox, received,
                   outVars, tries, bounds>>

\* Mutant: the status is committed before the rooms are created.
ActivateOnly(e) ==
    /\ status' = [status EXCEPT ![e] = "active"]
    /\ UNCHANGED <<rooms, playersFinal, roomBoards, guildBoards>>

\* What the commit of an assignment makes visible.
ApplyAssignment(e) ==
    /\ status' = [status EXCEPT ![e] = "active"]
    /\ rooms' = IF e \in Unattended THEN rooms ELSE rooms \cup {e}
    /\ UNCHANGED <<playersFinal, roomBoards, guildBoards>>

CommitAssignment(j) ==
    /\ pc[j] = "a_commit"
    /\ ApplyAssignment(Ev(j))
    /\ Unlock(j)
    /\ Goto(j, "idle")
    /\ UNCHANGED <<clock, instVars, outVars, tries, bounds>>

-------------------------------------------------------------------------------
(* Completion: timers, the monitor and the completion transaction          *)

\* A timer fires at the end date and calls completeEvent.
TimerFires(j) ==
    LET w == <<Inst(j), Ev(j)>> IN
    /\ pc[j] = "idle"
    /\ j[2] = "timer"
    /\ timers[w] > 0
    /\ clock[Ev(j)] = "ended"
    /\ timers' = [timers EXCEPT ![w] = @ - 1]
    /\ Goto(j, "c_cas")
    /\ UNCHANGED <<dbVars, rowLock, clock, up, recovering, inbox, received,
                   outVars, tries, bounds>>

\* Mutant: the comparison of end_date with NOW() is inverted.
NotExpiredActive(e) == status[e] = "active" /\ clock[e] # "ended"

\* GetExpiredActiveEvents selects the event.
ExpiredActive(e) == status[e] = "active" /\ clock[e] = "ended"

\* The monitor of an instance takes the expired events one after the other.
CheckAndCompleteExpiredEvents(j) ==
    /\ pc[j] = "idle"
    /\ j[2] = "monitor"
    /\ Inst(j) \in up
    /\ \A e \in Events : pc[<<Inst(j), "monitor", e>>] = "idle"
    /\ ExpiredActive(Ev(j))
    /\ Goto(j, "c_cas")
    /\ UNCHANGED <<dbVars, rowLock, clock, instVars, outVars, tries, bounds>>

\* The compare-and-swap active -> completed; no row means another job won.
UpdateEventStatusToCompleted(j) ==
    /\ pc[j] = "c_cas"
    /\ \/ /\ FindsRow(j, "active")
          /\ rowLock' = [rowLock EXCEPT ![Ev(j)] = j]
          /\ Goto(j, "c_players")
       \/ /\ MissesRow(j, "active")
          /\ Goto(j, "idle")
          /\ UNCHANGED rowLock
    /\ UNCHANGED <<dbVars, clock, instVars, outVars, tries, bounds>>

UpdateRoomPlayerStates(j) ==
    /\ pc[j] = "c_players"
    /\ Goto(j, "c_rooms")
    /\ UNCHANGED <<dbVars, rowLock, clock, instVars, outVars, tries, bounds>>

CaptureFinalRoomLeaderboards(j) ==
    /\ pc[j] = "c_rooms"
    /\ Goto(j, "c_guilds")
    /\ UNCHANGED <<dbVars, rowLock, clock, instVars, outVars, tries, bounds>>

CaptureFinalGuildLeaderboard(j) ==
    /\ pc[j] = "c_guilds"
    /\ Goto(j, "c_commit")
    /\ UNCHANGED <<dbVars, rowLock, clock, instVars, outVars, tries, bounds>>

\* The guild capture fails: the handler goes on, but the database has
\* aborted the transaction.
GuildCaptureFails(j) ==
    /\ pc[j] = "c_guilds"
    /\ Fail
    /\ Goto(j, "c_aborted")
    /\ UNCHANGED <<dbVars, rowLock, clock, instVars, outVars, tries, crashes>>

\* COMMIT of an aborted transaction rolls back; completeEvent returns false.
CommitAborted(j) ==
    /\ pc[j] = "c_aborted"
    /\ Unlock(j)
    /\ Goto(j, "idle")
    /\ UNCHANGED <<dbVars, clock, instVars, outVars, tries, bounds>>

\* Mutant: the players are not updated in the transaction.
CompleteWithoutPlayers(e) ==
    /\ status' = [status EXCEPT ![e] = "completed"]
    /\ roomBoards' = [roomBoards EXCEPT ![e] = @ + 1]
    /\ guildBoards' = [guildBoards EXCEPT ![e] = @ + 1]
    /\ UNCHANGED <<rooms, playersFinal>>

\* What the commit of a completion makes visible.
ApplyCompletion(e) ==
    /\ status' = [status EXCEPT ![e] = "completed"]
    /\ playersFinal' = playersFinal \cup {e}
    /\ roomBoards' = [roomBoards EXCEPT ![e] = @ + 1]
    /\ guildBoards' = [guildBoards EXCEPT ![e] = @ + 1]
    /\ UNCHANGED rooms

\* After the commit completeEvent starts both reward goroutines and goes on
\* to publish EventExpired.
CommitCompletion(j) ==
    /\ pc[j] = "c_commit"
    /\ ApplyCompletion(Ev(j))
    /\ Unlock(j)
    /\ granting' = granting \cup {<<Inst(j), Ev(j), r>> : r \in Rewards}
    /\ Goto(j, "publish")
    /\ tries' = [tries EXCEPT ![j] = 0]
    /\ UNCHANGED <<clock, instVars, announced, granted, bounds>>

-------------------------------------------------------------------------------
(* Failures of the database                                                *)

\* A statement fails, or times out waiting for the row: early return, and
\* the deferred Rollback frees the row.
StatementFails(j) ==
    /\ pc[j] \in {"a_cas", "a_assign", "c_cas", "c_players", "c_rooms"}
    /\ Fail
    /\ Unlock(j)
    /\ Goto(j, "idle")
    /\ UNCHANGED <<dbVars, clock, instVars, outVars, tries, crashes>>

\* COMMIT fails.  An expiry timer armed before stays armed.
CommitFails(j) ==
    /\ pc[j] \in {"a_commit", "c_commit"}
    /\ Fail
    /\ Unlock(j)
    /\ Goto(j, "idle")
    /\ UNCHANGED <<dbVars, clock, instVars, outVars, tries, crashes>>

\* The database commits but the connection is lost before it says so: the
\* handler returns an error and does nothing of what follows a commit.
CommitUnacknowledged(j) ==
    /\ \/ pc[j] = "a_commit" /\ ApplyAssignment(Ev(j))
       \/ pc[j] = "c_commit" /\ ApplyCompletion(Ev(j))
    /\ Fail
    /\ Unlock(j)
    /\ Goto(j, "idle")
    /\ UNCHANGED <<clock, instVars, outVars, tries, crashes>>

-------------------------------------------------------------------------------
(* What follows a completion                                               *)

\* Mutant: the loop does not return on success.
PublishAgain == "publish"

\* Where the publish loop goes after the broker took the message.
AfterPublish == "idle"

\* Mutant: queues that outlive their instance.
DurableQueues == Instances

\* The instances whose exclusive queue is bound to the fanout exchange now.
BoundQueues == up

PublishEventExpired(j) ==
    /\ pc[j] = "publish"
    /\ announced' = [announced EXCEPT ![Ev(j)] = @ + 1]
    /\ inbox' = inbox \cup (BoundQueues \X {Ev(j)})
    /\ Goto(j, AfterPublish)
    /\ UNCHANGED <<dbVars, rowLock, clock, up, recovering, timers, received,
                   granted, granting, tries, bounds>>

\* An attempt fails; after the last one the job only logs the error.
PublishFails(j) ==
    /\ pc[j] = "publish"
    /\ tries' = [tries EXCEPT ![j] = @ + 1]
    /\ IF tries[j] + 1 = MaxRetries THEN Goto(j, "idle") ELSE UNCHANGED pc
    /\ UNCHANGED <<dbVars, rowLock, clock, instVars, outVars, bounds>>

\* The 30 second context of completeEvent ends first: the loop returns.
PublishCancelled(j) ==
    /\ pc[j] = "publish"
    /\ Fail
    /\ Goto(j, "idle")
    /\ UNCHANGED <<dbVars, rowLock, clock, instVars, outVars, tries, crashes>>

\* listenForAMQPEvents takes the message and hands it to the event's rooms.
HandleEventExpired(w) ==
    /\ w \in inbox
    /\ inbox' = inbox \ {w}
    /\ received' = [received EXCEPT ![w] = @ + 1]
    /\ UNCHANGED <<dbVars, rowLock, clock, up, recovering, timers, outVars, pc,
                   tries, bounds>>

\* A reward goroutine reads the ranking and calls the user service.
GrantRewards(w) ==
    /\ w \in granting
    /\ granting' = granting \ {w}
    /\ granted' = [granted EXCEPT ![<<w[2], w[3]>>] = @ + 1]
    /\ UNCHANGED <<dbVars, rowLock, clock, instVars, announced, pc, tries,
                   bounds>>

\* Its first query fails: it returns without granting anything.
GrantRewardsFails(w) ==
    /\ w \in granting
    /\ Fail
    /\ granting' = granting \ {w}
    /\ UNCHANGED <<dbVars, rowLock, clock, instVars, announced, granted, pc,
                   tries, crashes>>

-------------------------------------------------------------------------------
(* Crashes and restarts                                                    *)

\* Timers, goroutines and the exclusive queue die with the instance, and the
\* database rolls its transactions back.
Crash(i) ==
    /\ i \in up
    /\ crashes < MaxCrashes
    /\ crashes' = crashes + 1
    /\ up' = up \ {i}
    /\ recovering' = recovering \ {i}
    /\ timers' = [w \in DOMAIN timers |-> IF w[1] = i THEN 0 ELSE timers[w]]
    /\ received' = [w \in DOMAIN received |->
                        IF w[1] = i THEN 0 ELSE received[w]]
    /\ inbox' = {w \in inbox : w[1] # i}
    /\ granting' = {w \in granting : w[1] # i}
    /\ pc' = [j \in Jobs |-> IF Inst(j) = i THEN "idle" ELSE pc[j]]
    /\ rowLock' = [e \in Events |->
                     IF rowLock[e] # None /\ Inst(rowLock[e]) = i
                     THEN None ELSE rowLock[e]]
    /\ UNCHANGED <<dbVars, clock, announced, granted, tries, failures>>

Restart(i) ==
    /\ i \notin up
    /\ up' = up \cup {i}
    /\ recovering' = recovering \cup {i}
    /\ UNCHANGED <<dbVars, rowLock, clock, timers, inbox, received, outVars,
                   pc, tries, bounds>>

\* The started instance arms a timer for each active event not yet ended.
RecoverActiveEvents(i) ==
    /\ i \in recovering
    /\ recovering' = recovering \ {i}
    /\ timers' = [w \in DOMAIN timers |->
                    IF /\ w[1] = i
                       /\ status[w[2]] = "active"
                       /\ clock[w[2]] # "ended"
                    THEN timers[w] + 1 ELSE timers[w]]
    /\ UNCHANGED <<dbVars, rowLock, clock, up, inbox, received, outVars, pc,
                   tries, bounds>>

\* Its query fails: no timer of this instance will complete those events.
RecoveryFails(i) ==
    /\ i \in recovering
    /\ Fail
    /\ recovering' = recovering \ {i}
    /\ UNCHANGED <<dbVars, rowLock, clock, up, timers, inbox, received,
                   outVars, pc, tries, crashes>>

-------------------------------------------------------------------------------
\* The steps a running job takes when nothing fails.
JobStep(j) ==
    \/ UpdateEventStatusToActive(j)
    \/ AssignGuilds(j)
    \/ CommitAssignment(j)
    \/ UpdateEventStatusToCompleted(j)
    \/ UpdateRoomPlayerStates(j)
    \/ CaptureFinalRoomLeaderboards(j)
    \/ CaptureFinalGuildLeaderboard(j)
    \/ CommitAborted(j)
    \/ CommitCompletion(j)
    \/ PublishEventExpired(j)

JobStart(j) ==
    \/ StartPendingEvents(j)
    \/ TimerFires(j)
    \/ CheckAndCompleteExpiredEvents(j)

JobFailure(j) ==
    \/ GuildCaptureFails(j)
    \/ StatementFails(j)
    \/ CommitFails(j)
    \/ CommitUnacknowledged(j)
    \/ PublishFails(j)
    \/ PublishCancelled(j)

Next ==
    \/ \E e \in Events : Tick(e)
    \/ \E j \in Jobs : JobStart(j) \/ JobStep(j) \/ JobFailure(j)
    \/ \E w \in Instances \X Events : HandleEventExpired(w)
    \/ \E w \in Instances \X Events \X Rewards :
          GrantRewards(w) \/ GrantRewardsFails(w)
    \/ \E i \in Instances :
          Crash(i) \/ Restart(i) \/ RecoverActiveEvents(i) \/ RecoveryFails(i)

Spec == Init /\ [][Next]_vars

\* A running goroutine goes on, the monitor ticks every 60 seconds, a queue
\* is consumed and a crashed instance is restarted.  Nothing is assumed of
\* the clock, the cron caller or the timers.
Fairness ==
    /\ \A j \in Jobs : /\ WF_vars(JobStep(j))
                       /\ WF_vars(CheckAndCompleteExpiredEvents(j))
    /\ \A w \in Instances \X Events : WF_vars(HandleEventExpired(w))
    /\ \A i \in Instances : WF_vars(Restart(i))

FairSpec == Spec /\ Fairness

-------------------------------------------------------------------------------
(* Properties                                                              *)

TypeOK ==
    /\ status \in [Events -> {"pending", "active", "completed"}]
    /\ rooms \subseteq Events
    /\ playersFinal \subseteq Events
    /\ roomBoards \in [Events -> Nat]
    /\ guildBoards \in [Events -> Nat]
    /\ rowLock \in [Events -> Jobs \cup {None}]
    /\ clock \in [Events -> {"early", "assignable", "ended"}]
    /\ up \subseteq Instances
    /\ recovering \subseteq up
    /\ timers \in [Instances \X Events -> Nat]
    /\ inbox \subseteq up \X Events
    /\ received \in [Instances \X Events -> Nat]
    /\ granting \subseteq Instances \X Events \X Rewards
    /\ pc \in [Jobs -> PCs]
    /\ tries \in [Jobs -> Nat]
    /\ announced \in [Events -> Nat]
    /\ granted \in [Events \X Rewards -> Nat]
    /\ failures \in Nat
    /\ crashes \in Nat

\* An event is completed exactly when its players have their final state and
\* one room board and one guild board were captured, however many timers,
\* monitors and instances tried to complete it and wherever they crashed
\* (completeEventTransaction: "either ALL changes happen or NONE happen").
FinalBoardsMatchStatus ==
    \A e \in Events :
        LET n == IF status[e] = "completed" THEN 1 ELSE 0 IN
        /\ roomBoards[e] = n
        /\ guildBoards[e] = n
        /\ e \in playersFinal <=> status[e] = "completed"

\* No event that guilds registered for is started without its rooms, and no
\* pending event has rooms: a retried assignment never finds the rooms of
\* the attempt before (ProcessEventAssignment rolls back as a whole).
StartedEventsHaveRooms ==
    \A e \in Events \ Unattended : e \in rooms <=> status[e] # "pending"

\* Each reward is handed out, or being handed out, for completed events only
\* and by one goroutine only (completeEvent grants after the commit that only
\* one caller can make).
RewardsOnce ==
    \A e \in Events, r \in Rewards :
        /\ granted[<<e, r>>] > 0 => status[e] = "completed" /\ granted[<<e, r>>] = 1
        /\ \A i, k \in Instances :
              <<i, e, r>> \in granting =>
                 /\ status[e] = "completed"
                 /\ granted[<<e, r>>] = 0
                 /\ <<k, e, r>> \in granting => k = i

\* EventExpired reaches an instance at most once and only for a completed
\* event: a second one would schedule a second scheduleRoomCleanup, which
\* closes the same Go channels again.
ExpiryHeardOnce ==
    \A i \in Instances, e \in Events :
        /\ received[<<i, e>>] <= 1
        /\ <<i, e>> \in inbox =>
              status[e] = "completed" /\ received[<<i, e>>] = 0

\* An event only starts after its assignment date, only ends after its end
\* date, and never goes back, whichever timer, monitor or cron request acts.
StatusFollowsClock ==
    [][\A e \in Events : status'[e] # status[e] =>
          \/ /\ status[e] = "pending" /\ status'[e] = "active"
             /\ clock[e] # "early"
          \/ /\ status[e] = "active" /\ status'[e] = "completed"
             /\ clock[e] = "ended"]_vars

\* An active event past its end date is completed, although timers die with
\* their instance and transactions fail (startExpiredEventMonitor).
ExpiredEventsComplete ==
    \A e \in Events :
        status[e] = "active" /\ clock[e] = "ended" ~> status[e] = "completed"

\* publishEventExpiredWithRetry: every running instance hears of the end of
\* an event; "expired event monitor will detect and notify".
ExpiryReachesEveryInstance ==
    \A i \in Instances, e \in Events :
        status[e] = "completed" ~> received[<<i, e>>] = 1

\* completeEventTransaction: a failed capture of the guild leaderboard is
\* "optional", the completion goes on: no commit is refused because of it.
GuildLeaderboardIsOptional ==
    [][\A j \in Jobs : pc[j] = "c_aborted" /\ Inst(j) \in up' /\ pc'[j] = "idle"
          => status'[Ev(j)] = "completed"]_vars

\* What runs, runs in an instance that is up.
OnlyUpInstancesRun ==
    /\ \A j \in Jobs : pc[j] # "idle" => Inst(j) \in up
    /\ \A w \in Instances \X Events : timers[w] > 0 => w[1] \in up
    /\ \A w \in granting : w[1] \in up

\* The transaction that holds a row is the one that updated it, and the row
\* still has the committed status the update matched.
RowLocks ==
    /\ \A e \in Events :
          rowLock[e] # None =>
             Ev(rowLock[e]) = e /\ pc[rowLock[e]] \in InTransaction
    /\ \A j \in Jobs :
          /\ pc[j] \in InTransaction => rowLock[Ev(j)] = j
          /\ pc[j] \in Assigning => status[Ev(j)] = "pending"
          /\ pc[j] \in Completing => status[Ev(j)] = "active"

\* A job past its CAS started after the date that allows it.
DatesPassed ==
    \A j \in Jobs :
        /\ pc[j] \in Assigning \cup {"a_cas"} => clock[Ev(j)] # "early"
        /\ pc[j] \in Completing \cup {"c_cas"} => clock[Ev(j)] = "ended"

\* One job at most publishes the end of an event, before anyone heard of it.
OnePublisher ==
    /\ \A j, k \in Jobs :
          pc[j] = "publish" =>
             /\ status[Ev(j)] = "completed"
             /\ announced[Ev(j)] = 0
             /\ pc[k] = "publish" /\ Ev(k) = Ev(j) => k = j
    /\ \A e \in Events :
          /\ announced[e] <= 1
          /\ announced[e] = 1 => status[e] = "completed"
          /\ announced[e] = 0 => \A i \in Instances :
                                    <<i, e>> \notin inbox /\ received[<<i, e>>] = 0

\* What every step preserves.
IInv ==
    /\ TypeOK
    /\ OnlyUpInstancesRun
    /\ RowLocks
    /\ DatesPassed
    /\ OnePublisher
    /\ FinalBoardsMatchStatus
    /\ StartedEventsHaveRooms
    /\ rooms \cap Unattended = {}
    /\ RewardsOnce
    /\ ExpiryHeardOnce

Outcome == INSTANCE EventOutcome WITH
    Attended <- Events \ Unattended

\* The detailed system does what EventOutcome promises, no more.
ImplementsOutcome == Outcome!OutcomeSpec
===============================================================================
