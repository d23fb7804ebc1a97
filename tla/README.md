# RogueLearn.Event: a TLA+ model

RogueLearn.Event runs programming contests between guilds. Several copies
("instances") of one Go program share a PostgreSQL database and a RabbitMQ
broker. An administrator approves an event; guilds register; at the assignment
date a cron request distributes the guilds over rooms; players join a room over
SSE and submit solutions; at the end date one instance completes the event,
captures the final leaderboards, grants rewards and tells all players. This
directory models that program in TLA+, checks the models with TLC and proves
what matters most with TLAPS.

Paths below are relative to the repository, `src/`.

## 1. Inventory

| Component | State it keeps | Operations | Correct when |
|---|---|---|---|
| **Event lifecycle** (`internal/hub/event_hub.go` 87-760, `internal/handlers/event_assignment.go`) | `events.status`, rooms, final boards; per instance: timers, goroutines | cron assignment, timer and monitor completion, recovery, rewards, publication | an event is started once with its rooms, completed once as a whole, after its dates; its end is announced and rewarded at most once; an expired event is completed in the end |
| **Scoring of a room** (`event_hub.go` 1460-1990, `internal/handlers/submission.go`, trigger and index in `migrations/`, `sqlc/schema.sql`) | `submissions.status`, `room_players.score`, row locks; per instance and room: the `Events` channel | submit, judge, score transaction, leaderboard, completion | a problem is scored once; the final boards hold every point; nothing is accepted after the end |
| **Places, boards, rewards** (`sqlc/query.sql`, `event_hub.go` 762-955) | `room_players.place`, `leaderboard_entries`, `guild_leaderboard_entries`; achievements at the user service | rank a room, capture boards, read the ranking, grant | places follow the scores, so do the achievements, each to one player |
| **RoomHub channels, SSE** (`event_hub.go` 1150-1450, 2150-2255, `internal/handlers/sse.go`) | `EventHub.Rooms`, `Listerners`, a channel of capacity 10 per room | join, leave, expiry, both cleanups | no send on a closed channel, no channel closed twice, no hub waits for itself |
| **Streams of a room** (`event_hub.go` 960-1150, 1350-1450, 1990-2150, `sse.go`) | a queue per instance, a channel per listener | publish, consume, dispatch, show | a player gets every leaderboard once, and last that of the room |
| **EventExpired broadcast** (`event_hub.go` 690-760, 960-1040, 1290-1350, `internal/client/rabbitmq`) | one exclusive queue per instance | publish with retries, consume | an instance hears of an end at most once |
| **Presence of players** (`sse.go`, `event_hub.go` 2010-2150, `events.go` 1340-1459) | `room_players.state` | join, disconnect, leave, final state | who is connected is shown and judged as such |
| **Guild registration, member selection** (`internal/handlers/events.go` 560-1290) | `event_guild_participants`, `event_guild_members` | register, select, remove | limits on guilds and members hold; members play for a registered guild |
| **Event requests** (`events.go` 100-560, 800-1000) | `event_requests`, `events` | request, approve, decline | an approved request has its event and its requester takes part |
| **Room assignment** (`event_assignment.go` 185-395) | rooms, guilds of rooms, problems of an event | count rooms, distribute guilds, choose problems | one assignment; every guild that was on time in one room, no room empty or too full; no problem twice |
| **Problems, tags, languages, test cases** (`internal/handlers/problems.go`) | `tags`, `code_problems` and what refers to them, `submissions` of practice | create, update, delete, submit | names unique, references kept, a problem is what one request said |
| Code execution (`internal/client/executor`) | none | execute a program | external service: any verdict |
| Guild leaderboard notifications (`event_hub.go` `Start`, `GuildUpdateChan`) | a channel nothing sends to | none that happens | - |
| Queries, gRPC event service, user client, HTTP plumbing, generated code | rows handled one by one, or nothing | read only queries, wrappers | - |

### How they interact

* **Shared rows.** Instances talk mostly through PostgreSQL (READ COMMITTED).
  The compare-and-swap `UPDATE events SET status = ... WHERE status = ...`
  elects the one job that starts or completes an event; the rows of
  `room_players` order score transactions and the completion, because both
  update them.
* **Messages.** `EventExpired` goes through a fanout exchange into the exclusive
  queue of each instance. Both die with the instance.
* **Channels.** HTTP handlers and the AMQP listener put items into the `Events`
  channel of a RoomHub, whose only goroutine handles them one after the other
  and sends results of judging to its own channel.
* **Read committed rows.** Handlers of `events.go` and `problems.go` read, decide
  and write; each statement sees what was committed when it ran. Only
  constraints, row locks and compare-and-swaps make what was read stay true.
* **Memory.** Timers, the map of rooms and the listeners are lost in a crash;
  `recoverActiveEvents` rebuilds the timers, the monitor replaces lost ones.

### What is hard

Several timers and monitors complete the same event; timers are armed before
the commit they belong to; commits can be lost or unacknowledged; an instance
dies between its commit and what must follow it; score transactions run while
the completion captures the boards; locks of rows are taken in different orders;
checks read committed rows that another transaction is about to change; rows
exist only after a message was handled; one goroutine per message and listener
lets messages overtake each other; three queries rank players in three ways.
`PROJECT.json` lists every such hazard at its line with the properties that catch
it, or says why none does. Where the code does go wrong (a hub that waits for
itself, connections of one player that overlap, two approvals of a request, a
guild that registers too late, ties), the properties say what holds besides, and
the note of the hazard says what they leave out.

## 2. Modules

| Module | Role |
|---|---|
| `EventOutcome` | what the service promises about the life of an event, without instances |
| `EventLifecycle` | the jobs of all instances over the shared database; implements `EventOutcome` |
| `MCEventLifecycle` | its instances for TLC |
| `EventLifecycle_proofs` | its theorems |
| `ScoreOutcome` | what a room promises about its scores, in three operators |
| `Scoring` | the hubs, transactions, locks, trigger and index behind them; implements `ScoreOutcome` |
| `MCScoring` | its instances for TLC |
| `Scoring_proofs` | its theorems |
| `RoomHub` | one room in one instance: hubs, channels, listeners, both cleanups |
| `MCRoomHub` | its instances for TLC |
| `RoomHub_proofs` | its theorems |
| `RoomAssignment` | the arithmetic of the distribution of guilds over rooms, as operators |
| `Registration` | requests, approvals, registrations, members and the assignment, handlers at once over READ COMMITTED; extends `RoomAssignment`, implements the start of `EventOutcome` |
| `MCRegistration` | its instances for TLC |
| `Registration_proofs` | its theorems, and those of `RoomAssignment` for every number of guilds |
| `RoomPresence` | `room_players.state` under the hubs, the goroutines of streams and the completion |
| `MCRoomPresence` | its instance for TLC |
| `RoomPresence_proofs` | its theorems |
| `RoomStreams` | leaderboards on their way from the rows to the players of all instances |
| `MCRoomStreams` | its instance for TLC |
| `RoomStreams_proofs` | its theorems |
| `Standings` | the three rankings, the captured boards and the achievements |
| `MCStandings` | its instance for TLC |
| `Standings_proofs` | its theorems |
| `ProblemCatalog` | tags, problems, practice submissions, and the problems of an event |
| `MCProblemCatalog` | its instance for TLC |
| `ProblemCatalog_proofs` | its theorems |

`EventLifecycle`, `Scoring` and `Registration` are about all instances over the
shared database, `RoomHub` about the memory of one, `RoomStreams` and
`RoomPresence` about both. They share actions of the code, not variables, and
meet in what they show of each other:

* `EventOutcome` is what `EventLifecycle` and `Registration` both implement: the
  assignment that the former takes for one step which gives rooms
  (`ApplyAssignment`) is a transaction of several statements in the latter, and
  `ImplementsStart` says that it looks like that step.
* The completion that `Scoring` runs as one process, and `RoomPresence` and
  `Standings` as one or two steps, is the subject of `EventLifecycle`. `Scoring`
  is the reason why `Standings` may take a score transaction for one step.
* `EventExpired`, which `EventLifecycle` puts into the queue of an instance, is
  what `RoomHub!ReceiveExpired` finds there; the queue of `Scoring` is the
  channel of `RoomHub` without its limit.
* `RoomAssignment` is extended by `Registration`; what its operators promise is
  proved in `Registration_proofs` and used there.

### EventLifecycle

A job `<<instance, kind, event>>` is a goroutine: the handling of a cron request
(`StartPendingEvents`), an expiry timer (`ScheduleEventExpiry`) or the monitor
(`startExpiredEventMonitor`). `pc[job]` says where it is:

    cron      idle -> a_cas -> a_assign -> a_commit -> idle
    timer,    idle -> c_cas -> c_players -> c_rooms -> c_guilds -> c_commit
    monitor                                                -> publish -> idle

* `a_cas`, `c_cas`: the compare-and-swap of the status. `FindsRow` waits while
  another transaction holds the row (`rowLock`) and then decides on the
  *committed* status; `MissesRow` is the "already processed" return.
* `ApplyAssignment`, `ApplyCompletion` are what a commit makes visible. Before
  it, nothing is: a crash, `StatementFails` or `CommitFails` leaves no trace in
  the database (but an armed timer stays armed).
* `CommitUnacknowledged`: the database commits, the handler sees an error and
  does nothing of what follows a commit.
* `GuildCaptureFails`, `CommitAborted`: the capture of the guild board fails,
  the code goes on, PostgreSQL does not.
* After its commit a completion starts two reward goroutines (`granting`) and
  publishes (`publish`, `tries` up to `MaxRetries`, cancelled by its context).
* `inbox` holds `EventExpired` in the queues of the instances; `BoundQueues`
  are the queues that exist when the message is published.
* `Crash` empties timers, goroutines and queue of the instance and releases its
  rows; `Restart` and `RecoverActiveEvents` bring it back.
* The clock of an event goes from `early` through `assignable`
  (`assignment_date` has passed) to `ended` (`end_date`).

Abstracted: what rooms, boards and messages contain (`roomBoards` counts
captures), and how many rows a statement touches. Two timers that one instance
holds for the same event run through one job, one after the other; the monitor
handles expired events one after the other, as in the code. A queue counts as
bound as soon as its instance is up: the window before `Consume`, and an
instance whose `Consume` fails for good (`event_hub.go:981`), only lose
messages. Approval registers the requester's guild, so an event without any
guild (`Unattended`) comes only from rows written by others; the code has a
branch for it, so has the model.

### Scoring

One room, one event. Each instance has a RoomHub for it: `queue[i]` is its
channel, `pc[i]` its goroutine, `cur[i]` the item it works on.

    "submitted": idle -> execute -> idle                (CreateSubmission, ExecuteCode)
    "result":    idle -> wrong -> idle
                 idle -> begin -> dup -> score -> add -> lock -> commit -> idle
    "joined":    idle -> rank -> lock -> idle

* `add` is the UPDATE of one player's score, `lock` the SELECT ... FOR UPDATE of
  the leaderboard over the whole room. A statement takes its rows one by one:
  `todo[t]` are those it still has to lock, `rowLock[p]` says who has the row of
  a player. That is where deadlocks come from; `DeadlockVictim` is PostgreSQL's
  detector.
* `TriggerAllows` is `validate_submission_event_active`: the committed status,
  and `NOW()`, which is the beginning of the transaction. `IndexAllows` and
  `IndexWaits` are the unique index on accepted submissions.
* The completion transaction is a process of its own (`completer`): it updates
  all rows, captures the room boards, then the guild board, and commits. Who
  runs it is the subject of `EventLifecycle`.
* `credits[<<player, problem>>]` counts how often the points of a problem were
  given; the boards are captures of it. Names, points and places are not in the
  model, so it says nothing about ties.
* `Early` are players with a row in `room_players` from the start; others get
  theirs when their `joined` item is handled.

Abstracted: `JoinRoom` does not model the checks of token, guild and selection
(they only refuse requests); the channel of a hub is unbounded here (its
capacity of 10 is the subject of `RoomHub`); a player who is in the room
already gets only its leaderboard refreshed (the write of its state belongs to
the presence module).

### RoomHub

A hub is a number: the room may get several during the life of the process, one
after the other, and a goroutine may still hold an old one. `current` is the hub
in `EventHub.Rooms`, `queue[h]`, `closed[h]` its `Events` channel, `listeners[h]`
its `Listerners`, `pc[h]` its goroutine, `cleanup[h]` the timer of
`scheduleRoomCleanup`. A connection is one request of a player for the stream,
so a player who comes back is two of them:

    new -> (load ->) found -> joining -> streaming -> returning -> closing -> done

* `load` is between the two looks into `Rooms` (`StillMissing` is the second);
  `joining` has the listener registered and waits to send `PlayerJoined`;
  `returning` and `closing` are the two deferred calls; `leaving[h]` counts the
  goroutines that the first one starts.
* Sends wait when the channel is full (`CanSend`) or skip it (`SendExpired`,
  the submission), and panic when it is closed. `Panic` ends the process:
  the goroutine of a hub, a timer, the ticker, the AMQP listener and the
  goroutine of `SendLeft` have no recover. A panic in an HTTP handler is
  recovered by `net/http` after the deferred calls, so a closed channel sends
  `SendJoined` to `returning`, and submissions and leaves that meet one change
  nothing and are left out.
* `Settled` is how five and thirty minutes are told from a moment: timers and
  inactivity come only when every goroutine waits. `BecomeQuiet` waits for the
  earlier timer of the same hub.
* `sweeping` is `cleanupInactiveRooms` between `isInactive`, which has given the
  lock of the hub back, and the close. It holds the lock of the map meanwhile,
  so nobody looks a hub up.

Abstracted: the checks before a join only refuse; what the streams carry (the
goroutines of `dispatchEvent` recover, `event_hub.go:1446`, and change nothing
else); submissions, leaves and room messages look the hub up and use it in one
step (between the two only a close can come, which then changes nothing, or a
panic that is recovered). `processRoomDeleted` is never reached: nothing sends
`RoomDeleted`. The end of an instance is the end of a behaviour: a new process
starts from `Init`.

### RoomAssignment and Registration

`calculateRoomCount`, `guildsPerRoom` and `roomOf` are the functions of
`event_assignment.go`, with the integer division of Go. `Registration` is what
leads to their use. `job[h]` is a request being served by handler `h`, with what
it has read; a step is one statement whose result is kept, or the commit:

    approve, decline  idle -> decide -> idle
    register          idle -> count -> insert -> idle
    select, remove    idle -> select | remove -> idle
    cron request      idle -> participants -> assign -> idle

* `decide`: the request was read as pending outside the transaction;
  `UpdateEventRequestStatus` then writes by id whatever the status is by now.
* `count`, `insert`: `CountEventParticipants` and the insertion are statements of
  one transaction; under READ COMMITTED another may commit between them.
* `participants`: the compare-and-swap of the status has found the event
  (`FindsPending`, which waits for the row while another assignment holds it);
  the guilds are read after it. `onTime` remembers those that were there before.
* `AssignRooms` gives the guilds rooms in the order of `joined_at`, the time
  their transactions began, so in any order (`Orders`).
* `Abandon` is a failed statement or a dead instance: the transaction is rolled
  back.

`GetEvents`, `MyAssignedRooms`, `MayJoin` and their neighbours are what the
reading handlers answer; the properties are stated with them, so that they say
what a client sees. Abstracted: dates and descriptions, tokens and roles (they
only refuse), the failed assignment of problems (`ProblemCatalog`). The end of
events is not here.

### RoomPresence

A connection `c` of a player goes

    new -> allowed -> checked -> open -> closing -> gone

The handler checks the end date, reads whether the player has left, registers
the listener and sends `PlayerJoined` (`open`), and when the stream ends a
goroutine writes `disconnected` (`closing`). `hub[i]` is the goroutine of the
hub of instance `i`: it reads the state of the player, and later inserts or
updates the row. `verdict` is what the open completion transaction has made of
the rows it holds. A player whose connections overlap, or who met a failure, is
in `overlapped`: the properties are about the others, for whom they could be
expected, and false without that proviso.

### RoomStreams

A leaderboard is the number of the change of the room's rows it was read after.
`hub[i]` reads it and publishes it; `wire[i][k]` holds what instance `i` sent to
the queue of `k`, in order; `sending[p]` are the goroutines `dispatchEvent`
started for a player; `shown[p]` is what was put into his channel last.

What can fail, each time with the way the code goes on: the statements of a join
(`ProcessPlayerJoined` gives up without a leaderboard and without a retry, and
the row may be there or not: the INSERT is a transaction of its own), the
acknowledgement of a score's commit (`ProcessSolutionResult` gives up, the points
count), the handler's `disconnected` (ignored), the read of the rows (a
leaderboard without entries goes out when a player left, none otherwise), a
publication (logged), and the send to a full channel (dropped). Solved problems
and failures together are at most `MaxEvents`. `lost` holds those who missed
something by it: after a failed join the player, and if the row is there everyone,
because no leaderboard will tell of it. An instance that stops takes its
players' streams with it, and nobody is promised anything then.

Abstracted: the other room messages (they take the same way), and a player who
disconnects before his join is handled (`RoomPresence`). A player without a row
connects once; a player who returns already has his row, and a leaderboard that
shows it.

### Standings

Scores, submission times and join times as small numbers, and the three orders:
places of a room (`CalculateRoomLeaderboard`, by score, last accepted attempt and
join, *before* the attempt of that transaction is accepted), final boards (the
same order, after it), and the list of the rewards (by score and join alone).
A guild is ranked by the sum of its members' points (`Total`), and its
achievement is that of the captured board. `StartGranting` reads a list,
`GrantAchievement` is one call to the user service, which may fail. Everything
that `Scoring` and `EventLifecycle` show to be atomic or to happen once is one
step.

### ProblemCatalog

Handlers look a tag or a problem up and write later; what they saw is kept by
nothing but the unique index on `tags.name` (`IndexAllows`), foreign keys
(`Unused`, `Deletable`), whose checks lock the row referred to (`Unlocked`), and
the lock of an updated row (`RowFree`). A problem being written is a job
`"link"`: its tags are inserted one by one and everything is visible at the
commit. `GetRandomCodeProblems` is one query of the assignment, for one entry of
the wanted difficulties. `SubmitHandler` and `UpdateSubmission` are practice
submissions, `SubmitCodeSolution` the gRPC call. Abstracted: statements and code
of problems, lists and pages, the trial run of a solution before a problem is
created (it only refuses), the languages beyond their identity.

## 3. Runs

| Run | Bounds | Shows |
|---|---|---|
| `EventLifecycleSafety` | 2 instances, 1 event, 2 failures, 1 crash, 2 publish attempts | `IInv` (with `TypeOK`), `FinalBoardsMatchStatus`, `StartedEventsHaveRooms`, `RewardsOnce`, `ExpiryHeardOnce`, `StatusFollowsClock`, that `EventOutcome` is implemented, and that an expired event is completed (`ExpiredEventsComplete`) |
| `ScoringSafety` | 2 instances, 2 players (one joins late), 3 attempts; or 2 of them, a join, and 1 failure or crash (`FewEvents`) | `IInv`, `SolvedOnceScoredOnce`, `FinalBoardsExact`, `NoneAcceptedAfterEnd`, and that `ScoreOutcome` is implemented |
| `ScoringLive` | 2 instances, 2 players with rows, 2 attempts, 2 failures | `EverythingSettles` although transactions deadlock |
| `ScoringAbsent` | one player without a row | *violation* of `AcceptedMeansScored` |
| `RoomHubSafety` | 2 connections of one player, 2 hubs, capacity 2, 1 submission or leave | `IInv`, `ListenersAreOpen`, `OneLiveHub`, `RoomsInUseNeverPanic`, and that hubs serve their channels (`HubsServe`) |
| `RoomHubCleanup` | the same | *violation* of `CleanupIsGraceful` |
| `RegistrationSafety` | 2 handlers at once, 2 events, 4 guilds, 1 request, 1 player, 3 guilds per event | `IInv`, `GuildsWithinCapacityAndOverlap`, `EventsPerRequest`, `RequesterTakesPart`, `OnTimeGuildsHaveRooms`, `RoomsAreFilled`, and that the start of `EventOutcome` is implemented (`ImplementsStart`) |
| `RegistrationCapacity` | the same | *violation* of `GuildsWithinCapacity` |
| `RoomPresenceSafety` | 2 instances, 3 connections of one player, 1 failure or crash | `IInv` (with `TypeOK`), `OrderlyPlayersShown`, `OrderlyPlayersJudged`, `JoinsAreShown` |
| `RoomStreamsSafety` | 2 instances, a player at one of them, 2 solved problems or failures together (`MaxEvents`) | `IInv` (with `TypeOK`), `StreamsFollowRoom`, `JoinersGetBoards` |
| `StandingsSafety` | 3 players of 2 guilds in a room, 6 moments, 2 top places | `IInv` (with `TypeOK`), `RoomPlacesFollowScores`, `RewardsFollowScores` |
| `ProblemCatalogSafety` | 2 handlers at once, 2 tags, 2 names, 2 problems, 2 languages, 1 submission, one problem wanted of each of two difficulties | `IInv`, `TagsConsistent`, `ProblemsOfOneRequest`, `EventProblemsFit` |

Why the bounds are enough to be interesting: every race of the lifecycle is
between two jobs over one row, and an instance already has three jobs per event;
two instances add the queue and the crash of one while the other goes on; two
failures let a retry fail again. A room needs two players for a circle of row
locks, two attempts of one player for a double score, an absent player for an
update without a row. A room needs one player who comes back for two
connections of the same entry of the map (the other is refused, or takes its
place), two hubs for a stale one, and a channel of two for a join and a leave
that fill it while a result is to be sent: capacity 10 needs eight more senders
for the same wait. The limit of connections never binds there; the proofs, which
hold for any limit, do not rest on it.

Registrations, approvals and assignments conflict in pairs, so two handlers
suffice; four guilds for three places let two insertions meet at the last place
and give an event two rooms; two events let one request become both. A player
needs an older stream, the present one and a third after it (three connections)
to be overtaken from both sides, and two instances for hubs that do not wait for
each other. Leaderboards overtake each other as soon as two hubs publish; one
listener is enough since listeners share nothing, and two events make every pair
of a solved problem and a failure, such as a join that fails while the other hub
publishes. Ties need three players: two
of one guild, so that guilds and players are ordered differently. Each lost
update and each broken reference in the catalog needs two handlers; the second
problem and tag are there to be mixed up with the first. The proofs lift all of
the safety properties of passing runs to all bounds (section 5).

`CHECK_DEADLOCK FALSE` is said everywhere because the system really stops: an
event is over, a bounded number of attempts was sent, nothing is left to do.
Symmetry is used for safety only: over instances in `ScoringSafety`, over
handlers and other interchangeable values in the runs of `Registration` and
`ProblemCatalog`.

### What the violations say

They are listed under `findings`, each with the line it contradicts:

* a player without a row gets an accepted submission without points
  (`event_hub.go:1760`);
* after the cleanup of a room, "removed by EventHub cleanup routine", that
  routine closes the same channel again and the process dies; with a player
  connected, the goroutine of the closed stream does it at once
  (`event_hub.go:2251`);
* two guilds that register at the same time both take the last place, although
  a transaction is used "to prevent race condition on capacity check"
  (`events.go:677`). `GuildsWithinCapacityAndOverlap` says by how much at most,
  and `OneHandlerKeepsCapacity` that nothing else causes it.

### Stated and refuted, but not among the runs

These are definitions of the modules, each contradicting a comment of the code.
Add one to the `PROPERTY` or `INVARIANT` lines of the configuration named here to
see TLC's counterexample:

* `EventLifecycle!GuildLeaderboardIsOptional` (`EventLifecycleSafety.cfg`): a
  failed guild board capture does not let the completion go on, it rolls it back
  (`event_hub.go:310-328`);
* `EventLifecycle!ExpiryReachesEveryInstance` (`EventLifecycleSafety.cfg`): after
  the last failed publication nobody publishes again; the monitor, named as the
  mitigation, only looks at *active* events (`event_hub.go:754`);
* `Scoring!InstancesNeverDeadlock` (`ScoringSafety.cfg`): instances scoring two
  players of a room deadlock, and the victim's correct answer stays pending for
  good (`event_hub.go:1760-1774`);
* `Scoring!InTimeSubmissionsProcessed` (`ScoringSafety.cfg`): a correct result
  whose transaction begins after the end date is refused by the trigger although
  the code says it is processed (`migrations/...:49`);
* `Standings!RewardsFollowBoard` (`StandingsSafety.cfg`): a tie is broken by the
  last accepted submission on the captured board and by the time of joining in
  the list of the rewards, so that the second of the board can get the
  achievement of the first. `PlacesFollowBoard` fails for a similar reason:
  places are calculated before the attempt is accepted.

## 4. Fairness

`EventLifecycle!Fairness`: a running goroutine goes on (weak fairness of
`JobStep`; a statement waiting for a row is not enabled meanwhile), the monitor
comes back every 60 seconds, an instance consumes its queue, and a crashed
instance is restarted by its platform. Nothing is assumed of the clock, of the
cron caller, or of timers: `ExpiredEventsComplete` rests on the monitor.

`Scoring!Fairness`: weak fairness of each hub, of the completion (which the
monitors retry) and of deadlock detection; strong fairness of taking a row lock,
since PostgreSQL queues the transactions that wait for a row, so that one that
waits while the row is freed again and again gets it.

`RoomHub!Fairness`: each goroutine goes on unless a channel holds it up, and so
do the cleanup and the listener once they have begun. Weak fairness of a send is
enough for what is claimed (a sender may lose the race for a free place for
ever; `HubsServe` is about the reader). Nothing is assumed of clients, the
broker or the time that passes.

`RoomPresence!FairSpec`: a hub goes on with what is in its channel (its statement
is not enabled while the completion holds the row), and the completion, which
the monitors retry, goes on. Players need not come or go.

`RoomStreams!FairSpec`: hubs, the consumers of the queues and the goroutines of
`dispatchEvent` go on. Nobody has to join, leave or solve.

`Registration`, `Standings` and `ProblemCatalog` claim no liveness: a handler may
be abandoned at any point, as a request may be.

## 5. Proofs

Checked by TLAPS for all values of the constants that satisfy the named
assumptions (`LifecycleAssumption`, `ScoringAssumption`, `RoomHubAssumption`,
`RegistrationAssumption`, `PresenceAssumption`, `StreamsAssumption`,
`StandingsAssumption`, `CatalogAssumption`; `RoomAssignment` needs none). They
ask for finite sets where something is counted or ranked, for limits and
capacities that are numbers, and in a few places for values that differ: players
are not guilds, and no two guilds registered at the same time (they break the
ties of guilds).

| Module | Theorem | States |
|---|---|---|
| `EventLifecycle_proofs` | `TypeCorrect`, `Invariant` | `Spec => []TypeOK`, `Spec => []IInv` |
| | `FinalBoardsCorrect`, `RoomsCorrect`, `RewardsCorrect`, `ExpiryCorrect` | `FinalBoardsMatchStatus`, `StartedEventsHaveRooms`, `RewardsOnce`, `ExpiryHeardOnce` |
| | `StatusCorrect` | `Spec => StatusFollowsClock` |
| | `Refinement` | `Spec => ImplementsOutcome` |
| `Scoring_proofs` | `TypeCorrect`, `Invariant` | `TypeOK`; `IInv`, in a room with a player |
| | `FinalBoardsCorrect`, `NoLateAcceptance` | `FinalBoardsExact`, `NoneAcceptedAfterEnd`, in a room with a player |
| | `SolvedOnce` | `SolvedOnceScoredOnce`, in every room |
| | `Refinement` | `Spec => ImplementsScoreOutcome`, in a room with a player |
| `RoomHub_proofs` | `TypeCorrect`, `Invariant` | `TypeOK`; `IInv` |
| | `ListenersCorrect`, `OneHubCorrect`, `NoPanicCorrect` | `ListenersAreOpen`, `OneLiveHub`, `RoomsInUseNeverPanic` |
| `Registration_proofs` | `NoRoomEmpty`, `NoRoomTooFull` | what the distribution of `RoomAssignment` does with any number of guilds |
| | `TypeCorrect`, `Invariant` | `TypeOK`; `IInv` |
| | `CapacityExceededByOverlapOnly`, `OneHandlerKeepsCapacity` | `GuildsWithinCapacityAndOverlap`; `GuildsWithinCapacity` for one handler |
| | `RequestsBecomeFewEvents`, `EventsHaveRequester` | `EventsPerRequest`, `RequesterTakesPart` |
| | `MembersOfParticipants` | members are of registered guilds, and of their own |
| | `AssignedOnce`, `NoGuildLeftOut` | `RoomsAreFilled`, `OnTimeGuildsHaveRooms` |
| | `Refinement` | `Spec => ImplementsStart` |
| `RoomPresence_proofs` | `TypeCorrect`, `Invariant` | `TypeOK`; `IInv` |
| | `PlayersShown`, `PlayersJudged` | `OrderlyPlayersShown`; `Spec => OrderlyPlayersJudged` |
| `RoomStreams_proofs` | `TypeCorrect`, `Invariant` | `TypeOK`; `IInv` |
| | `StreamsCorrect` | `StreamsFollowRoom` |
| `Standings_proofs` | `TypeCorrect`, `Invariant` | `TypeOK`; `IInv` |
| | `PlacesFollowScores`, `CapturedBoards`, `RewardsCorrect` | `RoomPlacesFollowScores`, `BoardsFollowScores`, `RewardsFollowScores` |
| `ProblemCatalog_proofs` | `TypeCorrect`, `Invariant` | `TypeOK`; `IInv` |
| | `TagsStayConsistent`, `ProblemsStayWhole`, `EventProblemsStayFit` | `TagsConsistent`, `ProblemsOfOneRequest`, `EventProblemsFit` |

**EventLifecycle.** "Completed once" is not inductive. `RowLocks` carries it: a
job inside a transaction holds the row of its event and the committed status is
still the one it matched, so two jobs are never inside transactions for the same
event, and a commit always starts from `active`. `OnePublisher` follows: only
the job that committed publishes, and nobody heard of the end before.
`DatesPassed` remembers that a job past its query started after the date, which
gives `StatusFollowsClock`. `OnlyUpInstancesRun` is what makes crashes harmless:
nothing that runs, and no reward in flight, belongs to an instance that is down.
The refinement uses these: the two commits map to `Activate` and `Complete`,
the publication and the end of a reward goroutine to `Announce` and `Grant`,
everything else to a stutter.

**Scoring.** `RoomLocks` carries the argument. A transaction over the whole room
has, or still waits for, the rows of all players who were there from the start;
when its statement is finished it has them all, and with one such player two
transactions cannot both be there (lemma `Exclusion`). So no score commits
between a capture and the commit of the completion (`OpenTransactions`), the
boards are exact, and no score commits after it. `Early # {}` is needed: in a
room without rows nothing orders a score and the completion, and `TriggerAllows`
reads the committed status only (set `Early = {}` in `ScoringSafety.cfg` to see
`NoneAcceptedAfterEnd` fail).

`SolvedOnceScoredOnce` needs more than the locks, and no player in the room.
`AttemptsHandledOnce` says where an attempt is: in one place of one channel, or
in the hands of one goroutine, or nowhere any more, with a row that is absent,
pending or final accordingly; so a wrong answer never overwrites an accepted one.
The unique index gives `CommitsAgree`: of the transactions that have marked their
submission and not committed, no two are for the same player and problem, and
none is for a problem that is solved. With both, `CreditsAgree` (points and
accepted submissions belong together) is preserved by the only step that touches
either, `CommitScore` (lemmas `NothingSolved`, `ScoreCommitted`). In the
refinement that commit is `Solve`, the commit of the completion is `Close`, and
everything else is a stutter.

**RoomHub.** `ListenersAreOpen` carries the weight: it ties each entry of the map
to a handler that has not begun to close its channel, and to one entry per
player, so that deleting by player (`WithoutPlayer`) never leaves the entry of
the handler that closes. Only `CloseListeners` closes the channel of somebody
else, and it empties the map in the same critical section. With it, neither
`ProcessEventExpired` nor `CloseListeners` can panic; every other panic has a
closed hub behind it (`HubsOK`: what is not in `Rooms` is closed, the hub being
swept is the one in `Rooms`, the listener that holds a hub holds a real one).

**RoomAssignment.** Arithmetic on Go's division. With r = ceil(n / 4) rooms and
ceil(n / r) guilds to a room, the last room still starts before the n-th guild,
which is what keeps it from being empty; that no room exceeds four follows from
4 r >= n.

**Registration.** `JobsKnowEvents` says what survives the gap between a read and
a write: the request or event a handler knows exists, and the one that holds the
row of an event finds it pending until it commits, and has read the guilds that
were on time. The capacity argument is one sum, guilds in the event plus
handlers about to insert (`Inserting`): when a handler finds a place, there are
at most `MaxGuilds - 1` guilds and no more handlers than there are at all; after
that an insertion takes one from the latter and adds at most one to the former.
`EventsPerRequest` is the same argument with `Deciding` in the place of
`Inserting`, from the moment a request is read as pending and has no event.
That the rooms of an assignment are
neither empty nor too full is shown without induction: an order of the guilds is
an injection into 1..n, so the guilds of a room correspond to the numbers that
`roomOf` sends there, and `NoRoomEmpty` and `NoRoomTooFull` count those. The
refinement maps the commit of the assignment to `Activate`; no other step gives
a room or changes a status to `active`.

**ProblemCatalog.** None of the properties is inductive, since what handlers have
read is not in them. `WritersKnow` says what an open transaction may rely on: its
problem is written by nobody else, the tags it has deleted are still those of
the committed problem, and those it refers to exist. It is preserved because a
changed tag is one no transaction refers to (lemma `TagWritten`) and a changed
problem is one the committing handler alone writes (lemma `Committed`). From it
the commit yields exactly the content of its request. `LookedUp` and
`NothingDeleted` show that the removal of a problem is always refused: a problem
that exists has languages, and nothing removes those; so problems stay
(`ProblemsStay`), and with them what judges (`JudgesKnow`) and assignments
(`ChoicesFit`) have read.

**RoomPresence.** What is shown of a player depends on joins that wait in a
channel and on a hub that has read his row and not written it. `Orderly` says
what an orderly player has: one connection at a time that is live or whose join
is not handled, and an unhandled join only of an open one. With it `ReadsHold`
is preserved: nobody else writes the row between the read and the write of the
hub, so an insertion meets no row and an update does not miss one. `VerdictsFit`
is about everybody: the open completion holds what the rows say, because each
writer of a row waits while the completion has it; so its commit judges by the
state the row has then (`JudgedStep`), not by an older one. `JoinsAtHome` keeps
the hubs of two instances from working on the same connection.

**RoomStreams.** Three facts. `InOnePlace`: a leaderboard is in the queue, with a
goroutine or shown, in one of them, and its number is new when it is published;
so nobody gets one twice. `Covered` counts what a player has or will get; a step
that could lose something puts him into `lost`, and so does a change after which
the hub gives up: the branches of `ProcessPlayerJoined` and
`ProcessSolutionResult` that leave the hub idle change the rows only if they put
everybody there. For the last leaderboard shown,
`UpToDate` goes along the pipeline from its beginning: unless a read is still to
come, the hub that publishes has the present leaderboard; if none publishes, the
last message of every queue that is not empty is it; if all are empty, the
goroutine has it; if there is none, it is what was shown. Each step moves it by
one stage, provided that one instance at a time is busy and one goroutine sends
to the player (`OneAtATime`); `raced` records for whom that has failed.
`ChangesCounted` is an upper bound, as failed statements change nothing; only the
type invariant needs it.

**Standings.** Everything rests on what `ROW_NUMBER()` over a total order does,
lemma `RowNumbers`: the rank of a row, one more than the rows ahead of it, is one
of 1..n, no two are equal, and a row ahead of another has a smaller one. The three
orders are shown to be strict and total (`AheadOrder`, `ByScoreOrder`,
`GuildOrder`), which needs join times of their own (`JoinsOrdered`) and last
attempts that are times (`LatestIsOne`). Places are
preserved by a score because whoever scores ranks his room in the same
transaction, and by a join because newcomers have no points. Boards and lists
stay true because no score changes after the completion
(`FinalAfterCompletion`), also for guilds, whose totals a late member does not
change (`TotalsStay`). That of two achievements the better belongs to the better
rank is `AchievementOrder`; `RewardsFit` puts them together.

Only model-checked: liveness (`ExpiredEventsComplete`, `EverythingSettles`,
`HubsServe`, `JoinsAreShown`, `JoinersGetBoards`), which the prover cannot do.
Every safety and action property of a passing run is proved, for all bounds,
where the table names no restriction.

## 6. Not modelled

* **Leaderboard queries and pages** (`leaderboard.go`, lists of events, requests
  and problems): they return rows, change nothing and depend on nothing read
  before. The reads that properties are about are operators (`GetEvents`,
  `MyAssignedRooms`, `GetEventProblems`).
* **User client, authentication, HTTP plumbing**: wrappers that refuse a request
  or pass it on. Roles are the difference between who may call which action.
* **Generated code** (`protos/`, and of `store/` all but the queries that the
  actions stand for).
* **Guild leaderboard notifications** (`EventHub.Start`): nothing sends to their
  channel.
* **The executor** is an external service: any verdict, or none.
* **The loss of the broker connection**: the client does not reconnect, so an
  instance that lost it hears of nothing any more; a model would only say so.
* **The trial run of a solution** when a problem is created or updated: it can
  refuse the request, which is as if it had not been sent.

## 7. Plan

1. **Composition** of `RoomHub` with `Scoring`: one bounded channel for both, so
   that a full channel delays a score transaction past the end of the event.
2. **Boards seen by players**: `RoomStreams` with several players of an instance
   leaves out who sees whose changes; a leaderboard with rows in the place of a
   number would connect it with `RoomPresence`.
