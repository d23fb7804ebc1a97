------------------------------ MODULE Standings ------------------------------
(***************************************************************************)
(* Who is ahead: the places of the players in their rooms during an event, *)
(* the boards of players and guilds that its completion captures, and the  *)
(* achievements that are granted afterwards.                               *)
(*                                                                         *)
(* Three queries rank players, each in its own way, over the same rows.  A *)
(* step is one transaction or one call to the user service; Scoring shows  *)
(* why the score and completion transactions can be taken as one step each,*)
(* EventLifecycle why the rewards are granted once.  Wrong answers change  *)
(* nothing here.                                                           *)
(***************************************************************************)
EXTENDS Naturals, FiniteSets

CONSTANTS
    Players,
    Guilds,
    Rooms,
    GuildOf,     \* the guild of a player
    RoomOf,      \* the room of a guild
    GuildJoined, \* event_guild_participants.joined_at
    TopPlaces,   \* how many places have an achievement of their own: 3
    MaxTime      \* bound: joins and attempts

ASSUME StandingsAssumption ==
    /\ IsFiniteSet(Players) /\ IsFiniteSet(Guilds)
    /\ Players \cap Guilds = {}
    /\ GuildOf \in [Players -> Guilds]
    /\ RoomOf \in [Guilds -> Rooms]
    /\ GuildJoined \in [Guilds -> Nat]
    /\ \A g, k \in Guilds : GuildJoined[g] = GuildJoined[k] => g = k
    /\ TopPlaces \in Nat \ {0}
    /\ MaxTime \in Nat \ {0}

VARIABLES
    clock,
    joined,      \* room_players.joined_at, 0 without a row
    score,       \* room_players.score
    place,       \* room_players.place, 0 for NULL
    attempts,    \* submitted_at of the correct attempts that are judged
    last,        \* submitted_at of the last accepted attempt, 0 for none
    stale,       \* the rooms in which a join waits for its leaderboard
    completed,   \* the event is completed
    userBoard,   \* leaderboard_entries: the rank of each player
    guildBoard,  \* guild_leaderboard_entries: the rank of each guild
    list,        \* the order that each goroutine of the rewards has read
    next,        \* the rank that it grants next, 0 when it has not read
    awards       \* the achievements of players and guilds

rowVars == <<joined, score, place, last>>
boardVars == <<completed, userBoard, guildBoard>>
rewardVars == <<list, next, awards>>
vars == <<clock, rowVars, attempts, stale, boardVars, rewardVars>>

Kinds == {"players", "guilds"}
Nobody == [x \in {} |-> 0]

Init ==
    /\ clock = 1
    /\ joined = [p \in Players |-> 0]
    /\ score = [p \in Players |-> 0]
    /\ place = [p \in Players |-> 0]
    /\ attempts = [p \in Players |-> {}]
    /\ last = [p \in Players |-> 0]
    /\ stale = {}
    /\ completed = FALSE
    /\ userBoard = Nobody
    /\ guildBoard = Nobody
    /\ list = [k \in Kinds |-> Nobody]
    /\ next = [k \in Kinds |-> 0]
    /\ awards = [x \in Players \cup Guilds |-> {}]

Room(p) == RoomOf[GuildOf[p]]
Rows == {p \in Players : joined[p] # 0}
InRoom(r) == {p \in Rows : Room(p) = r}
Members(g) == {p \in Rows : GuildOf[p] = g}

\* ROW_NUMBER(): one more than those who come before.
Ranking(S, Before(_, _)) ==
    [x \in S |-> 1 + Cardinality({y \in S : Before(y, x)})]

\* The earlier of two times; NULL counts as the end of all times.
Earlier(s, t) == s # 0 /\ (t = 0 \/ s < t)

\* ORDER BY score DESC, last accepted attempt, joined_at.
Ahead(sc, p, q) ==
    \/ sc[p] > sc[q]
    \/ sc[p] = sc[q] /\ Earlier(last[p], last[q])
    \/ sc[p] = sc[q] /\ last[p] = last[q] /\ joined[p] < joined[q]

\* Room r is ranked by these scores and what has been accepted by now.
CalculateRoomLeaderboard(r, sc) ==
    LET Before(p, q) == Ahead(sc, p, q)
        ranks == Ranking(InRoom(r), Before) IN
    place' = [p \in Players |-> IF p \in InRoom(r) THEN ranks[p] ELSE place[p]]

Now == clock' = clock + 1 /\ clock < MaxTime

-------------------------------------------------------------------------------
(* The event                                                               *)

\* PlayerJoined makes a row; the leaderboard is calculated in a transaction of
\* its own.  It may come after the completion.
AddPlayerToRoom(p) ==
    /\ joined[p] = 0
    /\ Now
    /\ joined' = [joined EXCEPT ![p] = clock]
    /\ stale' = stale \cup {Room(p)}
    /\ UNCHANGED <<score, place, last, attempts, boardVars, rewardVars>>

\* calculateLeaderboard; an error is logged.
CalculateLeaderboard(r) ==
    /\ r \in stale
    /\ stale' = stale \ {r}
    /\ \/ CalculateRoomLeaderboard(r, score)
       \/ UNCHANGED place
    /\ UNCHANGED <<clock, joined, score, last, attempts, boardVars, rewardVars>>

Submit(p) ==
    /\ joined[p] # 0
    /\ ~ completed
    /\ Now
    /\ attempts' = [attempts EXCEPT ![p] = @ \cup {clock}]
    /\ UNCHANGED <<rowVars, stale, boardVars, rewardVars>>

Latest(S) == IF S = {} THEN 0 ELSE CHOOSE t \in S : \A s \in S : s <= t

\* Mutant: the places are calculated before the point is added.
RankedBy(p) == score

\* The places are calculated after the point is added.
Scored(p) == [score EXCEPT ![p] = @ + 1]

\* The score transaction: the point, the places, and only then the attempt
\* becomes accepted, so that the places do not know it.
AcceptSubmission(p, t) ==
    /\ t \in attempts[p]
    /\ ~ completed
    /\ attempts' = [attempts EXCEPT ![p] = @ \ {t}]
    /\ score' = [score EXCEPT ![p] = @ + 1]
    /\ CalculateRoomLeaderboard(Room(p), Scored(p))
    /\ last' = [last EXCEPT ![p] = Latest({@, t})]
    /\ UNCHANGED <<clock, joined, stale, boardVars, rewardVars>>

-------------------------------------------------------------------------------
(* The completion                                                          *)

CaptureFinalRoomLeaderboards ==
    LET Before(p, q) == Ahead(score, p, q) IN
    userBoard' = Ranking(Rows, Before)

\* The points of the players in S, one by one, and their sum.
Points(S) == UNION {{p} \X (1..score[p]) : p \in S}
Total(S) == Cardinality(Points(S))

GuildLast(g) == Latest({last[p] : p \in Members(g)})

\* ORDER BY total score DESC, last accepted attempt, joined_at of the guild.
GuildAhead(g, k) ==
    LET a == Total(Members(g))
        b == Total(Members(k)) IN
    \/ a > b
    \/ a = b /\ Earlier(GuildLast(g), GuildLast(k))
    \/ a = b /\ GuildLast(g) = GuildLast(k) /\ GuildJoined[g] < GuildJoined[k]

CaptureFinalGuildLeaderboard ==
    guildBoard' = Ranking({g \in Guilds : Members(g) # {}}, GuildAhead)

CompleteEvent ==
    /\ ~ completed
    /\ completed' = TRUE
    /\ CaptureFinalRoomLeaderboards
    /\ CaptureFinalGuildLeaderboard
    /\ UNCHANGED <<clock, rowVars, attempts, stale, rewardVars>>

-------------------------------------------------------------------------------
(* The rewards                                                             *)

\* Mutant: the players are ordered by their places in their rooms.
ByPlace(p, q) ==
    \/ place[p] < place[q]
    \/ place[p] = place[q] /\ joined[p] < joined[q]

\* ORDER BY score DESC, joined_at.
ByScore(p, q) ==
    \/ score[p] > score[q]
    \/ score[p] = score[q] /\ joined[p] < joined[q]

GetAllPlayersByEvent == Ranking(Rows, ByScore)

GetGuildLeaderboardByEvent == guildBoard

\* A goroutine reads whom it will reward.
StartGranting(k, order) ==
    /\ completed
    /\ next[k] = 0
    /\ list' = [list EXCEPT ![k] = order]
    /\ next' = [next EXCEPT ![k] = 1]
    /\ UNCHANGED <<clock, rowVars, attempts, stale, boardVars, awards>>

\* Mutant: achievements are counted from 0, as the index of the loop is.
FromZero(n) == IF n <= TopPlaces THEN n - 1 ELSE TopPlaces + 1

\* The achievement of a place; TopPlaces + 1 is that of all participants.
Achievement(n) == IF n <= TopPlaces THEN n ELSE TopPlaces + 1

\* One call to the user service.  If it fails, the goroutine goes on.
GrantAchievement(k) ==
    /\ \E x \in DOMAIN list[k] :
          /\ list[k][x] = next[k]
          /\ \/ awards' = [awards EXCEPT ![x] = @ \cup {Achievement(next[k])}]
             \/ UNCHANGED awards
    /\ next' = [next EXCEPT ![k] = @ + 1]
    /\ UNCHANGED <<clock, rowVars, attempts, stale, boardVars, list>>

-------------------------------------------------------------------------------
Next ==
    \/ \E p \in Players :
          \/ AddPlayerToRoom(p)
          \/ Submit(p)
          \/ \E t \in attempts[p] : AcceptSubmission(p, t)
    \/ \E r \in Rooms : CalculateLeaderboard(r)
    \/ CompleteEvent
    \/ StartGranting("players", GetAllPlayersByEvent)
    \/ StartGranting("guilds", GetGuildLeaderboardByEvent)
    \/ \E k \in Kinds : GrantAchievement(k)

Spec == Init /\ [][Next]_vars

-------------------------------------------------------------------------------
(* Properties                                                              *)

\* Ranks of some of the members of S.
Rankings(S) == UNION {[T -> 1..Cardinality(S)] : T \in SUBSET S}

TypeOK ==
    /\ clock \in 1..MaxTime
    /\ joined \in [Players -> 0..MaxTime]
    /\ score \in [Players -> Nat]
    /\ place \in [Players -> 0..Cardinality(Players)]
    /\ attempts \in [Players -> SUBSET (1..MaxTime)]
    /\ last \in [Players -> 0..MaxTime]
    /\ stale \subseteq Rooms
    /\ completed \in BOOLEAN
    /\ userBoard \in Rankings(Players)
    /\ guildBoard \in Rankings(Guilds)
    /\ list \in [Kinds -> Rankings(Players) \cup Rankings(Guilds)]
    /\ list["players"] \in Rankings(Players)
    /\ next \in [Kinds -> Nat]
    /\ awards \in [Players \cup Guilds -> SUBSET (1..TopPlaces + 1)]

\* What the players of a room see: a place of one's own, better with more
\* points, and a place for everyone who has points, although joins and scores
\* are ranked by different transactions and the former may fail.
RoomPlacesFollowScores ==
    /\ \A p \in Rows : score[p] > 0 => place[p] # 0
    /\ \A p, q \in Rows : (Room(p) = Room(q) /\ place[p] # 0 /\ place[q] # 0) =>
          /\ place[p] = place[q] => p = q
          /\ score[p] > score[q] => place[p] < place[q]

\* "Top 3 players: Code Battle Top 1/2/3 achievements", and the same for guilds:
\* a better achievement never goes to a player or guild with fewer points, a
\* top achievement goes to one only, nobody gets two, and those of the guilds
\* are those of the captured board, whatever is lost between and whoever joins
\* late.
RewardsFollowScores ==
    /\ \A x \in Players \cup Guilds : Cardinality(awards[x]) <= 1
    /\ \A p, q \in Players : \A m \in awards[p], n \in awards[q] :
          /\ m < n => score[p] >= score[q]
          /\ m = n /\ m <= TopPlaces => p = q
    /\ \A g, h \in Guilds : \A m \in awards[g], n \in awards[h] :
          /\ m < n => Total(Members(g)) >= Total(Members(h))
          /\ m = n /\ m <= TopPlaces => g = h
    /\ \A g \in Guilds : \A n \in awards[g] :
          /\ g \in DOMAIN guildBoard
          /\ n = Achievement(guildBoard[g])

\* Joins have times of their own.
JoinsOrdered ==
    /\ \A p \in Players : joined[p] < clock
    /\ \A p, q \in Rows : joined[p] = joined[q] => p = q

\* Who has no row has nothing that is counted.
NothingWithoutRow ==
    \A p \in Players \ Rows :
        score[p] = 0 /\ place[p] = 0 /\ last[p] = 0 /\ attempts[p] = {}

\* The captured boards stay in the order of the scores, with a rank for each.
BoardsFollowScores ==
    /\ \A p, q \in DOMAIN userBoard :
          /\ userBoard[p] = userBoard[q] => p = q
          /\ score[p] > score[q] => userBoard[p] < userBoard[q]
    /\ \A g, h \in DOMAIN guildBoard :
          /\ guildBoard[g] = guildBoard[h] => g = h
          /\ Total(Members(g)) > Total(Members(h)) => guildBoard[g] < guildBoard[h]

\* So do the lists of the rewards: they are read when the scores are final.
ListsFollowScores ==
    /\ \A p, q \in DOMAIN list["players"] :
          /\ list["players"][p] = list["players"][q] => p = q
          /\ score[p] > score[q] => list["players"][p] < list["players"][q]
    /\ list["guilds"] \in {Nobody, guildBoard}

\* Nothing is ranked for good before the completion, or listed before read.
FinalAfterCompletion ==
    /\ ~ completed => userBoard = Nobody /\ guildBoard = Nobody
    /\ \A k \in Kinds : IF next[k] = 0 THEN list[k] = Nobody ELSE completed

\* An achievement is that of a rank in the list.
AwardsFollowLists ==
    /\ \A p \in Players : \A n \in awards[p] :
          p \in DOMAIN list["players"] /\ n = Achievement(list["players"][p])
    /\ \A g \in Guilds : \A n \in awards[g] :
          g \in DOMAIN list["guilds"] /\ n = Achievement(list["guilds"][g])

\* What every step preserves.
IInv ==
    /\ TypeOK
    /\ JoinsOrdered
    /\ NothingWithoutRow
    /\ RoomPlacesFollowScores
    /\ BoardsFollowScores
    /\ ListsFollowScores
    /\ FinalAfterCompletion
    /\ AwardsFollowLists

\* The captured board is "the only way to prove who won after event ends", so
\* whoever is on it and gets a top achievement gets that of his rank.
RewardsFollowBoard ==
    \A p \in DOMAIN userBoard : \A n \in awards[p] :
        n <= TopPlaces => userBoard[p] = n

\* The places the players have seen last are in the order of the final board:
\* both are said to break ties by the last accepted submission.
PlacesFollowBoard ==
    \A p, q \in DOMAIN userBoard :
        Room(p) = Room(q) /\ place[p] # 0 /\ place[q] # 0 =>
            (place[p] < place[q] <=> userBoard[p] < userBoard[q])
===============================================================================
