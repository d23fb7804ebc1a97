-------------------------- MODULE Standings_proofs --------------------------
(***************************************************************************)
(* Proofs about Standings, for any number of players, guilds, rooms and    *)
(* top places.                                                             *)
(***************************************************************************)
EXTENDS Standings, FiniteSetTheorems, WellFoundedInduction, TLAPS

-------------------------------------------------------------------------------
(* Rankings                                                                *)

\* ROW_NUMBER() over a strict total order on S: D[x] are those before x, f the
\* ranks.  Each has a rank of its own, and who comes before has a smaller one.
LEMMA RowNumbers ==
    ASSUME NEW S, IsFiniteSet(S), NEW D, NEW f,
           \A x \in S : /\ D[x] \subseteq S /\ x \notin D[x]
                        /\ \A y \in D[x] : D[y] \subseteq D[x]
                        /\ f[x] = 1 + Cardinality(D[x]),
           \A x, y \in S : x = y \/ x \in D[y] \/ y \in D[x]
    PROVE  /\ \A x \in S : f[x] \in 1..Cardinality(S)
           /\ \A x, y \in S : y \in D[x] => f[y] < f[x]
           /\ \A x, y \in S : f[x] = f[y] => x = y
<1>1. ASSUME NEW x \in S
      PROVE  f[x] \in 1..Cardinality(S)
  <2>1. D[x] \subseteq S \ {x}
    OBVIOUS
  <2>2. /\ Cardinality(S) \in Nat
        /\ IsFiniteSet(S \ {x})
        /\ Cardinality(S \ {x}) = Cardinality(S) - 1
    BY FS_CardinalityType, FS_RemoveElement
  <2>3. Cardinality(D[x]) <= Cardinality(S) - 1 /\ Cardinality(D[x]) \in Nat
    BY <2>1, <2>2, FS_Subset, FS_CardinalityType
  <2> QED
    BY <2>2, <2>3
<1>2. ASSUME NEW x \in S, NEW y \in S, y \in D[x]
      PROVE  f[y] < f[x]
  <2>1. D[y] \subseteq D[x] \ {y}
    BY <1>2
  <2>2. IsFiniteSet(D[x])
    BY FS_Subset
  <2>3. /\ Cardinality(D[x]) \in Nat
        /\ IsFiniteSet(D[x] \ {y})
        /\ Cardinality(D[x] \ {y}) = Cardinality(D[x]) - 1
    BY <1>2, <2>2, FS_CardinalityType, FS_RemoveElement
  <2>4. Cardinality(D[y]) <= Cardinality(D[x]) - 1 /\ Cardinality(D[y]) \in Nat
    BY <2>1, <2>3, FS_Subset, FS_CardinalityType
  <2> QED
    BY <2>3, <2>4
<1>3. ASSUME NEW x \in S, NEW y \in S, f[x] = f[y]
      PROVE  x = y
  <2>1. f[x] \in Nat /\ f[y] \in Nat
    BY <1>1
  <2> QED
    BY <1>2, <1>3, <2>1
<1> QED
  BY <1>1, <1>2, <1>3

\* The order of the rooms and of the final board is strict and total.
LEMMA AheadOrder ==
    ASSUME NEW sc \in [Players -> Nat], last \in [Players -> Nat],
           joined \in [Players -> Nat],
           \A p, q \in Rows : joined[p] = joined[q] => p = q
    PROVE  \A p, q, r \in Rows :
              /\ ~ Ahead(sc, p, p)
              /\ Ahead(sc, p, q) /\ Ahead(sc, q, r) => Ahead(sc, p, r)
              /\ p = q \/ Ahead(sc, p, q) \/ Ahead(sc, q, p)
              /\ sc[p] > sc[q] => Ahead(sc, p, q)
<1> SUFFICES ASSUME NEW p \in Rows, NEW q \in Rows, NEW r \in Rows
             PROVE  /\ ~ Ahead(sc, p, p)
                    /\ Ahead(sc, p, q) /\ Ahead(sc, q, r) => Ahead(sc, p, r)
                    /\ p = q \/ Ahead(sc, p, q) \/ Ahead(sc, q, p)
                    /\ sc[p] > sc[q] => Ahead(sc, p, q)
  OBVIOUS
<1>1. /\ sc[p] \in Nat /\ sc[q] \in Nat /\ sc[r] \in Nat
      /\ last[p] \in Nat /\ last[q] \in Nat /\ last[r] \in Nat
      /\ joined[p] \in Nat /\ joined[q] \in Nat /\ joined[r] \in Nat
      /\ joined[p] = joined[q] => p = q
  BY DEF Rows
<1> QED
  BY <1>1 DEF Ahead, Earlier

\* So is the order of the players' achievements.
LEMMA ByScoreOrder ==
    ASSUME score \in [Players -> Nat], joined \in [Players -> Nat],
           \A p, q \in Rows : joined[p] = joined[q] => p = q
    PROVE  \A p, q, r \in Rows :
              /\ ~ ByScore(p, p)
              /\ ByScore(p, q) /\ ByScore(q, r) => ByScore(p, r)
              /\ p = q \/ ByScore(p, q) \/ ByScore(q, p)
              /\ score[p] > score[q] => ByScore(p, q)
BY DEF ByScore, Rows

\* The latest of some times is one of them.
LEMMA LatestIsOne ==
    ASSUME NEW S \in SUBSET (0..MaxTime), S # {}
    PROVE  Latest(S) \in S
<1> DEFINE T == {MaxTime - s : s \in S}
<1>0. MaxTime \in Nat /\ \A s \in S : s \in Nat /\ s <= MaxTime
  BY StandingsAssumption
<1>1. T \subseteq Nat /\ T # {}
  <2>1. \A s \in S : MaxTime - s \in Nat
    BY <1>0
  <2> QED
    BY <2>1
<1>2. PICK t \in T : \A u \in T : <<u, t>> \notin OpToRel(<, Nat)
  BY <1>1, NatLessThanWellFounded, WFMin
<1>3. \A u \in T : t <= u
  <2> SUFFICES ASSUME NEW u \in T PROVE t <= u
    OBVIOUS
  <2> HIDE DEF T
  <2>1. t \in Nat /\ u \in Nat /\ ~ u < t
    BY <1>1, <1>2 DEF OpToRel
  <2> QED
    BY <2>1
<1>4. PICK s \in S : t = MaxTime - s
  OBVIOUS
<1>5. \A r \in S : r <= s
  <2> SUFFICES ASSUME NEW r \in S PROVE r <= s
    OBVIOUS
  <2>1. t <= MaxTime - r
    BY <1>3
  <2>2. r \in Nat /\ s \in Nat /\ t = MaxTime - s
    BY <1>0, <1>4
  <2> QED
    BY <1>0, <2>1, <2>2
<1> QED
  BY <1>5 DEF Latest

\* The points of a team are finitely many.
LEMMA TotalIsNat ==
    ASSUME score \in [Players -> Nat], NEW S \in SUBSET Players
    PROVE  IsFiniteSet(Points(S)) /\ Total(S) \in Nat
<1>1. IsFiniteSet({{p} \X (1..score[p]) : p \in S})
  <2>1. IsFiniteSet(S)
    BY StandingsAssumption, FS_Subset
  <2> DEFINE f == [p \in S |-> {p} \X (1..score[p])]
             U == {{p} \X (1..score[p]) : p \in S}
  <2>2. f \in Surjection(S, U)
    BY DEF Surjection
  <2> QED
    BY <2>1, <2>2, FS_Surjection
<1>2. \A T \in {{p} \X (1..score[p]) : p \in S} : IsFiniteSet(T)
  <2> SUFFICES ASSUME NEW p \in S PROVE IsFiniteSet({p} \X (1..score[p]))
    OBVIOUS
  <2>1. IsFiniteSet({p})
    BY FS_Singleton
  <2>2. IsFiniteSet(1..score[p])
    BY FS_Interval
  <2> QED
    BY <2>1, <2>2, FS_Product
<1>3. IsFiniteSet(Points(S))
  BY <1>1, <1>2, FS_UNION DEF Points
<1> QED
  BY <1>3, FS_CardinalityType DEF Total

\* The order of the guilds is strict and total.
LEMMA GuildOrder ==
    ASSUME score \in [Players -> Nat], last \in [Players -> 0..MaxTime]
    PROVE  \A g, h, k \in {x \in Guilds : Members(x) # {}} :
              /\ ~ GuildAhead(g, g)
              /\ GuildAhead(g, h) /\ GuildAhead(h, k) => GuildAhead(g, k)
              /\ g = h \/ GuildAhead(g, h) \/ GuildAhead(h, g)
              /\ Total(Members(g)) > Total(Members(h)) => GuildAhead(g, h)
<1>1. ASSUME NEW g \in Guilds, Members(g) # {}
      PROVE  Total(Members(g)) \in Nat /\ GuildLast(g) \in Nat /\ GuildJoined[g] \in Nat
  <2>1. Members(g) \subseteq Players
    BY DEF Members, Rows
  <2>2. /\ {last[p] : p \in Members(g)} \subseteq 0..MaxTime
        /\ {last[p] : p \in Members(g)} # {}
    BY <1>1, <2>1
  <2>3. GuildLast(g) \in {last[p] : p \in Members(g)}
    BY <2>2, LatestIsOne DEF GuildLast
  <2>4. GuildLast(g) \in Nat
    BY <2>2, <2>3, StandingsAssumption
  <2> QED
    BY <2>1, <2>4, TotalIsNat, StandingsAssumption
<1> SUFFICES ASSUME NEW g \in {x \in Guilds : Members(x) # {}},
                    NEW h \in {x \in Guilds : Members(x) # {}},
                    NEW k \in {x \in Guilds : Members(x) # {}}
             PROVE  /\ ~ GuildAhead(g, g)
                    /\ GuildAhead(g, h) /\ GuildAhead(h, k) => GuildAhead(g, k)
                    /\ g = h \/ GuildAhead(g, h) \/ GuildAhead(h, g)
                    /\ Total(Members(g)) > Total(Members(h)) => GuildAhead(g, h)
  OBVIOUS
<1>2. /\ Total(Members(g)) \in Nat /\ GuildLast(g) \in Nat /\ GuildJoined[g] \in Nat
      /\ Total(Members(h)) \in Nat /\ GuildLast(h) \in Nat /\ GuildJoined[h] \in Nat
      /\ Total(Members(k)) \in Nat /\ GuildLast(k) \in Nat /\ GuildJoined[k] \in Nat
      /\ GuildJoined[g] = GuildJoined[h] => g = h
  BY <1>1, StandingsAssumption
<1> QED
  BY <1>2 DEF GuildAhead, Earlier

\* A function on some of the members of S with ranks up to their number.
LEMMA InRankings ==
    ASSUME NEW S, IsFiniteSet(S), NEW T \in SUBSET S, NEW f,
           f = [x \in T |-> f[x]], \A x \in T : f[x] \in 1..Cardinality(T)
    PROVE  f \in Rankings(S)
<1>1. Cardinality(T) <= Cardinality(S) /\ Cardinality(T) \in Nat /\ Cardinality(S) \in Nat
  BY FS_Subset, FS_CardinalityType
<1>2. \A x \in T : f[x] \in 1..Cardinality(S)
  BY <1>1
<1>3. f \in [T -> 1..Cardinality(S)]
  BY <1>2
<1> QED
  BY <1>3 DEF Rankings

\* The players of a room are ranked, the others keep their places.
LEMMA RoomRanked ==
    ASSUME TypeOK, JoinsOrdered, NEW r \in Rooms, NEW sc \in [Players -> Nat],
           CalculateRoomLeaderboard(r, sc)
    PROVE  /\ place' \in [Players -> 0..Cardinality(Players)]
           /\ \A p \in Players \ InRoom(r) : place'[p] = place[p]
           /\ \A p, q \in InRoom(r) :
                 /\ place'[p] # 0
                 /\ place'[p] = place'[q] => p = q
                 /\ sc[p] > sc[q] => place'[p] < place'[q]
<1> DEFINE S == InRoom(r)
           D == [x \in S |-> {y \in S : Ahead(sc, y, x)}]
           f == [x \in S |-> 1 + Cardinality(D[x])]
<1>1. place' = [p \in Players |-> IF p \in S THEN f[p] ELSE place[p]]
  BY DEF CalculateRoomLeaderboard, Ranking
<1>2. S \subseteq Rows /\ S \subseteq Players
  BY DEF InRoom, Rows
<1>3. IsFiniteSet(S) /\ Cardinality(S) <= Cardinality(Players)
      /\ Cardinality(S) \in Nat /\ Cardinality(Players) \in Nat
  BY <1>2, StandingsAssumption, FS_Subset, FS_CardinalityType
<1>4. \A p, q, s \in S :
         /\ ~ Ahead(sc, p, p)
         /\ Ahead(sc, p, q) /\ Ahead(sc, q, s) => Ahead(sc, p, s)
         /\ p = q \/ Ahead(sc, p, q) \/ Ahead(sc, q, p)
         /\ sc[p] > sc[q] => Ahead(sc, p, q)
  <2>1. /\ last \in [Players -> Nat] /\ joined \in [Players -> Nat]
        /\ \A p, q \in Rows : joined[p] = joined[q] => p = q
    BY StandingsAssumption DEF TypeOK, JoinsOrdered
  <2> QED
    BY <1>2, <2>1, AheadOrder
<1>5. \A x \in S : /\ D[x] \subseteq S /\ x \notin D[x]
                   /\ \A y \in D[x] : D[y] \subseteq D[x]
                   /\ f[x] = 1 + Cardinality(D[x])
  BY <1>4
<1>6. \A x, y \in S : x = y \/ x \in D[y] \/ y \in D[x]
  BY <1>4
<1>7. \A p, q \in S : sc[p] > sc[q] => p \in D[q]
  BY <1>4
<1> HIDE DEF S, D, f
<1>8. /\ \A x \in S : f[x] \in 1..Cardinality(S)
      /\ \A x, y \in S : y \in D[x] => f[y] < f[x]
      /\ \A x, y \in S : f[x] = f[y] => x = y
  BY <1>3, <1>5, <1>6, RowNumbers
<1>9. \A p \in S : place'[p] = f[p]
  BY <1>1, <1>2
<1>10. /\ \A p, q \in S : /\ place'[p] # 0
                          /\ place'[p] = place'[q] => p = q
                          /\ sc[p] > sc[q] => place'[p] < place'[q]
       /\ \A p \in S : place'[p] \in 0..Cardinality(Players)
  BY <1>3, <1>7, <1>8, <1>9
<1>11. place' \in [Players -> 0..Cardinality(Players)]
  BY <1>1, <1>9, <1>10 DEF TypeOK
<1> QED
  BY <1>1, <1>10, <1>11 DEF S

\* The players on the final board.
LEMMA PlayersRanked ==
    ASSUME TypeOK, JoinsOrdered, CaptureFinalRoomLeaderboards
    PROVE  /\ userBoard' \in Rankings(Players)
           /\ \A p, q \in DOMAIN userBoard' :
                 /\ userBoard'[p] = userBoard'[q] => p = q
                 /\ score[p] > score[q] => userBoard'[p] < userBoard'[q]
<1> DEFINE D == [x \in Rows |-> {y \in Rows : Ahead(score, y, x)}]
           f == [x \in Rows |-> 1 + Cardinality(D[x])]
<1>1. userBoard' = f
  BY DEF CaptureFinalRoomLeaderboards, Ranking
<1>2. Rows \in SUBSET Players /\ IsFiniteSet(Players) /\ IsFiniteSet(Rows)
  BY StandingsAssumption, FS_Subset DEF Rows
<1>3. \A p, q, s \in Rows :
         /\ ~ Ahead(score, p, p)
         /\ Ahead(score, p, q) /\ Ahead(score, q, s) => Ahead(score, p, s)
         /\ p = q \/ Ahead(score, p, q) \/ Ahead(score, q, p)
         /\ score[p] > score[q] => Ahead(score, p, q)
  <2>1. /\ last \in [Players -> Nat] /\ joined \in [Players -> Nat]
        /\ score \in [Players -> Nat]
        /\ \A p, q \in Rows : joined[p] = joined[q] => p = q
    BY StandingsAssumption DEF TypeOK, JoinsOrdered
  <2> QED
    BY <2>1, AheadOrder
<1>4. \A x \in Rows : /\ D[x] \subseteq Rows /\ x \notin D[x]
                      /\ \A y \in D[x] : D[y] \subseteq D[x]
                      /\ f[x] = 1 + Cardinality(D[x])
  BY <1>3
<1>5. \A x, y \in Rows : x = y \/ x \in D[y] \/ y \in D[x]
  BY <1>3
<1>6. \A p, q \in Rows : score[p] > score[q] => p \in D[q]
  BY <1>3
<1>7. DOMAIN f = Rows /\ f = [x \in Rows |-> f[x]]
  OBVIOUS
<1> HIDE DEF D, f
<1>8. /\ \A x \in Rows : f[x] \in 1..Cardinality(Rows)
      /\ \A x, y \in Rows : y \in D[x] => f[y] < f[x]
      /\ \A x, y \in Rows : f[x] = f[y] => x = y
  BY <1>2, <1>4, <1>5, RowNumbers
<1>9. f \in Rankings(Players)
  BY <1>2, <1>7, <1>8, InRankings
<1> QED
  BY <1>1, <1>6, <1>7, <1>8, <1>9

\* The players in the order of their achievements.
LEMMA PlayersListed ==
    ASSUME TypeOK, JoinsOrdered
    PROVE  /\ GetAllPlayersByEvent \in Rankings(Players)
           /\ \A p, q \in DOMAIN GetAllPlayersByEvent :
                 /\ GetAllPlayersByEvent[p] = GetAllPlayersByEvent[q] => p = q
                 /\ score[p] > score[q] =>
                       GetAllPlayersByEvent[p] < GetAllPlayersByEvent[q]
<1> DEFINE D == [x \in Rows |-> {y \in Rows : ByScore(y, x)}]
           f == [x \in Rows |-> 1 + Cardinality(D[x])]
<1>1. GetAllPlayersByEvent = f
  BY DEF GetAllPlayersByEvent, Ranking
<1>2. Rows \in SUBSET Players /\ IsFiniteSet(Players) /\ IsFiniteSet(Rows)
  BY StandingsAssumption, FS_Subset DEF Rows
<1>3. \A p, q, s \in Rows :
         /\ ~ ByScore(p, p)
         /\ ByScore(p, q) /\ ByScore(q, s) => ByScore(p, s)
         /\ p = q \/ ByScore(p, q) \/ ByScore(q, p)
         /\ score[p] > score[q] => ByScore(p, q)
  <2>1. /\ joined \in [Players -> Nat] /\ score \in [Players -> Nat]
        /\ \A p, q \in Rows : joined[p] = joined[q] => p = q
    BY StandingsAssumption DEF TypeOK, JoinsOrdered
  <2> QED
    BY <2>1, ByScoreOrder
<1>4. \A x \in Rows : /\ D[x] \subseteq Rows /\ x \notin D[x]
                      /\ \A y \in D[x] : D[y] \subseteq D[x]
                      /\ f[x] = 1 + Cardinality(D[x])
  BY <1>3
<1>5. \A x, y \in Rows : x = y \/ x \in D[y] \/ y \in D[x]
  BY <1>3
<1>6. \A p, q \in Rows : score[p] > score[q] => p \in D[q]
  BY <1>3
<1>7. DOMAIN f = Rows /\ f = [x \in Rows |-> f[x]]
  OBVIOUS
<1> HIDE DEF D, f
<1>8. /\ \A x \in Rows : f[x] \in 1..Cardinality(Rows)
      /\ \A x, y \in Rows : y \in D[x] => f[y] < f[x]
      /\ \A x, y \in Rows : f[x] = f[y] => x = y
  BY <1>2, <1>4, <1>5, RowNumbers
<1>9. f \in Rankings(Players)
  BY <1>2, <1>7, <1>8, InRankings
<1> QED
  BY <1>1, <1>6, <1>7, <1>8, <1>9

\* The guilds on their board.
LEMMA GuildsRanked ==
    ASSUME TypeOK, CaptureFinalGuildLeaderboard
    PROVE  /\ guildBoard' \in Rankings(Guilds)
           /\ \A g, h \in DOMAIN guildBoard' :
                 /\ guildBoard'[g] = guildBoard'[h] => g = h
                 /\ Total(Members(g)) > Total(Members(h)) =>
                       guildBoard'[g] < guildBoard'[h]
<1> DEFINE S == {g \in Guilds : Members(g) # {}}
           D == [x \in S |-> {y \in S : GuildAhead(y, x)}]
           f == [x \in S |-> 1 + Cardinality(D[x])]
<1>1. guildBoard' = f
  BY DEF CaptureFinalGuildLeaderboard, Ranking
<1>2. S \in SUBSET Guilds /\ IsFiniteSet(Guilds) /\ IsFiniteSet(S)
  BY StandingsAssumption, FS_Subset
<1>3. \A g, h, k \in S :
         /\ ~ GuildAhead(g, g)
         /\ GuildAhead(g, h) /\ GuildAhead(h, k) => GuildAhead(g, k)
         /\ g = h \/ GuildAhead(g, h) \/ GuildAhead(h, g)
         /\ Total(Members(g)) > Total(Members(h)) => GuildAhead(g, h)
  BY GuildOrder DEF TypeOK
<1>4. \A x \in S : /\ D[x] \subseteq S /\ x \notin D[x]
                   /\ \A y \in D[x] : D[y] \subseteq D[x]
                   /\ f[x] = 1 + Cardinality(D[x])
  BY <1>3
<1>5. \A x, y \in S : x = y \/ x \in D[y] \/ y \in D[x]
  BY <1>3
<1>6. \A g, h \in S : Total(Members(g)) > Total(Members(h)) => g \in D[h]
  BY <1>3
<1>7. DOMAIN f = S /\ f = [x \in S |-> f[x]]
  OBVIOUS
<1> HIDE DEF S, D, f
<1>8. /\ \A x \in S : f[x] \in 1..Cardinality(S)
      /\ \A x, y \in S : y \in D[x] => f[y] < f[x]
      /\ \A x, y \in S : f[x] = f[y] => x = y
  BY <1>2, <1>4, <1>5, RowNumbers
<1>9. f \in Rankings(Guilds)
  BY <1>2, <1>7, <1>8, InRankings
<1> QED
  BY <1>1, <1>6, <1>7, <1>8, <1>9

-------------------------------------------------------------------------------
(* The steps                                                               *)

\* What a ranking is.
LEMMA RankingParts ==
    ASSUME NEW S, IsFiniteSet(S), NEW f \in Rankings(S)
    PROVE  /\ DOMAIN f \subseteq S
           /\ \A x \in DOMAIN f : f[x] \in Nat /\ f[x] > 0
BY FS_CardinalityType DEF Rankings

\* Nobody is a ranking.
LEMMA EmptyRanking == \A S : Nobody \in Rankings(S) /\ DOMAIN Nobody = {}
BY DEF Nobody, Rankings

\* Types of what is ranked and listed.
LEMMA RankedTypes ==
    ASSUME TypeOK, ListsFollowScores
    PROVE  /\ DOMAIN userBoard \subseteq Players /\ DOMAIN guildBoard \subseteq Guilds
           /\ DOMAIN list["players"] \subseteq Players
           /\ DOMAIN list["guilds"] \subseteq Guilds
           /\ \A k \in Kinds : \A x \in DOMAIN list[k] : list[k][x] \in Nat /\ list[k][x] > 0
<1>1. IsFiniteSet(Players) /\ IsFiniteSet(Guilds)
  BY StandingsAssumption
<1>2. /\ userBoard \in Rankings(Players) /\ guildBoard \in Rankings(Guilds)
      /\ list["players"] \in Rankings(Players)
  BY DEF TypeOK
<1>3. list["guilds"] \in Rankings(Guilds)
  BY <1>2, EmptyRanking DEF ListsFollowScores
<1> QED
  BY <1>1, <1>2, <1>3, RankingParts DEF Kinds

\* As long as no points are given, the sums of the guilds stay.
LEMMA TotalsStay ==
    ASSUME UNCHANGED score, NEW g, \A p \in Members(g) : p \in Members(g)',
           \A p \in Members(g)' : p \in Members(g) \/ score[p] = 0
    PROVE  Total(Members(g))' = Total(Members(g))
<1>1. \A p : score[p] = 0 => {p} \X (1..score[p]) = {}
  OBVIOUS
<1>2. \A x : x \in Points(Members(g))' => x \in Points(Members(g))
  BY <1>1 DEF Points
<1>3. \A x : x \in Points(Members(g)) => x \in Points(Members(g))'
  BY DEF Points
<1>4. Points(Members(g))' = Points(Members(g))
  BY <1>2, <1>3
<1> QED
  BY <1>4 DEF Total

\* Steps that change neither rows nor boards.
LEMMA BoardsStay ==
    ASSUME BoardsFollowScores, UNCHANGED <<joined, score, userBoard, guildBoard>>
    PROVE  BoardsFollowScores'
<1>1. \A g : Total(Members(g))' = Total(Members(g))
  BY DEF Total, Points, Members, Rows
<1> QED
  BY <1>1 DEF BoardsFollowScores

\* Before the completion there is nothing that the scores could contradict.
LEMMA NothingFinal ==
    ASSUME FinalAfterCompletion, ~ completed
    PROVE  userBoard = Nobody /\ guildBoard = Nobody /\ \A k \in Kinds : list[k] = Nobody
BY DEF FinalAfterCompletion

\* The parts of IInv that only depend on lists, boards and awards.
LEMMA RewardsStay ==
    ASSUME IInv, UNCHANGED <<score, boardVars, rewardVars>>
    PROVE  /\ ListsFollowScores' /\ FinalAfterCompletion' /\ AwardsFollowLists'
BY DEF IInv, ListsFollowScores, FinalAfterCompletion, AwardsFollowLists, boardVars,
   rewardVars

\* A player joins.
LEMMA JoinStep ==
    ASSUME IInv, NEW p \in Players, AddPlayerToRoom(p)
    PROVE  IInv'
<1> USE DEF AddPlayerToRoom, rowVars, boardVars, rewardVars
<1>1. /\ joined[p] = 0 /\ clock \in Nat /\ clock < MaxTime /\ clock' = clock + 1
      /\ joined' = [joined EXCEPT ![p] = clock]
      /\ joined \in [Players -> 0..MaxTime] /\ MaxTime \in Nat /\ clock > 0
  BY StandingsAssumption DEF IInv, TypeOK, Now
<1>2. joined' \in [Players -> 0..MaxTime] /\ clock' \in 1..MaxTime
  BY <1>1
<1>3. TypeOK'
  <2>1. Room(p) \in Rooms
    BY StandingsAssumption DEF Room
  <2> QED
    BY <1>2, <2>1 DEF IInv, TypeOK
<1>4. Rows' = Rows \cup {p} /\ p \notin Rows
  BY <1>1 DEF Rows
<1>5. JoinsOrdered'
  <2>1. \A q \in Players : joined[q] < clock /\ joined[q] \in Nat
    BY <1>1 DEF IInv, JoinsOrdered
  <2>2. \A q \in Players : joined'[q] = IF q = p THEN clock ELSE joined[q]
    BY <1>1
  <2>3. \A q \in Players : joined'[q] < clock'
    BY <1>1, <2>1, <2>2
  <2>4. \A q, s \in Rows' : joined'[q] = joined'[s] => q = s
    BY <1>1, <1>4, <2>1, <2>2 DEF IInv, JoinsOrdered, Rows
  <2> QED
    BY <2>3, <2>4 DEF JoinsOrdered
<1>6. /\ score[p] = 0 /\ place[p] = 0
      /\ UNCHANGED <<score, place, last, attempts>>
  BY <1>4 DEF IInv, NothingWithoutRow
<1>7. NothingWithoutRow'
  BY <1>4, <1>6 DEF IInv, NothingWithoutRow
<1>8. RoomPlacesFollowScores'
  BY <1>4, <1>6 DEF IInv, RoomPlacesFollowScores, Room
<1>9. BoardsFollowScores'
  <2>1. \A g : Total(Members(g))' = Total(Members(g))
    BY <1>4, <1>6, TotalsStay DEF Members
  <2> QED
    BY <1>6, <2>1 DEF IInv, BoardsFollowScores
<1> QED
  BY <1>3, <1>5, <1>6, <1>7, <1>8, <1>9, RewardsStay DEF IInv

\* A room is ranked after a join, or is not.
LEMMA CalculateStep ==
    ASSUME IInv, NEW r \in Rooms, CalculateLeaderboard(r)
    PROVE  IInv'
<1> USE DEF CalculateLeaderboard, boardVars, rewardVars
<1>0. UNCHANGED <<clock, joined, score, last, attempts>> /\ Rows' = Rows
  BY DEF Rows
<1>1. JoinsOrdered' /\ BoardsFollowScores'
  BY <1>0, BoardsStay DEF IInv, JoinsOrdered
<1>2. CASE place' = place
  <2>1. TypeOK' /\ NothingWithoutRow' /\ RoomPlacesFollowScores'
    BY <1>0, <1>2 DEF IInv, TypeOK, NothingWithoutRow, RoomPlacesFollowScores, Room
  <2> QED
    BY <1>0, <1>1, <2>1, RewardsStay DEF IInv
<1>3. CASE CalculateRoomLeaderboard(r, score)
  <2>1. /\ place' \in [Players -> 0..Cardinality(Players)]
        /\ \A p \in Players \ InRoom(r) : place'[p] = place[p]
        /\ \A p, q \in InRoom(r) :
              /\ place'[p] # 0
              /\ place'[p] = place'[q] => p = q
              /\ score[p] > score[q] => place'[p] < place'[q]
    BY <1>3, RoomRanked DEF IInv, TypeOK
  <2>2. TypeOK'
    BY <1>0, <2>1 DEF IInv, TypeOK
  <2>3. NothingWithoutRow'
    BY <1>0, <2>1 DEF IInv, NothingWithoutRow, InRoom
  <2>4. RoomPlacesFollowScores'
    BY <1>0, <2>1 DEF IInv, RoomPlacesFollowScores, Room, InRoom, Rows
  <2> QED
    BY <1>0, <1>1, <2>2, <2>3, <2>4, RewardsStay DEF IInv
<1> QED
  BY <1>2, <1>3

\* A correct attempt is submitted.
LEMMA SubmitStep ==
    ASSUME IInv, NEW p \in Players, Submit(p)
    PROVE  IInv'
<1> USE DEF Submit, rowVars, boardVars, rewardVars
<1>0. UNCHANGED <<joined, score, place, last>> /\ Rows' = Rows
  BY DEF Rows
<1>1. clock \in Nat /\ clock > 0 /\ clock < MaxTime /\ clock' = clock + 1 /\ MaxTime \in Nat
  BY StandingsAssumption DEF IInv, TypeOK, Now
<1>2. /\ attempts' \in [Players -> SUBSET (1..MaxTime)]
      /\ \A q \in Players \ {p} : attempts'[q] = attempts[q]
  BY <1>1 DEF IInv, TypeOK
<1>3. TypeOK'
  BY <1>1, <1>2 DEF IInv, TypeOK
<1>4. JoinsOrdered'
  <2>1. \A q \in Players : joined[q] < clock /\ joined[q] \in Nat
    BY DEF IInv, JoinsOrdered, TypeOK
  <2>2. \A q \in Players : joined'[q] < clock'
    BY <1>0, <1>1, <2>1
  <2> QED
    BY <1>0, <2>2 DEF IInv, JoinsOrdered
<1>5. NothingWithoutRow' /\ RoomPlacesFollowScores'
  BY <1>0, <1>2 DEF IInv, NothingWithoutRow, RoomPlacesFollowScores, Room, Rows
<1>6. BoardsFollowScores'
  BY <1>0, BoardsStay DEF IInv
<1> QED
  BY <1>0, <1>3, <1>4, <1>5, <1>6, RewardsStay DEF IInv

\* A correct attempt is scored, and its room ranked by the new scores.
LEMMA AcceptStep ==
    ASSUME IInv, NEW p \in Players, NEW t \in attempts[p], AcceptSubmission(p, t)
    PROVE  IInv'
<1> USE DEF AcceptSubmission, boardVars, rewardVars
<1>0. UNCHANGED <<clock, joined>> /\ Rows' = Rows /\ ~ completed /\ p \in Rows
  BY DEF Rows, IInv, NothingWithoutRow
<1>1. score' = Scored(p) /\ score' \in [Players -> Nat]
      /\ \A q \in Players \ {p} : score'[q] = score[q]
  BY DEF Scored, IInv, TypeOK
<1>2. last' \in [Players -> 0..MaxTime] /\ \A q \in Players \ {p} : last'[q] = last[q]
  <2>1. t \in 0..MaxTime /\ last[p] \in 0..MaxTime
    BY DEF IInv, TypeOK
  <2>2. Latest({last[p], t}) \in {last[p], t}
    BY <2>1, LatestIsOne
  <2> QED
    BY <2>1, <2>2 DEF IInv, TypeOK
<1>3. /\ attempts' \in [Players -> SUBSET (1..MaxTime)]
      /\ \A q \in Players \ {p} : attempts'[q] = attempts[q]
  BY DEF IInv, TypeOK
<1>4. PICK r \in Rooms : r = Room(p)
  BY StandingsAssumption DEF Room
<1>5. /\ place' \in [Players -> 0..Cardinality(Players)]
      /\ \A q \in Players \ InRoom(r) : place'[q] = place[q]
      /\ \A q, s \in InRoom(r) :
            /\ place'[q] # 0
            /\ place'[q] = place'[s] => q = s
            /\ score'[q] > score'[s] => place'[q] < place'[s]
  <2> DEFINE sc == Scored(p)
  <2>1. sc \in [Players -> Nat] /\ CalculateRoomLeaderboard(r, sc) /\ score' = sc
    BY <1>1, <1>4
  <2> HIDE DEF sc
  <2> QED
    BY <2>1, RoomRanked DEF IInv
<1>6. TypeOK'
  BY <1>0, <1>1, <1>2, <1>3, <1>5 DEF IInv, TypeOK
<1>7. JoinsOrdered' /\ NothingWithoutRow'
  BY <1>0, <1>1, <1>2, <1>3, <1>5 DEF IInv, JoinsOrdered, NothingWithoutRow, InRoom
<1>8. RoomPlacesFollowScores'
  <2>1. p \in InRoom(r)
    BY <1>0, <1>4 DEF InRoom
  <2>2. \A q \in Rows \ InRoom(r) : score'[q] = score[q] /\ place'[q] = place[q]
    BY <1>1, <1>5, <2>1 DEF Rows
  <2> QED
    BY <1>0, <1>5, <2>2 DEF IInv, RoomPlacesFollowScores, Room, InRoom
<1>9. userBoard = Nobody /\ guildBoard = Nobody /\ \A k \in Kinds : list[k] = Nobody
  BY <1>0, NothingFinal DEF IInv
<1>10. BoardsFollowScores' /\ ListsFollowScores'
  BY <1>9, EmptyRanking DEF BoardsFollowScores, ListsFollowScores, Kinds
<1>11. FinalAfterCompletion' /\ AwardsFollowLists'
  BY DEF IInv, FinalAfterCompletion, AwardsFollowLists
<1> QED
  BY <1>6, <1>7, <1>8, <1>10, <1>11 DEF IInv

\* The event is completed and the boards are captured.
LEMMA CompleteStep == ASSUME IInv, CompleteEvent PROVE IInv'
<1> USE DEF CompleteEvent, rowVars, rewardVars
<1>0. /\ UNCHANGED <<clock, joined, score, place, last, attempts>>
      /\ Rows' = Rows /\ ~ completed /\ completed'
  BY DEF Rows
<1>1. /\ userBoard' \in Rankings(Players)
      /\ \A p, q \in DOMAIN userBoard' :
            /\ userBoard'[p] = userBoard'[q] => p = q
            /\ score[p] > score[q] => userBoard'[p] < userBoard'[q]
  BY PlayersRanked DEF IInv
<1>2. /\ guildBoard' \in Rankings(Guilds)
      /\ \A g, h \in DOMAIN guildBoard' :
            /\ guildBoard'[g] = guildBoard'[h] => g = h
            /\ Total(Members(g)) > Total(Members(h)) => guildBoard'[g] < guildBoard'[h]
  BY GuildsRanked DEF IInv
<1>3. TypeOK'
  BY <1>0, <1>1, <1>2 DEF IInv, TypeOK
<1>4. JoinsOrdered' /\ NothingWithoutRow' /\ RoomPlacesFollowScores'
  BY <1>0 DEF IInv, JoinsOrdered, NothingWithoutRow, RoomPlacesFollowScores, Room
<1>5. \A g : Total(Members(g))' = Total(Members(g))
  BY <1>0 DEF Total, Points, Members
<1>6. BoardsFollowScores'
  BY <1>0, <1>1, <1>2, <1>5 DEF BoardsFollowScores
<1>7. ListsFollowScores' /\ FinalAfterCompletion' /\ AwardsFollowLists'
  <2>1. \A k \in Kinds : list[k] = Nobody
    BY <1>0, NothingFinal DEF IInv
  <2> QED
    BY <1>0, <2>1, EmptyRanking DEF IInv, ListsFollowScores, FinalAfterCompletion,
       AwardsFollowLists, Kinds
<1> QED
  BY <1>3, <1>4, <1>6, <1>7 DEF IInv

\* A goroutine reads the order in which it grants achievements.
LEMMA StartStep ==
    ASSUME IInv,
           \/ StartGranting("players", GetAllPlayersByEvent)
           \/ StartGranting("guilds", GetGuildLeaderboardByEvent)
    PROVE  IInv'
<1> USE DEF StartGranting, rowVars, boardVars, GetGuildLeaderboardByEvent
<1>0. /\ UNCHANGED <<clock, joined, score, place, last, attempts, userBoard,
                     guildBoard, completed, awards>>
      /\ Rows' = Rows /\ completed
  BY DEF Rows
<1>1. JoinsOrdered' /\ NothingWithoutRow' /\ RoomPlacesFollowScores' /\ BoardsFollowScores'
  BY <1>0, BoardsStay DEF IInv, JoinsOrdered, NothingWithoutRow,
     RoomPlacesFollowScores, Room
<1>2. CASE StartGranting("players", GetAllPlayersByEvent)
  <2>1. /\ list'["players"] = GetAllPlayersByEvent /\ list'["guilds"] = list["guilds"]
        /\ next'["players"] = 1 /\ next'["guilds"] = next["guilds"]
        /\ list["players"] = Nobody
        /\ list' = [list EXCEPT !["players"] = GetAllPlayersByEvent]
        /\ next' = [next EXCEPT !["players"] = 1]
    BY <1>2 DEF IInv, TypeOK, Kinds, FinalAfterCompletion
  <2>2. TypeOK'
    BY <1>0, <1>2, <2>1, PlayersListed DEF IInv, TypeOK
  <2>3. ListsFollowScores'
    BY <1>0, <2>1, PlayersListed DEF IInv, ListsFollowScores
  <2>4. \A p \in Players : awards[p] = {}
    BY <2>1, EmptyRanking DEF IInv, AwardsFollowLists
  <2>5. FinalAfterCompletion' /\ AwardsFollowLists'
    BY <1>0, <2>1, <2>4 DEF IInv, FinalAfterCompletion, AwardsFollowLists, Kinds
  <2> QED
    BY <1>1, <2>2, <2>3, <2>5 DEF IInv
<1>3. CASE StartGranting("guilds", GetGuildLeaderboardByEvent)
  <2>1. /\ list'["guilds"] = guildBoard /\ list'["players"] = list["players"]
        /\ next'["guilds"] = 1 /\ next'["players"] = next["players"]
        /\ list["guilds"] = Nobody
        /\ list' = [list EXCEPT !["guilds"] = guildBoard]
        /\ next' = [next EXCEPT !["guilds"] = 1]
    BY <1>3 DEF IInv, TypeOK, Kinds, FinalAfterCompletion
  <2>2. TypeOK'
    BY <1>0, <1>3, <2>1 DEF IInv, TypeOK
  <2>3. ListsFollowScores'
    BY <1>0, <2>1 DEF IInv, ListsFollowScores
  <2>4. \A g \in Guilds : awards[g] = {}
    BY <2>1, EmptyRanking DEF IInv, AwardsFollowLists
  <2>5. FinalAfterCompletion' /\ AwardsFollowLists'
    BY <1>0, <2>1, <2>4 DEF IInv, FinalAfterCompletion, AwardsFollowLists, Kinds
  <2> QED
    BY <1>1, <2>2, <2>3, <2>5 DEF IInv
<1> QED
  BY <1>2, <1>3

\* An achievement is granted, or the call fails.
LEMMA GrantStep == ASSUME IInv, NEW k \in Kinds, GrantAchievement(k) PROVE IInv'
<1> USE DEF GrantAchievement, rowVars, boardVars
<1>0. /\ UNCHANGED <<clock, joined, score, place, last, attempts, userBoard,
                     guildBoard, completed, list>>
      /\ Rows' = Rows
  BY DEF Rows
<1>1. JoinsOrdered' /\ NothingWithoutRow' /\ RoomPlacesFollowScores' /\ BoardsFollowScores'
  BY <1>0, BoardsStay DEF IInv, JoinsOrdered, NothingWithoutRow,
     RoomPlacesFollowScores, Room
<1>2. ListsFollowScores'
  BY <1>0 DEF IInv, ListsFollowScores
<1>3. PICK x \in DOMAIN list[k] :
         /\ list[k][x] = next[k]
         /\ \/ awards' = [awards EXCEPT ![x] = @ \cup {Achievement(next[k])}]
            \/ UNCHANGED awards
  OBVIOUS
<1>4. /\ next[k] \in Nat /\ next[k] > 0
      /\ DOMAIN list["players"] \subseteq Players /\ DOMAIN list["guilds"] \subseteq Guilds
  BY <1>3, RankedTypes DEF IInv
<1>5. next' \in [Kinds -> Nat] /\ \A j \in Kinds : next'[j] = 0 => next[j] = 0
  BY <1>4 DEF IInv, TypeOK
<1>6. completed
  BY <1>4 DEF IInv, FinalAfterCompletion
<1>7. FinalAfterCompletion'
  BY <1>0, <1>5, <1>6 DEF IInv, FinalAfterCompletion
<1>8. Achievement(next[k]) \in 1..TopPlaces + 1
  BY <1>4, StandingsAssumption DEF Achievement
<1>9. awards' \in [Players \cup Guilds -> SUBSET (1..TopPlaces + 1)]
  BY <1>3, <1>8 DEF IInv, TypeOK
<1>10. TypeOK'
  BY <1>0, <1>5, <1>9 DEF IInv, TypeOK
<1>11. \A y \in Players \cup Guilds : \A n \in awards'[y] :
          \/ n \in awards[y]
          \/ y = x /\ n = Achievement(list[k][x])
  BY <1>3 DEF IInv, TypeOK
<1>12. \/ k = "players" /\ x \in Players /\ x \notin Guilds
       \/ k = "guilds" /\ x \in Guilds /\ x \notin Players
  BY <1>3, <1>4, StandingsAssumption DEF Kinds
<1>13. AwardsFollowLists'
  BY <1>0, <1>3, <1>11, <1>12 DEF IInv, AwardsFollowLists
<1> QED
  BY <1>1, <1>2, <1>7, <1>10, <1>13 DEF IInv

-------------------------------------------------------------------------------
(* The theorems                                                            *)

\* Nobody has joined at the start.
LEMMA InvInit == ASSUME Init PROVE IInv
<1>1. Rows = {} /\ Nobody \in Rankings(Players) /\ Nobody \in Rankings(Guilds)
      /\ DOMAIN Nobody = {}
  BY EmptyRanking DEF Init, Rows
<1>2. MaxTime \in Nat \ {0} /\ Cardinality(Players) \in Nat
  BY StandingsAssumption, FS_CardinalityType
<1>3. TypeOK
  <2>1. /\ list \in [Kinds -> Rankings(Players) \cup Rankings(Guilds)]
        /\ list["players"] \in Rankings(Players)
        /\ next \in [Kinds -> Nat]
    BY <1>1 DEF Init, Kinds
  <2>2. /\ clock \in 1..MaxTime
        /\ joined \in [Players -> 0..MaxTime] /\ last \in [Players -> 0..MaxTime]
        /\ place \in [Players -> 0..Cardinality(Players)]
        /\ score \in [Players -> Nat]
    BY <1>2 DEF Init
  <2>3. /\ attempts \in [Players -> SUBSET (1..MaxTime)]
        /\ awards \in [Players \cup Guilds -> SUBSET (1..TopPlaces + 1)]
    BY DEF Init
  <2> QED
    BY <1>1, <2>1, <2>2, <2>3 DEF Init, TypeOK
<1>4. JoinsOrdered /\ NothingWithoutRow /\ RoomPlacesFollowScores
  BY <1>1 DEF Init, JoinsOrdered, NothingWithoutRow, RoomPlacesFollowScores
<1>5. BoardsFollowScores /\ ListsFollowScores /\ FinalAfterCompletion /\ AwardsFollowLists
  BY <1>1 DEF Init, BoardsFollowScores, ListsFollowScores, FinalAfterCompletion,
     AwardsFollowLists, Kinds
<1> QED
  BY <1>3, <1>4, <1>5 DEF IInv

\* Every step keeps IInv.
LEMMA InvStep == ASSUME IInv, [Next]_vars PROVE IInv'
<1>1. CASE UNCHANGED vars
  <2>1. /\ UNCHANGED <<joined, score, userBoard, guildBoard, boardVars, rewardVars>>
        /\ UNCHANGED <<clock, place, last, attempts, stale>>
    BY <1>1 DEF vars, rowVars, boardVars
  <2>2. TypeOK' /\ JoinsOrdered' /\ NothingWithoutRow' /\ RoomPlacesFollowScores'
    BY <2>1 DEF IInv, TypeOK, JoinsOrdered, NothingWithoutRow,
       RoomPlacesFollowScores, Room, Rows, boardVars, rewardVars
  <2> QED
    BY <2>1, <2>2, BoardsStay, RewardsStay DEF IInv
<1> QED
  BY <1>1, JoinStep, SubmitStep, AcceptStep, CalculateStep, CompleteStep, StartStep,
     GrantStep DEF Next

\* What every step preserves: joins have times of their own, who has no row has
\* no points and no place, and places, boards, lists and achievements follow the
\* scores.
THEOREM Invariant == Spec => []IInv
<1>1. Init => IInv
  BY InvInit
<1>2. IInv /\ [Next]_vars => IInv'
  BY InvStep
<1> QED
  BY <1>1, <1>2, PTL DEF Spec

\* Every variable of Standings keeps its type; ranks are those of a ROW_NUMBER().
THEOREM TypeCorrect == Spec => []TypeOK
<1>1. IInv => TypeOK
  BY DEF IInv
<1> QED
  BY <1>1, Invariant, PTL

\* In every room whoever has points has a place, of his own, and better than
\* those with fewer points, whatever transactions rank the room.
THEOREM PlacesFollowScores == Spec => []RoomPlacesFollowScores
<1>1. IInv => RoomPlacesFollowScores
  BY DEF IInv
<1> QED
  BY <1>1, Invariant, PTL

\* Each captured board ranks by points, with a rank for each, and stays so.
THEOREM CapturedBoards == Spec => []BoardsFollowScores
<1>1. IInv => BoardsFollowScores
  BY DEF IInv
<1> QED
  BY <1>1, Invariant, PTL

\* Achievements as functions of ranks.
LEMMA AchievementOrder ==
    ASSUME NEW m \in Nat, NEW n \in Nat
    PROVE  /\ Achievement(m) < Achievement(n) => m < n
           /\ Achievement(m) = Achievement(n) /\ Achievement(m) <= TopPlaces => m = n
BY StandingsAssumption DEF Achievement

\* What IInv says of the achievements.
LEMMA RewardsFit == ASSUME IInv PROVE RewardsFollowScores
<1>1. /\ DOMAIN list["players"] \subseteq Players /\ DOMAIN list["guilds"] \subseteq Guilds
      /\ DOMAIN guildBoard \subseteq Guilds
      /\ \A k \in Kinds : \A x \in DOMAIN list[k] : list[k][x] \in Nat
  BY RankedTypes DEF IInv
<1>2. ASSUME NEW x \in Players \cup Guilds
      PROVE  Cardinality(awards[x]) <= 1
  <2>1. \E n : awards[x] \subseteq {n}
    BY DEF IInv, AwardsFollowLists
  <2>2. PICK n : awards[x] = {} \/ awards[x] = {n}
    BY <2>1
  <2>3. Cardinality(awards[x]) \in {0, 1}
    BY <2>2, FS_EmptySet, FS_Singleton
  <2> QED
    BY <2>3
<1>3. ASSUME NEW p \in Players, NEW q \in Players, NEW m \in awards[p], NEW n \in awards[q]
      PROVE  /\ m < n => score[p] >= score[q]
             /\ m = n /\ m <= TopPlaces => p = q
  <2>1. /\ p \in DOMAIN list["players"] /\ m = Achievement(list["players"][p])
        /\ q \in DOMAIN list["players"] /\ n = Achievement(list["players"][q])
    BY DEF IInv, AwardsFollowLists
  <2>2. PICK a \in Nat, b \in Nat : a = list["players"][p] /\ b = list["players"][q]
    BY <1>1, <2>1 DEF Kinds
  <2>3. /\ a = b => p = q
        /\ score[q] > score[p] => b < a
    BY <2>1, <2>2 DEF IInv, ListsFollowScores
  <2>4. score[p] \in Nat /\ score[q] \in Nat
    BY DEF IInv, TypeOK
  <2> QED
    BY <2>1, <2>2, <2>3, <2>4, AchievementOrder
<1>4. ASSUME NEW g \in Guilds, NEW n \in awards[g]
      PROVE  g \in DOMAIN guildBoard /\ n = Achievement(guildBoard[g])
  <2>1. g \in DOMAIN list["guilds"] /\ n = Achievement(list["guilds"][g])
    BY DEF IInv, AwardsFollowLists
  <2>2. list["guilds"] = guildBoard
    BY <2>1, EmptyRanking DEF IInv, ListsFollowScores
  <2> QED
    BY <2>1, <2>2
<1>5. ASSUME NEW g \in Guilds, NEW h \in Guilds, NEW m \in awards[g], NEW n \in awards[h]
      PROVE  /\ m < n => Total(Members(g)) >= Total(Members(h))
             /\ m = n /\ m <= TopPlaces => g = h
  <2>1. /\ g \in DOMAIN guildBoard /\ m = Achievement(guildBoard[g])
        /\ h \in DOMAIN guildBoard /\ n = Achievement(guildBoard[h])
    BY <1>4
  <2>2. PICK a \in Nat, b \in Nat : a = guildBoard[g] /\ b = guildBoard[h]
    BY <2>1, RankingParts, StandingsAssumption DEF IInv, TypeOK
  <2>3. /\ a = b => g = h
        /\ Total(Members(h)) > Total(Members(g)) => b < a
    BY <2>1, <2>2 DEF IInv, BoardsFollowScores
  <2>4. Total(Members(g)) \in Nat /\ Total(Members(h)) \in Nat
    <3>1. Members(g) \subseteq Players /\ Members(h) \subseteq Players
      BY DEF Members, Rows
    <3> QED
      BY <3>1, TotalIsNat DEF IInv, TypeOK
  <2> QED
    BY <2>1, <2>2, <2>3, <2>4, AchievementOrder
<1> QED
  BY <1>2, <1>3, <1>4, <1>5 DEF RewardsFollowScores

\* Achievements never contradict the points, and a top one goes to one player
\* or guild only, whatever calls fail and whoever joins late.
THEOREM RewardsCorrect == Spec => []RewardsFollowScores
<1>1. IInv => RewardsFollowScores
  BY RewardsFit
<1> QED
  BY <1>1, Invariant, PTL
=============================================================================
