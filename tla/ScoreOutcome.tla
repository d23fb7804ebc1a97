----------------------------- MODULE ScoreOutcome -----------------------------
(***************************************************************************)
(* What a room promises about its scores, without queues, transactions,    *)
(* locks or deadlocks: until the event is over, a player solves a problem  *)
(* once and gets its points in the same step; at the end the boards take   *)
(* every point given, and nothing changes any more.                        *)
(***************************************************************************)
EXTENDS Naturals

CONSTANTS Players, Problems,
          Submissions,  \* attempts <<player, problem, number>>
          Early,        \* the players sure to be in the room
          Boards        \* the final boards

VARIABLES over,         \* the event is completed
          accepted,     \* the accepted submissions
          credits,      \* points, per player and problem
          board         \* the points each final board shows

outcomeVars == <<over, accepted, credits, board>>

OutcomeInit ==
    /\ over = FALSE
    /\ accepted = {}
    /\ credits = [k \in Players \X Problems |-> 0]
    /\ board = [b \in Boards |-> credits]

\* A first correct answer; a player who never joined the room gets nothing.
Solve(s) ==
    LET k == <<s[1], s[2]>> IN
    /\ ~over
    /\ \A r \in accepted : <<r[1], r[2]>> # k
    /\ accepted' = accepted \cup {s}
    /\ \/ credits' = [credits EXCEPT ![k] = 1]
       \/ s[1] \notin Early /\ UNCHANGED credits
    /\ UNCHANGED <<over, board>>

Close ==
    /\ ~over
    /\ over' = TRUE
    /\ board' = [b \in Boards |-> credits]
    /\ UNCHANGED <<accepted, credits>>

OutcomeNext == Close \/ \E s \in Submissions : Solve(s)

OutcomeSpec == OutcomeInit /\ [][OutcomeNext]_outcomeVars
===============================================================================
