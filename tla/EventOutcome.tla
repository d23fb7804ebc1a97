----------------------------- MODULE EventOutcome -----------------------------
(***************************************************************************)
(* What the event service promises about the life of an event, without     *)
(* instances, timers, transactions or crashes: an event is pending, then   *)
(* active with its rooms, then completed with exactly one final room board *)
(* and one final guild board; its end is announced and each kind of reward *)
(* is granted at most once, and only when it is completed.                 *)
(***************************************************************************)
EXTENDS Naturals

CONSTANTS Events,      \* the events
          Attended,    \* those for which a guild registered
          Rewards      \* the kinds of reward granted at the end

VARIABLES status,      \* the status of an event
          rooms,       \* the events whose guilds have a room
          playersFinal,\* the events whose players have their final state
          roomBoards,  \* final room leaderboards captured per event
          guildBoards, \* final guild leaderboards captured per event
          announced,   \* EventExpired messages accepted by the broker
          granted      \* completed rounds of rewards, per event and kind

outcomeVars == <<status, rooms, playersFinal, roomBoards, guildBoards,
                 announced, granted>>

OutcomeInit ==
    /\ status = [e \in Events |-> "pending"]
    /\ rooms = {}
    /\ playersFinal = {}
    /\ roomBoards = [e \in Events |-> 0]
    /\ guildBoards = [e \in Events |-> 0]
    /\ announced = [e \in Events |-> 0]
    /\ granted = [w \in Events \X Rewards |-> 0]

\* The event starts; guilds that registered find their room.
Activate(e) ==
    /\ status[e] = "pending"
    /\ status' = [status EXCEPT ![e] = "active"]
    /\ rooms' = rooms \cup ({e} \cap Attended)
    /\ UNCHANGED <<playersFinal, roomBoards, guildBoards, announced, granted>>

\* The event ends: status, players and both boards change together.
Complete(e) ==
    /\ status[e] = "active"
    /\ status' = [status EXCEPT ![e] = "completed"]
    /\ playersFinal' = playersFinal \cup {e}
    /\ roomBoards' = [roomBoards EXCEPT ![e] = 1]
    /\ guildBoards' = [guildBoards EXCEPT ![e] = 1]
    /\ UNCHANGED <<rooms, announced, granted>>

Announce(e) ==
    /\ status[e] = "completed"
    /\ announced[e] = 0
    /\ announced' = [announced EXCEPT ![e] = 1]
    /\ UNCHANGED <<status, rooms, playersFinal, roomBoards, guildBoards,
                   granted>>

Grant(e, r) ==
    /\ status[e] = "completed"
    /\ granted[<<e, r>>] = 0
    /\ granted' = [granted EXCEPT ![<<e, r>>] = 1]
    /\ UNCHANGED <<status, rooms, playersFinal, roomBoards, guildBoards,
                   announced>>

OutcomeNext ==
    \E e \in Events :
        \/ Activate(e)
        \/ Complete(e)
        \/ Announce(e)
        \/ \E r \in Rewards : Grant(e, r)

OutcomeSpec == OutcomeInit /\ [][OutcomeNext]_outcomeVars
===============================================================================
