------------------------------ MODULE Bubbles ------------------------------
(***************************************************************************)
(* What bubbles promise: each is made for one game, and launching it plays *)
(* that game or none, never the one of another bubble.  Nothing that is    *)
(* launched, converted, upgraded, edited or restarted takes the game away  *)
(* from any bubble; if the process can be cut off or a write can fail, the *)
(* bubble that runs may lose it, for good, and no other one.               *)
(***************************************************************************)
CONSTANTS
    Title,    \* of bubbles and of other applications
    File,     \* the games
    MayLose   \* can a bubble lose its game?

VARIABLES
    game,     \* game[t]: what the bubble t is for; empty when it is none
    live,     \* the title that runs, if any
    playing   \* the game that it plays, if any

vars == <<game, live, playing>>

Init ==
    /\ game \in [Title -> SUBSET File]
    /\ \A t \in Title : \A g, h \in game[t] : g = h
    /\ live = {}
    /\ playing = {}

Launch(t) ==
    /\ live = {}
    /\ live' = {t}
    /\ UNCHANGED <<game, playing>>

Play(t) ==
    /\ t \in live
    /\ \E g \in game[t] : playing' = {g}
    /\ UNCHANGED <<live, game>>

\* Back to the booter, or into a saved state.
Leave ==
    /\ playing' = {}
    /\ UNCHANGED <<live, game>>

Loses(t) ==
    /\ MayLose
    /\ t \in live
    /\ game' = [game EXCEPT ![t] = {}]

Lose(t) == UNCHANGED <<live, playing>> /\ Loses(t)

Stop(t) ==
    /\ t \in live
    /\ live' = {}
    /\ playing' = {}
    /\ UNCHANGED game \/ Loses(t)

Next ==
    \/ Leave
    \/ \E t \in Title : Launch(t) \/ Play(t) \/ Stop(t) \/ Lose(t)

Spec == Init /\ [][Next]_vars

=============================================================================
