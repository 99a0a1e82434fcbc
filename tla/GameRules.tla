----------------------------- MODULE GameRules -----------------------------
(***************************************************************************)
(* What a room promises its players, whatever its goroutines do: who may   *)
(* die, when, and when the game is over.  GameRoom implements it.          *)
(***************************************************************************)
EXTENDS Integers, FiniteSets

CONSTANT People

VARIABLES
    stage,      \* "lobby", then "night" -> "day" -> "dusk" -> "night" ...
                \* until "over"
    players,    \* those in the room
    wolves,     \* those dealt the werewolf
    alive,
    poison      \* the witch's one bottle: "full", "poured" tonight, "empty"

vars == <<stage, players, wolves, alive, poison>>

Decided ==
    LET bad  == alive \cap wolves
        good == alive \ wolves
    IN  bad = {} \/ Cardinality(bad) >= Cardinality(good)

Init ==
    /\ stage = "lobby"
    /\ players = {} /\ wolves = {} /\ alive = {}
    /\ poison = "full"

Enter ==
    /\ stage = "lobby"
    /\ \E p \in People : players' = players \cup {p} /\ alive' = alive \cup {p}
    /\ UNCHANGED <<stage, wolves, poison>>

Deal ==
    /\ stage = "lobby"
    /\ stage' = "night"
    /\ wolves' \in SUBSET players
    /\ UNCHANGED <<players, alive, poison>>

\* The bottle is emptied once in a game, over somebody or over nobody.
Pour ==
    /\ stage = "night"
    /\ poison = "full"
    /\ poison' \in {"poured", "empty"}
    /\ UNCHANGED <<stage, players, wolves, alive>>

\* At dawn the wolves have killed one at most, the poison another.
Dawn ==
    /\ stage = "night"
    /\ ~Decided
    /\ stage' = "day"
    /\ \E killed \in SUBSET players :
          /\ Cardinality(killed) <= IF poison = "poured" THEN 2 ELSE 1
          /\ alive' = alive \ killed
    /\ poison' = IF poison = "poured" THEN "empty" ELSE poison
    /\ UNCHANGED <<players, wolves>>

\* The vote sends one out at most, and only while the game is open.
Exile ==
    /\ stage = "day"
    /\ ~Decided
    /\ stage' = "dusk"
    /\ \/ UNCHANGED alive
       \/ \E p \in players : alive' = alive \ {p}
    /\ UNCHANGED <<players, wolves, poison>>

Night ==
    /\ stage = "dusk"
    /\ stage' = "night"
    /\ UNCHANGED <<players, wolves, alive, poison>>

GameOver ==
    /\ stage \in {"night", "day"}
    /\ Decided
    /\ stage' = "over"
    /\ UNCHANGED <<players, wolves, alive, poison>>

Next == Enter \/ Deal \/ Pour \/ Dawn \/ Exile \/ Night \/ GameOver

Spec == Init /\ [][Next]_vars
=============================================================================
