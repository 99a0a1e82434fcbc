--------------------------- MODULE MCGameRoomLive ---------------------------
(* The instance of GameRoom on which TLC checks liveness, where a symmetry *)
(* set would not be sound: one deal is played out instead of all six, each *)
(* of which is a renaming of it.                                           *)
EXTENDS GameRoom

CONSTANTS wolf, guard, witch

Three == {wolf, guard, witch}

Config == [r \in Roles |-> IF r \in {"WEREWOLF", "GUARD", "WITCH"} THEN 1 ELSE 0]

OneDeal ==
    state # "WAITING" =>
        role[wolf] = "WEREWOLF" /\ role[guard] = "GUARD" /\ role[witch] = "WITCH"
=============================================================================
