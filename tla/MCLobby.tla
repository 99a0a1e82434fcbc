------------------------------ MODULE MCLobby ------------------------------
(* Instances of Lobby for TLC: rooms of four, and int32 narrowed to -8 .. 7. *)
EXTENDS Lobby, TLC

Counted(werewolf, villager, seer, guard) ==
    [max |-> 4, counts |-> [werewolf |-> werewolf, villager |-> villager,
                            seer |-> seer, guard |-> guard]]

\* In this order: as meant; one role too few; a role that takes another's place;
\* three players are enough after the conversion.
MCRequests ==
    {Counted(1, 1, 1, 1), Counted(1, 1, 1, 0), Counted(2, 2, 1, -1),
     Counted(1, 2, 8, -7)}

Symmetry == Permutations(Players) \cup Permutations(Rooms) \cup Permutations(RoomIds)
=============================================================================
