----------------------------- MODULE MCGameRoom -----------------------------
(* Instances of GameRoom for TLC. *)
EXTENDS GameRoom, TLC

CONSTANTS Wolves_n, Guards_n, Witches_n, Seers_n, Villagers_n

Config ==
    [UNKNOWN |-> 0, HUNTER |-> 0, WEREWOLF |-> Wolves_n, GUARD |-> Guards_n,
     WITCH |-> Witches_n, SEER |-> Seers_n, VILLAGER |-> Villagers_n]

\* State constraint of the run with six ids: no ballots, whose number
\* multiplies the states and which the runs with four players cast.
NoBallots == \A p \in Ids : votes[p] = NoEntry

Symmetry == Permutations(Named) \cup Permutations(Ids \ Named)
=============================================================================
