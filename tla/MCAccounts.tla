----------------------------- MODULE MCAccounts -----------------------------
(* Instances of Accounts for TLC. *)
EXTENDS Accounts, TLC

Symmetry ==
    Permutations(Reqs) \cup Permutations(Emails) \cup Permutations(Codes)
=============================================================================
