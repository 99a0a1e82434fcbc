--------------------------- MODULE EmailRegistry ---------------------------
(* What the table of users promises of the emails: an email has at most one *)
(* account, and it stays that account's until the account itself takes      *)
(* another, free email.  Nothing else, a deletion included, gives it back.  *)
EXTENDS Naturals

CONSTANT Emails

VARIABLE owner      \* owner[e]: the id of the account, 0 if there never was one

Init == owner = [e \in Emails |-> 0]

\* An account that had none takes a free email.
Claim(e) ==
    /\ owner[e] = 0
    /\ owner'[e] \in Nat \ {0}
    /\ \A f \in Emails : owner[f] # owner'[e]
    /\ owner' = [owner EXCEPT ![e] = owner'[e]]

\* An account exchanges its email for a free one.
Move(e, f) ==
    /\ owner[e] # 0 /\ owner[f] = 0
    /\ owner' = [owner EXCEPT ![e] = 0, ![f] = owner[e]]

Next ==
    \/ \E e \in Emails : Claim(e)
    \/ \E e, f \in Emails : Move(e, f)

Spec == Init /\ [][Next]_owner
=============================================================================
