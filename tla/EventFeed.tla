----------------------------- MODULE EventFeed -----------------------------
(***************************************************************************)
(* What a room's events promise to those who listen: a listener hears some *)
(* of the events that are broadcast after it came, in their order, each    *)
(* once.  WSHandler implements it.                                         *)
(***************************************************************************)
EXTENDS Integers, Sequences

CONSTANT Conns

VARIABLES
    issued,     \* how many events were broadcast: they are numbered 1, 2, ...
    heard       \* per listener, the last event before it came and then those
                \* it heard; <<>> if it has not come yet

Init ==
    /\ issued = 0
    /\ heard = [c \in Conns |-> <<>>]

Publish ==
    /\ issued' = issued + 1
    /\ UNCHANGED heard

Listen(c) ==
    /\ heard[c] = <<>>
    /\ heard' = [heard EXCEPT ![c] = <<issued>>]
    /\ UNCHANGED issued

Hear(c) ==
    /\ heard[c] # <<>>
    /\ \E e \in heard[c][Len(heard[c])] + 1 .. issued :
          heard' = [heard EXCEPT ![c] = Append(@, e)]
    /\ UNCHANGED issued

Next == Publish \/ \E c \in Conns : Listen(c) \/ Hear(c)

Spec == Init /\ [][Next]_<<issued, heard>>
=============================================================================
