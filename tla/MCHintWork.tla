----------------------------- MODULE MCHintWork -----------------------------
(* Instances of HintWork.                                                   *)
EXTENDS HintWork

\* a and b are different reorderings; c moves one access of a and one of its own;
\* d is a load hint, and those are not tested.
Coverage4 == [a |-> {1}, b |-> {2}, c |-> {1, 3}, d |-> {4}]
Score4 == [a |-> 1, b |-> 3, c |-> 2, d |-> 1]
Lists == {<<"a", "b">>, <<"c", "d">>}
=============================================================================
