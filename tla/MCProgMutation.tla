-------------------------- MODULE MCProgMutation --------------------------
(* Instances of ProgMutation.                                               *)
EXTENDS ProgMutation

\* Schedules of a hint: accesses of both contenders in either order, and of one.
HintAccesses ==
    LET a(t) == [thread |-> t, inst |-> "inst"]
    IN  {<<a(0), a(1), a(0)>>, <<a(1), a(0)>>, <<a(1)>>}
=============================================================================
