----------------------------- MODULE MCExecutor -----------------------------
(* Instances of Executor: the encodings of generated programs, sequential   *)
(* and with every pair of contenders.                                       *)
EXTENDS Executor

PT == INSTANCE ProgThreading

Sequential(n) == PT!SerializeForExec(PT!Generated(n))
Threaded(n, i, j) == PT!SerializeForExec(PT!Threading(PT!Generated(n), <<i, j>>))
Pairs(n) == {<<i, j>> \in (1 .. n) \X (1 .. n) : i < j}

\* With four calls one comes before the contenders and one after them.
AllPrograms ==
    {Sequential(4), Threaded(4, 2, 3)} \cup {Threaded(3, x[1], x[2]) : x \in Pairs(3)}
=============================================================================
