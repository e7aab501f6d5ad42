---------------------------- MODULE MCSignalSync ----------------------------
(***************************************************************************)
(* Small programs for SignalSync: "b" covers more than "a", and covers the *)
(* first element with a higher priority (the call of "a" fails).           *)
(***************************************************************************)
EXTENDS SignalSync

Sig(e1, e2) == [e \in Elems |-> IF e = 1 THEN e1 ELSE e2]

Signal2 == [a |-> Sig(0, absent), b |-> Sig(2, 0)]
Shrinks2 == [a |-> {"a"}, b |-> {"b"}]

\* On two machines two executions that find something, or one and a crash; by two
\* processes of one machine three of them.
AVM == CHOOSE v \in VMs : TRUE
AProc == CHOOSE p \in Procs : TRUE
OneEach == VMs \X {AProc}
TwoFindOrOneCrashes ==
    {[work |-> 2, crashes |-> 0, active |-> OneEach],
     [work |-> 3, crashes |-> 0, active |-> {AVM} \X Procs],
     [work |-> 1, crashes |-> 1, active |-> OneEach]}
=============================================================================
