----------------------------- MODULE MCKnotter -----------------------------
(* Instances of Knotter.  An instruction always makes the same access; an   *)
(* instruction recorded twice is a loop.                                    *)
EXTENDS Knotter

Mem(inst, typ, addr, size) == [inst |-> inst, typ |-> typ, addr |-> addr, size |-> size]
Other(typ, addr) == [inst |-> 99, typ |-> typ, addr |-> addr, size |-> 0]

\* Two words, the first of them accessed in halves and as a whole; barriers.
BarrierCode ==
    <<{Mem(1, "store", 0, 4), Mem(2, "store", 4, 4), Mem(3, "store", 8, 8), Mem(4, "load", 0, 4),
       Other("flush", 0)},
      {Mem(11, "load", 0, 8), Mem(12, "load", 8, 8), Mem(13, "load", 0, 4), Mem(14, "store", 0, 4),
       Other("lfence", 0)}>>

\* Two words under two locks.
LockCode ==
    <<{Mem(1, "store", 0, 8), Mem(2, "store", 8, 8),
       Other("acquire", 100), Other("acquire", 101), Other("release", 101)},
      {Mem(11, "load", 0, 8), Mem(12, "load", 8, 8), Other("acquire", 100)}>>

BarriersAndLocks == {[code |-> BarrierCode, max |-> <<3, 3>>], [code |-> LockCode, max |-> <<5, 3>>]}
=============================================================================
