----------------------------- MODULE GateProofs -----------------------------
(***************************************************************************)
(* The safety of the gate for any number of processes and of slots, with   *)
(* or without a callback.                                                  *)
(*                                                                         *)
(* The argument: the executions inside hold different slots, those slots   *)
(* are the busy ones and running counts them; the slots were taken in      *)
(* cyclic order up to pos, so the distance from pos tells how many         *)
(* executions started after the one in a slot; and while the gate is       *)
(* closed slot 0 is free and exactly one process waits to call f.          *)
(***************************************************************************)
EXTENDS Gate, FiniteSetTheorems, TLAPS

USE SMTT(30)

BusySet == {i \in Slots : busy[i]}

Draining(p) == pc[p] \in {"draining", "drained"}

\* How many executions started after the one in slot i, which is busy.
Since(i) == IF i < pos THEN pos - 1 - i ELSE pos - 1 - i + c

SlotsOK ==
    /\ \A p \in Procs : Inside(p) => busy[ticket[p]]
    /\ \A p, q \in Procs : Inside(p) /\ Inside(q) /\ p # q => ticket[p] # ticket[q]
    /\ \A i \in Slots : busy[i] => \E p \in Procs : Inside(p) /\ ticket[p] = i
    /\ running = Cardinality(BusySet)

WindowOK == \A p \in Procs : Inside(p) => age[p] = Since(ticket[p])

StopOK ==
    /\ \A p \in Procs : Draining(p) => stop
    /\ \A p, q \in Procs : Draining(p) /\ Draining(q) => p = q
    /\ stop => ~busy[0]
    /\ hasF /\ ~busy[0] /\ ~stop => checked

\* The inductive invariant.
GateInv == TypeOK /\ NotBroken /\ SlotsOK /\ WindowOK /\ StopOK /\ SleepsForReason

-----------------------------------------------------------------------------
\* The slots are finitely many, and 0 is one of them.
LEMMA SlotsFinite ==
    /\ IsFiniteSet(Slots) /\ Cardinality(Slots) = c
    /\ 0 \in Slots
    /\ \A S \in SUBSET Slots :
          IsFiniteSet(S) /\ Cardinality(S) \in 0 .. c /\ (Cardinality(S) = 0 <=> S = {})
<1>1. IsFiniteSet(Slots) /\ Cardinality(Slots) = c /\ 0 \in Slots
    <2>1. 0 \in Int /\ c - 1 \in Int /\ ~(0 > c - 1) /\ (c - 1) - 0 + 1 = c
        BY GateAssumption
    <2> QED
        BY <2>1, FS_Interval DEF Slots
<1>2. ASSUME NEW S \in SUBSET Slots
      PROVE  IsFiniteSet(S) /\ Cardinality(S) \in 0 .. c /\ (Cardinality(S) = 0 <=> S = {})
    <2>1. IsFiniteSet(S) /\ Cardinality(S) <= c
        BY <1>1, FS_Subset
    <2>2. Cardinality(S) \in Nat
        BY <2>1, FS_CardinalityType
    <2>3. Cardinality(S) = 0 <=> S = {}
        BY <2>1, FS_EmptySet
    <2> QED
        BY <2>1, <2>2, <2>3, GateAssumption
<1> QED
    BY <1>1, <1>2

\* NewGate returns a gate that satisfies the invariant.
LEMMA GateInit == Init => GateInv
<1> SUFFICES ASSUME Init PROVE GateInv
    OBVIOUS
<1>1. 0 \in Slots /\ c \in Nat
    BY SlotsFinite, GateAssumption
<1>2. TypeOK
    <2>1. busy \in [Slots -> BOOLEAN] /\ pc \in [Procs -> States]
        BY DEF Init, States
    <2>2. age \in [Procs -> Nat] /\ ticket \in [Procs -> Slots] /\ running \in 0 .. c
        BY <1>1 DEF Init
    <2> QED
        BY <1>1, <2>1, <2>2, Zenon DEF Init, TypeOK
<1>5. NotBroken /\ WindowOK /\ SleepsForReason
    BY DEF Init, NotBroken, WindowOK, SleepsForReason, Inside
<1>6. StopOK
    BY DEF Init, StopOK, Draining
<1>3. BusySet = {}
    BY DEF BusySet, Init
<1>4. SlotsOK
    BY <1>3, FS_EmptySet DEF SlotsOK, Init, Inside
<1> QED
    BY <1>2, <1>4, <1>5, <1>6 DEF GateInv

\* An Enter that goes to sleep preserves the invariant.
LEMMA GateEnterWait ==
    ASSUME GateInv, NEW p \in Procs, EnterWait(p)
    PROVE  GateInv'
<1>1. BusySet' = BusySet
    BY DEF BusySet, EnterWait, gate, Slots
<1>2. \A q \in Procs : (Inside(q))' <=> Inside(q)
    BY DEF GateInv, TypeOK, EnterWait, Inside
<1>3. \A q \in Procs : (Draining(q))' <=> Draining(q)
    BY DEF GateInv, TypeOK, EnterWait, Draining
<1>4. TypeOK' /\ NotBroken'
    BY DEF GateInv, TypeOK, NotBroken, EnterWait, gate, States
<1>5. SlotsOK'
    BY <1>1, <1>2 DEF GateInv, SlotsOK, EnterWait, gate
<1>6. WindowOK'
    BY <1>2 DEF GateInv, WindowOK, EnterWait, gate, Since
<1>7. StopOK'
    BY <1>3 DEF GateInv, StopOK, EnterWait, gate
<1>8. SleepsForReason'
    BY DEF GateInv, TypeOK, SleepsForReason, EnterWait, gate
<1> QED
    BY <1>4, <1>5, <1>6, <1>7, <1>8 DEF GateInv

\* An Enter that takes the next slot preserves the invariant.
LEMMA GateEnter ==
    ASSUME GateInv, NEW p \in Procs, Enter(p)
    PROVE  GateInv'
<1>0. /\ pos \in Slots /\ c \in Nat /\ c > 0 /\ ticket \in [Procs -> Slots]
      /\ busy \in [Slots -> BOOLEAN] /\ age \in [Procs -> Nat] /\ pc \in [Procs -> States]
    BY GateAssumption DEF GateInv, TypeOK
<1>1. /\ busy[pos] = FALSE /\ stop = FALSE /\ stop' = FALSE /\ ~Inside(p)
      /\ busy' = [busy EXCEPT ![pos] = TRUE]
      /\ ticket' = [ticket EXCEPT ![p] = pos]
      /\ pc' = [pc EXCEPT ![p] = "inside"]
      /\ running' = running + 1
      /\ pos' = After(pos)
    BY <1>0 DEF Enter, Take, Inside, GateInv, TypeOK
<1>2. \A q \in Procs : /\ (Inside(q))' <=> q = p \/ Inside(q)
                       /\ q # p => ticket'[q] = ticket[q]
                       /\ (Draining(q))' => Draining(q)
                       /\ pc'[q] = "waiting" => pc[q] = "waiting"
    BY <1>0, <1>1 DEF Inside, Draining
<1>3. ticket'[p] = pos /\ busy'[pos] = TRUE /\ \A i \in Slots : i # pos => busy'[i] = busy[i]
    BY <1>0, <1>1
<1>4. BusySet' = BusySet \cup {pos} /\ pos \notin BusySet
    BY <1>0, <1>1, <1>3 DEF BusySet, Slots
<1>5. running' = Cardinality(BusySet') /\ running' \in 0 .. c
    <2>1. BusySet \in SUBSET Slots /\ BusySet' \in SUBSET Slots
        BY DEF BusySet, Slots
    <2>2. Cardinality(BusySet') = Cardinality(BusySet) + 1
        BY <1>4, <2>1, SlotsFinite, FS_AddElement
    <2>3. running = Cardinality(BusySet)
        BY DEF GateInv, SlotsOK
    <2> QED
        BY <1>1, <2>1, <2>2, <2>3, SlotsFinite
<1>6. After(pos) \in Slots
    BY <1>0 DEF After, Slots
<1>7. TypeOK'
    <2>1. age' \in [Procs -> Nat]
        BY <1>0 DEF Enter, Take
    <2>2. broken' \in BOOLEAN /\ checked' \in BOOLEAN
        BY DEF Enter, Take
    <2>3. busy' \in [Slots -> BOOLEAN] /\ pc' \in [Procs -> States] /\ ticket' \in [Procs -> Slots]
        BY <1>0, <1>1 DEF States
    <2> QED
        BY <2>1, <2>2, <2>3, <1>1, <1>5, <1>6, Zenon DEF TypeOK, Slots
<1>8. NotBroken'
    BY <1>0, <1>1, <1>5 DEF GateInv, NotBroken, Enter, Take
<1>9. SlotsOK'
    <2>1. \A q \in Procs : Inside(q) => busy[ticket[q]] /\ ticket[q] # pos /\ ticket[q] \in Slots
        BY <1>0, <1>1 DEF GateInv, SlotsOK
    <2>2. \A q \in Procs : (Inside(q))' => busy'[ticket'[q]]
        BY <1>2, <1>3, <2>1
    <2>3. \A q, r \in Procs : (Inside(q))' /\ (Inside(r))' /\ q # r => ticket'[q] # ticket'[r]
        BY <1>2, <1>3, <2>1 DEF GateInv, SlotsOK
    <2>4. \A i \in Slots : busy'[i] => \E q \in Procs : (Inside(q))' /\ ticket'[q] = i
        BY <1>1, <1>2, <1>3 DEF GateInv, SlotsOK
    <2> QED
        BY <1>5, <2>2, <2>3, <2>4 DEF SlotsOK, Inside, Slots
<1>10. WindowOK'
    <2> SUFFICES ASSUME NEW q \in Procs, (Inside(q))'
                 PROVE  age'[q] = (Since(ticket[q]))'
        BY DEF WindowOK
    <2>1. age' = [r \in Procs |-> IF r = p THEN 0 ELSE IF Inside(r) THEN age[r] + 1 ELSE age[r]]
        BY DEF Enter, Take
    <2>2. CASE q = p
        BY <2>1, <2>2, <1>0, <1>1, <1>3 DEF Since, After, Slots
    <2>3. CASE q # p
        <3>1. Inside(q) /\ ticket'[q] = ticket[q] /\ ticket[q] \in Slots /\ ticket[q] # pos
            BY <2>3, <1>0, <1>1, <1>2 DEF GateInv, SlotsOK
        <3>2. age'[q] = age[q] + 1 /\ age[q] = Since(ticket[q])
            BY <2>1, <2>3, <3>1 DEF GateInv, WindowOK
        <3>3. ASSUME NEW x \in Slots, NEW a \in Slots, x # a
              PROVE  (IF x < After(a) THEN After(a) - 1 - x ELSE After(a) - 1 - x + c)
                       = (IF x < a THEN a - 1 - x ELSE a - 1 - x + c) + 1
            BY <3>3, GateAssumption DEF After, Slots
        <3>4. pos \in Slots /\ pos' = After(pos)
            BY <1>0, <1>1
        <3>5. (Since(ticket[q]))' = Since(ticket[q]) + 1
            BY <3>1, <3>3, <3>4 DEF Since
        <3> QED
            BY <3>2, <3>5
    <2> QED
        BY <2>2, <2>3
<1>11. StopOK'
    <2>1. \A q \in Procs : ~Draining(q)
        BY <1>1 DEF GateInv, StopOK
    <2>2. \A q \in Procs : ~(Draining(q))'
        BY <2>1, <1>2
    <2>3. hasF /\ ~busy'[0] => checked'
        <3>1. CASE pos = 0
            BY <3>1, <1>3
        <3>2. CASE pos # 0
            <4>1. 0 \in Slots /\ busy'[0] = busy[0]
                BY <3>2, <1>3, SlotsFinite
            <4> QED
                BY <4>1, <3>2, <1>1, Zenon DEF GateInv, StopOK, Enter, Take
        <3> QED
            BY <3>1, <3>2
    <2> QED
        BY <2>2, <2>3, <1>1 DEF StopOK
<1>12. SleepsForReason'
    BY <1>1, <1>2 DEF GateInv, SleepsForReason
<1> QED
    BY <1>7, <1>8, <1>9, <1>10, <1>11, <1>12 DEF GateInv

\* A broadcast puts nobody inside and leaves nobody asleep.
LEMMA BroadcastWakes ==
    ASSUME pc \in [Procs -> States], NEW p \in Procs
    PROVE  /\ Broadcast(Out(p)) \in [Procs -> States]
           /\ \A q \in Procs :
                /\ Broadcast(Out(p))[q] = "inside" <=> Inside(q) /\ q # p
                /\ Broadcast(Out(p))[q] \in {"draining", "drained"} <=> Draining(q) /\ q # p
                /\ Broadcast(Out(p))[q] # "waiting"
<1> DEFINE w == Out(p)
<1>1. /\ w \in [Procs -> States]
      /\ \A q \in Procs : w[q] = IF q = p THEN "outside" ELSE pc[q]
    BY DEF Out, States
<1>2. \A q \in Procs : Broadcast(w)[q] = CASE w[q] = "waiting"  -> "woken"
                                           [] w[q] = "draining" -> "drained"
                                           [] OTHER -> w[q]
    BY DEF Broadcast
<1> HIDE DEF w
<1>3. Broadcast(w) \in [Procs -> States]
    BY <1>1 DEF Broadcast, States
<1>4. ASSUME NEW q \in Procs
      PROVE  /\ Broadcast(w)[q] = "inside" <=> Inside(q) /\ q # p
             /\ Broadcast(w)[q] \in {"draining", "drained"} <=> Draining(q) /\ q # p
             /\ Broadcast(w)[q] # "waiting"
    BY <1>1, <1>2 DEF Inside, Draining, States
<1> QED
    BY <1>3, <1>4 DEF w

\* What giving a slot back does, whatever becomes of the process afterwards.
LEMMA GateRelease ==
    ASSUME GateInv, NEW p \in Procs, Release(p),
           pc' \in [Procs -> States],
           \A q \in Procs : (Inside(q))' <=> Inside(q) /\ q # p
    PROVE  /\ busy' \in [Slots -> BOOLEAN] /\ running' \in 0 .. c
           /\ age' \in [Procs -> Nat] /\ broken' \in BOOLEAN
           /\ busy'[ticket[p]] = FALSE
           /\ \A i \in Slots : i # ticket[p] => busy'[i] = busy[i]
           /\ CallsF(p) => ~stop
           /\ NotBroken' /\ SlotsOK' /\ WindowOK'
<1> DEFINE i == ticket[p]
<1>0. /\ pos \in Slots /\ c \in Nat /\ c > 0 /\ ticket \in [Procs -> Slots]
      /\ busy \in [Slots -> BOOLEAN] /\ age \in [Procs -> Nat] /\ pc \in [Procs -> States]
      /\ i \in Slots
    BY GateAssumption DEF GateInv, TypeOK
<1>1. /\ Inside(p) /\ busy[i] = TRUE
      /\ busy' = [busy EXCEPT ![i] = FALSE]
      /\ running' = running - 1
      /\ age' = [age EXCEPT ![p] = 0]
      /\ pos' = pos /\ ticket' = ticket
    BY <1>0 DEF Release, GateInv, SlotsOK
<1>2. busy'[i] = FALSE /\ \A j \in Slots : j # i => busy'[j] = busy[j]
    BY <1>0, <1>1
<1>3. BusySet' = BusySet \ {i} /\ i \in BusySet
    BY <1>0, <1>1, <1>2 DEF BusySet, Slots
<1>4. running' = Cardinality(BusySet') /\ running' \in 0 .. c
    <2>1. BusySet \in SUBSET Slots /\ BusySet' \in SUBSET Slots
        BY DEF BusySet, Slots
    <2>2. Cardinality(BusySet') = Cardinality(BusySet) - 1
        BY <1>3, <2>1, SlotsFinite, FS_RemoveElement
    <2>3. running = Cardinality(BusySet)
        BY DEF GateInv, SlotsOK
    <2> QED
        BY <1>1, <2>1, <2>2, <2>3, SlotsFinite
<1>5. CallsF(p) => ~stop
    BY <1>1 DEF GateInv, StopOK, CallsF
<1>6. NotBroken' /\ broken' \in BOOLEAN
    <2>1. ~(running - 1 < 0)
        BY <1>1, <1>4
    <2> QED
        BY <2>1, <1>1, <1>5 DEF Release, GateInv, NotBroken
<1>7. SlotsOK'
    <2>1. \A q \in Procs : Inside(q) /\ q # p => ticket[q] # i /\ ticket[q] \in Slots
        BY <1>0, <1>1 DEF GateInv, SlotsOK
    <2>2. \A q \in Procs : (Inside(q))' => busy'[ticket'[q]]
        BY <1>0, <1>1, <1>2, <2>1 DEF GateInv, SlotsOK
    <2>3. \A q, r \in Procs : (Inside(q))' /\ (Inside(r))' /\ q # r => ticket'[q] # ticket'[r]
        BY <1>1 DEF GateInv, SlotsOK
    <2>4. \A j \in Slots : busy'[j] => \E q \in Procs : (Inside(q))' /\ ticket'[q] = j
        <3> SUFFICES ASSUME NEW j \in Slots, busy'[j]
                     PROVE  \E q \in Procs : (Inside(q))' /\ ticket'[q] = j
            OBVIOUS
        <3>1. j # i /\ busy[j]
            BY <1>2
        <3>2. PICK q \in Procs : Inside(q) /\ ticket[q] = j
            BY <3>1 DEF GateInv, SlotsOK
        <3> QED
            BY <3>1, <3>2, <1>1
    <2> QED
        BY <1>4, <2>2, <2>3, <2>4 DEF SlotsOK, Inside, Slots
<1>8. WindowOK' /\ age' \in [Procs -> Nat]
    BY <1>0, <1>1 DEF GateInv, WindowOK, Since
<1>9. busy' \in [Slots -> BOOLEAN]
    BY <1>0, <1>1
<1> QED
    BY <1>2, <1>4, <1>5, <1>6, <1>7, <1>8, <1>9

\* Leave, by an execution that does not call f.
LEMMA GateLeave ==
    ASSUME GateInv, NEW p \in Procs, Leave(p)
    PROVE  GateInv'
<1>0. Release(p) /\ ~CallsF(p) /\ stop' = stop /\ checked' = checked /\ Inside(p)
    BY DEF Leave, Release
<1>1. pc \in [Procs -> States] /\ ticket \in [Procs -> Slots] /\ pos \in Slots
      /\ ticket' = ticket /\ pos' = pos
    BY <1>0 DEF GateInv, TypeOK, Release
<1>2. pc' = Broadcast(Out(p)) \/ pc' = Out(p)
    BY DEF Leave
<1>3. /\ pc' \in [Procs -> States]
      /\ \A q \in Procs : /\ (Inside(q))' <=> Inside(q) /\ q # p
                          /\ (Draining(q))' => Draining(q)
                          /\ pc'[q] = "waiting" => pc[q] = "waiting" /\ pc' = Out(p)
    <2>1. CASE pc' = Broadcast(Out(p))
        BY <2>1, <1>1, BroadcastWakes DEF Inside, Draining
    <2>2. CASE pc' = Out(p)
        BY <2>2, <1>1 DEF Out, Inside, Draining, States
    <2> QED
        BY <1>2, <2>1, <2>2
<1>4. /\ busy' \in [Slots -> BOOLEAN] /\ running' \in 0 .. c
      /\ age' \in [Procs -> Nat] /\ broken' \in BOOLEAN
      /\ busy'[ticket[p]] = FALSE
      /\ \A i \in Slots : i # ticket[p] => busy'[i] = busy[i]
      /\ NotBroken' /\ SlotsOK' /\ WindowOK'
    BY <1>0, <1>3, GateRelease, Zenon
<1>5. TypeOK'
    BY <1>0, <1>1, <1>3, <1>4 DEF TypeOK, GateInv, Slots
<1>6. StopOK'
    <2>1. 0 \in Slots /\ (hasF => ticket[p] # 0)
        BY <1>0, SlotsFinite DEF CallsF
    <2>2. stop => ~busy'[0]
        BY <2>1, <1>1, <1>4 DEF GateInv, StopOK
    <2>3. hasF /\ ~busy'[0] /\ ~stop => checked
        BY <2>1, <1>4 DEF GateInv, StopOK
    <2> QED
        BY <2>2, <2>3, <1>0, <1>3 DEF GateInv, StopOK
<1>7. SleepsForReason'
    <2> SUFFICES ASSUME NEW q \in Procs, pc'[q] = "waiting"
                 PROVE  busy'[pos] \/ stop
        BY <1>0, <1>1 DEF SleepsForReason
    <2>1. pc[q] = "waiting" /\ pc' = Out(p)
        BY <1>3
    <2>2. busy[pos] \/ stop
        BY <2>1 DEF GateInv, SleepsForReason
    <2>3. pc' = Broadcast(Out(p)) => FALSE
        BY <1>1, BroadcastWakes
    <2>4. stop \/ ticket[p] # pos
        BY <2>3 DEF Leave
    <2> QED
        BY <2>2, <2>4, <1>1, <1>4
<1> QED
    BY <1>4, <1>5, <1>6, <1>7 DEF GateInv

\* Leave of slot 0, when there is a callback.
LEMMA GateLeaveFirst ==
    ASSUME GateInv, NEW p \in Procs, LeaveFirst(p)
    PROVE  GateInv'
<1>0. Release(p) /\ CallsF(p) /\ Inside(p) /\ ticket[p] = 0 /\ 0 \in Slots
    BY SlotsFinite DEF LeaveFirst, Release, CallsF
<1>1. pc \in [Procs -> States] /\ ticket \in [Procs -> Slots] /\ pos \in Slots
      /\ ticket' = ticket /\ pos' = pos /\ checked \in BOOLEAN
    BY <1>0 DEF GateInv, TypeOK, Release
<1>2. \/ Callback(p)
      \/ stop' = TRUE /\ pc' = [pc EXCEPT ![p] = "draining"] /\ checked' = checked
    BY DEF LeaveFirst
<1>3. /\ pc' \in [Procs -> States]
      /\ \A q \in Procs : (Inside(q))' <=> Inside(q) /\ q # p
    <2>1. CASE Callback(p)
        BY <2>1, <1>1, BroadcastWakes DEF Inside, Callback
    <2>2. CASE pc' = [pc EXCEPT ![p] = "draining"]
        BY <2>2, <1>1 DEF Inside, States
    <2> QED
        BY <1>2, <2>1, <2>2
<1>4. /\ busy' \in [Slots -> BOOLEAN] /\ running' \in 0 .. c
      /\ age' \in [Procs -> Nat] /\ broken' \in BOOLEAN
      /\ busy'[0] = FALSE
      /\ ~stop
      /\ NotBroken' /\ SlotsOK' /\ WindowOK'
    BY <1>0, <1>3, GateRelease, Zenon
<1>5. \A q \in Procs : ~Draining(q)
    BY <1>4 DEF GateInv, StopOK
<1>6. CASE Callback(p)
    <2>1. \A q \in Procs : ~(Draining(q))' /\ pc'[q] # "waiting"
        BY <1>1, <1>5, <1>6, BroadcastWakes DEF Callback, Draining
    <2>2. StopOK' /\ SleepsForReason'
        BY <2>1, <1>6 DEF StopOK, SleepsForReason, Callback
    <2>3. TypeOK'
        BY <1>1, <1>3, <1>4, <1>6, Zenon DEF TypeOK, Callback, Slots
    <2> QED
        BY <2>2, <2>3, <1>4 DEF GateInv
<1>7. CASE stop' = TRUE /\ pc' = [pc EXCEPT ![p] = "draining"] /\ checked' = checked
    <2>1. \A q \in Procs : (Draining(q))' <=> q = p
        BY <1>1, <1>5, <1>7 DEF Draining
    <2>2. StopOK' /\ SleepsForReason'
        BY <2>1, <1>4, <1>7 DEF StopOK, SleepsForReason
    <2>3. TypeOK'
        BY <1>1, <1>3, <1>4, <1>7 DEF TypeOK, Slots
    <2> QED
        BY <2>2, <2>3, <1>4 DEF GateInv
<1> QED
    BY <1>2, <1>6, <1>7, Zenon

\* The process that waited for the others, after it was woken.
LEMMA GateDrained ==
    ASSUME GateInv, NEW p \in Procs, Drained(p)
    PROVE  GateInv'
<1>0. /\ pc \in [Procs -> States] /\ pc[p] = "drained" /\ ~Inside(p) /\ Draining(p)
      /\ busy' = busy /\ pos' = pos /\ running' = running /\ ticket' = ticket
      /\ broken' = broken /\ age' = age /\ checked \in BOOLEAN /\ stop \in BOOLEAN
    BY DEF GateInv, TypeOK, Drained, Inside, Draining
<1>1. \/ Callback(p)
      \/ pc' = [pc EXCEPT ![p] = "draining"] /\ stop' = stop /\ checked' = checked
    BY DEF Drained
<1>2. /\ pc' \in [Procs -> States]
      /\ \A q \in Procs : (Inside(q))' <=> Inside(q)
    <2>1. CASE Callback(p)
        BY <2>1, <1>0, BroadcastWakes DEF Inside, Callback
    <2>2. CASE pc' = [pc EXCEPT ![p] = "draining"]
        BY <2>2, <1>0 DEF Inside, States
    <2> QED
        BY <1>1, <2>1, <2>2
<1>3. BusySet' = BusySet
    BY <1>0 DEF BusySet, Slots
<1>4. NotBroken' /\ SlotsOK' /\ WindowOK'
    <2>1. NotBroken'
        BY <1>0 DEF GateInv, NotBroken
    <2>2. SlotsOK'
        BY <1>0, <1>2, <1>3 DEF GateInv, SlotsOK
    <2>3. WindowOK'
        BY <1>0, <1>2 DEF GateInv, WindowOK, Since
    <2> QED
        BY <2>1, <2>2, <2>3
<1>5. CASE Callback(p)
    <2>1. \A q \in Procs : Draining(q) => q = p
        BY <1>0 DEF GateInv, StopOK
    <2>2. \A q \in Procs : ~(Draining(q))' /\ pc'[q] # "waiting"
        BY <2>1, <1>0, <1>5, BroadcastWakes DEF Callback, Draining
    <2>3. StopOK' /\ SleepsForReason'
        BY <2>2, <1>5 DEF StopOK, SleepsForReason, Callback
    <2>4. TypeOK'
        BY <1>0, <1>2, <1>5, Zenon DEF GateInv, TypeOK, Callback, Slots
    <2> QED
        BY <2>3, <2>4, <1>4 DEF GateInv
<1>6. CASE pc' = [pc EXCEPT ![p] = "draining"] /\ stop' = stop /\ checked' = checked
    <2>1. \A q \in Procs : ((Draining(q))' <=> Draining(q)) /\ (pc'[q] = "waiting" => pc[q] = "waiting")
        BY <1>0, <1>6 DEF Draining
    <2>2. StopOK'
        BY <2>1, <1>0, <1>6 DEF GateInv, StopOK
    <2>3. SleepsForReason'
        BY <2>1, <1>0, <1>6 DEF GateInv, SleepsForReason
    <2>4. TypeOK'
        BY <1>0, <1>2, <1>6 DEF GateInv, TypeOK, Slots
    <2> QED
        BY <2>2, <2>3, <2>4, <1>4 DEF GateInv
<1> QED
    BY <1>1, <1>5, <1>6

\* Every step of the gate preserves the invariant.
LEMMA GateNext == GateInv /\ [Next]_vars => GateInv'
<1> SUFFICES ASSUME GateInv, [Next]_vars PROVE GateInv'
    OBVIOUS
<1>1. CASE Next
    <2> SUFFICES ASSUME NEW p \in Procs, Step(p) PROVE GateInv'
        BY <1>1 DEF Next
    <2> QED
        BY GateEnterWait, GateEnter, GateLeave, GateLeaveFirst, GateDrained DEF Step
<1>2. CASE UNCHANGED vars
    <2>1. BusySet' = BusySet
        BY <1>2 DEF BusySet, Slots, vars, gate
    <2>2. SlotsOK'
        BY <2>1, <1>2 DEF GateInv, SlotsOK, Inside, vars, gate
    <2>3. TypeOK' /\ NotBroken' /\ SleepsForReason'
        BY <1>2 DEF GateInv, TypeOK, NotBroken, SleepsForReason, vars, gate
    <2>4. WindowOK' /\ StopOK'
        BY <1>2 DEF GateInv, WindowOK, StopOK, Inside, Draining, Since, vars, gate
    <2> QED
        BY <2>2, <2>3, <2>4 DEF GateInv
<1> QED
    BY <1>1, <1>2

-----------------------------------------------------------------------------
\* gate.go never panics with "broken gate".
THEOREM GateNeverBroken == Spec => []NotBroken
<1>1. GateInv => NotBroken
    BY DEF GateInv
<1> QED
    BY <1>1, GateInit, GateNext, PTL DEF Spec

\* Enter() and Leave() miss no Broadcast(): a process sleeps in Enter() only while the
\* next slot is taken or the gate is closed.
THEOREM GateSleeps == Spec => []SleepsForReason
<1>1. GateInv => SleepsForReason
    BY DEF GateInv
<1> QED
    BY <1>1, GateInit, GateNext, PTL DEF Spec

\* No execution outlives its window of c starts.
THEOREM GateWindow == Spec => []Window
<1>1. GateInv => Window
    <2> SUFFICES ASSUME GateInv, NEW p \in Procs, Inside(p) PROVE age[p] < c
        BY DEF GateInv, Window
    <2>1. ticket[p] \in Slots /\ pos \in Slots /\ c \in Nat /\ age[p] = Since(ticket[p])
        BY GateAssumption DEF GateInv, TypeOK, WindowOK
    <2> QED
        BY <2>1 DEF Since, Slots
<1> QED
    BY <1>1, GateInit, GateNext, PTL DEF Spec

\* The callback of Leave runs while no execution is inside the gate.
THEOREM GateAlone == Spec => AloneInCallback
<1>1. GateInv /\ GateInv' /\ [Next]_vars
      => [~checked /\ checked' => \A p \in Procs : pc'[p] # "inside"]_vars
    <2> SUFFICES ASSUME GateInv, GateInv', Next, ~checked, checked'
                 PROVE  \A p \in Procs : pc'[p] # "inside"
        OBVIOUS
    <2>1. PICK p \in Procs : Step(p)
        BY DEF Next
    <2>2. running' = 0
        BY <2>1, Zenon DEF Step, EnterWait, Enter, Take, Leave, LeaveFirst, Drained
    <2>3. BusySet' = {}
        <3>1. BusySet' \in SUBSET Slots
            BY DEF BusySet, Slots
        <3>2. Cardinality(BusySet') = 0
            BY <2>2 DEF GateInv, SlotsOK
        <3> QED
            BY <3>1, <3>2, SlotsFinite
    <2>4. \A q \in Procs : (Inside(q))' => ticket'[q] \in BusySet'
        BY DEF GateInv, TypeOK, SlotsOK, BusySet, Slots
    <2> QED
        BY <2>3, <2>4 DEF Inside
<1> QED
    BY <1>1, GateInit, GateNext, PTL DEF Spec, AloneInCallback

\* With a callback, slot 0 is never taken again before the callback has run.
THEOREM GateBatches == Spec => CallbackPerBatch
<1>1. GateInv /\ [Next]_vars
      => [hasF /\ (\E p \in Procs : ~Inside(p) /\ pc'[p] = "inside" /\ ticket'[p] = 0)
          => checked]_vars
    <2> SUFFICES ASSUME GateInv, Next, hasF, NEW q \in Procs,
                        ~Inside(q), pc'[q] = "inside", ticket'[q] = 0
                 PROVE  checked
        OBVIOUS
    <2>0. pc \in [Procs -> States] /\ ticket \in [Procs -> Slots]
        BY DEF GateInv, TypeOK
    <2>1. PICK p \in Procs : Step(p)
        BY DEF Next
    <2>2. CASE Enter(p)
        <3>1. q = p
            BY <2>0, <2>2 DEF Enter, Take, Inside
        <3>2. pos = 0 /\ ~busy[pos] /\ ~stop
            BY <2>0, <2>2, <3>1 DEF Enter, Take
        <3> QED
            BY <3>2 DEF GateInv, StopOK
    <2>3. CASE EnterWait(p)
        BY <2>0, <2>3 DEF EnterWait, Inside
    <2>4. CASE Leave(p)
        BY <2>0, <2>4, BroadcastWakes, Zenon DEF Leave, Out, Inside
    <2>5. CASE LeaveFirst(p)
        BY <2>0, <2>5, BroadcastWakes DEF LeaveFirst, Callback, Inside
    <2>6. CASE Drained(p)
        BY <2>0, <2>6, BroadcastWakes DEF Drained, Callback, Inside
    <2> QED
        BY <2>1, <2>2, <2>3, <2>4, <2>5, <2>6 DEF Step
<1> QED
    BY <1>1, GateInit, GateNext, PTL DEF Spec, CallbackPerBatch

=============================================================================
