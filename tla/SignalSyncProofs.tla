-------------------------- MODULE SignalSyncProofs --------------------------
(***************************************************************************)
(* That no signal is lost between the fuzzers and the manager, for any      *)
(* machines, processes, programs, signal, batch sizes and crashes: signals  *)
(* as a lattice, the inductive invariant SyncInv, the steps of the machines *)
(* and of the server that keep it, and the theorems.                        *)
(***************************************************************************)
EXTENDS SignalSync, WellFoundedInduction, TLAPS

USE SMTT(30)

-----------------------------------------------------------------------------
(* Signals are a lattice: Within is an order, Merge and MergeAll are least  *)
(* upper bounds.                                                            *)

\* A non-empty set of natural numbers has a least one.
LEMMA LeastNumber ==
    ASSUME NEW T, T \subseteq Nat, T # {}
    PROVE  \E n \in T : \A m \in T : n <= m
<1>1. \E n \in T : \A m \in T : ~(<<m, n>> \in OpToRel(<, Nat))
    BY WFMin, NatLessThanWellFounded, Zenon
<1>2. PICK n \in T : \A m \in T : ~(<<m, n>> \in OpToRel(<, Nat))
    BY <1>1, Zenon
<1>3. ASSUME NEW m \in T, m < n PROVE FALSE
    <2>1. <<m, n>> \in {ss \in Nat \X Nat : ss[1] < ss[2]}
        BY <1>3
    <2> QED
        BY <2>1, <1>2, Zenon DEF OpToRel
<1>4. \A m \in T : m \in Nat /\ n \in Nat
    OBVIOUS
<1> QED
    BY <1>3, <1>4

\* A non-empty set of priorities has a highest one, the one Max takes.
LEMMA HighestPriority ==
    ASSUME NEW S, S \subseteq -1 .. 127, S # {}
    PROVE  Max(S) \in S /\ \A y \in S : y <= Max(S)
<1> DEFINE T == {127 - y : y \in S}
<1>1. \A y \in S : y \in -1 .. 127 /\ 127 - y \in Nat
    <2>1. TAKE y \in S
    <2>2. y \in -1 .. 127
        BY <2>1
    <2> QED
        BY <2>2
<1>2. T \subseteq Nat /\ T # {}
    BY <1>1, ZenonT(60)
<1>3. PICK n \in T : \A m \in T : n <= m
    BY <1>2, LeastNumber, Zenon
<1>4. \E x \in S : \A y \in S : x >= y
    <2>1. PICK x \in S : n = 127 - x
        OBVIOUS
    <2>2. \A y \in S : 127 - x <= 127 - y
        BY <2>1, <1>3, ZenonT(60)
    <2> QED
        BY <2>2, <1>1
<1> QED
    BY <1>4, Zenon DEF Max

\* The priorities of a signal are numbers.
LEMMA SignalType ==
    /\ Nil \in Signals
    /\ \A a \in Signals, e \in Elems : a[e] \in -1 .. 127
    /\ \A a \in Signals, e \in Elems : a[e] \in Int /\ -1 <= a[e]
<1>1. Prios \subseteq 0 .. 127
    BY SyncAssumption DEF SyncAssumption
<1>2. \A x \in {absent} \cup Prios : x \in -1 .. 127
    <2>1. \A x \in Prios : x \in 0 .. 127
        BY <1>1
    <2> QED
        BY <2>1 DEF absent
<1>3. \A a \in Signals, e \in Elems : a[e] \in {absent} \cup Prios
    BY DEF Signals
<1>4. \A a \in Signals, e \in Elems : a[e] \in -1 .. 127
    BY <1>2, <1>3, Zenon
<1>5. Nil \in Signals
    BY DEF Nil, Signals
<1> QED
    BY <1>4, <1>5

\* Containment of signals is an order, with the empty signal at the bottom.
LEMMA WithinOrder ==
    /\ \A a \in Signals : Within(a, a) /\ Within(Nil, a)
    /\ \A a, b, c \in Signals : Within(a, b) /\ Within(b, c) => Within(a, c)
<1>1. \A a \in Signals : Within(a, a) /\ Within(Nil, a)
    BY SignalType DEF Within, Nil, absent
<1>2. ASSUME NEW a \in Signals, NEW b \in Signals, NEW c \in Signals, Within(a, b), Within(b, c)
      PROVE  Within(a, c)
    BY <1>2, SignalType DEF Within
<1> QED
    BY <1>1, <1>2

\* MergeAll() of any signals is the least signal that has them all.
LEMMA MergeAllIsJoin ==
    ASSUME NEW S, S \subseteq Signals
    PROVE  /\ MergeAll(S) \in Signals
           /\ \A a \in S : Within(a, MergeAll(S))
           /\ \A c \in Signals : (\A a \in S : Within(a, c)) => Within(MergeAll(S), c)
           /\ \A e \in Elems : MergeAll(S)[e] = absent \/ \E a \in S : MergeAll(S)[e] = a[e]
<1> DEFINE At(e) == {absent} \cup {a[e] : a \in S}
<1>1. \A e \in Elems : At(e) \subseteq -1 .. 127 /\ At(e) # {}
    BY SignalType DEF absent
<1>2. \A e \in Elems : Max(At(e)) \in At(e) /\ \A y \in At(e) : y <= Max(At(e))
    BY <1>1, HighestPriority, Zenon
<1>3. \A e \in Elems : At(e) \subseteq {absent} \cup Prios
    BY DEF Signals
<1>4. MergeAll(S) = [e \in Elems |-> Max(At(e))]
    BY DEF MergeAll
<1> HIDE DEF At
<1>5. MergeAll(S) \in Signals
    BY <1>2, <1>3, <1>4 DEF Signals
<1>6. ASSUME NEW a \in S PROVE Within(a, MergeAll(S))
    <2>1. \A e \in Elems : a[e] \in At(e)
        BY DEF At
    <2> QED
        BY <2>1, <1>2, <1>4 DEF Within
<1>7. ASSUME NEW c \in Signals, \A a \in S : Within(a, c) PROVE Within(MergeAll(S), c)
    <2>1. \A e \in Elems : \A y \in At(e) : y <= c[e]
        BY <1>7, SignalType DEF At, Within, absent
    <2> QED
        BY <2>1, <1>2, <1>4 DEF Within
<1>8. \A e \in Elems : MergeAll(S)[e] = absent \/ \E a \in S : MergeAll(S)[e] = a[e]
    BY <1>2, <1>4, Zenon DEF At
<1> QED
    BY <1>5, <1>6, <1>7, <1>8

\* Merge() of two signals is the least signal that has both.
LEMMA MergeIsJoin ==
    ASSUME NEW a \in Signals, NEW b \in Signals
    PROVE  /\ Merge(a, b) \in Signals
           /\ Within(a, Merge(a, b)) /\ Within(b, Merge(a, b))
           /\ \A c \in Signals : Within(a, c) /\ Within(b, c) => Within(Merge(a, b), c)
<1>1. \A e \in Elems : {a[e], b[e]} \subseteq -1 .. 127 /\ {a[e], b[e]} # {}
    BY SignalType
<1>2. \A e \in Elems : Max({a[e], b[e]}) \in {a[e], b[e]} /\ \A y \in {a[e], b[e]} : y <= Max({a[e], b[e]})
    BY <1>1, HighestPriority
<1>3. \A e \in Elems : Merge(a, b)[e] \in {a[e], b[e]} /\ a[e] <= Merge(a, b)[e] /\ b[e] <= Merge(a, b)[e]
    BY <1>2 DEF Merge
<1>4. \A e \in Elems : a[e] \in {absent} \cup Prios /\ b[e] \in {absent} \cup Prios
    BY DEF Signals
<1>5. Merge(a, b) = [e \in Elems |-> Merge(a, b)[e]]
    BY DEF Merge
<1>6. Merge(a, b) \in Signals
    BY <1>3, <1>4, <1>5 DEF Signals
<1> QED
    BY <1>3, <1>6 DEF Within

\* A part of a signal, and the rest of it.
LEMMA OnlyIsPart ==
    ASSUME NEW a \in Signals, NEW E
    PROVE  /\ Only(a, E) \in Signals
           /\ Within(Only(a, E), a)
           /\ \A c \in Signals : Within(Only(a, E), c) /\ Within(Only(a, Elems \ E), c) => Within(a, c)
<1>1. Only(a, E) \in Signals
    BY DEF Only, Signals
<1>2. Within(Only(a, E), a)
    BY SignalType DEF Only, Within, absent
<1>3. ASSUME NEW c \in Signals, Within(Only(a, E), c), Within(Only(a, Elems \ E), c) PROVE Within(a, c)
    BY <1>3 DEF Only, Within
<1> QED
    BY <1>1, <1>2, <1>3

\* What b adds to a is part of b, and with a it has all of b.
LEMMA DiffIsMissing ==
    ASSUME NEW a \in Signals, NEW b \in Signals
    PROVE  /\ Diff(a, b) \in Signals
           /\ Within(Diff(a, b), b)
           /\ \A c \in Signals : Within(a, c) /\ Within(Diff(a, b), c) => Within(b, c)
           /\ Diff(a, b) = Nil => Within(b, a)
<1>1. Diff(a, b) \in Signals /\ Within(Diff(a, b), b)
    BY OnlyIsPart, Zenon DEF Diff
<1>2. \A e \in Elems : Diff(a, b)[e] = IF b[e] > a[e] THEN b[e] ELSE absent
    BY DEF Diff, Only
<1>3. \A e \in Elems : a[e] \in Int /\ b[e] \in Int /\ -1 <= a[e]
    BY SignalType
<1>4. ASSUME NEW c \in Signals, Within(a, c), Within(Diff(a, b), c) PROVE Within(b, c)
    BY <1>2, <1>3, <1>4, SignalType DEF Within
<1>5. ASSUME Diff(a, b) = Nil PROVE Within(b, a)
    BY <1>2, <1>3, <1>5 DEF Within, Nil, absent
<1> QED
    BY <1>1, <1>4, <1>5

-----------------------------------------------------------------------------
(* The inductive invariant.                                                 *)

VmType == [st : {"down", "connecting", "fetching", "running"}, snapshot : Seq(Inputs),
           max : Signals, new : Signals, csig : Signals, triage : [Progs -> Nat], need : BOOLEAN]

ProcType == [pc : {"idle", "merge", "send", "add"}, prog : Progs \cup {Idle.prog}, sig : Signals]

PollType == [pc : {"idle", "sent", "reply"}, initial : BOOLEAN, sig : Signals, need : BOOLEAN,
             inputs : Seq(Inputs), ncand : Nat]

\* The inputs of a rotated fuzzer are never sent, so nothing is said of them.
FuzzerOK(f) ==
    /\ f = [connected |-> f.connected, rotated |-> f.rotated, inputs |-> f.inputs,
            newMaxSignal |-> f.newMaxSignal, rotatedSignal |-> f.rotatedSignal]
    /\ f.connected \in BOOLEAN /\ f.rotated \in BOOLEAN
    /\ f.newMaxSignal \in Signals
    /\ ~f.rotated => f.inputs \in Seq(Inputs)

Covered(inputs, s) == \A i \in inputs : Within(i.sig, s)

Alive(m) == m.st \in {"fetching", "running"}
Answered(r) == IF r.pc = "reply" THEN r.sig ELSE Nil
Reporting(r) == IF r.pc = "sent" THEN r.sig ELSE Nil

\* What a machine m has still to learn comes from the server with the signals ms and
\* cs, from its Fuzzer f there, or in the answer r.
Learns(m, f, r, ms, cs) ==
    /\ Alive(m) => f.connected
    /\ Alive(m) /\ ~f.rotated => Within(ms, MergeAll({m.max, f.newMaxSignal, Answered(r)}))
    /\ Within(f.newMaxSignal, ms)
    /\ Within(Answered(r), ms)
    /\ Covered(Range(m.snapshot), cs)
    /\ Covered(Range(r.inputs), cs)
    /\ ~f.rotated => Covered(Range(f.inputs), cs)

\* What it knows the server knows, or will know from the request r or the next one;
\* ps are its processes.
Reports(m, ps, r, ms, cs) ==
    /\ Within(m.max, MergeAll({m.new, ms, cs, Reporting(r)}))
    /\ Within(m.new, m.max)
    /\ Alive(m) => Within(Reporting(r), m.max)
    /\ ~Alive(m) => m.max = Nil
    /\ \A g \in Progs : m.triage[g] > 0 => Within(SignalOf[g], m.max)
    /\ \A p \in Procs :
        /\ ps[p].pc # "idle" => ps[p].prog \in Progs
        /\ Alive(m) /\ ps[p].pc \in {"send", "add"} => Within(ps[p].sig, m.max)
        /\ Alive(m) /\ ps[p].pc = "merge" => Within(SignalOf[ps[p].prog], Merge(m.max, ps[p].sig))
    /\ m.st = "connecting" => r.pc = "idle" /\ \A p \in Procs : ps[p].pc = "idle"

SyncType ==
    /\ maxSignal \in Signals /\ corpusSignal \in Signals
    /\ corpus \subseteq Inputs
    /\ candidates \in Nat
    /\ vm \in [VMs -> VmType]
    /\ proc \in [VMs -> [Procs -> ProcType]]
    /\ poll \in [VMs -> PollType]
    /\ fuzzers = [v \in VMs |-> fuzzers[v]] /\ \A v \in VMs : FuzzerOK(fuzzers[v])

SyncInv ==
    /\ SyncType
    /\ Covered(corpus, corpusSignal)
    /\ \A v \in VMs : /\ Learns(vm[v], fuzzers[v], poll[v], maxSignal, corpusSignal)
                      /\ Reports(vm[v], proc[v], poll[v], maxSignal, corpusSignal)

-----------------------------------------------------------------------------
(* Lemmas.                                                                  *)

\* A join grows with the signals that are joined.
LEMMA JoinGrows ==
    ASSUME NEW S \in SUBSET Signals, NEW T \in SUBSET Signals,
           \A a \in S : Within(a, MergeAll(T))
    PROVE  Within(MergeAll(S), MergeAll(T))
    BY MergeAllIsJoin

\* Nothing is covered by every signal: an empty queue of inputs asks for none.
LEMMA NothingCovered == Range(<<>>) = {} /\ \A c : Covered({}, c) /\ Covered(Range(<<>>), c)
<1>1. Range(<<>>) = {}
    BY DEF Range
<1> QED
    BY <1>1, Zenon DEF Covered

\* Coverage is kept when the signal grows.
LEMMA CoveredGrows ==
    ASSUME NEW I \in SUBSET Inputs, NEW a \in Signals, NEW b \in Signals,
           Covered(I, a), Within(a, b)
    PROVE  Covered(I, b)
<1>1. \A i \in I : i.sig \in Signals
    BY DEF Inputs
<1> QED
    BY <1>1, WithinOrder DEF Covered

\* The elements of a sequence of inputs are inputs.
LEMMA RangeOfInputs ==
    ASSUME NEW q \in Seq(Inputs)
    PROVE  Range(q) \subseteq Inputs /\ \A i \in Range(q) : i.sig \in Signals
<1>1. \A x \in DOMAIN q : q[x] \in Inputs
    OBVIOUS
<1>2. Range(q) \subseteq Inputs
    BY <1>1 DEF Range
<1> QED
    BY <1>2 DEF Inputs

\* An input that is passed on to a fuzzer comes after the others.
LEMMA InputAppended ==
    ASSUME NEW f, FuzzerOK(f), ~f.rotated, NEW x \in Inputs
    PROVE  LET f1 == [f EXCEPT !.inputs = Append(@, x)]
           IN /\ FuzzerOK(f1) /\ f1.connected = f.connected /\ f1.rotated = f.rotated
              /\ f1.newMaxSignal = f.newMaxSignal
              /\ \A i \in Range(f1.inputs) : i \in Range(f.inputs) \/ i = x
<1> DEFINE q == Append(f.inputs, x)
           f1 == [f EXCEPT !.inputs = Append(@, x)]
<1>1. f.inputs \in Seq(Inputs)
    BY Zenon DEF FuzzerOK
<1>2. /\ q \in Seq(Inputs)
      /\ \A k \in DOMAIN q : q[k] = x \/ (k \in DOMAIN f.inputs /\ q[k] = f.inputs[k])
    BY <1>1
<1>3. \A i \in Range(q) : i \in Range(f.inputs) \/ i = x
    BY <1>2, Zenon DEF Range
<1> HIDE DEF q
<1>4. /\ f1.connected = f.connected /\ f1.rotated = f.rotated /\ f1.inputs = q
      /\ f1.newMaxSignal = f.newMaxSignal /\ f1.rotatedSignal = f.rotatedSignal
      /\ f1 = [connected |-> f1.connected, rotated |-> f1.rotated, inputs |-> f1.inputs,
               newMaxSignal |-> f1.newMaxSignal, rotatedSignal |-> f1.rotatedSignal]
    BY DEF FuzzerOK, q
<1> HIDE DEF f1
<1>5. FuzzerOK(f1)
    BY <1>2, <1>4 DEF FuzzerOK
<1> QED
    BY <1>3, <1>4, <1>5, Zenon DEF f1

\* An order of the corpus is a sequence of all its inputs.
LEMMA OrderOfCorpus ==
    ASSUME NEW S \in SUBSET Inputs, NEW q \in Orders(S)
    PROVE  q \in Seq(Inputs) /\ Range(q) = S /\ DOMAIN q \subseteq Nat
<1>1. PICK n \in 0 .. Cardinality(S) : q \in Bijection(1 .. n, S)
    BY DEF Orders
<1>2. n \in Nat
    OBVIOUS
<1>3. q \in [1 .. n -> S] /\ \A i \in S : \E k \in 1 .. n : q[k] = i
    BY <1>1 DEF Bijection, Injection, Surjection
<1>4. q \in Seq(Inputs)
    BY <1>2, <1>3
<1> QED
    BY <1>2, <1>3, <1>4 DEF Range

\* minimizeCorpus() keeps, for each element, an input with its highest priority.
LEMMA MinimizeKeepsCoverage ==
    ASSUME NEW S \in SUBSET Inputs, NEW q \in Orders(S)
    PROVE  /\ Minimize(q) \subseteq S
           /\ \A i \in S, e \in Elems : i.sig[e] # absent =>
                \E j \in Minimize(q) : i.sig[e] <= j.sig[e]
<1>1. q \in Seq(Inputs) /\ Range(q) = S /\ DOMAIN q \subseteq Nat
    BY OrderOfCorpus
<1>2. Minimize(q) \subseteq S
    BY <1>1 DEF Minimize, Range
<1>3. ASSUME NEW i \in S, NEW e \in Elems, i.sig[e] # absent
      PROVE  \E j \in Minimize(q) : i.sig[e] <= j.sig[e]
    <2> DEFINE P == {q[k].sig[e] : k \in DOMAIN q}
               K == {k \in DOMAIN q : q[k].sig[e] = Max(P)}
    <2>1. \A k \in DOMAIN q : q[k].sig[e] \in -1 .. 127
        <3>1. \A k \in DOMAIN q : q[k] \in Inputs
            BY <1>1
        <3> QED
            BY <3>1, SignalType DEF Inputs
    <2>2. PICK n \in DOMAIN q : q[n] = i
        BY <1>1, Zenon DEF Range
    <2>3. P \subseteq -1 .. 127 /\ P # {}
        BY <2>1, <2>2
    <2>4. Max(P) \in P /\ \A y \in P : y <= Max(P)
        BY <2>3, HighestPriority, Zenon
    <2>5. K \subseteq Nat /\ K # {}
        BY <2>4, <1>1, Zenon
    <2>6. PICK k \in K : \A j \in K : k <= j
        BY <2>5, LeastNumber, Zenon
    <2>7. k \in DOMAIN q /\ q[k].sig[e] = Max(P) /\ k \in Nat
        BY <2>6, <1>1, Zenon
    <2>8. \A j \in DOMAIN q : q[j].sig[e] \in P
        BY Zenon
    <2> HIDE DEF P
    <2>9. \A j \in DOMAIN q : q[j].sig[e] < Max(P) \/ (q[j].sig[e] = Max(P) /\ j >= k)
        <3> TAKE j \in DOMAIN q
        <3>1. q[j].sig[e] \in -1 .. 127 /\ q[k].sig[e] \in -1 .. 127 /\ q[j].sig[e] <= Max(P)
            BY <2>1, <2>4, <2>7, <2>8, Zenon
        <3>2. j \in Nat /\ (q[j].sig[e] = Max(P) => k <= j)
            BY <2>6, <1>1, ZenonT(60)
        <3>3. Max(P) \in Int /\ q[j].sig[e] \in Int
            BY <3>1, <2>7
        <3>4. CASE q[j].sig[e] = Max(P)
            BY <3>2, <3>4, <2>7, ZenonT(60)
        <3>5. CASE q[j].sig[e] # Max(P)
            BY <3>1, <3>3, <3>5
        <3> QED
            BY <3>4, <3>5, Zenon
    <2>10. i.sig[e] <= Max(P) /\ Max(P) # absent
        <3>1. i.sig[e] \in -1 .. 127 /\ i.sig[e] <= Max(P) /\ Max(P) \in Int
            BY <2>1, <2>2, <2>4, <2>7, <2>8
        <3> QED
            BY <3>1, <1>3 DEF absent
    <2>11. q[k] \in Minimize(q)
        BY <2>7, <2>9, <2>10, Zenon DEF Minimize
    <2> QED
        BY <2>7, <2>10, <2>11, ZenonT(60)
<1> QED
    BY <1>2, <1>3

\* The signals joined in Learns and Reports are signals.
LEMMA MessageType ==
    ASSUME NEW r \in PollType
    PROVE  Answered(r) \in Signals /\ Reporting(r) \in Signals
    BY SignalType DEF PollType, Answered, Reporting

\* What a machine reports stays known when the server learns more.
LEMMA ReportsKept ==
    ASSUME NEW m \in VmType, NEW ps, NEW r \in PollType,
           NEW ms \in Signals, NEW cs \in Signals, NEW ms1 \in Signals, NEW cs1 \in Signals,
           Reports(m, ps, r, ms, cs), Within(ms, ms1), Within(cs, cs1)
    PROVE  Reports(m, ps, r, ms1, cs1)
<1> DEFINE S == {m.new, ms, cs, Reporting(r)}
           T == {m.new, ms1, cs1, Reporting(r)}
<1>1. m.new \in Signals /\ m.max \in Signals /\ Reporting(r) \in Signals
    BY MessageType DEF VmType
<1>2. S \subseteq Signals /\ T \subseteq Signals
    BY <1>1
<1>3. MergeAll(S) \in Signals /\ MergeAll(T) \in Signals /\ \A a \in T : Within(a, MergeAll(T))
    BY <1>2, MergeAllIsJoin
<1>4. \A a \in S : Within(a, MergeAll(T))
    BY <1>1, <1>3, WithinOrder
<1>5. Within(MergeAll(S), MergeAll(T))
    BY <1>2, <1>4, JoinGrows
<1>6. Within(m.max, MergeAll(S))
    BY DEF Reports
<1>7. Within(m.max, MergeAll(T))
    BY <1>1, <1>3, <1>5, <1>6, WithinOrder
<1> QED
    BY <1>7 DEF Reports

\* What a machine has still to learn is not lost when the server learns more, if its
\* Fuzzer is told what the server learns.
LEMMA LearnsKept ==
    ASSUME NEW m \in VmType, NEW f, FuzzerOK(f), NEW f1, FuzzerOK(f1), NEW r \in PollType,
           NEW ms \in Signals, NEW cs \in Signals, NEW ms1 \in Signals, NEW cs1 \in Signals,
           Learns(m, f, r, ms, cs), Within(ms, ms1), Within(cs, cs1),
           f1.connected = f.connected, f1.rotated = f.rotated,
           Within(f.newMaxSignal, f1.newMaxSignal), Within(f1.newMaxSignal, ms1),
           f.connected /\ ~f.rotated =>
               \A c \in Signals : Within(ms, c) /\ Within(f1.newMaxSignal, c) => Within(ms1, c),
           ~f.rotated => Covered(Range(f1.inputs), cs1)
    PROVE  Learns(m, f1, r, ms1, cs1)
<1> DEFINE S == {m.max, f.newMaxSignal, Answered(r)}
           T == {m.max, f1.newMaxSignal, Answered(r)}
<1>1. /\ m.max \in Signals /\ Answered(r) \in Signals
      /\ f.newMaxSignal \in Signals /\ f1.newMaxSignal \in Signals
    BY MessageType DEF VmType, FuzzerOK
<1>2. S \subseteq Signals /\ T \subseteq Signals
    BY <1>1, Zenon
<1>3. MergeAll(S) \in Signals /\ MergeAll(T) \in Signals /\ \A a \in T : Within(a, MergeAll(T))
    BY <1>2, MergeAllIsJoin, Zenon
<1>4. \A a \in S : Within(a, MergeAll(T))
    BY <1>1, <1>3, WithinOrder
<1>5. Within(MergeAll(S), MergeAll(T))
    BY <1>2, <1>4, JoinGrows, Zenon
<1>6. ASSUME Alive(m), ~f.rotated PROVE Within(ms1, MergeAll(T))
    <2>1. Within(ms, MergeAll(S)) /\ f.connected
        BY <1>6, Zenon DEF Learns
    <2>2. Within(ms, MergeAll(T))
        BY <2>1, <1>3, <1>5, WithinOrder
    <2> QED
        BY <2>1, <2>2, <1>3, <1>6, Zenon
<1>7. Within(Answered(r), ms1)
    BY <1>1, WithinOrder DEF Learns
<1>8. m.snapshot \in Seq(Inputs) /\ r.inputs \in Seq(Inputs)
    BY DEF VmType, PollType
<1>9. Covered(Range(m.snapshot), cs1) /\ Covered(Range(r.inputs), cs1)
    BY <1>8, RangeOfInputs, CoveredGrows, Zenon DEF Learns
<1> QED
    BY <1>6, <1>7, <1>9 DEF Learns

\* A machine that is up and learns m1.max has nothing left unreported if what is new
\* in it is known or put aside.
LEMMA ReportsMore ==
    ASSUME NEW m \in VmType, NEW m1 \in VmType, NEW r, NEW r1, NEW ms \in Signals, NEW cs \in Signals,
           NEW ps \in [Procs -> ProcType], NEW ps1 \in [Procs -> ProcType],
           Reports(m, ps, r, ms, cs), Alive(m), Alive(m1),
           Within(m.max, m1.max), Within(m1.new, m1.max), Within(Reporting(r1), m1.max),
           Within(m1.max, MergeAll({m1.new, ms, cs, Reporting(r1)})),
           \A g \in Progs : m1.triage[g] > 0 => m.triage[g] > 0 \/ Within(SignalOf[g], m1.max),
           \A p \in Procs : \/ ps1[p] = ps[p]
                            \/ ps1[p].pc = "idle"
                            \/ ps1[p].pc = "send" /\ ps1[p].prog \in Progs /\ Within(ps1[p].sig, m1.max)
    PROVE  Reports(m1, ps1, r1, ms, cs)
<1>1. m.max \in Signals /\ m1.max \in Signals
    BY Zenon DEF VmType
<1>2. \A g \in Progs : SignalOf[g] \in Signals
    BY SyncAssumption DEF SyncAssumption
<1>3. \A p \in Procs : ps[p].sig \in Signals
    BY Zenon DEF ProcType
<1>4. \A g \in Progs : m1.triage[g] > 0 => Within(SignalOf[g], m1.max)
    BY <1>1, <1>2, WithinOrder, Zenon DEF Reports
<1>5. ASSUME NEW p \in Procs, ps1[p] = ps[p]
      PROVE  /\ ps1[p].pc # "idle" => ps1[p].prog \in Progs
             /\ ps1[p].pc \in {"send", "add"} => Within(ps1[p].sig, m1.max)
             /\ ps1[p].pc = "merge" => Within(SignalOf[ps1[p].prog], Merge(m1.max, ps1[p].sig))
    <2>1. /\ ps[p].pc # "idle" => ps[p].prog \in Progs
          /\ ps[p].pc \in {"send", "add"} => Within(ps[p].sig, m.max)
          /\ ps[p].pc = "merge" => Within(SignalOf[ps[p].prog], Merge(m.max, ps[p].sig))
        BY DEF Reports
    <2>2. ps[p].pc \in {"send", "add"} => Within(ps[p].sig, m1.max)
        BY <2>1, <1>1, <1>3, WithinOrder, ZenonT(60)
    <2>3. /\ Merge(m.max, ps[p].sig) \in Signals /\ Merge(m1.max, ps[p].sig) \in Signals
          /\ Within(Merge(m.max, ps[p].sig), Merge(m1.max, ps[p].sig))
        <3>1. /\ Merge(m1.max, ps[p].sig) \in Signals /\ Within(m1.max, Merge(m1.max, ps[p].sig))
              /\ Within(ps[p].sig, Merge(m1.max, ps[p].sig))
            BY <1>1, <1>3, MergeIsJoin, Zenon
        <3>2. Within(m.max, Merge(m1.max, ps[p].sig))
            BY <3>1, <1>1, WithinOrder
        <3> QED
            BY <3>1, <3>2, <1>1, <1>3, MergeIsJoin, Zenon
    <2> QED
        BY <2>1, <2>2, <2>3, <1>2, <1>5, WithinOrder
<1> QED
    BY <1>4, <1>5, Zenon DEF Reports, Alive

\* A machine that is up and learns m1.max is not cut off from what it does not know.
LEMMA LearnsMore ==
    ASSUME NEW m \in VmType, NEW m1 \in VmType, NEW r \in PollType, NEW r1 \in PollType,
           NEW f, FuzzerOK(f), NEW ms \in Signals, NEW cs \in Signals,
           Learns(m, f, r, ms, cs), Alive(m), Within(m.max, m1.max), m1.snapshot = m.snapshot,
           \/ Answered(r1) = Answered(r)
           \/ Answered(r1) = Nil /\ Within(Answered(r), m1.max),
           Covered(Range(r1.inputs), cs)
    PROVE  Learns(m1, f, r1, ms, cs)
<1> DEFINE S == {m.max, f.newMaxSignal, Answered(r)}
           T == {m1.max, f.newMaxSignal, Answered(r1)}
<1>1. /\ m.max \in Signals /\ m1.max \in Signals /\ Answered(r) \in Signals
      /\ Answered(r1) \in Signals /\ f.newMaxSignal \in Signals
    BY MessageType, Zenon DEF VmType, FuzzerOK
<1>2. S \subseteq Signals /\ T \subseteq Signals
    BY <1>1, Zenon
<1>3. MergeAll(S) \in Signals /\ MergeAll(T) \in Signals /\ \A a \in T : Within(a, MergeAll(T))
    BY <1>2, MergeAllIsJoin, Zenon
<1>4. Within(m.max, MergeAll(T)) /\ Within(Answered(r), MergeAll(T))
    BY <1>1, <1>3, WithinOrder
<1>5. Within(MergeAll(S), MergeAll(T))
    BY <1>2, <1>3, <1>4, JoinGrows, Zenon
<1>6. ~f.rotated => Within(ms, MergeAll(T))
    BY <1>3, <1>5, WithinOrder DEF Learns
<1>7. Within(Answered(r1), ms)
    BY WithinOrder, Zenon DEF Learns
<1> QED
    BY <1>6, <1>7, Zenon DEF Learns

\* A step of one machine, which the server takes no part in.
LEMMA MachineStep ==
    ASSUME SyncInv, NEW v \in VMs,
           NEW m \in VmType, NEW ps \in [Procs -> ProcType], NEW r \in PollType,
           vm' = [vm EXCEPT ![v] = m], proc' = [proc EXCEPT ![v] = ps], poll' = [poll EXCEPT ![v] = r],
           Learns(m, fuzzers[v], r, maxSignal, corpusSignal),
           Reports(m, ps, r, maxSignal, corpusSignal),
           corpus' \subseteq corpus,
           UNCHANGED <<maxSignal, corpusSignal, candidates, fuzzers>>
    PROVE  SyncInv'
<1>1. SyncType'
    <2>1. vm' \in [VMs -> VmType] /\ proc' \in [VMs -> [Procs -> ProcType]] /\ poll' \in [VMs -> PollType]
        BY DEF SyncInv, SyncType
    <2> QED
        BY <2>1 DEF SyncInv, SyncType
<1>2. Covered(corpus, corpusSignal)'
    BY Zenon DEF SyncInv, Covered
<1>3. ASSUME NEW u \in VMs
      PROVE  /\ Learns(vm[u], fuzzers[u], poll[u], maxSignal, corpusSignal)'
             /\ Reports(vm[u], proc[u], poll[u], maxSignal, corpusSignal)'
    <2>1. /\ vm'[u] = IF u = v THEN m ELSE vm[u]
          /\ proc'[u] = IF u = v THEN ps ELSE proc[u]
          /\ poll'[u] = IF u = v THEN r ELSE poll[u]
        BY DEF SyncInv, SyncType
    <2> QED
        BY <2>1 DEF SyncInv
<1> QED
    BY <1>1, <1>2, <1>3, Zenon DEF SyncInv

\* A machine without a fuzzer, an idle process, and a main goroutine between two polls.
LEMMA NothingType ==
    /\ Down \in VmType /\ ~Alive(Down) /\ Down.st # "connecting" /\ Down.max = Nil /\ Down.new = Nil
    /\ Down.snapshot = <<>> /\ \A g \in Progs : ~(Down.triage[g] > 0)
    /\ Idle \in ProcType /\ Idle.pc = "idle"
    /\ NoPoll \in PollType /\ NoPoll.inputs = <<>> /\ NoPoll.pc = "idle" /\ NoPoll.sig = Nil
    /\ Answered(NoPoll) = Nil /\ Reporting(NoPoll) = Nil
<1>1. <<>> \in Seq(Inputs) /\ Nil \in Signals /\ [p \in Progs |-> 0] \in [Progs -> Nat]
    BY SignalType
<1>2. Down.st = "down" /\ Down.max = Nil /\ Down.new = Nil /\ Down.snapshot = <<>>
      /\ Down.triage = [p \in Progs |-> 0]
    BY DEF Down
<1>3. Down \in VmType
    BY <1>1 DEF Down, VmType
<1>4. Idle \in ProcType /\ Idle.pc = "idle"
    BY <1>1 DEF Idle, ProcType
<1>5. NoPoll \in PollType
    BY <1>1 DEF NoPoll, PollType
<1>6. NoPoll.inputs = <<>> /\ NoPoll.pc = "idle" /\ NoPoll.sig = Nil
    BY DEF NoPoll
<1>7. /\ ~Alive(Down) /\ Down.st # "connecting" /\ \A g \in Progs : ~(Down.triage[g] > 0)
      /\ Answered(NoPoll) = Nil /\ Reporting(NoPoll) = Nil
    BY <1>2, <1>6 DEF Alive, Answered, Reporting
<1> QED
    BY <1>2, <1>3, <1>4, <1>5, <1>6, <1>7, Zenon

\* The initial state.
LEMMA SyncInit == Init => SyncInv
<1> SUFFICES ASSUME Init PROVE SyncInv
    OBVIOUS
<1>1. NCandidates \in Nat
    BY SyncAssumption, Zenon DEF SyncAssumption
<1>2. Down \in VmType /\ NoPoll \in PollType /\ Idle \in ProcType /\ FuzzerOK(NoFuzzer)
    BY SignalType, NothingType DEF NoFuzzer, FuzzerOK
<1>3. SyncType
    BY <1>1, <1>2, SignalType DEF Init, SyncType
<1>4. Range(<<>>) = {} /\ \A s : Covered({}, s)
    BY DEF Range, Covered
<1>5. \A S \in SUBSET Signals : Within(Nil, MergeAll(S))
    BY WithinOrder, MergeAllIsJoin
<1>6. {Nil} \subseteq Signals
    BY SignalType
<1>7. Learns(Down, NoFuzzer, NoPoll, Nil, Nil)
    BY <1>4, WithinOrder, SignalType, ZenonT(60) DEF Learns, Down, NoFuzzer, NoPoll, Alive, Answered
<1>8. Reports(Down, [p \in Procs |-> Idle], NoPoll, Nil, Nil)
    BY <1>5, <1>6, WithinOrder, SignalType DEF Reports, Down, Idle, NoPoll, Alive, Reporting
<1> QED
    BY <1>3, <1>4, <1>7, <1>8 DEF Init, SyncInv

\* The invariant at one machine.
LEMMA AtMachine ==
    ASSUME SyncInv, NEW v \in VMs
    PROVE  /\ vm[v] \in VmType /\ proc[v] \in [Procs -> ProcType] /\ poll[v] \in PollType
           /\ FuzzerOK(fuzzers[v]) /\ maxSignal \in Signals /\ corpusSignal \in Signals
           /\ vm[v].max \in Signals /\ vm[v].new \in Signals /\ vm[v].csig \in Signals
           /\ Learns(vm[v], fuzzers[v], poll[v], maxSignal, corpusSignal)
           /\ Reports(vm[v], proc[v], poll[v], maxSignal, corpusSignal)
           /\ vm = [vm EXCEPT ![v] = vm[v]] /\ proc = [proc EXCEPT ![v] = proc[v]]
           /\ poll = [poll EXCEPT ![v] = poll[v]]
           /\ Up(v) <=> Alive(vm[v])
<1>1. vm[v] \in VmType /\ proc[v] \in [Procs -> ProcType] /\ poll[v] \in PollType
    BY DEF SyncInv, SyncType
<1>2. vm[v].max \in Signals /\ vm[v].new \in Signals /\ vm[v].csig \in Signals
    BY <1>1 DEF VmType
<1>3. /\ vm = [vm EXCEPT ![v] = vm[v]] /\ proc = [proc EXCEPT ![v] = proc[v]]
      /\ poll = [poll EXCEPT ![v] = poll[v]]
    BY ZenonT(60) DEF SyncInv, SyncType
<1> QED
    BY <1>1, <1>2, <1>3 DEF SyncInv, SyncType, Up, Alive

\* The invariant at one process of a machine.
LEMMA AtProcess ==
    ASSUME SyncInv, NEW v \in VMs, NEW p \in Procs
    PROVE  /\ proc[v][p] \in ProcType /\ proc[v][p].sig \in Signals
           /\ proc[v][p].pc # "idle" => proc[v][p].prog \in Progs
           /\ Alive(vm[v]) /\ proc[v][p].pc \in {"send", "add"} => Within(proc[v][p].sig, vm[v].max)
           /\ Alive(vm[v]) /\ proc[v][p].pc = "merge" =>
                Within(SignalOf[proc[v][p].prog], Merge(vm[v].max, proc[v][p].sig))
<1>1. proc[v][p] \in ProcType
    BY AtMachine, Zenon
<1>2. proc[v][p].sig \in Signals
    BY <1>1 DEF ProcType
<1>3. Reports(vm[v], proc[v], poll[v], maxSignal, corpusSignal)
    BY AtMachine
<1> QED
    BY <1>1, <1>2, <1>3 DEF Reports

\* The machine and its messages stay the same, and the processes change.
LEMMA ExecuteKeeps ==
    ASSUME SyncInv, NEW v \in VMs, NEW p \in Procs, Execute(v, p)
    PROVE  SyncInv'
<1> USE AtMachine
<1>1. PICK g \in Progs : Goto(v, p, "merge", g, Diff(vm[v].max, SignalOf[g]))
    BY DEF Execute
<1> DEFINE d == Diff(vm[v].max, SignalOf[g])
           ps == [proc[v] EXCEPT ![p] = [pc |-> "merge", prog |-> g, sig |-> d]]
<1>2. SignalOf[g] \in Signals
    BY SyncAssumption, ZenonT(60) DEF SyncAssumption
<1>3. /\ d \in Signals /\ Merge(vm[v].max, d) \in Signals
      /\ Within(SignalOf[g], Merge(vm[v].max, d))
    BY <1>2, DiffIsMissing, MergeIsJoin
<1> HIDE DEF d
<1>4. ps \in [Procs -> ProcType]
    BY <1>3, ZenonT(60) DEF ProcType
<1>5. proc' = [proc EXCEPT ![v] = ps]
    BY <1>1 DEF Goto, d, SyncInv, SyncType
<1>6. Reports(vm[v], ps, poll[v], maxSignal, corpusSignal)
    <2>1. vm[v].st # "connecting"
        BY Zenon DEF Execute, Running
    <2> QED
        BY <1>3, <2>1, Zenon DEF Reports
<1>7. UNCHANGED <<maxSignal, corpusSignal, candidates, fuzzers, corpus, vm, poll>>
    BY DEF Execute, mgr
<1> QED
    BY <1>4, <1>5, <1>6, <1>7, MachineStep, Zenon

\* What is new is put aside for the next poll when it is added to the known signal.
LEMMA MergeNewKeeps ==
    ASSUME SyncInv, NEW v \in VMs, NEW p \in Procs, MergeNew(v, p)
    PROVE  SyncInv'
<1> USE AtMachine
<1> DEFINE x == proc[v][p]
           max == Merge(vm[v].max, x.sig)
           new == Merge(vm[v].new, x.sig)
           tri == [vm[v].triage EXCEPT ![x.prog] = @ + 1]
           m == [vm[v] EXCEPT !.max = Merge(@, x.sig), !.new = Merge(@, x.sig), !.triage[x.prog] = @ + 1]
           ps == [proc[v] EXCEPT ![p] = Idle]
           S == {vm[v].new, maxSignal, corpusSignal, Reporting(poll[v])}
           T == {new, maxSignal, corpusSignal, Reporting(poll[v])}
<1>1. x.sig \in Signals /\ x.prog \in Progs /\ x.pc = "merge" /\ Alive(vm[v]) /\ vm[v].st = "running"
    BY AtProcess, Zenon DEF MergeNew, Running, Alive
<1>2. /\ max \in Signals /\ Within(vm[v].max, max) /\ Within(x.sig, max)
      /\ new \in Signals /\ Within(vm[v].new, new) /\ Within(x.sig, new)
      /\ \A c \in Signals : Within(vm[v].max, c) /\ Within(x.sig, c) => Within(max, c)
      /\ \A c \in Signals : Within(vm[v].new, c) /\ Within(x.sig, c) => Within(new, c)
    BY <1>1, MergeIsJoin
<1>3. tri \in [Progs -> Nat]
    BY <1>1 DEF VmType
<1>4. Within(SignalOf[x.prog], max)
    BY <1>1, AtProcess
<1> HIDE DEF max, new
<1>5. m \in VmType /\ ps \in [Procs -> ProcType]
    <2>1. vm[v] \in VmType /\ proc[v] \in [Procs -> ProcType]
        BY AtMachine
    <2>2. Idle \in ProcType
        BY SignalType DEF ProcType, Idle
    <2>3. m \in VmType
        BY <2>1, <1>2, <1>3, Zenon DEF VmType, max, new
    <2> QED
        BY <2>1, <2>2, <2>3, Zenon
<1>6. m.max = max /\ m.new = new /\ m.triage = tri /\ m.st = vm[v].st /\ m.snapshot = vm[v].snapshot
    <2>1. vm[v] \in VmType
        BY AtMachine
    <2> QED
        BY <2>1, Zenon DEF VmType, max, new
<1>7. vm' = [vm EXCEPT ![v] = m] /\ proc' = [proc EXCEPT ![v] = ps]
    <2>1. vm \in [VMs -> VmType] /\ proc \in [VMs -> [Procs -> ProcType]]
        BY DEF SyncInv, SyncType
    <2>2. vm' = [vm EXCEPT ![v] = m]
        BY <2>1, Zenon DEF MergeNew, checkNewCallSignal, max, new, m
    <2>3. proc' = [proc EXCEPT ![v] = ps]
        BY <2>1, Zenon DEF MergeNew
    <2> QED
        BY <2>2, <2>3, Zenon
<1>8. Within(max, MergeAll(T)) /\ Within(new, max) /\ Within(Reporting(poll[v]), max)
    <2>1. Reporting(poll[v]) \in Signals
        BY MessageType, Zenon
    <2>2. S \subseteq Signals /\ T \subseteq Signals
        BY <1>2, <2>1, Zenon
    <2>3. MergeAll(S) \in Signals /\ MergeAll(T) \in Signals /\ \A a \in T : Within(a, MergeAll(T))
        BY <2>2, MergeAllIsJoin, Zenon
    <2>4. Within(MergeAll(S), MergeAll(T))
        BY <2>1, <2>2, <2>3, <1>2, WithinOrder, JoinGrows
    <2>5. Within(vm[v].max, MergeAll(S)) /\ Within(vm[v].new, vm[v].max) /\ Within(Reporting(poll[v]), vm[v].max)
        BY <1>1, Zenon DEF Reports
    <2>6. Within(vm[v].max, MergeAll(T))
        BY <2>3, <2>4, <2>5, WithinOrder
    <2>7. Within(x.sig, MergeAll(T))
        BY <2>3, <1>1, <1>2, WithinOrder
    <2>8. Within(vm[v].new, max) /\ Within(Reporting(poll[v]), max)
        BY <2>1, <2>5, <1>2, WithinOrder
    <2> QED
        BY <2>3, <2>6, <2>7, <2>8, <1>2
<1>9. UNCHANGED <<maxSignal, corpusSignal, candidates, fuzzers, corpus, poll>>
    BY Zenon DEF MergeNew, mgr
<1> HIDE DEF m, tri
<1>10. \A g \in Progs : m.triage[g] > 0 => vm[v].triage[g] > 0 \/ Within(SignalOf[g], m.max)
    BY <1>1, <1>4, <1>6, AtMachine, ZenonT(60) DEF VmType, tri
<1>11. Reports(m, ps, poll[v], maxSignal, corpusSignal)
    <2>1. \A q \in Procs : ps[q] = proc[v][q] \/ ps[q].pc = "idle"
        BY AtMachine, Zenon DEF Idle
    <2>2. Alive(m)
        BY <1>1, <1>6, ZenonT(60) DEF Alive
    <2> HIDE DEF ps
    <2> QED
        BY <2>1, <2>2, <1>1, <1>2, <1>5, <1>6, <1>8, <1>10, ReportsMore
<1>12. Learns(m, fuzzers[v], poll[v], maxSignal, corpusSignal)
    <2>1. Covered(Range(poll[v].inputs), corpusSignal)
        BY Zenon DEF Learns
    <2> QED
        BY <2>1, <1>1, <1>2, <1>5, <1>6, LearnsMore
<1> HIDE DEF ps
<1> QED
    BY <1>5, <1>7, <1>9, <1>11, <1>12, MachineStep, Zenon

\* Inputs that are added to a fuzzer's corpus add their signal to what it knows.
LEMMA AddingInputs ==
    ASSUME NEW m \in VmType, NEW I \in SUBSET Inputs
    PROVE  LET m1 == addInputToCorpus(m, I) IN
           /\ m1 \in VmType /\ m1.max \in Signals
           /\ Within(m.max, m1.max)
           /\ \A c \in Signals : Within(m.max, c) /\ Covered(I, c) => Within(m1.max, c)
           /\ m1.new = m.new /\ m1.triage = m.triage /\ m1.st = m.st /\ m1.snapshot = m.snapshot
<1> DEFINE S == {i.sig : i \in I}
           sig == MergeAll(S)
<1>1. S \subseteq Signals /\ m.max \in Signals /\ m.csig \in Signals
    <2>1. \A i \in I : i.sig \in Signals
        BY Zenon DEF Inputs
    <2>2. m.max \in Signals /\ m.csig \in Signals
        BY Zenon DEF VmType
    <2> QED
        BY <2>1, <2>2, Zenon
<1>2. sig \in Signals /\ \A c \in Signals : Covered(I, c) => Within(sig, c)
    BY <1>1, MergeAllIsJoin DEF Covered
<1>3. addInputToCorpus(m, I) = [m EXCEPT !.csig = Merge(m.csig, sig), !.max = Merge(m.max, sig)]
    BY DEF addInputToCorpus
<1> HIDE DEF sig
<1>4. /\ Merge(m.max, sig) \in Signals /\ Merge(m.csig, sig) \in Signals
      /\ Within(m.max, Merge(m.max, sig))
      /\ \A c \in Signals : Within(m.max, c) /\ Within(sig, c) => Within(Merge(m.max, sig), c)
    BY <1>1, <1>2, MergeIsJoin
<1>5. addInputToCorpus(m, I).max = Merge(m.max, sig)
    BY <1>3 DEF VmType
<1>6. addInputToCorpus(m, I) \in VmType
    BY <1>3, <1>4, Zenon DEF VmType
<1>7. LET m1 == addInputToCorpus(m, I) IN
      m1.new = m.new /\ m1.triage = m.triage /\ m1.st = m.st /\ m1.snapshot = m.snapshot
    BY <1>3 DEF VmType
<1> QED
    BY <1>2, <1>4, <1>5, <1>6, <1>7

\* An input that is added was triaged, so its signal is known to be new or old.
LEMMA AddInputKeeps ==
    ASSUME SyncInv, NEW v \in VMs, NEW p \in Procs, AddInput(v, p)
    PROVE  SyncInv'
<1> DEFINE x == proc[v][p]
           I == {[prog |-> x.prog, sig |-> x.sig]}
           m == addInputToCorpus(vm[v], I)
           ps == [proc[v] EXCEPT ![p] = Idle]
<1>1. x.sig \in Signals /\ x.prog \in Progs /\ Alive(vm[v]) /\ Within(x.sig, vm[v].max)
    BY AtProcess, Zenon DEF AddInput, Running, Alive
<1>2. I \subseteq Inputs /\ Covered(I, vm[v].max)
    BY <1>1 DEF Inputs, Covered
<1>3. /\ vm[v] \in VmType /\ vm[v].max \in Signals /\ proc[v] \in [Procs -> ProcType]
      /\ poll[v] \in PollType /\ FuzzerOK(fuzzers[v]) /\ maxSignal \in Signals /\ corpusSignal \in Signals
      /\ Learns(vm[v], fuzzers[v], poll[v], maxSignal, corpusSignal)
      /\ Reports(vm[v], proc[v], poll[v], maxSignal, corpusSignal)
      /\ poll = [poll EXCEPT ![v] = poll[v]]
    BY AtMachine
<1>4. vm' = [vm EXCEPT ![v] = m] /\ proc' = [proc EXCEPT ![v] = ps]
    <2>1. proc \in [VMs -> [Procs -> ProcType]]
        BY DEF SyncInv, SyncType
    <2>2. proc' = [proc EXCEPT ![v] = ps]
        BY <2>1, Zenon DEF AddInput
    <2> QED
        BY <2>2 DEF AddInput
<1> HIDE DEF I, m
<1>5. /\ m \in VmType /\ m.max \in Signals /\ Within(vm[v].max, m.max) /\ Within(m.max, vm[v].max)
      /\ m.new = vm[v].new /\ m.triage = vm[v].triage /\ m.st = vm[v].st /\ m.snapshot = vm[v].snapshot
    BY <1>2, <1>3, AddingInputs, WithinOrder, ZenonT(60) DEF m
<1>6. ps \in [Procs -> ProcType] /\ \A q \in Procs : ps[q] = proc[v][q] \/ ps[q].pc = "idle"
    BY <1>3, SignalType, Zenon DEF ProcType, Idle
<1> HIDE DEF ps
<1>7. Alive(m)
    BY <1>1, <1>5, Zenon DEF Alive
<1>8. Reports(m, ps, poll[v], maxSignal, corpusSignal)
    <2> DEFINE T == {vm[v].new, maxSignal, corpusSignal, Reporting(poll[v])}
    <2>1. vm[v].new \in Signals /\ Reporting(poll[v]) \in Signals
        BY <1>3, MessageType DEF VmType
    <2>2. MergeAll(T) \in Signals
        BY <1>3, <2>1, MergeAllIsJoin
    <2>3. Within(vm[v].max, MergeAll(T)) /\ Within(vm[v].new, vm[v].max) /\ Within(Reporting(poll[v]), vm[v].max)
        BY <1>1, <1>3, Zenon DEF Reports
    <2>4. Within(m.max, MergeAll(T)) /\ Within(m.new, m.max) /\ Within(Reporting(poll[v]), m.max)
        BY <1>3, <1>5, <2>1, <2>2, <2>3, WithinOrder
    <2>5. T = {m.new, maxSignal, corpusSignal, Reporting(poll[v])}
        BY <1>5, Zenon
    <2>6. \A g \in Progs : m.triage[g] > 0 => vm[v].triage[g] > 0 \/ Within(SignalOf[g], m.max)
        BY <1>5, Zenon
    <2> HIDE DEF T
    <2>7. Within(m.max, MergeAll({m.new, maxSignal, corpusSignal, Reporting(poll[v])}))
        BY <2>4, <2>5, Zenon
    <2>8. m \in VmType /\ Within(vm[v].max, m.max)
        BY <1>5, Zenon
    <2>9. /\ vm[v] \in VmType /\ proc[v] \in [Procs -> ProcType] /\ maxSignal \in Signals /\ corpusSignal \in Signals
          /\ Reports(vm[v], proc[v], poll[v], maxSignal, corpusSignal) /\ Alive(vm[v])
        BY <1>1, <1>3, Zenon
    <2> HIDE DEF x
    <2> QED
        BY <1>6, <1>7, <2>4, <2>6, <2>7, <2>8, <2>9, ReportsMore
<1>9. Learns(m, fuzzers[v], poll[v], maxSignal, corpusSignal)
    <2>1. Covered(Range(poll[v].inputs), corpusSignal)
        BY <1>3 DEF Learns
    <2> QED
        BY <2>1, <1>1, <1>3, <1>5, LearnsMore, Zenon
<1>10. UNCHANGED <<maxSignal, corpusSignal, candidates, fuzzers, corpus, poll>>
    BY DEF AddInput, mgr
<1> QED
    BY <1>3, <1>4, <1>5, <1>6, <1>8, <1>9, <1>10, MachineStep, Zenon

\* Triage takes a program of which all the signal is known.
LEMMA triageInputKeeps ==
    ASSUME SyncInv, NEW v \in VMs, NEW p \in Procs, triageInput(v, p)
    PROVE  SyncInv'
<1>1. PICK g \in Progs :
        /\ vm[v].triage[g] > 0
        /\ vm' = [vm EXCEPT ![v].triage[g] = @ - 1]
        /\ \/ UNCHANGED proc
           \/ \E q \in Shrinks[g] : Goto(v, p, "send", q, SignalOf[g])
    BY Zenon DEF triageInput
<1> DEFINE tri == [vm[v].triage EXCEPT ![g] = @ - 1]
           m == [vm[v] EXCEPT !.triage = tri]
<1>2. /\ vm[v] \in VmType /\ vm[v].max \in Signals /\ proc[v] \in [Procs -> ProcType]
      /\ poll[v] \in PollType /\ FuzzerOK(fuzzers[v]) /\ maxSignal \in Signals /\ corpusSignal \in Signals
      /\ Learns(vm[v], fuzzers[v], poll[v], maxSignal, corpusSignal)
      /\ Reports(vm[v], proc[v], poll[v], maxSignal, corpusSignal)
      /\ poll = [poll EXCEPT ![v] = poll[v]] /\ proc = [proc EXCEPT ![v] = proc[v]]
    BY AtMachine
<1>3. tri \in [Progs -> Nat] /\ \A h \in Progs : tri[h] > 0 => vm[v].triage[h] > 0
    BY <1>1, <1>2 DEF VmType
<1>4. vm' = [vm EXCEPT ![v] = m]
    <2>1. vm \in [VMs -> VmType]
        BY DEF SyncInv, SyncType
    <2> QED
        BY <2>1, <1>1 DEF VmType
<1> HIDE DEF tri
<1>5. /\ m \in VmType /\ m.max = vm[v].max /\ m.triage = tri /\ m.new = vm[v].new
      /\ m.st = vm[v].st /\ m.snapshot = vm[v].snapshot
    BY <1>2, <1>3, Zenon DEF VmType
<1> HIDE DEF m
<1>6. Alive(vm[v]) /\ Alive(m)
    BY <1>5 DEF triageInput, Running, Alive
<1> DEFINE Moved(ps) ==
        /\ proc' = [proc EXCEPT ![v] = ps]
        /\ \A q \in Procs : \/ ps[q] = proc[v][q]
                            \/ ps[q].pc = "send" /\ ps[q].prog \in Progs /\ Within(ps[q].sig, m.max)
<1>7. \E ps \in [Procs -> ProcType] : Moved(ps)
    <2>1. CASE UNCHANGED proc
        BY <2>1, <1>2
    <2>2. ASSUME NEW q \in Shrinks[g], Goto(v, p, "send", q, SignalOf[g])
          PROVE  \E ps \in [Procs -> ProcType] : Moved(ps)
        <3> DEFINE ps == [proc[v] EXCEPT ![p] = [pc |-> "send", prog |-> q, sig |-> SignalOf[g]]]
        <3>1. q \in Progs /\ SignalOf[g] \in Signals
            BY SyncAssumption, Zenon DEF SyncAssumption
        <3>2. Within(SignalOf[g], m.max)
            BY <1>1, <1>2, <1>5, Zenon DEF Reports
        <3>3. ps \in [Procs -> ProcType]
            BY <3>1, <1>2, Zenon DEF ProcType
        <3>4. proc' = [proc EXCEPT ![v] = ps]
            BY <2>2 DEF Goto, SyncInv, SyncType
        <3>5. \A h \in Procs : \/ ps[h] = proc[v][h]
                               \/ ps[h].pc = "send" /\ ps[h].prog \in Progs /\ Within(ps[h].sig, m.max)
            BY <3>1, <3>2, <1>2, Zenon
        <3>6. Moved(ps)
            BY <3>4, <3>5
        <3> QED
            BY <3>3, <3>6, Zenon
    <2> QED
        BY <1>1, <2>1, <2>2, ZenonT(60)
<1>8. PICK ps \in [Procs -> ProcType] : Moved(ps)
    BY <1>7, ZenonT(60)
<1>9. Reports(m, ps, poll[v], maxSignal, corpusSignal)
    <2>1. /\ Within(vm[v].max, MergeAll({vm[v].new, maxSignal, corpusSignal, Reporting(poll[v])}))
          /\ Within(vm[v].new, vm[v].max) /\ Within(Reporting(poll[v]), vm[v].max)
        BY <1>2, <1>6 DEF Reports
    <2>2. Within(m.max, m.max)
        BY <1>2, <1>5, WithinOrder, Zenon
    <2> QED
        BY <1>2, <1>3, <1>5, <1>6, <1>8, <2>1, <2>2, ReportsMore
<1>10. Learns(m, fuzzers[v], poll[v], maxSignal, corpusSignal)
    <2>1. Covered(Range(poll[v].inputs), corpusSignal)
        BY <1>2, Zenon DEF Learns
    <2>2. Within(m.max, m.max)
        BY <1>2, <1>5, WithinOrder
    <2> QED
        BY <2>1, <2>2, <1>2, <1>5, <1>6, LearnsMore, Zenon
<1>11. UNCHANGED <<maxSignal, corpusSignal, candidates, fuzzers, corpus, poll>>
    BY DEF triageInput, mgr
<1> QED
    BY <1>2, <1>4, <1>5, <1>8, <1>9, <1>10, <1>11, MachineStep, Zenon

\* A request takes the signal that was put aside with it.
LEMMA PollSendKeeps ==
    ASSUME SyncInv, NEW v \in VMs, PollSend(v)
    PROVE  SyncInv'
<1>1. PICK need \in BOOLEAN, first \in BOOLEAN :
        poll' = [poll EXCEPT ![v] =
                    [NoPoll EXCEPT !.pc = "sent", !.initial = first, !.sig = vm[v].new, !.need = need]]
    <2>1. (vm[v].st = "fetching") \in BOOLEAN
        OBVIOUS
    <2> QED
        BY <2>1, Zenon DEF PollSend
<1> DEFINE m == [vm[v] EXCEPT !.new = Nil, !.need = FALSE]
           r == [NoPoll EXCEPT !.pc = "sent", !.initial = first, !.sig = vm[v].new, !.need = need]
           S == {vm[v].new, maxSignal, corpusSignal, Reporting(poll[v])}
           T == {m.new, maxSignal, corpusSignal, Reporting(r)}
<1>2. /\ vm[v] \in VmType /\ vm[v].max \in Signals /\ vm[v].new \in Signals /\ proc[v] \in [Procs -> ProcType]
      /\ poll[v] \in PollType /\ FuzzerOK(fuzzers[v]) /\ maxSignal \in Signals /\ corpusSignal \in Signals
      /\ Learns(vm[v], fuzzers[v], poll[v], maxSignal, corpusSignal)
      /\ Reports(vm[v], proc[v], poll[v], maxSignal, corpusSignal)
      /\ proc = [proc EXCEPT ![v] = proc[v]]
      /\ Alive(vm[v]) /\ poll[v].pc = "idle"
    BY AtMachine DEF PollSend
<1>3. /\ m \in VmType /\ m.max = vm[v].max /\ m.triage = vm[v].triage /\ m.new = Nil
      /\ m.st = vm[v].st /\ m.snapshot = vm[v].snapshot
    BY <1>2, SignalType, ZenonT(60) DEF VmType
<1>4. r \in PollType /\ Answered(r) = Nil /\ Answered(poll[v]) = Nil /\ Reporting(poll[v]) = Nil
      /\ Reporting(r) = vm[v].new /\ r.inputs = <<>>
    <2>1. NoPoll \in PollType /\ NoPoll.inputs = <<>>
        BY NothingType
    <2>2. r \in PollType /\ r.pc = "sent" /\ r.sig = vm[v].new /\ r.inputs = <<>>
        BY <2>1, <1>2, Zenon DEF PollType
    <2> HIDE DEF r
    <2> QED
        BY <2>2, <1>2, Zenon DEF Answered, Reporting
<1>5. vm' = [vm EXCEPT ![v] = m] /\ poll' = [poll EXCEPT ![v] = r]
    BY <1>1, Zenon DEF PollSend
<1> HIDE DEF m, r
<1>6. Alive(m) /\ Within(m.max, m.max) /\ Within(Nil, m.max)
    BY <1>2, <1>3, WithinOrder, Zenon DEF Alive
<1>7. Reports(m, proc[v], r, maxSignal, corpusSignal)
    <2>1. S = T
        BY <1>3, <1>4, Zenon
    <2>2. Within(vm[v].max, MergeAll(S)) /\ Within(vm[v].new, vm[v].max)
        BY <1>2 DEF Reports
    <2>3. Within(m.max, MergeAll(T)) /\ Within(m.new, m.max) /\ Within(Reporting(r), m.max)
        BY <2>1, <2>2, <1>3, <1>4, <1>6, Zenon
    <2> QED
        BY <2>3, <1>2, <1>3, <1>6, ReportsMore, Zenon
<1>8. Learns(m, fuzzers[v], r, maxSignal, corpusSignal)
    <2>1. Covered(Range(r.inputs), corpusSignal)
        BY <1>4 DEF Covered, Range
    <2> QED
        BY <2>1, <1>2, <1>3, <1>4, <1>6, LearnsMore, Zenon
<1>9. UNCHANGED <<maxSignal, corpusSignal, candidates, fuzzers, corpus, proc>>
    BY DEF PollSend, mgr
<1> QED
    BY <1>2, <1>3, <1>4, <1>5, <1>7, <1>8, <1>9, MachineStep, Zenon

\* What an answer brings the server knows, so there is nothing to report.
LEMMA PollReplyKeeps ==
    ASSUME SyncInv, NEW v \in VMs, PollReply(v)
    PROVE  SyncInv'
<1> DEFINE r == poll[v]
           I == Range(r.inputs)
           m0 == addInputToCorpus(vm[v], I)
           max == Merge(m0.max, r.sig)
           m1 == PollApplied(v, r)
           more == r.inputs # <<>> \/ r.ncand # 0 \/ r.sig # Nil
           m == [m1 EXCEPT !.st = IF more THEN @ ELSE "running"]
           S == {vm[v].new, maxSignal, corpusSignal, Reporting(r)}
           T == {vm[v].new, maxSignal, corpusSignal, Reporting(NoPoll)}
<1>1. /\ vm[v] \in VmType /\ vm[v].max \in Signals /\ vm[v].new \in Signals /\ proc[v] \in [Procs -> ProcType]
      /\ r \in PollType /\ FuzzerOK(fuzzers[v]) /\ maxSignal \in Signals /\ corpusSignal \in Signals
      /\ Learns(vm[v], fuzzers[v], r, maxSignal, corpusSignal)
      /\ Reports(vm[v], proc[v], r, maxSignal, corpusSignal)
      /\ proc = [proc EXCEPT ![v] = proc[v]]
      /\ Alive(vm[v]) /\ r.pc = "reply"
    BY AtMachine DEF PollReply
<1>2. vm' = [vm EXCEPT ![v] = m] /\ poll' = [poll EXCEPT ![v] = NoPoll]
    BY Zenon DEF PollReply
<1>3. /\ r.sig \in Signals /\ Within(r.sig, maxSignal) /\ I \subseteq Inputs /\ Covered(I, corpusSignal)
      /\ Answered(r) = r.sig /\ Reporting(r) = Nil
    <2>1. r.sig \in Signals /\ r.inputs \in Seq(Inputs)
        BY <1>1, Zenon DEF PollType
    <2> QED
        BY <2>1, <1>1, RangeOfInputs, Zenon DEF Learns, Answered, Reporting
<1> HIDE DEF I
<1>4. /\ m0 \in VmType /\ m0.max \in Signals /\ Within(vm[v].max, m0.max)
      /\ \A c \in Signals : Within(vm[v].max, c) /\ Covered(I, c) => Within(m0.max, c)
      /\ m0.new = vm[v].new /\ m0.triage = vm[v].triage /\ m0.st = vm[v].st /\ m0.snapshot = vm[v].snapshot
    BY <1>1, <1>3, AddingInputs
<1>5. m1 = [m0 EXCEPT !.max = max]
    BY ZenonT(60) DEF PollApplied, I
<1> HIDE DEF m0, m1, more
<1>6. /\ max \in Signals /\ Within(m0.max, max) /\ Within(r.sig, max)
      /\ \A c \in Signals : Within(m0.max, c) /\ Within(r.sig, c) => Within(max, c)
    BY <1>3, <1>4, MergeIsJoin
<1> HIDE DEF max
<1>7. /\ m \in VmType /\ m.max = max /\ m.triage = vm[v].triage /\ m.new = vm[v].new
      /\ m.st \in {vm[v].st, "running"} /\ m.snapshot = vm[v].snapshot
    BY <1>4, <1>5, <1>6, Zenon DEF VmType
<1> HIDE DEF m
<1>8. NoPoll \in PollType /\ Answered(NoPoll) = Nil /\ Reporting(NoPoll) = Nil /\ NoPoll.inputs = <<>>
    BY NothingType, Zenon
<1>9. Alive(m) /\ Within(vm[v].max, m.max)
    BY <1>1, <1>4, <1>6, <1>7, WithinOrder, ZenonT(60) DEF Alive
<1>10. Reports(m, proc[v], NoPoll, maxSignal, corpusSignal)
    <2>1. S = T /\ T \subseteq Signals
        BY <1>1, <1>3, <1>8, SignalType, ZenonT(60)
    <2>2. MergeAll(T) \in Signals /\ \A a \in T : Within(a, MergeAll(T))
        BY <2>1, MergeAllIsJoin
    <2>3. Within(vm[v].max, MergeAll(T)) /\ Within(vm[v].new, vm[v].max)
        BY <2>1, <1>1, ZenonT(60) DEF Reports
    <2>4. Covered(I, MergeAll(T)) /\ Within(r.sig, MergeAll(T))
        BY <2>2, <1>1, <1>3, CoveredGrows, WithinOrder
    <2>5. Within(m.max, MergeAll(T))
        BY <2>2, <2>3, <2>4, <1>4, <1>6, <1>7, ZenonT(60)
    <2>6. Within(m.new, m.max) /\ Within(Reporting(NoPoll), m.max)
        BY <2>3, <1>1, <1>6, <1>7, <1>8, <1>9, WithinOrder, ZenonT(60)
    <2> QED
        BY <2>5, <2>6, <1>1, <1>7, <1>9, ReportsMore, Zenon
<1>11. Learns(m, fuzzers[v], NoPoll, maxSignal, corpusSignal)
    <2>1. Covered(Range(NoPoll.inputs), corpusSignal)
        BY <1>8 DEF Covered, Range
    <2> QED
        BY <2>1, <1>1, <1>3, <1>6, <1>7, <1>8, <1>9, LearnsMore
<1>12. UNCHANGED <<maxSignal, corpusSignal, candidates, fuzzers, corpus, proc>>
    BY DEF PollReply, mgr
<1> QED
    BY <1>1, <1>2, <1>7, <1>8, <1>10, <1>11, <1>12, MachineStep, Zenon

\* A machine that is gone has nothing to learn and nothing to report.
LEMMA CrashKeeps ==
    ASSUME SyncInv, NEW v \in VMs, Crash(v)
    PROVE  SyncInv'
<1> DEFINE ps == [p \in Procs |-> IF proc[v][p].pc = "send" THEN proc[v][p] ELSE Idle]
           r == IF poll[v].pc = "sent" THEN poll[v] ELSE NoPoll
<1>1. /\ proc[v] \in [Procs -> ProcType] /\ poll[v] \in PollType /\ FuzzerOK(fuzzers[v])
      /\ maxSignal \in Signals /\ corpusSignal \in Signals
      /\ Learns(vm[v], fuzzers[v], poll[v], maxSignal, corpusSignal)
      /\ Reports(vm[v], proc[v], poll[v], maxSignal, corpusSignal)
    BY AtMachine
<1>2. vm' = [vm EXCEPT ![v] = Down] /\ proc' = [proc EXCEPT ![v] = ps] /\ poll' = [poll EXCEPT ![v] = r]
    BY DEF Crash
<1>3. /\ Down \in VmType /\ ~Alive(Down) /\ Down.st # "connecting" /\ Down.max = Nil /\ Down.new = Nil
      /\ Down.snapshot = <<>> /\ \A g \in Progs : ~(Down.triage[g] > 0)
    BY NothingType, Zenon
<1>4. /\ Idle \in ProcType /\ Idle.pc = "idle"
      /\ NoPoll \in PollType /\ NoPoll.inputs = <<>> /\ NoPoll.pc = "idle"
    BY NothingType, Zenon
<1>5. ps \in [Procs -> ProcType] /\ \A p \in Procs : ps[p] = proc[v][p] \/ ps[p].pc = "idle"
    BY <1>1, <1>4, ZenonT(60)
<1>6. r \in PollType /\ Answered(r) = Nil /\ r.inputs \in {poll[v].inputs, <<>>}
    <2>1. Answered(NoPoll) = Nil
        BY NothingType, Zenon
    <2>2. poll[v].pc = "sent" => Answered(poll[v]) = Nil
        BY Zenon DEF Answered
    <2> QED
        BY <1>1, <1>4, <2>1, <2>2, Zenon
<1> HIDE DEF ps, r
<1>7. Range(<<>>) = {} /\ Covered({}, corpusSignal)
    BY NothingCovered, Zenon
<1>8. Learns(Down, fuzzers[v], r, maxSignal, corpusSignal)
    <2>1. Within(Answered(r), maxSignal)
        BY <1>1, <1>6, WithinOrder, Zenon
    <2>2. Covered(Range(r.inputs), corpusSignal)
        BY <1>1, <1>6, <1>7, Zenon DEF Learns
    <2> QED
        BY <2>1, <2>2, <1>1, <1>3, <1>7, Zenon DEF Learns
<1>9. Reports(Down, ps, r, maxSignal, corpusSignal)
    <2> DEFINE T == {Nil, maxSignal, corpusSignal, Reporting(r)}
    <2>1. T \subseteq Signals
        BY <1>1, <1>6, MessageType, SignalType, Zenon
    <2>2. Within(Nil, MergeAll(T)) /\ Within(Nil, Nil)
        BY <2>1, MergeAllIsJoin, WithinOrder, SignalType
    <2>3. \A p \in Procs : ps[p].pc # "idle" => ps[p].prog \in Progs
        BY <1>1, <1>5, Zenon DEF Reports
    <2> QED
        BY <2>2, <2>3, <1>3 DEF Reports
<1>10. UNCHANGED <<maxSignal, corpusSignal, candidates, fuzzers, corpus>>
    BY DEF Crash, mgr
<1> QED
    BY <1>2, <1>3, <1>5, <1>6, <1>8, <1>9, <1>10, MachineStep, ZenonT(60)

\* A new machine begins with nothing, and a copy of the corpus.
LEMMA fuzzerConnectKeeps ==
    ASSUME SyncInv, NEW v \in VMs, fuzzerConnect(v)
    PROVE  SyncInv'
<1>1. corpus \subseteq Inputs /\ Covered(corpus, corpusSignal)
    BY DEF SyncInv, SyncType
<1>2. PICK order \in Orders(corpus) :
        /\ corpus' \in {Minimize(order), corpus}
        /\ \E copy \in Orders(corpus') :
              vm' = [vm EXCEPT ![v] = [Down EXCEPT !.st = "connecting", !.snapshot = copy]]
    BY Zenon DEF fuzzerConnect
<1>3. PICK copy \in Orders(corpus') :
        vm' = [vm EXCEPT ![v] = [Down EXCEPT !.st = "connecting", !.snapshot = copy]]
    BY <1>2, Zenon
<1>4. corpus' \subseteq corpus /\ corpus' \subseteq Inputs
    BY <1>1, <1>2, MinimizeKeepsCoverage, Zenon
<1>5. copy \in Seq(Inputs) /\ Covered(Range(copy), corpusSignal)
    BY <1>1, <1>4, OrderOfCorpus, ZenonT(60) DEF Covered
<1> DEFINE m == [Down EXCEPT !.st = "connecting", !.snapshot = copy]
           ps == [p \in Procs |-> Idle]
<1>6. /\ FuzzerOK(fuzzers[v]) /\ maxSignal \in Signals /\ corpusSignal \in Signals
      /\ Learns(vm[v], fuzzers[v], poll[v], maxSignal, corpusSignal)
    BY AtMachine
<1>7. proc' = [proc EXCEPT ![v] = ps] /\ poll' = [poll EXCEPT ![v] = NoPoll] /\ vm' = [vm EXCEPT ![v] = m]
    BY <1>3, ZenonT(60) DEF fuzzerConnect
<1>8. Down \in VmType /\ Down.max = Nil /\ Down.new = Nil /\ \A g \in Progs : ~(Down.triage[g] > 0)
    BY NothingType
<1>9. /\ m \in VmType /\ m.st = "connecting" /\ m.max = Nil /\ m.new = Nil
      /\ m.snapshot = copy /\ \A g \in Progs : ~(m.triage[g] > 0)
    BY <1>5, <1>8, Zenon DEF VmType
<1>10. ps \in [Procs -> ProcType] /\ \A p \in Procs : ps[p].pc = "idle"
    BY NothingType, Zenon
<1>11. /\ NoPoll \in PollType /\ NoPoll.inputs = <<>> /\ NoPoll.pc = "idle"
       /\ Answered(NoPoll) = Nil /\ Reporting(NoPoll) = Nil
    BY NothingType, Zenon
<1> HIDE DEF m, ps
<1>12. ~Alive(m)
    BY <1>9 DEF Alive
<1>13. Learns(m, fuzzers[v], NoPoll, maxSignal, corpusSignal)
    <2>1. Within(Answered(NoPoll), maxSignal)
        BY <1>6, <1>11, WithinOrder, Zenon
    <2>2. Covered(Range(NoPoll.inputs), corpusSignal)
        BY <1>11 DEF Covered, Range
    <2> QED
        BY <2>1, <2>2, <1>5, <1>6, <1>9, <1>12, Zenon DEF Learns
<1>14. Reports(m, ps, NoPoll, maxSignal, corpusSignal)
    <2> DEFINE T == {Nil, maxSignal, corpusSignal, Nil}
    <2>1. T \subseteq Signals
        BY <1>6, SignalType, Zenon
    <2>2. Within(Nil, MergeAll(T)) /\ Within(Nil, Nil)
        BY <2>1, MergeAllIsJoin, WithinOrder, SignalType, Zenon
    <2> QED
        BY <2>2, <1>9, <1>10, <1>11, <1>12, Zenon DEF Reports
<1>15. UNCHANGED <<maxSignal, corpusSignal, candidates, fuzzers>>
    BY DEF fuzzerConnect
<1> QED
    BY <1>4, <1>7, <1>9, <1>10, <1>11, <1>13, <1>14, <1>15, MachineStep, Zenon

-----------------------------------------------------------------------------
(* Steps of the server.                                                     *)

\* A step of the server for the machine v: it may learn more, and tell the others.
LEMMA ServerStep ==
    ASSUME SyncInv, NEW v \in VMs, SyncType',
           Within(maxSignal, maxSignal'), Within(corpusSignal, corpusSignal'),
           Covered(corpus', corpusSignal'),
           Learns(vm[v], fuzzers[v], poll[v], maxSignal, corpusSignal)',
           Reports(vm[v], proc[v], poll[v], maxSignal, corpusSignal)',
           \A u \in VMs \ {v} :
                /\ vm'[u] = vm[u] /\ proc'[u] = proc[u] /\ poll'[u] = poll[u]
                /\ fuzzers'[u].connected = fuzzers[u].connected
                /\ fuzzers'[u].rotated = fuzzers[u].rotated
                /\ Within(fuzzers[u].newMaxSignal, fuzzers'[u].newMaxSignal)
                /\ Within(fuzzers'[u].newMaxSignal, maxSignal')
                /\ fuzzers[u].connected /\ ~fuzzers[u].rotated =>
                      \A c \in Signals :
                        Within(maxSignal, c) /\ Within(fuzzers'[u].newMaxSignal, c) => Within(maxSignal', c)
                /\ ~fuzzers[u].rotated => Covered(Range(fuzzers'[u].inputs), corpusSignal')
    PROVE  SyncInv'
<1>1. ASSUME NEW u \in VMs \ {v}
      PROVE  /\ Learns(vm[u], fuzzers[u], poll[u], maxSignal, corpusSignal)'
             /\ Reports(vm[u], proc[u], poll[u], maxSignal, corpusSignal)'
    <2>1. /\ vm[u] \in VmType /\ FuzzerOK(fuzzers[u]) /\ FuzzerOK(fuzzers'[u]) /\ poll[u] \in PollType
          /\ maxSignal \in Signals /\ corpusSignal \in Signals
          /\ maxSignal' \in Signals /\ corpusSignal' \in Signals
        BY DEF SyncInv, SyncType
    <2>2. /\ Learns(vm[u], fuzzers[u], poll[u], maxSignal, corpusSignal)
          /\ Reports(vm[u], proc[u], poll[u], maxSignal, corpusSignal)
        BY Zenon DEF SyncInv
    <2>3. Reports(vm[u], proc[u], poll[u], maxSignal', corpusSignal')
        BY <2>1, <2>2, ReportsKept, Zenon
    <2>4. Learns(vm[u], fuzzers'[u], poll[u], maxSignal', corpusSignal')
        BY <2>1, <2>2, LearnsKept, Zenon
    <2> QED
        BY <2>3, <2>4, Zenon
<1> QED
    BY <1>1, Zenon DEF SyncInv

\* A machine that is down may be forgotten.
LEMMA shutdownInstanceKeeps ==
    ASSUME SyncInv, NEW v \in VMs, shutdownInstance(v)
    PROVE  SyncInv'
<1>1. /\ vm[v] \in VmType /\ maxSignal \in Signals /\ corpusSignal \in Signals
      /\ Learns(vm[v], fuzzers[v], poll[v], maxSignal, corpusSignal)
      /\ Reports(vm[v], proc[v], poll[v], maxSignal, corpusSignal)
    BY AtMachine, Zenon
<1>2. FuzzerOK(NoFuzzer) /\ NoFuzzer.newMaxSignal = Nil /\ NoFuzzer.inputs = <<>>
    BY SignalType DEF NoFuzzer, FuzzerOK
<1>3. /\ \A u \in VMs : fuzzers'[u] = IF u = v THEN NoFuzzer ELSE fuzzers[u]
      /\ fuzzers' = [u \in VMs |-> fuzzers'[u]]
      /\ UNCHANGED <<maxSignal, corpusSignal, corpus, candidates, vm, proc, poll>>
    BY Zenon DEF shutdownInstance, mgr, SyncInv, SyncType
<1>4. SyncType'
    BY <1>2, <1>3 DEF SyncInv, SyncType
<1>5. Learns(vm[v], NoFuzzer, poll[v], maxSignal, corpusSignal)
    <2>1. ~Alive(vm[v])
        BY ZenonT(60) DEF shutdownInstance, Alive
    <2>2. Within(Nil, maxSignal) /\ Covered(Range(<<>>), corpusSignal)
        BY <1>1, WithinOrder, NothingCovered, Zenon
    <2> QED
        BY <2>1, <2>2, <1>1, <1>2, Zenon DEF Learns
<1> QED
    BY <1>1, <1>3, <1>4, <1>5, Zenon DEF SyncInv

\* What a rotated machine is given is part of what the server knows.
LEMMA SelectedSignal ==
    ASSUME NEW q, NEW kept, NEW ms \in Signals, NEW s \in selectInputs(q, kept, ms)
    PROVE  s.signal \in Signals /\ Within(s.signal, ms)
<1> DEFINE D == Elems \ UNION {Covers(i.sig) : i \in Range(q) \ kept}
           signal == Only(ms, D)
<1>1. signal \in Signals /\ Within(signal, ms)
    BY OnlyIsPart, Zenon
<1>2. PICK E : s = [inputs |-> KeptInputs(q, kept), signal |-> SplitRest(signal, E)]
    BY Zenon DEF selectInputs
<1>3. s.signal = Only(signal, Elems \ E)
    BY <1>2 DEF SplitRest
<1> HIDE DEF signal
<1>4. Only(signal, Elems \ E) \in Signals /\ Within(Only(signal, Elems \ E), signal)
    BY <1>1, OnlyIsPart, Zenon
<1> QED
    BY <1>1, <1>3, <1>4, WithinOrder, ZenonT(60)

\* A machine that connects will be told all that the server knows, unless it is
\* rotated.
LEMMA ConnectKeeps ==
    ASSUME SyncInv, NEW v \in VMs, Connect(v)
    PROVE  SyncInv'
<1> DEFINE m == [vm[v] EXCEPT !.st = "fetching", !.snapshot = <<>>]
           f == fuzzers'[v]
<1>1. /\ vm[v] \in VmType /\ maxSignal \in Signals /\ corpusSignal \in Signals /\ poll[v] \in PollType
      /\ Learns(vm[v], fuzzers[v], poll[v], maxSignal, corpusSignal)
      /\ Reports(vm[v], proc[v], poll[v], maxSignal, corpusSignal)
      /\ proc[v] \in [Procs -> ProcType] /\ vm[v].snapshot \in Seq(Inputs)
    BY AtMachine, Zenon DEF VmType
<1>2. vm[v].st = "connecting" /\ ~Alive(vm[v]) /\ vm[v].max = Nil /\ poll[v].pc = "idle"
      /\ \A p \in Procs : proc[v][p].pc = "idle"
    BY <1>1 DEF Connect, Reports, Alive
<1>3. /\ f.connected = TRUE /\ FuzzerOK(f) /\ Within(f.newMaxSignal, maxSignal)
      /\ ~f.rotated => f.newMaxSignal = maxSignal /\ Covered(Range(f.inputs), corpusSignal)
      /\ fuzzers' = [fuzzers EXCEPT ![v] = f]
    <2>1. CASE rotateCorpus(v)
        <3>1. PICK kept, s : /\ s \in selectInputs(vm[v].snapshot, kept, maxSignal)
                             /\ fuzzers' = [fuzzers EXCEPT ![v] =
                                    [connected |-> TRUE, rotated |-> TRUE, inputs |-> s.inputs,
                                     newMaxSignal |-> s.signal,
                                     rotatedSignal |-> Intersection(corpusSignal, s.signal)]]
            BY <2>1, Zenon DEF rotateCorpus
        <3> DEFINE g == [connected |-> TRUE, rotated |-> TRUE, inputs |-> s.inputs,
                         newMaxSignal |-> s.signal,
                         rotatedSignal |-> Intersection(corpusSignal, s.signal)]
        <3>2. s.signal \in Signals /\ Within(s.signal, maxSignal)
            BY <3>1, <1>1, SelectedSignal, Zenon
        <3>3. FuzzerOK(g) /\ g.connected = TRUE /\ g.rotated = TRUE /\ g.newMaxSignal = s.signal
            BY <3>2, Zenon DEF FuzzerOK
        <3>4. fuzzers' = [fuzzers EXCEPT ![v] = g]
            BY <3>1, Zenon
        <3> HIDE DEF g
        <3>5. f = g
            BY <3>4 DEF SyncInv, SyncType
        <3> QED
            BY <3>2, <3>3, <3>4, <3>5, Zenon
    <2>2. CASE Register(v)
        <3> DEFINE g == [connected |-> TRUE, rotated |-> FALSE, inputs |-> vm[v].snapshot,
                         newMaxSignal |-> maxSignal, rotatedSignal |-> Nil]
        <3>1. Covered(Range(vm[v].snapshot), corpusSignal) /\ Within(maxSignal, maxSignal)
            BY <1>1, WithinOrder, Zenon DEF Learns
        <3>2. /\ FuzzerOK(g) /\ g.connected = TRUE /\ g.rotated = FALSE
              /\ g.newMaxSignal = maxSignal /\ g.inputs = vm[v].snapshot
            BY <1>1, Zenon DEF FuzzerOK
        <3>3. fuzzers' = [fuzzers EXCEPT ![v] = g]
            BY <2>2 DEF Register
        <3> HIDE DEF g
        <3>4. f = g
            BY <3>3 DEF SyncInv, SyncType
        <3> QED
            BY <3>1, <3>2, <3>3, <3>4, Zenon
    <2> QED
        BY <2>1, <2>2, Zenon DEF Connect
<1>4. /\ m \in VmType /\ m.st = "fetching" /\ m.max = Nil /\ m.new = vm[v].new
      /\ m.snapshot = <<>> /\ m.triage = vm[v].triage
    <2>1. <<>> \in Seq(Inputs)
        OBVIOUS
    <2> QED
        BY <2>1, <1>1, <1>2, Zenon DEF VmType
<1>5. vm' = [vm EXCEPT ![v] = m] /\ UNCHANGED <<maxSignal, corpusSignal, corpus, candidates, proc, poll>>
    BY DEF Connect, rotateCorpus, Register
<1> HIDE DEF m, f
<1>6. /\ \A u \in VMs : vm'[u] = IF u = v THEN m ELSE vm[u]
      /\ \A u \in VMs : fuzzers'[u] = IF u = v THEN f ELSE fuzzers[u]
      /\ fuzzers' = [u \in VMs |-> fuzzers'[u]]
    BY <1>3, <1>5, Zenon DEF SyncInv, SyncType
<1>7. SyncType'
    BY <1>3, <1>4, <1>5, <1>6, ZenonT(60) DEF SyncInv, SyncType
<1>8. Answered(poll[v]) = Nil /\ Reporting(poll[v]) = Nil /\ Alive(m) /\ Range(<<>>) = {}
    BY <1>2, <1>4 DEF Answered, Reporting, Alive, Range
<1>9. Learns(m, f, poll[v], maxSignal, corpusSignal)
    <2> DEFINE T == {m.max, f.newMaxSignal, Answered(poll[v])}
    <2>1. T \subseteq Signals
        BY <1>3, <1>4, <1>8, SignalType, Zenon DEF FuzzerOK
    <2>2. Within(f.newMaxSignal, MergeAll(T))
        BY <2>1, MergeAllIsJoin, ZenonT(60)
    <2>3. Covered(Range(m.snapshot), corpusSignal)
        BY <1>4, <1>8 DEF Covered
    <2> QED
        BY <2>2, <2>3, <1>1, <1>3, Zenon DEF Learns
<1>10. Reports(m, proc[v], poll[v], maxSignal, corpusSignal)
    BY <1>1, <1>2, <1>4, <1>8, WithinOrder, SignalType, Zenon DEF Reports
<1> QED
    BY <1>5, <1>6, <1>7, <1>9, <1>10, Zenon DEF SyncInv

\* The inputs that wait for a fuzzer that is not rotated are inputs.
LEMMA WaitingInputs ==
    ASSUME NEW f, FuzzerOK(f), ~f.rotated
    PROVE  Range(f.inputs) \in SUBSET Inputs
<1>1. f.inputs \in Seq(Inputs)
    BY DEF FuzzerOK
<1> QED
    BY <1>1, RangeOfInputs

\* What a new input adds is in the corpus signal, whether it is new for the corpus or
\* only for a rotated fuzzer.
LEMMA CorpusGrows ==
    ASSUME SyncInv, NEW g \in Progs, NEW s \in Signals
    PROVE  LET genuine == Diff(corpusSignal, s) # Nil
               merged == MergeAll({s} \cup {i.sig : i \in {j \in corpus : j.prog = g}})
               cs == IF genuine THEN Merge(corpusSignal, merged) ELSE corpusSignal
           IN /\ merged \in Signals /\ cs \in Signals
              /\ Within(corpusSignal, cs) /\ Within(s, cs) /\ Within(merged, cs)
              /\ newInput(g, merged) \subseteq Inputs
              /\ Covered(newInput(g, merged), cs)
<1> DEFINE genuine == Diff(corpusSignal, s) # Nil
           S == {s} \cup {i.sig : i \in {j \in corpus : j.prog = g}}
           merged == MergeAll(S)
           cs == IF genuine THEN Merge(corpusSignal, merged) ELSE corpusSignal
<1>1. /\ corpus \subseteq Inputs /\ Covered(corpus, corpusSignal)
      /\ corpusSignal \in Signals
    BY Zenon DEF SyncInv, SyncType
<1>2. \A i \in corpus : i.sig \in Signals /\ Within(i.sig, corpusSignal)
    BY <1>1 DEF Inputs, Covered
<1>3. S \subseteq Signals
    BY <1>2, Zenon
<1>4. merged \in Signals /\ Within(s, merged)
    BY <1>3, MergeAllIsJoin, Zenon
<1>5. ~genuine => Within(merged, corpusSignal)
    <2>1. SUFFICES ASSUME ~genuine PROVE Within(merged, corpusSignal)
        BY Zenon
    <2>2. Within(s, corpusSignal)
        BY <2>1, <1>1, DiffIsMissing, Zenon
    <2>3. \A a \in S : Within(a, corpusSignal)
        BY <2>2, <1>2, Zenon
    <2> QED
        BY <2>3, <1>1, <1>3, MergeAllIsJoin, Zenon
<1> HIDE DEF S, merged
<1>6. cs \in Signals /\ Within(corpusSignal, cs) /\ Within(merged, cs)
    BY <1>1, <1>4, <1>5, MergeIsJoin, WithinOrder, Zenon
<1> HIDE DEF cs
<1>7. Within(s, cs)
    BY <1>4, <1>6, WithinOrder, Zenon
<1> DEFINE x == [prog |-> g, sig |-> merged]
           C == {i \in corpus : i.prog # g}
<1>8. x \in Inputs /\ x.sig = merged
    BY <1>4, Zenon DEF Inputs
<1>9. newInput(g, merged) = C \cup {x} /\ C \subseteq corpus
    BY DEF newInput
<1> HIDE DEF C, x
<1>10. newInput(g, merged) \subseteq Inputs
    BY <1>1, <1>8, <1>9, Zenon
<1>11. Covered(newInput(g, merged), cs)
    <2>1. \A i \in C : Within(i.sig, cs)
        BY <1>1, <1>2, <1>6, <1>9, WithinOrder, Zenon
    <2> QED
        BY <2>1, <1>6, <1>8, <1>9, Zenon DEF Covered
<1> QED
    BY <1>4, <1>6, <1>7, <1>10, <1>11, Zenon DEF cs, merged, S

\* What NewInput() leaves of the server: the corpus is covered, and so are the inputs
\* that wait for each fuzzer.
LEMMA NewInputServer ==
    ASSUME SyncInv, NEW v \in VMs, NEW p \in Procs, NewInput(v, p)
    PROVE  /\ corpusSignal' \in Signals /\ Within(corpusSignal, corpusSignal')
           /\ corpus' \subseteq Inputs /\ Covered(corpus', corpusSignal')
           /\ fuzzers' = [u \in VMs |-> fuzzers'[u]]
           /\ \A u \in VMs :
                /\ FuzzerOK(fuzzers'[u])
                /\ fuzzers'[u].connected = fuzzers[u].connected
                /\ fuzzers'[u].rotated = fuzzers[u].rotated
                /\ fuzzers'[u].newMaxSignal = fuzzers[u].newMaxSignal
                /\ ~fuzzers[u].rotated => Covered(Range(fuzzers'[u].inputs), corpusSignal')
<1> DEFINE g == proc[v][p].prog
           s == proc[v][p].sig
           f == fuzzers[v]
           genuine == Diff(corpusSignal, s) # Nil
           merged == MergeAll({s} \cup {i.sig : i \in {j \in corpus : j.prog = g}})
           others == IF genuine THEN {u \in VMs \ {v} : fuzzers[u].connected /\ ~fuzzers[u].rotated} ELSE {}
           x == [prog |-> g, sig |-> s]
<1>1. g \in Progs /\ s \in Signals
    BY AtProcess, Zenon DEF NewInput
<1>2. /\ corpusSignal \in Signals /\ corpus \subseteq Inputs
      /\ Covered(corpus, corpusSignal) /\ fuzzers = [u \in VMs |-> fuzzers[u]]
      /\ \A u \in VMs :
            /\ FuzzerOK(fuzzers[u])
            /\ ~fuzzers[u].rotated => Covered(Range(fuzzers[u].inputs), corpusSignal)
    BY Zenon DEF SyncInv, SyncType, Learns
<1>3. CASE UNCHANGED <<corpus, corpusSignal, fuzzers>>
    <2>1. corpus' = corpus /\ corpusSignal' = corpusSignal /\ fuzzers' = fuzzers
        BY <1>3
    <2>2. Within(corpusSignal, corpusSignal)
        BY <1>2, WithinOrder, Zenon
    <2> QED
        BY <2>1, <2>2, <1>2, Zenon
<1>4. ASSUME corpus' = newInput(g, merged),
             corpusSignal' = (IF genuine THEN Merge(corpusSignal, merged) ELSE corpusSignal),
             fuzzers' = [u \in VMs |->
                  CASE u \in others -> [fuzzers[u] EXCEPT !.inputs = Append(@, [prog |-> g, sig |-> s])]
                    [] u = v /\ f.rotated -> [f EXCEPT !.rotatedSignal = Merge(@, merged)]
                    [] OTHER -> fuzzers[u]]
      PROVE  /\ corpusSignal' \in Signals /\ Within(corpusSignal, corpusSignal')
             /\ corpus' \subseteq Inputs /\ Covered(corpus', corpusSignal')
             /\ fuzzers' = [u \in VMs |-> fuzzers'[u]]
             /\ \A u \in VMs :
                  /\ FuzzerOK(fuzzers'[u])
                  /\ fuzzers'[u].connected = fuzzers[u].connected
                  /\ fuzzers'[u].rotated = fuzzers[u].rotated
                  /\ fuzzers'[u].newMaxSignal = fuzzers[u].newMaxSignal
                  /\ ~fuzzers[u].rotated => Covered(Range(fuzzers'[u].inputs), corpusSignal')
    <2>1. /\ corpusSignal' \in Signals /\ Within(corpusSignal, corpusSignal') /\ Within(s, corpusSignal')
          /\ corpus' \subseteq Inputs /\ Covered(corpus', corpusSignal')
        BY <1>1, <1>4, CorpusGrows, Zenon
    <2>2. x \in Inputs /\ x.sig = s
        BY <1>1 DEF Inputs
    <2>3. ASSUME NEW u \in VMs
          PROVE  /\ FuzzerOK(fuzzers'[u])
                 /\ fuzzers'[u].connected = fuzzers[u].connected
                 /\ fuzzers'[u].rotated = fuzzers[u].rotated
                 /\ fuzzers'[u].newMaxSignal = fuzzers[u].newMaxSignal
                 /\ ~fuzzers[u].rotated => Covered(Range(fuzzers'[u].inputs), corpusSignal')
        <3>0. ~fuzzers[u].rotated => \A i \in Range(fuzzers[u].inputs) : Within(i.sig, corpusSignal')
            <4>1. SUFFICES ASSUME ~fuzzers[u].rotated
                           PROVE  Covered(Range(fuzzers[u].inputs), corpusSignal')
                BY DEF Covered
            <4>2. FuzzerOK(fuzzers[u]) /\ Covered(Range(fuzzers[u].inputs), corpusSignal)
                BY <4>1, <1>2, Zenon
            <4>3. Range(fuzzers[u].inputs) \in SUBSET Inputs
                BY <4>1, <4>2, WaitingInputs, Zenon
            <4> QED
                BY <4>2, <4>3, <1>2, <2>1, CoveredGrows, Zenon
        <3>1. CASE u \in others
            <4> DEFINE f1 == [fuzzers[u] EXCEPT !.inputs = Append(@, x)]
            <4>1. ~fuzzers[u].rotated
                BY <3>1, <1>4, Zenon
            <4>2. /\ FuzzerOK(f1) /\ f1.connected = fuzzers[u].connected /\ f1.rotated = fuzzers[u].rotated
                  /\ f1.newMaxSignal = fuzzers[u].newMaxSignal
                  /\ \A i \in Range(f1.inputs) : i \in Range(fuzzers[u].inputs) \/ i = x
                BY <4>1, <1>2, <2>2, InputAppended, Zenon
            <4>3. fuzzers'[u] = f1
                BY <3>1, <1>4, Zenon
            <4> HIDE DEF f1, x
            <4>4. \A i \in Range(f1.inputs) : Within(i.sig, corpusSignal')
                BY <4>1, <4>2, <3>0, <2>1, <2>2, Zenon
            <4> QED
                BY <4>2, <4>3, <4>4, Zenon DEF Covered
        <3>2. CASE u \notin others /\ u = v /\ f.rotated
            <4> DEFINE f1 == [f EXCEPT !.rotatedSignal = Merge(@, merged)]
            <4>1. fuzzers'[u] = f1
                BY <3>2, <1>4, Zenon
            <4>2. /\ f1.connected = f.connected /\ f1.rotated = f.rotated
                  /\ f1.newMaxSignal = f.newMaxSignal /\ f1.inputs = f.inputs /\ FuzzerOK(f1)
                <5>1. FuzzerOK(f)
                    BY <1>2, Zenon
                <5> HIDE DEF f, merged
                <5>2. /\ f1.connected = f.connected /\ f1.rotated = f.rotated
                      /\ f1.newMaxSignal = f.newMaxSignal /\ f1.inputs = f.inputs
                      /\ f1 = [connected |-> f1.connected, rotated |-> f1.rotated, inputs |-> f1.inputs,
                               newMaxSignal |-> f1.newMaxSignal, rotatedSignal |-> f1.rotatedSignal]
                    BY <5>1 DEF FuzzerOK
                <5> HIDE DEF f1
                <5> QED
                    BY <5>1, <5>2, Zenon DEF FuzzerOK
            <4> HIDE DEF f1
            <4> QED
                BY <4>1, <4>2, <3>2, Zenon
        <3>3. CASE u \notin others /\ ~(u = v /\ f.rotated)
            <4>1. fuzzers'[u] = fuzzers[u]
                BY <3>3, <1>4, Zenon
            <4> QED
                BY <4>1, <3>0, <1>2, Zenon DEF Covered
        <3> QED
            BY <3>1, <3>2, <3>3, Zenon
    <2>4. fuzzers' = [u \in VMs |-> fuzzers'[u]]
        BY <1>4, ZenonT(60)
    <2> QED
        BY <2>1, <2>3, <2>4, Zenon
<1> QED
    BY <1>3, <1>4, Zenon DEF NewInput

\* A new input for the corpus.
LEMMA NewInputKeeps ==
    ASSUME SyncInv, NEW v \in VMs, NEW p \in Procs, NewInput(v, p)
    PROVE  SyncInv'
<1> DEFINE x == IF Up(v) THEN [proc[v][p] EXCEPT !.pc = "add"] ELSE Idle
           ps == [proc[v] EXCEPT ![p] = x]
<1>1. /\ vm[v] \in VmType /\ vm[v].max \in Signals /\ proc[v] \in [Procs -> ProcType]
      /\ poll[v] \in PollType /\ FuzzerOK(fuzzers[v]) /\ maxSignal \in Signals /\ corpusSignal \in Signals
      /\ Learns(vm[v], fuzzers[v], poll[v], maxSignal, corpusSignal)
      /\ Reports(vm[v], proc[v], poll[v], maxSignal, corpusSignal)
    BY AtMachine
<1>2. /\ proc[v][p] \in ProcType /\ proc[v][p].pc = "send" /\ proc[v][p].prog \in Progs
      /\ Alive(vm[v]) => Within(proc[v][p].sig, vm[v].max)
    BY AtProcess, Zenon DEF NewInput
<1>3. /\ corpusSignal' \in Signals /\ Within(corpusSignal, corpusSignal')
      /\ corpus' \subseteq Inputs /\ Covered(corpus', corpusSignal')
      /\ fuzzers' = [u \in VMs |-> fuzzers'[u]]
      /\ \A u \in VMs :
            /\ FuzzerOK(fuzzers'[u])
            /\ fuzzers'[u].connected = fuzzers[u].connected
            /\ fuzzers'[u].rotated = fuzzers[u].rotated
            /\ fuzzers'[u].newMaxSignal = fuzzers[u].newMaxSignal
            /\ ~fuzzers[u].rotated => Covered(Range(fuzzers'[u].inputs), corpusSignal')
    BY NewInputServer, Zenon
<1>4. /\ proc' = [proc EXCEPT ![v] = ps]
      /\ UNCHANGED <<maxSignal, candidates, vm, poll>>
    BY Zenon DEF NewInput, SyncInv, SyncType
<1>5. /\ x \in ProcType
      /\ x = Idle \/ (x.pc = "add" /\ x.prog = proc[v][p].prog /\ x.sig = proc[v][p].sig)
    BY <1>2, SignalType, Zenon DEF Idle, ProcType
<1> HIDE DEF x
<1>6. ps \in [Procs -> ProcType] /\ ps[p] = x /\ \A q \in Procs : q # p => ps[q] = proc[v][q]
    BY <1>1, <1>5, Zenon
<1> HIDE DEF ps
<1>7. SyncType'
    BY <1>3, <1>4, <1>6, Zenon DEF SyncInv, SyncType
<1>8. \A u \in VMs : fuzzers[u].newMaxSignal \in Signals /\ Within(fuzzers[u].newMaxSignal, maxSignal)
    BY Zenon DEF SyncInv, SyncType, Learns, FuzzerOK
<1>9. \A u \in VMs : /\ Within(fuzzers[u].newMaxSignal, fuzzers'[u].newMaxSignal)
                     /\ Within(fuzzers'[u].newMaxSignal, maxSignal)
    BY <1>3, <1>8, WithinOrder, Zenon
<1>10. Within(maxSignal, maxSignal)
    BY <1>1, WithinOrder, Zenon
<1>11. Learns(vm[v], fuzzers'[v], poll[v], maxSignal, corpusSignal')
    BY <1>1, <1>3, <1>9, <1>10, LearnsKept, Zenon
<1>12. Reports(vm[v], ps, poll[v], maxSignal, corpusSignal')
    <2>1. Reports(vm[v], proc[v], poll[v], maxSignal, corpusSignal')
        BY <1>1, <1>3, <1>10, ReportsKept, Zenon
    <2>2. vm[v].st # "connecting"
        BY <1>1, <1>2, ZenonT(60) DEF Reports
    <2>3. /\ ps[p].pc # "idle" => ps[p].prog \in Progs
          /\ Alive(vm[v]) /\ ps[p].pc \in {"send", "add"} => Within(ps[p].sig, vm[v].max)
          /\ ps[p].pc # "merge"
        BY <1>2, <1>5, <1>6 DEF Idle
    <2> QED
        BY <2>1, <2>2, <2>3, <1>6, Zenon DEF Reports
<1>13. /\ \A u \in VMs : vm'[u] = vm[u] /\ poll'[u] = poll[u]
       /\ \A u \in VMs : proc'[u] = IF u = v THEN ps ELSE proc[u]
    BY <1>4 DEF SyncInv, SyncType
<1> QED
    BY <1>3, <1>4, <1>7, <1>9, <1>10, <1>11, <1>12, <1>13, ServerStep

-----------------------------------------------------------------------------
(* Poll().                                                                  *)

\* The smaller and the larger of two numbers.
LEMMA MinMaxOfTwo ==
    ASSUME NEW a \in Nat, NEW b \in Nat
    PROVE  /\ Min({a, b}) \in {a, b} /\ Min({a, b}) <= a /\ Min({a, b}) <= b
           /\ Max({a, b}) \in {a, b}
<1>1. \E y \in {a, b} : \A z \in {a, b} : y <= z
    <2>1. CASE a <= b
        BY <2>1
    <2>2. CASE b <= a
        BY <2>2
    <2> QED
        BY <2>1, <2>2
<1>2. Min({a, b}) \in {a, b} /\ \A z \in {a, b} : Min({a, b}) <= z
    BY <1>1, Zenon DEF Min
<1>3. \E y \in {a, b} : \A z \in {a, b} : y >= z
    <2>1. CASE a <= b
        BY <2>1
    <2>2. CASE b <= a
        BY <2>2
    <2> QED
        BY <2>1, <2>2
<1>4. Max({a, b}) \in {a, b}
    BY <1>3, Zenon DEF Max
<1> QED
    BY <1>2, <1>4, Zenon

\* candidateBatch() hands out no more candidates than there are.
LEMMA BatchTaken ==
    ASSUME NEW left \in Nat, batchSize \in Nat
    PROVE  BatchOf(left) \in 0 .. left
    BY MinMaxOfTwo DEF BatchOf

\* The signal of a request, once it is merged, waits for every other fuzzer that is
\* not rotated.
LEMMA BroadcastTells ==
    ASSUME SyncInv, NEW v \in VMs, NEW s \in Signals, NEW u \in VMs
    PROVE  LET f == fuzzers[u]
               f1 == Broadcast(v, Diff(maxSignal, s))[u]
               ms == Merge(maxSignal, s)
           IN /\ FuzzerOK(f1) /\ f1.connected = f.connected /\ f1.rotated = f.rotated
              /\ f1.inputs = f.inputs
              /\ u = v => f1 = f
              /\ Within(f.newMaxSignal, f1.newMaxSignal) /\ Within(f1.newMaxSignal, ms)
              /\ u # v /\ f.connected /\ ~f.rotated =>
                    \A c \in Signals : Within(maxSignal, c) /\ Within(f1.newMaxSignal, c) => Within(ms, c)
<1> DEFINE f == fuzzers[u]
           new == Diff(maxSignal, s)
           f1 == Broadcast(v, new)[u]
           ms == Merge(maxSignal, s)
           g == [f EXCEPT !.newMaxSignal = Merge(@, new)]
<1>1. /\ FuzzerOK(f) /\ maxSignal \in Signals /\ f.newMaxSignal \in Signals
      /\ Within(f.newMaxSignal, maxSignal)
    BY Zenon DEF SyncInv, SyncType, Learns, FuzzerOK
<1>2. /\ new \in Signals /\ Within(new, s)
      /\ \A c \in Signals : Within(maxSignal, c) /\ Within(new, c) => Within(s, c)
    BY <1>1, DiffIsMissing, Zenon
<1>3. /\ ms \in Signals /\ Within(maxSignal, ms) /\ Within(s, ms)
      /\ \A c \in Signals : Within(maxSignal, c) /\ Within(s, c) => Within(ms, c)
    BY <1>1, MergeIsJoin
<1>4. f1 = IF u # v /\ f.connected /\ ~f.rotated THEN g ELSE f
    BY Zenon DEF Broadcast
<1> DEFINE nms == Merge(f.newMaxSignal, new)
<1>5. nms \in Signals /\ Within(f.newMaxSignal, nms) /\ Within(new, nms)
      /\ \A c \in Signals : Within(f.newMaxSignal, c) /\ Within(new, c) => Within(nms, c)
    BY <1>1, <1>2, MergeIsJoin, Zenon
<1> HIDE DEF new, ms, f1, f
<1>6. /\ g.connected = f.connected /\ g.rotated = f.rotated /\ g.inputs = f.inputs
      /\ g.newMaxSignal = nms
      /\ g = [connected |-> g.connected, rotated |-> g.rotated, inputs |-> g.inputs,
              newMaxSignal |-> g.newMaxSignal, rotatedSignal |-> g.rotatedSignal]
    BY <1>1 DEF FuzzerOK
<1> HIDE DEF g, nms
<1>7. FuzzerOK(g)
    BY <1>1, <1>5, <1>6, Zenon DEF FuzzerOK
<1>8. Within(f.newMaxSignal, ms) /\ Within(new, ms) /\ Within(f.newMaxSignal, f.newMaxSignal)
    BY <1>1, <1>2, <1>3, WithinOrder, Zenon
<1>9. Within(nms, ms)
    BY <1>3, <1>5, <1>8, Zenon
<1>10. ASSUME NEW c \in Signals, Within(maxSignal, c), Within(nms, c) PROVE Within(ms, c)
    <2>1. Within(new, c)
        BY <1>2, <1>5, <1>10, WithinOrder, ZenonT(60)
    <2> QED
        BY <2>1, <1>2, <1>3, <1>10, Zenon
<1>11. /\ FuzzerOK(f1) /\ f1.connected = f.connected /\ f1.rotated = f.rotated /\ f1.inputs = f.inputs
       /\ u = v => f1 = f
       /\ Within(f.newMaxSignal, f1.newMaxSignal) /\ Within(f1.newMaxSignal, ms)
       /\ u # v /\ f.connected /\ ~f.rotated =>
             \A c \in Signals : Within(maxSignal, c) /\ Within(f1.newMaxSignal, c) => Within(ms, c)
    <2>1. CASE u # v /\ f.connected /\ ~f.rotated
        BY <2>1, <1>4, <1>5, <1>6, <1>7, <1>9, <1>10, Zenon
    <2>2. CASE ~(u # v /\ f.connected /\ ~f.rotated)
        BY <2>2, <1>1, <1>4, <1>8, Zenon
    <2> QED
        BY <2>1, <2>2
<1> QED
    BY <1>11, Zenon DEF new, ms, f1, f

\* The answer to a request whose signal has been merged: what it reported is known,
\* and what is taken from the Fuzzer f1 is in the answer r1.
LEMMA PollAnswered ==
    ASSUME NEW m \in VmType, NEW ps, NEW r \in PollType, NEW r1 \in PollType, NEW f, NEW f1,
           FuzzerOK(f), FuzzerOK(f1), NEW ms \in Signals, NEW cs \in Signals,
           Learns(m, f, r, ms, cs), Reports(m, ps, r, ms, cs), r.pc = "sent", r1.pc = "reply",
           f1.connected = f.connected, f1.rotated = f.rotated,
           Within(f1.newMaxSignal, ms), Within(r1.sig, ms),
           ~f.rotated =>
                \A c \in Signals : Within(f1.newMaxSignal, c) /\ Within(r1.sig, c) => Within(f.newMaxSignal, c),
           Covered(Range(r1.inputs), cs),
           ~f.rotated => Covered(Range(f1.inputs), cs)
    PROVE  /\ Learns(m, f1, r1, Merge(ms, r.sig), cs)
           /\ Reports(m, ps, r1, Merge(ms, r.sig), cs)
<1> DEFINE ms1 == Merge(ms, r.sig)
           S == {m.max, f.newMaxSignal, Answered(r)}
           T == {m.max, f1.newMaxSignal, Answered(r1)}
           A == {m.new, ms, cs, Reporting(r)}
           B == {m.new, ms1, cs, Reporting(r1)}
<1>1. /\ m.max \in Signals /\ m.new \in Signals /\ r.sig \in Signals /\ r1.sig \in Signals
      /\ f.newMaxSignal \in Signals /\ f1.newMaxSignal \in Signals
    BY DEF VmType, PollType, FuzzerOK
<1>2. Answered(r) = Nil /\ Answered(r1) = r1.sig /\ Reporting(r) = r.sig /\ Reporting(r1) = Nil
    BY Zenon DEF Answered, Reporting
<1>3. /\ ms1 \in Signals /\ Within(ms, ms1) /\ Within(r.sig, ms1)
      /\ \A c \in Signals : Within(ms, c) /\ Within(r.sig, c) => Within(ms1, c)
    BY <1>1, MergeIsJoin, Zenon
<1> HIDE DEF ms1
<1>31. /\ Answered(r) \in Signals /\ Answered(r1) \in Signals
       /\ Reporting(r) \in Signals /\ Reporting(r1) \in Signals
  <2>1. Nil \in Signals
      BY SignalType, Zenon
  <2> QED BY <1>1, <1>2, <2>1, Zenon
<1>4. S \subseteq Signals /\ T \subseteq Signals /\ A \subseteq Signals /\ B \subseteq Signals
    BY <1>1, <1>3, <1>31, Zenon
<1>5. /\ MergeAll(S) \in Signals /\ MergeAll(T) \in Signals /\ MergeAll(A) \in Signals /\ MergeAll(B) \in Signals
      /\ \A a \in T : Within(a, MergeAll(T))
      /\ \A a \in B : Within(a, MergeAll(B))
    BY <1>4, MergeAllIsJoin, Zenon
<1>6. Within(f1.newMaxSignal, ms1) /\ Within(r1.sig, ms1)
    BY <1>1, <1>3, WithinOrder, Zenon
<1>7. ASSUME Alive(m), ~f.rotated PROVE Within(ms1, MergeAll(T))
    <2>1. Within(f.newMaxSignal, MergeAll(T))
        BY <1>2, <1>5, <1>7, Zenon
    <2>2. \A a \in S : Within(a, MergeAll(T))
        BY <2>1, <1>2, <1>5, WithinOrder, Zenon
    <2>3. Within(MergeAll(S), MergeAll(T))
        BY <2>2, <1>4, JoinGrows, Zenon
    <2>4. Within(ms, MergeAll(S)) /\ Within(r.sig, m.max)
        BY <1>2, <1>7, Zenon DEF Learns, Reports
    <2>5. Within(m.max, MergeAll(T))
        BY <1>5, Zenon
    <2> HIDE DEF S, T
    <2>6. Within(ms, MergeAll(T))
        BY <2>3, <2>4, <1>5, WithinOrder, Zenon
    <2>7. Within(r.sig, MergeAll(T))
      <3>1. r.sig \in Signals /\ m.max \in Signals /\ MergeAll(T) \in Signals
          BY <1>1, <1>5, Zenon
      <3>2. \A a, b, c \in Signals : Within(a, b) /\ Within(b, c) => Within(a, c)
          BY WithinOrder, Zenon
      <3>3. Within(r.sig, m.max)
          BY <2>4, Zenon
      <3> QED BY <2>5, <3>1, <3>2, <3>3, Zenon
    <2> QED
        BY <2>6, <2>7, <1>3, <1>5, Zenon
<1>8. Within(m.max, MergeAll(B))
    <2>1. \A a \in A : Within(a, MergeAll(B))
        <3>1. Within(m.new, MergeAll(B)) /\ Within(ms1, MergeAll(B)) /\ Within(cs, MergeAll(B))
            BY <1>5, Zenon
        <3> HIDE DEF B
        <3>2. Within(ms, MergeAll(B))
            BY <3>1, <1>3, <1>5, WithinOrder, Zenon
        <3>3. Within(r.sig, MergeAll(B))
            BY <3>1, <1>1, <1>3, <1>5, WithinOrder, Zenon
        <3> QED
            BY <3>1, <3>2, <3>3, <1>2, Zenon
    <2>2. Within(MergeAll(A), MergeAll(B))
        BY <2>1, <1>4, JoinGrows, Zenon
    <2>3. Within(m.max, MergeAll(A))
        BY Zenon DEF Reports
    <2> HIDE DEF A, B
    <2> QED
        BY <2>2, <2>3, <1>1, <1>5, WithinOrder, Zenon
<1>9. Learns(m, f1, r1, ms1, cs)
    BY <1>2, <1>6, <1>7, Zenon DEF Learns
<1>10. Reports(m, ps, r1, ms1, cs)
    <2>1. Within(Nil, m.max)
        BY <1>1, WithinOrder, ZenonT(60)
    <2> QED
        BY <2>1, <1>2, <1>8, Zenon DEF Reports
<1> QED
    BY <1>9, <1>10, Zenon DEF ms1

\* A request of a machine that the server knows.
LEMMA PollTold ==
    ASSUME SyncInv, NEW v \in VMs, poll[v].pc = "sent", NEW f1, NEW r1 \in PollType,
           maxSignal' = Merge(maxSignal, poll[v].sig),
           \A u \in VMs : fuzzers'[u] = IF u = v THEN f1 ELSE Broadcast(v, Diff(maxSignal, poll[v].sig))[u],
           fuzzers' = [u \in VMs |-> fuzzers'[u]],
           poll' = [poll EXCEPT ![v] = r1], candidates' \in Nat,
           UNCHANGED <<corpusSignal, corpus, vm, proc>>,
           FuzzerOK(f1), r1.pc = "reply",
           f1.connected = fuzzers[v].connected, f1.rotated = fuzzers[v].rotated,
           Within(f1.newMaxSignal, maxSignal), Within(r1.sig, maxSignal),
           ~fuzzers[v].rotated =>
                \A c \in Signals : Within(f1.newMaxSignal, c) /\ Within(r1.sig, c)
                                    => Within(fuzzers[v].newMaxSignal, c),
           Covered(Range(r1.inputs), corpusSignal),
           ~fuzzers[v].rotated => Covered(Range(f1.inputs), corpusSignal)
    PROVE  SyncInv'
<1>1. /\ vm[v] \in VmType /\ poll[v] \in PollType /\ FuzzerOK(fuzzers[v])
      /\ maxSignal \in Signals /\ corpusSignal \in Signals
      /\ Learns(vm[v], fuzzers[v], poll[v], maxSignal, corpusSignal)
      /\ Reports(vm[v], proc[v], poll[v], maxSignal, corpusSignal)
    BY AtMachine, Zenon
<1>2. /\ Learns(vm[v], f1, r1, maxSignal', corpusSignal)
      /\ Reports(vm[v], proc[v], r1, maxSignal', corpusSignal)
    BY <1>1, PollAnswered, Zenon
<1>3. poll[v].sig \in Signals
    BY <1>1, Zenon DEF PollType
<1>4. maxSignal' \in Signals /\ Within(maxSignal, maxSignal') /\ Within(corpusSignal, corpusSignal')
    BY <1>1, <1>3, MergeIsJoin, WithinOrder, ZenonT(60)
<1>5. ASSUME NEW u \in VMs \ {v}
      PROVE  /\ FuzzerOK(fuzzers'[u])
             /\ fuzzers'[u].connected = fuzzers[u].connected
             /\ fuzzers'[u].rotated = fuzzers[u].rotated
             /\ fuzzers'[u].inputs = fuzzers[u].inputs
             /\ Within(fuzzers[u].newMaxSignal, fuzzers'[u].newMaxSignal)
             /\ Within(fuzzers'[u].newMaxSignal, maxSignal')
             /\ fuzzers[u].connected /\ ~fuzzers[u].rotated =>
                   \A c \in Signals :
                     Within(maxSignal, c) /\ Within(fuzzers'[u].newMaxSignal, c) => Within(maxSignal', c)
    <2>1. fuzzers'[u] = Broadcast(v, Diff(maxSignal, poll[v].sig))[u] /\ u # v /\ u \in VMs
        BY Zenon
    <2> QED
        BY <2>1, <1>3, BroadcastTells
<1>6. \A u \in VMs : vm'[u] = vm[u] /\ proc'[u] = proc[u] /\ poll'[u] = IF u = v THEN r1 ELSE poll[u]
    BY Zenon DEF SyncInv, SyncType
<1>7. SyncType'
    <2>1. \A u \in VMs : FuzzerOK(fuzzers'[u])
        BY <1>5, Zenon
    <2> QED
        BY <2>1, <1>4, Zenon DEF SyncInv, SyncType
<1>8. \A u \in VMs : ~fuzzers[u].rotated => Covered(Range(fuzzers[u].inputs), corpusSignal)
    BY Zenon DEF SyncInv, Learns
<1>9. Covered(corpus', corpusSignal')
    BY DEF SyncInv
<1> QED
    BY <1>2, <1>4, <1>5, <1>6, <1>7, <1>8, <1>9, ServerStep

\* The empty answer.
LEMMA NoAnswer ==
    LET r == [NoPoll EXCEPT !.pc = "reply"]
    IN r \in PollType /\ r.pc = "reply" /\ r.sig = Nil /\ Range(r.inputs) = {}
<1> DEFINE r == [NoPoll EXCEPT !.pc = "reply"]
<1>1. NoPoll \in PollType /\ NoPoll.inputs = <<>> /\ NoPoll.sig = Nil
    BY NothingType
<1>2. r \in PollType /\ r.pc = "reply" /\ r.sig = Nil /\ r.inputs = <<>>
    BY <1>1 DEF PollType
<1>3. Range(<<>>) = {}
    BY DEF Range
<1> QED
    BY <1>2, <1>3, Zenon

\* A request of a machine that has been forgotten: the machine is down.
LEMMA PollUnknownKeeps ==
    ASSUME SyncInv, NEW v \in VMs, poll[v].pc = "sent", PollUnknown(v), UNCHANGED <<vm, proc>>
    PROVE  SyncInv'
<1> DEFINE r == [NoPoll EXCEPT !.pc = "reply"]
<1>1. r \in PollType /\ r.pc = "reply" /\ r.sig = Nil /\ Range(r.inputs) = {}
    BY NoAnswer
<1>2. poll' = [poll EXCEPT ![v] = r] /\ UNCHANGED <<maxSignal, corpusSignal, candidates, fuzzers, corpus>>
    BY Zenon DEF PollUnknown, mgr
<1> HIDE DEF r
<1>3. /\ vm[v] \in VmType /\ proc[v] \in [Procs -> ProcType] /\ vm[v].new \in Signals
      /\ maxSignal \in Signals /\ corpusSignal \in Signals /\ vm[v].max \in Signals
      /\ Learns(vm[v], fuzzers[v], poll[v], maxSignal, corpusSignal)
      /\ Reports(vm[v], proc[v], poll[v], maxSignal, corpusSignal)
      /\ vm = [vm EXCEPT ![v] = vm[v]] /\ proc = [proc EXCEPT ![v] = proc[v]]
    BY AtMachine, Zenon
<1>4. ~Alive(vm[v]) /\ vm[v].max = Nil
    BY <1>3 DEF Learns, Reports, PollUnknown
<1>5. Answered(r) = Nil /\ Reporting(r) = Nil
    BY <1>1, Zenon DEF Answered, Reporting
<1>6. Learns(vm[v], fuzzers[v], r, maxSignal, corpusSignal)
    <2>1. Within(Nil, maxSignal) /\ Covered(Range(r.inputs), corpusSignal)
        BY <1>1, <1>3, WithinOrder, Zenon DEF Covered
    <2> QED
        BY <2>1, <1>3, <1>4, <1>5, Zenon DEF Learns
<1>7. Reports(vm[v], proc[v], r, maxSignal, corpusSignal)
    <2> DEFINE T == {vm[v].new, maxSignal, corpusSignal, Nil}
    <2>1. T \subseteq Signals
        BY <1>3, SignalType, ZenonT(60)
    <2>2. Within(vm[v].max, MergeAll(T))
        BY <2>1, <1>4, MergeAllIsJoin, Zenon
    <2>3. vm[v].st # "connecting"
        BY <1>3 DEF Reports
    <2> QED
        BY <2>2, <2>3, <1>3, <1>4, <1>5, Zenon DEF Reports
<1> QED
    BY <1>1, <1>2, <1>3, <1>6, <1>7, MachineStep, Zenon

\* A request of a rotated machine: it is told nothing.
LEMMA PollRotatedKeeps ==
    ASSUME SyncInv, NEW v \in VMs, poll[v].pc = "sent", PollRotated(v), UNCHANGED <<vm, proc>>
    PROVE  SyncInv'
<1> DEFINE r == [NoPoll EXCEPT !.pc = "reply"]
           new == Diff(maxSignal, poll[v].sig)
<1>1. r \in PollType /\ r.pc = "reply" /\ r.sig = Nil /\ Range(r.inputs) = {}
    BY NoAnswer
<1>2. /\ poll' = [poll EXCEPT ![v] = r] /\ maxSignal' = Merge(maxSignal, poll[v].sig)
      /\ fuzzers' = Broadcast(v, new) /\ fuzzers[v].rotated
      /\ UNCHANGED <<corpusSignal, corpus, candidates>>
    BY DEF PollRotated
<1> HIDE DEF r
<1>3. /\ poll[v].sig \in Signals /\ FuzzerOK(fuzzers[v]) /\ maxSignal \in Signals
      /\ Within(fuzzers[v].newMaxSignal, maxSignal)
    BY AtMachine, Zenon DEF PollType, Learns
<1>4. Broadcast(v, new)[v] = fuzzers[v]
    BY DEF Broadcast
<1>5. fuzzers' = [u \in VMs |-> fuzzers'[u]]
    BY <1>2 DEF Broadcast
<1>6. \A u \in VMs : fuzzers'[u] = IF u = v THEN fuzzers[v] ELSE Broadcast(v, new)[u]
    BY <1>2, <1>4, Zenon
<1>7. Within(r.sig, maxSignal) /\ Covered(Range(r.inputs), corpusSignal)
    BY <1>1, <1>3, WithinOrder, Zenon DEF Covered
<1>8. candidates' \in Nat
    BY <1>2, Zenon DEF SyncInv, SyncType
<1> QED
    BY <1>1, <1>2, <1>3, <1>5, <1>6, <1>7, <1>8, PollTold, Zenon

\* What is left of a Fuzzer when signal and inputs have been taken from it.
LEMMA FuzzerServed ==
    ASSUME NEW f, FuzzerOK(f), ~f.rotated, NEW E, NEW n \in 0 .. Len(f.inputs)
    PROVE  LET f1 == [f EXCEPT !.newMaxSignal = SplitRest(@, E), !.inputs = SubSeq(@, 1, Len(@) - n)]
           IN /\ FuzzerOK(f1) /\ f1.connected = f.connected /\ f1.rotated = f.rotated
              /\ f1.newMaxSignal = SplitRest(f.newMaxSignal, E)
              /\ Range(f1.inputs) \subseteq Range(f.inputs)
              /\ LastInputs(f.inputs, n) \in Seq(Inputs)
              /\ Range(LastInputs(f.inputs, n)) \subseteq Range(f.inputs)
<1> DEFINE q == f.inputs
           rest == SubSeq(q, 1, Len(q) - n)
           last == SubSeq(q, Len(q) - n + 1, Len(q))
           left == SplitRest(f.newMaxSignal, E)
           f1 == [f EXCEPT !.newMaxSignal = SplitRest(@, E), !.inputs = SubSeq(@, 1, Len(@) - n)]
<1>1. q \in Seq(Inputs) /\ f.newMaxSignal \in Signals
    BY DEF FuzzerOK
<1>2. left \in Signals
    BY <1>1, OnlyIsPart, Zenon DEF SplitRest
<1>3. /\ f1.connected = f.connected /\ f1.rotated = f.rotated /\ f1.newMaxSignal = left /\ f1.inputs = rest
      /\ f1 = [connected |-> f1.connected, rotated |-> f1.rotated, inputs |-> f1.inputs,
               newMaxSignal |-> f1.newMaxSignal, rotatedSignal |-> f1.rotatedSignal]
    <2>1. f1 = [f EXCEPT !.newMaxSignal = left, !.inputs = rest]
        BY Zenon
    <2> HIDE DEF left, rest, f1
    <2> QED
        BY <2>1, Zenon DEF FuzzerOK
<1>4. Len(q) \in Nat /\ n \in Nat /\ n <= Len(q) /\ DOMAIN q = 1 .. Len(q)
    BY <1>1
<1> HIDE DEF q
<1>5. rest \in Seq(Inputs) /\ \A i \in DOMAIN rest : i \in DOMAIN q /\ rest[i] = q[i]
    BY <1>1, <1>4
<1>6. last \in Seq(Inputs) /\ \A i \in DOMAIN last : (i + Len(q) - n) \in DOMAIN q /\ last[i] = q[i + Len(q) - n]
    <2> DEFINE a == Len(q) - n + 1
    <2>1. a \in 1 .. Len(q) + 1
        BY <1>4
    <2>2. last = SubSeq(q, a, Len(q)) /\ Len(q) - a + 1 = n
        BY <1>4
    <2>3. last \in Seq(Inputs) /\ DOMAIN last = 1 .. n
        BY <2>1, <2>2, <1>1, <1>4
    <2>4. \A i \in 1 .. n : last[i] = q[a + i - 1]
        BY <2>1, <2>2, <1>1, <1>4
    <2>5. \A i \in 1 .. n : a + i - 1 = i + Len(q) - n /\ i + Len(q) - n \in 1 .. Len(q)
        BY <1>4
    <2> HIDE DEF last, a
    <2> QED
        BY <2>3, <2>4, <2>5, <1>4, Zenon
<1> HIDE DEF rest, last
<1>7. Range(rest) \subseteq Range(q) /\ Range(last) \subseteq Range(q)
    BY <1>5, <1>6, Zenon DEF Range
<1> HIDE DEF f1, left
<1>8. FuzzerOK(f1)
    BY <1>2, <1>3, <1>5, Zenon DEF FuzzerOK
<1> QED
    BY <1>3, <1>6, <1>7, <1>8, Zenon DEF q, rest, last, left, f1, LastInputs

\* A request of any other machine: what is taken from its Fuzzer is in the answer.
LEMMA PollServedKeeps ==
    ASSUME SyncInv, NEW v \in VMs, poll[v].pc = "sent", PollServed(v), UNCHANGED <<vm, proc>>
    PROVE  SyncInv'
<1> DEFINE f == fuzzers[v]
           k == IF poll[v].need THEN BatchOf(candidates) ELSE 0
           batch == IF poll[v].initial THEN Max({batchSize, initialBatch}) ELSE batchSize
           n == IF k = 0 THEN Min({batch, Len(f.inputs)}) ELSE 0
           new == Diff(maxSignal, poll[v].sig)
<1>1. PICK E :
        /\ fuzzers' = [Broadcast(v, new) EXCEPT ![v].newMaxSignal = SplitRest(@, E),
                                               ![v].inputs = SubSeq(@, 1, Len(@) - n)]
        /\ poll' = [poll EXCEPT ![v] =
                      [NoPoll EXCEPT !.pc = "reply", !.sig = Only(f.newMaxSignal, E),
                                     !.inputs = LastInputs(f.inputs, n), !.ncand = k]]
    BY Zenon DEF PollServed
<1>2. /\ ~f.rotated /\ maxSignal' = Merge(maxSignal, poll[v].sig)
      /\ IF poll[v].need THEN candidateBatch(k) ELSE UNCHANGED <<candidates, phase>>
      /\ UNCHANGED <<corpusSignal, corpus>>
    BY DEF PollServed
<1>3. /\ poll[v] \in PollType /\ FuzzerOK(f) /\ maxSignal \in Signals /\ corpusSignal \in Signals
      /\ Within(f.newMaxSignal, maxSignal) /\ Covered(Range(f.inputs), corpusSignal)
    BY <1>2, AtMachine, Zenon DEF Learns
<1>4. candidates \in Nat /\ batchSize \in Nat /\ initialBatch \in Nat
    BY SyncAssumption DEF SyncInv, SyncType, SyncAssumption
<1>5. f.inputs \in Seq(Inputs) /\ f.newMaxSignal \in Signals
    BY <1>2, <1>3, Zenon DEF FuzzerOK
<1>6. k \in 0 .. candidates
    <2>1. BatchOf(candidates) \in 0 .. candidates
        BY <1>4, BatchTaken, Zenon
    <2> QED
        BY <2>1, <1>4
<1>7. n \in 0 .. Len(f.inputs)
    <2>1. batch \in Nat
        BY <1>4, MinMaxOfTwo, Zenon
    <2>2. Len(f.inputs) \in Nat
        BY <1>5
    <2> HIDE DEF batch, f, k
    <2>3. Min({batch, Len(f.inputs)}) \in 0 .. Len(f.inputs)
        BY <2>1, <2>2, MinMaxOfTwo
    <2> QED
        BY <2>2, <2>3
<1>8. candidates' \in Nat
    BY <1>2, <1>4, <1>6 DEF candidateBatch
<1> DEFINE f1 == [f EXCEPT !.newMaxSignal = SplitRest(@, E), !.inputs = SubSeq(@, 1, Len(@) - n)]
           r == [NoPoll EXCEPT !.pc = "reply", !.sig = Only(f.newMaxSignal, E),
                               !.inputs = LastInputs(f.inputs, n), !.ncand = k]
<1> HIDE DEF n, k
<1>9. /\ FuzzerOK(f1) /\ f1.connected = f.connected /\ f1.rotated = f.rotated
      /\ f1.newMaxSignal = SplitRest(f.newMaxSignal, E)
      /\ Range(f1.inputs) \subseteq Range(f.inputs)
      /\ LastInputs(f.inputs, n) \in Seq(Inputs)
      /\ Range(LastInputs(f.inputs, n)) \subseteq Range(f.inputs)
    BY <1>2, <1>3, <1>7, FuzzerServed, Zenon
<1>10. /\ Only(f.newMaxSignal, E) \in Signals /\ SplitRest(f.newMaxSignal, E) \in Signals
       /\ Within(Only(f.newMaxSignal, E), f.newMaxSignal) /\ Within(SplitRest(f.newMaxSignal, E), f.newMaxSignal)
       /\ \A c \in Signals : Within(SplitRest(f.newMaxSignal, E), c) /\ Within(Only(f.newMaxSignal, E), c)
                                => Within(f.newMaxSignal, c)
    BY <1>5, OnlyIsPart, Zenon DEF SplitRest
<1>11. /\ r \in PollType /\ r.pc = "reply" /\ r.sig = Only(f.newMaxSignal, E)
       /\ r.inputs = LastInputs(f.inputs, n)
    <2>1. NoPoll \in PollType
        BY NothingType, Zenon
    <2>2. k \in Nat
        BY <1>4, <1>6
    <2> QED
        BY <2>1, <2>2, <1>9, <1>10, Zenon DEF PollType
<1>12. poll' = [poll EXCEPT ![v] = r]
    BY <1>1
<1>13. /\ fuzzers' = [u \in VMs |-> fuzzers'[u]]
       /\ \A u \in VMs : fuzzers'[u] = IF u = v THEN f1 ELSE Broadcast(v, new)[u]
    <2>1. Broadcast(v, new)[v] = f /\ Broadcast(v, new) = [u \in VMs |-> Broadcast(v, new)[u]]
        BY Zenon DEF Broadcast
    <2> HIDE DEF new
    <2> QED
        BY <2>1, <1>1, Zenon
<1> HIDE DEF f1, r
<1>14. /\ Within(f1.newMaxSignal, maxSignal) /\ Within(r.sig, maxSignal)
       /\ Covered(Range(r.inputs), corpusSignal) /\ Covered(Range(f1.inputs), corpusSignal)
    <2> DEFINE kept == SplitRest(f.newMaxSignal, E)
               sent == Only(f.newMaxSignal, E)
    <2> HIDE DEF f
    <2>1. Within(kept, maxSignal) /\ Within(sent, maxSignal)
        <3>1. kept \in Signals /\ sent \in Signals
              /\ Within(kept, f.newMaxSignal) /\ Within(sent, f.newMaxSignal)
            BY <1>10, Zenon
        <3> HIDE DEF kept, sent
        <3> QED
            BY <3>1, <1>3, <1>5, WithinOrder, Zenon
    <2>2. Within(f1.newMaxSignal, maxSignal) /\ Within(r.sig, maxSignal)
        BY <2>1, <1>9, <1>11, Zenon
    <2> QED
        BY <2>2, <1>3, <1>9, <1>11, Zenon DEF Covered
<1>15. \A c \in Signals : Within(f1.newMaxSignal, c) /\ Within(r.sig, c) => Within(f.newMaxSignal, c)
    BY <1>9, <1>10, <1>11, Zenon
<1> QED
    BY <1>2, <1>8, <1>9, <1>11, <1>12, <1>13, <1>14, <1>15, PollTold, Zenon

-----------------------------------------------------------------------------
(* The theorems.                                                            *)

\* Every step keeps the invariant.
LEMMA SyncNext == SyncInv /\ [Next]_vars => SyncInv'
<1> SUFFICES ASSUME SyncInv, [Next]_vars PROVE SyncInv'
    OBVIOUS
<1>1. CASE UNCHANGED vars
    <2>1. UNCHANGED <<maxSignal, corpusSignal, corpus, candidates, fuzzers, vm, proc, poll>>
        BY <1>1, Zenon DEF vars, mgr
    <2>2. SyncType'
        BY <2>1, Zenon DEF SyncInv, SyncType
    <2> QED
        BY <2>1, <2>2, Zenon DEF SyncInv
<1>2. ASSUME NEW v \in VMs, Step(v) PROVE SyncInv'
    <2>1. CASE fuzzerConnect(v)
        BY <2>1, fuzzerConnectKeeps
    <2>2. CASE Connect(v)
        BY <2>2, ConnectKeeps, Zenon
    <2>3. CASE PollSend(v)
        BY <2>3, PollSendKeeps
    <2>4. CASE Poll(v)
        <3>1. poll[v].pc = "sent" /\ UNCHANGED <<vm, proc>>
            BY <2>4, Zenon DEF Poll
        <3>2. PollUnknown(v) \/ PollRotated(v) \/ PollServed(v)
            BY <2>4, Zenon DEF Poll
        <3> QED
            BY <3>1, <3>2, PollUnknownKeeps, PollRotatedKeeps, PollServedKeeps, Zenon
    <2>5. CASE PollReply(v)
        BY <2>5, PollReplyKeeps
    <2>6. ASSUME NEW p \in Procs, Execute(v, p) PROVE SyncInv'
        BY <2>6, ExecuteKeeps
    <2>7. ASSUME NEW p \in Procs, MergeNew(v, p) PROVE SyncInv'
        BY <2>7, MergeNewKeeps, Zenon
    <2>8. ASSUME NEW p \in Procs, triageInput(v, p) PROVE SyncInv'
        BY <2>8, triageInputKeeps
    <2>9. ASSUME NEW p \in Procs, NewInput(v, p) PROVE SyncInv'
        BY <2>9, NewInputKeeps
    <2>10. ASSUME NEW p \in Procs, AddInput(v, p) PROVE SyncInv'
        BY <2>10, AddInputKeeps
    <2>11. CASE Crash(v)
        BY <2>11, CrashKeeps
    <2>12. CASE shutdownInstance(v)
        BY <2>12, shutdownInstanceKeeps
    <2> QED
        BY <1>2, <2>1, <2>2, <2>3, <2>4, <2>5, <2>6, <2>7, <2>8, <2>9, <2>10, <2>11, <2>12, Zenon
           DEF Step, Sync
<1> QED
    BY <1>1, <1>2, Zenon DEF Next

\* The invariant holds in every state: among others, the signal of every program in
\* the corpus is in the corpus signal.
THEOREM SyncInvariant == Spec => []SyncInv
<1> QED
    BY SyncInit, SyncNext, PTL DEF Spec

\* Connect() and Poll() lose none of the signal that the server has: what a fuzzer that
\* is not rotated does not know waits for it, or is in an answer.
THEOREM SignalOnItsWay == Spec => []MaxSignalOnItsWay
<1>1. SyncInv => MaxSignalOnItsWay
    <2> SUFFICES ASSUME SyncInv, NEW v \in VMs, Up(v), ~fuzzers[v].rotated
                 PROVE  Within(maxSignal, MergeAll({vm[v].max, fuzzers[v].newMaxSignal, InReply(v)}))
        BY Zenon DEF MaxSignalOnItsWay
    <2>1. Alive(vm[v]) /\ Learns(vm[v], fuzzers[v], poll[v], maxSignal, corpusSignal)
        BY AtMachine, Zenon
    <2>2. InReply(v) = Answered(poll[v])
        BY Zenon DEF InReply, Answered
    <2> QED
        BY <2>1, <2>2, Zenon DEF Learns
<1> QED
    BY <1>1, SyncInvariant, PTL

\* What a fuzzer never reports again, because it is in its maxSignal, the manager
\* knows, or it is in a request or waits for the next one.
THEOREM AllReported == Spec => []NothingUnreported
<1>1. SyncInv => NothingUnreported
    <2> SUFFICES ASSUME SyncInv, NEW v \in VMs, Up(v)
                 PROVE  Within(vm[v].max, MergeAll({vm[v].new, maxSignal, corpusSignal,
                                                    IF poll[v].pc = "sent" THEN poll[v].sig ELSE Nil}))
        BY Zenon DEF NothingUnreported
    <2>1. Reports(vm[v], proc[v], poll[v], maxSignal, corpusSignal)
        BY AtMachine, Zenon
    <2> QED
        BY <2>1, Zenon DEF Reports, Reporting
<1> QED
    BY <1>1, SyncInvariant, PTL

\* A corpus that has, for each element of each input of another, an input with as high
\* a priority covers as much.
LEMMA CoversAsMuch ==
    ASSUME NEW A \in SUBSET Inputs, NEW B \in SUBSET Inputs,
           \A i \in A, e \in Elems : i.sig[e] # absent => \E j \in B : i.sig[e] <= j.sig[e]
    PROVE  Within(MergeAll({i.sig : i \in A}), MergeAll({i.sig : i \in B}))
<1> DEFINE S == {i.sig : i \in A}
           T == {i.sig : i \in B}
<1>1. S \subseteq Signals /\ T \subseteq Signals
    BY DEF Inputs
<1>2. MergeAll(T) \in Signals /\ \A a \in T : Within(a, MergeAll(T))
    BY <1>1, MergeAllIsJoin, Zenon
<1>3. ASSUME NEW i \in A PROVE Within(i.sig, MergeAll(T))
    <2>1. ASSUME NEW e \in Elems PROVE i.sig[e] <= MergeAll(T)[e]
        <3>1. i.sig \in Signals
            BY <1>1, Zenon
        <3>2. i.sig[e] \in Int /\ MergeAll(T)[e] \in Int /\ -1 <= MergeAll(T)[e]
            BY <3>1, <1>2, SignalType, Zenon
        <3>3. CASE i.sig[e] = absent
            BY <3>2, <3>3, Zenon DEF absent
        <3>4. CASE i.sig[e] # absent
            <4>1. PICK j \in B : i.sig[e] <= j.sig[e]
                BY <3>4
            <4>2. j.sig \in T /\ j.sig \in Signals
                BY <1>1, Zenon
            <4>3. Within(j.sig, MergeAll(T))
                BY <4>2, <1>2, Zenon
            <4>4. j.sig[e] <= MergeAll(T)[e] /\ j.sig[e] \in Int
                BY <4>2, <4>3, SignalType, Zenon DEF Within
            <4> QED
                BY <4>1, <4>4, <3>2
        <3> QED
            BY <3>3, <3>4, Zenon
    <2> QED
        BY <2>1, Zenon DEF Within
<1>4. \A a \in S : Within(a, MergeAll(T))
    BY <1>3, Zenon
<1> HIDE DEF S, T
<1>5. Within(MergeAll(S), MergeAll(T))
    BY <1>1, <1>4, JoinGrows, Zenon
<1> QED
    BY <1>5, Zenon DEF S, T

\* NewInput() loses nothing of the corpus: the signal that the program had is merged.
LEMMA NewInputCovers ==
    ASSUME SyncInv, NEW v \in VMs, NEW p \in Procs, NewInput(v, p)
    PROVE  Within(MergeAll({i.sig : i \in corpus}), MergeAll({i.sig : i \in corpus'}))
<1>1. corpus \in SUBSET Inputs /\ corpus' \in SUBSET Inputs
    BY NewInputServer, Zenon DEF SyncInv, SyncType
<1>2. ASSUME NEW i \in corpus PROVE \E j \in corpus' : Within(i.sig, j.sig)
    <2>1. i.sig \in Signals /\ Within(i.sig, i.sig)
        BY <1>1, WithinOrder DEF Inputs
    <2>2. CASE corpus' = corpus
        BY <2>1, <2>2, Zenon
    <2> DEFINE g == proc[v][p].prog
               s == proc[v][p].sig
               S == {s} \cup {k.sig : k \in {j \in corpus : j.prog = g}}
    <2>3. CASE corpus' = newInput(g, MergeAll(S))
        <3>1. i.prog # g => i \in corpus'
            BY <2>3, Zenon DEF newInput
        <3>2. [prog |-> g, sig |-> MergeAll(S)] \in corpus'
            BY <2>3 DEF newInput
        <3>3. ASSUME i.prog = g PROVE Within(i.sig, MergeAll(S))
            <4>1. S \subseteq Signals /\ i.sig \in S
                BY <3>3, <1>1, AtProcess, Zenon DEF Inputs
            <4> QED
                BY <4>1, MergeAllIsJoin, Zenon
        <3> HIDE DEF S
        <3>4. [prog |-> g, sig |-> MergeAll(S)].sig = MergeAll(S)
            OBVIOUS
        <3>5. CASE i.prog = g
            BY <3>2, <3>3, <3>4, <3>5, Zenon
        <3>6. CASE i.prog # g
            BY <3>1, <3>6, <2>1, Zenon
        <3> QED
            BY <3>5, <3>6, Zenon
    <2> QED
        BY <2>2, <2>3, Zenon DEF NewInput
<1>3. \A i \in corpus, e \in Elems : \E j \in corpus' : i.sig[e] <= j.sig[e]
    BY <1>2, Zenon DEF Within
<1> QED
    BY <1>1, <1>3, CoversAsMuch, Zenon

\* Neither does fuzzerConnect(), which minimizes it.
LEMMA fuzzerConnectCovers ==
    ASSUME SyncInv, NEW v \in VMs, fuzzerConnect(v)
    PROVE  Within(MergeAll({i.sig : i \in corpus}), MergeAll({i.sig : i \in corpus'}))
<1>1. corpus \in SUBSET Inputs
    BY DEF SyncInv, SyncType
<1>2. PICK order \in Orders(corpus) : corpus' \in {Minimize(order), corpus}
    BY Zenon DEF fuzzerConnect
<1>3. corpus' \in SUBSET Inputs
    BY <1>1, <1>2, MinimizeKeepsCoverage, Zenon
<1>4. CASE corpus' = Minimize(order)
    BY <1>1, <1>2, <1>3, <1>4, MinimizeKeepsCoverage, CoversAsMuch, Zenon
<1>5. CASE corpus' = corpus
    <2>1. {i.sig : i \in corpus} \subseteq Signals
        BY <1>1 DEF Inputs
    <2> QED
        BY <2>1, <1>5, MergeAllIsJoin, WithinOrder, Zenon
<1> QED
    BY <1>2, <1>4, <1>5, Zenon

\* The comment in rotateCorpus() holds: no step takes anything away from the server's
\* signal, or from what the programs in the corpus cover together.
THEOREM NothingDropped == Spec => NothingDroppedGlobally
<1> DEFINE Kept == /\ Within(maxSignal, maxSignal') /\ Within(corpusSignal, corpusSignal')
                   /\ Within(MergeAll({i.sig : i \in corpus}), MergeAll({i.sig : i \in corpus'}))
<1>1. ASSUME SyncInv, Next PROVE Kept
    <2>1. PICK v \in VMs : Step(v)
        BY <1>1, Zenon DEF Next
    <2>2. /\ maxSignal \in Signals /\ corpusSignal \in Signals /\ poll[v].sig \in Signals
          /\ {i.sig : i \in corpus} \subseteq Signals
        BY <1>1, AtMachine DEF SyncInv, SyncType, Inputs, PollType
    <2>3. /\ Within(maxSignal, maxSignal) /\ Within(corpusSignal, corpusSignal)
          /\ Within(maxSignal, Merge(maxSignal, poll[v].sig))
          /\ Within(MergeAll({i.sig : i \in corpus}), MergeAll({i.sig : i \in corpus}))
        BY <2>2, WithinOrder, MergeIsJoin, MergeAllIsJoin, Zenon
    <2>4. ASSUME NEW p \in Procs, NewInput(v, p) PROVE Kept
        <3>1. maxSignal' = maxSignal
            BY <2>4 DEF NewInput
        <3>2. Within(corpusSignal, corpusSignal')
            BY <2>4, <1>1, NewInputServer, Zenon
        <3> QED
            BY <3>1, <3>2, <2>3, <2>4, <1>1, NewInputCovers, ZenonT(60)
    <2>5. CASE fuzzerConnect(v)
        <3>1. maxSignal' = maxSignal /\ corpusSignal' = corpusSignal
            BY <2>5, Zenon DEF fuzzerConnect
        <3> QED
            BY <3>1, <2>3, <2>5, <1>1, fuzzerConnectCovers, Zenon
    <2>6. CASE Poll(v)
        <3>1. corpusSignal' = corpusSignal /\ corpus' = corpus
            BY <2>6, Zenon DEF Poll, PollUnknown, PollRotated, PollServed, mgr
        <3>2. maxSignal' \in {maxSignal, Merge(maxSignal, poll[v].sig)}
            BY <2>6, Zenon DEF Poll, PollUnknown, PollRotated, PollServed, mgr
        <3> QED
            BY <3>1, <3>2, <2>3, Zenon
    <2>7. CASE UNCHANGED <<maxSignal, corpusSignal, corpus>>
        BY <2>7, <2>3, Zenon
    <2>8. ~Poll(v) /\ ~fuzzerConnect(v) /\ (\A p \in Procs : ~NewInput(v, p))
            => UNCHANGED <<maxSignal, corpusSignal, corpus>>
        BY <2>1, Zenon DEF Step, Sync, Connect, rotateCorpus, Register, PollSend, PollReply, Execute, MergeNew,
                    triageInput, AddInput, Crash, shutdownInstance, mgr
    <2> QED
        BY <2>4, <2>5, <2>6, <2>7, <2>8, Zenon
<1> HIDE DEF Kept
<1>2. SyncInv /\ [Next]_vars => [Kept]_vars
    BY <1>1, Zenon
<1> USE DEF Kept
<1> QED
    BY <1>2, SyncInvariant, PTL DEF Spec, NothingDroppedGlobally
=============================================================================
