------------------------------ MODULE Knotter ------------------------------
(***************************************************************************)
(* How two traces of memory accesses become hints (pkg/scheduler,           *)
(* pkg/interleaving): accesses that communicate, pairs of communications    *)
(* that a reordering could turn around, and hints that group those pairs by *)
(* their critical communication.                                            *)
(*                                                                         *)
(* The computation is a pure function of the two traces, so the module is   *)
(* operators, and a state machine that records the traces as the kernel     *)
(* does, the first call's before the second's.  Go maps are sets here: that *)
(* their order is irrelevant is one of the properties.  A hash stands for   *)
(* what it is a hash of.                                                    *)
(***************************************************************************)
EXTENDS Integers, SequencesExt, FiniteSets

CONSTANTS Kernels,      \* for the k-th call, code[k]: the accesses it may make, and
                        \* max[k]: a bound on the length of its trace
          MAX_LOCK_COUNT,
          loopAllowed   \* the dynamic instances of an instruction that count

VARIABLES kernel,       \* what the calls execute
          traces        \* the two traces, in the order of the contenders

vars == <<kernel, traces>>

IsMemory(acc) == acc.typ \in {"load", "store"}
wordify(addr) == 8 * (addr \div 8)
Overlapped(a, b) == ~(b.addr + b.size - 1 < a.addr \/ b.addr > a.addr + a.size - 1)

\* copySeq(): s0 was executed first, by thread `first'.
copySeq(s0, s1, first) ==
    LET stamped(s, from, t) ==
            [i \in 1 .. Len(s) |-> [inst |-> s[i].inst, addr |-> s[i].addr, size |-> s[i].size,
                                    typ |-> s[i].typ, timestamp |-> from + i - 1, thread |-> t]]
    IN  <<stamped(s0, 0, first), stamped(s1, Len(s0), 1 - first)>>

-----------------------------------------------------------------------------
\* collectCommChans(): only words that are stored to are communication channels.
CommChans(seq) ==
    {wordify(acc.addr) : acc \in {a \in ToSet(seq[1]) \cup ToSet(seq[2]) : a.typ = "store"}}

\* distillSerial(): accesses to channels, of the allowed dynamic instances only,
\* and everything that is not a memory access.
distillSerial(serial, chans) ==
    LET counts(i) == IsMemory(serial[i]) /\ wordify(serial[i].addr) \in chans
        loopCnt(i) == Cardinality({j \in 1 .. i : counts(j) /\ serial[j].inst = serial[i].inst})
        kept == {i \in 1 .. Len(serial) :
                    ~IsMemory(serial[i]) \/ (counts(i) /\ loopCnt(i) \in loopAllowed)}
    IN  FoldLeft(LAMBDA s, i : Append(s, serial[i]), <<>>, SetToSortSeq(kept, <))

\* Mutant: a release empties the stack.
Release_all(stack, lock) == <<>>

\* A lock is released with those acquired after it; one that is not held, with all.
Release(stack, lock) ==
    LET at == {i \in 1 .. Len(stack) : stack[i] = lock}
    IN  IF at = {} THEN <<>> ELSE SubSeq(stack, 1, (CHOOSE i \in at : \A j \in at : j <= i) - 1)

\* The stack of locks after the first n accesses of a trace.
LockStack(serial, n) ==
    LET stack[i \in 0 .. n] ==
            IF i = 0 THEN <<>>
            ELSE CASE serial[i].typ = "acquire" ->
                          IF Len(stack[i - 1]) < MAX_LOCK_COUNT
                          THEN Append(stack[i - 1], serial[i].addr) ELSE stack[i - 1]
                   [] serial[i].typ = "release" -> Release(stack[i - 1], serial[i].addr)
                   [] OTHER -> stack[i - 1]
    IN  stack[n]

\* The maps of annotateLocks() and chunknizeSerials() are by instruction: the last
\* access of an instruction decides.
LastOf(serial, inst) ==
    CHOOSE i \in 1 .. Len(serial) :
        /\ IsMemory(serial[i]) /\ serial[i].inst = inst
        /\ \A j \in i + 1 .. Len(serial) : ~(IsMemory(serial[j]) /\ serial[j].inst = inst)

locks(serial, inst) == ToSet(LockStack(serial, LastOf(serial, inst)))

Chunk(serial, inst, typ) ==
    Cardinality({i \in 1 .. LastOf(serial, inst) : serial[i].typ = typ})
\* Mutant: a store barrier does not end a chunk.
storeChunks_fence(serial, inst) == Chunk(serial, inst, "lfence")

storeChunks(serial, inst) == Chunk(serial, inst, "flush")
loadChunks(serial, inst) == Chunk(serial, inst, "lfence")

-----------------------------------------------------------------------------
Former(comm) == comm[1]
Latter(comm) == comm[2]
CommHash(comm) == <<Former(comm).inst, Latter(comm).inst>>

\* The distilled trace of the thread that an access is of.
SerialOf(seq, acc) == seq[CHOOSE k \in {1, 2} : acc \in ToSet(seq[k])]

lockContending(seq, a, b) ==
    locks(SerialOf(seq, a), a.inst) \cap locks(SerialOf(seq, b), b.inst) # {}

\* formCommunicationAddr(): an access of one thread and a later one of the other to
\* the same word, one a load and one a store, that no common lock orders.
AllCommunications(seq) ==
    LET accs(k) == {a \in ToSet(seq[k]) : IsMemory(a)}
    IN  {c \in accs(1) \X accs(2) :
            /\ wordify(c[1].addr) = wordify(c[2].addr)
            /\ c[1].typ # c[2].typ
            /\ Overlapped(c[1], c[2])
            /\ ~lockContending(seq, c[1], c[2])}

\* duppedComm(): one communication for each hash.
formCommunications(seq) ==
    LET all == AllCommunications(seq)
    IN  {CHOOSE c \in all : CommHash(c) = h : h \in {CommHash(c) : c \in all}}

\* Mutant: the inner and the outer communication are mixed up.
canonicalize_inner(c, d) ==
    LET swap == Former(c).timestamp > Former(d).timestamp
        knot == IF swap THEN <<d, c>> ELSE <<c, d>>
    IN  IF Latter(knot[1]).timestamp < Latter(knot[2]).timestamp THEN {knot} ELSE {}

\* canonicalize(), for two communications in the order they are met: the outer one,
\* whose former access is earlier and whose latter access is not, comes first.
canonicalize(c, d) ==
    LET swap == Former(c).timestamp > Former(d).timestamp
        knot == IF swap THEN <<d, c>> ELSE <<c, d>>
    IN  IF Latter(knot[1]).timestamp < Latter(knot[2]).timestamp THEN {} ELSE {knot}

\* Mutant: two communications of the same address may form a knot.
formKnotSingle_same(knot) == {knot}

formKnotSingle(knot) ==
    IF Former(knot[1]).addr = Former(knot[2]).addr THEN {} ELSE {knot}

\* formKnots(), with what each knot can test: a store barrier, or else a load barrier.
KnotsOf(seq, c, d) ==
    LET same(chunks(_, _), a, b) ==
            chunks(SerialOf(seq, a), a.inst) = chunks(SerialOf(seq, b), b.inst)
        typ(k) == CASE same(storeChunks, Former(k[1]), Former(k[2])) -> "store"
                    [] same(loadChunks, Latter(k[1]), Latter(k[2])) -> "load"
                    [] OTHER -> "none"
    IN  {[knot |-> k, typ |-> typ(k)] :
            k \in {x \in UNION {formKnotSingle(y) : y \in canonicalize(c, d)} : typ(x) # "none"}}

formKnots(seq, comms) ==
    UNION {KnotsOf(seq, x[1], x[2]) : x \in {y \in comms \X comms : y[1] # y[2]}}

-----------------------------------------------------------------------------
\* The last access to each address.
LastPerAddr(accs) ==
    {a \in accs : \A b \in accs : b.addr = a.addr => b.timestamp <= a.timestamp}

Wanted(hint) == IF hint.typ = "store" THEN {a \in hint.preceding : a.typ = "store"}
                                      ELSE {a \in hint.following : a.typ = "load"}

\* The hint of a critical communication and a type, before it is checked.
AggregatedHint(grouped, crit, typ) ==
    [preceding |-> LastPerAddr({Former(k.knot[1]) : k \in grouped}),
     following |-> LastPerAddr({Latter(k.knot[1]) : k \in grouped}),
     crit |-> crit, typ |-> typ]

Grouped(knots, crit, typ) == {k \in knots : k.typ = typ /\ k.knot[2] = crit}

sanitizeHint(hint) == Wanted(hint) # {}

\* computeHints(): of traces of which the first was executed first.
computeHints(seq0) ==
    LET chans == CommChans(seq0)
        seq == <<distillSerial(seq0[1], chans), distillSerial(seq0[2], chans)>>
        knots == formKnots(seq, formCommunications(seq))
        all == {AggregatedHint(Grouped(knots, k.knot[2], k.typ), k.knot[2], k.typ) : k \in knots}
    IN  {h \in all : sanitizeHint(h)}

\* ComputeHints0() looks at both orders of the calls, ComputeHints() at one.
ComputeHints0(seq) == computeHints(copySeq(seq[1], seq[2], 0)) \cup
                      computeHints(copySeq(seq[2], seq[1], 1))
ComputeHints(seq) == computeHints(copySeq(seq[1], seq[2], 0))

\* executeThreading(): the contenders run in either order.  Both times their traces
\* are taken in the order of the contenders.
executeThreading(forward, reversed) == ComputeHints(forward) \cup ComputeHints(reversed)

\* Coverage() and Select().
Pivot(hint) == IF hint.typ = "store" THEN Former(hint.crit) ELSE Latter(hint.crit)
Moved(hint) == IF hint.typ = "store" THEN hint.preceding ELSE hint.following
Coverage(hint) == {<<Pivot(hint).inst, a.inst>> : a \in Moved(hint)}
Select(s1, s2) ==
    {h \in s1 : Coverage(h) \cap UNION {Coverage(g) : g \in s2} # {}}

\* generateFlushVectorForHint(): the instructions to delay, and the critical one,
\* unless it is among them.
FlushTable(hint) ==
    LET delayed == {a.inst : a \in Moved(hint)}
    IN  [i \in delayed \cup {Pivot(hint).inst} |-> IF i \in delayed THEN 0 ELSE 1]

-----------------------------------------------------------------------------
Init == kernel \in Kernels /\ traces = <<<<>>, <<>>>>

\* How often a lock is acquired, or released, in part of a trace.
Count(s, from, to, typ, lock) ==
    Cardinality({n \in from .. to : s[n].typ = typ /\ s[n].addr = lock})
Holds(s, lock) ==
    Count(s, 1, Len(s), "acquire", lock) > Count(s, 1, Len(s), "release", lock)

\* The kernel records an access of the k-th call.  It releases only what it holds.
Record(k, acc) ==
    /\ Len(traces[k]) < kernel.max[k]
    /\ k = 1 => traces[2] = <<>>
    /\ acc.typ = "release" => Holds(traces[k], acc.addr)
    /\ traces' = [traces EXCEPT ![k] = Append(@, acc)]
    /\ UNCHANGED kernel

Next == \E k \in {1, 2} : \E acc \in kernel.code[k] : Record(k, acc)

Spec == Init /\ [][Next]_vars

-----------------------------------------------------------------------------
Seq0 == copySeq(traces[1], traces[2], 0)
Distilled == <<distillSerial(Seq0[1], CommChans(Seq0)), distillSerial(Seq0[2], CommChans(Seq0))>>
\* Both traces; an access with timestamp n is at position n + 1.
Raw == traces[1] \o traces[2]
Between(a, b, typ) == \E n \in a.timestamp + 1 .. b.timestamp - 1 : Raw[n + 1].typ = typ

\* A hint only asks for reorderings the kernel's barriers allow: what is to be
\* delayed comes before the critical access in the same call, with no barrier of
\* that kind between them in the whole trace, of which the knotter keeps a part.
BarriersRespected ==
    \A h \in ComputeHints(traces) :
        /\ \A a \in h.preceding :
              /\ a.timestamp < Former(h.crit).timestamp
              /\ h.typ = "store" => ~Between(a, Former(h.crit), "flush")
        /\ \A b \in h.following :
              /\ Latter(h.crit).timestamp <= b.timestamp
              /\ h.typ = "load" => ~Between(Latter(h.crit), b, "lfence")

\* The locks of a trace, and those held after its n-th entry.
LocksIn(s) == {s[n].addr : n \in {m \in 1 .. Len(s) : s[m].typ \in {"acquire", "release"}}}
Held(s, n) == {l \in LocksIn(s) : Count(s, 1, n, "acquire", l) > Count(s, 1, n, "release", l)}
WellNested(s) ==
    \A n \in 1 .. Len(s) : s[n].typ = "release" =>
        \E m \in 1 .. n - 1 :
            /\ s[m].typ = "acquire" /\ s[m].addr = s[n].addr
            /\ \A l \in LocksIn(s) :
                  Count(s, m + 1, n - 1, "acquire", l) = Count(s, m + 1, n - 1, "release", l)

\* Where locks are nested, as annotateLocksInSerial() assumes, the two accesses of
\* a critical communication are never under a common lock.
NoCommonLock ==
    (WellNested(traces[1]) /\ WellNested(traces[2])) =>
        \A h \in ComputeHints(traces) :
            Held(traces[1], Former(h.crit).timestamp + 1)
                \cap Held(traces[2], Latter(h.crit).timestamp + 1 - Len(traces[1])) = {}

\* Nothing depends on the order of a Go map.  Communications with the same hash, of
\* which duppedComm() keeps the first it meets, are of the same accesses, although
\* the hash is of instructions only; and formKnots() makes the same knots of two
\* communications whichever it meets first.
OrderIrrelevant ==
    LET seq == Distilled
        all == AllCommunications(seq)
    IN  \A c, d \in all : c # d =>
            /\ CommHash(c) # CommHash(d)
            /\ KnotsOf(seq, c, d) = KnotsOf(seq, d, c)

\* The message-passing idiom, x then y stored by one call, y then x loaded by the
\* other, without locks: if one side has no barrier, a hint tests it.
MessagePassingFound ==
    LET s == traces[1]
        u == traces[2]
        plain(t) == /\ \A n \in 1 .. Len(t) : t[n].typ \notin {"acquire", "release"}
                    /\ \A m, n \in 1 .. Len(t) :
                          (IsMemory(t[m]) /\ IsMemory(t[n]) /\ t[m].inst = t[n].inst) => m = n
        barrier(t, m, n, typ) == \E k \in m .. n : t[k].typ = typ
        same(a, b) == a.addr = b.addr /\ a.size = b.size
        only(t, n, typ) == \A m \in 1 .. Len(t) : same(t[m], t[n]) => t[m].typ = typ
        hints == ComputeHints(traces)
        hinted(j, k, typ) == \E h \in hints :
                                h.typ = typ /\ CommHash(h.crit) = <<s[j].inst, u[k].inst>>
    IN  (plain(s) /\ plain(u)) =>
        \A i, j \in 1 .. Len(s), k, l \in 1 .. Len(u) :
            (/\ i < j /\ s[i].typ = "store" /\ s[j].typ = "store" /\ s[i].addr # s[j].addr
             /\ k < l /\ u[k].typ = "load" /\ u[l].typ = "load"
             /\ same(s[i], u[l]) /\ same(s[j], u[k])
             /\ only(s, i, "store") /\ only(u, l, "load"))
            => /\ ~barrier(s, i, j, "flush") => hinted(j, k, "store")
               /\ (barrier(s, i, j, "flush") /\ ~barrier(u, k, l, "lfence")) => hinted(j, k, "load")

-----------------------------------------------------------------------------
(* What comments in the code say, and the code does not keep.               *)

\* A hint that sanitizeHint() drops groups no access that could be reordered.
NothingDropped ==
    LET knots == formKnots(Distilled, formCommunications(Distilled))
    IN  \A k \in knots :
            LET grouped == Grouped(knots, k.knot[2], k.typ)
            IN  ~sanitizeHint(AggregatedHint(grouped, k.knot[2], k.typ)) =>
                    Wanted([typ |-> k.typ,
                            preceding |-> {Former(g.knot[1]) : g \in grouped},
                            following |-> {Latter(g.knot[1]) : g \in grouped}]) = {}

\* A hint that sanitizeHint() keeps has something to reorder: an access to delay
\* other than the critical one, which gets an entry of its own in the table.
SomethingToReorder ==
    \A h \in ComputeHints(traces) : FlushTable(h)[Pivot(h).inst] = 1

\* threadingInput() keeps the speculated hints that occur: all of them, when the
\* threaded runs, one in each order, record what the sequential run recorded.
SpeculatedHintsOccur ==
    Select(ComputeHints0(traces), executeThreading(traces, traces)) = ComputeHints0(traces)
=============================================================================
