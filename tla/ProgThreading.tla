--------------------------- MODULE ProgThreading ---------------------------
(***************************************************************************)
(* Programs as the fuzzer threads and encodes them (prog/threading.go,      *)
(* prog/schedule.go, prog/prog.go, prog/encodingexec.go).                   *)
(*                                                                         *)
(* A program is a record of its calls, in order, with the thread and the    *)
(* epoch each runs in; whether it is threaded; its contenders, as indices;  *)
(* and its scheduling points.  A call is known by an identifier, as the     *)
(* code knows it by its pointer; its arguments play no part here.           *)
(***************************************************************************)
EXTENDS Integers, Sequences, FiniteSets

\* ^uint64(0), the thread and the epoch of a new call; and the address of a dummy point.
undefined == -1
dummyAddr == "dummy"

MakeCall(id) == [id |-> id, thread |-> undefined, epoch |-> undefined]

\* The loop of fixupEpoch(): a call that has no epoch yet, or whose thread has been
\* used in the epoch, opens a new one.  ctx[i] is the context after call i.
FixupCalls(calls) ==
    LET isUndefined(c) == undefined \in {c.thread, c.epoch}
        first == [calls[1] EXCEPT !.thread = 0, !.epoch = 0]
        at(i) == IF i = 1 THEN first ELSE calls[i]
        thread(i) == IF isUndefined(at(i)) THEN 0 ELSE at(i).thread
        ctx[i \in 1 .. Len(calls)] ==
            LET before == IF i = 1 THEN [epoch |-> 0, used |-> {}] ELSE ctx[i - 1]
                new == isUndefined(at(i)) \/ thread(i) \in before.used
            IN  [epoch |-> before.epoch + (IF new THEN 1 ELSE 0),
                 used  |-> (IF new THEN {} ELSE before.used) \cup {thread(i)}]
    IN  [i \in 1 .. Len(calls) |->
            [id |-> calls[i].id, thread |-> thread(i), epoch |-> ctx[i].epoch]]

fixupEpoch(p) ==
    IF p.threaded \/ p.calls = <<>> THEN p ELSE [p EXCEPT !.calls = FixupCalls(@)]

\* Contenders() and IsContender().
Contenders(p) == {p.calls[i].id : i \in {p.contender[k] : k \in 1 .. Len(p.contender)}}

IdOf(p, k) == p.calls[p.contender[k]].id

\* appendDummyPoints(): a contender without a point gets one at the end.
appendDummyPoints(p) ==
    LET n == Len(p.points)
        bare == SelectSeq([k \in 1 .. Len(p.contender) |-> IdOf(p, k)],
                          LAMBDA c : \A i \in 1 .. n : p.points[i].call # c)
    IN  [p EXCEPT !.points = @ \o
            [k \in 1 .. Len(bare) |-> [call |-> bare[k], addr |-> dummyAddr, order |-> n + k - 1]]]

\* Mutant: the earlier contender takes the epoch the later one had before it moved.
ThreadCalls_late(p, cont) ==
    LET epoch(k) == p.calls[cont[k]].epoch
        idx1 == IF epoch(1) > epoch(2) THEN cont[2] ELSE cont[1]
        idx2 == IF epoch(1) > epoch(2) THEN cont[1] ELSE cont[2]
        moved == [i \in 1 .. Len(p.calls) |->
                     IF i > idx1 THEN [p.calls[i] EXCEPT !.epoch = @ - 1, !.thread = 1]
                                 ELSE p.calls[i]]
    IN  [moved EXCEPT ![idx1].epoch = p.calls[idx2].epoch]

\* Threading(): the calls after the earlier contender move to thread 1, one epoch
\* earlier; the earlier contender waits for the epoch of the later one.
ThreadCalls(p, cont) ==
    LET epoch(k) == p.calls[cont[k]].epoch
        idx1 == IF epoch(1) > epoch(2) THEN cont[2] ELSE cont[1]
        idx2 == IF epoch(1) > epoch(2) THEN cont[1] ELSE cont[2]
        moved == [i \in 1 .. Len(p.calls) |->
                     IF i > idx1 THEN [p.calls[i] EXCEPT !.epoch = @ - 1, !.thread = 1]
                                 ELSE p.calls[i]]
    IN  [moved EXCEPT ![idx1].epoch = moved[idx2].epoch]

\* What log.Fatalf() rules out: same epoch, or a call that is not on thread 0.
CanThread(p, cont) ==
    /\ Len(cont) = 2
    /\ p.calls[cont[1]].epoch # p.calls[cont[2]].epoch
    /\ \A i \in 1 .. Len(p.calls) : p.calls[i].thread = 0

Threading(p, cont) ==
    IF cont = <<>> THEN p
    ELSE appendDummyPoints([p EXCEPT !.calls = ThreadCalls(p, cont),
                                     !.threaded = TRUE,
                                     !.contender = cont])

\* Reverse(): two dummy points change places.
Reverse(p) ==
    IF p.threaded /\ Len(p.points) = 2 /\ \A i \in 1 .. 2 : p.points[i].addr = dummyAddr
    THEN [p EXCEPT !.points[1].call = p.points[2].call, !.points[2].call = p.points[1].call]
    ELSE p

unthreading(p) ==
    fixupEpoch([p EXCEPT !.calls = [i \in 1 .. Len(@) |-> [@[i] EXCEPT !.thread = 0, !.epoch = 0]],
                         !.threaded = FALSE])

\* applySchedule(): the accesses of a hint, by thread, become points of the
\* contender on that thread; later contenders win.
applySchedule(p, accesses) ==
    LET onThread(t) == {k \in 1 .. Len(p.contender) : p.calls[p.contender[k]].thread = t}
        last(t) == IdOf(p, CHOOSE k \in onThread(t) : \A j \in onThread(t) : j <= k)
        known == SelectSeq(accesses, LAMBDA a : onThread(a.thread) # {})
    IN  appendDummyPoints([p EXCEPT !.points =
            [k \in 1 .. Len(known) |->
                [call |-> last(known[k].thread), addr |-> known[k].inst, order |-> k - 1]]])

\* sanitizeRazzer(), of a program whose epochs are fixed up: what a program must
\* satisfy to be encoded.
SanitizeRazzer(p) ==
    /\ \A i, j \in 1 .. Len(p.calls) :
          (i < j /\ p.calls[i].thread = p.calls[j].thread) => p.calls[i].epoch < p.calls[j].epoch
    /\ IF p.threaded
       THEN /\ Len(p.contender) = 2
            /\ p.calls[p.contender[1]].epoch = p.calls[p.contender[2]].epoch
       ELSE /\ p.contender = <<>> /\ p.points = <<>>
            /\ \A i, j \in 1 .. Len(p.calls) : i # j => p.calls[i].epoch # p.calls[j].epoch

\* SerializeForExec(): every call, followed by an epoch instruction when no later
\* call runs in its epoch.  A call carries the points that match it.
EncodeCall(p, i) ==
    LET c == p.calls[i]
        call == [op |-> "call", call |-> i, thread |-> c.thread, epoch |-> c.epoch,
                 sched |-> \E k \in 1 .. Len(p.points) : p.points[k].call = c.id]
        isLast == \A j \in i + 1 .. Len(p.calls) : p.calls[j].epoch # c.epoch
    IN  IF isLast THEN <<call, [op |-> "epoch"]>> ELSE <<call>>

SerializeForExec(p) ==
    LET upTo[i \in 0 .. Len(p.calls)] ==
            IF i = 0 THEN <<>> ELSE upTo[i - 1] \o EncodeCall(p, i)
    IN  upTo[Len(p.calls)]

\* A generated program of n calls, once it has been encoded.
Generated(n) ==
    fixupEpoch([calls |-> [i \in 1 .. n |-> MakeCall(i)], threaded |-> FALSE,
                contender |-> <<>>, points |-> <<>>])
=============================================================================
