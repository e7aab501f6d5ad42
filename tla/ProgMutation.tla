---------------------------- MODULE ProgMutation ----------------------------
(***************************************************************************)
(* The life of a program in the fuzzer: it is mutated, threaded, and given  *)
(* schedules (prog/mutation.go, prog/prog.go).  A mutation is a sequence of *)
(* edits that keep track of the contenders by their index, and ends by      *)
(* threading the program anew.                                              *)
(***************************************************************************)
EXTENDS ProgThreading

CONSTANTS ncalls,       \* the most calls a mutation may leave
          kMaxPendingThreads,
          Accesses,     \* the schedules hints give, as sequences of accesses
          MaxEdits,     \* bound: edits of one program
          MaxInsert     \* bound: calls one edit inserts

VARIABLES p,            \* the program
          mutating,     \* inside Mutate()
          contenders,   \* mutator.contenders: the contenders before the mutation
          edits         \* history: edits made; also numbers new calls

vars == <<p, mutating, contenders, edits>>

Init ==
    /\ \E n \in 1 .. ncalls : p = Generated(n)
    /\ mutating = FALSE
    /\ contenders = <<>>
    /\ edits = 0

\* Contenders(): the contending calls themselves.
ContenderIds(q) == [k \in 1 .. Len(q.contender) |-> IdOf(q, k)]
IsContender(q, i) == \E k \in 1 .. Len(q.contender) : q.contender[k] = i

\* insertBefore(): calls are inserted at index i, and the contenders behind it move.
insertBefore(q, i, calls) ==
    [q EXCEPT !.calls = SubSeq(@, 1, i - 1) \o calls \o SubSeq(@, i, Len(@)),
              !.contender = [k \in 1 .. Len(@) |-> IF i <= @[k] THEN @[k] + Len(calls) ELSE @[k]]]

\* Mutant: the contenders behind a removed call stay where they were.
RemoveCall_stale(q, i) ==
    [q EXCEPT !.calls = SubSeq(@, 1, i - 1) \o SubSeq(@, i + 1, Len(@))]

RemoveCall(q, i) ==
    [q EXCEPT !.calls = SubSeq(@, 1, i - 1) \o SubSeq(@, i + 1, Len(@)),
              !.contender = [k \in 1 .. Len(@) |-> IF i <= @[k] THEN @[k] - 1 ELSE @[k]]]

\* The program after n calls are removed from index i on, or before index i.
RemoveFrom(q, i, n) ==
    LET after[k \in 0 .. n] == IF k = 0 THEN q ELSE RemoveCall(after[k - 1], i) IN after[n]
RemoveBefore(q, i, n) ==
    LET after[k \in 0 .. n] == IF k = 0 THEN q ELSE RemoveCall(after[k - 1], i - k) IN after[n]

\* The trimming loop of splice(): from the end, contenders are kept, until fewer
\* than ncalls are left.
Trim(q) ==
    LET after[k \in 0 .. Len(q.calls)] ==
            IF k = 0 THEN q
            ELSE LET i == Len(q.calls) - k + 1
                     now == after[k - 1]
                 IN  IF Len(now.calls) < ncalls \/ IsContender(now, i) THEN now ELSE RemoveCall(now, i)
    IN  after[Len(q.calls)]

\* The calls that insertCall() and mutateArg() take out again.
Excess(q) == IF Len(q.calls) > ncalls THEN Len(q.calls) - ncalls ELSE 0

\* n fresh calls; an edit numbers them from its own range.
Fresh(n) == [k \in 1 .. n |-> MakeCall(ncalls + edits * MaxInsert + k)]

-----------------------------------------------------------------------------
\* Mutate() begins: initialize() notes the contenders.
BeginMutate ==
    /\ ~mutating
    /\ edits < MaxEdits
    /\ mutating' = TRUE
    /\ contenders' = ContenderIds(p)
    /\ UNCHANGED <<p, edits>>

Edit(q) ==
    /\ mutating
    /\ edits < MaxEdits
    /\ edits' = edits + 1
    /\ p' = q
    /\ UNCHANGED <<mutating, contenders>>

\* insertCall(): generated calls go before call i; what is too much is taken from
\* the front of them.
InsertCall(i, n) ==
    /\ Len(p.calls) < ncalls
    /\ i \in 1 .. Len(p.calls) + 1
    /\ LET q == insertBefore(p, i, Fresh(n)) IN Edit(RemoveFrom(q, i, Excess(q)))

\* mutateArg(): the calls a new argument needs go before its call; what is too
\* much is taken from their end.
MutateArg(i, n) ==
    /\ i \in 1 .. Len(p.calls)
    /\ LET q == insertBefore(p, i, Fresh(n)) IN Edit(RemoveBefore(q, i + n, Excess(q)))

\* removeCall(): a call that is no contender goes.
RemoveOne(i) ==
    /\ i \in 1 .. Len(p.calls)
    /\ ~IsContender(p, i)
    /\ Edit(RemoveCall(p, i))

\* splice(): the calls of another program go before call i.
Splice(i, n) ==
    /\ Len(p.calls) < ncalls
    /\ i \in 1 .. Len(p.calls)
    /\ Edit(Trim(insertBefore(p, i, FixupCalls(Fresh(n)))))

\* Mutant: the mutation does not thread the program again.
EndMutate_unthreaded ==
    /\ mutating
    /\ p.calls # <<>>
    /\ mutating' = FALSE
    /\ contenders' = <<>>
    /\ UNCHANGED <<p, edits>>

\* Mutate() ends, with calls left: the program is unthreaded and threaded again.
EndMutate ==
    /\ mutating
    /\ p.calls # <<>>
    /\ mutating' = FALSE
    /\ contenders' = <<>>
    /\ p' = Threading(unthreading(p), p.contender)
    /\ UNCHANGED edits

\* Minimize() drops a call of a sequential program and executes the rest, which
\* fixes up the epochs.
Minimize(i) ==
    /\ ~mutating
    /\ ~p.threaded
    /\ i \in 1 .. Len(p.calls) /\ Len(p.calls) > 1
    /\ p' = fixupEpoch(RemoveCall(p, i))
    /\ UNCHANGED <<mutating, contenders, edits>>

\* threadingInput(): two calls of a sequential program are made contenders.
ThreadingInput(i, j) ==
    /\ ~mutating
    /\ ~p.threaded
    /\ i < j
    /\ CanThread(p, <<i, j>>)
    /\ p' = Threading(p, <<i, j>>)
    /\ UNCHANGED <<mutating, contenders, edits>>

\* executeThreading() runs the contenders in the other order, too.
ReverseOrder ==
    /\ ~mutating
    /\ p' = Reverse(p)
    /\ UNCHANGED <<mutating, contenders, edits>>

\* scheduleInput(): a hint's schedule replaces the points.
ScheduleInput(accesses) ==
    /\ ~mutating
    /\ p.threaded
    /\ p' = applySchedule(p, accesses)
    /\ UNCHANGED <<mutating, contenders, edits>>

Next ==
    \/ BeginMutate \/ EndMutate \/ ReverseOrder
    \/ \E i \in 1 .. ncalls + 1, n \in 1 .. MaxInsert :
          InsertCall(i, n) \/ MutateArg(i, n) \/ Splice(i, n)
    \/ \E i \in 1 .. ncalls : RemoveOne(i) \/ Minimize(i)
    \/ \E i, j \in 1 .. Len(p.calls) : ThreadingInput(i, j)
    \/ \E accesses \in Accesses : ScheduleInput(accesses)

Spec == Init /\ [][Next]_vars

-----------------------------------------------------------------------------
\* checkContenders(): through all edits of a mutation the contenders' indices keep
\* pointing at the same calls.
ContendersKept ==
    mutating =>
        /\ Len(p.contender) = Len(contenders)
        /\ \A k \in 1 .. Len(contenders) :
              p.contender[k] \in 1 .. Len(p.calls) /\ IdOf(p, k) = contenders[k]

\* Whatever the edits were, the panic at the end of Mutate(), which is about the
\* number of calls, and the fatal cases of Threading() are not met.  Between
\* mutations a program passes sanitizeRazzer(), so that SerializeForExec() does not
\* panic; and if it is threaded each point is of a contender, each contender has one,
\* and their orders are 0, 1, 2, ...: QEMU waits for all of them.
Executable ==
    /\ Len(p.calls) <= ncalls
    /\ (mutating /\ p.contender # <<>>) => CanThread(unthreading(p), p.contender)
    /\ ~mutating => SanitizeRazzer(p)
    /\ (~mutating /\ p.threaded) =>
          /\ {p.points[i].call : i \in 1 .. Len(p.points)} = Contenders(p)
          /\ {p.points[i].order : i \in 1 .. Len(p.points)} = 0 .. Len(p.points) - 1

\* What the executor relies on: when the k-th epoch instruction is read, every call
\* of epoch k has been, and none of a later call comes too late; a call that comes
\* early waits, and no thread needs more than kMaxPendingThreads of them.
EpochsInOrder ==
    LET instrs == SerializeForExec(p)
        epochsBefore(k) == Cardinality({j \in 1 .. k - 1 : instrs[j].op = "epoch"})
        calls == {k \in 1 .. Len(instrs) : instrs[k].op = "call"}
        waiting(k, t) == {j \in calls : /\ j <= k /\ instrs[j].thread = t
                                        /\ instrs[j].epoch > epochsBefore(k)}
    IN  ~mutating =>
        /\ \A k \in calls : instrs[k].epoch >= epochsBefore(k)
        /\ \A k \in 1 .. Len(instrs) : instrs[k].op = "epoch" =>
              \A j \in calls : instrs[j].epoch <= epochsBefore(k) => j < k
        /\ \A k \in 1 .. Len(instrs), t \in {0, 1} :
              Cardinality(waiting(k, t)) <= kMaxPendingThreads
=============================================================================
