------------------------------ MODULE HintWork ------------------------------
(***************************************************************************)
(* The scheduling work of a fuzzer: from the hints computed after an       *)
(* execution, through threading work and booked programs, to the execution *)
(* of a program under a schedule (syz-fuzzer/proc.go, fuzzer.go, power.go, *)
(* workqueue.go).  A step is what a process does under one mutex.  What    *)
(* the kernel executes is left open: any of the hint lists in Computed.    *)
(***************************************************************************)
EXTENDS WorkQueue, TLC

CONSTANTS Procs, Hints,
          Coverage,         \* the signals of a hint, Hint.Coverage()
          Score,            \* Hint.Score(); sanitizeHint() leaves none with score 0
          Untested,         \* load hints, unless testLoadReordering
          Computed,         \* what ComputeHints may return
          Received,         \* signals that other fuzzers may find
          spillThreshold,
          MaxPairs,         \* bound: pairs of calls of a program that share memory
          MaxWork           \* bound: executions that find something, and candidates

ASSUME HintAssumption ==
    /\ Computed \subseteq Seq(Hints) \ {<<>>}
    /\ Score \in [Hints -> Nat \ {0}]
    /\ Untested \subseteq Hints

VARIABLES wq,                   \* fuzzer.workQueue
          maxInterleaving, newInterleaving,
          tps,                  \* the hints of each *prog.ConcurrentCalls
          concurrentCalls,      \* the booked ones, in bins
          collection,           \* the counters of hints and of ConcurrentCalls
          st,                   \* the processes
          panicked,             \* the fuzzer has died
          work

shared == <<wq, maxInterleaving, newInterleaving, tps, concurrentCalls, collection>>
vars == <<shared, st, panicked, work>>

Bins == 0 .. 5
BinLarge == 5

\* A process in its main loop, with nothing in its hands.  spec: the speculated
\* hints of a threading item; arr, i and total: the loop of getNewHints(); back: who
\* called it; diff: the signals it is about to merge; found: history, the list it
\* was called with; pairs: how many pairs of calls are still to be looked at.
AtLoop == [pc |-> "loop", spec |-> <<>>, arr |-> <<>>, i |-> 1, total |-> 0,
           diff |-> {}, found |-> <<>>, back |-> "pickup", pairs |-> 0,
           tp |-> 0]

Init ==
    /\ wq = newWorkQueue
    /\ maxInterleaving = {} /\ newInterleaving = {}
    /\ tps = <<>>
    /\ concurrentCalls = [b \in Bins |-> {}]
    /\ collection = [schedule |-> 0, threading |-> 0, concurrent |-> 0]
    /\ st = [p \in Procs |-> AtLoop]
    /\ panicked = FALSE
    /\ work = 0

At(p, pc) == ~panicked /\ st[p].pc = pc
Goto(p, pc) == st' = [st EXCEPT ![p].pc = pc]
Back(p) == st' = [st EXCEPT ![p] = AtLoop]

\* The smallest power of two that is at least n.
pow(n) == Min({k \in {2^j : j \in 0 .. n} : k >= n})

\* The bin is the power of two itself, so bins 0 and 3 stay empty.
pickBin(hints) == Min({BinLarge, Max({pow(Score[hints[k]]) : k \in DOMAIN hints})})

\* sort.Slice() by score; it may order equal scores either way.
Sorted(hints) == \A j, k \in DOMAIN hints : j < k => Score[hints[j]] <= Score[hints[k]]
SortedLists(hints) ==
    {s \in {[k \in DOMAIN hints |-> hints[f[k]]] : f \in Permutations(DOMAIN hints)} : Sorted(s)}

\* Select(): the hints of s1 that share a signal with some hint of s2.
Select(s1, s2) ==
    SelectSeq(s1, LAMBDA h : Coverage[h] \cap UNION {Coverage[g] : g \in Range(s2)} # {})

-----------------------------------------------------------------------------
(* Booked programs: scheduleInput(), pickHint().                            *)

\* Mutant: the chosen program stays in its bin.
chooseThreadedProgram_kept(p) ==
    /\ At(p, "loop") \/ At(p, "fuzz")
    /\ \E b \in Bins : /\ concurrentCalls[b] # {}
                       /\ \A d \in Bins : d > b => concurrentCalls[d] = {}
                       /\ \E tp \in concurrentCalls[b] :
                             st' = [st EXCEPT ![p] = [AtLoop EXCEPT !.pc = "pick", !.tp = tp]]
    /\ UNCHANGED <<wq, maxInterleaving, newInterleaving, tps, concurrentCalls, collection,
                   panicked, work>>

\* A program of the highest bin that has any.  scheduleInput() is called from
\* powerSchedule() and as a kind of fuzzing; how often is left open.
chooseThreadedProgram(p) ==
    /\ At(p, "loop") \/ At(p, "fuzz")
    /\ \E b \in Bins : /\ concurrentCalls[b] # {}
                       /\ \A d \in Bins : d > b => concurrentCalls[d] = {}
                       /\ \E tp \in concurrentCalls[b] :
                             /\ concurrentCalls' = [concurrentCalls EXCEPT ![b] = @ \ {tp}]
                             /\ st' = [st EXCEPT ![p] = [AtLoop EXCEPT !.pc = "pick", !.tp = tp]]
    /\ UNCHANGED <<wq, maxInterleaving, newInterleaving, tps, collection, panicked, work>>

\* pickHint(), to the update of tp.Hint: the last hint has the highest score.  No
\* hint is Invalid(): ComputeHints returns none.
pickHint(p) ==
    /\ At(p, "pick")
    /\ collection' = [collection EXCEPT !.schedule = @ - 1]
    /\ tps' = [tps EXCEPT ![st[p].tp] = Front(@)]
    /\ Goto(p, "rebook")
    /\ UNCHANGED <<wq, maxInterleaving, newInterleaving, concurrentCalls, panicked, work>>

\* The rest of pickHint(): the program is booked again if it has hints left.  Its
\* execution under the schedule changes nothing here (postExecuteThreaded()).
Rebook(p) ==
    /\ At(p, "rebook")
    /\ LET hints == tps[st[p].tp]
       IN  IF hints # <<>>
           THEN /\ concurrentCalls' =
                      [concurrentCalls EXCEPT ![pickBin(hints)] = @ \cup {st[p].tp}]
                /\ UNCHANGED collection
           ELSE /\ collection' = [collection EXCEPT !.concurrent = @ - 1]
                /\ UNCHANGED concurrentCalls
    /\ Back(p)
    /\ UNCHANGED <<wq, maxInterleaving, newInterleaving, tps, panicked, work>>

-----------------------------------------------------------------------------
(* The main loop: dequeue().                                                *)

\* The first half of dequeue(), under the read lock.
dequeueCheck(p) ==
    /\ At(p, "loop")
    /\ Goto(p, IF IsEmpty(wq) THEN "fuzz" ELSE "take")
    /\ UNCHANGED <<shared, panicked, work>>

\* The item of a kind, handed to threadingInput() or to an execution.
Got(p, kind) ==
    [AtLoop EXCEPT !.pc = IF kind = "threading" THEN "sub" ELSE "execute",
                   !.spec = IF kind = "threading" THEN Last(wq[kind]) ELSE <<>>]

\* The second half of dequeue(), under the write lock: the queues may have become
\* empty in between, and the process then fuzzes.
dequeue(p) ==
    /\ At(p, "take")
    /\ \/ /\ NextKinds(wq) = {}
          /\ Goto(p, "fuzz")
          /\ UNCHANGED wq
       \/ \E kind \in NextKinds(wq) :
             /\ st' = [st EXCEPT ![p] = Got(p, kind)]
             /\ wq' = Taken(wq, kind)
    /\ UNCHANGED <<maxInterleaving, newInterleaving, tps, concurrentCalls, collection,
                   panicked, work>>

\* relieveMemoryPressure(): threading work out of turn, when there is too much of
\* it and not too much to schedule.
relieveMemoryPressure(p) ==
    /\ At(p, "loop")
    /\ collection.threading > spillThreshold
    /\ ~(collection.schedule > spillThreshold)
    /\ wq["threading"] # <<>>
    /\ st' = [st EXCEPT ![p] = Got(p, "threading")]
    /\ wq' = Taken(wq, "threading")
    /\ UNCHANGED <<maxInterleaving, newInterleaving, tps, concurrentCalls, collection,
                   panicked, work>>

\* Generating or mutating a program.
Fuzz(p) ==
    /\ At(p, "fuzz")
    /\ Goto(p, "execute")
    /\ UNCHANGED <<shared, panicked, work>>

\* execute() of a program that is not threaded: it fails or finds nothing, or
\* postExecute() queues calls with new coverage for triage.
Execute(p) ==
    /\ At(p, "execute")
    /\ \/ Back(p) /\ UNCHANGED <<wq, work>>
       \/ /\ work < MaxWork
          /\ work' = work + 1
          /\ \E kind \in {"none", "triage", "triageCandidate"} :
                wq' = IF kind = "none" THEN wq ELSE enqueue(wq, kind, "prog")
          /\ st' = [st EXCEPT ![p] = [AtLoop EXCEPT !.pc = "pickup", !.pairs = MaxPairs]]
    /\ UNCHANGED <<maxInterleaving, newInterleaving, tps, concurrentCalls, collection, panicked>>

\* A call of getNewHints() with the hints h.
getNewHints(p, h, back, pairs) ==
    st' = [st EXCEPT ![p] = [@ EXCEPT !.pc = "filter", !.arr = h, !.i = 1, !.total = Len(h),
                                      !.found = h, !.back = back, !.pairs = pairs]]

\* pickupThreadingWorks(): the hints of a pair of calls, or the end of the pairs.
pickupThreadingWorks(p) ==
    /\ At(p, "pickup")
    /\ \/ Back(p)
       \/ /\ st[p].pairs > 0
          /\ \E h \in Computed : getNewHints(p, h, "pickup", st[p].pairs - 1)
    /\ UNCHANGED <<shared, panicked, work>>

IsNew(h) == h \notin Untested /\ ~(Coverage[h] \subseteq maxInterleaving)

\* The loop of getNewHints(), in place, up to the first new hint or the end: a hint
\* that is not new is overwritten by the last one.
RECURSIVE Compact(_, _, _)
Compact(arr, i, total) ==
    IF i > total \/ IsNew(arr[i])
    THEN [arr |-> arr, i |-> i, total |-> total]
    ELSE Compact([arr EXCEPT ![i] = arr[total]], i, total - 1)

\* Under the read lock, as far as checkNewInterleavingSignal() releases it.
Filter(p) ==
    /\ At(p, "filter")
    /\ LET s == st[p]
           r == Compact(s.arr, s.i, s.total)
           next == IF r.i <= r.total THEN "merge"
                   ELSE IF s.back = "threading" THEN "select"
                   ELSE IF r.total = 0 THEN "pickup" ELSE "add"
       IN  st' = [st EXCEPT ![p] =
                    [s EXCEPT !.pc = next, !.arr = r.arr, !.i = r.i, !.total = r.total,
                              !.diff = IF next = "merge"
                                       THEN Coverage[r.arr[r.i]] \ maxInterleaving ELSE {}]]
    /\ UNCHANGED <<shared, panicked, work>>

\* The rest of checkNewInterleavingSignal(): the difference, found before the write
\* lock was taken, is merged.
Merge(p) ==
    /\ At(p, "merge")
    /\ newInterleaving' = newInterleaving \cup st[p].diff
    /\ maxInterleaving' = maxInterleaving \cup st[p].diff
    /\ st' = [st EXCEPT ![p] = [@ EXCEPT !.pc = "filter", !.i = @ + 1, !.diff = {}]]
    /\ UNCHANGED <<wq, tps, concurrentCalls, collection, panicked, work>>

NewHints(p) == SubSeq(st[p].arr, 1, st[p].total)

\* enqueueThreading(): the counter, then the queue.
AddThreading(p) ==
    /\ At(p, "add")
    /\ collection' = [collection EXCEPT !.threading = @ + st[p].total]
    /\ Goto(p, "enqueue")
    /\ UNCHANGED <<wq, maxInterleaving, newInterleaving, tps, concurrentCalls, panicked, work>>

enqueueThreading(p) ==
    /\ At(p, "enqueue")
    /\ wq' = enqueue(wq, "threading", NewHints(p))
    /\ st' = [st EXCEPT ![p] = [AtLoop EXCEPT !.pc = "pickup", !.pairs = st[p].pairs]]
    /\ UNCHANGED <<maxInterleaving, newInterleaving, tps, concurrentCalls, collection,
                   panicked, work>>

-----------------------------------------------------------------------------
(* Threading work: threadingInput().                                        *)

\* Mutant: only hints that are still to be found are taken off the counter.
SubThreading_new(p) ==
    /\ At(p, "sub")
    /\ collection' = [collection EXCEPT !.threading =
                        @ - Len(SelectSeq(st[p].spec, LAMBDA h : IsNew(h)))]
    /\ Goto(p, "thread")
    /\ UNCHANGED <<wq, maxInterleaving, newInterleaving, tps, concurrentCalls, panicked, work>>

SubThreading(p) ==
    /\ At(p, "sub")
    /\ collection' = [collection EXCEPT !.threading = @ - Len(st[p].spec)]
    /\ Goto(p, "thread")
    /\ UNCHANGED <<wq, maxInterleaving, newInterleaving, tps, concurrentCalls, panicked, work>>

\* executeThreading(): hints, or none.  When the program does not fit the buffer,
\* executeRaw() returns nil and sequentialAccesses() dereferences it.
executeThreading(p) ==
    /\ At(p, "thread")
    /\ \/ Back(p) /\ UNCHANGED <<panicked, work>>
       \/ /\ work < MaxWork
          /\ work' = work + 1
          /\ \E h \in Computed : getNewHints(p, h, "threading", 0)
          /\ UNCHANGED panicked
       \/ panicked' = TRUE /\ Back(p) /\ UNCHANGED work
    /\ UNCHANGED shared

\* The new hints and the speculated ones that occurred.  getNewHints() has worked in
\* place: the list that Select() is given is the one it left.
SelectHints(p) ==
    /\ At(p, "select")
    /\ st' = [st EXCEPT ![p] = [@ EXCEPT !.pc = "book", !.total = 0,
                                         !.arr = NewHints(p) \o Select(st[p].spec, @)]]
    /\ UNCHANGED <<shared, panicked, work>>

\* bookScheduleGuide(): the two counters, the sort, the bin.
AddSchedule(p) ==
    /\ At(p, "book")
    /\ IF st[p].arr = <<>>
       THEN Back(p) /\ UNCHANGED collection
       ELSE /\ collection' = [collection EXCEPT !.schedule = @ + Len(st[p].arr)]
            /\ Goto(p, "book2")
    /\ UNCHANGED <<wq, maxInterleaving, newInterleaving, tps, concurrentCalls, panicked, work>>

AddConcurrent(p) ==
    /\ At(p, "book2")
    /\ collection' = [collection EXCEPT !.concurrent = @ + 1]
    /\ \E hints \in SortedLists(st[p].arr) :
          st' = [st EXCEPT ![p] = [@ EXCEPT !.pc = "book3", !.arr = hints]]
    /\ UNCHANGED <<wq, maxInterleaving, newInterleaving, tps, concurrentCalls, panicked, work>>

__bookScheduleGuide(p) ==
    /\ At(p, "book3")
    /\ tps' = Append(tps, st[p].arr)
    /\ concurrentCalls' =
          [concurrentCalls EXCEPT ![pickBin(st[p].arr)] = @ \cup {Len(tps) + 1}]
    /\ Back(p)
    /\ UNCHANGED <<wq, maxInterleaving, newInterleaving, collection, panicked, work>>

-----------------------------------------------------------------------------
\* poll(): the new signals go to the manager, signals of other fuzzers and a
\* candidate arrive.  A candidate that is threaded already is threading work that
\* speculates on no hint.
poll ==
    /\ ~panicked
    /\ work < MaxWork
    /\ work' = work + 1
    /\ newInterleaving' = {}
    /\ \E sign \in SUBSET Received : maxInterleaving' = maxInterleaving \cup sign
    /\ wq' \in {wq, enqueue(wq, "candidate", "prog"), enqueue(wq, "threading", <<>>)}
    /\ UNCHANGED <<tps, concurrentCalls, collection, st, panicked>>

Schedule(p) == chooseThreadedProgram(p) \/ pickHint(p) \/ Rebook(p)
Queue(p) == dequeueCheck(p) \/ dequeue(p) \/ relieveMemoryPressure(p)
Program(p) == \/ Fuzz(p) \/ Execute(p) \/ pickupThreadingWorks(p)
              \/ Filter(p) \/ Merge(p) \/ AddThreading(p) \/ enqueueThreading(p)
Thread(p) == \/ SubThreading(p) \/ executeThreading(p) \/ SelectHints(p)
             \/ AddSchedule(p) \/ AddConcurrent(p) \/ __bookScheduleGuide(p)

Step(p) == Schedule(p) \/ Queue(p) \/ Program(p) \/ Thread(p)

Next == poll \/ \E p \in Procs : Step(p)

Spec == Init /\ [][Next]_vars

\* The processes run on; and needScheduling() answers yes with a probability of at
\* least one in twenty, so that one that could schedule time and again does.
Fairness == \A p \in Procs : WF_vars(Step(p)) /\ SF_vars(chooseThreadedProgram(p))

FairSpec == Spec /\ Fairness

-----------------------------------------------------------------------------
Booked == UNION {concurrentCalls[b] : b \in Bins}
Lens(S, f(_)) == MapThenSumSet(f, S)
PCs(pcs) == {p \in Procs : st[p].pc \in pcs}

\* The counters of hints, unsigned and compared with spillThreshold, never pass zero
\* and are what is queued or booked, plus what a process is carrying between a
\* queue and its counter.
CountersExact ==
    /\ collection.threading =
          Lens(DOMAIN wq["threading"], LAMBDA k : Len(wq["threading"][k]))
        + Lens(PCs({"enqueue"}), LAMBDA p : st[p].total)
        + Lens(PCs({"sub"}), LAMBDA p : Len(st[p].spec))
    /\ collection.schedule =
          Lens(Booked, LAMBDA k : Len(tps[k]))
        + Lens(PCs({"pick", "rebook"}), LAMBDA p : Len(tps[st[p].tp]))
        + Lens(PCs({"book2", "book3"}), LAMBDA p : Len(st[p].arr))
    /\ collection.concurrent =
          Cardinality(Booked) + Cardinality(PCs({"pick", "rebook", "book3"}))

\* A program with hints is in one bin or in the hands of one process: pickHint()
\* changes tp.Hint on the strength of that.  A booked program has hints (the panics
\* of fuzzer.go:809 and proc.go:146), the best of them last (the note at
\* fuzzer.go:811), and its bin is the one that they call for now.
OneOwner ==
    /\ \A b \in Bins : \A k \in concurrentCalls[b] :
          tps[k] # <<>> /\ Sorted(tps[k]) /\ b = pickBin(tps[k])
    /\ \A p \in Procs : st[p].tp # 0 =>
          /\ st[p].tp \notin Booked
          /\ \A q \in Procs \ {p} : st[q].tp # st[p].tp
    /\ \A k \in DOMAIN tps : tps[k] # <<>> => k \in Booked \/ \E p \in Procs : st[p].tp = k

\* When nothing new is found, all threading work is done, all hints are tried and
\* the counters return to zero.
Drains ==
    <>[](\/ panicked
         \/ /\ wq["threading"] = <<>> /\ Booked = {}
            /\ collection = [schedule |-> 0, threading |-> 0, concurrent |-> 0])

-----------------------------------------------------------------------------
(* What comments in the code say, and the code does not keep.               *)

\* "hints that actually occurred among speculated hints" (proc.go:318): all of them
\* are booked.
SpeculatedKept ==
    \A p \in Procs : st[p].pc = "book" =>
        Range(Select(st[p].spec, st[p].found)) \subseteq Range(st[p].arr)

\* A program that does not fit the buffer is only counted ("so far we don't have a
\* better handling than counting this", proc.go:521).
OnlyCounted == ~panicked
=============================================================================
