------------------------------ MODULE Executor ------------------------------
(***************************************************************************)
(* The executor of one program (executor/executor.cc): the main thread      *)
(* reads the encoded program, hands its calls to worker threads, starts     *)
(* them epoch by epoch and collects their results; a worker waits for a     *)
(* call, for the start of its epoch, executes and reports.                  *)
(*                                                                         *)
(* Main thread and workers share events without a lock.  A step here reads  *)
(* or writes one shared event, or several that no other thread can change   *)
(* in between.  A call may take any time, or for ever; a timed wait may end *)
(* at any time.                                                             *)
(***************************************************************************)
EXTENDS Integers, Sequences, FiniteSets, Functions

CONSTANTS Programs,             \* encoded programs: sequences of instructions
          kMaxThreads,
          kMaxFallbackThreads,
          kMaxPendingThreads

VARIABLES prog,                 \* the program being executed
          coverage,             \* cover_collection_required()
          main,                 \* the main thread, and the globals only it changes
          th,                   \* thread_set_t: the workers of a thread,
          blocked,              \*   how many of them are given up,
          pended,               \*   and the calls that came too early
          out,                  \* the call replies written
          ran,                  \* history: the calls begun, in order
          hist                  \* history of what the main thread decided

vars == <<prog, coverage, main, th, blocked, pended, out, ran, hist>>

Threads == 0 .. kMaxThreads - 1
\* One slot more than the array has: set[kMaxFallbackThreads] is pended[0].  The call
\* pended there is never resumed once the slot is in use, so the two are kept apart.
Slots == 0 .. kMaxFallbackThreads
Workers == Threads \X Slots

Instructions ==
    [op : {"epoch"}] \cup
    [op : {"call"}, call : Nat, thread : Threads, epoch : Nat, sched : BOOLEAN]

EpochsBefore(p, n) == Cardinality({k \in 1 .. n - 1 : p[k].op = "epoch"})

ASSUME SizesAssumption ==
    /\ kMaxThreads \in Nat \ {0}
    /\ kMaxFallbackThreads \in Nat
    /\ kMaxPendingThreads \in Nat

\* What the encoder sees to: sanitizeRazzer() lets no two calls of a thread share an
\* epoch or come in the wrong order; SerializeForExec() ends an epoch after its last
\* call, and the epochs of a program are 0, 1, 2, ...
ASSUME ProgramsAssumption == \A p \in Programs :
    LET calls == {k \in 1 .. Len(p) : p[k].op = "call"} IN
    /\ p \in Seq(Instructions)
    /\ \A j, k \in calls : p[j].call = p[k].call => j = k
    /\ \A j, k \in calls : (j < k /\ p[j].thread = p[k].thread) => p[j].epoch < p[k].epoch
    /\ \A j \in calls, k \in 1 .. Len(p) :
          (p[k].op = "epoch" /\ p[j].epoch <= EpochsBefore(p, k)) => j < k
    /\ \A k \in calls : k # Len(p) /\ p[k].epoch < EpochsBefore(p, Len(p) + 1)

CallOf(c) == prog[CHOOSE k \in 1 .. Len(prog) : prog[k].op = "call" /\ prog[k].call = c]
Calls == {prog[k].call : k \in {j \in 1 .. Len(prog) : prog[j].op = "call"}}
Epoch(c) == CallOf(c).epoch

Unused == [created |-> FALSE, ready |-> FALSE, done |-> FALSE, start |-> FALSE,
           executing |-> FALSE, call |-> 0, pc |-> "idle"]
\* thread_create(): a worker begins with its done event set.
Created == [Unused EXCEPT !.created = TRUE, !.done = TRUE]

\* prepare_kssb() creates the first worker, and the second one's if kssb is on.
Init ==
    /\ prog \in Programs
    /\ coverage \in BOOLEAN
    /\ main = [pc |-> "read", ip |-> 1, cursor |-> 0, call |-> 0, from |-> "read",
               global_epoch |-> 0, running |-> 0, last_scheduled |-> <<>>, status |-> "ok"]
    /\ \E kssb \in BOOLEAN :
          th = [t \in Threads |-> [s \in Slots |->
                  IF s = 0 /\ (t = 0 \/ (t = 1 /\ kssb)) THEN Created ELSE Unused]]
    /\ blocked = [t \in Threads |-> 0]
    /\ pended = [t \in Threads |-> <<>>]
    /\ out = <<>>
    /\ ran = <<>>
    /\ hist = [gaveUp |-> {}, dropped |-> {}, notified |-> {}, prepared |-> <<>>]

-----------------------------------------------------------------------------
\* Mutant: every call may run at once.
run_in_epoch_any(c) == TRUE

run_in_epoch(c) == Epoch(c) <= main.global_epoch

\* get_thread(): the worker that a thread's calls go to now.
get_thread(t) == th[t][blocked[t]]

\* exitf() and failmsg() end the executor.
Fail(why) ==
    /\ main' = [main EXCEPT !.pc = "exit", !.status = why]
    /\ UNCHANGED <<prog, coverage, th, blocked, pended, out, ran, hist>>

\* A loop of the main thread over all threads: to the next one, or on.
NextThread(m, loop, after) ==
    IF m.cursor + 1 \in Threads THEN [m EXCEPT !.pc = loop, !.cursor = @ + 1]
                                ELSE [m EXCEPT !.pc = after, !.cursor = 0]

\* write_call_output(): a finished call counts as blocked if it was not the last
\* one scheduled.
Reply(w, finished) ==
    [call |-> th[w[1]][w[2]].call, finished |-> finished,
     blocked |-> finished /\ main.last_scheduled # w]

\* Mutant: the worker is not marked idle again.
handle_completion_again(w, m) ==
    IF th[w[1]][w[2]].ready \/ ~th[w[1]][w[2]].done
    THEN Fail("bad thread state in completion")
    ELSE /\ out' = Append(out, Reply(w, TRUE))
         /\ th' = th
         /\ main' = [m EXCEPT !.running = @ - 1]
         /\ UNCHANGED <<prog, coverage, blocked, pended, ran, hist>>

\* handle_completion(): the reply is written and the worker is free; the main
\* thread goes on as m.
handle_completion(w, m) ==
    IF th[w[1]][w[2]].ready \/ ~th[w[1]][w[2]].done \/ ~th[w[1]][w[2]].executing
    THEN Fail("bad thread state in completion")
    ELSE IF main.running = 0 THEN Fail("negative running")
    ELSE /\ out' = Append(out, Reply(w, TRUE))
         /\ th' = [th EXCEPT ![w[1]][w[2]].executing = FALSE]
         /\ main' = [m EXCEPT !.running = @ - 1]
         /\ UNCHANGED <<prog, coverage, blocked, pended, ran, hist>>

-----------------------------------------------------------------------------
(* The main thread reads the program (execute_one()).                       *)

AtCall == main.pc = "read" /\ main.ip <= Len(prog) /\ prog[main.ip].op = "call"

\* Mutant: a call that comes too early is dropped.
PendCall_drop ==
    /\ AtCall
    /\ LET c == prog[main.ip] IN
       ~run_in_epoch(c.call)
    /\ main' = [main EXCEPT !.ip = @ + 1]
    /\ UNCHANGED <<prog, coverage, th, blocked, pended, out, ran, hist>>

\* schedule_call() of a call of a later epoch: pending_call().  set->pending only
\* ever grows.
PendCall ==
    /\ AtCall
    /\ LET c == prog[main.ip] IN
       /\ ~run_in_epoch(c.call)
       /\ IF Len(pended[c.thread]) = kMaxPendingThreads
          THEN /\ hist' = [hist EXCEPT !.dropped = @ \cup {c.call}]
               /\ UNCHANGED pended
          ELSE /\ pended' = [pended EXCEPT ![c.thread] = Append(@, [call |-> c.call, pending |-> TRUE])]
               /\ UNCHANGED hist
    /\ main' = [main EXCEPT !.ip = @ + 1]
    /\ UNCHANGED <<prog, coverage, th, blocked, out, ran>>

ReadCall ==
    /\ AtCall
    /\ run_in_epoch(prog[main.ip].call)
    /\ main' = [main EXCEPT !.ip = @ + 1, !.pc = "schedule", !.from = "read",
                            !.call = prog[main.ip].call]
    /\ UNCHANGED <<prog, coverage, th, blocked, pended, out, ran, hist>>

ReadEpoch ==
    /\ main.pc = "read" /\ main.ip <= Len(prog) /\ prog[main.ip].op = "epoch"
    /\ main' = [main EXCEPT !.ip = @ + 1, !.pc = "resume", !.cursor = 0]
    /\ UNCHANGED <<prog, coverage, th, blocked, pended, out, ran, hist>>

ReadEnd ==
    /\ main.pc = "read" /\ main.ip > Len(prog)
    /\ main' = IF main.running > 0 THEN [main EXCEPT !.pc = "final", !.last_scheduled = <<>>]
                                   ELSE [main EXCEPT !.pc = "exit"]
    /\ UNCHANGED <<prog, coverage, th, blocked, pended, out, ran, hist>>

-----------------------------------------------------------------------------
(* It hands a call to a worker (schedule_call()).                           *)

Target == CallOf(main.call).thread

\* get_thread() ends the executor when the fallbacks are used up.  The worker is
\* created if need be, and is found free, finished or busy.
PickWorker ==
    /\ main.pc = "schedule"
    /\ LET w == get_thread(Target)
           go(next) == [main EXCEPT !.pc = next]
       IN  IF blocked[Target] >= kMaxFallbackThreads THEN Fail("out of threads")
           ELSE \/ /\ ~w.executing
                   /\ main' = go("assign")
                   /\ th' = IF w.created THEN th ELSE [th EXCEPT ![Target][blocked[Target]] = Created]
                   /\ UNCHANGED <<prog, coverage, blocked, pended, out, ran, hist>>
                \/ /\ w.executing /\ w.done
                   /\ handle_completion(<<Target, blocked[Target]>>, go("assign"))
                \/ /\ w.executing /\ ~w.done
                   /\ main' = go("unhand")
                   /\ UNCHANGED <<prog, coverage, th, blocked, pended, out, ran, hist>>

\* unhand_worker_thread() asks again whether the worker is done; if not it takes the
\* next one.  A worker without a coverage descriptor cannot be created.
unhand_worker_thread ==
    /\ main.pc = "unhand"
    /\ LET next == blocked[Target] + 1 IN
       \/ /\ get_thread(Target).done
          /\ main' = [main EXCEPT !.pc = "assign"]
          /\ UNCHANGED <<prog, coverage, th, blocked, pended, out, ran, hist>>
       \/ /\ ~get_thread(Target).done
          /\ IF th[Target][next].created THEN Fail("bad thread state in get_thread")
             ELSE IF coverage /\ next = kMaxFallbackThreads THEN Fail("out of threads")
             ELSE /\ blocked' = [blocked EXCEPT ![Target] = next]
                  /\ th' = [th EXCEPT ![Target][next] = Created]
                  /\ main' = [main EXCEPT !.pc = "assign"]
                  /\ UNCHANGED <<prog, coverage, pended, out, ran, hist>>

\* prepare_thread() and the rest of schedule_call().
AssignCall ==
    /\ main.pc = "assign"
    /\ LET w == get_thread(Target)
           m == [main EXCEPT !.last_scheduled = <<Target, blocked[Target]>>, !.running = @ + 1]
       IN  IF w.ready \/ ~w.done \/ w.executing
           THEN Fail("bad thread state in schedule")
           ELSE /\ th' = [th EXCEPT ![Target][blocked[Target]] =
                             [w EXCEPT !.done = FALSE, !.executing = TRUE,
                                       !.call = main.call, !.ready = TRUE]]
                /\ main' = IF main.from = "read" THEN [m EXCEPT !.pc = "read"]
                                                 ELSE NextThread(m, "resume", "prepare")
                /\ UNCHANGED <<prog, coverage, blocked, pended, out, ran, hist>>

-----------------------------------------------------------------------------
(* It starts an epoch (resume_pending_calls(), start_epoch()).              *)

\* Mutant: pended calls stay pended.
resume_pending_calls_never ==
    /\ main.pc = "resume"
    /\ main' = NextThread(main, "resume", "prepare")
    /\ UNCHANGED <<prog, coverage, pended, th, blocked, out, ran, hist>>

resume_pending_calls ==
    /\ main.pc = "resume"
    /\ LET t == main.cursor
           due == {k \in 1 .. Len(pended[t]) : /\ pended[t][k].pending
                                               /\ \A j \in 1 .. k - 1 : ~pended[t][j].pending
                                               /\ run_in_epoch(pended[t][k].call)}
       IN  \/ /\ due = {}
              /\ main' = NextThread(main, "resume", "prepare")
              /\ UNCHANGED pended
           \/ \E k \in due :
              /\ pended' = [pended EXCEPT ![t][k].pending = FALSE]
              /\ main' = [main EXCEPT !.pc = "schedule", !.from = "resume",
                                      !.call = pended[t][k].call]
    /\ UNCHANGED <<prog, coverage, th, blocked, out, ran, hist>>

\* prepare_schedule(): HCALL_PREPARE announces the contenders that are ready.
prepare_schedule ==
    /\ main.pc = "prepare"
    /\ LET announced == {t \in Threads : LET w == get_thread(t) IN
                            w.created /\ w.ready /\ CallOf(w.call).sched /\ run_in_epoch(w.call)}
           calls == {get_thread(t).call : t \in announced}
       IN  IF \E t \in Threads : blocked[t] >= kMaxFallbackThreads
           THEN Fail("out of threads")
           ELSE /\ main' = [main EXCEPT !.pc = "signal", !.cursor = 0]
                /\ hist' = IF calls = {} THEN hist
                           ELSE [hist EXCEPT !.prepared = Append(@, calls)]
                /\ UNCHANGED <<prog, coverage, th, blocked, pended, out, ran>>

\* start_epoch() looks for workers with a call; what it checks and does next is
\* another step.
SeeReady ==
    /\ main.pc = "signal"
    /\ LET w == get_thread(main.cursor) IN
       main' = IF w.created /\ w.ready THEN [main EXCEPT !.pc = "notify"]
                                       ELSE NextThread(main, "signal", "wait")
    /\ UNCHANGED <<prog, coverage, th, blocked, pended, out, ran, hist>>

NotifyWorker ==
    /\ main.pc = "notify"
    /\ LET t == main.cursor
           w == get_thread(t)
       IN  IF w.start \/ w.done \/ ~w.executing
           THEN Fail("bad thread state in start_epoch")
           ELSE /\ th' = [th EXCEPT ![t][blocked[t]].start = TRUE]
                /\ hist' = [hist EXCEPT !.notified = @ \cup {w.call}]
                /\ main' = NextThread(main, "signal", "wait")
                /\ UNCHANGED <<prog, coverage, blocked, pended, out, ran>>

\* The end of a thread's turn in the last loop; the last one ends the epoch.
Waited(m) ==
    LET n == NextThread(m, "wait", "read")
    IN  IF n.pc = "read" THEN [n EXCEPT !.global_epoch = @ + 1] ELSE n

\* Mutant: the wait has no timeout.
WaitWorker_forever ==
    /\ main.pc = "wait"
    /\ LET w == get_thread(main.cursor) IN
       \/ /\ ~(w.created /\ w.executing)
          /\ main' = Waited(main)
          /\ UNCHANGED <<prog, coverage, th, blocked, pended, out, ran, hist>>
       \/ /\ w.created /\ w.executing /\ w.done
          /\ handle_completion(<<main.cursor, blocked[main.cursor]>>, Waited(main))

\* The main thread waits for the worker until it is done or time is up.
WaitWorker ==
    /\ main.pc = "wait"
    /\ LET w == get_thread(main.cursor) IN
       \/ /\ ~(w.created /\ w.executing)
          /\ main' = Waited(main)
          /\ UNCHANGED <<prog, coverage, th, blocked, pended, out, ran, hist>>
       \/ /\ w.created /\ w.executing /\ w.done /\ run_in_epoch(w.call)
          /\ handle_completion(<<main.cursor, blocked[main.cursor]>>, Waited(main))
       \/ /\ w.created /\ w.executing /\ ~(w.done /\ run_in_epoch(w.call))
          /\ main' = Waited(main)
          /\ hist' = [hist EXCEPT !.gaveUp = @ \cup {w.call}]
          /\ UNCHANGED <<prog, coverage, th, blocked, pended, out, ran>>

-----------------------------------------------------------------------------
(* After the last instruction it waits for what still runs.                 *)

Finished(w) == LET x == th[w[1]][w[2]] IN
    w[2] < kMaxFallbackThreads /\ x.created /\ x.executing /\ x.done

CompleteLate(w) ==
    /\ main.pc = "final" /\ main.running > 0
    /\ Finished(w)
    /\ handle_completion(w, main)

\* Time is up, or nothing runs: the replies of unfinished calls are written.
EndExecution ==
    /\ main.pc = "final"
    /\ LET left == {w \in Workers : w[2] < kMaxFallbackThreads /\ th[w[1]][w[2]].executing}
           order == CHOOSE f \in Bijection(1 .. Cardinality(left), left) : TRUE
       IN  out' = out \o (IF main.running = 0 THEN <<>>
                          ELSE [k \in 1 .. Cardinality(left) |-> Reply(order[k], FALSE)])
    /\ main' = [main EXCEPT !.pc = "exit"]
    /\ UNCHANGED <<prog, coverage, th, blocked, pended, ran, hist>>

-----------------------------------------------------------------------------
(* worker_thread(), until the process exits.                                *)

Alive(w) == main.pc # "exit" /\ th[w[1]][w[2]].created

\* event_wait(ready) and wait_epoch(): a start of an earlier epoch is taken and
\* forgotten.
wait_epoch(w) ==
    /\ Alive(w)
    /\ LET x == th[w[1]][w[2]] IN
       /\ x.pc = "idle" /\ x.ready /\ x.start
       /\ th' = [th EXCEPT ![w[1]][w[2]] =
                    [x EXCEPT !.start = FALSE,
                              !.pc = IF run_in_epoch(x.call) THEN "started" ELSE "idle"]]
    /\ UNCHANGED <<prog, coverage, main, blocked, pended, out, ran, hist>>

\* Mutant: the ready event is not reset.
execute_call_ready(w) ==
    /\ Alive(w)
    /\ th[w[1]][w[2]].pc = "started"
    /\ th' = [th EXCEPT ![w[1]][w[2]].pc = "running"]
    /\ ran' = Append(ran, th[w[1]][w[2]].call)
    /\ UNCHANGED <<prog, coverage, main, blocked, pended, out, hist>>

\* The call is begun; it reads its arguments from the worker's slot.
execute_call(w) ==
    /\ Alive(w)
    /\ LET x == th[w[1]][w[2]] IN
       /\ x.pc = "started"
       /\ th' = [th EXCEPT ![w[1]][w[2]] = [x EXCEPT !.ready = FALSE, !.pc = "running"]]
       /\ ran' = Append(ran, x.call)
    /\ UNCHANGED <<prog, coverage, main, blocked, pended, out, hist>>

\* event_set() of an event that is set ends the process.
FinishCall(w) ==
    /\ Alive(w)
    /\ LET x == th[w[1]][w[2]] IN
       /\ x.pc = "running"
       /\ IF x.done THEN Fail("event already set")
          ELSE /\ th' = [th EXCEPT ![w[1]][w[2]] = [x EXCEPT !.done = TRUE, !.pc = "idle"]]
               /\ UNCHANGED <<prog, coverage, main, blocked, pended, out, ran, hist>>

-----------------------------------------------------------------------------
Main ==
    \/ PendCall \/ ReadCall \/ ReadEpoch \/ ReadEnd
    \/ PickWorker \/ unhand_worker_thread \/ AssignCall
    \/ resume_pending_calls \/ prepare_schedule \/ SeeReady \/ NotifyWorker \/ WaitWorker
    \/ \E w \in Workers : CompleteLate(w)
    \/ EndExecution

Next ==
    \/ Main
    \/ \E w \in Workers : wait_epoch(w) \/ execute_call(w) \/ FinishCall(w)

Spec == Init /\ [][Next]_vars

\* The main thread never waits without a timeout, so it alone makes progress.
FairSpec == Spec /\ WF_vars(Main)

-----------------------------------------------------------------------------
\* A call is begun at most once and replied to at most once, whatever the timeouts
\* and late completions: parseOutput() rejects a duplicate reply.
CallsOnce ==
    /\ \A i, j \in 1 .. Len(ran) : ran[i] = ran[j] => i = j
    /\ \A i, j \in 1 .. Len(out) : out[i].call = out[j].call => i = j

\* The epochs are barriers: when a call is executing, each call of an earlier epoch
\* has finished, or a wait for it timed out, or it was dropped.
EpochBarrier ==
    \A w \in Workers : LET x == th[w[1]][w[2]] IN
        x.pc = "running" =>
            \A c \in Calls : Epoch(c) < Epoch(x.call) =>
                \/ c \in hist.gaveUp \cup hist.dropped
                \/ \E i \in 1 .. Len(out) : out[i].call = c

\* The checks of handle_completion(), of unhand_worker_thread() and of event_set()
\* never fire, whatever the workers' timing.
CompletionsAreSound ==
    main.status \notin {"bad thread state in completion", "negative running",
                        "bad thread state in get_thread", "event already set"}

\* A program that is executed to its end has a reply for every call that was not
\* dropped, and leaves no call pended.
EveryCallReplied ==
    (main.pc = "exit" /\ main.status = "ok") =>
        /\ {out[i].call : i \in 1 .. Len(out)} = Calls \ hist.dropped
        /\ \A t \in Threads : \A k \in 1 .. Len(pended[t]) : ~pended[t][k].pending

\* The first HCALL_PREPARE of a program announces all its contenders but one that
\* has begun already: QEMU waits for as many CPUs as it is told.
PreparedTogether ==
    hist.prepared # <<>> =>
        \A c \in Calls : CallOf(c).sched =>
            c \in hist.prepared[1] \/ \E i \in 1 .. Len(ran) : ran[i] = c

\* The executor ends, though calls may not.
Terminates == <>(main.pc = "exit")

-----------------------------------------------------------------------------
(* What comments in the code say, and the code does not keep.               *)

\* schedule_call(): a worker that is not done is "either blocked or still executing",
\* so it is replaced and the state check holds.
ScheduleStateHolds == main.status # "bad thread state in schedule"

\* start_epoch(): a worker that is ready has not begun, so the state check holds.
StartStateHolds == main.status # "bad thread state in start_epoch"

\* schedule_call(): without a fallback thread the call is dropped, and the executor
\* goes on.
CallIsDropped == main.status # "out of threads"

\* worker_thread(): a worker begins a call only after the main thread notified it
\* for that call.
NotifiedBeforeRun ==
    \A i \in 1 .. Len(ran) : ran[i] \in hist.notified

\* A reply says that a call blocked only if the main thread stopped waiting for it.
BlockedMeansBlocked ==
    \A i \in 1 .. Len(out) : out[i].blocked => out[i].call \in hist.gaveUp
=============================================================================
