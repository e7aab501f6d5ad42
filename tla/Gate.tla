-------------------------------- MODULE Gate --------------------------------
(***************************************************************************)
(* The gate every program execution of the fuzzer goes through             *)
(* (pkg/ipc/gate.go): it bounds how many executions run at once and how    *)
(* far apart they may have started, and runs a callback (the leak check)   *)
(* while nothing executes.  A step that holds g.cv.L, from Lock or from a  *)
(* return of cv.Wait to the next Wait or Unlock, is one action.            *)
(***************************************************************************)
EXTENDS Integers

CONSTANTS Procs,    \* the fuzzer's processes, one execution each at a time
          c,        \* len(g.busy)
          hasF      \* whether g.f # nil

ASSUME GateAssumption == c \in Nat \ {0} /\ hasF \in BOOLEAN

VARIABLES busy, pos, running, stop,
          pc,       \* where each process is: see States
          ticket,   \* what its last Enter returned
          broken,   \* some panic("broken gate") was reached
          age,      \* history: executions started since this one started
          checked   \* history: f was called since slot 0 was last taken

gate == <<busy, pos, running, stop>>
vars == <<gate, pc, ticket, broken, age, checked>>

Slots == 0 .. c - 1

\* Blocked in the cv.Wait of Enter ("waiting") or of Leave ("draining"); after
\* a broadcast the process still has to take the mutex again ("woken" and
\* "drained").
States == {"outside", "waiting", "woken", "inside", "draining", "drained"}

Init ==
    /\ busy = [i \in Slots |-> FALSE]
    /\ pos = 0
    /\ running = 0
    /\ stop = FALSE
    /\ pc = [p \in Procs |-> "outside"]
    /\ ticket = [p \in Procs |-> 0]
    /\ broken = FALSE
    /\ age = [p \in Procs |-> 0]
    /\ checked = TRUE

\* The index after i, wrapping at len(g.busy).
After(i) == IF i + 1 >= c THEN 0 ELSE i + 1

\* cv.Broadcast()
Broadcast(where) ==
    [q \in Procs |-> CASE where[q] = "waiting"  -> "woken"
                       [] where[q] = "draining" -> "drained"
                       [] OTHER -> where[q]]

Inside(p) == pc[p] = "inside"

\* Enter, when its loop condition holds: the process waits on the condition.
EnterWait(p) ==
    /\ pc[p] \in {"outside", "woken"}
    /\ busy[pos] \/ stop
    /\ pc' = [pc EXCEPT ![p] = "waiting"]
    /\ UNCHANGED <<gate, ticket, broken, age, checked>>

\* Taking slot idx.
Take(p, idx) ==
    /\ ticket' = [ticket EXCEPT ![p] = idx]
    /\ busy' = [busy EXCEPT ![idx] = TRUE]
    /\ running' = running + 1
    /\ broken' = (broken \/ running + 1 > c)
    /\ pc' = [pc EXCEPT ![p] = "inside"]
    /\ age' = [q \in Procs |-> IF q = p THEN 0
                               ELSE IF Inside(q) THEN age[q] + 1 ELSE age[q]]
    /\ checked' = (checked /\ idx # 0)

\* Mutant: Enter does not look at stop.
Enter_unstopped(p) ==
    /\ pc[p] \in {"outside", "woken"}
    /\ ~busy[pos]
    /\ Take(p, pos)
    /\ pos' = After(pos)
    /\ UNCHANGED stop

\* Enter, when the loop condition does not hold.
Enter(p) ==
    /\ pc[p] \in {"outside", "woken"}
    /\ ~busy[pos] /\ ~stop
    /\ Take(p, pos)
    /\ pos' = After(pos)
    /\ UNCHANGED stop

CallsF(p) == ticket[p] = 0 /\ hasF

\* The start of Leave: the slot is given back.
Release(p) ==
    /\ Inside(p)
    /\ busy' = [busy EXCEPT ![ticket[p]] = FALSE]
    /\ running' = running - 1
    /\ broken' = (\/ broken
                  \/ ~busy[ticket[p]]
                  \/ running - 1 < 0
                  \/ CallsF(p) /\ stop)
    /\ age' = [age EXCEPT ![p] = 0]
    /\ UNCHANGED <<pos, ticket>>

Out(p) == [pc EXCEPT ![p] = "outside"]

\* Mutant: the slot that new executions wait for wakes nobody.
Leave_silent(p) ==
    /\ Release(p)
    /\ ~CallsF(p)
    /\ pc' = IF running' = 0 /\ stop THEN Broadcast(Out(p)) ELSE Out(p)
    /\ UNCHANGED <<stop, checked>>

\* Leave of an execution that does not call f.  It wakes the others when it
\* frees the slot they wait for, or when it is the last one f waits for.
Leave(p) ==
    /\ Release(p)
    /\ ~CallsF(p)
    /\ pc' = IF \/ ticket[p] = pos /\ ~stop
                \/ running' = 0 /\ stop
             THEN Broadcast(Out(p))
             ELSE Out(p)
    /\ UNCHANGED <<stop, checked>>

\* Mutant: the gate opens and nobody is told.
Callback_silent(p) ==
    /\ stop' = FALSE
    /\ checked' = TRUE
    /\ pc' = Out(p)

\* The end of a Leave that calls f: the gate opens, f runs under the mutex,
\* everyone is woken.
Callback(p) ==
    /\ stop' = FALSE
    /\ checked' = TRUE
    /\ pc' = Broadcast(Out(p))

\* Mutant: the callback runs at once, whoever is still inside.
LeaveFirst_undrained(p) ==
    /\ Release(p)
    /\ CallsF(p)
    /\ Callback(p)

\* Mutant: with executions still inside, the callback is skipped.
LeaveFirst_skip(p) ==
    /\ Release(p)
    /\ CallsF(p)
    /\ IF running' = 0
       THEN Callback(p)
       ELSE pc' = Out(p) /\ UNCHANGED <<stop, checked>>

\* Leave of the execution in slot 0: it closes the gate and waits until nobody
\* is inside.
LeaveFirst(p) ==
    /\ Release(p)
    /\ CallsF(p)
    /\ IF running' = 0
       THEN Callback(p)
       ELSE /\ stop' = TRUE
            /\ pc' = [pc EXCEPT ![p] = "draining"]
            /\ UNCHANGED checked

\* The same execution after cv.Wait returned.
Drained(p) ==
    /\ pc[p] = "drained"
    /\ IF running = 0
       THEN Callback(p)
       ELSE pc' = [pc EXCEPT ![p] = "draining"] /\ UNCHANGED <<stop, checked>>
    /\ UNCHANGED <<busy, pos, running, ticket, broken, age>>

Step(p) == EnterWait(p) \/ Enter(p) \/ Leave(p) \/ LeaveFirst(p) \/ Drained(p)

Next == \E p \in Procs : Step(p)

Spec == Init /\ [][Next]_vars

\* A process that can take the mutex takes it in the end (sync.Mutex hands it
\* over to the one that waited longest), and an execution ends: the executor
\* has a timeout.
Fairness == \A p \in Procs : WF_vars(Step(p))

FairSpec == Spec /\ Fairness

-----------------------------------------------------------------------------

TypeOK ==
    /\ busy \in [Slots -> BOOLEAN]
    /\ pos \in Slots
    /\ running \in 0 .. c
    /\ stop \in BOOLEAN
    /\ pc \in [Procs -> States]
    /\ ticket \in [Procs -> Slots]
    /\ broken \in BOOLEAN
    /\ age \in [Procs -> Nat]
    /\ checked \in BOOLEAN

\* No panic("broken gate") of gate.go is ever reached: the count of running
\* executions agrees with the slots, a ticket is given back once, and no second
\* execution waits to run the callback.
NotBroken == ~broken

\* "Limitation of concurrency window" (gate.go:10-12): while an execution is
\* inside, fewer than c others start.
Window == \A p \in Procs : Inside(p) => age[p] < c

\* The callback (the leak check of fuzzer.go:515) runs when no program is
\* executing.
AloneInCallback ==
    [][~checked /\ checked' => \A p \in Procs : pc'[p] # "inside"]_vars

\* "it will be called after each batch of c activities" (gate.go:22): slot 0 is
\* not taken a second time before the callback has run.
CallbackPerBatch ==
    [][hasF /\ (\E p \in Procs : ~Inside(p) /\ pc'[p] = "inside" /\ ticket'[p] = 0)
       => checked]_vars

\* No wake-up is missed: a process sleeps in Enter only while the slot that
\* comes next is taken or the gate is closed.
SleepsForReason ==
    \A p \in Procs : pc[p] = "waiting" => busy[pos] \/ stop

\* A process that sleeps in Enter is woken in the end.
WaitersWake == \A p \in Procs : pc[p] = "waiting" ~> pc[p] # "waiting"

=============================================================================
