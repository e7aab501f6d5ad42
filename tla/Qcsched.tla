------------------------------ MODULE Qcsched ------------------------------
(***************************************************************************)
(* QCSCHED, the vCPU scheduler of the modified QEMU, driven by the guest's *)
(* executor: the hypercall handlers (hcall.c, kssb.c), the breakpoint      *)
(* handler (breakpoint.c), kidnapping and resuming vCPUs (exec_control.c,  *)
(* blocker.c, timer.c) and the vCPU loop that calls them (kvm-all.c).      *)
(*                                                                         *)
(* A handler runs under the BQL and is one step, except that removing a    *)
(* breakpoint of another vCPU waits for it with the BQL released:          *)
(* DEACTIVATE and RESET are as many steps as they have such waits.         *)
(*                                                                         *)
(* The guest.  The main thread of the executor (on CPU 0) issues RESET,    *)
(* ENABLE_KSSB, PREPARE and DISABLE_KSSB for every program.  One worker    *)
(* thread per vCPU of Workers installs its schedpoints, activates them     *)
(* (retrying), makes its system call, deactivates and clears.  In the      *)
(* kernel a vCPU may run into any breakpoint it has, in any order, in the  *)
(* worker's own task, in another task or in an interrupt.                  *)
(***************************************************************************)
EXTENDS QcschedWindow

CONSTANTS
    Plans,              \* the programs: a schedule each, and what the guest may
                        \* do while it is run
    MaxCpus,            \* MAX_CPUS
    MaxAttempts,        \* ACTIVATE_BP attempts of setup_schedule()
    WatchdogMax,        \* WATCHDOG_BREAKPOINT_COUNT_MAX
    WatchdogHookFactor, \* how many times more often the hook may be hit
    WatchdogKill        \* WATCHDOG_BREAKPOINT_COUNT_KILL_QEMU

\* points: the schedule, a sequence of [cpu, addr, filter].
\* contexts: what runs into breakpoints: "task" (the worker's own), "other"
\* (another task), "irq".
\* kill: when the executor process may die: "never" (only after its calls),
\* "in_syscall", "anywhere".
ASSUME PlansAssumption ==
    \A p \in Plans :
        /\ Len(p.points) \in Nat
        /\ \A i \in DOMAIN p.points :
              /\ p.points[i].cpu \in Workers /\ p.points[i].filter \in BOOLEAN
              /\ p.points[i].addr \notin {Hook, NoAddr}
        /\ p.contexts \subseteq {"task", "irq", "other"}
        /\ p.kill \in {"never", "in_syscall", "anywhere"}

VARIABLES
    q,        \* QEMU: struct qcsched, hw_breakpoint[], infos[]
    removal,  \* the DEACTIVATE or RESET that waits for another vCPU
    exit,     \* per vCPU: the KVM_EXIT_DEBUG that is not handled yet
    main,     \* the executor's main thread
    pc, n,    \* per worker: its next operation, and a counter for it
    plan,     \* the running program, or the last one
    escaped   \* has a self-escape timer forced a vCPU on in this program?

vars == <<q, removal, exit, main, pc, n, plan, escaped>>

NoExit == [rip |-> NoAddr, ctx |-> "none"]
NoRemoval == [by |-> 0, cpu |-> 0, order |-> 0]
NoPlan == [points |-> << >>, contexts |-> {}, kill |-> "never"]
OtherTask == 0 - 1

MyOrders(p, c) == {i \in DOMAIN p.points : p.points[i].cpu = c}

-----------------------------------------------------------------------------
(* vCPU states (state.c) *)

Rank(s) == CASE s = "idle" -> 0 [] s = "ready" -> 1 [] s = "activated" -> 2
             [] s = "deactivated" -> 3

check_cpu_state(s, c, st) == Rank(s.state[c]) >= Rank(st)

check_all_cpu_state(s, st) ==
    \A c \in {k \in Workers : k < 1 + s.nr_cpus} : check_cpu_state(s, c, st)

-----------------------------------------------------------------------------
(* Introspection (vmi.c); the lock tracking is compiled out of this build *)

scheduling_subject(s, task) == \E i \in Orders(s) : s.entries[i].task = task

\* Mutant: whose turn it is does not matter.
can_progress_unordered(s, c, task) == s.current <= s.total

can_progress(s, c, task) ==
    \/ ~ scheduling_subject(s, task)
    \/ s.current < s.total /\ s.entries[s.current].task = task
    \/ s.total = s.current
    \/ s.force_wakeup[c]
    \/ ~ s.activated

-----------------------------------------------------------------------------
(* Execution control (exec_control.c, blocker.c, timer.c) *)

kidnap_task(s, c, task) ==
    LET s1 == Insist(s, scheduling_subject(s, task), "kidnapping a wrong context")
        s2 == Insist(s1, ~ s.blocked[c], "kidnapping twice")
    IN  IF s.current = s.total \/ ~ s.activated
        THEN s1
        ELSE [s2 EXCEPT !.blocked[c] = TRUE, !.waking_up[c] = FALSE, !.armed[c] = TRUE]

\* Mutant: the pending wake-up is not cleared.
resume_task_again(s, c) ==
    expand_window([Insist(s, s.blocked[c], "nothing kidnapped") EXCEPT !.blocked[c] = FALSE], c)

resume_task(s, c) ==
    expand_window([Insist(s, s.blocked[c], "nothing kidnapped") EXCEPT
                      !.blocked[c] = FALSE, !.waking_up[c] = FALSE,
                      !.force_wakeup[c] = FALSE, !.kicked[c] = FALSE], c)

wake_others_up(s, c) ==
    [s EXCEPT !.waking_up = [k \in Workers |-> @[k] \/ (k # c /\ s.blocked[k])]]

\* Mutant: the vCPU stays blocked.
reset_exec_control_blocked(s, S) ==
    [s EXCEPT !.waking_up = [k \in Workers |-> k \notin S /\ @[k]]]

reset_exec_control(s, S) ==
    [s EXCEPT !.blocked   = [k \in Workers |-> k \notin S /\ @[k]],
              !.waking_up = [k \in Workers |-> k \notin S /\ @[k]]]

\* Mutant: a kick that comes after the vCPU went on still wakes it up.
handle_kick_late(s, c) ==
    [s EXCEPT !.kicked[c] = FALSE, !.force_wakeup[c] = TRUE, !.waking_up[c] = TRUE]

\* Mutant: the timer is set again instead of waking the vCPU up.
handle_kick_rearm(s, c) == [s EXCEPT !.kicked[c] = FALSE, !.armed[c] = @ \/ s.kicked[c]]

handle_kick(s, c) ==
    IF ~ s.kicked[c] THEN s
    ELSE IF ~ s.blocked[c] THEN [s EXCEPT !.kicked[c] = FALSE]
    ELSE [s EXCEPT !.kicked[c] = FALSE, !.force_wakeup[c] = TRUE, !.waking_up[c] = TRUE]

-----------------------------------------------------------------------------
(* The breakpoint handler (breakpoint.c) *)

watchdog_breakpoint(s, c, rip) ==
    LET count == s.last_breakpoint[c].count + 1
        max   == IF rip = Hook THEN WatchdogMax * WatchdogHookFactor ELSE WatchdogMax
        s1    == Insist([s EXCEPT !.last_breakpoint[c].count = count],
                        count < WatchdogKill, "watchdog")
    IN  IF s.last_breakpoint[c].rip # rip
        THEN [s EXCEPT !.last_breakpoint[c] = [rip |-> rip, count |-> 0]]
        ELSE IF count < max THEN s1 ELSE close_window(s1, c)

watchdog_failed(s, c, rip) ==
    s.last_breakpoint[c].count >=
        (IF rip = Hook THEN WatchdogMax * WatchdogHookFactor ELSE WatchdogMax)

handle_breakpoint_hook(s, c, task) ==
    IF ~ scheduling_subject(s, task)
    THEN insert_breakpoint(s, c, Hook, "reinstall hook")
    ELSE IF can_progress(s, c, task) THEN expand_window(s, c) ELSE kidnap_task(s, c, task)

yield_turn_from(s, c, order, task) ==
    wake_others_up(kidnap_task(hand_over_baton_from(s, c, order), c, task), c)

handle_breakpoint_schedpoint(s, c, rip, task) ==
    LET order == lookup_entry_by_address(s, c, rip)
        s1 == prune_missed_schedpoint(s, c, rip)
        s2 == leave_footprint_at(s1, c, "hit", s1.window[c].from)
        s3 == shrink_window(s2, c)
    IN  IF s.blocked[c] THEN s
        ELSE IF hit_stale_schedpoint(s, c, rip) THEN expand_window(s, c)
        ELSE IF consecutive_schedpoint(s3, c, order)
             THEN keep_this_cpu_going(expand_window(s3, c), c)
             ELSE yield_turn_from(s3, c, order, task)

breakpoint_on_schedpoint(s, rip, task) ==
    \E i \in Orders(s) : /\ s.entries[i].addr = rip
                         /\ s.entries[i].installed
                         /\ s.entries[i].task = task

handle_breakpoint(s, c, rip, ctx) ==
    LET task == IF ctx = "task" THEN c ELSE OtherTask
        s1 == remove_breakpoints(s, c, {rip})
        s2 == watchdog_breakpoint(watchdog_breakpoint(s1, c, rip), c, rip)
        s3 == cleanup_left_schedpoint(window_sync(s2, c), c)
    IN  IF rip \notin s.hw[c] /\ s.activated THEN close_window(s1, c)
        ELSE IF ctx = "irq" THEN s1
        ELSE IF watchdog_failed(s2, c, rip) THEN s3
        ELSE IF rip = Hook THEN handle_breakpoint_hook(s3, c, task)
        ELSE IF breakpoint_on_schedpoint(s3, rip, task)
             THEN handle_breakpoint_schedpoint(s3, c, rip, task)
        ELSE s3

-----------------------------------------------------------------------------
(* The hypercalls (hcall.c, kssb.c) *)

\* Mutant: the number of schedpoints is not limited.
prepare_unlimited(s, nr_bps, nr_cpus) ==
    [s EXCEPT !.total = nr_bps, !.orig_nr_bps = nr_bps, !.nr_cpus = nr_cpus, !.used = FALSE]

prepare(s, nr_bps, nr_cpus) ==
    IF s.total # 0 \/ nr_cpus >= MaxCpus THEN s
    ELSE [s EXCEPT !.total = Min({nr_bps, MaxSchedpoints}), !.orig_nr_bps = nr_bps,
                   !.nr_cpus = nr_cpus, !.used = FALSE]

install_breakpoint(s, c, addr, order, filter) ==
    LET s1 == Insist(s, s.total <= s.orig_nr_bps, "total > orig_nr_bps")
        w  == s.window[c]
        s2 == [s1 EXCEPT !.entries[order] =
                 [addr |-> addr, order |-> order, cpu |-> c, task |-> c,
                  footprint |-> IF filter THEN "missed" ELSE "preserved",
                  installed |-> @.installed]]
    IN  IF \/ s.total = 0 \/ s.orig_nr_bps <= order \/ check_cpu_state(s, c, "ready")
           \/ s.total <= order \/ s.entries[order].addr # NoAddr
        THEN s1
        ELSE IF (w.from = END \/ w.from > order) /\ ~ filter
             THEN [s2 EXCEPT !.window[c].from = order, !.window[c].until = order]
             ELSE s2

sanitize_breakpoint(s) ==
    s.total # 0 /\ \A i \in Orders(s) : s.entries[i].addr # NoAddr

sched_init_once(s) ==
    LET preserved == {i \in Orders(s) : s.entries[i].footprint = "preserved"}
    IN  IF s.activated THEN s
        ELSE [s EXCEPT !.activated = TRUE,
                       !.current = IF preserved = {} THEN s.total ELSE Min(preserved)]

do_activate_breakpoint(s, c) ==
    LET mine == Own(s, c)
        s1   == [sched_init_once(s) EXCEPT !.window[c].total = @ + Cardinality(mine)]
    IN  IF mine = {} THEN s1 ELSE insert_breakpoint(s1, c, Hook, "insert hook")

activate_breakpoint(s, c) ==
    LET s1 == [s EXCEPT !.state[c] = "ready"]
    IN  CASE s.used \/ check_cpu_state(s, c, "activated") ->
               [q |-> s, ret |-> "EINVAL"]
          [] ~ s.used /\ ~ check_cpu_state(s, c, "activated") /\ ~ check_all_cpu_state(s1, "ready") ->
               [q |-> s1, ret |-> "EAGAIN"]
          [] OTHER ->
               IF sanitize_breakpoint(s1)
               THEN [q |-> do_activate_breakpoint([s1 EXCEPT !.state[c] = "activated"], c),
                     ret |-> "0"]
               ELSE [q |-> s1, ret |-> "EINVAL"]

clear_breakpoint(s, c) ==
    IF s.activated \/ s.state[c] # "deactivated" THEN s
    ELSE [s EXCEPT !.state[c] = "idle",
                   !.entries = [i \in DOMAIN @ |-> IF i \in Own(s, c) THEN ZeroEntry ELSE @[i]],
                   !.hw[c] = {}]

is_vcpu_deactivated(s, c) ==
    ~ check_cpu_state(s, c, "ready") \/ check_cpu_state(s, c, "deactivated")

disable_kssb(s) ==
    [s EXCEPT !.kssb_enabled = @ /\ \E c \in Workers : ~ is_vcpu_deactivated(s, c)]

-----------------------------------------------------------------------------
(* Removing the breakpoints of all vCPUs, for DEACTIVATE (by # 0) and RESET *)

\* Mutant: the last vCPU is left out.
Waits_but_last(s, by, k, i) ==
    {p \in (Workers \ {by}) \X Orders(s) :
        /\ p[1] < s.nr_cpus /\ (p[1] > k \/ (p[1] = k /\ p[2] >= i))
        /\ p[2] \in Own(s, p[1]) /\ s.entries[p[2]].addr \in s.hw[p[1]]
        /\ by = 0 => ~ check_cpu_state(s, p[1], "deactivated")}

\* Where the BQL is released: after removing a breakpoint another vCPU has.
Waits(s, by, k, i) ==
    {p \in (Workers \ {by}) \X Orders(s) :
        /\ p[1] > k \/ (p[1] = k /\ p[2] >= i)
        /\ p[2] \in Own(s, p[1]) /\ s.entries[p[2]].addr \in s.hw[p[1]]
        /\ by = 0 => ~ check_cpu_state(s, p[1], "deactivated")}

First(P) == CHOOSE p \in P : \A r \in P : p[1] < r[1] \/ (p[1] = r[1] /\ p[2] <= r[2])

\* The rest of the loop body for the vCPUs of S: escape, and RESET's resets.
remove_breakpoints_and_escape(s, by, S) ==
    LET s1 == Insist(s, S # {} => ~ s.activated, "removing breakpoints of an active schedule")
        s2 == IF by \in S
              THEN remove_breakpoints(s1, by, {s.entries[i].addr : i \in Own(s, by)})
              ELSE s1
        s3 == reset_exec_control(s2, {k \in S : by = 0 => ~ check_cpu_state(s, k, "deactivated")})
    IN  IF by # 0 THEN s3
        ELSE [s3 EXCEPT
                !.state = [k \in Workers |-> IF k \in S THEN "idle" ELSE @[k]],
                !.window = [k \in Workers |-> IF k \in S THEN ClosedWindow(0) ELSE @[k]],
                !.last_breakpoint = [k \in Workers |->
                    IF k \in S THEN [rip |-> NoAddr, count |-> 0] ELSE @[k]]]

reset_schedule(s) ==
    disable_kssb([s EXCEPT !.total = 0, !.current = 0, !.nr_cpus = 0,
                           !.entries = [i \in DOMAIN @ |-> ZeroEntry]])

\* From vCPU k, entry i on, up to the next wait or to the end.
RemoveFrom(s, by, k, i) ==
    LET waits == Waits(s, by, k, i)
        stop  == First(waits)
        s1    == remove_breakpoints_and_escape(s, by, {c \in Workers : k <= c /\ c < stop[1]})
        s2    == remove_breakpoints_and_escape(s, by, {c \in Workers : k <= c})
    IN  IF waits = {}
        THEN /\ q' = IF by = 0 THEN reset_schedule(s2) ELSE s2
             /\ removal' = NoRemoval
        ELSE /\ q' = remove_breakpoints(s1, stop[1], {s.entries[stop[2]].addr})
             /\ removal' = [by |-> by, cpu |-> stop[1], order |-> stop[2] + 1]

-----------------------------------------------------------------------------
Init ==
    /\ q = [total |-> 0, current |-> 0, orig_nr_bps |-> 0, nr_cpus |-> 0,
            activated |-> FALSE, used |-> FALSE, kssb_enabled |-> FALSE,
            entries |-> [i \in 0 .. MaxSchedpoints - 1 |-> ZeroEntry],
            window |-> [c \in Workers |-> [total |-> 0, activated |-> 0, from |-> 0,
                                           until |-> 0, left_behind |-> 0]],
            state |-> [c \in Workers |-> "idle"],
            last_breakpoint |-> [c \in Workers |-> [rip |-> NoAddr, count |-> 0]],
            hw |-> [c \in Workers |-> {}],
            blocked |-> [c \in Workers |-> FALSE],
            waking_up |-> [c \in Workers |-> FALSE],
            kicked |-> [c \in Workers |-> FALSE],
            force_wakeup |-> [c \in Workers |-> FALSE],
            armed |-> [c \in Workers |-> FALSE],
            fault |-> "none"]
    /\ removal = NoRemoval
    /\ exit = [c \in Workers |-> NoExit]
    /\ main = "reset"
    /\ pc = [c \in Workers |-> "done"]
    /\ n = [c \in Workers |-> 0]
    /\ plan = NoPlan
    /\ escaped = FALSE

\* QEMU still runs.
Up == q.fault = "none"

\* The vCPU is in KVM_RUN, or enters it: pre_run() does not hold it back and
\* no signal makes KVM_RUN return at once.
InGuest(c) == Up /\ exit[c] = NoExit /\ ~ q.blocked[c] /\ ~ q.kicked[c] /\ removal.by # c

-----------------------------------------------------------------------------
(* The main thread of the executor *)

Reset ==
    /\ Up /\ main = "reset"
    /\ RemoveFrom([q EXCEPT !.used = TRUE, !.activated = FALSE], 0, 0, 0)
    /\ main' = IF removal'.cpu = 0 THEN "enable" ELSE "resetting"
    /\ escaped' = FALSE
    /\ UNCHANGED <<exit, pc, n, plan>>

ResetContinues ==
    /\ Up /\ main = "resetting" /\ exit[removal.cpu] = NoExit
    /\ RemoveFrom(q, 0, removal.cpu, removal.order)
    /\ main' = IF removal'.cpu = 0 THEN "enable" ELSE "resetting"
    /\ UNCHANGED <<exit, pc, n, plan, escaped>>

\* Only if accesses are collected (flag_collect_access).
EnableKssb ==
    /\ Up /\ main = "enable"
    /\ \E on \in BOOLEAN : q' = [q EXCEPT !.kssb_enabled = @ \/ on]
    /\ main' = "prepare"
    /\ UNCHANGED <<removal, exit, pc, n, plan, escaped>>

Prepare ==
    /\ Up /\ main = "prepare"
    /\ \E p \in Plans :
         LET used == {c \in Workers : MyOrders(p, c) # {}}
         IN  /\ plan' = p
             /\ q' = prepare(q, Len(p.points), Cardinality(used))
             /\ pc' = [c \in Workers |-> IF c \in used THEN "install" ELSE "done"]
    /\ n' = [c \in Workers |-> 0]
    /\ main' = "run"
    /\ UNCHANGED <<removal, exit, escaped>>

\* All calls are completed, or waiting for them timed out.
Wait ==
    /\ Up /\ main = "run"
    /\ plan.kill = "never" => \A c \in Workers : pc[c] = "done"
    /\ main' = "disable"
    /\ UNCHANGED <<q, removal, exit, pc, n, plan, escaped>>

\* disable_kssb() gives up after some attempts.
DisableKssb ==
    /\ Up /\ main = "disable"
    /\ q' = disable_kssb(q)
    /\ main' \in IF q'.kssb_enabled THEN {"disable", "exit"} ELSE {"exit"}
    /\ UNCHANGED <<removal, exit, pc, n, plan, escaped>>

\* The process is killed, or exits, before it is done.
Kill ==
    /\ Up /\ main = "run" /\ plan.kill # "never"
    /\ main' = "exit"
    /\ UNCHANGED <<q, removal, exit, pc, n, plan, escaped>>

\* kill_and_wait() has reaped all threads; the next program may start.
NextProgram ==
    /\ Up /\ main = "exit"
    /\ \A c \in Workers : pc[c] \in {"done", "dead"}
    /\ main' = "reset"
    /\ UNCHANGED <<q, removal, exit, pc, n, plan, escaped>>

-----------------------------------------------------------------------------
(* Worker threads: setup_schedule(), the system call, clear_schedule() *)

Install(c) ==
    /\ InGuest(c) /\ pc[c] = "install"
    /\ LET mine == MyOrders(plan, c)
           i    == CHOOSE k \in mine : Cardinality({j \in mine : j < k}) = n[c]
           p    == plan.points[i]
           more == n[c] + 1 < Cardinality(mine)
       IN  /\ q' = install_breakpoint(q, c, p.addr, i - 1, p.filter)
           /\ pc' = [pc EXCEPT ![c] = IF more THEN "install" ELSE "activate"]
           /\ n' = [n EXCEPT ![c] = IF more THEN @ + 1 ELSE 0]
    /\ UNCHANGED <<removal, exit, main, plan, escaped>>

Activate(c) ==
    /\ InGuest(c) /\ pc[c] = "activate"
    /\ LET r == activate_breakpoint(q, c)
           again == r.ret = "EAGAIN" /\ n[c] + 1 < MaxAttempts
       IN  /\ q' = r.q
           /\ pc' = [pc EXCEPT ![c] = IF again THEN "activate" ELSE "syscall"]
           /\ n' = [n EXCEPT ![c] = IF again THEN @ + 1 ELSE 0]
    /\ UNCHANGED <<removal, exit, main, plan, escaped>>

SyscallReturns(c) ==
    /\ InGuest(c) /\ pc[c] = "syscall" /\ Hook \notin q.hw[c]
    /\ pc' = [pc EXCEPT ![c] = "deactivate"]
    /\ UNCHANGED <<q, removal, exit, main, n, plan, escaped>>

Deactivate(c) ==
    /\ InGuest(c) /\ pc[c] = "deactivate"
    /\ LET s == close_window([q EXCEPT !.state[c] = "deactivated"], c)
       IN  IF ~ check_cpu_state(q, c, "ready")
           THEN q' = q /\ removal' = removal
           ELSE IF ~ s.activated THEN q' = s /\ removal' = removal
           ELSE RemoveFrom([s EXCEPT !.activated = FALSE, !.used = TRUE], c, 0, 0)
    /\ pc' = [pc EXCEPT ![c] = IF removal'.by = c THEN "removing" ELSE "clear"]
    /\ UNCHANGED <<exit, main, n, plan, escaped>>

DeactivateContinues(c) ==
    /\ Up /\ pc[c] = "removing" /\ removal.by = c /\ exit[removal.cpu] = NoExit
    /\ RemoveFrom(q, c, removal.cpu, removal.order)
    /\ pc' = [pc EXCEPT ![c] = IF removal'.by = c THEN "removing" ELSE "clear"]
    /\ UNCHANGED <<exit, main, n, plan, escaped>>

\* FOOTPRINT_BP only reads; CLEAR_BP follows it.
Clear(c) ==
    /\ InGuest(c) /\ pc[c] = "clear"
    /\ q' = clear_breakpoint(q, c)
    /\ pc' = [pc EXCEPT ![c] = "done"]
    /\ UNCHANGED <<removal, exit, main, n, plan, escaped>>

Die(c) ==
    /\ InGuest(c) /\ main = "exit" /\ pc[c] \notin {"done", "dead", "removing"}
    /\ plan.kill = "in_syscall" => Hook \notin q.hw[c]
    /\ pc' = [pc EXCEPT ![c] = "dead"]
    /\ UNCHANGED <<q, removal, exit, main, n, plan, escaped>>

-----------------------------------------------------------------------------
(* The vCPU loop *)

HitBreakpoint(c) ==
    /\ InGuest(c)
    /\ \E rip \in q.hw[c], ctx \in plan.contexts :
         /\ ctx = "task" => pc[c] = "syscall"
         /\ ctx = "irq" => rip # Hook
         /\ exit' = [exit EXCEPT ![c] = [rip |-> rip, ctx |-> ctx]]
    /\ UNCHANGED <<q, removal, main, pc, n, plan, escaped>>

HandleBreakpoint(c) ==
    /\ Up /\ exit[c] # NoExit
    /\ q' = handle_breakpoint(q, c, exit[c].rip, exit[c].ctx)
    /\ exit' = [exit EXCEPT ![c] = NoExit]
    /\ UNCHANGED <<removal, main, pc, n, plan, escaped>>

TimerFires(c) ==
    /\ Up /\ q.armed[c]
    /\ q' = [q EXCEPT !.armed[c] = FALSE, !.kicked[c] = TRUE]
    /\ UNCHANGED <<removal, exit, main, pc, n, plan, escaped>>

\* KVM_RUN returned -EINTR.
HandleKick(c) ==
    /\ Up /\ exit[c] = NoExit /\ q.kicked[c] /\ removal.by # c
    /\ q' = handle_kick(q, c)
    /\ escaped' = (escaped \/ q.blocked[c])
    /\ UNCHANGED <<removal, exit, main, pc, n, plan>>

PostRun(c) ==
    /\ Up /\ exit[c] = NoExit /\ q.waking_up[c]
    /\ q' = resume_task(q, c)
    /\ UNCHANGED <<removal, exit, main, pc, n, plan, escaped>>

-----------------------------------------------------------------------------
Main == Reset \/ ResetContinues \/ EnableKssb \/ Prepare \/ Wait \/ DisableKssb
            \/ Kill \/ NextProgram

Worker(c) == Install(c) \/ Activate(c) \/ SyscallReturns(c) \/ Deactivate(c)
                \/ DeactivateContinues(c) \/ Clear(c) \/ Die(c)

Vcpu(c) == HitBreakpoint(c) \/ HandleBreakpoint(c) \/ TimerFires(c)
                \/ HandleKick(c) \/ PostRun(c)

Next == Main \/ \E c \in Workers : Worker(c) \/ Vcpu(c)

Spec == Init /\ [][Next]_vars

-----------------------------------------------------------------------------
(* Fairness.  vCPU threads and timers run; the executor's threads are      *)
(* scheduled, and a system call enters the kernel through the hook and     *)
(* returns.  Weak fairness is written out, []<>~ENABLED A \/ []<><<A>>:    *)
(* what enables each thread, and what only that thread does to its own     *)
(* state.                                                                  *)

MainEnabled ==
    /\ Up
    /\ main = "resetting" => exit[removal.cpu] = NoExit
    /\ main = "run" /\ plan.kill = "never" => \A c \in Workers : pc[c] = "done"
    /\ main = "exit" => \A c \in Workers : pc[c] \in {"done", "dead"}

\* In a system call the thread runs into the hook or returns.
GuestEnabled(c) ==
    \/ InGuest(c) /\ pc[c] \in {"install", "activate", "syscall", "deactivate", "clear"}
    \/ Up /\ pc[c] = "removing" /\ exit[removal.cpu] = NoExit

Fairness ==
    /\ []<>(~ MainEnabled) \/ []<><<main' # main \/ (main = "resetting" /\ removal' # removal)>>_vars
    /\ \A c \in Workers :
         /\ []<>(~ GuestEnabled(c)) \/ []<><<\/ <<pc'[c], n'[c]>> # <<pc[c], n[c]>>
                                             \/ pc[c] = "removing" /\ removal' # removal
                                             \/ exit[c] = NoExit /\ exit'[c].rip = Hook>>_vars
         /\ []<>(exit[c] = NoExit) \/ []<><<exit'[c] = NoExit>>_exit
         /\ []<>(~ q.armed[c]) \/ []<><<q.armed[c] /\ ~ q'.armed[c]>>_q
         /\ []<>(~ (exit[c] = NoExit /\ q.kicked[c])) \/ []<><<q.kicked[c] /\ ~ q'.kicked[c]>>_q
         /\ []<>(~ q.waking_up[c]) \/ []<><<q.waking_up[c] /\ ~ q'.waking_up[c]>>_q

FairSpec == Spec /\ Fairness

-----------------------------------------------------------------------------
(* Properties *)

PlanAddrs == UNION {{p.points[i].addr : i \in DOMAIN p.points} : p \in Plans}

EntryType ==
    [addr : PlanAddrs \cup {NoAddr}, order : 0 .. MaxSchedpoints - 1,
     footprint : Footprints, installed : BOOLEAN,
     task : Workers \cup {0}, cpu : Workers \cup {0}]

\* Types, with the bounds the arrays of struct qcsched and the debug registers
\* need: the focus never leaves the schedule, a window never overflows.
TypeOK ==
    /\ q.entries \in [0 .. MaxSchedpoints - 1 -> EntryType]
    /\ q.total \in 0 .. MaxSchedpoints /\ q.current \in 0 .. q.total
    /\ \A c \in Workers :
         /\ q.window[c].activated \in 0 .. WindowSize
         /\ {q.window[c].from, q.window[c].until, q.window[c].left_behind} \subseteq 0 .. END
         /\ q.state[c] \in {"idle", "ready", "activated", "deactivated"}
         /\ q.hw[c] \subseteq {Hook} \cup PlanAddrs
         /\ pc[c] \in {"install", "activate", "syscall", "deactivate", "removing",
                       "clear", "done", "dead"}
    /\ main \in {"reset", "resetting", "enable", "prepare", "run", "disable", "exit"}

\* No interleaving of the handlers makes QEMU exit: every ASSERT of hcall.c,
\* window.c, breakpoint.c and exec_control.c holds (no breakpoint is inserted
\* twice or without a free debug register, no vCPU is kidnapped twice, ...).
NoAssertFails == q.fault = "none"

Installed(c) == {i \in Own(q, c) : q.entries[i].installed}

\* The four accounts of a vCPU's breakpoints agree, although other vCPUs prune
\* its entries, interrupts consume its breakpoints, and DEACTIVATE removes them.
\* No breakpoint leaks: apart from the hook, the debug registers hold only entries
\* marked installed, so close_window() finds them.  window->activated, which bounds
\* the registers in use, is the number of entries marked.  A marked entry is in the
\* window or, if another vCPU pruned it, not before left_behind, so that
\* cleanup_left_schedpoint() reaches all entries the window has lost.
BreakpointsAccounted ==
    \A c \in Workers :
        /\ q.hw[c] \ {Hook} \subseteq {q.entries[i].addr : i \in Installed(c)}
        /\ main # "resetting" =>
              /\ q.window[c].activated = Cardinality(Installed(c))
              /\ \A i \in Installed(c) :
                    /\ i < q.window[c].until
                    /\ i >= Min({q.window[c].from, q.window[c].left_behind})

\* c is past its hook, in the schedule, and not held back.
Running(c) ==
    /\ pc[c] = "syscall" /\ exit[c] = NoExit /\ ~ q.blocked[c]
    /\ q.state[c] = "activated" /\ q.window[c].total # 0 /\ Hook \notin q.hw[c]

\* What the scheduler is for: while the schedule is active and not used up, only
\* the vCPU that owns the current schedpoint runs its system call, unless a
\* self-escape timer forced a vCPU on (or left its force_wakeup flag behind).
TurnExclusion ==
    (/\ q.activated /\ q.current < q.total /\ ~ escaped
     /\ \A c \in Workers : ~ q.force_wakeup[c])
        => \A c \in Workers : Running(c) => q.entries[q.current].cpu = c

\* A vCPU is held back only for an active schedule: once DEACTIVATE or RESET is
\* through, every vCPU runs freely.
KidnappedForSchedule ==
    \A c \in Workers : q.blocked[c] => q.activated \/ removal # NoRemoval

\* An active schedule goes forward only: its focus (sched.current) never goes
\* back, and no schedpoint is recorded as hit after a later one, even after a
\* forced wake-up or a pruned schedpoint.
ScheduleGoesForward ==
    [][/\ q.activated /\ q'.activated => q'.current >= q.current
       /\ \A i, j \in Orders(q) :
            /\ q.activated /\ q.entries[i].footprint # "hit" /\ q'.entries[i].footprint = "hit"
            /\ j > i /\ Dummy \notin {q.entries[i].addr, q.entries[j].addr}
            => q.entries[j].footprint # "hit"]_vars

\* The blocker's promise, with its flags read off q.
Blocker == INSTANCE ExecControl WITH
    Vcpus <- Workers, blocked <- q.blocked, waking_up <- q.waking_up,
    kicked <- q.kicked, force_wakeup <- q.force_wakeup, armed <- q.armed

\* Handlers, hypercalls and the vCPU loop use the blocker's flags only as
\* ExecControl says, so what is proved there holds of the scheduler.
ImplementsExecControl == Blocker!Spec

\* Every program ends: no vCPU is held back for ever, whichever schedpoints its
\* system call meets, and no DEACTIVATE or RESET waits for ever.
ProgramsEnd == main = "run" ~> main = "reset"

-----------------------------------------------------------------------------
(* What comments of the code say, and the code does not do *)

\* hcall.c:87: RESET "hard reset[s] a previous schedule", so that nothing of it
\* meets the next one: no breakpoint is left on a worker's vCPU, nor the flag that
\* lets a vCPU pass out of turn.
ResetLeavesNothing ==
    main = "prepare" => \A c \in Workers : q.hw[c] = {} /\ ~ q.force_wakeup[c]

\* hcall.c:283: when a schedule starts, "we assume all CPUs are ready": no vCPU
\* it uses has already finished its system call.
ActiveWithAllReady ==
    q.activated => \A c \in Workers :
        c < 1 + q.nr_cpus => q.state[c] \in {"ready", "activated"}
=============================================================================
