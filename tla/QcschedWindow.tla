--------------------------- MODULE QcschedWindow ---------------------------
(***************************************************************************)
(* The schedpoint windows of QCSCHED (tools/qemu/qcsched/window.c).        *)
(*                                                                         *)
(* A schedule is an array of schedpoints (sched.entries), totally ordered  *)
(* by "order".  Every vCPU owns some of them, and keeps a window [from,    *)
(* until) over its own entries: only the entries of the window have a      *)
(* hardware breakpoint.  All functions of window.c run under QEMU's big    *)
(* lock (BQL), so each is an operator from a scheduler state q to the next *)
(* one.  q is the record of struct qcsched (total, current, activated,     *)
(* entries, window, ...), of the per-vCPU hardware breakpoints (hw) and of *)
(* the execution-control flags; q.fault is the first ASSERT that failed    *)
(* (qcsched.h exits QEMU), or "none".                                      *)
(*                                                                         *)
(* A struct qcsched_entry * is its index in sched.entries and NULL is END, *)
(* which no index reaches.                                                 *)
(***************************************************************************)
EXTENDS Integers, FiniteSetsExt, Sequences

CONSTANTS
    Workers,         \* the vCPUs that run worker threads (CPU 0 does not)
    MaxSchedpoints,  \* MAX_SCHEDPOINTS
    WindowSize,      \* SCHEDPOINT_WINDOW_SIZE
    HwSlots,         \* debug registers of an x86 vCPU
    Hook,            \* vmi_info.hook_addr
    Dummy,           \* QCSCHED_DUMMY_BREAKPOINT
    NoAddr           \* the address 0 of a zeroed entry

ASSUME WorkersAssumption == Workers \subseteq Nat \ {0}
ASSUME BoundsAssumption ==
    /\ MaxSchedpoints \in Nat \ {0}
    /\ WindowSize \in Nat \ {0}
    /\ HwSlots \in Nat \ {0}
    /\ Cardinality({Hook, Dummy, NoAddr}) = 3

END == MaxSchedpoints + 1

Footprints == {"preserved", "missed", "dropped", "hit", "not_addressed"}

ZeroEntry == [addr |-> NoAddr, order |-> 0, footprint |-> "preserved",
              installed |-> FALSE, task |-> 0, cpu |-> 0]

\* ASSERT(cond, ...): QEMU exits; the first failing assertion is kept.
Insist(q, cond, what) ==
    IF cond \/ q.fault # "none" THEN q ELSE [q EXCEPT !.fault = what]

\* A loop of window.c that leads from q to r changes nothing but this.
WithWindows(q, r) ==
    [q EXCEPT !.entries = [i \in DOMAIN q.entries |->
                  [q.entries[i] EXCEPT !.footprint = r.entries[i].footprint,
                                       !.installed = r.entries[i].installed]],
              !.window = r.window, !.hw = r.hw, !.fault = r.fault]

\* A loop that applies an operation to the numbers of S, in ascending order.
ForOrders(Op(_, _), q, S) ==
    WithWindows(q, MapThenFoldSet(LAMBDA i, s : Op(s, i), q, LAMBDA i : i, Max, S))

-----------------------------------------------------------------------------
(* Looking entries up *)

Orders(q) == 0 .. q.total - 1

Own(q, c) == {i \in Orders(q) : q.entries[i].cpu = c}

\* What lookup_entry_by_order() considers, on one vCPU and (cpu = NULL) on all.
NotMissed(q) == {i \in Orders(q) : q.entries[i].footprint # "missed"}

OwnNotMissed(q, c) == Own(q, c) \cap NotMissed(q)

lookup_entry_by_order(S, from) ==
    LET after == {i \in S : i >= from}
    IN  IF after = {} THEN END ELSE Min(after)

lookup_entry_by_address(q, c, rip) ==
    lookup_entry_by_order({i \in Own(q, c) : q.entries[i].addr = rip},
                          q.window[c].from)

\* The order field is read through the pointer: it is 0 in a zeroed entry.
next_valid_order_of(q, S, order) ==
    LET i == lookup_entry_by_order(S, order + 1)
    IN  IF i = END THEN q.total ELSE q.entries[i].order

-----------------------------------------------------------------------------
(* Per-vCPU hardware breakpoints (kvm-percpu.c) *)

\* The ASSERTed insertions: -EEXIST and -ENOBUFS exit QEMU.
insert_breakpoint(q, c, addr, what) ==
    [Insist(q, addr \notin q.hw[c] /\ Cardinality(q.hw[c]) < HwSlots, what)
        EXCEPT !.hw[c] = @ \cup {addr}]

remove_breakpoints(q, c, addrs) == [q EXCEPT !.hw[c] = @ \ addrs]

-----------------------------------------------------------------------------
(* Expanding a window *)

window_full(q, c) == q.window[c].activated = WindowSize

activate_entry(q, c, i) ==
    LET q1 == Insist(q, ~window_full(q, c), "window full")
        a  == q.entries[i].addr
    IN  IF a = Dummy \/ q.entries[i].installed
        THEN q1
        ELSE [insert_breakpoint(q1, c, a, "insert schedpoint") EXCEPT
                !.entries[i].installed = TRUE,
                !.window[c].activated = @ + 1]

expand_window_1(q, c) ==
    LET w  == q.window[c]
        i  == lookup_entry_by_order(OwnNotMissed(q, c), w.until)
        q1 == IF w.activated = 0 THEN [q EXCEPT !.window[c].from = i] ELSE q
    IN  IF i = END
        THEN q
        ELSE [activate_entry(q1, c, i) EXCEPT !.window[c].until =
                lookup_entry_by_order(OwnNotMissed(q, c), i + 1)]

expand_window(q, c) ==
    ForOrders(LAMBDA s, n : IF window_full(s, c) THEN s ELSE expand_window_1(s, c),
              q, 1 .. WindowSize)

-----------------------------------------------------------------------------
(* Shrinking and closing a window; c is the vCPU that executes *)

leave_footprint_at(q, c, footprint, i) ==
    IF i >= q.total \/ q.entries[i].cpu # c
    THEN q
    ELSE [q EXCEPT !.entries[i].footprint =
            IF q.entries[i].addr = Dummy THEN "hit" ELSE footprint]

\* Entries of another vCPU are only marked as left behind: that vCPU cleans
\* them up when it next hits a breakpoint.
deactivate_entry(q, c, i) ==
    LET k  == q.entries[i].cpu
        q1 == Insist(q, q.window[k].activated # 0, "window empty")
    IN  CASE ~ q.entries[i].installed -> q
          [] q.entries[i].installed /\ k # c ->
               [q1 EXCEPT !.window[k].left_behind = Min({@, i})]
          [] q.entries[i].installed /\ k = c ->
               [remove_breakpoints(q1, c, {q.entries[i].addr}) EXCEPT
                    !.entries[i].installed = FALSE,
                    !.window[c].activated = @ - 1]

do_shrink_entry(q, c, i) ==
    LET k  == q.entries[i].cpu
        q1 == deactivate_entry(q, c, i)
        w  == q1.window[k]
        from == lookup_entry_by_order(OwnNotMissed(q1, k), w.from + 1)
    IN  IF i < w.from
        THEN Insist(q1, w.from <= w.until, "from > until")
        ELSE [q1 EXCEPT !.window[k].from = from,
                        !.window[k].until = Max({@, from})]

shrink_before_entry(q, c, i) ==
    LET k  == q.entries[i].cpu
        q1 == ForOrders(LAMBDA s, j : do_shrink_entry(s, c, j), q,
                        {j \in Own(q, k) : q.window[k].from <= j /\ j < i})
    IN  Insist(q1, i = q1.window[k].from, "not the first entry")

shrink_entry(q, c, i) ==
    LET k == q.entries[i].cpu
    IN  do_shrink_entry(IF i > q.window[k].from THEN shrink_before_entry(q, c, i) ELSE q,
                        c, i)

shrink_window(q, c) ==
    LET i == lookup_entry_by_order(OwnNotMissed(q, c), q.window[c].from)
    IN  IF q.window[c].activated = 0 \/ i = END THEN q ELSE shrink_entry(q, c, i)

ClosedWindow(activated) ==
    [total |-> 0, activated |-> activated, from |-> END, until |-> END, left_behind |-> END]

close_window(q, c) ==
    LET open == {i \in Own(q, c) : q.entries[i].footprint = "preserved"}
        live == {i \in open : q.entries[i].installed}
        n    == q.window[c].activated - Cardinality(live)
        Left(i) == CASE q.entries[i].addr = Dummy -> "hit"
                     [] i \in live -> "missed"
                     [] OTHER -> "not_addressed"
        q1   == [remove_breakpoints(q, c, {q.entries[i].addr : i \in live}) EXCEPT
                   !.entries = [i \in DOMAIN q.entries |->
                        IF i \in open
                        THEN [q.entries[i] EXCEPT !.footprint = Left(i), !.installed = FALSE]
                        ELSE q.entries[i]],
                   !.window[c] = ClosedWindow(n)]
    IN  Insist(q1, n = 0, "entries left in a closed window")

-----------------------------------------------------------------------------
(* Following the focus of the schedule (sched.current) *)

\* Missed schedpoints are the entries between the one that should have been
\* hit and the one that was, whichever vCPU they are on.
prune_missed_schedpoint(q, c, rip) ==
    LET hit   == lookup_entry_by_address(q, c, rip)
        legit == lookup_entry_by_order(OwnNotMissed(q, c), q.window[c].from)
        Prune(s, i) ==
            LET e == s.entries[i]
            IN  IF e.footprint = "missed" \/ e.cpu = 0 \/ s.window[e.cpu].total = 0
                THEN s
                ELSE shrink_entry(leave_footprint_at(s, c, "missed", i), c, i)
    IN  IF hit = END \/ legit = END
        THEN close_window(q, c)
        ELSE ForOrders(Prune, q, legit .. hit - 1)

\* The first entry is looked up from left_behind, but the footprint is left at
\* left_behind itself.
cleanup_left_schedpoint(q, c) ==
    LET w     == q.window[c]
        first == lookup_entry_by_order(OwnNotMissed(q, c), w.left_behind)
        seen  == IF w.left_behind >= w.from \/ first = END THEN {}
                 ELSE {i \in OwnNotMissed(q, c) : i = first \/ (first < i /\ i < w.from)}
        live  == {i \in seen : q.entries[i].installed}
        marks == {IF i = first THEN w.left_behind ELSE i : i \in live}
        q1    == Insist(q, w.activated >= Cardinality(live), "window empty")
        q2    == ForOrders(LAMBDA s, i : leave_footprint_at(s, c, "dropped", i), q1, marks)
    IN  [remove_breakpoints(q2, c, {q.entries[i].addr : i \in live}) EXCEPT
            !.entries = [i \in DOMAIN q2.entries |->
                IF i \in live THEN [q2.entries[i] EXCEPT !.installed = FALSE] ELSE q2.entries[i]],
            !.window[c].activated = @ - Cardinality(live),
            !.window[c].left_behind = END]

\* Mutant: the window does not follow the focus.
window_sync_never(q, c) == q

window_sync(q, c) ==
    LET w    == q.window[c]
        from == lookup_entry_by_order(OwnNotMissed(q, c), q.current)
    IN  IF q.current <= w.from
        THEN q
        ELSE [q EXCEPT !.window[c].from = from,
                       !.window[c].until = Max({@, from}),
                       !.window[c].left_behind = Min({@, w.from})]

hit_stale_schedpoint(q, c, rip) == lookup_entry_by_address(q, c, rip) = END

\* The vCPU the baton goes to: another activated one, and any if there is none.
hand_over_baton_from(q, c, order) ==
    LET others == {k \in Workers \ {c} : q.state[k] = "activated"}
        S == IF others = {} THEN NotMissed(q) ELSE OwnNotMissed(q, Min(others))
    IN  [q EXCEPT !.current = next_valid_order_of(q, S, order)]

keep_this_cpu_going(q, c) ==
    LET next == lookup_entry_by_order(OwnNotMissed(q, c), q.window[c].from)
    IN  [q EXCEPT !.current = IF next = END THEN q.total ELSE q.entries[next].order]

consecutive_schedpoint(q, c, order) ==
    LET next == next_valid_order_of(q, NotMissed(q), order)
        i    == lookup_entry_by_order(NotMissed(q), next)
    IN  next = q.total \/ i = END \/ q.entries[i].cpu = c
=============================================================================
