--------------------------- MODULE QcschedProofs ---------------------------
(***************************************************************************)
(* The scheduler uses the blocker as ExecControl says, for any vCPUs, any  *)
(* schedules and any sizes: what each function of window.c, breakpoint.c,  *)
(* hcall.c and exec_control.c does to the flags and the schedule, then one *)
(* step per action.  And it holds vCPUs back only for a schedule.          *)
(***************************************************************************)
EXTENDS Qcsched, WellFoundedInduction, TLAPS

USE SMTT(30)

-----------------------------------------------------------------------------
(* The functions, in any state: most leave the flags alone (Keeps), the    *)
(* breakpoint handler may kidnap its own vCPU and wake up others           *)
(* (Handled), DEACTIVATE and RESET set vCPUs free (EscapedIn).             *)

Fields == {"total", "current", "orig_nr_bps", "nr_cpus", "activated", "used",
           "kssb_enabled", "entries", "window", "state", "last_breakpoint", "hw",
           "blocked", "waking_up", "kicked", "force_wakeup", "armed", "fault"}

IsState(s) == DOMAIN s = Fields /\ \A i \in DOMAIN s.entries : "task" \in DOMAIN s.entries[i]

\* t is a scheduler state with the blocker's flags of s.
SameFlags(s, t) ==
    /\ IsState(t)
    /\ t.blocked = s.blocked /\ t.waking_up = s.waking_up /\ t.kicked = s.kicked
    /\ t.force_wakeup = s.force_wakeup /\ t.armed = s.armed

\* The schedpoints of t are those of s, and belong to the same tasks.
SameTasks(s, t) ==
    /\ t.total = s.total /\ DOMAIN t.entries = DOMAIN s.entries
    /\ \A i \in DOMAIN s.entries : t.entries[i].task = s.entries[i].task

\* They are also as active.
SameSchedule(s, t) == SameTasks(s, t) /\ t.activated = s.activated /\ t.used = s.used

Keeps(s, t) == SameFlags(s, t) /\ SameSchedule(s, t)

\* Two operations in a row that keep the flags and the schedule keep them.
LEMMA KeepsTrans ==
    ASSUME NEW r, NEW s, NEW t, Keeps(r, s), Keeps(s, t) PROVE Keeps(r, t)
  BY DEF Keeps, SameFlags, SameSchedule, SameTasks

\* Where nothing is done everything is kept.
LEMMA KeepsRefl ==
    ASSUME NEW s, IsState(s) PROVE Keeps(s, s)
  BY DEF Keeps, SameFlags, SameSchedule, SameTasks

\* The same for operations that keep the flags only.
LEMMA FlagsTrans ==
    ASSUME NEW r, NEW s, NEW t, SameFlags(r, s), SameFlags(s, t) PROVE SameFlags(r, t)
  BY DEF SameFlags

\* An operation that writes no field the flags and the schedule are in.
LEMMA KeepsOthers ==
    ASSUME NEW s, NEW t, IsState(s), DOMAIN t = Fields, t.entries = s.entries,
           t.blocked = s.blocked, t.waking_up = s.waking_up, t.kicked = s.kicked,
           t.force_wakeup = s.force_wakeup, t.armed = s.armed,
           t.activated = s.activated, t.used = s.used, t.total = s.total
    PROVE  Keeps(s, t)
  BY DEF Keeps, SameFlags, SameSchedule, SameTasks, IsState

\* What keeps the flags is a scheduler state again.
LEMMA KeepsState ==
    ASSUME NEW s, NEW t, Keeps(s, t) PROVE IsState(t)
  BY DEF Keeps, SameFlags

-----------------------------------------------------------------------------
(* window.c and kvm-percpu.c *)

\* A loop of window.c keeps the flags, whatever it does to entries, windows and
\* breakpoints.
LEMMA KeepsWithWindows ==
    ASSUME NEW s, NEW r, IsState(s) PROVE Keeps(s, WithWindows(s, r))
  BY DEF WithWindows, Keeps, SameFlags, SameSchedule, SameTasks, IsState, Fields

\* An ASSERT keeps the flags, failing or not.
LEMMA KeepsInsist ==
    ASSUME NEW s, NEW cond, NEW what, IsState(s) PROVE Keeps(s, Insist(s, cond, what))
  BY Zenon DEF Insist, Keeps, SameFlags, SameSchedule, SameTasks, IsState, Fields

\* kvm_insert_breakpoint_cpu() keeps the flags.
LEMMA KeepsInsert ==
    ASSUME NEW s, NEW c, NEW a, NEW what, IsState(s)
    PROVE  Keeps(s, insert_breakpoint(s, c, a, what))
<1> DEFINE t == Insist(s, a \notin s.hw[c] /\ Cardinality(s.hw[c]) < HwSlots, what)
<1>1. Keeps(s, t)
    BY KeepsInsist, ZenonT(60)
<1>2. Keeps(t, [t EXCEPT !.hw[c] = @ \cup {a}])
    BY <1>1 DEF Keeps, SameFlags, SameSchedule, SameTasks, IsState, Fields
<1> QED
    BY <1>1, <1>2, KeepsTrans DEF insert_breakpoint

\* kvm_remove_breakpoint_cpu() keeps the flags.
LEMMA KeepsRemove ==
    ASSUME NEW s, NEW c, NEW A, IsState(s)
    PROVE  Keeps(s, remove_breakpoints(s, c, A)) /\ remove_breakpoints(s, c, A).entries = s.entries
  BY DEF remove_breakpoints, Keeps, SameFlags, SameSchedule, SameTasks, IsState, Fields

\* qcsched_window_expand_window() keeps the flags.
LEMMA KeepsExpand ==
    ASSUME NEW s, NEW c, IsState(s) PROVE Keeps(s, expand_window(s, c))
  BY KeepsWithWindows, Zenon DEF expand_window, ForOrders

\* qcsched_window_leave_footprint_at() keeps the flags.
LEMMA KeepsFootprint ==
    ASSUME NEW s, NEW c, NEW f, NEW i, IsState(s) PROVE Keeps(s, leave_footprint_at(s, c, f, i))
  BY DEF leave_footprint_at, Keeps, SameFlags, SameSchedule, SameTasks, IsState, Fields

\* deactivate_entry() keeps the flags, for an own entry and for another vCPU's.
LEMMA KeepsDeactivate ==
    ASSUME NEW s, NEW c, NEW i, IsState(s) PROVE Keeps(s, deactivate_entry(s, c, i))
<1> DEFINE k == s.entries[i].cpu
           t == Insist(s, s.window[k].activated # 0, "window empty")
           u == remove_breakpoints(t, c, {s.entries[i].addr})
<1>1. Keeps(s, t)
    BY KeepsInsist, Zenon
<1>2. Keeps(t, u)
    BY <1>1, KeepsState, KeepsRemove, Zenon
<1>3. Keeps(t, [t EXCEPT !.window[k].left_behind = Min({@, i})])
  <2> HIDE DEF t
  <2> QED BY <1>1 DEF Keeps, SameFlags, SameSchedule, SameTasks, IsState, Fields
<1>4. Keeps(u, [u EXCEPT !.entries[i].installed = FALSE, !.window[c].activated = @ - 1])
  <2> HIDE DEF u
  <2> QED BY <1>2, Zenon DEF Keeps, SameFlags, SameSchedule, SameTasks, IsState, Fields
<1>5. Keeps(s, s)
    BY KeepsRefl, Zenon
<1> QED
    BY <1>1, <1>2, <1>3, <1>4, <1>5, KeepsTrans, Zenon DEF deactivate_entry

\* do_shrink_entry() keeps the flags.
LEMMA KeepsDoShrink ==
    ASSUME NEW s, NEW c, NEW i, IsState(s) PROVE Keeps(s, do_shrink_entry(s, c, i))
<1> DEFINE k == s.entries[i].cpu
           t == deactivate_entry(s, c, i)
           from == lookup_entry_by_order(OwnNotMissed(t, k), t.window[k].from + 1)
<1>1. Keeps(s, t)
    BY KeepsDeactivate
<1>2. Keeps(t, Insist(t, t.window[k].from <= t.window[k].until, "from > until"))
    BY <1>1, KeepsState, KeepsInsist, Zenon
<1>3. Keeps(t, [t EXCEPT !.window[k].from = from, !.window[k].until = Max({@, from})])
  <2> HIDE DEF t, from
  <2> QED BY <1>1 DEF Keeps, SameFlags, SameSchedule, SameTasks, IsState, Fields
<1> QED
    BY <1>1, <1>2, <1>3, KeepsTrans, Zenon DEF do_shrink_entry

\* Shrinking all entries before a given one keeps the flags.
LEMMA KeepsShrinkBefore ==
    ASSUME NEW s, NEW c, NEW i, IsState(s) PROVE Keeps(s, shrink_before_entry(s, c, i))
<1> DEFINE k == s.entries[i].cpu
           t == ForOrders(LAMBDA r, j : do_shrink_entry(r, c, j), s,
                          {j \in Own(s, k) : s.window[k].from <= j /\ j < i})
<1>1. Keeps(s, t)
    BY KeepsWithWindows, Zenon DEF ForOrders
<1>2. Keeps(t, Insist(t, i = t.window[k].from, "not the first entry"))
    BY <1>1, KeepsState, KeepsInsist, Zenon
<1> QED
    BY <1>1, <1>2, KeepsTrans, Zenon DEF shrink_before_entry

\* qcsched_window_shrink_window() keeps the flags.
LEMMA KeepsShrink ==
    ASSUME NEW s, NEW c, IsState(s) PROVE Keeps(s, shrink_window(s, c))
<1>1. ASSUME NEW i
      PROVE  Keeps(s, shrink_entry(s, c, i))
  <2> DEFINE t == IF i > s.window[s.entries[i].cpu].from THEN shrink_before_entry(s, c, i) ELSE s
  <2>1. Keeps(s, s)
      BY KeepsRefl, Zenon
  <2>2. Keeps(s, t)
      BY <2>1, KeepsShrinkBefore, ZenonT(60)
  <2>3. Keeps(t, do_shrink_entry(t, c, i))
      BY <2>2, KeepsState, KeepsDoShrink
  <2>4. shrink_entry(s, c, i) = do_shrink_entry(t, c, i)
      BY DEF shrink_entry
  <2> HIDE DEF t
  <2> QED
      BY <2>2, <2>3, <2>4, KeepsTrans, Zenon
<1>2. Keeps(s, s)
    BY KeepsRefl, Zenon
<1> QED
    BY <1>1, <1>2, Zenon DEF shrink_window

\* qcsched_window_close_window() keeps the flags.
LEMMA KeepsClose ==
    ASSUME NEW s, NEW c, IsState(s) PROVE Keeps(s, close_window(s, c))
<1> DEFINE open == {i \in Own(s, c) : s.entries[i].footprint = "preserved"}
           live == {i \in open : s.entries[i].installed}
           m    == s.window[c].activated - Cardinality(live)
           Left(i) == CASE s.entries[i].addr = Dummy -> "hit"
                        [] i \in live -> "missed"
                        [] OTHER -> "not_addressed"
           t == remove_breakpoints(s, c, {s.entries[i].addr : i \in live})
           u == [t EXCEPT
                   !.entries = [i \in DOMAIN s.entries |->
                        IF i \in open
                        THEN [s.entries[i] EXCEPT !.footprint = Left(i), !.installed = FALSE]
                        ELSE s.entries[i]],
                   !.window[c] = ClosedWindow(m)]
<1>1. Keeps(s, t) /\ t.entries = s.entries
    BY KeepsRemove, Zenon
<1>2. Keeps(t, u)
  <2> HIDE DEF t, open, m, Left
  <2> QED BY <1>1 DEF Keeps, SameFlags, SameSchedule, SameTasks, IsState, Fields
<1>3. Keeps(u, Insist(u, m = 0, "entries left in a closed window"))
    BY <1>2, KeepsState, KeepsInsist, Zenon
<1> QED
    BY <1>1, <1>2, <1>3, KeepsTrans, Zenon DEF close_window

\* qcsched_window_prune_missed_schedpoint() keeps the flags, although it changes
\* the windows of other vCPUs.
LEMMA KeepsPrune ==
    ASSUME NEW s, NEW c, NEW rip, IsState(s) PROVE Keeps(s, prune_missed_schedpoint(s, c, rip))
  BY KeepsClose, KeepsWithWindows, Zenon DEF prune_missed_schedpoint, ForOrders

\* qcsched_window_cleanup_left_schedpoint() keeps the flags.
LEMMA KeepsCleanup ==
    ASSUME NEW s, NEW c, IsState(s) PROVE Keeps(s, cleanup_left_schedpoint(s, c))
<1> DEFINE w     == s.window[c]
           first == lookup_entry_by_order(OwnNotMissed(s, c), w.left_behind)
           seen  == IF w.left_behind >= w.from \/ first = END THEN {}
                    ELSE {i \in OwnNotMissed(s, c) : i = first \/ (first < i /\ i < w.from)}
           live  == {i \in seen : s.entries[i].installed}
           marks == {IF i = first THEN w.left_behind ELSE i : i \in live}
           q1    == Insist(s, w.activated >= Cardinality(live), "window empty")
           q2    == ForOrders(LAMBDA r, i : leave_footprint_at(r, c, "dropped", i), q1, marks)
           q3    == remove_breakpoints(q2, c, {s.entries[i].addr : i \in live})
           q4    == [q3 EXCEPT
                       !.entries = [i \in DOMAIN q2.entries |->
                           IF i \in live THEN [q2.entries[i] EXCEPT !.installed = FALSE] ELSE q2.entries[i]],
                       !.window[c].activated = @ - Cardinality(live),
                       !.window[c].left_behind = END]
<1>1. Keeps(s, q1)
    BY KeepsInsist, Zenon
<1>2. Keeps(q1, q2)
  <2> HIDE DEF q1, marks
  <2> QED BY <1>1, KeepsState, KeepsWithWindows, Zenon DEF ForOrders
<1>3. Keeps(q2, q3) /\ q3.entries = q2.entries
  <2> HIDE DEF q2, live
  <2> QED BY <1>2, KeepsState, KeepsRemove, Zenon
<1>4. Keeps(q3, q4)
  <2> HIDE DEF q3, q2, live
  <2> QED BY <1>3, Zenon DEF Keeps, SameFlags, SameSchedule, SameTasks, IsState, Fields
<1>5. q4 = cleanup_left_schedpoint(s, c)
    BY Zenon DEF cleanup_left_schedpoint
<1> QED
  <2> HIDE DEF q1, q2, q3, q4
  <2> QED BY <1>1, <1>2, <1>3, <1>4, <1>5, KeepsTrans, Zenon

\* qcsched_window_sync() keeps the flags.
LEMMA KeepsSync ==
    ASSUME NEW s, NEW c, IsState(s) PROVE Keeps(s, window_sync(s, c))
<1> DEFINE w    == s.window[c]
           from == lookup_entry_by_order(OwnNotMissed(s, c), s.current)
<1>1. Keeps(s, [s EXCEPT !.window[c].from = from, !.window[c].until = Max({@, from}),
                         !.window[c].left_behind = Min({@, w.from})])
  <2> HIDE DEF from, w
  <2> QED BY DEF Keeps, SameFlags, SameSchedule, SameTasks, IsState, Fields
<1>2. Keeps(s, s)
    BY KeepsRefl, Zenon
<1> QED
    BY <1>1, <1>2, Zenon DEF window_sync

\* Handing over the baton moves the focus only: waking the others up is a step
\* of its own in qcsched_yield_turn_from().
LEMMA KeepsHandOver ==
    ASSUME NEW s, NEW c, NEW order, IsState(s)
    PROVE  Keeps(s, hand_over_baton_from(s, c, order))
<1>1. ASSUME NEW v
      PROVE  Keeps(s, [s EXCEPT !.current = v])
    BY Zenon DEF Keeps, SameFlags, SameSchedule, SameTasks, IsState, Fields
<1> QED
    BY <1>1 DEF hand_over_baton_from

\* Keeping the turn moves the focus only.
LEMMA KeepsGoing ==
    ASSUME NEW s, NEW c, IsState(s) PROVE Keeps(s, keep_this_cpu_going(s, c))
<1>1. ASSUME NEW v
      PROVE  Keeps(s, [s EXCEPT !.current = v])
    BY DEF Keeps, SameFlags, SameSchedule, SameTasks, IsState, Fields
<1> QED
    BY <1>1 DEF keep_this_cpu_going

-----------------------------------------------------------------------------
(* The breakpoint handler, on vCPU c *)

FlagTypes(s) ==
    /\ IsState(s)
    /\ s.blocked \in [Workers -> BOOLEAN] /\ s.waking_up \in [Workers -> BOOLEAN]
    /\ s.kicked \in [Workers -> BOOLEAN] /\ s.force_wakeup \in [Workers -> BOOLEAN]
    /\ s.armed \in [Workers -> BOOLEAN]

\* The entries are those of the array, and none of them belongs to a task that is not
\* a worker's.
TasksOK(s) ==
    /\ s.total \in 0 .. MaxSchedpoints /\ DOMAIN s.entries = 0 .. MaxSchedpoints - 1
    /\ \A i \in DOMAIN s.entries : s.entries[i].task # OtherTask

\* Where the tasks are the same they are still workers'.
LEMMA SameTasksOK ==
    ASSUME NEW s, NEW t, TasksOK(s), SameTasks(s, t) PROVE TasksOK(t)
  BY DEF TasksOK, SameTasks

\* Another task than a worker's is not subject to the schedule, and owns no breakpoint.
LEMMA OthersAreFree ==
    ASSUME NEW s, TasksOK(s)
    PROVE  ~ scheduling_subject(s, OtherTask) /\ \A rip : ~ breakpoint_on_schedpoint(s, rip, OtherTask)
<1>1. \A i \in Orders(s) : s.entries[i].task # OtherTask
    BY BoundsAssumption DEF TasksOK, Orders
<1> QED
    BY <1>1, Zenon DEF scheduling_subject, breakpoint_on_schedpoint

Woken(s, c) == [k \in Workers |-> s.waking_up[k] \/ (k # c /\ s.blocked[k])]

\* What the handler may do to the flags: kidnap c, for an active schedule, or not, and
\* wake others or not.
KidnappedIn(s, t, c, waking_up) ==
    /\ s.activated /\ SameSchedule(s, t)
    /\ IsState(t) /\ t.kicked = s.kicked /\ t.force_wakeup = s.force_wakeup
    /\ t.blocked = [s.blocked EXCEPT ![c] = TRUE]
    /\ t.armed = [s.armed EXCEPT ![c] = TRUE]
    /\ t.waking_up = [waking_up EXCEPT ![c] = FALSE]

WokenIn(s, t, c) ==
    /\ SameSchedule(s, t)
    /\ IsState(t) /\ t.kicked = s.kicked /\ t.force_wakeup = s.force_wakeup
    /\ t.blocked = s.blocked /\ t.armed = s.armed
    /\ t.waking_up = Woken(s, c)

Handled(s, t, c) ==
    \/ Keeps(s, t)
    \/ KidnappedIn(s, t, c, s.waking_up)
    \/ KidnappedIn(s, t, c, Woken(s, c))
    \/ WokenIn(s, t, c)

\* What a handler may do does not depend on operations before it that keep the
\* flags.
LEMMA KeepsHandled ==
    ASSUME NEW s, NEW t, NEW u, NEW c, Keeps(s, t), Handled(t, u, c) PROVE Handled(s, u, c)
<1>1. Woken(t, c) = Woken(s, c)
    BY DEF Woken, Keeps, SameFlags
<1>2. SameSchedule(t, u) => SameSchedule(s, u)
    BY DEF Keeps, SameSchedule, SameTasks
<1>3. CASE Keeps(t, u)
    BY <1>3, KeepsTrans, Zenon DEF Handled
<1>4. CASE ~ Keeps(t, u)
    BY <1>1, <1>2, <1>4, Zenon DEF Handled, Keeps, SameFlags, SameSchedule, KidnappedIn, WokenIn
<1> QED
    BY <1>3, <1>4

\* kidnap_task() holds back the vCPU it runs on and arms its timer, or returns
\* early.
LEMMA Kidnapping ==
    ASSUME NEW s, NEW c, NEW task, IsState(s)
    PROVE  LET t == kidnap_task(s, c, task)
           IN  Keeps(s, t) \/ KidnappedIn(s, t, c, s.waking_up)
<1> DEFINE s1 == Insist(s, scheduling_subject(s, task), "kidnapping a wrong context")
           s2 == Insist(s1, ~ s.blocked[c], "kidnapping twice")
           t  == [s2 EXCEPT !.blocked[c] = TRUE, !.waking_up[c] = FALSE, !.armed[c] = TRUE]
<1>1. Keeps(s, s1)
    BY KeepsInsist, Zenon
<1>2. Keeps(s1, s2)
  <2> HIDE DEF s1
  <2> QED BY <1>1, KeepsState, KeepsInsist, Zenon
<1>3. Keeps(s, s2)
  <2> HIDE DEF s1, s2
  <2> QED BY <1>1, <1>2, KeepsTrans, Zenon
<1>4. ASSUME s.activated PROVE KidnappedIn(s, t, c, s.waking_up)
  <2> HIDE DEF s2
  <2>1. /\ DOMAIN t = Fields /\ t.entries = s2.entries /\ t.total = s2.total
        /\ t.activated = s2.activated /\ t.used = s2.used
        /\ t.kicked = s2.kicked /\ t.force_wakeup = s2.force_wakeup
        /\ t.blocked = [s2.blocked EXCEPT ![c] = TRUE]
        /\ t.armed = [s2.armed EXCEPT ![c] = TRUE]
        /\ t.waking_up = [s2.waking_up EXCEPT ![c] = FALSE]
      BY <1>3, Zenon DEF Keeps, SameFlags, IsState, Fields
  <2> HIDE DEF t
  <2>2. IsState(t)
      BY <1>3, <2>1, Zenon DEF Keeps, SameFlags, IsState
  <2>3. SameSchedule(s, t)
      BY <1>3, <2>1, Zenon DEF Keeps, SameSchedule, SameTasks
  <2> QED
      BY <1>3, <1>4, <2>1, <2>2, <2>3, Zenon DEF Keeps, SameFlags, KidnappedIn
<1> QED
    BY <1>1, <1>4, Zenon DEF kidnap_task

\* qcsched_yield_turn_from() holds back its vCPU, unless the schedule is used up,
\* and wakes up every other vCPU that is held back.
LEMMA Yielding ==
    ASSUME NEW s, NEW c \in Workers, NEW order, NEW task, FlagTypes(s)
    PROVE  Handled(s, yield_turn_from(s, c, order, task), c)
<1> DEFINE t == hand_over_baton_from(s, c, order)
           u == kidnap_task(t, c, task)
           v == wake_others_up(u, c)
<1>0. v = yield_turn_from(s, c, order, task)
    BY Zenon DEF yield_turn_from
<1>1. Keeps(s, t)
    BY KeepsHandOver DEF FlagTypes
<1>2. Keeps(t, u) \/ KidnappedIn(t, u, c, t.waking_up)
  <2> HIDE DEF t
  <2> QED BY <1>1, KeepsState, Kidnapping, Zenon
<1>3. IsState(u)
  <2> HIDE DEF u, t
  <2> QED BY <1>2 DEF Keeps, SameFlags, KidnappedIn
<1>4. /\ IsState(v) /\ SameSchedule(u, v) /\ v.blocked = u.blocked /\ v.armed = u.armed /\ v.kicked = u.kicked
      /\ v.force_wakeup = u.force_wakeup /\ v.waking_up = Woken(u, c)
  <2> HIDE DEF u
  <2> QED BY <1>3 DEF wake_others_up, IsState, Fields, Woken, SameSchedule, SameTasks
<1>5. CASE Keeps(t, u)
  <2> HIDE DEF t, u, v
  <2>1. Keeps(s, u)
      BY <1>1, <1>5, KeepsTrans, Zenon
  <2>2. WokenIn(s, v, c)
      BY <1>4, <2>1 DEF Keeps, SameFlags, SameSchedule, SameTasks, WokenIn, Woken
  <2> QED
      BY <1>0, <2>2 DEF Handled
<1>6. CASE KidnappedIn(t, u, c, t.waking_up)
  <2> HIDE DEF t, u, v
  <2>1. KidnappedIn(s, u, c, s.waking_up)
      BY <1>1, <1>6 DEF Keeps, SameFlags, SameSchedule, SameTasks, KidnappedIn
  <2>2. Woken(u, c) = [Woken(s, c) EXCEPT ![c] = FALSE]
      BY <2>1, Zenon DEF KidnappedIn, FlagTypes, Woken
  <2>3. KidnappedIn(s, v, c, Woken(s, c))
      BY <1>4, <2>1, <2>2 DEF KidnappedIn, SameSchedule, SameTasks
  <2> QED
      BY <1>0, <2>3, Zenon DEF Handled
<1> QED
    BY <1>2, <1>5, <1>6, Zenon

\* The watchdog closes windows, but holds back and wakes up nobody.
LEMMA KeepsWatchdog ==
    ASSUME NEW s, NEW c, NEW rip, IsState(s) PROVE Keeps(s, watchdog_breakpoint(s, c, rip))
<1> DEFINE count == s.last_breakpoint[c].count + 1
           max   == IF rip = Hook THEN WatchdogMax * WatchdogHookFactor ELSE WatchdogMax
           t     == [s EXCEPT !.last_breakpoint[c].count = count]
           s1    == Insist(t, count < WatchdogKill, "watchdog")
<1>1. Keeps(s, t)
  <2> HIDE DEF count
  <2> QED BY DEF Keeps, SameFlags, SameSchedule, SameTasks, IsState, Fields
<1>2. Keeps(t, s1)
  <2> HIDE DEF t, count
  <2> QED BY <1>1, KeepsState, KeepsInsist, Zenon
<1>3. Keeps(s1, close_window(s1, c))
  <2> HIDE DEF s1
  <2> QED BY <1>2, KeepsState, KeepsClose, Zenon
<1>4. Keeps(s, s1) /\ Keeps(s, close_window(s1, c))
  <2> HIDE DEF s1, t
  <2> QED BY <1>1, <1>2, <1>3, KeepsTrans, Zenon
<1>5. Keeps(s, [s EXCEPT !.last_breakpoint[c] = [rip |-> rip, count |-> 0]])
    BY Zenon DEF Keeps, SameFlags, SameSchedule, SameTasks, IsState, Fields
<1>6. \/ watchdog_breakpoint(s, c, rip) = [s EXCEPT !.last_breakpoint[c] = [rip |-> rip, count |-> 0]]
      \/ watchdog_breakpoint(s, c, rip) = s1
      \/ watchdog_breakpoint(s, c, rip) = close_window(s1, c)
  <2> QED BY DEF watchdog_breakpoint
<1> QED
  <2> HIDE DEF s1, t
  <2> QED BY <1>4, <1>5, <1>6, Zenon

\* The handler of the hook kidnaps its vCPU or keeps the flags, as it does for a task
\* that is not subject to the schedule.
LEMMA HandledHook ==
    ASSUME NEW s, NEW c, NEW task, IsState(s)
    PROVE  /\ Handled(s, handle_breakpoint_hook(s, c, task), c)
           /\ ~ scheduling_subject(s, task) => Keeps(s, handle_breakpoint_hook(s, c, task))
  BY KeepsInsert, KeepsExpand, Kidnapping, Zenon DEF handle_breakpoint_hook, Handled

\* The handler of a schedpoint keeps the flags (a stale or consecutive one), or
\* yields the turn.
LEMMA HandledSchedpoint ==
    ASSUME NEW s, NEW c \in Workers, NEW rip, NEW task, FlagTypes(s)
    PROVE  Handled(s, handle_breakpoint_schedpoint(s, c, rip, task), c)
<1> DEFINE order == lookup_entry_by_address(s, c, rip)
           s1 == prune_missed_schedpoint(s, c, rip)
           s2 == leave_footprint_at(s1, c, "hit", s1.window[c].from)
           s3 == shrink_window(s2, c)
           s4 == expand_window(s3, c)
           s5 == keep_this_cpu_going(s4, c)
           s6 == yield_turn_from(s3, c, order, task)
<1> USE DEF FlagTypes
<1>1. Keeps(s, s1)
    BY KeepsPrune
<1>2. Keeps(s1, s2)
  <2> HIDE DEF s1
  <2> QED BY <1>1, KeepsState, KeepsFootprint, Zenon
<1>3. Keeps(s2, s3)
  <2> HIDE DEF s2
  <2> QED BY <1>2, KeepsState, KeepsShrink, Zenon
<1>4. Keeps(s3, s4)
  <2> HIDE DEF s3
  <2> QED BY <1>3, KeepsState, KeepsExpand, Zenon
<1>5. Keeps(s4, s5)
  <2> HIDE DEF s4
  <2> QED BY <1>4, KeepsState, KeepsGoing, Zenon
<1>6. Keeps(s, s3) /\ Keeps(s, s5)
  <2> HIDE DEF s1, s2, s3, s4, s5
  <2> QED BY <1>1, <1>2, <1>3, <1>4, <1>5, KeepsTrans, Zenon
<1>7. Handled(s3, s6, c)
  <2> HIDE DEF s3, order
  <2>1. FlagTypes(s3)
      BY <1>6, Zenon DEF Keeps, SameFlags
  <2> QED BY <2>1, Yielding, Zenon
<1>8. Handled(s, s6, c)
  <2> HIDE DEF s3, s6
  <2> QED BY <1>6, <1>7, KeepsHandled, Zenon
<1>9. Keeps(s, s) /\ Keeps(s, expand_window(s, c))
    BY KeepsExpand, KeepsRefl, Zenon
<1>10. handle_breakpoint_schedpoint(s, c, rip, task) \in {s, expand_window(s, c), s5, s6}
    BY DEF handle_breakpoint_schedpoint
<1> QED
  <2> HIDE DEF s5, s6
  <2> QED BY <1>6, <1>8, <1>9, <1>10, Zenon DEF Handled

\* The whole KVM_EXIT_DEBUG handler of a vCPU holds back no other vCPU, and
\* resumes none itself; it holds back its own only in the worker's task.
LEMMA HandledBreakpoint ==
    ASSUME NEW s, NEW c \in Workers, NEW rip, NEW ctx, FlagTypes(s)
    PROVE  /\ Handled(s, handle_breakpoint(s, c, rip, ctx), c)
           /\ TasksOK(s) /\ ctx # "task" => Keeps(s, handle_breakpoint(s, c, rip, ctx))
<1> DEFINE task == IF ctx = "task" THEN c ELSE OtherTask
           s1 == remove_breakpoints(s, c, {rip})
           s0 == watchdog_breakpoint(s1, c, rip)
           s2 == watchdog_breakpoint(s0, c, rip)
           s4 == window_sync(s2, c)
           s3 == cleanup_left_schedpoint(s4, c)
           s5 == handle_breakpoint_hook(s3, c, task)
           s6 == handle_breakpoint_schedpoint(s3, c, rip, task)
<1>1. Keeps(s, s1)
    BY KeepsRemove, Zenon DEF FlagTypes
<1>2. Keeps(s1, s0)
  <2> HIDE DEF s1
  <2> QED BY <1>1, KeepsState, KeepsWatchdog, Zenon
<1>3. Keeps(s0, s2)
  <2> HIDE DEF s0
  <2> QED BY <1>2, KeepsState, KeepsWatchdog, Zenon
<1>4. Keeps(s2, s4)
  <2> HIDE DEF s2
  <2> QED BY <1>3, KeepsState, KeepsSync, Zenon
<1>5. Keeps(s4, s3)
  <2> HIDE DEF s4
  <2> QED BY <1>4, KeepsState, KeepsCleanup, Zenon
<1>6. Keeps(s, s3)
  <2> HIDE DEF s0, s1, s2, s3, s4
  <2> QED BY <1>1, <1>2, <1>3, <1>4, <1>5, KeepsTrans, Zenon
<1>7. FlagTypes(s3)
  <2> HIDE DEF s3
  <2> QED BY <1>6, Zenon DEF Keeps, SameFlags, FlagTypes
<1>8. Handled(s, s5, c) /\ Handled(s, s6, c)
  <2> HIDE DEF s3, task
  <2> QED BY <1>6, <1>7, HandledHook, HandledSchedpoint, KeepsHandled, Zenon DEF FlagTypes
<1>9. Keeps(s, close_window(s1, c))
  <2> HIDE DEF s1
  <2> QED BY <1>1, KeepsState, KeepsClose, KeepsTrans, Zenon
<1>10. \/ handle_breakpoint(s, c, rip, ctx) \in {close_window(s1, c), s1, s3, s5}
       \/ handle_breakpoint(s, c, rip, ctx) = s6 /\ breakpoint_on_schedpoint(s3, rip, task)
    BY Zenon DEF handle_breakpoint
<1>11. ASSUME TasksOK(s), ctx # "task"
       PROVE  Keeps(s, s5) /\ ~ breakpoint_on_schedpoint(s3, rip, task)
  <2>1. TasksOK(s3) /\ task = OtherTask
    <3> HIDE DEF s3
    <3> QED BY <1>6, <1>11, SameTasksOK, Zenon DEF Keeps, SameSchedule
  <2> HIDE DEF s3, task
  <2> QED
      BY <1>6, <1>7, <2>1, OthersAreFree, HandledHook, KeepsTrans, Zenon DEF FlagTypes
<1> QED
  <2> HIDE DEF s1, s3, s5, s6, task
  <2> QED BY <1>1, <1>6, <1>8, <1>9, <1>10, <1>11, Zenon DEF Handled

-----------------------------------------------------------------------------
(* The hypercalls *)

\* The smaller of two numbers.
LEMMA MinOfTwo ==
    ASSUME NEW a \in Nat, NEW b \in Nat PROVE Min({a, b}) \in 0 .. b
<1>1. \E y \in {a, b} : \A z \in {a, b} : y <= z
  <2>1. CASE a <= b
      BY <2>1
  <2>2. CASE b <= a
      BY <2>2
  <2> QED
      BY <2>1, <2>2
<1>2. Min({a, b}) \in {a, b} /\ \A z \in {a, b} : Min({a, b}) <= z
    BY <1>1 DEF Min
<1> QED
    BY <1>2

\* Entries may come to belong to the task of c; nothing else is done to flags and schedule.
Installs(s, t, c) ==
    /\ SameFlags(s, t) /\ t.activated = s.activated /\ t.used = s.used /\ t.total = s.total
    /\ DOMAIN t.entries = DOMAIN s.entries
    /\ \A i \in DOMAIN s.entries : t.entries[i].task \in {s.entries[i].task, c}

\* PREPARE keeps the flags, and limits the number of schedpoints.
LEMMA FlagsPrepare ==
    ASSUME NEW s, NEW k, NEW m, IsState(s)
    PROVE  /\ SameFlags(s, prepare(s, k, m)) /\ prepare(s, k, m).activated = s.activated
           /\ k \in Nat /\ TasksOK(s) => TasksOK(prepare(s, k, m))
<1> DEFINE t == [s EXCEPT !.total = Min({k, MaxSchedpoints}), !.orig_nr_bps = k,
                          !.nr_cpus = m, !.used = FALSE]
<1>1. SameFlags(s, s) /\ prepare(s, k, m) \in {s, t}
    BY DEF SameFlags, prepare
<1>2. SameFlags(s, t) /\ t.activated = s.activated
    BY DEF SameFlags, IsState, Fields
<1>3. ASSUME k \in Nat, TasksOK(s) PROVE TasksOK(t)
  <2>1. Min({k, MaxSchedpoints}) \in 0 .. MaxSchedpoints
      BY <1>3, MinOfTwo, BoundsAssumption, Zenon
  <2>2. t.total = Min({k, MaxSchedpoints}) /\ t.entries = s.entries
      BY DEF IsState, Fields
  <2> HIDE DEF t
  <2> QED
      BY <1>3, <2>1, <2>2, Zenon DEF TasksOK
<1> HIDE DEF t
<1> QED
    BY <1>1, <1>2, <1>3, Zenon

\* INSTALL_BP keeps the flags; the schedpoint is the worker's.
LEMMA FlagsInstall ==
    ASSUME NEW s, NEW c, NEW a, NEW i, NEW f, IsState(s)
    PROVE  Installs(s, install_breakpoint(s, c, a, i, f), c)
<1> DEFINE s1 == Insist(s, s.total <= s.orig_nr_bps, "total > orig_nr_bps")
           s2 == [s1 EXCEPT !.entries[i] =
                    [addr |-> a, order |-> i, cpu |-> c, task |-> c,
                     footprint |-> IF f THEN "missed" ELSE "preserved",
                     installed |-> @.installed]]
           s3 == [s2 EXCEPT !.window[c].from = i, !.window[c].until = i]
<1>1. Keeps(s, s1)
    BY KeepsInsist, Zenon
<1>2. Installs(s1, s2, c)
  <2> HIDE DEF s1
  <2>1. /\ DOMAIN s2 = Fields /\ s2.total = s1.total
        /\ s2.activated = s1.activated /\ s2.used = s1.used
        /\ s2.kicked = s1.kicked /\ s2.force_wakeup = s1.force_wakeup
        /\ s2.blocked = s1.blocked /\ s2.armed = s1.armed /\ s2.waking_up = s1.waking_up
        /\ DOMAIN s2.entries = DOMAIN s1.entries
        /\ \A j \in DOMAIN s1.entries :
              /\ j # i => s2.entries[j] = s1.entries[j]
              /\ j = i => s2.entries[j].task = c /\ "task" \in DOMAIN s2.entries[j]
      BY <1>1 DEF Keeps, SameFlags, IsState, Fields
  <2> HIDE DEF s2
  <2> QED BY <1>1, <2>1, Zenon DEF Keeps, SameFlags, IsState, Installs
<1>3. Keeps(s2, s3)
  <2> HIDE DEF s1, s2
  <2>1. /\ DOMAIN s3 = Fields /\ s3.entries = s2.entries /\ s3.total = s2.total
        /\ s3.activated = s2.activated /\ s3.used = s2.used
        /\ s3.kicked = s2.kicked /\ s3.force_wakeup = s2.force_wakeup
        /\ s3.blocked = s2.blocked /\ s3.armed = s2.armed /\ s3.waking_up = s2.waking_up
      BY <1>2, Zenon DEF Installs, SameFlags, IsState, Fields
  <2> HIDE DEF s3
  <2>2. IsState(s2)
      BY <1>2, Zenon DEF Installs, SameFlags
  <2> QED BY <2>1, <2>2, KeepsOthers, Zenon
<1>4. Installs(s, s1, c) /\ Installs(s, s2, c) /\ Installs(s, s3, c)
  <2> HIDE DEF s1, s2, s3
  <2> QED BY <1>1, <1>2, <1>3, Zenon DEF Installs, Keeps, SameFlags, SameSchedule, SameTasks
<1>5. install_breakpoint(s, c, a, i, f) \in {s1, s2, s3}
    BY Zenon DEF install_breakpoint
<1> QED
  <2> HIDE DEF s1, s2, s3
  <2> QED BY <1>4, <1>5

\* ACTIVATE_BP keeps the flags, on each of its returns, and starts a schedule only if
\* none has been used since PREPARE.
LEMMA FlagsActivate ==
    ASSUME NEW s, NEW c, IsState(s)
    PROVE  LET t == activate_breakpoint(s, c).q
           IN  /\ SameFlags(s, t) /\ SameTasks(s, t) /\ t.used = s.used
               /\ s.activated => t.activated
               /\ t.activated => s.activated \/ ~ s.used
<1> DEFINE s1 == [s EXCEPT !.state[c] = "ready"]
           s2 == [s1 EXCEPT !.state[c] = "activated"]
           s3 == sched_init_once(s2)
           s4 == [s3 EXCEPT !.window[c].total = @ + Cardinality(Own(s2, c))]
           s5 == insert_breakpoint(s4, c, Hook, "insert hook")
           Starts(t) == SameFlags(s, t) /\ SameTasks(s, t) /\ t.used = s.used
                        /\ (s.activated => t.activated)
<1>1. Keeps(s, s1) /\ Keeps(s, s)
    BY DEF Keeps, SameFlags, SameSchedule, SameTasks, IsState, Fields
<1>2. Keeps(s1, s2)
  <2> HIDE DEF s1
  <2> QED BY <1>1 DEF Keeps, SameFlags, SameSchedule, SameTasks, IsState, Fields
<1>3. Keeps(s, s2)
  <2> HIDE DEF s1, s2
  <2> QED BY <1>1, <1>2, KeepsTrans, Zenon
<1>4. Starts(s3)
  <2> HIDE DEF s2
  <2>1. CASE s2.activated
      BY <1>3, <2>1, Zenon DEF sched_init_once, Keeps, SameSchedule
  <2>2. CASE ~ s2.activated
    <3>1. /\ DOMAIN s3 = Fields /\ s3.activated /\ s3.entries = s2.entries
          /\ s3.total = s2.total /\ s3.used = s2.used
          /\ s3.kicked = s2.kicked /\ s3.force_wakeup = s2.force_wakeup
          /\ s3.blocked = s2.blocked /\ s3.armed = s2.armed /\ s3.waking_up = s2.waking_up
        BY <1>3, <2>2, Zenon DEF sched_init_once, Keeps, SameFlags, IsState, Fields
    <3> HIDE DEF s3
    <3> QED BY <1>3, <3>1, Zenon DEF Keeps, SameFlags, SameSchedule, SameTasks, IsState
  <2> QED BY <2>1, <2>2, Zenon
<1>5. Keeps(s3, s4)
  <2> HIDE DEF s3, s2
  <2> QED BY <1>4 DEF Keeps, SameFlags, SameSchedule, SameTasks, IsState, Fields
<1>6. Keeps(s4, s5)
  <2> HIDE DEF s4
  <2> QED BY <1>5, KeepsState, KeepsInsert, Zenon
<1>7. Starts(s4) /\ Starts(s5)
  <2>1. ASSUME NEW t, NEW u, Starts(t), Keeps(t, u) PROVE Starts(u)
      BY <2>1, Zenon DEF Keeps, SameFlags, SameSchedule, SameTasks
  <2> HIDE DEF Starts, s3, s4, s5
  <2> QED BY <1>4, <1>5, <1>6, <2>1, Zenon
<1>8. activate_breakpoint(s, c).q \in {s, s1, s4, s5}
    BY DEF activate_breakpoint, do_activate_breakpoint
<1>9. s.used => activate_breakpoint(s, c).q = s
    BY DEF activate_breakpoint
<1> QED
  <2> HIDE DEF s1, s4, s5
  <2> QED BY <1>1, <1>7, <1>8, <1>9, Zenon DEF Keeps, SameSchedule

\* CLEAR_BP keeps the flags, and leaves no entry to a task that is not a worker's.
LEMMA FlagsClear ==
    ASSUME NEW s, NEW c, IsState(s) PROVE Installs(s, clear_breakpoint(s, c), 0)
<1> DEFINE t == [s EXCEPT !.state[c] = "idle",
                          !.entries = [i \in DOMAIN s.entries |->
                                          IF i \in Own(s, c) THEN ZeroEntry ELSE s.entries[i]],
                          !.hw[c] = {}]
<1>1. clear_breakpoint(s, c) \in {s, t}
    BY DEF clear_breakpoint
<1>2. Installs(s, s, 0)
    BY DEF Installs, SameFlags
<1>3. /\ DOMAIN t = Fields /\ t.total = s.total /\ t.activated = s.activated /\ t.used = s.used
      /\ t.kicked = s.kicked /\ t.force_wakeup = s.force_wakeup
      /\ t.blocked = s.blocked /\ t.armed = s.armed /\ t.waking_up = s.waking_up
      /\ t.entries = [i \in DOMAIN s.entries |-> IF i \in Own(s, c) THEN ZeroEntry ELSE s.entries[i]]
    BY Zenon DEF IsState, Fields
<1>4. ZeroEntry.task = 0 /\ "task" \in DOMAIN ZeroEntry
    BY Zenon DEF ZeroEntry
<1> HIDE DEF t
<1>5. Installs(s, t, 0)
    BY <1>3, <1>4, Zenon DEF Installs, SameFlags, IsState
<1> QED
    BY <1>1, <1>2, <1>5, Zenon

\* DISABLE_KSSB keeps the flags and the schedule.
LEMMA KeepsDisable ==
    ASSUME NEW s, IsState(s) PROVE Keeps(s, disable_kssb(s))
  BY Zenon DEF disable_kssb, Keeps, SameFlags, SameSchedule, SameTasks, IsState, Fields

\* The tasks stay workers' if the new one is.
LEMMA InstallsOK ==
    ASSUME NEW s, NEW t, NEW c \in Nat, TasksOK(s), Installs(s, t, c) PROVE TasksOK(t)
  BY DEF TasksOK, Installs, OtherTask

-----------------------------------------------------------------------------
(* DEACTIVATE and RESET *)

EscapedIn(s, t) ==
    /\ IsState(t) /\ t.kicked = s.kicked /\ t.force_wakeup = s.force_wakeup
    /\ t.armed = s.armed
    /\ \E T \in SUBSET Workers :
         /\ t.blocked = [k \in Workers |-> k \notin T /\ s.blocked[k]]
         /\ t.waking_up = [k \in Workers |-> k \notin T /\ s.waking_up[k]]

\* An escape after operations that keep the flags is an escape.
LEMMA KeepsEscaped ==
    ASSUME NEW s, NEW t, NEW u, SameFlags(s, t), EscapedIn(t, u) PROVE EscapedIn(s, u)
  BY ZenonT(60) DEF SameFlags, EscapedIn

\* Operations that keep the flags may follow an escape.
LEMMA EscapedKeeps ==
    ASSUME NEW s, NEW t, NEW u, EscapedIn(s, t), SameFlags(t, u) PROVE EscapedIn(s, u)
  BY DEF SameFlags, EscapedIn

\* __escape_if_kidnapped() for the vCPUs of T.
LEMMA EscapedReset ==
    ASSUME NEW s, NEW T \in SUBSET Workers, IsState(s)
    PROVE  LET t == reset_exec_control(s, T)
           IN  /\ EscapedIn(s, t) /\ SameSchedule(s, t)
               /\ t.blocked = [k \in Workers |-> k \notin T /\ s.blocked[k]]
<1> DEFINE t == reset_exec_control(s, T)
<1>1. /\ IsState(t) /\ t.kicked = s.kicked /\ t.force_wakeup = s.force_wakeup
      /\ t.armed = s.armed
      /\ t.blocked = [k \in Workers |-> k \notin T /\ s.blocked[k]]
      /\ t.waking_up = [k \in Workers |-> k \notin T /\ s.waking_up[k]]
      /\ t.total = s.total /\ t.entries = s.entries /\ t.activated = s.activated
      /\ t.used = s.used
    BY Zenon DEF reset_exec_control, IsState, Fields
<1> HIDE DEF t
<1>2. EscapedIn(s, t) /\ SameSchedule(s, t)
    BY <1>1 DEF EscapedIn, SameSchedule, SameTasks
<1> QED
    BY <1>1, <1>2, Zenon DEF t

\* The loop bodies of DEACTIVATE and RESET escape some vCPUs and change no other
\* flag; DEACTIVATE escapes all vCPUs they pass.
LEMMA EscapedRemove ==
    ASSUME NEW s, NEW by, NEW S \in SUBSET Workers, IsState(s)
    PROVE  LET t == remove_breakpoints_and_escape(s, by, S)
           IN  /\ EscapedIn(s, t) /\ SameSchedule(s, t)
               /\ by # 0 => t.blocked = [j \in Workers |-> j \notin S /\ s.blocked[j]]
<1> DEFINE s1 == Insist(s, S # {} => ~ s.activated, "removing breakpoints of an active schedule")
           s2 == IF by \in S
                 THEN remove_breakpoints(s1, by, {s.entries[i].addr : i \in Own(s, by)})
                 ELSE s1
           T  == {k \in S : by = 0 => ~ check_cpu_state(s, k, "deactivated")}
           s3 == reset_exec_control(s2, T)
           s4 == [s3 EXCEPT
                !.state = [k \in Workers |-> IF k \in S THEN "idle" ELSE @[k]],
                !.window = [k \in Workers |-> IF k \in S THEN ClosedWindow(0) ELSE @[k]],
                !.last_breakpoint = [k \in Workers |->
                    IF k \in S THEN [rip |-> NoAddr, count |-> 0] ELSE @[k]]]
<1>1. Keeps(s, s1)
    BY KeepsInsist, Zenon
<1>2. Keeps(s1, s2)
  <2> HIDE DEF s1
  <2>1. Keeps(s1, s1)
      BY <1>1, KeepsState, KeepsRefl, ZenonT(60)
  <2> QED BY <1>1, <2>1, KeepsState, KeepsRemove, Zenon
<1>3. /\ EscapedIn(s2, s3) /\ SameSchedule(s2, s3)
      /\ s3.blocked = [k \in Workers |-> k \notin T /\ s2.blocked[k]]
  <2> T \in SUBSET Workers
      OBVIOUS
  <2> HIDE DEF s2, T
  <2> QED BY <1>2, KeepsState, EscapedReset, Zenon
<1>4. Keeps(s3, s4)
  <2> HIDE DEF s2, s3
  <2>1. /\ DOMAIN s4 = Fields /\ s4.entries = s3.entries /\ s4.total = s3.total
        /\ s4.activated = s3.activated /\ s4.used = s3.used
        /\ s4.kicked = s3.kicked /\ s4.force_wakeup = s3.force_wakeup
        /\ s4.blocked = s3.blocked /\ s4.armed = s3.armed /\ s4.waking_up = s3.waking_up
      BY <1>3, Zenon DEF EscapedIn, IsState, Fields
  <2> HIDE DEF s4
  <2> QED BY <1>3, <2>1, KeepsOthers, Zenon DEF EscapedIn
<1>5. Keeps(s, s2)
  <2> HIDE DEF s1, s2
  <2> QED BY <1>1, <1>2, KeepsTrans, Zenon
<1>6. EscapedIn(s, s3) /\ EscapedIn(s, s4)
  <2> HIDE DEF s2, s3, s4
  <2> QED BY <1>3, <1>4, <1>5, KeepsEscaped, EscapedKeeps, Zenon DEF Keeps
<1>7. SameSchedule(s, s3) /\ SameSchedule(s, s4)
  <2> HIDE DEF s2, s3, s4
  <2> QED BY <1>3, <1>4, <1>5, ZenonT(60) DEF Keeps, SameSchedule, SameTasks
<1>8. by # 0 => s3.blocked = [j \in Workers |-> j \notin S /\ s.blocked[j]]
  <2>1. by # 0 => T = S
      BY Zenon
  <2>2. s2.blocked = s.blocked
    <3> HIDE DEF s2
    <3> QED BY <1>5 DEF Keeps, SameFlags
  <2> HIDE DEF s2, s3, T
  <2> QED BY <1>3, <2>1, <2>2
<1>9. \/ remove_breakpoints_and_escape(s, by, S) = s3
      \/ by = 0 /\ remove_breakpoints_and_escape(s, by, S) = s4
    BY Zenon DEF remove_breakpoints_and_escape
<1> QED
  <2> HIDE DEF s3, s4
  <2> QED BY <1>6, <1>7, <1>8, <1>9, ZenonT(60)

\* A non-empty set of natural numbers has a least one.
LEMMA LeastNumber ==
    ASSUME NEW T, T \subseteq Nat, T # {}
    PROVE  \E m \in T : \A j \in T : m <= j
<1>1. \E m \in T : \A j \in T : ~(<<j, m>> \in OpToRel(<, Nat))
    BY WFMin, NatLessThanWellFounded, Zenon
<1>2. PICK m \in T : \A j \in T : ~(<<j, m>> \in OpToRel(<, Nat))
    BY <1>1, Zenon
<1>3. ASSUME NEW j \in T, j < m PROVE FALSE
  <2>1. <<j, m>> \in {ss \in Nat \X Nat : ss[1] < ss[2]}
      BY <1>3
  <2> QED
      BY <2>1, <1>2, Zenon DEF OpToRel
<1>4. \A j \in T : j \in Nat /\ m \in Nat
    OBVIOUS
<1> QED
    BY <1>3, <1>4

\* The first wait of the loops over vCPUs and entries, if there is one.
LEMMA FirstWait ==
    ASSUME NEW P, \A p \in P : p[1] \in Nat /\ p[2] \in Nat, P # {}
    PROVE  First(P) \in P
<1> DEFINE C == {p[1] : p \in P}
<1>1. C \subseteq Nat /\ C # {}
    OBVIOUS
<1>2. PICK m \in C : \A j \in C : m <= j
  <2> HIDE DEF C
  <2> QED BY <1>1, LeastNumber, Zenon
<1> DEFINE D == {p[2] : p \in {r \in P : r[1] = m}}
<1>3. D \subseteq Nat /\ D # {}
    OBVIOUS
<1>4. PICK d \in D : \A j \in D : d <= j
  <2> HIDE DEF D
  <2> QED BY <1>3, LeastNumber, Zenon
<1>5. PICK p \in P : p[1] = m /\ p[2] = d
    BY Zenon
<1>6. \A r \in P : r[1] \in Nat /\ r[2] \in Nat /\ m <= r[1] /\ (r[1] = m => d <= r[2])
    BY <1>2, <1>4, Zenon
<1>7. m \in Nat
    BY <1>1, Zenon
<1>8. \A r \in P : p[1] < r[1] \/ (p[1] = r[1] /\ p[2] <= r[2])
  <2> HIDE DEF C, D
  <2> QED BY <1>5, <1>6, <1>7
<1> QED
  <2> HIDE DEF C, D
  <2> QED BY <1>8, Zenon DEF First

\* Where the BQL is released the loops stand at a vCPU, not before the one they came to.
LEMMA WaitsAt ==
    ASSUME NEW s, NEW by, NEW k \in Nat, NEW i, TasksOK(s), Waits(s, by, k, i) # {}
    PROVE  LET stop == First(Waits(s, by, k, i))
           IN  stop[1] \in Workers /\ stop[1] >= k
<1> DEFINE P == Waits(s, by, k, i)
<1>0. /\ P \subseteq (Workers \ {by}) \X Orders(s)
      /\ \A p \in P : p[1] > k \/ p[1] = k
    BY Zenon DEF Waits
<1>1. \A p \in P : p[1] \in Workers /\ p[2] \in Orders(s)
  <2> HIDE DEF P
  <2> QED BY <1>0
<1>2. \A p \in P : p[1] \in Nat /\ p[2] \in Nat /\ p[1] >= k
  <2> HIDE DEF P
  <2>1. Orders(s) \subseteq Nat
      BY BoundsAssumption DEF TasksOK, Orders
  <2>2. \A p \in P : p[1] \in Nat /\ p[2] \in Nat
      BY <1>1, <2>1, WorkersAssumption, Zenon
  <2> QED BY <1>0, <2>2
<1>3. First(P) \in P
  <2> HIDE DEF P
  <2>1. P # {}
      BY DEF P
  <2> QED BY <1>2, <2>1, FirstWait, Zenon
<1> HIDE DEF P
<1>4. First(P)[1] \in Workers /\ First(P)[1] >= k
    BY <1>1, <1>2, <1>3, Zenon
<1> QED
    BY <1>4, Zenon DEF P

\* A schedule that has been zeroed: no schedpoints, and no entry of any task.
Zeroed(s, t) ==
    /\ SameFlags(s, t) /\ t.activated = s.activated /\ t.used = s.used /\ t.total = 0
    /\ DOMAIN t.entries = DOMAIN s.entries /\ \A i \in DOMAIN s.entries : t.entries[i].task = 0

\* RESET, once it is through, zeroes the schedule.
LEMMA ZeroedSchedule ==
    ASSUME NEW s, IsState(s)
    PROVE  Zeroed(s, [s EXCEPT !.total = 0, !.current = 0, !.nr_cpus = 0,
                               !.entries = [j \in DOMAIN s.entries |-> ZeroEntry]])
<1> DEFINE t == [s EXCEPT !.total = 0, !.current = 0, !.nr_cpus = 0,
                          !.entries = [j \in DOMAIN s.entries |-> ZeroEntry]]
<1>1. /\ DOMAIN t = Fields /\ t.total = 0 /\ t.activated = s.activated /\ t.used = s.used
      /\ t.kicked = s.kicked /\ t.force_wakeup = s.force_wakeup
      /\ t.blocked = s.blocked /\ t.armed = s.armed /\ t.waking_up = s.waking_up
      /\ t.entries = [j \in DOMAIN s.entries |-> ZeroEntry]
    BY Zenon DEF IsState, Fields
<1>2. ZeroEntry.task = 0 /\ "task" \in DOMAIN ZeroEntry
    BY DEF ZeroEntry
<1> HIDE DEF t
<1>3. Zeroed(s, t)
    BY <1>1, <1>2, Zenon DEF Zeroed, SameFlags, IsState
<1> QED
    BY <1>3, Zenon DEF t

\* One critical section of DEACTIVATE or RESET, from one wait for a remote vCPU
\* to the next, is an escape of the vCPUs it passes.
LEMMA EscapedFrom ==
    ASSUME NEW s, NEW by, NEW k, NEW i, IsState(s), RemoveFrom(s, by, k, i)
    PROVE  EscapedIn(s, q')
<1> DEFINE stop == First(Waits(s, by, k, i))
           s1 == remove_breakpoints_and_escape(s, by, {c \in Workers : k <= c /\ c < stop[1]})
           s2 == remove_breakpoints_and_escape(s, by, {c \in Workers : k <= c})
           s3 == remove_breakpoints(s1, stop[1], {s.entries[stop[2]].addr})
           s4 == [s2 EXCEPT !.total = 0, !.current = 0, !.nr_cpus = 0,
                            !.entries = [j \in DOMAIN s2.entries |-> ZeroEntry]]
           s5 == disable_kssb(s4)
<1>1. EscapedIn(s, s1) /\ EscapedIn(s, s2)
  <2> HIDE DEF stop
  <2> QED BY EscapedRemove, Zenon
<1>2. Keeps(s1, s3)
  <2> HIDE DEF s1, stop
  <2> QED BY <1>1, KeepsRemove, Zenon DEF EscapedIn
<1>3. Zeroed(s2, s4)
  <2> HIDE DEF s2
  <2> QED BY <1>1, ZeroedSchedule, Zenon DEF EscapedIn
<1>4. Keeps(s4, s5)
  <2> HIDE DEF s4
  <2> QED BY <1>3, KeepsDisable, Zenon DEF Zeroed, SameFlags
<1>5. EscapedIn(s, s3) /\ EscapedIn(s, s5)
  <2> HIDE DEF s1, s2, s3, s4, s5
  <2> QED BY <1>1, <1>2, <1>3, <1>4, EscapedKeeps, Zenon DEF Keeps, Zeroed
<1>6. q' \in {s2, s3, s5}
    BY Zenon DEF RemoveFrom, reset_schedule
<1> QED
  <2> HIDE DEF s2, s3, s5
  <2> QED BY <1>1, <1>5, <1>6, Zenon

\* Such a critical section keeps the schedule, ends at a vCPU or is the last, and leaves
\* no vCPU held back that DEACTIVATE has passed.
LEMMA RemovedFrom ==
    ASSUME NEW s, NEW by, NEW k \in Nat, NEW i, FlagTypes(s), TasksOK(s), RemoveFrom(s, by, k, i)
    PROVE  /\ TasksOK(q') /\ q'.activated = s.activated /\ q'.used = s.used
           /\ \/ removal' = NoRemoval
              \/ removal'.by = by /\ removal'.cpu \in Workers
           /\ by # 0 => \A c \in Workers :
                 q'.blocked[c] => /\ s.blocked[c]
                                  /\ c < k \/ (removal'.cpu \in Workers /\ removal'.cpu <= c)
<1> DEFINE waits == Waits(s, by, k, i)
           stop == First(waits)
           S1 == {c \in Workers : k <= c /\ c < stop[1]}
           S2 == {c \in Workers : k <= c}
           s1 == remove_breakpoints_and_escape(s, by, S1)
           s2 == remove_breakpoints_and_escape(s, by, S2)
           s3 == remove_breakpoints(s1, stop[1], {s.entries[stop[2]].addr})
           s4 == [s2 EXCEPT !.total = 0, !.current = 0, !.nr_cpus = 0,
                            !.entries = [j \in DOMAIN s2.entries |-> ZeroEntry]]
           s5 == disable_kssb(s4)
<1>0. IsState(s)
    BY Zenon DEF FlagTypes
<1>1. /\ EscapedIn(s, s1) /\ SameSchedule(s, s1)
      /\ by # 0 => s1.blocked = [j \in Workers |-> j \notin S1 /\ s.blocked[j]]
  <2> S1 \in SUBSET Workers
      BY Zenon
  <2> HIDE DEF S1
  <2> QED BY <1>0, EscapedRemove
<1>2. /\ EscapedIn(s, s2) /\ SameSchedule(s, s2)
      /\ by # 0 => s2.blocked = [j \in Workers |-> j \notin S2 /\ s.blocked[j]]
  <2> S2 \in SUBSET Workers
      OBVIOUS
  <2> HIDE DEF S2
  <2> QED BY <1>0, EscapedRemove
<1>3. Keeps(s1, s3)
  <2> HIDE DEF s1, stop
  <2> QED BY <1>1, KeepsRemove, Zenon DEF EscapedIn
<1>4. Zeroed(s2, s4)
  <2> HIDE DEF s2
  <2> QED BY <1>2, ZeroedSchedule, Zenon DEF EscapedIn
<1>5. Keeps(s4, s5)
  <2> HIDE DEF s4
  <2> QED BY <1>4, KeepsDisable, Zenon DEF Zeroed, SameFlags
<1>6. \A c \in Workers : c \in Nat \ {0}
    BY WorkersAssumption
<1>7. CASE waits = {}
  <2>1. removal' = NoRemoval /\ q' = IF by = 0 THEN s5 ELSE s2
      BY <1>7, Zenon DEF RemoveFrom, reset_schedule
  <2>2. TasksOK(s2) /\ s2.activated = s.activated /\ s2.used = s.used
    <3> HIDE DEF s2
    <3> QED BY <1>2, SameTasksOK, Zenon DEF SameSchedule
  <2>3. TasksOK(s5) /\ s5.activated = s.activated /\ s5.used = s.used
    <3> HIDE DEF s2, s4, s5
    <3>1. TasksOK(s4) /\ s4.activated = s.activated /\ s4.used = s.used
        BY <1>4, <2>2, BoundsAssumption DEF Zeroed, TasksOK, OtherTask
    <3> QED BY <1>5, <3>1, SameTasksOK, Zenon DEF Keeps, SameSchedule
  <2>4. \A c \in Workers : c \notin S2 => c < k
      BY <1>6
  <2> HIDE DEF s2, s5, S2
  <2>5. by # 0 => \A c \in Workers : q'.blocked[c] => s.blocked[c] /\ c < k
      BY <1>2, <2>1, <2>4, ZenonT(60)
  <2> QED
      BY <2>1, <2>2, <2>3, <2>5, ZenonT(60)
<1>8. CASE waits # {}
  <2>1. q' = s3 /\ removal' = [by |-> by, cpu |-> stop[1], order |-> stop[2] + 1]
      BY <1>8 DEF RemoveFrom
  <2>2. stop[1] \in Workers /\ stop[1] >= k
      BY <1>8, WaitsAt, Zenon
  <2>3. \A c \in Workers : c \notin S1 => c < k \/ stop[1] <= c
      BY <1>6, <2>2
  <2> HIDE DEF S1, s1, s3, stop
  <2>4. TasksOK(s3) /\ s3.activated = s.activated /\ s3.used = s.used /\ s3.blocked = s1.blocked
      BY <1>1, <1>3, SameTasksOK, Zenon DEF Keeps, SameFlags, SameSchedule
  <2>5. removal'.by = by /\ removal'.cpu = stop[1]
      BY <2>1
  <2>6. by # 0 => \A c \in Workers : q'.blocked[c] => s.blocked[c] /\ (c < k \/ stop[1] <= c)
      BY <1>1, <2>1, <2>3, <2>4, Zenon
  <2> QED
      BY <2>1, <2>2, <2>4, <2>5, <2>6, ZenonT(60)
<1> QED
    BY <1>7, <1>8, Zenon

-----------------------------------------------------------------------------
(* The actions.                                                            *)

\* What HandleBreakpoint needs to be a step of ExecControl: a vCPU that has left
\* the guest with a breakpoint is not held back already.
RefInv ==
    /\ FlagTypes(q)
    /\ DOMAIN exit = Workers
    /\ \A c \in Workers : exit[c] # NoExit => ~ q.blocked[c]

\* No action but HandleBreakpoint holds a vCPU back, and none but HitBreakpoint
\* makes one leave the guest with a breakpoint.
LEMMA RefInvUnblocking ==
    ASSUME RefInv, FlagTypes(q'), exit' = exit,
           \A c \in Workers : q'.blocked[c] => q.blocked[c]
    PROVE  RefInv'
  BY Zenon DEF RefInv

\* A step that keeps the blocker's flags is a stuttering step of ExecControl.
LEMMA KeepsStep ==
    ASSUME RefInv, SameFlags(q, q')
    PROVE  /\ FlagTypes(q')
           /\ \A c \in Workers : q'.blocked[c] => q.blocked[c]
           /\ UNCHANGED Blocker!vars
  BY Zenon DEF RefInv, FlagTypes, SameFlags, Blocker!vars

\* A step that takes back the kidnapping of some vCPUs is an Escape of those.
LEMMA EscapedStep ==
    ASSUME RefInv, EscapedIn(q, q')
    PROVE  /\ FlagTypes(q')
           /\ \A c \in Workers : q'.blocked[c] => q.blocked[c]
           /\ Blocker!Next
<1>1. PICK T \in SUBSET Workers :
        /\ q'.blocked = [k \in Workers |-> k \notin T /\ q.blocked[k]]
        /\ q'.waking_up = [k \in Workers |-> k \notin T /\ q.waking_up[k]]
    BY Zenon DEF EscapedIn
<1>2. FlagTypes(q') /\ \A c \in Workers : q'.blocked[c] => q.blocked[c]
    BY <1>1, ZenonT(60) DEF RefInv, FlagTypes, EscapedIn
<1>3. /\ [k \in Workers |-> k \notin T /\ q.blocked[k]] = [k \in Workers |-> q.blocked[k] /\ k \notin T]
      /\ [k \in Workers |-> k \notin T /\ q.waking_up[k]] = [k \in Workers |-> q.waking_up[k] /\ k \notin T]
    BY Zenon DEF RefInv, FlagTypes
<1>4. Blocker!Escape(T)
    BY <1>1, <1>3, Zenon DEF EscapedIn, Blocker!Escape
<1> QED
    BY <1>2, <1>4, Zenon DEF Blocker!Next

\* A handled breakpoint of c is a Kidnap(c), a WakeOthers(c) or no step.
LEMMA HandledStep ==
    ASSUME NEW c \in Workers, RefInv, ~ q.blocked[c], Handled(q, q', c)
    PROVE  /\ FlagTypes(q')
           /\ \A k \in Workers \ {c} : q'.blocked[k] => q.blocked[k]
           /\ [Blocker!Next]_(Blocker!vars)
<1> USE DEF RefInv
<1>0. Woken(q, c) = Blocker!OthersWoken(c) /\ Woken(q, c) \in [Workers -> BOOLEAN]
    BY Zenon DEF Woken, Blocker!OthersWoken, FlagTypes
<1>1. CASE Keeps(q, q')
    BY <1>1, KeepsStep, Zenon DEF Keeps
<1>2. ASSUME NEW w \in {q.waking_up, Woken(q, c)}, KidnappedIn(q, q', c, w)
      PROVE  /\ FlagTypes(q')
             /\ \A k \in Workers \ {c} : q'.blocked[k] => q.blocked[k]
             /\ [Blocker!Next]_(Blocker!vars)
  <2>1. FlagTypes(q')
      BY <1>0, <1>2 DEF KidnappedIn, FlagTypes
  <2>2. \A k \in Workers \ {c} : q'.blocked[k] => q.blocked[k]
      BY <1>2 DEF KidnappedIn, FlagTypes
  <2>3. Blocker!Kidnap(c)
      BY <1>0, <1>2, Zenon DEF KidnappedIn, Blocker!Kidnap
  <2> QED
      BY <2>1, <2>2, <2>3, ZenonT(60) DEF Blocker!Next
<1>3. CASE WokenIn(q, q', c)
  <2>1. FlagTypes(q') /\ \A k \in Workers \ {c} : q'.blocked[k] => q.blocked[k]
      BY <1>0, <1>3, Zenon DEF WokenIn, FlagTypes
  <2>2. Blocker!WakeOthers(c)
      BY <1>0, <1>3, Zenon DEF WokenIn, Blocker!WakeOthers
  <2> QED
      BY <2>1, <2>2, Zenon DEF Blocker!Next
<1> QED
    BY <1>1, <1>2, <1>3, Zenon DEF Handled

\* A program starts with the blocker's flags of ExecControl's initial state.
LEMMA RefInit == Init => RefInv /\ Blocker!Init
<1> SUFFICES ASSUME Init PROVE RefInv /\ Blocker!Init
    BY Zenon
<1>1. IsState(q)
  <2>1. DOMAIN q = Fields /\ q.entries = [i \in 0 .. MaxSchedpoints - 1 |-> ZeroEntry]
      BY Zenon DEF Init, Fields
  <2> QED
      BY <2>1 DEF IsState, ZeroEntry
<1>2. /\ q.blocked = [c \in Workers |-> FALSE] /\ q.waking_up = [c \in Workers |-> FALSE]
      /\ q.kicked = [c \in Workers |-> FALSE] /\ q.force_wakeup = [c \in Workers |-> FALSE]
      /\ q.armed = [c \in Workers |-> FALSE]
    BY Zenon DEF Init
<1>3. FlagTypes(q)
    BY <1>1, <1>2, Zenon DEF FlagTypes
<1>4. DOMAIN exit = Workers /\ \A c \in Workers : exit[c] = NoExit
    BY Zenon DEF Init
<1> QED
    BY <1>2, <1>3, <1>4, ZenonT(60) DEF RefInv, Blocker!Init

\* What the executor's main thread does: RESET escapes vCPUs, all else keeps
\* the blocker's flags.
LEMMA MainStep ==
    ASSUME RefInv, Main PROVE RefInv' /\ [Blocker!Next]_(Blocker!vars)
<1> USE DEF RefInv
<1>0. IsState(q)
    BY DEF FlagTypes
<1>1. CASE Reset
  <2> DEFINE s == [q EXCEPT !.used = TRUE, !.activated = FALSE]
  <2>1. SameFlags(q, s)
      BY <1>0 DEF SameFlags, IsState, Fields
  <2>2. RemoveFrom(s, 0, 0, 0) /\ exit' = exit
      BY <1>1 DEF Reset
  <2>3. EscapedIn(q, q')
    <3> HIDE DEF s
    <3> QED BY <2>1, <2>2, EscapedFrom, KeepsEscaped, ZenonT(60) DEF SameFlags
  <2> QED
      BY <2>2, <2>3, EscapedStep, RefInvUnblocking, Zenon
<1>2. CASE ResetContinues
  <2>1. RemoveFrom(q, 0, removal.cpu, removal.order) /\ exit' = exit
      BY <1>2, Zenon DEF ResetContinues
  <2>2. EscapedIn(q, q')
      BY <1>0, <2>1, EscapedFrom, Zenon
  <2> QED
      BY <2>1, <2>2, EscapedStep, RefInvUnblocking, Zenon
<1>3. CASE EnableKssb
  <2>1. SameFlags(q, q') /\ exit' = exit
    <3>1. PICK on \in BOOLEAN : q' = [q EXCEPT !.kssb_enabled = @ \/ on]
        BY <1>3, Zenon DEF EnableKssb
    <3> QED BY <1>0, <1>3, <3>1, Zenon DEF EnableKssb, SameFlags, IsState, Fields
  <2> QED
      BY <2>1, KeepsStep, RefInvUnblocking, Zenon
<1>4. CASE Prepare
  <2>1. SameFlags(q, q') /\ exit' = exit
      BY <1>0, <1>4, FlagsPrepare, ZenonT(60) DEF Prepare
  <2> QED
      BY <2>1, KeepsStep, RefInvUnblocking
<1>5. CASE DisableKssb
  <2>1. SameFlags(q, q') /\ exit' = exit
      BY <1>0, <1>5, KeepsDisable, ZenonT(60) DEF DisableKssb, Keeps
  <2> QED
      BY <2>1, KeepsStep, RefInvUnblocking
<1>6. CASE Wait \/ Kill \/ NextProgram
  <2>1. SameFlags(q, q') /\ exit' = exit
      BY <1>0, <1>6, Zenon DEF Wait, Kill, NextProgram, SameFlags
  <2> QED
      BY <2>1, KeepsStep, RefInvUnblocking
<1> QED
    BY <1>1, <1>2, <1>3, <1>4, <1>5, <1>6, ZenonT(60) DEF Main

\* What a worker thread does: DEACTIVATE may escape vCPUs, all else keeps the
\* blocker's flags.
LEMMA WorkerStep ==
    ASSUME NEW c \in Workers, RefInv, Worker(c) PROVE RefInv' /\ [Blocker!Next]_(Blocker!vars)
<1> USE DEF RefInv
<1>0. IsState(q)
    BY Zenon DEF FlagTypes
<1>1. CASE Deactivate(c)
  <2> DEFINE r == [q EXCEPT !.state[c] = "deactivated"]
             s == close_window(r, c)
             t == [s EXCEPT !.activated = FALSE, !.used = TRUE]
  <2>1. SameFlags(q, s)
    <3>1. SameFlags(q, r)
        BY <1>0 DEF SameFlags, IsState, Fields
    <3> HIDE DEF r
    <3>2. IsState(r)
        BY <3>1, Zenon DEF SameFlags
    <3>3. SameFlags(r, s)
        BY <3>2, KeepsClose, ZenonT(60) DEF Keeps
    <3> HIDE DEF s
    <3> QED BY <3>1, <3>3, FlagsTrans, Zenon
  <2>2. SameFlags(q, t) /\ SameFlags(q, q)
    <3> HIDE DEF s
    <3> QED BY <1>0, <2>1, Zenon DEF SameFlags, IsState, Fields
  <2>5. exit' = exit /\ (q' = q \/ q' = s \/ RemoveFrom(t, c, 0, 0))
      BY <1>1 DEF Deactivate
  <2> HIDE DEF s, t
  <2>6. CASE q' = q \/ q' = s
    <3>1. SameFlags(q, q')
        BY <2>1, <2>2, <2>6, Zenon
    <3> QED BY <2>5, <3>1, KeepsStep, RefInvUnblocking, Zenon
  <2>7. CASE RemoveFrom(t, c, 0, 0)
    <3>1. EscapedIn(q, q')
        BY <2>2, <2>7, EscapedFrom, KeepsEscaped, Zenon DEF SameFlags
    <3> QED BY <2>5, <3>1, EscapedStep, RefInvUnblocking, Zenon
  <2> QED
      BY <2>5, <2>6, <2>7, Zenon
<1>2. CASE DeactivateContinues(c)
  <2>1. RemoveFrom(q, c, removal.cpu, removal.order) /\ exit' = exit
      BY <1>2 DEF DeactivateContinues
  <2>2. EscapedIn(q, q')
      BY <1>0, <2>1, EscapedFrom, Zenon
  <2> QED
      BY <2>1, <2>2, EscapedStep, RefInvUnblocking, ZenonT(60)
<1>3. CASE Install(c)
  <2>1. SameFlags(q, q') /\ exit' = exit
      BY <1>0, <1>3, FlagsInstall, Zenon DEF Install, Installs
  <2> QED
      BY <2>1, KeepsStep, RefInvUnblocking, ZenonT(60)
<1>4. CASE Activate(c)
  <2>1. SameFlags(q, q') /\ exit' = exit
      BY <1>0, <1>4, FlagsActivate, Zenon DEF Activate
  <2> QED
      BY <2>1, KeepsStep, RefInvUnblocking, Zenon
<1>5. CASE Clear(c)
  <2>1. SameFlags(q, q') /\ exit' = exit
      BY <1>0, <1>5, FlagsClear, ZenonT(60) DEF Clear, Installs
  <2> QED
      BY <2>1, KeepsStep, RefInvUnblocking
<1>6. CASE SyscallReturns(c) \/ Die(c)
  <2>1. SameFlags(q, q') /\ exit' = exit
      BY <1>0, <1>6, Zenon DEF SyscallReturns, Die, SameFlags
  <2> QED
      BY <2>1, KeepsStep, RefInvUnblocking
<1> QED
    BY <1>1, <1>2, <1>3, <1>4, <1>5, <1>6, ZenonT(60) DEF Worker

\* What a vCPU thread and its timer do maps to Kidnap, WakeOthers, TimerFires,
\* HandleKick and PostRun of ExecControl.
LEMMA VcpuStep ==
    ASSUME NEW c \in Workers, RefInv, Vcpu(c) PROVE RefInv' /\ [Blocker!Next]_(Blocker!vars)
<1> USE DEF RefInv
<1>0. IsState(q)
    BY DEF FlagTypes
<1>1. CASE HitBreakpoint(c)
  <2>1. q' = q /\ ~ q.blocked[c]
      BY <1>1 DEF HitBreakpoint, InGuest
  <2>2. DOMAIN exit' = Workers /\ \A k \in Workers \ {c} : exit'[k] = exit[k]
      BY <1>1, Zenon DEF HitBreakpoint
  <2> QED
      BY <2>1, <2>2, ZenonT(60) DEF Blocker!vars
<1>2. CASE HandleBreakpoint(c)
  <2>1. ~ q.blocked[c]
      BY <1>2, ZenonT(60) DEF HandleBreakpoint
  <2>2. Handled(q, q', c)
      BY <1>2, HandledBreakpoint DEF HandleBreakpoint
  <2>3. /\ DOMAIN exit' = Workers /\ exit'[c] = NoExit
        /\ \A k \in Workers \ {c} : exit'[k] = exit[k]
      BY <1>2, Zenon DEF HandleBreakpoint
  <2> QED
      BY <2>1, <2>2, <2>3, HandledStep, Zenon
<1>3. CASE TimerFires(c)
  <2>1. /\ q.armed[c] /\ exit' = exit /\ q'.blocked = q.blocked /\ q'.waking_up = q.waking_up
        /\ q'.force_wakeup = q.force_wakeup /\ IsState(q')
        /\ q'.armed = [q.armed EXCEPT ![c] = FALSE] /\ q'.kicked = [q.kicked EXCEPT ![c] = TRUE]
      BY <1>0, <1>3, Zenon DEF TimerFires, IsState, Fields
  <2>2. FlagTypes(q')
      BY <2>1 DEF FlagTypes
  <2>3. Blocker!TimerFires(c)
      BY <2>1, Zenon DEF Blocker!TimerFires
  <2> QED
      BY <2>1, <2>2, <2>3, Zenon DEF Blocker!Next
<1>4. CASE HandleKick(c)
  <2>0. q' = handle_kick(q, c) /\ q.kicked[c] /\ exit' = exit
      BY <1>4 DEF HandleKick
  <2>1. /\ q'.blocked = q.blocked /\ q'.armed = q.armed /\ IsState(q')
        /\ q'.kicked = [q.kicked EXCEPT ![c] = FALSE]
      BY <1>0, <2>0, Zenon DEF handle_kick, IsState, Fields
  <2>2. /\ q'.force_wakeup = [q.force_wakeup EXCEPT ![c] = @ \/ q.blocked[c]]
        /\ q'.waking_up = [q.waking_up EXCEPT ![c] = @ \/ q.blocked[c]]
    <3>1. CASE q.blocked[c]
      <4>1. /\ q'.force_wakeup = [q.force_wakeup EXCEPT ![c] = TRUE]
            /\ q'.waking_up = [q.waking_up EXCEPT ![c] = TRUE]
          BY <1>0, <2>0, <3>1, ZenonT(60) DEF handle_kick, IsState, Fields
      <4> QED BY <3>1, <4>1, Zenon DEF FlagTypes
    <3>2. CASE ~ q.blocked[c]
      <4>1. q'.force_wakeup = q.force_wakeup /\ q'.waking_up = q.waking_up
          BY <1>0, <2>0, <3>2, ZenonT(60) DEF handle_kick, IsState, Fields
      <4> QED BY <3>2, <4>1 DEF FlagTypes
    <3> QED BY <3>1, <3>2
  <2>3. FlagTypes(q')
      BY <2>1, <2>2 DEF FlagTypes
  <2>4. Blocker!HandleKick(c)
      BY <2>0, <2>1, <2>2, Zenon DEF Blocker!HandleKick
  <2> QED
      BY <2>0, <2>1, <2>3, <2>4, Zenon DEF Blocker!Next
<1>5. CASE PostRun(c)
  <2> DEFINE r == Insist(q, q.blocked[c], "nothing kidnapped")
             s == [r EXCEPT !.blocked[c] = FALSE, !.waking_up[c] = FALSE,
                            !.force_wakeup[c] = FALSE, !.kicked[c] = FALSE]
  <2>0. q' = expand_window(s, c) /\ q.waking_up[c] /\ exit' = exit
      BY <1>5 DEF PostRun, resume_task
  <2>1. Keeps(q, r)
      BY <1>0, KeepsInsist, Zenon
  <2>2. /\ IsState(s) /\ s.armed = r.armed
        /\ s.blocked = [r.blocked EXCEPT ![c] = FALSE]
        /\ s.waking_up = [r.waking_up EXCEPT ![c] = FALSE]
        /\ s.force_wakeup = [r.force_wakeup EXCEPT ![c] = FALSE]
        /\ s.kicked = [r.kicked EXCEPT ![c] = FALSE]
    <3> HIDE DEF r
    <3> QED BY <2>1, Zenon DEF Keeps, SameFlags, IsState, Fields
  <2> HIDE DEF s, r
  <2>3. Keeps(s, q')
      BY <2>0, <2>2, KeepsExpand, Zenon
  <2>4. /\ IsState(q') /\ q'.armed = q.armed
        /\ q'.blocked = [q.blocked EXCEPT ![c] = FALSE]
        /\ q'.waking_up = [q.waking_up EXCEPT ![c] = FALSE]
        /\ q'.force_wakeup = [q.force_wakeup EXCEPT ![c] = FALSE]
        /\ q'.kicked = [q.kicked EXCEPT ![c] = FALSE]
      BY <2>1, <2>2, <2>3, Zenon DEF Keeps, SameFlags
  <2>5. FlagTypes(q') /\ \A k \in Workers : q'.blocked[k] => q.blocked[k]
      BY <2>4 DEF FlagTypes
  <2>6. Blocker!PostRun(c)
      BY <2>0, <2>4 DEF Blocker!PostRun
  <2> QED
      BY <2>0, <2>5, <2>6, RefInvUnblocking, Zenon DEF Blocker!Next
<1> QED
    BY <1>1, <1>2, <1>3, <1>4, <1>5, ZenonT(60) DEF Vcpu

\* The scheduler implements the blocker's promise: hypercall handlers, the
\* breakpoint handler and the vCPU loop use its flags only as ExecControl says,
\* whatever the vCPUs, the schedules, the window size and the watchdog's limits.
THEOREM SchedulerImplementsBlocker == Spec => ImplementsExecControl
<1>1. RefInv /\ [Next]_vars => RefInv' /\ [Blocker!Next]_(Blocker!vars)
  <2> SUFFICES ASSUME RefInv, [Next]_vars
               PROVE  RefInv' /\ [Blocker!Next]_(Blocker!vars)
      OBVIOUS
  <2>1. CASE Next
      BY <2>1, MainStep, WorkerStep, VcpuStep, ZenonT(60) DEF Next
  <2>2. CASE UNCHANGED vars
      BY <2>2 DEF vars, RefInv, Blocker!vars
  <2> QED
      BY <2>1, <2>2, Zenon
<1> QED
    BY <1>1, RefInit, PTL DEF Spec, ImplementsExecControl, Blocker!Spec

-----------------------------------------------------------------------------
(* A vCPU is held back only for a schedule.  DEACTIVATE ends the schedule   *)
(* at once but may release the BQL many times before it has set all vCPUs   *)
(* free, and RESET does not set free those it finds deactivated: that none  *)
(* stays behind takes what follows.                                         *)

Ended == {"done", "dead"}

\* Until PREPARE no thread of the previous program runs.
NoneRuns == main \in {"reset", "resetting", "enable", "prepare"} => \A c \in Workers : pc[c] \in Ended

\* A worker's own breakpoint is met in its system call.
MetInSyscall == \A c \in Workers : exit[c].ctx = "task" => pc[c] = "syscall"

\* A loop that waits is RESET's or that of one worker, and until it is through no
\* schedule is active, nor can ACTIVATE start one.
LoopOK ==
    /\ main = "resetting" => removal # NoRemoval
    /\ removal # NoRemoval =>
         /\ removal.cpu \in Workers /\ ~ q.activated /\ q.used
         /\ \/ removal.by = 0 /\ main = "resetting"
            \/ removal.by \in Workers /\ pc[removal.by] = "removing"

\* A vCPU is held back in its system call, for the active schedule or until the loop
\* comes to it.
HeldOK ==
    \A c \in Workers : q.blocked[c] =>
        pc[c] = "syscall" /\ (q.activated \/ (removal # NoRemoval /\ removal.cpu <= c))

KidnapInv ==
    RefInv /\ TasksOK(q) /\ DOMAIN pc = Workers /\ NoneRuns /\ MetInSyscall /\ LoopOK /\ HeldOK

\* Nothing is held back and nobody runs when QEMU and the executor start.
LEMMA KidnapInit == Init => KidnapInv
<1> SUFFICES ASSUME Init PROVE KidnapInv
    OBVIOUS
<1>1. RefInv
    BY RefInit, Zenon
<1>2. /\ q.total = 0 /\ q.entries = [i \in 0 .. MaxSchedpoints - 1 |-> ZeroEntry]
      /\ q.blocked = [c \in Workers |-> FALSE]
      /\ pc = [c \in Workers |-> "done"] /\ exit = [c \in Workers |-> NoExit]
      /\ removal = NoRemoval /\ main = "reset"
    BY Zenon DEF Init
<1>3. TasksOK(q)
    BY <1>2, BoundsAssumption DEF TasksOK, ZeroEntry, OtherTask
<1>4. DOMAIN pc = Workers /\ NoneRuns /\ HeldOK
    BY <1>2, Zenon DEF NoneRuns, HeldOK, Ended
<1>5. MetInSyscall /\ LoopOK
    BY <1>2 DEF MetInSyscall, LoopOK, NoExit
<1> QED
    BY <1>1, <1>3, <1>4, <1>5, Zenon DEF KidnapInv

\* A step in which no worker moves, no loop goes on and no schedule starts or ends.
LEMMA KidnapQuiet ==
    ASSUME KidnapInv, RefInv', TasksOK(q'), pc' = pc, removal' = removal, exit' = exit, NoneRuns',
           main' = "resetting" <=> main = "resetting",
           q'.activated = q.activated, q'.used = q.used,
           \A c \in Workers : q'.blocked[c] => q.blocked[c]
    PROVE  KidnapInv'
  BY Zenon DEF KidnapInv, MetInSyscall, LoopOK, HeldOK

\* In particular one that keeps flags and schedule.
LEMMA KeepsQuiet ==
    ASSUME KidnapInv, RefInv', Keeps(q, q'), pc' = pc, removal' = removal, exit' = exit, NoneRuns',
           main' = "resetting" <=> main = "resetting"
    PROVE  KidnapInv'
<1>1. /\ TasksOK(q') /\ q'.activated = q.activated /\ q'.used = q.used
      /\ \A c \in Workers : q'.blocked[c] => q.blocked[c]
    BY SameTasksOK, Zenon DEF KidnapInv, Keeps, SameFlags, SameSchedule
<1> QED
    BY <1>1, KidnapQuiet, Zenon

\* A step of a worker that is not held back, and may start a schedule.
LEMMA KidnapMoves ==
    ASSUME KidnapInv, RefInv', TasksOK(q'), NEW c \in Workers, NEW x,
           pc[c] \notin Ended \cup {"removing"}, ~ q.blocked[c], exit[c] = NoExit,
           pc' = [pc EXCEPT ![c] = x], removal' = removal, exit' = exit, main' = main,
           q'.used = q.used, q.activated => q'.activated,
           q'.activated => q.activated \/ ~ q.used,
           \A k \in Workers : q'.blocked[k] => q.blocked[k]
    PROVE  KidnapInv'
<1> USE DEF KidnapInv
<1>1. DOMAIN pc' = Workers /\ \A k \in Workers \ {c} : pc'[k] = pc[k]
    BY Zenon
<1>2. NoneRuns'
    BY Zenon DEF NoneRuns
<1>3. exit[c].ctx # "task"
    BY DEF NoExit
<1>4. MetInSyscall'
    BY <1>1, <1>3, Zenon DEF MetInSyscall
<1>5. LoopOK'
    BY <1>1, Zenon DEF LoopOK
<1>6. HeldOK'
    BY <1>1, Zenon DEF HeldOK
<1> QED
    BY <1>1, <1>2, <1>4, <1>5, <1>6, ZenonT(60)

\* In particular one that keeps flags and schedule.
LEMMA KeepsMoves ==
    ASSUME KidnapInv, RefInv', Keeps(q, q'), NEW c \in Workers,
           pc[c] \notin Ended \cup {"removing"}, ~ q.blocked[c], exit[c] = NoExit,
           \E x : pc' = [pc EXCEPT ![c] = x], removal' = removal, exit' = exit, main' = main
    PROVE  KidnapInv'
<1>1. /\ TasksOK(q') /\ q'.activated = q.activated /\ q'.used = q.used
      /\ \A k \in Workers : q'.blocked[k] => q.blocked[k]
    BY SameTasksOK, Zenon DEF KidnapInv, Keeps, SameFlags, SameSchedule
<1> QED
    BY <1>1, KidnapMoves, Zenon

\* One critical section of a worker's DEACTIVATE, from a state s in which it has ended
\* the schedule, and with no vCPU held back that it has passed.
Loops(c, s, k, i) ==
    /\ pc[c] \in {"deactivate", "removing"}
    /\ FlagTypes(s) /\ TasksOK(s) /\ ~ s.activated /\ s.used /\ s.blocked = q.blocked
    /\ \A j \in Workers : q.blocked[j] => pc[j] = "syscall" /\ ~ (j < k)
    /\ RemoveFrom(s, c, k, i)
    /\ pc' = [pc EXCEPT ![c] = IF removal'.by = c THEN "removing" ELSE "clear"]
    /\ exit' = exit /\ main' = main

\* Whom it has not come to is still held back, and whom it has passed is free.
LEMMA KidnapLoops ==
    ASSUME KidnapInv, RefInv', NEW c \in Workers, NEW s, NEW k \in Nat, NEW i, Loops(c, s, k, i)
    PROVE  KidnapInv'
<1>0. c # 0
    BY WorkersAssumption, Zenon
<1> USE DEF Loops
<1> USE DEF KidnapInv
<1>1. /\ TasksOK(q') /\ ~ q'.activated /\ q'.used
      /\ \/ removal' = NoRemoval
         \/ removal'.by = c /\ removal'.cpu \in Workers
      /\ \A j \in Workers :
            q'.blocked[j] => /\ q.blocked[j]
                             /\ j < k \/ (removal'.cpu \in Workers /\ removal'.cpu <= j)
    BY <1>0, RemovedFrom
<1>2. /\ DOMAIN pc' = Workers /\ \A j \in Workers \ {c} : pc'[j] = pc[j]
      /\ removal'.by = c => pc'[c] = "removing"
    BY Zenon
<1>3. main \notin {"reset", "resetting", "enable", "prepare"} /\ pc[c] # "syscall"
    BY Zenon DEF NoneRuns, Ended
<1>4. NoneRuns' /\ MetInSyscall'
    BY <1>2, <1>3, Zenon DEF NoneRuns, MetInSyscall
<1>5. LoopOK'
    BY <1>1, <1>2, <1>3, Zenon DEF LoopOK
<1>6. NoRemoval.cpu = 0 /\ 0 \notin Workers
    BY WorkersAssumption DEF NoRemoval
<1>7. HeldOK'
    BY <1>1, <1>2, <1>3, <1>6, Zenon DEF HeldOK
<1> QED
    BY <1>1, <1>2, <1>4, <1>5, <1>7, Zenon

\* resume_task() sets its vCPU free and keeps the schedule.
LEMMA Resumed ==
    ASSUME NEW s, NEW c \in Workers, FlagTypes(s)
    PROVE  /\ SameSchedule(s, resume_task(s, c))
           /\ \A k \in Workers : resume_task(s, c).blocked[k] => s.blocked[k]
<1> DEFINE r == Insist(s, s.blocked[c], "nothing kidnapped")
           t == [r EXCEPT !.blocked[c] = FALSE, !.waking_up[c] = FALSE,
                          !.force_wakeup[c] = FALSE, !.kicked[c] = FALSE]
           u == expand_window(t, c)
<1>1. Keeps(s, r)
    BY KeepsInsist, Zenon DEF FlagTypes
<1>2. /\ DOMAIN t = Fields /\ t.entries = r.entries /\ t.total = r.total
      /\ t.activated = r.activated /\ t.used = r.used
      /\ t.blocked = [r.blocked EXCEPT ![c] = FALSE]
  <2> HIDE DEF r
  <2> QED BY <1>1, Zenon DEF Keeps, SameFlags, IsState, Fields
<1> HIDE DEF r, t
<1>3. /\ IsState(t) /\ SameSchedule(s, t)
      /\ \A k \in Workers : t.blocked[k] => s.blocked[k]
    BY <1>1, <1>2, ZenonT(60) DEF Keeps, SameFlags, SameSchedule, SameTasks, IsState, FlagTypes
<1>4. Keeps(t, u)
    BY <1>3, KeepsExpand, Zenon
<1> HIDE DEF u
<1>5. /\ SameSchedule(s, u)
      /\ \A k \in Workers : u.blocked[k] => s.blocked[k]
    BY <1>3, <1>4, Zenon DEF Keeps, SameFlags, SameSchedule, SameTasks
<1> QED
    BY <1>5, Zenon DEF u, t, r, resume_task

\* One critical section of RESET, which runs when no worker does: nothing is held back.
LEMMA KidnapResets ==
    ASSUME KidnapInv, RefInv', NEW s, NEW k \in Nat, NEW i,
           main \in {"reset", "resetting"}, FlagTypes(s), TasksOK(s), ~ s.activated, s.used,
           RemoveFrom(s, 0, k, i), EscapedIn(q, q'), pc' = pc, exit' = exit,
           main' = IF removal'.cpu = 0 THEN "enable" ELSE "resetting"
    PROVE  KidnapInv'
<1> USE DEF KidnapInv
<1>1. /\ TasksOK(q') /\ ~ q'.activated /\ q'.used
      /\ \/ removal' = NoRemoval
         \/ removal'.by = 0 /\ removal'.cpu \in Workers
    BY RemovedFrom, Zenon
<1>2. \A c \in Workers : q'.blocked[c] => q.blocked[c]
    BY EscapedStep, Zenon
<1>3. \A c \in Workers : pc[c] \in Ended
    BY Zenon DEF NoneRuns
<1>4. \A c \in Workers : ~ q.blocked[c]
    BY <1>3, Zenon DEF HeldOK, Ended
<1>5. NoneRuns' /\ HeldOK' /\ MetInSyscall'
    BY <1>2, <1>3, <1>4, Zenon DEF NoneRuns, HeldOK, MetInSyscall
<1>6. NoRemoval.cpu = 0 /\ 0 \notin Workers
    BY WorkersAssumption DEF NoRemoval
<1>7. LoopOK'
    BY <1>1, <1>6, Zenon DEF LoopOK
<1> QED
    BY <1>1, <1>5, <1>7, Zenon

\* What the executor's main thread does.
LEMMA KidnapMain ==
    ASSUME KidnapInv, Main PROVE KidnapInv'
<1>0. /\ RefInv /\ RefInv' /\ IsState(q) /\ FlagTypes(q) /\ TasksOK(q)
    BY MainStep, Zenon DEF KidnapInv, RefInv, FlagTypes
<1>1. CASE Reset
  <2> DEFINE s == [q EXCEPT !.used = TRUE, !.activated = FALSE]
  <2>1. SameFlags(q, s) /\ ~ s.activated /\ s.used /\ SameTasks(q, s)
      BY <1>0 DEF SameFlags, SameTasks, IsState, Fields
  <2>2. /\ RemoveFrom(s, 0, 0, 0) /\ exit' = exit /\ pc' = pc /\ main = "reset"
        /\ main' = IF removal'.cpu = 0 THEN "enable" ELSE "resetting"
      BY <1>1, Zenon DEF Reset
  <2> HIDE DEF s
  <2>3. EscapedIn(q, q')
      BY <2>1, <2>2, EscapedFrom, KeepsEscaped, Zenon DEF SameFlags
  <2>4. FlagTypes(s) /\ TasksOK(s)
      BY <1>0, <2>1, SameTasksOK, Zenon DEF FlagTypes, SameFlags
  <2>5. 0 \in Nat
      OBVIOUS
  <2> QED
      BY <1>0, <2>1, <2>2, <2>3, <2>4, <2>5, KidnapResets
<1>2. CASE ResetContinues
  <2>1. /\ RemoveFrom(q, 0, removal.cpu, removal.order) /\ exit' = exit /\ pc' = pc
        /\ main = "resetting" /\ main' = IF removal'.cpu = 0 THEN "enable" ELSE "resetting"
      BY <1>2, Zenon DEF ResetContinues
  <2>2. EscapedIn(q, q')
      BY <1>0, <2>1, EscapedFrom, Zenon
  <2>3. removal.cpu \in Nat /\ ~ q.activated /\ q.used
      BY <2>1, WorkersAssumption, Zenon DEF KidnapInv, LoopOK
  <2> QED
      BY <1>0, <2>1, <2>2, <2>3, KidnapResets
<1>3. CASE EnableKssb
  <2>1. PICK on \in BOOLEAN : q' = [q EXCEPT !.kssb_enabled = @ \/ on]
      BY <1>3, Zenon DEF EnableKssb
  <2>2. Keeps(q, q')
      BY <1>0, <2>1, Zenon DEF Keeps, SameFlags, SameSchedule, SameTasks, IsState, Fields
  <2>3. /\ pc' = pc /\ removal' = removal /\ exit' = exit /\ main = "enable" /\ main' = "prepare"
      BY <1>3, Zenon DEF EnableKssb
  <2>4. NoneRuns'
      BY <2>3, Zenon DEF KidnapInv, NoneRuns
  <2> QED
      BY <1>0, <2>2, <2>3, <2>4, KeepsQuiet, Zenon
<1>4. CASE Prepare
  <2>1. PICK p \in Plans : q' = prepare(q, Len(p.points), Cardinality({c \in Workers : MyOrders(p, c) # {}}))
      BY <1>4, Zenon DEF Prepare
  <2>2. TasksOK(q') /\ SameFlags(q, q')
      BY <1>0, <2>1, FlagsPrepare, PlansAssumption, Zenon
  <2>3. DOMAIN pc' = Workers /\ exit' = exit /\ removal' = removal /\ main = "prepare" /\ main' = "run"
      BY <1>4, Zenon DEF Prepare
  <2>4. \A c \in Workers : pc[c] \in Ended
      BY <2>3, Zenon DEF KidnapInv, NoneRuns
  <2>5. (\A c \in Workers : ~ q.blocked[c] /\ exit[c].ctx # "task") /\ removal = NoRemoval
      BY <2>3, <2>4, Zenon DEF KidnapInv, HeldOK, MetInSyscall, LoopOK, Ended
  <2>6. NoneRuns' /\ MetInSyscall' /\ LoopOK' /\ HeldOK'
      BY <2>2, <2>3, <2>5, Zenon DEF NoneRuns, MetInSyscall, LoopOK, HeldOK, SameFlags
  <2> QED
      BY <1>0, <2>2, <2>3, <2>6, Zenon DEF KidnapInv
<1>5. CASE DisableKssb
  <2>1. Keeps(q, q')
      BY <1>0, <1>5, KeepsDisable, Zenon DEF DisableKssb
  <2>2. /\ pc' = pc /\ removal' = removal /\ exit' = exit /\ main = "disable"
        /\ main' \in {"disable", "exit"}
      BY <1>5, Zenon DEF DisableKssb
  <2>3. NoneRuns'
      BY <2>2, Zenon DEF NoneRuns
  <2> QED
      BY <1>0, <2>1, <2>2, <2>3, KeepsQuiet, Zenon
<1>6. CASE Wait \/ Kill \/ NextProgram
  <2>1. Keeps(q, q') /\ pc' = pc /\ removal' = removal /\ exit' = exit
      BY <1>0, <1>6, KeepsRefl, Zenon DEF Wait, Kill, NextProgram
  <2>2. /\ main \in {"run", "exit"} /\ main' \in {"disable", "exit", "reset"}
        /\ main' = "reset" => \A c \in Workers : pc[c] \in Ended
      BY <1>6, Zenon DEF Wait, Kill, NextProgram, Ended
  <2>3. NoneRuns'
      BY <2>1, <2>2, Zenon DEF NoneRuns
  <2> QED
      BY <1>0, <2>1, <2>2, <2>3, KeepsQuiet, Zenon
<1> QED
    BY <1>1, <1>2, <1>3, <1>4, <1>5, <1>6, ZenonT(60) DEF Main

\* What a worker thread does.
LEMMA KidnapWorker ==
    ASSUME KidnapInv, NEW c \in Workers, Worker(c) PROVE KidnapInv'
<1>0. /\ RefInv /\ RefInv' /\ IsState(q) /\ FlagTypes(q) /\ TasksOK(q)
    BY WorkerStep, Zenon DEF KidnapInv, RefInv, FlagTypes
<1>01. c \in Nat /\ 0 \in Nat /\ c # 0
    BY WorkersAssumption
<1>1. CASE Deactivate(c)
  <2> DEFINE r == [q EXCEPT !.state[c] = "deactivated"]
             s == close_window(r, c)
             t == [s EXCEPT !.activated = FALSE, !.used = TRUE]
  <2>1. Keeps(q, r)
      BY <1>0, Zenon DEF Keeps, SameFlags, SameSchedule, SameTasks, IsState, Fields
  <2>2. Keeps(q, s)
    <3> HIDE DEF r
    <3> QED BY <2>1, KeepsClose, KeepsState, KeepsTrans, Zenon
  <2>3. SameFlags(s, t) /\ SameTasks(s, t) /\ ~ t.activated /\ t.used
    <3> HIDE DEF s
    <3> QED BY <2>2, Zenon DEF Keeps, SameFlags, SameTasks, IsState, Fields
  <2>4. /\ \/ q' = q /\ removal' = removal
           \/ q' = s /\ removal' = removal
           \/ s.activated /\ RemoveFrom(t, c, 0, 0)
        /\ pc' = [pc EXCEPT ![c] = IF removal'.by = c THEN "removing" ELSE "clear"]
        /\ exit' = exit /\ main' = main /\ pc[c] = "deactivate"
        /\ ~ q.blocked[c] /\ exit[c] = NoExit
      BY <1>1, Zenon DEF Deactivate, InGuest
  <2> HIDE DEF s, t
  <2>5. ASSUME Keeps(q, q'), removal' = removal PROVE KidnapInv'
    <3>1. pc[c] \notin Ended \cup {"removing"}
        BY <2>4, Zenon DEF Ended
    <3> QED BY <1>0, <2>4, <2>5, <3>1, KeepsMoves, Zenon
  <2>6. CASE s.activated /\ RemoveFrom(t, c, 0, 0)
    <3>1. FlagTypes(t) /\ TasksOK(t) /\ t.blocked = q.blocked
        BY <1>0, <2>2, <2>3, SameTasksOK, Zenon DEF FlagTypes, Keeps, SameFlags, SameSchedule
    <3>2. removal = NoRemoval
        BY <2>2, <2>6, Zenon DEF KidnapInv, LoopOK, Keeps, SameSchedule
    <3>3. \A k \in Workers : ~ (k < 0)
        BY WorkersAssumption
    <3>4. \A k \in Workers : q.blocked[k] => pc[k] = "syscall" /\ ~ (k < 0)
        BY <3>3, Zenon DEF KidnapInv, HeldOK
    <3>5. Loops(c, t, 0, 0)
        BY <2>3, <2>4, <2>6, <3>1, <3>4, Zenon DEF Loops
    <3> QED BY <1>0, <1>01, <3>5, KidnapLoops, Zenon
  <2> QED
      BY <1>0, <2>2, <2>4, <2>5, <2>6, KeepsRefl, Zenon
<1>2. CASE DeactivateContinues(c)
  <2>1. /\ RemoveFrom(q, c, removal.cpu, removal.order) /\ exit' = exit /\ main' = main
        /\ pc' = [pc EXCEPT ![c] = IF removal'.by = c THEN "removing" ELSE "clear"]
        /\ pc[c] = "removing" /\ removal.by = c
      BY <1>2, Zenon DEF DeactivateContinues
  <2>2. removal # NoRemoval
      BY <1>01, <2>1 DEF NoRemoval
  <2>3. removal.cpu \in Workers /\ removal.cpu \in Nat /\ ~ q.activated /\ q.used
      BY <2>2, WorkersAssumption, Zenon DEF KidnapInv, LoopOK
  <2>4. \A k \in Workers : q.blocked[k] => pc[k] = "syscall" /\ removal.cpu <= k
      BY <2>3, Zenon DEF KidnapInv, HeldOK
  <2>5. \A k \in Workers : q.blocked[k] => pc[k] = "syscall" /\ ~ (k < removal.cpu)
      BY <2>3, <2>4, WorkersAssumption
  <2>6. Loops(c, q, removal.cpu, removal.order)
      BY <1>0, <2>1, <2>3, <2>5, Zenon DEF Loops
  <2> QED
      BY <1>0, <2>3, <2>6, KidnapLoops, Zenon
<1>3. CASE Install(c)
  <2>1. /\ pc[c] = "install" /\ ~ q.blocked[c] /\ exit[c] = NoExit
        /\ exit' = exit /\ main' = main /\ removal' = removal
        /\ \E x : pc' = [pc EXCEPT ![c] = x]
      BY <1>3, Zenon DEF Install, InGuest
  <2>2. Installs(q, q', c)
      BY <1>0, <1>3, FlagsInstall, Zenon DEF Install
  <2>3. TasksOK(q')
      BY <1>0, <1>01, <2>2, InstallsOK, Zenon
  <2>4. pc[c] \notin Ended \cup {"removing"}
      BY <2>1, Zenon DEF Ended
  <2> QED
      BY <1>0, <2>1, <2>2, <2>3, <2>4, KidnapMoves, ZenonT(60) DEF Installs, SameFlags
<1>4. CASE Activate(c)
  <2>1. /\ pc[c] = "activate" /\ ~ q.blocked[c] /\ exit[c] = NoExit
        /\ exit' = exit /\ main' = main /\ removal' = removal
        /\ \E x : pc' = [pc EXCEPT ![c] = x]
        /\ q' = activate_breakpoint(q, c).q
      BY <1>4, Zenon DEF Activate, InGuest
  <2>2. /\ SameFlags(q, q') /\ SameTasks(q, q') /\ q'.used = q.used
        /\ q.activated => q'.activated
        /\ q'.activated => q.activated \/ ~ q.used
      BY <1>0, <2>1, FlagsActivate, Zenon
  <2>3. TasksOK(q')
      BY <1>0, <2>2, SameTasksOK, Zenon
  <2>4. pc[c] \notin Ended \cup {"removing"}
      BY <2>1, Zenon DEF Ended
  <2> QED
      BY <1>0, <2>1, <2>2, <2>3, <2>4, KidnapMoves, ZenonT(60) DEF SameFlags
<1>5. CASE Clear(c)
  <2>1. /\ pc[c] = "clear" /\ ~ q.blocked[c] /\ exit[c] = NoExit
        /\ exit' = exit /\ main' = main /\ removal' = removal
        /\ pc' = [pc EXCEPT ![c] = "done"]
      BY <1>5, Zenon DEF Clear, InGuest
  <2>2. Installs(q, q', 0)
      BY <1>0, <1>5, FlagsClear, Zenon DEF Clear
  <2>3. TasksOK(q')
      BY <1>0, <1>01, <2>2, InstallsOK, Zenon
  <2>4. pc[c] \notin Ended \cup {"removing"}
      BY <2>1, Zenon DEF Ended
  <2> QED
      BY <1>0, <2>1, <2>2, <2>3, <2>4, KidnapMoves, ZenonT(60) DEF Installs, SameFlags
<1>6. CASE SyscallReturns(c) \/ Die(c)
  <2>1. /\ ~ q.blocked[c] /\ exit[c] = NoExit /\ pc[c] \notin Ended \cup {"removing"}
        /\ exit' = exit /\ main' = main /\ removal' = removal /\ q' = q
        /\ \E x : pc' = [pc EXCEPT ![c] = x]
      BY <1>6, Zenon DEF SyscallReturns, Die, InGuest, Ended
  <2>2. Keeps(q, q')
      BY <1>0, <2>1, KeepsRefl, Zenon
  <2> QED
      BY <1>0, <2>1, <2>2, KeepsMoves, Zenon
<1> QED
    BY <1>1, <1>2, <1>3, <1>4, <1>5, <1>6, ZenonT(60) DEF Worker

\* What a vCPU thread and its timer do: only a worker's own breakpoint, met while a
\* schedule is active, holds it back.
LEMMA KidnapVcpu ==
    ASSUME KidnapInv, NEW c \in Workers, Vcpu(c) PROVE KidnapInv'
<1>0. /\ RefInv /\ RefInv' /\ IsState(q) /\ FlagTypes(q) /\ TasksOK(q)
    BY VcpuStep, Zenon DEF KidnapInv, RefInv, FlagTypes
<1>1. CASE HitBreakpoint(c)
  <2>1. q' = q /\ removal' = removal /\ main' = main /\ pc' = pc
      BY <1>1, Zenon DEF HitBreakpoint
  <2>2. PICK rip, ctx : /\ exit' = [exit EXCEPT ![c] = [rip |-> rip, ctx |-> ctx]]
                        /\ ctx = "task" => pc[c] = "syscall"
      BY <1>1, Zenon DEF HitBreakpoint
  <2>3. exit'[c].ctx = ctx /\ \A k \in Workers \ {c} : exit'[k] = exit[k]
      BY <1>0, <2>2, Zenon DEF RefInv
  <2>4. MetInSyscall'
      BY <2>1, <2>2, <2>3, Zenon DEF KidnapInv, MetInSyscall
  <2> QED
      BY <1>0, <2>1, <2>4, Zenon DEF KidnapInv, NoneRuns, LoopOK, HeldOK
<1>2. CASE HandleBreakpoint(c)
  <2>1. /\ removal' = removal /\ main' = main /\ pc' = pc /\ exit' = [exit EXCEPT ![c] = NoExit]
        /\ q' = handle_breakpoint(q, c, exit[c].rip, exit[c].ctx)
      BY <1>2, Zenon DEF HandleBreakpoint
  <2>2. /\ Handled(q, q', c)
        /\ exit[c].ctx # "task" => Keeps(q, q')
      BY <1>0, <2>1, HandledBreakpoint, Zenon
  <2>3. SameSchedule(q, q')
      BY <2>2, Zenon DEF Handled, KidnappedIn, WokenIn, Keeps
  <2>4. TasksOK(q') /\ q'.activated = q.activated /\ q'.used = q.used
      BY <1>0, <2>3, SameTasksOK, Zenon DEF SameSchedule
  <2>5. exit'[c].ctx # "task" /\ \A k \in Workers \ {c} : exit'[k] = exit[k]
      BY <1>0, <2>1, Zenon DEF RefInv, NoExit
  <2>6. \A k \in Workers : q'.blocked[k] => q.blocked[k] \/ (k = c /\ pc[c] = "syscall" /\ q.activated)
    <3>1. CASE Keeps(q, q') \/ WokenIn(q, q', c)
        BY <3>1, Zenon DEF Keeps, SameFlags, WokenIn
    <3>2. CASE ~ Keeps(q, q') /\ ~ WokenIn(q, q', c)
      <4>1. q.activated /\ q'.blocked = [q.blocked EXCEPT ![c] = TRUE]
          BY <2>2, <3>2, Zenon DEF Handled, KidnappedIn
      <4>2. pc[c] = "syscall"
          BY <2>2, <3>2, Zenon DEF KidnapInv, MetInSyscall
      <4> QED BY <1>0, <4>1, <4>2, Zenon DEF FlagTypes
    <3> QED BY <3>1, <3>2, Zenon
  <2>7. HeldOK' /\ MetInSyscall'
      BY <2>1, <2>4, <2>5, <2>6, Zenon DEF KidnapInv, HeldOK, MetInSyscall
  <2> QED
      BY <1>0, <2>1, <2>4, <2>7, Zenon DEF KidnapInv, NoneRuns, LoopOK
<1>3. CASE TimerFires(c) \/ HandleKick(c) \/ PostRun(c)
  <2>1. removal' = removal /\ main' = main /\ pc' = pc /\ exit' = exit
      BY <1>3, Zenon DEF TimerFires, HandleKick, PostRun
  <2>2. SameSchedule(q, q') /\ \A k \in Workers : q'.blocked[k] => q.blocked[k]
    <3>1. CASE TimerFires(c)
        BY <1>0, <3>1, Zenon DEF TimerFires, IsState, Fields, SameSchedule, SameTasks
    <3>2. CASE HandleKick(c)
        BY <1>0, <3>2, Zenon DEF HandleKick, handle_kick, IsState, Fields, SameSchedule, SameTasks
    <3>3. CASE PostRun(c)
        BY <1>0, <3>3, Resumed, Zenon DEF PostRun
    <3> QED BY <1>3, <3>1, <3>2, <3>3, Zenon
  <2>3. TasksOK(q') /\ q'.activated = q.activated /\ q'.used = q.used
      BY <1>0, <2>2, SameTasksOK, Zenon DEF SameSchedule
  <2>4. NoneRuns'
      BY <2>1, Zenon DEF KidnapInv, NoneRuns
  <2> QED
      BY <1>0, <2>1, <2>2, <2>3, <2>4, KidnapQuiet, Zenon
<1> QED
    BY <1>1, <1>2, <1>3, Zenon DEF Vcpu

\* A vCPU is held back only for an active schedule, or until a DEACTIVATE that has
\* ended the schedule comes to it: once DEACTIVATE or RESET is through every vCPU runs
\* freely, whatever the vCPUs and schedules, wherever the executor is killed, and
\* whatever interrupts and other tasks run into the breakpoints.
THEOREM HeldForSchedule == Spec => []KidnappedForSchedule
<1>1. KidnapInv /\ [Next]_vars => KidnapInv'
  <2> SUFFICES ASSUME KidnapInv, [Next]_vars PROVE KidnapInv'
      OBVIOUS
  <2>1. CASE Next
      BY <2>1, KidnapMain, KidnapWorker, KidnapVcpu, Zenon DEF Next
  <2>2. CASE UNCHANGED vars
      BY <2>2, Zenon DEF vars, KidnapInv, RefInv, NoneRuns, MetInSyscall, LoopOK, HeldOK
  <2> QED
      BY <2>1, <2>2, Zenon
<1>2. KidnapInv => KidnappedForSchedule
    BY Zenon DEF KidnapInv, HeldOK, KidnappedForSchedule
<1> QED
    BY <1>1, <1>2, KidnapInit, PTL DEF Spec

-----------------------------------------------------------------------------
(* What ExecControl promises.  The scheduler's vCPUs are any set and its    *)
(* flags any functions, so nothing below is about the scheduler until the   *)
(* last theorem.                                                            *)

\* No flag is set when QEMU starts.
LEMMA ExecInit == Blocker!Init => Blocker!ExecInv
  BY DEF Blocker!Init, Blocker!ExecInv, Blocker!TypeOK, Blocker!WakeOnlyKidnapped,
         Blocker!EscapeGuaranteed

\* Every critical section of the blocker, and the timer signal, keeps the
\* invariant: one step per action.
LEMMA ExecStep == Blocker!ExecInv /\ [Blocker!Next]_(Blocker!vars) => Blocker!ExecInv'
<1> SUFFICES ASSUME Blocker!ExecInv, [Blocker!Next]_(Blocker!vars)
             PROVE  Blocker!ExecInv'
    OBVIOUS
<1> USE DEF Blocker!ExecInv, Blocker!TypeOK, Blocker!WakeOnlyKidnapped, Blocker!EscapeGuaranteed
<1>1. ASSUME NEW c \in Workers, Blocker!Kidnap(c)
      PROVE  Blocker!ExecInv'
    BY <1>1 DEF Blocker!Kidnap, Blocker!OthersWoken
<1>2. ASSUME NEW c \in Workers, Blocker!WakeOthers(c)
      PROVE  Blocker!ExecInv'
    BY <1>2, Zenon DEF Blocker!WakeOthers, Blocker!OthersWoken
<1>3. ASSUME NEW c \in Workers, Blocker!TimerFires(c)
      PROVE  Blocker!ExecInv'
    BY <1>3 DEF Blocker!TimerFires
<1>4. ASSUME NEW c \in Workers, Blocker!HandleKick(c)
      PROVE  Blocker!ExecInv'
    BY <1>4 DEF Blocker!HandleKick
<1>5. ASSUME NEW c \in Workers, Blocker!PostRun(c)
      PROVE  Blocker!ExecInv'
    BY <1>5 DEF Blocker!PostRun
<1>6. ASSUME NEW S \in SUBSET Workers, Blocker!Escape(S)
      PROVE  Blocker!ExecInv'
    BY <1>6, Zenon DEF Blocker!Escape
<1>7. CASE UNCHANGED Blocker!vars
    BY <1>7 DEF Blocker!vars
<1> QED
    BY <1>1, <1>2, <1>3, <1>4, <1>5, <1>6, <1>7, ZenonT(60) DEF Blocker!Next

\* The flags of the blocker have their types in every reachable state.
THEOREM ExecTypeCorrect == Blocker!Spec => []Blocker!TypeOK
<1>1. Blocker!Spec => []Blocker!ExecInv
    BY ExecInit, ExecStep, PTL DEF Blocker!Spec
<1>2. Blocker!ExecInv => Blocker!TypeOK
    BY Zenon DEF Blocker!ExecInv
<1> QED
    BY <1>1, <1>2, PTL

\* qcsched_post_run() only ever resumes a vCPU that is held back.
THEOREM WakeSafe == Blocker!Spec => []Blocker!WakeOnlyKidnapped
<1>1. Blocker!Spec => []Blocker!ExecInv
    BY ExecInit, ExecStep, PTL DEF Blocker!Spec
<1>2. Blocker!ExecInv => Blocker!WakeOnlyKidnapped
    BY Zenon DEF Blocker!ExecInv
<1> QED
    BY <1>1, <1>2, PTL

\* A kidnapped vCPU always has a way out (timer, kick or pending wake-up).
THEOREM NoLostWakeup == Blocker!Spec => []Blocker!EscapeGuaranteed
<1>1. Blocker!Spec => []Blocker!ExecInv
    BY ExecInit, ExecStep, PTL DEF Blocker!Spec
<1>2. Blocker!ExecInv => Blocker!EscapeGuaranteed
    BY DEF Blocker!ExecInv
<1> QED
    BY <1>1, <1>2, PTL

\* So in the scheduler no wake-up is lost, and none is pending for a vCPU that is
\* not held back: the ASSERT of resume_task() does not fail.
THEOREM SchedulerLosesNoWakeup ==
    Spec => []Blocker!EscapeGuaranteed /\ []Blocker!WakeOnlyKidnapped
  BY SchedulerImplementsBlocker, NoLostWakeup, WakeSafe, PTL DEF ImplementsExecControl
=============================================================================
