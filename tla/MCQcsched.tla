----------------------------- MODULE MCQcsched -----------------------------
(***************************************************************************)
(* Two worker vCPUs.  A window holds 2 breakpoints (3 in the code) and a   *)
(* vCPU has 3 debug registers (4), so that a vCPU with three schedpoints   *)
(* slides its window.                                                      *)
(***************************************************************************)
EXTENDS Qcsched

At(c, a) == [cpu |-> c, addr |-> a, filter |-> FALSE]
Filtered(c, a) == [cpu |-> c, addr |-> a, filter |-> TRUE]

Program(ps, ctxs, k) == [points |-> ps, contexts |-> ctxs, kill |-> k]

\* The shapes the fuzzer makes: a store-barrier test (its second thread has a
\* dummy), a load-barrier test and a threading run (two dummies).
FuzzerPoints ==
    { << At(1, "a"), At(2, Dummy) >>,
      << At(2, "b"), At(1, "a") >>,
      << At(1, Dummy), At(2, Dummy) >> }

\* One back-and-forth schedule, with an address that both threads execute.
PingPongPoints == << At(1, "a"), At(2, "a"), At(1, "b") >>

\* Longer schedules: more own entries than the window holds, a filtered one among
\* them, and one entry more than MaxSchedpoints; consecutive entries, and back.
LongPoints ==
    { << At(1, "a"), Filtered(1, "b"), At(1, "c"), At(2, "c"), At(1, "d"), At(1, "e") >>,
      << At(2, "b"), At(1, "a"), At(1, "b"), At(2, "c") >> }

\* Programs that follow each other in any order: long schedules, the fuzzer's
\* shapes, one of them in a process that may be killed, and two schedules in which
\* one vCPU prunes schedpoints of the other while interrupts, or tasks that are not
\* scheduled, run into breakpoints.
LoadTest == << At(2, "b"), At(1, "a") >>
AllPlans ==
    {Program(ps, {"task"}, "never") : ps \in LongPoints \cup (FuzzerPoints \ {LoadTest})}
    \cup {Program(LoadTest, {"task"}, "in_syscall"),
          Program(PingPongPoints, {"task", "irq"}, "never"),
          Program(LoadTest, {"task", "other"}, "never")}

PingPong == {Program(PingPongPoints, {"task"}, "never")}

\* A process that may be killed at any point.
KilledPlans == {Program(ps, {"task"}, "anywhere") : ps \in FuzzerPoints}
=============================================================================
