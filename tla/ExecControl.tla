---------------------------- MODULE ExecControl ----------------------------
(***************************************************************************)
(* Holding vCPUs back: what the blocker of QCSCHED promises, whatever the  *)
(* schedule.  A vCPU is kidnapped by a breakpoint handler that runs on it, *)
(* which also arms its self-escape timer.  It goes on after another vCPU   *)
(* hands over its turn (wake_others_up), after the schedule is deactivated *)
(* or reset (reset_exec_control), or when the timer fires.                 *)
(*                                                                         *)
(* Each action is one critical section of the BQL; the timer's signal      *)
(* handler (kvm_ipi_signal) takes no lock.                                 *)
(***************************************************************************)
EXTENDS Integers

CONSTANT Vcpus  \* the vCPUs that run worker threads

VARIABLES
    blocked,       \* infos[c].blocker.blocked
    waking_up,     \* infos[c].blocker.waking_up
    kicked,        \* infos[c].kicked
    force_wakeup,  \* cpu->qcsched_force_wakeup
    armed          \* the timer of infos[c] is set and has not expired

vars == <<blocked, waking_up, kicked, force_wakeup, armed>>

Init ==
    /\ blocked = [c \in Vcpus |-> FALSE]
    /\ waking_up = [c \in Vcpus |-> FALSE]
    /\ kicked = [c \in Vcpus |-> FALSE]
    /\ force_wakeup = [c \in Vcpus |-> FALSE]
    /\ armed = [c \in Vcpus |-> FALSE]

\* The flags after wake_others_up(c).
OthersWoken(c) == [k \in Vcpus |-> waking_up[k] \/ (k # c /\ blocked[k])]

\* kidnap_task() from the hook, and from qcsched_yield_turn_from(), which then
\* wakes the other vCPUs up.
Kidnap(c) ==
    /\ ~ blocked[c]
    /\ blocked' = [blocked EXCEPT ![c] = TRUE]
    /\ \E woken \in {waking_up, OthersWoken(c)} : waking_up' = [woken EXCEPT ![c] = FALSE]
    /\ armed' = [armed EXCEPT ![c] = TRUE]
    /\ UNCHANGED <<kicked, force_wakeup>>

\* qcsched_yield_turn_from() when kidnap_task() returns early.
WakeOthers(c) ==
    /\ ~ blocked[c]
    /\ waking_up' = OthersWoken(c)
    /\ UNCHANGED <<blocked, kicked, force_wakeup, armed>>

\* Mutant: the wake-up is taken back, but not the blocking.
Escape_blocked(S) ==
    /\ waking_up' = [c \in Vcpus |-> waking_up[c] /\ c \notin S]
    /\ UNCHANGED <<blocked, kicked, force_wakeup, armed>>

\* __escape_if_kidnapped() for some vCPUs.
Escape(S) ==
    /\ blocked' = [c \in Vcpus |-> blocked[c] /\ c \notin S]
    /\ waking_up' = [c \in Vcpus |-> waking_up[c] /\ c \notin S]
    /\ UNCHANGED <<kicked, force_wakeup, armed>>

TimerFires(c) ==
    /\ armed[c]
    /\ armed' = [armed EXCEPT ![c] = FALSE]
    /\ kicked' = [kicked EXCEPT ![c] = TRUE]
    /\ UNCHANGED <<blocked, waking_up, force_wakeup>>

\* Mutant: a kick that comes after the vCPU went on still wakes it up.
HandleKick_late(c) ==
    /\ kicked[c]
    /\ kicked' = [kicked EXCEPT ![c] = FALSE]
    /\ force_wakeup' = [force_wakeup EXCEPT ![c] = TRUE]
    /\ waking_up' = [waking_up EXCEPT ![c] = TRUE]
    /\ UNCHANGED <<blocked, armed>>

\* Mutant: the timer is set again instead of waking the vCPU up.
HandleKick_rearm(c) ==
    /\ kicked[c]
    /\ kicked' = [kicked EXCEPT ![c] = FALSE]
    /\ armed' = [armed EXCEPT ![c] = TRUE]
    /\ UNCHANGED <<blocked, waking_up, force_wakeup>>

HandleKick(c) ==
    /\ kicked[c]
    /\ kicked' = [kicked EXCEPT ![c] = FALSE]
    /\ force_wakeup' = [force_wakeup EXCEPT ![c] = @ \/ blocked[c]]
    /\ waking_up' = [waking_up EXCEPT ![c] = @ \/ blocked[c]]
    /\ UNCHANGED <<blocked, armed>>

\* qcsched_post_run() and resume_task().
PostRun(c) ==
    /\ waking_up[c]
    /\ blocked' = [blocked EXCEPT ![c] = FALSE]
    /\ waking_up' = [waking_up EXCEPT ![c] = FALSE]
    /\ force_wakeup' = [force_wakeup EXCEPT ![c] = FALSE]
    /\ kicked' = [kicked EXCEPT ![c] = FALSE]
    /\ UNCHANGED armed

Next ==
    \/ \E c \in Vcpus : \/ Kidnap(c) \/ WakeOthers(c) \/ TimerFires(c)
                        \/ HandleKick(c) \/ PostRun(c)
    \/ \E S \in SUBSET Vcpus : Escape(S)

Spec == Init /\ [][Next]_vars

-----------------------------------------------------------------------------
TypeOK ==
    /\ blocked \in [Vcpus -> BOOLEAN]
    /\ waking_up \in [Vcpus -> BOOLEAN]
    /\ kicked \in [Vcpus -> BOOLEAN]
    /\ force_wakeup \in [Vcpus -> BOOLEAN]
    /\ armed \in [Vcpus -> BOOLEAN]

\* A wake-up is only ever pending for a vCPU that is held back, so the
\* "nothing has been kidnapped" ASSERT of resume_task() cannot fail.
WakeOnlyKidnapped == \A c \in Vcpus : waking_up[c] => blocked[c]

\* No wake-up is lost: a vCPU that is held back has a timer that will fire, a
\* kick that it has not handled, or a pending wake-up.  Re-arming the timer,
\* clearing kicked on resume and the flag resets of blocker_reset() keep it.
EscapeGuaranteed ==
    \A c \in Vcpus : blocked[c] => armed[c] \/ kicked[c] \/ waking_up[c]

ExecInv == TypeOK /\ WakeOnlyKidnapped /\ EscapeGuaranteed

Fairness ==
    \A c \in Vcpus : WF_vars(TimerFires(c)) /\ WF_vars(HandleKick(c)) /\ WF_vars(PostRun(c))

FairSpec == Spec /\ Fairness

\* A kidnapped vCPU goes on: the timer alone is enough.
KidnappedResumes == \A c \in Vcpus : blocked[c] ~> ~ blocked[c]
=============================================================================
