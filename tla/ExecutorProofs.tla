--------------------------- MODULE ExecutorProofs ---------------------------
(***************************************************************************)
(* Where the calls of a program are, for every encoded program and every    *)
(* timing: a call is begun and replied to once, the epochs are barriers,    *)
(* and a program that is executed to its end has all its replies.           *)
(***************************************************************************)
EXTENDS ExecutorPlaces

USE SMTT(30)

-----------------------------------------------------------------------------
(* How far the epochs have come.                                            *)

\* The calls nobody waits for any more; the calls that a thread's present worker has.
Settled == hist.gaveUp \cup hist.dropped \cup Replied
Current(c) == LET w == get_thread(CallOf(c).thread) IN w.executing /\ w.call = c

\* The main thread is at an epoch instruction, in resume_pending_calls() or start_epoch().
InEpoch == \/ main.pc \in {"resume", "prepare", "signal", "notify", "wait"}
           \/ main.pc \in Scheduling /\ main.from = "resume"

\* Thread t's pended calls of this epoch have been resumed.
Resumed(t) ==
    \/ main.pc \in {"prepare", "signal", "notify", "wait"}
    \/ main.pc = "resume" /\ t < main.cursor
    \/ main.pc \in Scheduling /\ main.from = "resume" /\ t <= main.cursor

\* global_epoch counts the epoch instructions that have been executed.
Clock ==
    main.pc # "exit" =>
        /\ InEpoch => main.ip - 1 \in 1 .. Len(prog) /\ prog[main.ip - 1].op = "epoch"
        /\ main.global_epoch = EpochsBefore(prog, IF InEpoch THEN main.ip - 1 ELSE main.ip)
\* The calls of the earlier epochs are settled.
Barrier == \A c \in Calls : Epoch(c) < main.global_epoch => c \in Settled
\* A worker gets a call only when its epoch has come.
Timely ==
    /\ \A t \in Threads, s \in Slots : th[t][s].executing => run_in_epoch(th[t][s].call)
    /\ main.pc \in Scheduling => run_in_epoch(main.call)
\* The calls a thread has pended are its own, in the order of their epochs.
Sorted ==
    \A t \in Threads : \A k \in 1 .. Len(pended[t]) :
        /\ CallOf(pended[t][k].call).thread = t
        /\ \A j \in 1 .. Len(pended[t]) :
              j < k => Epoch(pended[t][j].call) < Epoch(pended[t][k].call)
\* The main thread loses sight of no call that is not settled.
Tracked ==
    main.pc # "exit" =>
        \A c \in Read : c \in Settled \cup Pending \cup InFlight \/ Current(c)
\* What is pended after its thread's turn to resume is for a later epoch.
Resumption ==
    \A c \in Pending : run_in_epoch(c) => ~Resumed(CallOf(c).thread)
\* The last loop of start_epoch() settles the calls of the epoch, thread by thread.
Awaiting ==
    main.pc = "wait" =>
        \A c \in Read : (run_in_epoch(c) /\ CallOf(c).thread < main.cursor) => c \in Settled

Epochs == Clock /\ Barrier /\ Timely /\ Sorted /\ Tracked /\ Resumption /\ Awaiting

\* The calls and their epochs are the program's.
LEMMA ProgSame ==
    ASSUME prog' = prog
    PROVE  Calls' = Calls /\ \A c : CallOf(c)' = CallOf(c) /\ Epoch(c)' = Epoch(c)
  BY DEF Calls, CallOf, Epoch

\* When an epoch is executed, its calls and those of the earlier ones have been read.
LEMMA EpochRead ==
    ASSUME Types, Clock, InEpoch, main.pc # "exit", NEW c \in Calls, run_in_epoch(c)
    PROVE  c \in Read
  <1>1. PICK j \in 1 .. Len(prog) : prog[j].op = "call" /\ prog[j].call = c
    BY CallIsInstruction, Zenon DEF Types
  <1>2. CallOf(c) = prog[j]
    BY <1>1, CallFound, Zenon DEF Types
  <1>3. prog[j].epoch <= EpochsBefore(prog, main.ip - 1)
    BY <1>2 DEF run_in_epoch, Epoch, Clock
  <1>4. j < main.ip - 1
    BY <1>1, <1>3, ProgramsAssumption, Zenon DEF Clock, Types
  <1>5. main.ip \in Nat /\ j \in Nat
    BY DEF Types, MainType
  <1> QED
    BY <1>1, <1>4, <1>5 DEF Read

\* A thread has at most one call that may run now and is not settled.
LEMMA OneUnsettled ==
    ASSUME Types, Barrier, NEW c \in Calls, NEW d \in Calls, run_in_epoch(c), run_in_epoch(d),
           CallOf(c).thread = CallOf(d).thread, c \notin Settled, d \notin Settled
    PROVE  c = d
  <1>1. PICK j \in 1 .. Len(prog) : prog[j].op = "call" /\ prog[j].call = c
    BY CallIsInstruction, Zenon DEF Types
  <1>2. PICK k \in 1 .. Len(prog) : prog[k].op = "call" /\ prog[k].call = d
    BY CallIsInstruction DEF Types
  <1>3. CallOf(c) = prog[j] /\ CallOf(d) = prog[k]
    BY <1>1, <1>2, CallFound, Zenon DEF Types
  <1>4. Epoch(c) \in Nat /\ Epoch(d) \in Nat /\ main.global_epoch \in Nat
    BY CallIsInstruction DEF Epoch, Types, MainType
  <1>5. Epoch(c) = Epoch(d)
    BY <1>4 DEF Barrier, run_in_epoch
  <1>6. ~(j < k) /\ ~(k < j)
    <2>1. prog \in Programs /\ prog[j].epoch = prog[k].epoch /\ prog[j].epoch \in Nat
          /\ prog[j].thread = prog[k].thread
      BY <1>3, <1>4, <1>5, Zenon DEF Epoch, Types
    <2>2. \A i, l \in 1 .. Len(prog) :
            (/\ prog[i].op = "call" /\ prog[l].op = "call" /\ i < l
             /\ prog[i].thread = prog[l].thread) => prog[i].epoch < prog[l].epoch
      BY <2>1, ProgramsAssumption
    <2> QED
      BY <1>1, <1>2, <2>1, <2>2
  <1> QED
    BY <1>1, <1>2, <1>6

\* Calls that are pended or in hand are not settled.
LEMMA NotSettled ==
    ASSUME Places
    PROVE  Pending \cap Settled = {} /\ InFlight \cap Settled = {}
  BY DEF Places, Disjoint, Assigned, Settled

\* Initially nothing has been read.
LEMMA EpochsInit == Events /\ Init => Epochs
  <1> SUFFICES ASSUME Events, Init PROVE Epochs
    OBVIOUS
  <1>1. main.ip = 1 /\ main.pc = "read" /\ main.global_epoch = 0 /\ prog \in Programs
        /\ \A t \in Threads, s \in Slots : ~th[t][s].executing
    BY DEF Init, Unused, Created
  <1>2. Types /\ Counting
    BY DEF Events
  <1>3. Read = {}
    BY <1>1, ProgramType DEF Read
  <1>4. EpochsBefore(prog, 1) = 0
    <2>1. {k \in 1 .. 1 - 1 : prog[k].op = "epoch"} = {}
      OBVIOUS
    <2> QED
      BY <1>2, <2>1 DEF Counting, EpochsBefore
  <1>5. Clock
    BY <1>1, <1>4, Pcs DEF Clock, InEpoch
  <1>6. Barrier
    BY <1>1, CallIsInstruction DEF Barrier, Epoch
  <1>7. Timely /\ Sorted
    BY <1>1, Pcs DEF Timely, Sorted, Init
  <1>8. Tracked /\ Resumption /\ Awaiting
    BY <1>1, <1>3 DEF Tracked, Resumption, Awaiting, Pending
  <1> QED
    BY <1>5, <1>6, <1>7, <1>8 DEF Epochs

\* The workers take no new call, and what they no longer have is settled.
Kept ==
    \A t \in Threads, s \in Slots :
        /\ th'[t][s].executing => th[t][s].executing /\ th'[t][s].call = th[t][s].call
        /\ th[t][s].executing => th'[t][s].executing \/ th[t][s].call \in Settled'

\* Steps within an epoch that settle calls, at most.
LEMMA EpochsFrame ==
    ASSUME Epochs, prog' = prog, main'.global_epoch = main.global_epoch, Settled \subseteq Settled'
    PROVE  /\ Barrier'
           /\ \A c : run_in_epoch(c)' = run_in_epoch(c)
           /\ pended' = pended => Sorted'
  <1>1. Calls' = Calls /\ \A c : CallOf(c)' = CallOf(c) /\ Epoch(c)' = Epoch(c)
    BY ProgSame
  <1>2. Barrier'
    BY <1>1 DEF Epochs, Barrier
  <1>3. \A c : run_in_epoch(c)' = run_in_epoch(c)
    BY <1>1 DEF run_in_epoch
  <1>4. pended' = pended => Sorted'
    BY <1>1 DEF Epochs, Sorted
  <1> QED
    BY <1>2, <1>3, <1>4

\* The process ends: what has been settled stays settled.
LEMMA EpochsExit ==
    ASSUME Epochs, prog' = prog, main'.global_epoch = main.global_epoch, Settled \subseteq Settled',
           pended' = pended, th' = th, main'.pc = "exit"
    PROVE  Epochs'
  <1>1. Barrier' /\ Sorted' /\ \A c : run_in_epoch(c)' = run_in_epoch(c)
    BY EpochsFrame
  <1>2. Timely'
    BY <1>1, Pcs, Zenon DEF Epochs, Timely
  <1>3. Clock' /\ Tracked' /\ Awaiting' /\ Resumption'
    BY Pcs DEF Clock, Tracked, Awaiting, Resumption, Resumed
  <1> QED
    BY <1>1, <1>2, <1>3 DEF Epochs

\* Steps within an epoch that hand no call to anyone.
LEMMA EpochsKept ==
    ASSUME Events, Epochs, prog' = prog, pended' = pended, blocked' = blocked,
           main'.global_epoch = main.global_epoch, main'.ip = main.ip,
           Settled \subseteq Settled', Kept,
           Read' = Read, Pending' = Pending, InFlight' = InFlight,
           main.pc # "exit", main'.pc # "exit", InEpoch' = InEpoch,
           main'.pc \in Scheduling => main.pc \in Scheduling /\ main'.call = main.call,
           main'.pc = "wait" => main'.cursor = 0 \/ (main.pc = "wait" /\ main'.cursor = main.cursor),
           (\A t \in Threads : Resumed(t)' => Resumed(t)) \/ Resumption'
    PROVE  Epochs'
  <1>1. Barrier' /\ Sorted' /\ \A c : run_in_epoch(c)' = run_in_epoch(c)
    BY EpochsFrame, Zenon
  <1>2. \A c : CallOf(c)' = CallOf(c)
    BY ProgSame, Zenon
  <1>3. \A c \in Read : CallOf(c).thread \in Threads /\ blocked[CallOf(c).thread] \in Slots
    BY ReadIsCall, CallIsInstruction DEF Events, Types
  <1>4. Timely'
    BY <1>1, Zenon DEF Epochs, Timely, Kept
  <1>5. Clock'
    BY Zenon DEF Epochs, Clock
  <1>6. Tracked'
    <2>1. \A c \in Read : Current(c) => Current(c)' \/ c \in Settled'
      BY <1>2, <1>3, ZenonT(60) DEF Current, get_thread, Kept
    <2> QED
      BY <2>1, Zenon DEF Epochs, Tracked
  <1>7. Resumption'
    <2>1. \A c \in Pending : c \in Read
      BY Zenon DEF Pending
    <2> QED
      BY <1>1, <1>2, <1>3, <2>1, Zenon DEF Epochs, Resumption
  <1>8. Awaiting'
    <2>1. \A c \in Read : ~(CallOf(c).thread < 0)
      BY <1>3, Sizes
    <2> QED
      BY <1>1, <1>2, <2>1, Zenon DEF Epochs, Awaiting
  <1> QED
    BY <1>1, <1>4, <1>5, <1>6, <1>7, <1>8, ZenonT(60) DEF Epochs

\* What the steps so far settle, and what they keep.
LEMMA QuietKept ==
    ASSUME Quiet
    PROVE  Settled' = Settled /\ (SameWorkers => Kept)
  BY DEF Quiet, Settled, SameWorkers, Kept

\* A result that is taken settles its call.
LEMMA TakenKept ==
    ASSUME Events, NEW t \in Threads, NEW s \in Slots, Completes(t, s), Taken(th[t][s].call)
    PROVE  Settled' = Settled \cup {th[t][s].call} /\ Kept
  <1>1. Settled' = Settled \cup {th[t][s].call}
    BY DEF Taken, Settled
  <1>2. th[t][s] \in Worker
    BY DEF Events, Types
  <1> DEFINE x == [th[t][s] EXCEPT !.executing = FALSE]
  <1>3. ~x.executing /\ Updates(t, s, x)
    BY <1>2 DEF Completes, Worker
  <1> HIDE DEF x
  <1> QED
    BY <1>1, <1>3, Zenon DEF Kept, Updates

\* The process ends on a failed check.
LEMMA EpochsFail == ASSUME Events, Epochs, NEW why, Fail(why) PROVE Epochs'
  <1>1. main'.pc = "exit" /\ main'.global_epoch = main.global_epoch
        /\ UNCHANGED <<prog, pended, th, out, hist>>
    BY DEF Fail, Events, Types, MainType
  <1>2. Settled' = Settled
    BY <1>1, Zenon DEF Settled, Replied
  <1> QED
    BY <1>1, <1>2, EpochsExit, Zenon

\* Between two states of schedule_call() the epoch is the same.
LEMMA SchedulingSame ==
    ASSUME main.pc \in Scheduling, main'.pc \in Scheduling, main'.from = main.from,
           main'.cursor = main.cursor
    PROVE  InEpoch' = InEpoch /\ \A t \in Threads : Resumed(t)' = Resumed(t)
  BY Pcs DEF InEpoch, Resumed

\* PickWorker hands out no call.
LEMMA EpochsPick == ASSUME Events, Places, Epochs, PickWorker PROVE Epochs'
  <1>1. main.pc = "schedule" /\ main.pc \in Scheduling /\ main \in MainType
    BY Pcs, Zenon DEF PickWorker, Events, Types
  <1>2. Target \in Threads /\ blocked[Target] \in Slots
    BY <1>1, TargetType, Zenon
  <1>3. CASE Fail("out of threads")
    BY <1>3, EpochsFail, Zenon
  <1>4. ASSUME NEW pc \in {"assign", "unhand"}, GoesTo(pc),
               Moves \/ (blocked' = blocked /\ Creates(Target))
        PROVE  Epochs'
    <2>1. /\ main'.pc \in Scheduling /\ main'.ip = main.ip /\ main'.call = main.call
          /\ main'.from = main.from /\ main'.cursor = main.cursor
          /\ main'.global_epoch = main.global_epoch /\ main'.pc # "exit"
      BY <1>1, <1>4, GoesToType, Pcs, Zenon
    <2>2. Quiet /\ SameWorkers
      <3>1. CASE Moves
        BY <1>1, <2>1, <3>1, MovesQuiet, Pcs, ZenonT(60) DEF Moves, SameWorkers
      <3>2. CASE blocked' = blocked /\ Creates(Target)
        BY <1>1, <1>2, <2>1, <3>2, CreatesQuiet, Pcs, ZenonT(60)
      <3> QED
        BY <1>4, <3>1, <3>2, Zenon
    <2>3. prog' = prog /\ pended' = pended /\ blocked' = blocked
      BY <1>4 DEF Moves, Creates
    <2>4. Read' = Read /\ Pending' = Pending /\ InFlight' = InFlight
      BY <2>1, <2>2, Zenon DEF Quiet
    <2> QED
      BY <1>1, <2>1, <2>2, <2>3, <2>4, Pcs, SchedulingSame, QuietKept, EpochsKept, ZenonT(60)
  <1>5. CASE main' = [main EXCEPT !.pc = "assign", !.running = main.running - 1]
             /\ Completes(Target, blocked[Target])
    <2>1. /\ main'.pc \in Scheduling /\ main'.ip = main.ip /\ main'.call = main.call
          /\ main'.from = main.from /\ main'.cursor = main.cursor
          /\ main'.global_epoch = main.global_epoch /\ main'.pc # "exit"
      BY <1>1, <1>5, Pcs, Zenon DEF MainType
    <2>2. Taken(th[Target][blocked[Target]].call)
      BY <1>1, <1>2, <1>5, <2>1, CompletesTaken, Pcs, ZenonT(60) DEF Places
    <2>3. Kept /\ Settled \subseteq Settled'
      BY <1>2, <1>5, <2>2, TakenKept, Zenon
    <2>4. prog' = prog /\ pended' = pended /\ blocked' = blocked
      BY <1>5, Zenon DEF Completes
    <2>5. Read' = Read /\ Pending' = Pending /\ InFlight' = InFlight
      BY <2>2, Zenon DEF Taken
    <2> QED
      BY <1>1, <2>1, <2>3, <2>4, <2>5, Pcs, SchedulingSame, EpochsKept, ZenonT(60)
  <1> QED
    BY <1>3, <1>4, <1>5, EventsPickWorker, ZenonT(60)

\* unhand_worker_thread: the call of the worker that is given up is of an earlier epoch
\* than the call in hand, so the main thread has waited for it already.
LEMMA EpochsUnhand == ASSUME Events, Places, Epochs, unhand_worker_thread PROVE Epochs'
  <1>1. main.pc = "unhand" /\ main.pc \in Scheduling /\ main \in MainType /\ Types
    BY Pcs, Zenon DEF unhand_worker_thread, Events, Types
  <1>2. /\ Target \in Threads /\ blocked[Target] \in Slots
        /\ main.call \in Read /\ main.call \in Calls
    BY <1>1, TargetType, ZenonT(60)
  <1>3. CASE Fail("out of threads")
    BY <1>3, EpochsFail, Zenon
  <1>4. CASE GoesTo("assign") /\ ~Fail("out of threads")
    <2>1. /\ main'.pc \in Scheduling /\ main'.ip = main.ip /\ main'.call = main.call
          /\ main'.from = main.from /\ main'.cursor = main.cursor
          /\ main'.global_epoch = main.global_epoch /\ main'.pc # "exit" /\ main'.pc # "wait"
      BY <1>1, <1>4, GoesToType, Pcs, Zenon
    <2>2. Quiet
      BY PlacesUnhand
    <2>3. Read' = Read /\ Pending' = Pending /\ InFlight' = InFlight /\ Settled' = Settled
      BY <2>1, <2>2, QuietKept, Zenon DEF Quiet
    <2>4. CASE Moves
      <3>1. SameWorkers /\ UNCHANGED <<prog, pended, blocked>>
        BY <2>4 DEF Moves, SameWorkers
      <3> QED
        BY <1>1, <2>1, <2>2, <2>3, <3>1, Pcs, SchedulingSame, QuietKept, EpochsKept, ZenonT(60)
    <2>5. CASE /\ blocked' = [blocked EXCEPT ![Target] = blocked[Target] + 1]
               /\ Creates(Target)
      <3> DEFINE T == Target
      <3>1. prog' = prog /\ pended' = pended
        BY <2>5 DEF Creates
      <3>2. Kept /\ SameWorkers
        <4>1. blocked'[Target] \in Slots
          BY <1>2, EventsUnhand, Zenon DEF Events, Types
        <4>2. SameWorkers
          BY <1>1, <1>2, <2>1, <2>5, <4>1, CreatesQuiet, ZenonT(60)
        <4> QED
          BY <2>2, <4>2, QuietKept, ZenonT(60)
      <3>3. \A u \in Threads : u # T => blocked'[u] = blocked[u]
        BY <1>1, <2>5, Zenon DEF Types
      <3>4. Barrier' /\ Sorted' /\ \A c : run_in_epoch(c)' = run_in_epoch(c)
        BY <2>1, <2>3, <3>1, EpochsFrame, Zenon
      <3>5. \A c : CallOf(c)' = CallOf(c)
        BY <3>1, ProgSame
      <3>6. Timely'
        BY <1>1, <2>1, <3>2, <3>4, Zenon DEF Epochs, Timely, Kept
      <3>7. InEpoch' = InEpoch /\ \A t \in Threads : Resumed(t)' = Resumed(t)
        BY <1>1, <2>1, SchedulingSame, Zenon
      <3>8. Clock'
        BY <1>1, <2>1, <3>1, <3>7, Pcs, ZenonT(60) DEF Epochs, Clock
      <3>9. \A c \in Read : CallOf(c).thread \in Threads /\ c \in Calls
        BY <1>1, ReadIsCall, CallIsInstruction, Zenon DEF Types
      <3>10. Resumption'
        <4>1. \A c \in Pending : c \in Read
          BY DEF Pending
        <4> QED
          BY <2>3, <3>4, <3>5, <3>7, <3>9, <4>1, ZenonT(60) DEF Epochs, Resumption
      <3>11. Tracked'
        <4> SUFFICES ASSUME NEW c \in Read, Current(c), c \notin Settled
                     PROVE  Current(c)'
          BY <1>1, <2>1, <2>3, Pcs, Zenon DEF Epochs, Tracked
        <4>1. th[CallOf(c).thread][blocked[CallOf(c).thread]].executing
              /\ th[CallOf(c).thread][blocked[CallOf(c).thread]].call = c
              /\ blocked[CallOf(c).thread] \in Slots
          BY <1>1, <3>9, ZenonT(60) DEF Current, get_thread, Types
        <4>2. CASE CallOf(c).thread = T
          <5>1. run_in_epoch(c) /\ run_in_epoch(main.call)
            BY <1>1, <3>9, <4>1, Zenon DEF Epochs, Timely
          <5>2. c \in Executing /\ main.call \in InFlight
            BY <1>1, <1>2, <3>9, <4>1, ZenonT(60) DEF Executing, InFlight
          <5>3. c # main.call /\ main.call \notin Settled
            BY <5>2, NotSettled DEF Places, Disjoint, Assigned
          <5> QED
            BY <1>1, <1>2, <3>9, <4>2, <5>1, <5>3, OneUnsettled, ZenonT(60) DEF Epochs, Target
        <4>3. CASE CallOf(c).thread # T
          <5>1. blocked'[CallOf(c).thread] = blocked[CallOf(c).thread]
            BY <3>3, <3>9, <4>3, ZenonT(60)
          <5>2. /\ th'[CallOf(c).thread][blocked[CallOf(c).thread]].executing
                /\ th'[CallOf(c).thread][blocked[CallOf(c).thread]].call = c
            BY <3>2, <3>9, <4>1, ZenonT(60) DEF SameWorkers
          <5> QED
            BY <3>5, <5>1, <5>2, ZenonT(60) DEF Current, get_thread
        <4> QED
          BY <4>2, <4>3, Zenon
      <3>12. Awaiting'
        BY <2>1 DEF Awaiting
      <3> QED
        BY <3>4, <3>6, <3>8, <3>10, <3>11, <3>12, Zenon DEF Epochs
    <2> QED
      BY <1>4, <2>4, <2>5, EventsUnhand, ZenonT(60)
  <1> QED
    BY <1>3, <1>4, EventsUnhand, Zenon

\* AssignCall: the call in hand is its thread's present call now.
LEMMA EpochsAssign == ASSUME Events, Places, Epochs, AssignCall PROVE Epochs'
  <1>1. main.pc = "assign" /\ main.pc \in Scheduling /\ main \in MainType /\ Types
    BY Pcs, ZenonT(60) DEF AssignCall, Events, Types
  <1> DEFINE T == Target
             b == blocked[T]
             x == WithCall(th[T][b], main.call)
  <1>2. T \in Threads /\ b \in Slots /\ th[T][b] \in Worker /\ main.call \in Calls
    BY <1>1, TargetType
  <1>3. CASE Fail("bad thread state in schedule")
    BY <1>3, EpochsFail, ZenonT(60)
  <1>4. CASE ~Fail("bad thread state in schedule")
    <2>1. /\ ~th[T][b].executing /\ Updates(T, b, x)
          /\ UNCHANGED <<prog, coverage, blocked, pended, out, ran, hist>>
          /\ main'.global_epoch = main.global_epoch /\ main'.ip = main.ip
          /\ \/ main.from = "read" /\ main'.pc = "read"
             \/ /\ main.from = "resume"
                /\ \/ main'.pc = "resume" /\ main'.cursor = main.cursor + 1
                   \/ main'.pc = "prepare" /\ main.cursor = kMaxThreads - 1
      BY <1>4, EventsAssign, Zenon
    <2>2. Read' = Read /\ InFlight = {main.call} /\ InFlight' = {} /\ Pending' = Pending
      BY <1>4, PlacesAssignCall, ZenonT(60)
    <2>3. Settled' = Settled /\ x.executing /\ x.call = main.call
      BY <1>2, <2>1 DEF Settled, Replied, WithCall, Worker
    <2>4. main'.pc \notin Scheduling /\ main'.pc # "exit" /\ main'.pc # "wait" /\ main.pc # "exit"
      BY <1>1, <2>1, Pcs, ZenonT(60)
    <2>5. CallOf(main.call).thread = T
      BY DEF Target
    <2> HIDE DEF x, T, b
    <2>6. Barrier' /\ Sorted' /\ \A c : run_in_epoch(c)' = run_in_epoch(c)
      BY <2>1, <2>3, EpochsFrame, Zenon
    <2>7. \A c : CallOf(c)' = CallOf(c)
      BY <2>1, ProgSame, Zenon
    <2>8. Timely'
      <3>1. run_in_epoch(main.call)
        BY <1>1, Zenon DEF Epochs, Timely
      <3>2. ASSUME NEW u \in Threads, NEW v \in Slots, th'[u][v].executing
            PROVE  run_in_epoch(th'[u][v].call)
        <4>1. CASE u = T /\ v = b
          BY <2>1, <2>3, <3>1, <4>1, Zenon DEF Updates
        <4>2. CASE u # T \/ v # b
          BY <2>1, <3>2, <4>2, ZenonT(60) DEF Updates, Epochs, Timely
        <4> QED
          BY <4>1, <4>2, Zenon
      <3> QED
        BY <2>4, <2>6, <3>2, ZenonT(60) DEF Timely
    <2>9. InEpoch' = InEpoch
      BY <1>1, <2>1, Pcs, Zenon DEF InEpoch
    <2>10. Clock'
      BY <2>1, <2>4, <2>9, ZenonT(60) DEF Epochs, Clock
    <2>11. \A c \in Read : CallOf(c).thread \in Threads /\ blocked[CallOf(c).thread] \in Slots
      BY <1>1, ReadIsCall, CallIsInstruction, ZenonT(60) DEF Types
    <2>12. Resumption'
      <3>1. \A t \in Threads : Resumed(t)' => Resumed(t)
        <4>1. main.cursor \in Nat /\ kMaxThreads \in Nat
              /\ \A t \in Threads : t \in Nat /\ t <= kMaxThreads - 1
          BY <1>1, Sizes, SizesAssumption DEF MainType, Threads
        <4> QED
          BY <1>1, <2>1, <4>1, Pcs DEF Resumed
      <3>2. \A c \in Pending : c \in Read
        BY DEF Pending
      <3> QED
        BY <2>2, <2>6, <2>7, <2>11, <3>1, <3>2, ZenonT(60) DEF Epochs, Resumption
    <2>13. Tracked'
      <3>1. ASSUME NEW c, c = main.call PROVE Current(c)'
        BY <3>1, <2>1, <2>3, <2>5, <2>7, ZenonT(60) DEF Current, get_thread, Updates, b
      <3>2. ASSUME NEW c \in Read, Current(c) PROVE Current(c)'
        <4>1. CallOf(c).thread # T
          BY <2>1, <3>2, Zenon DEF Current, get_thread, b
        <4> QED
          BY <2>1, <2>7, <2>11, <3>2, <4>1, ZenonT(60) DEF Current, get_thread, Updates
      <3> QED
        BY <2>2, <2>3, <2>4, <3>1, <3>2, ZenonT(60) DEF Epochs, Tracked
    <2>14. Awaiting'
      BY <2>4 DEF Awaiting
    <2> QED
      BY <2>6, <2>8, <2>10, <2>12, <2>13, <2>14, Zenon DEF Epochs
  <1> QED
    BY <1>3, <1>4, ZenonT(60)

\* A call is read: it is pended, dropped or taken in hand.
LEMMA EpochsCall ==
    ASSUME Events, Epochs, AtCall, UNCHANGED <<prog, th, blocked>>,
           main'.ip = main.ip + 1, main'.global_epoch = main.global_epoch,
           main'.pc \in {"read", "schedule"},
           main'.pc = "schedule" => main'.from = "read" /\ run_in_epoch(main'.call),
           Read' = Read \cup {prog[main.ip].call}, Settled \subseteq Settled',
           Pending \subseteq Pending', InFlight = {}, Sorted',
           prog[main.ip].call \in Settled' \cup Pending' \cup InFlight'
    PROVE  Epochs'
  <1>1. Barrier' /\ \A c : run_in_epoch(c)' = run_in_epoch(c)
    BY EpochsFrame, Zenon
  <1>2. \A c : CallOf(c)' = CallOf(c)
    BY ProgSame, Zenon
  <1>3. /\ main.pc = "read" /\ prog[main.ip].op = "call" /\ prog \in Programs
        /\ main.ip \in 1 .. Len(prog) /\ main.ip \in Nat
    BY ProgramType DEF AtCall, Events, Types, MainType
  <1>4. ~InEpoch /\ ~InEpoch' /\ \A t : ~Resumed(t)'
    BY <1>3, Pcs, Zenon DEF InEpoch, Resumed
  <1>5. EpochsBefore(prog, main.ip + 1) = EpochsBefore(prog, main.ip)
    BY <1>3, Zenon DEF Events, CountingEpochs
  <1>6. Clock'
    BY <1>3, <1>4, <1>5, Zenon DEF Epochs, Clock
  <1>7. Timely'
    BY <1>1, Pcs, Zenon DEF Epochs, Timely
  <1>8. Tracked'
    <2>1. \A c \in Read : Current(c)' = Current(c)
      BY <1>2, Zenon DEF Current, get_thread
    <2> QED
      BY <1>3, <2>1, Zenon DEF Epochs, Tracked
  <1>9. Resumption' /\ Awaiting'
    BY <1>4, Zenon DEF Resumption, Awaiting
  <1> QED
    BY <1>1, <1>6, <1>7, <1>8, <1>9, ZenonT(60) DEF Epochs

\* PendCall: the calls of a thread are read in the order of their epochs.
LEMMA EpochsPendCall == ASSUME Events, Places, Epochs, PendCall PROVE Epochs'
  <1> DEFINE i == prog[main.ip]
             c == i.call
             t == i.thread
  <1>0. main \in MainType /\ Types /\ pended \in [Threads -> Seq(PendedType)] /\ prog \in Programs
        /\ AtCall
    BY DEF Events, Types, PendCall
  <1>1. main.ip \in 1 .. Len(prog) /\ i.op = "call" /\ main.pc = "read"
    BY <1>0, ProgramType DEF AtCall, MainType
  <1>2. t \in Threads /\ c \in Nat /\ CallOf(c) = i
    BY <1>0, <1>1, CallFound, ZenonT(60)
  <1>3. main' = [main EXCEPT !.ip = @ + 1] /\ UNCHANGED <<prog, th, blocked, out>>
    BY Zenon DEF PendCall
  <1>4. main'.ip = main.ip + 1 /\ main'.pc = "read" /\ main'.global_epoch = main.global_epoch
    BY <1>0, <1>1, <1>3, ZenonT(60) DEF MainType
  <1>5. /\ Read' = Read \cup {c} /\ Replied' = Replied /\ InFlight = {}
        /\ hist'.gaveUp = hist.gaveUp
        /\ \/ Pending' = Pending \cup {c} /\ hist'.dropped = hist.dropped
           \/ Pending' = Pending /\ hist'.dropped = hist.dropped \cup {c}
    BY PlacesPendCall, Zenon
  <1>6. Settled \subseteq Settled' /\ Pending \subseteq Pending' /\ c \in Settled' \cup Pending'
    BY <1>5 DEF Settled
  <1>7. \/ UNCHANGED pended
        \/ pended' = [pended EXCEPT ![t] = Append(@, [call |-> c, pending |-> TRUE])]
    BY Zenon DEF PendCall
  <1>8. \A d : CallOf(d)' = CallOf(d) /\ Epoch(d)' = Epoch(d)
    BY <1>3, ProgSame, Zenon
  <1>9. ASSUME NEW d \in Read, CallOf(d).thread = t
        PROVE  Epoch(d) < Epoch(c)
    <2>1. PICK j \in 1 .. Len(prog) : j < main.ip /\ prog[j].op = "call" /\ prog[j].call = d
      BY Zenon DEF Read
    <2>2. CallOf(d) = prog[j]
      BY <1>0, <2>1, CallFound, Zenon
    <2>3. \A k, l \in 1 .. Len(prog) :
            (/\ prog[k].op = "call" /\ prog[l].op = "call" /\ k < l
             /\ prog[k].thread = prog[l].thread) => prog[k].epoch < prog[l].epoch
      BY <1>0, ProgramsAssumption, Zenon
    <2> QED
      BY <1>1, <1>2, <1>9, <2>1, <2>2, <2>3, ZenonT(60) DEF Epoch
  <1> HIDE DEF i, c, t
  <1>10. Sorted'
    <2>1. CASE UNCHANGED pended
      BY <1>3, <1>4, <1>6, <2>1, EpochsFrame, ZenonT(60)
    <2>2. CASE pended' = [pended EXCEPT ![t] = Append(@, [call |-> c, pending |-> TRUE])]
      <3> DEFINE e == [call |-> c, pending |-> TRUE]
                 n == Len(pended[t])
      <3>1. e.call = c /\ e \in PendedType
        BY <1>2 DEF PendedType
      <3> HIDE DEF e
      <3>2. /\ pended'[t] = Append(pended[t], e) /\ pended[t] \in Seq(PendedType)
            /\ \A u \in Threads : u # t => pended'[u] = pended[u]
        BY <1>0, <1>2, <2>2, ZenonT(60) DEF e
      <3>3. /\ n \in Nat /\ Len(pended'[t]) = n + 1 /\ pended'[t][n + 1] = e
            /\ \A k \in 1 .. n : pended'[t][k] = pended[t][k]
            /\ 1 .. n + 1 = (1 .. n) \cup {n + 1}
        BY <3>1, <3>2, AppendOnce
      <3>4. \A k \in 1 .. n : pended[t][k].call \in Read /\ CallOf(pended[t][k].call).thread = t
        BY <1>2, ZenonT(60) DEF Events, PendedRead, Epochs, Sorted
      <3>5. ASSUME NEW u \in Threads, NEW k \in 1 .. Len(pended'[u])
            PROVE  /\ CallOf(pended'[u][k].call).thread = u
                   /\ \A j \in 1 .. Len(pended'[u]) :
                         j < k => Epoch(pended'[u][j].call) < Epoch(pended'[u][k].call)
        <4>1. CASE u # t
          BY <3>2, <3>5, <4>1, Zenon DEF Epochs, Sorted
        <4>2. CASE u = t /\ k \in 1 .. n
          <5>1. pended'[u][k] = pended[t][k] /\ \A j \in 1 .. n + 1 : j < k => j \in 1 .. n
            BY <3>3, <4>2
          <5> QED
            BY <1>2, <3>3, <4>2, <5>1, ZenonT(60) DEF Epochs, Sorted
        <4>3. CASE u = t /\ k = n + 1
          <5>1. pended'[u][k].call = c /\ CallOf(c).thread = t
            BY <1>2, <3>1, <3>3, <4>3, ZenonT(60) DEF t
          <5>2. \A j \in 1 .. n + 1 : j < k => j \in 1 .. n
            BY <3>3, <4>3
          <5> QED
            BY <1>9, <3>3, <3>4, <4>3, <5>1, <5>2, Zenon
        <4> QED
          BY <3>3, <3>5, <4>1, <4>2, <4>3
      <3> QED
        BY <1>8, <3>5, Zenon DEF Sorted
    <2> QED
      BY <1>7, <2>1, <2>2, ZenonT(60)
  <1> QED
    BY <1>0, <1>3, <1>4, <1>5, <1>6, <1>10, EpochsCall, ZenonT(60) DEF c, i

\* ReadCall: the epoch of the call has come.
LEMMA EpochsReadCall == ASSUME Events, Places, Epochs, ReadCall PROVE Epochs'
  <1> DEFINE c == prog[main.ip].call
  <1>0. main \in MainType /\ AtCall /\ run_in_epoch(c)
    BY DEF Events, Types, ReadCall
  <1>1. /\ main' = [main EXCEPT !.ip = @ + 1, !.pc = "schedule", !.from = "read", !.call = c]
        /\ UNCHANGED <<prog, coverage, th, blocked, pended, out, ran, hist>>
    BY DEF ReadCall
  <1>2. /\ main'.ip = main.ip + 1 /\ main'.pc = "schedule" /\ main'.from = "read"
        /\ main'.call = c /\ main'.global_epoch = main.global_epoch
    BY <1>0, <1>1, Zenon DEF MainType
  <1>3. /\ Read' = Read \cup {c} /\ Replied' = Replied /\ InFlight = {} /\ InFlight' = {c}
        /\ Pending' = Pending
    BY PlacesReadCall
  <1>4. Settled' = Settled
    BY <1>1, <1>3, Zenon DEF Settled
  <1>5. Sorted'
    BY <1>1, <1>2, <1>4, EpochsFrame, Zenon
  <1> QED
    BY <1>0, <1>1, <1>2, <1>3, <1>4, <1>5, EpochsCall, ZenonT(60)

\* ReadEpoch: no thread has resumed its calls yet.
LEMMA EpochsReadEpoch == ASSUME Events, Epochs, ReadEpoch PROVE Epochs'
  <1>0. main \in MainType /\ prog \in Programs /\ Types
    BY DEF Events, Types
  <1>1. /\ main.pc = "read" /\ prog[main.ip].op = "epoch" /\ main.ip \in 1 .. Len(prog)
        /\ main' = [main EXCEPT !.ip = @ + 1, !.pc = "resume", !.cursor = 0]
        /\ UNCHANGED <<prog, coverage, th, blocked, pended, out, ran, hist>>
    BY <1>0, ProgramType DEF ReadEpoch, MainType
  <1>2. /\ main'.ip = main.ip + 1 /\ main'.pc = "resume" /\ main'.cursor = 0
        /\ main'.global_epoch = main.global_epoch
    BY <1>0, <1>1, Zenon DEF MainType
  <1>3. Read' = Read /\ Pending' = Pending /\ InFlight' = InFlight /\ Settled' = Settled
    BY <1>2, ReadEpochQuiet, QuietKept, Zenon DEF Quiet
  <1>4. Barrier' /\ Sorted' /\ \A c : run_in_epoch(c)' = run_in_epoch(c)
    BY <1>1, <1>2, <1>3, EpochsFrame, Zenon
  <1>5. \A c : CallOf(c)' = CallOf(c)
    BY <1>1, ProgSame, Zenon
  <1>6. Timely'
    BY <1>1, <1>2, <1>4, Pcs, Zenon DEF Epochs, Timely
  <1>7. ~InEpoch /\ InEpoch' /\ \A t \in Threads : ~Resumed(t)'
    BY <1>1, <1>2, Pcs, Sizes DEF InEpoch, Resumed
  <1>8. Clock'
    <2>1. main'.ip - 1 = main.ip
      BY <1>1, <1>2
    <2> QED
      BY <1>1, <1>2, <1>7, <2>1, ZenonT(60) DEF Epochs, Clock
  <1>9. Tracked'
    <2>1. \A c \in Read : Current(c)' = Current(c)
      BY <1>1, <1>5, Zenon DEF Current, get_thread
    <2> QED
      BY <1>1, <1>3, <2>1, Zenon DEF Epochs, Tracked
  <1>10. Resumption'
    <2>1. \A c \in Pending : CallOf(c).thread \in Threads
      BY <1>0, ReadIsCall, CallIsInstruction, Zenon DEF Pending
    <2> QED
      BY <1>3, <1>5, <1>7, <2>1, Zenon DEF Resumption
  <1>11. Awaiting'
    BY <1>2, Zenon DEF Awaiting
  <1> QED
    BY <1>4, <1>6, <1>8, <1>9, <1>10, <1>11, ZenonT(60) DEF Epochs

\* ReadEnd: the program has no more epochs.
LEMMA EpochsReadEnd == ASSUME Events, Epochs, ReadEnd PROVE Epochs'
  <1>1. main \in MainType /\ main.pc = "read" /\ Moves
    BY DEF Events, Types, ReadEnd, Moves
  <1>2. /\ main'.pc \in {"final", "exit"} /\ main'.ip = main.ip
        /\ main'.global_epoch = main.global_epoch
    BY <1>1 DEF ReadEnd, MainType
  <1>3. Quiet /\ SameWorkers
    BY PlacesStart
  <1>4. Kept /\ Settled' = Settled
    BY <1>3, QuietKept, Zenon
  <1>5. CASE main'.pc = "exit"
    BY <1>1, <1>2, <1>4, <1>5, EpochsExit, Zenon DEF Moves
  <1>6. CASE main'.pc = "final"
    <2>1. InEpoch' = InEpoch /\ \A t : ~Resumed(t)'
      BY <1>1, <1>6, Pcs, Zenon DEF InEpoch, Resumed
    <2>2. Read' = Read /\ Pending' = Pending /\ InFlight' = InFlight
      BY <1>3, <1>6, Zenon DEF Quiet
    <2> QED
      BY <1>1, <1>2, <1>4, <1>6, <2>1, <2>2, Pcs, EpochsKept, ZenonT(60) DEF Moves
  <1> QED
    BY <1>2, <1>5, <1>6, Zenon

\* A pended call whose epoch has come is due: what its thread pended before it has been
\* resumed in an earlier epoch.
LEMMA PendingDue ==
    ASSUME Events, Places, Epochs, NEW c \in Pending, run_in_epoch(c)
    PROVE  \E k \in Due(CallOf(c).thread) : pended[CallOf(c).thread][k].call = c
  <1>0. PICK t \in Threads : \E k \in 1 .. Len(pended[t]) :
                                pended[t][k].pending /\ pended[t][k].call = c
    BY DEF Pending
  <1>1. PICK k \in 1 .. Len(pended[t]) : pended[t][k].pending /\ pended[t][k].call = c
    BY <1>0, Zenon
  <1>2. CallOf(c).thread = t
    BY <1>1, Zenon DEF Epochs, Sorted
  <1>3. Types /\ main.global_epoch \in Nat /\ Pending \cap Settled = {}
    BY NotSettled, Zenon DEF Events, Types, MainType
  <1>4. c \in Calls /\ Epoch(c) \in Nat
    BY <1>3, ReadIsCall, CallIsInstruction, Zenon DEF Pending, Types, Epoch
  <1>5. ASSUME NEW j \in 1 .. k - 1, pended[t][j].pending PROVE FALSE
    <2> DEFINE d == pended[t][j].call
    <2>1. j \in 1 .. Len(pended[t]) /\ j < k
      <3>1. Len(pended[t]) \in Nat
        BY <1>1, <1>3 DEF Types
      <3> QED
        BY <3>1
    <2>2. d \in Pending
      BY <1>1, <1>5, <2>1, ZenonT(60) DEF Pending, Events, PendedRead
    <2>3. d \in Calls /\ Epoch(d) \in Nat
      BY <1>3, <2>2, ReadIsCall, CallIsInstruction, ZenonT(60) DEF Pending, Types, Epoch
    <2>4. Epoch(d) < Epoch(c) /\ CallOf(d).thread = t
      BY <1>1, <2>1, Zenon DEF Epochs, Sorted
    <2> HIDE DEF d
    <2>5. Epoch(d) < main.global_epoch
      BY <1>3, <1>4, <2>3, <2>4 DEF run_in_epoch
    <2> QED
      BY <1>3, <2>2, <2>3, <2>5, ZenonT(60) DEF Epochs, Barrier
  <1>6. k \in Due(t)
    BY <1>1, <1>5, Zenon DEF Due
  <1> QED
    BY <1>1, <1>2, <1>6, ZenonT(60)

\* resume_pending_calls: the thread at the cursor has no call of this epoch left, or has
\* the only one taken in hand.
LEMMA EpochsResume == ASSUME Events, Places, Epochs, resume_pending_calls PROVE Epochs'
  <1>0. main.pc = "resume" /\ main \in MainType /\ Types /\ main.cursor \in Nat /\ InEpoch
        /\ main.cursor \in Threads
    BY Sizes, Zenon DEF resume_pending_calls, Events, Types, MainType, InEpoch
  <1>1. \A c \in Pending : c \in Read /\ c \in Calls /\ CallOf(c).thread \in Threads
                           /\ CallOf(c).thread \in Nat
    BY <1>0, ReadIsCall, CallIsInstruction, Sizes, Zenon DEF Pending, Types
  <1>2. \A c \in Pending : run_in_epoch(c) => ~(CallOf(c).thread < main.cursor)
    BY <1>0, Zenon DEF Epochs, Resumption, Resumed
  <1>3. CASE Moves /\ Due(main.cursor) = {} /\ Advances("resume", "prepare")
    <2>1. /\ main'.global_epoch = main.global_epoch /\ main'.ip = main.ip
          /\ \/ main'.pc = "resume" /\ main'.cursor = main.cursor + 1
             \/ main'.pc = "prepare" /\ main.cursor = kMaxThreads - 1
      BY <1>3, Zenon DEF Advances
    <2>2. Quiet /\ SameWorkers /\ UNCHANGED <<prog, pended, blocked>>
      BY <1>3, PlacesPass, Zenon DEF Moves, SameWorkers
    <2>3. Read' = Read /\ Pending' = Pending /\ InFlight' = InFlight /\ Settled' = Settled /\ Kept
      BY <2>1, <2>2, QuietKept, Zenon DEF Quiet
    <2>4. InEpoch' = InEpoch /\ main'.pc \notin Scheduling /\ main'.pc # "exit" /\ main'.pc # "wait"
      BY <1>0, <2>1, Pcs, Zenon DEF InEpoch
    <2>5. \A c : CallOf(c)' = CallOf(c) /\ run_in_epoch(c)' = run_in_epoch(c)
      BY <2>1, <2>2, <2>3, ProgSame, EpochsFrame, ZenonT(60)
    <2>6. Resumption'
      <3> SUFFICES ASSUME NEW c \in Pending, run_in_epoch(c), NEW t \in Threads,
                          t = CallOf(c).thread, Resumed(t)'
                   PROVE  FALSE
        BY <1>1, <2>3, <2>5, ZenonT(60) DEF Resumption
      <3>1. t <= main.cursor
        <4>1. t \in Nat /\ t <= kMaxThreads - 1 /\ kMaxThreads \in Nat
          BY Sizes, SizesAssumption DEF Threads
        <4> QED
          BY <1>0, <2>1, <2>4, <4>1 DEF Resumed
      <3>2. t = main.cursor
        BY <1>0, <1>1, <1>2, <3>1
      <3> QED
        BY <1>3, <3>2, PendingDue, Zenon
    <2> QED
      BY <1>0, <2>1, <2>2, <2>3, <2>4, <2>6, EpochsKept, ZenonT(60)
  <1>4. ASSUME NEW k \in Due(main.cursor), Resumes(k) PROVE Epochs'
    <2> DEFINE c == pended[main.cursor][k].call
    <2>1. /\ main' = [main EXCEPT !.pc = "schedule", !.from = "resume", !.call = c]
          /\ UNCHANGED <<prog, coverage, th, blocked, out, ran, hist>>
          /\ k \in 1 .. Len(pended[main.cursor]) /\ run_in_epoch(c)
      BY <1>4, Zenon DEF Resumes, Due
    <2>2. /\ main'.pc = "schedule" /\ main'.from = "resume" /\ main'.call = c
          /\ main'.ip = main.ip /\ main'.cursor = main.cursor
          /\ main'.global_epoch = main.global_epoch
      BY <1>0, <2>1, Zenon DEF MainType
    <2>3. /\ Read' = Read /\ InFlight = {} /\ InFlight' = {c} /\ c \in Pending
          /\ Pending' = Pending \ {c} /\ Replied' = Replied
          /\ \A u \in Threads : /\ Len(pended'[u]) = Len(pended[u])
                                /\ \A j \in 1 .. Len(pended[u]) :
                                      pended'[u][j].call = pended[u][j].call
      BY <1>0, <1>4, PlacesResume, Zenon
    <2>4. CallOf(c).thread = main.cursor
      BY <1>0, <2>1, Zenon DEF Epochs, Sorted
    <2> HIDE DEF c
    <2>5. Settled' = Settled
      BY <2>1, <2>3, Zenon DEF Settled
    <2>6. Barrier' /\ \A d : run_in_epoch(d)' = run_in_epoch(d)
      BY <2>1, <2>2, <2>5, EpochsFrame, Zenon
    <2>7. \A d : CallOf(d)' = CallOf(d) /\ Epoch(d)' = Epoch(d)
      BY <2>1, ProgSame, Zenon
    <2>8. Sorted'
      <3> SUFFICES ASSUME NEW u \in Threads, NEW j \in 1 .. Len(pended[u])
                   PROVE  /\ CallOf(pended[u][j].call).thread = u
                          /\ \A i \in 1 .. Len(pended[u]) :
                                i < j => Epoch(pended[u][i].call) < Epoch(pended[u][j].call)
        BY <2>3, <2>7, SMTT(30) DEF Sorted
      <3> QED
        BY Zenon DEF Epochs, Sorted
    <2>9. Timely'
      BY <2>1, <2>2, <2>6, Zenon DEF Epochs, Timely
    <2>10. InEpoch' /\ main.pc # "exit" /\ main'.pc # "exit"
      BY <1>0, <2>2, Pcs, Zenon DEF InEpoch
    <2>11. Clock'
      BY <1>0, <2>1, <2>2, <2>10, ZenonT(60) DEF Epochs, Clock
    <2>12. Tracked'
      <3>1. \A d \in Read : Current(d)' = Current(d)
        BY <2>1, <2>7, Zenon DEF Current, get_thread
      <3> QED
        BY <2>3, <2>5, <2>10, <3>1, Zenon DEF Epochs, Tracked
    <2>13. Resumption'
      <3> SUFFICES ASSUME NEW d \in Pending, d # c, run_in_epoch(d), NEW t \in Threads,
                          t = CallOf(d).thread, Resumed(t)'
                   PROVE  FALSE
        BY <1>1, <2>3, <2>6, <2>7, Zenon DEF Resumption
      <3>1. t <= main.cursor
        BY <2>2, Pcs, Zenon DEF Resumed
      <3>2. t = main.cursor
        BY <1>0, <1>1, <1>2, <3>1
      <3>3. c \notin Settled /\ d \notin Settled
        BY <2>3, NotSettled, Zenon
      <3> QED
        BY <1>0, <1>1, <2>1, <2>3, <2>4, <3>2, <3>3, OneUnsettled, ZenonT(60) DEF Epochs
    <2>14. Awaiting'
      BY <2>2, Zenon DEF Awaiting
    <2> QED
      BY <2>6, <2>8, <2>9, <2>11, <2>12, <2>13, <2>14, ZenonT(60) DEF Epochs
  <1> QED
    BY <1>3, <1>4, EventsResume, ZenonT(60)

\* The steps of start_epoch() before the wait.
LEMMA EpochsStart ==
    ASSUME Events, Epochs, prepare_schedule \/ SeeReady \/ NotifyWorker
    PROVE  Epochs'
  <1>0. main.pc \in {"prepare", "signal", "notify"} /\ main \in MainType
    BY Zenon DEF prepare_schedule, SeeReady, NotifyWorker, Events, Types
  <1>1. \/ \E why : Fail(why)
        \/ /\ main'.pc \in {"signal", "notify", "wait"} /\ main'.ip = main.ip
           /\ main'.global_epoch = main.global_epoch /\ (main'.pc = "wait" => main'.cursor = 0)
           /\ UNCHANGED <<prog, pended, blocked>>
    <2>1. CASE prepare_schedule
      <3>1. CASE main' = [main EXCEPT !.pc = "signal", !.cursor = 0]
                 /\ UNCHANGED <<prog, pended, blocked>>
        BY <1>0, <3>1, Zenon DEF MainType
      <3> QED
        BY <2>1, <3>1, EventsPrepare, Zenon
    <2>2. CASE SeeReady
      <3>1. CASE GoesTo("notify")
        BY <1>0, <2>2, <3>1, EventsSeeReady, GoesToType, Pcs, ZenonT(60) DEF Moves
      <3>2. CASE Advances("signal", "wait")
        BY <2>2, <3>2, EventsSeeReady, Zenon DEF Moves, Advances
      <3> QED
        BY <2>2, <3>1, <3>2, EventsSeeReady, Zenon
    <2>3. CASE NotifyWorker
      BY <2>3, EventsNotify, Zenon DEF Advances
    <2> QED
      BY <1>1, <2>1, <2>2, <2>3, Zenon
  <1>2. CASE \E why : Fail(why)
    BY <1>2, EpochsFail, Zenon
  <1>3. CASE /\ main'.pc \in {"signal", "notify", "wait"} /\ main'.ip = main.ip
             /\ main'.global_epoch = main.global_epoch /\ (main'.pc = "wait" => main'.cursor = 0)
             /\ UNCHANGED <<prog, pended, blocked>>
    <2>1. Quiet /\ SameWorkers
      BY PlacesStart
    <2>2. Kept /\ Settled' = Settled
      BY <2>1, QuietKept, Zenon
    <2>3. InEpoch' = InEpoch /\ \A t : Resumed(t)' = Resumed(t)
      BY <1>0, <1>3, Pcs, Zenon DEF InEpoch, Resumed
    <2>4. Read' = Read /\ Pending' = Pending /\ InFlight' = InFlight
      BY <1>3, <2>1, Zenon DEF Quiet
    <2> QED
      BY <1>0, <1>3, <2>2, <2>3, <2>4, Pcs, EpochsKept, ZenonT(60)
  <1> QED
    BY <1>1, <1>2, <1>3, Zenon

\* WaitWorker settles the call of this epoch of the thread at the cursor, if it has one.
LEMMA WaitSettles ==
    ASSUME Events, Places, Epochs, WaitWorker
    PROVE  /\ Kept /\ Settled \subseteq Settled'
           /\ \A c \in Read : (run_in_epoch(c) /\ CallOf(c).thread <= main.cursor) => c \in Settled'
  <1> DEFINE t == main.cursor
             s == blocked[t]
             w == th[t][s]
  <1>1. main.pc = "wait" /\ Types /\ t \in Threads /\ s \in Slots /\ w \in Worker /\ InFlight = {}
        /\ t \in Nat /\ main.pc # "exit"
    <2>1. main.pc = "wait" /\ Types
      BY Zenon DEF WaitWorker, Events
    <2>2. t \in Threads /\ s \in Slots /\ InFlight = {}
      BY EventsWait, PlacesWait, Zenon
    <2> QED
      BY <2>1, <2>2, Sizes, ZenonT(60) DEF Types
  <1>2. /\ Kept /\ Settled \subseteq Settled' /\ (w.executing => w.call \in Settled')
    <2>1. CASE Moves /\ ~w.executing
      <3>1. Settled' = Settled /\ SameWorkers
        BY <2>1, Zenon DEF Moves, Settled, Replied, SameWorkers
      <3> QED
        BY <2>1, <3>1, Zenon DEF Kept, SameWorkers
    <2>2. CASE Completes(t, s)
      <3>1. main'.pc \in {"wait", "read"} /\ main'.ip = main.ip
        BY EventsWait, Zenon DEF Awaited
      <3>2. Taken(w.call)
        BY <1>1, <2>2, <3>1, CompletesTaken, Pcs, ZenonT(60) DEF Places
      <3> QED
        BY <1>1, <2>2, <3>2, TakenKept, Zenon
    <2>3. CASE GivesUp
      <3>1. Replied' = Replied /\ th' = th
        BY <2>3, Zenon DEF GivesUp, Replied
      <3> QED
        BY <2>3, <3>1, Zenon DEF GivesUp, Settled, Kept
    <2> QED
      BY <2>1, <2>2, <2>3, EventsWait, Zenon
  <1>3. ASSUME NEW c \in Read, run_in_epoch(c), CallOf(c).thread <= t PROVE c \in Settled'
    <2>1. CallOf(c).thread \in Nat
      BY <1>1, ReadIsCall, CallIsInstruction, Sizes, Zenon DEF Types
    <2>2. CASE CallOf(c).thread < t
      BY <1>1, <1>2, <1>3, <2>2, Zenon DEF Epochs, Awaiting
    <2>3. CASE CallOf(c).thread = t
      <3>1. c \notin Pending
        BY <1>1, <1>3, Zenon DEF Epochs, Resumption, Resumed
      <3>2. Current(c) => c \in Settled'
        BY <1>2, <2>3, Zenon DEF Current, get_thread
      <3> QED
        BY <1>1, <1>2, <1>3, <3>1, <3>2, ZenonT(60) DEF Epochs, Tracked
    <2> QED
      BY <1>1, <1>3, <2>1, <2>2, <2>3
  <1> QED
    BY <1>2, <1>3, Zenon

\* WaitWorker: when the last loop ends, all calls of the epoch are settled.
LEMMA EpochsWait == ASSUME Events, Places, Epochs, WaitWorker PROVE Epochs'
  <1>1. /\ main.pc = "wait" /\ Types /\ main.cursor \in Nat /\ InEpoch /\ main.pc # "exit"
        /\ main.global_epoch \in Nat /\ kMaxThreads \in Nat /\ main.ip \in Nat
    BY EventsWait, Sizes, SizesAssumption, Zenon DEF WaitWorker, Events, Types, InEpoch, MainType
  <1>2. Kept /\ Settled \subseteq Settled'
        /\ \A c \in Read : (run_in_epoch(c) /\ CallOf(c).thread <= main.cursor) => c \in Settled'
    BY WaitSettles, Zenon
  <1>3. Read' = Read /\ InFlight = {} /\ InFlight' = {} /\ Pending' = Pending
    BY PlacesWait, Zenon
  <1>4. UNCHANGED <<prog, pended, blocked>> /\ Awaited
    BY EventsWait, Zenon DEF Moves, Completes, GivesUp
  <1>5. \A c : CallOf(c)' = CallOf(c) /\ Epoch(c)' = Epoch(c)
    BY <1>4, ProgSame, Zenon
  <1>6. \A c \in Read : /\ c \in Calls /\ CallOf(c).thread \in Threads /\ CallOf(c).thread \in Nat
                        /\ CallOf(c).thread <= kMaxThreads - 1
                        /\ blocked[CallOf(c).thread] \in Slots
    <2>1. \A t \in Threads : t <= kMaxThreads - 1 /\ t \in Nat
      BY Sizes DEF Threads
    <2> QED
      BY <1>1, <2>1, ReadIsCall, CallIsInstruction, Zenon DEF Types
  <1>9. \A c \in Read : Current(c) => Current(c)' \/ c \in Settled'
    <2> SUFFICES ASSUME NEW c \in Read, Current(c), c \notin Settled' PROVE Current(c)'
      OBVIOUS
    <2>1. /\ th[CallOf(c).thread][blocked[CallOf(c).thread]].executing
          /\ th[CallOf(c).thread][blocked[CallOf(c).thread]].call = c
      BY Zenon DEF Current, get_thread
    <2>2. /\ th'[CallOf(c).thread][blocked[CallOf(c).thread]].executing
          /\ th'[CallOf(c).thread][blocked[CallOf(c).thread]].call = c
      BY <1>2, <1>6, <2>1, Zenon DEF Kept
    <2> QED
      BY <1>4, <1>5, <2>2, Zenon DEF Current, get_thread
  <1>7. CASE /\ main'.pc = "wait" /\ main'.cursor = main.cursor + 1
             /\ main'.global_epoch = main.global_epoch
    <2>1. Barrier' /\ Sorted' /\ \A c : run_in_epoch(c)' = run_in_epoch(c)
      BY <1>2, <1>4, <1>7, EpochsFrame, Zenon
    <2>2. Timely'
      BY <1>2, <1>7, <2>1, Pcs, Zenon DEF Epochs, Timely, Kept
    <2>3. Clock'
      BY <1>1, <1>4, <1>7, Zenon DEF Epochs, Clock, InEpoch, Awaited
    <2>4. Tracked'
      BY <1>1, <1>2, <1>3, <1>9, Zenon DEF Epochs, Tracked
    <2>5. Resumption'
      BY <1>1, <1>3, <1>5, <2>1, Zenon DEF Epochs, Resumption, Resumed
    <2>6. Awaiting'
      <3>1. \A c \in Read : CallOf(c).thread < main.cursor + 1 => CallOf(c).thread <= main.cursor
        BY <1>1, <1>6
      <3> QED
        BY <1>2, <1>3, <1>5, <1>7, <2>1, <3>1, ZenonT(60) DEF Awaiting
    <2> QED
      BY <2>1, <2>2, <2>3, <2>4, <2>5, <2>6, Zenon DEF Epochs
  <1>8. CASE /\ main'.pc = "read" /\ main.cursor = kMaxThreads - 1
             /\ main'.global_epoch = main.global_epoch + 1
    <2>1. Barrier'
      <3> SUFFICES ASSUME NEW c \in Calls, Epoch(c) < main.global_epoch + 1
                   PROVE  c \in Settled'
        BY <1>4, <1>5, <1>8, ProgSame, Zenon DEF Barrier
      <3>1. Epoch(c) \in Nat
        BY <1>1, CallIsInstruction, Zenon DEF Types, Epoch
      <3>2. run_in_epoch(c)
        BY <1>1, <3>1 DEF run_in_epoch
      <3>3. c \in Read
        BY <1>1, <3>2, EpochRead, Zenon DEF Epochs
      <3> QED
        BY <1>2, <1>6, <1>8, <3>2, <3>3, ZenonT(60)
    <2>2. Sorted'
      BY <1>4, <1>5, Zenon DEF Epochs, Sorted
    <2>3. Timely'
      <3>1. \A c \in Read : run_in_epoch(c) => run_in_epoch(c)'
        <4> SUFFICES ASSUME NEW c \in Read, run_in_epoch(c) PROVE run_in_epoch(c)'
          OBVIOUS
        <4>1. Epoch(c) \in Nat /\ Epoch(c)' = Epoch(c)
          BY <1>1, <1>5, <1>6, CallIsInstruction, Zenon DEF Types, Epoch
        <4> QED
          BY <1>1, <1>8, <4>1 DEF run_in_epoch
      <3>2. \A t \in Threads, s \in Slots : th[t][s].executing =>
                run_in_epoch(th[t][s].call) /\ th[t][s].call \in Read
        BY Zenon DEF Epochs, Timely, Places, BusyOnce
      <3>3. \A t \in Threads, s \in Slots : th'[t][s].executing =>
                th[t][s].executing /\ th'[t][s].call = th[t][s].call
        BY <1>2, Zenon DEF Kept
      <3> QED
        BY <1>8, <3>1, <3>2, <3>3, Pcs, ZenonT(60) DEF Timely
    <2>4. ~InEpoch' /\ \A t : ~Resumed(t)'
      BY <1>8, Pcs, Zenon DEF InEpoch, Resumed
    <2>5. Clock'
      <3>1. /\ main.ip - 1 \in 1 .. Len(prog) /\ prog[main.ip - 1].op = "epoch"
            /\ main.global_epoch = EpochsBefore(prog, main.ip - 1)
        BY <1>1, Zenon DEF Epochs, Clock
      <3>2. EpochsBefore(prog, main.ip) = main.global_epoch + 1
        <4>1. (main.ip - 1) + 1 = main.ip
          BY <1>1
        <4> QED
          BY <1>1, <3>1, <4>1, ZenonT(60) DEF Events, CountingEpochs, Types
      <3> QED
        BY <1>4, <1>8, <2>4, <3>2, Zenon DEF Clock, Awaited
    <2>6. Tracked'
      BY <1>1, <1>2, <1>3, <1>9, Zenon DEF Epochs, Tracked
    <2>7. Resumption' /\ Awaiting'
      BY <1>8, <2>4, Zenon DEF Resumption, Awaiting
    <2> QED
      BY <2>1, <2>2, <2>3, <2>5, <2>6, <2>7, ZenonT(60) DEF Epochs
  <1> QED
    BY <1>4, <1>7, <1>8, Zenon DEF Awaited

\* CompleteLate and EndExecution: no epoch begins or ends any more.
LEMMA EpochsLate ==
    ASSUME Events, Places, Epochs, NEW w \in Workers, CompleteLate(w)
    PROVE  Epochs'
  <1>1. main.pc = "final" /\ main' = [main EXCEPT !.running = main.running - 1] /\ main \in MainType
    BY EventsLate, Zenon DEF Events, Types
  <1>2. main'.pc = "final" /\ main'.ip = main.ip /\ main'.global_epoch = main.global_epoch
    BY <1>1, Zenon DEF MainType
  <1>3. PICK t \in Threads, s \in Slots : Completes(t, s)
    BY EventsLate, Zenon
  <1>4. Taken(th[t][s].call)
    BY <1>1, <1>2, <1>3, Pcs, CompletesTaken, Zenon DEF Places
  <1>5. Kept /\ Settled \subseteq Settled' /\ UNCHANGED <<prog, pended, blocked>>
    BY <1>3, <1>4, TakenKept, Zenon DEF Completes
  <1>6. InEpoch' = InEpoch /\ \A u : ~Resumed(u)'
    BY <1>1, <1>2, Pcs, Zenon DEF InEpoch, Resumed
  <1>7. Read' = Read /\ Pending' = Pending /\ InFlight' = InFlight
    BY <1>4, Zenon DEF Taken
  <1> QED
    BY <1>1, <1>2, <1>5, <1>6, <1>7, Pcs, EpochsKept, ZenonT(60)

\* The end of the program: no call is handed over any more, so no epoch is left out of order.
LEMMA EpochsEnd == ASSUME Events, Places, Epochs, EndExecution PROVE Epochs'
  <1>1. main'.pc = "exit" /\ main'.global_epoch = main.global_epoch
        /\ UNCHANGED <<prog, th, pended, hist>>
    BY EventsEnd, GoesToType, Pcs, Zenon DEF Events, Types
  <1>2. Settled \subseteq Settled'
    BY <1>1, PlacesEnd, Zenon DEF Settled
  <1> QED
    BY <1>1, <1>2, EpochsExit, Zenon

\* The workers' own steps.
LEMMA EpochsWorker ==
    ASSUME Events, Epochs, NEW t \in Threads, NEW s \in Slots, NEW x \in Worker, Works(t, s, x)
    PROVE  Epochs'
  <1>1. UNCHANGED <<prog, main, blocked, pended, out, hist>> /\ main.pc # "exit"
    BY Zenon DEF Works
  <1>2. Read' = Read /\ Pending' = Pending /\ InFlight' = InFlight /\ Settled' = Settled
    BY <1>1, ReadSame, Zenon DEF Pending, InFlight, Settled, Replied
  <1>3. Kept
    BY Zenon DEF Works, Updates, Kept
  <1>4. InEpoch' = InEpoch /\ \A u : Resumed(u)' = Resumed(u)
    BY <1>1, Zenon DEF InEpoch, Resumed
  <1> QED
    BY <1>1, <1>2, <1>3, <1>4, EpochsKept, Zenon

\* Every step keeps the order of the epochs.
LEMMA EpochsNext == Events /\ Places /\ Epochs /\ [Next]_vars => Epochs'
  <1> SUFFICES ASSUME Events, Places, Epochs, [Next]_vars PROVE Epochs'
    OBVIOUS
  <1>1. CASE PendCall \/ ReadCall \/ ReadEpoch \/ ReadEnd
    BY <1>1, EpochsPendCall, EpochsReadCall, EpochsReadEpoch, EpochsReadEnd, Zenon
  <1>2. CASE PickWorker \/ unhand_worker_thread \/ AssignCall
    BY <1>2, EpochsPick, EpochsUnhand, EpochsAssign, Zenon
  <1>3. CASE resume_pending_calls \/ prepare_schedule \/ SeeReady \/ NotifyWorker \/ WaitWorker
    BY <1>3, EpochsResume, EpochsStart, EpochsWait, Zenon
  <1>4. CASE EndExecution
    BY <1>4, EpochsEnd, Zenon
  <1>5. ASSUME NEW w \in Workers, CompleteLate(w) PROVE Epochs'
    BY <1>5, EpochsLate, Zenon
  <1>6. ASSUME NEW w \in Workers, wait_epoch(w) \/ execute_call(w) \/ FinishCall(w) PROVE Epochs'
    BY <1>6, EventsWorker, EpochsWorker, Zenon
  <1>7. CASE UNCHANGED vars
    <2>1. UNCHANGED <<prog, main, th, blocked, pended, out, hist>>
      BY <1>7, Zenon DEF vars
    <2>2. Read' = Read /\ Pending' = Pending /\ InFlight' = InFlight /\ Settled' = Settled
      BY <2>1, ReadSame, Zenon DEF Pending, InFlight, Settled, Replied
    <2>3. Kept /\ InEpoch' = InEpoch /\ \A u : Resumed(u)' = Resumed(u)
      BY <2>1, Zenon DEF Kept, InEpoch, Resumed
    <2>4. CASE main.pc = "exit"
      BY <2>1, <2>2, <2>4, EpochsExit, Zenon
    <2>5. CASE main.pc # "exit"
      BY <2>1, <2>2, <2>3, <2>5, EpochsKept, Zenon
    <2> QED
      BY <2>4, <2>5, Zenon
  <1> QED
    BY <1>1, <1>2, <1>3, <1>4, <1>5, <1>6, <1>7, ZenonT(60) DEF Next, Main

-----------------------------------------------------------------------------
(* The end of a program.                                                    *)

\* start_epoch() ends the process when a thread has no fallback left, and the last
\* instruction is an epoch, so that the loops at the end see every worker.
Enough == \A t \in Threads : blocked[t] < kMaxFallbackThreads
Fallbacks ==
    /\ main.status # "ok" => main.pc = "exit"
    /\ main.pc # "exit" => main.ip <= Len(prog) + 1
    /\ main.pc \in Scheduling /\ main.from = "read" => prog[main.ip - 1].op = "call"
    /\ main.pc = "final" => main.ip = Len(prog) + 1
    /\ main.pc \in {"signal", "notify", "wait", "final"} => Enough
    /\ main.pc = "read" => (main.ip = 1 \/ prog[main.ip - 1].op = "call" \/ Enough)

\* A step that ends neither an epoch nor the program, and takes nothing from a thread.
LEMMA FallbacksKept ==
    ASSUME Fallbacks, prog' = prog, main.pc # "exit", main'.pc # "exit",
           main'.status = main.status, main'.ip = main.ip,
           main'.pc \notin {"read", "final"} \/ main'.pc = main.pc,
           main'.pc \in Scheduling /\ main'.from = "read" =>
               main.pc \in Scheduling /\ main.from = "read",
           main'.pc \in {"signal", "notify", "wait", "final", "read"} =>
               blocked' = blocked /\ (main'.pc = main.pc \/ Enough)
    PROVE  Fallbacks'
  <1>1. blocked' = blocked => Enough' = Enough
    BY DEF Enough
  <1> QED
    BY <1>1, Pcs, Zenon DEF Fallbacks

\* Once the process has ended nothing is asked of the fallback any more.
LEMMA FallbacksExit ==
    ASSUME main'.pc = "exit"
    PROVE  Fallbacks'
  BY Pcs, Zenon DEF Fallbacks

\* Reading an instruction: the last one is an epoch, which found enough workers.
LEMMA FallbacksRead ==
    ASSUME Events, Places, Fallbacks, PendCall \/ ReadCall \/ ReadEpoch \/ ReadEnd
    PROVE  Fallbacks'
  <1>0. /\ main \in MainType /\ prog \in Programs /\ prog \in Seq(Instructions) /\ Len(prog) \in Nat
        /\ main.pc = "read" /\ main.ip \in Nat \ {0} /\ main.status = "ok"
        /\ main.ip <= Len(prog) + 1
    <2>1. main \in MainType /\ prog \in Programs /\ main.pc = "read"
      BY Zenon DEF Events, Types, PendCall, ReadCall, AtCall, ReadEpoch, ReadEnd
    <2> QED
      BY <2>1, ProgramType, Zenon DEF MainType, Fallbacks
  <1>1. CASE PendCall \/ ReadCall \/ ReadEpoch
    <2>1. /\ prog' = prog /\ blocked' = blocked /\ main.ip <= Len(prog)
          /\ \/ main' = [main EXCEPT !.ip = @ + 1] /\ prog[main.ip].op = "call"
             \/ /\ main' = [main EXCEPT !.ip = @ + 1, !.pc = "schedule", !.from = "read",
                                        !.call = prog[main.ip].call]
                /\ prog[main.ip].op = "call"
             \/ main' = [main EXCEPT !.ip = @ + 1, !.pc = "resume", !.cursor = 0]
      BY <1>1, Zenon DEF PendCall, ReadCall, ReadEpoch, AtCall
    <2>2. /\ main'.ip = main.ip + 1 /\ main'.status = "ok"
          /\ \/ main'.pc \in {"read", "schedule"} /\ prog[main.ip].op = "call"
             \/ main'.pc = "resume"
      BY <1>0, <2>1, Zenon DEF MainType
    <2>3. main'.ip - 1 = main.ip /\ main'.ip <= Len(prog) + 1
      BY <1>0, <2>1, <2>2
    <2> QED
      BY <2>1, <2>2, <2>3, Pcs, Zenon DEF Fallbacks
  <1>2. CASE ReadEnd
    <2>1. /\ UNCHANGED <<prog, blocked>> /\ main.ip = Len(prog) + 1
          /\ main' = IF main.running > 0 THEN [main EXCEPT !.pc = "final", !.last_scheduled = <<>>]
                                         ELSE [main EXCEPT !.pc = "exit"]
      BY <1>0, <1>2 DEF ReadEnd
    <2>2. CASE main.running > 0
      <3>1. main'.pc = "final" /\ main'.ip = main.ip /\ main'.status = main.status
        BY <1>0, <2>1, <2>2, Zenon DEF MainType
      <3>2. PICK w \in Workers : th[w[1]][w[2]].executing
        <4>1. Cardinality(Busy) > 0
          BY <2>2, Zenon DEF Events
        <4>2. Busy # {}
          BY <4>1, BusyCount DEF Events
        <4> QED
          BY <4>2, Zenon DEF Busy
      <3>3. th[w[1]][w[2]].call \in Read
        BY <3>2 DEF Places, BusyOnce, Workers
      <3>4. Len(prog) # 0
        BY <3>3 DEF Read
      <3>5. prog[main.ip - 1].op # "call"
        BY <1>0, <2>1, <3>4, ProgramsAssumption
      <3>6. Enough
        BY <1>0, <2>1, <3>4, <3>5 DEF Fallbacks
      <3>7. Enough'
        BY <2>1, <3>6, Zenon DEF Enough
      <3> QED
        BY <1>0, <2>1, <3>1, <3>7, Pcs, Zenon DEF Fallbacks
    <2>3. CASE ~(main.running > 0)
      <3>1. main'.pc = "exit"
        BY <1>0, <2>1, <2>3, Zenon DEF MainType
      <3> QED
        BY <3>1, FallbacksExit, Zenon
    <2> QED
      BY <2>2, <2>3, Zenon
  <1> QED
    BY <1>1, <1>2, Zenon

\* schedule_call and resume_pending_calls need not find enough workers.
LEMMA FallbacksSchedule ==
    ASSUME Events, Fallbacks,
           PickWorker \/ unhand_worker_thread \/ AssignCall \/ resume_pending_calls
    PROVE  Fallbacks'
  <1>0. main \in MainType
    BY DEF Events, Types
  <1>1. CASE PickWorker \/ unhand_worker_thread
    <2>0. main.pc \in Scheduling
      BY <1>1, Pcs, Zenon DEF PickWorker, unhand_worker_thread
    <2>1. CASE \E why : Fail(why)
      BY <1>0, <2>1, FallbacksExit, Zenon DEF Fail, MainType
    <2>2. CASE \E pc \in {"assign", "unhand"} : GoesTo(pc) /\ prog' = prog
      <3>1. /\ main'.pc \in Scheduling /\ main'.ip = main.ip /\ main'.from = main.from
            /\ main'.status = main.status /\ prog' = prog
        BY <1>0, <2>2, GoesToType, Pcs, ZenonT(60)
      <3> QED
        BY <2>0, <3>1, Pcs, FallbacksKept, Zenon
    <2>3. CASE main' = [main EXCEPT !.pc = "assign", !.running = main.running - 1] /\ prog' = prog
      <3>1. /\ main'.pc \in Scheduling /\ main'.ip = main.ip /\ main'.from = main.from
            /\ main'.status = main.status /\ prog' = prog
        BY <1>0, <2>3, Pcs, Zenon DEF MainType
      <3> QED
        BY <2>0, <3>1, Pcs, FallbacksKept, Zenon
    <2> QED
      BY <1>1, <2>1, <2>2, <2>3, EventsPickWorker, EventsUnhand, Zenon DEF Moves, Creates, Completes
  <1>2. CASE AssignCall
    <2>0. main.pc \in Scheduling /\ main.pc = "assign"
      BY <1>2, Pcs, Zenon DEF AssignCall
    <2>1. CASE \E why : Fail(why)
      BY <1>0, <2>1, FallbacksExit, Zenon DEF Fail, MainType
    <2>2. CASE ~\E why : Fail(why)
      <3> DEFINE m == [main EXCEPT !.last_scheduled = <<Target, blocked[Target]>>, !.running = @ + 1]
      <3>1. /\ UNCHANGED <<prog, blocked>>
            /\ main' = IF main.from = "read" THEN [m EXCEPT !.pc = "read"]
                                             ELSE NextThread(m, "resume", "prepare")
        BY <1>2, <2>2, Zenon DEF AssignCall
      <3>2. /\ m.status = main.status /\ m.ip = main.ip /\ m.pc = main.pc /\ m.from = main.from
            /\ m.cursor = main.cursor
            /\ DOMAIN m = DOMAIN main
        BY <1>0, Zenon DEF MainType
      <3>3. m \in MainType
        <4>1. main.running + 1 \in Nat
          BY <1>0 DEF MainType
        <4>2. <<Target, blocked[Target]>> \in Scheduled
          <5>1. <<Target, blocked[Target]>> \in Workers
            BY <2>0, TargetType, Zenon DEF Workers
          <5> QED
            BY <5>1, Zenon DEF Scheduled
        <4> QED
          BY <1>0, <4>1, <4>2, Zenon DEF MainType
      <3> HIDE DEF m
      <3>4. CASE main.from = "read"
        <4>1. main'.pc = "read" /\ main'.ip = main.ip /\ main'.status = main.status
          BY <3>1, <3>2, <3>3, <3>4, Zenon DEF MainType
        <4> QED
          BY <2>0, <3>1, <3>4, <4>1, Pcs, Zenon DEF Fallbacks
      <3>5. CASE main.from # "read"
        <4>1. main'.pc \in {"resume", "prepare"} /\ main'.ip = main.ip /\ main'.status = main.status
          <5>1. "resume" \in MainPc /\ "prepare" \in MainPc
            BY Pcs, Zenon
          <5>2. main' = NextThread(m, "resume", "prepare")
            BY <3>1, <3>5, Zenon
          <5> QED
            BY <3>2, <3>3, <5>1, <5>2, NextThreadType, Zenon
        <4> QED
          BY <2>0, <3>1, <4>1, Pcs, FallbacksKept, Zenon
      <3> QED
        BY <3>4, <3>5, Zenon
    <2> QED
      BY <2>1, <2>2, Zenon
  <1>3. CASE resume_pending_calls
    <2>0. main.pc = "resume" /\ prog' = prog
      BY <1>3, Zenon DEF resume_pending_calls
    <2>1. CASE main' = NextThread(main, "resume", "prepare")
      <3>1. main'.pc \in {"resume", "prepare"} /\ main'.ip = main.ip /\ main'.status = main.status
        <4>1. "resume" \in MainPc /\ "prepare" \in MainPc
          BY Pcs
        <4> QED
          BY <1>0, <2>1, <4>1, NextThreadType, Zenon
      <3> QED
        BY <2>0, <3>1, Pcs, FallbacksKept, Zenon
    <2>2. CASE \E c : main' = [main EXCEPT !.pc = "schedule", !.from = "resume", !.call = c]
      <3>1. /\ main'.pc = "schedule" /\ main'.ip = main.ip /\ main'.status = main.status
            /\ main'.from = "resume"
        BY <1>0, <2>2, Zenon DEF MainType
      <3> QED
        BY <2>0, <3>1, Pcs, FallbacksKept, Zenon
    <2> QED
      BY <1>3, <2>1, <2>2, Zenon DEF resume_pending_calls
  <1> QED
    BY <1>1, <1>2, <1>3, Zenon

\* start_epoch() goes on only with enough workers.
LEMMA FallbacksStart ==
    ASSUME Events, Fallbacks, prepare_schedule \/ SeeReady \/ NotifyWorker \/ WaitWorker
    PROVE  Fallbacks'
  <1>0. main \in MainType /\ main.pc \in {"prepare", "signal", "notify", "wait"}
        /\ main.ip <= Len(prog) + 1 /\ main.status = "ok"
    BY Zenon DEF Events, Types, prepare_schedule, SeeReady, NotifyWorker, WaitWorker, Fallbacks
  <1>3. "read" \in MainPc /\ "signal" \in MainPc /\ "wait" \in MainPc
    BY Pcs, Zenon
  <1>4. ASSUME NEW n, n = NextThread(main, "signal", "wait")
        PROVE  n.ip = main.ip /\ n.status = main.status /\ n.pc \in {"signal", "wait"}
    <2> DEFINE loop == "signal"
               after == "wait"
    <2>1. main \in MainType /\ loop \in MainPc /\ after \in MainPc /\ n = NextThread(main, loop, after)
      BY <1>0, <1>3, <1>4, Zenon
    <2> HIDE DEF loop, after
    <2>2. n.ip = main.ip /\ n.status = main.status /\ (n.pc = loop \/ n.pc = after)
      BY <2>1, NextThreadType, Zenon
    <2> QED
      BY <2>2, Zenon DEF loop, after
  <1>1. CASE main'.pc = "exit"
    BY <1>1, FallbacksExit, Zenon
  <1>2. CASE main'.pc # "exit"
    <2>1. /\ UNCHANGED <<prog, blocked>> /\ Enough
          /\ main'.pc \in {"signal", "notify", "wait", "read"}
          /\ main'.ip = main.ip /\ main'.status = main.status
      <3>0. \A why : ~Fail(why)
        BY <1>0, <1>2, Zenon DEF Fail, MainType
      <3>1. CASE prepare_schedule
        BY <1>0, <3>0, <3>1, EventsPrepare, Zenon DEF MainType, Enough
      <3>2. CASE SeeReady
        <4>1. main' = [main EXCEPT !.pc = "notify"] \/ main' = NextThread(main, "signal", "wait")
          BY <3>2, Zenon DEF SeeReady
        <4>2. UNCHANGED <<prog, blocked>> /\ Enough
          BY <3>2, Zenon DEF SeeReady, Fallbacks
        <4>3. CASE main' = [main EXCEPT !.pc = "notify"]
          BY <1>0, <4>2, <4>3, Zenon DEF MainType
        <4>4. CASE main' = NextThread(main, "signal", "wait")
          BY <1>4, <4>2, <4>4, Zenon
        <4> QED
          BY <4>1, <4>3, <4>4, Zenon
      <3>3. CASE NotifyWorker
        <4>1. main' = NextThread(main, "signal", "wait") /\ UNCHANGED <<prog, blocked>>
          BY <3>0, <3>3, Zenon DEF NotifyWorker
        <4>2. Enough
          BY <3>3, Zenon DEF NotifyWorker, Fallbacks
        <4> QED
          BY <1>4, <4>1, <4>2, Zenon
      <3>4. CASE WaitWorker
        <4>1. UNCHANGED <<prog, blocked>> /\ Enough
          BY <3>4, EventsWait, Zenon DEF Moves, Completes, GivesUp, WaitWorker, Fallbacks
        <4>2. Waited(main) \in MainType /\ Waited(main).pc \in {"wait", "read"}
              /\ Waited(main).ip = main.ip /\ Waited(main).status = main.status
          <5>1. Waited(main) \in MainType /\ Waited(main).pc \in {"wait", "read"}
                /\ Waited(main).ip = main.ip
            BY <1>0, WaitedType, Zenon
          <5>2. NextThread(main, "wait", "read") \in MainType
                /\ NextThread(main, "wait", "read").status = main.status
            BY <1>0, <1>3, NextThreadType, ZenonT(60)
          <5>3. Waited(main).status = main.status
            <6> DEFINE n == NextThread(main, "wait", "read")
            <6>1. Waited(main) = IF n.pc = "read" THEN [n EXCEPT !.global_epoch = @ + 1] ELSE n
              BY DEF Waited
            <6>2. n \in MainType /\ n.status = main.status
              BY <5>2
            <6> HIDE DEF n
            <6> QED
              BY <6>1, <6>2 DEF MainType
          <5> QED
            BY <5>1, <5>3, Zenon
        <4>3. main' = Waited(main) \/ main' = [Waited(main) EXCEPT !.running = @ - 1]
          BY <3>0, <3>4, Zenon DEF WaitWorker, handle_completion
        <4> QED
          BY <4>1, <4>2, <4>3, Zenon DEF MainType
      <3> QED
        BY <3>1, <3>2, <3>3, <3>4, Zenon
    <2>2. Enough'
      BY <2>1, Zenon DEF Enough
    <2> QED
      BY <1>0, <2>1, <2>2, Pcs, Zenon DEF Fallbacks
  <1> QED
    BY <1>1, <1>2, Zenon

\* Every step keeps it.
LEMMA FallbacksNext == Events /\ Places /\ Fallbacks /\ [Next]_vars => Fallbacks'
  <1> SUFFICES ASSUME Events, Places, Fallbacks, [Next]_vars PROVE Fallbacks'
    OBVIOUS
  <1>1. CASE PendCall \/ ReadCall \/ ReadEpoch \/ ReadEnd
    BY <1>1, FallbacksRead, Zenon
  <1>2. CASE PickWorker \/ unhand_worker_thread \/ AssignCall \/ resume_pending_calls
    BY <1>2, FallbacksSchedule, Zenon
  <1>3. CASE prepare_schedule \/ SeeReady \/ NotifyWorker \/ WaitWorker
    BY <1>3, FallbacksStart, Zenon
  <1>4. CASE EndExecution
    <2>1. main'.pc = "exit"
      BY <1>4, EventsEnd, GoesToType, Pcs, Zenon DEF Events, Types
    <2> QED
      BY <2>1, FallbacksExit, Zenon
  <1>5. ASSUME NEW w \in Workers, CompleteLate(w) PROVE Fallbacks'
    <2>1. main.pc = "final" /\ main' = [main EXCEPT !.running = main.running - 1]
          /\ main \in MainType /\ UNCHANGED <<prog, blocked>>
      BY <1>5, EventsLate, Zenon DEF Events, Types, Completes
    <2>2. main'.pc = "final" /\ main'.ip = main.ip /\ main'.status = main.status
      BY <2>1, Zenon DEF MainType
    <2> QED
      BY <2>1, <2>2, Pcs, FallbacksKept, Zenon
  <1>6. ASSUME NEW w \in Workers, wait_epoch(w) \/ execute_call(w) \/ FinishCall(w) PROVE Fallbacks'
    <2>1. UNCHANGED <<prog, main, blocked>>
      BY <1>6, EventsWorker, ZenonT(60) DEF Works
    <2> QED
      BY <2>1, Zenon DEF Fallbacks, Enough
  <1>7. CASE UNCHANGED vars
    BY <1>7, Zenon DEF vars, Fallbacks, Enough
  <1> QED
    BY <1>1, <1>2, <1>3, <1>4, <1>5, <1>6, <1>7, ZenonT(60) DEF Next, Main

\* Only ReadEnd and EndExecution end the process without a failed check.
LEMMA EndsWell ==
    ASSUME Events, Fallbacks, Next, main'.pc = "exit", main'.status = "ok"
    PROVE  main.pc # "exit" /\ (ReadEnd \/ EndExecution)
  <1>0. main \in MainType
    BY DEF Events, Types
  <1>1. ASSUME NEW why \in Status \ {"ok"}, Fail(why) PROVE FALSE
    BY <1>0, <1>1, Zenon DEF Fail, MainType
  <1>2. CASE PendCall \/ ReadCall \/ ReadEpoch
    <2>1. main'.pc \in {"read", "schedule", "resume"}
      BY <1>0, <1>2, Zenon DEF PendCall, ReadCall, ReadEpoch, AtCall, MainType
    <2> QED
      BY <2>1, Zenon
  <1>3. CASE PickWorker \/ unhand_worker_thread
    <2>1. CASE \E pc \in {"assign", "unhand"} : GoesTo(pc)
      BY <1>0, <2>1, GoesToType, Pcs, Zenon
    <2>2. CASE main' = [main EXCEPT !.pc = "assign", !.running = main.running - 1]
      BY <1>0, <2>2, Zenon DEF MainType
    <2> QED
      BY <1>1, <1>3, <2>1, <2>2, EventsPickWorker, EventsUnhand, Zenon DEF Status
  <1>4. CASE AssignCall
    BY <1>1, <1>4, EventsAssign, Zenon DEF Status
  <1>5. CASE resume_pending_calls
    <2>1. CASE \E k \in Due(main.cursor) : Resumes(k)
      BY <1>0, <2>1, Zenon DEF Resumes, MainType
    <2> QED
      BY <1>5, <2>1, EventsResume, Zenon DEF Advances
  <1>6. CASE prepare_schedule
    <2>1. CASE main' = [main EXCEPT !.pc = "signal", !.cursor = 0]
      BY <1>0, <2>1, Zenon DEF MainType
    <2> QED
      BY <1>1, <1>6, <2>1, EventsPrepare, Zenon DEF Status
  <1>7. CASE SeeReady
    BY <1>0, <1>7, EventsSeeReady, GoesToType, Pcs, Zenon DEF Advances
  <1>8. CASE NotifyWorker
    BY <1>1, <1>8, EventsNotify, Zenon DEF Advances, Status
  <1>9. CASE WaitWorker
    BY <1>9, EventsWait, Zenon DEF Awaited
  <1>10. ASSUME NEW w \in Workers, CompleteLate(w) PROVE FALSE
    <2>1. main.pc = "final" /\ main' = [main EXCEPT !.running = main.running - 1]
      BY <1>10, EventsLate, Zenon
    <2> QED
      BY <1>0, <2>1, Zenon DEF MainType
  <1>11. ASSUME NEW w \in Workers, wait_epoch(w) \/ execute_call(w) \/ FinishCall(w) PROVE FALSE
    BY <1>11, EventsWorker, Zenon DEF Works
  <1>12. CASE ReadEnd \/ EndExecution
    BY <1>12, Zenon DEF ReadEnd, EndExecution
  <1> QED
    BY <1>2, <1>3, <1>4, <1>5, <1>6, <1>7, <1>8, <1>9, <1>10, <1>11, <1>12, Zenon DEF Next, Main

\* After the last epoch no call is pended.
LEMMA NonePending ==
    ASSUME Events, Places, Epochs, main.pc \in {"read", "final"}, main.ip = Len(prog) + 1
    PROVE  Pending = {} /\ InFlight = {} /\ Read = Calls
  <1>1. Types /\ prog \in Programs /\ Len(prog) \in Nat
    BY ProgramType, Zenon DEF Events, Types
  <1>2. Read = Calls
    BY <1>1 DEF Read, Calls
  <1>3. InFlight = {} /\ ~InEpoch /\ main.pc # "exit"
    BY Pcs, Zenon DEF InFlight, InEpoch
  <1>4. main.global_epoch = EpochsBefore(prog, Len(prog) + 1)
    BY <1>3, Zenon DEF Epochs, Clock
  <1>5. ASSUME NEW c \in Pending PROVE FALSE
    <2>1. c \in Calls
      BY <1>2, Zenon DEF Pending
    <2>2. PICK k \in 1 .. Len(prog) : prog[k].op = "call" /\ prog[k].call = c
      BY <1>1, <2>1, CallIsInstruction, Zenon
    <2>3. Epoch(c) < main.global_epoch
      BY <1>1, <1>4, <2>2, CallFound, ProgramsAssumption DEF Epoch
    <2> QED
      BY <2>1, <2>3, NotSettled, Zenon DEF Epochs, Barrier
  <1> QED
    BY <1>2, <1>3, <1>5, Zenon

\* The step that ends the process leaves no call without its reply.
LEMMA RepliedAtEnd ==
    ASSUME Events, Places, Epochs, Fallbacks, EveryCallReplied, [Next]_vars
    PROVE  EveryCallReplied'
  <1>1. CASE UNCHANGED vars
    BY <1>1, SMTT(30) DEF vars, EveryCallReplied, Calls
  <1>2. CASE Next
    <2> SUFFICES ASSUME main'.pc = "exit", main'.status = "ok"
                 PROVE  EveryCallReplied'
      BY Zenon DEF EveryCallReplied
    <2>1. main.pc # "exit" /\ (ReadEnd \/ EndExecution)
      BY <1>2, EndsWell, Zenon
    <2>2. /\ main.pc \in {"read", "final"} /\ main.ip = Len(prog) + 1 /\ main'.ip = main.ip
          /\ UNCHANGED <<prog, pended, hist>>
      <3>1. main \in MainType /\ Len(prog) \in Nat /\ main.ip <= Len(prog) + 1 /\ main.ip \in Nat
        BY <2>1, ProgramType, Zenon DEF Events, Types, MainType, Fallbacks
      <3>2. CASE ReadEnd
        BY <3>1, <3>2 DEF ReadEnd, MainType
      <3>3. CASE EndExecution
        BY <3>1, <3>3, ZenonT(60) DEF EndExecution, MainType, Fallbacks
      <3> QED
        BY <2>1, <3>2, <3>3, Zenon
    <2>3. Pending = {} /\ InFlight = {} /\ Read = Calls
      BY <2>2, NonePending, Zenon
    <2>4. Places' /\ Read' = Read /\ Calls' = Calls
      BY <1>2, <2>2, PlacesNext, ReadSame, ProgSame, ZenonT(60)
    <2>5. Replied \subseteq Replied' /\ Executing \subseteq Replied'
      <3>1. CASE ReadEnd
        <4>1. main.running = 0 /\ main \in MainType
          <5>1. main \in MainType
            BY DEF Events, Types
          <5>2. ~(main.running > 0)
            BY <3>1, <5>1, Zenon DEF ReadEnd, MainType
          <5> QED
            BY <5>1, <5>2 DEF MainType
        <4>2. Busy = {}
          BY <4>1, BusyCount, Zenon DEF Events
        <4>3. ASSUME NEW t \in Threads, NEW s \in Slots, th[t][s].executing PROVE FALSE
          <5>1. <<t, s>> \in Busy
            BY <4>3, Zenon DEF Busy, Workers
          <5> QED
            BY <4>2, <5>1, Zenon
        <4>4. Executing = {}
          BY <4>3, Zenon DEF Executing
        <4>5. Replied' = Replied
          BY <3>1, PlacesStart, Zenon DEF Quiet
        <4> QED
          BY <4>4, <4>5, Zenon
      <3>2. CASE EndExecution
        <4>1. ASSUME NEW c \in Executing PROVE c \in Replied'
          <5>1. PICK t \in Threads, s \in Slots : th[t][s].executing /\ th[t][s].call = c
            BY Zenon DEF Executing
          <5>2. blocked[t] < kMaxFallbackThreads
            BY <3>2, Zenon DEF EndExecution, Fallbacks, Enough
          <5>3. blocked[t] \in Nat /\ s \in Nat /\ kMaxFallbackThreads \in Nat
            BY Sizes, Zenon DEF Events, Types
          <5>4. ~(s > blocked[t])
            BY <5>1, Zenon DEF Events, UnusedAbove, SoundWorkers, Sound
          <5> QED
            BY <3>2, <5>1, <5>2, <5>3, <5>4, PlacesEnd
        <4> QED
          BY <3>2, <4>1, PlacesEnd, Zenon
      <3> QED
        BY <2>1, <3>1, <3>2, Zenon
    <2>6. Replied' = Calls \ hist.dropped
      <3>1. Replied' \subseteq Calls /\ Replied' \cap hist.dropped = {}
        BY <2>2, <2>3, <2>4, Zenon DEF Places, Complete, Disjoint, Assigned
      <3>2. Calls \ hist.dropped \subseteq Replied'
        BY <2>1, <2>3, <2>5, Zenon DEF Places, Complete
      <3> QED
        BY <3>1, <3>2, Zenon
    <2>7. \A t \in Threads : \A k \in 1 .. Len(pended[t]) : ~pended[t][k].pending
      BY <2>3, Zenon DEF Pending, Events, PendedRead
    <2> QED
      BY <2>2, <2>4, <2>6, <2>7, Zenon DEF EveryCallReplied, Replied
  <1> QED
    BY <1>1, <1>2, Zenon

-----------------------------------------------------------------------------
(* The theorems. From here on the library's facts about finite sets are at   *)
(* hand, for the two facts about numbers that the invariant carries along.   *)

INSTANCE FiniteSetTheorems

\* There are finitely many workers: kMaxThreads threads of kMaxFallbackThreads + 1 slots.
LEMMA CountingHolds == Counting
  <1> SUFFICES ASSUME NEW S \in SUBSET Workers
               PROVE  /\ Cardinality(S) \in Nat /\ (Cardinality(S) = 0 <=> S = {})
                      /\ \A w \in S : Cardinality(S \ {w}) = Cardinality(S) - 1
                      /\ \A w \in Workers \ S : Cardinality(S \cup {w}) = Cardinality(S) + 1
                      /\ Bijection(1 .. Cardinality(S), S) # {}
    BY Zenon DEF Counting
  <1>1. IsFiniteSet(Threads) /\ IsFiniteSet(Slots)
    BY SizesAssumption, FS_Interval DEF Threads, Slots
  <1>2. IsFiniteSet(Workers)
    BY <1>1, FS_Product, ZenonT(60) DEF Workers
  <1>3. IsFiniteSet(S)
    BY <1>2, FS_Subset, ZenonT(60)
  <1>4. Cardinality(S) \in Nat /\ ExistsBijection(1 .. Cardinality(S), S)
    BY <1>3, FS_CardinalityType, ZenonT(60)
  <1>5. Cardinality(S) = 0 <=> S = {}
    BY <1>3, FS_EmptySet, ZenonT(60)
  <1>6. \A w \in S : Cardinality(S \ {w}) = Cardinality(S) - 1
    BY <1>3, FS_RemoveElement, ZenonT(60)
  <1>7. \A w \in Workers \ S : Cardinality(S \cup {w}) = Cardinality(S) + 1
    BY <1>3, FS_AddElement, ZenonT(60)
  <1> QED
    BY <1>4, <1>5, <1>6, <1>7, ZenonT(60) DEF ExistsBijection

\* An epoch instruction is one more, a call is not.
LEMMA EpochsCounted ==
    ASSUME NEW p \in Programs, NEW k \in 1 .. Len(p)
    PROVE  /\ EpochsBefore(p, k) \in Nat
           /\ p[k].op = "epoch" => EpochsBefore(p, k + 1) = EpochsBefore(p, k) + 1
           /\ p[k].op # "epoch" => EpochsBefore(p, k + 1) = EpochsBefore(p, k)
  <1> DEFINE E(n) == {j \in 1 .. n - 1 : p[j].op = "epoch"}
  <1>1. k \in Nat /\ k \notin E(k)
    BY ProgramsAssumption
  <1>2. IsFiniteSet(1 .. k - 1)
    BY <1>1, FS_Interval
  <1>3. IsFiniteSet(E(k))
    BY <1>2, FS_Subset, Zenon
  <1>4. p[k].op = "epoch" => E(k + 1) = E(k) \cup {k}
    BY <1>1
  <1>5. p[k].op # "epoch" => E(k + 1) = E(k)
    BY <1>1
  <1>6. EpochsBefore(p, k) = Cardinality(E(k)) /\ EpochsBefore(p, k + 1) = Cardinality(E(k + 1))
    BY Zenon DEF EpochsBefore
  <1> HIDE DEF E
  <1>7. Cardinality(E(k)) \in Nat /\ Cardinality(E(k) \cup {k}) = Cardinality(E(k)) + 1
    BY <1>1, <1>3, FS_CardinalityType, FS_AddElement, ZenonT(60)
  <1> QED
    BY <1>4, <1>5, <1>6, <1>7, ZenonT(60)

\* And so for every program.
LEMMA CountingEpochsHolds == CountingEpochs
  BY EpochsCounted, Zenon DEF CountingEpochs

\* The events of the workers and the count of them, in every reachable state.
THEOREM EventsInvariant == Spec => []Events
  <1>1. Init => Events
    BY CountingHolds, CountingEpochsHolds, EventsInit, ZenonT(60)
  <1>2. Events /\ [Next]_vars => Events'
    BY EventsNext, Zenon
  <1> QED
    BY <1>1, <1>2, PTL DEF Spec

\* The state checks of handle_completion(), unhand_worker_thread() and event_set()
\* never fire, for any programs, any numbers of threads and any timing.
THEOREM ChecksHold == Spec => []CompletionsAreSound
  <1>1. Events => CompletionsAreSound
    BY Zenon DEF Events, Types, MainType, Status, CompletionsAreSound
  <1> QED
    BY <1>1, EventsInvariant, PTL

\* Each call is in one place, in every reachable state.
THEOREM PlacesInvariant == Spec => []Places
  <1>1. Init => Places
    BY PlacesInit, ZenonT(60)
  <1>2. Events /\ Places /\ [Next]_vars => Places'
    BY PlacesNext, ZenonT(60)
  <1> QED
    BY <1>1, <1>2, EventsInvariant, PTL DEF Spec

\* A call is begun at most once and replied to at most once, whatever the timeouts and
\* late completions of execute_one(), start_epoch() and handle_completion(), for any
\* programs and numbers of threads.
THEOREM BegunAndRepliedOnce == Spec => []CallsOnce
  <1>1. Places => CallsOnce
    BY DEF Places
  <1> QED
    BY <1>1, PlacesInvariant, PTL

\* The order of the epochs, in every reachable state.
THEOREM EpochsInvariant == Spec => []Epochs
  <1>1. Events /\ Init => Epochs
    BY EpochsInit, Zenon
  <1>2. Events /\ Places /\ Epochs /\ [Next]_vars => Epochs'
    BY EpochsNext, Zenon
  <1> QED
    BY <1>1, <1>2, EventsInvariant, PlacesInvariant, PTL DEF Spec

\* The epochs are barriers, for any programs, numbers of threads and timing: when a worker
\* executes a call, start_epoch() has waited for each call of an earlier epoch until it
\* finished or its time was up, or the call was dropped.
THEOREM EpochsAreBarriers == Spec => []EpochBarrier
  <1>1. Events /\ Places /\ Epochs => EpochBarrier
    <2> SUFFICES ASSUME Events, Places, Epochs, NEW t \in Threads, NEW s \in Slots,
                        th[t][s].pc = "running", NEW c \in Calls,
                        Epoch(c) < Epoch(th[t][s].call)
                 PROVE  c \in Settled
      BY DEF EpochBarrier, Workers, Settled, Replied
    <2>1. th[t][s].executing /\ Types
      BY Zenon DEF Events, SoundWorkers, Sound
    <2>2. run_in_epoch(th[t][s].call) /\ th[t][s].call \in Read
      BY <2>1, Zenon DEF Epochs, Timely, Places, BusyOnce
    <2>3. Epoch(c) \in Nat /\ Epoch(th[t][s].call) \in Nat /\ main.global_epoch \in Nat
      BY <2>1, <2>2, ReadIsCall, CallIsInstruction, ZenonT(60) DEF Types, MainType, Epoch
    <2>4. Epoch(c) < main.global_epoch
      BY <2>2, <2>3 DEF run_in_epoch
    <2> QED
      BY <2>4, ZenonT(60) DEF Epochs, Barrier
  <1> QED
    BY <1>1, EventsInvariant, PlacesInvariant, EpochsInvariant, PTL

\* A program that is executed to its end has a reply for every call that was not dropped
\* and leaves no call pended, for any programs, numbers of threads and timing: what
\* execute_one() writes is complete.
THEOREM RepliesAreComplete == Spec => []EveryCallReplied
  <1>1. Init => Fallbacks /\ EveryCallReplied
    <2> SUFFICES ASSUME Init PROVE Fallbacks /\ EveryCallReplied
      BY Zenon
    <2>1. main.pc = "read" /\ main.status = "ok" /\ main.ip = 1 /\ prog \in Programs
      BY Zenon DEF Init
    <2>2. 1 <= Len(prog) + 1
      BY <2>1, ProgramType
    <2> QED
      BY <2>1, <2>2, Pcs, ZenonT(60) DEF Fallbacks, EveryCallReplied
  <1>2. Events /\ Places /\ Fallbacks /\ [Next]_vars => Fallbacks'
    BY FallbacksNext, Zenon
  <1>3. Events /\ Places /\ Epochs /\ Fallbacks /\ EveryCallReplied /\ [Next]_vars =>
            EveryCallReplied'
    BY RepliedAtEnd, Zenon
  <1> QED
    BY <1>1, <1>2, <1>3, EventsInvariant, PlacesInvariant, EpochsInvariant, PTL DEF Spec
=============================================================================
