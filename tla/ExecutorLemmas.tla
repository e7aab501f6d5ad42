--------------------------- MODULE ExecutorLemmas ---------------------------
(***************************************************************************)
(* The events of the workers, for every program and every timing: the main  *)
(* thread counts the workers that have a call, and the state checks of      *)
(* handle_completion(), unhand_worker_thread() and event_set() hold.        *)
(* A lemma for each action says that it keeps this, and what it changes.    *)
(***************************************************************************)
EXTENDS Executor, TLAPS

USE SMTT(30)

Worker == [created : BOOLEAN, ready : BOOLEAN, done : BOOLEAN, start : BOOLEAN,
           executing : BOOLEAN, call : Nat, pc : {"idle", "started", "running"}]

Scheduling == {"schedule", "unhand", "assign"}
MainPc == Scheduling \cup {"read", "resume", "prepare", "signal", "notify", "wait",
                           "final", "exit"}

\* The ways to end that are left.
Status == {"ok", "out of threads", "bad thread state in schedule",
           "bad thread state in start_epoch"}
Scheduled == {<<>>} \cup Workers
MainType == [pc : MainPc, ip : Nat \ {0}, cursor : Threads, call : Nat,
             from : {"read", "resume"}, global_epoch : Nat, running : Nat,
             last_scheduled : Scheduled, status : Status]

PendedType == [call : Nat, pending : BOOLEAN]
ReplyType == [call : Nat, finished : BOOLEAN, blocked : BOOLEAN]
HistType == [gaveUp : SUBSET Nat, dropped : SUBSET Nat, notified : SUBSET Nat,
             prepared : Seq(SUBSET Nat)]

Types ==
    /\ prog \in Programs
    /\ coverage \in BOOLEAN
    /\ main \in MainType
    /\ th \in [Threads -> [Slots -> Worker]]
    /\ blocked \in [Threads -> Slots]
    /\ pended \in [Threads -> Seq(PendedType)]
    /\ out \in Seq(ReplyType)
    /\ ran \in Seq(Nat)
    /\ hist \in HistType

\* A worker is done when it has nothing to do, and only then is it free to be given
\* a call; from then until the main thread takes its result it is executing.
Sound(x) ==
    /\ x.done <=> x.created /\ x.pc = "idle" /\ ~x.ready
    /\ x.pc = "started" => x.ready
    /\ x.pc = "running" => ~x.ready
    /\ (x.ready \/ x.pc # "idle") => x.executing
    /\ x.executing => x.created

Busy == {w \in Workers : th[w[1]][w[2]].executing}

\* The calls the main thread has read.
Read == {prog[k].call : k \in {j \in 1 .. Len(prog) : j < main.ip /\ prog[j].op = "call"}}

SoundWorkers == \A t \in Threads, s \in Slots : Sound(th[t][s])
UnusedAbove == \A t \in Threads, s \in Slots : s > blocked[t] => ~th[t][s].created
PendedRead == \A t \in Threads : \A k \in 1 .. Len(pended[t]) : pended[t][k].call \in Read
InHand(m) ==
    /\ m.pc \in Scheduling => m.call \in Read
    /\ m.pc = "unhand" => blocked[CallOf(m.call).thread] < kMaxFallbackThreads

\* What is used about the numbers of workers: it holds because there are finitely many
\* of them (lemma CountingHolds of ExecutorProofs). As a conjunct of the invariant it is
\* at hand in every step, without the theorems on finite sets in the context.
Counting ==
    \A S \in SUBSET Workers :
        /\ Cardinality(S) \in Nat /\ (Cardinality(S) = 0 <=> S = {})
        /\ \A w \in S : Cardinality(S \ {w}) = Cardinality(S) - 1
        /\ \A w \in Workers \ S : Cardinality(S \cup {w}) = Cardinality(S) + 1
        /\ Bijection(1 .. Cardinality(S), S) # {}

\* The same for the epoch instructions of a program: one is one more, a call is not.
CountingEpochs ==
    \A p \in Programs : \A k \in 1 .. Len(p) :
        /\ EpochsBefore(p, k) \in Nat
        /\ p[k].op = "epoch" => EpochsBefore(p, k + 1) = EpochsBefore(p, k) + 1
        /\ p[k].op # "epoch" => EpochsBefore(p, k + 1) = EpochsBefore(p, k)

\* The workers' events, and the main thread's count of them.
Events ==
    /\ Counting /\ CountingEpochs
    /\ Types
    /\ SoundWorkers
    /\ UnusedAbove
    /\ PendedRead
    /\ InHand(main)
    /\ main.running = Cardinality(Busy)

-----------------------------------------------------------------------------
(* The sizes, the instructions and the workers.                             *)

\* Threads and slots are numbers from 0.
LEMMA Sizes ==
    /\ 0 \in Threads /\ 0 \in Slots /\ kMaxFallbackThreads \in Nat
    /\ \A t \in Threads : t \in Nat
    /\ \A s \in Slots : s \in Nat /\ s <= kMaxFallbackThreads
    /\ \A s \in Slots : s < kMaxFallbackThreads => s + 1 \in Slots
    /\ \A t \in Threads : t + 1 \in Threads \/ (t + 1 \notin Threads /\ t = kMaxThreads - 1)
  BY SizesAssumption DEF Threads, Slots

\* A program is a finite sequence.
LEMMA ProgramType ==
    ASSUME prog \in Programs
    PROVE  prog \in Seq(Instructions) /\ Len(prog) \in Nat
  <1>1. prog \in Seq(Instructions)
    BY ProgramsAssumption
  <1> QED
    BY <1>1

\* An instruction of a program is a call or an epoch, and a call is found by its name.
LEMMA CallFound ==
    ASSUME prog \in Programs, NEW k \in 1 .. Len(prog), prog[k].op = "call"
    PROVE  /\ CallOf(prog[k].call) = prog[k]
           /\ prog[k] \in [op : {"call"}, call : Nat, thread : Threads, epoch : Nat, sched : BOOLEAN]
           /\ prog[k].call \in Calls
  <1>1. prog \in Seq(Instructions)
    BY ProgramType
  <1>2. prog[k] \in Instructions
    BY <1>1
  <1>3. \A j \in 1 .. Len(prog) : prog[j].op = "call" /\ prog[j].call = prog[k].call => j = k
    BY ProgramsAssumption
  <1>4. CallOf(prog[k].call) = prog[k]
    BY <1>3, Zenon DEF CallOf
  <1> QED
    BY <1>2, <1>4 DEF Instructions, Calls

\* A call the main thread has read from the program is one of the program's calls.
LEMMA ReadIsCall ==
    ASSUME prog \in Programs, NEW c \in Read
    PROVE  c \in Calls /\ c \in Nat
  BY CallFound DEF Read

\* A call of the program is what one of its call instructions says: the thread and the epoch
\* execute_one() reads for it are in range.
LEMMA CallIsInstruction ==
    ASSUME prog \in Programs, NEW c \in Calls
    PROVE  /\ c \in Nat /\ CallOf(c).call = c
           /\ CallOf(c).thread \in Threads /\ CallOf(c).epoch \in Nat
           /\ \E k \in 1 .. Len(prog) : prog[k].op = "call" /\ prog[k].call = c
  <1>1. PICK k \in 1 .. Len(prog) : prog[k].op = "call" /\ prog[k].call = c
    BY DEF Calls
  <1> QED
    BY <1>1, CallFound

\* What it means to change the one worker s of thread t.
Updates(t, s, x) ==
    /\ th' \in [Threads -> [Slots -> Worker]]
    /\ th'[t][s] = x
    /\ \A u \in Threads, v \in Slots : (u # t \/ v # s) => th'[u][v] = th[u][v]

\* Writing one slot of the thread table changes that worker and no other.
LEMMA Update ==
    ASSUME Types, NEW t \in Threads, NEW s \in Slots, NEW x \in Worker,
           th' = [th EXCEPT ![t][s] = x]
    PROVE  Updates(t, s, x)
  BY DEF Types, Updates

\* The number of busy workers.
LEMMA BusyCount ==
    ASSUME Counting
    PROVE  /\ Cardinality(Busy) \in Nat /\ (Cardinality(Busy) = 0 <=> Busy = {})
           /\ \A w \in Busy : Cardinality(Busy \ {w}) = Cardinality(Busy) - 1
           /\ \A w \in Workers \ Busy : Cardinality(Busy \cup {w}) = Cardinality(Busy) + 1
  <1>1. Busy \in SUBSET Workers
    BY DEF Busy
  <1> QED
    BY <1>1 DEF Counting

\* Taking a busy worker away makes them one fewer.
LEMMA BusyLess ==
    ASSUME Counting, Types, NEW t \in Threads, NEW s \in Slots, NEW x \in Worker,
           Updates(t, s, x), th[t][s].executing, ~x.executing
    PROVE  Cardinality(Busy) > 0 /\ Cardinality(Busy)' = Cardinality(Busy) - 1
  <1>1. <<t, s>> \in Busy
    BY DEF Busy, Workers
  <1>2. Busy' = Busy \ {<<t, s>>}
    BY DEF Busy, Workers, Updates
  <1> QED
    BY <1>1, <1>2, BusyCount

\* Adding one makes them one more.
LEMMA BusyMore ==
    ASSUME Counting, Types, NEW t \in Threads, NEW s \in Slots, NEW x \in Worker,
           Updates(t, s, x), ~th[t][s].executing, x.executing
    PROVE  Cardinality(Busy)' = Cardinality(Busy) + 1
  <1>1. <<t, s>> \in Workers \ Busy
    BY DEF Busy, Workers
  <1>2. Busy' = Busy \cup {<<t, s>>}
    BY DEF Busy, Workers, Updates
  <1> QED
    BY <1>1, <1>2, BusyCount

\* Any other change of a worker leaves them as many.
LEMMA BusySame ==
    ASSUME Types, NEW t \in Threads, NEW s \in Slots, NEW x \in Worker, Updates(t, s, x),
           th[t][s].executing = x.executing
    PROVE  Busy' = Busy
  BY DEF Busy, Workers, Updates

-----------------------------------------------------------------------------
(* The invariant, action by action.                                         *)

\* Initially no worker has a call.
LEMMA EventsInit == Counting /\ CountingEpochs /\ Init => Events
  <1> SUFFICES ASSUME Counting, CountingEpochs, Init PROVE Events
    OBVIOUS
  <1> USE DEF Init
  <1> USE Sizes
  <1>1. Created \in Worker /\ Unused \in Worker
    BY Zenon DEF Created, Unused, Worker
  <1>2. PICK kssb \in BOOLEAN :
          th = [t \in Threads |-> [s \in Slots |->
                  IF s = 0 /\ (t = 0 \/ (t = 1 /\ kssb)) THEN Created ELSE Unused]]
    OBVIOUS
  <1>3. th \in [Threads -> [Slots -> Worker]]
    BY <1>1, <1>2
  <1>4. \A t \in Threads, s \in Slots : th[t][s] \in {Created, Unused} /\ (s # 0 => th[t][s] = Unused)
    BY <1>2
  <1>5. Types
    <2>0. <<>> \in Scheduled
      BY Zenon DEF Scheduled
    <2>1. main \in MainType
      BY <2>0 DEF MainType, MainPc, Status
    <2>2. hist \in HistType
      BY DEF HistType
    <2> QED
      BY <1>3, <2>1, <2>2 DEF Types
  <1>6. \A t \in Threads, s \in Slots : ~th[t][s].executing /\ Sound(th[t][s])
    BY <1>4 DEF Created, Unused, Sound
  <1>7. UnusedAbove
    BY <1>4 DEF UnusedAbove, Unused
  <1>8. Busy = {}
    BY <1>6, Zenon DEF Busy, Workers
  <1> QED
    BY <1>5, <1>6, <1>7, <1>8, BusyCount
    DEF Events, SoundWorkers, PendedRead, InHand, Scheduling

\* The main thread ends the process for another reason than those checks.
LEMMA EventsFail ==
    ASSUME Events, NEW why \in Status, Fail(why)
    PROVE  Events'
  <1>1. Types'
    BY Zenon DEF Events, Types, Fail, MainPc, MainType
  <1>2. Busy' = Busy /\ Read' = Read
    BY DEF Busy, Fail, Read, Events, Types
  <1>3. main'.pc = "exit" /\ main'.running = main.running /\ main'.status = why
    BY Zenon DEF Events, Types, Fail, MainType
  <1> QED
    BY <1>1, <1>2, <1>3
    DEF Events, Fail, SoundWorkers, UnusedAbove, PendedRead, InHand, Scheduling

\* A step of the main thread alone that starts or ends no call.
LEMMA EventsMain ==
    ASSUME Events, UNCHANGED <<prog, coverage, th, blocked>>, Types', PendedRead',
           InHand(main)', main'.running = main.running
    PROVE  Events'
  <1>1. Busy' = Busy
    BY DEF Busy
  <1> QED
    BY <1>1 DEF Events, SoundWorkers, UnusedAbove

\* What has been read stays read.
LEMMA ReadGrows ==
    ASSUME Types, prog' = prog, main'.ip = main.ip \/ main'.ip = main.ip + 1
    PROVE  Read \subseteq Read'
  <1>1. main.ip \in Nat
    BY Zenon DEF Types, MainType
  <1> QED
    BY <1>1 DEF Read

\* PendCall: the call is of a thread, and has been read when it is pended.
LEMMA EventsPendCall == ASSUME Events, PendCall PROVE Events'
  <1>0. main \in MainType
    BY DEF Events, Types
  <1> DEFINE c == prog[main.ip]
  <1>1. main.ip \in 1 .. Len(prog) /\ c.op = "call"
    BY ProgramType DEF PendCall, AtCall, Events, Types, MainType
  <1>2. c.thread \in Threads /\ c.call \in Nat
    BY <1>1, CallFound, Zenon DEF Events, Types
  <1>3. main' = [main EXCEPT !.ip = @ + 1] /\ UNCHANGED <<prog, coverage, th, blocked, out, ran>>
    BY Zenon DEF PendCall
  <1>4. main' \in MainType /\ main'.ip = main.ip + 1 /\ main'.running = main.running
        /\ main'.pc = "read"
    BY <1>0, <1>3 DEF MainType, PendCall, AtCall
  <1>5. Read \subseteq Read' /\ c.call \in Read'
    BY <1>1, <1>3, <1>4, ReadGrows DEF Events, Read, Types
  <1> HIDE DEF c
  <1>6. CASE UNCHANGED pended /\ hist' = [hist EXCEPT !.dropped = @ \cup {c.call}]
    <2>1. hist' \in HistType
      BY <1>2, <1>6, Zenon DEF Events, Types, HistType
    <2>2. Types'
      BY <1>3, <1>4, <1>6, <2>1 DEF Events, Types
    <2>3. PendedRead'
      BY <1>5, <1>6 DEF Events, PendedRead
    <2> QED
      BY <1>3, <1>4, <2>2, <2>3, EventsMain DEF InHand, Scheduling
  <1>7. CASE /\ pended' = [pended EXCEPT ![c.thread] = Append(@, [call |-> c.call, pending |-> TRUE])]
             /\ UNCHANGED hist
    <2>1. pended' \in [Threads -> Seq(PendedType)]
      <3>1. [call |-> c.call, pending |-> TRUE] \in PendedType
        BY <1>2 DEF PendedType
      <3> QED
        BY <1>2, <1>7, <3>1 DEF Events, Types
    <2>2. Types'
      BY <1>3, <1>4, <1>7, <2>1 DEF Events, Types
    <2>3. PendedRead'
      <3> SUFFICES ASSUME NEW t \in Threads, NEW k \in 1 .. Len(pended'[t])
                   PROVE  pended'[t][k].call \in Read'
        BY DEF PendedRead
      <3>1. CASE t = c.thread /\ k = Len(pended[t]) + 1
        BY <1>2, <1>5, <1>7, <3>1 DEF Events, Types
      <3>2. CASE ~(t = c.thread /\ k = Len(pended[t]) + 1)
        <4>1. k \in 1 .. Len(pended[t]) /\ pended'[t][k] = pended[t][k]
          BY <1>2, <1>7, <3>2 DEF Events, Types
        <4> QED
          BY <1>5, <4>1, Zenon DEF Events, PendedRead
      <3> QED
        BY <3>1, <3>2
    <2> QED
      BY <1>3, <1>4, <2>2, <2>3, EventsMain DEF InHand, Scheduling
  <1> QED
    BY <1>6, <1>7, Zenon DEF PendCall, c

\* The other steps that read an instruction.
LEMMA EventsRead == ASSUME Events, ReadCall \/ ReadEpoch \/ ReadEnd PROVE Events'
  <1>0. main \in MainType
    BY DEF Events, Types
  <1>1. CASE ReadCall
    <2>1. main.ip \in 1 .. Len(prog) /\ prog[main.ip].op = "call"
      BY <1>1, ProgramType DEF ReadCall, AtCall, Events, Types, MainType
    <2>2. prog[main.ip].call \in Nat
      BY <2>1, CallFound DEF Events, Types
    <2>3. main' \in MainType /\ main'.ip = main.ip + 1 /\ main'.running = main.running
          /\ main'.call = prog[main.ip].call /\ main'.pc = "schedule"
      <3>1. main' = [main EXCEPT !.ip = @ + 1, !.pc = "schedule", !.from = "read",
                                 !.call = prog[main.ip].call]
        BY <1>1 DEF ReadCall
      <3>2. "schedule" \in MainPc /\ main.ip + 1 \in Nat \ {0}
        BY <1>0 DEF MainPc, MainType, Scheduling
      <3> QED
        BY <1>0, <2>2, <3>1, <3>2, Zenon DEF MainType
    <2>4. Read \subseteq Read' /\ main'.call \in Read'
      BY <1>1, <2>1, <2>3, ReadGrows DEF ReadCall, Events, Read, Types
    <2>5. Types' /\ PendedRead'
      BY <1>1, <2>3, <2>4 DEF ReadCall, Events, Types, PendedRead
    <2> QED
      BY <1>1, <2>3, <2>4, <2>5, EventsMain, Zenon DEF ReadCall, InHand
  <1>2. CASE ReadEpoch
    <2>3. main' \in MainType /\ main'.ip = main.ip + 1 /\ main'.running = main.running
          /\ main'.pc = "resume"
      <3>1. main' = [main EXCEPT !.ip = @ + 1, !.pc = "resume", !.cursor = 0]
        BY <1>2 DEF ReadEpoch
      <3>2. "resume" \in MainPc /\ 0 \in Threads /\ main.ip + 1 \in Nat \ {0}
        BY <1>0, Sizes DEF MainPc, MainType
      <3> QED
        BY <1>0, <3>1, <3>2, Zenon DEF MainType
    <2>4. Read \subseteq Read'
      BY <1>2, <2>3, ReadGrows, Zenon DEF ReadEpoch, Events
    <2>5. Types' /\ PendedRead'
      BY <1>2, <2>3, <2>4 DEF ReadEpoch, Events, Types, PendedRead
    <2> QED
      BY <1>2, <2>3, <2>5, EventsMain DEF ReadEpoch, InHand, Scheduling
  <1>3. CASE ReadEnd
    <2>1. <<>> \in Scheduled
      BY Zenon DEF Scheduled
    <2>3. main' \in MainType /\ main'.ip = main.ip /\ main'.running = main.running
          /\ main'.pc \in {"final", "exit"}
      BY <1>0, <1>3, <2>1, Zenon DEF ReadEnd, MainType, MainPc
    <2>4. Read \subseteq Read'
      BY <1>3, <2>3, ReadGrows DEF ReadEnd, Events
    <2>5. Types' /\ PendedRead'
      BY <1>3, <2>3, <2>4 DEF ReadEnd, Events, Types, PendedRead
    <2> QED
      BY <1>3, <2>3, <2>5, EventsMain DEF ReadEnd, InHand, Scheduling
  <1> QED
    BY <1>1, <1>2, <1>3

\* A step that changes one worker.
LEMMA EventsUpdate ==
    ASSUME Events, NEW t \in Threads, NEW s \in Slots, NEW x \in Worker, Updates(t, s, x),
           Sound(x), s <= blocked'[t], \A u \in Threads : blocked[u] <= blocked'[u],
           UNCHANGED <<prog, pended>>, main'.ip = main.ip, Types', InHand(main)',
           main'.running = Cardinality(Busy)'
    PROVE  Events'
  <1>1. SoundWorkers'
    BY DEF SoundWorkers, Updates, Events
  <1>2. UnusedAbove'
    <2> SUFFICES ASSUME NEW u \in Threads, NEW v \in Slots, v > blocked'[u]
                 PROVE  ~th'[u][v].created
      BY DEF UnusedAbove
    <2>1. blocked[u] \in Slots /\ blocked'[u] \in Slots
      BY DEF Events, Types
    <2>3. v \in Nat /\ s \in Nat /\ blocked[u] \in Nat /\ blocked'[u] \in Nat
      BY <2>1, Sizes, Zenon
    <2>2. (u # t \/ v # s) /\ v > blocked[u]
      BY <2>3
    <2> QED
      BY <2>2 DEF Updates, UnusedAbove, Events
  <1>3. PendedRead'
    BY ReadGrows DEF PendedRead, Events
  <1> QED
    BY <1>1, <1>2, <1>3 DEF Events

\* Where execute_one() is: inside schedule_call() or outside it, never both.
LEMMA Pcs ==
    /\ Scheduling \subseteq MainPc
    /\ {"read", "resume", "prepare", "signal", "notify", "wait", "final", "exit"} \subseteq MainPc
    /\ {"read", "resume", "prepare", "signal", "notify", "wait", "final", "exit"}
         \cap Scheduling = {}
    /\ "schedule" \in Scheduling /\ "unhand" \in Scheduling /\ "assign" \in Scheduling
  BY DEF MainPc, Scheduling

\* Appending an element of a set to a sequence over it.
LEMMA AppendType ==
    ASSUME NEW S, NEW q \in Seq(S), NEW e \in S
    PROVE  Append(q, e) \in Seq(S)
  OBVIOUS

\* handle_completion(): a worker that is executing and done passes the checks, and is
\* counted, so the count does not become negative.
LEMMA EventsCompletion ==
    ASSUME Events, NEW t \in Threads, NEW s \in Slots, th[t][s].executing, th[t][s].done,
           NEW m \in MainType, m.running = main.running, m.ip = main.ip, InHand(m),
           handle_completion(<<t, s>>, m)
    PROVE  /\ Events'
           /\ out' = Append(out, Reply(<<t, s>>, TRUE))
           /\ main' = [m EXCEPT !.running = @ - 1]
           /\ Updates(t, s, [th[t][s] EXCEPT !.executing = FALSE])
           /\ UNCHANGED <<prog, coverage, blocked, pended, ran, hist>>
  <1> DEFINE x == [th[t][s] EXCEPT !.executing = FALSE]
  <1>1. th[t][s] \in Worker /\ Sound(th[t][s])
    BY DEF Events, Types, SoundWorkers
  <1>2. x \in Worker /\ Sound(x) /\ ~x.executing
    BY <1>1, Zenon DEF Worker, Sound
  <1>3. ~th[t][s].ready
    BY <1>1 DEF Sound
  <1>4. Cardinality(Busy) # 0
    <2>1. <<t, s>> \in Busy
      BY DEF Busy, Workers
    <2> QED
      BY <2>1, BusyCount, Zenon DEF Events
  <1>5. /\ out' = Append(out, Reply(<<t, s>>, TRUE))
        /\ th' = [th EXCEPT ![t][s].executing = FALSE]
        /\ main' = [m EXCEPT !.running = @ - 1]
        /\ UNCHANGED <<prog, coverage, blocked, pended, ran, hist>>
    BY <1>3, <1>4, Zenon DEF handle_completion, Events
  <1>6. th' = [th EXCEPT ![t][s] = x]
    BY <1>5 DEF Events, Types
  <1>7. Updates(t, s, x)
    BY <1>2, <1>6, Update, Zenon DEF Events
  <1>8. Cardinality(Busy) > 0 /\ Cardinality(Busy)' = Cardinality(Busy) - 1
    BY <1>2, <1>7, BusyLess, Zenon DEF Events
  <1>9. main.running - 1 \in Nat /\ main' \in MainType /\ main'.ip = main.ip
        /\ main'.running = Cardinality(Busy)' /\ main'.pc = m.pc /\ main'.call = m.call
    <2>1. main.running - 1 \in Nat /\ main.running - 1 = Cardinality(Busy)'
      BY <1>8, BusyCount DEF Events
    <2> QED
      BY <1>5, <2>1, Zenon DEF MainType
  <1>10. Reply(<<t, s>>, TRUE) \in ReplyType
    BY <1>1 DEF Reply, Worker, ReplyType
  <1>11. Types'
    <2>1. out \in Seq(ReplyType)
      BY DEF Events, Types
    <2>2. out' \in Seq(ReplyType)
      BY <1>5, <1>10, <2>1, AppendType, Zenon
    <2> QED
      BY <1>5, <1>7, <1>9, <2>2, Zenon DEF Events, Types, Updates
  <1>12. InHand(main)'
    BY <1>5, <1>9 DEF InHand, Read, CallOf
  <1>13. s <= blocked[t] /\ \A u \in Threads : blocked[u] <= blocked'[u]
    <2>1. th[t][s].created
      BY <1>1 DEF Sound
    <2>2. ~(s > blocked[t])
      BY <2>1 DEF Events, UnusedAbove
    <2> QED
      BY <1>5, <2>2, Sizes DEF Events, Types
  <1> HIDE DEF x
  <1>14. Events'
    BY <1>2, <1>5, <1>7, <1>9, <1>11, <1>12, <1>13, EventsUpdate, Zenon
  <1> QED
    BY <1>5, <1>7, <1>14 DEF x

\* The call in hand is one of the program's, and its thread is one of the threads.
LEMMA TargetType ==
    ASSUME Events, main.pc \in Scheduling
    PROVE  /\ main.call \in Read /\ main.call \in Calls
           /\ Target \in Threads /\ blocked[Target] \in Slots
           /\ th[Target][blocked[Target]] \in Worker /\ Sound(th[Target][blocked[Target]])
  <1>1. main.call \in Read /\ prog \in Programs
    BY DEF Events, Types, InHand
  <1>2. main.call \in Calls /\ Target \in Threads
    BY <1>1, ReadIsCall, CallIsInstruction DEF Target
  <1> QED
    BY <1>1, <1>2 DEF Events, Types, SoundWorkers

\* thread_create() makes a worker that is idle: nothing to execute, its ready event not set.
LEMMA CreatedWorker == Created \in Worker /\ Sound(Created) /\ ~Created.executing
                       /\ Created.call = 0 /\ ~Created.ready /\ Created.pc = "idle"
  BY Zenon DEF Created, Unused, Worker, Sound

\* The main thread moves on, and nothing else changes.
Moves == UNCHANGED <<prog, coverage, th, blocked, pended, out, ran, hist>>

\* A worker is created for thread t.
Creates(t) ==
    /\ Updates(t, blocked'[t], Created)
    /\ ~th[t][blocked'[t]].executing
    /\ UNCHANGED <<prog, coverage, pended, out, ran, hist>>

\* A worker's result is taken.
Completes(t, s) ==
    /\ th[t][s].executing /\ th[t][s].done
    /\ out' = Append(out, Reply(<<t, s>>, TRUE))
    /\ Updates(t, s, [th[t][s] EXCEPT !.executing = FALSE])
    /\ UNCHANGED <<prog, coverage, blocked, pended, ran, hist>>

GoesTo(pc) == main' = [main EXCEPT !.pc = pc]

\* Moving the main thread to another place of execute_one() changes nothing else it holds.
LEMMA GoesToType ==
    ASSUME main \in MainType, NEW pc \in MainPc, GoesTo(pc)
    PROVE  /\ main' \in MainType /\ main'.pc = pc
           /\ main'.running = main.running /\ main'.ip = main.ip /\ main'.call = main.call
           /\ main'.global_epoch = main.global_epoch /\ main'.cursor = main.cursor
           /\ main'.from = main.from /\ main'.status = main.status
  BY DEF GoesTo, MainType

\* PickWorker: the worker is created, or is free, or has finished, or is busy.
LEMMA EventsPickWorker ==
    ASSUME Events, PickWorker
    PROVE  /\ Events'
           /\ \/ Fail("out of threads")
              \/ /\ GoesTo("assign")
                 /\ ~th[Target][blocked[Target]].executing
                 /\ Moves \/ (blocked' = blocked /\ Creates(Target))
              \/ main' = [main EXCEPT !.pc = "assign", !.running = main.running - 1]
                 /\ Completes(Target, blocked[Target])
              \/ GoesTo("unhand") /\ Moves /\ th[Target][blocked[Target]].executing
  <1> DEFINE t == Target
             s == blocked[Target]
             w == th[t][s]
  <1>0. main \in MainType /\ main.pc = "schedule" /\ Types
    BY Zenon DEF Events, Types, PickWorker
  <1>1. main.pc \in Scheduling
    BY <1>0, Pcs, Zenon
  <1>2. main.call \in Read /\ t \in Threads /\ s \in Slots /\ w \in Worker /\ Sound(w)
    BY <1>1, TargetType
  <1>9. s \in Nat /\ kMaxFallbackThreads \in Nat
    BY <1>2, Sizes
  <1>10. s < kMaxFallbackThreads =>
          \/ /\ ~w.executing
             /\ GoesTo("assign")
             /\ th' = IF w.created THEN th ELSE [th EXCEPT ![t][s] = Created]
             /\ UNCHANGED <<prog, coverage, blocked, pended, out, ran, hist>>
          \/ w.executing /\ w.done /\ handle_completion(<<t, s>>, [main EXCEPT !.pc = "assign"])
          \/ w.executing /\ ~w.done /\ GoesTo("unhand") /\ Moves
    <2>1. s < kMaxFallbackThreads => ~(s >= kMaxFallbackThreads)
      BY <1>9
    <2> QED
      BY <2>1, Zenon DEF PickWorker, get_thread, GoesTo, Moves
  <1>3. CASE s >= kMaxFallbackThreads
    <2>1. Fail("out of threads")
      BY <1>3, Zenon DEF PickWorker
    <2> QED
      BY <2>1, EventsFail, Zenon DEF Status
  <1>4. CASE s < kMaxFallbackThreads /\ ~w.executing
    <2>1. GoesTo("assign") /\ th' = IF w.created THEN th ELSE [th EXCEPT ![t][s] = Created]
      BY <1>4, <1>10, Zenon
    <2>2. UNCHANGED <<prog, coverage, blocked, pended, out, ran, hist>>
      BY <1>4, <1>10
    <2>3. main' \in MainType /\ main'.pc = "assign" /\ main'.running = main.running
          /\ main'.ip = main.ip /\ main'.call = main.call
      BY <2>1, <1>0, Pcs, GoesToType, Zenon
    <2>4. InHand(main)'
      BY <2>2, <2>3, <1>2 DEF InHand, Read
    <2>5. CASE w.created
      <3>1. Moves
        BY <2>1, <2>2, <2>5, Zenon DEF Moves
      <3>2. Types' /\ PendedRead'
        BY <3>1, <2>3 DEF Moves, Events, Types, PendedRead, Read
      <3> QED
        BY <3>1, <3>2, <2>1, <2>3, <2>4, <1>4, EventsMain, Zenon DEF Moves
    <2>6. CASE ~w.created
      <3>1. Updates(t, s, Created)
        BY <2>1, <2>6, <1>0, <1>2, CreatedWorker, Update, Zenon
      <3>2. Types'
        BY <3>1, <2>2, <2>3, Zenon DEF Events, Types, Updates
      <3>3. Busy' = Busy
        BY <3>1, <1>0, <1>2, <1>4, CreatedWorker, BusySame, Zenon DEF Worker
      <3>4. s <= blocked'[t] /\ \A u \in Threads : blocked[u] <= blocked'[u]
        <4>1. \A u \in Threads : blocked[u] \in Nat
          BY Sizes, Zenon DEF Events, Types
        <4> QED
          BY <2>2, <1>2, <4>1
      <3>5. Events'
        BY <3>1, <3>2, <3>3, <3>4, <2>2, <2>3, <2>4, <1>2, CreatedWorker, EventsUpdate, Zenon DEF Events
      <3>6. Creates(t)
        BY <3>1, <2>2, <1>4 DEF Creates
      <3> QED
        BY <3>5, <3>6, <2>1, <2>2, <1>4, Zenon
    <2> QED
      BY <2>5, <2>6, Zenon
  <1>5. CASE s < kMaxFallbackThreads /\ w.executing /\ w.done
    <2> DEFINE m == [main EXCEPT !.pc = "assign"]
    <2>1. handle_completion(<<t, s>>, m)
      BY <1>5, <1>10
    <2>2. m \in MainType /\ m.running = main.running /\ m.ip = main.ip /\ m.pc = "assign"
          /\ m.call = main.call
      BY <1>0, Pcs DEF MainType
    <2>3. InHand(m)
      BY <2>2, <1>2 DEF InHand
    <2>4. [m EXCEPT !.running = @ - 1] = [main EXCEPT !.pc = "assign", !.running = main.running - 1]
      BY <1>0 DEF MainType
    <2> HIDE DEF m
    <2>5. /\ Events'
          /\ out' = Append(out, Reply(<<t, s>>, TRUE))
          /\ main' = [m EXCEPT !.running = @ - 1]
          /\ Updates(t, s, [th[t][s] EXCEPT !.executing = FALSE])
          /\ UNCHANGED <<prog, coverage, blocked, pended, ran, hist>>
      BY <1>2, <1>5, <2>1, <2>2, <2>3, EventsCompletion, Zenon
    <2> QED
      BY <2>4, <2>5, <1>5, Zenon DEF Completes
  <1>6. CASE s < kMaxFallbackThreads /\ w.executing /\ ~w.done
    <2>1. GoesTo("unhand") /\ Moves
      BY <1>6, <1>10
    <2>3. main' \in MainType /\ main'.pc = "unhand" /\ main'.running = main.running
          /\ main'.ip = main.ip /\ main'.call = main.call
      BY <2>1, <1>0, Pcs, GoesToType
    <2>4. InHand(main)'
      BY <2>1, <2>3, <1>2, <1>6, Zenon DEF InHand, Read, Moves, Target, CallOf
    <2>5. Types' /\ PendedRead'
      BY <2>1, <2>3 DEF Moves, Events, Types, PendedRead, Read
    <2> QED
      BY <2>1, <2>3, <2>4, <2>5, <1>6, EventsMain, Zenon DEF Moves
  <1>7. s < kMaxFallbackThreads \/ s >= kMaxFallbackThreads
    BY <1>9
  <1>8. w.executing \in BOOLEAN /\ w.done \in BOOLEAN
    BY <1>2 DEF Worker
  <1> QED
    BY <1>3, <1>4, <1>5, <1>6, <1>7, <1>8, Zenon

\* unhand_worker_thread: the worker it takes next has not been used.
LEMMA EventsUnhand ==
    ASSUME Events, unhand_worker_thread
    PROVE  /\ Events'
           /\ \/ Fail("out of threads")
              \/ GoesTo("assign") /\ Moves
              \/ /\ GoesTo("assign")
                 /\ blocked' = [blocked EXCEPT ![Target] = blocked[Target] + 1]
                 /\ Creates(Target)
  <1> DEFINE t == Target
             s == blocked[Target]
             next == blocked[Target] + 1
  <1>0. main \in MainType /\ main.pc = "unhand" /\ Types
    BY Zenon DEF Events, Types, unhand_worker_thread
  <1>1. main.pc \in Scheduling
    BY <1>0, Pcs, Zenon
  <1>2. main.call \in Read /\ t \in Threads /\ s \in Slots
    BY <1>1, TargetType, Zenon
  <1>3. s < kMaxFallbackThreads
    BY <1>0 DEF Events, InHand, Target
  <1>4. next \in Slots /\ next > s /\ s \in Nat /\ next \in Nat
    BY <1>2, <1>3, Sizes
  <1>5. ~th[t][next].created /\ th[t][next] \in Worker /\ Sound(th[t][next])
    BY <1>2, <1>4 DEF Events, UnusedAbove, Types, SoundWorkers
  <1>6. \/ GoesTo("assign") /\ Moves
        \/ Fail("out of threads")
        \/ /\ blocked' = [blocked EXCEPT ![t] = next]
           /\ th' = [th EXCEPT ![t][next] = Created]
           /\ GoesTo("assign")
           /\ UNCHANGED <<prog, coverage, pended, out, ran, hist>>
    BY <1>5, Zenon DEF unhand_worker_thread, GoesTo, Moves
  <1>7. CASE Fail("out of threads")
    BY <1>7, EventsFail, Zenon DEF Status
  <1>8. ASSUME GoesTo("assign")
        PROVE  main' \in MainType /\ main'.pc = "assign" /\ main'.running = main.running
               /\ main'.ip = main.ip /\ main'.call = main.call
    BY <1>8, <1>0, Pcs, GoesToType
  <1>9. CASE GoesTo("assign") /\ Moves
    <2>1. InHand(main)'
      BY <1>2, <1>8, <1>9, Zenon DEF InHand, Moves, Read
    <2>2. Types' /\ PendedRead'
      BY <1>8, <1>9, ZenonT(60) DEF Moves, Events, Types, PendedRead, Read
    <2> QED
      BY <2>1, <2>2, <1>8, <1>9, EventsMain, Zenon DEF Moves
  <1>10. CASE /\ blocked' = [blocked EXCEPT ![t] = next]
              /\ th' = [th EXCEPT ![t][next] = Created]
              /\ GoesTo("assign")
              /\ UNCHANGED <<prog, coverage, pended, out, ran, hist>>
    <2>1. Updates(t, next, Created)
      BY <1>10, <1>0, <1>2, <1>4, CreatedWorker, Update, Zenon
    <2>2. blocked' \in [Threads -> Slots] /\ blocked'[t] = next
      BY <1>0, <1>2, <1>4, <1>10 DEF Types
    <2>3. Types'
      BY <1>8, <1>10, <2>1, <2>2, Zenon DEF Events, Types, Updates
    <2>4. ~th[t][next].executing
      BY <1>5, Zenon DEF Sound
    <2>5. Busy' = Busy
      BY <2>1, <2>4, <1>0, <1>2, <1>4, <1>5, CreatedWorker, BusySame, Zenon DEF Worker
    <2>6. next <= blocked'[t] /\ \A u \in Threads : blocked[u] <= blocked'[u]
      <3>1. \A u \in Threads : blocked[u] \in Nat
        BY Sizes DEF Events, Types
      <3> QED
        BY <1>0, <1>2, <1>4, <1>10, <2>2, <3>1 DEF Types
    <2>7. InHand(main)'
      BY <1>2, <1>8, <1>10, Zenon DEF InHand, Read
    <2> HIDE DEF next
    <2>8. Events'
      BY <2>1, <2>3, <2>5, <2>6, <2>7, <1>2, <1>4, <1>8, <1>10, CreatedWorker, EventsUpdate, Zenon DEF Events
    <2>9. Creates(t)
      BY <2>1, <2>2, <2>4, <1>10, Zenon DEF Creates
    <2> QED
      BY <2>8, <2>9, <1>10, Zenon DEF next
  <1> QED
    BY <1>6, <1>7, <1>9, <1>10, Zenon

\* A loop over the threads goes to the next one, or on.
LEMMA NextThreadType ==
    ASSUME NEW m \in MainType, NEW loop \in MainPc, NEW after \in MainPc
    PROVE  LET n == NextThread(m, loop, after) IN
           /\ n \in MainType /\ n.ip = m.ip /\ n.running = m.running /\ n.call = m.call
           /\ n.global_epoch = m.global_epoch /\ n.from = m.from /\ n.status = m.status
           /\ \/ n.pc = loop /\ n.cursor = m.cursor + 1 /\ m.cursor + 1 \in Threads
              \/ n.pc = after /\ n.cursor = 0 /\ m.cursor = kMaxThreads - 1
  <1>1. CASE m.cursor + 1 \in Threads
    BY <1>1, Zenon DEF NextThread, MainType
  <1>2. CASE m.cursor + 1 \notin Threads
    <2>1. m.cursor = kMaxThreads - 1 /\ 0 \in Threads
      BY <1>2, Sizes DEF MainType
    <2> QED
      BY <1>2, <2>1, Zenon DEF NextThread, MainType
  <1> QED
    BY <1>1, <1>2

\* The worker x with the call c.
WithCall(x, c) == [x EXCEPT !.done = FALSE, !.executing = TRUE, !.call = c, !.ready = TRUE]

\* AssignCall: a free worker gets the call, and is counted.
LEMMA EventsAssign ==
    ASSUME Events, AssignCall
    PROVE  /\ Events'
           /\ \/ Fail("bad thread state in schedule")
              \/ LET w == th[Target][blocked[Target]] IN
                 /\ ~w.ready /\ w.done /\ ~w.executing /\ w.pc = "idle"
                 /\ Updates(Target, blocked[Target], WithCall(w, main.call))
                 /\ UNCHANGED <<prog, coverage, blocked, pended, out, ran, hist>>
                 /\ main'.global_epoch = main.global_epoch /\ main'.ip = main.ip
                 /\ \/ main.from = "read" /\ main'.pc = "read"
                    \/ /\ main.from = "resume"
                       /\ \/ main'.pc = "resume" /\ main'.cursor = main.cursor + 1
                          \/ main'.pc = "prepare" /\ main.cursor = kMaxThreads - 1
  <1> DEFINE t == Target
             s == blocked[Target]
             w == th[t][s]
             x == WithCall(w, main.call)
             pair == <<t, s>>
             m == [main EXCEPT !.last_scheduled = pair, !.running = @ + 1]
  <1>0. main \in MainType /\ main.pc = "assign" /\ Types
    BY Zenon DEF Events, Types, AssignCall
  <1>1. main.pc \in Scheduling
    BY <1>0, Pcs
  <1>2. main.call \in Read /\ t \in Threads /\ s \in Slots /\ w \in Worker /\ Sound(w)
    BY <1>1, TargetType
  <1>3. CASE w.ready \/ ~w.done \/ w.executing
    <2>1. Fail("bad thread state in schedule")
      BY <1>3, Zenon DEF AssignCall, get_thread
    <2> QED
      BY <2>1, EventsFail, Zenon DEF Status
  <1>4. CASE ~(w.ready \/ ~w.done \/ w.executing)
    <2>1. /\ th' = [th EXCEPT ![t][s] = x]
          /\ main' = IF main.from = "read" THEN [m EXCEPT !.pc = "read"]
                                           ELSE NextThread(m, "resume", "prepare")
          /\ UNCHANGED <<prog, coverage, blocked, pended, out, ran, hist>>
      BY <1>4, Zenon DEF AssignCall, get_thread, WithCall
    <2>2. x \in Worker /\ x.executing /\ Sound(x)
      BY <1>2, <1>4, <1>0, Zenon DEF Worker, Sound, MainType, WithCall
    <2>3. m \in MainType /\ m.running = main.running + 1 /\ m.ip = main.ip
          /\ m.global_epoch = main.global_epoch /\ m.cursor = main.cursor
      <3>1. pair \in Scheduled
        BY <1>2, Zenon DEF Scheduled, Workers
      <3>2. main.running + 1 \in Nat
        BY <1>0 DEF MainType
      <3> HIDE DEF pair
      <3> QED
        BY <1>0, <3>1, <3>2, Zenon DEF MainType
    <2> HIDE DEF m, x, w, s, t
    <2>4. /\ main' \in MainType /\ main'.ip = main.ip /\ main'.running = main.running + 1
          /\ main'.global_epoch = main.global_epoch
          /\ \/ main.from = "read" /\ main'.pc = "read"
             \/ /\ main.from = "resume"
                /\ \/ main'.pc = "resume" /\ main'.cursor = main.cursor + 1
                   \/ main'.pc = "prepare" /\ main.cursor = kMaxThreads - 1
      <3>1. CASE main.from = "read"
        BY <2>1, <2>3, <3>1, Pcs, Zenon DEF MainType
      <3>2. CASE main.from # "read"
        <4>1. main.from = "resume" /\ main' = NextThread(m, "resume", "prepare")
          BY <1>0, <2>1, <3>2 DEF MainType
        <4>2. "resume" \in MainPc /\ "prepare" \in MainPc
          BY Pcs
        <4> QED
          BY <2>3, <4>1, <4>2, NextThreadType
      <3> QED
        BY <3>1, <3>2
    <2>5. Updates(t, s, x)
      BY <2>1, <2>2, <1>0, <1>2, Update, Zenon
    <2>6. Cardinality(Busy)' = Cardinality(Busy) + 1
      BY <2>2, <2>5, <1>0, <1>2, <1>4, BusyMore, Zenon DEF w, Events
    <2>7. Types'
      BY <2>1, <2>4, <2>5, Zenon DEF Events, Types, Updates
    <2>8. InHand(main)'
      BY <2>4, Pcs DEF InHand
    <2>9. s <= blocked'[t] /\ \A u \in Threads : blocked[u] <= blocked'[u]
      <3>1. \A u \in Threads : blocked[u] \in Nat
        BY Sizes DEF Events, Types
      <3> QED
        BY <2>1, <1>2, <3>1 DEF s, t
    <2>10. Events'
      BY <2>1, <2>2, <2>4, <2>5, <2>6, <2>7, <2>8, <2>9, <1>2, EventsUpdate, Zenon DEF Events
    <2>11. w.pc = "idle"
      BY <1>2, <1>4, Zenon DEF Sound
    <2> QED
      BY <2>1, <2>4, <2>5, <2>10, <2>11, <1>4, Zenon DEF x, w, s, t
  <1> QED
    BY <1>3, <1>4, Zenon

\* A loop over the threads goes to the next thread, or on to pc "after".
Advances(loop, after) ==
    /\ main'.global_epoch = main.global_epoch /\ main'.ip = main.ip
    /\ \/ main'.pc = loop /\ main'.cursor = main.cursor + 1
       \/ main'.pc = after /\ main'.cursor = 0 /\ main.cursor = kMaxThreads - 1

\* The for loops over threads[]: the next thread, or what follows the loop.
LEMMA AdvanceType ==
    ASSUME main \in MainType, NEW loop \in MainPc, NEW after \in MainPc,
           main' = NextThread(main, loop, after)
    PROVE  /\ main' \in MainType /\ main'.running = main.running /\ Advances(loop, after)
           /\ main'.pc \in {loop, after}
  <1> DEFINE n == NextThread(main, loop, after)
  <1>1. /\ n \in MainType /\ n.ip = main.ip /\ n.running = main.running
        /\ n.global_epoch = main.global_epoch
        /\ \/ n.pc = loop /\ n.cursor = main.cursor + 1
           \/ n.pc = after /\ n.cursor = 0 /\ main.cursor = kMaxThreads - 1
    BY NextThreadType, Zenon
  <1> HIDE DEF n
  <1>2. main' = n
    BY DEF n
  <1> QED
    BY <1>1, <1>2, Zenon DEF Advances

\* The first pended call of thread t that still waits, if it may run now.
Due(t) == {k \in 1 .. Len(pended[t]) : /\ pended[t][k].pending
                                       /\ \A j \in 1 .. k - 1 : ~pended[t][j].pending
                                       /\ run_in_epoch(pended[t][k].call)}

\* The pended call k of the thread at the cursor is taken in hand.
Resumes(k) ==
    /\ pended' = [pended EXCEPT ![main.cursor][k].pending = FALSE]
    /\ main' = [main EXCEPT !.pc = "schedule", !.from = "resume",
                            !.call = pended[main.cursor][k].call]
    /\ UNCHANGED <<prog, coverage, th, blocked, out, ran, hist>>

\* resume_pending_calls: the call that is taken in hand has been read.
LEMMA EventsResume ==
    ASSUME Events, resume_pending_calls
    PROVE  /\ Events' /\ main.cursor \in Threads
           /\ \/ Moves /\ Due(main.cursor) = {} /\ Advances("resume", "prepare")
              \/ \E k \in Due(main.cursor) : Resumes(k)
  <1> DEFINE t == main.cursor
  <1>0. main \in MainType /\ main.pc = "resume" /\ Types
    BY Zenon DEF Events, Types, resume_pending_calls
  <1>1. t \in Threads
    BY <1>0 DEF MainType
  <1>2. \/ Moves /\ Due(t) = {} /\ main' = NextThread(main, "resume", "prepare")
        \/ \E k \in Due(t) : Resumes(k)
    BY Zenon DEF resume_pending_calls, Moves, Due, Resumes
  <1>3. CASE Moves /\ Due(t) = {} /\ main' = NextThread(main, "resume", "prepare")
    <2>1. "resume" \in MainPc /\ "prepare" \in MainPc
      BY Pcs
    <2>2. main' \in MainType /\ main'.running = main.running /\ Advances("resume", "prepare")
          /\ main'.pc \in {"resume", "prepare"}
      BY <1>0, <1>3, <2>1, AdvanceType, Zenon
    <2>3. Types' /\ PendedRead'
      BY <1>3, <2>2 DEF Moves, Events, Types, PendedRead, Read, Advances
    <2> QED
      BY <1>1, <1>3, <2>2, <2>3, Pcs, EventsMain DEF Moves, InHand
  <1>4. ASSUME NEW k \in Due(t), Resumes(k) PROVE Events'
    <2>1. k \in 1 .. Len(pended[t])
      BY DEF Due
    <2>2. pended[t] \in Seq(PendedType) /\ pended[t][k] \in PendedType
      BY <1>0, <1>1, <2>1 DEF Types
    <2>3. pended[t][k].call \in Read /\ pended[t][k].call \in Nat
      BY <1>1, <2>1, <2>2 DEF Events, PendedRead, PendedType
    <2>4. main' \in MainType /\ main'.running = main.running /\ main'.ip = main.ip
          /\ main'.pc = "schedule" /\ main'.call = pended[t][k].call
      <3>1. "schedule" \in MainPc
        BY Pcs, Zenon
      <3> QED
        BY <1>0, <1>4, <2>3, <3>1, Zenon DEF Resumes, MainType
    <2>5. pended' \in [Threads -> Seq(PendedType)]
      <3>1. [pended[t][k] EXCEPT !.pending = FALSE] \in PendedType
        BY <2>2, Zenon DEF PendedType
      <3>2. [pended[t] EXCEPT ![k].pending = FALSE] \in Seq(PendedType)
        BY <2>1, <2>2, <3>1
      <3> QED
        BY <1>0, <1>1, <1>4, <3>2 DEF Resumes, Types
    <2>6. Types'
      BY <1>4, <2>4, <2>5, Zenon DEF Resumes, Events, Types
    <2>7. \A u \in Threads : \A j \in 1 .. Len(pended'[u]) :
             j \in 1 .. Len(pended[u]) /\ pended'[u][j].call = pended[u][j].call
      BY <1>0, <1>1, <1>4, <2>1, <2>2 DEF Resumes, Types, PendedType
    <2>8. PendedRead' /\ InHand(main)'
      <3>1. Read' = Read
        BY <1>4, <2>4 DEF Resumes, Read
      <3>2. PendedRead'
        BY <3>1, <2>7, Zenon DEF Events, PendedRead
      <3>3. InHand(main)'
        BY <3>1, <2>3, <2>4 DEF InHand
      <3> QED
        BY <3>2, <3>3
    <2> QED
      BY <1>4, <2>4, <2>6, <2>8, EventsMain, Zenon DEF Resumes
  <1> QED
    BY <1>1, <1>2, <1>3, <1>4 DEF Advances

\* prepare_schedule changes the main thread and what it has announced.
LEMMA EventsPrepare ==
    ASSUME Events, prepare_schedule
    PROVE  /\ Events'
           /\ \/ Fail("out of threads")
              \/ /\ \A t \in Threads : blocked[t] < kMaxFallbackThreads
                 /\ main' = [main EXCEPT !.pc = "signal", !.cursor = 0]
                 /\ hist'.gaveUp = hist.gaveUp /\ hist'.dropped = hist.dropped
                 /\ UNCHANGED <<prog, coverage, th, blocked, pended, out, ran>>
  <1> DEFINE announced == {t \in Threads : LET w == get_thread(t) IN
                            w.created /\ w.ready /\ CallOf(w.call).sched /\ run_in_epoch(w.call)}
             calls == {get_thread(t).call : t \in announced}
  <1>0. main \in MainType /\ main.pc = "prepare" /\ Types /\ hist \in HistType
    BY Zenon DEF Events, Types, prepare_schedule
  <1>1. CASE \E t \in Threads : blocked[t] >= kMaxFallbackThreads
    <2>1. Fail("out of threads")
      BY <1>1, Zenon DEF prepare_schedule
    <2> QED
      BY <2>1, EventsFail, Zenon DEF Status
  <1>2. CASE ~(\E t \in Threads : blocked[t] >= kMaxFallbackThreads)
    <2>1. /\ main' = [main EXCEPT !.pc = "signal", !.cursor = 0]
          /\ hist' = IF calls = {} THEN hist ELSE [hist EXCEPT !.prepared = Append(@, calls)]
          /\ UNCHANGED <<prog, coverage, th, blocked, pended, out, ran>>
      BY <1>2, Zenon DEF prepare_schedule
    <2>2. calls \in SUBSET Nat
      BY <1>0 DEF Types, Worker, get_thread
    <2> HIDE DEF calls
    <2>3. hist' \in HistType /\ hist'.gaveUp = hist.gaveUp /\ hist'.dropped = hist.dropped
      <3>1. Append(hist.prepared, calls) \in Seq(SUBSET Nat)
        BY <1>0, <2>2 DEF HistType
      <3> QED
        BY <1>0, <2>1, <3>1, Zenon DEF HistType
    <2>4. main' \in MainType /\ main'.running = main.running /\ main'.ip = main.ip
          /\ main'.pc = "signal"
      BY <1>0, <2>1, Pcs, Sizes, Zenon DEF MainType
    <2>5. Types' /\ PendedRead'
      BY <2>1, <2>3, <2>4, ZenonT(60) DEF Events, Types, PendedRead, Read
    <2>6. Events'
      BY <2>1, <2>4, <2>5, Pcs, EventsMain, Zenon DEF InHand
    <2>7. \A t \in Threads : blocked[t] \in Nat
      BY <1>0, Sizes DEF Types
    <2>8. \A t \in Threads : blocked[t] < kMaxFallbackThreads
      BY <1>2, <2>7, Sizes
    <2> QED
      BY <2>1, <2>3, <2>6, <2>8, Zenon
  <1> QED
    BY <1>1, <1>2, Zenon

\* SeeReady moves the main thread only.
LEMMA EventsSeeReady ==
    ASSUME Events, SeeReady
    PROVE  Events' /\ Moves /\ (GoesTo("notify") \/ Advances("signal", "wait"))
  <1>0. main \in MainType /\ main.pc = "signal" /\ Types
    BY DEF Events, Types, SeeReady
  <1>1. Moves /\ (GoesTo("notify") \/ main' = NextThread(main, "signal", "wait"))
    BY Zenon DEF SeeReady, Moves, GoesTo
  <1>2. "signal" \in MainPc /\ "wait" \in MainPc /\ "notify" \in MainPc
    BY Pcs
  <1>3. main' \in MainType /\ main'.running = main.running /\ main'.ip = main.ip
        /\ main'.pc \in {"signal", "wait", "notify"} /\ (GoesTo("notify") \/ Advances("signal", "wait"))
    <2>1. CASE GoesTo("notify")
      BY <1>0, <1>2, <2>1, GoesToType, Zenon
    <2>2. CASE main' = NextThread(main, "signal", "wait")
      <3>1. main' \in MainType /\ main'.running = main.running /\ Advances("signal", "wait")
            /\ main'.pc \in {"signal", "wait"}
        BY <1>0, <1>2, <2>2, AdvanceType, Zenon
      <3> QED
        BY <3>1 DEF Advances
    <2> QED
      BY <1>1, <2>1, <2>2, Zenon
  <1>4. Types' /\ PendedRead'
    BY <1>1, <1>3, Zenon DEF Moves, Events, Types, PendedRead, Read
  <1> QED
    BY <1>1, <1>3, <1>4, Pcs, EventsMain DEF Moves, InHand

\* NotifyWorker sets the start event of the worker at the cursor.
LEMMA EventsNotify ==
    ASSUME Events, NotifyWorker
    PROVE  /\ Events'
           /\ \/ Fail("bad thread state in start_epoch")
              \/ LET t == main.cursor
                     s == blocked[t]
                 IN  /\ t \in Threads /\ Advances("signal", "wait")
                     /\ Updates(t, s, [th[t][s] EXCEPT !.start = TRUE])
                     /\ hist'.gaveUp = hist.gaveUp /\ hist'.dropped = hist.dropped
                     /\ UNCHANGED <<prog, coverage, blocked, pended, out, ran>>
  <1> DEFINE t == main.cursor
             s == blocked[t]
             w == th[t][s]
             x == [w EXCEPT !.start = TRUE]
  <1>0. main \in MainType /\ main.pc = "notify" /\ Types /\ hist \in HistType
    BY Zenon DEF Events, Types, NotifyWorker
  <1>1. t \in Threads /\ s \in Slots /\ w \in Worker /\ Sound(w)
    BY <1>0 DEF MainType, Events, Types, SoundWorkers
  <1>2. CASE w.start \/ w.done \/ ~w.executing
    <2>1. Fail("bad thread state in start_epoch")
      BY <1>2, Zenon DEF NotifyWorker, get_thread
    <2> QED
      BY <2>1, EventsFail, Zenon DEF Status
  <1>3. CASE ~(w.start \/ w.done \/ ~w.executing)
    <2>1. /\ th' = [th EXCEPT ![t][s].start = TRUE]
          /\ hist' = [hist EXCEPT !.notified = @ \cup {w.call}]
          /\ main' = NextThread(main, "signal", "wait")
          /\ UNCHANGED <<prog, coverage, blocked, pended, out, ran>>
      BY <1>3, Zenon DEF NotifyWorker, get_thread
    <2>2. x \in Worker /\ Sound(x) /\ x.executing = w.executing
      BY <1>1, Zenon DEF Worker, Sound
    <2>3. th' = [th EXCEPT ![t][s] = x]
      BY <2>1, <1>0, <1>1, Zenon DEF Types
    <2> HIDE DEF x
    <2>4. Updates(t, s, x)
      BY <2>2, <2>3, <1>0, <1>1, Update, Zenon
    <2>5. hist' \in HistType /\ hist'.gaveUp = hist.gaveUp /\ hist'.dropped = hist.dropped
      BY <2>1, <1>0, <1>1, Zenon DEF HistType, Worker
    <2>6. "signal" \in MainPc /\ "wait" \in MainPc
      BY Pcs
    <2>7. main' \in MainType /\ main'.running = main.running /\ Advances("signal", "wait")
          /\ main'.pc \in {"signal", "wait"}
      BY <2>1, <2>6, <1>0, AdvanceType, Zenon
    <2>8. Types'
      BY <2>1, <2>4, <2>5, <2>7, Zenon DEF Events, Types, Updates
    <2>9. Busy' = Busy
      BY <2>2, <2>4, <1>0, <1>1, BusySame, Zenon
    <2>10. s <= blocked'[t] /\ \A u \in Threads : blocked[u] <= blocked'[u]
      <3>1. \A u \in Threads : blocked[u] \in Nat
        BY Sizes DEF Events, Types
      <3> QED
        BY <2>1, <1>1, <3>1
    <2>11. Events'
      <3> HIDE DEF w, s, t
      <3> QED
        BY <2>1, <2>2, <2>4, <2>7, <2>8, <2>9, <2>10, <1>1, Pcs, EventsUpdate, Zenon
        DEF Events, Advances, InHand
    <2> QED
      BY <2>1, <2>4, <2>5, <2>7, <2>11, <1>1, Zenon DEF x
  <1> QED
    BY <1>2, <1>3, Zenon

\* The last loop of start_epoch() goes to the next thread, or ends the epoch.
Awaited ==
    /\ main'.ip = main.ip
    /\ \/ /\ main'.pc = "wait" /\ main'.cursor = main.cursor + 1
          /\ main'.global_epoch = main.global_epoch
       \/ /\ main'.pc = "read" /\ main.cursor = kMaxThreads - 1
          /\ main'.global_epoch = main.global_epoch + 1

\* The end of one worker's turn in the epoch's wait loop: the next worker, or the next epoch.
LEMMA WaitedType ==
    ASSUME NEW m \in MainType
    PROVE  /\ Waited(m) \in MainType /\ Waited(m).ip = m.ip /\ Waited(m).running = m.running
           /\ \/ /\ Waited(m).pc = "wait" /\ Waited(m).cursor = m.cursor + 1
                 /\ Waited(m).global_epoch = m.global_epoch
              \/ /\ Waited(m).pc = "read" /\ m.cursor = kMaxThreads - 1
                 /\ Waited(m).global_epoch = m.global_epoch + 1
  <1> DEFINE n == NextThread(m, "wait", "read")
  <1>1. "wait" \in MainPc /\ "read" \in MainPc
    BY Pcs, Zenon
  <1>2. /\ n \in MainType /\ n.ip = m.ip /\ n.running = m.running
        /\ n.global_epoch = m.global_epoch
        /\ \/ n.pc = "wait" /\ n.cursor = m.cursor + 1
           \/ n.pc = "read" /\ n.cursor = 0 /\ m.cursor = kMaxThreads - 1
    BY <1>1, NextThreadType
  <1>3. Waited(m) = IF n.pc = "read" THEN [n EXCEPT !.global_epoch = @ + 1] ELSE n
    BY DEF Waited
  <1> HIDE DEF n
  <1>4. n.global_epoch + 1 \in Nat
    BY <1>2 DEF MainType
  <1>5. CASE n.pc = "read"
    BY <1>2, <1>3, <1>4, <1>5 DEF MainType
  <1>6. CASE n.pc # "read"
    BY <1>2, <1>3, <1>6, Zenon
  <1> QED
    BY <1>5, <1>6

\* The main thread stops waiting for the call of the worker at the cursor.
GivesUp ==
    LET w == th[main.cursor][blocked[main.cursor]] IN
    /\ w.executing
    /\ hist'.gaveUp = hist.gaveUp \cup {w.call} /\ hist'.dropped = hist.dropped
    /\ UNCHANGED <<prog, coverage, th, blocked, pended, out, ran>>

\* WaitWorker takes the result of the worker at the cursor, or gives up.
LEMMA EventsWait ==
    ASSUME Events, WaitWorker
    PROVE  /\ Events' /\ main.cursor \in Threads /\ blocked[main.cursor] \in Slots /\ Awaited
           /\ \/ Moves /\ ~th[main.cursor][blocked[main.cursor]].executing
              \/ Completes(main.cursor, blocked[main.cursor])
              \/ GivesUp
  <1> DEFINE t == main.cursor
             s == blocked[t]
             w == th[t][s]
             m == Waited(main)
  <1>0. main \in MainType /\ main.pc = "wait" /\ Types /\ hist \in HistType
    BY Zenon DEF Events, Types, WaitWorker
  <1>1. t \in Threads /\ s \in Slots /\ w \in Worker /\ Sound(w)
    BY <1>0 DEF MainType, Events, Types, SoundWorkers
  <1>2. /\ m \in MainType /\ m.ip = main.ip /\ m.running = main.running
        /\ \/ /\ m.pc = "wait" /\ m.cursor = main.cursor + 1
              /\ m.global_epoch = main.global_epoch
           \/ /\ m.pc = "read" /\ main.cursor = kMaxThreads - 1
              /\ m.global_epoch = main.global_epoch + 1
    BY <1>0, WaitedType, ZenonT(60)
  <1>3. InHand(m) /\ (w.executing => w.created)
    BY <1>1, <1>2, Pcs DEF InHand, Sound
  <1>4. \/ ~w.executing /\ main' = m /\ Moves
        \/ w.executing /\ w.done /\ handle_completion(<<t, s>>, m)
        \/ /\ w.executing /\ main' = m
           /\ hist' = [hist EXCEPT !.gaveUp = @ \cup {w.call}]
           /\ UNCHANGED <<prog, coverage, th, blocked, pended, out, ran>>
    BY <1>3, Zenon DEF WaitWorker, get_thread, Moves
  <1> HIDE DEF m
  <1>5. CASE ~w.executing /\ main' = m /\ Moves
    <2>1. Types'
      BY <1>0, <1>2, <1>5, ZenonT(60) DEF Moves, Types
    <2>2. PendedRead'
      BY <1>2, <1>5, ZenonT(60) DEF Moves, Events, PendedRead, Read
    <2>3. InHand(main)'
      BY <1>2, <1>5, Pcs, ZenonT(60) DEF InHand
    <2> QED
      BY <1>1, <1>2, <1>5, <2>1, <2>2, <2>3, EventsMain, Zenon DEF Moves, Awaited
  <1>6. CASE w.executing /\ w.done /\ handle_completion(<<t, s>>, m)
    <2>1. /\ Events'
          /\ out' = Append(out, Reply(<<t, s>>, TRUE))
          /\ main' = [m EXCEPT !.running = @ - 1]
          /\ Updates(t, s, [th[t][s] EXCEPT !.executing = FALSE])
          /\ UNCHANGED <<prog, coverage, blocked, pended, ran, hist>>
      BY <1>1, <1>2, <1>3, <1>6, EventsCompletion, Zenon
    <2>2. Awaited
      BY <1>2, <2>1, Zenon DEF Awaited, MainType
    <2>3. Completes(t, s)
      BY <1>6, <2>1 DEF Completes
    <2> QED
      BY <1>1, <2>1, <2>2, <2>3
  <1>7. CASE /\ w.executing /\ main' = m
             /\ hist' = [hist EXCEPT !.gaveUp = @ \cup {w.call}]
             /\ UNCHANGED <<prog, coverage, th, blocked, pended, out, ran>>
    <2>1. hist' \in HistType /\ hist'.gaveUp = hist.gaveUp \cup {w.call} /\ hist'.dropped = hist.dropped
      BY <1>0, <1>1, <1>7, Zenon DEF HistType, Worker
    <2>2. Types' /\ PendedRead' /\ InHand(main)'
      <3>1. Types'
        BY <1>2, <1>7, <2>1, Zenon DEF Events, Types
      <3>2. PendedRead'
        BY <1>2, <1>7 DEF Events, PendedRead, Read
      <3>3. InHand(main)'
        BY <1>2, <1>7, Pcs, Zenon DEF InHand
      <3> QED
        BY <3>1, <3>2, <3>3, Zenon
    <2>3. Events'
      BY <1>2, <1>7, <2>2, EventsMain, Zenon
    <2>4. GivesUp
      BY <1>7, <2>1 DEF GivesUp
    <2> QED
      BY <1>1, <1>2, <1>7, <2>3, <2>4, Zenon DEF Awaited
  <1> QED
    BY <1>4, <1>5, <1>6, <1>7, Zenon

\* CompleteLate takes the result of any worker.
LEMMA EventsLate ==
    ASSUME Events, NEW w \in Workers, CompleteLate(w)
    PROVE  /\ Events' /\ main.pc = "final" /\ main' = [main EXCEPT !.running = main.running - 1]
           /\ \E t \in Threads, s \in Slots : w = <<t, s>> /\ Completes(t, s)
  <1>1. PICK t \in Threads, s \in Slots : w = <<t, s>>
    BY DEF Workers
  <1>2. main \in MainType /\ main.pc = "final" /\ InHand(main)
    BY Zenon DEF CompleteLate, Events, Types
  <1>3. th[t][s].executing /\ th[t][s].done /\ handle_completion(<<t, s>>, main)
    BY <1>1 DEF CompleteLate, Finished
  <1>4. /\ Events'
        /\ out' = Append(out, Reply(<<t, s>>, TRUE))
        /\ main' = [main EXCEPT !.running = @ - 1]
        /\ Updates(t, s, [th[t][s] EXCEPT !.executing = FALSE])
        /\ UNCHANGED <<prog, coverage, blocked, pended, ran, hist>>
    BY <1>2, <1>3, EventsCompletion, Zenon
  <1>5. Completes(t, s)
    BY <1>3, <1>4, Zenon DEF Completes
  <1> QED
    BY <1>1, <1>2, <1>4, <1>5, Zenon

\* The workers whose replies are written at the end, and an order of them.
Left == {w \in Workers : w[2] < kMaxFallbackThreads /\ th[w[1]][w[2]].executing}

\* EndExecution writes one reply for each of them.
LEMMA EventsEnd ==
    ASSUME Events, EndExecution
    PROVE  /\ Events' /\ main.pc = "final" /\ GoesTo("exit")
           /\ UNCHANGED <<prog, coverage, th, blocked, pended, ran, hist>>
           /\ \/ out' = out /\ Busy = {}
              \/ \E order \in Bijection(1 .. Cardinality(Left), Left) :
                    /\ Cardinality(Left) \in Nat
                    /\ out' = out \o [k \in 1 .. Cardinality(Left) |-> Reply(order[k], FALSE)]
  <1> DEFINE n == Cardinality(Left)
             order == CHOOSE f \in Bijection(1 .. n, Left) : TRUE
             more == [k \in 1 .. n |-> Reply(order[k], FALSE)]
  <1>0. main \in MainType /\ main.pc = "final" /\ Types
    BY Zenon DEF Events, Types, EndExecution
  <1>1. n \in Nat /\ Bijection(1 .. n, Left) # {}
    <2>1. Left \in SUBSET Workers
      BY DEF Left
    <2> QED
      BY <2>1, Zenon DEF Events, Counting
  <1>2. order \in Bijection(1 .. n, Left)
    BY <1>1
  <1>3. /\ out' = out \o (IF main.running = 0 THEN <<>> ELSE more)
        /\ GoesTo("exit") /\ UNCHANGED <<prog, coverage, th, blocked, pended, ran, hist>>
    BY Zenon DEF EndExecution, Left, GoesTo
  <1>4. more \in Seq(ReplyType)
    <2>1. ASSUME NEW k \in 1 .. n PROVE Reply(order[k], FALSE) \in ReplyType
      <3>1. order[k] \in Left
        BY <1>2, Zenon DEF Bijection, Injection
      <3> HIDE DEF order
      <3>2. PICK t \in Threads, s \in Slots : order[k] = <<t, s>>
        BY <3>1 DEF Left, Workers
      <3>3. th[t][s].call \in Nat
        BY <1>0 DEF Types, Worker
      <3> QED
        BY <3>2, <3>3 DEF Reply, ReplyType
    <2>2. \A k \in 1 .. n : Reply(order[k], FALSE) \in ReplyType
      BY <2>1, Zenon
    <2> HIDE DEF order
    <2>3. more \in [1 .. n -> ReplyType]
      BY <2>2, Zenon
    <2> HIDE DEF more
    <2> QED
      BY <1>1, <2>3
  <1>5. out \in Seq(ReplyType)
    BY <1>0, Zenon DEF Types
  <1>6. out' \in Seq(ReplyType) /\ (main.running = 0 => out' = out)
    <2> HIDE DEF more
    <2>1. out \o more \in Seq(ReplyType) /\ out \o <<>> = out
      BY <1>4, <1>5
    <2> QED
      BY <1>3, <1>5, <2>1, Zenon
  <1>7. main' \in MainType /\ main'.pc = "exit" /\ main'.running = main.running /\ main'.ip = main.ip
    BY <1>0, <1>3, Pcs, GoesToType, ZenonT(60)
  <1>8. Types' /\ PendedRead' /\ InHand(main)'
    BY <1>3, <1>6, <1>7, Pcs DEF Events, Types, PendedRead, Read, InHand
  <1>9. Events'
    BY <1>3, <1>7, <1>8, EventsMain, Zenon
  <1>10. main.running = 0 => Busy = {}
    BY BusyCount DEF Events
  <1>11. CASE main.running = 0
    BY <1>0, <1>3, <1>6, <1>9, <1>10, <1>11, Zenon
  <1>12. CASE main.running # 0
    <2>1. out' = out \o more
      BY <1>3, <1>12, Zenon
    <2> HIDE DEF order
    <2> QED
      BY <1>0, <1>1, <1>2, <1>3, <1>9, <2>1, Zenon
  <1> QED
    BY <1>11, <1>12, Zenon

\* What a worker's step does: only its own record changes, and it stays as busy.
Works(t, s, x) ==
    /\ main.pc # "exit" /\ Updates(t, s, x)
    /\ x.executing = th[t][s].executing /\ x.call = th[t][s].call
    /\ UNCHANGED <<prog, coverage, main, blocked, pended, out, hist>>

\* A step of worker_thread(): the events and flags of every worker stay consistent.
LEMMA EventsWorks ==
    ASSUME Events, NEW t \in Threads, NEW s \in Slots, NEW x \in Worker, Works(t, s, x),
           Sound(x), th[t][s].created, ran' \in Seq(Nat)
    PROVE  Events'
  <1>1. Busy' = Busy /\ Types'
    <2>1. Types'
      BY Zenon DEF Works, Events, Types, Updates
    <2> QED
      BY <2>1, BusySame DEF Works, Events
  <1>2. InHand(main)' /\ main' = main
    BY Zenon DEF Works, Events, InHand, Read, CallOf
  <1>3. s <= blocked'[t] /\ \A u \in Threads : blocked[u] <= blocked'[u]
    <2>1. \A u \in Threads : blocked[u] \in Nat
      BY Sizes DEF Events, Types
    <2>2. ~(s > blocked[t]) /\ s \in Nat
      BY Sizes, ZenonT(60) DEF Events, UnusedAbove
    <2> QED
      BY <2>1, <2>2 DEF Works
  <1> QED
    BY <1>1, <1>2, <1>3, EventsUpdate, Zenon DEF Works, Events

\* wait_epoch, execute_call and FinishCall: a worker that runs is not done, so its
\* done event is not set twice.
LEMMA EventsWorker ==
    ASSUME Events, NEW w \in Workers, wait_epoch(w) \/ execute_call(w) \/ FinishCall(w)
    PROVE  /\ Events'
           /\ \E t \in Threads, s \in Slots, x \in Worker :
                /\ Works(t, s, x) /\ Sound(x) /\ th[t][s].executing
                /\ x.pc # "idle" => th[t][s].pc # "idle" \/ run_in_epoch(x.call)
                /\ \/ ran' = ran /\ (x.ready <=> th[t][s].ready)
                   \/ ran' = Append(ran, x.call) /\ th[t][s].ready /\ ~x.ready
  <1>1. PICK t \in Threads, s \in Slots : w = <<t, s>>
    BY DEF Workers
  <1> DEFINE y == th[t][s]
  <1>2. y \in Worker /\ Sound(y) /\ Types /\ ran \in Seq(Nat) /\ y.call \in Nat
    BY DEF Events, Types, SoundWorkers, Worker
  <1>3. main.pc # "exit" /\ y.created
    BY <1>1, Zenon DEF wait_epoch, execute_call, FinishCall, Alive
  <1>4. CASE wait_epoch(w)
    <2> DEFINE pc == IF run_in_epoch(y.call) THEN "started" ELSE "idle"
               x == [y EXCEPT !.start = FALSE, !.pc = pc]
    <2>1. /\ y.pc = "idle" /\ y.ready /\ th' = [th EXCEPT ![t][s] = x]
          /\ UNCHANGED <<prog, coverage, main, blocked, pended, out, ran, hist>>
      BY <1>1, <1>4, Zenon DEF wait_epoch
    <2>2. pc \in {"idle", "started"} /\ (pc # "idle" => run_in_epoch(y.call))
      OBVIOUS
    <2> HIDE DEF pc
    <2>3. x \in Worker /\ Sound(x) /\ x.executing = y.executing /\ x.call = y.call
          /\ x.ready = y.ready /\ x.pc = pc /\ y.executing
      BY <1>2, <2>1, <2>2, Zenon DEF Worker, Sound
    <2> HIDE DEF x
    <2>4. Works(t, s, x)
      BY <1>2, <1>3, <2>1, <2>3, Update, Zenon DEF Works
    <2>5. Events'
      BY <1>2, <1>3, <2>1, <2>3, <2>4, EventsWorks, Zenon
    <2> QED
      BY <2>1, <2>2, <2>3, <2>4, <2>5, Zenon
  <1>5. CASE execute_call(w)
    <2> DEFINE x == [y EXCEPT !.ready = FALSE, !.pc = "running"]
    <2>1. /\ y.pc = "started" /\ th' = [th EXCEPT ![t][s] = x] /\ ran' = Append(ran, y.call)
          /\ UNCHANGED <<prog, coverage, main, blocked, pended, out, hist>>
      BY <1>1, <1>5, Zenon DEF execute_call
    <2>3. x \in Worker /\ Sound(x) /\ x.executing = y.executing /\ x.call = y.call
          /\ ~x.ready /\ y.ready /\ y.executing
      BY <1>2, <2>1, Zenon DEF Worker, Sound
    <2> HIDE DEF x
    <2>4. Works(t, s, x)
      BY <1>2, <1>3, <2>1, <2>3, Update, Zenon DEF Works
    <2>5. ran' \in Seq(Nat)
      BY <1>2, <2>1
    <2>6. Events'
      BY <1>2, <1>3, <2>3, <2>4, <2>5, EventsWorks, Zenon
    <2> QED
      BY <2>1, <2>3, <2>4, <2>6
  <1>6. CASE FinishCall(w)
    <2> DEFINE x == [y EXCEPT !.done = TRUE, !.pc = "idle"]
    <2>0. y.pc = "running" /\ ~y.done
      BY <1>1, <1>2, <1>6, Zenon DEF FinishCall, Sound
    <2>1. /\ th' = [th EXCEPT ![t][s] = x]
          /\ UNCHANGED <<prog, coverage, main, blocked, pended, out, ran, hist>>
      BY <1>1, <1>6, <2>0, Zenon DEF FinishCall
    <2>3. x \in Worker /\ Sound(x) /\ x.executing = y.executing /\ x.call = y.call
          /\ x.ready = y.ready /\ x.pc = "idle" /\ y.executing
      BY <1>2, <1>3, <2>0, Zenon DEF Worker, Sound
    <2> HIDE DEF x
    <2>4. Works(t, s, x)
      BY <1>2, <1>3, <2>1, <2>3, Update, Zenon DEF Works
    <2>5. Events'
      BY <1>2, <1>3, <2>1, <2>3, <2>4, EventsWorks, Zenon
    <2> QED
      BY <2>1, <2>3, <2>4, <2>5, Zenon
  <1> QED
    BY <1>4, <1>5, <1>6

\* Every step keeps the invariant.
LEMMA EventsNext == Events /\ [Next]_vars => Events'
  <1> SUFFICES ASSUME Events, [Next]_vars PROVE Events'
    OBVIOUS
  <1>1. CASE UNCHANGED vars
    BY <1>1, ZenonT(60) DEF vars, Events, Types, SoundWorkers, UnusedAbove, PendedRead, InHand, Read, CallOf, Busy
  <1>2. CASE Main
    BY <1>2, EventsPendCall, EventsRead, EventsPickWorker, EventsUnhand, EventsAssign,
       EventsResume, EventsPrepare, EventsSeeReady, EventsNotify, EventsWait, EventsLate,
       EventsEnd, Zenon
    DEF Main
  <1>3. CASE \E w \in Workers : wait_epoch(w) \/ execute_call(w) \/ FinishCall(w)
    BY <1>3, EventsWorker
  <1> QED
    BY <1>1, <1>2, <1>3, Zenon DEF Next
=============================================================================
