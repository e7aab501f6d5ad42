----------------------------- MODULE SignalSync -----------------------------
(***************************************************************************)
(* How the fuzzers and the manager exchange feedback signal and inputs:    *)
(* the RPC server (syz-manager/rpc.go, manager.go) and its clients, one    *)
(* fuzzer per virtual machine (syz-fuzzer/fuzzer.go, proc.go).  A step is  *)
(* what is done under one mutex, or one RPC handler; the handlers hold     *)
(* serv.mu.  A machine may crash at any time, and its requests may be      *)
(* handled, or lost, after that.                                           *)
(***************************************************************************)
EXTENDS Signal

CONSTANTS VMs, Procs, Progs,
          SignalOf,         \* what executing a program covers
          Shrinks,          \* the programs that prog.Minimize() may make of one
          batchSize,        \* serv.batchSize
          initialBatch,     \* the batch of a fuzzer that starts, 50
          splitSize,        \* signal sent by one Poll, 2000
          dropShare,        \* the share of signal that rotation drops, 10
          NCandidates,      \* programs in the corpus on disk
          Budgets           \* bound: how many executions find new signal, how many
                            \* crashes there are, and which <<machine, process>> work

ASSUME SyncAssumption ==
    /\ Prios \subseteq 0 .. 127          \* prioType is an int8
    /\ SignalOf \in [Progs -> Signals \ {Nil}]
    /\ Shrinks \in [Progs -> (SUBSET Progs) \ {{}}]
    /\ batchSize \in Nat \ {0} /\ initialBatch \in Nat /\ splitSize \in Nat \ {0} /\ dropShare \in Nat \ {0}
    /\ NCandidates \in Nat
    /\ Budgets \subseteq [work : Nat, crashes : Nat, active : SUBSET (VMs \X Procs)]

VARIABLES maxSignal, corpusSignal,      \* of the RPCServer
          corpus, lastMin,              \* mgr.corpus, mgr.lastMinCorpus
          candidates, phase,            \* of the Manager
          fuzzers,                      \* serv.fuzzers
          vm,                           \* the fuzzer in each machine
          proc,                         \* its processes
          poll,                         \* its call of Poll
          work, crashes, active         \* what is left of the budget

mgr == <<maxSignal, corpusSignal, corpus, lastMin, candidates, phase>>
count == <<work, crashes, active>>
vars == <<mgr, fuzzers, vm, proc, poll, count>>

phaseLoadedCorpus == 1
phaseTriagedHub == 4

Inputs == [prog : Progs, sig : Signals]

\* A machine without a fuzzer.
Down == [st |-> "down", snapshot |-> <<>>, max |-> Nil, new |-> Nil, csig |-> Nil,
         triage |-> [p \in Progs |-> 0], need |-> TRUE]

Idle == [pc |-> "idle", prog |-> CHOOSE p \in Progs : TRUE, sig |-> Nil]

\* The main goroutine between two polls.
NoPoll == [pc |-> "idle", initial |-> FALSE, sig |-> Nil, need |-> FALSE,
           inputs |-> <<>>, ncand |-> 0]

\* A Fuzzer of the server; connected is FALSE for a name that is not in the map.
NoFuzzer == [connected |-> FALSE, rotated |-> FALSE, inputs |-> <<>>,
             newMaxSignal |-> Nil, rotatedSignal |-> Nil]

\* The corpus on disk has been loaded (loadCorpus(), called from the first Check).
Init ==
    /\ maxSignal = Nil /\ corpusSignal = Nil
    /\ corpus = {} /\ lastMin = 0
    /\ candidates = NCandidates /\ phase = phaseLoadedCorpus
    /\ fuzzers = [v \in VMs |-> NoFuzzer]
    /\ vm = [v \in VMs |-> Down]
    /\ proc = [v \in VMs |-> [p \in Procs |-> Idle]]
    /\ poll = [v \in VMs |-> NoPoll]
    /\ \E b \in Budgets : work = b.work /\ crashes = b.crashes /\ active = b.active

Up(v) == vm[v].st \in {"fetching", "running"}
Running(v) == vm[v].st = "running"

-----------------------------------------------------------------------------
(* Connect(): fuzzerConnect() holds mgr.mu, the rest serv.mu.               *)

\* What a loop over a map may see: its elements in any order.
Orders(S) == UNION {Bijection(1 .. n, S) : n \in 0 .. Cardinality(S)}

\* minimizeCorpus() and the copy of the corpus, in the order of a map iteration.
fuzzerConnect(v) ==
    /\ vm[v].st = "down" /\ ~fuzzers[v].connected
    /\ \E p \in Procs : <<v, p>> \in active
    /\ LET minimize == Cardinality(corpus) > (lastMin * 103) \div 100
       IN \E order \in Orders(corpus) :
            /\ corpus' = IF minimize THEN Minimize(order) ELSE corpus
            /\ lastMin' = IF minimize THEN Cardinality(corpus') ELSE lastMin
            /\ \E copy \in Orders(corpus') :
                  vm' = [vm EXCEPT ![v] = [Down EXCEPT !.st = "connecting", !.snapshot = copy]]
    /\ proc' = [proc EXCEPT ![v] = [p \in Procs |-> Idle]]
    /\ poll' = [poll EXCEPT ![v] = NoPoll]
    /\ UNCHANGED <<maxSignal, corpusSignal, candidates, phase, fuzzers, count>>

KeptInputs(inputs0, kept) == SelectSeq(inputs0, LAMBDA i : i \in kept)

\* The inputs and the signal that a rotated fuzzer is left with: kept is the set of
\* inputs whose calls are enabled and that the dice do not drop.
selectInputs(inputs0, kept, signal0) ==
    LET dropped == Range(inputs0) \ kept
        signal == Only(signal0, Elems \ UNION {Covers(i.sig) : i \in dropped})
        n == Cardinality(Covers(signal)) \div dropShare
    IN {[inputs |-> KeptInputs(inputs0, kept),
         signal |-> SplitRest(signal, E)] : E \in SplitChoices(signal, n)}

\* Mutant: selectInputs() without the copy, so that it deletes from serv.maxSignal.
rotateCorpus_shared(v) ==
    /\ phase = phaseTriagedHub
    /\ \E kept \in SUBSET Range(vm[v].snapshot) :
         \E s \in selectInputs(vm[v].snapshot, kept, maxSignal) :
            /\ fuzzers' = [fuzzers EXCEPT ![v] =
                             [connected |-> TRUE, rotated |-> TRUE, inputs |-> s.inputs,
                              newMaxSignal |-> s.signal,
                              rotatedSignal |-> Intersection(corpusSignal, s.signal)]]
            /\ maxSignal' = s.signal

rotateCorpus(v) ==
    /\ phase = phaseTriagedHub
    /\ \E kept \in SUBSET Range(vm[v].snapshot) :
         \E s \in selectInputs(vm[v].snapshot, kept, maxSignal) :
            fuzzers' = [fuzzers EXCEPT ![v] =
                          [connected |-> TRUE, rotated |-> TRUE, inputs |-> s.inputs,
                           newMaxSignal |-> s.signal,
                           rotatedSignal |-> Intersection(corpusSignal, s.signal)]]
    /\ UNCHANGED maxSignal

Register(v) ==
    /\ fuzzers' = [fuzzers EXCEPT ![v] =
                     [connected |-> TRUE, rotated |-> FALSE, inputs |-> vm[v].snapshot,
                      newMaxSignal |-> maxSignal, rotatedSignal |-> Nil]]
    /\ UNCHANGED maxSignal

Connect(v) ==
    /\ vm[v].st = "connecting"
    /\ rotateCorpus(v) \/ Register(v)
    /\ vm' = [vm EXCEPT ![v] = [@ EXCEPT !.st = "fetching", !.snapshot = <<>>]]
    /\ UNCHANGED <<corpusSignal, corpus, lastMin, candidates, phase, proc, poll, count>>

-----------------------------------------------------------------------------
(* Execution and triage, by the processes of a fuzzer.                      *)

Goto(v, p, pc, g, s) == proc' = [proc EXCEPT ![v][p] = [pc |-> pc, prog |-> g, sig |-> s]]

\* execute(), with the read lock held: DiffRaw() of checkNewCallSignal().
Execute(v, p) ==
    /\ Running(v) /\ proc[v][p].pc = "idle" /\ <<v, p>> \in active
    /\ work > 0 /\ work' = work - 1
    /\ \E g \in Progs :
         LET diff == Diff(vm[v].max, SignalOf[g])
         IN /\ diff # Nil
            /\ Goto(v, p, "merge", g, diff)
    /\ UNCHANGED <<mgr, fuzzers, vm, poll, crashes, active>>

\* Mutant: the new signal is not put aside for the next poll.
checkNewCallSignal_local(v, p) ==
    vm' = [vm EXCEPT ![v].max = Merge(@, proc[v][p].sig), ![v].triage[proc[v][p].prog] = @ + 1]

\* The read lock has been given up for the write lock.  enqueueCallTriage() follows.
checkNewCallSignal(v, p) ==
    LET x == proc[v][p]
        m == [vm[v] EXCEPT !.max = Merge(@, x.sig), !.new = Merge(@, x.sig), !.triage[x.prog] = @ + 1]
    IN vm' = [vm EXCEPT ![v] = m]

MergeNew(v, p) ==
    /\ Running(v) /\ proc[v][p].pc = "merge"
    /\ checkNewCallSignal(v, p)
    /\ proc' = [proc EXCEPT ![v][p] = Idle]
    /\ UNCHANGED <<mgr, fuzzers, poll, count>>

\* triageInput() up to the call of NewInput: nothing new for the corpus, flaky, or a
\* minimized program with the signal of the original one.
triageInput(v, p) ==
    /\ Running(v) /\ proc[v][p].pc = "idle" /\ <<v, p>> \in active
    /\ \E g \in Progs :
         /\ vm[v].triage[g] > 0
         /\ vm' = [vm EXCEPT ![v].triage[g] = @ - 1]
         /\ \/ UNCHANGED proc
            \/ /\ Diff(vm[v].csig, SignalOf[g]) # Nil
               /\ \E q \in Shrinks[g] : Goto(v, p, "send", q, SignalOf[g])
    /\ UNCHANGED <<mgr, fuzzers, poll, count>>

\* The input is added to the corpus, with the signal it had there already.
newInput(g, s) == {i \in corpus : i.prog # g} \cup {[prog |-> g, sig |-> s]}

\* The handler.  The call of a program may be saturated, the program is then refused.
NewInput(v, p) ==
    /\ proc[v][p].pc = "send"
    /\ LET g == proc[v][p].prog
           s == proc[v][p].sig
           f == fuzzers[v]
           genuine == Diff(corpusSignal, s) # Nil
           rotated == ~genuine /\ f.rotated /\ Diff(f.rotatedSignal, s) # Nil
           merged == MergeAll({s} \cup {i.sig : i \in {j \in corpus : j.prog = g}})
           others == IF genuine THEN {u \in VMs \ {v} : fuzzers[u].connected /\ ~fuzzers[u].rotated}
                                ELSE {}
       IN \/ UNCHANGED <<corpus, corpusSignal, fuzzers>>
          \/ /\ genuine \/ rotated
             /\ corpus' = newInput(g, merged)
             /\ corpusSignal' = IF genuine THEN Merge(corpusSignal, merged) ELSE corpusSignal
             /\ fuzzers' = [u \in VMs |->
                  CASE u \in others -> [fuzzers[u] EXCEPT !.inputs = Append(@, [prog |-> g, sig |-> s])]
                    [] u = v /\ f.rotated -> [f EXCEPT !.rotatedSignal = Merge(@, merged)]
                    [] OTHER -> fuzzers[u]]
    /\ proc' = [proc EXCEPT ![v][p] = IF Up(v) THEN [@ EXCEPT !.pc = "add"] ELSE Idle]
    /\ UNCHANGED <<maxSignal, lastMin, candidates, phase, vm, poll, count>>

\* Several inputs added one after the other to a fuzzer's corpus.
addInputToCorpus(f, inputs) ==
    LET sig == MergeAll({i.sig : i \in inputs})
    IN [f EXCEPT !.csig = Merge(@, sig), !.max = Merge(@, sig)]

AddInput(v, p) ==
    /\ Running(v) /\ proc[v][p].pc = "add"
    /\ vm' = [vm EXCEPT ![v] = addInputToCorpus(@, {[prog |-> proc[v][p].prog, sig |-> proc[v][p].sig]})]
    /\ proc' = [proc EXCEPT ![v][p] = Idle]
    /\ UNCHANGED <<mgr, fuzzers, poll, count>>

-----------------------------------------------------------------------------
(* Poll.                                                                    *)

\* grabNewSignal(), and the request.  The first poll of a fuzzer needs candidates, the
\* others until it has fetched the corpus do not, then it depends on its work queue.
\* When the corpus is triaged no candidates are left, and needing them or not is the
\* same to the server.
PollSend(v) ==
    /\ Up(v) /\ poll[v].pc = "idle"
    /\ \E need \in BOOLEAN :
         /\ IF phase = phaseTriagedHub THEN ~need
            ELSE vm[v].st = "fetching" => need = vm[v].need
         /\ poll' = [poll EXCEPT ![v] =
                      [NoPoll EXCEPT !.pc = "sent", !.initial = (vm[v].st = "fetching"),
                                     !.sig = vm[v].new, !.need = need]]
    /\ vm' = [vm EXCEPT ![v] = [@ EXCEPT !.new = Nil, !.need = FALSE]]
    /\ UNCHANGED <<mgr, fuzzers, proc, count>>

BatchOf(left) == Min({batchSize, left})

\* With no hub, the corpus is triaged when the last candidate is handed out.
candidateBatch(k) ==
    /\ candidates' = candidates - k
    /\ phase' = IF candidates' = 0 /\ phase = phaseLoadedCorpus THEN phaseTriagedHub ELSE phase

\* Mutant: new signal is also kept from the fuzzers that have signal waiting.
Broadcast_idle(v, new) ==
    [u \in VMs |-> IF /\ u # v /\ fuzzers[u].connected /\ ~fuzzers[u].rotated
                      /\ fuzzers[u].newMaxSignal = Nil
                   THEN [fuzzers[u] EXCEPT !.newMaxSignal = Merge(@, new)] ELSE fuzzers[u]]

\* The new signal is for every other fuzzer that is not rotated.
Broadcast(v, new) ==
    [u \in VMs |-> IF u # v /\ fuzzers[u].connected /\ ~fuzzers[u].rotated
                   THEN [fuzzers[u] EXCEPT !.newMaxSignal = Merge(@, new)] ELSE fuzzers[u]]

\* Inputs are taken from the end of f.inputs.
LastInputs(inputs, n) == SubSeq(inputs, Len(inputs) - n + 1, Len(inputs))

\* The request of a fuzzer that is no longer in the map is ignored.
PollUnknown(v) ==
    /\ ~fuzzers[v].connected
    /\ poll' = [poll EXCEPT ![v] = [NoPoll EXCEPT !.pc = "reply"]]
    /\ UNCHANGED <<mgr, fuzzers>>

PollRotated(v) ==
    /\ fuzzers[v].rotated
    /\ maxSignal' = Merge(maxSignal, poll[v].sig)
    /\ fuzzers' = Broadcast(v, Diff(maxSignal, poll[v].sig))
    /\ poll' = [poll EXCEPT ![v] = [NoPoll EXCEPT !.pc = "reply"]]
    /\ UNCHANGED <<corpusSignal, corpus, lastMin, candidates, phase>>

PollServed(v) ==
    LET f == fuzzers[v]
        k == IF poll[v].need THEN BatchOf(candidates) ELSE 0
        batch == IF poll[v].initial THEN Max({batchSize, initialBatch}) ELSE batchSize
        n == IF k = 0 THEN Min({batch, Len(f.inputs)}) ELSE 0
    IN /\ f.connected /\ ~f.rotated
       /\ maxSignal' = Merge(maxSignal, poll[v].sig)
       /\ \E E \in SplitChoices(f.newMaxSignal, splitSize) :
            /\ fuzzers' = [Broadcast(v, Diff(maxSignal, poll[v].sig)) EXCEPT
                             ![v].newMaxSignal = SplitRest(@, E),
                             ![v].inputs = SubSeq(@, 1, Len(@) - n)]
            /\ poll' = [poll EXCEPT ![v] =
                          [NoPoll EXCEPT !.pc = "reply", !.sig = Only(f.newMaxSignal, E),
                                         !.inputs = LastInputs(f.inputs, n), !.ncand = k]]
       /\ IF poll[v].need THEN candidateBatch(k) ELSE UNCHANGED <<candidates, phase>>
       /\ UNCHANGED <<corpusSignal, corpus, lastMin>>

\* The handler.
Poll(v) ==
    /\ poll[v].pc = "sent"
    /\ PollUnknown(v) \/ PollRotated(v) \/ PollServed(v)
    /\ UNCHANGED <<vm, proc, count>>

\* Mutant: the signal of the answer is not merged.
PollApplied_nomax(v, r) ==
    addInputToCorpus(vm[v], Range(r.inputs))

\* addMaxSignal() and addInputFromAnotherFuzzer() for each input.  Candidates become
\* work: Execute() may execute any program anyway.
PollApplied(v, r) ==
    [addInputToCorpus(vm[v], Range(r.inputs)) EXCEPT !.max = Merge(@, r.sig)]

\* The answer.  A fuzzer that starts polls until an answer brings nothing.
PollReply(v) ==
    /\ Up(v) /\ poll[v].pc = "reply"
    /\ LET r == poll[v]
           more == r.inputs # <<>> \/ r.ncand # 0 \/ r.sig # Nil
           m == [PollApplied(v, r) EXCEPT !.st = IF more THEN @ ELSE "running"]
       IN vm' = [vm EXCEPT ![v] = m]
    /\ poll' = [poll EXCEPT ![v] = NoPoll]
    /\ UNCHANGED <<mgr, fuzzers, proc, count>>

-----------------------------------------------------------------------------
(* Faults.                                                                  *)

\* The machine, or its fuzzer (log.Fatalf() in a call that fails), is gone; its
\* requests are not.
Crash(v) ==
    /\ Up(v)
    /\ crashes > 0 /\ crashes' = crashes - 1
    /\ vm' = [vm EXCEPT ![v] = Down]
    /\ proc' = [proc EXCEPT ![v] = [p \in Procs |-> IF @[p].pc = "send" THEN @[p] ELSE Idle]]
    /\ poll' = [poll EXCEPT ![v] = IF @.pc = "sent" THEN @ ELSE NoPoll]
    /\ UNCHANGED <<mgr, fuzzers, work, active>>

\* runInstance() notices; requests that have not been handled yet still may be.
shutdownInstance(v) ==
    /\ vm[v].st = "down" /\ fuzzers[v].connected
    /\ fuzzers' = [fuzzers EXCEPT ![v] = NoFuzzer]
    /\ UNCHANGED <<mgr, vm, proc, poll, count>>

\* What the main goroutine of a fuzzer, or the server for it, does next.
Sync(v) == Connect(v) \/ PollSend(v) \/ Poll(v) \/ PollReply(v)

Step(v) ==
    \/ fuzzerConnect(v) \/ Sync(v)
    \/ \E p \in Procs : \/ Execute(v, p) \/ MergeNew(v, p) \/ triageInput(v, p)
                        \/ NewInput(v, p) \/ AddInput(v, p)
    \/ Crash(v) \/ shutdownInstance(v)

Next == \E v \in VMs : Step(v)

Spec == Init /\ [][Next]_vars

\* The main loop of a fuzzer polls at least every 10 seconds and the server answers:
\* weak fairness of Sync(v), written out with what enables it and what it changes.
SyncEnabled(v) == vm[v].st # "down" \/ poll[v].pc = "sent"

Fairness ==
    \A v \in VMs :
        \/ []<>(~SyncEnabled(v))
        \/ []<><<poll'[v].pc # poll[v].pc \/ (vm[v].st = "connecting" /\ vm'[v].st = "fetching")>>_vars

FairSpec == Spec /\ Fairness

-----------------------------------------------------------------------------
(* Properties.                                                              *)

\* The signal in the answer of the server that the fuzzer has not looked at yet.
InReply(v) == IF poll[v].pc = "reply" THEN poll[v].sig ELSE Nil

\* A fuzzer that is not rotated knows all the signal that the server has, or what it
\* does not know is waiting in its newMaxSignal or in an answer: Connect() and Poll()
\* lose none, whoever reports it and whenever the fuzzer starts.
MaxSignalOnItsWay ==
    \A v \in VMs : Up(v) /\ ~fuzzers[v].rotated =>
        Within(maxSignal, MergeAll({vm[v].max, fuzzers[v].newMaxSignal, InReply(v)}))

\* What a fuzzer believes to be old, and so never reports again, the manager knows, or
\* will know from the signal that waits for the next poll or is in a request.
NothingUnreported ==
    \A v \in VMs : Up(v) =>
        Within(vm[v].max, MergeAll({vm[v].new, maxSignal, corpusSignal,
                                    IF poll[v].pc = "sent" THEN poll[v].sig ELSE Nil}))

\* The comment in rotateCorpus(), "at no point we drop anything globally and
\* permanently": no step takes anything away from the signal of the server, and none,
\* minimizeCorpus() included, from what the programs in the corpus cover together.
NothingDroppedGlobally ==
    [][/\ Within(maxSignal, maxSignal') /\ Within(corpusSignal, corpusSignal')
       /\ Within(MergeAll({i.sig : i \in corpus}), MergeAll({i.sig : i \in corpus'}))]_vars

\* What the server knows reaches every fuzzer that is not rotated and stays up, one
\* part of at most splitSize after the other: again and again it has caught up.
SignalSpreads ==
    \A v \in VMs : []<>(~Up(v) \/ fuzzers[v].rotated \/ Within(maxSignal, vm[v].max))

-----------------------------------------------------------------------------
(* What comments in the code say, and the code does not keep.               *)

\* newSignal is the "diff of maxSignal since last sync with master": nothing
\* in it is already in the request on its way.
NewSinceSync ==
    \A v \in VMs : poll[v].pc = "sent" =>
        \A e \in Covers(vm[v].new) : vm[v].new[e] > poll[v].sig[e]

\* "When the fuzzer starts, it pumps the whole corpus": once it works, what
\* the corpus covers is in its own corpus or on its way there.
PumpsWholeCorpus ==
    \A v \in VMs : Running(v) /\ ~fuzzers[v].rotated =>
        Within(corpusSignal,
               MergeAll({vm[v].csig}
                        \cup {i.sig : i \in Range(fuzzers[v].inputs) \cup Range(poll[v].inputs)}
                        \cup {proc[v][p].sig : p \in {q \in Procs : proc[v][q].pc = "add"}}))

\* The programs left in f.inputs of a rotated machine are the "corpus that
\* will be sent to the VM".
RotatedGetsCorpus ==
    \A v \in VMs : (Up(v) /\ fuzzers[v].rotated /\ fuzzers[v].inputs # <<>>)
                        ~> (~Up(v) \/ fuzzers[v].inputs = <<>>)
=============================================================================
