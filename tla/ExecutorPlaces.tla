--------------------------- MODULE ExecutorPlaces ---------------------------
(***************************************************************************)
(* Where the calls of a program are: every call that has been read is in    *)
(* the main thread's hand, pended, with one worker, replied to or given up, *)
(* in one of these places, and every step keeps that.                       *)
(***************************************************************************)
EXTENDS ExecutorLemmas

USE SMTT(30)

\* The calls that are pended; in the main thread's hand; with a worker, which has not
\* begun them; with a worker at all; begun; replied to.
Pending == {c \in Read : \E t \in Threads : \E k \in 1 .. Len(pended[t]) :
                            pended[t][k].pending /\ pended[t][k].call = c}
InFlight == {c \in Read : main.pc \in Scheduling /\ main.call = c}
Ready == {c \in Read : \E t \in Threads, s \in Slots : th[t][s].ready /\ th[t][s].call = c}
Executing == {c \in Read : \E t \in Threads, s \in Slots : th[t][s].executing /\ th[t][s].call = c}
Begun == {ran[i] : i \in 1 .. Len(ran)}
Replied == {out[i].call : i \in 1 .. Len(out)}

Assigned == Begun \cup Replied \cup Executing \cup hist.gaveUp

BusyOnce ==
    \A t, u \in Threads, s, v \in Slots :
        (th[t][s].executing /\ th[u][v].executing) =>
            /\ th[t][s].call \in Read
            /\ th[t][s].call = th[u][v].call => t = u /\ s = v
PendedOnce ==
    \A t, u \in Threads : \A j \in 1 .. Len(pended[t]), k \in 1 .. Len(pended[u]) :
        pended[t][j].call = pended[u][k].call => t = u /\ j = k

\* Every call that has been read is in one place.
Disjoint ==
    /\ Assigned \cap Pending = {}
    /\ Assigned \cap InFlight = {}
    /\ Assigned \cap hist.dropped = {}
    /\ Pending \cap InFlight = {}
    /\ Pending \cap hist.dropped = {}
    /\ InFlight \cap hist.dropped = {}
    /\ Ready \cap Begun = {}
    /\ main.pc # "exit" => Replied \cap Executing = {}
Complete ==
    /\ Assigned \cup hist.dropped \subseteq Read
    /\ main.pc # "exit" =>
          Read \subseteq Replied \cup Executing \cup Pending \cup InFlight \cup hist.dropped

Places == CallsOnce /\ BusyOnce /\ PendedOnce /\ Disjoint /\ Complete

-----------------------------------------------------------------------------
(* How the places change.                                                   *)

\* Nothing of note happens: the calls stay where they are, or the process ends.
Quiet ==
    /\ Begun' = Begun /\ Replied' = Replied /\ Executing' = Executing /\ Pending' = Pending
    /\ Ready' = Ready /\ hist'.gaveUp = hist.gaveUp /\ hist'.dropped = hist.dropped
    /\ Read' = Read
    /\ InFlight' = InFlight \/ (main'.pc = "exit" /\ InFlight' = {})
    /\ main.pc # "exit"
    /\ CallsOnce' = CallsOnce /\ (BusyOnce => BusyOnce') /\ PendedOnce' = PendedOnce

\* A step that moves no call from one place to another loses none and duplicates none.
LEMMA PlacesQuiet == ASSUME Places, Quiet PROVE Places'
  <1>1. Assigned' = Assigned
    BY DEF Quiet, Assigned
  <1>2. CASE InFlight' = InFlight
    BY <1>1, <1>2 DEF Places, Quiet, Disjoint, Complete
  <1>3. CASE main'.pc = "exit" /\ InFlight' = {}
    BY <1>1, <1>3 DEF Places, Quiet, Disjoint, Complete
  <1> QED
    BY <1>2, <1>3 DEF Quiet

\* The workers keep their calls.
SameWorkers ==
    \A t \in Threads, s \in Slots :
        /\ th'[t][s].executing = th[t][s].executing
        /\ th'[t][s].ready = th[t][s].ready
        /\ th[t][s].executing => th'[t][s].call = th[t][s].call

\* When every worker keeps what it executes, the calls being executed are the same.
LEMMA SameWorkersPlaces ==
    ASSUME Events, Read' = Read, SameWorkers
    PROVE  Executing' = Executing /\ Ready' = Ready /\ (BusyOnce => BusyOnce')
  <1>1. \A t \in Threads, s \in Slots : th[t][s].ready => th[t][s].executing
    BY DEF Events, SoundWorkers, Sound
  <1>2. Executing' = Executing
    BY DEF SameWorkers, Executing
  <1>3. Ready' = Ready
    BY <1>1 DEF SameWorkers, Ready
  <1>4. BusyOnce => BusyOnce'
    BY DEF SameWorkers, BusyOnce
  <1> QED
    BY <1>2, <1>3, <1>4

\* The main thread moves, inside schedule_call() or outside it, and no call moves with it.
LEMMA QuietStep ==
    ASSUME Events, main.pc # "exit", Read' = Read, SameWorkers, UNCHANGED <<prog, pended, out, ran>>,
           hist'.gaveUp = hist.gaveUp, hist'.dropped = hist.dropped,
           \/ main'.pc = "exit"
           \/ main'.pc \in Scheduling /\ main.pc \in Scheduling /\ main'.call = main.call
           \/ main'.pc \notin Scheduling /\ main.pc \notin Scheduling
    PROVE  Quiet
  <1>1. Executing' = Executing /\ Ready' = Ready /\ (BusyOnce => BusyOnce')
    BY SameWorkersPlaces
  <1>2. Pending' = Pending
    BY DEF Pending
  <1>3. Begun' = Begun /\ Replied' = Replied /\ CallsOnce' = CallsOnce /\ PendedOnce' = PendedOnce
    BY DEF Begun, Replied, CallsOnce, PendedOnce
  <1>4. InFlight' = InFlight \/ (main'.pc = "exit" /\ InFlight' = {})
    BY Pcs DEF InFlight
  <1> QED
    BY <1>1, <1>2, <1>3, <1>4 DEF Quiet

\* Nothing is read from the program while the instruction pointer stays where it is.
LEMMA ReadSame ==
    ASSUME prog' = prog, main'.ip = main.ip
    PROVE  Read' = Read
  BY DEF Read

\* A worker that changes but keeps what it executes.
LEMMA UpdateSame ==
    ASSUME NEW t \in Threads, NEW s \in Slots, NEW x, Updates(t, s, x),
           x.executing = th[t][s].executing, x.ready = th[t][s].ready,
           th[t][s].executing => x.call = th[t][s].call
    PROVE  SameWorkers
  BY DEF Updates, SameWorkers

\* fail() ends the process: it moves no call.
LEMMA FailQuiet == ASSUME Events, main.pc # "exit", NEW why, Fail(why) PROVE Quiet
  <1>1. main'.ip = main.ip /\ main'.pc = "exit" /\ UNCHANGED <<prog, th, pended, out, ran, hist>>
    BY DEF Fail, Events, Types, MainType
  <1> QED
    BY <1>1, ReadSame, QuietStep DEF SameWorkers

\* A step of the main thread that only moves on moves no call.
LEMMA MovesQuiet ==
    ASSUME Events, Moves, main.pc # "exit", main'.ip = main.ip,
           \/ main'.pc \in Scheduling /\ main.pc \in Scheduling /\ main'.call = main.call
           \/ main'.pc \notin Scheduling /\ main.pc \notin Scheduling
    PROVE  Quiet
  BY ReadSame, QuietStep DEF Moves, SameWorkers

\* thread_create() fills a slot with an idle worker: it moves no call.
LEMMA CreatesQuiet ==
    ASSUME Events, NEW t \in Threads, Creates(t), blocked'[t] \in Slots, main'.ip = main.ip,
           main.pc \in Scheduling, main'.pc \in Scheduling, main'.call = main.call
    PROVE  Quiet /\ SameWorkers
  <1>1. ~th[t][blocked'[t]].executing /\ ~th[t][blocked'[t]].ready
    BY DEF Creates, Events, SoundWorkers, Sound
  <1>2. th[t][blocked'[t]] \in Worker
    BY DEF Events, Types
  <1>3. SameWorkers
    BY <1>1, <1>2, CreatedWorker, UpdateSame DEF Creates, Worker
  <1> QED
    BY <1>3, Pcs, ReadSame, QuietStep, Zenon DEF Creates

\* The result of a worker is taken: its call has been executing and is replied to.
Taken(c) ==
    /\ c \in Executing /\ Replied' = Replied \cup {c} /\ Executing' = Executing \ {c}
    /\ Begun' = Begun /\ Pending' = Pending /\ Ready' = Ready
    /\ hist' = hist /\ Read' = Read /\ InFlight' = InFlight
    /\ main.pc # "exit" /\ main'.pc # "exit"
    /\ c \notin Replied => (CallsOnce => CallsOnce')
    /\ BusyOnce => BusyOnce'
    /\ PendedOnce' = PendedOnce

\* A call that is taken from its worker and written to the reply is still in one place.
LEMMA PlacesTaken == ASSUME Places, NEW c, Taken(c) PROVE Places'
  <1>1. c \notin Replied /\ Assigned' = Assigned
    BY DEF Places, Disjoint, Taken, Assigned
  <1>2. Disjoint'
    BY <1>1 DEF Places, Taken, Disjoint
  <1>3. Complete'
    BY <1>1 DEF Places, Taken, Complete
  <1> QED
    BY <1>1, <1>2, <1>3 DEF Places, Taken

\* A sequence of calls stays without repetitions when a new one is added.
LEMMA AppendOnce ==
    ASSUME NEW S, NEW q \in Seq(S), NEW e \in S
    PROVE  /\ Len(Append(q, e)) = Len(q) + 1 /\ Append(q, e)[Len(q) + 1] = e
           /\ \A i \in 1 .. Len(q) : Append(q, e)[i] = q[i]
           /\ 1 .. Len(q) + 1 = (1 .. Len(q)) \cup {Len(q) + 1} /\ Len(q) \in Nat
  OBVIOUS

\* handle_completion() takes the call from its worker and writes it to the reply.
LEMMA CompletesTaken ==
    ASSUME Events, BusyOnce, NEW t \in Threads, NEW s \in Slots, Completes(t, s),
           main.pc # "exit", main'.pc # "exit", main'.ip = main.ip,
           \/ main'.pc \in Scheduling /\ main.pc \in Scheduling /\ main'.call = main.call
           \/ main'.pc \notin Scheduling /\ main.pc \notin Scheduling
    PROVE  Taken(th[t][s].call)
  <1> DEFINE c == th[t][s].call
             x == [th[t][s] EXCEPT !.executing = FALSE]
             r == Reply(<<t, s>>, TRUE)
  <1>1. th[t][s] \in Worker /\ Sound(th[t][s]) /\ out \in Seq(ReplyType)
    BY DEF Events, Types, SoundWorkers
  <1>2. ~x.executing /\ x.ready = th[t][s].ready /\ ~x.ready /\ x.call = c
    BY <1>1 DEF Worker, Sound, Completes
  <1>3. Read' = Read /\ InFlight' = InFlight /\ c \in Read
    BY ReadSame DEF Completes, InFlight, BusyOnce
  <1>4. r.call = c /\ r \in ReplyType
    BY <1>1 DEF Reply, ReplyType, Worker
  <1> HIDE DEF x, c, r
  <1>5. Updates(t, s, x) /\ out' = Append(out, r) /\ th[t][s].executing /\ th[t][s].call = c
    BY DEF Completes, x, r, c
  <1>6. c \in Executing
    BY <1>3, <1>5 DEF Executing
  <1>7. Executing' = Executing \ {c}
    <2>1. ASSUME NEW d \in Executing' PROVE d \in Executing \ {c}
      <3>1. PICK u \in Threads, v \in Slots : th'[u][v].executing /\ th'[u][v].call = d
        BY DEF Executing
      <3>2. (u # t \/ v # s) /\ th'[u][v] = th[u][v]
        BY <1>2, <1>5, <3>1 DEF Updates
      <3> QED
        BY <1>3, <1>5, <3>1, <3>2 DEF BusyOnce, Executing
    <2>2. ASSUME NEW d \in Executing \ {c} PROVE d \in Executing'
      <3>1. PICK u \in Threads, v \in Slots : th[u][v].executing /\ th[u][v].call = d
        BY DEF Executing
      <3>2. th'[u][v] = th[u][v]
        BY <1>5, <3>1 DEF Updates
      <3> QED
        BY <1>3, <3>1, <3>2 DEF Executing
    <2> QED
      BY <2>1, <2>2, Zenon
  <1>8. Ready' = Ready
    <2>1. \A u \in Threads, v \in Slots : th'[u][v].ready = th[u][v].ready
                                          /\ th'[u][v].call = th[u][v].call
      BY <1>2, <1>5 DEF Updates
    <2> QED
      BY <1>3, <2>1 DEF Ready
  <1>9. BusyOnce'
    <2>1. \A u \in Threads, v \in Slots : th'[u][v].executing => th'[u][v] = th[u][v]
      BY <1>2, <1>5 DEF Updates
    <2> QED
      BY <1>3, <2>1 DEF BusyOnce
  <1>10. /\ Len(out') = Len(out) + 1 /\ out'[Len(out) + 1] = r /\ Len(out) \in Nat
         /\ \A i \in 1 .. Len(out) : out'[i] = out[i]
         /\ 1 .. Len(out') = (1 .. Len(out)) \cup {Len(out) + 1}
    BY <1>1, <1>4, <1>5, AppendOnce
  <1>11. Replied' = Replied \cup {c}
    BY <1>4, <1>10 DEF Replied
  <1>12. c \notin Replied => (CallsOnce => CallsOnce')
    <2> SUFFICES ASSUME c \notin Replied, CallsOnce PROVE CallsOnce'
      OBVIOUS
    <2>1. ran' = ran
      BY DEF Completes
    <2>2. ASSUME NEW i \in 1 .. Len(out'), NEW j \in 1 .. Len(out'), out'[i].call = out'[j].call
          PROVE  i = j
      <3>1. \A k \in 1 .. Len(out) : out'[k].call # c
        BY <1>10 DEF Replied
      <3>2. CASE i \in 1 .. Len(out) /\ j \in 1 .. Len(out)
        BY <1>10, <2>2, <3>2 DEF CallsOnce
      <3>3. CASE i = Len(out) + 1 \/ j = Len(out) + 1
        BY <1>4, <1>10, <2>2, <3>1, <3>3, Zenon
      <3> QED
        BY <1>10, <3>2, <3>3, Zenon
    <2> QED
      BY <2>1, <2>2 DEF CallsOnce
  <1>13. Begun' = Begun /\ Pending' = Pending /\ PendedOnce' = PendedOnce
    BY <1>3 DEF Completes, Begun, Pending, PendedOnce
  <1>14. Taken(c)
    BY <1>3, <1>6, <1>7, <1>8, <1>9, <1>11, <1>12, <1>13, Zenon DEF Taken, Completes
  <1> QED
    BY <1>14 DEF c

\* A call that the main thread reads has not been read before.
LEMMA ReadOne ==
    ASSUME Types, main.ip \in 1 .. Len(prog), prog[main.ip].op = "call",
           prog' = prog, main'.ip = main.ip + 1
    PROVE  prog[main.ip].call \notin Read /\ Read' = Read \cup {prog[main.ip].call}
  <1>1. \A j, k \in 1 .. Len(prog) :
          (prog[j].op = "call" /\ prog[k].op = "call" /\ prog[j].call = prog[k].call) => j = k
    BY ProgramsAssumption, Zenon DEF Types
  <1>2. prog[main.ip].call \notin Read
    BY <1>1 DEF Read
  <1>3. Read' = Read \cup {prog[main.ip].call}
    BY DEF Read
  <1> QED
    BY <1>2, <1>3

\* The workers stay the same while a call is read.
LEMMA ReadKeepsWorkers ==
    ASSUME Events, BusyOnce, th' = th, Read \subseteq Read'
    PROVE  Executing' = Executing /\ Ready' = Ready /\ BusyOnce'
  <1>1. \A t \in Threads, s \in Slots : th[t][s].ready => th[t][s].executing
    BY DEF Events, SoundWorkers, Sound
  <1> QED
    BY <1>1 DEF Executing, Ready, BusyOnce

\* PendCall: a new call is pended or dropped.
LEMMA PlacesPendCall ==
    ASSUME Events, Places, PendCall
    PROVE  LET c == prog[main.ip].call IN
           /\ Places' /\ c \notin Read /\ Read' = Read \cup {c} /\ Replied' = Replied
           /\ InFlight = {} /\ InFlight' = {} /\ hist'.gaveUp = hist.gaveUp
           /\ \/ Pending' = Pending \cup {c} /\ hist'.dropped = hist.dropped
              \/ Pending' = Pending /\ hist'.dropped = hist.dropped \cup {c}
  <1> DEFINE i == prog[main.ip]
             c == i.call
             t == i.thread
  <1>0. main \in MainType /\ Types /\ hist \in HistType /\ pended \in [Threads -> Seq(PendedType)]
    BY Zenon DEF Events, Types
  <1>1. main.ip \in 1 .. Len(prog) /\ i.op = "call" /\ main.pc = "read"
    BY <1>0, ProgramType DEF PendCall, AtCall, Types, MainType
  <1>2. t \in Threads /\ c \in Nat
    BY <1>0, <1>1, CallFound, Zenon DEF Types
  <1>3. main' = [main EXCEPT !.ip = @ + 1] /\ UNCHANGED <<prog, coverage, th, blocked, out, ran>>
    BY DEF PendCall
  <1>4. main'.ip = main.ip + 1 /\ main'.pc = "read"
    BY <1>0, <1>1, <1>3 DEF MainType
  <1>5. c \notin Read /\ Read' = Read \cup {c}
    BY <1>0, <1>1, <1>3, <1>4, ReadOne, Zenon
  <1>6. InFlight = {} /\ InFlight' = {}
    BY <1>1, <1>4, Pcs DEF InFlight
  <1>7. Executing' = Executing /\ Ready' = Ready /\ BusyOnce'
    BY <1>3, <1>5, ReadKeepsWorkers DEF Places
  <1>8. Begun' = Begun /\ Replied' = Replied /\ CallsOnce'
    BY <1>3 DEF Begun, Replied, CallsOnce, Places
  <1>9. \/ UNCHANGED pended /\ hist' = [hist EXCEPT !.dropped = @ \cup {c}]
        \/ /\ pended' = [pended EXCEPT ![t] = Append(@, [call |-> c, pending |-> TRUE])]
           /\ UNCHANGED hist
    BY Zenon DEF PendCall
  <1> HIDE DEF i, c, t
  <1>10. CASE UNCHANGED pended /\ hist' = [hist EXCEPT !.dropped = @ \cup {c}]
    <2>1. hist'.gaveUp = hist.gaveUp /\ hist'.dropped = hist.dropped \cup {c}
      BY <1>0, <1>10 DEF HistType
    <2>2. Pending' = Pending /\ PendedOnce'
      BY <1>5, <1>10 DEF Pending, PendedOnce, Places, Events, PendedRead
    <2>3. Assigned' = Assigned /\ Assigned \subseteq Read /\ Pending \subseteq Read
      BY <1>7, <1>8, <2>1, Zenon DEF Assigned, Pending, Places, Complete
    <2>4. Disjoint'
      BY <1>4, <1>1, <1>5, <1>6, <1>7, <1>8, <2>1, <2>2, <2>3, Zenon DEF Places, Disjoint
    <2>5. Complete'
      BY <1>1, <1>4, <1>5, <1>6, <1>7, <1>8, <2>1, <2>2, <2>3, Zenon DEF Places, Complete
    <2> QED
      BY <1>5, <1>6, <1>7, <1>8, <2>1, <2>2, <2>4, <2>5, Zenon DEF Places, c, i
  <1>11. CASE /\ pended' = [pended EXCEPT ![t] = Append(@, [call |-> c, pending |-> TRUE])]
              /\ UNCHANGED hist
    <2> DEFINE e == [call |-> c, pending |-> TRUE]
               n == Len(pended[t]) + 1
    <2>1. e.call = c /\ e.pending /\ e \in PendedType
      BY <1>2 DEF PendedType
    <2> HIDE DEF e
    <2>2. pended'[t] = Append(pended[t], e) /\ \A u \in Threads : u # t => pended'[u] = pended[u]
      BY <1>0, <1>2, <1>11, Zenon DEF e
    <2>3. /\ Len(pended'[t]) = n /\ pended'[t][n] = e /\ Len(pended[t]) \in Nat
          /\ \A k \in 1 .. Len(pended[t]) : pended'[t][k] = pended[t][k]
          /\ 1 .. n = (1 .. Len(pended[t])) \cup {n}
      BY <1>0, <1>2, <2>1, <2>2, AppendOnce
    <2> HIDE DEF n
    <2>4. \A u \in Threads : \A k \in 1 .. Len(pended[u]) : pended[u][k].call \in Read
      BY DEF Events, PendedRead
    <2>5. Pending' = Pending \cup {c}
      <3>1. c \in Pending'
        BY <1>2, <1>5, <2>1, <2>3, Zenon DEF Pending
      <3>2. Pending \subseteq Pending'
        <4>1. \A u \in Threads : \A k \in 1 .. Len(pended[u]) :
                k \in 1 .. Len(pended'[u]) /\ pended'[u][k] = pended[u][k]
          BY <1>5, <2>2, <2>3
        <4> QED
          BY <1>5, <4>1 DEF Pending
      <3>3. Pending' \subseteq Pending \cup {c}
        <4> SUFFICES ASSUME NEW d \in Pending', d # c PROVE d \in Pending
          OBVIOUS
        <4>1. PICK u \in Threads : \E k \in 1 .. Len(pended'[u]) :
                                     pended'[u][k].pending /\ pended'[u][k].call = d
          BY DEF Pending
        <4>2. PICK k \in 1 .. Len(pended'[u]) : pended'[u][k].pending /\ pended'[u][k].call = d
          BY <4>1
        <4>3. k \in 1 .. Len(pended[u]) /\ pended'[u][k] = pended[u][k]
          BY <2>1, <2>2, <2>3, <4>2, Zenon
        <4> QED
          BY <2>4, <4>2, <4>3 DEF Pending
      <3> QED
        BY <3>1, <3>2, <3>3
    <2>6. PendedOnce'
      <3>1. ASSUME NEW u \in Threads, NEW v \in Threads, NEW j \in 1 .. Len(pended'[u]),
                   NEW k \in 1 .. Len(pended'[v]), pended'[u][j].call = pended'[v][k].call
            PROVE  u = v /\ j = k
        <4>1. CASE (u # t \/ j # n) /\ (v # t \/ k # n)
          <5>1. j \in 1 .. Len(pended[u]) /\ pended'[u][j] = pended[u][j]
            BY <2>2, <2>3, <4>1, Zenon
          <5>2. k \in 1 .. Len(pended[v]) /\ pended'[v][k] = pended[v][k]
            BY <2>2, <2>3, <4>1, Zenon
          <5> QED
            BY <3>1, <5>1, <5>2 DEF Places, PendedOnce
        <4>2. CASE u = t /\ j = n
          <5>1. pended'[v][k].call = c
            BY <2>1, <2>3, <3>1, <4>2, Zenon
          <5> QED
            BY <1>5, <2>2, <2>3, <2>4, <4>2, <5>1, Zenon
        <4>3. CASE v = t /\ k = n
          <5>1. pended'[u][j].call = c
            BY <2>1, <2>3, <3>1, <4>3, Zenon
          <5> QED
            BY <1>5, <2>2, <2>3, <2>4, <4>3, <5>1, Zenon
        <4> QED
          BY <4>1, <4>2, <4>3, Zenon
      <3> QED
        BY <3>1 DEF PendedOnce
    <2>7. Disjoint' /\ Complete'
      BY <1>1, <1>4, <1>5, <1>6, <1>7, <1>8, <1>11, <2>5 DEF Places, Disjoint, Complete, Assigned
    <2> QED
      BY <1>5, <1>6, <1>7, <1>8, <1>11, <2>5, <2>6, <2>7, Zenon DEF Places, c, i
  <1> QED
    BY <1>9, <1>10, <1>11

\* ReadCall: a new call is taken in hand.
LEMMA PlacesReadCall ==
    ASSUME Events, Places, ReadCall
    PROVE  LET c == prog[main.ip].call IN
           /\ Places' /\ c \notin Read /\ Read' = Read \cup {c} /\ Replied' = Replied
           /\ InFlight = {} /\ InFlight' = {c} /\ Pending' = Pending
  <1> DEFINE c == prog[main.ip].call
  <1>0. main \in MainType /\ Types
    BY DEF Events, Types
  <1>1. main.ip \in 1 .. Len(prog) /\ prog[main.ip].op = "call" /\ main.pc = "read"
    BY <1>0, ProgramType DEF ReadCall, AtCall, Types, MainType
  <1>2. /\ main' = [main EXCEPT !.ip = @ + 1, !.pc = "schedule", !.from = "read", !.call = c]
        /\ UNCHANGED <<prog, coverage, th, blocked, pended, out, ran, hist>>
    BY DEF ReadCall
  <1>3. main'.ip = main.ip + 1 /\ main'.pc = "schedule" /\ main'.call = c
    BY <1>0, <1>2 DEF MainType
  <1>4. c \notin Read /\ Read' = Read \cup {c}
    BY <1>0, <1>1, <1>2, <1>3, ReadOne, Zenon
  <1> HIDE DEF c
  <1>5. InFlight = {} /\ InFlight' = {c}
    BY <1>1, <1>3, <1>4, Pcs DEF InFlight
  <1>6. Executing' = Executing /\ Ready' = Ready /\ BusyOnce'
    BY <1>2, <1>4, ReadKeepsWorkers DEF Places
  <1>7. Begun' = Begun /\ Replied' = Replied /\ CallsOnce' /\ PendedOnce'
    BY <1>2 DEF Begun, Replied, CallsOnce, PendedOnce, Places
  <1>8. Pending' = Pending
    BY <1>2, <1>4, Zenon DEF Pending, Events, PendedRead
  <1>9. Disjoint' /\ Complete'
    BY <1>1, <1>2, <1>3, <1>4, <1>5, <1>6, <1>7, <1>8 DEF Places, Disjoint, Complete, Assigned, Pending
  <1> QED
    BY <1>4, <1>5, <1>6, <1>7, <1>8, <1>9, Zenon DEF Places, c

\* AssignCall: the call in hand goes to a worker.
LEMMA PlacesAssign ==
    ASSUME Events, Places, NEW t \in Threads, NEW s \in Slots, main.pc \in Scheduling,
           main'.pc \notin Scheduling, main'.pc # "exit", main'.ip = main.ip,
           ~th[t][s].executing, th[t][s].done, Updates(t, s, WithCall(th[t][s], main.call)),
           UNCHANGED <<prog, pended, out, ran, hist>>
    PROVE  /\ Places' /\ Read' = Read /\ InFlight = {main.call} /\ InFlight' = {}
           /\ Executing' = Executing \cup {main.call} /\ Pending' = Pending /\ Replied' = Replied
  <1> DEFINE c == main.call
             x == WithCall(th[t][s], c)
  <1>1. th[t][s] \in Worker /\ Sound(th[t][s]) /\ c \in Read /\ main.pc # "exit"
    BY TargetType, Pcs DEF Events, Types, SoundWorkers
  <1>2. x.executing /\ x.ready /\ x.call = c /\ ~th[t][s].ready
    BY <1>1, Zenon DEF WithCall, Worker, Sound
  <1>3. Read' = Read /\ InFlight = {c} /\ InFlight' = {}
    BY <1>1, ReadSame, Zenon DEF InFlight
  <1> HIDE DEF x, c
  <1>4. Updates(t, s, x)
    BY DEF x, c
  <1>5. th'[t][s] = x /\ \A u \in Threads, v \in Slots : (u # t \/ v # s) => th'[u][v] = th[u][v]
    BY <1>4, Zenon DEF Updates
  <1>6. Executing' = Executing \cup {c}
    BY <1>1, <1>2, <1>3, <1>5 DEF Executing
  <1>7. Ready' = Ready \cup {c}
    BY <1>1, <1>2, <1>3, <1>5 DEF Ready
  <1>8. c \notin Assigned /\ c \notin Executing /\ c \notin Begun /\ c \notin Replied
        /\ c \notin Pending /\ c \notin hist.dropped
    BY <1>3, Zenon DEF Places, Disjoint, Assigned
  <1>9. BusyOnce'
    <2>1. ASSUME NEW u \in Threads, NEW u2 \in Threads, NEW v \in Slots, NEW v2 \in Slots,
                 th'[u][v].executing, th'[u2][v2].executing
          PROVE  /\ th'[u][v].call \in Read'
                 /\ th'[u][v].call = th'[u2][v2].call => u = u2 /\ v = v2
      <3>1. \A a \in Threads, b \in Slots : th[a][b].executing => th[a][b].call \in Read /\ th[a][b].call # c
        BY <1>8 DEF Executing, Places, BusyOnce
      <3>2. CASE u = t /\ v = s
        BY <1>1, <1>2, <1>3, <1>5, <2>1, <3>1, <3>2
      <3>3. CASE u2 = t /\ v2 = s
        BY <1>1, <1>2, <1>3, <1>5, <2>1, <3>1, <3>3
      <3>4. CASE (u # t \/ v # s) /\ (u2 # t \/ v2 # s)
        BY <1>3, <1>5, <2>1, <3>4 DEF Places, BusyOnce
      <3> QED
        BY <3>2, <3>3, <3>4, Zenon
    <2> QED
      BY <2>1 DEF BusyOnce
  <1>10. Begun' = Begun /\ Replied' = Replied /\ CallsOnce' /\ Pending' = Pending /\ PendedOnce'
    BY <1>3 DEF Begun, Replied, CallsOnce, Pending, PendedOnce, Places
  <1>11. Assigned' = Assigned \cup {c}
    BY <1>6, <1>10, Zenon DEF Assigned
  <1>12. Disjoint'
    BY <1>1, <1>3, <1>6, <1>7, <1>8, <1>10, <1>11, Zenon DEF Places, Disjoint
  <1>13. Complete'
    BY <1>1, <1>3, <1>6, <1>10, <1>11, Zenon DEF Places, Complete
  <1> QED
    BY <1>3, <1>6, <1>9, <1>10, <1>12, <1>13, ZenonT(60) DEF Places, c

\* resume_pending_calls: a pended call is taken in hand.
LEMMA PlacesResume ==
    ASSUME Events, Places, main.pc = "resume", main.cursor \in Threads,
           NEW k \in Due(main.cursor), Resumes(k)
    PROVE  LET c == pended[main.cursor][k].call IN
           /\ Places' /\ Read' = Read /\ InFlight = {} /\ InFlight' = {c} /\ c \in Pending
           /\ Pending' = Pending \ {c} /\ Replied' = Replied
           /\ \A u \in Threads : /\ Len(pended'[u]) = Len(pended[u])
                                 /\ \A j \in 1 .. Len(pended[u]) :
                                       pended'[u][j].call = pended[u][j].call
  <1> DEFINE t == main.cursor
             c == pended[t][k].call
  <1>0. main \in MainType /\ pended \in [Threads -> Seq(PendedType)]
    BY DEF Events, Types
  <1>1. k \in 1 .. Len(pended[t]) /\ pended[t][k].pending /\ pended[t][k] \in PendedType
    BY <1>0 DEF Due
  <1>2. c \in Read
    BY <1>1 DEF Events, PendedRead
  <1>3. main'.pc = "schedule" /\ main'.call = c /\ main'.ip = main.ip
    BY <1>0 DEF Resumes, MainType
  <1>4. Read' = Read
    BY <1>3, ReadSame, Zenon DEF Resumes
  <1>5. InFlight = {} /\ InFlight' = {c}
    BY <1>2, <1>3, <1>4, Pcs, Zenon DEF InFlight
  <1>6. /\ \A u \in Threads : Len(pended'[u]) = Len(pended[u])
        /\ \A u \in Threads : \A j \in 1 .. Len(pended[u]) :
             /\ pended'[u][j].call = pended[u][j].call
             /\ (u # t \/ j # k) => pended'[u][j] = pended[u][j]
        /\ ~pended'[t][k].pending
    BY <1>0, <1>1 DEF Resumes, PendedType
  <1> HIDE DEF c
  <1>7. c \in Pending
    BY <1>1, <1>2 DEF Pending, c
  <1>8. Pending' = Pending \ {c}
    <2>1. ASSUME NEW d \in Pending' PROVE d \in Pending \ {c}
      <3>1. PICK u \in Threads : \E j \in 1 .. Len(pended'[u]) :
                                    pended'[u][j].pending /\ pended'[u][j].call = d
        BY DEF Pending
      <3>2. PICK j \in 1 .. Len(pended'[u]) : pended'[u][j].pending /\ pended'[u][j].call = d
        BY <3>1
      <3>3. (u # t \/ j # k) /\ j \in 1 .. Len(pended[u]) /\ pended'[u][j] = pended[u][j]
        BY <1>6, <3>2, Zenon
      <3>4. pended[u][j].call # c
        BY <1>1, <3>3 DEF Places, PendedOnce, c
      <3> QED
        BY <1>4, <3>2, <3>3, <3>4 DEF Pending
    <2>2. ASSUME NEW d \in Pending \ {c} PROVE d \in Pending'
      <3>1. PICK u \in Threads : \E j \in 1 .. Len(pended[u]) :
                                    pended[u][j].pending /\ pended[u][j].call = d
        BY DEF Pending
      <3>2. PICK j \in 1 .. Len(pended[u]) : pended[u][j].pending /\ pended[u][j].call = d
        BY <3>1, Zenon
      <3>3. pended'[u][j] = pended[u][j] /\ j \in 1 .. Len(pended'[u])
        BY <1>6, <3>2, Zenon DEF c
      <3> QED
        BY <1>4, <3>2, <3>3, Zenon DEF Pending
    <2> QED
      BY <2>1, <2>2, Zenon
  <1>9. PendedOnce'
    BY <1>6 DEF Places, PendedOnce
  <1>10. Begun' = Begun /\ Replied' = Replied /\ CallsOnce' /\ Executing' = Executing /\ Ready' = Ready
         /\ BusyOnce' /\ hist' = hist
    BY <1>4 DEF Begun, Replied, CallsOnce, Executing, Ready, BusyOnce, Places, Resumes
  <1>11. Assigned' = Assigned
    BY <1>10 DEF Assigned
  <1>12. Disjoint'
    BY <1>3, <1>4, <1>5, <1>7, <1>8, <1>10, <1>11, Zenon DEF Places, Disjoint
  <1>13. Complete'
    BY <1>3, <1>4, <1>5, <1>7, <1>8, <1>10, <1>11, Zenon DEF Places, Complete
  <1> QED
    BY <1>4, <1>5, <1>6, <1>7, <1>8, <1>9, <1>10, <1>12, <1>13, Zenon DEF Places, c

\* A wait that ends without a result leaves the call with its worker.
LEMMA PlacesGivesUp ==
    ASSUME Events, Places, main.cursor \in Threads, blocked[main.cursor] \in Slots, GivesUp,
           main.pc = "wait", main'.pc \in {"wait", "read"}, main'.ip = main.ip
    PROVE  /\ Places' /\ Read' = Read /\ InFlight = {} /\ InFlight' = {}
           /\ Pending' = Pending /\ Replied' = Replied
  <1> DEFINE c == th[main.cursor][blocked[main.cursor]].call
  <1>1. c \in Executing
    BY ZenonT(60) DEF GivesUp, Places, BusyOnce, Executing
  <1>2. hist'.gaveUp = hist.gaveUp \cup {c} /\ hist'.dropped = hist.dropped
        /\ UNCHANGED <<prog, coverage, th, blocked, pended, out, ran>>
    BY DEF GivesUp
  <1> HIDE DEF c
  <1>3. Read' = Read /\ InFlight = {} /\ InFlight' = {}
    BY <1>2, Pcs, ReadSame, Zenon DEF InFlight
  <1>4. Begun' = Begun /\ Replied' = Replied /\ CallsOnce' /\ Executing' = Executing /\ Ready' = Ready
        /\ BusyOnce' /\ Pending' = Pending /\ PendedOnce'
    BY <1>2, <1>3
    DEF Begun, Replied, CallsOnce, Executing, Ready, BusyOnce, Pending, PendedOnce, Places
  <1>5. Assigned' = Assigned
    BY <1>1, <1>2, <1>4, Zenon DEF Assigned
  <1>6. Disjoint' /\ Complete'
    BY <1>2, <1>3, <1>4, <1>5, ZenonT(60) DEF Places, Disjoint, Complete
  <1> QED
    BY <1>3, <1>4, <1>6, Zenon DEF Places

\* What a sequence extended by n more elements holds.
LEMMA Extended ==
    ASSUME NEW S, NEW s \in Seq(S), NEW n \in Nat, NEW f \in [1 .. n -> S]
    PROVE  /\ Len(s) \in Nat /\ Len(s \o f) = Len(s) + n
           /\ \A i \in 1 .. Len(s) : (s \o f)[i] = s[i]
           /\ \A i \in 1 .. Len(s) + n : i \notin 1 .. Len(s) =>
                 i - Len(s) \in 1 .. n /\ (s \o f)[i] = f[i - Len(s)]
  <1>1. f \in Seq(S) /\ Len(f) = n
    OBVIOUS
  <1> QED
    BY <1>1

\* Two workers that execute the same call are one.
LEMMA BusyDistinct ==
    ASSUME BusyOnce, NEW t \in Threads, NEW u \in Threads, NEW s \in Slots, NEW v \in Slots,
           th[t][s].executing, th[u][v].executing, th[t][s].call = th[u][v].call
    PROVE  t = u /\ s = v
  BY DEF BusyOnce

\* EndExecution: the calls that were still executing are replied to, each once.
LEMMA PlacesEnd ==
    ASSUME Events, Places, EndExecution
    PROVE  /\ Places' /\ Replied \subseteq Replied'
           /\ \A t \in Threads, s \in Slots :
                 (th[t][s].executing /\ s < kMaxFallbackThreads) => th[t][s].call \in Replied'
  <1>1. /\ main.pc = "final" /\ GoesTo("exit") /\ main \in MainType /\ out \in Seq(ReplyType)
        /\ UNCHANGED <<prog, coverage, th, blocked, pended, ran, hist>>
        /\ \/ out' = out /\ Busy = {}
           \/ \E order \in Bijection(1 .. Cardinality(Left), Left) :
                 /\ Cardinality(Left) \in Nat
                 /\ out' = out \o [k \in 1 .. Cardinality(Left) |-> Reply(order[k], FALSE)]
    BY EventsEnd, Zenon DEF Events, Types
  <1>2. main'.pc = "exit" /\ main'.ip = main.ip
    BY <1>1, Pcs, GoesToType, Zenon
  <1>3. Read' = Read /\ InFlight = {} /\ InFlight' = {}
    BY <1>1, <1>2, Pcs, ReadSame, ZenonT(60) DEF InFlight
  <1>4. Begun' = Begun /\ Executing' = Executing /\ Ready' = Ready
        /\ BusyOnce' /\ Pending' = Pending /\ PendedOnce'
    BY <1>1, <1>3 DEF Begun, Executing, Ready, BusyOnce, Pending, PendedOnce, Places
  <1>5. CASE out' = out /\ Busy = {}
    <2>1. CallsOnce' /\ Assigned' = Assigned
      BY <1>1, <1>4, <1>5 DEF CallsOnce, Places, Assigned, Replied
    <2>2. Places' /\ Replied' = Replied
      BY <1>1, <1>2, <1>3, <1>4, <1>5, <2>1, Zenon DEF Places, Disjoint, Complete, Replied
    <2>3. ASSUME NEW t \in Threads, NEW s \in Slots, th[t][s].executing PROVE FALSE
      <3>1. <<t, s>> \in Busy
        BY <2>3 DEF Busy, Workers
      <3> QED
        BY <1>5, <3>1, Zenon
    <2> QED
      BY <2>2, <2>3, Zenon
  <1>6. ASSUME NEW order \in Bijection(1 .. Cardinality(Left), Left), Cardinality(Left) \in Nat,
               out' = out \o [k \in 1 .. Cardinality(Left) |-> Reply(order[k], FALSE)]
        PROVE  /\ Places' /\ Replied \subseteq Replied'
               /\ \A t \in Threads, s \in Slots :
                     (th[t][s].executing /\ s < kMaxFallbackThreads) => th[t][s].call \in Replied'
    <2> DEFINE n == Cardinality(Left)
               more == [k \in 1 .. n |-> Reply(order[k], FALSE)]
               call(k) == th[order[k][1]][order[k][2]].call
    <2>1. \A k \in 1 .. n : order[k] \in Left
      BY DEF Bijection, Injection
    <2>2. \A j, k \in 1 .. n : order[j] = order[k] => j = k
      BY ZenonT(60) DEF Bijection, Injection, IsInjective
    <2>3. \A k \in 1 .. n : /\ order[k][1] \in Threads /\ order[k][2] \in Slots
                            /\ th[order[k][1]][order[k][2]].executing
                            /\ order[k] = <<order[k][1], order[k][2]>>
      BY <2>1 DEF Left, Workers
    <2>4. \A k \in 1 .. n : call(k) \in Executing
      <3>1. \A t \in Threads, s \in Slots : th[t][s].executing => th[t][s].call \in Executing
        BY Zenon DEF Executing, Places, BusyOnce
      <3> QED
        BY <2>3, <3>1, Zenon
    <2>5. \A j, k \in 1 .. n : call(j) = call(k) => j = k
      <3> SUFFICES ASSUME NEW j \in 1 .. n, NEW k \in 1 .. n, call(j) = call(k) PROVE j = k
        OBVIOUS
      <3>1. /\ order[j][1] \in Threads /\ order[j][2] \in Slots
            /\ th[order[j][1]][order[j][2]].executing
        BY <2>3, Zenon
      <3>2. /\ order[k][1] \in Threads /\ order[k][2] \in Slots
            /\ th[order[k][1]][order[k][2]].executing
        BY <2>3, Zenon
      <3>3. order[j][1] = order[k][1] /\ order[j][2] = order[k][2]
        <4> DEFINE t == order[j][1]
                   u == order[k][1]
                   s == order[j][2]
                   v == order[k][2]
        <4>1. th[t][s].call = th[u][v].call
          OBVIOUS
        <4>2. BusyOnce
          BY Zenon DEF Places
        <4>3. /\ t \in Threads /\ s \in Slots /\ th[t][s].executing
              /\ u \in Threads /\ v \in Slots /\ th[u][v].executing
          BY <3>1, <3>2, Zenon
        <4> HIDE DEF t, u, s, v
        <4>4. t = u /\ s = v
          BY ONLY <4>1, <4>2, <4>3, BusyDistinct, Zenon
        <4> QED
          BY ONLY <4>4, Zenon DEF t, u, s, v
      <3>4. order[j] = order[k]
        BY <2>3, <3>3, ZenonT(60)
      <3> QED
        BY <2>2, <3>4, ZenonT(60)
    <2>6. Len(more) = n /\ \A k \in 1 .. n : more[k].call = call(k)
      BY <1>6 DEF Reply
    <2> HIDE DEF call, more
    <2>7. /\ Len(out) \in Nat /\ Len(out') = Len(out) + n
          /\ \A i \in 1 .. Len(out) : out'[i] = out[i]
          /\ \A i \in 1 .. Len(out') : i \notin 1 .. Len(out) =>
                i - Len(out) \in 1 .. n /\ out'[i].call = call(i - Len(out))
      <3>1. out' = out \o more
        BY <1>6, Zenon DEF more
      <3>2. more \in [1 .. n -> ReplyType]
        <4> SUFFICES ASSUME NEW k \in 1 .. n PROVE Reply(order[k], FALSE) \in ReplyType
          BY Zenon DEF more
        <4>1. \A t \in Threads, s \in Slots : th[t][s].call \in Nat
          BY DEF Events, Types, Worker
        <4>2. th[order[k][1]][order[k][2]].call \in Nat
          BY <2>3, <4>1, Zenon
        <4> QED
          BY <4>2 DEF Reply, ReplyType
      <3>3. n \in Nat
        BY <1>6, Zenon
      <3> HIDE DEF n
      <3>4. /\ Len(out) \in Nat /\ Len(out \o more) = Len(out) + n
            /\ \A i \in 1 .. Len(out) : (out \o more)[i] = out[i]
            /\ \A i \in 1 .. Len(out) + n : i \notin 1 .. Len(out) =>
                  i - Len(out) \in 1 .. n /\ (out \o more)[i] = more[i - Len(out)]
        BY <1>1, <3>2, <3>3, Extended
      <3> QED
        BY <2>6, <3>1, <3>4, Zenon
    <2>8. \A i \in 1 .. Len(out) : out[i].call \notin Executing
      BY <1>1, Zenon DEF Places, Disjoint, Replied
    <2>9. CallsOnce'
      <3>1. ASSUME NEW i \in 1 .. Len(out'), NEW j \in 1 .. Len(out'), out'[i].call = out'[j].call
            PROVE  i = j
        <4>1. CASE i \in 1 .. Len(out) /\ j \in 1 .. Len(out)
          BY <2>7, <3>1, <4>1, Zenon DEF Places, CallsOnce
        <4>2. CASE i \in 1 .. Len(out) /\ j \notin 1 .. Len(out)
          BY <2>4, <2>7, <2>8, <3>1, <4>2, Zenon
        <4>3. CASE i \notin 1 .. Len(out) /\ j \in 1 .. Len(out)
          BY <2>4, <2>7, <2>8, <3>1, <4>3, Zenon
        <4>4. CASE i \notin 1 .. Len(out) /\ j \notin 1 .. Len(out)
          BY <2>5, <2>7, <3>1, <4>4
        <4> QED
          BY <4>1, <4>2, <4>3, <4>4, Zenon
      <3> QED
        BY <1>1, <3>1 DEF Places, CallsOnce
    <2>10. Replied \subseteq Replied' /\ Replied' \subseteq Replied \cup Executing
      <3>1. Replied \subseteq Replied'
        <4> SUFFICES ASSUME NEW i \in 1 .. Len(out) PROVE out[i].call \in Replied'
          BY DEF Replied
        <4>1. i \in 1 .. Len(out') /\ out'[i] = out[i]
          BY <1>6, <2>7
        <4> QED
          BY <4>1 DEF Replied
      <3>2. Replied' \subseteq Replied \cup Executing
        BY <2>4, <2>7, Zenon DEF Replied
      <3> QED
        BY <3>1, <3>2
    <2>11. Assigned' = Assigned
      BY <1>1, <1>4, <2>10, Zenon DEF Assigned
    <2>12. Places'
      BY <1>1, <1>2, <1>3, <1>4, <2>9, <2>11, Zenon DEF Places, Disjoint, Complete
    <2>13. ASSUME NEW t \in Threads, NEW s \in Slots, th[t][s].executing, s < kMaxFallbackThreads
           PROVE  th[t][s].call \in Replied'
      <3>1. <<t, s>> \in Left
        BY <2>13, Zenon DEF Left, Workers
      <3>2. PICK k \in 1 .. n : order[k] = <<t, s>>
        BY <3>1, Zenon DEF Bijection, Surjection
      <3>3. call(k) = th[t][s].call
        BY <3>2 DEF call
      <3> DEFINE i == Len(out) + k
      <3>4. i \in 1 .. Len(out') /\ i \notin 1 .. Len(out) /\ i - Len(out) = k
        BY <1>6, <2>7
      <3> QED
        BY <2>7, <3>3, <3>4, Zenon DEF Replied
    <2> QED
      BY <2>10, <2>12, <2>13, Zenon
  <1> QED
    BY <1>1, <1>5, <1>6, Zenon

\* execute_call: a call that is begun was ready, so it was not begun before.
LEMMA PlacesBegin ==
    ASSUME Events, Places, NEW t \in Threads, NEW s \in Slots, NEW x \in Worker, Works(t, s, x),
           th[t][s].executing, th[t][s].ready, ~x.ready, ran' = Append(ran, x.call)
    PROVE  Places'
  <1> DEFINE c == th[t][s].call
  <1>1. x.call = c /\ x.executing /\ Updates(t, s, x) /\ main.pc # "exit" /\ ran \in Seq(Nat)
        /\ c \in Nat
    BY Zenon DEF Works, Events, Types, Worker
  <1>2. c \in Read /\ c \in Ready /\ c \in Executing
    BY Zenon DEF Places, BusyOnce, Ready, Executing
  <1>3. UNCHANGED <<prog, main, blocked, pended, out, hist>>
    BY Zenon DEF Works
  <1>4. Read' = Read /\ InFlight' = InFlight /\ Pending' = Pending /\ Replied' = Replied
        /\ PendedOnce'
    BY <1>3, ReadSame DEF InFlight, Pending, Replied, PendedOnce, Places
  <1>5. \A u \in Threads, v \in Slots :
          /\ th'[u][v].executing = th[u][v].executing
          /\ th'[u][v].call = th[u][v].call
          /\ th'[u][v].ready => th[u][v].ready /\ (u # t \/ v # s)
          /\ th[u][v].ready => th[u][v].executing
    <2> SUFFICES ASSUME NEW u \in Threads, NEW v \in Slots
                 PROVE  /\ th'[u][v].executing = th[u][v].executing
                        /\ th'[u][v].call = th[u][v].call
                        /\ th'[u][v].ready => th[u][v].ready /\ (u # t \/ v # s)
                        /\ th[u][v].ready => th[u][v].executing
      BY ZenonT(60)
    <2>1. th[u][v].ready => th[u][v].executing
      BY DEF Events, SoundWorkers, Sound
    <2>2. CASE u = t /\ v = s
      BY <1>1, <2>1, <2>2, Zenon DEF Updates, Works
    <2>3. CASE u # t \/ v # s
      BY <1>1, <2>1, <2>3, ZenonT(60) DEF Updates
    <2> QED
      BY <2>2, <2>3, Zenon
  <1>6. Executing' = Executing /\ BusyOnce'
    BY <1>4, <1>5 DEF Executing, BusyOnce, Places
  <1>7. Ready' \subseteq Ready \ {c}
    <2> SUFFICES ASSUME NEW d \in Ready' PROVE d \in Ready /\ d # c
      BY Zenon
    <2>1. PICK u \in Threads, v \in Slots : th'[u][v].ready /\ th'[u][v].call = d
      BY Zenon DEF Ready
    <2>2. th[u][v].ready /\ th[u][v].call = d /\ (u # t \/ v # s) /\ th[u][v].executing
      BY <1>5, <2>1, ZenonT(60)
    <2> QED
      BY <1>4, <2>2 DEF Ready, Places, BusyOnce
  <1>8. /\ Len(ran') = Len(ran) + 1 /\ ran'[Len(ran) + 1] = c /\ Len(ran) \in Nat
        /\ \A i \in 1 .. Len(ran) : ran'[i] = ran[i]
        /\ 1 .. Len(ran') = (1 .. Len(ran)) \cup {Len(ran) + 1}
    BY <1>1, AppendOnce
  <1> HIDE DEF c
  <1>9. Begun' = Begun \cup {c}
    BY <1>8 DEF Begun
  <1>10. CallsOnce'
    <2>1. ASSUME NEW i \in 1 .. Len(ran'), NEW j \in 1 .. Len(ran'), ran'[i] = ran'[j]
          PROVE  i = j
      <3>1. \A k \in 1 .. Len(ran) : ran'[k] # c
        BY <1>2, <1>8 DEF Begun, Places, Disjoint
      <3>2. CASE i \in 1 .. Len(ran) /\ j \in 1 .. Len(ran)
        BY <1>8, <2>1, <3>2, ZenonT(60) DEF Places, CallsOnce
      <3>3. CASE i = Len(ran) + 1 \/ j = Len(ran) + 1
        BY <1>8, <2>1, <3>1, <3>3, Zenon
      <3> QED
        BY <1>8, <3>2, <3>3, Zenon
    <2> QED
      BY <1>3, <2>1, Zenon DEF Places, CallsOnce
  <1>11. Assigned' = Assigned
    BY <1>2, <1>3, <1>4, <1>6, <1>9, Zenon DEF Assigned
  <1>12. Disjoint'
    BY <1>3, <1>4, <1>6, <1>7, <1>9, <1>11, Zenon DEF Places, Disjoint
  <1>13. Complete'
    BY <1>3, <1>4, <1>6, <1>11, Zenon DEF Places, Complete
  <1> QED
    BY <1>4, <1>6, <1>10, <1>12, <1>13, Zenon DEF Places

\* The other steps of a worker.
LEMMA WorksQuiet ==
    ASSUME Events, NEW t \in Threads, NEW s \in Slots, NEW x \in Worker, Works(t, s, x),
           ran' = ran, x.ready <=> th[t][s].ready
    PROVE  Quiet /\ SameWorkers
  <1>1. x.ready = th[t][s].ready
    BY DEF Worker, Events, Types
  <1>2. SameWorkers
    BY <1>1, UpdateSame, Zenon DEF Works
  <1> QED
    BY <1>2, Pcs, ReadSame, QuietStep, Zenon DEF Works

\* An epoch instruction is no call.
LEMMA ReadEpochQuiet == ASSUME Events, ReadEpoch PROVE Quiet
  <1>1. main \in MainType /\ prog[main.ip].op = "epoch" /\ main.ip \in Nat
        /\ main'.ip = main.ip + 1 /\ main.pc = "read" /\ main'.pc = "resume" /\ Moves
    BY Zenon DEF ReadEpoch, Events, Types, MainType, Moves
  <1>2. Read' = Read
    BY <1>1 DEF Read, Moves
  <1> QED
    BY <1>1, <1>2, Pcs, QuietStep, Zenon DEF Moves, SameWorkers

\* Initially the calls are nowhere.
LEMMA PlacesInit == Init => Places
  <1> SUFFICES ASSUME Init PROVE Places
    BY Zenon
  <1>1. main.ip = 1 /\ main.pc = "read" /\ out = <<>> /\ ran = <<>> /\ hist.gaveUp = {}
        /\ hist.dropped = {} /\ prog \in Programs
    BY DEF Init
  <1>2. \A t \in Threads, s \in Slots : ~th[t][s].executing
    BY DEF Init, Unused, Created
  <1>3. \A t \in Threads : Len(pended[t]) = 0
    BY Zenon DEF Init
  <1>4. Len(prog) \in Nat
    BY <1>1, ProgramType, Zenon
  <1>5. Read = {}
    BY <1>1, <1>4 DEF Read
  <1>6. Begun = {} /\ Replied = {} /\ Executing = {} /\ Pending = {} /\ InFlight = {} /\ Ready = {}
    BY <1>1, <1>5 DEF Begun, Replied, Executing, Pending, InFlight, Ready
  <1>7. CallsOnce
    BY <1>1 DEF CallsOnce
  <1>8. BusyOnce
    BY <1>2, Zenon DEF BusyOnce
  <1>9. PendedOnce
    BY <1>3 DEF PendedOnce
  <1> QED
    BY <1>1, <1>5, <1>6, <1>7, <1>8, <1>9, Zenon DEF Places, Disjoint, Complete, Assigned

\* schedule_call: a result is taken, or the calls stay where they are.
LEMMA PlacesPick ==
    ASSUME Events, Places, PickWorker
    PROVE  Quiet \/ Taken(th[Target][blocked[Target]].call)
  <1>1. main.pc = "schedule" /\ main.pc \in Scheduling /\ main \in MainType
    BY Pcs, Zenon DEF PickWorker, Events, Types
  <1>2. Target \in Threads /\ blocked[Target] \in Slots
    BY <1>1, TargetType
  <1>3. CASE Fail("out of threads")
    BY <1>1, <1>3, FailQuiet, Pcs, Zenon
  <1>4. CASE GoesTo("assign") /\ (Moves \/ (blocked' = blocked /\ Creates(Target)))
    <2>1. main'.pc \in Scheduling /\ main'.ip = main.ip /\ main'.call = main.call
      BY <1>1, <1>4, GoesToType, Pcs, Zenon
    <2> QED
      BY <1>1, <1>2, <1>4, <2>1, MovesQuiet, CreatesQuiet, Pcs, Zenon
  <1>5. CASE main' = [main EXCEPT !.pc = "assign", !.running = main.running - 1]
             /\ Completes(Target, blocked[Target])
    <2>1. main'.pc \in Scheduling /\ main'.ip = main.ip /\ main'.call = main.call
          /\ main'.pc # "exit"
      BY <1>1, <1>5, Pcs, Zenon DEF MainType
    <2> QED
      BY <1>1, <1>2, <1>5, <2>1, CompletesTaken, Pcs, Zenon DEF Places
  <1>6. CASE GoesTo("unhand") /\ Moves
    <2>1. main'.pc \in Scheduling /\ main'.ip = main.ip /\ main'.call = main.call
      BY <1>1, <1>6, GoesToType, Pcs, Zenon
    <2> QED
      BY <1>1, <1>6, <2>1, MovesQuiet, Pcs, Zenon
  <1> QED
    BY <1>3, <1>4, <1>5, <1>6, EventsPickWorker, Zenon

\* unhand_worker_thread: the calls stay where they are.
LEMMA PlacesUnhand == ASSUME Events, unhand_worker_thread PROVE Quiet
  <1>1. main.pc = "unhand" /\ main.pc \in Scheduling /\ main \in MainType
    BY Pcs, Zenon DEF unhand_worker_thread, Events, Types
  <1>2. Target \in Threads /\ blocked[Target] \in Slots
    BY <1>1, TargetType, Zenon
  <1>3. CASE Fail("out of threads")
    BY <1>1, <1>3, FailQuiet, Pcs, Zenon
  <1>4. CASE GoesTo("assign")
    <2>1. main'.pc \in Scheduling /\ main'.ip = main.ip /\ main'.call = main.call
      BY <1>1, <1>4, GoesToType, Pcs, Zenon
    <2>2. CASE Moves
      BY <1>1, <2>1, <2>2, MovesQuiet, Pcs, Zenon
    <2>3. CASE Creates(Target) /\ blocked' = [blocked EXCEPT ![Target] = blocked[Target] + 1]
      <3>1. blocked'[Target] \in Slots
        BY <1>2, EventsUnhand, Zenon DEF Events, Types
      <3> QED
        BY <1>1, <1>2, <2>1, <2>3, <3>1, CreatesQuiet, Pcs, Zenon
    <2> QED
      BY <1>4, <2>2, <2>3, EventsUnhand, GoesToType, <1>1, FailQuiet, Pcs, Zenon
  <1> QED
    BY <1>3, <1>4, EventsUnhand, Zenon

\* The steps of start_epoch() before the wait, and the ends of the program.
LEMMA PlacesStart ==
    ASSUME Events, prepare_schedule \/ SeeReady \/ NotifyWorker \/ ReadEnd
    PROVE  Quiet /\ SameWorkers
  <1>1. main.pc \notin Scheduling /\ main.pc # "exit" /\ main \in MainType
    BY Pcs, Zenon DEF prepare_schedule, SeeReady, NotifyWorker, ReadEnd, Events, Types
  <1>2. CASE prepare_schedule
    <2>1. CASE Fail("out of threads")
      BY <1>1, <2>1, FailQuiet, Zenon DEF Fail, SameWorkers
    <2>2. CASE /\ main' = [main EXCEPT !.pc = "signal", !.cursor = 0]
               /\ hist'.gaveUp = hist.gaveUp /\ hist'.dropped = hist.dropped
               /\ UNCHANGED <<prog, coverage, th, blocked, pended, out, ran>>
      <3>1. main'.pc = "signal" /\ main'.ip = main.ip
        BY <1>1, <2>2, Zenon DEF MainType
      <3> QED
        BY <1>1, <2>2, <3>1, Pcs, ReadSame, QuietStep, Zenon DEF SameWorkers
    <2> QED
      BY <1>2, <2>1, <2>2, EventsPrepare, Zenon
  <1>3. CASE SeeReady
    <2>1. main'.pc \in {"notify", "signal", "wait"} /\ main'.ip = main.ip /\ Moves
      BY <1>1, <1>3, EventsSeeReady, GoesToType, Pcs, Zenon DEF Advances
    <2> QED
      BY <1>1, <2>1, MovesQuiet, Pcs, Zenon DEF Moves, SameWorkers
  <1>4. CASE NotifyWorker
    <2>1. CASE Fail("bad thread state in start_epoch")
      BY <1>1, <2>1, FailQuiet, Zenon DEF Fail, SameWorkers
    <2>2. CASE ~Fail("bad thread state in start_epoch")
      <3> DEFINE t == main.cursor
                 s == blocked[t]
                 x == [th[t][s] EXCEPT !.start = TRUE]
      <3>1. /\ t \in Threads /\ Advances("signal", "wait") /\ Updates(t, s, x)
            /\ hist'.gaveUp = hist.gaveUp /\ hist'.dropped = hist.dropped
            /\ UNCHANGED <<prog, coverage, blocked, pended, out, ran>>
        BY <1>4, <2>2, EventsNotify, Zenon
      <3>2. s \in Slots /\ th[t][s] \in Worker
        BY <3>1, Zenon DEF Events, Types
      <3>3. x.executing = th[t][s].executing /\ x.ready = th[t][s].ready /\ x.call = th[t][s].call
        BY <3>2, Zenon DEF Worker
      <3>4. SameWorkers
        <4> HIDE DEF x, s, t
        <4> QED
          BY <3>1, <3>2, <3>3, UpdateSame, Zenon
      <3>5. main'.pc \in {"signal", "wait"} /\ main'.ip = main.ip
        BY <3>1, Zenon DEF Advances
      <3> QED
        BY <1>1, <3>1, <3>4, <3>5, Pcs, ReadSame, QuietStep, Zenon
    <2> QED
      BY <2>1, <2>2, Zenon
  <1>5. CASE ReadEnd
    <2>1. main'.pc \in {"final", "exit"} /\ main'.ip = main.ip /\ Moves
      BY <1>1, <1>5, Zenon DEF ReadEnd, MainType, Moves
    <2> QED
      BY <1>1, <2>1, MovesQuiet, Pcs, Zenon DEF Moves, SameWorkers
  <1> QED
    BY <1>2, <1>3, <1>4, <1>5, Zenon

\* WaitWorker: a result is taken, or not.
LEMMA PlacesWait ==
    ASSUME Events, Places, WaitWorker
    PROVE  /\ Places' /\ Read' = Read /\ InFlight = {} /\ InFlight' = {} /\ Pending' = Pending
           /\ \/ Quiet \/ Taken(th[main.cursor][blocked[main.cursor]].call)
              \/ GivesUp /\ Replied' = Replied
  <1>1. main.pc = "wait" /\ main.pc \notin Scheduling /\ InFlight = {}
    BY Pcs, Zenon DEF WaitWorker, InFlight
  <1>2. /\ main.cursor \in Threads /\ blocked[main.cursor] \in Slots
        /\ main'.pc \in {"wait", "read"} /\ main'.ip = main.ip
    BY EventsWait, Zenon DEF Awaited
  <1>3. InFlight' = {} /\ main'.pc \notin Scheduling /\ main'.pc # "exit"
    BY <1>2, Pcs, Zenon DEF InFlight
  <1>4. CASE Moves
    BY <1>1, <1>2, <1>3, <1>4, MovesQuiet, PlacesQuiet, Zenon DEF Quiet
  <1>5. CASE Completes(main.cursor, blocked[main.cursor])
    <2>1. Taken(th[main.cursor][blocked[main.cursor]].call)
      BY <1>1, <1>2, <1>3, <1>5, CompletesTaken, Zenon DEF Places
    <2> QED
      BY <1>1, <1>3, <2>1, PlacesTaken, Zenon DEF Taken
  <1>6. CASE GivesUp
    BY <1>1, <1>2, <1>6, PlacesGivesUp, Zenon
  <1> QED
    BY <1>4, <1>5, <1>6, EventsWait, Zenon

\* CompleteLate: a result is taken.
LEMMA PlacesLate ==
    ASSUME Events, Places, NEW w \in Workers, CompleteLate(w)
    PROVE  \E c : Taken(c)
  <1>1. main.pc = "final" /\ main' = [main EXCEPT !.running = main.running - 1] /\ main \in MainType
    BY EventsLate DEF Events, Types
  <1>2. main'.pc = "final" /\ main'.ip = main.ip
    BY <1>1 DEF MainType
  <1>3. PICK t \in Threads, s \in Slots : Completes(t, s)
    BY EventsLate
  <1> QED
    BY <1>1, <1>2, <1>3, Pcs, CompletesTaken, Zenon DEF Places

\* AssignCall: the call in hand goes to a worker.
LEMMA PlacesAssignCall ==
    ASSUME Events, Places, AssignCall
    PROVE  /\ Places' /\ Read' = Read
           /\ \/ Quiet /\ Fail("bad thread state in schedule")
              \/ /\ InFlight = {main.call} /\ InFlight' = {} /\ Pending' = Pending
                 /\ Executing' = Executing \cup {main.call} /\ Replied' = Replied
                 /\ ~Fail("bad thread state in schedule")
  <1>1. main.pc = "assign" /\ main.pc \in Scheduling
    BY Pcs, Zenon DEF AssignCall
  <1>2. Target \in Threads /\ blocked[Target] \in Slots
    BY <1>1, TargetType
  <1>3. CASE Fail("bad thread state in schedule")
    BY <1>1, <1>3, Pcs, FailQuiet, PlacesQuiet, Zenon DEF Quiet
  <1>4. CASE ~Fail("bad thread state in schedule")
    <2>1. LET w == th[Target][blocked[Target]] IN
          /\ w.done /\ ~w.executing /\ Updates(Target, blocked[Target], WithCall(w, main.call))
          /\ UNCHANGED <<prog, pended, out, ran, hist>> /\ main'.ip = main.ip
          /\ main'.pc \in {"read", "resume", "prepare"}
      BY <1>4, EventsAssign, Zenon
    <2>2. main'.pc \notin Scheduling /\ main'.pc # "exit"
      BY <2>1, Pcs, Zenon
    <2> QED
      BY <1>1, <1>2, <1>4, <2>1, <2>2, PlacesAssign, Zenon
  <1> QED
    BY <1>3, <1>4, Zenon

\* resume_pending_calls when no call of the thread is due.
LEMMA PlacesPass ==
    ASSUME Events, resume_pending_calls, Moves, Advances("resume", "prepare")
    PROVE  Quiet
  <1>1. main.pc = "resume" /\ main'.pc \in {"resume", "prepare"} /\ main'.ip = main.ip
    BY Zenon DEF resume_pending_calls, Advances
  <1> QED
    BY <1>1, Pcs, MovesQuiet, Zenon

\* Every step leaves each call in one place.
LEMMA PlacesNext == Events /\ Places /\ [Next]_vars => Places'
  <1> SUFFICES ASSUME Events, Places, [Next]_vars PROVE Places'
    BY Zenon
  <1>1. CASE PendCall \/ ReadCall \/ ReadEpoch
    BY <1>1, PlacesPendCall, PlacesReadCall, ReadEpochQuiet, PlacesQuiet, Zenon
  <1>2. CASE PickWorker \/ unhand_worker_thread \/ AssignCall
    BY <1>2, PlacesPick, PlacesUnhand, PlacesAssignCall, PlacesQuiet, PlacesTaken, Zenon
  <1>3. CASE resume_pending_calls
    <2>1. main.pc = "resume"
      BY <1>3, Zenon DEF resume_pending_calls
    <2> QED
      BY <1>3, <2>1, EventsResume, PlacesPass, PlacesResume, PlacesQuiet, Zenon
  <1>4. CASE prepare_schedule \/ SeeReady \/ NotifyWorker \/ ReadEnd
    BY <1>4, PlacesStart, PlacesQuiet, Zenon
  <1>5. CASE WaitWorker \/ EndExecution
    BY <1>5, PlacesWait, PlacesEnd, Zenon
  <1>6. ASSUME NEW w \in Workers, CompleteLate(w) PROVE Places'
    BY <1>6, PlacesLate, PlacesTaken, Zenon
  <1>7. ASSUME NEW w \in Workers, wait_epoch(w) \/ execute_call(w) \/ FinishCall(w) PROVE Places'
    BY <1>7, EventsWorker, WorksQuiet, PlacesBegin, PlacesQuiet, Zenon
  <1>8. CASE UNCHANGED vars
    <2>1. Read' = Read
      BY <1>8, ReadSame, Zenon DEF vars
    <2>2. Executing' = Executing /\ Ready' = Ready /\ Pending' = Pending /\ InFlight' = InFlight
          /\ Begun' = Begun /\ Replied' = Replied
      BY <1>8, <2>1, Zenon DEF vars, Executing, Ready, Pending, InFlight, Begun, Replied
    <2>3. CallsOnce' = CallsOnce /\ PendedOnce' = PendedOnce
      BY <1>8, SMTT(30) DEF vars, CallsOnce, PendedOnce
    <2>4. BusyOnce' = BusyOnce
      BY <1>8, <2>1, SMTT(30) DEF vars, BusyOnce
    <2> QED
      BY <1>8, <2>1, <2>2, <2>3, <2>4, Zenon DEF vars, Places, Disjoint, Complete, Assigned
  <1> QED
    BY <1>1, <1>2, <1>3, <1>4, <1>5, <1>6, <1>7, <1>8, Zenon DEF Next, Main

=============================================================================
