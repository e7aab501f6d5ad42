-------------------------- MODULE PSOBufferProofs --------------------------
(***************************************************************************)
(* The PSO runtime implements the abstract store buffer, and a thread reads *)
(* its own writes, for any threads, addresses, values, vectors and buffer   *)
(* size.                                                                    *)
(*                                                                         *)
(* The argument: whatever branch flushAfterInsn() takes, it drains some     *)
(* number of the oldest values of every list, and a drained list leaves its *)
(* last value in memory exactly when it is empty afterwards.                *)
(***************************************************************************)
EXTENDS PSOBuffer, TLAPS

USE SMTT(30)

Input == [vector : [Slots -> Nat], size : 0 .. kMaxInputSize, pos : Slots]

\* The destructor has written no more than there is, and nothing before it runs.
WrittenOK ==
    \A t \in Threads : /\ \A a \in Addrs : written[t][a] <= Len(buffer[t][a])
                       /\ phase[t] = "running" => written[t] = None

\* Only addresses the thread has stored to have waiting stores.
BufferedWasStored ==
    \A t \in Threads, a \in Addrs : lastStored[t][a] = <<>> => buffer[t][a] = <<>>

PSOType ==
    /\ mem \in [Addrs -> Values \cup {0}]
    /\ buffer \in [Threads -> [Addrs -> Seq(Values)]]
    /\ bufferSize \in [Threads -> Nat]
    /\ input \in Input
    /\ phase \in [Threads -> {"running", "exiting", "gone"}]
    /\ written \in [Threads -> [Addrs -> Nat]]
    /\ DOMAIN result = Threads
    /\ lastStored \in [Threads -> [Addrs -> Seq(Values)]]

PSOInv == PSOType /\ WrittenOK /\ BufferedWasStored /\ ReadsOwnWrites

\* The k[a] oldest values of the lists q[a] of thread t are written to memory.
Drained(t, q, k) ==
    /\ k \in [Addrs -> Nat]
    /\ \A a \in Addrs : k[a] <= Len(q[a])
    /\ buffer' = [buffer EXCEPT ![t] = [a \in Addrs |-> SubSeq(q[a], k[a] + 1, Len(q[a]))]]
    /\ mem' = [a \in Addrs |-> IF k[a] = 0 THEN mem[a] ELSE q[a][k[a]]]

\* A step of a running thread that drains the lists q, which are the buffered ones
\* but for new stores; L is what the thread has stored last after it.
DrainStep(t, q, k, L) ==
    /\ phase[t] = "running"
    /\ Drained(t, q, k)
    /\ lastStored' = [lastStored EXCEPT ![t] = L]
    /\ \A a \in Addrs : \/ q[a] = buffer[t][a] /\ L[a] = lastStored[t][a]
                        \/ q[a] # <<>> /\ L[a] = <<Newest(q[a])>>
    /\ bufferSize' \in [Threads -> Nat]
    /\ input' \in Input
    /\ UNCHANGED <<phase, written>>
    /\ DOMAIN result' = Threads

-----------------------------------------------------------------------------
\* A list without its k oldest values: what its length is, when it is empty, and
\* what its newest value is.
LEMMA Suffix ==
    ASSUME NEW S, NEW s \in Seq(S), NEW k \in 0 .. Len(s)
    PROVE  /\ SubSeq(s, k + 1, Len(s)) \in Seq(S)
           /\ Len(SubSeq(s, k + 1, Len(s))) = Len(s) - k
           /\ \A i \in 1 .. Len(s) - k : SubSeq(s, k + 1, Len(s))[i] = s[k + i]
           /\ k = 0 => SubSeq(s, k + 1, Len(s)) = s
           /\ k = Len(s) => SubSeq(s, k + 1, Len(s)) = <<>>
           /\ k < Len(s) => SubSeq(s, k + 1, Len(s)) # <<>>
           /\ k < Len(s) => Newest(SubSeq(s, k + 1, Len(s))) = Newest(s)
<1>1. Len(s) \in Nat
    OBVIOUS
<1>2. /\ SubSeq(s, k + 1, Len(s)) \in Seq(S)
      /\ Len(SubSeq(s, k + 1, Len(s))) = Len(s) - k
      /\ \A i \in 1 .. Len(s) - k : SubSeq(s, k + 1, Len(s))[i] = s[k + i]
    BY <1>1
<1> DEFINE d == SubSeq(s, k + 1, Len(s))
<1> HIDE DEF d
<1>3. d \in Seq(S) /\ Len(d) = Len(s) - k /\ \A i \in 1 .. Len(s) - k : d[i] = s[k + i]
    BY <1>2 DEF d
<1>4. k = 0 => d = s
    BY <1>1, <1>3
<1>5. (k = Len(s) => d = <<>>) /\ (k < Len(s) => d # <<>>)
    BY <1>1, <1>3
<1>6. k < Len(s) => Newest(d) = Newest(s)
    BY <1>1, <1>3 DEF Newest
<1> QED
    BY <1>2, <1>4, <1>5, <1>6 DEF d

\* flushAll() drains every list to the end.
LEMMA FlushAllDrains ==
    ASSUME PSOType, NEW t \in Threads, NEW buf \in [Addrs -> Seq(Values)], flushAll(t, buf)
    PROVE  /\ \E k : Drained(t, buf, k)
           /\ bufferSize' = [bufferSize EXCEPT ![t] = 0]
<1> DEFINE k == [a \in Addrs |-> Len(buf[a])]
<1>1. ASSUME NEW a \in Addrs
      PROVE  /\ k[a] \in Nat /\ k[a] <= Len(buf[a])
             /\ SubSeq(buf[a], k[a] + 1, Len(buf[a])) = <<>>
             /\ k[a] = 0 <=> buf[a] = <<>>
             /\ Newest(buf[a]) = buf[a][k[a]]
  <2>1. buf[a] \in Seq(Values) /\ Len(buf[a]) \in 0 .. Len(buf[a])
      OBVIOUS
  <2>2. SubSeq(buf[a], Len(buf[a]) + 1, Len(buf[a])) = <<>>
      BY <2>1, Suffix
  <2>3. Len(buf[a]) = 0 <=> buf[a] = <<>>
      BY <2>1
  <2> QED
      BY <2>1, <2>2, <2>3 DEF Newest
<1>2. k \in [Addrs -> Nat]
    BY <1>1
<1> HIDE DEF k
<1>3. NoStores = [a \in Addrs |-> SubSeq(buf[a], k[a] + 1, Len(buf[a]))]
    BY <1>1, Zenon DEF NoStores
<1>4. mem' = [a \in Addrs |-> IF k[a] = 0 THEN mem[a] ELSE buf[a][k[a]]]
    BY <1>1 DEF flushAll
<1>5. Drained(t, buf, k)
    BY <1>1, <1>2, <1>3, <1>4 DEF Drained, flushAll
<1> QED
    BY <1>5 DEF flushAll

\* flush() drains the list of its address and no other.
LEMMA FlushDrains ==
    ASSUME PSOType, NEW t \in Threads, NEW buf \in [Addrs -> Seq(Values)],
           NEW size, NEW a \in Addrs, NEW n \in Nat, flush(t, buf, size, a, n)
    PROVE  \E k : Drained(t, buf, k)
<1> DEFINE m == IF n < Len(buf[a]) THEN n ELSE Len(buf[a])
           k == [b \in Addrs |-> IF b = a THEN m ELSE 0]
<1>1. m \in 0 .. Len(buf[a])
    OBVIOUS
<1>2. /\ mem' = IF m = 0 THEN mem ELSE [mem EXCEPT ![a] = buf[a][m]]
      /\ buffer' = [buffer EXCEPT ![t] =
                       [buf EXCEPT ![a] = SubSeq(buf[a], m + 1, Len(buf[a]))]]
    BY DEF flush
<1> HIDE DEF m
<1>3. k \in [Addrs -> Nat] /\ \A b \in Addrs : k[b] <= Len(buf[b])
    BY <1>1
<1>4. \A b \in Addrs : b # a => SubSeq(buf[b], 0 + 1, Len(buf[b])) = buf[b]
    BY Suffix
<1>5. [buf EXCEPT ![a] = SubSeq(buf[a], m + 1, Len(buf[a]))]
        = [b \in Addrs |-> SubSeq(buf[b], k[b] + 1, Len(buf[b]))]
    BY <1>4, Zenon
<1>6. mem' = [b \in Addrs |-> IF k[b] = 0 THEN mem[b] ELSE buf[b][k[b]]]
    BY <1>2, Zenon DEF PSOType
<1>7. Drained(t, buf, k)
    BY <1>2, <1>3, <1>5, <1>6, Zenon DEF Drained
<1> QED
    BY <1>7, Zenon

\* flushAfterInsn() drains the lists the instruction left, in every branch, and
\* keeps the input vector well formed.
LEMMA AfterInsnDrains ==
    ASSUME PSOType, NEW t \in Threads, NEW buf \in [Addrs -> Seq(Values)],
           NEW size \in Nat, NEW a \in Addrs, flushAfterInsn(t, buf, size, a)
    PROVE  /\ \E k : Drained(t, buf, k)
           /\ bufferSize' \in [Threads -> Nat]
           /\ input' \in Input
<1>1. CASE size >= kMaxBufferSize /\ flushAll(t, buf) /\ UNCHANGED input
  <2>1. (\E k : Drained(t, buf, k)) /\ bufferSize' = [bufferSize EXCEPT ![t] = 0]
      BY <1>1, FlushAllDrains, Zenon
  <2>2. bufferSize' \in [Threads -> Nat] /\ input' \in Input
      BY <1>1, <2>1 DEF PSOType
  <2> QED
      BY <2>1, <2>2
<1>2. CASE input.size > 0 /\ flush(t, buf, size, a, NextValue(input)) /\ input' = Advance(input)
  <2>1. NextValue(input) \in Nat
      BY DEF NextValue, PSOType, Input
  <2>2. bufferSize' \in [Threads -> Nat]
      BY <1>2 DEF flush, PSOType
  <2>3. (input.pos + 1) % input.size \in Slots
    <3>1. input.pos \in Nat /\ input.size \in 1 .. kMaxInputSize /\ kMaxInputSize \in Nat
        BY <1>2, InputAssumption DEF PSOType, Input, Slots
    <3>2. \A p, s \in Nat : s > 0 => (p + 1) % s \in 0 .. s - 1
        OBVIOUS
    <3> QED
        BY <3>1, <3>2 DEF Slots
  <2>4. input' \in Input
      BY <1>2, <2>3, Zenon DEF PSOType, Input, Advance
  <2> QED
      BY <1>2, <2>1, <2>2, <2>4, FlushDrains
<1>3. CASE /\ buffer' = [buffer EXCEPT ![t] = buf]
           /\ bufferSize' = [bufferSize EXCEPT ![t] = size]
           /\ UNCHANGED <<mem, input>>
  <2> DEFINE k == [b \in Addrs |-> 0]
  <2>1. \A b \in Addrs : SubSeq(buf[b], 0 + 1, Len(buf[b])) = buf[b] /\ 0 <= Len(buf[b])
      BY Suffix
  <2>2. buf = [b \in Addrs |-> SubSeq(buf[b], k[b] + 1, Len(buf[b]))]
      BY <2>1
  <2>3. mem' = [b \in Addrs |-> IF k[b] = 0 THEN mem[b] ELSE buf[b][k[b]]]
      BY <1>3 DEF PSOType
  <2>4. Drained(t, buf, k)
      BY <1>3, <2>1, <2>2, <2>3, Zenon DEF Drained
  <2> QED
      BY <1>3, <2>4 DEF PSOType
<1> QED
    BY <1>1, <1>2, <1>3 DEF flushAfterInsn

-----------------------------------------------------------------------------
\* What a drain leaves: an empty list leaves memory alone, and of any other list
\* the thread still sees the newest value, in its buffer or in memory.
LEMMA DrainedFacts ==
    ASSUME PSOType, NEW t \in Threads, NEW q \in [Addrs -> Seq(Values)],
           NEW k, Drained(t, q, k)
    PROVE  /\ buffer' \in [Threads -> [Addrs -> Seq(Values)]]
           /\ mem' \in [Addrs -> Values \cup {0}]
           /\ \A u \in Threads \ {t} : buffer'[u] = buffer[u]
           /\ \A a \in Addrs : q[a] = <<>> => mem'[a] = mem[a] /\ buffer'[t][a] = <<>>
           /\ \A a \in Addrs : q[a] # <<>> => RetrieveValue(t, a)' = Newest(q[a])
<1>1. ASSUME NEW a \in Addrs
      PROVE  /\ buffer'[t][a] = SubSeq(q[a], k[a] + 1, Len(q[a]))
             /\ mem'[a] = IF k[a] = 0 THEN mem[a] ELSE q[a][k[a]]
             /\ q[a] \in Seq(Values) /\ k[a] \in 0 .. Len(q[a])
  <2>1. q[a] \in Seq(Values) /\ Len(q[a]) \in Nat
      OBVIOUS
  <2>2. k[a] \in Nat /\ k[a] <= Len(q[a])
      BY DEF Drained
  <2>3. mem'[a] = IF k[a] = 0 THEN mem[a] ELSE q[a][k[a]]
      BY DEF Drained
  <2>4. buffer'[t][a] = SubSeq(q[a], k[a] + 1, Len(q[a]))
      BY Zenon DEF Drained, PSOType
  <2> QED
      BY <2>1, <2>2, <2>3, <2>4
<1>2. \A a \in Addrs : SubSeq(q[a], k[a] + 1, Len(q[a])) \in Seq(Values)
    BY <1>1, Suffix
<1>3. buffer' \in [Threads -> [Addrs -> Seq(Values)]]
    BY <1>2 DEF Drained, PSOType
<1>4. mem' \in [Addrs -> Values \cup {0}]
  <2>1. ASSUME NEW a \in Addrs
        PROVE  mem'[a] \in Values \cup {0}
    <3>1. k[a] # 0 => q[a][k[a]] \in Values
        BY <1>1
    <3>2. mem[a] \in Values \cup {0}
        BY DEF PSOType
    <3> QED
        BY <1>1, <3>1, <3>2
  <2> QED
      BY <2>1 DEF Drained
<1>5. \A u \in Threads \ {t} : buffer'[u] = buffer[u]
    BY DEF Drained, PSOType
<1>6. ASSUME NEW a \in Addrs, q[a] = <<>>
      PROVE  mem'[a] = mem[a] /\ buffer'[t][a] = <<>>
  <2>1. q[a] \in Seq(Values) /\ k[a] \in 0 .. Len(q[a])
      BY <1>1
  <2>2. Len(q[a]) = 0
      BY <1>6
  <2>3. k[a] = 0
      BY <2>1, <2>2
  <2>4. SubSeq(q[a], k[a] + 1, Len(q[a])) = <<>>
      BY <2>1, <2>2, <2>3, Suffix
  <2> QED
      BY <1>1, <2>3, <2>4
<1>7. ASSUME NEW a \in Addrs, q[a] # <<>>
      PROVE  RetrieveValue(t, a)' = Newest(q[a])
  <2>1. CASE k[a] = Len(q[a])
    <3>1. buffer'[t][a] = <<>>
        BY <1>1, <2>1, Suffix
    <3>2. Len(q[a]) # 0
        BY <1>1, <1>7
    <3>3. mem'[a] = Newest(q[a])
        BY <1>1, <2>1, <3>2 DEF Newest
    <3> QED
        BY <3>1, <3>3 DEF RetrieveValue
  <2>2. CASE k[a] < Len(q[a])
    <3>1. LET s == SubSeq(q[a], k[a] + 1, Len(q[a])) IN s # <<>> /\ Newest(s) = Newest(q[a])
      <4>1. q[a] \in Seq(Values) /\ k[a] \in 0 .. Len(q[a])
          BY <1>1
      <4> QED
          BY <2>2, <4>1, Suffix
    <3> QED
        BY <1>1, <3>1, Zenon DEF RetrieveValue
  <2> QED
      BY <1>1, <2>1, <2>2
<1> QED
    BY <1>3, <1>4, <1>5, <1>6, <1>7

\* A step that drains keeps the invariant.
LEMMA DrainKeeps ==
    ASSUME PSOInv, NEW t \in Threads, NEW q \in [Addrs -> Seq(Values)], NEW k,
           NEW L \in [Addrs -> Seq(Values)], DrainStep(t, q, k, L)
    PROVE  PSOInv'
<1> USE DEF PSOInv, DrainStep
<1>1. /\ buffer' \in [Threads -> [Addrs -> Seq(Values)]]
      /\ mem' \in [Addrs -> Values \cup {0}]
      /\ \A u \in Threads \ {t} : buffer'[u] = buffer[u]
      /\ \A a \in Addrs : q[a] = <<>> => mem'[a] = mem[a] /\ buffer'[t][a] = <<>>
      /\ \A a \in Addrs : q[a] # <<>> => RetrieveValue(t, a)' = Newest(q[a])
    BY DrainedFacts, Zenon
<1>2. /\ lastStored' \in [Threads -> [Addrs -> Seq(Values)]]
      /\ lastStored'[t] = L
      /\ \A u \in Threads \ {t} : lastStored'[u] = lastStored[u]
    BY DEF PSOType
<1>3. PSOType'
    BY <1>1, <1>2 DEF PSOType
<1>4. WrittenOK'
  <2>1. written[t] = None
      BY DEF WrittenOK
  <2>2. \A a \in Addrs : written[t][a] <= Len(buffer'[t][a])
      BY <1>1, <2>1 DEF None
  <2>3. \A u \in Threads \ {t} : \A a \in Addrs : written[u][a] <= Len(buffer'[u][a])
      BY <1>1, Zenon DEF WrittenOK
  <2>4. \A u \in Threads : \A a \in Addrs : written[u][a] <= Len(buffer'[u][a])
      BY <2>2, <2>3
  <2> QED
      BY <2>4 DEF WrittenOK
<1>e. \A a \in Addrs : L[a] = <<>> => q[a] = buffer[t][a] /\ lastStored[t][a] = <<>>
  <2>1. \A x : <<x>> # <<>>
      OBVIOUS
  <2> QED
      BY <2>1, Zenon
<1>5. BufferedWasStored'
  <2>1. SUFFICES ASSUME NEW u \in Threads, NEW a \in Addrs, lastStored'[u][a] = <<>>
                 PROVE  buffer'[u][a] = <<>>
      BY DEF BufferedWasStored
  <2>2. CASE u = t
    <3>1. L[a] = <<>>
        BY <1>2, <2>1, <2>2
    <3>2. q[a] = buffer[t][a] /\ lastStored[t][a] = <<>>
        BY <1>e, <3>1
    <3>3. q[a] = <<>>
        BY <3>2 DEF BufferedWasStored
    <3> QED
        BY <1>1, <2>2, <3>3
  <2>3. CASE u # t
    <3>1. buffer'[u] = buffer[u] /\ lastStored[u][a] = <<>>
        BY <1>1, <1>2, <2>1, <2>3
    <3> QED
        BY <3>1 DEF BufferedWasStored
  <2> QED
      BY <2>2, <2>3
<1>6. ReadsOwnWrites'
  <2>1. SUFFICES ASSUME NEW u \in Threads, NEW a \in Addrs,
                        phase[u] = "running", lastStored'[u][a] # <<>>,
                        \A w \in Threads \ {u} : lastStored'[w][a] = <<>>
                 PROVE  lastStored'[u][a] = <<RetrieveValue(u, a)'>>
      BY DEF ReadsOwnWrites
  <2>2. CASE u # t
    <3>1. lastStored[t][a] = <<>> /\ q[a] = buffer[t][a]
        BY <1>e, <1>2, <2>1, <2>2
    <3>2. mem'[a] = mem[a] /\ buffer'[u] = buffer[u]
        BY <1>1, <2>2, <3>1 DEF BufferedWasStored
    <3>3. \A w \in Threads : lastStored'[w][a] = lastStored[w][a]
        BY <1>2, <2>1, <2>2, <3>1
    <3>4. lastStored[u][a] = <<RetrieveValue(u, a)>>
      <4>1. /\ phase[u] = "running" /\ lastStored[u][a] # <<>>
            /\ \A w \in Threads \ {u} : lastStored[w][a] = <<>>
          BY <2>1, <3>3
      <4> HIDE DEF DrainStep
      <4> QED
          BY <4>1 DEF ReadsOwnWrites
    <3> QED
        BY <3>2, <3>3, <3>4 DEF RetrieveValue, Newest
  <2>3. CASE u = t /\ q[a] # <<>> /\ L[a] = <<Newest(q[a])>>
      BY <1>1, <1>2, <2>3
  <2>4. CASE u = t /\ q[a] = buffer[t][a] /\ L[a] = lastStored[t][a]
    <3>1. lastStored[t][a] = <<RetrieveValue(t, a)>>
        BY <1>2, <2>1, <2>4 DEF ReadsOwnWrites
    <3>2. CASE buffer[t][a] = <<>>
        BY <1>1, <1>2, <2>4, <3>1, <3>2 DEF RetrieveValue
    <3>3. CASE buffer[t][a] # <<>>
      <4>1. RetrieveValue(t, a)' = RetrieveValue(t, a)
          BY <1>1, <2>4, <3>3 DEF RetrieveValue
      <4> QED
          BY <1>2, <2>4, <3>1, <4>1
    <3> QED
        BY <3>2, <3>3
  <2> QED
      BY <2>2, <2>3, <2>4
<1> QED
    BY <1>3, <1>4, <1>5, <1>6

-----------------------------------------------------------------------------
\* The invariant holds before the first callback.
LEMMA PSOInit == Init => PSOInv
<1> SUFFICES ASSUME Init PROVE PSOInv
    OBVIOUS
<1>1. NoInput \in Input
    BY InputAssumption DEF NoInput, Input, Slots
<1>2. PSOType
    BY <1>1 DEF Init, PSOType, None, NoStores
<1>3. WrittenOK
    BY DEF Init, WrittenOK, None, NoStores
<1>4. BufferedWasStored /\ ReadsOwnWrites
    BY DEF Init, BufferedWasStored, ReadsOwnWrites, NoStores
<1> QED
    BY <1>2, <1>3, <1>4 DEF PSOInv

\* The lists a store leaves before flushAfterInsn() looks at them.
LEMMA StoreDrains ==
    ASSUME PSOType, NEW t \in Threads, NEW a \in Addrs, NEW v \in Values, store(t, a, v)
    PROVE  LET q == [buffer[t] EXCEPT ![a] = Append(@, v)] IN
           /\ q \in [Addrs -> Seq(Values)]
           /\ q[a] # <<>> /\ Newest(q[a]) = v
           /\ \A b \in Addrs \ {a} : q[b] = buffer[t][b]
           /\ \E k : Drained(t, q, k)
           /\ bufferSize' \in [Threads -> Nat]
           /\ input' \in Input
<1> DEFINE q == [buffer[t] EXCEPT ![a] = Append(@, v)]
<1>1. buffer[t] \in [Addrs -> Seq(Values)] /\ bufferSize[t] + 1 \in Nat
    BY DEF PSOType
<1>2. q \in [Addrs -> Seq(Values)] /\ q[a] = Append(buffer[t][a], v)
    BY <1>1
<1>3. q[a] # <<>> /\ Newest(q[a]) = v
    BY <1>1, <1>2 DEF Newest
<1>4. \A b \in Addrs \ {a} : q[b] = buffer[t][b]
    BY <1>1
<1>5. flushAfterInsn(t, q, bufferSize[t] + 1, a)
    BY DEF store
<1> HIDE DEF q
<1>6. /\ \E k : Drained(t, q, k)
      /\ bufferSize' \in [Threads -> Nat]
      /\ input' \in Input
    BY <1>1, <1>2, <1>5, AfterInsnDrains
<1> QED
    BY <1>2, <1>3, <1>4, <1>6 DEF q

\* A load drains the lists as they are.
LEMMA LoadDrains ==
    ASSUME PSOType, NEW t \in Threads, NEW a \in Addrs, retrieve(t, a)
    PROVE  /\ buffer[t] \in [Addrs -> Seq(Values)]
           /\ \E k : Drained(t, buffer[t], k)
           /\ bufferSize' \in [Threads -> Nat]
           /\ input' \in Input
<1>1. buffer[t] \in [Addrs -> Seq(Values)] /\ bufferSize[t] \in Nat
    BY DEF PSOType
<1>2. flushAfterInsn(t, buffer[t], bufferSize[t], a)
    BY DEF retrieve
<1> DEFINE q == buffer[t]
           n == bufferSize[t]
<1> HIDE DEF q, n
<1>3. /\ \E k : Drained(t, q, k)
      /\ bufferSize' \in [Threads -> Nat]
      /\ input' \in Input
  <2>1. q \in [Addrs -> Seq(Values)] /\ n \in Nat /\ flushAfterInsn(t, q, n, a)
      BY <1>1, <1>2 DEF q, n
  <2> QED
      BY <2>1, AfterInsnDrains
<1> QED
    BY <1>1, <1>3 DEF q

\* Every step keeps the invariant.
LEMMA PSOStep == PSOInv /\ [Next]_vars => PSOInv'
<1> SUFFICES ASSUME PSOInv, [Next]_vars PROVE PSOInv'
    OBVIOUS
<1>t. PSOType
    BY DEF PSOInv
<1>1. ASSUME NEW t \in Threads, NEW a \in Addrs, NEW v \in Values, store(t, a, v)
      PROVE  PSOInv'
  <2> DEFINE q == [buffer[t] EXCEPT ![a] = Append(@, v)]
             L == [lastStored[t] EXCEPT ![a] = <<v>>]
  <2>1. /\ q \in [Addrs -> Seq(Values)]
        /\ q[a] # <<>> /\ Newest(q[a]) = v
        /\ \A b \in Addrs \ {a} : q[b] = buffer[t][b]
        /\ \E k : Drained(t, q, k)
        /\ bufferSize' \in [Threads -> Nat]
        /\ input' \in Input
      BY <1>t, <1>1, StoreDrains
  <2> HIDE DEF q
  <2>2. PICK k : Drained(t, q, k)
      BY <2>1
  <2>3. lastStored[t] \in [Addrs -> Seq(Values)] /\ <<v>> \in Seq(Values)
      BY <1>t DEF PSOType
  <2>4. /\ L \in [Addrs -> Seq(Values)]
        /\ L[a] = <<v>>
        /\ \A b \in Addrs \ {a} : L[b] = lastStored[t][b]
      BY <2>3
  <2>5. lastStored' = [lastStored EXCEPT ![t] = L]
      BY <1>1, <1>t DEF store, PSOType
  <2> HIDE DEF L
  <2>6. \A b \in Addrs : \/ q[b] = buffer[t][b] /\ L[b] = lastStored[t][b]
                         \/ q[b] # <<>> /\ L[b] = <<Newest(q[b])>>
      BY <2>1, <2>4
  <2>7. phase[t] = "running" /\ UNCHANGED <<phase, written>> /\ DOMAIN result' = Threads
      BY <1>1, <1>t DEF store, PSOType
  <2>8. DrainStep(t, q, k, L)
      BY <2>1, <2>2, <2>5, <2>6, <2>7 DEF DrainStep
  <2> QED
      BY <2>1, <2>4, <2>8, DrainKeeps
<1>2. ASSUME NEW t \in Threads, NEW q \in [Addrs -> Seq(Values)], q = buffer[t],
             phase[t] = "running", \E k : Drained(t, q, k),
             bufferSize' \in [Threads -> Nat], input' \in Input,
             UNCHANGED <<phase, written, lastStored>>, DOMAIN result' = Threads
      PROVE  PSOInv'
  <2> DEFINE L == lastStored[t]
  <2>1. L \in [Addrs -> Seq(Values)] /\ lastStored' = [lastStored EXCEPT ![t] = L]
      BY <1>2, <1>t DEF PSOType
  <2>2. PICK k : Drained(t, q, k)
      BY <1>2
  <2>3. \A b \in Addrs : q[b] = buffer[t][b] /\ L[b] = lastStored[t][b]
      BY <1>2
  <2> HIDE DEF L
  <2>4. DrainStep(t, q, k, L)
      BY <1>2, <2>1, <2>2, <2>3, Zenon DEF DrainStep
  <2> QED
      BY <1>2, <2>1, <2>4, DrainKeeps
<1>3. ASSUME NEW t \in Threads, NEW a \in Addrs, retrieve(t, a)
      PROVE  PSOInv'
  <2>1. /\ phase[t] = "running" /\ UNCHANGED <<phase, written, lastStored>>
        /\ DOMAIN result' = Threads
      BY <1>3, <1>t DEF retrieve, PSOType
  <2> QED
      BY <1>2, <1>3, <1>t, <2>1, LoadDrains, Zenon
<1>4. ASSUME NEW t \in Threads, flushCallback(t)
      PROVE  PSOInv'
  <2>1. /\ buffer[t] \in [Addrs -> Seq(Values)]
        /\ \E k : Drained(t, buffer[t], k)
        /\ bufferSize' = [bufferSize EXCEPT ![t] = 0]
    <3>1. buffer[t] \in [Addrs -> Seq(Values)] /\ flushAll(t, buffer[t])
        BY <1>4, <1>t DEF flushCallback, PSOType
    <3> QED
        BY <1>t, <3>1, FlushAllDrains
  <2>2. /\ phase[t] = "running" /\ UNCHANGED <<phase, written, lastStored>>
        /\ DOMAIN result' = Threads /\ input' \in Input
      BY <1>4, <1>t DEF flushCallback, PSOType
  <2>3. bufferSize' \in [Threads -> Nat]
      BY <1>t, <2>1 DEF PSOType
  <2> QED
      BY <1>2, <2>1, <2>2, <2>3, Zenon
<1>5. ASSUME NEW t \in Threads, Exit(t)
      PROVE  PSOInv'
  <2>1. /\ phase' \in [Threads -> {"running", "exiting", "gone"}]
        /\ \A u \in Threads : phase'[u] = "running" => phase[u] = "running"
      BY <1>5, <1>t DEF Exit, PSOType
  <2>2. UNCHANGED <<mem, buffer, bufferSize, input, written, result, lastStored>>
      BY <1>5 DEF Exit
  <2>3. PSOType' /\ WrittenOK' /\ BufferedWasStored'
      BY <1>t, <2>1, <2>2 DEF PSOInv, PSOType, WrittenOK, BufferedWasStored
  <2>4. ReadsOwnWrites'
      BY <2>1, <2>2 DEF PSOInv, ReadsOwnWrites, RetrieveValue, Newest
  <2> QED
      BY <2>3, <2>4 DEF PSOInv
<1>6. ASSUME NEW t \in Threads, ExitWrite(t)
      PROVE  PSOInv'
  <2>1. PICK a \in Addrs :
               /\ written[t][a] < Len(buffer[t][a])
               /\ mem' = [mem EXCEPT ![a] = buffer[t][a][written[t][a] + 1]]
               /\ written' = [written EXCEPT ![t][a] = @ + 1]
      BY <1>6, Zenon DEF ExitWrite, Unwritten
  <2>2. /\ phase[t] = "exiting"
        /\ UNCHANGED <<buffer, bufferSize, input, phase, result, lastStored>>
      BY <1>6 DEF ExitWrite
  <2>3. /\ buffer[t][a] \in Seq(Values) /\ Len(buffer[t][a]) \in Nat
        /\ written[t][a] \in Nat
        /\ buffer[t][a][written[t][a] + 1] \in Values
    <3>1. buffer[t][a] \in Seq(Values) /\ written[t][a] \in Nat
        BY <1>t DEF PSOType
    <3> QED
        BY <2>1, <3>1
  <2>4. /\ written' \in [Threads -> [Addrs -> Nat]]
        /\ written'[t][a] = written[t][a] + 1
        /\ \A b \in Addrs \ {a} : written'[t][b] = written[t][b]
        /\ \A u \in Threads \ {t} : written'[u] = written[u]
      BY <1>t, <2>1, <2>3 DEF PSOType
  <2>5. PSOType'
      BY <1>t, <2>1, <2>2, <2>3, <2>4 DEF PSOType
  <2>6. WrittenOK'
    <3>1. \A u \in Threads \ {t} :
              /\ \A b \in Addrs : written'[u][b] <= Len(buffer'[u][b])
              /\ phase'[u] = "running" => written'[u] = None
        BY <2>2, <2>4 DEF PSOInv, WrittenOK
    <3>2. \A b \in Addrs : written'[t][b] <= Len(buffer'[t][b])
      <4>1. written'[t][a] <= Len(buffer'[t][a])
          BY <2>1, <2>2, <2>3, <2>4
      <4>2. \A b \in Addrs \ {a} : written'[t][b] <= Len(buffer'[t][b])
          BY <2>2, <2>4 DEF PSOInv, WrittenOK
      <4> QED
          BY <4>1, <4>2
    <3> QED
        BY <2>2, <3>1, <3>2 DEF WrittenOK
  <2>7. BufferedWasStored'
      BY <2>2 DEF PSOInv, BufferedWasStored
  <2>8. lastStored[t][a] # <<>>
    <3>1. buffer[t][a] # <<>>
        BY <2>1, <2>3
    <3> QED
        BY <3>1 DEF PSOInv, BufferedWasStored
  <2>9. ReadsOwnWrites'
    <3>1. SUFFICES ASSUME NEW u \in Threads, NEW b \in Addrs,
                          phase[u] = "running", lastStored[u][b] # <<>>,
                          \A w \in Threads \ {u} : lastStored[w][b] = <<>>
                   PROVE  lastStored[u][b] = <<RetrieveValue(u, b)'>>
        BY <2>2 DEF ReadsOwnWrites
    <3>2. b # a
        BY <2>2, <2>8, <3>1
    <3>3. mem'[b] = mem[b]
        BY <1>t, <2>1, <3>2 DEF PSOType
    <3>4. lastStored[u][b] = <<RetrieveValue(u, b)>>
        BY <3>1 DEF PSOInv, ReadsOwnWrites
    <3> QED
        BY <2>2, <3>3, <3>4 DEF RetrieveValue, Newest
  <2> QED
      BY <2>5, <2>6, <2>7, <2>9 DEF PSOInv
<1>7. ASSUME NEW t \in Threads, ExitDone(t)
      PROVE  PSOInv'
  <2>1. /\ phase[t] = "exiting" /\ phase' = [phase EXCEPT ![t] = "gone"]
        /\ buffer' = [buffer EXCEPT ![t] = NoStores]
        /\ bufferSize' = [bufferSize EXCEPT ![t] = 0]
        /\ written' = [written EXCEPT ![t] = None]
        /\ UNCHANGED <<mem, input, result, lastStored>>
      BY <1>7 DEF ExitDone
  <2>2. NoStores \in [Addrs -> Seq(Values)] /\ None \in [Addrs -> Nat]
      BY DEF NoStores, None
  <2>3. PSOType'
      BY <1>t, <2>1, <2>2 DEF PSOType
  <2>4. /\ buffer'[t] = NoStores /\ written'[t] = None /\ phase'[t] = "gone"
        /\ \A u \in Threads \ {t} :
               buffer'[u] = buffer[u] /\ written'[u] = written[u] /\ phase'[u] = phase[u]
      BY <1>t, <2>1 DEF PSOType
  <2>5. WrittenOK'
    <3>1. \A b \in Addrs : written'[t][b] <= Len(buffer'[t][b])
        BY <2>4 DEF None, NoStores
    <3>2. \A u \in Threads \ {t} :
              /\ \A b \in Addrs : written'[u][b] <= Len(buffer'[u][b])
              /\ phase'[u] = "running" => written'[u] = None
        BY <2>4 DEF PSOInv, WrittenOK
    <3> QED
        BY <2>4, <3>1, <3>2 DEF WrittenOK
  <2>6. BufferedWasStored'
      BY <2>1, <2>4 DEF PSOInv, BufferedWasStored, NoStores
  <2>7. ReadsOwnWrites'
    <3>1. SUFFICES ASSUME NEW u \in Threads, NEW b \in Addrs,
                          phase'[u] = "running", lastStored[u][b] # <<>>,
                          \A w \in Threads \ {u} : lastStored[w][b] = <<>>
                   PROVE  lastStored[u][b] = <<RetrieveValue(u, b)'>>
        BY <2>1 DEF ReadsOwnWrites
    <3>2. buffer'[u] = buffer[u] /\ phase[u] = "running"
        BY <2>4, <3>1
    <3>3. lastStored[u][b] = <<RetrieveValue(u, b)>>
        BY <3>1, <3>2 DEF PSOInv, ReadsOwnWrites
    <3> QED
        BY <2>1, <3>2, <3>3 DEF RetrieveValue, Newest
  <2> QED
      BY <2>3, <2>5, <2>6, <2>7 DEF PSOInv
<1>8. ASSUME UNCHANGED <<mem, buffer, bufferSize, phase, written, result, lastStored>>,
             input' \in Input
      PROVE  PSOInv'
    BY <1>8, <1>t DEF PSOInv, PSOType, WrittenOK, BufferedWasStored, ReadsOwnWrites,
                      RetrieveValue, Newest
<1>9. ASSUME NEW vec \in Vectors, feedinput(vec)
      PROVE  PSOInv'
  <2>1. vec \in Seq(Nat) /\ Len(vec) \in 0 .. kMaxInputSize
      BY InputAssumption
  <2>2. \A i \in Slots : i < Len(vec) => vec[i + 1] \in Nat
      BY <2>1, InputAssumption DEF Slots
  <2>3. FeedInput(input, vec) \in Input
      BY <1>t, <2>1, <2>2, Zenon DEF FeedInput, Input, PSOType
  <2> QED
      BY <1>8, <1>9, <2>3 DEF feedinput
<1>10. CASE UNCHANGED vars
    BY <1>8, <1>10, <1>t DEF vars, PSOType
<1> QED
    BY <1>1, <1>3, <1>4, <1>5, <1>6, <1>7, <1>9, <1>10 DEF Next

\* The inductive invariant of the PSO runtime.
LEMMA PSOInvariant == Spec => []PSOInv
    BY PSOInit, PSOStep, PTL DEF Spec

\* A thread reads its own writes: at an address no other thread has stored to,
\* retrieve() returns the newest value the thread has stored, whatever part of its
\* stores flushAfterInsn() has let go.
THEOREM OwnWrites == Spec => []ReadsOwnWrites
<1>1. PSOInv => ReadsOwnWrites
    BY DEF PSOInv
<1> QED
    BY <1>1, PSOInvariant, PTL

-----------------------------------------------------------------------------
\* The queue of a list of which w values are written, after one more is: its tail.
LEMMA SuffixTail ==
    ASSUME NEW S, NEW s \in Seq(S), NEW w \in Nat, w < Len(s)
    PROVE  LET q == SubSeq(s, w + 1, Len(s)) IN
           /\ q \in Seq(S) /\ Len(q) >= 1
           /\ q[1] = s[w + 1]
           /\ SubSeq(q, 2, Len(q)) = SubSeq(s, w + 2, Len(s))
<1> DEFINE q == SubSeq(s, w + 1, Len(s))
           r == SubSeq(s, (w + 1) + 1, Len(s))
           p == SubSeq(q, 1 + 1, Len(q))
<1>1. Len(s) \in Nat /\ w \in 0 .. Len(s) /\ w + 1 \in 0 .. Len(s)
    OBVIOUS
<1>2. q \in Seq(S) /\ Len(q) = Len(s) - w /\ \A i \in 1 .. Len(s) - w : q[i] = s[w + i]
    BY <1>1, Suffix
<1>3. /\ r \in Seq(S) /\ Len(r) = Len(s) - (w + 1)
      /\ \A i \in 1 .. Len(s) - (w + 1) : r[i] = s[(w + 1) + i]
    BY <1>1, Suffix
<1> HIDE DEF q, r
<1>4. p \in Seq(S) /\ Len(p) = Len(q) - 1 /\ \A i \in 1 .. Len(q) - 1 : p[i] = q[1 + i]
  <2>1. 1 \in 0 .. Len(q)
      BY <1>1, <1>2
  <2> QED
      BY <1>2, <2>1, Suffix
<1> HIDE DEF p
<1>5. p = r
  <2>1. Len(p) = Len(r)
      BY <1>1, <1>2, <1>3, <1>4
  <2>2. ASSUME NEW i \in 1 .. Len(r)
        PROVE  p[i] = r[i]
    <3>1. p[i] = q[1 + i]
        BY <1>1, <1>2, <1>3, <1>4
    <3>2. q[1 + i] = s[w + (1 + i)]
        BY <1>1, <1>2, <1>3
    <3>3. r[i] = s[(w + 1) + i]
        BY <1>1, <1>3, Zenon
    <3>4. w + (1 + i) = (w + 1) + i
        BY <1>1, <1>3
    <3> QED
        BY <3>1, <3>2, <3>3, <3>4
  <2>3. p = [i \in 1 .. Len(p) |-> p[i]] /\ r = [i \in 1 .. Len(r) |-> r[i]]
      BY <1>3, <1>4
  <2> QED
      BY <2>1, <2>2, <2>3
<1>6. Len(q) >= 1 /\ q[1] = s[w + 1]
    BY <1>1, <1>2
<1>7. (w + 1) + 1 = w + 2 /\ 1 + 1 = 2
    OBVIOUS
<1> QED
    BY <1>2, <1>5, <1>6, <1>7 DEF p, q, r

\* The queues of a thread that has not reached its destructor are its lists.
LEMMA UnflushedRunning ==
    ASSUME PSOInv, NEW t \in Threads, phase[t] = "running"
    PROVE  Unflushed[t] = buffer[t]
<1>1. written[t] = None /\ buffer[t] \in [Addrs -> Seq(Values)]
    BY DEF PSOInv, PSOType, WrittenOK
<1>2. \A a \in Addrs : SubSeq(buffer[t][a], 0 + 1, Len(buffer[t][a])) = buffer[t][a]
    BY <1>1, Suffix
<1>3. \A a \in Addrs : written[t][a] + 1 = 0 + 1
    BY <1>1 DEF None
<1> QED
    BY <1>1, <1>2, <1>3, Zenon DEF Unflushed

\* A drain of the concrete buffer is a drain of the abstract one.
LEMMA DrainRefines ==
    ASSUME PSOInv, PSOInv', NEW t \in Threads, phase[t] = "running",
           UNCHANGED <<phase, written>>,
           NEW q \in [Addrs -> Seq(Values)], NEW k, Drained(t, q, k)
    PROVE  Abstract!DrainSome(t, q)
<1>1. Unflushed'[t] = buffer'[t]
  <2>1. written'[t] = None /\ buffer'[t] \in [Addrs -> Seq(Values)]
      BY DEF PSOInv, PSOType, WrittenOK
  <2>2. \A a \in Addrs : SubSeq(buffer'[t][a], 0 + 1, Len(buffer'[t][a])) = buffer'[t][a]
      BY <2>1, Suffix
  <2>3. \A a \in Addrs : written'[t][a] + 1 = 0 + 1
      BY <2>1 DEF None
  <2> QED
      BY <2>1, <2>2, <2>3, Zenon DEF Unflushed
<1>2. buffer'[t] = [a \in Addrs |-> SubSeq(q[a], k[a] + 1, Len(q[a]))]
    BY DEF Drained, PSOInv, PSOType
<1>3. \A u \in Threads \ {t} : Unflushed'[u] = Unflushed[u]
    BY DEF Unflushed, Drained, PSOInv, PSOType
<1>4. Unflushed' = [Unflushed EXCEPT ![t] = [a \in Addrs |-> SubSeq(q[a], k[a] + 1, Len(q[a]))]]
  <2> DEFINE n == [a \in Addrs |-> SubSeq(q[a], k[a] + 1, Len(q[a]))]
  <2>1. Unflushed'[t] = n
      BY <1>1, <1>2
  <2> HIDE DEF n
  <2>2. /\ Unflushed = [u \in Threads |-> Unflushed[u]]
        /\ Unflushed' = [u \in Threads |-> Unflushed'[u]]
      BY DEF Unflushed
  <2>3. Unflushed' = [Unflushed EXCEPT ![t] = n]
      BY <1>3, <2>1, <2>2
  <2> QED
      BY <2>3 DEF n
<1>5. Abstract!Drain(t, q, k)
    BY <1>4 DEF Abstract!Drain, Drained
<1> QED
    BY <1>5, Zenon DEF Abstract!DrainSome, Drained

\* A value the destructor writes is the oldest of its abstract queue.
LEMMA ExitWriteRefines ==
    ASSUME PSOInv, NEW t \in Threads, ExitWrite(t)
    PROVE  Abstract!Flush(t)
<1>1. PICK a \in Addrs :
             /\ written[t][a] < Len(buffer[t][a])
             /\ mem' = [mem EXCEPT ![a] = buffer[t][a][written[t][a] + 1]]
             /\ written' = [written EXCEPT ![t][a] = @ + 1]
    BY Zenon DEF ExitWrite, Unwritten
<1>2. UNCHANGED <<buffer, result>>
    BY DEF ExitWrite
<1> DEFINE q == Unflushed[t]
           k == [b \in Addrs |-> IF b = a THEN 1 ELSE 0]
           n == [b \in Addrs |-> SubSeq(q[b], k[b] + 1, Len(q[b]))]
<1>3. /\ written \in [Threads -> [Addrs -> Nat]]
      /\ buffer \in [Threads -> [Addrs -> Seq(Values)]]
      /\ mem \in [Addrs -> Values \cup {0}]
      /\ \A b \in Addrs : written[t][b] \in 0 .. Len(buffer[t][b])
  <2>1. PSOType /\ \A b \in Addrs : written[t][b] <= Len(buffer[t][b])
      BY DEF PSOInv, WrittenOK
  <2> QED
      BY <2>1 DEF PSOType
<1>4. /\ written'[t][a] = written[t][a] + 1
      /\ \A b \in Addrs \ {a} : written'[t][b] = written[t][b]
      /\ \A u \in Threads \ {t} : written'[u] = written[u]
    BY <1>1, <1>3
<1>5. \A b \in Addrs : /\ q[b] = SubSeq(buffer[t][b], written[t][b] + 1, Len(buffer[t][b]))
                       /\ q[b] \in Seq(Values)
  <2>1. \A b \in Addrs : q[b] = SubSeq(buffer[t][b], written[t][b] + 1, Len(buffer[t][b]))
      BY Zenon DEF Unflushed
  <2> HIDE DEF q
  <2>2. ASSUME NEW b \in Addrs
        PROVE  q[b] \in Seq(Values)
    <3> DEFINE s == buffer[t][b]
               w == written[t][b]
    <3>1. s \in Seq(Values) /\ w \in 0 .. Len(s) /\ q[b] = SubSeq(s, w + 1, Len(s))
        BY <1>3, <2>1
    <3> HIDE DEF s, w
    <3> QED
        BY <3>1, Suffix
  <2> QED
      BY <2>1, <2>2
<1> HIDE DEF q
<1>6. /\ Len(q[a]) >= 1
      /\ q[a][1] = buffer[t][a][written[t][a] + 1]
      /\ SubSeq(q[a], 2, Len(q[a])) = SubSeq(buffer[t][a], written[t][a] + 2, Len(buffer[t][a]))
  <2> DEFINE s == buffer[t][a]
             w == written[t][a]
  <2>1. s \in Seq(Values) /\ w \in Nat /\ w < Len(s) /\ q[a] = SubSeq(s, w + 1, Len(s))
      BY <1>1, <1>3, <1>5
  <2> HIDE DEF s, w
  <2>2. /\ Len(q[a]) >= 1 /\ q[a][1] = s[w + 1]
        /\ SubSeq(q[a], 2, Len(q[a])) = SubSeq(s, w + 2, Len(s))
      BY <2>1, SuffixTail
  <2> QED
      BY <2>2, Zenon DEF s, w
<1>7. Unflushed'[t] = n
  <2>1. Unflushed'[t] = [b \in Addrs |->
            SubSeq(buffer[t][b], written'[t][b] + 1, Len(buffer[t][b]))]
      BY <1>2 DEF Unflushed
  <2>2. SubSeq(buffer[t][a], written'[t][a] + 1, Len(buffer[t][a])) = n[a]
    <3>1. written'[t][a] + 1 = written[t][a] + 2
        BY <1>3, <1>4
    <3>2. n[a] = SubSeq(q[a], 1 + 1, Len(q[a]))
        BY <1>5
    <3>3. n[a] = SubSeq(q[a], 2, Len(q[a]))
        BY <3>2
    <3> HIDE DEF n
    <3> QED
        BY <1>6, <3>1, <3>3, Zenon
  <2>3. ASSUME NEW b \in Addrs \ {a}
        PROVE  SubSeq(buffer[t][b], written'[t][b] + 1, Len(buffer[t][b])) = n[b]
    <3>1. n[b] = SubSeq(q[b], 0 + 1, Len(q[b]))
        BY DEF n
    <3>2. n[b] = q[b]
        BY <1>5, <3>1, Suffix
    <3> QED
        BY <1>4, <1>5, <3>2, Zenon
  <2> QED
      BY <2>1, <2>2, <2>3, Zenon
<1>8. \A u \in Threads \ {t} : Unflushed'[u] = Unflushed[u]
    BY <1>2, <1>4, Zenon DEF Unflushed
<1>9. k \in [Addrs -> Nat] /\ \A b \in Addrs : k[b] <= Len(q[b])
    BY <1>5, <1>6
<1>10. mem' = [b \in Addrs |-> IF k[b] = 0 THEN mem[b] ELSE q[b][k[b]]]
  <2>1. mem' = [b \in Addrs |-> IF b = a THEN q[a][1] ELSE mem[b]]
      BY <1>1, <1>3, <1>6, Zenon
  <2>2. \A b \in Addrs : (IF k[b] = 0 THEN mem[b] ELSE q[b][k[b]])
                          = IF b = a THEN q[a][1] ELSE mem[b]
      OBVIOUS
  <2> HIDE DEF k
  <2> QED
      BY <2>1, <2>2
<1>11. Unflushed' = [Unflushed EXCEPT ![t] = n]
  <2>1. /\ Unflushed = [u \in Threads |-> Unflushed[u]]
        /\ Unflushed' = [u \in Threads |-> Unflushed'[u]]
      BY DEF Unflushed
  <2> HIDE DEF n
  <2> QED
      BY <1>7, <1>8, <2>1
<1>12. Abstract!Drain(t, Unflushed[t], k)
    BY <1>10, <1>11 DEF Abstract!Drain, q
<1> HIDE DEF k
<1>13. Abstract!DrainSome(t, Unflushed[t])
    BY <1>9, <1>12 DEF Abstract!DrainSome, q
<1> QED
    BY <1>2, <1>13 DEF Abstract!Flush

\* When the destructor is done nothing waits, before and after the map is emptied.
LEMMA ExitDoneRefines ==
    ASSUME PSOInv, NEW t \in Threads, ExitDone(t)
    PROVE  Unflushed' = Unflushed
<1>1. /\ buffer \in [Threads -> [Addrs -> Seq(Values)]]
      /\ written \in [Threads -> [Addrs -> Nat]]
    BY DEF PSOInv, PSOType
<1>2. /\ buffer'[t] = NoStores /\ written'[t] = None
      /\ \A u \in Threads \ {t} : buffer'[u] = buffer[u] /\ written'[u] = written[u]
    BY <1>1 DEF ExitDone
<1>3. \A a \in Addrs : written[t][a] = Len(buffer[t][a])
    BY <1>1 DEF ExitDone, Unwritten, PSOInv, WrittenOK
<1>4. \A a \in Addrs : SubSeq(buffer[t][a], written[t][a] + 1, Len(buffer[t][a])) = <<>>
  <2>1. \A a \in Addrs : buffer[t][a] \in Seq(Values) /\ written[t][a] \in 0 .. Len(buffer[t][a])
      BY <1>1, <1>3
  <2> QED
      BY <1>3, <2>1, Suffix
<1>5. \A a \in Addrs : SubSeq(buffer'[t][a], written'[t][a] + 1, Len(buffer'[t][a])) = <<>>
  <2>1. SubSeq(<<>>, 0 + 1, Len(<<>>)) = <<>>
      OBVIOUS
  <2> QED
      BY <1>2, <2>1 DEF NoStores, None
<1> QED
    BY <1>2, <1>4, <1>5, Zenon DEF Unflushed

\* Every step of the runtime is a step of the abstract store buffer or a stutter.
LEMMA StepRefines ==
    ASSUME PSOInv, PSOInv', [Next]_vars
    PROVE  [Abstract!Next]_(Abstract!vars)
<1>t. PSOType
    BY DEF PSOInv
<1>1. ASSUME NEW t \in Threads, NEW a \in Addrs, NEW v \in Values, store(t, a, v)
      PROVE  Abstract!Store(t, a, v)
  <2> DEFINE q == [buffer[t] EXCEPT ![a] = Append(@, v)]
  <2>1. q \in [Addrs -> Seq(Values)] /\ \E k : Drained(t, q, k)
      BY <1>t, <1>1, StoreDrains
  <2>2. phase[t] = "running" /\ UNCHANGED <<phase, written, result>>
      BY <1>1 DEF store
  <2>3. q = [Unflushed[t] EXCEPT ![a] = Append(@, v)]
      BY <2>2, UnflushedRunning, Zenon
  <2> HIDE DEF q
  <2>4. PICK k : Drained(t, q, k)
      BY <2>1
  <2>5. Abstract!DrainSome(t, q)
      BY <2>1, <2>2, <2>4, DrainRefines
  <2> QED
      BY <2>2, <2>3, <2>5 DEF Abstract!Store
<1>2. ASSUME NEW t \in Threads, NEW a \in Addrs, retrieve(t, a)
      PROVE  Abstract!Load(t, a)
  <2>1. buffer[t] \in [Addrs -> Seq(Values)] /\ \E k : Drained(t, buffer[t], k)
      BY <1>t, <1>2, LoadDrains
  <2>2. /\ phase[t] = "running" /\ UNCHANGED <<phase, written>>
        /\ result' = [result EXCEPT ![t] = RetrieveValue(t, a)]
      BY <1>2 DEF retrieve
  <2>3. Unflushed[t] = buffer[t]
      BY <2>2, UnflushedRunning
  <2>4. RetrieveValue(t, a) = Abstract!Visible(t, a)
      BY <2>3 DEF RetrieveValue, Newest, Abstract!Visible
  <2>5. PICK k : Drained(t, buffer[t], k)
      BY <2>1
  <2>6. Abstract!DrainSome(t, buffer[t])
      BY <2>1, <2>2, <2>5, DrainRefines
  <2> QED
      BY <2>2, <2>3, <2>4, <2>6 DEF Abstract!Load
<1>3. ASSUME NEW t \in Threads, flushCallback(t)
      PROVE  Abstract!Flush(t)
  <2>1. buffer[t] \in [Addrs -> Seq(Values)] /\ flushAll(t, buffer[t])
      BY <1>3, <1>t DEF flushCallback, PSOType
  <2>2. phase[t] = "running" /\ UNCHANGED <<phase, written, result>>
      BY <1>3 DEF flushCallback
  <2>3. PICK k : Drained(t, buffer[t], k)
      BY <1>t, <2>1, FlushAllDrains
  <2>4. Abstract!DrainSome(t, buffer[t])
      BY <2>1, <2>2, <2>3, DrainRefines
  <2>5. Unflushed[t] = buffer[t]
      BY <2>2, UnflushedRunning
  <2> QED
      BY <2>2, <2>4, <2>5 DEF Abstract!Flush
<1>4. ASSUME NEW t \in Threads, ExitWrite(t)
      PROVE  Abstract!Flush(t)
    BY <1>4, ExitWriteRefines
<1>5. ASSUME NEW t \in Threads, ExitDone(t)
      PROVE  UNCHANGED Abstract!vars
  <2>1. UNCHANGED <<mem, result>>
      BY <1>5 DEF ExitDone
  <2> QED
      BY <1>5, <2>1, ExitDoneRefines DEF Abstract!vars
<1>6. ASSUME UNCHANGED <<mem, buffer, written, result>>
      PROVE  UNCHANGED Abstract!vars
    BY <1>6 DEF Abstract!vars, Unflushed
<1>7. ASSUME NEW t \in Threads, Exit(t)
      PROVE  UNCHANGED Abstract!vars
    BY <1>6, <1>7 DEF Exit
<1>8. ASSUME NEW vec \in Vectors, feedinput(vec)
      PROVE  UNCHANGED Abstract!vars
    BY <1>6, <1>8 DEF feedinput
<1>9. CASE UNCHANGED vars
    BY <1>6, <1>9 DEF vars
<1> QED
    BY <1>1, <1>2, <1>3, <1>4, <1>5, <1>7, <1>8, <1>9 DEF Next, Abstract!Next

\* The PSO runtime implements the abstract store buffer: the stores of a thread to
\* one address reach memory in order, and a load returns the thread's newest
\* waiting store or memory, through flushAfterInsn(), the flush callback and the
\* unlocked destructor alike.
THEOREM PSORefinement == Spec => ImplementsStoreBuffer
<1>1. Init => Abstract!Init
  <2>1. SubSeq(<<>>, 0 + 1, Len(<<>>)) = <<>>
      OBVIOUS
  <2> QED
      BY <2>1 DEF Init, Abstract!Init, Unflushed, None, NoStores
<1>2. PSOInv /\ PSOInv' /\ [Next]_vars => [Abstract!Next]_(Abstract!vars)
    BY StepRefines
<1> QED
    BY <1>1, <1>2, PSOInvariant, PTL DEF Spec, ImplementsStoreBuffer, Abstract!Spec
=============================================================================
