-------------------------- MODULE TSOBufferProofs --------------------------
(***************************************************************************)
(* Store order, bounded delay and the flush barrier of the TSO runtime, for *)
(* any threads, accesses, values, vectors and buffer size.                  *)
(*                                                                         *)
(* The argument: the list of a thread holds consecutive stores, up to the   *)
(* newest; those that have reached memory are a prefix 1 .. r of all its    *)
(* stores; and the list begins no later than r + 1.  Every flush writes a   *)
(* prefix of the list, so it only ever lengthens 1 .. r.                    *)
(***************************************************************************)
EXTENDS TSOBuffer, FiniteSetTheorems, TLAPS

USE SMTT(30)

Entry == [id : Nat,
          base : {a[1] : a \in Accesses},
          val : {[i \in 0 .. a[2] - 1 |-> b] : a \in Accesses, b \in StoredBytes}]

\* The list idx holds the newest of s stores, of which 1 .. r have reached memory.
Shape(idx, s, r, size) ==
    /\ idx \in Seq(Entry)
    /\ r \in 0 .. s
    /\ Len(idx) <= s
    /\ \A k \in 1 .. Len(idx) : idx[k].id = s - Len(idx) + k
    /\ s - Len(idx) <= r
    /\ s - r <= size

InputOK ==
    /\ input \in [vector : [Slots -> Nat], size : 0 .. kMaxInputSize, pos : Slots]

ThreadOK(t) ==
    \E r \in Nat :
        /\ Shape(indexed[t], stores[t], r, bufferSize[t])
        /\ reached[t] = 1 .. r
        /\ fenced[t] <= r
        /\ written[t] \in 0 .. Len(indexed[t])
        /\ phase[t] = "running" => written[t] = 0
        /\ stores[t] - Len(indexed[t]) + written[t] <= r
        /\ phase[t] = "gone" => r = stores[t]

TSOInv ==
    /\ InputOK
    /\ indexed \in [Threads -> Seq(Entry)]
    /\ bufferSize \in [Threads -> 0 .. kMaxBufferSize - 1]
    /\ stores \in [Threads -> Nat]
    /\ fenced \in [Threads -> Nat]
    /\ written \in [Threads -> Nat]
    /\ reached \in [Threads -> SUBSET Nat]
    /\ phase \in [Threads -> {"running", "exiting", "gone"}]
    /\ \A t \in Threads : ThreadOK(t)

-----------------------------------------------------------------------------
\* The k oldest entries of a list of that shape are the next k stores.
LEMMA PrefixIds ==
    ASSUME NEW idx, NEW s \in Nat, NEW r \in Nat, NEW size \in Nat,
           Shape(idx, s, r, size), NEW k \in 0 .. Len(idx)
    PROVE  /\ Ids(SubSeq(idx, 1, k)) = (s - Len(idx) + 1) .. (s - Len(idx) + k)
           /\ SubSeq(idx, 1, k) \in Seq(Entry)
<1> DEFINE p == SubSeq(idx, 1, k)
<1>1. idx \in Seq(Entry) /\ Len(idx) \in Nat
    BY DEF Shape
<1>2. /\ p \in Seq(Entry)
      /\ Len(p) = k
      /\ \A i \in 1 .. k : p[i] = idx[i]
    BY <1>1
<1>3. \A i \in 1 .. k : p[i].id = s - Len(idx) + i
    BY <1>1, <1>2 DEF Shape
<1> HIDE DEF p
<1>4. Ids(p) = {s - Len(idx) + i : i \in 1 .. k}
    BY <1>2, <1>3, Zenon DEF Ids
<1>5. \A x : x \in {s - Len(idx) + i : i \in 1 .. k}
                <=> x \in (s - Len(idx) + 1) .. (s - Len(idx) + k)
  <2>1. ASSUME NEW x \in (s - Len(idx) + 1) .. (s - Len(idx) + k)
        PROVE  \E i \in 1 .. k : x = s - Len(idx) + i
      <3>1. x - (s - Len(idx)) \in 1 .. k
          BY <1>1
      <3>2. x = s - Len(idx) + (x - (s - Len(idx)))
          BY <1>1
      <3> QED
          BY <3>1, <3>2, Zenon
  <2>2. ASSUME NEW i \in 1 .. k
        PROVE  s - Len(idx) + i \in (s - Len(idx) + 1) .. (s - Len(idx) + k)
      BY <1>1
  <2> QED
      BY <2>1, <2>2, Zenon
<1> QED
    BY <1>2, <1>4, <1>5, Zenon DEF p

\* A prefix of the stores stays one when the stores that follow are added.
LEMMA PrefixGrows ==
    ASSUME NEW r \in Nat, NEW lo \in Nat \ {0}, NEW hi \in Nat, lo <= r + 1
    PROVE  1 .. r \cup (lo .. hi) = 1 .. (IF hi > r THEN hi ELSE r)
    OBVIOUS

\* flushEntries() and flushAllEntries() write a prefix of the list; what is left of
\* the list still has the shape, and nothing is forgotten.
LEMMA FlushKeepsShape ==
    ASSUME NEW idx, NEW s \in Nat, NEW r \in Nat, NEW size \in Nat,
           Shape(idx, s, r, size), NEW k \in 0 .. Len(idx)
    PROVE  LET q == IF s - Len(idx) + k > r THEN s - Len(idx) + k ELSE r IN
           /\ q \in Nat /\ q >= r
           /\ 1 .. r \cup Ids(SubSeq(idx, 1, k)) = 1 .. q
           /\ s - Len(idx) + k <= q
           /\ Shape(SubSeq(idx, k + 1, Len(idx)), s, q, size)
           /\ Shape(idx, s, q, size)
<1> DEFINE q == IF s - Len(idx) + k > r THEN s - Len(idx) + k ELSE r
           rest == SubSeq(idx, k + 1, Len(idx))
<1>1. /\ idx \in Seq(Entry) /\ Len(idx) \in Nat /\ Len(idx) <= s
      /\ r <= s /\ s - Len(idx) <= r /\ s - r <= size
    BY DEF Shape
<1>2. q \in Nat /\ q >= r /\ s - Len(idx) + k <= q /\ q <= s
    BY <1>1
<1>3. 1 .. r \cup Ids(SubSeq(idx, 1, k)) = 1 .. q
  <2>1. Ids(SubSeq(idx, 1, k)) = (s - Len(idx) + 1) .. (s - Len(idx) + k)
      BY PrefixIds
  <2>2. /\ s - Len(idx) + 1 \in Nat \ {0}
        /\ s - Len(idx) + k \in Nat
        /\ s - Len(idx) + 1 <= r + 1
      BY <1>1
  <2> QED
      BY <2>1, <2>2, PrefixGrows
<1>4. /\ rest \in Seq(Entry)
      /\ Len(rest) = Len(idx) - k
      /\ \A i \in 1 .. Len(idx) - k : rest[i] = idx[i + k]
    BY <1>1
<1> HIDE DEF q, rest
<1>5. Shape(rest, s, q, size)
  <2>1. ASSUME NEW i \in 1 .. Len(rest)
        PROVE  rest[i].id = s - Len(rest) + i
      <3>1. i + k \in 1 .. Len(idx)
          BY <1>1, <1>4
      <3>2. idx[i + k].id = s - Len(idx) + (i + k)
          BY <3>1 DEF Shape
      <3> QED
          BY <1>1, <1>4, <3>2
  <2> QED
      BY <1>1, <1>2, <1>4, <2>1 DEF Shape
<1>6. Shape(idx, s, q, size)
    BY <1>1, <1>2 DEF Shape
<1> QED
    BY <1>2, <1>3, <1>5, <1>6 DEF q, rest

-----------------------------------------------------------------------------
\* flushAfterInsn() keeps what the invariant says of the thread's list, writes
\* nothing of another thread, and leaves the count below kMaxBufferSize.
LEMMA AfterInsn ==
    ASSUME NEW t \in Threads, NEW lst, NEW idx, NEW s \in Nat, NEW r \in Nat,
           NEW size \in 0 .. kMaxBufferSize,
           TSOInv, Shape(idx, s, r, size), reached[t] = 1 .. r,
           flushAfterInsn(t, lst, idx, size)
    PROVE  \E q \in Nat :
              /\ q >= r
              /\ Shape(indexed'[t], s, q, bufferSize'[t])
              /\ reached' = [reached EXCEPT ![t] = 1 .. q]
              /\ indexed' = [indexed EXCEPT ![t] = indexed'[t]]
              /\ indexed'[t] \in Seq(Entry)
              /\ bufferSize' = [bufferSize EXCEPT ![t] = bufferSize'[t]]
              /\ bufferSize'[t] \in 0 .. kMaxBufferSize - 1
              /\ InputOK'
<1> USE TSOAssumption, InputAssumption
<1>0. idx \in Seq(Entry) /\ Len(idx) \in Nat /\ Len(idx) <= s /\ size \in Nat
    BY DEF Shape
<1>t. /\ indexed \in [Threads -> Seq(Entry)]
      /\ bufferSize \in [Threads -> 0 .. kMaxBufferSize - 1]
      /\ reached \in [Threads -> SUBSET Nat]
      /\ InputOK
    BY DEF TSOInv
<1>1. CASE size >= kMaxBufferSize /\ flushAllEntries(t, idx) /\ UNCHANGED input
  <2>1. SubSeq(idx, 1, Len(idx)) = idx
      BY <1>0
  <2>2. 1 .. r \cup Ids(idx) = 1 .. s /\ Shape(idx, s, s, size)
    <3>1. Len(idx) \in 0 .. Len(idx)
        BY <1>0
    <3> DEFINE q == IF s - Len(idx) + Len(idx) > r THEN s - Len(idx) + Len(idx) ELSE r
    <3>2. q = s
        BY <1>0 DEF Shape
    <3>3. /\ 1 .. r \cup Ids(SubSeq(idx, 1, Len(idx))) = 1 .. q
          /\ Shape(idx, s, q, size)
        BY <3>1, <1>0, FlushKeepsShape, ZenonT(60)
    <3> QED
        BY <3>2, <3>3, <2>1, Zenon
  <2>3. Shape(idx, s, s, 0)
      BY <2>2, <1>0 DEF Shape
  <2>4. /\ indexed' = [indexed EXCEPT ![t] = idx]
        /\ bufferSize' = [bufferSize EXCEPT ![t] = 0]
        /\ reached' = [reached EXCEPT ![t] = 1 .. s]
      BY <1>1, <2>2, Zenon DEF flushAllEntries
  <2>5. InputOK'
      BY <1>1, <1>t DEF InputOK
  <2>6. /\ indexed'[t] = idx /\ bufferSize'[t] = 0
      BY <2>4, <1>t
  <2>7. s >= r /\ 0 \in 0 .. kMaxBufferSize - 1
      BY DEF Shape
  <2> QED
      BY <2>3, <2>4, <2>5, <2>6, <2>7, <1>0, Zenon
<1>2. CASE size < kMaxBufferSize /\ input.size > 0
           /\ flushEntries(t, lst, idx, size, NextValue(input)) /\ input' = Advance(input)
  <2> DEFINE k == Min2(NextValue(input), Len(idx))
             q == IF s - Len(idx) + k > r THEN s - Len(idx) + k ELSE r
             rest == SubSeq(idx, k + 1, Len(idx))
  <2>1. NextValue(input) \in Nat /\ InputOK'
    <3>1. NextValue(input) \in Nat
        BY <1>t DEF InputOK, NextValue
    <3>2. (input.pos + 1) % input.size \in Slots
      <4>1. input.pos \in Nat /\ input.size \in 1 .. kMaxInputSize /\ kMaxInputSize \in Nat
          BY <1>2, <1>t, InputAssumption DEF InputOK, Slots
      <4>2. \A i, m \in Nat : m > 0 => (i + 1) % m \in 0 .. m - 1
          OBVIOUS
      <4> QED
          BY <4>1, <4>2 DEF Slots
    <3>3. InputOK'
        BY <1>2, <1>t, <3>2, Zenon DEF InputOK, Advance
    <3> QED
        BY <3>1, <3>3
  <2>2. k \in 0 .. Len(idx)
      BY <2>1, <1>0 DEF Min2
  <2> HIDE DEF k
  <2>3. /\ q \in Nat /\ q >= r
        /\ 1 .. r \cup Ids(SubSeq(idx, 1, k)) = 1 .. q
        /\ Shape(rest, s, q, size)
      BY <2>2, <1>0, FlushKeepsShape
  <2>4. /\ indexed' = [indexed EXCEPT ![t] = rest]
        /\ bufferSize' = [bufferSize EXCEPT ![t] = size]
        /\ reached' = [reached EXCEPT ![t] = 1 .. q]
      BY <1>2, <2>3, Zenon DEF flushEntries, k
  <2> HIDE DEF q, rest
  <2>5. indexed'[t] = rest /\ bufferSize'[t] = size
      BY <2>4, <1>t
  <2>6. rest \in Seq(Entry) /\ size \in 0 .. kMaxBufferSize - 1
      BY <2>3, <1>2 DEF Shape
  <2> QED
      BY <2>1, <2>3, <2>4, <2>5, <2>6, Zenon
<1>3. CASE size < kMaxBufferSize /\ input.size = 0
           /\ indexed' = [indexed EXCEPT ![t] = idx]
           /\ bufferSize' = [bufferSize EXCEPT ![t] = size]
           /\ UNCHANGED <<input, reached>>
  <2>1. indexed'[t] = idx /\ bufferSize'[t] = size /\ size \in 0 .. kMaxBufferSize - 1
      BY <1>3, <1>t
  <2>2. reached' = [reached EXCEPT ![t] = 1 .. r]
      BY <1>3, <1>t
  <2>3. InputOK'
      BY <1>3, <1>t DEF InputOK
  <2>4. Shape(indexed'[t], s, r, bufferSize'[t]) /\ indexed'[t] \in Seq(Entry)
      BY <2>1, <1>0
  <2>5. /\ indexed' = [indexed EXCEPT ![t] = indexed'[t]]
        /\ bufferSize' = [bufferSize EXCEPT ![t] = bufferSize'[t]]
      BY <2>1, <1>3
  <2>6. r >= r
      OBVIOUS
  <2> QED
      BY <2>1, <2>2, <2>3, <2>4, <2>5, <2>6, Zenon
<1> QED
    BY <1>1, <1>2, <1>3 DEF flushAfterInsn

\* What a step leaves alone keeps its part of the invariant.
LEMMA OtherThread ==
    ASSUME NEW u, ThreadOK(u),
           indexed'[u] = indexed[u], stores'[u] = stores[u], bufferSize'[u] = bufferSize[u],
           reached'[u] = reached[u], fenced'[u] = fenced[u], written'[u] = written[u],
           phase'[u] = phase[u]
    PROVE  ThreadOK(u)'
    BY DEF ThreadOK

\* A load and a store end with flushAfterInsn(), on a list of s stores.
LEMMA InsnStep ==
    ASSUME NEW t \in Threads, NEW lst, NEW idx, NEW s \in Nat, NEW r \in Nat,
           NEW size \in 0 .. kMaxBufferSize,
           TSOInv, Shape(idx, s, r, size), reached[t] = 1 .. r, fenced[t] <= r,
           phase[t] = "running", written[t] = 0,
           stores' = [stores EXCEPT ![t] = s],
           flushAfterInsn(t, lst, idx, size),
           UNCHANGED <<phase, written, fenced>>
    PROVE  TSOInv'
<1>1. PICK q \in Nat :
              /\ q >= r
              /\ Shape(indexed'[t], s, q, bufferSize'[t])
              /\ reached' = [reached EXCEPT ![t] = 1 .. q]
              /\ indexed' = [indexed EXCEPT ![t] = indexed'[t]]
              /\ indexed'[t] \in Seq(Entry)
              /\ bufferSize' = [bufferSize EXCEPT ![t] = bufferSize'[t]]
              /\ bufferSize'[t] \in 0 .. kMaxBufferSize - 1
              /\ InputOK'
    BY AfterInsn, Zenon
<1>2. /\ indexed' \in [Threads -> Seq(Entry)]
      /\ bufferSize' \in [Threads -> 0 .. kMaxBufferSize - 1]
      /\ reached' \in [Threads -> SUBSET Nat]
      /\ stores' \in [Threads -> Nat]
      /\ fenced' \in [Threads -> Nat]
      /\ written' \in [Threads -> Nat]
      /\ phase' \in [Threads -> {"running", "exiting", "gone"}]
  <2>1. indexed' \in [Threads -> Seq(Entry)]
      BY <1>1, Zenon DEF TSOInv
  <2>2. bufferSize' \in [Threads -> 0 .. kMaxBufferSize - 1]
      BY <1>1, Zenon DEF TSOInv
  <2>3. reached' \in [Threads -> SUBSET Nat]
      BY <1>1 DEF TSOInv
  <2>4. stores' \in [Threads -> Nat]
      BY DEF TSOInv
  <2> QED
      BY <2>1, <2>2, <2>3, <2>4 DEF TSOInv
<1>3. ThreadOK(t)'
  <2>1. /\ stores'[t] = s /\ reached'[t] = 1 .. q
        /\ fenced'[t] <= q /\ written'[t] = 0 /\ phase'[t] = "running"
      BY <1>1 DEF TSOInv
  <2>2. /\ Len(indexed'[t]) \in Nat
        /\ s - Len(indexed'[t]) + 0 <= q
      BY <1>1 DEF Shape
  <2>3. written'[t] \in 0 .. Len(indexed'[t])
      BY <2>1, <2>2
  <2> QED
      BY <1>1, <2>1, <2>2, <2>3 DEF ThreadOK
<1>4. ASSUME NEW u \in Threads, u # t
      PROVE  ThreadOK(u)'
  <2>1. /\ indexed'[u] = indexed[u] /\ stores'[u] = stores[u]
        /\ bufferSize'[u] = bufferSize[u] /\ reached'[u] = reached[u]
        /\ fenced'[u] = fenced[u] /\ written'[u] = written[u] /\ phase'[u] = phase[u]
      BY <1>1, <1>4 DEF TSOInv
  <2> QED
      BY <2>1, OtherThread, Zenon DEF TSOInv
<1> QED
    BY <1>1, <1>2, <1>3, <1>4 DEF TSOInv

-----------------------------------------------------------------------------
\* Buffers start empty.
LEMMA TSOInit == Init => TSOInv
<1> SUFFICES ASSUME Init PROVE TSOInv
    OBVIOUS
<1> USE TSOAssumption, InputAssumption
<1>1. InputOK
    BY DEF Init, InputOK, NoInput, Slots
<1>2. /\ indexed \in [Threads -> Seq(Entry)]
      /\ bufferSize \in [Threads -> 0 .. kMaxBufferSize - 1]
      /\ stores \in [Threads -> Nat]
      /\ fenced \in [Threads -> Nat]
      /\ written \in [Threads -> Nat]
      /\ reached \in [Threads -> SUBSET Nat]
      /\ phase \in [Threads -> {"running", "exiting", "gone"}]
    BY DEF Init
<1>3. ASSUME NEW t \in Threads
      PROVE  ThreadOK(t)
  <2>1. Shape(<<>>, 0, 0, 0)
      BY DEF Shape
  <2>2. {} = 1 .. 0
      OBVIOUS
  <2>3. /\ indexed[t] = <<>> /\ stores[t] = 0 /\ bufferSize[t] = 0 /\ reached[t] = {}
        /\ fenced[t] = 0 /\ written[t] = 0 /\ phase[t] = "running"
      BY DEF Init
  <2> QED
      BY <2>1, <2>2, <2>3 DEF ThreadOK
<1> QED
    BY <1>1, <1>2, <1>3 DEF TSOInv

\* A store joins the list as the newest of its thread.
LEMMA StoreKeeps ==
    ASSUME TSOInv, NEW t \in Threads, NEW a \in Accesses, NEW b \in StoredBytes,
           store(t, a[1], [i \in 0 .. a[2] - 1 |-> b])
    PROVE  TSOInv'
<1> USE TSOAssumption, InputAssumption
<1> DEFINE e == [id |-> stores[t] + 1, base |-> a[1], val |-> [i \in 0 .. a[2] - 1 |-> b]]
           idx == Append(indexed[t], e)
<1>1. PICK r \in Nat :
        /\ Shape(indexed[t], stores[t], r, bufferSize[t])
        /\ reached[t] = 1 .. r
        /\ fenced[t] <= r
        /\ phase[t] = "running" => written[t] = 0
    BY DEF TSOInv, ThreadOK
<1>2. stores[t] \in Nat /\ bufferSize[t] \in 0 .. kMaxBufferSize - 1
    BY DEF TSOInv
<1>3. e \in Entry
    BY <1>2 DEF Entry
<1>4. e.id = stores[t] + 1
    OBVIOUS
<1> HIDE DEF e
<1>5. /\ idx \in Seq(Entry)
      /\ Len(idx) = Len(indexed[t]) + 1
      /\ \A k \in 1 .. Len(indexed[t]) : idx[k] = indexed[t][k]
      /\ idx[Len(indexed[t]) + 1] = e
      /\ Len(indexed[t]) \in Nat
    BY <1>1, <1>3 DEF Shape
<1> HIDE DEF idx
<1>s. /\ \A k \in 1 .. Len(indexed[t]) : indexed[t][k].id = stores[t] - Len(indexed[t]) + k
      /\ r <= stores[t] /\ Len(indexed[t]) <= stores[t]
      /\ stores[t] - Len(indexed[t]) <= r /\ stores[t] - r <= bufferSize[t]
    BY <1>1 DEF Shape
<1>6. Shape(idx, stores[t] + 1, r, bufferSize[t] + 1)
  <2> DEFINE s == stores[t]
             L == Len(indexed[t])
             n == Len(idx)
             z == bufferSize[t]
  <2>a. /\ s \in Nat /\ L \in Nat /\ z \in Int /\ n = L + 1
        /\ r <= s /\ L <= s /\ s - L <= r /\ s - r <= z
      BY <1>s, <1>2, <1>5
  <2>1. ASSUME NEW k \in 1 .. n
        PROVE  idx[k].id = (s + 1) - n + k
    <3>1. CASE k = L + 1
      <4>1. (s + 1) - n + k = s + 1
          BY <3>1, <2>a
      <4> QED
          BY <3>1, <4>1, <1>4, <1>5
    <3>2. CASE k # L + 1
      <4>1. k \in 1 .. L
          BY <3>2, <2>a
      <4>2. idx[k] = indexed[t][k] /\ indexed[t][k].id = s - L + k
          BY <4>1, <1>s, <1>5
      <4> HIDE DEF s, L, n
      <4>3. (s + 1) - n + k = s - L + k
          BY <2>a
      <4> QED
          BY <4>2, <4>3
    <3> QED
        BY <3>1, <3>2
  <2> HIDE DEF s, L, n, z
  <2>2. r \in 0 .. s + 1 /\ n <= s + 1 /\ (s + 1) - n <= r /\ (s + 1) - r <= z + 1
      BY <2>a
  <2> QED
      BY <2>1, <2>2, <1>5 DEF Shape, s, n, z
<1>7. PICK lst : flushAfterInsn(t, lst, idx, bufferSize[t] + 1)
    BY DEF store, idx, e
<1>8. /\ stores' = [stores EXCEPT ![t] = stores[t] + 1]
      /\ phase[t] = "running"
      /\ UNCHANGED <<phase, written, fenced>>
    BY DEF store
<1>9. bufferSize[t] + 1 \in 0 .. kMaxBufferSize /\ stores[t] + 1 \in Nat
    BY <1>2
<1> QED
    BY <1>1, <1>6, <1>7, <1>8, <1>9, InsnStep, Zenon

\* The flush callback writes the whole list, so every store has reached memory.
LEMMA FlushKeeps ==
    ASSUME TSOInv, NEW t \in Threads, flush(t)
    PROVE  TSOInv'
<1> USE TSOAssumption, InputAssumption
<1> DEFINE idx == indexed[t]
           s == stores[t]
<1>1. PICK r \in Nat :
        /\ Shape(idx, s, r, bufferSize[t])
        /\ reached[t] = 1 .. r
        /\ phase[t] = "running" => written[t] = 0
    BY DEF TSOInv, ThreadOK
<1>2. /\ s \in Nat /\ bufferSize[t] \in Nat
      /\ idx \in Seq(Entry) /\ Len(idx) \in Nat /\ Len(idx) <= s /\ r <= s
    BY <1>1 DEF TSOInv, Shape
<1>3. 1 .. r \cup Ids(idx) = 1 .. s /\ Shape(idx, s, s, 0)
  <2> DEFINE q == IF s - Len(idx) + Len(idx) > r THEN s - Len(idx) + Len(idx) ELSE r
  <2>1. q = s /\ Len(idx) \in 0 .. Len(idx) /\ SubSeq(idx, 1, Len(idx)) = idx
      BY <1>2
  <2> HIDE DEF idx, s
  <2>2. /\ 1 .. r \cup Ids(SubSeq(idx, 1, Len(idx))) = 1 .. q
        /\ Shape(idx, s, q, bufferSize[t])
      BY <1>1, <1>2, <2>1, FlushKeepsShape
  <2>3. s - s <= 0
      BY <1>2
  <2> QED
      BY <1>2, <2>1, <2>2, <2>3, Zenon DEF Shape
<1>4. /\ indexed' = indexed
      /\ bufferSize' = [bufferSize EXCEPT ![t] = 0]
      /\ reached' = [reached EXCEPT ![t] = 1 .. s]
      /\ fenced' = [fenced EXCEPT ![t] = s]
      /\ phase[t] = "running" /\ written[t] = 0
      /\ UNCHANGED <<input, phase, written, stores>>
    BY <1>1, <1>3, Zenon DEF flush, flushAllEntries, TSOInv
<1>5. /\ InputOK' /\ indexed' \in [Threads -> Seq(Entry)]
      /\ bufferSize' \in [Threads -> 0 .. kMaxBufferSize - 1]
      /\ reached' \in [Threads -> SUBSET Nat]
      /\ fenced' \in [Threads -> Nat]
      /\ stores' \in [Threads -> Nat]
      /\ written' \in [Threads -> Nat]
      /\ phase' \in [Threads -> {"running", "exiting", "gone"}]
    BY <1>2, <1>4 DEF TSOInv, InputOK
<1>6. ThreadOK(t)'
  <2>1. /\ indexed'[t] = idx /\ stores'[t] = s /\ bufferSize'[t] = 0 /\ reached'[t] = 1 .. s
        /\ fenced'[t] = s /\ written'[t] = 0 /\ phase'[t] = "running"
      BY <1>4 DEF TSOInv
  <2>2. 0 \in 0 .. Len(idx) /\ s - Len(idx) + 0 <= s /\ s <= s
      BY <1>2
  <2> HIDE DEF idx, s
  <2> QED
      BY <1>2, <1>3, <2>1, <2>2 DEF ThreadOK
<1>7. ASSUME NEW u \in Threads, u # t
      PROVE  ThreadOK(u)'
  <2>1. /\ indexed'[u] = indexed[u] /\ stores'[u] = stores[u]
        /\ bufferSize'[u] = bufferSize[u] /\ reached'[u] = reached[u]
        /\ fenced'[u] = fenced[u] /\ written'[u] = written[u] /\ phase'[u] = phase[u]
      BY <1>4, <1>7 DEF TSOInv
  <2> QED
      BY <2>1, OtherThread, Zenon DEF TSOInv
<1> QED
    BY <1>5, <1>6, <1>7 DEF TSOInv

\* The destructor writes the entries of the list one at a time, in order.
LEMMA ExitWriteKeeps ==
    ASSUME TSOInv, NEW t \in Threads, ExitWrite(t)
    PROVE  TSOInv'
<1> DEFINE idx == indexed[t]
           s == stores[t]
           w == written[t] + 1
           q(r) == IF s - Len(idx) + w > r THEN s - Len(idx) + w ELSE r
<1>1. PICK r \in Nat :
        /\ Shape(idx, s, r, bufferSize[t])
        /\ reached[t] = 1 .. r
        /\ fenced[t] <= r
        /\ written[t] \in 0 .. Len(idx)
        /\ s - Len(idx) + written[t] <= r
    BY DEF TSOInv, ThreadOK
<1>2. /\ s \in Nat /\ bufferSize[t] \in Nat /\ fenced[t] \in Nat
      /\ Len(idx) \in Nat /\ Len(idx) <= s /\ r <= s /\ s - r <= bufferSize[t]
      /\ w \in 1 .. Len(idx) /\ written[t] \in Nat /\ phase[t] = "exiting"
    BY <1>1 DEF TSOInv, Shape, ExitWrite
<1>3. idx[w].id = s - Len(idx) + w
    BY <1>1, <1>2 DEF Shape
<1>a. w = written[t] + 1 /\ s - Len(idx) + written[t] <= r
    BY <1>1
<1> HIDE DEF idx, s, w
<1>4. q(r) \in Nat /\ q(r) >= r /\ q(r) <= s /\ s - Len(idx) + w <= q(r)
    BY <1>2
<1>5. 1 .. r \cup {s - Len(idx) + w} = 1 .. q(r)
  <2> DEFINE n == Len(idx)
             g == written[t]
  <2>a. /\ s \in Nat /\ n \in Nat /\ n <= s /\ g \in Nat /\ w \in 1 .. n
        /\ w = g + 1 /\ s - n + g <= r
      BY <1>2, <1>a
  <2> HIDE DEF n, g
  <2>b. s - n + w \in Nat \ {0} /\ s - n + w <= r + 1
      BY <2>a
  <2>1. /\ s - Len(idx) + w \in Nat \ {0}
        /\ s - Len(idx) + w <= r + 1
      BY <2>b DEF n
  <2>2. {s - Len(idx) + w} = (s - Len(idx) + w) .. (s - Len(idx) + w)
      BY <2>1
  <2> QED
      BY <2>1, <2>2, PrefixGrows
<1>6. Shape(idx, s, q(r), bufferSize[t])
  <2>1. s - Len(idx) <= q(r) /\ s - q(r) <= bufferSize[t] /\ q(r) \in 0 .. s
      BY <1>2, <1>4
  <2> QED
      BY <1>1, <1>2, <2>1 DEF Shape
<1>7. /\ reached' = [reached EXCEPT ![t] = 1 .. q(r)]
      /\ written' = [written EXCEPT ![t] = w]
      /\ UNCHANGED <<indexed, bufferSize, input, phase, stores, fenced>>
  <2>1. reached' = [reached EXCEPT ![t] = @ \cup {idx[w].id}]
      BY DEF ExitWrite, idx, w
  <2> QED
      BY <1>1, <1>3, <1>5, <1>a, <2>1, Zenon DEF ExitWrite, buffers
<1>8. /\ InputOK' /\ indexed' \in [Threads -> Seq(Entry)]
      /\ bufferSize' \in [Threads -> 0 .. kMaxBufferSize - 1]
      /\ reached' \in [Threads -> SUBSET Nat]
      /\ fenced' \in [Threads -> Nat]
      /\ stores' \in [Threads -> Nat]
      /\ written' \in [Threads -> Nat]
      /\ phase' \in [Threads -> {"running", "exiting", "gone"}]
  <2>1. /\ InputOK' /\ indexed' \in [Threads -> Seq(Entry)]
        /\ bufferSize' \in [Threads -> 0 .. kMaxBufferSize - 1]
        /\ fenced' \in [Threads -> Nat]
        /\ stores' \in [Threads -> Nat]
        /\ phase' \in [Threads -> {"running", "exiting", "gone"}]
      BY <1>7 DEF TSOInv, InputOK
  <2>2. w \in Nat /\ 1 .. q(r) \in SUBSET Nat
      BY <1>2, <1>4
  <2> HIDE DEF q
  <2>3. reached' \in [Threads -> SUBSET Nat] /\ written' \in [Threads -> Nat]
      BY <1>7, <2>2 DEF TSOInv
  <2> QED
      BY <2>1, <2>3
<1>9. ThreadOK(t)'
  <2>1. /\ indexed'[t] = idx /\ stores'[t] = s /\ bufferSize'[t] = bufferSize[t]
        /\ reached'[t] = 1 .. q(r)
        /\ fenced'[t] <= q(r) /\ written'[t] = w /\ phase'[t] = "exiting"
      BY <1>1, <1>2, <1>4, <1>7 DEF TSOInv, idx, s
  <2>2. w \in 0 .. Len(idx)
      BY <1>2
  <2> HIDE DEF q
  <2> QED
      BY <1>4, <1>6, <2>1, <2>2 DEF ThreadOK
<1>10. ASSUME NEW u \in Threads, u # t
       PROVE  ThreadOK(u)'
  <2>1. /\ indexed'[u] = indexed[u] /\ stores'[u] = stores[u]
        /\ bufferSize'[u] = bufferSize[u] /\ reached'[u] = reached[u]
        /\ fenced'[u] = fenced[u] /\ written'[u] = written[u] /\ phase'[u] = phase[u]
      BY <1>7, <1>10 DEF TSOInv
  <2> QED
      BY <2>1, OtherThread, Zenon DEF TSOInv
<1> QED
    BY <1>8, <1>9, <1>10 DEF TSOInv

\* Feeding a vector, and beginning and ending the destructor, write no store.  The
\* destructor ends when it has written the whole list.
LEMMA OtherStepsKeep ==
    ASSUME TSOInv,
           \/ \E vec \in Vectors : feedinput(vec)
           \/ \E t \in Threads : Exit(t) \/ ExitDone(t)
    PROVE  TSOInv'
<1>1. ASSUME NEW vec \in Vectors, feedinput(vec)
      PROVE  TSOInv'
  <2>1. InputOK'
    <3>1. /\ input \in [vector : [Slots -> Nat], size : 0 .. kMaxInputSize, pos : Slots]
          /\ input' = FeedInput(input, vec)
        BY <1>1 DEF TSOInv, InputOK, feedinput
    <3>2. vec \in Seq(Nat) /\ Len(vec) \in 0 .. kMaxInputSize
        BY TSOAssumption, InputAssumption
    <3>3. \A i \in Slots : i < Len(vec) => vec[i + 1] \in Nat
        BY <3>2 DEF Slots
    <3>4. [i \in Slots |-> IF i < Len(vec) THEN vec[i + 1] ELSE input.vector[i]]
              \in [Slots -> Nat]
        BY <3>1, <3>3
    <3> QED
        BY <3>1, <3>2, <3>4, Zenon DEF InputOK, FeedInput
  <2>2. UNCHANGED <<indexed, bufferSize, stores, fenced, written, reached, phase>>
      BY <1>1 DEF feedinput, buffers
  <2>3. \A u \in Threads : ThreadOK(u)'
      BY <2>2, OtherThread DEF TSOInv
  <2> QED
      BY <2>1, <2>2, <2>3 DEF TSOInv
<1>2. ASSUME NEW t \in Threads, Exit(t)
      PROVE  TSOInv'
  <2>1. /\ phase' = [phase EXCEPT ![t] = "exiting"] /\ phase[t] = "running"
        /\ UNCHANGED <<input, indexed, bufferSize, stores, fenced, written, reached>>
      BY <1>2 DEF Exit, buffers, history
  <2>2. ThreadOK(t)'
      BY <2>1 DEF TSOInv, ThreadOK
  <2>3. \A u \in Threads \ {t} : ThreadOK(u)'
      BY <2>1, OtherThread DEF TSOInv
  <2> QED
      BY <2>1, <2>2, <2>3 DEF TSOInv, InputOK
<1>3. ASSUME NEW t \in Threads, ExitDone(t)
      PROVE  TSOInv'
  <2>1. /\ phase' = [phase EXCEPT ![t] = "gone"]
        /\ phase[t] = "exiting" /\ written[t] = Len(indexed[t])
        /\ bufferSize' = [bufferSize EXCEPT ![t] = 0]
        /\ UNCHANGED <<input, indexed, stores, fenced, written, reached>>
      BY <1>3 DEF ExitDone, history
  <2>2. ThreadOK(t)'
    <3>1. PICK r \in Nat :
            /\ Shape(indexed[t], stores[t], r, bufferSize[t])
            /\ reached[t] = 1 .. r
            /\ fenced[t] <= r
            /\ written[t] \in 0 .. Len(indexed[t])
            /\ stores[t] - Len(indexed[t]) + written[t] <= r
        BY DEF TSOInv, ThreadOK
    <3> DEFINE s == stores[t]
               L == Len(indexed[t])
    <3>2. s \in Nat /\ L \in Nat /\ r <= s /\ s - L + L <= r
        BY <2>1, <3>1 DEF TSOInv, Shape
    <3> HIDE DEF s, L
    <3>3. r = s /\ s - r <= 0
        BY <3>2
    <3>4. Shape(indexed[t], stores[t], r, 0)
        BY <3>1, <3>3 DEF Shape, s
    <3>5. phase'[t] = "gone" /\ bufferSize'[t] = 0
        BY <2>1 DEF TSOInv
    <3> QED
        BY <2>1, <3>1, <3>3, <3>4, <3>5, Zenon DEF ThreadOK, s
  <2>3. \A u \in Threads \ {t} : ThreadOK(u)'
      BY <2>1, OtherThread DEF TSOInv
  <2>4. 0 \in 0 .. kMaxBufferSize - 1
      BY TSOAssumption, InputAssumption
  <2>5. bufferSize' \in [Threads -> 0 .. kMaxBufferSize - 1]
      BY <2>1, <2>4 DEF TSOInv
  <2> QED
      BY <2>1, <2>2, <2>3, <2>5 DEF TSOInv, InputOK
<1> QED
    BY <1>1, <1>2, <1>3

\* Every callback, and every step of a destructor, keeps the invariant.
LEMMA TSOStep == TSOInv /\ [Next]_vars => TSOInv'
<1> SUFFICES ASSUME TSOInv, [Next]_vars
             PROVE  TSOInv'
    OBVIOUS
<1>1. ASSUME NEW t \in Threads, NEW a \in Accesses, NEW b \in StoredBytes,
             store(t, a[1], [i \in 0 .. a[2] - 1 |-> b])
      PROVE  TSOInv'
    BY <1>1, StoreKeeps, Zenon
<1>2. ASSUME NEW t \in Threads, retrieve(t)
      PROVE  TSOInv'
  <2>1. PICK r \in Nat :
          /\ Shape(indexed[t], stores[t], r, bufferSize[t])
          /\ reached[t] = 1 .. r
          /\ fenced[t] <= r
          /\ phase[t] = "running" => written[t] = 0
      BY DEF TSOInv, ThreadOK
  <2>2. /\ stores[t] \in Nat /\ bufferSize[t] \in 0 .. kMaxBufferSize
        /\ stores' = [stores EXCEPT ![t] = stores[t]]
      BY <1>2, TSOAssumption, InputAssumption DEF TSOInv, retrieve
  <2>3. /\ flushAfterInsn(t, last[t], indexed[t], bufferSize[t])
        /\ phase[t] = "running" /\ UNCHANGED <<phase, written, fenced>>
      BY <1>2 DEF retrieve
  <2> QED
      BY <2>1, <2>2, <2>3, InsnStep, Zenon
<1>3. ASSUME NEW t \in Threads, flush(t)
      PROVE  TSOInv'
    BY <1>3, FlushKeeps
<1>4. ASSUME NEW t \in Threads, ExitWrite(t)
      PROVE  TSOInv'
    BY <1>4, ExitWriteKeeps
<1>5. CASE \/ \E vec \in Vectors : feedinput(vec)
           \/ \E t \in Threads : Exit(t) \/ ExitDone(t)
    BY <1>5, OtherStepsKeep
<1>6. CASE UNCHANGED vars
  <2>1. UNCHANGED <<input, indexed, bufferSize, stores, fenced, written, reached, phase>>
      BY <1>6 DEF vars, buffers, history
  <2>2. \A u \in Threads : ThreadOK(u)'
      BY <2>1, OtherThread DEF TSOInv
  <2> QED
      BY <2>1, <2>2 DEF TSOInv, InputOK
<1> QED
    BY <1>1, <1>2, <1>3, <1>4, <1>5, <1>6, Zenon DEF Next

\* The invariant holds in every reachable state.
LEMMA TSOInvariant == Spec => []TSOInv
    BY TSOInit, TSOStep, PTL DEF Spec

-----------------------------------------------------------------------------
\* Total store order: whatever the input vectors say, the stores of a thread reach
\* memory for the first time in the order it made them.
THEOREM StoreOrder == Spec => []FirstFlushInOrder
<1>1. TSOInv => FirstFlushInOrder
  <2> SUFFICES ASSUME TSOInv, NEW t \in Threads, NEW i \in reached[t]
               PROVE  1 .. i \subseteq reached[t]
      BY DEF FirstFlushInOrder
  <2>1. PICK r \in Nat : reached[t] = 1 .. r
      BY DEF TSOInv, ThreadOK
  <2> QED
      BY <2>1
<1> QED
    BY <1>1, TSOInvariant, PTL

\* A thread never has kMaxBufferSize stores or more that have not reached memory.
THEOREM DelayBound == Spec => []BoundedDelay
<1>1. TSOInv => BoundedDelay
  <2> SUFFICES ASSUME TSOInv, NEW t \in Threads
               PROVE  Cardinality(1 .. stores[t] \ reached[t]) < kMaxBufferSize
      BY DEF BoundedDelay
  <2>1. PICK r \in Nat : reached[t] = 1 .. r /\ Shape(indexed[t], stores[t], r, bufferSize[t])
      BY DEF TSOInv, ThreadOK
  <2>2. /\ stores[t] \in Nat /\ bufferSize[t] \in 0 .. kMaxBufferSize - 1
        /\ r <= stores[t] /\ stores[t] - r <= bufferSize[t]
      BY <2>1 DEF TSOInv, Shape
  <2> DEFINE s == stores[t]
             c == Cardinality((r + 1) .. s)
  <2>3. 1 .. stores[t] \ reached[t] = (r + 1) .. s
      BY <2>1, <2>2
  <2>4. s \in Int /\ r + 1 \in Int
      BY <2>2
  <2>5. c = IF r + 1 > s THEN 0 ELSE s - (r + 1) + 1
    <3> HIDE DEF s
    <3> QED
      BY <2>4, FS_Interval
  <2> HIDE DEF c
  <2>6. c < kMaxBufferSize
      BY <2>2, <2>5, TSOAssumption, InputAssumption
  <2> QED
      BY <2>3, <2>6, Zenon DEF c
<1> QED
    BY <1>1, TSOInvariant, PTL

\* After a flush callback every earlier store of the thread has reached memory.
THEOREM FlushBarrier == Spec => []FlushIsBarrier
<1>1. TSOInv => FlushIsBarrier
  <2> SUFFICES ASSUME TSOInv, NEW t \in Threads
               PROVE  1 .. fenced[t] \subseteq reached[t]
      BY DEF FlushIsBarrier
  <2>1. PICK r \in Nat : reached[t] = 1 .. r /\ fenced[t] <= r
      BY DEF TSOInv, ThreadOK
  <2>2. fenced[t] \in Nat
      BY DEF TSOInv
  <2> QED
      BY <2>1, <2>2
<1> QED
    BY <1>1, TSOInvariant, PTL

\* A thread whose destructor has ended leaves no store behind.
THEOREM ExitComplete == Spec => []ExitDrains
<1>1. TSOInv => ExitDrains
    BY DEF TSOInv, ThreadOK, ExitDrains
<1> QED
    BY <1>1, TSOInvariant, PTL
=============================================================================
