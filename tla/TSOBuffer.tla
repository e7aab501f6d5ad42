------------------------------ MODULE TSOBuffer ------------------------------
(***************************************************************************)
(* The TSO runtime of the software store buffer (TSOCallbacks.cpp).         *)
(*                                                                         *)
(* Every thread has a buffer of stores that have not reached memory.  It is *)
(* kept twice: last, byte by byte, for the thread's own loads, and indexed, *)
(* in the order of the stores, for flushing.  After every load and store    *)
(* the input vector says how many of the oldest stores to flush.            *)
(*                                                                         *)
(* The callbacks run under one lock (_decl_callback_debug.h), so each is    *)
(* one step.  The destructor at thread exit takes no lock: it is one step   *)
(* per entry.                                                               *)
(*                                                                         *)
(* A byte has ByteValues values; the upper half are negative as a char.      *)
(***************************************************************************)
EXTENDS FlushInput, FiniteSets

CONSTANTS Threads,
          WordSize,         \* size of a full word (8 in the code)
          ByteValues,       \* number of values of a byte
          kMaxBufferSize,
          Accesses,         \* the <<base, size>> of the instrumented accesses
          StoredBytes,      \* a stored value repeats one of these bytes
          MaxStores,        \* bound: stores of one thread
          MaxFeeds          \* bound: calls of feedInput

ASSUME TSOAssumption == kMaxBufferSize \in Nat \ {0}

Addresses == UNION {a[1] .. a[1] + a[2] - 1 : a \in Accesses}
Byte == 0 .. ByteValues - 1

VARIABLES mem,         \* Addresses -> Byte
          last,        \* per thread: _storebuffer_last_entry
          indexed,     \* per thread: _storebuffer_indexed
          bufferSize,  \* per thread: bufferSize
          input,       \* the global input vector
          phase,       \* per thread: running, in its destructor, or gone
          written,     \* per thread: entries its destructor has written
          stores,      \* history: stores made by the thread
          reached,     \* history: those of them that have reached memory
          fenced,      \* history: stores made before its last flush callback
          feeds        \* history: vectors fed

buffers == <<last, indexed, bufferSize>>
history == <<stores, reached, fenced, feeds>>
vars == <<mem, buffers, input, phase, written, history>>

Min2(a, b) == IF a < b THEN a ELSE b

Bytes(base, val) == {base + i : i \in DOMAIN val}

\* What flushEntry() writes for a value.  A value of a byte and of a word are
\* written as they are; the sizes in between go through (char), so only the low
\* byte survives and its sign fills the rest.
SignByte(b) == IF 2 * b >= ByteValues THEN ByteValues - 1 ELSE 0
FlushedValue(val) ==
    LET size == Cardinality(DOMAIN val) IN
    [i \in DOMAIN val |-> IF size \in {1, WordSize} \/ i = 0 THEN val[i] ELSE SignByte(val[0])]

FlushEntry(m, e) ==
    [a \in DOMAIN m |-> IF a \in Bytes(e.base, e.val) THEN FlushedValue(e.val)[a - e.base] ELSE m[a]]

\* Memory after the entries of a list are flushed in order.
FlushList(m, list) ==
    LET after[k \in 0 .. Len(list)] == IF k = 0 THEN m ELSE FlushEntry(after[k - 1], list[k])
    IN after[Len(list)]

\* The bytes an entry of the list covers.
Covered(list) == UNION {Bytes(list[k].base, list[k].val) : k \in 1 .. Len(list)}
Ids(list) == {list[k].id : k \in 1 .. Len(list)}

-----------------------------------------------------------------------------
Init ==
    /\ mem = [a \in Addresses |-> 0]
    /\ last = [t \in Threads |-> <<>>]
    /\ indexed = [t \in Threads |-> <<>>]
    /\ bufferSize = [t \in Threads |-> 0]
    /\ input = NoInput
    /\ phase = [t \in Threads |-> "running"]
    /\ written = [t \in Threads |-> 0]
    /\ stores = [t \in Threads |-> 0]
    /\ reached = [t \in Threads |-> {}]
    /\ fenced = [t \in Threads |-> 0]
    /\ feeds = 0

\* Mutant: the newest entries are flushed instead of the oldest.
flushEntries_newest(t, lst, idx, size, n) ==
    LET k == Min2(n, Len(idx))
        flushed == SubSeq(idx, Len(idx) - k + 1, Len(idx))
    IN /\ mem' = FlushList(mem, flushed)
       /\ last' = [last EXCEPT ![t] = [a \in DOMAIN lst \ Covered(flushed) |-> lst[a]]]
       /\ indexed' = [indexed EXCEPT ![t] = SubSeq(idx, 1, Len(idx) - k)]
       /\ bufferSize' = [bufferSize EXCEPT ![t] = size]
       /\ reached' = [reached EXCEPT ![t] = @ \cup Ids(flushed)]

\* flushEntries(n) on the copies lst and idx: the n oldest entries are written to
\* memory and removed, and their bytes erased from the loads' copy.
flushEntries(t, lst, idx, size, n) ==
    LET k == Min2(n, Len(idx))
        flushed == SubSeq(idx, 1, k)
    IN /\ mem' = FlushList(mem, flushed)
       /\ last' = [last EXCEPT ![t] = [a \in DOMAIN lst \ Covered(flushed) |-> lst[a]]]
       /\ indexed' = [indexed EXCEPT ![t] = SubSeq(idx, k + 1, Len(idx))]
       /\ bufferSize' = [bufferSize EXCEPT ![t] = size]
       /\ reached' = [reached EXCEPT ![t] = @ \cup Ids(flushed)]

\* Mutant: the newest entry stays behind.
flushAllEntries_butone(t, idx) ==
    LET flushed == SubSeq(idx, 1, Len(idx) - 1) IN
    /\ mem' = FlushList(mem, flushed)
    /\ last' = [last EXCEPT ![t] = <<>>]
    /\ indexed' = [indexed EXCEPT ![t] = idx]
    /\ bufferSize' = [bufferSize EXCEPT ![t] = 0]
    /\ reached' = [reached EXCEPT ![t] = @ \cup Ids(flushed)]

\* flushAllEntries(): every entry is written; the list keeps them.
flushAllEntries(t, idx) ==
    /\ mem' = FlushList(mem, idx)
    /\ last' = [last EXCEPT ![t] = <<>>]
    /\ indexed' = [indexed EXCEPT ![t] = idx]
    /\ bufferSize' = [bufferSize EXCEPT ![t] = 0]
    /\ reached' = [reached EXCEPT ![t] = @ \cup Ids(idx)]

\* Mutant: a buffer that an input vector drains is never flushed as a whole.
flushAfterInsn_unbounded(t, lst, idx, size) ==
    \/ /\ size >= kMaxBufferSize
       /\ input.size = 0
       /\ flushAllEntries(t, idx)
       /\ UNCHANGED input
    \/ /\ input.size > 0
       /\ flushEntries(t, lst, idx, Min2(size, kMaxBufferSize - 1), NextValue(input))
       /\ input' = Advance(input)
    \/ /\ size < kMaxBufferSize
       /\ input.size = 0
       /\ last' = [last EXCEPT ![t] = lst]
       /\ indexed' = [indexed EXCEPT ![t] = idx]
       /\ bufferSize' = [bufferSize EXCEPT ![t] = size]
       /\ UNCHANGED <<mem, input, reached>>

\* flushAfterInsn() on a buffer that an instruction left as lst, idx, size.
flushAfterInsn(t, lst, idx, size) ==
    \/ /\ size >= kMaxBufferSize
       /\ flushAllEntries(t, idx)
       /\ UNCHANGED input
    \/ /\ size < kMaxBufferSize
       /\ input.size > 0
       /\ flushEntries(t, lst, idx, size, NextValue(input))
       /\ input' = Advance(input)
    \/ /\ size < kMaxBufferSize
       /\ input.size = 0
       /\ last' = [last EXCEPT ![t] = lst]
       /\ indexed' = [indexed EXCEPT ![t] = idx]
       /\ bufferSize' = [bufferSize EXCEPT ![t] = size]
       /\ UNCHANGED <<mem, input, reached>>

\* __ssb_tso_store: the bytes become the thread's latest, the entry joins the list.
store(t, base, val) ==
    /\ phase[t] = "running"
    /\ stores[t] < MaxStores
    /\ stores' = [stores EXCEPT ![t] = @ + 1]
    /\ flushAfterInsn(t,
           [a \in DOMAIN last[t] \cup Bytes(base, val) |->
                IF a \in Bytes(base, val) THEN val[a - base] ELSE last[t][a]],
           Append(indexed[t], [id |-> stores[t] + 1, base |-> base, val |-> val]),
           bufferSize[t] + 1)
    /\ UNCHANGED <<phase, written, fenced, feeds>>

\* What __ssb_tso_load returns for one byte: the thread's own latest, else memory.
RetrieveByte(t, a) == IF a \in DOMAIN last[t] THEN last[t][a] ELSE mem[a]

\* __ssb_tso_load: what is left behind by a load.
retrieve(t) ==
    /\ phase[t] = "running"
    /\ flushAfterInsn(t, last[t], indexed[t], bufferSize[t])
    /\ UNCHANGED <<phase, written, stores, fenced, feeds>>

\* __ssb_tso_flush: instrumented barriers, and calls out of instrumented code.
flush(t) ==
    /\ phase[t] = "running"
    /\ flushAllEntries(t, indexed[t])
    /\ fenced' = [fenced EXCEPT ![t] = stores[t]]
    /\ UNCHANGED <<input, phase, written, stores, feeds>>

feedinput(vec) ==
    /\ feeds < MaxFeeds
    /\ feeds' = feeds + 1
    /\ input' = FeedInput(input, vec)
    /\ UNCHANGED <<mem, buffers, phase, written, stores, reached, fenced>>

\* A thread ends; ~storebuffer() runs flushAllEntries() without the lock.
Exit(t) ==
    /\ phase[t] = "running"
    /\ phase' = [phase EXCEPT ![t] = "exiting"]
    /\ UNCHANGED <<mem, buffers, input, written, history>>

ExitWrite(t) ==
    /\ phase[t] = "exiting"
    /\ written[t] < Len(indexed[t])
    /\ LET e == indexed[t][written[t] + 1] IN
         /\ mem' = FlushEntry(mem, e)
         /\ reached' = [reached EXCEPT ![t] = @ \cup {e.id}]
    /\ written' = [written EXCEPT ![t] = @ + 1]
    /\ UNCHANGED <<buffers, input, phase, stores, fenced, feeds>>

\* Mutant: the destructor leaves the entries of a full buffer behind.
ExitDone_early(t) ==
    /\ phase[t] = "exiting"
    /\ last' = [last EXCEPT ![t] = <<>>]
    /\ bufferSize' = [bufferSize EXCEPT ![t] = 0]
    /\ phase' = [phase EXCEPT ![t] = "gone"]
    /\ UNCHANGED <<mem, indexed, input, written, history>>

ExitDone(t) ==
    /\ phase[t] = "exiting"
    /\ written[t] = Len(indexed[t])
    /\ last' = [last EXCEPT ![t] = <<>>]
    /\ bufferSize' = [bufferSize EXCEPT ![t] = 0]
    /\ phase' = [phase EXCEPT ![t] = "gone"]
    /\ UNCHANGED <<mem, indexed, input, written, history>>

Next ==
    \/ \E t \in Threads, a \in Accesses, b \in StoredBytes :
           store(t, a[1], [i \in 0 .. a[2] - 1 |-> b])
    \/ \E t \in Threads : retrieve(t) \/ flush(t) \/ Exit(t) \/ ExitWrite(t) \/ ExitDone(t)
    \/ \E vec \in Vectors : feedinput(vec)

Spec == Init /\ [][Next]_vars

-----------------------------------------------------------------------------
\* Total store order: a store of a thread reaches memory for the first time only
\* when all its earlier stores have, whatever the input vector says, in
\* flushEntries(), flushAllEntries() and the unlocked destructor alike.
FirstFlushInOrder ==
    \A t \in Threads : \A i \in reached[t] : 1 .. i \subseteq reached[t]

\* The stores of a thread that have not reached memory are fewer than
\* kMaxBufferSize, although flushEntries() does not count down bufferSize.
BoundedDelay ==
    \A t \in Threads : Cardinality(1 .. stores[t] \ reached[t]) < kMaxBufferSize

\* The flush callback is a barrier: every store made before it has reached memory.
FlushIsBarrier ==
    \A t \in Threads : 1 .. fenced[t] \subseteq reached[t]

\* A thread that has ended leaves no store behind in its buffer.
ExitDrains ==
    \A t \in Threads : phase[t] = "gone" => reached[t] = 1 .. stores[t]

-----------------------------------------------------------------------------
(* What comments in the code say, and the code does not keep.               *)

\* The stores of a thread to a byte that have not reached memory.
PendingAt(t, a) ==
    {k \in 1 .. Len(indexed[t]) : /\ indexed[t][k].id \notin reached[t]
                                  /\ a \in Bytes(indexed[t][k].base, indexed[t][k].val)}

\* What the comment in retrieve() says: a load takes a byte from global memory only
\* when the thread has no store buffer entry for it; else it returns the newest.
LoadsSeeOwnStores ==
    \A t \in Threads, a \in Addresses :
        (phase[t] = "running" /\ PendingAt(t, a) # {}) =>
            LET k == CHOOSE i \in PendingAt(t, a) : \A j \in PendingAt(t, a) : j <= i
            IN RetrieveByte(t, a) = indexed[t][k].val[a - indexed[t][k].base]

\* What the comment on the class says: last and indexed are two copies of the same
\* store buffer, so they cover the same bytes.
CopiesAgree ==
    \A t \in Threads : phase[t] = "running" => DOMAIN last[t] = Covered(indexed[t])

\* What the comments on the callbacks say: a store takes and a load returns a value
\* of the access's width, so right after a thread's only store was flushed its
\* bytes are the value's.
WholeValueIsFlushed ==
    \A t \in Threads :
        (fenced[t] = 1 /\ stores[t] = 1 /\ \A u \in Threads \ {t} : reached[u] = {}) =>
            \A a \in Covered(indexed[t]) :
                mem[a] = indexed[t][1].val[a - indexed[t][1].base]
=============================================================================
