------------------------------ MODULE PSOBuffer ------------------------------
(***************************************************************************)
(* The PSO runtime of the software store buffer (PSOCallbacks.cpp): per     *)
(* thread, a map from addresses to lists of stores that have not reached    *)
(* memory.  An access may flush the list of its own address only, so stores *)
(* to other addresses are overtaken.  The runtime ignores the size of an    *)
(* access; the accesses here are aligned words.                             *)
(*                                                                         *)
(* As in the TSO runtime the callbacks run under one lock and the           *)
(* destructor does not.                                                     *)
(***************************************************************************)
EXTENDS FlushInput

CONSTANTS Threads,
          Addrs,            \* addresses of words, in the order of std::map
          Values,
          kMaxBufferSize

VARIABLES mem,         \* Addrs -> Values
          buffer,      \* per thread: _storebuffer
          bufferSize,  \* per thread: bufferSize
          input,       \* the global input vector
          phase,       \* per thread: running, in its destructor, or gone
          written,     \* per thread and address: values its destructor has written
          result,      \* per thread: what its last load returned
          lastStored   \* history: per thread and address, its newest store, if any

vars == <<mem, buffer, bufferSize, input, phase, written, result, lastStored>>

NoStores == [a \in Addrs |-> <<>>]
None == [a \in Addrs |-> 0]

Newest(list) == list[Len(list)]

Init ==
    /\ mem = None
    /\ buffer = [t \in Threads |-> NoStores]
    /\ bufferSize = [t \in Threads |-> 0]
    /\ input = NoInput
    /\ phase = [t \in Threads |-> "running"]
    /\ written = [t \in Threads |-> None]
    /\ result = [t \in Threads |-> 0]
    /\ lastStored = [t \in Threads |-> NoStores]

\* flush(addr, n): the n oldest values of the address are written and removed.
flush(t, buf, size, a, n) ==
    LET k == IF n < Len(buf[a]) THEN n ELSE Len(buf[a]) IN
    /\ mem' = IF k = 0 THEN mem ELSE [mem EXCEPT ![a] = buf[a][k]]
    /\ buffer' = [buffer EXCEPT ![t] = [buf EXCEPT ![a] = SubSeq(buf[a], k + 1, Len(buf[a]))]]
    /\ bufferSize' = [bufferSize EXCEPT ![t] = size]

\* flushAll(): every list is written in its order, so the newest value stays.
flushAll(t, buf) ==
    /\ mem' = [a \in Addrs |-> IF buf[a] = <<>> THEN mem[a] ELSE Newest(buf[a])]
    /\ buffer' = [buffer EXCEPT ![t] = NoStores]
    /\ bufferSize' = [bufferSize EXCEPT ![t] = 0]

\* flushAfterInsn(addr) on a buffer that an instruction left as buf, size.
flushAfterInsn(t, buf, size, a) ==
    \/ /\ size >= kMaxBufferSize
       /\ flushAll(t, buf)
       /\ UNCHANGED input
    \/ /\ size < kMaxBufferSize
       /\ input.size > 0
       /\ flush(t, buf, size, a, NextValue(input))
       /\ input' = Advance(input)
    \/ /\ size < kMaxBufferSize
       /\ input.size = 0
       /\ buffer' = [buffer EXCEPT ![t] = buf]
       /\ bufferSize' = [bufferSize EXCEPT ![t] = size]
       /\ UNCHANGED <<mem, input>>

\* __ssb_pso_store
store(t, a, v) ==
    /\ phase[t] = "running"
    /\ flushAfterInsn(t, [buffer[t] EXCEPT ![a] = Append(@, v)], bufferSize[t] + 1, a)
    /\ lastStored' = [lastStored EXCEPT ![t][a] = <<v>>]
    /\ UNCHANGED <<phase, written, result>>

\* What retrieve() returns: the newest own store that waits, else memory.
RetrieveValue(t, a) ==
    IF buffer[t][a] = <<>> THEN mem[a] ELSE Newest(buffer[t][a])

\* __ssb_pso_load
retrieve(t, a) ==
    /\ phase[t] = "running"
    /\ result' = [result EXCEPT ![t] = RetrieveValue(t, a)]
    /\ flushAfterInsn(t, buffer[t], bufferSize[t], a)
    /\ UNCHANGED <<phase, written, lastStored>>

\* __ssb_pso_flush
flushCallback(t) ==
    /\ phase[t] = "running"
    /\ flushAll(t, buffer[t])
    /\ UNCHANGED <<input, phase, written, result, lastStored>>

feedinput(vec) ==
    /\ input' = FeedInput(input, vec)
    /\ UNCHANGED <<mem, buffer, bufferSize, phase, written, result, lastStored>>

\* A thread ends; ~storebuffer() runs flushAll() without the lock: address by
\* address in the order of the map, value by value in the order of the list.
Exit(t) ==
    /\ phase[t] = "running"
    /\ phase' = [phase EXCEPT ![t] = "exiting"]
    /\ UNCHANGED <<mem, buffer, bufferSize, input, written, result, lastStored>>

Unwritten(t) == {a \in Addrs : written[t][a] < Len(buffer[t][a])}

ExitWrite(t) ==
    /\ phase[t] = "exiting"
    /\ \E a \in Unwritten(t) :
         /\ \A b \in Unwritten(t) : a <= b
         /\ mem' = [mem EXCEPT ![a] = buffer[t][a][written[t][a] + 1]]
         /\ written' = [written EXCEPT ![t][a] = @ + 1]
    /\ UNCHANGED <<buffer, bufferSize, input, phase, result, lastStored>>

ExitDone(t) ==
    /\ phase[t] = "exiting"
    /\ Unwritten(t) = {}
    /\ buffer' = [buffer EXCEPT ![t] = NoStores]
    /\ bufferSize' = [bufferSize EXCEPT ![t] = 0]
    /\ written' = [written EXCEPT ![t] = None]
    /\ phase' = [phase EXCEPT ![t] = "gone"]
    /\ UNCHANGED <<mem, input, result, lastStored>>

Next ==
    \/ \E t \in Threads, a \in Addrs, v \in Values : store(t, a, v)
    \/ \E t \in Threads, a \in Addrs : retrieve(t, a)
    \/ \E t \in Threads : flushCallback(t) \/ Exit(t) \/ ExitWrite(t) \/ ExitDone(t)
    \/ \E vec \in Vectors : feedinput(vec)

Spec == Init /\ [][Next]_vars

-----------------------------------------------------------------------------
\* A thread reads its own writes: at an address no other thread has stored to, it
\* sees its newest store, whether that still waits or has reached memory.
ReadsOwnWrites ==
    \A t \in Threads, a \in Addrs :
        (/\ phase[t] = "running"
         /\ lastStored[t][a] # <<>>
         /\ \A u \in Threads \ {t} : lastStored[u][a] = <<>>)
            => lastStored[t][a] = <<RetrieveValue(t, a)>>

\* The runtime implements the abstract store buffer.  The values the destructor has
\* written have left the queue, although the map keeps them until the end.
Unflushed == [t \in Threads |-> [a \in Addrs |->
                 SubSeq(buffer[t][a], written[t][a] + 1, Len(buffer[t][a]))]]

Abstract == INSTANCE StoreBuffer WITH pend <- Unflushed

\* Per-address order and forwarding: what loads return and how memory changes is
\* what the abstract store buffer allows.
ImplementsStoreBuffer == Abstract!Spec
=============================================================================
