---------------------------- MODULE StoreBuffer ----------------------------
(***************************************************************************)
(* What a store buffer of the PSO kind promises.  The stores of a thread to *)
(* one address wait in a queue and reach memory in order; stores to         *)
(* different addresses overtake each other freely.  A thread sees its own   *)
(* newest waiting store, and memory when it has none.                       *)
(***************************************************************************)
EXTENDS Integers, Sequences

CONSTANTS Threads, Addrs, Values

VARIABLES mem,     \* Addrs -> Values
          pend,    \* pend[t][a]: the stores of t to a that have not reached memory
          result   \* the value the last load of a thread returned

vars == <<mem, pend, result>>

Init ==
    /\ mem = [a \in Addrs |-> 0]
    /\ pend = [t \in Threads |-> [a \in Addrs |-> <<>>]]
    /\ result = [t \in Threads |-> 0]

\* What thread t sees at an address.
Visible(t, a) == IF pend[t][a] = <<>> THEN mem[a] ELSE pend[t][a][Len(pend[t][a])]

\* From the queues q of thread t, the k[a] oldest stores to each a reach memory.
Drain(t, q, k) ==
    /\ pend' = [pend EXCEPT ![t] = [a \in Addrs |-> SubSeq(q[a], k[a] + 1, Len(q[a]))]]
    /\ mem' = [a \in Addrs |-> IF k[a] = 0 THEN mem[a] ELSE q[a][k[a]]]

DrainSome(t, q) ==
    \E k \in [Addrs -> Nat] :
        (\A a \in Addrs : k[a] <= Len(q[a])) /\ Drain(t, q, k)

\* A store waits, and any number of stores of its thread reach memory.
Store(t, a, v) ==
    /\ UNCHANGED result
    /\ DrainSome(t, [pend[t] EXCEPT ![a] = Append(@, v)])

\* A load returns what its thread sees.
Load(t, a) ==
    /\ result' = [result EXCEPT ![t] = Visible(t, a)]
    /\ DrainSome(t, pend[t])

\* Stores may reach memory at any time.
Flush(t) == UNCHANGED result /\ DrainSome(t, pend[t])

Next ==
    \E t \in Threads :
        \/ \E a \in Addrs, v \in Values : Store(t, a, v)
        \/ \E a \in Addrs : Load(t, a)
        \/ Flush(t)

Spec == Init /\ [][Next]_vars
=============================================================================
