------------------------------- MODULE Signal -------------------------------
(***************************************************************************)
(* Feedback signal, pkg/signal/signal.go: a map from the elements that an  *)
(* execution covered to a priority.                                        *)
(***************************************************************************)
EXTENDS Integers, Sequences, FiniteSetsExt

CONSTANTS Elems, Prios

absent == -1
Signals == [Elems -> {absent} \cup Prios]

\* The zero value, a nil map.
Nil == [e \in Elems |-> absent]

Covers(s) == {e \in Elems : s[e] # absent}

\* s is contained in t: t has all its elements, with a priority as high.
Within(s, t) == \A e \in Elems : s[e] <= t[e]

Only(s, E) == [e \in Elems |-> IF e \in E THEN s[e] ELSE absent]

Diff(s, s1) == Only(s1, {e \in Elems : s1[e] > s[e]})

Intersection(s, s1) == Only(s, {e \in Elems : s1[e] >= s[e]})

Merge(s, s1) == [e \in Elems |-> Max({s[e], s1[e]})]

MergeAll(S) == [e \in Elems |-> Max({absent} \cup {s[e] : s \in S})]

\* The sets of elements that s.Split(n) may take out of s: n of them, in the order of
\* a map iteration.  The counter is tested after it is decremented, so 0 takes all.
SplitChoices(s, n) ==
    IF n = 0 THEN {Covers(s)}
    ELSE kSubset(Min({n, Cardinality(Covers(s))}), Covers(s))

SplitRest(s, E) == Only(s, Elems \ E)

\* Each element is kept by the first of the inputs with its highest priority.
Minimize(inputs) ==
    LET Best(e, i) == /\ inputs[i].sig[e] # absent
                      /\ \A j \in DOMAIN inputs :
                            \/ inputs[j].sig[e] < inputs[i].sig[e]
                            \/ inputs[j].sig[e] = inputs[i].sig[e] /\ j >= i
    IN {inputs[i] : i \in {k \in DOMAIN inputs : \E e \in Elems : Best(e, k)}}
=============================================================================
