----------------------------- MODULE FlushInput -----------------------------
(***************************************************************************)
(* The input vector of the software store buffer                            *)
(* (include/runtime/input_vector.h): one global object, shared by all       *)
(* threads, that says how many entries to flush after the next instruction. *)
(* It is a record: the array _vector, inputSize and inputPos.               *)
(***************************************************************************)
EXTENDS Integers, Sequences

CONSTANTS kMaxInputSize,
          Vectors            \* the input vectors that are fed

\* The code leaves it to the caller that a vector fits the array, and its values an int.
ASSUME InputAssumption ==
    /\ kMaxInputSize \in Nat \ {0}
    /\ \A vec \in Vectors : vec \in Seq(Nat) /\ Len(vec) <= kMaxInputSize

Slots == 0 .. kMaxInputSize - 1

\* A global object is zero-initialised.
NoInput == [vector |-> [i \in Slots |-> 0], size |-> 0, pos |-> 0]

\* feedInput(): the vector is copied over the front of the array; what lies
\* beyond it, and inputPos, stay as they are.
FeedInput(inp, vec) ==
    [inp EXCEPT !.vector = [i \in Slots |-> IF i < Len(vec) THEN vec[i + 1] ELSE @[i]],
                !.size = Len(vec)]

\* next(): the value returned, and the object left behind.
NextValue(inp) == inp.vector[inp.pos]
Advance(inp) == [inp EXCEPT !.pos = (@ + 1) % inp.size]
=============================================================================
