----------------------------- MODULE WorkQueue -----------------------------
(***************************************************************************)
(* The queues of non-fuzzing work of a fuzzer (syz-fuzzer/workqueue.go).   *)
(* A queue is a sequence whose last element is taken first.                *)
(***************************************************************************)
EXTENDS SequencesExt

Kinds == {"triageCandidate", "candidate", "triage", "threading", "smash"}

newWorkQueue == [k \in Kinds |-> <<>>]

IsEmpty(wq) == \A k \in Kinds : wq[k] = <<>>

enqueue(wq, kind, item) == [wq EXCEPT ![kind] = Append(@, item)]

\* The kinds dequeue() may take from: the triage of candidates, then candidates,
\* then triage or threading by the toss of a coin, then smashing.
NextKinds(wq) ==
    IF wq["triageCandidate"] # <<>> THEN {"triageCandidate"}
    ELSE IF wq["candidate"] # <<>> THEN {"candidate"}
    ELSE IF wq["threading"] # <<>> \/ wq["triage"] # <<>>
         THEN {k \in {"threading", "triage"} : wq[k] # <<>>}
    ELSE {k \in {"smash"} : wq[k] # <<>>}

Taken(wq, kind) == [wq EXCEPT ![kind] = Front(@)]
=============================================================================
