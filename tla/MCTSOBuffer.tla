---------------------------- MODULE MCTSOBuffer ----------------------------
(* Instances of TSOBuffer: bytes, halves and words of one memory word.      *)
EXTENDS TSOBuffer

\* A byte and a full word that overlap.
ByteAndWord == {<<0, 1>>, <<0, 4>>}
\* A half word, which flushEntry() narrows.
ByteAndHalf == {<<0, 1>>, <<0, 2>>}

\* Vectors that hold stores back, let one go, and alternate.
FlushVectors == {<<0>>, <<1>>, <<0, 2>>}
=============================================================================
