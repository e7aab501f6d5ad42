---- MODULE T ----
EXTENDS MCExecutor, ExecutorProofs
====
