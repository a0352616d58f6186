---------------------------- MODULE MCWorkerPool ----------------------------
(* Five permutations of which two were reused from the previous blob.      *)
EXTENDS WorkerPool

MCToCompile == [p \in 0 .. 2 |-> <<0, 2, 3>>[p + 1]]
=============================================================================
