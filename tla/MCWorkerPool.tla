----------------------------- MODULE MCWorkerPool -----------------------------
(* Instances of WorkerPool: two calls and a container of an earlier server,  *)
(* whose name one of the calls wants.                                        *)
EXTENDS WorkerPool, TLC
CONSTANTS r1, r2, old

DistinctNames == r1 :> "a" @@ r2 :> "b" @@ old :> "a"
\* What buildContainerName makes of two first runs of code_from_doc.
SharedNames == r1 :> "a" @@ r2 :> "a" @@ old :> "a"
=============================================================================
