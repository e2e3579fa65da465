---------------------------- MODULE MCWorkerPool -----------------------------
(***************************************************************************)
(* Instances of WorkerPool for TLC.                                        *)
(***************************************************************************)
EXTENDS WorkerPool, TLC

\* Tasks are interchangeable, and so are the names of the workers.
Symmetry == Permutations(Tasks) \cup Permutations(Workers)
=============================================================================
