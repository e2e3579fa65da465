---------------------------- MODULE MCSimpleLock -----------------------------
(***************************************************************************)
(* Instances of SimpleLock for TLC.                                        *)
(***************************************************************************)
EXTENDS SimpleLock, TLC

\* Secrets are interchangeable.
Symmetry == Permutations(Secrets)
=============================================================================
