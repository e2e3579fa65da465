----------------------------- MODULE MCLegacyDSU -----------------------------
(* Instances of LegacyDSU for TLC. *)
EXTENDS LegacyDSU

CONSTANTS d1, d2, t1, t2, t3

MCInstances == {d1, d2}
MCTasks2 == {t1, t2}
MCTasks3 == {t1, t2, t3}
MCSymmetry == Permutations(MCInstances) \cup Permutations(MCTasks3)

\* The instances of three tasks up to the names of tasks and instances: a reduction
\* by symmetry for runs that check liveness.
MCInit ==
    /\ Init
    /\ InstanceOf(t1) = d1
    /\ InstanceOf(t2) = d1
MCFairSpec == MCInit /\ [][Next]_vars /\ Fairness
=============================================================================
