--------------------------- MODULE MCMessageQueue ---------------------------
EXTENDS MessageQueue, TLC

CONSTANTS p1, p2, p3, t1, t2, g1

MCPuts == {p1, p2, p3}
MCTwoPuts == {p1, p2}
MCTakes == {t1, t2}
MCOneTake == {t1}
MCGets == {g1}

\* Puts, and takes, are alike.
Symmetry == Permutations(Puts) \cup Permutations(Takes)

=============================================================================
