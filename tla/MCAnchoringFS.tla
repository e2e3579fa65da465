---------------------------- MODULE MCAnchoringFS ----------------------------
(* Instances of AnchoringFS for TLC. *)
EXTENDS AnchoringFS, TLC

CONSTANTS r1, r2, r3, r4

MCRequests2 == {r1, r2}
MCRequests3 == {r1, r2, r3}
MCRequests4 == {r1, r2, r3, r4}
MCStamps1 == {1}
MCStamps2 == {1, 2}
MCSymmetry == Permutations(Requests)
=============================================================================
