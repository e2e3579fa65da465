---------------------------- MODULE MCMessagesPipe ----------------------------
(* Instances of MessagesPipe for TLC. *)
EXTENDS MessagesPipe

CONSTANTS c1, c2, t1, t2

MCCalls == {c1, c2}
MCSize == [c \in MCCalls |-> 2]
MCTicks == {t1, t2}
MCOneTick == {t1}
=============================================================================
