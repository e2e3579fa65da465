--------------------------- MODULE MCMappingEngine ---------------------------
(* Instances of MappingEngine for TLC: three calls, two of them of one engine. *)
EXTENDS MappingEngine

CONSTANTS c1, c2, c3, e1, e2

MCCalls == {c1, c2, c3}
MCEngines == {e1, e2}
MCShared == {e1}
MCEngineOf == [c \in MCCalls |-> IF c = c3 THEN e2 ELSE e1]
=============================================================================
