------------------------ MODULE MCBrickMapController ------------------------
(* Instances of BrickMapController for TLC. *)
EXTENDS BrickMapController

CONSTANTS c1, c2, f1, f2

MCClients == {c1, c2}
MCFiles == {f1, f2}
MCSeeds == {{f1}}
MCAppend == {"append"}
MCNone == {}
MCAddDelete == {"add", "delete"}
MCReply == {"reply"}
MCRetriedFaults == AllFaults \ {"getLast"}
MCSymmetry == Permutations(Clients)
=============================================================================
