------------------------------ MODULE AnchorLog ------------------------------
(***************************************************************************)
(* What an anchor is for its users: an append-only history in which every  *)
(* version is signed over the version before it, no version occurs twice   *)
(* and timestamps never go back.  A step adds one version, atomically.     *)
(* The promise ends with the step that breaks it, and then for ever.       *)
(***************************************************************************)
EXTENDS Naturals, SequencesExt

CONSTANTS Values, Stamps, None

VARIABLES log, broken

vars == <<log, broken>>

Versions == [value: Values, base: Values \cup {None}, stamp: Stamps]

Init == log = <<>> /\ ~broken

LastValue == IF log = <<>> THEN None ELSE Last(log).value

Anchor(v, s) ==
    /\ \A i \in DOMAIN log : log[i].value # v
    /\ log # <<>> => Last(log).stamp <= s
    /\ log' = Append(log, [value |-> v, base |-> LastValue, stamp |-> s])

Break == broken'

Next ==
    \/ ~broken' /\ \E v \in Values, s \in Stamps : Anchor(v, s)
    \/ Break

Spec == Init /\ [][Next]_vars
=============================================================================
