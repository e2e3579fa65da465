-------------------------------- MODULE Lease --------------------------------
(***************************************************************************)
(* What a lock is for its users: held by one secret at most, given to no   *)
(* other until its holder gives it back or its period is over.  The        *)
(* promise ends with the step that breaks it, and then for ever.           *)
(***************************************************************************)
CONSTANTS Secrets, None

VARIABLES
    holder,   \* the secret the lock belongs to, or None
    over,     \* secrets whose period is over
    leaving,  \* secrets that are giving the lock back
    broken

vars == <<holder, over, leaving, broken>>

Init == holder = None /\ over = {} /\ leaving = {} /\ ~broken

Grant(s) == holder = None /\ holder' = s

\* A holder keeps the lock after its period until somebody else asks for it.
Lapse(s) == holder = s /\ s \in over /\ holder' = None

Release(s) == holder = s /\ s \in leaving /\ holder' = None

Break == broken'

Next ==
    \/ /\ ~broken'
       /\ \/ holder' = holder
          \/ \E s \in Secrets : Grant(s) \/ Lapse(s) \/ Release(s)
    \/ Break

Spec == Init /\ [][Next]_vars
=============================================================================
