----------------------------- MODULE CaseMutex ------------------------------
(***************************************************************************)
(* What CaseOperationCoordinator promises to the routes that use it: per   *)
(* case there is one slot, at most one long operation sits in it, and the  *)
(* operation that sits in it is the one that leaves it.                    *)
(***************************************************************************)
CONSTANTS Task,     \* the operations that may ask for the slot of one case
          NoTask    \* the value of an empty slot

VARIABLE holder     \* who sits in the slot

Init == holder = NoTask

Acquire(t) == holder = NoTask /\ holder' = t

Release(t) == holder = t /\ holder' = NoTask

Next == \E t \in Task : Acquire(t) \/ Release(t)

Spec == Init /\ [][Next]_holder
=============================================================================
