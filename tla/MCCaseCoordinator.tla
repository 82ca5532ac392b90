-------------------------- MODULE MCCaseCoordinator --------------------------
(***************************************************************************)
(* The coordinator with four operations: one inside, one woken, one that   *)
(* arrives in the hand-off window and one cancelled.                       *)
(***************************************************************************)
EXTENDS CaseCoordinator
==============================================================================
