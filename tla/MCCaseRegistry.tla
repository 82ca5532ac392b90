--------------------------- MODULE MCCaseRegistry ----------------------------
(***************************************************************************)
(* Two cases and three threads: one that deletes or creates, one that      *)
(* updates the other case, and one that opens a session meanwhile.         *)
(***************************************************************************)
EXTENDS CaseRegistry
==============================================================================
