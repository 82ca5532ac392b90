---------------------------- MODULE MCReverseRun ----------------------------
(* Constants of the runs of ReverseRun.                                     *)
EXTENDS ReverseRun, TLC

Slots == Permutations(Task) \cup Permutations(Client)
=============================================================================
