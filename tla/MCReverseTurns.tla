---------------------------- MODULE MCReverseTurns ----------------------------
(* Constants of the runs of ReverseTurns: a request and a probe.              *)
EXTENDS ReverseTurns

CONSTANTS x, p

MCOp == {x, p}
MCKey == [o \in MCOp |-> IF o = p THEN "probing" ELSE "method"]
=============================================================================
