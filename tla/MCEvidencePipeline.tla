------------------------- MODULE MCEvidencePipeline --------------------------
(* Three requests of every kind for two files, with every failure but a crash: *)
(* a crash between the renames of a replacement breaks the pair of file and    *)
(* rows (README, section 4).                                                   *)
EXTENDS EvidencePipeline

MCTask == Request \X Role

OperationsNext == \/ \E r \in Request : Ask(r) \/ RequestStep(r) \/ Ingest(r)
                  \/ \E t \in Task : TaskStep(t)

OperationsSpec == Init /\ [][OperationsNext]_vars
==============================================================================
