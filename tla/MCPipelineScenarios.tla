-------------------------- MODULE MCPipelineScenarios --------------------------
(* Two scenarios of the evidence pipeline in one run.  "batch": three uploads  *)
(* of two names, one a memory image, no failure, one crash.  "pair": any two   *)
(* requests for one file, with every failure and one crash.  The pair has the  *)
(* steps and the status of its own; those of the batch rest meanwhile.         *)
EXTENDS EvidencePipeline

CONSTANTS r1, r2, f1

VARIABLES scenario, pairStep, pairStatus

MCTask == Request \X Role

Two == {r1, r2}

Pair == INSTANCE EvidencePipeline WITH
  Request <- Two, Task <- Two \X Role, File <- {f1}, MemoryFile <- {},
  Kinds <- AllKinds, Faults <- AllFaults, MaxCrashes <- 1, step <- pairStep, status <- pairStatus

scenarioVars == <<scenario, pairStep, pairStatus, vars>>

PairRests == pairStep = [t \in Two \X Role |-> "unborn"] /\ pairStatus = "created"
BatchRests == step = [t \in Task |-> "unborn"] /\ status = "created"

ScenarioInit == \/ scenario = "batch" /\ Init /\ PairRests
                \/ scenario = "pair" /\ Pair!Init /\ BatchRests

BatchStep(A) == scenario = "batch" /\ A /\ UNCHANGED <<scenario, pairStep, pairStatus>>
PairStep(A) == scenario = "pair" /\ A /\ UNCHANGED <<scenario, step, status>>

ScenarioNext == BatchStep(Next) \/ PairStep(Pair!Next)

(* The fairness of EvidencePipeline, for the two requests of the pair. *)
ScenarioSpec ==
  /\ ScenarioInit /\ [][ScenarioNext]_scenarioVars
  /\ \A r \in Two : /\ WF_scenarioVars(PairStep(Pair!RequestStep(r)))
                    /\ WF_scenarioVars(PairStep(Pair!Ingest(r)))
  /\ \A t \in Two \X Role : WF_scenarioVars(PairStep(Pair!TaskStep(t)))

(* Every request that was accepted and every ingestion that was scheduled ends.*)
PairOperationsEnd == Pair!OperationsEnd
==============================================================================
