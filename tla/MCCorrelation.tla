------------------------------ MODULE MCCorrelation ------------------------------
(* What the engine and the map conclude from rows, in one run: the analysis of a *)
(* memory dump, the origin of what ran, the entity map over rows of every kind,  *)
(* and the cache of the map between two requests.  A behaviour is about one of   *)
(* them; the variables of the others rest.                                       *)
EXTENDS MCEntityGraph, MCMemoryDumps, Provenance

CONSTANTS f1, f2, archive, setup

VARIABLE part

Programs == {tool, archive, setup}
Folders == {users, temp}
Telemetries == {"usn", "bare", "renamed"}
Arrivals == [t \in Telemetries |-> IF t = "renamed" THEN {"download", "create"} ELSE {"download"}]
Paths == {In(users, tool), In(users, archive), In(users, setup), In(temp, tool)}
Forms ==
  {[named |-> TRUE, timed |-> TRUE, severity |-> 1], [named |-> FALSE, timed |-> FALSE, severity |-> 3]}
Files == {f1, f2}
Writables == {users}
Runnable == {tool, setup}
OnlyTool == {tool}
OnlySetup == {setup}

\* The cache is about one event, one finding and two commits.
Cached == INSTANCE EntityGraph WITH
  Events <- FewEvents, Processes <- {}, Findings <- FewFindings, Initial <- FewInitial, MaxCommits <- 2

partVars == <<part, memoryVars, originVars, vars>>

MemoryRests == dump = 0 /\ stage = 0 /\ processes = <<>> /\ memory = {} /\ hidden = {} /\ ignored = 0
OriginRests == rows = <<>> /\ history = 0 /\ telemetry = None /\ missing = FALSE /\ clock = 0
GraphRests == /\ data = NoRows /\ logged = 0 /\ copied = 0 /\ cache = <<>> /\ builder = None
              /\ request = [r \in Request |-> Idle]

PartInit ==
  \/ part = "memory" /\ MemoryInit /\ OriginRests /\ GraphRests
  \/ part = "origin" /\ OriginInit /\ MemoryRests /\ GraphRests
  \/ part = "map" /\ Init /\ MemoryRests /\ OriginRests
  \/ part = "cache" /\ Cached!Init /\ MemoryRests /\ OriginRests

PartNext ==
  /\ \/ part = "memory" /\ MemoryNext /\ UNCHANGED <<originVars, vars>>
     \/ part = "origin" /\ OriginNext /\ UNCHANGED <<memoryVars, vars>>
     \/ part = "map" /\ Write /\ UNCHANGED <<memoryVars, originVars>>
     \/ part = "cache" /\ Cached!Next /\ UNCHANGED <<memoryVars, originVars>>
  /\ UNCHANGED part

PartSpec == PartInit /\ [][PartNext]_partVars

Swapped == Permutations({f1, f2}) \cup Permutations({r1, r2})
==============================================================================
