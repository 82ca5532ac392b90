------------------------------ MODULE MCRuleState ------------------------------
(* A family with two members, the pair that shares "run-key-persistence" (of   *)
(* which the registry rule also reports as "MemProcFS timeline"), a signature  *)
(* of web requests, and a rule in engine code.                                 *)
EXTENDS RuleState

MCRules == {"lolbin", "lolbin.certutil", "lolbin.mshta", "cmdline.run-key", "registry.run-key", "web.traversal", "engine"}
MCFamily == [r \in MCRules |-> IF r \in {"lolbin.certutil", "lolbin.mshta"} THEN "lolbin" ELSE None]
MCTable == [r \in MCRules |-> 
  CASE r = "engine" -> "code" [] r = "cmdline.run-key" -> "cmdline" [] r = "web.traversal" -> "graded"
    [] OTHER -> "plain"]
MCLegacy == [r \in MCRules |->
  CASE r = "engine" -> {"engine"}
    [] r = "web.traversal" -> {"web-traversal"}
    [] r = "cmdline.run-key" -> {"run-key-persistence"}
    [] r = "registry.run-key" -> {"run-key-persistence", "memprocfs-timeline"}
    [] OTHER -> {"lolbin-activity"}]
MCScopes ==
  {[rules |-> MCRules, ids |-> {"c1"}, requests |-> {"q1"}, runs |-> {}, last |-> 5],
   [rules |-> {"engine"}, ids |-> {"c1", "c2", "c3"}, requests |-> {"q1", "q2"}, runs |-> {}, last |-> 5],
   [rules |-> {"cmdline.run-key"}, ids |-> {"c1"}, requests |-> {"q1", "q2"}, runs |-> {"n1", "n2"}, last |-> 3]}
=============================================================================
