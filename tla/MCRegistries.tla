------------------------------ MODULE MCRegistries ------------------------------
(***************************************************************************)
(* The two stores beside the case databases, in one run: the registry of   *)
(* cases and the rules of the installation.  They share nothing; a         *)
(* behaviour is about one of them and the variables of the other rest.     *)
(***************************************************************************)
EXTENDS MCCaseRegistry, MCRuleState

VARIABLE part

partVars == <<part, vars, ruleVars>>

PartInit ==
  /\ Init /\ RuleInit
  /\ \/ part = "cases" /\ scope = CHOOSE s \in Scopes : TRUE
     \/ part = "rules"

PartNext ==
  /\ \/ part = "cases" /\ Next /\ UNCHANGED ruleVars
     \/ part = "rules" /\ RuleNext /\ UNCHANGED vars
  /\ UNCHANGED part

PartSpec == PartInit /\ [][PartNext]_partVars
=============================================================================
