------------------------------ MODULE MCPolicy ------------------------------
(* Instance of PolicyEval for TLC: every combination of the conditions the  *)
(* rules test, a value that fails each of them by case or by spelling, and  *)
(* an action and an environment no rule mentions.                           *)
EXTENDS PolicyEval

MCAction == {"build", "deploy", "Deploy", "refactor", "delete"}
MCEnvironment == {"dev", "prod", "staging"}
MCAttrValue == {"true", "false", ""}
=============================================================================
