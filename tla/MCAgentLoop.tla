---------------------------- MODULE MCAgentLoop -----------------------------
(* Instance of AgentLoop for TLC: one agent, whose server dies once, and    *)
(* one worker, which crashes or is evicted once (its own zombie batch       *)
(* included).  The order is for a deploy to the default environment with a  *)
(* named or an empty resource, which the policy allows; one it denies       *)
(* because the attributes do not parse; or one without an action.           *)
EXTENDS AgentLoop

MCAction == {"build", "deploy"}
MCEnvironment == {"dev", "prod"}
MCAttrValue == {"true"}
MCResource == {"cluster", ""}
MCResult == {"ok", "error"}

Tested(a, r, parses) ==
  [action |-> a, resource |-> r, environment |-> "", parses |-> parses,
   attributes |-> [name \in AttributeName |-> "true"]]

MCOffered ==
  {Tested("deploy", "cluster", TRUE), Tested("deploy", "", TRUE),
   Tested("deploy", "cluster", FALSE), Tested(Absent, "cluster", TRUE)}

(* A broker behind OPA, whose outcomes include those of the fallback; the   *)
(* fallback without a broker; and no engine at all.                         *)
MCConfig ==
  {[opaURL |-> TRUE, fallback |-> FALSE, streaming |-> TRUE],
   [opaURL |-> FALSE, fallback |-> TRUE, streaming |-> FALSE],
   [opaURL |-> FALSE, fallback |-> FALSE, streaming |-> TRUE]}

MCInit == LoopInit /\ config \in MCConfig

MCSpec == MCInit /\ [][LoopNext]_loopVars /\ Fairness /\ W!Fairness
=============================================================================
