------------------------------ MODULE MCGateway -----------------------------
(* Instance of Gateway for TLC: a request the policy allows and one it      *)
(* denies, a correlation id that calls may share (a client that retries),   *)
(* and every way the gateway can be configured.                             *)
EXTENDS Gateway

MCAction == {"build", "deploy"}
MCEnvironment == {"dev"}
MCAttrValue == {"true"}

MCAsked ==
  {q \in Request : q.environment = "dev"
                   /\ \A name \in AttributeName : q.attributes[name] = Absent}
=============================================================================
