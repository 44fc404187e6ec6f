------------------------------- MODULE Policy -------------------------------
(***************************************************************************)
(* The decision policy of the steering control plane, as pure operators.   *)
(*                                                                         *)
(* It exists twice in the repository: as the Rego bundle that OPA serves   *)
(* (policies/opa/rego/decision.rego), whose allow rules and rationale      *)
(* rules are written separately, and as the gateway's in-process fallback  *)
(* evaluatePolicyLocal.  evaluatePolicy chooses between the two from the   *)
(* environment of the gateway.                                             *)
(***************************************************************************)
EXTENDS FiniteSets

CONSTANTS
  Action,       \* values of request.action
  Environment,  \* values of request.environment
  AttrValue,    \* values of an attribute that is present in the request
  Absent        \* marks an attribute the request does not carry

ASSUME AbsentAssumption == Absent \notin AttrValue \cup {"true", ""}

(* The two attributes the policy reads; subject and resource are not read. *)
AttributeName == {"tests_passed", "human_approved"}

Request == [action : Action,
            environment : Environment,
            attributes : [AttributeName -> AttrValue \cup {Absent}]]

-----------------------------------------------------------------------------
(* The Rego bundle.  A reference to an absent attribute is undefined in     *)
(* Rego, so the body that makes it does not hold.                           *)

Rule == {"ALLOW_BUILD", "ALLOW_DEPLOY_DEV", "ALLOW_DEPLOY_PROD"}

(* Mutant: the allow rule of prod does not ask for the approval.            *)
AllowBodyUnapproved(rule, q) ==
  \/ rule = "ALLOW_BUILD" /\ q.action = "build"
  \/ rule = "ALLOW_DEPLOY_PROD" /\ q.action = "deploy" /\ q.environment = "prod"

AllowBody(rule, q) ==
  \/ /\ rule = "ALLOW_BUILD"
     /\ q.action = "build"
  \/ /\ rule = "ALLOW_DEPLOY_DEV"
     /\ q.action = "deploy" /\ q.environment = "dev"
     /\ q.attributes["tests_passed"] = "true"
  \/ /\ rule = "ALLOW_DEPLOY_PROD"
     /\ q.action = "deploy" /\ q.environment = "prod"
     /\ q.attributes["human_approved"] = "true"

(* Mutant: the dev rationale does not test the environment.                 *)
RationaleBodyAnyEnvironment(rule, q) ==
  \/ AllowBody(rule, q)
  \/ /\ rule = "ALLOW_DEPLOY_DEV"
     /\ q.action = "deploy"
     /\ q.attributes["tests_passed"] = "true"

RationaleBody(rule, q) ==
  \/ /\ rule = "ALLOW_BUILD"
     /\ q.action = "build"
  \/ /\ rule = "ALLOW_DEPLOY_DEV"
     /\ q.action = "deploy" /\ q.environment = "dev"
     /\ q.attributes["tests_passed"] = "true"
  \/ /\ rule = "ALLOW_DEPLOY_PROD"
     /\ q.action = "deploy" /\ q.environment = "prod"
     /\ q.attributes["human_approved"] = "true"

RegoAllow(q) == \E rule \in Rule : AllowBody(rule, q)

(* Every value the complete rule `rationale` is given: two of them are an   *)
(* eval_conflict_error, none of them is the default.                        *)
RegoRationales(q) ==
  LET fired == {rule \in Rule : RationaleBody(rule, q)}
  IN  IF fired = {} THEN {"DEFAULT_DENY"} ELSE fired

DecisionOf(allow) == IF allow THEN "allow" ELSE "deny"

Decided(allow, code) ==
  [kind |-> "decided", decision |-> DecisionOf(allow), code |-> code]

(* An evaluation that ends in an error: the engine was asked and failed, or *)
(* there was no engine to ask (errPolicyUnavailable).                       *)
Failed      == [kind |-> "failed", decision |-> "none", code |-> "none"]
Unavailable == [kind |-> "unavailable", decision |-> "none", code |-> "none"]

(* What the document `decision` evaluates to: {} when `rationale` conflicts. *)
RegoDecisions(q) ==
  {Decided(RegoAllow(q), code) :
     code \in {c \in RegoRationales(q) : RegoRationales(q) = {c}}}

-----------------------------------------------------------------------------
(* The gateway's own code.                                                  *)

(* request.Attributes[name]: a missing key of a Go map reads as "".         *)
Attribute(q, name) ==
  IF q.attributes[name] = Absent THEN "" ELSE q.attributes[name]

(* Mutant: the fallback takes a missing attribute for a passed test.        *)
LocalDecisionUntested(q) ==
  IF q.action = "build" THEN Decided(TRUE, "ALLOW_BUILD")
  ELSE IF q.action = "deploy" /\ q.environment = "dev"
  THEN Decided(TRUE, "ALLOW_DEPLOY_DEV")
  ELSE IF /\ q.action = "deploy" /\ q.environment = "prod"
          /\ Attribute(q, "human_approved") = "true"
  THEN Decided(TRUE, "ALLOW_DEPLOY_PROD")
  ELSE Decided(FALSE, "DEFAULT_DENY")

LocalDecision(q) ==
  IF q.action = "build"
  THEN Decided(TRUE, "ALLOW_BUILD")
  ELSE IF /\ q.action = "deploy" /\ q.environment = "dev"
          /\ Attribute(q, "tests_passed") = "true"
  THEN Decided(TRUE, "ALLOW_DEPLOY_DEV")
  ELSE IF /\ q.action = "deploy" /\ q.environment = "prod"
          /\ Attribute(q, "human_approved") = "true"
  THEN Decided(TRUE, "ALLOW_DEPLOY_PROD")
  ELSE Decided(FALSE, "DEFAULT_DENY")

(* Mutant: an answer without a result is taken for a permission.            *)
OPAOutcomesFailOpen(q) == RegoDecisions(q) \cup {Decided(TRUE, "none"), Failed}

(* evaluatePolicyOPA: OPA answers with the decision of the loaded bundle;   *)
(* with {} when no bundle defines it, which decodes to allow = false and no *)
(* rationale; or the call times out, is refused, is not a 200 (a conflict   *)
(* is a 500) or does not decode, which are all errors.                      *)
OPAOutcomes(q) == RegoDecisions(q) \cup {Decided(FALSE, "none"), Failed}

(* evaluatePolicy: OPA_URL wins over the fallback, whatever OPA answers.    *)
PolicyOutcomes(opaURL, fallback, q) ==
  IF opaURL THEN OPAOutcomes(q)
  ELSE IF fallback THEN {LocalDecision(q)}
  ELSE {Unavailable}
=============================================================================
