----------------------------- MODULE PolicyEval -----------------------------
(***************************************************************************)
(* The gateway's policy evaluation as a service: a gateway process is      *)
(* started with a configuration (OPA_URL, ALLOW_LOCAL_POLICY_FALLBACK) and *)
(* then evaluates one request after another, under an OPA that may be      *)
(* down, slow or not loaded at any of them.                                *)
(***************************************************************************)
EXTENDS Policy

VARIABLES
  opaURL,    \* OPA_URL is set
  fallback,  \* ALLOW_LOCAL_POLICY_FALLBACK is true
  req,       \* the request under evaluation
  outcome    \* what evaluatePolicy returned for it, or Pending

vars == <<opaURL, fallback, req, outcome>>

Pending == [kind |-> "pending", decision |-> "none", code |-> "none"]

Init ==
  /\ opaURL \in BOOLEAN
  /\ fallback \in BOOLEAN
  /\ req \in Request
  /\ outcome = Pending

(* evaluatePolicy returns for the request under evaluation.                 *)
Evaluate ==
  /\ outcome = Pending
  /\ outcome' \in PolicyOutcomes(opaURL, fallback, req)
  /\ UNCHANGED <<opaURL, fallback, req>>

(* The gateway receives another request.                                    *)
Receive ==
  /\ outcome # Pending
  /\ req' \in Request
  /\ outcome' = Pending
  /\ UNCHANGED <<opaURL, fallback>>

Next == Evaluate \/ Receive

Spec == Init /\ [][Next]_vars

-----------------------------------------------------------------------------
(* decision.rego gives `rationale` one value for every request: the three   *)
(* rationale rules never fire together, so OPA never answers the gateway    *)
(* with a conflict error.                                                   *)
PolicyIsTotal == Cardinality(RegoRationales(req)) = 1

(* decision.rego writes the condition of each rule twice, once under allow  *)
(* and once under rationale: whatever allows a request also explains it,    *)
(* and a denial never carries the explanation of a permission.              *)
RationaleExplainsDecision ==
  outcome.kind = "decided" =>
    ((outcome.decision = "allow") <=> (outcome.code \in Rule))

(* evaluatePolicyLocal is a second implementation of decision.rego: on      *)
(* every request it gives the same decision with the same rationale.        *)
LocalAgreesWithRego == RegoDecisions(req) = {LocalDecision(req)}

(* Whatever the configuration and whatever OPA does (down, slow, no bundle  *)
(* loaded), the gateway returns allow only for a request the policy allows. *)
EvaluationFailsClosed == outcome.decision = "allow" => RegoAllow(req)

-----------------------------------------------------------------------------
(* What a test of the repository says of the policy.                        *)

(* decision_test.rego, test_allow_dev_developer_deploy: a deploy to dev     *)
(* with no request attributes is allowed.                                   *)
DevDeployWithoutAttributesAllowed ==
  /\ req.action = "deploy"
  /\ req.environment = "dev"
  /\ \A name \in AttributeName : req.attributes[name] = Absent
  => RegoAllow(req)
=============================================================================
