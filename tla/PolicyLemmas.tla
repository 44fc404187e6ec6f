---------------------------- MODULE PolicyLemmas ----------------------------
(***************************************************************************)
(* Facts about the policy operators, for every set of actions,             *)
(* environments and attribute values: the bundle gives each request one    *)
(* decision, the in-process fallback gives the same, and no outcome of an  *)
(* evaluation allows what the policy denies.                               *)
(***************************************************************************)
EXTENDS Policy, FiniteSetTheorems, TLAPS

-----------------------------------------------------------------------------
(* No two of the rationale rules hold for one request: they differ in the   *)
(* action or in the environment they ask for.                               *)
LEMMA RulesExclusive ==
  ASSUME NEW q, NEW r1 \in Rule, NEW r2 \in Rule,
         RationaleBody(r1, q), RationaleBody(r2, q)
  PROVE  r1 = r2
BY DEF Rule, RationaleBody

(* The condition of a rule is the same under allow and under rationale.     *)
LEMMA BodiesAgree ==
  ASSUME NEW q, NEW rule \in Rule
  PROVE  AllowBody(rule, q) <=> RationaleBody(rule, q)
BY DEF AllowBody, RationaleBody

(* The set of rationales is a singleton, and the code in it names a rule    *)
(* exactly when the request is allowed.                                     *)
LEMMA RationaleUnique ==
  ASSUME NEW q
  PROVE  \E code \in Rule \cup {"DEFAULT_DENY"} :
           /\ RegoRationales(q) = {code}
           /\ code \in Rule <=> RegoAllow(q)
           /\ code \in Rule => RationaleBody(code, q)
<1>1. CASE \E rule \in Rule : RationaleBody(rule, q)
  <2>1. PICK rule \in Rule : RationaleBody(rule, q)
    BY <1>1
  <2>2. {r \in Rule : RationaleBody(r, q)} = {rule}
    BY <2>1, RulesExclusive
  <2>3. RegoRationales(q) = {rule}
    BY <2>2 DEF RegoRationales
  <2>4. RegoAllow(q)
    BY <2>1, BodiesAgree DEF RegoAllow
  <2> QED
    BY <2>1, <2>3, <2>4
<1>2. CASE ~ \E rule \in Rule : RationaleBody(rule, q)
  <2>1. RegoRationales(q) = {"DEFAULT_DENY"}
    BY <1>2 DEF RegoRationales
  <2>2. ~RegoAllow(q)
    BY <1>2, BodiesAgree DEF RegoAllow
  <2>3. "DEFAULT_DENY" \notin Rule
    BY DEF Rule
  <2> QED
    BY <2>1, <2>2, <2>3
<1> QED
  BY <1>1, <1>2

(* The bundle gives every request exactly one decision.                     *)
LEMMA RegoDecisionUnique ==
  ASSUME NEW q, NEW code, RegoRationales(q) = {code}
  PROVE  RegoDecisions(q) = {Decided(RegoAllow(q), code)}
BY DEF RegoDecisions

(* For any one attribute, the Go map lookup equals "true" exactly when the  *)
(* attribute is present with that value.                                    *)
LEMMA AttributeIsTrue ==
  ASSUME NEW q \in Request, NEW name \in AttributeName
  PROVE  Attribute(q, name) = "true" <=> q.attributes[name] = "true"
BY AbsentAssumption DEF Attribute

(* decision.rego and evaluatePolicyLocal decide every request alike, with   *)
(* the same rationale.                                                      *)
THEOREM LocalEqualsRego ==
  ASSUME NEW q \in Request
  PROVE  RegoDecisions(q) = {LocalDecision(q)}
<1>1. PICK code \in Rule \cup {"DEFAULT_DENY"} :
        /\ RegoRationales(q) = {code}
        /\ code \in Rule <=> RegoAllow(q)
        /\ code \in Rule => RationaleBody(code, q)
  BY RationaleUnique
<1>2. RegoDecisions(q) = {Decided(RegoAllow(q), code)}
  BY <1>1, RegoDecisionUnique
<1>3. \A name \in AttributeName :
        Attribute(q, name) = "true" <=> q.attributes[name] = "true"
  BY AttributeIsTrue
<1>4. \A rule \in Rule : RationaleBody(rule, q) => code = rule
  BY <1>1, RulesExclusive, BodiesAgree DEF RegoAllow
<1>5. {"tests_passed", "human_approved"} \subseteq AttributeName
  BY DEF AttributeName
<1>6. LocalDecision(q) = Decided(RegoAllow(q), code)
  <2>1. CASE code = "ALLOW_BUILD"
    BY <1>1, <2>1 DEF LocalDecision, RationaleBody, Rule, Decided, DecisionOf
  <2>2. CASE code = "ALLOW_DEPLOY_DEV"
    BY <1>1, <1>3, <1>5, <2>2
       DEF LocalDecision, RationaleBody, Rule, Decided, DecisionOf
  <2>3. CASE code = "ALLOW_DEPLOY_PROD"
    BY <1>1, <1>3, <1>5, <2>3
       DEF LocalDecision, RationaleBody, Rule, Decided, DecisionOf
  <2>4. CASE code = "DEFAULT_DENY"
    BY <1>1, <1>3, <1>4, <1>5, <2>4
       DEF LocalDecision, RationaleBody, Rule, Decided, DecisionOf
  <2> QED
    BY <2>1, <2>2, <2>3, <2>4 DEF Rule
<1> QED
  BY <1>2, <1>6

(* Every outcome of evaluatePolicy that says allow is for a request the     *)
(* policy allows, in every configuration.                                   *)
LEMMA OutcomesFailClosed ==
  ASSUME NEW q \in Request, NEW u \in BOOLEAN, NEW f \in BOOLEAN,
         NEW o \in PolicyOutcomes(u, f, q), o.decision = "allow"
  PROVE  RegoAllow(q)
<1>1. PICK code : RegoRationales(q) = {code}
  BY RationaleUnique
<1>2. RegoDecisions(q) = {Decided(RegoAllow(q), code)}
  BY <1>1, RegoDecisionUnique
<1>3. LocalDecision(q) = Decided(RegoAllow(q), code)
  BY <1>2, LocalEqualsRego
<1>4. o \in {Decided(RegoAllow(q), code), Decided(FALSE, "none"),
             Failed, Unavailable}
  BY <1>2, <1>3 DEF PolicyOutcomes, OPAOutcomes
<1> QED
  BY <1>4 DEF Decided, DecisionOf, Failed, Unavailable

(* A decision is allow or deny, with a code of the policy.                  *)
LEMMA OutcomeType ==
  ASSUME NEW q \in Request, NEW u \in BOOLEAN, NEW f \in BOOLEAN,
         NEW o \in PolicyOutcomes(u, f, q), o.kind = "decided"
  PROVE  /\ o \in [kind : {"decided"}, decision : {"allow", "deny"},
                   code : Rule \cup {"none", "DEFAULT_DENY"}]
         /\ o.decision = "allow" => o.code \in RegoRationales(q)
<1>1. PICK code \in Rule \cup {"DEFAULT_DENY"} : RegoRationales(q) = {code}
  BY RationaleUnique
<1>2. RegoDecisions(q) = {Decided(RegoAllow(q), code)}
  BY <1>1, RegoDecisionUnique
<1>3. LocalDecision(q) = Decided(RegoAllow(q), code)
  BY <1>2, LocalEqualsRego
<1>4. o \in {Decided(RegoAllow(q), code), Decided(FALSE, "none"),
             Failed, Unavailable}
  BY <1>2, <1>3 DEF PolicyOutcomes, OPAOutcomes
<1>5. o \in {Decided(RegoAllow(q), code), Decided(FALSE, "none")}
  <2>1. o # Failed /\ o # Unavailable
    BY DEF Failed, Unavailable
  <2> QED
    BY <1>4, <2>1
<1>6. RegoAllow(q) \in BOOLEAN
  BY DEF RegoAllow
<1> QED
  BY <1>1, <1>5, <1>6 DEF Decided, DecisionOf, Rule
=============================================================================
