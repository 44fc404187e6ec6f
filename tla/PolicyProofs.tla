---------------------------- MODULE PolicyProofs ----------------------------
(***************************************************************************)
(* Theorems about the gateway's policy evaluation, for every set of        *)
(* actions, environments and attribute values.                             *)
(***************************************************************************)
EXTENDS PolicyEval, PolicyLemmas

-----------------------------------------------------------------------------
(* What evaluatePolicy returned, and for which request.                     *)
OutcomeInv ==
  /\ opaURL \in BOOLEAN
  /\ fallback \in BOOLEAN
  /\ req \in Request
  /\ outcome # Pending => outcome \in PolicyOutcomes(opaURL, fallback, req)

(* The outcome held is one evaluatePolicy gives for the request held.       *)
THEOREM OutcomeCorrect == Spec => []OutcomeInv
<1>1. Init => OutcomeInv
  BY DEF Init, OutcomeInv
<1>2. OutcomeInv /\ [Next]_vars => OutcomeInv'
  <2> SUFFICES ASSUME OutcomeInv, [Next]_vars PROVE OutcomeInv'
    OBVIOUS
  <2>1. CASE Evaluate
    BY <2>1 DEF OutcomeInv, Evaluate
  <2>2. CASE Receive
    BY <2>2 DEF OutcomeInv, Receive
  <2>3. CASE UNCHANGED vars
    BY <2>3 DEF OutcomeInv, vars
  <2> QED
    BY <2>1, <2>2, <2>3 DEF Next
<1> QED
  BY <1>1, <1>2, PTL DEF Spec

(* The fallback implementation agrees with the bundle on every request the  *)
(* gateway evaluates.                                                       *)
THEOREM LocalAgreement == Spec => []LocalAgreesWithRego
<1>1. OutcomeInv => LocalAgreesWithRego
  BY LocalEqualsRego DEF OutcomeInv, LocalAgreesWithRego
<1> QED
  BY <1>1, OutcomeCorrect, PTL

(* The gateway never turns an outage or an unloaded bundle into an allow.   *)
THEOREM FailsClosed == Spec => []EvaluationFailsClosed
<1>1. OutcomeInv => EvaluationFailsClosed
  <2> SUFFICES ASSUME OutcomeInv, outcome.decision = "allow"
               PROVE  RegoAllow(req)
    BY DEF EvaluationFailsClosed
  <2>1. outcome # Pending
    BY DEF Pending
  <2> QED
    BY <2>1, OutcomesFailClosed DEF OutcomeInv
<1> QED
  BY <1>1, OutcomeCorrect, PTL

(* A permission always carries the rationale of a rule, a denial never.     *)
THEOREM RationaleCorrect == Spec => []RationaleExplainsDecision
<1>1. OutcomeInv => RationaleExplainsDecision
  <2> SUFFICES ASSUME OutcomeInv, outcome.kind = "decided"
               PROVE  outcome.decision = "allow" <=> outcome.code \in Rule
    BY DEF RationaleExplainsDecision
  <2>1. PICK code \in Rule \cup {"DEFAULT_DENY"} :
          /\ RegoRationales(req) = {code}
          /\ code \in Rule <=> RegoAllow(req)
    BY RationaleUnique
  <2>2. RegoDecisions(req) = {Decided(RegoAllow(req), code)}
    BY <2>1, RegoDecisionUnique
  <2>3. LocalDecision(req) = Decided(RegoAllow(req), code)
    BY <2>2, LocalEqualsRego DEF OutcomeInv
  <2>4. outcome \in PolicyOutcomes(opaURL, fallback, req)
    BY DEF OutcomeInv, Pending
  <2>5. outcome \in {Decided(RegoAllow(req), code), Decided(FALSE, "none")}
    <3>1. outcome \in {Decided(RegoAllow(req), code),
                       Decided(FALSE, "none"), Failed, Unavailable}
      BY <2>2, <2>3, <2>4 DEF PolicyOutcomes, OPAOutcomes
    <3>2. outcome # Failed /\ outcome # Unavailable
      BY DEF Failed, Unavailable
    <3> QED
      BY <3>1, <3>2
  <2> QED
    BY <2>1, <2>5 DEF Decided, DecisionOf, Rule
<1> QED
  BY <1>1, OutcomeCorrect, PTL

(* OPA is never asked for a decision on which the bundle conflicts.         *)
THEOREM PolicyTotal == Spec => []PolicyIsTotal
<1>1. ASSUME NEW code PROVE Cardinality({code}) = 1
  BY FS_Singleton
<1>2. PolicyIsTotal
  BY <1>1, RationaleUnique DEF PolicyIsTotal
<1> QED
  BY <1>2, PTL
=============================================================================
