------------------------------ MODULE Evidence ------------------------------
(***************************************************************************)
(* How the worker turns a decision trace into an evidence event, shared by *)
(* its Kafka consumer and its HTTP handler.                                *)
(*                                                                         *)
(* A record of the trace topic is abstracted to what the worker tells      *)
(* apart: whether it unmarshals into a DecisionTrace, whether every        *)
(* required field is there, its correlation id, action and decision.       *)
(* Records of the Evidence model carry the decision in lower case, the     *)
(* form strings.ToLower gives it before it is looked at.                   *)
(***************************************************************************)

(* Mutant: only the decision is looked at.                                  *)
ValidateTraceDecision(t) == t.decision \in {"allow", "deny"}

(* validateTrace accepts the trace.                                         *)
ValidateTrace(t) == t.complete /\ t.decision \in {"allow", "deny"}

(* The record becomes evidence: it unmarshals and traceToEvidence returns   *)
(* no error.                                                                *)
Executable(t) == t.parses /\ ValidateTrace(t)

(* Mutant: the decision is not looked at.                                   *)
TraceToEvidenceAlwaysOk(t) ==
  [corr |-> t.corr, action |-> t.action, decision |-> t.decision,
   result |-> "ok", evidenceType |-> "action.executed"]

(* Mutant: two fields of the event are swapped.                             *)
TraceToEvidenceSwapped(t) ==
  [corr |-> t.action, action |-> t.corr, decision |-> t.decision,
   result       |-> IF t.decision = "allow" THEN "ok" ELSE "skipped",
   evidenceType |-> "action.executed"]

(* traceToEvidence of an executable trace.                                  *)
TraceToEvidence(t) ==
  [corr         |-> t.corr,
   action       |-> t.action,
   decision     |-> t.decision,
   result       |-> IF t.decision = "allow" THEN "ok" ELSE "skipped",
   evidenceType |-> IF t.decision = "allow" THEN "action.executed"
                                            ELSE "action.skipped"]
=============================================================================
