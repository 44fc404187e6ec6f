------------------------------ MODULE Contract ------------------------------
(***************************************************************************)
(* The documents of the decision loop, field by field: what a client may   *)
(* send to /decide, the decision trace the gateway makes of it or of a     *)
(* work order, what a worker makes of a trace (from the topic or posted to *)
(* /execute), and what the schemas say of both events.                     *)
(*                                                                         *)
(* The schemas, the structs of the gateway and the structs of the worker   *)
(* are three descriptions of one event, kept apart by hand.                *)
(*                                                                         *)
(* Ids are known by where they come from: "request" for one of the caller, *)
(* "span" for one of a span the HTTP server started, "random" for a fresh  *)
(* one.  Any other text is "x", empty, or a decision.                      *)
(***************************************************************************)
EXTENDS GoJSON

CONSTANTS
  Bodies,   \* JSON documents posted to /decide
  Records   \* JSON documents other programs write or post to /execute

VARIABLES
  via,      \* where the trace comes from: "decide", "order" or "foreign"
  span,     \* the request has a valid span context
  body,     \* what was posted to /decide
  pc,       \* "posted", "refused", "published", "skipped", "executed", "reported"
  trace,    \* the decision trace as JSON
  evidence  \* the evidence event as JSON

vars == <<via, span, body, pc, trace, evidence>>

-----------------------------------------------------------------------------
(* What lies at a path of a document, of at most two keys.                  *)
Missing == [missing |-> TRUE]

Get(v, key) ==
  IF IsKind(v, "object") /\ key \in DOMAIN v.object THEN v.object[key] ELSE Missing

At(v, path) ==
  CASE Len(path) = 0 -> v
    [] Len(path) = 1 -> Get(v, path[1])
    [] Len(path) = 2 -> Get(Get(v, path[1]), path[2])

(* v is JSON, as deep as such paths lead.                                   *)
JSONType(v, Part(_)) ==
  \/ v \in {Null, Number}
  \/ IsKind(v, "string") /\ v = Str(v.string)
  \/ IsKind(v, "object") /\ \A key \in DOMAIN v.object : Part(v.object[key])
  \/ IsKind(v, "array") /\ \A i \in DOMAIN v.array : Part(v.array[i])

IsJSON1(v) == JSONType(v, LAMBDA part : TRUE)
IsJSON2(v) == JSONType(v, IsJSON1)
IsJSON(v) == JSONType(v, IsJSON2)

(* Whatever else is sent is no document at all, which Missing stands for.   *)
ASSUME DocumentsAssumption ==
  \A v \in (Bodies \cup Records) \ {Missing} : IsJSON(v)

(* The ids of a caller are known as such.                                   *)
ASSUME IDsAssumption ==
  \A v \in Bodies : \A p \in {<<"trace_id">>, <<"span_id">>} :
    IsKind(At(v, p), "string") => At(v, p) \in {Str(""), Str("request")}

-----------------------------------------------------------------------------
(* The structs of the gateway, and where they differ those of the worker.   *)

Subject == GoStruct([type |-> Kept(GoString), id |-> Kept(GoString),
                     attributes |-> OmitEmpty(GoMap)])

(* Mutant: the attributes lost their omitempty.                             *)
RequestKeepsAttributes ==
  GoStruct([action |-> Kept(GoString), resource |-> Kept(GoString),
            environment |-> Kept(GoString), attributes |-> Kept(GoMap)])

Request == GoStruct([action |-> Kept(GoString), resource |-> Kept(GoString),
                     environment |-> Kept(GoString),
                     attributes |-> OmitEmpty(GoMap)])

RationaleItem == GoStruct([code |-> Kept(GoString), message |-> Kept(GoString)])

(* What @@ of TLC is, of which a proof sees the name only.                  *)
Joined(f, g) ==
  [name \in DOMAIN f \cup DOMAIN g |-> IF name \in DOMAIN f THEN f[name] ELSE g[name]]

PolicyFields(rationale) ==
  Joined(rationale,
    [engine |-> Kept(GoString), bundle_version |-> OmitEmpty(GoPointer),
     bundle_hash |-> Kept(GoString), decision |-> Kept(GoString)])

PolicyDecision ==
  GoStruct(PolicyFields([rationale |-> OmitEmpty(GoList(RationaleItem))]))

TraceFields(policy, more) ==
  Joined(more,
    [schema_version |-> Kept(GoString), event_id |-> Kept(GoString),
     event_time |-> Kept(GoString), correlation_id |-> Kept(GoString),
     trace_id |-> Kept(GoString), span_id |-> OmitEmpty(GoPointer),
     subject |-> Kept(Subject), request |-> Kept(Request),
     policy |-> Kept(policy)])

DecisionTrace ==
  GoStruct(TraceFields(PolicyDecision,
    [data_classification |-> Kept(GoString),
     pii_flags           |-> OmitEmpty(GoList(GoString)),
     evidence_refs       |-> OmitEmpty(GoList(GoString))]))

WorkerTrace == GoStruct(TraceFields(GoStruct(PolicyFields(<< >>)), << >>))

DecisionRequest ==
  GoStruct([correlation_id |-> OmitEmpty(GoString), trace_id |-> OmitEmpty(GoString),
            span_id |-> OmitEmpty(GoString), subject |-> Kept(Subject),
            request |-> Kept(Request), data_classification |-> OmitEmpty(GoString),
            pii_flags |-> OmitEmpty(GoList(GoString))])

WorkloadIdentity ==
  GoStruct([service_name |-> Kept(GoString), version |-> OmitEmpty(GoPointer),
            image_digest |-> OmitEmpty(GoPointer)])

EvidenceFields(details) ==
  [schema_version |-> Kept(GoString), event_id |-> Kept(GoString),
   event_time |-> Kept(GoString), correlation_id |-> Kept(GoString),
   trace_id |-> Kept(GoString), span_id |-> OmitEmpty(GoPointer),
   evidence_type |-> Kept(GoString), action |-> Kept(GoString),
   result |-> Kept(GoString), details |-> details,
   workload |-> Kept(WorkloadIdentity)]

(* The gateway writes details that are empty, the worker leaves them out.   *)
EvidenceEvent == GoStruct(EvidenceFields(Kept(GoMap)))
WorkerEvidenceEvent == GoStruct(EvidenceFields(OmitEmpty(GoMap)))

-----------------------------------------------------------------------------
(* The gateway.                                                             *)

ValidRequest(req) ==
  "" \notin {req.subject.type, req.subject.id, req.request.action,
             req.request.resource, req.request.environment}

(* Mutant: the span id of the request is kept without its trace id.         *)
TraceIDsKeepSpan(valid, reqTraceID, reqSpanID) ==
  IF valid THEN <<"span", "span">>
  ELSE <<IF reqTraceID # "" THEN reqTraceID ELSE "random",
         IF reqSpanID # "" THEN reqSpanID ELSE "random">>

(* traceIDsForDecisionTrace.                                                *)
TraceIDs(valid, reqTraceID, reqSpanID) ==
  IF valid THEN <<"span", "span">>
  ELSE IF reqTraceID # ""
       THEN <<reqTraceID, IF reqSpanID = "" THEN "random" ELSE reqSpanID>>
       ELSE <<"random", "random">>

(* What evaluatePolicy returns: OPA may give no rationale, and the bundle   *)
(* version is left out unless it is configured.                             *)
PolicyDecisions ==
  [engine : {"x"}, bundle_version : {Nil, Ptr("x")}, bundle_hash : {"x"},
   decision : {"allow", "deny"},
   rationale : {Nil, List(<<[code |-> "x", message |-> "x"]>>)}]

TraceOf(req, policy, corr, ids) ==
  [schema_version |-> "x", event_id |-> "random", event_time |-> "x",
   correlation_id |-> corr, trace_id |-> ids[1], span_id |-> Ptr(ids[2]),
   subject |-> req.subject, request |-> req.request, policy |-> policy,
   data_classification |-> IF req.data_classification = "" THEN "x"
                           ELSE req.data_classification,
   pii_flags |-> req.pii_flags, evidence_refs |-> List(<< >>)]

(* Mutant: the body is not checked after it was decoded.                    *)
AcceptedUnchecked == Decodes(DecisionRequest, body, TRUE)

(* The body decodes and validateRequest lets it pass.                       *)
Accepted ==
  /\ Decodes(DecisionRequest, body, TRUE)
  /\ ValidRequest(Decoded(DecisionRequest, body))

(* handleDecide: a request it accepts is refused, too, without an answer of *)
(* the policy or of the broker (Gateway).                                   *)
Decide ==
  /\ via = "decide" /\ pc = "posted"
  /\ \/ /\ Accepted
        /\ \E policy \in PolicyDecisions :
             LET req == Decoded(DecisionRequest, body)
             IN  trace' = Encoded(DecisionTrace,
                            TraceOf(req, policy,
                                    IF req.correlation_id = "" THEN "random"
                                    ELSE req.correlation_id,
                                    TraceIDs(span, req.trace_id, req.span_id)))
        /\ pc' = "published"
     \/ /\ pc' = "refused"
        /\ UNCHANGED trace
  /\ UNCHANGED <<via, span, body, evidence>>

(* The request handleRequestWorkOrder builds; the environment has a         *)
(* default, and attributes are there only if any are given.                 *)
OrderRequest(action, resource, attributes) ==
  [subject |-> [type |-> "x", id |-> "x", attributes |-> Map([role |-> "x"])],
   request |-> [action |-> action, resource |-> resource, environment |-> "x",
                attributes |-> attributes],
   data_classification |-> "x", pii_flags |-> List(<< >>)]

Order ==
  /\ via = "order" /\ pc = "posted"
  /\ \E action, resource \in {"", "x"}, attributes \in {Nil, Map([context |-> "x"])},
        policy \in PolicyDecisions :
       trace' = Encoded(DecisionTrace,
                        TraceOf(OrderRequest(action, resource, attributes), policy,
                                "random", <<"random", "random">>))
  /\ pc' = "published"
  /\ UNCHANGED <<via, span, body, evidence>>

-----------------------------------------------------------------------------
(* The worker.                                                              *)

ToLower(decision) == IF decision = "ALLOW" THEN "allow" ELSE decision

MustBePresent(t) ==
  {t.schema_version, t.event_id, t.event_time, t.correlation_id, t.trace_id,
   t.subject.type, t.subject.id,
   t.request.action, t.request.resource, t.request.environment,
   t.policy.engine, t.policy.bundle_hash, t.policy.decision}

ValidateTrace(t) ==
  /\ "" \notin MustBePresent(t)
  /\ ToLower(t.policy.decision) \in {"allow", "deny"}

WorkloadIdentities ==
  [service_name : {"x"}, version : {Ptr("x")}, image_digest : {Nil, Ptr("x")}]

TraceToEvidence(t, workload) ==
  LET decision == ToLower(t.policy.decision)
  IN  [schema_version |-> "x", event_id |-> "random", event_time |-> "x",
       correlation_id |-> t.correlation_id,
       trace_id       |-> t.trace_id,
       span_id        |-> t.span_id,
       evidence_type  |-> IF decision = "allow" THEN "action.executed"
                                                ELSE "action.skipped",
       action         |-> t.request.action,
       result         |-> IF decision = "allow" THEN "ok" ELSE "skipped",
       details        |-> Map([policy_decision |-> decision,
                               resource        |-> t.request.resource,
                               environment     |-> t.request.environment]),
       workload       |-> workload]

Executable ==
  /\ Decodes(WorkerTrace, trace, FALSE)
  /\ ValidateTrace(Decoded(WorkerTrace, trace))

(* The record callback of runKafkaConsumer, and handleExecute: a document   *)
(* that is no trace is skipped or refused.                                  *)
Execute ==
  /\ pc = "published"
  /\ \/ /\ Executable
        /\ \E workload \in WorkloadIdentities :
             evidence' = Encoded(WorkerEvidenceEvent,
                           TraceToEvidence(Decoded(WorkerTrace, trace), workload))
        /\ pc' = "executed"
     \/ /\ ~Executable
        /\ pc' = "skipped"
        /\ UNCHANGED evidence
  /\ UNCHANGED <<via, span, body, trace>>

(* handleSubmitEvidence, for an order: a trace id of its own, no span id,   *)
(* and whatever the agent gives.                                            *)
Report ==
  /\ via = "order" /\ pc = "published"
  /\ \E corr \in {"", Decoded(WorkerTrace, trace).correlation_id},
        action, result \in {"", "x"},
        details \in {Map(<< >>), Map([summary |-> "x"])} :
       evidence' = Encoded(EvidenceEvent,
         [schema_version |-> "x", event_id |-> "random", event_time |-> "x",
          correlation_id |-> corr,
          trace_id |-> "random", span_id |-> Nil,
          evidence_type |-> "action.executed", action |-> action,
          result |-> result, details |-> details,
          workload |-> [service_name |-> "x", version |-> Nil, image_digest |-> Nil]])
  /\ pc' = "reported"
  /\ UNCHANGED <<via, span, body, trace>>

Init ==
  /\ evidence = Null
  /\ \/ /\ via = "decide" /\ pc = "posted"
        /\ span \in BOOLEAN /\ body \in Bodies /\ trace = Null
     \/ /\ via = "order" /\ pc = "posted"
        /\ span = FALSE /\ body = Null /\ trace = Null
     \/ /\ via = "foreign" /\ pc = "published"
        /\ span = FALSE /\ body = Null /\ trace \in Records

Next == Decide \/ Order \/ Execute \/ Report

Spec == Init /\ [][Next]_vars

-----------------------------------------------------------------------------
(* The trace schema again, as a table of paths: where a string must be,     *)
(* where one may be, and where objects, maps and lists are.                 *)
Mandatory ==
  {<<"schema_version">>, <<"event_id">>, <<"event_time">>, <<"correlation_id">>,
   <<"trace_id">>, <<"subject", "type">>, <<"subject", "id">>,
   <<"request", "action">>, <<"request", "resource">>, <<"request", "environment">>,
   <<"policy", "engine">>, <<"policy", "bundle_hash">>, <<"policy", "decision">>,
   <<"data_classification">>}
Optional == {<<"span_id">>, <<"policy", "bundle_version">>}
Sections == {<<"subject">>, <<"request">>, <<"policy">>}
Maps == {<<"subject", "attributes">>, <<"request", "attributes">>}
Lists == {<<"pii_flags">>, <<"evidence_refs">>}
Rationale == <<"policy", "rationale">>

Paths == Mandatory \cup Optional \cup Sections \cup Maps \cup Lists \cup {Rationale}

(* Everything in v is at a path of the table.                               *)
NothingElse(v) ==
  /\ \A key \in DOMAIN v.object : <<key>> \in Paths
  /\ \A p \in Sections :
       \A key \in DOMAIN At(v, p).object : <<p[1], key>> \in Paths

StringsIn(entries) == \A key \in DOMAIN entries : IsKind(entries[key], "string")

IsRationale(v) ==
  IsKind(v, "object") /\ DOMAIN v.object = {"code", "message"} /\ StringsIn(v.object)

IsDecisionTrace(v) ==
  /\ \A p \in Sections \cup {<< >>} : IsKind(At(v, p), "object")
  /\ NothingElse(v)
  /\ \A p \in Mandatory : IsKind(At(v, p), "string")
  /\ \A p \in Optional : DOMAIN At(v, p) \subseteq {"missing", "null", "string"}
  /\ \A p \in Maps :
       \/ At(v, p) = Missing
       \/ IsKind(At(v, p), "object") /\ StringsIn(At(v, p).object)
  /\ \A p \in Lists :
       \/ At(v, p) = Missing
       \/ IsKind(At(v, p), "array") /\ StringsIn(At(v, p).array)
  /\ \/ At(v, Rationale) = Missing
     \/ /\ IsKind(At(v, Rationale), "array")
        /\ \A i \in DOMAIN At(v, Rationale).array :
             IsRationale(At(v, Rationale).array[i])

(* Schema-validated events (docs/decision-trace-schema.md): whatever a      *)
(* caller leaves out, spells as null or adds, and whatever the policy       *)
(* answers, the gateway emits no trace, and gateway and worker emit no      *)
(* evidence, that the schemas refuse; nor does a worker that was given a    *)
(* record the schema refuses.                                               *)
EmittedEventsValidate ==
  /\ via # "foreign" /\ trace # Null => Validate(DecisionTraceSchema, trace)
  /\ evidence # Null => Validate(EvidenceSchema, evidence)

(* The validator, which walks the schema, accepts a trace record if and     *)
(* only if the record conforms to the schema read as a table.               *)
CheckIsConformance ==
  trace # Null => (Validate(DecisionTraceSchema, trace) <=> IsDecisionTrace(trace))

Decisions == {Str("allow"), Str("ALLOW"), Str("deny")}

(* A worker never skips a trace of /decide.  Of a work order it skips one   *)
(* with an empty action or resource, and of the records the schema accepts  *)
(* those with an empty mandatory string or an unknown decision, no others:  *)
(* schema and struct never disagree about the rest.                         *)
SkippedOnlyForGaps ==
  pc = "skipped" =>
    /\ via # "decide"
    /\ via = "order" =>
         Str("") \in {At(trace, <<"request", "action">>),
                      At(trace, <<"request", "resource">>)}
    /\ Validate(DecisionTraceSchema, trace) =>
         \/ \E p \in Mandatory : At(trace, p) = Str("")
         \/ At(trace, <<"policy", "decision">>) \notin Decisions

IDs == {<<"correlation_id">>, <<"trace_id">>}

(* The ids lead from the caller to the evidence: a trace has a correlation  *)
(* id and a trace id, the caller's own correlation id if it gave one, and   *)
(* never a span id of a trace other than its trace id's; evidence of a      *)
(* worker has the ids of its trace.                                         *)
ChainKeepsIds ==
  /\ via # "foreign" /\ trace # Null =>
       /\ \A p \in IDs : At(trace, p) # Str("")
       /\ At(body, <<"correlation_id">>) \in
            {Missing, Null, Str(""), At(trace, <<"correlation_id">>)}
       /\ At(trace, <<"span_id">>) # Str("random")
            => At(trace, <<"trace_id">>) = At(trace, <<"span_id">>)
  /\ pc = "executed" =>
       /\ \A p \in IDs : At(evidence, p) = At(trace, p)
       /\ \/ At(evidence, <<"span_id">>) = At(trace, <<"span_id">>)
          \/ /\ At(evidence, <<"span_id">>) = Missing
             /\ At(trace, <<"span_id">>) = Null
=============================================================================
