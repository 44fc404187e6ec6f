----------------------------- MODULE WorkOrder ------------------------------
(***************************************************************************)
(* The MCP side of the gateway: request_work_order and submit_evidence,    *)
(* called over stdio by agents that follow the rules of docs/mcp.md.       *)
(*                                                                         *)
(* An agent asks for a work order, stops when it is denied, and otherwise  *)
(* works and reports the result under the correlation id it was given.     *)
(* The server keeps nothing between the two calls.  When it dies the       *)
(* client starts it again and the agent repeats the call it was in: a      *)
(* repeated order is a new one, with an id of its own.                     *)
(*                                                                         *)
(* Unlike handleDecide, both handlers ignore the error of publishing.      *)
(***************************************************************************)
EXTENDS Policy, Naturals, Sequences

CONSTANTS
  Task,        \* what agents ask work orders for, one agent each
  Resource,    \* values of the resource argument
  Result,      \* values of the result argument
  Offered,     \* the arguments agents pass
  MaxCrashes   \* bound: crashes of the server

(* The string arguments of a call; Absent is one that is missing or is not  *)
(* a string, and attributes are those of the JSON text if it parses.        *)
Arguments ==
  [action : Action \cup {Absent}, resource : Resource \cup {Absent},
   environment : Environment \cup {Absent, ""}, parses : BOOLEAN,
   attributes : [AttributeName -> AttrValue \cup {Absent}]]

ASSUME OfferedAssumption == Offered \subseteq Arguments
ASSUME DevAssumption == "dev" \in Environment
ASSUME PresentAssumption ==
  Absent \notin Action \cup Resource \cup Result \cup Environment

VARIABLES
  config,         \* how the server was started: OPA_URL, fallback, broker
  phase,          \* where each task is
  args,           \* the arguments of each task's order
  round,          \* how often each task's order was asked for
  outcome,        \* what evaluatePolicy returned in the current round
  told,           \* the decision each agent was told
  result,         \* the result each agent reports
  sent,           \* messages on their way to the broker
  traceTopic,     \* decision.trace.v1
  evidenceTopic,  \* decision.evidence.v1
  crashes         \* crashes so far

topics == <<traceTopic, evidenceTopic>>
vars == <<config, phase, args, round, outcome, told, result, sent, topics,
          crashes>>

Config == [opaURL : BOOLEAN, fallback : BOOLEAN, streaming : BOOLEAN]
Undecided == [kind |-> "undecided", decision |-> "none", code |-> "none"]

(* The request handleRequestWorkOrder builds from the arguments: the        *)
(* environment has a default, attributes that do not parse are dropped.     *)
OrderRequest(a) ==
  [action      |-> a.action,
   environment |-> IF a.environment \in {Absent, ""} THEN "dev"
                                                     ELSE a.environment,
   attributes  |-> [name \in AttributeName |->
                      IF a.parses THEN a.attributes[name] ELSE Absent]]

(* Mutant: the correlation id is made from the task.                        *)
CorrelationIDOfTask(t) == <<t, 1>>

(* The correlation id drawn for the current order of a task.                *)
CorrelationID(t) == <<t, round[t]>>

(* The decision trace of an order; an empty action or resource is accepted  *)
(* here and refused by the worker's validateTrace.                          *)
OrderTrace(t, o) ==
  [parses   |-> TRUE,
   complete |-> args[t].action # "" /\ args[t].resource # "",
   corr     |-> CorrelationID(t),
   action   |-> args[t].action,
   decision |-> o.decision,
   code     |-> o.code]

(* The evidence event of a report: always "action.executed", and of no      *)
(* record of the trace topic.                                               *)
ReportEvidence(t) ==
  [of    |-> 0,
   epoch |-> 0,
   body  |-> [corr         |-> CorrelationID(t),
              action       |-> args[t].action,
              result       |-> result[t],
              evidenceType |-> "action.executed"]]

(* A message to the broker.  A report is repeated only after a crash, so    *)
(* the count of these tells the events of a report apart.                   *)
Message(topic, record) == [topic |-> topic, id |-> crashes, record |-> record]

Init ==
  /\ config \in Config
  /\ phase = [t \in Task |-> "idle"]
  /\ args \in [Task -> Offered]
  /\ round = [t \in Task |-> 1]
  /\ outcome = [t \in Task |-> Undecided]
  /\ told = [t \in Task |-> "none"]
  /\ result = [t \in Task |-> Absent]
  /\ sent = {}
  /\ traceTopic = << >>
  /\ evidenceTopic = << >>
  /\ crashes = 0

-----------------------------------------------------------------------------
(* The agent calls request_work_order.                                      *)
Ask(t) ==
  /\ phase[t] = "idle"
  /\ phase' = [phase EXCEPT ![t] = "requesting"]
  /\ UNCHANGED <<config, args, round, outcome, told, result, sent, topics,
                 crashes>>

(* The argument check of handleRequestWorkOrder.                            *)
ArgumentsGiven(t) == args[t].action # Absent /\ args[t].resource # Absent

RefuseArguments(t) ==
  /\ phase[t] = "requesting"
  /\ ~ArgumentsGiven(t)
  /\ phase' = [phase EXCEPT ![t] = "refused"]
  /\ UNCHANGED <<config, args, round, outcome, told, result, sent, topics,
                 crashes>>

OrderOutcomes(t) ==
  PolicyOutcomes(config.opaURL, config.fallback, OrderRequest(args[t]))

(* evaluatePolicy returns an error, which the agent is told.                *)
RefuseOrder(t) ==
  /\ phase[t] = "requesting"
  /\ ArgumentsGiven(t)
  /\ \E o \in OrderOutcomes(t) : o.kind \in {"failed", "unavailable"}
  /\ phase' = [phase EXCEPT ![t] = "refused"]
  /\ UNCHANGED <<config, args, round, outcome, told, result, sent, topics,
                 crashes>>

(* evaluatePolicy returns a decision; with a broker the producer sends its  *)
(* trace, unless the five seconds of the context end before it could.       *)
DecideOrder(t) ==
  /\ phase[t] = "requesting"
  /\ ArgumentsGiven(t)
  /\ \E o \in OrderOutcomes(t) :
       /\ o.kind = "decided"
       /\ outcome' = [outcome EXCEPT ![t] = o]
       /\ \/ sent' = sent
          \/ /\ config.streaming
             /\ sent' = sent \cup {Message("trace", OrderTrace(t, o))}
  /\ phase' = [phase EXCEPT ![t] = "publishing"]
  /\ UNCHANGED <<config, args, round, told, result, topics, crashes>>

(* Mutant: the agent is answered only once its trace is in the topic.       *)
AnswerOrderOnceDurable(t) ==
  /\ phase[t] = "publishing"
  /\ \E i \in DOMAIN traceTopic : traceTopic[i].corr = CorrelationID(t)
  /\ told' = [told EXCEPT ![t] = outcome[t].decision]
  /\ phase' = [phase EXCEPT ![t] = IF outcome[t].decision = "allow"
                                   THEN "working" ELSE "stopped"]
  /\ UNCHANGED <<config, args, round, outcome, result, sent, topics, crashes>>

(* Mutant: a denied order is answered like one that was allowed.            *)
AnswerOrderAllow(t) ==
  /\ phase[t] = "publishing"
  /\ told' = [told EXCEPT ![t] = outcome[t].decision]
  /\ phase' = [phase EXCEPT ![t] = "working"]
  /\ UNCHANGED <<config, args, round, outcome, result, sent, topics, crashes>>

(* publishDecisionTrace returned, no matter with what: the agent is told    *)
(* the decision.  As in Gateway the return of a trace that was sent is      *)
(* asked no cause, and may come earlier here than in the code.              *)
AnswerOrder(t) ==
  /\ phase[t] = "publishing"
  /\ told' = [told EXCEPT ![t] = outcome[t].decision]
  /\ phase' = [phase EXCEPT ![t] = IF outcome[t].decision = "allow"
                                   THEN "working" ELSE "stopped"]
  /\ UNCHANGED <<config, args, round, outcome, result, sent, topics, crashes>>

(* The agent is done and calls submit_evidence; it may leave the result out. *)
Report(t) ==
  /\ phase[t] = "working"
  /\ \E r \in Result \cup {Absent} : result' = [result EXCEPT ![t] = r]
  /\ phase' = [phase EXCEPT ![t] = "reporting"]
  /\ UNCHANGED <<config, args, round, outcome, told, sent, topics, crashes>>

(* handleSubmitEvidence refuses the call; the agent calls again.            *)
RefuseReport(t) ==
  /\ phase[t] = "reporting"
  /\ result[t] = Absent
  /\ phase' = [phase EXCEPT ![t] = "working"]
  /\ UNCHANGED <<config, args, round, outcome, told, result, sent, topics,
                 crashes>>

(* handleSubmitEvidence builds the event; with a broker the producer sends  *)
(* it, unless the context ends first.                                       *)
RecordReport(t) ==
  /\ phase[t] = "reporting"
  /\ result[t] # Absent
  /\ \/ sent' = sent
     \/ /\ config.streaming
        /\ sent' = sent \cup {Message("evidence", ReportEvidence(t))}
  /\ phase' = [phase EXCEPT ![t] = "recording"]
  /\ UNCHANGED <<config, args, round, outcome, told, result, topics, crashes>>

(* publishEvidence returned, no matter with what: the agent is told         *)
(* "recorded".                                                              *)
AnswerReport(t) ==
  /\ phase[t] = "recording"
  /\ phase' = [phase EXCEPT ![t] = "recorded"]
  /\ UNCHANGED <<config, args, round, outcome, told, result, sent, topics,
                 crashes>>

Record(m) ==
  IF m.topic = "trace"
  THEN traceTopic' = Append(traceTopic, m.record) /\ UNCHANGED evidenceTopic
  ELSE evidenceTopic' = Append(evidenceTopic, m.record) /\ UNCHANGED traceTopic

(* Mutant: the producer resends, and the broker does not deduplicate.       *)
BrokerAppendTwice(m) ==
  /\ Len(traceTopic) + Len(evidenceTopic) < 4
  /\ Record(m)
  /\ UNCHANGED <<config, phase, args, round, outcome, told, result, sent,
                 crashes>>

(* A record reaches its topic, whatever has become of the call meanwhile.   *)
BrokerAppend(m) ==
  /\ Record(m)
  /\ sent' = sent \ {m}
  /\ UNCHANGED <<config, phase, args, round, outcome, told, result, crashes>>

(* The broker refuses a record, the producer gives up on it, or it is lost  *)
(* with the process that sent it.                                           *)
BrokerLose(m) ==
  /\ sent' = sent \ {m}
  /\ UNCHANGED <<config, phase, args, round, outcome, told, result, topics,
                 crashes>>

(* The server dies and the client starts another.  An agent that waited for *)
(* its order asks again, one that waited for its report reports again.      *)
Crash ==
  /\ crashes < MaxCrashes
  /\ crashes' = crashes + 1
  /\ phase' = [t \in Task |->
                 CASE phase[t] \in {"requesting", "publishing"} -> "idle"
                   [] phase[t] \in {"reporting", "recording"} -> "working"
                   [] OTHER -> phase[t]]
  /\ round' = [t \in Task |-> IF phase[t] \in {"requesting", "publishing"}
                              THEN round[t] + 1 ELSE round[t]]
  /\ outcome' = [t \in Task |-> IF phase[t] = "publishing" THEN Undecided
                                                           ELSE outcome[t]]
  /\ UNCHANGED <<config, args, told, result, sent, topics>>

Handle(t) ==
  RefuseArguments(t) \/ RefuseOrder(t) \/ DecideOrder(t) \/ AnswerOrder(t)
    \/ RefuseReport(t) \/ RecordReport(t) \/ AnswerReport(t)

Next ==
  \/ \E t \in Task : Ask(t) \/ Report(t) \/ Handle(t)
  \/ \E m \in sent : BrokerAppend(m) \/ BrokerLose(m)
  \/ Crash

SafeSpec == Init /\ [][Next]_vars

(* The call has a record that was sent and not refused, and may still wait  *)
(* for the broker to answer it.  (After a crash the event of a report made  *)
(* before it counts as the one that is waited for.)                         *)
Unanswered(t) ==
  \/ /\ phase[t] = "publishing"
     /\ \/ \E m \in sent : m.topic = "trace" /\ m.record.corr = CorrelationID(t)
        \/ \E i \in DOMAIN traceTopic : traceTopic[i].corr = CorrelationID(t)
  \/ /\ phase[t] = "recording"
     /\ \/ Message("evidence", ReportEvidence(t)) \in sent
        \/ \E i \in DOMAIN evidenceTopic : evidenceTopic[i] = ReportEvidence(t)

(* The steps that nobody outside the process can hold up: OPA has two       *)
(* seconds, a record that was not sent five, and ProduceSync returns for    *)
(* one that was refused.                                                    *)
Returns(t) ==
  \/ RefuseArguments(t) \/ RefuseOrder(t) \/ DecideOrder(t)
  \/ RefuseReport(t) \/ RecordReport(t)
  \/ ~Unanswered(t) /\ (AnswerOrder(t) \/ AnswerReport(t))

(* Agents owe nothing, nor does the broker: it need not take a record, nor  *)
(* answer one it took.                                                      *)
Fairness == \A t \in Task : WF_vars(Returns(t))

Spec == SafeSpec /\ Fairness

-----------------------------------------------------------------------------
Corrs == Task \X Nat

Traces ==
  [parses : {TRUE}, complete : BOOLEAN, corr : Corrs,
   action : Action, decision : {"allow", "deny"},
   code : Rule \cup {"DEFAULT_DENY", "none"}]

InCall(t) == phase[t] \in {"requesting", "publishing", "reporting", "recording"}

(* Every tool call returns, or its server dies and the agent is back where  *)
(* it called, whatever OPA does and though no broker can be reached; except *)
(* for a call whose record was sent to a broker that never answers.         *)
OnlyBrokerHoldsToolCalls ==
  \A t \in Task : []<>~InCall(t) \/ <>[]Unanswered(t)

-----------------------------------------------------------------------------
(* What a comment of the repository says of the publication.                *)

(* kafka.go, publishDecisionTrace: when the broker is configured, failure   *)
(* to publish must fail the request, so execution is never implied without  *)
(* a durable trace.  An agent told to go ahead then has a trace.            *)
PermissionIsDurable ==
  \A t \in Task :
    config.streaming /\ told[t] = "allow" =>
      \E i \in DOMAIN traceTopic : traceTopic[i].corr = CorrelationID(t)
=============================================================================
