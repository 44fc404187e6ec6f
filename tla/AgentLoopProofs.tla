-------------------------- MODULE AgentLoopProofs ---------------------------
(***************************************************************************)
(* Proofs about agents, the MCP server and the workers together, for any   *)
(* tasks and arguments, any number of workers, crashes and evictions.      *)
(*                                                                         *)
(* Both handlers ignore what became of their message, so nothing an agent  *)
(* was told says whether a record is in a topic.  The other direction is   *)
(* what holds: of every record, in a topic or still on its way, the        *)
(* invariant says which order it was written for and how that order        *)
(* stands, or that the agent has given that order up for a new one.        *)
(*                                                                         *)
(* How often something is done is counted beside that: traces by the order *)
(* they are of, reports by the crashes that cut their calls short, and     *)
(* executions by the assignments they were left under.  Cursors of workers *)
(* are needed here as in WorkerProofs; here agents write evidence too.     *)
(* What is counted bounds the topics, and so the loop is shown to do to    *)
(* them only what AuditPacket assumes of its environment.                  *)
(***************************************************************************)
EXTENDS AgentLoop, PolicyLemmas, FiniteSetTheorems, FunctionTheorems

Early == {"idle", "requesting", "refused"}
Granted == {"working", "reporting", "recording", "recorded"}
Phases == Early \cup Granted \cup {"publishing", "stopped"}

(* The reports agents make.                                                 *)
ReportEvents ==
  [of : {0}, epoch : {0},
   body : [corr : Corrs, action : Action, result : Result,
           evidenceType : {"action.executed"}]]

(* The evidence workers leave.                                              *)
ExecutionEvents ==
  [of : Nat, epoch : Nat,
   body : [corr : Corrs, action : Action, decision : {"allow", "deny"},
           result : {"ok", "skipped"},
           evidenceType : {"action.executed", "action.skipped"}]]

Events == ExecutionEvents \cup ReportEvents

(* The types of the server's variables and of what it sends.                *)
ServerTypes ==
  /\ config \in Config
  /\ phase \in [Task -> Phases]
  /\ args \in [Task -> Offered]
  /\ round \in [Task -> Nat \ {0}]
  /\ outcome \in [Task -> [kind : {"undecided", "decided"},
                           decision : {"none", "allow", "deny"},
                           code : Rule \cup {"none", "DEFAULT_DENY"}]]
  /\ told \in [Task -> {"none", "allow", "deny"}]
  /\ result \in [Task -> Result \cup {Absent}]
  /\ \A m \in sent :
       \/ m.topic = "trace" /\ m.record \in Traces
       \/ m.topic = "evidence" /\ m.record \in ReportEvents

TopicTypes ==
  /\ traceTopic \in Seq(Traces)
  /\ evidenceTopic \in Seq(Events)

(* The types of the workers' variables.                                     *)
WorkerTypes ==
  /\ epoch \in Nat
  /\ committed \in Nat
  /\ pc \in [Worker -> {"down", "loop", "polling", "processing"}]
  /\ session \in [Worker -> Nat]
  /\ fetched \in [Worker -> Nat]
  /\ marked \in [Worker -> Nat]
  /\ batch \in [Worker -> [epoch : Nat, next : Nat, last : Nat]]

(* The order of a task was decided, by the policy or for want of it.        *)
DecidedBy(t) ==
  /\ ArgumentsGiven(t)
  /\ outcome[t] \in OrderOutcomes(t)
  /\ outcome[t].kind = "decided"

(* What the place of an agent says of its order.                            *)
OrderInv ==
  \A t \in Task :
    /\ phase[t] \notin Early => DecidedBy(t)
    /\ phase[t] \in Early \cup {"publishing"} => told[t] = "none"
    /\ phase[t] \in Granted => told[t] = "allow" /\ outcome[t].decision = "allow"
    /\ phase[t] = "stopped" => told[t] = "deny" /\ outcome[t].decision = "deny"

(* The trace is of an order of a task, and follows the policy.  If it is    *)
(* the order the agent holds, it says what was decided of it.               *)
TraceStands(r) ==
  \E t \in Task : \E k \in 1..round[t] :
    /\ r.corr = <<t, k>>
    /\ r.complete => args[t].action # "" /\ args[t].resource # ""
    /\ r.decision = "allow" => RegoAllow(OrderRequest(args[t]))
    /\ k = round[t] => /\ phase[t] \notin Early
                       /\ r.decision = outcome[t].decision

(* The report is of an order that was granted and is still held.            *)
ReportStands(r) ==
  \E t \in Task : r.body.corr = CorrelationID(t) /\ told[t] = "allow"

(* The evidence is what a worker makes of a trace that is in the topic and  *)
(* that it accepts.                                                         *)
MadeFrom(r) ==
  /\ r.of \in DOMAIN traceTopic
  /\ W!Executable(traceTopic[r.of])
  /\ r.body = W!TraceToEvidence(traceTopic[r.of])

SentInv ==
  \A m \in sent :
    IF m.topic = "trace" THEN TraceStands(m.record) ELSE ReportStands(m.record)

(* The records of the topics.                                               *)
Traced == {traceTopic[i] : i \in DOMAIN traceTopic}
Recorded == {evidenceTopic[i] : i \in DOMAIN evidenceTopic}

TraceInv == \A r \in Traced : TraceStands(r)

EvidenceInv ==
  \A r \in Recorded : MadeFrom(r) \/ (r \in ReportEvents /\ ReportStands(r))

(* A worker in its loop is at a record of the topic.                        *)
BatchInv ==
  \A w \in Worker : pc[w] = "processing" =>
    /\ batch[w].next > 0
    /\ batch[w].next <= batch[w].last
    /\ batch[w].last <= Len(traceTopic)

Types == ServerTypes /\ TopicTypes /\ WorkerTypes

ALInv == Types /\ OrderInv /\ SentInv /\ TraceInv /\ EvidenceInv /\ BatchInv

-----------------------------------------------------------------------------
(* The initial state satisfies the invariant.                               *)
LEMMA ALInit == LoopInit => ALInv
<1> SUFFICES ASSUME LoopInit PROVE ALInv
  OBVIOUS
<1>1. ServerTypes
  BY DEF LoopInit, Init, ServerTypes, Phases, Early, Granted, Undecided
<1>2. TopicTypes /\ WorkerTypes
  BY DEF LoopInit, Init, W!Init, TopicTypes, WorkerTypes, W!NoBatch
<1>3. OrderInv
  BY DEF LoopInit, Init, OrderInv, Early, Granted
<1>4. SentInv /\ TraceInv /\ EvidenceInv
  BY DEF LoopInit, Init, SentInv, TraceInv, EvidenceInv, Traced, Recorded
<1>5. BatchInv
  BY DEF LoopInit, W!Init, BatchInv
<1> QED
  BY <1>1, <1>2, <1>3, <1>4, <1>5 DEF ALInv, Types

(* With its arguments given, an order is a request the policy can decide.   *)
LEMMA OrderIsRequest ==
  ASSUME Types, NEW t \in Task, ArgumentsGiven(t)
  PROVE  /\ OrderRequest(args[t]) \in Request
         /\ args[t].action \in Action
         /\ config.opaURL \in BOOLEAN /\ config.fallback \in BOOLEAN
<1>1. args[t] \in Arguments /\ config \in Config
  BY OfferedAssumption DEF Types, ServerTypes
<1>2. PICK a : a = args[t]
  OBVIOUS
<1>3. a.action \in Action
  BY <1>1, <1>2 DEF Arguments, ArgumentsGiven
<1>4. (IF a.environment \in {Absent, ""} THEN "dev" ELSE a.environment)
        \in Environment
  BY <1>1, <1>2, DevAssumption DEF Arguments
<1>5. [name \in AttributeName |->
         IF a.parses THEN a.attributes[name] ELSE Absent]
        \in [AttributeName -> AttrValue \cup {Absent}]
  <2>1. a.attributes \in [AttributeName -> AttrValue \cup {Absent}]
    BY <1>1, <1>2 DEF Arguments
  <2> QED
    BY <2>1
<1>6. OrderRequest(a) \in Request
  BY <1>3, <1>4, <1>5 DEF OrderRequest, Request
<1> QED
  BY <1>1, <1>2, <1>3, <1>6 DEF Config

(* What evaluatePolicy can return for an order.                             *)
LEMMA OrderOutcomeType ==
  ASSUME Types, NEW t \in Task, ArgumentsGiven(t),
         NEW o \in OrderOutcomes(t), o.kind = "decided"
  PROVE  /\ o \in [kind : {"decided"}, decision : {"allow", "deny"},
                   code : Rule \cup {"none", "DEFAULT_DENY"}]
         /\ o.decision = "allow" => RegoAllow(OrderRequest(args[t]))
<1>1. /\ OrderRequest(args[t]) \in Request
      /\ config.opaURL \in BOOLEAN /\ config.fallback \in BOOLEAN
  BY OrderIsRequest
<1>2. o \in PolicyOutcomes(config.opaURL, config.fallback, OrderRequest(args[t]))
  BY DEF OrderOutcomes
<1> QED
  BY <1>1, <1>2, OutcomeType, OutcomesFailClosed

(* The trace of a decided order is a trace of the topic's type.             *)
LEMMA OrderTraceType ==
  ASSUME Types, NEW t \in Task, ArgumentsGiven(t),
         NEW o \in OrderOutcomes(t), o.kind = "decided"
  PROVE  OrderTrace(t, o) \in Traces
<1>1. /\ o.decision \in {"allow", "deny"}
      /\ o.code \in Rule \cup {"none", "DEFAULT_DENY"}
  BY OrderOutcomeType
<1>2. args[t].action \in Action
  BY OrderIsRequest
<1>3. CorrelationID(t) \in Corrs
  BY DEF CorrelationID, Corrs, Types, ServerTypes
<1> QED
  BY <1>1, <1>2, <1>3 DEF OrderTrace, Traces

(* The event built from a complete report is one of the topic's type.       *)
LEMMA ReportType ==
  ASSUME Types, NEW t \in Task, ArgumentsGiven(t), result[t] # Absent
  PROVE  ReportEvidence(t) \in ReportEvents
<1>1. args[t].action \in Action
  BY OrderIsRequest
<1>2. CorrelationID(t) \in Corrs /\ result[t] \in Result
  BY DEF CorrelationID, Corrs, Types, ServerTypes
<1> QED
  BY <1>1, <1>2 DEF ReportEvidence, ReportEvents

(* A step of the server only moves orders on: an order that was decided     *)
(* stays as it was decided unless the agent asks for a new one, and an      *)
(* agent that was told to go ahead keeps its order.                         *)
OrdersGrow ==
  /\ config' = config /\ args' = args
  /\ \A t \in Task :
       /\ round[t] <= round'[t]
       /\ phase[t] \notin Early /\ round'[t] = round[t] =>
            phase'[t] \notin Early /\ outcome'[t] = outcome[t]
       /\ told[t] = "allow" => told'[t] = "allow" /\ round'[t] = round[t]

(* No step of the server takes an order back.                               *)
LEMMA OrdersMove == Types /\ OrderInv /\ [Next]_vars => OrdersGrow
<1> SUFFICES ASSUME Types, OrderInv, [Next]_vars PROVE OrdersGrow
  OBVIOUS
<1>1. /\ phase \in [Task -> Phases]
      /\ round \in [Task -> Nat]
      /\ DOMAIN outcome = Task /\ outcome = [t \in Task |-> outcome[t]]
      /\ told \in [Task -> {"none", "allow", "deny"}]
  BY DEF Types, ServerTypes
<1>2. config' = config /\ args' = args
  BY DEF Next, Ask, Report, Handle, RefuseArguments, RefuseOrder, DecideOrder,
         AnswerOrder, RefuseReport, RecordReport, AnswerReport, BrokerAppend,
         BrokerLose, Crash, vars
<1> USE DEF OrdersGrow, Early
<1>3. ASSUME UNCHANGED <<phase, round, outcome, told>> PROVE OrdersGrow
  BY <1>1, <1>2, <1>3
<1>4. ASSUME NEW t \in Task,
             \/ Ask(t) \/ RefuseArguments(t) \/ RefuseOrder(t) \/ Report(t)
             \/ RefuseReport(t) \/ RecordReport(t) \/ AnswerReport(t)
      PROVE  OrdersGrow
  BY <1>1, <1>2, <1>4
     DEF Ask, RefuseArguments, RefuseOrder, Report, RefuseReport,
         RecordReport, AnswerReport
<1>5. ASSUME NEW t \in Task, DecideOrder(t) PROVE OrdersGrow
  <2>1. /\ phase[t] = "requesting" /\ round' = round /\ told' = told
        /\ \A s \in Task \ {t} : phase'[s] = phase[s] /\ outcome'[s] = outcome[s]
    BY <1>1, <1>5 DEF DecideOrder
  <2> QED
    BY <1>1, <1>2, <2>1
<1>6. ASSUME NEW t \in Task, AnswerOrder(t) PROVE OrdersGrow
  <2>1. /\ phase[t] = "publishing" /\ round' = round /\ outcome' = outcome
        /\ phase'[t] \in {"working", "stopped"}
        /\ \A s \in Task \ {t} : phase'[s] = phase[s] /\ told'[s] = told[s]
    BY <1>1, <1>6 DEF AnswerOrder
  <2>2. told[t] = "none"
    BY <2>1 DEF OrderInv
  <2> QED
    BY <1>1, <1>2, <2>1, <2>2
<1>7. CASE Crash
  <2>1. /\ told' = told
        /\ \A t \in Task :
             /\ round'[t] = IF phase[t] \in {"requesting", "publishing"}
                            THEN round[t] + 1 ELSE round[t]
             /\ outcome'[t] = IF phase[t] = "publishing" THEN Undecided
                                                         ELSE outcome[t]
             /\ phase'[t] =
                  CASE phase[t] \in {"requesting", "publishing"} -> "idle"
                    [] phase[t] \in {"reporting", "recording"} -> "working"
                    [] OTHER -> phase[t]
    BY <1>7 DEF Crash
  <2>2. ASSUME NEW t \in Task
        PROVE  /\ round[t] <= round'[t]
               /\ phase[t] \notin Early /\ round'[t] = round[t] =>
                    phase'[t] \notin Early /\ outcome'[t] = outcome[t]
    <3>1. round[t] \in Nat
      BY <1>1
    <3>2. CASE phase[t] \in {"requesting", "publishing"}
      BY <2>1, <3>1, <3>2
    <3>3. CASE phase[t] \notin {"requesting", "publishing"}
      BY <2>1, <3>1, <3>3
    <3> QED
      BY <3>2, <3>3
  <2>3. ASSUME NEW t \in Task, told[t] = "allow"
        PROVE  told'[t] = "allow" /\ round'[t] = round[t]
    BY <2>1, <2>3 DEF OrderInv
  <2> QED
    BY <1>2, <2>2, <2>3
<1>8. ASSUME NEW m \in sent, BrokerAppend(m) \/ BrokerLose(m) PROVE OrdersGrow
  BY <1>3, <1>8 DEF BrokerAppend, BrokerLose
<1>9. CASE UNCHANGED vars
  BY <1>3, <1>9 DEF vars
<1> QED
  BY <1>4, <1>5, <1>6, <1>7, <1>8, <1>9 DEF Next, Handle

(* What was said of a record stays true of it.                              *)
LEMMA StandsStay ==
  ASSUME Types, ServerTypes', OrdersGrow
  PROVE  /\ \A r : TraceStands(r) => TraceStands(r)'
         /\ \A r : ReportStands(r) => ReportStands(r)'
<1>1. /\ round \in [Task -> Nat] /\ round' \in [Task -> Nat]
      /\ args' = args
  BY DEF Types, ServerTypes, OrdersGrow
<1>2. ASSUME NEW r, TraceStands(r) PROVE TraceStands(r)'
  <2>0. PICK t \in Task : \E k \in 1..round[t] :
          /\ r.corr = <<t, k>>
          /\ r.complete => args[t].action # "" /\ args[t].resource # ""
          /\ r.decision = "allow" => RegoAllow(OrderRequest(args[t]))
          /\ k = round[t] => /\ phase[t] \notin Early
                             /\ r.decision = outcome[t].decision
    BY <1>2 DEF TraceStands
  <2>1. PICK k \in 1..round[t] :
          /\ r.corr = <<t, k>>
          /\ r.complete => args[t].action # "" /\ args[t].resource # ""
          /\ r.decision = "allow" => RegoAllow(OrderRequest(args[t]))
          /\ k = round[t] => /\ phase[t] \notin Early
                             /\ r.decision = outcome[t].decision
    BY <2>0
  <2>2. /\ round[t] <= round'[t]
        /\ phase[t] \notin Early /\ round'[t] = round[t] =>
             phase'[t] \notin Early /\ outcome'[t] = outcome[t]
    BY DEF OrdersGrow
  <2>3. round[t] \in Nat /\ round'[t] \in Nat
    BY <1>1
  <2>4. k \in 1..round'[t]
    BY <2>2, <2>3
  <2>5. k = round'[t] => k = round[t] /\ round'[t] = round[t]
    BY <2>2, <2>3
  <2>6. k = round'[t] => /\ phase'[t] \notin Early
                         /\ r.decision = outcome'[t].decision
    BY <2>1, <2>2, <2>5
  <2> QED
    BY <1>1, <2>1, <2>4, <2>6 DEF TraceStands
<1>3. ASSUME NEW r, ReportStands(r) PROVE ReportStands(r)'
  BY <1>3 DEF ReportStands, CorrelationID, OrdersGrow
<1> QED
  BY <1>2, <1>3

-----------------------------------------------------------------------------
(* The server's variables and messages keep their types.                    *)
LEMMA ServerTypeStep ==
  Types /\ OrderInv /\ [Next]_vars => ServerTypes'
<1> SUFFICES ASSUME Types, OrderInv, [Next]_vars PROVE ServerTypes'
  OBVIOUS
<1>1. ServerTypes
  BY DEF Types
<1> USE DEF ServerTypes, Phases, Early, Granted
<1>2. ASSUME NEW t \in Task,
             \/ Ask(t) \/ RefuseArguments(t) \/ RefuseOrder(t)
             \/ RefuseReport(t) \/ AnswerReport(t)
      PROVE  ServerTypes'
  BY <1>1, <1>2
     DEF Ask, RefuseArguments, RefuseOrder, RefuseReport, AnswerReport
<1>3. ASSUME NEW t \in Task, DecideOrder(t) PROVE ServerTypes'
  <2>1. PICK o \in OrderOutcomes(t) :
          /\ o.kind = "decided"
          /\ outcome' = [outcome EXCEPT ![t] = o]
          /\ \/ sent' = sent
             \/ sent' = sent \cup {Message("trace", OrderTrace(t, o))}
    BY <1>3 DEF DecideOrder
  <2>2. ArgumentsGiven(t)
    BY <1>3 DEF DecideOrder
  <2>3. o \in [kind : {"decided"}, decision : {"allow", "deny"},
               code : Rule \cup {"none", "DEFAULT_DENY"}]
    BY <2>1, <2>2, OrderOutcomeType
  <2>4. outcome' \in [Task -> [kind : {"undecided", "decided"},
                              decision : {"none", "allow", "deny"},
                              code : Rule \cup {"none", "DEFAULT_DENY"}]]
    BY <1>1, <2>1, <2>3
  <2>5. OrderTrace(t, o) \in Traces
    BY <2>1, <2>2, OrderTraceType
  <2>6. \A m \in sent' :
          \/ m.topic = "trace" /\ m.record \in Traces
          \/ m.topic = "evidence" /\ m.record \in ReportEvents
    BY <1>1, <2>1, <2>5 DEF Message
  <2> QED
    BY <1>1, <1>3, <2>4, <2>6 DEF DecideOrder
<1>4. ASSUME NEW t \in Task, AnswerOrder(t) PROVE ServerTypes'
  BY <1>1, <1>4 DEF AnswerOrder
<1>5. ASSUME NEW t \in Task, Report(t) PROVE ServerTypes'
  BY <1>1, <1>5 DEF Report
<1>6. ASSUME NEW t \in Task, RecordReport(t) PROVE ServerTypes'
  <2>1. ArgumentsGiven(t) /\ result[t] # Absent
    BY <1>6 DEF RecordReport, OrderInv, DecidedBy
  <2>2. ReportEvidence(t) \in ReportEvents
    BY <2>1, ReportType
  <2>3. \A m \in sent' :
          \/ m.topic = "trace" /\ m.record \in Traces
          \/ m.topic = "evidence" /\ m.record \in ReportEvents
    BY <1>1, <1>6, <2>2 DEF RecordReport, Message
  <2> QED
    BY <1>1, <1>6, <2>3 DEF RecordReport
<1>7. ASSUME NEW m \in sent, BrokerAppend(m) \/ BrokerLose(m)
      PROVE  ServerTypes'
  BY <1>1, <1>7 DEF BrokerAppend, BrokerLose
<1>8. CASE Crash
  <2>1. phase' \in [Task -> Phases]
    BY <1>1, <1>8 DEF Crash
  <2>2. round' \in [Task -> Nat \ {0}]
    BY <1>1, <1>8 DEF Crash
  <2>3. outcome' \in [Task -> [kind : {"undecided", "decided"},
                              decision : {"none", "allow", "deny"},
                              code : Rule \cup {"none", "DEFAULT_DENY"}]]
    BY <1>1, <1>8 DEF Crash, Undecided
  <2> QED
    BY <1>1, <1>8, <2>1, <2>2, <2>3 DEF Crash
<1>9. CASE UNCHANGED vars
  BY <1>1, <1>9 DEF vars
<1> QED
  BY <1>2, <1>3, <1>4, <1>5, <1>6, <1>7, <1>8, <1>9 DEF Next, Handle

(* The agents keep the place that their order gives them.                   *)
LEMMA OrderStep == Types /\ OrderInv /\ [Next]_vars => OrderInv'
<1> SUFFICES ASSUME Types, OrderInv, [Next]_vars PROVE OrderInv'
  OBVIOUS
<1>1. /\ phase \in [Task -> Phases]
      /\ DOMAIN outcome = Task
      /\ told \in [Task -> {"none", "allow", "deny"}]
      /\ config' = config /\ args' = args
  BY OrdersMove DEF Types, ServerTypes, OrdersGrow
<1>2. \A t \in Task : outcome'[t] = outcome[t] =>
        (DecidedBy(t) => DecidedBy(t)')
  BY <1>1 DEF DecidedBy, ArgumentsGiven, OrderOutcomes
<1>3. ASSUME UNCHANGED <<phase, outcome, told>> PROVE OrderInv'
  BY <1>2, <1>3 DEF OrderInv
<1>4. ASSUME NEW t \in Task, UNCHANGED <<outcome, told>>,
             \A s \in Task \ {t} : phase'[s] = phase[s],
             \/ phase[t] \in Early /\ phase'[t] \in Early
             \/ phase[t] \in Granted /\ phase'[t] \in Granted
      PROVE  OrderInv'
  BY <1>2, <1>4 DEF OrderInv, Early, Granted
<1>5. ASSUME NEW t \in Task, Ask(t) \/ RefuseArguments(t) \/ RefuseOrder(t)
      PROVE  OrderInv'
  BY <1>1, <1>4, <1>5 DEF Ask, RefuseArguments, RefuseOrder, Early
<1>6. ASSUME NEW t \in Task,
             Report(t) \/ RefuseReport(t) \/ RecordReport(t) \/ AnswerReport(t)
      PROVE  OrderInv'
  BY <1>1, <1>4, <1>6
     DEF Report, RefuseReport, RecordReport, AnswerReport, Granted
<1>7. ASSUME NEW t \in Task, DecideOrder(t) PROVE OrderInv'
  <2>1. /\ phase[t] = "requesting" /\ phase'[t] = "publishing"
        /\ told' = told
        /\ \A s \in Task \ {t} : phase'[s] = phase[s] /\ outcome'[s] = outcome[s]
    BY <1>1, <1>7 DEF DecideOrder
  <2>2. DecidedBy(t)'
    BY <1>1, <1>7 DEF DecideOrder, DecidedBy, ArgumentsGiven, OrderOutcomes
  <2> QED
    BY <1>2, <2>1, <2>2 DEF OrderInv, Early, Granted
<1>8. ASSUME NEW t \in Task, AnswerOrder(t) PROVE OrderInv'
  <2>1. /\ phase[t] = "publishing" /\ outcome' = outcome
        /\ told'[t] = outcome[t].decision
        /\ phase'[t] = IF outcome[t].decision = "allow"
                       THEN "working" ELSE "stopped"
        /\ \A s \in Task \ {t} : phase'[s] = phase[s] /\ told'[s] = told[s]
    BY <1>1, <1>8 DEF AnswerOrder
  <2>2. DecidedBy(t)
    BY <2>1 DEF OrderInv, Early
  <2>3. outcome[t].decision \in {"allow", "deny"}
    BY <2>2, OrderOutcomeType DEF DecidedBy
  <2> QED
    BY <1>2, <2>1, <2>2, <2>3 DEF OrderInv, Early, Granted
<1>9. CASE Crash
  <2>1. /\ told' = told
        /\ \A t \in Task :
             /\ outcome'[t] = IF phase[t] = "publishing" THEN Undecided
                                                         ELSE outcome[t]
             /\ phase'[t] =
                  CASE phase[t] \in {"requesting", "publishing"} -> "idle"
                    [] phase[t] \in {"reporting", "recording"} -> "working"
                    [] OTHER -> phase[t]
    BY <1>9 DEF Crash
  <2>2. ASSUME NEW t \in Task
        PROVE  \/ /\ phase[t] \in {"requesting", "publishing"}
                  /\ phase'[t] = "idle"
               \/ /\ phase[t] \in {"reporting", "recording"}
                  /\ phase'[t] = "working" /\ outcome'[t] = outcome[t]
               \/ phase'[t] = phase[t] /\ outcome'[t] = outcome[t]
    BY <2>1
  <2> QED
    BY <1>2, <2>1, <2>2 DEF OrderInv, Early, Granted
<1>10. ASSUME NEW m \in sent, BrokerAppend(m) \/ BrokerLose(m) PROVE OrderInv'
  BY <1>3, <1>10 DEF BrokerAppend, BrokerLose
<1>11. CASE UNCHANGED vars
  BY <1>3, <1>11 DEF vars
<1> QED
  BY <1>5, <1>6, <1>7, <1>8, <1>9, <1>10, <1>11 DEF Next, Handle

-----------------------------------------------------------------------------
(* What the server writes.                                                  *)

(* Every message on its way stands for an order: those sent before still    *)
(* do, and a new one is of the order its handler is about.                  *)
LEMMA SentStep ==
  Types /\ ServerTypes' /\ OrderInv /\ SentInv /\ [Next]_vars => SentInv'
<1> SUFFICES ASSUME Types, ServerTypes', OrderInv, SentInv, [Next]_vars
             PROVE  SentInv'
  OBVIOUS
<1>1. /\ \A r : TraceStands(r) => TraceStands(r)'
      /\ \A r : ReportStands(r) => ReportStands(r)'
  BY OrdersMove, StandsStay
<1>2. ASSUME sent' \subseteq sent PROVE SentInv'
  BY <1>1, <1>2 DEF SentInv
<1>3. ASSUME NEW t \in Task, DecideOrder(t) PROVE SentInv'
  <2>1. PICK o \in OrderOutcomes(t) :
          /\ o.kind = "decided"
          /\ outcome' = [outcome EXCEPT ![t] = o]
          /\ \/ sent' = sent
             \/ sent' = sent \cup {Message("trace", OrderTrace(t, o))}
    BY <1>3 DEF DecideOrder
  <2>2. PICK r : r = OrderTrace(t, o)
    OBVIOUS
  <2>3. /\ ArgumentsGiven(t) /\ args' = args /\ round' = round
        /\ phase' = [phase EXCEPT ![t] = "publishing"]
    BY <1>3 DEF DecideOrder
  <2>4. /\ round[t] \in Nat \ {0}
        /\ phase'[t] = "publishing" /\ outcome'[t] = o
    BY <2>1, <2>3 DEF Types, ServerTypes
  <2>5. /\ r.corr = <<t, round[t]>>
        /\ r.complete => args[t].action # "" /\ args[t].resource # ""
        /\ r.decision = o.decision
    BY <2>2 DEF OrderTrace, CorrelationID
  <2>6. r.decision = "allow" => RegoAllow(OrderRequest(args[t]))
    BY <2>1, <2>3, <2>5, OrderOutcomeType
  <2>7. round[t] \in 1..round'[t] /\ phase'[t] \notin Early
    BY <2>3, <2>4 DEF Early
  <2>8. TraceStands(r)'
    BY <2>3, <2>4, <2>5, <2>6, <2>7 DEF TraceStands
  <2>9. PICK m : m = Message("trace", r)
    OBVIOUS
  <2>10. m.topic = "trace" /\ m.record = r /\ sent' \subseteq sent \cup {m}
    BY <2>1, <2>2, <2>9 DEF Message
  <2> QED
    BY <1>1, <2>8, <2>10 DEF SentInv
<1>4. ASSUME NEW t \in Task, RecordReport(t) PROVE SentInv'
  <2>1. PICK r : r = ReportEvidence(t)
    OBVIOUS
  <2>2. PICK m : m = Message("evidence", r)
    OBVIOUS
  <2>3. /\ m.topic = "evidence" /\ m.record = r /\ sent' \subseteq sent \cup {m}
        /\ phase[t] = "reporting"
    BY <1>4, <2>1, <2>2 DEF RecordReport, Message
  <2>4. r.body.corr = CorrelationID(t)
    BY <2>1 DEF ReportEvidence
  <2>5. told[t] = "allow"
    BY <2>3 DEF OrderInv, Granted
  <2>6. ReportStands(r)
    BY <2>4, <2>5 DEF ReportStands
  <2> QED
    BY <1>1, <2>3, <2>6 DEF SentInv
<1>5. ASSUME NEW t \in Task,
             \/ Ask(t) \/ RefuseArguments(t) \/ RefuseOrder(t) \/ AnswerOrder(t)
             \/ Report(t) \/ RefuseReport(t) \/ AnswerReport(t)
      PROVE  SentInv'
  BY <1>2, <1>5
     DEF Ask, RefuseArguments, RefuseOrder, AnswerOrder, Report, RefuseReport,
         AnswerReport
<1>6. ASSUME NEW m \in sent, BrokerAppend(m) \/ BrokerLose(m) PROVE SentInv'
  BY <1>2, <1>6 DEF BrokerAppend, BrokerLose
<1>7. CASE Crash
  BY <1>2, <1>7 DEF Crash
<1>8. CASE UNCHANGED vars
  BY <1>2, <1>8 DEF vars
<1> QED
  BY <1>3, <1>4, <1>5, <1>6, <1>7, <1>8 DEF Next, Handle

(* The server touches the topics only by appending what it has sent.        *)
LEMMA ServerAppends ==
  ASSUME [Next]_vars
  PROVE  UNCHANGED topics \/ \E m \in sent : Record(m)
BY DEF Next, Ask, Report, Handle, RefuseArguments, RefuseOrder, DecideOrder,
       AnswerOrder, RefuseReport, RecordReport, AnswerReport, BrokerAppend,
       BrokerLose, Crash, vars

(* A topic with one record more.                                            *)
LEMMA TopicGrows ==
  ASSUME NEW S, NEW s \in Seq(S), NEW r \in S
  PROVE  /\ Append(s, r) \in Seq(S)
         /\ Len(Append(s, r)) = Len(s) + 1
         /\ \A i \in DOMAIN s : /\ i \in DOMAIN Append(s, r)
                                /\ Append(s, r)[i] = s[i]
         /\ {Append(s, r)[i] : i \in DOMAIN Append(s, r)}
              = {s[i] : i \in DOMAIN s} \cup {r}
<1>1. PICK n : n = Len(s)
  OBVIOUS
<1>2. n \in Nat /\ DOMAIN s = 1..n
  BY <1>1
<1>3. PICK a : a = Append(s, r)
  OBVIOUS
<1>4. /\ a \in Seq(S) /\ Len(a) = n + 1
      /\ DOMAIN a = 1..(n + 1)
      /\ \A i \in 1..n : a[i] = s[i]
      /\ a[n + 1] = r
  BY <1>1, <1>3
<1>5. 1..(n + 1) = 1..n \cup {n + 1}
  BY <1>2
<1>6. {a[i] : i \in DOMAIN a} = {s[i] : i \in DOMAIN s} \cup {r}
  BY <1>2, <1>4, <1>5
<1> QED
  BY <1>1, <1>2, <1>3, <1>4, <1>5, <1>6

(* Evidence made from a trace stays so while the topic grows.               *)
LEMMA MadeFromStays ==
  ASSUME \A o \in DOMAIN traceTopic :
           o \in DOMAIN traceTopic' /\ traceTopic'[o] = traceTopic[o]
  PROVE  \A r : MadeFrom(r) => MadeFrom(r)'
BY DEF MadeFrom

(* What the server appends has the type of its topic and stands there for   *)
(* what it stood for on its way; what was there before stays.               *)
LEMMA ServerTopicStep ==
  ASSUME ALInv, ServerTypes', [Next]_vars, UNCHANGED workerVars
  PROVE  TopicTypes' /\ TraceInv' /\ EvidenceInv' /\ BatchInv'
<1>1. /\ Types /\ OrderInv /\ SentInv /\ TraceInv /\ EvidenceInv /\ BatchInv
      /\ traceTopic \in Seq(Traces) /\ evidenceTopic \in Seq(Events)
      /\ ServerTypes
  BY DEF ALInv, Types, TopicTypes
<1>2. /\ \A r : TraceStands(r) => TraceStands(r)'
      /\ \A r : ReportStands(r) => ReportStands(r)'
  <2>1. OrdersGrow
    BY <1>1, OrdersMove
  <2> QED
    BY <1>1, <2>1, StandsStay
<1>3. UNCHANGED <<pc, batch>>
  BY DEF workerVars
<1>4. \A w \in Worker : batch[w].next \in Nat /\ batch[w].last \in Nat
  BY <1>1 DEF Types, WorkerTypes
<1>5. CASE UNCHANGED topics
  <2>1. UNCHANGED <<traceTopic, evidenceTopic, Traced, Recorded>>
    BY <1>5 DEF topics, Traced, Recorded
  <2>2. \A r : MadeFrom(r) => MadeFrom(r)'
    BY <2>1, MadeFromStays
  <2>3. TraceInv' /\ EvidenceInv'
    BY <1>1, <1>2, <2>1, <2>2 DEF TraceInv, EvidenceInv
  <2>4. TopicTypes' /\ BatchInv'
    BY <1>1, <1>3, <2>1 DEF TopicTypes, BatchInv
  <2> QED
    BY <2>3, <2>4
<1>6. ASSUME NEW m \in sent, m.topic = "trace", Record(m)
      PROVE  TopicTypes' /\ TraceInv' /\ EvidenceInv' /\ BatchInv'
  <2>1. PICK r : r = m.record
    OBVIOUS
  <2>2. /\ traceTopic' = Append(traceTopic, r)
        /\ evidenceTopic' = evidenceTopic
        /\ r \in Traces /\ TraceStands(r)
    BY <1>1, <1>6, <2>1 DEF Record, ServerTypes, SentInv
  <2>3. /\ traceTopic' \in Seq(Traces)
        /\ Len(traceTopic') = Len(traceTopic) + 1
        /\ \A o \in DOMAIN traceTopic :
             o \in DOMAIN traceTopic' /\ traceTopic'[o] = traceTopic[o]
        /\ Traced' = Traced \cup {r}
    BY <1>1, <2>2, TopicGrows DEF Traced
  <2>4. TraceInv'
    BY <1>1, <1>2, <2>2, <2>3 DEF TraceInv
  <2>5. EvidenceInv'
    <3>1. \A e : MadeFrom(e) => MadeFrom(e)'
      BY <2>3, MadeFromStays
    <3>2. Recorded' = Recorded
      BY <2>2 DEF Recorded
    <3> QED
      BY <1>1, <1>2, <3>1, <3>2 DEF EvidenceInv
  <2>6. BatchInv'
    <3>1. PICK n : n = Len(traceTopic)
      OBVIOUS
    <3>2. n \in Nat
      BY <1>1, <3>1
    <3> QED
      BY <1>1, <1>3, <1>4, <2>3, <3>1, <3>2 DEF BatchInv
  <2> QED
    BY <1>1, <2>2, <2>3, <2>4, <2>5, <2>6 DEF TopicTypes
<1>7. ASSUME NEW m \in sent, m.topic # "trace", Record(m)
      PROVE  TopicTypes' /\ TraceInv' /\ EvidenceInv' /\ BatchInv'
  <2>1. PICK r : r = m.record
    OBVIOUS
  <2>2. /\ evidenceTopic' = Append(evidenceTopic, r)
        /\ traceTopic' = traceTopic
        /\ r \in ReportEvents /\ ReportStands(r)
    BY <1>1, <1>7, <2>1 DEF Record, ServerTypes, SentInv
  <2>3. /\ evidenceTopic' \in Seq(Events)
        /\ Recorded' = Recorded \cup {r}
    BY <1>1, <2>2, TopicGrows DEF Recorded, Events
  <2>4. \A e : MadeFrom(e) => MadeFrom(e)'
    BY <2>2, MadeFromStays
  <2>5. EvidenceInv'
    BY <1>1, <1>2, <2>2, <2>3, <2>4 DEF EvidenceInv
  <2>6. TraceInv'
    <3>1. Traced' = Traced
      BY <2>2 DEF Traced
    <3> QED
      BY <1>1, <1>2, <3>1 DEF TraceInv
  <2>7. BatchInv'
    BY <1>1, <1>3, <2>2 DEF BatchInv
  <2> QED
    BY <1>1, <2>2, <2>3, <2>5, <2>6, <2>7 DEF TopicTypes
<1> QED
  BY <1>5, <1>6, <1>7, ServerAppends

-----------------------------------------------------------------------------
(* What the workers read and write.                                         *)

(* The workers leave the trace topic alone.                                 *)
LEMMA WorkersOnlyRead == W!WorkerNext => traceTopic' = traceTopic
BY DEF W!WorkerNext, W!Assign, W!Evict, W!Expire, W!Notice, W!Commit,
       W!EnterPoll, W!ReturnPoll, W!FailPoll, W!Process, W!Skip, W!Emit,
       W!Drop, W!Advance, W!Crash, W!Restart

(* They write evidence only while they are in their loop.                   *)
LEMMA OnlyProcessWrites ==
  ASSUME W!WorkerNext, ~ \E w \in Worker : W!Process(w)
  PROVE  evidenceTopic' = evidenceTopic
BY DEF W!WorkerNext, W!Assign, W!Evict, W!Expire, W!Notice, W!Commit,
       W!EnterPoll, W!ReturnPoll, W!FailPoll, W!Crash, W!Restart

(* The record under the cursor of a batch is a trace of the topic.          *)
LEMMA RecordAtCursor ==
  ASSUME ALInv, NEW w \in Worker, pc[w] = "processing"
  PROVE  /\ batch[w].next \in DOMAIN traceTopic
         /\ traceTopic[batch[w].next] \in Traces
<1>1. /\ batch[w].next \in Nat /\ batch[w].last \in Nat
      /\ traceTopic \in Seq(Traces)
  BY DEF ALInv, Types, WorkerTypes, TopicTypes
<1>2. /\ batch[w].next > 0 /\ batch[w].next <= batch[w].last
      /\ batch[w].last <= Len(traceTopic)
  BY DEF ALInv, BatchInv
<1>3. PICK n, k, l : n = Len(traceTopic) /\ k = batch[w].next /\ l = batch[w].last
  OBVIOUS
<1>4. n \in Nat /\ DOMAIN traceTopic = 1..n
  BY <1>1, <1>3
<1>5. k \in 1..n
  BY <1>1, <1>2, <1>3, <1>4
<1> QED
  BY <1>1, <1>3, <1>4, <1>5

(* What the loop does with a record changes in the worker's own state.      *)
LEMMA ProcessEffects ==
  ASSUME WorkerTypes, NEW w \in Worker, W!Process(w)
  PROVE  /\ pc[w] = "processing"
         /\ pc' = [pc EXCEPT ![w] = IF batch[w].next = batch[w].last
                                    THEN "loop" ELSE "processing"]
         /\ batch' = [batch EXCEPT ![w] = [epoch |-> batch[w].epoch,
                                           next  |-> batch[w].next + 1,
                                           last  |-> batch[w].last]]
         /\ UNCHANGED <<epoch, committed, session, fetched, marked>>
<1>1. /\ pc[w] = "processing"
      /\ pc' = [pc EXCEPT ![w] = IF batch[w].next = batch[w].last
                                 THEN "loop" ELSE "processing"]
      /\ batch' = [batch EXCEPT ![w].next = @ + 1]
      /\ UNCHANGED <<epoch, committed, session, fetched, marked>>
  BY DEF W!Process, W!Skip, W!Emit, W!Drop, W!Advance, W!groupVars, W!memberVars
<1>2. [batch[w] EXCEPT !.next = batch[w].next + 1] =
        [epoch |-> batch[w].epoch, next |-> batch[w].next + 1,
         last |-> batch[w].last]
  <2>1. batch[w] \in [epoch : Nat, next : Nat, last : Nat]
    BY DEF WorkerTypes
  <2>2. PICK b, k : b = batch[w] /\ k = batch[w].next + 1
    OBVIOUS
  <2>3. [b EXCEPT !.next = k] = [epoch |-> b.epoch, next |-> k, last |-> b.last]
    BY <2>1, <2>2
  <2> QED
    BY <2>2, <2>3
<1> QED
  BY <1>1, <1>2

(* The workers' variables keep their types.                                 *)
LEMMA WorkerTypeStep == ALInv /\ W!WorkerNext => WorkerTypes'
<1> SUFFICES ASSUME ALInv, W!WorkerNext PROVE WorkerTypes'
  OBVIOUS
<1>0. WorkerTypes /\ traceTopic \in Seq(Traces)
  BY DEF ALInv, Types, TopicTypes
<1> USE DEF WorkerTypes
<1>1. ASSUME NEW w \in Worker, W!Assign(w) PROVE WorkerTypes'
  BY <1>0, <1>1 DEF W!Assign, W!loopVars
<1>2. ASSUME NEW w \in Worker, W!Evict(w) PROVE WorkerTypes'
  BY <1>0, <1>2 DEF W!Evict, W!memberVars, W!loopVars
<1>3. ASSUME NEW w \in Worker, W!Expire(w) PROVE WorkerTypes'
  BY <1>0, <1>3 DEF W!Expire, W!memberVars, W!loopVars
<1>4. ASSUME NEW w \in Worker, W!Notice(w) PROVE WorkerTypes'
  BY <1>0, <1>4 DEF W!Notice, W!groupVars, W!loopVars
<1>5. ASSUME NEW w \in Worker, W!Commit(w) PROVE WorkerTypes'
  BY <1>0, <1>5 DEF W!Commit, W!memberVars, W!loopVars
<1>6. ASSUME NEW w \in Worker, W!EnterPoll(w) PROVE WorkerTypes'
  BY <1>0, <1>6 DEF W!EnterPoll, W!groupVars
<1>7. ASSUME NEW w \in Worker, W!FailPoll(w) \/ W!Restart(w) PROVE WorkerTypes'
  BY <1>0, <1>7 DEF W!FailPoll, W!Restart, W!groupVars, W!memberVars
<1>8. ASSUME NEW w \in Worker, W!ReturnPoll(w) PROVE WorkerTypes'
  <2>1. PICK n \in (fetched[w] + 1)..Len(traceTopic) :
          /\ fetched' = [fetched EXCEPT ![w] = n]
          /\ batch' = [batch EXCEPT ![w] = [epoch |-> session[w],
                                            next  |-> fetched[w] + 1,
                                            last  |-> n]]
    BY <1>8 DEF W!ReturnPoll
  <2>2. fetched[w] \in Nat /\ session[w] \in Nat /\ n \in Nat
    BY <1>0
  <2>3. fetched' \in [Worker -> Nat]
    BY <1>0, <2>1, <2>2
  <2>4. batch' \in [Worker -> [epoch : Nat, next : Nat, last : Nat]]
    BY <1>0, <2>1, <2>2
  <2> QED
    BY <1>0, <1>8, <2>3, <2>4 DEF W!ReturnPoll, W!groupVars
<1>9. ASSUME NEW w \in Worker, W!Process(w) PROVE WorkerTypes'
  <2>1. /\ pc' = [pc EXCEPT ![w] = IF batch[w].next = batch[w].last
                                   THEN "loop" ELSE "processing"]
        /\ batch' = [batch EXCEPT ![w] = [epoch |-> batch[w].epoch,
                                          next  |-> batch[w].next + 1,
                                          last  |-> batch[w].last]]
        /\ UNCHANGED <<epoch, committed, session, fetched, marked>>
    BY <1>0, <1>9, ProcessEffects
  <2>2. [epoch |-> batch[w].epoch, next |-> batch[w].next + 1,
         last |-> batch[w].last] \in [epoch : Nat, next : Nat, last : Nat]
    BY <1>0
  <2> QED
    BY <1>0, <2>1, <2>2
<1>10. ASSUME NEW w \in Worker, W!Crash(w) PROVE WorkerTypes'
  <2>1. W!NoBatch \in [epoch : Nat, next : Nat, last : Nat]
    BY DEF W!NoBatch
  <2> QED
    BY <1>0, <1>10, <2>1, SMTT(60) DEF W!Crash, W!groupVars
<1> QED
  BY <1>1, <1>2, <1>3, <1>4, <1>5, <1>6, <1>7, <1>8, <1>9, <1>10
     DEF W!WorkerNext

(* The batches stay within the topic: a step makes a batch only of records  *)
(* that are there, and advances it within its bounds.                       *)
LEMMA BatchStep == ALInv /\ W!WorkerNext => BatchInv'
<1> SUFFICES ASSUME ALInv, W!WorkerNext PROVE BatchInv'
  OBVIOUS
<1>1. /\ WorkerTypes /\ BatchInv
      /\ traceTopic \in Seq(Traces)
      /\ traceTopic' = traceTopic
      /\ pc \in [Worker -> {"down", "loop", "polling", "processing"}]
      /\ batch \in [Worker -> [epoch : Nat, next : Nat, last : Nat]]
      /\ fetched \in [Worker -> Nat]
  BY WorkersOnlyRead DEF ALInv, Types, WorkerTypes, TopicTypes
<1>2. PICK n \in Nat : n = Len(traceTopic)
  <2>1. Len(traceTopic) \in Nat
    BY <1>1
  <2> QED
    BY <2>1
<1>3. ASSUME batch' = batch,
             \A v \in Worker : pc'[v] = "processing" => pc[v] = "processing"
      PROVE  BatchInv'
  BY <1>1, <1>3 DEF BatchInv
<1>4. ASSUME NEW w \in Worker,
             \/ W!Assign(w) \/ W!Evict(w) \/ W!Expire(w)
             \/ W!Notice(w) \/ W!Commit(w)
      PROVE  BatchInv'
  BY <1>3, <1>4
     DEF W!Assign, W!Evict, W!Expire, W!Notice, W!Commit, W!loopVars
<1>5. ASSUME NEW w \in Worker,
             W!EnterPoll(w) \/ W!FailPoll(w) \/ W!Restart(w)
      PROVE  BatchInv'
  BY <1>1, <1>3, <1>5 DEF W!EnterPoll, W!FailPoll, W!Restart
<1>6. ASSUME NEW w \in Worker, W!ReturnPoll(w) PROVE BatchInv'
  <2>1. PICK m \in (fetched[w] + 1)..n :
          batch' = [batch EXCEPT ![w] = [epoch |-> session[w],
                                         next  |-> fetched[w] + 1,
                                         last  |-> m]]
    BY <1>2, <1>6 DEF W!ReturnPoll
  <2>2. pc' = [pc EXCEPT ![w] = "processing"] /\ fetched[w] \in Nat
    BY <1>1, <1>6 DEF W!ReturnPoll
  <2>3. /\ batch'[w].next = fetched[w] + 1 /\ batch'[w].last = m
        /\ \A v \in Worker \ {w} : batch'[v] = batch[v] /\ pc'[v] = pc[v]
    BY <1>1, <2>1, <2>2
  <2>4. batch'[w].next > 0 /\ batch'[w].next <= m /\ m <= n
    BY <1>2, <2>1, <2>2, <2>3
  <2> QED
    BY <1>1, <1>2, <2>3, <2>4 DEF BatchInv
<1>7. ASSUME NEW w \in Worker, W!Process(w) PROVE BatchInv'
  <2>1. /\ pc[w] = "processing"
        /\ pc' = [pc EXCEPT ![w] = IF batch[w].next = batch[w].last
                                   THEN "loop" ELSE "processing"]
        /\ batch' = [batch EXCEPT ![w] = [epoch |-> batch[w].epoch,
                                          next  |-> batch[w].next + 1,
                                          last  |-> batch[w].last]]
    BY <1>1, <1>7, ProcessEffects
  <2>2. /\ batch'[w].next = batch[w].next + 1
        /\ batch'[w].last = batch[w].last
        /\ pc'[w] = "processing" => batch[w].next # batch[w].last
        /\ \A v \in Worker \ {w} : batch'[v] = batch[v] /\ pc'[v] = pc[v]
    BY <1>1, <2>1
  <2>3. /\ batch[w].next \in Nat /\ batch[w].last \in Nat
        /\ batch[w].next > 0 /\ batch[w].next <= batch[w].last
        /\ batch[w].last <= n
    BY <1>1, <1>2, <2>1 DEF BatchInv
  <2>4. pc'[w] = "processing" =>
          /\ batch'[w].next > 0 /\ batch'[w].next <= batch'[w].last
          /\ batch'[w].last <= n
    BY <2>2, <2>3
  <2> QED
    BY <1>1, <1>2, <2>2, <2>4 DEF BatchInv
<1>8. ASSUME NEW w \in Worker, W!Crash(w) PROVE BatchInv'
  <2>1. /\ pc'[w] = "down"
        /\ \A v \in Worker \ {w} : batch'[v] = batch[v] /\ pc'[v] = pc[v]
    BY <1>1, <1>8 DEF W!Crash
  <2> QED
    BY <1>1, <2>1 DEF BatchInv
<1> QED
  BY <1>4, <1>5, <1>6, <1>7, <1>8 DEF W!WorkerNext

(* The evidence of a trace is of its type.                                  *)
LEMMA ExecutionType ==
  ASSUME NEW t \in Traces, W!Executable(t), NEW o \in Nat, NEW e \in Nat
  PROVE  [of |-> o, epoch |-> e, body |-> W!TraceToEvidence(t)]
           \in ExecutionEvents
<1>1. t.decision \in {"allow", "deny"} /\ t.corr \in Corrs /\ t.action \in Action
  BY DEF Traces
<1>2. W!TraceToEvidence(t) \in
        [corr : Corrs, action : Action, decision : {"allow", "deny"},
         result : {"ok", "skipped"},
         evidenceType : {"action.executed", "action.skipped"}]
  BY <1>1 DEF W!TraceToEvidence
<1> QED
  BY <1>2 DEF ExecutionEvents

(* Evidence is made only of the record a worker is at; the rest stays.      *)
LEMMA EvidenceStep ==
  ASSUME ALInv, W!WorkerNext, \A r : ReportStands(r) => ReportStands(r)'
  PROVE  evidenceTopic' \in Seq(Events) /\ EvidenceInv'
<1>1. /\ WorkerTypes /\ EvidenceInv
      /\ evidenceTopic \in Seq(Events)
      /\ traceTopic' = traceTopic
  BY WorkersOnlyRead DEF ALInv, Types, TopicTypes
<1>2. \A r : MadeFrom(r) => MadeFrom(r)'
  BY <1>1, MadeFromStays
<1>3. CASE evidenceTopic' = evidenceTopic
  <2>1. Recorded' = Recorded
    BY <1>3 DEF Recorded
  <2> QED
    BY <1>1, <1>2, <1>3, <2>1 DEF EvidenceInv
<1>4. ASSUME NEW w \in Worker, W!Process(w), evidenceTopic' # evidenceTopic
      PROVE  evidenceTopic' \in Seq(Events) /\ EvidenceInv'
  <2>1. PICK o, e, r : /\ o = batch[w].next /\ e = batch[w].epoch
                       /\ r = W!EvidenceOf(o, e)
    OBVIOUS
  <2>2. W!Executable(traceTopic[o]) /\ evidenceTopic' = Append(evidenceTopic, r)
    BY <1>4, <2>1 DEF W!Process, W!Skip, W!Emit, W!Drop
  <2>3. pc[w] = "processing"
    BY <1>1, <1>4, ProcessEffects
  <2>4. /\ o \in DOMAIN traceTopic /\ traceTopic[o] \in Traces
        /\ o \in Nat /\ e \in Nat
    BY <1>1, <2>1, <2>3, RecordAtCursor DEF WorkerTypes
  <2>5. r = [of |-> o, epoch |-> e, body |-> W!TraceToEvidence(traceTopic[o])]
    BY <2>1 DEF W!EvidenceOf
  <2>6. r \in Events
    BY <2>2, <2>4, <2>5, ExecutionType DEF Events
  <2>7. MadeFrom(r)
    BY <2>2, <2>4, <2>5 DEF MadeFrom
  <2>8. evidenceTopic' \in Seq(Events) /\ Recorded' = Recorded \cup {r}
    BY <1>1, <2>2, <2>6, TopicGrows DEF Recorded
  <2> QED
    BY <1>1, <1>2, <2>7, <2>8 DEF EvidenceInv
<1> QED
  BY <1>3, <1>4, OnlyProcessWrites

-----------------------------------------------------------------------------
(* A step of the server, or none, keeps the invariant.                      *)
LEMMA ServerKeeps ==
  ASSUME ALInv, [Next]_vars, UNCHANGED workerVars
  PROVE  ALInv'
<1>1. Types /\ OrderInv /\ SentInv
  BY DEF ALInv
<1>2. ServerTypes' /\ OrderInv'
  BY <1>1, ServerTypeStep, OrderStep
<1>3. SentInv'
  BY <1>1, <1>2, SentStep
<1>4. TopicTypes' /\ TraceInv' /\ EvidenceInv' /\ BatchInv'
  BY <1>2, ServerTopicStep
<1>5. WorkerTypes'
  BY <1>1 DEF Types, WorkerTypes, workerVars
<1> QED
  BY <1>2, <1>3, <1>4, <1>5 DEF ALInv, Types

(* A step of a worker keeps the invariant.                                  *)
LEMMA WorkerKeeps == ALInv /\ WorkerStep => ALInv'
<1> SUFFICES ASSUME ALInv, WorkerStep PROVE ALInv'
  OBVIOUS
<1>1. /\ W!WorkerNext
      /\ UNCHANGED <<config, phase, args, round, outcome, told, result, sent>>
      /\ traceTopic' = traceTopic
  BY WorkersOnlyRead DEF WorkerStep, serverVars
<1>2. Types /\ OrderInv /\ SentInv /\ TraceInv /\ ServerTypes
  BY DEF ALInv, Types
<1>3. ServerTypes'
  BY <1>1, <1>2 DEF ServerTypes
<1>4. /\ \A r : TraceStands(r) => TraceStands(r)'
      /\ \A r : ReportStands(r) => ReportStands(r)'
  <2>1. \A t \in Task : round[t] <= round'[t]
    BY <1>1, <1>2 DEF ServerTypes
  <2>2. OrdersGrow
    BY <1>1, <2>1 DEF OrdersGrow
  <2> QED
    BY <1>2, <1>3, <2>2, StandsStay
<1>5. OrderInv'
  BY <1>1, <1>2 DEF OrderInv, DecidedBy, ArgumentsGiven, OrderOutcomes
<1>6. SentInv'
  BY <1>1, <1>2, <1>4 DEF SentInv
<1>7. TraceInv'
  <2>1. Traced' = Traced
    BY <1>1 DEF Traced
  <2> QED
    BY <1>2, <1>4, <2>1 DEF TraceInv
<1>8. evidenceTopic' \in Seq(Events) /\ EvidenceInv'
  BY <1>1, <1>4, EvidenceStep
<1>9. TopicTypes'
  BY <1>1, <1>2, <1>8 DEF Types, TopicTypes
<1> QED
  BY <1>1, <1>3, <1>5, <1>6, <1>7, <1>8, <1>9, WorkerTypeStep, BatchStep
     DEF ALInv, Types

(* The invariant is one.                                                    *)
THEOREM AgentInvariance == LoopSpec => []ALInv
<1>1. ALInv /\ [LoopNext]_loopVars => ALInv'
  <2> SUFFICES ASSUME ALInv, [LoopNext]_loopVars PROVE ALInv'
    OBVIOUS
  <2>1. CASE ServerStep
    BY <2>1, ServerKeeps DEF ServerStep
  <2>2. CASE WorkerStep
    BY <2>2, WorkerKeeps
  <2>3. CASE UNCHANGED loopVars
    <3>1. UNCHANGED vars /\ UNCHANGED workerVars
      BY <2>3 DEF loopVars, serverVars, vars
    <3> QED
      BY <3>1, ServerKeeps
  <2> QED
    BY <2>1, <2>2, <2>3 DEF LoopNext
<1> QED
  BY ALInit, <1>1, PTL DEF LoopSpec, LoopSafeSpec

-----------------------------------------------------------------------------
(* A trace under the order an agent holds says what was decided of it.      *)
LEMMA HeldTrace ==
  ASSUME NEW r, TraceStands(r), NEW t \in Task, r.corr = CorrelationID(t)
  PROVE  phase[t] \notin Early /\ r.decision = outcome[t].decision
<1>1. PICK s \in Task : \E k \in 1..round[s] :
        /\ r.corr = <<s, k>>
        /\ k = round[s] => /\ phase[s] \notin Early
                           /\ r.decision = outcome[s].decision
  BY DEF TraceStands
<1>2. s = t /\ r.corr = <<s, round[s]>>
  BY <1>1 DEF CorrelationID
<1> QED
  BY <1>1, <1>2

(* An agent is told what was decided of its order.                          *)
LEMMA ToldOutcome ==
  ASSUME ALInv, NEW t \in Task, told[t] # "none"
  PROVE  told[t] = outcome[t].decision
BY DEF ALInv, Types, ServerTypes, OrderInv, Phases

(* Nothing in the topics contradicts what an agent was told of the order it *)
(* holds, whenever the records got there.                                   *)
THEOREM ToldIsRecorded == LoopSpec => []ToldWhatIsRecorded
<1>1. ALInv => ToldWhatIsRecorded
  <2> SUFFICES ASSUME ALInv, NEW t \in Task, told[t] # "none"
               PROVE  /\ \A i \in DOMAIN traceTopic :
                           traceTopic[i].corr = CorrelationID(t)
                             => traceTopic[i].decision = told[t]
                      /\ \A i \in Under(CorrelationID(t)) :
                           SaysExecuted(evidenceTopic[i]) <=> told[t] = "allow"
    BY DEF ToldWhatIsRecorded
  <2>1. \A i \in DOMAIN traceTopic :
          traceTopic[i].corr = CorrelationID(t)
            => traceTopic[i].decision = told[t]
    BY HeldTrace, ToldOutcome DEF Traced, ALInv, TraceInv
  <2>2. ASSUME NEW i \in Under(CorrelationID(t))
        PROVE  SaysExecuted(evidenceTopic[i]) <=> told[t] = "allow"
    <3>1. PICK e : e = evidenceTopic[i]
      OBVIOUS
    <3>2. e \in Recorded /\ e.body.corr = CorrelationID(t)
      BY <3>1 DEF Under, Recorded
    <3>3. CASE MadeFrom(e)
      <4>1. PICK r : r = traceTopic[e.of]
        OBVIOUS
      <4>2. e.of \in DOMAIN traceTopic /\ e.body = W!TraceToEvidence(r)
        BY <3>3, <4>1 DEF MadeFrom
      <4>3. /\ e.body.corr = r.corr
            /\ e.body.evidenceType = "action.executed" <=> r.decision = "allow"
        BY <4>2 DEF W!TraceToEvidence
      <4>4. r.decision = told[t]
        BY <2>1, <3>2, <4>1, <4>2, <4>3
      <4> QED
        BY <3>1, <4>3, <4>4 DEF SaysExecuted
    <3>4. CASE e \in ReportEvents /\ ReportStands(e)
      <4>1. told[t] = "allow"
        BY <3>2, <3>4 DEF ReportStands, CorrelationID
      <4>2. e.body.evidenceType = "action.executed"
        BY <3>4 DEF ReportEvents
      <4> QED
        BY <3>1, <4>1, <4>2 DEF SaysExecuted
    <3> QED
      BY <3>2, <3>3, <3>4 DEF ALInv, EvidenceInv
  <2> QED
    BY <2>1, <2>2
<1> QED
  BY <1>1, AgentInvariance, PTL

(* What is said to be done was permitted: by the policy, and a report by    *)
(* what the agent was told of the order it still holds.                     *)
THEOREM EvidencePermitted == LoopSpec => []EvidenceIsPermitted
<1>1. ALInv => EvidenceIsPermitted
  <2> SUFFICES ASSUME ALInv, NEW i \in DOMAIN evidenceTopic,
                      SaysExecuted(evidenceTopic[i])
               PROVE  \E t \in Task :
                        LET held == evidenceTopic[i].body.corr = CorrelationID(t)
                        IN  /\ evidenceTopic[i].body.corr \in IDs(t)
                            /\ RegoAllow(OrderRequest(args[t]))
                            /\ held => phase[t] # "refused"
                            /\ IsReport(evidenceTopic[i]) =>
                                 held /\ told[t] = "allow"
    BY DEF EvidenceIsPermitted
  <2>1. PICK e : e = evidenceTopic[i]
    OBVIOUS
  <2>2. e \in Recorded /\ e.body.evidenceType = "action.executed"
    BY <2>1 DEF Recorded, SaysExecuted
  <2>3. CASE MadeFrom(e)
    <3>1. PICK r : r = traceTopic[e.of]
      OBVIOUS
    <3>2. e.of \in DOMAIN traceTopic /\ e.body = W!TraceToEvidence(r)
      BY <2>3, <3>1 DEF MadeFrom
    <3>3. e.body.corr = r.corr /\ r.decision = "allow"
      BY <2>2, <3>2 DEF W!TraceToEvidence
    <3>4. r \in Traced
      BY <3>1, <3>2 DEF Traced
    <3>5. PICK t \in Task : \E k \in 1..round[t] :
            r.corr = <<t, k>> /\ RegoAllow(OrderRequest(args[t]))
      BY <3>3, <3>4 DEF ALInv, TraceInv, TraceStands
    <3>6. e.body.corr \in IDs(t)
      BY <3>3, <3>5 DEF IDs
    <3>7. e.body.corr = CorrelationID(t) => phase[t] # "refused"
      <4>1. TraceStands(r)
        BY <3>4 DEF ALInv, TraceInv
      <4> QED
        BY <3>3, <4>1, HeldTrace DEF Early
    <3>8. e.of # 0
      <4>1. traceTopic \in Seq(Traces)
        BY DEF ALInv, Types, TopicTypes
      <4> QED
        BY <3>2, <4>1
    <3> QED
      BY <2>1, <3>5, <3>6, <3>7, <3>8 DEF IsReport
  <2>4. CASE e \in ReportEvents /\ ReportStands(e)
    <3>1. PICK t \in Task : e.body.corr = CorrelationID(t) /\ told[t] = "allow"
      BY <2>4 DEF ReportStands
    <3>2. /\ round[t] \in Nat \ {0}
          /\ phase[t] \in Phases
          /\ Types
      BY DEF ALInv, Types, ServerTypes
    <3>3. CorrelationID(t) \in IDs(t)
      BY <3>2 DEF CorrelationID, IDs
    <3>4. phase[t] \in Granted /\ outcome[t].decision = "allow" /\ DecidedBy(t)
      BY <3>1, <3>2 DEF ALInv, OrderInv, Phases, Granted, Early
    <3>5. RegoAllow(OrderRequest(args[t]))
      BY <3>2, <3>4, OrderOutcomeType DEF DecidedBy
    <3> QED
      BY <2>1, <3>1, <3>3, <3>4, <3>5 DEF Granted
  <2> QED
    BY <2>2, <2>3, <2>4 DEF ALInv, EvidenceInv
<1> QED
  BY <1>1, AgentInvariance, PTL

(* Evidence that is no report is of an order with an action and a resource. *)
LEMMA ExecutedIsComplete ==
  ASSUME ALInv, NEW t \in Task, NEW id \in IDs(t),
         NEW e \in Recorded, e.body.corr = id, e.of # 0
  PROVE  args[t].action # "" /\ args[t].resource # ""
<1>1. e \notin ReportEvents
  BY DEF ReportEvents
<1>2. MadeFrom(e)
  BY <1>1 DEF ALInv, EvidenceInv
<1>3. PICK r : r = traceTopic[e.of]
  OBVIOUS
<1>4. /\ e.of \in DOMAIN traceTopic /\ W!Executable(r)
      /\ e.body = W!TraceToEvidence(r)
  BY <1>2, <1>3 DEF MadeFrom
<1>5. r \in Traced /\ r.corr = id /\ r.complete
  <2>1. r \in Traced
    BY <1>3, <1>4 DEF Traced
  <2>2. W!TraceToEvidence(r).corr = r.corr
    BY DEF W!TraceToEvidence
  <2>3. r.complete
    BY <1>4 DEF W!Executable, W!ValidateTrace
  <2> QED
    BY <1>4, <2>1, <2>2, <2>3
<1>6. PICK s \in Task : \E k \in 1..round[s] :
        r.corr = <<s, k>> /\ args[s].action # "" /\ args[s].resource # ""
  BY <1>5 DEF ALInv, TraceInv, TraceStands
<1>7. s = t
  <2>1. PICK n : id = <<t, n>>
    BY DEF IDs
  <2>2. PICK k : r.corr = <<s, k>>
    BY <1>6
  <2>3. <<s, k>> = <<t, n>>
    BY <1>5, <2>1, <2>2
  <2> QED
    BY <2>3
<1> QED
  BY <1>6, <1>7

(* No worker leaves evidence of an order for an empty action or resource.   *)
THEOREM EmptyNotExecuted == LoopSpec => []EmptyOrdersAreNotExecuted
<1>1. ALInv => EmptyOrdersAreNotExecuted
  <2> SUFFICES ASSUME ALInv, NEW t \in Task, NEW id \in IDs(t),
                      NEW i \in Executions(id)
               PROVE  "" \notin {args[t].action, args[t].resource}
    BY DEF EmptyOrdersAreNotExecuted
  <2>1. PICK e : e = evidenceTopic[i]
    OBVIOUS
  <2>2. e \in Recorded /\ e.body.corr = id /\ e.of # 0
    BY <2>1 DEF Executions, Reports, Under, IsReport, Recorded
  <2>3. args[t].action # "" /\ args[t].resource # ""
    BY <2>2, ExecutedIsComplete
  <2> QED
    BY <2>3
<1> QED
  BY <1>1, AgentInvariance, PTL

-----------------------------------------------------------------------------
(* How often something is done or reported.                                 *)

(* No order has two traces, be they in the topic or on their way to it.     *)
OnceInv ==
  /\ \A i, j \in DOMAIN traceTopic :
       traceTopic[i].corr = traceTopic[j].corr => i = j
  /\ \A m \in sent : m.topic = "trace" =>
       /\ \A r \in Traced : r.corr # m.record.corr
       /\ \A n \in sent :
            n.topic = "trace" /\ n.record.corr = m.record.corr => m = n

(* The reports of the order a task holds, on their way, and the one call    *)
(* among those that sent them which no crash has cut short.                 *)
ReportsSent(t) ==
  {m \in sent : m.topic = "evidence" /\ m.record.body.corr = CorrelationID(t)}
Whole(t) == IF phase[t] \in {"recording", "recorded"} THEN 1 ELSE 0

(* A report in the topic or on its way is of a whole call or of a crash.    *)
CountInv ==
  /\ IsFiniteSet(sent)
  /\ crashes \in Nat
  /\ \A t \in Task :
       Cardinality(Reports(CorrelationID(t))) + Cardinality(ReportsSent(t))
         <= crashes + Whole(t)

(* Nobody acts under an assignment that was not made, and the batch of a    *)
(* worker's current assignment ends where its polls did.                    *)
MemberInv ==
  \A w \in Worker :
    /\ session[w] <= epoch
    /\ pc[w] = "processing" =>
         /\ batch[w].epoch > 0
         /\ batch[w].epoch <= epoch
         /\ batch[w].epoch = session[w] => batch[w].last = fetched[w]

(* A worker acts under assignment e: it believes it holds it, or the batch  *)
(* its loop is in was polled under it.                                      *)
ActsUnder(w, e) ==
  session[w] = e \/ (pc[w] = "processing" /\ batch[w].epoch = e)

(* An assignment has one holder, even after the holder was evicted.         *)
HolderInv ==
  \A e \in Nat \ {0} : \A w, v \in Worker :
    ActsUnder(w, e) /\ ActsUnder(v, e) => w = v

(* The cursors of w are past the evidence r, if it is of their assignment.  *)
Past(w, r) ==
  /\ session[w] = r.epoch => r.of <= fetched[w]
  /\ pc[w] = "processing" /\ batch[w].epoch = r.epoch => r.of < batch[w].next

PastInv ==
  \A r \in Recorded : ~IsReport(r) =>
    /\ r.epoch > 0
    /\ r.epoch <= epoch
    /\ \A w \in Worker : Past(w, r)

(* Under one assignment a trace leaves evidence once.                       *)
PerAssignment ==
  \A i, j \in DOMAIN evidenceTopic :
    /\ ~IsReport(evidenceTopic[i])
    /\ evidenceTopic[i].of = evidenceTopic[j].of
    /\ evidenceTopic[i].epoch = evidenceTopic[j].epoch
    => i = j

(* Every assignment but the first was paid for by a crash or an eviction.   *)
FaultInv ==
  /\ faults \in Nat
  /\ owner \in Worker \cup {NoWorker}
  /\ owner = NoWorker => epoch <= faults
  /\ \A w \in Worker : owner = w =>
       /\ epoch > 0
       /\ IF session[w] = epoch THEN epoch <= faults + 1 ELSE epoch <= faults

HoldInv == MemberInv /\ HolderInv /\ FaultInv
LeftInv == PastInv /\ PerAssignment

RepInv == OnceInv /\ CountInv /\ HoldInv /\ LeftInv

(* Nothing is recorded or on its way, and nobody holds an assignment.       *)
LEMMA RInit == LoopInit => RepInv
<1> SUFFICES ASSUME LoopInit PROVE RepInv
  OBVIOUS
<1>1. /\ sent = {} /\ crashes = 0
      /\ traceTopic = << >> /\ evidenceTopic = << >>
      /\ owner = NoWorker /\ epoch = 0 /\ faults = 0
      /\ pc = [w \in Worker |-> "loop"]
      /\ session = [w \in Worker |-> 0]
  BY DEF LoopInit, Init, W!Init
<1>2. OnceInv
  BY <1>1 DEF OnceInv
<1>3. CountInv
  <2>1. ASSUME NEW t \in Task
        PROVE  Reports(CorrelationID(t)) = {} /\ ReportsSent(t) = {}
    BY <1>1 DEF Reports, Under, ReportsSent
  <2>2. IsFiniteSet({}) /\ Cardinality({}) = 0
    BY FS_EmptySet
  <2>3. ASSUME NEW t \in Task
        PROVE  Cardinality(Reports(CorrelationID(t)))
                 + Cardinality(ReportsSent(t)) <= crashes + Whole(t)
    <3>1. /\ Cardinality(Reports(CorrelationID(t))) = 0
          /\ Cardinality(ReportsSent(t)) = 0
      BY <2>1, <2>2
    <3>2. Whole(t) \in {0, 1}
      BY DEF Whole
    <3> QED
      BY <1>1, <3>1, <3>2
  <2> QED
    BY <1>1, <2>2, <2>3 DEF CountInv
<1>4. HoldInv
  BY <1>1, NoWorkerAssumption
     DEF HoldInv, MemberInv, HolderInv, ActsUnder, FaultInv
<1>5. LeftInv
  BY <1>1 DEF LeftInv, PastInv, PerAssignment, Recorded
<1> QED
  BY <1>2, <1>3, <1>4, <1>5 DEF RepInv

-----------------------------------------------------------------------------
(* A trace is sent for an order that has none, and appended once.           *)
LEMMA OnceStep ==
  ASSUME ALInv, OnceInv, [Next]_vars
  PROVE  OnceInv'
<1>1. /\ traceTopic \in Seq(Traces)
      /\ \A r \in Traced : TraceStands(r)
      /\ \A m \in sent : m.topic = "trace" =>
           m.record \in Traces /\ TraceStands(m.record)
  BY DEF ALInv, Types, ServerTypes, TopicTypes, TraceInv, SentInv
<1>2. ASSUME traceTopic' = traceTopic,
             \A m \in sent' : m.topic = "trace" => m \in sent
      PROVE  OnceInv'
  BY <1>2 DEF OnceInv, Traced
<1>3. ASSUME NEW t \in Task, DecideOrder(t) PROVE OnceInv'
  <2>1. PICK o \in OrderOutcomes(t) :
          \/ sent' = sent
          \/ sent' = sent \cup {Message("trace", OrderTrace(t, o))}
    BY <1>3 DEF DecideOrder
  <2>2. PICK m : m = Message("trace", OrderTrace(t, o))
    OBVIOUS
  <2>3. sent' \subseteq sent \cup {m} /\ m.record.corr = CorrelationID(t)
    BY <2>1, <2>2 DEF Message, OrderTrace
  <2>4. phase[t] \in Early /\ traceTopic' = traceTopic
    BY <1>3 DEF DecideOrder, Early, topics
  <2>5. \A r \in Traced : r.corr # m.record.corr
    BY <1>1, <2>3, <2>4, HeldTrace
  <2>6. \A n \in sent : n.topic = "trace" => n.record.corr # m.record.corr
    BY <1>1, <2>3, <2>4, HeldTrace
  <2>7. Traced' = Traced
    BY <2>4 DEF Traced
  <2> QED
    BY <2>3, <2>4, <2>5, <2>6, <2>7 DEF OnceInv
<1>4. ASSUME NEW t \in Task, RecordReport(t) PROVE OnceInv'
  <2>1. Message("evidence", ReportEvidence(t)).topic # "trace"
    BY DEF Message
  <2> QED
    BY <1>2, <1>4, <2>1 DEF RecordReport, topics
<1>5. ASSUME NEW t \in Task,
             \/ Ask(t) \/ RefuseArguments(t) \/ RefuseOrder(t) \/ AnswerOrder(t)
             \/ Report(t) \/ RefuseReport(t) \/ AnswerReport(t)
      PROVE  OnceInv'
  BY <1>2, <1>5
     DEF Ask, RefuseArguments, RefuseOrder, AnswerOrder, Report, RefuseReport,
         AnswerReport, topics
<1>6. ASSUME NEW m \in sent, m.topic = "trace", BrokerAppend(m) PROVE OnceInv'
  <2>1. PICK r : r = m.record
    OBVIOUS
  <2>2. /\ traceTopic' = Append(traceTopic, r) /\ sent' = sent \ {m}
        /\ r \in Traces
    BY <1>1, <1>6, <2>1 DEF BrokerAppend, Record
  <2>3. PICK n : n = Len(traceTopic)
    OBVIOUS
  <2>4. /\ n \in Nat /\ DOMAIN traceTopic = 1..n
        /\ DOMAIN traceTopic' = 1..(n + 1)
        /\ \A i \in 1..n : traceTopic'[i] = traceTopic[i]
        /\ traceTopic'[n + 1] = r
    BY <1>1, <2>2, <2>3
  <2>5. \A i \in 1..n : traceTopic[i].corr # r.corr
    BY <1>6, <2>1, <2>4 DEF OnceInv, Traced
  <2>6. \A i, j \in 1..n : traceTopic[i].corr = traceTopic[j].corr => i = j
    BY <2>4 DEF OnceInv
  <2>7. \A i, j \in DOMAIN traceTopic' :
          traceTopic'[i].corr = traceTopic'[j].corr => i = j
    BY <2>4, <2>5, <2>6
  <2>8. Traced' = Traced \cup {r}
    BY <1>1, <2>2, TopicGrows DEF Traced
  <2> QED
    BY <1>6, <2>1, <2>2, <2>7, <2>8 DEF OnceInv
<1>7. ASSUME NEW m \in sent, m.topic # "trace", BrokerAppend(m) PROVE OnceInv'
  BY <1>2, <1>7 DEF BrokerAppend, Record
<1>8. ASSUME NEW m \in sent, BrokerLose(m) PROVE OnceInv'
  BY <1>2, <1>8 DEF BrokerLose, topics
<1>9. CASE Crash
  BY <1>2, <1>9 DEF Crash, topics
<1>10. CASE UNCHANGED vars
  BY <1>2, <1>10 DEF vars, topics
<1> QED
  BY <1>3, <1>4, <1>5, <1>6, <1>7, <1>8, <1>9, <1>10 DEF Next, Handle

-----------------------------------------------------------------------------
(* What is counted is finite.                                               *)
LEMMA Counted ==
  ASSUME ALInv, IsFiniteSet(sent), NEW t \in Task
  PROVE  /\ IsFiniteSet(Reports(CorrelationID(t)))
         /\ Cardinality(Reports(CorrelationID(t))) \in Nat
         /\ IsFiniteSet(ReportsSent(t))
         /\ Cardinality(ReportsSent(t)) \in Nat
<1>1. PICK n : n = Len(evidenceTopic)
  OBVIOUS
<1>2. n \in Nat /\ DOMAIN evidenceTopic = 1..n
  <2>1. evidenceTopic \in Seq(Events)
    BY DEF ALInv, Types, TopicTypes
  <2> QED
    BY <1>1, <2>1
<1>3. IsFiniteSet(Reports(CorrelationID(t)))
  <2>1. Reports(CorrelationID(t)) \in SUBSET (1..n)
    BY <1>2 DEF Reports, Under
  <2>2. IsFiniteSet(1..n)
    BY <1>2, FS_Interval
  <2> QED
    BY <2>1, <2>2, FS_Subset
<1>4. IsFiniteSet(ReportsSent(t))
  <2>1. ReportsSent(t) \in SUBSET sent
    BY DEF ReportsSent
  <2> QED
    BY <2>1, FS_Subset
<1> QED
  BY <1>3, <1>4, FS_CardinalityType

(* Only the order an agent holds, and was granted, has reports.             *)
LEMMA ReportsAreHeld ==
  ASSUME ALInv, NEW t \in Task, NEW k,
         told[t] = "allow" => k # round[t]
  PROVE  /\ Reports(<<t, k>>) = {}
         /\ \A m \in sent :
              m.topic = "evidence" => m.record.body.corr # <<t, k>>
<1>1. ASSUME NEW r, ReportStands(r) PROVE r.body.corr # <<t, k>>
  BY <1>1 DEF ReportStands, CorrelationID
<1>2. ASSUME NEW i \in Reports(<<t, k>>) PROVE FALSE
  <2>1. PICK r : r = evidenceTopic[i]
    OBVIOUS
  <2>2. r \in Recorded /\ r.body.corr = <<t, k>> /\ r.of = 0
    BY <2>1 DEF Reports, Under, IsReport, Recorded
  <2>3. ~MadeFrom(r)
    <3>1. traceTopic \in Seq(Traces)
      BY DEF ALInv, Types, TopicTypes
    <3>2. 0 \notin DOMAIN traceTopic
      BY <3>1
    <3> QED
      BY <2>2, <3>2 DEF MadeFrom
  <2> QED
    BY <1>1, <2>2, <2>3 DEF ALInv, EvidenceInv
<1>3. \A m \in sent : m.topic = "evidence" => m.record.body.corr # <<t, k>>
  BY <1>1 DEF ALInv, SentInv
<1> QED
  BY <1>2, <1>3

(* The count of a task does not grow when no report of it is sent.          *)
LEMMA CountStays ==
  ASSUME ALInv, CountInv, NEW t \in Task,
         Reports(CorrelationID(t))' = Reports(CorrelationID(t)),
         ReportsSent(t)' \subseteq ReportsSent(t),
         crashes' \in Nat, Whole(t)' \in Nat,
         crashes + Whole(t) <= crashes' + Whole(t)'
  PROVE  Cardinality(Reports(CorrelationID(t)))' + Cardinality(ReportsSent(t))'
           <= crashes' + Whole(t)'
<1> DEFINE a == Cardinality(Reports(CorrelationID(t)))
           b == Cardinality(ReportsSent(t))
           d == Cardinality(ReportsSent(t)')
<1>1. a \in Nat /\ b \in Nat /\ IsFiniteSet(ReportsSent(t))
  BY Counted DEF CountInv
<1>2. d <= b /\ d \in Nat
  <2>1. ReportsSent(t)' \in SUBSET ReportsSent(t)
    OBVIOUS
  <2> QED
    BY <1>1, <2>1, FS_Subset, FS_CardinalityType
<1>3. a + b <= crashes + Whole(t) /\ crashes \in Nat
  BY DEF CountInv
<1>4. Whole(t) \in Nat
  BY DEF Whole
<1>5. a + d <= crashes' + Whole(t)'
  <2> HIDE DEF a, b, d
  <2> QED
    BY <1>1, <1>2, <1>3, <1>4
<1> QED
  BY <1>5

(* Of a report that is sent the server loses track only in a crash; one     *)
(* that arrives is counted in the topic instead.                            *)
LEMMA CountStep ==
  ASSUME ALInv, CountInv, [Next]_vars
  PROVE  CountInv'
<1>1. /\ evidenceTopic \in Seq(Events)
      /\ phase \in [Task -> Phases]
      /\ IsFiniteSet(sent) /\ crashes \in Nat
  BY DEF ALInv, Types, ServerTypes, TopicTypes, CountInv
<1>2. \A t \in Task : Whole(t) \in {0, 1} /\ Whole(t)' \in {0, 1}
  BY DEF Whole
<1>3. ASSUME UNCHANGED <<evidenceTopic, round, crashes>>,
             IsFiniteSet(sent'),
             \A m \in sent' : m.topic = "evidence" => m \in sent,
             \A t \in Task : Whole(t) <= Whole(t)'
      PROVE  CountInv'
  <2>1. ASSUME NEW t \in Task
        PROVE  Cardinality(Reports(CorrelationID(t)))'
                 + Cardinality(ReportsSent(t))' <= crashes' + Whole(t)'
    <3>1. Reports(CorrelationID(t))' = Reports(CorrelationID(t))
      BY <1>3 DEF Reports, Under, IsReport, CorrelationID
    <3>2. ReportsSent(t)' \subseteq ReportsSent(t)
      BY <1>3 DEF ReportsSent, CorrelationID
    <3>3. crashes + Whole(t) <= crashes' + Whole(t)'
      BY <1>1, <1>2, <1>3
    <3>4. crashes' \in Nat /\ Whole(t)' \in Nat
      BY <1>1, <1>2, <1>3
    <3> QED
      BY <3>1, <3>2, <3>3, <3>4, CountStays
  <2> QED
    BY <1>1, <1>3, <2>1 DEF CountInv
<1>4. ASSUME NEW t \in Task,
             \/ Ask(t) \/ RefuseArguments(t) \/ RefuseOrder(t) \/ AnswerOrder(t)
             \/ Report(t) \/ RefuseReport(t) \/ AnswerReport(t)
      PROVE  CountInv'
  <2>1. /\ UNCHANGED <<evidenceTopic, round, crashes, sent>>
        /\ \A s \in Task \ {t} : phase'[s] = phase[s]
    BY <1>1, <1>4
       DEF Ask, RefuseArguments, RefuseOrder, AnswerOrder, Report,
           RefuseReport, AnswerReport, topics
  <2>2. phase[t] \in {"recording", "recorded"} => phase'[t] = "recorded"
    BY <1>1, <1>4
       DEF Ask, RefuseArguments, RefuseOrder, AnswerOrder, Report,
           RefuseReport, AnswerReport
  <2>3. \A s \in Task : Whole(s) <= Whole(s)'
    BY <2>1, <2>2 DEF Whole
  <2> QED
    BY <1>1, <1>3, <2>1, <2>3
<1>5. ASSUME NEW t \in Task, DecideOrder(t) PROVE CountInv'
  <2>1. PICK o \in OrderOutcomes(t) :
          \/ sent' = sent
          \/ sent' = sent \cup {Message("trace", OrderTrace(t, o))}
    BY <1>5 DEF DecideOrder
  <2>2. PICK m : m = Message("trace", OrderTrace(t, o))
    OBVIOUS
  <2>3. (sent' = sent \/ sent' = sent \cup {m}) /\ m.topic # "evidence"
    BY <2>1, <2>2 DEF Message
  <2>4. IsFiniteSet(sent')
    BY <1>1, <2>3, FS_AddElement
  <2>5. UNCHANGED <<evidenceTopic, round, crashes>>
    BY <1>5 DEF DecideOrder, topics
  <2>6. /\ phase[t] = "requesting"
        /\ \A s \in Task \ {t} : phase'[s] = phase[s]
    BY <1>1, <1>5 DEF DecideOrder
  <2>7. \A s \in Task : Whole(s) <= Whole(s)'
    BY <1>2, <2>6 DEF Whole
  <2> QED
    BY <1>3, <2>3, <2>4, <2>5, <2>7
<1>6. ASSUME NEW t \in Task, RecordReport(t) PROVE CountInv'
  <2>1. PICK m : m = Message("evidence", ReportEvidence(t))
    OBVIOUS
  <2>2. /\ sent' = sent \/ sent' = sent \cup {m}
        /\ UNCHANGED <<evidenceTopic, round, crashes>>
    BY <1>6, <2>1 DEF RecordReport, topics
  <2>3. m.record.body.corr = CorrelationID(t)
    BY <2>1 DEF Message, ReportEvidence
  <2>4. IsFiniteSet(sent')
    BY <1>1, <2>2, FS_AddElement
  <2>5. /\ phase[t] = "reporting" /\ phase'[t] = "recording"
        /\ \A s \in Task \ {t} : phase'[s] = phase[s]
    BY <1>1, <1>6 DEF RecordReport
  <2>6. \A s \in Task : Reports(CorrelationID(s))' = Reports(CorrelationID(s))
    BY <2>2 DEF Reports, Under, IsReport, CorrelationID
  <2>7. ASSUME NEW s \in Task, s # t
        PROVE  Cardinality(Reports(CorrelationID(s)))'
                 + Cardinality(ReportsSent(s))' <= crashes' + Whole(s)'
    <3>1. ReportsSent(s)' \subseteq ReportsSent(s)
      BY <2>2, <2>3, <2>7 DEF ReportsSent, CorrelationID
    <3>2. Whole(s)' = Whole(s) /\ Whole(s) \in Nat
      BY <1>2, <2>5, <2>7 DEF Whole
    <3>3. crashes' \in Nat /\ crashes + Whole(s) <= crashes' + Whole(s)'
      BY <1>1, <2>2, <3>2
    <3> QED
      BY <2>6, <3>1, <3>2, <3>3, CountStays
  <2>8. Cardinality(Reports(CorrelationID(t)))'
          + Cardinality(ReportsSent(t))' <= crashes' + Whole(t)'
    <3> DEFINE a == Cardinality(Reports(CorrelationID(t)))
               S == ReportsSent(t)
    <3>1. ReportsSent(t)' \in SUBSET (S \cup {m})
      BY <2>2 DEF ReportsSent, CorrelationID
    <3>2. a \in Nat /\ IsFiniteSet(S) /\ Cardinality(S) \in Nat
      BY <1>1, Counted
    <3>3. /\ IsFiniteSet(S \cup {m})
          /\ Cardinality(S \cup {m}) <= Cardinality(S) + 1
      <4> HIDE DEF S
      <4>1. /\ IsFiniteSet(S \cup {m})
            /\ \/ Cardinality(S \cup {m}) = Cardinality(S)
               \/ Cardinality(S \cup {m}) = Cardinality(S) + 1
        BY <3>2, FS_AddElement
      <4> QED
        BY <3>2, <4>1
    <3>4. /\ Cardinality(ReportsSent(t)') <= Cardinality(S \cup {m})
          /\ Cardinality(ReportsSent(t)') \in Nat
          /\ Cardinality(S \cup {m}) \in Nat
      <4> HIDE DEF S
      <4> QED
        BY <3>1, <3>3, FS_Subset, FS_CardinalityType
    <3>5. a + Cardinality(S) <= crashes + Whole(t)
      BY DEF CountInv
    <3>6. Whole(t) = 0 /\ Whole(t)' = 1
      BY <2>5 DEF Whole
    <3>7. a + Cardinality(ReportsSent(t)') <= crashes + 1
      <4> HIDE DEF a, S
      <4> QED
        BY <1>1, <3>2, <3>3, <3>4, <3>5, <3>6
    <3> QED
      BY <2>2, <2>6, <3>6, <3>7
  <2> QED
    BY <1>1, <2>2, <2>4, <2>7, <2>8 DEF CountInv
<1>7. ASSUME NEW m \in sent, m.topic = "trace", BrokerAppend(m)
      PROVE  CountInv'
  <2>1. /\ UNCHANGED <<evidenceTopic, round, crashes, phase>>
        /\ sent' = sent \ {m}
    BY <1>7 DEF BrokerAppend, Record
  <2>2. IsFiniteSet(sent')
    BY <1>1, <2>1, FS_RemoveElement
  <2>3. \A s \in Task : Whole(s) <= Whole(s)'
    BY <1>2, <2>1 DEF Whole
  <2> QED
    BY <1>3, <2>1, <2>2, <2>3
<1>8. ASSUME NEW m \in sent, BrokerLose(m) PROVE CountInv'
  <2>1. /\ UNCHANGED <<evidenceTopic, round, crashes, phase>>
        /\ sent' = sent \ {m}
    BY <1>8 DEF BrokerLose, topics
  <2>2. IsFiniteSet(sent')
    BY <1>1, <2>1, FS_RemoveElement
  <2>3. \A s \in Task : Whole(s) <= Whole(s)'
    BY <1>2, <2>1 DEF Whole
  <2> QED
    BY <1>3, <2>1, <2>2, <2>3
<1>9. ASSUME NEW m \in sent, m.topic # "trace", BrokerAppend(m)
      PROVE  CountInv'
  <2>1. PICK r : r = m.record
    OBVIOUS
  <2>2. /\ UNCHANGED <<round, crashes, phase>>
        /\ evidenceTopic' = Append(evidenceTopic, r)
        /\ sent' = sent \ {m}
    BY <1>9, <2>1 DEF BrokerAppend, Record
  <2>3. m.topic = "evidence" /\ r \in ReportEvents
    BY <1>9, <2>1 DEF ALInv, Types, ServerTypes
  <2>4. IsFiniteSet(sent')
    BY <1>1, <2>2, FS_RemoveElement
  <2>5. \A s \in Task : Whole(s)' = Whole(s)
    BY <2>2 DEF Whole
  <2>6. PICK n : n = Len(evidenceTopic)
    OBVIOUS
  <2>7. /\ n \in Nat /\ DOMAIN evidenceTopic = 1..n
        /\ DOMAIN evidenceTopic' = 1..(n + 1)
        /\ \A i \in 1..n : evidenceTopic'[i] = evidenceTopic[i]
        /\ evidenceTopic'[n + 1] = r
    <3>1. r \in Events
      BY <2>3 DEF Events
    <3> QED
      BY <1>1, <2>2, <2>6, <3>1
  <2>8. ASSUME NEW s \in Task, r.body.corr # CorrelationID(s)
        PROVE  Cardinality(Reports(CorrelationID(s)))'
                 + Cardinality(ReportsSent(s))' <= crashes' + Whole(s)'
    <3>1. CorrelationID(s)' = CorrelationID(s)
      BY <2>2 DEF CorrelationID
    <3>2. Reports(CorrelationID(s))' = Reports(CorrelationID(s))
      BY <2>7, <2>8, <3>1 DEF Reports, Under, IsReport
    <3>3. ReportsSent(s)' \subseteq ReportsSent(s)
      BY <2>2, <3>1 DEF ReportsSent
    <3>4. /\ crashes' \in Nat /\ Whole(s)' \in Nat
          /\ crashes + Whole(s) <= crashes' + Whole(s)'
      BY <1>1, <1>2, <2>2, <2>5
    <3> QED
      BY <3>2, <3>3, <3>4, CountStays
  <2>9. ASSUME NEW s \in Task, r.body.corr = CorrelationID(s)
        PROVE  Cardinality(Reports(CorrelationID(s)))'
                 + Cardinality(ReportsSent(s))' <= crashes' + Whole(s)'
    <3> DEFINE R == Reports(CorrelationID(s))
               S == ReportsSent(s)
    <3>1. CorrelationID(s)' = CorrelationID(s)
      BY <2>2 DEF CorrelationID
    <3>2. Reports(CorrelationID(s))' = R \cup {n + 1}
      <4>1. r.of = 0
        BY <2>3 DEF ReportEvents
      <4> QED
        BY <2>7, <2>9, <3>1, <4>1 DEF Reports, Under, IsReport
    <3>3. ReportsSent(s)' = S \ {m} /\ m \in S
      BY <2>1, <2>2, <2>3, <2>9, <3>1 DEF ReportsSent
    <3>4. /\ IsFiniteSet(R) /\ Cardinality(R) \in Nat
          /\ IsFiniteSet(S) /\ Cardinality(S) \in Nat
      BY <1>1, Counted
    <3>5. n + 1 \notin R
      BY <2>7 DEF Reports, Under
    <3>6. Cardinality(R \cup {n + 1}) = Cardinality(R) + 1
      <4> HIDE DEF R
      <4> QED
        BY <3>4, <3>5, FS_AddElement
    <3>7. Cardinality(S \ {m}) = Cardinality(S) - 1
      <4> HIDE DEF S
      <4> QED
        BY <3>3, <3>4, FS_RemoveElement
    <3>8. Cardinality(R) + Cardinality(S) <= crashes + Whole(s)
      BY DEF CountInv
    <3>9. Cardinality(R \cup {n + 1}) + Cardinality(S \ {m})
            <= crashes + Whole(s)
      <4> HIDE DEF R, S
      <4> QED
        BY <1>1, <1>2, <3>4, <3>6, <3>7, <3>8
    <3> QED
      BY <2>2, <2>5, <3>2, <3>3, <3>9
  <2> QED
    BY <1>1, <2>2, <2>4, <2>8, <2>9 DEF CountInv
<1>10. CASE Crash
  <2>1. /\ crashes' = crashes + 1 /\ sent' = sent /\ told' = told
        /\ evidenceTopic' = evidenceTopic
        /\ \A t \in Task :
             round'[t] = IF phase[t] \in {"requesting", "publishing"}
                         THEN round[t] + 1 ELSE round[t]
    BY <1>10 DEF Crash, topics
  <2>2. ASSUME NEW t \in Task
        PROVE  Cardinality(Reports(CorrelationID(t)))'
                 + Cardinality(ReportsSent(t))' <= crashes' + Whole(t)'
    <3>1. CASE phase[t] \in {"requesting", "publishing"}
      <4>1. told[t] # "allow"
        BY <3>1 DEF ALInv, OrderInv, Early
      <4>2. CorrelationID(t)' = <<t, round[t] + 1>>
        BY <2>1, <3>1 DEF CorrelationID
      <4>3. Reports(CorrelationID(t))' = Reports(<<t, round[t] + 1>>)
        BY <2>1, <4>2 DEF Reports, Under, IsReport
      <4>4. Reports(CorrelationID(t))' = {} /\ ReportsSent(t)' = {}
        BY <2>1, <4>1, <4>2, <4>3, ReportsAreHeld DEF ReportsSent
      <4>5. /\ Cardinality(Reports(CorrelationID(t)))' = 0
            /\ Cardinality(ReportsSent(t))' = 0
        BY <4>4, FS_EmptySet
      <4> QED
        BY <1>1, <1>2, <2>1, <4>5
    <3>2. CASE phase[t] \notin {"requesting", "publishing"}
      <4>1. CorrelationID(t)' = CorrelationID(t)
        BY <2>1, <3>2 DEF CorrelationID
      <4>2. Reports(CorrelationID(t))' = Reports(CorrelationID(t))
        BY <2>1, <4>1 DEF Reports, Under, IsReport
      <4>3. ReportsSent(t)' \subseteq ReportsSent(t)
        BY <2>1, <4>1 DEF ReportsSent
      <4>4. /\ crashes' \in Nat /\ Whole(t)' \in Nat
            /\ crashes + Whole(t) <= crashes' + Whole(t)'
        BY <1>1, <1>2, <2>1
      <4> QED
        BY <4>2, <4>3, <4>4, CountStays
    <3> QED
      BY <3>1, <3>2
  <2> QED
    BY <1>1, <2>1, <2>2 DEF CountInv
<1>11. CASE UNCHANGED vars
  <2>1. UNCHANGED <<evidenceTopic, round, crashes, sent, phase>>
    BY <1>11 DEF vars, topics
  <2>2. \A s \in Task : Whole(s) <= Whole(s)'
    BY <1>2, <2>1 DEF Whole
  <2> QED
    BY <1>1, <1>3, <2>1, <2>2
<1> QED
  BY <1>4, <1>5, <1>6, <1>7, <1>8, <1>9, <1>10, <1>11 DEF Next, Handle

-----------------------------------------------------------------------------
(* The assignments.  The workers take them as they do without agents.       *)

(* The types of what a worker and the coordinator hold.                     *)
LEMMA HeldTypes ==
  ASSUME WorkerTypes
  PROVE  /\ epoch \in Nat
         /\ pc \in [Worker -> {"down", "loop", "polling", "processing"}]
         /\ session \in [Worker -> Nat]
         /\ fetched \in [Worker -> Nat]
         /\ batch \in [Worker -> [epoch : Nat, next : Nat, last : Nat]]
         /\ \A w \in Worker : /\ session[w] \in Nat /\ fetched[w] \in Nat
                              /\ batch[w].epoch \in Nat
                              /\ batch[w].next \in Nat
                              /\ batch[w].last \in Nat
BY DEF WorkerTypes

(* What a step of a worker does to what assignments are told by.            *)
LEMMA Polled ==
  ASSUME WorkerTypes, NEW w \in Worker, W!ReturnPoll(w)
  PROVE  \E n \in Nat :
           /\ n > fetched[w]
           /\ session[w] # 0
           /\ pc' = [pc EXCEPT ![w] = "processing"]
           /\ fetched' = [fetched EXCEPT ![w] = n]
           /\ batch' = [batch EXCEPT ![w] = [epoch |-> session[w],
                                             next  |-> fetched[w] + 1,
                                             last  |-> n]]
           /\ UNCHANGED <<owner, epoch, session, faults>>
<1>1. PICK n \in (fetched[w] + 1)..Len(traceTopic) :
        /\ fetched' = [fetched EXCEPT ![w] = n]
        /\ batch' = [batch EXCEPT ![w] = [epoch |-> session[w],
                                          next  |-> fetched[w] + 1,
                                          last  |-> n]]
  BY DEF W!ReturnPoll
<1>2. n \in Nat /\ n > fetched[w]
  BY <1>1, HeldTypes
<1> QED
  BY <1>1, <1>2 DEF W!ReturnPoll, W!groupVars

(* Nothing of what v holds changes.                                         *)
Unmoved(v) ==
  /\ pc'[v] = pc[v]
  /\ batch'[v] = batch[v]
  /\ session'[v] = session[v]
  /\ fetched'[v] = fetched[v]

(* Assignments are numbered upwards, and a batch is of one that was made.   *)
LEMMA MemberStep ==
  ASSUME ALInv, MemberInv, W!WorkerNext
  PROVE  MemberInv' /\ epoch <= epoch'
<1>1. WorkerTypes
  BY DEF ALInv, Types
<1>2. /\ epoch \in Nat
      /\ pc \in [Worker -> {"down", "loop", "polling", "processing"}]
      /\ session \in [Worker -> Nat]
      /\ fetched \in [Worker -> Nat]
      /\ batch \in [Worker -> [epoch : Nat, next : Nat, last : Nat]]
      /\ \A w \in Worker : /\ session[w] \in Nat /\ fetched[w] \in Nat
                           /\ batch[w].epoch \in Nat
                           /\ batch[w].next \in Nat
                           /\ batch[w].last \in Nat
  BY <1>1, HeldTypes
<1> DEFINE Mine(v) ==
             /\ session[v] <= epoch
             /\ pc[v] = "processing" =>
                  /\ batch[v].epoch > 0
                  /\ batch[v].epoch <= epoch
                  /\ batch[v].epoch = session[v] => batch[v].last = fetched[v]
<1>3. \A v \in Worker : Mine(v)
  BY DEF MemberInv
<1>4. ASSUME NEW w \in Worker, Mine(w)', epoch' = epoch,
             \A v \in Worker \ {w} : Unmoved(v)
      PROVE  MemberInv' /\ epoch <= epoch'
  BY <1>2, <1>3, <1>4 DEF MemberInv, Unmoved
<1>5. ASSUME NEW w \in Worker, W!Assign(w) PROVE MemberInv' /\ epoch <= epoch'
  <2>1. /\ epoch' = epoch + 1
        /\ session'[w] = epoch + 1
        /\ pc' = pc /\ batch' = batch
        /\ \A v \in Worker \ {w} : session'[v] = session[v] /\ fetched'[v] = fetched[v]
    BY <1>2, <1>5 DEF W!Assign, W!loopVars
  <2>2. \A v \in Worker \ {w} : Mine(v)'
    BY <1>2, <1>3, <2>1
  <2>3. Mine(w)'
    BY <1>2, <1>3, <2>1
  <2> QED
    BY <1>2, <2>1, <2>2, <2>3 DEF MemberInv
<1>6. ASSUME NEW w \in Worker, W!Notice(w) PROVE MemberInv' /\ epoch <= epoch'
  <2>1. /\ epoch' = epoch /\ session'[w] = 0
        /\ pc' = pc /\ batch' = batch
        /\ \A v \in Worker \ {w} : Unmoved(v)
    BY <1>2, <1>6 DEF W!Notice, W!groupVars, W!loopVars, Unmoved
  <2> QED
    BY <1>2, <1>3, <1>4, <2>1
<1>7. ASSUME NEW w \in Worker, W!Crash(w) PROVE MemberInv' /\ epoch <= epoch'
  <2>1. /\ epoch' = epoch /\ session'[w] = 0 /\ pc'[w] = "down"
        /\ \A v \in Worker \ {w} : Unmoved(v)
    BY <1>2, <1>7 DEF W!Crash, W!groupVars, Unmoved
  <2> QED
    BY <1>2, <1>3, <1>4, <2>1
<1>8. ASSUME NEW w \in Worker, W!EnterPoll(w) \/ W!FailPoll(w) \/ W!Restart(w)
      PROVE  MemberInv' /\ epoch <= epoch'
  <2>1. /\ epoch' = epoch /\ session' = session /\ pc'[w] # "processing"
        /\ \A v \in Worker \ {w} : Unmoved(v)
    BY <1>2, <1>8
       DEF W!EnterPoll, W!FailPoll, W!Restart, W!groupVars, W!memberVars,
           Unmoved
  <2> QED
    BY <1>2, <1>3, <1>4, <2>1
<1>9. ASSUME NEW w \in Worker, W!ReturnPoll(w)
      PROVE  MemberInv' /\ epoch <= epoch'
  <2>1. PICK n \in Nat :
          /\ session[w] # 0
          /\ pc' = [pc EXCEPT ![w] = "processing"]
          /\ fetched' = [fetched EXCEPT ![w] = n]
          /\ batch' = [batch EXCEPT ![w] = [epoch |-> session[w],
                                            next  |-> fetched[w] + 1,
                                            last  |-> n]]
          /\ UNCHANGED <<epoch, session>>
    BY <1>1, <1>9, Polled
  <2>2. /\ batch'[w].epoch = session[w] /\ batch'[w].last = n
        /\ fetched'[w] = n
        /\ \A v \in Worker \ {w} : Unmoved(v)
    BY <1>2, <2>1 DEF Unmoved
  <2> QED
    BY <1>2, <1>3, <1>4, <2>1, <2>2
<1>10. ASSUME NEW w \in Worker, W!Process(w)
       PROVE  MemberInv' /\ epoch <= epoch'
  <2>1. /\ pc[w] = "processing"
        /\ pc' = [pc EXCEPT ![w] = IF batch[w].next = batch[w].last
                                   THEN "loop" ELSE "processing"]
        /\ batch' = [batch EXCEPT ![w] = [epoch |-> batch[w].epoch,
                                          next  |-> batch[w].next + 1,
                                          last  |-> batch[w].last]]
        /\ UNCHANGED <<epoch, session, fetched>>
    BY <1>1, <1>10, ProcessEffects
  <2>2. /\ batch'[w].epoch = batch[w].epoch /\ batch'[w].last = batch[w].last
        /\ \A v \in Worker \ {w} : Unmoved(v)
    BY <1>2, <2>1 DEF Unmoved
  <2> QED
    BY <1>2, <1>3, <1>4, <2>1, <2>2
<1>11. ASSUME NEW w \in Worker, W!Evict(w) \/ W!Expire(w) \/ W!Commit(w)
       PROVE  MemberInv' /\ epoch <= epoch'
  <2>1. UNCHANGED <<epoch, session, fetched, pc, batch>>
    BY <1>11 DEF W!Evict, W!Expire, W!Commit, W!memberVars, W!loopVars
  <2> QED
    BY <1>2, <1>3, <2>1 DEF MemberInv
<1> QED
  BY <1>5, <1>6, <1>7, <1>8, <1>9, <1>10, <1>11 DEF W!WorkerNext

(* A new assignment has a number nobody acts under; every other step only   *)
(* makes workers act under fewer of them.                                   *)
LEMMA HolderStep ==
  ASSUME ALInv, MemberInv, HolderInv, W!WorkerNext
  PROVE  HolderInv'
<1>1. /\ WorkerTypes
      /\ epoch \in Nat
      /\ pc \in [Worker -> {"down", "loop", "polling", "processing"}]
      /\ session \in [Worker -> Nat]
      /\ batch \in [Worker -> [epoch : Nat, next : Nat, last : Nat]]
  BY DEF ALInv, Types, WorkerTypes
<1>2. ASSUME \A e \in Nat \ {0}, v \in Worker : ActsUnder(v, e)' => ActsUnder(v, e)
      PROVE  HolderInv'
  BY <1>2 DEF HolderInv
<1>3. ASSUME NEW w \in Worker, W!Assign(w) PROVE HolderInv'
  <2>1. /\ session' = [session EXCEPT ![w] = epoch + 1]
        /\ pc' = pc /\ batch' = batch
    BY <1>3 DEF W!Assign, W!loopVars
  <2>2. ASSUME NEW v \in Worker, NEW e \in Nat \ {0}, ActsUnder(v, e)
        PROVE  e <= epoch
    BY <1>1, <2>2 DEF ActsUnder, MemberInv
  <2>3. ASSUME NEW v \in Worker, NEW e \in Nat \ {0}, ActsUnder(v, e)'
        PROVE  ActsUnder(v, e) \/ (v = w /\ e = epoch + 1)
    BY <1>1, <2>1, <2>3 DEF ActsUnder
  <2>4. ASSUME NEW e \in Nat \ {0}, NEW v \in Worker, NEW u \in Worker,
               ActsUnder(v, e)', ActsUnder(u, e)'
        PROVE  v = u
    <3>1. CASE e = epoch + 1
      BY <1>1, <2>2, <2>3, <2>4, <3>1
    <3>2. CASE e # epoch + 1
      BY <2>3, <2>4, <3>2 DEF HolderInv
    <3> QED
      BY <3>1, <3>2
  <2> QED
    BY <2>4 DEF HolderInv
<1>4. ASSUME NEW w \in Worker, W!Process(w) PROVE HolderInv'
  <2>1. /\ pc[w] = "processing"
        /\ pc' = [pc EXCEPT ![w] = IF batch[w].next = batch[w].last
                                   THEN "loop" ELSE "processing"]
        /\ batch' = [batch EXCEPT ![w] = [epoch |-> batch[w].epoch,
                                          next  |-> batch[w].next + 1,
                                          last  |-> batch[w].last]]
        /\ session' = session
    BY <1>1, <1>4, ProcessEffects
  <2>2. \A v \in Worker : batch'[v].epoch = batch[v].epoch
    BY <1>1, <2>1
  <2> QED
    BY <1>1, <1>2, <2>1, <2>2 DEF ActsUnder
<1>5. ASSUME NEW w \in Worker, W!ReturnPoll(w) PROVE HolderInv'
  <2>1. /\ session' = session
        /\ batch'[w].epoch = session[w]
        /\ \A v \in Worker \ {w} : batch'[v] = batch[v] /\ pc'[v] = pc[v]
    BY <1>1, <1>5, Polled
  <2> QED
    BY <1>2, <2>1 DEF ActsUnder
<1>6. ASSUME NEW w \in Worker, W!Notice(w) PROVE HolderInv'
  BY <1>1, <1>2, <1>6 DEF W!Notice, ActsUnder, W!loopVars
<1>7. ASSUME NEW w \in Worker, W!Crash(w) PROVE HolderInv'
  BY <1>1, <1>2, <1>7 DEF W!Crash, ActsUnder
<1>8. ASSUME NEW w \in Worker, W!EnterPoll(w) \/ W!FailPoll(w) \/ W!Restart(w)
      PROVE  HolderInv'
  BY <1>1, <1>2, <1>8
     DEF W!EnterPoll, W!FailPoll, W!Restart, ActsUnder, W!memberVars
<1>9. ASSUME NEW w \in Worker, W!Evict(w) \/ W!Expire(w) \/ W!Commit(w)
      PROVE  HolderInv'
  BY <1>2, <1>9
     DEF W!Evict, W!Expire, W!Commit, W!memberVars, W!loopVars, ActsUnder
<1> QED
  BY <1>3, <1>4, <1>5, <1>6, <1>7, <1>8, <1>9 DEF W!WorkerNext

(* An assignment is only made when there is no owner, and the partition     *)
(* loses its owner only to a fault.                                         *)
LEMMA FaultStep ==
  ASSUME ALInv, FaultInv, W!WorkerNext
  PROVE  FaultInv'
<1>1. /\ WorkerTypes /\ epoch \in Nat /\ faults \in Nat
      /\ session \in [Worker -> Nat]
      /\ owner \in Worker \cup {NoWorker}
  BY DEF ALInv, Types, WorkerTypes, FaultInv
<1>2. ASSUME owner' = owner, epoch' = epoch, faults' = faults,
             \A w \in Worker : owner = w => session'[w] = session[w]
      PROVE  FaultInv'
  BY <1>2 DEF FaultInv
<1>3. ASSUME NEW w \in Worker, W!Assign(w) PROVE FaultInv'
  <2>1. /\ owner = NoWorker /\ owner' = w
        /\ epoch' = epoch + 1 /\ session'[w] = epoch + 1
        /\ faults' = faults
    BY <1>1, <1>3 DEF W!Assign
  <2> QED
    BY <1>1, <2>1, NoWorkerAssumption DEF FaultInv
<1>4. ASSUME NEW w \in Worker, W!Evict(w) PROVE FaultInv'
  <2>1. /\ owner = w /\ session[w] = epoch /\ owner' = NoWorker
        /\ epoch' = epoch /\ faults' = faults + 1
    BY <1>4 DEF W!Evict
  <2> QED
    BY <1>1, <2>1, NoWorkerAssumption DEF FaultInv
<1>5. ASSUME NEW w \in Worker, W!Expire(w) PROVE FaultInv'
  <2>1. /\ owner = w /\ session[w] # epoch /\ owner' = NoWorker
        /\ epoch' = epoch /\ faults' = faults
    BY <1>5 DEF W!Expire
  <2> QED
    BY <1>1, <2>1, NoWorkerAssumption DEF FaultInv
<1>6. ASSUME NEW w \in Worker, W!Crash(w) PROVE FaultInv'
  <2>1. /\ owner' = owner /\ epoch' = epoch /\ faults' = faults + 1
        /\ session'[w] = 0
        /\ \A v \in Worker \ {w} : session'[v] = session[v]
    BY <1>1, <1>6 DEF W!Crash, W!groupVars
  <2>2. CASE owner = w
    <3>1. epoch > 0 /\ epoch <= faults + 1
      BY <1>1, <2>2 DEF FaultInv
    <3> QED
      BY <1>1, <2>1, <2>2, <3>1, NoWorkerAssumption DEF FaultInv
  <2>3. CASE owner # w
    BY <1>1, <2>1, <2>3 DEF FaultInv
  <2> QED
    BY <2>2, <2>3
<1>7. ASSUME NEW w \in Worker, W!Notice(w) PROVE FaultInv'
  BY <1>1, <1>2, <1>7 DEF W!Notice, W!groupVars
<1>8. ASSUME NEW w \in Worker, W!Commit(w) \/ W!EnterPoll(w) PROVE FaultInv'
  BY <1>2, <1>8 DEF W!Commit, W!EnterPoll, W!groupVars, W!memberVars
<1>9. ASSUME NEW w \in Worker,
              W!ReturnPoll(w) \/ W!FailPoll(w) \/ W!Restart(w)
       PROVE  FaultInv'
  BY <1>2, <1>9
     DEF W!ReturnPoll, W!FailPoll, W!Restart, W!groupVars, W!memberVars
<1>10. ASSUME NEW w \in Worker, W!Process(w) PROVE FaultInv'
  BY <1>2, <1>10
     DEF W!Process, W!Skip, W!Emit, W!Drop, W!Advance, W!groupVars,
         W!memberVars
<1> QED
  BY <1>3, <1>4, <1>5, <1>6, <1>7, <1>8, <1>9, <1>10 DEF W!WorkerNext

(* Evidence of a worker stays behind the cursors of its assignment, unless  *)
(* a step is about to leave more.                                           *)
LEMMA PastStep ==
  ASSUME ALInv, MemberInv, W!WorkerNext,
         NEW r, r.epoch \in Nat, r.of \in Nat, r.epoch > 0, r.epoch <= epoch,
         NEW v \in Worker, Past(v, r)
  PROVE  Past(v, r)'
<1>1. WorkerTypes
  BY DEF ALInv, Types
<1>2. /\ epoch \in Nat
      /\ pc \in [Worker -> {"down", "loop", "polling", "processing"}]
      /\ session \in [Worker -> Nat]
      /\ fetched \in [Worker -> Nat]
      /\ batch \in [Worker -> [epoch : Nat, next : Nat, last : Nat]]
      /\ \A w \in Worker : /\ session[w] \in Nat /\ fetched[w] \in Nat
                           /\ batch[w].next \in Nat
  BY <1>1, HeldTypes
<1>3. ASSUME Unmoved(v) PROVE Past(v, r)'
  BY <1>3 DEF Unmoved, Past
<1>4. ASSUME NEW w \in Worker, W!Assign(w) PROVE Past(v, r)'
  <2>1. CASE v # w
    BY <1>2, <1>3, <1>4, <2>1 DEF W!Assign, W!loopVars, Unmoved
  <2>2. CASE v = w
    <3>1. session'[w] = epoch + 1 /\ pc' = pc /\ batch' = batch
      BY <1>2, <1>4 DEF W!Assign, W!loopVars
    <3>2. session'[w] # r.epoch
      BY <1>2, <3>1
    <3> QED
      BY <2>2, <3>1, <3>2 DEF Past
  <2> QED
    BY <2>1, <2>2
<1>5. ASSUME NEW w \in Worker, W!ReturnPoll(w) PROVE Past(v, r)'
  <2>1. PICK n \in Nat :
          /\ n > fetched[w]
          /\ pc' = [pc EXCEPT ![w] = "processing"]
          /\ fetched' = [fetched EXCEPT ![w] = n]
          /\ batch' = [batch EXCEPT ![w] = [epoch |-> session[w],
                                            next  |-> fetched[w] + 1,
                                            last  |-> n]]
          /\ session' = session
    BY <1>1, <1>5, Polled
  <2>2. CASE v # w
    BY <1>2, <1>3, <2>1, <2>2 DEF Unmoved
  <2>3. CASE v = w
    <3>1. /\ fetched'[w] = n /\ batch'[w].epoch = session[w]
          /\ batch'[w].next = fetched[w] + 1
      BY <1>2, <2>1
    <3> QED
      BY <1>2, <2>1, <2>3, <3>1 DEF Past
  <2> QED
    BY <2>2, <2>3
<1>6. ASSUME NEW w \in Worker, W!Process(w) PROVE Past(v, r)'
  <2>1. /\ pc[w] = "processing"
        /\ pc' = [pc EXCEPT ![w] = IF batch[w].next = batch[w].last
                                   THEN "loop" ELSE "processing"]
        /\ batch' = [batch EXCEPT ![w] = [epoch |-> batch[w].epoch,
                                          next  |-> batch[w].next + 1,
                                          last  |-> batch[w].last]]
        /\ UNCHANGED <<session, fetched>>
    BY <1>1, <1>6, ProcessEffects
  <2>2. CASE v # w
    BY <1>2, <1>3, <2>1, <2>2 DEF Unmoved
  <2>3. CASE v = w
    <3>1. /\ batch'[w].epoch = batch[w].epoch
          /\ batch'[w].next = batch[w].next + 1
      BY <1>2, <2>1
    <3> QED
      BY <1>2, <2>1, <2>3, <3>1 DEF Past
  <2> QED
    BY <2>2, <2>3
<1>7. ASSUME NEW w \in Worker, W!Notice(w) PROVE Past(v, r)'
  BY <1>2, <1>7 DEF W!Notice, Past, W!loopVars
<1>8. ASSUME NEW w \in Worker, W!Crash(w) PROVE Past(v, r)'
  <2>1. CASE v # w
    BY <1>2, <1>3, <1>8, <2>1 DEF W!Crash, Unmoved
  <2>2. session'[w] = 0 /\ pc'[w] = "down"
    BY <1>2, <1>8 DEF W!Crash
  <2> QED
    BY <2>1, <2>2 DEF Past
<1>9. ASSUME NEW w \in Worker, W!EnterPoll(w) \/ W!FailPoll(w) \/ W!Restart(w)
      PROVE  Past(v, r)'
  BY <1>2, <1>9
     DEF W!EnterPoll, W!FailPoll, W!Restart, Past, W!memberVars
<1>10. ASSUME NEW w \in Worker, W!Evict(w) \/ W!Expire(w) \/ W!Commit(w)
       PROVE  Past(v, r)'
  BY <1>3, <1>10
     DEF W!Evict, W!Expire, W!Commit, Unmoved, W!memberVars, W!loopVars
<1> QED
  BY <1>4, <1>5, <1>6, <1>7, <1>8, <1>9, <1>10 DEF W!WorkerNext

(* The events of the topic number records and assignments.                  *)
LEMMA EventTypes ==
  ASSUME ALInv, NEW r \in Recorded
  PROVE  r.of \in Nat /\ r.epoch \in Nat
<1>1. r \in Events
  BY DEF ALInv, Types, TopicTypes, Recorded
<1>2. \A e \in ExecutionEvents : e.of \in Nat /\ e.epoch \in Nat
  BY DEF ExecutionEvents
<1>3. \A e \in ReportEvents : e.of = 0 /\ e.epoch = 0
  BY DEF ReportEvents
<1> QED
  BY <1>1, <1>2, <1>3 DEF Events

(* What a worker is about to leave is not in the topic yet under its        *)
(* assignment, and from then on its cursors are past it.                    *)
LEMMA LeftStep ==
  ASSUME ALInv, HoldInv, LeftInv, W!WorkerNext
  PROVE  LeftInv'
<1>1. /\ WorkerTypes /\ MemberInv /\ HolderInv
      /\ evidenceTopic \in Seq(Events)
      /\ epoch \in Nat
      /\ pc \in [Worker -> {"down", "loop", "polling", "processing"}]
      /\ session \in [Worker -> Nat]
      /\ fetched \in [Worker -> Nat]
      /\ batch \in [Worker -> [epoch : Nat, next : Nat, last : Nat]]
  BY DEF ALInv, Types, WorkerTypes, TopicTypes, HoldInv
<1>2. epoch <= epoch' /\ epoch' \in Nat
  BY <1>1, MemberStep, WorkerTypeStep DEF WorkerTypes
<1>3. ASSUME NEW r \in Recorded, ~IsReport(r)
      PROVE  /\ r.epoch > 0 /\ r.epoch <= epoch'
             /\ \A v \in Worker : Past(v, r)'
  <2>1. /\ r.epoch > 0 /\ r.epoch <= epoch
        /\ \A v \in Worker : Past(v, r)
    BY <1>3 DEF LeftInv, PastInv
  <2>2. r.epoch \in Nat /\ r.of \in Nat
    BY EventTypes
  <2> QED
    BY <1>1, <1>2, <2>1, <2>2, PastStep
<1>4. CASE evidenceTopic' = evidenceTopic
  <2>1. Recorded' = Recorded
    BY <1>4 DEF Recorded
  <2>2. PastInv'
    BY <1>3, <2>1 DEF PastInv, IsReport
  <2> QED
    BY <1>4, <2>2 DEF LeftInv, PerAssignment, IsReport
<1>5. ASSUME NEW w \in Worker, W!Process(w), evidenceTopic' # evidenceTopic
      PROVE  LeftInv'
  <2>1. PICK o, e, r : /\ o = batch[w].next /\ e = batch[w].epoch
                       /\ r = W!EvidenceOf(o, e)
    OBVIOUS
  <2>2. W!Executable(traceTopic[o]) /\ evidenceTopic' = Append(evidenceTopic, r)
    BY <1>5, <2>1 DEF W!Process, W!Skip, W!Emit, W!Drop
  <2>3. /\ pc[w] = "processing"
        /\ pc' = [pc EXCEPT ![w] = IF batch[w].next = batch[w].last
                                   THEN "loop" ELSE "processing"]
        /\ batch' = [batch EXCEPT ![w] = [epoch |-> batch[w].epoch,
                                          next  |-> batch[w].next + 1,
                                          last  |-> batch[w].last]]
        /\ UNCHANGED <<epoch, session, fetched>>
    BY <1>1, <1>5, ProcessEffects
  <2>4. /\ o \in Nat /\ e \in Nat /\ batch[w].last \in Nat /\ fetched[w] \in Nat
        /\ o > 0 /\ o <= batch[w].last /\ e > 0 /\ e <= epoch
        /\ e = session[w] => batch[w].last = fetched[w]
        /\ o \in DOMAIN traceTopic /\ traceTopic[o] \in Traces
    BY <1>1, <2>1, <2>3, HeldTypes, RecordAtCursor
       DEF MemberInv, ALInv, BatchInv
  <2>5. r = [of |-> o, epoch |-> e, body |-> W!TraceToEvidence(traceTopic[o])]
    BY <2>1 DEF W!EvidenceOf
  <2>6. r \in Events /\ r.of = o /\ r.epoch = e
    BY <2>2, <2>4, <2>5, ExecutionType DEF Events
  <2>7. /\ Recorded' = Recorded \cup {r}
    BY <1>1, <2>2, <2>6, TopicGrows DEF Recorded
  <2>8. ASSUME NEW v \in Worker PROVE Past(v, r)'
    <3>1. ActsUnder(w, e)
      BY <2>1, <2>3 DEF ActsUnder
    <3>2. \A u \in Worker : /\ batch'[u].epoch = batch[u].epoch
                            /\ pc'[u] = "processing" => pc[u] = "processing"
      BY <1>1, <2>3
    <3>3. session'[v] = e \/ (pc'[v] = "processing" /\ batch'[v].epoch = e)
            => v = w
      BY <1>1, <2>3, <2>4, <3>1, <3>2 DEF ActsUnder, HolderInv
    <3>4. batch'[w].next = o + 1
      BY <1>1, <2>1, <2>3
    <3>5. /\ session'[v] = e => o <= fetched'[v]
          /\ pc'[v] = "processing" /\ batch'[v].epoch = e => o < batch'[v].next
      BY <2>1, <2>3, <2>4, <3>3, <3>4
    <3> QED
      BY <2>6, <3>5 DEF Past
  <2>9. PastInv'
    <3>1. ASSUME NEW q \in Recorded', ~IsReport(q)
          PROVE  /\ q.epoch > 0 /\ q.epoch <= epoch'
                 /\ \A v \in Worker : Past(v, q)'
      <4>1. CASE q = r
        BY <1>1, <2>3, <2>4, <2>6, <2>8, <4>1
      <4>2. CASE q \in Recorded
        BY <1>3, <3>1, <4>2
      <4> QED
        BY <2>7, <4>1, <4>2
    <3> QED
      BY <3>1 DEF PastInv, IsReport
  <2>10. ASSUME NEW q \in Recorded, q.of = o PROVE q.epoch # e
    <3>1. ~IsReport(q)
      BY <2>4, <2>10 DEF IsReport
    <3>2. Past(w, q)
      BY <3>1 DEF LeftInv, PastInv
    <3> QED
      BY <2>1, <2>3, <2>4, <2>10, <3>2 DEF Past
  <2>11. PerAssignment'
    <3>1. PICK n : n = Len(evidenceTopic)
      OBVIOUS
    <3>2. /\ n \in Nat /\ DOMAIN evidenceTopic = 1..n
          /\ DOMAIN evidenceTopic' = 1..(n + 1)
          /\ \A i \in 1..n : evidenceTopic'[i] = evidenceTopic[i]
          /\ evidenceTopic'[n + 1] = r
      BY <1>1, <2>2, <2>6, <3>1
    <3>3. \A i \in 1..n : ~(/\ evidenceTopic[i].of = o
                            /\ evidenceTopic[i].epoch = e)
      BY <2>10, <3>2 DEF Recorded
    <3> QED
      BY <2>6, <3>2, <3>3 DEF LeftInv, PerAssignment, IsReport
  <2> QED
    BY <2>9, <2>11 DEF LeftInv
<1> QED
  BY <1>4, <1>5, OnlyProcessWrites

-----------------------------------------------------------------------------
(* A step of the server, or none, leaves the assignments alone; the report  *)
(* it may append is of none.                                                *)
LEMMA ServerRepeats ==
  ASSUME ALInv, RepInv, [Next]_vars, UNCHANGED workerVars
  PROVE  RepInv'
<1>1. OnceInv' /\ CountInv'
  BY OnceStep, CountStep DEF RepInv
<1>2. HoldInv'
  BY DEF RepInv, HoldInv, MemberInv, HolderInv, ActsUnder, FaultInv, workerVars
<1>3. \A v \in Worker : \A r : Past(v, r) => Past(v, r)'
  BY DEF Past, workerVars
<1>4. epoch' = epoch /\ evidenceTopic \in Seq(Events)
  BY DEF workerVars, ALInv, Types, TopicTypes
<1>5. CASE evidenceTopic' = evidenceTopic
  <2>1. Recorded' = Recorded
    BY <1>5 DEF Recorded
  <2>2. PastInv'
    BY <1>3, <1>4, <2>1 DEF RepInv, LeftInv, PastInv, IsReport
  <2> QED
    BY <1>1, <1>2, <1>5, <2>2 DEF RepInv, LeftInv, PerAssignment, IsReport
<1>6. ASSUME NEW m \in sent, evidenceTopic' = Append(evidenceTopic, m.record),
             m.topic # "trace"
      PROVE  LeftInv'
  <2>1. PICK r : r = m.record
    OBVIOUS
  <2>2. r \in ReportEvents
    BY <1>6, <2>1 DEF ALInv, Types, ServerTypes
  <2>3. r \in Events /\ r.of = 0
    BY <2>2 DEF Events, ReportEvents
  <2>4. Recorded' = Recorded \cup {r}
    BY <1>4, <1>6, <2>1, <2>3, TopicGrows DEF Recorded
  <2>5. PastInv'
    BY <1>3, <1>4, <2>3, <2>4 DEF RepInv, LeftInv, PastInv, IsReport
  <2>6. PICK n : n = Len(evidenceTopic)
    OBVIOUS
  <2>7. /\ n \in Nat /\ DOMAIN evidenceTopic = 1..n
        /\ DOMAIN evidenceTopic' = 1..(n + 1)
        /\ \A i \in 1..n : evidenceTopic'[i] = evidenceTopic[i]
        /\ evidenceTopic'[n + 1] = r
    BY <1>4, <1>6, <2>1, <2>3, <2>6
  <2>8. PerAssignment'
    BY <2>3, <2>7 DEF RepInv, LeftInv, PerAssignment, IsReport
  <2> QED
    BY <2>5, <2>8 DEF LeftInv
<1> QED
  BY <1>1, <1>2, <1>5, <1>6, ServerAppends DEF RepInv, Record, topics

(* A step of a worker leaves what is sent and what is counted alone.        *)
LEMMA WorkerRepeats ==
  ASSUME ALInv, RepInv, WorkerStep
  PROVE  RepInv'
<1>1. /\ W!WorkerNext /\ traceTopic' = traceTopic
      /\ UNCHANGED <<phase, round, sent, crashes>>
      /\ evidenceTopic \in Seq(Events)
  BY WorkersOnlyRead DEF WorkerStep, serverVars, ALInv, Types, TopicTypes
<1>2. HoldInv' /\ LeftInv'
  BY <1>1, MemberStep, HolderStep, FaultStep, LeftStep DEF RepInv, HoldInv
<1>3. OnceInv'
  BY <1>1 DEF RepInv, OnceInv, Traced
<1>4. \A t \in Task : Reports(CorrelationID(t))' = Reports(CorrelationID(t))
  <2>1. CASE evidenceTopic' = evidenceTopic
    BY <1>1, <2>1 DEF Reports, Under, IsReport, CorrelationID
  <2>2. ASSUME NEW w \in Worker, W!Process(w), evidenceTopic' # evidenceTopic
        PROVE  \A t \in Task :
                 Reports(CorrelationID(t))' = Reports(CorrelationID(t))
    <3>1. PICK o, e, r : /\ o = batch[w].next /\ e = batch[w].epoch
                         /\ r = W!EvidenceOf(o, e)
      OBVIOUS
    <3>2. W!Executable(traceTopic[o]) /\ evidenceTopic' = Append(evidenceTopic, r)
      BY <2>2, <3>1 DEF W!Process, W!Skip, W!Emit, W!Drop
    <3>3. WorkerTypes /\ pc[w] = "processing"
      BY <2>2, ProcessEffects DEF ALInv, Types
    <3>4. /\ o \in Nat /\ e \in Nat /\ o > 0
          /\ traceTopic[o] \in Traces
      BY <3>1, <3>3, HeldTypes, RecordAtCursor DEF ALInv, BatchInv
    <3>5. r = [of |-> o, epoch |-> e, body |-> W!TraceToEvidence(traceTopic[o])]
      BY <3>1 DEF W!EvidenceOf
    <3>6. r \in Events /\ r.of # 0
      BY <3>2, <3>4, <3>5, ExecutionType DEF Events
    <3>7. PICK n : n = Len(evidenceTopic)
      OBVIOUS
    <3>8. /\ n \in Nat /\ DOMAIN evidenceTopic = 1..n
          /\ DOMAIN evidenceTopic' = 1..(n + 1)
          /\ \A i \in 1..n : evidenceTopic'[i] = evidenceTopic[i]
          /\ evidenceTopic'[n + 1] = r
      BY <1>1, <3>2, <3>6, <3>7
    <3> QED
      BY <1>1, <3>6, <3>8 DEF Reports, Under, IsReport, CorrelationID
  <2> QED
    BY <1>1, <2>1, <2>2, OnlyProcessWrites
<1>5. CountInv'
  BY <1>1, <1>4 DEF RepInv, CountInv, ReportsSent, Whole, CorrelationID
<1> QED
  BY <1>2, <1>3, <1>5 DEF RepInv

(* What is counted stays within what was paid, as an invariant of the loop. *)
LEMMA RepeatInvariance == LoopSpec => []RepInv
<1>1. ALInv /\ RepInv /\ [LoopNext]_loopVars => RepInv'
  <2> SUFFICES ASSUME ALInv, RepInv, [LoopNext]_loopVars PROVE RepInv'
    OBVIOUS
  <2>1. CASE ServerStep
    BY <2>1, ServerRepeats DEF ServerStep
  <2>2. CASE WorkerStep
    BY <2>2, WorkerRepeats
  <2>3. CASE UNCHANGED loopVars
    <3>1. UNCHANGED vars /\ UNCHANGED workerVars
      BY <2>3 DEF loopVars, serverVars, vars
    <3> QED
      BY <3>1, ServerRepeats
  <2> QED
    BY <2>1, <2>2, <2>3 DEF LoopNext
<1> QED
  BY RInit, <1>1, AgentInvariance, PTL DEF LoopSpec, LoopSafeSpec

(* The executions under an id are all of its one trace, so they are told    *)
(* apart by the assignment they were left under.                            *)
LEMMA ExecutionsBounded ==
  ASSUME ALInv, RepInv, NEW id
  PROVE  Cardinality(Executions(id)) <= faults + 1
<1> DEFINE S == Executions(id)
           f == [i \in S |-> evidenceTopic[i].epoch]
<1>1. /\ epoch \in Nat /\ faults \in Nat
      /\ epoch <= faults + 1
  BY DEF ALInv, Types, WorkerTypes, RepInv, HoldInv, FaultInv
<1>2. ASSUME NEW i \in S
      PROVE  /\ i \in DOMAIN evidenceTopic
             /\ evidenceTopic[i] \in Recorded
             /\ ~IsReport(evidenceTopic[i])
             /\ evidenceTopic[i].of \in DOMAIN traceTopic
             /\ traceTopic[evidenceTopic[i].of].corr = id
  <2>1. PICK e : e = evidenceTopic[i]
    OBVIOUS
  <2>2. /\ i \in DOMAIN evidenceTopic /\ e \in Recorded
        /\ ~IsReport(e) /\ e.body.corr = id
    BY <2>1 DEF Executions, Reports, Under, Recorded
  <2>3. e \notin ReportEvents
    BY <2>2 DEF ReportEvents, IsReport
  <2>4. MadeFrom(e)
    BY <2>2, <2>3 DEF ALInv, EvidenceInv
  <2>5. PICK r : r = traceTopic[e.of]
    OBVIOUS
  <2>6. e.of \in DOMAIN traceTopic /\ r.corr = id
    BY <2>2, <2>4, <2>5 DEF MadeFrom, W!TraceToEvidence
  <2> QED
    BY <2>1, <2>2, <2>5, <2>6
<1>3. f \in [S -> 1..epoch]
  <2>1. ASSUME NEW i \in S PROVE evidenceTopic[i].epoch \in 1..epoch
    <3>1. PICK e : e = evidenceTopic[i]
      OBVIOUS
    <3>2. e \in Recorded /\ ~IsReport(e)
      BY <1>2, <3>1
    <3>3. e.epoch > 0 /\ e.epoch <= epoch /\ e.epoch \in Nat
      BY <3>2, EventTypes DEF RepInv, LeftInv, PastInv
    <3> QED
      BY <1>1, <3>1, <3>3
  <2> QED
    BY <2>1
<1>4. ASSUME NEW i \in S, NEW j \in S, f[i] = f[j] PROVE i = j
  <2>1. evidenceTopic[i].epoch = evidenceTopic[j].epoch
    BY <1>4
  <2>2. evidenceTopic[i].of = evidenceTopic[j].of
    BY <1>2 DEF RepInv, OnceInv
  <2> QED
    BY <1>2, <2>1, <2>2 DEF RepInv, LeftInv, PerAssignment
<1>5. IsFiniteSet(1..epoch) /\ Cardinality(1..epoch) = epoch
  BY <1>1, FS_Interval
<1>6. IsFiniteSet(S) /\ Cardinality(S) <= epoch
  <2>1. f \in Injection(S, 1..epoch)
    BY <1>3, <1>4, Fun_IsInj
  <2> HIDE DEF f, S
  <2> QED
    BY <1>5, <2>1, FS_Injection
<1>7. Cardinality(S) \in Nat
  BY <1>6, FS_CardinalityType
<1>8. Cardinality(S) <= faults + 1
  <2> HIDE DEF S
  <2> QED
    BY <1>1, <1>6, <1>7
<1> QED
  BY <1>8

(* What is done or reported twice under one order is paid for by faults of  *)
(* workers or crashes of the server, for any number of them, and no order   *)
(* has two traces.                                                          *)
THEOREM RepeatsArePaidFor == LoopSpec => []RepeatsNeedFaults
<1>1. ALInv /\ RepInv => RepeatsNeedFaults
  <2> SUFFICES ASSUME ALInv, RepInv, NEW t \in Task, NEW id \in IDs(t)
               PROVE  /\ Cardinality({i \in DOMAIN traceTopic :
                                        traceTopic[i].corr = id}) <= 1
                      /\ Cardinality(Executions(id)) <= faults + 1
                      /\ Cardinality(Reports(id)) <= crashes + 1
    BY DEF RepeatsNeedFaults
  <2>1. Cardinality({i \in DOMAIN traceTopic : traceTopic[i].corr = id}) <= 1
    <3> DEFINE T == {i \in DOMAIN traceTopic : traceTopic[i].corr = id}
    <3>1. \A i, j \in T : i = j
      BY DEF RepInv, OnceInv
    <3>2. T = {} \/ \E i : T = {i}
      BY <3>1
    <3> HIDE DEF T
    <3>3. Cardinality(T) \in {0, 1}
      BY <3>2, FS_EmptySet, FS_Singleton
    <3>4. Cardinality(T) <= 1
      BY <3>3
    <3> QED
      BY <3>4 DEF T
  <2>2. Cardinality(Executions(id)) <= faults + 1
    BY ExecutionsBounded
  <2>3. Cardinality(Reports(id)) <= crashes + 1
    <3>1. crashes \in Nat
      BY DEF RepInv, CountInv
    <3>2. PICK k : id = <<t, k>>
      BY DEF IDs
    <3>3. CASE told[t] = "allow" /\ k = round[t]
      <4>1. id = CorrelationID(t)
        BY <3>2, <3>3 DEF CorrelationID
      <4>2. /\ Cardinality(Reports(id)) \in Nat
            /\ Cardinality(ReportsSent(t)) \in Nat
        BY <4>1, Counted DEF RepInv, CountInv
      <4>3. Cardinality(Reports(id)) + Cardinality(ReportsSent(t))
              <= crashes + Whole(t)
        BY <4>1 DEF RepInv, CountInv
      <4>4. Whole(t) \in {0, 1}
        BY DEF Whole
      <4> QED
        BY <3>1, <4>2, <4>3, <4>4
    <3>4. CASE told[t] = "allow" => k # round[t]
      <4>1. Cardinality(Reports(id)) = 0
        BY <3>2, <3>4, ReportsAreHeld, FS_EmptySet
      <4> QED
        BY <3>1, <4>1
    <3> QED
      BY <3>3, <3>4
  <2> QED
    BY <2>1, <2>2, <2>3
<1> QED
  BY <1>1, AgentInvariance, RepeatInvariance, PTL

-----------------------------------------------------------------------------
(* What was attempted, and by whom the topics grow.                         *)

(* Records 1..n have been through the loop of some worker.                  *)
Done(n) == \A k \in 1..n : k \in attempted

(* What the cursors of w stand for: a poll returned only what is done, or   *)
(* what the batch of the same assignment is about to do.                    *)
Behind(w) ==
  /\ Done(marked[w])
  /\ pc[w] = "processing" => Done(batch[w].next - 1)
  /\ Done(fetched[w]) \/ (pc[w] = "processing" /\ batch[w].epoch = session[w])

(* The attempted records are a prefix of the topic, and nothing is          *)
(* committed, or would be, that was not attempted.                          *)
DoneInv ==
  /\ \E n \in 0..Len(traceTopic) : attempted = 1..n
  /\ Done(committed)
  /\ \A w \in Worker : Behind(w)

(* Crashes and evictions are bounded, and orders are repeated for crashes.  *)
BoundInv ==
  /\ crashes <= MaxCrashes
  /\ faults <= MaxFaults
  /\ \A t \in Task : round[t] <= crashes + 1

(* Nothing was done yet.                                                    *)
LEMMA DInit == LoopInit => DoneInv /\ BoundInv
<1> SUFFICES ASSUME LoopInit PROVE DoneInv /\ BoundInv
  OBVIOUS
<1>1. /\ traceTopic = << >> /\ attempted = {} /\ committed = 0
      /\ pc = [w \in Worker |-> "loop"]
      /\ fetched = [w \in Worker |-> 0]
      /\ marked = [w \in Worker |-> 0]
      /\ crashes = 0 /\ faults = 0 /\ round = [t \in Task |-> 1]
  BY DEF LoopInit, Init, W!Init
<1>2. DoneInv
  <2>1. Len(traceTopic) = 0 /\ attempted = 1..0
    BY <1>1
  <2>2. Done(0)
    BY DEF Done
  <2> QED
    BY <1>1, <2>1, <2>2 DEF DoneInv, Behind
<1>3. BoundInv
  BY <1>1, OrdersAssumption DEF BoundInv
<1> QED
  BY <1>2, <1>3

(* Every crash and eviction is within the bounds, and an order is asked for *)
(* again only after a crash.                                                *)
LEMMA BoundStep ==
  ASSUME ALInv, RepInv, BoundInv, [LoopNext]_loopVars
  PROVE  BoundInv'
<1>1. /\ crashes \in Nat /\ faults \in Nat
      /\ round \in [Task -> Nat \ {0}]
      /\ MaxCrashes \in Nat /\ MaxFaults \in Nat
  BY OrdersAssumption
     DEF ALInv, Types, ServerTypes, RepInv, CountInv, HoldInv, FaultInv
<1>2. CASE ServerStep
  <2>1. faults' = faults
    BY <1>2 DEF ServerStep, workerVars
  <2>2. CASE Crash
    <3>1. /\ crashes < MaxCrashes /\ crashes' = crashes + 1
          /\ \A t \in Task : round'[t] \in {round[t], round[t] + 1}
      BY <1>1, <2>2 DEF Crash
    <3> QED
      BY <1>1, <2>1, <3>1 DEF BoundInv
  <2>3. CASE UNCHANGED <<crashes, round>>
    BY <2>1, <2>3 DEF BoundInv
  <2>4. Crash \/ UNCHANGED <<crashes, round>>
    BY <1>2
       DEF ServerStep, Next, Ask, Report, Handle, RefuseArguments, RefuseOrder,
           DecideOrder, AnswerOrder, RefuseReport, RecordReport, AnswerReport,
           BrokerAppend, BrokerLose
  <2> QED
    BY <2>2, <2>3, <2>4
<1>3. CASE WorkerStep
  <2>1. UNCHANGED <<crashes, round>> /\ W!WorkerNext
    BY <1>3 DEF WorkerStep, serverVars
  <2>2. \/ faults' = faults
        \/ faults < MaxFaults /\ faults' = faults + 1
    BY <2>1
       DEF W!WorkerNext, W!Assign, W!Evict, W!Expire, W!Notice, W!Commit,
           W!EnterPoll, W!ReturnPoll, W!FailPoll, W!Process, W!Skip, W!Emit,
           W!Drop, W!Advance, W!Crash, W!Restart
  <2> QED
    BY <1>1, <2>1, <2>2 DEF BoundInv
<1>4. CASE UNCHANGED loopVars
  BY <1>4 DEF loopVars, serverVars, workerVars, BoundInv
<1> QED
  BY <1>2, <1>3, <1>4 DEF LoopNext

(* What is done stays done, and with it what the cursors stand for, of a    *)
(* worker that does not move.                                               *)
LEMMA BehindStays ==
  ASSUME attempted \subseteq attempted', NEW v \in Worker, Behind(v),
         Unmoved(v), marked'[v] = marked[v]
  PROVE  Behind(v)'
BY DEF Behind, Done, Unmoved

(* A worker in its loop is at a record whose predecessors are all done, so  *)
(* it repeats one or attempts the next.                                     *)
LEMMA ProcessAttempts ==
  ASSUME ALInv, DoneInv, NEW w \in Worker, W!Process(w),
         NEW n \in Nat, attempted = 1..n
  PROVE  /\ batch[w].next \in 1..Len(traceTopic)
         /\ batch[w].next <= n + 1
         /\ attempted' = 1..(IF batch[w].next > n THEN batch[w].next ELSE n)
         /\ Done(batch[w].next - 1)
<1>1. PICK o : o = batch[w].next
  OBVIOUS
<1>2. /\ WorkerTypes /\ BatchInv /\ traceTopic \in Seq(Traces)
      /\ pc[w] = "processing"
  BY ProcessEffects DEF ALInv, Types, TopicTypes
<1>3. attempted' = attempted \cup {o}
  BY <1>1 DEF W!Process, W!Skip, W!Emit, W!Drop, W!Advance
<1>4. o \in 1..Len(traceTopic) /\ o \in Nat /\ o > 0
  <2>1. /\ o \in Nat /\ o > 0
        /\ batch[w].last \in Nat /\ o <= batch[w].last
        /\ batch[w].last <= Len(traceTopic)
    BY <1>1, <1>2, HeldTypes DEF BatchInv
  <2>2. Len(traceTopic) \in Nat
    BY <1>2
  <2> QED
    BY <2>1, <2>2
<1>5. Done(o - 1)
  BY <1>1, <1>2 DEF DoneInv, Behind
<1>6. o <= n + 1
  <2>1. CASE o - 1 > n
    <3>1. o - 1 \in attempted
      BY <1>4, <1>5, <2>1 DEF Done
    <3> QED
      BY <1>4, <2>1, <3>1
  <2> QED
    BY <1>4, <2>1
<1>7. attempted' = 1..(IF o > n THEN o ELSE n)
  BY <1>3, <1>4, <1>6
<1> QED
  BY <1>1, <1>4, <1>5, <1>6, <1>7

(* A worker in its loop attempts the next record after what is done; when   *)
(* the batch ends everything its assignment fetched is done.  Commits and   *)
(* new assignments only copy what is done.                                  *)
LEMMA DoneStep ==
  ASSUME ALInv, MemberInv, DoneInv, W!WorkerNext
  PROVE  DoneInv'
<1>1. /\ WorkerTypes /\ BatchInv
      /\ traceTopic \in Seq(Traces) /\ traceTopic' = traceTopic
  BY WorkersOnlyRead DEF ALInv, Types, TopicTypes
<1>2. /\ committed \in Nat
      /\ pc \in [Worker -> {"down", "loop", "polling", "processing"}]
      /\ session \in [Worker -> Nat]
      /\ fetched \in [Worker -> Nat]
      /\ marked \in [Worker -> Nat]
      /\ batch \in [Worker -> [epoch : Nat, next : Nat, last : Nat]]
      /\ \A w \in Worker : /\ session[w] \in Nat /\ fetched[w] \in Nat
                           /\ batch[w].epoch \in Nat
                           /\ batch[w].next \in Nat
                           /\ batch[w].last \in Nat
  BY <1>1, HeldTypes DEF WorkerTypes
<1>3. PICK n \in 0..Len(traceTopic) : attempted = 1..n
  BY DEF DoneInv
<1>4. n \in Nat /\ Len(traceTopic) \in Nat /\ n <= Len(traceTopic)
  BY <1>1, <1>3
<1>5. Done(committed) /\ \A v \in Worker : Behind(v)
  BY DEF DoneInv
<1>6. Done(0)
  BY DEF Done
<1>7. ASSUME NEW w \in Worker, Behind(w)', attempted' = attempted,
             Done(committed)',
             \A v \in Worker \ {w} : Unmoved(v) /\ marked'[v] = marked[v]
      PROVE  DoneInv'
  <2>1. \A v \in Worker : Behind(v)'
    BY <1>5, <1>7, BehindStays
  <2> QED
    BY <1>1, <1>3, <1>7, <2>1 DEF DoneInv
<1>8. ASSUME NEW w \in Worker, W!Assign(w) PROVE DoneInv'
  <2>1. /\ fetched'[w] = committed /\ marked'[w] = committed
        /\ pc' = pc /\ batch' = batch
        /\ attempted' = attempted /\ committed' = committed
        /\ \A v \in Worker \ {w} : Unmoved(v) /\ marked'[v] = marked[v]
    BY <1>2, <1>8 DEF W!Assign, W!loopVars, Unmoved
  <2> QED
    BY <1>5, <1>7, <2>1 DEF Behind, Done
<1>9. ASSUME NEW w \in Worker, W!Notice(w) \/ W!Crash(w) PROVE DoneInv'
  <2>1. /\ fetched'[w] = 0 /\ marked'[w] = 0
        /\ pc'[w] = "processing" => pc[w] = "processing" /\ batch'[w] = batch[w]
        /\ attempted' = attempted /\ committed' = committed
        /\ \A v \in Worker \ {w} : Unmoved(v) /\ marked'[v] = marked[v]
    BY <1>2, <1>9 DEF W!Notice, W!Crash, W!groupVars, W!loopVars, Unmoved
  <2> QED
    BY <1>5, <1>6, <1>7, <2>1 DEF Behind, Done
<1>10. ASSUME NEW w \in Worker, W!EnterPoll(w) PROVE DoneInv'
  <2>1. /\ pc[w] # "processing" /\ pc'[w] = "polling"
        /\ marked'[w] = fetched[w] /\ fetched' = fetched
        /\ attempted' = attempted /\ committed' = committed
        /\ \A v \in Worker \ {w} : Unmoved(v) /\ marked'[v] = marked[v]
    BY <1>2, <1>10 DEF W!EnterPoll, W!groupVars, Unmoved
  <2> QED
    BY <1>5, <1>7, <2>1 DEF Behind, Done
<1>11. ASSUME NEW w \in Worker, W!FailPoll(w) \/ W!Restart(w) PROVE DoneInv'
  <2>1. /\ pc[w] # "processing" /\ pc'[w] # "processing"
        /\ marked' = marked /\ fetched' = fetched
        /\ attempted' = attempted /\ committed' = committed
        /\ \A v \in Worker \ {w} : Unmoved(v) /\ marked'[v] = marked[v]
    BY <1>2, <1>11
       DEF W!FailPoll, W!Restart, W!groupVars, W!memberVars, Unmoved
  <2> QED
    BY <1>5, <1>7, <2>1 DEF Behind, Done
<1>12. ASSUME NEW w \in Worker, W!ReturnPoll(w) PROVE DoneInv'
  <2>1. PICK m \in Nat :
          /\ pc' = [pc EXCEPT ![w] = "processing"]
          /\ fetched' = [fetched EXCEPT ![w] = m]
          /\ batch' = [batch EXCEPT ![w] = [epoch |-> session[w],
                                            next  |-> fetched[w] + 1,
                                            last  |-> m]]
          /\ session' = session
    BY <1>1, <1>12, Polled
  <2>2. /\ pc[w] = "polling" /\ marked' = marked
        /\ attempted' = attempted /\ committed' = committed
    BY <1>12 DEF W!ReturnPoll, W!groupVars
  <2>3. /\ pc'[w] = "processing"
        /\ batch'[w].epoch = session'[w]
        /\ batch'[w].next = fetched[w] + 1
        /\ \A v \in Worker \ {w} : Unmoved(v) /\ marked'[v] = marked[v]
    BY <1>2, <2>1, <2>2 DEF Unmoved
  <2>4. batch'[w].next - 1 = fetched[w]
    BY <1>2, <2>3
  <2> QED
    BY <1>5, <1>7, <2>2, <2>3, <2>4 DEF Behind, Done
<1>13. ASSUME NEW w \in Worker, W!Commit(w) PROVE DoneInv'
  <2>1. /\ committed' = marked[w] /\ attempted' = attempted
        /\ UNCHANGED <<pc, batch, session, fetched, marked>>
    BY <1>13 DEF W!Commit, W!memberVars, W!loopVars
  <2> QED
    BY <1>5, <1>7, <2>1 DEF Behind, Done, Unmoved
<1>14. ASSUME NEW w \in Worker, W!Evict(w) \/ W!Expire(w) PROVE DoneInv'
  <2>1. UNCHANGED <<attempted, committed, pc, batch, session, fetched, marked>>
    BY <1>14 DEF W!Evict, W!Expire, W!memberVars, W!loopVars
  <2> QED
    BY <1>5, <1>7, <2>1 DEF Behind, Done, Unmoved
<1>15. ASSUME NEW w \in Worker, W!Process(w) PROVE DoneInv'
  <2>1. PICK o : o = batch[w].next
    OBVIOUS
  <2>2. /\ pc[w] = "processing"
        /\ pc' = [pc EXCEPT ![w] = IF o = batch[w].last
                                   THEN "loop" ELSE "processing"]
        /\ batch' = [batch EXCEPT ![w] = [epoch |-> batch[w].epoch,
                                          next  |-> o + 1,
                                          last  |-> batch[w].last]]
        /\ UNCHANGED <<committed, session, fetched, marked>>
    BY <1>1, <1>15, <2>1, ProcessEffects
  <2>3. PICK m : m = IF o > n THEN o ELSE n
    OBVIOUS
  <2>4. /\ o \in 1..Len(traceTopic) /\ o <= n + 1
        /\ attempted' = 1..m
    BY <1>3, <1>4, <1>15, <2>1, <2>3, ProcessAttempts
  <2>5. o \in Nat /\ m \in 0..Len(traceTopic) /\ n <= m /\ o <= m
    BY <1>4, <2>3, <2>4
  <2>6. \A k \in 1..o : k \in attempted'
    BY <2>4, <2>5
  <2>7. \A v \in Worker \ {w} : Behind(v)'
    <3>1. \A v \in Worker \ {w} : Unmoved(v) /\ marked'[v] = marked[v]
      BY <1>2, <2>2 DEF Unmoved
    <3> QED
      BY <1>3, <1>4, <1>5, <2>4, <2>5, <3>1, BehindStays
  <2>8. Behind(w)'
    <3>1. /\ batch'[w].epoch = batch[w].epoch /\ batch'[w].next = o + 1
          /\ pc'[w] = "processing" \/ o = batch[w].last
      BY <1>2, <2>2
    <3>2. batch'[w].next - 1 = o
      BY <2>5, <3>1
    <3>3. Done(marked[w])' /\ (Done(fetched[w]) => Done(fetched[w])')
      BY <1>3, <1>4, <1>5, <2>2, <2>4, <2>5 DEF Behind, Done
    <3>4. CASE Done(fetched[w])
      BY <2>2, <2>6, <3>2, <3>3, <3>4 DEF Behind, Done
    <3>5. CASE batch[w].epoch = session[w]
      <4>1. batch[w].last = fetched[w]
        BY <2>2, <3>5 DEF MemberInv
      <4> QED
        BY <2>2, <2>6, <3>1, <3>2, <3>3, <3>5, <4>1 DEF Behind, Done
    <3> QED
      BY <1>5, <3>4, <3>5 DEF Behind
  <2>9. Done(committed)'
    BY <1>3, <1>4, <1>5, <2>2, <2>4, <2>5 DEF Done
  <2> QED
    BY <1>1, <2>4, <2>5, <2>7, <2>8, <2>9 DEF DoneInv
<1> QED
  BY <1>8, <1>9, <1>10, <1>11, <1>12, <1>13, <1>14, <1>15 DEF W!WorkerNext

(* The server never takes a record back, and does nothing to the workers.   *)
LEMMA ServerDone ==
  ASSUME ALInv, DoneInv, [Next]_vars, UNCHANGED workerVars
  PROVE  DoneInv'
<1>1. /\ traceTopic \in Seq(Traces)
      /\ \A m \in sent : m.topic = "trace" => m.record \in Traces
  BY DEF ALInv, Types, TopicTypes, ServerTypes
<1>2. Len(traceTopic) \in Nat /\ Len(traceTopic') \in Nat
      /\ Len(traceTopic) <= Len(traceTopic')
  <2>1. CASE traceTopic' = traceTopic
    BY <1>1, <2>1
  <2>2. ASSUME NEW r \in Traces, traceTopic' = Append(traceTopic, r)
        PROVE  /\ Len(traceTopic) \in Nat /\ Len(traceTopic') \in Nat
               /\ Len(traceTopic) <= Len(traceTopic')
    BY <1>1, <2>2
  <2> QED
    BY <1>1, <2>1, <2>2, ServerAppends DEF Record, topics
<1> QED
  BY <1>2 DEF DoneInv, Behind, Done, workerVars

(* These are invariants of the loop, too.                                   *)
LEMMA DoneInvariance == LoopSpec => [](DoneInv /\ BoundInv)
<1> DEFINE Inv == ALInv /\ RepInv
<1>1. Inv /\ DoneInv /\ BoundInv /\ [LoopNext]_loopVars
        => DoneInv' /\ BoundInv'
  <2> SUFFICES ASSUME ALInv, RepInv, DoneInv, BoundInv, [LoopNext]_loopVars
               PROVE  DoneInv' /\ BoundInv'
    OBVIOUS
  <2>1. BoundInv'
    BY BoundStep
  <2>2. CASE ServerStep
    BY <2>1, <2>2, ServerDone DEF ServerStep
  <2>3. CASE WorkerStep
    BY <2>1, <2>3, DoneStep DEF WorkerStep, RepInv, HoldInv
  <2>4. CASE UNCHANGED loopVars
    <3>1. UNCHANGED vars /\ UNCHANGED workerVars
      BY <2>4 DEF loopVars, serverVars, vars
    <3> QED
      BY <2>1, <3>1, ServerDone
  <2> QED
    BY <2>2, <2>3, <2>4 DEF LoopNext
<1> QED
  BY DInit, <1>1, AgentInvariance, RepeatInvariance, PTL
     DEF LoopSpec, LoopSafeSpec

(* What Worker promises of the cursors holds beside agents, too, who write  *)
(* to the same topics and repeat their orders: nothing is committed that no *)
(* worker attempted, and no crash or eviction opens a gap.                  *)
THEOREM NothingIsSkipped ==
  LoopSpec => [](W!CommittedWereAttempted /\ W!AttemptedInOrder)
<1>1. ALInv /\ DoneInv => W!CommittedWereAttempted /\ W!AttemptedInOrder
  <2> SUFFICES ASSUME ALInv, DoneInv
               PROVE  W!CommittedWereAttempted /\ W!AttemptedInOrder
    OBVIOUS
  <2>1. W!CommittedWereAttempted
    BY DEF DoneInv, Done, W!CommittedWereAttempted
  <2>2. PICK n \in 0..Len(traceTopic) : attempted = 1..n
    BY DEF DoneInv
  <2>3. n \in Nat
    <3>1. traceTopic \in Seq(Traces)
      BY DEF ALInv, Types, TopicTypes
    <3> QED
      BY <2>2, <3>1
  <2>4. W!AttemptedInOrder
    BY <2>2, <2>3 DEF W!AttemptedInOrder
  <2> QED
    BY <2>1, <2>4
<1> QED
  BY <1>1, AgentInvariance, DoneInvariance, PTL

-----------------------------------------------------------------------------
(* How long the topics get.                                                 *)

(* The correlation ids there can ever be.                                   *)
AllIDs == Task \X (1..(MaxCrashes + 1))

(* The orders that were asked for have their ids among them.                *)
LEMMA RoundIDs ==
  ASSUME ALInv, RepInv, BoundInv, NEW t \in Task, NEW k \in 1..round[t]
  PROVE  <<t, k>> \in AllIDs
<1>1. crashes \in Nat /\ round[t] \in Nat /\ MaxCrashes \in Nat
  BY OrdersAssumption DEF RepInv, CountInv, ALInv, Types, ServerTypes
<1>2. k \in 1..(MaxCrashes + 1)
  BY <1>1 DEF BoundInv
<1> QED
  BY <1>2 DEF AllIDs

(* Every trace is under one of these ids.                                   *)
LEMMA TracedIDs ==
  ASSUME ALInv, RepInv, BoundInv, NEW r \in Traced
  PROVE  r.corr \in AllIDs
<1>1. PICK t \in Task : \E k \in 1..round[t] : r.corr = <<t, k>>
  BY DEF ALInv, TraceInv, TraceStands
<1> QED
  BY <1>1, RoundIDs

(* Evidence is of a trace, which it has its id from, or of an order that is *)
(* held.                                                                    *)
LEMMA LeftFor ==
  ASSUME ALInv, NEW r \in Recorded
  PROVE  IF IsReport(r)
         THEN \E t \in Task : r.body.corr = CorrelationID(t)
         ELSE /\ r.of \in DOMAIN traceTopic
              /\ r.body.corr = traceTopic[r.of].corr
<1>1. CASE MadeFrom(r)
  <2>1. 0 \notin DOMAIN traceTopic
    <3>1. traceTopic \in Seq(Traces)
      BY DEF ALInv, Types, TopicTypes
    <3> QED
      BY <3>1
  <2>2. ~IsReport(r)
    BY <1>1, <2>1 DEF MadeFrom, IsReport
  <2>3. PICK s : s = traceTopic[r.of]
    OBVIOUS
  <2>4. r.body.corr = s.corr
    BY <1>1, <2>3 DEF MadeFrom, W!TraceToEvidence
  <2> QED
    BY <1>1, <2>2, <2>3, <2>4 DEF MadeFrom
<1>2. CASE r \in ReportEvents /\ ReportStands(r)
  <2>1. IsReport(r)
    BY <1>2 DEF ReportEvents, IsReport
  <2> QED
    BY <1>2, <2>1 DEF ReportStands
<1> QED
  BY <1>1, <1>2 DEF ALInv, EvidenceInv

(* All evidence is under one of these ids, too.                             *)
LEMMA RecordedIDs ==
  ASSUME ALInv, RepInv, BoundInv, NEW r \in Recorded
  PROVE  r.body.corr \in AllIDs
<1>1. CASE IsReport(r)
  <2>1. PICK t \in Task : r.body.corr = CorrelationID(t)
    BY <1>1, LeftFor
  <2>2. round[t] \in 1..round[t]
    <3>1. round[t] \in Nat \ {0}
      BY DEF ALInv, Types, ServerTypes
    <3> QED
      BY <3>1
  <2> QED
    BY <2>1, <2>2, RoundIDs DEF CorrelationID
<1>2. CASE ~IsReport(r)
  <2>1. PICK s : s = traceTopic[r.of]
    OBVIOUS
  <2>2. s \in Traced /\ r.body.corr = s.corr
    BY <1>2, <2>1, LeftFor DEF Traced
  <2> QED
    BY <2>2, TracedIDs
<1> QED
  BY <1>1, <1>2

(* A topic whose records are told apart by the elements of a finite set is  *)
(* no longer than that.                                                     *)
LEMMA LengthBound ==
  ASSUME NEW X, NEW s \in Seq(X), NEW S, IsFiniteSet(S),
         NEW f \in [DOMAIN s -> S], \A i, j \in DOMAIN s : f[i] = f[j] => i = j
  PROVE  Len(s) \in Nat /\ Len(s) <= Cardinality(S)
<1>1. PICK n : n = Len(s)
  OBVIOUS
<1>2. n \in Nat /\ DOMAIN s = 1..n
  BY <1>1
<1>3. f \in Injection(1..n, S)
  BY <1>2, Fun_IsInj
<1>4. Cardinality(1..n) <= Cardinality(S)
  BY <1>3, FS_Injection
<1>5. Cardinality(1..n) = n
  BY <1>2, FS_Interval
<1> QED
  BY <1>1, <1>2, <1>4, <1>5

(* Every order finds room for its trace.                                    *)
LEMMA TracesFit ==
  ASSUME ALInv, RepInv, BoundInv
  PROVE  Len(traceTopic) <= MaxTraces
<1>1. traceTopic \in Seq(Traces)
  BY DEF ALInv, Types, TopicTypes
<1> DEFINE f == [i \in DOMAIN traceTopic |-> traceTopic[i].corr]
<1>2. f \in [DOMAIN traceTopic -> AllIDs]
  <2>1. ASSUME NEW i \in DOMAIN traceTopic PROVE traceTopic[i].corr \in AllIDs
    <3>1. PICK r : r = traceTopic[i]
      OBVIOUS
    <3>2. r \in Traced
      BY <3>1 DEF Traced
    <3> QED
      BY <3>1, <3>2, TracedIDs
  <2> QED
    BY <2>1
<1>3. \A i, j \in DOMAIN traceTopic : f[i] = f[j] => i = j
  BY DEF RepInv, OnceInv
<1>4. /\ IsFiniteSet(AllIDs)
      /\ Cardinality(AllIDs) = Cardinality(Task) * (MaxCrashes + 1)
  <2>1. IsFiniteSet(1..(MaxCrashes + 1)) /\ Cardinality(1..(MaxCrashes + 1)) = MaxCrashes + 1
    BY OrdersAssumption, FS_Interval
  <2> QED
    BY <2>1, OrdersAssumption, FS_Product DEF AllIDs
<1>5. Len(traceTopic) \in Nat /\ Len(traceTopic) <= Cardinality(AllIDs)
  <2> HIDE DEF f
  <2> QED
    BY <1>1, <1>2, <1>3, <1>4, LengthBound
<1>6. Cardinality(AllIDs) \in Nat
  BY <1>4, FS_CardinalityType
<1>7. PICK n, m : n = Len(traceTopic) /\ m = Cardinality(AllIDs)
  OBVIOUS
<1>8. m <= MaxTraces
  BY <1>4, <1>7, OrdersAssumption
<1> QED
  BY <1>5, <1>6, <1>7, <1>8, OrdersAssumption

(* The reports under an id can be numbered up to the number of crashes.     *)
LEMMA ReportsNumbered ==
  ASSUME ALInv, RepInv, BoundInv, NEW t \in Task
  PROVE  Injection(Reports(CorrelationID(t)), 1..(MaxCrashes + 1)) # {}
<1> DEFINE S == Reports(CorrelationID(t))
<1>1. PICK c : c = Cardinality(S)
  OBVIOUS
<1>2. IsFiniteSet(S) /\ c \in Nat /\ Cardinality(ReportsSent(t)) \in Nat
  BY <1>1, Counted DEF RepInv, CountInv
<1>3. c <= MaxCrashes + 1
  <2>1. c + Cardinality(ReportsSent(t)) <= crashes + Whole(t)
    BY <1>1 DEF RepInv, CountInv
  <2>2. Whole(t) \in {0, 1} /\ crashes \in Nat /\ crashes <= MaxCrashes
    BY DEF Whole, RepInv, CountInv, BoundInv
  <2> QED
    BY <1>2, <2>1, <2>2, OrdersAssumption
<1> HIDE DEF S
<1>4. PICK b : b \in Bijection(S, 1..c)
  <2>1. ExistsBijection(S, 1..c)
    BY <1>1, <1>2, FS_CardinalityType, Fun_ExistsBijSymmetric
  <2> QED
    BY <2>1 DEF ExistsBijection
<1>5. b \in [S -> 1..c] /\ \A i, j \in S : b[i] = b[j] => i = j
  BY <1>4 DEF Bijection, Injection, IsInjective
<1>6. 1..c \subseteq 1..(MaxCrashes + 1)
  BY <1>2, <1>3, OrdersAssumption
<1>7. b \in [S -> 1..(MaxCrashes + 1)]
  BY <1>5, <1>6
<1>8. b \in Injection(S, 1..(MaxCrashes + 1))
  BY <1>5, <1>7, Fun_IsInj
<1> QED
  BY <1>8 DEF S

(* What tells a record of the evidence topic apart: a report by its number  *)
(* among those of the task, other evidence by its trace's id and the        *)
(* assignment it was left under.                                            *)
Number(t) ==
  CHOOSE f \in Injection(Reports(CorrelationID(t)), 1..(MaxCrashes + 1)) : TRUE
Key(i) ==
  LET e == evidenceTopic[i]
      t == e.body.corr[1]
  IN  IF IsReport(e) THEN <<<<t, Number(t)[i]>>, MaxFaults + 2>>
      ELSE <<e.body.corr, e.epoch>>
AllKeys == AllIDs \X (1..(MaxFaults + 2))

(* Equal pairs have equal parts.                                            *)
LEMMA PairParts ==
  ASSUME NEW a, NEW b, NEW c, NEW d, <<a, b>> = <<c, d>>
  PROVE  a = c /\ b = d
OBVIOUS

(* The key of a report.                                                     *)
LEMMA ReportKey ==
  ASSUME ALInv, RepInv, BoundInv,
         NEW i \in DOMAIN evidenceTopic, IsReport(evidenceTopic[i])
  PROVE  \E t \in Task :
           /\ i \in Reports(CorrelationID(t))
           /\ Number(t)[i] \in 1..(MaxCrashes + 1)
           /\ Key(i) = <<<<t, Number(t)[i]>>, MaxFaults + 2>>
<1>1. PICK e : e = evidenceTopic[i]
  OBVIOUS
<1>2. e \in Recorded /\ IsReport(e)
  BY <1>1 DEF Recorded
<1>3. PICK t \in Task : e.body.corr = CorrelationID(t)
  BY <1>2, LeftFor
<1>4. i \in Reports(CorrelationID(t))
  BY <1>1, <1>2, <1>3 DEF Reports, Under
<1>5. e.body.corr[1] = t
  BY <1>3 DEF CorrelationID
<1>6. Key(i) = <<<<t, Number(t)[i]>>, MaxFaults + 2>>
  BY <1>1, <1>2, <1>5 DEF Key
<1>7. Number(t) \in Injection(Reports(CorrelationID(t)), 1..(MaxCrashes + 1))
  BY ReportsNumbered DEF Number
<1>8. Number(t) \in [Reports(CorrelationID(t)) -> 1..(MaxCrashes + 1)]
  BY <1>7 DEF Injection
<1> QED
  BY <1>4, <1>6, <1>8

(* The key of other evidence.                                               *)
LEMMA ExecutionKey ==
  ASSUME ALInv, RepInv, BoundInv,
         NEW i \in DOMAIN evidenceTopic, ~IsReport(evidenceTopic[i])
  PROVE  /\ Key(i) = <<evidenceTopic[i].body.corr, evidenceTopic[i].epoch>>
         /\ evidenceTopic[i].body.corr \in AllIDs
         /\ evidenceTopic[i].epoch \in 1..(MaxFaults + 1)
         /\ evidenceTopic[i].of \in DOMAIN traceTopic
         /\ evidenceTopic[i].body.corr = traceTopic[evidenceTopic[i].of].corr
<1>1. PICK e : e = evidenceTopic[i]
  OBVIOUS
<1>2. e \in Recorded /\ ~IsReport(e)
  BY <1>1 DEF Recorded
<1>3. Key(i) = <<e.body.corr, e.epoch>>
  BY <1>1, <1>2 DEF Key
<1>4. e.epoch \in 1..(MaxFaults + 1)
  <2>1. epoch \in Nat /\ faults \in Nat /\ epoch <= faults + 1
    BY DEF ALInv, Types, WorkerTypes, RepInv, HoldInv, FaultInv
  <2>2. e.epoch \in Nat /\ e.epoch > 0 /\ e.epoch <= epoch
    BY <1>2, EventTypes DEF RepInv, LeftInv, PastInv
  <2>3. faults <= MaxFaults /\ MaxFaults \in Nat
    BY OrdersAssumption DEF BoundInv
  <2> QED
    BY <2>1, <2>2, <2>3
<1>5. e.body.corr \in AllIDs
  BY <1>2, RecordedIDs
<1>6. e.of \in DOMAIN traceTopic /\ e.body.corr = traceTopic[e.of].corr
  BY <1>2, LeftFor
<1> QED
  BY <1>1, <1>3, <1>4, <1>5, <1>6

(* No two records have the same key.                                        *)
LEMMA KeysDiffer ==
  ASSUME ALInv, RepInv, BoundInv,
         NEW i \in DOMAIN evidenceTopic, NEW j \in DOMAIN evidenceTopic,
         Key(i) = Key(j)
  PROVE  i = j
<1>0. MaxFaults \in Nat
  BY OrdersAssumption
<1>1. CASE IsReport(evidenceTopic[i]) /\ IsReport(evidenceTopic[j])
  <2>1. PICK t \in Task :
          /\ i \in Reports(CorrelationID(t))
          /\ Key(i) = <<<<t, Number(t)[i]>>, MaxFaults + 2>>
    BY <1>1, ReportKey
  <2>2. PICK s \in Task :
          /\ j \in Reports(CorrelationID(s))
          /\ Key(j) = <<<<s, Number(s)[j]>>, MaxFaults + 2>>
    BY <1>1, ReportKey
  <2>3. <<t, Number(t)[i]>> = <<s, Number(s)[j]>>
    <3>1. <<<<t, Number(t)[i]>>, MaxFaults + 2>> = <<<<s, Number(s)[j]>>, MaxFaults + 2>>
      BY <2>1, <2>2
    <3> QED
      BY <3>1, PairParts, Zenon
  <2>4. s = t /\ Number(t)[i] = Number(t)[j]
    BY <2>3, PairParts, Zenon
  <2>5. Number(t) \in Injection(Reports(CorrelationID(t)), 1..(MaxCrashes + 1))
    BY ReportsNumbered DEF Number
  <2> QED
    BY <2>1, <2>2, <2>4, <2>5 DEF Injection, IsInjective
<1>2. CASE ~IsReport(evidenceTopic[i]) /\ ~IsReport(evidenceTopic[j])
  <2>1. PICK d, e : d = evidenceTopic[i] /\ e = evidenceTopic[j]
    OBVIOUS
  <2>2. /\ Key(i) = <<d.body.corr, d.epoch>> /\ Key(j) = <<e.body.corr, e.epoch>>
        /\ d.of \in DOMAIN traceTopic /\ e.of \in DOMAIN traceTopic
        /\ d.body.corr = traceTopic[d.of].corr
        /\ e.body.corr = traceTopic[e.of].corr
    BY <1>2, <2>1, ExecutionKey
  <2>3. d.body.corr = e.body.corr /\ d.epoch = e.epoch
    <3>1. <<d.body.corr, d.epoch>> = <<e.body.corr, e.epoch>>
      BY <2>2
    <3> QED
      BY <3>1, PairParts, Zenon
  <2>4. d.of = e.of
    BY <2>2, <2>3 DEF RepInv, OnceInv
  <2> QED
    BY <1>2, <2>1, <2>3, <2>4 DEF RepInv, LeftInv, PerAssignment
<1>3. ASSUME NEW k \in DOMAIN evidenceTopic, NEW l \in DOMAIN evidenceTopic,
             IsReport(evidenceTopic[k]), ~IsReport(evidenceTopic[l])
      PROVE  Key(k) # Key(l)
  <2>1. \E x : Key(k) = <<x, MaxFaults + 2>>
    BY <1>3, ReportKey
  <2>2. PICK e : e = evidenceTopic[l].epoch
    OBVIOUS
  <2>3. e \in 1..(MaxFaults + 1) /\ \E x : Key(l) = <<x, e>>
    BY <1>3, <2>2, ExecutionKey
  <2>4. e # MaxFaults + 2
    BY <1>0, <2>3
  <2> QED
    BY <2>1, <2>3, <2>4
<1> QED
  BY <1>1, <1>2, <1>3

(* The evidence topic never gets longer than AuditPacket lets it.           *)
LEMMA EvidenceFits ==
  ASSUME ALInv, RepInv, BoundInv
  PROVE  Len(evidenceTopic)
           <= Cardinality(Task) * (MaxCrashes + 1) * (MaxFaults + 2)
<1>0. MaxFaults \in Nat /\ MaxCrashes \in Nat /\ IsFiniteSet(Task)
  BY OrdersAssumption
<1>1. evidenceTopic \in Seq(Events)
  BY DEF ALInv, Types, TopicTypes
<1> DEFINE f == [i \in DOMAIN evidenceTopic |-> Key(i)]
<1>2. f \in [DOMAIN evidenceTopic -> AllKeys]
  <2>1. ASSUME NEW i \in DOMAIN evidenceTopic PROVE Key(i) \in AllKeys
    <3>1. CASE IsReport(evidenceTopic[i])
      <4>1. MaxFaults + 2 \in 1..(MaxFaults + 2)
        BY <1>0
      <4> QED
        BY <3>1, <4>1, ReportKey DEF AllKeys, AllIDs
    <3>2. CASE ~IsReport(evidenceTopic[i])
      <4>1. 1..(MaxFaults + 1) \subseteq 1..(MaxFaults + 2)
        BY <1>0
      <4> QED
        BY <3>2, <4>1, ExecutionKey DEF AllKeys
    <3> QED
      BY <3>1, <3>2
  <2> QED
    BY <2>1
<1>3. \A i, j \in DOMAIN evidenceTopic : f[i] = f[j] => i = j
  BY KeysDiffer
<1>4. /\ IsFiniteSet(AllKeys)
      /\ Cardinality(AllKeys)
           = Cardinality(Task) * (MaxCrashes + 1) * (MaxFaults + 2)
  <2>1. IsFiniteSet(1..(MaxCrashes + 1)) /\ Cardinality(1..(MaxCrashes + 1)) = MaxCrashes + 1
    BY <1>0, FS_Interval
  <2>2. IsFiniteSet(1..(MaxFaults + 2)) /\ Cardinality(1..(MaxFaults + 2)) = MaxFaults + 2
    BY <1>0, FS_Interval
  <2>3. IsFiniteSet(AllIDs) /\ Cardinality(AllIDs) = Cardinality(Task) * (MaxCrashes + 1)
    BY <1>0, <2>1, FS_Product DEF AllIDs
  <2> QED
    BY <2>2, <2>3, FS_Product DEF AllKeys
<1>5. Len(evidenceTopic) <= Cardinality(AllKeys)
  <2> HIDE DEF f
  <2> QED
    BY <1>1, <1>2, <1>3, <1>4, LengthBound
<1> QED
  BY <1>4, <1>5

-----------------------------------------------------------------------------
(* The topics as the export of an audit packet sees them.                   *)

(* Both topics are about its correlation ids and stay within its bounds.    *)
FitInv ==
  /\ \A r \in Traced : r.corr \in AllIDs
  /\ \A r \in Recorded : r.body.corr \in AllIDs
  /\ Len(traceTopic) <= MaxTraces
  /\ Len(evidenceTopic)
       <= Cardinality(Task) * (MaxCrashes + 1) * (MaxFaults + 2)

(* However often orders are repeated and assignments change hands.          *)
LEMMA TopicsFit == LoopSpec => []FitInv
<1>1. ALInv /\ RepInv /\ BoundInv => FitInv
  BY TracedIDs, RecordedIDs, TracesFit, EvidenceFits DEF FitInv
<1> QED
  BY <1>1, AgentInvariance, RepeatInvariance, DoneInvariance, PTL

(* What the export reads of the topics.                                     *)
TracesSeen ==
  [i \in DOMAIN traceTopic |->
     [corr |-> traceTopic[i].corr, policy |-> 1, valid |-> TRUE]]
EvidenceSeen ==
  [i \in DOMAIN evidenceTopic |->
     [corr |-> evidenceTopic[i].body.corr, of |-> evidenceTopic[i].of,
      valid |-> TRUE]]
Seen == <<TracesSeen, EvidenceSeen, Cardinality(attempted)>>

(* A topic read record by record grows as the topic does.                   *)
LEMMA SeenGrows ==
  ASSUME NEW X, NEW n \in Nat, NEW F \in [1..n -> X],
         NEW m, m = n + 1, NEW G \in [1..m -> X], NEW x \in X,
         \A i \in 1..n : G[i] = F[i], G[m] = x
  PROVE  Len(F) = n /\ G = Append(F, x)
<1>1. F \in Seq(X) /\ Len(F) = n
  OBVIOUS
<1>2. G \in Seq(X) /\ Len(G) = n + 1
  OBVIOUS
<1> QED
  BY <1>1, <1>2

(* A trace is appended.                                                     *)
LEMMA TraceSeenGrows ==
  ASSUME NEW r \in Traces, traceTopic \in Seq(Traces),
         traceTopic' = Append(traceTopic, r)
  PROVE  /\ Len(TracesSeen) \in Nat
         /\ Len(traceTopic') = Len(TracesSeen) + 1
         /\ TracesSeen' = Append(TracesSeen, [corr   |-> r.corr,
                                             policy |-> 1, valid |-> TRUE])
<1>1. PICK n : n = Len(traceTopic)
  OBVIOUS
<1>2. /\ n \in Nat /\ DOMAIN traceTopic = 1..n
      /\ Len(traceTopic') = n + 1 /\ DOMAIN traceTopic' = 1..(n + 1)
      /\ \A i \in 1..n : traceTopic'[i] = traceTopic[i]
      /\ traceTopic'[n + 1] = r
  BY <1>1
<1>3. PICK F, G, x, m : /\ F = TracesSeen /\ G = TracesSeen'
                        /\ x = [corr |-> r.corr, policy |-> 1, valid |-> TRUE]
                        /\ m = n + 1
  OBVIOUS
<1>4. m \in 1..m /\ 1..n \subseteq 1..m
  BY <1>2, <1>3
<1>5. /\ F = [i \in 1..n |-> F[i]] /\ G = [i \in 1..m |-> G[i]]
      /\ \A i \in 1..n : G[i] = F[i]
      /\ G[m] = x
  BY <1>2, <1>3, <1>4 DEF TracesSeen
<1>6. PICK X : X = {G[i] : i \in 1..m}
  OBVIOUS
<1>7. /\ F \in [1..n -> X] /\ G \in [1..m -> X] /\ x \in X
      /\ \A i \in 1..n : G[i] = F[i]
      /\ G[m] = x
  BY <1>4, <1>5, <1>6
<1>8. Len(F) = n /\ G = Append(F, x)
  BY <1>2, <1>3, <1>7, SeenGrows
<1> QED
  BY <1>2, <1>3, <1>8

(* Evidence is appended.                                                    *)
LEMMA EvidenceSeenGrows ==
  ASSUME NEW r \in Events, evidenceTopic \in Seq(Events),
         evidenceTopic' = Append(evidenceTopic, r)
  PROVE  /\ Len(EvidenceSeen) \in Nat
         /\ Len(evidenceTopic') = Len(EvidenceSeen) + 1
         /\ EvidenceSeen' = Append(EvidenceSeen, [corr |-> r.body.corr,
                                                 of |-> r.of, valid |-> TRUE])
<1>1. PICK n : n = Len(evidenceTopic)
  OBVIOUS
<1>2. /\ n \in Nat /\ DOMAIN evidenceTopic = 1..n
      /\ Len(evidenceTopic') = n + 1 /\ DOMAIN evidenceTopic' = 1..(n + 1)
      /\ \A i \in 1..n : evidenceTopic'[i] = evidenceTopic[i]
      /\ evidenceTopic'[n + 1] = r
  BY <1>1
<1>3. PICK F, G, x, m : /\ F = EvidenceSeen /\ G = EvidenceSeen'
                        /\ x = [corr |-> r.body.corr, of |-> r.of, valid |-> TRUE]
                        /\ m = n + 1
  OBVIOUS
<1>4. m \in 1..m /\ 1..n \subseteq 1..m
  BY <1>2, <1>3
<1>5. /\ F = [i \in 1..n |-> F[i]] /\ G = [i \in 1..m |-> G[i]]
      /\ \A i \in 1..n : G[i] = F[i]
      /\ G[m] = x
  BY <1>2, <1>3, <1>4 DEF EvidenceSeen
<1>6. PICK X : X = {G[i] : i \in 1..m}
  OBVIOUS
<1>7. /\ F \in [1..n -> X] /\ G \in [1..m -> X] /\ x \in X
      /\ \A i \in 1..n : G[i] = F[i]
      /\ G[m] = x
  BY <1>4, <1>5, <1>6
<1>8. Len(F) = n /\ G = Append(F, x)
  BY <1>2, <1>3, <1>7, SeenGrows
<1> QED
  BY <1>2, <1>3, <1>8

(* The export cannot tell one trace, report or attempt from what its own    *)
(* environment does.                                                        *)
LEMMA SeenDecide ==
  ASSUME NEW c \in AllIDs, Len(TracesSeen) < MaxTraces,
         TracesSeen' = Append(TracesSeen, [corr |-> c, policy |-> 1, valid |-> TRUE]),
         UNCHANGED <<EvidenceSeen, Cardinality(attempted)>>
  PROVE  P!EnvironmentNext
<1>1. P!Decide(c)
  BY DEF P!Validity, P!Decide, P!scriptVars, P!fetchVars, TracesSeen, EvidenceSeen
<1> QED
  BY <1>1 DEF P!EnvironmentNext, AllIDs

(* A report.                                                                *)
LEMMA SeenSubmit ==
  ASSUME NEW c \in AllIDs,
         Len(EvidenceSeen)
           < Cardinality(Task) * (MaxCrashes + 1) * (MaxFaults + 2),
         EvidenceSeen' = Append(EvidenceSeen, [corr |-> c, of |-> 0, valid |-> TRUE]),
         UNCHANGED <<TracesSeen, Cardinality(attempted)>>
  PROVE  P!EnvironmentNext
<1>1. P!Submit(c)
  BY DEF P!Validity, P!Submit, P!scriptVars, P!fetchVars, TracesSeen, EvidenceSeen
<1> QED
  BY <1>1 DEF P!EnvironmentNext, AllIDs

(* An attempt, that leaves evidence or is a first one and leaves none.      *)
LEMMA SeenAttempt ==
  ASSUME NEW o \in DOMAIN traceTopic, NEW n, NEW m,
         Cardinality(attempted) = n, Cardinality(attempted)' = m,
         o <= n + 1, m = IF o > n THEN o ELSE n,
         \/ /\ Len(EvidenceSeen)
                 < Cardinality(Task) * (MaxCrashes + 1) * (MaxFaults + 2)
            /\ EvidenceSeen' = Append(EvidenceSeen,
                                      [corr |-> traceTopic[o].corr,
                                       of |-> o, valid |-> TRUE])
         \/ o > n /\ UNCHANGED EvidenceSeen,
         UNCHANGED TracesSeen
  PROVE  P!EnvironmentNext
<1>1. TracesSeen[o].corr = traceTopic[o].corr /\ o \in DOMAIN TracesSeen
  BY DEF TracesSeen
<1>2. P!EvidenceOf(o) = [corr |-> traceTopic[o].corr, of |-> o, valid |-> TRUE]
  BY <1>1 DEF P!EvidenceOf, TracesSeen
<1>3. P!Attempt(o)
  BY <1>2 DEF P!Attempt, P!scriptVars, P!fetchVars, TracesSeen, EvidenceSeen
<1> QED
  BY <1>1, <1>3 DEF P!EnvironmentNext, TracesSeen

(* Only the loop of a worker attempts anything.                             *)
LEMMA OnlyProcessAttempts ==
  ASSUME W!WorkerNext, ~ \E w \in Worker : W!Process(w)
  PROVE  attempted' = attempted
BY DEF W!WorkerNext, W!Assign, W!Evict, W!Expire, W!Notice, W!Commit,
       W!EnterPoll, W!ReturnPoll, W!FailPoll, W!Crash, W!Restart

(* The attempted records are counted by the last of them.                   *)
LEMMA AttemptedCount ==
  ASSUME NEW S, NEW n \in Nat, S = 1..n
  PROVE  Cardinality(S) = n
BY FS_Interval

(* Where evidence was appended there was room for it.                       *)
LEMMA RoomForMore ==
  ASSUME FitInv', NEW n \in Nat, Len(evidenceTopic') = n + 1
  PROVE  n < Cardinality(Task) * (MaxCrashes + 1) * (MaxFaults + 2)
<1>1. PICK b : b = Cardinality(Task) * (MaxCrashes + 1) * (MaxFaults + 2)
  OBVIOUS
<1>2. n + 1 <= b
  BY <1>1 DEF FitInv
<1>3. b \in Int
  <2>1. Cardinality(Task) \in Nat /\ MaxCrashes \in Nat /\ MaxFaults \in Nat
    BY OrdersAssumption, FS_CardinalityType
  <2> QED
    BY <1>1, <2>1
<1> QED
  BY <1>1, <1>2, <1>3

(* A step of the server, as the export sees it: a trace or a report.        *)
LEMMA ServerFeeds ==
  ASSUME ALInv, FitInv', [Next]_vars, UNCHANGED workerVars
  PROVE  P!EnvironmentNext \/ UNCHANGED Seen
<1>1. /\ traceTopic \in Seq(Traces) /\ evidenceTopic \in Seq(Events)
      /\ attempted' = attempted
  BY DEF ALInv, Types, TopicTypes, workerVars
<1>2. CASE UNCHANGED topics
  BY <1>1, <1>2 DEF Seen, TracesSeen, EvidenceSeen, topics
<1>3. ASSUME NEW m \in sent, Record(m) PROVE P!EnvironmentNext
  <2>1. PICK r : r = m.record
    OBVIOUS
  <2>2. CASE m.topic = "trace"
    <3>1. /\ r \in Traces /\ traceTopic' = Append(traceTopic, r)
          /\ evidenceTopic' = evidenceTopic
      BY <1>3, <2>1, <2>2 DEF Record, ALInv, Types, ServerTypes
    <3>2. /\ Len(TracesSeen) \in Nat /\ Len(traceTopic') = Len(TracesSeen) + 1
          /\ TracesSeen' = Append(TracesSeen, [corr   |-> r.corr,
                                               policy |-> 1, valid |-> TRUE])
      BY <1>1, <3>1, TraceSeenGrows
    <3>3. r.corr \in AllIDs
      BY <1>1, <3>1, TopicGrows DEF FitInv, Traced
    <3>4. Len(TracesSeen) < MaxTraces
      BY <3>2, OrdersAssumption DEF FitInv
    <3>5. UNCHANGED <<EvidenceSeen, Cardinality(attempted)>>
      BY <1>1, <3>1 DEF EvidenceSeen
    <3> QED
      BY <3>2, <3>3, <3>4, <3>5, SeenDecide
  <2>3. CASE m.topic # "trace"
    <3>1. /\ r \in ReportEvents /\ evidenceTopic' = Append(evidenceTopic, r)
          /\ traceTopic' = traceTopic
      BY <1>3, <2>1, <2>3 DEF Record, ALInv, Types, ServerTypes
    <3>2. r \in Events /\ r.of = 0
      BY <3>1 DEF Events, ReportEvents
    <3>3. /\ Len(EvidenceSeen) \in Nat
          /\ Len(evidenceTopic') = Len(EvidenceSeen) + 1
          /\ EvidenceSeen' = Append(EvidenceSeen, [corr |-> r.body.corr,
                                                   of |-> 0, valid |-> TRUE])
      BY <1>1, <3>1, <3>2, EvidenceSeenGrows
    <3>4. r.body.corr \in AllIDs
      BY <1>1, <3>1, <3>2, TopicGrows DEF FitInv, Recorded
    <3>5. Len(EvidenceSeen)
            < Cardinality(Task) * (MaxCrashes + 1) * (MaxFaults + 2)
      BY <3>3, RoomForMore
    <3>6. UNCHANGED <<TracesSeen, Cardinality(attempted)>>
      BY <1>1, <3>1 DEF TracesSeen
    <3> QED
      BY <3>3, <3>4, <3>5, <3>6, SeenSubmit
  <2> QED
    BY <2>2, <2>3
<1> QED
  BY <1>2, <1>3, ServerAppends

(* A step of a worker, as the export sees it: an attempt, or nothing.       *)
LEMMA WorkerFeeds ==
  ASSUME ALInv, DoneInv, FitInv', W!WorkerNext
  PROVE  P!EnvironmentNext \/ UNCHANGED Seen
<1>1. /\ traceTopic \in Seq(Traces) /\ evidenceTopic \in Seq(Events)
      /\ traceTopic' = traceTopic /\ WorkerTypes
  BY WorkersOnlyRead DEF ALInv, Types, TopicTypes
<1>2. UNCHANGED TracesSeen
  BY <1>1 DEF TracesSeen
<1>3. ASSUME NEW w \in Worker, W!Process(w)
      PROVE  P!EnvironmentNext \/ UNCHANGED Seen
  <2>1. PICK o, e : o = batch[w].next /\ e = W!EvidenceOf(o, batch[w].epoch)
    OBVIOUS
  <2>2. PICK n \in 0..Len(traceTopic) : attempted = 1..n
    BY DEF DoneInv
  <2>3. PICK m : m = IF o > n THEN o ELSE n
    OBVIOUS
  <2>4. /\ n \in Nat /\ o \in 1..Len(traceTopic) /\ o <= n + 1
        /\ attempted' = 1..m
    BY <1>1, <1>3, <2>1, <2>2, <2>3, ProcessAttempts
  <2>5. o \in DOMAIN traceTopic /\ o \in Nat /\ m \in Nat
    BY <1>1, <2>3, <2>4
  <2>6. Cardinality(attempted) = n /\ Cardinality(attempted)' = m
    BY <2>2, <2>4, <2>5, AttemptedCount
  <2>7. CASE evidenceTopic' = evidenceTopic
    <3>1. UNCHANGED EvidenceSeen
      BY <2>7 DEF EvidenceSeen
    <3>2. CASE o > n
      BY <1>2, <2>3, <2>4, <2>5, <2>6, <3>1, <3>2, SeenAttempt
    <3>3. CASE ~(o > n)
      BY <1>2, <2>3, <2>6, <3>1, <3>3 DEF Seen
    <3> QED
      BY <3>2, <3>3
  <2>8. CASE evidenceTopic' = Append(evidenceTopic, e) /\ W!Executable(traceTopic[o])
    <3>1. PICK t : t = traceTopic[o]
      OBVIOUS
    <3>2. e = [of |-> o, epoch |-> batch[w].epoch, body |-> W!TraceToEvidence(t)]
      BY <2>1, <3>1 DEF W!EvidenceOf
    <3>3. t \in Traces /\ batch[w].epoch \in Nat
      BY <1>1, <2>5, <3>1, HeldTypes
    <3>4. e \in Events
      BY <2>5, <2>8, <3>1, <3>2, <3>3, ExecutionType DEF Events
    <3>5. e.of = o /\ e.body.corr = t.corr
      BY <3>2 DEF W!TraceToEvidence
    <3>6. /\ Len(EvidenceSeen) \in Nat
          /\ Len(evidenceTopic') = Len(EvidenceSeen) + 1
          /\ EvidenceSeen' = Append(EvidenceSeen, [corr |-> t.corr,
                                                   of |-> o, valid |-> TRUE])
      BY <1>1, <2>8, <3>4, <3>5, EvidenceSeenGrows
    <3>7. Len(EvidenceSeen)
            < Cardinality(Task) * (MaxCrashes + 1) * (MaxFaults + 2)
      BY <3>6, RoomForMore
    <3> QED
      BY <1>2, <2>3, <2>4, <2>5, <2>6, <3>1, <3>6, <3>7, SeenAttempt
  <2> QED
    BY <1>3, <2>1, <2>7, <2>8 DEF W!Process, W!Skip, W!Emit, W!Drop
<1>4. CASE ~ \E w \in Worker : W!Process(w)
  BY <1>1, <1>2, <1>4, OnlyProcessWrites, OnlyProcessAttempts
     DEF Seen, EvidenceSeen
<1> QED
  BY <1>3, <1>4

(* What agents, server and workers do to the topics together, however the   *)
(* orders are repeated and the partition changes hands, is what the export  *)
(* of audit packets assumes of its environment, within its bounds: what is  *)
(* proved of AuditPacket holds of packets exported from this loop.          *)
THEOREM LoopFeedsPacket == LoopSpec => PacketEnvironment
<1>1. LoopInit => P!EnvironmentInit
  <2> SUFFICES ASSUME LoopInit PROVE P!EnvironmentInit
    OBVIOUS
  <2>1. traceTopic = << >> /\ evidenceTopic = << >> /\ attempted = {}
    BY DEF LoopInit, Init, W!Init
  <2>2. Cardinality(attempted) = 0
    BY <2>1, FS_EmptySet
  <2> QED
    BY <2>1, <2>2 DEF P!EnvironmentInit
<1>2. UNCHANGED Seen => UNCHANGED <<P!topics, 1>>
  BY DEF Seen, TracesSeen, EvidenceSeen, P!topics
<1>3. /\ ALInv /\ DoneInv /\ FitInv' /\ [LoopNext]_loopVars
      => P!EnvironmentNext \/ UNCHANGED Seen
  <2> SUFFICES ASSUME ALInv, DoneInv, FitInv', [LoopNext]_loopVars
               PROVE  P!EnvironmentNext \/ UNCHANGED Seen
    OBVIOUS
  <2>1. CASE ServerStep
    BY <2>1, ServerFeeds DEF ServerStep
  <2>2. CASE WorkerStep
    BY <2>2, WorkerFeeds DEF WorkerStep
  <2>3. CASE UNCHANGED loopVars
    BY <2>3 DEF loopVars, workerVars, topics, Seen, TracesSeen, EvidenceSeen
  <2> QED
    BY <2>1, <2>2, <2>3 DEF LoopNext
<1>4. /\ ALInv /\ DoneInv /\ FitInv' /\ [LoopNext]_loopVars
      => [P!EnvironmentNext]_<<P!topics, 1>>
  BY <1>2, <1>3
<1> QED
  BY <1>1, <1>4, AgentInvariance, RepeatInvariance, DoneInvariance,
     TopicsFit, PTL
     DEF LoopSpec, LoopSafeSpec, PacketEnvironment, P!EnvironmentSpec
=============================================================================
