------------------------- MODULE DecisionOpsProofs -------------------------
(***************************************************************************)
(* Proofs about the gateway alone, and about the gateway and the workers   *)
(* together: for any set of calls in any configuration, any number of      *)
(* workers and any number of crashes and evictions.                        *)
(*                                                                         *)
(* The properties of the gateway compare the topic with what the callers   *)
(* were told.  The invariant that carries them follows the produce         *)
(* request: a call has one only after a decision, it is on its way or      *)
(* appended and never both, and the decision of such a call does not       *)
(* change any more.                                                        *)
(*                                                                         *)
(* What the gateway knows of a call and what a worker did about it meet    *)
(* only in the topics.  So the invariant of both says of each evidence     *)
(* event which trace it was made from, and the invariant of the gateway    *)
(* says of that trace which call it speaks of and how the call stands.     *)
(* That a worker reads only records that are there needs the bounds of its *)
(* batch.                                                                  *)
(***************************************************************************)
EXTENDS DecisionOps, PolicyLemmas, FunctionTheorems

-----------------------------------------------------------------------------
(* The gateway alone.                                                       *)

(* A produce request was sent for the call.                                 *)
Sent(c) == c \in inflight \cup acked

(* The decision of the call, as evaluatePolicy returned it.                 *)
DecidedBy(c) ==
  /\ outcome[c] \in PolicyOutcomes(config.opaURL, config.fallback,
                                   body[c].request)
  /\ outcome[c].kind = "decided"

(* How far the handler of a call has come, and what that allows.            *)
CallInv ==
  \A c \in Call :
    /\ Sent(c) => DecidedBy(c)
    /\ phase[c] \in {"buffered", "publishing"} => DecidedBy(c)
    /\ phase[c] \in {"idle", "reading", "handling", "buffered"} => ~Sent(c)
    /\ phase[c] # "answered" => status[c] = "none"
    /\ config.streaming /\ status[c] = "ok" => c \in acked
    /\ status[c] \in {"methodNotAllowed", "badRequest", "policyFailed",
                      "policyUnavailable"} => ~Sent(c)

(* What is in the topic.                                                    *)
TopicInv ==
  /\ inflight \cap acked = {}
  /\ \A i \in DOMAIN traceTopic :
       /\ traceTopic[i].call \in acked
       /\ traceTopic[i] = DecisionTrace(traceTopic[i].call)
  /\ \A c \in acked : \E i \in DOMAIN traceTopic : traceTopic[i].call = c
  /\ OneTracePerCall

GInv == TypeOK /\ CallInv /\ TopicInv

-----------------------------------------------------------------------------
(* The initial state satisfies the invariant.                               *)
LEMMA GInit == Init => GInv
BY DEF Init, GInv, TypeOK, CallInv, TopicInv, OneTracePerCall, Sent, Undecided,
       Status, Phase

(* The trace of a decided call is a trace of the topic's type.              *)
LEMMA TraceType ==
  ASSUME TypeOK, NEW c \in Call, DecidedBy(c)
  PROVE  DecisionTrace(c) \in Traces
<1>1. /\ body[c] \in Body
      /\ body[c].request \in Asked
      /\ body[c].request \in Request
      /\ config.opaURL \in BOOLEAN /\ config.fallback \in BOOLEAN
  BY AskedAssumption DEF TypeOK, Body, Config
<1>2. outcome[c] \in [kind : {"decided"}, decision : {"allow", "deny"},
                      code : Rule \cup {"none", "DEFAULT_DENY"}]
  BY <1>1, OutcomeType DEF DecidedBy
<1>3. CorrelationID(c) \in Corr \cup Call
  BY <1>1 DEF CorrelationID, Body
<1>4. body[c].request.action \in {q.action : q \in Asked}
  BY <1>1
<1> QED
  BY <1>2, <1>3, <1>4 DEF DecisionTrace, Traces

(* The variables keep their types.                                          *)
LEMMA GTypeStep == GInv /\ [Next]_vars => TypeOK'
<1> SUFFICES ASSUME GInv, [Next]_vars PROVE TypeOK'
  OBVIOUS
<1> USE DEF GInv, TypeOK, Status, Phase
<1>1. ASSUME NEW c \in Call, Receive(c) \/ ReadBody(c) PROVE TypeOK'
  BY <1>1 DEF Receive, ReadBody
<1>2. ASSUME NEW c \in Call, Reject(c) PROVE TypeOK'
  BY <1>2 DEF Reject, Answer
<1>3. ASSUME NEW c \in Call, Decide(c) PROVE TypeOK'
  <2>1. PICK o \in PolicyOutcomes(config.opaURL, config.fallback,
                                  body[c].request) :
          /\ o.kind = "decided"
          /\ outcome' = [outcome EXCEPT ![c] = o]
    BY <1>3 DEF Decide
  <2>2. /\ body[c].request \in Request
        /\ config.opaURL \in BOOLEAN /\ config.fallback \in BOOLEAN
    BY AskedAssumption DEF Body, Config
  <2>3. o \in [kind : {"undecided", "decided"},
               decision : {"none", "allow", "deny"},
               code : Rule \cup {"none", "DEFAULT_DENY"}]
    BY <2>1, <2>2, OutcomeType
  <2>4. outcome' \in [Call -> [kind : {"undecided", "decided"},
                              decision : {"none", "allow", "deny"},
                              code : Rule \cup {"none", "DEFAULT_DENY"}]]
    BY <2>1, <2>3
  <2>5. phase' \in [Call -> Phase] /\ status' \in [Call -> Status]
    BY <1>3 DEF Decide, Answer
  <2> QED
    BY <1>3, <2>4, <2>5 DEF Decide
<1>4. ASSUME NEW c \in Call, FailDecision(c) PROVE TypeOK'
  BY <1>4 DEF FailDecision, Answer
<1>5. ASSUME NEW c \in Call,
             ContextEnds(c) \/ PublishSucceeds(c) \/ PublishFails(c)
      PROVE  TypeOK'
  BY <1>5 DEF ContextEnds, PublishSucceeds, PublishFails, Answer
<1>6. ASSUME NEW c \in Call, BrokerAppend(c) PROVE TypeOK'
  <2>1. DecisionTrace(c) \in Traces
    BY <1>6, TraceType DEF BrokerAppend, CallInv, Sent
  <2>2. traceTopic' \in Seq(Traces)
    BY <1>6, <2>1 DEF BrokerAppend
  <2> QED
    BY <1>6, <2>2 DEF BrokerAppend
<1>7. ASSUME NEW c \in Call, BrokerLose(c) PROVE TypeOK'
  BY <1>7 DEF BrokerLose
<1>8. CASE Crash
  BY <1>8 DEF Crash
<1>9. CASE UNCHANGED vars
  BY <1>9 DEF vars
<1>10. ASSUME NEW c \in Call, Send(c) PROVE TypeOK'
  BY <1>10 DEF Send
<1> QED
  BY <1>1, <1>2, <1>3, <1>4, <1>5, <1>6, <1>7, <1>8, <1>9, <1>10
     DEF Next, Handle, Broker

(* The handlers keep what their calls stand for.                            *)
LEMMA CallStep == GInv /\ [Next]_vars => CallInv'
<1> SUFFICES ASSUME GInv, [Next]_vars PROVE CallInv'
  OBVIOUS
<1> USE DEF GInv, TypeOK, CallInv, Sent, DecidedBy
<1>1. ASSUME NEW c \in Call, Receive(c) \/ ReadBody(c) PROVE CallInv'
  BY <1>1 DEF Receive, ReadBody
<1>2. ASSUME NEW c \in Call, Reject(c) PROVE CallInv'
  BY <1>2 DEF Reject, Answer
<1>3. ASSUME NEW c \in Call, Decide(c) PROVE CallInv'
  BY <1>3 DEF Decide, Answer
<1>4. ASSUME NEW c \in Call, FailDecision(c) PROVE CallInv'
  BY <1>4 DEF FailDecision, Answer
<1>5. ASSUME NEW c \in Call, PublishSucceeds(c) PROVE CallInv'
  BY <1>5 DEF PublishSucceeds, Answer
<1>6. ASSUME NEW c \in Call, ContextEnds(c) \/ PublishFails(c) PROVE CallInv'
  BY <1>6 DEF ContextEnds, PublishFails, Answer
<1>7. ASSUME NEW c \in Call, BrokerAppend(c) PROVE CallInv'
  BY <1>7 DEF BrokerAppend
<1>8. ASSUME NEW c \in Call, BrokerLose(c) PROVE CallInv'
  BY <1>8 DEF BrokerLose
<1>9. CASE Crash
  BY <1>9 DEF Crash, Open
<1>10. CASE UNCHANGED vars
  BY <1>10 DEF vars
<1>11. ASSUME NEW c \in Call, Send(c) PROVE CallInv'
  BY <1>11 DEF Send
<1> QED
  BY <1>1, <1>2, <1>3, <1>4, <1>5, <1>6, <1>7, <1>8, <1>9, <1>10, <1>11
     DEF Next, Handle, Broker

(* The topic keeps one true trace of each call the broker acknowledged.     *)
LEMMA TopicStep == GInv /\ [Next]_vars => TopicInv'
<1> SUFFICES ASSUME GInv, [Next]_vars PROVE TopicInv'
  OBVIOUS
<1>1. TypeOK /\ CallInv /\ TopicInv
  BY DEF GInv
<1>2. ASSUME traceTopic' = traceTopic, acked' = acked, body' = body,
             inflight' \cap acked = {},
             \A c \in acked : outcome'[c] = outcome[c]
      PROVE  TopicInv'
  <2>1. \A c \in acked : DecisionTrace(c)' = DecisionTrace(c)
    BY <1>2 DEF DecisionTrace, CorrelationID
  <2>2. \A i \in DOMAIN traceTopic :
          traceTopic'[i] = DecisionTrace(traceTopic[i].call)'
    BY <1>1, <1>2, <2>1 DEF TopicInv
  <2> QED
    BY <1>1, <1>2, <2>2 DEF TopicInv, OneTracePerCall, DecisionTrace,
                            CorrelationID
<1>3. ASSUME NEW c \in Call, Decide(c) PROVE TopicInv'
  <2>1. c \notin acked
    BY <1>1, <1>3 DEF Decide, CallInv, Sent
  <2>2. \A a \in acked : outcome'[a] = outcome[a]
    BY <1>1, <1>3, <2>1 DEF Decide, TypeOK
  <2> QED
    BY <1>1, <1>2, <1>3, <2>2 DEF Decide, TopicInv
<1>4. ASSUME NEW c \in Call, BrokerAppend(c) PROVE TopicInv'
  <2>1. PICK n : n = Len(traceTopic)
    OBVIOUS
  <2>2. PICK t : t = DecisionTrace(c)
    OBVIOUS
  <2>3. /\ n \in Nat
        /\ DOMAIN traceTopic = 1..n
        /\ DOMAIN traceTopic' = 1..(n + 1)
        /\ traceTopic'[n + 1] = t
        /\ \A i \in 1..n : traceTopic'[i] = traceTopic[i]
    <3>1. traceTopic \in Seq(Traces) /\ traceTopic' = Append(traceTopic, t)
      BY <1>1, <1>4, <2>2 DEF TypeOK, BrokerAppend
    <3> QED
      BY <2>1, <3>1
  <2>4. /\ c \notin acked /\ acked' = acked \cup {c}
        /\ inflight' = inflight \ {c}
    BY <1>1, <1>4 DEF BrokerAppend, TopicInv
  <2>5. \A a : DecisionTrace(a)' = DecisionTrace(a)
    BY <1>4 DEF BrokerAppend, DecisionTrace, CorrelationID
  <2>6. t.call = c
    BY <2>2 DEF DecisionTrace
  <2>7. \A i \in 1..n : /\ traceTopic[i].call \in acked
                        /\ traceTopic[i].call # c
                        /\ traceTopic[i] = DecisionTrace(traceTopic[i].call)
    BY <1>1, <2>3, <2>4 DEF TopicInv
  <2>8. \A i \in DOMAIN traceTopic' :
          /\ traceTopic'[i].call \in acked'
          /\ traceTopic'[i] = DecisionTrace(traceTopic'[i].call)
    BY <2>2, <2>3, <2>4, <2>6, <2>7
  <2>9. \A a \in acked' : \E i \in DOMAIN traceTopic' : traceTopic'[i].call = a
    <3>1. \A a \in acked : \E i \in 1..n : traceTopic[i].call = a
      BY <1>1, <2>3 DEF TopicInv
    <3>2. traceTopic'[n + 1].call = c /\ n + 1 \in DOMAIN traceTopic'
      BY <2>3, <2>6
    <3>3. 1..n \subseteq DOMAIN traceTopic'
      BY <2>3
    <3> QED
      BY <2>3, <2>4, <3>1, <3>2, <3>3
  <2>10. OneTracePerCall'
    BY <1>1, <2>3, <2>6, <2>7 DEF TopicInv, OneTracePerCall
  <2>11. inflight' \cap acked' = {}
    BY <1>1, <2>4 DEF TopicInv
  <2> QED
    BY <2>5, <2>8, <2>9, <2>10, <2>11 DEF TopicInv
<1>5. ASSUME NEW c \in Call,
             Receive(c) \/ ReadBody(c) \/ Reject(c) \/ FailDecision(c)
      PROVE  TopicInv'
  BY <1>1, <1>2, <1>5 DEF Receive, ReadBody, Reject, FailDecision, TopicInv
<1>6. ASSUME NEW c \in Call,
             ContextEnds(c) \/ PublishSucceeds(c) \/ PublishFails(c)
      PROVE  TopicInv'
  BY <1>1, <1>2, <1>6 DEF ContextEnds, PublishSucceeds, PublishFails, TopicInv
<1>7. ASSUME NEW c \in Call, BrokerLose(c) PROVE TopicInv'
  BY <1>1, <1>2, <1>7 DEF BrokerLose, TopicInv
<1>8. CASE Crash
  BY <1>1, <1>2, <1>8 DEF Crash, TopicInv
<1>9. CASE UNCHANGED vars
  BY <1>1, <1>2, <1>9 DEF vars, TopicInv
<1>10. ASSUME NEW c \in Call, Send(c) PROVE TopicInv'
  <2>1. c \notin acked
    BY <1>1, <1>10 DEF Send, CallInv, Sent
  <2> QED
    BY <1>1, <1>2, <1>10, <2>1 DEF Send, TopicInv
<1> QED
  BY <1>3, <1>4, <1>5, <1>6, <1>7, <1>8, <1>9, <1>10 DEF Next, Handle, Broker

-----------------------------------------------------------------------------
(* The invariant is one.                                                    *)
THEOREM GatewayInvariance == Spec => []GInv
<1>1. GInv /\ [Next]_vars => GInv'
  BY GTypeStep, CallStep, TopicStep DEF GInv
<1> QED
  BY GInit, <1>1, PTL DEF Spec, SafeSpec

(* Every variable of the gateway keeps its type: what is in the topic has   *)
(* the fields of a decision trace, with a decision and a code of the policy.*)
THEOREM GatewayTypes == Spec => []TypeOK
<1>1. GInv => TypeOK
  BY DEF GInv
<1> QED
  BY <1>1, GatewayInvariance, PTL

(* No call is answered 200 before its trace is in the topic.                *)
THEOREM OkDurable == Spec => []OkMeansDurable
<1>1. GInv => OkMeansDurable
  <2> SUFFICES ASSUME GInv, NEW c \in Call, config.streaming, status[c] = "ok"
               PROVE  \E i \in DOMAIN traceTopic :
                        traceTopic[i] = DecisionTrace(c)
    BY DEF OkMeansDurable
  <2>1. c \in acked
    BY DEF GInv, CallInv
  <2>2. PICK i \in DOMAIN traceTopic : traceTopic[i].call = c
    BY <2>1 DEF GInv, TopicInv
  <2>3. traceTopic[i] = DecisionTrace(c)
    BY <2>2 DEF GInv, TopicInv
  <2> QED
    BY <2>3
<1> QED
  BY <1>1, GatewayInvariance, PTL

(* A call leaves at most one trace.                                         *)
THEOREM OneTrace == Spec => []OneTracePerCall
<1>1. GInv => OneTracePerCall
  BY DEF GInv, TopicInv
<1> QED
  BY <1>1, GatewayInvariance, PTL

(* A call refused before publishing never has a trace.                      *)
THEOREM RefusedSilent == Spec => []RefusedLeavesNoTrace
<1>1. GInv => RefusedLeavesNoTrace
  BY DEF GInv, CallInv, TopicInv, Sent, RefusedLeavesNoTrace
<1> QED
  BY <1>1, GatewayInvariance, PTL

(* No trace allows what the policy denies.                                  *)
THEOREM TraceLawful == Spec => []TraceFollowsPolicy
<1>1. GInv => TraceFollowsPolicy
  <2> SUFFICES ASSUME GInv, NEW i \in DOMAIN traceTopic,
                      traceTopic[i].decision = "allow"
               PROVE  LET q == body[traceTopic[i].call].request
                      IN  RegoAllow(q) /\ traceTopic[i].code \in RegoRationales(q)
    BY DEF TraceFollowsPolicy
  <2> DEFINE c == traceTopic[i].call
  <2>1. /\ c \in acked
        /\ traceTopic[i] = DecisionTrace(c)
    BY DEF GInv, TopicInv
  <2>2. c \in Call /\ DecidedBy(c)
    BY <2>1 DEF GInv, TypeOK, CallInv, Sent
  <2>3. outcome[c].decision = "allow" /\ traceTopic[i].code = outcome[c].code
    BY <2>1 DEF DecisionTrace
  <2>4. /\ body[c].request \in Request
        /\ config.opaURL \in BOOLEAN /\ config.fallback \in BOOLEAN
    BY <2>2, AskedAssumption DEF GInv, TypeOK, Body, Config
  <2>5. RegoAllow(body[c].request)
    BY <2>2, <2>3, <2>4, OutcomesFailClosed DEF DecidedBy
  <2>6. outcome[c].code \in RegoRationales(body[c].request)
    BY <2>2, <2>3, <2>4, OutcomeType DEF DecidedBy
  <2> QED
    BY <2>3, <2>5, <2>6
<1> QED
  BY <1>1, GatewayInvariance, PTL

-----------------------------------------------------------------------------
(* The gateway and the workers.                                             *)

(* A worker in its loop is at a record of the topic.                        *)
BatchInv ==
  \A w \in Worker : pc[w] = "processing" =>
    /\ batch[w].next > 0
    /\ batch[w].next <= batch[w].last
    /\ batch[w].last <= Len(traceTopic)

(* The evidence is what a worker makes of a trace that is in the topic and  *)
(* that it accepts.                                                         *)
MadeFrom(r) ==
  /\ r.of \in DOMAIN traceTopic
  /\ W!Executable(traceTopic[r.of])
  /\ r.body = W!TraceToEvidence(traceTopic[r.of])

RecordedInv == \A i \in DOMAIN evidenceTopic : MadeFrom(evidenceTopic[i])

LInv == GInv /\ W!TypeOK /\ BatchInv /\ RecordedInv

-----------------------------------------------------------------------------
(* The initial state satisfies the invariant.                               *)
LEMMA LInit == LoopInit => LInv
<1> SUFFICES ASSUME LoopInit PROVE LInv
  OBVIOUS
<1>1. GInv
  BY GInit DEF LoopInit
<1>2. W!TypeOK
  BY DEF LoopInit, W!Init, W!TypeOK, W!NoBatch
<1>3. BatchInv /\ RecordedInv
  BY DEF LoopInit, W!Init, BatchInv, RecordedInv
<1> QED
  BY <1>1, <1>2, <1>3 DEF LInv

(* The workers leave the gateway and its topic alone.                       *)
LEMMA WorkersOnlyRead == W!WorkerNext => traceTopic' = traceTopic
BY DEF W!WorkerNext, W!Assign, W!Evict, W!Expire, W!Notice, W!Commit,
       W!EnterPoll, W!ReturnPoll, W!FailPoll, W!Process, W!Skip, W!Emit,
       W!Drop, W!Advance, W!Crash, W!Restart

(* To the gateway every step of the loop is a step of its own or none.      *)
LEMMA LoopIsGateway == [LoopNext]_allVars => [Next]_vars
BY WorkersOnlyRead
   DEF LoopNext, GatewayStep, WorkerStep, allVars, gatewayVars, vars

(* The gateway touches the topic only by appending the trace of a call.     *)
LEMMA GatewayAppends ==
  ASSUME [Next]_vars, traceTopic' # traceTopic
  PROVE  \E c \in Call : BrokerAppend(c)
BY DEF Next, Handle, Broker, Receive, ReadBody, Reject, Decide, FailDecision,
       ContextEnds, Send, PublishSucceeds, PublishFails, BrokerLose, Crash, vars

(* There is room for the trace of every call.                               *)
LEMMA RoomForTrace ==
  ASSUME GInv, NEW c \in Call, c \notin acked
  PROVE  Len(traceTopic) < MaxTraces
<1>1. PICK n : n = Len(traceTopic)
  OBVIOUS
<1>2. n \in Nat /\ DOMAIN traceTopic = 1..n
  <2>1. traceTopic \in Seq(Traces)
    BY DEF GInv, TypeOK
  <2> QED
    BY <1>1, <2>1
<1> DEFINE f == [i \in 1..n |-> traceTopic[i].call]
<1>3. f \in Injection(1..n, acked)
  <2>1. f \in [1..n -> acked]
    BY <1>2 DEF GInv, TopicInv
  <2>2. \A i, j \in 1..n : f[i] = f[j] => i = j
    BY <1>2 DEF GInv, TopicInv, OneTracePerCall
  <2> QED
    BY <2>1, <2>2, Fun_IsInj
<1>4. /\ IsFiniteSet(acked)
      /\ Cardinality(acked) < Cardinality(Call)
  <2>1. acked \in SUBSET Call /\ acked # Call
    BY DEF GInv, TypeOK
  <2>2. /\ IsFiniteSet(acked)
        /\ Cardinality(acked) <= Cardinality(Call)
        /\ Cardinality(Call) # Cardinality(acked)
    BY <2>1, TracesAssumption, FS_Subset
  <2>3. Cardinality(acked) \in Nat /\ Cardinality(Call) \in Nat
    BY <2>2, TracesAssumption, FS_CardinalityType
  <2> QED
    BY <2>2, <2>3
<1>5. Cardinality(1..n) <= Cardinality(acked)
  <2> HIDE DEF f
  <2> QED
    BY <1>3, <1>4, FS_Injection
<1>6. Cardinality(1..n) = n
  BY <1>2, FS_Interval
<1>7. Cardinality(acked) \in Nat /\ Cardinality(Call) \in Nat
  BY <1>4, TracesAssumption, FS_CardinalityType
<1> QED
  BY <1>1, <1>2, <1>4, <1>5, <1>6, <1>7, TracesAssumption

(* To the workers every step of the loop is one of theirs, a trace that     *)
(* another program writes, or none.                                         *)
LEMMA LoopIsStream == LInv /\ [LoopNext]_allVars => [W!Next]_(W!vars)
<1> SUFFICES ASSUME LInv, [LoopNext]_allVars PROVE [W!Next]_(W!vars)
  OBVIOUS
<1>1. CASE WorkerStep
  BY <1>1 DEF WorkerStep, W!Next
<1>2. ASSUME UNCHANGED workerVars, traceTopic' = traceTopic
      PROVE  UNCHANGED W!vars
  BY <1>2 DEF workerVars, W!vars, W!groupVars, W!memberVars, W!loopVars
<1>3. ASSUME GatewayStep, traceTopic' # traceTopic PROVE W!Next
  <2>1. PICK c \in Call : BrokerAppend(c)
    BY <1>3, GatewayAppends DEF GatewayStep
  <2>2. c \notin acked /\ DecidedBy(c)
    BY <2>1 DEF BrokerAppend, LInv, GInv, TopicInv, CallInv, Sent
  <2>3. Len(traceTopic) < MaxTraces
    BY <2>2, RoomForTrace DEF LInv
  <2>4. DecisionTrace(c) \in Traces
    BY <2>2, TraceType DEF LInv, GInv
  <2>5. W!Publish(DecisionTrace(c))
    BY <1>3, <2>1, <2>3
       DEF GatewayStep, BrokerAppend, W!Publish, workerVars, W!groupVars,
           W!memberVars, W!loopVars
  <2> QED
    BY <2>4, <2>5 DEF W!Next
<1>4. CASE UNCHANGED allVars
  BY <1>2, <1>4 DEF allVars
<1> QED
  BY <1>1, <1>2, <1>3, <1>4 DEF LoopNext, GatewayStep

-----------------------------------------------------------------------------
(* The record under the cursor of a batch is a trace of the topic.          *)
LEMMA RecordAtCursor ==
  ASSUME LInv, NEW w \in Worker, pc[w] = "processing"
  PROVE  /\ batch[w].next \in DOMAIN traceTopic
         /\ traceTopic[batch[w].next] \in Traces
<1>1. /\ batch[w].next \in Nat /\ batch[w].last \in Nat
      /\ traceTopic \in Seq(Traces)
  BY DEF LInv, W!TypeOK
<1>2. /\ batch[w].next > 0 /\ batch[w].next <= batch[w].last
      /\ batch[w].last <= Len(traceTopic)
  BY DEF LInv, BatchInv
<1>3. PICK n, k, l : n = Len(traceTopic) /\ k = batch[w].next /\ l = batch[w].last
  OBVIOUS
<1>4. n \in Nat /\ DOMAIN traceTopic = 1..n
  BY <1>1, <1>3
<1>5. k \in 1..n
  BY <1>1, <1>2, <1>3, <1>4
<1> QED
  BY <1>1, <1>3, <1>4, <1>5

(* What the loop does with a record changes in its own state.               *)
LEMMA ProcessEffects ==
  ASSUME LInv, NEW w \in Worker, W!Process(w)
  PROVE  /\ pc[w] = "processing"
         /\ traceTopic' = traceTopic
         /\ pc' = [pc EXCEPT ![w] = IF batch[w].next = batch[w].last
                                    THEN "loop" ELSE "processing"]
         /\ batch' = [batch EXCEPT ![w] = [epoch |-> batch[w].epoch,
                                           next  |-> batch[w].next + 1,
                                           last  |-> batch[w].last]]
         /\ \/ evidenceTopic' = evidenceTopic
            \/ /\ W!Executable(traceTopic[batch[w].next])
               /\ evidenceTopic' =
                    Append(evidenceTopic,
                           W!EvidenceOf(batch[w].next, batch[w].epoch))
<1>1. /\ pc[w] = "processing"
      /\ traceTopic' = traceTopic
      /\ pc' = [pc EXCEPT ![w] = IF batch[w].next = batch[w].last
                                 THEN "loop" ELSE "processing"]
      /\ batch' = [batch EXCEPT ![w].next = @ + 1]
  BY DEF W!Process, W!Skip, W!Emit, W!Drop, W!Advance
<1>2. [batch[w] EXCEPT !.next = batch[w].next + 1] =
        [epoch |-> batch[w].epoch, next |-> batch[w].next + 1,
         last |-> batch[w].last]
  <2>1. batch[w] \in [epoch : Nat, next : Nat, last : Nat]
    BY DEF LInv, W!TypeOK
  <2>2. PICK b, k : b = batch[w] /\ k = batch[w].next + 1
    OBVIOUS
  <2>3. [b EXCEPT !.next = k] = [epoch |-> b.epoch, next |-> k, last |-> b.last]
    BY <2>1, <2>2
  <2> QED
    BY <2>2, <2>3
<1>3. \/ evidenceTopic' = evidenceTopic
      \/ /\ W!Executable(traceTopic[batch[w].next])
         /\ evidenceTopic' =
              Append(evidenceTopic, W!EvidenceOf(batch[w].next, batch[w].epoch))
  BY DEF W!Process, W!Skip, W!Emit, W!Drop
<1> QED
  BY <1>1, <1>2, <1>3

(* The workers' variables keep their types.                                 *)
LEMMA StreamTypeStep == LInv /\ [W!Next]_(W!vars) => W!TypeOK'
<1> SUFFICES ASSUME LInv, [W!Next]_(W!vars) PROVE W!TypeOK'
  OBVIOUS
<1>0. W!TypeOK
  BY DEF LInv
<1> USE DEF W!TypeOK
<1>1. ASSUME NEW t \in Traces, W!Publish(t) PROVE W!TypeOK'
  BY <1>0, <1>1 DEF W!Publish, W!groupVars, W!memberVars, W!loopVars
<1>2. ASSUME NEW w \in Worker, W!Assign(w) PROVE W!TypeOK'
  BY <1>0, <1>2 DEF W!Assign, W!loopVars
<1>3. ASSUME NEW w \in Worker, W!Evict(w) \/ W!Expire(w) PROVE W!TypeOK'
  <2>1. CASE W!Evict(w)
    BY <1>0, <2>1 DEF W!Evict, W!memberVars, W!loopVars
  <2>2. CASE W!Expire(w)
    BY <1>0, <2>2 DEF W!Expire, W!memberVars, W!loopVars
  <2> QED
    BY <1>3, <2>1, <2>2
<1>4. ASSUME NEW w \in Worker, W!Notice(w) PROVE W!TypeOK'
  BY <1>0, <1>4 DEF W!Notice, W!groupVars, W!loopVars
<1>5. ASSUME NEW w \in Worker, W!Commit(w) PROVE W!TypeOK'
  BY <1>0, <1>5 DEF W!Commit, W!memberVars, W!loopVars
<1>6. ASSUME NEW w \in Worker, W!EnterPoll(w) \/ W!FailPoll(w) PROVE W!TypeOK'
  BY <1>0, <1>6 DEF W!EnterPoll, W!FailPoll, W!groupVars, W!memberVars
<1>7. ASSUME NEW w \in Worker, W!ReturnPoll(w) PROVE W!TypeOK'
  <2>1. PICK n \in (fetched[w] + 1)..Len(traceTopic) :
          /\ fetched' = [fetched EXCEPT ![w] = n]
          /\ batch' = [batch EXCEPT ![w] = [epoch |-> session[w],
                                            next  |-> fetched[w] + 1,
                                            last  |-> n]]
    BY <1>7 DEF W!ReturnPoll
  <2>2. fetched[w] \in Nat /\ session[w] \in Nat /\ n \in Nat
    BY <1>0
  <2>3. fetched' \in [Worker -> Nat]
    BY <1>0, <2>1, <2>2
  <2>4. batch' \in [Worker -> [epoch : Nat, next : Nat, last : Nat]]
    BY <1>0, <2>1, <2>2
  <2> QED
    BY <1>0, <1>7, <2>3, <2>4 DEF W!ReturnPoll, W!groupVars
<1>8. ASSUME NEW w \in Worker, W!Process(w) PROVE W!TypeOK'
  <2> DEFINE o == batch[w].next
  <2>1. o \in Nat /\ batch[w].epoch \in Nat /\ batch[w].last \in Nat
    BY <1>0
  <2>2. traceTopic[o] \in Traces
    BY <1>8, RecordAtCursor, ProcessEffects
  <2>3. W!EvidenceOf(o, batch[w].epoch) \in W!EvidenceEvent
    <3>1. W!TraceToEvidence(traceTopic[o])
            \in {W!TraceToEvidence(t) : t \in Traces}
      BY <2>2
    <3> QED
      BY <2>1, <3>1 DEF W!EvidenceOf, W!EvidenceEvent
  <2>4. evidenceTopic' \in Seq(W!EvidenceEvent)
    <3>1. evidenceTopic \in Seq(W!EvidenceEvent)
      BY <1>0
    <3>2. \/ evidenceTopic' = evidenceTopic
          \/ evidenceTopic' = Append(evidenceTopic,
                                W!EvidenceOf(o, batch[w].epoch))
      BY <1>8, ProcessEffects
    <3> HIDE DEF W!TypeOK, o
    <3> QED
      BY <2>3, <3>1, <3>2
  <2>5. batch' \in [Worker -> [epoch : Nat, next : Nat, last : Nat]]
    <3>1. [epoch |-> batch[w].epoch, next |-> o + 1, last |-> batch[w].last]
            \in [epoch : Nat, next : Nat, last : Nat]
      BY <2>1
    <3>2. batch \in [Worker -> [epoch : Nat, next : Nat, last : Nat]]
      BY <1>0
    <3>3. batch' = [batch EXCEPT ![w] = [epoch |-> batch[w].epoch,
                                         next  |-> o + 1,
                                         last  |-> batch[w].last]]
      BY <1>8, ProcessEffects
    <3> QED
      BY <3>1, <3>2, <3>3
  <2>6. pc' \in [Worker -> {"down", "loop", "polling", "processing"}]
    BY <1>0, <1>8, ProcessEffects
  <2>7. /\ attempted' = attempted \cup {o}
        /\ UNCHANGED <<traceTopic, W!groupVars, W!memberVars, faults>>
    BY <1>8 DEF W!Process, W!Skip, W!Emit, W!Drop, W!Advance
  <2>8. attempted' \subseteq Nat
    BY <1>0, <2>1, <2>7
  <2> QED
    BY <1>0, <2>4, <2>5, <2>6, <2>7, <2>8 DEF W!groupVars, W!memberVars
<1>9. ASSUME NEW w \in Worker, W!Crash(w) PROVE W!TypeOK'
  <2>1. W!NoBatch \in [epoch : Nat, next : Nat, last : Nat]
    BY DEF W!NoBatch
  <2> QED
    BY <1>0, <1>9, <2>1, SMTT(60) DEF W!Crash, W!groupVars
<1>10. ASSUME NEW w \in Worker, W!Restart(w) PROVE W!TypeOK'
  BY <1>0, <1>10 DEF W!Restart, W!groupVars, W!memberVars
<1>11. CASE UNCHANGED W!vars
  BY <1>0, <1>11 DEF W!vars, W!groupVars, W!memberVars, W!loopVars
<1> QED
  BY <1>1, <1>2, <1>3, <1>4, <1>5, <1>6, <1>7, <1>8, <1>9, <1>10, <1>11
     DEF W!Next, W!WorkerNext

(* The batches stay within the topic: a step makes a batch only of records  *)
(* that are there, advances it within its bounds, and never shortens the    *)
(* topic.                                                                   *)
LEMMA BatchStep == LInv /\ [W!Next]_(W!vars) => BatchInv'
<1> SUFFICES ASSUME LInv, [W!Next]_(W!vars) PROVE BatchInv'
  OBVIOUS
<1>1. /\ traceTopic \in Seq(Traces)
      /\ pc \in [Worker -> {"down", "loop", "polling", "processing"}]
      /\ batch \in [Worker -> [epoch : Nat, next : Nat, last : Nat]]
      /\ fetched \in [Worker -> Nat]
  BY DEF LInv, W!TypeOK
<1>2. PICK n : n = Len(traceTopic)
  OBVIOUS
<1>3. n \in Nat
  BY <1>1, <1>2
<1>4. BatchInv
  BY DEF LInv
<1>5. ASSUME traceTopic' = traceTopic, batch' = batch,
             \A v \in Worker : pc'[v] = "processing" => pc[v] = "processing"
      PROVE  BatchInv'
  BY <1>4, <1>5 DEF BatchInv
<1>6. ASSUME NEW t \in Traces, W!Publish(t) PROVE BatchInv'
  <2>1. Len(traceTopic') = n + 1 /\ pc' = pc /\ batch' = batch
    BY <1>1, <1>2, <1>6 DEF W!Publish, W!loopVars
  <2>2. \A v \in Worker : batch[v].last \in Nat
    BY <1>1
  <2> QED
    BY <1>2, <1>3, <1>4, <2>1, <2>2 DEF BatchInv
<1>7. ASSUME NEW w \in Worker,
             \/ W!Assign(w) \/ W!Evict(w) \/ W!Expire(w)
             \/ W!Notice(w) \/ W!Commit(w)
      PROVE  BatchInv'
  BY <1>5, <1>7
     DEF W!Assign, W!Evict, W!Expire, W!Notice, W!Commit, W!loopVars
<1>8. ASSUME NEW w \in Worker,
             W!EnterPoll(w) \/ W!FailPoll(w) \/ W!Restart(w)
      PROVE  BatchInv'
  BY <1>1, <1>5, <1>8 DEF W!EnterPoll, W!FailPoll, W!Restart
<1>9. ASSUME NEW w \in Worker, W!ReturnPoll(w) PROVE BatchInv'
  <2>1. PICK m \in (fetched[w] + 1)..n :
          batch' = [batch EXCEPT ![w] = [epoch |-> session[w],
                                         next  |-> fetched[w] + 1,
                                         last  |-> m]]
    BY <1>2, <1>9 DEF W!ReturnPoll
  <2>2. pc' = [pc EXCEPT ![w] = "processing"] /\ traceTopic' = traceTopic
    BY <1>9 DEF W!ReturnPoll
  <2>3. fetched[w] \in Nat
    BY <1>1
  <2>4. /\ batch'[w].next = fetched[w] + 1 /\ batch'[w].last = m
        /\ \A v \in Worker \ {w} : batch'[v] = batch[v] /\ pc'[v] = pc[v]
    BY <1>1, <2>1, <2>2
  <2>5. batch'[w].next > 0 /\ batch'[w].next <= m /\ m <= n
    BY <1>3, <2>1, <2>3, <2>4
  <2> QED
    BY <1>2, <1>4, <2>2, <2>4, <2>5 DEF BatchInv
<1>10. ASSUME NEW w \in Worker, W!Process(w) PROVE BatchInv'
  <2>1. /\ pc[w] = "processing"
        /\ traceTopic' = traceTopic
        /\ pc' = [pc EXCEPT ![w] = IF batch[w].next = batch[w].last
                                   THEN "loop" ELSE "processing"]
        /\ batch' = [batch EXCEPT ![w] = [epoch |-> batch[w].epoch,
                                          next  |-> batch[w].next + 1,
                                          last  |-> batch[w].last]]
    BY <1>10, ProcessEffects
  <2>2. /\ batch'[w].next = batch[w].next + 1
        /\ batch'[w].last = batch[w].last
        /\ pc'[w] = "processing" => batch[w].next # batch[w].last
        /\ \A v \in Worker \ {w} : batch'[v] = batch[v] /\ pc'[v] = pc[v]
    BY <1>1, <2>1
  <2>3. /\ batch[w].next \in Nat /\ batch[w].last \in Nat
        /\ batch[w].next > 0 /\ batch[w].next <= batch[w].last
        /\ batch[w].last <= n
    BY <1>1, <1>2, <1>4, <2>1 DEF BatchInv
  <2>4. pc'[w] = "processing" =>
          /\ batch'[w].next > 0 /\ batch'[w].next <= batch'[w].last
          /\ batch'[w].last <= n
    BY <2>2, <2>3
  <2> QED
    BY <1>2, <1>4, <2>1, <2>2, <2>4 DEF BatchInv
<1>11. ASSUME NEW w \in Worker, W!Crash(w) PROVE BatchInv'
  <2>1. /\ traceTopic' = traceTopic /\ pc'[w] = "down"
        /\ \A v \in Worker \ {w} : batch'[v] = batch[v] /\ pc'[v] = pc[v]
    BY <1>1, <1>11 DEF W!Crash
  <2> QED
    BY <1>4, <2>1 DEF BatchInv
<1>12. CASE UNCHANGED W!vars
  BY <1>5, <1>12 DEF W!vars, W!loopVars
<1> QED
  BY <1>6, <1>7, <1>8, <1>9, <1>10, <1>11, <1>12 DEF W!Next, W!WorkerNext

(* Evidence is made only of the record a worker is at, and the records stay *)
(* what they are.                                                           *)
LEMMA RecordedStep == LInv /\ [W!Next]_(W!vars) => RecordedInv'
<1> SUFFICES ASSUME LInv, [W!Next]_(W!vars) PROVE RecordedInv'
  OBVIOUS
<1>1. /\ traceTopic \in Seq(Traces)
      /\ evidenceTopic \in Seq(W!EvidenceEvent)
      /\ RecordedInv
  BY DEF LInv, W!TypeOK
<1>2. ASSUME traceTopic' = traceTopic, evidenceTopic' = evidenceTopic
      PROVE  RecordedInv'
  BY <1>1, <1>2 DEF RecordedInv, MadeFrom
<1>3. ASSUME NEW t \in Traces, W!Publish(t) PROVE RecordedInv'
  <2>1. /\ \A o \in DOMAIN traceTopic :
             o \in DOMAIN traceTopic' /\ traceTopic'[o] = traceTopic[o]
        /\ evidenceTopic' = evidenceTopic
    BY <1>1, <1>3 DEF W!Publish
  <2> QED
    BY <1>1, <2>1 DEF RecordedInv, MadeFrom
<1>4. ASSUME NEW w \in Worker, W!Process(w) PROVE RecordedInv'
  <2> DEFINE o == batch[w].next
             r == W!EvidenceOf(o, batch[w].epoch)
  <2>1. CASE evidenceTopic' = evidenceTopic
    BY <1>2, <1>4, <2>1, ProcessEffects
  <2>2. CASE /\ W!Executable(traceTopic[o])
             /\ evidenceTopic' = Append(evidenceTopic, r)
    <3>1. traceTopic' = traceTopic /\ o \in DOMAIN traceTopic
      BY <1>4, ProcessEffects, RecordAtCursor
    <3>2. r.of = o /\ r.body = W!TraceToEvidence(traceTopic[o])
      BY DEF W!EvidenceOf
    <3>3. MadeFrom(r)
      BY <2>2, <3>1, <3>2 DEF MadeFrom
    <3>4. \A i \in DOMAIN evidenceTopic' :
            \/ evidenceTopic'[i] = r
            \/ i \in DOMAIN evidenceTopic /\ evidenceTopic'[i] = evidenceTopic[i]
      <4> HIDE DEF r
      <4> QED
        BY <1>1, <2>2
    <3>5. \A i \in DOMAIN evidenceTopic' : MadeFrom(evidenceTopic'[i])
      BY <1>1, <3>3, <3>4 DEF RecordedInv
    <3> QED
      BY <3>1, <3>5 DEF RecordedInv, MadeFrom
  <2> QED
    BY <1>4, <2>1, <2>2, ProcessEffects
<1>5. ASSUME W!WorkerNext, ~ \E w \in Worker : W!Process(w)
      PROVE  evidenceTopic' = evidenceTopic
  BY <1>5
     DEF W!WorkerNext, W!Assign, W!Evict, W!Expire, W!Notice, W!Commit,
         W!EnterPoll, W!ReturnPoll, W!FailPoll, W!Crash, W!Restart
<1>6. CASE UNCHANGED W!vars
  BY <1>2, <1>6 DEF W!vars
<1> QED
  BY <1>2, <1>3, <1>4, <1>5, <1>6, WorkersOnlyRead DEF W!Next

-----------------------------------------------------------------------------
(* The invariant is one.                                                    *)
THEOREM LoopInvariance == LoopSpec => []LInv
<1>1. LInv /\ [LoopNext]_allVars => LInv'
  <2> SUFFICES ASSUME LInv, [LoopNext]_allVars PROVE LInv'
    OBVIOUS
  <2>1. [Next]_vars /\ [W!Next]_(W!vars)
    BY LoopIsGateway, LoopIsStream
  <2>2. GInv'
    BY <2>1, GTypeStep, CallStep, TopicStep DEF LInv, GInv
  <2> QED
    BY <2>1, <2>2, StreamTypeStep, BatchStep, RecordedStep DEF LInv
<1> QED
  BY LInit, <1>1, PTL DEF LoopSpec, LoopSafeSpec

(* No action without a decision: a worker executes the action of a call     *)
(* only if the call was decided, the policy allows what it asks for, and    *)
(* the caller was not refused, whoever crashed or was evicted meanwhile.    *)
THEOREM ActionsAreDecided == LoopSpec => []NoActionWithoutDecision
<1>1. LInv => NoActionWithoutDecision
  <2> SUFFICES ASSUME LInv, NEW c \in Call, NEW i \in ExecutionsOf(c)
               PROVE  /\ outcome[c].decision = "allow"
                      /\ RegoAllow(body[c].request)
                      /\ status[c] \in {"none", "ok", "publishFailed"}
    BY DEF NoActionWithoutDecision
  <2> DEFINE t == traceTopic[evidenceTopic[i].of]
  <2>1. /\ i \in DOMAIN evidenceTopic
        /\ t.call = c
        /\ evidenceTopic[i].body.result = "ok"
    BY DEF ExecutionsOf
  <2>2. /\ evidenceTopic[i].of \in DOMAIN traceTopic
        /\ evidenceTopic[i].body = W!TraceToEvidence(t)
    BY <2>1 DEF LInv, RecordedInv, MadeFrom
  <2>3. t.decision = "allow"
    BY <2>1, <2>2 DEF W!TraceToEvidence
  <2>4. c \in acked /\ t = DecisionTrace(c)
    BY <2>1, <2>2 DEF LInv, GInv, TopicInv
  <2>5. outcome[c].decision = "allow"
    BY <2>3, <2>4 DEF DecisionTrace
  <2>6. DecidedBy(c)
    BY <2>4 DEF LInv, GInv, CallInv, Sent
  <2>7. /\ body[c].request \in Request
        /\ config.opaURL \in BOOLEAN /\ config.fallback \in BOOLEAN
    BY AskedAssumption DEF LInv, GInv, TypeOK, Body, Config
  <2>8. RegoAllow(body[c].request)
    BY <2>5, <2>6, <2>7, OutcomesFailClosed DEF DecidedBy
  <2>9. status[c] \in {"none", "ok", "publishFailed"}
    BY <2>4 DEF LInv, GInv, TypeOK, CallInv, Sent, Status
  <2> QED
    BY <2>5, <2>8, <2>9
<1> QED
  BY <1>1, LoopInvariance, PTL

(* Every evidence event leads back to its trace and to the call it is for.  *)
THEOREM EvidenceTraceable == LoopSpec => []EvidenceIsTraceable
<1>1. LInv => EvidenceIsTraceable
  <2> SUFFICES ASSUME LInv, NEW i \in DOMAIN evidenceTopic
               PROVE  LET t == traceTopic[evidenceTopic[i].of]
                      IN  /\ evidenceTopic[i].of \in DOMAIN traceTopic
                          /\ evidenceTopic[i].body.corr = CorrelationID(t.call)
                          /\ t = DecisionTrace(t.call)
    BY DEF EvidenceIsTraceable
  <2> DEFINE t == traceTopic[evidenceTopic[i].of]
  <2>1. /\ evidenceTopic[i].of \in DOMAIN traceTopic
        /\ evidenceTopic[i].body.corr = t.corr
    <3>1. /\ evidenceTopic[i].of \in DOMAIN traceTopic
          /\ evidenceTopic[i].body = W!TraceToEvidence(t)
      BY DEF LInv, RecordedInv, MadeFrom
    <3>2. W!TraceToEvidence(t).corr = t.corr
      BY DEF W!TraceToEvidence
    <3> QED
      BY <3>1, <3>2
  <2>2. t = DecisionTrace(t.call)
    BY <2>1 DEF LInv, GInv, TopicInv
  <2>3. t.corr = CorrelationID(t.call)
    BY <2>2 DEF DecisionTrace
  <2> QED
    BY <2>1, <2>2, <2>3
<1> QED
  BY <1>1, LoopInvariance, PTL

(* The safety part of what the workers assume of the gateway: in the loop   *)
(* they see a behaviour of Worker, in which other programs write traces, so *)
(* what is proved of that specification holds here.                         *)
THEOREM LoopImplementsWorker == LoopSpec => StreamSpec
<1>1. LoopInit => W!Init
  BY DEF LoopInit
<1> QED
  BY <1>1, LoopIsStream, LoopInvariance, PTL
     DEF LoopSpec, LoopSafeSpec, StreamSpec, W!SafeSpec
=============================================================================
