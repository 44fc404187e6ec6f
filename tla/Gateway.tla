------------------------------ MODULE Gateway -------------------------------
(***************************************************************************)
(* The HTTP side of the gateway: concurrent POST /decide calls, each one   *)
(* evaluated by the policy and, when a broker is configured, answered only *)
(* after its decision trace was produced to decision.trace.v1.             *)
(*                                                                         *)
(* net/http runs handleDecide once per call, in parallel; the calls share  *)
(* only the producer and the topic.  ProduceSync hands the trace to the    *)
(* producer, which sends it in a request of its own.  Until then the five  *)
(* seconds of handleDecide's context end the wait; a request that was sent *)
(* is waited for until the broker answers it.  It can reach the topic      *)
(* after the process died, or after a retriable error let the producer     *)
(* give up on it.  The producer is idempotent: one request is appended at  *)
(* most once.                                                              *)
(***************************************************************************)
EXTENDS Policy, Naturals, Sequences

CONSTANTS
  Call,        \* calls of POST /decide; also the ids drawn by randomHex
  Corr,        \* correlation ids that clients choose themselves
  NoCorr,      \* the call carries no correlation id
  Asked,       \* the requests clients make
  MaxCrashes   \* bound: crashes of the gateway

ASSUME AskedAssumption == Asked \subseteq Request
ASSUME CorrAssumption == NoCorr \notin Corr /\ Corr \cap Call = {}

VARIABLES
  config,      \* how the gateway was started: OPA_URL, fallback, broker
  phase,       \* where each call is
  body,        \* what each call carries
  outcome,     \* what evaluatePolicy returned for each call
  status,      \* what each call was answered
  inflight,    \* calls whose produce request is on its way to the broker
  acked,       \* calls whose produce request the broker appended
  traceTopic,  \* decision.trace.v1
  crashes      \* crashes so far

vars == <<config, phase, body, outcome, status, inflight, acked, traceTopic,
          crashes>>

Config == [opaURL : BOOLEAN, fallback : BOOLEAN, streaming : BOOLEAN]

(* What a call carries: whether it is a POST, whether its body decodes and  *)
(* passes validateRequest, its correlation id and its request.              *)
Body == [post : BOOLEAN, valid : BOOLEAN, corr : Corr \cup {NoCorr},
         request : Asked]

Undecided == [kind |-> "undecided", decision |-> "none", code |-> "none"]

(* Mutant: a call without a correlation id is not given one.                *)
CorrelationIDUnset(c) == body[c].corr

CorrelationID(c) == IF body[c].corr = NoCorr THEN c ELSE body[c].corr

(* The decision trace handleDecide builds for a call.  It is complete: the  *)
(* required fields were validated, generated or given a default.            *)
DecisionTrace(c) ==
  [call     |-> c,
   parses   |-> TRUE,
   complete |-> TRUE,
   corr     |-> CorrelationID(c),
   action   |-> body[c].request.action,
   decision |-> outcome[c].decision,
   code     |-> outcome[c].code]

(* The traces a gateway can write.                                          *)
Traces ==
  [call     : Call,
   parses   : {TRUE},
   complete : {TRUE},
   corr     : Corr \cup Call,
   action   : {q.action : q \in Asked},
   decision : {"allow", "deny"},
   code     : Rule \cup {"DEFAULT_DENY", "none"}]

Init ==
  /\ config \in Config
  /\ phase = [c \in Call |-> "idle"]
  /\ body \in [Call -> Body]
  /\ outcome = [c \in Call |-> Undecided]
  /\ status = [c \in Call |-> "none"]
  /\ inflight = {}
  /\ acked = {}
  /\ traceTopic = << >>
  /\ crashes = 0

-----------------------------------------------------------------------------
(* The server has the headers of a call and starts its handler.             *)
Receive(c) ==
  /\ phase[c] = "idle"
  /\ phase' = [phase EXCEPT ![c] = "reading"]
  /\ UNCHANGED <<config, body, outcome, status, inflight, acked, traceTopic,
                 crashes>>

Answer(c, s) ==
  /\ phase' = [phase EXCEPT ![c] = "answered"]
  /\ status' = [status EXCEPT ![c] = s]

(* The decoder has the body of a POST, or an error where it ends early.     *)
ReadBody(c) ==
  /\ phase[c] = "reading"
  /\ body[c].post
  /\ phase' = [phase EXCEPT ![c] = "handling"]
  /\ UNCHANGED <<config, body, outcome, status, inflight, acked, traceTopic,
                 crashes>>

(* handleDecide refuses the call before it asks for a decision.             *)
Reject(c) ==
  /\ \/ /\ phase[c] = "reading" /\ ~body[c].post
        /\ Answer(c, "methodNotAllowed")
     \/ /\ phase[c] = "handling" /\ ~body[c].valid
        /\ Answer(c, "badRequest")
  /\ UNCHANGED <<config, body, outcome, inflight, acked, traceTopic, crashes>>

(* evaluatePolicy returns a decision; with a broker the trace is handed to  *)
(* the producer, without one the call is answered.                          *)
Decide(c) ==
  /\ phase[c] = "handling"
  /\ body[c].valid
  /\ \E o \in PolicyOutcomes(config.opaURL, config.fallback, body[c].request) :
       /\ o.kind = "decided"
       /\ outcome' = [outcome EXCEPT ![c] = o]
  /\ IF config.streaming
     THEN phase' = [phase EXCEPT ![c] = "buffered"] /\ UNCHANGED status
     ELSE Answer(c, "ok")
  /\ UNCHANGED <<config, body, inflight, acked, traceTopic, crashes>>

(* Mutant: handleDecide does not return after evaluatePolicy failed.        *)
FailDecisionGoesOn(c) ==
  /\ phase[c] = "handling"
  /\ body[c].valid
  /\ Failed \in PolicyOutcomes(config.opaURL, config.fallback, body[c].request)
  /\ Answer(c, "policyFailed")
  /\ inflight' = inflight \cup {c}
  /\ UNCHANGED <<config, body, outcome, acked, traceTopic, crashes>>

(* evaluatePolicy returns an error.                                         *)
FailDecision(c) ==
  /\ phase[c] = "handling"
  /\ body[c].valid
  /\ \E o \in PolicyOutcomes(config.opaURL, config.fallback, body[c].request) :
       \/ o.kind = "failed" /\ Answer(c, "policyFailed")
       \/ o.kind = "unavailable" /\ Answer(c, "policyUnavailable")
  /\ UNCHANGED <<config, body, outcome, inflight, acked, traceTopic, crashes>>

(* Mutant: publishDecisionTrace has no context that ends.                   *)
ContextEndsNever(c) == FALSE

(* The context of handleDecide ends, for lack of time or of a client, while *)
(* the trace is buffered: the producer drops it, and it is never sent.      *)
ContextEnds(c) ==
  /\ phase[c] = "buffered"
  /\ Answer(c, "publishFailed")
  /\ UNCHANGED <<config, body, outcome, inflight, acked, traceTopic, crashes>>

(* The producer writes the trace to the broker in a produce request.        *)
Send(c) ==
  /\ phase[c] = "buffered"
  /\ phase' = [phase EXCEPT ![c] = "publishing"]
  /\ inflight' = inflight \cup {c}
  /\ UNCHANGED <<config, body, outcome, status, acked, traceTopic, crashes>>

(* Mutant: the producer resends, and the broker does not deduplicate.       *)
BrokerAppendTwice(c) ==
  /\ c \in inflight
  /\ traceTopic' = Append(traceTopic, DecisionTrace(c))
  /\ acked' = acked \cup {c}
  /\ UNCHANGED <<config, phase, body, outcome, status, inflight, crashes>>

(* The broker appends a trace, whatever has become of the call meanwhile.   *)
BrokerAppend(c) ==
  /\ c \in inflight
  /\ traceTopic' = Append(traceTopic, DecisionTrace(c))
  /\ inflight' = inflight \ {c}
  /\ acked' = acked \cup {c}
  /\ UNCHANGED <<config, phase, body, outcome, status, crashes>>

(* The broker refuses a produce request, the producer gives up on it, or it *)
(* is lost with the process that sent it.                                   *)
BrokerLose(c) ==
  /\ c \in inflight
  /\ inflight' = inflight \ {c}
  /\ UNCHANGED <<config, phase, body, outcome, status, acked, traceTopic,
                 crashes>>

(* Mutant: the call is answered once the trace is buffered.                 *)
PublishBuffered(c) ==
  /\ phase[c] = "publishing"
  /\ Answer(c, "ok")
  /\ UNCHANGED <<config, body, outcome, inflight, acked, traceTopic, crashes>>

(* publishDecisionTrace returns nil.                                        *)
PublishSucceeds(c) ==
  /\ phase[c] = "publishing"
  /\ c \in acked
  /\ Answer(c, "ok")
  /\ UNCHANGED <<config, body, outcome, inflight, acked, traceTopic, crashes>>

(* publishDecisionTrace returns an error for a request that was sent: it    *)
(* was refused, or the context had ended when a retriable error came back,  *)
(* with the trace perhaps appended.  No cause is asked for, so the error    *)
(* can come earlier here than in the code, never later.                     *)
PublishFails(c) ==
  /\ phase[c] = "publishing"
  /\ Answer(c, "publishFailed")
  /\ UNCHANGED <<config, body, outcome, inflight, acked, traceTopic, crashes>>

(* A call is open: its handler runs.                                        *)
Open(c) == phase[c] \in {"reading", "handling", "buffered", "publishing"}

(* The process dies and is restarted: its calls are never answered.         *)
Crash ==
  /\ crashes < MaxCrashes
  /\ crashes' = crashes + 1
  /\ phase' = [c \in Call |-> IF Open(c) THEN "lost" ELSE phase[c]]
  /\ UNCHANGED <<config, body, outcome, status, inflight, acked, traceTopic>>

Handle(c) ==
  ReadBody(c) \/ Reject(c) \/ Decide(c) \/ FailDecision(c) \/ ContextEnds(c)
    \/ Send(c) \/ PublishSucceeds(c) \/ PublishFails(c)

Broker(c) == BrokerAppend(c) \/ BrokerLose(c)

Next == Crash \/ \E c \in Call : Receive(c) \/ Handle(c) \/ Broker(c)

SafeSpec == Init /\ [][Next]_vars

(* The call has a produce request that was not refused, and may still wait  *)
(* for the broker to answer it.                                             *)
Unanswered(c) == phase[c] = "publishing" /\ c \in inflight \cup acked

(* The steps that nobody outside the process can hold up.  OPA has two      *)
(* seconds and a buffered trace has five; a request that was refused or     *)
(* given up on is one that ProduceSync returns for.                         *)
Returns(c) ==
  \/ Reject(c) \/ Decide(c) \/ FailDecision(c) \/ ContextEnds(c)
  \/ ~Unanswered(c) /\ PublishFails(c)

(* The client need not finish its body, for which the server sets no limit, *)
(* nor the broker take a request or answer one it took.                     *)
Fairness == \A c \in Call : WF_vars(Returns(c))

Spec == SafeSpec /\ Fairness

-----------------------------------------------------------------------------
Phase == {"idle", "reading", "handling", "buffered", "publishing", "answered",
          "lost"}

Status == {"none", "ok", "methodNotAllowed", "badRequest", "policyFailed",
           "policyUnavailable", "publishFailed"}

(* The variables keep their types.                                          *)
TypeOK ==
  /\ config \in Config
  /\ phase \in [Call -> Phase]
  /\ body \in [Call -> Body]
  /\ outcome \in [Call -> [kind : {"undecided", "decided"},
                           decision : {"none", "allow", "deny"},
                           code : Rule \cup {"none", "DEFAULT_DENY"}]]
  /\ status \in [Call -> Status]
  /\ inflight \subseteq Call
  /\ acked \subseteq Call
  /\ traceTopic \in Seq(Traces)
  /\ crashes \in Nat

(* kafka.go, publishDecisionTrace: no call is answered 200 unless its       *)
(* decision trace, with the decision it was told, is in the topic.          *)
OkMeansDurable ==
  \A c \in Call :
    config.streaming /\ status[c] = "ok" =>
      \E i \in DOMAIN traceTopic : traceTopic[i] = DecisionTrace(c)

(* A call leaves at most one trace, however late or often the broker is     *)
(* heard of.                                                                *)
OneTracePerCall ==
  \A i, j \in DOMAIN traceTopic :
    traceTopic[i].call = traceTopic[j].call => i = j

(* A call refused before publishing, for its form or because no decision    *)
(* could be had, has no trace and will have none.                           *)
RefusedLeavesNoTrace ==
  \A c \in Call :
    status[c] \in {"methodNotAllowed", "badRequest", "policyFailed",
                   "policyUnavailable"} =>
      /\ c \notin inflight
      /\ \A i \in DOMAIN traceTopic : traceTopic[i].call # c

(* The topic never says allow of a request the policy denies, nor gives a   *)
(* permission no rule explains.                                             *)
TraceFollowsPolicy ==
  \A i \in DOMAIN traceTopic :
    traceTopic[i].decision = "allow" =>
      /\ RegoAllow(body[traceTopic[i].call].request)
      /\ traceTopic[i].code \in RegoRationales(body[traceTopic[i].call].request)

(* Every call is answered or lost with its process, whatever OPA does and   *)
(* though no broker can be reached, except for two: one whose client never  *)
(* finishes the body, and one whose trace was sent to a broker that never   *)
(* answers.                                                                 *)
OnlyPeersHoldCalls ==
  \A c \in Call :
    \/ []<>~Open(c)
    \/ <>[](phase[c] = "reading" /\ body[c].post)
    \/ <>[]Unanswered(c)
=============================================================================
