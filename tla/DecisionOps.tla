---------------------------- MODULE DecisionOps -----------------------------
(***************************************************************************)
(* The decision loop: the gateway decides and writes traces, the workers   *)
(* of the consumer group read them and write evidence.  The two share the  *)
(* trace topic and nothing else, and neither knows of the other.           *)
(***************************************************************************)
EXTENDS Gateway, FiniteSets

CONSTANTS
  Worker, NoWorker,  \* as in Worker
  MaxTraces,         \* bound: at least one trace for every call
  MaxFaults          \* bound: crashes and evictions of workers

(* The bounds leave every call room for its trace.                          *)
ASSUME TracesAssumption ==
  IsFiniteSet(Call) /\ MaxTraces \in Nat /\ Cardinality(Call) <= MaxTraces

VARIABLES
  evidenceTopic, owner, epoch, committed, pc, session, fetched, marked,
  batch, attempted, faults   \* as in Worker

W == INSTANCE Worker WITH Trace <- Traces

gatewayVars == <<config, phase, body, outcome, status, inflight, acked,
                 crashes>>
workerVars == <<evidenceTopic, owner, epoch, committed, pc, session, fetched,
                marked, batch, attempted, faults>>
allVars == <<gatewayVars, traceTopic, workerVars>>

LoopInit == Init /\ W!Init

GatewayStep == Next /\ UNCHANGED workerVars

WorkerStep == W!WorkerNext /\ UNCHANGED gatewayVars

LoopNext == GatewayStep \/ WorkerStep

LoopSafeSpec == LoopInit /\ [][LoopNext]_allVars

LoopSpec == LoopSafeSpec /\ Fairness /\ W!Fairness

-----------------------------------------------------------------------------
(* The evidence that says a call's action was executed.                     *)
ExecutionsOf(c) ==
  {i \in DOMAIN evidenceTopic :
     /\ traceTopic[evidenceTopic[i].of].call = c
     /\ evidenceTopic[i].body.result = "ok"}

(* No action without a policy decision (docs/decision-trace-schema.md): an  *)
(* action is executed only for a call that was decided, whose request the   *)
(* policy allows, and never after the call was refused.                     *)
NoActionWithoutDecision ==
  \A c \in Call : ExecutionsOf(c) # {} =>
    /\ outcome[c].decision = "allow"
    /\ RegoAllow(body[c].request)
    /\ status[c] \in {"none", "ok", "publishFailed"}

(* Every action is traceable: the evidence carries the correlation id that  *)
(* the caller holds, and the trace it came from is in the topic.            *)
EvidenceIsTraceable ==
  \A i \in DOMAIN evidenceTopic :
    /\ evidenceTopic[i].of \in DOMAIN traceTopic
    /\ LET t == traceTopic[evidenceTopic[i].of]
       IN  /\ evidenceTopic[i].body.corr = CorrelationID(t.call)
           /\ t = DecisionTrace(t.call)

(* A call answered 200 by a gateway with a broker is taken up by a worker   *)
(* in the end, even if the gateway dies right after the answer.             *)
AnsweredIsAttempted ==
  \A c \in Call :
    config.streaming /\ status[c] = "ok"
      ~> \E o \in attempted : traceTopic[o].call = c

(* To the workers the gateway is one of the programs that write traces.     *)
StreamSpec == W!SafeSpec
=============================================================================
