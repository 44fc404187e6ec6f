----------------------------- MODULE AgentLoop ------------------------------
(***************************************************************************)
(* The MCP side of the loop: agents that hold work orders, the server they *)
(* call, and the workers of the consumer group, which read the traces of   *)
(* the orders and write evidence beside the agents, without waiting for    *)
(* them and without knowing whether they ever heard of their order.        *)
(***************************************************************************)
EXTENDS WorkOrder

CONSTANTS
  Worker, NoWorker,  \* as in Worker
  MaxTraces,         \* bound: at least one trace for every order
  MaxFaults          \* bound: crashes and evictions of workers

(* As in Worker: nobody holding the partition is not a member.              *)
ASSUME NoWorkerAssumption == NoWorker \notin Worker

(* The bounds leave every order room for its trace.                         *)
ASSUME OrdersAssumption ==
  /\ IsFiniteSet(Task)
  /\ {MaxTraces, MaxCrashes, MaxFaults} \subseteq Nat
  /\ Cardinality(Task) * (MaxCrashes + 1) <= MaxTraces

VARIABLES
  owner, epoch, committed, pc, session, fetched, marked, batch, attempted,
  faults             \* as in Worker

W == INSTANCE Worker WITH Trace <- Traces

serverVars == <<config, phase, args, round, outcome, told, result, sent,
                crashes>>
workerVars == <<owner, epoch, committed, pc, session, fetched, marked, batch,
                attempted, faults>>
loopVars == <<serverVars, topics, workerVars>>

LoopInit == Init /\ W!Init

ServerStep == Next /\ UNCHANGED workerVars

WorkerStep == W!WorkerNext /\ UNCHANGED serverVars

LoopNext == ServerStep \/ WorkerStep

LoopSafeSpec == LoopInit /\ [][LoopNext]_loopVars

LoopSpec == LoopSafeSpec /\ Fairness /\ W!Fairness

-----------------------------------------------------------------------------
(* The evidence workers leave is of a record; the rest are reports.         *)
IsReport(e) == e.of = 0

Under(id) == {i \in DOMAIN evidenceTopic : evidenceTopic[i].body.corr = id}
Reports(id) == {i \in Under(id) : IsReport(evidenceTopic[i])}
Executions(id) == Under(id) \ Reports(id)

(* The correlation ids the orders of a task have had.                       *)
IDs(t) == {t} \X (1..round[t])

SaysExecuted(e) == e.body.evidenceType = "action.executed"

(* Nothing recorded under the order an agent holds says otherwise than it   *)
(* was told: not the trace, and not what workers made of it, before the     *)
(* agent was answered or after.                                             *)
ToldWhatIsRecorded ==
  \A t \in Task : told[t] # "none" =>
    /\ \A i \in DOMAIN traceTopic :
         traceTopic[i].corr = CorrelationID(t)
           => traceTopic[i].decision = told[t]
    /\ \A i \in Under(CorrelationID(t)) :
         SaysExecuted(evidenceTopic[i]) <=> told[t] = "allow"

(* Evidence that something was done, by a worker or by an agent, is under   *)
(* an id of a task whose request the policy allows.  If that is the order   *)
(* the agent holds, it was not refused, and a report means that the agent   *)
(* holds the order and was told to go ahead.                                *)
EvidenceIsPermitted ==
  \A i \in DOMAIN evidenceTopic : SaysExecuted(evidenceTopic[i]) =>
    \E t \in Task :
      LET held == evidenceTopic[i].body.corr = CorrelationID(t)
      IN  /\ evidenceTopic[i].body.corr \in IDs(t)
          /\ RegoAllow(OrderRequest(args[t]))
          /\ held => phase[t] # "refused"
          /\ IsReport(evidenceTopic[i]) => held /\ told[t] = "allow"

(* What is done or reported twice under one order is paid for: executed     *)
(* again only after a fault of a worker, reported again only after a crash  *)
(* of the server, and its trace is in the topic once.                       *)
RepeatsNeedFaults ==
  \A t \in Task : \A id \in IDs(t) :
    /\ Cardinality({i \in DOMAIN traceTopic : traceTopic[i].corr = id}) <= 1
    /\ Cardinality(Executions(id)) <= faults + 1
    /\ Cardinality(Reports(id)) <= crashes + 1

(* An order for an empty action or resource can be granted, worked on and   *)
(* reported, but no worker ever leaves evidence for it.                     *)
EmptyOrdersAreNotExecuted ==
  \A t \in Task : \A id \in IDs(t) :
    "" \in {args[t].action, args[t].resource} => Executions(id) = {}

(* The topics grow as AuditPacket assumes of them: traces are appended and  *)
(* attempted in order, evidence of a trace is appended when it is attempted *)
(* and evidence of agents at any time.                                      *)
P == INSTANCE AuditPacket WITH
       Corr <- Task \X (1..(MaxCrashes + 1)),
       Want <- <<CHOOSE t \in Task : TRUE, 1>>,
       Empty <- "", MaxEdits <- 0, MaxExports <- 0,
       MaxEvidence <- Cardinality(Task) * (MaxCrashes + 1) * (MaxFaults + 2),
       traceTopic <- [i \in DOMAIN traceTopic |->
                        [corr |-> traceTopic[i].corr, policy |-> 1, valid |-> TRUE]],
       evidenceTopic <- [i \in DOMAIN evidenceTopic |->
                           [corr |-> evidenceTopic[i].body.corr,
                            of |-> evidenceTopic[i].of, valid |-> TRUE]],
       attempted <- Cardinality(attempted),
       policy <- 1, pc <- [at |-> "idle", file |-> 0], late <- FALSE,
       seen <- [trace |-> 0, evidence |-> 0],
       found <- [trace |-> 0, evidence |-> 0],
       hash <- 0, dir <- << >>, exports <- 0, handed <- FALSE

PacketEnvironment == P!EnvironmentSpec
=============================================================================
