# Verification of the trust-steering control plane

TLA+ models of the decision loop of this repository, the TLC configurations
that check them, and TLAPS proofs of what matters most. Paths below are
relative to the repository root (`services/gateway/main.go` and so on).

## The system

| Part | Code | State | Operations | Talks to |
|---|---|---|---|---|
| Policy bundle | `policies/opa/rego/decision.rego` | none | the document `decision` | OPA serves it |
| Policy evaluation | `services/gateway/main.go:225-324` | environment of the process | `evaluatePolicy`, `evaluatePolicyOPA`, `evaluatePolicyLocal` | OPA by HTTP, 2 s timeout |
| Gateway `/decide` | `services/gateway/main.go:146-223`, `kafka.go` | one handler per call, one shared producer | `handleDecide`, `publishDecisionTrace` | policy; trace topic, 5 s for a record that was not sent |
| Gateway MCP server | `services/gateway/mcp_server.go` | none between calls | `request_work_order`, `submit_evidence`, `get_policy_status` | policy; both topics, errors ignored |
| Worker consumer | `services/worker/kafka.go`, `main.go` | position in the stream, batch in hand | `runKafkaConsumer` | trace topic (consumer group), evidence topic, 10 s likewise |
| Worker `/execute` | `services/worker/main.go:103-124` | none | `handleExecute` | caller only: it answers with evidence and produces none |
| Evidence conversion | `services/worker/main.go:126-182` | none | `validateTrace`, `traceToEvidence` | shared by the two above |
| Audit packet | `tools/audit-packet-fetch`, `scripts/export_audit_packet.sh` | first match per topic, files of the packet | poll until both found or deadline, or take two files; check; write | both topics, schema check, policy file |
| Policy deployment | `scripts/compose_up.sh`, `compose_down.sh`, `kind_deploy.sh`, `infra/` | hash in the gateway's environment, config map, rules OPA has loaded | deploy, take down, restart | OPA, gateway, Compose or Kubernetes |
| Schema check | `tools/schema-check`, `schemas/` | none | recursive validation of a JSON value against a schema | export and tests call it |
| Telemetry | `services/*/otel.go` | spans | propagation of trace ids, `traceIDsForDecisionTrace` | collector; `/decide` |
| Supply chain, demos, tests | `scripts/`, `supplychain/` | files | external tools | |

A caller asks the gateway; the gateway asks the policy, writes a decision trace
to `decision.trace.v1` and only then answers. Workers of one consumer group read
that topic and write evidence to `decision.evidence.v1`. The two services share
the topic and nothing else. What is hard here is what happens between them:

* calls run in parallel over one producer, a produce request may outlive the
  process that sent it or a handler that was told of an error, and once it is
  sent only the broker ends the wait for it;
* an engine that is down, slow or has no bundle must not become a permission;
* the policy exists twice (Rego, Go), and in Rego each condition exists twice
  (`allow`, `rationale`);
* a worker's offsets are committed by a timer while its loop is elsewhere;
  members are evicted and do not know it; processes die at any point (neither
  service drains on a signal: only the MCP mode installs a handler, by
  `server.ServeStdio`, and it just ends the server, so being stopped is dying)
  and the containers are restarted (`restart: unless-stopped`);
* an agent that was given a work order and the workers that read its trace act
  on it side by side, and neither waits for the other;
* the hash a trace records and the rules it was decided by reach the gateway and
  OPA by different ways, in scripts that fail half-way;
* one event is described three times: by a schema, by the structs of the gateway
  and by those of the worker.

What makes each part correct: the policy is total, explains itself and is the
same in both copies; the gateway says 200 only with a durable trace and writes
nothing for a refused call; the worker leaves no gap, commits nothing it has not
been through, duplicates only after a fault, and gets to every record; together,
no action without a permitting decision, and every piece of evidence traceable.
A packet is whole and about one decision; a deploy that went through leaves rules
and hash in agreement; and whatever documents come in, those that go out are
what the schemas say.

## The modules

| Module | Models | Built on |
|---|---|---|
| `Policy` | both copies of the policy, what OPA can answer, `evaluatePolicy` | |
| `PolicyEval` | a gateway that evaluates one request after another | `Policy` |
| `Evidence` | `validateTrace`, `traceToEvidence` | |
| `Ledger` | abstract: what the stream of decisions promises | `Evidence` |
| `Worker` | members of the consumer group running `runKafkaConsumer` | `Evidence`, implements `Ledger` |
| `Gateway` | concurrent `handleDecide` calls, producer, broker | `Policy` |
| `DecisionOps` | gateway and workers around the trace topic | `Gateway`, `Worker` |
| `WorkOrder` | the MCP tools and the agents that call them | `Policy` |
| `AgentLoop` | agents, MCP server and workers around both topics | `WorkOrder`, `Worker`, implements the environment of `AuditPacket` |
| `AuditPacket` | the fetch and the export script | |
| `PolicyDeploy` | the deploy scripts, what they start and how it restarts | |
| `SchemaCheck` | the validator and the two schemas | |
| `GoJSON` | `encoding/json` as the services use it (external) | `SchemaCheck` |
| `Contract` | the documents of `/decide`, work orders, traces, `/execute` and evidence, field by field | `GoJSON` |
| `PolicyLemmas`, `PolicyProofs` | proofs about the policy | `PolicyEval` |
| `WorkerProofs` | proofs about the worker and that it implements the ledger | `Worker` |
| `DecisionOpsProofs` | proofs about the gateway alone, and about gateway and workers together | `DecisionOps`, `PolicyLemmas` |
| `AgentLoopProofs` | proofs about agents, server and workers together | `AgentLoop`, `PolicyLemmas` |
| `AuditPacketProofs` | proofs about the export | `AuditPacket` |
| `PolicyDeployProofs` | proof about the deploy scripts | `PolicyDeploy` |
| `ContractProofs` | proofs about the documents | `Contract` |
| `MCPolicy`, `MCWorker`, `MCGateway`, `MCDecisionOps`, `MCAgentLoop`, `MCAuditPacket`, `MCPolicyDeploy`, `MCContract` | instances for TLC | |

Operators whose comment begins with "Mutant:" are not part of a model. Each is
a plausible bug in the definition that follows it, kept to show that the
property it is paired with in `PROJECT.json` would notice.

### Policy

An attribute the request does not carry is `Absent`: a Rego body that refers to
it is undefined and does not hold, while the Go map reads `""`.
`RegoRationales` is the set of values the complete rule `rationale` is given;
OPA fails with a conflict unless it is a singleton. `OPAOutcomes` is everything
`evaluatePolicyOPA` can return: the bundle's decision, the zero value (a 200
without `result`, from an OPA that has no bundle), or an error (timeout,
refusal, status other than 200, undecodable body). Messages are abstracted to
their rationale code; `subject` and `resource` are not read by the policy.

### Gateway

One action per point at which `handleDecide` waits or returns: `ReadBody`,
`Reject` (405, 400), `Decide`, `FailDecision` (502, 503), `Send`, `ContextEnds`
(503), `PublishSucceeds` (200), `PublishFails` (503). `config` is what the
process was started with; without `KAFKA_BOOTSTRAP_SERVERS` there is no producer
and a decision is answered at once.

A trace is first buffered by the producer, and `handleDecide`'s context can end
that wait. Once it is sent (`Send`) the producer waits for the broker, whatever
the context says: it is idempotent by default and `newKafkaProducer` leaves it
so, and such a producer does not give up a record it had no answer for, since
it could not tell whether it was appended. The request is `inflight` from then
on; the broker appends it, at most once (`BrokerAppend`), or it is refused or
lost with its process (`BrokerLose`), also after the call or the gateway is
gone. `PublishFails` needs no cause, so it includes the error of a request that
was refused, and that of one whose retry found the context ended, with the
trace perhaps appended. That it may come earlier than in the code can only add
behaviours to the safety properties; liveness does not rest on it, since it is
forced only when nothing is `Unanswered`. The ids drawn by `randomHex` are the
identities of the calls: collisions are not modelled. Correlation ids chosen by
clients may repeat.

### Worker

`EnterPoll`, `ReturnPoll` and `FailPoll` are the two ends of `PollFetches`;
`Skip`, `Emit` and `Drop` are the ways the callback of `EachRecord` returns for
one record. Each of these goes on to the next record (`Advance`), since the
callback returns nothing to the loop. `Emit` covers evidence that reached the
topic whose answer was lost: the loop does the same.

The group is external code, modelled from the options of `newKafkaWorkerClient`:
no `DisableAutoCommit`, no `AutoCommitMarks`, no `BlockRebalanceOnPoll`. So the
offsets committed are those of the polls before the current one (`marked`, set
when the next poll is entered), a rebalance does not wait for the loop, and an
evicted worker finishes its batch as a zombie: `batch` survives `Notice`.
`epoch` numbers the assignments, and the coordinator accepts a commit only from
the current one.

### DecisionOps

The conjunction of the two: a step of the gateway leaves the workers alone and
the other way round, and `traceTopic` is the one variable both read. A record
of the topic carries the call it came from, which the worker never looks at.

### WorkOrder

`OrderRequest` is what `handleRequestWorkOrder` makes of its arguments: a
missing or empty environment becomes `dev`, attributes that do not parse are
dropped. `DecideOrder` and `AnswerOrder` are the two sides of the publication:
the record is sent or the context ends first, and as the error is ignored,
`AnswerOrder` needs no acknowledgement; `RecordReport` and `AnswerReport` are the
same for evidence. The agents are external and follow
the rules of `docs/mcp.md`: they stop when denied, report under the id they were
given, and repeat a call whose server died. A repeated order is a new order with
a new id (`round`), and the trace of the one that was interrupted may still
arrive.

### AgentLoop

`WorkOrder` and `Worker` over the same two topics, each leaving the variables
of the other alone. Evidence of a worker names the record it is of (`of`), a
report names none. The agent may hear of its order after a worker has executed
it, or never, in which case it asks again and two orders are executed of which
it holds one. `PacketEnvironment` shows that what the two do to the topics is
what `AuditPacket` assumes of its environment.

### AuditPacket

`Start` to `GiveUp` are `audit-packet-fetch`: `seen` is how far each topic was
polled, `found` the first match of each. `StartFromFiles` is the other mode of
the script, which is given the two records. `Open` and `Write` are the two halves
of every redirection, copy or `open(..., 'w')` of the export script, for the
files that say something of the decision; the policy file is copied as it is
then, and hashed as it is when the metadata is begun. `Fail` is `set -e` or an
interruption between any two commands. What fills the topics is abstract
(`EnvironmentNext`): traces in any number under an id, and evidence as `Ledger`
allows a worker to leave it, plus that of agents. Evidence of the services always
passes its schema (`EmittedEventsValidate`), but other programs may write records
under the id, and the script may be given files, so traces and evidence may both
be `valid` or not, and the script checks both. Validity is kept apart only for
the id that is exported: of records of other ids nobody asks.

### PolicyDeploy

Versions of the policy file are numbers, and a hash is the version it was taken
of. One action per command of the scripts that has to do with OPA, the gateway
or the config map. Under Compose, `UpGateway` creates the gateway again if its
environment changed and `UpOPA` leaves an OPA that runs; OPA reads the mounted
directory when it starts and does not watch it (`docker-compose.yml:13` has no
`--watch`). In a cluster, `wanted` holds what the two Deployments ask for and the
controllers follow it with rolling updates, which the script does not wait for;
`mount` is what the volume of a pod shows, which follows the config map
(`Sync`), and `rules` what its OPA has loaded. `Reload` is an OPA container that
died. `Fail` ends the script at any command, as `set -e` does.

### SchemaCheck, GoJSON, Contract

A JSON value is a record with one field, named for its kind; a schema node
likewise. `Validate` is the validator branch by branch. `Decodes`, `Decoded` and
`Encoded` are what Go does with a struct: null leaves a field at its zero value,
unknown keys are an error for `/decide` and ignored by the worker, `omitempty`
leaves out what is empty. `Contract` takes a document through `/decide`, or an
order through `request_work_order`, to the trace, and a trace, or a record of
another program, through the worker or `/execute` to evidence. The agent's
evidence is made by the gateway, whose struct keeps empty details, and the
worker's by the worker. `IsDecisionTrace` reads the trace schema a second
time, as a table of paths, to compare the validator with.

The validator and `encoding/json` call themselves for the parts of a value. The model
gives one step of such a recursion (`ValidateType`, `DecodesType`, `DecodedType`,
`EncodedType`) what to do with the parts, and takes as many steps as the schemas and the
structs are deep: both are fixed in the code, at most five deep for what is written and
validated, three for what is decoded, and it is they, not the document, that end the
recursion. So nothing is cut off, and the provers can follow. `At` reads a document at
a path of up to two keys, which is as far as the tables go. `Joined` is `@@` of the
module `TLC`, defined here because a proof cannot see into `@@`.

### Abstractions

* One partition per topic, as `scripts/compose_up.sh` creates them (`-p 1`);
  no retention, no loss of appended records.
* Decisions are in lower case. The code calls `strings.ToLower` on every path
  that looks at one, and the gateway writes them so.
* The required fields `validateTrace` tests are one Boolean, `complete`, except
  in `Contract`, which has them all and where texts are a few values: empty, a
  decision, where an id comes from, or any other.
* Keys of JSON objects are compared as written, though Go would also match
  another case; the order of the fields in a schema is left out, and so is what
  follows the document in a body.
* Evidence whose produce failed is appended at that moment or never; one
  that arrives later, between evidence of later records, is not modelled. No
  property here is about the order of the evidence topic.
* Timeouts are nondeterministic: a wait that has one may end at any time.
* An edited policy file loads: versions that do not compile are not modelled.
  With one the new OPA pod would not become ready, the rollout would stand still
  and `DeployTakesEffect` would not hold.
* JSON values have no booleans: no schema and no struct of an event has one, and
  `Number` stands for any value that is neither text, null, list nor object.
* A `Crash` of the gateway loses its calls; requests already sent may still
  arrive. `faults` bounds crashes and evictions of workers together.

## The runs

| Run | Checks | Bounds |
|---|---|---|
| `policy` | `PolicyIsTotal`, `RationaleExplainsDecision`, `LocalAgreesWithRego`, `EvaluationFailsClosed` | 5 actions, 3 environments, 3 values or absent for both attributes |
| `worker` | `CommittedWereAttempted`, `AttemptedInOrder`, `AtMostOncePerAssignment`, `DuplicatesNeedFaults`, `CommitsMoveForward`, `EveryTraceCommitted`, `LedgerSpec` | 2 workers, 2 records, good or refused, 2 faults |
| `gateway` | `OkMeansDurable`, `OneTracePerCall`, `RefusedLeavesNoTrace`, `TraceFollowsPolicy`, `OnlyPeersHoldCalls` | 2 calls, 1 crash, all 8 configurations |
| `decision_ops` | `NoActionWithoutDecision`, `EvidenceIsTraceable`, `StreamSpec`, `AnsweredIsAttempted` | 2 calls (one allowed, one denied or malformed), 1 worker, 1 crash and 1 fault |
| `agent_loop` | `ToldWhatIsRecorded`, `EvidenceIsPermitted`, `RepeatsNeedFaults`, `EmptyOrdersAreNotExecuted`, `OnlyBrokerHoldsToolCalls`, `PacketEnvironment` | 1 agent with one of 4 orders, 1 crash of the server, 1 worker, 1 fault, 3 configurations |
| `audit_packet` | `ExportedPacketIsWhole`, `PacketHoldsCheckedRecords`, `PacketHoldsFirstRecords`, `ChainBreaksOnlyOnLoss`, `PacketPolicyIsRecent`, `ExportEnds` | 2 traces and 2 events, 2 ids, 2 exports, 1 edit of the policy |
| `policy_deploy` | `CleanDeployIsVersioned`, `DeployTakesEffect` | both platforms, 2 edits, 2 runs of the script |
| `contract` | `EmittedEventsValidate`, `CheckIsConformance`, `SkippedOnlyForGaps`, `ChainKeepsIds` | a document with every field, spoilt in up to 2 of 12 (requests) or 15 (records) places in one of 6 ways |

`worker` and `gateway`, whose proofs rest on them, also check their `TypeOK`.

Why these bounds: the rules test equality with four strings, so one value that
passes, values that fail by spelling or case, and absence cover every branch.
With two workers and two faults there is a zombie beside a new owner, which is
in turn evicted or dies; with two records a poll can return one or both, so a
commit can lag within a batch and a gap could open. Two calls are enough for
their sends and appends to cross. One agent whose server dies once has two
orders, one of them nobody holds, and their traces and reports can arrive in
either order around what the worker does with them; agents share nothing but the
topics, so a second one adds interleavings and no case. Two exports with two
traces under one id give every way a second run can find more than the first,
interrupted at every file. Two runs of a deploy script, the first of which may
fail at any command, with an edit before, between and during them, meet every
mixture of old and new configuration, and a rollout overtaken by another. Two
spoilt places reach a section and a field in it, or two fields that are decoded
together. The gateway, agent, export, deploy and contract models do not check
for deadlock: calls, tasks, runs of a script and documents are finitely many and
these models rightly stop when all are over. The workers' loop never stops, and
its run does check.

Four runs state what the repository says of itself and TLC refutes it:

| Run | The text | The code |
|---|---|---|
| `policy_rego_test` | `policies/opa/tests/decision_test.rego:3`: a deploy to dev with no request attributes is allowed | `decision.rego:12`: it needs `tests_passed` |
| `work_order_durable` | `services/gateway/kafka.go:70`: failure to publish must fail the request | `mcp_server.go:190`: the error is discarded and the permission handed out |
| `audit_packet_chain` | `docs/audit-packet.md`: a reviewer can reconstruct the causal chain | `tools/audit-packet-fetch/main.go:81`: first trace and first evidence are kept independently of each other |
| `policy_versioned` | `docs/decision-trace-schema.md:23`: a trace records the exact bundle hash used | `services/gateway/main.go:276`: it records the hash the gateway was started with; OPA keeps or reloads rules on its own |

Next to each stands what does hold instead: `OkMeansDurable` for `/decide`,
`ToldWhatIsRecorded` for work orders, `ChainBreaksOnlyOnLoss` for packets,
`CleanDeployIsVersioned` for deploys.

Met while reading and not given a run:

* `services/gateway/README.md:27` says the local fallback is used when OPA is
  unavailable, but `main.go:227` reaches it only when `OPA_URL` is not set;
  `docs/mcp.md:269` says the fallback's actions are those of `isAllowedAction`,
  which nothing calls.
* `specs/README.md:6` asks for idempotent execution for a correlation id, and
  the worker executes a redelivered trace, or a second trace under the same id,
  again.
* `infra/compose/README.md:36` says the worker produces evidence after consuming
  a trace; when producing fails it logs that and the trace is committed all the
  same (`services/worker/kafka.go:135`).
* `docs/audit-packet.md:21` wants the exact policy bundle to be verifiable, and
  the export copies the policy file of its own moment
  (`export_audit_packet.sh:101`) without comparing it with the trace.
* Evidence of an agent has a trace id of its own (`mcp_server.go:248`), so it is
  tied to its order by the correlation id alone.
* For a work order that is allowed, a worker writes `action.executed` with result
  `ok` whether or not the agent has done, or will do, the work.
* The contexts of 5 s and 10 s do not bound `ProduceSync` once the record was sent
  (`services/gateway/main.go:204`, `mcp_server.go:188`, `services/worker/kafka.go:125`),
  and `/decide` reads its body without a limit of time (`main.go:127` sets only
  `ReadHeaderTimeout`).
* `main.go:245` ignores the error of `http.NewRequestWithContext`: with an
  `OPA_URL` that does not parse the request is nil, and every call panics and is
  cut off by `net/http` without an answer. No trace is written.
* A broker list without an address stops the worker (`services/worker/kafka.go:70`)
  and leaves the gateway without a producer and without a word
  (`services/gateway/kafka.go:53`).
* `parseOTLPEndpoint` returns no error for an endpoint without a host
  (`otel.go:78`).
* A second export copies `supplychain/sbom/out` into the `sbom_out` that is
  already there, one level deeper (`export_audit_packet.sh:137`).

## Fairness

* A handler of the gateway returns from the waits that have a limit
  (`Returns`): `evaluatePolicyOPA` has 2 s, and a trace that is not sent yet 5 s.
  Two waits have none, and `OnlyPeersHoldCalls` says that a call that stays open
  is in one of them. The body is read under no timeout, as `main` sets only
  `ReadHeaderTimeout`, so the client owes nothing. And the context does not end
  the wait for a request that was sent: the broker need not take it nor answer
  it, and `PublishFails` is forced only for one that was refused.
* A worker's loop goes on (`WF` of `Process`, `EnterPoll`): nothing in the
  callback blocks but `ProduceSync`. This takes a broker that lives: the 10 s
  bound only a record that was not sent, so what was sent must be answered or
  fail with its connection. `EveryTraceCommitted` and `LedgerSpec` need such a
  broker for commits and assignments as it is. Polls that are repeated for ever
  return records now and then if there are any (`SF` of `ReturnPoll`: fetch
  errors may come between, so `WF` would not do).
* The autocommit timer fires, expired sessions end, evicted members learn of it,
  the partition is assigned to somebody, and containers are restarted (`WF`).
* Tool calls return like calls of `/decide`, except that there is no body to wait
  for (`OnlyBrokerHoldsToolCalls`); agents and broker owe nothing. The clock of
  the export reaches the deadline, `PollFetches` returns then at the latest, and
  the other commands of the script end.
* The controllers of Kubernetes start what is wanted and stop what is not (`WF`
  of `StartOPA`, `StartGateway`, `StopOPA`, `StopGateway`). Nobody has to edit or
  deploy, the script may fail at any command, and volumes need not be synced.
* Nothing is assumed of `Crash`, `Evict`, `Emit` against `Drop`, or of clients.

## What is proved

All by TLAPS, for every value of the constants that meets the assumptions the
modules name:

* `AbsentAssumption`, `NoWorkerAssumption`, `CorrAssumption`, `MarkAssumption`,
  `PresentAssumption`: the marks for what is missing are not values.
* `AskedAssumption`, `OfferedAssumption`, `WantAssumption`: what clients send is
  of the type the handlers read. `DevAssumption`: `dev`, which
  `handleRequestWorkOrder` fills in, is an environment.
* `DocumentsAssumption` (`Contract`): what is posted or lies in the topic is JSON, or
  `Missing`, which stands for what is no document at all. The assumption looks three
  levels into a document, as far as the properties do, and says nothing of which keys or
  kinds are where. `IDsAssumption` (`Contract`): an id of a caller is known as one by its
  mark `"request"`, or it is empty; a body with another text there would be an id whose
  origin the model has lost.
* `BoundsAssumption` (`Worker`, `AuditPacket`, `PolicyDeploy`): bounds are numbers.
  They may be any numbers, so nothing proved depends on where TLC stops.
* `TracesAssumption` (`DecisionOps`): calls are finitely many and the bound on the
  topic leaves room for a trace of each. Without it a step of the gateway could be
  one that the bounded `Publish` of `Worker` does not allow.
* `OrdersAssumption` (`AgentLoop`): the same for orders. Tasks are finitely many, the
  bounds are numbers, and the bound on the topic leaves room for a trace of each round
  a task can have.

* **Policy.** `RulesExclusive` and `BodiesAgree` are the two facts the rest
  follows from: no two rationale bodies hold together, and each equals its
  allow body. From these, `LocalEqualsRego` (hence `LocalAgreement`), and
  `OutcomesFailClosed` (hence `FailsClosed`), `RationaleCorrect`,
  `PolicyTotal`. The invariant is that the pending outcome is one the policy
  can return for the request under evaluation.
* **Worker.** `IndInv == TypeOK /\ MemberInv /\ GroupInv /\ PrefixInv`.
  `CommittedWereAttempted` is not inductive: what is committed is what some
  member marked, so `MemberInv` keeps `marked <= fetched`, says where the batch
  in hand lies relative to both, and `PrefixInv` that everything up to
  `committed`, up to every `marked` and before every batch's next record was
  attempted, and that what was attempted is a prefix. `GroupInv` keeps sessions
  and epochs apart, so that only the owner's mark can be committed, and that
  mark is never behind what is committed (`CommitsForward`). `EvInd` says that
  evidence under an assignment is of records before the batch that assignment is
  in, which gives `AtMostOnce`; `FaultInv` that there were at most `faults + 1`
  assignments that can have left evidence, and the count of evidence of a trace
  is bounded by an injection into them, which gives `DuplicatesBounded`.
  `ImplementsLedger` shows that the worker's steps are ledger steps.
* **Gateway.** `GInv == TypeOK /\ CallInv /\ TopicInv`. `OkMeansDurable` needs to
  know that an acknowledged call's trace is in the topic with the outcome the
  call still has, so `TopicInv` ties topic, `inflight` and `acked` together and
  `CallInv` ties phases to outcomes. `OutcomeType` (`PolicyLemmas`) says what any
  outcome of the policy looks like, and with it `GatewayTypes` what any record of
  the topic looks like.
* **Gateway and workers** (`DecisionOpsProofs`). `LInv == GInv /\ W!TypeOK /\
  BatchInv /\ RecordedInv`. A step of the loop is a step of the gateway or leaves
  its variables alone, so `GInv` carries over; `RecordedInv` says of evidence that
  it is what `TraceToEvidence` makes of an executable record of the topic, and
  `BatchInv` that a worker is always at such a record. `NoActionWithoutDecision`
  is then a chain: evidence, its trace, the call `TopicInv` names for the trace,
  and what `CallInv` says of that call. `LoopImplementsWorker` needs that every
  append is within the bound of `Publish`: `RoomForTrace` counts the records by an
  injection into the calls. What is proved of the worker's safety specification
  therefore holds in the loop.
* **Agents, server and workers** (`AgentLoopProofs`). `ALInv == Types /\ OrderInv /\
  SentInv /\ TraceInv /\ EvidenceInv /\ BatchInv`. The server ignores errors, so
  nothing that was answered says what is in a topic; `TraceStands` and
  `ReportStands` go the other way, from a record, sent or appended, to the order it
  was written for. They have to hold when the agent has given that order up for a
  new one, so what they say of a decision is about the round still held and what
  they say of the request about the task, which asks for the same in every round.
  `ToldWhatIsRecorded`, `EvidenceIsPermitted` and `EmptyOrdersAreNotExecuted` follow
  from there, the last two through what a worker makes of a trace.
  `RepeatsNeedFaults` needs a second invariant, `RepInv == OnceInv /\ CountInv /\
  HoldInv /\ LeftInv`. `OnceInv` says that no order has two traces, in the topic or
  on the way: the server sends one only for an order that has none. `CountInv` says
  that the reports of an order, in the topic or on the way, are at most the crashes
  and the one call that came through; a report moves from one count to the other
  when it arrives and stays in neither when it is lost. `HoldInv` and `LeftInv` are
  the worker's assignments, cursors and faults, beside a topic that agents write to
  as well: an assignment has one holder, evidence stays behind the cursors of its
  assignment, and so under one assignment a trace is executed once. The executions
  under an id are then counted by an injection into the assignments that faults
  paid for.
  `DoneInv` says what every cursor stands for: the attempted records are a prefix
  `1..n`, what is committed or would be is within it, and what a poll returned is, or is
  about to be by the batch of the same assignment. `NothingIsSkipped` is the part of it
  that `Worker` promises, too. `LoopFeedsPacket` shows that every step is a step of
  AuditPacket's environment or changes nothing it sees: `DoneInv` makes an attempt one
  of the next record or of an old one, and the bounds on crashes and faults (`BoundInv`)
  with `RepInv` tell every record of a topic apart by an element of a finite set (its id;
  for evidence also the assignment, or the number of the report), so that both topics
  are as short as AuditPacket lets them be.
* **Audit packet** (`AuditPacketProofs`). `PInv == TypeInv /\ TopicInv /\ FoundInv /\
  DirInv /\ RunInv`. The topics grow while the script runs, so each part has to
  survive appending: `Searched` that the match kept is the first of those polled and
  hence of all there will be, `DirInv` what any run left in a file, `RunInv` what
  this one has written so far. `ChainLoss` needs also that a first evidence of the
  packet's own trace, had it been left before, would be the first with the id.
* **Policy deployment** (`PolicyDeployProofs`). `DInv == TypeInv /\ HashInv /\
  ComposeInv /\ KindInv`. The property speaks of the end of a deploy, the invariant
  of each command of the script: what it has achieved, and what earlier deploys can
  still have running. In a cluster the pods of the generation wanted were started
  from what is wanted now; under Compose the file moves only forward, so that a file
  equal to the hash was not edited since.
* **Documents** (`ContractProofs`), for any documents. Schemas, structs and table are
  data that operators walk, so each walk is first shown to ask what a flat predicate asks
  key by key: `TraceCheck` and `EvidenceCheck` for the validator (`IsTrace`,
  `IsEvidence`), `EncodedTrace` and `EncodedEvidence` for what is written, `WorkerReads`
  and `RequestReads` for what is read. From there `WalkConforms` and `ConformsWalk` give
  `CheckIsConformance`, and `TraceDecodes` that schema and worker's struct never disagree.
  `ContractInv == OriginInv /\ TraceInv /\ EvidenceInv /\ SkippedOnlyForGaps /\ ChainInv`
  is inductive; the properties alone are not. A worker executes what the gateway wrote,
  so `TraceInv` keeps of a trace that the schema accepts it, that no mandatory text of a
  call is empty, that only action or resource of an order can be, and how its ids and
  those of the body hang together. `ChainInv` keeps that evidence has the ids of its
  trace, `OriginInv` that a record of another program is still one of `Records`.

Only model-checked:

* Liveness, and the fairness part of `LedgerSpec`: TLAPS does not reason about
  `ENABLED` here.

Every invariant and every action property of a passing run is stated by a theorem. TLC
checked the inductive invariants on the instances of the runs first, except the
membership of `OriginInv` in `Records`, a set of nested documents TLC is too slow to
search in every state.

## Not modelled, and the plan

Every component of the plan is modelled, and what is not proved is what the provers
cannot do, listed above.

Left out for good: exporters and spans (nothing the system acts on),
`kafka-read-one` and the demo and test scripts (drivers of what is modelled), the
supply-chain scripts (straight-line calls of external tools). Parts of modelled
components that are left out: what the export copies besides the decision
(schemas, key and SBOMs), `get_policy_status`, which changes nothing, and in the
deploy scripts the worker, the topics and the observability stack.
