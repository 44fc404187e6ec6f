------------------------------- MODULE Worker -------------------------------
(***************************************************************************)
(* The stream side of the worker: processes that run runKafkaConsumer as   *)
(* members of one consumer group over decision.trace.v1 (one partition)    *)
(* and produce evidence to decision.evidence.v1.                           *)
(*                                                                         *)
(* The loop and what it does with a record are the repository's code.  The *)
(* group, its offsets and its broker are the library's and the broker's,   *)
(* modelled as newKafkaWorkerClient configures them: automatic commit of   *)
(* the offsets of the polls before the last one, start at the oldest       *)
(* record when nothing is committed, a commit accepted only from the       *)
(* member that owns the partition in the current generation.               *)
(*                                                                         *)
(* A worker has no signal handler, so being stopped is the same as         *)
(* crashing; the compose file restarts it.                                 *)
(***************************************************************************)
EXTENDS Integers, Sequences, FiniteSets, Evidence

CONSTANTS
  Worker,     \* worker processes of the consumer group
  NoWorker,   \* owner of the partition when no member holds it
  Trace,      \* records other programs write to the trace topic
  MaxTraces,  \* bound: records written to the trace topic
  MaxFaults   \* bound: crashes and evictions

ASSUME NoWorkerAssumption == NoWorker \notin Worker
ASSUME BoundsAssumption == MaxTraces \in Nat /\ MaxFaults \in Nat

VARIABLES
  traceTopic,     \* decision.trace.v1: records in offset order
  evidenceTopic,  \* decision.evidence.v1
  owner,          \* group coordinator: member that owns the partition
  epoch,          \* group coordinator: number of assignments made so far
  committed,      \* group coordinator: records 1..committed are committed
  pc,             \* where each worker is in its loop, or "down"
  session,        \* assignment each worker believes it holds, 0 for none
  fetched,        \* records 1..fetched were returned by its polls
  marked,         \* records 1..marked are what its autocommit would commit
  batch,          \* records its loop is in, and under which assignment
  attempted,      \* ghost: offsets some worker has finished with
  faults          \* crashes and evictions so far

groupVars == <<owner, epoch, committed>>
memberVars == <<session, fetched, marked>>
loopVars == <<pc, batch>>
vars == <<traceTopic, evidenceTopic, groupVars, memberVars, loopVars,
          attempted, faults>>

NoBatch == [epoch |-> 0, next |-> 1, last |-> 0]

Init ==
  /\ traceTopic = << >>
  /\ evidenceTopic = << >>
  /\ owner = NoWorker
  /\ epoch = 0
  /\ committed = 0
  /\ pc = [w \in Worker |-> "loop"]
  /\ session = [w \in Worker |-> 0]
  /\ fetched = [w \in Worker |-> 0]
  /\ marked = [w \in Worker |-> 0]
  /\ batch = [w \in Worker |-> NoBatch]
  /\ attempted = {}
  /\ faults = 0

(* A gateway, or any other producer, writes a record.                       *)
Publish(t) ==
  /\ Len(traceTopic) < MaxTraces
  /\ traceTopic' = Append(traceTopic, t)
  /\ UNCHANGED <<evidenceTopic, groupVars, memberVars, loopVars, attempted,
                 faults>>

-----------------------------------------------------------------------------
(* The consumer group.                                                      *)

(* Mutant: an assignment starts at the newest record.                       *)
AssignAtEnd(w) ==
  /\ owner = NoWorker /\ pc[w] # "down" /\ session[w] = 0
  /\ owner' = w
  /\ epoch' = epoch + 1
  /\ session' = [session EXCEPT ![w] = epoch + 1]
  /\ fetched' = [fetched EXCEPT ![w] = Len(traceTopic)]
  /\ marked' = [marked EXCEPT ![w] = committed]
  /\ UNCHANGED <<traceTopic, evidenceTopic, committed, loopVars, attempted,
                 faults>>

(* The coordinator gives the partition to a member without an assignment,   *)
(* which starts at the committed offset.                                    *)
Assign(w) ==
  /\ owner = NoWorker
  /\ pc[w] # "down"
  /\ session[w] = 0
  /\ owner' = w
  /\ epoch' = epoch + 1
  /\ session' = [session EXCEPT ![w] = epoch + 1]
  /\ fetched' = [fetched EXCEPT ![w] = committed]
  /\ marked' = [marked EXCEPT ![w] = committed]
  /\ UNCHANGED <<traceTopic, evidenceTopic, committed, loopVars, attempted,
                 faults>>

(* The coordinator takes the partition from a living member: another one    *)
(* joined, or its heartbeats did not arrive.  The member does not know yet. *)
Evict(w) ==
  /\ owner = w
  /\ session[w] = epoch
  /\ faults < MaxFaults
  /\ faults' = faults + 1
  /\ owner' = NoWorker
  /\ UNCHANGED <<traceTopic, evidenceTopic, epoch, committed, memberVars,
                 loopVars, attempted>>

(* The session of an owner that died times out.                             *)
Expire(w) ==
  /\ owner = w
  /\ session[w] # epoch
  /\ owner' = NoWorker
  /\ UNCHANGED <<traceTopic, evidenceTopic, epoch, committed, memberVars,
                 loopVars, attempted, faults>>

(* Mutant: no assignment is -1, the group protocol's unknown generation.    *)
NoticeMinusOne(w) ==
  /\ session[w] # 0 /\ owner # w
  /\ session' = [session EXCEPT ![w] = -1]
  /\ UNCHANGED <<traceTopic, evidenceTopic, groupVars, fetched, marked,
                 loopVars, attempted, faults>>

(* An evicted member learns of it and drops what it had buffered; the loop  *)
(* goes on with the batch it is in.                                         *)
Notice(w) ==
  /\ session[w] # 0
  /\ owner # w
  /\ session' = [session EXCEPT ![w] = 0]
  /\ fetched' = [fetched EXCEPT ![w] = 0]
  /\ marked' = [marked EXCEPT ![w] = 0]
  /\ UNCHANGED <<traceTopic, evidenceTopic, groupVars, loopVars, attempted,
                 faults>>

(* Mutant: the offsets of the poll being processed are committed too.       *)
CommitGreedy(w) ==
  /\ owner = w /\ session[w] = epoch /\ committed # fetched[w]
  /\ committed' = fetched[w]
  /\ UNCHANGED <<traceTopic, evidenceTopic, owner, epoch, memberVars,
                 loopVars, attempted, faults>>

(* Mutant: a commit is accepted from a member that was evicted.             *)
CommitUnfenced(w) ==
  /\ session[w] # 0 /\ committed # marked[w]
  /\ committed' = marked[w]
  /\ UNCHANGED <<traceTopic, evidenceTopic, owner, epoch, memberVars,
                 loopVars, attempted, faults>>

(* The autocommit timer of the owner fires.                                 *)
Commit(w) ==
  /\ owner = w
  /\ session[w] = epoch
  /\ committed # marked[w]
  /\ committed' = marked[w]
  /\ UNCHANGED <<traceTopic, evidenceTopic, owner, epoch, memberVars,
                 loopVars, attempted, faults>>

-----------------------------------------------------------------------------
(* The loop of runKafkaConsumer.                                            *)

(* Mutant: nothing is marked for the autocommit.                            *)
EnterPollUnmarked(w) ==
  /\ pc[w] = "loop"
  /\ pc' = [pc EXCEPT ![w] = "polling"]
  /\ UNCHANGED <<traceTopic, evidenceTopic, groupVars, memberVars, batch,
                 attempted, faults>>

(* PollFetches is entered: everything earlier polls returned is from now on *)
(* what the autocommit commits.                                             *)
EnterPoll(w) ==
  /\ pc[w] = "loop"
  /\ pc' = [pc EXCEPT ![w] = "polling"]
  /\ marked' = [marked EXCEPT ![w] = fetched[w]]
  /\ UNCHANGED <<traceTopic, evidenceTopic, groupVars, session, fetched,
                 batch, attempted, faults>>

(* PollFetches returns some of the records after those returned before.     *)
ReturnPoll(w) ==
  /\ pc[w] = "polling"
  /\ session[w] # 0
  /\ \E n \in (fetched[w] + 1)..Len(traceTopic) :
       /\ fetched' = [fetched EXCEPT ![w] = n]
       /\ batch' = [batch EXCEPT ![w] = [epoch |-> session[w],
                                         next  |-> fetched[w] + 1,
                                         last  |-> n]]
  /\ pc' = [pc EXCEPT ![w] = "processing"]
  /\ UNCHANGED <<traceTopic, evidenceTopic, groupVars, session, marked,
                 attempted, faults>>

(* Mutant: a fetch error rewinds the consumer to the committed offset.      *)
FailPollRewinds(w) ==
  /\ pc[w] = "polling" /\ session[w] # 0
  /\ pc' = [pc EXCEPT ![w] = "loop"]
  /\ fetched' = [fetched EXCEPT ![w] = committed]
  /\ marked' = [marked EXCEPT ![w] = committed]
  /\ UNCHANGED <<traceTopic, evidenceTopic, groupVars, session, batch,
                 attempted, faults>>

(* PollFetches returns nothing but fetch errors, which are logged.          *)
FailPoll(w) ==
  /\ pc[w] = "polling"
  /\ pc' = [pc EXCEPT ![w] = "loop"]
  /\ UNCHANGED <<traceTopic, evidenceTopic, groupVars, memberVars, batch,
                 attempted, faults>>

(* EachRecord moves on, whatever became of the record.                      *)
Advance(w) ==
  /\ pc[w] = "processing"
  /\ attempted' = attempted \cup {batch[w].next}
  /\ batch' = [batch EXCEPT ![w].next = @ + 1]
  /\ pc' = [pc EXCEPT ![w] = IF batch[w].next = batch[w].last
                             THEN "loop" ELSE "processing"]
  /\ UNCHANGED <<traceTopic, groupVars, memberVars, faults>>

(* The record is not a trace the worker accepts: logged and skipped.        *)
Skip(w) ==
  /\ Advance(w)
  /\ ~Executable(traceTopic[batch[w].next])
  /\ UNCHANGED evidenceTopic

EvidenceOf(o, e) ==
  [of |-> o, epoch |-> e, body |-> TraceToEvidence(traceTopic[o])]

(* Mutant: produced evidence is retried when its answer is lost.            *)
EmitRetries(w) ==
  /\ pc[w] = "processing"
  /\ Executable(traceTopic[batch[w].next])
  /\ Len(evidenceTopic) < 2 * MaxTraces
  /\ evidenceTopic' =
       Append(evidenceTopic, EvidenceOf(batch[w].next, batch[w].epoch))
  /\ UNCHANGED <<traceTopic, groupVars, memberVars, loopVars, attempted,
                 faults>>

(* Mutant: the consumer does not return after traceToEvidence failed.       *)
EmitUnchecked(w) ==
  /\ Advance(w)
  /\ evidenceTopic' =
       Append(evidenceTopic, EvidenceOf(batch[w].next, batch[w].epoch))

(* The evidence reaches the topic, acknowledged within the timeout or not.  *)
Emit(w) ==
  /\ Advance(w)
  /\ Executable(traceTopic[batch[w].next])
  /\ evidenceTopic' =
       Append(evidenceTopic, EvidenceOf(batch[w].next, batch[w].epoch))

(* The evidence does not reach the topic: logged, and the loop moves on.    *)
Drop(w) ==
  /\ Advance(w)
  /\ Executable(traceTopic[batch[w].next])
  /\ UNCHANGED evidenceTopic

-----------------------------------------------------------------------------
(* The process.                                                             *)

Crash(w) ==
  /\ pc[w] # "down"
  /\ faults < MaxFaults
  /\ faults' = faults + 1
  /\ pc' = [pc EXCEPT ![w] = "down"]
  /\ batch' = [batch EXCEPT ![w] = NoBatch]
  /\ session' = [session EXCEPT ![w] = 0]
  /\ fetched' = [fetched EXCEPT ![w] = 0]
  /\ marked' = [marked EXCEPT ![w] = 0]
  /\ UNCHANGED <<traceTopic, evidenceTopic, groupVars, attempted>>

Restart(w) ==
  /\ pc[w] = "down"
  /\ pc' = [pc EXCEPT ![w] = "loop"]
  /\ UNCHANGED <<traceTopic, evidenceTopic, groupVars, memberVars, batch,
                 attempted, faults>>

Process(w) == Skip(w) \/ Emit(w) \/ Drop(w)

(* Every step but the writing of traces.                                    *)
WorkerNext ==
  \E w \in Worker :
    \/ Assign(w) \/ Evict(w) \/ Expire(w) \/ Notice(w) \/ Commit(w)
    \/ EnterPoll(w) \/ ReturnPoll(w) \/ FailPoll(w) \/ Process(w)
    \/ Crash(w) \/ Restart(w)

Next == WorkerNext \/ \E t \in Trace : Publish(t)

SafeSpec == Init /\ [][Next]_vars

(* The loop never stops by itself, if the broker lives: it answers what it  *)
(* was sent, or its connection ends; only a record not yet sent is bounded  *)
(* by the ten seconds of ProduceSync.  Of polls repeated for ever some      *)
(* succeed when there are records (strong fairness: fetch errors may come   *)
(* between).  The coordinator reassigns, members rejoin, the autocommit     *)
(* timer keeps firing, and the container is restarted.                      *)
Fairness ==
  /\ WF_vars(\E w \in Worker : Assign(w))
  /\ \A w \in Worker :
       /\ WF_vars(Expire(w)) /\ WF_vars(Notice(w)) /\ WF_vars(Restart(w))
       /\ WF_vars(EnterPoll(w)) /\ SF_vars(ReturnPoll(w))
       /\ WF_vars(Process(w)) /\ WF_vars(Commit(w))

Spec == SafeSpec /\ Fairness

-----------------------------------------------------------------------------
EvidenceEvent ==
  [of : Nat, epoch : Nat, body : {TraceToEvidence(t) : t \in Trace}]

(* The variables keep their types.                                          *)
TypeOK ==
  /\ traceTopic \in Seq(Trace)
  /\ evidenceTopic \in Seq(EvidenceEvent)
  /\ owner \in Worker \cup {NoWorker}
  /\ epoch \in Nat
  /\ committed \in Nat
  /\ pc \in [Worker -> {"down", "loop", "polling", "processing"}]
  /\ session \in [Worker -> Nat]
  /\ fetched \in [Worker -> Nat]
  /\ marked \in [Worker -> Nat]
  /\ batch \in [Worker -> [epoch : Nat, next : Nat, last : Nat]]
  /\ attempted \subseteq Nat
  /\ faults \in Nat

(* The automatic commit never runs ahead of the loop: a record whose offset *)
(* is committed has been through the loop of some worker, whatever crashed  *)
(* or was evicted meanwhile.                                                *)
CommittedWereAttempted == 1..committed \subseteq attempted

(* No worker gets to a record before every record ahead of it has been      *)
(* through the loop of some worker: a crash, an eviction or a member that   *)
(* does not know it was evicted never opens a gap.                          *)
AttemptedInOrder == \A o \in attempted : 1..o \subseteq attempted

(* Redelivery needs a new assignment: under one assignment no trace leaves  *)
(* evidence twice, even while its holder is a member already evicted.       *)
AtMostOncePerAssignment ==
  \A i, j \in DOMAIN evidenceTopic :
    /\ evidenceTopic[i].of = evidenceTopic[j].of
    /\ evidenceTopic[i].epoch = evidenceTopic[j].epoch
    => i = j

(* Duplicates are paid for: a trace leaves at most one more evidence event  *)
(* than there were crashes and evictions.                                   *)
DuplicatesNeedFaults ==
  \A o \in DOMAIN traceTopic :
    Cardinality({i \in DOMAIN evidenceTopic : evidenceTopic[i].of = o})
      <= faults + 1

(* A committed offset is never taken back: not by an evicted member whose   *)
(* autocommit fires late, nor by a new owner that starts further back.      *)
CommitsMoveForward == [][committed' >= committed]_vars

(* Every record is committed in the end, malformed ones ahead of it, failed *)
(* productions, crashes and evictions notwithstanding, so a later restart   *)
(* does not go back to it.                                                  *)
EveryTraceCommitted ==
  \A o \in 1..MaxTraces : o <= Len(traceTopic) ~> o <= committed

(* The worker implements the ledger of decisions.                           *)
Effects == {[of |-> evidenceTopic[i].of, body |-> evidenceTopic[i].body] :
              i \in DOMAIN evidenceTopic}

L == INSTANCE Ledger WITH traces <- traceTopic, effects <- Effects

LedgerSpec == L!Spec

=============================================================================
