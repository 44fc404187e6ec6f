---------------------------- MODULE AuditPacket -----------------------------
(***************************************************************************)
(* The export of the audit packet of one correlation id:                   *)
(* scripts/export_audit_packet.sh, which runs tools/audit-packet-fetch on  *)
(* the two topics, checks what it got against the schemas and fills a      *)
(* directory that an earlier export may have filled before.                *)
(*                                                                         *)
(* The topics grow meanwhile.  Clients may use a correlation id again, so  *)
(* it can have several traces.  Workers attempt traces in order, possibly  *)
(* again later, and an attempt may leave no evidence (what Ledger says of  *)
(* them); agents add evidence of their own.  The policy file is edited.    *)
(* The script can also be given the two records as files.                  *)
(***************************************************************************)
EXTENDS Naturals, Sequences, FiniteSets

CONSTANTS
  Corr,         \* correlation ids
  Want,         \* the one the packet is exported for
  Absent,       \* a file that does not exist
  Empty,        \* a file that was opened for writing and not yet written
  MaxTraces,    \* bound: records of the trace topic
  MaxEvidence,  \* bound: records of the evidence topic
  MaxEdits,     \* bound: edits of the policy file
  MaxExports    \* bound: runs of the script

ASSUME WantAssumption == Want \in Corr
ASSUME MarkAssumption == {Absent, Empty} \cap Nat = {} /\ Absent # Empty
ASSUME BoundsAssumption == {MaxTraces, MaxEvidence, MaxEdits, MaxExports} \subseteq Nat

VARIABLES
  traceTopic,     \* decision.trace.v1
  evidenceTopic,  \* decision.evidence.v1
  attempted,      \* traces 1..attempted were attempted by the workers
  policy,         \* version of policies/opa/rego/decision.rego
  pc,             \* where the script is
  late,           \* the deadline of the fetch is over
  seen,           \* records the fetch has polled, per topic
  found,          \* the records it keeps, per topic, 0 for none
  hash,           \* version of it that BUNDLE_HASH in the script is of
  dir,            \* out/audit-packets/<Want>
  exports,        \* runs of the script so far
  handed          \* ghost: some run was given its records as files

topics == <<traceTopic, evidenceTopic, attempted>>
fetchVars == <<late, seen, found>>
scriptVars == <<pc, fetchVars, hash, dir, exports, handed>>
vars == <<topics, policy, scriptVars>>

(* Mutant: the metadata is written before the policy file is copied.        *)
FileMetadataFirst ==
  <<"decision_traces", "evidence", "metadata", "rego", "pointers">>

(* The files of the packet that say something of the decision, in the order *)
(* the script writes them.                                                  *)
File == <<"decision_traces", "evidence", "rego", "metadata", "pointers">>
FileName == {File[k] : k \in DOMAIN File}

(* What is left of a run: writing file k of File, opened or not.            *)
Writing(k) == [at |-> "writing", file |-> k]
Opened(k) == [at |-> "opened", file |-> k]
At(place) == [at |-> place, file |-> 0]

Nothing == [trace |-> 0, evidence |-> 0]

EnvironmentInit ==
  /\ traceTopic = << >>
  /\ evidenceTopic = << >>
  /\ attempted = 0
  /\ policy = 1

Init ==
  /\ EnvironmentInit
  /\ pc = At("idle")
  /\ late = FALSE
  /\ seen = Nothing
  /\ found = Nothing
  /\ hash = 0
  /\ dir = [f \in FileName |-> Absent]
  /\ exports = 0
  /\ handed = FALSE

-----------------------------------------------------------------------------
(* What goes on meanwhile.                                                  *)

(* Whether a record passes its schema; of those of other ids nobody asks.   *)
Validity(c) == {TRUE, c # Want}

(* A trace is written, under the policy of the moment; or a record with a   *)
(* correlation id that is no valid trace.                                   *)
Decide(c) ==
  /\ Len(traceTopic) < MaxTraces
  /\ \E v \in Validity(c) :
       traceTopic' = Append(traceTopic, [corr |-> c, policy |-> policy,
                                         valid |-> v])
  /\ UNCHANGED <<evidenceTopic, attempted, policy, scriptVars>>

(* What the worker makes of a trace; its events pass the schema (Contract,  *)
(* EmittedEventsValidate).                                                  *)
EvidenceOf(o) == [corr |-> traceTopic[o].corr, of |-> o, valid |-> TRUE]

(* A worker attempts a trace, for the first time or again.  What the worker *)
(* accepts differs from what the schemas accept, so either kind of record   *)
(* may leave evidence.                                                      *)
Attempt(o) ==
  /\ o <= attempted + 1
  /\ attempted' = IF o > attempted THEN o ELSE attempted
  /\ \/ /\ Len(evidenceTopic) < MaxEvidence
        /\ evidenceTopic' = Append(evidenceTopic, EvidenceOf(o))
     \/ o > attempted /\ UNCHANGED evidenceTopic
  /\ UNCHANGED <<traceTopic, policy, scriptVars>>

(* An agent submits evidence: it names a correlation id and no trace, which *)
(* may be lost or still to come.  Or another program writes a record under  *)
(* the id, and it need not be valid evidence.                               *)
Submit(c) ==
  /\ Len(evidenceTopic) < MaxEvidence
  /\ \E v \in Validity(c) :
       evidenceTopic' = Append(evidenceTopic, [corr |-> c, of |-> 0, valid |-> v])
  /\ UNCHANGED <<traceTopic, attempted, policy, scriptVars>>

Edit ==
  /\ policy <= MaxEdits
  /\ policy' = policy + 1
  /\ UNCHANGED <<topics, scriptVars>>

EnvironmentNext ==
  \/ \E c \in Corr : Decide(c) \/ Submit(c)
  \/ \E o \in DOMAIN traceTopic : Attempt(o)
  \/ Edit

(* What the export assumes of the topics, and needs to know of nobody.      *)
EnvironmentSpec == EnvironmentInit /\ [][EnvironmentNext]_<<topics, policy>>

-----------------------------------------------------------------------------
(* audit-packet-fetch.                                                      *)

(* The script ends, and what its processes knew is gone.                    *)
End(how) ==
  /\ pc' = At(how)
  /\ late' = FALSE
  /\ seen' = Nothing
  /\ found' = Nothing
  /\ hash' = 0

Between == pc.at \in {"idle", "done", "failed"}

(* Mutant: the fetch begins at the end of the topics.                       *)
StartAtEnd ==
  /\ Between /\ exports < MaxExports
  /\ exports' = exports + 1
  /\ pc' = At("fetching")
  /\ seen' = [trace |-> Len(traceTopic), evidence |-> Len(evidenceTopic)]
  /\ UNCHANGED <<topics, policy, late, found, hash, dir, handed>>

(* The script starts the fetch, in a consumer group of its own that begins  *)
(* at the oldest record of both topics.                                     *)
Start ==
  /\ Between
  /\ exports < MaxExports
  /\ exports' = exports + 1
  /\ pc' = At("fetching")
  /\ UNCHANGED <<topics, policy, fetchVars, hash, dir, handed>>

(* The script is given two records as files instead, kept from whenever,    *)
(* and ends if one of them has another correlation id.                      *)
StartFromFiles ==
  /\ Between
  /\ exports < MaxExports
  /\ exports' = exports + 1
  /\ handed' = TRUE
  /\ \E m \in DOMAIN traceTopic, n \in DOMAIN evidenceTopic :
       IF traceTopic[m].corr = Want /\ evidenceTopic[n].corr = Want
       THEN /\ pc' = At("checking")
            /\ found' = [trace |-> m, evidence |-> n]
            /\ UNCHANGED <<late, seen, hash>>
       ELSE End("failed")
  /\ UNCHANGED <<topics, policy, dir>>

Matches(topic, from, to) == {i \in from..to : topic[i].corr = Want}

(* Mutant: the last match of a poll is kept, not the first of all.          *)
LastMatch(topic, from, to, kept) ==
  LET m == Matches(topic, from, to)
  IN  IF m = {} THEN kept ELSE CHOOSE i \in m : \A j \in m : i >= j

(* The record kept of a topic after records from..to were polled.           *)
FirstMatch(topic, from, to, kept) ==
  LET m == Matches(topic, from, to)
  IN  IF kept # 0 \/ m = {} THEN kept
      ELSE CHOOSE i \in m : \A j \in m : i <= j

Complete(f) == f.trace # 0 /\ f.evidence # 0

(* PollFetches returns some more records of either topic; the loop ends     *)
(* when both records are there, even if the deadline is over by now, and    *)
(* otherwise looks at the deadline before it polls again.                   *)
Poll ==
  /\ pc.at = "fetching"
  /\ \E m \in seen.trace..Len(traceTopic), n \in seen.evidence..Len(evidenceTopic) :
       LET kept == [trace    |-> FirstMatch(traceTopic, seen.trace + 1, m, found.trace),
                    evidence |-> FirstMatch(evidenceTopic, seen.evidence + 1, n,
                                            found.evidence)]
       IN  /\ <<m, n>> # <<seen.trace, seen.evidence>>
           /\ \/ /\ Complete(kept)
                 /\ pc' = At("checking")
                 /\ late' = FALSE
                 /\ seen' = Nothing
                 /\ found' = kept
                 /\ UNCHANGED hash
              \/ /\ ~Complete(kept) /\ ~late
                 /\ seen' = [trace |-> m, evidence |-> n]
                 /\ found' = kept
                 /\ UNCHANGED <<pc, late, hash>>
              \/ ~Complete(kept) /\ late /\ End("failed")
  /\ UNCHANGED <<topics, policy, dir, exports, handed>>

Deadline ==
  /\ pc.at = "fetching"
  /\ ~late
  /\ late' = TRUE
  /\ UNCHANGED <<topics, policy, pc, seen, found, hash, dir, exports, handed>>

(* Mutant: the deadline is not looked at.                                   *)
GiveUpNever ==
  /\ pc.at = "fetching" /\ late /\ Complete(found)
  /\ End("failed")
  /\ UNCHANGED <<topics, policy, dir, exports, handed>>

(* The deadline is found to be over, and the script ends with the fetch.    *)
GiveUp ==
  /\ pc.at = "fetching"
  /\ late
  /\ End("failed")
  /\ UNCHANGED <<topics, policy, dir, exports, handed>>

-----------------------------------------------------------------------------
(* The rest of the script, which ends at the first command that fails.      *)

(* Mutant: schema-check is asked of the trace only.                         *)
CheckTraceOnly ==
  /\ pc.at = "checking"
  /\ IF traceTopic[found.trace].valid
     THEN pc' = Writing(1) /\ UNCHANGED <<fetchVars, hash>>
     ELSE End("failed")
  /\ UNCHANGED <<topics, policy, dir, exports, handed>>

BothValid(f) == traceTopic[f.trace].valid /\ evidenceTopic[f.evidence].valid

(* schema-check on the two records, each against its schema.                *)
Check ==
  /\ pc.at = "checking"
  /\ IF BothValid(found)
     THEN pc' = Writing(1) /\ UNCHANGED <<fetchVars, hash>>
     ELSE End("failed")
  /\ UNCHANGED <<topics, policy, dir, exports, handed>>

(* What the script puts into a file: the record that was found or where to  *)
(* look for it, the policy file as it is now, or the hash computed of it.   *)
Content(f) ==
  CASE f \in {"decision_traces", "pointers"} -> found.trace
    [] f = "evidence" -> found.evidence
    [] f = "rego" -> policy
    [] f = "metadata" -> hash

(* A file is opened, which empties it; the policy file is hashed just       *)
(* before the metadata is opened.                                           *)
Open ==
  /\ pc.at = "writing"
  /\ dir' = [dir EXCEPT ![File[pc.file]] = Empty]
  /\ hash' = IF File[pc.file] = "metadata" THEN policy ELSE hash
  /\ pc' = Opened(pc.file)
  /\ UNCHANGED <<topics, policy, fetchVars, exports, handed>>

(* Mutant: the last file is forgotten.                                      *)
WriteNotLast ==
  /\ pc.at = "opened"
  /\ dir' = [dir EXCEPT ![File[pc.file]] = Content(File[pc.file])]
  /\ IF pc.file = Len(File) - 1 THEN End("done")
     ELSE pc' = Writing(pc.file + 1) /\ UNCHANGED <<fetchVars, hash>>
  /\ UNCHANGED <<topics, policy, exports, handed>>

(* It is written and closed.                                                *)
Write ==
  /\ pc.at = "opened"
  /\ dir' = [dir EXCEPT ![File[pc.file]] = Content(File[pc.file])]
  /\ IF pc.file = Len(File) THEN End("done")
     ELSE pc' = Writing(pc.file + 1) /\ UNCHANGED <<fetchVars, hash>>
  /\ UNCHANGED <<topics, policy, exports, handed>>

(* A command fails, or the script is interrupted; the directory stays.      *)
Fail ==
  /\ ~Between
  /\ End("failed")
  /\ UNCHANGED <<topics, policy, dir, exports, handed>>

Script == Poll \/ GiveUp \/ Check \/ Open \/ Write

Next == EnvironmentNext \/ Start \/ StartFromFiles \/ Deadline \/ Script \/ Fail

SafeSpec == Init /\ [][Next]_vars

(* The clock runs, PollFetches returns at the deadline at the latest, and   *)
(* the other commands of the script end.                                    *)
Fairness == WF_vars(Deadline) /\ WF_vars(GiveUp) /\ WF_vars(Script)

Spec == SafeSpec /\ Fairness

-----------------------------------------------------------------------------
Written(f) == dir[f] \in Nat

(* A script that ends well leaves a whole packet of one decision: no file   *)
(* of it is missing, half written or left over from a run that failed.      *)
ExportedPacketIsWhole ==
  pc.at = "done" =>
    /\ \A f \in FileName : Written(f)
    /\ dir["pointers"] = dir["decision_traces"]

(* Whatever failed half-way, the packet never holds a trace or evidence of  *)
(* another correlation id, nor one that its schema refuses.                 *)
PacketHoldsCheckedRecords ==
  /\ Written("decision_traces") =>
       /\ traceTopic[dir["decision_traces"]].corr = Want
       /\ traceTopic[dir["decision_traces"]].valid
  /\ Written("evidence") =>
       /\ evidenceTopic[dir["evidence"]].corr = Want
       /\ evidenceTopic[dir["evidence"]].valid

(* What a packet says was decided and done under the id is the first of     *)
(* each, however the polls were cut, whichever run wrote it and however     *)
(* much the topics have grown since: exporting again never replaces it.     *)
(* This and the next are of records that were fetched.                      *)
PacketHoldsFirstRecords ==
  handed \/
    /\ \A f \in {"decision_traces", "pointers"} : Written(f) =>
         \A i \in DOMAIN traceTopic : traceTopic[i].corr = Want => dir[f] <= i
    /\ Written("evidence") =>
         \A i \in DOMAIN evidenceTopic :
           evidenceTopic[i].corr = Want => dir["evidence"] <= i

(* The evidence in the packet was made from the decision in it, or its      *)
(* author named none.                                                       *)
SameChain ==
  evidenceTopic[dir["evidence"]].of \in {0, dir["decision_traces"]}

(* A packet whose evidence was made from another decision under the id      *)
(* means that its own decision had left no evidence before.                 *)
ChainBreaksOnlyOnLoss ==
  ~handed /\ Written("decision_traces") /\ Written("evidence") =>
    \/ SameChain
    \/ \A i \in 1..dir["evidence"] :
         evidenceTopic[i].of # dir["decision_traces"]

(* The policy of a finished packet is no older than its decision, and the   *)
(* hash in its metadata no older than the rules beside it, whatever was     *)
(* edited and exported before.                                              *)
PacketPolicyIsRecent ==
  pc.at = "done" =>
    /\ traceTopic[dir["decision_traces"]].policy <= dir["rego"]
    /\ dir["rego"] <= dir["metadata"]

(* Every run of the script ends, however little there is in the topics.     *)
ExportEnds == ~Between ~> Between

-----------------------------------------------------------------------------
(* What docs/audit-packet.md says of a packet.                              *)

(* Completeness: a reviewer can reconstruct the causal chain, so the        *)
(* evidence of a packet is not that of another decision.                    *)
PacketIsOneChain == pc.at = "done" /\ ~handed => SameChain
=============================================================================
