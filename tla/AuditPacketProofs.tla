------------------------- MODULE AuditPacketProofs --------------------------
(***************************************************************************)
(* Proofs about the export of an audit packet, for any correlation ids,    *)
(* any topics and any number of exports over one another.                  *)
(*                                                                         *)
(* A packet is read long after the records in it were found, so the        *)
(* invariant that carries its properties has three parts: what the fetch   *)
(* knows of the records it has polled so far, what the records stand for   *)
(* that the script goes on with, and what is in the files that are written *)
(* already.  All of them have to survive what is appended meanwhile.       *)
(***************************************************************************)
EXTENDS AuditPacket, FiniteSetTheorems, TLAPS

TraceRecord == [corr : Corr, policy : Nat, valid : BOOLEAN]
EvidenceRecord == [corr : Corr, of : Nat, valid : BOOLEAN]

Copying == pc.at \in {"writing", "opened"}

(* The types of the variables, and that the script writes one of the files. *)
TypeInv ==
  /\ traceTopic \in Seq(TraceRecord)
  /\ evidenceTopic \in Seq(EvidenceRecord)
  /\ attempted \in Nat
  /\ policy \in Nat
  /\ pc \in [at : {"idle", "done", "failed", "fetching", "checking",
                   "writing", "opened"},
             file : 0..5]
  /\ Copying => pc.file # 0
  /\ late \in BOOLEAN
  /\ seen \in [trace : Nat, evidence : Nat]
  /\ found \in [trace : Nat, evidence : Nat]
  /\ hash \in Nat
  /\ dir \in [FileName -> Nat \cup {Absent, Empty}]
  /\ exports \in Nat
  /\ handed \in BOOLEAN

(* No trace is under a policy still to come, and evidence that names a      *)
(* trace has the correlation id of that trace.                              *)
TopicInv ==
  /\ \A i \in DOMAIN traceTopic : traceTopic[i].policy <= policy
  /\ \A i \in DOMAIN evidenceTopic : evidenceTopic[i].of # 0 =>
       /\ evidenceTopic[i].of \in DOMAIN traceTopic
       /\ evidenceTopic[i].corr = traceTopic[evidenceTopic[i].of].corr

Wanted(topic, k) == k \in DOMAIN topic /\ topic[k].corr = Want

First(topic, k) == \A i \in DOMAIN topic : topic[i].corr = Want => k <= i

(* What the fetch knows of a topic after n records: it keeps the first      *)
(* record that matches, or there is none among the n.                       *)
Searched(topic, n, k) ==
  /\ n \in 0..Len(topic)
  /\ k = 0 => \A i \in 1..n : topic[i].corr # Want
  /\ k # 0 => Wanted(topic, k) /\ First(topic, k)

(* The fetch, and what the script goes on with after it.                    *)
FoundInv ==
  /\ Between => found = Nothing /\ seen = Nothing
  /\ pc.at = "fetching" =>
       /\ Searched(traceTopic, seen.trace, found.trace)
       /\ Searched(evidenceTopic, seen.evidence, found.evidence)
  /\ pc.at = "checking" \/ Copying =>
       /\ Wanted(traceTopic, found.trace)
       /\ Wanted(evidenceTopic, found.evidence)
       /\ ~handed => /\ First(traceTopic, found.trace)
                     /\ First(evidenceTopic, found.evidence)
  /\ Copying => /\ traceTopic[found.trace].valid
                /\ evidenceTopic[found.evidence].valid

(* What is in the directory, whatever runs have written it.                 *)
DirInv ==
  /\ Written("decision_traces") =>
       /\ Wanted(traceTopic, dir["decision_traces"])
       /\ traceTopic[dir["decision_traces"]].valid
       /\ ~handed => First(traceTopic, dir["decision_traces"])
  /\ Written("pointers") =>
       /\ Wanted(traceTopic, dir["pointers"])
       /\ ~handed => First(traceTopic, dir["pointers"])
  /\ Written("evidence") =>
       /\ Wanted(evidenceTopic, dir["evidence"])
       /\ evidenceTopic[dir["evidence"]].valid
       /\ ~handed => First(evidenceTopic, dir["evidence"])

(* This run has written file k, and has not ended.                          *)
Past(k) == Copying /\ pc.file > k

(* What this run has put into the directory so far, and what the last one   *)
(* has left there that ended well.                                          *)
RunInv ==
  /\ Past(1) => dir["decision_traces"] = found.trace
  /\ Past(2) => dir["evidence"] = found.evidence
  /\ Past(3) => /\ dir["rego"] \in Nat
                /\ traceTopic[found.trace].policy <= dir["rego"]
                /\ dir["rego"] <= policy
  /\ pc.at = "opened" /\ pc.file = 4 => dir["rego"] <= hash
  /\ Past(4) => dir["metadata"] \in Nat /\ dir["rego"] <= dir["metadata"]
  /\ ExportedPacketIsWhole
  /\ PacketPolicyIsRecent

PInv == TypeInv /\ TopicInv /\ FoundInv /\ DirInv /\ RunInv

-----------------------------------------------------------------------------
(* Facts about the operators.                                               *)

(* A nonempty set of naturals has a least element.                          *)
LEMMA LeastElement ==
  ASSUME NEW S, S \subseteq Nat, S # {}
  PROVE  \E m \in S : \A n \in S : m <= n
<1> DEFINE R == StrictSubsetOrdering(Nat)
           T == {1..n : n \in S}
<1>1. T \subseteq FiniteSubsetsOf(Nat) /\ T # {}
  <2>1. ASSUME NEW n \in S PROVE 1..n \in FiniteSubsetsOf(Nat)
    <3>1. n \in Int /\ 1 \in Int /\ 1..n \subseteq Nat
      OBVIOUS
    <3>2. IsFiniteSet(1..n)
      BY <3>1, FS_Interval
    <3> QED
      BY <3>1, <3>2 DEF FiniteSubsetsOf
  <2> QED
    BY <2>1
<1>2. PICK x \in T : \A y \in T : ~(<<y, x>> \in R)
  <2> HIDE DEF R, T
  <2> QED
    BY <1>1, FS_StrictSubsetOrderingWellFounded, WFMin DEF R
<1>3. PICK m \in S : x = 1..m
  BY <1>2
<1>4. ASSUME NEW n \in S, n < m PROVE FALSE
  <2>1. 1..n \in T /\ 1..n \subseteq 1..m /\ m \in 1..m /\ m \notin 1..n
    BY <1>4
  <2>2. <<1..n, 1..m>> \in R
    BY <1>3, <2>1 DEF StrictSubsetOrdering
  <2> QED
    BY <1>2, <1>3, <2>1, <2>2
<1> QED
  BY <1>3, <1>4

(* One poll more finds the first match of all, if there is none before and  *)
(* there is one now, and otherwise keeps what there was.                    *)
LEMMA FirstMatchFinds ==
  ASSUME NEW S, NEW topic \in Seq(S), NEW n, NEW kept,
         Searched(topic, n, kept),
         NEW m \in n..Len(topic)
  PROVE  /\ Searched(topic, m, FirstMatch(topic, n + 1, m, kept))
         /\ kept \in Nat => FirstMatch(topic, n + 1, m, kept) \in Nat
<1> DEFINE new == Matches(topic, n + 1, m)
<1>1. /\ n \in Nat /\ m \in Nat /\ n <= m /\ m <= Len(topic)
      /\ Len(topic) \in Nat /\ DOMAIN topic = 1..Len(topic)
  BY DEF Searched
<1>2. CASE kept # 0
  BY <1>1, <1>2 DEF Searched, FirstMatch
<1>3. CASE kept = 0 /\ new = {}
  <2>1. FirstMatch(topic, n + 1, m, kept) = 0
    BY <1>3 DEF FirstMatch
  <2>2. \A i \in 1..m : topic[i].corr # Want
    BY <1>1, <1>3 DEF Searched, Matches
  <2> QED
    BY <1>1, <2>1, <2>2 DEF Searched
<1>4. CASE kept = 0 /\ new # {}
  <2> DEFINE first == FirstMatch(topic, n + 1, m, kept)
  <2>1. new \subseteq Nat
    BY <1>1 DEF Matches
  <2>2. first = CHOOSE i \in new : \A j \in new : i <= j
    BY <1>4 DEF FirstMatch
  <2>3. first \in new /\ \A j \in new : first <= j
    <3> HIDE DEF new, first
    <3> QED
      BY <1>4, <2>1, <2>2, LeastElement
  <2>4. Wanted(topic, first) /\ first # 0 /\ first \in Nat /\ first <= m
    BY <1>1, <2>3 DEF Wanted, Matches
  <2>5. First(topic, first)
    <3> SUFFICES ASSUME NEW i \in DOMAIN topic, topic[i].corr = Want
                 PROVE  first <= i
      BY DEF First
    <3>1. i \in Nat /\ ~(i \in 1..n)
      BY <1>1, <1>4 DEF Searched
    <3>2. CASE i <= m
      BY <1>1, <2>3, <3>1, <3>2 DEF Matches
    <3>3. CASE i > m
      BY <1>1, <2>4, <3>1, <3>3
    <3> QED
      BY <1>1, <3>1, <3>2, <3>3
  <2> QED
    BY <1>1, <2>4, <2>5 DEF Searched
<1> QED
  BY <1>2, <1>3, <1>4

(* A topic is only appended to.                                             *)
Extends(old, new) ==
  /\ Len(old) <= Len(new)
  /\ \A i \in DOMAIN old : new[i] = old[i]

(* What is known of a topic stays true of it however it grows.              *)
LEMMA ExtensionKeeps ==
  ASSUME NEW S, NEW old \in Seq(S), NEW new \in Seq(S), Extends(old, new)
  PROVE  /\ \A k : Wanted(old, k) =>
              /\ Wanted(new, k)
              /\ new[k] = old[k]
              /\ First(old, k) => First(new, k)
         /\ \A n, k : Searched(old, n, k) => Searched(new, n, k)
<1>1. /\ Len(old) \in Nat /\ Len(new) \in Nat /\ Len(old) <= Len(new)
      /\ DOMAIN old = 1..Len(old) /\ DOMAIN new = 1..Len(new)
  BY DEF Extends
<1>2. ASSUME NEW k, Wanted(old, k)
      PROVE  /\ Wanted(new, k)
             /\ new[k] = old[k]
             /\ First(old, k) => First(new, k)
  <2>1. Wanted(new, k) /\ new[k] = old[k]
    BY <1>1, <1>2 DEF Wanted, Extends
  <2>2. ASSUME First(old, k), NEW i \in DOMAIN new, new[i].corr = Want
        PROVE  k <= i
    <3>1. CASE i \in DOMAIN old
      BY <2>2, <3>1 DEF First, Extends
    <3>2. CASE i \notin DOMAIN old
      BY <1>1, <1>2, <2>2, <3>2 DEF Wanted
    <3> QED
      BY <3>1, <3>2
  <2> QED
    BY <2>1, <2>2 DEF First
<1>3. ASSUME NEW n, NEW k, Searched(old, n, k)
      PROVE  Searched(new, n, k)
  <2>1. n \in 0..Len(new)
    BY <1>1, <1>3 DEF Searched
  <2>2. k = 0 => \A i \in 1..n : new[i].corr # Want
    BY <1>1, <1>3 DEF Searched, Extends
  <2>3. k # 0 => Wanted(new, k) /\ First(new, k)
    BY <1>2, <1>3 DEF Searched
  <2> QED
    BY <2>1, <2>2, <2>3 DEF Searched
<1> QED
  BY <1>2, <1>3
-----------------------------------------------------------------------------
(* The initial state satisfies the invariant.                               *)
LEMMA PInit == Init => PInv
<1> SUFFICES ASSUME Init PROVE PInv
  OBVIOUS
<1>1. TypeInv
  <2>1. /\ traceTopic \in Seq(TraceRecord) /\ evidenceTopic \in Seq(EvidenceRecord)
        /\ attempted \in Nat /\ policy \in Nat
    BY DEF Init, EnvironmentInit
  <2>2. pc = [at |-> "idle", file |-> 0] /\ ~Copying
    BY DEF Init, At, Copying
  <2>3. dir \in [FileName -> Nat \cup {Absent, Empty}]
    BY DEF Init
  <2>4. /\ late \in BOOLEAN /\ hash \in Nat /\ exports \in Nat /\ handed \in BOOLEAN
        /\ seen \in [trace : Nat, evidence : Nat]
        /\ found \in [trace : Nat, evidence : Nat]
    BY DEF Init, Nothing
  <2> QED
    BY <2>1, <2>2, <2>3, <2>4 DEF TypeInv
<1>2. \A f \in FileName : ~Written(f)
  BY MarkAssumption DEF Init, Written
<1>3. DirInv
  BY <1>2 DEF DirInv, FileName, File
<1>4. TopicInv /\ FoundInv /\ RunInv
  BY DEF Init, EnvironmentInit, TopicInv, FoundInv, RunInv, At, Copying,
         Between, Past, ExportedPacketIsWhole, PacketPolicyIsRecent
<1> QED
  BY <1>1, <1>3, <1>4 DEF PInv

(* A record passes its schema or does not.                                  *)
LEMMA ValidityType == \A c : Validity(c) \subseteq BOOLEAN
BY DEF Validity

(* Meanwhile the topics grow, the policy is edited, and the script and what *)
(* it wrote stay as they are.                                               *)
LEMMA TopicsGrow ==
  ASSUME TypeInv, TopicInv, EnvironmentNext
  PROVE  /\ traceTopic' \in Seq(TraceRecord) /\ Extends(traceTopic, traceTopic')
         /\ evidenceTopic' \in Seq(EvidenceRecord)
         /\ Extends(evidenceTopic, evidenceTopic')
         /\ attempted' \in Nat
         /\ policy' \in Nat /\ policy <= policy'
         /\ TopicInv'
         /\ UNCHANGED scriptVars
<1> USE DEF TypeInv
<1>1. \A i \in DOMAIN traceTopic : i \in Nat /\ i # 0
  OBVIOUS
<1>2. ASSUME NEW c \in Corr, Decide(c)
      PROVE  /\ traceTopic' \in Seq(TraceRecord)
             /\ Extends(traceTopic, traceTopic')
             /\ TopicInv'
  <2>1. PICK v \in Validity(c) :
          traceTopic' = Append(traceTopic, [corr |-> c, policy |-> policy,
                                            valid |-> v])
    BY <1>2 DEF Decide
  <2>0. [corr |-> c, policy |-> policy, valid |-> v] \in TraceRecord
    BY <2>1, ValidityType DEF TraceRecord
  <2>2. PICK r \in TraceRecord :
          traceTopic' = Append(traceTopic, r) /\ r.policy = policy
    BY <2>0, <2>1
  <2>3. /\ DOMAIN traceTopic' = 1..(Len(traceTopic) + 1)
        /\ DOMAIN traceTopic = 1..Len(traceTopic)
        /\ \A i \in DOMAIN traceTopic : traceTopic'[i] = traceTopic[i]
        /\ traceTopic'[Len(traceTopic) + 1] = r
    BY <2>2
  <2>4. \A i \in DOMAIN traceTopic' : traceTopic'[i].policy <= policy'
    BY <1>2, <2>2, <2>3 DEF TopicInv, Decide
  <2>5. UNCHANGED evidenceTopic
    BY <1>2 DEF Decide
  <2> QED
    BY <2>2, <2>3, <2>4, <2>5 DEF TopicInv, Extends
<1>3. ASSUME NEW r \in EvidenceRecord,
             evidenceTopic' = Append(evidenceTopic, r), UNCHANGED traceTopic,
             UNCHANGED policy,
             r.of # 0 => /\ r.of \in DOMAIN traceTopic
                         /\ r.corr = traceTopic[r.of].corr
      PROVE  /\ evidenceTopic' \in Seq(EvidenceRecord)
             /\ Extends(evidenceTopic, evidenceTopic')
             /\ TopicInv'
  <2>1. /\ DOMAIN evidenceTopic' = 1..(Len(evidenceTopic) + 1)
        /\ DOMAIN evidenceTopic = 1..Len(evidenceTopic)
        /\ \A i \in DOMAIN evidenceTopic : evidenceTopic'[i] = evidenceTopic[i]
        /\ evidenceTopic'[Len(evidenceTopic) + 1] = r
    BY <1>3
  <2> QED
    BY <1>3, <2>1 DEF TopicInv, Extends
<1>4. ASSUME NEW o \in DOMAIN traceTopic, Attempt(o)
      PROVE  /\ evidenceTopic' \in Seq(EvidenceRecord)
             /\ Extends(evidenceTopic, evidenceTopic')
             /\ TopicInv'
  <2>1. traceTopic[o] \in TraceRecord
    OBVIOUS
  <2>2. /\ EvidenceOf(o) \in EvidenceRecord
        /\ EvidenceOf(o).of = o
        /\ EvidenceOf(o).corr = traceTopic[o].corr
    BY <1>1, <2>1 DEF EvidenceOf, TraceRecord, EvidenceRecord
  <2>3. CASE evidenceTopic' = Append(evidenceTopic, EvidenceOf(o))
    BY <1>3, <1>4, <2>2, <2>3 DEF Attempt
  <2>4. CASE UNCHANGED evidenceTopic
    BY <1>4, <2>4 DEF Attempt, TopicInv, Extends
  <2> QED
    BY <1>4, <2>3, <2>4 DEF Attempt
<1>5. ASSUME NEW c \in Corr, Submit(c)
      PROVE  /\ evidenceTopic' \in Seq(EvidenceRecord)
             /\ Extends(evidenceTopic, evidenceTopic')
             /\ TopicInv'
  <2>1. PICK v \in Validity(c) :
          evidenceTopic' = Append(evidenceTopic, [corr |-> c, of |-> 0, valid |-> v])
    BY <1>5 DEF Submit
  <2>2. PICK r \in EvidenceRecord :
          evidenceTopic' = Append(evidenceTopic, r) /\ r.of = 0
    BY <2>1, ValidityType DEF EvidenceRecord
  <2> QED
    BY <1>3, <1>5, <2>2 DEF Submit
<1>6. ASSUME NEW c \in Corr, Decide(c) \/ Submit(c) PROVE UNCHANGED scriptVars
  BY <1>6 DEF Decide, Submit
<1>7. CASE \E c \in Corr : Decide(c)
  BY <1>2, <1>6, <1>7 DEF Decide, Extends
<1>8. CASE \E c \in Corr : Submit(c)
  BY <1>5, <1>6, <1>8 DEF Submit, Extends
<1>9. CASE \E o \in DOMAIN traceTopic : Attempt(o)
  BY <1>1, <1>4, <1>9 DEF Attempt, Extends
<1>10. CASE Edit
  <2>1. \A i \in DOMAIN traceTopic : traceTopic[i] \in TraceRecord
    OBVIOUS
  <2>2. \A i \in DOMAIN traceTopic : traceTopic[i].policy \in Nat
    BY <2>1 DEF TraceRecord
  <2> QED
    BY <1>10, <2>2 DEF Edit, topics, Extends, TopicInv
<1> QED
  BY <1>7, <1>8, <1>9, <1>10 DEF EnvironmentNext

(* What goes on meanwhile disturbs nothing the script relies on.            *)
LEMMA EnvironmentStep == PInv /\ EnvironmentNext => PInv'
<1> SUFFICES ASSUME PInv, EnvironmentNext PROVE PInv'
  OBVIOUS
<1>1. TypeInv /\ TopicInv /\ FoundInv /\ DirInv /\ RunInv
  BY DEF PInv
<1>2. /\ traceTopic' \in Seq(TraceRecord) /\ Extends(traceTopic, traceTopic')
      /\ evidenceTopic' \in Seq(EvidenceRecord)
      /\ Extends(evidenceTopic, evidenceTopic')
      /\ attempted' \in Nat
      /\ policy' \in Nat /\ policy <= policy'
      /\ TopicInv'
      /\ UNCHANGED scriptVars
  BY <1>1, TopicsGrow
<1>3. /\ UNCHANGED <<pc, late, seen, found, hash, dir, exports, handed>>
      /\ Between' = Between /\ Copying' = Copying
      /\ \A f \in FileName : Written(f)' = Written(f)
  BY <1>2 DEF scriptVars, fetchVars, Between, Copying, Written
<1>4. TypeInv'
  BY <1>1, <1>2, <1>3 DEF TypeInv
<1>5. \A k : Wanted(traceTopic, k) =>
        /\ Wanted(traceTopic', k)
        /\ traceTopic'[k] = traceTopic[k]
        /\ First(traceTopic, k) => First(traceTopic', k)
  BY <1>1, <1>2, ExtensionKeeps DEF TypeInv
<1>6. \A k : Wanted(evidenceTopic, k) =>
        /\ Wanted(evidenceTopic', k)
        /\ evidenceTopic'[k] = evidenceTopic[k]
        /\ First(evidenceTopic, k) => First(evidenceTopic', k)
  BY <1>1, <1>2, ExtensionKeeps DEF TypeInv
<1>7. /\ \A n, k : Searched(traceTopic, n, k) => Searched(traceTopic', n, k)
      /\ \A n, k : Searched(evidenceTopic, n, k) => Searched(evidenceTopic', n, k)
  BY <1>1, <1>2, ExtensionKeeps DEF TypeInv
<1>8. FoundInv'
  BY <1>1, <1>3, <1>5, <1>6, <1>7 DEF FoundInv
<1>9. DirInv'
  BY <1>1, <1>3, <1>5, <1>6 DEF DirInv, FileName, File
<1>10. RunInv'
  <2>1. Copying => traceTopic'[found.trace] = traceTopic[found.trace]
    BY <1>1, <1>5 DEF FoundInv
  <2>2. pc.at = "done" => /\ Wanted(traceTopic, dir["decision_traces"])
                          /\ dir["rego"] \in Nat
    BY <1>1 DEF RunInv, ExportedPacketIsWhole, DirInv, FileName, File, Written
  <2>3. ExportedPacketIsWhole'
    BY <1>1, <1>3 DEF RunInv, ExportedPacketIsWhole
  <2>4. PacketPolicyIsRecent'
    BY <1>1, <1>3, <1>5, <2>2 DEF RunInv, PacketPolicyIsRecent
  <2>5. policy \in Nat
    BY <1>1 DEF TypeInv
  <2> QED
    BY <1>1, <1>2, <1>3, <2>1, <2>3, <2>4, <2>5 DEF RunInv, Past
<1> QED
  BY <1>2, <1>4, <1>8, <1>9, <1>10 DEF PInv
(* A step of the script that writes no file and does not end it well keeps  *)
(* what is known of the files.                                              *)
LEMMA QuietStep ==
  ASSUME PInv, UNCHANGED <<topics, policy, dir>>,
         handed' = handed \/ handed' = TRUE,
         pc'.at \in {"fetching", "checking", "failed"} \/ pc' = Writing(1),
         TypeInv', FoundInv'
  PROVE  PInv'
<1>1. UNCHANGED <<traceTopic, evidenceTopic, policy, dir>>
  BY DEF topics
<1>2. TopicInv' /\ \A f : Written(f)' = Written(f)
  BY <1>1 DEF PInv, TopicInv, Written
<1>3. DirInv'
  BY <1>1, <1>2 DEF PInv, DirInv
<1>4. pc'.at # "done" /\ \A k \in 1..4 : ~Past(k)'
  BY DEF Writing, Past, Copying
<1>5. ~(pc'.at = "opened" /\ pc'.file = 4)
  BY DEF Writing
<1>6. RunInv'
  BY <1>4, <1>5 DEF RunInv, ExportedPacketIsWhole, PacketPolicyIsRecent
<1> QED
  BY <1>2, <1>3, <1>6 DEF PInv

(* The script ends with a command that fails, at whatever point.            *)
LEMMA EndStep ==
  ASSUME PInv, End("failed"), UNCHANGED <<topics, policy, dir>>,
         handed' = handed \/ handed' = TRUE, exports' \in Nat
  PROVE  PInv'
<1>1. TypeInv
  BY DEF PInv
<1>2. pc' = [at |-> "failed", file |-> 0]
  BY DEF End, At
<1>3. TypeInv'
  <2>1. Nothing \in [trace : Nat, evidence : Nat]
    BY DEF Nothing
  <2>2. /\ late' \in BOOLEAN /\ hash' \in Nat /\ handed' \in BOOLEAN
        /\ seen' \in [trace : Nat, evidence : Nat]
        /\ found' \in [trace : Nat, evidence : Nat]
    BY <1>1, <2>1 DEF TypeInv, End
  <2>3. ~Copying' /\ UNCHANGED <<traceTopic, evidenceTopic, attempted, policy, dir>>
    BY <1>2 DEF Copying, topics
  <2> QED
    BY <1>1, <1>2, <2>2, <2>3 DEF TypeInv
<1>4. FoundInv'
  BY <1>2 DEF FoundInv, End, Between, Copying
<1> QED
  BY <1>2, <1>3, <1>4, QuietStep

(* A fetch or a run on two files begins.                                    *)
LEMMA StartStep == PInv /\ (Start \/ StartFromFiles) => PInv'
<1> SUFFICES ASSUME PInv, Start \/ StartFromFiles PROVE PInv'
  OBVIOUS
<1>1. TypeInv /\ FoundInv /\ exports + 1 \in Nat
  BY DEF PInv, TypeInv
<1>2. CASE Start
  <2>1. pc' = [at |-> "fetching", file |-> 0] /\ UNCHANGED fetchVars
    BY <1>2 DEF Start, At
  <2>2. TypeInv'
    BY <1>1, <1>2, <2>1 DEF TypeInv, Start, Copying, topics, fetchVars
  <2>3. seen' = Nothing /\ found' = Nothing
    BY <1>1, <1>2, <2>1 DEF Start, FoundInv, fetchVars
  <2>4. Searched(traceTopic', 0, 0) /\ Searched(evidenceTopic', 0, 0)
    BY <2>2 DEF Searched, TypeInv
  <2>5. FoundInv'
    BY <2>1, <2>3, <2>4 DEF FoundInv, Between, Copying, Nothing
  <2> QED
    BY <1>2, <2>1, <2>2, <2>5, QuietStep DEF Start
<1>3. CASE StartFromFiles
  <2>1. PICK m \in DOMAIN traceTopic, n \in DOMAIN evidenceTopic :
          IF traceTopic[m].corr = Want /\ evidenceTopic[n].corr = Want
          THEN /\ pc' = At("checking")
               /\ found' = [trace |-> m, evidence |-> n]
               /\ UNCHANGED <<late, seen, hash>>
          ELSE End("failed")
    BY <1>3 DEF StartFromFiles
  <2>2. /\ exports' = exports + 1 /\ handed' = TRUE
        /\ UNCHANGED <<topics, policy, dir>>
    BY <1>3 DEF StartFromFiles
  <2>3. CASE traceTopic[m].corr = Want /\ evidenceTopic[n].corr = Want
    <3>1. /\ pc' = [at |-> "checking", file |-> 0]
          /\ found' = [trace |-> m, evidence |-> n]
          /\ UNCHANGED <<late, seen, hash>>
      BY <2>1, <2>3 DEF At
    <3>2. m \in Nat /\ n \in Nat
      BY <1>1 DEF TypeInv
    <3>3. TypeInv'
      BY <1>1, <2>2, <3>1, <3>2 DEF TypeInv, Copying, topics
    <3>4. FoundInv'
      BY <2>2, <2>3, <3>1 DEF FoundInv, Between, Copying, Wanted, topics
    <3> QED
      BY <2>2, <3>1, <3>3, <3>4, QuietStep
  <2>4. CASE ~(traceTopic[m].corr = Want /\ evidenceTopic[n].corr = Want)
    BY <1>1, <2>1, <2>2, <2>4, EndStep
  <2> QED
    BY <2>3, <2>4
<1> QED
  BY <1>2, <1>3

(* The fetch polls, or notices the time.                                    *)
LEMMA FetchStep == PInv /\ (Poll \/ Deadline \/ GiveUp) => PInv'
<1> SUFFICES ASSUME PInv, Poll \/ Deadline \/ GiveUp PROVE PInv'
  OBVIOUS
<1>1. TypeInv /\ FoundInv /\ exports \in Nat
  BY DEF PInv, TypeInv
<1>2. /\ pc = [at |-> "fetching", file |-> pc.file] /\ pc.at = "fetching"
      /\ UNCHANGED <<topics, policy, dir, exports, handed>>
  BY <1>1 DEF Poll, Deadline, GiveUp, TypeInv
<1>3. CASE GiveUp
  BY <1>1, <1>2, <1>3, EndStep DEF GiveUp
<1>4. CASE Deadline
  <2>1. late' = TRUE /\ UNCHANGED <<pc, seen, found, hash>>
    BY <1>4 DEF Deadline
  <2>2. TypeInv'
    BY <1>1, <1>2, <2>1 DEF TypeInv, Copying, topics
  <2>3. FoundInv'
    BY <1>1, <1>2, <2>1 DEF FoundInv, Between, Copying, topics
  <2> QED
    BY <1>2, <2>1, <2>2, <2>3, QuietStep
<1>5. CASE Poll
  <2> DEFINE Kept(m, n) ==
               [trace    |-> FirstMatch(traceTopic, seen.trace + 1, m, found.trace),
                evidence |-> FirstMatch(evidenceTopic, seen.evidence + 1, n,
                                        found.evidence)]
  <2>0. PICK m \in seen.trace..Len(traceTopic),
             n \in seen.evidence..Len(evidenceTopic) :
          \/ /\ Complete(Kept(m, n))
             /\ pc' = At("checking")
             /\ late' = FALSE
             /\ seen' = Nothing
             /\ found' = Kept(m, n)
             /\ UNCHANGED hash
          \/ /\ ~Complete(Kept(m, n)) /\ ~late
             /\ seen' = [trace |-> m, evidence |-> n]
             /\ found' = Kept(m, n)
             /\ UNCHANGED <<pc, late, hash>>
          \/ ~Complete(Kept(m, n)) /\ late /\ End("failed")
    BY <1>5 DEF Poll
  <2>1. PICK kept : kept = Kept(m, n)
    OBVIOUS
  <2>2. /\ Searched(traceTopic, m, kept.trace) /\ kept.trace \in Nat
        /\ Searched(evidenceTopic, n, kept.evidence) /\ kept.evidence \in Nat
    <3>1. found.trace \in Nat /\ found.evidence \in Nat
      BY <1>1 DEF TypeInv
    <3> QED
      BY <1>1, <1>2, <2>1, <3>1, FirstMatchFinds DEF FoundInv, TypeInv
  <2>3. kept = [trace |-> kept.trace, evidence |-> kept.evidence]
    BY <2>1
  <2>4. m \in Nat /\ n \in Nat
    BY <2>2, <1>1 DEF Searched, TypeInv
  <2>5. CASE /\ Complete(kept)
             /\ pc' = At("checking")
             /\ late' = FALSE
             /\ seen' = Nothing
             /\ found' = kept
             /\ UNCHANGED hash
    <3>1. pc' = [at |-> "checking", file |-> 0]
      BY <2>5 DEF At
    <3>2. TypeInv'
      <4>1. Nothing \in [trace : Nat, evidence : Nat]
        BY DEF Nothing
      <4>2. /\ late' \in BOOLEAN /\ hash' \in Nat
            /\ seen' \in [trace : Nat, evidence : Nat]
            /\ found' \in [trace : Nat, evidence : Nat]
        BY <1>1, <2>2, <2>3, <2>5, <4>1 DEF TypeInv
      <4>3. /\ ~Copying'
            /\ UNCHANGED <<traceTopic, evidenceTopic, attempted, policy, dir>>
        BY <1>2, <3>1 DEF Copying, topics
      <4> QED
        BY <1>1, <1>2, <3>1, <4>2, <4>3 DEF TypeInv
    <3>3. FoundInv'
      BY <1>2, <2>2, <2>5, <3>1
         DEF FoundInv, Searched, Complete, Between, Copying, topics
    <3> QED
      BY <1>2, <3>1, <3>2, <3>3, QuietStep
  <2>6. CASE /\ ~Complete(kept) /\ ~late
             /\ seen' = [trace |-> m, evidence |-> n]
             /\ found' = kept
             /\ UNCHANGED <<pc, late, hash>>
    <3>1. TypeInv'
      BY <1>1, <1>2, <2>2, <2>3, <2>4, <2>6 DEF TypeInv, Copying, topics
    <3>2. FoundInv'
      BY <1>2, <2>2, <2>6 DEF FoundInv, Between, Copying, topics
    <3> QED
      BY <1>2, <2>6, <3>1, <3>2, QuietStep
  <2>7. CASE ~Complete(kept) /\ late /\ End("failed")
    BY <1>1, <1>2, <2>7, EndStep
  <2> QED
    BY <2>0, <2>1, <2>5, <2>6, <2>7
<1> QED
  BY <1>3, <1>4, <1>5
(* The records are checked, or a command fails.                             *)
LEMMA CheckStep == PInv /\ (Check \/ Fail) => PInv'
<1> SUFFICES ASSUME PInv, Check \/ Fail PROVE PInv'
  OBVIOUS
<1>1. TypeInv /\ FoundInv /\ exports \in Nat
  BY DEF PInv, TypeInv
<1>2. UNCHANGED <<topics, policy, dir, exports, handed>>
  BY DEF Check, Fail
<1>3. CASE End("failed")
  BY <1>1, <1>2, <1>3, EndStep
<1>4. CASE Check /\ BothValid(found)
  <2>1. pc' = [at |-> "writing", file |-> 1] /\ UNCHANGED <<late, seen, found, hash>>
    BY <1>4 DEF Check, Writing, fetchVars
  <2>2. TypeInv'
    BY <1>1, <1>2, <2>1 DEF TypeInv, Copying, topics
  <2>3. FoundInv'
    BY <1>1, <1>2, <1>4, <2>1 DEF FoundInv, BothValid, Check, Between, Copying, topics
  <2> QED
    BY <1>2, <2>1, <2>2, <2>3, QuietStep DEF Writing
<1> QED
  BY <1>3, <1>4 DEF Check, Fail, BothValid

-----------------------------------------------------------------------------
(* The files of the packet.                                                 *)

(* The script writes five files, each of them once.                         *)
LEMMA Files ==
  /\ File[1] = "decision_traces" /\ File[2] = "evidence" /\ File[3] = "rego"
  /\ File[4] = "metadata" /\ File[5] = "pointers"
  /\ Len(File) = 5 /\ DOMAIN File = 1..5
  /\ FileName = {"decision_traces", "evidence", "rego", "metadata", "pointers"}
<1>1. /\ File[1] = "decision_traces" /\ File[2] = "evidence" /\ File[3] = "rego"
      /\ File[4] = "metadata" /\ File[5] = "pointers"
      /\ Len(File) = 5 /\ DOMAIN File = 1..5
  BY DEF File
<1>2. 1..5 = {1, 2, 3, 4, 5}
  OBVIOUS
<1> QED
  BY <1>1, <1>2 DEF FileName

(* What goes into each of them.                                             *)
LEMMA Contents ==
  /\ Content("decision_traces") = found.trace
  /\ Content("evidence") = found.evidence
  /\ Content("rego") = policy
  /\ Content("metadata") = hash
  /\ Content("pointers") = found.trace
BY DEF Content

(* A file that was opened says nothing yet, and the others what they said.  *)
LEMMA OpenStep == PInv /\ Open => PInv'
<1> SUFFICES ASSUME PInv, Open PROVE PInv'
  OBVIOUS
<1>1. TypeInv /\ TopicInv /\ FoundInv /\ DirInv /\ RunInv
  BY DEF PInv
<1>2. PICK k : k = pc.file
  OBVIOUS
<1>3. /\ pc.at = "writing" /\ k \in {1, 2, 3, 4, 5}
      /\ pc' = [at |-> "opened", file |-> k]
      /\ dir' = [dir EXCEPT ![File[k]] = Empty]
      /\ hash' = IF File[k] = "metadata" THEN policy ELSE hash
      /\ UNCHANGED <<traceTopic, evidenceTopic, attempted, policy, late, seen,
                     found, exports, handed>>
  BY <1>1, <1>2 DEF TypeInv, Open, Opened, Copying, topics, fetchVars
<1>4. File[k] \in FileName /\ (k = 4 <=> File[k] = "metadata")
  BY <1>3, Files
<1>5. /\ dir'[File[k]] = Empty
      /\ \A f \in FileName : f # File[k] => dir'[f] = dir[f]
      /\ dir' \in [FileName -> Nat \cup {Absent, Empty}]
  BY <1>1, <1>3, <1>4 DEF TypeInv
<1>6. TypeInv'
  <2>1. hash' \in Nat /\ Copying' /\ pc'.file # 0
    BY <1>1, <1>3 DEF TypeInv, Copying
  <2> QED
    BY <1>1, <1>3, <1>5, <2>1 DEF TypeInv
<1>7. TopicInv' /\ FoundInv'
  BY <1>1, <1>3 DEF TopicInv, FoundInv, Between, Copying
<1>8. ~(Empty \in Nat)
  BY MarkAssumption
<1>9. \A f \in FileName : Written(f)' => Written(f) /\ dir'[f] = dir[f]
  BY <1>5, <1>8 DEF Written
<1>10. DirInv'
  BY <1>1, <1>3, <1>9, Files DEF DirInv
<1>11. \A j \in 1..4 : Past(j)' => Past(j) /\ File[j] # File[k]
  BY <1>2, <1>3, Files DEF Past, Copying
<1>12. RunInv'
  <2>1. /\ Past(1)' => Past(1) /\ dir'["decision_traces"] = dir["decision_traces"]
        /\ Past(2)' => Past(2) /\ dir'["evidence"] = dir["evidence"]
        /\ Past(3)' => Past(3) /\ dir'["rego"] = dir["rego"]
        /\ Past(4)' => Past(4) /\ dir'["metadata"] = dir["metadata"]
    BY <1>5, <1>11, Files
  <2>2. pc'.at = "opened" /\ pc'.file = 4 => Past(3)' /\ hash' = policy
    BY <1>3, <1>4 DEF Past, Copying
  <2>3. Past(4)' => Past(3)'
    BY <1>3 DEF Past
  <2> QED
    BY <1>1, <1>3, <2>1, <2>2, <2>3
       DEF RunInv, ExportedPacketIsWhole, PacketPolicyIsRecent
<1> QED
  BY <1>6, <1>7, <1>10, <1>12 DEF PInv
(* A file that is written holds what this run found, and the last one makes *)
(* the packet whole.                                                        *)
LEMMA WriteStep == PInv /\ Write => PInv'
<1> SUFFICES ASSUME PInv, Write PROVE PInv'
  OBVIOUS
<1>1. TypeInv /\ TopicInv /\ FoundInv /\ DirInv /\ RunInv
  BY DEF PInv
<1>2. PICK k : k = pc.file
  OBVIOUS
<1>3. PICK content : content = Content(File[k])
  OBVIOUS
<1>4. /\ pc.at = "opened" /\ k \in {1, 2, 3, 4, 5} /\ Copying
      /\ dir' = [dir EXCEPT ![File[k]] = content]
      /\ k = 5 => End("done")
      /\ k # 5 => /\ pc' = [at |-> "writing", file |-> k + 1]
                  /\ UNCHANGED <<late, seen, found, hash>>
      /\ UNCHANGED <<traceTopic, evidenceTopic, attempted, policy, exports, handed>>
  BY <1>1, <1>2, <1>3, Files DEF TypeInv, Write, Writing, Copying, topics, fetchVars
<1>5. /\ k = 1 => content = found.trace
      /\ k = 2 => content = found.evidence
      /\ k = 3 => content = policy
      /\ k = 4 => content = hash
      /\ k = 5 => content = found.trace
  BY <1>3, Files, Contents
<1>6. content \in Nat /\ found.trace \in Nat /\ found.evidence \in Nat
  BY <1>1, <1>4, <1>5 DEF TypeInv
<1>7. /\ File[k] \in FileName
      /\ dir'[File[k]] = content
      /\ \A f \in FileName : f # File[k] => dir'[f] = dir[f]
      /\ dir' \in [FileName -> Nat \cup {Absent, Empty}]
  BY <1>1, <1>4, <1>6, Files DEF TypeInv
<1>8. /\ dir'["decision_traces"] = IF k = 1 THEN found.trace ELSE dir["decision_traces"]
      /\ dir'["evidence"] = IF k = 2 THEN found.evidence ELSE dir["evidence"]
      /\ dir'["rego"] = IF k = 3 THEN policy ELSE dir["rego"]
      /\ dir'["metadata"] = IF k = 4 THEN hash ELSE dir["metadata"]
      /\ dir'["pointers"] = IF k = 5 THEN found.trace ELSE dir["pointers"]
  BY <1>4, <1>5, <1>7, Files
<1>9. k = 5 => pc' = [at |-> "done", file |-> 0]
  BY <1>4 DEF End, At
<1>10. TypeInv'
  <2>1. Nothing \in [trace : Nat, evidence : Nat]
    BY DEF Nothing
  <2>2. /\ late' \in BOOLEAN /\ hash' \in Nat
        /\ seen' \in [trace : Nat, evidence : Nat]
        /\ found' \in [trace : Nat, evidence : Nat]
    <3>1. CASE k = 5
      <4>1. /\ late' = FALSE /\ hash' = 0
            /\ seen' = Nothing /\ found' = Nothing
        BY <1>4, <3>1 DEF End
      <4> QED
        BY <2>1, <4>1
    <3>2. CASE k # 5
      BY <1>1, <1>4, <3>2 DEF TypeInv
    <3> QED
      BY <3>1, <3>2
  <2>3. /\ pc' \in [at : {"writing", "done"}, file : 0..5]
        /\ Copying' => pc'.file # 0
    BY <1>4, <1>9 DEF Copying
  <2> QED
    BY <1>1, <1>4, <1>7, <2>2, <2>3 DEF TypeInv
<1>11. TopicInv'
  BY <1>1, <1>4 DEF TopicInv
<1>12. FoundInv'
  <2>1. CASE k = 5
    BY <1>4, <1>9, <2>1 DEF FoundInv, End, Between, Copying
  <2>2. CASE k # 5
    BY <1>1, <1>4, <2>2 DEF FoundInv, Between, Copying
  <2> QED
    BY <2>1, <2>2
<1>13. DirInv'
  BY <1>1, <1>4, <1>8 DEF DirInv, FoundInv, Written
<1>14. RunInv'
  <2>1. /\ k > 1 => dir["decision_traces"] = found.trace
        /\ k > 2 => dir["evidence"] = found.evidence
        /\ k > 3 => /\ dir["rego"] \in Nat
                    /\ traceTopic[found.trace].policy <= dir["rego"]
                    /\ dir["rego"] <= policy
        /\ k = 4 => dir["rego"] <= hash
        /\ k > 4 => dir["metadata"] \in Nat /\ dir["rego"] <= dir["metadata"]
    BY <1>1, <1>2, <1>4 DEF RunInv, Past
  <2>2. CASE k # 5
    <3>1. traceTopic[found.trace].policy <= policy /\ policy \in Nat /\ hash \in Nat
      BY <1>1, <1>4 DEF TypeInv, TopicInv, FoundInv, Wanted
    <3>2. \A j \in 1..4 : Past(j)' => k >= j
      BY <1>4, <2>2 DEF Past, Copying
    <3> QED
      BY <1>4, <1>8, <2>1, <2>2, <3>1, <3>2
         DEF RunInv, ExportedPacketIsWhole, PacketPolicyIsRecent
  <2>3. CASE k = 5
    <3>1. ~Copying' /\ pc'.at = "done"
      BY <1>9, <2>3 DEF Copying
    <3>2. ExportedPacketIsWhole'
      BY <1>6, <1>8, <2>1, <2>3, Files DEF ExportedPacketIsWhole, Written
    <3>3. PacketPolicyIsRecent'
      BY <1>4, <1>8, <2>1, <2>3 DEF PacketPolicyIsRecent
    <3> QED
      BY <3>1, <3>2, <3>3 DEF RunInv, Past
  <2> QED
    BY <2>2, <2>3
<1> QED
  BY <1>10, <1>11, <1>12, <1>13, <1>14 DEF PInv

-----------------------------------------------------------------------------
(* The theorems.                                                            *)

(* The invariant is one: of every run of the script and of all of them.     *)
THEOREM PacketInvariance == Spec => []PInv
<1>1. PInv /\ [Next]_vars => PInv'
  <2> SUFFICES ASSUME PInv, [Next]_vars PROVE PInv'
    OBVIOUS
  <2>1. CASE UNCHANGED vars
    BY <2>1 DEF vars, topics, scriptVars, fetchVars, PInv, TypeInv, TopicInv,
                FoundInv, DirInv, RunInv, Copying, Between, Past, Written,
                ExportedPacketIsWhole, PacketPolicyIsRecent
  <2> QED
    BY <2>1, EnvironmentStep, StartStep, FetchStep, CheckStep, OpenStep, WriteStep
       DEF Next, Script
<1> QED
  BY PInit, <1>1, PTL DEF Spec, SafeSpec

(* A script that ends well leaves a whole packet of one decision.           *)
THEOREM PacketWhole == Spec => []ExportedPacketIsWhole
<1>1. PInv => ExportedPacketIsWhole
  BY DEF PInv, RunInv
<1> QED
  BY <1>1, PacketInvariance, PTL

(* The packet holds no record of another correlation id and none that the   *)
(* schemas refuse, whatever run failed at whatever command.                 *)
THEOREM PacketChecked == Spec => []PacketHoldsCheckedRecords
<1>1. PInv => PacketHoldsCheckedRecords
  BY DEF PInv, DirInv, Wanted, PacketHoldsCheckedRecords
<1> QED
  BY <1>1, PacketInvariance, PTL

(* The packet holds the first decision and the first evidence under the id, *)
(* however the polls were cut and however often it is exported again.       *)
THEOREM PacketFirst == Spec => []PacketHoldsFirstRecords
<1>1. PInv => PacketHoldsFirstRecords
  BY DEF PInv, DirInv, First, PacketHoldsFirstRecords
<1> QED
  BY <1>1, PacketInvariance, PTL

(* The policy beside a decision is no older than the decision, and the hash *)
(* no older than the policy.                                                *)
THEOREM PacketRecent == Spec => []PacketPolicyIsRecent
<1>1. PInv => PacketPolicyIsRecent
  BY DEF PInv, RunInv
<1> QED
  BY <1>1, PacketInvariance, PTL

(* A packet whose evidence is of another decision means that its own had    *)
(* left none before: evidence of it would have the id of the packet, and    *)
(* the evidence in the packet is the first with that id.                    *)
THEOREM ChainLoss == Spec => []ChainBreaksOnlyOnLoss
<1>1. PInv => ChainBreaksOnlyOnLoss
  <2> SUFFICES ASSUME PInv, ~handed, Written("decision_traces"),
                      Written("evidence"), ~SameChain,
                      NEW i \in 1..dir["evidence"],
                      evidenceTopic[i].of = dir["decision_traces"]
               PROVE  FALSE
    BY DEF ChainBreaksOnlyOnLoss
  <2>1. /\ Wanted(traceTopic, dir["decision_traces"])
        /\ Wanted(evidenceTopic, dir["evidence"])
        /\ First(evidenceTopic, dir["evidence"])
    BY DEF PInv, DirInv
  <2>2. i \in DOMAIN evidenceTopic /\ dir["decision_traces"] # 0
    BY <2>1 DEF PInv, TypeInv, Wanted
  <2>3. evidenceTopic[i].corr = Want
    BY <2>1, <2>2 DEF PInv, TopicInv, Wanted
  <2>4. i = dir["evidence"]
    BY <2>1, <2>2, <2>3 DEF First, Written
  <2> QED
    BY <2>4 DEF SameChain
<1> QED
  BY <1>1, PacketInvariance, PTL
=============================================================================
