---------------------------- MODULE WorkerProofs ----------------------------
(***************************************************************************)
(* Proofs about the worker's consumer group, for any set of workers, any   *)
(* set of records and any number of crashes and evictions.                 *)
(*                                                                         *)
(* The properties are not inductive: what a commit publishes is a number   *)
(* that was copied from a cursor when a poll was entered, so the invariant *)
(* has to say, of every cursor, which records are behind it.  How often a  *)
(* trace can be redelivered, and that the workers implement the ledger of  *)
(* decisions, rests on that invariant and comes after it.                  *)
(***************************************************************************)
EXTENDS Worker, FiniteSetTheorems, FunctionTheorems, TLAPS

(* Records 1..n have been through the loop of some worker.                  *)
Done(n) == \A k \in 1..n : k \in attempted

(* The batch of w lies within the topic and has its predecessors behind it; *)
(* the batch of its current assignment ends where its polls did.            *)
BatchOK(w) ==
  pc[w] = "processing" =>
    /\ batch[w].epoch > 0
    /\ batch[w].epoch <= epoch
    /\ batch[w].next > 0
    /\ batch[w].next <= batch[w].last
    /\ batch[w].last <= Len(traceTopic)
    /\ Done(batch[w].next - 1)
    /\ batch[w].epoch = session[w] => batch[w].last = fetched[w]

(* What every cursor of w stands for.                                       *)
CursorOK(w) ==
  /\ session[w] <= epoch
  /\ marked[w] <= fetched[w]
  /\ fetched[w] <= Len(traceTopic)
  /\ Done(marked[w])
  /\ \/ Done(fetched[w])
     \/ pc[w] = "processing" /\ batch[w].epoch = session[w]

MemberInv == \A w \in Worker : BatchOK(w) /\ CursorOK(w)

(* What the coordinator holds.                                              *)
GroupInv ==
  /\ committed <= Len(traceTopic)
  /\ Done(committed)
  /\ \A w \in Worker :
       owner = w => /\ epoch > 0
                    /\ session[w] = epoch => committed <= marked[w]

(* The attempted records are a prefix of the topic.                         *)
PrefixInv ==
  \A o \in attempted : /\ o > 0
                       /\ o <= Len(traceTopic)
                       /\ Done(o)

IndInv == TypeOK /\ MemberInv /\ GroupInv /\ PrefixInv

-----------------------------------------------------------------------------
(* The initial state satisfies the invariant.                               *)
LEMMA IndInit == Init => IndInv
BY NoWorkerAssumption
   DEF Init, IndInv, TypeOK, MemberInv, BatchOK, CursorOK, GroupInv,
       PrefixInv, NoBatch, Done, EvidenceEvent

(* The trace under the cursor of a batch is a record of the topic.          *)
LEMMA BatchRecord ==
  ASSUME IndInv, NEW w \in Worker, pc[w] = "processing"
  PROVE  /\ batch[w].next \in Nat
         /\ traceTopic[batch[w].next] \in Trace
BY DEF IndInv, TypeOK, MemberInv, BatchOK

(* The variables keep their types.                                          *)
LEMMA TypeStep == IndInv /\ [Next]_vars => TypeOK'
<1> SUFFICES ASSUME IndInv, [Next]_vars PROVE TypeOK'
  OBVIOUS
<1> USE DEF IndInv, TypeOK
<1>1. ASSUME NEW t \in Trace, Publish(t) PROVE TypeOK'
  BY <1>1 DEF Publish, groupVars, memberVars, loopVars
<1>2. ASSUME NEW w \in Worker, Assign(w) PROVE TypeOK'
  BY <1>2 DEF Assign, loopVars
<1>3. ASSUME NEW w \in Worker, Evict(w) PROVE TypeOK'
  BY <1>3 DEF Evict, memberVars, loopVars
<1>4. ASSUME NEW w \in Worker, Expire(w) PROVE TypeOK'
  BY <1>4 DEF Expire, memberVars, loopVars
<1>5. ASSUME NEW w \in Worker, Notice(w) PROVE TypeOK'
  BY <1>5 DEF Notice, groupVars, loopVars
<1>6. ASSUME NEW w \in Worker, Commit(w) PROVE TypeOK'
  BY <1>6 DEF Commit, memberVars, loopVars
<1>7. ASSUME NEW w \in Worker, EnterPoll(w) PROVE TypeOK'
  BY <1>7 DEF EnterPoll, groupVars
<1>8. ASSUME NEW w \in Worker, ReturnPoll(w) PROVE TypeOK'
  <2>1. PICK n \in (fetched[w] + 1)..Len(traceTopic) :
          /\ fetched' = [fetched EXCEPT ![w] = n]
          /\ batch' = [batch EXCEPT ![w] = [epoch |-> session[w],
                                            next  |-> fetched[w] + 1,
                                            last  |-> n]]
    BY <1>8 DEF ReturnPoll
  <2>2. fetched[w] \in Nat /\ session[w] \in Nat /\ n \in Nat
    OBVIOUS
  <2>3. fetched' \in [Worker -> Nat]
    BY <2>1, <2>2
  <2>4. batch' \in [Worker -> [epoch : Nat, next : Nat, last : Nat]]
    BY <2>1, <2>2
  <2> QED
    BY <1>8, <2>3, <2>4 DEF ReturnPoll, groupVars
<1>9. ASSUME NEW w \in Worker, FailPoll(w) PROVE TypeOK'
  BY <1>9 DEF FailPoll, groupVars, memberVars
<1>10. ASSUME NEW w \in Worker, Process(w) PROVE TypeOK'
  <2>1. Advance(w)
    BY <1>10 DEF Process, Skip, Emit, Drop
  <2>2. /\ batch[w].next \in Nat
        /\ traceTopic[batch[w].next] \in Trace
    BY <2>1, BatchRecord DEF Advance
  <2>3. \/ evidenceTopic' = evidenceTopic
        \/ evidenceTopic' = Append(evidenceTopic,
                              EvidenceOf(batch[w].next, batch[w].epoch))
    BY <1>10 DEF Process, Skip, Emit, Drop
  <2> DEFINE o == batch[w].next
  <2>4. TraceToEvidence(traceTopic[o]) \in {TraceToEvidence(t) : t \in Trace}
    BY <2>2
  <2>5. EvidenceOf(o, batch[w].epoch) \in EvidenceEvent
    <3>1. o \in Nat /\ batch[w].epoch \in Nat
      BY <2>2
    <3> QED
      BY <2>4, <3>1 DEF EvidenceOf, EvidenceEvent
  <2>6. evidenceTopic' \in Seq(EvidenceEvent)
    <3>1. evidenceTopic \in Seq(EvidenceEvent)
      OBVIOUS
    <3> HIDE DEF IndInv, TypeOK
    <3> QED
      BY <2>3, <2>5, <3>1
  <2>7. batch' \in [Worker -> [epoch : Nat, next : Nat, last : Nat]]
    <3> DEFINE b == [batch[w] EXCEPT !.next = o + 1]
    <3>1. b \in [epoch : Nat, next : Nat, last : Nat]
      <4>1. batch[w] \in [epoch : Nat, next : Nat, last : Nat]
        OBVIOUS
      <4> HIDE DEF IndInv, TypeOK
      <4> QED
        BY <4>1
    <3>2. batch' = [batch EXCEPT ![w] = b]
      BY <2>1 DEF Advance
    <3> QED
      BY <3>1, <3>2
  <2>8. attempted' \subseteq Nat
    BY <2>1, <2>2 DEF Advance
  <2>9. pc' \in [Worker -> {"down", "loop", "polling", "processing"}]
    BY <2>1 DEF Advance
  <2> QED
    BY <2>1, <2>6, <2>7, <2>8, <2>9 DEF Advance, groupVars, memberVars
<1>11. ASSUME NEW w \in Worker, Crash(w) PROVE TypeOK'
  <2>1. NoBatch \in [epoch : Nat, next : Nat, last : Nat]
    BY DEF NoBatch
  <2> QED
    BY <1>11, <2>1, SMTT(60) DEF Crash, groupVars
<1>12. ASSUME NEW w \in Worker, Restart(w) PROVE TypeOK'
  BY <1>12 DEF Restart, groupVars, memberVars
<1>13. CASE UNCHANGED vars
  BY <1>13 DEF vars, groupVars, memberVars, loopVars
<1> QED
  BY <1>1, <1>2, <1>3, <1>4, <1>5, <1>6, <1>7, <1>8, <1>9, <1>10, <1>11,
     <1>12, <1>13 DEF Next, WorkerNext

-----------------------------------------------------------------------------
(* The cursors of v are not touched by a step.                              *)
Unmoved(v) ==
  /\ pc'[v] = pc[v]
  /\ batch'[v] = batch[v]
  /\ session'[v] = session[v]
  /\ fetched'[v] = fetched[v]
  /\ marked'[v] = marked[v]

(* The topic only grows, assignments are numbered upwards, and nothing      *)
(* attempted is forgotten.                                                  *)
Grow ==
  /\ Len(traceTopic) <= Len(traceTopic')
  /\ epoch <= epoch'
  /\ attempted \subseteq attempted'

(* The types of the cursors of a worker.                                    *)
LEMMA CursorTypes ==
  ASSUME TypeOK, NEW w \in Worker
  PROVE  /\ pc[w] \in {"down", "loop", "polling", "processing"}
         /\ batch[w] \in [epoch : Nat, next : Nat, last : Nat]
         /\ batch[w].epoch \in Nat
         /\ batch[w].next \in Nat
         /\ batch[w].last \in Nat
         /\ session[w] \in Nat
         /\ fetched[w] \in Nat
         /\ marked[w] \in Nat
         /\ epoch \in Nat
         /\ committed \in Nat
         /\ Len(traceTopic) \in Nat
BY DEF TypeOK

(* What held of the cursors of a worker still holds after a step that does  *)
(* not touch them.                                                          *)
LEMMA UnmovedOK ==
  ASSUME TypeOK, TypeOK', NEW v \in Worker, Unmoved(v), Grow,
         BatchOK(v), CursorOK(v)
  PROVE  BatchOK(v)' /\ CursorOK(v)'
<1> USE CursorTypes
<1>1. Len(traceTopic') \in Nat /\ epoch' \in Nat
  BY DEF TypeOK
<1>2. BatchOK(v)'
  BY <1>1 DEF BatchOK, Unmoved, Grow, Done
<1>3. CursorOK(v)'
  <2>1. \A n \in Nat : Done(n) => \A k \in 1..n : k \in attempted'
    BY DEF Done, Grow
  <2>2. Done(marked[v])' /\ (Done(fetched[v]) => Done(fetched[v])')
    BY <2>1 DEF CursorOK, Unmoved, Done
  <2> QED
    BY <1>1, <2>2 DEF CursorOK, Unmoved, Grow
<1> QED
  BY <1>2, <1>3

(* Topic, attempts and assignment numbers never shrink.                     *)
LEMMA StepsGrow == IndInv /\ [Next]_vars => Grow
<1> SUFFICES ASSUME IndInv, [Next]_vars PROVE Grow
  OBVIOUS
<1>1. traceTopic \in Seq(Trace) /\ epoch \in Nat
  BY DEF IndInv, TypeOK
<1>2. ASSUME NEW t \in Trace, Publish(t) PROVE Grow
  BY <1>1, <1>2 DEF Grow, Publish, groupVars
<1>3. ASSUME NEW w \in Worker, Assign(w) PROVE Grow
  BY <1>1, <1>3 DEF Grow, Assign
<1>4. ASSUME NEW w \in Worker, Process(w) PROVE Grow
  BY <1>1, <1>4 DEF Grow, Process, Skip, Emit, Drop, Advance, groupVars
<1>5. ASSUME NEW w \in Worker,
             Evict(w) \/ Expire(w) \/ Notice(w) \/ Commit(w)
      PROVE  Grow
  BY <1>1, <1>5 DEF Grow, Evict, Expire, Notice, Commit, groupVars
<1>6. ASSUME NEW w \in Worker,
             EnterPoll(w) \/ ReturnPoll(w) \/ FailPoll(w)
      PROVE  Grow
  BY <1>1, <1>6 DEF Grow, EnterPoll, ReturnPoll, FailPoll, groupVars
<1>7. ASSUME NEW w \in Worker, Crash(w) \/ Restart(w) PROVE Grow
  BY <1>1, <1>7 DEF Grow, Crash, Restart, groupVars
<1>8. CASE UNCHANGED vars
  BY <1>1, <1>8 DEF Grow, vars, groupVars
<1> QED
  BY <1>2, <1>3, <1>4, <1>5, <1>6, <1>7, <1>8 DEF Next, WorkerNext

(* Every step preserves what the cursors of the workers stand for.          *)
LEMMA MemberStep == IndInv /\ [Next]_vars => MemberInv'
<1> SUFFICES ASSUME IndInv, [Next]_vars PROVE MemberInv'
  OBVIOUS
<1>1. TypeOK /\ TypeOK' /\ Grow
  BY TypeStep, StepsGrow DEF IndInv
<1>2. \A v \in Worker : BatchOK(v) /\ CursorOK(v)
  BY DEF IndInv, MemberInv
<1>3. ASSUME NEW w \in Worker, BatchOK(w)', CursorOK(w)',
             \A v \in Worker \ {w} : Unmoved(v)
      PROVE  MemberInv'
  <2>1. \A v \in Worker \ {w} : BatchOK(v)' /\ CursorOK(v)'
    BY <1>1, <1>2, <1>3, UnmovedOK
  <2> QED
    BY <1>3, <2>1 DEF MemberInv
<1>4. ASSUME \A v \in Worker : Unmoved(v) PROVE MemberInv'
  BY <1>1, <1>2, <1>4, UnmovedOK DEF MemberInv
<1>5. ASSUME NEW t \in Trace, Publish(t) PROVE MemberInv'
  BY <1>4, <1>5 DEF Publish, Unmoved, memberVars, loopVars
<1>6. ASSUME NEW w \in Worker, Evict(w) \/ Expire(w) \/ Commit(w)
      PROVE  MemberInv'
  BY <1>4, <1>6 DEF Evict, Expire, Commit, Unmoved, memberVars, loopVars
<1>7. CASE UNCHANGED vars
  BY <1>4, <1>7 DEF vars, Unmoved, memberVars, loopVars
<1>8. ASSUME NEW w \in Worker, Assign(w) PROVE MemberInv'
  <2>1. \A v \in Worker \ {w} : Unmoved(v)
    BY <1>1, <1>8 DEF Assign, Unmoved, loopVars, TypeOK
  <2>2. /\ session'[w] = epoch + 1
        /\ epoch' = epoch + 1
        /\ fetched'[w] = committed
        /\ marked'[w] = committed
        /\ pc' = pc /\ batch' = batch
        /\ traceTopic' = traceTopic /\ attempted' = attempted
    BY <1>1, <1>8 DEF Assign, loopVars, TypeOK
  <2>3. committed <= Len(traceTopic) /\ Done(committed)
    BY DEF IndInv, GroupInv
  <2>4. BatchOK(w)'
    BY <1>1, <1>2, <2>2, CursorTypes DEF BatchOK, Done
  <2>5. CursorOK(w)'
    BY <1>1, <2>2, <2>3, CursorTypes DEF CursorOK, Done
  <2> QED
    BY <1>3, <2>1, <2>4, <2>5
<1>9. ASSUME NEW w \in Worker, Notice(w) PROVE MemberInv'
  <2>1. \A v \in Worker \ {w} : Unmoved(v)
    BY <1>1, <1>9 DEF Notice, Unmoved, loopVars, TypeOK
  <2>2. /\ session'[w] = 0 /\ fetched'[w] = 0 /\ marked'[w] = 0
        /\ pc' = pc /\ batch' = batch /\ epoch' = epoch
        /\ traceTopic' = traceTopic /\ attempted' = attempted
    BY <1>1, <1>9 DEF Notice, loopVars, groupVars, TypeOK
  <2>3. BatchOK(w)'
    BY <1>1, <1>2, <2>2, CursorTypes DEF BatchOK, Done
  <2>4. CursorOK(w)'
    BY <1>1, <2>2, CursorTypes DEF CursorOK, Done
  <2> QED
    BY <1>3, <2>1, <2>3, <2>4
<1>10. ASSUME NEW w \in Worker, EnterPoll(w) PROVE MemberInv'
  <2>1. \A v \in Worker \ {w} : Unmoved(v)
    BY <1>1, <1>10 DEF EnterPoll, Unmoved, TypeOK
  <2>2. /\ pc[w] = "loop" /\ pc'[w] = "polling"
        /\ marked'[w] = fetched[w]
        /\ session' = session /\ fetched' = fetched /\ epoch' = epoch
        /\ traceTopic' = traceTopic /\ attempted' = attempted
    BY <1>1, <1>10 DEF EnterPoll, groupVars, TypeOK
  <2>3. BatchOK(w)'
    BY <2>2 DEF BatchOK
  <2>4. CursorOK(w)'
    BY <1>1, <1>2, <2>2, CursorTypes DEF CursorOK, Done
  <2> QED
    BY <1>3, <2>1, <2>3, <2>4
<1>11. ASSUME NEW w \in Worker, ReturnPoll(w) PROVE MemberInv'
  <2>1. PICK n \in (fetched[w] + 1)..Len(traceTopic) :
          /\ fetched' = [fetched EXCEPT ![w] = n]
          /\ batch' = [batch EXCEPT ![w] = [epoch |-> session[w],
                                            next  |-> fetched[w] + 1,
                                            last  |-> n]]
    BY <1>11 DEF ReturnPoll
  <2>2. \A v \in Worker \ {w} : Unmoved(v)
    BY <1>1, <1>11, <2>1 DEF ReturnPoll, Unmoved, TypeOK
  <2>3. /\ pc[w] = "polling" /\ pc'[w] = "processing"
        /\ session[w] # 0 /\ session' = session /\ epoch' = epoch
        /\ fetched'[w] = n /\ marked' = marked
        /\ batch'[w] = [epoch |-> session[w], next |-> fetched[w] + 1,
                        last |-> n]
        /\ traceTopic' = traceTopic /\ attempted' = attempted
    BY <1>1, <1>11, <2>1 DEF ReturnPoll, groupVars, TypeOK
  <2>4. n \in Nat /\ fetched[w] < n /\ n <= Len(traceTopic)
    BY <1>1, CursorTypes
  <2>5. Done(fetched[w])
    BY <1>2, <2>3 DEF CursorOK
  <2>6. BatchOK(w)'
    <3>1. /\ batch'[w].epoch = session[w]
          /\ batch'[w].next = fetched[w] + 1
          /\ batch'[w].last = n
      BY <2>3
    <3>2. session[w] <= epoch
      BY <1>2 DEF CursorOK
    <3> QED
      BY <1>1, <2>3, <2>4, <2>5, <3>1, <3>2, CursorTypes DEF BatchOK, Done
  <2>7. CursorOK(w)'
    BY <1>1, <1>2, <2>3, <2>4, CursorTypes DEF CursorOK, Done
  <2> QED
    BY <1>3, <2>2, <2>6, <2>7
<1>12. ASSUME NEW w \in Worker, FailPoll(w) PROVE MemberInv'
  <2>1. \A v \in Worker \ {w} : Unmoved(v)
    BY <1>1, <1>12 DEF FailPoll, Unmoved, memberVars, TypeOK
  <2>2. /\ pc[w] = "polling" /\ pc'[w] = "loop"
        /\ session' = session /\ fetched' = fetched /\ marked' = marked
        /\ traceTopic' = traceTopic /\ attempted' = attempted
        /\ epoch' = epoch
    BY <1>1, <1>12 DEF FailPoll, memberVars, groupVars, TypeOK
  <2>3. BatchOK(w)' /\ CursorOK(w)'
    BY <1>2, <2>2 DEF BatchOK, CursorOK, Done
  <2> QED
    BY <1>3, <2>1, <2>3
<1>13. ASSUME NEW w \in Worker, Process(w) PROVE MemberInv'
  <2>1. Advance(w)
    BY <1>13 DEF Process, Skip, Emit, Drop
  <2>2. \A v \in Worker \ {w} : Unmoved(v)
    BY <1>1, <2>1 DEF Advance, Unmoved, memberVars, TypeOK
  <2>3. /\ pc[w] = "processing"
        /\ pc'[w] = IF batch[w].next = batch[w].last
                    THEN "loop" ELSE "processing"
        /\ batch'[w] = [batch[w] EXCEPT !.next = batch[w].next + 1]
        /\ attempted' = attempted \cup {batch[w].next}
        /\ session' = session /\ fetched' = fetched /\ marked' = marked
        /\ traceTopic' = traceTopic /\ epoch' = epoch
    BY <1>1, <2>1 DEF Advance, memberVars, groupVars, TypeOK
  <2>4. /\ batch'[w].epoch = batch[w].epoch
        /\ batch'[w].next = batch[w].next + 1
        /\ batch'[w].last = batch[w].last
    BY <1>1, <2>3, CursorTypes
  <2>5. /\ batch[w].epoch > 0 /\ batch[w].epoch <= epoch
        /\ batch[w].next > 0 /\ batch[w].next <= batch[w].last
        /\ batch[w].last <= Len(traceTopic)
        /\ Done(batch[w].next - 1)
        /\ batch[w].epoch = session[w] => batch[w].last = fetched[w]
    BY <1>2, <2>3 DEF BatchOK
  <2>6. BatchOK(w)'
    BY <1>1, <2>3, <2>4, <2>5, CursorTypes DEF BatchOK, Done
  <2>7. CursorOK(w)'
    BY <1>1, <1>2, <2>3, <2>4, <2>5, CursorTypes DEF CursorOK, Done
  <2> QED
    BY <1>3, <2>2, <2>6, <2>7
<1>14. ASSUME NEW w \in Worker, Crash(w) PROVE MemberInv'
  <2>1. \A v \in Worker \ {w} : Unmoved(v)
    BY <1>1, <1>14 DEF Crash, Unmoved, TypeOK
  <2>2. /\ pc'[w] = "down"
        /\ session'[w] = 0 /\ fetched'[w] = 0 /\ marked'[w] = 0
        /\ traceTopic' = traceTopic /\ attempted' = attempted
        /\ epoch' = epoch
    BY <1>1, <1>14 DEF Crash, groupVars, TypeOK
  <2>3. BatchOK(w)'
    BY <2>2 DEF BatchOK
  <2>4. CursorOK(w)'
    BY <1>1, <2>2, CursorTypes DEF CursorOK, Done
  <2> QED
    BY <1>3, <2>1, <2>3, <2>4
<1>15. ASSUME NEW w \in Worker, Restart(w) PROVE MemberInv'
  <2>1. \A v \in Worker \ {w} : Unmoved(v)
    BY <1>1, <1>15 DEF Restart, Unmoved, memberVars, TypeOK
  <2>2. /\ pc[w] = "down" /\ pc'[w] = "loop"
        /\ session' = session /\ fetched' = fetched /\ marked' = marked
        /\ traceTopic' = traceTopic /\ attempted' = attempted
        /\ epoch' = epoch
    BY <1>1, <1>15 DEF Restart, memberVars, groupVars, TypeOK
  <2>3. BatchOK(w)' /\ CursorOK(w)'
    BY <1>2, <2>2 DEF BatchOK, CursorOK, Done
  <2> QED
    BY <1>3, <2>1, <2>3
<1> QED
  BY <1>5, <1>6, <1>7, <1>8, <1>9, <1>10, <1>11, <1>12, <1>13, <1>14, <1>15
     DEF Next, WorkerNext

(* The coordinator's offset stays behind what is attempted, and no owner    *)
(* would commit less than it.                                               *)
LEMMA GroupStep == IndInv /\ [Next]_vars => GroupInv'
<1> SUFFICES ASSUME IndInv, [Next]_vars PROVE GroupInv'
  OBVIOUS
<1>1. TypeOK /\ Grow /\ GroupInv
  BY StepsGrow DEF IndInv
<1>2. \A n \in Nat : Done(n) => \A k \in 1..n : k \in attempted'
  BY <1>1 DEF Done, Grow
<1>3. Len(traceTopic) \in Nat /\ Len(traceTopic') \in Nat /\ committed \in Nat
  BY TypeStep DEF IndInv, TypeOK
<1>4. ASSUME committed' = committed
      PROVE  committed' <= Len(traceTopic') /\ Done(committed)'
  BY <1>1, <1>2, <1>3, <1>4 DEF GroupInv, Grow, Done
<1>5. ASSUME groupVars' = groupVars,
             \A w \in Worker : owner = w =>
               \/ session'[w] = session[w] /\ marked'[w] = marked[w]
               \/ session'[w] = session[w] /\ marked'[w] = fetched[w]
               \/ session'[w] = 0
      PROVE  GroupInv'
  <2>1. /\ owner' = owner /\ epoch' = epoch /\ committed' = committed
    BY <1>5 DEF groupVars
  <2>2. ASSUME NEW w \in Worker, owner = w, session'[w] = epoch
        PROVE  committed <= marked'[w]
    <3>1. epoch > 0 /\ epoch \in Nat
      BY <1>1, <2>2 DEF GroupInv, TypeOK
    <3>2. session[w] = epoch /\ (marked'[w] = marked[w] \/ marked'[w] = fetched[w])
      BY <1>5, <2>2, <3>1
    <3>3. committed <= marked[w] /\ marked[w] <= fetched[w]
      BY <1>1, <2>2, <3>2 DEF GroupInv, IndInv, MemberInv, CursorOK
    <3> QED
      BY <1>1, <3>2, <3>3, CursorTypes
  <2> QED
    BY <1>1, <1>4, <2>1, <2>2 DEF GroupInv
<1>6. ASSUME NEW t \in Trace, Publish(t) PROVE GroupInv'
  BY <1>5, <1>6 DEF Publish, memberVars
<1>7. ASSUME NEW w \in Worker, Assign(w) PROVE GroupInv'
  <2>1. /\ owner' = w /\ epoch' = epoch + 1 /\ committed' = committed
        /\ marked'[w] = committed
    BY <1>1, <1>7 DEF Assign, TypeOK
  <2>2. epoch \in Nat
    BY <1>1 DEF TypeOK
  <2> QED
    BY <1>3, <1>4, <2>1, <2>2 DEF GroupInv
<1>8. ASSUME NEW w \in Worker, Evict(w) \/ Expire(w) PROVE GroupInv'
  <2>1. owner' = NoWorker /\ committed' = committed
    BY <1>8 DEF Evict, Expire
  <2> QED
    BY <1>4, <2>1, NoWorkerAssumption DEF GroupInv
<1>9. ASSUME NEW w \in Worker, Notice(w) PROVE GroupInv'
  BY <1>1, <1>5, <1>9 DEF Notice, TypeOK
<1>10. ASSUME NEW w \in Worker, Commit(w) PROVE GroupInv'
  <2>1. /\ owner = w /\ owner' = owner /\ epoch' = epoch
        /\ committed' = marked[w] /\ marked' = marked
        /\ traceTopic' = traceTopic /\ attempted' = attempted
    BY <1>10 DEF Commit, memberVars
  <2>2. /\ marked[w] <= fetched[w] /\ fetched[w] <= Len(traceTopic)
        /\ Done(marked[w])
    BY DEF IndInv, MemberInv, CursorOK
  <2>3. committed' <= Len(traceTopic')
    BY <1>1, <1>3, <2>1, <2>2, CursorTypes
  <2>4. Done(committed)'
    BY <2>1, <2>2 DEF Done
  <2>5. committed' <= marked'[w]
    BY <1>1, <2>1, CursorTypes
  <2> QED
    BY <1>1, <2>1, <2>3, <2>4, <2>5 DEF GroupInv
<1>11. ASSUME NEW w \in Worker, EnterPoll(w) PROVE GroupInv'
  BY <1>1, <1>5, <1>11 DEF EnterPoll, TypeOK
<1>12. ASSUME NEW w \in Worker, ReturnPoll(w) PROVE GroupInv'
  BY <1>5, <1>12 DEF ReturnPoll
<1>13. ASSUME NEW w \in Worker, FailPoll(w) \/ Restart(w) PROVE GroupInv'
  BY <1>5, <1>13 DEF FailPoll, Restart, memberVars
<1>14. ASSUME NEW w \in Worker, Process(w) PROVE GroupInv'
  BY <1>5, <1>14 DEF Process, Skip, Emit, Drop, Advance, memberVars
<1>15. ASSUME NEW w \in Worker, Crash(w) PROVE GroupInv'
  BY <1>1, <1>5, <1>15 DEF Crash, TypeOK
<1>16. CASE UNCHANGED vars
  BY <1>5, <1>16 DEF vars, memberVars
<1> QED
  BY <1>6, <1>7, <1>8, <1>9, <1>10, <1>11, <1>12, <1>13, <1>14, <1>15, <1>16
     DEF Next, WorkerNext

(* The attempted records stay a prefix of the topic.                        *)
LEMMA PrefixStep == IndInv /\ [Next]_vars => PrefixInv'
<1> SUFFICES ASSUME IndInv, [Next]_vars PROVE PrefixInv'
  OBVIOUS
<1>1. TypeOK /\ Grow /\ PrefixInv
  BY StepsGrow DEF IndInv
<1>2. Len(traceTopic) \in Nat /\ Len(traceTopic') \in Nat
  BY TypeStep DEF IndInv, TypeOK
<1>3. ASSUME attempted' = attempted PROVE PrefixInv'
  BY <1>1, <1>2, <1>3 DEF PrefixInv, Grow, Done, TypeOK
<1>4. ASSUME NEW w \in Worker, Process(w) PROVE PrefixInv'
  <2>1. /\ pc[w] = "processing"
        /\ attempted' = attempted \cup {batch[w].next}
        /\ traceTopic' = traceTopic
    BY <1>4 DEF Process, Skip, Emit, Drop, Advance
  <2>2. /\ batch[w].next > 0 /\ batch[w].next <= batch[w].last
        /\ batch[w].last <= Len(traceTopic)
        /\ Done(batch[w].next - 1)
    BY <2>1 DEF IndInv, MemberInv, BatchOK
  <2>3. batch[w].next <= Len(traceTopic)
    BY <1>1, <1>2, <2>2, CursorTypes
  <2>4. \A k \in 1..batch[w].next : k \in attempted'
    BY <1>1, <2>1, <2>2, CursorTypes DEF Done
  <2>5. ASSUME NEW o \in attempted'
        PROVE  o > 0 /\ o <= Len(traceTopic') /\ \A k \in 1..o : k \in attempted'
    <3>1. CASE o = batch[w].next
      BY <2>1, <2>2, <2>3, <2>4, <3>1
    <3>2. CASE o \in attempted
      BY <1>1, <2>1, <3>2 DEF PrefixInv, Done
    <3> QED
      BY <2>1, <3>1, <3>2
  <2> QED
    BY <2>5 DEF PrefixInv, Done
<1>5. CASE UNCHANGED vars
  BY <1>3, <1>5 DEF vars
<1>6. ASSUME ~ \E w \in Worker : Process(w), Next PROVE attempted' = attempted
  BY <1>6
     DEF Next, WorkerNext, Publish, Assign, Evict, Expire, Notice, Commit,
         EnterPoll, ReturnPoll, FailPoll, Crash, Restart
<1> QED
  BY <1>3, <1>4, <1>5, <1>6

-----------------------------------------------------------------------------
(* The invariant is one.                                                    *)
THEOREM Invariance == Spec => []IndInv
<1>1. IndInv /\ [Next]_vars => IndInv'
  BY TypeStep, MemberStep, GroupStep, PrefixStep DEF IndInv
<1> QED
  BY IndInit, <1>1, PTL DEF Spec, SafeSpec

(* The variables of the worker keep their types.                            *)
THEOREM TypeCorrect == Spec => []TypeOK
<1>1. IndInv => TypeOK
  BY DEF IndInv
<1> QED
  BY <1>1, Invariance, PTL

(* A committed record has been through the loop of some worker.             *)
THEOREM CommitsAreSafe == Spec => []CommittedWereAttempted
<1>1. IndInv => CommittedWereAttempted
  BY DEF IndInv, GroupInv, Done, CommittedWereAttempted
<1> QED
  BY <1>1, Invariance, PTL

(* No worker opens a gap in the records attempted.                          *)
THEOREM AttemptsInOrder == Spec => []AttemptedInOrder
<1>1. IndInv => AttemptedInOrder
  BY DEF IndInv, PrefixInv, Done, AttemptedInOrder
<1> QED
  BY <1>1, Invariance, PTL

(* The committed offset never goes back.                                    *)
THEOREM CommitsForward == Spec => CommitsMoveForward
<1>1. IndInv /\ [Next]_vars => [committed' >= committed]_vars
  <2> SUFFICES ASSUME IndInv, Next PROVE committed' >= committed
    BY DEF vars
  <2>1. committed \in Nat
    BY DEF IndInv, TypeOK
  <2>2. ASSUME NEW w \in Worker, Commit(w) PROVE committed' >= committed
    <3>1. committed <= marked[w] /\ committed' = marked[w]
      BY <2>2 DEF Commit, IndInv, GroupInv
    <3> QED
      BY <2>1, <3>1, CursorTypes DEF IndInv
  <2>3. ASSUME ~ \E w \in Worker : Commit(w) PROVE committed' = committed
    BY <2>3
       DEF Next, WorkerNext, Publish, Assign, Evict, Expire, Notice,
           EnterPoll, ReturnPoll, FailPoll, Process, Skip, Emit, Drop,
           Advance, Crash, Restart, groupVars
  <2> QED
    BY <2>1, <2>2, <2>3
<1> QED
  BY <1>1, Invariance, PTL DEF Spec, SafeSpec, CommitsMoveForward

-----------------------------------------------------------------------------
(* A worker acts under assignment e: it believes it holds it, or the batch  *)
(* its loop is in was polled under it.                                      *)
ActsUnder(w, e) ==
  session[w] = e \/ (pc[w] = "processing" /\ batch[w].epoch = e)

(* An assignment has one holder, even after the holder was evicted.         *)
HolderInv ==
  \A e \in Nat \ {0} : \A w, v \in Worker :
    ActsUnder(w, e) /\ ActsUnder(v, e) => w = v

(* The cursors of w are past the evidence r, if it is of their assignment.  *)
Past(w, r) ==
  /\ session[w] = r.epoch => r.of <= fetched[w]
  /\ pc[w] = "processing" /\ batch[w].epoch = r.epoch => r.of < batch[w].next

EvidenceInv ==
  \A i \in DOMAIN evidenceTopic :
    /\ evidenceTopic[i].epoch > 0
    /\ evidenceTopic[i].epoch <= epoch
    /\ \A w \in Worker : Past(w, evidenceTopic[i])

(* Every assignment but the first was paid for by a crash or an eviction.   *)
FaultInv ==
  /\ owner = NoWorker => epoch <= faults
  /\ \A w \in Worker : owner = w =>
       IF session[w] = epoch THEN epoch <= faults + 1 ELSE epoch <= faults

EvInd == HolderInv /\ EvidenceInv /\ AtMostOncePerAssignment

-----------------------------------------------------------------------------
(* A new assignment has a number nobody acts under; every other step only   *)
(* makes workers act under fewer of them.                                   *)
LEMMA HolderStep == IndInv /\ HolderInv /\ [Next]_vars => HolderInv'
<1> SUFFICES ASSUME IndInv, HolderInv, [Next]_vars PROVE HolderInv'
  OBVIOUS
<1>1. TypeOK
  BY DEF IndInv
<1>2. ASSUME \A e \in Nat \ {0}, v \in Worker : ActsUnder(v, e)' => ActsUnder(v, e)
      PROVE  HolderInv'
  BY <1>2 DEF HolderInv
<1>3. ASSUME NEW w \in Worker, Assign(w) PROVE HolderInv'
  <2>1. /\ session' = [session EXCEPT ![w] = epoch + 1]
        /\ pc' = pc /\ batch' = batch
    BY <1>3 DEF Assign, loopVars
  <2>2. ASSUME NEW v \in Worker, NEW e \in Nat \ {0}, ActsUnder(v, e)
        PROVE  e <= epoch
    BY <1>1, <2>2, CursorTypes
       DEF ActsUnder, IndInv, MemberInv, BatchOK, CursorOK
  <2>3. ASSUME NEW v \in Worker, NEW e \in Nat \ {0}, ActsUnder(v, e)'
        PROVE  ActsUnder(v, e) \/ (v = w /\ e = epoch + 1)
    BY <1>1, <2>1, <2>3 DEF ActsUnder, TypeOK
  <2>4. epoch \in Nat
    BY <1>1 DEF TypeOK
  <2>5. ASSUME NEW e \in Nat \ {0}, NEW v \in Worker, NEW u \in Worker,
               ActsUnder(v, e)', ActsUnder(u, e)'
        PROVE  v = u
    <3>1. CASE e = epoch + 1
      BY <2>2, <2>3, <2>4, <2>5, <3>1
    <3>2. CASE e # epoch + 1
      BY <2>3, <2>5, <3>2 DEF HolderInv
    <3> QED
      BY <3>1, <3>2
  <2> QED
    BY <2>5 DEF HolderInv
<1>4. ASSUME NEW w \in Worker, Process(w) PROVE HolderInv'
  <2>1. /\ pc[w] = "processing"
        /\ batch' = [batch EXCEPT ![w].next = batch[w].next + 1]
        /\ pc' = [pc EXCEPT ![w] = IF batch[w].next = batch[w].last
                                   THEN "loop" ELSE "processing"]
        /\ session' = session
    BY <1>4 DEF Process, Skip, Emit, Drop, Advance, memberVars
  <2>2. \A v \in Worker : batch'[v].epoch = batch[v].epoch
    BY <1>1, <2>1 DEF TypeOK
  <2> QED
    BY <1>1, <1>2, <2>1, <2>2 DEF ActsUnder, TypeOK
<1>5. ASSUME NEW w \in Worker, ReturnPoll(w) PROVE HolderInv'
  <2>1. \A v \in Worker : /\ session'[v] = session[v]
                          /\ v # w => /\ batch'[v] = batch[v]
                                      /\ pc'[v] = pc[v]
    BY <1>1, <1>5 DEF ReturnPoll, TypeOK
  <2>2. batch'[w].epoch = session[w]
    BY <1>1, <1>5 DEF ReturnPoll, TypeOK
  <2> QED
    BY <1>2, <2>1, <2>2 DEF ActsUnder
<1>6. ASSUME NEW w \in Worker, Notice(w) PROVE HolderInv'
  BY <1>1, <1>2, <1>6 DEF Notice, ActsUnder, loopVars, TypeOK
<1>7. ASSUME NEW w \in Worker, Crash(w) PROVE HolderInv'
  BY <1>1, <1>2, <1>7 DEF Crash, ActsUnder, TypeOK
<1>8. ASSUME NEW w \in Worker, EnterPoll(w) \/ FailPoll(w) \/ Restart(w)
      PROVE  HolderInv'
  BY <1>1, <1>2, <1>8
     DEF EnterPoll, FailPoll, Restart, ActsUnder, memberVars, TypeOK
<1>9. ASSUME UNCHANGED <<session, pc, batch>> PROVE HolderInv'
  BY <1>2, <1>9 DEF ActsUnder
<1>10. ASSUME NEW w \in Worker, Evict(w) \/ Expire(w) \/ Commit(w)
       PROVE  HolderInv'
  BY <1>9, <1>10 DEF Evict, Expire, Commit, memberVars, loopVars
<1>11. ASSUME NEW t \in Trace, Publish(t) PROVE HolderInv'
  BY <1>9, <1>11 DEF Publish, memberVars, loopVars
<1>12. CASE UNCHANGED vars
  BY <1>9, <1>12 DEF vars, memberVars, loopVars
<1> QED
  BY <1>3, <1>4, <1>5, <1>6, <1>7, <1>8, <1>10, <1>11, <1>12
     DEF Next, WorkerNext

-----------------------------------------------------------------------------
(* What is in the evidence topic.                                           *)
LEMMA EvidenceTypes ==
  ASSUME TypeOK, NEW i \in DOMAIN evidenceTopic
  PROVE  evidenceTopic[i].epoch \in Nat /\ evidenceTopic[i].of \in Nat
<1>1. evidenceTopic[i] \in EvidenceEvent
  BY DEF TypeOK
<1> QED
  BY <1>1 DEF EvidenceEvent

(* A step other than processing leaves the evidence behind every cursor.    *)
LEMMA PastStep ==
  ASSUME IndInv, Next, ~ \E w \in Worker : Process(w),
         NEW r, r.epoch \in Nat, r.of \in Nat,
         r.epoch > 0, r.epoch <= epoch,
         NEW v \in Worker, Past(v, r)
  PROVE  Past(v, r)'
<1>1. TypeOK
  BY DEF IndInv
<1>2. ASSUME Unmoved(v) PROVE Past(v, r)'
  BY <1>2 DEF Unmoved, Past
<1>3. ASSUME NEW w \in Worker, Assign(w) PROVE Past(v, r)'
  <2>1. CASE v # w
    BY <1>1, <1>2, <1>3, <2>1 DEF Assign, Unmoved, loopVars, TypeOK
  <2>2. CASE v = w
    <3>1. session'[w] = epoch + 1 /\ pc' = pc /\ batch' = batch
      BY <1>1, <1>3 DEF Assign, loopVars, TypeOK
    <3>2. epoch \in Nat
      BY <1>1 DEF TypeOK
    <3>3. session'[w] # r.epoch
      BY <3>1, <3>2
    <3> QED
      BY <2>2, <3>1, <3>3 DEF Past
  <2> QED
    BY <2>1, <2>2
<1>4. ASSUME NEW w \in Worker, ReturnPoll(w) PROVE Past(v, r)'
  <2>1. CASE v # w
    BY <1>1, <1>2, <1>4, <2>1 DEF ReturnPoll, Unmoved, TypeOK
  <2>2. CASE v = w
    <3>1. PICK n \in (fetched[w] + 1)..Len(traceTopic) :
            /\ fetched' = [fetched EXCEPT ![w] = n]
            /\ batch' = [batch EXCEPT ![w] = [epoch |-> session[w],
                                              next  |-> fetched[w] + 1,
                                              last  |-> n]]
      BY <1>4 DEF ReturnPoll
    <3>2. /\ session'[w] = session[w]
          /\ fetched'[w] = n
          /\ batch'[w].epoch = session[w]
          /\ batch'[w].next = fetched[w] + 1
      BY <1>1, <1>4, <3>1 DEF ReturnPoll, TypeOK
    <3>3. n \in Int /\ fetched[w] \in Nat /\ n > fetched[w]
      BY <1>1, CursorTypes
    <3> QED
      BY <2>2, <3>2, <3>3 DEF Past
  <2> QED
    BY <2>1, <2>2
<1>5. ASSUME NEW w \in Worker, Notice(w) PROVE Past(v, r)'
  BY <1>1, <1>5 DEF Notice, Past, loopVars, TypeOK
<1>6. ASSUME NEW w \in Worker, Crash(w) PROVE Past(v, r)'
  <2>1. CASE v # w
    BY <1>1, <1>2, <1>6, <2>1 DEF Crash, Unmoved, TypeOK
  <2>2. session'[w] = 0 /\ pc'[w] = "down"
    BY <1>1, <1>6 DEF Crash, TypeOK
  <2> QED
    BY <2>1, <2>2 DEF Past
<1>7. ASSUME NEW w \in Worker, EnterPoll(w) \/ FailPoll(w) \/ Restart(w)
      PROVE  Past(v, r)'
  BY <1>1, <1>7 DEF EnterPoll, FailPoll, Restart, Past, memberVars, TypeOK
<1>8. ASSUME NEW w \in Worker, Evict(w) \/ Expire(w) \/ Commit(w)
      PROVE  Past(v, r)'
  BY <1>2, <1>8 DEF Evict, Expire, Commit, Unmoved, memberVars, loopVars
<1>9. ASSUME NEW t \in Trace, Publish(t) PROVE Past(v, r)'
  BY <1>2, <1>9 DEF Publish, Unmoved, memberVars, loopVars
<1> QED
  BY <1>3, <1>4, <1>5, <1>6, <1>7, <1>8, <1>9 DEF Next, WorkerNext

(* Only processing writes evidence.                                         *)
LEMMA OnlyProcessEmits ==
  ASSUME Next, ~ \E w \in Worker : Process(w)
  PROVE  evidenceTopic' = evidenceTopic
BY DEF Next, WorkerNext, Publish, Assign, Evict, Expire, Notice, Commit,
       EnterPoll, ReturnPoll, FailPoll, Crash, Restart

(* The evidence of a batch is numbered below its cursor, so what the loop   *)
(* writes next is not in the topic yet under the same assignment.           *)
LEMMA EvidenceStep ==
  IndInv /\ EvInd /\ [Next]_vars => EvidenceInv' /\ AtMostOncePerAssignment'
<1> SUFFICES ASSUME IndInv, EvInd, [Next]_vars
             PROVE  EvidenceInv' /\ AtMostOncePerAssignment'
  OBVIOUS
<1>1. TypeOK /\ Grow
  BY StepsGrow DEF IndInv
<1>2. epoch \in Nat /\ epoch' \in Nat
  BY TypeStep DEF IndInv, TypeOK
<1>3. CASE UNCHANGED vars
  BY <1>3 DEF EvInd, EvidenceInv, AtMostOncePerAssignment, Past, vars,
              groupVars, memberVars, loopVars
<1>4. CASE Next /\ ~ \E w \in Worker : Process(w)
  <2>1. evidenceTopic' = evidenceTopic
    BY <1>4, OnlyProcessEmits
  <2>2. ASSUME NEW i \in DOMAIN evidenceTopic
        PROVE  /\ evidenceTopic[i].epoch > 0
               /\ evidenceTopic[i].epoch <= epoch'
               /\ \A v \in Worker : Past(v, evidenceTopic[i])'
    <3>1. /\ evidenceTopic[i].epoch \in Nat
          /\ evidenceTopic[i].of \in Nat
      BY <1>1, EvidenceTypes
    <3>2. /\ evidenceTopic[i].epoch > 0
          /\ evidenceTopic[i].epoch <= epoch
          /\ \A v \in Worker : Past(v, evidenceTopic[i])
      BY DEF EvInd, EvidenceInv
    <3>3. evidenceTopic[i].epoch <= epoch'
      BY <1>1, <1>2, <3>1, <3>2 DEF Grow
    <3>4. ASSUME NEW v \in Worker PROVE Past(v, evidenceTopic[i])'
      <4>1. PICK r : r = evidenceTopic[i]
        OBVIOUS
      <4>2. Past(v, r)'
        BY <1>4, <3>1, <3>2, <4>1, PastStep
      <4> QED
        BY <2>1, <4>1, <4>2 DEF Past
    <3> QED
      BY <3>2, <3>3, <3>4
  <2>3. EvidenceInv'
    BY <2>1, <2>2 DEF EvidenceInv, Past
  <2>4. AtMostOncePerAssignment'
    BY <2>1 DEF EvInd, AtMostOncePerAssignment
  <2> QED
    BY <2>3, <2>4
<1>5. ASSUME NEW w \in Worker, Process(w)
      PROVE  EvidenceInv' /\ AtMostOncePerAssignment'
  <2> DEFINE o == batch[w].next
             e == batch[w].epoch
             new == EvidenceOf(o, e)
  <2>1. /\ pc[w] = "processing"
        /\ batch' = [batch EXCEPT ![w].next = o + 1]
        /\ pc' = [pc EXCEPT ![w] = IF o = batch[w].last
                                   THEN "loop" ELSE "processing"]
        /\ session' = session /\ fetched' = fetched /\ epoch' = epoch
    BY <1>5 DEF Process, Skip, Emit, Drop, Advance, memberVars, groupVars
  <2>2. /\ o \in Nat /\ e \in Nat /\ batch[w].last \in Nat /\ fetched[w] \in Nat
    BY <1>1, CursorTypes
  <2>3. /\ e > 0 /\ e <= epoch /\ o <= batch[w].last
        /\ e = session[w] => batch[w].last = fetched[w]
    BY <2>1 DEF IndInv, MemberInv, BatchOK
  <2>4. \A v \in Worker : /\ batch'[v].epoch = batch[v].epoch
                          /\ batch'[v].next = IF v = w THEN o + 1
                                              ELSE batch[v].next
    BY <1>1, <2>1 DEF TypeOK
  <2>5. \A v \in Worker : pc'[v] = "processing" => pc[v] = "processing"
    BY <1>1, <2>1 DEF TypeOK
  <2>6. ASSUME NEW i \in DOMAIN evidenceTopic, NEW v \in Worker
        PROVE  /\ session'[v] = evidenceTopic[i].epoch
                    => evidenceTopic[i].of <= fetched'[v]
               /\ pc'[v] = "processing" /\ batch'[v].epoch = evidenceTopic[i].epoch
                    => evidenceTopic[i].of < batch'[v].next
    <3>1. evidenceTopic[i].of \in Nat
      BY <1>1, EvidenceTypes
    <3>2. Past(v, evidenceTopic[i])
      BY DEF EvInd, EvidenceInv
    <3> QED
      BY <2>1, <2>2, <2>4, <2>5, <3>1, <3>2 DEF Past
  <2>7. new.of = o /\ new.epoch = e
    BY DEF EvidenceOf
  <2>8. ASSUME NEW v \in Worker
        PROVE  /\ session'[v] = e => o <= fetched'[v]
               /\ pc'[v] = "processing" /\ batch'[v].epoch = e
                    => o < batch'[v].next
    <3>1. ActsUnder(w, e)
      BY <2>1 DEF ActsUnder
    <3>2. session'[v] = e \/ (pc'[v] = "processing" /\ batch'[v].epoch = e)
            => v = w
      BY <2>1, <2>2, <2>3, <2>4, <2>5, <3>1 DEF ActsUnder, EvInd, HolderInv
    <3> QED
      BY <2>1, <2>2, <2>3, <2>4, <3>2
  <2>9. CASE evidenceTopic' = evidenceTopic
    <3>1. EvidenceInv'
      BY <2>1, <2>6, <2>9 DEF EvInd, EvidenceInv, Past
    <3>2. AtMostOncePerAssignment'
      BY <2>9 DEF EvInd, AtMostOncePerAssignment
    <3> QED
      BY <3>1, <3>2
  <2>10. CASE evidenceTopic' = Append(evidenceTopic, new)
    <3>0. PICK n : n = Len(evidenceTopic)
      OBVIOUS
    <3>1. /\ n \in Nat
          /\ DOMAIN evidenceTopic = 1..n
          /\ DOMAIN evidenceTopic' = 1..(n + 1)
          /\ evidenceTopic'[n + 1] = new
          /\ \A i \in 1..n : evidenceTopic'[i] = evidenceTopic[i]
      <4>1. evidenceTopic \in Seq(EvidenceEvent)
        BY <1>1 DEF TypeOK
      <4> QED
        BY <2>10, <3>0, <4>1
    <3>2. EvidenceInv'
      <4>1. \A i \in 1..n : /\ evidenceTopic'[i].epoch > 0
                            /\ evidenceTopic'[i].epoch <= epoch'
        BY <2>1, <3>1 DEF EvInd, EvidenceInv
      <4>2. \A i \in 1..n : \A v \in Worker : Past(v, evidenceTopic[i])'
        BY <2>6, <3>1 DEF Past
      <4>3. \A v \in Worker : Past(v, evidenceTopic[n + 1])'
        BY <2>7, <2>8, <3>1 DEF Past
      <4>4. /\ evidenceTopic'[n + 1].epoch > 0
            /\ evidenceTopic'[n + 1].epoch <= epoch'
        BY <2>1, <2>3, <2>7, <3>1
      <4> QED
        BY <3>1, <4>1, <4>2, <4>3, <4>4 DEF EvidenceInv
    <3>3. ASSUME NEW i \in 1..n, evidenceTopic[i].epoch = e
          PROVE  evidenceTopic[i].of # o
      <4>1. evidenceTopic[i].of < o
        BY <2>1, <3>1, <3>3 DEF EvInd, EvidenceInv, Past
      <4> QED
        BY <1>1, <2>2, <3>1, <4>1, EvidenceTypes
    <3>4. AtMostOncePerAssignment'
      BY <2>7, <3>1, <3>3 DEF EvInd, AtMostOncePerAssignment
    <3> QED
      BY <3>2, <3>4
  <2> QED
    BY <1>5, <2>9, <2>10 DEF Process, Skip, Emit, Drop
<1> QED
  BY <1>3, <1>4, <1>5

(* Nothing is recorded and nobody acts.                                     *)
LEMMA EvInit == Init => EvInd
BY DEF Init, EvInd, HolderInv, EvidenceInv, AtMostOncePerAssignment,
       ActsUnder

(* Evidence stays behind the cursors of its assignment in every state.      *)
LEMMA EvInvariance == Spec => []EvInd
<1>1. IndInv /\ EvInd /\ [Next]_vars => EvInd'
  BY HolderStep, EvidenceStep DEF EvInd
<1> QED
  BY EvInit, <1>1, Invariance, PTL DEF Spec, SafeSpec

(* Under one assignment no trace leaves evidence twice.                     *)
THEOREM AtMostOnce == Spec => []AtMostOncePerAssignment
<1>1. EvInd => AtMostOncePerAssignment
  BY DEF EvInd
<1> QED
  BY <1>1, EvInvariance, PTL

-----------------------------------------------------------------------------
(* An assignment is only made when there is no owner, and the partition     *)
(* loses its owner only to a fault.                                         *)
LEMMA FaultStep == IndInv /\ FaultInv /\ [Next]_vars => FaultInv'
<1> SUFFICES ASSUME IndInv, FaultInv, [Next]_vars PROVE FaultInv'
  OBVIOUS
<1>1. TypeOK /\ epoch \in Nat /\ faults \in Nat
  BY DEF IndInv, TypeOK
<1>2. ASSUME owner' = owner, epoch' = epoch, faults' = faults,
             \A w \in Worker : owner = w => session'[w] = session[w]
      PROVE  FaultInv'
  BY <1>2 DEF FaultInv
<1>3. ASSUME NEW w \in Worker, Assign(w) PROVE FaultInv'
  <2>1. /\ owner = NoWorker /\ owner' = w
        /\ epoch' = epoch + 1 /\ session'[w] = epoch + 1
        /\ faults' = faults
    BY <1>1, <1>3 DEF Assign, TypeOK
  <2> QED
    BY <1>1, <2>1, NoWorkerAssumption DEF FaultInv
<1>4. ASSUME NEW w \in Worker, Evict(w) PROVE FaultInv'
  <2>1. /\ owner = w /\ session[w] = epoch /\ owner' = NoWorker
        /\ epoch' = epoch /\ faults' = faults + 1
    BY <1>4 DEF Evict
  <2> QED
    BY <1>1, <2>1, NoWorkerAssumption DEF FaultInv
<1>5. ASSUME NEW w \in Worker, Expire(w) PROVE FaultInv'
  <2>1. /\ owner = w /\ session[w] # epoch /\ owner' = NoWorker
        /\ epoch' = epoch /\ faults' = faults
    BY <1>5 DEF Expire
  <2> QED
    BY <1>1, <2>1, NoWorkerAssumption DEF FaultInv
<1>6. ASSUME NEW w \in Worker, Crash(w) PROVE FaultInv'
  <2>1. /\ owner' = owner /\ epoch' = epoch /\ faults' = faults + 1
        /\ session'[w] = 0
        /\ \A v \in Worker \ {w} : session'[v] = session[v]
    BY <1>1, <1>6 DEF Crash, groupVars, TypeOK
  <2>2. CASE owner = w
    <3>1. epoch > 0 /\ epoch <= faults + 1
      BY <1>1, <2>2 DEF FaultInv, IndInv, GroupInv
    <3> QED
      BY <1>1, <2>1, <2>2, <3>1, NoWorkerAssumption DEF FaultInv
  <2>3. CASE owner # w
    BY <1>1, <2>1, <2>3 DEF FaultInv
  <2> QED
    BY <2>2, <2>3
<1>7. ASSUME NEW w \in Worker, Notice(w) PROVE FaultInv'
  BY <1>1, <1>2, <1>7 DEF Notice, groupVars, TypeOK
<1>8. ASSUME NEW w \in Worker, Commit(w) \/ EnterPoll(w) PROVE FaultInv'
  BY <1>2, <1>8 DEF Commit, EnterPoll, groupVars, memberVars
<1>9. ASSUME NEW w \in Worker, ReturnPoll(w) \/ FailPoll(w) \/ Restart(w)
      PROVE  FaultInv'
  BY <1>2, <1>9 DEF ReturnPoll, FailPoll, Restart, groupVars, memberVars
<1>10. ASSUME NEW w \in Worker, Process(w) PROVE FaultInv'
  BY <1>2, <1>10
     DEF Process, Skip, Emit, Drop, Advance, groupVars, memberVars
<1>11. ASSUME NEW t \in Trace, Publish(t) PROVE FaultInv'
  BY <1>2, <1>11 DEF Publish, groupVars, memberVars
<1>12. CASE UNCHANGED vars
  BY <1>2, <1>12 DEF vars, groupVars, memberVars
<1> QED
  BY <1>3, <1>4, <1>5, <1>6, <1>7, <1>8, <1>9, <1>10, <1>11, <1>12
     DEF Next, WorkerNext

(* A trace leaves at most one more evidence event than there were faults:   *)
(* its evidence is told apart by the assignment it was made under.          *)
THEOREM DuplicatesBounded == Spec => []DuplicatesNeedFaults
<1>1. Init => FaultInv
  BY NoWorkerAssumption DEF Init, FaultInv
<1>2. IndInv /\ EvInd /\ FaultInv => DuplicatesNeedFaults
  <2> SUFFICES ASSUME IndInv, EvInd, FaultInv, NEW o \in DOMAIN traceTopic
               PROVE  Cardinality({i \in DOMAIN evidenceTopic :
                                     evidenceTopic[i].of = o}) <= faults + 1
    BY DEF DuplicatesNeedFaults
  <2> DEFINE S == {i \in DOMAIN evidenceTopic : evidenceTopic[i].of = o}
             f == [i \in S |-> evidenceTopic[i].epoch]
  <2>1. TypeOK /\ epoch \in Nat /\ faults \in Nat /\ owner \in Worker \cup {NoWorker}
    BY DEF IndInv, TypeOK
  <2>2. epoch <= faults + 1
    BY <2>1 DEF FaultInv
  <2>3. f \in [S -> 1..epoch]
    BY <2>1, EvidenceTypes DEF EvInd, EvidenceInv
  <2>4. \A i, j \in S : f[i] = f[j] => i = j
    BY DEF EvInd, AtMostOncePerAssignment
  <2>5. f \in Injection(S, 1..epoch)
    BY <2>3, <2>4, Fun_IsInj
  <2>6. IsFiniteSet(1..epoch) /\ Cardinality(1..epoch) = epoch
    BY <2>1, FS_Interval
  <2>7. IsFiniteSet(S) /\ Cardinality(S) <= epoch
    BY <2>5, <2>6, FS_Injection
  <2>8. Cardinality(S) \in Nat
    BY <2>7, FS_CardinalityType
  <2> QED
    BY <2>1, <2>2, <2>7, <2>8
<1> QED
  BY <1>1, <1>2, FaultStep, Invariance, EvInvariance, PTL DEF Spec, SafeSpec

-----------------------------------------------------------------------------
(* The workers implement the ledger: writing a trace decides, processing a  *)
(* record attempts it, and every other step is invisible.                   *)
LedgerSafeSpec == L!SafeSpec

(* The empty topics are the empty ledger.                                   *)
LEMMA LedgerInit == Init => L!Init
BY DEF Init, L!Init, Effects

(* A step of a worker is a step of the ledger or invisible to it.           *)
LEMMA LedgerStep == IndInv /\ [Next]_vars => [L!Next]_(L!vars)
<1> SUFFICES ASSUME IndInv, [Next]_vars PROVE [L!Next]_(L!vars)
  OBVIOUS
<1>1. TypeOK
  BY DEF IndInv
<1>2. ASSUME UNCHANGED <<traceTopic, attempted, evidenceTopic>>
      PROVE  UNCHANGED L!vars
  BY <1>2 DEF L!vars, Effects
<1>3. ASSUME NEW t \in Trace, Publish(t) PROVE L!Next
  BY <1>3 DEF Publish, L!Next, L!Decide, Effects
<1>4. ASSUME NEW w \in Worker, Process(w) PROVE L!Next
  <2> DEFINE o == batch[w].next
             new == EvidenceOf(o, batch[w].epoch)
  <2>1. /\ pc[w] = "processing"
        /\ attempted' = attempted \cup {o}
        /\ traceTopic' = traceTopic
    BY <1>4 DEF Process, Skip, Emit, Drop, Advance
  <2>2. /\ o > 0 /\ o <= batch[w].last /\ batch[w].last <= Len(traceTopic)
        /\ Done(o - 1)
    BY <2>1 DEF IndInv, MemberInv, BatchOK
  <2>3. o \in DOMAIN traceTopic
    <3>1. traceTopic \in Seq(Trace)
      BY <1>1 DEF TypeOK
    <3>2. o \in Nat /\ batch[w].last \in Nat /\ Len(traceTopic) \in Nat
      BY <1>1, CursorTypes
    <3> QED
      BY <2>2, <3>1, <3>2
  <2>4. 1..(o - 1) \subseteq attempted
    BY <2>2 DEF Done
  <2>5. CASE evidenceTopic' = evidenceTopic
    <3>1. Effects' = Effects
      BY <2>5 DEF Effects
    <3> QED
      BY <2>1, <2>3, <2>4, <3>1 DEF L!Next, L!Attempt
  <2>6. CASE /\ Executable(traceTopic[o])
             /\ evidenceTopic' = Append(evidenceTopic, new)
    <3>1. evidenceTopic \in Seq(EvidenceEvent)
      BY <1>1 DEF TypeOK
    <3>2. /\ DOMAIN evidenceTopic' = DOMAIN evidenceTopic \cup {Len(evidenceTopic) + 1}
          /\ \A i \in DOMAIN evidenceTopic : evidenceTopic'[i] = evidenceTopic[i]
          /\ evidenceTopic'[Len(evidenceTopic) + 1] = new
      BY <2>6, <3>1
    <3>3. new.of = o /\ new.body = TraceToEvidence(traceTopic[o])
      BY DEF EvidenceOf
    <3>4. Effects' = Effects \cup {[of |-> new.of, body |-> new.body]}
      BY <3>2 DEF Effects
    <3>5. L!Effect(o) = [of |-> new.of, body |-> new.body]
      BY <3>3 DEF L!Effect, L!TraceToEvidence, TraceToEvidence
    <3>6. L!Executable(traceTopic[o])
      BY <2>6 DEF L!Executable, L!ValidateTrace, Executable, ValidateTrace
    <3> QED
      BY <2>1, <2>3, <2>4, <3>4, <3>5, <3>6 DEF L!Next, L!Attempt
  <2> QED
    BY <1>4, <2>5, <2>6 DEF Process, Skip, Emit, Drop
<1>5. ASSUME ~ \E w \in Worker : Process(w), WorkerNext
      PROVE  UNCHANGED <<traceTopic, attempted, evidenceTopic>>
  BY <1>5
     DEF WorkerNext, Assign, Evict, Expire, Notice, Commit, EnterPoll,
         ReturnPoll, FailPoll, Crash, Restart
<1>6. CASE UNCHANGED vars
  BY <1>2, <1>6 DEF vars
<1> QED
  BY <1>2, <1>3, <1>4, <1>5, <1>6 DEF Next

(* The safety part of the refinement; its fairness is left to TLC.          *)
THEOREM ImplementsLedger == Spec => LedgerSafeSpec
BY LedgerInit, LedgerStep, Invariance, PTL
   DEF Spec, SafeSpec, LedgerSafeSpec, L!SafeSpec
=============================================================================
