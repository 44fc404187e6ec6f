--------------------------- MODULE MCDecisionOps ----------------------------
(* Instance of DecisionOps for TLC: two concurrent calls, one worker that   *)
(* crashes or is evicted once (its own zombie batch included), a gateway    *)
(* that crashes once.                                                       *)
EXTENDS DecisionOps

CONSTANTS c1, c2

MCAction == {"build", "deploy"}
MCEnvironment == {"dev"}
MCAttrValue == {"true"}

MCAsked ==
  {q \in Request : \A name \in AttributeName : q.attributes[name] = Absent}

(* Every gateway here has a broker and asks OPA, whose outcomes include     *)
(* those of the other configurations; Gateway is checked with all of them.  *)
(* One call asks for what the policy allows; the other, which may be        *)
(* malformed, for what it denies.                                           *)
MCInit ==
  /\ LoopInit
  /\ config = [opaURL |-> TRUE, fallback |-> FALSE, streaming |-> TRUE]
  /\ body[c1] = [post |-> TRUE, valid |-> TRUE, corr |-> NoCorr,
                 request |-> CHOOSE q \in MCAsked : q.action = "build"]
  /\ body[c2].post /\ body[c2].request.action = "deploy"

MCSpec == MCInit /\ [][LoopNext]_allVars /\ Fairness /\ W!Fairness
=============================================================================
