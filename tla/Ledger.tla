------------------------------- MODULE Ledger -------------------------------
(***************************************************************************)
(* What the decision stream promises, without offsets, groups or crashes.  *)
(*                                                                         *)
(* Decisions are appended to a ledger.  Each of them is attempted, for the *)
(* first time only after every decision before it, and possibly again      *)
(* later.  An attempt may leave evidence, which is always the evidence of  *)
(* the decision attempted.  No decision stays unattempted for ever.        *)
(***************************************************************************)
EXTENDS Naturals, Sequences, Evidence

CONSTANTS
  Trace,      \* decision traces, and records that are not quite one
  MaxTraces   \* bound: length of the ledger

VARIABLES
  traces,     \* the decisions, in the order they were made
  attempted,  \* positions of the decisions attempted at least once
  effects     \* evidence: which position it is of, and what it says

vars == <<traces, attempted, effects>>

Effect(o) == [of |-> o, body |-> TraceToEvidence(traces[o])]

Init ==
  /\ traces = << >>
  /\ attempted = {}
  /\ effects = {}

Decide(t) ==
  /\ Len(traces) < MaxTraces
  /\ traces' = Append(traces, t)
  /\ UNCHANGED <<attempted, effects>>

Attempt(o) ==
  /\ 1..(o - 1) \subseteq attempted
  /\ attempted' = attempted \cup {o}
  /\ \/ effects' = effects
     \/ /\ Executable(traces[o])
        /\ effects' = effects \cup {Effect(o)}
  /\ UNCHANGED traces

FirstAttempt == \E o \in DOMAIN traces : o \notin attempted /\ Attempt(o)

Next ==
  \/ \E t \in Trace : Decide(t)
  \/ \E o \in DOMAIN traces : Attempt(o)

SafeSpec == Init /\ [][Next]_vars

Spec == SafeSpec /\ WF_vars(FirstAttempt)
=============================================================================
