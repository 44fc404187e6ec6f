------------------------------ MODULE MCWorker ------------------------------
(* Instance of Worker for TLC: a trace the worker executes and one that     *)
(* validateTrace refuses; the loop tells nothing else apart.                *)
EXTENDS Worker

Good(d) ==
  [parses |-> TRUE, complete |-> TRUE, decision |-> d, corr |-> "c1",
   action |-> "deploy"]

MCTrace == {Good("allow"), [Good("deny") EXCEPT !.complete = FALSE]}
=============================================================================
