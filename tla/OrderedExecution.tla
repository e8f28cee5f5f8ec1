-------------------------- MODULE OrderedExecution --------------------------
(***************************************************************************)
(* What the executor promises of a plan, with threads, contexts and caches *)
(* hidden: each selected step gets at most one result, after the results   *)
(* of all setup steps before it and of all steps of its group before it;   *)
(* the run completes when every selected step has one, or ends with an     *)
(* exception; after the end nothing happens.                               *)
(***************************************************************************)
EXTENDS ExecutionPlan

CONSTANT CheckedPlans

VARIABLES
    plan,
    outcome,   \* result of each step, "none" before it has one
    over       \* "no", "completed" or "raised"

vars == <<plan, outcome, over>>

Init ==
    /\ plan \in CheckedPlans
    /\ outcome = [k \in Steps |-> "none"]
    /\ over = "no"

Yield(k) ==
    /\ over = "no"
    /\ k \in plan.selected
    /\ outcome[k] = "none"
    /\ \A j \in Before(plan, k) : outcome[j] # "none"
    /\ \E r \in {"passed", "failed", "skipped"} : outcome' = [outcome EXCEPT ![k] = r]
    /\ UNCHANGED <<plan, over>>

Complete ==
    /\ over = "no"
    /\ \A k \in plan.selected : outcome[k] # "none"
    /\ over' = "completed"
    /\ UNCHANGED <<plan, outcome>>

Raise ==
    /\ over = "no"
    /\ \E k \in plan.selected : outcome[k] = "none"
    /\ over' = "raised"
    /\ UNCHANGED <<plan, outcome>>

Next == (\E k \in Steps : Yield(k)) \/ Complete \/ Raise

Spec == Init /\ [][Next]_vars

\* The run gets ahead until it is over.
FairSpec == Spec /\ WF_vars(Next)

=============================================================================
