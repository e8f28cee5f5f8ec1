------------------------------- MODULE Reports -------------------------------
(***************************************************************************)
(* From the steps of a run to the verdicts on its report.  A job is        *)
(*   manifest   a version 1 manifest with a test plan (test_plan.py)       *)
(*   compiled   a compiled plan run through the manifest executor          *)
(*   dcr        a compiled DCR plan, whose cases belong to trace groups    *)
(* What a step does is left open (Executor, DcrAdapter): it gets a status. *)
(* The report is then read by the gate and by the validator, with the      *)
(* manifest of the run and a policy of the reader's own.                   *)
(***************************************************************************)
EXTENDS ReportRules

CONSTANTS Jobs   \* the jobs that are looked at

VARIABLES job,        \* what is run
          selected,   \* the test plan's selected entries
          pc,         \* planning, running, attaching, reading, read
          results,    \* StepResults so far
          report,     \* the report
          reading     \* policy of the reader and the exit codes of both tools

vars == <<job, selected, pc, results, report, reading>>

Forms == {"whole", "unreadable", "not_json", "not_structured"}

NoReport == [form |-> "unreadable"]

NotRead == [policy |-> NoPolicy, gate |-> 9, certification |-> 9]

\* The steps of a manifest, or of the cases of a DCR plan that are selected.
StepsOfJob ==
    IF job.kind = "dcr" THEN UNION {job.cases[c].steps : c \in {d \in DOMAIN job.cases : job.cases[d].selected}} ELSE Steps

\* default_plan_from_manifest
DefaultSelection(j) == {k \in Steps : k \in j.mandatory \/ k \notin j.optional}

Init ==
    /\ job \in Jobs
    /\ selected = IF job.kind = "dcr" THEN StepsOfJob ELSE DefaultSelection(job)
    /\ pc = IF job.kind = "manifest" THEN "planning" ELSE "running"
    /\ results = <<>>
    /\ report = NoReport
    /\ reading = NotRead

\* with_deselection
WithDeselection ==
    /\ pc = "planning"
    /\ \E ids \in SUBSET Steps : selected' = selected \ ids
    /\ pc' = "running"
    /\ UNCHANGED <<job, results, report, reading>>

Pending == {k \in selected : \A i \in DOMAIN results : results[i].id # k}

\* A step of a DCR run is only skipped when an earlier one failed; one of a
\* manifest also when a token is missing.
CanSkip == job.kind # "dcr" \/ \E i \in DOMAIN results : results[i].status = "failed"

RunStep ==
    /\ pc = "running"
    /\ \E k \in Pending, status \in Statuses :
        /\ \A j \in Pending : k <= j
        /\ status = "skipped" => CanSkip
        /\ results' = Append(results, [id |-> k, status |-> status, mandatory |-> k \in job.mandatory])
    /\ UNCHANGED <<job, selected, pc, report, reading>>

\* deselected_mandatory_step_ids; a DCR run has no test plan.
DeselectedMandatory == IF job.kind = "dcr" THEN {} ELSE job.mandatory \ selected

\* TestPlan.summary
PlanSummary ==
    [totalSteps |-> Cardinality(Steps), selectedSteps |-> Cardinality(selected),
     deselectedSteps |-> Cardinality(Steps \ selected),
     mandatorySelected |-> Cardinality(job.mandatory \intersect selected),
     mandatoryDeselected |-> Cardinality(job.mandatory \ selected)]

\* build_smoke_check_result and to_json_object.
Build ==
    /\ pc = "running" /\ Pending = {}
    /\ report' = [form |-> "whole", version |-> job.version, status |-> run_status(results), steps |-> results,
                  summary |-> summary(results), plan |-> PlanSummary, catalogue |-> job.kind, mode |-> "none",
                  traceGroups |-> trace_groups(job.cases, results),
                  eligibility |-> build_eligibility(results, DeselectedMandatory, job.policy, job.version,
                                                    job.coverage, job.overridden)]
    /\ pc' = "attaching"
    /\ UNCHANGED <<job, selected, results, reading>>

\* What the validation of a plan in development mode warns of.
Warnings == <<"non_certification">> \o (IF job.overridden THEN <<"overridden">> ELSE <<>>)

\* _attach_plan_evidence
AttachPlanEvidence ==
    /\ pc = "attaching"
    /\ report' = IF job.development
                 THEN [report EXCEPT !.mode = "development", !.eligibility = mark_development(@, Warnings)]
                 ELSE report
    /\ pc' = "reading"
    /\ UNCHANGED <<job, selected, results, reading>>

\* The report is handed on, whole or not, and read by both tools.
Read ==
    /\ pc = "reading"
    /\ \E form \in Forms, policy \in Policies \ {NoPolicy}, written \in BOOLEAN :
        LET submitted == [report EXCEPT !.form = form]
        IN /\ report' = submitted
           /\ reading' = [policy |-> policy, gate |-> gate_run(submitted),
                          certification |-> certification_run(submitted, job.mandatory, policy, job.coverage, written)]
    /\ pc' = "read"
    /\ UNCHANGED <<job, selected, results>>

Next == WithDeselection \/ RunStep \/ Build \/ AttachPlanEvidence \/ Read

Spec == Init /\ [][Next]_vars

-----------------------------------------------------------------------------
(* Properties                                                              *)

Whole == pc = "read" /\ report.form = "whole"

\* Two independent pieces of code decide on certification: a manifest's
\* report that calls itself eligible is exactly one that the validator accepts
\* with the same manifest and policy.
EligibleReportsValidate ==
    Whole /\ job.kind = "manifest" /\ job.policy = reading.policy /\ reading.certification # 3 =>
        (report.eligibility.eligible <=> reading.certification = 0)

\* The gate reads steps, groups, cases and nested steps, and comes to what the
\* aggregate status says, unless nothing was run.
GateAgreesWithTheRun ==
    Whole => (reading.gate = 0 <=> report.status = "passed" /\ report.steps # <<>>)

=============================================================================
