----------------------------- MODULE ReportRules -----------------------------
(***************************************************************************)
(* What a result report says and who accepts it: the aggregate status and  *)
(* the certification eligibility (results.py), the catalogue's trace       *)
(* groups, the gate for automation (result_gate.py) and the validator of   *)
(* submitted reports (certification_validator.py, approved_releases.py).   *)
(*                                                                         *)
(* A step of a result is [id, status, mandatory].  A reason is named by    *)
(* the blocker it reports.                                                 *)
(***************************************************************************)
EXTENDS Naturals, FiniteSets, Sequences

CONSTANTS Steps,     \* step ids, numbers in the order of execution
          Versions   \* versions of the tool

Statuses == {"passed", "failed", "warn", "skipped"}

\* approved_release_policy: None, or the versions it approves.
NoPolicy == [supplied |-> FALSE, approved |-> {}]

Policies == {NoPolicy} \union [supplied : {TRUE}, approved : SUBSET Versions]

is_tool_version_approved(policy, version) == version \in policy.approved

-----------------------------------------------------------------------------
(* results.py                                                              *)

\* Mutant of run_status: only mandatory steps fail the run.
run_status_mandatory(steps) ==
    IF \A i \in DOMAIN steps : ~steps[i].mandatory \/ steps[i].status \in {"passed", "warn"} THEN "passed" ELSE "failed"

\* build_smoke_check_result
run_status(steps) ==
    IF \A i \in DOMAIN steps : steps[i].status \in {"passed", "warn"} THEN "passed" ELSE "failed"

\* "summary" of the report.
summary(steps) ==
    [status \in Statuses |-> Cardinality({i \in DOMAIN steps : steps[i].status = status})]

Blocked(condition, reason) == IF condition THEN <<reason>> ELSE <<>>

MandatoryOf(steps, status) ==
    Cardinality({i \in DOMAIN steps : steps[i].mandatory /\ steps[i].status = status})

\* _build_eligibility: the blockers in their order; the first one is "reason".
build_eligibility(steps, deselected, policy, version, coverage, overridden) ==
    LET count == [status \in Statuses |-> MandatoryOf(steps, status)]
        total == Cardinality({i \in DOMAIN steps : steps[i].mandatory}) + Cardinality(deselected)
        reasons == Blocked(deselected # {}, "deselected") \o Blocked(count["failed"] > 0, "failed")
                   \o Blocked(count["skipped"] > 0, "skipped") \o Blocked(total = 0, "none_mandatory")
                   \o Blocked(coverage # "complete", "coverage") \o Blocked(overridden, "overridden")
                   \o Blocked(policy.supplied /\ ~is_tool_version_approved(policy, version), "version")
                   \o Blocked(~policy.supplied, "no_policy")
    IN [eligible |-> reasons = <<>>, count |-> count, deselected |-> Cardinality(deselected),
        total |-> total, reason |-> IF reasons = <<>> THEN "none" ELSE reasons[1], reasons |-> reasons]

\* mark_development_result_evidence, for a run in development mode: first its
\* own reason, then what the plan's validation warned of and is not there yet.
mark_development(block, warnings) ==
    [block EXCEPT !.eligible = FALSE, !.reason = "development",
                  !.reasons = <<"development">> \o @ \o
                      SelectSeq(warnings, LAMBDA w : \A i \in DOMAIN block.reasons : block.reasons[i] # w)]

\* _aggregate_trace_status
aggregate_trace_status(statuses) ==
    CASE "failed" \in statuses -> "failed"
      [] "failed" \notin statuses /\ "warn" \in statuses -> "warn"
      [] statuses \intersect {"failed", "warn"} = {} /\ "passed" \in statuses -> "passed"
      [] OTHER -> "skipped"

-----------------------------------------------------------------------------
(* _compiled_trace_groups_to_json_object.  A case is                       *)
(* [steps, group, selected]: its steps, its trace group, and whether it is *)
(* one of the plan's test_cases or of its skipped_test_cases.              *)

StatusIn(steps, k) ==
    LET found == {i \in DOMAIN steps : steps[i].id = k}
    IN IF found = {} THEN "skipped" ELSE steps[CHOOSE i \in found : \A j \in found : j <= i].status

NotSelected(skipped) == IF skipped THEN "endpoint-not-selected" ELSE "none"

trace_case(case, steps) ==
    LET rendered == [k \in case.steps |-> IF case.selected THEN StatusIn(steps, k) ELSE "skipped"]
    IN [steps |-> rendered, skipReason |-> NotSelected(~case.selected),
        status |-> aggregate_trace_status({rendered[k] : k \in case.steps})]

trace_group(cases, group, steps) ==
    LET members == {c \in DOMAIN cases : cases[c].group = group}
        rendered == [c \in members |-> trace_case(cases[c], steps)]
        status == aggregate_trace_status({rendered[c].status : c \in members})
    IN [cases |-> rendered, status |-> status, skipReason |-> NotSelected(status = "skipped")]

trace_groups(cases, steps) ==
    [group \in {cases[c].group : c \in DOMAIN cases} |-> trace_group(cases, group, steps)]

-----------------------------------------------------------------------------
(* result_gate.py.  A report is [form, status, steps, summary, catalogue,  *)
(* traceGroups, ...]; its form says whether it can be read and parsed and  *)
(* has the structure that its reader looks for.                            *)

\* _reject_failed_trace_cases
reject_failed_trace_cases(group) ==
    \E c \in DOMAIN group.cases :
        \/ group.cases[c].status = "failed"
        \/ \E k \in DOMAIN group.cases[c].steps : group.cases[c].steps[k] = "failed"

\* validate_structured_conformance_result: the result is accepted.
gate_accepts(report) ==
    LET groups == report.traceGroups
    IN /\ report.form = "whole"
       /\ report.status = "passed"
       /\ report.summary["failed"] = 0
       /\ report.steps # <<>>
       /\ \A i \in DOMAIN report.steps : report.steps[i].status # "failed"
       /\ \A g \in DOMAIN groups : groups[g].status # "failed" /\ ~reject_failed_trace_cases(groups[g])
       /\ report.catalogue = "dcr" => \E g \in DOMAIN groups : groups[g].cases # <<>>

\* run: the exit code of the gate.
gate_run(report) ==
    CASE report.form \in {"unreadable", "not_json"} -> 2
      [] report.form \notin {"unreadable", "not_json"} /\ gate_accepts(report) -> 0
      [] OTHER -> 1

-----------------------------------------------------------------------------
(* certification_validator.py                                              *)

\* parse_submitted_report: structure, known statuses and no step twice.
parses(report) ==
    /\ report.form = "whole"
    /\ \A i, j \in DOMAIN report.steps : report.steps[i].id = report.steps[j].id => i = j

\* Mutant of validate_mandatory_step: a step that is not there is no blocker.
validate_mandatory_step_present(report, k) ==
    LET found == {i \in DOMAIN report.steps : report.steps[i].id = k}
    IN IF found = {} THEN "none" ELSE
       LET status == report.steps[CHOOSE i \in found : TRUE].status
       IN IF status \in {"failed", "skipped"} THEN status ELSE "none"

\* _validate_mandatory_step: the reason of one step, or "none".
validate_mandatory_step(report, k) ==
    LET found == {i \in DOMAIN report.steps : report.steps[i].id = k}
    IN IF found = {} THEN "missing" ELSE
       LET status == report.steps[CHOOSE i \in found : TRUE].status
       IN IF status \in {"failed", "skipped"} THEN status ELSE "none"

\* validate_report and _validation_reasons, as a set.
validation_reasons(report, mandatory, policy, coverage) ==
    ({validate_mandatory_step(report, k) : k \in mandatory} \ {"none"})
    \union (IF is_tool_version_approved(policy, report.version) THEN {} ELSE {"version"})
    \union (IF coverage = "complete" THEN {} ELSE {"coverage"})

\* certification_cli.run: the exit code, when the summary could be written or not.
certification_run(report, mandatory, policy, coverage, written) ==
    CASE ~parses(report) \/ mandatory = {} -> 2
      [] parses(report) /\ mandatory # {} /\ ~written -> 3
      [] OTHER -> IF validation_reasons(report, mandatory, policy, coverage) = {} THEN 0 ELSE 1

=============================================================================
