-------------------------- MODULE DcrAdapterProofs --------------------------
(***************************************************************************)
(* What the DCR adapter promises, for every contract that keeps            *)
(* ContractAssumption, every server and every number of scenarios, cases   *)
(* and steps.                                                              *)
(***************************************************************************)
EXTENDS DcrAdapter, TLAPS

-----------------------------------------------------------------------------
(* Types.                                                                  *)

Statuses == {"passed", "failed", "skipped"}

Rows == [case : CaseIds(plan), step : Nat, status : Statuses]

\* The position of the run is one of the plan's.
Types ==
    /\ pc \in {"start", "case", "step", "cleanup", "done", "raised"}
    /\ selected \in Selections
    /\ \E window \in Windows : plan = PlanOf(selected, window)
    /\ at \in [scenario : Nat, case : Nat, step : Nat]
    /\ at.scenario \in DOMAIN plan
    /\ at.case \in DOMAIN Scenario.cases
    /\ at.step \in DOMAIN Case.steps
    /\ pc \in {"start", "case"} => at.step = 1
    /\ pc = "start" => at.scenario = 1 /\ at.case = 1 /\ results = <<>>
    /\ pc \in {"cleanup", "done"} => at.case = Len(Scenario.cases)
    /\ pc = "done" => at.scenario = Len(plan)
    /\ statuses \in [CaseIds(plan) -> {None, "passed", "failed"}]
    /\ results \in Seq(Rows)

\* What the steps do to the report and to the position.
GoOn ==
    IF at.scenario < Len(plan)
    THEN pc' = "case" /\ at' = [scenario |-> at.scenario + 1, case |-> 1, step |-> 1]
    ELSE pc' = "done" /\ UNCHANGED at

ReportStep ==
    \/ pc = "start" /\ pc' \in {"case", "raised"} /\ UNCHANGED <<at, statuses, results>>
    \/ /\ pc = "case" /\ Unmet(Case) /\ LeaveCase
       /\ results' = results \o SkippedFrom(1)
       /\ statuses' = [statuses EXCEPT ![Case.id] = "failed"]
    \/ pc = "case" /\ ~Unmet(Case) /\ pc' = "step" /\ UNCHANGED <<at, statuses, results>>
    \/ pc = "step" /\ \E status \in {"passed", "failed"} : Advance(status)
    \/ pc = "step" /\ pc' = "raised" /\ UNCHANGED <<at, statuses, results>>
    \/ pc = "cleanup" /\ GoOn /\ UNCHANGED <<statuses, results>>
    \/ UNCHANGED <<pc, at, statuses, results>>

\* Whatever a step of the run does, it is one of the kinds above.
LEMMA ReportSteps ==
    ASSUME [Next]_vars
    PROVE  ReportStep /\ plan' = plan /\ selected' = selected
<1> USE DEF ReportStep, setup
<1>1. CASE Start \/ StartFails \/ SkipCase \/ EnterCase
  BY <1>1, Zenon DEF Start, StartFails, SkipCase, EnterCase
<1>2. CASE ValidateDiscovery \/ GenerateRegistration
  BY <1>2, Zenon DEF Finish, ValidateDiscovery, GenerateRegistration, AtStep, Verdict
<1>3. CASE GenerateRaises
  BY <1>3, Zenon DEF GenerateRaises, AtStep
<1>4. CASE PostRegistration \/ DeleteClient
  BY <1>4, Zenon DEF Finish, PostRegistration, DeleteClient, AtStep, Verdict
<1>5. CASE GetClient \/ PutClient
  BY <1>5, Zenon DEF Finish, GetClient, PutClient, AtStep, Verdict
<1>6. CASE ParseRegistration \/ RequestToken \/ SetEmptyBearer
  BY <1>6, Zenon DEF Finish, ParseRegistration, RequestToken, SetEmptyBearer, AtStep, Verdict
<1>7. CASE AssertStatus \/ ValidateResponse \/ ParseRetrieved \/ ValidateError
  BY <1>7, Zenon DEF Finish, AssertStatus, ValidateResponse, ParseRetrieved, ValidateError, AtStep, Verdict
<1>8. CASE Cleanup \/ NoCleanup
  BY <1>8, Zenon DEF Cleanup, NoCleanup, NextScenario, GoOn
<1>9. CASE \E fault \in FileFaults : StatementChanges(fault)
  BY <1>9, Zenon DEF StatementChanges
<1>10. CASE UNCHANGED vars
  BY <1>10, Zenon DEF vars
<1> QED
  BY <1>1, <1>2, <1>3, <1>4, <1>5, <1>6, <1>7, <1>8, <1>9, <1>10, Zenon DEF Next, Work, Ended

\* Where the cases of a plan are.
LEMMA IdFacts ==
    ASSUME NEW p
    PROVE  /\ \A i \in DOMAIN p : \A j \in DOMAIN p[i].cases : p[i].cases[j].id \in CaseIds(p)
           /\ \A id \in CaseIds(p) : \E i \in DOMAIN p : \E j \in DOMAIN p[i].cases : p[i].cases[j].id = id
<1>1. \A i \in DOMAIN p : \A j \in DOMAIN p[i].cases : <<i, j>> \in CasePositions(p)
  BY DEF CasePositions
<1>2. \A c \in CasePositions(p) : c[1] \in DOMAIN p /\ c[2] \in DOMAIN p[c[1]].cases
  BY DEF CasePositions
<1>3. ASSUME NEW i \in DOMAIN p, NEW j \in DOMAIN p[i].cases
      PROVE  p[i].cases[j].id \in CaseIds(p)
  <2>1. <<i, j>>[1] = i /\ <<i, j>>[2] = j
    BY Zenon
  <2> QED
    BY <1>1, <2>1, ZenonT(30) DEF CaseIds
<1>4. ASSUME NEW id \in CaseIds(p)
      PROVE  \E i \in DOMAIN p : \E j \in DOMAIN p[i].cases : p[i].cases[j].id = id
  <2>1. PICK c \in CasePositions(p) : id = p[c[1]].cases[c[2]].id
    BY <1>4, Zenon DEF CaseIds
  <2> QED
    BY <1>2, <2>1, ZenonT(30)
<1> QED
  BY <1>3, <1>4, Zenon

LEMMA PlanFacts ==
    ASSUME Types
    PROVE  /\ SoundPlan(plan)
           /\ IsList(plan)
           /\ \A i \in DOMAIN plan : IsList(plan[i].cases)
           /\ \A i \in DOMAIN plan : \A j \in DOMAIN plan[i].cases :
                 /\ IsList(plan[i].cases[j].steps)
                 /\ plan[i].cases[j].id \in CaseIds(plan) \ {None, Empty, "other"}
           /\ \A i, m \in DOMAIN plan : \A j \in DOMAIN plan[i].cases, n \in DOMAIN plan[m].cases :
                 plan[i].cases[j].id = plan[m].cases[n].id => i = m /\ j = n
<1>1. SoundPlan(plan)
  BY ContractAssumption, ZenonT(60) DEF Types
<1> QED
  BY <1>1, IdFacts, Zenon DEF SoundPlan, SoundScenario, SoundCase

\* The case that is run.
LEMMA Here ==
    ASSUME Types
    PROVE  /\ at.scenario \in 1..Len(plan) /\ Len(plan) \in Nat
           /\ at.case \in 1..Len(Scenario.cases) /\ Len(Scenario.cases) \in Nat
           /\ at.step \in 1..Len(Case.steps) /\ Len(Case.steps) \in Nat
           /\ Case.id \in CaseIds(plan) \ {None, Empty, "other"}
  BY PlanFacts, Zenon DEF Types, Scenario, Case, IsList

LEMMA SkippedRows ==
    ASSUME Types, NEW first \in Nat, first \in 1..(Len(Case.steps) + 1)
    PROVE  /\ SkippedFrom(first) \in Seq(Rows)
           /\ Len(SkippedFrom(first)) = Len(Case.steps) - first + 1
           /\ \A i \in 1..Len(SkippedFrom(first)) : SkippedFrom(first)[i] = Row(first + i - 1, "skipped")
<1>1. \A i \in 1..(Len(Case.steps) - first + 1) : Row(first + i - 1, "skipped") \in Rows
  BY Here DEF Row, Rows, Statuses
<1>2. Len(Case.steps) - first + 1 \in Nat
  BY Here
<1> QED
  BY <1>1, <1>2 DEF SkippedFrom

LEMMA RangeFacts ==
    ASSUME NEW S, NEW s \in Seq(S)
    PROVE  /\ \A x \in S : \A y : y \in Range(Append(s, x)) <=> y \in Range(s) \/ y = x
           /\ \A t \in Seq(S) : \A y : y \in Range(s \o t) <=> y \in Range(s) \/ y \in Range(t)
<1>1. ASSUME NEW x \in S, NEW y PROVE y \in Range(Append(s, x)) <=> y \in Range(s) \/ y = x
  <2>1. /\ DOMAIN Append(s, x) = 1..(Len(s) + 1) /\ DOMAIN s = 1..Len(s) /\ Len(s) \in Nat
        /\ Append(s, x)[Len(s) + 1] = x
        /\ \A i \in 1..Len(s) : Append(s, x)[i] = s[i]
    OBVIOUS
  <2> QED
    BY <2>1 DEF Range
<1>2. ASSUME NEW t \in Seq(S), NEW y PROVE y \in Range(s \o t) <=> y \in Range(s) \/ y \in Range(t)
  <2>1. /\ DOMAIN (s \o t) = 1..(Len(s) + Len(t)) /\ DOMAIN s = 1..Len(s) /\ DOMAIN t = 1..Len(t)
        /\ Len(s) \in Nat /\ Len(t) \in Nat
        /\ \A i \in 1..(Len(s) + Len(t)) : (s \o t)[i] = IF i <= Len(s) THEN s[i] ELSE t[i - Len(s)]
    OBVIOUS
  <2>2. ASSUME NEW i \in 1..(Len(s) + Len(t)) PROVE (s \o t)[i] \in Range(s) \/ (s \o t)[i] \in Range(t)
    BY <2>1, SMTT(60) DEF Range
  <2>3. ASSUME NEW i \in 1..Len(s) PROVE s[i] \in Range(s \o t)
    BY <2>1 DEF Range
  <2>4. ASSUME NEW i \in 1..Len(t) PROVE t[i] \in Range(s \o t)
    <3>1. Len(s) + i \in 1..(Len(s) + Len(t)) /\ (s \o t)[Len(s) + i] = t[i]
      BY <2>1
    <3> QED
      BY <2>1, <3>1, Zenon DEF Range
  <2> QED
    BY <2>1, <2>2, <2>3, <2>4, Zenon DEF Range
<1> QED
  BY <1>1, <1>2, Zenon

LEMMA RangeSkipped ==
    ASSUME Types, NEW first \in Nat, first \in 1..(Len(Case.steps) + 1)
    PROVE  \A y : y \in Range(SkippedFrom(first)) <=> \E k \in first..Len(Case.steps) : y = Row(k, "skipped")
<1> DEFINE s == SkippedFrom(first)
<1>1. /\ DOMAIN s = 1..Len(s) /\ Len(s) = Len(Case.steps) - first + 1 /\ Len(Case.steps) \in Nat
      /\ \A i \in 1..Len(s) : s[i] = Row(first + i - 1, "skipped")
  BY SkippedRows, Here
<1> HIDE DEF s
<1>2. ASSUME NEW i \in DOMAIN s PROVE \E k \in first..Len(Case.steps) : s[i] = Row(k, "skipped")
  <2>1. first + i - 1 \in first..Len(Case.steps)
    BY <1>1
  <2> QED
    BY <1>1, <2>1, Zenon
<1>3. ASSUME NEW k \in first..Len(Case.steps) PROVE \E i \in DOMAIN s : s[i] = Row(k, "skipped")
  <2>1. k - first + 1 \in DOMAIN s /\ first + (k - first + 1) - 1 = k
    BY <1>1
  <2> QED
    BY <1>1, <2>1, Zenon
<1>4. \A y : y \in Range(s) <=> \E k \in first..Len(Case.steps) : y = Row(k, "skipped")
  BY <1>2, <1>3, ZenonT(30) DEF Range
<1> QED
  BY <1>4, Zenon DEF s

\* What a case that ends makes of the report.
Report(status) == Append(results, Row(at.step, status)) \o SkippedFrom(at.step + 1)

LEMMA CaseReport ==
    ASSUME Types, NEW status \in Statuses
    PROVE  /\ Report(status) \in Seq(Rows)
           /\ \A y : y \in Range(Report(status)) <=>
                 \/ y \in Range(results) \/ y = Row(at.step, status)
                 \/ \E k \in (at.step + 1)..Len(Case.steps) : y = Row(k, "skipped")
<1> DEFINE a == Append(results, Row(at.step, status))
           b == SkippedFrom(at.step + 1)
<1>1. Row(at.step, status) \in Rows
  BY Here DEF Row, Rows
<1>2. a \in Seq(Rows)
  BY <1>1 DEF Types
<1>3. at.step + 1 \in Nat /\ at.step + 1 \in 1..(Len(Case.steps) + 1)
  BY Here, SMTT(60)
<1>4. b \in Seq(Rows)
  BY <1>3, SkippedRows, Zenon
<1>5. \A y : y \in Range(b) <=> \E k \in (at.step + 1)..Len(Case.steps) : y = Row(k, "skipped")
  BY <1>3, RangeSkipped, Zenon
<1>6. \A y : y \in Range(a) <=> y \in Range(results) \/ y = Row(at.step, status)
  BY <1>1, RangeFacts DEF Types
<1> HIDE DEF a, b
<1>7. \A y : y \in Range(a \o b) <=> y \in Range(a) \/ y \in Range(b)
  BY <1>2, <1>4, RangeFacts, Zenon
<1>8. a \o b \in Seq(Rows)
  BY <1>2, <1>4
<1>9. Report(status) = a \o b
  BY Zenon DEF Report, a, b
<1> QED
  BY <1>5, <1>6, <1>7, <1>8, <1>9

LEMMA SameRows ==
    ASSUME NEW S, NEW s \in Seq(S), NEW t \in Seq(S), Len(s) = Len(t), \A i \in 1..Len(s) : s[i] = t[i]
    PROVE  s = t
  OBVIOUS

\* A case that is skipped is one whose first step is.
LEMMA SkippedReport ==
    ASSUME Types, at.step = 1
    PROVE  results \o SkippedFrom(1) = Report("skipped")
<1> DEFINE a == SkippedFrom(1)
           b == SkippedFrom(2)
           r == Row(1, "skipped")
<1>1. Len(Case.steps) \in Nat \ {0}
  BY Here
<1>2. /\ a \in Seq(Rows) /\ Len(a) = Len(Case.steps)
      /\ \A i \in 1..Len(a) : a[i] = Row(i, "skipped")
  BY <1>1, SkippedRows
<1>3. /\ b \in Seq(Rows) /\ Len(b) = Len(Case.steps) - 1
      /\ \A i \in 1..Len(b) : b[i] = Row(i + 1, "skipped")
  BY <1>1, SkippedRows
<1>4. r \in Rows /\ results \in Seq(Rows)
  BY Here, Zenon DEF Row, Rows, Statuses, Types
<1>5. a[1] = r /\ \A i \in 1..Len(b) : a[i + 1] = b[i]
  BY <1>1, <1>2, <1>3, SMTT(60)
<1> HIDE DEF a, b, r
<1>6. Len(results \o a) = Len(Append(results, r) \o b)
  BY <1>1, <1>2, <1>3, <1>4, SMTT(60)
<1>7. ASSUME NEW i \in 1..Len(results \o a)
      PROVE  (results \o a)[i] = (Append(results, r) \o b)[i]
  <2>1. CASE i <= Len(results)
    BY <1>2, <1>3, <1>4, <2>1
  <2>2. CASE i = Len(results) + 1
    BY <1>1, <1>2, <1>3, <1>4, <1>5, <2>2
  <2>3. CASE i > Len(results) + 1
    <3>1. i - Len(results) - 1 \in 1..Len(b) /\ (i - Len(results) - 1) + 1 = i - Len(results)
      BY <1>1, <1>2, <1>3, <1>4, <1>7, <2>3
    <3>2. (results \o a)[i] = a[i - Len(results)]
      BY <1>2, <1>4, <1>7, <2>3
    <3>3. (Append(results, r) \o b)[i] = b[i - Len(results) - 1]
      BY <1>3, <1>4, <1>6, <1>7, <2>3
    <3> QED
      BY <1>5, <3>1, <3>2, <3>3, Zenon
  <2>4. i \in Nat /\ Len(results) \in Nat
    BY <1>2, <1>4
  <2>5. i <= Len(results) \/ i = Len(results) + 1 \/ i > Len(results) + 1
    BY <2>4
  <2> QED
    BY <2>1, <2>2, <2>3, <2>5, Zenon
<1>8. results \o a = Append(results, r) \o b
  <2>1. results \o a \in Seq(Rows) /\ Append(results, r) \o b \in Seq(Rows)
    BY <1>2, <1>3, <1>4
  <2> QED
    BY <1>6, <1>7, <2>1, SameRows, Zenon
<1> QED
  BY <1>8, SMTT(60) DEF a, b, r, Report

-----------------------------------------------------------------------------
(* The kinds of steps, for the report.                                     *)

Over == pc \in {"cleanup", "done"}

\* The run goes on or raises, or something else happens.
Stays ==
    /\ UNCHANGED <<at, statuses, results>>
    /\ \/ pc' = pc
       \/ pc = "start" /\ pc' = "case"
       \/ pc = "case" /\ ~Unmet(Case) /\ pc' = "step"
       \/ pc \in {"start", "step"} /\ pc' = "raised"

StepPasses ==
    /\ pc = "step" /\ pc' = "step"
    /\ at.step < Len(Case.steps) /\ at' = [at EXCEPT !.step = @ + 1]
    /\ results' = Append(results, Row(at.step, "passed"))
    /\ statuses' = statuses

CaseEnds(status) ==
    /\ \/ pc = "case" /\ Unmet(Case) /\ status = "skipped"
       \/ pc = "step" /\ status = "passed" /\ at.step = Len(Case.steps)
       \/ pc = "step" /\ status = "failed"
    /\ results' = Report(status)
    /\ statuses' = [statuses EXCEPT ![Case.id] = IF status = "passed" THEN "passed" ELSE "failed"]
    /\ LeaveCase

ScenarioEnds == pc = "cleanup" /\ GoOn /\ UNCHANGED <<statuses, results>>

LEMMA Advances ==
    ASSUME Types, pc = "step", NEW status \in {"passed", "failed"}, Advance(status)
    PROVE  (StepPasses /\ status = "passed") \/ CaseEnds(status)
<1>1. CASE status = "passed" /\ at.step < Len(Case.steps)
  BY <1>1, Zenon DEF Advance, StepPasses
<1>2. CASE ~(status = "passed" /\ at.step < Len(Case.steps))
  <2>1. status = "failed" \/ (status = "passed" /\ at.step = Len(Case.steps))
    BY <1>2, Here
  <2> QED
    BY <1>2, <2>1, Zenon DEF Advance, CaseEnds, Report
<1> QED
  BY <1>1, <1>2, Zenon

LEMMA Kinds ==
    ASSUME Types, [Next]_vars
    PROVE  /\ plan' = plan /\ selected' = selected
           /\ Stays \/ StepPasses \/ (\E status \in Statuses : CaseEnds(status)) \/ ScenarioEnds
<1>1. ReportStep /\ plan' = plan /\ selected' = selected
  BY ReportSteps, Zenon
<1>2. CASE /\ pc = "case" /\ Unmet(Case) /\ LeaveCase
           /\ results' = results \o SkippedFrom(1)
           /\ statuses' = [statuses EXCEPT ![Case.id] = "failed"]
  <2>1. results' = Report("skipped")
    BY <1>2, SkippedReport, Zenon DEF Types
  <2>2. CaseEnds("skipped")
    BY <1>2, <2>1, Zenon DEF CaseEnds
  <2> QED
    BY <1>1, <2>2, Zenon DEF Statuses
<1>3. pc = "step" => \A status \in {"passed", "failed"} : Advance(status) => StepPasses \/ CaseEnds(status)
  BY Advances, Zenon
<1> QED
  BY <1>1, <1>2, <1>3, Zenon DEF ReportStep, Stays, ScenarioEnds, Statuses

\* A case that ends is followed by another of its scenario, or by the cleanup.
LEMMA Leaving ==
    ASSUME Types, LeaveCase, plan' = plan
    PROVE  \/ /\ pc' = "case" /\ at.case < Len(Scenario.cases)
              /\ at' = [scenario |-> at.scenario, case |-> at.case + 1, step |-> 1]
           \/ pc' = "cleanup" /\ at' = at /\ at.case = Len(Scenario.cases)
<1>1. CASE at.case < Len(Scenario.cases)
  <2>1. at' = [at EXCEPT !.case = @ + 1, !.step = 1]
    BY <1>1, Zenon DEF LeaveCase
  <2>2. at' = [scenario |-> at.scenario, case |-> at.case + 1, step |-> 1]
    BY <2>1, Zenon DEF Types
  <2> QED
    BY <1>1, <2>2, Zenon DEF LeaveCase
<1>2. CASE ~(at.case < Len(Scenario.cases))
  <2>1. at.case = Len(Scenario.cases)
    BY <1>2, Here
  <2> QED
    BY <1>2, <2>1, Zenon DEF LeaveCase
<1> QED
  BY <1>1, <1>2, Zenon

LEMMA TypesStep ==
    ASSUME Types, [Next]_vars
    PROVE  Types'
<1>1. plan' = plan /\ selected' = selected /\ Rows' = Rows
  BY Kinds, Zenon DEF Rows
<1>2. CASE Stays
  BY <1>1, <1>2, Zenon DEF Stays, Types, Scenario, Case
<1>3. CASE StepPasses
  <2>1. at' = [scenario |-> at.scenario, case |-> at.case, step |-> at.step + 1]
    BY <1>3, ZenonT(60) DEF StepPasses, Types
  <2>2. at.step + 1 \in DOMAIN Case.steps
    BY <1>3, Here, PlanFacts, SMTT(60) DEF StepPasses, Types, IsList, Scenario, Case
  <2>3. Row(at.step, "passed") \in Rows
    BY Here DEF Row, Rows, Statuses
  <2>4. results' \in Seq(Rows)
    BY <1>3, <2>3 DEF StepPasses, Types
  <2>5. Scenario' = Scenario /\ Case' = Case
    BY <1>1, <2>1, Zenon DEF Scenario, Case
  <2>6. at' \in [scenario : Nat, case : Nat, step : Nat] /\ at'.step = at.step + 1
        /\ at'.scenario = at.scenario /\ at'.case = at.case
    BY <2>1, Here, SMTT(60)
  <2> QED
    BY <1>1, <1>3, <2>2, <2>4, <2>5, <2>6, Zenon DEF StepPasses, Types
<1>4. ASSUME NEW status \in Statuses, CaseEnds(status) PROVE Types'
  <2>1. results' \in Seq(Rows)
    BY <1>4, CaseReport, Zenon DEF CaseEnds
  <2>2. statuses' \in [CaseIds(plan) -> {None, "passed", "failed"}]
    BY <1>4, Here, Zenon DEF CaseEnds, Types
  <2>3. CASE /\ pc' = "case" /\ at.case < Len(Scenario.cases)
             /\ at' = [scenario |-> at.scenario, case |-> at.case + 1, step |-> 1]
    <3>1. at.case + 1 \in DOMAIN Scenario.cases
      BY <2>3, Here, PlanFacts, SMTT(60) DEF Types, IsList, Scenario
    <3>2. 1 \in DOMAIN Scenario.cases[at.case + 1].steps
      BY <3>1, PlanFacts, SMTT(60) DEF Types, IsList, Scenario
    <3>3. Scenario' = Scenario /\ Case' = Scenario.cases[at.case + 1]
      BY <1>1, <2>3, Zenon DEF Scenario, Case
    <3>4. at' \in [scenario : Nat, case : Nat, step : Nat] /\ at'.step = 1
          /\ at'.scenario = at.scenario /\ at'.case = at.case + 1
      BY <2>3, Here, SMTT(60)
    <3> QED
      BY <1>1, <2>1, <2>2, <2>3, <3>1, <3>2, <3>3, <3>4, ZenonT(60) DEF Types
  <2>4. CASE pc' = "cleanup" /\ at' = at /\ at.case = Len(Scenario.cases)
    BY <1>1, <2>1, <2>2, <2>4, Zenon DEF Types, Scenario, Case
  <2> QED
    BY <1>1, <1>4, <2>3, <2>4, Leaving, Zenon DEF CaseEnds
<1>5. CASE ScenarioEnds
  <2>1. CASE at.scenario < Len(plan)
    <3>1. at.scenario + 1 \in DOMAIN plan
      BY <2>1, Here, PlanFacts, SMTT(60) DEF IsList
    <3>2. 1 \in DOMAIN plan[at.scenario + 1].cases
      BY <3>1, PlanFacts DEF IsList
    <3>3. 1 \in DOMAIN plan[at.scenario + 1].cases[1].steps
      BY <3>1, <3>2, PlanFacts DEF IsList
    <3>4. /\ pc' = "case" /\ at' \in [scenario : Nat, case : Nat, step : Nat]
          /\ at'.scenario = at.scenario + 1 /\ at'.case = 1 /\ at'.step = 1
      BY <1>5, <2>1, Here, SMTT(60) DEF ScenarioEnds, GoOn
    <3> QED
      BY <1>1, <1>5, <3>1, <3>2, <3>3, <3>4, Zenon DEF ScenarioEnds, Types, Scenario, Case
  <2>2. CASE ~(at.scenario < Len(plan))
    <3>1. at.scenario = Len(plan)
      BY <2>2, Here, SMTT(60)
    <3> QED
      BY <1>1, <1>5, <2>2, <3>1, Zenon DEF ScenarioEnds, GoOn, Types, Scenario, Case
  <2> QED
    BY <2>1, <2>2, Zenon
<1> QED
  BY <1>2, <1>3, <1>4, <1>5, Kinds, Zenon

LEMMA TypesInit ==
    ASSUME Init
    PROVE  Types
<1>1. /\ selected \in Selections /\ \E window \in Windows : plan = PlanOf(selected, window)
  BY Zenon DEF Init
<1>2. SoundPlan(plan)
  BY <1>1, ContractAssumption, Zenon
<1>3. 1 \in DOMAIN plan
  BY <1>2, SMTT(60) DEF SoundPlan, IsList
<1>4. 1 \in DOMAIN plan[1].cases
  BY <1>2, <1>3, SMTT(60) DEF SoundPlan, SoundScenario, IsList
<1>5. 1 \in DOMAIN plan[1].cases[1].steps
  BY <1>2, <1>3, <1>4, SMTT(60) DEF SoundPlan, SoundScenario, SoundCase, IsList
<1> QED
  BY <1>1, <1>3, <1>4, <1>5 DEF Init, Types, Scenario, Case

-----------------------------------------------------------------------------
(* What was reached.                                                       *)

CaseOver(i, j) == i < at.scenario \/ (i = at.scenario /\ (j < at.case \/ (j = at.case /\ Over)))

Reached(i, j, k) == CaseOver(i, j) \/ (i = at.scenario /\ j = at.case /\ k < at.step)

LEMMA ReachedInStep ==
    ASSUME Types, StepPasses, NEW i \in DOMAIN plan, NEW j \in DOMAIN plan[i].cases, NEW k \in DOMAIN plan[i].cases[j].steps
    PROVE  /\ CaseOver(i, j)' <=> CaseOver(i, j)
           /\ Reached(i, j, k)' <=> Reached(i, j, k) \/ (i = at.scenario /\ j = at.case /\ k = at.step)
<1>1. at'.scenario = at.scenario /\ at'.case = at.case /\ at'.step = at.step + 1
  BY Zenon DEF StepPasses, Types
<1>2. ~Over /\ ~Over'
  BY Zenon DEF StepPasses, Over
<1>3. i \in Nat /\ j \in Nat /\ k \in Nat
  BY PlanFacts, SMTT(60) DEF IsList
<1> QED
  BY <1>1, <1>2, <1>3, Here, SMTT(60) DEF CaseOver, Reached

LEMMA ReachedInEnd ==
    ASSUME Types, NEW status, CaseEnds(status), plan' = plan,
           NEW i \in DOMAIN plan, NEW j \in DOMAIN plan[i].cases, NEW k \in DOMAIN plan[i].cases[j].steps
    PROVE  /\ CaseOver(i, j)' <=> CaseOver(i, j) \/ (i = at.scenario /\ j = at.case)
           /\ Reached(i, j, k)' <=> Reached(i, j, k) \/ (i = at.scenario /\ j = at.case)
<1>1. ~Over
  BY Zenon DEF CaseEnds, Over
<1>2. i \in Nat /\ j \in Nat /\ k \in Nat /\ k >= 1
  BY PlanFacts, SMTT(60) DEF IsList
<1>3. CASE pc' = "case" /\ at' = [scenario |-> at.scenario, case |-> at.case + 1, step |-> 1]
  <2>1. at'.scenario = at.scenario /\ at'.case = at.case + 1 /\ at'.step = 1 /\ ~Over'
    BY <1>3, Zenon DEF Over
  <2> QED
    BY <1>1, <1>2, <2>1, Here, SMTT(60) DEF CaseOver, Reached
<1>4. CASE pc' = "cleanup" /\ at' = at
  <2>1. Over'
    BY <1>4, Zenon DEF Over
  <2> QED
    BY <1>1, <1>2, <1>4, <2>1, Here, Zenon DEF CaseOver, Reached
<1> QED
  BY <1>3, <1>4, Leaving, Zenon DEF CaseEnds

LEMMA ReachedElse ==
    ASSUME Types, plan' = plan, Stays \/ ScenarioEnds,
           NEW i \in DOMAIN plan, NEW j \in DOMAIN plan[i].cases, NEW k \in DOMAIN plan[i].cases[j].steps
    PROVE  /\ CaseOver(i, j)' <=> CaseOver(i, j)
           /\ Reached(i, j, k)' <=> Reached(i, j, k)
<1>1. i \in Nat /\ j \in Nat /\ k \in Nat /\ k >= 1 /\ j >= 1
  BY PlanFacts, SMTT(60) DEF IsList
<1>2. CASE Stays
  <2>1. at' = at /\ (Over' <=> Over)
    BY <1>2, Zenon DEF Stays, Over
  <2> QED
    BY <2>1, Zenon DEF CaseOver, Reached
<1>3. CASE ScenarioEnds
  <2>1. Over /\ at.case = Len(Scenario.cases)
    BY <1>3, Zenon DEF ScenarioEnds, Over, Types
  <2>2. CASE at.scenario < Len(plan)
    <3>1. at'.scenario = at.scenario + 1 /\ at'.case = 1 /\ at'.step = 1 /\ ~Over'
      BY <1>3, <2>2, SMTT(60) DEF ScenarioEnds, GoOn, Over
    <3>2. i = at.scenario => j <= at.case
      BY <2>1, PlanFacts DEF Scenario, IsList
    <3> QED
      BY <1>1, <2>1, <3>1, <3>2, Here, SMTT(60) DEF CaseOver, Reached
  <2>3. CASE ~(at.scenario < Len(plan))
    <3>1. at' = at /\ Over'
      BY <1>3, <2>3, Zenon DEF ScenarioEnds, GoOn, Over
    <3> QED
      BY <2>1, <3>1, Zenon DEF CaseOver, Reached
  <2> QED
    BY <2>2, <2>3, Zenon
<1> QED
  BY <1>2, <1>3, ZenonT(60)

LEMMA ReachedGrows ==
    ASSUME Types, [Next]_vars,
           NEW i \in DOMAIN plan, NEW j \in DOMAIN plan[i].cases, NEW k \in DOMAIN plan[i].cases[j].steps,
           Reached(i, j, k)
    PROVE  Reached(i, j, k)'
  BY Kinds, ReachedInStep, ReachedInEnd, ReachedElse, Zenon

-----------------------------------------------------------------------------
(* The rows of the report.                                                 *)

RowsInPlan ==
    \A row \in Range(results) : \E i \in DOMAIN plan : \E j \in DOMAIN plan[i].cases :
        /\ plan[i].cases[j].id = row.case
        /\ row.step \in DOMAIN plan[i].cases[j].steps
        /\ Reached(i, j, row.step)

StepsInReport ==
    \A i \in DOMAIN plan : \A j \in DOMAIN plan[i].cases : \A k \in DOMAIN plan[i].cases[j].steps :
        Reached(i, j, k) => \E row \in Range(results) : row.case = plan[i].cases[j].id /\ row.step = k

\* The case that is run has no row of the steps to come.
LEMMA NotYet ==
    ASSUME Types, RowsInPlan, ~Over, NEW row \in Range(results), row.case = Case.id
    PROVE  row.step \in Nat /\ row.step < at.step
<1>0. PICK i \in DOMAIN plan : \E j \in DOMAIN plan[i].cases :
         /\ plan[i].cases[j].id = row.case /\ row.step \in DOMAIN plan[i].cases[j].steps
         /\ Reached(i, j, row.step)
  BY Zenon DEF RowsInPlan
<1>1. PICK j \in DOMAIN plan[i].cases :
         /\ plan[i].cases[j].id = row.case /\ row.step \in DOMAIN plan[i].cases[j].steps
         /\ Reached(i, j, row.step)
  BY <1>0, ZenonT(60)
<1>2. i = at.scenario /\ j = at.case
  BY <1>1, PlanFacts, SMTT(60) DEF Types, Scenario, Case
<1>3. row.step \in Nat
  BY <1>1, PlanFacts, SMTT(60) DEF IsList
<1> QED
  BY <1>1, <1>2, <1>3, Here DEF Reached, CaseOver

\* The rows that a step of the run adds.
LEMMA RowsInStep ==
    ASSUME Types, StepPasses
    PROVE  \A y : y \in Range(results') <=> y \in Range(results) \/ y = Row(at.step, "passed")
<1>1. Row(at.step, "passed") \in Rows
  BY Here DEF Row, Rows, Statuses
<1> QED
  BY <1>1, RangeFacts DEF StepPasses, Types

LEMMA RowsInEnd ==
    ASSUME Types, NEW status \in Statuses, CaseEnds(status)
    PROVE  \A y : y \in Range(results') <=>
              \/ y \in Range(results) \/ y = Row(at.step, status)
              \/ \E k \in (at.step + 1)..Len(Case.steps) : y = Row(k, "skipped")
  BY CaseReport, Zenon DEF CaseEnds

LEMMA RowsInPlanStep ==
    ASSUME Types, RowsInPlan, [Next]_vars
    PROVE  RowsInPlan'
<1>1. plan' = plan
  BY Kinds, Zenon
<1>2. SUFFICES ASSUME NEW row \in Range(results')
               PROVE  \E i \in DOMAIN plan : \E j \in DOMAIN plan[i].cases :
                         /\ plan[i].cases[j].id = row.case
                         /\ row.step \in DOMAIN plan[i].cases[j].steps
                         /\ Reached(i, j, row.step)'
  BY <1>1, Zenon DEF RowsInPlan
<1>3. CASE row \in Range(results)
  <2>0. PICK i \in DOMAIN plan : \E j \in DOMAIN plan[i].cases :
           /\ plan[i].cases[j].id = row.case /\ row.step \in DOMAIN plan[i].cases[j].steps
           /\ Reached(i, j, row.step)
    BY <1>3, Zenon DEF RowsInPlan
  <2>1. PICK j \in DOMAIN plan[i].cases :
           /\ plan[i].cases[j].id = row.case /\ row.step \in DOMAIN plan[i].cases[j].steps
           /\ Reached(i, j, row.step)
    BY <2>0, Zenon
  <2>2. Reached(i, j, row.step)'
    BY <2>1, ReachedGrows, Zenon
  <2> QED
    BY <2>1, <2>2, Zenon
<1>4. CASE row \notin Range(results)
  <2>i. PICK i \in DOMAIN plan : i = at.scenario
    BY Zenon DEF Types
  <2>j. PICK j \in DOMAIN plan[i].cases : j = at.case
    BY <2>i, Zenon DEF Types, Scenario
  <2>1. plan[i].cases[j].id = Case.id /\ DOMAIN plan[i].cases[j].steps = 1..Len(Case.steps)
    BY <2>i, <2>j, PlanFacts, Zenon DEF Scenario, Case, IsList
  <2>2. CASE StepPasses
    <3>1. row = Row(at.step, "passed")
      BY <1>2, <1>4, <2>2, RowsInStep, Zenon
    <3>2. row.case = Case.id /\ row.step = at.step
      BY <3>1, Zenon DEF Row
    <3>3. row.step \in DOMAIN plan[i].cases[j].steps
      BY <2>1, <3>2, Here, Zenon
    <3>4. Reached(i, j, row.step)'
      BY <2>i, <2>j, <2>2, <3>2, <3>3, ReachedInStep, Zenon
    <3> QED
      BY <2>1, <3>2, <3>3, <3>4, Zenon
  <2>3. ASSUME NEW status \in Statuses, CaseEnds(status)
        PROVE  row.case = Case.id /\ row.step \in DOMAIN plan[i].cases[j].steps /\ Reached(i, j, row.step)'
    <3>1. row = Row(at.step, status) \/ \E k \in (at.step + 1)..Len(Case.steps) : row = Row(k, "skipped")
      BY <1>2, <1>4, <2>3, RowsInEnd, ZenonT(60)
    <3>2. row.case = Case.id /\ row.step \in 1..Len(Case.steps)
      BY <3>1, Here, SMTT(60) DEF Row
    <3> QED
      BY <1>1, <2>i, <2>j, <2>1, <2>3, <3>2, ReachedInEnd, Zenon
  <2>4. CASE Stays \/ ScenarioEnds
    BY <1>2, <1>4, <2>4, Zenon DEF Stays, ScenarioEnds
  <2> QED
    BY <2>1, <2>2, <2>3, <2>4, Kinds, Zenon
<1> QED
  BY <1>3, <1>4, Zenon

LEMMA StepsInReportStep ==
    ASSUME Types, StepsInReport, [Next]_vars
    PROVE  StepsInReport'
<1>1. plan' = plan
  BY Kinds, Zenon
<1>2. SUFFICES ASSUME NEW i \in DOMAIN plan, NEW j \in DOMAIN plan[i].cases, NEW k \in DOMAIN plan[i].cases[j].steps,
                      Reached(i, j, k)'
               PROVE  \E row \in Range(results') : row.case = plan[i].cases[j].id /\ row.step = k
  BY <1>1 DEF StepsInReport
<1>3. \A row \in Range(results) : row \in Range(results')
  BY Kinds, RowsInStep, RowsInEnd, Zenon DEF Stays, ScenarioEnds
<1>4. CASE Reached(i, j, k)
  BY <1>3, <1>4, Zenon DEF StepsInReport
<1>5. CASE ~Reached(i, j, k)
  <2>1. CASE StepPasses
    <3>1. i = at.scenario /\ j = at.case /\ k = at.step
      BY <1>2, <1>5, <2>1, ReachedInStep, Zenon
    <3>2. Row(at.step, "passed") \in Range(results')
      BY <2>1, RowsInStep, Zenon
    <3> QED
      BY <3>1, <3>2, Zenon DEF Row, Case, Scenario
  <2>2. ASSUME NEW status \in Statuses, CaseEnds(status)
        PROVE  \E row \in Range(results') : row.case = plan[i].cases[j].id /\ row.step = k
    <3>1. i = at.scenario /\ j = at.case
      BY <1>1, <1>2, <1>5, <2>2, ReachedInEnd, Zenon
    <3>a. k \in 1..Len(Case.steps)
      BY <3>1, PlanFacts, ZenonT(60) DEF Case, Scenario, IsList
    <3>2. k \in at.step..Len(Case.steps)
      BY <1>5, <3>1, <3>a, Here DEF Reached
    <3>3. \E row \in Range(results') : row.case = Case.id /\ row.step = k
      <4>1. CASE k = at.step
        <5>1. Row(at.step, status) \in Range(results')
          BY <2>2, RowsInEnd, Zenon
        <5> QED
          BY <4>1, <5>1, Zenon DEF Row
      <4>2. CASE k \in (at.step + 1)..Len(Case.steps)
        <5>1. Row(k, "skipped") \in Range(results')
          BY <2>2, <4>2, RowsInEnd, Zenon
        <5> QED
          BY <5>1, Zenon DEF Row
      <4> QED
        BY <3>2, <4>1, <4>2, Here
    <3> QED
      BY <3>1, <3>3, Zenon DEF Case, Scenario
  <2>3. CASE Stays \/ ScenarioEnds
    BY <1>1, <1>2, <1>5, <2>3, ReachedElse, Zenon
  <2> QED
    BY <2>1, <2>2, <2>3, Kinds, Zenon
<1> QED
  BY <1>4, <1>5, Zenon

-----------------------------------------------------------------------------
(* What passed.                                                            *)

LEMMA PassedInEnd ==
    ASSUME Types, NEW status \in Statuses, CaseEnds(status) \/ (StepPasses /\ status = "passed"), NEW id, NEW k
    PROVE  Passed(id, k)' <=> Passed(id, k) \/ (id = Case.id /\ k = at.step /\ status = "passed")
<1> DEFINE r == [case |-> id, step |-> k, status |-> "passed"]
<1>1. \A n, v : r = Row(n, v) <=> id = Case.id /\ k = n /\ v = "passed"
  BY Zenon DEF Row
<1>2. r \in Range(results') <=> r \in Range(results) \/ (id = Case.id /\ k = at.step /\ status = "passed")
  <2> HIDE DEF r
  <2>1. CASE CaseEnds(status)
    <3>1. r \in Range(results') <=>
              \/ r \in Range(results) \/ r = Row(at.step, status)
              \/ \E n \in (at.step + 1)..Len(Case.steps) : r = Row(n, "skipped")
      BY <2>1, RowsInEnd, Zenon
    <3> QED
      BY <1>1, <3>1
  <2>2. CASE StepPasses /\ status = "passed"
    BY <1>1, <2>2, RowsInStep, Zenon
  <2> QED
    BY <2>1, <2>2, Zenon
<1> QED
  BY <1>2, Zenon DEF Passed

LEMMA PassedElse ==
    ASSUME Stays \/ ScenarioEnds, NEW id, NEW k
    PROVE  Passed(id, k)' <=> Passed(id, k)
  BY Zenon DEF Passed, Stays, ScenarioEnds

\* A step of one case leaves what is known of the others.
LEMMA OthersKeep ==
    ASSUME Types, [Next]_vars, NEW i \in DOMAIN plan, NEW j \in DOMAIN plan[i].cases,
           ~(i = at.scenario /\ j = at.case)
    PROVE  /\ \A k : Passed(plan[i].cases[j].id, k)' <=> Passed(plan[i].cases[j].id, k)
           /\ AllPassed(plan[i].cases[j])' <=> AllPassed(plan[i].cases[j])
<1>1. plan' = plan
  BY Kinds, Zenon
<1>2. PICK id : id = plan[i].cases[j].id
  BY ZenonT(60)
<1>3. id # Case.id
  BY <1>2, PlanFacts DEF Types, Scenario, Case
<1>4. ASSUME NEW k PROVE Passed(id, k)' <=> Passed(id, k)
  BY <1>3, Kinds, PassedInEnd, PassedElse, "passed" \in Statuses, ZenonT(60) DEF Statuses
<1>5. \A k : Passed(plan[i].cases[j].id, k)' <=> Passed(plan[i].cases[j].id, k)
  BY <1>1, <1>2, <1>4, Zenon DEF Passed
<1> QED
  BY <1>1, <1>5, Zenon DEF AllPassed, Passed

NeedsPassed(i, j) ==
    \A m \in DOMAIN plan : \A n \in DOMAIN plan[m].cases :
        plan[m].cases[n].id \in plan[i].cases[j].prerequisites => AllPassed(plan[m].cases[n])

LEMMA NeedsAreEarlier ==
    ASSUME Types, NEW i \in DOMAIN plan, NEW j \in DOMAIN plan[i].cases
    PROVE  /\ \A m \in DOMAIN plan : \A n \in DOMAIN plan[m].cases :
                 plan[m].cases[n].id \in plan[i].cases[j].prerequisites => Earlier(m, n, i, j)
           /\ \A id \in plan[i].cases[j].prerequisites :
                 \E m \in DOMAIN plan : \E n \in DOMAIN plan[m].cases : plan[m].cases[n].id = id
<1>1. \A id \in plan[i].cases[j].prerequisites :
         \E m \in 1..i : \E n \in DOMAIN plan[m].cases : plan[m].cases[n].id = id /\ (m < i \/ n < j)
  BY PlanFacts DEF SoundPlan
<1>2. i \in 1..Len(plan) /\ Len(plan) \in Nat /\ DOMAIN plan = 1..Len(plan)
  BY PlanFacts, Zenon DEF IsList
<1>3. ASSUME NEW m \in DOMAIN plan, NEW n \in DOMAIN plan[m].cases,
             plan[m].cases[n].id \in plan[i].cases[j].prerequisites
      PROVE  Earlier(m, n, i, j)
  <2>1. PICK p \in 1..i : \E q \in DOMAIN plan[p].cases :
           plan[p].cases[q].id = plan[m].cases[n].id /\ (p < i \/ q < j)
    BY <1>1, <1>3, Zenon
  <2>2. PICK q \in DOMAIN plan[p].cases : plan[p].cases[q].id = plan[m].cases[n].id /\ (p < i \/ q < j)
    BY <2>1, Zenon
  <2>3. p \in DOMAIN plan
    BY <1>2
  <2>4. p = m /\ q = n
    BY <2>2, <2>3, PlanFacts, ZenonT(60)
  <2> QED
    BY <1>2, <2>2, <2>4 DEF Earlier
<1>4. ASSUME NEW id \in plan[i].cases[j].prerequisites
      PROVE  \E m \in DOMAIN plan : \E n \in DOMAIN plan[m].cases : plan[m].cases[n].id = id
  <2>1. PICK m \in 1..i : \E n \in DOMAIN plan[m].cases : plan[m].cases[n].id = id
    BY <1>1, Zenon
  <2>2. m \in DOMAIN plan
    BY <1>2
  <2> QED
    BY <2>1, <2>2, Zenon
<1> QED
  BY <1>3, <1>4, ZenonT(60)

\* What the cases so far needed does not change any more.
LEMMA NeedsKeep ==
    ASSUME Types, [Next]_vars, NEW i \in DOMAIN plan, NEW j \in DOMAIN plan[i].cases,
           CaseOver(i, j) \/ (i = at.scenario /\ j = at.case)
    PROVE  NeedsPassed(i, j)' <=> NeedsPassed(i, j)
<1>1. plan' = plan
  BY Kinds, Zenon
<1>2. i \in Nat /\ j \in Nat
  BY PlanFacts DEF IsList
<1>3. ASSUME NEW m \in DOMAIN plan, NEW n \in DOMAIN plan[m].cases,
             plan[m].cases[n].id \in plan[i].cases[j].prerequisites
      PROVE  AllPassed(plan[m].cases[n])' <=> AllPassed(plan[m].cases[n])
  <2>1. Earlier(m, n, i, j)
    BY <1>3, NeedsAreEarlier, ZenonT(60)
  <2>2. m \in Nat /\ n \in Nat
    BY PlanFacts DEF IsList
  <2>3. ~(m = at.scenario /\ n = at.case)
    BY <1>2, <2>1, <2>2, Here, SMTT(60) DEF Earlier, CaseOver
  <2> QED
    BY <2>3, OthersKeep, Zenon
<1> QED
  BY <1>1, <1>3, Zenon DEF NeedsPassed

-----------------------------------------------------------------------------
(* The status of a case tells whether all its steps passed, and the rows   *)
(* tell when a step was tried.                                             *)

StatusesTell ==
    \A i \in DOMAIN plan : \A j \in DOMAIN plan[i].cases :
        CaseOver(i, j) => (statuses[plan[i].cases[j].id] = "passed" <=> AllPassed(plan[i].cases[j]))

SoFarPassed ==
    pc = "step" =>
        /\ NeedsPassed(at.scenario, at.case)
        /\ \A k \in 1..(at.step - 1) : Passed(Case.id, k)

RowsDue ==
    \A row \in Range(results) : \A i \in DOMAIN plan : \A j \in DOMAIN plan[i].cases :
        plan[i].cases[j].id = row.case =>
            (row.status # "skipped" <=> NeedsPassed(i, j) /\ \A k \in 1..(row.step - 1) : Passed(row.case, k))

ReportInv == RowsInPlan /\ StepsInReport /\ StatusesTell /\ SoFarPassed /\ RowsDue

\* The step that ends the case did not pass before.
LEMMA FirstTry ==
    ASSUME Types, RowsInPlan, ~Over, NEW k, k \in Nat, k >= at.step
    PROVE  ~Passed(Case.id, k)
<1>1. SUFFICES ASSUME Passed(Case.id, k) PROVE FALSE
  BY Zenon
<1>2. PICK row \in Range(results) : row.case = Case.id /\ row.step = k
  BY <1>1, Zenon DEF Passed
<1> QED
  BY <1>2, NotYet, Here

LEMMA StatusesTellStep ==
    ASSUME Types, ReportInv, [Next]_vars
    PROVE  StatusesTell'
<1>1. plan' = plan
  BY Kinds, Zenon
<1>2. SUFFICES ASSUME NEW i \in DOMAIN plan, NEW j \in DOMAIN plan[i].cases, CaseOver(i, j)'
               PROVE  statuses'[plan[i].cases[j].id] = "passed" <=> AllPassed(plan[i].cases[j])'
  BY <1>1, Zenon DEF StatusesTell
<1>3. CASE ~(i = at.scenario /\ j = at.case)
  <2>1. AllPassed(plan[i].cases[j])' <=> AllPassed(plan[i].cases[j])
    BY <1>3, OthersKeep, ZenonT(60)
  <2>2. plan[i].cases[j].id # Case.id /\ plan[i].cases[j].id \in CaseIds(plan)
    BY <1>3, PlanFacts DEF Types, Scenario, Case
  <2>3. statuses'[plan[i].cases[j].id] = statuses[plan[i].cases[j].id]
    BY <2>2, Kinds, ZenonT(60) DEF Stays, StepPasses, CaseEnds, ScenarioEnds, Types
  <2>4. 1 \in DOMAIN plan[i].cases[j].steps
    BY PlanFacts DEF IsList
  <2>5. CaseOver(i, j)
    BY <1>1, <1>2, <1>3, <2>4, Kinds, ReachedInStep, ReachedInEnd, ReachedElse, ZenonT(60)
  <2> QED
    BY <2>1, <2>3, <2>5, Zenon DEF ReportInv, StatusesTell
<1>4. CASE i = at.scenario /\ j = at.case
  <2>1. plan[i].cases[j] = Case /\ 1 \in DOMAIN plan[i].cases[j].steps
    BY <1>4, PlanFacts, SMTT(60) DEF Scenario, Case, IsList
  <2>2. CASE StepPasses
    <3>1. ~CaseOver(i, j)
      BY <1>4, <2>2, Here DEF StepPasses, CaseOver, Over
    <3> QED
      BY <1>2, <2>1, <2>2, <3>1, ReachedInStep, ZenonT(60)
  <2>3. ASSUME NEW status \in Statuses, CaseEnds(status)
        PROVE  statuses'[plan[i].cases[j].id] = "passed" <=> AllPassed(plan[i].cases[j])'
    <3>1. ~Over
      BY <2>3, Zenon DEF CaseEnds, Over
    <3>2. statuses'[plan[i].cases[j].id] = IF status = "passed" THEN "passed" ELSE "failed"
      BY <2>1, <2>3, Here, Zenon DEF CaseEnds, Types
    <3>3. PICK id : id = plan[i].cases[j].id
      BY ZenonT(60)
    <3>4. AllPassed(plan[i].cases[j])' <=> \A k \in 1..Len(Case.steps) : Passed(id, k)'
      BY <1>1, <1>4, <2>1, <3>3, PlanFacts, SMTT(60) DEF AllPassed, Passed, IsList
    <3>5. PICK n \in 1..Len(Case.steps) : n = at.step
      BY Here, Zenon
    <3>6. ~Passed(Case.id, n)
      BY <3>1, <3>5, FirstTry, Here DEF ReportInv
    <3>7. Passed(id, n)' <=> status = "passed"
      BY <2>1, <2>3, <3>3, <3>5, <3>6, PassedInEnd, Zenon
    <3>8. ASSUME status = "passed", NEW k \in 1..Len(Case.steps)
          PROVE  Passed(id, k)'
      <4>1. pc = "step" /\ at.step = Len(Case.steps)
        BY <2>3, <3>8, Zenon DEF CaseEnds
      <4>2. k \in 1..(at.step - 1) => Passed(id, k)
        BY <2>1, <3>3, <4>1, Zenon DEF ReportInv, SoFarPassed
      <4>3. k \in 1..(at.step - 1) \/ k = at.step
        BY <4>1, Here
      <4> QED
        BY <2>1, <2>3, <3>3, <3>8, <4>2, <4>3, PassedInEnd, Zenon
    <3> QED
      BY <3>2, <3>4, <3>5, <3>7, <3>8, ZenonT(60)
  <2>4. CASE Stays \/ ScenarioEnds
    <3>1. CaseOver(i, j)
      BY <1>1, <1>2, <2>1, <2>4, ReachedElse, Zenon
    <3>2. AllPassed(plan[i].cases[j])' <=> AllPassed(plan[i].cases[j])
      BY <1>1, <2>4, Zenon DEF AllPassed, Passed, Stays, ScenarioEnds
    <3> QED
      BY <2>4, <3>1, <3>2, Zenon DEF ReportInv, StatusesTell, Stays, ScenarioEnds
  <2> QED
    BY <2>2, <2>3, <2>4, Kinds, ZenonT(60)
<1> QED
  BY <1>3, <1>4, Zenon

LEMMA SoFarPassedStep ==
    ASSUME Types, ReportInv, [Next]_vars
    PROVE  SoFarPassed'
<1>1. plan' = plan
  BY Kinds, Zenon
<1>i. PICK i \in DOMAIN plan : i = at.scenario
  BY Zenon DEF Types
<1>j. PICK j \in DOMAIN plan[i].cases : j = at.case
  BY <1>i, Zenon DEF Types, Scenario
<1>c. PICK id : id = Case.id
  BY Zenon
<1>2. NeedsPassed(i, j)' <=> NeedsPassed(i, j)
  BY <1>i, <1>j, NeedsKeep, Zenon
<1>3. CASE Stays /\ pc' = "step"
  <2>1. at' = at /\ Case' = Case /\ \A k : Passed(id, k)' <=> Passed(id, k)
    BY <1>1, <1>3, Zenon DEF Stays, Case, Scenario, Passed
  <2>2. CASE pc = "step"
    BY <1>i, <1>j, <1>c, <1>2, <2>1, <2>2, ZenonT(60) DEF ReportInv, SoFarPassed
  <2>3. CASE pc # "step"
    <3>1. pc = "case" /\ ~Unmet(Case)
      BY <1>3, <2>3, Zenon DEF Stays, Types
    <3>2. ASSUME NEW m \in DOMAIN plan, NEW n \in DOMAIN plan[m].cases,
                 plan[m].cases[n].id \in plan[i].cases[j].prerequisites
          PROVE  AllPassed(plan[m].cases[n])
      <4>1. statuses[plan[m].cases[n].id] = "passed"
        BY <1>i, <1>j, <3>1, <3>2, Zenon DEF Unmet, Case, Scenario
      <4>2. Earlier(m, n, i, j)
        BY <3>2, NeedsAreEarlier, Zenon
      <4>3. CaseOver(m, n)
        BY <1>i, <1>j, <4>2, Zenon DEF Earlier, CaseOver
      <4> QED
        BY <4>1, <4>3, Zenon DEF ReportInv, StatusesTell
    <3>3. NeedsPassed(i, j)
      BY <3>2, Zenon DEF NeedsPassed
    <3>4. at.step = 1
      BY <3>1, Zenon DEF Types
    <3> QED
      BY <1>i, <1>j, <1>2, <2>1, <3>3, <3>4, SMTT(60) DEF SoFarPassed
  <2> QED
    BY <2>2, <2>3, Zenon
<1>4. CASE StepPasses
  <2>1. at'.scenario = at.scenario /\ at'.case = at.case /\ at'.step = at.step + 1
    BY <1>4, Zenon DEF StepPasses, Types
  <2>2. Case' = Case /\ NeedsPassed(at.scenario, at.case)
    BY <1>1, <1>4, <2>1, Zenon DEF Case, Scenario, StepPasses, ReportInv, SoFarPassed
  <2>3. NeedsPassed(i, j)'
    BY <1>i, <1>j, <1>2, <2>2, Zenon
  <2>4. ASSUME NEW k \in 1..at.step PROVE Passed(id, k)'
    <3>1. k \in 1..(at.step - 1) => Passed(id, k)
      BY <1>4, <1>c, Zenon DEF StepPasses, ReportInv, SoFarPassed
    <3>2. k \in 1..(at.step - 1) \/ k = at.step
      BY Here
    <3>3. "passed" \in Statuses
      BY Zenon DEF Statuses
    <3> QED
      BY <1>4, <1>c, <3>1, <3>2, <3>3, PassedInEnd, Zenon
  <2>5. (at.step + 1) - 1 = at.step
    BY Here
  <2> QED
    BY <1>i, <1>j, <1>c, <2>1, <2>2, <2>3, <2>4, <2>5, ZenonT(60) DEF SoFarPassed
<1>5. CASE pc' # "step"
  BY <1>5, Zenon DEF SoFarPassed
<1> QED
  BY <1>3, <1>4, <1>5, Kinds, Leaving, ZenonT(60) DEF CaseEnds, ScenarioEnds, GoOn

LEMMA RowsDueStep ==
    ASSUME Types, ReportInv, [Next]_vars
    PROVE  RowsDue'
<1>1. plan' = plan
  BY Kinds, Zenon
<1>2. SUFFICES ASSUME NEW row \in Range(results'), NEW i \in DOMAIN plan, NEW j \in DOMAIN plan[i].cases,
                      plan[i].cases[j].id = row.case
               PROVE  row.status # "skipped" <=>
                         NeedsPassed(i, j)' /\ \A k \in 1..(row.step - 1) : Passed(row.case, k)'
  BY <1>1, Zenon DEF RowsDue
<1>3. CASE row \in Range(results)
  <2>1. row.status # "skipped" <=> NeedsPassed(i, j) /\ \A k \in 1..(row.step - 1) : Passed(row.case, k)
    BY <1>2, <1>3, ZenonT(60) DEF ReportInv, RowsDue
  <2>2. row.step \in DOMAIN plan[i].cases[j].steps /\ Reached(i, j, row.step)
    BY <1>2, <1>3, PlanFacts DEF ReportInv, RowsInPlan
  <2>3. NeedsPassed(i, j)' <=> NeedsPassed(i, j)
    BY <2>2, NeedsKeep, Zenon DEF Reached
  <2>4. ASSUME NEW k \in 1..(row.step - 1)
        PROVE  Passed(row.case, k)' <=> Passed(row.case, k)
    <3>1. CASE ~(i = at.scenario /\ j = at.case)
      BY <1>1, <1>2, <3>1, OthersKeep, ZenonT(60) DEF Passed
    <3>2. CASE i = at.scenario /\ j = at.case /\ ~(Stays \/ ScenarioEnds)
      <4>1. ~Over
        BY <3>2, Kinds, Zenon DEF StepPasses, CaseEnds, Over
      <4>2. row.case = Case.id
        BY <1>2, <3>2, Zenon DEF Case, Scenario
      <4>3. row.step < at.step /\ row.step \in Nat
        BY <1>3, <4>1, <4>2, NotYet, Zenon DEF ReportInv
      <4>4. k # at.step
        BY <4>3, Here
      <4>5. \E status \in Statuses : CaseEnds(status) \/ (StepPasses /\ status = "passed")
        BY <3>2, Kinds, Zenon DEF Statuses
      <4> QED
        BY <4>4, <4>5, PassedInEnd
    <3>3. CASE Stays \/ ScenarioEnds
      BY <3>3, PassedElse, Zenon
    <3> QED
      BY <3>1, <3>2, <3>3, Zenon
  <2> QED
    BY <2>1, <2>3, <2>4, Zenon
<1>4. CASE row \notin Range(results)
  <2>1. \E status \in Statuses : CaseEnds(status) \/ (StepPasses /\ status = "passed")
    BY <1>2, <1>4, Kinds, Zenon DEF Statuses, Stays, ScenarioEnds
  <2>2. PICK status \in Statuses : CaseEnds(status) \/ (StepPasses /\ status = "passed")
    BY <2>1, Zenon
  <2>3. \/ row = Row(at.step, status)
        \/ CaseEnds(status) /\ \E k \in (at.step + 1)..Len(Case.steps) : row = Row(k, "skipped")
    BY <1>2, <1>4, <2>2, RowsInStep, RowsInEnd, ZenonT(60)
  <2>4. row.case = Case.id /\ row.step \in Nat /\ row.step >= at.step
    BY <2>3, Here, SMTT(60) DEF Row
  <2>5. i = at.scenario /\ j = at.case
    BY <1>2, <2>4, PlanFacts DEF Types, Case, Scenario
  <2>6. NeedsPassed(i, j)' <=> NeedsPassed(i, j)
    BY <2>5, NeedsKeep, Zenon
  <2>7. ~Over
    BY <2>2, Zenon DEF CaseEnds, StepPasses, Over
  <2>8. CASE pc = "case"
    <3>1. row.status = "skipped" /\ Unmet(Case)
      BY <2>2, <2>3, <2>8 DEF CaseEnds, StepPasses, Row
    <3>2. PICK id \in Case.prerequisites : id \notin DOMAIN statuses \/ statuses[id] # "passed"
      BY <3>1, Zenon DEF Unmet
    <3>3. PICK m \in DOMAIN plan : \E n \in DOMAIN plan[m].cases : plan[m].cases[n].id = id
      BY <2>5, <3>2, NeedsAreEarlier, ZenonT(60) DEF Case, Scenario
    <3>4. PICK n \in DOMAIN plan[m].cases : plan[m].cases[n].id = id
      BY <3>3, Zenon
    <3>5. Earlier(m, n, i, j)
      BY <2>5, <3>2, <3>4, NeedsAreEarlier, Zenon DEF Case, Scenario
    <3>6. CaseOver(m, n)
      BY <2>5, <3>5, Zenon DEF Earlier, CaseOver
    <3>7. statuses[id] # "passed"
      BY <3>2, <3>4, PlanFacts, Zenon DEF Types
    <3>8. ~AllPassed(plan[m].cases[n])
      BY <3>4, <3>6, <3>7, Zenon DEF ReportInv, StatusesTell
    <3>9. ~NeedsPassed(i, j)
      BY <2>5, <3>2, <3>4, <3>8, Zenon DEF NeedsPassed, Case, Scenario
    <3> QED
      BY <2>6, <3>1, <3>9, Zenon
  <2>9. CASE pc # "case"
    <3>1. pc = "step" /\ status # "skipped"
      BY <2>2, <2>9, Zenon DEF CaseEnds, StepPasses
    <3>2. NeedsPassed(i, j) /\ \A k \in 1..(at.step - 1) : Passed(row.case, k)
      BY <2>4, <2>5, <3>1, Zenon DEF ReportInv, SoFarPassed
    <3>3. CASE row = Row(at.step, status)
      <4>1. row.step = at.step /\ row.status # "skipped"
        BY <3>1, <3>3, Zenon DEF Row
      <4>2. \A k \in 1..(row.step - 1) : Passed(row.case, k)'
        BY <2>2, <3>2, <4>1, PassedInEnd, Zenon
      <4> QED
        BY <2>6, <3>2, <4>1, <4>2, Zenon
    <3>4. CASE CaseEnds(status) /\ \E k \in (at.step + 1)..Len(Case.steps) : row = Row(k, "skipped")
      <4>1. row.status = "skipped" /\ row.step > at.step /\ at.step < Len(Case.steps)
        BY <3>4, Here DEF Row
      <4>2. PICK k \in 1..(row.step - 1) : k = at.step
        BY <2>4, <4>1, Here, SMTT(60)
      <4>3. ~Passed(Case.id, k)
        BY <2>7, <4>2, FirstTry, Here, SMTT(60) DEF ReportInv
      <4>4. status # "passed"
        BY <3>1, <3>4, <4>1, Here, SMTT(60) DEF CaseEnds
      <4>5. ~Passed(row.case, k)'
        BY <2>2, <2>4, <4>3, <4>4, PassedInEnd, ZenonT(60)
      <4> QED
        BY <4>1, <4>2, <4>5, ZenonT(60)
    <3> QED
      BY <2>3, <3>3, <3>4, Zenon
  <2> QED
    BY <2>8, <2>9, Zenon
<1> QED
  BY <1>3, <1>4, Zenon

-----------------------------------------------------------------------------
(* The order of the report.                                                *)

InOrder(s) == \A n \in 1..(Len(s) - 1) : InPlanOrder(s[n], s[n + 1])

\* The rows of the case that is run come after the rows so far, in the order of
\* its steps.
LEMMA RowsFollow ==
    ASSUME Types, RowsInPlan, ~Over, NEW row \in Range(results), NEW k \in Nat, k >= at.step, NEW v
    PROVE  InPlanOrder(row, Row(k, v))
<1>0. PICK i \in DOMAIN plan : \E j \in DOMAIN plan[i].cases :
         /\ plan[i].cases[j].id = row.case /\ row.step \in DOMAIN plan[i].cases[j].steps
         /\ Reached(i, j, row.step)
  BY Zenon DEF RowsInPlan
<1>1. PICK j \in DOMAIN plan[i].cases :
         /\ plan[i].cases[j].id = row.case /\ row.step \in DOMAIN plan[i].cases[j].steps
         /\ Reached(i, j, row.step)
  BY <1>0, Zenon
<1>i. PICK m \in DOMAIN plan : m = at.scenario
  BY Zenon DEF Types
<1>j. PICK n \in DOMAIN plan[m].cases : n = at.case
  BY <1>i, Zenon DEF Types, Scenario
<1>2. Row(k, v).case = Case.id /\ Row(k, v).step = k
  BY Zenon DEF Row
<1>3. plan[m].cases[n].id = Row(k, v).case
  BY <1>i, <1>j, <1>2, ZenonT(60) DEF Case, Scenario
<1>4. row.step \in Nat
  BY <1>1, PlanFacts, SMTT(60) DEF IsList
<1>5. Earlier(i, j, m, n) \/ (i = m /\ j = n /\ row.step < Row(k, v).step)
  BY <1>1, <1>i, <1>j, <1>2, <1>4, Here, SMTT(60) DEF Reached, CaseOver, Earlier
<1> QED
  BY <1>1, <1>3, <1>5, Zenon DEF InPlanOrder

LEMMA StepsFollow ==
    ASSUME Types, NEW k \in Nat, NEW v, NEW w
    PROVE  InPlanOrder(Row(k, v), Row(k + 1, w))
<1>i. PICK m \in DOMAIN plan : m = at.scenario
  BY Zenon DEF Types
<1>j. PICK n \in DOMAIN plan[m].cases : n = at.case
  BY <1>i, Zenon DEF Types, Scenario
<1>1. Row(k, v).case = Case.id /\ Row(k, v).step = k /\ Row(k + 1, w).case = Case.id /\ Row(k + 1, w).step = k + 1
  BY Zenon DEF Row
<1>2. plan[m].cases[n].id = Case.id
  BY <1>i, <1>j, Zenon DEF Case, Scenario
<1>3. k < k + 1
  OBVIOUS
<1> QED
  BY <1>1, <1>2, <1>3, Zenon DEF InPlanOrder

LEMMA Joined ==
    ASSUME NEW S, NEW s \in Seq(S), NEW x \in S, NEW t \in Seq(S)
    PROVE  /\ Len(Append(s, x)) = Len(s) + 1
           /\ \A n \in 1..Len(s) : Append(s, x)[n] = s[n]
           /\ Append(s, x)[Len(s) + 1] = x
           /\ Len(Append(s, x) \o t) = Len(s) + 1 + Len(t)
           /\ \A n \in 1..Len(s) : (Append(s, x) \o t)[n] = s[n]
           /\ (Append(s, x) \o t)[Len(s) + 1] = x
           /\ \A n \in 1..Len(t) : (Append(s, x) \o t)[Len(s) + 1 + n] = t[n]
<1>1. /\ Append(s, x) \in Seq(S) /\ Len(Append(s, x)) = Len(s) + 1 /\ Len(s) \in Nat /\ Len(t) \in Nat
      /\ Append(s, x)[Len(s) + 1] = x
      /\ \A n \in 1..Len(s) : Append(s, x)[n] = s[n]
  OBVIOUS
<1>2. PICK a \in Seq(S) : a = Append(s, x)
  BY <1>1, Zenon
<1>3. /\ Len(a \o t) = Len(a) + Len(t)
      /\ \A n \in 1..(Len(a) + Len(t)) : (a \o t)[n] = IF n <= Len(a) THEN a[n] ELSE t[n - Len(a)]
  OBVIOUS
<1> HIDE <1>2
<1>4. Len(a) = Len(s) + 1 /\ a[Len(s) + 1] = x /\ \A n \in 1..Len(s) : a[n] = s[n]
  BY <1>1, <1>2, Zenon
<1>5. Len(a \o t) = Len(s) + 1 + Len(t)
  BY <1>1, <1>3, <1>4, SMTT(60)
<1>6. \A n \in 1..Len(s) : (a \o t)[n] = s[n]
  BY <1>1, <1>3, <1>4, SMTT(60)
<1>7. (a \o t)[Len(s) + 1] = x
  BY <1>1, <1>3, <1>4, SMTT(60)
<1>8. ASSUME NEW n \in 1..Len(t) PROVE (a \o t)[Len(s) + 1 + n] = t[n]
  <2>1. /\ Len(s) + 1 + n \in 1..(Len(a) + Len(t)) /\ ~(Len(s) + 1 + n <= Len(a))
        /\ Len(s) + 1 + n - Len(a) = n
    BY <1>1, <1>4
  <2> QED
    BY <1>3, <2>1
<1> QED
  BY <1>1, <1>2, <1>5, <1>6, <1>7, <1>8, Zenon

LEMMA Places ==
    ASSUME NEW len \in Nat, NEW steps \in Nat, NEW step \in Nat
    PROVE  len + 1 + (steps - (step + 1) + 1) = len + (steps - step + 1)
  OBVIOUS

\* The rows of a case that ends, one by one.
LEMMA ReportRows ==
    ASSUME Types, NEW status \in Statuses
    PROVE  /\ Len(Report(status)) = Len(results) + (Len(Case.steps) - at.step + 1)
           /\ \A n \in 1..Len(results) : Report(status)[n] = results[n]
           /\ \A n \in 1..(Len(Case.steps) - at.step + 1) :
                 \E v : Report(status)[Len(results) + n] = Row(at.step + n - 1, v)
<1>1. PICK x \in Rows : x = Row(at.step, status)
  <2>1. Row(at.step, status) \in Rows
    BY Here DEF Row, Rows
  <2> QED
    BY <2>1, Zenon
<1>3. at.step + 1 \in Nat /\ at.step + 1 \in 1..(Len(Case.steps) + 1)
  BY Here, SMTT(60)
<1>4. PICK b \in Seq(Rows) :
      /\ b = SkippedFrom(at.step + 1) /\ Len(b) = Len(Case.steps) - (at.step + 1) + 1
      /\ \A n \in 1..Len(b) : b[n] = Row((at.step + 1) + n - 1, "skipped")
  BY <1>3, SkippedRows, Zenon
<1>5. Report(status) = Append(results, x) \o b
  BY <1>1, <1>4, Zenon DEF Report
<1>6. results \in Seq(Rows)
  BY Zenon DEF Types
<1>7. /\ Len(Report(status)) = Len(results) + 1 + Len(b)
      /\ \A n \in 1..Len(results) : Report(status)[n] = results[n]
      /\ Report(status)[Len(results) + 1] = x
      /\ \A n \in 1..Len(b) : Report(status)[Len(results) + 1 + n] = b[n]
  <2>1. /\ Len(Append(results, x) \o b) = Len(results) + 1 + Len(b)
        /\ \A n \in 1..Len(results) : (Append(results, x) \o b)[n] = results[n]
        /\ (Append(results, x) \o b)[Len(results) + 1] = x
        /\ \A n \in 1..Len(b) : (Append(results, x) \o b)[Len(results) + 1 + n] = b[n]
    BY <1>6, Joined, SMTT(60)
  <2> QED
    BY <1>5, <2>1, ZenonT(60)
<1>8. at.step \in Nat /\ Len(Case.steps) \in Nat /\ Len(results) \in Nat
  <2>1. Len(results) \in Nat
    BY <1>6
  <2>2. at.step \in Nat /\ Len(Case.steps) \in Nat
    BY Here
  <2> QED
    BY <2>1, <2>2, Zenon
<1>b. Len(b) = Len(Case.steps) - (at.step + 1) + 1
  BY <1>4, Zenon
<1>9. Len(results) + 1 + Len(b) = Len(results) + (Len(Case.steps) - at.step + 1)
  <2>1. Len(results) + 1 + (Len(Case.steps) - (at.step + 1) + 1) = Len(results) + (Len(Case.steps) - at.step + 1)
    BY <1>8, Places, Zenon
  <2> QED
    BY <1>b, <2>1, Zenon
<1>10. ASSUME NEW n \in 1..(Len(Case.steps) - at.step + 1)
      PROVE  \E v : Report(status)[Len(results) + n] = Row(at.step + n - 1, v)
  <2>1. CASE n = 1
    <3>1. at.step + n - 1 = at.step
      BY <1>8, <2>1
    <3> QED
      BY <1>1, <1>7, <2>1, <3>1, Zenon
  <2>2. CASE n # 1
    <3>1. /\ n - 1 \in 1..Len(b) /\ (at.step + 1) + (n - 1) - 1 = at.step + n - 1
          /\ Len(results) + 1 + (n - 1) = Len(results) + n
      <4>1. /\ n - 1 \in 1..(Len(Case.steps) - (at.step + 1) + 1)
            /\ (at.step + 1) + (n - 1) - 1 = at.step + n - 1
            /\ Len(results) + 1 + (n - 1) = Len(results) + n
        BY <1>8, <2>2, SMTT(60)
      <4> QED
        BY <1>b, <4>1, Zenon
    <3>2. Report(status)[Len(results) + 1 + (n - 1)] = Row((at.step + 1) + (n - 1) - 1, "skipped")
      BY <1>4, <1>7, <3>1, Zenon
    <3> QED
      BY <3>1, <3>2, Zenon
  <2> QED
    BY <2>1, <2>2, Zenon
<1> QED
  BY <1>7, <1>9, <1>10, Zenon

LEMMA InOrderStep ==
    ASSUME Types, RowsInPlan, InOrder(results), [Next]_vars
    PROVE  InOrder(results)'
<1>1. plan' = plan
  BY Kinds, Zenon
<1>2. Len(results) \in Nat /\ \A n \in 1..Len(results) : results[n] \in Range(results)
  BY DEF Types, Range
<1>p. \A one, other : InPlanOrder(one, other)' <=> InPlanOrder(one, other)
  BY <1>1, SMTT(60) DEF InPlanOrder
<1>3. CASE StepPasses
  <2>1. ~Over
    BY <1>3, Zenon DEF StepPasses, Over
  <2>2. PICK row \in Rows : row = Row(at.step, "passed")
    <3>1. Row(at.step, "passed") \in Rows
      BY Here DEF Row, Rows, Statuses
    <3> QED
      BY <3>1, ZenonT(60)
  <2>3. /\ results' = Append(results, row) /\ Len(results') = Len(results) + 1
        /\ results'[Len(results) + 1] = row
        /\ \A n \in 1..Len(results) : results'[n] = results[n]
    <3>1. results' = Append(results, row) /\ results \in Seq(Rows)
      BY <1>3, <2>2, Zenon DEF StepPasses, Types
    <3>2. /\ Len(Append(results, row)) = Len(results) + 1
          /\ Append(results, row)[Len(results) + 1] = row
          /\ \A n \in 1..Len(results) : Append(results, row)[n] = results[n]
      BY <3>1, Joined, SMTT(60)
    <3> QED
      BY <3>1, <3>2, Zenon
  <2>4. \A n \in 1..Len(results) : InPlanOrder(results[n], row)
    BY <1>2, <2>1, <2>2, RowsFollow, Here, SMTT(60)
  <2>5. ASSUME NEW n \in 1..(Len(results') - 1) PROVE InPlanOrder(results'[n], results'[n + 1])
    <3>1. CASE n = Len(results)
      <4>1. results'[n] = results[n] /\ results'[n + 1] = row /\ n \in 1..Len(results)
        BY <1>2, <2>3, <2>5, <3>1, SMTT(60)
      <4> QED
        BY <2>4, <4>1, Zenon
    <3>2. CASE n # Len(results)
      <4>1. n \in 1..(Len(results) - 1) /\ results'[n] = results[n] /\ results'[n + 1] = results[n + 1]
        BY <1>2, <2>3, <2>5, <3>2, SMTT(60)
      <4> QED
        BY <4>1, Zenon DEF InOrder
    <3> QED
      BY <3>1, <3>2, Zenon
  <2> QED
    BY <1>p, <2>5, Zenon DEF InOrder
<1>4. ASSUME NEW status \in Statuses, CaseEnds(status)
      PROVE  \A n \in 1..(Len(results') - 1) : InPlanOrder(results'[n], results'[n + 1])
  <2>1. ~Over /\ results' = Report(status)
    BY <1>4, Zenon DEF CaseEnds, Over
  <2>2. /\ Len(results') = Len(results) + (Len(Case.steps) - at.step + 1)
        /\ \A n \in 1..Len(results) : results'[n] = results[n]
        /\ \A n \in 1..(Len(Case.steps) - at.step + 1) :
                 \E v : results'[Len(results) + n] = Row(at.step + n - 1, v)
    BY <2>1, ReportRows, Zenon
  <2>3. SUFFICES ASSUME NEW n \in 1..(Len(results') - 1) PROVE InPlanOrder(results'[n], results'[n + 1])
    BY Zenon
  <2>4. at.step \in Nat /\ at.step >= 1 /\ at.step <= Len(Case.steps) /\ Len(Case.steps) \in Nat
    BY Here
  <2>5. CASE n < Len(results)
    <3>1. n \in 1..(Len(results) - 1) /\ results'[n] = results[n] /\ results'[n + 1] = results[n + 1]
      BY <1>2, <2>2, <2>3, <2>4, <2>5, SMTT(60)
    <3> QED
      BY <3>1, Zenon DEF InOrder
  <2>6. CASE n = Len(results)
    <3>1. results'[n] \in Range(results)
      BY <1>2, <2>2, <2>3, <2>6, SMTT(60)
    <3>2. PICK v : results'[Len(results) + 1] = Row(at.step + 1 - 1, v)
      BY <2>2, <2>4, SMTT(60)
    <3>3. results'[n + 1] = Row(at.step, v)
      BY <2>4, <2>6, <3>2
    <3> QED
      BY <2>1, <2>4, <3>1, <3>3, RowsFollow
  <2>7. CASE n > Len(results)
    <3>1. PICK m \in 1..(Len(Case.steps) - at.step) : n = Len(results) + m
      <4>1. n - Len(results) \in 1..(Len(Case.steps) - at.step) /\ n = Len(results) + (n - Len(results))
        BY <1>2, <2>2, <2>3, <2>4, <2>7, SMTT(60)
      <4> QED
        BY <4>1, Zenon
    <3>2. m \in 1..(Len(Case.steps) - at.step + 1) /\ m + 1 \in 1..(Len(Case.steps) - at.step + 1)
      BY <2>4, SMTT(60)
    <3>3. PICK v : results'[Len(results) + m] = Row(at.step + m - 1, v)
      BY <2>2, <3>2, Zenon
    <3>4. PICK w : results'[Len(results) + (m + 1)] = Row(at.step + (m + 1) - 1, w)
      BY <2>2, <3>2, Zenon
    <3>5. at.step + m - 1 \in Nat /\ at.step + (m + 1) - 1 = (at.step + m - 1) + 1 /\ Len(results) + (m + 1) = n + 1
      BY <1>2, <2>4, <3>1, SMTT(60)
    <3> QED
      BY <3>1, <3>3, <3>4, <3>5, StepsFollow, Zenon
  <2> QED
    BY <1>2, <2>3, <2>5, <2>6, <2>7, SMTT(60)
<1>5. ASSUME NEW status \in Statuses, CaseEnds(status) PROVE InOrder(results)'
  <2>1. \A n \in 1..(Len(results') - 1) : InPlanOrder(results'[n], results'[n + 1])
    BY <1>4, <1>5, Zenon
  <2> QED
    BY <1>p, <2>1, Zenon DEF InOrder
<1>6. CASE Stays \/ ScenarioEnds
  <2>1. results' = results
    BY <1>6, Zenon DEF Stays, ScenarioEnds
  <2> QED
    BY <1>p, <2>1, Zenon DEF InOrder
<1> QED
  BY <1>3, <1>5, <1>6, Kinds, Zenon

\* The invariant of the report.
RInv == Types /\ ReportInv /\ InOrder(results)

LEMMA RInvInit == Init => RInv
<1>1. SUFFICES ASSUME Init PROVE RInv
  BY Zenon
<1>2. Types
  BY <1>1, TypesInit, Zenon
<1>3. results = <<>> /\ pc = "start" /\ at.scenario = 1 /\ at.case = 1 /\ at.step = 1
  BY <1>1, Zenon DEF Init
<1>4. \A row : row \notin Range(results)
  BY <1>3 DEF Range
<1>5. ~Over
  BY <1>3, Zenon DEF Over
<1>6. ASSUME NEW i \in DOMAIN plan, NEW j \in DOMAIN plan[i].cases
      PROVE  ~CaseOver(i, j) /\ \A k \in DOMAIN plan[i].cases[j].steps : ~Reached(i, j, k)
  <2>1. DOMAIN plan = 1..Len(plan) /\ DOMAIN plan[i].cases = 1..Len(plan[i].cases)
        /\ DOMAIN plan[i].cases[j].steps = 1..Len(plan[i].cases[j].steps)
    BY <1>2, PlanFacts, ZenonT(60) DEF IsList
  <2>2. i >= 1 /\ j >= 1 /\ i \in Int /\ j \in Int
        /\ \A k \in DOMAIN plan[i].cases[j].steps : k >= 1 /\ k \in Int
    BY <2>1
  <2> QED
    BY <1>3, <1>5, <2>2, SMTT(60) DEF Reached, CaseOver
<1>7. RowsInPlan /\ RowsDue
  BY <1>4, Zenon DEF RowsInPlan, RowsDue
<1>8. StepsInReport /\ StatusesTell
  BY <1>6, Zenon DEF StepsInReport, StatusesTell
<1>9. SoFarPassed
  BY <1>3, Zenon DEF SoFarPassed
<1>10. InOrder(results)
  BY <1>3 DEF InOrder
<1> QED
  BY <1>2, <1>7, <1>8, <1>9, <1>10, ZenonT(60) DEF RInv, ReportInv

LEMMA RInvStep == RInv /\ [Next]_vars => RInv'
  BY TypesStep, RowsInPlanStep, StepsInReportStep, StatusesTellStep, SoFarPassedStep, RowsDueStep, InOrderStep, ZenonT(60)
  DEF RInv, ReportInv

LEMMA RInvHolds == Spec => []RInv
  BY RInvInit, RInvStep, PTL DEF Spec

LEMMA Reported ==
    ASSUME NEW y
    PROVE  y \in ReportedSteps <=>
              \E i \in 1..at.scenario : \E j \in DOMAIN plan[i].cases : \E k \in DOMAIN plan[i].cases[j].steps :
                  y = <<plan[i].cases[j].id, k>>
<1> DEFINE inCase(i, j) == {<<plan[i].cases[j].id, k>> : k \in DOMAIN plan[i].cases[j].steps}
           inScenario(i) == UNION {inCase(i, j) : j \in DOMAIN plan[i].cases}
<1>1. \A i, j : y \in inCase(i, j) <=> \E k \in DOMAIN plan[i].cases[j].steps : y = <<plan[i].cases[j].id, k>>
  BY Zenon
<1>2. y \in ReportedSteps <=> y \in UNION {inScenario(i) : i \in 1..at.scenario}
  BY Zenon DEF ReportedSteps
<1> HIDE DEF inCase
<1>3. \A i : y \in inScenario(i) <=> \E j \in DOMAIN plan[i].cases : y \in inCase(i, j)
  OBVIOUS
<1> HIDE DEF inScenario
<1>4. y \in UNION {inScenario(i) : i \in 1..at.scenario} <=> \E i \in 1..at.scenario : y \in inScenario(i)
  BY SMTT(60)
<1> QED
  BY <1>1, <1>2, <1>3, <1>4, Zenon

LEMMA ReportIsComplete ==
    ASSUME RInv, Over
    PROVE  \A y : y \in {<<row.case, row.step>> : row \in Range(results)} <=> y \in ReportedSteps
<1> USE DEF RInv, ReportInv
<1>1. DOMAIN plan = 1..Len(plan) /\ at.scenario \in 1..Len(plan) /\ at.case = Len(Scenario.cases) /\ Len(plan) \in Nat
  BY PlanFacts, Here, ZenonT(60) DEF IsList, Types, Over
<1>2. ASSUME NEW row \in Range(results) PROVE <<row.case, row.step>> \in ReportedSteps
  <2>1. PICK i \in DOMAIN plan : \E j \in DOMAIN plan[i].cases :
           /\ plan[i].cases[j].id = row.case /\ row.step \in DOMAIN plan[i].cases[j].steps
           /\ Reached(i, j, row.step)
    BY Zenon DEF RowsInPlan
  <2>2. PICK j \in DOMAIN plan[i].cases :
           /\ plan[i].cases[j].id = row.case /\ row.step \in DOMAIN plan[i].cases[j].steps
           /\ Reached(i, j, row.step)
    BY <2>1, ZenonT(60)
  <2>3. i \in 1..at.scenario
    BY <1>1, <2>2, SMTT(60) DEF Reached, CaseOver
  <2> QED
    BY <2>2, <2>3, Reported
<1>3. ASSUME NEW i \in 1..at.scenario, NEW j \in DOMAIN plan[i].cases, NEW k \in DOMAIN plan[i].cases[j].steps
      PROVE  \E row \in Range(results) : row.case = plan[i].cases[j].id /\ row.step = k
  <2>1. i \in DOMAIN plan /\ i \in Nat /\ at.scenario \in Nat
    BY <1>1
  <2>2. j \in 1..Len(plan[i].cases) /\ Len(plan[i].cases) \in Nat
    BY <2>1, PlanFacts, ZenonT(60) DEF IsList
  <2>3. i = at.scenario => at.case = Len(plan[i].cases)
    BY <1>1, Zenon DEF Scenario
  <2>4. CaseOver(i, j)
    BY <2>1, <2>2, <2>3, SMTT(60) DEF CaseOver
  <2> QED
    BY <2>1, <2>4, Zenon DEF StepsInReport, Reached
<1> QED
  BY <1>2, <1>3, Reported

(***************************************************************************)
(* _run_scenarios and _run_case report every step of the scenarios that    *)
(* are over once and in the order of the plan, and a step was tried        *)
(* exactly when the prerequisite cases and the earlier steps of its case   *)
(* passed, whatever the server answers.                                    *)
(***************************************************************************)
THEOREM DependentsAreSkippedHolds == Spec => []DependentsAreSkipped
<1>1. RInv => DependentsAreSkipped
  <2>1. SUFFICES ASSUME RInv, Over PROVE DependentsAreSkipped
    BY Zenon DEF DependentsAreSkipped, Over
  <2>2. \A i \in 1..(Len(results) - 1) : InPlanOrder(results[i], results[i + 1])
    BY <2>1, Zenon DEF RInv, InOrder
  <2>3. {<<row.case, row.step>> : row \in Range(results)} = ReportedSteps
    BY <2>1, ReportIsComplete, Zenon
  <2>4. pc = "done" => at.scenario = Len(plan)
    BY <2>1, Zenon DEF RInv, Types
  <2>5. ASSUME NEW row \in Range(results), NEW i \in DOMAIN plan, NEW j \in DOMAIN plan[i].cases,
               plan[i].cases[j].id = row.case
        PROVE  TriedWhenDue(row, plan[i].cases[j])
    <3>1. row.status # "skipped" <=> NeedsPassed(i, j) /\ \A k \in 1..(row.step - 1) : Passed(row.case, k)
      BY <2>1, <2>5, Zenon DEF RInv, ReportInv, RowsDue
    <3> QED
      BY <2>5, <3>1, Zenon DEF TriedWhenDue, NeedsPassed
  <2> QED
    BY <2>2, <2>3, <2>4, <2>5, Zenon DEF DependentsAreSkipped
<1> QED
  BY <1>1, RInvHolds, PTL

=============================================================================
