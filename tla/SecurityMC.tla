----------------------------- MODULE SecurityMC -----------------------------
(***************************************************************************)
(* The two jobs of the security workflow, for TLC.  A behaviour follows    *)
(* one, and the variables of the other are idle:                           *)
(*   gate     the reports of one image are judged (VulnerabilityGate)      *)
(*   issues   the issues follow the scans (VulnerabilityIssues)            *)
(***************************************************************************)
EXTENDS VulnerabilityGate

CONSTANTS Targets, Keys, Spaced, ListLimit, MaxIssues, MaxChanges, MaxByHand, MaxFaults

ASSUME ListLimitIsANumber == ListLimit \in Nat

VARIABLES job, suffers, issues, reports, left, todo, changes, by_hand, faults

I == INSTANCE VulnerabilityIssues

-----------------------------------------------------------------------------
(* Small reports.  C and G are two identifiers of one advisory, S is the   *)
(* number that the second scanner gives it.                                *)

P == <<"p", "plain">>
POther == <<"p", "other">>

AtMostOne(entries) == {<<>>} \union {<<e>> : e \in entries}

ScoutEntries(severities, versions) ==
    [defect : {FALSE}, id : {"C"}, name : {P}, versions : versions, severity : severities,
     fixed : BOOLEAN, application : BOOLEAN]
SnykEntries(severities, names, idsets) ==
    [defect : {FALSE}, ids : idsets, name : names, version : {"1"}, severity : severities,
     fixed : BOOLEAN, application : BOOLEAN]
PipEntries(idsets) ==
    [defect : BOOLEAN, ids : idsets, name : {P}, version : {"1"}, fixed : BOOLEAN]

NoVex == [present |-> FALSE, trusted |-> FALSE, statements |-> {}]
Vex(trusted, status, version) ==
    [present |-> TRUE, trusted |-> trusted,
     statements |-> {[ids |-> {"C"}, products |-> {<<"p", version>>}, status |-> status]}]

\* Every way in which three reports can link their identifiers.
MergeInputs ==
    [scout : AtMostOne(ScoutEntries({"low", "HIGH?"}, {{"1"}, {"1", "2"}})),
     snyk : AtMostOne(SnykEntries({"medium", "none"}, {P, POther}, {{"S"}, {"S", "C"}})),
     pip : AtMostOne(PipEntries({{"G"}, {"G", "C"}, {"G", "S"}, {"G", "C", "S"}})),
     vex : {NoVex, Vex(TRUE, "not_affected", "1")},
     exceptions : {<<>>}]

Entry(id, name, reviewed, created, expires) ==
    [defect |-> FALSE, id |-> id, name |-> name, reviewed |-> reviewed, created |-> created, expires |-> expires]

OneEntry == {Entry("C", n, r, c, x) : n \in {P, POther}, r \in BOOLEAN, c \in {-1, 0, 1}, x \in 0..3}
TwoEntries == {<<Entry("C", P, TRUE, 0, 2), Entry(id, n, TRUE, 0, 2)>> : id \in {"C", "G"}, n \in {P, POther}}

ExceptionInputs ==
    [scout : AtMostOne(ScoutEntries({"low", "high"}, {{"1"}})),
     snyk : AtMostOne(SnykEntries({"high"}, {POther}, {{"S", "C", "G"}})),
     pip : {<<>>, <<[defect |-> TRUE, ids |-> {"G"}, name |-> P, version |-> "1", fixed |-> FALSE]>>},
     vex : {NoVex, Vex(TRUE, "fixed", "1"), Vex(TRUE, "affected", "1"), Vex(TRUE, "fixed", ""), Vex(FALSE, "fixed", "1")},
     exceptions : {<<>>} \union {<<e>> : e \in OneEntry} \union TwoEntries]

MCInputs == MergeInputs \union ExceptionInputs

-----------------------------------------------------------------------------
(* The two jobs.                                                           *)

Idle == "idle"

gateVars == <<input, today, raw, findings, waiting, seen, problems, exit>>
issueVars == <<suffers, issues, reports, left, todo, changes, by_hand, faults>>

GateIsIdle ==
    /\ input = Idle /\ today = Idle /\ raw = Idle /\ findings = Idle
    /\ waiting = Idle /\ seen = Idle /\ problems = Idle /\ exit = NoExit

IssuesAreIdle ==
    /\ suffers = Idle /\ issues = Idle /\ reports = Idle /\ left = Idle
    /\ todo = Idle /\ changes = Idle /\ by_hand = Idle /\ faults = Idle

MCInit ==
    \/ job = "gate" /\ Init /\ IssuesAreIdle
    \/ job = "issues" /\ I!Init /\ GateIsIdle

MCNext ==
    \/ job = "gate" /\ Next /\ UNCHANGED <<job, issueVars>>
    \/ job = "issues" /\ I!Next /\ UNCHANGED <<job, gateVars>>

MCWork == job = "issues" /\ I!Work /\ UNCHANGED <<job, gateVars>>

\* The fairness of VulnerabilityIssues: the schedule starts the workflow again
\* and its steps are taken.
MCSpec == MCInit /\ [][MCNext]_<<job, pc, gateVars, issueVars>> /\ WF_<<job, pc, gateVars, issueVars>>(MCWork)

-----------------------------------------------------------------------------
(* Properties.  Those of the gate are VulnerabilityGate's, which has not   *)
(* come to anything while it is idle.                                      *)

\* Once nothing changes or fails any more, the open issues are exactly the
\* problems there are, with their targets (security-rescan.yml, plan_actions): a
\* run that was cut short is made good by the next one.  A problem whose key has
\* a space gets one more issue a day meanwhile; the others are kept right until
\* there are more issues than list_issues reads.
IssuesSettle == <>[](job = "issues" => I!Settled)
=============================================================================
