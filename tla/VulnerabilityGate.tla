-------------------------- MODULE VulnerabilityGate --------------------------
(***************************************************************************)
(* The vulnerability gate (scripts/vulnerability_gate.py): three scanner   *)
(* reports are read and merged, Docker's OpenVEX statements and the        *)
(* reviewed exceptions are applied, and the gate passes or blocks.  It is  *)
(* run again on later days with the same files.                            *)
(*                                                                         *)
(* A name is <<package, spelling>>: scanners spell a package differently   *)
(* and normalise_package takes the spelling away.  Days are numbers.       *)
(***************************************************************************)
EXTENDS Integers, FiniteSets, Sequences

CONSTANTS Inputs,               \* the files: [scout, snyk, pip, vex, exceptions]
          Days,                 \* the last day on which the gate is run
          MAX_EXCEPTION_DAYS

\* An observation has an identifier and an exception has dates.
ASSUME InputAssumption ==
    \A i \in Inputs :
        /\ \A k \in DOMAIN i.snyk : i.snyk[k].ids # {}
        /\ \A k \in DOMAIN i.pip : i.pip[k].ids # {}
        /\ i.exceptions \in Seq({i.exceptions[k] : k \in DOMAIN i.exceptions})
        /\ \A k \in DOMAIN i.exceptions :
               i.exceptions[k].created \in Int /\ i.exceptions[k].expires \in Int /\ i.exceptions[k].reviewed \in BOOLEAN

VARIABLES pc, input, today,
          raw,          \* RawFindings not yet merged
          findings,     \* merged Findings
          waiting,      \* exceptions not yet applied
          seen,         \* keys of the exceptions applied so far
          problems,     \* ExceptionProblems [id, name, message]
          exit          \* 0 passed, 1 blocked, 2 unreadable input; 9 none yet

vars == <<pc, input, today, raw, findings, waiting, seen, problems, exit>>

NoExit == 9
SEVERITY_ORDER == [critical |-> 4, high |-> 3, unknown |-> 3, medium |-> 2, low |-> 1]
BLOCKING_UNFIXED == {"critical", "high", "unknown"}

normalise_package(name) == name[1]

normalise_severity(value) == IF value \in {"critical", "high", "medium", "low"} THEN value ELSE "unknown"

\* A scanner without a rating leaves it to the others.
max_severity(a, b) ==
    CASE a = "unknown" -> b
      [] a # "unknown" /\ b = "unknown" -> a
      [] OTHER -> IF SEVERITY_ORDER[a] >= SEVERITY_ORDER[b] THEN a ELSE b

\* What comparing the ratings one by one comes to, in any order.
highest_severity(ratings) == CHOOSE s \in ratings : \A t \in ratings : max_severity(s, t) = s

Init ==
    /\ pc = "parse" /\ input \in Inputs /\ today = 0
    /\ raw = {} /\ findings = {} /\ waiting = <<>> /\ seen = {} /\ problems = {} /\ exit = NoExit

-----------------------------------------------------------------------------
(* Reading the reports.  A report is a sequence of entries; an entry with  *)
(* a defect (no rule, no package URL, a failed project, a skipped          *)
(* dependency, a field of the wrong type) makes the report unreadable.     *)

RawFinding(source, ids, name, version, severity, fixed, application) ==
    [source |-> source, ids |-> ids, package |-> normalise_package(name), version |-> version,
     severity |-> normalise_severity(severity), fixed |-> fixed, application |-> application]

Readable(report) == \A i \in DOMAIN report : ~report[i].defect

\* One finding for each package URL of the rule.
parse_scout_sarif(report) ==
    UNION {{RawFinding("docker-scout", {report[i].id}, report[i].name, v, report[i].severity, report[i].fixed,
                       report[i].application) : v \in report[i].versions} : i \in DOMAIN report}

parse_snyk_json(report) ==
    {RawFinding("snyk", report[i].ids, report[i].name, report[i].version, report[i].severity, report[i].fixed,
                report[i].application) : i \in DOMAIN report}

\* pip-audit rates nothing and reads the application's lock file.
parse_pip_audit_json(report) ==
    {RawFinding("pip-audit", report[i].ids, report[i].name, report[i].version, "", report[i].fixed, TRUE)
        : i \in DOMAIN report}

\* Only these statuses suppress, only of a product with its version.
parse_openvex(vex) ==
    {s \in {[ids |-> t.ids, products |-> {p \in t.products : p[2] # ""}] : t \in
               {u \in vex.statements : u.status \in {"not_affected", "fixed"}}} : s.ids # {} /\ s.products # {}}

\* An entry with an unknown field, an empty one or a bad date is a defect too.
load_exceptions(entries) == Readable(entries)

RawFindings == parse_scout_sarif(input.scout) \union parse_snyk_json(input.snyk)
                   \union parse_pip_audit_json(input.pip)

Parse ==
    /\ pc = "parse"
    /\ IF /\ Readable(input.scout) /\ Readable(input.snyk) /\ Readable(input.pip)
          /\ input.vex.present => input.vex.trusted
          /\ load_exceptions(input.exceptions)
       THEN pc' = "merge" /\ raw' = RawFindings /\ UNCHANGED exit
       ELSE pc' = "end" /\ exit' = 2 /\ UNCHANGED raw
    /\ UNCHANGED <<input, today, findings, waiting, seen, problems>>

-----------------------------------------------------------------------------
(* Merging: observations of one package version that share an identifier.  *)

SourceOrder == [s \in {"docker-scout", "snyk", "pip-audit"} |->
                    CASE s = "docker-scout" -> 1 [] s = "snyk" -> 2 [] OTHER -> 3]

Same(f, r) == f.package = r.package /\ f.version = r.version /\ f.ids \intersect r.ids # {}

\* The reports are read one after the other; the order in a report is free.
NextRaw(r) == r \in raw /\ \A q \in raw : SourceOrder[r.source] <= SourceOrder[q.source]

Combined(fs, ids) ==
    LET one == CHOOSE f \in fs : TRUE
    IN  [ids |-> ids, package |-> one.package, version |-> one.version,
         severity |-> highest_severity({f.severity : f \in fs}),
         fixed |-> \E f \in fs : f.fixed,
         application |-> \E f \in fs : f.application,
         status |-> "open"]

Merge1stMatch(r) ==
    LET matches == {f \in findings : Same(f, r)}
        first == IF matches = {} THEN {} ELSE {CHOOSE f \in matches : TRUE}
    IN  (findings \ first) \union {Combined(first \union {r}, r.ids \union UNION {f.ids : f \in first})}

\* All findings that share an identifier with the new one become one.
MergeRaw(r) ==
    LET matches == {f \in findings : Same(f, r)}
    IN  (findings \ matches) \union {Combined(matches \union {r}, r.ids \union UNION {f.ids : f \in matches})}

merge_findings ==
    /\ pc = "merge"
    /\ IF raw = {}
       THEN pc' = "vex" /\ UNCHANGED <<raw, findings>>
       ELSE \E r \in raw : NextRaw(r) /\ findings' = MergeRaw(r) /\ raw' = raw \ {r} /\ UNCHANGED pc
    /\ UNCHANGED <<input, today, waiting, seen, problems, exit>>

-----------------------------------------------------------------------------
(* OpenVEX and exceptions.                                                 *)

CoveredAnywhere(f, statements) ==
    \E s \in statements : f.ids \intersect s.ids # {} /\ <<f.package, f.version>> \in s.products

\* Never a finding of the application.
Covered(f, statements) ==
    /\ ~f.application
    /\ \E s \in statements : f.ids \intersect s.ids # {} /\ <<f.package, f.version>> \in s.products

apply_vex ==
    /\ pc = "vex"
    /\ findings' = IF ~input.vex.present THEN findings
                   ELSE {[f EXCEPT !.status = IF Covered(f, parse_openvex(input.vex)) THEN "vex" ELSE @]
                            : f \in findings}
    /\ pc' = "except" /\ waiting' = input.exceptions
    /\ UNCHANGED <<input, today, raw, seen, problems, exit>>

\* validate_exception: reviewed stands for two handles, owner and approver,
\* that are well formed and differ.
Valid(x) ==
    /\ x.reviewed /\ x.created <= today /\ x.created < x.expires
    /\ x.expires - x.created <= MAX_EXCEPTION_DAYS
    /\ x.expires >= today

Matches(x) == {f \in findings : x.id \in f.ids /\ normalise_package(x.name) = f.package}

Problem(x, message) == [id |-> x.id, name |-> x.name, message |-> message]

\* The findings an exception accepts: none when a fix exists for one of them.
Accepted(x) ==
    {f \in Matches(x) : /\ f.status = "open" /\ Valid(x)
                        /\ \A g \in Matches(x) : g.status = "open" => ~g.fixed}

\* The problems reported for an entry that is not a duplicate.
EntryProblems(x) ==
    LET open == {f \in Matches(x) : f.status = "open"}
    IN  (IF Valid(x) THEN {} ELSE {Problem(x, "invalid")})
            \union (CASE open = {} /\ Matches(x) # {} -> {Problem(x, "stale: covered by OpenVEX")}
                      [] Matches(x) = {} -> {Problem(x, "stale: no longer found")}
                      [] OTHER -> IF \E f \in open : f.fixed THEN {Problem(x, "fix available")} ELSE {})

apply_exceptions ==
    /\ pc = "except"
    /\ IF waiting = <<>>
       THEN pc' = "decide" /\ UNCHANGED <<waiting, seen, problems, findings>>
       ELSE LET x == Head(waiting)
                key == <<x.id, x.name>>
            IN  /\ waiting' = Tail(waiting) /\ seen' = seen \union {key} /\ UNCHANGED pc
                /\ IF key \in seen
                   THEN problems' = problems \union {Problem(x, "duplicate")} /\ UNCHANGED findings
                   ELSE /\ problems' = problems \union EntryProblems(x)
                        /\ findings' = {[f EXCEPT !.status = IF f \in Accepted(x) THEN "accepted" ELSE @]
                                            : f \in findings}
    /\ UNCHANGED <<input, today, raw, exit>>

Blocking(f) == f.status = "open" /\ (f.fixed \/ f.severity \in BLOCKING_UNFIXED)

decide ==
    /\ pc = "decide"
    /\ exit' = IF problems = {} /\ \A f \in findings : ~Blocking(f) THEN 0 ELSE 1
    /\ pc' = "end"
    /\ UNCHANGED <<input, today, raw, findings, waiting, seen, problems>>

\* The same image is scanned again on a later day.
NextDay ==
    /\ pc = "end" /\ today < Days
    /\ today' = today + 1 /\ pc' = "parse"
    /\ raw' = {} /\ findings' = {} /\ waiting' = <<>> /\ seen' = {} /\ problems' = {} /\ exit' = NoExit
    /\ UNCHANGED input

Next == Parse \/ merge_findings \/ apply_vex \/ apply_exceptions \/ decide \/ NextDay

Spec == Init /\ [][Next]_vars

-----------------------------------------------------------------------------
(* Properties.                                                             *)

\* "Two observations merge when they share the package version and at least
\* one identifier, transitively": whatever order the reports list them in, the
\* findings are the connected groups of the observations, with every
\* identifier, the highest rating anyone gave, and a fix or an application
\* path that any of them names (merge_findings, _max_severity).
FindingsAreTheGroups ==
    pc = "vex" =>
        LET group(f) == {r \in RawFindings : Same(f, r)}
            rated(f) == {r.severity : r \in group(f)} \ {"unknown"}
        IN  /\ \A r \in RawFindings : Cardinality({f \in findings : Same(f, r)}) = 1
            /\ \A f \in findings :
                   /\ group(f) # {} /\ f.ids = UNION {r.ids : r \in group(f)}
                   /\ \A part \in (SUBSET group(f)) \ {{}, group(f)} :
                          \E a \in part, b \in group(f) \ part : Same(a, b)
                   /\ f.fixed = \E r \in group(f) : r.fixed
                   /\ f.application = \E r \in group(f) : r.application
                   /\ IF rated(f) = {} THEN f.severity = "unknown"
                      ELSE /\ f.severity \in rated(f)
                           /\ \A s \in rated(f) : SEVERITY_ORDER[s] <= SEVERITY_ORDER[f.severity]

\* "Scanner input problems ... fail closed", "It never applies to application
\* packages": when the gate passes, every report could be read, no observation
\* of the application has a fix, and one rated high that has none is in a group
\* an exception of the file names, reviewed and in force that day.
PassedIsExplained ==
    exit = 0 =>
        /\ Readable(input.scout) /\ Readable(input.snyk) /\ Readable(input.pip)
        /\ \A r \in RawFindings :
               r.application =>
                   /\ ~r.fixed
                   /\ r.severity \in {"critical", "high"} =>
                          \E i \in DOMAIN input.exceptions :
                              LET x == input.exceptions[i]
                              IN  /\ normalise_package(x.name) = r.package
                                  /\ x.reviewed /\ x.created <= today /\ today <= x.expires
                                  /\ \E f \in findings : Same(f, r) /\ x.id \in f.ids

=============================================================================
