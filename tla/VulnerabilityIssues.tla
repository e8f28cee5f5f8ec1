------------------------- MODULE VulnerabilityIssues -------------------------
(***************************************************************************)
(* The daily re-scan (security-rescan.yml) and the synchronisation of      *)
(* GitHub issues with its reports (scripts/vulnerability_issues.py).       *)
(*                                                                         *)
(* What a target suffers from is the set of its problem keys: a blocking   *)
(* finding or a problem of the exceptions file (VulnerabilityGate).  It    *)
(* changes between scans.  A scan of a target may fail, a gh call may      *)
(* fail, and people close and reopen issues by hand, also while the        *)
(* synchronisation runs.  Its concurrency group runs one at a time.        *)
(*                                                                         *)
(* An issue carries its key in a marker, which is read back up to the next *)
(* space: a key with a space in it, which an entry of the exceptions file  *)
(* can give, is in no issue that is read.                                  *)
(***************************************************************************)
EXTENDS Naturals, FiniteSets, Sequences

CONSTANTS Targets,      \* branches and published images
          Keys,         \* vuln:<id>:<package>, exception:<id>:<package>
          Spaced,       \* those with a space, which _KEY_MARKER does not match
          ListLimit,    \* how many issues list_issues reads (1000)
          MaxIssues,    \* with so many issues no further run is looked at
          MaxChanges,   \* how often a target's problems change
          MaxByHand,    \* how often people close or reopen an issue
          MaxFaults     \* how many scans and gh calls fail

VARIABLES suffers,    \* target -> its problem keys
          issues,     \* issues by number [key, open, rows]; rows are targets
          pc,         \* "idle", "scan", "plan", "apply"
          reports,    \* target -> keys; only of the targets scanned
          left,       \* targets still to scan
          todo,       \* planned actions [kind, key, number, rows]
          changes, by_hand, faults

vars == <<suffers, issues, pc, reports, left, todo, changes, by_hand, faults>>

Numbers == DOMAIN issues

Init ==
    /\ suffers = [t \in Targets |-> {}]
    /\ issues = <<>> /\ pc = "idle" /\ reports = <<>> /\ left = {} /\ todo = {}
    /\ changes = 0 /\ by_hand = 0 /\ faults = 0

-----------------------------------------------------------------------------
(* The world.                                                              *)

\* A disclosure, an upgrade, an exception that expires.
Changed(t, k) ==
    /\ changes < MaxChanges /\ changes' = changes + 1
    /\ suffers' = [suffers EXCEPT ![t] = IF k \in @ THEN @ \ {k} ELSE @ \union {k}]
    /\ UNCHANGED <<issues, pc, reports, left, todo, by_hand, faults>>

ClosedOrReopenedByHand(n) ==
    /\ by_hand < MaxByHand /\ by_hand' = by_hand + 1
    /\ issues' = [issues EXCEPT ![n].open = ~@]
    /\ UNCHANGED <<suffers, pc, reports, left, todo, changes, faults>>

-----------------------------------------------------------------------------
(* The workflow.                                                           *)

Start ==
    /\ pc = "idle" /\ Len(issues) < MaxIssues
    /\ pc' = "scan" /\ left' = Targets /\ reports' = <<>>
    /\ UNCHANGED <<suffers, issues, todo, changes, by_hand, faults>>

Scanned(t) ==
    /\ pc = "scan" /\ t \in left
    /\ reports' = [u \in DOMAIN reports \union {t} |-> IF u = t THEN suffers[t] ELSE reports[u]]
    /\ left' = left \ {t}
    /\ UNCHANGED <<suffers, issues, pc, todo, changes, by_hand, faults>>

ScanFailed(t) ==
    /\ pc = "scan" /\ t \in left
    /\ faults < MaxFaults /\ faults' = faults + 1
    /\ left' = left \ {t}
    /\ UNCHANGED <<suffers, issues, pc, reports, todo, changes, by_hand>>

\* Without any report the job ends here.
ScansDone ==
    /\ pc = "scan" /\ left = {}
    /\ pc' = IF DOMAIN reports = {} THEN "idle" ELSE "plan"
    /\ UNCHANGED <<suffers, issues, reports, left, todo, changes, by_hand, faults>>

complete == DOMAIN reports = Targets

\* Key -> the rows of its table.
collect_problems ==
    [k \in UNION {reports[t] : t \in DOMAIN reports} |-> {t \in DOMAIN reports : k \in reports[t]}]

\* The issues read: gh lists the newest first, up to the limit.
Listed == {n \in Numbers : Len(issues) < n + ListLimit}

\* The issue that stands for a key: the newest open one, else the oldest.
ByKey(k) ==
    LET all == {n \in Listed : issues[n].key = k}
        open == {n \in all : issues[n].open}
    IN  IF open # {} THEN CHOOSE n \in open : \A m \in open : m <= n
        ELSE CHOOSE n \in all : \A m \in all : n <= m

Known == {issues[n].key : n \in Listed} \ Spaced

Action(kind, k, n, rows) == [kind |-> kind, key |-> k, number |-> n, rows |-> rows]

Creates(problems, known) == {Action("create", k, 0, problems[k]) : k \in DOMAIN problems \ known}

Updates(problems) ==
    LET known == DOMAIN problems \intersect Known
    IN  {Action("reopen", k, ByKey(k), {}) : k \in {l \in known : ~issues[ByKey(l)].open}}
            \union {Action("edit", k, ByKey(k), problems[k]) : k \in {l \in known : issues[ByKey(l)].rows # problems[l]}}

Closes(problems) ==
    {Action("close", k, ByKey(k), {}) : k \in {l \in Known \ DOMAIN problems : issues[ByKey(l)].open}}

plan_actions_no_reopen(problems) ==
    Creates(problems, Known) \union {a \in Updates(problems) : a.kind = "edit"}
        \union (IF complete THEN Closes(problems) ELSE {})

plan_actions(problems) ==
    Creates(problems, Known) \union Updates(problems) \union (IF complete THEN Closes(problems) ELSE {})

\* list_issues, then the plan; the list is not read again.
Plan ==
    /\ pc = "plan"
    /\ todo' = plan_actions(collect_problems)
    /\ pc' = "apply"
    /\ UNCHANGED <<suffers, issues, reports, left, changes, by_hand, faults>>

\* Problems first, then the closes; a reopen comes before the edit of its
\* issue.  The keys of the problems are taken in any order.
First(a) ==
    /\ a \in todo
    /\ a.kind = "close" => \A b \in todo : b.kind = "close"
    /\ a.kind = "edit" => ~\E b \in todo : b.kind = "reopen" /\ b.key = a.key

After(a) ==
    CASE a.kind = "create" -> Append(issues, [key |-> a.key, open |-> TRUE, rows |-> a.rows])
      [] a.kind = "reopen" -> [issues EXCEPT ![a.number].open = TRUE]
      [] a.kind = "edit" -> [issues EXCEPT ![a.number].rows = a.rows]
      [] OTHER -> [issues EXCEPT ![a.number].open = FALSE]

Apply(a) ==
    /\ pc = "apply" /\ First(a)
    /\ issues' = After(a) /\ todo' = todo \ {a}
    /\ UNCHANGED <<suffers, pc, reports, left, changes, by_hand, faults>>

\* gh fails: the rest of the plan is lost.  The call itself may have arrived.
ApplyFails(a, arrived) ==
    /\ pc = "apply" /\ First(a)
    /\ faults < MaxFaults /\ faults' = faults + 1
    /\ issues' = IF arrived THEN After(a) ELSE issues
    /\ todo' = {} /\ pc' = "idle"
    /\ UNCHANGED <<suffers, reports, left, changes, by_hand>>

Done ==
    /\ pc = "apply" /\ todo = {}
    /\ pc' = "idle"
    /\ UNCHANGED <<suffers, issues, reports, left, todo, changes, by_hand, faults>>

Work == Start \/ (\E t \in Targets : Scanned(t)) \/ ScansDone \/ Plan \/ (\E a \in todo : Apply(a)) \/ Done

Next ==
    \/ \E t \in Targets, k \in Keys : Changed(t, k)
    \/ \E n \in Numbers : ClosedOrReopenedByHand(n)
    \/ Work
    \/ \E t \in Targets : ScanFailed(t)
    \/ \E a \in todo, arrived \in BOOLEAN : ApplyFails(a, arrived)

\* The schedule starts the workflow every day and its steps are taken.
Spec == Init /\ [][Next]_vars /\ WF_vars(Work)

-----------------------------------------------------------------------------
(* Properties.                                                             *)

Kinds == {"create", "reopen", "edit", "close"}

\* Every variable has its type.
TypeOK ==
    /\ suffers \in [Targets -> SUBSET Keys]
    /\ issues \in Seq([key : Keys, open : BOOLEAN, rows : SUBSET Targets])
    /\ pc \in {"idle", "scan", "plan", "apply"}
    /\ DOMAIN reports \subseteq Targets /\ \A t \in DOMAIN reports : reports[t] \subseteq Keys
    /\ left \subseteq Targets
    /\ todo \subseteq [kind : Kinds, key : Keys, number : Nat, rows : SUBSET Targets]
    /\ by_hand \in Nat

\* There are no more issues than list_issues reads.
AllRead == Len(issues) <= ListLimit

\* "keeps exactly one issue per actionable problem": as long as list_issues
\* reads all issues, no key without a space gets a second one, whatever fails
\* half-way and whatever people do to the first (plan_actions).
OneIssuePerProblem ==
    AllRead =>
        \A m, n \in Numbers : issues[m].key = issues[n].key /\ issues[m].key \notin Spaced => m = n

\* "a partial run can never close a live issue": the tool closes an issue only
\* in a run that scanned every target and found the problem in none
\* (plan_actions, complete).
OnlyAFullScanCloses ==
    [][\A n \in Numbers :
          (by_hand' = by_hand /\ issues[n].open /\ ~issues'[n].open) =>
              \A t \in Targets : t \in DOMAIN reports /\ issues[n].key \notin reports[t]]_vars

\* As far as the issues can be read, the open ones are exactly the problems
\* there are, with the targets that have them in the table.
Settled ==
    AllRead =>
        \A k \in Keys \ Spaced :
            LET at == {t \in Targets : k \in suffers[t]}
            IN  IF at = {} THEN \A n \in Numbers : issues[n].key = k => ~issues[n].open
                ELSE \E n \in Numbers : issues[n].key = k /\ issues[n].open /\ issues[n].rows = at

=============================================================================
