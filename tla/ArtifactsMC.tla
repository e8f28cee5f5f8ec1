----------------------------- MODULE ArtifactsMC -----------------------------
(***************************************************************************)
(* What a finished run leaves behind, for TLC.  A behaviour follows one of *)
(* three programs, and the variables of the other two are idle:            *)
(*   report    a report is built and read by its two readers (Reports)     *)
(*   log       the application writes its files (ExecutionLog)             *)
(*   command   the command line is called, twice (CommandLine)             *)
(***************************************************************************)
EXTENDS ExecutionLog, TLC

CONSTANTS Steps, Versions, Jobs, MaxInvocations

VARIABLES program,
          job, selected, results, report, reading,
          call, args, log, steps, client, files, exit

MCSymmetry == Permutations(Workers)

R == INSTANCE Reports
C == INSTANCE CommandLine

\* Development mode and overridden assertions are of plans, and a manifest has
\* neither (run_lifecycle.py).
ASSUME JobsAssumption == \A j \in Jobs : j.kind = "manifest" => ~j.development /\ ~j.overridden

-----------------------------------------------------------------------------
(* The jobs: manifests, and plans with three cases in two scenarios.       *)

NoCases == <<>>

\* No approved-release policy is supplied (NoPolicy of ReportRules).
NoReleases == [supplied |-> FALSE, approved |-> {}]

ManifestJobs ==
    {[kind |-> "manifest", mandatory |-> m, optional |-> o, coverage |-> c, policy |-> p, version |-> v,
      development |-> FALSE, overridden |-> FALSE, cases |-> NoCases] :
        m \in {{}, {1}, {1, 2}, {2, 3}}, o \in {{}, {3}}, c \in {"complete", "partial"},
        p \in {NoReleases, [supplied |-> TRUE, approved |-> {"v1"}]}, v \in Versions}

\* mandatory and optional exclude each other (manifest parser).
CheckedManifestJobs == {j \in ManifestJobs : j.mandatory \intersect j.optional = {}}

Cases(second, third) ==
    << [steps |-> {1}, group |-> 1, selected |-> TRUE],
       [steps |-> {2, 3}, group |-> 1, selected |-> second],
       [steps |-> {4}, group |-> 2, selected |-> third] >>

\* Overrides of assertions are refused outside of development mode (PlanValidation).
Modes == {"no", "yes", "overridden"}

PlanJobs ==
    {[kind |-> "compiled", mandatory |-> {1, 2}, optional |-> {}, coverage |-> "complete",
      policy |-> [supplied |-> TRUE, approved |-> {"v1"}], version |-> "v1",
      development |-> d # "no", overridden |-> d = "overridden", cases |-> NoCases] : d \in Modes}
    \union
    {[kind |-> "dcr", mandatory |-> {1, 2, 3, 4}, optional |-> {}, coverage |-> "complete",
      policy |-> p, version |-> "v1", development |-> d # "no", overridden |-> d = "overridden",
      cases |-> Cases(second, third)] :
        p \in {NoReleases, [supplied |-> TRUE, approved |-> {"v1"}]},
        d \in Modes, second \in BOOLEAN, third \in BOOLEAN}

MCJobs == CheckedManifestJobs \union PlanJobs

-----------------------------------------------------------------------------
(* The three programs.                                                     *)

Unused == "unused"

reportVars == <<job, selected, results, report, reading>>
logVars == <<run, buffer, emitting, clock, snapshot, written, resultFile, logFile, crashes>>
commandVars == <<call, args, log, steps, client, files, exit>>

ReportIsIdle ==
    /\ job = Unused /\ selected = Unused /\ results = Unused /\ report = Unused /\ reading = Unused

\* No run was started.
LogIsIdle ==
    /\ run = 0 /\ buffer = Unused /\ emitting = Unused /\ clock = 0 /\ snapshot = <<>> /\ written = 0
    /\ resultFile = [run |-> 0, whole |-> TRUE] /\ logFile = [run |-> 0, events |-> <<>>] /\ crashes = 0

CommandIsIdle ==
    /\ call = Unused /\ args = Unused /\ log = Unused /\ steps = Unused /\ client = Unused
    /\ files = Unused /\ exit = Unused

MCInit ==
    \/ program = "report" /\ R!Init /\ status = Unused /\ LogIsIdle /\ CommandIsIdle
    \/ program = "log" /\ Init /\ ReportIsIdle /\ CommandIsIdle
    \/ program = "command" /\ C!Init /\ ReportIsIdle /\ LogIsIdle

MCNext ==
    \/ program = "report" /\ R!Next /\ UNCHANGED <<program, status, logVars, commandVars>>
    \/ program = "log" /\ Next /\ UNCHANGED <<program, reportVars, commandVars>>
    \/ program = "command" /\ C!Next /\ UNCHANGED <<program, reportVars, logVars>>

MCSpec == MCInit /\ [][MCNext]_<<program, pc, status, reportVars, logVars, commandVars>>

-----------------------------------------------------------------------------
(* Properties, each of the program that it is about; those of the log are  *)
(* true as long as no run was started.                                     *)

\* EligibleReportsValidate of Reports: eligible reports are those the validator
\* accepts.
ReportsValidate == program = "report" => R!EligibleReportsValidate

\* GateAgreesWithTheRun of Reports: the gate comes to what the report says.
GateAgrees == program = "report" => R!GateAgreesWithTheRun

\* ExitTellsTheFiles of CommandLine: the exit status tells which files are of
\* this call.
ExitTells == program = "command" => C!ExitTellsTheFiles
=============================================================================
