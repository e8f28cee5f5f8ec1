------------------------------- MODULE PlansMC -------------------------------
(***************************************************************************)
(* The three parts of preparing a plan, for TLC.  A behaviour follows one, *)
(* and the variables of the others are idle:                               *)
(*   compile    a plan is compiled with its catalogues (PlanCompiler)      *)
(*   prepare    a document is parsed, exported and prepared, where         *)
(*              compilation is one step (PlanValidation)                   *)
(*   convert    a compiled plan becomes the steps of a run (PlanManifest)  *)
(***************************************************************************)
EXTENDS PlanCompilerMC

CONSTANTS Spelling, Registration, Managements, CheckedDocuments, Files

VARIABLES program, raw, files, document, exported, prepared, issue,
          cases, given, todo, drawn, steps, rows

D == INSTANCE PlanValidation

M == INSTANCE PlanManifest

Written == INSTANCE PlanValidationMC

MCPlans == AllPlans \union OddPlans

MCDocuments == Written!LoadedDocuments \union Written!LegacyDocuments

MCSpelling ==
    [accounts |-> "accounts", Accounts |-> "accounts", payments |-> "payments",
     register |-> "register", read |-> "read", delete |-> "delete"]

Idle == "idle"

documentVars == <<raw, files, document, exported, prepared, issue>>
runVars == <<cases, given, todo, drawn, steps, rows>>
planVars == <<plan, endpoints, placed, parts, aliased, area, base, compiled, snapshot, error, orderVars>>

DocumentIsIdle ==
    /\ raw = Idle /\ files = Idle /\ document = Idle /\ exported = Idle /\ prepared = Idle /\ issue = Idle

RunIsIdle == cases = Idle /\ given = Idle /\ todo = Idle /\ drawn = Idle /\ steps = Idle /\ rows = Idle

PlanIsIdle ==
    /\ plan = Idle /\ endpoints = Idle /\ placed = Idle /\ parts = Idle /\ aliased = Idle
    /\ area = Idle /\ base = Idle /\ compiled = <<>> /\ snapshot = Idle /\ error = Idle
    /\ call = Idle /\ root = Idle /\ stack = Idle /\ ordered = <<>>
    /\ edges = Idle /\ visiting = Idle /\ visited = Idle /\ outcome = Idle

MCInit ==
    \/ program = "compile" /\ Init /\ DocumentIsIdle /\ RunIsIdle
    \/ program = "prepare" /\ D!Init /\ PlanIsIdle /\ RunIsIdle
    \/ program = "convert" /\ M!Init /\ PlanIsIdle /\ DocumentIsIdle

MCNext ==
    \/ program = "compile" /\ Next /\ UNCHANGED <<program, documentVars, runVars>>
    \/ program = "prepare" /\ D!Next /\ UNCHANGED <<program, planVars, runVars>>
    \/ program = "convert" /\ M!Next /\ UNCHANGED <<program, planVars, documentVars>>

MCSpec == MCInit /\ [][MCNext]_<<program, pc, documentVars, planVars, runVars>>

-----------------------------------------------------------------------------
(* Properties of the second and the third part; those of the first are     *)
(* PlanCompiler's, which holds nothing compiled while it is idle.          *)

\* LaunchRunsTheReviewedPlan and MigrationInventsNothing of PlanValidation:
\* parsing the export gives the plan that was reviewed, and the canonical form
\* of a legacy plan says what the plan said, but for groups without endpoints
\* (plan_document_to_json_object).
LaunchIsAsReviewed == program = "prepare" => D!LaunchRunsTheReviewedPlan /\ D!MigrationInventsNothing

\* RunRebuildsTheConfiguration of PlanValidation: the flat runtime inputs of a
\* DCR plan give back its configuration (plan_configuration.py).
RegistrationIsRebuilt == program = "prepare" => D!RunRebuildsTheConfiguration

\* AcceptedPlansCanRun of PlanManifest: an accepted plan becomes steps that
\* find what they read, each under its own consent (_compiled_plan_to_manifest).
AcceptedPlansRun == program = "convert" => M!AcceptedPlansCanRun

\* SnapshotListsTheRun of PlanManifest: the pending rows of a run are the
\* steps that it executes (_compiled_plan_steps_snapshot).
PendingRowsAreTheSteps == program = "convert" => M!SnapshotListsTheRun
=============================================================================
