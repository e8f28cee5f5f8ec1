# Formal model of the conformance suite

TLA+ specifications of the Open Banking conformance suite (`src/`), the TLC
configurations that check them on small instances, and TLAPS proofs of the
properties that matter most for every size.

## 1. The system

One Django process serves a REST API, a browser wizard and the PSU redirect
endpoint. What a run needs lives in memory, in two lock-protected stores; each
run is executed by one daemon thread. Around it stand the plan compiler, the
command line, the readers of reports, and the workflows that publish the tool.

| Part | State | Operations that change it | Modules |
|---|---|---|---|
| Run store (`api/run_store.py`) | run records, the run slot, PSU links of browser runs | `create_run` (conflict test, slot, pruning), `mark_*`, `set_/clear_participant_action` | `RunStore`, `RunLifecycle` |
| Auth-session store (`api/auth_session_store.py`) | sessions by state token | `register`, `capture_*`, `discard*` | `AuthSessionStore`, `RunLifecycle` |
| Run lifecycle (`api/run_lifecycle.py`), REST registration (`api/views.py`), callback (`api/callback_views.py`) | threads | `start_run`, `_execute_run`, `register_auth_session`, `callback_view` | `RunLifecycle` |
| Plan executor (`executor.py`, `execution_schedule.py`, `context.py`) | context, lazy caches, workers | step loop, PSU steps, HTTP steps, concurrent groups | `Executor` |
| Execution log and artifacts (`execution_log.py`) | event buffers, two files | `emit`, `flush_to_path`, `_persist_configured_artifacts` | `ExecutionLog` |
| Wizard and drafts (`api/ui_views.py`, `builder_wizard.py`, `builder_draft_store.py`) | drafts in the Django session | every page's post, import, launch | `BuilderScope`, `BuilderPages`, `BuilderWizard` |
| Plan documents (`catalogue.py`, `plan_configuration.py`, `test_plan_validation.py`) | none (pure) | parse, migrate, export, validate, prepare | `PlanDocument`, `DcrPlanConfiguration`, `CanonicalPlan`, `PlanValidation` |
| Plan compiler (`catalogue.py`) | none outside a call | partition, selection, dependency walk, merge | `CaseOrder`, `PlanCompiler` |
| Compiled plan to run (`executor.py`, `api/run_lifecycle.py`, `catalogues/`) | the manifest being built, the planned rows of the run | `_compiled_plan_to_manifest`, `_compiled_plan_steps_snapshot` | `PlanManifest` |
| DCR adapter (`dcr_execution.py`) | scenario state, discovery cache, the server's clients | scenarios, cases, steps, cleanup | `DcrAdapter` |
| Reports (`results.py`, `result_gate.py`, `certification_validator.py`) | none (pure) | aggregation, eligibility, two readers | `ReportRules`, `Reports` |
| Command line (`cli.py`, `runner.py`) | two files | one call | `CommandLine` |
| Release workflows (`scripts/`, `.github/workflows/`) | registry, Git tags, Releases | promotion | `ReleaseRules`, `Promotion` |
| Security workflow (`scripts/vulnerability_*.py`) | issues | gate, daily re-scan | `VulnerabilityGate`, `VulnerabilityIssues` |

What makes it hard: a store access is atomic and nothing longer is. The next run
may be admitted before the previous thread has swept its sessions; a REST
request may add a session to a run that is ending; a callback may arrive late,
twice or never; any step of a plan may raise; the disk may fail between the two
files of a run; two browser tabs overwrite each other's drafts; the same facts
are converted back and forth between three forms of a plan; a registration server may
do what it was asked for and not say so; a workflow run may stop after any step
and be started again. `PROJECT.json` lists these hazards at the lines where they
bite.

## 2. Modules

### Runs

* `RunIdentity`: run identifiers, shared by both stores.
* `RunStore`: one operator per method of `RunStore`. `status[r]` is the record's
  status, or `"unborn"`/`"pruned"` for the two ways a key is missing;
  `active_run_id` and `finished_at` are the attributes of the same names; `now`
  is the last clock reading, so two runs may finish at the same instant.
  `create_run` includes `_prune_terminal_records_locked`.
* `AuthSessionStore`: one operator per method; `session_run[s]` is the owner of a
  state token, `NoRun` when it is not registered.
* `RunLifecycle`: composes the stores with the threads that use them. An action
  is what one thread does between two store accesses. `engine[r]` is the program
  counter of `_execute_run` (plus the part of `start_run` that follows
  `create_run`), `step`, `awaited` and `browser` its local variables, `client`,
  `client_run`, `client_state` the same for a `register_auth_session` request.
  Steps of the plan are HTTP steps or manual PSU steps: plans started through the
  API or the wizard are compiled plans, whose steps run in sequence and whose PSU
  steps are always in manual mode.
* `SingleRunService`: what callers are promised, with threads, sessions and
  clocks hidden.
* `ExecutionPlan`: manifest and test plan as the executor reads them (selected
  steps, phase, group, placeholders, tokens, signing and verification) and the
  schedule made from them. A manifest step is its position.
* `ExecutionContext`: the immutable context, with `record_step`, the runtime
  tokens and the resolution of placeholders. What a step leaves is abstracted to
  what later placeholders can tell apart: no entry, no response, a response
  without the named body field, a response with it.
* `Executor`: `_run_manifest_v1` with its threads. A *lane* is the setup phase or
  one group; `lane`, `context` are per lane, `pc`, `reply`, `minted`, `result` per
  step; `signing` and `jwks` are the two lazy caches that all lanes share;
  `report` is the list of step results. A verdict "passed" stands for "warn" too.
  A step resolves its placeholders in two parts (`refs`, `later`), with the checks
  of method, headers, PSU URLs and session cap, which fail it, before and between.
* `OrderedExecution`: what the executor promises, with threads and caches
  hidden: setup in manifest order, then the groups, each in manifest order, and
  one result for each selected step, unless an exception ends the run.
* `ExecutionLog`: the buffers of the runs, the threads that append to them (two
  steps: the event is made, then appended under the lock), and the two files. A
  result file is written in place, so a kill may tear it; the log is written
  beside and renamed. A callback, or a registration, may append to any run that
  has a session left, at any time; one late writer stands for both.
* `DcrAdapter`: one action per step handler, with the skips, the discovery
  fetched once, the state a scenario keeps, and the cleanup. The server is the
  environment: it refuses, breaks the rules, or acts and does not answer.

`RunLifecycle` and `Executor` look at the same plan from two sides. The first
keeps what the stores see of it; the second what the steps see of each other.
Both callers of `start_run` pass compiled plans, which have one group at most, so
that several groups at a time are met only through `run_manifest` itself;
`Executor` covers both.

### Plans

* `PlanDocument`: groups, endpoints, security environment, business data and
  runtime inputs, from the document's words to the runner's and back. A JSON
  object is a function on the keys it has; a text is told apart by its value, by
  being blank and by its scheme.
* `DcrPlanConfiguration`: the typed configuration of a registration plan, its
  flat runtime inputs, and the configuration rebuilt from them.
* `CanonicalPlan`: whole canonical and legacy documents: what is refused, what is
  parsed, what is exported.
* `PlanValidation`: load or migrate, export, prepare; files may vanish between.
* `CaseOrder`: the recursive walk of `_ordered_case_ids` as a stack machine, with
  its three errors.
* `PlanCompiler`: the phases of `compile_test_plan_document` around that walk:
  endpoints, aliases, owners, partition, applicability, deselection, decisions,
  input traces, merge.
* `PlanManifest`: a compiled plan becomes the rows that `start_run` shows and,
  later and by other code, the manifest that the worker executes. One action per
  kind of request step: the two AIS templates, which become steps for each
  permission profile, and any other, which may be followed by the PSU's
  authorisation of a consent and the exchange of its code. The plans are those an
  excerpt of the shipped catalogues compiles to; a request is reduced to the
  responses, token and inputs it reads. `build_execution_schedule` is `Schedule`.
* `BuilderScope`, `BuilderPages`: what a specification offers, what the forms show
  and accept, and how a page is merged into the draft.
* `BuilderWizard`: tabs, requests (load all drafts, later save all drafts),
  pruning by age, import, review and launch.

### Results

* `ReportRules`, `Reports`: status and eligibility as the writer of a report
  decides them, and as the gate and the validator decide them again.
* `CommandLine`: argument errors and `--help`, the smoke check with its client and
  events, exceptions that leave `main.py` with status 1, the two files and the exit
  code, call after call.

### Releases

* `ReleaseRules`: channels, branches, tags, the manifest, the decision to promote.
* `Promotion`: four root workflows, the shared promotion and the finalisation as
  processes under one concurrency group, with steps that fail, jobs that are
  started again and tags that people make. An image's digest is identified with
  the commit it was built from, so a second build of the same commit is not told
  apart from the first.
* `VulnerabilityGate`: reading, merging, OpenVEX, exceptions, on several days.
* `VulnerabilityIssues`: scans, the plan made from them, `gh` calls that fail with
  or without effect, people who close and reopen issues. `list_issues` reads the
  newest `ListLimit` issues (1000 in the code), and a key with a space (`Spaced`)
  is written into an issue but not read back.

### Instances and proofs

`RunLifecycleMC`, `ExecutorMC`, `BuilderWizardMC`, `DcrAdapterMC`, `PromotionMC`
give constants to one component. `PlansMC` (with `PlanCompilerMC`,
`PlanValidationMC`), `ArtifactsMC` and `SecurityMC` hold components that do not
share state: a behaviour follows one of them from its own `Init` with its own
`Next`, and the variables of the others are idle. The modules `*Proofs` hold the
theorems. Operators introduced by a comment "Mutant of ..." are deliberate
faults; no specification uses them.

Correspondence of the concurrent actions and the code (all others carry the name
of the function or handler; line by line in the `map` of `PROJECT.json`):

| Action | Code |
|---|---|
| `start_run`, `thread_start` | `start_run`: `create_run`, then `thread.start()`, which may raise (`ThreadsExhaustible`) |
| `MarkRunning`, `ReadRecord` | head of `_execute_run`: `mark_running`, `get_run`, building the HTTP client |
| `PlainStep`, `TransportError` | a step that touches no session; an HTTP step that emits `application-error` |
| `PsuRegister`, `PsuRequestObjectFails`, `PsuPublishUrl`, `PsuResolved`, `PsuTimeout` | `_execute_v1_psu_step_inner`, cut at its store accesses |
| `PlanCompleted`, `PlanRaises` | the `run-completed` and `application-error` ends of `run_compiled_test_plan` |
| `PersistFails`, `MarkCompleted`, `MarkFailed`, `Sweep` | tail of `_execute_run` and its `except` and `finally` clauses |
| `CheckRun`, `RegisterSession`, `Revalidate`, `Rollback` | `register_auth_session` |
| `Prepare` | `_execute_v1_step_inner` and `_execute_v1_psu_step_inner` up to the signature: placeholders, skip, validation of the request |
| `LookForService`, `LockService`, `BuildService`, `PublishService` | `_LazyFapiSigningService.get`, cut at its reads and writes of shared attributes |
| `Exchange` | the HTTP exchange or the PSU authorisation, up to the assertions when no response signature is verified |
| `LookForKeys`, `LockKeys`, `FetchKeys`, `Judge` | response signature, `_ResponseSignatureJwksCache.get`, assertions |
| `StepRaises` | an exception that no step handles |
| `SubmitGroups`, `StartGroup`, `GroupEnds`, `Join` | `_run_manifest_v1` after setup, `_execute_v1_execution_groups_concurrently`, a worker of the pool |

A refused request (409 on a second run, 404/409/400 on a registration, 400 on a
callback) leaves the stores as they are and is a stuttering step, except where
the handler has already changed something.

## 3. What the runs check

| Run | Instance | Question |
|---|---|---|
| `sessions` | 2 runs of 2 steps, no terminal record kept, 2 tokens, 2 sessions per run, 2 requests, threads may fail to start | Is a session ever lost under its run, or left behind after it? Does a pending link belong to the waiting step? Does an answer count once? |
| `liveness` | 2 runs, 1 token, 1 request | Does every started run end, every session go? Do threads and stores implement `SingleRunService`, its liveness included? |
| `schedule` | plans of 3 steps over setup and 2 groups in every way; 3 groups that sign and verify; setup with a PSU step and 3 groups; 2 workers | Does a step know exactly what its predecessors left, and is every skip explained by them? Are the caches seen whole? Does the run end, and implement `OrderedExecution`? |
| `plans` | 12 sets of catalogues of two areas, thousands of plans, canonical and legacy documents; the plans of one family of each flow of AIS, CBPII, PIS and VRP, alone and with AIS | Is what is compiled exactly what was asked for, in order and explained? Does a document keep its meaning from review, through export, to the run? Can every accepted plan run: each step after what it reads and under the consent it relies on? Are the rows of a pending run its steps? |
| `builder_tabs` | 2 tabs, 3 drafts of which 2 are kept, 4 specifications, 4 saves | Whichever update is lost, does a draft's scope stay one that its specification offers? |
| `builder_pages` | 1 tab, 2 drafts, 6 saves over all pages, imports that are edited and posted again | Does a page leave the others and the other draft alone, lose nothing when posted as shown but what an import overrides, accept only registrations that run? Does an import build what was imported? |
| `dcr` | the DCR 3.4 contract, each scenario alone and four pairs, any answers | Are dependents skipped, are stale answers never judged, are clients managed only by their scenario, is every client left at the server explained? |
| `artifacts` | reports of 4 steps; log and files of 2 runs with 2 workers, a callback, failing disks and one kill; 2 calls of the command line | Do writer, gate and validator of a report agree? Is the log file whole, do the two files agree, does the exit code tell? |
| `promotion` | 3 overlapping workflow runs, 6 commits, one rerun, stray tags, failures between any two steps | Do published versions keep their image, does the beta pointer keep up, does a Release follow its publication? |
| `security` | 3 scanner reports of up to one entry, exceptions and OpenVEX on several days; 2 targets, 3 keys of which one has a space, 3 issues listed of at most 4, 3 changes, 1 intervention, 2 faults | Are findings the linked groups of observations, is a pass explained, do the issues settle? |
| `completed_prompt` | 1 run of 2 steps | Shows a disagreement, see section 6. |
| `builder_launch_inputs` | 1 tab, 7 saves | Shows a disagreement, see section 6. |

Why the bounds are enough. For runs, the hazards involve at most an ending run,
its successor and one or two requests. With no record kept a request meets a
pruned run on its second lookup; two tokens and a cap of two make the engine and
the requests compete for the cap. Two steps let a PSU step be followed by
another one. For the executor, two groups and setup are enough for what one lane
may learn of another, and three steps let the last one depend on a step of its
own lane, of setup and of the other group. The double-checked caches need a
builder, a step that passed the first look and one that comes later: three
groups; with two workers the third waits in the queue. For the compiler, two
areas can share an endpoint, an alias, a case and an input, and a chain of
dependencies, a diamond, a cycle, a missing and a barred dependency all occur; the
theorems of section 4 remove these bounds. A document conversion works field by
field, so fields are varied one group at a time around documents that load. The
excerpt of the catalogues in `PlanManifest` keeps every kind of case the
conversion tells apart (profiles, security cases that move to setup, consents
with and without dependents, two consents that record one token name, a case no
consent is needed for), with at most one dependency each (`CaseOrder` covers more);
families that differ in paths and bodies only are left out. In
the builder two tabs suffice for a lost update, and three drafts with two kept
make pruning hit a draft that a tab still shows. An imported environment overrides
a saved edit on the third save (import, edit, post as shown), and a page can touch
the other draft as soon as there is one, so these two are followed for three and
four saves and the one draft made in the wizard for six (`SideTripsAreShort`).
State carried over by the DCR adapter shows with two scenarios. Two promotions of one version and a third that
supersedes a waiting one are the cases the lock is for. Two faults let a repair
run fail again. With three issues listed of four, the first one is not read any
more, as with 1000 of 1001.

Bounds on the model only: `MaxRuns`, `PlanLength`, `ManifestLength`,
`CheckedPlans`, `CheckedDocuments`, `MaxSaves`, `SideTripsAreShort`,
`Windows`, `MaxEvents`, `MaxCrashes`, `MaxInvocations`,
`MaxReruns`, `Days`, `MaxIssues`, `MaxChanges`, `MaxByHand`, `MaxFaults`. `MaxTerminalRecords`,
`MaxSessionsPerRun`, `MaxWorkers`, `MaxDrafts`, `MAX_EXCEPTION_DAYS`, `ListLimit` are the code's
own caps with smaller values. State tokens, requests, tabs, draft ids, workers
and workflow runs are interchangeable, and the runs without liveness use
symmetry on them. Deadlock is checked in `schedule`, `plans` and `dcr`, where the end
is a state of its own; elsewhere the system is at rest after the bounds.

Fairness. Weak fairness of every engine thread and of every request handler that
has passed its first test: Python schedules runnable threads, no lock is held
across a wait, HTTP exchanges time out (`http.py`) and the PSU poll has a
deadline, which is an ordinary step of the thread here. Nothing is assumed of the
PSU, of clients or of exceptions: `EngineFault` is outside the fairness, so
termination does not rest on something going wrong. `RunsTerminate` is claimed
for runs that get a thread (`ThreadsExhaustible = FALSE`): when `thread.start()`
raises in `start_run`, no code releases the slot. In the executor every step that
can go on, every group with a worker, the hand-over to the groups and the join
are weakly fair; a lock is free again after a bounded wait because its holder
only reads files or makes requests that time out. `StepRaises` is not fair. The
security workflow is started every day by its schedule and its steps are taken
(`Work`); changes, people and failures are not fair, and `MaxFaults` says that
failures stop, without which no run of the workflow need ever be complete.

## 4. What is proved

All theorems hold for every value of the constants. Each module names its
assumptions.

**`RunLifecycleProofs`** (`MaxRuns`, `PlanLength` and the two caps are natural
numbers, `NoRun` is no run and `NoState` no token): `TypeCorrect`, `SlotIsExact`,
`RecordsFollowEngines`, `MutualExclusion`, `TerminalStatusIsFinal`,
`NoSessionIsOrphaned`, `AwaitedSessionsAreKept`, `RollbacksAreLate`,
`NoSessionLostEarly`. `RunInv` is the conjunction of `SlotNamesTheActiveRun` and
`RecordFollowsEngine`; neither is inductive alone. The slot is released correctly
because a thread that marks its record terminal finds it active and so holds the
slot; pruning and new runs leave other records alone because only the holder of
the slot is active. `SessionInv` adds three session invariants.
`NoOrphanSession` is preserved by `Revalidate` because an active record implies a
thread that has not exited, by `Rollback` because a request is the witness only
of its own session, and by `Sweep` because it removes every session of its run.
`AwaitedSessionIsKept` needs `RollbackOnlyAfterTheRun`: a rollback is for a run
that is over, so it cannot hit a session that is polled.

Also there: `ServiceIsImplemented` (the safety part of
`ImplementsService`), `PromptsAreLive`, `AnswersAreOneShot`. The refinement needs
`OrderInv`: finish times follow the order of the runs, so that what
`_prune_terminal_records_locked` calls oldest by its clock is oldest in the
service, also when two finish times are equal. `PromptInv` adds to the pending
links that only browser runs have them, because only their logger withdraws
them. `AnswerInv` says that an answer comes with its session.

**`ExecutorProofs`** (`ManifestLength` is a natural number, `MaxWorkers` a
positive one, `Setup` is no group, `NoToken` no token, the plans are well
formed): `ExecutorTypeCorrect`, `ServiceBuiltOnce`, `ServiceSeenWhole`,
`KeysFetchedOnce`, `SetupFirst`, `NothingAfterTheEnd`, `GroupsIsolated`. `CacheInv`
says who holds a lock, that a builder found the cache empty, that a service
without its flag is under the lock, and that the flag implies the service; the
second look inside the lock preserves it. `LaneInv` says that a step is under way
only in a running lane and after all steps of the lane before it, that groups
leave their first state only after setup is done, and that nothing runs in an
ended run. `GroupsAreIsolated` is inductive relative to both.

Also there: `ExecutionIsOrdered` (the safety part of
`ImplementsOrderedExecution`) and `SkipsFollowThePlan`. `ResultInv` ties results to
ends of steps and of lanes; `TokenInv` says which tokens a lane knows; `SkipInv`
keeps, for every step under way, that its placeholders resolved in the view of
its predecessors, and for every finished one which part of them, or which check
between them, decided. That view no longer changes once a step has started, because
all its predecessors are over: this is where isolation is used.

**`ArtifactsProofs`** (`MaxRuns` is a natural number, the callback is no worker,
a manifest has neither development mode nor overridden assertions). The log and
the files: `LogTypeCorrect`, `LogFilesAreWhole`, `ArtifactsAlwaysAgree`. The file is
whole because the snapshot was: workers append only while their run executes,
so after the snapshot only the callback adds to the buffer (`LogInv`). `FilesInv`
follows the two files through the positions between their writes. The reports:
`EligibleIsCertified` and `GateIsRight`; `ReportInv` says that each selected step is
reported once, what the writer has put into the report, and what each reader read
of it. The command line:
`ExitCodesTell`; `CommandInv` says at each position which of the two files are of
this call.

**`PlanCompilerProofs`** (a catalogue lists known case ids, and known inputs):
`DependenciesComeFirst`, `CasesCompileOnce`, `PlansCompileExactly`,
`ReportsExplainPlans`, `SensitiveValuesAreHidden`, on the invariants
`PlanInvariant` and `ReportInvariant`. `WalkInv` describes the stack of the walk:
its frames are distinct cases in `visiting` and not in `visited`, the
dependencies before a frame's position are listed already, and the first frame is the
root. Exactness compares with the least set that contains the wanted cases and
is closed under dependencies: everything listed is in it because every frame is,
everything in it is listed because a finished walk leaves a closed set. `EdgeInv`
says that every recorded edge comes from a case that is listed or on the stack,
which makes `dependency_of` name compiled cases. The compiler around the walk
needs that partition and plan do not change while an area is compiled.

**`PromotionProofs`** (versions have a channel, dispatches name pushed commits):
`PromotionTypeCorrect`, `VersionsAreImmutable`, `ReleasesAreLast`. `Knows` says for
each position of a workflow run, failed ones included, what the registry, the
attestations and the Git tags hold; `OneRunner` is the concurrency group. A run
about to write a version tag found it missing under the lock that it still holds.
`PointerIsNotLeftBehind` adds `PointerInv`: a run that is about to move the pointer
decided so on the tags that are still there, and one that is past it has its
version covered. It uses that `Older` is a total order on versions and that a
pointer that was written stays written when its verification fails.

**`DcrAdapterProofs`** (`ContractAssumption`: the plans of the contract are sound,
in that case ids are distinct, prerequisites are earlier cases a scenario
registers once, sets an empty token only before it requests one, and declares the
methods its steps use): `DependentsAreSkippedHolds`. `RowsInPlan` and
`StepsInReport` say that the rows are those of the steps that are over, `StatusesTell` that a case passed when
all its rows did, `InOrder` that they come in plan order.

**`DcrClientProofs`** (the same): `NothingIsStaleHolds`,
`ManagementStaysInTheScenarioHolds`, `LeftoversAreExplainedHolds`. `StaleInv` keeps
that the response and the signed request are of the present case as soon as the
step that makes them has passed; `OwnInv` that client, token and URL are of a case
of the present scenario, and `GateInv` that the plan passed the adapter's own
check; `LeftInv` that a passed registration and a passed token request have left
what the cleanup needs.

**`SecurityProofs`** (the entries of Snyk and pip-audit name an identifier, the
days of an exception are numbers, `ListLimit` is a natural number). The gate: `FindingsGroup`, where
`MergeInv` says that after each observation the findings describe the connected
groups of those read so far, and `PassesAreExplained`. The issues: `OneIssueEach`,
`PartialScansDoNotClose`. `TodoInv` keeps the plan true while it is worked off,
though the issues are not listed again: a key to be created still has no issue if
it has no space and all issues were read, what is to be changed is an issue of its
key, what is to be closed was in no report of a full scan. Without those two
conditions `OneIssueEach` does not hold, see section 6.

Model-checked only: what needs fairness (`RunsTerminate`, `SessionsAreDropped`,
`RunEnds`, `IssuesSettle` and the liveness of the two refinements), which the
prover cannot handle; and the builder, the plan documents and the manifest, whose
properties are about tables of fields that TLC covers better.

## 5. Not modelled

* Manifest parsing, JSON-path assertions, schema validation, HTTP and signing
  wrappers: no shared state; in the models they are the choice between the
  outcomes of a step.
* The headless PSU redirect of the executor (plans of the API and the wizard
  always use manual mode) and version 0 manifests, a loop without state.
* The catalogues beyond the excerpt in `PlanManifest`: tables of test cases.
* Rendering of pages, reports and notes, the masking of payloads, labels.
* AIS resource ids other than accounts, and conditional properties, in the wizard.
* `docker/entrypoint.py`, `docker/healthcheck.py`, `scripts/validate_docker_base.py`:
  process start-up and a grammar of `FROM` lines.
* A `ThreadPoolExecutor.submit` that fails to start a thread; the tests' `reset()`.

The one hazard without a property is a `Thread.start()` that raises after
`create_run`: the models include it, no safety property breaks, and nothing in
the repository promises that the slot comes back.

## 6. Findings

* `completed_prompt`: `clear_participant_action` documents that a finished PSU
  link stays visible as completed and that only the cleanup of a terminal run
  discards all links. `BrowserParticipantActionLogger.emit` also discards them on
  the step-scoped `application-error` event of an HTTP step that fails in
  transport, while the run goes on.
* `builder_launch_inputs`: the README says that a launch uses the runtime values
  retained in the browser session. The review counts them, but the launch prepares
  the exported document, and the export drops the key they are kept in.

Other places where code and documentation differ, met while modelling and not
kept as runs:

* the safe export of a Read/Write plan with mTLS empties `privateKeyPath`, which
  the parser refuses (`test_plan_validation.py:883`, `catalogue.py:2349`);
* a value entered on the runtime page for a structured input is erased when the
  page is posted again (`builder_wizard.py:2628`), an edit of a friendly business
  field is ignored when its JSON field is filled (`builder_wizard.py:3677`), and a
  runtime value that differs from the business page makes a complete draft
  unbuildable (`builder_wizard.py:2453`);
* a software statement that is not UTF-8 ends the whole DCR run
  (`dcr_execution.py:1455`, modelled as `GenerateRaises`);
* a step can be skipped without an earlier failure, when a passing response has no
  token (`executor.py:4299`; `results.py:204` says otherwise);
* a trace group whose prerequisite failed is reported as not selected
  (`results.py:568`), and malformed evidence gives the gate's exit code 1, not 2
  (`result_gate.py:117`);
* after a repeated finalisation the Release may say that the beta pointer targets its
  image when a newer beta has it (`release_notes.py:186`);
* an exception whose matches another entry accepted is called stale because of
  OpenVEX (`vulnerability_gate.py:553`), and an incomplete re-scan edits unscanned
  targets out of an issue's table (`vulnerability_issues.py:161`);
* a plan with the AIS setup cases and no request that needs an account token would
  show the two template rows, which never run (`run_lifecycle.py:316`,
  `executor.py:619`); no shipped catalogue compiles to one;
* `consent-get-authorised` of VRP expects an authorised consent and presents no PSU
  token, so a plan with it and the creation only never asks the PSU
  (`executor.py:816`, `catalogues/vrp.py:645`); `AcceptedPlansRun` therefore claims
  authorisation for PIS and CBPII.

The following are stated as they are in the code by the property that is named,
which excepts exactly them:

* an exception ends the command line with status 1, of which the README says
  "Execution completed with failed checks." (`README.md:197`, `main.py:23`); the
  files are then those of an earlier call (`ExitTells`);
* a group of a legacy plan without endpoints selects nothing, and the whole group
  once it is migrated (`catalogue.py:3004`, `catalogue.py:2603`; `LaunchIsAsReviewed`);
* a plan is accepted without a discovery URL though its discovery case cannot be
  turned into a request without one, and its run fails (`test_plan_validation.py:825`,
  `executor.py:1497`; `AcceptedPlansRun`);
* what an imported plan says of key, key id, authentication method and
  certificates is shown over what was saved since, so that opening the security
  page and saving it undoes the edit (`builder_wizard.py:2185`, `ui_views.py:448`;
  `SavedAsShownKeepsThePlan`);
* "keeps exactly one issue per actionable problem" holds for keys without a space
  and up to 1000 issues (`vulnerability_issues.py:30`, `vulnerability_issues.py:189`;
  `OneIssueEach`);
* a step whose predecessor is missing fails, and is not skipped, when a check before
  the placeholder fails (`executor.py:3871`, `executor.py:3196`; `SkipsAreExplained`).

Two facts that the models show and that no document of the repository
contradicts: a session is dropped shortly after, not at, the terminal transition
of its run, so a callback can still be accepted in between; and a callback that
lands between the last poll and the deadline is accepted, although the step
reports a timeout.
