---------------------------- MODULE RunLifecycle ----------------------------
(***************************************************************************)
(* The life of a conformance run in the single Django process: the request *)
(* thread that starts it (run_lifecycle.start_run), the engine thread that *)
(* executes it (run_lifecycle._execute_run), the REST handler that adds    *)
(* auth sessions to it (views.register_auth_session) and the PSU's browser *)
(* that answers them (callback_views.callback_view).  All of them share    *)
(* the run store and the auth-session store, and meet only there.          *)
(*                                                                         *)
(* An action is what one thread does between two accesses to a store: the  *)
(* stores' locks make each access atomic and nothing else is.              *)
(*                                                                         *)
(* The plan of a run is PlanLength steps.  Plans started by the REST API   *)
(* and by the browser wizard are compiled plans, whose steps the engine    *)
(* executes one after another; which of them are PSU authorisation steps   *)
(* is left open.                                                           *)
(***************************************************************************)
EXTENDS RunStore, AuthSessionStore

CONSTANTS
    Clients,             \* concurrent POST .../auth-sessions requests
    NoState,             \* no state token
    ThreadsExhaustible   \* may Thread.start() raise RuntimeError?

ASSUME RunLifecycleAssumption ==
    /\ NoState \notin States
    /\ ThreadsExhaustible \in BOOLEAN

VARIABLES
    engine,        \* control state of the thread of run r
    step,          \* the plan step the engine is at; steps below are done
    awaited,       \* the session the current PSU step registered
    browser,       \* browser_psu_prompts: is the run shown in the browser UI?
    client,        \* control state of a registration request
    client_run,    \* run_id of the request's URL
    client_state   \* state token of the request's session

engineVars == <<engine, step, awaited, browser>>

clientVars == <<client, client_run, client_state>>

vars == <<storeVars, sessionVars, engineVars, clientVars>>

(***************************************************************************)
(* Control states of an engine thread:                                     *)
(*   none       no run was created yet                                     *)
(*   created    start_run has created the record, Thread.start() is next   *)
(*   lost       Thread.start() raised                                      *)
(*   started    the thread is about to call mark_running                   *)
(*   marked     it is about to read its record and build the HTTP client   *)
(*   executing  between two plan steps                                     *)
(*   preparing  a PSU step has registered its session                      *)
(*   polling    a PSU step waits for the session to be resolved            *)
(*   finishing  every step is done, the artifacts are written next         *)
(*   failing    mark_failed is next                                        *)
(*   sweeping   the record is terminal, discard_for_run is next            *)
(*   exited     the thread has ended                                       *)
(***************************************************************************)
Working == {"started", "marked", "executing", "preparing", "polling", "finishing", "failing"}

EngineStates == {"none", "created", "lost", "sweeping", "exited"} \union Working

ClientStates == {"idle", "checked", "registered", "rollback"}

TypeOK ==
    /\ StoreTypeOK
    /\ SessionTypeOK
    /\ engine \in [RunIds -> EngineStates]
    /\ step \in [RunIds -> 1 .. PlanLength + 1]
    /\ \A r \in RunIds : engine[r] \in {"preparing", "polling"} => step[r] \in Steps
    /\ awaited \in [RunIds -> States \union {NoState}]
    /\ browser \in [RunIds -> BOOLEAN]
    /\ client \in [Clients -> ClientStates]
    /\ client_run \in [Clients -> RunIds \union {NoRun}]
    /\ client_state \in [Clients -> States \union {NoState}]

Init ==
    /\ StoreInit
    /\ SessionInit
    /\ engine = [r \in RunIds |-> "none"]
    /\ step = [r \in RunIds |-> 1]
    /\ awaited = [r \in RunIds |-> NoState]
    /\ browser = [r \in RunIds |-> FALSE]
    /\ client = [c \in Clients |-> "idle"]
    /\ client_run = [c \in Clients |-> NoRun]
    /\ client_state = [c \in Clients |-> NoState]

GoTo(r, pc) == engine' = [engine EXCEPT ![r] = pc]

-----------------------------------------------------------------------------
(* BrowserParticipantActionLogger.emit: the decorator that mirrors PSU     *)
(* events of a browser-launched run into the run store.  Other events only *)
(* reach the execution log.                                                *)

emit_psu_authorization_url(r, k) ==
    IF browser[r] THEN set_participant_action(r, k) ELSE UNCHANGED participant_actions

\* Mutant of emit_step_completed: the prompt stays open.
emit_step_completed_keeps_prompt(r, k) == UNCHANGED participant_actions

emit_step_completed(r, k) ==
    IF browser[r] THEN complete_participant_action(r, k) ELSE UNCHANGED participant_actions

\* "run-completed" and "application-error" alike.
emit_clearing_event(r) ==
    IF browser[r] THEN clear_participant_actions(r) ELSE UNCHANGED participant_actions

-----------------------------------------------------------------------------
(* start_run, in the request thread.  A conflict answers 409 and changes   *)
(* nothing.                                                                *)

start_run(r, prompts) ==
    /\ create_run(r)
    /\ GoTo(r, "created")
    /\ browser' = [browser EXCEPT ![r] = prompts]
    /\ UNCHANGED <<sessionVars, step, awaited, clientVars>>

thread_start(r) ==
    /\ engine[r] = "created"
    /\ \/ GoTo(r, "started")
       \/ ThreadsExhaustible /\ GoTo(r, "lost")
    /\ UNCHANGED <<storeVars, sessionVars, step, awaited, browser, clientVars>>

-----------------------------------------------------------------------------
(* _execute_run, in the engine thread of r.                                *)

MarkRunning(r) ==
    /\ engine[r] = "started"
    /\ mark_running(r)
    /\ GoTo(r, "marked")
    /\ UNCHANGED <<sessionVars, step, awaited, browser, clientVars>>

\* get_run; a missing record ends the thread.  The HTTP client comes next:
\* a ValueError from building it fails the run.
ReadRecord(r) ==
    /\ engine[r] = "marked"
    /\ IF Present(r) THEN GoTo(r, "executing") \/ GoTo(r, "failing") ELSE GoTo(r, "sweeping")
    /\ UNCHANGED <<storeVars, sessionVars, step, awaited, browser, clientVars>>

AtStep(r) == engine[r] = "executing" /\ step[r] \in Steps

NextStep(r) ==
    /\ GoTo(r, "executing")
    /\ step' = [step EXCEPT ![r] = @ + 1]
    /\ awaited' = [awaited EXCEPT ![r] = NoState]

\* A step that leaves no trace in either store: an HTTP step (passed, failed
\* by an assertion, or skipped), or a PSU step that ends before it has a
\* session (skipped, unresolved placeholder, bad URL, session cap reached).
PlainStep(r) ==
    /\ AtStep(r)
    /\ emit_step_completed(r, step[r])
    /\ NextStep(r)
    /\ UNCHANGED <<active_run_id, status, finished_at, now, sessionVars, browser, clientVars>>

\* An HTTP step whose exchange fails (JsonHttpClientError) emits
\* "application-error" for the step before it is reported as failed.
TransportError(r) ==
    /\ AtStep(r)
    /\ emit_clearing_event(r)
    /\ NextStep(r)
    /\ UNCHANGED <<active_run_id, status, finished_at, now, sessionVars, browser, clientVars>>

PsuRegister(r, s) ==
    /\ AtStep(r)
    /\ register(r, s)
    /\ GoTo(r, "preparing")
    /\ awaited' = [awaited EXCEPT ![r] = s]
    /\ UNCHANGED <<storeVars, step, browser, clientVars>>

\* The request object cannot be built: the step ends, its session stays.
PsuRequestObjectFails(r) ==
    /\ engine[r] = "preparing"
    /\ emit_step_completed(r, step[r])
    /\ NextStep(r)
    /\ UNCHANGED <<active_run_id, status, finished_at, now, sessionVars, browser, clientVars>>

PsuPublishUrl(r) ==
    /\ engine[r] = "preparing"
    /\ emit_psu_authorization_url(r, step[r])
    /\ GoTo(r, "polling")
    /\ UNCHANGED <<active_run_id, status, finished_at, now, sessionVars, step, awaited, browser, clientVars>>

\* A poll that finds the session resolved completes the step.
PsuResolved(r) ==
    /\ engine[r] = "polling"
    /\ Visible(r, awaited[r]) /\ session_status[awaited[r]] \in ResolvedStatuses
    /\ emit_step_completed(r, step[r])
    /\ NextStep(r)
    /\ UNCHANGED <<active_run_id, status, finished_at, now, sessionVars, browser, clientVars>>

\* The deadline is tested after the poll, so it can pass at any moment: also
\* when a callback has resolved the session since the last poll.
PsuTimeout(r) ==
    /\ engine[r] = "polling"
    /\ emit_step_completed(r, step[r])
    /\ NextStep(r)
    /\ UNCHANGED <<active_run_id, status, finished_at, now, sessionVars, browser, clientVars>>

\* "run-completed", after the last step.
PlanCompleted(r) ==
    /\ engine[r] = "executing" /\ step[r] \notin Steps
    /\ emit_clearing_event(r)
    /\ GoTo(r, "finishing")
    /\ UNCHANGED <<active_run_id, status, finished_at, now, sessionVars, step, awaited, browser, clientVars>>

\* An exception leaves the plan: "application-error", then the handler of
\* _execute_run.
PlanRaises(r) ==
    /\ engine[r] \in {"executing", "preparing", "polling"}
    /\ emit_clearing_event(r)
    /\ GoTo(r, "failing")
    /\ UNCHANGED <<active_run_id, status, finished_at, now, sessionVars, step, awaited, browser, clientVars>>

\* Writing the result file or flushing the log raises OSError.
PersistFails(r) ==
    /\ engine[r] = "finishing"
    /\ GoTo(r, "failing")
    /\ UNCHANGED <<storeVars, sessionVars, step, awaited, browser, clientVars>>

MarkCompleted(r) ==
    /\ engine[r] = "finishing"
    /\ mark_completed(r)
    /\ GoTo(r, "sweeping")
    /\ UNCHANGED <<sessionVars, step, awaited, browser, clientVars>>

\* The thread's local variables are gone.
ThreadEnds(r) ==
    /\ GoTo(r, "exited")
    /\ step' = [step EXCEPT ![r] = 1]
    /\ awaited' = [awaited EXCEPT ![r] = NoState]
    /\ browser' = [browser EXCEPT ![r] = FALSE]

\* Mutant of MarkFailed: the thread ends without the finally clause.
MarkFailedNoFinally(r) ==
    /\ engine[r] = "failing"
    /\ mark_failed(r)
    /\ ThreadEnds(r)
    /\ UNCHANGED <<sessionVars, clientVars>>

MarkFailed(r) ==
    /\ engine[r] = "failing"
    /\ mark_failed(r)
    /\ GoTo(r, "sweeping")
    /\ UNCHANGED <<sessionVars, step, awaited, browser, clientVars>>

\* The finally clause.
Sweep(r) ==
    /\ engine[r] = "sweeping"
    /\ discard_for_run(r)
    /\ ThreadEnds(r)
    /\ UNCHANGED <<storeVars, clientVars>>

-----------------------------------------------------------------------------
(* register_auth_session, one request of client c.  Requests refused by    *)
(* the first test of the run (404, 409) or by the parser change nothing.   *)

CheckRun(c, r, s) ==
    /\ client[c] = "idle"
    /\ status[r] \in ActiveStatuses
    /\ client' = [client EXCEPT ![c] = "checked"]
    /\ client_run' = [client_run EXCEPT ![c] = r]
    /\ client_state' = [client_state EXCEPT ![c] = s]
    /\ UNCHANGED <<storeVars, sessionVars, engineVars>>

Respond(c) ==
    /\ client' = [client EXCEPT ![c] = "idle"]
    /\ client_run' = [client_run EXCEPT ![c] = NoRun]
    /\ client_state' = [client_state EXCEPT ![c] = NoState]

RegisterSession(c) ==
    /\ client[c] = "checked"
    /\ \/ /\ register(client_run[c], client_state[c])
          /\ client' = [client EXCEPT ![c] = "registered"]
          /\ UNCHANGED <<client_run, client_state>>
       \/ /\ ~CanRegister(client_run[c], client_state[c])
          /\ Respond(c)
          /\ UNCHANGED sessionVars
    /\ UNCHANGED <<storeVars, engineVars>>

\* Mutant of Revalidate: the run is not looked up again.
RevalidateNothing(c) ==
    /\ client[c] = "registered"
    /\ Respond(c)
    /\ UNCHANGED <<storeVars, sessionVars, engineVars>>

\* The second lookup: 201 for a run that is still active.
Revalidate(c) ==
    /\ client[c] = "registered"
    /\ IF status[client_run[c]] \in ActiveStatuses
         THEN Respond(c)
         ELSE /\ client' = [client EXCEPT ![c] = "rollback"]
              /\ UNCHANGED <<client_run, client_state>>
    /\ UNCHANGED <<storeVars, sessionVars, engineVars>>

Rollback(c) ==
    /\ client[c] = "rollback"
    /\ discard(client_run[c], client_state[c])
    /\ Respond(c)
    /\ UNCHANGED <<storeVars, engineVars>>

-----------------------------------------------------------------------------
(* callback_view: the PSU's browser arrives with a state token and a code  *)
(* or an error.  It may arrive late, more than once, or never; unknown and *)
(* resolved states answer 400 and change nothing.                          *)

callback_view(s) ==
    /\ capture_code(s) \/ capture_error(s)
    /\ UNCHANGED <<storeVars, engineVars, clientVars>>

-----------------------------------------------------------------------------
EngineProgress(r) ==
    \/ thread_start(r)
    \/ MarkRunning(r)
    \/ ReadRecord(r)
    \/ PlainStep(r)
    \/ TransportError(r)
    \/ \E s \in States : PsuRegister(r, s)
    \/ PsuRequestObjectFails(r)
    \/ PsuPublishUrl(r)
    \/ PsuResolved(r)
    \/ PsuTimeout(r)
    \/ PlanCompleted(r)
    \/ MarkCompleted(r)
    \/ MarkFailed(r)
    \/ Sweep(r)

EngineFault(r) == PlanRaises(r) \/ PersistFails(r)

EngineStep(r) == EngineProgress(r) \/ EngineFault(r)

ClientStep(c) == RegisterSession(c) \/ Revalidate(c) \/ Rollback(c)

Next ==
    \/ \E r \in RunIds, prompts \in BOOLEAN : start_run(r, prompts)
    \/ \E r \in RunIds : EngineStep(r)
    \/ \E c \in Clients, r \in RunIds, s \in States : CheckRun(c, r, s)
    \/ \E c \in Clients : ClientStep(c)
    \/ \E s \in States : callback_view(s)

Spec == Init /\ [][Next]_vars

\* An engine thread and a request handler that can go on do so in the end:
\* Python's threads are scheduled fairly, no lock is held across a wait, every
\* HTTP exchange has a timeout and a PSU step a deadline.  Nothing makes a PSU
\* answer, a client call, a run start or an exception happen.
Fairness ==
    /\ \A r \in RunIds : WF_vars(EngineProgress(r))
    /\ \A c \in Clients : WF_vars(ClientStep(c))

FairSpec == Spec /\ Fairness

-----------------------------------------------------------------------------
(* Safety.                                                                 *)

\* The run slot and the records agree: active_run_id names the one run whose
\* record is pending or running, and is empty when there is none.  create_run
\* relies on it to refuse a second run, and to admit the next one.
SlotNamesTheActiveRun ==
    \A r \in RunIds : status[r] \in ActiveStatuses <=> active_run_id = r

\* The record of a run follows its thread: it is there, and not terminal, for
\* as long as the thread works, so get_run in _execute_run finds it and every
\* status the API reports is one the thread has reached.  Pruning and the
\* transitions of other runs never touch it.
RecordFollowsEngine ==
    \A r \in RunIds :
      /\ engine[r] = "none" <=> status[r] = "unborn"
      /\ engine[r] \in {"created", "lost", "started"} <=> status[r] = "pending"
      /\ engine[r] \in Working \ {"started"} <=> status[r] = "running"

\* No two engine threads execute plans at the same time, whichever of them a
\* request thread is still starting.
OneEngineAtATime ==
    \A p, q \in RunIds :
      engine[p] \in Working /\ engine[q] \in Working => p = q

\* A session never outlives everybody who would drop it: either the thread of
\* its run has not swept yet, or the request that registered it has yet to
\* look at the run again.  This is the race register_auth_session closes by
\* re-validating the run after register.
NoOrphanSession ==
    \A s \in States :
      Registered(s) =>
        \/ engine[session_run[s]] # "exited"
        \/ \E c \in Clients :
             /\ client[c] \in {"registered", "rollback"}
             /\ client_run[c] = session_run[s]
             /\ client_state[c] = s

\* A request that has passed its first test names a run that was admitted,
\* and rolls its session back only when that run is over: a registration for
\* a run that is still pending or running is never undone.
RollbackOnlyAfterTheRun ==
    \A c \in Clients :
      /\ client[c] # "idle" =>
           /\ client_run[c] \in RunIds
           /\ client_state[c] \in States
           /\ status[client_run[c]] # "unborn"
      /\ client[c] = "rollback" => status[client_run[c]] \notin ActiveStatuses

\* The session a PSU step waits for stays in the store and belongs to the
\* step's run for as long as the step waits: no rollback of another request,
\* sweep of another run or reuse of its state token takes it away, so a poll
\* never sees None.
AwaitedSessionIsKept ==
    \A r \in RunIds :
      engine[r] \in {"preparing", "polling"} => awaited[r] \in States /\ Visible(r, awaited[r])

\* A link the browser page shows as pending belongs to the PSU step the
\* engine is waiting in: answered, timed-out, failed and terminal steps leave
\* no link that the PSU could still be sent to.
PendingPromptIsLive ==
    \A r \in RunIds, k \in Steps :
      participant_actions[r][k] = "pending" => engine[r] = "polling" /\ step[r] = k

-----------------------------------------------------------------------------
(* Action properties.                                                      *)

\* A terminal status is final, and a pruned record does not come back
\* ("Lifecycle states beyond which a run will not transition again").
TerminalIsFinal ==
    [][\A r \in RunIds :
         /\ status[r] \in TerminalStatuses => status'[r] \in {status[r], "pruned"}
         /\ status[r] = "pruned" => status'[r] = "pruned"]_vars

\* The answer of the PSU is consumed once: a resolved session keeps its
\* outcome until it is dropped, whoever calls back again.
AnswerIsOneShot ==
    [][\A s \in States :
         session_status[s] \in ResolvedStatuses =>
           session_status'[s] \in {session_status[s], "none"}]_vars

\* A session is dropped only once its run is over (by the sweep or by the
\* rollback of the request that added it), never under a run that may still
\* poll it.
SessionsDroppedOnlyAfterTheRun ==
    [][\A s \in States :
         Registered(s) /\ session_run'[s] # session_run[s]
           => status[session_run[s]] \notin ActiveStatuses]_vars

\* clear_participant_action: "the matching action is marked completed so the
\* browser UI can still render completion state.  Run terminal cleanup passes
\* no step ID so all action state is discarded": a completed action is kept
\* until the plan is over.
CompletedPromptKeptUntilTheEnd ==
    [][\A r \in RunIds, k \in Steps :
         participant_actions[r][k] = "completed" /\ engine'[r] = "executing"
           => participant_actions'[r][k] = "completed"]_vars

-----------------------------------------------------------------------------
(* Liveness, under FairSpec.                                               *)

\* Every run that gets a thread ends, whatever the PSU does: the slot does
\* not stay taken.
RunsTerminate ==
    \A r \in RunIds :
      active_run_id = r ~> (active_run_id # r /\ status[r] \in TerminalStatuses \union {"pruned"})

\* Every session is dropped in the end, including the ones registered while
\* their run was ending.
SessionsAreDropped ==
    \A s \in States : Registered(s) ~> ~Registered(s)

-----------------------------------------------------------------------------
(* The run service: what is left of the system when threads, sessions,     *)
(* links and clocks are hidden.                                            *)

phase ==
    [r \in RunIds |->
       IF status[r] \in ActiveStatuses THEN "active"
       ELSE IF status[r] = "pruned" THEN "forgotten"
       ELSE status[r]]

Service == INSTANCE SingleRunService WITH Runs <- RunIds, Keep <- MaxTerminalRecords

\* The engine, the handlers and the stores implement the service: runs are
\* admitted one at a time, each is decided once and in the end, and admission
\* forgets exactly the decided runs beyond the MAX_TERMINAL_RECORDS youngest.
ImplementsService == Service!ServiceSpec
=============================================================================
