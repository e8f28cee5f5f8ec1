------------------------- MODULE RunLifecycleProofs -------------------------
(***************************************************************************)
(* Proofs about RunLifecycle, for every number of runs, plan steps, state  *)
(* tokens and concurrent requests, and every value of the two caps.        *)
(***************************************************************************)
EXTENDS RunLifecycle, FiniteSetTheorems, TLAPS

(***************************************************************************)
(* Next has an action for every kind of step.  The proofs of invariance    *)
(* treat them in four groups: the engine's steps that only touch links and *)
(* its own control state (LinkStep), the ones that touch a run record, the *)
(* ones that touch the sessions, and the requests.                         *)
(***************************************************************************)
LinkStep(r) ==
    \/ PlainStep(r)
    \/ TransportError(r)
    \/ PsuRequestObjectFails(r)
    \/ PsuPublishUrl(r)
    \/ PsuResolved(r)
    \/ PsuTimeout(r)
    \/ PlanCompleted(r)
    \/ PlanRaises(r)

-----------------------------------------------------------------------------
(* Type correctness.                                                       *)

\* The operators that write participant_actions keep its type.
LEMMA PromptTypes ==
    ASSUME TypeOK, NEW r \in RunIds, NEW k,
           \/ emit_psu_authorization_url(r, k)
           \/ emit_step_completed(r, k)
           \/ emit_clearing_event(r)
    PROVE  participant_actions' \in [RunIds -> [Steps -> {"none", "pending", "completed"}]]
<1> DEFINE Links == {"none", "pending", "completed"}
<1>1. participant_actions \in [RunIds -> [Steps -> Links]]
  BY Zenon DEF TypeOK, StoreTypeOK
<1>2. NoActions \in [Steps -> Links]
  BY Zenon DEF NoActions
<1>3. \A v \in Links : [participant_actions[r] EXCEPT ![k] = v] \in [Steps -> Links]
  BY <1>1, Zenon
<1>4. participant_actions' \in
        {participant_actions,
         [participant_actions EXCEPT ![r] = NoActions],
         [participant_actions EXCEPT ![r] = [participant_actions[r] EXCEPT ![k] = "pending"]],
         [participant_actions EXCEPT ![r] = [participant_actions[r] EXCEPT ![k] = "completed"]]}
  BY Zenon DEF emit_psu_authorization_url, emit_step_completed, emit_clearing_event,
         set_participant_action, complete_participant_action, clear_participant_actions
<1> QED
  BY <1>1, <1>2, <1>3, <1>4, ZenonT(60)

\* Init establishes the types.
LEMMA InitType == Init => TypeOK
  BY RunIdentityAssumption, RunStoreAssumption
     DEF Init, TypeOK, StoreInit, StoreTypeOK, SessionInit, SessionTypeOK, NoActions,
         EngineStates, ClientStates, Statuses, RunIds, Steps

\* A step that only writes links and the engine's control state.
LEMMA LinkStepType ==
    ASSUME TypeOK, NEW r \in RunIds, LinkStep(r)
    PROVE  TypeOK'
<1>1. participant_actions' \in [RunIds -> [Steps -> {"none", "pending", "completed"}]]
  BY PromptTypes, Zenon DEF LinkStep, PlainStep, TransportError, PsuRequestObjectFails,
     PsuPublishUrl, PsuResolved, PsuTimeout, PlanCompleted, PlanRaises
<1>2. StoreTypeOK' /\ SessionTypeOK'
  BY <1>1, Zenon DEF TypeOK, StoreTypeOK, SessionTypeOK, sessionVars, LinkStep, PlainStep, TransportError,
     PsuRequestObjectFails, PsuPublishUrl, PsuResolved, PsuTimeout, PlanCompleted, PlanRaises
<1>3. engine' \in [RunIds -> EngineStates]
  BY ZenonT(60) DEF TypeOK, GoTo, NextStep, EngineStates, Working, LinkStep, PlainStep, TransportError,
     PsuRequestObjectFails, PsuPublishUrl, PsuResolved, PsuTimeout, PlanCompleted, PlanRaises
<1>4. /\ step' \in [RunIds -> 1 .. PlanLength + 1]
      /\ \A q \in RunIds : engine'[q] \in {"preparing", "polling"} => step'[q] \in Steps
  <2>1. CASE NextStep(r) /\ step[r] \in Steps
    BY <2>1, RunStoreAssumption DEF TypeOK, NextStep, GoTo, Steps
  <2>2. CASE UNCHANGED step /\ (PsuPublishUrl(r) \/ PlanCompleted(r) \/ PlanRaises(r))
    BY <2>2, Zenon DEF TypeOK, GoTo, PsuPublishUrl, PlanCompleted, PlanRaises
  <2> QED
    BY <2>1, <2>2, Zenon DEF TypeOK, AtStep, LinkStep, PlainStep, TransportError,
       PsuRequestObjectFails, PsuPublishUrl, PsuResolved, PsuTimeout, PlanCompleted, PlanRaises
<1>5. awaited' \in [RunIds -> States \union {NoState}] /\ UNCHANGED <<browser, clientVars>>
  BY Zenon DEF TypeOK, NextStep, LinkStep, PlainStep, TransportError,
     PsuRequestObjectFails, PsuPublishUrl, PsuResolved, PsuTimeout, PlanCompleted, PlanRaises
<1> QED
  BY <1>2, <1>3, <1>4, <1>5, Zenon DEF TypeOK, clientVars

\* Every step preserves the types.
LEMMA NextType ==
    ASSUME TypeOK, [Next]_vars
    PROVE  TypeOK'
<1> USE RunIdentityAssumption DEF TypeOK, StoreTypeOK, SessionTypeOK
<1>1. ASSUME NEW r \in RunIds, NEW prompts \in BOOLEAN, start_run(r, prompts)
      PROVE  TypeOK'
  BY <1>1, Zenon DEF start_run, create_run, GoTo, sessionVars, clientVars, Statuses, ActiveStatuses,
     TerminalStatuses, EngineStates
<1>2. ASSUME NEW r \in RunIds, LinkStep(r)
      PROVE  TypeOK'
  BY <1>2, LinkStepType, Zenon
<1>3. ASSUME NEW r \in RunIds, thread_start(r) \/ ReadRecord(r) \/ PersistFails(r)
      PROVE  TypeOK'
  BY <1>3, ZenonT(60) DEF thread_start, ReadRecord, PersistFails, GoTo, storeVars, sessionVars, clientVars,
     EngineStates, Working
<1>4. ASSUME NEW r \in RunIds, MarkRunning(r)
      PROVE  TypeOK'
  BY <1>4, Zenon DEF MarkRunning, mark_running, GoTo, sessionVars, clientVars, EngineStates, Working,
     Statuses, ActiveStatuses
<1>5. ASSUME NEW r \in RunIds, MarkCompleted(r) \/ MarkFailed(r)
      PROVE  TypeOK'
  <2>1. StoreTypeOK'
    <3>1. PICK outcome \in TerminalStatuses : mark_terminal(r, outcome)
      BY <1>5, Zenon DEF MarkCompleted, MarkFailed, mark_completed, mark_failed, TerminalStatuses
    <3>2. NoActions \in [Steps -> {"none", "pending", "completed"}]
      BY Zenon DEF NoActions
    <3>3. CASE Present(r)
      <4>1. PICK t \in {now, now + 1} :
              /\ now' = t
              /\ finished_at' = [finished_at EXCEPT ![r] = t]
              /\ status' = [status EXCEPT ![r] = outcome]
              /\ participant_actions' = [participant_actions EXCEPT ![r] = NoActions]
              /\ active_run_id' = IF active_run_id = r THEN NoRun ELSE active_run_id
        BY <3>1, <3>3, Zenon DEF mark_terminal
      <4>2. t \in Nat
        BY <4>1
      <4>3. now' \in Nat /\ finished_at' \in [RunIds -> Nat]
        BY <4>1, <4>2, Zenon
      <4>4. /\ status' \in [RunIds -> Statuses]
            /\ active_run_id' \in RunIds \union {NoRun}
        BY <4>1, Zenon DEF Statuses
      <4>5. participant_actions' \in [RunIds -> [Steps -> {"none", "pending", "completed"}]]
        BY <4>1, <3>2, Zenon
      <4> QED
        BY <4>3, <4>4, <4>5, Zenon
    <3>4. CASE ~Present(r)
      BY <3>1, <3>4, Zenon DEF mark_terminal, storeVars
    <3> QED
      BY <3>3, <3>4, Zenon
  <2> QED
    BY <1>5, <2>1, Zenon DEF MarkCompleted, MarkFailed, GoTo, sessionVars, clientVars, EngineStates
<1>6. ASSUME NEW r \in RunIds, NEW s \in States, PsuRegister(r, s)
      PROVE  TypeOK'
  BY <1>6, Zenon DEF PsuRegister, AtStep, register, GoTo, storeVars, clientVars, EngineStates, Working
<1>7. ASSUME NEW r \in RunIds, Sweep(r)
      PROVE  TypeOK'
  BY <1>7, RunStoreAssumption, SMTT(60) DEF Sweep, ThreadEnds, GoTo, discard_for_run, Drop, storeVars, clientVars,
     EngineStates, Steps
<1>8. ASSUME NEW c \in Clients, NEW r \in RunIds, NEW s \in States, CheckRun(c, r, s)
      PROVE  TypeOK'
  BY <1>8, Zenon DEF CheckRun, storeVars, sessionVars, engineVars, ClientStates
<1>9. ASSUME NEW c \in Clients, ClientStep(c)
      PROVE  TypeOK'
  <2>1. CASE RegisterSession(c)
    BY <2>1, Zenon DEF RegisterSession, register, Respond, storeVars, sessionVars, engineVars, ClientStates
  <2>2. CASE Revalidate(c)
    BY <2>2, ZenonT(60) DEF Revalidate, Respond, storeVars, sessionVars, engineVars, ClientStates
  <2>3. CASE Rollback(c)
    BY <2>3, Zenon DEF Rollback, discard, Drop, Respond, storeVars, engineVars, ClientStates
  <2> QED
    BY <1>9, <2>1, <2>2, <2>3, Zenon DEF ClientStep
<1>10. ASSUME NEW s \in States, callback_view(s)
       PROVE  TypeOK'
  BY <1>10, Zenon DEF callback_view, capture_code, capture_error, capture, ResolvedStatuses, storeVars,
     engineVars, clientVars
<1>11. CASE UNCHANGED vars
  BY <1>11, Zenon DEF vars, storeVars, sessionVars, engineVars, clientVars
<1> HIDE RunIdentityAssumption DEF TypeOK, StoreTypeOK, SessionTypeOK
<1> QED
  BY <1>1, <1>2, <1>3, <1>4, <1>5, <1>6, <1>7, <1>8, <1>9, <1>10, <1>11, Zenon
     DEF Next, EngineStep, EngineProgress, EngineFault, LinkStep

\* Every state the system reaches is well typed.
THEOREM TypeCorrect == Spec => []TypeOK
<1>1. Init => TypeOK
  BY InitType, Zenon
<1>2. TypeOK /\ [Next]_vars => TypeOK'
  BY NextType, Zenon
<1> QED
  BY <1>1, <1>2, PTL DEF Spec

-----------------------------------------------------------------------------
(* The run slot, the records and the threads.  Neither part is inductive   *)
(* alone: the slot is right because a thread finds its own record active   *)
(* when it marks it terminal, and records are left alone because only the  *)
(* holder of the slot is active.                                           *)

RunInv == SlotNamesTheActiveRun /\ RecordFollowsEngine

\* What the steps that leave the run records alone have in common.
LEMMA QuietSteps ==
    ASSUME TypeOK, RunInv, UNCHANGED <<active_run_id, status>>,
           \A r \in RunIds :
             \/ engine'[r] = engine[r]
             \/ engine[r] \in {"created", "lost", "started"} /\ engine'[r] \in {"created", "lost", "started"}
             \/ engine[r] \in Working \ {"started"} /\ engine'[r] \in Working \ {"started"}
             \/ engine[r] = "sweeping" /\ engine'[r] = "exited"
    PROVE  RunInv'
  BY Zenon DEF RunInv, SlotNamesTheActiveRun, RecordFollowsEngine, Working

\* A thread that marks its record terminal frees the slot it holds.
LEMMA MarkTerminalRunInv ==
    ASSUME TypeOK, RunInv, NEW r \in RunIds, NEW outcome \in TerminalStatuses,
           engine[r] \in Working \ {"started"}, mark_terminal(r, outcome), GoTo(r, "sweeping")
    PROVE  RunInv'
<1>1. status[r] = "running" /\ active_run_id = r
  BY Zenon DEF RunInv, SlotNamesTheActiveRun, RecordFollowsEngine, ActiveStatuses
<1>2. /\ status' = [status EXCEPT ![r] = outcome]
      /\ active_run_id' = NoRun
  BY <1>1, Zenon DEF mark_terminal, Present, ActiveStatuses
<1>3. engine' = [engine EXCEPT ![r] = "sweeping"]
  BY Zenon DEF GoTo
<1> QED
  BY <1>1, <1>2, <1>3, RunIdentityAssumption, ZenonT(60)
     DEF TypeOK, StoreTypeOK, RunInv, SlotNamesTheActiveRun, RecordFollowsEngine, Working,
         ActiveStatuses, TerminalStatuses

\* Every step preserves the agreement of slot, records and threads.
LEMMA NextRunInv ==
    ASSUME TypeOK, RunInv, [Next]_vars
    PROVE  RunInv'
<1>1. ASSUME NEW r \in RunIds, NEW prompts \in BOOLEAN, start_run(r, prompts)
      PROVE  RunInv'
  <2>1. /\ active_run_id = NoRun /\ active_run_id' = r
        /\ status[r] = "unborn"
        /\ status' = [q \in RunIds |->
                        IF q = r THEN "pending" ELSE IF Evicted(q) THEN "pruned" ELSE status[q]]
        /\ engine' = [engine EXCEPT ![r] = "created"]
    BY <1>1, Zenon DEF start_run, create_run, FreshRunId, GoTo
  <2>2. \A q \in RunIds : Evicted(q) => status[q] \in TerminalStatuses
    BY Zenon DEF Evicted, Terminal
  <2>3. \A q \in RunIds : status[q] \notin ActiveStatuses
    BY <2>1, RunIdentityAssumption, Zenon DEF RunInv, SlotNamesTheActiveRun
  <2>4. \A q \in RunIds \ {r} :
          /\ engine'[q] = engine[q]
          /\ status'[q] \in {status[q], "pruned"}
          /\ status'[q] # status[q] => status[q] \in TerminalStatuses
    BY <2>1, <2>2, Zenon DEF TypeOK
  <2>5. status'[r] = "pending" /\ engine'[r] = "created"
    BY <2>1, Zenon DEF TypeOK
  <2>6. SlotNamesTheActiveRun'
    BY <2>1, <2>3, <2>4, <2>5, Zenon DEF SlotNamesTheActiveRun, ActiveStatuses
  <2>7. RecordFollowsEngine'
    BY <2>4, <2>5, ZenonT(60) DEF RunInv, RecordFollowsEngine, Working, TerminalStatuses
  <2> QED
    BY <2>6, <2>7, Zenon DEF RunInv
<1>2. ASSUME NEW r \in RunIds, MarkRunning(r)
      PROVE  RunInv'
  <2>1. status[r] = "pending" /\ engine[r] = "started"
    BY <1>2, Zenon DEF MarkRunning, RunInv, RecordFollowsEngine
  <2>2. /\ status' = [status EXCEPT ![r] = "running"]
        /\ engine' = [engine EXCEPT ![r] = "marked"]
        /\ active_run_id' = active_run_id
    BY <1>2, <2>1, Zenon DEF MarkRunning, mark_running, Present, ActiveStatuses, GoTo
  <2> QED
    BY <2>1, <2>2, Zenon DEF TypeOK, StoreTypeOK, RunInv, SlotNamesTheActiveRun, RecordFollowsEngine,
       ActiveStatuses, Working
<1>3. ASSUME NEW r \in RunIds, MarkCompleted(r) \/ MarkFailed(r)
      PROVE  RunInv'
  BY <1>3, MarkTerminalRunInv, Zenon
     DEF MarkCompleted, MarkFailed, mark_completed, mark_failed, TerminalStatuses, Working
<1>4. ASSUME NEW r \in RunIds, LinkStep(r)
      PROVE  RunInv'
  <2>1. /\ engine[r] \in {"executing", "preparing", "polling"}
        /\ \E pc \in {"executing", "polling", "finishing", "failing"} : GoTo(r, pc)
        /\ UNCHANGED <<active_run_id, status>>
    BY <1>4, Zenon DEF LinkStep, PlainStep, TransportError, PsuRequestObjectFails, PsuPublishUrl,
       PsuResolved, PsuTimeout, PlanCompleted, PlanRaises, AtStep, NextStep
  <2> QED
    BY <2>1, QuietSteps, Zenon DEF TypeOK, GoTo, Working
<1>5. ASSUME NEW r \in RunIds, ReadRecord(r)
      PROVE  RunInv'
  <2>1. Present(r)
    BY <1>5, Zenon DEF ReadRecord, Present, ActiveStatuses, RunInv, RecordFollowsEngine, Working
  <2> QED
    BY <1>5, <2>1, QuietSteps DEF ReadRecord, TypeOK, GoTo, Working, storeVars
<1>6. ASSUME NEW r \in RunIds,
             thread_start(r) \/ PersistFails(r) \/ Sweep(r) \/ \E s \in States : PsuRegister(r, s)
      PROVE  RunInv'
  BY <1>6, QuietSteps DEF thread_start, PersistFails, PsuRegister, AtStep, Sweep, ThreadEnds, GoTo, TypeOK,
     Working, storeVars
<1>7. ASSUME UNCHANGED <<storeVars, engineVars>>
      PROVE  RunInv'
  BY <1>7, QuietSteps, Zenon DEF storeVars, engineVars
<1>8. ASSUME NEW c \in Clients,
             ClientStep(c) \/ \E r \in RunIds, s \in States : CheckRun(c, r, s)
      PROVE  RunInv'
  BY <1>7, <1>8, Zenon DEF ClientStep, RegisterSession, Revalidate, Rollback, CheckRun
<1>9. ASSUME NEW s \in States, callback_view(s)
      PROVE  RunInv'
  BY <1>7, <1>9, Zenon DEF callback_view
<1>10. CASE UNCHANGED vars
  BY <1>7, <1>10, Zenon DEF vars
<1> QED
  BY <1>1, <1>2, <1>3, <1>4, <1>5, <1>6, <1>8, <1>9, <1>10, Zenon
     DEF Next, EngineStep, EngineProgress, EngineFault, LinkStep

\* The agreement holds in every state the system reaches.
LEMMA RunInvariant == Spec => [](TypeOK /\ RunInv)
<1>1. Init => TypeOK /\ RunInv
  BY InitType, RunIdentityAssumption
     DEF Init, StoreInit, RunInv, SlotNamesTheActiveRun, RecordFollowsEngine, ActiveStatuses, Working
<1>2. TypeOK /\ RunInv /\ [Next]_vars => (TypeOK /\ RunInv)'
  BY NextType, NextRunInv, Zenon
<1> QED
  BY <1>1, <1>2, PTL DEF Spec

\* The run slot names the one pending or running run, or is empty when there
\* is none, after any interleaving of create_run, mark_completed and
\* mark_failed.
THEOREM SlotIsExact == Spec => []SlotNamesTheActiveRun
<1>1. TypeOK /\ RunInv => SlotNamesTheActiveRun
  BY Zenon DEF RunInv
<1> QED
  BY <1>1, RunInvariant, PTL

\* The record of a run is in the store, with the status its thread last set,
\* for as long as the thread works: _execute_run never finds it missing.
THEOREM RecordsFollowEngines == Spec => []RecordFollowsEngine
<1>1. TypeOK /\ RunInv => RecordFollowsEngine
  BY Zenon DEF RunInv
<1> QED
  BY <1>1, RunInvariant, PTL

\* No two threads of _execute_run work at the same time.
THEOREM MutualExclusion == Spec => []OneEngineAtATime
<1>1. TypeOK /\ RunInv => OneEngineAtATime
  BY Zenon DEF RunInv, SlotNamesTheActiveRun, RecordFollowsEngine, OneEngineAtATime, ActiveStatuses
<1> QED
  BY <1>1, RunInvariant, PTL

\* What a step may do to a terminal or pruned record, from the agreement of
\* records and threads.
LEMMA StepKeepsTerminal ==
    ASSUME TypeOK, RunInv, [Next]_vars, NEW q \in RunIds,
           status[q] \in TerminalStatuses \union {"pruned"}
    PROVE  status'[q] \in {status[q], "pruned"}
<1>1. ASSUME NEW r \in RunIds, NEW prompts \in BOOLEAN, start_run(r, prompts)
      PROVE  status'[q] \in {status[q], "pruned"}
  BY <1>1, Zenon DEF start_run, create_run, FreshRunId, TerminalStatuses
<1>2. ASSUME NEW r \in RunIds, MarkRunning(r)
      PROVE  status'[q] \in {status[q], "pruned"}
  <2>1. status[r] = "pending"
    BY <1>2, Zenon DEF MarkRunning, RunInv, RecordFollowsEngine
  <2>2. status' = [status EXCEPT ![r] = "running"]
    BY <1>2, <2>1, Zenon DEF MarkRunning, mark_running, Present, ActiveStatuses
  <2> QED
    BY <2>1, <2>2, Zenon DEF TypeOK, StoreTypeOK, TerminalStatuses
<1>3. ASSUME NEW r \in RunIds, MarkCompleted(r) \/ MarkFailed(r)
      PROVE  status'[q] \in {status[q], "pruned"}
  <2>1. status[r] = "running"
    BY <1>3, Zenon DEF MarkCompleted, MarkFailed, RunInv, RecordFollowsEngine, Working
  <2>2. \E outcome \in TerminalStatuses : status' = [status EXCEPT ![r] = outcome]
    BY <1>3, <2>1, Zenon DEF MarkCompleted, MarkFailed, mark_completed, mark_failed, mark_terminal,
       Present, ActiveStatuses, TerminalStatuses
  <2> QED
    BY <2>1, <2>2, Zenon DEF TypeOK, StoreTypeOK, TerminalStatuses
<1>4. ASSUME UNCHANGED status
      PROVE  status'[q] \in {status[q], "pruned"}
  BY <1>4, Zenon
<1>5. ASSUME NEW r \in RunIds,
             \/ LinkStep(r) \/ thread_start(r) \/ ReadRecord(r) \/ PersistFails(r) \/ Sweep(r)
             \/ \E s \in States : PsuRegister(r, s)
      PROVE  UNCHANGED status
  BY <1>5, Zenon DEF LinkStep, PlainStep, TransportError, PsuRequestObjectFails, PsuPublishUrl,
     PsuResolved, PsuTimeout, PlanCompleted, PlanRaises, thread_start, ReadRecord, PersistFails,
     Sweep, PsuRegister, storeVars
<1>6. ASSUME NEW c \in Clients,
             ClientStep(c) \/ \E r \in RunIds, s \in States : CheckRun(c, r, s)
      PROVE  UNCHANGED status
  BY <1>6, Zenon DEF ClientStep, RegisterSession, Revalidate, Rollback, CheckRun, storeVars
<1>7. ASSUME NEW s \in States, callback_view(s)
      PROVE  UNCHANGED status
  BY <1>7, Zenon DEF callback_view, storeVars
<1>8. UNCHANGED vars => UNCHANGED status
  BY Zenon DEF vars, storeVars
<1> QED
  BY <1>1, <1>2, <1>3, <1>4, <1>5, <1>6, <1>7, <1>8, Zenon
     DEF Next, EngineStep, EngineProgress, EngineFault, LinkStep

\* A terminal run never changes its verdict and a pruned one never returns.
THEOREM TerminalStatusIsFinal == Spec => TerminalIsFinal
<1>1. TypeOK /\ RunInv /\ [Next]_vars
        => [\A r \in RunIds :
              /\ status[r] \in TerminalStatuses => status'[r] \in {status[r], "pruned"}
              /\ status[r] = "pruned" => status'[r] = "pruned"]_vars
  BY StepKeepsTerminal, Zenon
<1> QED
  BY <1>1, RunInvariant, PTL DEF Spec, TerminalIsFinal

-----------------------------------------------------------------------------
(* Sessions.  NoOrphanSession rests on the order of the two accesses at    *)
(* both ends: a thread sweeps after it has marked its record terminal, and *)
(* a request looks at the record after it has registered.                  *)

SessionInv == NoOrphanSession /\ RollbackOnlyAfterTheRun /\ AwaitedSessionIsKept

\* No step brings a run that was over back to life, or un-admits one.
LEMMA StatusMovesForward ==
    ASSUME TypeOK, RunInv, [Next]_vars, NEW q \in RunIds, status[q] # "unborn"
    PROVE  /\ status'[q] # "unborn"
           /\ status[q] \notin ActiveStatuses => status'[q] \notin ActiveStatuses
<1>1. CASE status[q] \in TerminalStatuses \union {"pruned"}
  BY <1>1, StepKeepsTerminal, Zenon DEF TerminalStatuses, ActiveStatuses
<1>2. CASE status[q] \in ActiveStatuses
  <2>1. RunInv' /\ TypeOK'
    BY NextRunInv, NextType, Zenon
  <2>2. engine[q] # "none"
    BY <1>2, Zenon DEF RunInv, RecordFollowsEngine, ActiveStatuses
  <2>3. ASSUME NEW r \in RunIds, NEW prompts \in BOOLEAN, start_run(r, prompts)
        PROVE  engine'[q] # "none"
    BY <2>2, <2>3, Zenon DEF start_run, GoTo, TypeOK
  <2>4. ASSUME NEW r \in RunIds, EngineStep(r)
        PROVE  engine'[q] # "none"
    BY <2>2, <2>4, Zenon DEF EngineStep, EngineProgress, EngineFault, PlainStep, TransportError,
       PsuRequestObjectFails, PsuPublishUrl, PsuResolved, PsuTimeout, PlanCompleted, PlanRaises,
       thread_start, ReadRecord, PersistFails, Sweep, PsuRegister, MarkRunning, MarkCompleted,
       MarkFailed, ThreadEnds, NextStep, GoTo, TypeOK
  <2>5. ASSUME UNCHANGED engineVars
        PROVE  engine'[q] # "none"
    BY <2>2, <2>5, Zenon DEF engineVars
  <2>6. engine'[q] # "none"
    BY <2>3, <2>4, <2>5, Zenon DEF Next, ClientStep, RegisterSession, Revalidate, Rollback, CheckRun,
       callback_view, vars
  <2> QED
    BY <1>2, <2>1, <2>6, Zenon DEF RunInv, RecordFollowsEngine
<1> QED
  BY <1>1, <1>2, Zenon DEF TypeOK, StoreTypeOK, Statuses

\* Steps that leave the sessions and the requests alone.
LEMMA SessionQuietSteps ==
    ASSUME TypeOK, RunInv, SessionInv, [Next]_vars, UNCHANGED <<sessionVars, clientVars>>,
           \A r \in RunIds :
             /\ engine'[r] = "exited" => engine[r] = "exited"
             /\ engine'[r] \in {"preparing", "polling"} =>
                  engine[r] \in {"preparing", "polling"} /\ awaited'[r] = awaited[r]
    PROVE  SessionInv'
<1>1. NoOrphanSession'
  BY RunIdentityAssumption
     DEF SessionInv, NoOrphanSession, Registered, sessionVars, clientVars, TypeOK, SessionTypeOK
<1>2. RollbackOnlyAfterTheRun'
  BY StatusMovesForward, Zenon DEF SessionInv, RollbackOnlyAfterTheRun, clientVars
<1>3. AwaitedSessionIsKept'
  BY Zenon DEF SessionInv, AwaitedSessionIsKept, Visible, sessionVars
<1> QED
  BY <1>1, <1>2, <1>3, Zenon DEF SessionInv

\* Every step preserves the session invariants.
LEMMA NextSessionInv ==
    ASSUME TypeOK, RunInv, SessionInv, [Next]_vars
    PROVE  SessionInv'
<1>1. ASSUME NEW r \in RunIds,
             \/ \E prompts \in BOOLEAN : start_run(r, prompts)
             \/ LinkStep(r) \/ thread_start(r) \/ MarkRunning(r) \/ ReadRecord(r)
             \/ PersistFails(r) \/ MarkCompleted(r) \/ MarkFailed(r)
      PROVE  SessionInv'
  <2>1. UNCHANGED <<sessionVars, clientVars>>
    BY <1>1, Zenon DEF start_run, LinkStep, PlainStep, TransportError, PsuRequestObjectFails,
       PsuPublishUrl, PsuResolved, PsuTimeout, PlanCompleted, PlanRaises, thread_start,
       MarkRunning, ReadRecord, PersistFails, MarkCompleted, MarkFailed
  <2>2. \/ \E pc \in EngineStates \ {"exited", "preparing", "polling"} : GoTo(r, pc)
        \/ engine[r] = "preparing" /\ GoTo(r, "polling") /\ UNCHANGED awaited
    BY <1>1, Zenon DEF start_run, LinkStep, PlainStep, TransportError, PsuRequestObjectFails,
       PsuPublishUrl, PsuResolved, PsuTimeout, PlanCompleted, PlanRaises, thread_start,
       MarkRunning, ReadRecord, PersistFails, MarkCompleted, MarkFailed, NextStep,
       EngineStates, Working
  <2>3. \A q \in RunIds \ {r} : engine'[q] = engine[q] /\ awaited'[q] = awaited[q]
    BY <1>1, Zenon DEF start_run, LinkStep, PlainStep, TransportError, PsuRequestObjectFails,
       PsuPublishUrl, PsuResolved, PsuTimeout, PlanCompleted, PlanRaises, thread_start,
       MarkRunning, ReadRecord, PersistFails, MarkCompleted, MarkFailed, NextStep, GoTo, TypeOK
  <2>4. \A q \in RunIds :
          /\ engine'[q] = "exited" => engine[q] = "exited"
          /\ engine'[q] \in {"preparing", "polling"} =>
               engine[q] \in {"preparing", "polling"} /\ awaited'[q] = awaited[q]
    BY <2>2, <2>3, Zenon DEF GoTo, TypeOK
  <2> QED
    BY <2>1, <2>4, SessionQuietSteps, Zenon
<1>2. ASSUME NEW r \in RunIds, NEW s \in States, PsuRegister(r, s)
      PROVE  SessionInv'
  <2>1. /\ session_run[s] = NoRun
        /\ session_run' = [session_run EXCEPT ![s] = r]
        /\ engine' = [engine EXCEPT ![r] = "preparing"]
        /\ awaited' = [awaited EXCEPT ![r] = s]
        /\ UNCHANGED clientVars
    BY <1>2, Zenon DEF PsuRegister, register, CanRegister, Registered, GoTo
  <2>2. NoOrphanSession'
    BY <2>1, RunIdentityAssumption
       DEF TypeOK, SessionTypeOK, SessionInv, NoOrphanSession, Registered, clientVars
  <2>3. RollbackOnlyAfterTheRun'
    BY <2>1, StatusMovesForward, Zenon DEF SessionInv, RollbackOnlyAfterTheRun, clientVars
  <2>4. AwaitedSessionIsKept'
    BY <2>1, RunIdentityAssumption, ZenonT(60)
       DEF TypeOK, SessionTypeOK, SessionInv, AwaitedSessionIsKept, Visible
  <2> QED
    BY <2>2, <2>3, <2>4, Zenon DEF SessionInv
<1>3. ASSUME NEW r \in RunIds, Sweep(r)
      PROVE  SessionInv'
  <2>1. /\ engine[r] = "sweeping" /\ engine' = [engine EXCEPT ![r] = "exited"]
        /\ session_run' = [s \in States |-> IF session_run[s] = r THEN NoRun ELSE session_run[s]]
        /\ awaited' = [awaited EXCEPT ![r] = NoState]
        /\ UNCHANGED clientVars
    BY <1>3, Zenon DEF Sweep, ThreadEnds, GoTo, discard_for_run, Drop, SessionsOf
  <2>2. NoOrphanSession'
    BY <2>1, RunIdentityAssumption
       DEF TypeOK, SessionTypeOK, SessionInv, NoOrphanSession, Registered, clientVars
  <2>3. RollbackOnlyAfterTheRun'
    BY <2>1, StatusMovesForward, Zenon DEF SessionInv, RollbackOnlyAfterTheRun, clientVars
  <2>4. AwaitedSessionIsKept'
    <3> SUFFICES ASSUME NEW q \in RunIds, engine'[q] \in {"preparing", "polling"}
                 PROVE  awaited'[q] \in States /\ session_run'[awaited'[q]] = q
      BY Zenon DEF AwaitedSessionIsKept, Visible
    <3>1. q # r /\ engine[q] \in {"preparing", "polling"} /\ awaited'[q] = awaited[q]
      BY <2>1, Zenon DEF TypeOK
    <3>2. awaited[q] \in States /\ session_run[awaited[q]] = q
      BY <3>1, Zenon DEF SessionInv, AwaitedSessionIsKept, Visible
    <3> QED
      BY <2>1, <3>1, <3>2, Zenon
  <2> QED
    BY <2>2, <2>3, <2>4, Zenon DEF SessionInv
<1>4. ASSUME NEW c \in Clients, NEW r \in RunIds, NEW s \in States, CheckRun(c, r, s)
      PROVE  SessionInv'
  <2>1. /\ client[c] = "idle" /\ client' = [client EXCEPT ![c] = "checked"]
        /\ client_run' = [client_run EXCEPT ![c] = r]
        /\ client_state' = [client_state EXCEPT ![c] = s]
        /\ status[r] # "unborn"
        /\ UNCHANGED <<status, engine, awaited, session_run>>
    BY <1>4, Zenon DEF CheckRun, storeVars, sessionVars, engineVars, ActiveStatuses
  <2>2. NoOrphanSession'
    <3> SUFFICES ASSUME NEW t \in States, session_run[t] # NoRun, engine[session_run[t]] = "exited"
                 PROVE  \E d \in Clients :
                          /\ client'[d] \in {"registered", "rollback"}
                          /\ client_run'[d] = session_run[t]
                          /\ client_state'[d] = t
      BY <2>1 DEF NoOrphanSession, Registered
    <3>1. PICK d \in Clients :
            /\ client[d] \in {"registered", "rollback"}
            /\ client_run[d] = session_run[t]
            /\ client_state[d] = t
      BY Zenon DEF SessionInv, NoOrphanSession, Registered
    <3> QED
      BY <2>1, <3>1, Zenon DEF TypeOK
  <2>3. RollbackOnlyAfterTheRun'
    BY <2>1, Zenon DEF TypeOK, SessionInv, RollbackOnlyAfterTheRun
  <2>4. AwaitedSessionIsKept'
    BY <2>1, Zenon DEF SessionInv, AwaitedSessionIsKept, Visible
  <2> QED
    BY <2>2, <2>3, <2>4, Zenon DEF SessionInv
<1>5. ASSUME NEW c \in Clients, RegisterSession(c)
      PROVE  SessionInv'
  <2>1. /\ client[c] = "checked"
        /\ client_run[c] \in RunIds /\ client_state[c] \in States
        /\ UNCHANGED <<status, engine, awaited>>
    BY <1>5, Zenon DEF RegisterSession, SessionInv, RollbackOnlyAfterTheRun, storeVars, engineVars
  <2>2. CASE /\ register(client_run[c], client_state[c])
             /\ client' = [client EXCEPT ![c] = "registered"]
             /\ UNCHANGED <<client_run, client_state>>
    <3>1. /\ session_run[client_state[c]] = NoRun
          /\ session_run' = [session_run EXCEPT ![client_state[c]] = client_run[c]]
      BY <2>2, Zenon DEF register, CanRegister, Registered
    <3>2. NoOrphanSession'
      BY <2>1, <2>2, <3>1, ZenonT(60) DEF TypeOK, SessionTypeOK, SessionInv, NoOrphanSession, Registered
    <3>3. RollbackOnlyAfterTheRun'
      BY <2>1, <2>2, Zenon DEF TypeOK, SessionInv, RollbackOnlyAfterTheRun
    <3>4. AwaitedSessionIsKept'
      BY <2>1, <3>1, RunIdentityAssumption, ZenonT(60)
         DEF TypeOK, SessionTypeOK, SessionInv, AwaitedSessionIsKept, Visible
    <3> QED
      BY <3>2, <3>3, <3>4, Zenon DEF SessionInv
  <2>3. CASE Respond(c) /\ UNCHANGED sessionVars
    <3>1. NoOrphanSession'
      BY <2>1, <2>3, Zenon DEF Respond, sessionVars, TypeOK, SessionInv, NoOrphanSession, Registered
    <3>2. RollbackOnlyAfterTheRun'
      BY <2>1, <2>3, Zenon DEF Respond, TypeOK, SessionInv, RollbackOnlyAfterTheRun
    <3>3. AwaitedSessionIsKept'
      BY <2>1, <2>3, Zenon DEF sessionVars, SessionInv, AwaitedSessionIsKept, Visible
    <3> QED
      BY <3>1, <3>2, <3>3, Zenon DEF SessionInv
  <2> QED
    BY <1>5, <2>2, <2>3, Zenon DEF RegisterSession
<1>6. ASSUME NEW c \in Clients, Revalidate(c)
      PROVE  SessionInv'
  <2>1. /\ client[c] = "registered"
        /\ client_run[c] \in RunIds
        /\ UNCHANGED <<status, engine, awaited, session_run>>
    BY <1>6, Zenon DEF Revalidate, SessionInv, RollbackOnlyAfterTheRun, storeVars, sessionVars, engineVars
  <2>2. AwaitedSessionIsKept'
    BY <2>1, Zenon DEF SessionInv, AwaitedSessionIsKept, Visible
  <2>3. CASE status[client_run[c]] \in ActiveStatuses
    <3>1. Respond(c)
      BY <1>6, <2>3, Zenon DEF Revalidate
    <3>2. engine[client_run[c]] # "exited"
      BY <2>1, <2>3, Zenon DEF RunInv, RecordFollowsEngine, ActiveStatuses, Working
    <3>3. NoOrphanSession'
      BY <2>1, <3>1, <3>2 DEF Respond, TypeOK, SessionInv, NoOrphanSession, Registered
    <3>4. RollbackOnlyAfterTheRun'
      BY <2>1, <3>1, Zenon DEF Respond, TypeOK, SessionInv, RollbackOnlyAfterTheRun
    <3> QED
      BY <2>2, <3>3, <3>4, Zenon DEF SessionInv
  <2>4. CASE status[client_run[c]] \notin ActiveStatuses
    <3>1. /\ client' = [client EXCEPT ![c] = "rollback"]
          /\ UNCHANGED <<client_run, client_state>>
      BY <1>6, <2>4, Zenon DEF Revalidate
    <3>2. NoOrphanSession'
      BY <2>1, <3>1 DEF TypeOK, SessionInv, NoOrphanSession, Registered
    <3>3. RollbackOnlyAfterTheRun'
      BY <2>1, <2>4, <3>1, Zenon DEF TypeOK, SessionInv, RollbackOnlyAfterTheRun
    <3> QED
      BY <2>2, <3>2, <3>3, Zenon DEF SessionInv
  <2> QED
    BY <2>3, <2>4, Zenon
<1>7. ASSUME NEW c \in Clients, Rollback(c)
      PROVE  SessionInv'
  <2>1. /\ client[c] = "rollback"
        /\ client_run[c] \in RunIds /\ client_state[c] \in States
        /\ status[client_run[c]] \notin ActiveStatuses
        /\ UNCHANGED <<status, engine, awaited>>
        /\ Respond(c)
    BY <1>7, Zenon DEF Rollback, SessionInv, RollbackOnlyAfterTheRun, storeVars, engineVars
  <2>2. session_run' = [s \in States |->
                          IF s = client_state[c] /\ session_run[s] = client_run[c]
                            THEN NoRun ELSE session_run[s]]
    BY <1>7, Zenon DEF Rollback, discard, Drop, SessionsOf
  <2>3. NoOrphanSession'
    <3> SUFFICES ASSUME NEW s \in States, session_run'[s] # NoRun, engine[session_run'[s]] = "exited"
                 PROVE  \E d \in Clients :
                          /\ client'[d] \in {"registered", "rollback"}
                          /\ client_run'[d] = session_run'[s]
                          /\ client_state'[d] = s
      BY <2>1, Zenon DEF NoOrphanSession, Registered
    <3>1. session_run'[s] = session_run[s]
      BY <2>2, Zenon
    <3>2. PICK d \in Clients :
            /\ client[d] \in {"registered", "rollback"}
            /\ client_run[d] = session_run[s]
            /\ client_state[d] = s
      BY <3>1, Zenon DEF SessionInv, NoOrphanSession, Registered
    <3>3. d # c
      BY <2>2, <3>1, <3>2, Zenon
    <3> QED
      BY <2>1, <3>1, <3>2, <3>3, Zenon DEF Respond, TypeOK
  <2>4. RollbackOnlyAfterTheRun'
    BY <2>1, Zenon DEF Respond, TypeOK, SessionInv, RollbackOnlyAfterTheRun
  <2>5. AwaitedSessionIsKept'
    <3> SUFFICES ASSUME NEW q \in RunIds, engine[q] \in {"preparing", "polling"}
                 PROVE  awaited[q] \in States /\ session_run'[awaited[q]] = q
      BY <2>1, Zenon DEF AwaitedSessionIsKept, Visible
    <3>1. awaited[q] \in States /\ session_run[awaited[q]] = q
      BY Zenon DEF SessionInv, AwaitedSessionIsKept, Visible
    <3>2. q # client_run[c]
      BY <2>1, Zenon DEF RunInv, RecordFollowsEngine, ActiveStatuses, Working
    <3> QED
      BY <2>2, <3>1, <3>2, Zenon
  <2> QED
    BY <2>3, <2>4, <2>5, Zenon DEF SessionInv
<1>8. ASSUME UNCHANGED <<storeVars, session_run, engineVars, clientVars>>
      PROVE  SessionInv'
  BY <1>8, Zenon DEF SessionInv, NoOrphanSession, Registered, RollbackOnlyAfterTheRun,
     AwaitedSessionIsKept, Visible, storeVars, engineVars, clientVars
<1>9. ASSUME NEW s \in States, callback_view(s)
      PROVE  SessionInv'
  BY <1>8, <1>9, Zenon DEF callback_view, capture_code, capture_error, capture
<1>10. CASE UNCHANGED vars
  BY <1>8, <1>10, Zenon DEF vars, sessionVars
<1> QED
  BY <1>1, <1>2, <1>3, <1>4, <1>5, <1>6, <1>7, <1>9, <1>10, Zenon
     DEF Next, EngineStep, EngineProgress, EngineFault, LinkStep, ClientStep

\* The inductive invariant.
IInv == TypeOK /\ RunInv /\ SessionInv

\* It holds in every state the system reaches.
LEMMA Invariance == Spec => []IInv
<1>1. Init => IInv
  BY InitType, RunIdentityAssumption
     DEF Init, IInv, StoreInit, SessionInit, RunInv, SlotNamesTheActiveRun, RecordFollowsEngine,
         ActiveStatuses, Working, SessionInv, NoOrphanSession, Registered,
         RollbackOnlyAfterTheRun, AwaitedSessionIsKept
<1>2. IInv /\ [Next]_vars => IInv'
  BY NextType, NextRunInv, NextSessionInv, Zenon DEF IInv
<1> QED
  BY <1>1, <1>2, PTL DEF Spec

\* A registered session always has somebody left who will drop it: the sweep
\* of its run, or the re-validation of the request that registered it.
THEOREM NoSessionIsOrphaned == Spec => []NoOrphanSession
<1>1. IInv => NoOrphanSession
  BY Zenon DEF IInv, SessionInv
<1> QED
  BY <1>1, Invariance, PTL

\* The session a PSU step polls stays in the store, and its own, for as long
\* as the step waits.
THEOREM AwaitedSessionsAreKept == Spec => []AwaitedSessionIsKept
<1>1. IInv => AwaitedSessionIsKept
  BY Zenon DEF IInv, SessionInv
<1> QED
  BY <1>1, Invariance, PTL

\* register_auth_session undoes a registration only for a run that is over.
THEOREM RollbacksAreLate == Spec => []RollbackOnlyAfterTheRun
<1>1. IInv => RollbackOnlyAfterTheRun
  BY Zenon DEF IInv, SessionInv
<1> QED
  BY <1>1, Invariance, PTL

\* A step that changes the owner of a registered session finds its run over.
LEMMA StepDropsLate ==
    ASSUME IInv, [Next]_vars, NEW s \in States, session_run[s] # NoRun,
           session_run'[s] # session_run[s]
    PROVE  status[session_run[s]] \notin ActiveStatuses
<1> USE DEF IInv
<1>1. ASSUME NEW r \in RunIds, Sweep(r)
      PROVE  status[session_run[s]] \notin ActiveStatuses
  <2>1. session_run[s] = r
    BY <1>1, Zenon DEF Sweep, discard_for_run, Drop, SessionsOf
  <2> QED
    BY <1>1, <2>1, Zenon DEF Sweep, RunInv, RecordFollowsEngine, ActiveStatuses, Working
<1>2. ASSUME NEW c \in Clients, Rollback(c)
      PROVE  status[session_run[s]] \notin ActiveStatuses
  <2>1. session_run[s] = client_run[c]
    BY <1>2, Zenon DEF Rollback, discard, Drop, SessionsOf
  <2> QED
    BY <1>2, <2>1, Zenon DEF Rollback, SessionInv, RollbackOnlyAfterTheRun
<1>3. ASSUME NEW r \in RunIds, NEW t \in States, register(r, t)
      PROVE  FALSE
  BY <1>3, Zenon DEF register, CanRegister, Registered, TypeOK, SessionTypeOK
<1>4. ASSUME NEW c \in Clients, RegisterSession(c)
      PROVE  FALSE
  <2>1. client_run[c] \in RunIds /\ client_state[c] \in States
    BY <1>4, Zenon DEF RegisterSession, SessionInv, RollbackOnlyAfterTheRun
  <2> QED
    BY <1>3, <1>4, <2>1, Zenon DEF RegisterSession, sessionVars
<1>5. ASSUME NEW r \in RunIds,
             \/ \E prompts \in BOOLEAN : start_run(r, prompts)
             \/ LinkStep(r) \/ thread_start(r) \/ MarkRunning(r) \/ ReadRecord(r)
             \/ PersistFails(r) \/ MarkCompleted(r) \/ MarkFailed(r)
      PROVE  FALSE
  BY <1>5, Zenon DEF start_run, LinkStep, PlainStep, TransportError, PsuRequestObjectFails,
     PsuPublishUrl, PsuResolved, PsuTimeout, PlanCompleted, PlanRaises, thread_start,
     MarkRunning, ReadRecord, PersistFails, MarkCompleted, MarkFailed, sessionVars
<1>6. ASSUME NEW c \in Clients, Revalidate(c) \/ \E r \in RunIds, t \in States : CheckRun(c, r, t)
      PROVE  FALSE
  BY <1>6, Zenon DEF Revalidate, CheckRun, sessionVars
<1>7. ASSUME NEW t \in States, callback_view(t)
      PROVE  FALSE
  BY <1>7, Zenon DEF callback_view, capture_code, capture_error, capture
<1>8. UNCHANGED vars => FALSE
  BY Zenon DEF vars, sessionVars
<1>9. ASSUME NEW r \in RunIds, NEW t \in States, PsuRegister(r, t)
      PROVE  FALSE
  BY <1>3, <1>9, Zenon DEF PsuRegister
<1> HIDE DEF IInv
<1> QED
  BY <1>1, <1>2, <1>4, <1>5, <1>6, <1>7, <1>8, <1>9, Zenon
     DEF Next, EngineStep, EngineProgress, EngineFault, LinkStep, ClientStep

\* Neither a sweep nor a rollback takes a session from a run that is still
\* pending or running.
THEOREM NoSessionLostEarly == Spec => SessionsDroppedOnlyAfterTheRun
<1>1. IInv /\ [Next]_vars
        => [\A s \in States :
              Registered(s) /\ session_run'[s] # session_run[s]
                => status[session_run[s]] \notin ActiveStatuses]_vars
  BY StepDropsLate, Zenon DEF Registered
<1> QED
  BY <1>1, Invariance, PTL DEF Spec, SessionsDroppedOnlyAfterTheRun

-----------------------------------------------------------------------------
(***************************************************************************)
(* The stores and threads of RunLifecycle implement SingleRunService: the  *)
(* safety part of ImplementsService, for every value of the constants.     *)
(* Also the two promises about PSU links and answers.                      *)
(***************************************************************************)

\* Every step is one of four kinds for the run records.
LEMMA RecordSteps ==
    ASSUME TypeOK, RunInv, [Next]_vars
    PROVE  \/ \E r \in RunIds : create_run(r)
           \/ \E r \in RunIds :
                 /\ status[r] = "pending"
                 /\ status' = [status EXCEPT ![r] = "running"]
                 /\ UNCHANGED <<finished_at, now>>
           \/ \E r \in RunIds, outcome \in TerminalStatuses :
                 status[r] = "running" /\ mark_terminal(r, outcome)
           \/ UNCHANGED <<status, finished_at, now>>
<1>1. ASSUME NEW r \in RunIds, NEW prompts \in BOOLEAN, start_run(r, prompts)
      PROVE  \E q \in RunIds : create_run(q)
  BY <1>1, Zenon DEF start_run
<1>2. ASSUME NEW r \in RunIds, MarkRunning(r)
      PROVE  \E q \in RunIds :
                 /\ status[q] = "pending"
                 /\ status' = [status EXCEPT ![q] = "running"]
                 /\ UNCHANGED <<finished_at, now>>
  <2>1. status[r] = "pending"
    BY <1>2, Zenon DEF MarkRunning, RunInv, RecordFollowsEngine
  <2> QED
    BY <1>2, <2>1, Zenon DEF MarkRunning, mark_running, Present, ActiveStatuses
<1>3. ASSUME NEW r \in RunIds, MarkCompleted(r) \/ MarkFailed(r)
      PROVE  \E q \in RunIds, outcome \in TerminalStatuses :
                 status[q] = "running" /\ mark_terminal(q, outcome)
  <2>1. status[r] = "running"
    BY <1>3, Zenon DEF MarkCompleted, MarkFailed, RunInv, RecordFollowsEngine, Working
  <2>2. "completed" \in TerminalStatuses /\ "failed" \in TerminalStatuses
    BY Zenon DEF TerminalStatuses
  <2>3. mark_terminal(r, "completed") \/ mark_terminal(r, "failed")
    BY <1>3, Zenon DEF MarkCompleted, MarkFailed, mark_completed, mark_failed
  <2> QED
    BY <2>1, <2>2, <2>3, Zenon
<1>4. ASSUME NEW r \in RunIds,
             \/ LinkStep(r) \/ thread_start(r) \/ ReadRecord(r) \/ PersistFails(r) \/ Sweep(r)
             \/ \E s \in States : PsuRegister(r, s)
      PROVE  UNCHANGED <<status, finished_at, now>>
  BY <1>4, Zenon DEF LinkStep, PlainStep, TransportError, PsuRequestObjectFails, PsuPublishUrl, PsuResolved,
     PsuTimeout, PlanCompleted, PlanRaises, thread_start, ReadRecord, PersistFails, Sweep, PsuRegister,
     storeVars
<1>5. ASSUME NEW c \in Clients,
             ClientStep(c) \/ \E r \in RunIds, s \in States : CheckRun(c, r, s)
      PROVE  UNCHANGED <<status, finished_at, now>>
  BY <1>5, Zenon DEF ClientStep, RegisterSession, Revalidate, Rollback, CheckRun, storeVars
<1>6. ASSUME NEW s \in States, callback_view(s)
      PROVE  UNCHANGED <<status, finished_at, now>>
  BY <1>6, Zenon DEF callback_view, storeVars
<1>7. CASE UNCHANGED vars
  BY <1>7, Zenon DEF vars, storeVars
<1> QED
  BY <1>1, <1>2, <1>3, <1>4, <1>5, <1>6, <1>7, ZenonT(60)
     DEF Next, EngineStep, EngineProgress, EngineFault, LinkStep

-----------------------------------------------------------------------------
(* Runs end in the order in which they were admitted.                      *)

Born(r) == status[r] # "unborn"

OrderInv ==
    /\ \A p \in RunIds : finished_at[p] <= now
    /\ \A p, q \in RunIds : Born(p) /\ ~Born(q) => p < q
    /\ \A p, q \in RunIds : Born(p) /\ status[q] \in ActiveStatuses => p <= q
    /\ \A p, q \in RunIds :
          status[p] \in TerminalStatuses /\ status[q] \in TerminalStatuses /\ p < q =>
              finished_at[p] <= finished_at[q]

LEMMA OrderStep ==
    ASSUME TypeOK, RunInv, OrderInv, [Next]_vars
    PROVE  OrderInv'
<1>. USE RunIdentityAssumption DEF TypeOK, StoreTypeOK, RunIds
<1>0. Statuses = {"unborn", "pruned", "pending", "running", "completed", "failed"}
  BY Zenon DEF Statuses, ActiveStatuses, TerminalStatuses
<1>1. ASSUME NEW r \in RunIds, create_run(r)
      PROVE  OrderInv'
  <2>1. /\ status[r] = "unborn" /\ \A q \in RunIds : q < r => Born(q)
        /\ \A q \in RunIds : status'[q] = IF q = r THEN "pending" ELSE IF Evicted(q) THEN "pruned" ELSE status[q]
        /\ \A q \in RunIds : finished_at'[q] = IF Evicted(q) THEN 0 ELSE finished_at[q]
        /\ now' = now
    BY <1>1, Zenon DEF create_run, FreshRunId, Born
  <2>2. \A q \in RunIds : Evicted(q) => status[q] \in TerminalStatuses
    BY Zenon DEF Evicted, Terminal
  <2>3. \A q \in RunIds : Born(q) => q < r
    BY <2>1, Zenon DEF OrderInv, Born
  <2>4. \A q \in RunIds : status[q] \notin ActiveStatuses
    BY <1>1, Zenon DEF create_run, RunInv, SlotNamesTheActiveRun
  <2>5. \A q \in RunIds : Born(q)' <=> Born(q) \/ q = r
    BY <2>1, <2>2, Zenon DEF Born, TerminalStatuses
  <2>6. \A q \in RunIds : status'[q] \in ActiveStatuses <=> q = r
    BY <2>1, <2>4, Zenon DEF ActiveStatuses
  <2>7. \A q \in RunIds : status'[q] \in TerminalStatuses =>
            status[q] \in TerminalStatuses /\ finished_at'[q] = finished_at[q]
    BY <2>1, Zenon DEF TerminalStatuses
  <2>8. \A q \in RunIds : finished_at'[q] <= now'
    <3>1. now \in Nat /\ \A q \in RunIds : finished_at[q] <= now
      BY Zenon DEF OrderInv
    <3>2. \A q \in RunIds : finished_at'[q] = 0 \/ finished_at'[q] = finished_at[q]
      BY <2>1, Zenon
    <3>3. 0 <= now /\ now' = now
      BY <2>1, <3>1, SMTT(60)
    <3> QED
      BY <3>1, <3>2, <3>3, ZenonT(60)
  <2>9. \A p, q \in RunIds : Born(p)' /\ ~Born(q)' => p < q
    BY <2>1, <2>5, SMTT(60) DEF OrderInv, Born
  <2>10. \A p, q \in RunIds : Born(p)' /\ status'[q] \in ActiveStatuses => p <= q
    BY <2>3, <2>5, <2>6
  <2> QED
    BY <2>7, <2>8, <2>9, <2>10, ZenonT(60) DEF OrderInv
<1>2. ASSUME NEW r \in RunIds, status[r] = "pending", status' = [status EXCEPT ![r] = "running"],
             UNCHANGED <<finished_at, now>>
      PROVE  OrderInv'
  BY <1>2, ZenonT(60) DEF OrderInv, Born, ActiveStatuses, TerminalStatuses
<1>3. ASSUME NEW r \in RunIds, NEW outcome \in TerminalStatuses, status[r] = "running",
             mark_terminal(r, outcome)
      PROVE  OrderInv'
  <2>1. PICK t \in {now, now + 1} :
           /\ now' = t
           /\ finished_at' = [finished_at EXCEPT ![r] = t]
           /\ status' = [status EXCEPT ![r] = outcome]
    BY <1>3, Zenon DEF mark_terminal, Present, ActiveStatuses
  <2>2. t \in Nat /\ now <= t
    BY <2>1
  <2>3. \A q \in RunIds : Born(q) => q <= r
    BY <1>3, Zenon DEF OrderInv, ActiveStatuses
  <2>4. \A q \in RunIds : Born(q)' <=> Born(q)
    BY <1>3, <2>1, Zenon DEF Born, TerminalStatuses
  <2>5. \A q \in RunIds : status'[q] \in ActiveStatuses => status[q] \in ActiveStatuses
    BY <1>3, <2>1, ZenonT(60) DEF ActiveStatuses, TerminalStatuses
  <2>6. \A q \in RunIds : finished_at'[q] \in Nat /\ finished_at'[q] <= t
    BY <2>1, <2>2, SMTT(60) DEF OrderInv
  <2>7. \A q \in RunIds : q # r => finished_at'[q] = finished_at[q] /\ status'[q] = status[q]
    BY <2>1, Zenon
  <2>8. ASSUME NEW p \in RunIds, NEW q \in RunIds, p < q,
               status'[p] \in TerminalStatuses, status'[q] \in TerminalStatuses
        PROVE  finished_at'[p] <= finished_at'[q]
    <3>1. CASE q = r
      BY <2>1, <2>6, <3>1, ZenonT(60)
    <3>2. CASE q # r
      <4>1. Born(q)
        BY <2>8, <2>7, <3>2, ZenonT(60) DEF Born, TerminalStatuses
      <4>2. p # r
        BY <2>3, <2>8, <4>1, SMTT(60)
      <4> QED
        BY <2>7, <2>8, <3>2, <4>2, ZenonT(60) DEF OrderInv
    <3> QED
      BY <3>1, <3>2, Zenon
  <2> QED
    BY <2>1, <2>4, <2>5, <2>6, <2>8, ZenonT(60) DEF OrderInv
<1>4. CASE UNCHANGED <<status, finished_at, now>>
  BY <1>4, Zenon DEF OrderInv, Born
<1> QED
  BY <1>1, <1>2, <1>3, <1>4, RecordSteps, ZenonT(60)

LEMMA OrderInvariant == Spec => [](TypeOK /\ RunInv /\ OrderInv)
<1>1. Init => OrderInv
  BY DEF Init, StoreInit, OrderInv, Born, TerminalStatuses
<1> QED
  BY <1>1, OrderStep, RunInvariant, PTL DEF Spec

-----------------------------------------------------------------------------
(* The refinement.                                                         *)

\* Sorting by the time a run ended is sorting by its admission.
LEMMA SortedByAdmission ==
    ASSUME TypeOK, OrderInv, NEW p \in Terminal, NEW q \in Terminal
    PROVE  SortsAfter(p, q) <=> p > q
<1>1. /\ p \in RunIds /\ q \in RunIds /\ p \in Nat /\ q \in Nat
      /\ finished_at[p] \in Nat /\ finished_at[q] \in Nat
  BY RunIdentityAssumption DEF Terminal, TypeOK, StoreTypeOK, RunIds
<1>2. /\ p < q => finished_at[p] <= finished_at[q]
      /\ q < p => finished_at[q] <= finished_at[p]
  BY <1>1, Zenon DEF Terminal, OrderInv
<1> QED
  BY <1>1, <1>2 DEF SortsAfter

LEMMA PhaseOf ==
    ASSUME TypeOK, NEW r \in RunIds
    PROVE  phase[r] = IF status[r] \in ActiveStatuses THEN "active"
                      ELSE IF status[r] = "pruned" THEN "forgotten"
                      ELSE status[r]
BY Zenon DEF phase

LEMMA DecidedIsTerminal ==
    ASSUME TypeOK
    PROVE  Service!Decided = Terminal
<1>1. \A r \in RunIds : phase[r] \in Service!Outcomes <=> status[r] \in TerminalStatuses
  BY PhaseOf, Zenon DEF Service!Outcomes, TerminalStatuses, ActiveStatuses, TypeOK, StoreTypeOK, Statuses
<1> QED
  BY <1>1, Zenon DEF Service!Decided, Terminal

\* create_run is an admission; its pruning forgets the runs beyond the
\* MAX_TERMINAL_RECORDS youngest.
LEMMA CreateAdmits ==
    ASSUME TypeOK, RunInv, OrderInv, NEW r \in RunIds, create_run(r)
    PROVE  Service!Admit(r)
<1>1. /\ status[r] = "unborn"
      /\ status' = [q \in RunIds |->
                      IF q = r THEN "pending" ELSE IF Evicted(q) THEN "pruned" ELSE status[q]]
      /\ \A q \in RunIds : status[q] \notin ActiveStatuses
  BY RunIdentityAssumption, Zenon DEF create_run, FreshRunId, RunInv, SlotNamesTheActiveRun
<1>2. \A q \in RunIds : phase[q] # "active"
  BY <1>1, PhaseOf, Zenon DEF TypeOK, StoreTypeOK, Statuses, ActiveStatuses, TerminalStatuses
<1>3. phase[r] = "unborn"
  BY <1>1, PhaseOf, Zenon DEF ActiveStatuses
<1>4. \A q \in Terminal : Evicted(q) <=> ~Service!Survives(q)
  <2>. TAKE q \in Terminal
  <2>1. {p \in Terminal : SortsAfter(p, q)} = {p \in Terminal : p > q}
    BY SortedByAdmission, Zenon
  <2>2. Service!Survives(q) <=> Cardinality({p \in Terminal : p > q}) < MaxTerminalRecords
    <3>1. Service!Decided = Terminal
      BY DecidedIsTerminal, Zenon
    <3>2. Service!Survives(q) <=> Cardinality({p \in Service!Decided : p > q}) < MaxTerminalRecords
      BY Zenon DEF Service!Survives, Service!Cardinality, Cardinality
    <3>3. {p \in Service!Decided : p > q} = {p \in Terminal : p > q}
      BY <3>1, Zenon
    <3> QED
      BY <3>2, <3>3, Zenon
  <2>3. Cardinality({p \in Terminal : p > q}) \in Nat
    <3>1. IsFiniteSet({p \in Terminal : p > q})
      <4>1. IsFiniteSet(RunIds)
        BY RunIdentityAssumption, FS_Interval DEF RunIds
      <4> QED
        BY <4>1, FS_Subset, Zenon DEF Terminal
    <3> QED
      BY <3>1, FS_CardinalityType, Zenon
  <2> QED
    BY <2>1, <2>2, <2>3, RunStoreAssumption, SMTT(60) DEF Evicted
<1>5. ASSUME NEW q \in RunIds
      PROVE  phase'[q] = IF q = r THEN "active"
                         ELSE IF q \in Service!Decided /\ ~Service!Survives(q) THEN "forgotten"
                         ELSE phase[q]
  <2>1. phase'[q] = IF status'[q] \in ActiveStatuses THEN "active"
                    ELSE IF status'[q] = "pruned" THEN "forgotten"
                    ELSE status'[q]
    BY Zenon DEF phase
  <2>2. CASE q = r
    BY <1>1, <2>1, <2>2, Zenon DEF ActiveStatuses
  <2>3. CASE q # r
    <3>1. Evicted(q) <=> q \in Service!Decided /\ ~Service!Survives(q)
      BY <1>4, DecidedIsTerminal, Zenon DEF Evicted
    <3>2. status'[q] = IF Evicted(q) THEN "pruned" ELSE status[q]
      BY <1>1, <2>3, Zenon
    <3> QED
      BY <1>1, <2>1, <2>3, <3>1, <3>2, PhaseOf, ZenonT(60) DEF ActiveStatuses
  <2> QED
    BY <2>2, <2>3, Zenon
<1>6. phase' = [q \in RunIds |-> IF q = r THEN "active"
                                 ELSE IF q \in Service!Decided /\ ~Service!Survives(q) THEN "forgotten"
                                 ELSE phase[q]]
  BY <1>5, Zenon DEF phase
<1> QED
  BY <1>2, <1>3, <1>6, Zenon DEF Service!Admit

\* mark_completed and mark_failed decide the run.
LEMMA MarkDecides ==
    ASSUME TypeOK, RunInv, NEW r \in RunIds, NEW outcome \in TerminalStatuses, status[r] = "running",
           mark_terminal(r, outcome)
    PROVE  Service!Decide(r)
<1>1. status' = [status EXCEPT ![r] = outcome]
  BY Zenon DEF mark_terminal, Present, ActiveStatuses
<1>2. phase[r] = "active"
  BY PhaseOf, Zenon DEF ActiveStatuses
<1>3. ASSUME NEW q \in RunIds
      PROVE  phase'[q] = IF q = r THEN outcome ELSE phase[q]
  <2>1. phase'[q] = IF status'[q] \in ActiveStatuses THEN "active"
                    ELSE IF status'[q] = "pruned" THEN "forgotten"
                    ELSE status'[q]
    BY Zenon DEF phase
  <2>2. status'[q] = IF q = r THEN outcome ELSE status[q]
    BY <1>1, Zenon DEF TypeOK, StoreTypeOK
  <2> QED
    BY <2>1, <2>2, PhaseOf, Zenon DEF ActiveStatuses, TerminalStatuses
<1>4. phase' = [phase EXCEPT ![r] = outcome]
  BY <1>3, Zenon DEF phase
<1>5. outcome \in Service!Outcomes
  BY Zenon DEF Service!Outcomes, TerminalStatuses
<1> QED
  BY <1>2, <1>4, <1>5, Zenon DEF Service!Decide

LEMMA ServiceStep ==
    ASSUME TypeOK, RunInv, OrderInv, [Next]_vars
    PROVE  [Service!ServiceNext]_phase
<1>1. ASSUME NEW r \in RunIds, create_run(r)
      PROVE  Service!ServiceNext
  BY <1>1, CreateAdmits, Zenon DEF Service!ServiceNext
<1>2. ASSUME NEW r \in RunIds, status[r] = "pending", status' = [status EXCEPT ![r] = "running"]
      PROVE  phase' = phase
  BY <1>2, Zenon DEF phase, ActiveStatuses, TypeOK, StoreTypeOK
<1>3. ASSUME NEW r \in RunIds, NEW outcome \in TerminalStatuses, status[r] = "running",
             mark_terminal(r, outcome)
      PROVE  Service!ServiceNext
  BY <1>3, MarkDecides, Zenon DEF Service!ServiceNext
<1>4. CASE UNCHANGED status
  BY <1>4, Zenon DEF phase
<1> QED
  BY <1>1, <1>2, <1>3, <1>4, RecordSteps, ZenonT(60)

\* The stores, the request threads and the engine threads together are the
\* one-run-at-a-time service: every step they take admits the next run when
\* none is active (create_run), decides the active one (mark_completed,
\* mark_failed), or is invisible.
THEOREM ServiceIsImplemented == Spec => Service!ServiceInit /\ [][Service!ServiceNext]_phase
<1>1. Init => Service!ServiceInit
  BY ZenonT(60) DEF Init, StoreInit, Service!ServiceInit, phase, ActiveStatuses
<1> QED
  BY <1>1, ServiceStep, OrderInvariant, PTL DEF Spec

-----------------------------------------------------------------------------
(* PSU links and answers.                                                  *)

\* Only a run of the browser page has links, and only for the step it is at.
PromptInv ==
    \A r \in RunIds, k \in Steps :
        participant_actions[r][k] = "pending" => engine[r] = "polling" /\ step[r] = k /\ browser[r]

LEMMA PromptStep ==
    ASSUME TypeOK, RunInv, PromptInv, [Next]_vars
    PROVE  PromptInv'
<1>. USE RunIdentityAssumption DEF TypeOK, StoreTypeOK
<1>1. ASSUME NEW r \in RunIds, NEW prompts \in BOOLEAN, start_run(r, prompts)
      PROVE  PromptInv'
  <2>1. /\ UNCHANGED <<participant_actions, step>> /\ status[r] = "unborn"
        /\ engine' = [engine EXCEPT ![r] = "created"]
        /\ browser' = [browser EXCEPT ![r] = prompts]
    BY <1>1, Zenon DEF start_run, create_run, FreshRunId, GoTo
  <2>2. engine[r] = "none"
    BY <2>1, Zenon DEF RunInv, RecordFollowsEngine
  <2> QED
    BY <2>1, <2>2, ZenonT(60) DEF PromptInv
<1>2. ASSUME NEW r \in RunIds,
             thread_start(r) \/ MarkRunning(r) \/ ReadRecord(r) \/ PersistFails(r)
             \/ Sweep(r) \/ \E s \in States : PsuRegister(r, s)
      PROVE  PromptInv'
  <2>1. /\ UNCHANGED participant_actions /\ engine[r] # "polling"
        /\ \A q \in RunIds \ {r} : engine'[q] = engine[q] /\ step'[q] = step[q] /\ browser'[q] = browser[q]
    BY <1>2, ZenonT(60) DEF thread_start, MarkRunning, mark_running, ReadRecord, PersistFails, Sweep, ThreadEnds,
       PsuRegister, AtStep, GoTo, storeVars
  <2> QED
    BY <2>1, ZenonT(60) DEF PromptInv
<1>3. ASSUME NEW r \in RunIds, MarkCompleted(r) \/ MarkFailed(r)
      PROVE  PromptInv'
  <2>1. Present(r)
    BY <1>3, Zenon DEF MarkCompleted, MarkFailed, RunInv, RecordFollowsEngine, Working, Present, ActiveStatuses
  <2>2. participant_actions' = [participant_actions EXCEPT ![r] = NoActions]
    BY <1>3, <2>1, ZenonT(60) DEF MarkCompleted, MarkFailed, mark_completed, mark_failed, mark_terminal
  <2>3. \A q \in RunIds \ {r} : engine'[q] = engine[q] /\ step'[q] = step[q] /\ browser'[q] = browser[q]
    BY <1>3, Zenon DEF MarkCompleted, MarkFailed, GoTo
  <2> QED
    BY <2>2, <2>3, ZenonT(60) DEF PromptInv, NoActions
<1>4. ASSUME NEW r \in RunIds, LinkStep(r)
      PROVE  PromptInv'
  <2>1. /\ engine[r] \in {"executing", "preparing", "polling"} /\ Present(r)
        /\ browser' = browser
        /\ \A q \in RunIds \ {r} : engine'[q] = engine[q] /\ step'[q] = step[q]
    <3>1. engine[r] \in {"executing", "preparing", "polling"}
      BY <1>4, ZenonT(60) DEF LinkStep, PlainStep, TransportError, PsuRequestObjectFails, PsuPublishUrl,
         PsuResolved, PsuTimeout, PlanCompleted, PlanRaises, AtStep
    <3>2. Present(r)
      BY <3>1, Zenon DEF RunInv, RecordFollowsEngine, Working, Present, ActiveStatuses
    <3> QED
      BY <1>4, <3>1, <3>2, ZenonT(60) DEF LinkStep, PlainStep, TransportError, PsuRequestObjectFails, PsuPublishUrl,
         PsuResolved, PsuTimeout, PlanCompleted, PlanRaises, NextStep, GoTo
  <2>2. \A q \in RunIds \ {r} : participant_actions'[q] = participant_actions[q]
    BY <1>4, Zenon DEF LinkStep, PlainStep, TransportError, PsuRequestObjectFails, PsuPublishUrl,
       PsuResolved, PsuTimeout, PlanCompleted, PlanRaises, emit_step_completed, emit_clearing_event,
       emit_psu_authorization_url, set_participant_action, complete_participant_action,
       clear_participant_actions
  <2>3. ASSUME NEW k \in Steps, participant_actions'[r][k] = "pending"
        PROVE  engine'[r] = "polling" /\ step'[r] = k /\ browser'[r]
    <3>1. CASE PsuPublishUrl(r)
      <4>1. engine[r] = "preparing" /\ engine' = [engine EXCEPT ![r] = "polling"] /\ step' = step
        BY <3>1, Zenon DEF PsuPublishUrl, GoTo
      <4>2. participant_actions[r][k] # "pending"
        BY <4>1, Zenon DEF PromptInv
      <4>3. browser[r] /\ participant_actions' = [participant_actions EXCEPT ![r][step[r]] = "pending"]
        BY <2>3, <3>1, <4>2, ZenonT(60) DEF PsuPublishUrl, emit_psu_authorization_url, set_participant_action
      <4>4. k = step[r]
        BY <2>3, <4>2, <4>3, ZenonT(60)
      <4> QED
        BY <2>1, <4>1, <4>3, <4>4, ZenonT(60)
    <3>2. CASE emit_clearing_event(r)
      <4>1. CASE browser[r]
        <5>1. participant_actions' = [participant_actions EXCEPT ![r] = NoActions]
          BY <2>1, <3>2, <4>1, ZenonT(60) DEF emit_clearing_event, clear_participant_actions
        <5> QED
          BY <2>3, <5>1, ZenonT(60) DEF NoActions
      <4>2. CASE ~browser[r]
        BY <2>3, <3>2, <4>2, ZenonT(60) DEF emit_clearing_event, PromptInv
      <4> QED
        BY <4>1, <4>2, Zenon
    <3>3. CASE emit_step_completed(r, step[r]) /\ step[r] \in Steps
      <4>1. CASE browser[r]
        <5>1. \/ participant_actions' = participant_actions /\ participant_actions[r][step[r]] = "none"
              \/ participant_actions' = [participant_actions EXCEPT ![r][step[r]] = "completed"]
          BY <2>1, <3>3, <4>1, ZenonT(60) DEF emit_step_completed, complete_participant_action
        <5>2. participant_actions[r][k] = "pending" /\ k # step[r]
          BY <2>3, <3>3, <5>1, SMTT(60)
        <5> QED
          BY <5>2, Zenon DEF PromptInv
      <4>2. CASE ~browser[r]
        BY <2>3, <3>3, <4>2, ZenonT(60) DEF emit_step_completed, PromptInv
      <4> QED
        BY <4>1, <4>2, Zenon
    <3> QED
      BY <1>4, <3>1, <3>2, <3>3, ZenonT(60) DEF LinkStep, PlainStep, TransportError, PsuRequestObjectFails,
         PsuResolved, PsuTimeout, PlanCompleted, PlanRaises, AtStep
  <2>4. ASSUME NEW q \in RunIds, q # r, NEW k \in Steps, participant_actions'[q][k] = "pending"
        PROVE  engine'[q] = "polling" /\ step'[q] = k /\ browser'[q]
    <3>1. participant_actions[q][k] = "pending"
      BY <2>2, <2>4, ZenonT(60)
    <3>2. engine[q] = "polling" /\ step[q] = k /\ browser[q]
      BY <3>1, Zenon DEF PromptInv
    <3> QED
      BY <2>1, <2>4, <3>2, ZenonT(60)
  <2> QED
    BY <2>3, <2>4, ZenonT(60) DEF PromptInv
<1>5. ASSUME UNCHANGED <<storeVars, engineVars>>
      PROVE  PromptInv'
  BY <1>5, Zenon DEF PromptInv, storeVars, engineVars
<1>6. ASSUME NEW c \in Clients,
             ClientStep(c) \/ \E r \in RunIds, s \in States : CheckRun(c, r, s)
      PROVE  PromptInv'
  BY <1>5, <1>6, ZenonT(60) DEF ClientStep, RegisterSession, Revalidate, Rollback, CheckRun
<1>7. ASSUME NEW s \in States, callback_view(s)
      PROVE  PromptInv'
  BY <1>5, <1>7, ZenonT(60) DEF callback_view
<1>8. CASE UNCHANGED vars
  BY <1>5, <1>8, Zenon DEF vars
<1> QED
  BY <1>1, <1>2, <1>3, <1>4, <1>6, <1>7, <1>8, SMTT(60)
     DEF Next, EngineStep, EngineProgress, EngineFault, LinkStep

\* A link shown as pending belongs to the step its run waits in, however steps
\* end (BrowserParticipantActionLogger.emit, clear_participant_action).
THEOREM PromptsAreLive == Spec => []PendingPromptIsLive
<1>1. Init => PromptInv
  BY DEF Init, StoreInit, PromptInv, NoActions
<1>2. PromptInv => PendingPromptIsLive
  BY Zenon DEF PromptInv, PendingPromptIsLive
<1> QED
  BY <1>1, <1>2, PromptStep, RunInvariant, PTL DEF Spec

\* An answered session holds its first answer.
LEMMA AnswerStep ==
    ASSUME IInv, [Next]_vars, NEW s \in States, session_status[s] \in ResolvedStatuses,
           Registered(s)
    PROVE  session_status'[s] \in {session_status[s], "none"}
<1>. USE DEF IInv, TypeOK, SessionTypeOK, ResolvedStatuses
<1>1. ASSUME UNCHANGED sessionVars
      PROVE  session_status'[s] = session_status[s]
  BY <1>1, Zenon DEF sessionVars
<1>2. ASSUME NEW r, NEW t \in States, register(r, t)
      PROVE  session_status'[s] = session_status[s]
  BY <1>2, Zenon DEF register, CanRegister
<1>3. ASSUME NEW gone, Drop(gone)
      PROVE  session_status'[s] \in {session_status[s], "none"}
  BY <1>3, Zenon DEF Drop
<1>4. ASSUME NEW t \in States, callback_view(t)
      PROVE  session_status'[s] = session_status[s]
  BY <1>4, Zenon DEF callback_view, capture_code, capture_error, capture
<1>5. ASSUME NEW c \in Clients, ClientStep(c)
      PROVE  session_status'[s] \in {session_status[s], "none"}
  <2>1. client[c] = "checked" => client_state[c] \in States
    BY Zenon DEF SessionInv, RollbackOnlyAfterTheRun
  <2> QED
    BY <1>1, <1>2, <1>3, <1>5, <2>1, ZenonT(60) DEF ClientStep, RegisterSession, Revalidate, Rollback, discard
<1>6. ASSUME NEW r \in RunIds, EngineStep(r)
      PROVE  session_status'[s] \in {session_status[s], "none"}
  BY <1>1, <1>2, <1>3, <1>6, ZenonT(60) DEF EngineStep, EngineProgress, EngineFault, PlainStep, TransportError,
     PsuRequestObjectFails, PsuPublishUrl, PsuResolved, PsuTimeout, PlanCompleted, PlanRaises,
     thread_start, MarkRunning, ReadRecord, PersistFails, MarkCompleted, MarkFailed, PsuRegister,
     Sweep, discard_for_run
<1>. HIDE DEF IInv, TypeOK, SessionTypeOK, ResolvedStatuses
<1> QED
  BY <1>1, <1>4, <1>5, <1>6, ZenonT(60) DEF Next, start_run, CheckRun, vars

\* An answer comes with its session.
AnswerInv == \A s \in States : session_status[s] # "none" => Registered(s)

LEMMA AnswerInvStep ==
    ASSUME IInv, AnswerInv, [Next]_vars
    PROVE  AnswerInv'
<1>. USE RunIdentityAssumption DEF IInv, TypeOK, SessionTypeOK, AnswerInv, Registered
<1>1. ASSUME UNCHANGED sessionVars
      PROVE  AnswerInv'
  BY <1>1, Zenon DEF sessionVars
<1>2. ASSUME NEW r \in RunIds, NEW t \in States, register(r, t)
      PROVE  AnswerInv'
  BY <1>2, Zenon DEF register
<1>3. ASSUME NEW gone, Drop(gone)
      PROVE  AnswerInv'
  BY <1>3, Zenon DEF Drop
<1>4. ASSUME NEW t \in States, callback_view(t)
      PROVE  AnswerInv'
  BY <1>4, Zenon DEF callback_view, capture_code, capture_error, capture
<1>5. ASSUME NEW c \in Clients, ClientStep(c)
      PROVE  AnswerInv'
  <2>1. client[c] = "checked" => client_state[c] \in States /\ client_run[c] \in RunIds
    BY Zenon DEF SessionInv, RollbackOnlyAfterTheRun
  <2> QED
    BY <1>1, <1>2, <1>3, <1>5, <2>1, ZenonT(60) DEF ClientStep, RegisterSession, Revalidate, Rollback, discard
<1>6. ASSUME NEW r \in RunIds, EngineStep(r)
      PROVE  AnswerInv'
  BY <1>1, <1>2, <1>3, <1>6, ZenonT(60) DEF EngineStep, EngineProgress, EngineFault, PlainStep, TransportError,
     PsuRequestObjectFails, PsuPublishUrl, PsuResolved, PsuTimeout, PlanCompleted, PlanRaises,
     thread_start, MarkRunning, ReadRecord, PersistFails, MarkCompleted, MarkFailed, PsuRegister,
     Sweep, discard_for_run
<1>. HIDE DEF IInv, TypeOK, SessionTypeOK, AnswerInv
<1> QED
  BY <1>1, <1>4, <1>5, <1>6, ZenonT(60) DEF Next, start_run, CheckRun, vars

\* The PSU's answer is taken once: a late or repeated callback does not change
\* a resolved session (capture_code, capture_error).
THEOREM AnswersAreOneShot == Spec => AnswerIsOneShot
<1>1. Init => AnswerInv
  BY ZenonT(60) DEF Init, SessionInit, AnswerInv
<1>2. IInv /\ AnswerInv /\ [Next]_vars => AnswerInv'
  BY AnswerInvStep, Zenon
<1>3. IInv /\ AnswerInv /\ [Next]_vars
        => [\A s \in States :
              session_status[s] \in ResolvedStatuses =>
                session_status'[s] \in {session_status[s], "none"}]_vars
  BY AnswerStep, Zenon DEF AnswerInv, ResolvedStatuses
<1> QED
  BY <1>1, <1>2, <1>3, Invariance, PTL DEF Spec, AnswerIsOneShot
=============================================================================
