------------------------------ MODULE RunStore ------------------------------
(***************************************************************************)
(* conformance/api/run_store.py: the in-memory table of conformance runs.  *)
(*                                                                         *)
(* Every method of RunStore takes the store's lock for its whole body, so  *)
(* each is one operator here, and the callers (module RunLifecycle) decide *)
(* how the calls interleave.  The dictionary _runs is spread over three    *)
(* functions of the run identifier.                                        *)
(* "unborn" and "pruned" are the two ways a key is missing from _runs: the *)
(* identifier has not been drawn yet, or its record has been evicted.      *)
(***************************************************************************)
EXTENDS RunIdentity, FiniteSets

CONSTANTS
    MaxTerminalRecords,  \* MAX_TERMINAL_RECORDS
    PlanLength           \* bound: number of steps in a run's plan

Steps == 1 .. PlanLength

ASSUME RunStoreAssumption == MaxTerminalRecords \in Nat /\ PlanLength \in Nat

VARIABLES
    active_run_id,        \* _active_run_id
    status,               \* _runs[r].status, or why r is not a key
    finished_at,          \* _runs[r].finished_at, 0 before it is set
    participant_actions,  \* _runs[r].participant_actions: step -> status
    now                   \* the last value read from datetime.now(UTC)

storeVars == <<active_run_id, status, finished_at, participant_actions, now>>

ActiveStatuses == {"pending", "running"}

TerminalStatuses == {"completed", "failed"}

Statuses == {"unborn", "pruned"} \union ActiveStatuses \union TerminalStatuses

NoActions == [k \in Steps |-> "none"]

\* `run_id in self._runs`: what get_run tests before it snapshots a record.
Present(r) == status[r] \in ActiveStatuses \union TerminalStatuses

StoreTypeOK ==
    /\ active_run_id \in RunIds \union {NoRun}
    /\ status \in [RunIds -> Statuses]
    /\ finished_at \in [RunIds -> Nat]
    /\ participant_actions \in [RunIds -> [Steps -> {"none", "pending", "completed"}]]
    /\ now \in Nat

StoreInit ==
    /\ active_run_id = NoRun
    /\ status = [r \in RunIds |-> "unborn"]
    /\ finished_at = [r \in RunIds |-> 0]
    /\ participant_actions = [r \in RunIds |-> NoActions]
    /\ now = 0

-----------------------------------------------------------------------------
(* create_run and the pruning it ends with.                                *)

Terminal == {r \in RunIds : status[r] \in TerminalStatuses}

\* terminal_ids.sort(key=finished_at) is stable over the insertion order, so
\* p comes after q when it finished later, or at the same instant and was
\* inserted later.
SortsAfter(p, q) ==
    \/ finished_at[p] > finished_at[q]
    \/ finished_at[p] = finished_at[q] /\ p > q

\* _prune_terminal_records_locked: only the last MaxTerminalRecords terminal
\* records of the sorted list survive.
Evicted(q) ==
    /\ q \in Terminal
    /\ Cardinality({p \in Terminal : SortsAfter(p, q)}) >= MaxTerminalRecords

\* uuid4: an identifier never used before.
FreshRunId(r) ==
    /\ status[r] = "unborn"
    /\ \A q \in RunIds : q < r => status[q] # "unborn"

\* Mutant of create_run: the conflict test is missing.
create_run_unguarded(r) ==
    /\ FreshRunId(r)
    /\ active_run_id' = r
    /\ status' = [q \in RunIds |->
                    IF q = r THEN "pending" ELSE IF Evicted(q) THEN "pruned" ELSE status[q]]
    /\ finished_at' = [q \in RunIds |-> IF Evicted(q) THEN 0 ELSE finished_at[q]]
    /\ UNCHANGED <<participant_actions, now>>

\* Raises RunConflictError, and changes nothing, when a run is active.
create_run(r) ==
    /\ active_run_id = NoRun
    /\ FreshRunId(r)
    /\ active_run_id' = r
    /\ status' = [q \in RunIds |->
                    IF q = r THEN "pending" ELSE IF Evicted(q) THEN "pruned" ELSE status[q]]
    /\ finished_at' = [q \in RunIds |-> IF Evicted(q) THEN 0 ELSE finished_at[q]]
    /\ UNCHANGED <<participant_actions, now>>

-----------------------------------------------------------------------------
(* Status transitions.                                                     *)

mark_running(r) ==
    /\ status' = IF Present(r) THEN [status EXCEPT ![r] = "running"] ELSE status
    /\ UNCHANGED <<active_run_id, finished_at, participant_actions, now>>

\* Mutant of mark_terminal: the run slot is not released.
mark_terminal_keeps_slot(r, outcome) ==
    IF Present(r)
      THEN \E t \in {now, now + 1} :
             /\ now' = t
             /\ finished_at' = [finished_at EXCEPT ![r] = t]
             /\ status' = [status EXCEPT ![r] = outcome]
             /\ participant_actions' = [participant_actions EXCEPT ![r] = NoActions]
             /\ UNCHANGED active_run_id
      ELSE UNCHANGED storeVars

\* mark_completed and mark_failed differ only in the payload they store next
\* to the status.  The wall clock may read the same instant as last time.
mark_terminal(r, outcome) ==
    IF Present(r)
      THEN \E t \in {now, now + 1} :
             /\ now' = t
             /\ finished_at' = [finished_at EXCEPT ![r] = t]
             /\ status' = [status EXCEPT ![r] = outcome]
             /\ participant_actions' = [participant_actions EXCEPT ![r] = NoActions]
             /\ active_run_id' = IF active_run_id = r THEN NoRun ELSE active_run_id
      ELSE UNCHANGED storeVars

mark_completed(r) == mark_terminal(r, "completed")

mark_failed(r) == mark_terminal(r, "failed")

-----------------------------------------------------------------------------
(* Participant actions: the PSU links the browser page of a run shows.     *)
(* Only the engine thread of r calls these; the alias participant_action   *)
(* is recomputed from participant_actions by every reader.                 *)

\* set_participant_action subscripts _runs: it raises KeyError, and is not
\* enabled here, when the record is gone.
set_participant_action(r, k) ==
    /\ Present(r)
    /\ participant_actions' = [participant_actions EXCEPT ![r][k] = "pending"]

complete_participant_action(r, k) ==
    participant_actions' =
      IF Present(r) /\ participant_actions[r][k] # "none"
        THEN [participant_actions EXCEPT ![r][k] = "completed"]
        ELSE participant_actions

clear_participant_actions(r) ==
    participant_actions' =
      IF Present(r) THEN [participant_actions EXCEPT ![r] = NoActions] ELSE participant_actions
=============================================================================
