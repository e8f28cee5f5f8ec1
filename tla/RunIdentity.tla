---------------------------- MODULE RunIdentity ----------------------------
(***************************************************************************)
(* The run identifiers shared by the run store and the auth-session store. *)
(* create_run draws uuid.uuid4().hex; a run is represented here by its     *)
(* creation number, so that the order of the numbers is the insertion      *)
(* order of RunStore._runs.                                                *)
(***************************************************************************)
EXTENDS Naturals

CONSTANTS
    MaxRuns,  \* bound: how many runs a behaviour may create
    NoRun     \* None, where a run identifier is optional

RunIds == 1 .. MaxRuns

ASSUME RunIdentityAssumption == MaxRuns \in Nat /\ NoRun \notin RunIds
=============================================================================
