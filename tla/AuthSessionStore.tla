-------------------------- MODULE AuthSessionStore --------------------------
(***************************************************************************)
(* conformance/api/auth_session_store.py: the PSU authorisation sessions   *)
(* that correlate a browser callback with the run that expects it.         *)
(*                                                                         *)
(* One store serves every run of the process.  Each method holds the       *)
(* store's lock throughout and is one operator; the dictionary _sessions   *)
(* is the pair of functions session_run and session_status over the opaque *)
(* state tokens.  The authorisation code and the error text are not        *)
(* modelled, only which of the two a session ended with.                   *)
(***************************************************************************)
EXTENDS RunIdentity, FiniteSets

CONSTANTS
    States,            \* state tokens (a caller may choose its own)
    MaxSessionsPerRun  \* MAX_SESSIONS_PER_RUN

ASSUME AuthSessionStoreAssumption == MaxSessionsPerRun \in Nat

VARIABLES
    session_run,    \* _sessions[s].run_id, NoRun when s is not a key
    session_status  \* _sessions[s].status

sessionVars == <<session_run, session_status>>

ResolvedStatuses == {"captured", "error"}

SessionTypeOK ==
    /\ session_run \in [States -> RunIds \union {NoRun}]
    /\ session_status \in [States -> {"none", "awaiting"} \union ResolvedStatuses]

SessionInit ==
    /\ session_run = [s \in States |-> NoRun]
    /\ session_status = [s \in States |-> "none"]

SessionsOf(r) == {s \in States : session_run[s] = r}

Registered(s) == session_run[s] # NoRun

\* The two tests register makes under the lock: DuplicateAuthSessionError and
\* AuthSessionLimitError.
CanRegister(r, s) ==
    /\ ~Registered(s)
    /\ Cardinality(SessionsOf(r)) < MaxSessionsPerRun

register(r, s) ==
    /\ CanRegister(r, s)
    /\ session_run' = [session_run EXCEPT ![s] = r]
    /\ session_status' = [session_status EXCEPT ![s] = "awaiting"]

\* Mutant of capture: a second callback overwrites the first.
capture_again(s, outcome) ==
    /\ Registered(s)
    /\ session_status' = [session_status EXCEPT ![s] = outcome]
    /\ UNCHANGED session_run

\* capture_code and capture_error; an unknown or already resolved state
\* raises and changes nothing.
capture(s, outcome) ==
    /\ Registered(s)
    /\ session_status[s] = "awaiting"
    /\ session_status' = [session_status EXCEPT ![s] = outcome]
    /\ UNCHANGED session_run

capture_code(s) == capture(s, "captured")

capture_error(s) == capture(s, "error")

\* get(run_id, state) hides sessions of other runs.
Visible(r, s) == session_run[s] = r

Drop(gone) ==
    /\ session_run' = [s \in States |-> IF s \in gone THEN NoRun ELSE session_run[s]]
    /\ session_status' = [s \in States |-> IF s \in gone THEN "none" ELSE session_status[s]]

\* Mutant of discard_for_run: the owner of the sessions is not compared.
discard_every_session(r) == Drop(States)

discard_for_run(r) == Drop(SessionsOf(r))

discard(r, s) == Drop({s} \intersect SessionsOf(r))
=============================================================================
