-------------------------- MODULE SingleRunService --------------------------
(***************************************************************************)
(* What the run service promises its callers, without threads, sessions or *)
(* clocks: one run at a time, every admitted run is decided once and for   *)
(* all, and when a run is admitted the Keep youngest decided runs, and no  *)
(* others, stay readable.                                                  *)
(***************************************************************************)
EXTENDS Naturals, FiniteSets

CONSTANTS
    Runs,   \* run identifiers: numbers, in the order of admission
    Keep    \* how many decided runs survive the admission of a new one

VARIABLE phase

Outcomes == {"completed", "failed"}

Decided == {r \in Runs : phase[r] \in Outcomes}

ServiceInit == phase = [r \in Runs |-> "unborn"]

\* Fewer than Keep decided runs are younger.
Survives(q) == Cardinality({p \in Decided : p > q}) < Keep

Admit(r) ==
    /\ \A q \in Runs : phase[q] # "active"
    /\ phase[r] = "unborn"
    /\ phase' = [q \in Runs |-> IF q = r THEN "active"
                                ELSE IF q \in Decided /\ ~Survives(q) THEN "forgotten"
                                ELSE phase[q]]

Decide(r) ==
    /\ phase[r] = "active"
    /\ \E outcome \in Outcomes : phase' = [phase EXCEPT ![r] = outcome]

ServiceNext == \E r \in Runs : Admit(r) \/ Decide(r)

ServiceSpec ==
    /\ ServiceInit
    /\ [][ServiceNext]_phase
    /\ \A r \in Runs : WF_phase(Decide(r))
=============================================================================
