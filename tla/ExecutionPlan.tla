--------------------------- MODULE ExecutionPlan ---------------------------
(***************************************************************************)
(* A v1 manifest with its test plan, and the schedule the executor derives *)
(* from them (execution_schedule.py): the selected setup steps, then the   *)
(* selected execution steps, partitioned into groups.                      *)
(*                                                                         *)
(* A step is named by its position in the manifest.  A lane is a sequence  *)
(* of steps that one thread executes: the setup phase or a group.          *)
(***************************************************************************)
EXTENDS Integers, FiniteSets, Sequences

CONSTANTS
    ManifestLength,   \* number of steps of the manifest
    Groups,           \* execution group identifiers
    Setup,            \* the lane of the setup phase
    Tokens,           \* semantic token identifiers
    NoToken           \* produces_token_id is None

ASSUME PlanAssumption ==
    /\ ManifestLength \in Nat
    /\ Setup \notin Groups
    /\ NoToken \notin Tokens

Steps == 1 .. ManifestLength

Lanes == Groups \union {Setup}

(***************************************************************************)
(* A placeholder reads a field of the response body of a step, the status  *)
(* code of the response, a field of the request, or a runtime token.  The  *)
(* manifest parser admits references to earlier steps of the manifest      *)
(* only, and does not ask whether anyone produces a token.                 *)
(***************************************************************************)
StepRefs(k) == [kind : {"body", "status", "request"}, step : 1 .. k - 1]

TokenRefs == [kind : {"token"}, token : Tokens]

Refs == UNION {StepRefs(k) : k \in Steps} \union TokenRefs

\* The placeholders of a step in the order they are resolved.  refs[k] are
\* those of the URL and the headers, or of the endpoint, client, redirect URI,
\* state and nonce of a PSU step; later[k] are those of the body, or of the
\* request object, which are looked at after a first round of checks.
Plans ==
    {p \in [selected : SUBSET Steps,
            setup : SUBSET Steps,                      \* phase is "setup"
            group : [Steps -> Groups],
            refs : [Steps -> Seq(Refs)],
            later : [Steps -> Seq(Refs)],
            unsupported : SUBSET Steps,                \* method is not a supported one
            produces : [Steps -> Tokens \union {NoToken}],
            psu : SUBSET Steps,                        \* kind is psu-authorization
            signs : SUBSET Steps,                      \* uses the signing service
            verifies : SUBSET Steps] :                 \* response_signature_policy
        /\ \A k \in Steps : \A i \in 1 .. Len(p.refs[k]) : p.refs[k][i] \in StepRefs(k) \union TokenRefs
        /\ \A k \in Steps : \A i \in 1 .. Len(p.later[k]) : p.later[k][i] \in StepRefs(k) \union TokenRefs
        /\ \A k \in p.psu : p.produces[k] = NoToken /\ k \notin p.verifies \union p.unsupported}

-----------------------------------------------------------------------------
(* build_execution_schedule                                                *)

LaneOf(p, k) == IF k \in p.setup THEN Setup ELSE p.group[k]

\* The steps of a lane, which run in manifest order.
LaneSteps(p, l) == {k \in p.selected : LaneOf(p, k) = l}

\* The steps that are over when a step starts.
Before(p, k) ==
    {j \in LaneSteps(p, LaneOf(p, k)) : j < k}
    \union (IF LaneOf(p, k) = Setup THEN {} ELSE LaneSteps(p, Setup))

GroupIds(p) == {g \in Groups : LaneSteps(p, g) # {}}

\* Groups are listed by first appearance.
ListedBefore(p, g, h) == \E k \in LaneSteps(p, g) : \A j \in LaneSteps(p, h) : k < j

=============================================================================
