-------------------------- MODULE ExecutionContext --------------------------
(***************************************************************************)
(* The immutable execution context (context.py): one entry per step that   *)
(* was executed, and the runtime tokens.  An entry is                      *)
(*   absent   the step has no record                                       *)
(*   none     it has a request record and no response                      *)
(*   bare     its response lacks the fields that placeholders name         *)
(*   full     its response has them                                        *)
(***************************************************************************)
EXTENDS ExecutionPlan

Entries == {"absent", "none", "bare", "full"}

Contexts == [steps : [Steps -> Entries], tokens : SUBSET Tokens]

EmptyContext == [steps |-> [k \in Steps |-> "absent"], tokens |-> {}]

\* Mutant of record_step: a step without a response leaves no record.
record_step_with_response(c, k, entry) ==
    IF entry = "none" THEN c ELSE [c EXCEPT !.steps[k] = entry]

record_step(c, k, entry) == [c EXCEPT !.steps[k] = entry]

\* A token is recorded when the step produces one and the response has a
\* non-empty access_token.
record_runtime_token_if_present(c, p, k, has_access_token) ==
    IF p.produces[k] # NoToken /\ has_access_token
    THEN [c EXCEPT !.tokens = @ \union {p.produces[k]}]
    ELSE c

(***************************************************************************)
(* One placeholder: "ok", "missing" (MissingPredecessorResponseError) or   *)
(* "error" (any other PlaceholderResolutionError).                         *)
(***************************************************************************)
resolve_token(c, t) == IF t \in c.tokens THEN "ok" ELSE "missing"

resolve_step(kind, entry) ==
    CASE entry = "absent" -> "error"
      [] entry # "absent" /\ kind = "request" -> "ok"
      [] entry = "none" /\ kind # "request" -> "missing"
      [] entry = "bare" /\ kind = "body" -> "error"
      [] OTHER -> "ok"

resolve_dot_path(c, ref) ==
    IF ref.kind = "token" THEN resolve_token(c, ref.token) ELSE resolve_step(ref.kind, c.steps[ref.step])

\* All placeholders of a step: the first that cannot be resolved decides.
resolve_placeholders(c, refs) ==
    LET unresolved == {i \in 1 .. Len(refs) : resolve_dot_path(c, refs[i]) # "ok"}
    IN IF unresolved = {}
       THEN "ok"
       ELSE resolve_dot_path(c, refs[CHOOSE i \in unresolved : \A j \in unresolved : i <= j])

=============================================================================
