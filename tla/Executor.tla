------------------------------ MODULE Executor ------------------------------
(***************************************************************************)
(* Execution of a v1 manifest (executor._run_manifest_v1): the setup steps *)
(* in the calling thread, then the execution groups on a thread pool, each *)
(* group on its own copy of the context that setup left behind.  Steps of  *)
(* all groups share two lazily filled caches, the signing service and the  *)
(* JWKS for response signatures, each behind a lock that is only taken     *)
(* when a first look finds the cache empty.                                *)
(*                                                                         *)
(* An action is what one thread does between two accesses to shared state  *)
(* or between two waits.  Placeholders are resolved against a context that *)
(* no other thread can see, so a step resolves all of them at once.  What  *)
(* the server, the PSU and the assertions say is left open.                *)
(***************************************************************************)
EXTENDS ExecutionContext

CONSTANTS
    CheckedPlans,   \* the plans under consideration
    MaxWorkers      \* _MAX_EXECUTION_GROUP_WORKERS

ASSUME ExecutorAssumption ==
    /\ CheckedPlans \subseteq Plans
    /\ MaxWorkers \in Nat \ {0}

VARIABLES
    plan,      \* the manifest and its test plan; never changes
    stage,     \* where _run_manifest_v1 is
    lane,      \* control state of the setup phase and of each group
    context,   \* execution context of each lane
    pc,        \* control state of each step
    reply,     \* what came back for the request of a step
    minted,    \* steps whose response had the access_token they produce
    result,    \* status of the step's StepResult
    signing,   \* _LazyFapiSigningService
    jwks,      \* _ResponseSignatureJwksCache
    report     \* the steps of the result, in order

stepVars == <<context, pc, reply, minted, result>>

vars == <<plan, stage, lane, stepVars, signing, jwks, report>>

NoStep == 0

Ended == {"completed", "raised"}

(***************************************************************************)
(* Control states of a step:                                               *)
(*   waiting     not started                                               *)
(*   signing     about to look for the signing service                     *)
(*   sign_lock   found none, about to take the lock                        *)
(*   building    builds the service, holds the lock                        *)
(*   publishing  has stored the service, sets _loaded next, holds the lock *)
(*   sending     about to send its request, or to wait for the PSU         *)
(*   verifying   has a response, about to look for the JWKS                *)
(*   jwks_lock   found none, about to take the lock                        *)
(*   fetching    fetches the JWKS, holds the lock                          *)
(*   judging     has the JWKS                                              *)
(*   done        has a result                                              *)
(*   raised      ended by an exception that no step handles                *)
(***************************************************************************)
Busy == {"signing", "sign_lock", "building", "publishing", "sending",
         "verifying", "jwks_lock", "fetching", "judging"}

StepStates == {"waiting", "done", "raised"} \union Busy

LaneStates == {"idle", "queued", "running", "done", "raised"}

\* "passed" stands for "warn" too: a manifest warning turns one into the other.
Verdicts == {"passed", "failed"}

Results == {"none", "skipped"} \union Verdicts

Lane(k) == LaneOf(plan, k)

StepsOf(l) == LaneSteps(plan, l)

Types ==
    /\ plan \in Plans
    /\ stage \in {"setup", "groups"} \union Ended
    /\ lane \in [Lanes -> LaneStates]
    /\ context \in [Lanes -> Contexts]
    /\ pc \in [Steps -> StepStates]
    /\ reply \in [Steps -> {"unsent", "error", "bare", "full"}]
    /\ minted \in SUBSET Steps
    /\ result \in [Steps -> Results]
    /\ signing \in [service : BOOLEAN, loaded : BOOLEAN, lock : Steps \union {NoStep}]
    /\ jwks \in [keys : BOOLEAN, lock : Steps \union {NoStep}]

Unanswered == {"waiting", "signing", "sign_lock", "building", "publishing", "sending"}

Answered == {"verifying", "jwks_lock", "fetching", "judging"}

RepliesMatch ==
    \A k \in Steps :
        /\ pc[k] \in Unanswered => reply[k] = "unsent"
        /\ pc[k] \in Answered => reply[k] \in {"bare", "full"}

\* Variables have their types, and a step has a reply of the kind that its
\* control state calls for.
TypeOK == Types /\ RepliesMatch

Init ==
    /\ plan \in CheckedPlans
    /\ stage = "setup"
    /\ lane = [l \in Lanes |-> IF l = Setup THEN "running" ELSE "idle"]
    /\ context = [l \in Lanes |-> EmptyContext]
    /\ pc = [k \in Steps |-> "waiting"]
    /\ reply = [k \in Steps |-> "unsent"]
    /\ minted = {}
    /\ result = [k \in Steps |-> "none"]
    /\ signing = [service |-> FALSE, loaded |-> FALSE, lock |-> NoStep]
    /\ jwks = [keys |-> FALSE, lock |-> NoStep]
    /\ report = <<>>

GoTo(k, where) == pc' = [pc EXCEPT ![k] = where]

\* The step returns its result and the context with its record, which the
\* next step of the lane starts from.
Finish(k, status, entry, has_access_token) ==
    /\ GoTo(k, "done")
    /\ result' = [result EXCEPT ![k] = status]
    /\ context' = [context EXCEPT ![Lane(k)] =
            record_runtime_token_if_present(record_step(@, k, entry), plan, k, has_access_token)]

\* A step that ends before it has a response.
FinishUnanswered(k, status) ==
    /\ Finish(k, status, "none", FALSE)
    /\ UNCHANGED minted

-----------------------------------------------------------------------------
(* _execute_v1_step_inner and _execute_v1_psu_step_inner                   *)

NextOfLane(k) ==
    /\ lane[Lane(k)] = "running"
    /\ k \in StepsOf(Lane(k))
    /\ pc[k] = "waiting"
    /\ \A j \in StepsOf(Lane(k)) : j < k => pc[j] = "done"

\* The request is made in rounds: the method, the first placeholders, checks
\* of what they gave (header values, or the URLs and the registration of the
\* PSU session), the later placeholders, and checks of the rest.  Every check
\* that fails ends the step there, so a step that would be skipped for a later
\* placeholder may fail before it comes to it.
Prepare(k) ==
    /\ NextOfLane(k)
    /\ LET first == resolve_placeholders(context[Lane(k)], plan.refs[k])
           later == resolve_placeholders(context[Lane(k)], plan.later[k])
       IN \/ k \in plan.unsupported /\ FinishUnanswered(k, "failed")
          \/ k \notin plan.unsupported /\ first = "missing" /\ FinishUnanswered(k, "skipped")
          \/ first = "error" /\ FinishUnanswered(k, "failed")
          \/ first = "ok" /\ FinishUnanswered(k, "failed")
          \/ /\ k \notin plan.unsupported /\ first = "ok" /\ later = "missing"
             /\ FinishUnanswered(k, "skipped")
          \/ /\ k \notin plan.unsupported /\ first = "ok" /\ later = "ok"
             /\ GoTo(k, IF k \in plan.signs THEN "signing" ELSE "sending")
             /\ UNCHANGED <<context, minted, result>>
    /\ UNCHANGED <<plan, stage, lane, reply, signing, jwks, report>>

\* _LazyFapiSigningService.get, the look without the lock.  A service that
\* is None fails the step.
LookForService(k) ==
    /\ pc[k] = "signing"
    /\ \/ ~signing.loaded /\ GoTo(k, "sign_lock") /\ UNCHANGED <<context, minted, result>>
       \/ signing.loaded /\ signing.service /\ GoTo(k, "sending") /\ UNCHANGED <<context, minted, result>>
       \/ signing.loaded /\ ~signing.service /\ FinishUnanswered(k, "failed")
    /\ UNCHANGED <<plan, stage, lane, reply, signing, jwks, report>>

\* The second look, with the lock.
LockService(k) ==
    /\ pc[k] = "sign_lock"
    /\ signing.lock = NoStep
    /\ IF signing.loaded
       THEN GoTo(k, "sending") /\ UNCHANGED signing
       ELSE GoTo(k, "building") /\ signing' = [signing EXCEPT !.lock = k]
    /\ UNCHANGED <<plan, stage, lane, context, reply, minted, result, jwks, report>>

\* Mutant of BuildService: the flag is set before the service is there.
BuildServiceFlagFirst(k) ==
    /\ pc[k] = "building"
    /\ signing' = [signing EXCEPT !.loaded = TRUE]
    /\ GoTo(k, "publishing")
    /\ UNCHANGED <<plan, stage, lane, context, reply, minted, result, jwks, report>>

\* Mutant of BuildService: a failure is tried again by the same step.
BuildServiceRetries(k) ==
    /\ pc[k] = "building"
    /\ \/ signing' = [signing EXCEPT !.service = TRUE] /\ GoTo(k, "publishing")
       \/ signing' = [signing EXCEPT !.lock = NoStep] /\ GoTo(k, "signing")
    /\ UNCHANGED <<plan, stage, lane, context, reply, minted, result, jwks, report>>

\* A failure releases the lock and leaves the cache empty.  Who gets here has
\* a signing configuration, so what is built is not None.
BuildService(k) ==
    /\ pc[k] = "building"
    /\ \/ /\ signing' = [signing EXCEPT !.service = TRUE]
          /\ GoTo(k, "publishing")
          /\ UNCHANGED <<context, minted, result>>
       \/ signing' = [signing EXCEPT !.lock = NoStep] /\ FinishUnanswered(k, "failed")
    /\ UNCHANGED <<plan, stage, lane, reply, jwks, report>>

PublishService(k) ==
    /\ pc[k] = "publishing"
    /\ signing' = [signing EXCEPT !.loaded = TRUE, !.lock = NoStep]
    /\ GoTo(k, "sending")
    /\ UNCHANGED <<plan, stage, lane, context, reply, minted, result, jwks, report>>

\* A signature that cannot be made ends the step before its request.  A PSU
\* step is answered by an authorisation code, or not at all.
Exchange(k) ==
    /\ pc[k] = "sending"
    /\ \/ k \in plan.signs /\ FinishUnanswered(k, "failed") /\ UNCHANGED reply
       \/ reply' = [reply EXCEPT ![k] = "error"] /\ FinishUnanswered(k, "failed")
       \/ /\ k \in plan.psu
          /\ reply' = [reply EXCEPT ![k] = "full"]
          /\ Finish(k, "passed", "full", FALSE)
          /\ UNCHANGED minted
       \/ \E entry \in {"bare", "full"}, has_access_token \in {FALSE, plan.produces[k] # NoToken} :
            /\ k \notin plan.psu
            /\ reply' = [reply EXCEPT ![k] = entry]
            /\ minted' = IF has_access_token THEN minted \union {k} ELSE minted
            /\ \/ /\ k \in plan.verifies
                  /\ GoTo(k, "verifying")
                  /\ UNCHANGED <<context, result>>
               \/ /\ k \notin plan.verifies
                  /\ \E status \in Verdicts : Finish(k, status, entry, has_access_token)
    /\ UNCHANGED <<plan, stage, lane, signing, jwks, report>>

\* A response was received: whatever the verdict, it is in the context.
FinishAnswered(k, status) ==
    /\ Finish(k, status, reply[k], k \in minted)
    /\ UNCHANGED <<reply, minted>>

\* _ResponseSignatureJwksCache.get, the look without the lock, after the
\* test for the signature header.
LookForKeys(k) ==
    /\ pc[k] = "verifying"
    /\ \/ FinishAnswered(k, "failed")
       \/ /\ GoTo(k, IF jwks.keys THEN "judging" ELSE "jwks_lock")
          /\ UNCHANGED <<context, reply, minted, result>>
    /\ UNCHANGED <<plan, stage, lane, signing, jwks, report>>

LockKeys(k) ==
    /\ pc[k] = "jwks_lock"
    /\ jwks.lock = NoStep
    /\ IF jwks.keys
       THEN GoTo(k, "judging") /\ UNCHANGED jwks
       ELSE GoTo(k, "fetching") /\ jwks' = [jwks EXCEPT !.lock = k]
    /\ UNCHANGED <<plan, stage, lane, context, reply, minted, result, signing, report>>

\* A failure releases the lock and leaves the cache empty: the next step
\* that needs the keys fetches again.
FetchKeys(k) ==
    /\ pc[k] = "fetching"
    /\ \/ /\ jwks' = [keys |-> TRUE, lock |-> NoStep]
          /\ GoTo(k, "judging")
          /\ UNCHANGED <<context, reply, minted, result>>
       \/ /\ jwks' = [jwks EXCEPT !.lock = NoStep]
          /\ FinishAnswered(k, "failed")
    /\ UNCHANGED <<plan, stage, lane, signing, report>>

\* Signature and assertions.
Judge(k) ==
    /\ pc[k] = "judging"
    /\ \E status \in Verdicts : FinishAnswered(k, status)
    /\ UNCHANGED <<plan, stage, lane, signing, jwks, report>>

Release(cache, k) == IF cache.lock = k THEN [cache EXCEPT !.lock = NoStep] ELSE cache

\* An exception that the step does not handle: the steps of the lane that
\* follow are not executed.  In the setup phase it is the end of the run; a
\* group keeps it in its future.
StepRaises(k) ==
    /\ NextOfLane(k) \/ pc[k] \in {"signing", "building", "sending", "verifying", "fetching", "judging"}
    /\ GoTo(k, "raised")
    /\ lane' = [lane EXCEPT ![Lane(k)] = "raised"]
    /\ stage' = IF Lane(k) = Setup THEN "raised" ELSE stage
    /\ signing' = Release(signing, k)
    /\ jwks' = Release(jwks, k)
    /\ UNCHANGED <<plan, context, reply, minted, result, report>>

-----------------------------------------------------------------------------
(* _run_manifest_v1 and _execute_v1_execution_groups_concurrently          *)

LaneIsThrough(l) == lane[l] = "running" /\ \A k \in StepsOf(l) : pc[k] = "done"

\* Mutant of SubmitGroups: the groups start from nothing.
SubmitGroupsEmptyContext ==
    /\ LaneIsThrough(Setup)
    /\ stage' = "groups"
    /\ lane' = [l \in Lanes |-> IF l = Setup THEN "done" ELSE IF l \in GroupIds(plan) THEN "queued" ELSE "idle"]
    /\ UNCHANGED <<plan, stepVars, signing, jwks, report>>

\* Mutant of SubmitGroups: a group may start while setup still runs.
SubmitGroupsEarly ==
    /\ stage = "setup"
    /\ lane[Setup] = "running"
    /\ stage' = "groups"
    /\ lane' = [l \in Lanes |-> IF l = Setup THEN "running" ELSE IF l \in GroupIds(plan) THEN "queued" ELSE "idle"]
    /\ context' = [l \in Lanes |-> context[Setup]]
    /\ UNCHANGED <<plan, pc, reply, minted, result, signing, jwks, report>>

\* Every group is handed the context of the setup phase.
SubmitGroups ==
    /\ LaneIsThrough(Setup)
    /\ stage' = "groups"
    /\ lane' = [l \in Lanes |-> IF l = Setup THEN "done" ELSE IF l \in GroupIds(plan) THEN "queued" ELSE "idle"]
    /\ context' = [l \in Lanes |-> context[Setup]]
    /\ UNCHANGED <<plan, pc, reply, minted, result, signing, jwks, report>>

Running == {g \in Groups : lane[g] = "running"}

\* A worker of the pool takes the group that was submitted first.
StartGroup(g) ==
    /\ lane[g] = "queued"
    /\ Cardinality(Running) < MaxWorkers
    /\ \A h \in GroupIds(plan) : ListedBefore(plan, h, g) => lane[h] # "queued"
    /\ lane' = [lane EXCEPT ![g] = "running"]
    /\ UNCHANGED <<plan, stage, stepVars, signing, jwks, report>>

GroupEnds(g) ==
    /\ LaneIsThrough(g)
    /\ lane' = [lane EXCEPT ![g] = "done"]
    /\ UNCHANGED <<plan, stage, stepVars, signing, jwks, report>>

Ascending(S) ==
    CHOOSE s \in [1..Cardinality(S) -> S] : \A i, j \in DOMAIN s : i < j => s[i] < s[j]

\* Results of all the groups, sorted by their index in the manifest.
completed_steps == Ascending(UNION {StepsOf(g) : g \in GroupIds(plan)})

GroupsAreOver == \A g \in GroupIds(plan) : lane[g] \in {"done", "raised"}

\* The pool waits for every group.  Then the futures are asked for their
\* results, and one exception loses all of them.
Join ==
    /\ stage = "groups"
    /\ GroupsAreOver
    /\ IF \E g \in GroupIds(plan) : lane[g] = "raised"
       THEN stage' = "raised" /\ UNCHANGED report
       ELSE stage' = "completed" /\ report' = Ascending(StepsOf(Setup)) \o completed_steps
    /\ UNCHANGED <<plan, lane, stepVars, signing, jwks>>

\* The run is over.
Rest == stage \in Ended /\ UNCHANGED vars

-----------------------------------------------------------------------------

StepProgress(k) ==
    \/ Prepare(k)
    \/ LookForService(k) \/ LockService(k) \/ BuildService(k) \/ PublishService(k)
    \/ Exchange(k)
    \/ LookForKeys(k) \/ LockKeys(k) \/ FetchKeys(k)
    \/ Judge(k)

GroupProgress(g) == StartGroup(g) \/ GroupEnds(g)

Next ==
    \/ \E k \in Steps : StepProgress(k) \/ StepRaises(k)
    \/ \E g \in Groups : GroupProgress(g)
    \/ SubmitGroups
    \/ Join
    \/ Rest

Spec == Init /\ [][Next]_vars

\* Threads are scheduled, requests time out and the wait for a PSU has a
\* deadline.  Exceptions are not owed to anybody.
Fairness ==
    /\ \A k \in Steps : WF_vars(StepProgress(k))
    /\ \A g \in Groups : WF_vars(GroupProgress(g))
    /\ WF_vars(SubmitGroups)
    /\ WF_vars(Join)

FairSpec == Spec /\ Fairness

-----------------------------------------------------------------------------
(* Properties                                                              *)

\* What a step may know: the setup steps, and the earlier steps of its lane.
Visible(l, j) == j \in StepsOf(Setup) \union StepsOf(l)

\* The record that step j leaves for those that may see it.
Record(j) == IF reply[j] \in {"bare", "full"} THEN reply[j] ELSE "none"

\* Groups do not share mutable context (_execute_v1_execution_groups_
\* concurrently): what a running lane knows of a step is what that step
\* left, if it is a finished step of the setup phase or of the lane itself,
\* and nothing otherwise, whatever other groups do in the meantime.
GroupsAreIsolated ==
    \A l \in Lanes : lane[l] \in {"queued", "running", "done"} =>
        \A j \in Steps :
            context[l].steps[j] = IF Visible(l, j) /\ pc[j] = "done" THEN Record(j) ELSE "absent"

\* What the steps before a step have left for it.
View(k) ==
    [steps |-> [j \in Steps |-> IF j \in Before(plan, k) THEN Record(j) ELSE "absent"],
     tokens |-> {plan.produces[j] : j \in minted \intersect Before(plan, k)} \ {NoToken}]

\* A step is skipped only because the first placeholder that cannot be
\* resolved names a token nobody issued or a step that got no response; it is
\* always skipped, and not failed, when that is one of the placeholders that
\* are looked at before anything else is checked; and no request leaves while
\* a placeholder of it is unresolved.  All of this is decided by what the steps
\* before it got, and not by how the groups were interleaved (_skipped_step).
SkipsAreExplained ==
    \A k \in Steps : pc[k] = "done" =>
        LET first == resolve_placeholders(View(k), plan.refs[k])
            later == resolve_placeholders(View(k), plan.later[k])
        IN /\ result[k] = "skipped" => first = "missing" \/ (first = "ok" /\ later = "missing")
           /\ k \notin plan.unsupported /\ first = "missing" => result[k] = "skipped"
           /\ k \in plan.unsupported \/ first # "ok" \/ later # "ok" =>
                  reply[k] = "unsent" /\ result[k] # "passed"

\* No execution step starts before every selected setup step has its result
\* (_run_manifest_v1).
SetupComesFirst ==
    \A k \in Steps :
        Lane(k) # Setup /\ pc[k] # "waiting" => \A j \in StepsOf(Setup) : pc[j] = "done"

\* The signing service is built at most once: whoever builds it is alone and
\* there is none yet (_LazyFapiSigningService.get: "loading it at most once").
ServiceIsBuiltOnce ==
    \A k \in Steps : pc[k] = "building" =>
        ~signing.service /\ \A j \in Steps \ {k} : pc[j] \notin {"building", "publishing"}

\* Nobody sees half of the signing service: a reader without the lock who
\* finds the flag set finds the service too, and a step that goes on to its
\* request has one (_LazyFapiSigningService.get).
ServiceIsSeenWhole ==
    /\ signing.loaded => signing.service
    /\ \A k \in plan.signs : pc[k] = "sending" => signing.service

\* The JWKS is fetched at most once with success, by one step at a time
\* (_ResponseSignatureJwksCache.get).
KeysAreFetchedOnce ==
    \A k \in Steps : pc[k] = "fetching" => ~jwks.keys /\ \A j \in Steps \ {k} : pc[j] # "fetching"

\* When the run is over, no step is under way or will start and no lock is
\* held: an exception in one group does not leave another group running
\* behind the caller's back.
NothingRunsAfterTheEnd ==
    stage \in Ended =>
        /\ \A k \in Steps : pc[k] \notin Busy
        /\ \A l \in Lanes : lane[l] \notin {"queued", "running"}
        /\ signing.lock = NoStep /\ jwks.lock = NoStep

\* Every run comes to its end: the caches' locks never block it for good.
RunEnds == <>(stage \in Ended)

Ordered == INSTANCE OrderedExecution WITH
    outcome <- result,
    over <- IF stage \in Ended THEN stage ELSE "no"

\* The threads implement the ordered execution of the plan's steps: a step
\* gets one result, after every step it may refer to, no result comes after
\* the end, and the run gets ahead until it is over.
ImplementsOrderedExecution == Ordered!FairSpec

=============================================================================
